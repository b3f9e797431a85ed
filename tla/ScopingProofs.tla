---------------------------- MODULE ScopingProofs ----------------------------
(***************************************************************************)
(* For every set of names, every list of builtins and every nesting: the   *)
(* tables stay well-typed, every captured symbol can be loaded by the      *)
(* function around it, every symbol by its own function, and no function   *)
(* captures a name twice; and the tables implement lexical scoping.        *)
(*                                                                         *)
(* The first properties are proved together, with one more fact that makes them  *)
(* inductive: a name that was captured stays in the store (Resolve would   *)
(* otherwise look past the table and capture it again).                    *)
(***************************************************************************)
EXTENDS Scoping, WellFoundedInduction, SequenceTheorems, TLAPS

CapturedNamesHeld ==
    \A k \in DOMAIN tables : \A i \in DOMAIN tables[k].FreeSymbols :
        Holds(tables[k], tables[k].FreeSymbols[i].name)

Inv == /\ TypeOK /\ CapturesLoadable /\ SymbolsLoadable /\ SlotsDistinct
       /\ CapturedOnce /\ CapturedNamesHeld

-----------------------------------------------------------------------------
(* Operators.                                                              *)

(* A non-empty set of positions has a last one: the CHOOSE of Home and     *)
(* LastPosition, the loops of Resolve and Define, are well defined.        *)
LEMMA LastExists ==
  ASSUME NEW n \in Nat, NEW S, S \subseteq 1..n, S # {}
  PROVE  \E m \in S : \A j \in S : j <= m
<1> DEFINE R == OpToRel(<, Nat)
           T == {n - i : i \in S}
<1>1. IsWellFoundedOn(R, Nat)
  BY NatLessThanWellFounded
<1> HIDE DEF R
<1>2. T \subseteq Nat
  OBVIOUS
<1>3. T # {}
  <2>1. PICK i \in S : TRUE
    OBVIOUS
  <2>2. n - i \in T
    BY <2>1
  <2> QED BY <2>2
<1> HIDE DEF T
<1>4. PICK x \in T : \A y \in T : ~ (<<y, x>> \in R)
  BY <1>1, <1>2, <1>3, WFMin
<1>5. PICK m \in S : x = n - m
  BY DEF T
<1>6. ASSUME NEW j \in S PROVE j <= m
  <2>1. n - j \in T /\ n - j \in Nat /\ x \in Nat
    BY <1>2 DEF T
  <2>2. ~ (n - j < x)
    BY <1>4, <2>1 DEF R, OpToRel
  <2> QED BY <2>2, <1>5
<1> QED BY <1>6

LEMMA LastPositionIn ==
  ASSUME NEW s \in Seq(Names), NEW x, Positions(s, x) # {}
  PROVE  LastPosition(s, x) \in 1..Len(s) /\ s[LastPosition(s, x)] = x
<1>1. Positions(s, x) \subseteq 1..Len(s)
  BY DEF Positions
<1>2. \E m \in Positions(s, x) : \A j \in Positions(s, x) : j <= m
  <2>1. Len(s) \in Nat
    OBVIOUS
  <2> QED BY ONLY <1>1, <2>1, LastExists, Positions(s, x) # {}
<1>3. LastPosition(s, x) \in Positions(s, x)
  BY <1>2 DEF LastPosition
<1> QED BY <1>1, <1>3 DEF Positions

LEMMA HomeIn ==
  ASSUME NEW chain \in Seq(TableType), NEW name \in Names, Resolvable(chain, name)
  PROVE  /\ Home(chain, name) \in 1..Len(chain)
         /\ Holds(chain[Home(chain, name)], name)
         /\ \A k \in 1..Len(chain) : Home(chain, name) < k => ~ Holds(chain[k], name)
<1> DEFINE H == Holders(chain, name)
<1>1. H \subseteq 1..Len(chain) /\ H # {}
  BY DEF Holders, Resolvable
<1>2. \E m \in H : \A j \in H : j <= m
  BY <1>1, LastExists
<1>3. Home(chain, name) \in H /\ \A j \in H : j <= Home(chain, name)
  BY <1>2 DEF Home
<1> QED BY <1>1, <1>3 DEF Holders

LEMMA EmptyTableType ==
  /\ EmptyTable \in TableType
  /\ \A x \in Names : ~ Holds(EmptyTable, x)
<1>1. EmptyTable.store \in [Names -> SymbolType \cup {NoSymbol}]
  BY DEF EmptyTable
<1>2. EmptyTable.FreeSymbols \in Seq(SymbolType) /\ EmptyTable.numDefinitions \in Nat
  BY DEF EmptyTable
<1> QED BY <1>1, <1>2 DEF EmptyTable, TableType, Holds

LEMMA SymbolTyped ==
  ASSUME NEW x \in Names, NEW scope \in Scopes, NEW index \in Nat
  PROVE  Symbol(x, scope, index) \in SymbolType /\ Symbol(x, scope, index) # NoSymbol
BY DEF Symbol, SymbolType, NoSymbol, Scopes

LEMMA ScopeHeld ==
  ASSUME NEW table, NEW x, table.store[x].scope \in {"GLOBAL", "LOCAL"}
  PROVE  Holds(table, x)
<1>1. NoSymbol.scope = ""
  BY DEF NoSymbol, Symbol
<1> QED BY <1>1 DEF Holds

LEMMA HeldTyped ==
  ASSUME NEW table \in TableType, NEW x \in Names, Holds(table, x)
  PROVE  table.store[x] \in SymbolType
BY DEF TableType, Holds

LEMMA TableTyped ==
  ASSUME NEW chain \in Seq(TableType), NEW k \in 1..Len(chain)
  PROVE  /\ chain[k] \in TableType
         /\ chain[k].numDefinitions \in Nat
         /\ chain[k].FreeSymbols \in Seq(SymbolType)
         /\ Len(chain[k].FreeSymbols) \in Nat
         /\ DOMAIN chain[k].FreeSymbols = 1..Len(chain[k].FreeSymbols)
         /\ \A i \in DOMAIN chain[k].FreeSymbols :
              /\ chain[k].FreeSymbols[i] \in SymbolType
              /\ chain[k].FreeSymbols[i].name \in Names
<1>1. chain[k] \in TableType
  OBVIOUS
<1>2. chain[k].numDefinitions \in Nat /\ chain[k].FreeSymbols \in Seq(SymbolType)
  BY <1>1 DEF TableType
<1>3. \A s \in SymbolType : s.name \in Names
  BY DEF SymbolType
<1> QED BY <1>1, <1>2, <1>3

(* What a series of Defines does to a table.                               *)
LEMMA AddSlotsTable ==
  ASSUME NEW table \in TableType, NEW scope \in Scopes, NEW names \in Seq(Names),
         NEW new, new = AddSlots(table, scope, names)
  PROVE  /\ new \in TableType
         /\ \A x \in Names : Positions(names, x) # {} =>
              /\ LastPosition(names, x) \in 1..Len(names)
              /\ names[LastPosition(names, x)] = x
              /\ Holds(new, x)
<1> DEFINE slot(x) == Symbol(x, scope, table.numDefinitions + LastPosition(names, x) - 1)
<1>1. ASSUME NEW x \in Names, Positions(names, x) # {}
      PROVE  /\ LastPosition(names, x) \in 1..Len(names)
             /\ names[LastPosition(names, x)] = x
             /\ slot(x) \in SymbolType
             /\ slot(x) # NoSymbol
  <2>1. LastPosition(names, x) \in 1..Len(names) /\ names[LastPosition(names, x)] = x
    BY <1>1, LastPositionIn
  <2>2. table.numDefinitions + LastPosition(names, x) - 1 \in Nat
    BY <2>1 DEF TableType
  <2> QED BY <2>1, <2>2, SymbolTyped
<1>2. new.store \in [Names -> SymbolType \cup {NoSymbol}]
  BY <1>1 DEF AddSlots, TableType
<1>3. new.numDefinitions \in Nat /\ new.FreeSymbols \in Seq(SymbolType)
  BY DEF AddSlots, TableType
<1>4. new \in TableType
  BY <1>2, <1>3 DEF AddSlots, TableType
<1> QED BY <1>1, <1>4 DEF AddSlots, Holds

(* What one Define does to a table: a slot above every other.              *)
LEMMA DefineTable ==
  ASSUME NEW table \in TableType, NEW scope \in Scopes, NEW name \in Names,
         NEW new, new = AddSlots(table, scope, <<name>>)
  PROVE  /\ new \in TableType
         /\ new.FreeSymbols = table.FreeSymbols
         /\ new.numDefinitions = table.numDefinitions + 1
         /\ \A x \in Names : x # name => new.store[x] = table.store[x]
         /\ new.store[name].name = name
         /\ new.store[name].scope = scope
         /\ new.store[name].index = table.numDefinitions
         /\ Holds(new, name)
<1>1. <<name>> \in Seq(Names) /\ Len(<<name>>) = 1
  OBVIOUS
<1>2. Positions(<<name>>, name) = {1} /\ LastPosition(<<name>>, name) = 1
  BY DEF Positions, LastPosition
<1>3. \A x \in Names : x # name => Positions(<<name>>, x) = {}
  BY DEF Positions
<1>4. new \in TableType /\ Holds(new, name)
  BY <1>1, <1>2, AddSlotsTable
<1>5. table.numDefinitions \in Nat
  BY DEF TableType
<1>6. new.store[name] = Symbol(name, scope, table.numDefinitions)
  BY <1>2, <1>5 DEF AddSlots
<1>7. /\ new.FreeSymbols = table.FreeSymbols
      /\ new.numDefinitions = table.numDefinitions + 1
      /\ \A x \in Names : x # name => new.store[x] = table.store[x]
  BY <1>1, <1>3 DEF AddSlots
<1> QED BY <1>4, <1>6, <1>7 DEF Symbol

(* What capturing a symbol does to a table that does not hold its name.    *)
LEMMA DefineFreeTable ==
  ASSUME NEW table \in TableType, NEW original \in SymbolType,
         NEW new, new = DefineFree(table, original)
  PROVE  LET n == Len(table.FreeSymbols)
         IN  /\ new \in TableType
             /\ n \in Nat
             /\ Len(new.FreeSymbols) = n + 1
             /\ \A i \in 1..n : new.FreeSymbols[i] = table.FreeSymbols[i]
             /\ new.FreeSymbols[n + 1] = original
             /\ new.numDefinitions = table.numDefinitions
             /\ new.store[original.name] = Symbol(original.name, "FREE", n)
             /\ Holds(new, original.name)
             /\ \A x \in Names \ {original.name} : new.store[x] = table.store[x]
<1> DEFINE n == Len(table.FreeSymbols)
           free == Symbol(original.name, "FREE", n)
<1>1. original.name \in Names /\ n \in Nat
  BY DEF SymbolType, TableType
<1>2. free \in SymbolType /\ free # NoSymbol /\ free.name = original.name
  BY <1>1, SymbolTyped DEF Scopes, Symbol
<1>3. new = [store          |-> [table.store EXCEPT ![original.name] = free],
             numDefinitions |-> table.numDefinitions,
             FreeSymbols    |-> Append(table.FreeSymbols, original)]
  BY <1>2 DEF DefineFree, Put, TableType
<1>4. new \in TableType
  BY <1>1, <1>2, <1>3 DEF TableType
<1>5. /\ new.store[original.name] = free
      /\ \A x \in Names \ {original.name} : new.store[x] = table.store[x]
  BY <1>1, <1>3 DEF TableType
<1>6. /\ Len(new.FreeSymbols) = n + 1
      /\ \A i \in 1..n : new.FreeSymbols[i] = table.FreeSymbols[i]
      /\ new.FreeSymbols[n + 1] = original
  BY <1>3 DEF TableType
<1> QED BY <1>1, <1>2, <1>3, <1>4, <1>5, <1>6 DEF Holds

\* What a function's own table holds before its body is compiled.
NewSymbol(s, x, params) ==
    /\ s.name = x
    /\ s.scope \in {"LOCAL", "FUNCTION"}
    /\ s.scope = "LOCAL" => /\ s.index = LastPosition(params, x) - 1
                            /\ LastPosition(params, x) \in 1..Len(params)
                            /\ params[LastPosition(params, x)] = x

(* The name of a function literal and its parameters, in its own table.    *)
LiteralSymbol(self, params, x) ==
    IF Positions(params, x) # {} THEN Symbol(x, "LOCAL", LastPosition(params, x) - 1)
    ELSE IF x = self THEN Symbol(x, "FUNCTION", 0) ELSE NoSymbol

StoresLiteral(table, self, params) ==
    \A x \in Names : table.store[x] = LiteralSymbol(self, params, x)

(* The tables after enterScope and the definitions of a function literal:  *)
(* one table more, whose names are parameters or the function's own name.  *)
LEMMA EnterTables ==
  ASSUME NEW chain \in Seq(TableType), Len(chain) > 0,
         NEW self \in Names \cup {NoName}, NEW params \in Seq(Names), NEW new,
         new = DefineEach(Named(NewEnclosedSymbolTable(chain), self), params)
  PROVE  LET top == Len(chain) + 1
         IN  /\ new \in Seq(TableType)
             /\ Len(new) = top
             /\ \A k \in 1..Len(chain) : new[k] = chain[k]
             /\ new[top].FreeSymbols = <<>>
             /\ new[top].numDefinitions = Len(params)
             /\ \A x \in Names : Holds(new[top], x) => NewSymbol(new[top].store[x], x, params)
             /\ StoresLiteral(new[top], self, params)
<1> DEFINE top == Len(chain) + 1
           opened == NewEnclosedSymbolTable(chain)
           named == Named(opened, self)
<1>1. /\ opened \in Seq(TableType) /\ Len(opened) = top
      /\ \A k \in 1..Len(chain) : opened[k] = chain[k]
      /\ opened[top] = EmptyTable
      /\ top \in 2..Len(opened)
  BY EmptyTableType DEF NewEnclosedSymbolTable
<1>2. /\ named \in Seq(TableType) /\ Len(named) = top
      /\ \A k \in 1..Len(chain) : named[k] = chain[k]
      /\ named[top].FreeSymbols = <<>>
      /\ named[top].numDefinitions = 0
      /\ \A x \in Names : Holds(named[top], x) => named[top].store[x] = Symbol(x, "FUNCTION", 0)
      /\ \A x \in Names : named[top].store[x] = IF x = self THEN Symbol(x, "FUNCTION", 0) ELSE NoSymbol
  <2>1. CASE self = NoName
    <3>1. named = opened /\ named[top] = EmptyTable
      BY <2>1, <1>1 DEF Named
    <3>2. EmptyTable.FreeSymbols = <<>> /\ EmptyTable.numDefinitions = 0
      BY DEF EmptyTable
    <3>3. \A x \in Names : EmptyTable.store[x] = NoSymbol /\ x # self
      BY <2>1, ScopingAssumption DEF EmptyTable
    <3> QED BY ONLY <1>1, <3>1, <3>2, <3>3, EmptyTableType
  <2>2. CASE self \in Names /\ self # NoName
    <3> DEFINE function == Symbol(self, "FUNCTION", 0)
               table == [EmptyTable EXCEPT !.store = Put(@, function)]
    <3>1. function \in SymbolType /\ function.name = self
      BY <2>2, SymbolTyped DEF Scopes, Symbol
    <3>2. table = [store          |-> [EmptyTable.store EXCEPT ![self] = function],
                   numDefinitions |-> 0,
                   FreeSymbols    |-> <<>>]
      BY <3>1 DEF Put, EmptyTable
    <3>3. table \in TableType
      BY <3>1, <3>2, EmptyTableType, ZenonT(40) DEF TableType
    <3>4. named = [opened EXCEPT ![top] = table]
      BY <1>1, <2>2 DEF Named, DefineFunctionName
    <3>5. /\ named \in Seq(TableType) /\ Len(named) = top
          /\ \A k \in 1..Len(chain) : named[k] = opened[k]
          /\ named[top] = table
      BY <1>1, <3>3, <3>4, ExceptSeq
    <3>6. \A x \in Names : Holds(table, x) => table.store[x] = Symbol(x, "FUNCTION", 0)
      BY <2>2, <3>2, EmptyTableType DEF Holds, EmptyTable
    <3>7. \A x \in Names : table.store[x] = IF x = self THEN Symbol(x, "FUNCTION", 0) ELSE NoSymbol
      <4> SUFFICES ASSUME NEW x \in Names
                   PROVE  table.store[x] = IF x = self THEN Symbol(x, "FUNCTION", 0) ELSE NoSymbol
        OBVIOUS
      <4>1. EmptyTable.store = [y \in Names |-> NoSymbol]
        BY DEF EmptyTable
      <4>2. table.store = [EmptyTable.store EXCEPT ![self] = function]
        BY <3>2
      <4> HIDE DEF table
      <4>3. CASE x = self
        BY <4>1, <4>2, <4>3
      <4>4. CASE x # self
        BY <4>1, <4>2, <4>4
      <4> QED BY <4>3, <4>4
    <3> QED BY <1>1, <3>2, <3>5, <3>6, <3>7, SMTT(30)
  <2> QED BY <2>1, <2>2
<1> DEFINE table == AddSlots(named[top], "LOCAL", params)
<1>3. new = [named EXCEPT ![top] = table]
  <2>1. Len(named) = top /\ top # 1
    BY <1>1, <1>2
  <2> QED BY <2>1 DEF DefineEach
<1>4. named[top] \in TableType /\ top \in 1..Len(named)
  BY <1>1, <1>2
<1>5. /\ table \in TableType
      /\ \A x \in Names : Positions(params, x) # {} =>
           LastPosition(params, x) \in 1..Len(params) /\ params[LastPosition(params, x)] = x
  BY <1>4, AddSlotsTable, SMTT(30) DEF Scopes
<1>6. /\ new \in Seq(TableType) /\ Len(new) = top
      /\ \A k \in 1..Len(chain) : new[k] = named[k]
      /\ new[top] = table
  BY <1>2, <1>3, <1>4, <1>5, ExceptSeq
<1>7. /\ table.FreeSymbols = <<>>
      /\ table.numDefinitions = Len(params)
  BY <1>2 DEF AddSlots
<1>8. ASSUME NEW x \in Names, Holds(table, x)
      PROVE  NewSymbol(table.store[x], x, params)
  <2>1. CASE Positions(params, x) = {}
    <3>1. table.store[x] = Symbol(x, "FUNCTION", 0)
      BY <1>2, <1>8, <2>1 DEF AddSlots, Holds
    <3> QED BY <3>1 DEF NewSymbol, Symbol
  <2>2. CASE Positions(params, x) # {}
    <3>1. table.store[x] = Symbol(x, "LOCAL", LastPosition(params, x) - 1)
      BY <1>2, <1>5, <2>2 DEF AddSlots
    <3> QED BY <1>5, <2>2, <3>1 DEF NewSymbol, Symbol
  <2> QED BY <2>1, <2>2
<1>9. ASSUME NEW x \in Names PROVE table.store[x] = LiteralSymbol(self, params, x)
  <2>1. CASE Positions(params, x) = {}
    BY <1>2, <2>1 DEF AddSlots, LiteralSymbol
  <2>2. CASE Positions(params, x) # {}
    <3>1. table.store[x] = Symbol(x, "LOCAL", LastPosition(params, x) - 1)
      BY <1>2, <1>5, <2>2 DEF AddSlots
    <3> QED BY <2>2, <3>1 DEF LiteralSymbol
  <2> QED BY <2>1, <2>2
<1>10. StoresLiteral(table, self, params)
  BY <1>9 DEF StoresLiteral
<1> QED BY <1>2, <1>6, <1>7, <1>8, <1>10

(* The tables after Resolve: those between the holder of the name and the  *)
(* last one have captured it, each from the table outside it.  The         *)
(* hypothesis on the stores is what SymbolsLoadable says of them.          *)
LEMMA ResolveTables ==
  ASSUME NEW chain \in Seq(TableType), NEW name \in Names, Resolvable(chain, name),
         HomeSymbol(chain, name).name = name,
         NEW new, new = Resolve(chain, name)
  PROVE  /\ new \in Seq(TableType)
         /\ Len(new) = Len(chain)
         /\ \A k \in 1..Len(chain) :
              /\ SymbolAt(chain, name, k) \in SymbolType
              /\ SymbolAt(chain, name, k).name = name
              /\ Captures(chain, name, k) =>
                   /\ k - 1 \in 1..Len(chain)
                   /\ ~ Holds(chain[k], name)
                   /\ new[k] = DefineFree(chain[k], SymbolAt(chain, name, k - 1))
              /\ ~ Captures(chain, name, k) => new[k] = chain[k]
<1> DEFINE home == Home(chain, name)
           free(k) == Symbol(HomeSymbol(chain, name).name, "FREE", Len(chain[k].FreeSymbols))
<1>1. /\ home \in 1..Len(chain)
      /\ Holds(chain[home], name)
      /\ \A k \in 1..Len(chain) : home < k => ~ Holds(chain[k], name)
  BY HomeIn
<1>2. Len(chain) \in Nat /\ DOMAIN chain = 1..Len(chain)
  OBVIOUS
<1>3. HomeSymbol(chain, name) \in SymbolType
  BY <1>1, HeldTyped DEF HomeSymbol
<1>4. ASSUME NEW k \in 1..Len(chain)
      PROVE  SymbolAt(chain, name, k) \in SymbolType /\ SymbolAt(chain, name, k).name = name
  <2>1. Len(chain[k].FreeSymbols) \in Nat
    BY DEF TableType
  <2>2. free(k) \in SymbolType /\ free(k).name = name
    BY <2>1, SymbolTyped DEF Scopes, Symbol
  <2> QED BY <1>3, <2>2 DEF SymbolAt
<1>5. ASSUME NEW k \in 1..Len(chain), Captures(chain, name, k)
      PROVE  /\ k - 1 \in 1..Len(chain)
             /\ ~ Holds(chain[k], name)
             /\ DefineFree(chain[k], SymbolAt(chain, name, k - 1)) \in TableType
  <2>1. home < k
    BY <1>5 DEF Captures
  <2>2. k - 1 \in 1..Len(chain)
    BY <1>1, <1>2, <2>1
  <2>3. SymbolAt(chain, name, k - 1) \in SymbolType
    BY <1>4, <2>2
  <2> QED BY <1>1, <2>1, <2>2, <2>3, DefineFreeTable
<1>6. \A k \in 1..Len(chain) :
        new[k] = IF Captures(chain, name, k)
                 THEN DefineFree(chain[k], SymbolAt(chain, name, k - 1))
                 ELSE chain[k]
  BY <1>2 DEF Resolve
<1>7. new \in Seq(TableType) /\ Len(new) = Len(chain)
  <2>1. new \in [1..Len(chain) -> TableType]
    <3>1. \A k \in 1..Len(chain) : new[k] \in TableType
      BY <1>5, <1>6
    <3> QED BY <1>2, <3>1 DEF Resolve
  <2> QED BY <1>2, <2>1
<1> QED BY <1>4, <1>5, <1>6, <1>7

-----------------------------------------------------------------------------
(* The initial state: the global table of builtins.                        *)
LEMMA InitInv ==
  ASSUME Init PROVE Inv
<1> USE ScopingAssumption
<1> DEFINE table == AddBuiltins(EmptyTable, Builtins)
<1>1. ASSUME NEW x \in Names, Positions(Builtins, x) # {}
      PROVE  /\ LastPosition(Builtins, x) \in 1..Len(Builtins)
             /\ Symbol(x, "BUILTIN", LastPosition(Builtins, x) - 1) \in SymbolType
  <2>1. LastPosition(Builtins, x) \in 1..Len(Builtins)
    BY <1>1, LastPositionIn
  <2>2. LastPosition(Builtins, x) - 1 \in Nat
    BY <2>1
  <2> QED BY <2>1, <2>2, SymbolTyped DEF Scopes
<1>2. table = [store          |-> [x \in Names |->
                                     IF Positions(Builtins, x) = {} THEN NoSymbol
                                     ELSE Symbol(x, "BUILTIN", LastPosition(Builtins, x) - 1)],
               numDefinitions |-> 0,
               FreeSymbols    |-> <<>>]
  BY DEF AddBuiltins, EmptyTable
<1>3. table \in TableType
  BY <1>1, <1>2 DEF TableType
<1>4. tables = <<table>>
  BY DEF Init, DefineBuiltins, NewSymbolTable
<1>5. /\ tables \in Seq(TableType) /\ Len(tables) = 1 /\ DOMAIN tables = {1}
      /\ tables[1] = table
  BY <1>3, <1>4
<1>6. TypeOK
  BY <1>5 DEF TypeOK, Init
<1>7. CapturesLoadable /\ CapturedOnce /\ CapturedNamesHeld
  BY <1>2, <1>5 DEF CapturesLoadable, CapturedOnce, CapturedNamesHeld
<1>8. ASSUME NEW x \in Names, table.store[x] # NoSymbol
      PROVE  /\ table.store[x].name = x
             /\ table.store[x].scope = "BUILTIN"
             /\ table.store[x].index < Len(Builtins)
  <2>1. Positions(Builtins, x) # {}
    BY <1>2, <1>8
  <2> QED BY <1>1, <1>2, <2>1 DEF Symbol
<1>9. SymbolsLoadable
  BY <1>5, <1>8 DEF SymbolsLoadable, Loadable, Holds
<1>10. SlotsDistinct
  BY <1>5, <1>8, ScopeHeld DEF SlotsDistinct, Holds
<1> QED BY <1>6, <1>7, <1>9, <1>10 DEF Inv

(* A table is added: the others keep their symbols, the new one has only   *)
(* parameters, each in a slot of its own, and the function's name.         *)
LEMMA EnterInv ==
  ASSUME Inv, NEW self \in Names \cup {NoName}, NEW params \in Params,
         EnterFunction(self, params)
  PROVE  Inv'
<1> USE DEF Inv
<1> DEFINE top == Len(tables) + 1
<1>1. params \in Seq(Names)
  BY ScopingAssumption
<1>2. /\ tables' \in Seq(TableType)
      /\ Len(tables') = top
      /\ \A k \in 1..Len(tables) : tables'[k] = tables[k]
      /\ tables'[top].FreeSymbols = <<>>
      /\ tables'[top].numDefinitions = Len(params)
      /\ \A x \in Names : Holds(tables'[top], x) =>
           NewSymbol(tables'[top].store[x], x, params)
  <2>1. tables \in Seq(TableType) /\ Len(tables) > 0
    BY DEF TypeOK
  <2>2. tables' = DefineEach(Named(NewEnclosedSymbolTable(tables), self), params)
    BY DEF EnterFunction
  <2> QED BY ONLY <1>1, <2>1, <2>2, EnterTables, self \in Names \cup {NoName}
<1>3. /\ DOMAIN tables' = 1..top /\ DOMAIN tables = 1..Len(tables)
      /\ Len(tables) \in Nat /\ Len(tables) >= 1
  BY <1>2 DEF TypeOK
<1>4. TypeOK'
  BY <1>2, <1>3 DEF TypeOK, EnterFunction
<1>5. CapturesLoadable' /\ CapturedOnce' /\ CapturedNamesHeld'
  BY <1>2, <1>3 DEF CapturesLoadable, CapturedOnce, CapturedNamesHeld, Loadable
<1> DEFINE table == tables'[top]
<1>6. \A x \in Names : Holds(table, x) => NewSymbol(table.store[x], x, params)
  BY <1>2
<1>7. table.numDefinitions = Len(params) /\ Len(params) \in Nat /\ top \in 2..top
  BY <1>1, <1>2, <1>3
<1> HIDE DEF table
<1>8. SymbolsLoadable'
  <2>1. ASSUME NEW k \in 1..Len(tables), NEW x \in Names, Holds(tables[k], x)
        PROVE  /\ tables[k].store[x].name = x
               /\ Loadable(tables', k, tables[k].store[x])
               /\ tables[k].store[x].scope = "FREE" =>
                    tables[k].FreeSymbols[tables[k].store[x].index + 1].name = x
    BY <1>2, <1>3, <2>1, SMTT(30) DEF SymbolsLoadable, Loadable
  <2>2. ASSUME NEW x \in Names, Holds(table, x)
        PROVE  /\ table.store[x].name = x
               /\ table.store[x].scope \in {"LOCAL", "FUNCTION"}
               /\ table.store[x].scope = "LOCAL" => table.store[x].index < table.numDefinitions
    BY <1>6, <1>7, <2>2 DEF NewSymbol
  <2>3. ASSUME NEW x \in Names, Holds(table, x)
        PROVE  Loadable(tables', top, table.store[x])
    BY <1>7, <2>2, <2>3 DEF Loadable, table
  <2>4. \A k \in 1..top : k \in 1..Len(tables) \/ k = top
    BY <1>3
  <2> QED BY <1>2, <1>3, <2>1, <2>2, <2>3, <2>4, SMTT(30) DEF SymbolsLoadable, table
<1>9. SlotsDistinct'
  <2>1. ASSUME NEW x \in Names, NEW y \in Names, x # y,
               table.store[x].scope \in {"GLOBAL", "LOCAL"},
               table.store[y].scope = table.store[x].scope
        PROVE  table.store[x].index # table.store[y].index
    <3>1. Holds(table, x) /\ Holds(table, y)
      BY <2>1, ScopeHeld
    <3>2. NewSymbol(table.store[x], x, params) /\ NewSymbol(table.store[y], y, params)
      BY <1>6, <3>1
    <3> QED BY <1>1, <2>1, <3>2 DEF NewSymbol
  <2> QED BY <1>2, <1>3, <2>1 DEF SlotsDistinct, table
<1> QED BY <1>4, <1>5, <1>8, <1>9

(* The last table gets one more slot, above every slot it has.             *)
LEMMA DeclareInv ==
  ASSUME Inv, NEW name \in Names, Declare(name)
  PROVE  Inv'
<1> USE DEF Inv
<1>1. PICK top \in Nat : top = Len(tables) /\ top > 0
  BY DEF TypeOK
<1>2. PICK scope \in {"GLOBAL", "LOCAL"} : scope = IF top = 1 THEN "GLOBAL" ELSE "LOCAL"
  OBVIOUS
<1>3. PICK new : new = AddSlots(tables[top], scope, <<name>>)
  OBVIOUS
<1>4. /\ tables \in Seq(TableType) /\ DOMAIN tables = 1..top
      /\ top \in 1..top
      /\ \A k \in 1..top : tables[k] \in TableType /\ tables[k].numDefinitions \in Nat
  BY <1>1, TableTyped DEF TypeOK
<1>5. /\ new \in TableType
      /\ new.FreeSymbols = tables[top].FreeSymbols
      /\ new.numDefinitions = tables[top].numDefinitions + 1
      /\ \A x \in Names : x # name => new.store[x] = tables[top].store[x]
      /\ new.store[name].name = name
      /\ new.store[name].scope = scope
      /\ new.store[name].index = tables[top].numDefinitions
      /\ Holds(new, name)
  <2>1. tables[top] \in TableType /\ scope \in Scopes
    BY <1>4 DEF Scopes
  <2> QED BY <1>3, <2>1, DefineTable
<1>6. /\ tables' \in Seq(TableType) /\ Len(tables') = top /\ DOMAIN tables' = 1..top
       /\ tables'[top] = new
       /\ \A k \in 1..top : k # top => tables'[k] = tables[k]
  <2>1. tables' = [tables EXCEPT ![top] = new]
    BY <1>1, <1>2, <1>3 DEF Declare, Define, DefineEach
  <2> QED BY <1>1, <1>4, <1>5, <2>1, ExceptSeq
<1>7. TypeOK'
  <2>1. resolved' = <<>>
    BY DEF Declare
  <2>2. tables' \in Seq(TableType)
    BY <1>6
  <2>3. Len(tables') > 0
    BY ONLY <1>1, <1>6
  <2> QED BY <2>1, <2>2, <2>3 DEF TypeOK
<1>8. ASSUME NEW k \in 1..top, NEW s \in SymbolType, Loadable(tables, k, s)
      PROVE  Loadable(tables', k, s)
  <2>1. /\ tables[1].numDefinitions <= tables'[1].numDefinitions
        /\ tables[k].numDefinitions <= tables'[k].numDefinitions
        /\ tables'[k].FreeSymbols = tables[k].FreeSymbols
        /\ tables[1].numDefinitions \in Nat /\ tables'[1].numDefinitions \in Nat
        /\ tables[k].numDefinitions \in Nat /\ tables'[k].numDefinitions \in Nat
    BY <1>1, <1>4, <1>6, <1>5, TableTyped
  <2>2. s.index \in Nat
    BY DEF SymbolType
  <2> QED BY <1>8, <2>1, <2>2 DEF Loadable
<1>9. \A k \in 1..top : tables'[k].FreeSymbols = tables[k].FreeSymbols
  BY <1>6, <1>5
<1>10. CapturesLoadable'
  <2> SUFFICES ASSUME NEW k \in 1..top, NEW i \in DOMAIN tables[k].FreeSymbols
               PROVE  LET s == tables[k].FreeSymbols[i]
                      IN  /\ k > 1 /\ s.scope \in {"LOCAL", "FREE", "FUNCTION"}
                          /\ Loadable(tables', k - 1, s)
    BY <1>6, <1>9 DEF CapturesLoadable
  <2> DEFINE s == tables[k].FreeSymbols[i]
  <2>1. k > 1 /\ s.scope \in {"LOCAL", "FREE", "FUNCTION"} /\ Loadable(tables, k - 1, s)
    BY <1>1, <1>4 DEF CapturesLoadable
  <2>2. s \in SymbolType /\ k - 1 \in 1..top
    BY <1>1, <1>4, <2>1, TableTyped
  <2> QED BY <1>8, <2>1, <2>2
<1>11. SymbolsLoadable'
  <2>1. ASSUME NEW k \in 1..top, NEW x \in Names, Holds(tables'[k], x),
               tables'[k].store[x] = tables[k].store[x]
        PROVE  LET s == tables'[k].store[x]
               IN  /\ s.name = x /\ Loadable(tables', k, s)
                   /\ s.scope = "FREE" => tables'[k].FreeSymbols[s.index + 1].name = x
    <3>1. Holds(tables[k], x) /\ tables[k] \in TableType
      BY <1>1, <1>4, <2>1 DEF Holds
    <3>2. tables[k].store[x] \in SymbolType
      BY <3>1, HeldTyped
    <3> QED BY <1>1, <1>4, <1>8, <1>9, <2>1, <3>1, <3>2, SMTT(30) DEF SymbolsLoadable
  <2>2. LET s == new.store[name]
        IN  s.name = name /\ Loadable(tables', top, s) /\ s.scope # "FREE"
    BY <1>1, <1>4, <1>2, <1>6, <1>5 DEF Loadable
  <2>3. \A k \in 1..top, x \in Names :
            tables'[k].store[x] = tables[k].store[x] \/ (k = top /\ x = name)
    BY <1>6, <1>5
  <2> QED BY <1>6, <2>1, <2>2, <2>3, SMTT(30) DEF SymbolsLoadable
<1>12. SlotsDistinct'
  <2>1. ASSUME NEW x \in Names, x # name, new.store[x].scope = scope
        PROVE  new.store[x].index # tables[top].numDefinitions
    <3>1. tables[top].store[x] = new.store[x] /\ Holds(tables[top], x) /\ tables[top].store[x] \in SymbolType
      BY <1>1, <1>4, <1>2, <1>5, <2>1, ScopeHeld, HeldTyped
    <3>2. Loadable(tables, top, tables[top].store[x])
      BY <1>1, <1>4, <1>6, <3>1 DEF SymbolsLoadable
    <3> QED BY <1>1, <1>4, <1>2, <1>6, <2>1, <3>1, <3>2 DEF Loadable, SymbolType
  <2>2. new.store[name].scope = scope /\ new.store[name].index = tables[top].numDefinitions
    BY <1>5
  <2>3. ASSUME NEW x \in Names, NEW y \in Names, x # y,
               new.store[x].scope \in {"GLOBAL", "LOCAL"},
               new.store[y].scope = new.store[x].scope
        PROVE  new.store[x].index # new.store[y].index
    <3>1. CASE x # name /\ y # name
      BY <1>1, <1>4, <1>6, <1>5, <2>3, <3>1 DEF SlotsDistinct
    <3>2. CASE x = name \/ y = name
      BY <1>2, <2>1, <2>2, <2>3, <3>2
    <3> QED BY <3>1, <3>2
  <2> QED BY <1>1, <1>4, <1>6, <2>3 DEF SlotsDistinct
<1>13. CapturedOnce'
  BY <1>1, <1>4, <1>6, <1>9 DEF CapturedOnce
<1>14. CapturedNamesHeld'
  <2>1. \A k \in 1..top : \A x \in Names : Holds(tables[k], x) => Holds(tables'[k], x)
    BY <1>6, <1>5 DEF Holds
  <2>2. \A k \in 1..top : \A i \in DOMAIN tables[k].FreeSymbols :
            tables[k].FreeSymbols[i].name \in Names
    BY <1>1, <1>4, TableTyped
  <2> QED BY <1>1, <1>4, <1>6, <1>9, <2>1, <2>2 DEF CapturedNamesHeld
<1> QED BY <1>7, <1>10, <1>11, <1>12, <1>13, <1>14

(* The outer tables are as they were before the function was entered, but  *)
(* for what was captured from them.                                        *)
LEMMA LeaveInv ==
  ASSUME Inv, LeaveFunction
  PROVE  Inv'
<1> USE DEF Inv
<1> DEFINE n == Len(tables) - 1
<1>1. /\ tables \in Seq(TableType) /\ DOMAIN tables = 1..Len(tables)
      /\ n \in Nat /\ n >= 1
  BY DEF TypeOK, LeaveFunction
<1>2. /\ tables' \in Seq(TableType) /\ Len(tables') = n
      /\ \A k \in 1..n : tables'[k] = tables[k]
  BY <1>1 DEF LeaveFunction
<1>3. DOMAIN tables' = 1..n /\ 1..n \subseteq 1..Len(tables) /\ 1 \in 1..n
  BY <1>1, <1>2
<1>4. TypeOK'
  BY <1>1, <1>2 DEF TypeOK, LeaveFunction
<1>5. \A k \in 1..n : \A s : Loadable(tables, k, s) => Loadable(tables', k, s)
  BY <1>2, <1>3 DEF Loadable
<1>6. CapturesLoadable'
  <2> SUFFICES ASSUME NEW k \in 1..n, NEW i \in DOMAIN tables[k].FreeSymbols
               PROVE  LET s == tables[k].FreeSymbols[i]
                      IN  /\ k > 1 /\ s.scope \in {"LOCAL", "FREE", "FUNCTION"}
                          /\ Loadable(tables', k - 1, s)
    BY <1>2, <1>3 DEF CapturesLoadable
  <2>1. LET s == tables[k].FreeSymbols[i]
        IN  k > 1 /\ s.scope \in {"LOCAL", "FREE", "FUNCTION"} /\ Loadable(tables, k - 1, s)
    BY <1>1, <1>3 DEF CapturesLoadable
  <2>2. k - 1 \in 1..n
    BY <1>1, <2>1
  <2> QED BY <1>5, <2>1, <2>2
<1>7. SymbolsLoadable'
  BY <1>1, <1>2, <1>3, <1>5 DEF SymbolsLoadable
<1>8. SlotsDistinct' /\ CapturedOnce' /\ CapturedNamesHeld'
  BY <1>1, <1>2, <1>3 DEF SlotsDistinct, CapturedOnce, CapturedNamesHeld
<1> QED BY <1>4, <1>6, <1>7, <1>8

(* What Use does to one table of the chain: nothing, or it captures the    *)
(* name, which it does not hold, from the table outside it.                *)
CapturesName(old, new, name, original) ==
    /\ ~ Holds(old, name)
    /\ Holds(new, name)
    /\ new.store[name].name = name
    /\ new.store[name].scope = "FREE"
    /\ new.store[name].index = Len(old.FreeSymbols)
    /\ \A x \in Names : x # name => new.store[x] = old.store[x]
    /\ new.numDefinitions = old.numDefinitions
    /\ Len(new.FreeSymbols) = Len(old.FreeSymbols) + 1
    /\ \A i \in 1..Len(old.FreeSymbols) : new.FreeSymbols[i] = old.FreeSymbols[i]
    /\ new.FreeSymbols[Len(old.FreeSymbols) + 1] = original

LEMMA CapturedSymbols ==
  ASSUME NEW old \in TableType, NEW new \in TableType, NEW name, NEW original,
         CapturesName(old, new, name, original)
  PROVE  LET n == Len(old.FreeSymbols)
         IN  /\ n \in Nat
             /\ DOMAIN old.FreeSymbols = 1..n
             /\ DOMAIN new.FreeSymbols = 1..(n + 1)
             /\ \A i \in 1..n : new.FreeSymbols[i] = old.FreeSymbols[i]
             /\ new.FreeSymbols[n + 1] = original
<1>1. old.FreeSymbols \in Seq(SymbolType) /\ new.FreeSymbols \in Seq(SymbolType)
  BY DEF TableType
<1> QED BY <1>1 DEF CapturesName

(* What a Use that finds the name does to each table of the chain.         *)
LEMMA UseCaptures ==
  ASSUME Inv, NEW name \in Names, Resolvable(tables, name), Use(name)
  PROVE  LET home == Home(tables, name)
             symbol == HomeSymbol(tables, name)
         IN  /\ tables' \in Seq(TableType)
             /\ Len(tables') = Len(tables)
             /\ resolved' = <<SymbolAt(tables, name, Len(tables))>>
             /\ home \in 1..Len(tables) /\ Holds(tables[home], name)
             /\ \A k \in 1..Len(tables) : home < k => ~ Holds(tables[k], name)
             /\ symbol \in SymbolType /\ symbol.name = name /\ Loadable(tables, home, symbol)
             /\ \A k \in 1..Len(tables) :
                  /\ SymbolAt(tables, name, k) \in SymbolType
                  /\ SymbolAt(tables, name, k).name = name
                  /\ Captures(tables, name, k) =>
                       /\ k > 1 /\ k - 1 \in 1..Len(tables)
                       /\ CapturesName(tables[k], tables'[k], name, SymbolAt(tables, name, k - 1))
                  /\ ~ Captures(tables, name, k) => tables'[k] = tables[k]
<1> USE DEF Inv
<1> DEFINE home == Home(tables, name)
           symbol == HomeSymbol(tables, name)
           at(k) == SymbolAt(tables, name, k)
<1>1. tables \in Seq(TableType) /\ DOMAIN tables = 1..Len(tables) /\ Len(tables) \in Nat
  BY DEF TypeOK
<1>2. /\ home \in 1..Len(tables) /\ Holds(tables[home], name)
      /\ \A k \in 1..Len(tables) : home < k => ~ Holds(tables[k], name)
  BY <1>1, HomeIn
<1>3. symbol \in SymbolType /\ symbol.name = name /\ Loadable(tables, home, symbol)
  BY <1>1, <1>2, HeldTyped DEF HomeSymbol, SymbolsLoadable
<1>4. /\ tables' \in Seq(TableType)
      /\ Len(tables') = Len(tables)
      /\ \A k \in 1..Len(tables) :
           /\ at(k) \in SymbolType
           /\ at(k).name = name
           /\ Captures(tables, name, k) =>
                /\ k - 1 \in 1..Len(tables)
                /\ ~ Holds(tables[k], name)
                /\ tables'[k] = DefineFree(tables[k], at(k - 1))
           /\ ~ Captures(tables, name, k) => tables'[k] = tables[k]
  BY <1>1, <1>3, ResolveTables DEF Use
<1>5. resolved' = <<at(Len(tables))>>
  BY DEF Use, Resolved
<1>6. ASSUME NEW k \in 1..Len(tables), Captures(tables, name, k)
      PROVE  /\ k > 1
             /\ at(k - 1) \in SymbolType /\ at(k - 1).name = name
             /\ CapturesName(tables[k], tables'[k], name, at(k - 1))
  <2>1. k - 1 \in 1..Len(tables) /\ ~ Holds(tables[k], name)
        /\ tables'[k] = DefineFree(tables[k], at(k - 1))
    BY <1>4, <1>6
  <2>2. at(k - 1) \in SymbolType /\ at(k - 1).name = name /\ tables[k] \in TableType
    BY <1>1, <1>4, <2>1
  <2>3. PICK original \in SymbolType : original = at(k - 1)
    BY <2>2
  <2>4. PICK new : new = tables'[k]
    OBVIOUS
  <2>5. CapturesName(tables[k], new, name, original)
    <3>1. PICK old \in TableType : old = tables[k]
      BY <2>2
    <3>2. new = DefineFree(old, original) /\ original.name = name
      BY <2>1, <2>2, <2>3, <2>4, <3>1
    <3>3. new.store[name] = Symbol(name, "FREE", Len(old.FreeSymbols))
      BY <3>2, DefineFreeTable
    <3>4. CapturesName(old, new, name, original)
      BY <2>1, <3>1, <3>2, <3>3, DefineFreeTable, SMTT(30) DEF CapturesName, Symbol
    <3> QED BY <3>1, <3>4
  <2> QED BY <2>1, <2>2, <2>3, <2>4, <2>5
<1> QED BY <1>2, <1>3, <1>4, <1>5, <1>6

(* The chain after a Use that finds the name: each table kept or captured, *)
(* and what a table captured is loadable in the table outside it.          *)
LEMMA UseTables ==
  ASSUME Inv, NEW name \in Names, Resolvable(tables, name), Use(name)
  PROVE  /\ tables' \in Seq(TableType)
         /\ Len(tables') = Len(tables)
         /\ resolved' \in Seq(SymbolType)
         /\ \A k \in 1..Len(tables) :
              \/ tables'[k] = tables[k]
              \/ /\ k > 1
                 /\ \E original \in SymbolType :
                      /\ original.name = name
                      /\ original.scope \in {"LOCAL", "FREE", "FUNCTION"}
                      /\ Loadable(tables', k - 1, original)
                      /\ CapturesName(tables[k], tables'[k], name, original)
<1> USE DEF Inv
<1> DEFINE home == Home(tables, name)
           symbol == HomeSymbol(tables, name)
           at(k) == SymbolAt(tables, name, k)
<1>1. tables \in Seq(TableType) /\ DOMAIN tables = 1..Len(tables) /\ Len(tables) \in Nat
      /\ Len(tables) \in 1..Len(tables)
  BY DEF TypeOK
<1>2. home \in 1..Len(tables) /\ Holds(tables[home], name)
  BY UseCaptures
<1>3. symbol \in SymbolType /\ symbol.name = name /\ Loadable(tables, home, symbol)
  BY UseCaptures
<1>4. /\ tables' \in Seq(TableType)
      /\ Len(tables') = Len(tables)
      /\ \A k \in 1..Len(tables) :
           /\ at(k) \in SymbolType
           /\ at(k).name = name
           /\ Captures(tables, name, k) => k - 1 \in 1..Len(tables)
           /\ ~ Captures(tables, name, k) => tables'[k] = tables[k]
  BY UseCaptures
<1>5. resolved' \in Seq(SymbolType)
  <2>1. resolved' = <<at(Len(tables))>> /\ at(Len(tables)) \in SymbolType
    BY <1>1, <1>4, UseCaptures
  <2> QED BY <2>1
<1>6. ASSUME NEW k \in 1..Len(tables), Captures(tables, name, k)
      PROVE  /\ k > 1
             /\ at(k - 1) \in SymbolType /\ at(k - 1).name = name
             /\ CapturesName(tables[k], tables'[k], name, at(k - 1))
  BY <1>4, <1>6, UseCaptures
<1>7. ASSUME NEW k \in 1..Len(tables), Captures(tables, name, k)
      PROVE  /\ at(k - 1).scope \in {"LOCAL", "FREE", "FUNCTION"}
             /\ Loadable(tables', k - 1, at(k - 1))
  <2>1. /\ home < k /\ symbol.scope \notin {"GLOBAL", "BUILTIN"}
        /\ k > 1 /\ k - 1 \in 1..Len(tables)
    BY <1>4, <1>6, <1>7 DEF Captures
  <2>2. CASE Captures(tables, name, k - 1)
    <3>1. at(k - 1) = Symbol(name, "FREE", Len(tables[k - 1].FreeSymbols))
      BY <1>3, <2>2 DEF SymbolAt
    <3>2. k - 1 > 1 /\ Len(tables'[k - 1].FreeSymbols) = Len(tables[k - 1].FreeSymbols) + 1
      BY <1>6, <2>1, <2>2 DEF CapturesName
    <3>3. Len(tables[k - 1].FreeSymbols) \in Nat
      BY <1>1, <2>1, TableTyped
    <3> QED BY <3>1, <3>2, <3>3 DEF Loadable, Symbol
  <2>3. CASE ~ Captures(tables, name, k - 1)
    <3>1. home = k - 1
      BY <1>2, <2>1, <2>3 DEF Captures
    <3>2. at(k - 1) = symbol /\ tables'[k - 1] = tables[k - 1]
      BY <1>4, <2>1, <2>3 DEF SymbolAt
    <3> QED BY <1>3, <2>1, <3>1, <3>2 DEF Loadable, SymbolType, Scopes
  <2> QED BY <2>2, <2>3
<1>8. ASSUME NEW k \in 1..Len(tables)
      PROVE  \/ tables'[k] = tables[k]
             \/ /\ k > 1
                /\ \E original \in SymbolType :
                     /\ original.name = name
                     /\ original.scope \in {"LOCAL", "FREE", "FUNCTION"}
                     /\ Loadable(tables', k - 1, original)
                     /\ CapturesName(tables[k], tables'[k], name, original)
  <2>1. CASE Captures(tables, name, k)
    BY <1>6, <1>7, <2>1
  <2>2. CASE ~ Captures(tables, name, k)
    BY <1>4, <2>2
  <2> QED BY <2>1, <2>2
<1> QED BY <1>4, <1>5, <1>8

LEMMA UseInv ==
  ASSUME Inv, NEW name \in Names, Use(name)
  PROVE  Inv'
<1> USE DEF Inv
<1>1. CASE ~ Resolvable(tables, name)
  <2>1. tables' = tables /\ resolved' = <<>>
    BY <1>1 DEF Use
  <2> QED BY <2>1 DEF TypeOK, CapturesLoadable, SymbolsLoadable, SlotsDistinct,
                      CapturedOnce, CapturedNamesHeld
<1>2. CASE Resolvable(tables, name)
  <2>1. PICK top \in Nat : top = Len(tables) /\ top > 0
    BY DEF TypeOK
  <2>2. /\ tables \in Seq(TableType) /\ DOMAIN tables = 1..top
        /\ tables' \in Seq(TableType) /\ DOMAIN tables' = 1..top
        /\ Len(tables') = top /\ resolved' \in Seq(SymbolType)
    BY <1>2, <2>1, UseTables DEF TypeOK
  <2>3. ASSUME NEW k \in 1..top
        PROVE  \/ tables'[k] = tables[k]
               \/ /\ k > 1
                  /\ \E original \in SymbolType :
                       /\ original.name = name
                       /\ original.scope \in {"LOCAL", "FREE", "FUNCTION"}
                       /\ Loadable(tables', k - 1, original)
                       /\ CapturesName(tables[k], tables'[k], name, original)
    BY <1>2, <2>1, UseTables
  <2>4. ASSUME NEW k \in 1..top
        PROVE  /\ tables[k] \in TableType /\ tables'[k] \in TableType
               /\ Len(tables[k].FreeSymbols) \in Nat
               /\ DOMAIN tables[k].FreeSymbols = 1..Len(tables[k].FreeSymbols)
               /\ DOMAIN tables'[k].FreeSymbols = 1..Len(tables'[k].FreeSymbols)
               /\ \A i \in DOMAIN tables[k].FreeSymbols :
                    /\ tables[k].FreeSymbols[i] \in SymbolType
                    /\ tables[k].FreeSymbols[i].name \in Names
    <3>1. k \in 1..Len(tables) /\ k \in 1..Len(tables')
      BY <2>1, <2>2
    <3> QED BY <2>2, <3>1, TableTyped
  <2>5. TypeOK'
    BY <2>1, <2>2 DEF TypeOK
  <2>6. ASSUME NEW k \in 1..top, NEW s \in SymbolType, Loadable(tables, k, s)
        PROVE  Loadable(tables', k, s)
    <3>1. ASSUME NEW j \in 1..top
          PROVE  /\ tables'[j].numDefinitions = tables[j].numDefinitions
                 /\ Len(tables[j].FreeSymbols) <= Len(tables'[j].FreeSymbols)
                 /\ Len(tables'[j].FreeSymbols) \in Nat
      BY <2>3, <2>4 DEF CapturesName
    <3>2. 1 \in 1..top /\ s.index \in Nat
      BY <2>1 DEF SymbolType
    <3> QED BY <2>4, <2>6, <3>1, <3>2, SMTT(30) DEF Loadable
  <2>7. CapturesLoadable'
    <3> SUFFICES ASSUME NEW k \in 1..top, NEW i \in DOMAIN tables'[k].FreeSymbols
                 PROVE  LET s == tables'[k].FreeSymbols[i]
                        IN  /\ k > 1 /\ s.scope \in {"LOCAL", "FREE", "FUNCTION"}
                            /\ Loadable(tables', k - 1, s)
      BY <2>2 DEF CapturesLoadable
    <3>1. CASE /\ i \in DOMAIN tables[k].FreeSymbols
               /\ tables'[k].FreeSymbols[i] = tables[k].FreeSymbols[i]
      <4>1. LET s == tables[k].FreeSymbols[i]
            IN  /\ k > 1 /\ s.scope \in {"LOCAL", "FREE", "FUNCTION"}
                /\ Loadable(tables, k - 1, s) /\ s \in SymbolType
        BY <2>2, <2>4, <3>1 DEF CapturesLoadable
      <4>2. k - 1 \in 1..top
        BY <4>1
      <4> QED BY <2>6, <3>1, <4>1, <4>2
    <3>2. CASE ~ (/\ i \in DOMAIN tables[k].FreeSymbols
                  /\ tables'[k].FreeSymbols[i] = tables[k].FreeSymbols[i])
      <4>1. tables'[k] # tables[k]
        BY <3>2
      <4>2. PICK original \in SymbolType :
              /\ k > 1
              /\ original.scope \in {"LOCAL", "FREE", "FUNCTION"}
              /\ Loadable(tables', k - 1, original)
              /\ CapturesName(tables[k], tables'[k], name, original)
        BY <2>3, <4>1
      <4>3. PICK n \in Nat :
              /\ DOMAIN tables[k].FreeSymbols = 1..n
              /\ DOMAIN tables'[k].FreeSymbols = 1..(n + 1)
              /\ \A j \in 1..n : tables'[k].FreeSymbols[j] = tables[k].FreeSymbols[j]
              /\ tables'[k].FreeSymbols[n + 1] = original
        <5>1. tables[k] \in TableType /\ tables'[k] \in TableType
          BY <2>4
        <5>2. LET m == Len(tables[k].FreeSymbols)
              IN  /\ m \in Nat
                  /\ DOMAIN tables[k].FreeSymbols = 1..m
                  /\ DOMAIN tables'[k].FreeSymbols = 1..(m + 1)
                  /\ \A j \in 1..m : tables'[k].FreeSymbols[j] = tables[k].FreeSymbols[j]
                  /\ tables'[k].FreeSymbols[m + 1] = original
          <6>1. CapturesName(tables[k], tables'[k], name, original)
            BY <4>2
          <6> QED BY ONLY <5>1, <6>1, CapturedSymbols, SMTT(30)
        <5> QED BY ONLY <5>2
      <4>4. tables'[k].FreeSymbols[i] = original
        <5>1. i \in 1..n \/ i = n + 1
          BY <4>3
        <5> QED BY <3>2, <4>3, <5>1
      <4> QED BY <4>2, <4>4
    <3> QED BY <3>1, <3>2
  <2>8. SymbolsLoadable'
    <3> SUFFICES ASSUME NEW k \in 1..top, NEW x \in Names, Holds(tables'[k], x)
                 PROVE  LET s == tables'[k].store[x]
                        IN  /\ s.name = x /\ Loadable(tables', k, s)
                            /\ s.scope = "FREE" =>
                                 tables'[k].FreeSymbols[s.index + 1].name = x
      BY <2>2, SMTT(30) DEF SymbolsLoadable
    <3>1. CASE tables'[k] = tables[k]
      <4>1. tables[k].store[x] \in SymbolType
        BY <2>4, <3>1, HeldTyped
      <4> QED BY <2>2, <2>6, <3>1, <4>1 DEF SymbolsLoadable
    <3>2. CASE tables'[k] # tables[k]
      <4>1. PICK original \in SymbolType :
              /\ k > 1 /\ original.name = name
              /\ CapturesName(tables[k], tables'[k], name, original)
        BY <2>3, <3>2
      <4>2. CASE x = name
        <5>1. LET n == Len(tables[k].FreeSymbols)
              IN  /\ n \in Nat /\ DOMAIN tables'[k].FreeSymbols = 1..(n + 1)
                  /\ tables'[k].FreeSymbols[n + 1] = original
          BY <2>4, <4>1, CapturedSymbols
        <5>2. Len(tables'[k].FreeSymbols) = Len(tables[k].FreeSymbols) + 1
          BY <4>1 DEF CapturesName
        <5>3. LET s == tables'[k].store[x]
              IN  s.name = x /\ s.scope = "FREE" /\ s.index = Len(tables[k].FreeSymbols)
          BY <4>1, <4>2 DEF CapturesName
        <5>4. Loadable(tables', k, tables'[k].store[x])
          BY <4>1, <5>1, <5>2, <5>3 DEF Loadable
        <5> QED BY <4>1, <4>2, <5>1, <5>3, <5>4
      <4>3. CASE x # name
        <5>1. tables'[k].store[x] = tables[k].store[x] /\ Holds(tables[k], x)
          BY <4>1, <4>3 DEF CapturesName, Holds
        <5>2. tables[k].store[x] \in SymbolType
          BY <2>4, <5>1, HeldTyped
        <5>3. LET s == tables[k].store[x]
              IN  /\ s.name = x /\ Loadable(tables, k, s) /\ s.index \in Nat
                  /\ s.scope = "FREE" => tables[k].FreeSymbols[s.index + 1].name = x
          BY <2>2, <5>1, <5>2 DEF SymbolsLoadable, SymbolType
        <5>4. LET s == tables[k].store[x]
              IN  s.scope = "FREE" =>
                    tables'[k].FreeSymbols[s.index + 1] = tables[k].FreeSymbols[s.index + 1]
          <6> SUFFICES ASSUME tables[k].store[x].scope = "FREE"
                       PROVE  tables'[k].FreeSymbols[tables[k].store[x].index + 1]
                                = tables[k].FreeSymbols[tables[k].store[x].index + 1]
            OBVIOUS
          <6>1. PICK n \in Nat : n = Len(tables[k].FreeSymbols)
            BY <2>4
          <6>2. tables[k].store[x].index \in 0..(n - 1)
            BY <5>3, <6>1 DEF Loadable
          <6>3. \A i \in 1..n : tables'[k].FreeSymbols[i] = tables[k].FreeSymbols[i]
            BY <4>1, <6>1 DEF CapturesName
          <6>4. tables[k].store[x].index + 1 \in 1..n
            BY <6>1, <6>2, SMTT(30)
          <6> QED BY <6>3, <6>4
        <5> QED BY <2>6, <5>1, <5>2, <5>3, <5>4
      <4> QED BY <4>2, <4>3
    <3> QED BY <3>1, <3>2
  <2>9. SlotsDistinct'
    <3> SUFFICES ASSUME NEW k \in 1..top, NEW x \in Names, NEW y \in Names, x # y,
                        tables'[k].store[x].scope \in {"GLOBAL", "LOCAL"},
                        tables'[k].store[y].scope = tables'[k].store[x].scope
                 PROVE  tables'[k].store[x].index # tables'[k].store[y].index
      BY <2>2 DEF SlotsDistinct
    <3>1. /\ tables'[k].store[x] = tables[k].store[x]
          /\ tables'[k].store[y] = tables[k].store[y]
      BY <2>3 DEF CapturesName
    <3> QED BY <2>2, <3>1 DEF SlotsDistinct
  <2>10. CapturedOnce'
    <3>1. ASSUME NEW k \in 1..top, tables'[k] # tables[k]
          PROVE  \A i, j \in DOMAIN tables'[k].FreeSymbols :
                    tables'[k].FreeSymbols[i].name = tables'[k].FreeSymbols[j].name => i = j
      <4>1. PICK original \in SymbolType :
              original.name = name /\ CapturesName(tables[k], tables'[k], name, original)
        BY <2>3, <3>1
      <4>2. PICK n \in Nat :
              /\ DOMAIN tables[k].FreeSymbols = 1..n
              /\ DOMAIN tables'[k].FreeSymbols = 1..(n + 1)
              /\ \A i \in 1..n : tables'[k].FreeSymbols[i] = tables[k].FreeSymbols[i]
              /\ tables'[k].FreeSymbols[n + 1] = original
        <5>1. tables[k] \in TableType /\ tables'[k] \in TableType
          BY <2>4
        <5>2. LET m == Len(tables[k].FreeSymbols)
              IN  /\ m \in Nat
                  /\ DOMAIN tables[k].FreeSymbols = 1..m
                  /\ DOMAIN tables'[k].FreeSymbols = 1..(m + 1)
                  /\ \A j \in 1..m : tables'[k].FreeSymbols[j] = tables[k].FreeSymbols[j]
                  /\ tables'[k].FreeSymbols[m + 1] = original
          BY <4>1, <5>1, CapturedSymbols, SMTT(30)
        <5> QED BY ONLY <5>2
      <4>3. \A i \in 1..n : tables[k].FreeSymbols[i].name # name
        BY <2>2, <4>1, <4>2, ZenonT(40) DEF CapturesName, CapturedNamesHeld
      <4>4. \A i, j \in 1..n :
              tables[k].FreeSymbols[i].name = tables[k].FreeSymbols[j].name => i = j
        BY <2>2, <4>2 DEF CapturedOnce
      <4>5. \A i \in 1..(n + 1) : i \in 1..n \/ i = n + 1
        OBVIOUS
      <4> QED BY <4>1, <4>2, <4>3, <4>4, <4>5
    <3> QED BY <2>2, <3>1 DEF CapturedOnce
  <2>11. CapturedNamesHeld'
    <3> SUFFICES ASSUME NEW k \in 1..top, tables'[k] # tables[k],
                        NEW i \in DOMAIN tables'[k].FreeSymbols
                 PROVE  Holds(tables'[k], tables'[k].FreeSymbols[i].name)
      BY <2>2 DEF CapturedNamesHeld
    <3>1. PICK original \in SymbolType :
            original.name = name /\ CapturesName(tables[k], tables'[k], name, original)
      BY <2>3
    <3>2. CASE i \in DOMAIN tables[k].FreeSymbols
      <4>1. tables'[k].FreeSymbols[i] = tables[k].FreeSymbols[i]
        BY <2>4, <3>1, <3>2 DEF CapturesName
      <4>2. LET x == tables[k].FreeSymbols[i].name IN Holds(tables[k], x) /\ x \in Names
        BY <2>2, <2>4, <3>2 DEF CapturedNamesHeld
      <4> QED BY <3>1, <4>1, <4>2 DEF CapturesName, Holds
    <3>3. CASE i = Len(tables[k].FreeSymbols) + 1
      BY <3>1, <3>3 DEF CapturesName
    <3>4. i \in DOMAIN tables[k].FreeSymbols \/ i = Len(tables[k].FreeSymbols) + 1
      BY <2>4, <3>1 DEF CapturesName
    <3> QED BY <3>2, <3>3, <3>4
  <2> QED BY <2>5, <2>7, <2>8, <2>9, <2>10, <2>11
<1> QED BY <1>1, <1>2

-----------------------------------------------------------------------------
(* Every reachable chain of tables satisfies the inductive invariant.      *)
THEOREM SpecInv == Spec => []Inv
<1>1. Init => Inv
  BY InitInv
<1>2. Inv /\ [Next]_vars => Inv'
  <2> SUFFICES ASSUME Inv, [Next]_vars PROVE Inv'
    OBVIOUS
  <2>1. ASSUME NEW self \in Names \cup {NoName}, NEW params \in Params,
               EnterFunction(self, params)
        PROVE  Inv'
    BY <2>1, EnterInv
  <2>2. ASSUME NEW name \in Names, Declare(name) PROVE Inv'
    BY <2>2, DeclareInv
  <2>3. ASSUME NEW name \in Names, Use(name) PROVE Inv'
    BY <2>3, UseInv
  <2>4. CASE LeaveFunction
    BY <2>4, LeaveInv
  <2>5. CASE UNCHANGED vars
    BY <2>5 DEF vars, Inv, TypeOK, CapturesLoadable, SymbolsLoadable, SlotsDistinct,
                CapturedOnce, CapturedNamesHeld
  <2> QED BY <2>1, <2>2, <2>3, <2>4, <2>5 DEF Next
<1> QED BY <1>1, <1>2, PTL DEF Spec

(* The tables are always a non-empty chain of well-typed tables, and what  *)
(* Resolve returns is a symbol.                                            *)
THEOREM TypeCorrect == Spec => []TypeOK
<1>1. Inv => TypeOK
  BY DEF Inv
<1> QED BY <1>1, SpecInv, PTL

(* The code of a function literal never loads, for a closure it creates, a *)
(* slot or a captured value that its own function has not got.             *)
THEOREM CapturesAlwaysLoadable == Spec => []CapturesLoadable
<1>1. Inv => CapturesLoadable
  BY DEF Inv
<1> QED BY <1>1, SpecInv, PTL

(* Whatever Resolve finds in a table can be loaded by the function of that *)
(* table, and a free symbol holds the value captured under its name.       *)
THEOREM SymbolsAlwaysLoadable == Spec => []SymbolsLoadable
<1>1. Inv => SymbolsLoadable
  BY DEF Inv
<1> QED BY <1>1, SpecInv, PTL

(* No function captures a name twice: its closure has one copy of each     *)
(* variable it uses of the functions around it.                            *)
THEOREM CapturesOnlyOnce == Spec => []CapturedOnce
<1>1. Inv => CapturedOnce
  BY DEF Inv
<1> QED BY <1>1, SpecInv, PTL

(* No two names of one function share a slot; no name is captured twice.   *)
THEOREM NoSharing == Spec => [](SlotsDistinct /\ CapturedOnce)
<1>1. Inv => SlotsDistinct /\ CapturedOnce
  BY DEF Inv
<1> QED BY <1>1, SpecInv, PTL

-----------------------------------------------------------------------------
(***************************************************************************)
(* The chain of symbol tables implements lexical scoping.                  *)
(*                                                                         *)
(* What a name of a table denotes is read off the table itself unless the  *)
(* name is a captured one: then the captures are followed outwards.  The   *)
(* invariant is that these lead to the declaration that lexical scoping    *)
(* gives the name there, the innermost around it.  It stays true because a *)
(* captured symbol is never dropped or changed while its table lives, and  *)
(* because Resolve captures a name in every table it passes, each time     *)
(* what the table around it has just returned.                             *)
(***************************************************************************)

-----------------------------------------------------------------------------
(* The declarations behind captured symbols.                               *)

\* Those of table k, from those of the table around it.
Behind(chain, k, around) ==
    [i \in DOMAIN chain[k].FreeSymbols |->
        Declaration(k - 1, chain[k].FreeSymbols[i], around)]

\* Behind the captured symbols of the first n tables.
Traced(chain, n, captured) == captured = [k \in 1..n |-> Behind(chain, k, captured[k - 1])]

Sources(chain) ==
    CHOOSE captured :
        captured = [k \in DOMAIN chain |->
            [i \in DOMAIN chain[k].FreeSymbols |->
                Declaration(k - 1, chain[k].FreeSymbols[i], captured[k - 1])]]

\* Nothing is around the global table.
Chain(chain) == chain \in Seq(TableType) /\ Len(chain) > 0 /\ chain[1].FreeSymbols = <<>>

LEMMA LeastOf ==
    ASSUME NEW places \in SUBSET Nat, places # {}
    PROVE  \E i \in places : \A j \in places : i <= j
  <1> DEFINE less == {pair \in Nat \X Nat : pair[1] < pair[2]}
  <1>1. OpToRel(<, Nat) = less
    BY DEF OpToRel
  <1>2. IsWellFoundedOn(less, Nat)
    BY <1>1, NatLessThanWellFounded
  <1>3. \A i, j \in Nat : <<j, i>> \in less <=> j < i
    OBVIOUS
  <1> HIDE DEF less
  <1>4. PICK i \in places : \A j \in places : <<j, i>> \notin less
    BY <1>2, WFMin
  <1>5. ASSUME NEW j \in places PROVE i <= j
    <2>1. i \in Nat /\ j \in Nat
      OBVIOUS
    <2>2. ~(j < i)
      BY <1>3, <1>4, <2>1
    <2> QED BY <2>1, <2>2
  <1> QED BY <1>5

LEMMA BehindFirst ==
    ASSUME NEW chain, Chain(chain), NEW a, NEW b
    PROVE  Behind(chain, 1, a) = Behind(chain, 1, b)
  <1>1. DOMAIN chain[1].FreeSymbols = {}
    BY DEF Chain
  <1> QED BY <1>1 DEF Behind

\* Captures can be followed from any number of tables.
LEMMA TracedExists ==
    ASSUME NEW chain, Chain(chain), NEW n \in 1..Len(chain)
    PROVE  \E captured : Traced(chain, n, captured)
  <1> DEFINE bad == {m \in Nat : m \in 1..Len(chain) /\ ~ \E captured : Traced(chain, m, captured)}
  <1> SUFFICES ASSUME bad # {} PROVE FALSE
    <2>1. n \in Nat
      BY DEF Chain
    <2> QED BY <2>1
  <1>1. Len(chain) \in Nat /\ Len(chain) > 0
    BY DEF Chain
  <1>2. PICK m \in bad : \A j \in bad : m <= j
    BY LeastOf
  <1>3. m \in 1..Len(chain) /\ ~ \E captured : Traced(chain, m, captured)
    OBVIOUS
  <1>4. CASE m = 1
    <2>1. PICK f : f = [k \in 1..1 |-> Behind(chain, 1, <<>>)]
      OBVIOUS
    <2>2. \A k \in 1..1 : Behind(chain, k, f[k - 1]) = Behind(chain, 1, <<>>)
      BY BehindFirst
    <2>3. f = [k \in 1..1 |-> Behind(chain, k, f[k - 1])]
      BY <2>1, <2>2
    <2> QED BY <1>3, <1>4, <2>3 DEF Traced
  <1>5. CASE m > 1
    <2>1. m - 1 \in 1..Len(chain) /\ m - 1 \notin bad
      BY <1>1, <1>2, <1>3, <1>5
    <2>2. PICK f : Traced(chain, m - 1, f)
      BY <1>1, <2>1
    <2>3. \A k \in 1..(m - 1) : f[k] = Behind(chain, k, f[k - 1])
      BY <2>2 DEF Traced
    <2>4. PICK g : g = [k \in 1..m |-> IF k < m THEN f[k] ELSE Behind(chain, m, f[m - 1])]
      OBVIOUS
    <2>5. ASSUME NEW k \in 1..m PROVE g[k] = Behind(chain, k, g[k - 1])
      <3>1. CASE k = 1
        <4>1. g[1] = Behind(chain, 1, f[0])
          BY <1>3, <1>5, <2>3, <2>4
        <4> QED BY <3>1, <4>1, BehindFirst
      <3>2. CASE k > 1
        <4>1. g[k - 1] = f[k - 1]
          BY <1>3, <2>4, <3>2
        <4>2. k < m => g[k] = Behind(chain, k, f[k - 1])
          BY <1>3, <2>3, <2>4, <3>2
        <4>3. k = m => g[k] = Behind(chain, k, f[k - 1])
          BY <1>3, <2>4
        <4> QED BY <1>3, <4>1, <4>2, <4>3
      <3> QED BY <1>3, <3>1, <3>2
    <2>6. g = [k \in 1..m |-> Behind(chain, k, g[k - 1])]
      BY <2>4, <2>5
    <2> QED BY <1>3, <2>6 DEF Traced
  <1> QED BY <1>3, <1>4, <1>5

LEMMA SourcesIs ==
    ASSUME NEW chain, Chain(chain)
    PROVE  \A k \in 1..Len(chain) : Sources(chain)[k] = Behind(chain, k, Sources(chain)[k - 1])
  <1>1. DOMAIN chain = 1..Len(chain) /\ Len(chain) \in 1..Len(chain)
    BY DEF Chain
  <1>2. PICK f : Traced(chain, Len(chain), f)
    BY <1>1, TracedExists
  <1>3. f = [k \in DOMAIN chain |->
                [i \in DOMAIN chain[k].FreeSymbols |->
                    Declaration(k - 1, chain[k].FreeSymbols[i], f[k - 1])]]
    BY <1>1, <1>2 DEF Traced, Behind
  <1>4. Sources(chain) = [k \in DOMAIN chain |->
                [i \in DOMAIN chain[k].FreeSymbols |->
                    Declaration(k - 1, chain[k].FreeSymbols[i], Sources(chain)[k - 1])]]
    BY ONLY <1>3, Zenon DEF Sources
  <1> QED BY <1>1, <1>4 DEF Behind

\* What a symbol of a table itself denotes does not depend on captures.
Place(k, s) == Declaration(k, s, <<>>)

LEMMA PlaceIs ==
    ASSUME NEW k, NEW s, NEW captured, s.scope \in Scopes \ {"FREE"}
    PROVE  Declaration(k, s, captured) = Place(k, s)
  BY DEF Declaration, Place, Scopes

\* The first n tables of new are those of chain, some with more captured symbols.
Grew(chain, new, n) ==
    /\ n <= Len(chain) /\ n <= Len(new)
    /\ \A k \in 1..n : \A i \in 1..Len(chain[k].FreeSymbols) :
          i \in DOMAIN new[k].FreeSymbols /\ new[k].FreeSymbols[i] = chain[k].FreeSymbols[i]

\* Every captured symbol is there to be captured.
CapturesThere(chain) ==
    \A k \in 1..Len(chain) : \A i \in 1..Len(chain[k].FreeSymbols) :
        LET s == chain[k].FreeSymbols[i]
        IN  s.scope = "FREE" => k > 1 /\ s.index + 1 \in 1..Len(chain[k - 1].FreeSymbols)

\* Then the captured symbols that were there are behind what they were.
LEMMA SourcesKept ==
    ASSUME NEW chain, Chain(chain), CapturesThere(chain), NEW new, Chain(new),
           NEW n \in Nat, Grew(chain, new, n)
    PROVE  \A k \in 1..n : \A i \in 1..Len(chain[k].FreeSymbols) :
              Sources(new)[k][i] = Sources(chain)[k][i]
  <1> DEFINE differ(k) == \E i \in 1..Len(chain[k].FreeSymbols) :
                              Sources(new)[k][i] # Sources(chain)[k][i]
             bad == {k \in Nat : k \in 1..n /\ differ(k)}
  <1> SUFFICES ASSUME bad # {} PROVE FALSE
    OBVIOUS
  <1>1. PICK k \in bad : \A j \in bad : k <= j
    BY LeastOf
  <1>2. k \in 1..n /\ k \in 1..Len(chain) /\ k \in 1..Len(new) /\ chain[k] \in TableType /\ new[k] \in TableType
    BY DEF Grew, Chain
  <1>3. PICK i \in 1..Len(chain[k].FreeSymbols) : Sources(new)[k][i] # Sources(chain)[k][i]
    OBVIOUS
  <1>4. PICK s : s = chain[k].FreeSymbols[i]
    OBVIOUS
  <1>5. s \in SymbolType /\ i \in DOMAIN chain[k].FreeSymbols /\ i \in DOMAIN new[k].FreeSymbols
        /\ new[k].FreeSymbols[i] = s
    BY <1>2, <1>3, <1>4 DEF Grew, TableType
  <1>6. /\ Sources(chain)[k][i] = Declaration(k - 1, s, Sources(chain)[k - 1])
        /\ Sources(new)[k][i] = Declaration(k - 1, s, Sources(new)[k - 1])
    <2>1. /\ Sources(chain)[k] = Behind(chain, k, Sources(chain)[k - 1])
          /\ Sources(new)[k] = Behind(new, k, Sources(new)[k - 1])
      BY <1>2, SourcesIs
    <2>2. \A around : Behind(chain, k, around)[i] = Declaration(k - 1, s, around)
      BY <1>4, <1>5 DEF Behind
    <2>3. \A around : Behind(new, k, around)[i] = Declaration(k - 1, s, around)
      BY <1>5 DEF Behind
    <2> QED BY <2>1, <2>2, <2>3
  <1>7. CASE s.scope = "FREE"
    <2>1. k > 1 /\ s.index + 1 \in 1..Len(chain[k - 1].FreeSymbols)
      BY <1>2, <1>3, <1>4, <1>7 DEF CapturesThere
    <2>2. k - 1 \in 1..n /\ k - 1 \notin bad
      BY <1>1, <1>2, <2>1
    <2>3. Sources(new)[k - 1][s.index + 1] = Sources(chain)[k - 1][s.index + 1]
      BY <2>1, <2>2
    <2> QED BY <1>3, <1>6, <1>7, <2>3 DEF Declaration
  <1>8. CASE s.scope # "FREE"
    <2>1. s.scope \in Scopes \ {"FREE"}
      BY <1>5, <1>8 DEF SymbolType
    <2> QED BY <1>3, <1>6, <2>1, PlaceIs
  <1> QED BY <1>7, <1>8

-----------------------------------------------------------------------------
(* What a name denotes, seen from a table.                                 *)

\* The table declares the name itself.
Own(table, x) == Holds(table, x) /\ table.store[x].scope # "FREE"

Denotes(chain, k, x, d) ==
    \E h \in 1..k :
        /\ Own(chain[h], x) /\ \A j \in (h + 1)..k : ~Own(chain[j], x)
        /\ d = Place(h, chain[h].store[x])

\* A captured name leads to what the name denotes there.
FreeRight(chain) ==
    \A k \in 1..Len(chain), x \in Names :
        Holds(chain[k], x) /\ chain[k].store[x].scope = "FREE" =>
            Denotes(chain, k, x, Sources(chain)[k][chain[k].store[x].index + 1])

\* The tables of new up to k declare x as those of chain do.
SameOwners(chain, new, k, x) ==
    \A j \in 1..k : /\ Own(new[j], x) <=> Own(chain[j], x)
                    /\ Own(chain[j], x) => new[j].store[x] = chain[j].store[x]

LEMMA DenotesKept ==
    ASSUME NEW chain, NEW new, NEW k \in Nat, NEW x, NEW d,
           SameOwners(chain, new, k, x), Denotes(chain, k, x, d)
    PROVE  Denotes(new, k, x, d)
  <1>1. PICK h \in 1..k : /\ Own(chain[h], x) /\ \A j \in (h + 1)..k : ~Own(chain[j], x)
                          /\ d = Place(h, chain[h].store[x])
    BY DEF Denotes
  <1>2. Own(new[h], x) /\ new[h].store[x] = chain[h].store[x]
    BY <1>1 DEF SameOwners
  <1>3. \A j \in (h + 1)..k : ~Own(new[j], x)
    BY <1>1 DEF SameOwners
  <1> QED BY <1>1, <1>2, <1>3 DEF Denotes

\* A captured name of table k is captured in chain too, and lies in reach.
FreeThere(chain, k, x) ==
    /\ Holds(chain[k], x) /\ chain[k].store[x].scope = "FREE"
    /\ chain[k].store[x].index + 1 \in 1..Len(chain[k].FreeSymbols)

LEMMA FreeKept ==
    ASSUME NEW chain, Chain(chain), CapturesThere(chain), FreeRight(chain),
           NEW new, Chain(new), NEW n \in Nat, Grew(chain, new, n),
           NEW k \in 1..n, NEW x \in Names, FreeThere(chain, k, x),
           new[k].store[x] = chain[k].store[x], SameOwners(chain, new, k, x)
    PROVE  Denotes(new, k, x, Sources(new)[k][new[k].store[x].index + 1])
  <1>1. k \in 1..Len(chain) /\ k \in Nat
    BY DEF Grew, Chain
  <1>2. PICK i : i = chain[k].store[x].index + 1 /\ i \in 1..Len(chain[k].FreeSymbols)
    BY DEF FreeThere
  <1>3. Denotes(chain, k, x, Sources(chain)[k][i])
    BY <1>1, <1>2 DEF FreeRight, FreeThere
  <1>4. Sources(new)[k][i] = Sources(chain)[k][i]
    BY <1>2, SourcesKept
  <1> QED BY <1>1, <1>2, <1>3, <1>4, DenotesKept

\* There is one declaration a name denotes.
LEMMA DenotesOne ==
    ASSUME NEW chain, NEW k \in Nat, NEW x, NEW d, Denotes(chain, k, x, d),
           NEW h \in 1..k, Own(chain[h], x), \A j \in (h + 1)..k : ~Own(chain[j], x)
    PROVE  d = Place(h, chain[h].store[x])
  <1>1. PICK g \in 1..k : /\ Own(chain[g], x) /\ \A j \in (g + 1)..k : ~Own(chain[j], x)
                          /\ d = Place(g, chain[g].store[x])
    BY DEF Denotes
  <1>2. ~(g < h) /\ ~(h < g)
    BY <1>1
  <1> QED BY <1>1, <1>2

-----------------------------------------------------------------------------
(* The invariant.                                                          *)

LexicalInv == Inv /\ FreeRight(tables)

\* What Inv says of the tables.
Sound(chain) ==
    /\ Chain(chain) /\ CapturesThere(chain)
    /\ \A k \in 1..Len(chain), x \in Names :
          Holds(chain[k], x) =>
            /\ chain[k].store[x] \in SymbolType /\ chain[k].store[x].name = x
            /\ chain[k].store[x].scope = "FREE" => FreeThere(chain, k, x) /\ k > 1

LEMMA InvSound == Inv => Sound(tables)
  <1> SUFFICES ASSUME Inv PROVE Sound(tables)
    OBVIOUS
  <1>1. tables \in Seq(TableType) /\ Len(tables) > 0 /\ 1 \in 1..Len(tables) /\ DOMAIN tables = 1..Len(tables)
    BY DEF Inv, TypeOK
  <1>2. ASSUME NEW k \in 1..Len(tables), NEW i \in 1..Len(tables[k].FreeSymbols)
        PROVE  LET s == tables[k].FreeSymbols[i]
               IN  k > 1 /\ s \in SymbolType /\ (s.scope = "FREE" =>
                      s.index + 1 \in 1..Len(tables[k - 1].FreeSymbols))
    <2>1. i \in DOMAIN tables[k].FreeSymbols /\ tables[k].FreeSymbols[i] \in SymbolType
      BY <1>1, TableTyped
    <2>2. PICK s : s = tables[k].FreeSymbols[i]
      OBVIOUS
    <2>3. k > 1 /\ Loadable(tables, k - 1, s)
      BY <1>1, <2>1, <2>2 DEF Inv, CapturesLoadable
    <2>4. k - 1 \in 1..Len(tables)
      BY <2>3
    <2>5. Len(tables[k - 1].FreeSymbols) \in Nat /\ s.index \in Nat
      BY <1>1, <2>1, <2>2, <2>4, TableTyped DEF SymbolType
    <2>6. s.scope = "FREE" => s.index < Len(tables[k - 1].FreeSymbols)
      BY <2>3 DEF Loadable
    <2> QED BY <2>1, <2>2, <2>3, <2>5, <2>6, SMTT(30)
  <1>3. CapturesThere(tables)
    BY <1>2 DEF CapturesThere
  <1>4. Chain(tables)
    <2>1. ~(1 \in 1..Len(tables[1].FreeSymbols))
      BY <1>1, <1>2
    <2>2. tables[1].FreeSymbols \in Seq(SymbolType) /\ Len(tables[1].FreeSymbols) \in Nat
      BY <1>1, TableTyped
    <2>3. Len(tables[1].FreeSymbols) = 0
      BY <2>1, <2>2
    <2>4. tables[1].FreeSymbols = <<>>
      BY <2>2, <2>3, EmptySeq
    <2> QED BY <1>1, <2>4 DEF Chain
  <1>5. ASSUME NEW k \in 1..Len(tables), NEW x \in Names, Holds(tables[k], x)
        PROVE  /\ tables[k].store[x] \in SymbolType /\ tables[k].store[x].name = x
               /\ tables[k].store[x].scope = "FREE" => FreeThere(tables, k, x) /\ k > 1
    <2>1. PICK s : s = tables[k].store[x]
      OBVIOUS
    <2>2. s \in SymbolType /\ s.name = x /\ Loadable(tables, k, s)
      BY <1>1, <1>5, <2>1, TableTyped, HeldTyped DEF Inv, SymbolsLoadable
    <2>3. s.index \in Nat /\ Len(tables[k].FreeSymbols) \in Nat
      BY <1>1, <2>2, TableTyped DEF SymbolType
    <2>4. s.scope = "FREE" => k > 1 /\ s.index < Len(tables[k].FreeSymbols)
      BY <2>2 DEF Loadable
    <2> QED BY <1>5, <2>1, <2>2, <2>3, <2>4 DEF FreeThere
  <1> QED BY <1>3, <1>4, <1>5 DEF Sound

\* What a step has to show.
LEMMA StepFree ==
    ASSUME NEW chain, Sound(chain), FreeRight(chain), NEW new, Sound(new),
           NEW n \in Nat, Grew(chain, new, n),
           \A k \in 1..Len(new), x \in Names :
              FreeThere(new, k, x) =>
                \/ k <= n /\ new[k].store[x] = chain[k].store[x] /\ SameOwners(chain, new, k, x)
                \/ Denotes(new, k, x, Sources(new)[k][new[k].store[x].index + 1])
    PROVE  FreeRight(new)
  <1> SUFFICES ASSUME NEW k \in 1..Len(new), NEW x \in Names,
                      Holds(new[k], x), new[k].store[x].scope = "FREE"
               PROVE  Denotes(new, k, x, Sources(new)[k][new[k].store[x].index + 1])
    BY DEF FreeRight
  <1>1. FreeThere(new, k, x) /\ k \in Nat
    BY DEF Sound, Chain
  <1>2. CASE k <= n /\ new[k].store[x] = chain[k].store[x] /\ SameOwners(chain, new, k, x)
    <2>1. k \in 1..n /\ k \in 1..Len(chain)
      BY <1>1, <1>2 DEF Grew, Sound, Chain
    <2>2. Holds(chain[k], x) /\ chain[k].store[x].scope = "FREE"
      BY <1>1, <1>2 DEF FreeThere, Holds
    <2>3. FreeThere(chain, k, x)
      BY <2>1, <2>2 DEF Sound
    <2> QED BY <1>2, <2>1, <2>3, FreeKept DEF Sound
  <1> QED BY <1>1, <1>2

\* Tables that did not change.
LEMMA Unchanged ==
    ASSUME NEW chain, Sound(chain), NEW new, Sound(new), NEW n \in Nat,
           n <= Len(chain), n <= Len(new), \A k \in 1..n : new[k] = chain[k]
    PROVE  /\ Grew(chain, new, n)
           /\ \A k \in 1..n, x \in Names : SameOwners(chain, new, k, x)
  <1>1. ASSUME NEW k \in 1..n, NEW i \in 1..Len(chain[k].FreeSymbols)
        PROVE  i \in DOMAIN chain[k].FreeSymbols
    <2>1. chain[k] \in TableType
      BY DEF Sound, Chain
    <2> QED BY <2>1 DEF TableType
  <1>2. Grew(chain, new, n)
    BY <1>1 DEF Grew
  <1>3. \A k \in 1..n, x \in Names : SameOwners(chain, new, k, x)
    BY DEF SameOwners
  <1> QED BY <1>2, <1>3

LEMMA SoundNext == ASSUME Inv' PROVE Sound(tables')
  <1>1. Inv' => Sound(tables)'
    BY InvSound, PTL
  <1> QED BY <1>1

LEMMA EnterFree ==
    ASSUME LexicalInv, Inv', NEW self \in Names \cup {NoName}, NEW params \in Params,
           EnterFunction(self, params)
    PROVE  FreeRight(tables')
  <1>1. PICK n \in Nat : n = Len(tables) /\ n > 0
    BY DEF LexicalInv, Inv, TypeOK
  <1>2. /\ Len(tables') = n + 1 /\ \A k \in 1..n : tables'[k] = tables[k]
        /\ tables'[n + 1].FreeSymbols = <<>>
    <2>1. params \in Seq(Names)
      BY ScopingAssumption
    <2> QED BY <1>1, <2>1, EnterTables DEF LexicalInv, Inv, TypeOK, EnterFunction
  <1>3. Sound(tables) /\ Sound(tables') /\ FreeRight(tables)
    BY InvSound, SoundNext DEF LexicalInv
  <1>4. Grew(tables, tables', n) /\ \A k \in 1..n, x \in Names : SameOwners(tables, tables', k, x)
    BY <1>1, <1>2, <1>3, Unchanged
  <1>5. ASSUME NEW k \in 1..(n + 1), NEW x \in Names, FreeThere(tables', k, x)
        PROVE  k <= n /\ tables'[k].store[x] = tables[k].store[x] /\ SameOwners(tables, tables', k, x)
    <2>1. k # n + 1
      BY <1>2, <1>5 DEF FreeThere
    <2>2. k \in 1..n
      BY <2>1
    <2> QED BY <1>2, <1>4, <2>2
  <1> QED BY <1>2, <1>3, <1>4, <1>5, StepFree

LEMMA LeaveFree ==
    ASSUME LexicalInv, Inv', LeaveFunction
    PROVE  FreeRight(tables')
  <1>1. PICK n \in Nat : n = Len(tables) - 1 /\ n > 0
    BY DEF LexicalInv, Inv, TypeOK, LeaveFunction
  <1>2. Len(tables') = n /\ \A k \in 1..n : tables'[k] = tables[k]
    BY <1>1 DEF LexicalInv, Inv, TypeOK, LeaveFunction
  <1>3. Sound(tables) /\ Sound(tables') /\ FreeRight(tables)
    BY InvSound, SoundNext DEF LexicalInv
  <1>4. Grew(tables, tables', n) /\ \A k \in 1..n, x \in Names : SameOwners(tables, tables', k, x)
    <2>1. n <= Len(tables) /\ n <= Len(tables')
      BY <1>1, <1>2 DEF LexicalInv, Inv, TypeOK
    <2> QED BY <1>2, <1>3, <2>1, Unchanged
  <1>5. \A k \in 1..n, x \in Names :
           k <= n /\ tables'[k].store[x] = tables[k].store[x] /\ SameOwners(tables, tables', k, x)
    BY <1>2, <1>4
  <1> QED BY <1>2, <1>3, <1>4, <1>5, StepFree

\* The tables after a Define.
LEMMA DeclareTables ==
    ASSUME Inv, NEW name \in Names, Declare(name)
    PROVE  LET top == Len(tables)
           IN  /\ tables' \in Seq(TableType) /\ Len(tables') = top /\ top \in 1..top
               /\ \A k \in 1..top : k # top => tables'[k] = tables[k]
               /\ tables'[top].FreeSymbols = tables[top].FreeSymbols
               /\ tables'[top].numDefinitions = tables[top].numDefinitions + 1
               /\ \A x \in Names : x # name => tables'[top].store[x] = tables[top].store[x]
               /\ tables'[top].store[name] =
                    Symbol(name, IF top = 1 THEN "GLOBAL" ELSE "LOCAL", tables[top].numDefinitions)
               /\ Holds(tables'[top], name)
  <1>1. PICK top \in Nat : top = Len(tables) /\ top > 0
    BY DEF Inv, TypeOK
  <1>2. PICK scope : scope = IF top = 1 THEN "GLOBAL" ELSE "LOCAL"
    OBVIOUS
  <1>3. PICK new : new = AddSlots(tables[top], scope, <<name>>)
    OBVIOUS
  <1>4. /\ tables \in Seq(TableType) /\ top \in 1..top /\ tables[top] \in TableType
        /\ scope \in Scopes /\ scope \in {"GLOBAL", "LOCAL"}
    BY <1>1, <1>2, TableTyped DEF Inv, TypeOK, Scopes
  <1>5. /\ new \in TableType
        /\ new.FreeSymbols = tables[top].FreeSymbols
        /\ new.numDefinitions = tables[top].numDefinitions + 1
        /\ \A x \in Names : x # name => new.store[x] = tables[top].store[x]
        /\ new.store[name].name = name
        /\ new.store[name].scope = scope
        /\ new.store[name].index = tables[top].numDefinitions
        /\ Holds(new, name)
    BY <1>3, <1>4, DefineTable
  <1>6. tables' = [tables EXCEPT ![top] = new]
    BY <1>1, <1>2, <1>3 DEF Declare, Define, DefineEach
  <1>7. /\ tables' \in Seq(TableType) /\ Len(tables') = top
        /\ tables'[top] = new
        /\ \A k \in 1..top : k # top => tables'[k] = tables[k]
    BY <1>1, <1>4, <1>5, <1>6, ExceptSeq
  <1>8. new.store[name] = Symbol(name, scope, tables[top].numDefinitions)
    <2>1. new.store[name] \in SymbolType
      BY <1>5, HeldTyped
    <2> QED BY <1>5, <2>1 DEF SymbolType, Symbol
  <1> QED BY <1>1, <1>2, <1>4, <1>5, <1>7, <1>8

LEMMA DeclareFree ==
    ASSUME LexicalInv, Inv', NEW name \in Names, Declare(name)
    PROVE  FreeRight(tables')
  <1>1. PICK top \in Nat : top = Len(tables) /\ top > 0
    BY DEF LexicalInv, Inv, TypeOK
  <1>2. /\ Len(tables') = top /\ \A k \in 1..top : k # top => tables'[k] = tables[k]
        /\ tables'[top].FreeSymbols = tables[top].FreeSymbols
        /\ \A x \in Names : x # name => tables'[top].store[x] = tables[top].store[x]
        /\ tables'[top].store[name].scope \in {"GLOBAL", "LOCAL"}
    <2>1. tables'[top].store[name] =
            Symbol(name, IF top = 1 THEN "GLOBAL" ELSE "LOCAL", tables[top].numDefinitions)
      BY <1>1, DeclareTables DEF LexicalInv
    <2>2. tables'[top].store[name].scope \in {"GLOBAL", "LOCAL"}
      BY <2>1 DEF Symbol
    <2>3. /\ Len(tables') = top /\ \A k \in 1..top : k # top => tables'[k] = tables[k]
          /\ tables'[top].FreeSymbols = tables[top].FreeSymbols
          /\ \A x \in Names : x # name => tables'[top].store[x] = tables[top].store[x]
      BY <1>1, DeclareTables DEF LexicalInv
    <2> QED BY <2>2, <2>3
  <1>3. Sound(tables) /\ Sound(tables') /\ FreeRight(tables)
    BY InvSound, SoundNext DEF LexicalInv
  <1>4. \A k \in 1..top : tables'[k].FreeSymbols = tables[k].FreeSymbols
    BY <1>2
  <1>5. Grew(tables, tables', top)
    <2>1. ASSUME NEW k \in 1..top, NEW i \in 1..Len(tables[k].FreeSymbols)
          PROVE  i \in DOMAIN tables[k].FreeSymbols
      <3>1. tables[k] \in TableType
        BY <1>1, <1>3 DEF Sound, Chain
      <3> QED BY <3>1 DEF TableType
    <2> QED BY <1>1, <1>2, <1>4, <2>1 DEF Grew
  <1>6. ASSUME NEW k \in 1..top, NEW x \in Names, FreeThere(tables', k, x)
        PROVE  tables'[k].store[x] = tables[k].store[x] /\ SameOwners(tables, tables', k, x)
    <2>1. CASE k # top
      <3>1. \A j \in 1..k : tables'[j] = tables[j]
        BY <1>2, <2>1
      <3> QED BY <3>1 DEF SameOwners
    <2>2. CASE k = top
      <3>1. x # name
        BY <1>2, <1>6, <2>2 DEF FreeThere
      <3>2. \A j \in 1..top : tables'[j].store[x] = tables[j].store[x]
        BY <1>2, <3>1
      <3> QED BY <2>2, <3>2 DEF SameOwners, Own, Holds
    <2> QED BY <2>1, <2>2
  <1> QED BY <1>1, <1>2, <1>3, <1>5, <1>6, StepFree

\* A Use adds captured symbols, and declares nothing.
LEMMA UseGrows ==
    ASSUME Inv, Inv', NEW name \in Names, Resolvable(tables, name), Use(name)
    PROVE  /\ Grew(tables, tables', Len(tables))
           /\ \A x \in Names : SameOwners(tables, tables', Len(tables), x)
  <1>1. PICK n \in Nat : n = Len(tables) /\ n = Len(tables') /\ n > 0
    BY UseCaptures DEF Inv, TypeOK
  <1>2. ASSUME NEW k \in 1..n
        PROVE  \/ tables'[k] = tables[k]
               \/ \E original : CapturesName(tables[k], tables'[k], name, original)
    BY <1>1, UseCaptures
  <1>3. Sound(tables) /\ Sound(tables')
    BY InvSound, SoundNext
  <1>4. ASSUME NEW k \in 1..n PROVE tables[k] \in TableType /\ tables'[k] \in TableType
    <2>1. tables \in Seq(TableType) /\ tables' \in Seq(TableType)
      BY <1>3 DEF Sound, Chain
    <2> QED BY <1>1, <2>1, ElementOfSeq
  <1>5. ASSUME NEW k \in 1..n, NEW i \in 1..Len(tables[k].FreeSymbols)
        PROVE  i \in DOMAIN tables'[k].FreeSymbols /\ tables'[k].FreeSymbols[i] = tables[k].FreeSymbols[i]
    <2>1. CASE tables'[k] = tables[k]
      <3>1. i \in DOMAIN tables[k].FreeSymbols
        BY <1>4 DEF TableType
      <3> QED BY <2>1, <3>1
    <2>2. CASE tables'[k] # tables[k]
      <3>1. PICK original : CapturesName(tables[k], tables'[k], name, original)
        BY <1>2, <2>2
      <3>2. PICK old, new, m : /\ old = tables[k] /\ new = tables'[k] /\ m = Len(old.FreeSymbols)
                               /\ old \in TableType /\ new \in TableType
                               /\ CapturesName(old, new, name, original)
        BY <1>4, <3>1
      <3>3. /\ m \in Nat /\ DOMAIN new.FreeSymbols = 1..(m + 1)
            /\ \A j \in 1..m : new.FreeSymbols[j] = old.FreeSymbols[j]
        BY ONLY <3>2, CapturedSymbols
      <3>4. i \in 1..m
        BY <3>2
      <3> QED BY <3>2, <3>3, <3>4
    <2> QED BY <2>1, <2>2
  <1>6. Grew(tables, tables', n)
    BY <1>1, <1>5 DEF Grew
  <1>7. ASSUME NEW j \in 1..n, NEW x \in Names
        PROVE  /\ Own(tables'[j], x) <=> Own(tables[j], x)
               /\ Own(tables[j], x) => tables'[j].store[x] = tables[j].store[x]
    <2>1. CASE tables'[j] = tables[j]
      BY <2>1
    <2>2. CASE tables'[j] # tables[j] /\ x # name
      BY <1>2, <2>2 DEF CapturesName, Own, Holds
    <2>3. CASE tables'[j] # tables[j] /\ x = name
      BY <1>2, <2>3 DEF CapturesName, Own
    <2> QED BY <2>1, <2>2, <2>3
  <1>8. \A x \in Names : SameOwners(tables, tables', n, x)
    BY <1>7 DEF SameOwners
  <1> QED BY <1>1, <1>6, <1>8

\* Where the search of Resolve ends, the name denotes d, and nothing hides it behind.
LEMMA HomeDenotes ==
    ASSUME LexicalInv, NEW name \in Names, Resolvable(tables, name),
           NEW k \in Home(tables, name)..Len(tables)
    PROVE  Denotes(tables, k, name,
              Declaration(Home(tables, name), HomeSymbol(tables, name),
                          Sources(tables)[Home(tables, name)]))
  <1>1. PICK home, symbol, d :
          /\ home = Home(tables, name) /\ symbol = tables[home].store[name]
          /\ d = Declaration(home, symbol, Sources(tables)[home])
    OBVIOUS
  <1>2. /\ tables \in Seq(TableType) /\ Len(tables) \in Nat
        /\ home \in 1..Len(tables) /\ Holds(tables[home], name)
        /\ \A j \in 1..Len(tables) : home < j => ~Holds(tables[j], name)
    BY <1>1, HomeIn DEF LexicalInv, Inv, TypeOK
  <1>3. symbol \in SymbolType
    BY <1>1, <1>2, HeldTyped
  <1>4. Denotes(tables, home, name, d)
    <2>1. CASE symbol.scope = "FREE"
      <3>1. d = Sources(tables)[home][symbol.index + 1]
        BY <1>1, <2>1 DEF Declaration
      <3> QED BY <1>1, <1>2, <2>1, <3>1 DEF LexicalInv, FreeRight
    <2>2. CASE symbol.scope # "FREE"
      <3>1. symbol.scope \in Scopes \ {"FREE"}
        BY <1>3, <2>2 DEF SymbolType
      <3>2. d = Place(home, symbol)
        BY <1>1, <3>1, PlaceIs
      <3>3. home \in 1..home /\ Own(tables[home], name) /\ \A j \in (home + 1)..home : FALSE
        BY <1>1, <1>2, <2>2 DEF Own
      <3> QED BY <1>1, <3>2, <3>3 DEF Denotes
    <2> QED BY <2>1, <2>2
  <1>5. PICK h \in 1..home : /\ Own(tables[h], name) /\ \A j \in (h + 1)..home : ~Own(tables[j], name)
                             /\ d = Place(h, tables[h].store[name])
    BY <1>4 DEF Denotes
  <1>6. k \in Int /\ k \in 1..Len(tables) /\ home <= k
    BY <1>1, <1>2
  <1>7. h \in 1..k
    BY <1>2, <1>6
  <1>8. ASSUME NEW j \in (h + 1)..k PROVE ~Own(tables[j], name)
    <2>1. CASE j <= home
      BY <1>2, <1>5, <1>6, <2>1
    <2>2. CASE j > home
      <3>1. j \in 1..Len(tables)
        BY <1>2, <1>6, <2>2
      <3> QED BY <1>2, <2>2, <3>1 DEF Own
    <2> QED BY <1>2, <2>1, <2>2
  <1>9. Denotes(tables, k, name, d)
    BY <1>5, <1>7, <1>8 DEF Denotes
  <1> QED BY <1>1, <1>9 DEF HomeSymbol

\* What Resolve returns, called on any table behind, leads there.
LEMMA ResolvedLeads ==
    ASSUME LexicalInv, Inv', NEW name \in Names, Resolvable(tables, name), Use(name)
    PROVE  \A k \in Home(tables, name)..Len(tables) :
              Declaration(k, SymbolAt(tables, name, k), Sources(tables')[k])
                = Declaration(Home(tables, name), HomeSymbol(tables, name),
                              Sources(tables)[Home(tables, name)])
  <1>1. PICK home, symbol, d, n, new :
          /\ home = Home(tables, name) /\ symbol = HomeSymbol(tables, name)
          /\ d = Declaration(home, symbol, Sources(tables)[home])
          /\ n = Len(tables) /\ new = Sources(tables')
    OBVIOUS
  <1>2. /\ n \in Nat /\ home \in 1..n /\ Holds(tables[home], name) /\ Len(tables') = n
        /\ symbol = tables[home].store[name] /\ symbol \in SymbolType /\ symbol.name = name
        /\ tables' \in Seq(TableType) /\ tables \in Seq(TableType)
    BY <1>1, UseCaptures DEF LexicalInv, Inv, TypeOK, HomeSymbol
  <1>3. Sound(tables) /\ Sound(tables') /\ Grew(tables, tables', n)
    BY <1>1, InvSound, SoundNext, UseGrows DEF LexicalInv
  <1>4. Declaration(home, symbol, new[home]) = d
    <2>1. CASE symbol.scope = "FREE"
      <3>1. symbol.index + 1 \in 1..Len(tables[home].FreeSymbols)
        BY <1>1, <1>2, <1>3, <2>1 DEF Sound, FreeThere
      <3>2. new[home][symbol.index + 1] = Sources(tables)[home][symbol.index + 1]
        BY <1>1, <1>2, <1>3, <3>1, SourcesKept DEF Sound
      <3> QED BY <1>1, <2>1, <3>2 DEF Declaration
    <2>2. CASE symbol.scope # "FREE"
      <3>1. symbol.scope \in Scopes \ {"FREE"}
        BY <1>2, <2>2 DEF SymbolType
      <3> QED BY <1>1, <3>1, PlaceIs
    <2> QED BY <2>1, <2>2
  <1> DEFINE leads(k) == Declaration(k, SymbolAt(tables, name, k), new[k]) = d
             bad == {k \in Nat : k \in home..n /\ ~leads(k)}
  <1>5. ASSUME bad # {} PROVE FALSE
    <2>1. PICK k \in bad : \A j \in bad : k <= j
      BY <1>5, LeastOf
    <2>2. k \in home..n /\ k \in 1..n /\ ~leads(k)
      BY <1>2
    <2>3. CASE Captures(tables, name, k)
      <3>1. PICK m, at : m = Len(tables[k].FreeSymbols) /\ at = SymbolAt(tables, name, k - 1)
        OBVIOUS
      <3>2. CapturesName(tables[k], tables'[k], name, at) /\ k - 1 \in 1..n /\ home < k
        BY <1>1, <2>2, <2>3, <3>1, UseCaptures DEF LexicalInv, Captures
      <3>3. k - 1 \in home..n /\ k - 1 \notin bad
        BY <1>2, <2>1, <2>2, <3>2
      <3>4. Declaration(k - 1, at, new[k - 1]) = d
        <4>1. k - 1 \in Nat
          BY <3>2
        <4>2. leads(k - 1)
          BY <3>3, <4>1
        <4> QED BY <3>1, <4>2
      <3>5. /\ tables[k] \in TableType /\ tables'[k] \in TableType
        BY <1>1, <1>2, <2>2
      <3>6. m \in Nat /\ m + 1 \in DOMAIN tables'[k].FreeSymbols /\ tables'[k].FreeSymbols[m + 1] = at
        <4>1. PICK old, after : /\ old = tables[k] /\ after = tables'[k]
                                /\ old \in TableType /\ after \in TableType
                                /\ CapturesName(old, after, name, at)
          BY <3>2, <3>5
        <4>2. LET l == Len(old.FreeSymbols)
              IN  l \in Nat /\ DOMAIN after.FreeSymbols = 1..(l + 1) /\ after.FreeSymbols[l + 1] = at
          BY ONLY <4>1, CapturedSymbols
        <4> QED BY <3>1, <4>1, <4>2
      <3>7. new[k] = Behind(tables', k, new[k - 1])
        BY <1>1, <1>2, <1>3, <2>2, SourcesIs DEF Sound
      <3>8. new[k][m + 1] = Declaration(k - 1, at, new[k - 1])
        BY <3>6, <3>7 DEF Behind
      <3>9. SymbolAt(tables, name, k) = Symbol(symbol.name, "FREE", m)
        BY <1>1, <2>3, <3>1 DEF SymbolAt
      <3>10. Declaration(k, SymbolAt(tables, name, k), new[k]) = new[k][m + 1]
        BY <3>9 DEF Declaration, Symbol
      <3> QED BY <2>2, <3>4, <3>8, <3>10
    <2>4. CASE ~Captures(tables, name, k)
      <3>1. SymbolAt(tables, name, k) = symbol
        BY <1>1, <2>4 DEF SymbolAt
      <3>2. CASE k = home
        BY <1>4, <2>2, <3>1, <3>2
      <3>3. CASE k # home
        <4>1. symbol.scope \in {"GLOBAL", "BUILTIN"}
          BY <1>1, <1>2, <2>2, <2>4, <3>3 DEF Captures
        <4>2. Declaration(k, symbol, new[k]) = Declaration(home, symbol, new[home])
          BY <4>1 DEF Declaration
        <4> QED BY <1>4, <2>2, <3>1, <4>2
      <3> QED BY <3>2, <3>3
    <2> QED BY <2>3, <2>4
  <1>6. \A k \in home..n : leads(k)
    BY <1>2, <1>5
  <1> QED BY <1>1, <1>6

LEMMA UseFree ==
    ASSUME LexicalInv, Inv', NEW name \in Names, Use(name)
    PROVE  FreeRight(tables')
  <1>1. CASE ~Resolvable(tables, name)
    BY <1>1 DEF Use, LexicalInv
  <1>2. CASE Resolvable(tables, name)
    <2>1. PICK n \in Nat : n = Len(tables) /\ n = Len(tables') /\ n > 0
      BY <1>2, UseCaptures DEF LexicalInv, Inv, TypeOK
    <2>2. Sound(tables) /\ Sound(tables') /\ FreeRight(tables)
      BY InvSound, SoundNext DEF LexicalInv
    <2>3. Grew(tables, tables', n) /\ \A x \in Names : SameOwners(tables, tables', n, x)
      BY <1>2, <2>1, UseGrows DEF LexicalInv
    <2>4. \A k \in 1..n, x \in Names : SameOwners(tables, tables', k, x)
      BY <2>3 DEF SameOwners
    <2>5. ASSUME NEW k \in 1..n, NEW x \in Names, FreeThere(tables', k, x)
          PROVE  \/ k <= n /\ tables'[k].store[x] = tables[k].store[x] /\ SameOwners(tables, tables', k, x)
                 \/ Denotes(tables', k, x, Sources(tables')[k][tables'[k].store[x].index + 1])
      <3>1. CASE ~Captures(tables, name, k)
        <4>1. tables'[k] = tables[k]
          BY <1>2, <2>1, <3>1, UseCaptures DEF LexicalInv
        <4> QED BY <2>4, <4>1
      <3>2. CASE Captures(tables, name, k) /\ x # name
        <4>1. CapturesName(tables[k], tables'[k], name, SymbolAt(tables, name, k - 1))
          BY <1>2, <2>1, <3>2, UseCaptures DEF LexicalInv
        <4>2. tables'[k].store[x] = tables[k].store[x]
          BY <3>2, <4>1 DEF CapturesName
        <4> QED BY <2>4, <4>2
      <3>3. CASE Captures(tables, name, k) /\ x = name
        <4>1. PICK m, d : /\ m = Len(tables[k].FreeSymbols)
                          /\ d = Declaration(Home(tables, name), HomeSymbol(tables, name),
                                             Sources(tables)[Home(tables, name)])
          OBVIOUS
        <4>2. /\ CapturesName(tables[k], tables'[k], name, SymbolAt(tables, name, k - 1))
              /\ Home(tables, name) < k /\ Home(tables, name) \in 1..n
          BY <1>2, <2>1, <3>3, UseCaptures DEF LexicalInv, Captures
        <4>3. k \in Home(tables, name)..Len(tables)
          BY <2>1, <4>2
        <4>4. Denotes(tables, k, name, d)
          BY <1>2, <4>1, <4>3, HomeDenotes
        <4>5. Denotes(tables', k, name, d)
          BY <2>4, <4>4, DenotesKept
        <4>6. Declaration(k, SymbolAt(tables, name, k), Sources(tables')[k]) = d
          BY <1>2, <4>1, <4>3, ResolvedLeads
        <4>7. SymbolAt(tables, name, k) = Symbol(HomeSymbol(tables, name).name, "FREE", m)
          BY <3>3, <4>1 DEF SymbolAt
        <4>8. Sources(tables')[k][m + 1] = d
          BY <4>6, <4>7 DEF Declaration, Symbol
        <4>9. tables'[k].store[x].index = m
          BY <3>3, <4>1, <4>2 DEF CapturesName
        <4> QED BY <3>3, <4>5, <4>8, <4>9
      <3> QED BY <3>1, <3>2, <3>3
    <2> QED BY <2>1, <2>2, <2>3, <2>5, StepFree
  <1> QED BY <1>1, <1>2

-----------------------------------------------------------------------------
(* The refinement mapping.                                                 *)

Row(k, table) == [x \in OwnNames(table) |-> Place(k, table.store[x])]

Rows(chain) == [k \in DOMAIN chain |-> Row(k, chain[k])]

Counts(chain) == [k \in DOMAIN chain |-> chain[k].numDefinitions]

Meant(chain, symbols) ==
    [i \in DOMAIN symbols |->
        Declaration(Len(chain), symbols[i], Sources(chain)[Len(chain)])]

LEMMA CapturedIs == CapturedFrom = Sources(tables)
  BY DEF CapturedFrom, Sources

LEMMA OwnIs ==
    ASSUME NEW table, NEW x \in Names
    PROVE  x \in OwnNames(table) <=> Own(table, x)
  BY DEF OwnNames, Own

LEMMA EnvironmentIs == Inv => Environment = Rows(tables)
  <1> SUFFICES ASSUME Inv PROVE Environment = Rows(tables)
    OBVIOUS
  <1>1. ASSUME NEW k \in DOMAIN tables, NEW x \in OwnNames(tables[k]), NEW captured
        PROVE  Declaration(k, tables[k].store[x], captured) = Place(k, tables[k].store[x])
    <2>1. x \in Names /\ Holds(tables[k], x) /\ tables[k].store[x].scope # "FREE" /\ k \in 1..Len(tables)
      BY DEF OwnNames, Inv, TypeOK
    <2>2. tables[k].store[x] \in SymbolType
      BY <2>1, TableTyped, HeldTyped DEF Inv, TypeOK
    <2>3. tables[k].store[x].scope \in Scopes \ {"FREE"}
      BY <2>1, <2>2 DEF SymbolType
    <2> QED BY <2>3, PlaceIs
  <1>2. PICK captured : captured = CapturedFrom
    OBVIOUS
  <1>3. Environment = [k \in DOMAIN tables |->
            [x \in OwnNames(tables[k]) |-> Declaration(k, tables[k].store[x], captured[k])]]
    BY <1>2, Zenon DEF Environment
  <1>4. ASSUME NEW k \in DOMAIN tables
        PROVE  [x \in OwnNames(tables[k]) |-> Declaration(k, tables[k].store[x], captured[k])]
                 = Row(k, tables[k])
    BY <1>1 DEF Row
  <1> QED BY <1>3, <1>4 DEF Rows

LEMMA ReferredIs == Referred = Meant(tables, resolved)
  BY CapturedIs DEF Referred, Meant

\* The same, in the next state.
LEMMA NextIs ==
    ASSUME Inv'
    PROVE  Environment' = Rows(tables') /\ Referred' = Meant(tables', resolved')
  <1>1. (Inv => Environment = Rows(tables))'
    BY EnvironmentIs, PTL
  <1>2. (Referred = Meant(tables, resolved))'
    BY ReferredIs, PTL
  <1> QED BY <1>1, <1>2

LEMMA NothingMeant == ASSUME NEW chain PROVE Meant(chain, <<>>) = <<>>
  BY DEF Meant

LEMMA FunctionSeq ==
    ASSUME NEW S, NEW n \in Nat, NEW f, f = [k \in 1..n |-> f[k]], \A k \in 1..n : f[k] \in S
    PROVE  f \in Seq(S) /\ Len(f) = n
  <1>1. f \in [1..n -> S]
    OBVIOUS
  <1> QED BY <1>1, SeqDef

LEMMA AppendIs ==
    ASSUME NEW S, NEW n \in Nat, NEW s \in Seq(S), Len(s) = n, NEW e \in S,
           NEW t \in Seq(S), Len(t) = n + 1, \A k \in 1..n : t[k] = s[k], t[n + 1] = e
    PROVE  t = Append(s, e)
  <1>1. Append(s, e) \in Seq(S) /\ Len(Append(s, e)) = n + 1
        /\ \A k \in 1..n : Append(s, e)[k] = s[k]
    BY AppendProperties
  <1>2. Append(s, e)[n + 1] = e
    BY AppendProperties
  <1>3. \A k \in 1..(n + 1) : t[k] = Append(s, e)[k]
    BY <1>1, <1>2
  <1> QED BY <1>1, <1>3, SeqEqual

LEMMA CutIs ==
    ASSUME NEW S, NEW n \in Nat, n > 0, NEW s \in Seq(S), Len(s) = n,
           NEW t \in Seq(S), Len(t) = n - 1, \A k \in 1..(n - 1) : t[k] = s[k]
    PROVE  t = SubSeq(s, 1, n - 1)
  <1>1. /\ SubSeq(s, 1, n - 1) \in Seq(S) /\ Len(SubSeq(s, 1, n - 1)) = n - 1
        /\ \A k \in 1..(n - 1) : SubSeq(s, 1, n - 1)[k] = s[k]
    OBVIOUS
  <1>2. \A k \in 1..(n - 1) : t[k] = SubSeq(s, 1, n - 1)[k]
    BY <1>1
  <1> QED BY <1>1, <1>2, SeqEqual

LEMMA ReplacedIs ==
    ASSUME NEW S, NEW n \in Nat, NEW s \in Seq(S), Len(s) = n, NEW e \in S, NEW i \in 1..n,
           NEW t \in Seq(S), Len(t) = n, \A k \in 1..n : k # i => t[k] = s[k], t[i] = e
    PROVE  t = [s EXCEPT ![i] = e]
  <1>1. [s EXCEPT ![i] = e] \in Seq(S) /\ Len([s EXCEPT ![i] = e]) = n
        /\ \A k \in 1..n : [s EXCEPT ![i] = e][k] = IF k = i THEN e ELSE s[k]
    BY ExceptSeq
  <1>2. \A k \in 1..n : t[k] = [s EXCEPT ![i] = e][k]
    BY <1>1
  <1> QED BY <1>1, <1>2, SeqEqual

\* Both are sequences of as many elements as there are tables.
LEMMA RowsSeq ==
    ASSUME NEW chain, Chain(chain), NEW S,
           \A k \in 1..Len(chain) : Row(k, chain[k]) \in S
    PROVE  /\ Rows(chain) \in Seq(S) /\ Len(Rows(chain)) = Len(chain)
           /\ \A k \in 1..Len(chain) : Rows(chain)[k] = Row(k, chain[k])
  <1>1. DOMAIN chain = 1..Len(chain) /\ Len(chain) \in Nat
    BY DEF Chain
  <1>2. PICK f : f = Rows(chain)
    OBVIOUS
  <1>3. f = [k \in 1..Len(chain) |-> Row(k, chain[k])]
    BY <1>1, <1>2 DEF Rows
  <1>4. \A k \in 1..Len(chain) : f[k] = Row(k, chain[k])
    BY <1>3
  <1>5. f = [k \in 1..Len(chain) |-> f[k]] /\ \A k \in 1..Len(chain) : f[k] \in S
    BY <1>3, <1>4
  <1>6. f \in Seq(S) /\ Len(f) = Len(chain)
    BY <1>1, <1>5, FunctionSeq
  <1> QED BY <1>2, <1>4, <1>6

LEMMA CountsSeq ==
    ASSUME NEW chain, Chain(chain)
    PROVE  /\ Counts(chain) \in Seq(Nat) /\ Len(Counts(chain)) = Len(chain)
           /\ \A k \in 1..Len(chain) : Counts(chain)[k] = chain[k].numDefinitions
  <1>1. DOMAIN chain = 1..Len(chain) /\ Len(chain) \in Nat
    BY DEF Chain
  <1>2. PICK f : f = Counts(chain)
    OBVIOUS
  <1>3. f = [k \in 1..Len(chain) |-> chain[k].numDefinitions]
    BY <1>1, <1>2 DEF Counts
  <1>4. \A k \in 1..Len(chain) : f[k] = chain[k].numDefinitions
    BY <1>3
  <1>5. ASSUME NEW k \in 1..Len(chain) PROVE chain[k].numDefinitions \in Nat
    BY TableTyped DEF Chain
  <1>6. f = [k \in 1..Len(chain) |-> f[k]] /\ \A k \in 1..Len(chain) : f[k] \in Nat
    BY <1>3, <1>4, <1>5
  <1>7. f \in Seq(Nat) /\ Len(f) = Len(chain)
    BY <1>1, <1>6, FunctionSeq
  <1> QED BY <1>2, <1>4, <1>7

\* The names and parameters of a function literal.
LEMMA LiteralRow ==
    ASSUME NEW table, NEW k \in Nat, NEW self \in Names \cup {NoName},
           NEW params \in Seq(Names), StoresLiteral(table, self, params)
    PROVE  Row(k, table) = Lexical!FunctionScope(k, self, params)
  <1> DEFINE own == ({self} \ {NoName}) \cup {params[i] : i \in DOMAIN params}
  <1>1. \A x \in Names : table.store[x] = LiteralSymbol(self, params, x)
    BY DEF StoresLiteral
  <1>2. /\ Symbol("", "", 0).scope = ""
        /\ \A x, i : Symbol(x, "LOCAL", i).scope = "LOCAL" /\ Symbol(x, "FUNCTION", 0).scope = "FUNCTION"
                   /\ Symbol(x, "LOCAL", i).index = i
    BY DEF Symbol
  <1>3. ASSUME NEW x \in Names
        PROVE  Positions(params, x) # {} <=> x \in {params[i] : i \in DOMAIN params}
    BY DEF Positions
  <1>4. own \subseteq Names
    <2>1. \A i \in DOMAIN params : params[i] \in Names
      OBVIOUS
    <2> QED BY <2>1
  <1>5. ASSUME NEW x \in Names PROVE x \in OwnNames(table) <=> x \in own
    <2>1. NoName \notin Names
      BY ScopingAssumption
    <2>2. Symbol("", "", 0).scope # "LOCAL" /\ Symbol("", "", 0).scope # "FUNCTION"
      BY <1>2
    <2>3. x \in OwnNames(table) <=> Positions(params, x) # {} \/ x = self
      <3>1. PICK s : s = table.store[x] /\ s = LiteralSymbol(self, params, x)
        BY <1>1
      <3>2. x \in OwnNames(table) <=> s # NoSymbol /\ s.scope # "FREE"
        BY <3>1 DEF OwnNames, Holds
      <3>3. CASE Positions(params, x) # {}
        <4>1. s = Symbol(x, "LOCAL", LastPosition(params, x) - 1)
          BY <3>1, <3>3 DEF LiteralSymbol
        <4>2. s.scope = "LOCAL" /\ NoSymbol.scope = ""
          BY <1>2, <4>1 DEF NoSymbol
        <4> QED BY <3>2, <3>3, <4>2
      <3>4. CASE Positions(params, x) = {} /\ x = self
        <4>1. s = Symbol(x, "FUNCTION", 0)
          BY <3>1, <3>4 DEF LiteralSymbol
        <4>2. s.scope = "FUNCTION" /\ NoSymbol.scope = ""
          BY <1>2, <4>1 DEF NoSymbol
        <4> QED BY <3>2, <3>4, <4>2
      <3>5. CASE Positions(params, x) = {} /\ x # self
        BY <3>1, <3>2, <3>5 DEF LiteralSymbol
      <3> QED BY <3>3, <3>4, <3>5
    <2> QED BY <1>3, <2>1, <2>3
  <1>6. OwnNames(table) = own
    BY <1>4, <1>5 DEF OwnNames
  <1>7. ASSUME NEW x \in own
        PROVE  Place(k, table.store[x]) =
                 IF Positions(params, x) # {} THEN <<k, "slot", LastPosition(params, x) - 1>>
                 ELSE <<k, "self", 0>>
    <2>1. x \in Names
      BY <1>4
    <2>2. CASE Positions(params, x) # {}
      <3>1. table.store[x] = Symbol(x, "LOCAL", LastPosition(params, x) - 1)
        BY <1>1, <2>1, <2>2 DEF LiteralSymbol
      <3>2. table.store[x].scope = "LOCAL" /\ table.store[x].index = LastPosition(params, x) - 1
        BY <3>1 DEF Symbol
      <3> QED BY <2>2, <3>2 DEF Place, Declaration
    <2>3. CASE Positions(params, x) = {}
      <3>1. x = self
        BY <1>3, <2>1, <2>3
      <3>2. table.store[x] = Symbol(x, "FUNCTION", 0)
        BY <1>1, <2>1, <2>3, <3>1 DEF LiteralSymbol
      <3> QED BY <1>2, <2>3, <3>2 DEF Place, Declaration
    <2> QED BY <2>2, <2>3
  <1>8. \A x : Lexical!Positions(params, x) = Positions(params, x)
                /\ Lexical!LastPosition(params, x) = LastPosition(params, x)
    BY DEF Lexical!Positions, Positions, Lexical!LastPosition, LastPosition
  <1>9. Row(k, table) = [x \in own |->
            IF Positions(params, x) # {} THEN <<k, "slot", LastPosition(params, x) - 1>>
            ELSE <<k, "self", 0>>]
    BY <1>6, <1>7 DEF Row
  <1> QED BY <1>8, <1>9 DEF Lexical!FunctionScope

-----------------------------------------------------------------------------
(* Every step is one of lexical scoping.                                   *)

LEMMA EnterMaps ==
    ASSUME Inv, Inv', NEW self \in Names \cup {NoName}, NEW params \in Params,
           EnterFunction(self, params)
    PROVE  Lexical!EnterFunction(self, params)
  <1>1. PICK n \in Nat : n = Len(tables) /\ n > 0
    BY DEF Inv, TypeOK
  <1>2. params \in Seq(Names)
    BY ScopingAssumption
  <1>3. /\ Len(tables') = n + 1 /\ \A k \in 1..n : tables'[k] = tables[k]
        /\ tables'[n + 1].numDefinitions = Len(params)
        /\ StoresLiteral(tables'[n + 1], self, params)
    BY <1>1, <1>2, EnterTables DEF Inv, TypeOK, EnterFunction
  <1>4. Chain(tables) /\ Chain(tables')
    BY InvSound, SoundNext DEF Sound
  <1>5. PICK row : row = Row(n + 1, tables'[n + 1])
    OBVIOUS
  <1>6. PICK S : S = {Row(k, tables[k]) : k \in 1..n} \cup {row}
    OBVIOUS
  <1>7. /\ Rows(tables) \in Seq(S) /\ Len(Rows(tables)) = n
        /\ \A k \in 1..n : Rows(tables)[k] = Row(k, tables[k])
    <2>1. \A k \in 1..n : Row(k, tables[k]) \in S
      BY <1>6
    <2> QED BY <1>1, <1>4, <2>1, RowsSeq
  <1>8. /\ Rows(tables') \in Seq(S) /\ Len(Rows(tables')) = n + 1
        /\ \A k \in 1..(n + 1) : Rows(tables')[k] = Row(k, tables'[k])
    <2>1. \A k \in 1..(n + 1) : Row(k, tables'[k]) \in S
      BY <1>3, <1>5, <1>6
    <2> QED BY <1>3, <1>4, <2>1, RowsSeq
  <1>9. Rows(tables') = Append(Rows(tables), row)
    <2>1. \A k \in 1..n : Rows(tables')[k] = Rows(tables)[k]
      BY <1>3, <1>7, <1>8
    <2>2. Rows(tables')[n + 1] = row /\ row \in S
      BY <1>5, <1>6, <1>8
    <2> QED BY <1>7, <1>8, <2>1, <2>2, AppendIs
  <1>10. row = Lexical!FunctionScope(n + 1, self, params)
    BY <1>2, <1>3, <1>5, LiteralRow
  <1>11. Environment' = Append(Environment, Lexical!FunctionScope(Len(Environment) + 1, self, params))
    BY <1>7, <1>9, <1>10, EnvironmentIs, NextIs
  <1>12. Counts(tables') = Append(Counts(tables), Len(params))
    <2>1. PICK old, new : old = Counts(tables) /\ new = Counts(tables')
      OBVIOUS
    <2>2. /\ old \in Seq(Nat) /\ Len(old) = n /\ \A k \in 1..n : old[k] = tables[k].numDefinitions
          /\ new \in Seq(Nat) /\ Len(new) = n + 1
          /\ \A k \in 1..(n + 1) : new[k] = tables'[k].numDefinitions
      BY <1>1, <1>3, <1>4, <2>1, CountsSeq
    <2>3. \A k \in 1..n : new[k] = old[k]
      BY <1>3, <2>2, SMTT(30)
    <2>4. new[n + 1] = Len(params) /\ Len(params) \in Nat
      BY <1>2, <1>3, <2>2
    <2> QED BY <2>1, <2>2, <2>3, <2>4, AppendIs
  <1>13. Referred' = <<>>
    BY NextIs, NothingMeant DEF EnterFunction
  <1> QED BY <1>11, <1>12, <1>13 DEF Lexical!EnterFunction, Counts

LEMMA LeaveMaps ==
    ASSUME Inv, Inv', LeaveFunction
    PROVE  Lexical!LeaveFunction
  <1>1. PICK n \in Nat : n = Len(tables) /\ n > 1
    BY DEF Inv, TypeOK, LeaveFunction
  <1>2. Len(tables') = n - 1 /\ \A k \in 1..(n - 1) : tables'[k] = tables[k]
    BY <1>1 DEF Inv, TypeOK, LeaveFunction
  <1>3. Chain(tables) /\ Chain(tables')
    BY InvSound, SoundNext DEF Sound
  <1>4. PICK S : S = {Row(k, tables[k]) : k \in 1..n}
    OBVIOUS
  <1>5. /\ Rows(tables) \in Seq(S) /\ Len(Rows(tables)) = n
        /\ \A k \in 1..n : Rows(tables)[k] = Row(k, tables[k])
    <2>1. \A k \in 1..n : Row(k, tables[k]) \in S
      BY <1>4
    <2> QED BY <1>1, <1>3, <2>1, RowsSeq
  <1>6. /\ Rows(tables') \in Seq(S) /\ Len(Rows(tables')) = n - 1
        /\ \A k \in 1..(n - 1) : Rows(tables')[k] = Row(k, tables'[k])
    <2>1. \A k \in 1..(n - 1) : Row(k, tables'[k]) \in S
      BY <1>2, <1>4
    <2> QED BY <1>2, <1>3, <2>1, RowsSeq
  <1>7. Rows(tables') = SubSeq(Rows(tables), 1, n - 1)
    <2>1. \A k \in 1..(n - 1) : Rows(tables')[k] = Rows(tables)[k]
      BY <1>2, <1>5, <1>6
    <2> QED BY <1>1, <1>5, <1>6, <2>1, CutIs
  <1>8. Counts(tables') = SubSeq(Counts(tables), 1, n - 1) /\ Len(Counts(tables)) = n
    <2>1. PICK old, new : old = Counts(tables) /\ new = Counts(tables')
      OBVIOUS
    <2>2. /\ old \in Seq(Nat) /\ Len(old) = n /\ \A k \in 1..n : old[k] = tables[k].numDefinitions
          /\ new \in Seq(Nat) /\ Len(new) = n - 1
          /\ \A k \in 1..(n - 1) : new[k] = tables'[k].numDefinitions
      BY <1>1, <1>2, <1>3, <2>1, CountsSeq
    <2>3. \A k \in 1..(n - 1) : new[k] = old[k]
      BY <1>2, <2>2, SMTT(30)
    <2> QED BY <1>1, <2>1, <2>2, <2>3, CutIs
  <1>9. Environment' = SubSeq(Environment, 1, Len(Environment) - 1)
    BY <1>5, <1>7, EnvironmentIs, NextIs
  <1>10. Referred' = <<>>
    BY NextIs, NothingMeant DEF LeaveFunction
  <1> QED BY <1>1, <1>8, <1>9, <1>10 DEF Lexical!LeaveFunction, Counts

LEMMA DeclareMaps ==
    ASSUME Inv, Inv', NEW name \in Names, Declare(name)
    PROVE  Lexical!Declare(name)
  <1>1. PICK n \in Nat : n = Len(tables) /\ n > 0
    BY DEF Inv, TypeOK
  <1>2. PICK old, new, i :
          /\ old = tables[n] /\ new = tables'[n] /\ i = old.numDefinitions
    OBVIOUS
  <1>3. PICK scope : scope = IF n = 1 THEN "GLOBAL" ELSE "LOCAL"
    OBVIOUS
  <1>4. /\ Len(tables') = n /\ n \in 1..n /\ \A k \in 1..n : k # n => tables'[k] = tables[k]
        /\ new.numDefinitions = i + 1
        /\ \A x \in Names : x # name => new.store[x] = old.store[x]
        /\ new.store[name] = Symbol(name, scope, i) /\ Holds(new, name)
    BY <1>1, <1>2, <1>3, DeclareTables
  <1>5. Chain(tables) /\ Chain(tables')
    BY InvSound, SoundNext DEF Sound
  <1>6. OwnNames(new) = OwnNames(old) \cup {name}
    <2>1. ASSUME NEW x \in Names, x # name
          PROVE  Own(new, x) <=> Own(old, x)
      BY <1>4, <2>1 DEF Own, Holds
    <2>2. new.store[name].scope # "FREE"
      BY <1>3, <1>4 DEF Symbol
    <2>3. Own(new, name)
      BY <1>4, <2>2 DEF Own
    <2> QED BY <2>1, <2>3 DEF OwnNames, Own
  <1>7. Place(n, new.store[name]) = <<n, "slot", i>>
    <2>1. new.store[name].scope = scope /\ new.store[name].index = i
      BY <1>4 DEF Symbol
    <2> QED BY <1>3, <2>1 DEF Place, Declaration
  <1>8. Row(n, new) = [x \in OwnNames(old) \cup {name} |->
                          IF x = name THEN <<n, "slot", i>> ELSE Row(n, old)[x]]
    <2>1. ASSUME NEW x \in OwnNames(old) \cup {name}
          PROVE  Place(n, new.store[x]) = IF x = name THEN <<n, "slot", i>> ELSE Row(n, old)[x]
      <3>1. CASE x = name
        BY <1>7, <3>1
      <3>2. CASE x # name
        <4>1. x \in OwnNames(old) /\ new.store[x] = old.store[x]
          BY <1>4, <2>1, <3>2 DEF OwnNames
        <4> QED BY <3>2, <4>1 DEF Row
      <3> QED BY <3>1, <3>2
    <2> QED BY <1>6, <2>1 DEF Row
  <1>9. PICK S : S = {Row(k, tables[k]) : k \in 1..n} \cup {Row(n, new)}
    OBVIOUS
  <1>10. /\ Rows(tables) \in Seq(S) /\ Len(Rows(tables)) = n
         /\ \A k \in 1..n : Rows(tables)[k] = Row(k, tables[k])
    <2>1. \A k \in 1..n : Row(k, tables[k]) \in S
      BY <1>9
    <2> QED BY <1>1, <1>5, <2>1, RowsSeq
  <1>11. /\ Rows(tables') \in Seq(S) /\ Len(Rows(tables')) = n
         /\ \A k \in 1..n : Rows(tables')[k] = Row(k, tables'[k])
    <2>1. \A k \in 1..n : Row(k, tables'[k]) \in S
      BY <1>2, <1>4, <1>9
    <2> QED BY <1>4, <1>5, <2>1, RowsSeq
  <1>12. Rows(tables') = [Rows(tables) EXCEPT ![n] = Row(n, new)]
    <2>1. \A k \in 1..n : k # n => Rows(tables')[k] = Rows(tables)[k]
      BY <1>4, <1>10, <1>11
    <2>2. Rows(tables')[n] = Row(n, new) /\ Row(n, new) \in S
      BY <1>2, <1>4, <1>9, <1>11
    <2> QED BY <1>4, <1>10, <1>11, <2>1, <2>2, ReplacedIs
  <1>13. DOMAIN Row(n, old) = OwnNames(old) /\ Rows(tables)[n] = Row(n, old)
    BY <1>2, <1>4, <1>10 DEF Row
  <1>14. /\ Counts(tables) \in Seq(Nat) /\ Len(Counts(tables)) = n /\ Counts(tables)[n] = i
         /\ Counts(tables') = [Counts(tables) EXCEPT ![n] = i + 1]
    <2>1. PICK before, after : before = Counts(tables) /\ after = Counts(tables')
      OBVIOUS
    <2>2. /\ before \in Seq(Nat) /\ Len(before) = n /\ \A k \in 1..n : before[k] = tables[k].numDefinitions
          /\ after \in Seq(Nat) /\ Len(after) = n
          /\ \A k \in 1..n : after[k] = tables'[k].numDefinitions
      BY <1>1, <1>4, <1>5, <2>1, CountsSeq
    <2>3. \A k \in 1..n : k # n => after[k] = before[k]
      BY <1>4, <2>2
    <2>4. before[n] = i /\ after[n] = i + 1 /\ i + 1 \in Nat
      BY <1>2, <1>4, <2>2
    <2>5. after = [before EXCEPT ![n] = i + 1]
      BY <1>4, <2>2, <2>3, <2>4, ReplacedIs
    <2> QED BY <2>1, <2>2, <2>4, <2>5
  <1>15. PICK env, rows : /\ env = Environment /\ env = Rows(tables)
                          /\ rows = Environment' /\ rows = Rows(tables')
    BY EnvironmentIs, NextIs
  <1>16. rows = [env EXCEPT ![n] =
            [x \in DOMAIN @ \cup {name} |-> IF x = name THEN <<n, "slot", i>> ELSE @[x]]]
    <2>1. env[n] = Row(n, old) /\ DOMAIN env[n] = OwnNames(old)
      BY <1>13, <1>15
    <2>2. [x \in DOMAIN env[n] \cup {name} |-> IF x = name THEN <<n, "slot", i>> ELSE env[n][x]]
            = Row(n, new)
      BY <1>8, <2>1
    <2> QED BY <1>12, <1>15, <2>2
  <1>17. Referred' = <<>>
    BY NextIs, NothingMeant DEF Declare
  <1>18. PICK counts, after : /\ counts = Counts(tables) /\ after = Counts(tables')
                              /\ Len(counts) = n /\ counts[n] = i
                              /\ after = [counts EXCEPT ![n] = @ + 1]
    BY <1>14
  <1>19. rows = [env EXCEPT ![n] =
            [x \in DOMAIN @ \cup {name} |-> IF x = name THEN <<n, "slot", counts[n]>> ELSE @[x]]]
    BY <1>16, <1>18
  <1>20. /\ [k \in DOMAIN tables |-> tables[k].numDefinitions] = counts
         /\ [k \in DOMAIN tables' |-> tables'[k].numDefinitions] = after
    BY <1>18 DEF Counts
  <1> QED BY <1>15, <1>17, <1>18, <1>19, <1>20 DEF Lexical!Declare

\* A Use leaves the rows and the counts as they are.
LEMMA UseKeeps ==
    ASSUME Inv, Inv', NEW name \in Names, Resolvable(tables, name), Use(name)
    PROVE  Rows(tables') = Rows(tables) /\ Counts(tables') = Counts(tables)
  <1>1. PICK n \in Nat : n = Len(tables) /\ n = Len(tables') /\ n > 0
    BY UseCaptures DEF Inv, TypeOK
  <1>2. DOMAIN tables = 1..n /\ DOMAIN tables' = 1..n
    <2>1. tables \in Seq(TableType) /\ tables' \in Seq(TableType)
      BY UseCaptures DEF Inv, TypeOK
    <2>2. DOMAIN tables = 1..Len(tables) /\ DOMAIN tables' = 1..Len(tables')
      BY <2>1, LenProperties
    <2> QED BY <1>1, <2>2
  <1>3. ASSUME NEW k \in 1..n PROVE tables'[k].numDefinitions = tables[k].numDefinitions
    <2>1. \/ tables'[k] = tables[k]
          \/ \E original : CapturesName(tables[k], tables'[k], name, original)
      BY <1>1, UseCaptures
    <2> QED BY <2>1 DEF CapturesName
  <1>4. ASSUME NEW k \in 1..n PROVE Row(k, tables'[k]) = Row(k, tables[k])
    <2>1. \A x \in Names : /\ Own(tables'[k], x) <=> Own(tables[k], x)
                           /\ Own(tables[k], x) => tables'[k].store[x] = tables[k].store[x]
      BY <1>1, UseGrows DEF SameOwners
    <2>2. OwnNames(tables'[k]) = OwnNames(tables[k])
      BY <2>1 DEF OwnNames, Own
    <2>3. ASSUME NEW x \in OwnNames(tables[k]) PROVE tables'[k].store[x] = tables[k].store[x]
      BY <2>1 DEF OwnNames, Own
    <2> QED BY <2>2, <2>3 DEF Row
  <1>5. Rows(tables') = Rows(tables)
    BY <1>2, <1>4 DEF Rows
  <1>6. Counts(tables') = Counts(tables)
    BY <1>2, <1>3 DEF Counts
  <1> QED BY <1>5, <1>6

LEMMA UseMaps ==
    ASSUME LexicalInv, Inv', NEW name \in Names, Use(name)
    PROVE  Lexical!Use(name)
  <1>1. PICK n \in Nat : n = Len(tables) /\ n > 0 /\ DOMAIN tables = 1..n
    BY DEF LexicalInv, Inv, TypeOK
  <1>2. PICK env : env = Environment /\ env = Rows(tables)
    BY EnvironmentIs DEF LexicalInv
  <1>3. DOMAIN env = 1..n /\ \A k \in 1..n : env[k] = Row(k, tables[k])
    BY <1>1, <1>2 DEF Rows
  <1>4. ASSUME NEW k \in 1..n
        PROVE  /\ name \in DOMAIN env[k] <=> Own(tables[k], name)
               /\ Own(tables[k], name) => env[k][name] = Place(k, tables[k].store[name])
    <2>1. DOMAIN Row(k, tables[k]) = OwnNames(tables[k])
      BY DEF Row
    <2>2. name \in OwnNames(tables[k]) <=> Own(tables[k], name)
      BY OwnIs
    <2>3. name \in OwnNames(tables[k]) => Row(k, tables[k])[name] = Place(k, tables[k].store[name])
      BY DEF Row
    <2> QED BY <1>3, <2>1, <2>2, <2>3
  <1>5. Lexical!Declaring(name) = {k \in 1..n : Own(tables[k], name)}
    BY <1>2, <1>3, <1>4 DEF Lexical!Declaring
  <1>6. CASE ~Resolvable(tables, name)
    <2>1. resolved' = <<>> /\ tables' = tables
      BY <1>6 DEF Use
    <2>2. \A k \in 1..n : ~Own(tables[k], name)
      BY <1>1, <1>6 DEF Resolvable, Holders, Own
    <2>3. Lexical!Declaring(name) = {}
      BY <1>5, <2>2
    <2>4. Referred' = <<>> /\ Environment' = Environment
      BY <1>2, <2>1, NextIs, NothingMeant
    <2> QED BY <2>1, <2>3, <2>4 DEF Lexical!Use
  <1>7. CASE Resolvable(tables, name)
    <2>1. PICK d, at : /\ d = Declaration(Home(tables, name), HomeSymbol(tables, name),
                                         Sources(tables)[Home(tables, name)])
                       /\ at = SymbolAt(tables, name, n)
      OBVIOUS
    <2>2. n \in Home(tables, name)..Len(tables) /\ resolved' = <<at>> /\ Len(tables') = n
      BY <1>1, <1>7, <2>1, UseCaptures DEF LexicalInv
    <2>3. Denotes(tables, n, name, d)
      BY <1>7, <2>1, <2>2, HomeDenotes
    <2>4. Declaration(n, at, Sources(tables')[n]) = d
      BY <1>7, <2>1, <2>2, ResolvedLeads
    <2>5. Referred' = <<d>>
      <3>1. Referred' = [i \in DOMAIN <<at>> |-> Declaration(n, <<at>>[i], Sources(tables')[n])]
        BY <2>2, NextIs DEF Meant
      <3>2. DOMAIN <<at>> = {1} /\ \A i \in {1} : <<at>>[i] = at
        OBVIOUS
      <3>3. Referred' = [i \in {1} |-> d]
        BY <2>4, <3>1, <3>2
      <3> QED BY <3>3
    <2>6. PICK h \in 1..n : /\ Own(tables[h], name) /\ \A j \in (h + 1)..n : ~Own(tables[j], name)
                            /\ d = Place(h, tables[h].store[name])
      BY <2>3 DEF Denotes
    <2>7. Lexical!Innermost(name) = h
      <3>1. h \in Lexical!Declaring(name) /\ \A j \in Lexical!Declaring(name) : j <= h
        BY <1>5, <2>6
      <3>2. ASSUME NEW g \in Lexical!Declaring(name), \A j \in Lexical!Declaring(name) : j <= g
            PROVE  g = h
        <4>1. g \in Int /\ h \in Int
          BY <1>5
        <4> QED BY <3>1, <3>2, <4>1
      <3> QED BY <3>1, <3>2 DEF Lexical!Innermost
    <2>8. env[h][name] = d /\ Lexical!Declaring(name) # {}
      BY <1>4, <1>5, <2>6
    <2>9. Environment' = Environment /\ Counts(tables') = Counts(tables)
      BY <1>2, <1>7, NextIs, UseKeeps DEF LexicalInv
    <2> QED BY <1>2, <2>5, <2>7, <2>8, <2>9 DEF Lexical!Use, Counts
  <1> QED BY <1>6, <1>7

LEMMA InitMaps == ASSUME Init PROVE Lexical!Init
  <1>1. PICK table : table = AddBuiltins(EmptyTable, Builtins)
    OBVIOUS
  <1>2. /\ table.store = [x \in Names |->
              IF Positions(Builtins, x) = {} THEN NoSymbol
              ELSE Symbol(x, "BUILTIN", LastPosition(Builtins, x) - 1)]
        /\ table.numDefinitions = 0
    BY <1>1 DEF AddBuiltins, EmptyTable
  <1>3. tables = <<table>> /\ resolved = <<>>
    BY <1>1 DEF Init, DefineBuiltins, NewSymbolTable
  <1> DEFINE builtins == {Builtins[i] : i \in DOMAIN Builtins}
  <1>4. builtins \subseteq Names
    <2>1. \A i \in DOMAIN Builtins : Builtins[i] \in Names
      BY ScopingAssumption
    <2> QED BY <2>1
  <1>5. ASSUME NEW x \in Names
        PROVE  /\ x \in OwnNames(table) <=> x \in builtins
               /\ x \in builtins =>
                    Place(1, table.store[x]) = <<1, "builtin", LastPosition(Builtins, x) - 1>>
    <2>1. x \in builtins <=> Positions(Builtins, x) # {}
      BY DEF Positions
    <2>2. CASE Positions(Builtins, x) = {}
      <3>1. table.store[x] = NoSymbol
        BY <1>2, <2>2
      <3> QED BY <2>1, <2>2, <3>1 DEF OwnNames, Holds
    <2>3. CASE Positions(Builtins, x) # {}
      <3>1. PICK s : s = table.store[x] /\ s = Symbol(x, "BUILTIN", LastPosition(Builtins, x) - 1)
        BY <1>2, <2>3
      <3>2. s.scope = "BUILTIN" /\ s.index = LastPosition(Builtins, x) - 1 /\ NoSymbol.scope = ""
        BY <3>1 DEF Symbol, NoSymbol
      <3>3. x \in OwnNames(table)
        BY <3>1, <3>2 DEF OwnNames, Holds
      <3>4. Place(1, s) = <<1, "builtin", LastPosition(Builtins, x) - 1>>
        BY <3>2 DEF Place, Declaration
      <3> QED BY <2>1, <2>3, <3>1, <3>3, <3>4
    <2> QED BY <2>2, <2>3
  <1>6. OwnNames(table) = builtins
    BY <1>4, <1>5 DEF OwnNames
  <1>7. \A x : Lexical!LastPosition(Builtins, x) = LastPosition(Builtins, x)
    BY DEF Lexical!Positions, Positions, Lexical!LastPosition, LastPosition
  <1>8. Row(1, table) = Lexical!BuiltinScope
    BY <1>4, <1>5, <1>6, <1>7 DEF Row, Lexical!BuiltinScope
  <1>9. DOMAIN tables = {1} /\ tables[1] = table
    BY <1>3
  <1>10. Rows(tables) = <<Row(1, table)>>
    BY <1>9 DEF Rows
  <1>11. Counts(tables) = <<0>>
    BY <1>2, <1>9 DEF Counts
  <1>12. Environment = <<Lexical!BuiltinScope>>
    BY <1>8, <1>10, EnvironmentIs, InitInv
  <1>13. Referred = <<>>
    BY <1>3, ReferredIs, NothingMeant
  <1> QED BY <1>11, <1>12, <1>13 DEF Lexical!Init, Counts

-----------------------------------------------------------------------------
(* The theorems.                                                           *)

LEMMA InitLexical == ASSUME Init PROVE LexicalInv
  <1>1. Inv /\ Sound(tables)
    BY InitInv, InvSound
  <1>2. Len(tables) = 1
    BY DEF Init, DefineBuiltins, NewSymbolTable
  <1>3. FreeRight(tables)
    BY <1>1, <1>2 DEF FreeRight, Sound
  <1> QED BY <1>1, <1>3 DEF LexicalInv

LEMMA NextLexical ==
    ASSUME LexicalInv, Inv', [Next]_vars
    PROVE  FreeRight(tables') /\ [Lexical!Next]_(Lexical!vars)
  <1>1. Inv
    BY DEF LexicalInv
  <1>2. ASSUME NEW self \in Names \cup {NoName}, NEW params \in Params, EnterFunction(self, params)
        PROVE  FreeRight(tables') /\ Lexical!Next
    BY <1>1, <1>2, EnterFree, EnterMaps DEF Lexical!Next
  <1>3. ASSUME NEW name \in Names, Declare(name)
        PROVE  FreeRight(tables') /\ Lexical!Next
    BY <1>1, <1>3, DeclareFree, DeclareMaps DEF Lexical!Next
  <1>4. ASSUME NEW name \in Names, Use(name)
        PROVE  FreeRight(tables') /\ Lexical!Next
    BY <1>4, UseFree, UseMaps DEF Lexical!Next
  <1>5. CASE LeaveFunction
    BY <1>1, <1>5, LeaveFree, LeaveMaps DEF Lexical!Next
  <1>6. CASE UNCHANGED vars
    <2>1. tables' = tables /\ resolved' = resolved
      BY <1>6 DEF vars
    <2>2. Environment' = Environment /\ Referred' = Referred
      BY <1>1, <2>1, EnvironmentIs, ReferredIs, NextIs
    <2>3. FreeRight(tables')
      BY <2>1 DEF LexicalInv
    <2> QED BY <2>1, <2>2, <2>3 DEF Lexical!vars
  <1> QED BY <1>2, <1>3, <1>4, <1>5, <1>6 DEF Next

(* However functions nest and names are declared again, following the      *)
(* captures of a captured name outwards ends at the innermost declaration  *)
(* around.                                                                 *)
THEOREM CapturesLeadHome == Spec => []LexicalInv
  <1>1. Init => LexicalInv
    BY InitLexical
  <1>2. LexicalInv /\ Inv' /\ [Next]_vars => LexicalInv'
    <2> SUFFICES ASSUME LexicalInv, Inv', [Next]_vars PROVE LexicalInv'
      OBVIOUS
    <2>1. FreeRight(tables')
      BY NextLexical
    <2> QED BY <2>1 DEF LexicalInv
  <1> QED BY <1>1, <1>2, SpecInv, PTL DEF Spec

(* The chain of tables implements lexical scoping: each operation is one   *)
(* of the scopes', and what Resolve returns stands for the declaration     *)
(* that the name denotes at that place of the program.                     *)
THEOREM ImplementsLexicalScoping == Spec => ResolvesLexically
  <1>1. Init => Lexical!Init
    BY InitMaps
  <1>2. LexicalInv /\ Inv' /\ [Next]_vars => [Lexical!Next]_(Lexical!vars)
    BY NextLexical
  <1> QED BY <1>1, <1>2, SpecInv, CapturesLeadHome, PTL DEF Spec, ResolvesLexically, Lexical!Spec
=============================================================================
