------------------------------- MODULE Scoping -------------------------------
(***************************************************************************)
(* How the compiler drives the chain of symbol tables while it walks a     *)
(* program: it opens a table for a function literal and defines the        *)
(* function's name and parameters in it, defines a name at a var           *)
(* statement, resolves a name at every identifier, and drops the table at  *)
(* the end of the literal.                                                 *)
(*                                                                         *)
(* Program text is any sequence of these operations that nests properly,   *)
(* with at most MaxDepth nested tables and MaxDefinitions definitions in   *)
(* each of them.                                                           *)
(***************************************************************************)
EXTENDS SymbolTable, FiniteSets

CONSTANTS
    Builtins,       \* names of builtin functions, in the order of builtins.Builtins
    Params,         \* parameter lists of function literals: sequences of names
    NoName,         \* the empty Name of an anonymous function literal
    MaxDepth,       \* bound: nested tables, the global one included
    MaxDefinitions  \* bound: definitions in one table

ASSUME ScopingAssumption ==
    /\ NoName \notin Names
    /\ Builtins \in Seq(Names)
    /\ Params \subseteq Seq(Names)
    /\ MaxDepth \in Nat
    /\ MaxDefinitions \in Nat

VARIABLES
    tables,     \* c.symbolTable and its Outer chain
    resolved    \* the symbol the last Resolve returned, <<>> if it found none

vars == <<tables, resolved>>

\* The global table as compiler.New fills it.
Init == /\ tables = DefineBuiltins(NewSymbolTable, Builtins)
        /\ resolved = <<>>

\* enterScope, DefineFunctionName if the literal has a name, a Define per parameter.
Named(chain, self) == IF self = NoName THEN chain ELSE DefineFunctionName(chain, self)

EnterFunction(self, params) ==
    /\ Len(tables) < MaxDepth
    /\ Len(params) <= MaxDefinitions
    /\ tables' = DefineEach(Named(NewEnclosedSymbolTable(tables), self), params)
    /\ resolved' = <<>>

Declare(name) ==
    /\ tables[Len(tables)].numDefinitions < MaxDefinitions
    /\ tables' = Define(tables, name)
    /\ resolved' = <<>>

Use(name) ==
    IF Resolvable(tables, name)
    THEN /\ tables' = Resolve(tables, name)
         /\ resolved' = <<Resolved(tables, name)>>
    ELSE /\ resolved' = <<>>
         /\ UNCHANGED tables

\* leaveScope: the table is dropped, its FreeSymbols are loaded by the next one.
LeaveFunction ==
    /\ Len(tables) > 1
    /\ tables' = SubSeq(tables, 1, Len(tables) - 1)
    /\ resolved' = <<>>

Next == \/ \E self \in Names \cup {NoName}, params \in Params : EnterFunction(self, params)
        \/ \E name \in Names : Declare(name) \/ Use(name)
        \/ LeaveFunction

Spec == Init /\ [][Next]_vars
-----------------------------------------------------------------------------
(* Properties                                                              *)

(* The type invariant: a non-empty chain of tables of symbols.             *)
TypeOK ==
    /\ tables \in Seq(TableType)
    /\ Len(tables) > 0
    /\ resolved \in Seq(SymbolType)

\* Whether a load instruction for symbol s finds a value when it is compiled into
\* the function of table k: a defined slot, a captured value, the closure itself.
Loadable(chain, k, s) ==
    \/ s.scope = "GLOBAL" /\ s.index < chain[1].numDefinitions
    \/ s.scope = "LOCAL" /\ k > 1 /\ s.index < chain[k].numDefinitions
    \/ s.scope = "FREE" /\ k > 1 /\ s.index < Len(chain[k].FreeSymbols)
    \/ s.scope = "FUNCTION" /\ k > 1
    \/ s.scope = "BUILTIN" /\ s.index < Len(Builtins)

(* Every symbol a table captured can be loaded by the function around it:  *)
(* the loads that FunctionLiteral emits for FreeSymbols after leaveScope   *)
(* name a local slot, a captured value or the closure of that function,    *)
(* never a slot it has not got.  Globals and builtins are never captured,  *)
(* and main captures nothing.                                              *)
CapturesLoadable ==
    \A k \in DOMAIN tables : \A i \in DOMAIN tables[k].FreeSymbols :
        LET s == tables[k].FreeSymbols[i]
        IN  /\ k > 1
            /\ s.scope \in {"LOCAL", "FREE", "FUNCTION"}
            /\ Loadable(tables, k - 1, s)

(* Every symbol in a table names something its own function can load, and  *)
(* a free symbol names the captured value of that very name.               *)
SymbolsLoadable ==
    \A k \in DOMAIN tables : \A x \in Names :
        LET s == tables[k].store[x]
        IN  Holds(tables[k], x) =>
              /\ s.name = x
              /\ Loadable(tables, k, s)
              /\ s.scope = "FREE" => tables[k].FreeSymbols[s.index + 1].name = x

(* Two names of one function never share a slot, however often either was  *)
(* declared: assigning to one would change the other.                      *)
SlotsDistinct ==
    \A k \in DOMAIN tables : \A x, y \in Names :
        LET s == tables[k].store[x]
            r == tables[k].store[y]
        IN  x # y /\ s.scope \in {"GLOBAL", "LOCAL"} /\ r.scope = s.scope => s.index # r.index

(* A function captures a name at most once, whatever it declares under     *)
(* that name afterwards: two captures of one variable would be two copies  *)
(* of its value.                                                           *)
CapturedOnce ==
    \A k \in DOMAIN tables : \A i, j \in DOMAIN tables[k].FreeSymbols :
        tables[k].FreeSymbols[i].name = tables[k].FreeSymbols[j].name => i = j

-----------------------------------------------------------------------------
(* Scoping implements lexical scoping.  A symbol of table k stands for the *)
(* declaration found by following captured symbols outwards.               *)

\* The declaration behind symbol s of table k; captured[i] is the one behind
\* the table's i-th captured symbol.
Declaration(k, s, captured) ==
    CASE s.scope = "FREE"     -> captured[s.index + 1]
      [] s.scope = "GLOBAL"   -> <<1, "slot", s.index>>
      [] s.scope = "LOCAL"    -> <<k, "slot", s.index>>
      [] s.scope = "BUILTIN"  -> <<1, "builtin", s.index>>
      [] s.scope = "FUNCTION" -> <<k, "self", 0>>

CapturedFrom ==
    LET captured[k \in DOMAIN tables] ==
          [i \in DOMAIN tables[k].FreeSymbols |->
              Declaration(k - 1, tables[k].FreeSymbols[i], captured[k - 1])]
    IN  captured

OwnNames(t) == {x \in Names : Holds(t, x) /\ t.store[x].scope # "FREE"}

Environment ==
    LET captured == CapturedFrom
    IN  [k \in DOMAIN tables |->
            [x \in OwnNames(tables[k]) |-> Declaration(k, tables[k].store[x], captured[k])]]

Referred == [i \in DOMAIN resolved |->
                Declaration(Len(tables), resolved[i], CapturedFrom[Len(tables)])]

Lexical == INSTANCE LexicalScopes WITH
    env       <- Environment,
    count     <- [k \in DOMAIN tables |-> tables[k].numDefinitions],
    reference <- Referred

(* Whatever captures lie between a use and a declaration, the symbol that  *)
(* Resolve returns leads, capture by capture, to the declaration lexical   *)
(* scoping gives the name at that point of the program.                    *)
ResolvesLexically == Lexical!Spec
=============================================================================
