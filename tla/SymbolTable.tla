----------------------------- MODULE SymbolTable -----------------------------
(***************************************************************************)
(* compiler/symbol_table.go.                                               *)
(*                                                                         *)
(* A *SymbolTable and its chain of Outer pointers is a sequence of tables, *)
(* outermost first: table 1 is the global one, the last is the one the     *)
(* compiler points at.  Every operation works on the last table of the     *)
(* chain; Resolve, the only one that follows Outer, may also extend the    *)
(* tables between the one that holds the name and the last.                *)
(***************************************************************************)
EXTENDS Integers, Sequences

CONSTANT Names      \* identifiers

Scopes == {"LOCAL", "GLOBAL", "BUILTIN", "FREE", "FUNCTION"}

Symbol(name, scope, index) == [name |-> name, scope |-> scope, index |-> index]

SymbolType == [name : Names, scope : Scopes, index : Nat]

\* The zero Symbol a lookup returns for a name the store does not hold.
NoSymbol == Symbol("", "", 0)

TableType == [store          : [Names -> SymbolType \cup {NoSymbol}],
              numDefinitions : Nat,
              FreeSymbols    : Seq(SymbolType)]

EmptyTable == [store          |-> [x \in Names |-> NoSymbol],
               numDefinitions |-> 0,
               FreeSymbols    |-> <<>>]

Holds(table, name) == table.store[name] # NoSymbol

NewSymbolTable == <<EmptyTable>>

NewEnclosedSymbolTable(tables) == Append(tables, EmptyTable)

Put(store, symbol) == [store EXCEPT ![symbol.name] = symbol]

Positions(s, x) == {i \in DOMAIN s : s[i] = x}

LastPosition(s, x) == CHOOSE i \in Positions(s, x) : \A j \in Positions(s, x) : j <= i

\* Faulty variants: a repeated name keeps its first slot; slots are not counted;
\* slots are numbered from 0 in every Define.
AddSlotsKeepingFirst(table, scope, names) ==
    [store          |-> [x \in Names |->
                            IF Positions(names, x) = {} THEN table.store[x]
                            ELSE Symbol(x, scope, table.numDefinitions
                                    + (CHOOSE i \in Positions(names, x) :
                                          \A j \in Positions(names, x) : i <= j) - 1)],
     numDefinitions |-> table.numDefinitions + Len(names),
     FreeSymbols    |-> table.FreeSymbols]

AddSlotsUncounted(table, scope, names) ==
    [store          |-> [x \in Names |->
                            IF Positions(names, x) = {} THEN table.store[x]
                            ELSE Symbol(x, scope,
                                        table.numDefinitions + LastPosition(names, x) - 1)],
     numDefinitions |-> table.numDefinitions,
     FreeSymbols    |-> table.FreeSymbols]

AddSlotsFromZero(table, scope, names) ==
    [store          |-> [x \in Names |->
                            IF Positions(names, x) = {} THEN table.store[x]
                            ELSE Symbol(x, scope, LastPosition(names, x) - 1)],
     numDefinitions |-> table.numDefinitions + Len(names),
     FreeSymbols    |-> table.FreeSymbols]

\* One Define after the other: each takes the next slot, a repeated name keeps the last.
AddSlots(table, scope, names) ==
    [store          |-> [x \in Names |->
                            IF Positions(names, x) = {} THEN table.store[x]
                            ELSE Symbol(x, scope,
                                        table.numDefinitions + LastPosition(names, x) - 1)],
     numDefinitions |-> table.numDefinitions + Len(names),
     FreeSymbols    |-> table.FreeSymbols]

DefineEach(tables, names) ==
    [tables EXCEPT ![Len(tables)] =
        AddSlots(@, IF Len(tables) = 1 THEN "GLOBAL" ELSE "LOCAL", names)]

Define(tables, name) == DefineEach(tables, <<name>>)

\* One DefineBuiltin per name; a builtin takes no slot.
AddBuiltins(table, names) ==
    [table EXCEPT !.store =
        [x \in Names |-> IF Positions(names, x) = {} THEN table.store[x]
                         ELSE Symbol(x, "BUILTIN", LastPosition(names, x) - 1)]]

DefineBuiltins(tables, names) == [tables EXCEPT ![Len(tables)] = AddBuiltins(@, names)]

DefineFunctionName(tables, name) ==
    [tables EXCEPT ![Len(tables)].store = Put(@, Symbol(name, "FUNCTION", 0))]

\* Faulty variants: the captured name is not stored, or with the index before.
DefineFreeUnstored(table, original) ==
    [table EXCEPT !.FreeSymbols = Append(@, original)]

DefineFreeTooLow(table, original) ==
    [table EXCEPT !.FreeSymbols = Append(@, original),
                  !.store = Put(@, Symbol(original.name, "FREE",
                                          Len(table.FreeSymbols) - 1))]

DefineFree(table, original) ==
    [table EXCEPT !.FreeSymbols = Append(@, original),
                  !.store = Put(@, Symbol(original.name, "FREE",
                                          Len(table.FreeSymbols)))]

-----------------------------------------------------------------------------
(* Resolve without its recursion.  The recursive calls stop at the deepest *)
(* table that holds the name; a global or a builtin is returned as it is,  *)
(* any other symbol is captured by every table on the way back, each       *)
(* capturing what the table outside it returned.                           *)

Holders(tables, name) == {k \in DOMAIN tables : Holds(tables[k], name)}

Resolvable(tables, name) == Holders(tables, name) # {}

\* Faulty variant: the search starts at the outermost table.
HomeOutermost(tables, name) ==
    CHOOSE k \in Holders(tables, name) : \A j \in Holders(tables, name) : k <= j

Home(tables, name) ==
    CHOOSE k \in Holders(tables, name) : \A j \in Holders(tables, name) : j <= k

HomeSymbol(tables, name) == tables[Home(tables, name)].store[name]

\* Whether resolving name adds a free symbol to table k.
Captures(tables, name, k) ==
    /\ Home(tables, name) < k
    /\ HomeSymbol(tables, name).scope \notin {"GLOBAL", "BUILTIN"}

\* What Resolve(name) returns when it is called on table k.
SymbolAt(tables, name, k) ==
    IF Captures(tables, name, k)
    THEN Symbol(HomeSymbol(tables, name).name, "FREE", Len(tables[k].FreeSymbols))
    ELSE HomeSymbol(tables, name)

Resolved(tables, name) == SymbolAt(tables, name, Len(tables))

\* Faulty variant: every table captures the declared symbol itself.
ResolveFromHome(tables, name) ==
    [k \in DOMAIN tables |->
        IF Captures(tables, name, k)
        THEN DefineFree(tables[k], HomeSymbol(tables, name))
        ELSE tables[k]]

Resolve(tables, name) ==
    [k \in DOMAIN tables |->
        IF Captures(tables, name, k)
        THEN DefineFree(tables[k], SymbolAt(tables, name, k - 1))
        ELSE tables[k]]
=============================================================================
