------------------------------- MODULE Object -------------------------------
(***************************************************************************)
(* The runtime values of object/object.go, the Go nil included.  A value   *)
(* is a record whose type field is its ObjectType; what the other field is *)
(* called depends on the type, so that values of two types can always be   *)
(* told apart.                                                             *)
(*                                                                         *)
(* Two abstractions.  A float is its type alone: whatever depends on the   *)
(* number is left open.  A Boolean or Null says whether it is an object    *)
(* an engine makes itself, because the engines compare these by pointer.    *)
(***************************************************************************)
EXTENDS Integers, Sequences

Integer(n) == [type |-> "INTEGER", int |-> n]
Float      == [type |-> "FLOAT"]
String(s)  == [type |-> "STRING", str |-> s]

\* An engine's own True, False and Null, and such objects that a builtin allocates.
Null      == [type |-> "NULL", native |-> TRUE]
OtherNull == [type |-> "NULL", native |-> FALSE]
NativeBoolean(b) == [type |-> "BOOLEAN", bool |-> b, native |-> TRUE]
OtherBoolean(b)  == [type |-> "BOOLEAN", bool |-> b, native |-> FALSE]

\* What a builtin returns when it fails: a value like any other.
Error == [type |-> "ERROR"]

Array(elements)  == [type |-> "ARRAY", elements |-> elements]
Builtin(index)   == [type |-> "BUILTIN", builtin |-> index]
Date(attributes) == [type |-> "DATE", attributes |-> attributes]
Closure(fn, free) == [type |-> "CLOSURE_OBJ", fn |-> fn, free |-> free]

CompiledFunction(instructions, numLocals, numParameters) ==
    [type          |-> "COMPILED_FUNCTION_OBJ",
     instructions  |-> instructions,
     numLocals     |-> numLocals,
     numParameters |-> numParameters]

\* What a slot of a fresh []object.Object holds.
Nil == [type |-> "nil"]

-----------------------------------------------------------------------------
(* Dictionaries.  A Dict is the set of its pairs, one per DictKey.         *)

Dict(pairs) == [type |-> "DICT", pairs |-> pairs]

Dictable(object) == object.type \in {"INTEGER", "BOOLEAN", "STRING"}

\* Whether two Dictable objects have the same DictKey (no FNV collisions).
SameKey(a, b) ==
    /\ a.type = b.type
    /\ CASE a.type = "INTEGER" -> a.int = b.int
         [] a.type = "STRING"  -> a.str = b.str
         [] a.type = "BOOLEAN" -> a.bool = b.bool

\* Equal keys share one entry of the Go map: the last pair stored stays.
PairsOf(keys, values) ==
    {[key |-> keys[i], val |-> values[i]] :
        i \in {i \in DOMAIN keys : \A j \in DOMAIN keys : j > i => ~SameKey(keys[i], keys[j])}}

-----------------------------------------------------------------------------
(* The values inside a value.                                              *)

Parts(v) ==
    CASE v.type = "ARRAY" -> {v.elements[i] : i \in DOMAIN v.elements}
      [] v.type = "DICT"  -> {p.val : p \in v.pairs}
      [] v.type = "DATE"  -> {v.attributes[a] : a \in DOMAIN v.attributes}
      [] OTHER            -> {}

\* What a builtin can return of its arguments: one of them, as addToArrayEnd does, or
\* something inside of one, as first and last do.
HandedBack(args) == UNION {{args[i]} \cup Parts(args[i]) : i \in DOMAIN args}

-----------------------------------------------------------------------------
(* Pointers.                                                               *)

\* Objects the engine or the table of builtins holds once.
Unique(v) == v.type = "BUILTIN" \/ (v.type \in {"BOOLEAN", "NULL"} /\ v.native)

\* What right == left may be, a comparison of pointers.  Objects of different
\* contents are different ones, except that Go may give two Nulls one address.
Identical(left, right) ==
    CASE left.type = "NULL" /\ right.type = "NULL" /\ left # right -> BOOLEAN
      [] left # right -> {FALSE}
      [] Unique(left) -> {TRUE}
      [] OTHER        -> BOOLEAN
=============================================================================
