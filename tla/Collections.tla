---------------------------- MODULE Collections ----------------------------
(***************************************************************************)
(* What a program is promised of its arrays and dicts: an array is a       *)
(* sequence and a dict a set of pairs, one for each key, however Go keeps  *)
(* them.  A builtin changes at most the array or the dict it was given,    *)
(* and whoever holds that object sees the change.                          *)
(*                                                                         *)
(* An object is known by its number, which stands for its pointer.         *)
(***************************************************************************)
EXTENDS Object, SequencesExt

CONSTANTS Values,       \* what can be stored, references to arrays and dicts among it
          MaxLength     \* of an array literal (a bound of the model)

VARIABLES arrays,       \* sequences of what is stored
          dicts         \* sets of pairs [key, val]

vars == <<arrays, dicts>>

Keys == {k \in Values : Dictable(k)}

Init == arrays = <<>> /\ dicts = <<>>

MakesArray(elements) == arrays' = Append(arrays, elements) /\ UNCHANGED dicts
MakesDict(pairs)     == dicts' = Append(dicts, pairs) /\ UNCHANGED arrays

Changes(a, elements) == arrays' = [arrays EXCEPT ![a] = elements] \o <<>> /\ UNCHANGED dicts
ChangesDict(d, pairs) == dicts' = [dicts EXCEPT ![d] = pairs] \o <<>> /\ UNCHANGED arrays

Literal ==
    \/ \E elements \in BoundedSeq(Values, MaxLength) : MakesArray(elements)
    \/ \E keys \in SUBSET Keys : \E value \in [keys -> Values] :
          /\ \A j, k \in keys : SameKey(j, k) => j = k
          /\ MakesDict({[key |-> k, val |-> value[k]] : k \in keys})

\* Of its elements one goes or one comes, or they are put in order.
ChangeArray(a) ==
    LET before == arrays[a]
    IN  \/ \E i \in DOMAIN before : Changes(a, RemoveAt(before, i))
        \/ \E v \in Values : Changes(a, Cons(v, before)) \/ Changes(a, Append(before, v))
        \/ \E order \in SetToSeqs(DOMAIN before) :
              LET after == [i \in DOMAIN before |-> before[order[i]]]
              IN  /\ \A i, j \in DOMAIN after : i # j => after[i].type = "INTEGER"
                  /\ \/ \A i, j \in DOMAIN after : i < j => after[i].int <= after[j].int
                     \/ \A i, j \in DOMAIN after : i < j => after[i].int >= after[j].int
                  /\ Changes(a, after)

Rest(a) == arrays[a] # <<>> /\ MakesArray(Tail(arrays[a]))

With(pairs, k, v) == {p \in pairs : ~SameKey(p.key, k)} \cup {[key |-> k, val |-> v]}

ChangeDict(d) ==
    \E k \in Keys :
        \/ \E v \in Values : ChangesDict(d, With(dicts[d], k, v))
        \/ ChangesDict(d, {p \in dicts[d] : ~SameKey(p.key, k)})

\* All keys or all values, in any order.
List(d) ==
    \E order \in SetToSeqs(dicts[d]) :
        \/ MakesArray([i \in DOMAIN order |-> order[i].key])
        \/ MakesArray([i \in DOMAIN order |-> order[i].val])

Next ==
    \/ Literal
    \/ \E a \in DOMAIN arrays : ChangeArray(a) \/ Rest(a)
    \/ \E d \in DOMAIN dicts : ChangeDict(d) \/ List(d)

Spec == Init /\ [][Next]_vars
=============================================================================
