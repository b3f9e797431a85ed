------------------------------- MODULE Arrays -------------------------------
(***************************************************************************)
(* The builtins on arrays and dicts: object/builtins/array_builtins.go,    *)
(* dict_builtins.go and size_of_builtin.go, with the literals of the VM.   *)
(*                                                                         *)
(* An object.Array is a pointer to a Go slice: a backing array in memory,  *)
(* of which the first len cells are its elements and the others its room   *)
(* to grow.  append writes into that room when there is some, and else     *)
(* copies to a new backing array with more of it.  An object.Dict is a     *)
(* pointer to a Go map, which no two dicts share.                          *)
(*                                                                         *)
(* No call looks into an element, so that a reference is a value like any  *)
(* other.  An action is one call with arguments it takes.  A call that     *)
(* returns an error or only reads changes nothing; one that panics, as the *)
(* searches and organize do on elements of another type, ends the program. *)
(***************************************************************************)
EXTENDS Object, Float64, SequencesExt

CONSTANTS Values,       \* what can be stored, references to arrays and dicts among it
          Backings,     \* backing arrays
          MaxObjects,   \* arrays and dicts
          MaxLength     \* of a backing array (bounds of the model)

ASSUME ArraysAssumption == MaxLength \in Nat

VARIABLES memory,       \* the cells of each backing array in use
          slices,       \* of each array object: [backing, len]
          dicts         \* of each dict object: its pairs, one for each DictKey

vars == <<memory, slices, dicts>>

\* arr.Elements
Elements(a) == [i \in 1..slices[a].len |-> memory[slices[a].backing][i]]

Contents == [a \in DOMAIN slices |-> Elements(a)]

Init ==
    /\ memory = [b \in Backings |-> <<>>]
    /\ slices = <<>>
    /\ dicts = <<>>

-----------------------------------------------------------------------------
(* Memory.                                                                 *)

InUse(some) == {some[a].backing : a \in DOMAIN some}

\* The backing array that Go allocates next.
Fresh == CHOOSE b \in Backings : b \notin InUse(slices)

\* With elements in the fresh backing array, some of whose cells are room, and
\* slices' as it is.  A backing array that no slice points into is collected.
Fill(elements, room) ==
    /\ Backings \ InUse(slices) # {}
    /\ Len(elements) + room <= MaxLength
    /\ memory' = [b \in Backings |->
                     IF b = Fresh THEN elements \o [i \in 1..room |-> Nil]
                     ELSE IF b \in InUse(slices') THEN memory[b]
                     ELSE <<>>]

Slice(elements) == [backing |-> Fresh, len |-> Len(elements)]

\* A new array object; an array object that gets another slice.
Create(elements, room) ==
    /\ Len(slices) + Len(dicts) < MaxObjects
    /\ slices' = Append(slices, Slice(elements))
    /\ Fill(elements, room)
    /\ UNCHANGED dicts

Move(a, elements, room) ==
    /\ slices' = [slices EXCEPT ![a] = Slice(elements)]
    /\ Fill(elements, room)
    /\ UNCHANGED dicts

-----------------------------------------------------------------------------
(* Calls that change an array.                                             *)

\* Faulty variants: the array that is returned is a new object over the same
\* slice; the element is put in front within the slice.
RemoveFromArrayAnew(a, index) ==
    LET s == slices[a]
    IN  /\ index \in 0..(s.len - 1) /\ Len(slices) + Len(dicts) < MaxObjects
        /\ memory' = [memory EXCEPT ![s.backing] =
                         [k \in DOMAIN @ |-> @[IF k \in (index + 1)..(s.len - 1) THEN k + 1 ELSE k]]]
        /\ slices' = Append(slices, [s EXCEPT !.len = @ - 1])
        /\ UNCHANGED dicts

AddToArrayStartInside(a, v) ==
    /\ slices[a].len < MaxLength
    /\ \E room \in 0..MaxLength :
          Move(a, [k \in 1..(slices[a].len + 1) |-> IF k = 1 THEN v ELSE Elements(a)[1]], room)

\* What is behind index moves down, in place.
RemoveFromArray(a, index) ==
    LET s == slices[a]
    IN  /\ index \in 0..(s.len - 1)
        /\ memory' = [memory EXCEPT ![s.backing] =
                         [k \in DOMAIN @ |-> @[IF k \in (index + 1)..(s.len - 1) THEN k + 1 ELSE k]]]
        /\ slices' = [slices EXCEPT ![a].len = @ - 1]
        /\ UNCHANGED dicts

AddToArrayStart(a, v) ==
    /\ slices[a].len < MaxLength
    /\ \E room \in 0..MaxLength : Move(a, <<v>> \o Elements(a), room)

AddToArrayEnd(a, v) ==
    LET s == slices[a]
    IN  /\ s.len < MaxLength
        /\ \/ /\ s.len < Len(memory[s.backing])
              /\ memory' = [memory EXCEPT ![s.backing][s.len + 1] = v]
              /\ slices' = [slices EXCEPT ![a].len = @ + 1]
              /\ UNCHANGED dicts
           \/ /\ s.len = Len(memory[s.backing])
              /\ \E room \in 0..MaxLength : Move(a, Append(Elements(a), v), room)

Numbers(elements) == \A i \in DOMAIN elements : elements[i].type = "INTEGER"

\* sort.Slice: in place, and among equal integers in any order.
Organize(a, by) ==
    LET s == slices[a]
    IN  /\ Numbers(Elements(a))
        /\ \E order \in SetToSeqs(1..s.len) :
              LET sorted == [k \in 1..s.len |-> Elements(a)[order[k]]]
              IN  /\ \A j, k \in 1..s.len :
                        j < k => IF by = "asc" THEN sorted[j].int <= sorted[k].int
                                               ELSE sorted[j].int >= sorted[k].int
                  /\ memory' = [memory EXCEPT ![s.backing] =
                                   [k \in DOMAIN @ |-> IF k <= s.len THEN sorted[k] ELSE @[k]]]
        /\ UNCHANGED <<slices, dicts>>

-----------------------------------------------------------------------------
(* Calls that make an array.                                               *)

BuildArray(elements) == Create(elements, 0)

AllButFirst(a) == slices[a].len > 0 /\ Create(Tail(Elements(a)), 0)

\* The order of a Go map is another one every time.
DictKeys(d) ==
    \E order \in SetToSeqs(dicts[d]), room \in 0..MaxLength :
        /\ order = <<>> => room = 0
        /\ Create([i \in DOMAIN order |-> order[i].key], room)

DictValues(d) ==
    \E order \in SetToSeqs(dicts[d]), room \in 0..MaxLength :
        /\ order = <<>> => room = 0
        /\ Create([i \in DOMAIN order |-> order[i].val], room)

-----------------------------------------------------------------------------
(* Calls on dicts.                                                         *)

BuildDict(keys, values) ==
    /\ Len(slices) + Len(dicts) < MaxObjects
    /\ dicts' = Append(dicts, PairsOf(keys, values))
    /\ UNCHANGED <<memory, slices>>

\* Faulty variant: the map is keyed by the key object, not by its DictKey.
AddToDictTwice(d, k, v) ==
    /\ dicts' = [dicts EXCEPT ![d] = @ \cup {[key |-> k, val |-> v]}]
    /\ UNCHANGED <<memory, slices>>

AddToDict(d, k, v) ==
    /\ dicts' = [dicts EXCEPT ![d] = {p \in @ : ~SameKey(p.key, k)} \cup {[key |-> k, val |-> v]}]
    /\ UNCHANGED <<memory, slices>>

DeleteFromDict(d, k) ==
    /\ dicts' = [dicts EXCEPT ![d] = {p \in @ : ~SameKey(p.key, k)}]
    /\ UNCHANGED <<memory, slices>>

-----------------------------------------------------------------------------
(* Calls that read.  Integers are compared as float64.                     *)

\* The elements that are compared are int64, which some k fits.
ASSUME RoundedAssumption == \A v \in Values : v.type = "INTEGER" => Rounded(v.int) \in Int

\* Faulty variant: the least number so far is 0 at first.
LeastFromZero(elements) ==
    LET min[k \in 0..Len(elements)] ==
            IF k = 0 THEN Integer(0)
            ELSE IF Rounded(elements[k].int) <= Rounded(min[k - 1].int) THEN elements[k]
            ELSE min[k - 1]
    IN  min[Len(elements)]

\* The greatest number so far, each element compared with it.
Greatest(elements) ==
    LET max[k \in 1..Len(elements)] ==
            IF k = 1 THEN elements[1]
            ELSE IF Rounded(elements[k].int) >= Rounded(max[k - 1].int) THEN elements[k]
            ELSE max[k - 1]
    IN  max[Len(elements)]

Least(elements) ==
    LET min[k \in 1..Len(elements)] ==
            IF k = 1 THEN elements[1]
            ELSE IF Rounded(elements[k].int) <= Rounded(min[k - 1].int) THEN elements[k]
            ELSE min[k - 1]
    IN  min[Len(elements)]

\* Where the search ends: at v, or at an element of another type, 0 for nowhere.
SearchEnd(elements, v) == SelectInSeq(elements, LAMBDA e : e.type # v.type \/ e = v)

IndexOf(elements, v) == Integer(SearchEnd(elements, v) - 1)

Keys == {k \in Values : Dictable(k)}

Next ==
    \/ \E elements \in BoundedSeq(Values, MaxLength) : BuildArray(elements)
    \/ \E keys \in BoundedSeq(Keys, MaxLength) :
          \E values \in [DOMAIN keys -> Values] : BuildDict(keys, values)
    \/ \E a \in DOMAIN slices :
          \/ \E index \in 0..MaxLength : RemoveFromArray(a, index)
          \/ \E v \in Values : AddToArrayStart(a, v) \/ AddToArrayEnd(a, v)
          \/ \E by \in {"asc", "desc"} : Organize(a, by)
          \/ AllButFirst(a)
    \/ \E d \in DOMAIN dicts :
          \/ \E k \in Keys, v \in Values : AddToDict(d, k, v)
          \/ \E k \in Keys : DeleteFromDict(d, k)
          \/ DictKeys(d) \/ DictValues(d)

Spec == Init /\ [][Next]_vars

-----------------------------------------------------------------------------
(* Properties.                                                             *)

SliceType == [backing : Backings, len : Nat]

\* Every slice lies within its backing array, its elements are values and not
\* the room's nil, and a dict has one pair for a key.
TypeOK ==
    /\ memory \in [Backings -> Seq(Values \cup {Nil})]
    /\ slices \in Seq(SliceType)
    /\ \A a \in DOMAIN slices :
          /\ slices[a].len <= Len(memory[slices[a].backing])
          /\ \A i \in 1..slices[a].len : memory[slices[a].backing][i] \in Values
    /\ dicts \in Seq(SUBSET [key : Keys, val : Values])
    /\ \A d \in DOMAIN dicts : IsFiniteSet(dicts[d]) /\ \A p, q \in dicts[d] : SameKey(p.key, q.key) => p = q

\* No two array objects have the same backing array: append writes into the
\* room behind a slice, and removeFromArray and organize write into the slice,
\* without a look at who else has it.
OwnBacking ==
    \A a, b \in DOMAIN slices : slices[a].backing = slices[b].backing => a = b

\* What a program sees of the memory is the collections it is promised: a call
\* changes the object it was given and no other one, as the call says.
Promised == INSTANCE Collections WITH arrays <- Contents
ImplementsCollections == Promised!Spec

\* The answers of the searches are what their names say as far as float64 can
\* tell numbers apart: no element is greater than max's by more than its
\* rounding, and max and min are exact when no element is rounded; indexOf's place
\* is the first, unless an element of another type comes before it.
ReadsRight ==
    \A a \in DOMAIN slices :
        LET elements == Elements(a)
            Numeric  == elements # <<>> /\ Numbers(elements)
            Small    == \A i \in DOMAIN elements : Rounded(elements[i].int) = elements[i].int
        IN  /\ Numeric =>
                  \A i \in DOMAIN elements :
                      /\ Rounded(elements[i].int) <= Rounded(Greatest(elements).int)
                      /\ Rounded(elements[i].int) >= Rounded(Least(elements).int)
                      /\ Small => /\ elements[i].int <= Greatest(elements).int
                                  /\ elements[i].int >= Least(elements).int
            /\ Numeric => {Greatest(elements), Least(elements)} \subseteq ToSet(elements)
            /\ \A v \in Values \cup {String("s")} :
                  LET end == SearchEnd(elements, v)
                  IN  /\ end = 0 => ~Contains(elements, v)
                      /\ end > 0 => \A i \in 1..(end - 1) : elements[i] # v
=============================================================================
