--------------------------- MODULE BuiltinsProofs ---------------------------
(***************************************************************************)
(* What holds of the builtins.  Arrays never share their cells, for any    *)
(* values, any memory and any number of arrays, a call changes at most one *)
(* of them, and the searches find what they look for.  Every program that  *)
(* uses a database and serves requests finds both as it left them, with    *)
(* any routes, folders, requests, databases and tables.  The two have no   *)
(* state in common.                                                        *)
(***************************************************************************)
EXTENDS Arrays, Services, FiniteSetTheorems, SequenceTheorems, WellFoundedInduction, TLAPS

\* A set of numbers has a least one.
LEMMA HasLeast ==
    ASSUME NEW places \in SUBSET Nat, places # {}
    PROVE  \E i \in places : \A j \in places : i <= j
  <1> DEFINE less == {pair \in Nat \X Nat : pair[1] < pair[2]}
  <1>1. OpToRel(<, Nat) = less
    BY DEF OpToRel
  <1>2. IsWellFoundedOn(less, Nat)
    BY <1>1, NatLessThanWellFounded
  <1>3. \A i, j \in Nat : <<j, i>> \in less <=> j < i
    OBVIOUS
  <1> HIDE DEF less
  <1>4. PICK i \in places : \A j \in places : <<j, i>> \notin less
    BY <1>2, WFMin
  <1>5. ASSUME NEW j \in places PROVE i <= j
    <2>1. i \in Nat /\ j \in Nat
      OBVIOUS
    <2>2. ~(j < i)
      BY <1>3, <1>4, <2>1
    <2> QED BY <2>1, <2>2
  <1> QED BY <1>5

Inv == TypeOK /\ OwnBacking

\* The fresh backing array is in no array's hands.
LEMMA FreshIsFree ==
    ASSUME Backings \ InUse(slices) # {}
    PROVE  Fresh \in Backings /\ Fresh \notin InUse(slices)
  BY DEF Fresh

\* What Fill puts into memory: the elements first.
LEMMA FilledWell ==
    ASSUME NEW elements \in Seq(Values), NEW room \in Nat
    PROVE  /\ elements \o [i \in 1..room |-> Nil] \in Seq(Values \cup {Nil})
           /\ Len(elements) <= Len(elements \o [i \in 1..room |-> Nil])
           /\ \A i \in 1..Len(elements) :
                 (elements \o [j \in 1..room |-> Nil])[i] = elements[i]
  <1> DEFINE tail == [i \in 1..room |-> Nil]
  <1>1. tail \in Seq(Values \cup {Nil}) /\ Len(tail) = room
    OBVIOUS
  <1>2. elements \in Seq(Values \cup {Nil})
    OBVIOUS
  <1> HIDE DEF tail
  <1>3. /\ elements \o tail \in Seq(Values \cup {Nil})
        /\ Len(elements \o tail) = Len(elements) + room
        /\ \A i \in 1..Len(elements) : (elements \o tail)[i] = elements[i]
    BY <1>1, <1>2
  <1> QED BY <1>3, <1>1 DEF tail

LEMMA ElementsTyped ==
    ASSUME TypeOK, NEW a \in DOMAIN slices
    PROVE  Elements(a) \in Seq(Values) /\ Len(Elements(a)) = slices[a].len /\ slices[a].len \in Nat
             /\ slices[a].backing \in Backings
  <1>1. slices[a] \in SliceType
    BY DEF TypeOK
  <1>2. \A i \in 1..slices[a].len : memory[slices[a].backing][i] \in Values
    BY DEF TypeOK
  <1> QED BY <1>1, <1>2 DEF Elements, SliceType

\* A new array has the elements it was made of, and all others have theirs.
LEMMA Created ==
    ASSUME Inv, NEW elements \in Seq(Values), NEW room \in Nat, Create(elements, room),
           NEW new, new = Len(slices) + 1
    PROVE  /\ Inv'
           /\ slices' = Append(slices, Slice(elements))
           /\ Elements(new)' = elements
           /\ \A o \in DOMAIN slices : Elements(o)' = Elements(o)
  <1> DEFINE cells == elements \o [i \in 1..room |-> Nil]
  <1>1. Fresh \in Backings /\ Fresh \notin InUse(slices)
    BY FreshIsFree DEF Create, Fill
  <1>2. /\ cells \in Seq(Values \cup {Nil})
        /\ Len(elements) <= Len(cells)
        /\ \A i \in 1..Len(elements) : cells[i] = elements[i]
    BY FilledWell
  <1>3. Slice(elements) = [backing |-> Fresh, len |-> Len(elements)] /\ Slice(elements) \in SliceType
    BY <1>1 DEF Slice, SliceType
  <1>4. /\ slices' = Append(slices, Slice(elements)) /\ slices \in Seq(SliceType)
        /\ slices' \in Seq(SliceType) /\ new \in Nat
        /\ DOMAIN slices' = DOMAIN slices \cup {new} /\ new \notin DOMAIN slices
        /\ slices'[new] = Slice(elements)
        /\ \A o \in DOMAIN slices : slices'[o] = slices[o]
    BY <1>3 DEF Create, Inv, TypeOK
  <1>5. Fresh \in InUse(slices') /\ \A o \in DOMAIN slices : slices[o].backing \in InUse(slices')
    BY <1>3, <1>4 DEF InUse
  <1>6. memory' = [b \in Backings |-> IF b = Fresh THEN cells
                                      ELSE IF b \in InUse(slices') THEN memory[b] ELSE <<>>]
    BY DEF Create, Fill
  <1>7. \A o \in DOMAIN slices : /\ slices[o].backing \in Backings
                                 /\ slices[o].backing # Fresh
                                 /\ memory'[slices[o].backing] = memory[slices[o].backing]
    BY <1>1, <1>5, <1>6, ElementsTyped DEF InUse, Inv
  <1>8. memory'[Fresh] = cells
    BY <1>1, <1>6
  <1> HIDE DEF cells
  <1>9. Elements(new)' = elements
    <2>1. [i \in 1..Len(elements) |-> elements[i]] = elements
      OBVIOUS
    <2>2. slices'[new].len = Len(elements) /\ slices'[new].backing = Fresh
      BY <1>3, <1>4
    <2>3. Elements(new)' = [i \in 1..Len(elements) |-> cells[i]]
      BY <1>8, <2>2 DEF Elements
    <2> QED BY <1>2, <2>1, <2>3
  <1>10. \A o \in DOMAIN slices : Elements(o)' = Elements(o)
    BY <1>4, <1>7 DEF Elements
  <1>11. memory' \in [Backings -> Seq(Values \cup {Nil})]
    BY <1>2, <1>6 DEF Inv, TypeOK
  <1>12. \A o \in DOMAIN slices' :
            /\ slices'[o].len <= Len(memory'[slices'[o].backing])
            /\ \A i \in 1..slices'[o].len : memory'[slices'[o].backing][i] \in Values
    <2> SUFFICES ASSUME NEW o \in DOMAIN slices
                 PROVE  /\ slices'[o].len <= Len(memory'[slices'[o].backing])
                        /\ \A i \in 1..slices'[o].len : memory'[slices'[o].backing][i] \in Values
      BY <1>2, <1>3, <1>4, <1>8
    <2> QED BY <1>4, <1>7 DEF Inv, TypeOK
  <1>13. OwnBacking'
    BY <1>3, <1>4, <1>7 DEF OwnBacking, Inv
  <1>14. dicts' = dicts
    BY DEF Create
  <1>15. TypeOK'
    BY <1>4, <1>11, <1>12, <1>14 DEF TypeOK, Inv
  <1> QED BY <1>4, <1>9, <1>10, <1>13, <1>15 DEF Inv

\* An array that moves has the elements it is given, and all others have theirs.
LEMMA Moved ==
    ASSUME Inv, NEW a \in DOMAIN slices, NEW elements \in Seq(Values), NEW room \in Nat,
           Move(a, elements, room)
    PROVE  /\ Inv'
           /\ slices' = [slices EXCEPT ![a] = Slice(elements)]
           /\ Elements(a)' = elements
           /\ \A o \in DOMAIN slices : o # a => Elements(o)' = Elements(o)
  <1> DEFINE cells == elements \o [i \in 1..room |-> Nil]
  <1>1. Fresh \in Backings /\ Fresh \notin InUse(slices)
    BY FreshIsFree DEF Move, Fill
  <1>2. /\ cells \in Seq(Values \cup {Nil})
        /\ Len(elements) <= Len(cells)
        /\ \A i \in 1..Len(elements) : cells[i] = elements[i]
    BY FilledWell
  <1>3. Slice(elements) = [backing |-> Fresh, len |-> Len(elements)] /\ Slice(elements) \in SliceType
    BY <1>1 DEF Slice, SliceType
  <1>4. /\ slices' = [slices EXCEPT ![a] = Slice(elements)] /\ slices \in Seq(SliceType)
        /\ slices' \in Seq(SliceType) /\ DOMAIN slices' = DOMAIN slices
        /\ slices'[a] = Slice(elements)
        /\ \A o \in DOMAIN slices : o # a => slices'[o] = slices[o]
    BY <1>3 DEF Move, Inv, TypeOK
  <1>5. \A o \in DOMAIN slices : o # a => slices[o].backing \in InUse(slices')
    BY <1>4 DEF InUse
  <1>6. memory' = [b \in Backings |-> IF b = Fresh THEN cells
                                      ELSE IF b \in InUse(slices') THEN memory[b] ELSE <<>>]
    BY DEF Move, Fill
  <1>7. \A o \in DOMAIN slices : /\ slices[o].backing \in Backings
                                 /\ slices[o].backing # Fresh
                                 /\ o # a => memory'[slices[o].backing] = memory[slices[o].backing]
    BY <1>1, <1>5, <1>6, ElementsTyped DEF InUse, Inv
  <1>8. memory'[Fresh] = cells
    BY <1>1, <1>6
  <1> HIDE DEF cells
  <1>9. Elements(a)' = elements
    <2>1. [i \in 1..Len(elements) |-> elements[i]] = elements
      OBVIOUS
    <2>2. slices'[a].len = Len(elements) /\ slices'[a].backing = Fresh
      BY <1>3, <1>4
    <2>3. Elements(a)' = [i \in 1..Len(elements) |-> cells[i]]
      BY <1>8, <2>2 DEF Elements
    <2> QED BY <1>2, <2>1, <2>3
  <1>10. \A o \in DOMAIN slices : o # a => Elements(o)' = Elements(o)
    BY <1>4, <1>7 DEF Elements
  <1>11. memory' \in [Backings -> Seq(Values \cup {Nil})]
    BY <1>2, <1>6 DEF Inv, TypeOK
  <1>12. \A o \in DOMAIN slices' :
            /\ slices'[o].len <= Len(memory'[slices'[o].backing])
            /\ \A i \in 1..slices'[o].len : memory'[slices'[o].backing][i] \in Values
    <2> SUFFICES ASSUME NEW o \in DOMAIN slices, o # a
                 PROVE  /\ slices'[o].len <= Len(memory'[slices'[o].backing])
                        /\ \A i \in 1..slices'[o].len : memory'[slices'[o].backing][i] \in Values
      BY <1>2, <1>3, <1>4, <1>8
    <2> QED BY <1>4, <1>7 DEF Inv, TypeOK
  <1>13. OwnBacking'
    BY <1>3, <1>4, <1>7 DEF OwnBacking, Inv
  <1>14. dicts' = dicts
    BY DEF Move
  <1>15. TypeOK'
    BY <1>4, <1>11, <1>12, <1>14 DEF TypeOK, Inv
  <1> QED BY <1>4, <1>9, <1>10, <1>13, <1>15 DEF Inv

\* Writing into the cells of one array, and changing how many of them are its
\* elements, is seen by nobody else.
LEMMA WrittenInPlace ==
    ASSUME Inv, NEW a \in DOMAIN slices, NEW cells \in Seq(Values \cup {Nil}), NEW len \in Nat,
           Len(cells) = Len(memory[slices[a].backing]), len <= Len(cells),
           \A i \in 1..len : cells[i] \in Values,
           memory' = [memory EXCEPT ![slices[a].backing] = cells],
           slices' = [slices EXCEPT ![a].len = len],
           UNCHANGED dicts
    PROVE  /\ Inv'
           /\ Elements(a)' = [i \in 1..len |-> cells[i]]
           /\ \A o \in DOMAIN slices : o # a => Elements(o)' = Elements(o)
  <1>1. /\ slices \in Seq(SliceType) /\ slices[a] \in SliceType /\ slices[a].backing \in Backings
        /\ memory \in [Backings -> Seq(Values \cup {Nil})]
    BY ElementsTyped DEF Inv, TypeOK
  <1>2. /\ slices' \in Seq(SliceType) /\ DOMAIN slices' = DOMAIN slices
        /\ slices'[a].len = len /\ slices'[a].backing = slices[a].backing
        /\ \A o \in DOMAIN slices : slices'[o].backing = slices[o].backing
        /\ \A o \in DOMAIN slices : o # a => slices'[o] = slices[o]
    <2> DEFINE slice == [slices[a] EXCEPT !.len = len]
    <2>1. /\ slice \in SliceType /\ slice.len = len
          /\ slice.backing = slices[a].backing
      BY <1>1 DEF SliceType
    <2>2. slices' = [slices EXCEPT ![a] = slice]
      OBVIOUS
    <2> HIDE DEF slice
    <2>3. slices' \in Seq(SliceType) /\ DOMAIN slices' = DOMAIN slices
      <3>1. \A s \in SliceType : /\ [slices EXCEPT ![a] = s] \in Seq(SliceType)
                                  /\ DOMAIN [slices EXCEPT ![a] = s] = DOMAIN slices
        BY <1>1
      <3> QED BY <2>1, <2>2, <3>1
    <2>4. slices'[a] = slice /\ \A o \in DOMAIN slices : o # a => slices'[o] = slices[o]
      BY <1>1, <2>2
    <2>5. \A o \in DOMAIN slices : slices'[o].backing = slices[o].backing
      BY <2>1, <2>4
    <2> QED BY <2>1, <2>3, <2>4, <2>5
  <1>3. /\ memory' \in [Backings -> Seq(Values \cup {Nil})]
        /\ memory'[slices[a].backing] = cells
    BY <1>1
  <1>4. \A o \in DOMAIN slices : o # a => memory'[slices[o].backing] = memory[slices[o].backing]
    BY <1>1, ElementsTyped DEF Inv, OwnBacking
  <1>5. Elements(a)' = [i \in 1..len |-> cells[i]]
    BY <1>2, <1>3, SMTT(30) DEF Elements
  <1>6. \A o \in DOMAIN slices : o # a => Elements(o)' = Elements(o)
    BY <1>2, <1>4 DEF Elements
  <1>7. \A o \in DOMAIN slices' :
            /\ slices'[o].len <= Len(memory'[slices'[o].backing])
            /\ \A i \in 1..slices'[o].len : memory'[slices'[o].backing][i] \in Values
    <2> SUFFICES ASSUME NEW o \in DOMAIN slices, o # a
                 PROVE  /\ slices'[o].len <= Len(memory'[slices'[o].backing])
                        /\ \A i \in 1..slices'[o].len : memory'[slices'[o].backing][i] \in Values
      BY <1>2, <1>3
    <2> QED BY <1>2, <1>4 DEF Inv, TypeOK
  <1>8. OwnBacking'
    BY <1>2 DEF Inv, OwnBacking
  <1>9. TypeOK'
    BY <1>2, <1>3, <1>7 DEF TypeOK, Inv
  <1> QED BY <1>5, <1>6, <1>8, <1>9 DEF Inv

-----------------------------------------------------------------------------
(* What a program sees.                                                    *)

LEMMA ContentsTyped ==
    ASSUME Inv
    PROVE  /\ Contents \in Seq(Seq(Values)) /\ DOMAIN Contents = DOMAIN slices
           /\ Len(Contents) = Len(slices)
           /\ \A o \in DOMAIN slices : Contents[o] = Elements(o)
  <1>1. slices \in Seq(SliceType)
    BY DEF Inv, TypeOK
  <1>2. \A o \in DOMAIN slices : Elements(o) \in Seq(Values)
    BY ElementsTyped DEF Inv
  <1>3. DOMAIN slices = 1..Len(slices) /\ Len(slices) \in Nat
    BY <1>1
  <1>4. Contents \in [1..Len(slices) -> Seq(Values)]
    BY <1>2, <1>3 DEF Contents
  <1> QED BY <1>3, <1>4 DEF Contents

LEMMA SeenAppended ==
    ASSUME Inv, Inv', NEW new, new = Len(slices) + 1, NEW slice, slices' = Append(slices, slice),
           NEW elements \in Seq(Values), Elements(new)' = elements,
           \A o \in DOMAIN slices : Elements(o)' = Elements(o), UNCHANGED dicts
    PROVE  Promised!MakesArray(elements)
  <1>1. slices \in Seq(SliceType)
    BY DEF Inv, TypeOK
  <1>2. /\ DOMAIN slices = 1..Len(slices) /\ Len(slices) \in Nat
        /\ DOMAIN slices' = 1..new
    BY <1>1
  <1>3. Contents' = [o \in 1..new |-> Elements(o)']
    BY <1>2 DEF Contents
  <1>4. /\ Contents \in Seq(Seq(Values)) /\ Len(Contents) = Len(slices)
        /\ \A o \in 1..Len(slices) : Contents[o] = Elements(o)
    BY <1>2, ContentsTyped
  <1>5. \A c \in Seq(Seq(Values)) : Append(c, elements) =
              [o \in 1..(Len(c) + 1) |-> IF o = Len(c) + 1 THEN elements ELSE c[o]]
    <2> TAKE c \in Seq(Seq(Values))
    <2>1. /\ Append(c, elements) \in Seq(Seq(Values)) /\ Len(Append(c, elements)) = Len(c) + 1
          /\ \A o \in 1..(Len(c) + 1) :
                Append(c, elements)[o] = IF o = Len(c) + 1 THEN elements ELSE c[o]
      BY AppendProperties
    <2>2. \A s \in Seq(Seq(Values)) : s = [o \in 1..Len(s) |-> s[o]]
      OBVIOUS
    <2> QED BY <2>1, <2>2
  <1>6. Append(Contents, elements) = [o \in 1..new |-> IF o = new THEN elements ELSE Contents[o]]
    BY <1>4, <1>5
  <1>7. \A o \in 1..new : Elements(o)' = IF o = new THEN elements ELSE Contents[o]
    <2> TAKE o \in 1..new
    <2>1. CASE o = new
      BY <2>1 DEF Elements
    <2>2. CASE o # new
      <3>1. o \in 1..Len(slices) /\ o \in DOMAIN slices
        BY <1>2, <2>2
      <3> QED BY <1>4, <2>2, <3>1
    <2> QED BY <2>1, <2>2
  <1>8. Contents' = Append(Contents, elements)
    BY <1>3, <1>6, <1>7
  <1> QED BY <1>8 DEF Promised!MakesArray

LEMMA SeenChanged ==
    ASSUME Inv, Inv', NEW a \in DOMAIN slices, DOMAIN slices' = DOMAIN slices,
           NEW elements \in Seq(Values), Elements(a)' = elements,
           \A o \in DOMAIN slices : o # a => Elements(o)' = Elements(o), UNCHANGED dicts
    PROVE  Promised!Changes(a, elements)
  <1>1. /\ Contents \in Seq(Seq(Values)) /\ DOMAIN Contents = DOMAIN slices
        /\ \A o \in DOMAIN slices : Contents[o] = Elements(o)
    BY ContentsTyped
  <1>2. Contents' = [o \in DOMAIN slices |-> Elements(o)']
    BY DEF Contents
  <1>3. Contents' = [Contents EXCEPT ![a] = elements]
    BY <1>1, <1>2
  <1>4. \A c \in Seq(Seq(Values)) : c \o <<>> = c
    OBVIOUS
  <1>5. \A e \in Seq(Values) : [Contents EXCEPT ![a] = e] \in Seq(Seq(Values))
    BY <1>1
  <1>6. [Contents EXCEPT ![a] = elements] \o <<>> = [Contents EXCEPT ![a] = elements]
    BY <1>4, <1>5
  <1> QED BY <1>3, <1>6 DEF Promised!Changes

-----------------------------------------------------------------------------
(* The calls.                                                              *)

\* Taking out an element is taking the elements behind it one place down.
LEMMA RemoveAtShifts ==
    ASSUME NEW before \in Seq(Values), NEW i \in 1..Len(before)
    PROVE  RemoveAt(before, i) =
             [k \in 1..(Len(before) - 1) |-> before[IF k < i THEN k ELSE k + 1]]
  <1> DEFINE low  == SubSeq(before, 1, i - 1)
             high == SubSeq(before, i + 1, Len(before))
  <1>1. /\ low \in Seq(Values) /\ Len(low) = i - 1
        /\ \A k \in 1..(i - 1) : low[k] = before[k]
    OBVIOUS
  <1>2. /\ high \in Seq(Values) /\ Len(high) = Len(before) - i
        /\ \A k \in 1..(Len(before) - i) : high[k] = before[k + i]
    OBVIOUS
  <1> HIDE DEF low, high
  <1>3. /\ low \o high \in Seq(Values) /\ Len(low \o high) = Len(before) - 1
        /\ \A k \in 1..(Len(before) - 1) :
              (low \o high)[k] = IF k < i THEN low[k] ELSE high[k - i + 1]
    <2>1. /\ low \o high \in Seq(Values) /\ Len(low \o high) = Len(low) + Len(high)
          /\ \A k \in 1..(Len(low) + Len(high)) :
                (low \o high)[k] = IF k <= Len(low) THEN low[k] ELSE high[k - Len(low)]
      BY <1>1, <1>2, ConcatProperties
    <2> QED BY <1>1, <1>2, <2>1
  <1>4. \A k \in 1..(Len(before) - 1) : (low \o high)[k] = before[IF k < i THEN k ELSE k + 1]
    BY <1>1, <1>2, <1>3
  <1>5. low \o high = [k \in 1..(Len(before) - 1) |-> (low \o high)[k]]
    <2>1. \A s \in Seq(Values) : s = [k \in 1..Len(s) |-> s[k]]
      OBVIOUS
    <2> QED BY <1>3, <2>1
  <1> QED BY <1>4, <1>5 DEF RemoveAt, low, high

LEMMA RemoveFromArrayKeeps ==
    ASSUME Inv, NEW a \in DOMAIN slices, NEW index \in Nat, RemoveFromArray(a, index)
    PROVE  Inv' /\ Promised!ChangeArray(a)
  <1> DEFINE mem   == memory[slices[a].backing]
             len   == slices[a].len
             cells == [k \in DOMAIN mem |->
                          mem[IF k \in (index + 1)..(len - 1) THEN k + 1 ELSE k]]
             kept  == [k \in 1..(len - 1) |-> cells[k]]
             before == Elements(a)
  <1>1. /\ mem \in Seq(Values \cup {Nil}) /\ len \in Nat /\ len <= Len(mem)
        /\ \A i \in 1..len : mem[i] \in Values
        /\ index \in 0..(len - 1)
    BY ElementsTyped DEF Inv, TypeOK, RemoveFromArray
  <1>2. before \in Seq(Values) /\ Len(before) = len /\ before = [i \in 1..len |-> mem[i]]
    BY ElementsTyped DEF Inv, Elements
  <1>3. /\ memory' = [memory EXCEPT ![slices[a].backing] = cells]
        /\ slices' = [slices EXCEPT ![a].len = len - 1]
        /\ UNCHANGED dicts
    BY DEF RemoveFromArray
  <1>4. Contents[a] = before
    BY ContentsTyped
  <1> HIDE DEF mem, len, before
  <1>5. /\ cells \in Seq(Values \cup {Nil}) /\ Len(cells) = Len(mem)
        /\ len - 1 \in Nat /\ len - 1 <= Len(cells)
        /\ \A i \in 1..(len - 1) : cells[i] \in Values
    BY <1>1, SMTT(30)
  <1>6. \A k \in 1..(len - 1) : cells[k] = before[IF k < index + 1 THEN k ELSE k + 1]
    BY <1>1, <1>2
  <1> HIDE DEF cells
  <1>7. kept \in Seq(Values)
    BY <1>5
  <1>8. RemoveAt(before, index + 1) = kept
    <2>1. index + 1 \in 1..Len(before)
      BY <1>1, <1>2
    <2>2. RemoveAt(before, index + 1) =
             [k \in 1..(Len(before) - 1) |-> before[IF k < index + 1 THEN k ELSE k + 1]]
      BY <1>2, <2>1, RemoveAtShifts
    <2> QED BY <1>2, <1>6, <2>2
  <1>9. /\ Inv'
        /\ Elements(a)' = kept
        /\ \A o \in DOMAIN slices : o # a => Elements(o)' = Elements(o)
    BY <1>3, <1>5, WrittenInPlace DEF mem
  <1> HIDE DEF kept
  <1>10. DOMAIN slices' = DOMAIN slices
    BY <1>3
  <1>11. Promised!Changes(a, kept)
    BY <1>3, <1>7, <1>9, <1>10, SeenChanged
  <1>12. index + 1 \in DOMAIN before
    BY <1>1, <1>2
  <1>13. Promised!RemoveAt(before, index + 1) = kept
    BY <1>8 DEF RemoveAt, Promised!RemoveAt
  <1>14. \E i \in DOMAIN Contents[a] : Promised!Changes(a, Promised!RemoveAt(Contents[a], i))
    BY <1>4, <1>11, <1>12, <1>13
  <1>15. Promised!ChangeArray(a)
    BY <1>14 DEF Promised!ChangeArray
  <1> QED BY <1>9, <1>15

\* An array that moves, with what a program sees of it.
LEMMA MoveKeeps ==
    ASSUME Inv, NEW a \in DOMAIN slices, NEW elements \in Seq(Values), NEW room \in Nat,
           Move(a, elements, room)
    PROVE  Inv' /\ Promised!Changes(a, elements)
  <1>1. /\ Inv'
        /\ slices' = [slices EXCEPT ![a] = Slice(elements)]
        /\ Elements(a)' = elements
        /\ \A o \in DOMAIN slices : o # a => Elements(o)' = Elements(o)
    BY Moved
  <1>2. DOMAIN slices' = DOMAIN slices
    BY <1>1
  <1>3. UNCHANGED dicts
    BY DEF Move
  <1> QED BY <1>1, <1>2, <1>3, SeenChanged

LEMMA AddToArrayStartKeeps ==
    ASSUME Inv, NEW a \in DOMAIN slices, NEW v \in Values, AddToArrayStart(a, v)
    PROVE  Inv' /\ Promised!ChangeArray(a)
  <1>1. Elements(a) \in Seq(Values) /\ Contents[a] = Elements(a)
    BY ElementsTyped, ContentsTyped DEF Inv
  <1>2. <<v>> \o Elements(a) \in Seq(Values)
    BY <1>1
  <1>3. PICK room \in 0..MaxLength : Move(a, <<v>> \o Elements(a), room)
    BY DEF AddToArrayStart
  <1>4. room \in Nat
    BY ArraysAssumption
  <1>5. Inv' /\ Promised!Changes(a, <<v>> \o Elements(a))
    BY <1>2, <1>3, <1>4, MoveKeeps
  <1>6. Promised!Changes(a, Promised!Cons(v, Contents[a]))
    BY <1>1, <1>5 DEF Promised!Cons
  <1>7. Promised!ChangeArray(a)
    BY <1>6 DEF Promised!ChangeArray
  <1> QED BY <1>5, <1>7

LEMMA AddToArrayEndKeeps ==
    ASSUME Inv, NEW a \in DOMAIN slices, NEW v \in Values, AddToArrayEnd(a, v)
    PROVE  Inv' /\ Promised!ChangeArray(a)
  <1> DEFINE mem    == memory[slices[a].backing]
             len    == slices[a].len
             before == Elements(a)
             cells  == [mem EXCEPT ![len + 1] = v]
  <1>1. /\ mem \in Seq(Values \cup {Nil}) /\ len \in Nat /\ len <= Len(mem)
        /\ \A i \in 1..len : mem[i] \in Values
    BY ElementsTyped DEF Inv, TypeOK
  <1>2. before \in Seq(Values) /\ Len(before) = len /\ before = [i \in 1..len |-> mem[i]]
    BY ElementsTyped DEF Inv, Elements
  <1>3. Contents[a] = before
    BY ContentsTyped
  <1>4. \/ /\ len < Len(mem)
           /\ memory' = [memory EXCEPT ![slices[a].backing] = cells]
           /\ slices' = [slices EXCEPT ![a].len = len + 1]
           /\ UNCHANGED dicts
        \/ \E room \in 0..MaxLength : Move(a, Append(before, v), room)
    BY DEF AddToArrayEnd
  <1> HIDE DEF before
  <1>5. Append(before, v) \in Seq(Values)
    BY <1>2
  <1>6. Inv' /\ Promised!Changes(a, Append(before, v))
    <2>1. CASE /\ len < Len(mem)
               /\ memory' = [memory EXCEPT ![slices[a].backing] = cells]
               /\ slices' = [slices EXCEPT ![a].len = len + 1]
               /\ UNCHANGED dicts
      <3> HIDE DEF mem, len
      <3>1. /\ cells \in Seq(Values \cup {Nil}) /\ Len(cells) = Len(mem)
            /\ len + 1 \in Nat /\ len + 1 <= Len(cells)
            /\ \A i \in 1..(len + 1) : cells[i] \in Values
            /\ \A i \in 1..(len + 1) : cells[i] = IF i = len + 1 THEN v ELSE mem[i]
        BY <1>1, <2>1
      <3> HIDE DEF cells
      <3>2. /\ Inv'
            /\ Elements(a)' = [i \in 1..(len + 1) |-> cells[i]]
            /\ \A o \in DOMAIN slices : o # a => Elements(o)' = Elements(o)
        BY <2>1, <3>1, WrittenInPlace DEF mem
      <3>3. Append(before, v) = [i \in 1..(len + 1) |-> cells[i]]
        <4>1. /\ Len(Append(before, v)) = len + 1
              /\ \A i \in 1..(len + 1) :
                    Append(before, v)[i] = IF i = len + 1 THEN v ELSE before[i]
          <5> HIDE DEF len
          <5>1. before \in Seq(Values) /\ Len(before) = len
            BY <1>2
          <5> QED BY <5>1
        <4>2. \A i \in 1..(len + 1) : Append(before, v)[i] = cells[i]
          BY <1>1, <1>2, <3>1, <4>1
        <4>3. \A s \in Seq(Values) : s = [i \in 1..Len(s) |-> s[i]]
          OBVIOUS
        <4> QED BY <1>5, <4>1, <4>2, <4>3
      <3>4. DOMAIN slices' = DOMAIN slices
        BY <2>1
      <3> QED BY <1>5, <2>1, <3>2, <3>3, <3>4, SeenChanged
    <2>2. CASE \E room \in 0..MaxLength : Move(a, Append(before, v), room)
      <3>1. PICK room \in 0..MaxLength : Move(a, Append(before, v), room)
        BY <2>2
      <3>2. room \in Nat
        BY ArraysAssumption
      <3> QED BY <1>5, <3>1, <3>2, MoveKeeps
    <2> QED BY <1>4, <2>1, <2>2
  <1>7. Promised!Changes(a, Append(Contents[a], v))
    BY <1>3, <1>6
  <1>8. Promised!ChangeArray(a)
    BY <1>7 DEF Promised!ChangeArray
  <1> QED BY <1>6, <1>8

\* Both modules count alike, and arrange a set in the same ways.
LEMMA SameArrangements ==
    ASSUME NEW S
    PROVE  SetToSeqs(S) = Promised!SetToSeqs(S)
  <1>1. Cardinality(S) = Promised!Cardinality(S)
    BY DEF Cardinality, Promised!Cardinality
  <1> QED BY <1>1 DEF SetToSeqs, Promised!SetToSeqs

LEMMA Places ==
    ASSUME NEW n \in Nat, NEW order \in SetToSeqs(1..n)
    PROVE  order \in [1..n -> 1..n]
  <1>1. Cardinality(1..n) = n
    BY FS_Interval
  <1> QED BY <1>1 DEF SetToSeqs

LEMMA OrganizeKeeps ==
    ASSUME Inv, NEW a \in DOMAIN slices, NEW by \in {"asc", "desc"}, Organize(a, by)
    PROVE  Inv' /\ Promised!ChangeArray(a)
  <1> DEFINE mem    == memory[slices[a].backing]
             len    == slices[a].len
             before == Elements(a)
  <1>1. /\ mem \in Seq(Values \cup {Nil}) /\ len \in Nat /\ len <= Len(mem)
        /\ \A i \in 1..len : mem[i] \in Values
    BY ElementsTyped DEF Inv, TypeOK
  <1>2. before \in Seq(Values) /\ Len(before) = len /\ DOMAIN before = 1..len
    BY ElementsTyped DEF Inv, Elements
  <1>3. Contents[a] = before
    BY ContentsTyped
  <1>4. PICK order \in SetToSeqs(1..len) :
            LET sorted == [k \in 1..len |-> before[order[k]]]
            IN  /\ \A j, k \in 1..len :
                      j < k => IF by = "asc" THEN sorted[j].int <= sorted[k].int
                                             ELSE sorted[j].int >= sorted[k].int
                /\ memory' = [memory EXCEPT ![slices[a].backing] =
                                [k \in DOMAIN mem |-> IF k <= len THEN sorted[k] ELSE mem[k]]]
    BY Zenon DEF Organize
  <1>5. /\ \A i \in 1..len : before[i].type = "INTEGER"
        /\ UNCHANGED <<slices, dicts>>
    BY <1>2 DEF Organize, Numbers
  <1>6. /\ order \in [1..len -> 1..len]
        /\ order \in Promised!SetToSeqs(1..len)
    BY <1>1, <1>4, Places, SameArrangements
  <1>7. slices' = [slices EXCEPT ![a].len = len]
    <2>1. slices \in Seq(SliceType) /\ slices[a] \in SliceType
      BY DEF Inv, TypeOK
    <2>2. [slices[a] EXCEPT !.len = len] = slices[a]
      BY <2>1 DEF SliceType
    <2>3. [slices EXCEPT ![a] = slices[a]] = slices
      BY <2>1
    <2> HIDE DEF len
    <2>4. [slices EXCEPT ![a].len = len] = slices
      BY <2>2, <2>3
    <2> QED BY <1>5, <2>4
  <1> DEFINE after == [k \in 1..len |-> before[order[k]]]
             cells == [k \in DOMAIN mem |-> IF k <= len THEN after[k] ELSE mem[k]]
  <1> HIDE DEF mem, len, before
  <1>8. /\ cells \in Seq(Values \cup {Nil}) /\ Len(cells) = Len(mem)
        /\ \A i \in 1..len : cells[i] = after[i] /\ cells[i] \in Values
    <2>1. \A i \in 1..len : after[i] \in Values
      BY <1>2, <1>6
    <2> HIDE DEF after
    <2> QED BY <1>1, <2>1
  <1>9. after \in Seq(Values) /\ after = [k \in 1..len |-> cells[k]]
    <2>1. \A i \in 1..len : after[i] \in Values
      BY <1>2, <1>6
    <2>2. after = [k \in 1..len |-> after[k]]
      OBVIOUS
    <2> HIDE DEF after, cells
    <2>3. after \in Seq(Values)
      BY <1>1, <2>1, <2>2
    <2> QED BY <1>8, <2>2, <2>3
  <1>10. memory' = [memory EXCEPT ![slices[a].backing] = cells]
    BY <1>4
  <1> HIDE DEF cells, after
  <1>11. /\ Inv'
         /\ Elements(a)' = after
         /\ \A o \in DOMAIN slices : o # a => Elements(o)' = Elements(o)
    <2>1. len \in Nat /\ len <= Len(cells) /\ Len(cells) = Len(memory[slices[a].backing])
      BY <1>1, <1>8 DEF mem
    <2>2. \A i \in 1..len : cells[i] \in Values
      BY <1>8
    <2>3. UNCHANGED dicts
      BY <1>5
    <2>4. /\ Inv'
          /\ Elements(a)' = [i \in 1..len |-> cells[i]]
          /\ \A o \in DOMAIN slices : o # a => Elements(o)' = Elements(o)
      BY <1>7, <1>8, <1>10, <2>1, <2>2, <2>3, WrittenInPlace
    <2> QED BY <1>9, <2>4
  <1>12. Promised!Changes(a, after)
    BY <1>5, <1>9, <1>11, SeenChanged
  <1>13. /\ \A i, j \in DOMAIN after : i # j => after[i].type = "INTEGER"
         /\ \/ \A i, j \in DOMAIN after : i < j => after[i].int <= after[j].int
            \/ \A i, j \in DOMAIN after : i < j => after[i].int >= after[j].int
    <2>1. /\ DOMAIN after = 1..len
          /\ \A i \in 1..len : after[i] = before[order[i]] /\ order[i] \in 1..len
          /\ \A j, k \in 1..len :
                j < k => IF by = "asc" THEN after[j].int <= after[k].int
                                       ELSE after[j].int >= after[k].int
      BY <1>4, <1>6 DEF after
    <2>2. CASE by = "asc"
      BY <1>4, <1>5, <2>1, <2>2
    <2>3. CASE by = "desc"
      BY <1>4, <1>5, <2>1, <2>3
    <2> QED BY <2>2, <2>3
  <1>14. Promised!ChangeArray(a)
    <2>1. /\ order \in Promised!SetToSeqs(DOMAIN Contents[a])
          /\ after = [i \in DOMAIN Contents[a] |-> Contents[a][order[i]]]
      BY <1>2, <1>3, <1>6 DEF after
    <2> QED BY <1>12, <1>13, <2>1 DEF Promised!ChangeArray
  <1> QED BY <1>11, <1>14

\* A new array, with what a program sees of it.
LEMMA CreateKeeps ==
    ASSUME Inv, NEW elements \in Seq(Values), NEW room \in Nat, Create(elements, room)
    PROVE  Inv' /\ Promised!MakesArray(elements)
  <1>1. PICK new \in Nat : new = Len(slices) + 1
    BY DEF Inv, TypeOK
  <1>2. /\ Inv'
        /\ slices' = Append(slices, Slice(elements))
        /\ Elements(new)' = elements
        /\ \A o \in DOMAIN slices : Elements(o)' = Elements(o)
    BY <1>1, Created
  <1>3. UNCHANGED dicts
    BY DEF Create
  <1> QED BY <1>1, <1>2, <1>3, SeenAppended

LEMMA BuildArrayKeeps ==
    ASSUME Inv, NEW elements \in BoundedSeq(Values, MaxLength), BuildArray(elements)
    PROVE  Inv' /\ Promised!Literal
  <1>1. elements \in Seq(Values)
    BY ArraysAssumption DEF BoundedSeq, SeqOf
  <1>2. elements \in Promised!BoundedSeq(Values, MaxLength)
    BY DEF BoundedSeq, SeqOf, Promised!BoundedSeq, Promised!SeqOf
  <1>3. Inv' /\ Promised!MakesArray(elements)
    BY <1>1, CreateKeeps DEF BuildArray
  <1> QED BY <1>2, <1>3 DEF Promised!Literal

LEMMA AllButFirstKeeps ==
    ASSUME Inv, NEW a \in DOMAIN slices, AllButFirst(a)
    PROVE  Inv' /\ Promised!Rest(a)
  <1>1. /\ Elements(a) \in Seq(Values) /\ Contents[a] = Elements(a)
        /\ Len(Elements(a)) = slices[a].len
    BY ElementsTyped, ContentsTyped DEF Inv
  <1>2. Elements(a) # <<>> /\ Create(Tail(Elements(a)), 0)
    BY <1>1 DEF AllButFirst
  <1>3. Tail(Elements(a)) \in Seq(Values)
    BY <1>1, <1>2
  <1>4. Inv' /\ Promised!MakesArray(Tail(Elements(a)))
    BY <1>2, <1>3, CreateKeeps
  <1> QED BY <1>1, <1>2, <1>4 DEF Promised!Rest

PairType == [key : Keys, val : Values]

LEMMA DictTyped ==
    ASSUME Inv, NEW d \in DOMAIN dicts
    PROVE  /\ dicts[d] \in SUBSET PairType /\ IsFiniteSet(dicts[d])
           /\ \A order \in SetToSeqs(dicts[d]) : order \in Seq(dicts[d])
  <1>1. dicts[d] \in SUBSET PairType /\ IsFiniteSet(dicts[d])
    BY DEF Inv, TypeOK, PairType
  <1>2. Cardinality(dicts[d]) \in Nat
    BY <1>1, FS_CardinalityType
  <1> QED BY <1>1, <1>2 DEF SetToSeqs

LEMMA DictKeysKeeps ==
    ASSUME Inv, NEW d \in DOMAIN dicts, DictKeys(d)
    PROVE  Inv' /\ Promised!List(d)
  <1>1. PICK order \in SetToSeqs(dicts[d]), room \in 0..MaxLength :
            Create([i \in DOMAIN order |-> order[i].key], room)
    BY DEF DictKeys
  <1>2. order \in Seq(dicts[d]) /\ dicts[d] \in SUBSET PairType /\ room \in Nat
    BY DictTyped, ArraysAssumption
  <1>3. \A i \in DOMAIN order : order[i].key \in Values
    BY <1>2 DEF PairType, Keys
  <1>4. [i \in DOMAIN order |-> order[i].key] \in Seq(Values)
    BY <1>2, <1>3
  <1>5. Inv' /\ Promised!MakesArray([i \in DOMAIN order |-> order[i].key])
    BY <1>1, <1>2, <1>4, CreateKeeps
  <1>6. order \in Promised!SetToSeqs(dicts[d])
    BY SameArrangements
  <1> QED BY <1>5, <1>6 DEF Promised!List

LEMMA DictValuesKeeps ==
    ASSUME Inv, NEW d \in DOMAIN dicts, DictValues(d)
    PROVE  Inv' /\ Promised!List(d)
  <1>1. PICK order \in SetToSeqs(dicts[d]), room \in 0..MaxLength :
            Create([i \in DOMAIN order |-> order[i].val], room)
    BY DEF DictValues
  <1>2. order \in Seq(dicts[d]) /\ dicts[d] \in SUBSET PairType /\ room \in Nat
    BY DictTyped, ArraysAssumption
  <1>3. \A i \in DOMAIN order : order[i].val \in Values
    BY <1>2 DEF PairType
  <1>4. [i \in DOMAIN order |-> order[i].val] \in Seq(Values)
    BY <1>2, <1>3
  <1>5. Inv' /\ Promised!MakesArray([i \in DOMAIN order |-> order[i].val])
    BY <1>1, <1>2, <1>4, CreateKeeps
  <1>6. order \in Promised!SetToSeqs(dicts[d])
    BY SameArrangements
  <1> QED BY <1>5, <1>6 DEF Promised!List

-----------------------------------------------------------------------------
(* Dicts.                                                                  *)

LEMMA SameKeys ==
    /\ Keys = Promised!Keys
    /\ \A j, k \in Keys : /\ SameKey(j, k) = Promised!SameKey(j, k)
                          /\ SameKey(j, k) => SameKey(k, j)
  <1>1. Keys = Promised!Keys
    BY DEF Keys, Promised!Keys, Dictable, Promised!Dictable
  <1>2. ASSUME NEW j \in Keys, NEW k \in Keys
        PROVE  SameKey(j, k) = Promised!SameKey(j, k)
    BY DEF SameKey, Promised!SameKey
  <1>3. ASSUME NEW j \in Keys, NEW k \in Keys, SameKey(j, k)
        PROVE  SameKey(k, j)
    <2>1. j.type = k.type /\ j.type \in {"INTEGER", "BOOLEAN", "STRING"}
      BY <1>3 DEF Keys, Dictable, SameKey
    <2>2. CASE j.type = "INTEGER"
      BY <1>3, <2>1, <2>2 DEF SameKey
    <2>3. CASE j.type = "BOOLEAN"
      BY <1>3, <2>1, <2>3 DEF SameKey
    <2>4. CASE j.type = "STRING"
      BY <1>3, <2>1, <2>4 DEF SameKey
    <2> QED BY <2>1, <2>2, <2>3, <2>4
  <1> QED BY <1>1, <1>2, <1>3

\* A call on dicts leaves every array as it is.
LEMMA ArraysUnchanged ==
    ASSUME Inv, UNCHANGED <<memory, slices>>,
           dicts' \in Seq(SUBSET PairType),
           \A d \in DOMAIN dicts' :
              /\ IsFiniteSet(dicts'[d])
              /\ \A p, q \in dicts'[d] : SameKey(p.key, q.key) => p = q
    PROVE  Inv' /\ Contents' = Contents
  <1>1. Contents' = Contents
    BY DEF Contents, Elements
  <1>2. OwnBacking'
    BY DEF Inv, OwnBacking
  <1>3. TypeOK'
    BY DEF Inv, TypeOK, PairType
  <1> QED BY <1>1, <1>2, <1>3 DEF Inv

LEMMA BuildDictKeeps ==
    ASSUME Inv, NEW keys \in BoundedSeq(Keys, MaxLength), NEW values \in [DOMAIN keys -> Values],
           BuildDict(keys, values)
    PROVE  Inv' /\ Promised!Literal
  <1> DEFINE kept  == {i \in DOMAIN keys :
                          \A j \in DOMAIN keys : j > i => ~SameKey(keys[i], keys[j])}
             pairs == PairsOf(keys, values)
             pair  == [i \in kept |-> [key |-> keys[i], val |-> values[i]]]
  <1>1. PICK n \in Nat : keys \in [1..n -> Keys]
    BY ArraysAssumption DEF BoundedSeq, SeqOf
  <1>2. /\ pairs = {[key |-> keys[i], val |-> values[i]] : i \in kept}
        /\ dicts' = Append(dicts, pairs)
        /\ UNCHANGED <<memory, slices>>
    BY DEF BuildDict, PairsOf
  <1>3. \A i \in kept : keys[i] \in Keys /\ values[i] \in Values /\ i \in 1..n
    BY <1>1
  <1>4. \A i, j \in kept : SameKey(keys[i], keys[j]) => i = j
    <2> SUFFICES ASSUME NEW i \in kept, NEW j \in kept, SameKey(keys[i], keys[j]) PROVE i = j
      OBVIOUS
    <2>1. ~(j > i)
      OBVIOUS
    <2>2. SameKey(keys[j], keys[i])
      BY <1>3, SameKeys
    <2>3. ~(i > j)
      BY <2>2
    <2> QED BY <1>3, <2>1, <2>3
  <1>5. IsFiniteSet(pairs)
    <2>1. kept \in SUBSET (1..n) /\ IsFiniteSet(1..n)
      BY <1>1, FS_Interval
    <2>2. IsFiniteSet(kept)
      BY <2>1, FS_Subset
    <2>3. pair \in Surjection(kept, pairs)
      BY <1>2 DEF Surjection
    <2> HIDE DEF kept, pairs, pair
    <2> QED BY <2>2, <2>3, FS_Surjection
  <1> HIDE DEF kept, pairs
  <1>6. pairs \in SUBSET PairType
    BY <1>2, <1>3 DEF PairType
  <1>7. \A p, q \in pairs : SameKey(p.key, q.key) => p = q
    BY <1>2, <1>4
  <1>8. /\ dicts' \in Seq(SUBSET PairType)
        /\ \A d \in DOMAIN dicts' :
              /\ IsFiniteSet(dicts'[d])
              /\ \A p, q \in dicts'[d] : SameKey(p.key, q.key) => p = q
    <2>1. dicts \in Seq(SUBSET PairType)
      BY DEF Inv, TypeOK, PairType
    <2>2. /\ dicts' \in Seq(SUBSET PairType) /\ DOMAIN dicts' = 1..(Len(dicts) + 1)
          /\ dicts'[Len(dicts) + 1] = pairs /\ \A d \in DOMAIN dicts : dicts'[d] = dicts[d]
          /\ DOMAIN dicts = 1..Len(dicts) /\ Len(dicts) \in Nat
      BY <1>2, <1>6, <2>1
    <2>3. \A d \in DOMAIN dicts' : d \in DOMAIN dicts \/ d = Len(dicts) + 1
      BY <2>2
    <2> QED BY <1>5, <1>7, <2>2, <2>3 DEF Inv, TypeOK
  <1>9. Inv' /\ Contents' = Contents
    BY <1>2, <1>8, ArraysUnchanged
  <1>10. Promised!MakesDict(pairs)
    BY <1>2, <1>9 DEF Promised!MakesDict
  <1>11. Promised!Literal
    <2> DEFINE ks    == {keys[i] : i \in kept}
               value == [k \in ks |-> values[CHOOSE i \in kept : keys[i] = k]]
    <2>1. ks \in SUBSET Keys
      BY <1>3
    <2>2. \A i \in kept : SameKey(keys[i], keys[i])
      BY <1>3 DEF Keys, Dictable, SameKey
    <2>3. \A i \in kept : (CHOOSE j \in kept : keys[j] = keys[i]) = i
      BY <1>4, <2>2
    <2>4. \A i \in kept : keys[i] \in ks /\ value[keys[i]] = values[i]
      BY <2>3
    <2>5. value \in [ks -> Values]
      BY <1>3, <2>3
    <2>6. \A j, k \in ks : Promised!SameKey(j, k) => j = k
      BY <1>3, <1>4, SameKeys
    <2> HIDE DEF value
    <2>7. {[key |-> k, val |-> value[k]] : k \in ks} = pairs
      BY <1>2, <2>4
    <2>8. ks \in SUBSET Promised!Keys
      BY <2>1, SameKeys
    <2> HIDE DEF ks
    <2> QED BY <1>10, <2>5, <2>6, <2>7, <2>8 DEF Promised!Literal
  <1> QED BY <1>9, <1>11

\* A dict that gets other pairs, with what a program sees of it.
LEMMA DictChanged ==
    ASSUME Inv, NEW d \in DOMAIN dicts, NEW pairs \in SUBSET PairType, IsFiniteSet(pairs),
           \A p, q \in pairs : SameKey(p.key, q.key) => p = q,
           dicts' = [dicts EXCEPT ![d] = pairs], UNCHANGED <<memory, slices>>
    PROVE  Inv' /\ Promised!ChangesDict(d, pairs)
  <1>1. dicts \in Seq(SUBSET PairType)
    BY DEF Inv, TypeOK, PairType
  <1>2. /\ dicts' \in Seq(SUBSET PairType) /\ DOMAIN dicts' = DOMAIN dicts
        /\ dicts'[d] = pairs /\ \A o \in DOMAIN dicts : o # d => dicts'[o] = dicts[o]
    BY <1>1
  <1>3. \A o \in DOMAIN dicts' :
            /\ IsFiniteSet(dicts'[o])
            /\ \A p, q \in dicts'[o] : SameKey(p.key, q.key) => p = q
    BY <1>2 DEF Inv, TypeOK
  <1>4. Inv' /\ Contents' = Contents
    BY <1>2, <1>3, ArraysUnchanged
  <1>5. \A s \in Seq(SUBSET PairType) : s \o <<>> = s
    OBVIOUS
  <1>6. dicts' = [dicts EXCEPT ![d] = pairs] \o <<>>
    BY <1>2, <1>5
  <1> QED BY <1>4, <1>6 DEF Promised!ChangesDict

LEMMA Without ==
    ASSUME Inv, NEW d \in DOMAIN dicts, NEW k \in Keys
    PROVE  LET rest == {p \in dicts[d] : ~SameKey(p.key, k)}
           IN  /\ rest \in SUBSET PairType /\ IsFiniteSet(rest)
               /\ \A p, q \in rest : SameKey(p.key, q.key) => p = q
               /\ rest = {p \in dicts[d] : ~Promised!SameKey(p.key, k)}
  <1> DEFINE rest == {p \in dicts[d] : ~SameKey(p.key, k)}
  <1>1. dicts[d] \in SUBSET PairType /\ IsFiniteSet(dicts[d]) /\ rest \in SUBSET dicts[d]
    BY DictTyped
  <1>2. IsFiniteSet(rest)
    BY <1>1, FS_Subset
  <1>3. \A p, q \in rest : SameKey(p.key, q.key) => p = q
    BY DEF Inv, TypeOK
  <1>4. \A p \in dicts[d] : SameKey(p.key, k) = Promised!SameKey(p.key, k)
    BY <1>1, SameKeys DEF PairType
  <1>5. rest = {p \in dicts[d] : ~Promised!SameKey(p.key, k)}
    BY <1>4
  <1> QED BY <1>1, <1>2, <1>3, <1>5

LEMMA DeleteFromDictKeeps ==
    ASSUME Inv, NEW d \in DOMAIN dicts, NEW k \in Keys, DeleteFromDict(d, k)
    PROVE  Inv' /\ Promised!ChangeDict(d)
  <1> DEFINE rest == {p \in dicts[d] : ~SameKey(p.key, k)}
  <1>1. /\ rest \in SUBSET PairType /\ IsFiniteSet(rest)
        /\ \A p, q \in rest : SameKey(p.key, q.key) => p = q
        /\ rest = {p \in dicts[d] : ~Promised!SameKey(p.key, k)}
    BY Without
  <1>2. dicts' = [dicts EXCEPT ![d] = rest] /\ UNCHANGED <<memory, slices>>
    BY DEF DeleteFromDict
  <1> HIDE DEF rest
  <1>3. Inv' /\ Promised!ChangesDict(d, rest)
    BY <1>1, <1>2, DictChanged
  <1>4. Promised!ChangesDict(d, {p \in dicts[d] : ~Promised!SameKey(p.key, k)})
    BY <1>1, <1>3
  <1> QED BY <1>3, <1>4, SameKeys DEF Promised!ChangeDict

LEMMA AddToDictKeeps ==
    ASSUME Inv, NEW d \in DOMAIN dicts, NEW k \in Keys, NEW v \in Values, AddToDict(d, k, v)
    PROVE  Inv' /\ Promised!ChangeDict(d)
  <1> DEFINE rest  == {p \in dicts[d] : ~SameKey(p.key, k)}
             new   == [key |-> k, val |-> v]
             pairs == rest \cup {new}
  <1>1. /\ rest \in SUBSET PairType /\ IsFiniteSet(rest)
        /\ \A p, q \in rest : SameKey(p.key, q.key) => p = q
        /\ rest = {p \in dicts[d] : ~Promised!SameKey(p.key, k)}
    BY Without
  <1>2. dicts' = [dicts EXCEPT ![d] = pairs] /\ UNCHANGED <<memory, slices>>
    BY DEF AddToDict
  <1>3. \A p \in rest : ~SameKey(p.key, k) /\ ~SameKey(k, p.key)
    BY <1>1, SameKeys DEF PairType
  <1>4. new \in PairType /\ new.key = k
    BY DEF PairType
  <1>5. Promised!With(dicts[d], k, v) = pairs
    BY <1>1 DEF Promised!With
  <1> HIDE DEF rest, new
  <1>6. pairs \in SUBSET PairType /\ IsFiniteSet(pairs)
    BY <1>1, <1>4, FS_AddElement
  <1>7. \A p, q \in pairs : SameKey(p.key, q.key) => p = q
    BY <1>1, <1>3, <1>4
  <1> HIDE DEF pairs
  <1>8. Inv' /\ Promised!ChangesDict(d, pairs)
    BY <1>2, <1>6, <1>7, DictChanged
  <1>9. Promised!ChangesDict(d, Promised!With(dicts[d], k, v))
    BY <1>5, <1>8
  <1> QED BY <1>8, <1>9, SameKeys DEF Promised!ChangeDict

-----------------------------------------------------------------------------
(* The searches.                                                           *)

\* v takes the place of w in the search for the "max" or the "min".
Ahead(most, v, w) ==
    IF most = "max" THEN Rounded(v.int) >= Rounded(w.int) ELSE Rounded(v.int) <= Rounded(w.int)

Numeric(elements) == elements \in Seq(Values) /\ elements # <<>> /\ Numbers(elements)

LEMMA AheadOrders ==
    ASSUME NEW elements, Numeric(elements), NEW most
    PROVE  /\ \A i \in 1..Len(elements) : Ahead(most, elements[i], elements[i])
           /\ \A i, j \in 1..Len(elements) :
                 Ahead(most, elements[i], elements[j]) \/ Ahead(most, elements[j], elements[i])
           /\ \A i, j, k \in 1..Len(elements) :
                 Ahead(most, elements[i], elements[j]) /\ Ahead(most, elements[j], elements[k])
                     => Ahead(most, elements[i], elements[k])
  <1>1. \A i \in 1..Len(elements) : Rounded(elements[i].int) \in Int
    BY RoundedAssumption DEF Numeric, Numbers
  <1> QED BY <1>1 DEF Ahead

\* f follows the search, each element compared with the one so far.
Leads(f, elements, most) ==
    f = [k \in 1..Len(elements) |->
            IF k = 1 THEN elements[1]
            ELSE IF Ahead(most, elements[k], f[k - 1]) THEN elements[k]
            ELSE f[k - 1]]

\* Such a function there is, by the least number of elements there is none for.
LEMMA LeaderExists ==
    ASSUME NEW elements, NEW most, Len(elements) \in Nat
    PROVE  \E f : Leads(f, elements, most)
  <1> DEFINE Upto(m, f) ==
                 f = [k \in 1..m |-> IF k = 1 THEN elements[1]
                                     ELSE IF Ahead(most, elements[k], f[k - 1]) THEN elements[k]
                                     ELSE f[k - 1]]
             bad == {m \in Nat : ~ \E f : Upto(m, f)}
  <1>1. SUFFICES ASSUME ~ \E f : Leads(f, elements, most) PROVE FALSE
    OBVIOUS
  <1>2. Len(elements) \in bad
    BY <1>1 DEF Leads
  <1>3. PICK m \in bad : \A j \in bad : m <= j
    BY <1>2, HasLeast
  <1>4. m \in Nat /\ ~ \E f : Upto(m, f)
    OBVIOUS
  <1> HIDE DEF bad
  <1>5. CASE m = 0
    <2>1. PICK f : f = [k \in 1..0 |-> elements[1]]
      OBVIOUS
    <2>2. Upto(0, f)
      BY <2>1
    <2> QED BY <1>4, <1>5, <2>2
  <1>6. CASE m > 0
    <2>1. PICK j : j = m - 1 /\ j \in Nat /\ j < m
      BY <1>4, <1>6
    <2>2. j \notin bad
      BY <1>3, <1>4, <2>1
    <2>3. PICK f : Upto(j, f)
      BY <2>1, <2>2 DEF bad
    <2>4. PICK g : g = [k \in 1..m |-> IF k < m THEN f[k]
                                      ELSE IF k = 1 THEN elements[1]
                                      ELSE IF Ahead(most, elements[k], f[k - 1]) THEN elements[k]
                                      ELSE f[k - 1]]
      OBVIOUS
    <2>5. ASSUME NEW k \in 1..m
          PROVE  g[k] = IF k = 1 THEN elements[1]
                        ELSE IF Ahead(most, elements[k], g[k - 1]) THEN elements[k]
                        ELSE g[k - 1]
      <3>1. k # 1 => g[k - 1] = f[k - 1]
        BY <1>4, <2>4
      <3>2. k < m => f[k] = IF k = 1 THEN elements[1]
                            ELSE IF Ahead(most, elements[k], f[k - 1]) THEN elements[k]
                            ELSE f[k - 1]
        BY <1>4, <2>1, <2>3
      <3> QED BY <2>4, <3>1, <3>2
    <2>6. Upto(m, g)
      BY <2>4, <2>5
    <2> QED BY <1>4, <2>6
  <1> QED BY <1>4, <1>5, <1>6

\* Where the search ends is an element, and ahead of all.
LEMMA LeaderIs ==
    ASSUME NEW elements, Numeric(elements), NEW f, NEW most, Leads(f, elements, most)
    PROVE  \E i \in 1..Len(elements) :
              /\ f[Len(elements)] = elements[i]
              /\ \A j \in 1..Len(elements) : Ahead(most, elements[i], elements[j])
  <1> DEFINE Right(m) == \E i \in 1..m :
                            /\ f[m] = elements[i]
                            /\ \A j \in 1..m : Ahead(most, elements[i], elements[j])
             bad == {m \in Nat : m \in 1..Len(elements) /\ ~Right(m)}
  <1>1. PICK n : n = Len(elements) /\ n \in Nat /\ n > 0
    BY EmptySeq DEF Numeric
  <1>2. SUFFICES ASSUME ~Right(n) PROVE FALSE
    BY <1>1
  <1>3. n \in bad
    BY <1>1, <1>2
  <1>4. PICK m \in bad : \A j \in bad : m <= j
    BY <1>3, HasLeast
  <1>5. m \in 1..n /\ m \in Nat /\ ~Right(m)
    BY <1>1
  <1> HIDE DEF bad
  <1>6. f[m] = IF m = 1 THEN elements[1]
               ELSE IF Ahead(most, elements[m], f[m - 1]) THEN elements[m]
               ELSE f[m - 1]
    BY <1>1, <1>5 DEF Leads
  <1>7. CASE m = 1
    <2>1. 1 \in 1..Len(elements)
      BY <1>1, <1>5, <1>7
    <2>2. Ahead(most, elements[1], elements[1])
      BY <2>1, AheadOrders
    <2> QED BY <1>5, <1>6, <1>7, <2>2
  <1>8. CASE m > 1
    <2>1. PICK k : k = m - 1 /\ k \in 1..n /\ k \in Nat /\ k < m
      BY <1>1, <1>5, <1>8
    <2>2. k \notin bad
      BY <1>4, <1>5, <2>1
    <2>3. Right(k)
      BY <1>1, <2>1, <2>2 DEF bad
    <2>4. PICK i \in 1..k : /\ f[k] = elements[i]
                            /\ \A j \in 1..k : Ahead(most, elements[i], elements[j])
      BY <2>3
    <2>5. i \in 1..m /\ i \in 1..Len(elements) /\ m \in 1..Len(elements)
      BY <1>1, <1>5, <2>1
    <2>6. \A j \in 1..m : (j \in 1..k \/ j = m) /\ j \in 1..Len(elements)
      BY <1>1, <1>5, <2>1
    <2>7. CASE Ahead(most, elements[m], f[k])
      <3>1. f[m] = elements[m]
        BY <1>6, <1>8, <2>1, <2>7
      <3>2. ASSUME NEW j \in 1..m PROVE Ahead(most, elements[m], elements[j])
        <4>1. CASE j \in 1..k
          BY <2>4, <2>5, <2>6, <2>7, <4>1, AheadOrders
        <4>2. CASE j = m
          BY <2>5, <4>2, AheadOrders
        <4> QED BY <2>6, <4>1, <4>2
      <3> QED BY <1>5, <3>1, <3>2
    <2>8. CASE ~Ahead(most, elements[m], f[k])
      <3>1. f[m] = elements[i]
        BY <1>6, <1>8, <2>1, <2>4, <2>8
      <3>2. Ahead(most, elements[i], elements[m])
        BY <2>4, <2>5, <2>8, AheadOrders
      <3>3. \A j \in 1..m : Ahead(most, elements[i], elements[j])
        BY <2>4, <2>6, <3>2
      <3> QED BY <1>5, <2>5, <3>1, <3>3
    <2> QED BY <2>7, <2>8
  <1> QED BY <1>5, <1>7, <1>8

LEMMA GreatestIs ==
    ASSUME NEW elements, Numeric(elements)
    PROVE  \E i \in 1..Len(elements) :
              /\ Greatest(elements) = elements[i]
              /\ \A j \in 1..Len(elements) : Rounded(elements[i].int) >= Rounded(elements[j].int)
  <1>1. \E f : f = [k \in 1..Len(elements) |->
                       IF k = 1 THEN elements[1]
                       ELSE IF Rounded(elements[k].int) >= Rounded(f[k - 1].int) THEN elements[k]
                       ELSE f[k - 1]]
    <2>1. Len(elements) \in Nat
      BY DEF Numeric
    <2>2. PICK f : Leads(f, elements, "max")
      BY <2>1, LeaderExists
    <2> QED BY <2>2 DEF Leads, Ahead
  <1>2. \E f : /\ f = [k \in 1..Len(elements) |->
                       IF k = 1 THEN elements[1]
                       ELSE IF Rounded(elements[k].int) >= Rounded(f[k - 1].int) THEN elements[k]
                       ELSE f[k - 1]]
               /\ Greatest(elements) = f[Len(elements)]
    BY ONLY <1>1, Zenon DEF Greatest
  <1>3. PICK f : Leads(f, elements, "max") /\ Greatest(elements) = f[Len(elements)]
    BY <1>2 DEF Leads, Ahead
  <1>4. PICK i \in 1..Len(elements) :
              /\ Greatest(elements) = elements[i]
              /\ \A j \in 1..Len(elements) : Ahead("max", elements[i], elements[j])
    BY <1>3, LeaderIs
  <1> QED BY <1>4 DEF Ahead

LEMMA LeastIs ==
    ASSUME NEW elements, Numeric(elements)
    PROVE  \E i \in 1..Len(elements) :
              /\ Least(elements) = elements[i]
              /\ \A j \in 1..Len(elements) : Rounded(elements[i].int) <= Rounded(elements[j].int)
  <1>1. \E f : f = [k \in 1..Len(elements) |->
                       IF k = 1 THEN elements[1]
                       ELSE IF Rounded(elements[k].int) <= Rounded(f[k - 1].int) THEN elements[k]
                       ELSE f[k - 1]]
    <2>1. Len(elements) \in Nat
      BY DEF Numeric
    <2>2. PICK f : Leads(f, elements, "min")
      BY <2>1, LeaderExists
    <2> QED BY <2>2 DEF Leads, Ahead
  <1>2. \E f : /\ f = [k \in 1..Len(elements) |->
                       IF k = 1 THEN elements[1]
                       ELSE IF Rounded(elements[k].int) <= Rounded(f[k - 1].int) THEN elements[k]
                       ELSE f[k - 1]]
               /\ Least(elements) = f[Len(elements)]
    BY ONLY <1>1, Zenon DEF Least
  <1>3. PICK f : Leads(f, elements, "min") /\ Least(elements) = f[Len(elements)]
    BY <1>2 DEF Leads, Ahead
  <1>4. PICK i \in 1..Len(elements) :
              /\ Least(elements) = elements[i]
              /\ \A j \in 1..Len(elements) : Ahead("min", elements[i], elements[j])
    BY <1>3, LeaderIs
  <1> QED BY <1>4 DEF Ahead

\* Of two places that fit, the search ends at the first.
LEMMA SearchEndIs ==
    ASSUME NEW elements, Len(elements) \in Nat, NEW v
    PROVE  /\ SearchEnd(elements, v) = 0 => ~Contains(elements, v)
           /\ SearchEnd(elements, v) > 0 => \A i \in 1..(SearchEnd(elements, v) - 1) : elements[i] # v
  <1>1. PICK I : I = {i \in 1..Len(elements) : elements[i].type # v.type \/ elements[i] = v}
    OBVIOUS
  <1>2. SearchEnd(elements, v) = IF I # {} THEN Min(I) ELSE 0
    BY <1>1 DEF SearchEnd, SelectInSeq
  <1>3. CASE I = {}
    BY <1>1, <1>2, <1>3 DEF Contains
  <1>4. CASE I # {}
    <2>1. I \in SUBSET Nat
      BY <1>1
    <2>2. \E m \in I : \A j \in I : m <= j
      BY <1>4, <2>1, HasLeast
    <2>3. Min(I) \in I /\ \A j \in I : Min(I) <= j
      BY <2>2 DEF Min
    <2>4. PICK m : m = SearchEnd(elements, v) /\ m \in 1..Len(elements) /\ \A j \in I : m <= j
      BY <1>1, <1>2, <1>4, <2>3
    <2>5. ASSUME NEW i \in 1..(m - 1) PROVE elements[i] # v
      <3>1. i \notin I /\ i \in 1..Len(elements)
        BY <2>1, <2>4
      <3> QED BY <1>1, <3>1
    <2> QED BY <2>4, <2>5
  <1> QED BY <1>3, <1>4

LEMMA ReadsInv == ASSUME TypeOK PROVE ReadsRight
  <1>1. ASSUME NEW a \in DOMAIN slices, NEW elements, elements = Elements(a)
        PROVE  LET Small == \A i \in DOMAIN elements : Rounded(elements[i].int) = elements[i].int
               IN  elements # <<>> /\ Numbers(elements) =>
                      /\ \A i \in DOMAIN elements :
                            /\ Rounded(elements[i].int) <= Rounded(Greatest(elements).int)
                            /\ Rounded(elements[i].int) >= Rounded(Least(elements).int)
                            /\ Small => /\ elements[i].int <= Greatest(elements).int
                                        /\ elements[i].int >= Least(elements).int
                      /\ {Greatest(elements), Least(elements)} \subseteq ToSet(elements)
    <2>1. SUFFICES ASSUME elements # <<>> /\ Numbers(elements)
          PROVE  LET Small == \A i \in DOMAIN elements : Rounded(elements[i].int) = elements[i].int
                 IN   /\ \A i \in DOMAIN elements :
                            /\ Rounded(elements[i].int) <= Rounded(Greatest(elements).int)
                            /\ Rounded(elements[i].int) >= Rounded(Least(elements).int)
                            /\ Small => /\ elements[i].int <= Greatest(elements).int
                                        /\ elements[i].int >= Least(elements).int
                      /\ {Greatest(elements), Least(elements)} \subseteq ToSet(elements)
      OBVIOUS
    <2>2. elements \in Seq(Values) /\ Numeric(elements) /\ DOMAIN elements = 1..Len(elements)
      BY <1>1, <2>1, ElementsTyped DEF Numeric
    <2>3. PICK g \in 1..Len(elements) :
              /\ Greatest(elements) = elements[g]
              /\ \A j \in 1..Len(elements) : Rounded(elements[g].int) >= Rounded(elements[j].int)
      BY <2>2, GreatestIs
    <2>4. PICK l \in 1..Len(elements) :
              /\ Least(elements) = elements[l]
              /\ \A j \in 1..Len(elements) : Rounded(elements[l].int) <= Rounded(elements[j].int)
      BY <2>2, LeastIs
    <2>5. \A i \in 1..Len(elements) : Rounded(elements[i].int) \in Int
      BY <2>2, RoundedAssumption DEF Numeric, Numbers
    <2>6. {Greatest(elements), Least(elements)} \subseteq ToSet(elements)
      BY <2>2, <2>3, <2>4 DEF ToSet
    <2> QED BY <2>2, <2>3, <2>4, <2>5, <2>6
  <1>2. ASSUME NEW a \in DOMAIN slices, NEW v
        PROVE  LET end == SearchEnd(Elements(a), v)
               IN  /\ end = 0 => ~Contains(Elements(a), v)
                   /\ end > 0 => \A i \in 1..(end - 1) : Elements(a)[i] # v
    BY ElementsTyped, SearchEndIs
  <1> QED BY <1>1, <1>2 DEF ReadsRight

-----------------------------------------------------------------------------
(* The theorems.                                                           *)

LEMMA InitInv == Init => Inv /\ Promised!Init
  <1> SUFFICES ASSUME Init PROVE Inv /\ Promised!Init
    OBVIOUS
  <1>1. slices = <<>> /\ dicts = <<>> /\ memory = [b \in Backings |-> <<>>]
    BY DEF Init
  <1>2. TypeOK
    BY <1>1 DEF TypeOK
  <1>3. OwnBacking
    BY <1>1 DEF OwnBacking
  <1>4. Contents = <<>>
    BY <1>1 DEF Contents
  <1> QED BY <1>1, <1>2, <1>3, <1>4 DEF Inv, Promised!Init

\* Every call keeps the invariant and does what the collections promise.
LEMMA NextKeeps ==
    ASSUME Inv, Next
    PROVE  Inv' /\ Promised!Next
  <1>1. DOMAIN Contents = DOMAIN slices
    BY ContentsTyped
  <1>2. CASE \E elements \in BoundedSeq(Values, MaxLength) : BuildArray(elements)
    BY <1>2, BuildArrayKeeps DEF Promised!Next
  <1>3. CASE \E keys \in BoundedSeq(Keys, MaxLength) :
                \E values \in [DOMAIN keys -> Values] : BuildDict(keys, values)
    BY <1>3, BuildDictKeeps DEF Promised!Next
  <1>4. ASSUME NEW a \in DOMAIN slices, NEW index \in 0..MaxLength, RemoveFromArray(a, index)
        PROVE  Inv' /\ Promised!Next
    <2>1. index \in Nat
      BY ArraysAssumption
    <2> QED BY <1>1, <1>4, <2>1, RemoveFromArrayKeeps DEF Promised!Next
  <1>5. ASSUME NEW a \in DOMAIN slices, NEW v \in Values,
               AddToArrayStart(a, v) \/ AddToArrayEnd(a, v)
        PROVE  Inv' /\ Promised!Next
    BY <1>1, <1>5, AddToArrayStartKeeps, AddToArrayEndKeeps DEF Promised!Next
  <1>6. ASSUME NEW a \in DOMAIN slices, NEW by \in {"asc", "desc"}, Organize(a, by)
        PROVE  Inv' /\ Promised!Next
    BY <1>1, <1>6, OrganizeKeeps DEF Promised!Next
  <1>7. ASSUME NEW a \in DOMAIN slices, AllButFirst(a)
        PROVE  Inv' /\ Promised!Next
    BY <1>1, <1>7, AllButFirstKeeps DEF Promised!Next
  <1>8. ASSUME NEW d \in DOMAIN dicts, NEW k \in Keys, NEW v \in Values, AddToDict(d, k, v)
        PROVE  Inv' /\ Promised!Next
    BY <1>8, AddToDictKeeps DEF Promised!Next
  <1>9. ASSUME NEW d \in DOMAIN dicts, NEW k \in Keys, DeleteFromDict(d, k)
        PROVE  Inv' /\ Promised!Next
    BY <1>9, DeleteFromDictKeeps DEF Promised!Next
  <1>10. ASSUME NEW d \in DOMAIN dicts, DictKeys(d) \/ DictValues(d)
         PROVE  Inv' /\ Promised!Next
    BY <1>10, DictKeysKeeps, DictValuesKeeps DEF Promised!Next
  <1> QED BY <1>2, <1>3, <1>4, <1>5, <1>6, <1>7, <1>8, <1>9, <1>10 DEF Next

LEMMA StutterKeeps ==
    ASSUME Inv, UNCHANGED vars
    PROVE  Inv' /\ UNCHANGED Promised!vars
  <1>1. memory' = memory /\ slices' = slices /\ dicts' = dicts
    BY DEF vars
  <1>2. Inv'
    BY <1>1 DEF Inv, TypeOK, OwnBacking
  <1>3. Contents' = Contents
    BY <1>1 DEF Contents, Elements
  <1> QED BY <1>1, <1>2, <1>3 DEF Promised!vars

LEMMA Invariant == Spec => []Inv
  <1>1. Inv /\ [Next]_vars => Inv'
    BY NextKeeps, StutterKeeps
  <1> QED BY <1>1, InitInv, PTL DEF Spec

\* Slices lie within the memory they point into, hold values only, and dicts
\* have one pair for a key.
THEOREM TypeCorrect == Spec => []TypeOK
  <1>1. Inv => TypeOK
    BY DEF Inv
  <1> QED BY <1>1, Invariant, PTL

\* No two arrays share a backing array, so that none is written through another.
THEOREM BackingsOwned == Spec => []OwnBacking
  <1>1. Inv => OwnBacking
    BY DEF Inv
  <1> QED BY <1>1, Invariant, PTL

\* The numbers max and min give are elements, and no element is beyond them by
\* more than the rounding of float64; indexOf passes over no v, in any array.
THEOREM SearchesRight == Spec => []ReadsRight
  <1>1. TypeOK => ReadsRight
    BY ReadsInv
  <1> QED BY <1>1, TypeCorrect, PTL

\* A program sees sequences and sets of pairs of which a call changes the one it
\* was given and no other.
THEOREM CollectionsImplemented == Spec => ImplementsCollections
  <1>1. Init => Promised!Init
    BY InitInv
  <1>2. Inv /\ [Next]_vars => [Promised!Next]_(Promised!vars)
    BY NextKeeps, StutterKeeps
  <1>3. Spec => [][Promised!Next]_(Promised!vars)
    BY <1>2, Invariant, PTL DEF Spec
  <1> QED BY <1>1, <1>3, PTL DEF Spec, ImplementsCollections, Promised!Spec

-----------------------------------------------------------------------------
(* The database.                                                           *)

DatabaseInv ==
    /\ db_connection \in {None, asked}
    /\ asked \in Databases \cup {None}
    /\ DOMAIN stored = Databases

\* A statement changes the database of the connection.
LEMMA ExecChanges ==
    ASSUME DatabaseInv, NEW t, NEW rows, Exec(t, rows)
    PROVE  DatabaseInv' /\ \A d \in Databases : stored'[d] # stored[d] => d = asked
  BY DEF DatabaseInv, Exec

LEMMA StatementExecs ==
    ASSUME NEW t,
           \/ CreateTable(t) \/ DeleteTable(t) \/ DeleteFromTable(t)
           \/ \E row \in Rows : InsertIntoTable(t, row) \/ UpdateIntoTable(t, row)
    PROVE  \E rows : Exec(t, rows)
  <1>1. CASE CreateTable(t)
    BY <1>1 DEF CreateTable
  <1>2. CASE DeleteTable(t)
    BY <1>2 DEF DeleteTable
  <1>3. CASE DeleteFromTable(t)
    BY <1>3 DEF DeleteFromTable
  <1>4. CASE \E row \in Rows : InsertIntoTable(t, row)
    BY <1>4 DEF InsertIntoTable
  <1>5. CASE \E row \in Rows : UpdateIntoTable(t, row)
    BY <1>5 DEF UpdateIntoTable
  <1> QED BY <1>1, <1>2, <1>3, <1>4, <1>5

\* The pool is that of the database asked for last, and only its tables change.
LEMMA DatabaseStepKeeps ==
    ASSUME DatabaseInv, DatabaseStep \/ UNCHANGED databaseVars
    PROVE  DatabaseInv' /\ \A d \in Databases : stored'[d] # stored[d] => d = asked
  <1>1. CASE UNCHANGED databaseVars
    BY <1>1 DEF databaseVars, DatabaseInv
  <1>2. CASE \E d \in Databases : MySqlConnection(d)
    BY <1>2 DEF MySqlConnection, DatabaseInv
  <1>3. ASSUME NEW t \in Tables,
               \/ CreateTable(t) \/ DeleteTable(t) \/ DeleteFromTable(t)
               \/ \E row \in Rows : InsertIntoTable(t, row) \/ UpdateIntoTable(t, row)
        PROVE  DatabaseInv' /\ \A d \in Databases : stored'[d] # stored[d] => d = asked
    <2>1. PICK rows : Exec(t, rows)
      BY <1>3, StatementExecs
    <2> QED BY <2>1, ExecChanges
  <1>4. CASE Reach
    BY <1>4 DEF Reach, DatabaseInv
  <1> QED BY <1>1, <1>2, <1>3, <1>4 DEF DatabaseStep

\* What a query returns is stored in that database.
LEMMA QueriesShowAsked ==
    ASSUME DatabaseInv, NEW t \in Tables, NEW rows \in GetFromTable(t)
    PROVE  asked # None /\ stored[asked][t] # None /\ rows \subseteq stored[asked][t]
  <1>1. HasTable(t) /\ rows \in SUBSET RowsOf(t)
    BY DEF GetFromTable
  <1>2. db_connection = asked /\ asked # None
    BY <1>1 DEF HasTable, DatabaseInv
  <1> QED BY <1>1, <1>2 DEF HasTable, RowsOf

\* Statements change and queries show the database that was asked for last.
THEOREM LatestDatabaseOnly == ServicesSpec => OnlyLatestDatabase
  <1>1. ServicesInit => DatabaseInv
    BY DEF ServicesInit, DatabaseInit, DatabaseInv
  <1>2. DatabaseInv /\ [ServicesNext]_servicesVars =>
            DatabaseInv' /\ \A d \in Databases : stored'[d] # stored[d] => d = asked
    <2>1. [ServicesNext]_servicesVars => DatabaseStep \/ UNCHANGED databaseVars
      BY DEF ServicesNext, servicesVars
    <2> QED BY <2>1, DatabaseStepKeeps
  <1>3. DatabaseInv /\ [ServicesNext]_servicesVars =>
           [ /\ \A d \in Databases : stored'[d] # stored[d] => d = asked
             /\ \A t \in Tables : \A rows \in GetFromTable(t) :
                   asked # None /\ stored[asked][t] # None /\ rows \subseteq stored[asked][t]
           ]_databaseVars
    BY <1>2, QueriesShowAsked
  <1> QED BY <1>1, <1>2, <1>3, PTL DEF ServicesSpec, OnlyLatestDatabase

-----------------------------------------------------------------------------
(* The server.                                                             *)

\* What the first server call mounts: the first k patterns are in the mux, the
\* others are left.
MountedUpTo(k) ==
    /\ DOMAIN mux = {Patterns[i] : i \in 1..k}
    /\ unmounted = [i \in 1..(Len(Patterns) - k) |-> Patterns[i + k]]

\* What a further one mounts: it ends with the pattern of the routes.
EndsInRoot ==
    /\ unmounted \in Seq(Folders \cup {Root}) /\ unmounted # <<>>
    /\ unmounted[Len(unmounted)] = Root

ServerInv ==
    /\ staticRoutes \in Seq(Folders)
    /\ tried \in Nat
    /\ tried = 0 => main = "runs" /\ DOMAIN mux = {}
    /\ tried = 1 /\ main = "mounts" => \E k \in 0..Len(Patterns) : MountedUpTo(k)
    /\ tried > 0 /\ main \in {"runs", "serves"} => Root \in DOMAIN mux
    /\ tried > 1 /\ main = "mounts" => Root \in DOMAIN mux /\ EndsInRoot
    /\ PanicsOnlyOnRetry
    /\ ServesOnFirstTry

LEMMA PatternsAre ==
    ASSUME staticRoutes \in Seq(Folders)
    PROVE  /\ Patterns \in Seq(Folders \cup {Root}) /\ Patterns # <<>>
           /\ Len(Patterns) \in Nat /\ Len(Patterns) > 0
           /\ DOMAIN Patterns = 1..Len(Patterns)
           /\ Patterns[Len(Patterns)] = Root
  <1>1. staticRoutes \in Seq(Folders \cup {Root}) /\ Root \in Folders \cup {Root}
    OBVIOUS
  <1> HIDE DEF Root
  <1> QED BY <1>1 DEF Patterns

\* A pattern conflicts with itself, so that "/" cannot be mounted again.
LEMMA RootRefused ==
    ASSUME Root \in DOMAIN mux
    PROVE  Refuses(Root)
  <1>1. Conflict(Root, Root)
    BY DEF Conflict, Apart
  <1> QED BY <1>1 DEF Refuses

\* Without wildcards, only equal patterns conflict: a folder given twice.
LEMMA PlainConflict ==
    ASSUME NEW p \in Seq(STRING), NEW q \in Seq(STRING),
           \A i \in DOMAIN p : p[i] \notin Wildcards, \A i \in DOMAIN q : q[i] \notin Wildcards
    PROVE  Conflict(p, q) <=> p = q
  <1>1. CASE p = q
    BY <1>1 DEF Conflict, Apart
  <1>2. ASSUME Conflict(p, q) PROVE p = q
    <2>1. \A i \in DOMAIN p \cap DOMAIN q : p[i] = q[i]
      BY <1>2 DEF Conflict, Apart
    <2>2. /\ Len(p) \in Nat /\ Len(q) \in Nat
          /\ DOMAIN p = 1..Len(p) /\ DOMAIN q = 1..Len(q)
      OBVIOUS
    <2>3. Len(p) <= Len(q) => Above(p, q)
      BY <2>1, <2>2 DEF Above
    <2>4. Len(q) <= Len(p) => Above(q, p)
      BY <2>1, <2>2 DEF Above
    <2>5. Above(p, q) <=> Above(q, p)
      BY <1>2 DEF Conflict
    <2>6. (Above(p, q) => Len(p) <= Len(q)) /\ (Above(q, p) => Len(q) <= Len(p))
      BY DEF Above
    <2>7. (Len(p) <= Len(q) => Len(q) <= Len(p)) /\ (Len(q) <= Len(p) => Len(p) <= Len(q))
      BY <2>3, <2>4, <2>5, <2>6, Zenon
    <2>8. Len(p) = Len(q)
      <3>1. ASSUME NEW m \in Nat, NEW n \in Nat, m <= n => n <= m, n <= m => m <= n
            PROVE  m = n
        BY <3>1
      <3> QED BY <2>2, <2>7, <3>1
    <2> QED BY <2>1, <2>2, <2>8
  <1> QED BY <1>1, <1>2

\* A panic of the first server call is for two patterns that do not go together,
\* or for one that is none.
LEMMA FirstCallPanics ==
    ASSUME staticRoutes \in Seq(Folders), NEW k \in 0..Len(Patterns), MountedUpTo(k),
           unmounted # <<>>, Refuses(Head(unmounted))
    PROVE  \E i \in DOMAIN Patterns :
              \/ Patterns[i] \in Malformed
              \/ \E j \in 1..(i - 1) : Conflict(Patterns[j], Patterns[i])
  <1> PICK i : i = k + 1
    OBVIOUS
  <1>1. i \in 1..Len(Patterns) /\ Head(unmounted) = Patterns[i]
    <2>1. PICK n : n = Len(Patterns) - k /\ n \in Nat
      BY PatternsAre
    <2>2. unmounted = [x \in 1..n |-> Patterns[x + k]]
      BY <2>1 DEF MountedUpTo
    <2>3. n > 0
      BY <2>1, <2>2
    <2>4. Head(unmounted) = unmounted[1] /\ unmounted[1] = Patterns[1 + k]
      BY <2>1, <2>2, <2>3
    <2> QED BY <2>1, <2>3, <2>4, PatternsAre
  <1>2. i \in DOMAIN Patterns /\ i - 1 = k
    BY <1>1, PatternsAre
  <1>3. CASE Patterns[i] \in Malformed
    BY <1>2, <1>3
  <1>4. CASE Patterns[i] \notin Malformed
    <2>1. PICK p \in DOMAIN mux : Conflict(p, Patterns[i])
      BY <1>1, <1>4 DEF Refuses
    <2>2. PICK j \in 1..k : p = Patterns[j]
      BY <2>1 DEF MountedUpTo
    <2> QED BY <1>2, <2>1, <2>2
  <1> QED BY <1>3, <1>4

\* One more pattern of the server call is mounted, or it panics.
LEMMA MountKeeps ==
    ASSUME ServerInv, Mount
    PROVE  ServerInv'
  <1>1. /\ main = "mounts" /\ unmounted # <<>>
        /\ UNCHANGED <<registerRoutes, staticRoutes, tried>>
    BY DEF Mount
  <1>2. tried # 0 /\ tried \in Nat /\ Patterns' = Patterns
    BY <1>1 DEF ServerInv, Patterns, Root
  <1>3. CASE Refuses(Head(unmounted))
    <2>1. main' = "panicked"
      BY <1>3 DEF Mount
    <2>2. PanicsOnlyOnRetry'
      <3>1. CASE tried > 1
        BY <1>1, <3>1 DEF PanicsOnlyOnRetry
      <3>2. CASE tried = 1
        <4>1. PICK k \in 0..Len(Patterns) : MountedUpTo(k)
          BY <1>1, <3>2 DEF ServerInv
        <4>2. \E i \in DOMAIN Patterns :
                 \/ Patterns[i] \in Malformed
                 \/ \E j \in 1..(i - 1) : Conflict(Patterns[j], Patterns[i])
          BY <1>1, <1>3, <4>1, FirstCallPanics DEF ServerInv
        <4> QED BY <1>2, <4>2 DEF PanicsOnlyOnRetry
      <3> QED BY <1>2, <3>1, <3>2
    <2>3. ServesOnFirstTry'
      BY <2>1 DEF ServesOnFirstTry
    <2> QED BY <1>1, <1>2, <2>1, <2>2, <2>3 DEF ServerInv
  <1>4. CASE ~Refuses(Head(unmounted))
    <2>1. /\ DOMAIN mux' = DOMAIN mux \cup {Head(unmounted)} /\ unmounted' = Tail(unmounted)
          /\ main' = main
      BY <1>4 DEF Mount
    <2>2. ASSUME tried = 1 PROVE \E k \in 0..Len(Patterns) : MountedUpTo(k)'
      <3>1. PICK k \in 0..Len(Patterns) : MountedUpTo(k)
        BY <1>1, <2>2 DEF ServerInv
      <3>2. Len(Patterns) \in Nat
        BY PatternsAre DEF ServerInv
      <3>3. k < Len(Patterns) /\ Head(unmounted) = Patterns[k + 1]
        BY <1>1, <3>1, <3>2 DEF MountedUpTo
      <3>4. Tail(unmounted) = [i \in 1..(Len(Patterns) - (k + 1)) |-> Patterns[i + (k + 1)]]
        BY <3>1, <3>2, <3>3 DEF MountedUpTo
      <3>5. DOMAIN mux \cup {Head(unmounted)} = {Patterns[i] : i \in 1..(k + 1)}
        BY <3>1, <3>2, <3>3 DEF MountedUpTo
      <3>6. MountedUpTo(k + 1)'
        BY <1>2, <2>1, <3>4, <3>5 DEF MountedUpTo
      <3> QED BY <3>2, <3>3, <3>6
    <2>3. ASSUME tried > 1 PROVE Root \in DOMAIN mux' /\ EndsInRoot'
      <3>1. Root \in DOMAIN mux /\ EndsInRoot
        BY <1>1, <2>3 DEF ServerInv
      <3>2. Head(unmounted) # Root
        BY <1>4, <3>1, RootRefused
      <3>3. ASSUME NEW S, NEW root, NEW seq \in Seq(S), seq # <<>>, seq[Len(seq)] = root, Head(seq) # root
            PROVE  Tail(seq) \in Seq(S) /\ Tail(seq) # <<>> /\ Tail(seq)[Len(Tail(seq))] = root
        <4>1. Len(seq) \in Nat /\ Len(seq) > 0 /\ Head(seq) = seq[1]
          BY <3>3
        <4>2. Len(seq) > 1
          BY <3>3, <4>1
        <4>3. Tail(seq) \in Seq(S) /\ Len(Tail(seq)) = Len(seq) - 1
          BY <3>3
        <4>4. Tail(seq)[Len(seq) - 1] = seq[Len(seq)]
          BY <4>1, <4>2
        <4>5. Tail(seq) # <<>>
          <5>1. Len(Tail(seq)) # 0
            BY <4>1, <4>2, <4>3
          <5>2. Len(<<>>) = 0
            OBVIOUS
          <5> QED BY <5>1, <5>2
        <4>6. Tail(seq)[Len(Tail(seq))] = root
          BY <3>3, <4>3, <4>4
        <4> QED BY <4>3, <4>5, <4>6
      <3>4. /\ Tail(unmounted) \in Seq(Folders \cup {Root}) /\ Tail(unmounted) # <<>>
            /\ Tail(unmounted)[Len(Tail(unmounted))] = Root
        BY <3>1, <3>2, <3>3 DEF EndsInRoot
      <3> QED BY <2>1, <3>1, <3>4 DEF EndsInRoot, Root
    <2>4. PanicsOnlyOnRetry' /\ ServesOnFirstTry'
      BY <1>1, <2>1 DEF PanicsOnlyOnRetry, ServesOnFirstTry
    <2> QED BY <1>1, <1>2, <2>1, <2>2, <2>3, <2>4 DEF ServerInv
  <1> QED BY <1>3, <1>4

\* When all is mounted it is the first server call, and the routes' pattern is there.
LEMMA MountedAll ==
    ASSUME ServerInv, main = "mounts", unmounted = <<>>
    PROVE  tried = 1 /\ Root \in DOMAIN mux
  <1>1. tried = 1
    BY DEF ServerInv, EndsInRoot
  <1>2. PICK k \in 0..Len(Patterns) : MountedUpTo(k)
    BY <1>1 DEF ServerInv
  <1>3. /\ Len(Patterns) \in Nat /\ Len(Patterns) > 0
        /\ Patterns[Len(Patterns)] = Root
    BY PatternsAre DEF ServerInv
  <1>4. k = Len(Patterns)
    <2>1. PICK n : n = Len(Patterns) - k /\ n \in Nat
      BY <1>3
    <2>2. unmounted = [i \in 1..n |-> Patterns[i + k]]
      BY <1>2, <2>1 DEF MountedUpTo
    <2>3. 1..n = {}
      BY <2>2
    <2> QED BY <1>3, <2>1, <2>3
  <1>5. Len(Patterns) \in 1..k
    BY <1>3, <1>4
  <1> QED BY <1>1, <1>2, <1>3, <1>5 DEF MountedUpTo

\* All other steps leave what was mounted, or are about a further call.
LEMMA ServerStepKeeps ==
    ASSUME ServerInv, ServerStep \/ UNCHANGED serverVars
    PROVE  ServerInv'
  <1>1. ASSUME UNCHANGED <<staticRoutes, mux, unmounted, main, tried>>
        PROVE  ServerInv'
    <2>1. Patterns' = Patterns /\ (\A k : MountedUpTo(k)' = MountedUpTo(k)) /\ EndsInRoot' = EndsInRoot
      BY <1>1 DEF MountedUpTo, Patterns, EndsInRoot, Root
    <2>2. PanicsOnlyOnRetry' /\ ServesOnFirstTry'
      BY <1>1, <2>1 DEF ServerInv, PanicsOnlyOnRetry, ServesOnFirstTry
    <2> QED BY <1>1, <2>1, <2>2 DEF ServerInv
  <1>2. ASSUME main = "runs", NEW call \in Calls, RegisterRoute(call) \/ UseMiddlewares(call.path)
        PROVE  ServerInv'
    BY <1>1, <1>2 DEF RegisterRoute, UseMiddlewares
  <1>3. ASSUME main = "runs", NEW folder \in Folders, ServeStatic(folder)
        PROVE  ServerInv'
    BY <1>3 DEF ServeStatic, ServerInv, PanicsOnlyOnRetry, ServesOnFirstTry
  <1>4. CASE main = "runs" /\ CreateServer
    <2>1. /\ main' = "mounts" /\ unmounted' = Patterns /\ tried' = tried + 1
          /\ UNCHANGED <<staticRoutes, mux>> /\ Patterns' = Patterns
      BY <1>4 DEF CreateServer, Patterns, Root
    <2>2. /\ Patterns \in Seq(Folders \cup {Root}) /\ Patterns # <<>>
          /\ Len(Patterns) \in Nat /\ Patterns[Len(Patterns)] = Root
      BY PatternsAre DEF ServerInv
    <2>3. ASSUME tried' = 1 PROVE MountedUpTo(0)'
      <3>1. DOMAIN mux' = {}
        BY <2>1, <2>3 DEF ServerInv
      <3>2. Patterns = [i \in 1..(Len(Patterns) - 0) |-> Patterns[i + 0]]
        BY <2>2
      <3> QED BY <2>1, <2>2, <3>1, <3>2 DEF MountedUpTo
    <2>4. 0 \in 0..Len(Patterns)'
      BY <2>1, <2>2
    <2>5. tried' = 1 => \E k \in 0..Len(Patterns)' : MountedUpTo(k)'
      BY <2>3, <2>4
    <2>6. ASSUME tried' > 1 PROVE Root \in DOMAIN mux' /\ EndsInRoot'
      <3>1. tried \in Nat /\ tried > 0
        BY <2>1, <2>6 DEF ServerInv
      <3>2. Root \in DOMAIN mux
        BY <1>4, <3>1 DEF ServerInv
      <3>3. unmounted' \in Seq(Folders \cup {Root}) /\ unmounted' # <<>> /\ unmounted'[Len(unmounted')] = Root
        BY <2>1, <2>2
      <3>4. EndsInRoot'
        BY <3>3 DEF EndsInRoot, Root
      <3> QED BY <2>1, <3>2, <3>4
    <2>7. staticRoutes' \in Seq(Folders) /\ tried' \in Nat /\ tried' # 0
      BY <2>1 DEF ServerInv
    <2>8. main' = "mounts" /\ PanicsOnlyOnRetry' /\ ServesOnFirstTry'
      BY <2>1 DEF PanicsOnlyOnRetry, ServesOnFirstTry
    <2>9. main' \notin {"runs", "serves"} /\ Root' = Root
      BY <2>8 DEF Root
    <2> QED BY <2>5, <2>6, <2>7, <2>8, <2>9 DEF ServerInv
  <1>5. CASE Mount
    BY <1>5, MountKeeps
  <1>6. CASE Listen
    <2>1. tried = 1 /\ Root \in DOMAIN mux
      BY <1>6, MountedAll DEF Listen
    <2> QED BY <1>6, <2>1 DEF Listen, ServerInv, PanicsOnlyOnRetry, ServesOnFirstTry, Root
  <1>7. CASE StopServing
    BY <1>7 DEF StopServing, ServerInv, PanicsOnlyOnRetry, ServesOnFirstTry, Root
  <1>8. CASE Disconnect
    BY <1>1, <1>8 DEF Disconnect
  <1> QED BY <1>1, <1>2, <1>3, <1>4, <1>5, <1>6, <1>7, <1>8 DEF ServerStep, serverVars

LEMMA ServerInvariant == ServicesSpec => []ServerInv
  <1>1. ServicesInit => ServerInv
    BY DEF ServicesInit, ServerInit, ServerInv, PanicsOnlyOnRetry, ServesOnFirstTry
  <1>2. ServerInv /\ [ServicesNext]_servicesVars => ServerInv'
    <2>1. [ServicesNext]_servicesVars => ServerStep \/ UNCHANGED serverVars
      BY DEF ServicesNext, servicesVars
    <2> QED BY <2>1, ServerStepKeeps
  <1> QED BY <1>1, <1>2, PTL DEF ServicesSpec

\* The first server call of a program panics only for folders whose prefixes are
\* no patterns or do not go together, whatever routes there are.
THEOREM FirstTrySafe == ServicesSpec => []PanicsOnlyOnRetry
  <1>1. ServerInv => PanicsOnlyOnRetry
    BY DEF ServerInv
  <1> QED BY <1>1, ServerInvariant, PTL

\* No server call but the first one serves.
THEOREM NoSecondTry == ServicesSpec => []ServesOnFirstTry
  <1>1. ServerInv => ServesOnFirstTry
    BY DEF ServerInv
  <1> QED BY <1>1, ServerInvariant, PTL

-----------------------------------------------------------------------------
(* Requests.                                                               *)

Registered == [method : {Method(call.method) : call \in Calls}, path : {call.path : call \in Calls},
               handler : {call.handler : call \in Calls}, logged : BOOLEAN]

RoutesInv == registerRoutes \in Seq(Registered)

\* The routes that were there are there, but for their middlewares.
RoutesKept ==
    /\ registerRoutes \in Seq(Registered) /\ registerRoutes' \in Seq(Registered)
    /\ Len(registerRoutes) <= Len(registerRoutes')
    /\ \A i \in 1..Len(registerRoutes) :
          /\ registerRoutes'[i].method = registerRoutes[i].method
          /\ registerRoutes'[i].path = registerRoutes[i].path
          /\ registerRoutes'[i].handler = registerRoutes[i].handler

\* The first route that fits stays the first one.
LEMMA RouteKept ==
    ASSUME RoutesKept, NEW request, matchRoute(request) # 0
    PROVE  /\ matchRoute(request) \in 1..Len(registerRoutes)
           /\ matchRoute(request)' = matchRoute(request)
  <1> DEFINE n    == Len(registerRoutes)
             fit  == {i \in DOMAIN registerRoutes : Matches(registerRoutes[i], request)}
             fits == {i \in DOMAIN registerRoutes' : Matches(registerRoutes'[i], request)}
  <1>1. /\ n \in Nat /\ DOMAIN registerRoutes = 1..n /\ fit \subseteq 1..n
        /\ DOMAIN registerRoutes' = 1..Len(registerRoutes') /\ Len(registerRoutes') \in Nat
        /\ n <= Len(registerRoutes')
    BY DEF RoutesKept
  <1>2. \A i \in 1..n : Matches(registerRoutes'[i], request) = Matches(registerRoutes[i], request)
    BY DEF RoutesKept, Matches
  <1>3. fit \subseteq fits /\ \A i \in fits : i \in fit \/ i > n
    BY <1>1, <1>2
  <1>4. fit # {}
    BY DEF matchRoute
  <1>5. fits # {}
    BY <1>3, <1>4
  <1>6. /\ matchRoute(request) = CHOOSE i \in fit : \A j \in fit : i <= j
        /\ matchRoute(request)' = CHOOSE i \in fits : \A j \in fits : i <= j
    BY <1>4, <1>5 DEF matchRoute
  <1>7. fits \subseteq Nat /\ fit \subseteq Nat
    BY <1>1
  <1> HIDE DEF fit, fits, n
  <1>8. \A i : (i \in fits /\ \A j \in fits : i <= j) <=> (i \in fit /\ \A j \in fit : i <= j)
    <2>1. ASSUME NEW i \in fits, \A j \in fits : i <= j
          PROVE  i \in fit /\ \A j \in fit : i <= j
      <3>1. PICK j \in fit : j \in 1..n
        BY <1>1, <1>4
      <3>2. i <= j
        BY <1>3, <2>1, <3>1
      <3>3. ~(i > n)
        BY <1>1, <1>7, <3>1, <3>2
      <3> QED BY <1>3, <2>1, <3>3
    <2>2. ASSUME NEW i \in fit, \A j \in fit : i <= j
          PROVE  i \in fits /\ \A j \in fits : i <= j
      <3>1. i \in fits /\ i \in 1..n
        BY <1>1, <1>3
      <3>2. ASSUME NEW j \in fits PROVE i <= j
        <4>1. CASE j \in fit
          BY <2>2, <4>1
        <4>2. CASE j > n
          BY <1>1, <1>7, <3>1, <4>2
        <4> QED BY <1>3, <4>1, <4>2
      <3> QED BY <3>1, <3>2
    <2> QED BY <2>1, <2>2
  <1>9. (CHOOSE i \in fits : \A j \in fits : i <= j) = (CHOOSE i \in fit : \A j \in fit : i <= j)
    BY <1>8, Zenon
  <1>10. matchRoute(request) \in fit
    BY <1>4, <1>6, <1>7, HasLeast
  <1> QED BY <1>1, <1>6, <1>9, <1>10 DEF n

\* So an answer stays, while the mux does.
LEMMA ReplyKept ==
    ASSUME RoutesKept, UNCHANGED mux, NEW request, Reply(request) # "not found"
    PROVE  Reply(request)' = Reply(request)
  <1>1. Pattern(request.path)' = Pattern(request.path)
    BY DEF Pattern
  <1>2. CASE matchRoute(request) = 0
    BY <1>1, <1>2 DEF Reply
  <1>3. CASE matchRoute(request) # 0
    <2>1. /\ matchRoute(request)' = matchRoute(request)
          /\ registerRoutes'[matchRoute(request)].handler = registerRoutes[matchRoute(request)].handler
      BY <1>3, RouteKept DEF RoutesKept
    <2> QED BY <1>1, <1>3, <2>1 DEF Reply
  <1> QED BY <1>2, <1>3

\* A new route is behind the others.
LEMMA RegisterKeeps ==
    ASSUME RoutesInv, NEW call \in Calls, RegisterRoute(call)
    PROVE  RoutesKept /\ UNCHANGED mux
  <1>1. Route(call) \in Registered
    BY DEF Route, Registered
  <1>2. registerRoutes' = Append(registerRoutes, Route(call)) /\ UNCHANGED mux
    BY DEF RegisterRoute
  <1>3. \A routes \in Seq(Registered), route \in Registered :
            /\ Append(routes, route) \in Seq(Registered)
            /\ Len(routes) <= Len(Append(routes, route))
            /\ \A i \in 1..Len(routes) : Append(routes, route)[i] = routes[i]
    OBVIOUS
  <1> QED BY <1>1, <1>2, <1>3 DEF RoutesInv, RoutesKept

\* A middleware leaves the routes where they are.
LEMMA MiddlewaresKeep ==
    ASSUME RoutesInv, NEW path, UseMiddlewares(path)
    PROVE  RoutesKept /\ UNCHANGED mux
  <1> DEFINE Logged(i) == [registerRoutes[i] EXCEPT !.logged = @ \/ registerRoutes[i].path = path]
  <1>1. registerRoutes' = [i \in DOMAIN registerRoutes |-> Logged(i)] /\ UNCHANGED mux
    BY DEF UseMiddlewares
  <1>2. \A i \in 1..Len(registerRoutes) : registerRoutes[i] \in Registered
    BY DEF RoutesInv
  <1>3. \A i \in 1..Len(registerRoutes) :
            /\ Logged(i) \in Registered
            /\ Logged(i).method = registerRoutes[i].method
            /\ Logged(i).path = registerRoutes[i].path
            /\ Logged(i).handler = registerRoutes[i].handler
    BY <1>2 DEF Registered
  <1> HIDE DEF Logged
  <1>4. DOMAIN registerRoutes = 1..Len(registerRoutes) /\ Len(registerRoutes) \in Nat
    BY DEF RoutesInv
  <1>5. registerRoutes' \in Seq(Registered) /\ Len(registerRoutes') = Len(registerRoutes)
    BY <1>1, <1>3, <1>4
  <1> QED BY <1>1, <1>3, <1>4, <1>5 DEF RoutesInv, RoutesKept

\* What a step may do to the answers: nothing, unless server mounts.
LEMMA StepKeepsRoutes ==
    ASSUME RoutesInv, ServerStep \/ UNCHANGED serverVars
    PROVE  RoutesKept /\ (main # "mounts" => UNCHANGED mux)
  <1>1. CASE UNCHANGED registerRoutes
    <2>1. RoutesKept
      BY <1>1 DEF RoutesInv, RoutesKept
    <2>2. ASSUME main # "mounts" PROVE UNCHANGED mux \/ \E call \in Calls : RegisterRoute(call) \/ UseMiddlewares(call.path)
      BY <2>2 DEF ServerStep, serverVars, ServeStatic, CreateServer, Mount, Listen, StopServing, Disconnect
    <2> QED BY <2>1, <2>2, RegisterKeeps, MiddlewaresKeep
  <1>2. CASE \E call \in Calls : RegisterRoute(call)
    BY <1>2, RegisterKeeps
  <1>3. CASE \E call \in Calls : UseMiddlewares(call.path)
    BY <1>3, MiddlewaresKeep
  <1>4. UNCHANGED registerRoutes \/ \E call \in Calls : RegisterRoute(call) \/ UseMiddlewares(call.path)
    BY DEF ServerStep, serverVars, ServeStatic, CreateServer, Mount, Listen, StopServing, Disconnect
  <1> QED BY <1>1, <1>2, <1>3, <1>4

\* A request on an open connection keeps its answer, whatever is registered after
\* the server call has returned, unless another server call is under way.
THEOREM AnswersAlwaysKept == ServicesSpec => AnswersKept
  <1>1. ServicesInit => RoutesInv
    BY DEF ServicesInit, ServerInit, RoutesInv
  <1>2. [ServicesNext]_servicesVars => ServerStep \/ UNCHANGED serverVars
    BY DEF ServicesNext, servicesVars
  <1>3. RoutesInv /\ [ServicesNext]_servicesVars => RoutesInv'
    BY <1>2, StepKeepsRoutes DEF RoutesInv, RoutesKept
  <1>4. RoutesInv /\ [ServicesNext]_servicesVars =>
           [ \A request \in Requests :
                connected /\ main # "mounts" /\ Reply(request) # "not found" =>
                    Reply(request)' = Reply(request) ]_serverVars
    BY <1>2, StepKeepsRoutes, ReplyKept
  <1> QED BY <1>1, <1>3, <1>4, PTL DEF ServicesSpec, AnswersKept
=============================================================================
