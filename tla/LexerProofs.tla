---------------------------- MODULE LexerProofs ----------------------------
(***************************************************************************)
(* What holds of the tokens of any text: each is the longest there is at   *)
(* its place, and every character is in one of them, or is one that the    *)
(* lexer passes over.                                                      *)
(***************************************************************************)
EXTENDS Lexer, FiniteSetTheorems, SequenceTheorems, WellFoundedInduction, TLAPS

\* Any text, a character of which is a string.
Text == input \in Seq(STRING)

LexerSpec == Text /\ LexerInit /\ [][LexerNext]_lexerVars

-----------------------------------------------------------------------------
(* Places of a text.                                                       *)

LEMMA LeastOf ==
    ASSUME NEW places \in SUBSET Nat, places # {}
    PROVE  \E i \in places : \A j \in places : i <= j
<1> DEFINE less == {pair \in Nat \X Nat : pair[1] < pair[2]}
<1>1. OpToRel(<, Nat) = less
  BY DEF OpToRel
<1>2. IsWellFoundedOn(less, Nat)
  BY <1>1, NatLessThanWellFounded
<1>3. \A i, j \in Nat : <<j, i>> \in less <=> j < i
  OBVIOUS
<1> HIDE DEF less
<1>4. PICK i \in places : \A j \in places : <<j, i>> \notin less
  BY <1>2, WFMin
<1>5. ASSUME NEW j \in places PROVE i <= j
  <2>1. i \in Nat /\ j \in Nat
    OBVIOUS
  <2>2. ~ (j < i)
    BY <1>3, <1>4, <2>1
  <2>3. QED BY <2>1, <2>2
<1>6. QED BY <1>5

\* Beyond the text there are only zeros.
LEMMA Beyond ==
    ASSUME Text, NEW i \in Nat
    PROVE  /\ Len(input) \in Nat /\ DOMAIN input = 1..Len(input)
           /\ Ch(i) # Zero => i \in 1..Len(input)
           /\ i \in 1..Len(input) => Ch(i) = input[i]
           /\ i > Len(input) => Ch(i) = Zero
  BY DEF Text, Ch

\* The first place from i on of a set that has one beyond the text.
LEMMA FirstPlace ==
    ASSUME Text, NEW i \in Nat, NEW places \in SUBSET Nat,
           \A j \in Nat : j > Len(input) => j \in places
    PROVE  \E j \in i..(i + Len(input) + 1) :
              /\ j \in places /\ \A k \in i..(j - 1) : k \notin places
              /\ i <= Len(input) + 1 => j <= Len(input) + 1
<1>1. PICK n : n = Len(input) /\ n \in Nat
  BY Beyond
<1>2. PICK there : there = {j \in places : i <= j}
  OBVIOUS
<1>3. i + n + 1 \in there /\ there \in SUBSET Nat
  <2>1. i + n + 1 \in Nat /\ i + n + 1 > Len(input) /\ i <= i + n + 1
    BY <1>1
  <2>2. i + n + 1 \in places
    BY <2>1
  <2>3. QED BY <1>2, <2>1, <2>2
<1>4. PICK j \in there : \A k \in there : j <= k
  BY <1>3, LeastOf
<1>5. j \in Nat /\ i <= j /\ j <= i + n + 1 /\ j \in places
  BY <1>2, <1>3, <1>4
<1>6. \A k \in i..(j - 1) : k \notin places
  BY <1>2, <1>4, <1>5
<1>7. i <= n + 1 => j <= n + 1
  BY <1>1, <1>2, <1>4
<1>8. QED BY <1>1, <1>5, <1>6, <1>7

LEMMA FindIs ==
    ASSUME Text, NEW i \in Nat, NEW S, Zero \in S
    PROVE  /\ Find(i, S) \in Nat /\ Find(i, S) >= i /\ Ch(Find(i, S)) \in S
           /\ \A k \in i..(Find(i, S) - 1) : Ch(k) \notin S
           /\ i <= Len(input) + 1 => Find(i, S) <= Len(input) + 1
<1>1. PICK places : places = {j \in Nat : Ch(j) \in S}
  OBVIOUS
<1>2. places \in SUBSET Nat /\ \A j \in Nat : j > Len(input) => j \in places
  BY <1>1, Beyond
<1>3. PICK j \in i..(i + Len(input) + 1) :
         /\ j \in places /\ \A k \in i..(j - 1) : k \notin places
         /\ i <= Len(input) + 1 => j <= Len(input) + 1
  BY ONLY Text, i \in Nat, <1>2, FirstPlace
<1>4. Len(input) \in Nat
  BY Beyond
<1>5. \A m \in i..(i + Len(input) + 1) :
         Ch(m) \in S /\ (\A k \in i..(m - 1) : Ch(k) \notin S)
            <=> m \in places /\ (\A k \in i..(m - 1) : k \notin places)
  BY <1>1, <1>4
<1>6. Find(i, S) = j
  <2>1. Ch(j) \in S /\ \A k \in i..(j - 1) : Ch(k) \notin S
    BY <1>3, <1>5
  <2>2. ASSUME NEW m \in i..(i + Len(input) + 1), Ch(m) \in S, \A k \in i..(m - 1) : Ch(k) \notin S
        PROVE  m = j
    <3>1. ~ (m < j) /\ ~ (j < m)
      BY <1>4, <2>1, <2>2
    <3>2. QED BY <1>4, <3>1
  <2>3. QED BY <1>3, <2>1, <2>2 DEF Find
<1>7. QED BY <1>3, <1>4, <1>5, <1>6

LEMMA SkipIs ==
    ASSUME Text, NEW i \in Nat, NEW S, Zero \notin S
    PROVE  /\ Skip(i, S) \in Nat /\ Skip(i, S) >= i /\ Ch(Skip(i, S)) \notin S
           /\ \A k \in i..(Skip(i, S) - 1) : Ch(k) \in S
           /\ i <= Len(input) + 1 => Skip(i, S) <= Len(input) + 1
<1>1. PICK places : places = {j \in Nat : Ch(j) \notin S}
  OBVIOUS
<1>2. places \in SUBSET Nat /\ \A j \in Nat : j > Len(input) => j \in places
  BY <1>1, Beyond
<1>3. PICK j \in i..(i + Len(input) + 1) :
         /\ j \in places /\ \A k \in i..(j - 1) : k \notin places
         /\ i <= Len(input) + 1 => j <= Len(input) + 1
  BY ONLY Text, i \in Nat, <1>2, FirstPlace
<1>4. Len(input) \in Nat
  BY Beyond
<1>5. \A m \in i..(i + Len(input) + 1) :
         Ch(m) \notin S /\ (\A k \in i..(m - 1) : Ch(k) \in S)
            <=> m \in places /\ (\A k \in i..(m - 1) : k \notin places)
  BY <1>1, <1>4
<1>6. Skip(i, S) = j
  <2>1. Ch(j) \notin S /\ \A k \in i..(j - 1) : Ch(k) \in S
    BY <1>3, <1>5
  <2>2. ASSUME NEW m \in i..(i + Len(input) + 1), Ch(m) \notin S, \A k \in i..(m - 1) : Ch(k) \in S
        PROVE  m = j
    <3>1. ~ (m < j) /\ ~ (j < m)
      BY <1>4, <2>1, <2>2
    <3>2. QED BY <1>4, <3>1
  <2>3. QED BY <1>3, <2>1, <2>2 DEF Skip
<1>7. QED BY <1>3, <1>4, <1>5, <1>6

-----------------------------------------------------------------------------
(* White space and comments.                                               *)

CommentAt(i) == Ch(i) = "/" /\ Ch(i + 1) = "/"

\* Where NextToken starts again after a comment.
CommentEnd(i) == Find(i + 1, {"\n", Zero})

\* The equation of SkipWhitespace, of f.
Passed(f, i) ==
    IF CommentAt(Skip(i, Blank)) THEN f[CommentEnd(Skip(i, Blank))] ELSE Skip(i, Blank)

LEMMA BlankIs == Zero \notin Blank /\ "/" \notin Blank /\ "/" # Zero /\ Zero \in {"\n", Zero}
  BY DEF Blank, Zero

\* The recursion goes on in the text.
LEMMA CommentIs ==
    ASSUME Text, NEW i \in Nat
    PROVE  LET start == Skip(i, Blank)
           IN  /\ start \in Nat /\ start >= i
               /\ CommentAt(start) =>
                     /\ start \in 1..Len(input) /\ i \in 0..Len(input)
                     /\ CommentEnd(start) \in Nat /\ CommentEnd(start) > start
                     /\ \A k \in start..(CommentEnd(start) - 1) : Ch(k) # "\n"
<1>1. PICK start : start = Skip(i, Blank)
  OBVIOUS
<1>2. start \in Nat /\ start >= i
  BY <1>1, BlankIs, SkipIs
<1>3. ASSUME CommentAt(start)
      PROVE  /\ start \in 1..Len(input) /\ i \in 0..Len(input)
             /\ CommentEnd(start) \in Nat /\ CommentEnd(start) > start
             /\ \A k \in start..(CommentEnd(start) - 1) : Ch(k) # "\n"
  <2>1. Ch(start) = "/" /\ Ch(start) # Zero
    BY <1>3, BlankIs DEF CommentAt
  <2>2. start \in 1..Len(input) /\ Len(input) \in Nat
    BY <1>2, <2>1, Beyond
  <2>3. /\ CommentEnd(start) \in Nat /\ CommentEnd(start) >= start + 1
        /\ \A k \in (start + 1)..(CommentEnd(start) - 1) : Ch(k) \notin {"\n", Zero}
    BY <1>2, BlankIs, FindIs, SMTT(30) DEF CommentEnd
  <2>4. ASSUME NEW k \in start..(CommentEnd(start) - 1) PROVE Ch(k) # "\n"
    <3>1. CASE k = start
      BY <2>1, <3>1
    <3>2. CASE k # start
      BY <1>2, <2>3, <3>2
    <3>3. QED BY <3>1, <3>2
  <2>5. QED BY <1>2, <2>2, <2>3, <2>4
<1>4. QED BY <1>1, <1>2, <1>3

\* The equation has a solution from any place near the end of the text on.
LEMMA PassedExists ==
    ASSUME Text, NEW n \in Nat
    PROVE  \E f : \A i \in Nat : i + n > Len(input) => f[i] = Passed(f, i)
<1> DEFINE Solved(m) == \E f : \A i \in Nat : i + m > Len(input) => f[i] = Passed(f, i)
           bad == {m \in Nat : ~Solved(m)}
<1> SUFFICES ASSUME bad # {} PROVE FALSE
  BY DEF bad
<1>1. PICK m \in bad : \A j \in bad : m <= j
  BY LeastOf
<1>2. PICK len : len = Len(input) /\ len \in Nat
  BY Beyond
<1>3. m \in Nat /\ ~Solved(m)
  OBVIOUS
<1> HIDE DEF bad
<1>4. ASSUME NEW k \in Nat, k < m PROVE Solved(k)
  <2>1. k \notin bad
    BY <1>1, <1>3, <1>4
  <2>2. QED BY <1>4, <2>1 DEF bad
<1>5. PICK f : \A i \in Nat : i + m > len + 1 => f[i] = Passed(f, i)
  <2>1. CASE m = 0
    <3>1. PICK f : f = [i \in Nat |-> Skip(i, Blank)]
      OBVIOUS
    <3>2. ASSUME NEW i \in Nat, i + m > len + 1 PROVE f[i] = Passed(f, i)
      <4>1. ~CommentAt(Skip(i, Blank))
        BY <1>2, <2>1, <3>2, CommentIs
      <4>2. QED BY <3>1, <4>1 DEF Passed
    <3>3. QED BY <3>2
  <2>2. CASE m > 0
    <3>1. PICK k : k = m - 1 /\ k \in Nat /\ k < m
      BY <1>3, <2>2
    <3>2. PICK f : \A i \in Nat : i + k > Len(input) => f[i] = Passed(f, i)
      BY <1>4, <3>1
    <3>3. \A i \in Nat : i + m > len + 1 => i + k > Len(input)
      BY <1>2, <1>3, <3>1
    <3>4. QED BY <3>2, <3>3
  <2>3. QED BY <1>3, <2>1, <2>2
<1>6. PICK g : g = [i \in Nat |-> IF i + m > len + 1 THEN f[i] ELSE Passed(f, i)]
  OBVIOUS
<1>7. ASSUME NEW i \in Nat, i + m > len PROVE g[i] = Passed(g, i)
  <2>1. g[i] = Passed(f, i)
    BY <1>5, <1>6
  <2>2. PICK start, end : start = Skip(i, Blank) /\ end = CommentEnd(start)
    OBVIOUS
  <2>3. CommentAt(start) => end \in Nat /\ end > i
    BY <2>2, CommentIs
  <2>4. CommentAt(start) => end + m > len + 1
    BY ONLY <1>2, <1>7, <1>3, <2>3
  <2>5. CommentAt(start) => g[end] = f[end]
    BY <1>6, <2>3, <2>4
  <2>6. QED BY <2>1, <2>2, <2>5 DEF Passed
<1>8. QED BY <1>2, <1>7, <1>3

LEMMA SkipWhitespaceIs ==
    ASSUME Text, NEW i \in Nat
    PROVE  SkipWhitespace[i] = Passed(SkipWhitespace, i)
<1>1. PICK f : \A j \in Nat : j + (Len(input) + 1) > Len(input) => f[j] = Passed(f, j)
  <2>1. Len(input) + 1 \in Nat
    BY Beyond
  <2>2. QED BY <2>1, PassedExists
<1>2. \A j \in Nat : f[j] = Passed(f, j)
  BY <1>1, Beyond
<1>3. PICK g : g = [j \in Nat |-> f[j]]
  OBVIOUS
<1>4. \A j \in Nat : Passed(g, j) = Passed(f, j)
  <2>1. ASSUME NEW j \in Nat PROVE Passed(g, j) = Passed(f, j)
    <3>1. CommentAt(Skip(j, Blank)) => CommentEnd(Skip(j, Blank)) \in Nat
      BY CommentIs
    <3>2. QED BY <1>3, <3>1 DEF Passed
  <2>2. QED BY <2>1
<1>5. g = [j \in Nat |-> Passed(g, j)]
  BY <1>2, <1>3, <1>4
<1>6. g = [j \in Nat |->
             LET start == Skip(j, Blank)
             IN  IF Ch(start) = "/" /\ Ch(start + 1) = "/"
                 THEN g[Find(start + 1, {"\n", Zero})]
                 ELSE start]
  BY <1>5 DEF Passed, CommentAt, CommentEnd
<1>7. SkipWhitespace = [j \in Nat |->
             LET start == Skip(j, Blank)
             IN  IF Ch(start) = "/" /\ Ch(start + 1) = "/"
                 THEN SkipWhitespace[Find(start + 1, {"\n", Zero})]
                 ELSE start]
  BY ONLY <1>6, Zenon DEF SkipWhitespace
<1>8. QED BY <1>7 DEF Passed, CommentAt, CommentEnd

\* What the lexer passes over: white space, and comments to the end of their line.
Passable(k) == Ch(k) \in Blank \/ Comment(k)

PassedOver(i, start) ==
    /\ start \in Nat /\ start >= i
    /\ Ch(start) \notin Blank /\ ~CommentAt(start)
    /\ \A k \in i..(start - 1) : Passable(k)

LEMMA CommentAll ==
    ASSUME NEW start \in Nat \ {0}, CommentAt(start), NEW end \in Nat,
           \A k \in start..(end - 1) : Ch(k) # "\n"
    PROVE  \A k \in start..(end - 1) : Comment(k)
<1>1. ASSUME NEW k \in start..(end - 1) PROVE Comment(k)
  <2>1. start \in 1..k /\ \A j \in start..k : Ch(j) # "\n"
    OBVIOUS
  <2>2. <<Ch(start), Ch(start + 1)>> = <<"/", "/">>
    BY DEF CommentAt
  <2>3. QED BY <2>1, <2>2 DEF Comment
<1>2. QED BY <1>1

LEMMA WhitespacePassed ==
    ASSUME Text, NEW i \in Nat
    PROVE  PassedOver(i, SkipWhitespace[i])
<1> DEFINE Fails(m) == \E j \in Nat : j + m > Len(input) /\ ~PassedOver(j, SkipWhitespace[j])
           bad == {m \in Nat : Fails(m)}
<1>1. PICK len : len = Len(input) /\ len \in Nat
  BY Beyond
<1> SUFFICES ASSUME ~PassedOver(i, SkipWhitespace[i]) PROVE FALSE
  OBVIOUS
<1>2. len + 1 \in Nat /\ i + (len + 1) > Len(input)
  BY <1>1
<1>3. len + 1 \in bad
  BY <1>2
<1>4. PICK m \in bad : \A j \in bad : m <= j
  BY <1>3, LeastOf
<1>5. PICK j \in Nat : j + m > Len(input) /\ ~PassedOver(j, SkipWhitespace[j])
  BY <1>4
<1>6. m \in Nat
  OBVIOUS
<1> HIDE DEF bad
<1>7. PICK start, end : start = Skip(j, Blank) /\ end = CommentEnd(start)
  OBVIOUS
<1>8. /\ start \in Nat /\ start >= j /\ Ch(start) \notin Blank
      /\ \A k \in j..(start - 1) : Ch(k) \in Blank
  BY <1>7, BlankIs, SkipIs
<1>9. SkipWhitespace[j] = IF CommentAt(start) THEN SkipWhitespace[end] ELSE start
  BY <1>7, SkipWhitespaceIs DEF Passed
<1>10. CommentAt(start)
  <2>1. ASSUME ~CommentAt(start) PROVE PassedOver(j, start)
    BY <1>8, <2>1 DEF PassedOver, Passable
  <2>2. QED BY <1>5, <1>9, <2>1
<1>11. /\ start \in 1..len /\ j \in 0..len /\ end \in Nat /\ end > start
       /\ \A k \in start..(end - 1) : Ch(k) # "\n"
  BY <1>1, <1>7, <1>10, CommentIs
<1>12. PICK less : less = m - 1 /\ less \in Nat /\ less < m
  BY <1>1, <1>5, <1>6, <1>11
<1>13. less \notin bad
  BY <1>4, <1>6, <1>12
<1>14. end + less > Len(input)
  BY ONLY <1>1, <1>5, <1>6, <1>8, <1>11, <1>12
<1>15. PICK to : to = SkipWhitespace[end]
  OBVIOUS
<1>16. PassedOver(end, to)
  BY <1>11, <1>12, <1>13, <1>14, <1>15 DEF bad
<1>17. \A k \in start..(end - 1) : Comment(k)
  BY <1>10, <1>11, CommentAll
<1>18. PassedOver(j, to)
  <2>1. to \in Nat /\ to >= j /\ Ch(to) \notin Blank /\ ~CommentAt(to)
    BY <1>8, <1>11, <1>16 DEF PassedOver
  <2>2. ASSUME NEW k \in j..(to - 1) PROVE Passable(k)
    <3>1. k \in j..(start - 1) \/ k \in start..(end - 1) \/ k \in end..(to - 1)
      BY <1>8, <1>11, <2>1
    <3>2. QED BY <1>8, <1>16, <1>17, <3>1 DEF Passable, PassedOver
  <2>3. QED BY <2>1, <2>2 DEF PassedOver
<1>19. QED BY <1>5, <1>9, <1>10, <1>15, <1>18

-----------------------------------------------------------------------------
(* Lexemes.                                                                *)

\* That the n characters from i on are a lexeme, in places of the text.
LexemeAt(i, n) ==
    \/ n = 1
    \/ n = 2 /\ PairType(<<Ch(i), Ch(i + 1)>>) # "ILLEGAL"
    \/ Ch(i) \in Letters /\ \A k \in i..(i + n - 1) : Ch(k) \in Letters \cup Digits
    \/ /\ Ch(i) \in Digits
       /\ \A k \in i..(i + n - 1) : Ch(k) \in Digits \cup {"."}
       /\ \A j, k \in i..(i + n - 1) : Ch(j) = "." /\ Ch(k) = "." => j = k
    \/ Ch(i) = Quote /\ \A k \in (i + 1)..(i + n - 2) : Ch(k) \notin {Quote, Zero}

LEMMA PrefixIs ==
    ASSUME Text, NEW i \in 1..Len(input), NEW n \in 1..(Len(input) - i + 1)
    PROVE  LET text == SubSeq(input, i, Len(input))
               word == SubSeq(text, 1, n)
           IN  /\ Len(text) = Len(input) - i + 1 /\ Len(word) = n
               /\ \A k \in 1..n : word[k] = Ch(i + k - 1)
<1>1. PICK len : len = Len(input) /\ len \in Nat
  BY Beyond
<1>2. PICK text, word : text = SubSeq(input, i, len) /\ word = SubSeq(text, 1, n)
  OBVIOUS
<1>3. /\ text \in Seq(STRING) /\ Len(text) = len - i + 1
      /\ \A k \in 1..(len - i + 1) : text[k] = input[i + k - 1]
  BY <1>1, <1>2, SubSeqProperties DEF Text
<1>4. Len(word) = n /\ \A k \in 1..n : word[k] = text[k]
  BY <1>1, <1>2, <1>3, SubSeqProperties
<1>5. \A k \in 1..n : word[k] = Ch(i + k - 1)
  BY <1>1, <1>3, <1>4, Beyond, SMTT(30)
<1>6. QED BY <1>1, <1>2, <1>3, <1>4, <1>5

LEMMA LexemeIs ==
    ASSUME Text, NEW i \in 1..Len(input), NEW n \in 1..(Len(input) - i + 1)
    PROVE  Lexeme(SubSeq(SubSeq(input, i, Len(input)), 1, n)) <=> LexemeAt(i, n)
<1>1. PICK word : word = SubSeq(SubSeq(input, i, Len(input)), 1, n)
  OBVIOUS
<1>2. Len(word) = n /\ \A k \in 1..n : word[k] = Ch(i + k - 1)
  BY <1>1, PrefixIs
<1>3. i \in Nat /\ n \in Nat /\ n >= 1
  BY Beyond
<1>4. \A k \in i..(i + n - 1) : k - i + 1 \in 1..n /\ word[k - i + 1] = Ch(k)
  BY <1>2, <1>3
<1>5. word[1] = Ch(i) /\ (n = 2 => word[2] = Ch(i + 1))
  BY <1>2, <1>3
<1>6. DOMAIN word = 1..n
  <2>1. SubSeq(input, i, Len(input)) \in Seq(STRING)
    BY <1>3, Beyond, SubSeqProperties DEF Text
  <2>2. word \in Seq(STRING)
    BY <1>1, <1>2, <1>3, <2>1, PrefixIs, SubSeqProperties
  <2>3. QED BY <1>2, <2>2
<1>7. (\A k \in DOMAIN word : word[k] \in Letters \cup Digits)
        <=> \A k \in i..(i + n - 1) : Ch(k) \in Letters \cup Digits
  BY <1>2, <1>3, <1>4, <1>6
<1>8. (\A k \in DOMAIN word : word[k] \in Digits \cup {"."})
        <=> \A k \in i..(i + n - 1) : Ch(k) \in Digits \cup {"."}
  BY <1>2, <1>3, <1>4, <1>6
<1>9. (\A j, k \in DOMAIN word : word[j] = "." /\ word[k] = "." => j = k)
        <=> \A j, k \in i..(i + n - 1) : Ch(j) = "." /\ Ch(k) = "." => j = k
  <2>1. ASSUME \A j, k \in DOMAIN word : word[j] = "." /\ word[k] = "." => j = k,
               NEW j \in i..(i + n - 1), NEW k \in i..(i + n - 1), Ch(j) = "." /\ Ch(k) = "."
        PROVE  j = k
    <3>1. j - i + 1 = k - i + 1
      BY <1>4, <1>6, <2>1
    <3>2. QED BY <1>3, <3>1
  <2>2. ASSUME \A j, k \in i..(i + n - 1) : Ch(j) = "." /\ Ch(k) = "." => j = k,
               NEW j \in DOMAIN word, NEW k \in DOMAIN word, word[j] = "." /\ word[k] = "."
        PROVE  j = k
    <3>1. /\ i + j - 1 \in i..(i + n - 1) /\ Ch(i + j - 1) = "."
          /\ i + k - 1 \in i..(i + n - 1) /\ Ch(i + k - 1) = "."
      BY <1>2, <1>3, <1>6, <2>2
    <3>2. i + j - 1 = i + k - 1
      BY <2>2, <3>1
    <3>3. QED BY <1>3, <1>6, <3>2
  <2>3. QED BY <2>1, <2>2
<1>10. (\A k \in 2..(n - 1) : word[k] \notin {Quote, Zero})
        <=> \A k \in (i + 1)..(i + n - 2) : Ch(k) \notin {Quote, Zero}
  BY <1>2, <1>3, <1>4, <1>6
<1>11. Lexeme(word) <=> LexemeAt(i, n)
  BY <1>2, <1>5, <1>7, <1>8, <1>9, <1>10 DEF Lexeme, LexemeAt
<1>12. QED BY <1>1, <1>11

\* The n characters from i on are the longest lexeme there.
Longest(i, n) ==
    /\ n \in 1..(Len(input) - i + 1) /\ LexemeAt(i, n)
    /\ \A m \in (n + 1)..(Len(input) - i + 1) : ~LexemeAt(i, m)

\* t is what the lexer reads at i, the last of its places included: those in the
\* text are the longest lexeme there.  A <= takes one character more along.
Reads(t, i, last) ==
    /\ t.from = i /\ t.to \in Nat /\ last \in Nat /\ i <= last
    /\ Extent(t) = i..last
    /\ \/ last = t.to - 1
       \/ last = t.to - 2 /\ last = i + 1 /\ <<Ch(i), Ch(i + 1)>> = <<"<", "=">>
    /\ t.type # "EOF" =>
          \E n \in Nat : Longest(i, n) /\ \A k \in 1..Len(input) : k <= last <=> k <= i + n - 1

Apart == {Quote, Zero, "=", "."} \cup Singles

LEMMA LettersApart ==
    /\ Letters \cap Digits = {}
    /\ \A c \in Letters \cup Digits : c \notin Apart /\ c \notin Blank
    /\ Quote \notin Singles /\ Zero \notin Singles /\ Quote # Zero /\ Zero # "=" /\ "." \in Singles
    /\ Quote # "=" /\ "=" \notin Singles
<1>1. /\ Quote \notin Singles /\ Zero \notin Singles /\ Quote # Zero /\ Zero # "=" /\ "." \in Singles
      /\ Quote # "=" /\ "=" \notin Singles
  BY DEF Quote, Zero, Singles
<1>2. QED BY <1>1, LexerAssumption DEF Apart

\* Two characters that are a token begin with one of these, and end with one.
LEMMA PairIs ==
    ASSUME NEW a, NEW b, PairType(<<a, b>>) # "ILLEGAL"
    PROVE  /\ a \in Singles \cup {"="} /\ b \in Singles \cup {"="}
           /\ PairType(<<a, b>>) \notin {"STRING", "EOF"}
           /\ PairType(<<a, b>>) = "<=" <=> <<a, b>> = <<"<", "=">>
  BY DEF PairType, Singles

LEMMA PartIs ==
    ASSUME Text, NEW i \in 1..Len(input), NEW to \in i..(Len(input) + 1)
    PROVE  Len(SubSeq(input, i, to - 1)) = to - i
  BY Beyond, SubSeqProperties DEF Text

LEMMA PairRead ==
    ASSUME Text, NEW i \in Nat \ {0}, PairType(<<Ch(i), Ch(i + 1)>>) # "ILLEGAL"
    PROVE  Reads(TokenAt(i), i, i + 1)
<1>1. PICK pair, t : pair = PairType(<<Ch(i), Ch(i + 1)>>) /\ t = TokenAt(i)
  OBVIOUS
<1>2. /\ Ch(i) \in Singles \cup {"="} /\ Ch(i + 1) \in Singles \cup {"="}
      /\ pair \notin {"STRING", "EOF", "ILLEGAL"}
      /\ pair = "<=" <=> <<Ch(i), Ch(i + 1)>> = <<"<", "=">>
  BY <1>1, PairIs
<1>3. PICK len : len = Len(input) /\ len \in Nat
  BY Beyond
<1>4. i \in 1..len /\ i + 1 \in 1..len
  BY <1>2, <1>3, Beyond, LettersApart
<1>5. /\ t.from = i /\ t.type = pair /\ t.literal = SubSeq(input, i, i + 2 - 1)
      /\ t.to = IF pair = "<=" THEN i + 3 ELSE i + 2
  <2>1. Ch(i) \notin Letters \cup Digits /\ Ch(i) # Quote /\ Ch(i) # Zero
    BY <1>2, LettersApart DEF Apart
  <2>2. t = TokenOf(pair, SubSeq(input, i, i + 2 - 1), i, IF pair = "<=" THEN i + 3 ELSE i + 2)
    BY <1>1, <1>2, <2>1 DEF TokenAt
  <2>3. QED BY <2>2 DEF TokenOf
<1>6. Len(t.literal) = 2
  <2>1. i + 2 \in i..(len + 1)
    BY <1>3, <1>4
  <2>2. QED BY <1>3, <1>4, <1>5, <2>1, PartIs
<1>7. Extent(t) = i..(i + 1)
  BY <1>2, <1>3, <1>4, <1>5, <1>6 DEF Extent
<1>8. Longest(i, 2)
  <2>1. 2 \in 1..(len - i + 1) /\ LexemeAt(i, 2)
    BY <1>1, <1>2, <1>3, <1>4 DEF LexemeAt
  <2>2. Ch(i) \notin Letters /\ Ch(i) \notin Digits /\ Ch(i) # Quote
    BY <1>2, LettersApart DEF Apart
  <2>3. \A m \in 3..(len - i + 1) : ~LexemeAt(i, m)
    BY <1>3, <1>4, <2>2 DEF LexemeAt
  <2>4. QED BY <1>3, <2>1, <2>3 DEF Longest
<1>9. \A k \in 1..Len(input) : k <= i + 1 <=> k <= i + 2 - 1
  BY <1>3
<1>10. QED BY <1>1, <1>2, <1>5, <1>7, <1>8, <1>9 DEF Reads

LEMMA SingleRead ==
    ASSUME Text, NEW i \in Nat \ {0}, PairType(<<Ch(i), Ch(i + 1)>>) = "ILLEGAL",
           Ch(i) \notin Letters \cup Digits, Ch(i) # Quote, Ch(i) # Zero
    PROVE  Reads(TokenAt(i), i, i)
<1>1. PICK t : t = TokenAt(i)
  OBVIOUS
<1>2. PICK len : len = Len(input) /\ len \in Nat
  BY Beyond
<1>3. i \in 1..len
  BY <1>2, Beyond
<1>4. /\ t.from = i /\ t.type \in Singles \cup {"ILLEGAL"}
      /\ t.literal = SubSeq(input, i, i + 1 - 1) /\ t.to = i + 1
  <2>1. CASE Ch(i) \in Singles
    <3>1. t = TokenOf(Ch(i), SubSeq(input, i, i + 1 - 1), i, i + 1)
      BY <1>1, <2>1 DEF TokenAt
    <3>2. QED BY <2>1, <3>1 DEF TokenOf
  <2>2. CASE Ch(i) \notin Singles
    <3>1. t = TokenOf("ILLEGAL", SubSeq(input, i, i + 1 - 1), i, i + 1)
      BY <1>1, <2>2 DEF TokenAt
    <3>2. QED BY <3>1 DEF TokenOf
  <2>3. QED BY <2>1, <2>2
<1>5. t.type \notin {"STRING", "EOF"}
  BY <1>4 DEF Singles
<1>6. Len(t.literal) = 1
  <2>1. i + 1 \in i..(len + 1)
    BY <1>2, <1>3
  <2>2. QED BY <1>2, <1>3, <1>4, <2>1, PartIs
<1>7. Extent(t) = i..i
  BY <1>2, <1>3, <1>4, <1>5, <1>6 DEF Extent
<1>8. Longest(i, 1)
  <2>1. 1 \in 1..(len - i + 1) /\ LexemeAt(i, 1)
    BY <1>2, <1>3 DEF LexemeAt
  <2>2. \A m \in 2..(len - i + 1) : ~LexemeAt(i, m)
    BY <1>2, <1>3 DEF LexemeAt
  <2>3. QED BY <1>2, <2>1, <2>2 DEF Longest
<1>9. \A k \in 1..Len(input) : k <= i <=> k <= i + 1 - 1
  BY <1>2
<1>10. QED BY <1>1, <1>4, <1>7, <1>8, <1>9 DEF Reads

LEMMA EndRead ==
    ASSUME NEW i \in Nat \ {0}, Ch(i) = Zero
    PROVE  TokenAt(i).type = "EOF" /\ Reads(TokenAt(i), i, i)
<1>1. PICK t : t = TokenAt(i)
  OBVIOUS
<1>2. PairType(<<Ch(i), Ch(i + 1)>>) = "ILLEGAL"
  BY PairIs, LettersApart
<1>3. t = TokenOf("EOF", <<>>, i, i + 1)
  <2>1. Zero \notin Letters \cup Digits /\ Zero \notin Singles /\ Zero # Quote
    BY LettersApart DEF Apart
  <2>2. QED BY <1>1, <1>2, <2>1 DEF TokenAt
<1>4. t.from = i /\ t.type = "EOF" /\ t.to = i + 1 /\ Len(t.literal) = 0
  BY <1>3 DEF TokenOf
<1>5. Extent(t) = i..i
  BY <1>4 DEF Extent
<1>6. QED BY <1>1, <1>4, <1>5 DEF Reads

LEMMA NameRead ==
    ASSUME Text, NEW i \in Nat \ {0}, Ch(i) \in Letters
    PROVE  \E last : Reads(TokenAt(i), i, last)
<1>1. PICK t, to : t = TokenAt(i) /\ to = ReadIdentifier(i)
  OBVIOUS
<1>2. PICK len : len = Len(input) /\ len \in Nat
  BY Beyond
<1>3. /\ Ch(i) \notin Singles \cup {"="} /\ Ch(i) \notin Digits
      /\ Ch(i) # Quote /\ Ch(i) # Zero
  BY LettersApart DEF Apart
<1>4. i \in 1..len
  BY <1>2, <1>3, Beyond
<1>5. PairType(<<Ch(i), Ch(i + 1)>>) = "ILLEGAL"
  BY <1>3, PairIs
<1>6. /\ to \in Nat /\ to >= i /\ to <= len + 1 /\ Ch(to) \notin Letters \cup Digits
      /\ \A k \in i..(to - 1) : Ch(k) \in Letters \cup Digits
  <2>1. PICK S : S = Letters \cup Digits /\ Zero \notin S
    BY LettersApart DEF Apart
  <2>2. i <= Len(input) + 1
    BY <1>2, <1>4
  <2>3. to = Skip(i, S)
    BY <1>1, <2>1 DEF ReadIdentifier
  <2>4. /\ to \in Nat /\ to >= i /\ to <= Len(input) + 1 /\ Ch(to) \notin S
        /\ \A k \in i..(to - 1) : Ch(k) \in S
    BY ONLY Text, i \in Nat \ {0}, <2>1, <2>2, <2>3, SkipIs
  <2>5. QED BY <1>2, <2>1, <2>4
<1>7. to > i
  BY <1>6
<1>8. t = TokenOf(LookupIdent(SubSeq(input, i, to - 1)), SubSeq(input, i, to - 1), i, to)
  BY <1>1, <1>3, <1>5 DEF TokenAt
<1>9. \A word : LookupIdent(word) \notin {"STRING", "EOF"}
  <2>1. ASSUME NEW word PROVE LookupIdent(word) \notin {"STRING", "EOF"}
    <3>1. \A k \in Keywords : k[2] \notin {"STRING", "EOF"}
      BY DEF Keywords
    <3>2. QED BY <3>1 DEF LookupIdent
  <2>2. QED BY <2>1
<1>10. /\ t.from = i /\ t.to = to /\ t.literal = SubSeq(input, i, to - 1)
       /\ t.type \notin {"STRING", "EOF"}
  BY <1>8, <1>9 DEF TokenOf
<1>11. Len(t.literal) = to - i
  BY <1>2, <1>4, <1>6, <1>10, PartIs
<1>12. Extent(t) = i..(to - 1)
  BY <1>4, <1>6, <1>10, <1>11 DEF Extent
<1>13. Longest(i, to - i)
  <2>1. to - i \in 1..(len - i + 1) /\ LexemeAt(i, to - i)
    BY <1>2, <1>4, <1>6, <1>7 DEF LexemeAt
  <2>2. ASSUME NEW m \in (to - i + 1)..(len - i + 1), LexemeAt(i, m) PROVE FALSE
    <3>1. m >= 2 /\ to \in i..(i + m - 1)
      BY <1>2, <1>4, <1>6, <1>7
    <3>2. QED BY <1>3, <1>5, <1>6, <2>2, <3>1 DEF LexemeAt
  <2>3. QED BY <1>2, <2>1, <2>2 DEF Longest
<1>14. /\ to - i \in Nat /\ to - 1 \in Nat /\ i <= to - 1 /\ i + (to - i) - 1 = to - 1
  BY <1>4, <1>6, <1>7
<1>15. Reads(t, i, to - 1)
  BY <1>6, <1>10, <1>12, <1>13, <1>14 DEF Reads
<1>16. QED BY <1>1, <1>15

LEMMA StringRead ==
    ASSUME Text, NEW i \in Nat \ {0}, Ch(i) = Quote
    PROVE  \E last : Reads(TokenAt(i), i, last)
<1>1. PICK t, end : t = TokenAt(i) /\ end = ReadString(i)
  OBVIOUS
<1>2. PICK len : len = Len(input) /\ len \in Nat
  BY Beyond
<1>3. Ch(i) \notin Singles \cup {"="} /\ Ch(i) # Zero /\ Ch(i) \notin Letters \cup Digits
  BY LettersApart DEF Apart
<1>4. i \in 1..len
  BY <1>2, <1>3, Beyond
<1>5. PairType(<<Ch(i), Ch(i + 1)>>) = "ILLEGAL"
  BY <1>3, PairIs
<1>6. /\ end \in Nat /\ end >= i + 1 /\ end <= len + 1 /\ Ch(end) \in {Quote, Zero}
      /\ \A k \in (i + 1)..(end - 1) : Ch(k) \notin {Quote, Zero}
  <2>1. i + 1 \in Nat /\ i + 1 <= Len(input) + 1
    BY <1>2, <1>4
  <2>2. QED BY <1>1, <1>2, <2>1, FindIs DEF ReadString
<1>7. t = TokenOf("STRING", SubSeq(input, i + 1, end - 1), i, end + 1)
  BY <1>1, <1>3, <1>5 DEF TokenAt
<1>8. /\ t.from = i /\ t.to = end + 1 /\ t.type = "STRING"
      /\ t.literal = SubSeq(input, i + 1, end - 1)
  BY <1>7 DEF TokenOf
<1>9. Len(t.literal) = end - 1 - i
  BY <1>2, <1>4, <1>6, <1>8, SubSeqProperties DEF Text
<1>10. Extent(t) = i..end
  BY <1>4, <1>6, <1>8, <1>9 DEF Extent
<1>11. PICK n : n = (IF end <= len THEN end ELSE len) - i + 1
  OBVIOUS
<1>12. n \in 1..(len - i + 1) /\ (n < len - i + 1 => n = end - i + 1)
  BY <1>2, <1>4, <1>6, <1>11
<1>13. \A k \in 1..Len(input) : k <= end <=> k <= i + n - 1
  BY <1>2, <1>4, <1>6, <1>11
<1>14. Longest(i, n)
  <2>1. LexemeAt(i, n)
    <3>1. \A k \in (i + 1)..(i + n - 2) : k \in (i + 1)..(end - 1)
      BY <1>2, <1>4, <1>6, <1>11
    <3>2. QED BY <1>6, <3>1 DEF LexemeAt
  <2>2. ASSUME NEW m \in (n + 1)..(len - i + 1), LexemeAt(i, m) PROVE FALSE
    <3>1. n = end - i + 1 /\ m >= 2
      BY <1>2, <1>4, <1>12
    <3>2. end \in (i + 1)..(i + m - 2)
      BY <1>2, <1>4, <1>6, <3>1
    <3>3. QED BY <1>3, <1>5, <1>6, <2>2, <3>1, <3>2 DEF LexemeAt
  <2>3. QED BY <1>2, <1>12, <2>1, <2>2 DEF Longest
<1>15. n \in Nat /\ end \in Nat /\ i <= end /\ end = t.to - 1 /\ t.to \in Nat
  BY <1>2, <1>4, <1>6, <1>8, <1>12
<1>16. Reads(t, i, end)
  BY <1>8, <1>10, <1>13, <1>14, <1>15 DEF Reads
<1>17. QED BY <1>1, <1>16

\* A number with the point it may have: the places read and what stops it.
LEMMA NumberPlaces ==
    ASSUME Text, NEW i \in 1..Len(input), Ch(i) \in Digits
    PROVE  LET to == ReadNumber(i)
           IN  /\ to \in Nat /\ to > i /\ to <= Len(input) + 1 /\ Ch(to) \notin Digits
               /\ \A k \in i..(to - 1) : Ch(k) \in Digits \cup {"."}
               /\ \A j, k \in i..(to - 1) : Ch(j) = "." /\ Ch(k) = "." => j = k
               /\ Ch(to) = "." => \E j \in i..(to - 1) : Ch(j) = "."
<1>1. PICK len : len = Len(input) /\ len \in Nat
  BY Beyond
<1>2. "." \notin Digits /\ Zero \notin Digits /\ "." # Zero
  BY LettersApart DEF Apart
<1>3. PICK point : point = Skip(i, Digits)
  OBVIOUS
<1>4. /\ point \in Nat /\ point >= i /\ point <= len + 1 /\ Ch(point) \notin Digits
      /\ \A k \in i..(point - 1) : Ch(k) \in Digits
  <2>1. i \in Nat /\ i <= Len(input) + 1
    BY <1>1
  <2>2. QED BY <1>1, <1>2, <1>3, <2>1, SkipIs
<1>5. point > i
  BY <1>1, <1>4
<1>6. CASE Ch(point) # "."
  <2>1. ReadNumber(i) = point
    BY <1>3, <1>6 DEF ReadNumber
  <2>2. QED BY <1>1, <1>2, <1>4, <1>5, <1>6, <2>1
<1>7. CASE Ch(point) = "."
  <2>1. PICK to : to = Skip(point + 1, Digits)
    OBVIOUS
  <2>2. point \in 1..len
    BY <1>1, <1>2, <1>4, <1>7, Beyond
  <2>3. /\ to \in Nat /\ to >= point + 1 /\ to <= len + 1 /\ Ch(to) \notin Digits
        /\ \A k \in (point + 1)..(to - 1) : Ch(k) \in Digits
    <3>1. point + 1 \in Nat /\ point + 1 <= Len(input) + 1
      BY <1>1, <2>2
    <3>2. QED BY <1>1, <1>2, <2>1, <3>1, SkipIs
  <2>4. ReadNumber(i) = to
    BY <1>3, <1>7, <2>1 DEF ReadNumber
  <2>5. ASSUME NEW k \in i..(to - 1) PROVE Ch(k) \in Digits \/ k = point
    BY <1>1, <1>4, <2>3
  <2>6. point \in i..(to - 1)
    BY <1>1, <1>4, <2>3
  <2>7. to > i
    BY <1>1, <1>4, <2>3
  <2>8. \A k \in i..(to - 1) : Ch(k) \in Digits \cup {"."}
    BY <1>7, <2>5
  <2>9. \A j, k \in i..(to - 1) : Ch(j) = "." /\ Ch(k) = "." => j = k
    BY <1>2, <2>5
  <2>10. QED BY <1>1, <1>7, <2>3, <2>4, <2>6, <2>7, <2>8, <2>9
<1>8. QED BY <1>6, <1>7

LEMMA NumberRead ==
    ASSUME Text, NEW i \in Nat \ {0}, Ch(i) \in Digits
    PROVE  \E last : Reads(TokenAt(i), i, last)
<1>1. PICK t, to : t = TokenAt(i) /\ to = ReadNumber(i)
  OBVIOUS
<1>2. PICK len : len = Len(input) /\ len \in Nat
  BY Beyond
<1>3. /\ Ch(i) \notin Singles \cup {"="} /\ Ch(i) \notin Letters
      /\ Ch(i) # Quote /\ Ch(i) # Zero
  BY LettersApart DEF Apart
<1>4. i \in 1..len
  BY <1>2, <1>3, Beyond
<1>5. PairType(<<Ch(i), Ch(i + 1)>>) = "ILLEGAL"
  BY <1>3, PairIs
<1>6. /\ to \in Nat /\ to > i /\ to <= len + 1 /\ Ch(to) \notin Digits
      /\ \A k \in i..(to - 1) : Ch(k) \in Digits \cup {"."}
      /\ \A j, k \in i..(to - 1) : Ch(j) = "." /\ Ch(k) = "." => j = k
      /\ Ch(to) = "." => \E j \in i..(to - 1) : Ch(j) = "."
  BY <1>1, <1>2, <1>4, NumberPlaces
<1>7. PICK type \in {"FLOAT", "INT"} : t = TokenOf(type, SubSeq(input, i, to - 1), i, to)
  BY <1>1, <1>3, <1>5 DEF TokenAt
<1>8. /\ t.from = i /\ t.to = to /\ t.literal = SubSeq(input, i, to - 1)
      /\ t.type \notin {"STRING", "EOF"}
  BY <1>7 DEF TokenOf
<1>9. Len(t.literal) = to - i
  BY <1>2, <1>4, <1>6, <1>8, PartIs
<1>10. Extent(t) = i..(to - 1)
  BY <1>4, <1>6, <1>8, <1>9 DEF Extent
<1>11. Longest(i, to - i)
  <2>1. to - i \in 1..(len - i + 1) /\ i + (to - i) - 1 = to - 1
    BY <1>2, <1>4, <1>6
  <2>2. LexemeAt(i, to - i)
    BY <1>6, <2>1 DEF LexemeAt
  <2>3. ASSUME NEW m \in (to - i + 1)..(len - i + 1), LexemeAt(i, m) PROVE FALSE
    <3>1. m >= 2 /\ to \in i..(i + m - 1) /\ \A j \in i..(to - 1) : j \in i..(i + m - 1) /\ j # to
      BY <1>2, <1>4, <1>6
    <3>2. /\ Ch(to) \in Digits \cup {"."}
          /\ \A j, k \in i..(i + m - 1) : Ch(j) = "." /\ Ch(k) = "." => j = k
      BY <1>3, <1>5, <2>3, <3>1 DEF LexemeAt
    <3>3. QED BY <1>6, <3>1, <3>2
  <2>4. QED BY <1>2, <2>1, <2>2, <2>3 DEF Longest
<1>12. /\ to - i \in Nat /\ to - 1 \in Nat /\ i <= to - 1 /\ i + (to - i) - 1 = to - 1
  BY <1>4, <1>6
<1>13. Reads(t, i, to - 1)
  BY <1>6, <1>8, <1>10, <1>11, <1>12 DEF Reads
<1>14. QED BY <1>1, <1>13

LEMMA TokenRead ==
    ASSUME Text, NEW i \in Nat \ {0}
    PROVE  \E last : Reads(TokenAt(i), i, last)
<1>1. CASE PairType(<<Ch(i), Ch(i + 1)>>) # "ILLEGAL"
  BY <1>1, PairRead
<1>2. CASE Ch(i) \in Letters
  BY <1>2, NameRead
<1>3. CASE Ch(i) \in Digits
  BY <1>3, NumberRead
<1>4. CASE Ch(i) = Quote
  BY <1>4, StringRead
<1>5. CASE Ch(i) = Zero
  BY <1>5, EndRead
<1>6. CASE /\ PairType(<<Ch(i), Ch(i + 1)>>) = "ILLEGAL" /\ Ch(i) \notin Letters \cup Digits
           /\ Ch(i) # Quote /\ Ch(i) # Zero
  BY <1>6, SingleRead
<1>7. QED BY <1>1, <1>2, <1>3, <1>4, <1>5, <1>6

-----------------------------------------------------------------------------
(* The tokens of a text.                                                   *)

\* A token is what the lexer reads at its place, and begins where NextToken
\* stops passing over.
SoundToken(t) ==
    /\ t.from \in Nat \ {0} /\ t = TokenAt(t.from)
    /\ Ch(t.from) \notin Blank /\ ~CommentAt(t.from)

\* The place up to which all is read: what is before it is in a token, or is
\* passed over, or went with a <=.
Covered(i) ==
    \/ \E k \in DOMAIN tokens : i \in Extent(tokens[k])
    \/ Passable(i)
    \/ <<Ch(i - 2), Ch(i - 1)>> = <<"<", "=">>

LexerInv ==
    /\ Text
    /\ position \in Nat \ {0}
    /\ tokens \in Seq({TokenAt(i) : i \in Nat \ {0}})
    /\ \A k \in DOMAIN tokens : SoundToken(tokens[k]) /\ tokens[k].to <= position
    /\ \A j, k \in DOMAIN tokens : j < k => tokens[j].to <= tokens[k].from
    /\ \A i \in 1..(position - 1) : Covered(i)

\* What is read of a place is read again from the token, which knows its place.
LEMMA TokenKnows ==
    ASSUME Text, NEW i \in Nat \ {0}
    PROVE  /\ TokenAt(i).from = i /\ TokenAt(i).to \in Nat /\ TokenAt(i).to > i
           /\ \A k \in Extent(TokenAt(i)) : k \in i..(TokenAt(i).to - 1)
           /\ \A k \in i..(TokenAt(i).to - 1) :
                 k \in Extent(TokenAt(i)) \/ <<Ch(k - 2), Ch(k - 1)>> = <<"<", "=">>
<1>1. PICK t : t = TokenAt(i)
  OBVIOUS
<1>2. PICK last : Reads(t, i, last)
  BY <1>1, TokenRead
<1>3. /\ t.from = i /\ t.to \in Nat /\ last \in Nat /\ i <= last /\ Extent(t) = i..last
      /\ \/ last = t.to - 1
         \/ last = t.to - 2 /\ last = i + 1 /\ <<Ch(i), Ch(i + 1)>> = <<"<", "=">>
  BY <1>2 DEF Reads
<1>4. ASSUME NEW k \in i..(t.to - 1), k \notin Extent(t)
      PROVE  <<Ch(k - 2), Ch(k - 1)>> = <<"<", "=">>
  <2>1. k - 2 = i /\ k - 1 = i + 1 /\ <<Ch(i), Ch(i + 1)>> = <<"<", "=">>
    BY <1>3, <1>4
  <2>2. QED BY <2>1
<1>5. QED BY <1>1, <1>3, <1>4

\* What is read depends on the text alone, which stays.
LEMMA SameText ==
    ASSUME input' = input
    PROVE  /\ \A i : Ch(i)' = Ch(i) /\ TokenAt(i)' = TokenAt(i)
           /\ \A i : CommentAt(i)' <=> CommentAt(i)
           /\ \A i : Passable(i)' <=> Passable(i)
<1>1. \A i : Ch(i)' = Ch(i)
  BY DEF Ch
<1>2. \A i : CommentAt(i)' <=> CommentAt(i)
  BY <1>1 DEF CommentAt
<1>3. \A i : Passable(i)' <=> Passable(i)
  BY <1>1 DEF Passable, Comment
<1>4. \A i, S : Find(i, S)' = Find(i, S) /\ Skip(i, S)' = Skip(i, S)
  BY DEF Find, Skip, Ch
<1>5. \A i : /\ ReadIdentifier(i)' = ReadIdentifier(i) /\ ReadNumber(i)' = ReadNumber(i)
             /\ ReadString(i)' = ReadString(i)
  BY <1>1, <1>4 DEF ReadIdentifier, ReadNumber, ReadString
<1>6. \A i : TokenAt(i)' = TokenAt(i)
  BY <1>1, <1>5 DEF TokenAt
<1>7. QED BY <1>1, <1>2, <1>3, <1>6

LEMMA LexerInitInv == ASSUME Text, LexerInit PROVE LexerInv
  BY DEF LexerInit, LexerInv

LEMMA NextTokenInv == ASSUME LexerInv, NextToken PROVE LexerInv'
<1>1. PICK from, t : from = SkipWhitespace[position] /\ t = TokenAt(from)
  OBVIOUS
<1>2. tokens' = Append(tokens, t) /\ position' = t.to /\ input' = input
  BY <1>1 DEF NextToken
<1>3. /\ Text /\ position \in Nat \ {0}
      /\ tokens \in Seq({TokenAt(i) : i \in Nat \ {0}})
      /\ \A k \in DOMAIN tokens : SoundToken(tokens[k]) /\ tokens[k].to <= position
      /\ \A j, k \in DOMAIN tokens : j < k => tokens[j].to <= tokens[k].from
      /\ \A i \in 1..(position - 1) : Covered(i)
  BY DEF LexerInv
<1>4. PassedOver(position, from)
  BY <1>1, <1>3, WhitespacePassed
<1>5. from \in Nat \ {0} /\ from >= position /\ \A i \in position..(from - 1) : Passable(i)
  BY <1>3, <1>4 DEF PassedOver
<1>6. /\ t.from = from /\ t.to \in Nat /\ t.to > from
      /\ \A k \in from..(t.to - 1) : k \in Extent(t) \/ <<Ch(k - 2), Ch(k - 1)>> = <<"<", "=">>
  BY <1>1, <1>3, <1>5, TokenKnows
<1>7. SoundToken(t)
  BY <1>1, <1>4, <1>5, <1>6 DEF SoundToken, PassedOver
<1>8. PICK n : n = Len(tokens) /\ n \in Nat /\ DOMAIN tokens = 1..n
  BY <1>3
<1>9. /\ DOMAIN tokens' = 1..(n + 1) /\ tokens'[n + 1] = t
      /\ \A k \in 1..n : tokens'[k] = tokens[k]
      /\ tokens' \in Seq({TokenAt(i) : i \in Nat \ {0}})
  <2>1. t \in {TokenAt(i) : i \in Nat \ {0}}
    BY <1>1, <1>5
  <2>2. PICK T : T = {TokenAt(i) : i \in Nat \ {0}}
    OBVIOUS
  <2>3. tokens \in Seq(T) /\ t \in T
    BY <1>3, <2>1, <2>2
  <2>4. QED BY <1>2, <1>8, <2>2, <2>3, AppendProperties
<1>10. \A k \in DOMAIN tokens' : SoundToken(tokens'[k]) /\ tokens'[k].to <= t.to
  <2>1. ASSUME NEW k \in 1..n PROVE tokens[k].to <= t.to
    <3>1. tokens[k].to <= position /\ SoundToken(tokens[k])
      BY <1>3, <1>8
    <3>2. tokens[k].to \in Nat
      BY <1>3, <3>1, TokenKnows DEF SoundToken
    <3>3. QED BY <1>3, <1>5, <1>6, <3>1, <3>2
  <2>2. ASSUME NEW k \in 1..(n + 1) PROVE SoundToken(tokens'[k]) /\ tokens'[k].to <= t.to
    <3>1. CASE k \in 1..n
      BY <1>3, <1>8, <1>9, <2>1, <3>1
    <3>2. CASE k = n + 1
      BY <1>6, <1>7, <1>9, <3>2
    <3>3. QED BY <1>8, <3>1, <3>2
  <2>3. QED BY <1>9, <2>2
<1>11. \A j, k \in DOMAIN tokens' : j < k => tokens'[j].to <= tokens'[k].from
  <2>1. ASSUME NEW j \in 1..(n + 1), NEW k \in 1..(n + 1), j < k
        PROVE  tokens'[j].to <= tokens'[k].from
    <3>1. j \in 1..n /\ tokens'[j] = tokens[j]
      BY <1>8, <1>9, <2>1
    <3>2. CASE k \in 1..n
      BY <1>3, <1>8, <1>9, <2>1, <3>1, <3>2
    <3>3. CASE k = n + 1
      <4>1. tokens[j].to <= position /\ SoundToken(tokens[j])
        BY <1>3, <1>8, <3>1
      <4>2. tokens[j].to \in Nat
        BY <1>3, <4>1, TokenKnows DEF SoundToken
      <4>3. QED BY <1>3, <1>5, <1>6, <1>9, <3>1, <3>3, <4>1, <4>2
    <3>4. QED BY <1>8, <3>2, <3>3
  <2>2. QED BY <1>9, <2>1
<1>12. ASSUME NEW i \in 1..(t.to - 1)
       PROVE  \/ \E k \in DOMAIN tokens' : i \in Extent(tokens'[k])
              \/ Passable(i)
              \/ <<Ch(i - 2), Ch(i - 1)>> = <<"<", "=">>
  <2>1. CASE i < position
    <3>1. Covered(i)
      BY <1>3, <2>1
    <3>2. \A k \in DOMAIN tokens : k \in DOMAIN tokens' /\ tokens'[k] = tokens[k]
      BY <1>8, <1>9
    <3>3. QED BY <3>1, <3>2 DEF Covered
  <2>2. CASE position <= i /\ i < from
    BY <1>3, <1>5, <2>2
  <2>3. CASE from <= i
    BY <1>5, <1>6, <1>8, <1>9, <2>3
  <2>4. QED BY <1>3, <1>5, <2>1, <2>2, <2>3
<1>13. /\ \A i : Ch(i)' = Ch(i) /\ TokenAt(i)' = TokenAt(i)
       /\ \A i : (CommentAt(i)' <=> CommentAt(i)) /\ (Passable(i)' <=> Passable(i))
  BY <1>2, SameText
<1>14. Text' /\ position' \in Nat \ {0}
  BY <1>2, <1>3, <1>5, <1>6 DEF Text
<1>15. \A i \in 1..(position' - 1) : Covered(i)'
  BY <1>2, <1>12, <1>13 DEF Covered
<1>16. (\A k \in DOMAIN tokens : SoundToken(tokens[k]))'
  BY <1>10, <1>13 DEF SoundToken
<1>17. tokens' \in Seq({TokenAt(i)' : i \in Nat \ {0}})
  BY <1>9, <1>13
<1>18. QED BY <1>2, <1>10, <1>11, <1>14, <1>15, <1>16, <1>17 DEF LexerInv

LEMMA NextInv == ASSUME LexerInv, [LexerNext]_lexerVars PROVE LexerInv'
<1>1. CASE LexerNext
  BY <1>1, NextTokenInv DEF LexerNext
<1>2. CASE UNCHANGED lexerVars
  <2>1. input' = input /\ position' = position /\ tokens' = tokens
    BY <1>2 DEF lexerVars
  <2>2. /\ \A i : Ch(i)' = Ch(i) /\ TokenAt(i)' = TokenAt(i)
        /\ \A i : (CommentAt(i)' <=> CommentAt(i)) /\ (Passable(i)' <=> Passable(i))
    BY <2>1, SameText
  <2>3. QED BY <2>1, <2>2 DEF LexerInv, Text, SoundToken, Covered
<1>3. QED BY <1>1, <1>2

\* The longest lexeme at its place is what LongestMatch asks of a token.
LEMMA LongestIs ==
    ASSUME Text, NEW i \in Nat \ {0}, NEW n \in Nat, Longest(i, n),
           NEW last \in Nat, NEW t, t.from = i, Extent(t) = i..last,
           \A k \in 1..Len(input) : k <= last <=> k <= i + n - 1
    PROVE  LET text == SubSeq(input, t.from, Len(input))
               size == Cardinality(Extent(t) \cap DOMAIN input)
           IN  /\ Lexeme(SubSeq(text, 1, size))
               /\ \A m \in (size + 1)..Len(text) : ~Lexeme(SubSeq(text, 1, m))
<1>1. PICK len : len = Len(input) /\ len \in Nat /\ DOMAIN input = 1..len
  BY Beyond
<1>2. /\ n \in 1..(len - i + 1) /\ LexemeAt(i, n)
      /\ \A m \in (n + 1)..(len - i + 1) : ~LexemeAt(i, m)
  BY <1>1 DEF Longest
<1>3. i \in 1..len /\ i + n - 1 <= len
  BY <1>1, <1>2
<1>4. Extent(t) \cap DOMAIN input = i..(i + n - 1)
  <2>1. ASSUME NEW k PROVE k \in Extent(t) \cap DOMAIN input <=> k \in i..(i + n - 1)
    BY <1>1, <1>3
  <2>2. QED BY <2>1
<1>5. Cardinality(Extent(t) \cap DOMAIN input) = n
  <2>1. i \in Int /\ i + n - 1 \in Int /\ ~ (i > i + n - 1) /\ (i + n - 1) - i + 1 = n
    BY <1>1, <1>2
  <2>2. QED BY <1>4, <2>1, FS_Interval
<1>6. PICK text : text = SubSeq(input, i, len)
  OBVIOUS
<1>7. /\ Len(text) = len - i + 1
      /\ \A m \in 1..(len - i + 1) : Lexeme(SubSeq(text, 1, m)) <=> LexemeAt(i, m)
  BY <1>1, <1>2, <1>3, <1>6, PrefixIs, LexemeIs
<1>8. /\ Lexeme(SubSeq(text, 1, n))
      /\ \A m \in (n + 1)..Len(text) : ~Lexeme(SubSeq(text, 1, m))
  BY <1>1, <1>2, <1>3, <1>7
<1>9. QED BY <1>1, <1>5, <1>6, <1>8

LEMMA InvLongest == ASSUME LexerInv PROVE LongestMatch
<1>1. SUFFICES ASSUME tokens # <<>>, ~AtEOF
      PROVE  LET token == Last(tokens)
                 text  == SubSeq(input, token.from, Len(input))
                 n     == Cardinality(Extent(token) \cap DOMAIN input)
             IN  /\ Lexeme(SubSeq(text, 1, n))
                 /\ \A m \in (n + 1)..Len(text) : ~Lexeme(SubSeq(text, 1, m))
  BY DEF LongestMatch
<1>2. PICK t : t = Last(tokens)
  OBVIOUS
<1>3. \E k \in DOMAIN tokens : t = tokens[k]
  <2>1. tokens \in Seq({TokenAt(i) : i \in Nat \ {0}})
    BY DEF LexerInv
  <2>2. Len(tokens) \in DOMAIN tokens
    BY <1>1, <2>1, EmptySeq
  <2>3. QED BY <1>2, <2>2 DEF Last
<1>4. SoundToken(t) /\ t.type # "EOF" /\ Text
  BY <1>1, <1>2, <1>3 DEF LexerInv, AtEOF
<1>5. PICK i \in Nat \ {0} : i = t.from /\ t = TokenAt(i)
  BY <1>4 DEF SoundToken
<1>6. PICK last : Reads(t, i, last)
  BY <1>4, <1>5, TokenRead
<1>7. PICK n \in Nat : Longest(i, n) /\ \A k \in 1..Len(input) : k <= last <=> k <= i + n - 1
  BY <1>4, <1>6 DEF Reads
<1>8. t.from = i /\ last \in Nat /\ Extent(t) = i..last
  BY <1>6 DEF Reads
<1>9. QED BY <1>2, <1>4, <1>7, <1>8, LongestIs

LEMMA InvNothingLost == ASSUME LexerInv PROVE NothingLost
<1>1. SUFFICES ASSUME NEW i \in DOMAIN input
      PROVE  LET of == {k \in DOMAIN tokens : i \in Extent(tokens[k])}
             IN  IF of = {}
                 THEN i < position =>
                         Ch(i) \in Blank \/ Comment(i) \/ <<Ch(i - 2), Ch(i - 1)>> = <<"<", "=">>
                 ELSE Cardinality(of) = 1
  BY DEF NothingLost
<1>2. PICK of : of = {k \in DOMAIN tokens : i \in Extent(tokens[k])}
  OBVIOUS
<1>3. /\ Text /\ position \in Nat \ {0}
      /\ tokens \in Seq({TokenAt(k) : k \in Nat \ {0}})
      /\ \A k \in DOMAIN tokens : SoundToken(tokens[k])
      /\ \A j, k \in DOMAIN tokens : j < k => tokens[j].to <= tokens[k].from
      /\ \A k \in 1..(position - 1) : Covered(k)
  BY DEF LexerInv
<1>4. i \in Nat \ {0}
  BY <1>3, Beyond DEF Text
<1>5. CASE of = {}
  <2>1. ASSUME i < position PROVE Passable(i) \/ <<Ch(i - 2), Ch(i - 1)>> = <<"<", "=">>
    <3>1. Covered(i)
      BY <1>3, <1>4, <2>1
    <3>2. QED BY <1>2, <1>5, <3>1 DEF Covered
  <2>2. QED BY <1>2, <1>5, <2>1 DEF Passable
<1>6. CASE of # {}
  <2>1. PICK k : k \in of
    BY <1>6
  <2>2. ASSUME NEW j \in of, j # k PROVE FALSE
    <3>1. j \in DOMAIN tokens /\ k \in DOMAIN tokens /\ j \in Nat /\ k \in Nat
      BY <1>2, <1>3, <2>1
    <3>2. /\ tokens[j].from \in Nat /\ tokens[j].to \in Nat
          /\ i \in tokens[j].from..(tokens[j].to - 1)
      BY <1>2, <1>3, <3>1, TokenKnows DEF SoundToken
    <3>3. /\ tokens[k].from \in Nat /\ tokens[k].to \in Nat
          /\ i \in tokens[k].from..(tokens[k].to - 1)
      BY <1>2, <1>3, <2>1, <3>1, TokenKnows DEF SoundToken
    <3>4. tokens[j].to <= tokens[k].from \/ tokens[k].to <= tokens[j].from
      BY <1>3, <2>2, <3>1
    <3>5. QED BY <1>4, <3>2, <3>3, <3>4
  <2>3. of = {k}
    BY <2>1, <2>2
  <2>4. Cardinality(of) = 1
    BY <2>3, FS_Singleton
  <2>5. QED BY <1>2, <1>6, <2>4
<1>7. QED BY <1>5, <1>6

\* What is read of any text: tokens in the order of their places, each what is at
\* its place, and nothing passed over but what may be.
THEOREM LexerInvariant == LexerSpec => []LexerInv
<1>1. Text /\ LexerInit => LexerInv
  BY LexerInitInv
<1>2. LexerInv /\ [LexerNext]_lexerVars => LexerInv'
  BY NextInv
<1>3. QED BY <1>1, <1>2, PTL DEF LexerSpec

\* Whatever the text and the order of the branches of NextToken, the token just
\* read is the longest lexeme at its place.
THEOREM LongestAlways == LexerSpec => []LongestMatch
<1>1. LexerInv => LongestMatch
  BY InvLongest
<1>2. QED BY <1>1, LexerInvariant, PTL

\* Whatever the text, no character belongs to two tokens, and one that belongs to
\* none is white space, in a comment, or behind a <=.
THEOREM NoneLost == LexerSpec => []NothingLost
<1>1. LexerInv => NothingLost
  BY InvNothingLost
<1>2. QED BY <1>1, LexerInvariant, PTL
=============================================================================
