------------------------------ MODULE VMProofs ------------------------------
(***************************************************************************)
(* The bytecode interpreter with its values, proved for every compiled     *)
(* program, every size of stack, globals and frames, and every builtin     *)
(* that makes no closures.                                                 *)
(*                                                                         *)
(* Three facts carry each other.  Without their closures, the frames and   *)
(* the stack pointer are a sound chain (FrameChains), so an instruction    *)
(* finds its operands.  There is a set S of sound values, closed under     *)
(* taking their parts, to which whatever the stack, the globals and the    *)
(* constants hold belongs: a closure taken from anywhere has the captures  *)
(* its code names, and runs code that verifies, so the chain stays sound.  *)
(* And bases rise from frame to frame, so a local is never written below   *)
(* the base of the frame that runs, and a callee stays where it is.        *)
(***************************************************************************)
EXTENDS VM, FrameChains

-----------------------------------------------------------------------------
(* The frames of the machine without values.                               *)

ViewFrame(f) == [fn |-> f.cl.fn, pc |-> f.pc, base |-> f.base]

View(chain) ==
    [i \in DOMAIN chain |->
        [fn |-> chain[i].cl.fn, pc |-> chain[i].pc, base |-> chain[i].base]] \o <<>>

VMFrame(C) == [cl : C, pc : Nat, base : Nat]

LEMMA ViewIs ==
    ASSUME NEW C, NEW chain \in Seq(VMFrame(C))
    PROVE  /\ View(chain) \in Seq([fn : {c.fn : c \in C}, pc : Nat, base : Nat])
           /\ Len(View(chain)) = Len(chain)
           /\ \A i \in 1..Len(chain) : View(chain)[i] = ViewFrame(chain[i])
<1>1. PICK R : R = [fn : {c.fn : c \in C}, pc : Nat, base : Nat]
  OBVIOUS
<1>2. PICK n \in Nat : n = Len(chain)
  OBVIOUS
<1>3. DOMAIN chain = 1..n
  BY <1>2
<1>4. ASSUME NEW i \in 1..n
      PROVE  ViewFrame(chain[i]) \in R
  <2>1. chain[i] \in VMFrame(C)
    BY <1>2, ElementOfSeq
  <2>2. QED BY <2>1, <1>1 DEF ViewFrame, VMFrame
<1>5. PICK plain : plain = [i \in 1..n |-> ViewFrame(chain[i])]
  OBVIOUS
<1>6. plain \in Seq(R) /\ Len(plain) = n /\ \A i \in 1..n : plain[i] = ViewFrame(chain[i])
  BY <1>4, <1>5
<1>7. plain \o <<>> = plain
  BY <1>6, ConcatEmptySeq
<1>8. View(chain) = plain \o <<>>
  BY <1>3, <1>5 DEF View, ViewFrame
<1>9. QED BY <1>1, <1>2, <1>6, <1>7, <1>8

\* Frames that look alike, one by one.
LEMMA SameView ==
    ASSUME NEW C, NEW chain \in Seq(VMFrame(C)), NEW R, NEW seq \in Seq(R),
           Len(seq) = Len(chain), \A i \in 1..Len(chain) : seq[i] = ViewFrame(chain[i])
    PROVE  View(chain) = seq
<1>1. PICK v, n, T : v = View(chain) /\ n = Len(chain) /\ T = [fn : {c.fn : c \in C}, pc : Nat, base : Nat]
  OBVIOUS
<1>2. v \in Seq(T) /\ Len(v) = n /\ \A i \in 1..n : v[i] = ViewFrame(chain[i])
  BY <1>1, ViewIs
<1>3. v \in Seq(T \cup R) /\ seq \in Seq(T \cup R)
  BY <1>2, SeqMonotonic
<1>4. \A i \in 1..Len(v) : v[i] = seq[i]
  BY <1>1, <1>2
<1>5. Len(v) = Len(seq)
  BY <1>1, <1>2
<1>6. v = seq
  BY ONLY <1>3, <1>4, <1>5, SeqEqual
<1>7. QED BY <1>1, <1>6

LEMMA ViewMove ==
    ASSUME NEW C, NEW chain \in Seq(VMFrame(C)), Len(chain) \in Nat \ {0}, NEW pc \in Nat
    PROVE  /\ Moved(chain, pc) \in Seq(VMFrame(C)) /\ Len(Moved(chain, pc)) = Len(chain)
           /\ \A i \in 1..Len(chain) : Moved(chain, pc)[i].cl = chain[i].cl
                                      /\ Moved(chain, pc)[i].base = chain[i].base
           /\ View(Moved(chain, pc)) = Moved(View(chain), pc)
<1>1. PICK n, v, T, e, d, new, seq :
        /\ n = Len(chain) /\ v = View(chain)
        /\ T = [fn : {c.fn : c \in C}, pc : Nat, base : Nat]
        /\ e = [chain[n] EXCEPT !.pc = pc] /\ d = [v[n] EXCEPT !.pc = pc]
        /\ new = [chain EXCEPT ![n] = e] /\ seq = [v EXCEPT ![n] = d]
  OBVIOUS
<1>2. v \in Seq(T) /\ Len(v) = n /\ \A i \in 1..n : v[i] = ViewFrame(chain[i])
  BY <1>1, ViewIs
<1>3. n \in Nat \ {0} /\ n \in 1..n
  BY <1>1
<1>4. chain[n] \in VMFrame(C)
  BY <1>1, <1>3, ElementOfSeq
<1>5. e \in VMFrame(C) /\ e.cl = chain[n].cl /\ e.base = chain[n].base
  BY ONLY <1>1, <1>4, pc \in Nat DEF VMFrame
<1>6. d \in T /\ d = ViewFrame(e)
  <2>1. v[n] = ViewFrame(chain[n])
    BY <1>2, <1>3
  <2>2. QED BY ONLY <1>1, <1>4, <1>5, <2>1, pc \in Nat DEF VMFrame, ViewFrame
<1>7. /\ new \in Seq(VMFrame(C)) /\ Len(new) = n /\ new[n] = e
      /\ \A i \in 1..(n - 1) : new[i] = chain[i]
  <2>1. PICK R : R = VMFrame(C)
    OBVIOUS
  <2>2. chain \in Seq(R) /\ Len(chain) = n /\ n \in Nat \ {0} /\ e \in R
        /\ new = [chain EXCEPT ![n] = e]
    BY <2>1, <1>1, <1>3, <1>5
  <2>3. new \in Seq(R) /\ Len(new) = n /\ new[n] = e /\ \A i \in 1..(n - 1) : new[i] = chain[i]
    BY ONLY <2>2, LastReplaced
  <2>4. QED BY ONLY <2>1, <2>3
<1>8. /\ seq \in Seq(T) /\ Len(seq) = n /\ seq[n] = d
      /\ \A i \in 1..(n - 1) : seq[i] = v[i]
  <2>1. v \in Seq(T) /\ Len(v) = n /\ n \in Nat \ {0} /\ d \in T /\ seq = [v EXCEPT ![n] = d]
    BY <1>1, <1>2, <1>3, <1>6
  <2>2. QED BY ONLY <2>1, LastReplaced
<1>9. \A i \in 1..n : seq[i] = ViewFrame(new[i])
  <2> SUFFICES ASSUME NEW i \in 1..n PROVE seq[i] = ViewFrame(new[i])
    OBVIOUS
  <2>1. CASE i = n
    BY ONLY <2>1, <1>6, <1>7, <1>8
  <2>2. CASE i # n
    <3>1. i \in 1..(n - 1)
      BY ONLY <2>2, <1>3
    <3>2. QED BY ONLY <3>1, <1>2, <1>7, <1>8, i \in 1..n
  <2>3. QED BY <2>1, <2>2
<1>10. View(new) = seq
  BY ONLY <1>7, <1>8, <1>9, SameView
<1>11. \A i \in 1..n : new[i].cl = chain[i].cl /\ new[i].base = chain[i].base
  <2> SUFFICES ASSUME NEW i \in 1..n PROVE new[i].cl = chain[i].cl /\ new[i].base = chain[i].base
    OBVIOUS
  <2>1. CASE i = n
    BY ONLY <2>1, <1>5, <1>7
  <2>2. CASE i # n
    <3>1. i \in 1..(n - 1)
      BY ONLY <2>2, <1>3
    <3>2. QED BY ONLY <3>1, <1>7
  <2>3. QED BY <2>1, <2>2
<1>12. Moved(chain, pc) = new
  BY ONLY <1>1 DEF Moved
<1>13. Moved(View(chain), pc) = seq
  BY ONLY <1>1, <1>2 DEF Moved
<1>14. QED BY ONLY <1>1, <1>7, <1>10, <1>11, <1>12, <1>13

\* A closure is entered.
Entered(chain, pc, cl, base) == Append(Moved(chain, pc), NewFrame(cl, base))

Grown(old, frame, new) ==
    /\ Len(new) = Len(old) + 1
    /\ \A i \in 1..Len(old) : new[i] = old[i]
    /\ new[Len(old) + 1] = frame

LEMMA ViewCall ==
    ASSUME NEW C, NEW chain \in Seq(VMFrame(C)), Len(chain) \in Nat \ {0}, NEW pc \in Nat,
           NEW callee \in C, NEW base \in Nat, NEW new, new = Entered(chain, pc, callee, base)
    PROVE  /\ new \in Seq(VMFrame(C)) /\ Grown(Moved(chain, pc), NewFrame(callee, base), new)
           /\ View(new) = Called(View(chain), pc, callee.fn, base)
<1>1. PICK n, moved, e, d, T, v, seq :
        /\ n = Len(chain) /\ moved = Moved(chain, pc) /\ v = Moved(View(chain), pc)
        /\ e = NewFrame(callee, base)
        /\ d = [fn |-> callee.fn, pc |-> 0, base |-> base]
        /\ T = [fn : {c.fn : c \in C}, pc : Nat, base : Nat]
        /\ new = Append(moved, e) /\ seq = Append(v, d)
  BY DEF Entered
<1>2. /\ moved \in Seq(VMFrame(C)) /\ Len(moved) = n /\ v = View(moved)
      /\ \A i \in 1..n : moved[i].cl = chain[i].cl /\ moved[i].base = chain[i].base
  BY <1>1, ViewMove
<1>3. v \in Seq(T) /\ Len(v) = n /\ \A i \in 1..n : v[i] = ViewFrame(moved[i])
  BY <1>1, <1>2, ViewIs, ZenonT(30)
<1>4. e \in VMFrame(C) /\ d \in T /\ d = ViewFrame(e)
  BY <1>1 DEF NewFrame, VMFrame, ViewFrame
<1>5. /\ new \in Seq(VMFrame(C)) /\ Len(new) = n + 1
      /\ \A i \in 1..n : new[i] = moved[i]
      /\ new[n + 1] = e
  BY ONLY <1>1, <1>2, <1>4, AppendProperties
<1>6. /\ seq \in Seq(T) /\ Len(seq) = n + 1
      /\ \A i \in 1..n : seq[i] = v[i]
      /\ seq[n + 1] = d
  BY ONLY <1>1, <1>3, <1>4, AppendProperties
<1>7. n \in Nat
  BY <1>1
<1>8. \A i \in 1..(n + 1) : seq[i] = ViewFrame(new[i])
  <2> SUFFICES ASSUME NEW i \in 1..(n + 1) PROVE seq[i] = ViewFrame(new[i])
    OBVIOUS
  <2>1. CASE i = n + 1
    BY ONLY <2>1, <1>4, <1>5, <1>6
  <2>2. CASE i # n + 1
    <3>1. i \in 1..n
      BY ONLY <2>2, <1>7
    <3>2. QED BY ONLY <3>1, <1>3, <1>5, <1>6
  <2>3. QED BY <2>1, <2>2
<1>9. View(new) = seq
  BY ONLY <1>5, <1>6, <1>8, SameView
<1>10. Called(View(chain), pc, callee.fn, base) = seq
  BY <1>1 DEF Called
<1>11. Grown(moved, e, new)
  BY ONLY <1>2, <1>5 DEF Grown
<1>12. QED BY ONLY <1>1, <1>5, <1>9, <1>10, <1>11

LEMMA ViewPop ==
    ASSUME NEW C, NEW chain \in Seq(VMFrame(C)), Len(chain) \in Nat, Len(chain) > 1
    PROVE  /\ Popped(chain) \in Seq(VMFrame(C)) /\ Len(Popped(chain)) = Len(chain) - 1
           /\ \A i \in 1..(Len(chain) - 1) : Popped(chain)[i] = chain[i]
           /\ View(Popped(chain)) = Popped(View(chain))
<1>1. PICK n, T, v, new, seq :
        /\ n = Len(chain) /\ v = View(chain)
        /\ T = [fn : {c.fn : c \in C}, pc : Nat, base : Nat]
        /\ new = SubSeq(chain, 1, n - 1) /\ seq = SubSeq(v, 1, n - 1)
  OBVIOUS
<1>2. v \in Seq(T) /\ Len(v) = n /\ \A i \in 1..n : v[i] = ViewFrame(chain[i])
  BY <1>1, ViewIs
<1>3. n \in Nat /\ n > 1 /\ n - 1 \in Int /\ 1 <= n - 1 /\ \A i \in 1..(n - 1) : i \in 1..n
  BY <1>1
<1>4. \A i \in 1..(n - 1) : chain[i] \in VMFrame(C)
  BY <1>1, <1>3, ElementOfSeq
<1>5. \A i \in 1..(n - 1) : v[i] \in T
  BY <1>2, <1>3, ElementOfSeq
<1>6. /\ new \in Seq(VMFrame(C)) /\ Len(new) = n - 1
      /\ \A i \in 1..(n - 1) : new[i] = chain[i]
  <2>1. PICK R : R = VMFrame(C)
    OBVIOUS
  <2>2. QED BY ONLY <2>1, <1>1, <1>3, <1>4, SubSeqProperties
<1>7. /\ seq \in Seq(T) /\ Len(seq) = n - 1
      /\ \A i \in 1..(n - 1) : seq[i] = v[i]
  BY ONLY <1>1, <1>3, <1>5, SubSeqProperties
<1>8. \A i \in 1..(n - 1) : seq[i] = ViewFrame(new[i])
  BY ONLY <1>2, <1>3, <1>6, <1>7
<1>9. View(new) = seq
  BY ONLY <1>6, <1>7, <1>8, SameView
<1>10. Popped(chain) = new /\ Popped(View(chain)) = seq
  BY <1>1, <1>2 DEF Popped
<1>11. QED BY ONLY <1>1, <1>6, <1>9, <1>10

-----------------------------------------------------------------------------
(* Values.  A set of values is closed when each of them is an object, with *)
(* what is inside of it in the set, and each closure among them is one of  *)
(* a function of the program, with all the values that it reads.           *)

FunctionsIn(pool) == {fn \in {pool[i] : i \in DOMAIN pool} : IsFunction(fn)}

\* What its closures may be: a function, and how many values it is given.
Makes(pool) == {c \in FunctionsIn(pool) \X Nat : OperandsSound(c[1], c[2], pool, BuiltinCount)}

SoundClosure(cl, makes) == <<cl.fn, Len(cl.free)>> \in makes

SoundValue(v, S, makes) ==
    /\ IsObject(v) /\ Parts(v) \subseteq S
    /\ v.type = "CLOSURE_OBJ" => v.free \in Seq(S) /\ SoundClosure(v, makes)

Closed(S, makes) == \A v \in S : SoundValue(v, S, makes)

LEMMA Grow ==
    ASSUME NEW S, NEW makes, Closed(S, makes), NEW v, SoundValue(v, S, makes)
    PROVE  Closed(S \cup {v}, makes)
<1> SUFFICES ASSUME NEW w \in S \cup {v} PROVE SoundValue(w, S \cup {v}, makes)
  BY DEF Closed
<1>1. SoundValue(w, S, makes)
  BY DEF Closed
<1>2. w.free \in Seq(S) => w.free \in Seq(S \cup {v})
  BY SeqMonotonic
<1>3. QED BY <1>1, <1>2 DEF SoundValue

\* Nothing is inside of a simple value.
SimpleTypes == {"INTEGER", "FLOAT", "STRING", "NULL", "BOOLEAN", "BUILTIN", "ERROR", "nil"}

LEMMA SimpleSound ==
    ASSUME NEW v, IsObject(v), v.type \in SimpleTypes, NEW S, NEW makes
    PROVE  SoundValue(v, S, makes)
BY DEF SoundValue, Parts, SimpleTypes

\* What an operation may come to.
Sound(outcome, S, makes) ==
    \/ outcome.type = "halts" /\ outcome.how \in {"error", "nil", "divide"}
    \/ SoundValue(outcome, S, makes)

LEMMA HaltsSound ==
    ASSUME NEW how \in {"error", "nil", "divide"}, NEW S, NEW makes
    PROVE  Sound(Halts(how), S, makes) /\ Halts(how).type = "halts"
BY DEF Sound, Halts

LEMMA BooleanSound ==
    ASSUME NEW b, NEW S, NEW makes
    PROVE  /\ IsObject(Boolean(b)) /\ Boolean(b).type \in SimpleTypes
           /\ SoundValue(Boolean(b), S, makes)
<1>1. IsObject(Boolean(b)) /\ Boolean(b).type \in SimpleTypes
  BY DEF IsObject, Boolean, NativeBoolean, ObjectTypes, SimpleTypes
<1>2. QED BY <1>1, SimpleSound

LEMMA NullSound ==
    ASSUME NEW S, NEW makes
    PROVE  SoundValue(Null, S, makes) /\ SoundValue(Nil, S, makes)
<1>1. IsObject(Null) /\ Null.type \in SimpleTypes /\ IsObject(Nil) /\ Nil.type \in SimpleTypes
  BY DEF IsObject, Null, Nil, ObjectTypes, SimpleTypes
<1>2. QED BY <1>1, SimpleSound

-----------------------------------------------------------------------------
(* Arithmetic stays within the width of the integers.                      *)

Int64s == Smallest..(-Smallest - 1)

LEMMA WrapType == ASSUME NEW n \in Int PROVE Wrap(n) \in Int64s
<1>1. IntLimit \in Nat \ {0}
  BY VMAssumption
<1>2. (n - Smallest) % (2 * IntLimit) \in 0..(2 * IntLimit - 1)
  <2>1. PICK m \in Nat \ {0} : m = 2 * IntLimit
    BY <1>1
  <2>2. PICK k \in Int : k = n - Smallest
    BY <1>1 DEF Smallest
  <2>3. k % m \in 0..(m - 1)
    OBVIOUS
  <2>4. QED BY <2>1, <2>2, <2>3
<1>3. QED BY <1>1, <1>2 DEF Wrap, Int64s, Smallest

LEMMA MagnitudeType == ASSUME NEW n \in Int PROVE Magnitude(n) \in Nat /\ (n # 0 => Magnitude(n) \in Nat \ {0})
BY DEF Magnitude

LEMMA QuotientType ==
    ASSUME NEW a \in Int, NEW b \in Int, b # 0
    PROVE  Quotient(a, b) \in Int
<1>1. PICK m \in Nat, d \in Nat \ {0} : m = Magnitude(a) /\ d = Magnitude(b)
  BY MagnitudeType
<1>2. m \div d \in Int
  OBVIOUS
<1>3. QED BY <1>1, <1>2 DEF Quotient

\* A remainder is smaller than the divisor, and has the sign of the dividend.
LEMMA RemainderType ==
    ASSUME NEW a \in Int64s, NEW b \in Int64s, b # 0
    PROVE  a - b * Quotient(a, b) \in Int64s
<1>1. IntLimit \in Nat \ {0} /\ a \in Int /\ b \in Int /\ -IntLimit <= a /\ a < IntLimit
  BY VMAssumption DEF Int64s, Smallest
<1>2. PICK m \in Nat, d \in Nat \ {0} : m = Magnitude(a) /\ d = Magnitude(b)
  BY <1>1, MagnitudeType
<1>3. PICK q \in Int : q = m \div d
  OBVIOUS
<1>4. PICK r \in 0..(d - 1) : r = m % d
  OBVIOUS
<1>5. m = d * q + r
  BY <1>3, <1>4
<1>6. r <= m
  <2>1. q \in Nat
    BY <1>3
  <2>2. d * q \in Nat
    BY <2>1
  <2>3. QED BY <1>5, <2>2, <1>4
<1>7. b * Quotient(a, b) = IF a < 0 THEN -(d * q) ELSE d * q
  <2>1. CASE (a < 0) = (b < 0)
    <3>1. Quotient(a, b) = q
      BY <2>1, <1>2, <1>3 DEF Quotient
    <3>2. b = IF a < 0 THEN -d ELSE d
      BY <2>1, <1>1, <1>2 DEF Magnitude
    <3>3. QED BY <3>1, <3>2
  <2>2. CASE ~((a < 0) = (b < 0))
    <3>1. Quotient(a, b) = -q
      BY <2>2, <1>2, <1>3 DEF Quotient
    <3>2. b = IF a < 0 THEN d ELSE -d
      BY <2>2, <1>1, <1>2 DEF Magnitude
    <3>3. QED BY <3>1, <3>2
  <2>3. QED BY <2>1, <2>2
<1>8. PICK t \in Int : t = d * q
  OBVIOUS
<1>9. m = IF a < 0 THEN -a ELSE a
  BY <1>2 DEF Magnitude
<1>10. a - b * Quotient(a, b) = IF a < 0 THEN -r ELSE r
  <2>1. PICK p : p = b * Quotient(a, b)
    OBVIOUS
  <2>2. p = IF a < 0 THEN -t ELSE t
    BY <2>1, <1>7, <1>8
  <2>3. m = t + r
    BY <1>5, <1>8
  <2>4. a - p = IF a < 0 THEN -r ELSE r
    BY ONLY <2>2, <2>3, <1>1, <1>8, <1>9, m \in Nat, r \in 0..(d - 1), d \in Nat
  <2>5. QED BY <2>1, <2>4
<1>11. QED BY <1>1, <1>4, <1>6, <1>9, <1>10 DEF Int64s, Smallest

LEMMA IntegerSound ==
    ASSUME NEW n \in Int64s, NEW S, NEW makes
    PROVE  SoundValue(Integer(n), S, makes) /\ Integer(n).type # "halts"
<1>1. IsObject(Integer(n)) /\ Integer(n).type \in SimpleTypes
  BY DEF IsObject, Integer, ObjectTypes, SimpleTypes, Int64s
<1>2. QED BY <1>1, SimpleSound DEF Integer

LEMMA IntegerOperationSound ==
    ASSUME NEW op \in ArithmeticOps, NEW a \in Int64s, NEW b \in Int64s, NEW S, NEW makes
    PROVE  Sound(executeBinaryIntegerOperation(op, a, b), S, makes)
<1>1. IntLimit \in Nat \ {0} /\ a \in Int /\ b \in Int
  BY VMAssumption DEF Int64s, Smallest
<1>2. CASE op \in {"OpDiv", "OpMod"} /\ b = 0
  BY <1>2, HaltsSound DEF executeBinaryIntegerOperation
<1>3. CASE ~(op \in {"OpDiv", "OpMod"} /\ b = 0)
  <2>1. PICK n : n = CASE op = "OpAdd" -> Wrap(a + b)
                       [] op = "OpSub" -> Wrap(a - b)
                       [] op = "OpMul" -> Wrap(a * b)
                       [] op = "OpDiv" -> Wrap(Quotient(a, b))
                       [] op = "OpMod" -> a - b * Quotient(a, b)
    OBVIOUS
  <2>2. a + b \in Int /\ a - b \in Int /\ a * b \in Int
    BY <1>1
  <2>3. op \in {"OpDiv", "OpMod"} => b # 0 /\ Quotient(a, b) \in Int
    BY <1>1, <1>3, QuotientType
  <2>4. n \in Int64s
    <3>1. op \in {"OpAdd", "OpSub", "OpMul"} => n \in Int64s
      BY <2>1, <2>2, WrapType
    <3>2. op = "OpDiv" => n \in Int64s
      BY <2>1, <2>3, WrapType
    <3>3. op = "OpMod" => n \in Int64s
      BY <2>1, <2>3, RemainderType
    <3>4. QED BY <3>1, <3>2, <3>3 DEF ArithmeticOps
  <2>5. executeBinaryIntegerOperation(op, a, b) = Integer(n)
    BY <1>3, <2>1 DEF executeBinaryIntegerOperation
  <2>6. QED BY <2>4, <2>5, IntegerSound DEF Sound
<1>4. QED BY <1>2, <1>3

-----------------------------------------------------------------------------
(* Every operation makes values of the program, whatever it is given.      *)

LEMMA Operand64 == ASSUME NEW v, IsObject(v), v.type = "INTEGER" PROVE v.int \in Int64s
BY DEF IsObject, Int64s

LEMMA BinaryOperationSound ==
    ASSUME NEW op \in ArithmeticOps, NEW left, NEW right, IsObject(left), IsObject(right),
           NEW S, NEW makes
    PROVE  Sound(executeBinaryOperation(op, left, right), S, makes)
<1>1. SoundValue(Float, S, makes)
  <2>1. IsObject(Float) /\ Float.type \in SimpleTypes
    BY DEF IsObject, Float, ObjectTypes, SimpleTypes
  <2>2. QED BY <2>1, SimpleSound
<1>2. ASSUME NEW text
      PROVE  SoundValue(String(text), S, makes)
  <2>1. IsObject(String(text)) /\ String(text).type \in SimpleTypes
    BY DEF IsObject, String, ObjectTypes, SimpleTypes
  <2>2. QED BY <2>1, SimpleSound
<1>3. Sound(Halts("nil"), S, makes) /\ Sound(Halts("error"), S, makes)
  BY HaltsSound
<1>4. CASE "nil" \in {left.type, right.type}
  BY <1>3, <1>4 DEF executeBinaryOperation, Numbers
<1>5. CASE left.type = "INTEGER" /\ right.type = "INTEGER"
  <2>1. left.int \in Int64s /\ right.int \in Int64s
    BY <1>5, Operand64
  <2>2. executeBinaryOperation(op, left, right) =
            executeBinaryIntegerOperation(op, left.int, right.int)
    BY <1>5 DEF executeBinaryOperation
  <2>3. QED BY <2>1, <2>2, IntegerOperationSound
<1>6. CASE /\ "nil" \notin {left.type, right.type}
           /\ ~(left.type = "INTEGER" /\ right.type = "INTEGER")
  <2>1. executeBinaryOperation(op, left, right)
            \in {Halts("error"), Float, String(left.str \o right.str)}
    BY <1>6 DEF executeBinaryOperation, Numbers
  <2>2. QED BY <2>1, <1>1, <1>2, <1>3 DEF Sound
<1>7. QED BY <1>4, <1>5, <1>6

LEMMA ComparisonSound ==
    ASSUME NEW op \in ComparisonOps, NEW left, NEW right, NEW S, NEW makes,
           NEW outcome \in executeComparison(op, left, right)
    PROVE  Sound(outcome, S, makes)
<1>1. \/ \E b : outcome = Boolean(b)
      \/ outcome \in {Halts("nil"), Halts("error")}
  BY DEF executeComparison, ComparisonOps, Numbers
<1>2. QED BY <1>1, BooleanSound, HaltsSound DEF Sound

LEMMA BangSound ==
    ASSUME NEW v, NEW S, NEW makes, NEW outcome \in executeBangOperator(v)
    PROVE  SoundValue(outcome, S, makes)
<1>1. \E b : outcome = Boolean(b)
  BY DEF executeBangOperator
<1>2. QED BY <1>1, BooleanSound

LEMMA MinusSound ==
    ASSUME NEW v, IsObject(v), NEW S, NEW makes
    PROVE  Sound(executeMinusOperator(v), S, makes)
<1>1. CASE v.type = "INTEGER"
  <2>1. v.int \in Int64s
    BY <1>1, Operand64
  <2>2. -v.int \in Int
    BY <2>1, VMAssumption DEF Int64s, Smallest
  <2>3. executeMinusOperator(v) = Integer(Wrap(-v.int))
    BY <1>1 DEF executeMinusOperator
  <2>4. QED BY <2>2, <2>3, WrapType, IntegerSound DEF Sound
<1>2. CASE v.type # "INTEGER"
  <2>1. executeMinusOperator(v) \in {Halts("nil"), Halts("error")}
    BY <1>2 DEF executeMinusOperator
  <2>2. QED BY <2>1, HaltsSound
<1>3. QED BY <1>1, <1>2

LEMMA UnusableKeySound ==
    ASSUME NEW v, NEW S, NEW makes
    PROVE  Sound(UnusableKey(v), S, makes)
BY HaltsSound DEF UnusableKey

LEMMA IndexSound ==
    ASSUME NEW S, NEW makes, Closed(S, makes), NEW left \in S, NEW index \in S
    PROVE  Sound(executeIndexExpression(left, index), S, makes)
<1>1. IsObject(left) /\ Parts(left) \subseteq S /\ IsObject(index)
  BY DEF Closed, SoundValue
<1>2. ASSUME NEW v \in S PROVE Sound(v, S, makes)
  BY DEF Closed, Sound
<1>3. Sound(Null, S, makes) /\ Sound(Halts("nil"), S, makes) /\ Sound(Halts("error"), S, makes)
  BY NullSound, HaltsSound DEF Sound
<1>4. CASE left.type = "ARRAY" /\ index.type = "INTEGER"
  <2>1. left.elements \in Seq(Parts(left))
    BY <1>1, <1>4 DEF IsObject
  <2>2. CASE index.int \in 0..(Len(left.elements) - 1)
    <3>1. index.int + 1 \in 1..Len(left.elements)
      BY <2>1, <2>2
    <3>2. left.elements[index.int + 1] \in Parts(left)
      BY <2>1, <3>1, ElementOfSeq
    <3>3. executeIndexExpression(left, index) = left.elements[index.int + 1]
      BY <1>4, <2>2 DEF executeIndexExpression
    <3>4. QED BY <1>1, <1>2, <3>2, <3>3
  <2>3. CASE index.int \notin 0..(Len(left.elements) - 1)
    BY <1>3, <1>4, <2>3 DEF executeIndexExpression
  <2>4. QED BY <2>2, <2>3
<1>5. CASE left.type = "DICT"
  <2>1. PICK hits : hits = {p \in left.pairs : SameKey(p.key, index)}
    OBVIOUS
  <2>2. executeIndexExpression(left, index) =
            IF ~Dictable(index) THEN UnusableKey(index)
            ELSE IF hits = {} THEN Null ELSE (CHOOSE p \in hits : TRUE).val
    BY <1>5, <2>1 DEF executeIndexExpression
  <2>3. hits # {} => (CHOOSE p \in hits : TRUE) \in left.pairs
    BY <2>1
  <2>4. hits # {} => (CHOOSE p \in hits : TRUE).val \in Parts(left)
    <3>1. Parts(left) = {p.val : p \in left.pairs}
      BY <1>5 DEF Parts
    <3>2. PICK hit : hit = CHOOSE p \in hits : TRUE
      OBVIOUS
    <3>3. hits # {} => hit.val \in Parts(left)
      BY <2>3, <3>1, <3>2
    <3>4. QED BY <3>2, <3>3
  <2>5. QED BY <1>1, <1>2, <1>3, <2>2, <2>4, UnusableKeySound
<1>6. CASE ~(left.type = "ARRAY" /\ index.type = "INTEGER") /\ left.type # "DICT"
  BY <1>3, <1>6 DEF executeIndexExpression
<1>7. QED BY <1>4, <1>5, <1>6

LEMMA GetAttributeSound ==
    ASSUME NEW S, NEW makes, Closed(S, makes), NEW object \in S, NEW name \in S
    PROVE  Sound(getAttribute(object, name), S, makes)
<1>1. Parts(object) \subseteq S
  BY DEF Closed, SoundValue
<1>2. ASSUME NEW v \in S PROVE Sound(v, S, makes)
  BY DEF Closed, Sound
<1>3. Sound(UnusableKey(name), S, makes) /\ Sound(Halts("nil"), S, makes) /\ Sound(Halts("error"), S, makes)
  BY HaltsSound, UnusableKeySound
<1>4. CASE name.type = "STRING" /\ object.type = "DATE" /\ name.str \in DOMAIN object.attributes
  <2>1. object.attributes[name.str] \in Parts(object)
    BY <1>4 DEF Parts
  <2>2. getAttribute(object, name) = object.attributes[name.str]
    BY <1>4 DEF getAttribute
  <2>3. QED BY <1>1, <1>2, <2>1, <2>2
<1>5. CASE ~(name.type = "STRING" /\ object.type = "DATE" /\ name.str \in DOMAIN object.attributes)
  BY <1>3, <1>5 DEF getAttribute
<1>6. QED BY <1>4, <1>5

LEMMA DictSound ==
    ASSUME NEW S, NEW makes, NEW keys, NEW values, \A i \in DOMAIN keys : values[i] \in S
    PROVE  Sound(buildDict(keys, values), S, makes)
<1>1. SoundValue(Dict(PairsOf(keys, values)), S, makes)
  <2>1. PICK v, pairs : v = Dict(pairs) /\ pairs = PairsOf(keys, values)
    OBVIOUS
  <2>2. \A p \in pairs : p.val \in S
    BY <2>1 DEF PairsOf
  <2>3. v.type = "DICT" /\ v.pairs = pairs
    BY <2>1 DEF Dict
  <2>4. Parts(v) = {p.val : p \in pairs}
    BY <2>3 DEF Parts
  <2>5. QED BY <2>1, <2>2, <2>3, <2>4 DEF SoundValue, IsObject, ObjectTypes
<1>2. \/ buildDict(keys, values) = Dict(PairsOf(keys, values))
      \/ \E key : buildDict(keys, values) = UnusableKey(key)
  BY DEF buildDict
<1>3. QED BY <1>1, <1>2, UnusableKeySound DEF Sound

LEMMA ArraySound ==
    ASSUME NEW S, NEW makes, NEW n \in Nat, NEW elements \in [1..n -> S]
    PROVE  SoundValue(Array(elements), S, makes)
<1>1. PICK v : v = Array(elements)
  OBVIOUS
<1>2. v.type = "ARRAY" /\ v.elements = elements
  BY <1>1 DEF Array
<1>3. PICK P : P = Parts(v)
  OBVIOUS
<1>4. P = {elements[i] : i \in 1..n}
  BY <1>2, <1>3 DEF Parts
<1>5. P \subseteq S
  BY <1>4
<1>6. elements \in Seq(P)
  BY <1>4
<1>7. QED BY <1>1, <1>2, <1>3, <1>5, <1>6 DEF SoundValue, IsObject, ObjectTypes

-----------------------------------------------------------------------------
(* The invariant: the machine without its values keeps the discipline, its *)
(* frames sit on their callees, and all its values are in some closed set. *)

MainFn == frames[1].cl.fn

Holds(S) ==
    /\ Closed(S, Makes(constants))
    /\ BuiltinResults \subseteq S
    /\ \A i \in DOMAIN constants : ~IsFunction(constants[i]) => constants[i] \in S
    /\ stack \in [0..(StackSize - 1) -> S] /\ globals \in [0..(GlobalSize - 1) -> S]
    /\ frames \in Seq(VMFrame(S \cup {Closure(MainFn, <<>>)}))
    /\ \A i \in 2..Len(frames) : frames[i].cl \in S /\ frames[i].cl.type = "CLOSURE_OBJ"

Rising == \A i, j \in 1..Len(frames) : i < j => frames[i].base < frames[j].base

Statuses == {"running", "done", "error", "locals", "frames", "nil", "divide"}

Inv ==
    /\ status \in Statuses
    /\ Len(frames) \in 1..MaxFrames
    /\ frames[1].cl = Closure(MainFn, <<>>) /\ MainFn = Main(MainFn.instructions)
    /\ CompiledProgram(MainFn.instructions, constants)
    /\ SoundChain(View(frames), sp, MainFn, FunctionsIn(constants), StackSize)
    /\ FrameSitsOnCallee
    /\ Rising
    /\ \E S : Holds(S)

\* A compiled program is the code that the lemmas about chains are about.
LEMMA CompiledCode ==
    ASSUME NEW code, NEW pool, CompiledProgram(code, pool)
    PROVE  SoundCode(Main(code), FunctionsIn(pool))
<1>1. /\ StackSound(Main(code), TRUE) /\ WellFormed(Main(code))
      /\ \A k \in DOMAIN pool : IsFunction(pool[k]) => StackSound(pool[k], FALSE) /\ WellFormed(pool[k])
  BY DEF CompiledProgram, Executable, Verified
<1>2. Main(code).numLocals = 0
  BY DEF Main, CompiledFunction
<1>3. ASSUME NEW fn \in FunctionsIn(pool)
      PROVE  WellFormed(fn) /\ StackSound(fn, FALSE)
  BY <1>1 DEF FunctionsIn
<1>4. QED BY <1>1, <1>2, <1>3 DEF SoundCode

\* The machine's frames, as a chain.
LEMMA InvChain ==
    ASSUME Inv
    PROVE  /\ SoundCode(MainFn, FunctionsIn(constants))
           /\ SoundChain(View(frames), sp, MainFn, FunctionsIn(constants), StackSize)
           /\ StackSize \in Nat /\ MaxFrames \in Nat \ {0} /\ GlobalSize \in Nat /\ sp \in Nat
           /\ Len(frames) \in Nat \ {0} /\ Len(View(frames)) = Len(frames)
           /\ \A i \in 1..Len(frames) : View(frames)[i] = ViewFrame(frames[i])
           /\ ViewFrame(currentFrame) = View(frames)[Len(View(frames))]
<1>1. PICK S : Holds(S)
  BY DEF Inv
<1>2. frames \in Seq(VMFrame(S \cup {Closure(MainFn, <<>>)}))
  BY <1>1 DEF Holds
<1>3. Len(View(frames)) = Len(frames) /\ \A i \in 1..Len(frames) : View(frames)[i] = ViewFrame(frames[i])
  BY <1>2, ViewIs
<1>4. StackSize \in Nat /\ MaxFrames \in Nat \ {0} /\ GlobalSize \in Nat
  BY VMAssumption
<1>5. Len(frames) \in Nat \ {0} /\ Len(frames) \in 1..Len(frames)
  BY <1>4 DEF Inv
<1>6. CompiledProgram(MainFn.instructions, constants) /\ MainFn = Main(MainFn.instructions)
  BY DEF Inv
<1>7. SoundCode(MainFn, FunctionsIn(constants))
  BY <1>6, CompiledCode
<1>8. SoundChain(View(frames), sp, MainFn, FunctionsIn(constants), StackSize)
  BY DEF Inv
<1>9. sp \in Nat
  BY <1>8 DEF SoundChain
<1>10. QED BY <1>3, <1>4, <1>5, <1>7, <1>8, <1>9 DEF currentFrame

\* The instruction about to be executed.
LEMMA Here ==
    ASSUME Inv, Running
    PROVE  /\ WellFormed(currentFrame.cl.fn) /\ currentFrame.pc \in Nat /\ currentFrame.base \in Nat
           /\ currentFrame.cl.fn.numLocals \in Nat
           /\ IsHead(Instructions, currentFrame.pc)
           /\ Len(frames) = 1 => ~Returns(Instruction)
           /\ Pops(Instruction) \in Nat /\ Pushes(Instruction) \in {0, 1}
           /\ sp - Pops(Instruction) >= currentFrame.base + currentFrame.cl.fn.numLocals
           /\ Pops(Instruction) > 0 => sp <= StackSize
           /\ ~OutOfStack(Pops(Instruction))
           /\ currentFrame.base <= StackSize
           /\ Instruction.op = "OpCall" => Instruction.args[1] \in Nat
                 /\ Pops(Instruction) = Instruction.args[1] + 1 /\ Pushes(Instruction) = 1
           /\ Instruction.op \in {"OpGetLocal", "OpSetLocal"} =>
                 Instruction.args[1] \in Nat /\ Instruction.args[1] < currentFrame.cl.fn.numLocals
<1>1. PICK top, chain, i, fn : /\ top = ViewFrame(currentFrame) /\ chain = View(frames)
                               /\ i = Instruction /\ fn = currentFrame.cl.fn
  OBVIOUS
<1>2. top.fn = fn /\ top.pc = currentFrame.pc /\ top.base = currentFrame.base
  BY <1>1 DEF ViewFrame
<1>3. top.pc < Len(top.fn.instructions) /\ i = At(top.fn.instructions, top.pc)
  BY <1>1, <1>2 DEF Running, Instruction, Instructions
<1>4. /\ SoundCode(MainFn, FunctionsIn(constants))
      /\ SoundChain(chain, sp, MainFn, FunctionsIn(constants), StackSize)
      /\ StackSize \in Nat /\ sp \in Nat /\ Len(chain) = Len(frames) /\ top = chain[Len(chain)]
  BY <1>1, InvChain
<1>5. /\ WellFormed(top.fn) /\ top.pc \in Nat /\ top.base \in Nat /\ top.base <= StackSize
      /\ top.fn.numLocals \in Nat
  BY ONLY <1>4, ChainTop
<1>6. /\ IsHead(top.fn.instructions, top.pc)
      /\ Len(chain) = 1 => ~Returns(i)
      /\ Pops(i) \in Nat /\ Pushes(i) \in {0, 1}
      /\ sp - Pops(i) >= Floor(top)
      /\ Pops(i) > 0 => sp <= StackSize
      /\ i.op = "OpCall" => i.args[1] \in Nat /\ Pops(i) = i.args[1] + 1 /\ Pushes(i) = 1
      /\ i.op \in {"OpGetLocal", "OpSetLocal"} => i.args[1] \in Nat /\ i.args[1] < top.fn.numLocals
  BY ONLY <1>3, <1>4, ChainStep
<1>7. sp - Pops(i) >= top.base + top.fn.numLocals
  BY <1>6 DEF Floor
<1>8. ~OutOfStack(Pops(i))
  BY <1>4, <1>5, <1>6, <1>7 DEF OutOfStack
<1>9. QED BY <1>1, <1>2, <1>4, <1>5, <1>6, <1>7, <1>8 DEF Instructions

\* The operands of an instruction are numbers.
LEMMA ArgsType ==
    ASSUME NEW fn, WellFormed(fn), NEW p \in Nat, IsHead(fn.instructions, p),
           NEW k \in 1..Len(OperandWidths(At(fn.instructions, p).op))
    PROVE  At(fn.instructions, p).args[k] \in Nat
<1>1. PICK i : i = At(fn.instructions, p)
  OBVIOUS
<1>2. fn.instructions \in Seq(Cells) /\ p + 1 \in 1..Len(fn.instructions)
  BY DEF WellFormed, IsHead
<1>3. i \in Cells
  BY <1>1, <1>2 DEF At
<1>4. Len(i.args) = Len(OperandWidths(i.op))
  BY <1>1 DEF WellFormed, IsHead
<1>5. i.args \in Seq(Nat)
  BY <1>3 DEF Cells
<1>6. QED BY <1>1, <1>4, <1>5

LEMMA ArgsHere ==
    ASSUME Inv, Running
    PROVE  /\ Instruction.op \in {"OpConstant", "OpGetGlobal", "OpSetGlobal", "OpGetBuiltin",
                                  "OpGetFree", "OpArray", "OpDict", "OpJump", "OpJumpNotTruthy",
                                  "OpWhile"} => Instruction.args[1] \in Nat
           /\ Instruction.op = "OpClosure" => Instruction.args[1] \in Nat /\ Instruction.args[2] \in Nat
<1>1. PICK fn, p : fn = currentFrame.cl.fn /\ p = currentFrame.pc
  OBVIOUS
<1>2. WellFormed(fn) /\ p \in Nat /\ IsHead(fn.instructions, p) /\ Instruction = At(fn.instructions, p)
  BY <1>1, Here DEF Instruction, Instructions
<1>3. ASSUME NEW k \in 1..Len(OperandWidths(Instruction.op))
      PROVE  Instruction.args[k] \in Nat
  BY <1>2, ArgsType
<1>4. QED BY <1>3 DEF OperandWidths

\* The function that runs, and the closure it runs for.
LEMMA UnitHere ==
    ASSUME Inv, NEW S, Holds(S)
    PROVE  /\ Len(frames) = 1 => currentFrame.cl = Closure(MainFn, <<>>)
           /\ Len(frames) > 1 => currentFrame.cl \in S /\ currentFrame.cl.type = "CLOSURE_OBJ"
           /\ currentFrame.cl.free \in Seq(S)
           /\ currentFrame.cl.fn \in FunctionsIn(constants) \cup {MainFn}
           /\ Executable(currentFrame.cl.fn)
           /\ OperandsSound(currentFrame.cl.fn, Len(currentFrame.cl.free), constants, BuiltinCount)
<1>1. PICK cl, n : cl = currentFrame.cl /\ n = Len(frames)
  OBVIOUS
<1>2. n \in Nat \ {0} /\ cl = frames[n].cl
  BY <1>1, InvChain DEF currentFrame
<1>3. CASE n = 1
  <2>1. cl = Closure(MainFn, <<>>)
    BY <1>2, <1>3 DEF Inv
  <2>2. cl.free = <<>> /\ cl.fn = MainFn
    BY <2>1 DEF Closure
  <2>3. MainFn = Main(MainFn.instructions) /\ CompiledProgram(MainFn.instructions, constants)
    BY DEF Inv
  <2>4. Executable(MainFn) /\ OperandsSound(MainFn, 0, constants, BuiltinCount)
    BY <2>3 DEF CompiledProgram, Verified
  <2>5. Len(cl.free) = 0 /\ cl.free \in Seq(S)
    BY <2>2
  <2>6. QED BY <1>1, <1>3, <2>1, <2>2, <2>4, <2>5
<1>4. CASE n > 1
  <2>1. n \in 2..n
    BY <1>2, <1>4
  <2>2. cl \in S /\ cl.type = "CLOSURE_OBJ"
    BY <1>1, <1>2, <2>1 DEF Holds
  <2>3. cl.free \in Seq(S) /\ SoundClosure(cl, Makes(constants))
    BY <2>2 DEF Holds, Closed, SoundValue
  <2>4. cl.fn \in FunctionsIn(constants) /\ OperandsSound(cl.fn, Len(cl.free), constants, BuiltinCount)
    BY <2>3 DEF SoundClosure, Makes
  <2>5. Executable(cl.fn)
    BY <2>4 DEF Inv, CompiledProgram, FunctionsIn
  <2>6. QED BY <1>1, <1>4, <2>2, <2>3, <2>4, <2>5
<1>5. QED BY <1>2, <1>3, <1>4

\* Every operand names something there is, of the kind that it has to be.
LEMMA OperandHere ==
    ASSUME Inv, Running, NEW S, Holds(S)
    PROVE  /\ ~OutOfRange
           /\ Instruction.op \in {"OpConstant", "OpClosure"} => Instruction.args[1] + 1 \in DOMAIN constants
           /\ Instruction.op = "OpConstant" => ~IsFunction(constants[Instruction.args[1] + 1])
           /\ Instruction.op = "OpClosure" => IsFunction(constants[Instruction.args[1] + 1])
           /\ Instruction.op = "OpGetFree" => Instruction.args[1] + 1 \in 1..Len(currentFrame.cl.free)
           /\ Instruction.op \in {"OpGetGlobal", "OpSetGlobal"} => Instruction.args[1] \in 0..(GlobalSize - 1)
           /\ Instruction.op = "OpDict" => Instruction.args[1] % 2 = 0
           /\ Instruction.op = "OpCurrentClosure" => Len(frames) > 1
<1>1. PICK i, fn, p, captured : /\ i = Instruction /\ fn = currentFrame.cl.fn /\ p = currentFrame.pc
                                /\ captured = Len(currentFrame.cl.free)
  OBVIOUS
<1>2. IsHead(fn.instructions, p) /\ p \in Nat /\ i = At(fn.instructions, p)
  BY <1>1, Here DEF Instruction, Instructions
<1>3. p \in 0..(Len(fn.instructions) - 1)
  BY <1>2 DEF IsHead
<1>4. OperandSound(i, fn, captured, constants, BuiltinCount)
  <2>1. OperandsSound(fn, captured, constants, BuiltinCount)
    BY <1>1, UnitHere
  <2>2. QED BY <1>2, <1>3, <2>1 DEF OperandsSound
<1>5. i.op \in {"OpGetGlobal", "OpSetGlobal"} => i.args[1] < GlobalSize
  <2>1. GlobalsFit(fn)
    BY <1>1, UnitHere DEF Executable
  <2>2. QED BY <1>2, <1>3, <2>1 DEF GlobalsFit
<1>6. constants \in Seq({constants[k] : k \in DOMAIN constants})
  BY DEF Inv, CompiledProgram
<1>7. DOMAIN constants = 1..Len(constants) /\ Len(constants) \in Nat
  BY <1>6
<1>8. /\ i.op \in {"OpConstant", "OpClosure", "OpGetGlobal", "OpSetGlobal", "OpGetFree", "OpGetBuiltin"} =>
             i.args[1] \in Nat
      /\ GlobalSize \in Nat /\ BuiltinCount \in Nat
  BY <1>1, ArgsHere, VMAssumption
<1>9. captured \in Nat
  <2>1. currentFrame.cl.free \in Seq(S)
    BY UnitHere
  <2>2. QED BY <1>1, <2>1
<1>10. i.op = "OpCurrentClosure" => Len(frames) > 1
  <2>1. SUFFICES ASSUME i.op = "OpCurrentClosure", Len(frames) = 1 PROVE FALSE
    BY InvChain
  <2>2. fn = MainFn
    BY <1>1, <2>1, UnitHere DEF Closure
  <2>3. ~NamesItself(MainFn.instructions)
    BY DEF Inv, CompiledProgram, Verified
  <2>4. QED BY <1>2, <1>3, <2>1, <2>2, <2>3 DEF NamesItself
<1>11. /\ i.op \in {"OpConstant", "OpClosure"} => i.args[1] < Len(constants)
       /\ i.op = "OpConstant" => ~IsFunction(constants[i.args[1] + 1])
       /\ i.op = "OpClosure" => IsFunction(constants[i.args[1] + 1])
       /\ i.op = "OpGetFree" => i.args[1] < captured
       /\ i.op = "OpGetBuiltin" => i.args[1] < BuiltinCount
       /\ i.op = "OpDict" => i.args[1] % 2 = 0
  BY <1>4 DEF OperandSound, IsFunction
<1>12. ~OutOfRange
  BY <1>1, <1>5, <1>7, <1>8, <1>9, <1>11 DEF OutOfRange
<1>13. QED BY <1>1, <1>5, <1>7, <1>8, <1>9, <1>10, <1>11, <1>12

-----------------------------------------------------------------------------
(* The steps keep the invariant.                                           *)

\* Whatever a running machine goes on to, with values of a closed set.
LEMMA StepInv ==
    ASSUME Inv, Running, NEW S, Holds(S), NEW T, S \subseteq T, Closed(T, Makes(constants)),
           constants' = constants, status' = status,
           stack' \in [0..(StackSize - 1) -> T], globals' \in [0..(GlobalSize - 1) -> T],
           frames' \in Seq(VMFrame(T \cup {Closure(MainFn, <<>>)})),
           Len(frames') \in 1..MaxFrames, frames'[1].cl = frames[1].cl,
           \A i \in 2..Len(frames') : frames'[i].cl \in T /\ frames'[i].cl.type = "CLOSURE_OBJ",
           SoundChain(View(frames'), sp', MainFn, FunctionsIn(constants), StackSize),
           FrameSitsOnCallee', Rising'
    PROVE  Inv'
<1>1. MainFn' = MainFn
  BY DEF MainFn
<1>2. Holds(T)'
  BY <1>1 DEF Holds
<1>3. frames'[1].cl = Closure(MainFn', <<>>) /\ MainFn' = Main(MainFn'.instructions)
      /\ CompiledProgram(MainFn'.instructions, constants')
  BY <1>1 DEF Inv
<1>4. SoundChain(View(frames'), sp', MainFn', FunctionsIn(constants'), StackSize)
  BY <1>1
<1>5. status' \in Statuses
  BY DEF Inv
<1>6. (\E U : Holds(U))'
  BY <1>2
<1>7. QED BY <1>3, <1>4, <1>5, <1>6 DEF Inv

LEMMA HaltInv ==
    ASSUME Inv, NEW how \in Statuses, Halt(how)
    PROVE  Inv'
<1>1. /\ status' = how /\ constants' = constants /\ globals' = globals /\ stack' = stack
      /\ sp' = sp /\ frames' = frames
  BY DEF Halt
<1>2. (\E S : Holds(S))'
  <2>1. PICK S : Holds(S)
    BY DEF Inv
  <2>2. Holds(S)'
    BY <1>1, <2>1 DEF Holds, MainFn
  <2>3. QED BY <2>2
<1>3. MainFn' = MainFn /\ FrameSitsOnCallee' /\ Rising'
  BY <1>1 DEF Inv, MainFn, FrameSitsOnCallee, Rising
<1>4. QED BY <1>1, <1>2, <1>3 DEF Inv

\* The function that runs goes on, and changes nothing below its base.
LEMMA MoveInv ==
    ASSUME Inv, Running, NEW S, Holds(S), NEW T, S \subseteq T, Closed(T, Makes(constants)),
           NEW pc \in Successors(Instructions, currentFrame.pc),
           Fits(sp, Instruction, StackSize),
           Goto(pc), sp' = HeightAfter(sp, Instruction),
           constants' = constants, status' = status,
           stack' \in [0..(StackSize - 1) -> T], globals' \in [0..(GlobalSize - 1) -> T],
           \A k \in 0..(StackSize - 1) : k < currentFrame.base => stack'[k] = stack[k]
    PROVE  Inv'
<1>1. PICK chain, top, i, n, C : /\ chain = View(frames) /\ top = ViewFrame(currentFrame) /\ i = Instruction
                                 /\ n = Len(frames) /\ C = S \cup {Closure(MainFn, <<>>)}
  OBVIOUS
<1>2. top.fn = currentFrame.cl.fn /\ top.pc = currentFrame.pc /\ top.base = currentFrame.base
  BY <1>1 DEF ViewFrame
<1>3. top.pc < Len(top.fn.instructions) /\ i = At(top.fn.instructions, top.pc)
      /\ pc \in Successors(top.fn.instructions, top.pc)
  BY <1>1, <1>2 DEF Running, Instruction, Instructions
<1>4. /\ SoundCode(MainFn, FunctionsIn(constants))
      /\ SoundChain(chain, sp, MainFn, FunctionsIn(constants), StackSize)
      /\ StackSize \in Nat /\ sp \in Nat /\ Len(chain) = n /\ top = chain[Len(chain)]
      /\ n \in Nat \ {0}
  BY <1>1, InvChain
<1>5. Fits(sp, i, StackSize)
  BY <1>1
<1>6. SoundChain(Moved(chain, pc), HeightAfter(sp, i), MainFn, FunctionsIn(constants), StackSize)
  BY ONLY <1>3, <1>4, <1>5, MoveChain
<1>7. pc \in Nat
  BY ONLY <1>3, <1>4, ChainNext
<1>8. frames' = Moved(frames, pc)
  BY DEF Goto, Moved
<1>9. frames \in Seq(VMFrame(C))
  BY <1>1 DEF Holds
<1>10. /\ frames' \in Seq(VMFrame(C)) /\ Len(frames') = n /\ View(frames') = Moved(chain, pc)
       /\ \A k \in 1..n : frames'[k].cl = frames[k].cl /\ frames'[k].base = frames[k].base
  BY <1>1, <1>4, <1>7, <1>8, <1>9, ViewMove
<1>11. frames' \in Seq(VMFrame(T \cup {Closure(MainFn, <<>>)}))
  <2>1. PICK P, Q : P = VMFrame(C) /\ Q = VMFrame(T \cup {Closure(MainFn, <<>>)})
    OBVIOUS
  <2>2. P \subseteq Q
    BY <1>1, <2>1 DEF VMFrame
  <2>3. QED BY <1>10, <2>1, <2>2, SeqMonotonic
<1>12. SoundChain(View(frames'), sp', MainFn, FunctionsIn(constants), StackSize)
  BY <1>1, <1>6, <1>10
<1>13. Rising'
  <2> SUFFICES ASSUME NEW j \in 1..Len(frames'), NEW k \in 1..Len(frames'), j < k
               PROVE  frames'[j].base < frames'[k].base
    BY DEF Rising
  <2>1. frames[j].base < frames[k].base
    BY <1>1, <1>10 DEF Inv, Rising
  <2>2. QED BY <1>10, <2>1
<1>14. FrameSitsOnCallee'
  <2> SUFFICES ASSUME NEW j \in 2..Len(frames')
               PROVE  frames'[j].base \in 1..StackSize /\ stack'[frames'[j].base - 1] = frames'[j].cl
    BY DEF FrameSitsOnCallee
  <2>1. j \in 2..n /\ j \in 1..n /\ n \in 1..n
    BY <1>4, <1>10
  <2>2. frames[j].base \in 1..StackSize /\ stack[frames[j].base - 1] = frames[j].cl
    BY <1>1, <2>1 DEF Inv, FrameSitsOnCallee
  <2>3. frames[j].base <= currentFrame.base
    <3>1. currentFrame = frames[n] /\ currentFrame.base \in Nat
      BY <1>1, Here DEF currentFrame
    <3>2. j < n => frames[j].base < frames[n].base
      BY <1>1, <2>1 DEF Inv, Rising
    <3>3. QED BY <2>1, <2>2, <3>1, <3>2, <1>4
  <2>4. frames[j].base - 1 \in 0..(StackSize - 1) /\ frames[j].base - 1 < currentFrame.base
    BY <1>4, <2>2, <2>3, Here, SMTT(30)
  <2>5. stack'[frames[j].base - 1] = stack[frames[j].base - 1]
    BY <2>4
  <2>6. QED BY <1>10, <2>1, <2>2, <2>5
<1>15. \A k \in 2..Len(frames') : frames'[k].cl \in T /\ frames'[k].cl.type = "CLOSURE_OBJ"
  BY <1>1, <1>4, <1>10 DEF Holds
<1>16. Len(frames') \in 1..MaxFrames /\ frames'[1].cl = frames[1].cl
  BY <1>1, <1>4, <1>10 DEF Inv
<1>17. QED BY <1>11, <1>12, <1>13, <1>14, <1>15, <1>16, StepInv

LEMMA Producing ==
    ASSUME Pushes(Instruction) = 1
    PROVE  Following \in Successors(Instructions, currentFrame.pc)
BY DEF Pushes, Returns, Following, Successors, Instruction, Instructions

\* The values an instruction takes are on the stack.
LEMMA ValueIn ==
    ASSUME Inv, Running, NEW S, Holds(S), NEW k \in Nat, k < Pops(Instruction)
    PROVE  Value(k) \in S /\ IsObject(Value(k))
<1>1. stack \in [0..(StackSize - 1) -> S] /\ Closed(S, Makes(constants))
  BY DEF Holds
<1>2. sp - 1 - k \in 0..(StackSize - 1)
  <2>1. PICK n : n = Pops(Instruction)
    OBVIOUS
  <2>2. n \in Nat /\ k < n /\ sp - n >= 0 /\ sp <= StackSize /\ sp \in Nat /\ StackSize \in Nat
    BY <2>1, Here, InvChain, SMTT(30)
  <2>3. QED BY ONLY <2>2, k \in Nat
<1>3. Value(k) \in S
  BY <1>1, <1>2 DEF Value
<1>4. QED BY <1>1, <1>3 DEF Closed, SoundValue

LEMMA TopmostIn ==
    ASSUME Inv, Running, NEW S, Holds(S), NEW n \in Nat, n <= Pops(Instruction)
    PROVE  Topmost(n) \in [1..n -> S]
<1>1. stack \in [0..(StackSize - 1) -> S]
  BY DEF Holds
<1>2. \A i \in 1..n : sp - n + i - 1 \in 0..(StackSize - 1)
  <2>1. PICK m : m = Pops(Instruction)
    OBVIOUS
  <2>2. /\ m \in Nat /\ n <= m /\ sp - m >= 0 /\ sp \in Nat /\ StackSize \in Nat
        /\ n > 0 => sp <= StackSize
    BY <2>1, Here, InvChain, SMTT(30)
  <2>3. QED BY ONLY <2>2, n \in Nat
<1>3. QED BY <1>1, <1>2 DEF Topmost

LEMMA YieldInv ==
    ASSUME Inv, Running, NEW S, Holds(S), NEW outcome, Sound(outcome, S, Makes(constants)),
           Pushes(Instruction) = 1, Yield(outcome)
    PROVE  Inv'
<1>1. CASE outcome.type = "halts"
  <2>1. outcome.how \in {"error", "nil", "divide"}
    BY <1>1 DEF Sound, SoundValue, IsObject, ObjectTypes
  <2>2. Halt(outcome.how)
    BY <1>1 DEF Yield
  <2>3. QED BY <2>1, <2>2, HaltInv DEF Statuses
<1>2. CASE outcome.type # "halts" /\ Halt("error")
  BY <1>2, HaltInv DEF Statuses
<1>3. CASE outcome.type # "halts" /\ Push(Pops(Instruction), outcome)
  <2>1. PICK n, T : n = Pops(Instruction) /\ T = S \cup {outcome}
    OBVIOUS
  <2>2. /\ sp - n < StackSize /\ stack' = [stack EXCEPT ![sp - n] = outcome] /\ sp' = sp - n + 1
        /\ Goto(Following) /\ constants' = constants /\ globals' = globals /\ status' = status
    BY <1>3, <2>1 DEF Push
  <2>3. SoundValue(outcome, S, Makes(constants))
    BY <1>3 DEF Sound
  <2>4. /\ S \subseteq T /\ Closed(T, Makes(constants))
        /\ stack \in [0..(StackSize - 1) -> S] /\ globals \in [0..(GlobalSize - 1) -> S]
    BY <2>1, <2>3, Grow DEF Holds
  <2>5. /\ n \in Nat /\ sp \in Nat /\ StackSize \in Nat /\ sp - n >= currentFrame.base
        /\ currentFrame.base \in Nat /\ (n > 0 => sp <= StackSize)
    BY <2>1, Here, InvChain
  <2>6. stack' \in [0..(StackSize - 1) -> T]
    BY <2>1, <2>2, <2>4
  <2>7. globals' \in [0..(GlobalSize - 1) -> T]
    BY <2>2, <2>4
  <2>8. \A k \in 0..(StackSize - 1) : k < currentFrame.base => stack'[k] = stack[k]
    BY <2>2, <2>4, <2>5
  <2>9. sp' = HeightAfter(sp, Instruction)
    BY <2>1, <2>2 DEF HeightAfter
  <2>10. Fits(sp, Instruction, StackSize)
    BY <2>1, <2>2, <2>5, FitsWhen
  <2>11. Following \in Successors(Instructions, currentFrame.pc)
    BY Producing
  <2>12. QED BY <2>2, <2>4, <2>6, <2>7, <2>8, <2>9, <2>10, <2>11, MoveInv
<1>4. QED BY <1>1, <1>2, <1>3 DEF Yield

LEMMA LoadedSound ==
    ASSUME Inv, Running, NEW S, Holds(S), Instruction.op \in LoadOps, ~BeyondStack
    PROVE  SoundValue(Loaded, S, Makes(constants))
<1>1. \A v \in S : SoundValue(v, S, Makes(constants))
  BY DEF Holds, Closed
<1>2. CASE Instruction.op = "OpConstant"
  <2>1. Loaded \in S
    BY <1>2, OperandHere DEF Loaded, Holds
  <2>2. QED BY <1>1, <2>1
<1>3. CASE Instruction.op = "OpTrue"
  BY <1>3, BooleanSound DEF Loaded
<1>4. CASE Instruction.op = "OpFalse"
  BY <1>4, BooleanSound DEF Loaded
<1>5. CASE Instruction.op = "OpNull"
  BY <1>5, NullSound DEF Loaded
<1>6. CASE Instruction.op = "OpGetGlobal"
  <2>1. Instruction.args[1] \in 0..(GlobalSize - 1) /\ globals \in [0..(GlobalSize - 1) -> S]
    BY <1>6, OperandHere DEF Holds
  <2>2. QED BY <1>1, <1>6, <2>1 DEF Loaded
<1>7. CASE Instruction.op = "OpGetLocal"
  <2>1. Slot \in 0..(StackSize - 1)
    BY <1>7, Here, InvChain, SMTT(30) DEF BeyondStack, Slot
  <2>2. stack \in [0..(StackSize - 1) -> S]
    BY DEF Holds
  <2>3. QED BY <1>1, <1>7, <2>1, <2>2 DEF Loaded
<1>8. CASE Instruction.op = "OpGetBuiltin"
  <2>1. PICK v : v = Builtin(Instruction.args[1])
    OBVIOUS
  <2>2. IsObject(v) /\ v.type \in SimpleTypes
    BY <2>1 DEF IsObject, Builtin, ObjectTypes, SimpleTypes
  <2>3. QED BY <1>8, <2>1, <2>2, SimpleSound DEF Loaded
<1>9. CASE Instruction.op = "OpGetFree"
  <2>1. PICK free : free = currentFrame.cl.free
    OBVIOUS
  <2>2. free \in Seq(S) /\ Instruction.args[1] + 1 \in 1..Len(free)
    BY <1>9, <2>1, OperandHere, UnitHere
  <2>3. free[Instruction.args[1] + 1] \in S
    BY <2>2, ElementOfSeq
  <2>4. QED BY <1>1, <1>9, <2>1, <2>3 DEF Loaded
<1>10. CASE Instruction.op = "OpCurrentClosure"
  <2>1. currentFrame.cl \in S
    BY <1>10, OperandHere, UnitHere
  <2>2. QED BY <1>1, <1>10, <2>1 DEF Loaded
<1>11. QED BY <1>2, <1>3, <1>4, <1>5, <1>6, <1>7, <1>8, <1>9, <1>10 DEF LoadOps

\* A closure is made of a function that reads no more captures than it is given.
LEMMA MadeClosure ==
    ASSUME Inv, Running, Instruction.op = "OpClosure", NEW S, Holds(S)
    PROVE  SoundValue(Closure(constants[Instruction.args[1] + 1], Topmost(Instruction.args[2])), S, Makes(constants))
<1>1. PICK k, n, fn, free, cl, unit, p :
        /\ k = Instruction.args[1] + 1 /\ n = Instruction.args[2] /\ fn = constants[k]
        /\ free = Topmost(n) /\ cl = Closure(fn, free)
        /\ unit = currentFrame.cl.fn /\ p = currentFrame.pc
  OBVIOUS
<1>2. k \in DOMAIN constants /\ IsFunction(fn) /\ n \in Nat /\ Instruction.args[1] = k - 1
  BY <1>1, OperandHere, ArgsHere
<1>3. free \in [1..n -> S]
  <2>1. n <= Pops(Instruction)
    BY <1>1, <1>2 DEF Pops, ArithmeticOps, ComparisonOps
  <2>2. QED BY <1>1, <1>2, <2>1, TopmostIn
<1>4. free \in Seq(S) /\ Len(free) = n
  BY <1>2, <1>3
<1>5. OperandsSound(fn, n, constants, BuiltinCount)
  <2>1. PICK code : code = MainFn.instructions
    OBVIOUS
  <2>2. Verified(code, constants, BuiltinCount) /\ MainFn = Main(code)
    BY <2>1 DEF Inv, CompiledProgram
  <2>3. PICK functions, units : /\ functions = {j \in DOMAIN constants : IsFunction(constants[j])}
                                /\ units = {Main(code)} \cup {constants[j] : j \in functions}
    OBVIOUS
  <2>4. k \in functions
    BY <1>1, <1>2, <2>3
  <2>5. unit \in units
    <3>1. unit \in FunctionsIn(constants) \cup {MainFn}
      BY <1>1, UnitHere
    <3>2. QED BY <2>2, <2>3, <3>1 DEF FunctionsIn
  <2>6. p \in ClosuresIn(unit, k) /\ At(unit.instructions, p).args[2] = n
    <3>1. IsHead(unit.instructions, p) /\ Instruction = At(unit.instructions, p)
      BY <1>1, Here DEF Instruction, Instructions
    <3>2. QED BY <1>1, <1>2, <3>1 DEF ClosuresIn, IsHead
  <2>7. n \in CaptureCounts(units, constants, k)
    BY <2>5, <2>6 DEF CaptureCounts
  <2>8. \A captured \in CaptureCounts(units, constants, k) :
            OperandsSound(constants[k], captured, constants, BuiltinCount)
    BY <2>2, <2>3, <2>4 DEF Verified
  <2>9. QED BY <1>1, <2>7, <2>8
<1>6. fn \in FunctionsIn(constants)
  BY <1>1, <1>2 DEF FunctionsIn
<1>7. cl.type = "CLOSURE_OBJ" /\ cl.fn = fn /\ cl.free = free
  BY <1>1 DEF Closure
<1>8. SoundClosure(cl, Makes(constants))
  BY <1>2, <1>4, <1>5, <1>6, <1>7 DEF SoundClosure, Makes
<1>9. IsObject(cl) /\ Parts(cl) \subseteq S
  BY <1>7 DEF IsObject, ObjectTypes, Parts
<1>10. QED BY <1>1, <1>4, <1>7, <1>8, <1>9 DEF SoundValue

\* The actions that end in a push, of an outcome that is sound.
Produces == \/ Load \/ BinaryOperation \/ And \/ Or \/ Comparison \/ Bang \/ Minus
            \/ MakeArray \/ MakeDict \/ Index \/ GetAttr \/ MakeClosure \/ callBuiltin

\* The instructions that look at what their values are.
MayHalt(op) ==
    op \in ArithmeticOps \cup ComparisonOps \cup
        {"OpMinus", "OpIndex", "OpDict", "OpCall", "OpClosure", "OpGetAttr"}

\* What an instruction works on, whoever sees to it: its values, its operands, and what
\* its operands name.
Supplied(S, makes) ==
    /\ Closed(S, makes) /\ BuiltinResults \subseteq S
    /\ \A k \in Nat : k < Pops(Instruction) => Value(k) \in S
    /\ \A n \in Nat : n <= Pops(Instruction) => Topmost(n) \in [1..n -> S]
    /\ Instruction.op \in {"OpArray", "OpDict", "OpCall"} => Instruction.args[1] \in Nat
    /\ Instruction.op \in LoadOps /\ ~OutOfRange /\ ~BeyondStack => Loaded \in S \/ SoundValue(Loaded, S, makes)
    /\ Instruction.op = "OpClosure" /\ ~OutOfRange /\ IsFunction(constants[Instruction.args[1] + 1]) =>
          SoundValue(Closure(constants[Instruction.args[1] + 1], Topmost(Instruction.args[2])), S, makes)

Outcome(outcome, S, makes) ==
    /\ Sound(outcome, S, makes)
    /\ outcome.type = "halts" => MayHalt(Instruction.op)
    /\ Yield(outcome)

LEMMA NoHalt ==
    ASSUME NEW v, NEW S, NEW makes, SoundValue(v, S, makes)
    PROVE  Sound(v, S, makes) /\ v.type # "halts"
BY DEF Sound, SoundValue, IsObject, ObjectTypes

LEMMA BuiltinSound ==
    ASSUME Instruction.op = "OpCall", NEW S, NEW makes, Supplied(S, makes),
           NEW result \in BuiltinResults \cup HandedBack(Topmost(Instruction.args[1]))
    PROVE  SoundValue(IF result = Nil THEN Null ELSE result, S, makes)
<1>1. PICK n, args : n = Instruction.args[1] /\ args = Topmost(n)
  OBVIOUS
<1>2. n \in Nat /\ n <= Pops(Instruction)
  <2>1. n \in Nat
    BY <1>1 DEF Supplied
  <2>2. Pops(Instruction) = n + 1
    BY <1>1 DEF Pops, ArithmeticOps, ComparisonOps
  <2>3. QED BY <2>1, <2>2
<1>3. args \in [1..n -> S]
  BY <1>1, <1>2 DEF Supplied
<1>4. HandedBack(args) \subseteq S
  <2>1. ASSUME NEW i \in 1..n
        PROVE  args[i] \in S /\ Parts(args[i]) \subseteq S
    BY <1>3 DEF Supplied, Closed, SoundValue
  <2>2. DOMAIN args = 1..n
    BY <1>3
  <2>3. QED BY <2>1, <2>2 DEF HandedBack
<1>5. result \in S
  BY <1>1, <1>4 DEF Supplied
<1>6. SoundValue(result, S, makes) /\ SoundValue(Null, S, makes)
  BY <1>5, NullSound DEF Supplied, Closed
<1>7. QED BY <1>6

LEMMA ProducesOn == Produces => Running /\ ~OutOfStack(Pops(Instruction))
BY DEF Produces, Load, BinaryOperation, And, Or, Comparison, Bang, Minus, MakeArray, MakeDict,
       Index, GetAttr, MakeClosure, callBuiltin, On

LEMMA Produced ==
    ASSUME Produces, NEW S, NEW makes, Supplied(S, makes)
    PROVE  /\ Running /\ Pushes(Instruction) = 1
           /\ Instruction.op \in {"OpGetLocal", "OpSetLocal"} => ~BeyondStack
           /\ \E outcome : Outcome(outcome, S, makes)
<1>0. Closed(S, makes)
  BY DEF Supplied
<1>14. ASSUME NEW k \in Nat, k < Pops(Instruction)
       PROVE  Value(k) \in S /\ IsObject(Value(k))
  BY <1>14 DEF Supplied, Closed, SoundValue
<1>1. CASE Load
  <2>1. Running /\ Instruction.op \in LoadOps /\ ~OutOfRange /\ ~BeyondStack /\ Yield(Loaded)
    BY <1>1 DEF Load, On
  <2>2. Sound(Loaded, S, makes) /\ Loaded.type # "halts"
    BY <1>0, <2>1, NoHalt DEF Supplied, Closed
  <2>3. Pushes(Instruction) = 1
    BY <2>1 DEF Pushes, Returns, LoadOps
  <2>4. QED BY <2>1, <2>2, <2>3 DEF Outcome
<1>2. CASE BinaryOperation
  <2>1. Running /\ Instruction.op \in ArithmeticOps
        /\ Yield(executeBinaryOperation(Instruction.op, Value(1), Value(0)))
    BY <1>2 DEF BinaryOperation, On
  <2>2. Pushes(Instruction) = 1 /\ Pops(Instruction) = 2 /\ MayHalt(Instruction.op)
    BY <2>1 DEF Pushes, Pops, Returns, MayHalt, ArithmeticOps
  <2>3. IsObject(Value(0)) /\ IsObject(Value(1))
    BY <1>14, <2>1, <2>2
  <2>4. Sound(executeBinaryOperation(Instruction.op, Value(1), Value(0)), S, makes)
    BY <2>1, <2>3, BinaryOperationSound
  <2>5. QED BY <2>1, <2>2, <2>4 DEF Outcome, ArithmeticOps
<1>3. CASE And
  <2>1. PICK b : Running /\ Instruction.op = "OpAnd" /\ Yield(Boolean(b))
    BY <1>3 DEF And, On
  <2>2. Sound(Boolean(b), S, makes) /\ Boolean(b).type # "halts"
    BY BooleanSound, NoHalt
  <2>3. Pushes(Instruction) = 1
    BY <2>1 DEF Pushes, Returns
  <2>4. QED BY <2>1, <2>2, <2>3 DEF Outcome
<1>4. CASE Or
  <2>1. PICK b : Running /\ Instruction.op = "OpOr" /\ Yield(Boolean(b))
    BY <1>4 DEF Or, On
  <2>2. Sound(Boolean(b), S, makes) /\ Boolean(b).type # "halts"
    BY BooleanSound, NoHalt
  <2>3. Pushes(Instruction) = 1
    BY <2>1 DEF Pushes, Returns
  <2>4. QED BY <2>1, <2>2, <2>3 DEF Outcome
<1>5. CASE Comparison
  <2>1. PICK outcome \in executeComparison(Instruction.op, Value(1), Value(0)) :
            Running /\ Instruction.op \in ComparisonOps /\ Yield(outcome)
    BY <1>5 DEF Comparison, On
  <2>2. Pushes(Instruction) = 1 /\ MayHalt(Instruction.op)
    BY <2>1 DEF Pushes, Returns, MayHalt, ComparisonOps
  <2>3. Sound(outcome, S, makes)
    BY <2>1, ComparisonSound
  <2>4. QED BY <2>1, <2>2, <2>3 DEF Outcome, ComparisonOps
<1>6. CASE Bang
  <2>1. PICK outcome \in executeBangOperator(Value(0)) :
            Running /\ Instruction.op = "OpBang" /\ Yield(outcome)
    BY <1>6 DEF Bang, On
  <2>2. Sound(outcome, S, makes) /\ outcome.type # "halts"
    BY BangSound, NoHalt
  <2>3. Pushes(Instruction) = 1
    BY <2>1 DEF Pushes, Returns
  <2>4. QED BY <2>1, <2>2, <2>3 DEF Outcome
<1>7. CASE Minus
  <2>1. Running /\ Instruction.op = "OpMinus" /\ Yield(executeMinusOperator(Value(0)))
    BY <1>7 DEF Minus, On
  <2>2. Pushes(Instruction) = 1 /\ Pops(Instruction) = 1 /\ MayHalt(Instruction.op)
    BY <2>1 DEF Pushes, Pops, Returns, MayHalt, ArithmeticOps, ComparisonOps
  <2>3. Sound(executeMinusOperator(Value(0)), S, makes)
    BY <1>14, <2>1, <2>2, MinusSound
  <2>4. QED BY <2>1, <2>2, <2>3 DEF Outcome
<1>8. CASE MakeArray
  <2>1. Running /\ Instruction.op = "OpArray" /\ Yield(Array(Topmost(Instruction.args[1])))
    BY <1>8 DEF MakeArray, On
  <2>2. /\ Pushes(Instruction) = 1 /\ Pops(Instruction) = Instruction.args[1]
        /\ Instruction.args[1] \in Nat
    BY <2>1 DEF Supplied, Pushes, Pops, Returns, ArithmeticOps, ComparisonOps
  <2>3. Topmost(Instruction.args[1]) \in [1..Instruction.args[1] -> S]
    BY <2>1, <2>2 DEF Supplied
  <2>4. SoundValue(Array(Topmost(Instruction.args[1])), S, makes)
    BY <2>2, <2>3, ArraySound
  <2>5. QED BY <2>1, <2>2, <2>4, NoHalt DEF Outcome
<1>9. CASE MakeDict
  <2>1. PICK n, pairs, half, keys, values :
            /\ n = Instruction.args[1] /\ pairs = Topmost(n) /\ half = 1..(n \div 2)
            /\ keys = [i \in half |-> pairs[2 * i - 1]] /\ values = [i \in half |-> pairs[2 * i]]
            /\ Running /\ Instruction.op = "OpDict" /\ Yield(buildDict(keys, values))
    BY <1>9 DEF MakeDict, On
  <2>2. Pushes(Instruction) = 1 /\ Pops(Instruction) = n /\ n \in Nat /\ MayHalt(Instruction.op)
    BY <2>1 DEF Supplied, Pushes, Pops, Returns, MayHalt, ArithmeticOps, ComparisonOps
  <2>3. pairs \in [1..n -> S]
    <3>1. n <= Pops(Instruction) /\ pairs = Topmost(n)
      BY <2>1, <2>2
    <3>2. QED BY <2>2, <3>1 DEF Supplied
  <2>4. \A i \in DOMAIN keys : values[i] \in S
    <3>1. \A i \in half : 2 * i \in 1..n
      BY <2>1, <2>2
    <3>2. QED BY <2>1, <2>3, <3>1
  <2>5. Sound(buildDict(keys, values), S, makes)
    BY <2>4, DictSound
  <2>6. QED BY <2>1, <2>2, <2>5 DEF Outcome
<1>10. CASE Index
  <2>1. Running /\ Instruction.op = "OpIndex" /\ Yield(executeIndexExpression(Value(1), Value(0)))
    BY <1>10 DEF Index, On
  <2>2. Pushes(Instruction) = 1 /\ Pops(Instruction) = 2 /\ MayHalt(Instruction.op)
    BY <2>1 DEF Pushes, Pops, Returns, MayHalt, ArithmeticOps, ComparisonOps
  <2>3. Value(0) \in S /\ Value(1) \in S
    BY <1>14, <2>1, <2>2
  <2>4. QED BY <1>0, <2>1, <2>2, <2>3, IndexSound DEF Outcome
<1>11. CASE GetAttr
  <2>1. Running /\ Instruction.op = "OpGetAttr" /\ Yield(getAttribute(Value(1), Value(0)))
    BY <1>11 DEF GetAttr, On
  <2>2. Pushes(Instruction) = 1 /\ Pops(Instruction) = 2 /\ MayHalt(Instruction.op)
    BY <2>1 DEF Pushes, Pops, Returns, MayHalt, ArithmeticOps, ComparisonOps
  <2>3. Value(0) \in S /\ Value(1) \in S
    BY <1>14, <2>1, <2>2
  <2>4. QED BY <1>0, <2>1, <2>2, <2>3, GetAttributeSound DEF Outcome
<1>12. CASE MakeClosure
  <2>1. PICK fn, closure :
            /\ fn = constants[Instruction.args[1] + 1] /\ closure = Closure(fn, Topmost(Instruction.args[2]))
            /\ Running /\ Instruction.op = "OpClosure" /\ ~OutOfRange
            /\ Yield(IF IsFunction(fn) THEN closure ELSE Halts("error"))
    BY <1>12 DEF MakeClosure, On
  <2>2. Pushes(Instruction) = 1 /\ MayHalt(Instruction.op)
    BY <2>1 DEF Pushes, Returns, MayHalt
  <2>3. CASE IsFunction(fn)
    <3>1. Sound(closure, S, makes)
      BY <2>1, <2>3, NoHalt DEF Supplied
    <3>2. QED BY <2>1, <2>2, <2>3, <3>1 DEF Outcome
  <2>4. CASE ~IsFunction(fn)
    <3>1. Sound(Halts("error"), S, makes)
      BY HaltsSound
    <3>2. QED BY <2>1, <2>2, <2>4, <3>1 DEF Outcome
  <2>5. QED BY <2>3, <2>4
<1>13. CASE callBuiltin
  <2>1. PICK result \in BuiltinResults \cup HandedBack(Topmost(Instruction.args[1])) :
            /\ Running /\ Instruction.op = "OpCall"
            /\ Yield(IF result = Nil THEN Null ELSE result)
    BY <1>13 DEF callBuiltin, On
  <2>2. Pushes(Instruction) = 1
    BY <2>1 DEF Pushes, Returns
  <2>3. PICK outcome : outcome = IF result = Nil THEN Null ELSE result
    OBVIOUS
  <2>4. SoundValue(outcome, S, makes)
    BY <2>1, <2>3, BuiltinSound
  <2>5. QED BY <2>1, <2>2, <2>3, <2>4, NoHalt DEF Outcome
<1>15. QED BY <1>1, <1>2, <1>3, <1>4, <1>5, <1>6, <1>7, <1>8, <1>9, <1>10, <1>11, <1>12, <1>13 DEF Produces

\* On code that verifies an instruction is supplied, by the height it finds.
LEMMA SuppliedHere ==
    ASSUME Inv, Running, NEW S, Holds(S)
    PROVE  Supplied(S, Makes(constants))
<1>1. Closed(S, Makes(constants)) /\ BuiltinResults \subseteq S
  BY DEF Holds
<1>2. ASSUME NEW k \in Nat, k < Pops(Instruction)
      PROVE  Value(k) \in S
  BY <1>2, ValueIn
<1>3. ASSUME NEW n \in Nat, n <= Pops(Instruction)
      PROVE  Topmost(n) \in [1..n -> S]
  BY <1>3, TopmostIn
<1>4. Instruction.op \in {"OpArray", "OpDict", "OpCall"} => Instruction.args[1] \in Nat
  BY ArgsHere, Here
<1>5. Instruction.op \in LoadOps /\ ~BeyondStack => SoundValue(Loaded, S, Makes(constants))
  BY LoadedSound
<1>6. Instruction.op = "OpClosure" =>
        SoundValue(Closure(constants[Instruction.args[1] + 1], Topmost(Instruction.args[2])), S, Makes(constants))
  BY MadeClosure
<1>7. QED BY <1>1, <1>2, <1>3, <1>4, <1>5, <1>6 DEF Supplied

LEMMA ProducesSupplied ==
    ASSUME Inv, Produces, NEW S, Holds(S)
    PROVE  Supplied(S, Makes(constants))
BY SuppliedHere, ProducesOn

LEMMA ProducesInv == ASSUME Inv, Produces PROVE Inv'
<1>1. PICK S : Holds(S)
  BY DEF Inv
<1>0. Supplied(S, Makes(constants))
  BY <1>1, ProducesSupplied
<1>2. PICK outcome : Outcome(outcome, S, Makes(constants))
  BY <1>0, Produced
<1>3. Running /\ Pushes(Instruction) = 1
  BY <1>0, Produced
<1>4. QED BY <1>1, <1>2, <1>3, YieldInv DEF Outcome

\* The actions that take what they need from the stack and push nothing.
Consumes == Pop \/ SetGlobal \/ SetLocal \/ Jump \/ JumpNotTruthy \/ While

LEMMA Consumed ==
    ASSUME sp \in Int, Consumes
    PROVE  /\ Running /\ Pushes(Instruction) = 0 /\ ~BeyondStack
           /\ ~Returns(Instruction) /\ Instruction.op # "OpCall"
           /\ sp' = sp - Pops(Instruction) /\ constants' = constants /\ status' = status
           /\ \E pc \in Successors(Instructions, currentFrame.pc) : Goto(pc)
           /\ \/ stack' = stack
              \/ SetLocal /\ stack' = [stack EXCEPT ![Slot] = Value(0)]
           /\ \/ globals' = globals
              \/ SetGlobal /\ globals' = [globals EXCEPT ![Instruction.args[1]] = Value(0)]
<1>1. CASE Pop
  <2>1. Running /\ Instruction.op = "OpPop"
    BY <1>1 DEF Pop, On
  <2>2. Following \in Successors(Instructions, currentFrame.pc)
    BY <2>1 DEF Successors, Returns, Following, Instruction
  <2>3. Pops(Instruction) = 1 /\ Pushes(Instruction) = 0
    BY <2>1 DEF Pops, Pushes, ArithmeticOps, ComparisonOps
  <2>4. QED BY <1>1, <2>1, <2>2, <2>3 DEF Pop, BeyondStack, Returns
<1>2. CASE SetGlobal
  <2>1. Running /\ Instruction.op = "OpSetGlobal"
    BY <1>2 DEF SetGlobal, On
  <2>2. Following \in Successors(Instructions, currentFrame.pc)
    BY <2>1 DEF Successors, Returns, Following, Instruction
  <2>3. Pops(Instruction) = 1 /\ Pushes(Instruction) = 0
    BY <2>1 DEF Pops, Pushes, ArithmeticOps, ComparisonOps
  <2>4. QED BY <1>2, <2>1, <2>2, <2>3 DEF SetGlobal, BeyondStack, Returns
<1>3. CASE SetLocal
  <2>1. Running /\ Instruction.op = "OpSetLocal" /\ ~BeyondStack
    BY <1>3 DEF SetLocal, On
  <2>2. Following \in Successors(Instructions, currentFrame.pc)
    BY <2>1 DEF Successors, Returns, Following, Instruction
  <2>3. Pops(Instruction) = 1 /\ Pushes(Instruction) = 0
    BY <2>1 DEF Pops, Pushes, ArithmeticOps, ComparisonOps
  <2>4. QED BY <1>3, <2>1, <2>2, <2>3 DEF SetLocal, Returns
<1>4. CASE Jump
  <2>1. Running /\ Instruction.op = "OpJump" /\ Goto(Instruction.args[1])
    BY <1>4 DEF Jump, On, Branch
  <2>2. Instruction.args[1] \in Successors(Instructions, currentFrame.pc)
    BY <2>1 DEF Successors, Returns, Instruction
  <2>3. Pops(Instruction) = 0 /\ Pushes(Instruction) = 0
    BY <2>1 DEF Pops, Pushes, ArithmeticOps, ComparisonOps
  <2>4. QED BY <1>4, <2>1, <2>2, <2>3 DEF Jump, Branch, BeyondStack, Returns
<1>5. CASE JumpNotTruthy
  <2>1. PICK pc \in {Following, Instruction.args[1]} :
            Running /\ Instruction.op = "OpJumpNotTruthy" /\ Goto(pc)
    BY <1>5 DEF JumpNotTruthy, On, Branch
  <2>2. pc \in Successors(Instructions, currentFrame.pc)
    BY <2>1 DEF Successors, Returns, Following, Instruction
  <2>3. Pops(Instruction) = 1 /\ Pushes(Instruction) = 0
    BY <2>1 DEF Pops, Pushes, ArithmeticOps, ComparisonOps
  <2>4. QED BY <1>5, <2>1, <2>2, <2>3 DEF JumpNotTruthy, Branch, BeyondStack, Returns
<1>6. CASE While
  <2>1. Running /\ Instruction.op = "OpWhile" /\ Goto(Instruction.args[1])
    BY <1>6 DEF While, On, Branch
  <2>2. Instruction.args[1] \in Successors(Instructions, currentFrame.pc)
    BY <2>1 DEF Successors, Returns, Instruction
  <2>3. Pops(Instruction) = 1 /\ Pushes(Instruction) = 0
    BY <2>1 DEF Pops, Pushes, ArithmeticOps, ComparisonOps
  <2>4. QED BY <1>6, <2>1, <2>2, <2>3 DEF While, Branch, BeyondStack, Returns
<1>7. QED BY <1>1, <1>2, <1>3, <1>4, <1>5, <1>6 DEF Consumes

LEMMA ConsumesInv == ASSUME Inv, Consumes PROVE Inv'
<1>1. PICK S : Holds(S)
  BY DEF Inv
<1>2. PICK pc \in Successors(Instructions, currentFrame.pc) : Goto(pc)
  BY InvChain, Consumed
<1>3. /\ Running /\ Pushes(Instruction) = 0 /\ constants' = constants /\ status' = status
      /\ sp' = sp - Pops(Instruction)
  BY InvChain, Consumed
<1>4. /\ stack \in [0..(StackSize - 1) -> S] /\ globals \in [0..(GlobalSize - 1) -> S]
      /\ Closed(S, Makes(constants))
  BY <1>1 DEF Holds
<1>5. ASSUME SetLocal
      PROVE  Value(0) \in S /\ Slot >= currentFrame.base /\ Slot \in Nat
  <2>1. Running /\ Instruction.op = "OpSetLocal"
    BY <1>5 DEF SetLocal, On
  <2>2. Pops(Instruction) = 1
    BY <2>1 DEF Pops, ArithmeticOps, ComparisonOps
  <2>3. Value(0) \in S
    BY <1>1, <2>1, <2>2, ValueIn
  <2>4. QED BY <2>1, <2>3, Here DEF Slot
<1>6. ASSUME SetGlobal
      PROVE  Value(0) \in S
  <2>1. Running /\ Instruction.op = "OpSetGlobal"
    BY <1>6 DEF SetGlobal, On
  <2>2. Pops(Instruction) = 1
    BY <2>1 DEF Pops, ArithmeticOps, ComparisonOps
  <2>3. QED BY <1>1, <2>1, <2>2, ValueIn
<1>7. stack' \in [0..(StackSize - 1) -> S]
  BY <1>4, <1>5, InvChain, Consumed, SMTT(30)
<1>8. globals' \in [0..(GlobalSize - 1) -> S]
  BY <1>4, <1>6, InvChain, Consumed
<1>9. \A k \in 0..(StackSize - 1) : k < currentFrame.base => stack'[k] = stack[k]
  <2>1. CASE stack' = stack
    BY <2>1
  <2>2. CASE SetLocal /\ stack' = [stack EXCEPT ![Slot] = Value(0)]
    <3>1. \A k \in 0..(StackSize - 1) : k < currentFrame.base => k # Slot
      BY <1>3, <1>5, <2>2, Here, InvChain
    <3>2. QED BY <1>4, <2>2, <3>1
  <2>3. QED BY <2>1, <2>2, InvChain, Consumed
<1>10. Fits(sp, Instruction, StackSize) /\ sp' = HeightAfter(sp, Instruction)
  <2>1. /\ Pops(Instruction) \in Nat /\ sp \in Nat /\ StackSize \in Nat
        /\ Pops(Instruction) > 0 => sp <= StackSize
    BY <1>3, Here, InvChain
  <2>2. QED BY <1>3, <2>1, FitsWhen DEF HeightAfter
<1>11. QED BY <1>1, <1>2, <1>3, <1>4, <1>7, <1>8, <1>9, <1>10, MoveInv

\* What a call finds below its arguments is a closure of the program.
LEMMA CalleeSound ==
    ASSUME Inv, Running, Instruction.op = "OpCall", NEW S, Holds(S)
    PROVE  /\ Callee \in S /\ Instruction.args[1] \in Nat
           /\ Callee.type = "CLOSURE_OBJ" => Callee.fn \in FunctionsIn(constants)
<1>1. Instruction.args[1] \in Nat /\ Instruction.args[1] < Pops(Instruction)
  BY Here
<1>2. Value(Instruction.args[1]) \in S
  BY <1>1, ValueIn
<1>3. Callee \in S
  BY <1>2 DEF Callee
<1>4. Callee.type = "CLOSURE_OBJ" => SoundClosure(Callee, Makes(constants))
  BY <1>3 DEF Holds, Closed, SoundValue
<1>5. QED BY <1>1, <1>3, <1>4 DEF SoundClosure, Makes

\* The chain that a call makes.
LEMMA CalledChain ==
    ASSUME Inv, callClosure
    PROVE  /\ Running /\ Instruction.op = "OpCall" /\ Callee.type = "CLOSURE_OBJ"
           /\ Len(frames) < MaxFrames /\ Callee.fn.numParameters = Instruction.args[1]
           /\ Callee.fn \in FunctionsIn(constants)
           /\ Following \in Nat /\ basePointer \in 1..StackSize
           /\ frames' = Entered(frames, Following, Callee, basePointer)
           /\ sp' = basePointer + Callee.fn.numLocals
           /\ constants' = constants /\ globals' = globals /\ stack' = stack /\ status' = status
           /\ View(frames') = Called(View(frames), Following, Callee.fn, basePointer)
           /\ SoundChain(View(frames'), sp', MainFn, FunctionsIn(constants), StackSize)
           /\ basePointer > currentFrame.base
<1>1. /\ Running /\ Instruction.op = "OpCall" /\ Callee.type = "CLOSURE_OBJ"
      /\ Len(frames) < MaxFrames /\ Callee.fn.numParameters = Instruction.args[1]
      /\ sp' = basePointer + Callee.fn.numLocals
      /\ constants' = constants /\ globals' = globals /\ stack' = stack /\ status' = status
  BY DEF callClosure, On
<1>2. PICK S : Holds(S)
  BY DEF Inv
<1>3. Callee \in S /\ Callee.fn \in FunctionsIn(constants) /\ Instruction.args[1] \in Nat
  BY <1>1, <1>2, CalleeSound
<1>4. PICK chain, top, i, fn, base, pc, cl, C :
        /\ chain = View(frames) /\ top = ViewFrame(currentFrame) /\ i = Instruction
        /\ cl = Callee /\ fn = cl.fn /\ base = basePointer /\ pc = Following
        /\ C = S \cup {Closure(MainFn, <<>>)}
  OBVIOUS
<1>5. top.fn = currentFrame.cl.fn /\ top.pc = currentFrame.pc /\ top.base = currentFrame.base
  BY <1>4 DEF ViewFrame
<1>6. /\ top.pc < Len(top.fn.instructions) /\ i = At(top.fn.instructions, top.pc)
      /\ pc = NextOffset(top.fn.instructions, top.pc)
      /\ i.op = "OpCall" /\ fn \in FunctionsIn(constants) /\ fn.numParameters = i.args[1]
      /\ base = sp - fn.numParameters
  BY <1>1, <1>3, <1>4, <1>5 DEF Running, Instruction, Instructions, Following, basePointer
<1>7. /\ SoundCode(MainFn, FunctionsIn(constants))
      /\ SoundChain(chain, sp, MainFn, FunctionsIn(constants), StackSize)
      /\ StackSize \in Nat /\ sp \in Nat /\ top = chain[Len(chain)] /\ Len(frames) \in Nat \ {0}
  BY <1>4, InvChain
<1>8. /\ SoundChain(Called(chain, pc, fn, base), base + fn.numLocals, MainFn, FunctionsIn(constants), StackSize)
      /\ base \in Nat /\ base > Floor(top) /\ sp <= StackSize
  BY ONLY <1>6, <1>7, CallChain, SMTT(30)
<1>9. pc \in Nat
  <2>1. pc \in Successors(top.fn.instructions, top.pc)
    BY <1>6 DEF Successors, Returns
  <2>2. QED BY ONLY <1>6, <1>7, <2>1, ChainNext
<1>10. frames' = Entered(frames, pc, cl, base)
  BY <1>4 DEF callClosure, Entered, Moved
<1>11. frames \in Seq(VMFrame(C))
  BY <1>2, <1>4 DEF Holds
<1>12. View(frames') = Called(chain, pc, fn, base)
  <2>1. cl \in C
    BY <1>3, <1>4
  <2>2. View(Entered(frames, pc, cl, base)) = Called(View(frames), pc, cl.fn, base)
    <3>1. PICK old, new : old = frames /\ new = Entered(old, pc, cl, base)
      OBVIOUS
    <3>2. old \in Seq(VMFrame(C)) /\ Len(old) \in Nat \ {0} /\ base \in Nat
      BY <1>7, <1>8, <1>11, <3>1
    <3>3. /\ new \in Seq(VMFrame(C)) /\ Grown(Moved(old, pc), NewFrame(cl, base), new)
          /\ View(new) = Called(View(old), pc, cl.fn, base)
      BY ONLY <1>9, <2>1, <3>1, <3>2, ViewCall
    <3>4. QED BY <3>1, <3>3
  <2>3. QED BY <1>4, <1>10, <2>2
<1>13. base > currentFrame.base /\ base \in 1..StackSize
  <2>1. currentFrame.base \in Nat /\ currentFrame.cl.fn.numLocals \in Nat
    BY <1>1, Here
  <2>2. base > currentFrame.base
    BY <1>5, <1>8, <2>1 DEF Floor
  <2>3. fn.numParameters \in Nat
    BY <1>1, <1>3, <1>4
  <2>4. base = sp - fn.numParameters /\ base \in Nat /\ sp <= StackSize /\ sp \in Nat /\ StackSize \in Nat
    BY ONLY <1>6, <1>7, <1>8
  <2>5. base \in 1..StackSize
    BY ONLY <2>1, <2>2, <2>3, <2>4
  <2>6. QED BY <2>2, <2>5
<1>14. QED BY <1>1, <1>3, <1>4, <1>8, <1>9, <1>10, <1>12, <1>13

LEMMA callClosureInv == ASSUME Inv, callClosure PROVE Inv'
<1>1. PICK S : Holds(S)
  BY DEF Inv
<1>2. PICK n, cl, base, pc, C : /\ n = Len(frames) /\ cl = Callee /\ base = basePointer /\ pc = Following
                                /\ C = S \cup {Closure(MainFn, <<>>)}
  OBVIOUS
<1>3. /\ Running /\ cl \in S /\ cl.type = "CLOSURE_OBJ" /\ pc \in Nat /\ base \in 1..StackSize
      /\ frames' = Entered(frames, pc, cl, base)
      /\ constants' = constants /\ globals' = globals /\ stack' = stack /\ status' = status
      /\ SoundChain(View(frames'), sp', MainFn, FunctionsIn(constants), StackSize)
      /\ base > currentFrame.base /\ n < MaxFrames
  BY <1>1, <1>2, CalledChain, CalleeSound
<1>4. n \in Nat \ {0} /\ MaxFrames \in Nat /\ StackSize \in Nat
  BY <1>2, InvChain
<1>5. frames \in Seq(VMFrame(C))
  BY <1>1, <1>2 DEF Holds
<1>6. /\ frames' \in Seq(VMFrame(C)) /\ Len(frames') = n + 1
      /\ \A i \in 1..n : frames'[i].cl = frames[i].cl /\ frames'[i].base = frames[i].base
      /\ frames'[n + 1].cl = cl /\ frames'[n + 1].base = base
  <2>1. cl \in C /\ base \in Nat /\ pc \in Nat /\ Len(frames) = n /\ Len(frames) \in Nat \ {0}
    BY <1>2, <1>3, <1>4
  <2>2. PICK old, new : old = frames /\ new = Entered(old, pc, cl, base)
    OBVIOUS
  <2>3. old \in Seq(VMFrame(C)) /\ Len(old) \in Nat \ {0} /\ new = Entered(old, pc, cl, base)
    BY <1>5, <2>1, <2>2
  <2>4. new \in Seq(VMFrame(C)) /\ Grown(Moved(old, pc), NewFrame(cl, base), new)
    BY ONLY <2>1, <2>3, ViewCall
  <2>5. Len(Moved(old, pc)) = Len(old) /\ \A i \in 1..Len(old) : Moved(old, pc)[i].cl = old[i].cl /\ Moved(old, pc)[i].base = old[i].base
    BY ONLY <2>1, <2>3, ViewMove
  <2>6. NewFrame(cl, base).cl = cl /\ NewFrame(cl, base).base = base
    BY DEF NewFrame
  <2>7. frames' = new /\ old = frames
    BY <1>3, <2>2
  <2>8. QED BY <2>1, <2>4, <2>5, <2>6, <2>7 DEF Grown
<1>7. /\ stack \in [0..(StackSize - 1) -> S] /\ globals \in [0..(GlobalSize - 1) -> S]
      /\ Closed(S, Makes(constants))
  BY <1>1 DEF Holds
<1>8. Rising'
  <2> SUFFICES ASSUME NEW j \in 1..Len(frames'), NEW k \in 1..Len(frames'), j < k
               PROVE  frames'[j].base < frames'[k].base
    BY DEF Rising
  <2>1. j \in 1..n
    BY <1>4, <1>6
  <2>2. CASE k \in 1..n
    <3>1. frames[j].base < frames[k].base
      BY <1>2, <2>1, <2>2 DEF Inv, Rising
    <3>2. QED BY <1>6, <2>1, <2>2, <3>1
  <2>3. CASE k = n + 1
    <3>1. j < n => frames[j].base < frames[n].base
      BY <1>2, <1>4, <2>1 DEF Inv, Rising
    <3>2. currentFrame = frames[n] /\ currentFrame.base \in Nat
      BY <1>2, <1>3, Here DEF currentFrame
    <3>3. frames[j].base \in Int
      <4>1. frames[j] \in VMFrame(C)
        BY <1>2, <1>5, <2>1, ElementOfSeq
      <4>2. QED BY <4>1 DEF VMFrame
    <3>4. frames[j].base < base
      BY <1>3, <1>4, <2>1, <3>1, <3>2, <3>3
    <3>5. QED BY <1>6, <2>1, <2>3, <3>4
  <2>4. QED BY <1>4, <1>6, <2>2, <2>3
<1>9. FrameSitsOnCallee'
  <2> SUFFICES ASSUME NEW j \in 2..Len(frames')
               PROVE  frames'[j].base \in 1..StackSize /\ stack'[frames'[j].base - 1] = frames'[j].cl
    BY DEF FrameSitsOnCallee
  <2>1. CASE j \in 2..n
    <3>1. frames[j].base \in 1..StackSize /\ stack[frames[j].base - 1] = frames[j].cl
      BY <1>2, <2>1 DEF Inv, FrameSitsOnCallee
    <3>2. j \in 1..n
      BY <1>4, <2>1
    <3>3. QED BY <1>3, <1>6, <3>1, <3>2
  <2>2. CASE j = n + 1
    <3>1. stack[base - 1] = cl
      <4>1. base - 1 = sp - 1 - Instruction.args[1]
        <5>1. Instruction.args[1] \in Nat /\ sp \in Nat
          BY <1>1, <1>3, CalledChain, CalleeSound, InvChain
        <5>2. PICK a, p : a = Instruction.args[1] /\ p = sp /\ a \in Nat /\ p \in Nat
          BY <5>1
        <5>3. base = p - a
          BY <1>2, <5>2 DEF basePointer
        <5>4. base - 1 = p - 1 - a
          BY ONLY <5>2, <5>3
        <5>5. QED BY <5>2, <5>4
      <4>2. QED BY <1>2, <4>1 DEF Callee, Value
    <3>2. QED BY <1>3, <1>6, <2>2, <3>1
  <2>3. QED BY <1>4, <1>6, <2>1, <2>2
<1>10. \A i \in 2..Len(frames') : frames'[i].cl \in S /\ frames'[i].cl.type = "CLOSURE_OBJ"
  <2> SUFFICES ASSUME NEW j \in 2..Len(frames')
               PROVE  frames'[j].cl \in S /\ frames'[j].cl.type = "CLOSURE_OBJ"
    OBVIOUS
  <2>1. CASE j \in 2..n
    <3>1. frames[j].cl \in S /\ frames[j].cl.type = "CLOSURE_OBJ"
      BY <1>1, <1>2, <2>1 DEF Holds
    <3>2. j \in 1..n
      BY <1>4, <2>1
    <3>3. QED BY <1>6, <3>1, <3>2
  <2>2. CASE j = n + 1
    BY <1>3, <1>6, <2>2
  <2>3. QED BY <1>4, <1>6, <2>1, <2>2
<1>11. Len(frames') \in 1..MaxFrames /\ frames'[1].cl = frames[1].cl
  BY <1>3, <1>4, <1>6
<1>12. QED BY <1>1, <1>2, <1>3, <1>6, <1>7, <1>8, <1>9, <1>10, <1>11, StepInv

LEMMA PoppedChain ==
    ASSUME Inv, Return
    PROVE  /\ Running /\ Returns(Instruction) /\ Len(frames) > 1
           /\ currentFrame.base \in 1..StackSize
           /\ frames' = Popped(frames) /\ sp' = currentFrame.base
           /\ constants' = constants /\ globals' = globals /\ status' = status
           /\ stack' = [stack EXCEPT ![currentFrame.base - 1] =
                           IF Instruction.op = "OpReturn" THEN Null ELSE Value(0)]
           /\ View(frames') = Popped(View(frames))
           /\ SoundChain(View(frames'), sp', MainFn, FunctionsIn(constants), StackSize)
<1>1. Running /\ Instruction.op \in {"OpReturnValue", "OpReturn"} /\ Len(frames) > 1
  BY DEF Return, On
<1>2. PICK n : n = Len(frames)
  OBVIOUS
<1>3. n \in Nat /\ n > 1 /\ n \in 2..n
  BY <1>1, <1>2, InvChain
<1>4. currentFrame.base \in 1..StackSize
  BY <1>2, <1>3 DEF Inv, FrameSitsOnCallee, currentFrame
<1>5. ~(currentFrame.base > StackSize)
  BY <1>4, InvChain
<1>6. /\ frames' = Popped(frames) /\ sp' = currentFrame.base
      /\ constants' = constants /\ globals' = globals /\ status' = status
      /\ stack' = [stack EXCEPT ![currentFrame.base - 1] =
                      IF Instruction.op = "OpReturn" THEN Null ELSE Value(0)]
  BY <1>5 DEF Return, Popped
<1>7. PICK S : Holds(S)
  BY DEF Inv
<1>8. PICK C : C = S \cup {Closure(MainFn, <<>>)}
  OBVIOUS
<1>9. frames \in Seq(VMFrame(C)) /\ Len(frames) \in Nat /\ Len(frames) > 1
  BY <1>2, <1>3, <1>7, <1>8 DEF Holds
<1>10. View(frames') = Popped(View(frames))
  <2>1. View(Popped(frames)) = Popped(View(frames))
    BY ONLY <1>9, ViewPop
  <2>2. QED BY <1>6, <2>1
<1>11. PICK chain, top : chain = View(frames) /\ top = ViewFrame(currentFrame)
  OBVIOUS
<1>12. /\ SoundCode(MainFn, FunctionsIn(constants))
       /\ SoundChain(chain, sp, MainFn, FunctionsIn(constants), StackSize)
       /\ StackSize \in Nat /\ top = chain[Len(chain)] /\ Len(chain) > 1
  BY <1>1, <1>11, InvChain
<1>13. SoundChain(Popped(chain), top.base, MainFn, FunctionsIn(constants), StackSize)
  BY ONLY <1>12, ReturnChain
<1>14. top.base = currentFrame.base
  BY <1>11 DEF ViewFrame
<1>15. SoundChain(View(frames'), sp', MainFn, FunctionsIn(constants), StackSize)
  BY <1>6, <1>10, <1>11, <1>13, <1>14
<1>16. QED BY <1>1, <1>4, <1>6, <1>10, <1>15 DEF Returns

LEMMA ReturnInv == ASSUME Inv, Return PROVE Inv'
<1>1. PICK S : Holds(S)
  BY DEF Inv
<1>2. PICK n, T, v, b : /\ n = Len(frames) /\ T = S \cup {Null} /\ b = currentFrame.base
                        /\ v = IF Instruction.op = "OpReturn" THEN Null ELSE Value(0)
  OBVIOUS
<1>3. /\ Running /\ Returns(Instruction) /\ n > 1 /\ b \in 1..StackSize
      /\ frames' = Popped(frames) /\ sp' = b
      /\ constants' = constants /\ globals' = globals /\ status' = status
      /\ stack' = [stack EXCEPT ![b - 1] = v]
      /\ SoundChain(View(frames'), sp', MainFn, FunctionsIn(constants), StackSize)
  BY <1>2, PoppedChain
<1>4. n \in Nat /\ StackSize \in Nat /\ n \in 1..n
  BY <1>2, <1>3, InvChain
<1>5. v \in T
  <2>1. CASE Instruction.op = "OpReturnValue"
    <3>1. Pops(Instruction) = 1
      BY <2>1 DEF Pops, ArithmeticOps, ComparisonOps
    <3>2. Value(0) \in S
      BY <1>1, <1>3, <3>1, ValueIn
    <3>3. QED BY <1>2, <2>1, <3>2
  <2>2. CASE Instruction.op = "OpReturn"
    BY <1>2, <2>2
  <2>3. QED BY <1>3, <2>1, <2>2 DEF Returns
<1>6. /\ stack \in [0..(StackSize - 1) -> S] /\ globals \in [0..(GlobalSize - 1) -> S]
      /\ S \subseteq T /\ Closed(T, Makes(constants))
  <2>1. Closed(S, Makes(constants)) /\ SoundValue(Null, S, Makes(constants))
    BY <1>1, NullSound DEF Holds
  <2>2. Closed(T, Makes(constants))
    BY <1>2, <2>1, Grow
  <2>3. QED BY <1>1, <1>2, <2>2 DEF Holds
<1>7. stack' \in [0..(StackSize - 1) -> T] /\ globals' \in [0..(GlobalSize - 1) -> T]
  BY <1>3, <1>5, <1>6
<1>8. /\ frames' \in Seq(VMFrame(T \cup {Closure(MainFn, <<>>)})) /\ Len(frames') = n - 1
      /\ \A i \in 1..(n - 1) : frames'[i] = frames[i]
  <2>1. PICK C, D : C = S \cup {Closure(MainFn, <<>>)} /\ D = T \cup {Closure(MainFn, <<>>)}
    OBVIOUS
  <2>2. frames \in Seq(VMFrame(C)) /\ Len(frames) \in Nat /\ Len(frames) > 1
    BY <1>1, <1>2, <1>3, <1>4, <2>1 DEF Holds
  <2>3. /\ Popped(frames) \in Seq(VMFrame(C)) /\ Len(Popped(frames)) = Len(frames) - 1
        /\ \A i \in 1..(Len(frames) - 1) : Popped(frames)[i] = frames[i]
    BY ONLY <2>2, ViewPop
  <2>4. VMFrame(C) \subseteq VMFrame(D)
    BY <1>2, <2>1 DEF VMFrame
  <2>5. Popped(frames) \in Seq(VMFrame(D))
    BY ONLY <2>3, <2>4, SeqMonotonic
  <2>6. QED BY <1>2, <1>3, <2>1, <2>3, <2>5
<1>9. Rising'
  <2> SUFFICES ASSUME NEW j \in 1..Len(frames'), NEW k \in 1..Len(frames'), j < k
               PROVE  frames'[j].base < frames'[k].base
    BY DEF Rising
  <2>1. j \in 1..n /\ k \in 1..n /\ j \in 1..(n - 1) /\ k \in 1..(n - 1)
    BY <1>4, <1>8
  <2>2. frames[j].base < frames[k].base
    BY <1>2, <2>1 DEF Inv, Rising
  <2>3. QED BY <1>8, <2>1, <2>2
<1>10. FrameSitsOnCallee'
  <2> SUFFICES ASSUME NEW j \in 2..Len(frames')
               PROVE  frames'[j].base \in 1..StackSize /\ stack'[frames'[j].base - 1] = frames'[j].cl
    BY DEF FrameSitsOnCallee
  <2>1. j \in 2..n /\ j \in 1..n /\ j \in 1..(n - 1) /\ j < n
    BY <1>4, <1>8
  <2>2. frames[j].base \in 1..StackSize /\ stack[frames[j].base - 1] = frames[j].cl
    BY <1>2, <2>1 DEF Inv, FrameSitsOnCallee
  <2>3. frames[j].base < b
    BY <1>2, <1>4, <2>1 DEF Inv, Rising, currentFrame
  <2>4. frames[j].base - 1 # b - 1 /\ frames[j].base - 1 \in 0..(StackSize - 1)
    BY <1>3, <1>4, <2>2, <2>3
  <2>5. stack'[frames[j].base - 1] = stack[frames[j].base - 1]
    BY <1>3, <1>6, <2>4
  <2>6. QED BY <1>8, <2>1, <2>2, <2>5
<1>11. \A i \in 2..Len(frames') : frames'[i].cl \in T /\ frames'[i].cl.type = "CLOSURE_OBJ"
  BY <1>1, <1>2, <1>4, <1>6, <1>8 DEF Holds
<1>12. Len(frames') \in 1..MaxFrames /\ frames'[1].cl = frames[1].cl
  <2>1. n <= MaxFrames /\ MaxFrames \in Nat
    BY <1>2, InvChain DEF Inv
  <2>2. QED BY <1>3, <1>4, <1>8, <2>1
<1>13. QED BY <1>1, <1>3, <1>6, <1>7, <1>8, <1>9, <1>10, <1>11, <1>12, StepInv

LEMMA PanicInv == ASSUME Inv, Panic PROVE Inv'
<1>1. Running
  BY DEF Panic
<1>2. PICK S : Holds(S)
  BY DEF Inv
<1>3. ~OutOfStack(Pops(Instruction)) /\ ~(Returns(Instruction) /\ Len(frames) = 1) /\ ~OutOfRange
  BY <1>1, <1>2, Here, OperandHere
<1>4. Halt("locals")
  BY <1>3 DEF Panic
<1>5. QED BY <1>4, HaltInv DEF Statuses

LEMMA NextInv == ASSUME Inv, [Next]_vars PROVE Inv'
<1>1. CASE Produces
  BY <1>1, ProducesInv
<1>2. CASE Consumes
  BY <1>2, ConsumesInv
<1>3. CASE callClosure
  BY <1>3, callClosureInv
<1>4. CASE callFails
  <2>1. Halt("nil") \/ Halt("error") \/ Halt("frames")
    BY <1>4 DEF callFails
  <2>2. QED BY <2>1, HaltInv DEF Statuses
<1>5. CASE Return
  BY <1>5, ReturnInv
<1>6. CASE Panic
  BY <1>6, PanicInv
<1>7. CASE Finish
  <2>1. Halt("done")
    BY <1>7 DEF Finish
  <2>2. QED BY <2>1, HaltInv DEF Statuses
<1>8. CASE UNCHANGED vars
  <2>1. /\ status' = status /\ constants' = constants /\ globals' = globals /\ stack' = stack
        /\ sp' = sp /\ frames' = frames
    BY <1>8 DEF vars
  <2>2. status \in Statuses /\ Halt(status)
    BY <2>1 DEF Inv, Halt
  <2>3. QED BY <2>2, HaltInv
<1>9. QED BY <1>1, <1>2, <1>3, <1>4, <1>5, <1>6, <1>7, <1>8 DEF Next, Produces, Consumes

-----------------------------------------------------------------------------
(* The initial states.                                                     *)

\* What a run starts from: what a program brings, and nothing else.
Given(pool) == BuiltinResults \cup {v \in {pool[i] : i \in DOMAIN pool} : ~IsFunction(v)} \cup {Nil}

LEMMA GivenClosed ==
    ASSUME NEW code, NEW pool, CompiledProgram(code, pool), NEW makes
    PROVE  Closed(Given(pool), makes)
<1> SUFFICES ASSUME NEW v \in Given(pool) PROVE SoundValue(v, Given(pool), makes)
  BY DEF Closed
<1>1. CASE v \in BuiltinResults
  <2>1. IsObject(v) /\ v.type # "CLOSURE_OBJ" /\ Parts(v) \subseteq BuiltinResults
    BY <1>1, ResultsAssumption
  <2>2. QED BY <2>1 DEF SoundValue, Given
<1>2. CASE v \in {pool[i] : i \in DOMAIN pool} /\ ~IsFunction(v)
  <2>1. IsObject(v) /\ v.type \in {"INTEGER", "FLOAT", "STRING"}
    BY <1>2 DEF CompiledProgram
  <2>2. QED BY <2>1, SimpleSound DEF SimpleTypes
<1>3. CASE v = Nil
  BY <1>3, NullSound
<1>4. QED BY <1>1, <1>2, <1>3 DEF Given

LEMMA InitInv == Init => Inv
<1> SUFFICES ASSUME Init PROVE Inv
  OBVIOUS
<1>1. PICK p \in Programs : Start(p.instructions, p.constants, Fresh(GlobalSize))
  BY DEF Init
<1>2. PICK code, pool, cl, frame, S : /\ code = p.instructions /\ pool = p.constants
                                      /\ cl = Closure(Main(code), <<>>) /\ frame = NewFrame(cl, 0)
                                      /\ S = Given(pool)
  OBVIOUS
<1>3. /\ constants = pool /\ globals = Fresh(GlobalSize) /\ stack = Fresh(StackSize) /\ sp = 0
      /\ frames = <<frame>> /\ status = "running"
  BY <1>1, <1>2 DEF Start
<1>4. frame.cl = cl /\ frame.pc = 0 /\ frame.base = 0 /\ cl.fn = Main(code) /\ cl.type = "CLOSURE_OBJ"
  BY <1>2 DEF NewFrame, Closure
<1>5. Len(frames) = 1 /\ frames[1] = frame /\ MainFn = Main(code)
  BY <1>3, <1>4 DEF MainFn
<1>6. Main(code).instructions = code
  BY DEF Main, CompiledFunction
<1>7. CompiledProgram(code, pool)
  BY <1>2, ProgramsAssumption
<1>8. SoundCode(MainFn, FunctionsIn(constants))
  BY <1>3, <1>5, <1>7, CompiledCode
<1>9. Holds(S)
  <2>1. Closed(S, Makes(constants))
    BY <1>2, <1>3, <1>7, GivenClosed
  <2>2. BuiltinResults \subseteq S /\ Nil \in S
        /\ \A i \in DOMAIN constants : ~IsFunction(constants[i]) => constants[i] \in S
    BY <1>2, <1>3 DEF Given
  <2>3. stack \in [0..(StackSize - 1) -> S] /\ globals \in [0..(GlobalSize - 1) -> S]
    BY <1>3, <2>2 DEF Fresh
  <2>4. frame \in VMFrame(S \cup {Closure(MainFn, <<>>)})
    BY <1>2, <1>5 DEF NewFrame, VMFrame
  <2>5. frames \in Seq(VMFrame(S \cup {Closure(MainFn, <<>>)}))
    BY <1>3, <2>4
  <2>6. QED BY <1>5, <2>1, <2>2, <2>3, <2>5 DEF Holds
<1>10. SoundChain(View(frames), sp, MainFn, FunctionsIn(constants), StackSize)
  <2>1. PICK chain, main, functions : /\ chain = View(frames) /\ main = MainFn
                                      /\ functions = FunctionsIn(constants)
    OBVIOUS
  <2>2. frames \in Seq(VMFrame({cl}))
    <3>1. frame \in VMFrame({cl})
      BY <1>4, <1>2 DEF NewFrame, VMFrame
    <3>2. QED BY <1>3, <3>1
  <2>3. /\ chain \in Seq([fn : {c.fn : c \in {cl}}, pc : Nat, base : Nat])
        /\ Len(chain) = 1 /\ chain[1] = ViewFrame(frame)
    <3>1. PICK C, old : C = {cl} /\ old = frames /\ old \in Seq(VMFrame(C)) /\ Len(old) = 1
      BY <1>5, <2>2
    <3>2. /\ View(old) \in Seq([fn : {c.fn : c \in C}, pc : Nat, base : Nat])
          /\ Len(View(old)) = Len(old)
          /\ \A i \in 1..Len(old) : View(old)[i] = ViewFrame(old[i])
      BY ONLY <3>1, ViewIs
    <3>3. QED BY <1>5, <2>1, <3>1, <3>2
  <2>4. chain[1].fn = main /\ chain[1].pc = 0 /\ chain[1].base = 0
    BY <1>4, <1>5, <2>1, <2>3 DEF ViewFrame
  <2>5. chain \in Seq(Frame(main, functions))
    <3>1. PICK P, Q : P = [fn : {c.fn : c \in {cl}}, pc : Nat, base : Nat] /\ Q = Frame(main, functions)
      OBVIOUS
    <3>2. P \subseteq Q
      BY <1>4, <1>5, <2>1, <3>1 DEF Frame
    <3>3. QED BY <2>3, <3>1, <3>2, SeqMonotonic
  <2>6. 0 \in DOMAIN Heights(main.instructions) /\ Heights(main.instructions)[0] = 0 /\ main.numLocals = 0
    BY <1>8, <2>1 DEF SoundCode, StackSound
  <2>7. StackSize \in Nat
    BY VMAssumption
  <2>8. SoundFrame(chain, 1, main, functions, StackSize)
    BY ONLY <2>3, <2>4, <2>6, <2>7 DEF SoundFrame
  <2>9. Floor(chain[1]) = 0 /\ HeightIn(chain[1]) = 0
    BY ONLY <2>4, <2>6 DEF Floor, HeightIn
  <2>10. SoundChain(chain, 0, main, functions, StackSize)
    BY ONLY <2>3, <2>5, <2>7, <2>8, <2>9 DEF SoundChain
  <2>11. QED BY <1>3, <2>1, <2>10
<1>11. FrameSitsOnCallee /\ Rising
  BY <1>5 DEF FrameSitsOnCallee, Rising
<1>12. Len(frames) \in 1..MaxFrames
  BY <1>5, VMAssumption
<1>13. frames[1].cl = Closure(MainFn, <<>>) /\ MainFn = Main(MainFn.instructions)
       /\ CompiledProgram(MainFn.instructions, constants)
  BY <1>2, <1>3, <1>4, <1>5, <1>6, <1>7
<1>14. status \in Statuses /\ \E T : Holds(T)
  BY <1>3, <1>9 DEF Statuses
<1>15. QED BY <1>10, <1>11, <1>12, <1>13, <1>14 DEF Inv

-----------------------------------------------------------------------------
(* The theorems about values.                                              *)

(* The inductive invariant holds.                                          *)
THEOREM SpecInv == Spec => []Inv
<1>1. Init => Inv
  BY InitInv
<1>2. Inv /\ [Next]_vars => Inv'
  BY NextInv
<1>3. QED BY <1>1, <1>2, PTL DEF Spec

(* Whatever the program computes, each slot holds an object, or nil, each  *)
(* integer fits its width, and each frame runs a closure.                  *)
THEOREM TypeCorrect == Spec => []TypeOK
<1>1. Inv => TypeOK
  <2> SUFFICES ASSUME Inv PROVE TypeOK
    OBVIOUS
  <2>1. PICK S : Holds(S)
    BY DEF Inv
  <2>2. stack \in [0..(StackSize - 1) -> S] /\ globals \in [0..(GlobalSize - 1) -> S]
        /\ \A v \in S : IsObject(v)
    BY <2>1 DEF Holds, Closed, SoundValue
  <2>3. ASSUME NEW i \in DOMAIN frames
        PROVE  frames[i].cl.type = "CLOSURE_OBJ" /\ frames[i].pc \in Nat
    <3>1. frames \in Seq(VMFrame(S \cup {Closure(MainFn, <<>>)}))
      BY <2>1 DEF Holds
    <3>2. i \in 1..Len(frames) /\ Len(frames) \in Nat
      BY <2>3, <3>1, LenProperties
    <3>3. frames[i] \in VMFrame(S \cup {Closure(MainFn, <<>>)})
      BY <3>1, <3>2, ElementOfSeq
    <3>4. frames[i].pc \in Nat
      BY <3>3 DEF VMFrame
    <3>5. CASE i = 1
      BY <3>4, <3>5 DEF Inv, Closure
    <3>6. CASE i \in 2..Len(frames)
      BY <2>1, <3>4, <3>6 DEF Holds
    <3>7. QED BY <3>2, <3>5, <3>6
  <2>4. sp \in Nat
    BY InvChain
  <2>5. QED BY <2>2, <2>3, <2>4 DEF Inv, Statuses, TypeOK
<1>2. QED BY <1>1, SpecInv, PTL

(* A compiled program stops at its end, with an error of the machine, or   *)
(* for want of stack, frames, an object or a divisor: it never indexes     *)
(* the stack below zero, nor names a constant, slot, capture or builtin    *)
(* that is not there.                                                      *)
THEOREM NeverOutOfRange == Spec => [](status \notin {"stack", "operand"})
<1>1. Inv => status \notin {"stack", "operand"}
  BY DEF Inv, Statuses
<1>2. QED BY <1>1, SpecInv, PTL

(* A call in progress keeps its callee below its locals.                   *)
THEOREM SitsOnCallee == Spec => []FrameSitsOnCallee
<1>1. Inv => FrameSitsOnCallee
  BY DEF Inv
<1>2. QED BY <1>1, SpecInv, PTL

\* Where the steps write.
LEMMA Writes ==
    ASSUME Inv, Next, NEW k \in DOMAIN stack, k < currentFrame.base, stack'[k] # stack[k]
    PROVE  k = currentFrame.base - 1 /\ Len(frames') = Len(frames) - 1
<1>1. PICK S : Holds(S)
  BY DEF Inv
<1>2. stack \in [0..(StackSize - 1) -> S]
  BY <1>1 DEF Holds
<1>3. ASSUME Produces PROVE FALSE
  <2>0. Supplied(S, Makes(constants))
    BY <1>1, <1>3, ProducesSupplied
  <2>1. PICK outcome : Outcome(outcome, S, Makes(constants))
    BY <1>3, <2>0, Produced
  <2>2. Running
    BY <1>3, <2>0, Produced
  <2>3. stack' = stack \/ stack' = [stack EXCEPT ![sp - Pops(Instruction)] = outcome]
    BY <2>1 DEF Outcome, Yield, Halt, Push
  <2>4. /\ sp \in Nat /\ Pops(Instruction) \in Nat /\ currentFrame.base \in Nat
        /\ currentFrame.cl.fn.numLocals \in Nat
        /\ sp - Pops(Instruction) >= currentFrame.base + currentFrame.cl.fn.numLocals
    BY <2>2, Here, InvChain
  <2>5. k \in Int /\ k # sp - Pops(Instruction)
    BY <1>2, <2>4
  <2>6. QED BY <1>2, <2>3, <2>5
<1>4. ASSUME Consumes PROVE FALSE
  <2>1. PICK slot : slot = Slot
    OBVIOUS
  <2>2. \/ stack' = stack
        \/ SetLocal /\ stack' = [stack EXCEPT ![slot] = Value(0)]
    BY <1>4, <2>1, InvChain, Consumed
  <2>3. Running
    BY <1>4, InvChain, Consumed
  <2>4. SetLocal => slot >= currentFrame.base /\ slot \in Nat /\ currentFrame.base \in Nat
    BY <2>1, <2>3, Here DEF SetLocal, On, Slot
  <2>5. SetLocal => k \in Int /\ k # slot
    BY <1>2, <2>4
  <2>6. QED BY <1>2, <2>2, <2>5
<1>5. ASSUME callClosure PROVE FALSE
  BY <1>5 DEF callClosure
<1>6. ASSUME callFails PROVE FALSE
  BY <1>6 DEF callFails, Halt
<1>7. CASE Return
  <2>1. PICK v, b : /\ b = currentFrame.base /\ b \in 1..StackSize
                    /\ stack' = [stack EXCEPT ![b - 1] = v] /\ frames' = Popped(frames) /\ Len(frames) > 1
    BY <1>7, PoppedChain
  <2>2. k = b - 1
    BY <1>2, <2>1
  <2>3. PICK C : frames \in Seq(VMFrame(C)) /\ Len(frames) \in Nat
    BY <1>1, InvChain DEF Holds
  <2>4. Len(Popped(frames)) = Len(frames) - 1
    <3>1. PICK old : old = frames /\ old \in Seq(VMFrame(C)) /\ Len(old) \in Nat /\ Len(old) > 1
      BY <2>1, <2>3
    <3>2. View(Popped(old)) = Popped(View(old)) /\ Len(Popped(old)) = Len(old) - 1
      BY ONLY <3>1, ViewPop
    <3>3. QED BY <3>1, <3>2
  <2>5. QED BY <2>1, <2>2, <2>4
<1>8. ASSUME Panic PROVE FALSE
  BY <1>8 DEF Panic, Halt
<1>9. ASSUME Finish PROVE FALSE
  BY <1>9 DEF Finish, Halt
<1>10. QED BY <1>3, <1>4, <1>5, <1>6, <1>7, <1>8, <1>9 DEF Next, Produces, Consumes

(* What a function has on the stack when it calls another stays as it is   *)
(* until the call returns: no step writes below the base of its frame but  *)
(* a return, into the slot of the callee.                                  *)
THEOREM KeepsCallersValues == Spec => CallersValuesKept
<1>1. Inv /\ [Next]_vars =>
        [\A i \in DOMAIN stack :
            i < currentFrame.base /\ stack'[i] # stack[i] =>
               i = currentFrame.base - 1 /\ Len(frames') = Len(frames) - 1]_vars
  BY Writes
<1>2. QED BY <1>1, SpecInv, PTL DEF Spec, CallersValuesKept

-----------------------------------------------------------------------------
(* The machine without values.  The operators of its module are the ones   *)
(* of this module.                                                         *)

LEMMA SameCode ==
    ASSUME NEW code, NEW p
    PROVE  /\ Discipline!At(code, p) = At(code, p)
           /\ Discipline!NextOffset(code, p) = NextOffset(code, p)
           /\ Discipline!IsHead(code, p) <=> IsHead(code, p)
BY DEF Discipline!At, At, Discipline!NextOffset, NextOffset, Discipline!IsHead, IsHead,
       Discipline!InstructionLen, InstructionLen, Discipline!OperandBytes, OperandBytes,
       Discipline!OperandWidths, OperandWidths, Discipline!Opcodes, Opcodes,
       Discipline!ArithmeticOps, ArithmeticOps, Discipline!ComparisonOps, ComparisonOps

LEMMA SameEffect ==
    ASSUME NEW i
    PROVE  /\ Discipline!Pops(i) = Pops(i) /\ Discipline!Pushes(i) = Pushes(i)
           /\ Discipline!Returns(i) <=> Returns(i)
           /\ \A n : Discipline!HeightAfter(n, i) = HeightAfter(n, i)
BY DEF Discipline!Pops, Pops, Discipline!Pushes, Pushes, Discipline!Returns, Returns,
       Discipline!HeightAfter, HeightAfter,
       Discipline!ArithmeticOps, ArithmeticOps, Discipline!ComparisonOps, ComparisonOps

LEMMA SameSuccessors ==
    ASSUME NEW code, NEW p
    PROVE  Discipline!Successors(code, p) = Successors(code, p)
BY SameCode, SameEffect DEF Discipline!Successors, Successors

LEMMA SameExtended ==
    ASSUME NEW height, NEW p, NEW code
    PROVE  Discipline!Extended(height, p, code) = Extended(height, p, code)
<1>1. Discipline!IsHead(code, p) <=> IsHead(code, p)
  BY SameCode
<1>2. Discipline!At(code, p) = At(code, p)
  BY SameCode
<1>3. Discipline!Successors(code, p) = Successors(code, p)
  BY SameSuccessors
<1>4. Discipline!HeightAfter(height[p], At(code, p)) = HeightAfter(height[p], At(code, p))
  BY SameEffect
<1>5. QED BY <1>1, <1>2, <1>3, <1>4 DEF Discipline!Extended, Extended

LEMMA SameHeights ==
    ASSUME NEW code
    PROVE  Discipline!Heights(code) = Heights(code)
BY SameExtended, Zenon DEF Discipline!Heights, Heights

LEMMA SameSound ==
    ASSUME NEW fn, NEW isMain
    PROVE  /\ Discipline!StackSound(fn, isMain) <=> StackSound(fn, isMain)
           /\ Discipline!WellFormed(fn) <=> WellFormed(fn)
<1>1. Discipline!StackSound(fn, isMain) <=> StackSound(fn, isMain)
  <2>1. Discipline!Heights(fn.instructions) = Heights(fn.instructions)
    BY SameHeights
  <2>2. \A height, p : Discipline!SoundAt(fn.instructions, height, p, isMain)
                        <=> SoundAt(fn.instructions, height, p, isMain)
    BY SameCode, SameEffect, SameSuccessors DEF Discipline!SoundAt, SoundAt
  <2>3. QED BY <2>1, <2>2 DEF Discipline!StackSound, StackSound
<1>2. Discipline!WellFormed(fn) <=> WellFormed(fn)
  BY SameCode DEF Discipline!WellFormed, WellFormed, Discipline!OperandWidths, OperandWidths,
        Discipline!Cells, Cells, Discipline!Opcodes, Opcodes, Discipline!Operand, Operand,
        Discipline!ArithmeticOps, ArithmeticOps, Discipline!ComparisonOps, ComparisonOps
<1>3. QED BY <1>1, <1>2

LEMMA DisciplineHere ==
    ASSUME Inv
    PROVE  /\ Discipline!Top = ViewFrame(currentFrame)
           /\ Discipline!Running <=> Running
           /\ Discipline!Instruction = Instruction
           /\ Discipline!Following = Following
           /\ \A n : Discipline!OutOfStack(n) <=> OutOfStack(n)
           /\ Discipline!BeyondStack(Instruction) <=> BeyondStack
<1>1. Discipline!Top = ViewFrame(currentFrame)
  <2>1. Discipline!Top = View(frames)[Len(View(frames))]
    BY DEF Discipline!Top, View
  <2>2. QED BY <2>1, InvChain
<1>2. PICK top : top = Discipline!Top
  OBVIOUS
<1>3. top.fn = currentFrame.cl.fn /\ top.pc = currentFrame.pc /\ top.base = currentFrame.base
  BY <1>1, <1>2 DEF ViewFrame
<1>4. Discipline!Instruction = Instruction /\ Discipline!Following = Following
  BY <1>2, <1>3, SameCode DEF Discipline!Instruction, Discipline!Following, Instruction, Following, Instructions
<1>5. Discipline!Running <=> Running
  BY <1>2, <1>3 DEF Discipline!Running, Running, Instructions
<1>6. \A n : Discipline!OutOfStack(n) <=> OutOfStack(n)
  BY DEF Discipline!OutOfStack, OutOfStack
<1>7. Discipline!BeyondStack(Instruction) <=> BeyondStack
  BY <1>2, <1>3 DEF Discipline!BeyondStack, BeyondStack, Slot
<1>8. QED BY <1>1, <1>4, <1>5, <1>6, <1>7

-----------------------------------------------------------------------------
(* Every step of the machine is one of the machine without values.         *)

LEMMA MoveMaps ==
    ASSUME Inv, NEW pc \in Nat, NEW height, Goto(pc), sp' = height, constants' = constants, status' = status
    PROVE  Discipline!MoveTo(pc, height)
<1>1. PICK S : Holds(S)
  BY DEF Inv
<1>2. PICK C, old : /\ C = S \cup {Closure(MainFn, <<>>)} /\ old = frames
                    /\ old \in Seq(VMFrame(C)) /\ Len(old) \in Nat \ {0}
  BY <1>1, InvChain DEF Holds
<1>3. frames' = Moved(old, pc)
  BY <1>2 DEF Goto, Moved
<1>4. View(Moved(old, pc)) = Moved(View(old), pc)
      /\ \A i \in 1..Len(old) : Moved(old, pc)[i].cl = old[i].cl
  BY ONLY <1>2, pc \in Nat, ViewMove
<1>5. 1 \in 1..Len(old)
  BY <1>2
<1>6. frames'[1].cl.fn = frames[1].cl.fn
  BY <1>2, <1>3, <1>4, <1>5
<1>7. View(frames') = [View(frames) EXCEPT ![Len(View(frames))].pc = pc]
  BY <1>2, <1>3, <1>4 DEF Moved
<1>8. QED BY <1>6, <1>7 DEF Discipline!MoveTo, View

LEMMA HaltMaps ==
    ASSUME NEW how, Halt(how)
    PROVE  Discipline!Halt(IF how \in {"nil", "divide"} THEN "error" ELSE how)
BY DEF Halt, Discipline!Halt

LEMMA ProducesMaps == ASSUME Inv, Produces PROVE Discipline!Next
<1>1. PICK S : Holds(S)
  BY DEF Inv
<1>0. Supplied(S, Makes(constants))
  BY <1>1, ProducesSupplied
<1>2. PICK outcome : Outcome(outcome, S, Makes(constants))
  BY <1>0, Produced
<1>3. /\ Running /\ Pushes(Instruction) = 1
      /\ Instruction.op \in {"OpGetLocal", "OpSetLocal"} => ~BeyondStack
  BY <1>0, Produced
<1>4. PICK i : i = Instruction
  OBVIOUS
<1>5. /\ Discipline!Running /\ Discipline!Instruction = i
      /\ ~Discipline!OutOfStack(Discipline!Pops(i)) /\ ~Discipline!BeyondStack(i)
      /\ Discipline!Following = Following /\ Discipline!Pops(i) = Pops(i) /\ Discipline!Pushes(i) = 1
      /\ ~Discipline!Returns(i) /\ Discipline!HeightAfter(sp, i) = HeightAfter(sp, i)
  <2>1. ~OutOfStack(Pops(i))
    BY <1>3, <1>4, Here
  <2>2. ~Returns(i)
    BY <1>3, <1>4 DEF Pushes
  <2>3. ~BeyondStack
    BY <1>3 DEF BeyondStack
  <2>4. QED BY <1>3, <1>4, <2>1, <2>2, <2>3, DisciplineHere, SameEffect
<1>6. CASE Halt("error") /\ Discipline!Overflows(i)
  <2>1. Discipline!Halt("error")
    BY <1>6, HaltMaps
  <2>2. QED BY <1>5, <1>6, <2>1 DEF Discipline!Next, Discipline!Fail
<1>7. CASE outcome.type = "halts"
  <2>1. outcome.how \in {"error", "nil", "divide"} /\ Halt(outcome.how)
    BY <1>2, <1>7 DEF Outcome, Sound, SoundValue, IsObject, ObjectTypes, Yield
  <2>2. Discipline!Halt("error")
    BY <2>1, HaltMaps
  <2>3. Discipline!MayFail(i)
    BY <1>2, <1>4, <1>7 DEF Outcome, MayHalt, Discipline!MayFail, ArithmeticOps, ComparisonOps,
          Discipline!ArithmeticOps, Discipline!ComparisonOps
  <2>4. QED BY <1>5, <2>2, <2>3 DEF Discipline!Next, Discipline!Fail
<1>8. CASE Push(Pops(Instruction), outcome)
  <2>1. /\ sp - Pops(i) < StackSize /\ sp' = sp - Pops(i) + 1 /\ Goto(Following)
        /\ constants' = constants /\ status' = status
    BY <1>4, <1>8 DEF Push
  <2>2. Following \in Successors(Instructions, currentFrame.pc)
    BY <1>3, Producing
  <2>3. Following \in Nat
    <3>1. PICK fn, p : fn = currentFrame.cl.fn /\ p = currentFrame.pc
      OBVIOUS
    <3>2. WellFormed(fn) /\ p \in Nat /\ IsHead(fn.instructions, p)
      BY <1>3, <3>1, Here DEF Instructions
    <3>3. NextOffset(fn.instructions, p) \in Nat
      BY <3>2, EffectType
    <3>4. QED BY <3>1, <3>3 DEF Following, Instructions
  <2>4. PICK pc, height : pc = Following /\ height = HeightAfter(sp, i)
    OBVIOUS
  <2>5. Discipline!MoveTo(pc, height)
    <3>1. sp' = height /\ pc \in Nat /\ Goto(pc)
      BY <1>3, <1>4, <2>1, <2>3, <2>4 DEF HeightAfter
    <3>2. QED BY <2>1, <3>1, MoveMaps
  <2>6. CASE i.op = "OpCall"
    <3>1. Discipline!Following = pc /\ Discipline!HeightAfter(sp, Discipline!Instruction) = height
      BY <1>5, <2>4
    <3>2. Discipline!MoveTo(Discipline!Following, Discipline!HeightAfter(sp, Discipline!Instruction))
      BY <2>5, <3>1 DEF Discipline!MoveTo
    <3>3. Discipline!CallBuiltin
      BY <1>5, <2>6, <3>2 DEF Discipline!CallBuiltin
    <3>4. QED BY <3>3 DEF Discipline!Next
  <2>7. CASE i.op # "OpCall"
    <3>1. ~Discipline!Overflows(i)
      <4>1. ~(sp - Pops(i) >= StackSize)
        BY <1>3, <1>4, <2>1, Here, InvChain
      <4>2. QED BY <1>5, <4>1 DEF Discipline!Overflows
    <3>2. pc \in Discipline!Successors(Discipline!Top.fn.instructions, Discipline!Top.pc)
      BY <2>2, <2>4, DisciplineHere, SameSuccessors DEF ViewFrame, Instructions
    <3>3. Discipline!MoveTo(pc, Discipline!HeightAfter(sp, Discipline!Instruction))
      <4>1. Discipline!HeightAfter(sp, Discipline!Instruction) = height
        BY <1>5, <2>4
      <4>2. QED BY <2>5, <4>1 DEF Discipline!MoveTo
    <3>4. Discipline!Execute
      BY <1>5, <2>7, <3>1, <3>2, <3>3 DEF Discipline!Execute
    <3>5. QED BY <3>4 DEF Discipline!Next
  <2>8. QED BY <2>6, <2>7
<1>9. QED
  <2>1. Yield(outcome)
    BY <1>2 DEF Outcome
  <2>2. CASE outcome.type # "halts" /\ sp - Pops(Instruction) >= StackSize
    <3>1. Halt("error")
      BY <2>1, <2>2 DEF Yield
    <3>2. Discipline!Overflows(i)
      BY <1>4, <1>5, <2>2 DEF Discipline!Overflows
    <3>3. QED BY <1>6, <3>1, <3>2
  <2>3. CASE outcome.type # "halts" /\ ~(sp - Pops(Instruction) >= StackSize)
    BY <1>8, <2>1, <2>3 DEF Yield
  <2>4. QED BY <1>7, <2>2, <2>3

LEMMA ConsumesMaps == ASSUME Inv, Consumes PROVE Discipline!Next
<1>1. PICK pc \in Successors(Instructions, currentFrame.pc) : Goto(pc)
  BY InvChain, Consumed
<1>2. PICK i, height : i = Instruction /\ height = HeightAfter(sp, i)
  OBVIOUS
<1>3. /\ Running /\ Pushes(i) = 0 /\ ~BeyondStack /\ ~Returns(i) /\ i.op # "OpCall"
      /\ sp' = sp - Pops(i) /\ constants' = constants /\ status' = status
  BY <1>2, InvChain, Consumed
<1>4. sp \in Nat /\ Pops(i) \in Nat /\ ~OutOfStack(Pops(i))
  BY <1>2, <1>3, Here, InvChain
<1>5. sp' = height
  BY <1>2, <1>3, <1>4 DEF HeightAfter
<1>6. pc \in Nat
  <2>1. PICK fn, p : fn = currentFrame.cl.fn /\ p = currentFrame.pc
    OBVIOUS
  <2>2. WellFormed(fn) /\ p \in Nat /\ IsHead(fn.instructions, p) /\ pc \in Successors(fn.instructions, p)
    BY <1>3, <2>1, Here DEF Instructions
  <2>3. QED BY <2>2, EffectType
<1>7. /\ Discipline!Running /\ Discipline!Instruction = i /\ Discipline!Pushes(i) = 0
      /\ ~Discipline!OutOfStack(Discipline!Pops(i)) /\ ~Discipline!BeyondStack(i)
      /\ ~Discipline!Returns(i) /\ Discipline!HeightAfter(sp, i) = height
  BY <1>2, <1>3, <1>4, DisciplineHere, SameEffect
<1>8. ~Discipline!Overflows(i)
  BY <1>7 DEF Discipline!Overflows
<1>9. pc \in Discipline!Successors(Discipline!Top.fn.instructions, Discipline!Top.pc)
  BY DisciplineHere, SameSuccessors DEF ViewFrame, Instructions
<1>10. Discipline!MoveTo(pc, height)
  BY <1>1, <1>3, <1>5, <1>6, MoveMaps
<1>11. Discipline!MoveTo(pc, Discipline!HeightAfter(sp, Discipline!Instruction))
  <2>1. Discipline!HeightAfter(sp, Discipline!Instruction) = height
    BY <1>7
  <2>2. QED BY <1>10, <2>1 DEF Discipline!MoveTo
<1>12. Discipline!Execute
  BY <1>3, <1>7, <1>8, <1>9, <1>11 DEF Discipline!Execute
<1>13. QED BY <1>12 DEF Discipline!Next

LEMMA callClosureMaps == ASSUME Inv, callClosure PROVE Discipline!Next
<1>1. PICK fn, base, n : fn = Callee.fn /\ base = basePointer /\ n = Len(frames)
  OBVIOUS
<1>2. /\ Running /\ Instruction.op = "OpCall" /\ n < MaxFrames
      /\ fn.numParameters = Instruction.args[1] /\ fn \in FunctionsIn(constants)
      /\ sp' = base + fn.numLocals /\ constants' = constants /\ status' = status
      /\ View(frames') = Called(View(frames), Following, fn, base)
  BY <1>1, CalledChain
<1>3. base = sp - fn.numParameters
  BY <1>1, <1>2 DEF basePointer
<1>4. n \in Nat \ {0} /\ Len(View(frames)) = n
  BY <1>1, InvChain
<1>5. frames'[1].cl = frames[1].cl
  <2>1. PICK S : Holds(S)
    BY DEF Inv
  <2>2. PICK C, old, pc, cl : /\ C = S \cup {Closure(MainFn, <<>>)} /\ old = frames /\ pc = Following
                              /\ cl = Callee /\ pc \in Nat /\ cl \in C /\ base \in Nat
                              /\ old \in Seq(VMFrame(C)) /\ Len(old) \in Nat \ {0}
    <3>1. Callee \in S /\ Following \in Nat /\ base \in Nat
      BY <1>1, <1>2, <2>1, CalleeSound, CalledChain
    <3>2. QED BY <1>1, <1>4, <2>1, <3>1 DEF Holds
  <2>3. PICK new : new = Entered(old, pc, cl, base) /\ frames' = new
    BY <1>1, <2>2, CalledChain
  <2>4. new \in Seq(VMFrame(C)) /\ Grown(Moved(old, pc), NewFrame(cl, base), new)
    BY ONLY <2>2, <2>3, ViewCall
  <2>5. Len(Moved(old, pc)) = Len(old) /\ \A i \in 1..Len(old) : Moved(old, pc)[i].cl = old[i].cl
    BY ONLY <2>2, ViewMove
  <2>6. 1 \in 1..Len(old)
    BY <2>2
  <2>7. new[1].cl = old[1].cl
    BY <2>4, <2>5, <2>6 DEF Grown
  <2>8. QED BY <2>2, <2>3, <2>7
<1>6. /\ Discipline!Running /\ Discipline!Instruction = Instruction
      /\ ~Discipline!OutOfStack(Discipline!Pops(Instruction)) /\ Discipline!Following = Following
  BY <1>2, Here, DisciplineHere, SameEffect
<1>7. Discipline!FrameLeft
  BY <1>2, <1>4 DEF Discipline!FrameLeft, View
<1>8. fn \in {f \in {constants[i] : i \in DOMAIN constants} : IsFunction(f)}
  BY <1>2 DEF FunctionsIn
<1>9. View(frames') = Append([View(frames) EXCEPT ![Len(View(frames))].pc = Following],
                             [fn |-> fn, pc |-> 0, base |-> base])
  BY <1>2 DEF Called, Moved
<1>10. Discipline!CallFunction
  BY <1>2, <1>3, <1>5, <1>6, <1>7, <1>8, <1>9
     DEF Discipline!CallFunction, Discipline!AboveLocals, View, Discipline!IsFunction, IsFunction
<1>11. QED BY <1>10 DEF Discipline!Next

LEMMA callFailsMaps == ASSUME Inv, callFails PROVE Discipline!Next
<1>1. Running /\ Instruction.op = "OpCall"
  BY DEF callFails, On
<1>2. /\ Discipline!Running /\ Discipline!Instruction = Instruction
      /\ ~Discipline!OutOfStack(Discipline!Pops(Instruction)) /\ Discipline!MayFail(Instruction)
  BY <1>1, Here, DisciplineHere, SameEffect DEF Discipline!MayFail
<1>3. CASE Halt("nil") \/ Halt("error")
  <2>1. Discipline!Halt("error")
    BY <1>3, HaltMaps
  <2>2. Discipline!Fail
    BY <1>2, <2>1 DEF Discipline!Fail
  <2>3. QED BY <2>2 DEF Discipline!Next
<1>4. CASE Len(frames) >= MaxFrames /\ Halt("frames")
  <2>1. Discipline!Halt("frames")
    BY <1>4, HaltMaps
  <2>2. Len(View(frames)) >= MaxFrames
    BY <1>4, InvChain
  <2>3. Discipline!Panic
    BY <1>1, <1>2, <2>1, <2>2 DEF Discipline!Panic, View
  <2>4. QED BY <2>3 DEF Discipline!Next
<1>5. QED BY <1>3, <1>4 DEF callFails

LEMMA ReturnMaps == ASSUME Inv, Return PROVE Discipline!Next
<1>1. /\ Running /\ Returns(Instruction) /\ Len(frames) > 1 /\ currentFrame.base \in 1..StackSize
      /\ frames' = Popped(frames) /\ sp' = currentFrame.base
      /\ constants' = constants /\ status' = status
      /\ View(frames') = Popped(View(frames))
  BY PoppedChain
<1>2. /\ Discipline!Running /\ Discipline!Instruction = Instruction /\ Discipline!Returns(Instruction)
      /\ ~Discipline!OutOfStack(Discipline!Pops(Instruction))
      /\ Discipline!Top.base = currentFrame.base
  BY <1>1, Here, DisciplineHere, SameEffect DEF ViewFrame
<1>3. frames'[1].cl = frames[1].cl
  <2>1. PICK S : Holds(S)
    BY DEF Inv
  <2>2. PICK C, old : /\ C = S \cup {Closure(MainFn, <<>>)} /\ old = frames
                      /\ old \in Seq(VMFrame(C)) /\ Len(old) \in Nat /\ Len(old) > 1
    BY <1>1, <2>1, InvChain DEF Holds
  <2>3. \A i \in 1..(Len(old) - 1) : Popped(old)[i] = old[i]
    BY ONLY <2>2, ViewPop
  <2>4. 1 \in 1..(Len(old) - 1)
    BY <2>2
  <2>5. QED BY <1>1, <2>2, <2>3, <2>4
<1>4. Len(View(frames)) > 1 /\ Discipline!Top.base <= StackSize
  BY <1>1, <1>2, InvChain
<1>5. View(frames') = SubSeq(View(frames), 1, Len(View(frames)) - 1)
  BY <1>1 DEF Popped
<1>6. Discipline!Return
  BY <1>1, <1>2, <1>3, <1>4, <1>5 DEF Discipline!Return, Discipline!ReturnedTo, View
<1>7. QED BY <1>6 DEF Discipline!Next

LEMMA PanicMaps == ASSUME Inv, Panic PROVE Discipline!Next
<1>1. Running
  BY DEF Panic
<1>2. PICK S : Holds(S)
  BY DEF Inv
<1>3. ~OutOfStack(Pops(Instruction)) /\ ~(Returns(Instruction) /\ Len(frames) = 1) /\ ~OutOfRange
  BY <1>1, <1>2, Here, OperandHere
<1>4. BeyondStack /\ Halt("locals")
  BY <1>3 DEF Panic
<1>5. Discipline!Running /\ Discipline!BeyondStack(Discipline!Instruction) /\ Discipline!Halt("locals")
  BY <1>1, <1>4, DisciplineHere, HaltMaps
<1>6. QED BY <1>5 DEF Discipline!Next, Discipline!Panic

LEMMA FinishMaps == ASSUME Inv, Finish PROVE Discipline!Next
<1>1. status = "running" /\ ~Running /\ Halt("done")
  BY DEF Finish
<1>2. ~Discipline!Running /\ Discipline!Halt("done")
  BY <1>1, DisciplineHere, HaltMaps
<1>3. QED BY <1>1, <1>2 DEF Discipline!Next, Discipline!Finish

LEMMA StepMaps == ASSUME Inv, [Next]_vars PROVE [Discipline!Next]_(Discipline!vars)
<1>1. CASE UNCHANGED vars
  BY <1>1 DEF vars, Discipline!vars
<1>2. CASE Next
  BY <1>2, ProducesMaps, ConsumesMaps, callClosureMaps, callFailsMaps, ReturnMaps, PanicMaps, FinishMaps
     DEF Next, Produces, Consumes
<1>3. QED BY <1>1, <1>2

LEMMA InitMaps == ASSUME Init, Inv PROVE Discipline!Init
<1>1. SoundCode(MainFn, FunctionsIn(constants))
  BY InvChain
<1>2. Discipline!ProgramSound
  <2>1. WellFormed(MainFn) /\ StackSound(MainFn, TRUE) /\ MainFn.numLocals = 0
    BY <1>1 DEF SoundCode
  <2>2. \A fn \in FunctionsIn(constants) : WellFormed(fn) /\ StackSound(fn, FALSE)
    BY <1>1 DEF SoundCode
  <2>3. QED BY <2>1, <2>2, SameSound DEF Discipline!ProgramSound, MainFn, FunctionsIn, Discipline!IsFunction, IsFunction
<1>3. PICK p \in Programs : Start(p.instructions, p.constants, Fresh(GlobalSize))
  BY DEF Init
<1>4. sp = 0 /\ status = "running" /\ Len(frames) = 1 /\ frames[1].pc = 0 /\ frames[1].base = 0
  BY <1>3 DEF Start, NewFrame
<1>5. PICK S : Holds(S)
  BY DEF Inv
<1>6. PICK C, old, v, e, R :
        /\ C = S \cup {Closure(MainFn, <<>>)} /\ old = frames /\ v = View(old)
        /\ e = [fn |-> MainFn, pc |-> 0, base |-> 0]
        /\ R = [fn : {c.fn : c \in C}, pc : Nat, base : Nat]
        /\ old \in Seq(VMFrame(C)) /\ Len(old) = 1
  BY <1>4, <1>5 DEF Holds
<1>7. v \in Seq(R) /\ Len(v) = 1 /\ v[1] = ViewFrame(old[1])
  BY <1>6, ViewIs
<1>8. v = <<e>>
  <2>1. v[1] = e
    BY <1>4, <1>6, <1>7 DEF ViewFrame, MainFn
  <2>2. <<e>> \in Seq(R) /\ Len(<<e>>) = 1 /\ <<e>>[1] = e
    <3>1. v[1] \in R
      BY <1>7, ElementOfSeq
    <3>2. QED BY <2>1, <3>1
  <2>3. QED BY <1>7, <2>1, <2>2, SeqEqual
<1>9. QED BY <1>2, <1>4, <1>6, <1>8 DEF Discipline!Init, View, MainFn

(* The machine with its values implements the stack discipline without     *)
(* them: whatever a compiled program computes, compares or calls, it only  *)
(* moves its frames and its stack pointer as verified code may.            *)
THEOREM ImplementsDiscipline == Spec => KeepsDiscipline
<1>1. Init => Discipline!Init
  BY InitInv, InitMaps
<1>2. Inv /\ [Next]_vars => [Discipline!Next]_(Discipline!vars)
  BY StepMaps
<1>3. QED BY <1>1, <1>2, SpecInv, PTL DEF Spec, KeepsDiscipline, Discipline!Spec

-----------------------------------------------------------------------------
(* Code that need not verify.                                              *)
(*                                                                         *)
(* A session runs whatever its lines compile to.  Of code of which is only *)
(* known that its instructions have their operands, the machine's own      *)
(* checks see to the rest: an instruction that takes more than there is    *)
(* ends the run, and so does one that names something out of range.        *)

Encoded(fn) ==
    /\ fn.instructions \in Seq(Cells) /\ fn.numLocals \in Nat
    /\ \A p \in 0..(Len(fn.instructions) - 1) :
          IsHead(fn.instructions, p) =>
              Len(At(fn.instructions, p).args) = Len(OperandWidths(At(fn.instructions, p).op))

ClosuresAmong(S) == {v \in S : v.type = "CLOSURE_OBJ"}

\* Everywhere values of a set closed under what the machine does, with closures of functions in F.
Filled(S, F) ==
    /\ Closed(S, F \X Nat) /\ BuiltinResults \subseteq S
    /\ constants \in Seq(S)
    /\ \A i \in 1..Len(constants) : IsFunction(constants[i]) => constants[i] \in F
    /\ stack \in [0..(StackSize - 1) -> S] /\ globals \in [0..(GlobalSize - 1) -> S]
    /\ frames \in Seq(VMFrame(ClosuresAmong(S)))

Guarded(F) ==
    /\ \A fn \in F : Encoded(fn)
    /\ status \in Statuses \cup {"stack", "operand"}
    /\ sp \in Nat /\ Len(frames) \in 1..MaxFrames
    /\ \E S : Filled(S, F)

\* The instruction about to be executed, or whatever else is there.
LEMMA GuardedHere ==
    ASSUME NEW F, Guarded(F), NEW S, Filled(S, F), Running
    PROVE  /\ currentFrame.cl \in S /\ currentFrame.cl.fn \in F /\ currentFrame.cl.free \in Seq(S)
           /\ currentFrame.pc \in Nat /\ currentFrame.base \in Nat /\ Len(frames) \in Nat \ {0}
           /\ Instruction \in Cells
           /\ Instruction.op \in Opcodes =>
                 /\ IsHead(Instructions, currentFrame.pc)
                 /\ Len(Instruction.args) = Len(OperandWidths(Instruction.op))
                 /\ Following \in Nat
<1>1. PICK n, C : n = Len(frames) /\ C = ClosuresAmong(S)
  OBVIOUS
<1>2. n \in Nat \ {0} /\ n \in 1..n /\ frames \in Seq(VMFrame(C))
  BY <1>1, VMAssumption DEF Guarded, Filled
<1>3. currentFrame \in VMFrame(C)
  <2>1. PICK R : R = VMFrame(C)
    OBVIOUS
  <2>2. frames[n] \in R
    BY ONLY <1>1, <1>2, <2>1, ElementOfSeq
  <2>3. QED BY <1>1, <2>1, <2>2 DEF currentFrame
<1>4. /\ currentFrame.cl \in S /\ currentFrame.cl.type = "CLOSURE_OBJ"
      /\ currentFrame.pc \in Nat /\ currentFrame.base \in Nat
  BY <1>1, <1>3 DEF VMFrame, ClosuresAmong
<1>5. currentFrame.cl.free \in Seq(S) /\ currentFrame.cl.fn \in F
  BY <1>4 DEF Filled, Closed, SoundValue, SoundClosure
<1>6. PICK code, pc : code = Instructions /\ pc = currentFrame.pc
  OBVIOUS
<1>7. /\ code \in Seq(Cells) /\ pc \in Nat /\ pc < Len(code) /\ Instruction = At(code, pc)
      /\ Following = NextOffset(code, pc)
      /\ IsHead(code, pc) => Len(At(code, pc).args) = Len(OperandWidths(At(code, pc).op))
  <2>1. code \in Seq(Cells) /\ pc \in Nat /\ pc < Len(code)
    BY <1>4, <1>5, <1>6 DEF Guarded, Encoded, Running, Instructions
  <2>2. pc \in 0..(Len(code) - 1)
    BY <2>1
  <2>3. IsHead(code, pc) => Len(At(code, pc).args) = Len(OperandWidths(At(code, pc).op))
    BY <1>5, <1>6, <2>2 DEF Guarded, Encoded, Instructions
  <2>4. QED BY <1>6, <2>1, <2>3 DEF Instruction, Following
<1>8. Instruction \in Cells
  BY <1>7 DEF At
<1>9. Instruction.op \in Opcodes => IsHead(code, pc)
  BY <1>7 DEF IsHead, At
<1>10. Instruction.op \in Opcodes => Following \in Nat
  <2>1. InstructionLen(Instruction.op) \in Nat
    BY DEF InstructionLen, OperandBytes, OperandWidths
  <2>2. QED BY <1>7, <2>1 DEF NextOffset
<1>11. QED BY <1>1, <1>2, <1>4, <1>5, <1>6, <1>7, <1>8, <1>9, <1>10

\* Its operands are numbers, and so is the count of the values that it takes.
LEMMA GuardedArgs ==
    ASSUME NEW F, Guarded(F), NEW S, Filled(S, F), Running, Instruction.op \in Opcodes
    PROVE  /\ Instruction.op \in {"OpConstant", "OpGetGlobal", "OpSetGlobal", "OpGetLocal", "OpSetLocal",
                                  "OpGetBuiltin", "OpGetFree", "OpArray", "OpDict", "OpCall", "OpJump",
                                  "OpJumpNotTruthy", "OpWhile", "OpClosure"} => Instruction.args[1] \in Nat
           /\ Instruction.op = "OpClosure" => Instruction.args[2] \in Nat
           /\ Pops(Instruction) \in Nat
           /\ Instruction.op = "OpCall" => Pops(Instruction) = Instruction.args[1] + 1
<1>1. Instruction.args \in Seq(Nat) /\ Len(Instruction.args) = Len(OperandWidths(Instruction.op))
  BY GuardedHere DEF Cells
<1>2. ASSUME NEW k \in 1..Len(OperandWidths(Instruction.op))
      PROVE  Instruction.args[k] \in Nat
  BY <1>1
<1>3. /\ Instruction.op \in {"OpConstant", "OpGetGlobal", "OpSetGlobal", "OpGetLocal", "OpSetLocal",
                             "OpGetBuiltin", "OpGetFree", "OpArray", "OpDict", "OpCall", "OpJump",
                             "OpJumpNotTruthy", "OpWhile", "OpClosure"} => Instruction.args[1] \in Nat
      /\ Instruction.op = "OpClosure" => Instruction.args[2] \in Nat
  BY <1>2 DEF OperandWidths
<1>4. Pops(Instruction) \in Nat
  BY <1>3 DEF Pops
<1>5. Instruction.op = "OpCall" => Pops(Instruction) = Instruction.args[1] + 1
  BY DEF Pops, ArithmeticOps, ComparisonOps
<1>6. QED BY <1>3, <1>4, <1>5

\* What it takes is on the stack, or the machine stops.
LEMMA GuardedStack ==
    ASSUME NEW F, Guarded(F), NEW S, Filled(S, F), Running, Instruction.op \in Opcodes,
           ~OutOfStack(Pops(Instruction))
    PROVE  /\ \A k \in Nat : k < Pops(Instruction) => Value(k) \in S
           /\ \A n \in Nat : n <= Pops(Instruction) => Topmost(n) \in [1..n -> S]
           /\ sp - Pops(Instruction) \in Nat
<1>1. PICK m : m = Pops(Instruction)
  OBVIOUS
<1>2. m \in Nat /\ sp \in Nat /\ StackSize \in Nat /\ m <= sp /\ (m > 0 => sp <= StackSize)
  <2>1. m \in Nat /\ sp \in Nat /\ StackSize \in Nat
    BY <1>1, GuardedArgs, VMAssumption DEF Guarded
  <2>2. QED BY <1>1, <2>1 DEF OutOfStack
<1>3. stack \in [0..(StackSize - 1) -> S]
  BY DEF Filled
<1>4. ASSUME NEW k \in Nat, k < m
      PROVE  Value(k) \in S
  <2>1. sp - 1 - k \in 0..(StackSize - 1)
    BY ONLY <1>2, k \in Nat, k < m, <1>4
  <2>2. QED BY <1>3, <2>1 DEF Value
<1>5. ASSUME NEW n \in Nat, n <= m
      PROVE  Topmost(n) \in [1..n -> S]
  <2>1. \A i \in 1..n : sp - n + i - 1 \in 0..(StackSize - 1)
    BY ONLY <1>2, n \in Nat, <1>5
  <2>2. QED BY <1>3, <2>1 DEF Topmost
<1>6. QED BY <1>1, <1>2, <1>4, <1>5

\* A value of a closed set is sound.
LEMMA MemberSound ==
    ASSUME NEW S, NEW makes, Closed(S, makes), NEW v \in S
    PROVE  SoundValue(v, S, makes)
BY DEF Closed

LEMMA GuardedLoad ==
    ASSUME NEW F, Guarded(F), NEW S, Filled(S, F), Running, Instruction.op \in LoadOps,
           ~OutOfRange, ~BeyondStack
    PROVE  Loaded \in S \/ SoundValue(Loaded, S, F \X Nat)
<1>1. Instruction.op \in Opcodes
  BY DEF LoadOps, Opcodes
<1>2. /\ Instruction.op \in {"OpConstant", "OpGetGlobal", "OpGetLocal", "OpGetFree"} => Instruction.args[1] \in Nat
      /\ currentFrame.cl.free \in Seq(S) /\ currentFrame.cl \in S /\ currentFrame.base \in Nat
      /\ StackSize \in Nat /\ GlobalSize \in Nat
  BY <1>1, GuardedArgs, GuardedHere, VMAssumption
<1>3. CASE Instruction.op = "OpConstant"
  <2>1. constants \in Seq(S) /\ Instruction.args[1] + 1 \in 1..Len(constants)
    <3>1. constants \in Seq(S) /\ Len(constants) \in Nat
      BY DEF Filled
    <3>2. Instruction.args[1] < Len(constants)
      BY <1>2, <1>3, <3>1 DEF OutOfRange
    <3>3. QED BY <1>2, <1>3, <3>1, <3>2
  <2>2. constants[Instruction.args[1] + 1] \in S
    BY <2>1, ElementOfSeq
  <2>3. QED BY <1>3, <2>2 DEF Loaded
<1>4. CASE Instruction.op \in {"OpTrue", "OpFalse"}
  BY <1>4, BooleanSound DEF Loaded
<1>5. CASE Instruction.op = "OpNull"
  BY <1>5, NullSound DEF Loaded
<1>6. CASE Instruction.op = "OpGetGlobal"
  <2>1. Instruction.args[1] \in 0..(GlobalSize - 1)
    BY <1>2, <1>6 DEF OutOfRange
  <2>2. globals[Instruction.args[1]] \in S
    BY <2>1 DEF Filled
  <2>3. QED BY <1>6, <2>2 DEF Loaded
<1>7. CASE Instruction.op = "OpGetLocal"
  <2>1. Slot \in 0..(StackSize - 1)
    BY <1>2, <1>7 DEF BeyondStack, Slot
  <2>2. stack[Slot] \in S
    BY <2>1 DEF Filled
  <2>3. QED BY <1>7, <2>2 DEF Loaded
<1>8. CASE Instruction.op = "OpGetBuiltin"
  <2>1. PICK v : v = Builtin(Instruction.args[1])
    OBVIOUS
  <2>2. IsObject(v) /\ v.type \in SimpleTypes
    BY <2>1 DEF IsObject, Builtin, ObjectTypes, SimpleTypes
  <2>3. QED BY <1>8, <2>1, <2>2, SimpleSound DEF Loaded
<1>9. CASE Instruction.op = "OpGetFree"
  <2>1. PICK free : free = currentFrame.cl.free
    OBVIOUS
  <2>2. free \in Seq(S) /\ Instruction.args[1] + 1 \in 1..Len(free)
    <3>1. free \in Seq(S) /\ Len(free) \in Nat
      BY <1>2, <2>1
    <3>2. Instruction.args[1] < Len(free)
      BY <1>2, <1>9, <2>1, <3>1 DEF OutOfRange
    <3>3. QED BY <1>2, <1>9, <3>1, <3>2
  <2>3. free[Instruction.args[1] + 1] \in S
    BY <2>2, ElementOfSeq
  <2>4. QED BY <1>9, <2>1, <2>3 DEF Loaded
<1>10. CASE Instruction.op = "OpCurrentClosure"
  BY <1>2, <1>10 DEF Loaded
<1>11. QED BY <1>3, <1>4, <1>5, <1>6, <1>7, <1>8, <1>9, <1>10 DEF LoadOps

\* Whatever function a constant holds, a closure of it is one of F's.
LEMMA GuardedClosure ==
    ASSUME NEW F, Guarded(F), NEW S, Filled(S, F), Running, Instruction.op = "OpClosure",
           ~OutOfStack(Pops(Instruction)), ~OutOfRange, IsFunction(constants[Instruction.args[1] + 1])
    PROVE  SoundValue(Closure(constants[Instruction.args[1] + 1], Topmost(Instruction.args[2])), S, F \X Nat)
<1>1. PICK k, n, fn, free, cl : /\ k = Instruction.args[1] + 1 /\ n = Instruction.args[2] /\ fn = constants[k]
                                /\ free = Topmost(n) /\ cl = Closure(fn, free)
  OBVIOUS
<1>2. Instruction.op \in Opcodes
  BY DEF Opcodes
<1>3. k \in Nat \ {0} /\ n \in Nat /\ Pops(Instruction) = n /\ k - 1 = Instruction.args[1]
  BY <1>1, <1>2, GuardedArgs DEF Pops, ArithmeticOps, ComparisonOps
<1>4. fn \in F
  <2>1. constants \in Seq(S) /\ Len(constants) \in Nat
    BY DEF Filled
  <2>2. k - 1 < Len(constants)
    BY <1>3, <2>1 DEF OutOfRange
  <2>3. k \in 1..Len(constants)
    BY <1>3, <2>1, <2>2
  <2>4. QED BY <1>1, <2>3 DEF Filled
<1>5. free \in [1..n -> S]
  BY <1>1, <1>2, <1>3, GuardedStack
<1>6. free \in Seq(S) /\ Len(free) = n
  BY <1>3, <1>5
<1>7. cl.type = "CLOSURE_OBJ" /\ cl.fn = fn /\ cl.free = free
  BY <1>1 DEF Closure
<1>8. SoundClosure(cl, F \X Nat)
  BY <1>3, <1>4, <1>6, <1>7 DEF SoundClosure
<1>9. IsObject(cl) /\ Parts(cl) \subseteq S
  BY <1>7 DEF IsObject, ObjectTypes, Parts
<1>10. QED BY <1>1, <1>6, <1>7, <1>8, <1>9 DEF SoundValue

LEMMA GuardedSupplied ==
    ASSUME NEW F, Guarded(F), NEW S, Filled(S, F), Produces
    PROVE  Supplied(S, F \X Nat) /\ Instruction.op \in Opcodes
<1>1. Running /\ ~OutOfStack(Pops(Instruction))
  BY ProducesOn
<1>2. Instruction.op \in Opcodes
  BY DEF Produces, Load, BinaryOperation, And, Or, Comparison, Bang, Minus, MakeArray, MakeDict,
         Index, GetAttr, MakeClosure, callBuiltin, On, Opcodes, LoadOps
<1>3. Closed(S, F \X Nat) /\ BuiltinResults \subseteq S
  BY DEF Filled
<1>4. /\ \A k \in Nat : k < Pops(Instruction) => Value(k) \in S
      /\ \A n \in Nat : n <= Pops(Instruction) => Topmost(n) \in [1..n -> S]
  BY <1>1, <1>2, GuardedStack
<1>5. Instruction.op \in {"OpArray", "OpDict", "OpCall"} => Instruction.args[1] \in Nat
  BY <1>1, <1>2, GuardedArgs
<1>6. Instruction.op \in LoadOps /\ ~OutOfRange /\ ~BeyondStack =>
          Loaded \in S \/ SoundValue(Loaded, S, F \X Nat)
  BY <1>1, GuardedLoad
<1>7. Instruction.op = "OpClosure" /\ ~OutOfRange /\ IsFunction(constants[Instruction.args[1] + 1]) =>
          SoundValue(Closure(constants[Instruction.args[1] + 1], Topmost(Instruction.args[2])), S, F \X Nat)
  BY <1>1, GuardedClosure
<1>8. QED BY <1>2, <1>3, <1>4, <1>5, <1>6, <1>7 DEF Supplied

\* One step on, with values of a larger closed set.
LEMMA GuardedStep ==
    ASSUME NEW F, Guarded(F), NEW S, Filled(S, F), NEW T, S \subseteq T, Closed(T, F \X Nat),
           constants' = constants, status' \in Statuses \cup {"stack", "operand"}, sp' \in Nat,
           stack' \in [0..(StackSize - 1) -> T], globals' \in [0..(GlobalSize - 1) -> T],
           frames' \in Seq(VMFrame(ClosuresAmong(T))), Len(frames') \in 1..MaxFrames
    PROVE  Guarded(F)'
<1>1. constants \in Seq(S) /\ BuiltinResults \subseteq T
      /\ \A i \in 1..Len(constants) : IsFunction(constants[i]) => constants[i] \in F
  BY DEF Filled
<1>2. constants \in Seq(T)
  BY <1>1, SeqMonotonic
<1>3. Filled(T, F)'
  BY <1>1, <1>2 DEF Filled
<1>4. \A fn \in F : Encoded(fn)
  BY DEF Guarded
<1>5. QED BY <1>3, <1>4 DEF Guarded

LEMMA GuardedHalt ==
    ASSUME NEW F, Guarded(F), NEW how \in Statuses \cup {"stack", "operand"}, Halt(how)
    PROVE  Guarded(F)'
<1>1. PICK S : Filled(S, F)
  BY DEF Guarded
<1>2. /\ status' = how /\ constants' = constants /\ globals' = globals /\ stack' = stack
      /\ sp' = sp /\ frames' = frames
  BY DEF Halt
<1>3. Filled(S, F)'
  BY <1>1, <1>2 DEF Filled
<1>4. QED BY <1>2, <1>3 DEF Guarded

\* Frames of larger sets.
LEMMA MoreFrames ==
    ASSUME NEW S, NEW T, S \subseteq T, NEW chain \in Seq(VMFrame(ClosuresAmong(S)))
    PROVE  chain \in Seq(VMFrame(ClosuresAmong(T)))
<1>1. PICK P, Q : P = VMFrame(ClosuresAmong(S)) /\ Q = VMFrame(ClosuresAmong(T))
  OBVIOUS
<1>2. P \subseteq Q
  BY <1>1 DEF VMFrame, ClosuresAmong
<1>3. QED BY <1>1, <1>2, SeqMonotonic

\* The frame that runs goes on anywhere.
LEMMA GuardedMove ==
    ASSUME NEW F, Guarded(F), NEW S, Filled(S, F), Running, NEW pc \in Nat, Goto(pc)
    PROVE  frames' \in Seq(VMFrame(ClosuresAmong(S))) /\ Len(frames') \in 1..MaxFrames
<1>1. PICK R, n, e : /\ R = VMFrame(ClosuresAmong(S)) /\ n = Len(frames) /\ e = [frames[n] EXCEPT !.pc = pc]
  OBVIOUS
<1>2. frames \in Seq(R) /\ n \in Nat \ {0} /\ n \in 1..n /\ n \in 1..MaxFrames
  BY <1>1, GuardedHere DEF Filled, Guarded
<1>3. frames[n] \in R
  BY ONLY <1>1, <1>2, ElementOfSeq
<1>4. e \in R
  BY <1>1, <1>3 DEF VMFrame
<1>5. frames' = [frames EXCEPT ![n] = e]
  BY <1>1 DEF Goto
<1>6. frames' \in Seq(R) /\ Len(frames') = n
  BY ONLY <1>1, <1>2, <1>4, <1>5, LastReplaced
<1>7. QED BY <1>1, <1>2, <1>6

LEMMA GuardedProduces == ASSUME NEW F, Guarded(F), Produces PROVE Guarded(F)'
<1>1. PICK S : Filled(S, F)
  BY DEF Guarded
<1>2. Supplied(S, F \X Nat) /\ Instruction.op \in Opcodes
  BY <1>1, GuardedSupplied
<1>3. PICK outcome : Outcome(outcome, S, F \X Nat)
  BY <1>2, Produced
<1>4. Running /\ ~OutOfStack(Pops(Instruction))
  BY ProducesOn
<1>5. CASE outcome.type = "halts"
  <2>1. outcome.how \in {"error", "nil", "divide"}
    BY <1>3, <1>5 DEF Outcome, Sound, SoundValue, IsObject, ObjectTypes
  <2>2. Halt(outcome.how)
    BY <1>3, <1>5 DEF Outcome, Yield
  <2>3. QED BY <2>1, <2>2, GuardedHalt DEF Statuses
<1>6. CASE outcome.type # "halts" /\ Halt("error")
  BY <1>6, GuardedHalt DEF Statuses
<1>7. CASE outcome.type # "halts" /\ Push(Pops(Instruction), outcome)
  <2>1. PICK n, T : n = Pops(Instruction) /\ T = S \cup {outcome}
    OBVIOUS
  <2>2. /\ stack' = [stack EXCEPT ![sp - n] = outcome] /\ sp' = sp - n + 1 /\ Goto(Following)
        /\ constants' = constants /\ globals' = globals /\ status' = status
    BY <1>7, <2>1 DEF Push
  <2>3. SoundValue(outcome, S, F \X Nat)
    BY <1>3, <1>7 DEF Outcome, Sound
  <2>4. /\ S \subseteq T /\ Closed(T, F \X Nat)
        /\ stack \in [0..(StackSize - 1) -> S] /\ globals \in [0..(GlobalSize - 1) -> S]
    BY <1>1, <2>1, <2>3, Grow DEF Filled
  <2>5. stack' \in [0..(StackSize - 1) -> T] /\ globals' \in [0..(GlobalSize - 1) -> T]
    BY <2>1, <2>2, <2>4
  <2>6. sp' \in Nat
    <3>1. sp - n \in Nat
      BY <1>1, <1>2, <1>4, <2>1, GuardedStack
    <3>2. QED BY <2>2, <3>1
  <2>7. Following \in Nat
    BY <1>1, <1>2, <1>4, GuardedHere
  <2>8. frames' \in Seq(VMFrame(ClosuresAmong(S))) /\ Len(frames') \in 1..MaxFrames
    BY <1>1, <1>4, <2>2, <2>7, GuardedMove
  <2>9. frames' \in Seq(VMFrame(ClosuresAmong(T)))
    BY <2>4, <2>8, MoreFrames
  <2>10. status' \in Statuses \cup {"stack", "operand"}
    BY <2>2 DEF Guarded
  <2>11. QED BY <1>1, <2>2, <2>4, <2>5, <2>6, <2>8, <2>9, <2>10, GuardedStep
<1>8. QED BY <1>3, <1>5, <1>6, <1>7 DEF Outcome, Yield

LEMMA GuardedConsumes == ASSUME NEW F, Guarded(F), Consumes PROVE Guarded(F)'
<1>1. PICK S : Filled(S, F)
  BY DEF Guarded
<1>2. Running /\ ~OutOfStack(Pops(Instruction)) /\ Instruction.op \in Opcodes
  BY DEF Consumes, Pop, SetGlobal, SetLocal, Jump, JumpNotTruthy, While, On, Opcodes
<1>3. sp \in Int /\ Following \in Nat
  <2>1. sp \in Nat
    BY DEF Guarded
  <2>2. Following \in Nat
    BY <1>1, <1>2, GuardedHere
  <2>3. QED BY <2>1, <2>2
<1>4. Successors(Instructions, currentFrame.pc) \subseteq Nat
  <2>1. Instruction.op \in {"OpJump", "OpJumpNotTruthy", "OpWhile"} => Instruction.args[1] \in Nat
    BY <1>1, <1>2, GuardedArgs
  <2>2. QED BY <1>3, <2>1 DEF Successors, Instruction, Following
<1>5. /\ sp' = sp - Pops(Instruction) /\ constants' = constants /\ status' = status
      /\ \E pc \in Successors(Instructions, currentFrame.pc) : Goto(pc)
      /\ \/ stack' = stack
         \/ SetLocal /\ stack' = [stack EXCEPT ![Slot] = Value(0)]
      /\ \/ globals' = globals
         \/ SetGlobal /\ globals' = [globals EXCEPT ![Instruction.args[1]] = Value(0)]
  <2>1. sp' = sp - Pops(Instruction) /\ constants' = constants /\ status' = status
    BY <1>3, Consumed
  <2>2. \E pc \in Successors(Instructions, currentFrame.pc) : Goto(pc)
    BY <1>3, Consumed
  <2>3. \/ stack' = stack
        \/ SetLocal /\ stack' = [stack EXCEPT ![Slot] = Value(0)]
    BY <1>3, Consumed
  <2>4. \/ globals' = globals
        \/ SetGlobal /\ globals' = [globals EXCEPT ![Instruction.args[1]] = Value(0)]
    BY <1>3, Consumed
  <2>5. QED BY <2>1, <2>2, <2>3, <2>4
<1>6. SetLocal \/ SetGlobal => Value(0) \in S
  <2>1. SetLocal \/ SetGlobal => Pops(Instruction) = 1
    BY DEF SetLocal, SetGlobal, On, Pops, ArithmeticOps, ComparisonOps
  <2>2. QED BY <1>1, <1>2, <2>1, GuardedStack
<1>7. sp' \in Nat
  BY <1>1, <1>2, <1>5, GuardedStack
<1>8. stack \in [0..(StackSize - 1) -> S] /\ globals \in [0..(GlobalSize - 1) -> S] /\ Closed(S, F \X Nat)
  BY <1>1 DEF Filled
<1>9. stack' \in [0..(StackSize - 1) -> S] /\ globals' \in [0..(GlobalSize - 1) -> S]
  BY <1>5, <1>6, <1>8
<1>10. frames' \in Seq(VMFrame(ClosuresAmong(S))) /\ Len(frames') \in 1..MaxFrames
  BY <1>1, <1>2, <1>4, <1>5, GuardedMove
<1>11. status' \in Statuses \cup {"stack", "operand"}
  BY <1>5 DEF Guarded
<1>12. QED BY <1>1, <1>5, <1>7, <1>8, <1>9, <1>10, <1>11, GuardedStep

LEMMA GuardedCall == ASSUME NEW F, Guarded(F), callClosure PROVE Guarded(F)'
<1>1. PICK S : Filled(S, F)
  BY DEF Guarded
<1>2. PICK callee, base, n, R :
          callee = Callee /\ base = basePointer /\ n = Len(frames) /\ R = VMFrame(ClosuresAmong(S))
  OBVIOUS
<1>3. /\ Running /\ Instruction.op = "OpCall" /\ ~OutOfStack(Pops(Instruction)) /\ n < MaxFrames
      /\ callee.type = "CLOSURE_OBJ"
      /\ frames' = Append([frames EXCEPT ![n].pc = Following], NewFrame(callee, base))
      /\ sp' = base + callee.fn.numLocals
      /\ constants' = constants /\ globals' = globals /\ stack' = stack /\ status' = status
  BY <1>2 DEF callClosure, On
<1>4. Instruction.op \in Opcodes
  BY <1>3 DEF Opcodes
<1>5. Instruction.args[1] \in Nat /\ Pops(Instruction) = Instruction.args[1] + 1 /\ Following \in Nat
  <2>1. Instruction.args[1] \in Nat /\ Pops(Instruction) = Instruction.args[1] + 1
    BY <1>1, <1>3, <1>4, GuardedArgs
  <2>2. Following \in Nat
    BY <1>1, <1>3, <1>4, GuardedHere
  <2>3. QED BY <2>1, <2>2
<1>6. callee \in S /\ base \in Nat
  <2>1. Value(Instruction.args[1]) \in S
    BY <1>1, <1>3, <1>4, <1>5, GuardedStack
  <2>2. sp - Pops(Instruction) \in Nat /\ sp \in Nat
    BY <1>1, <1>3, <1>4, GuardedStack DEF Guarded
  <2>3. QED BY <1>2, <1>5, <2>1, <2>2 DEF Callee, basePointer
<1>7. callee.fn.numLocals \in Nat
  <2>1. callee.fn \in F
    BY <1>1, <1>3, <1>6 DEF Filled, Closed, SoundValue, SoundClosure
  <2>2. QED BY <2>1 DEF Guarded, Encoded
<1>8. sp' \in Nat
  BY <1>3, <1>6, <1>7
<1>9. frames' \in Seq(R) /\ Len(frames') \in 1..MaxFrames
  <2>1. PICK e, chain : e = [frames[n] EXCEPT !.pc = Following] /\ chain = [frames EXCEPT ![n] = e]
    OBVIOUS
  <2>2. frames \in Seq(R) /\ n \in Nat \ {0} /\ n \in 1..n
    BY <1>1, <1>2, <1>3, GuardedHere DEF Filled
  <2>3. frames[n] \in R
    BY ONLY <1>2, <2>2, ElementOfSeq
  <2>4. e \in R
    BY <1>2, <1>5, <2>1, <2>3 DEF VMFrame
  <2>5. chain \in Seq(R) /\ Len(chain) = n
    BY ONLY <1>2, <2>1, <2>2, <2>4, LastReplaced
  <2>6. NewFrame(callee, base) \in R
    BY <1>2, <1>3, <1>6 DEF NewFrame, VMFrame, ClosuresAmong
  <2>7. frames' = Append(chain, NewFrame(callee, base))
    BY <1>3, <2>1
  <2>8. MaxFrames \in Nat
    BY VMAssumption
  <2>9. PICK f : f = NewFrame(callee, base)
    OBVIOUS
  <2>10. frames' \in Seq(R) /\ Len(frames') = n + 1
    BY ONLY <2>5, <2>6, <2>7, <2>9
  <2>11. QED BY <1>3, <2>2, <2>8, <2>10
<1>10. /\ stack' \in [0..(StackSize - 1) -> S] /\ globals' \in [0..(GlobalSize - 1) -> S]
       /\ Closed(S, F \X Nat)
  BY <1>1, <1>3 DEF Filled
<1>11. status' \in Statuses \cup {"stack", "operand"}
  BY <1>3 DEF Guarded
<1>12. QED BY <1>1, <1>2, <1>3, <1>8, <1>9, <1>10, <1>11, GuardedStep

LEMMA GuardedReturn == ASSUME NEW F, Guarded(F), Return PROVE Guarded(F)'
<1>1. PICK S : Filled(S, F)
  BY DEF Guarded
<1>2. PICK b, n, T, v : /\ b = currentFrame.base /\ n = Len(frames) /\ T = S \cup {Null}
                        /\ v = IF Instruction.op = "OpReturn" THEN Null ELSE Value(0)
  OBVIOUS
<1>3. /\ Running /\ Instruction.op \in {"OpReturnValue", "OpReturn"} /\ ~OutOfStack(Pops(Instruction))
      /\ n > 1
  BY <1>2 DEF Return, On
<1>4. Instruction.op \in Opcodes
  BY <1>3 DEF Opcodes
<1>5. CASE b > StackSize
  <2>1. Halt("error")
    BY <1>2, <1>5 DEF Return
  <2>2. QED BY <2>1, GuardedHalt DEF Statuses
<1>6. CASE ~(b > StackSize)
  <2>1. /\ stack' = [stack EXCEPT ![b - 1] = v] /\ sp' = b /\ frames' = SubSeq(frames, 1, n - 1)
        /\ constants' = constants /\ globals' = globals /\ status' = status
    BY <1>2, <1>6 DEF Return
  <2>2. v \in T
    <3>1. CASE Instruction.op = "OpReturn"
      BY <1>2, <3>1
    <3>2. CASE Instruction.op # "OpReturn"
      <4>1. Pops(Instruction) = 1
        BY <1>3, <3>2 DEF Pops, ArithmeticOps, ComparisonOps
      <4>2. Value(0) \in S
        BY <1>1, <1>3, <1>4, <4>1, GuardedStack
      <4>3. QED BY <1>2, <3>2, <4>2
    <3>3. QED BY <3>1, <3>2
  <2>3. /\ S \subseteq T /\ Closed(T, F \X Nat)
        /\ stack \in [0..(StackSize - 1) -> S] /\ globals \in [0..(GlobalSize - 1) -> S]
    BY <1>1, <1>2, NullSound, Grow DEF Filled
  <2>4. stack' \in [0..(StackSize - 1) -> T] /\ globals' \in [0..(GlobalSize - 1) -> T]
    BY <2>1, <2>2, <2>3
  <2>5. frames' \in Seq(VMFrame(ClosuresAmong(S))) /\ Len(frames') \in 1..MaxFrames
    <3>1. PICK R : R = VMFrame(ClosuresAmong(S))
      OBVIOUS
    <3>2. frames \in Seq(R) /\ n \in Nat /\ n = Len(frames) /\ n \in 1..MaxFrames /\ MaxFrames \in Nat
      BY <1>1, <1>2, <3>1, VMAssumption DEF Filled, Guarded
    <3>3. frames' \in Seq(R) /\ Len(frames') = n - 1
      BY ONLY <1>3, <2>1, <3>2
    <3>4. QED BY <1>3, <3>1, <3>2, <3>3
  <2>6. frames' \in Seq(VMFrame(ClosuresAmong(T)))
    BY <2>3, <2>5, MoreFrames
  <2>7. sp' \in Nat
    BY <1>1, <1>2, <1>3, <2>1, GuardedHere
  <2>8. status' \in Statuses \cup {"stack", "operand"}
    BY <2>1 DEF Guarded
  <2>9. QED BY <1>1, <2>1, <2>3, <2>4, <2>5, <2>6, <2>7, <2>8, GuardedStep
<1>7. QED BY <1>5, <1>6

(* A machine that runs functions of F goes on doing so.                    *)
LEMMA GuardedNext == ASSUME NEW F, Guarded(F), [Next]_vars PROVE Guarded(F)'
<1>1. ASSUME callFails PROVE Guarded(F)'
  <2>1. PICK how \in Statuses : Halt(how)
    BY <1>1 DEF callFails, Statuses
  <2>2. QED BY <2>1, GuardedHalt
<1>2. ASSUME Panic PROVE Guarded(F)'
  <2>1. PICK how \in Statuses \cup {"stack", "operand"} : Halt(how)
    BY <1>2 DEF Panic, Statuses
  <2>2. QED BY <2>1, GuardedHalt
<1>3. ASSUME Finish PROVE Guarded(F)'
  BY <1>3, GuardedHalt DEF Finish, Statuses
<1>4. ASSUME UNCHANGED vars PROVE Guarded(F)'
  <2>1. /\ status' = status /\ constants' = constants /\ globals' = globals /\ stack' = stack
        /\ sp' = sp /\ frames' = frames
    BY <1>4 DEF vars
  <2>2. PICK S : Filled(S, F)
    BY DEF Guarded
  <2>3. Filled(S, F)'
    BY <2>1, <2>2 DEF Filled
  <2>4. QED BY <2>1, <2>3 DEF Guarded
<1>5. QED BY <1>1, <1>2, <1>3, <1>4, GuardedProduces, GuardedConsumes, GuardedCall, GuardedReturn
          DEF Next, Produces, Consumes

\* Its type invariant.
LEMMA GuardedTypes == ASSUME NEW F, Guarded(F) PROVE TypeOK
<1>1. PICK S : Filled(S, F)
  BY DEF Guarded
<1>2. \A v \in S : IsObject(v)
  BY <1>1 DEF Filled, Closed, SoundValue
<1>3. stack \in [0..(StackSize - 1) -> S] /\ globals \in [0..(GlobalSize - 1) -> S]
  BY <1>1 DEF Filled
<1>4. \A i \in DOMAIN frames : frames[i].cl.type = "CLOSURE_OBJ" /\ frames[i].pc \in Nat
  <2>1. PICK R : R = VMFrame(ClosuresAmong(S))
    OBVIOUS
  <2>2. \A i \in DOMAIN frames : frames[i] \in R
    BY <1>1, <2>1 DEF Filled
  <2>3. QED BY <2>1, <2>2 DEF VMFrame, ClosuresAmong
<1>5. sp \in Nat /\ Len(frames) \in 1..MaxFrames /\ status \in Statuses \cup {"stack", "operand"}
  BY DEF Guarded
<1>6. QED BY <1>2, <1>3, <1>4, <1>5 DEF TypeOK, Statuses

\* What a machine does to the globals and the constants.
LEMMA GlobalWrites ==
    ASSUME NEW F, Guarded(F), [Next]_vars
    PROVE  /\ constants' = constants
           /\ \/ globals' = globals
              \/ \E fn \in F, p \in Nat :
                    /\ IsHead(fn.instructions, p) /\ At(fn.instructions, p).op = "OpSetGlobal"
                    /\ \E v : globals' = [globals EXCEPT ![At(fn.instructions, p).args[1]] = v]
<1>1. CASE SetGlobal
  <2>1. PICK S : Filled(S, F)
    BY DEF Guarded
  <2>2. PICK fn, p, v : fn = currentFrame.cl.fn /\ p = currentFrame.pc /\ v = Value(0)
    OBVIOUS
  <2>3. /\ Running /\ Instruction.op = "OpSetGlobal" /\ constants' = constants
        /\ globals' = [globals EXCEPT ![Instruction.args[1]] = v]
    BY <1>1, <2>2 DEF SetGlobal, On
  <2>4. Instruction.op \in Opcodes
    BY <2>3 DEF Opcodes
  <2>5. fn \in F /\ p \in Nat /\ IsHead(fn.instructions, p) /\ Instruction = At(fn.instructions, p)
    <3>1. fn \in F /\ p \in Nat
      BY <2>1, <2>2, <2>3, GuardedHere
    <3>2. IsHead(Instructions, currentFrame.pc)
      BY <2>1, <2>3, <2>4, GuardedHere
    <3>3. QED BY <2>2, <3>1, <3>2 DEF Instruction, Instructions
  <2>6. QED BY <2>3, <2>5
<1>2. CASE ~SetGlobal /\ [Next]_vars
  <2>1. ASSUME NEW outcome, Yield(outcome) PROVE constants' = constants /\ globals' = globals
    BY <2>1 DEF Yield, Halt, Push
  <2>2. CASE Load
    BY <2>1, <2>2 DEF Load
  <2>3. CASE BinaryOperation \/ And \/ Or \/ Comparison \/ Bang \/ Minus
    BY <2>1, <2>3 DEF BinaryOperation, And, Or, Comparison, Bang, Minus
  <2>4. CASE MakeArray \/ MakeDict \/ Index \/ GetAttr
    BY <2>1, <2>4 DEF MakeArray, MakeDict, Index, GetAttr
  <2>5. CASE MakeClosure \/ callBuiltin
    BY <2>1, <2>5 DEF MakeClosure, callBuiltin
  <2>6. CASE Pop \/ SetLocal \/ Jump \/ JumpNotTruthy \/ While
    BY <2>6 DEF Pop, SetLocal, Jump, JumpNotTruthy, While, Branch
  <2>7. CASE callClosure
    BY <2>7 DEF callClosure
  <2>8. CASE callFails \/ Return \/ Panic \/ Finish
    BY <2>8 DEF callFails, Return, Panic, Finish, Halt
  <2>9. CASE UNCHANGED vars
    BY <2>9 DEF vars
  <2>10. QED BY <1>2, <2>2, <2>3, <2>4, <2>5, <2>6, <2>7, <2>8, <2>9 DEF Next
<1>3. QED BY <1>1, <1>2
=============================================================================
