---------------------------- MODULE FrameChains ----------------------------
(***************************************************************************)
(* The frames of a machine that runs verified code, as a value: what a     *)
(* chain of frames and a stack pointer that fit each other are, and that a *)
(* move inside of a function, a call and a return keep them fitting.       *)
(*                                                                         *)
(* Every frame but the last waits in the middle of a call: the base of the *)
(* next one is where its own values end, as many of them as the verifier   *)
(* found at its program counter.  The stack pointer is where the values of *)
(* the last frame end.  A call breaks none of this whatever function it    *)
(* enters, because the height behind the call in the caller and the base   *)
(* of the callee are both the stack pointer less the arguments; a return   *)
(* restores it because the frame below has kept it.                        *)
(*                                                                         *)
(* Both machines are proved from these lemmas: StackMachine, of which the  *)
(* chain is the variable frames, and VM, where it is a view of frames.     *)
(***************************************************************************)
EXTENDS Verifier, SequenceTheorems, TLAPS

\* The code of a program, verified.
SoundCode(main, functions) ==
    /\ WellFormed(main) /\ StackSound(main, TRUE) /\ main.numLocals = 0
    /\ \A fn \in functions : WellFormed(fn) /\ StackSound(fn, FALSE)

\* chain[i] runs verified code from an offset the verifier reached.
SoundFrame(chain, i, main, functions, size) ==
    /\ i = 1 => chain[i].fn = main /\ chain[i].base = 0
    /\ i > 1 => chain[i].fn \in functions
    /\ chain[i].pc \in DOMAIN Heights(chain[i].fn.instructions)
    /\ chain[i].base <= size
    /\ i < Len(chain) => chain[i + 1].base = Floor(chain[i]) + HeightIn(chain[i])

Frame(main, functions) == [fn : functions \cup {main}, pc : Nat, base : Nat]

\* Only a function that has just reserved its locals is beyond the stack.
SoundChain(chain, pointer, main, functions, size) ==
    /\ chain \in Seq(Frame(main, functions)) /\ Len(chain) \in Nat \ {0}
    /\ pointer \in Nat
    /\ \A i \in 1..Len(chain) : SoundFrame(chain, i, main, functions, size)
    /\ pointer = Floor(chain[Len(chain)]) + HeightIn(chain[Len(chain)])
    /\ pointer > size => HeightIn(chain[Len(chain)]) = 0

-----------------------------------------------------------------------------
(* The instructions of well-formed code.                                   *)

LEMMA EffectType ==
    ASSUME NEW fn, WellFormed(fn), NEW p \in Nat, IsHead(fn.instructions, p)
    PROVE  LET i == At(fn.instructions, p)
           IN  /\ Pops(i) \in Nat
               /\ Pushes(i) \in {0, 1}
               /\ Successors(fn.instructions, p) \subseteq Nat
               /\ NextOffset(fn.instructions, p) \in Nat
               /\ i.op = "OpCall" => i.args[1] \in Nat /\ Pops(i) = i.args[1] + 1 /\ Pushes(i) = 1
               /\ i.op \in {"OpGetLocal", "OpSetLocal"} => i.args[1] \in Nat /\ i.args[1] < fn.numLocals
<1> DEFINE i == At(fn.instructions, p)
<1>1. i \in Cells /\ i.op \in Opcodes /\ i.args \in Seq(Nat)
  <2>1. fn.instructions \in Seq(Cells) /\ p + 1 \in 1..Len(fn.instructions)
    BY DEF WellFormed, IsHead
  <2>2. i \in Cells
    BY <2>1 DEF At
  <2>3. i.op \in Opcodes
    BY DEF IsHead, At
  <2>4. QED BY <2>2, <2>3 DEF Cells
<1>2. Len(i.args) = Len(OperandWidths(i.op))
  BY DEF WellFormed, IsHead, At
<1>3. ASSUME NEW k \in 1..Len(OperandWidths(i.op))
      PROVE  i.args[k] \in Nat
  BY <1>1, <1>2
<1> HIDE DEF i
<1>4. Pops(i) \in Nat
  <2>1. CASE i.op \in {"OpArray", "OpDict"}
    BY <2>1, <1>3 DEF Pops, OperandWidths, ArithmeticOps, ComparisonOps
  <2>2. CASE i.op = "OpCall"
    BY <2>2, <1>3 DEF Pops, OperandWidths, ArithmeticOps, ComparisonOps
  <2>3. CASE i.op = "OpClosure"
    BY <2>3, <1>3 DEF Pops, OperandWidths, ArithmeticOps, ComparisonOps
  <2>4. CASE i.op \notin {"OpArray", "OpDict", "OpCall", "OpClosure"}
    BY <2>4 DEF Pops
  <2>5. QED BY <2>1, <2>2, <2>3, <2>4
<1>5. Pushes(i) \in {0, 1}
  BY DEF Pushes
<1>6. NextOffset(fn.instructions, p) \in Nat
  <2>1. OperandBytes(i.op) \in Nat
    BY DEF OperandBytes, OperandWidths
  <2>2. QED BY <2>1 DEF NextOffset, InstructionLen, i
<1>7. Successors(fn.instructions, p) \subseteq Nat
  <2>1. i.op \in {"OpJump", "OpWhile", "OpJumpNotTruthy"} => i.args[1] \in Nat
    BY <1>3 DEF OperandWidths
  <2>2. QED BY <2>1, <1>6 DEF Successors, i
<1>8. i.op = "OpCall" => i.args[1] \in Nat /\ Pops(i) = i.args[1] + 1 /\ Pushes(i) = 1
  BY <1>3 DEF OperandWidths, Pops, Pushes, Returns, ArithmeticOps, ComparisonOps
<1>9. i.op \in {"OpGetLocal", "OpSetLocal"} => i.args[1] \in Nat /\ i.args[1] < fn.numLocals
  <2>1. i.op \in {"OpGetLocal", "OpSetLocal"} => i.args[1] \in Nat
    BY <1>3 DEF OperandWidths
  <2>2. QED BY <2>1 DEF WellFormed, IsHead, At, i
<1>10. QED BY <1>4, <1>5, <1>6, <1>7, <1>8, <1>9 DEF i

\* Where control is, the code has the instruction and the height it needs.
LEMMA StepSound ==
    ASSUME NEW fn, NEW isMain \in BOOLEAN, WellFormed(fn), StackSound(fn, isMain),
           NEW p \in DOMAIN Heights(fn.instructions), p \in Nat, p < Len(fn.instructions)
    PROVE  LET i      == At(fn.instructions, p)
               height == Heights(fn.instructions)
           IN  /\ IsHead(fn.instructions, p)
               /\ isMain => ~Returns(i)
               /\ height[p] \in Nat /\ height[p] >= Pops(i)
               /\ \A q \in Successors(fn.instructions, p) :
                     q \in DOMAIN height /\ height[q] = HeightAfter(height[p], i)
<1>1. Len(fn.instructions) \in Nat
  BY DEF WellFormed
<1>2. QED BY <1>1 DEF StackSound, SoundAt

LEMMA EndSound ==
    ASSUME NEW fn, NEW isMain \in BOOLEAN, WellFormed(fn), StackSound(fn, isMain),
           NEW p \in DOMAIN Heights(fn.instructions), p \in Nat, ~(p < Len(fn.instructions))
    PROVE  isMain /\ Heights(fn.instructions)[p] = 0
<1>1. Len(fn.instructions) \in Nat
  BY DEF WellFormed
<1>2. QED BY <1>1 DEF StackSound, SoundAt, IsHead

-----------------------------------------------------------------------------
(* The last frame of a sound chain, and the instruction it is at.          *)

LEMMA ChainTop ==
    ASSUME NEW main, NEW functions, NEW size \in Nat, NEW chain, NEW pointer, NEW top,
           SoundCode(main, functions), SoundChain(chain, pointer, main, functions, size),
           top = chain[Len(chain)]
    PROVE  /\ top \in Frame(main, functions)
           /\ top.fn \in functions \cup {main}
           /\ top.pc \in Nat /\ top.base \in Nat /\ top.base <= size
           /\ Len(chain) = 1 => top.fn = main /\ top.base = 0
           /\ WellFormed(top.fn) /\ StackSound(top.fn, Len(chain) = 1)
           /\ top.fn.numLocals \in Nat
           /\ top.pc \in DOMAIN Heights(top.fn.instructions)
           /\ HeightIn(top) \in Nat
           /\ pointer = top.base + top.fn.numLocals + HeightIn(top)
<1>1. PICK n \in Nat \ {0} : n = Len(chain)
  BY DEF SoundChain
<1>2. n \in 1..n
  OBVIOUS
<1>3. top \in Frame(main, functions)
  <2>1. chain \in Seq(Frame(main, functions)) /\ Len(chain) \in 1..Len(chain)
    BY <1>1, <1>2 DEF SoundChain
  <2>2. QED BY ONLY <2>1, top = chain[Len(chain)], ElementOfSeq
<1>4. top.fn \in functions \cup {main} /\ top.pc \in Nat /\ top.base \in Nat
  BY <1>3 DEF Frame
<1>5. SoundFrame(chain, n, main, functions, size) /\ top = chain[n]
  BY <1>1, <1>2 DEF SoundChain
<1>6. top.base <= size /\ top.pc \in DOMAIN Heights(top.fn.instructions)
      /\ (n = 1 => top.fn = main /\ top.base = 0)
  BY ONLY <1>5 DEF SoundFrame
<1>7. WellFormed(top.fn) /\ StackSound(top.fn, n = 1)
  <2>1. CASE n = 1
    <3>1. top.fn = main /\ (n = 1) = TRUE
      BY <1>6, <2>1
    <3>2. WellFormed(main) /\ StackSound(main, TRUE)
      BY DEF SoundCode
    <3>3. QED BY <3>1, <3>2
  <2>2. CASE n # 1
    <3>1. n > 1 /\ (n = 1) = FALSE
      BY <2>2
    <3>2. top.fn \in functions
      BY ONLY <3>1, <1>5 DEF SoundFrame
    <3>3. QED BY <3>1, <3>2 DEF SoundCode
  <2>3. QED BY <2>1, <2>2
<1>8. top.fn.numLocals \in Nat
  BY <1>7 DEF WellFormed
<1>9. HeightIn(top) \in Nat
  BY <1>6, <1>7 DEF StackSound, HeightIn
<1>10. pointer = top.base + top.fn.numLocals + HeightIn(top)
  BY DEF SoundChain, Floor
<1>11. QED BY <1>1, <1>3, <1>4, <1>6, <1>7, <1>8, <1>9, <1>10

LEMMA ChainStep ==
    ASSUME NEW main, NEW functions, NEW size \in Nat, NEW chain, NEW pointer, NEW top, NEW i,
           SoundCode(main, functions), SoundChain(chain, pointer, main, functions, size),
           top = chain[Len(chain)], top.pc < Len(top.fn.instructions),
           i = At(top.fn.instructions, top.pc)
    PROVE  /\ IsHead(top.fn.instructions, top.pc)
           /\ Len(chain) = 1 => ~Returns(i)
           /\ Pops(i) \in Nat /\ Pushes(i) \in {0, 1}
           /\ HeightIn(top) >= Pops(i)
           /\ pointer - Pops(i) >= Floor(top)
           /\ Pops(i) > 0 => pointer <= size
           /\ i.op = "OpCall" => i.args[1] \in Nat /\ Pops(i) = i.args[1] + 1 /\ Pushes(i) = 1
           /\ i.op \in {"OpGetLocal", "OpSetLocal"} => i.args[1] \in Nat /\ i.args[1] < top.fn.numLocals
<1>1. /\ top.pc \in Nat /\ top.base \in Nat
      /\ WellFormed(top.fn) /\ StackSound(top.fn, Len(chain) = 1)
      /\ top.fn.numLocals \in Nat
      /\ top.pc \in DOMAIN Heights(top.fn.instructions)
      /\ HeightIn(top) \in Nat
      /\ pointer = top.base + top.fn.numLocals + HeightIn(top)
  BY ChainTop
<1>2. (Len(chain) = 1) \in BOOLEAN
  OBVIOUS
<1>3. /\ IsHead(top.fn.instructions, top.pc)
      /\ Len(chain) = 1 => ~Returns(i)
      /\ HeightIn(top) >= Pops(i)
  BY <1>1, <1>2, StepSound DEF HeightIn
<1>4. /\ Pops(i) \in Nat /\ Pushes(i) \in {0, 1}
      /\ i.op = "OpCall" => i.args[1] \in Nat /\ Pops(i) = i.args[1] + 1 /\ Pushes(i) = 1
      /\ i.op \in {"OpGetLocal", "OpSetLocal"} => i.args[1] \in Nat /\ i.args[1] < top.fn.numLocals
  BY <1>1, <1>3, EffectType
<1>5. pointer - Pops(i) >= Floor(top)
  BY <1>1, <1>3, <1>4, SMTT(30) DEF Floor
<1>6. pointer > size => HeightIn(top) = 0
  BY DEF SoundChain
<1>7. Pops(i) > 0 => pointer <= size
  BY <1>1, <1>3, <1>4, <1>6, SMTT(30)
<1>8. QED BY <1>3, <1>4, <1>5, <1>7

\* Where the instruction goes, the height is known.
LEMMA ChainNext ==
    ASSUME NEW main, NEW functions, NEW size \in Nat, NEW chain, NEW pointer, NEW top,
           SoundCode(main, functions), SoundChain(chain, pointer, main, functions, size),
           top = chain[Len(chain)], top.pc < Len(top.fn.instructions),
           NEW q \in Successors(top.fn.instructions, top.pc)
    PROVE  /\ q \in Nat
           /\ q \in DOMAIN Heights(top.fn.instructions)
           /\ Heights(top.fn.instructions)[q] =
                  HeightAfter(HeightIn(top), At(top.fn.instructions, top.pc))
<1>1. /\ top.pc \in Nat
      /\ WellFormed(top.fn) /\ StackSound(top.fn, Len(chain) = 1)
      /\ top.pc \in DOMAIN Heights(top.fn.instructions)
  BY ChainTop
<1>2. (Len(chain) = 1) \in BOOLEAN
  OBVIOUS
<1>3. /\ IsHead(top.fn.instructions, top.pc)
      /\ q \in DOMAIN Heights(top.fn.instructions)
      /\ Heights(top.fn.instructions)[q] =
             HeightAfter(HeightIn(top), At(top.fn.instructions, top.pc))
  BY <1>1, <1>2, StepSound DEF HeightIn
<1>4. q \in Nat
  BY <1>1, <1>3, EffectType
<1>5. QED BY <1>3, <1>4

LEMMA ChainEnd ==
    ASSUME NEW main, NEW functions, NEW size \in Nat, NEW chain, NEW pointer, NEW top,
           SoundCode(main, functions), SoundChain(chain, pointer, main, functions, size),
           top = chain[Len(chain)], ~(top.pc < Len(top.fn.instructions))
    PROVE  Len(chain) = 1 /\ pointer = 0
<1>1. /\ top.pc \in Nat
      /\ Len(chain) = 1 => top.fn = main /\ top.base = 0
      /\ WellFormed(top.fn) /\ StackSound(top.fn, Len(chain) = 1)
      /\ top.pc \in DOMAIN Heights(top.fn.instructions)
      /\ pointer = top.base + top.fn.numLocals + HeightIn(top)
  BY ChainTop
<1>2. (Len(chain) = 1) \in BOOLEAN
  OBVIOUS
<1>3. Len(chain) = 1 /\ HeightIn(top) = 0
  BY <1>1, <1>2, EndSound DEF HeightIn
<1>4. main.numLocals = 0
  BY DEF SoundCode
<1>5. QED BY <1>1, <1>3, <1>4

-----------------------------------------------------------------------------
(* What the steps do to a chain.                                           *)

Moved(chain, pc) == [chain EXCEPT ![Len(chain)].pc = pc]

Called(chain, pc, fn, base) == Append(Moved(chain, pc), [fn |-> fn, pc |-> 0, base |-> base])

Popped(chain) == SubSeq(chain, 1, Len(chain) - 1)

\* The last frame of a chain is replaced: nothing else changes.
LEMMA LastReplaced ==
    ASSUME NEW R, NEW n \in Nat \ {0}, NEW old \in Seq(R), Len(old) = n, NEW e \in R
    PROVE  LET new == [old EXCEPT ![n] = e]
           IN  /\ new \in Seq(R)
               /\ Len(new) = n
               /\ new[n] = e
               /\ \A i \in 1..(n - 1) : new[i] = old[i]
<1>1. PICK new : new = [old EXCEPT ![n] = e]
  OBVIOUS
<1>2. n \in 1..n /\ n \in 1..Len(old)
  OBVIOUS
<1>3. /\ new \in Seq(R) /\ Len(new) = n
      /\ \A i \in 1..n : new[i] = IF i = n THEN e ELSE old[i]
  BY <1>1, <1>2, ExceptSeq
<1>4. new[n] = e
  BY ONLY <1>2, <1>3
<1>5. \A i \in 1..(n - 1) : new[i] = old[i]
  <2>1. \A i \in 1..(n - 1) : i \in 1..n /\ i # n
    OBVIOUS
  <2>2. QED BY ONLY <1>3, <2>1, Zenon
<1>6. QED BY ONLY <1>1, <1>3, <1>4, <1>5

\* What an instruction leaves is on the stack, or it leaves things as they are.
Fits(pointer, i, size) ==
    \/ HeightAfter(pointer, i) <= size
    \/ Pops(i) = 0 /\ Pushes(i) = 0

LEMMA FitsWhen ==
    ASSUME NEW i, NEW pointer \in Nat, NEW size \in Nat, Pops(i) \in Nat, Pushes(i) \in {0, 1},
           Pops(i) > 0 => pointer <= size, Pushes(i) = 1 => pointer - Pops(i) < size
    PROVE  Fits(pointer, i, size)
<1>1. HeightAfter(pointer, i) = pointer - Pops(i) + Pushes(i)
  BY DEF HeightAfter
<1>2. CASE Pushes(i) = 1
  BY <1>1, <1>2 DEF Fits
<1>3. CASE Pushes(i) = 0 /\ Pops(i) > 0
  BY <1>1, <1>3 DEF Fits
<1>4. CASE Pushes(i) = 0 /\ Pops(i) = 0
  BY <1>4 DEF Fits
<1>5. QED BY <1>2, <1>3, <1>4

\* The top frame goes on inside its own function.
LEMMA MoveChain ==
    ASSUME NEW main, NEW functions, NEW size \in Nat, NEW old, NEW pointer, NEW top,
           SoundCode(main, functions), SoundChain(old, pointer, main, functions, size),
           top = old[Len(old)], top.pc < Len(top.fn.instructions),
           NEW i, i = At(top.fn.instructions, top.pc),
           NEW pc \in Successors(top.fn.instructions, top.pc),
           Fits(pointer, i, size)
    PROVE  /\ SoundChain(Moved(old, pc), HeightAfter(pointer, i), main, functions, size)
           /\ Len(Moved(old, pc)) = Len(old)
<1>0. PICK n, new : n = Len(old) /\ top = old[n] /\ new = Moved(old, pc)
                    /\ new = [old EXCEPT ![n].pc = pc]
  BY DEF Moved
<1>1. /\ n \in Nat \ {0}
      /\ old \in Seq(Frame(main, functions)) /\ Len(old) = n
      /\ \A k \in 1..n : SoundFrame(old, k, main, functions, size)
      /\ pointer > size => HeightIn(top) = 0
  BY <1>0 DEF SoundChain
<1>2. /\ top \in Frame(main, functions) /\ top.base \in Nat /\ top.fn.numLocals \in Nat
      /\ HeightIn(top) \in Nat
      /\ pointer = top.base + top.fn.numLocals + HeightIn(top)
  BY ChainTop
<1>3. /\ Pops(i) \in Nat /\ Pushes(i) \in {0, 1} /\ HeightIn(top) >= Pops(i)
      /\ pc \in Nat /\ pc \in DOMAIN Heights(top.fn.instructions)
      /\ Heights(top.fn.instructions)[pc] = HeightAfter(HeightIn(top), i)
  <2>1. Pops(i) \in Nat /\ Pushes(i) \in {0, 1} /\ HeightIn(top) >= Pops(i)
    BY ChainStep
  <2>2. QED BY <2>1, ChainNext
<1>4. PICK e : e = [top EXCEPT !.pc = pc]
  OBVIOUS
<1>5. e \in Frame(main, functions) /\ e.fn = top.fn /\ e.base = top.base /\ e.pc = pc
  BY ONLY <1>2, <1>3, <1>4 DEF Frame
<1>6. /\ new \in Seq(Frame(main, functions)) /\ Len(new) = n /\ new[n] = e
      /\ \A k \in 1..(n - 1) : new[k] = old[k]
  <2>1. new = [old EXCEPT ![n] = e]
    BY ONLY <1>0, <1>4
  <2>2. PICK R : R = Frame(main, functions)
    OBVIOUS
  <2>3. QED BY ONLY <2>1, <2>2, <1>1, <1>5, LastReplaced
<1>7. ASSUME NEW k \in 1..n
      PROVE  SoundFrame(new, k, main, functions, size)
  <2>1. SoundFrame(old, k, main, functions, size) /\ (k < n => k + 1 \in 1..n)
    BY <1>1
  <2>2. CASE k = n
    BY ONLY <2>1, <2>2, <1>1, <1>0, <1>3, <1>5, <1>6 DEF SoundFrame
  <2>3. CASE k < n
    <3>1. new[k] = old[k]
      BY ONLY <2>3, <1>1, <1>6
    <3>2. new[k + 1].base = old[k + 1].base
      <4>1. CASE k + 1 = n
        BY ONLY <4>1, <1>0, <1>5, <1>6
      <4>2. CASE k + 1 # n
        <5>1. k + 1 \in 1..(n - 1)
          BY ONLY <2>3, <4>2, <1>1
        <5>2. QED BY ONLY <5>1, <1>6
      <4>3. QED BY <4>1, <4>2
    <3>3. QED BY ONLY <2>1, <2>3, <3>1, <3>2, <1>1, <1>6 DEF SoundFrame, Floor, HeightIn
  <2>4. QED BY <2>2, <2>3, <1>1
<1>8. HeightIn(e) = HeightAfter(HeightIn(top), i) /\ Floor(e) = top.base + top.fn.numLocals
  BY ONLY <1>3, <1>5 DEF HeightIn, Floor
<1>9. HeightAfter(pointer, i) \in Nat /\ HeightAfter(pointer, i) = Floor(e) + HeightIn(e)
  BY ONLY <1>2, <1>3, <1>8 DEF HeightAfter
<1>10. HeightAfter(pointer, i) > size => HeightIn(e) = 0
  <2>1. CASE HeightAfter(pointer, i) <= size
    BY <2>1, <1>9
  <2>2. CASE Pops(i) = 0 /\ Pushes(i) = 0
    BY <2>2, <1>1, <1>2, <1>8 DEF HeightAfter
  <2>3. QED BY <2>1, <2>2 DEF Fits
<1>11. QED BY <1>0, <1>1, <1>6, <1>7, <1>9, <1>10 DEF SoundChain

\* A function is called: its frame sits on the arguments, above the callee.
LEMMA CallChain ==
    ASSUME NEW main, NEW functions, NEW size \in Nat, NEW old, NEW pointer, NEW top,
           SoundCode(main, functions), SoundChain(old, pointer, main, functions, size),
           top = old[Len(old)], top.pc < Len(top.fn.instructions),
           NEW i, i = At(top.fn.instructions, top.pc), i.op = "OpCall",
           NEW fn \in functions, fn.numParameters = i.args[1],
           NEW pc, pc = NextOffset(top.fn.instructions, top.pc),
           NEW base, base = pointer - fn.numParameters
    PROVE  /\ SoundChain(Called(old, pc, fn, base), base + fn.numLocals, main, functions, size)
           /\ Len(Called(old, pc, fn, base)) = Len(old) + 1
           /\ base \in Nat /\ base > Floor(top) /\ pointer <= size
<1>0. PICK n, called, moved, new :
        /\ n = Len(old) /\ top = old[n]
        /\ called = [fn |-> fn, pc |-> 0, base |-> base]
        /\ moved = [old EXCEPT ![n].pc = pc]
        /\ new = Append(moved, called) /\ new = Called(old, pc, fn, base)
  BY DEF Called, Moved
<1>1. /\ n \in Nat \ {0}
      /\ old \in Seq(Frame(main, functions)) /\ Len(old) = n
      /\ \A k \in 1..n : SoundFrame(old, k, main, functions, size)
  BY <1>0 DEF SoundChain
<1>2. /\ top \in Frame(main, functions) /\ top.base \in Nat /\ top.fn.numLocals \in Nat
      /\ HeightIn(top) \in Nat
      /\ pointer = top.base + top.fn.numLocals + HeightIn(top)
  BY ChainTop
<1>4. /\ Pops(i) = fn.numParameters + 1 /\ Pushes(i) = 1 /\ HeightIn(top) >= Pops(i)
      /\ Pops(i) > 0 => pointer <= size
      /\ fn.numParameters \in Nat
  BY ChainStep, SMTT(30)
<1>5. /\ pc \in Nat /\ pc \in DOMAIN Heights(top.fn.instructions)
      /\ Heights(top.fn.instructions)[pc] = HeightAfter(HeightIn(top), i)
  <2>1. pc \in Successors(top.fn.instructions, top.pc)
    BY DEF Successors, Returns
  <2>2. SoundCode(main, functions) /\ SoundChain(old, pointer, main, functions, size)
        /\ top = old[Len(old)] /\ top.pc < Len(top.fn.instructions) /\ size \in Nat
        /\ i = At(top.fn.instructions, top.pc)
    OBVIOUS
  <2>3. QED BY ONLY <2>1, <2>2, ChainNext, ZenonT(30)
<1>6. WellFormed(fn) /\ StackSound(fn, FALSE) /\ fn.numLocals \in Nat
  BY DEF SoundCode, WellFormed
<1>7. /\ base \in Nat /\ base <= size /\ pointer <= size /\ base > Floor(top)
      /\ base = Floor(top) + HeightAfter(HeightIn(top), i)
  <2>1. HeightAfter(HeightIn(top), i) = HeightIn(top) - fn.numParameters
    BY ONLY <1>2, <1>4 DEF HeightAfter
  <2>2. pointer <= size
    BY ONLY <1>4
  <2>3. QED BY ONLY <2>1, <2>2, <1>2, <1>4, base = pointer - fn.numParameters, size \in Nat DEF Floor
<1>8. PICK e : e = [top EXCEPT !.pc = pc]
  OBVIOUS
<1>9. e \in Frame(main, functions) /\ e.fn = top.fn /\ e.base = top.base /\ e.pc = pc
  BY ONLY <1>2, <1>5, <1>8 DEF Frame
<1>10. /\ moved \in Seq(Frame(main, functions)) /\ Len(moved) = n /\ moved[n] = e
       /\ \A k \in 1..(n - 1) : moved[k] = old[k]
  <2>1. moved = [old EXCEPT ![n] = e]
    BY ONLY <1>0, <1>8
  <2>2. PICK R : R = Frame(main, functions)
    OBVIOUS
  <2>3. QED BY ONLY <2>1, <2>2, <1>1, <1>9, LastReplaced
<1>11. called \in Frame(main, functions)
       /\ called.fn = fn /\ called.pc = 0 /\ called.base = base
  BY <1>0, <1>7 DEF Frame
<1>12. /\ new \in Seq(Frame(main, functions)) /\ Len(new) = n + 1
       /\ \A k \in 1..n : new[k] = moved[k]
       /\ new[n + 1] = called
  BY ONLY <1>0, <1>1, <1>10, <1>11, AppendProperties
<1>13. SoundFrame(new, n + 1, main, functions, size)
  <2>1. 0 \in DOMAIN Heights(fn.instructions)
    BY <1>6 DEF StackSound
  <2>2. called.fn \in functions /\ called.base <= size
        /\ called.pc \in DOMAIN Heights(called.fn.instructions)
    BY <2>1, <1>7, <1>11
  <2>3. QED BY ONLY <2>2, <1>1, <1>12 DEF SoundFrame
<1>14. SoundFrame(new, n, main, functions, size)
  <2>1. new[n] = e /\ new[n + 1].base = base
    BY ONLY <1>1, <1>10, <1>11, <1>12
  <2>2. SoundFrame(old, n, main, functions, size)
    BY <1>1
  <2>3. new[n + 1].base = Floor(new[n]) + HeightIn(new[n])
    BY ONLY <2>1, <1>5, <1>7, <1>9 DEF Floor, HeightIn
  <2>4. QED BY ONLY <2>1, <2>2, <2>3, <1>0, <1>5, <1>9 DEF SoundFrame
<1>15. ASSUME NEW k \in 1..(n - 1)
       PROVE  SoundFrame(new, k, main, functions, size)
  <2>1. k \in 1..n /\ k + 1 \in 1..n /\ k < n + 1 /\ k < n
    BY ONLY <1>1
  <2>2. SoundFrame(old, k, main, functions, size)
    BY ONLY <2>1, <1>1
  <2>3. new[k] = old[k]
    BY ONLY <2>1, <1>10, <1>12
  <2>4. new[k + 1].base = old[k + 1].base
    <3>1. new[k + 1] = moved[k + 1]
      BY ONLY <2>1, <1>12
    <3>2. CASE k + 1 = n
      BY ONLY <3>1, <3>2, <1>0, <1>9, <1>10
    <3>3. CASE k + 1 # n
      <4>1. k + 1 \in 1..(n - 1)
        BY ONLY <2>1, <3>3, <1>1
      <4>2. QED BY ONLY <3>1, <4>1, <1>10
    <3>4. QED BY ONLY <3>2, <3>3
  <2>5. QED BY ONLY <2>1, <2>2, <2>3, <2>4, <1>1 DEF SoundFrame, Floor, HeightIn
<1>16. \A k \in 1..Len(new) : SoundFrame(new, k, main, functions, size)
  <2>1. SUFFICES ASSUME NEW k \in 1..(n + 1) PROVE SoundFrame(new, k, main, functions, size)
    BY <1>12, Zenon
  <2>2. CASE k = n + 1
    BY ONLY <2>2, <1>13
  <2>3. CASE k = n
    BY ONLY <2>3, <1>14
  <2>4. CASE k # n /\ k # n + 1
    <3>1. k \in 1..(n - 1)
      BY ONLY <2>4, <1>1
    <3>2. QED BY ONLY <3>1, <1>15
  <2>5. QED BY ONLY <2>2, <2>3, <2>4
<1>17. HeightIn(called) = 0 /\ Floor(called) = base + fn.numLocals
  BY <1>6, <1>11 DEF StackSound, HeightIn, Floor
<1>18. base + fn.numLocals \in Nat /\ base + fn.numLocals = Floor(called) + HeightIn(called)
  BY ONLY <1>6, <1>7, <1>17
<1>19. Len(new) \in Nat \ {0} /\ new[Len(new)] = called
  BY <1>1, <1>12
<1>20. QED BY <1>0, <1>1, <1>7, <1>12, <1>16, <1>17, <1>18, <1>19 DEF SoundChain

\* A function returns: its caller is where its values end.
LEMMA ReturnChain ==
    ASSUME NEW main, NEW functions, NEW size \in Nat, NEW old, NEW pointer, NEW top,
           SoundCode(main, functions), SoundChain(old, pointer, main, functions, size),
           top = old[Len(old)], Len(old) > 1
    PROVE  SoundChain(Popped(old), top.base, main, functions, size) /\ Len(Popped(old)) = Len(old) - 1
<1>0. PICK n, new : n = Len(old) /\ n > 1 /\ top = old[n]
                    /\ new = SubSeq(old, 1, n - 1) /\ new = Popped(old)
  BY DEF Popped
<1>1. /\ n \in Nat \ {0} /\ n - 1 \in Nat \ {0} /\ n - 1 \in 1..n
      /\ old \in Seq(Frame(main, functions)) /\ Len(old) = n
      /\ \A k \in 1..n : SoundFrame(old, k, main, functions, size)
  BY <1>0 DEF SoundChain
<1>2. top.base \in Nat /\ top.base <= size
  BY ChainTop
<1>3. /\ new \in Seq(Frame(main, functions)) /\ Len(new) = n - 1
      /\ \A k \in 1..(n - 1) : new[k] = old[k]
  <2>1. PICK R : R = Frame(main, functions)
    OBVIOUS
  <2>2. 1 \in 1..(Len(old) + 1) /\ n - 1 \in (1 - 1)..Len(old)
    BY ONLY <1>1
  <2>3. QED BY ONLY <2>1, <2>2, <1>0, <1>1, SubSeqProperties
<1>4. \A k \in 1..(n - 1) : SoundFrame(new, k, main, functions, size)
  <2>1. SUFFICES ASSUME NEW k \in 1..(n - 1) PROVE SoundFrame(new, k, main, functions, size)
    OBVIOUS
  <2>2. k \in 1..n /\ k < n
    BY ONLY <1>1
  <2>3. SoundFrame(old, k, main, functions, size) /\ new[k] = old[k]
    BY ONLY <2>2, <1>1, <1>3
  <2>4. k < n - 1 => new[k + 1] = old[k + 1]
    BY ONLY <1>1, <1>3
  <2>5. QED BY ONLY <2>2, <2>3, <2>4, <1>1, <1>3 DEF SoundFrame
<1>5. PICK caller : caller = old[n - 1]
  OBVIOUS
<1>6. top.base = Floor(caller) + HeightIn(caller)
  <2>1. SoundFrame(old, n - 1, main, functions, size)
    BY ONLY <1>1
  <2>2. n - 1 < Len(old) /\ (n - 1) + 1 = n
    BY ONLY <1>1
  <2>3. QED BY ONLY <2>1, <2>2, <1>0, <1>5 DEF SoundFrame
<1>7. new[Len(new)] = caller /\ Len(new) \in Nat \ {0}
  BY ONLY <1>1, <1>3, <1>5
<1>8. ~(top.base > size)
  BY ONLY <1>2
<1>9. QED BY ONLY <1>0, <1>2, <1>3, <1>4, <1>6, <1>7, <1>8 DEF SoundChain

=============================================================================
