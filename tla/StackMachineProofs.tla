------------------------- MODULE StackMachineProofs -------------------------
(***************************************************************************)
(* Code that verifies keeps the stack discipline, for every program, every *)
(* stack size and every number of frames.                                  *)
(*                                                                         *)
(* The inductive invariant ties the stack pointer to the heights that the  *)
(* verifier computed: the frames and the stack pointer are a sound chain.  *)
(* That moves, calls and returns keep chains sound is shown in FrameChains *)
(* for any frames; here the actions are shown to be such steps.            *)
(***************************************************************************)
EXTENDS StackMachine, FrameChains

Inv ==
    /\ TypeOK
    /\ ProgramSound
    /\ SoundChain(frames, sp, main, functions, StackSize)
    /\ NoUnderflow
    /\ EndsClean
    /\ LocalsBeyondStackOnlyAtEntry

-----------------------------------------------------------------------------
(* What the invariant says of the instruction about to be executed.        *)

LEMMA InvCode ==
    ASSUME Inv
    PROVE  SoundCode(main, functions) /\ SoundChain(frames, sp, main, functions, StackSize)
           /\ StackSize \in Nat /\ sp \in Nat /\ Top = frames[Len(frames)]
BY StackAssumption DEF Inv, ProgramSound, SoundCode, SoundChain, Top

LEMMA TopFrame ==
    ASSUME Inv
    PROVE  /\ Top.pc \in Nat /\ Top.base \in Nat /\ Top.base <= StackSize
           /\ Top.fn.numLocals \in Nat
           /\ HeightIn(Top) \in Nat
           /\ sp = Top.base + Top.fn.numLocals + HeightIn(Top)
           /\ sp > StackSize => HeightIn(Top) = 0
<1>1. sp > StackSize => HeightIn(Top) = 0
  BY InvCode DEF SoundChain
<1>2. QED BY <1>1, InvCode, ChainTop

LEMMA RunningSound ==
    ASSUME Inv, Running
    PROVE  /\ Len(frames) = 1 => ~Returns(Instruction)
           /\ Pops(Instruction) \in Nat /\ Pushes(Instruction) \in {0, 1}
           /\ HeightIn(Top) >= Pops(Instruction)
           /\ sp - Pops(Instruction) >= Floor(Top)
           /\ ~OutOfStack(Pops(Instruction))
           /\ Instruction.op = "OpCall" => Instruction.args[1] \in Nat
                 /\ Pops(Instruction) = Instruction.args[1] + 1 /\ Pushes(Instruction) = 1
           /\ Instruction.op \in {"OpGetLocal", "OpSetLocal"} =>
                 Instruction.args[1] \in Nat /\ Instruction.args[1] < Top.fn.numLocals
<1>1. /\ Len(frames) = 1 => ~Returns(Instruction)
      /\ Pops(Instruction) \in Nat /\ Pushes(Instruction) \in {0, 1}
      /\ HeightIn(Top) >= Pops(Instruction)
      /\ sp - Pops(Instruction) >= Floor(Top)
      /\ Pops(Instruction) > 0 => sp <= StackSize
      /\ Instruction.op = "OpCall" => Instruction.args[1] \in Nat
            /\ Pops(Instruction) = Instruction.args[1] + 1 /\ Pushes(Instruction) = 1
      /\ Instruction.op \in {"OpGetLocal", "OpSetLocal"} =>
            Instruction.args[1] \in Nat /\ Instruction.args[1] < Top.fn.numLocals
  BY InvCode, ChainStep DEF Running, Instruction
<1>2. ~OutOfStack(Pops(Instruction))
  BY <1>1, TopFrame, InvCode DEF OutOfStack
<1>3. QED BY <1>1, <1>2

-----------------------------------------------------------------------------
(* The actions keep the invariant.                                         *)

\* A step on to other frames: nothing has ended.
LEMMA StepInv ==
    ASSUME Inv, Running,
           main' = main, functions' = functions, status' = status,
           SoundChain(frames', sp', main, functions, StackSize), Len(frames') <= MaxFrames
    PROVE  Inv'
<1>1. status' = "running"
  BY DEF Running
<1>2. Len(frames') \in 1..MaxFrames /\ sp' \in Nat
  BY StackAssumption DEF SoundChain
<1>3. frames' \in Seq([fn : functions \cup {main}, pc : Nat, base : Nat])
  BY DEF SoundChain, Frame
<1>4. TypeOK'
  BY <1>1, <1>2, <1>3 DEF TypeOK
<1>5. ProgramSound'
  BY DEF Inv, ProgramSound
<1>6. QED BY <1>1, <1>4, <1>5 DEF Inv, NoUnderflow, EndsClean, LocalsBeyondStackOnlyAtEntry

\* A step that ends the run changes nothing else.
LEMMA HaltInv ==
    ASSUME Inv, NEW how \in {"done", "error", "locals", "frames"}, Halt(how),
           how = "done" => Len(frames) = 1 /\ sp = 0,
           how = "locals" => sp = Floor(Top) /\ Instruction.op = "OpGetLocal"
    PROVE  Inv'
<1>1. main' = main /\ functions' = functions /\ frames' = frames /\ sp' = sp /\ status' = how
  BY DEF Halt
<1>2. TypeOK' /\ ProgramSound' /\ SoundChain(frames, sp, main, functions, StackSize)'
  BY <1>1 DEF Inv, TypeOK, ProgramSound
<1>3. NoUnderflow' /\ EndsClean' /\ LocalsBeyondStackOnlyAtEntry'
  BY <1>1 DEF NoUnderflow, EndsClean, LocalsBeyondStackOnlyAtEntry, Top, Instruction
<1>4. QED BY <1>2, <1>3 DEF Inv

LEMMA InitInv == Init => Inv
<1> SUFFICES ASSUME Init PROVE Inv
  OBVIOUS
<1>1. PICK start : start = [fn |-> main, pc |-> 0, base |-> 0]
  OBVIOUS
<1>2. frames = <<start>> /\ sp = 0 /\ status = "running" /\ ProgramSound
  BY <1>1 DEF Init
<1>3. Len(frames) = 1 /\ frames[1] = start
  BY <1>2
<1>4. TypeOK
  <2>1. start \in [fn : functions \cup {main}, pc : Nat, base : Nat]
    BY <1>1
  <2>2. QED BY <2>1, <1>2, <1>3, StackAssumption DEF TypeOK
<1>5. /\ 0 \in DOMAIN Heights(main.instructions) /\ Heights(main.instructions)[0] = 0
      /\ main.numLocals = 0
  BY <1>2 DEF ProgramSound, StackSound
<1>6. SoundFrame(frames, 1, main, functions, StackSize)
  BY <1>1, <1>2, <1>3, <1>5, StackAssumption DEF SoundFrame
<1>7. Floor(start) = 0 /\ HeightIn(start) = 0
  BY <1>1, <1>5 DEF Floor, HeightIn
<1>8. frames \in Seq(Frame(main, functions))
  BY <1>4 DEF TypeOK, Frame
<1>9. SoundChain(frames, sp, main, functions, StackSize)
  BY <1>2, <1>3, <1>6, <1>7, <1>8 DEF SoundChain
<1>10. QED BY <1>2, <1>4, <1>9 DEF Inv, NoUnderflow, EndsClean, LocalsBeyondStackOnlyAtEntry

\* The top frame goes on inside its own function.
LEMMA MoveInv ==
    ASSUME Inv, Running,
           NEW pc \in Successors(Top.fn.instructions, Top.pc),
           MoveTo(pc, HeightAfter(sp, Instruction)),
           Fits(sp, Instruction, StackSize)
    PROVE  Inv'
<1>1. frames' = [frames EXCEPT ![Len(frames)].pc = pc] /\ sp' = HeightAfter(sp, Instruction)
  BY DEF MoveTo
<1>2. SoundChain(frames', sp', main, functions, StackSize) /\ Len(frames') = Len(frames)
  <2>1. frames' = Moved(frames, pc)
    BY <1>1 DEF Moved
  <2>2. Top.pc < Len(Top.fn.instructions) /\ Instruction = At(Top.fn.instructions, Top.pc)
    BY DEF Running, Instruction
  <2>3. /\ SoundCode(main, functions) /\ SoundChain(frames, sp, main, functions, StackSize)
        /\ StackSize \in Nat /\ Top = frames[Len(frames)]
    BY InvCode
  <2>4. pc \in Successors(Top.fn.instructions, Top.pc) /\ Fits(sp, Instruction, StackSize)
    OBVIOUS
  <2>5. /\ SoundChain(Moved(frames, pc), HeightAfter(sp, Instruction), main, functions, StackSize)
        /\ Len(Moved(frames, pc)) = Len(frames)
    BY ONLY <2>2, <2>3, <2>4, MoveChain
  <2>6. QED BY <1>1, <2>1, <2>5
<1>3. Len(frames') <= MaxFrames
  BY <1>2 DEF Inv, TypeOK
<1>4. QED BY <1>2, <1>3, StepInv DEF MoveTo

LEMMA ExecuteInv == ASSUME Inv, Execute PROVE Inv'
<1>1. Running /\ ~OutOfStack(Pops(Instruction)) /\ ~Overflows(Instruction)
  BY DEF Execute
<1>2. PICK pc \in Successors(Top.fn.instructions, Top.pc) : MoveTo(pc, HeightAfter(sp, Instruction))
  BY DEF Execute
<1>3. Fits(sp, Instruction, StackSize)
  <2>1. /\ Pops(Instruction) \in Nat /\ Pushes(Instruction) \in {0, 1}
        /\ sp \in Nat /\ StackSize \in Nat
    BY <1>1, InvCode, RunningSound
  <2>2. Pushes(Instruction) = 1 => sp - Pops(Instruction) < StackSize
    BY <1>1, <2>1 DEF Overflows
  <2>3. Pops(Instruction) > 0 => Pops(Instruction) <= sp /\ sp <= StackSize
    BY <1>1, <2>1 DEF OutOfStack
  <2>4. QED BY ONLY <2>1, <2>2, <2>3, FitsWhen
<1>4. QED BY <1>1, <1>2, <1>3, MoveInv

LEMMA CallBuiltinInv == ASSUME Inv, CallBuiltin PROVE Inv'
<1>1. Running /\ ~OutOfStack(Pops(Instruction)) /\ Instruction.op = "OpCall"
      /\ MoveTo(Following, HeightAfter(sp, Instruction))
  BY DEF CallBuiltin
<1>2. /\ Pops(Instruction) = Instruction.args[1] + 1 /\ Pushes(Instruction) = 1
      /\ Instruction.args[1] \in Nat
  BY <1>1, RunningSound
<1>3. Following \in Successors(Top.fn.instructions, Top.pc)
  BY <1>1 DEF Following, Successors, Returns, Instruction
<1>4. Fits(sp, Instruction, StackSize)
  <2>1. sp \in Nat /\ StackSize \in Nat
    BY InvCode
  <2>2. Pops(Instruction) <= sp /\ sp <= StackSize
    BY <1>1, <1>2, <2>1 DEF OutOfStack
  <2>3. QED BY ONLY <1>2, <2>1, <2>2, FitsWhen
<1>5. QED BY <1>1, <1>3, <1>4, MoveInv

LEMMA CallFunctionInv == ASSUME Inv, CallFunction PROVE Inv'
<1>1. PICK fn \in functions :
        /\ fn.numParameters = Instruction.args[1]
        /\ frames' = Append([frames EXCEPT ![Len(frames)].pc = Following],
                            [fn |-> fn, pc |-> 0, base |-> sp - fn.numParameters])
        /\ sp' = sp - fn.numParameters + fn.numLocals
        /\ UNCHANGED <<main, functions, status>>
  BY DEF CallFunction, AboveLocals
<1>2. Running /\ Instruction.op = "OpCall" /\ Len(frames) < MaxFrames
  BY DEF CallFunction, FrameLeft
<1>3. SoundChain(frames', sp', main, functions, StackSize) /\ Len(frames') = Len(frames) + 1
  <2>1. PICK base : base = sp - fn.numParameters
    OBVIOUS
  <2>2. frames' = Called(frames, Following, fn, base) /\ sp' = base + fn.numLocals
    BY <1>1, <2>1 DEF Called, Moved
  <2>3. /\ Top.pc < Len(Top.fn.instructions) /\ Instruction = At(Top.fn.instructions, Top.pc)
        /\ Following = NextOffset(Top.fn.instructions, Top.pc)
    BY <1>2 DEF Running, Instruction, Following
  <2>4. /\ SoundCode(main, functions) /\ SoundChain(frames, sp, main, functions, StackSize)
        /\ StackSize \in Nat /\ Top = frames[Len(frames)]
    BY InvCode
  <2>5. fn \in functions /\ fn.numParameters = Instruction.args[1] /\ Instruction.op = "OpCall"
    BY <1>1, <1>2
  <2>6. /\ SoundChain(Called(frames, Following, fn, base), base + fn.numLocals, main, functions, StackSize)
        /\ Len(Called(frames, Following, fn, base)) = Len(frames) + 1
    BY ONLY <2>1, <2>3, <2>4, <2>5, CallChain, SMTT(30)
  <2>7. QED BY <2>2, <2>6
<1>4. Len(frames') <= MaxFrames
  BY <1>2, <1>3, StackAssumption DEF Inv, TypeOK
<1>5. QED BY <1>1, <1>2, <1>3, <1>4, StepInv

LEMMA ReturnInv == ASSUME Inv, Return PROVE Inv'
<1>1. /\ Running /\ Len(frames) > 1
      /\ frames' = SubSeq(frames, 1, Len(frames) - 1) /\ sp' = Top.base
      /\ UNCHANGED <<main, functions, status>>
  BY DEF Return, ReturnedTo
<1>2. SoundChain(frames', sp', main, functions, StackSize) /\ Len(frames') = Len(frames) - 1
  <2>1. frames' = Popped(frames)
    BY <1>1 DEF Popped
  <2>2. QED BY <1>1, <2>1, InvCode, ReturnChain
<1>3. Len(frames') <= MaxFrames
  BY <1>2, StackAssumption DEF Inv, TypeOK
<1>4. QED BY <1>1, <1>2, <1>3, StepInv

LEMMA PanicInv == ASSUME Inv, Panic PROVE Inv'
<1>1. Running
  BY DEF Panic
<1>2. ~OutOfStack(Pops(Instruction)) /\ ~(Returns(Instruction) /\ Len(frames) = 1)
  BY <1>1, RunningSound
<1>3. CASE BeyondStack(Instruction) /\ Halt("locals")
  <2>1. Instruction.args[1] \in Nat /\ Instruction.args[1] < Top.fn.numLocals
    BY <1>1, <1>3, RunningSound DEF BeyondStack
  <2>2. sp > StackSize
    BY <1>3, <2>1, TopFrame, InvCode DEF BeyondStack
  <2>3. HeightIn(Top) = 0 /\ sp = Floor(Top)
    BY <2>2, TopFrame DEF Floor
  <2>4. Pops(Instruction) = 0
    BY <1>1, <2>3, RunningSound
  <2>5. Instruction.op # "OpSetLocal"
    BY <2>4 DEF Pops, ArithmeticOps, ComparisonOps
  <2>6. Instruction.op = "OpGetLocal"
    BY <1>3, <2>5 DEF BeyondStack
  <2>7. QED BY <1>3, <2>3, <2>6, HaltInv
<1>4. CASE Halt("frames")
  BY <1>4, HaltInv
<1>5. QED BY <1>2, <1>3, <1>4 DEF Panic

LEMMA FinishInv == ASSUME Inv, Finish PROVE Inv'
<1>1. ~(Top.pc < Len(Top.fn.instructions)) /\ Halt("done")
  BY DEF Finish, Running
<1>2. Len(frames) = 1 /\ sp = 0
  BY <1>1, InvCode, ChainEnd
<1>3. QED BY <1>1, <1>2, HaltInv

LEMMA NextInv == ASSUME Inv, [Next]_vars PROVE Inv'
<1>1. CASE Execute
  BY <1>1, ExecuteInv
<1>2. CASE CallFunction
  BY <1>2, CallFunctionInv
<1>3. CASE CallBuiltin
  BY <1>3, CallBuiltinInv
<1>4. CASE Return
  BY <1>4, ReturnInv
<1>5. CASE Fail
  <2>1. Halt("error")
    BY <1>5 DEF Fail
  <2>2. QED BY <2>1, HaltInv
<1>6. CASE Panic
  BY <1>6, PanicInv
<1>7. CASE Finish
  BY <1>7, FinishInv
<1>8. CASE UNCHANGED vars
  <2>1. main' = main /\ functions' = functions /\ frames' = frames /\ sp' = sp /\ status' = status
    BY <1>8 DEF vars
  <2>2. QED BY <2>1 DEF Inv, TypeOK, ProgramSound, NoUnderflow, EndsClean,
                LocalsBeyondStackOnlyAtEntry, Top, Instruction
<1>9. QED BY <1>1, <1>2, <1>3, <1>4, <1>5, <1>6, <1>7, <1>8 DEF Next

-----------------------------------------------------------------------------
(* The theorems.                                                           *)

(* The inductive invariant holds.                                          *)
THEOREM SpecInv == Spec => []Inv
<1>1. Init => Inv
  BY InitInv
<1>2. Inv /\ [Next]_vars => Inv'
  BY NextInv
<1>3. QED BY <1>1, <1>2, PTL DEF Spec

(* Frames, program counters and the stack pointer keep their types, and    *)
(* there are never more frames than slots for them.                        *)
THEOREM TypeCorrect == Spec => []TypeOK
<1>1. Inv => TypeOK
  BY DEF Inv
<1>2. QED BY <1>1, SpecInv, PTL

(* Verified code never takes a value that is not its own: every pop of     *)
(* vm.Run stays above the locals of its function, whatever was called,     *)
(* however deep, and with whatever came back.                              *)
THEOREM OperandsAlwaysAboveLocals == Spec => []OperandsAboveLocals
<1>1. Inv => OperandsAboveLocals
  BY RunningSound DEF OperandsAboveLocals
<1>2. QED BY <1>1, SpecInv, PTL

(* Verified code never indexes below the stack, and never returns from the *)
(* main program.                                                           *)
THEOREM NeverUnderflows == Spec => []NoUnderflow
<1>1. Inv => NoUnderflow
  BY DEF Inv
<1>2. QED BY <1>1, SpecInv, PTL

(* After any calls and returns, every caller's values are where it left    *)
(* them: the base of each call is where the values of its caller end.      *)
THEOREM CallersKeepTheirValues == Spec => []FramesAbut
<1>1. Inv => FramesAbut
  <2> SUFFICES ASSUME Inv, NEW i \in 1..(Len(frames) - 1)
               PROVE  frames[i + 1].base = Floor(frames[i]) + HeightIn(frames[i])
    BY DEF FramesAbut
  <2>1. i \in 1..Len(frames) /\ i < Len(frames)
    BY DEF Inv, TypeOK
  <2>2. SoundFrame(frames, i, main, functions, StackSize)
    BY <2>1 DEF Inv, SoundChain
  <2>3. QED BY <2>1, <2>2 DEF SoundFrame
<1>2. QED BY <1>1, SpecInv, PTL

(* A run that ends by itself ends in the main program, with nothing left   *)
(* on the stack.                                                           *)
THEOREM AlwaysEndsClean == Spec => []EndsClean
<1>1. Inv => EndsClean
  BY DEF Inv
<1>2. QED BY <1>1, SpecInv, PTL

(* A local outside the stack array is only touched by the first reads of a *)
(* function that was called with the stack all but full.                   *)
THEOREM PanicOnlyAtEntry == Spec => []LocalsBeyondStackOnlyAtEntry
<1>1. Inv => LocalsBeyondStackOnlyAtEntry
  BY DEF Inv
<1>2. QED BY <1>1, SpecInv, PTL
=============================================================================
