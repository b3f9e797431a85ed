---------------------------- MODULE StackMachine ----------------------------
(***************************************************************************)
(* The stack discipline of the VM: frames, program counters and the stack  *)
(* pointer of vm/vm.go without the values on the stack.  Where the VM      *)
(* looks at a value the machine may go either way: a condition holds or    *)
(* not, a call meets a builtin, a closure of any function with the right   *)
(* number of parameters, or something that cannot be called, and any       *)
(* instruction may end the run with an error.                              *)
(*                                                                         *)
(* The VM checks that a push fits on the stack and nothing else.  A Go     *)
(* index out of range is a panic, and the status says which array it was.  *)
(* It is meant for the code that Verifier accepts; that such code keeps    *)
(* the discipline is what the properties say.                              *)
(***************************************************************************)
EXTENDS Verifier

CONSTANTS
    StackSize,  \* slots of the stack (2048)
    MaxFrames   \* slots for frames (1024)

ASSUME StackAssumption == StackSize \in Nat /\ MaxFrames \in Nat \ {0}

VARIABLES
    main,       \* the main program, as the function vm.New makes of it
    functions,  \* the functions that closures can be made of
    frames,     \* [fn, pc, base]; pc is ip + 1, the offset of the next instruction
    sp,
    status      \* "running", "done", "error", or what an index was out of range of

vars == <<main, functions, frames, sp, status>>

\* The code of a program, verified.
ProgramSound ==
    /\ WellFormed(main) /\ StackSound(main, TRUE) /\ main.numLocals = 0
    /\ \A fn \in functions : WellFormed(fn) /\ StackSound(fn, FALSE)

Init ==
    /\ ProgramSound
    /\ frames = <<[fn |-> main, pc |-> 0, base |-> 0]>>
    /\ sp = 0
    /\ status = "running"

Top == frames[Len(frames)]

\* The test of Run's loop: the top frame has an instruction left.
Running == status = "running" /\ Top.pc < Len(Top.fn.instructions)

Instruction == At(Top.fn.instructions, Top.pc)

Following == NextOffset(Top.fn.instructions, Top.pc)

Halt(how) == status' = how /\ UNCHANGED <<main, functions, frames, sp>>

MoveTo(pc, height) ==
    /\ frames' = [frames EXCEPT ![Len(frames)].pc = pc]
    /\ sp' = height
    /\ UNCHANGED <<main, functions, status>>

\* Whether reading the n topmost values reads outside the array.
OutOfStack(n) == n > 0 /\ (n > sp \/ sp > StackSize)

BeyondStack(i) == i.op \in {"OpGetLocal", "OpSetLocal"} /\ Top.base + i.args[1] >= StackSize

\* Faulty variant: push does not look at the size of the stack.
OverflowsNever(i) == FALSE

Overflows(i) == Pushes(i) = 1 /\ sp - Pops(i) >= StackSize

\* Instructions whose values may not be what they need.
MayFail(i) ==
    i.op \in ArithmeticOps \cup ComparisonOps \cup
        {"OpMinus", "OpIndex", "OpDict", "OpCall", "OpClosure", "OpGetAttr"}

-----------------------------------------------------------------------------
Execute ==
    /\ Running
    /\ Instruction.op # "OpCall" /\ ~Returns(Instruction)
    /\ ~OutOfStack(Pops(Instruction)) /\ ~BeyondStack(Instruction) /\ ~Overflows(Instruction)
    /\ \E pc \in Successors(Top.fn.instructions, Top.pc) :
          MoveTo(pc, HeightAfter(sp, Instruction))

\* Faulty variants: no look at the number of frames; no slots for locals.
AnyFrame == TRUE

WithoutLocals(base, fn) == base

FrameLeft == Len(frames) < MaxFrames

AboveLocals(base, fn) == base + fn.numLocals

\* callClosure: the arguments become the first locals, the other slots are only skipped.
CallFunction ==
    /\ Running
    /\ Instruction.op = "OpCall" /\ ~OutOfStack(Pops(Instruction))
    /\ FrameLeft
    /\ \E fn \in functions :
          /\ fn.numParameters = Instruction.args[1]
          /\ LET base == sp - fn.numParameters
             IN  /\ frames' = Append([frames EXCEPT ![Len(frames)].pc = Following],
                                     [fn |-> fn, pc |-> 0, base |-> base])
                 /\ sp' = AboveLocals(base, fn)
          /\ UNCHANGED <<main, functions, status>>

CallBuiltin ==
    /\ Running
    /\ Instruction.op = "OpCall" /\ ~OutOfStack(Pops(Instruction))
    /\ MoveTo(Following, HeightAfter(sp, Instruction))

\* Faulty variants: the value is not pushed, or the callee not removed.
WithoutValue == Top.base - 1

AboveCallee == Top.base + 1

ReturnedTo == Top.base

\* popFrame; the value returned replaces the callee, below its base.
Return ==
    /\ Running
    /\ Returns(Instruction) /\ ~OutOfStack(Pops(Instruction))
    /\ Len(frames) > 1 /\ Top.base <= StackSize
    /\ frames' = SubSeq(frames, 1, Len(frames) - 1)
    /\ sp' = ReturnedTo
    /\ UNCHANGED <<main, functions, status>>

\* The run ends: push has no room, or a value is not what the instruction needs.
Fail ==
    /\ Running
    /\ ~OutOfStack(Pops(Instruction))
    /\ \/ MayFail(Instruction)
       \/ ~Returns(Instruction) /\ Overflows(Instruction)
       \/ Returns(Instruction) /\ Len(frames) > 1 /\ Top.base > StackSize
    /\ Halt("error")

\* The run panics.  A return from the main program pushes below the stack.
Panic ==
    /\ Running
    /\ \/ OutOfStack(Pops(Instruction)) /\ Halt("stack")
       \/ Returns(Instruction) /\ Len(frames) = 1 /\ Halt("stack")
       \/ BeyondStack(Instruction) /\ Halt("locals")
       \/ Instruction.op = "OpCall" /\ Len(frames) >= MaxFrames /\ Halt("frames")

Finish ==
    /\ status = "running" /\ ~Running
    /\ Halt("done")

Next == Execute \/ CallFunction \/ CallBuiltin \/ Return \/ Fail \/ Panic \/ Finish

Spec == Init /\ [][Next]_vars

-----------------------------------------------------------------------------
(* Properties                                                              *)

(* The type invariant.                                                     *)
TypeOK ==
    /\ frames \in Seq([fn : functions \cup {main}, pc : Nat, base : Nat])
    /\ Len(frames) \in 1..MaxFrames
    /\ sp \in Nat
    /\ status \in {"running", "done", "error", "stack", "locals", "frames"}

(* Whatever path the run takes through loops, branches, calls and returns, *)
(* the values an instruction takes are there, above the locals of the      *)
(* function it belongs to: no pop takes a local, or a value of the caller. *)
OperandsAboveLocals == Running => sp - Pops(Instruction) >= Floor(Top)

(* An index outside the stack array is never used for an operand, and no   *)
(* return leaves the main program.                                         *)
NoUnderflow == status # "stack"

(* Every open call sits exactly on the values its caller has left: what a  *)
(* function finds on the stack after a call is what it had before, and the *)
(* value returned.                                                         *)
FramesAbut ==
    \A i \in 1..(Len(frames) - 1) :
        frames[i + 1].base = Floor(frames[i]) + HeightIn(frames[i])

(* When the run ends by itself, it ends in the main program and leaves     *)
(* nothing on the stack.                                                   *)
EndsClean == status = "done" => Len(frames) = 1 /\ sp = 0

(* A local that does not fit on the stack is only ever read or written by  *)
(* a function that has not pushed a value yet: the overflow of a function  *)
(* with values is an error, not a panic.                                   *)
LocalsBeyondStackOnlyAtEntry == status = "locals" => sp = Floor(Top) /\ Instruction.op = "OpGetLocal"
=============================================================================
