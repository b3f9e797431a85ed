------------------------------ MODULE Verifier ------------------------------
(***************************************************************************)
(* What the VM relies on but never checks: that in the bytecode it runs    *)
(*   - every instruction finds its operands on the stack, above the locals *)
(*     of its own function, whichever way control reached it;              *)
(*   - control only goes to the first byte of an instruction, and only the *)
(*     main program may run past its last one;                             *)
(*   - every operand names a slot, constant, capture or builtin there is.  *)
(*                                                                         *)
(* The stack effect of an instruction is read off the case of vm.Run that  *)
(* executes it.  The height at an offset counts the values the function    *)
(* has on the stack above its locals when control is there.                *)
(***************************************************************************)
EXTENDS Code, Object

Pops(i) ==
    CASE i.op \in ArithmeticOps \cup ComparisonOps               -> 2
      [] i.op \in {"OpAnd", "OpOr", "OpIndex", "OpGetAttr"}      -> 2
      [] i.op \in {"OpBang", "OpMinus", "OpPop", "OpJumpNotTruthy", "OpWhile",
                   "OpSetGlobal", "OpSetLocal", "OpReturnValue"} -> 1
      [] i.op \in {"OpArray", "OpDict"}                          -> i.args[1]
      [] i.op = "OpCall"                                         -> i.args[1] + 1
      [] i.op = "OpClosure"                                      -> i.args[2]
      [] OTHER                                                   -> 0

Returns(i) == i.op \in {"OpReturnValue", "OpReturn"}

Pushes(i) ==
    IF i.op \in {"OpPop", "OpJump", "OpJumpNotTruthy", "OpWhile",
                 "OpSetGlobal", "OpSetLocal"} \/ Returns(i) THEN 0 ELSE 1

\* Where control goes next.  OpWhile jumps whatever the condition is.
Successors(code, p) ==
    CASE Returns(At(code, p))                      -> {}
      [] At(code, p).op \in {"OpJump", "OpWhile"}  -> {At(code, p).args[1]}
      [] At(code, p).op = "OpJumpNotTruthy"        -> {NextOffset(code, p), At(code, p).args[1]}
      [] OTHER                                     -> {NextOffset(code, p)}

HeightAfter(height, i) == height - Pops(i) + Pushes(i)

\* What bytecode is.
WellFormed(fn) ==
    /\ fn.instructions \in Seq(Cells)
    /\ fn.numLocals \in Nat /\ fn.numParameters \in 0..fn.numLocals
    /\ \A p \in 0..(Len(fn.instructions) - 1) :
          IsHead(fn.instructions, p) =>
              LET i == At(fn.instructions, p)
              IN  /\ Len(i.args) = Len(OperandWidths(i.op))
                  /\ i.op \in {"OpGetLocal", "OpSetLocal"} => i.args[1] < fn.numLocals

-----------------------------------------------------------------------------
(* The heights of a function's code: from the first instruction on, each   *)
(* instruction gives its successors theirs, unless one before it did.      *)

Extended(height, p, code) ==
    IF p \in DOMAIN height /\ IsHead(code, p)
    THEN [q \in DOMAIN height \cup Successors(code, p) |->
            IF q \in DOMAIN height THEN height[q] ELSE HeightAfter(height[p], At(code, p))]
    ELSE height

Heights(code) ==
    LET known[n \in Nat] ==
          IF n = 0 THEN [p \in {0} |-> 0] ELSE Extended(known[n - 1], n - 1, code)
    IN  known[Len(code)]

\* What the height at an offset has to satisfy; reached again, it has to be the
\* same.  Only the main program ends behind its last instruction.
SoundAt(code, height, p, isMain) ==
    IF isMain /\ p = Len(code)
    THEN height[p] = 0
    ELSE /\ IsHead(code, p)
         /\ isMain => ~Returns(At(code, p))
         /\ height[p] >= Pops(At(code, p))
         /\ \A q \in Successors(code, p) :
                q \in DOMAIN height /\ height[q] = HeightAfter(height[p], At(code, p))

StackSound(fn, isMain) ==
    LET height == Heights(fn.instructions)
    IN  /\ 0 \in DOMAIN height /\ height[0] = 0
        /\ \A p \in DOMAIN height :
              height[p] \in Nat /\ SoundAt(fn.instructions, height, p, isMain)

-----------------------------------------------------------------------------
(* The frames of a run.  A frame is [fn, pc, base].                        *)

\* Where the values of a frame start, above its locals.
Floor(frame) == frame.base + frame.fn.numLocals

\* How many there are, when the frame's next instruction is executed.
HeightIn(frame) == Heights(frame.fn.instructions)[frame.pc]

-----------------------------------------------------------------------------
(* Operands.  captured is how many values a closure of the function holds. *)

OperandSound(i, fn, captured, pool, builtins) ==
    CASE i.op = "OpConstant"                     ->
            /\ i.args[1] < Len(pool)
            /\ pool[i.args[1] + 1].type # "COMPILED_FUNCTION_OBJ"
      [] i.op \in {"OpSetLocal", "OpGetLocal"}   -> i.args[1] < fn.numLocals
      [] i.op = "OpGetFree"                      -> i.args[1] < captured
      [] i.op = "OpGetBuiltin"                   -> i.args[1] < builtins
      [] i.op = "OpDict"                         -> i.args[1] % 2 = 0
      [] i.op = "OpClosure"                      ->
            /\ i.args[1] < Len(pool)
            /\ pool[i.args[1] + 1].type = "COMPILED_FUNCTION_OBJ"
      [] OTHER                                   -> TRUE

OperandsSound(fn, captured, pool, builtins) ==
    /\ fn.numParameters <= fn.numLocals
    /\ \A p \in 0..(Len(fn.instructions) - 1) :
          IsHead(fn.instructions, p) =>
              OperandSound(At(fn.instructions, p), fn, captured, pool, builtins)

\* The functions of a program: its main code, and the functions of its pool.
Main(code) == CompiledFunction(code, 0, 0)

IsFunction(object) == object.type = "COMPILED_FUNCTION_OBJ"

ClosuresIn(fn, k) ==
    {p \in 0..(Len(fn.instructions) - 1) :
        /\ IsHead(fn.instructions, p)
        /\ At(fn.instructions, p).op = "OpClosure"
        /\ At(fn.instructions, p).args[1] = k - 1}

\* How many values the closures of pool[k] hold, according to those who make them.
CaptureCounts(units, pool, k) ==
    UNION {{At(fn.instructions, p).args[2] : p \in ClosuresIn(fn, k)} : fn \in units}

\* Only inside of a function is there a name for the closure that runs.
NamesItself(code) ==
    \E p \in 0..(Len(code) - 1) : IsHead(code, p) /\ At(code, p).op = "OpCurrentClosure"

Verified(code, pool, builtins) ==
    LET functions == {k \in DOMAIN pool : IsFunction(pool[k])}
        units     == {Main(code)} \cup {pool[k] : k \in functions}
    IN  /\ StackSound(Main(code), TRUE) /\ ~NamesItself(code)
        /\ OperandsSound(Main(code), 0, pool, builtins)
        /\ \A k \in functions :
              /\ StackSound(pool[k], FALSE)
              /\ \A captured \in CaptureCounts(units, pool, k) :
                    OperandsSound(pool[k], captured, pool, builtins)
=============================================================================
