--------------------------------- MODULE VM ---------------------------------
(***************************************************************************)
(* vm/vm.go and vm/frame.go: the bytecode interpreter.                     *)
(*                                                                         *)
(* One step is one turn of Run's loop.  pc is the offset of the next       *)
(* instruction, ip + 1 in the source.  The stack is the whole Go slice,    *)
(* with what earlier calls left above sp: locals are not cleared, and      *)
(* LastPoppedStackElem reads there.  A step that ends the run shows in the *)
(* status only: nothing else of a machine that stopped is read again.      *)
(*                                                                         *)
(* Where Go panics the status names the cause: an index outside of the     *)
(* stack ("stack", "locals"), of the frames ("frames") or of what an       *)
(* operand names ("operand"), a method called on a nil object ("nil"), an  *)
(* integer division by zero ("divide").                                    *)
(***************************************************************************)
EXTENDS Verifier, Int64

CONSTANTS
    StackSize,      \* slots of the stack (2048)
    MaxFrames,      \* slots for frames (1024)
    GlobalSize,     \* slots for globals (65536)
    BuiltinCount,   \* how many builtins there are
    BuiltinResults, \* what a builtin may make and return, Nil included
    Programs        \* the bytecodes to run: [instructions, constants]

ASSUME VMAssumption ==
    /\ StackSize \in Nat /\ MaxFrames \in Nat \ {0} /\ GlobalSize \in Nat
    /\ IntLimit \in Nat \ {0} /\ BuiltinCount \in Nat

\* A function of the pool is an object too: an OpConstant may name one where the pool
\* has outgrown its operand.
ObjectTypes == {"INTEGER", "FLOAT", "STRING", "NULL", "BOOLEAN", "ARRAY", "DICT", "BUILTIN",
                "DATE", "CLOSURE_OBJ", "COMPILED_FUNCTION_OBJ", "ERROR", "nil"}

IsObject(v) ==
    /\ v.type \in ObjectTypes
    /\ v.type = "INTEGER" => v.int \in Smallest..(-Smallest - 1)
    /\ v.type = "ARRAY" => v.elements \in Seq(Parts(v))

\* There is a slot for whatever 2 bytes can name.
GlobalsFit(fn) ==
    \A p \in 0..(Len(fn.instructions) - 1) :
        IsHead(fn.instructions, p)
            /\ At(fn.instructions, p).op \in {"OpGetGlobal", "OpSetGlobal"} =>
                At(fn.instructions, p).args[1] < GlobalSize

Executable(fn) == WellFormed(fn) /\ GlobalsFit(fn)

\* Bytecode of the compiler: it verifies, and its constants are numbers, strings and
\* functions.
CompiledProgram(code, pool) ==
    /\ Verified(code, pool, BuiltinCount) /\ Executable(Main(code))
    /\ pool \in Seq({pool[i] : i \in DOMAIN pool})
    /\ \A i \in DOMAIN pool :
          IF IsFunction(pool[i]) THEN Executable(pool[i])
          ELSE IsObject(pool[i]) /\ pool[i].type \in {"INTEGER", "FLOAT", "STRING"}

ASSUME ProgramsAssumption == \A p \in Programs : CompiledProgram(p.instructions, p.constants)

\* A builtin makes no closures, also not inside of what it returns.
ASSUME ResultsAssumption ==
    \A v \in BuiltinResults :
        IsObject(v) /\ v.type # "CLOSURE_OBJ" /\ Parts(v) \subseteq BuiltinResults

VARIABLES
    constants,  \* vm.constants
    globals,    \* vm.globals, from 0
    stack,      \* vm.stack, from 0
    sp,         \* vm.sp
    frames,     \* vm.frames below framesIndex: [cl, pc, base]
    status      \* "running", "done", "error" or the cause of a panic

vars == <<constants, globals, stack, sp, frames, status>>

-----------------------------------------------------------------------------
(* Values.  An operation returns the set of its outcomes, more than one    *)
(* where a float or the identity of two objects decides.  An outcome is a  *)
(* value to push, or Halts(status).                                        *)

Halts(how) == [type |-> "halts", how |-> how]

Boolean(b) == NativeBoolean(b)

\* Faulty variant: every object is truthy.
isObject(v) == TRUE

isTruthy(v) == IF v.type = "BOOLEAN" THEN v.bool ELSE v.type # "NULL"

executeBinaryIntegerOperation(op, a, b) ==
    IF op \in {"OpDiv", "OpMod"} /\ b = 0 THEN Halts("divide")
    ELSE Integer(CASE op = "OpAdd" -> Wrap(a + b)
                   [] op = "OpSub" -> Wrap(a - b)
                   [] op = "OpMul" -> Wrap(a * b)
                   [] op = "OpDiv" -> Wrap(Quotient(a, b))
                   [] op = "OpMod" -> a - b * Quotient(a, b))

Numbers == {"INTEGER", "FLOAT"}

executeBinaryOperation(op, left, right) ==
    CASE "nil" \in {left.type, right.type} -> Halts("nil")
      [] left.type = "INTEGER" /\ right.type = "INTEGER" ->
            executeBinaryIntegerOperation(op, left.int, right.int)
      [] {left.type, right.type} \subseteq Numbers /\ "FLOAT" \in {left.type, right.type} ->
            IF op = "OpMod" THEN Halts("error") ELSE Float
      [] left.type = "STRING" /\ right.type = "STRING" /\ op = "OpAdd" ->
            String(left.str \o right.str)
      [] OTHER -> Halts("error")

executeIntegerComparison(op, a, b) ==
    CASE op = "OpEqual"              -> a = b
      [] op = "OpNotEqual"           -> a # b
      [] op = "OpGreaterThan"        -> a > b
      [] op = "OpLessThan"           -> a < b
      [] op = "OpGreaterThanOrEqual" -> a >= b
      [] op = "OpLessThanOrEqual"    -> a <= b

executeComparison(op, left, right) ==
    CASE left.type = "nil" -> {Halts("nil")}
      [] left.type = "INTEGER" /\ right.type = "INTEGER" ->
            {Boolean(executeIntegerComparison(op, left.int, right.int))}
      [] {left.type, right.type} \subseteq Numbers /\ "FLOAT" \in {left.type, right.type} ->
            {Boolean(b) : b \in BOOLEAN}
      [] left.type = "STRING" /\ right.type = "STRING" ->
            IF op = "OpEqual" THEN {Boolean(left.str = right.str)} ELSE {Halts("error")}
      [] right.type = "nil" /\ (left.type \in Numbers \cup {"STRING"}
                                \/ op \notin {"OpEqual", "OpNotEqual"}) -> {Halts("nil")}
      [] OTHER ->
            CASE op = "OpEqual"    -> {Boolean(b) : b \in Identical(left, right)}
              [] op = "OpNotEqual" -> {Boolean(~b) : b \in Identical(left, right)}
              [] OTHER             -> {Halts("error")}

\* A switch on the pointers True, False and Null.
executeBangOperator(v) ==
    CASE v.type = "BOOLEAN" /\ v.native -> {Boolean(~v.bool)}
      [] v = Null                       -> {Boolean(TRUE)}
      [] v = OtherNull                  -> {Boolean(b) : b \in BOOLEAN}
      [] OTHER                          -> {Boolean(FALSE)}

executeMinusOperator(v) ==
    CASE v.type = "INTEGER" -> Integer(Wrap(-v.int))
      [] v.type = "nil"     -> Halts("nil")
      [] OTHER              -> Halts("error")

\* The error of a value that is no hash key names its type.
UnusableKey(v) == Halts(IF v.type = "nil" THEN "nil" ELSE "error")

executeIndexExpression(left, index) ==
    CASE left.type = "nil" -> Halts("nil")
      [] left.type = "ARRAY" /\ index.type = "nil" -> Halts("nil")
      [] left.type = "ARRAY" /\ index.type = "INTEGER" ->
            IF index.int \in 0..(Len(left.elements) - 1)
            THEN left.elements[index.int + 1] ELSE Null
      [] left.type = "DICT" ->
            IF Dictable(index)
            THEN LET hits == {p \in left.pairs : SameKey(p.key, index)}
                 IN  IF hits = {} THEN Null ELSE (CHOOSE p \in hits : TRUE).val
            ELSE UnusableKey(index)
      [] OTHER -> Halts("error")

buildDict(keys, values) ==
    LET bad == {i \in DOMAIN keys : ~Dictable(keys[i])}
    IN  IF bad = {} THEN Dict(PairsOf(keys, values))
        ELSE UnusableKey(keys[CHOOSE i \in bad : \A j \in bad : i <= j])

getAttribute(object, name) ==
    IF name.type # "STRING" THEN UnusableKey(name)
    ELSE CASE object.type = "DATE" ->
                IF name.str \in DOMAIN object.attributes THEN object.attributes[name.str]
                ELSE Halts("error")
           [] object.type = "nil" -> Halts("nil")
           [] OTHER -> Halts("error")

-----------------------------------------------------------------------------
(* The machine.                                                            *)

\* New: all slots are nil.
Fresh(size) == [i \in 0..(size - 1) |-> Nil]

NewFrame(cl, base) == [cl |-> cl, pc |-> 0, base |-> base]

Start(instructions, pool, store) ==
    /\ constants = pool
    /\ globals = store
    /\ stack = Fresh(StackSize)
    /\ sp = 0
    /\ frames = <<NewFrame(Closure(Main(instructions), <<>>), 0)>>
    /\ status = "running"

currentFrame == frames[Len(frames)]

Instructions == currentFrame.cl.fn.instructions

Running == status = "running" /\ currentFrame.pc < Len(Instructions)

Instruction == At(Instructions, currentFrame.pc)

Following == NextOffset(Instructions, currentFrame.pc)

OutOfStack(n) == n > 0 /\ (n > sp \/ sp > StackSize)

On(ops) == Running /\ Instruction.op \in ops /\ ~OutOfStack(Pops(Instruction))

\* The value k below the top, and the n topmost ones.
Value(k) == stack[sp - 1 - k]

Topmost(n) == [i \in 1..n |-> stack[sp - n + i - 1]]

Halt(how) == status' = how /\ UNCHANGED <<constants, globals, stack, sp, frames>>

Goto(pc) == frames' = [frames EXCEPT ![Len(frames)].pc = pc]

\* push, with n values popped before, and on to the next instruction.
Push(n, v) ==
    /\ sp - n < StackSize
    /\ stack' = [stack EXCEPT ![sp - n] = v]
    /\ sp' = sp - n + 1
    /\ Goto(Following)
    /\ UNCHANGED <<constants, globals, status>>

Yield(outcome) ==
    IF outcome.type = "halts" THEN Halt(outcome.how)
    ELSE IF sp - Pops(Instruction) >= StackSize THEN Halt("error")
    ELSE Push(Pops(Instruction), outcome)

-----------------------------------------------------------------------------
(* Loads and stores.                                                       *)

LoadOps == {"OpConstant", "OpTrue", "OpFalse", "OpNull", "OpGetGlobal", "OpGetLocal",
            "OpGetBuiltin", "OpGetFree", "OpCurrentClosure"}

\* The slot a local is in; faulty variant: not relative to the frame.
SlotFromBottom == Instruction.args[1]

Slot == currentFrame.base + Instruction.args[1]

\* Whether the operand names something outside the array it indexes.
OutOfRange ==
    CASE Instruction.op \in {"OpConstant", "OpClosure"}      -> Instruction.args[1] >= Len(constants)
      [] Instruction.op \in {"OpGetGlobal", "OpSetGlobal"} -> Instruction.args[1] >= GlobalSize
      [] Instruction.op = "OpGetBuiltin"                    -> Instruction.args[1] >= BuiltinCount
      [] Instruction.op = "OpGetFree" ->
            Instruction.args[1] >= Len(currentFrame.cl.free)
      [] OTHER -> FALSE

BeyondStack == Instruction.op \in {"OpGetLocal", "OpSetLocal"} /\ Slot >= StackSize

Loaded ==
    CASE Instruction.op = "OpConstant"       -> constants[Instruction.args[1] + 1]
      [] Instruction.op = "OpTrue"           -> Boolean(TRUE)
      [] Instruction.op = "OpFalse"          -> Boolean(FALSE)
      [] Instruction.op = "OpNull"           -> Null
      [] Instruction.op = "OpGetGlobal"      -> globals[Instruction.args[1]]
      [] Instruction.op = "OpGetLocal"       -> stack[Slot]
      [] Instruction.op = "OpGetBuiltin"     -> Builtin(Instruction.args[1])
      [] Instruction.op = "OpGetFree"        -> currentFrame.cl.free[Instruction.args[1] + 1]
      [] Instruction.op = "OpCurrentClosure" -> currentFrame.cl

Load == On(LoadOps) /\ ~OutOfRange /\ ~BeyondStack /\ Yield(Loaded)

Pop ==
    /\ On({"OpPop"})
    /\ sp' = sp - 1
    /\ Goto(Following)
    /\ UNCHANGED <<constants, globals, stack, status>>

SetGlobal ==
    /\ On({"OpSetGlobal"}) /\ ~OutOfRange
    /\ globals' = [globals EXCEPT ![Instruction.args[1]] = Value(0)]
    /\ sp' = sp - 1
    /\ Goto(Following)
    /\ UNCHANGED <<constants, stack, status>>

SetLocal ==
    /\ On({"OpSetLocal"}) /\ ~BeyondStack
    /\ stack' = [stack EXCEPT ![Slot] = Value(0)]
    /\ sp' = sp - 1
    /\ Goto(Following)
    /\ UNCHANGED <<constants, globals, status>>

-----------------------------------------------------------------------------
(* Operators and literals.                                                 *)

BinaryOperation ==
    On(ArithmeticOps) /\ Yield(executeBinaryOperation(Instruction.op, Value(1), Value(0)))

\* Both operands have been computed when the operator runs.
And == On({"OpAnd"}) /\ Yield(Boolean(isTruthy(Value(1)) /\ isTruthy(Value(0))))

Or == On({"OpOr"}) /\ Yield(Boolean(isTruthy(Value(1)) \/ isTruthy(Value(0))))

Comparison ==
    /\ On(ComparisonOps)
    /\ \E outcome \in executeComparison(Instruction.op, Value(1), Value(0)) : Yield(outcome)

Bang == On({"OpBang"}) /\ \E outcome \in executeBangOperator(Value(0)) : Yield(outcome)

Minus == On({"OpMinus"}) /\ Yield(executeMinusOperator(Value(0)))

MakeArray == On({"OpArray"}) /\ Yield(Array(Topmost(Instruction.args[1])))

MakeDict ==
    /\ On({"OpDict"})
    /\ LET pairs == Topmost(Instruction.args[1])
           half  == 1..(Instruction.args[1] \div 2)
       IN  Yield(buildDict([i \in half |-> pairs[2 * i - 1]], [i \in half |-> pairs[2 * i]]))

Index == On({"OpIndex"}) /\ Yield(executeIndexExpression(Value(1), Value(0)))

GetAttr == On({"OpGetAttr"}) /\ Yield(getAttribute(Value(1), Value(0)))

\* pushClosure: the captured values are copied.
MakeClosure ==
    /\ On({"OpClosure"}) /\ ~OutOfRange
    /\ LET fn == constants[Instruction.args[1] + 1]
       IN  Yield(IF IsFunction(fn) THEN Closure(fn, Topmost(Instruction.args[2]))
                 ELSE Halts("error"))

-----------------------------------------------------------------------------
(* Control.                                                                *)

Branch(pc) == Goto(pc) /\ UNCHANGED <<constants, globals, stack, status>>

Jump == On({"OpJump"}) /\ Branch(Instruction.args[1]) /\ UNCHANGED sp

\* Faulty variant: the condition stays on the stack.
JumpNotTruthyPeeking ==
    /\ On({"OpJumpNotTruthy"})
    /\ Branch(IF isTruthy(Value(0)) THEN Following ELSE Instruction.args[1])
    /\ UNCHANGED sp

JumpNotTruthy ==
    /\ On({"OpJumpNotTruthy"})
    /\ Branch(IF isTruthy(Value(0)) THEN Following ELSE Instruction.args[1])
    /\ sp' = sp - 1

\* The jump is taken whatever the condition is.
While == On({"OpWhile"}) /\ Branch(Instruction.args[1]) /\ sp' = sp - 1

Callee == Value(Instruction.args[1])

\* Faulty variant: the callee is taken for an argument.
basePointerAtCallee == sp - Instruction.args[1] - 1

basePointer == sp - Instruction.args[1]

\* The arguments become the first locals; the slots of the others keep what they hold.
callClosure ==
    /\ On({"OpCall"}) /\ Callee.type = "CLOSURE_OBJ"
    /\ Callee.fn.numParameters = Instruction.args[1]
    /\ Len(frames) < MaxFrames
    /\ frames' = Append([frames EXCEPT ![Len(frames)].pc = Following],
                        NewFrame(Callee, basePointer))
    /\ sp' = basePointer + Callee.fn.numLocals
    /\ UNCHANGED <<constants, globals, stack, status>>

\* A builtin that returns nil returns Null.  It is told nothing but its arguments.
callBuiltin ==
    /\ On({"OpCall"}) /\ Callee.type = "BUILTIN"
    /\ \E result \in BuiltinResults \cup HandedBack(Topmost(Instruction.args[1])) :
          Yield(IF result = Nil THEN Null ELSE result)

\* Only calls of closures are limited in number, by the slice of frames.
callFails ==
    /\ On({"OpCall"}) /\ Callee.type # "BUILTIN"
    /\ \/ Callee.type = "nil" /\ Halt("nil")
       \/ Callee.type \notin {"nil", "CLOSURE_OBJ"} /\ Halt("error")
       \/ /\ Callee.type = "CLOSURE_OBJ"
          /\ IF Callee.fn.numParameters # Instruction.args[1] THEN Halt("error")
             ELSE Len(frames) >= MaxFrames /\ Halt("frames")

\* popFrame; the value replaces the callee.
Return ==
    /\ On({"OpReturnValue", "OpReturn"})
    /\ Len(frames) > 1
    /\ IF currentFrame.base > StackSize THEN Halt("error")
       ELSE /\ stack' = [stack EXCEPT ![currentFrame.base - 1] =
                            IF Instruction.op = "OpReturn" THEN Null ELSE Value(0)]
            /\ sp' = currentFrame.base
            /\ frames' = SubSeq(frames, 1, Len(frames) - 1)
            /\ UNCHANGED <<constants, globals, status>>

\* An index out of range.  A return from the main program pushes to slot -1.
Panic ==
    /\ Running
    /\ \/ OutOfStack(Pops(Instruction)) /\ Halt("stack")
       \/ Returns(Instruction) /\ Len(frames) = 1 /\ Halt("stack")
       \/ BeyondStack /\ Halt("locals")
       \/ OutOfRange /\ Halt("operand")

Finish == status = "running" /\ ~Running /\ Halt("done")

Next == \/ Load \/ Pop \/ SetGlobal \/ SetLocal
        \/ BinaryOperation \/ And \/ Or \/ Comparison \/ Bang \/ Minus
        \/ MakeArray \/ MakeDict \/ Index \/ GetAttr \/ MakeClosure
        \/ Jump \/ JumpNotTruthy \/ While
        \/ callClosure \/ callBuiltin \/ callFails \/ Return
        \/ Panic \/ Finish

Init == \E p \in Programs : Start(p.instructions, p.constants, Fresh(GlobalSize))

Spec == Init /\ [][Next]_vars

\* Only read when the run has ended by itself; the slot may hold nil.
LastPoppedStackElem == stack[sp]

-----------------------------------------------------------------------------
(* Properties                                                              *)

(* The type invariant: whatever is in a slot is an object or nil, and an   *)
(* integer among them fits its width; each frame runs a closure.           *)
TypeOK ==
    /\ DOMAIN stack = 0..(StackSize - 1) /\ DOMAIN globals = 0..(GlobalSize - 1)
    /\ \A i \in DOMAIN stack : IsObject(stack[i])
    /\ \A i \in DOMAIN globals : IsObject(globals[i])
    /\ Len(frames) \in 1..MaxFrames
    /\ \A i \in DOMAIN frames : frames[i].cl.type = "CLOSURE_OBJ" /\ frames[i].pc \in Nat
    /\ sp \in Nat
    /\ status \in {"running", "done", "error", "stack", "locals", "frames", "operand",
                   "nil", "divide"}

(* A call in progress keeps its callee in the slot below its locals, where *)
(* the value it returns will go, whatever it does to its locals, its       *)
(* operands and the calls it makes.                                        *)
FrameSitsOnCallee ==
    \A i \in 2..Len(frames) :
        frames[i].base \in 1..StackSize /\ stack[frames[i].base - 1] = frames[i].cl

(* What a function has on the stack when it calls another, its own locals  *)
(* and operands, is as it was until the call returns: a running function   *)
(* writes to no slot below its callee's, and only its return writes there. *)
CallersValuesKept ==
    [][\A i \in DOMAIN stack :
          i < currentFrame.base /\ stack'[i] # stack[i] =>
             i = currentFrame.base - 1 /\ Len(frames') = Len(frames) - 1]_vars

(* The machine with its values implements the stack discipline without     *)
(* them: on verified code no value, no comparison and no result of a       *)
(* builtin makes it pop what is not there, jump between instructions, or   *)
(* read a constant, capture or builtin there is not.                       *)
Discipline == INSTANCE StackMachine WITH
    main      <- frames[1].cl.fn,
    functions <- {fn \in {constants[i] : i \in DOMAIN constants} : IsFunction(fn)},
    frames    <- [i \in DOMAIN frames |->
                    [fn |-> frames[i].cl.fn, pc |-> frames[i].pc, base |-> frames[i].base]]
                 \o <<>>,  \* as a tuple: TLC evaluates EXCEPT wrongly on the function
    status    <- IF status \in {"nil", "divide"} THEN "error" ELSE status

KeepsDiscipline == Discipline!Spec
=============================================================================
