-------------------------------- MODULE Code --------------------------------
(***************************************************************************)
(* The instruction format of code/code.go.                                 *)
(*                                                                         *)
(* Instructions are a flat []byte in Go.  Here a byte is a cell: the byte  *)
(* that holds an opcode is a cell [op, args] carrying the decoded          *)
(* operands, and every operand byte is the cell Operand.  Offsets are the  *)
(* byte offsets of the program: offset p of the code is cell p + 1, so     *)
(* that patched jumps, removed instructions and the width of an operand    *)
(* mean what they mean in the source.                                      *)
(***************************************************************************)
EXTENDS Integers, Sequences

CONSTANTS
    OneByte,    \* how many values a 1-byte operand tells apart (256)
    TwoBytes    \* how many values a 2-byte operand tells apart (65536)

ASSUME CodeAssumption == /\ OneByte \in Nat \ {0}
                         /\ TwoBytes \in Nat \ {0}

ArithmeticOps == {"OpAdd", "OpSub", "OpMul", "OpDiv", "OpMod"}

ComparisonOps == {"OpEqual", "OpNotEqual", "OpGreaterThan", "OpLessThan",
                  "OpLessThanOrEqual", "OpGreaterThanOrEqual"}

Opcodes == ArithmeticOps \cup ComparisonOps \cup
    {"OpConstant", "OpPop", "OpTrue", "OpFalse", "OpMinus", "OpBang",
     "OpJumpNotTruthy", "OpJump", "OpNull", "OpSetGlobal", "OpGetGlobal",
     "OpSetLocal", "OpGetLocal", "OpArray", "OpDict", "OpIndex", "OpCall",
     "OpReturnValue", "OpReturn", "OpGetBuiltin", "OpClosure", "OpGetFree",
     "OpCurrentClosure", "OpWhile", "OpAnd", "OpOr", "OpGetAttr"}

OperandWidths(op) ==
    CASE op \in {"OpConstant", "OpJumpNotTruthy", "OpJump", "OpSetGlobal",
                 "OpGetGlobal", "OpArray", "OpDict"}            -> <<2>>
      [] op \in {"OpCall", "OpSetLocal", "OpGetLocal",
                 "OpGetBuiltin", "OpGetFree"}                   -> <<1>>
      [] op = "OpClosure"                                       -> <<2, 1>>
      [] op = "OpWhile"                                         -> <<2, 2>>
      [] OTHER                                                  -> <<>>

(* The value range of the i-th operand of op: the conversions byte(o) and  *)
(* uint16(o) of Make keep the operand modulo this bound, silently.         *)
OperandBound(op, i) == IF OperandWidths(op)[i] = 2 THEN TwoBytes ELSE OneByte

OperandBytes(op) ==
    CASE OperandWidths(op) = <<>>     -> 0
      [] Len(OperandWidths(op)) = 1   -> OperandWidths(op)[1]
      [] OTHER                        -> OperandWidths(op)[1] + OperandWidths(op)[2]

InstructionLen(op) == 1 + OperandBytes(op)

Operand == [op |-> "operand byte", args |-> <<>>]

Cells == [op : Opcodes \cup {Operand.op}, args : Seq(Nat)]

Make(op, operands) ==
    [i \in 1..InstructionLen(op) |->
        IF i = 1
        THEN [op   |-> op,
              args |-> [j \in DOMAIN operands |-> operands[j] % OperandBound(op, j)]]
        ELSE Operand]

IsHead(code, p) == p \in 0..(Len(code) - 1) /\ code[p + 1].op \in Opcodes

At(code, p) == code[p + 1]

NextOffset(code, p) == p + InstructionLen(At(code, p).op)
=============================================================================
