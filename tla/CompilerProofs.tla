--------------------------- MODULE CompilerProofs ---------------------------
(***************************************************************************)
(* The compiler, proved for every set of programs and files, every depth   *)
(* of functions and every nesting of imports.                              *)
(*                                                                         *)
(* What makes the properties inductive is where an OpPop may be taken      *)
(* back.  The compiler remembers two instructions, and removing one leaves *)
(* no second to fall back on; so between two removals it must emit.  It    *)
(* does: a task that computes a value is followed by one that uses it      *)
(* (Followed), and while the next task emits nothing, the last instruction *)
(* can still be removed, and no loop left to close starts behind it        *)
(* (Settled).  Every jump that waits for its target is then in front of    *)
(* whatever is removed.                                                    *)
(*                                                                         *)
(* The imports are a chain: behind the end of each, the directory it will  *)
(* restore is that of the next end (RightDir), and the files of the chain  *)
(* are all among the imported ones, each once (SoundImports).              *)
(***************************************************************************)
EXTENDS Compiler, WellFoundedInduction, SequenceTheorems, FiniteSetTheorems, TLAPS

-----------------------------------------------------------------------------
(* Tasks.                                                                  *)

Objects ==
    {node.literal : node \in NodesOfKind({"IntegerLiteral", "FloatLiteral", "StringLiteral"})}
        \cup {String(node.property) : node \in NodesOfKind({"AttributeAccess"})}
        \cup [type : {"COMPILED_FUNCTION_OBJ"}, instructions : Seq(Cells),
              numLocals : Nat, numParameters : Nat]

CompiledNodes == ProgramNodes \cup BlockNodes \cup StatementNodes \cup ExpressionNodes

Tasks ==
    [do : {"Compile"}, node : CompiledNodes]
        \cup [do : {"Emit"}, op : Opcodes, operands : Seq(Nat)]
        \cup [do : {"Constant"}, object : Objects, op : {"OpConstant", "OpClosure"},
              operands : Seq(Nat)]
        \cup [do : {"Fail"}, cause : {"unknown operator"}]
        \cup [do : {"AssignTarget"}, name : Names]
        \cup [do : {"IfThen"}, node : NodesOfKind({"IfExpression"})]
        \cup [do : {"IfElse"}, node : NodesOfKind({"IfExpression"}), test : Nat]
        \cup [do : {"IfEnd"}, over : Nat]
        \cup [do : {"WhileBody"}, node : NodesOfKind({"WhileStatement"}), start : Nat]
        \cup [do : {"WhileEnd"}, start : Nat, test : Nat]
        \cup [do : {"FunctionEnd"}, node : NodesOfKind({"FunctionLiteral"})]
        \cup [do : {"ImportEnd"}, dir : Directories, file : DOMAIN Files]

CompilesExpression(task) == task.do = "Compile" /\ task.node.kind \in ExpressionKinds

\* A task that emits an instruction, or ends in an error, before a value's OpPop can be taken back.
Emits(task) ==
    \/ task.do \in {"Emit", "Constant", "Fail", "AssignTarget", "IfThen", "WhileBody"}
    \/ CompilesExpression(task)

\* A task at the end of which an expression's value is on the stack.
Computes(task) == task.do \in {"IfThen", "IfElse", "IfEnd"} \/ CompilesExpression(task)

\* A computed value is used.
Followed(tasks) ==
    \A i \in 1..Len(tasks) : Computes(tasks[i]) => i < Len(tasks) /\ Emits(tasks[i + 1])

-----------------------------------------------------------------------------
(* Code.                                                                   *)

ScopeType == [instructions : Seq(Cells), last : EmittedInstruction, previous : EmittedInstruction]

\* Every opcode has its operand bytes behind it.
Whole(code) ==
    \A p \in 0..(Len(code) - 1) :
        IsHead(code, p) =>
            \A k \in (p + 1)..(NextOffset(code, p) - 1) : k < Len(code) /\ code[k + 1].op = Operand.op

\* e is the last instruction before end.
Ends(code, e, end) == IsHead(code, e.pos) /\ At(code, e.pos).op = e.op /\ NextOffset(code, e.pos) = end

ScopeFits(scope) ==
    /\ scope \in ScopeType /\ Whole(scope.instructions)
    /\ scope.instructions # <<>> => Ends(scope.instructions, scope.last, Len(scope.instructions))

\* The last instruction can be taken back.
Ready(scope) ==
    scope.instructions # <<>> /\ scope.last.pos > 0 =>
        Ends(scope.instructions, scope.previous, scope.last.pos)

JumpAt(code, p, op) == IsHead(code, p) /\ At(code, p).op = op

Pending(task, code) ==
    /\ task.do \in {"IfElse", "WhileEnd"} => JumpAt(code, task.test, "OpJumpNotTruthy")
    /\ task.do = "IfEnd" => JumpAt(code, task.over, "OpJump")
    /\ task.do \in {"WhileBody", "WhileEnd"} => task.start <= Len(code)

Later(task, code) == task.do \in {"WhileBody", "WhileEnd"} => task.start < Len(code)

\* The ends of functions, and of imports, behind place i of the control.
EndsBehind(c, i) == {j \in i + 1..Len(c) : c[j].do = "FunctionEnd"}

ImportsBehind(c, i) == {j \in i + 1..Len(c) : c[j].do = "ImportEnd"}

Depth(c, i) == 1 + Cardinality(EndsBehind(c, i))

\* Nothing is taken back behind an expression without a use of it.
Settled(c, top) ==
    c # <<>> /\ ~Emits(c[1]) =>
        /\ Ready(top)
        /\ \A i \in 1..Len(c) : Depth(c, i) = Depth(c, 0) => Later(c[i], top.instructions)

\* The open functions: their code and what is left to do in it.
Sound(c, open) ==
    /\ c \in Seq(Tasks) /\ Followed(c)
    /\ open \in Seq(ScopeType) /\ Len(open) \in Nat \ {0} /\ Depth(c, 0) = Len(open)
    /\ \A k \in 1..Len(open) : ScopeFits(open[k])
    /\ \A i \in 1..Len(c) : Pending(c[i], open[Depth(c, i)].instructions)
    /\ Settled(c, open[Len(open)])

\* dir is that of the innermost import that ends behind place i.
RightDir(c, i, dir) ==
    /\ ImportsBehind(c, i) = {} => dir = BaseDir
    /\ \A e \in ImportsBehind(c, i) :
          (\A f \in ImportsBehind(c, i) : e <= f) => dir = DirOf[c[e].file]

\* The open imports: what their ends restore, and that no file is among them twice.
SoundImports(c, files, dir) ==
    /\ files \subseteq DOMAIN Files /\ dir \in Directories
    /\ RightDir(c, 0, dir)
    /\ \A e \in ImportsBehind(c, 0) : RightDir(c, e, c[e].dir) /\ c[e].file \in files
    /\ \A e, f \in ImportsBehind(c, 0) : c[e].file = c[f].file => e = f

SoundTables(chain, open) == chain \in Seq(TableType) /\ Len(chain) = Len(open)

Inv ==
    /\ Sound(control, scopes) /\ SoundTables(tables, scopes)
    /\ SoundImports(control, importedFiles, currentDir)

SoundConstants == constants \in Seq(Objects)

-----------------------------------------------------------------------------
(* The first task of a sequence c is replaced by the tasks of t.           *)

LEMMA Replaced ==
    ASSUME NEW T, NEW c \in Seq(T), c # <<>>, NEW t \in Seq(T), NEW s, s = t \o Tail(c)
    PROVE  /\ s \in Seq(T) /\ Len(t) \in Nat /\ Len(c) \in Nat \ {0}
           /\ Len(s) = Len(t) + Len(c) - 1
           /\ \A i \in 1..Len(t) : s[i] = t[i]
           /\ \A i \in 2..Len(c) : s[Len(t) + i - 1] = c[i]
           /\ \A j \in 1..Len(s) : j \in 1..Len(t) \/ j - Len(t) + 1 \in 2..Len(c)
<1>1. Len(t) \in Nat /\ Len(c) \in Nat \ {0}
  BY EmptySeq
<1>2. /\ Tail(c) \in Seq(T) /\ Len(Tail(c)) = Len(c) - 1
      /\ \A i \in 1..(Len(c) - 1) : Tail(c)[i] = c[i + 1]
  BY HeadTailProperties
<1>3. s \in Seq(T) /\ Len(s) = Len(t) + (Len(c) - 1)
  BY <1>2, ConcatProperties
<1>4. \A i \in 1..Len(t) : s[i] = t[i]
  BY <1>1, <1>2, ConcatProperties
<1>5. \A i \in 2..Len(c) : s[Len(t) + i - 1] = c[i]
  <2> TAKE i \in 2..Len(c)
  <2>1. s[Len(t) + i - 1] = Tail(c)[Len(t) + i - 1 - Len(t)]
    BY <1>1, <1>2, ConcatProperties
  <2>2. Len(t) + i - 1 - Len(t) = i - 1 /\ i - 1 \in 1..(Len(c) - 1) /\ (i - 1) + 1 = i
    BY <1>1
  <2>3. QED BY <1>2, <2>1, <2>2
<1>6. QED BY <1>1, <1>3, <1>4, <1>5

LEMMA DepthIs == \A i : DepthOf(i) = Depth(control, i)
  BY DEF DepthOf, Depth, EndsBehind

LEMMA EndsFinite ==
    ASSUME NEW T, NEW c \in Seq(T), NEW i \in Nat
    PROVE  /\ IsFiniteSet(EndsBehind(c, i)) /\ Cardinality(EndsBehind(c, i)) \in Nat
           /\ Depth(c, i) \in Nat \ {0}
<1>1. IsFiniteSet(i + 1..Len(c))
  BY FS_Interval
<1>2. IsFiniteSet(EndsBehind(c, i))
  BY <1>1, FS_Subset DEF EndsBehind
<1>3. QED BY <1>2, FS_CardinalityType DEF Depth

LEMMA DepthFalls ==
    ASSUME NEW T, NEW c \in Seq(T), NEW i \in Nat, NEW k \in Nat, i <= k
    PROVE  Depth(c, k) <= Depth(c, i)
<1>1. EndsBehind(c, k) \in SUBSET EndsBehind(c, i)
  BY DEF EndsBehind
<1>2. Cardinality(EndsBehind(c, k)) <= Cardinality(EndsBehind(c, i))
  BY <1>1, EndsFinite, FS_Subset
<1>3. QED BY <1>2, EndsFinite DEF Depth

LEMMA DepthStep ==
    ASSUME NEW T, NEW c \in Seq(T), NEW i \in 1..Len(c)
    PROVE  Depth(c, i - 1) = IF c[i].do = "FunctionEnd" THEN Depth(c, i) + 1 ELSE Depth(c, i)
<1>1. IsFiniteSet(EndsBehind(c, i)) /\ Cardinality(EndsBehind(c, i)) \in Nat
  BY EndsFinite
<1>2. CASE c[i].do = "FunctionEnd"
  <2>1. EndsBehind(c, i - 1) = EndsBehind(c, i) \cup {i}
    BY <1>2 DEF EndsBehind
  <2>2. i \notin EndsBehind(c, i)
    BY DEF EndsBehind
  <2>3. Cardinality(EndsBehind(c, i - 1)) = Cardinality(EndsBehind(c, i)) + 1
    BY <1>1, <2>1, <2>2, FS_AddElement
  <2>4. QED BY <1>1, <1>2, <2>3 DEF Depth
<1>3. CASE c[i].do # "FunctionEnd"
  <2>1. EndsBehind(c, i - 1) = EndsBehind(c, i)
    BY <1>3 DEF EndsBehind
  <2>2. QED BY <1>3, <2>1 DEF Depth
<1>4. QED BY <1>2, <1>3

LEMMA DepthKept ==
    ASSUME NEW T, NEW c \in Seq(T), c # <<>>, NEW t \in Seq(T), NEW s, s = t \o Tail(c),
           NEW i \in 1..Len(c)
    PROVE  Depth(s, Len(t) + i - 1) = Depth(c, i)
<1>1. PICK n, m : n = Len(t) /\ m = Len(c)
  OBVIOUS
<1>2. /\ n \in Nat /\ m \in Nat \ {0} /\ Len(s) = n + m - 1
      /\ \A j \in 2..m : s[n + j - 1] = c[j]
  BY <1>1, Replaced
<1>3. PICK f : f = [j \in EndsBehind(c, i) |-> n + j - 1]
  OBVIOUS
<1>4. f \in Bijection(EndsBehind(c, i), EndsBehind(s, n + i - 1))
  <2>1. ASSUME NEW j \in EndsBehind(c, i)
        PROVE  f[j] \in EndsBehind(s, n + i - 1)
    <3>1. j \in i + 1..m /\ i \in 1..m /\ c[j].do = "FunctionEnd"
      BY <1>1 DEF EndsBehind
    <3>2. n + j - 1 \in n + i - 1 + 1..n + m - 1 /\ j \in 2..m
      BY ONLY <3>1, <1>2
    <3>3. f[j] = n + j - 1 /\ s[n + j - 1] = c[j]
      BY <1>2, <1>3, <3>2
    <3>4. QED BY ONLY <3>1, <3>2, <3>3, <1>2 DEF EndsBehind
  <2>2. ASSUME NEW k \in EndsBehind(s, n + i - 1)
        PROVE  \E j \in EndsBehind(c, i) : f[j] = k
    <3>0. k \in n + i..n + m - 1 /\ i \in 1..m
      BY <1>1, <1>2 DEF EndsBehind
    <3>1. k - n + 1 \in 2..m /\ n + (k - n + 1) - 1 = k /\ k - n + 1 \in i + 1..m
      BY ONLY <3>0, <1>2
    <3>2. k - n + 1 \in EndsBehind(c, i)
      BY <1>1, <1>2, <3>1 DEF EndsBehind
    <3>3. QED BY <1>3, <3>1, <3>2
  <2>3. \A j, k \in EndsBehind(c, i) : f[j] = f[k] => j = k
    <3>1. EndsBehind(c, i) \subseteq Int
      BY ONLY i \in 1..Len(c) DEF EndsBehind
    <3>2. QED BY ONLY <1>2, <1>3, <3>1
  <2>4. f \in [EndsBehind(c, i) -> EndsBehind(s, n + i - 1)]
    BY <1>3, <2>1
  <2>5. QED BY <2>2, <2>3, <2>4 DEF Bijection, Injection, Surjection, IsInjective
<1>5. ExistsBijection(EndsBehind(c, i), EndsBehind(s, n + i - 1))
  BY <1>4 DEF ExistsBijection
<1>6. Cardinality(EndsBehind(s, n + i - 1)) = Cardinality(EndsBehind(c, i))
  BY <1>5, EndsFinite, FS_Bijection
<1>7. QED BY <1>1, <1>6 DEF Depth

LEMMA DepthSame ==
    ASSUME NEW s, NEW n \in Nat, n <= Len(s), Len(s) \in Nat,
           \A j \in 1..n : s[j].do # "FunctionEnd", NEW k \in 0..n
    PROVE  Depth(s, k) = Depth(s, n)
<1>1. EndsBehind(s, k) = EndsBehind(s, n)
  BY DEF EndsBehind
<1>2. QED BY <1>1 DEF Depth

EndsNone(t) == \A i \in 1..Len(t) : t[i].do # "FunctionEnd"

\* No function begins or ends.
LEMMA DepthsReplaced ==
    ASSUME NEW T, NEW c \in Seq(T), c # <<>>, c[1].do # "FunctionEnd",
           NEW t \in Seq(T), EndsNone(t), NEW s, s = t \o Tail(c), NEW k \in 0..Len(t)
    PROVE  Depth(s, k) = Depth(c, 0)
<1>1. PICK n, m : n = Len(t) /\ m = Len(c)
  OBVIOUS
<1>2. /\ n \in Nat /\ m \in Nat \ {0} /\ Len(s) = n + m - 1 /\ \A i \in 1..n : s[i] = t[i]
  BY <1>1, Replaced
<1>3. Depth(c, 1) = Depth(c, 0)
  <2>1. Depth(c, 1 - 1) = Depth(c, 1)
    BY <1>1, <1>2, DepthStep
  <2>2. QED BY <2>1
<1>4. Depth(s, n) = Depth(c, 1)
  <2>1. n + 1 - 1 = n /\ 1 \in 1..Len(c)
    BY <1>1, <1>2
  <2>2. Depth(s, Len(t) + 1 - 1) = Depth(c, 1)
    BY <2>1, DepthKept
  <2>3. QED BY <1>1, <2>1, <2>2
<1>5. Depth(s, k) = Depth(s, n)
  <2>1. \A j \in 1..n : s[j].do # "FunctionEnd"
    BY <1>1, <1>2 DEF EndsNone
  <2>2. n <= Len(s) /\ Len(s) \in Nat /\ k \in 0..n
    BY <1>1, <1>2
  <2>3. QED BY ONLY <1>2, <2>1, <2>2, DepthSame
<1>6. QED BY <1>3, <1>4, <1>5

-----------------------------------------------------------------------------
(* What the fields of a task hold.                                         *)

LEMMA CompileTask ==
    ASSUME NEW task \in Tasks, task.do = "Compile"
    PROVE  task.node \in CompiledNodes
  BY DEF Tasks

LEMMA InstructionTask ==
    ASSUME NEW task \in Tasks, task.do \in {"Emit", "Constant"}
    PROVE  task.op \in Opcodes /\ task.operands \in Seq(Nat)
  BY DEF Tasks, Opcodes

LEMMA NodeTask ==
    ASSUME NEW task \in Tasks
    PROVE  /\ task.do \in {"IfThen", "IfElse"} => task.node \in NodesOfKind({"IfExpression"})
           /\ task.do = "WhileBody" => task.node \in NodesOfKind({"WhileStatement"})
           /\ task.do = "FunctionEnd" => task.node \in NodesOfKind({"FunctionLiteral"})
  BY DEF Tasks

LEMMA PlaceTask ==
    ASSUME NEW task \in Tasks
    PROVE  /\ task.do \in {"IfElse", "WhileEnd"} => task.test \in Nat
           /\ task.do = "IfEnd" => task.over \in Nat
           /\ task.do \in {"WhileBody", "WhileEnd"} => task.start \in Nat
  BY DEF Tasks

LEMMA OtherTask ==
    ASSUME NEW task \in Tasks
    PROVE  /\ task.do = "AssignTarget" => task.name \in Names
           /\ task.do = "ImportEnd" => task.dir \in Directories /\ task.file \in DOMAIN Files
  BY DEF Tasks

\* The tasks the compiler plans.
LEMMA PlannedTasks ==
    /\ \A node \in CompiledNodes : Compile(node) \in Tasks
    /\ \A op \in Opcodes, operands \in Seq(Nat) : Emit(op, operands) \in Tasks
    /\ Fail("unknown operator") \in Tasks
    /\ \A object \in Objects : Constant(object) \in Tasks
    /\ \A object \in Objects, n \in Nat : MakeClosure(object, n) \in Tasks
<1>1. \A node \in CompiledNodes : Compile(node) \in Tasks
  BY DEF Compile, Tasks
<1>2. \A op \in Opcodes, operands \in Seq(Nat) : Emit(op, operands) \in Tasks
  BY DEF Emit, Tasks
<1>3. Fail("unknown operator") \in Tasks
  BY DEF Fail, Tasks
<1>4. ASSUME NEW object \in Objects, NEW operands \in Seq(Nat), NEW op \in {"OpConstant", "OpClosure"}
      PROVE  [do |-> "Constant", object |-> object, op |-> op, operands |-> operands] \in Tasks
  <2>1. [do |-> "Constant", object |-> object, op |-> op, operands |-> operands]
          \in [do : {"Constant"}, object : Objects, op : {"OpConstant", "OpClosure"},
               operands : Seq(Nat)]
    OBVIOUS
  <2>2. QED BY <2>1 DEF Tasks
<1>5. <<>> \in Seq(Nat) /\ \A n \in Nat : <<n>> \in Seq(Nat)
  OBVIOUS
<1>6. QED BY <1>1, <1>2, <1>3, <1>4, <1>5 DEF Constant, MakeClosure

-----------------------------------------------------------------------------
(* Instructions, and what is done to code.                                 *)

LEMMA Widths ==
    /\ \A op : InstructionLen(op) \in Nat \ {0}
    /\ InstructionLen("OpPop") = 1
    /\ InstructionLen("OpJump") = 3 /\ InstructionLen("OpJumpNotTruthy") = 3
  BY DEF InstructionLen, OperandBytes, OperandWidths

LEMMA OperandIsNoHead == Operand \in Cells /\ Operand.op \notin Opcodes
  BY DEF Operand, Cells, Opcodes, ArithmeticOps, ComparisonOps

LEMMA MakeIs ==
    ASSUME NEW op \in Opcodes, NEW operands \in Seq(Nat), NEW made, made = Make(op, operands)
    PROVE  /\ made \in Seq(Cells) /\ Len(made) = InstructionLen(op)
           /\ made[1].op = op
           /\ \A k \in 2..InstructionLen(op) : made[k] = Operand
<1>1. PICK w : w = InstructionLen(op) /\ w \in Nat \ {0}
  BY Widths
<1>2. PICK args : args = [j \in DOMAIN operands |-> operands[j] % OperandBound(op, j)]
  OBVIOUS
<1>3. args \in Seq(Nat)
  <2>1. \A j : OperandBound(op, j) \in Nat \ {0}
    BY CodeAssumption DEF OperandBound
  <2>2. \A j \in 1..Len(operands) : operands[j] % OperandBound(op, j) \in Nat
    <3> TAKE j \in 1..Len(operands)
    <3>1. operands[j] \in Nat /\ OperandBound(op, j) \in Nat \ {0}
      BY <2>1
    <3>2. \A a \in Nat, b \in Nat \ {0} : a % b \in Nat
      OBVIOUS
    <3>3. QED BY ONLY <3>1, <3>2
  <2>3. DOMAIN operands = 1..Len(operands) /\ Len(operands) \in Nat
    OBVIOUS
  <2>4. args \in [1..Len(operands) -> Nat]
    BY ONLY <1>2, <2>2, <2>3
  <2>5. QED BY ONLY <2>3, <2>4, IsASeq
<1>4. PICK head : head = [op |-> op, args |-> args]
  OBVIOUS
<1>5. made = [i \in 1..w |-> IF i = 1 THEN head ELSE Operand]
  BY <1>1, <1>2, <1>4 DEF Make
<1>6. made \in [1..w -> Cells] /\ head.op = op
  <2>1. head \in [op : Opcodes \cup {Operand.op}, args : Seq(Nat)] /\ head.op = op
    BY <1>3, <1>4
  <2>2. head \in Cells
    BY <2>1 DEF Cells
  <2>3. QED BY <1>5, <2>1, <2>2, OperandIsNoHead
<1>7. made \in Seq(Cells) /\ Len(made) = w
  BY ONLY <1>1, <1>6, IsASeq, LenProperties
<1>8. QED BY <1>1, <1>5, <1>6, <1>7

\* Two codes that agree on the first n bytes, operands apart.
SameOps(code, new, n) == \A k \in 1..n : new[k].op = code[k].op

LEMMA HeadsKept ==
    ASSUME NEW code \in Seq(Cells), NEW new \in Seq(Cells), NEW n \in Nat,
           SameOps(code, new, n), n <= Len(code), n <= Len(new),
           NEW p \in 0..(n - 1)
    PROVE  /\ IsHead(new, p) <=> IsHead(code, p)
           /\ At(new, p).op = At(code, p).op
           /\ NextOffset(new, p) = NextOffset(code, p)
<1>1. p + 1 \in 1..n /\ p \in 0..(Len(code) - 1) /\ p \in 0..(Len(new) - 1)
  OBVIOUS
<1>2. new[p + 1].op = code[p + 1].op
  BY <1>1 DEF SameOps
<1>3. QED BY <1>1, <1>2 DEF IsHead, At, NextOffset

\* What is known of a place stays known while that place keeps its opcode.
LEMMA PlacesKept ==
    ASSUME NEW code \in Seq(Cells), NEW new \in Seq(Cells), NEW n \in Nat,
           SameOps(code, new, n), n <= Len(code), n <= Len(new)
    PROVE  /\ \A p, op : p < n /\ JumpAt(code, p, op) => JumpAt(new, p, op)
           /\ \A e, end : e.pos < n /\ Ends(code, e, end) => Ends(new, e, end)
<1>1. ASSUME NEW p, NEW op, p < n, JumpAt(code, p, op)
      PROVE  JumpAt(new, p, op)
  <2>1. p \in 0..(n - 1)
    BY <1>1 DEF JumpAt, IsHead
  <2>2. QED BY <1>1, <2>1, HeadsKept DEF JumpAt
<1>2. ASSUME NEW e, NEW end, e.pos < n, Ends(code, e, end)
      PROVE  Ends(new, e, end)
  <2>1. e.pos \in 0..(n - 1)
    BY <1>2 DEF Ends, IsHead
  <2>2. QED BY <1>2, <2>1, HeadsKept DEF Ends
<1>3. QED BY <1>1, <1>2

\* An instruction is put behind the code.
LEMMA Extended ==
    ASSUME NEW code \in Seq(Cells), Whole(code), NEW op \in Opcodes, NEW operands \in Seq(Nat),
           NEW new, new = code \o Make(op, operands)
    PROVE  /\ new \in Seq(Cells) /\ Whole(new)
           /\ Len(code) \in Nat /\ Len(new) \in Nat /\ Len(code) < Len(new)
           /\ SameOps(code, new, Len(code))
           /\ IsHead(new, Len(code)) /\ At(new, Len(code)).op = op
           /\ NextOffset(new, Len(code)) = Len(new)
<1>1. PICK made, w, n : made = Make(op, operands) /\ w = InstructionLen(op) /\ n = Len(code)
  OBVIOUS
<1>2. /\ made \in Seq(Cells) /\ Len(made) = w /\ made[1].op = op
      /\ \A k \in 2..w : made[k] = Operand
  BY <1>1, MakeIs
<1>3. w \in Nat \ {0} /\ n \in Nat
  BY <1>1, Widths
<1>4. /\ new \in Seq(Cells) /\ Len(new) = n + w
      /\ \A k \in 1..n : new[k] = code[k]
      /\ new[n + 1].op = op
      /\ \A k \in n + 2..n + w : new[k] = Operand
  <2>1. new = code \o made /\ code \in Seq(Cells)
    BY <1>1
  <2>2. new \in Seq(Cells) /\ Len(new) = n + w
    BY ONLY <2>1, <1>1, <1>2, <1>3, ConcatProperties
  <2>3. \A k \in 1..n : new[k] = code[k]
    BY ONLY <2>1, <1>1, <1>2, <1>3
  <2>4. new[n + 1] = made[1]
    BY ONLY <2>1, <1>1, <1>2, <1>3
  <2>5. ASSUME NEW k \in n + 2..n + w PROVE new[k] = Operand
    <3>1. k - n \in 2..w
      BY <1>3
    <3>2. new[k] = made[k - n]
      BY ONLY <2>1, <1>1, <1>2, <1>3, k \in n + 2..n + w
    <3>3. QED BY <3>1, <3>2, <1>2
  <2>6. QED BY <2>2, <2>3, <2>4, <2>5, <1>2
<1>5. SameOps(code, new, n)
  BY <1>4 DEF SameOps
<1>7. IsHead(new, n) /\ At(new, n).op = op /\ NextOffset(new, n) = Len(new)
  BY <1>1, <1>3, <1>4 DEF IsHead, At, NextOffset
<1>8. ASSUME NEW p \in 0..(Len(new) - 1), IsHead(new, p), NEW k \in (p + 1)..(NextOffset(new, p) - 1)
      PROVE  k < Len(new) /\ new[k + 1].op = Operand.op
  <2>1. CASE p < n
    <3>1. p \in 0..(n - 1)
      BY <1>3, <1>4, <2>1
    <3>2. n <= Len(code) /\ n <= Len(new)
      BY <1>1, <1>3, <1>4
    <3>3. IsHead(code, p) /\ NextOffset(code, p) = NextOffset(new, p)
      BY <1>3, <1>4, <1>5, <1>8, <3>1, <3>2, HeadsKept
    <3>4. k < n /\ code[k + 1].op = Operand.op
      BY <1>1, <1>8, <3>1, <3>3 DEF Whole
    <3>5. k + 1 \in 1..n
      BY <1>3, <3>1, <3>4
    <3>6. QED BY ONLY <1>3, <1>4, <3>4, <3>5
  <2>2. CASE p >= n
    <3>1. p = n
      <4>1. SUFFICES ASSUME p # n PROVE FALSE
        OBVIOUS
      <4>2. p + 1 \in n + 2..n + w
        BY <1>3, <1>4, <2>2, <4>1
      <4>3. new[p + 1] = Operand
        BY ONLY <4>2, <1>4
      <4>4. QED BY <1>8, <4>3, OperandIsNoHead DEF IsHead
    <3>2. NextOffset(new, p) = n + w
      BY <1>4, <1>7, <3>1
    <3>3. k + 1 \in n + 2..n + w /\ k < n + w
      BY <1>3, <1>8, <3>1, <3>2
    <3>4. new[k + 1] = Operand
      BY ONLY <3>3, <1>4
    <3>5. QED BY <1>4, <3>3, <3>4
  <2>3. QED BY <1>3, <2>1, <2>2
<1>9. Whole(new)
  BY <1>8 DEF Whole
<1>10. QED BY <1>1, <1>3, <1>4, <1>5, <1>7, <1>9

\* The operand of a jump is replaced.
LEMMA Patched ==
    ASSUME NEW code \in Seq(Cells), Whole(code), NEW op \in {"OpJump", "OpJumpNotTruthy"},
           NEW p, JumpAt(code, p, op), NEW operand \in Nat,
           NEW new, new = replaceInstruction(code, p, Make(At(code, p).op, <<operand>>))
    PROVE  new \in Seq(Cells) /\ Whole(new) /\ Len(new) = Len(code) /\ SameOps(code, new, Len(code))
<1>1. PICK made, n : made = Make(op, <<operand>>) /\ n = Len(code) /\ n \in Nat
  OBVIOUS
<1>2. op \in Opcodes /\ InstructionLen(op) = 3 /\ <<operand>> \in Seq(Nat)
  BY Widths DEF Opcodes
<1>3. /\ made \in Seq(Cells) /\ Len(made) = 3 /\ made[1].op = op
      /\ made[2] = Operand /\ made[3] = Operand
  <2>1. made = Make(op, <<operand>>)
    BY <1>1
  <2>2. made \in Seq(Cells) /\ Len(made) = 3 /\ made[1].op = op /\ \A k \in 2..3 : made[k] = Operand
    <3>1. PICK operands, w : operands = <<operand>> /\ w = InstructionLen(op)
      OBVIOUS
    <3>2. op \in Opcodes /\ operands \in Seq(Nat) /\ made = Make(op, operands) /\ w = 3
      BY ONLY <3>1, <2>1, <1>2
    <3>3. made \in Seq(Cells) /\ Len(made) = w /\ made[1].op = op /\ \A k \in 2..w : made[k] = Operand
      <4>1. PICK o : o = op /\ o \in Opcodes /\ made = Make(o, operands) /\ w = InstructionLen(o)
        BY ONLY <3>1, <3>2
      <4>2. made \in Seq(Cells) /\ Len(made) = InstructionLen(o) /\ made[1].op = o
        BY ONLY <3>2, <4>1, MakeIs
      <4>3. \A k \in 2..InstructionLen(o) : made[k] = Operand
        BY ONLY <3>2, <4>1, MakeIs
      <4>4. QED BY ONLY <4>1, <4>2, <4>3
    <3>4. QED BY ONLY <3>2, <3>3
  <2>3. QED BY <2>2
<1>4. p \in 0..(n - 1) /\ IsHead(code, p) /\ code[p + 1].op = op /\ At(code, p).op = op
  BY <1>1 DEF JumpAt, IsHead, At
<1>5. /\ p + 1 < n /\ code[(p + 1) + 1].op = Operand.op
      /\ p + 2 < n /\ code[(p + 2) + 1].op = Operand.op
  <2>1. NextOffset(code, p) = p + 3
    BY <1>2, <1>4 DEF NextOffset
  <2>2. p + 1 \in (p + 1)..(NextOffset(code, p) - 1) /\ p + 2 \in (p + 1)..(NextOffset(code, p) - 1)
    BY <1>4, <2>1
  <2>3. QED BY <1>1, <1>4, <2>2 DEF Whole
<1>6. new = [i \in 1..n |-> IF i \in (p + 1)..(p + 3) THEN made[i - p] ELSE code[i]]
  <2>1. new = [i \in DOMAIN code |->
                IF i \in (p + 1)..(p + Len(made)) THEN made[i - p] ELSE code[i]]
    BY <1>1, <1>4 DEF replaceInstruction
  <2>2. DOMAIN code = 1..n
    BY <1>1
  <2>3. QED BY ONLY <2>1, <2>2, <1>3
<1>7. ASSUME NEW i \in 1..n
      PROVE  new[i] \in Cells /\ new[i].op = code[i].op
  <2>1. CASE i \notin (p + 1)..(p + 3)
    BY <1>1, <1>6, <2>1
  <2>2. CASE i \in (p + 1)..(p + 3)
    <3>1. i = p + 1 \/ i = p + 2 \/ i = p + 3
      BY <1>4, <2>2
    <3>2. new[i] = made[i - p] /\ i - p \in 1..3
      BY <1>4, <1>6, <2>2
    <3>3. new[i] \in Cells
      <4>1. \A j \in 1..3 : made[j] \in Cells
        BY ONLY <1>3, SMTT(30)
      <4>2. QED BY ONLY <3>2, <4>1
    <3>4. CASE i = p + 1
      <4>1. i - p = 1
        BY <1>4, <3>4
      <4>2. QED BY <1>3, <1>4, <3>2, <3>3, <3>4, <4>1
    <3>5. CASE i = p + 2
      <4>1. i - p = 2 /\ i = (p + 1) + 1
        BY <1>4, <3>5
      <4>2. QED BY <1>3, <1>5, <3>2, <3>3, <4>1
    <3>6. CASE i = p + 3
      <4>1. i - p = 3 /\ i = (p + 2) + 1
        BY <1>4, <3>6
      <4>2. QED BY <1>3, <1>5, <3>2, <3>3, <4>1
    <3>7. QED BY <3>1, <3>4, <3>5, <3>6
  <2>3. QED BY <2>1, <2>2
<1>8. new \in Seq(Cells) /\ Len(new) = n
  <2>1. new \in [1..n -> Cells]
    BY ONLY <1>6, <1>7
  <2>2. QED BY ONLY <2>1, <1>1, IsASeq, LenProperties
<1>9. SameOps(code, new, n)
  BY <1>7 DEF SameOps
<1>10. Whole(new)
  <2>1. SUFFICES ASSUME NEW q \in 0..(Len(new) - 1), IsHead(new, q),
                        NEW k \in (q + 1)..(NextOffset(new, q) - 1)
                 PROVE  k < Len(new) /\ new[k + 1].op = Operand.op
    BY DEF Whole
  <2>2. n <= Len(code) /\ n <= Len(new) /\ q \in 0..(n - 1)
    BY <1>1, <1>8
  <2>3. IsHead(code, q) /\ NextOffset(code, q) = NextOffset(new, q)
    BY <1>1, <1>8, <1>9, <2>1, <2>2, HeadsKept
  <2>4. k < n /\ code[k + 1].op = Operand.op
    BY <1>1, <2>1, <2>2, <2>3 DEF Whole
  <2>5. k + 1 \in 1..n
    BY <1>1, <2>2, <2>4
  <2>6. QED BY <1>7, <1>8, <2>4, <2>5
<1>11. QED BY <1>1, <1>8, <1>9, <1>10

\* The last instruction is taken back.
LEMMA Cut ==
    ASSUME NEW code \in Seq(Cells), Whole(code), NEW e, Ends(code, e, Len(code)),
           NEW new, new = SubSeq(code, 1, e.pos)
    PROVE  /\ e.pos \in Nat /\ e.pos < Len(code)
           /\ new \in Seq(Cells) /\ Whole(new) /\ Len(new) = e.pos /\ SameOps(code, new, e.pos)
<1>1. PICK m, n : m = e.pos /\ n = Len(code)
  OBVIOUS
<1>2. n \in Nat /\ m \in 0..(n - 1) /\ IsHead(code, m)
  BY <1>1 DEF Ends, IsHead
<1>3. new \in Seq(Cells) /\ Len(new) = m /\ \A k \in 1..m : new[k] = code[k]
  <2>1. 1 \in 1..(Len(code) + 1) /\ m \in (1 - 1)..Len(code)
    BY <1>1, <1>2
  <2>2. new = SubSeq(code, 1, m)
    BY <1>1
  <2>3. QED BY ONLY <1>2, <2>1, <2>2, code \in Seq(Cells), SubSeqProperties
<1>4. SameOps(code, new, m)
  BY <1>3 DEF SameOps
<1>5. Whole(new)
  <2>1. SUFFICES ASSUME NEW q \in 0..(Len(new) - 1), IsHead(new, q),
                        NEW k \in (q + 1)..(NextOffset(new, q) - 1)
                 PROVE  k < Len(new) /\ new[k + 1].op = Operand.op
    BY DEF Whole
  <2>2. m \in Nat /\ m <= Len(code) /\ m <= Len(new) /\ q \in 0..(m - 1)
    BY <1>1, <1>2, <1>3
  <2>3. IsHead(code, q) /\ NextOffset(code, q) = NextOffset(new, q)
    BY <1>3, <1>4, <2>1, <2>2, HeadsKept
  <2>4. \A j \in (q + 1)..(NextOffset(new, q) - 1) : j < n /\ code[j + 1].op = Operand.op
    <3>1. q \in 0..(Len(code) - 1) /\ Whole(code)
      BY <1>1, <1>2, <2>2
    <3>2. QED BY ONLY <3>1, <2>3, <1>1 DEF Whole
  <2>5. k < m
    <3>1. SUFFICES ASSUME k >= m PROVE FALSE
      BY <1>2, <2>2
    <3>2. NextOffset(new, q) \in Nat
      BY <2>2, Widths DEF NextOffset
    <3>3. m \in (q + 1)..(NextOffset(new, q) - 1)
      BY <2>2, <3>1, <3>2
    <3>4. code[m + 1].op = Operand.op
      BY <2>4, <3>3
    <3>5. QED BY <1>2, <3>4, OperandIsNoHead DEF IsHead
  <2>6. k + 1 \in 1..m
    BY <2>2, <2>5
  <2>7. QED BY <1>3, <2>4, <2>5, <2>6
<1>6. QED BY <1>1, <1>2, <1>3, <1>4, <1>5

-----------------------------------------------------------------------------
(* What the compiler does to the code of a function.                       *)

\* Every jump is where it was.
Keeps(code, new) ==
    \A p, op : op \in {"OpJump", "OpJumpNotTruthy"} /\ JumpAt(code, p, op) => JumpAt(new, p, op)

LEMMA ScopeFields ==
    ASSUME NEW scope \in ScopeType
    PROVE  /\ scope.instructions \in Seq(Cells) /\ Len(scope.instructions) \in Nat
           /\ scope.instructions # <<>> <=> Len(scope.instructions) > 0
           /\ scope.last \in EmittedInstruction /\ scope.previous \in EmittedInstruction
           /\ scope.last.pos \in Nat /\ scope.previous.pos \in Nat
           /\ scope.last.op \in Opcodes
<1>1. /\ scope.instructions \in Seq(Cells)
      /\ scope.last \in EmittedInstruction /\ scope.previous \in EmittedInstruction
  BY DEF ScopeType
<1>2. /\ scope.last.pos \in Nat /\ scope.previous.pos \in Nat /\ scope.last.op \in Opcodes
  BY <1>1 DEF EmittedInstruction
<1>3. Len(scope.instructions) \in Nat /\ (scope.instructions # <<>> <=> Len(scope.instructions) > 0)
  BY <1>1, EmptySeq
<1>4. QED BY <1>1, <1>2, <1>3

LEMMA EmptyScopeFits == ScopeFits(EmptyScope) /\ Ready(EmptyScope)
<1>1. /\ EmptyScope.instructions = <<>>
      /\ EmptyScope.last = [op |-> "OpConstant", pos |-> 0]
      /\ EmptyScope.previous = [op |-> "OpConstant", pos |-> 0]
  BY DEF EmptyScope
<1>2. [op |-> "OpConstant", pos |-> 0] \in EmittedInstruction
  BY DEF EmittedInstruction, Opcodes
<1>3. EmptyScope \in ScopeType
  BY <1>2 DEF EmptyScope, ScopeType
<1>4. Whole(<<>>)
  BY DEF Whole
<1>5. QED BY <1>1, <1>3, <1>4 DEF ScopeFits, Ready

LEMMA EmitKeeps ==
    ASSUME NEW scope, ScopeFits(scope), NEW op \in Opcodes, NEW operands \in Seq(Nat),
           NEW new, new = EmitIn(scope, op, operands)
    PROVE  /\ ScopeFits(new) /\ Ready(new)
           /\ Len(scope.instructions) \in Nat /\ Len(new.instructions) \in Nat
           /\ Len(scope.instructions) < Len(new.instructions)
           /\ Keeps(scope.instructions, new.instructions)
           /\ JumpAt(new.instructions, Len(scope.instructions), op)
<1>1. PICK code, ext, n : /\ code = scope.instructions /\ n = Len(code)
                          /\ ext = code \o Make(op, operands)
  OBVIOUS
<1>2. /\ code \in Seq(Cells) /\ n \in Nat /\ (code # <<>> <=> n > 0)
      /\ scope.last \in EmittedInstruction /\ scope.last.pos \in Nat
      /\ Whole(code) /\ (n > 0 => Ends(code, scope.last, n))
  BY <1>1, ScopeFields DEF ScopeFits
<1>3. /\ ext \in Seq(Cells) /\ Whole(ext) /\ Len(ext) \in Nat /\ n < Len(ext)
      /\ SameOps(code, ext, n)
      /\ IsHead(ext, n) /\ At(ext, n).op = op /\ NextOffset(ext, n) = Len(ext)
  <2>1. /\ ext \in Seq(Cells) /\ Whole(ext)
        /\ Len(code) \in Nat /\ Len(ext) \in Nat /\ Len(code) < Len(ext)
        /\ SameOps(code, ext, Len(code))
        /\ IsHead(ext, Len(code)) /\ At(ext, Len(code)).op = op
        /\ NextOffset(ext, Len(code)) = Len(ext)
    <3>1. code \in Seq(Cells) /\ Whole(code) /\ ext = code \o Make(op, operands)
      BY <1>1, <1>2
    <3>2. QED BY ONLY <3>1, op \in Opcodes, operands \in Seq(Nat), Extended, ZenonT(30)
  <2>2. QED BY ONLY <1>1, <2>1
<1>4. /\ \A p, o : p < n /\ JumpAt(code, p, o) => JumpAt(ext, p, o)
      /\ \A e, end : e.pos < n /\ Ends(code, e, end) => Ends(ext, e, end)
  <2>1. n <= Len(code) /\ n <= Len(ext)
    BY <1>1, <1>2, <1>3
  <2>2. QED BY <1>2, <1>3, <2>1, PlacesKept
<1>5. /\ new.instructions = ext /\ new.last = [op |-> op, pos |-> n] /\ new.previous = scope.last
      /\ new = [instructions |-> ext, last |-> [op |-> op, pos |-> n], previous |-> scope.last]
  BY <1>1 DEF EmitIn
<1>6. new \in ScopeType
  <2>1. [op |-> op, pos |-> n] \in EmittedInstruction
    BY <1>2 DEF EmittedInstruction
  <2>2. QED BY <1>2, <1>3, <1>5, <2>1 DEF ScopeType
<1>7. Ends(ext, new.last, Len(ext))
  BY <1>3, <1>5 DEF Ends
<1>8. Ready(new)
  <2>1. SUFFICES ASSUME n > 0 PROVE Ends(ext, scope.last, n)
    BY <1>2, <1>5 DEF Ready
  <2>2. Ends(code, scope.last, n) /\ scope.last.pos < n
    BY <1>1, <1>2, <2>1 DEF Ends, IsHead
  <2>3. QED BY <1>4, <2>2
<1>9. Keeps(code, ext)
  <2>1. \A p, o : JumpAt(code, p, o) => p < n
    BY <1>1, <1>2 DEF JumpAt, IsHead
  <2>2. QED BY <1>4, <2>1 DEF Keeps
<1>10. JumpAt(ext, n, op)
  BY <1>3 DEF JumpAt
<1>11. QED BY <1>1, <1>2, <1>3, <1>5, <1>6, <1>7, <1>8, <1>9, <1>10 DEF ScopeFits

LEMMA PatchKeeps ==
    ASSUME NEW scope, ScopeFits(scope), NEW op \in {"OpJump", "OpJumpNotTruthy"},
           NEW p, JumpAt(scope.instructions, p, op), NEW operand \in Nat,
           NEW new, new = changeOperand(scope, p, operand)
    PROVE  /\ ScopeFits(new) /\ (Ready(scope) => Ready(new))
           /\ Len(new.instructions) = Len(scope.instructions)
           /\ Keeps(scope.instructions, new.instructions)
<1>1. PICK code, pat, n :
        /\ code = scope.instructions /\ n = Len(code)
        /\ pat = replaceInstruction(code, p, Make(At(code, p).op, <<operand>>))
  OBVIOUS
<1>2. /\ code \in Seq(Cells) /\ n \in Nat /\ (code # <<>> <=> n > 0)
      /\ scope.last.pos \in Nat /\ scope.previous.pos \in Nat
      /\ Whole(code) /\ (n > 0 => Ends(code, scope.last, n)) /\ scope \in ScopeType
  BY <1>1, ScopeFields DEF ScopeFits
<1>3. pat \in Seq(Cells) /\ Whole(pat) /\ Len(pat) = n /\ SameOps(code, pat, n)
  <2>1. JumpAt(code, p, op)
    BY <1>1
  <2>2. QED BY <1>1, <1>2, <2>1, Patched
<1>4. /\ \A q, o : q < n /\ JumpAt(code, q, o) => JumpAt(pat, q, o)
      /\ \A e, end : e.pos < n /\ Ends(code, e, end) => Ends(pat, e, end)
  <2>1. n <= Len(code) /\ n <= Len(pat)
    BY <1>1, <1>2, <1>3
  <2>2. QED BY <1>2, <1>3, <2>1, PlacesKept
<1>5. \A q, o, e, end : /\ JumpAt(code, q, o) => q < n
                        /\ Ends(code, e, end) => e.pos < n
  BY <1>1, <1>2 DEF JumpAt, Ends, IsHead
<1>6. /\ new = [scope EXCEPT !.instructions = pat] /\ new.instructions = pat
      /\ new.last = scope.last /\ new.previous = scope.previous /\ new \in ScopeType
  <2>1. new = [scope EXCEPT !.instructions = pat]
    BY <1>1 DEF changeOperand
  <2>2. QED BY <1>2, <1>3, <2>1 DEF ScopeType
<1>7. pat # <<>> <=> n > 0
  BY <1>3, EmptySeq
<1>8. n > 0 => Ends(pat, scope.last, n)
  BY <1>2, <1>4, <1>5
<1>9. Ready(scope) => Ready(new)
  BY <1>1, <1>2, <1>4, <1>5, <1>6, <1>7 DEF Ready
<1>10. Keeps(code, pat)
  BY <1>4, <1>5 DEF Keeps
<1>11. QED BY <1>1, <1>2, <1>3, <1>6, <1>7, <1>8, <1>9, <1>10 DEF ScopeFits

LEMMA DropKeeps ==
    ASSUME NEW scope, ScopeFits(scope), Ready(scope), NEW new, new = DropValuePop(scope)
    PROVE  /\ ScopeFits(new) /\ Keeps(scope.instructions, new.instructions)
           /\ Len(scope.instructions) \in Nat /\ Len(new.instructions) \in Nat
           /\ Len(scope.instructions) <= Len(new.instructions) + 1
<1>1. CASE ~lastInstructionIs(scope, "OpPop")
  <2>1. new = scope
    BY <1>1 DEF DropValuePop
  <2>2. Len(scope.instructions) \in Nat
    BY ScopeFields DEF ScopeFits
  <2>3. QED BY <2>1, <2>2 DEF Keeps
<1>2. CASE lastInstructionIs(scope, "OpPop")
  <2>1. PICK code, e, cut, n :
          /\ code = scope.instructions /\ n = Len(code) /\ e = scope.last
          /\ cut = SubSeq(code, 1, e.pos)
    OBVIOUS
  <2>2. /\ code \in Seq(Cells) /\ n \in Nat /\ n > 0 /\ code # <<>>
        /\ e.pos \in Nat /\ e.op = "OpPop" /\ scope.previous \in EmittedInstruction
        /\ Whole(code) /\ Ends(code, e, n) /\ scope \in ScopeType
    BY <1>2, <2>1, ScopeFields DEF ScopeFits, lastInstructionIs
  <2>3. /\ e.pos < n /\ cut \in Seq(Cells) /\ Whole(cut) /\ Len(cut) = e.pos
        /\ SameOps(code, cut, e.pos)
    BY <2>1, <2>2, Cut
  <2>4. e.pos + 1 = n /\ At(code, e.pos).op = "OpPop"
    <3>1. NextOffset(code, e.pos) = n /\ At(code, e.pos).op = "OpPop"
      BY <2>2 DEF Ends
    <3>2. QED BY <3>1, <2>2, Widths DEF NextOffset
  <2>5. /\ \A q, o : q < e.pos /\ JumpAt(code, q, o) => JumpAt(cut, q, o)
        /\ \A f, end : f.pos < e.pos /\ Ends(code, f, end) => Ends(cut, f, end)
    <3>1. e.pos <= Len(code) /\ e.pos <= Len(cut)
      BY <2>1, <2>2, <2>3
    <3>2. QED BY <2>2, <2>3, <3>1, PlacesKept
  <2>6. /\ new = [scope EXCEPT !.instructions = cut, !.last = scope.previous]
        /\ new.instructions = cut /\ new.last = scope.previous /\ new \in ScopeType
    <3>1. new = [scope EXCEPT !.instructions = cut, !.last = scope.previous]
      BY <1>2, <2>1 DEF DropValuePop, removeLastPop
    <3>2. QED BY <2>2, <2>3, <3>1 DEF ScopeType
  <2>7. cut # <<>> => Ends(cut, scope.previous, e.pos)
    <3>1. SUFFICES ASSUME e.pos > 0 PROVE Ends(cut, scope.previous, e.pos)
      BY <2>2, <2>3, EmptySeq
    <3>2. Ends(code, scope.previous, e.pos)
      BY <2>1, <2>2, <3>1 DEF Ready
    <3>3. scope.previous.pos < e.pos
      <4>1. NextOffset(code, scope.previous.pos) = e.pos /\ scope.previous.pos \in 0..(n - 1)
        BY <2>1, <3>2 DEF Ends, IsHead
      <4>2. QED BY <2>2, <4>1, Widths DEF NextOffset
    <3>4. QED BY <2>5, <3>2, <3>3
  <2>8. Keeps(code, cut)
    <3>1. SUFFICES ASSUME NEW q, NEW o \in {"OpJump", "OpJumpNotTruthy"}, JumpAt(code, q, o)
                   PROVE  JumpAt(cut, q, o)
      BY DEF Keeps
    <3>2. q \in 0..(n - 1) /\ At(code, q).op # "OpPop"
      BY <2>1, <3>1 DEF JumpAt, IsHead
    <3>3. q # e.pos
      BY <2>4, <3>2
    <3>4. q < e.pos
      BY <2>2, <2>4, <3>2, <3>3
    <3>5. QED BY <2>5, <3>1, <3>4
  <2>9. QED BY <2>1, <2>2, <2>3, <2>4, <2>6, <2>7, <2>8 DEF ScopeFits
<1>3. QED BY <1>1, <1>2

\* The instructions of a function are cells.
LEMMA ReturningCells ==
    ASSUME NEW scope, ScopeFits(scope)
    PROVE  Returning(scope).instructions \in Seq(Cells)
<1>1. /\ scope \in ScopeType /\ scope.instructions \in Seq(Cells) /\ scope.last.pos \in Nat
      /\ Len(scope.instructions) \in Nat
  BY ScopeFields DEF ScopeFits
<1>2. "OpReturn" \in Opcodes /\ "OpReturnValue" \in Opcodes /\ <<>> \in Seq(Nat)
  BY DEF Opcodes
<1>3. replaceLastPopWithReturn(scope).instructions \in Seq(Cells)
  <2>1. PICK made, code, p : /\ made = Make("OpReturnValue", <<>>) /\ code = scope.instructions
                             /\ p = scope.last.pos
    OBVIOUS
  <2>2. made \in Seq(Cells) /\ InstructionLen("OpReturnValue") = 1 /\ Len(made) = 1
    <3>1. made \in Seq(Cells) /\ Len(made) = InstructionLen("OpReturnValue")
      BY <1>2, <2>1, MakeIs
    <3>2. QED BY <3>1 DEF InstructionLen, OperandBytes, OperandWidths
  <2>3. PICK new : new = replaceInstruction(code, p, made)
    OBVIOUS
  <2>4. new = [i \in 1..Len(code) |-> IF i \in (p + 1)..(p + 1) THEN made[i - p] ELSE code[i]]
    <3>1. DOMAIN code = 1..Len(code)
      BY <1>1, <2>1
    <3>2. QED BY ONLY <2>2, <2>3, <3>1 DEF replaceInstruction
  <2>5. ASSUME NEW i \in 1..Len(code) PROVE new[i] \in Cells
    <3>1. CASE i \notin (p + 1)..(p + 1)
      BY <1>1, <2>1, <2>4, <3>1
    <3>2. CASE i \in (p + 1)..(p + 1)
      <4>1. i - p = 1
        BY <1>1, <2>1, <3>2
      <4>2. new[i] = made[1] /\ made[1] \in Cells
        <5>1. new[i] = made[i - p]
          BY <2>4, <3>2
        <5>2. made[1] \in Cells
          BY <2>2
        <5>3. QED BY ONLY <4>1, <5>1, <5>2
      <4>3. QED BY <4>2
    <3>3. QED BY <3>1, <3>2
  <2>6. new \in Seq(Cells)
    <3>1. new \in [1..Len(code) -> Cells] /\ Len(code) \in Nat
      BY <1>1, <2>1, <2>4, <2>5
    <3>2. QED BY ONLY <3>1, IsASeq
  <2>7. replaceLastPopWithReturn(scope).instructions = new
    BY <1>1, <2>1, <2>3 DEF replaceLastPopWithReturn, ScopeType
  <2>8. QED BY <2>6, <2>7
<1>4. ASSUME NEW s, s.instructions \in Seq(Cells)
      PROVE  EmitIn(s, "OpReturn", <<>>).instructions \in Seq(Cells)
  <2>1. Make("OpReturn", <<>>) \in Seq(Cells)
    BY <1>2, MakeIs
  <2>2. EmitIn(s, "OpReturn", <<>>).instructions = s.instructions \o Make("OpReturn", <<>>)
    BY DEF EmitIn
  <2>3. QED BY ONLY <1>4, <2>1, <2>2, ConcatProperties
<1>5. QED BY <1>1, <1>3, <1>4 DEF Returning

-----------------------------------------------------------------------------
(* The steps inside one function.                                          *)

\* The tasks of t can take the place of the first task of c.
Placed(c, t, code) ==
    /\ t \in Seq(Tasks)
    /\ \A i \in 1..Len(t) :
          /\ t[i].do # "FunctionEnd" /\ Pending(t[i], code)
          /\ Computes(t[i]) => IF i < Len(t) THEN Emits(t[i + 1]) ELSE Computes(c[1])

\* What comes next emits an instruction, or the last one can be taken back.
Resumes(c, t, scope) ==
    \/ t # <<>> /\ Emits(t[1])
    \/ t = <<>> /\ Computes(c[1])
    \/ /\ Ready(scope)
       /\ \A i \in 1..Len(t) : Later(t[i], scope.instructions)
       /\ \A i \in 2..Len(c) : Depth(c, i) = Depth(c, 0) => Later(c[i], scope.instructions)

LEMMA DepthBounds ==
    ASSUME NEW c, NEW open, Sound(c, open), NEW i \in 1..Len(c)
    PROVE  Depth(c, i) \in 1..Len(open)
<1>1. c \in Seq(Tasks) /\ Len(c) \in Nat /\ Depth(c, 0) = Len(open) /\ Len(open) \in Nat
  BY DEF Sound
<1>2. i \in Nat /\ 0 <= i
  BY <1>1
<1>3. Depth(c, i) <= Depth(c, 0)
  BY <1>1, <1>2, DepthFalls
<1>4. Depth(c, i) \in Nat \ {0}
  BY <1>1, <1>2, EndsFinite
<1>5. QED BY <1>1, <1>3, <1>4

LEMMA SoundWrite ==
    ASSUME NEW c, NEW open, Sound(c, open), c # <<>>, c[1].do # "FunctionEnd",
           NEW scope, ScopeFits(scope),
           NEW t, Placed(c, t, scope.instructions), Resumes(c, t, scope),
           \A i \in 2..Len(c) : Depth(c, i) = Depth(c, 0) => Pending(c[i], scope.instructions),
           NEW s, s = t \o Tail(c), NEW opened, opened = [open EXCEPT ![Len(open)] = scope]
    PROVE  Sound(s, opened)
<1>1. PICK n, m, d : n = Len(t) /\ m = Len(c) /\ d = Len(open)
  OBVIOUS
<1>2. /\ c \in Seq(Tasks) /\ Followed(c) /\ open \in Seq(ScopeType) /\ d \in Nat \ {0}
      /\ Depth(c, 0) = d
      /\ \A k \in 1..d : ScopeFits(open[k])
      /\ \A i \in 1..m : Pending(c[i], open[Depth(c, i)].instructions)
  BY <1>1 DEF Sound
<1>3. /\ t \in Seq(Tasks)
      /\ \A i \in 1..n :
            /\ t[i].do # "FunctionEnd" /\ Pending(t[i], scope.instructions)
            /\ Computes(t[i]) => IF i < n THEN Emits(t[i + 1]) ELSE Computes(c[1])
  BY <1>1 DEF Placed
<1>4. /\ s \in Seq(Tasks) /\ n \in Nat /\ m \in Nat \ {0} /\ Len(s) = n + m - 1
      /\ \A i \in 1..n : s[i] = t[i]
      /\ \A i \in 2..m : s[n + i - 1] = c[i]
      /\ \A j \in 1..Len(s) : j \in 1..n \/ j - n + 1 \in 2..m
  <2>1. /\ s \in Seq(Tasks) /\ Len(t) \in Nat /\ Len(c) \in Nat \ {0}
        /\ Len(s) = Len(t) + Len(c) - 1
        /\ \A i \in 1..Len(t) : s[i] = t[i]
        /\ \A i \in 2..Len(c) : s[Len(t) + i - 1] = c[i]
        /\ \A j \in 1..Len(s) : j \in 1..Len(t) \/ j - Len(t) + 1 \in 2..Len(c)
    <3>1. c \in Seq(Tasks) /\ t \in Seq(Tasks) /\ c # <<>> /\ s = t \o Tail(c)
      BY <1>2, <1>3
    <3>2. QED BY ONLY <3>1, Replaced
  <2>2. QED BY ONLY <1>1, <2>1
<1>5. /\ Depth(s, 0) = d
      /\ \A i \in 1..n : Depth(s, i) = d
      /\ \A i \in 2..m : Depth(s, n + i - 1) = Depth(c, i)
  <2>1. EndsNone(t)
    BY <1>1, <1>3 DEF EndsNone
  <2>2. /\ Depth(s, 0) = Depth(c, 0)
        /\ \A i \in 1..Len(t) : Depth(s, i) = Depth(c, 0)
        /\ \A i \in 2..Len(c) : Depth(s, Len(t) + i - 1) = Depth(c, i)
    <3>1. c \in Seq(Tasks) /\ t \in Seq(Tasks) /\ c # <<>> /\ s = t \o Tail(c)
          /\ c[1].do # "FunctionEnd"
      BY <1>2, <1>3
    <3>2. \A k \in 0..Len(t) : Depth(s, k) = Depth(c, 0)
      BY ONLY <2>1, <3>1, DepthsReplaced
    <3>3. \A i \in 1..Len(c) : Depth(s, Len(t) + i - 1) = Depth(c, i)
      BY ONLY <3>1, DepthKept
    <3>4. /\ 0 \in 0..Len(t) /\ \A i \in 1..Len(t) : i \in 0..Len(t)
          /\ \A i \in 2..Len(c) : i \in 1..Len(c)
      BY <3>1
    <3>5. QED BY ONLY <3>2, <3>3, <3>4
  <2>3. QED BY <1>1, <1>2, <2>2
<1>6. ASSUME NEW j \in 1..Len(s)
      PROVE  \/ j \in 1..n /\ s[j] = t[j] /\ Depth(s, j) = d
             \/ \E i \in 2..m : /\ j = n + i - 1 /\ s[j] = c[i] /\ Depth(s, j) = Depth(c, i)
                                /\ Depth(c, i) \in 1..d
  <2>1. CASE j \in 1..n
    BY <1>4, <1>5, <2>1
  <2>2. CASE j \notin 1..n
    <3>1. PICK i : i = j - n + 1 /\ i \in 2..m
      BY <1>4, <2>2
    <3>2. j = n + i - 1 /\ i \in 1..m
      BY <1>4, <3>1
    <3>3. s[j] = c[i] /\ Depth(s, j) = Depth(c, i)
      BY <1>4, <1>5, <3>1, <3>2
    <3>4. Depth(c, i) \in 1..d
      BY <1>1, <3>2, DepthBounds
    <3>5. QED BY <3>1, <3>2, <3>3, <3>4
  <2>3. QED BY <2>1, <2>2
<1>7. /\ opened \in Seq(ScopeType) /\ Len(opened) = d /\ opened[d] = scope
      /\ \A k \in 1..d : k # d => opened[k] = open[k]
  <2>1. d \in 1..Len(open) /\ scope \in ScopeType /\ Len(open) = d
    BY <1>1, <1>2 DEF ScopeFits
  <2>2. opened = [open EXCEPT ![d] = scope]
    BY <1>1
  <2>3. opened \in Seq(ScopeType) /\ Len(opened) = Len(open)
        /\ \A k \in 1..Len(open) : opened[k] = IF k = d THEN scope ELSE open[k]
    BY ONLY <1>2, <2>1, <2>2, ExceptSeq
  <2>4. QED BY ONLY <2>1, <2>3, <1>2
<1>8. \A k \in 1..d : ScopeFits(opened[k])
  BY <1>2, <1>7
<1>9. ASSUME NEW j \in 1..Len(s)
      PROVE  Pending(s[j], opened[Depth(s, j)].instructions)
  <2>1. CASE j \in 1..n /\ s[j] = t[j] /\ Depth(s, j) = d
    BY <1>3, <1>7, <2>1
  <2>2. ASSUME NEW i \in 2..m, s[j] = c[i], Depth(s, j) = Depth(c, i), Depth(c, i) \in 1..d
        PROVE  Pending(s[j], opened[Depth(s, j)].instructions)
    <3>1. CASE Depth(c, i) = d
      <4>1. Pending(c[i], scope.instructions)
        BY <1>1, <1>2, <3>1
      <4>2. QED BY <1>7, <2>2, <3>1, <4>1
    <3>2. CASE Depth(c, i) # d
      <4>1. i \in 1..m /\ opened[Depth(c, i)] = open[Depth(c, i)]
        BY <1>4, <1>7, <2>2, <3>2
      <4>2. QED BY <1>2, <2>2, <4>1
    <3>3. QED BY <3>1, <3>2
  <2>3. QED BY <1>6, <2>1, <2>2
<1>10. Computes(c[1]) => m > 1 /\ Emits(c[2])
  <2>1. 1 \in 1..Len(c) /\ 1 + 1 = 2
    BY <1>1, <1>4
  <2>2. QED BY <1>1, <1>2, <2>1 DEF Followed
<1>11. Followed(s)
  <2>1. SUFFICES ASSUME NEW j \in 1..Len(s), Computes(s[j])
                 PROVE  j < Len(s) /\ Emits(s[j + 1])
    BY DEF Followed
  <2>2. CASE j \in 1..n /\ s[j] = t[j]
    <3>1. CASE j < n
      <4>1. Emits(t[j + 1]) /\ j + 1 \in 1..n
        BY <1>3, <1>4, <2>1, <2>2, <3>1
      <4>2. s[j + 1] = t[j + 1]
        BY ONLY <1>4, <4>1
      <4>3. QED BY ONLY <1>4, <2>1, <3>1, <4>1, <4>2
    <3>2. CASE j = n
      <4>1. Computes(c[1])
        BY <1>3, <2>1, <2>2, <3>2
      <4>2. m > 1 /\ Emits(c[2]) /\ 2 \in 2..m
        BY <1>4, <1>10, <4>1
      <4>3. s[n + 2 - 1] = c[2] /\ n + 2 - 1 = n + 1
        BY ONLY <1>4, <4>2
      <4>4. QED BY ONLY <1>4, <3>2, <4>2, <4>3
    <3>3. j < n \/ j = n
      BY <1>4, <2>2
    <3>4. QED BY <3>1, <3>2, <3>3
  <2>3. ASSUME NEW i \in 2..m, j = n + i - 1, s[j] = c[i]
        PROVE  j < Len(s) /\ Emits(s[j + 1])
    <3>1. i < m /\ Emits(c[i + 1])
      <4>1. i \in 1..Len(c)
        BY <1>1, <1>4
      <4>2. QED BY <1>1, <1>2, <2>1, <2>3, <4>1 DEF Followed
    <3>2. i + 1 \in 2..m /\ n + (i + 1) - 1 = j + 1
      BY <1>4, <2>3, <3>1
    <3>3. s[j + 1] = c[i + 1]
      BY <1>4, <3>2
    <3>4. QED BY ONLY <1>4, <2>3, <3>1, <3>3
  <2>4. QED BY <1>6, <2>2, <2>3
<1>12. Settled(s, scope)
  <2>1. CASE t # <<>> /\ Emits(t[1])
    <3>1. 1 \in 1..n
      BY <1>1, <1>3, <2>1, EmptySeq
    <3>2. s[1] = t[1]
      BY <1>4, <3>1
    <3>3. QED BY <2>1, <3>2 DEF Settled
  <2>2. CASE t = <<>> /\ Computes(c[1])
    <3>1. n = 0 /\ m > 1 /\ Emits(c[2])
      BY <1>1, <1>10, <2>2
    <3>2. 2 \in 2..m /\ n + 2 - 1 = 1
      BY <1>4, <3>1
    <3>3. s[1] = c[2]
      BY <1>4, <3>2
    <3>4. QED BY <3>1, <3>3 DEF Settled
  <2>3. CASE /\ Ready(scope)
             /\ \A i \in 1..n : Later(t[i], scope.instructions)
             /\ \A i \in 2..m : Depth(c, i) = d => Later(c[i], scope.instructions)
    <3>1. ASSUME NEW j \in 1..Len(s), Depth(s, j) = Depth(s, 0)
          PROVE  Later(s[j], scope.instructions)
      BY <1>5, <1>6, <2>3, <3>1
    <3>2. QED BY <2>3, <3>1 DEF Settled
  <2>4. QED BY <1>1, <1>2, <2>1, <2>2, <2>3 DEF Resumes
<1>13. QED BY <1>2, <1>4, <1>5, <1>7, <1>8, <1>9, <1>11, <1>12 DEF Sound

\* What Sound says of the function being compiled.
LEMMA TopSound ==
    ASSUME NEW c, NEW open, Sound(c, open), c # <<>>, NEW top, top = open[Len(open)]
    PROVE  /\ ScopeFits(top) /\ Settled(c, top) /\ c \in Seq(Tasks) /\ c[1] \in Tasks
           /\ c[1].do # "FunctionEnd" => Pending(c[1], top.instructions)
           /\ \A i \in 2..Len(c) : Depth(c, i) = Depth(c, 0) => Pending(c[i], top.instructions)
           /\ Len(c) \in Nat \ {0} /\ Head(c) = c[1]
<1>1. /\ c \in Seq(Tasks) /\ Len(open) \in Nat \ {0} /\ Depth(c, 0) = Len(open)
      /\ \A k \in 1..Len(open) : ScopeFits(open[k])
      /\ \A i \in 1..Len(c) : Pending(c[i], open[Depth(c, i)].instructions)
      /\ Settled(c, open[Len(open)])
  BY DEF Sound
<1>2. Len(c) \in Nat \ {0} /\ c[1] \in Tasks /\ Head(c) = c[1]
  BY <1>1, EmptySeq
<1>3. \A i \in 2..Len(c) : Depth(c, i) = Depth(c, 0) => Pending(c[i], top.instructions)
  <2>1. \A i \in 2..Len(c) : i \in 1..Len(c)
    BY <1>2
  <2>2. QED BY ONLY <1>1, <2>1, top = open[Len(open)]
<1>4. c[1].do # "FunctionEnd" => Pending(c[1], top.instructions)
  <2>1. SUFFICES ASSUME c[1].do # "FunctionEnd" PROVE Pending(c[1], top.instructions)
    OBVIOUS
  <2>2. 1 \in 1..Len(c)
    BY <1>2
  <2>3. Depth(c, 1 - 1) = Depth(c, 1)
    BY <1>1, <2>1, <2>2, DepthStep
  <2>4. Depth(c, 1) = Len(open)
    BY <1>1, <2>3
  <2>5. QED BY <1>1, <2>2, <2>4
<1>5. ScopeFits(top)
  <2>1. Len(open) \in 1..Len(open)
    BY <1>1
  <2>2. QED BY <1>1, <2>1
<1>6. QED BY <1>1, <1>2, <1>3, <1>4, <1>5

\* The plan of work changes, but no code.
LEMMA SoundUnfold ==
    ASSUME NEW c, NEW open, Sound(c, open), c # <<>>, c[1].do # "FunctionEnd",
           NEW t, Placed(c, t, open[Len(open)].instructions),
           Emits(c[1]) => t # <<>>,
           \/ t # <<>> /\ Emits(t[1])
           \/ ~Emits(c[1]) /\ \A i \in 1..Len(t) : t[i].do \notin {"WhileBody", "WhileEnd"},
           NEW s, s = t \o Tail(c)
    PROVE  Sound(s, open)
<1>1. PICK top : top = open[Len(open)]
  OBVIOUS
<1>2. /\ ScopeFits(top) /\ Settled(c, top) /\ Len(c) \in Nat \ {0}
      /\ \A i \in 2..Len(c) : Depth(c, i) = Depth(c, 0) => Pending(c[i], top.instructions)
  BY <1>1, TopSound
<1>3. open = [open EXCEPT ![Len(open)] = top]
  BY <1>1 DEF Sound
<1>4. Resumes(c, t, top)
  <2>1. CASE t # <<>> /\ Emits(t[1])
    BY <2>1 DEF Resumes
  <2>2. CASE ~Emits(c[1]) /\ \A i \in 1..Len(t) : t[i].do \notin {"WhileBody", "WhileEnd"}
    <3>1. Ready(top) /\ \A i \in 1..Len(c) : Depth(c, i) = Depth(c, 0) => Later(c[i], top.instructions)
      BY <1>2, <2>2 DEF Settled
    <3>2. \A i \in 1..Len(t) : Later(t[i], top.instructions)
      BY <2>2 DEF Later
    <3>3. \A i \in 2..Len(c) : i \in 1..Len(c)
      BY <1>2
    <3>4. QED BY ONLY <3>1, <3>2, <3>3 DEF Resumes
  <2>3. QED BY <2>1, <2>2
<1>5. Placed(c, t, top.instructions)
  BY <1>1
<1>6. QED BY <1>2, <1>3, <1>4, <1>5, SoundWrite

-----------------------------------------------------------------------------
(* A function begins, and ends.                                            *)

LEMMA SoundOpened ==
    ASSUME NEW c, NEW open, Sound(c, open), c # <<>>, c[1].do # "FunctionEnd",
           NEW t \in Seq(Tasks), Len(t) = 2, t[1].do = "Compile", ~Computes(t[1]),
           t[2].do = "FunctionEnd",
           NEW s, s = t \o Tail(c), NEW opened, opened = Append(open, EmptyScope)
    PROVE  Sound(s, opened) /\ Len(opened) = Len(open) + 1
<1>1. PICK m, d : m = Len(c) /\ d = Len(open)
  OBVIOUS
<1>2. /\ c \in Seq(Tasks) /\ Followed(c) /\ open \in Seq(ScopeType) /\ d \in Nat \ {0}
      /\ Depth(c, 0) = d
      /\ \A k \in 1..d : ScopeFits(open[k])
      /\ \A i \in 1..m : Pending(c[i], open[Depth(c, i)].instructions)
  BY <1>1 DEF Sound
<1>4. /\ s \in Seq(Tasks) /\ m \in Nat \ {0} /\ Len(s) = m + 1
      /\ s[1] = t[1] /\ s[2] = t[2]
      /\ \A i \in 2..m : s[i + 1] = c[i]
  <2>1. PICK n : n = Len(t) /\ n = 2
    OBVIOUS
  <2>2. /\ s \in Seq(Tasks) /\ Len(c) \in Nat \ {0} /\ Len(s) = n + Len(c) - 1
        /\ \A i \in 1..n : s[i] = t[i]
        /\ \A i \in 2..Len(c) : s[n + i - 1] = c[i]
    <3>1. /\ s \in Seq(Tasks) /\ Len(c) \in Nat \ {0} /\ Len(s) = Len(t) + Len(c) - 1
          /\ \A i \in 1..Len(t) : s[i] = t[i]
          /\ \A i \in 2..Len(c) : s[Len(t) + i - 1] = c[i]
      BY ONLY <1>2, t \in Seq(Tasks), c # <<>>, s = t \o Tail(c), Replaced
    <3>2. QED BY ONLY <2>1, <3>1
  <2>3. \A i \in 2..m : 2 + i - 1 = i + 1
    BY <1>1, <2>2
  <2>4. QED BY ONLY <1>1, <2>1, <2>2, <2>3
<1>5. \A i \in 1..m : Depth(s, i + 1) = Depth(c, i)
  <2>1. ASSUME NEW i \in 1..Len(c) PROVE Depth(s, i + 1) = Depth(c, i)
    <3>1. Depth(s, Len(t) + i - 1) = Depth(c, i)
      BY ONLY <1>2, c # <<>>, t \in Seq(Tasks), s = t \o Tail(c), i \in 1..Len(c), DepthKept, ZenonT(30)
    <3>2. Len(t) + i - 1 = i + 1
      OBVIOUS
    <3>3. QED BY ONLY <3>1, <3>2
  <2>2. QED BY ONLY <1>1, <2>1
<1>6. Depth(c, 1) = d
  <2>1. 1 \in 1..Len(c)
    BY <1>1, <1>4
  <2>2. Depth(c, 1 - 1) = Depth(c, 1)
    BY <1>2, <2>1, DepthStep
  <2>3. QED BY <1>2, <2>2
<1>7. Depth(s, 2) = d
  <2>1. 1 \in 1..m /\ 1 + 1 = 2
    BY <1>4
  <2>2. QED BY <1>5, <1>6, <2>1
<1>8. Depth(s, 1) = d + 1
  <2>1. 2 \in 1..Len(s) /\ s[2].do = "FunctionEnd"
    BY <1>4, SMTT(30)
  <2>2. Depth(s, 2 - 1) = Depth(s, 2) + 1
    BY <1>4, <2>1, DepthStep
  <2>3. QED BY <1>7, <2>2
<1>9. Depth(s, 0) = d + 1
  <2>1. 1 \in 1..Len(s) /\ s[1].do # "FunctionEnd"
    BY <1>4
  <2>2. Depth(s, 1 - 1) = Depth(s, 1)
    BY <1>4, <2>1, DepthStep
  <2>3. QED BY <1>8, <2>2
<1>10. ASSUME NEW i \in 2..m
       PROVE  Depth(s, i + 1) = Depth(c, i) /\ Depth(c, i) \in 1..d
  <2>1. i \in 1..Len(c) /\ i \in 1..m
    BY <1>1, <1>4
  <2>2. QED BY <1>1, <1>5, <2>1, DepthBounds
<1>11. /\ opened \in Seq(ScopeType) /\ Len(opened) = d + 1 /\ opened[d + 1] = EmptyScope
       /\ \A k \in 1..d : opened[k] = open[k]
  <2>1. EmptyScope \in ScopeType
    BY EmptyScopeFits DEF ScopeFits
  <2>2. QED BY ONLY <1>1, <1>2, <2>1, opened = Append(open, EmptyScope), AppendProperties
<1>12. ASSUME NEW j \in 1..Len(s)
       PROVE  j = 1 \/ j = 2 \/ \E i \in 2..m : j = i + 1 /\ s[j] = c[i]
  <2>1. CASE j \in 1..2
    BY <2>1
  <2>2. CASE j \notin 1..2
    <3>1. j - 1 \in 2..m /\ j = (j - 1) + 1
      BY <1>4, <2>2
    <3>2. s[j] = c[j - 1]
      BY <1>4, <3>1
    <3>3. QED BY <3>1, <3>2
  <2>3. QED BY <2>1, <2>2
<1>13. \A k \in 1..d + 1 : ScopeFits(opened[k])
  <2>1. SUFFICES ASSUME NEW k \in 1..d + 1 PROVE ScopeFits(opened[k])
    OBVIOUS
  <2>2. CASE k = d + 1
    BY <1>11, <2>2, EmptyScopeFits
  <2>3. CASE k # d + 1
    <3>1. k \in 1..d
      BY <1>2, <2>3
    <3>2. QED BY <1>2, <1>11, <3>1
  <2>4. QED BY <2>2, <2>3
<1>14. ASSUME NEW j \in 1..Len(s)
       PROVE  Pending(s[j], opened[Depth(s, j)].instructions)
  <2>1. CASE j = 1 \/ j = 2
    <3>1. s[j].do \in {"Compile", "FunctionEnd"}
      BY <1>4, <2>1
    <3>2. QED BY <3>1 DEF Pending
  <2>2. ASSUME NEW i \in 2..m, j = i + 1, s[j] = c[i]
        PROVE  Pending(s[j], opened[Depth(s, j)].instructions)
    <3>1. i \in 1..m
      BY <1>4
    <3>2. Pending(c[i], open[Depth(c, i)].instructions)
      BY <1>2, <3>1
    <3>3. Depth(s, j) = Depth(c, i) /\ opened[Depth(c, i)] = open[Depth(c, i)]
      BY <1>10, <1>11, <2>2
    <3>4. QED BY <2>2, <3>2, <3>3
  <2>3. QED BY <1>12, <2>1, <2>2
<1>15. Followed(s)
  <2>1. SUFFICES ASSUME NEW j \in 1..Len(s), Computes(s[j])
                 PROVE  j < Len(s) /\ Emits(s[j + 1])
    BY DEF Followed
  <2>2. j # 1
    BY <1>4, <2>1
  <2>3. j # 2
    BY <1>4, <2>1 DEF Computes, CompilesExpression
  <2>4. PICK i \in 2..m : j = i + 1 /\ s[j] = c[i]
    BY <1>12, <2>2, <2>3
  <2>5. i < m /\ Emits(c[i + 1])
    <3>1. i \in 1..Len(c)
      BY <1>1, <1>4
    <3>2. QED BY <1>1, <1>2, <2>1, <2>4, <3>1 DEF Followed
  <2>6. i + 1 \in 2..m /\ (i + 1) + 1 = j + 1
    BY <1>4, <2>4, <2>5, SMTT(30)
  <2>7. s[j + 1] = c[i + 1]
    BY <1>4, <2>6
  <2>8. QED BY ONLY <1>4, <2>4, <2>5, <2>7
<1>16. Settled(s, EmptyScope)
  <2>1. ASSUME NEW j \in 1..Len(s), Depth(s, j) = Depth(s, 0)
        PROVE  Later(s[j], EmptyScope.instructions)
    <3>1. j = 1
      <4>1. j # 2
        BY <1>2, <1>7, <1>9, <2>1
      <4>2. ASSUME NEW i \in 2..m, j = i + 1 PROVE FALSE
        BY <1>2, <1>9, <1>10, <2>1, <4>2
      <4>3. QED BY <1>12, <4>1, <4>2
    <3>2. QED BY <1>4, <3>1 DEF Later
  <2>2. QED BY <2>1, EmptyScopeFits DEF Settled
<1>17. Sound(s, opened)
  <2>1. d + 1 \in Nat \ {0}
    BY <1>2
  <2>2. QED BY <2>1, <1>4, <1>9, <1>11, <1>13, <1>14, <1>15, <1>16 DEF Sound
<1>18. QED BY <1>1, <1>11, <1>17

LEMMA SoundClosed ==
    ASSUME NEW c, NEW open, Sound(c, open), c # <<>>, c[1].do = "FunctionEnd",
           NEW t \in Seq(Tasks), t # <<>>, \A i \in 1..Len(t) : t[i].do \in {"Emit", "Constant"},
           NEW s, s = t \o Tail(c), NEW closed, closed = Front(open)
    PROVE  Sound(s, closed)
<1>1. PICK n, m, d : n = Len(t) /\ m = Len(c) /\ d = Len(open)
  OBVIOUS
<1>2. /\ c \in Seq(Tasks) /\ Followed(c) /\ open \in Seq(ScopeType) /\ d \in Nat \ {0}
      /\ Depth(c, 0) = d
      /\ \A k \in 1..d : ScopeFits(open[k])
      /\ \A i \in 1..m : Pending(c[i], open[Depth(c, i)].instructions)
  BY <1>1 DEF Sound
<1>4. /\ s \in Seq(Tasks) /\ n \in Nat /\ m \in Nat \ {0} /\ Len(s) = n + m - 1
      /\ \A i \in 1..n : s[i] = t[i]
      /\ \A i \in 2..m : s[n + i - 1] = c[i]
      /\ \A j \in 1..Len(s) : j \in 1..n \/ j - n + 1 \in 2..m
  <2>1. /\ s \in Seq(Tasks) /\ Len(t) \in Nat /\ Len(c) \in Nat \ {0}
        /\ Len(s) = Len(t) + Len(c) - 1
        /\ \A i \in 1..Len(t) : s[i] = t[i]
        /\ \A i \in 2..Len(c) : s[Len(t) + i - 1] = c[i]
        /\ \A j \in 1..Len(s) : j \in 1..Len(t) \/ j - Len(t) + 1 \in 2..Len(c)
    BY ONLY <1>2, t \in Seq(Tasks), c # <<>>, s = t \o Tail(c), Replaced
  <2>2. QED BY ONLY <1>1, <2>1
<1>5. n > 0 /\ \A i \in 1..n : t[i].do \in {"Emit", "Constant"}
  BY <1>1, <1>4, EmptySeq
<1>6. Depth(c, 1) = d - 1 /\ d - 1 \in Nat \ {0}
  <2>1. 1 \in 1..Len(c) /\ 1 \in Nat
    BY <1>1, <1>4
  <2>2. Depth(c, 1 - 1) = Depth(c, 1) + 1
    BY <1>2, <2>1, DepthStep
  <2>3. Depth(c, 1) \in Nat \ {0}
    BY <1>2, <2>1, EndsFinite
  <2>4. QED BY <1>2, <2>2, <2>3
<1>7. \A i \in 1..m : Depth(s, n + i - 1) = Depth(c, i)
  <2>1. \A i \in 1..Len(c) : Depth(s, Len(t) + i - 1) = Depth(c, i)
    BY ONLY <1>2, t \in Seq(Tasks), c # <<>>, s = t \o Tail(c), DepthKept, ZenonT(30)
  <2>2. QED BY ONLY <1>1, <2>1
<1>8. \A k \in 0..n : Depth(s, k) = d - 1
  <2>1. Depth(s, n) = d - 1
    <3>1. 1 \in 1..m /\ n + 1 - 1 = n
      BY <1>4
    <3>2. QED BY <1>6, <1>7, <3>1
  <2>2. \A j \in 1..n : s[j].do # "FunctionEnd"
    BY <1>4, <1>5
  <2>3. n <= Len(s) /\ Len(s) \in Nat /\ n \in Nat
    BY <1>4
  <2>4. \A k \in 0..n : Depth(s, k) = Depth(s, n)
    BY ONLY <2>2, <2>3, DepthSame
  <2>5. QED BY <2>1, <2>4
<1>9. ASSUME NEW i \in 2..m
      PROVE  Depth(s, n + i - 1) = Depth(c, i) /\ Depth(c, i) \in 1..d - 1
  <2>1. i \in 1..m /\ i \in Nat /\ 1 \in Nat /\ 1 <= i
    BY <1>4
  <2>2. Depth(s, n + i - 1) = Depth(c, i)
    BY <1>7, <2>1
  <2>3. Depth(c, i) <= Depth(c, 1)
    BY <1>2, <2>1, DepthFalls
  <2>4. Depth(c, i) \in Nat \ {0}
    BY <1>2, <2>1, EndsFinite
  <2>5. QED BY <1>6, <2>2, <2>3, <2>4
<1>11. /\ closed \in Seq(ScopeType) /\ Len(closed) = d - 1
       /\ \A k \in 1..d - 1 : closed[k] = open[k]
  <2>1. closed = SubSeq(open, 1, d - 1)
    BY <1>1 DEF Front
  <2>2. 1 \in 1..(Len(open) + 1) /\ d - 1 \in (1 - 1)..Len(open) /\ d - 1 \in Nat
    BY <1>1, <1>2, <1>6
  <2>3. QED BY ONLY <1>2, <2>1, <2>2, SubSeqProperties
<1>12. ASSUME NEW j \in 1..Len(s)
       PROVE  \/ j \in 1..n /\ s[j] = t[j]
              \/ \E i \in 2..m : j = n + i - 1 /\ s[j] = c[i]
  <2>1. CASE j \in 1..n
    BY <1>4, <2>1
  <2>2. CASE j \notin 1..n
    <3>1. PICK i : i = j - n + 1 /\ i \in 2..m
      BY <1>4, <2>2
    <3>2. j = n + i - 1
      BY <1>4, <3>1
    <3>3. QED BY <1>4, <3>1, <3>2, SMTT(30)
  <2>3. QED BY <2>1, <2>2
<1>13. \A k \in 1..d - 1 : ScopeFits(closed[k])
  <2>1. \A k \in 1..d - 1 : k \in 1..d
    BY <1>2
  <2>2. QED BY <1>2, <1>11, <2>1
<1>14. ASSUME NEW j \in 1..Len(s)
       PROVE  Pending(s[j], closed[Depth(s, j)].instructions)
  <2>1. CASE j \in 1..n /\ s[j] = t[j]
    <3>1. s[j].do \in {"Emit", "Constant"}
      BY <1>5, <2>1
    <3>2. QED BY <3>1 DEF Pending
  <2>2. ASSUME NEW i \in 2..m, j = n + i - 1, s[j] = c[i]
        PROVE  Pending(s[j], closed[Depth(s, j)].instructions)
    <3>1. i \in 1..m
      BY <1>4
    <3>2. Pending(c[i], open[Depth(c, i)].instructions)
      BY <1>2, <3>1
    <3>3. Depth(s, j) = Depth(c, i) /\ closed[Depth(c, i)] = open[Depth(c, i)]
      BY <1>9, <1>11, <2>2
    <3>4. QED BY <2>2, <3>2, <3>3
  <2>3. QED BY <1>12, <2>1, <2>2
<1>15. Followed(s)
  <2>1. SUFFICES ASSUME NEW j \in 1..Len(s), Computes(s[j])
                 PROVE  j < Len(s) /\ Emits(s[j + 1])
    BY DEF Followed
  <2>2. ~(j \in 1..n /\ s[j] = t[j])
    BY <1>5, <2>1 DEF Computes, CompilesExpression
  <2>4. PICK i \in 2..m : j = n + i - 1 /\ s[j] = c[i]
    BY <1>12, <2>2
  <2>5. i < m /\ Emits(c[i + 1])
    <3>1. i \in 1..Len(c)
      BY <1>1, <1>4
    <3>2. QED BY <1>1, <1>2, <2>1, <2>4, <3>1 DEF Followed
  <2>6. i + 1 \in 2..m /\ n + (i + 1) - 1 = j + 1
    <3>1. i \in Int /\ n \in Int /\ m \in Int
      BY ONLY <1>4, i \in 2..m
    <3>2. QED BY ONLY <2>4, <2>5, <3>1, i \in 2..m
  <2>7. s[j + 1] = c[i + 1]
    BY <1>4, <2>6
  <2>8. QED BY ONLY <1>4, <2>4, <2>5, <2>7
<1>16. Settled(s, closed[d - 1])
  <2>1. 1 \in 1..n
    BY <1>4, <1>5
  <2>2. s[1].do \in {"Emit", "Constant"}
    BY <1>4, <1>5, <2>1
  <2>3. QED BY <2>2 DEF Settled, Emits
<1>17. Sound(s, closed)
  <2>1. Depth(s, 0) = d - 1
    BY <1>4, <1>8
  <2>2. QED BY <2>1, <1>4, <1>6, <1>11, <1>13, <1>14, <1>15, <1>16 DEF Sound
<1>18. QED BY <1>1, <1>11, <1>17

-----------------------------------------------------------------------------
(* Imports.                                                                *)

Replaces(c, t, s) ==
    c \in Seq(Tasks) /\ c # <<>> /\ t \in Seq(Tasks) /\ s = t \o Tail(c)

ImportsNone(t) == \A i \in 1..Len(t) : t[i].do # "ImportEnd"

\* The imports behind a place stay behind it.
LEMMA ImportsKept ==
    ASSUME NEW c, NEW t, NEW s, Replaces(c, t, s),
           NEW i \in 1..Len(c), NEW j \in ImportsBehind(c, i)
    PROVE  Len(t) + j - 1 \in ImportsBehind(s, Len(t) + i - 1) /\ s[Len(t) + j - 1] = c[j]
<1>1. PICK n, m : n = Len(t) /\ m = Len(c)
  OBVIOUS
<1>2. /\ n \in Nat /\ m \in Nat \ {0} /\ Len(s) = n + m - 1
      /\ \A k \in 2..m : s[n + k - 1] = c[k]
  BY <1>1, Replaced DEF Replaces
<1>3. j \in i + 1..m /\ i \in 1..m /\ c[j].do = "ImportEnd"
  BY <1>1 DEF ImportsBehind
<1>4. j \in 2..m /\ n + j - 1 \in n + i - 1 + 1..n + m - 1
  BY ONLY <1>2, <1>3
<1>5. s[n + j - 1] = c[j]
  BY <1>2, <1>4
<1>6. n + j - 1 \in ImportsBehind(s, n + i - 1)
  BY ONLY <1>2, <1>3, <1>4, <1>5 DEF ImportsBehind
<1>7. QED BY <1>1, <1>5, <1>6

\* And there are no others.
LEMMA ImportsSame ==
    ASSUME NEW c, NEW t, NEW s, Replaces(c, t, s),
           NEW i \in 1..Len(c), NEW p, p = Len(t) + i - 1, NEW k \in ImportsBehind(s, p)
    PROVE  \E j \in ImportsBehind(c, i) : k = Len(t) + j - 1 /\ s[k] = c[j]
<1>1. PICK n, m : n = Len(t) /\ m = Len(c)
  OBVIOUS
<1>2. /\ n \in Nat /\ m \in Nat \ {0} /\ Len(s) = n + m - 1
      /\ \A j \in 2..m : s[n + j - 1] = c[j]
  BY <1>1, Replaced DEF Replaces
<1>3. k \in n + i - 1 + 1..n + m - 1 /\ i \in 1..m /\ s[k].do = "ImportEnd"
  BY ONLY <1>1, <1>2, i \in 1..Len(c), p = Len(t) + i - 1, k \in ImportsBehind(s, p) DEF ImportsBehind
<1>4. PICK j : j = k - n + 1
  OBVIOUS
<1>5. j \in 2..m /\ j \in i + 1..m /\ k = n + j - 1
  BY ONLY <1>2, <1>3, <1>4
<1>6. s[k] = c[j]
  BY <1>2, <1>5
<1>7. j \in ImportsBehind(c, i)
  BY ONLY <1>1, <1>3, <1>5, <1>6 DEF ImportsBehind
<1>8. QED BY <1>1, <1>5, <1>6, <1>7

LEMMA DirKept ==
    ASSUME NEW c, NEW t, NEW s, Replaces(c, t, s),
           NEW i \in 1..Len(c), NEW dir, RightDir(c, i, dir)
    PROVE  RightDir(s, Len(t) + i - 1, dir)
<1>1. PICK n, p : n = Len(t) /\ n \in Nat /\ p = Len(t) + i - 1
  BY SMTT(30) DEF Replaces
<1>2. /\ \A j \in ImportsBehind(c, i) : n + j - 1 \in ImportsBehind(s, p) /\ s[n + j - 1] = c[j]
      /\ \A k \in ImportsBehind(s, p) :
            \E j \in ImportsBehind(c, i) : k = n + j - 1 /\ s[k] = c[j]
  <2>1. \A j \in ImportsBehind(c, i) : n + j - 1 \in ImportsBehind(s, p) /\ s[n + j - 1] = c[j]
    BY <1>1, ImportsKept
  <2>2. ASSUME NEW k \in ImportsBehind(s, p)
        PROVE  \E j \in ImportsBehind(c, i) : k = n + j - 1 /\ s[k] = c[j]
    BY <1>1, ImportsSame
  <2>3. QED BY <2>1, <2>2
<1>3. ImportsBehind(c, i) \subseteq Int
  BY DEF ImportsBehind, Replaces
<1>4. ImportsBehind(s, p) = {} => dir = BaseDir
  <2>1. ImportsBehind(s, p) = {} => ImportsBehind(c, i) = {}
    BY <1>2
  <2>2. QED BY <2>1 DEF RightDir
<1>5. ASSUME NEW e \in ImportsBehind(s, p), \A f \in ImportsBehind(s, p) : e <= f
      PROVE  dir = DirOf[s[e].file]
  <2>1. PICK j \in ImportsBehind(c, i) : e = n + j - 1 /\ s[e] = c[j]
    BY <1>2
  <2>2. ASSUME NEW f \in ImportsBehind(c, i) PROVE j <= f
    <3>1. e <= n + f - 1
      BY <1>2, <1>5
    <3>2. QED BY ONLY <1>1, <1>3, <2>1, <3>1, f \in ImportsBehind(c, i)
  <2>3. dir = DirOf[c[j].file]
    BY <2>2 DEF RightDir
  <2>4. QED BY <2>1, <2>3
<1>6. RightDir(s, p, dir)
  BY <1>4, <1>5 DEF RightDir
<1>7. QED BY <1>1, <1>6

LEMMA NoImportHere ==
    ASSUME NEW c \in Seq(Tasks), c # <<>>, c[1].do # "ImportEnd"
    PROVE  ImportsBehind(c, 0) = ImportsBehind(c, 1)
<1>1. \A j \in 1..Len(c) : c[j].do = "ImportEnd" => j # 1
  OBVIOUS
<1>2. Len(c) \in Nat
  OBVIOUS
<1>3. QED BY ONLY <1>1, <1>2 DEF ImportsBehind

\* An import is not among the tasks replaced.
LEMMA ImportsUnmoved ==
    ASSUME NEW c \in Seq(Tasks), c # <<>>, c[1].do # "ImportEnd",
           NEW t \in Seq(Tasks), ImportsNone(t), NEW s, s = t \o Tail(c),
           NEW files, NEW dir, SoundImports(c, files, dir)
    PROVE  SoundImports(s, files, dir)
<1>0. Replaces(c, t, s)
  BY DEF Replaces
<1>1. PICK n : n = Len(t) /\ n \in Nat
  OBVIOUS
<1>2. /\ files \subseteq DOMAIN Files /\ dir \in Directories
      /\ RightDir(c, 0, dir)
      /\ \A e \in ImportsBehind(c, 0) : RightDir(c, e, c[e].dir) /\ c[e].file \in files
      /\ \A e, f \in ImportsBehind(c, 0) : c[e].file = c[f].file => e = f
  BY DEF SoundImports
<1>3. ImportsBehind(c, 0) = ImportsBehind(c, 1) /\ 1 \in 1..Len(c)
  BY NoImportHere, EmptySeq
<1>4. ImportsBehind(s, 0) = ImportsBehind(s, n)
  <2>1. \A j \in 1..n : s[j] = t[j]
    BY <1>1, Replaced
  <2>2. \A j \in 1..n : s[j].do # "ImportEnd"
    BY <1>1, <2>1 DEF ImportsNone
  <2>3. Len(s) \in Nat
    BY Replaced
  <2>4. QED BY ONLY <1>1, <2>2, <2>3 DEF ImportsBehind
<1>5. ASSUME NEW k \in ImportsBehind(s, 0)
      PROVE  \E j \in ImportsBehind(c, 0) : k = n + j - 1 /\ s[k] = c[j] /\ j \in 1..Len(c)
  <2>1. PICK i : i = 1
    OBVIOUS
  <2>2. i \in 1..Len(c) /\ n = Len(t) + i - 1 /\ k \in ImportsBehind(s, n)
    BY <1>1, <1>3, <1>4, <2>1
  <2>3. \E j \in ImportsBehind(c, i) : k = Len(t) + j - 1 /\ s[k] = c[j]
    BY ONLY <1>0, <2>2, ImportsSame
  <2>4. \A j \in ImportsBehind(c, 1) : j \in 1..Len(c)
    BY DEF ImportsBehind
  <2>5. QED BY <1>1, <1>3, <2>1, <2>3, <2>4
<1>6. RightDir(s, 0, dir)
  <2>1. RightDir(c, 1, dir)
    BY <1>2, <1>3 DEF RightDir
  <2>2. RightDir(s, Len(t) + 1 - 1, dir)
    BY <1>0, <1>3, <2>1, DirKept
  <2>3. Len(t) + 1 - 1 = n
    BY <1>1
  <2>4. QED BY <1>4, <2>2, <2>3 DEF RightDir
<1>7. ASSUME NEW e \in ImportsBehind(s, 0)
      PROVE  RightDir(s, e, s[e].dir) /\ s[e].file \in files
  <2>1. PICK j \in ImportsBehind(c, 0) : e = n + j - 1 /\ s[e] = c[j] /\ j \in 1..Len(c)
    BY <1>5
  <2>2. RightDir(c, j, c[j].dir) /\ c[j].file \in files
    BY <1>2
  <2>3. RightDir(s, Len(t) + j - 1, c[j].dir)
    BY <1>0, <2>1, <2>2, DirKept
  <2>4. QED BY <1>1, <2>1, <2>2, <2>3
<1>8. ASSUME NEW e \in ImportsBehind(s, 0), NEW f \in ImportsBehind(s, 0), s[e].file = s[f].file
      PROVE  e = f
  <2>1. PICK j \in ImportsBehind(c, 0) : e = n + j - 1 /\ s[e] = c[j]
    BY <1>5
  <2>2. PICK k \in ImportsBehind(c, 0) : f = n + k - 1 /\ s[f] = c[k]
    BY <1>5
  <2>3. j = k
    BY <1>2, <1>8, <2>1, <2>2
  <2>4. QED BY <2>1, <2>2, <2>3
<1>9. QED BY <1>2, <1>6, <1>7, <1>8 DEF SoundImports

\* A file is opened.
LEMMA ImportOpened ==
    ASSUME NEW c \in Seq(Tasks), c # <<>>, c[1].do # "ImportEnd",
           NEW files, NEW dir, SoundImports(c, files, dir),
           NEW file \in DOMAIN Files, file \notin files,
           NEW t \in Seq(Tasks), Len(t) = 2, t[1].do # "ImportEnd",
           t[2].do = "ImportEnd", t[2].dir = dir, t[2].file = file,
           NEW s, s = t \o Tail(c)
    PROVE  SoundImports(s, files \cup {file}, DirOf[file])
<1>0. Replaces(c, t, s)
  BY DEF Replaces
<1>2. /\ files \subseteq DOMAIN Files /\ dir \in Directories
      /\ RightDir(c, 0, dir)
      /\ \A e \in ImportsBehind(c, 0) : RightDir(c, e, c[e].dir) /\ c[e].file \in files
      /\ \A e, f \in ImportsBehind(c, 0) : c[e].file = c[f].file => e = f
  BY DEF SoundImports
<1>3. ImportsBehind(c, 0) = ImportsBehind(c, 1) /\ 1 \in 1..Len(c)
  BY NoImportHere, EmptySeq
<1>4. s[1] = t[1] /\ s[2] = t[2] /\ Len(s) \in Nat /\ Len(s) >= 2
  <2>1. \A j \in 1..Len(t) : s[j] = t[j]
    BY ONLY c \in Seq(Tasks), c # <<>>, t \in Seq(Tasks), s = t \o Tail(c), Replaced
  <2>2. Len(s) = Len(t) + Len(c) - 1
    BY ONLY c \in Seq(Tasks), c # <<>>, t \in Seq(Tasks), s = t \o Tail(c), Replaced
  <2>3. QED BY <1>3, <2>1, <2>2
<1>5. ImportsBehind(s, 0) = {2} \cup ImportsBehind(s, 2)
  <2>1. 2 \in ImportsBehind(s, 0)
    BY <1>4 DEF ImportsBehind
  <2>2. ASSUME NEW e \in ImportsBehind(s, 0), e # 2 PROVE e \in ImportsBehind(s, 2)
    <3>1. e \in 1..Len(s) /\ s[e].do = "ImportEnd"
      BY DEF ImportsBehind
    <3>2. e # 1
      BY <1>4, <3>1
    <3>3. e \in 2 + 1..Len(s)
      BY <1>4, <2>2, <3>1, <3>2
    <3>4. QED BY ONLY <3>1, <3>3 DEF ImportsBehind
  <2>3. ImportsBehind(s, 2) \subseteq ImportsBehind(s, 0)
    BY <1>4 DEF ImportsBehind
  <2>4. QED BY <2>1, <2>2, <2>3
<1>6. ASSUME NEW k \in ImportsBehind(s, 2)
      PROVE  \E j \in ImportsBehind(c, 0) : k = 2 + j - 1 /\ s[k] = c[j] /\ j \in 1..Len(c)
  <2>1. PICK i, p : i = 1 /\ p = 2
    OBVIOUS
  <2>2. i \in 1..Len(c) /\ p = Len(t) + i - 1 /\ k \in ImportsBehind(s, p)
    BY <1>3, <2>1
  <2>3. \E j \in ImportsBehind(c, i) : k = Len(t) + j - 1 /\ s[k] = c[j]
    BY ONLY <1>0, <2>2, ImportsSame
  <2>4. \A j \in ImportsBehind(c, 1) : j \in 1..Len(c)
    BY DEF ImportsBehind
  <2>5. QED BY <1>3, <2>1, <2>3, <2>4
<1>7. RightDir(s, 2, dir)
  <2>1. RightDir(c, 1, dir)
    BY <1>2, <1>3 DEF RightDir
  <2>2. RightDir(s, Len(t) + 1 - 1, dir)
    BY <1>0, <1>3, <2>1, DirKept
  <2>3. Len(t) + 1 - 1 = 2
    OBVIOUS
  <2>4. QED BY <2>2, <2>3
<1>8. RightDir(s, 0, DirOf[file])
  <2>1. 2 \in ImportsBehind(s, 0)
    BY <1>5
  <2>2. ASSUME NEW e \in ImportsBehind(s, 0), \A f \in ImportsBehind(s, 0) : e <= f
        PROVE  e = 2
    <3>1. e <= 2
      BY <2>1, <2>2
    <3>2. \A f \in ImportsBehind(s, 2) : f \in Int /\ f > 2
      BY <1>4 DEF ImportsBehind
    <3>3. QED BY <1>5, <3>1, <3>2
  <2>3. s[2].file = file
    BY <1>4
  <2>4. QED BY <2>1, <2>2, <2>3 DEF RightDir
<1>9. ASSUME NEW e \in ImportsBehind(s, 0)
      PROVE  RightDir(s, e, s[e].dir) /\ s[e].file \in files \cup {file}
  <2>1. CASE e = 2
    BY <1>4, <1>7, <2>1
  <2>2. CASE e # 2
    <3>1. PICK j \in ImportsBehind(c, 0) : e = 2 + j - 1 /\ s[e] = c[j] /\ j \in 1..Len(c)
      BY <1>5, <1>6, <2>2
    <3>2. RightDir(c, j, c[j].dir) /\ c[j].file \in files
      BY <1>2
    <3>3. RightDir(s, Len(t) + j - 1, c[j].dir)
      BY <1>0, <3>1, <3>2, DirKept
    <3>4. QED BY <3>1, <3>2, <3>3
  <2>3. QED BY <2>1, <2>2
<1>10. ASSUME NEW e \in ImportsBehind(s, 0), NEW f \in ImportsBehind(s, 0), s[e].file = s[f].file
       PROVE  e = f
  <2>1. ASSUME NEW k \in ImportsBehind(s, 0), k # 2
        PROVE  \E j \in ImportsBehind(c, 0) : k = 2 + j - 1 /\ s[k] = c[j] /\ c[j].file # file
    <3>1. PICK j \in ImportsBehind(c, 0) : k = 2 + j - 1 /\ s[k] = c[j]
      BY <1>5, <1>6, <2>1
    <3>2. QED BY <1>2, <3>1
  <2>2. s[2].file = file
    BY <1>4
  <2>3. CASE e = 2 \/ f = 2
    BY <1>10, <2>1, <2>2, <2>3
  <2>4. CASE e # 2 /\ f # 2
    <3>1. PICK j \in ImportsBehind(c, 0) : e = 2 + j - 1 /\ s[e] = c[j]
      BY <2>1, <2>4
    <3>2. PICK k \in ImportsBehind(c, 0) : f = 2 + k - 1 /\ s[f] = c[k]
      BY <2>1, <2>4
    <3>3. j = k
      BY <1>2, <1>10, <3>1, <3>2
    <3>4. QED BY <3>1, <3>2, <3>3
  <2>5. QED BY <2>3, <2>4
<1>11. files \cup {file} \subseteq DOMAIN Files /\ DirOf[file] \in Directories
  BY <1>2 DEF Directories
<1>12. QED BY <1>8, <1>9, <1>10, <1>11 DEF SoundImports

\* The innermost file is done.
LEMMA ImportClosed ==
    ASSUME NEW c \in Seq(Tasks), c # <<>>, c[1].do = "ImportEnd",
           NEW files, NEW dir, SoundImports(c, files, dir),
           NEW t, t = <<>>, NEW s, s = t \o Tail(c)
    PROVE  SoundImports(s, files, c[1].dir)
<1>1. t \in Seq(Tasks) /\ Len(t) = 0
  OBVIOUS
<1>0. Replaces(c, t, s)
  BY <1>1 DEF Replaces
<1>2. /\ files \subseteq DOMAIN Files
      /\ \A e \in ImportsBehind(c, 0) : RightDir(c, e, c[e].dir) /\ c[e].file \in files
      /\ \A e, f \in ImportsBehind(c, 0) : c[e].file = c[f].file => e = f
  BY DEF SoundImports
<1>3. 1 \in 1..Len(c) /\ 1 \in ImportsBehind(c, 0) /\ ImportsBehind(c, 1) \subseteq ImportsBehind(c, 0)
  BY EmptySeq DEF ImportsBehind
<1>4. ASSUME NEW k \in ImportsBehind(s, 0)
      PROVE  \E j \in ImportsBehind(c, 0) : k = j - 1 /\ s[k] = c[j] /\ j \in 1..Len(c)
  <2>2. k \in ImportsBehind(s, 0) /\ 0 = Len(t) + 1 - 1
    BY <1>1
  <2>3. PICK j \in ImportsBehind(c, 1) : k = Len(t) + j - 1 /\ s[k] = c[j]
    BY ONLY <1>0, <1>3, <2>2, ImportsSame
  <2>4. j \in 1..Len(c)
    BY DEF ImportsBehind
  <2>5. k = j - 1
    BY <1>1, <2>3, <2>4
  <2>6. QED BY <1>3, <2>3, <2>4, <2>5
<1>5. RightDir(s, 0, c[1].dir)
  <2>1. RightDir(c, 1, c[1].dir)
    BY <1>2, <1>3
  <2>2. RightDir(s, Len(t) + 1 - 1, c[1].dir)
    BY <1>0, <1>1, <1>3, <2>1, DirKept
  <2>3. Len(t) + 1 - 1 = 0
    BY <1>1
  <2>4. QED BY <2>2, <2>3
<1>6. ASSUME NEW e \in ImportsBehind(s, 0)
      PROVE  RightDir(s, e, s[e].dir) /\ s[e].file \in files
  <2>1. PICK j \in ImportsBehind(c, 0) : e = j - 1 /\ s[e] = c[j] /\ j \in 1..Len(c)
    BY <1>4
  <2>2. RightDir(c, j, c[j].dir) /\ c[j].file \in files
    BY <1>2
  <2>3. RightDir(s, Len(t) + j - 1, c[j].dir)
    BY <1>0, <1>1, <2>1, <2>2, DirKept
  <2>4. Len(t) + j - 1 = e
    BY <1>1, <2>1
  <2>5. QED BY <2>1, <2>2, <2>3, <2>4
<1>7. ASSUME NEW e \in ImportsBehind(s, 0), NEW f \in ImportsBehind(s, 0), s[e].file = s[f].file
      PROVE  e = f
  <2>1. PICK j \in ImportsBehind(c, 0) : e = j - 1 /\ s[e] = c[j]
    BY <1>4
  <2>2. PICK k \in ImportsBehind(c, 0) : f = k - 1 /\ s[f] = c[k]
    BY <1>4
  <2>3. j = k
    BY <1>2, <1>7, <2>1, <2>2
  <2>4. QED BY <2>1, <2>2, <2>3
<1>8. c[1].dir \in Directories
  <2>1. c[1] \in Tasks
    BY <1>3
  <2>2. QED BY <2>1, OtherTask
<1>9. QED BY <1>2, <1>5, <1>6, <1>7, <1>8 DEF SoundImports

-----------------------------------------------------------------------------
(* The symbol tables stay well-typed.                                      *)

\* A set of numbers has a least one, and one with a bound a greatest.
LEMMA LeastExists ==
    ASSUME NEW S, S \subseteq Nat, S # {}
    PROVE  \E x \in S : \A y \in S : x <= y
<1> DEFINE R == OpToRel(<, Nat)
<1>1. IsWellFoundedOn(R, Nat)
  BY NatLessThanWellFounded
<1> HIDE DEF R
<1>2. PICK x \in S : \A y \in S : ~ (<<y, x>> \in R)
  BY <1>1, WFMin
<1>3. \A y \in S : ~(y < x)
  BY <1>2 DEF R, OpToRel
<1>4. QED BY <1>3

LEMMA GreatestExists ==
    ASSUME NEW n \in Nat, NEW S, S \subseteq 1..n, S # {}
    PROVE  \E x \in S : \A y \in S : y <= x
<1>1. PICK T : T = {n - i : i \in S}
  OBVIOUS
<1>2. T \subseteq Nat /\ T # {}
  <2>1. \A i \in S : n - i \in Nat
    OBVIOUS
  <2>2. QED BY <1>1, <2>1
<1>3. PICK x \in T : \A y \in T : x <= y
  BY <1>2, LeastExists
<1>4. PICK i \in S : x = n - i
  BY <1>1
<1>5. ASSUME NEW j \in S PROVE j <= i
  <2>1. n - i <= n - j
    BY <1>1, <1>3, <1>4
  <2>2. QED BY <2>1
<1>6. QED BY <1>5

LEMMA LastPositionIn ==
    ASSUME NEW names \in Seq(Names), NEW x, Positions(names, x) # {}
    PROVE  LastPosition(names, x) \in 1..Len(names)
<1>1. Positions(names, x) \subseteq 1..Len(names) /\ Len(names) \in Nat
  BY DEF Positions
<1>2. \E i \in Positions(names, x) : \A j \in Positions(names, x) : j <= i
  BY ONLY <1>1, Positions(names, x) # {}, GreatestExists
<1>3. QED BY <1>1, <1>2 DEF LastPosition

LEMMA SymbolTyped ==
    ASSUME NEW x \in Names, NEW scope \in Scopes, NEW index \in Nat
    PROVE  Symbol(x, scope, index) \in SymbolType
  BY DEF Symbol, SymbolType

LEMMA TableFields ==
    ASSUME NEW table \in TableType
    PROVE  /\ table.store \in [Names -> SymbolType \cup {NoSymbol}]
           /\ table.numDefinitions \in Nat /\ table.FreeSymbols \in Seq(SymbolType)
           /\ Len(table.FreeSymbols) \in Nat
  BY DEF TableType

LEMMA EmptyTableTyped == EmptyTable \in TableType
  BY DEF EmptyTable, TableType

\* One Define after the other.
LEMMA SlotsTyped ==
    ASSUME NEW table \in TableType, NEW scope \in Scopes, NEW names \in Seq(Names),
           NEW new, new = AddSlots(table, scope, names)
    PROVE  /\ new \in TableType
           /\ \A i \in 1..Len(names) : new.store[names[i]] \in SymbolType
<1>1. ASSUME NEW x \in Names, Positions(names, x) # {}
      PROVE  Symbol(x, scope, table.numDefinitions + LastPosition(names, x) - 1) \in SymbolType
  <2>1. table.numDefinitions + LastPosition(names, x) - 1 \in Nat
    BY <1>1, LastPositionIn, TableFields
  <2>2. QED BY <2>1, SymbolTyped
<1>2. new.store = [x \in Names |->
                     IF Positions(names, x) = {} THEN table.store[x]
                     ELSE Symbol(x, scope, table.numDefinitions + LastPosition(names, x) - 1)]
  BY DEF AddSlots
<1>3. new.store \in [Names -> SymbolType \cup {NoSymbol}]
  <2>1. \A x \in Names : table.store[x] \in SymbolType \cup {NoSymbol}
    BY TableFields
  <2>2. QED BY ONLY <1>1, <1>2, <2>1
<1>4. new \in TableType
  <2>1. table.numDefinitions + Len(names) \in Nat
    BY TableFields
  <2>2. QED BY <1>3, <2>1, TableFields DEF AddSlots, TableType
<1>5. ASSUME NEW i \in 1..Len(names) PROVE new.store[names[i]] \in SymbolType
  <2>1. names[i] \in Names /\ Positions(names, names[i]) # {}
    BY DEF Positions
  <2>2. QED BY <1>1, <1>2, <2>1
<1>6. QED BY <1>4, <1>5

LEMMA DefineEachTyped ==
    ASSUME NEW chain \in Seq(TableType), chain # <<>>, NEW names \in Seq(Names),
           NEW new, new = DefineEach(chain, names)
    PROVE  /\ new \in Seq(TableType) /\ Len(new) = Len(chain)
           /\ \A i \in 1..Len(names) : Last(new).store[names[i]] \in SymbolType
<1>1. PICK n, scope, table :
        /\ n = Len(chain) /\ scope = (IF n = 1 THEN "GLOBAL" ELSE "LOCAL")
        /\ table = AddSlots(chain[n], scope, names)
  OBVIOUS
<1>2. n \in 1..Len(chain) /\ chain[n] \in TableType /\ scope \in Scopes
  BY <1>1, EmptySeq DEF Scopes
<1>3. table \in TableType /\ \A i \in 1..Len(names) : table.store[names[i]] \in SymbolType
  BY <1>1, <1>2, SlotsTyped
<1>4. new = [chain EXCEPT ![n] = table]
  BY <1>1 DEF DefineEach
<1>5. new \in Seq(TableType) /\ Len(new) = n /\ new[n] = table
  BY <1>1, <1>2, <1>3, <1>4, ExceptSeq
<1>6. QED BY <1>1, <1>3, <1>5 DEF Last

LEMMA DefineTyped ==
    ASSUME NEW chain \in Seq(TableType), chain # <<>>, NEW x \in Names,
           NEW new, new = Define(chain, x)
    PROVE  /\ new \in Seq(TableType) /\ Len(new) = Len(chain)
           /\ Last(new).store[x] \in SymbolType
<1>1. <<x>> \in Seq(Names) /\ 1 \in 1..Len(<<x>>) /\ <<x>>[1] = x
  OBVIOUS
<1>2. new = DefineEach(chain, <<x>>)
  BY DEF Define
<1>3. QED BY <1>1, <1>2, DefineEachTyped

\* enterScope, the function's name and its parameters.
LEMMA OpenedTyped ==
    ASSUME NEW chain \in Seq(TableType), NEW named,
           \/ named = NewEnclosedSymbolTable(chain)
           \/ \E self \in Names : named = DefineFunctionName(NewEnclosedSymbolTable(chain), self)
    PROVE  named \in Seq(TableType) /\ Len(named) = Len(chain) + 1
<1>1. PICK opened, n : opened = NewEnclosedSymbolTable(chain) /\ n = Len(chain) + 1
  OBVIOUS
<1>2. opened \in Seq(TableType) /\ Len(opened) = n /\ n \in 1..Len(opened) /\ opened[n] = EmptyTable
  <2>1. opened = Append(chain, EmptyTable) /\ EmptyTable \in TableType
    BY <1>1, EmptyTableTyped DEF NewEnclosedSymbolTable
  <2>2. QED BY <1>1, <2>1, AppendProperties
<1>3. named \in Seq(TableType) /\ Len(named) = n
  <2>1. CASE named = opened
    BY <1>2, <2>1
  <2>2. ASSUME NEW self \in Names, named = DefineFunctionName(opened, self)
        PROVE  named \in Seq(TableType) /\ Len(named) = n
    <3>1. PICK function, table :
            /\ function = Symbol(self, "FUNCTION", 0)
            /\ table = [EmptyTable EXCEPT !.store = Put(@, function)]
      OBVIOUS
    <3>2. function \in SymbolType /\ function.name = self
      BY <3>1, SymbolTyped DEF Scopes, Symbol
    <3>3. table \in TableType
      <4>1. table = [EmptyTable EXCEPT !.store = [@ EXCEPT ![self] = function]]
        BY <3>1, <3>2 DEF Put
      <4>2. EmptyTable.store \in [Names -> SymbolType \cup {NoSymbol}]
        BY EmptyTableTyped, TableFields
      <4>3. [EmptyTable.store EXCEPT ![self] = function] \in [Names -> SymbolType \cup {NoSymbol}]
        BY <3>2, <4>2
      <4>4. QED BY <4>1, <4>3, EmptyTableTyped DEF TableType
    <3>4. named = [opened EXCEPT ![n] = table]
      BY <1>2, <2>2, <3>1 DEF DefineFunctionName
    <3>5. QED BY <1>2, <3>3, <3>4, ExceptSeq
  <2>3. QED BY <1>1, <2>1, <2>2
<1>4. QED BY <1>1, <1>3

LEMMA EnteredTyped ==
    ASSUME NEW chain \in Seq(TableType), NEW named,
           \/ named = NewEnclosedSymbolTable(chain)
           \/ \E self \in Names : named = DefineFunctionName(NewEnclosedSymbolTable(chain), self),
           NEW names \in Seq(Names), NEW new, new = DefineEach(named, names)
    PROVE  new \in Seq(TableType) /\ Len(new) = Len(chain) + 1
<1>1. named \in Seq(TableType) /\ Len(named) = Len(chain) + 1
  BY OpenedTyped
<1>2. named # <<>>
  BY <1>1, EmptySeq
<1>3. QED BY <1>1, <1>2, DefineEachTyped

\* The global table of builtins.
LEMMA BuiltinsTyped ==
    ASSUME NEW new, new = DefineBuiltins(NewSymbolTable, Builtins)
    PROVE  new \in Seq(TableType) /\ Len(new) = 1
<1>1. PICK table : table = AddBuiltins(EmptyTable, Builtins)
  OBVIOUS
<1>2. Builtins \in Seq(Names)
  BY TreesAssumption
<1>3. ASSUME NEW x \in Names, Positions(Builtins, x) # {}
      PROVE  Symbol(x, "BUILTIN", LastPosition(Builtins, x) - 1) \in SymbolType
  <2>1. LastPosition(Builtins, x) - 1 \in Nat
    BY <1>2, <1>3, LastPositionIn
  <2>2. QED BY <2>1, SymbolTyped DEF Scopes
<1>4. table \in TableType
  <2>1. PICK store : store = [x \in Names |->
                                IF Positions(Builtins, x) = {} THEN EmptyTable.store[x]
                                ELSE Symbol(x, "BUILTIN", LastPosition(Builtins, x) - 1)]
    OBVIOUS
  <2>2. \A x \in Names : EmptyTable.store[x] \in SymbolType \cup {NoSymbol}
    BY EmptyTableTyped, TableFields
  <2>3. store \in [Names -> SymbolType \cup {NoSymbol}]
    BY ONLY <1>3, <2>1, <2>2
  <2>4. table = [EmptyTable EXCEPT !.store = store]
    BY <1>1, <2>1 DEF AddBuiltins
  <2>5. QED BY <2>3, <2>4, EmptyTableTyped DEF TableType
<1>5. new = <<table>>
  BY <1>1 DEF DefineBuiltins, NewSymbolTable
<1>6. QED BY <1>4, <1>5

\* A name is found, and captured on the way.
LEMMA ResolveTyped ==
    ASSUME NEW chain \in Seq(TableType), NEW x \in Names, Resolvable(chain, x),
           NEW new, new = Resolve(chain, x)
    PROVE  /\ new \in Seq(TableType) /\ Len(new) = Len(chain)
           /\ Resolved(chain, x) \in SymbolType
<1>1. PICK n : n = Len(chain) /\ n \in Nat /\ DOMAIN chain = 1..n
  OBVIOUS
<1>2. Home(chain, x) \in 1..n /\ Holds(chain[Home(chain, x)], x)
  <2>1. PICK H : H = Holders(chain, x)
    OBVIOUS
  <2>2. H \subseteq 1..n /\ H # {}
    BY <1>1, <2>1 DEF Holders, Resolvable
  <2>3. \E k \in H : \A j \in H : j <= k
    BY ONLY <1>1, <2>2, GreatestExists
  <2>4. Home(chain, x) \in H
    BY <2>1, <2>3 DEF Home
  <2>5. QED BY <2>1, <2>2, <2>4 DEF Holders
<1>3. HomeSymbol(chain, x) \in SymbolType
  <2>1. chain[Home(chain, x)] \in TableType
    BY <1>1, <1>2
  <2>2. QED BY <1>2, <2>1, TableFields DEF HomeSymbol, Holds
<1>4. ASSUME NEW k \in 1..n PROVE SymbolAt(chain, x, k) \in SymbolType
  <2>1. HomeSymbol(chain, x).name \in Names
    BY <1>3 DEF SymbolType
  <2>2. Len(chain[k].FreeSymbols) \in Nat
    BY <1>1, TableFields
  <2>3. QED BY <1>3, <2>1, <2>2, SymbolTyped DEF SymbolAt, Scopes
<1>5. ASSUME NEW k \in 1..n PROVE new[k] \in TableType
  <2>1. PICK table : table = chain[k] /\ table \in TableType
    BY <1>1
  <2>2. CASE ~Captures(chain, x, k)
    BY <1>1, <2>1, <2>2 DEF Resolve
  <2>3. CASE Captures(chain, x, k)
    <3>1. PICK original, free :
            /\ original = SymbolAt(chain, x, k - 1)
            /\ free = Symbol(original.name, "FREE", Len(table.FreeSymbols))
      OBVIOUS
    <3>2. new[k] = DefineFree(table, original)
      BY <1>1, <2>1, <2>3, <3>1 DEF Resolve
    <3>3. k - 1 \in 1..n
      BY <1>1, <1>2, <2>3 DEF Captures
    <3>4. original \in SymbolType /\ original.name \in Names
      BY <1>4, <3>1, <3>3 DEF SymbolType
    <3>5. free \in SymbolType /\ free.name = original.name
      BY <2>1, <3>1, <3>4, SymbolTyped, TableFields DEF Scopes, Symbol
    <3>6. [table.store EXCEPT ![original.name] = free] \in [Names -> SymbolType \cup {NoSymbol}]
      BY <2>1, <3>4, <3>5, TableFields
    <3>7. Append(table.FreeSymbols, original) \in Seq(SymbolType)
      BY <2>1, <3>4, TableFields
    <3>8. new[k] = [table EXCEPT !.FreeSymbols = Append(table.FreeSymbols, original),
                                 !.store = [table.store EXCEPT ![original.name] = free]]
      BY <3>1, <3>2, <3>5, <2>1 DEF DefineFree, Put, TableType
    <3>9. QED BY <2>1, <3>6, <3>7, <3>8 DEF TableType
  <2>4. QED BY <2>2, <2>3
<1>6. new \in Seq(TableType) /\ Len(new) = n
  <2>1. new \in [1..n -> TableType]
    BY <1>1, <1>5 DEF Resolve
  <2>2. QED BY <1>1, <2>1
<1>7. Resolved(chain, x) \in SymbolType
  BY <1>1, <1>2, <1>4 DEF Resolved
<1>8. QED BY <1>1, <1>6, <1>7

-----------------------------------------------------------------------------
(* The tasks an expression or a statement becomes.                         *)

\* Tasks that emit an instruction, and those of them that use a value.
Uses == {task \in Tasks : Emits(task) /\ task.do # "WhileBody"}

Finals == {task \in Uses : ~Computes(task)}

\* Each value of a series is used by the next task.
Series(t) ==
    /\ t \in Seq(Tasks) /\ Len(t) \in Nat \ {0} /\ t[Len(t)] \in Finals
    /\ \A i \in 1..Len(t) : t[i] \in Uses

LEMMA ExpressionUses == \A node \in ExpressionNodes : Compile(node) \in Uses
<1>1. SUFFICES ASSUME NEW node \in ExpressionNodes PROVE Compile(node) \in Uses
  OBVIOUS
<1>2. Compile(node).do = "Compile" /\ Compile(node).node = node
  BY DEF Compile
<1>3. node.kind \in ExpressionKinds /\ node \in CompiledNodes
  BY DEF ExpressionNodes, NodesOfKind, CompiledNodes
<1>4. QED BY <1>2, <1>3, PlannedTasks DEF Uses, Emits, CompilesExpression

LEMMA EmitFinal == \A op \in Opcodes, operands \in Seq(Nat) : Emit(op, operands) \in Finals
<1>1. SUFFICES ASSUME NEW op \in Opcodes, NEW operands \in Seq(Nat)
               PROVE  Emit(op, operands) \in Finals
  OBVIOUS
<1>2. Emit(op, operands).do = "Emit"
  BY DEF Emit
<1>3. QED BY <1>2, PlannedTasks DEF Uses, Finals, Emits, Computes, CompilesExpression

LEMMA EmitPlain == \A op \in Opcodes : Emit(op, <<>>) \in Finals
<1>1. <<>> \in Seq(Nat)
  OBVIOUS
<1>2. QED BY <1>1, EmitFinal

LEMMA ConstantFinal ==
    \A object \in Objects : /\ Constant(object) \in Finals
                            /\ \A n \in Nat : MakeClosure(object, n) \in Finals
<1>1. SUFFICES ASSUME NEW object \in Objects, NEW n \in Nat
               PROVE  Constant(object) \in Finals /\ MakeClosure(object, n) \in Finals
  OBVIOUS
<1>2. Constant(object).do = "Constant" /\ MakeClosure(object, n).do = "Constant"
  BY DEF Constant, MakeClosure
<1>3. QED BY <1>2, PlannedTasks DEF Uses, Finals, Emits, Computes, CompilesExpression

\* An operator that is not one of the source ends in an error.
LEMMA OperatorFinal ==
    \A operator : /\ Operator(InfixOpcode, operator) \in Finals
                  /\ Operator(PrefixOpcode, operator) \in Finals
<1>1. Fail("unknown operator") \in Finals
  <2>1. Fail("unknown operator").do = "Fail"
    BY DEF Fail
  <2>2. QED BY <2>1, PlannedTasks DEF Uses, Finals, Emits, Computes, CompilesExpression
<1>2. \A o \in DOMAIN InfixOpcode : InfixOpcode[o] \in Opcodes
  BY DEF InfixOpcode, Opcodes, ArithmeticOps, ComparisonOps
<1>3. \A o \in DOMAIN PrefixOpcode : PrefixOpcode[o] \in Opcodes
  BY DEF PrefixOpcode, Opcodes
<1>4. <<>> \in Seq(Nat)
  OBVIOUS
<1>5. QED BY <1>1, <1>2, <1>3, <1>4, EmitFinal DEF Operator

LEMMA SymbolFinal ==
    \A s \in SymbolType : loadSymbol(s) \in Finals /\ storeSymbol(s) \in Finals
<1>1. SUFFICES ASSUME NEW s \in SymbolType
               PROVE  loadSymbol(s) \in Finals /\ storeSymbol(s) \in Finals
  OBVIOUS
<1>2. <<s.index>> \in Seq(Nat) /\ <<>> \in Seq(Nat) /\ s.scope \in Scopes
  BY DEF SymbolType
<1>3. \A op \in {"OpGetGlobal", "OpGetLocal", "OpGetBuiltin", "OpGetFree", "OpSetGlobal", "OpSetLocal"} :
        Emit(op, <<s.index>>) \in Finals
  BY <1>2, EmitFinal DEF Opcodes
<1>4. Emit("OpCurrentClosure", <<>>) \in Finals
  BY <1>2, EmitFinal DEF Opcodes
<1>5. QED BY <1>2, <1>3, <1>4 DEF loadSymbol, storeSymbol, Scopes

LEMMA UsesAreTasks == Uses \subseteq Tasks /\ Finals \subseteq Uses
  BY DEF Uses, Finals

LEMMA SeriesOne == \A a \in Finals : Series(<<a>>)
  BY UsesAreTasks DEF Series

LEMMA SeriesTwo == \A a \in Uses, b \in Finals : Series(<<a, b>>)
<1>1. SUFFICES ASSUME NEW a \in Uses, NEW b \in Finals PROVE Series(<<a, b>>)
  OBVIOUS
<1>2. PICK t : t = <<a, b>>
  OBVIOUS
<1>3. Len(t) = 2 /\ t[1] = a /\ t[2] = b /\ t \in Seq(Tasks)
  BY <1>2, UsesAreTasks
<1>4. \A i \in 1..2 : i = 1 \/ i = 2
  OBVIOUS
<1>5. QED BY <1>2, <1>3, <1>4, UsesAreTasks DEF Series

LEMMA SeriesThree == \A a, b \in Uses, c \in Finals : Series(<<a, b, c>>)
<1>1. SUFFICES ASSUME NEW a \in Uses, NEW b \in Uses, NEW c \in Finals PROVE Series(<<a, b, c>>)
  OBVIOUS
<1>2. PICK t : t = <<a, b, c>>
  OBVIOUS
<1>3. Len(t) = 3 /\ t[1] = a /\ t[2] = b /\ t[3] = c /\ t \in Seq(Tasks)
  BY <1>2, UsesAreTasks
<1>4. \A i \in 1..3 : i = 1 \/ i = 2 \/ i = 3
  OBVIOUS
<1>5. QED BY <1>2, <1>3, <1>4, UsesAreTasks DEF Series

LEMMA SeriesAppend ==
    ASSUME NEW e \in Seq(Uses), NEW b \in Finals
    PROVE  Series(Append(e, b))
<1>1. PICK t, n : t = Append(e, b) /\ n = Len(e) /\ n \in Nat
  BY LenProperties
<1>2. t \in Seq(Uses) /\ Len(t) = n + 1 /\ t[n + 1] = b
  BY <1>1, UsesAreTasks, AppendProperties
<1>3. t \in Seq(Tasks)
  BY <1>2, UsesAreTasks
<1>4. \A i \in 1..(n + 1) : t[i] \in Uses
  BY <1>2
<1>5. QED BY <1>1, <1>2, <1>3, <1>4 DEF Series

LEMMA CompileAllUses ==
    ASSUME NEW nodes \in Seq(ExpressionNodes)
    PROVE  CompileAll(nodes) \in Seq(Uses)
<1>1. \A i \in 1..Len(nodes) : Compile(nodes[i]) \in Uses
  BY ExpressionUses
<1>2. Len(nodes) \in Nat /\ DOMAIN nodes = 1..Len(nodes)
  OBVIOUS
<1>3. QED BY <1>1, <1>2 DEF CompileAll

LEMMA SeriesPlaced ==
    ASSUME NEW c, NEW t, Series(t), NEW code
    PROVE  Placed(c, t, code) /\ ImportsNone(t) /\ t # <<>> /\ Emits(t[1])
<1>1. /\ t \in Seq(Tasks) /\ Len(t) \in Nat \ {0} /\ t[Len(t)] \in Finals
      /\ \A i \in 1..Len(t) : t[i] \in Uses
  BY DEF Series
<1>2. \A task \in Uses : /\ Emits(task)
                         /\ task.do \notin {"FunctionEnd", "ImportEnd", "IfElse", "IfEnd",
                                            "WhileBody", "WhileEnd"}
  BY DEF Uses, Emits, CompilesExpression
<1>3. ASSUME NEW i \in 1..Len(t)
      PROVE  /\ t[i].do \notin {"FunctionEnd", "ImportEnd"} /\ Pending(t[i], code)
             /\ Computes(t[i]) => IF i < Len(t) THEN Emits(t[i + 1]) ELSE Computes(c[1])
  <2>1. t[i].do \notin {"FunctionEnd", "ImportEnd"} /\ Pending(t[i], code)
    BY <1>1, <1>2 DEF Pending
  <2>2. CASE i < Len(t)
    <3>1. i + 1 \in 1..Len(t)
      BY <1>1, <2>2
    <3>2. QED BY <1>1, <1>2, <2>1, <2>2, <3>1
  <2>3. CASE i = Len(t)
    <3>1. ~Computes(t[i])
      BY <1>1, <2>3 DEF Finals
    <3>2. QED BY <2>1, <3>1
  <2>4. QED BY <1>1, <2>2, <2>3
<1>4. 1 \in 1..Len(t) /\ t # <<>>
  BY <1>1
<1>5. QED BY <1>1, <1>2, <1>3, <1>4 DEF Placed, ImportsNone

-----------------------------------------------------------------------------
(* The next task, and the node it compiles.                                *)

LEMMA FieldsHold == \A node \in CompiledNodes : node \in Nodes /\ FieldsFit(node)
  BY TreesAssumption
  DEF CompiledNodes, NodesOfKind, ProgramNodes, BlockNodes, StatementNodes, ExpressionNodes

LEMMA NextIs ==
    ASSUME Inv, NEW do, NextTask(do)
    PROVE  /\ control \in Seq(Tasks) /\ control # <<>> /\ control[1] \in Tasks
           /\ Task = control[1] /\ control[1].do = do
<1>1. control # <<>> /\ Head(control).do = do
  BY Zenon DEF NextTask
<1>2. control \in Seq(Tasks)
  BY DEF Inv, Sound
<1>3. control[1] \in Tasks /\ Head(control) = control[1]
  BY <1>1, <1>2, EmptySeq
<1>4. QED BY <1>1, <1>2, <1>3 DEF Task

LEMMA NodeIs ==
    ASSUME Inv, NEW kind, NextNode(kind)
    PROVE  /\ control \in Seq(Tasks) /\ control # <<>> /\ control[1].do = "Compile"
           /\ Node = control[1].node /\ Node \in CompiledNodes /\ Node \in Nodes
           /\ Node.kind = kind /\ FieldsFit(Node)
<1>1. NextTask("Compile") /\ Head(control).node.kind = kind
  BY Zenon DEF NextNode
<1>2. /\ control \in Seq(Tasks) /\ control # <<>> /\ control[1] \in Tasks
      /\ Task = control[1] /\ control[1].do = "Compile"
  BY <1>1, NextIs
<1>3. Node = control[1].node /\ Node.kind = kind
  BY <1>1, <1>2 DEF Node, Task
<1>4. Node \in CompiledNodes
  BY <1>2, <1>3, CompileTask
<1>5. QED BY <1>2, <1>3, <1>4, FieldsHold

\* An expression is used, a statement is not; each becomes a series of tasks.
Serial(t) ==
    /\ control # <<>> /\ control[1].do \notin {"FunctionEnd", "ImportEnd"}
    /\ Series(t) /\ Do(t)
    /\ UNCHANGED <<scopes, importedFiles, currentDir>>

LEMMA SerialStep ==
    ASSUME Inv, NEW t, Serial(t), SoundTables(tables', scopes)
    PROVE  Inv'
<1>1. /\ control' = t \o Tail(control) /\ scopes' = scopes
      /\ importedFiles' = importedFiles /\ currentDir' = currentDir
  BY DEF Serial, Do
<1>2. /\ Sound(control, scopes) /\ SoundImports(control, importedFiles, currentDir)
      /\ control # <<>> /\ control[1].do \notin {"FunctionEnd", "ImportEnd"}
      /\ control \in Seq(Tasks)
  BY DEF Inv, Serial, Sound
<1>3. /\ Placed(control, t, scopes[Len(scopes)].instructions) /\ ImportsNone(t)
      /\ t # <<>> /\ Emits(t[1]) /\ t \in Seq(Tasks)
  BY SeriesPlaced DEF Serial, Series
<1>4. Sound(control', scopes)
  BY ONLY <1>1, <1>2, <1>3, SoundUnfold
<1>5. SoundImports(control', importedFiles, currentDir)
  BY ONLY <1>1, <1>2, <1>3, ImportsUnmoved
<1>6. QED BY <1>1, <1>4, <1>5 DEF Inv

LEMMA SerialNode ==
    ASSUME Inv, NEW kind, NextNode(kind), NEW t, Series(t), Unfold(t)
    PROVE  Inv'
<1>1. control # <<>> /\ control[1].do = "Compile"
  BY NodeIs
<1>2. Do(t) /\ UNCHANGED <<scopes, importedFiles, currentDir>> /\ tables' = tables
  BY Zenon DEF Unfold
<1>3. Serial(t)
  BY <1>1, <1>2 DEF Serial
<1>4. SoundTables(tables', scopes)
  BY <1>2 DEF Inv
<1>5. QED BY <1>3, <1>4, SerialStep

-----------------------------------------------------------------------------
(* Expressions and statements without a jump.                              *)

LEMMA ExpressionStatementStep == ASSUME Inv, CompileExpressionStatement PROVE Inv'
<1>1. NextNode("ExpressionStatement") /\ Unfold(<<Compile(Node.expression), Emit("OpPop", <<>>)>>)
  BY DEF CompileExpressionStatement
<1>2. Node.expression \in ExpressionNodes
  BY <1>1, NodeIs DEF FieldsFit
<1>3. Series(<<Compile(Node.expression), Emit("OpPop", <<>>)>>)
  BY <1>2, SeriesTwo, ExpressionUses, EmitPlain DEF Opcodes
<1>4. QED BY <1>1, <1>3, SerialNode

LEMMA InfixStep == ASSUME Inv, CompileInfix PROVE Inv'
<1>1. PICK t : t = <<Compile(Node.left), Compile(Node.right), Operator(InfixOpcode, Node.operator)>>
  OBVIOUS
<1>2. NextNode("InfixExpression") /\ Unfold(t)
  BY <1>1 DEF CompileInfix
<1>3. Node.left \in ExpressionNodes /\ Node.right \in ExpressionNodes
  BY <1>2, NodeIs DEF FieldsFit
<1>4. Series(t)
  BY <1>1, <1>3, SeriesThree, ExpressionUses, OperatorFinal
<1>5. QED BY <1>2, <1>4, SerialNode

LEMMA PrefixStep == ASSUME Inv, CompilePrefix PROVE Inv'
<1>1. PICK t : t = <<Compile(Node.right), Operator(PrefixOpcode, Node.operator)>>
  OBVIOUS
<1>2. NextNode("PrefixExpression") /\ Unfold(t)
  BY <1>1 DEF CompilePrefix
<1>3. Node.right \in ExpressionNodes
  BY <1>2, NodeIs DEF FieldsFit
<1>4. Series(t)
  BY <1>1, <1>3, SeriesTwo, ExpressionUses, OperatorFinal
<1>5. QED BY <1>2, <1>4, SerialNode

LEMMA LiteralStep == ASSUME Inv, CompileLiteral PROVE Inv'
<1>1. PICK t : t = <<Constant(Node.literal)>>
  OBVIOUS
<1>2. PICK kind \in {"IntegerLiteral", "FloatLiteral", "StringLiteral"} :
        NextNode(kind) /\ Unfold(t)
  BY <1>1 DEF CompileLiteral
<1>3. Node.literal \in Objects
  BY <1>2, NodeIs DEF Objects, NodesOfKind
<1>4. Series(t)
  BY <1>1, <1>3, SeriesOne, ConstantFinal
<1>5. QED BY <1>2, <1>4, SerialNode

LEMMA BooleanStep == ASSUME Inv, CompileBoolean PROVE Inv'
<1>1. PICK t : t = <<Emit(IF Node.boolean THEN "OpTrue" ELSE "OpFalse", <<>>)>>
  OBVIOUS
<1>2. NextNode("Boolean") /\ Unfold(t)
  BY <1>1 DEF CompileBoolean
<1>3. (IF Node.boolean THEN "OpTrue" ELSE "OpFalse") \in Opcodes /\ <<>> \in Seq(Nat)
  BY DEF Opcodes
<1>4. Series(t)
  BY <1>1, <1>3, SeriesOne, EmitFinal
<1>5. QED BY <1>2, <1>4, SerialNode

LEMMA ArrayStep == ASSUME Inv, CompileArray PROVE Inv'
<1>1. PICK t, n : /\ t = Append(CompileAll(Node.elements), Emit("OpArray", <<n>>))
                  /\ n = Len(Node.elements)
  OBVIOUS
<1>2. NextNode("ArrayLiteral") /\ Unfold(t)
  BY <1>1 DEF CompileArray
<1>3. Node.elements \in Seq(ExpressionNodes)
  BY <1>2, NodeIs DEF FieldsFit
<1>4. <<n>> \in Seq(Nat)
  BY <1>1, <1>3
<1>5. Series(t)
  BY <1>1, <1>3, <1>4, SeriesAppend, CompileAllUses, EmitFinal DEF Opcodes
<1>6. QED BY <1>2, <1>5, SerialNode

LEMMA IndexStep == ASSUME Inv, CompileIndex PROVE Inv'
<1>1. PICK t : t = <<Compile(Node.left), Compile(Node.index), Emit("OpIndex", <<>>)>>
  OBVIOUS
<1>2. NextNode("IndexExpression") /\ Unfold(t)
  BY <1>1 DEF CompileIndex
<1>3. Node.left \in ExpressionNodes /\ Node.index \in ExpressionNodes
  BY <1>2, NodeIs DEF FieldsFit
<1>4. Series(t)
  BY <1>1, <1>3, SeriesThree, ExpressionUses, EmitPlain DEF Opcodes
<1>5. QED BY <1>2, <1>4, SerialNode

LEMMA ReturnStep == ASSUME Inv, CompileReturn PROVE Inv'
<1>1. PICK t : t = <<Compile(Node.value), Emit("OpReturnValue", <<>>)>>
  OBVIOUS
<1>2. NextNode("ReturnStatement") /\ Unfold(t)
  BY <1>1 DEF CompileReturn
<1>3. Node.value \in ExpressionNodes
  BY <1>2, NodeIs DEF FieldsFit
<1>4. Series(t)
  BY <1>1, <1>3, SeriesTwo, ExpressionUses, EmitPlain DEF Opcodes
<1>5. QED BY <1>2, <1>4, SerialNode

LEMMA AttributeStep == ASSUME Inv, CompileAttribute PROVE Inv'
<1>1. PICK t : t = <<Compile(Node.object), Constant(String(Node.property)), Emit("OpGetAttr", <<>>)>>
  OBVIOUS
<1>2. NextNode("AttributeAccess") /\ Unfold(t)
  BY <1>1 DEF CompileAttribute
<1>3. Node.object \in ExpressionNodes
  BY <1>2, NodeIs DEF FieldsFit
<1>4. String(Node.property) \in Objects
  BY <1>2, NodeIs DEF Objects, NodesOfKind
<1>5. Constant(String(Node.property)) \in Uses /\ Emit("OpGetAttr", <<>>) \in Finals
  BY <1>4, ConstantFinal, EmitPlain, UsesAreTasks DEF Opcodes
<1>6. Series(t)
  BY <1>1, <1>3, <1>5, SeriesThree, ExpressionUses
<1>7. QED BY <1>2, <1>6, SerialNode

LEMMA CallStep == ASSUME Inv, CompileCall PROVE Inv'
<1>1. PICK call, arguments, t, n :
        /\ call = Compile(Node.function) /\ arguments = CompileAll(Node.arguments)
        /\ n = Len(Node.arguments) /\ t = <<call>> \o arguments \o <<Emit("OpCall", <<n>>)>>
  OBVIOUS
<1>2. NextNode("CallExpression") /\ Unfold(t)
  BY <1>1 DEF CompileCall
<1>3. Node.function \in ExpressionNodes /\ Node.arguments \in Seq(ExpressionNodes)
  BY <1>2, NodeIs DEF FieldsFit
<1>4. call \in Uses /\ arguments \in Seq(Uses) /\ Emit("OpCall", <<n>>) \in Finals
  <2>1. <<n>> \in Seq(Nat)
    BY <1>1, <1>3
  <2>2. QED BY <1>1, <1>3, <2>1, ExpressionUses, CompileAllUses, EmitFinal DEF Opcodes
<1>5. <<call>> \o arguments \in Seq(Uses)
  BY <1>4, ConcatProperties
<1>6. t = Append(<<call>> \o arguments, Emit("OpCall", <<n>>))
  BY <1>1, <1>5
<1>7. Series(t)
  BY <1>4, <1>5, <1>6, SeriesAppend
<1>8. QED BY <1>2, <1>7, SerialNode

LEMMA PairsUses ==
    ASSUME NEW P, P = [key : ExpressionNodes, value : ExpressionNodes, rank : Nat],
           NEW pairs \in Seq(P)
    PROVE  CompilePairs(pairs) \in Seq(Uses)
<1>1. PICK n : n = 2 * Len(pairs) /\ n \in Nat
  OBVIOUS
<1>2. ASSUME NEW i \in 1..n
      PROVE  LET pair == pairs[(i + 1) \div 2]
             IN  Compile(IF i % 2 = 1 THEN pair.key ELSE pair.value) \in Uses
  <2>1. PICK pair : pair = pairs[(i + 1) \div 2]
    OBVIOUS
  <2>2. (i + 1) \div 2 \in 1..Len(pairs)
    BY <1>1
  <2>3. pair.key \in ExpressionNodes /\ pair.value \in ExpressionNodes
    <3>1. pair \in P
      BY ONLY <2>1, <2>2, pairs \in Seq(P)
    <3>2. QED BY <3>1
  <2>4. QED BY <2>1, <2>3, ExpressionUses
<1>3. QED BY <1>1, <1>2 DEF CompilePairs

LEMMA DictStep == ASSUME Inv, CompileDict PROVE Inv'
<1>1. NextNode("DictLiteral")
  BY DEF CompileDict
<1>2. PICK order \in SetToSeqs(DOMAIN Node.pairs) :
        Unfold(Append(CompilePairs([i \in DOMAIN order |-> Node.pairs[order[i]]]),
                      Emit("OpDict", <<2 * Len(Node.pairs)>>)))
  BY DEF CompileDict
<1>3. PICK pairs, sorted, n, P :
        /\ pairs = Node.pairs /\ sorted = [i \in DOMAIN order |-> pairs[order[i]]]
        /\ n = 2 * Len(pairs) /\ P = [key : ExpressionNodes, value : ExpressionNodes, rank : Nat]
  OBVIOUS
<1>4. pairs \in Seq(P)
  <2>1. FieldsFit(Node) /\ Node.kind = "DictLiteral"
    BY <1>1, NodeIs
  <2>2. Node.pairs \in Seq([key : ExpressionNodes, value : ExpressionNodes, rank : Nat])
    BY ONLY <2>1, Zenon DEF FieldsFit
  <2>3. QED BY <1>3, <2>2
<1>5. sorted \in Seq(P)
  <2>1. PICK k : k = Cardinality(DOMAIN pairs)
    OBVIOUS
  <2>2. k \in Nat
    <3>1. DOMAIN pairs = 1..Len(pairs) /\ Len(pairs) \in Nat
      BY <1>4, LenProperties
    <3>2. IsFiniteSet(DOMAIN pairs)
      BY <3>1, FS_Interval
    <3>3. QED BY <2>1, <3>2, FS_CardinalityType
  <2>3. order \in [1..k -> DOMAIN pairs]
    BY <1>3, <2>1 DEF SetToSeqs
  <2>4. \A i \in 1..k :
          pairs[order[i]] \in P
    BY <1>4, <2>3, LenProperties
  <2>5. sorted \in [1..k -> P]
    <3>1. DOMAIN order = 1..k
      BY <2>3
    <3>2. sorted = [i \in 1..k |-> pairs[order[i]]]
      BY <1>3, <3>1
    <3>3. QED BY ONLY <2>4, <3>2
  <2>6. QED BY ONLY <2>2, <2>5, IsASeq
<1>6. CompilePairs(sorted) \in Seq(Uses)
  BY <1>3, <1>5, PairsUses
<1>7. Emit("OpDict", <<n>>) \in Finals
  <2>1. <<n>> \in Seq(Nat)
    BY <1>3, <1>4
  <2>2. QED BY <2>1, EmitFinal DEF Opcodes
<1>8. Series(Append(CompilePairs(sorted), Emit("OpDict", <<n>>)))
  BY <1>6, <1>7, SeriesAppend
<1>9. Unfold(Append(CompilePairs(sorted), Emit("OpDict", <<n>>)))
  BY <1>2, <1>3
<1>10. QED BY <1>1, <1>8, <1>9, SerialNode

-----------------------------------------------------------------------------
(* Names.                                                                  *)

LEMMA VarStep == ASSUME Inv, CompileVar PROVE Inv'
<1>1. PICK t, new :
        /\ new = Define(tables, Node.name)
        /\ t = <<Compile(Node.value), storeSymbol(Last(new).store[Node.name])>>
  OBVIOUS
<1>2. /\ NextNode("VarStatement") /\ tables' = new /\ Do(t)
      /\ UNCHANGED <<scopes, importedFiles, currentDir>>
  BY <1>1 DEF CompileVar
<1>3. Node.name \in Names /\ Node.value \in ExpressionNodes
  BY <1>2, NodeIs DEF FieldsFit
<1>4. tables \in Seq(TableType) /\ Len(tables) = Len(scopes) /\ tables # <<>>
  BY DEF Inv, SoundTables, Sound
<1>5. new \in Seq(TableType) /\ Len(new) = Len(tables) /\ Last(new).store[Node.name] \in SymbolType
  BY <1>1, <1>3, <1>4, DefineTyped
<1>6. Series(t)
  BY <1>1, <1>3, <1>5, SeriesTwo, ExpressionUses, SymbolFinal
<1>7. control # <<>> /\ control[1].do = "Compile"
  BY <1>2, NodeIs
<1>8. Serial(t)
  BY <1>2, <1>6, <1>7 DEF Serial
<1>9. SoundTables(tables', scopes)
  BY <1>2, <1>4, <1>5 DEF SoundTables
<1>10. QED BY <1>8, <1>9, SerialStep

\* An error ends the compilation, after a name was captured or before.
LEMMA StopStep ==
    ASSUME Inv, NEW cause, Stop(cause),
           UNCHANGED tables \/ \E x \in Names : Resolvable(tables, x) /\ tables' = Resolve(tables, x)
    PROVE  Inv'
<1>1. UNCHANGED <<control, scopes, importedFiles, currentDir>>
  BY Zenon DEF Stop
<1>2. tables \in Seq(TableType) /\ Len(tables) = Len(scopes)
  BY DEF Inv, SoundTables
<1>3. tables' \in Seq(TableType) /\ Len(tables') = Len(tables)
  BY <1>2, ResolveTyped
<1>4. SoundTables(tables', scopes')
  BY <1>1, <1>2, <1>3 DEF SoundTables
<1>5. QED BY <1>1, <1>4 DEF Inv

LEMMA IdentifierStep == ASSUME Inv, CompileIdentifier PROVE Inv'
<1>1. NextNode("Identifier") /\ Node.name \in Names
  <2>1. NextNode("Identifier")
    BY DEF CompileIdentifier
  <2>2. QED BY <2>1, NodeIs DEF FieldsFit
<1>2. CASE ~Resolvable(tables, Node.name)
  <2>1. Stop("undefined variable") /\ UNCHANGED tables
    BY <1>2, Zenon DEF CompileIdentifier
  <2>2. QED BY <2>1, StopStep
<1>3. CASE Resolvable(tables, Node.name)
  <2>1. PICK t : t = <<loadSymbol(Resolved(tables, Node.name))>>
    OBVIOUS
  <2>2. /\ tables' = Resolve(tables, Node.name) /\ Do(t)
        /\ UNCHANGED <<scopes, importedFiles, currentDir>>
    BY <1>3, <2>1, Zenon DEF CompileIdentifier
  <2>3. tables \in Seq(TableType) /\ Len(tables) = Len(scopes)
    BY DEF Inv, SoundTables
  <2>4. /\ tables' \in Seq(TableType) /\ Len(tables') = Len(tables)
        /\ Resolved(tables, Node.name) \in SymbolType
    BY <1>1, <1>3, <2>2, <2>3, ResolveTyped
  <2>5. Series(t)
    BY <2>1, <2>4, SeriesOne, SymbolFinal
  <2>6. control # <<>> /\ control[1].do = "Compile"
    BY <1>1, NodeIs
  <2>7. Serial(t)
    BY <2>2, <2>5, <2>6 DEF Serial
  <2>8. SoundTables(tables', scopes)
    BY <2>3, <2>4 DEF SoundTables
  <2>9. QED BY <2>7, <2>8, SerialStep
<1>4. QED BY <1>2, <1>3

LEMMA AssignStep == ASSUME Inv, CompileAssign PROVE Inv'
<1>1. PICK target, t :
        /\ target = [do |-> "AssignTarget", name |-> Node.name]
        /\ t = <<Compile(Node.value), target>>
  OBVIOUS
<1>2. NextNode("AssignStatement") /\ Unfold(t)
  BY <1>1 DEF CompileAssign
<1>3. Node.name \in Names /\ Node.value \in ExpressionNodes
  BY <1>2, NodeIs DEF FieldsFit
<1>4. target \in Finals
  <2>1. target \in Tasks /\ target.do = "AssignTarget"
    BY <1>1, <1>3 DEF Tasks
  <2>2. QED BY <2>1 DEF Finals, Uses, Emits, Computes, CompilesExpression
<1>5. Series(t)
  BY <1>1, <1>3, <1>4, SeriesTwo, ExpressionUses
<1>6. QED BY <1>2, <1>5, SerialNode

LEMMA TargetStep == ASSUME Inv, AssignTarget PROVE Inv'
<1>1. /\ control # <<>> /\ control[1].do = "AssignTarget" /\ Task.name \in Names
  <2>1. NextTask("AssignTarget")
    BY Zenon DEF AssignTarget
  <2>2. QED BY <2>1, NextIs, OtherTask
<1>2. PICK x, t : x = Task.name /\ t = <<storeSymbol(Resolved(tables, x))>>
  OBVIOUS
<1>3. \/ Stop("undefined variable") /\ UNCHANGED tables
      \/ /\ Resolvable(tables, x) /\ tables' = Resolve(tables, x)
         /\ Stop("unsupported assignment target scope")
      \/ /\ Resolvable(tables, x) /\ tables' = Resolve(tables, x)
         /\ Do(t) /\ UNCHANGED <<scopes, importedFiles, currentDir>>
  BY <1>2, Zenon DEF AssignTarget
<1>4. CASE Stop("undefined variable") /\ UNCHANGED tables
  BY <1>4, StopStep
<1>5. CASE /\ Resolvable(tables, x) /\ tables' = Resolve(tables, x)
           /\ Stop("unsupported assignment target scope")
  BY <1>1, <1>2, <1>5, StopStep
<1>6. CASE /\ Resolvable(tables, x) /\ tables' = Resolve(tables, x)
           /\ Do(t) /\ UNCHANGED <<scopes, importedFiles, currentDir>>
  <2>1. tables \in Seq(TableType) /\ Len(tables) = Len(scopes)
    BY DEF Inv, SoundTables
  <2>2. /\ tables' \in Seq(TableType) /\ Len(tables') = Len(tables)
        /\ Resolved(tables, x) \in SymbolType
    BY <1>1, <1>2, <1>6, <2>1, ResolveTyped
  <2>3. Series(t)
    BY <1>2, <2>2, SeriesOne, SymbolFinal
  <2>4. Serial(t)
    BY <1>1, <1>6, <2>3 DEF Serial
  <2>5. SoundTables(tables', scopes)
    BY <2>1, <2>2 DEF SoundTables
  <2>6. QED BY <2>4, <2>5, SerialStep
<1>7. QED BY <1>3, <1>4, <1>5, <1>6

LEMMA OperatorStep == ASSUME Inv, UnknownOperator PROVE Inv'
<1>1. Stop(Task.cause) /\ UNCHANGED tables
  BY Zenon DEF UnknownOperator
<1>2. QED BY <1>1, StopStep

-----------------------------------------------------------------------------
(* Statements and jumps.                                                   *)

\* What is unfolded need not be a series.
Unfolded(t) ==
    /\ control # <<>> /\ control[1].do \notin {"FunctionEnd", "ImportEnd"}
    /\ Placed(control, t, scopes[Len(scopes)].instructions) /\ ImportsNone(t)
    /\ Emits(control[1]) => t # <<>>
    /\ \/ t # <<>> /\ Emits(t[1])
       \/ ~Emits(control[1]) /\ \A i \in 1..Len(t) : t[i].do \notin {"WhileBody", "WhileEnd"}

LEMMA UnfoldStep ==
    ASSUME Inv, NEW t, Unfolded(t), Unfold(t)
    PROVE  Inv'
<1>1. /\ control' = t \o Tail(control) /\ scopes' = scopes /\ tables' = tables
      /\ importedFiles' = importedFiles /\ currentDir' = currentDir
  BY Zenon DEF Unfold, Do
<1>2. /\ Sound(control, scopes) /\ SoundImports(control, importedFiles, currentDir)
      /\ SoundTables(tables, scopes) /\ control \in Seq(Tasks) /\ t \in Seq(Tasks)
  BY DEF Inv, Sound, Unfolded, Placed
<1>3. Sound(control', scopes)
  BY <1>1, <1>2, SoundUnfold DEF Unfolded
<1>4. SoundImports(control', importedFiles, currentDir)
  BY <1>1, <1>2, ImportsUnmoved DEF Unfolded
<1>5. QED BY <1>1, <1>2, <1>3, <1>4 DEF Inv

\* The code of the function being compiled changes.
Written(scope, t) ==
    /\ control # <<>> /\ control[1].do \notin {"FunctionEnd", "ImportEnd"}
    /\ ScopeFits(scope) /\ Placed(control, t, scope.instructions) /\ ImportsNone(t)
    /\ Resumes(control, t, scope)
    /\ \A i \in 2..Len(control) :
          Depth(control, i) = Depth(control, 0) => Pending(control[i], scope.instructions)

LEMMA WriteStep ==
    ASSUME Inv, NEW scope, NEW t, Written(scope, t), Do(t),
           scopes' = [scopes EXCEPT ![Len(scopes)] = scope],
           UNCHANGED <<tables, importedFiles, currentDir>>
    PROVE  Inv'
<1>1. /\ control' = t \o Tail(control) /\ tables' = tables
      /\ importedFiles' = importedFiles /\ currentDir' = currentDir
  BY DEF Do
<1>2. /\ Sound(control, scopes) /\ SoundImports(control, importedFiles, currentDir)
      /\ SoundTables(tables, scopes) /\ control \in Seq(Tasks) /\ t \in Seq(Tasks)
  BY DEF Inv, Sound, Written, Placed
<1>3. Sound(control', scopes')
  BY <1>1, <1>2, SoundWrite DEF Written
<1>4. SoundImports(control', importedFiles, currentDir)
  BY <1>1, <1>2, ImportsUnmoved DEF Written
<1>5. SoundTables(tables, scopes')
  <2>1. scopes \in Seq(ScopeType) /\ Len(scopes) \in 1..Len(scopes)
    BY <1>2 DEF Sound
  <2>2. Len(scopes') = Len(scopes)
    <3>1. scope \in ScopeType
      BY DEF Written, ScopeFits
    <3>2. QED BY <2>1, <3>1, ExceptSeq
  <2>3. QED BY <1>2, <2>2 DEF SoundTables
<1>6. QED BY <1>1, <1>3, <1>4, <1>5 DEF Inv

\* What is pending stays pending in longer code.
LEMMA PendingKept ==
    ASSUME NEW code, NEW new, Keeps(code, new), Len(code) \in Nat, Len(new) \in Nat,
           NEW task \in Tasks, Pending(task, code)
    PROVE  /\ Len(code) <= Len(new) => Pending(task, new)
           /\ Len(code) < Len(new) => Later(task, new)
           /\ Len(code) <= Len(new) + 1 /\ Later(task, code) => Pending(task, new)
<1>1. task.do \in {"WhileBody", "WhileEnd"} => task.start \in Nat
  BY PlaceTask
<1>2. \A p : /\ JumpAt(code, p, "OpJump") => JumpAt(new, p, "OpJump")
             /\ JumpAt(code, p, "OpJumpNotTruthy") => JumpAt(new, p, "OpJumpNotTruthy")
  BY DEF Keeps
<1>3. QED BY <1>1, <1>2 DEF Pending, Later

\* What Inv says of the function being compiled.
LEMMA HereIs ==
    ASSUME Inv, control # <<>>
    PROVE  /\ ScopeFits(Scope) /\ Settled(control, Scope)
           /\ control \in Seq(Tasks) /\ control[1] \in Tasks
           /\ control[1].do # "FunctionEnd" => Pending(control[1], Scope.instructions)
           /\ \A i \in 2..Len(control) :
                 /\ control[i] \in Tasks
                 /\ Depth(control, i) = Depth(control, 0) => Pending(control[i], Scope.instructions)
           /\ Len(control) \in Nat \ {0} /\ Head(control) = control[1]
           /\ Len(Scope.instructions) \in Nat
<1>1. Sound(control, scopes) /\ Scope = scopes[Len(scopes)]
  BY DEF Inv, Scope
<1>2. /\ ScopeFits(Scope) /\ Settled(control, Scope)
      /\ control \in Seq(Tasks) /\ control[1] \in Tasks
      /\ control[1].do # "FunctionEnd" => Pending(control[1], Scope.instructions)
      /\ \A i \in 2..Len(control) :
            Depth(control, i) = Depth(control, 0) => Pending(control[i], Scope.instructions)
      /\ Len(control) \in Nat \ {0} /\ Head(control) = control[1]
  BY <1>1, TopSound
<1>3. \A i \in 2..Len(control) : control[i] \in Tasks
  <2>1. \A i \in 2..Len(control) : i \in 1..Len(control)
    BY <1>2
  <2>2. QED BY <1>2, <2>1
<1>4. Len(Scope.instructions) \in Nat
  BY <1>2, ScopeFields DEF ScopeFits
<1>5. QED BY <1>2, <1>3, <1>4

LEMMA StatementTask ==
    \A node \in CompiledNodes :
        node.kind \notin ExpressionKinds =>
            ~Emits(Compile(node)) /\ ~Computes(Compile(node)) /\ Compile(node).do = "Compile"
  BY DEF Emits, Computes, CompilesExpression, Compile

LEMMA BlockTask ==
    \A node \in ProgramNodes \cup BlockNodes \cup StatementNodes :
        /\ Compile(node) \in Tasks /\ Compile(node).do = "Compile"
        /\ ~Emits(Compile(node)) /\ ~Computes(Compile(node))
<1>1. SUFFICES ASSUME NEW node \in ProgramNodes \cup BlockNodes \cup StatementNodes
               PROVE  node \in CompiledNodes /\ node.kind \notin ExpressionKinds
  BY StatementTask, PlannedTasks
<1>2. node \in CompiledNodes
  BY DEF CompiledNodes
<1>3. QED BY <1>2
          DEF ProgramNodes, BlockNodes, StatementNodes, NodesOfKind, ExpressionKinds

LEMMA StatementsStep == ASSUME Inv, CompileStatements PROVE Inv'
<1>1. PICK t, statements : statements = Node.statements /\ t = CompileAll(statements)
  OBVIOUS
<1>2. PICK kind \in {"Program", "BlockStatement"} : NextNode(kind) /\ Unfold(t)
  BY <1>1 DEF CompileStatements
<1>3. /\ control # <<>> /\ control[1].do = "Compile" /\ statements \in Seq(StatementNodes)
      /\ ~Emits(control[1])
  <2>1. Node.statements \in Seq(StatementNodes)
    BY <1>2, NodeIs DEF FieldsFit
  <2>2. QED BY <1>1, <1>2, <2>1, NodeIs DEF Emits, CompilesExpression, ExpressionKinds
<1>4. /\ t \in Seq(Tasks) /\ Len(t) = Len(statements)
      /\ \A i \in 1..Len(t) : t[i].do = "Compile" /\ ~Computes(t[i])
  <2>1. DOMAIN statements = 1..Len(statements) /\ Len(statements) \in Nat
    BY <1>3, LenProperties
  <2>2. \A i \in 1..Len(statements) : statements[i] \in StatementNodes
    BY <1>3
  <2>3. t = [i \in 1..Len(statements) |-> Compile(statements[i])]
    BY <1>1, <2>1 DEF CompileAll
  <2>4. t \in [1..Len(statements) -> Tasks]
    BY <2>2, <2>3, BlockTask
  <2>5. t \in Seq(Tasks) /\ Len(t) = Len(statements)
    BY ONLY <2>1, <2>4, IsASeq, LenProperties
  <2>6. QED BY <2>2, <2>3, <2>5, BlockTask
<1>5. Unfolded(t)
  BY <1>3, <1>4 DEF Unfolded, Placed, Pending, ImportsNone
<1>6. QED BY <1>2, <1>5, UnfoldStep

LEMMA IfStep == ASSUME Inv, CompileIf PROVE Inv'
<1>1. PICK condition, then, t :
        /\ condition = Compile(Node.condition) /\ then = [do |-> "IfThen", node |-> Node]
        /\ t = <<condition, then>>
  OBVIOUS
<1>2. NextNode("IfExpression") /\ Unfold(t)
  BY <1>1 DEF CompileIf
<1>3. Node.condition \in ExpressionNodes
  BY <1>2, NodeIs DEF FieldsFit
<1>4. control # <<>> /\ control[1].do = "Compile" /\ Computes(control[1])
  BY <1>2, NodeIs DEF Computes, CompilesExpression, ExpressionKinds
<1>5. /\ condition \in Tasks /\ Emits(condition)
      /\ condition.do = "Compile"
  BY <1>1, <1>3, ExpressionUses DEF Uses, Compile
<1>6. then \in Tasks /\ then.do = "IfThen"
  BY <1>1, <1>2, NodeIs DEF Tasks, NodesOfKind
<1>7. t \in Seq(Tasks) /\ Len(t) = 2 /\ t[1] = condition /\ t[2] = then
  BY <1>1, <1>5, <1>6
<1>8. ASSUME NEW code PROVE Placed(control, t, code) /\ ImportsNone(t)
  <2>1. \A i \in 1..2 : i = 1 \/ i = 2
    OBVIOUS
  <2>2. Emits(then)
    BY <1>6 DEF Emits
  <2>3. QED BY <1>4, <1>5, <1>6, <1>7, <2>1, <2>2 DEF Placed, Pending, ImportsNone
<1>9. Unfolded(t)
  <2>1. t # <<>> /\ Emits(t[1])
    BY <1>5, <1>7
  <2>2. QED BY <1>4, <1>8, <2>1 DEF Unfolded
<1>10. QED BY <1>2, <1>9, UnfoldStep

LEMMA WhileStep == ASSUME Inv, CompileWhile PROVE Inv'
<1>1. PICK condition, body, t, n :
        /\ condition = Compile(Node.condition) /\ n = Len(Scope.instructions)
        /\ body = [do |-> "WhileBody", node |-> Node, start |-> n]
        /\ t = <<condition, body>>
  OBVIOUS
<1>2. NextNode("WhileStatement") /\ Unfold(t)
  BY <1>1 DEF CompileWhile
<1>3. Node.condition \in ExpressionNodes
  BY <1>2, NodeIs DEF FieldsFit
<1>4. control # <<>> /\ control[1].do = "Compile" /\ n \in Nat
  BY <1>1, <1>2, NodeIs, HereIs
<1>5. /\ condition \in Tasks /\ Emits(condition)
      /\ condition.do = "Compile"
  BY <1>1, <1>3, ExpressionUses DEF Uses, Compile
<1>6. body \in Tasks /\ body.do = "WhileBody" /\ body.start = n
  BY <1>1, <1>2, <1>4, NodeIs DEF Tasks, NodesOfKind
<1>7. t \in Seq(Tasks) /\ Len(t) = 2 /\ t[1] = condition /\ t[2] = body
  BY <1>1, <1>5, <1>6
<1>8. Placed(control, t, Scope.instructions) /\ ImportsNone(t)
  <2>1. \A i \in 1..2 : i = 1 \/ i = 2
    OBVIOUS
  <2>2. Emits(body) /\ ~Computes(body)
    BY <1>6 DEF Emits, Computes, CompilesExpression
  <2>3. Pending(condition, Scope.instructions) /\ Pending(body, Scope.instructions)
    BY <1>1, <1>4, <1>5, <1>6 DEF Pending
  <2>4. QED BY <1>5, <1>6, <1>7, <2>1, <2>2, <2>3 DEF Placed, ImportsNone
<1>9. Unfolded(t)
  <2>1. t # <<>> /\ Emits(t[1])
    <3>1. t # <<>>
      BY ONLY <1>7, EmptySeq
    <3>2. QED BY ONLY <1>5, <1>7, <3>1
  <2>2. Scope = scopes[Len(scopes)]
    BY DEF Scope
  <2>3. QED BY <1>4, <1>8, <2>1, <2>2 DEF Unfolded
<1>10. QED BY <1>2, <1>9, UnfoldStep

-----------------------------------------------------------------------------
(* Emitting, and patching jumps.                                           *)

\* The tasks left of the function being compiled can be done behind this code.
PendingBehind(code) ==
    \A i \in 2..Len(control) : Depth(control, i) = Depth(control, 0) => Pending(control[i], code)

LaterBehind(code) ==
    \A i \in 2..Len(control) : Depth(control, i) = Depth(control, 0) => Later(control[i], code)

LEMMA BehindKept ==
    ASSUME Inv, control # <<>>, NEW new, Keeps(Scope.instructions, new), Len(new) \in Nat
    PROVE  /\ Len(Scope.instructions) <= Len(new) => PendingBehind(new)
           /\ Len(Scope.instructions) < Len(new) => LaterBehind(new)
           /\ Len(Scope.instructions) <= Len(new) + 1 /\ LaterBehind(Scope.instructions)
                => PendingBehind(new)
<1>1. PICK code : code = Scope.instructions
  OBVIOUS
<1>2. /\ Len(code) \in Nat /\ Keeps(code, new)
      /\ \A i \in 2..Len(control) :
            /\ control[i] \in Tasks
            /\ Depth(control, i) = Depth(control, 0) => Pending(control[i], code)
  BY <1>1, HereIs
<1>3. ASSUME NEW i \in 2..Len(control), Depth(control, i) = Depth(control, 0)
      PROVE  /\ Len(code) <= Len(new) => Pending(control[i], new)
             /\ Len(code) < Len(new) => Later(control[i], new)
             /\ Len(code) <= Len(new) + 1 /\ Later(control[i], code) => Pending(control[i], new)
  <2>1. control[i] \in Tasks /\ Pending(control[i], code)
    BY <1>2, <1>3
  <2>2. QED BY ONLY <1>2, <2>1, Len(new) \in Nat, PendingKept
<1>4. QED BY <1>1, <1>3 DEF PendingBehind, LaterBehind

\* Nothing behind a task that does not emit would begin at the end of the code.
LEMMA BehindLater ==
    ASSUME Inv, control # <<>>, ~Emits(control[1])
    PROVE  Ready(Scope) /\ LaterBehind(Scope.instructions)
<1>1. Settled(control, Scope) /\ Len(control) \in Nat
  BY HereIs
<1>2. \A i \in 2..Len(control) : i \in 1..Len(control)
  BY <1>1
<1>3. QED BY <1>1, <1>2 DEF Settled, LaterBehind

LEMMA Emitting ==
    ASSUME Inv, control # <<>>, NEW op \in Opcodes, NEW operands \in Seq(Nat),
           NEW new, new = EmitIn(Scope, op, operands)
    PROVE  /\ ScopeFits(new) /\ Ready(new) /\ Len(new.instructions) \in Nat
           /\ Len(Scope.instructions) \in Nat /\ Len(Scope.instructions) < Len(new.instructions)
           /\ JumpAt(new.instructions, Len(Scope.instructions), op)
           /\ PendingBehind(new.instructions) /\ LaterBehind(new.instructions)
           /\ Keeps(Scope.instructions, new.instructions)
<1>1. ScopeFits(Scope)
  BY HereIs
<1>2. /\ ScopeFits(new) /\ Ready(new) /\ Len(new.instructions) \in Nat
      /\ Len(Scope.instructions) \in Nat /\ Len(Scope.instructions) < Len(new.instructions)
      /\ JumpAt(new.instructions, Len(Scope.instructions), op)
      /\ Keeps(Scope.instructions, new.instructions)
  BY <1>1, EmitKeeps
<1>3. PendingBehind(new.instructions) /\ LaterBehind(new.instructions)
  BY <1>2, BehindKept
<1>4. QED BY <1>2, <1>3

\* The task is done.
LEMMA NothingPlaced == ASSUME NEW code PROVE Placed(control, <<>>, code) /\ ImportsNone(<<>>)
  BY DEF Placed, ImportsNone

LEMMA DoneWriting ==
    ASSUME NEW scope, ScopeFits(scope), Ready(scope) \/ Computes(control[1]),
           PendingBehind(scope.instructions), LaterBehind(scope.instructions) \/ Computes(control[1]),
           control # <<>>, control[1].do \notin {"FunctionEnd", "ImportEnd"}
    PROVE  Written(scope, <<>>)
<1>1. Placed(control, <<>>, scope.instructions) /\ ImportsNone(<<>>)
  BY NothingPlaced
<1>2. Resumes(control, <<>>, scope)
  BY DEF Resumes, LaterBehind
<1>3. QED BY <1>1, <1>2 DEF Written, PendingBehind

LEMMA EmitStep == ASSUME Inv, EmitInstruction PROVE Inv'
<1>1. PICK new : new = EmitIn(Scope, Task.op, Task.operands)
  OBVIOUS
<1>2. NextTask("Emit") /\ Write(new, <<>>)
  BY <1>1, Zenon DEF EmitInstruction
<1>3. /\ control # <<>> /\ control[1].do = "Emit"
      /\ Task.op \in Opcodes /\ Task.operands \in Seq(Nat)
  BY <1>2, NextIs, InstructionTask
<1>4. /\ ScopeFits(new) /\ Ready(new)
      /\ PendingBehind(new.instructions) /\ LaterBehind(new.instructions)
  BY <1>1, <1>3, Emitting
<1>5. Written(new, <<>>)
  BY <1>3, <1>4, DoneWriting
<1>6. /\ scopes' = [scopes EXCEPT ![Len(scopes)] = new] /\ Do(<<>>)
      /\ UNCHANGED <<tables, importedFiles, currentDir>>
  BY <1>2, Zenon DEF Write
<1>7. QED BY <1>5, <1>6, WriteStep

LEMMA ConstantStep ==
    ASSUME Inv, EmitConstant, Len(constants) \in Nat
    PROVE  Inv'
<1>1. PICK operands, new :
        /\ operands = <<Len(constants)>> \o Task.operands
        /\ new = EmitIn(Scope, Task.op, operands)
  OBVIOUS
<1>2. NextTask("Constant")
  BY Zenon DEF EmitConstant
<1>3. /\ control # <<>> /\ control[1].do = "Constant"
      /\ Task.op \in Opcodes /\ Task.operands \in Seq(Nat)
  BY <1>2, NextIs, InstructionTask
<1>4. operands \in Seq(Nat)
  <2>1. <<Len(constants)>> \in Seq(Nat)
    OBVIOUS
  <2>2. QED BY <1>1, <1>3, <2>1, ConcatProperties
<1>5. /\ ScopeFits(new) /\ Ready(new)
      /\ PendingBehind(new.instructions) /\ LaterBehind(new.instructions)
  BY <1>1, <1>3, <1>4, Emitting
<1>6. Written(new, <<>>)
  BY <1>3, <1>5, DoneWriting
<1>7. /\ scopes' = [scopes EXCEPT ![Len(scopes)] =
                      EmitIn(@, Task.op, <<Len(constants)>> \o Task.operands)]
      /\ Do(<<>>) /\ UNCHANGED <<tables, importedFiles, currentDir>>
  BY Zenon DEF EmitConstant
<1>8. scopes' = [scopes EXCEPT ![Len(scopes)] = new]
  BY <1>1, <1>7 DEF Scope
<1>9. QED BY <1>6, <1>7, <1>8, WriteStep

LEMMA TwoPlaced ==
    ASSUME NEW a \in Tasks, NEW b \in Tasks, NEW code, NEW t, t = <<a, b>>,
           {a.do, b.do} \cap {"FunctionEnd", "ImportEnd"} = {},
           ~Computes(a), Computes(b) => Computes(control[1]), Pending(a, code), Pending(b, code)
    PROVE  /\ Placed(control, t, code) /\ ImportsNone(t) /\ t # <<>> /\ t[1] = a
           /\ \A scope : /\ Ready(scope)
                         /\ Later(a, scope.instructions) /\ Later(b, scope.instructions)
                         /\ LaterBehind(scope.instructions)
                         => Resumes(control, t, scope)
<1>1. t \in Seq(Tasks) /\ Len(t) = 2 /\ t[1] = a /\ t[2] = b
  OBVIOUS
<1>2. \A i \in 1..2 : i = 1 \/ i = 2
  OBVIOUS
<1>3. a.do \notin {"FunctionEnd", "ImportEnd"} /\ b.do \notin {"FunctionEnd", "ImportEnd"}
  OBVIOUS
<1>4. Placed(control, t, code) /\ ImportsNone(t)
  BY <1>1, <1>2, <1>3 DEF Placed, ImportsNone
<1>5. ASSUME NEW scope, Ready(scope), Later(a, scope.instructions), Later(b, scope.instructions),
             LaterBehind(scope.instructions)
      PROVE  Resumes(control, t, scope)
  BY <1>1, <1>2, <1>5 DEF Resumes, LaterBehind
<1>6. t # <<>>
  BY <1>1, EmptySeq
<1>7. QED BY <1>1, <1>4, <1>5, <1>6

LEMMA PlaceholderTyped == <<Placeholder>> \in Seq(Nat)
  BY DEF Placeholder

\* The jump over the consequence, or out of the loop.
LEMMA ThenStep == ASSUME Inv, IfThen PROVE Inv'
<1>1. PICK new, then, other, t, n :
        /\ new = EmitIn(Scope, "OpJumpNotTruthy", <<Placeholder>>) /\ n = Len(Scope.instructions)
        /\ then = Compile(Node.consequence)
        /\ other = [do |-> "IfElse", node |-> Node, test |-> n]
        /\ t = <<then, other>>
  OBVIOUS
<1>2. NextTask("IfThen") /\ Write(new, t)
  BY <1>1, Zenon DEF IfThen
<1>3. /\ control # <<>> /\ control[1].do = "IfThen" /\ Computes(control[1])
      /\ Node \in NodesOfKind({"IfExpression"})
  BY <1>2, NextIs, NodeTask DEF Computes, Node
<1>4. /\ ScopeFits(new) /\ Ready(new) /\ n \in Nat
      /\ PendingBehind(new.instructions) /\ LaterBehind(new.instructions)
      /\ JumpAt(new.instructions, n, "OpJumpNotTruthy")
  BY <1>1, <1>3, Emitting, PlaceholderTyped DEF Opcodes
<1>5. then \in Tasks /\ then.do = "Compile" /\ ~Computes(then)
  <2>1. Node.consequence \in BlockNodes
    BY <1>3, TreesAssumption DEF NodesOfKind, FieldsFit
  <2>2. QED BY <1>1, <2>1, BlockTask
<1>6. other \in Tasks /\ other.do = "IfElse" /\ other.test = n
  BY <1>1, <1>3, <1>4 DEF Tasks
<1>7. /\ Pending(then, new.instructions) /\ Later(then, new.instructions)
      /\ Pending(other, new.instructions) /\ Later(other, new.instructions)
  BY <1>4, <1>5, <1>6 DEF Pending, Later
<1>8. /\ Placed(control, t, new.instructions) /\ ImportsNone(t) /\ Resumes(control, t, new)
  BY <1>1, <1>3, <1>4, <1>5, <1>6, <1>7, TwoPlaced
<1>9. Written(new, t)
  BY <1>3, <1>4, <1>8 DEF Written, PendingBehind
<1>10. /\ scopes' = [scopes EXCEPT ![Len(scopes)] = new] /\ Do(t)
       /\ UNCHANGED <<tables, importedFiles, currentDir>>
  BY <1>2, Zenon DEF Write
<1>11. QED BY <1>9, <1>10, WriteStep

LEMMA BodyStep == ASSUME Inv, WhileBody PROVE Inv'
<1>1. PICK new, body, end, t, n :
        /\ new = EmitIn(Scope, "OpJumpNotTruthy", <<Placeholder>>) /\ n = Len(Scope.instructions)
        /\ body = Compile(Node.body)
        /\ end = [do |-> "WhileEnd", start |-> Task.start, test |-> n]
        /\ t = <<body, end>>
  OBVIOUS
<1>2. NextTask("WhileBody") /\ Write(new, t)
  BY <1>1, Zenon DEF WhileBody
<1>3. /\ control # <<>> /\ control[1].do = "WhileBody" /\ Task.start \in Nat /\ Task = control[1]
      /\ Node \in NodesOfKind({"WhileStatement"})
  BY <1>2, NextIs, NodeTask, PlaceTask DEF Node
<1>4. /\ ScopeFits(new) /\ Ready(new) /\ n \in Nat
      /\ PendingBehind(new.instructions) /\ LaterBehind(new.instructions)
      /\ JumpAt(new.instructions, n, "OpJumpNotTruthy")
      /\ n < Len(new.instructions) /\ Len(new.instructions) \in Nat
  BY <1>1, <1>3, Emitting, PlaceholderTyped DEF Opcodes
<1>5. body \in Tasks /\ body.do = "Compile" /\ ~Computes(body)
  <2>1. Node.body \in BlockNodes
    BY <1>3, TreesAssumption DEF NodesOfKind, FieldsFit
  <2>2. QED BY <1>1, <2>1, BlockTask
<1>6. end \in Tasks /\ end.do = "WhileEnd" /\ end.test = n /\ end.start = Task.start
  BY <1>1, <1>3, <1>4 DEF Tasks
<1>7. Task.start <= n
  BY <1>1, <1>3, HereIs DEF Pending
<1>8. /\ Pending(body, new.instructions) /\ Later(body, new.instructions)
      /\ Pending(end, new.instructions) /\ Later(end, new.instructions)
  BY <1>3, <1>4, <1>5, <1>6, <1>7 DEF Pending, Later
<1>9. ~Computes(end)
  BY <1>6 DEF Computes, CompilesExpression
<1>10. /\ Placed(control, t, new.instructions) /\ ImportsNone(t) /\ Resumes(control, t, new)
  <2>1. t = <<body, end>> /\ {body.do, end.do} \cap {"FunctionEnd", "ImportEnd"} = {}
    BY <1>1, <1>5, <1>6
  <2>2. QED BY ONLY <1>4, <1>5, <1>6, <1>8, <1>9, <2>1, TwoPlaced
<1>11. Written(new, t)
  BY <1>3, <1>4, <1>10 DEF Written, PendingBehind
<1>12. /\ scopes' = [scopes EXCEPT ![Len(scopes)] = new] /\ Do(t)
       /\ UNCHANGED <<tables, importedFiles, currentDir>>
  BY <1>2, Zenon DEF Write
<1>13. QED BY <1>11, <1>12, WriteStep

LEMMA WhileEndStep == ASSUME Inv, WhileEnd PROVE Inv'
<1>1. PICK back, new, n :
        /\ back = EmitIn(Scope, "OpJump", <<Task.start>>) /\ n = Len(back.instructions)
        /\ new = changeOperand(back, Task.test, n)
  OBVIOUS
<1>2. NextTask("WhileEnd") /\ Write(new, <<>>)
  BY <1>1, Zenon DEF WhileEnd
<1>3. /\ control # <<>> /\ control[1].do = "WhileEnd" /\ Task = control[1]
      /\ Task.start \in Nat /\ Task.test \in Nat
  BY <1>2, NextIs, PlaceTask
<1>4. /\ ScopeFits(back) /\ Ready(back) /\ n \in Nat
      /\ Len(Scope.instructions) \in Nat /\ Len(Scope.instructions) < n
      /\ Keeps(Scope.instructions, back.instructions)
  <2>1. <<Task.start>> \in Seq(Nat)
    BY <1>3
  <2>2. QED BY <1>1, <1>3, <2>1, Emitting DEF Opcodes
<1>5. JumpAt(back.instructions, Task.test, "OpJumpNotTruthy")
  <2>1. JumpAt(Scope.instructions, Task.test, "OpJumpNotTruthy")
    BY <1>3, HereIs DEF Pending
  <2>2. QED BY <1>4, <2>1 DEF Keeps
<1>6. /\ ScopeFits(new) /\ Ready(new) /\ Len(new.instructions) = n
      /\ Keeps(back.instructions, new.instructions)
  BY <1>1, <1>4, <1>5, PatchKeeps
<1>7. Keeps(Scope.instructions, new.instructions)
  BY <1>4, <1>6 DEF Keeps
<1>8. PendingBehind(new.instructions) /\ LaterBehind(new.instructions)
  BY <1>3, <1>4, <1>6, <1>7, BehindKept
<1>9. Written(new, <<>>)
  BY <1>3, <1>6, <1>8, DoneWriting
<1>10. /\ scopes' = [scopes EXCEPT ![Len(scopes)] = new] /\ Do(<<>>)
       /\ UNCHANGED <<tables, importedFiles, currentDir>>
  BY <1>2, Zenon DEF Write
<1>11. QED BY <1>9, <1>10, WriteStep

\* The consequence keeps its value.
LEMMA ElseStep == ASSUME Inv, IfElse PROVE Inv'
<1>1. PICK value, over, new, other, end, t, n :
        /\ value = DropValuePop(Scope) /\ over = EmitIn(value, "OpJump", <<Placeholder>>)
        /\ n = Len(over.instructions) /\ new = changeOperand(over, Task.test, n)
        /\ other = (IF Node.alternative = <<>> THEN Emit("OpNull", <<>>)
                                               ELSE Compile(Node.alternative[1]))
        /\ end = [do |-> "IfEnd", over |-> Len(value.instructions)]
        /\ t = <<other, end>>
  OBVIOUS
<1>2. NextTask("IfElse") /\ Write(new, t)
  BY <1>1, Zenon DEF IfElse
<1>3. /\ control # <<>> /\ control[1].do = "IfElse" /\ Task = control[1]
      /\ Computes(control[1]) /\ ~Emits(control[1])
      /\ Node \in NodesOfKind({"IfExpression"}) /\ Task.test \in Nat
  BY <1>2, NextIs, NodeTask, PlaceTask DEF Computes, Emits, CompilesExpression, Node
<1>4. /\ ScopeFits(value) /\ Keeps(Scope.instructions, value.instructions)
      /\ Len(Scope.instructions) \in Nat /\ Len(value.instructions) \in Nat
      /\ Len(Scope.instructions) <= Len(value.instructions) + 1
  BY <1>1, <1>3, HereIs, BehindLater, DropKeeps
<1>5. /\ ScopeFits(over) /\ Ready(over) /\ n \in Nat /\ Len(value.instructions) < n
      /\ Keeps(value.instructions, over.instructions)
      /\ JumpAt(over.instructions, Len(value.instructions), "OpJump")
  BY <1>1, <1>4, EmitKeeps, PlaceholderTyped DEF Opcodes
<1>6. JumpAt(over.instructions, Task.test, "OpJumpNotTruthy")
  <2>1. JumpAt(Scope.instructions, Task.test, "OpJumpNotTruthy")
    BY <1>3, HereIs DEF Pending
  <2>2. QED BY <1>4, <1>5, <2>1 DEF Keeps
<1>7. /\ ScopeFits(new) /\ Ready(new) /\ Len(new.instructions) = n
      /\ Keeps(over.instructions, new.instructions)
  BY <1>1, <1>5, <1>6, PatchKeeps
<1>8. Keeps(Scope.instructions, new.instructions) /\ Len(Scope.instructions) <= n
  BY <1>4, <1>5, <1>7 DEF Keeps
<1>9. PendingBehind(new.instructions)
  BY <1>3, <1>5, <1>7, <1>8, BehindKept
<1>10. LaterBehind(new.instructions)
  <2>1. LaterBehind(Scope.instructions)
    BY <1>3, BehindLater
  <2>2. \A i \in 2..Len(control) : Later(control[i], Scope.instructions) => Later(control[i], new.instructions)
    <3>1. \A i \in 2..Len(control) : control[i] \in Tasks
      BY <1>3, HereIs
    <3>2. QED BY <1>4, <1>5, <1>7, <1>8, <3>1, PlaceTask DEF Later
  <2>3. QED BY <2>1, <2>2 DEF LaterBehind
<1>11. other \in Tasks /\ other.do \in {"Compile", "Emit"} /\ ~Computes(other)
  <2>1. CASE Node.alternative = <<>>
    BY <1>1, <2>1, EmitPlain DEF Finals, Uses, Emit, Opcodes
  <2>2. CASE Node.alternative # <<>>
    <3>1. Node.alternative \in Seq(BlockNodes)
      BY <1>3, TreesAssumption DEF NodesOfKind, FieldsFit
    <3>2. Node.alternative[1] \in BlockNodes
      BY <2>2, <3>1, EmptySeq
    <3>3. QED BY <1>1, <2>2, <3>2, BlockTask
  <2>3. QED BY <2>1, <2>2
<1>12. end \in Tasks /\ end.do = "IfEnd" /\ end.over = Len(value.instructions)
  BY <1>1, <1>4 DEF Tasks
<1>13. /\ Pending(other, new.instructions) /\ Later(other, new.instructions)
       /\ Pending(end, new.instructions) /\ Later(end, new.instructions)
  <2>1. JumpAt(new.instructions, Len(value.instructions), "OpJump")
    BY <1>5, <1>7 DEF Keeps
  <2>2. QED BY <1>11, <1>12, <2>1 DEF Pending, Later
<1>14. /\ Placed(control, t, new.instructions) /\ ImportsNone(t) /\ Resumes(control, t, new)
  BY <1>1, <1>3, <1>7, <1>10, <1>11, <1>12, <1>13, TwoPlaced, SMTT(30)
<1>15. Written(new, t)
  BY <1>3, <1>7, <1>9, <1>14 DEF Written, PendingBehind
<1>16. /\ scopes' = [scopes EXCEPT ![Len(scopes)] = new] /\ Do(t)
       /\ UNCHANGED <<tables, importedFiles, currentDir>>
  BY <1>2, Zenon DEF Write
<1>17. QED BY <1>15, <1>16, WriteStep

\* The alternative keeps its value.
LEMMA IfEndStep == ASSUME Inv, IfEnd PROVE Inv'
<1>1. PICK value, new, n :
        /\ value = DropValuePop(Scope) /\ n = Len(value.instructions)
        /\ new = changeOperand(value, Task.over, n)
  OBVIOUS
<1>2. NextTask("IfEnd") /\ Write(new, <<>>)
  BY <1>1, Zenon DEF IfEnd
<1>3. /\ control # <<>> /\ control[1].do = "IfEnd" /\ Task = control[1]
      /\ Computes(control[1]) /\ ~Emits(control[1]) /\ Task.over \in Nat
  BY <1>2, NextIs, PlaceTask DEF Computes, Emits, CompilesExpression
<1>4. /\ ScopeFits(value) /\ Keeps(Scope.instructions, value.instructions)
      /\ Len(Scope.instructions) \in Nat /\ n \in Nat
      /\ Len(Scope.instructions) <= n + 1
  BY <1>1, <1>3, HereIs, BehindLater, DropKeeps
<1>5. JumpAt(value.instructions, Task.over, "OpJump")
  <2>1. JumpAt(Scope.instructions, Task.over, "OpJump")
    BY <1>3, HereIs DEF Pending
  <2>2. QED BY <1>4, <2>1 DEF Keeps
<1>6. ScopeFits(new) /\ Len(new.instructions) = n /\ Keeps(value.instructions, new.instructions)
  BY <1>1, <1>4, <1>5, PatchKeeps
<1>7. Keeps(Scope.instructions, new.instructions)
  BY <1>4, <1>6 DEF Keeps
<1>8. PendingBehind(new.instructions)
  BY <1>3, <1>4, <1>6, <1>7, BehindKept, BehindLater
<1>9. Written(new, <<>>)
  BY <1>3, <1>6, <1>8, DoneWriting
<1>10. /\ scopes' = [scopes EXCEPT ![Len(scopes)] = new] /\ Do(<<>>)
       /\ UNCHANGED <<tables, importedFiles, currentDir>>
  BY <1>2, Zenon DEF Write
<1>11. QED BY <1>9, <1>10, WriteStep

-----------------------------------------------------------------------------
(* Functions.                                                              *)

LEMMA FunctionStep == ASSUME Inv, CompileFunction PROVE Inv'
<1>1. PICK body, end, t, named :
        /\ body = Compile(Node.body) /\ end = [do |-> "FunctionEnd", node |-> Node]
        /\ t = <<body, end>> /\ named = Named(NewEnclosedSymbolTable(tables), Node.name)
  OBVIOUS
<1>2. /\ NextNode("FunctionLiteral") /\ scopes' = Append(scopes, EmptyScope)
      /\ tables' = DefineEach(named, Node.parameters)
      /\ Do(t) /\ UNCHANGED <<importedFiles, currentDir>>
  BY <1>1, Zenon DEF CompileFunction
<1>3. /\ control \in Seq(Tasks) /\ control # <<>> /\ control[1].do = "Compile"
      /\ Node \in NodesOfKind({"FunctionLiteral"}) /\ Node.body \in BlockNodes
      /\ Node.name \in Names \cup {Anonymous} /\ Node.parameters \in Seq(Names)
  BY <1>2, NodeIs DEF NodesOfKind, FieldsFit
<1>4. /\ body \in Tasks /\ body.do = "Compile" /\ ~Computes(body)
      /\ end \in Tasks /\ end.do = "FunctionEnd"
  BY <1>1, <1>3, BlockTask DEF Tasks
<1>5. t \in Seq(Tasks) /\ Len(t) = 2 /\ t[1] = body /\ t[2] = end
  BY <1>1, <1>4
<1>6. /\ Sound(control, scopes) /\ SoundImports(control, importedFiles, currentDir)
      /\ tables \in Seq(TableType) /\ Len(tables) = Len(scopes)
  BY DEF Inv, SoundTables
<1>7. control' = t \o Tail(control)
  BY <1>2 DEF Do
<1>8. Sound(control', scopes') /\ Len(scopes') = Len(scopes) + 1
  <2>1. control[1].do # "FunctionEnd" /\ ~Computes(t[1]) /\ t[1].do = "Compile" /\ t[2].do = "FunctionEnd"
    BY <1>3, <1>4, <1>5
  <2>2. PICK s, opened : s = t \o Tail(control) /\ opened = Append(scopes, EmptyScope)
    OBVIOUS
  <2>3. Sound(control, scopes) /\ control # <<>> /\ t \in Seq(Tasks) /\ Len(t) = 2
    BY <1>3, <1>5, <1>6
  <2>4. Sound(s, opened)
    BY ONLY <2>1, <2>2, <2>3, SoundOpened
  <2>5. Len(opened) = Len(scopes) + 1
    BY ONLY <2>1, <2>2, <2>3, SoundOpened
  <2>6. QED BY <1>2, <1>7, <2>2, <2>4, <2>5
<1>9. SoundImports(control', importedFiles', currentDir')
  <2>1. ImportsNone(t) /\ control[1].do # "ImportEnd"
    <3>1. \A i \in 1..2 : i = 1 \/ i = 2
      OBVIOUS
    <3>2. QED BY <1>3, <1>4, <1>5, <3>1 DEF ImportsNone
  <2>2. QED BY <1>2, <1>3, <1>5, <1>6, <1>7, <2>1, ImportsUnmoved
<1>10. SoundTables(tables', scopes')
  <2>1. \/ named = NewEnclosedSymbolTable(tables)
        \/ \E self \in Names : named = DefineFunctionName(NewEnclosedSymbolTable(tables), self)
    BY <1>1, <1>3 DEF Named
  <2>2. tables' \in Seq(TableType) /\ Len(tables') = Len(tables) + 1
    BY <1>2, <1>3, <1>6, <2>1, EnteredTyped
  <2>3. QED BY <1>6, <1>8, <2>2 DEF SoundTables
<1>11. QED BY <1>8, <1>9, <1>10 DEF Inv

\* The function around it loads what was captured, and makes the closure.
LEMMA FunctionEndStep == ASSUME Inv, FunctionEnd PROVE Inv'
<1>1. PICK free, fn, loads, make, t :
        /\ free = Last(tables).FreeSymbols
        /\ fn = CompiledFunction(Returning(Scope).instructions, Last(tables).numDefinitions,
                                 Len(Node.parameters))
        /\ loads = [i \in DOMAIN free |-> loadSymbol(free[i])]
        /\ make = MakeClosure(fn, Len(free)) /\ t = loads \o <<make>>
  OBVIOUS
<1>2. /\ NextTask("FunctionEnd") /\ Do(t) /\ scopes' = Front(scopes) /\ tables' = Front(tables)
      /\ UNCHANGED <<importedFiles, currentDir>>
  BY <1>1, Zenon DEF FunctionEnd, leaveScope
<1>3. /\ control \in Seq(Tasks) /\ control # <<>> /\ control[1].do = "FunctionEnd"
      /\ Node \in NodesOfKind({"FunctionLiteral"})
  BY <1>2, NextIs, NodeTask DEF Node
<1>4. /\ Sound(control, scopes) /\ SoundImports(control, importedFiles, currentDir)
      /\ tables \in Seq(TableType) /\ Len(tables) = Len(scopes) /\ Len(scopes) \in Nat \ {0}
  BY DEF Inv, SoundTables, Sound
<1>5. free \in Seq(SymbolType) /\ Last(tables).numDefinitions \in Nat
  <2>1. Last(tables) \in TableType
    BY <1>4 DEF Last
  <2>2. QED BY <1>1, <2>1, TableFields
<1>6. fn \in Objects
  <2>1. Returning(Scope).instructions \in Seq(Cells)
    BY <1>3, HereIs, ReturningCells
  <2>2. Len(Node.parameters) \in Nat
    <3>1. Node.parameters \in Seq(Names)
      BY <1>3, TreesAssumption DEF NodesOfKind, FieldsFit
    <3>2. QED BY <3>1
  <2>3. fn \in [type : {"COMPILED_FUNCTION_OBJ"}, instructions : Seq(Cells),
                numLocals : Nat, numParameters : Nat]
    BY <1>1, <1>5, <2>1, <2>2 DEF CompiledFunction
  <2>4. QED BY <2>3 DEF Objects
<1>7. /\ loads \in Seq(Tasks) /\ Len(loads) = Len(free)
      /\ \A i \in 1..Len(loads) : loads[i].do = "Emit"
  <2>1. Len(free) \in Nat /\ DOMAIN free = 1..Len(free)
    BY <1>5, LenProperties
  <2>2. \A i \in 1..Len(free) : free[i] \in SymbolType
    BY <1>5
  <2>3. \A s \in SymbolType : loadSymbol(s) \in Tasks /\ loadSymbol(s).do = "Emit"
    <3>1. \A s \in SymbolType : s.scope \in Scopes
      BY DEF SymbolType
    <3>2. \A s \in SymbolType : loadSymbol(s).do = "Emit"
      BY <3>1 DEF loadSymbol, Emit, Scopes
    <3>3. QED BY <3>2, SymbolFinal, UsesAreTasks
  <2>4. loads = [i \in 1..Len(free) |-> loadSymbol(free[i])]
    BY <1>1, <2>1
  <2>5. loads \in [1..Len(free) -> Tasks]
    BY <2>2, <2>3, <2>4
  <2>6. loads \in Seq(Tasks) /\ Len(loads) = Len(free)
    BY ONLY <2>1, <2>5, IsASeq, LenProperties
  <2>7. QED BY <2>2, <2>3, <2>4, <2>6
<1>8. make \in Tasks /\ make.do = "Constant"
  <2>1. Len(free) \in Nat
    BY <1>5, LenProperties
  <2>2. QED BY <1>1, <1>6, <2>1, PlannedTasks DEF MakeClosure
<1>9. /\ t \in Seq(Tasks) /\ t # <<>> /\ Len(t) \in Nat
      /\ \A i \in 1..Len(t) : t[i].do \in {"Emit", "Constant"}
  <2>1. PICK n : n = Len(loads) /\ n \in Nat
    BY <1>7, LenProperties
  <2>2. t = Append(loads, make)
    BY <1>1, <1>7, <1>8
  <2>3. /\ t \in Seq(Tasks) /\ Len(t) = n + 1 /\ t[n + 1] = make
        /\ \A i \in 1..n : t[i] = loads[i]
    BY <1>7, <1>8, <2>1, <2>2, AppendProperties
  <2>4. \A i \in 1..(n + 1) : i \in 1..n \/ i = n + 1
    BY <2>1
  <2>5. t # <<>>
    BY <2>1, <2>3, EmptySeq
  <2>6. QED BY <1>7, <1>8, <2>1, <2>3, <2>4, <2>5
<1>10. control' = t \o Tail(control)
  BY <1>2 DEF Do
<1>11. Sound(control', scopes') /\ Len(scopes') = Len(scopes) - 1
  <2>1. PICK s, closed : s = t \o Tail(control) /\ closed = Front(scopes)
    OBVIOUS
  <2>2. /\ Sound(control, scopes) /\ control # <<>> /\ control[1].do = "FunctionEnd"
        /\ t \in Seq(Tasks) /\ t # <<>> /\ \A i \in 1..Len(t) : t[i].do \in {"Emit", "Constant"}
    BY <1>3, <1>4, <1>9
  <2>3. Sound(s, closed)
    BY ONLY <2>1, <2>2, SoundClosed
  <2>4. Len(closed) = Len(scopes) - 1
    <3>1. scopes \in Seq(ScopeType) /\ Len(scopes) - 1 \in 0..Len(scopes)
      BY <1>4 DEF Sound
    <3>2. closed = SubSeq(scopes, 1, Len(scopes) - 1)
      BY <2>1 DEF Front
    <3>3. QED BY ONLY <3>1, <3>2, <1>4, SubSeqProperties
  <2>5. QED BY <1>2, <1>10, <2>1, <2>3, <2>4
<1>12. SoundImports(control', importedFiles', currentDir')
  <2>1. ImportsNone(t) /\ control[1].do # "ImportEnd"
    BY <1>3, <1>9 DEF ImportsNone
  <2>2. QED BY <1>2, <1>3, <1>4, <1>9, <1>10, <2>1, ImportsUnmoved
<1>13. SoundTables(tables', scopes')
  <2>1. tables' = SubSeq(tables, 1, Len(tables) - 1)
    BY <1>2 DEF Front
  <2>2. tables' \in Seq(TableType) /\ Len(tables') = Len(tables) - 1
    <3>1. Len(tables) \in Nat /\ Len(tables) - 1 \in 0..Len(tables)
      BY <1>4
    <3>2. QED BY <1>4, <2>1, <3>1, SubSeqProperties
  <2>3. QED BY <1>4, <1>11, <2>2 DEF SoundTables
<1>14. QED BY <1>11, <1>12, <1>13 DEF Inv

-----------------------------------------------------------------------------
(* Imports.                                                                *)

LEMMA ImportStep == ASSUME Inv, CompileImport PROVE Inv'
<1>1. PICK file : file = FullPath[currentDir][Node.path]
  OBVIOUS
<1>2. NextNode("ImportStatement")
  BY Zenon DEF CompileImport
<1>3. /\ control \in Seq(Tasks) /\ control # <<>> /\ control[1].do = "Compile"
      /\ ~Emits(control[1]) /\ Node \in NodesOfKind({"ImportStatement"})
  BY <1>2, NodeIs DEF Emits, CompilesExpression, ExpressionKinds, NodesOfKind
<1>4. /\ Sound(control, scopes) /\ SoundImports(control, importedFiles, currentDir)
      /\ SoundTables(tables, scopes) /\ currentDir \in Directories
      /\ importedFiles \subseteq DOMAIN Files
  BY DEF Inv, SoundImports
<1>5. file \in DOMAIN Files
  BY <1>1, <1>3, <1>4, FilesAssumption
<1>6. CASE file \in importedFiles
  <2>1. Unfold(<<>>)
    BY <1>1, <1>6, Zenon DEF CompileImport
  <2>2. Unfolded(<<>>)
    BY <1>3, NothingPlaced DEF Unfolded
  <2>3. QED BY <2>1, <2>2, UnfoldStep
<1>7. CASE file \notin importedFiles /\ Files[file] \in {Unreadable, Unparsable}
  <2>1. /\ UNCHANGED <<control, tables, scopes, currentDir>>
        /\ importedFiles' = Mark(file)
    BY <1>1, <1>7, Zenon DEF CompileImport
  <2>2. SoundImports(control, importedFiles', currentDir)
    BY <1>4, <1>5, <2>1 DEF SoundImports, Mark
  <2>3. QED BY <1>4, <2>1, <2>2 DEF Inv
<1>8. CASE file \notin importedFiles /\ Files[file] \notin {Unreadable, Unparsable}
  <2>1. PICK tree, end, t :
          /\ tree = Compile(Files[file])
          /\ end = [do |-> "ImportEnd", dir |-> currentDir, file |-> file]
          /\ t = <<tree, end>>
    OBVIOUS
  <2>2. /\ importedFiles' = Mark(file) /\ currentDir' = DirOf[file] /\ Do(t)
        /\ UNCHANGED <<tables, scopes>>
    BY <1>1, <1>8, <2>1, Zenon DEF CompileImport
  <2>3. Files[file] \in ProgramNodes
    BY <1>5, <1>8, FilesAssumption
  <2>4. tree \in Tasks /\ tree.do = "Compile" /\ ~Computes(tree)
    BY <2>1, <2>3, BlockTask
  <2>5. end \in Tasks /\ end.do = "ImportEnd" /\ end.dir = currentDir /\ end.file = file
    BY <1>4, <1>5, <2>1 DEF Tasks
  <2>6. t \in Seq(Tasks) /\ Len(t) = 2 /\ t[1] = tree /\ t[2] = end
    BY <2>1, <2>4, <2>5
  <2>7. control' = t \o Tail(control)
    BY <2>2 DEF Do
  <2>8. \A i \in 1..2 : i = 1 \/ i = 2
    OBVIOUS
  <2>9. Placed(control, t, scopes[Len(scopes)].instructions)
    <3>1. ~Computes(end)
      BY <2>5 DEF Computes, CompilesExpression
    <3>2. QED BY <2>4, <2>5, <2>6, <2>8, <3>1 DEF Placed, Pending
  <2>10. Sound(control', scopes)
    <3>1. \A i \in 1..Len(t) : t[i].do \notin {"WhileBody", "WhileEnd"}
      BY <2>4, <2>5, <2>6, <2>8
    <3>2. QED BY <1>3, <1>4, <2>7, <2>9, <3>1, SoundUnfold
  <2>11. SoundImports(control', importedFiles \cup {file}, DirOf[file])
    BY <1>3, <1>4, <1>5, <1>8, <2>4, <2>5, <2>6, <2>7, ImportOpened
  <2>12. QED BY <1>4, <2>2, <2>10, <2>11 DEF Inv, Mark
<1>9. QED BY <1>6, <1>7, <1>8

LEMMA ImportEndStep == ASSUME Inv, ImportEnd PROVE Inv'
<1>1. /\ NextTask("ImportEnd") /\ currentDir' = Task.dir /\ Do(<<>>)
      /\ UNCHANGED <<tables, scopes, importedFiles>>
  BY Zenon DEF ImportEnd
<1>2. /\ control \in Seq(Tasks) /\ control # <<>> /\ control[1].do = "ImportEnd"
      /\ Task = control[1] /\ ~Emits(control[1])
  BY <1>1, NextIs DEF Emits, CompilesExpression
<1>3. /\ Sound(control, scopes) /\ SoundImports(control, importedFiles, currentDir)
      /\ SoundTables(tables, scopes)
  BY DEF Inv
<1>4. PICK t : t = <<>> /\ control' = t \o Tail(control)
  BY <1>1 DEF Do
<1>5. Placed(control, t, scopes[Len(scopes)].instructions)
  BY <1>4, NothingPlaced
<1>6. Sound(control', scopes)
  <2>1. \A i \in 1..Len(t) : t[i].do \notin {"WhileBody", "WhileEnd"}
    BY <1>4
  <2>2. control[1].do # "FunctionEnd" /\ (Emits(control[1]) => t # <<>>)
    BY <1>2
  <2>3. QED BY <1>2, <1>3, <1>4, <1>5, <2>1, <2>2, SoundUnfold
<1>7. SoundImports(control', importedFiles, control[1].dir)
  BY <1>2, <1>3, <1>4, ImportClosed
<1>8. QED BY <1>1, <1>2, <1>3, <1>6, <1>7 DEF Inv

-----------------------------------------------------------------------------
(* The invariant holds in every state.                                     *)

\* What New or NewWithState, and Compile, start with.
LEMMA StartSound ==
    ASSUME NEW tree \in Trees, NEW chain \in Seq(TableType), Len(chain) = 1
    PROVE  /\ Sound(<<Compile(tree)>>, <<EmptyScope>>) /\ SoundTables(chain, <<EmptyScope>>)
           /\ SoundImports(<<Compile(tree)>>, {}, BaseDir)
<1>1. PICK task, c, open :
        task = Compile(tree) /\ c = <<task>> /\ open = <<EmptyScope>>
  OBVIOUS
<1>2. task \in Tasks /\ task.do = "Compile" /\ ~Emits(task) /\ ~Computes(task)
  <2>1. tree \in ProgramNodes
    BY TreesAssumption
  <2>2. QED BY <1>1, <2>1, BlockTask
<1>3. c \in Seq(Tasks) /\ Len(c) = 1 /\ c[1] = task
  BY <1>1, <1>2
<1>4. EndsBehind(c, 0) = {} /\ ImportsBehind(c, 0) = {}
  <2>1. \A i \in 1..1 : i = 1
    OBVIOUS
  <2>2. QED BY <1>2, <1>3, <2>1 DEF EndsBehind, ImportsBehind
<1>5. Depth(c, 0) = 1
  BY <1>4, FS_EmptySet DEF Depth
<1>6. /\ open \in Seq(ScopeType) /\ Len(open) = 1 /\ open[1] = EmptyScope
      /\ ScopeFits(EmptyScope) /\ Ready(EmptyScope)
  BY <1>1, EmptyScopeFits DEF ScopeFits
<1>7. Sound(c, open)
  <2>1. \A i \in 1..1 : i = 1
    OBVIOUS
  <2>2. Followed(c)
    BY <1>2, <1>3, <2>1 DEF Followed
  <2>3. \A code : Pending(task, code) /\ Later(task, code)
    BY <1>2 DEF Pending, Later
  <2>4. Settled(c, EmptyScope)
    BY <1>3, <1>6, <2>1, <2>3 DEF Settled
  <2>5. \A k \in 1..Len(open) : ScopeFits(open[k])
    BY <1>6, <2>1
  <2>6. \A i \in 1..Len(c) : Pending(c[i], open[Depth(c, i)].instructions)
    BY <1>3, <2>1, <2>3
  <2>7. QED BY <1>3, <1>5, <1>6, <2>2, <2>4, <2>5, <2>6 DEF Sound
<1>8. SoundTables(chain, open)
  BY <1>6 DEF SoundTables
<1>9. SoundImports(c, {}, BaseDir)
  BY <1>4 DEF SoundImports, RightDir, Directories
<1>10. QED BY <1>1, <1>7, <1>8, <1>9

LEMMA InitInv == ASSUME Init PROVE Inv /\ SoundConstants
<1>1. PICK tree, chain :
          /\ tree \in Trees /\ chain = DefineBuiltins(NewSymbolTable, Builtins)
          /\ Start(tree, chain, <<>>, BaseDir)
  BY Zenon DEF Init
<1>2. /\ control = <<Compile(tree)>> /\ scopes = <<EmptyScope>> /\ tables = chain
      /\ constants = <<>> /\ importedFiles = {} /\ currentDir = BaseDir
  BY <1>1, Zenon DEF Start
<1>3. chain \in Seq(TableType) /\ Len(chain) = 1
  BY <1>1, BuiltinsTyped
<1>4. tree \in Trees
  BY <1>1, Zenon
<1>5. QED BY <1>2, <1>3, <1>4, StartSound DEF Inv, SoundConstants

\* Only EmitConstant adds a constant, and it is one of the tasks' objects.
LEMMA ConstantsGrow ==
    ASSUME Inv, Next
    PROVE  UNCHANGED constants \/ \E object \in Objects : constants' = Append(constants, object)
<1>1. CASE EmitConstant
  <2>1. NextTask("Constant") /\ constants' = Append(constants, Task.object)
    BY <1>1, Zenon DEF EmitConstant
  <2>2. Task.object \in Objects
    <3>1. \A task \in Tasks : task.do = "Constant" => task.object \in Objects
      BY DEF Tasks
    <3>2. QED BY <2>1, <3>1, NextIs
  <2>3. QED BY <2>1, <2>2
<1>2. ASSUME NEW tasks, Unfold(tasks) PROVE UNCHANGED constants
  BY <1>2, Zenon DEF Unfold
<1>3. ASSUME NEW scope, NEW tasks, Write(scope, tasks) PROVE UNCHANGED constants
  BY <1>3, Zenon DEF Write
<1>4. ASSUME NEW cause, Stop(cause) PROVE UNCHANGED constants
  BY <1>4, Zenon DEF Stop
<1>5. CASE \/ CompileStatements \/ CompileExpressionStatement \/ CompileInfix \/ CompilePrefix
           \/ CompileLiteral \/ CompileBoolean \/ CompileArray \/ CompileIndex
           \/ CompileReturn \/ CompileCall \/ CompileAttribute \/ CompileAssign
           \/ CompileIf \/ CompileWhile
  <2>1. \E tasks : Unfold(tasks)
    BY <1>5, Zenon
       DEF CompileStatements, CompileExpressionStatement, CompileInfix, CompilePrefix,
           CompileLiteral, CompileBoolean, CompileArray, CompileIndex, CompileReturn,
           CompileCall, CompileAttribute, CompileAssign, CompileIf, CompileWhile
  <2>2. QED BY <1>2, <2>1
<1>6. CASE CompileDict
  <2>1. \E tasks : Unfold(tasks)
    BY <1>6, Zenon DEF CompileDict
  <2>2. QED BY <1>2, <2>1
<1>7. CASE EmitInstruction \/ IfThen \/ IfElse \/ IfEnd \/ WhileBody \/ WhileEnd
  <2>1. \E scope, tasks : Write(scope, tasks)
    BY <1>7, Zenon DEF EmitInstruction, IfThen, IfElse, IfEnd, WhileBody, WhileEnd
  <2>2. QED BY <1>3, <2>1
<1>8. CASE UnknownOperator \/ CompileIdentifier \/ AssignTarget
  <2>1. UNCHANGED constants \/ \E cause : Stop(cause)
    BY <1>8, Zenon DEF UnknownOperator, CompileIdentifier, AssignTarget
  <2>2. QED BY <1>4, <2>1
<1>9. CASE CompileVar \/ CompileFunction \/ FunctionEnd \/ ImportEnd
  <2>1. UNCHANGED constants
    BY <1>9, Zenon DEF CompileVar, CompileFunction, FunctionEnd, ImportEnd
  <2>2. QED BY <2>1
<1>10. CASE CompileImport
  <2>1. UNCHANGED constants \/ Unfold(<<>>)
    BY <1>10, Zenon DEF CompileImport
  <2>2. QED BY <1>2, <2>1
<1>11. QED BY <1>1, <1>5, <1>6, <1>7, <1>8, <1>9, <1>10 DEF Next

LEMMA ConstantsKept == ASSUME Inv, SoundConstants, Next PROVE SoundConstants'
<1>1. CASE UNCHANGED constants
  BY <1>1 DEF SoundConstants
<1>2. ASSUME NEW object \in Objects, constants' = Append(constants, object) PROVE SoundConstants'
  BY <1>2, AppendProperties DEF SoundConstants
<1>3. QED BY <1>1, <1>2, ConstantsGrow

LEMMA NextInv == ASSUME Inv, SoundConstants, [Next]_vars PROVE Inv' /\ SoundConstants'
<1>1. CASE UNCHANGED vars
  BY <1>1 DEF vars, Inv, SoundConstants
<1>2. CASE Next
  <2>1. Len(constants) \in Nat
    BY LenProperties DEF SoundConstants
  <2>2. Inv'
    BY <1>2, <2>1, EmitStep, ConstantStep, OperatorStep, StatementsStep, ExpressionStatementStep,
       InfixStep, PrefixStep, LiteralStep, BooleanStep, ArrayStep, DictStep, IndexStep,
       ReturnStep, CallStep, AttributeStep, VarStep, IdentifierStep, AssignStep, TargetStep,
       IfStep, ThenStep, ElseStep, IfEndStep, WhileStep, BodyStep, WhileEndStep,
       FunctionStep, FunctionEndStep, ImportStep, ImportEndStep
       DEF Next
  <2>3. QED BY <1>2, <2>2, ConstantsKept
<1>3. QED BY <1>1, <1>2

LEMMA SpecInv == Spec => []Inv
<1>1. Init => Inv /\ SoundConstants
  BY InitInv
<1>2. Inv /\ SoundConstants /\ [Next]_vars => (Inv /\ SoundConstants)'
  BY NextInv
<1>3. QED BY <1>1, <1>2, PTL DEF Spec

-----------------------------------------------------------------------------
(* What follows from it.                                                   *)

LEMMA InvTypes == ASSUME Inv PROVE TypeOK
<1>1. /\ Sound(control, scopes) /\ SoundTables(tables, scopes)
      /\ SoundImports(control, importedFiles, currentDir)
  BY DEF Inv
<1>2. scopes \in Seq(ScopeType) /\ DepthOf(0) = Len(scopes)
  BY <1>1, DepthIs DEF Sound
<1>3. QED BY <1>1, <1>2 DEF TypeOK, SoundTables, SoundImports, ScopeType

(* There is one code buffer per symbol table, every buffer holds cells,    *)
(* and as many functions are open as the tasks left will end, whatever     *)
(* program is compiled and however its functions nest.                     *)
THEOREM TypeCorrect == Spec => []TypeOK
<1>1. QED BY InvTypes, SpecInv, PTL

(* The last instruction the compiler remembers is the last one of the      *)
(* code, in every open function: an OpPop is taken back only where the     *)
(* instruction before it is remembered too, because between two such       *)
(* places an instruction is always emitted.                                *)
THEOREM LastAccurate == Spec => []LastInstructionAccurate
<1>1. Inv => LastInstructionAccurate
  <2>1. SUFFICES ASSUME Inv, NEW k \in DOMAIN scopes, scopes[k].instructions # <<>>
                 PROVE  Ends(scopes[k].instructions, scopes[k].last, Len(scopes[k].instructions))
    BY DEF LastInstructionAccurate, Ends, ToSet
  <2>2. scopes \in Seq(ScopeType) /\ \A i \in 1..Len(scopes) : ScopeFits(scopes[i])
    BY <2>1 DEF Inv, Sound
  <2>3. k \in 1..Len(scopes)
    BY <2>1, <2>2
  <2>4. QED BY <2>1, <2>2, <2>3 DEF ScopeFits
<1>2. QED BY <1>1, SpecInv, PTL

(* Every jump that waits for its target is still where it was emitted, in  *)
(* the code of its function, whatever was emitted or taken back since.     *)
THEOREM JumpsIntact == Spec => []PendingJumpsIntact
<1>1. Inv => PendingJumpsIntact
  <2>1. SUFFICES ASSUME Inv, NEW i \in DOMAIN control
                 PROVE  Pending(control[i], scopes[DepthOf(i)].instructions)
    BY DEF PendingJumpsIntact, Pending, JumpAt
  <2>2. /\ control \in Seq(Tasks)
        /\ \A j \in 1..Len(control) : Pending(control[j], scopes[Depth(control, j)].instructions)
    BY <2>1 DEF Inv, Sound
  <2>3. i \in 1..Len(control) /\ DepthOf(i) = Depth(control, i)
    BY <2>1, <2>2, DepthIs
  <2>4. QED BY <2>2, <2>3
<1>2. QED BY <1>1, SpecInv, PTL

LEMMA OpenImportsAre == Inv => OpenImports = ImportsBehind(control, 0)
<1>1. SUFFICES ASSUME Inv PROVE OpenImports = ImportsBehind(control, 0)
  OBVIOUS
<1>2. control \in Seq(Tasks) /\ DOMAIN control = 1..Len(control) /\ 0 + 1 = 1
  BY <1>1 DEF Inv, Sound
<1>3. QED BY <1>2 DEF OpenImports, ImportsBehind

(* The current directory is that of the file being compiled, at every      *)
(* depth: the end of an import restores the one before.                    *)
THEOREM ImportsAlwaysRelative == Spec => []ImportsRelative
<1>1. Inv => ImportsRelative
  <2>1. SUFFICES ASSUME Inv PROVE ImportsRelative
    OBVIOUS
  <2>2. PICK S : S = OpenImports /\ S = ImportsBehind(control, 0)
    BY <2>1, OpenImportsAre
  <2>3. RightDir(control, 0, currentDir) /\ control \in Seq(Tasks)
    BY <2>1 DEF Inv, SoundImports, Sound
  <2>4. S \subseteq Nat
    BY <2>2, <2>3 DEF ImportsBehind
  <2>5. CASE S = {}
    BY <2>2, <2>3, <2>5 DEF ImportsRelative, RightDir
  <2>6. CASE S # {}
    <3>1. \E x \in S : \A y \in S : x <= y
      BY <2>4, <2>6, LeastExists
    <3>2. Min(S) \in S /\ \A y \in S : Min(S) <= y
      BY <3>1 DEF Min
    <3>3. currentDir = DirOf[control[Min(S)].file]
      BY <2>2, <2>3, <3>2 DEF RightDir
    <3>4. QED BY <2>2, <2>6, <3>3 DEF ImportsRelative
  <2>7. QED BY <2>5, <2>6
<1>2. QED BY <1>1, SpecInv, PTL

(* No file is compiled inside itself: the files that are open are all      *)
(* marked as imported, and a marked file is not opened again.              *)
THEOREM NoneInsideItself == Spec => []NoImportInsideItself
<1>1. Inv => NoImportInsideItself
  BY OpenImportsAre DEF Inv, SoundImports, NoImportInsideItself
<1>2. QED BY <1>1, SpecInv, PTL

-----------------------------------------------------------------------------
(* What the code stores into.                                              *)
(*                                                                         *)
(* With n global slots given to names, an OpSetGlobal names one of the n,  *)
(* in the code and in the plan of work, and each instruction has the       *)
(* operands it takes.  Slots are never taken back, so that what fits goes  *)
(* on doing so.                                                            *)

FitCells(n) ==
    {cell \in Cells : /\ cell.op \in Opcodes => Len(cell.args) = Len(OperandWidths(cell.op))
                      /\ cell.op = "OpSetGlobal" => cell.args[1] < n}

FitObject(object, n) == object.type = "COMPILED_FUNCTION_OBJ" => object.instructions \in Seq(FitCells(n))

FitTask(task, n) ==
    /\ task.do = "Emit" =>
          /\ Len(task.operands) = Len(OperandWidths(task.op))
          /\ task.op = "OpSetGlobal" => task.operands[1] < n
    /\ task.do = "Constant" =>
          Len(OperandWidths(task.op)) = 1 + Len(task.operands) /\ FitObject(task.object, n)

FitTable(table, n) ==
    \A x \in Names : table.store[x].scope = "GLOBAL" => table.store[x].index < n

\* The control c, the open functions, the pool and the chain of tables.
Fit(c, open, pool, chain, n) ==
    /\ \A i \in 1..Len(c) : FitTask(c[i], n)
    /\ \A k \in 1..Len(open) : open[k].instructions \in Seq(FitCells(n))
    /\ \A i \in 1..Len(pool) : FitObject(pool[i], n)
    /\ \A k \in 1..Len(chain) : FitTable(chain[k], n)

GlobalSlots == tables[1].numDefinitions

Declared == Fit(control, scopes, constants, tables, GlobalSlots)

LEMMA FirstTable ==
    ASSUME Inv
    PROVE  /\ tables \in Seq(TableType) /\ Len(tables) = Len(scopes) /\ Len(tables) \in Nat \ {0}
           /\ tables # <<>> /\ GlobalSlots \in Nat
<1>1. tables \in Seq(TableType) /\ Len(tables) = Len(scopes) /\ Len(tables) \in Nat \ {0}
  BY DEF Inv, SoundTables, Sound
<1>2. 1 \in 1..Len(tables)
  BY <1>1
<1>3. tables[1] \in TableType
  BY <1>1, <1>2, ElementOfSeq
<1>4. QED BY <1>1, <1>3, TableFields DEF GlobalSlots

LEMMA MoreCells ==
    ASSUME NEW n \in Nat, NEW m \in Nat, n <= m
    PROVE  FitCells(n) \subseteq FitCells(m) /\ \A code \in Seq(FitCells(n)) : code \in Seq(FitCells(m))
<1>1. \A cell \in FitCells(n) : cell \in FitCells(m)
  <2>1. SUFFICES ASSUME NEW cell \in FitCells(n), cell.op = "OpSetGlobal" PROVE cell.args[1] < m
    BY DEF FitCells
  <2>2. cell.args \in Seq(Nat) /\ Len(cell.args) = 1 /\ cell.args[1] < n
    BY <2>1 DEF FitCells, Cells, Opcodes, OperandWidths
  <2>3. cell.args[1] \in Nat
    BY <2>2
  <2>4. QED BY <2>2, <2>3
<1>2. QED BY <1>1, SeqMonotonic

\* More slots than before.
LEMMA FitMore ==
    ASSUME NEW n \in Nat, NEW m \in Nat, n <= m,
           NEW c \in Seq(Tasks), NEW open, NEW pool, NEW chain \in Seq(TableType),
           Fit(c, open, pool, chain, n)
    PROVE  Fit(c, open, pool, chain, m)
<1>1. \A object : FitObject(object, n) => FitObject(object, m)
  BY MoreCells DEF FitObject
<1>2. ASSUME NEW task \in Tasks, FitTask(task, n)
      PROVE  FitTask(task, m)
  <2>1. SUFFICES ASSUME task.do = "Emit", task.op = "OpSetGlobal" PROVE task.operands[1] < m
    BY <1>1, <1>2 DEF FitTask
  <2>2. task.operands \in Seq(Nat)
    BY <2>1 DEF Tasks
  <2>3. Len(task.operands) = 1 /\ task.operands[1] < n
    BY <1>2, <2>1 DEF FitTask, OperandWidths
  <2>4. task.operands[1] \in Nat
    BY <2>2, <2>3
  <2>5. QED BY <2>3, <2>4
<1>3. ASSUME NEW table \in TableType, FitTable(table, n)
      PROVE  FitTable(table, m)
  <2>1. SUFFICES ASSUME NEW x \in Names, table.store[x].scope = "GLOBAL"
                 PROVE  table.store[x].index < m
    BY DEF FitTable
  <2>2. table.store[x] \in SymbolType
    <3>1. table.store[x] \in SymbolType \cup {NoSymbol}
      BY TableFields
    <3>2. NoSymbol.scope # "GLOBAL"
      BY DEF NoSymbol, Symbol
    <3>3. QED BY <2>1, <3>1, <3>2
  <2>3. table.store[x].index \in Nat /\ table.store[x].index < n
    BY <1>3, <2>1, <2>2 DEF FitTable, SymbolType
  <2>4. QED BY <2>3
<1>4. \A i \in 1..Len(c) : c[i] \in Tasks
  OBVIOUS
<1>5. \A k \in 1..Len(chain) : chain[k] \in TableType
  OBVIOUS
<1>6. \A i \in 1..Len(c) : FitTask(c[i], m)
  BY <1>2, <1>4 DEF Fit
<1>7. \A k \in 1..Len(chain) : FitTable(chain[k], m)
  BY <1>3, <1>5 DEF Fit
<1>8. \A k \in 1..Len(open) : open[k].instructions \in Seq(FitCells(m))
  BY MoreCells DEF Fit
<1>9. QED BY <1>1, <1>6, <1>7, <1>8 DEF Fit

\* Tasks of which each fits, in whatever set.
FitAll(t, n) == \E T : t \in Seq(T) /\ \A task \in T : FitTask(task, n)

LEMMA DoFits ==
    ASSUME NEW n, control \in Seq(Tasks), control # <<>>, \A i \in 1..Len(control) : FitTask(control[i], n),
           NEW t, FitAll(t, n), Do(t)
    PROVE  \A i \in 1..Len(control') : FitTask(control'[i], n)
<1>1. PICK T : t \in Seq(T) /\ \A task \in T : FitTask(task, n)
  BY DEF FitAll
<1>2. PICK A, c, s : A = T \cup Tasks /\ c = control /\ s = control'
  OBVIOUS
<1>3. t \in Seq(A) /\ c \in Seq(A) /\ c # <<>> /\ s = t \o Tail(c)
  BY <1>1, <1>2, SeqMonotonic DEF Do
<1>4. /\ Len(t) \in Nat /\ Len(c) \in Nat \ {0}
      /\ \A i \in 1..Len(t) : s[i] = t[i]
      /\ \A i \in 2..Len(c) : s[Len(t) + i - 1] = c[i]
      /\ \A j \in 1..Len(s) : j \in 1..Len(t) \/ j - Len(t) + 1 \in 2..Len(c)
  BY ONLY <1>3, Replaced
<1>5. SUFFICES ASSUME NEW j \in 1..Len(s) PROVE FitTask(s[j], n)
  BY <1>2
<1>6. CASE j \in 1..Len(t)
  BY <1>1, <1>4, <1>6
<1>7. CASE j - Len(t) + 1 \in 2..Len(c)
  <2>1. PICK i \in 2..Len(c) : i = j - Len(t) + 1
    BY <1>7
  <2>2. Len(t) + i - 1 = j /\ i \in 1..Len(c)
    BY <1>4, <2>1
  <2>3. s[j] = c[i]
    BY <1>4, <2>2
  <2>4. QED BY <1>2, <2>2, <2>3
<1>8. QED BY <1>4, <1>6, <1>7

-----------------------------------------------------------------------------
(* Cells.                                                                  *)

LEMMA ModuloLowers == \A a \in Nat, b \in Nat \ {0} : a % b \in Nat /\ a % b <= a
  OBVIOUS

LEMMA MakeFits ==
    ASSUME NEW n \in Nat, NEW op \in Opcodes, NEW operands \in Seq(Nat), Len(operands) = Len(OperandWidths(op)),
           op = "OpSetGlobal" => operands[1] < n
    PROVE  Make(op, operands) \in Seq(FitCells(n)) /\ Len(Make(op, operands)) = InstructionLen(op)
<1>1. PICK made, args : made = Make(op, operands) /\ args = [j \in DOMAIN operands |-> operands[j] % OperandBound(op, j)]
  OBVIOUS
<1>2. PICK w : w = InstructionLen(op) /\ w \in Nat \ {0}
  BY Widths
<1>3. made \in Seq(Cells) /\ Len(made) = w /\ \A k \in 2..w : made[k] = Operand
  BY <1>1, <1>2, MakeIs
<1>4. Operand \in FitCells(n)
  BY OperandIsNoHead DEF FitCells, Operand
<1>5. made[1] = [op |-> op, args |-> args]
  BY <1>1, <1>2 DEF Make
<1>6. made[1] \in Cells
  BY <1>2, <1>3
<1>7. Len(args) = Len(OperandWidths(op))
  <2>1. DOMAIN operands = 1..Len(operands) /\ Len(operands) \in Nat
    OBVIOUS
  <2>2. args = [j \in 1..Len(operands) |-> operands[j] % OperandBound(op, j)]
    BY <1>1, <2>1
  <2>3. QED BY ONLY <2>1, <2>2, Len(operands) = Len(OperandWidths(op))
<1>8. op = "OpSetGlobal" => args[1] < n
  <2>1. SUFFICES ASSUME op = "OpSetGlobal" PROVE args[1] < n
    OBVIOUS
  <2>2. Len(operands) = 1
    BY <2>1 DEF OperandWidths
  <2>3. operands[1] \in Nat /\ args[1] = operands[1] % OperandBound(op, 1)
    <3>1. operands[1] \in Nat
      <4>1. 1 \in 1..Len(operands)
        BY <2>2
      <4>2. QED BY ONLY <4>1, operands \in Seq(Nat), ElementOfSeq
    <3>2. 1 \in DOMAIN operands /\ args = [j \in DOMAIN operands |-> operands[j] % OperandBound(op, j)]
      BY <1>1, <2>2
    <3>3. QED BY ONLY <3>1, <3>2
  <2>4. OperandBound(op, 1) \in Nat \ {0}
    BY CodeAssumption DEF OperandBound
  <2>5. QED BY <2>1, <2>3, <2>4, ModuloLowers
<1>9. made[1] \in FitCells(n)
  BY <1>5, <1>6, <1>7, <1>8 DEF FitCells
<1>10. \A k \in 1..w : made[k] \in FitCells(n)
  <2>1. \A k \in 1..w : k = 1 \/ k \in 2..w
    BY <1>2
  <2>2. QED BY <1>3, <1>4, <1>9, <2>1
<1>11. made \in Seq(FitCells(n))
  BY <1>2, <1>3, <1>10, IsASeq
<1>12. QED BY <1>1, <1>2, <1>3, <1>11

LEMMA EmitFits ==
    ASSUME NEW n \in Nat, NEW scope, scope.instructions \in Seq(FitCells(n)),
           NEW op \in Opcodes, NEW operands \in Seq(Nat), Len(operands) = Len(OperandWidths(op)),
           op = "OpSetGlobal" => operands[1] < n
    PROVE  EmitIn(scope, op, operands).instructions \in Seq(FitCells(n))
<1>1. PICK S, code, made : S = FitCells(n) /\ code = scope.instructions /\ made = Make(op, operands)
  OBVIOUS
<1>2. code \in Seq(S) /\ made \in Seq(S)
  BY <1>1, MakeFits
<1>3. EmitIn(scope, op, operands).instructions = code \o made
  BY <1>1 DEF EmitIn
<1>4. code \o made \in Seq(S)
  BY ONLY <1>2, ConcatProperties
<1>5. QED BY <1>1, <1>3, <1>4

LEMMA DropFits ==
    ASSUME NEW n, NEW scope, ScopeFits(scope), scope.instructions \in Seq(FitCells(n))
    PROVE  DropValuePop(scope).instructions \in Seq(FitCells(n))
<1>1. CASE ~lastInstructionIs(scope, "OpPop")
  BY <1>1 DEF DropValuePop
<1>2. CASE lastInstructionIs(scope, "OpPop")
  <2>1. PICK S, code, p : S = FitCells(n) /\ code = scope.instructions /\ p = scope.last.pos
    OBVIOUS
  <2>2. scope \in ScopeType /\ code # <<>> /\ p \in 0..(Len(code) - 1)
    BY <1>2, <2>1 DEF ScopeFits, Ends, IsHead, lastInstructionIs
  <2>3. DropValuePop(scope).instructions = SubSeq(code, 1, p)
    BY <1>2, <2>1, <2>2 DEF DropValuePop, removeLastPop, ScopeType
  <2>4. code \in Seq(S) /\ p \in 0..Len(code)
    BY <2>1, <2>2
  <2>5. SubSeq(code, 1, p) \in Seq(S)
    BY ONLY <2>4, SubSeqProperties
  <2>6. QED BY <2>1, <2>3, <2>5
<1>3. QED BY <1>1, <1>2

\* Bytes of a code replaced by those of an instruction.
LEMMA ReplaceFits ==
    ASSUME NEW S, NEW code \in Seq(S), NEW made \in Seq(S), NEW p \in Nat
    PROVE  replaceInstruction(code, p, made) \in Seq(S)
<1>1. PICK new, m : new = replaceInstruction(code, p, made) /\ m = Len(made) /\ m \in Nat
  OBVIOUS
<1>2. new = [i \in 1..Len(code) |-> IF i \in (p + 1)..(p + m) THEN made[i - p] ELSE code[i]]
  BY <1>1 DEF replaceInstruction
<1>3. \A i \in 1..Len(code) : new[i] \in S
  <2>1. SUFFICES ASSUME NEW i \in 1..Len(code) PROVE new[i] \in S
    OBVIOUS
  <2>2. CASE i \in (p + 1)..(p + m)
    <3>1. i - p \in 1..m
      BY <1>1, <2>2
    <3>2. made[i - p] \in S
      BY <1>1, <3>1
    <3>3. QED BY <1>2, <2>2, <3>2
  <2>3. CASE i \notin (p + 1)..(p + m)
    BY <1>2, <2>3
  <2>4. QED BY <2>2, <2>3
<1>4. QED BY <1>1, <1>2, <1>3, IsASeq

LEMMA PatchFits ==
    ASSUME NEW n \in Nat, NEW scope \in ScopeType, scope.instructions \in Seq(FitCells(n)),
           NEW op \in {"OpJump", "OpJumpNotTruthy"}, NEW p, JumpAt(scope.instructions, p, op),
           NEW operand \in Nat
    PROVE  changeOperand(scope, p, operand).instructions \in Seq(FitCells(n))
<1>1. PICK S, code, made : S = FitCells(n) /\ code = scope.instructions /\ made = Make(op, <<operand>>)
  OBVIOUS
<1>2. p \in Nat /\ At(code, p).op = op /\ op \in Opcodes
  BY <1>1 DEF JumpAt, IsHead, At, Opcodes
<1>3. made \in Seq(S)
  <2>1. <<operand>> \in Seq(Nat) /\ Len(<<operand>>) = Len(OperandWidths(op)) /\ op # "OpSetGlobal"
    BY DEF OperandWidths
  <2>2. QED BY <1>1, <1>2, <2>1, MakeFits
<1>4. changeOperand(scope, p, operand).instructions = replaceInstruction(code, p, made)
  BY <1>1, <1>2 DEF changeOperand, ScopeType
<1>5. replaceInstruction(code, p, made) \in Seq(S)
  BY <1>1, <1>2, <1>3, ReplaceFits
<1>6. QED BY <1>1, <1>4, <1>5

LEMMA ReturningFits ==
    ASSUME NEW n \in Nat, NEW scope, ScopeFits(scope), scope.instructions \in Seq(FitCells(n))
    PROVE  Returning(scope).instructions \in Seq(FitCells(n))
<1>1. scope \in ScopeType /\ scope.last.pos \in Nat
  BY ScopeFields DEF ScopeFits
<1>2. /\ "OpReturn" \in Opcodes /\ "OpReturnValue" \in Opcodes /\ <<>> \in Seq(Nat)
      /\ Len(<<>>) = Len(OperandWidths("OpReturn")) /\ Len(<<>>) = Len(OperandWidths("OpReturnValue"))
  BY DEF Opcodes, OperandWidths
<1>3. replaceLastPopWithReturn(scope).instructions \in Seq(FitCells(n))
  <2>1. PICK S, made : S = FitCells(n) /\ made = Make("OpReturnValue", <<>>)
    OBVIOUS
  <2>2. made \in Seq(S)
    BY <1>2, <2>1, MakeFits
  <2>3. replaceLastPopWithReturn(scope).instructions = replaceInstruction(scope.instructions, scope.last.pos, made)
    BY <1>1, <2>1 DEF replaceLastPopWithReturn, ScopeType
  <2>4. QED BY <1>1, <2>1, <2>2, <2>3, ReplaceFits
<1>4. \A s : s.instructions \in Seq(FitCells(n)) => EmitIn(s, "OpReturn", <<>>).instructions \in Seq(FitCells(n))
  BY <1>2, EmitFits
<1>5. QED BY <1>3, <1>4 DEF Returning

-----------------------------------------------------------------------------
(* Tables.                                                                 *)

LEMMA SlotsFit ==
    ASSUME NEW n \in Nat, NEW table \in TableType, FitTable(table, n), NEW scope, NEW names \in Seq(Names),
           scope = "GLOBAL" => table.numDefinitions + Len(names) <= n
    PROVE  FitTable(AddSlots(table, scope, names), n)
<1>1. PICK new, k : new = AddSlots(table, scope, names) /\ k = table.numDefinitions /\ k \in Nat
  BY TableFields
<1>2. SUFFICES ASSUME NEW x \in Names, new.store[x].scope = "GLOBAL" PROVE new.store[x].index < n
  BY <1>1 DEF FitTable
<1>3. CASE Positions(names, x) = {}
  <2>1. new.store[x] = table.store[x]
    BY <1>1, <1>3 DEF AddSlots
  <2>2. QED BY <1>2, <2>1 DEF FitTable
<1>4. CASE Positions(names, x) # {}
  <2>1. PICK i : i = LastPosition(names, x) /\ i \in 1..Len(names)
    BY <1>4, LastPositionIn
  <2>2. new.store[x] = Symbol(x, scope, k + i - 1)
    BY <1>1, <1>4, <2>1 DEF AddSlots
  <2>3. scope = "GLOBAL" /\ new.store[x].index = k + i - 1 /\ k + Len(names) <= n
    BY <1>1, <1>2, <2>2 DEF Symbol
  <2>4. QED BY <1>1, <2>1, <2>3
<1>5. QED BY <1>3, <1>4

\* Declaring names in the innermost table.
LEMMA DefineEachFits ==
    ASSUME NEW n \in Nat, NEW chain \in Seq(TableType), chain # <<>>, NEW names \in Seq(Names),
           \A k \in 1..Len(chain) : FitTable(chain[k], n),
           Len(chain) = 1 => chain[1].numDefinitions + Len(names) <= n
    PROVE  /\ \A k \in 1..Len(DefineEach(chain, names)) : FitTable(DefineEach(chain, names)[k], n)
           /\ DefineEach(chain, names)[1].numDefinitions =
                 chain[1].numDefinitions + (IF Len(chain) = 1 THEN Len(names) ELSE 0)
<1>1. PICK m, new, scope, table :
        /\ m = Len(chain) /\ scope = (IF m = 1 THEN "GLOBAL" ELSE "LOCAL")
        /\ table = AddSlots(chain[m], scope, names) /\ new = DefineEach(chain, names)
  OBVIOUS
<1>2. m \in Nat \ {0} /\ m \in 1..m /\ 1 \in 1..m
  BY <1>1, EmptySeq
<1>3. chain[m] \in TableType /\ chain[1] \in TableType
  BY <1>1, <1>2, ElementOfSeq
<1>4. FitTable(table, n)
  <2>1. scope = "GLOBAL" => chain[m].numDefinitions + Len(names) <= n
    BY <1>1
  <2>2. FitTable(chain[m], n)
    BY <1>1, <1>2
  <2>3. QED BY <1>1, <1>3, <2>1, <2>2, SlotsFit
<1>5. new = [chain EXCEPT ![m] = table]
  BY <1>1 DEF DefineEach
<1>6. Len(new) = m /\ new[m] = table /\ \A k \in 1..m : k # m => new[k] = chain[k]
  BY <1>1, <1>2, <1>5
<1>7. \A k \in 1..m : FitTable(new[k], n)
  BY <1>1, <1>4, <1>6
<1>8. new[1].numDefinitions = chain[1].numDefinitions + (IF m = 1 THEN Len(names) ELSE 0)
  <2>1. CASE m = 1
    <3>1. table.numDefinitions = chain[1].numDefinitions + Len(names)
      BY <1>1, <2>1 DEF AddSlots
    <3>2. QED BY <1>6, <2>1, <3>1
  <2>2. CASE m # 1
    <3>1. new[1] = chain[1] /\ chain[1].numDefinitions \in Nat
      BY <1>2, <1>3, <1>6, <2>2, TableFields
    <3>2. QED BY <2>2, <3>1
  <2>3. QED BY <2>1, <2>2
<1>9. QED BY <1>1, <1>6, <1>7, <1>8

LEMMA PutFits ==
    ASSUME NEW n, NEW table \in TableType, FitTable(table, n), NEW x \in Names, NEW scope, NEW i,
           scope # "GLOBAL",
           NEW new, new.store = Put(table.store, Symbol(x, scope, i))
    PROVE  FitTable(new, n)
<1>1. PICK store, s : store = table.store /\ s = Symbol(x, scope, i)
  OBVIOUS
<1>2. store \in [Names -> SymbolType \cup {NoSymbol}] /\ s.name = x /\ s.scope = scope
  BY <1>1, TableFields DEF Symbol
<1>3. new.store = [store EXCEPT ![x] = s]
  BY <1>1, <1>2 DEF Put
<1>4. \A y \in Names : new.store[y] = IF y = x THEN s ELSE store[y]
  BY <1>2, <1>3
<1>5. QED BY <1>1, <1>2, <1>4 DEF FitTable

LEMMA ResolveFits ==
    ASSUME NEW n, NEW chain \in Seq(TableType), chain # <<>>, NEW x \in Names, Resolvable(chain, x),
           \A k \in 1..Len(chain) : FitTable(chain[k], n)
    PROVE  /\ \A k \in 1..Len(Resolve(chain, x)) : FitTable(Resolve(chain, x)[k], n)
           /\ Resolve(chain, x)[1].numDefinitions = chain[1].numDefinitions
           /\ Resolved(chain, x).scope = "GLOBAL" => Resolved(chain, x).index < n
<1>1. PICK new, h, m : new = Resolve(chain, x) /\ h = Home(chain, x) /\ m = Len(chain)
  OBVIOUS
<1>2. m \in Nat \ {0} /\ DOMAIN chain = 1..m
  BY <1>1, EmptySeq
<1>3. h \in 1..m /\ Holds(chain[h], x)
  <2>1. PICK H : H = Holders(chain, x)
    OBVIOUS
  <2>2. H \subseteq 1..m /\ H # {}
    BY <1>2, <2>1 DEF Holders, Resolvable
  <2>3. \E i \in H : \A j \in H : j <= i
    BY ONLY <1>2, <2>2, GreatestExists
  <2>4. h \in H
    BY <1>1, <2>1, <2>3 DEF Home
  <2>5. QED BY <1>2, <2>1, <2>2, <2>4 DEF Holders
<1>4. \A k \in 1..m : chain[k] \in TableType
  BY <1>1
<1>5. PICK home : home = HomeSymbol(chain, x) /\ home = chain[h].store[x]
  BY <1>1 DEF HomeSymbol
<1>6. home \in SymbolType
  <2>1. chain[h].store \in [Names -> SymbolType \cup {NoSymbol}]
    BY <1>3, <1>4, TableFields
  <2>2. QED BY <1>3, <1>5, <2>1 DEF Holds
<1>7. home.scope = "GLOBAL" => home.index < n
  BY <1>1, <1>3, <1>5 DEF FitTable
<1>8. Resolved(chain, x).scope = "GLOBAL" => Resolved(chain, x).index < n
  <2>1. Resolved(chain, x) = home \/ Resolved(chain, x).scope = "FREE"
    BY <1>5 DEF Resolved, SymbolAt, Symbol
  <2>2. QED BY <1>7, <2>1
<1>9. ASSUME NEW k \in 1..m
      PROVE  /\ FitTable(IF Captures(chain, x, k) THEN DefineFree(chain[k], SymbolAt(chain, x, k - 1)) ELSE chain[k], n)
             /\ (IF Captures(chain, x, k) THEN DefineFree(chain[k], SymbolAt(chain, x, k - 1))
                 ELSE chain[k]).numDefinitions = chain[k].numDefinitions
  <2>1. CASE ~Captures(chain, x, k)
    BY <1>1, <2>1
  <2>2. CASE Captures(chain, x, k)
    <3>1. PICK table, original, df : /\ table = chain[k] /\ original = SymbolAt(chain, x, k - 1)
                                     /\ df = DefineFree(table, original)
      OBVIOUS
    <3>2. table \in TableType /\ FitTable(table, n)
      BY <1>1, <1>4, <3>1
    <3>3. original.name \in Names
      <4>1. home.name \in Names
        BY <1>6 DEF SymbolType
      <4>2. QED BY <1>5, <3>1, <4>1 DEF SymbolAt, Symbol
    <3>4. /\ df.store = Put(table.store, Symbol(original.name, "FREE", Len(table.FreeSymbols)))
          /\ df.numDefinitions = table.numDefinitions
      BY <3>1, <3>2 DEF DefineFree, TableType
    <3>5. FitTable(df, n)
      BY <3>2, <3>3, <3>4, PutFits
    <3>6. QED BY <2>2, <3>1, <3>4, <3>5
  <2>3. QED BY <2>1, <2>2
<1>10. new = [k \in 1..m |-> IF Captures(chain, x, k) THEN DefineFree(chain[k], SymbolAt(chain, x, k - 1))
                             ELSE chain[k]]
  BY <1>1, <1>2 DEF Resolve
<1>11. Len(new) = m /\ \A k \in 1..m : FitTable(new[k], n)
  <2>1. \A k \in 1..m : FitTable(new[k], n)
    BY <1>9, <1>10
  <2>2. QED BY <1>2, <1>10, <2>1
<1>12. new[1].numDefinitions = chain[1].numDefinitions
  BY <1>2, <1>9, <1>10
<1>13. QED BY <1>1, <1>8, <1>11, <1>12

-----------------------------------------------------------------------------
(* Tasks.                                                                  *)

LEMMA PlaceFits ==
    \A n, x, y :
        /\ FitTask([do |-> "AssignTarget", name |-> x], n)
        /\ FitTask([do |-> "IfThen", node |-> x], n)
        /\ FitTask([do |-> "IfElse", node |-> x, test |-> y], n)
        /\ FitTask([do |-> "IfEnd", over |-> x], n)
        /\ FitTask([do |-> "WhileBody", node |-> x, start |-> y], n)
        /\ FitTask([do |-> "WhileEnd", start |-> x, test |-> y], n)
        /\ FitTask([do |-> "FunctionEnd", node |-> x], n)
        /\ FitTask([do |-> "ImportEnd", dir |-> x, file |-> y], n)
  BY DEF FitTask

LEMMA CompileFits == \A node, n : FitTask(Compile(node), n)
  BY DEF FitTask, Compile

LEMMA EmitTaskFits ==
    \A op, operands, n :
        Len(operands) = Len(OperandWidths(op)) /\ (op = "OpSetGlobal" => operands[1] < n) =>
            FitTask(Emit(op, operands), n)
  BY DEF FitTask, Emit

LEMMA PlainFits ==
    ASSUME NEW n, NEW op, OperandWidths(op) = <<>>, op # "OpSetGlobal"
    PROVE  FitTask(Emit(op, <<>>), n)
  BY EmitTaskFits

LEMMA CountFits ==
    ASSUME NEW n, NEW op \in {"OpArray", "OpDict", "OpCall"}, NEW k
    PROVE  FitTask(Emit(op, <<k>>), n)
<1>1. Len(<<k>>) = Len(OperandWidths(op)) /\ op # "OpSetGlobal"
  BY DEF OperandWidths
<1>2. QED BY <1>1, EmitTaskFits

LEMMA OperatorFits ==
    \A operator, n : /\ FitTask(Operator(InfixOpcode, operator), n)
                     /\ FitTask(Operator(PrefixOpcode, operator), n)
<1>1. SUFFICES ASSUME NEW operator, NEW n
               PROVE  /\ FitTask(Operator(InfixOpcode, operator), n)
                      /\ FitTask(Operator(PrefixOpcode, operator), n)
  OBVIOUS
<1>2. FitTask(Fail("unknown operator"), n)
  BY DEF FitTask, Fail
<1>3. \A op \in ArithmeticOps \cup ComparisonOps \cup {"OpAnd", "OpOr", "OpBang", "OpMinus"} :
          FitTask(Emit(op, <<>>), n)
  <2>1. \A op \in ArithmeticOps \cup ComparisonOps \cup {"OpAnd", "OpOr", "OpBang", "OpMinus"} :
            OperandWidths(op) = <<>> /\ op # "OpSetGlobal"
    BY DEF OperandWidths, ArithmeticOps, ComparisonOps
  <2>2. QED BY <2>1, PlainFits
<1>4. \A o \in DOMAIN InfixOpcode :
          InfixOpcode[o] \in ArithmeticOps \cup ComparisonOps \cup {"OpAnd", "OpOr"}
  BY DEF InfixOpcode, ArithmeticOps, ComparisonOps
<1>5. \A o \in DOMAIN PrefixOpcode : PrefixOpcode[o] \in {"OpBang", "OpMinus"}
  BY DEF PrefixOpcode
<1>6. FitTask(Operator(InfixOpcode, operator), n)
  BY <1>2, <1>3, <1>4 DEF Operator
<1>7. FitTask(Operator(PrefixOpcode, operator), n)
  BY <1>2, <1>3, <1>5 DEF Operator
<1>8. QED BY <1>6, <1>7

LEMMA SymbolFits ==
    ASSUME NEW n, NEW s \in SymbolType
    PROVE  /\ FitTask(loadSymbol(s), n)
           /\ (s.scope = "GLOBAL" => s.index < n) => FitTask(storeSymbol(s), n)
<1>1. s.scope \in Scopes
  BY DEF SymbolType
<1>2. \A op \in {"OpGetGlobal", "OpGetLocal", "OpGetBuiltin", "OpGetFree", "OpSetLocal"} :
          FitTask(Emit(op, <<s.index>>), n)
  <2>1. \A op \in {"OpGetGlobal", "OpGetLocal", "OpGetBuiltin", "OpGetFree", "OpSetLocal"} :
            Len(<<s.index>>) = Len(OperandWidths(op)) /\ op # "OpSetGlobal"
    BY DEF OperandWidths
  <2>2. QED BY <2>1, EmitTaskFits
<1>3. s.index < n => FitTask(Emit("OpSetGlobal", <<s.index>>), n)
  <2>1. Len(<<s.index>>) = Len(OperandWidths("OpSetGlobal")) /\ <<s.index>>[1] = s.index
    BY DEF OperandWidths
  <2>2. QED BY <2>1, EmitTaskFits
<1>4. FitTask(Emit("OpCurrentClosure", <<>>), n)
  BY PlainFits DEF OperandWidths
<1>5. FitTask(loadSymbol(s), n)
  BY <1>1, <1>2, <1>4 DEF loadSymbol, Scopes
<1>6. QED BY <1>2, <1>3, <1>5 DEF storeSymbol

LEMMA FitTuples ==
    ASSUME NEW n, NEW a, FitTask(a, n), NEW b, FitTask(b, n), NEW c, FitTask(c, n)
    PROVE  FitAll(<<>>, n) /\ FitAll(<<a>>, n) /\ FitAll(<<a, b>>, n) /\ FitAll(<<a, b, c>>, n)
<1>1. PICK T : T = {a, b, c}
  OBVIOUS
<1>2. <<>> \in Seq(T) /\ <<a>> \in Seq(T) /\ <<a, b>> \in Seq(T) /\ <<a, b, c>> \in Seq(T)
  BY <1>1
<1>3. \A task \in T : FitTask(task, n)
  BY <1>1
<1>4. QED BY <1>2, <1>3 DEF FitAll

LEMMA FitJoined ==
    ASSUME NEW n, NEW t, FitAll(t, n), NEW u, FitAll(u, n)
    PROVE  FitAll(t \o u, n)
<1>1. PICK T, U : /\ t \in Seq(T) /\ \A task \in T : FitTask(task, n)
                  /\ u \in Seq(U) /\ \A task \in U : FitTask(task, n)
  BY DEF FitAll
<1>2. PICK V : V = T \cup U
  OBVIOUS
<1>3. t \in Seq(V) /\ u \in Seq(V)
  BY <1>1, <1>2, SeqMonotonic
<1>4. t \o u \in Seq(V)
  BY ONLY <1>3, ConcatProperties
<1>5. QED BY <1>1, <1>2, <1>4 DEF FitAll

LEMMA FitAppended ==
    ASSUME NEW n, NEW t, FitAll(t, n), NEW b, FitTask(b, n)
    PROVE  FitAll(Append(t, b), n)
<1>1. PICK T : t \in Seq(T) /\ \A task \in T : FitTask(task, n)
  BY DEF FitAll
<1>2. PICK V : V = T \cup {b}
  OBVIOUS
<1>3. t \in Seq(V) /\ b \in V
  BY <1>1, <1>2, SeqMonotonic
<1>4. Append(t, b) \in Seq(V)
  BY ONLY <1>3, AppendProperties
<1>5. QED BY <1>1, <1>2, <1>4 DEF FitAll

\* Tasks that compile nodes fit.
LEMMA FitCompiles ==
    ASSUME NEW n, NEW k \in Nat, NEW t, DOMAIN t = 1..k, t = [i \in 1..k |-> t[i]],
           \A i \in 1..k : \E node : t[i] = Compile(node)
    PROVE  FitAll(t, n)
<1>1. PICK T : T = {t[i] : i \in 1..k}
  OBVIOUS
<1>2. t \in [1..k -> T]
  BY <1>1
<1>3. t \in Seq(T)
  BY <1>2, IsASeq
<1>4. \A task \in T : FitTask(task, n)
  BY <1>1, CompileFits
<1>5. QED BY <1>3, <1>4 DEF FitAll

LEMMA CompileAllFits ==
    ASSUME NEW n, NEW S, NEW nodes \in Seq(S)
    PROVE  FitAll(CompileAll(nodes), n)
<1>1. PICK t, k : t = CompileAll(nodes) /\ k = Len(nodes) /\ k \in Nat
  OBVIOUS
<1>2. t = [i \in 1..k |-> Compile(nodes[i])]
  BY <1>1 DEF CompileAll
<1>3. QED BY <1>1, <1>2, FitCompiles

LEMMA CompilePairsFits ==
    ASSUME NEW n, NEW S, NEW pairs \in Seq(S)
    PROVE  FitAll(CompilePairs(pairs), n)
<1>1. PICK t, k : t = CompilePairs(pairs) /\ k = 2 * Len(pairs) /\ k \in Nat
  OBVIOUS
<1>2. t = [i \in 1..k |->
            Compile(IF i % 2 = 1 THEN pairs[(i + 1) \div 2].key ELSE pairs[(i + 1) \div 2].value)]
  BY <1>1 DEF CompilePairs
<1>3. QED BY <1>1, <1>2, FitCompiles, ZenonT(30)

-----------------------------------------------------------------------------
(* Steps.                                                                  *)

Widens == Declared' /\ GlobalSlots <= GlobalSlots'

\* Nothing changes but the plan of work, the open function's code, and what is captured.
LEMMA PlanFits ==
    ASSUME Inv, Declared, control # <<>>, NEW t, FitAll(t, GlobalSlots), Do(t), constants' = constants,
           \/ scopes' = scopes
           \/ \E scope : /\ scope.instructions \in Seq(FitCells(GlobalSlots))
                         /\ scopes' = [scopes EXCEPT ![Len(scopes)] = scope],
           \/ tables' = tables
           \/ \E x \in Names : Resolvable(tables, x) /\ tables' = Resolve(tables, x)
    PROVE  Widens
<1>1. PICK n : n = GlobalSlots /\ n \in Nat
  BY FirstTable
<1>2. /\ control \in Seq(Tasks) /\ scopes \in Seq(ScopeType)
      /\ tables \in Seq(TableType) /\ tables # <<>>
  BY FirstTable DEF Inv, Sound
<1>3. Fit(control, scopes, constants, tables, n)
  BY <1>1 DEF Declared
<1>4. \A i \in 1..Len(control') : FitTask(control'[i], n)
  BY <1>1, <1>2, <1>3, DoFits DEF Fit
<1>5. \A k \in 1..Len(scopes') : scopes'[k].instructions \in Seq(FitCells(n))
  <2>1. CASE scopes' = scopes
    BY <1>3, <2>1 DEF Fit
  <2>2. ASSUME NEW scope, scope.instructions \in Seq(FitCells(n)),
               scopes' = [scopes EXCEPT ![Len(scopes)] = scope]
        PROVE  \A k \in 1..Len(scopes') : scopes'[k].instructions \in Seq(FitCells(n))
    <3>1. PICK m : m = Len(scopes) /\ m \in Nat /\ DOMAIN scopes = 1..m
      BY <1>2
    <3>2. Len(scopes') = m
      BY <2>2, <3>1, <1>2
    <3>3. ASSUME NEW k \in 1..m
          PROVE  scopes'[k].instructions \in Seq(FitCells(n))
      <4>1. scopes'[k] = IF k = m THEN scope ELSE scopes[k]
        BY <2>2, <3>1
      <4>2. scopes[k].instructions \in Seq(FitCells(n))
        BY <1>3, <3>1 DEF Fit
      <4>3. QED BY <2>2, <4>1, <4>2
    <3>4. QED BY <3>2, <3>3
  <2>3. QED BY <1>1, <2>1, <2>2
<1>6. (\A k \in 1..Len(tables') : FitTable(tables'[k], n)) /\ tables'[1].numDefinitions = n
  <2>1. CASE tables' = tables
    BY <1>1, <1>3, <2>1 DEF Fit, GlobalSlots
  <2>2. ASSUME NEW x \in Names, Resolvable(tables, x), tables' = Resolve(tables, x)
        PROVE  (\A k \in 1..Len(tables') : FitTable(tables'[k], n)) /\ tables'[1].numDefinitions = n
    <3>1. \A k \in 1..Len(tables) : FitTable(tables[k], n)
      BY <1>3 DEF Fit
    <3>2. \A k \in 1..Len(Resolve(tables, x)) : FitTable(Resolve(tables, x)[k], n)
      BY <1>2, <2>2, <3>1, ResolveFits
    <3>3. Resolve(tables, x)[1].numDefinitions = tables[1].numDefinitions
      BY <1>2, <2>2, <3>1, ResolveFits
    <3>4. QED BY <1>1, <2>2, <3>2, <3>3 DEF GlobalSlots
  <2>3. QED BY <2>1, <2>2
<1>7. GlobalSlots' = n
  BY <1>6 DEF GlobalSlots
<1>8. Fit(control, scopes, constants, tables, n)'
  BY <1>3, <1>4, <1>5, <1>6 DEF Fit
<1>9. QED BY <1>1, <1>7, <1>8 DEF Widens, Declared

LEMMA UnfoldFits ==
    ASSUME Inv, Declared, control # <<>>, NEW t, Unfold(t), FitAll(t, GlobalSlots)
    PROVE  Widens
<1>1. Do(t) /\ UNCHANGED <<tables, scopes, constants>>
  BY Zenon DEF Unfold
<1>2. QED BY <1>1, PlanFits

LEMMA WriteFits ==
    ASSUME Inv, Declared, control # <<>>, NEW scope, NEW t, Write(scope, t), FitAll(t, GlobalSlots),
           scope.instructions \in Seq(FitCells(GlobalSlots))
    PROVE  Widens
<1>1. /\ Do(t) /\ scopes' = [scopes EXCEPT ![Len(scopes)] = scope]
      /\ UNCHANGED <<tables, constants>>
  BY Zenon DEF Write
<1>2. QED BY <1>1, PlanFits

LEMMA StopFits ==
    ASSUME Inv, Declared, NEW cause, Stop(cause),
           UNCHANGED tables \/ \E x \in Names : Resolvable(tables, x) /\ tables' = Resolve(tables, x)
    PROVE  Widens
<1>1. UNCHANGED <<control, scopes, constants>>
  BY Zenon DEF Stop
<1>2. PICK n : n = GlobalSlots /\ n \in Nat
  BY FirstTable
<1>3. Fit(control, scopes, constants, tables, n) /\ tables \in Seq(TableType) /\ tables # <<>>
  BY <1>2, FirstTable DEF Declared
<1>4. (\A k \in 1..Len(tables') : FitTable(tables'[k], n)) /\ tables'[1].numDefinitions = n
  <2>1. CASE UNCHANGED tables
    BY <1>2, <1>3, <2>1 DEF Fit, GlobalSlots
  <2>2. ASSUME NEW x \in Names, Resolvable(tables, x), tables' = Resolve(tables, x)
        PROVE  (\A k \in 1..Len(tables') : FitTable(tables'[k], n)) /\ tables'[1].numDefinitions = n
    <3>1. \A k \in 1..Len(tables) : FitTable(tables[k], n)
      BY <1>3 DEF Fit
    <3>2. \A k \in 1..Len(Resolve(tables, x)) : FitTable(Resolve(tables, x)[k], n)
      BY <1>3, <2>2, <3>1, ResolveFits
    <3>3. Resolve(tables, x)[1].numDefinitions = tables[1].numDefinitions
      BY <1>3, <2>2, <3>1, ResolveFits
    <3>4. QED BY <1>2, <2>2, <3>2, <3>3 DEF GlobalSlots
  <2>3. QED BY <2>1, <2>2
<1>5. GlobalSlots' = n
  BY <1>4 DEF GlobalSlots
<1>6. Fit(control, scopes, constants, tables, n)'
  BY <1>1, <1>3, <1>4 DEF Fit
<1>7. QED BY <1>2, <1>5, <1>6 DEF Widens, Declared

LEMMA NextNodeControl == \A kind : NextNode(kind) => control # <<>>
  BY DEF NextNode, NextTask

LEMMA NextTaskControl == \A do : NextTask(do) => control # <<>>
  BY DEF NextTask

\* A node is replaced by tasks.
LEMMA StatementsFit ==
    ASSUME Inv, Declared, CompileStatements PROVE Widens
<1>1. PICK kind \in {"Program", "BlockStatement"} : NextNode(kind)
  BY DEF CompileStatements
<1>2. Node.statements \in Seq(StatementNodes)
  BY <1>1, NodeIs DEF FieldsFit
<1>3. FitAll(CompileAll(Node.statements), GlobalSlots)
  BY <1>2, CompileAllFits
<1>4. Unfold(CompileAll(Node.statements))
  BY Zenon DEF CompileStatements
<1>5. QED BY <1>1, <1>3, <1>4, NextNodeControl, UnfoldFits

LEMMA ExpressionsFit ==
    ASSUME Inv, Declared,
           \/ CompileExpressionStatement \/ CompileInfix \/ CompilePrefix \/ CompileBoolean
           \/ CompileIndex \/ CompileReturn \/ CompileAssign \/ CompileIf \/ CompileWhile
    PROVE  Widens
<1>1. \A op \in {"OpPop", "OpTrue", "OpFalse", "OpIndex", "OpReturnValue"} :
          FitTask(Emit(op, <<>>), GlobalSlots)
  <2>1. \A op \in {"OpPop", "OpTrue", "OpFalse", "OpIndex", "OpReturnValue"} :
            OperandWidths(op) = <<>> /\ op # "OpSetGlobal"
    BY DEF OperandWidths
  <2>2. QED BY <2>1, PlainFits
<1>2. ASSUME NEW t, FitAll(t, GlobalSlots), NEW kind, NextNode(kind), Unfold(t)
      PROVE  Widens
  BY <1>2, NextNodeControl, UnfoldFits
<1>3. CASE CompileExpressionStatement
  <2>1. FitAll(<<Compile(Node.expression), Emit("OpPop", <<>>)>>, GlobalSlots)
    BY <1>1, CompileFits, FitTuples
  <2>2. QED BY <1>2, <1>3, <2>1 DEF CompileExpressionStatement
<1>4. CASE CompileInfix
  <2>1. FitAll(<<Compile(Node.left), Compile(Node.right), Operator(InfixOpcode, Node.operator)>>, GlobalSlots)
    BY CompileFits, OperatorFits, FitTuples
  <2>2. QED BY <1>2, <1>4, <2>1 DEF CompileInfix
<1>5. CASE CompilePrefix
  <2>1. FitAll(<<Compile(Node.right), Operator(PrefixOpcode, Node.operator)>>, GlobalSlots)
    BY CompileFits, OperatorFits, FitTuples
  <2>2. QED BY <1>2, <1>5, <2>1 DEF CompilePrefix
<1>6. CASE CompileBoolean
  <2>1. FitAll(<<Emit(IF Node.boolean THEN "OpTrue" ELSE "OpFalse", <<>>)>>, GlobalSlots)
    BY <1>1, FitTuples
  <2>2. QED BY <1>2, <1>6, <2>1 DEF CompileBoolean
<1>7. CASE CompileIndex
  <2>1. FitAll(<<Compile(Node.left), Compile(Node.index), Emit("OpIndex", <<>>)>>, GlobalSlots)
    BY <1>1, CompileFits, FitTuples
  <2>2. QED BY <1>2, <1>7, <2>1 DEF CompileIndex
<1>8. CASE CompileReturn
  <2>1. FitAll(<<Compile(Node.value), Emit("OpReturnValue", <<>>)>>, GlobalSlots)
    BY <1>1, CompileFits, FitTuples
  <2>2. QED BY <1>2, <1>8, <2>1 DEF CompileReturn
<1>9. CASE CompileAssign
  <2>1. FitAll(<<Compile(Node.value), [do |-> "AssignTarget", name |-> Node.name]>>, GlobalSlots)
    BY CompileFits, PlaceFits, FitTuples
  <2>2. QED BY <1>2, <1>9, <2>1 DEF CompileAssign
<1>10. CASE CompileIf
  <2>1. FitAll(<<Compile(Node.condition), [do |-> "IfThen", node |-> Node]>>, GlobalSlots)
    BY CompileFits, PlaceFits, FitTuples
  <2>2. QED BY <1>2, <1>10, <2>1 DEF CompileIf
<1>11. CASE CompileWhile
  <2>1. FitAll(<<Compile(Node.condition),
                 [do |-> "WhileBody", node |-> Node, start |-> Len(Scope.instructions)]>>, GlobalSlots)
    BY CompileFits, PlaceFits, FitTuples
  <2>2. QED BY <1>2, <1>11, <2>1 DEF CompileWhile
<1>12. QED BY <1>3, <1>4, <1>5, <1>6, <1>7, <1>8, <1>9, <1>10, <1>11

LEMMA LiteralFits == ASSUME Inv, Declared, CompileLiteral PROVE Widens
<1>1. PICK kind \in {"IntegerLiteral", "FloatLiteral", "StringLiteral"} : NextNode(kind)
  BY DEF CompileLiteral
<1>2. Node.literal.type \in {"INTEGER", "FLOAT", "STRING"}
  BY <1>1, NodeIs DEF FieldsFit
<1>3. FitTask(Constant(Node.literal), GlobalSlots)
  BY <1>2 DEF FitTask, FitObject, Constant, OperandWidths
<1>4. Unfold(<<Constant(Node.literal)>>)
  BY Zenon DEF CompileLiteral
<1>5. QED BY <1>1, <1>3, <1>4, NextNodeControl, FitTuples, UnfoldFits

LEMMA ArrayFits == ASSUME Inv, Declared, CompileArray PROVE Widens
<1>1. /\ NextNode("ArrayLiteral")
      /\ Unfold(Append(CompileAll(Node.elements), Emit("OpArray", <<Len(Node.elements)>>)))
  BY Zenon DEF CompileArray
<1>2. Node.elements \in Seq(ExpressionNodes)
  BY <1>1, NodeIs DEF FieldsFit
<1>3. FitAll(Append(CompileAll(Node.elements), Emit("OpArray", <<Len(Node.elements)>>)), GlobalSlots)
  BY <1>2, CompileAllFits, CountFits, FitAppended
<1>4. QED BY <1>1, <1>3, NextNodeControl, UnfoldFits

LEMMA DictFits == ASSUME Inv, Declared, CompileDict PROVE Widens
<1>1. NextNode("DictLiteral")
  BY DEF CompileDict
<1>2. PICK order \in SetToSeqs(DOMAIN Node.pairs) :
        Unfold(Append(CompilePairs([i \in DOMAIN order |-> Node.pairs[order[i]]]),
                      Emit("OpDict", <<2 * Len(Node.pairs)>>)))
  BY DEF CompileDict
<1>3. PICK sorted, n, S :
        /\ sorted = [i \in DOMAIN order |-> Node.pairs[order[i]]] /\ n = 2 * Len(Node.pairs)
        /\ S = {sorted[i] : i \in DOMAIN order}
  OBVIOUS
<1>4. Node.pairs \in Seq([key : ExpressionNodes, value : ExpressionNodes, rank : Nat])
  <2>1. FieldsFit(Node) /\ Node.kind = "DictLiteral"
    BY <1>1, NodeIs
  <2>2. QED BY ONLY <2>1, Zenon DEF FieldsFit
<1>5. sorted \in Seq(S)
  <2>1. PICK k : k = Cardinality(DOMAIN Node.pairs)
    OBVIOUS
  <2>2. k \in Nat
    <3>1. DOMAIN Node.pairs = 1..Len(Node.pairs) /\ Len(Node.pairs) \in Nat
      BY <1>4, LenProperties
    <3>2. IsFiniteSet(DOMAIN Node.pairs)
      BY <3>1, FS_Interval
    <3>3. QED BY <2>1, <3>2, FS_CardinalityType
  <2>3. order \in [1..k -> DOMAIN Node.pairs]
    BY <2>1 DEF SetToSeqs
  <2>4. sorted \in [1..k -> S] /\ DOMAIN order = 1..k
    BY <1>3, <2>3
  <2>5. QED BY <2>2, <2>4, IsASeq
<1>6. FitAll(Append(CompilePairs(sorted), Emit("OpDict", <<n>>)), GlobalSlots)
  BY <1>5, CompilePairsFits, CountFits, FitAppended
<1>7. Unfold(Append(CompilePairs(sorted), Emit("OpDict", <<n>>)))
  BY <1>2, <1>3
<1>8. QED BY <1>1, <1>6, <1>7, NextNodeControl, UnfoldFits

LEMMA CallFits == ASSUME Inv, Declared, CompileCall PROVE Widens
<1>1. PICK arguments, t, n :
        /\ arguments = CompileAll(Node.arguments) /\ n = Len(Node.arguments)
        /\ t = <<Compile(Node.function)>> \o arguments \o <<Emit("OpCall", <<n>>)>>
  OBVIOUS
<1>2. NextNode("CallExpression") /\ Unfold(t)
  BY <1>1 DEF CompileCall
<1>3. Node.arguments \in Seq(ExpressionNodes)
  BY <1>2, NodeIs DEF FieldsFit
<1>4. FitAll(arguments, GlobalSlots)
  BY <1>1, <1>3, CompileAllFits
<1>5. FitAll(<<Compile(Node.function)>>, GlobalSlots) /\ FitAll(<<Emit("OpCall", <<n>>)>>, GlobalSlots)
  BY CompileFits, CountFits, FitTuples
<1>6. FitAll(t, GlobalSlots)
  BY <1>1, <1>4, <1>5, FitJoined
<1>7. QED BY <1>2, <1>6, NextNodeControl, UnfoldFits

LEMMA AttributeFits == ASSUME Inv, Declared, CompileAttribute PROVE Widens
<1>1. PICK t : t = <<Compile(Node.object), Constant(String(Node.property)), Emit("OpGetAttr", <<>>)>>
  OBVIOUS
<1>2. NextNode("AttributeAccess") /\ Unfold(t)
  BY <1>1 DEF CompileAttribute
<1>3. FitTask(Constant(String(Node.property)), GlobalSlots)
  BY DEF FitTask, FitObject, Constant, String, OperandWidths
<1>4. FitTask(Emit("OpGetAttr", <<>>), GlobalSlots)
  BY PlainFits DEF OperandWidths
<1>5. FitAll(t, GlobalSlots)
  BY <1>1, <1>3, <1>4, CompileFits, FitTuples
<1>6. QED BY <1>2, <1>5, NextNodeControl, UnfoldFits

LEMMA IdentifierFits == ASSUME Inv, Declared, CompileIdentifier PROVE Widens
<1>1. NextNode("Identifier")
  BY Zenon DEF CompileIdentifier
<1>2. Node.name \in Names /\ control # <<>>
  BY <1>1, NodeIs DEF FieldsFit
<1>3. PICK x, t : x = Node.name /\ t = <<loadSymbol(Resolved(tables, x))>>
  OBVIOUS
<1>4. \/ Stop("undefined variable") /\ UNCHANGED tables
      \/ /\ Resolvable(tables, x) /\ tables' = Resolve(tables, x)
         /\ Do(t) /\ UNCHANGED <<scopes, constants>>
  BY <1>3, Zenon DEF CompileIdentifier
<1>5. CASE /\ Resolvable(tables, x) /\ tables' = Resolve(tables, x)
           /\ Do(t) /\ UNCHANGED <<scopes, constants>>
  <2>1. Resolved(tables, x) \in SymbolType
    BY <1>2, <1>3, <1>5, FirstTable, ResolveTyped
  <2>2. FitAll(t, GlobalSlots)
    BY <1>3, <2>1, SymbolFits, FitTuples
  <2>3. QED BY <1>2, <1>3, <1>5, <2>2, PlanFits
<1>6. QED BY <1>4, <1>5, StopFits

LEMMA TargetFits == ASSUME Inv, Declared, AssignTarget PROVE Widens
<1>1. control # <<>> /\ Task.name \in Names
  <2>1. NextTask("AssignTarget")
    BY Zenon DEF AssignTarget
  <2>2. QED BY <2>1, NextIs, OtherTask
<1>2. PICK x, t : x = Task.name /\ t = <<storeSymbol(Resolved(tables, x))>>
  OBVIOUS
<1>3. \/ Stop("undefined variable") /\ UNCHANGED tables
      \/ /\ Resolvable(tables, x) /\ tables' = Resolve(tables, x)
         /\ Stop("unsupported assignment target scope")
      \/ /\ Resolvable(tables, x) /\ tables' = Resolve(tables, x)
         /\ Do(t) /\ UNCHANGED <<scopes, constants>>
  BY <1>2, Zenon DEF AssignTarget
<1>4. CASE Stop("undefined variable") /\ UNCHANGED tables
  BY <1>4, StopFits
<1>5. CASE /\ Resolvable(tables, x) /\ tables' = Resolve(tables, x)
           /\ Stop("unsupported assignment target scope")
  BY <1>1, <1>2, <1>5, StopFits
<1>6. CASE /\ Resolvable(tables, x) /\ tables' = Resolve(tables, x)
           /\ Do(t) /\ UNCHANGED <<scopes, constants>>
  <2>1. tables \in Seq(TableType) /\ tables # <<>> /\ \A k \in 1..Len(tables) : FitTable(tables[k], GlobalSlots)
    BY FirstTable DEF Declared, Fit
  <2>2. Resolved(tables, x) \in SymbolType
    BY <1>1, <1>2, <1>6, <2>1, ResolveTyped
  <2>3. Resolved(tables, x).scope = "GLOBAL" => Resolved(tables, x).index < GlobalSlots
    BY <1>1, <1>2, <1>6, <2>1, ResolveFits
  <2>4. FitAll(t, GlobalSlots)
    BY <1>2, <2>2, <2>3, SymbolFits, FitTuples
  <2>5. QED BY <1>1, <1>2, <1>6, <2>4, PlanFits
<1>7. QED BY <1>3, <1>4, <1>5, <1>6

LEMMA OperatorFails == ASSUME Inv, Declared, UnknownOperator PROVE Widens
<1>1. Stop(Task.cause) /\ UNCHANGED tables
  BY Zenon DEF UnknownOperator
<1>2. QED BY <1>1, StopFits

\* A declaration takes the next slot of the innermost table.
LEMMA VarFits == ASSUME Inv, Declared, CompileVar PROVE Widens
<1>1. PICK t, new, n, m :
        /\ new = Define(tables, Node.name) /\ n = GlobalSlots
        /\ t = <<Compile(Node.value), storeSymbol(Last(new).store[Node.name])>>
        /\ m = n + (IF Len(tables) = 1 THEN 1 ELSE 0)
  OBVIOUS
<1>2. NextNode("VarStatement") /\ tables' = new /\ Do(t) /\ UNCHANGED <<scopes, constants>>
  BY <1>1 DEF CompileVar
<1>3. Node.name \in Names /\ control \in Seq(Tasks) /\ control # <<>>
  BY <1>2, NodeIs DEF FieldsFit
<1>4. /\ tables \in Seq(TableType) /\ tables # <<>> /\ Len(tables) \in Nat \ {0}
      /\ n \in Nat /\ m \in Nat /\ n <= m
  BY <1>1, FirstTable
<1>5. Fit(control, scopes, constants, tables, m)
  <2>1. Fit(control, scopes, constants, tables, n)
    BY <1>1 DEF Declared
  <2>2. QED BY <1>3, <1>4, <2>1, FitMore
<1>6. /\ \A k \in 1..Len(new) : FitTable(new[k], m)
      /\ new[1].numDefinitions = m
  <2>1. PICK names : names = <<Node.name>> /\ names \in Seq(Names) /\ Len(names) = 1
    <3>1. PICK x : x = Node.name
      OBVIOUS
    <3>2. x \in Names /\ <<x>> = <<Node.name>>
      BY <1>3, <3>1
    <3>3. <<x>> \in Seq(Names) /\ Len(<<x>>) = 1
      BY ONLY <3>2
    <3>4. QED BY <3>2, <3>3
  <2>2. new = DefineEach(tables, names)
    BY <1>1, <2>1 DEF Define
  <2>3. \A k \in 1..Len(tables) : FitTable(tables[k], m)
    BY <1>5 DEF Fit
  <2>4. Len(tables) = 1 => tables[1].numDefinitions + Len(names) <= m
    BY <1>1, <1>4, <2>1 DEF GlobalSlots
  <2>5. \A k \in 1..Len(DefineEach(tables, names)) : FitTable(DefineEach(tables, names)[k], m)
    BY <1>4, <2>1, <2>3, <2>4, DefineEachFits
  <2>6. DefineEach(tables, names)[1].numDefinitions =
            tables[1].numDefinitions + (IF Len(tables) = 1 THEN Len(names) ELSE 0)
    BY <1>4, <2>1, <2>3, <2>4, DefineEachFits
  <2>7. QED BY <1>1, <2>1, <2>2, <2>5, <2>6 DEF GlobalSlots
<1>7. FitAll(t, m)
  <2>1. new \in Seq(TableType) /\ Len(new) = Len(tables) /\ Last(new).store[Node.name] \in SymbolType
    BY <1>1, <1>3, <1>4, DefineTyped
  <2>2. FitTable(Last(new), m)
    BY <1>4, <1>6, <2>1 DEF Last
  <2>3. FitTask(storeSymbol(Last(new).store[Node.name]), m)
    BY <1>3, <2>1, <2>2, SymbolFits DEF FitTable
  <2>4. QED BY <1>1, <2>3, CompileFits, FitTuples
<1>8. \A i \in 1..Len(control') : FitTask(control'[i], m)
  BY <1>2, <1>3, <1>5, <1>7, DoFits DEF Fit
<1>9. GlobalSlots' = m
  BY <1>2, <1>6 DEF GlobalSlots
<1>10. Fit(control, scopes, constants, tables, m)'
  BY <1>2, <1>5, <1>6, <1>8 DEF Fit
<1>11. QED BY <1>1, <1>4, <1>9, <1>10 DEF Widens, Declared

-----------------------------------------------------------------------------
(* Steps that write.                                                       *)

LEMMA HereFits ==
    ASSUME Inv, Declared, control # <<>>
    PROVE  /\ ScopeFits(Scope) /\ Scope.instructions \in Seq(FitCells(GlobalSlots))
           /\ Len(Scope.instructions) \in Nat /\ GlobalSlots \in Nat
           /\ FitTask(control[1], GlobalSlots)
<1>1. /\ ScopeFits(Scope) /\ Len(control) \in Nat \ {0} /\ Len(Scope.instructions) \in Nat
  BY HereIs
<1>2. Len(scopes) \in 1..Len(scopes)
  BY DEF Inv, Sound
<1>3. Scope.instructions \in Seq(FitCells(GlobalSlots))
  BY <1>2 DEF Declared, Fit, Scope
<1>4. FitTask(control[1], GlobalSlots)
  BY <1>1 DEF Declared, Fit
<1>5. QED BY <1>1, <1>3, <1>4, FirstTable

LEMMA NothingFits == \A n : FitAll(<<>>, n)
<1>1. SUFFICES ASSUME NEW n PROVE FitAll(<<>>, n)
  OBVIOUS
<1>2. PICK T : T = {}
  OBVIOUS
<1>3. <<>> \in Seq(T) /\ \A task \in T : FitTask(task, n)
  BY <1>2
<1>4. QED BY <1>3 DEF FitAll

LEMMA InstructionFits == ASSUME Inv, Declared, EmitInstruction PROVE Widens
<1>1. PICK new : new = EmitIn(Scope, Task.op, Task.operands)
  OBVIOUS
<1>2. NextTask("Emit") /\ Write(new, <<>>)
  BY <1>1, Zenon DEF EmitInstruction
<1>3. /\ control # <<>> /\ control[1].do = "Emit" /\ Task = control[1]
      /\ Task.op \in Opcodes /\ Task.operands \in Seq(Nat)
  BY <1>2, NextIs, InstructionTask
<1>4. /\ Len(Task.operands) = Len(OperandWidths(Task.op))
      /\ Task.op = "OpSetGlobal" => Task.operands[1] < GlobalSlots
  BY <1>3, HereFits DEF FitTask
<1>5. Scope.instructions \in Seq(FitCells(GlobalSlots)) /\ GlobalSlots \in Nat
  BY <1>3, HereFits
<1>6. new.instructions \in Seq(FitCells(GlobalSlots))
  BY <1>1, <1>3, <1>4, <1>5, EmitFits
<1>7. QED BY <1>2, <1>3, <1>6, NothingFits, WriteFits

\* A jump to be patched.
LEMMA JumpFits ==
    ASSUME NEW n \in Nat, NEW scope, scope.instructions \in Seq(FitCells(n)),
           NEW op \in {"OpJump", "OpJumpNotTruthy"}, NEW target \in Nat
    PROVE  EmitIn(scope, op, <<target>>).instructions \in Seq(FitCells(n))
<1>1. op \in Opcodes /\ <<target>> \in Seq(Nat) /\ Len(<<target>>) = Len(OperandWidths(op)) /\ op # "OpSetGlobal"
  BY DEF Opcodes, OperandWidths
<1>2. QED BY <1>1, EmitFits

LEMMA ThenFits == ASSUME Inv, Declared, IfThen PROVE Widens
<1>1. PICK new, t :
        /\ new = EmitIn(Scope, "OpJumpNotTruthy", <<Placeholder>>)
        /\ t = <<Compile(Node.consequence),
                 [do |-> "IfElse", node |-> Node, test |-> Len(Scope.instructions)]>>
  OBVIOUS
<1>2. NextTask("IfThen") /\ Write(new, t)
  BY <1>1, Zenon DEF IfThen
<1>3. FitAll(t, GlobalSlots)
  BY <1>1, CompileFits, PlaceFits, FitTuples
<1>4. new.instructions \in Seq(FitCells(GlobalSlots))
  BY <1>1, <1>2, NextTaskControl, HereFits, JumpFits DEF Placeholder
<1>5. QED BY <1>2, <1>3, <1>4, NextTaskControl, WriteFits

LEMMA BodyFits == ASSUME Inv, Declared, WhileBody PROVE Widens
<1>1. PICK new, t :
        /\ new = EmitIn(Scope, "OpJumpNotTruthy", <<Placeholder>>)
        /\ t = <<Compile(Node.body),
                 [do |-> "WhileEnd", start |-> Task.start, test |-> Len(Scope.instructions)]>>
  OBVIOUS
<1>2. NextTask("WhileBody") /\ Write(new, t)
  BY <1>1, Zenon DEF WhileBody
<1>3. FitAll(t, GlobalSlots)
  BY <1>1, CompileFits, PlaceFits, FitTuples
<1>4. new.instructions \in Seq(FitCells(GlobalSlots))
  BY <1>1, <1>2, NextTaskControl, HereFits, JumpFits DEF Placeholder
<1>5. QED BY <1>2, <1>3, <1>4, NextTaskControl, WriteFits

LEMMA WhileEndFits == ASSUME Inv, Declared, WhileEnd PROVE Widens
<1>1. PICK back, new, n :
        /\ back = EmitIn(Scope, "OpJump", <<Task.start>>) /\ n = Len(back.instructions)
        /\ new = changeOperand(back, Task.test, n)
  OBVIOUS
<1>2. NextTask("WhileEnd") /\ Write(new, <<>>)
  BY <1>1, Zenon DEF WhileEnd
<1>3. /\ control # <<>> /\ control[1].do = "WhileEnd" /\ Task = control[1]
      /\ Task.start \in Nat
  BY <1>2, NextIs, PlaceTask
<1>4. /\ ScopeFits(back) /\ n \in Nat /\ Keeps(Scope.instructions, back.instructions)
  <2>1. <<Task.start>> \in Seq(Nat)
    BY <1>3
  <2>2. QED BY <1>1, <1>3, <2>1, Emitting DEF Opcodes
<1>5. JumpAt(back.instructions, Task.test, "OpJumpNotTruthy")
  <2>1. JumpAt(Scope.instructions, Task.test, "OpJumpNotTruthy")
    BY <1>3, HereIs DEF Pending
  <2>2. QED BY <1>4, <2>1 DEF Keeps
<1>6. back.instructions \in Seq(FitCells(GlobalSlots)) /\ GlobalSlots \in Nat /\ back \in ScopeType
  BY <1>1, <1>3, <1>4, HereFits, JumpFits DEF ScopeFits
<1>7. new.instructions \in Seq(FitCells(GlobalSlots))
  BY <1>1, <1>4, <1>5, <1>6, PatchFits
<1>8. QED BY <1>2, <1>3, <1>7, NothingFits, WriteFits

LEMMA ElseFits == ASSUME Inv, Declared, IfElse PROVE Widens
<1>1. PICK value, over, new, other, t, n :
        /\ value = DropValuePop(Scope) /\ over = EmitIn(value, "OpJump", <<Placeholder>>)
        /\ n = Len(over.instructions) /\ new = changeOperand(over, Task.test, n)
        /\ other = (IF Node.alternative = <<>> THEN Emit("OpNull", <<>>)
                                               ELSE Compile(Node.alternative[1]))
        /\ t = <<other, [do |-> "IfEnd", over |-> Len(value.instructions)]>>
  OBVIOUS
<1>2. NextTask("IfElse") /\ Write(new, t)
  BY <1>1, Zenon DEF IfElse
<1>3. /\ control # <<>> /\ control[1].do = "IfElse" /\ Task = control[1] /\ ~Emits(control[1])
  BY <1>2, NextIs DEF Emits, CompilesExpression
<1>4. ScopeFits(value) /\ Keeps(Scope.instructions, value.instructions)
  BY <1>1, <1>3, HereIs, BehindLater, DropKeeps
<1>5. /\ ScopeFits(over) /\ n \in Nat /\ Keeps(value.instructions, over.instructions)
  BY <1>1, <1>4, EmitKeeps, PlaceholderTyped DEF Opcodes
<1>6. JumpAt(over.instructions, Task.test, "OpJumpNotTruthy")
  <2>1. JumpAt(Scope.instructions, Task.test, "OpJumpNotTruthy")
    BY <1>3, HereIs DEF Pending
  <2>2. QED BY <1>4, <1>5, <2>1 DEF Keeps
<1>7. value.instructions \in Seq(FitCells(GlobalSlots)) /\ GlobalSlots \in Nat
  BY <1>1, <1>3, HereFits, DropFits
<1>8. over.instructions \in Seq(FitCells(GlobalSlots)) /\ over \in ScopeType
  BY <1>1, <1>5, <1>7, JumpFits DEF Placeholder, ScopeFits
<1>9. new.instructions \in Seq(FitCells(GlobalSlots))
  BY <1>1, <1>5, <1>6, <1>7, <1>8, PatchFits
<1>10. FitAll(t, GlobalSlots)
  <2>1. FitTask(Emit("OpNull", <<>>), GlobalSlots)
    BY PlainFits DEF OperandWidths
  <2>2. FitTask(other, GlobalSlots)
    BY <1>1, <2>1, CompileFits
  <2>3. QED BY <1>1, <2>2, PlaceFits, FitTuples
<1>11. QED BY <1>2, <1>3, <1>9, <1>10, WriteFits

LEMMA IfEndFits == ASSUME Inv, Declared, IfEnd PROVE Widens
<1>1. PICK value, new, n :
        /\ value = DropValuePop(Scope) /\ n = Len(value.instructions)
        /\ new = changeOperand(value, Task.over, n)
  OBVIOUS
<1>2. NextTask("IfEnd") /\ Write(new, <<>>)
  BY <1>1, Zenon DEF IfEnd
<1>3. /\ control # <<>> /\ control[1].do = "IfEnd" /\ Task = control[1] /\ ~Emits(control[1])
  BY <1>2, NextIs DEF Emits, CompilesExpression
<1>4. ScopeFits(value) /\ Keeps(Scope.instructions, value.instructions) /\ n \in Nat
  BY <1>1, <1>3, HereIs, BehindLater, DropKeeps
<1>5. JumpAt(value.instructions, Task.over, "OpJump")
  <2>1. JumpAt(Scope.instructions, Task.over, "OpJump")
    BY <1>3, HereIs DEF Pending
  <2>2. QED BY <1>4, <2>1 DEF Keeps
<1>6. value.instructions \in Seq(FitCells(GlobalSlots)) /\ GlobalSlots \in Nat /\ value \in ScopeType
  BY <1>1, <1>3, <1>4, HereFits, DropFits DEF ScopeFits
<1>7. new.instructions \in Seq(FitCells(GlobalSlots))
  BY <1>1, <1>4, <1>5, <1>6, PatchFits
<1>8. QED BY <1>2, <1>3, <1>7, NothingFits, WriteFits

\* A constant joins the pool.
LEMMA ConstantFits == ASSUME Inv, SoundConstants, Declared, EmitConstant PROVE Widens
<1>1. PICK operands, new, object, n :
        /\ operands = <<Len(constants)>> \o Task.operands /\ n = GlobalSlots
        /\ new = EmitIn(Scope, Task.op, operands) /\ object = Task.object
  OBVIOUS
<1>2. /\ NextTask("Constant") /\ constants' = Append(constants, object)
      /\ scopes' = [scopes EXCEPT ![Len(scopes)] =
                      EmitIn(@, Task.op, <<Len(constants)>> \o Task.operands)]
      /\ Do(<<>>) /\ UNCHANGED tables
  BY <1>1, Zenon DEF EmitConstant
<1>3. /\ control # <<>> /\ control[1].do = "Constant" /\ Task = control[1]
      /\ Task.op \in Opcodes /\ Task.operands \in Seq(Nat) /\ control[1] \in Tasks
      /\ control \in Seq(Tasks)
  BY <1>2, NextIs, InstructionTask
<1>4. Len(OperandWidths(Task.op)) = 1 + Len(Task.operands) /\ FitObject(object, n)
  BY <1>1, <1>3, HereFits DEF FitTask
<1>5. operands \in Seq(Nat) /\ Len(operands) = Len(OperandWidths(Task.op)) /\ Task.op # "OpSetGlobal"
  <2>1. Len(constants) \in Nat
    BY LenProperties DEF SoundConstants
  <2>2. <<Len(constants)>> \in Seq(Nat) /\ Len(<<Len(constants)>>) = 1
    BY <2>1
  <2>3. operands \in Seq(Nat) /\ Len(operands) = 1 + Len(Task.operands)
    BY <1>1, <1>3, <2>2, ConcatProperties
  <2>4. Task.op \in {"OpConstant", "OpClosure"}
    BY <1>3 DEF Tasks
  <2>5. QED BY <1>4, <2>3, <2>4
<1>6. new.instructions \in Seq(FitCells(n)) /\ n \in Nat
  BY <1>1, <1>3, <1>5, HereFits, EmitFits
<1>7. scopes' = [scopes EXCEPT ![Len(scopes)] = new]
  BY <1>1, <1>2 DEF Scope
<1>8. Fit(control, scopes, constants, tables, n) /\ scopes \in Seq(ScopeType)
  BY <1>1 DEF Declared, Inv, Sound
<1>9. \A i \in 1..Len(control') : FitTask(control'[i], n)
  BY <1>2, <1>3, <1>8, NothingFits, DoFits DEF Fit
<1>10. \A k \in 1..Len(scopes') : scopes'[k].instructions \in Seq(FitCells(n))
  <2>1. PICK m : m = Len(scopes) /\ m \in Nat /\ DOMAIN scopes = 1..m
    BY <1>8
  <2>2. Len(scopes') = m
    BY <1>7, <1>8, <2>1
  <2>3. ASSUME NEW k \in 1..m
        PROVE  scopes'[k].instructions \in Seq(FitCells(n))
    <3>1. scopes'[k] = IF k = m THEN new ELSE scopes[k]
      BY <1>7, <2>1
    <3>2. scopes[k].instructions \in Seq(FitCells(n))
      BY <1>8, <2>1 DEF Fit
    <3>3. QED BY <1>6, <3>1, <3>2
  <2>4. QED BY <2>2, <2>3
<1>11. \A i \in 1..Len(constants') : FitObject(constants'[i], n)
  <2>1. PICK m : m = Len(constants) /\ m \in Nat
    BY LenProperties DEF SoundConstants
  <2>2. /\ Len(constants') = m + 1 /\ constants'[m + 1] = object
        /\ \A i \in 1..m : constants'[i] = constants[i]
    BY <1>2, <2>1, AppendProperties DEF SoundConstants
  <2>3. \A i \in 1..(m + 1) : i \in 1..m \/ i = m + 1
    BY <2>1
  <2>4. \A i \in 1..m : FitObject(constants[i], n)
    BY <1>8, <2>1 DEF Fit
  <2>5. QED BY <1>4, <2>2, <2>3, <2>4
<1>12. GlobalSlots' = n
  BY <1>1, <1>2 DEF GlobalSlots
<1>13. Fit(control, scopes, constants, tables, n)'
  BY <1>2, <1>8, <1>9, <1>10, <1>11 DEF Fit
<1>14. QED BY <1>1, <1>6, <1>12, <1>13 DEF Widens, Declared

-----------------------------------------------------------------------------
(* Steps of functions and imports.                                         *)

FitChain(chain, n) == \A k \in 1..Len(chain) : FitTable(chain[k], n)

\* enterScope, the function's name and its parameters.
LEMMA EnteredFits ==
    ASSUME NEW n \in Nat, NEW chain \in Seq(TableType), chain # <<>>,
           FitChain(chain, n), NEW named,
           \/ named = NewEnclosedSymbolTable(chain)
           \/ \E self \in Names : named = DefineFunctionName(NewEnclosedSymbolTable(chain), self),
           NEW names \in Seq(Names)
    PROVE  /\ FitChain(DefineEach(named, names), n)
           /\ DefineEach(named, names)[1].numDefinitions = chain[1].numDefinitions
<1>1. PICK opened, m : opened = NewEnclosedSymbolTable(chain) /\ m = Len(chain) + 1
  OBVIOUS
<1>2. m \in Nat /\ m - 1 \in Nat \ {0} /\ Len(chain) = m - 1
  BY <1>1, EmptySeq
<1>3. opened = Append(chain, EmptyTable) /\ EmptyTable \in TableType
  BY <1>1, EmptyTableTyped DEF NewEnclosedSymbolTable
<1>4. /\ Len(opened) = m /\ opened[m] = EmptyTable
      /\ \A k \in 1..(m - 1) : opened[k] = chain[k]
  BY <1>1, <1>2, <1>3, AppendProperties
<1>5. FitTable(EmptyTable, n)
  BY DEF FitTable, EmptyTable, NoSymbol, Symbol
<1>6. \A k \in 1..m : k = m \/ k \in 1..(m - 1)
  BY <1>2
<1>7. \A k \in 1..m : FitTable(opened[k], n)
  BY <1>2, <1>4, <1>5, <1>6 DEF FitChain
<1>8. named \in Seq(TableType) /\ Len(named) = m
  BY <1>1, OpenedTyped
<1>9. (\A k \in 1..m : FitTable(named[k], n)) /\ named[1] = chain[1]
  <2>1. 1 \in 1..(m - 1) /\ m \in 1..m /\ m # 1
    BY <1>2
  <2>2. CASE named = opened
    BY <1>4, <1>7, <2>1, <2>2
  <2>3. ASSUME NEW self \in Names, named = DefineFunctionName(opened, self)
        PROVE  (\A k \in 1..m : FitTable(named[k], n)) /\ named[1] = chain[1]
    <3>1. PICK table : table = [EmptyTable EXCEPT !.store = Put(@, Symbol(self, "FUNCTION", 0))]
      OBVIOUS
    <3>2. table.store = Put(EmptyTable.store, Symbol(self, "FUNCTION", 0))
      BY <1>3, <3>1 DEF TableType
    <3>3. FitTable(table, n)
      BY <1>3, <1>5, <3>2, PutFits
    <3>4. named = [opened EXCEPT ![m] = table]
      BY <1>4, <2>3, <3>1 DEF DefineFunctionName
    <3>5. opened \in Seq(TableType)
      BY <1>3, AppendProperties
    <3>6. \A k \in 1..m : named[k] = IF k = m THEN table ELSE opened[k]
      BY <1>2, <1>4, <3>4, <3>5
    <3>7. \A k \in 1..m : FitTable(named[k], n)
      <4>1. SUFFICES ASSUME NEW k \in 1..m PROVE FitTable(named[k], n)
        OBVIOUS
      <4>2. FitTable(opened[k], n) /\ named[k] = (IF k = m THEN table ELSE opened[k])
        BY <1>7, <3>6
      <4>3. QED BY <3>3, <4>2
    <3>8. named[1] = opened[1] /\ opened[1] = chain[1]
      BY <1>4, <2>1, <3>6
    <3>9. QED BY <3>7, <3>8
  <2>4. QED BY <1>1, <2>2, <2>3
<1>10. m # 1 /\ named # <<>>
  BY <1>2, <1>8, EmptySeq
<1>11. Len(named) = 1 => named[1].numDefinitions + Len(names) <= n
  BY <1>8, <1>10
<1>12. \A k \in 1..Len(named) : FitTable(named[k], n)
  BY <1>8, <1>9
<1>13. \A k \in 1..Len(DefineEach(named, names)) : FitTable(DefineEach(named, names)[k], n)
  BY <1>8, <1>10, <1>11, <1>12, DefineEachFits
<1>14. DefineEach(named, names)[1].numDefinitions =
          named[1].numDefinitions + (IF Len(named) = 1 THEN Len(names) ELSE 0)
  BY <1>8, <1>10, <1>11, <1>12, DefineEachFits
<1>15. chain[1].numDefinitions \in Nat
  <2>1. 1 \in 1..Len(chain)
    BY <1>2
  <2>2. chain[1] \in TableType
    BY <2>1, ElementOfSeq
  <2>3. QED BY <2>2, TableFields
<1>16. QED BY <1>8, <1>9, <1>10, <1>13, <1>14, <1>15 DEF FitChain

LEMMA FunctionFits == ASSUME Inv, Declared, CompileFunction PROVE Widens
<1>1. PICK t, named, n :
        /\ t = <<Compile(Node.body), [do |-> "FunctionEnd", node |-> Node]>>
        /\ named = Named(NewEnclosedSymbolTable(tables), Node.name) /\ n = GlobalSlots
  OBVIOUS
<1>2. /\ NextNode("FunctionLiteral") /\ scopes' = Append(scopes, EmptyScope)
      /\ tables' = DefineEach(named, Node.parameters)
      /\ Do(t) /\ UNCHANGED constants
  BY <1>1, Zenon DEF CompileFunction
<1>3. /\ control \in Seq(Tasks) /\ control # <<>>
      /\ Node.name \in Names \cup {Anonymous} /\ Node.parameters \in Seq(Names)
  BY <1>2, NodeIs DEF NodesOfKind, FieldsFit
<1>4. /\ tables \in Seq(TableType) /\ tables # <<>> /\ n \in Nat /\ scopes \in Seq(ScopeType)
      /\ Fit(control, scopes, constants, tables, n)
  BY <1>1, FirstTable DEF Declared, Inv, Sound
<1>5. FitAll(t, n)
  BY <1>1, CompileFits, PlaceFits, FitTuples
<1>6. \A i \in 1..Len(control') : FitTask(control'[i], n)
  BY <1>2, <1>3, <1>4, <1>5, DoFits DEF Fit
<1>7. (\A k \in 1..Len(tables') : FitTable(tables'[k], n)) /\ tables'[1].numDefinitions = n
  <2>1. \/ named = NewEnclosedSymbolTable(tables)
        \/ \E self \in Names : named = DefineFunctionName(NewEnclosedSymbolTable(tables), self)
    BY <1>1, <1>3 DEF Named
  <2>2. \A k \in 1..Len(tables) : FitTable(tables[k], n)
    BY <1>4 DEF Fit
  <2>3. PICK names, chain, new :
          names = Node.parameters /\ chain = tables /\ new = DefineEach(named, names)
    OBVIOUS
  <2>4. /\ \A k \in 1..Len(new) : FitTable(new[k], n)
        /\ new[1].numDefinitions = chain[1].numDefinitions
    <3>1. /\ n \in Nat /\ chain \in Seq(TableType) /\ chain # <<>>
          /\ FitChain(chain, n)
          /\ \/ named = NewEnclosedSymbolTable(chain)
             \/ \E self \in Names : named = DefineFunctionName(NewEnclosedSymbolTable(chain), self)
          /\ names \in Seq(Names)
      BY <1>3, <1>4, <2>1, <2>2, <2>3 DEF FitChain
    <3>2. FitChain(DefineEach(named, names), n)
      BY ONLY <3>1, EnteredFits
    <3>3. DefineEach(named, names)[1].numDefinitions = chain[1].numDefinitions
      BY ONLY <3>1, EnteredFits
    <3>4. QED BY <2>3, <3>2, <3>3 DEF FitChain
  <2>5. QED BY <1>1, <1>2, <2>3, <2>4 DEF GlobalSlots
<1>8. \A k \in 1..Len(scopes') : scopes'[k].instructions \in Seq(FitCells(n))
  <2>1. PICK m : m = Len(scopes) /\ m \in Nat
    BY <1>4
  <2>2. /\ Len(scopes') = m + 1 /\ scopes'[m + 1] = EmptyScope
        /\ \A k \in 1..m : scopes'[k] = scopes[k]
    <3>1. PICK S : S = ScopeType \cup {EmptyScope}
      OBVIOUS
    <3>2. scopes \in Seq(S) /\ EmptyScope \in S
      BY <1>4, <3>1, SeqMonotonic
    <3>3. QED BY <1>2, <2>1, <3>2, AppendProperties
  <2>3. \A k \in 1..(m + 1) : k \in 1..m \/ k = m + 1
    BY <2>1
  <2>4. EmptyScope.instructions \in Seq(FitCells(n))
    BY DEF EmptyScope
  <2>5. \A k \in 1..m : scopes[k].instructions \in Seq(FitCells(n))
    BY <1>4, <2>1 DEF Fit
  <2>6. QED BY <2>2, <2>3, <2>4, <2>5
<1>9. GlobalSlots' = n
  BY <1>7 DEF GlobalSlots
<1>10. Fit(control, scopes, constants, tables, n)'
  BY <1>2, <1>4, <1>6, <1>7, <1>8 DEF Fit
<1>11. QED BY <1>1, <1>4, <1>9, <1>10 DEF Widens, Declared

LEMMA FunctionEndFits == ASSUME Inv, Declared, FunctionEnd PROVE Widens
<1>1. PICK free, fn, loads, make, t, n :
        /\ free = Last(tables).FreeSymbols /\ n = GlobalSlots
        /\ fn = CompiledFunction(Returning(Scope).instructions, Last(tables).numDefinitions,
                                 Len(Node.parameters))
        /\ loads = [i \in DOMAIN free |-> loadSymbol(free[i])]
        /\ make = MakeClosure(fn, Len(free)) /\ t = loads \o <<make>>
  OBVIOUS
<1>2. /\ NextTask("FunctionEnd") /\ Do(t) /\ scopes' = Front(scopes) /\ tables' = Front(tables)
      /\ UNCHANGED constants
  BY <1>1, Zenon DEF FunctionEnd, leaveScope
<1>3. control \in Seq(Tasks) /\ control # <<>>
  BY <1>2, NextIs
<1>4. /\ tables \in Seq(TableType) /\ tables # <<>> /\ n \in Nat /\ scopes \in Seq(ScopeType)
      /\ Len(tables) = Len(scopes) /\ Len(tables) \in Nat \ {0}
      /\ Fit(control, scopes, constants, tables, n)
  BY <1>1, FirstTable DEF Declared, Inv, Sound
<1>5. free \in Seq(SymbolType)
  <2>1. Last(tables) \in TableType
    BY <1>4 DEF Last
  <2>2. QED BY <1>1, <2>1, TableFields
<1>6. FitAll(loads, n)
  <2>1. PICK k, T : k = Len(free) /\ T = {loads[i] : i \in 1..k}
    OBVIOUS
  <2>2. k \in Nat /\ DOMAIN free = 1..k /\ \A i \in 1..k : free[i] \in SymbolType
    BY <1>5, <2>1
  <2>3. loads \in [1..k -> T] /\ \A i \in 1..k : loads[i] = loadSymbol(free[i])
    BY <1>1, <2>1, <2>2
  <2>4. loads \in Seq(T)
    BY <2>2, <2>3, IsASeq
  <2>5. \A task \in T : FitTask(task, n)
    BY <2>1, <2>2, <2>3, SymbolFits
  <2>6. QED BY <2>4, <2>5 DEF FitAll
<1>7. FitTask(make, n)
  <2>1. FitObject(fn, n)
    <3>1. Returning(Scope).instructions \in Seq(FitCells(n))
      BY <1>1, <1>3, HereFits, ReturningFits
    <3>2. QED BY <1>1, <3>1 DEF FitObject, CompiledFunction
  <2>2. Len(OperandWidths("OpClosure")) = 1 + Len(<<Len(free)>>)
    BY DEF OperandWidths
  <2>3. QED BY <1>1, <2>1, <2>2 DEF FitTask, MakeClosure
<1>8. FitAll(t, n)
  BY <1>1, <1>6, <1>7, FitTuples, FitJoined
<1>9. \A i \in 1..Len(control') : FitTask(control'[i], n)
  BY <1>2, <1>3, <1>4, <1>8, DoFits DEF Fit
<1>10. Len(tables') \in Nat \ {0}
  <2>1. Inv'
    BY FunctionEndStep
  <2>2. QED BY <2>1 DEF Inv, SoundTables, Sound
<1>11. PICK m : m = Len(tables) - 1 /\ m \in 0..Len(tables)
  BY <1>4
<1>12. /\ tables' = SubSeq(tables, 1, m) /\ scopes' = SubSeq(scopes, 1, m)
  BY <1>2, <1>4, <1>11 DEF Front
<1>13. /\ Len(tables') = m /\ \A k \in 1..m : tables'[k] = tables[k]
       /\ Len(scopes') = m /\ \A k \in 1..m : scopes'[k] = scopes[k]
  BY <1>4, <1>11, <1>12, SubSeqProperties
<1>14. 1 \in 1..m /\ \A k \in 1..m : k \in 1..Len(tables)
  BY <1>4, <1>10, <1>11, <1>13
<1>15. /\ \A k \in 1..Len(tables') : FitTable(tables'[k], n)
       /\ \A k \in 1..Len(scopes') : scopes'[k].instructions \in Seq(FitCells(n))
  BY <1>4, <1>13, <1>14 DEF Fit
<1>16. GlobalSlots' = n
  BY <1>1, <1>13, <1>14 DEF GlobalSlots
<1>17. Fit(control, scopes, constants, tables, n)'
  BY <1>2, <1>4, <1>9, <1>15 DEF Fit
<1>18. QED BY <1>1, <1>4, <1>16, <1>17 DEF Widens, Declared

\* Nothing changes but the plan of work, or not even that.
LEMMA ImportFits == ASSUME Inv, Declared, CompileImport PROVE Widens
<1>1. PICK file, t :
        /\ file = FullPath[currentDir][Node.path]
        /\ t = <<Compile(Files[file]), [do |-> "ImportEnd", dir |-> currentDir, file |-> file]>>
  OBVIOUS
<1>2. NextNode("ImportStatement")
  BY Zenon DEF CompileImport
<1>3. CASE file \in importedFiles
  <2>1. Unfold(<<>>)
    BY <1>1, <1>3, Zenon DEF CompileImport
  <2>2. QED BY <1>2, <2>1, NextNodeControl, NothingFits, UnfoldFits
<1>4. CASE file \notin importedFiles /\ Files[file] \in {Unreadable, Unparsable}
  <2>1. UNCHANGED <<control, tables, scopes, constants>>
    BY <1>1, <1>4, Zenon DEF CompileImport
  <2>2. Declared' /\ GlobalSlots' = GlobalSlots
    BY <2>1 DEF Declared, GlobalSlots
  <2>3. QED BY <2>2, FirstTable DEF Widens
<1>5. CASE file \notin importedFiles /\ Files[file] \notin {Unreadable, Unparsable}
  <2>1. Do(t) /\ UNCHANGED <<tables, scopes, constants>>
    BY <1>1, <1>5, Zenon DEF CompileImport
  <2>2. FitAll(t, GlobalSlots)
    BY <1>1, CompileFits, PlaceFits, FitTuples
  <2>3. QED BY <1>2, <2>1, <2>2, NextNodeControl, PlanFits
<1>6. QED BY <1>3, <1>4, <1>5

LEMMA ImportEndFits == ASSUME Inv, Declared, ImportEnd PROVE Widens
<1>1. NextTask("ImportEnd") /\ Do(<<>>) /\ UNCHANGED <<tables, scopes, constants>>
  BY Zenon DEF ImportEnd
<1>2. QED BY <1>1, NextTaskControl, NothingFits, PlanFits

-----------------------------------------------------------------------------
LEMMA NextDeclared == ASSUME Inv, SoundConstants, Declared, [Next]_vars PROVE Widens
<1>1. CASE UNCHANGED vars
  <2>1. Declared' /\ GlobalSlots' = GlobalSlots
    BY <1>1 DEF vars, Declared, GlobalSlots
  <2>2. QED BY <2>1, FirstTable DEF Widens
<1>2. CASE Next
  BY <1>2, InstructionFits, ConstantFits, OperatorFails, StatementsFit, ExpressionsFit, LiteralFits,
     ArrayFits, DictFits, CallFits, AttributeFits, VarFits, IdentifierFits, TargetFits,
     ThenFits, ElseFits, IfEndFits, BodyFits, WhileEndFits, FunctionFits, FunctionEndFits,
     ImportFits, ImportEndFits
     DEF Next
<1>3. QED BY <1>1, <1>2

\* What a compiler starts with.
LEMMA StartDeclared ==
    ASSUME NEW tree \in Trees, NEW pool, NEW table, NEW n,
           FitTable(table, n), \A i \in 1..Len(pool) : FitObject(pool[i], n)
    PROVE  Fit(<<Compile(tree)>>, <<EmptyScope>>, pool, <<table>>, n)
<1>1. PICK c, open, chain : c = <<Compile(tree)>> /\ open = <<EmptyScope>> /\ chain = <<table>>
  OBVIOUS
<1>2. /\ Len(c) = 1 /\ c[1] = Compile(tree) /\ Len(open) = 1 /\ open[1] = EmptyScope
      /\ Len(chain) = 1 /\ chain[1] = table
  BY <1>1
<1>3. \A i \in 1..1 : i = 1
  OBVIOUS
<1>4. EmptyScope.instructions \in Seq(FitCells(n))
  BY DEF EmptyScope
<1>5. Fit(c, open, pool, chain, n)
  BY <1>2, <1>3, <1>4, CompileFits DEF Fit
<1>6. QED BY <1>1, <1>5

\* The builtins take no slots.
LEMMA BuiltinsFit ==
    ASSUME NEW n
    PROVE  FitTable(DefineBuiltins(NewSymbolTable, Builtins)[1], n)
<1>1. PICK table : table = AddBuiltins(EmptyTable, Builtins)
  OBVIOUS
<1>2. table.store = [x \in Names |-> IF Positions(Builtins, x) = {} THEN EmptyTable.store[x]
                                     ELSE Symbol(x, "BUILTIN", LastPosition(Builtins, x) - 1)]
  BY <1>1, EmptyTableTyped DEF AddBuiltins, TableType
<1>3. \A x \in Names : EmptyTable.store[x].scope # "GLOBAL"
  BY DEF EmptyTable, NoSymbol, Symbol
<1>4. ASSUME NEW x \in Names PROVE table.store[x].scope # "GLOBAL"
  <2>1. CASE Positions(Builtins, x) = {}
    <3>1. table.store[x] = EmptyTable.store[x]
      BY <1>2, <2>1
    <3>2. QED BY <3>1, <1>3
  <2>2. CASE Positions(Builtins, x) # {}
    <3>1. table.store[x] = Symbol(x, "BUILTIN", LastPosition(Builtins, x) - 1)
      BY <1>2, <2>2
    <3>2. QED BY <3>1 DEF Symbol
  <2>3. QED BY <2>1, <2>2
<1>5. DefineBuiltins(NewSymbolTable, Builtins)[1] = table
  BY <1>1 DEF DefineBuiltins, NewSymbolTable
<1>6. QED BY <1>4, <1>5 DEF FitTable

(* A program's code stores into declared globals only: every slot that an  *)
(* OpSetGlobal of it names, in whatever function, is one that the global   *)
(* table has given to a name, also while the rest is not compiled yet.     *)
THEOREM StoresDeclared == Spec => []Declared
<1>1. ASSUME Init PROVE Declared
  <2>1. PICK tree, chain :
            /\ tree \in Trees /\ chain = DefineBuiltins(NewSymbolTable, Builtins)
            /\ Start(tree, chain, <<>>, BaseDir)
    BY <1>1, Zenon DEF Init
  <2>2. /\ control = <<Compile(tree)>> /\ scopes = <<EmptyScope>> /\ tables = chain
        /\ constants = <<>>
    BY <2>1, Zenon DEF Start
  <2>3. chain \in Seq(TableType) /\ Len(chain) = 1
    BY <2>1, BuiltinsTyped
  <2>4. PICK table : table = chain[1] /\ chain = <<table>>
    BY <2>3
  <2>5. FitTable(table, GlobalSlots)
    BY <2>1, <2>4, BuiltinsFit
  <2>6. Fit(<<Compile(tree)>>, <<EmptyScope>>, <<>>, <<table>>, GlobalSlots)
    <3>1. tree \in Trees
      BY <2>1, Zenon
    <3>2. QED BY <2>5, <3>1, StartDeclared
  <2>7. QED BY <2>2, <2>4, <2>6 DEF Declared
<1>2. Init => Inv /\ SoundConstants /\ Declared
  BY <1>1, InitInv
<1>3. Inv /\ SoundConstants /\ Declared /\ [Next]_vars => (Inv /\ SoundConstants /\ Declared)'
  BY NextInv, NextDeclared DEF Widens
<1>4. QED BY <1>2, <1>3, PTL DEF Spec
=============================================================================
