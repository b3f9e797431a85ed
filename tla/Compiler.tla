------------------------------ MODULE Compiler ------------------------------
(***************************************************************************)
(* compiler/compiler.go: from a syntax tree to bytecode.                   *)
(*                                                                         *)
(* Compile is recursive; here the Go call stack is control, the sequence   *)
(* of what is left to do, next task first.  A task compiles a node, emits  *)
(* an instruction, or finishes a node whose children are compiled.  One    *)
(* action stands for what the code does between two calls of Compile.      *)
(*                                                                         *)
(* A syntax tree node is a record whose kind is the name of its ast type.  *)
(* Of an expression's text (String()) only its place in the sorted order   *)
(* is kept, where the compiler sorts by it: the keys of a dict literal.    *)
(***************************************************************************)
EXTENDS SymbolTable, Code, Object, SequencesExt

CONSTANTS
    Trees,      \* the programs to compile: ast.Program nodes
    Nodes,      \* the nodes of these programs and of the files: what Compile may be called with
    Builtins,   \* names of builtin functions, in the order of builtins.Builtins
    BaseDir,    \* the directory of the program
    FullPath,   \* FullPath[dir][path]: filepath.Clean(filepath.Join(dir, path))
    DirOf,      \* DirOf[path]: filepath.Dir(path)
    Files       \* Files[path]: the tree of a file, Unreadable or Unparsable

Unreadable == [kind |-> "unreadable"]
Unparsable == [kind |-> "unparsable"]

\* The Name of a function literal that is not the value of a var statement.
Anonymous == ""

-----------------------------------------------------------------------------
(* The fields of the ast types.  The parser reports an error for a program *)
(* with a nil in it, and the compiler does not get to see it.              *)

NodesOfKind(kinds) == {node \in Nodes : node.kind \in kinds}

ProgramNodes == NodesOfKind({"Program"})

BlockNodes == NodesOfKind({"BlockStatement"})

StatementNodes ==
    NodesOfKind({"ExpressionStatement", "VarStatement", "AssignStatement", "ReturnStatement",
                 "WhileStatement", "ImportStatement"})

ExpressionKinds ==
    {"Identifier", "IntegerLiteral", "FloatLiteral", "StringLiteral", "Boolean", "ArrayLiteral",
     "DictLiteral", "IndexExpression", "PrefixExpression", "InfixExpression", "AttributeAccess",
     "CallExpression", "IfExpression", "FunctionLiteral"}

ExpressionNodes == NodesOfKind(ExpressionKinds)

\* What the fields of a node hold.
FieldsFit(node) ==
    CASE node.kind \in {"Program", "BlockStatement"} -> node.statements \in Seq(StatementNodes)
      [] node.kind = "ExpressionStatement" -> node.expression \in ExpressionNodes
      [] node.kind \in {"VarStatement", "AssignStatement"} ->
            node.name \in Names /\ node.value \in ExpressionNodes
      [] node.kind = "ReturnStatement" -> node.value \in ExpressionNodes
      [] node.kind = "WhileStatement" ->
            node.condition \in ExpressionNodes /\ node.body \in BlockNodes
      [] node.kind = "Identifier" -> node.name \in Names
      [] node.kind = "IntegerLiteral" -> node.literal.type = "INTEGER"
      [] node.kind = "FloatLiteral" -> node.literal.type = "FLOAT"
      [] node.kind = "StringLiteral" -> node.literal.type = "STRING"
      [] node.kind = "ArrayLiteral" -> node.elements \in Seq(ExpressionNodes)
      [] node.kind = "DictLiteral" ->
            node.pairs \in Seq([key : ExpressionNodes, value : ExpressionNodes, rank : Nat])
      [] node.kind = "IndexExpression" ->
            node.left \in ExpressionNodes /\ node.index \in ExpressionNodes
      [] node.kind = "PrefixExpression" -> node.right \in ExpressionNodes
      [] node.kind = "InfixExpression" ->
            node.left \in ExpressionNodes /\ node.right \in ExpressionNodes
      [] node.kind = "AttributeAccess" -> node.object \in ExpressionNodes
      [] node.kind = "CallExpression" ->
            node.function \in ExpressionNodes /\ node.arguments \in Seq(ExpressionNodes)
      [] node.kind = "IfExpression" ->
            /\ node.condition \in ExpressionNodes /\ node.consequence \in BlockNodes
            /\ node.alternative \in Seq(BlockNodes)
      [] node.kind = "FunctionLiteral" ->
            /\ node.name \in Names \cup {Anonymous} /\ node.parameters \in Seq(Names)
            /\ node.body \in BlockNodes
      [] OTHER -> TRUE

ASSUME TreesAssumption ==
    /\ Trees \subseteq ProgramNodes
    /\ \A node \in Nodes : FieldsFit(node)
    /\ Builtins \in Seq(Names)

\* Where an import can be met.
Directories == {BaseDir} \cup {DirOf[file] : file \in DOMAIN Files}

\* Every path is one of a file, though maybe one that cannot be read.
ASSUME FilesAssumption ==
    /\ \A file \in DOMAIN Files : Files[file] \in ProgramNodes \cup {Unreadable, Unparsable}
    /\ \A dir \in Directories, node \in NodesOfKind({"ImportStatement"}) :
          FullPath[dir][node.path] \in DOMAIN Files

-----------------------------------------------------------------------------
VARIABLES
    control,        \* the tasks left, next first
    tables,         \* c.symbolTable and its Outer chain
    scopes,         \* c.scopes: [instructions, last, previous] per open function
    constants,      \* c.constants
    importedFiles,  \* the keys of c.importedFiles
    currentDir,     \* c.currentDir
    error           \* "" or the error Compile returned

vars == <<control, tables, scopes, constants, importedFiles, currentDir, error>>

-----------------------------------------------------------------------------
(* Code buffers: a CompilationScope is the code of one function so far and *)
(* the last two instructions emitted into it.                              *)

EmptyScope == [instructions |-> <<>>,
               last         |-> [op |-> "OpConstant", pos |-> 0],
               previous     |-> [op |-> "OpConstant", pos |-> 0]]

\* emit(op, operands): addInstruction, then setLastInstruction.
EmitIn(scope, op, operands) ==
    [instructions |-> scope.instructions \o Make(op, operands),
     last         |-> [op |-> op, pos |-> Len(scope.instructions)],
     previous     |-> scope.last]

lastInstructionIs(scope, op) == scope.instructions # <<>> /\ scope.last.op = op

\* Faulty variant: the last instruction is forgotten, not replaced by the one before.
removeLastPopOnly(scope) ==
    [scope EXCEPT !.instructions = SubSeq(@, 1, scope.last.pos)]

removeLastPop(scope) ==
    [scope EXCEPT !.instructions = SubSeq(@, 1, scope.last.pos),
                  !.last = scope.previous]

\* Faulty variant: the value of a branch is popped.
KeepValuePop(scope) == scope

DropValuePop(scope) == IF lastInstructionIs(scope, "OpPop") THEN removeLastPop(scope) ELSE scope

replaceInstruction(instructions, pos, new) ==
    [i \in DOMAIN instructions |->
        IF i \in (pos + 1)..(pos + Len(new)) THEN new[i - pos] ELSE instructions[i]]

changeOperand(scope, pos, operand) ==
    [scope EXCEPT !.instructions =
        replaceInstruction(@, pos, Make(At(@, pos).op, <<operand>>))]

replaceLastPopWithReturn(scope) ==
    [scope EXCEPT !.instructions = replaceInstruction(@, scope.last.pos, Make("OpReturnValue", <<>>)),
                  !.last.op = "OpReturnValue"]

\* The end of a function body: its last expression is the value it returns.
Returning(scope) ==
    LET s == IF lastInstructionIs(scope, "OpPop") THEN replaceLastPopWithReturn(scope) ELSE scope
    IN  IF lastInstructionIs(s, "OpReturnValue") THEN s ELSE EmitIn(s, "OpReturn", <<>>)

-----------------------------------------------------------------------------
(* Tasks.                                                                  *)

Compile(node)      == [do |-> "Compile", node |-> node]
Emit(op, operands) == [do |-> "Emit", op |-> op, operands |-> operands]
Fail(cause)        == [do |-> "Fail", cause |-> cause]
Constant(object)   == [do |-> "Constant", object |-> object, op |-> "OpConstant", operands |-> <<>>]
MakeClosure(fn, n) == [do |-> "Constant", object |-> fn, op |-> "OpClosure", operands |-> <<n>>]

CompileAll(nodes) == [i \in DOMAIN nodes |-> Compile(nodes[i])]

InfixOpcode ==
    [o \in {"+", "-", "*", "/", "%", ">", "<", ">=", "<=", "==", "!=", "and", "or"} |->
        CASE o = "+"  -> "OpAdd"         [] o = "-"   -> "OpSub"
          [] o = "*"  -> "OpMul"         [] o = "/"   -> "OpDiv"
          [] o = "%"  -> "OpMod"         [] o = ">"   -> "OpGreaterThan"
          [] o = "<"  -> "OpLessThan"    [] o = ">="  -> "OpGreaterThanOrEqual"
          [] o = "==" -> "OpEqual"       [] o = "<="  -> "OpLessThanOrEqual"
          [] o = "!=" -> "OpNotEqual"    [] o = "and" -> "OpAnd"
          [] o = "or" -> "OpOr"]

PrefixOpcode == [o \in {"!", "-"} |-> IF o = "!" THEN "OpBang" ELSE "OpMinus"]

Operator(opcodes, operator) ==
    IF operator \in DOMAIN opcodes THEN Emit(opcodes[operator], <<>>)
    ELSE Fail("unknown operator")

loadSymbol(s) ==
    CASE s.scope = "GLOBAL"   -> Emit("OpGetGlobal", <<s.index>>)
      [] s.scope = "LOCAL"    -> Emit("OpGetLocal", <<s.index>>)
      [] s.scope = "BUILTIN"  -> Emit("OpGetBuiltin", <<s.index>>)
      [] s.scope = "FREE"     -> Emit("OpGetFree", <<s.index>>)
      [] s.scope = "FUNCTION" -> Emit("OpCurrentClosure", <<>>)

storeSymbol(s) == Emit(IF s.scope = "GLOBAL" THEN "OpSetGlobal" ELSE "OpSetLocal", <<s.index>>)

Scope == scopes[Len(scopes)]

\* The next task is the given one, and no error has stopped the compiler.
NextTask(do) == error = "" /\ control # <<>> /\ Head(control).do = do

NextNode(kind) == NextTask("Compile") /\ Head(control).node.kind = kind

Task == Head(control)

Node == Task.node

\* The next task is replaced by the given ones.
Do(tasks) == control' = tasks \o Tail(control)

\* A node whose children come first: nothing but the plan of work changes.
Unfold(tasks) ==
    Do(tasks) /\ UNCHANGED <<tables, scopes, constants, importedFiles, currentDir, error>>

\* The open function's code changes, and the plan of work.
Write(scope, tasks) ==
    /\ scopes' = [scopes EXCEPT ![Len(scopes)] = scope]
    /\ Do(tasks)
    /\ UNCHANGED <<tables, constants, importedFiles, currentDir, error>>

Stop(cause) ==
    /\ error' = cause
    /\ UNCHANGED <<control, scopes, constants, importedFiles, currentDir>>

-----------------------------------------------------------------------------
(* New, NewWithState and NewWithStateAndDir followed by Compile(tree).     *)

Start(tree, chain, pool, dir) ==
    /\ control = <<Compile(tree)>>
    /\ tables = chain
    /\ scopes = <<EmptyScope>>
    /\ constants = pool
    /\ importedFiles = {}
    /\ currentDir = dir
    /\ error = ""

Init == \E tree \in Trees :
            Start(tree, DefineBuiltins(NewSymbolTable, Builtins), <<>>, BaseDir)

-----------------------------------------------------------------------------
(* Emitting.                                                               *)

EmitInstruction ==
    /\ NextTask("Emit")
    /\ Write(EmitIn(Scope, Task.op, Task.operands), <<>>)

\* addConstant, and the instruction that loads the constant.
EmitConstant ==
    /\ NextTask("Constant")
    /\ constants' = Append(constants, Task.object)
    /\ scopes' = [scopes EXCEPT ![Len(scopes)] =
                    EmitIn(@, Task.op, <<Len(constants)>> \o Task.operands)]
    /\ Do(<<>>)
    /\ UNCHANGED <<tables, importedFiles, currentDir, error>>

UnknownOperator ==
    /\ NextTask("Fail")
    /\ Stop(Task.cause)
    /\ UNCHANGED tables

-----------------------------------------------------------------------------
(* Expressions and statements without a jump.                              *)

CompileStatements ==
    /\ NextNode("Program") \/ NextNode("BlockStatement")
    /\ Unfold(CompileAll(Node.statements))

CompileExpressionStatement ==
    /\ NextNode("ExpressionStatement")
    /\ Unfold(<<Compile(Node.expression), Emit("OpPop", <<>>)>>)

CompileInfix ==
    /\ NextNode("InfixExpression")
    /\ Unfold(<<Compile(Node.left), Compile(Node.right), Operator(InfixOpcode, Node.operator)>>)

CompilePrefix ==
    /\ NextNode("PrefixExpression")
    /\ Unfold(<<Compile(Node.right), Operator(PrefixOpcode, Node.operator)>>)

CompileLiteral ==
    /\ NextNode("IntegerLiteral") \/ NextNode("FloatLiteral") \/ NextNode("StringLiteral")
    /\ Unfold(<<Constant(Node.literal)>>)

CompileBoolean ==
    /\ NextNode("Boolean")
    /\ Unfold(<<Emit(IF Node.boolean THEN "OpTrue" ELSE "OpFalse", <<>>)>>)

CompileArray ==
    /\ NextNode("ArrayLiteral")
    /\ Unfold(Append(CompileAll(Node.elements), Emit("OpArray", <<Len(Node.elements)>>)))

\* Each key and then its value.
CompilePairs(pairs) ==
    [i \in 1..(2 * Len(pairs)) |->
        LET pair == pairs[(i + 1) \div 2]
        IN  Compile(IF i % 2 = 1 THEN pair.key ELSE pair.value)]

\* The keys in the order of their text; keys of the same text in any order.
CompileDict ==
    /\ NextNode("DictLiteral")
    /\ \E order \in SetToSeqs(DOMAIN Node.pairs) :
        /\ \A i, j \in DOMAIN order : i < j => Node.pairs[order[i]].rank <= Node.pairs[order[j]].rank
        /\ Unfold(Append(CompilePairs([i \in DOMAIN order |-> Node.pairs[order[i]]]),
                         Emit("OpDict", <<2 * Len(Node.pairs)>>)))

CompileIndex ==
    /\ NextNode("IndexExpression")
    /\ Unfold(<<Compile(Node.left), Compile(Node.index), Emit("OpIndex", <<>>)>>)

CompileReturn ==
    /\ NextNode("ReturnStatement")
    /\ Unfold(<<Compile(Node.value), Emit("OpReturnValue", <<>>)>>)

CompileCall ==
    /\ NextNode("CallExpression")
    /\ Unfold(<<Compile(Node.function)>> \o CompileAll(Node.arguments)
                \o <<Emit("OpCall", <<Len(Node.arguments)>>)>>)

CompileAttribute ==
    /\ NextNode("AttributeAccess")
    /\ Unfold(<<Compile(Node.object), Constant(String(Node.property)), Emit("OpGetAttr", <<>>)>>)

-----------------------------------------------------------------------------
(* Names.                                                                  *)

\* The name is defined before its value is compiled.
CompileVar ==
    /\ NextNode("VarStatement")
    /\ tables' = Define(tables, Node.name)
    /\ Do(<<Compile(Node.value), storeSymbol(Last(tables').store[Node.name])>>)
    /\ UNCHANGED <<scopes, constants, importedFiles, currentDir, error>>

CompileIdentifier ==
    /\ NextNode("Identifier")
    /\ IF Resolvable(tables, Node.name)
       THEN /\ tables' = Resolve(tables, Node.name)
            /\ Do(<<loadSymbol(Resolved(tables, Node.name))>>)
            /\ UNCHANGED <<scopes, constants, importedFiles, currentDir, error>>
       ELSE /\ Stop("undefined variable")
            /\ UNCHANGED tables

CompileAssign ==
    /\ NextNode("AssignStatement")
    /\ Unfold(<<Compile(Node.value), [do |-> "AssignTarget", name |-> Node.name]>>)

\* The name is resolved after the value; resolving it may capture it, and only
\* then is a captured variable turned down.
AssignTarget ==
    /\ NextTask("AssignTarget")
    /\ IF Resolvable(tables, Task.name)
       THEN LET symbol == Resolved(tables, Task.name)
            IN  /\ tables' = Resolve(tables, Task.name)
                /\ IF symbol.scope \in {"GLOBAL", "LOCAL"}
                   THEN /\ Do(<<storeSymbol(symbol)>>)
                        /\ UNCHANGED <<scopes, constants, importedFiles, currentDir, error>>
                   ELSE Stop("unsupported assignment target scope")
       ELSE /\ Stop("undefined variable")
            /\ UNCHANGED tables

-----------------------------------------------------------------------------
(* Jumps.  The operand of a forward jump is patched when its target is     *)
(* known; until then it is the placeholder of the source.                  *)

Placeholder == 9999

CompileIf ==
    /\ NextNode("IfExpression")
    /\ Unfold(<<Compile(Node.condition), [do |-> "IfThen", node |-> Node]>>)

IfThen ==
    /\ NextTask("IfThen")
    /\ Write(EmitIn(Scope, "OpJumpNotTruthy", <<Placeholder>>),
             <<Compile(Node.consequence),
               [do |-> "IfElse", node |-> Node, test |-> Len(Scope.instructions)]>>)

\* Faulty variant: the place of the jump is taken after it was emitted.
IfElseMisplaced ==
    /\ NextTask("IfElse")
    /\ LET value == DropValuePop(Scope)
           over  == EmitIn(value, "OpJump", <<Placeholder>>)
       IN  Write(changeOperand(over, Task.test, Len(over.instructions)),
                 <<IF Node.alternative = <<>> THEN Emit("OpNull", <<>>)
                                              ELSE Compile(Node.alternative[1]),
                   [do |-> "IfEnd", over |-> Len(over.instructions)]>>)

\* The consequence keeps its last value; the test jumps behind the jump over the alternative.
IfElse ==
    /\ NextTask("IfElse")
    /\ LET value == DropValuePop(Scope)
           over  == EmitIn(value, "OpJump", <<Placeholder>>)
       IN  Write(changeOperand(over, Task.test, Len(over.instructions)),
                 <<IF Node.alternative = <<>> THEN Emit("OpNull", <<>>)
                                              ELSE Compile(Node.alternative[1]),
                   [do |-> "IfEnd", over |-> Len(value.instructions)]>>)

IfEnd ==
    /\ NextTask("IfEnd")
    /\ LET value == DropValuePop(Scope)
       IN  Write(changeOperand(value, Task.over, Len(value.instructions)), <<>>)

CompileWhile ==
    /\ NextNode("WhileStatement")
    /\ Unfold(<<Compile(Node.condition),
                [do |-> "WhileBody", node |-> Node, start |-> Len(Scope.instructions)]>>)

WhileBody ==
    /\ NextTask("WhileBody")
    /\ Write(EmitIn(Scope, "OpJumpNotTruthy", <<Placeholder>>),
             <<Compile(Node.body),
               [do |-> "WhileEnd", start |-> Task.start, test |-> Len(Scope.instructions)]>>)

WhileEnd ==
    /\ NextTask("WhileEnd")
    /\ LET back == EmitIn(Scope, "OpJump", <<Task.start>>)
       IN  Write(changeOperand(back, Task.test, Len(back.instructions)), <<>>)

-----------------------------------------------------------------------------
(* Functions.                                                              *)

Named(chain, self) == IF self = Anonymous THEN chain ELSE DefineFunctionName(chain, self)

\* enterScope, the function's own name, its parameters.
CompileFunction ==
    /\ NextNode("FunctionLiteral")
    /\ scopes' = Append(scopes, EmptyScope)
    /\ tables' = DefineEach(Named(NewEnclosedSymbolTable(tables), Node.name), Node.parameters)
    /\ Do(<<Compile(Node.body), [do |-> "FunctionEnd", node |-> Node]>>)
    /\ UNCHANGED <<constants, importedFiles, currentDir, error>>

\* Faulty variant: the table of the function stays.
leaveScopeOnly == scopes' = Front(scopes) /\ tables' = tables

leaveScope == scopes' = Front(scopes) /\ tables' = Front(tables)

\* The function around it loads the captured values and makes the closure.
FunctionEnd ==
    /\ NextTask("FunctionEnd")
    /\ LET free == Last(tables).FreeSymbols
           fn   == CompiledFunction(Returning(Scope).instructions,
                                    Last(tables).numDefinitions,
                                    Len(Node.parameters))
       IN  Do([i \in DOMAIN free |-> loadSymbol(free[i])] \o <<MakeClosure(fn, Len(free))>>)
    /\ leaveScope
    /\ UNCHANGED <<constants, importedFiles, currentDir, error>>

-----------------------------------------------------------------------------
(* Imports: the tree of the file is compiled in place, with paths relative *)
(* to its own directory.                                                   *)

\* Faulty variant: a file is not remembered while it is compiled.
MarkNone(file) == importedFiles

Mark(file) == importedFiles \cup {file}

CompileImport ==
    /\ NextNode("ImportStatement")
    /\ LET file == FullPath[currentDir][Node.path]
       IN  IF file \in importedFiles
           THEN Unfold(<<>>)
           ELSE /\ importedFiles' = Mark(file)
                /\ IF Files[file] \in {Unreadable, Unparsable}
                   THEN error' = Files[file].kind /\ UNCHANGED <<control, currentDir>>
                   ELSE /\ currentDir' = DirOf[file]
                        /\ Do(<<Compile(Files[file]),
                                [do |-> "ImportEnd", dir |-> currentDir, file |-> file]>>)
                        /\ UNCHANGED error
                /\ UNCHANGED <<tables, scopes, constants>>

\* Faulty variant: the directory of the imported file stays.
ImportEndStaying ==
    /\ NextTask("ImportEnd")
    /\ Do(<<>>)
    /\ UNCHANGED <<tables, scopes, constants, importedFiles, currentDir, error>>

ImportEnd ==
    /\ NextTask("ImportEnd")
    /\ currentDir' = Task.dir
    /\ Do(<<>>)
    /\ UNCHANGED <<tables, scopes, constants, importedFiles, error>>

-----------------------------------------------------------------------------
Next == \/ EmitInstruction \/ EmitConstant \/ UnknownOperator
        \/ CompileStatements \/ CompileExpressionStatement
        \/ CompileInfix \/ CompilePrefix \/ CompileLiteral \/ CompileBoolean
        \/ CompileArray \/ CompileDict \/ CompileIndex
        \/ CompileReturn \/ CompileCall \/ CompileAttribute
        \/ CompileVar \/ CompileIdentifier \/ CompileAssign \/ AssignTarget
        \/ CompileIf \/ IfThen \/ IfElse \/ IfEnd
        \/ CompileWhile \/ WhileBody \/ WhileEnd
        \/ CompileFunction \/ FunctionEnd
        \/ CompileImport \/ ImportEnd

Spec == Init /\ [][Next]_vars

\* Compile has returned without an error.
Compiled == control = <<>> /\ error = ""

\* Bytecode(): the main function, and the constants.
Bytecode == [instructions |-> Scope.instructions, constants |-> constants]

-----------------------------------------------------------------------------
(* Properties                                                              *)

\* The function a task belongs to: the tasks that end functions are still behind it.
DepthOf(i) == 1 + Cardinality({j \in i + 1..Len(control) : control[j].do = "FunctionEnd"})

\* The imports being compiled, by the tasks that end them: the first is the innermost.
OpenImports == {i \in DOMAIN control : control[i].do = "ImportEnd"}

EmittedInstruction == [op : Opcodes, pos : Nat]

(* The type invariant: one code buffer per table, all of cells, and the    *)
(* functions being compiled are those the tasks will still end.            *)
TypeOK ==
    /\ tables \in Seq(TableType)
    /\ scopes \in Seq([instructions : Seq(Cells),
                       last : EmittedInstruction, previous : EmittedInstruction])
    /\ Len(scopes) = Len(tables)
    /\ DepthOf(0) = Len(scopes)
    /\ importedFiles \subseteq DOMAIN Files

(* What the compiler remembers as the last instruction of a function is    *)
(* the last one of its code, however often a value's OpPop was taken back  *)
(* or turned into a return: by it the compiler decides whether a block     *)
(* ends in a value.                                                        *)
LastInstructionAccurate ==
    \A s \in ToSet(scopes) :
        s.instructions # <<>> =>
            /\ IsHead(s.instructions, s.last.pos)
            /\ At(s.instructions, s.last.pos).op = s.last.op
            /\ NextOffset(s.instructions, s.last.pos) = Len(s.instructions)

(* A jump whose target is not known yet is still there, in the code of its *)
(* own function, when the branch or the body behind it is compiled:        *)
(* changeOperand patches that jump and nothing else.                       *)
PendingJumpsIntact ==
    \A i \in DOMAIN control :
        LET task == control[i]
            code == scopes[DepthOf(i)].instructions
        IN  /\ task.do \in {"IfElse", "WhileEnd"} =>
                  IsHead(code, task.test) /\ At(code, task.test).op = "OpJumpNotTruthy"
            /\ task.do = "IfEnd" =>
                  IsHead(code, task.over) /\ At(code, task.over).op = "OpJump"
            /\ task.do \in {"WhileBody", "WhileEnd"} => task.start <= Len(code)

(* Paths are relative to the file whose text is being compiled, at every   *)
(* depth of imports.                                                       *)
ImportsRelative ==
    currentDir = IF OpenImports = {} THEN BaseDir ELSE DirOf[control[Min(OpenImports)].file]

(* However files import one another, none is compiled inside itself, so    *)
(* that a cycle of imports comes to an end.                                *)
NoImportInsideItself ==
    \A i, j \in OpenImports : control[i].file = control[j].file => i = j
=============================================================================
