--------------------------- MODULE SessionProofs ---------------------------
(***************************************************************************)
(* What stays true from line to line: the session's types, its constants,  *)
(* and that what is stored belongs to a declaration.                       *)
(*                                                                         *)
(* The lines may compile to code that does not verify.  What the session   *)
(* needs of its parts are their invariants, CompilerProofs' Inv and        *)
(* Declared and VMProofs' Guarded, which these keep step by step.          *)
(***************************************************************************)
EXTENDS Session, SequenceTheorems, TLAPS

CP == INSTANCE CompilerProofs WITH Trees <- Lines

MP == INSTANCE VMProofs WITH Programs <- {}

-----------------------------------------------------------------------------
(* Session runs Compiler and VM under the names C and M, and what is       *)
(* proved about the two comes under CP and MP.  C!x and CP!x are one       *)
(* definition, but not to a prover: it has to see both.                    *)

LEMMA SameCode ==
    /\ \A scope, op, operands : C!EmitIn(scope, op, operands) = CP!EmitIn(scope, op, operands)
    /\ \A scope : C!DropValuePop(scope) = CP!DropValuePop(scope)
    /\ \A scope, pos, operand : C!changeOperand(scope, pos, operand) = CP!changeOperand(scope, pos, operand)
    /\ \A scope : C!Returning(scope) = CP!Returning(scope)
    /\ C!EmptyScope = CP!EmptyScope
    /\ C!Placeholder = CP!Placeholder
<1>1. \A scope, op, operands : C!EmitIn(scope, op, operands) = CP!EmitIn(scope, op, operands)
  BY DEF C!OperandWidths, C!OperandBound, C!OperandBytes, C!InstructionLen, C!Operand, C!Make,
       C!EmitIn, CP!OperandWidths, CP!OperandBound, CP!OperandBytes, CP!InstructionLen,
       CP!Operand, CP!Make, CP!EmitIn
<1>2. \A scope : C!DropValuePop(scope) = CP!DropValuePop(scope)
  BY DEF C!lastInstructionIs, C!removeLastPop, C!DropValuePop, CP!lastInstructionIs,
       CP!removeLastPop, CP!DropValuePop
<1>3. \A scope, pos, operand : C!changeOperand(scope, pos, operand) = CP!changeOperand(scope, pos, operand)
  BY DEF C!OperandWidths, C!OperandBound, C!OperandBytes, C!InstructionLen, C!Operand, C!Make,
       C!At, C!replaceInstruction, C!changeOperand, CP!OperandWidths, CP!OperandBound,
       CP!OperandBytes, CP!InstructionLen, CP!Operand, CP!Make, CP!At, CP!replaceInstruction,
       CP!changeOperand
<1>4. \A scope : C!Returning(scope) = CP!Returning(scope)
  BY SMTT(30) DEF C!OperandWidths, C!OperandBound, C!OperandBytes, C!InstructionLen, C!Operand, C!Make,
       C!EmitIn, C!lastInstructionIs, C!replaceInstruction, C!replaceLastPopWithReturn,
       C!Returning, CP!OperandWidths, CP!OperandBound, CP!OperandBytes, CP!InstructionLen,
       CP!Operand, CP!Make, CP!EmitIn, CP!lastInstructionIs, CP!replaceInstruction,
       CP!replaceLastPopWithReturn, CP!Returning
<1>5. C!EmptyScope = CP!EmptyScope
  BY DEF C!EmptyScope, CP!EmptyScope
<1>6. C!Placeholder = CP!Placeholder
  BY DEF C!Placeholder, CP!Placeholder
<1>7. QED BY <1>1, <1>2, <1>3, <1>4, <1>5, <1>6

LEMMA SameTasks ==
    /\ \A node : C!Compile(node) = CP!Compile(node)
    /\ \A op, operands : C!Emit(op, operands) = CP!Emit(op, operands)
    /\ \A object : C!Constant(object) = CP!Constant(object)
    /\ \A s : C!String(s) = CP!String(s)
    /\ \A fn, n : C!MakeClosure(fn, n) = CP!MakeClosure(fn, n)
    /\ \A instructions, numLocals, numParameters : C!CompiledFunction(instructions, numLocals, numParameters) = CP!CompiledFunction(instructions, numLocals, numParameters)
    /\ \A nodes : C!CompileAll(nodes) = CP!CompileAll(nodes)
    /\ \A pairs : C!CompilePairs(pairs) = CP!CompilePairs(pairs)
    /\ \A s : C!loadSymbol(s) = CP!loadSymbol(s)
    /\ \A s : C!storeSymbol(s) = CP!storeSymbol(s)
    /\ C!InfixOpcode = CP!InfixOpcode
    /\ C!PrefixOpcode = CP!PrefixOpcode
    /\ \A opcodes, operator : C!Operator(opcodes, operator) = CP!Operator(opcodes, operator)
<1>1. \A node : C!Compile(node) = CP!Compile(node)
  BY DEF C!Compile, CP!Compile
<1>2. \A op, operands : C!Emit(op, operands) = CP!Emit(op, operands)
  BY DEF C!Emit, CP!Emit
<1>3. \A object : C!Constant(object) = CP!Constant(object)
  BY DEF C!Constant, CP!Constant
<1>4. \A s : C!String(s) = CP!String(s)
  BY DEF C!String, CP!String
<1>5. \A fn, n : C!MakeClosure(fn, n) = CP!MakeClosure(fn, n)
  BY DEF C!MakeClosure, CP!MakeClosure
<1>6. \A instructions, numLocals, numParameters : C!CompiledFunction(instructions, numLocals, numParameters) = CP!CompiledFunction(instructions, numLocals, numParameters)
  BY DEF C!CompiledFunction, CP!CompiledFunction
<1>7. \A nodes : C!CompileAll(nodes) = CP!CompileAll(nodes)
  BY DEF C!Compile, C!CompileAll, CP!Compile, CP!CompileAll
<1>8. \A pairs : C!CompilePairs(pairs) = CP!CompilePairs(pairs)
  BY DEF C!Compile, C!CompilePairs, CP!Compile, CP!CompilePairs
<1>9. \A s : C!loadSymbol(s) = CP!loadSymbol(s)
  BY DEF C!Emit, C!loadSymbol, CP!Emit, CP!loadSymbol
<1>10. \A s : C!storeSymbol(s) = CP!storeSymbol(s)
  BY DEF C!Emit, C!storeSymbol, CP!Emit, CP!storeSymbol
<1>11. C!InfixOpcode = CP!InfixOpcode
  BY DEF C!InfixOpcode, CP!InfixOpcode
<1>12. C!PrefixOpcode = CP!PrefixOpcode
  BY DEF C!PrefixOpcode, CP!PrefixOpcode
<1>13. \A opcodes, operator : C!Operator(opcodes, operator) = CP!Operator(opcodes, operator)
  BY DEF C!Emit, C!Fail, C!Operator, CP!Emit, CP!Fail, CP!Operator
<1>14. QED BY <1>1, <1>2, <1>3, <1>4, <1>5, <1>6, <1>7, <1>8, <1>9, <1>10, <1>11, <1>12, <1>13

LEMMA SameTables ==
    /\ \A chain, names : C!DefineEach(chain, names) = CP!DefineEach(chain, names)
    /\ \A chain, name : C!Define(chain, name) = CP!Define(chain, name)
    /\ \A chain, self : C!Named(chain, self) = CP!Named(chain, self)
    /\ \A chain : C!NewEnclosedSymbolTable(chain) = CP!NewEnclosedSymbolTable(chain)
    /\ \A chain, name : C!Resolvable(chain, name) <=> CP!Resolvable(chain, name)
    /\ \A chain, name : C!Resolve(chain, name) = CP!Resolve(chain, name)
    /\ \A chain, name : C!Resolved(chain, name) = CP!Resolved(chain, name)
    /\ \A s : C!Last(s) = CP!Last(s)
    /\ C!leaveScope <=> CP!leaveScope
<1>1. \A chain, names : C!DefineEach(chain, names) = CP!DefineEach(chain, names)
  BY DEF C!Symbol, C!Positions, C!LastPosition, C!AddSlots, C!DefineEach, CP!Symbol,
       CP!Positions, CP!LastPosition, CP!AddSlots, CP!DefineEach
<1>2. \A chain, name : C!Define(chain, name) = CP!Define(chain, name)
  BY DEF C!Symbol, C!Positions, C!LastPosition, C!AddSlots, C!DefineEach, C!Define, CP!Symbol,
       CP!Positions, CP!LastPosition, CP!AddSlots, CP!DefineEach, CP!Define
<1>3. \A chain, self : C!Named(chain, self) = CP!Named(chain, self)
  BY DEF C!Symbol, C!Put, C!DefineFunctionName, C!Anonymous, C!Named, CP!Symbol, CP!Put,
       CP!DefineFunctionName, CP!Anonymous, CP!Named
<1>4. \A chain : C!NewEnclosedSymbolTable(chain) = CP!NewEnclosedSymbolTable(chain)
  BY DEF C!Symbol, C!NoSymbol, C!EmptyTable, C!NewEnclosedSymbolTable, CP!Symbol, CP!NoSymbol,
       CP!EmptyTable, CP!NewEnclosedSymbolTable
<1>5. \A chain, name : C!Resolvable(chain, name) <=> CP!Resolvable(chain, name)
  BY DEF C!Symbol, C!NoSymbol, C!Holds, C!Holders, C!Resolvable, CP!Symbol, CP!NoSymbol,
       CP!Holds, CP!Holders, CP!Resolvable
<1>6. \A chain, name : C!Resolve(chain, name) = CP!Resolve(chain, name)
  BY DEF C!Symbol, C!NoSymbol, C!Holds, C!Put, C!DefineFree, C!Holders, C!Home, C!HomeSymbol,
       C!Captures, C!SymbolAt, C!Resolve, CP!Symbol, CP!NoSymbol, CP!Holds, CP!Put,
       CP!DefineFree, CP!Holders, CP!Home, CP!HomeSymbol, CP!Captures, CP!SymbolAt, CP!Resolve
<1>7. \A chain, name : C!Resolved(chain, name) = CP!Resolved(chain, name)
  BY DEF C!Symbol, C!NoSymbol, C!Holds, C!Holders, C!Home, C!HomeSymbol, C!Captures, C!SymbolAt,
       C!Resolved, CP!Symbol, CP!NoSymbol, CP!Holds, CP!Holders, CP!Home, CP!HomeSymbol,
       CP!Captures, CP!SymbolAt, CP!Resolved
<1>8. \A s : C!Last(s) = CP!Last(s)
  BY DEF C!Last, CP!Last
<1>9. C!leaveScope <=> CP!leaveScope
  BY DEF C!leaveScope, C!Front, CP!leaveScope, CP!Front
<1>10. QED BY <1>1, <1>2, <1>3, <1>4, <1>5, <1>6, <1>7, <1>8, <1>9

LEMMA SamePlan ==
    /\ \A do : C!NextTask(do) <=> CP!NextTask(do)
    /\ \A kind : C!NextNode(kind) <=> CP!NextNode(kind)
    /\ C!Task = CP!Task
    /\ C!Node = CP!Node
    /\ C!Scope = CP!Scope
    /\ \A tasks : C!Do(tasks) <=> CP!Do(tasks)
    /\ \A tasks : C!Unfold(tasks) <=> CP!Unfold(tasks)
    /\ \A scope, tasks : C!Write(scope, tasks) <=> CP!Write(scope, tasks)
    /\ \A cause : C!Stop(cause) <=> CP!Stop(cause)
<1>1. \A do : C!NextTask(do) <=> CP!NextTask(do)
  BY DEF C!NextTask, CP!NextTask
<1>2. \A kind : C!NextNode(kind) <=> CP!NextNode(kind)
  BY DEF C!NextTask, C!NextNode, CP!NextTask, CP!NextNode
<1>3. C!Task = CP!Task
  BY DEF C!Task, CP!Task
<1>4. C!Node = CP!Node
  BY DEF C!Task, C!Node, CP!Task, CP!Node
<1>5. C!Scope = CP!Scope
  BY DEF C!Scope, CP!Scope
<1>6. \A tasks : C!Do(tasks) <=> CP!Do(tasks)
  BY DEF C!Do, CP!Do
<1>7. \A tasks : C!Unfold(tasks) <=> CP!Unfold(tasks)
  BY DEF C!Do, C!Unfold, CP!Do, CP!Unfold
<1>8. \A scope, tasks : C!Write(scope, tasks) <=> CP!Write(scope, tasks)
  BY DEF C!Do, C!Write, CP!Do, CP!Write
<1>9. \A cause : C!Stop(cause) <=> CP!Stop(cause)
  BY DEF C!Stop, CP!Stop
<1>10. QED BY <1>1, <1>2, <1>3, <1>4, <1>5, <1>6, <1>7, <1>8, <1>9

LEMMA SameFiles ==
    /\ \A file : C!Mark(file) = CP!Mark(file)
    /\ C!Unreadable = CP!Unreadable
    /\ C!Unparsable = CP!Unparsable
    /\ \A S : C!SetToSeqs(S) = CP!SetToSeqs(S)
<1>1. \A file : C!Mark(file) = CP!Mark(file)
  BY DEF C!Mark, CP!Mark
<1>2. C!Unreadable = CP!Unreadable
  BY DEF C!Unreadable, CP!Unreadable
<1>3. C!Unparsable = CP!Unparsable
  BY DEF C!Unparsable, CP!Unparsable
<1>4. \A S : C!SetToSeqs(S) = CP!SetToSeqs(S)
  BY DEF C!SetToSeqs, C!Cardinality, C!IsInjective, CP!SetToSeqs, CP!Cardinality, CP!IsInjective
<1>5. QED BY <1>1, <1>2, <1>3, <1>4

\* A step of the session's compiler is a step of the compiler of CompilerProofs.
LEMMA CompilerSteps == C!Next <=> CP!Next
<1>1. C!EmitInstruction <=> CP!EmitInstruction
  BY SameCode, SamePlan DEF C!EmitInstruction, CP!EmitInstruction
<1>2. C!EmitConstant <=> CP!EmitConstant
  BY SameCode, SamePlan DEF C!EmitConstant, CP!EmitConstant
<1>3. C!UnknownOperator <=> CP!UnknownOperator
  BY SamePlan DEF C!UnknownOperator, CP!UnknownOperator
<1>4. C!CompileStatements <=> CP!CompileStatements
  BY SameTasks, SamePlan DEF C!CompileStatements, CP!CompileStatements
<1>5. C!CompileExpressionStatement <=> CP!CompileExpressionStatement
  BY SameTasks, SamePlan DEF C!CompileExpressionStatement, CP!CompileExpressionStatement
<1>6. C!CompileInfix <=> CP!CompileInfix
  BY SameTasks, SamePlan DEF C!CompileInfix, CP!CompileInfix
<1>7. C!CompilePrefix <=> CP!CompilePrefix
  BY SameTasks, SamePlan DEF C!CompilePrefix, CP!CompilePrefix
<1>8. C!CompileLiteral <=> CP!CompileLiteral
  BY SameTasks, SamePlan DEF C!CompileLiteral, CP!CompileLiteral
<1>9. C!CompileBoolean <=> CP!CompileBoolean
  BY SameTasks, SamePlan DEF C!CompileBoolean, CP!CompileBoolean
<1>10. C!CompileArray <=> CP!CompileArray
  BY SameTasks, SamePlan DEF C!CompileArray, CP!CompileArray
<1>11. C!CompileDict <=> CP!CompileDict
  BY SameTasks, SamePlan, SameFiles DEF C!CompileDict, CP!CompileDict
<1>12. C!CompileIndex <=> CP!CompileIndex
  BY SameTasks, SamePlan DEF C!CompileIndex, CP!CompileIndex
<1>13. C!CompileReturn <=> CP!CompileReturn
  BY SameTasks, SamePlan DEF C!CompileReturn, CP!CompileReturn
<1>14. C!CompileCall <=> CP!CompileCall
  BY SameTasks, SamePlan DEF C!CompileCall, CP!CompileCall
<1>15. C!CompileAttribute <=> CP!CompileAttribute
  BY SameTasks, SamePlan DEF C!CompileAttribute, CP!CompileAttribute
<1>16. C!CompileVar <=> CP!CompileVar
  BY SameTasks, SameTables, SamePlan DEF C!CompileVar, CP!CompileVar
<1>17. C!CompileIdentifier <=> CP!CompileIdentifier
  BY SameTasks, SameTables, SamePlan DEF C!CompileIdentifier, CP!CompileIdentifier
<1>18. C!CompileAssign <=> CP!CompileAssign
  BY SameTasks, SamePlan DEF C!CompileAssign, CP!CompileAssign
<1>19. C!AssignTarget <=> CP!AssignTarget
  BY SameTasks, SameTables, SamePlan DEF C!AssignTarget, CP!AssignTarget
<1>20. C!CompileIf <=> CP!CompileIf
  BY SameTasks, SamePlan DEF C!CompileIf, CP!CompileIf
<1>21. C!IfThen <=> CP!IfThen
  BY SameCode, SameTasks, SamePlan DEF C!IfThen, CP!IfThen
<1>22. C!IfElse <=> CP!IfElse
  BY SameCode, SameTasks, SamePlan DEF C!IfElse, CP!IfElse
<1>23. C!IfEnd <=> CP!IfEnd
  BY SameCode, SamePlan DEF C!IfEnd, CP!IfEnd
<1>24. C!CompileWhile <=> CP!CompileWhile
  BY SameTasks, SamePlan DEF C!CompileWhile, CP!CompileWhile
<1>25. C!WhileBody <=> CP!WhileBody
  BY SameCode, SameTasks, SamePlan DEF C!WhileBody, CP!WhileBody
<1>26. C!WhileEnd <=> CP!WhileEnd
  BY SameCode, SamePlan DEF C!WhileEnd, CP!WhileEnd
<1>27. C!CompileFunction <=> CP!CompileFunction
  BY SameCode, SameTasks, SameTables, SamePlan DEF C!CompileFunction, CP!CompileFunction
<1>28. C!FunctionEnd <=> CP!FunctionEnd
  BY SameCode, SameTasks, SameTables, SamePlan DEF C!FunctionEnd, CP!FunctionEnd
<1>29. C!CompileImport <=> CP!CompileImport
  BY SameTasks, SamePlan, SameFiles DEF C!CompileImport, CP!CompileImport
<1>30. C!ImportEnd <=> CP!ImportEnd
  BY SamePlan DEF C!ImportEnd, CP!ImportEnd
<1>31. QED BY <1>1, <1>2, <1>3, <1>4, <1>5, <1>6, <1>7, <1>8, <1>9, <1>10, <1>11, <1>12, <1>13,
     <1>14, <1>15, <1>16, <1>17, <1>18, <1>19, <1>20, <1>21, <1>22, <1>23, <1>24, <1>25, <1>26,
     <1>27, <1>28, <1>29, <1>30
   DEF C!Next, CP!Next
\* And the session's machine is that of VMProofs.
LEMMA MachineSteps == M!Next <=> MP!Next
  BY ZenonT(30) DEF M!ArithmeticOps, M!ComparisonOps, M!OperandWidths, M!OperandBound, M!OperandBytes,
       M!InstructionLen, M!Operand, M!Make, M!At, M!NextOffset, M!Integer, M!Float, M!String,
       M!Null, M!OtherNull, M!NativeBoolean, M!Array, M!Builtin, M!Closure, M!Nil, M!Dict,
       M!Dictable, M!SameKey, M!PairsOf, M!Parts, M!HandedBack, M!Unique, M!Identical, M!Pops,
       M!Returns, M!IsFunction, M!Smallest, M!Wrap, M!Magnitude, M!Quotient, M!Halts, M!Boolean,
       M!isTruthy, M!executeBinaryIntegerOperation, M!Numbers, M!executeBinaryOperation,
       M!executeIntegerComparison, M!executeComparison, M!executeBangOperator,
       M!executeMinusOperator, M!UnusableKey, M!executeIndexExpression, M!buildDict,
       M!getAttribute, M!NewFrame, M!currentFrame, M!Instructions, M!Running, M!Instruction,
       M!Following, M!OutOfStack, M!On, M!Value, M!Topmost, M!Halt, M!Goto, M!Push, M!Yield,
       M!LoadOps, M!Slot, M!OutOfRange, M!BeyondStack, M!Loaded, M!Load, M!Pop, M!SetGlobal,
       M!SetLocal, M!BinaryOperation, M!And, M!Or, M!Comparison, M!Bang, M!Minus, M!MakeArray,
       M!MakeDict, M!Index, M!GetAttr, M!MakeClosure, M!Branch, M!Jump, M!JumpNotTruthy, M!While,
       M!Callee, M!basePointer, M!callClosure, M!callBuiltin, M!callFails, M!Return, M!Panic,
       M!Finish, M!Next, MP!ArithmeticOps, MP!ComparisonOps, MP!OperandWidths, MP!OperandBound,
       MP!OperandBytes, MP!InstructionLen, MP!Operand, MP!Make, MP!At, MP!NextOffset, MP!Integer,
       MP!Float, MP!String, MP!Null, MP!OtherNull, MP!NativeBoolean, MP!Array, MP!Builtin,
       MP!Closure, MP!Nil, MP!Dict, MP!Dictable, MP!SameKey, MP!PairsOf, MP!Parts, MP!HandedBack,
       MP!Unique, MP!Identical, MP!Pops, MP!Returns, MP!IsFunction, MP!Smallest, MP!Wrap,
       MP!Magnitude, MP!Quotient, MP!Halts, MP!Boolean, MP!isTruthy,
       MP!executeBinaryIntegerOperation, MP!Numbers, MP!executeBinaryOperation,
       MP!executeIntegerComparison, MP!executeComparison, MP!executeBangOperator,
       MP!executeMinusOperator, MP!UnusableKey, MP!executeIndexExpression, MP!buildDict,
       MP!getAttribute, MP!NewFrame, MP!currentFrame, MP!Instructions, MP!Running,
       MP!Instruction, MP!Following, MP!OutOfStack, MP!On, MP!Value, MP!Topmost, MP!Halt,
       MP!Goto, MP!Push, MP!Yield, MP!LoadOps, MP!Slot, MP!OutOfRange, MP!BeyondStack, MP!Loaded,
       MP!Load, MP!Pop, MP!SetGlobal, MP!SetLocal, MP!BinaryOperation, MP!And, MP!Or,
       MP!Comparison, MP!Bang, MP!Minus, MP!MakeArray, MP!MakeDict, MP!Index, MP!GetAttr,
       MP!MakeClosure, MP!Branch, MP!Jump, MP!JumpNotTruthy, MP!While, MP!Callee, MP!basePointer,
       MP!callClosure, MP!callBuiltin, MP!callFails, MP!Return, MP!Panic, MP!Finish, MP!Next

\* Their assumptions are among the session's.
LEMMA CompilerAssumptions == CP!TreesAssumption /\ CP!FilesAssumption /\ CP!CodeAssumption
<1>1. CP!TreesAssumption
  BY LinesAssumption DEF C!TreesAssumption, C!Anonymous, C!NodesOfKind, C!ProgramNodes,
       C!BlockNodes, C!StatementNodes, C!ExpressionKinds, C!ExpressionNodes, C!FieldsFit,
       CP!TreesAssumption, CP!Anonymous, CP!NodesOfKind, CP!ProgramNodes, CP!BlockNodes,
       CP!StatementNodes, CP!ExpressionKinds, CP!ExpressionNodes, CP!FieldsFit
<1>2. CP!FilesAssumption
  BY LinesAssumption DEF C!FilesAssumption, C!Unreadable, C!Unparsable, C!NodesOfKind,
       C!ProgramNodes, C!Directories, CP!FilesAssumption, CP!Unreadable, CP!Unparsable,
       CP!NodesOfKind, CP!ProgramNodes, CP!Directories
<1>3. CP!CodeAssumption
  BY CodeAssumption DEF CodeAssumption, CP!CodeAssumption
<1>4. QED BY <1>1, <1>2, <1>3

LEMMA MachineAssumptions ==
    MP!VMAssumption /\ MP!ResultsAssumption /\ MP!ProgramsAssumption /\ MP!CodeAssumption
<1>1. MP!VMAssumption /\ MP!ResultsAssumption
  BY MachineAssumption DEF M!VMAssumption, M!ResultsAssumption, M!Parts, M!Smallest,
       M!ObjectTypes, M!IsObject, MP!VMAssumption, MP!ResultsAssumption, MP!Parts, MP!Smallest,
       MP!ObjectTypes, MP!IsObject
<1>2. MP!ProgramsAssumption
  BY DEF MP!ProgramsAssumption
<1>3. MP!CodeAssumption
  BY CodeAssumption DEF CodeAssumption, MP!CodeAssumption
<1>4. QED BY <1>1, <1>2, <1>3

-----------------------------------------------------------------------------
(* What stays from line to line.                                           *)

\* The functions that lines leave when n global slots are given to names.
Functions(n) == [type : {"COMPILED_FUNCTION_OBJ"}, instructions : Seq(CP!FitCells(n)),
                 numLocals : Nat, numParameters : Nat]

Constants(pool, n) == pool \in Seq(CP!Objects) /\ \A i \in 1..Len(pool) : CP!FitObject(pool[i], n)

\* Values in which the closures are of such functions.
Values(S, n) == MP!Closed(S, Functions(n) \X Nat) /\ BuiltinResults \subseteq S

Stored(n) == \E S : Values(S, n) /\ globals \in [0..(GlobalSize - 1) -> S]

\* How many global slots are given to names, by the lines before and by the one being compiled.
Slots == IF phase = "compile" THEN tables[1].numDefinitions ELSE symbolTable.numDefinitions

Inv ==
    /\ phase \in {"prompt", "compile", "run", "crashed"}
    /\ entered \in Seq(Lines)
    /\ symbolTable \in CP!TableType /\ Slots \in Nat
    /\ Constants(kept, Slots) /\ Stored(Slots) /\ StoredIsDeclared
    /\ phase # "compile" => CP!FitTable(symbolTable, Slots)
    /\ phase = "compile" =>
          CP!Inv /\ CP!SoundConstants /\ CP!Declared /\ IsPrefix(kept, constants)
    /\ phase = "run" => MP!Guarded(Functions(Slots)) /\ constants = kept

\* More slots, more functions.
LEMMA MoreSlots ==
    ASSUME NEW n \in Nat, NEW m \in Nat, n <= m
    PROVE  /\ Functions(n) \subseteq Functions(m)
           /\ \A object : CP!FitObject(object, n) => CP!FitObject(object, m)
<1>1. \A code \in Seq(CP!FitCells(n)) : code \in Seq(CP!FitCells(m))
  BY CP!MoreCells, CompilerAssumptions
<1>2. ASSUME NEW fn \in Functions(n) PROVE fn \in Functions(m)
  <2>1. fn.instructions \in Seq(CP!FitCells(m))
    BY <1>1, <1>2 DEF Functions
  <2>2. QED BY <1>2, <2>1 DEF Functions
<1>3. \A object : CP!FitObject(object, n) => CP!FitObject(object, m)
  BY <1>1 DEF CP!FitObject
<1>4. QED BY <1>2, <1>3

LEMMA MoreValues ==
    ASSUME NEW n \in Nat, NEW m \in Nat, n <= m, NEW S, Values(S, n)
    PROVE  Values(S, m)
<1>1. PICK F, G : F = Functions(n) \X Nat /\ G = Functions(m) \X Nat
  OBVIOUS
<1>2. F \subseteq G
  BY <1>1, MoreSlots
<1>3. MP!Closed(S, F) => MP!Closed(S, G)
  BY <1>2 DEF MP!Closed, MP!SoundValue, MP!SoundClosure
<1>4. QED BY <1>1, <1>3 DEF Values

\* Their instructions are encoded, so that the machine can run them.
LEMMA FunctionsEncoded ==
    ASSUME NEW n, NEW fn \in Functions(n)
    PROVE  MP!Encoded(fn)
<1>1. /\ fn.instructions \in Seq(CP!FitCells(n)) /\ fn.numLocals \in Nat
  BY DEF Functions
<1>2. CP!Cells = MP!Cells /\ CP!Opcodes = MP!Opcodes
      /\ \A op : CP!OperandWidths(op) = MP!OperandWidths(op)
  BY DEF CP!Cells, CP!Opcodes, CP!ArithmeticOps, CP!ComparisonOps, CP!Operand, CP!OperandWidths,
         MP!Cells, MP!Opcodes, MP!ArithmeticOps, MP!ComparisonOps, MP!Operand, MP!OperandWidths
<1>3. PICK code, R : code = fn.instructions /\ R = CP!FitCells(n)
  OBVIOUS
<1>4. /\ R \subseteq MP!Cells
      /\ \A cell \in R : cell.op \in MP!Opcodes =>
                            Len(cell.args) = Len(MP!OperandWidths(cell.op))
  BY <1>2, <1>3 DEF CP!FitCells
<1>5. code \in Seq(R) /\ code \in Seq(MP!Cells)
  BY <1>1, <1>3, <1>4, SeqMonotonic
<1>6. ASSUME NEW p \in 0..(Len(code) - 1), MP!IsHead(code, p)
      PROVE  Len(MP!At(code, p).args) = Len(MP!OperandWidths(MP!At(code, p).op))
  <2>1. code[p + 1] \in R
    BY <1>5
  <2>2. QED BY <1>4, <1>6, <2>1 DEF MP!At, MP!IsHead
<1>7. QED BY <1>1, <1>3, <1>5, <1>6 DEF MP!Encoded

\* A store of such a function is to a slot that is given to a name.
LEMMA FunctionsStore ==
    ASSUME NEW n, NEW fn \in Functions(n), NEW p \in Nat, MP!IsHead(fn.instructions, p),
           MP!At(fn.instructions, p).op = "OpSetGlobal"
    PROVE  MP!At(fn.instructions, p).args[1] \in Nat /\ MP!At(fn.instructions, p).args[1] < n
<1>1. PICK code, R : code = fn.instructions /\ R = CP!FitCells(n)
  OBVIOUS
<1>2. code \in Seq(R) /\ p + 1 \in 1..Len(code)
  BY <1>1 DEF Functions, MP!IsHead
<1>3. code[p + 1] \in R
  BY <1>2
<1>4. PICK cell : cell = MP!At(fn.instructions, p)
  OBVIOUS
<1>5. cell \in CP!FitCells(n) /\ cell.op = "OpSetGlobal"
  BY <1>1, <1>3, <1>4 DEF MP!At
<1>6. cell.args \in Seq(Nat) /\ Len(cell.args) = 1 /\ cell.args[1] < n
  BY <1>5 DEF CP!FitCells, CP!Cells, CP!Opcodes, CP!OperandWidths
<1>7. QED BY <1>4, <1>6

\* A constant is a number, a string or a function of a line.
LEMMA ConstantsSound ==
    ASSUME NEW n, NEW object \in CP!Objects, CP!FitObject(object, n)
    PROVE  /\ \A S, makes : MP!SoundValue(object, S, makes)
           /\ object.type = "COMPILED_FUNCTION_OBJ" => object \in Functions(n)
<1>1. /\ \A node \in CP!NodesOfKind({"IntegerLiteral", "FloatLiteral", "StringLiteral"}) :
            /\ MP!IsObject(node.literal) /\ node.literal.type \in {"INTEGER", "FLOAT", "STRING"}
  <2>1. \A node \in Nodes : CP!FieldsFit(node)
    BY CompilerAssumptions DEF CP!TreesAssumption
  <2>2. \A node \in CP!NodesOfKind({"IntegerLiteral"}) : MP!IsObject(node.literal)
    BY LinesAssumption
       DEF C!NodesOfKind, CP!NodesOfKind, M!IsObject, MP!IsObject, M!ObjectTypes, MP!ObjectTypes,
           M!Smallest, MP!Smallest, M!Parts, MP!Parts
  <2>3. ASSUME NEW node \in CP!NodesOfKind({"IntegerLiteral", "FloatLiteral", "StringLiteral"})
        PROVE  MP!IsObject(node.literal) /\ node.literal.type \in {"INTEGER", "FLOAT", "STRING"}
    <3>1. /\ node \in Nodes /\ node.kind \in {"IntegerLiteral", "FloatLiteral", "StringLiteral"}
      BY DEF CP!NodesOfKind
    <3>2. PICK v : v = node.literal
      OBVIOUS
    <3>3. CP!FieldsFit(node)
      BY <2>1, <3>1
    <3>4. /\ node.kind = "IntegerLiteral" => v.type = "INTEGER"
          /\ node.kind = "FloatLiteral" => v.type = "FLOAT"
          /\ node.kind = "StringLiteral" => v.type = "STRING"
      BY <3>1, <3>2, <3>3 DEF CP!FieldsFit
    <3>5. CASE node.kind = "IntegerLiteral"
      <4>1. node \in CP!NodesOfKind({"IntegerLiteral"})
        BY <3>1, <3>5 DEF CP!NodesOfKind
      <4>2. QED BY <2>2, <3>2, <3>4, <3>5, <4>1
    <3>6. CASE node.kind # "IntegerLiteral"
      <4>1. v.type \in {"FLOAT", "STRING"}
        BY <3>1, <3>4, <3>6
      <4>2. QED BY <3>2, <4>1 DEF MP!IsObject, MP!ObjectTypes
    <3>7. QED BY <3>5, <3>6
  <2>4. QED BY <2>3
<1>2. CASE MP!IsObject(object) /\ object.type \in {"INTEGER", "FLOAT", "STRING"}
  BY <1>2 DEF MP!SoundValue, MP!Parts
<1>3. CASE object \in {node.literal : node \in
                          CP!NodesOfKind({"IntegerLiteral", "FloatLiteral", "StringLiteral"})}
  BY <1>1, <1>2, <1>3
<1>4. ASSUME NEW s, object = CP!String(s) PROVE object.type = "STRING"
  BY <1>4 DEF CP!String
<1>5. CASE object \in {CP!String(node.property) : node \in CP!NodesOfKind({"AttributeAccess"})}
  <2>1. object.type = "STRING"
    BY <1>4, <1>5
  <2>2. MP!IsObject(object)
    BY <2>1 DEF MP!IsObject, MP!ObjectTypes
  <2>3. QED BY <1>2, <2>1, <2>2
<1>6. CASE object \in [type : {"COMPILED_FUNCTION_OBJ"}, instructions : Seq(CP!Cells),
                       numLocals : Nat, numParameters : Nat]
  <2>1. object.type = "COMPILED_FUNCTION_OBJ" /\ object.instructions \in Seq(CP!FitCells(n))
    BY <1>6 DEF CP!FitObject
  <2>2. object \in Functions(n)
    BY <1>6, <2>1 DEF Functions
  <2>3. \A S, makes : MP!SoundValue(object, S, makes)
    BY <2>1 DEF MP!SoundValue, MP!IsObject, MP!ObjectTypes, MP!Parts
  <2>4. QED BY <2>2, <2>3
<1>7. QED BY <1>3, <1>5, <1>6 DEF CP!Objects

\* The values of a machine that is about to run code with a pool.
LEMMA LoadedValues ==
    ASSUME NEW n, NEW S, Values(S, n), NEW pool, Constants(pool, n), NEW fn \in Functions(n)
    PROVE  \E T : /\ Values(T, n) /\ S \subseteq T /\ Nil \in T /\ pool \in Seq(T)
                  /\ Closure(fn, <<>>) \in T
<1>1. PICK cl : cl = Closure(fn, <<>>)
  OBVIOUS
<1>2. PICK X : X = {pool[i] : i \in 1..Len(pool)} \cup {Nil, cl}
  OBVIOUS
<1>3. PICK T, makes : T = S \cup X /\ makes = Functions(n) \X Nat
  OBVIOUS
<1>4. cl.type = "CLOSURE_OBJ" /\ cl.fn = fn /\ cl.free = <<>>
  BY <1>1 DEF Closure
<1>5. MP!SoundValue(cl, T, makes)
  <2>1. MP!IsObject(cl) /\ MP!Parts(cl) = {}
    BY <1>4 DEF MP!IsObject, MP!ObjectTypes, MP!Parts
  <2>2. <<>> \in Seq(T) /\ Len(<<>>) = 0
    OBVIOUS
  <2>3. MP!SoundClosure(cl, makes)
    BY <1>3, <1>4, <2>2 DEF MP!SoundClosure
  <2>4. QED BY <1>4, <2>1, <2>2, <2>3 DEF MP!SoundValue
<1>6. MP!SoundValue(Nil, T, makes)
  BY DEF Nil, MP!SoundValue, MP!IsObject, MP!ObjectTypes, MP!Parts
<1>7. \A i \in 1..Len(pool) : MP!SoundValue(pool[i], T, makes)
  <2>1. SUFFICES ASSUME NEW i \in 1..Len(pool) PROVE MP!SoundValue(pool[i], T, makes)
    OBVIOUS
  <2>2. pool[i] \in CP!Objects /\ CP!FitObject(pool[i], n)
    BY <2>1 DEF Constants
  <2>3. QED BY <2>2, ConstantsSound
<1>8. \A v \in S : MP!SoundValue(v, T, makes)
  <2>1. SUFFICES ASSUME NEW v \in S PROVE MP!SoundValue(v, T, makes)
    OBVIOUS
  <2>2. MP!SoundValue(v, S, makes)
    BY <1>3, <2>1 DEF Values, MP!Closed
  <2>3. v.free \in Seq(S) => v.free \in Seq(T)
    BY <1>3, SeqMonotonic
  <2>4. QED BY <1>3, <2>2, <2>3 DEF MP!SoundValue
<1>9. Values(T, n)
  BY <1>2, <1>3, <1>5, <1>6, <1>7, <1>8 DEF Values, MP!Closed
<1>10. pool \in Seq(T)
  <2>1. \A i \in 1..Len(pool) : pool[i] \in T
    BY <1>2, <1>3
  <2>2. PICK m \in Nat : m = Len(pool) /\ pool \in [1..m -> CP!Objects]
    <3>1. PICK O : O = CP!Objects
      OBVIOUS
    <3>2. pool \in Seq(O)
      BY <3>1 DEF Constants
    <3>3. QED BY ONLY <3>1, <3>2
  <2>3. pool \in [1..m -> T]
    BY <2>1, <2>2
  <2>4. QED BY <2>3
<1>11. QED BY <1>1, <1>2, <1>3, <1>9, <1>10

-----------------------------------------------------------------------------
(* The steps.                                                              *)

LEMMA SameStart ==
    /\ C!DefineBuiltins(C!NewSymbolTable, Builtins) = CP!DefineBuiltins(CP!NewSymbolTable, Builtins)
    /\ C!TableType = CP!TableType
<1>1. C!DefineBuiltins(C!NewSymbolTable, Builtins) = CP!DefineBuiltins(CP!NewSymbolTable, Builtins)
  BY DEF C!Symbol, C!NoSymbol, C!EmptyTable, C!NewSymbolTable, C!Positions, C!LastPosition,
         C!AddBuiltins, C!DefineBuiltins, CP!Symbol, CP!NoSymbol, CP!EmptyTable,
         CP!NewSymbolTable, CP!Positions, CP!LastPosition, CP!AddBuiltins, CP!DefineBuiltins
<1>2. C!TableType = CP!TableType
  BY DEF C!Scopes, C!Symbol, C!SymbolType, C!NoSymbol, C!TableType, CP!Scopes, CP!Symbol,
         CP!SymbolType, CP!NoSymbol, CP!TableType
<1>3. QED BY <1>1, <1>2

LEMMA SameTypes == (CP!TypeOK => C!TypeOK) /\ (MP!TypeOK => M!TypeOK)
<1>1. CP!TypeOK => C!TypeOK
  <2>1. C!TableType = CP!TableType
    BY SameStart
  <2>2. C!Cells = CP!Cells
    BY DEF C!ArithmeticOps, C!ComparisonOps, C!Opcodes, C!Operand, C!Cells, CP!ArithmeticOps,
           CP!ComparisonOps, CP!Opcodes, CP!Operand, CP!Cells
  <2>3. C!EmittedInstruction = CP!EmittedInstruction
    BY DEF C!ArithmeticOps, C!ComparisonOps, C!Opcodes, C!EmittedInstruction, CP!ArithmeticOps,
           CP!ComparisonOps, CP!Opcodes, CP!EmittedInstruction
  <2>4. C!DepthOf(0) = CP!DepthOf(0)
    BY DEF C!DepthOf, CP!DepthOf, C!Cardinality, CP!Cardinality
  <2>5. QED BY <2>1, <2>2, <2>3, <2>4 DEF C!TypeOK, CP!TypeOK
<1>2. MP!TypeOK => M!TypeOK
  BY DEF M!Parts, M!Smallest, M!ObjectTypes, M!IsObject, M!TypeOK, MP!Parts, MP!Smallest,
         MP!ObjectTypes, MP!IsObject, MP!TypeOK
<1>3. QED BY <1>1, <1>2

\* With no line entered there are only nil and what builtins make.
LEMMA FirstValues == ASSUME NEW n PROVE Values(BuiltinResults \cup {Nil}, n)
<1>1. PICK S, makes : S = BuiltinResults \cup {Nil} /\ makes = Functions(n) \X Nat
  OBVIOUS
<1>2. MP!SoundValue(Nil, S, makes)
  BY DEF Nil, MP!SoundValue, MP!IsObject, MP!ObjectTypes, MP!Parts
<1>3. \A v \in BuiltinResults : MP!SoundValue(v, S, makes)
  BY <1>1, MachineAssumptions DEF MP!ResultsAssumption, MP!SoundValue
<1>4. QED BY <1>1, <1>2, <1>3 DEF Values, MP!Closed

LEMMA FreshNil ==
    ASSUME NEW size, NEW S, Nil \in S
    PROVE  M!Fresh(size) \in [0..(size - 1) -> S] /\ \A i \in 0..(size - 1) : M!Fresh(size)[i] = Nil
<1>1. QED BY DEF M!Fresh, M!Nil, Nil

LEMMA InitInv == ASSUME Init PROVE Inv
<1>1. /\ phase = "prompt" /\ entered = <<>> /\ kept = <<>>
      /\ symbolTable = CP!DefineBuiltins(CP!NewSymbolTable, Builtins)[1]
      /\ globals = M!Fresh(GlobalSize)
  <2>1. /\ phase = "prompt" /\ entered = <<>> /\ kept = <<>>
        /\ symbolTable = C!DefineBuiltins(C!NewSymbolTable, Builtins)[1]
        /\ globals = M!Fresh(GlobalSize)
    BY Zenon DEF Init
  <2>2. QED BY <2>1, SameStart
<1>2. PICK new : new = CP!DefineBuiltins(CP!NewSymbolTable, Builtins)
  OBVIOUS
<1>3. new \in Seq(CP!TableType) /\ Len(new) = 1
  BY <1>2, CP!BuiltinsTyped, CompilerAssumptions
<1>4. symbolTable \in CP!TableType
  <2>1. 1 \in 1..Len(new)
    BY <1>3
  <2>2. new[1] \in CP!TableType
    BY <1>3, <2>1, ElementOfSeq
  <2>3. QED BY <1>1, <1>2, <2>2
<1>5. Slots \in Nat
  BY <1>1, <1>4 DEF Slots, CP!TableType
<1>6. CP!FitTable(symbolTable, Slots)
  BY <1>1, CP!BuiltinsFit, CompilerAssumptions
<1>7. PICK S : S = BuiltinResults \cup {Nil}
  OBVIOUS
<1>8. Stored(Slots)
  BY <1>1, <1>7, FirstValues, FreshNil DEF Stored
<1>9. StoredIsDeclared
  BY <1>1, <1>7, FreshNil DEF StoredIsDeclared
<1>10. Constants(kept, Slots)
  BY <1>1 DEF Constants
<1>11. QED BY <1>1, <1>4, <1>5, <1>6, <1>8, <1>9, <1>10 DEF Inv

\* Steps that leave the globals and their count alone.
LEMMA StoredStays ==
    ASSUME Inv, UNCHANGED globals, Slots' = Slots
    PROVE  Stored(Slots)' /\ StoredIsDeclared'
<1>1. StoredIsDeclared' <=> StoredIsDeclared
  BY DEF StoredIsDeclared, Slots
<1>2. Stored(Slots)'
  BY DEF Inv, Stored
<1>3. QED BY <1>1, <1>2 DEF Inv

\* The compiler of a line starts with the table and the pool that the lines before have left.
LEMMA ReadInv == ASSUME Inv, NEW line \in Lines, ReadLine(line) PROVE Inv'
<1>1. /\ phase = "prompt" /\ phase' = "compile" /\ entered' = Append(entered, line)
      /\ control' = <<C!Compile(line)>> /\ tables' = <<symbolTable>> /\ scopes' = <<C!EmptyScope>>
      /\ importedFiles' = {} /\ currentDir' = BaseDir /\ constants' = kept
      /\ symbolTable' = symbolTable /\ kept' = kept /\ globals' = globals
  BY Zenon DEF ReadLine, InitialPool
<1>2. control' = <<CP!Compile(line)>> /\ scopes' = <<CP!EmptyScope>>
  BY <1>1, SameTasks, SameCode
<1>3. PICK chain : chain = <<symbolTable>>
  OBVIOUS
<1>4. symbolTable \in CP!TableType /\ chain \in Seq(CP!TableType) /\ Len(chain) = 1
      /\ chain[1] = symbolTable
  BY <1>3 DEF Inv
<1>5. Slots' = Slots /\ Slots = symbolTable.numDefinitions
  BY <1>1 DEF Slots
<1>6. Constants(kept, Slots) /\ Slots \in Nat /\ CP!FitTable(symbolTable, Slots)
  BY <1>1 DEF Inv
<1>7. CP!Sound(control', scopes') /\ CP!SoundTables(tables', scopes')
      /\ CP!SoundImports(control', importedFiles', currentDir')
  <2>1. /\ CP!Sound(<<CP!Compile(line)>>, <<CP!EmptyScope>>)
        /\ CP!SoundTables(chain, <<CP!EmptyScope>>)
        /\ CP!SoundImports(<<CP!Compile(line)>>, {}, BaseDir)
    BY <1>4, CP!StartSound, CompilerAssumptions
  <2>2. QED BY <1>1, <1>2, <1>3, <2>1
<1>8. CP!Inv'
  BY <1>7 DEF CP!Inv
<1>9. CP!SoundConstants'
  BY <1>1, <1>6 DEF CP!SoundConstants, Constants
<1>10. CP!Declared'
  <2>1. CP!Fit(<<CP!Compile(line)>>, <<CP!EmptyScope>>, kept, <<symbolTable>>, Slots)
    BY <1>6, CP!StartDeclared, CompilerAssumptions DEF Constants
  <2>2. CP!Fit(control', scopes', constants', tables', tables'[1].numDefinitions)
    BY <1>1, <1>2, <1>3, <1>4, <1>5, <2>1
  <2>3. QED BY <2>2 DEF CP!Declared, CP!GlobalSlots
<1>11. IsPrefix(kept', constants')
  <2>1. Len(kept) \in Nat
    BY <1>6 DEF Constants
  <2>2. QED BY <1>1, <2>1 DEF IsPrefix
<1>12. Stored(Slots)' /\ StoredIsDeclared'
  BY <1>1, <1>5, StoredStays
<1>13. entered' \in Seq(Lines)
  BY <1>1 DEF Inv
<1>14. Constants(kept, Slots)'
  BY <1>1, <1>5, <1>6 DEF Constants
<1>15. symbolTable' \in CP!TableType /\ Slots' \in Nat
  BY <1>1, <1>4, <1>5, <1>6
<1>16. QED BY <1>1, <1>8, <1>9, <1>10, <1>11, <1>12, <1>13, <1>14, <1>15 DEF Inv

\* What a line has declared stays when it does not compile.
LEMMA FailedInv == ASSUME Inv, CompileFailed PROVE Inv'
<1>1. /\ phase = "compile" /\ phase' = "prompt" /\ symbolTable' = tables[1]
      /\ entered' = entered /\ kept' = kept /\ constants' = constants /\ globals' = globals
  BY Zenon DEF CompileFailed, GlobalTable
<1>2. Slots' = Slots /\ Slots = CP!GlobalSlots
  BY <1>1 DEF Slots, CP!GlobalSlots
<1>3. CP!Inv /\ CP!Declared
  BY <1>1 DEF Inv
<1>4. tables \in Seq(CP!TableType) /\ Len(tables) \in Nat \ {0}
  BY <1>3, CP!FirstTable, CompilerAssumptions
<1>5. 1 \in 1..Len(tables)
  BY <1>4
<1>6. tables[1] \in CP!TableType
  BY <1>4, <1>5, ElementOfSeq
<1>7. CP!FitTable(tables[1], Slots)
  BY <1>2, <1>3, <1>5 DEF CP!Declared, CP!Fit
<1>8. CP!FitTable(symbolTable', Slots')
  BY <1>1, <1>2, <1>7
<1>9. Stored(Slots)' /\ StoredIsDeclared'
  BY <1>1, <1>2, StoredStays
<1>10. Constants(kept, Slots)'
  BY <1>1, <1>2 DEF Inv, Constants
<1>11. QED BY <1>1, <1>2, <1>6, <1>8, <1>9, <1>10 DEF Inv

LEMMA EndedInv == ASSUME Inv, RunEnded PROVE Inv'
<1>1. /\ phase = "run" /\ phase' \in {"prompt", "crashed"} /\ symbolTable' = symbolTable
      /\ entered' = entered /\ kept' = kept /\ globals' = globals
  BY Zenon DEF RunEnded
<1>2. Slots' = Slots /\ Slots = symbolTable.numDefinitions /\ phase' # "run" /\ phase' # "compile"
  BY <1>1 DEF Slots
<1>3. CP!FitTable(symbolTable, Slots)
  BY <1>1 DEF Inv
<1>4. CP!FitTable(symbolTable', Slots')
  BY <1>1, <1>2, <1>3
<1>5. Stored(Slots)' /\ StoredIsDeclared'
  BY <1>1, <1>2, StoredStays
<1>6. Constants(kept, Slots)'
  BY <1>1, <1>2 DEF Inv, Constants
<1>7. QED BY <1>1, <1>2, <1>4, <1>5, <1>6 DEF Inv

LEMMA PrefixStays ==
    ASSUME NEW S, NEW T, NEW s \in Seq(S), NEW t \in Seq(T), IsPrefix(s, t), NEW v
    PROVE  IsPrefix(s, Append(t, v))
<1>1. PICK m, n : m = Len(s) /\ n = Len(t)
  OBVIOUS
<1>2. m \in Nat /\ n \in Nat /\ m <= n /\ SubSeq(s, 1, m) = SubSeq(t, 1, m)
  BY <1>1 DEF IsPrefix
<1>3. PICK U : U = T \cup {v}
  OBVIOUS
<1>4. t \in Seq(U) /\ v \in U
  BY <1>3, SeqMonotonic
<1>5. PICK u : u = Append(t, v)
  OBVIOUS
<1>6. u \in Seq(U) /\ Len(u) = n + 1 /\ \A i \in 1..n : u[i] = t[i]
  BY <1>1, <1>4, <1>5
<1>7. SubSeq(u, 1, m) = SubSeq(t, 1, m)
  BY <1>1, <1>2, <1>4, <1>6
<1>8. QED BY <1>1, <1>2, <1>5, <1>6, <1>7 DEF IsPrefix

\* The global table counts its slots.
LEMMA SlotsCounted ==
    ASSUME NEW c, NEW open, NEW chain, CP!Sound(c, open), CP!SoundTables(chain, open)
    PROVE  chain[1].numDefinitions \in Nat
<1>1. chain \in Seq(CP!TableType) /\ Len(chain) \in Nat \ {0}
  BY DEF CP!SoundTables, CP!Sound
<1>2. 1 \in 1..Len(chain)
  BY <1>1
<1>3. chain[1] \in CP!TableType
  BY <1>1, <1>2, ElementOfSeq
<1>4. QED BY <1>3 DEF CP!TableType

\* Compiling makes slots and constants, and takes none back.
LEMMA CompileInv == ASSUME Inv, CompileStep PROVE Inv' /\ IsPrefix(kept', constants')
<1>1. /\ phase = "compile" /\ phase' = phase /\ symbolTable' = symbolTable /\ C!Next
      /\ entered' = entered /\ kept' = kept /\ globals' = globals
  BY Zenon DEF CompileStep, session
<1>2. CP!Next
  BY <1>1, CompilerSteps
<1>3. CP!Inv /\ CP!SoundConstants /\ CP!Declared /\ IsPrefix(kept, constants)
  BY <1>1 DEF Inv
<1>4. CP!Inv' /\ CP!SoundConstants'
  BY <1>2, <1>3, CP!NextInv, CompilerAssumptions
<1>5. CP!Widens
  BY <1>2, <1>3, CP!NextDeclared, CompilerAssumptions
<1>6. /\ Slots = CP!GlobalSlots /\ Slots' = CP!GlobalSlots' /\ Slots' \in Nat /\ Slots \in Nat
      /\ Slots <= Slots'
  <2>1. Slots = CP!GlobalSlots /\ Slots' = CP!GlobalSlots'
    BY <1>1 DEF Slots, CP!GlobalSlots
  <2>2. CP!GlobalSlots \in Nat
    BY <1>3, CP!FirstTable, CompilerAssumptions
  <2>3. CP!GlobalSlots' \in Nat
    BY <1>4, SlotsCounted DEF CP!Inv, CP!GlobalSlots
  <2>4. QED BY <1>5, <2>1, <2>2, <2>3 DEF CP!Widens
<1>7. IsPrefix(kept', constants')
  <2>1. UNCHANGED constants \/ \E object \in CP!Objects : constants' = Append(constants, object)
    BY <1>2, <1>3, CP!ConstantsGrow, CompilerAssumptions
  <2>2. kept \in Seq(CP!Objects) /\ constants \in Seq(CP!Objects)
    BY <1>3 DEF Inv, Constants, CP!SoundConstants
  <2>3. QED BY <1>1, <1>3, <2>1, <2>2, PrefixStays
<1>8. PICK n, m : n = Slots /\ m = Slots'
  OBVIOUS
<1>9. Stored(n) => \E S : Values(S, m) /\ globals' \in [0..(GlobalSize - 1) -> S]
  BY <1>1, <1>6, <1>8, MoreValues DEF Stored
<1>10. Stored(Slots)'
  BY <1>8, <1>9 DEF Inv, Stored
<1>11. StoredIsDeclared'
  <2>1. SUFFICES ASSUME NEW i \in DOMAIN globals, globals[i] # Nil PROVE i < Slots'
    BY <1>1 DEF StoredIsDeclared, Slots
  <2>2. i < Slots /\ i \in 0..(GlobalSize - 1)
    BY <2>1 DEF Inv, StoredIsDeclared, Slots, Stored
  <2>3. QED BY <1>6, <2>2
<1>12. Constants(kept, Slots)'
  <2>1. Constants(kept, n)
    BY <1>8 DEF Inv
  <2>2. Constants(kept, m)
    BY <1>6, <1>8, <2>1, MoreSlots DEF Constants
  <2>3. QED BY <1>1, <1>8, <2>2 DEF Constants
<1>13. CP!Declared'
  BY <1>5 DEF CP!Widens
<1>14. symbolTable' \in CP!TableType /\ entered' \in Seq(Lines)
  BY <1>1 DEF Inv
<1>15. Inv'
  BY <1>1, <1>4, <1>6, <1>7, <1>10, <1>11, <1>12, <1>13, <1>14 DEF Inv
<1>16. QED BY <1>7, <1>15

\* The machine of a line is given a pool whose functions fit the table.
LEMMA DoneInv == ASSUME Inv, CompileDone PROVE Inv' /\ IsPrefix(kept, kept')
<1>1. /\ phase = "compile" /\ phase' = "run" /\ symbolTable' = tables[1] /\ kept' = constants
      /\ stack' = M!Fresh(StackSize) /\ sp' = 0 /\ status' = "running"
      /\ frames' = <<M!NewFrame(Closure(Main(C!Bytecode.instructions), <<>>), 0)>>
      /\ entered' = entered /\ constants' = constants /\ globals' = globals
  BY Zenon DEF CompileDone, GlobalTable
<1>2. Slots' = Slots /\ Slots = CP!GlobalSlots
  BY <1>1 DEF Slots, CP!GlobalSlots
<1>3. CP!Inv /\ CP!SoundConstants /\ CP!Declared /\ IsPrefix(kept, constants)
  BY <1>1 DEF Inv
<1>4. /\ tables \in Seq(CP!TableType) /\ Len(tables) = Len(scopes) /\ Len(tables) \in Nat \ {0}
  BY <1>3, CP!FirstTable, CompilerAssumptions
<1>5. tables[1] \in CP!TableType /\ CP!FitTable(tables[1], Slots)
  <2>1. 1 \in 1..Len(tables)
    BY <1>4
  <2>2. tables[1] \in CP!TableType
    BY <1>4, <2>1, ElementOfSeq
  <2>3. QED BY <1>2, <1>3, <2>1, <2>2 DEF CP!Declared, CP!Fit
<1>6. CP!FitTable(symbolTable', Slots')
  BY <1>1, <1>2, <1>5
<1>7. Constants(constants, Slots)
  BY <1>2, <1>3 DEF Constants, CP!SoundConstants, CP!Declared, CP!Fit
<1>8. PICK n, main : n = Slots /\ main = Main(C!Bytecode.instructions)
  OBVIOUS
<1>9. main \in Functions(n)
  <2>1. Len(scopes) \in 1..Len(scopes)
    BY <1>4
  <2>2. C!Bytecode.instructions \in Seq(CP!FitCells(n))
    BY <1>2, <1>3, <1>8, <2>1 DEF C!Bytecode, C!Scope, CP!Declared, CP!Fit
  <2>3. QED BY <1>8, <2>2 DEF Functions, Main, CompiledFunction
<1>10. PICK S : Values(S, n) /\ globals \in [0..(GlobalSize - 1) -> S]
  BY <1>8 DEF Inv, Stored
<1>11. PICK cl : cl = Closure(main, <<>>)
  OBVIOUS
<1>12. PICK T : /\ Values(T, n) /\ S \subseteq T /\ Nil \in T /\ constants \in Seq(T) /\ cl \in T
  BY <1>7, <1>8, <1>9, <1>10, <1>11, LoadedValues
<1>13. /\ stack' \in [0..(StackSize - 1) -> T] /\ globals' \in [0..(GlobalSize - 1) -> T]
       /\ constants' \in Seq(T)
  BY <1>1, <1>10, <1>12, FreshNil
<1>14. frames' \in Seq(MP!VMFrame(MP!ClosuresAmong(T))) /\ Len(frames') = 1
  <2>1. PICK f : f = M!NewFrame(cl, 0)
    OBVIOUS
  <2>2. f \in MP!VMFrame(MP!ClosuresAmong(T))
    BY <1>11, <1>12, <2>1 DEF M!NewFrame, MP!VMFrame, MP!ClosuresAmong, Closure
  <2>3. PICK R : R = MP!VMFrame(MP!ClosuresAmong(T))
    OBVIOUS
  <2>4. frames' = <<f>>
    BY <1>1, <1>8, <1>11, <2>1
  <2>5. QED BY ONLY <2>2, <2>3, <2>4
<1>15. \A i \in 1..Len(constants') : MP!IsFunction(constants'[i]) => constants'[i] \in Functions(n)
  <2>1. SUFFICES ASSUME NEW i \in 1..Len(constants), MP!IsFunction(constants[i])
                 PROVE  constants[i] \in Functions(n)
    BY <1>1
  <2>2. constants[i] \in CP!Objects /\ CP!FitObject(constants[i], n)
    BY <1>7, <1>8, <2>1 DEF Constants
  <2>3. QED BY <2>1, <2>2, ConstantsSound DEF MP!IsFunction
<1>16. MP!Filled(T, Functions(n))'
  BY <1>12, <1>13, <1>14, <1>15 DEF MP!Filled, Values
<1>17. MaxFrames \in Nat \ {0}
  BY MachineAssumptions DEF MP!VMAssumption
<1>18. MP!Guarded(Functions(n))'
  BY <1>1, <1>14, <1>16, <1>17, FunctionsEncoded DEF MP!Guarded, MP!Statuses
<1>19. MP!Guarded(Functions(Slots))'
  BY <1>2, <1>8, <1>18
<1>20. Stored(Slots)' /\ StoredIsDeclared'
  BY <1>1, <1>2, StoredStays
<1>21. Constants(kept, Slots)'
  BY <1>1, <1>2, <1>7 DEF Constants
<1>22. Inv'
  BY <1>1, <1>2, <1>5, <1>6, <1>19, <1>20, <1>21 DEF Inv
<1>23. QED BY <1>1, <1>3, <1>22

\* It stores where functions of the pool say.
LEMMA RunInv == ASSUME Inv, RunStep PROVE Inv'
<1>1. /\ phase = "run" /\ phase' = phase /\ symbolTable' = symbolTable /\ M!Next
      /\ entered' = entered /\ kept' = kept
  BY Zenon DEF RunStep, session
<1>2. MP!Next
  BY <1>1, MachineSteps
<1>3. Slots' = Slots /\ Slots = symbolTable.numDefinitions
  BY <1>1 DEF Slots
<1>4. PICK n, F : n = Slots /\ F = Functions(n)
  OBVIOUS
<1>5. MP!Guarded(F) /\ constants = kept /\ n \in Nat
  BY <1>1, <1>4 DEF Inv
<1>6. MP!Guarded(F)'
  BY <1>2, <1>5, MP!GuardedNext, MachineAssumptions
<1>7. /\ constants' = constants
      /\ \/ globals' = globals
         \/ \E fn \in F, p \in Nat :
               /\ MP!IsHead(fn.instructions, p) /\ MP!At(fn.instructions, p).op = "OpSetGlobal"
               /\ \E v : globals' = [globals EXCEPT ![MP!At(fn.instructions, p).args[1]] = v]
  BY <1>2, <1>5, MP!GlobalWrites, MachineAssumptions
<1>8. Stored(Slots)'
  <2>1. PICK S : MP!Filled(S, F)'
    BY <1>6 DEF MP!Guarded
  <2>2. Values(S, n) /\ globals' \in [0..(GlobalSize - 1) -> S]
    BY <1>4, <2>1 DEF MP!Filled, Values
  <2>3. QED BY <1>3, <1>4, <2>2 DEF Stored
<1>9. StoredIsDeclared'
  <2>1. \A i \in DOMAIN globals : globals[i] # Nil => i < n
    BY <1>4 DEF Inv, StoredIsDeclared, Slots
  <2>2. \A i \in DOMAIN globals' : globals'[i] # Nil => i < n
    <3>1. CASE globals' = globals
      BY <2>1, <3>1
    <3>2. CASE \E fn \in F, p \in Nat :
                  /\ MP!IsHead(fn.instructions, p) /\ MP!At(fn.instructions, p).op = "OpSetGlobal"
                  /\ \E v : globals' = [globals EXCEPT ![MP!At(fn.instructions, p).args[1]] = v]
      <4>1. PICK fn \in F, p \in Nat :
               /\ MP!IsHead(fn.instructions, p) /\ MP!At(fn.instructions, p).op = "OpSetGlobal"
               /\ \E v : globals' = [globals EXCEPT ![MP!At(fn.instructions, p).args[1]] = v]
        BY <3>2
      <4>2. PICK slot : slot = MP!At(fn.instructions, p).args[1]
        OBVIOUS
      <4>3. slot < n
        BY <1>4, <4>1, <4>2, FunctionsStore
      <4>4. PICK v : globals' = [globals EXCEPT ![slot] = v]
        BY <4>1, <4>2
      <4>5. QED BY <2>1, <4>3, <4>4
    <3>3. QED BY <1>7, <3>1, <3>2
  <2>3. QED BY <1>1, <1>3, <1>4, <2>2 DEF StoredIsDeclared, Slots
<1>10. Constants(kept, Slots)'
  BY <1>1, <1>3 DEF Inv, Constants
<1>11. MP!Guarded(Functions(Slots))'
  BY <1>3, <1>4, <1>6
<1>12. CP!FitTable(symbolTable', Slots')
  <2>1. CP!FitTable(symbolTable, Slots)
    BY <1>1 DEF Inv
  <2>2. QED BY <1>1, <1>3, <2>1
<1>13. symbolTable' \in CP!TableType /\ entered' \in Seq(Lines) /\ Slots' \in Nat
  BY <1>1, <1>3 DEF Inv
<1>14. QED BY <1>1, <1>5, <1>7, <1>8, <1>9, <1>10, <1>11, <1>12, <1>13 DEF Inv

LEMMA StutterInv == ASSUME Inv, UNCHANGED vars PROVE Inv'
<1>1. /\ phase' = phase /\ entered' = entered /\ symbolTable' = symbolTable /\ kept' = kept
      /\ constants' = constants /\ control' = control /\ tables' = tables /\ scopes' = scopes
      /\ importedFiles' = importedFiles /\ currentDir' = currentDir /\ globals' = globals
      /\ stack' = stack /\ sp' = sp /\ frames' = frames /\ status' = status
  BY Zenon DEF vars, session, compilation, execution
<1>2. PICK n : n = Slots /\ n = Slots'
  BY <1>1 DEF Slots
<1>3. Stored(Slots)' /\ StoredIsDeclared'
  BY <1>1, <1>2, StoredStays
<1>4. (phase = "compile") => (CP!Inv /\ CP!SoundConstants /\ CP!Declared)'
  BY <1>1 DEF Inv, CP!Inv, CP!SoundConstants, CP!Declared, CP!GlobalSlots
<1>5. phase = "run" => MP!Guarded(Functions(Slots))'
  <2>1. SUFFICES ASSUME phase = "run" PROVE MP!Guarded(Functions(n))'
    BY <1>2
  <2>2. MP!Guarded(Functions(n))
    BY <1>2, <2>1 DEF Inv
  <2>3. UNCHANGED MP!vars
    BY <1>1 DEF MP!vars
  <2>4. QED BY <2>2, <2>3, MP!GuardedNext, MachineAssumptions
<1>6. Constants(kept, Slots)'
  BY <1>1, <1>2 DEF Inv, Constants
<1>7. symbolTable' \in CP!TableType /\ entered' \in Seq(Lines) /\ Slots' \in Nat
      /\ (phase # "compile" => CP!FitTable(symbolTable', Slots'))
      /\ (phase = "compile" => IsPrefix(kept', constants'))
      /\ (phase = "run" => constants' = kept')
      /\ phase' \in {"prompt", "compile", "run", "crashed"}
  BY <1>1, <1>2 DEF Inv
<1>8. QED BY <1>1, <1>3, <1>4, <1>5, <1>6, <1>7 DEF Inv

LEMMA NextInv == ASSUME Inv, [Next]_vars PROVE Inv' /\ IsPrefix(kept, kept')
<1>1. \A s : s \in Seq(CP!Objects) => IsPrefix(s, s)
  BY DEF IsPrefix
<1>2. kept \in Seq(CP!Objects)
  BY DEF Inv, Constants
<1>3. ASSUME UNCHANGED kept PROVE IsPrefix(kept, kept')
  BY <1>1, <1>2, <1>3
<1>4. CASE \E line \in Lines : ReadLine(line)
  <2>1. UNCHANGED kept
    BY <1>4, Zenon DEF ReadLine
  <2>2. QED BY <1>3, <1>4, <2>1, ReadInv
<1>5. CASE CompileStep
  <2>1. UNCHANGED kept
    BY <1>5, Zenon DEF CompileStep, session
  <2>2. QED BY <1>3, <1>5, <2>1, CompileInv
<1>6. CASE CompileFailed
  <2>1. UNCHANGED kept
    BY <1>6, Zenon DEF CompileFailed
  <2>2. QED BY <1>3, <1>6, <2>1, FailedInv
<1>7. CASE CompileDone
  BY <1>7, DoneInv
<1>8. CASE RunStep
  <2>1. UNCHANGED kept
    BY <1>8, Zenon DEF RunStep, session
  <2>2. QED BY <1>3, <1>8, <2>1, RunInv
<1>9. CASE RunEnded
  <2>1. UNCHANGED kept
    BY <1>9, Zenon DEF RunEnded
  <2>2. QED BY <1>3, <1>9, <2>1, EndedInv
<1>10. CASE UNCHANGED vars
  <2>1. UNCHANGED kept
    BY <1>10, Zenon DEF vars, session
  <2>2. QED BY <1>3, <1>10, <2>1, StutterInv
<1>11. QED BY <1>4, <1>5, <1>6, <1>7, <1>8, <1>9, <1>10, Zenon DEF Next, Proceed

(* The invariant, which the theorems below are parts of.                   *)
THEOREM SpecInv == Spec => []Inv
<1>1. Init => Inv
  BY InitInv
<1>2. Inv /\ [Next]_vars => Inv'
  BY NextInv
<1>3. QED BY <1>1, <1>2, PTL DEF Spec

(* The compiler's types while a line is compiled and the machine's while   *)
(* it runs, whatever lines were entered before and however they ended: the *)
(* code that runs need not verify for that.                                *)
THEOREM TypeCorrect == Spec => []TypeOK
<1>1. Inv => TypeOK
  <2>1. SUFFICES ASSUME Inv PROVE TypeOK
    OBVIOUS
  <2>2. symbolTable \in C!TableType
    BY <2>1, SameStart DEF Inv
  <2>3. phase = "compile" => C!TypeOK
    <3>1. CP!Inv => CP!TypeOK
      BY CP!InvTypes, CompilerAssumptions
    <3>2. QED BY <2>1, <3>1, SameTypes DEF Inv
  <2>4. phase = "run" => M!TypeOK
    <3>1. phase = "run" => MP!Guarded(Functions(Slots))
      BY <2>1 DEF Inv
    <3>2. phase = "run" => MP!TypeOK
      BY <3>1, MP!GuardedTypes, MachineAssumptions
    <3>3. QED BY <3>2, SameTypes
  <2>5. QED BY <2>1, <2>2, <2>3, <2>4 DEF Inv, TypeOK
<1>2. QED BY <1>1, SpecInv, PTL

(* No line takes a constant out of the pool or replaces it, also one that  *)
(* does not compile.                                                       *)
THEOREM ConstantsKept == Spec => ConstantsStay
<1>1. Inv /\ [Next]_vars => [IsPrefix(kept, kept')]_vars
  BY NextInv
<1>2. QED BY <1>1, SpecInv, PTL DEF Spec, ConstantsStay

(* A value in a global slot belongs to a declaration, also when it was     *)
(* stored by a function of an earlier line, and when the line that         *)
(* declared the name did not compile.                                      *)
THEOREM DeclaredOnly == Spec => []StoredIsDeclared
<1>1. Inv => StoredIsDeclared
  BY DEF Inv
<1>2. QED BY <1>1, SpecInv, PTL
=============================================================================
