------------------------------ MODULE Session ------------------------------
(***************************************************************************)
(* repl/repl.go: one line after the other is compiled and run.  A compiler *)
(* and a VM are made for each line; what stays from line to line are the   *)
(* global symbol table, the pool of constants and the globals.             *)
(*                                                                         *)
(* Running a file (runFile of main.go) is a session of one line, with the  *)
(* directory of the file, that does not print the last value.              *)
(*                                                                         *)
(* The compiler and the VM work on the pool in turn: constants is          *)
(* c.constants while a line is compiled and vm.constants while it runs.    *)
(***************************************************************************)
EXTENDS Verifier, SequencesExt

CONSTANTS
    Names, Builtins, BaseDir, FullPath, DirOf, Files,                       \* see Compiler
    StackSize, MaxFrames, GlobalSize, IntLimit, BuiltinCount, BuiltinResults, \* see VM
    Lines,      \* the lines that may be entered, parsed: ast.Program nodes
    Nodes,      \* the nodes of these lines and of the files
    MaxLines    \* bound: how many lines are entered

ASSUME SessionAssumption == MaxLines \in Nat /\ BuiltinCount = Len(Builtins)

VARIABLES
    phase,          \* "prompt", "compile", "run", or "crashed": the process is gone
    entered,        \* the lines entered so far
    symbolTable,    \* Start's symbolTable: the global table
    kept,           \* Start's constants
    constants,
    control, tables, scopes, importedFiles, currentDir, error,  \* of the line's compiler
    globals, stack, sp, frames, status                          \* of the line's VM

session     == <<phase, entered, symbolTable, kept>>
compilation == <<control, tables, scopes, importedFiles, currentDir, error>>
execution   == <<stack, sp, frames, status>>

vars == <<session, constants, compilation, globals, execution>>

C == INSTANCE Compiler WITH Trees <- Lines

M == INSTANCE VM WITH Programs <- {}

\* The lines and the files are trees as the parser makes them; it reads integers of 64 bits.
ASSUME LinesAssumption ==
    /\ C!TreesAssumption /\ C!FilesAssumption
    /\ \A node \in C!NodesOfKind({"IntegerLiteral"}) : M!IsObject(node.literal)

ASSUME MachineAssumption == M!VMAssumption /\ M!ResultsAssumption

Init ==
    /\ phase = "prompt" /\ entered = <<>>
    /\ symbolTable = C!DefineBuiltins(C!NewSymbolTable, Builtins)[1]
    /\ kept = <<>>
    /\ control = <<>> /\ tables = <<>> /\ scopes = <<>>
    /\ importedFiles = {} /\ currentDir = BaseDir /\ error = ""
    /\ constants = <<>> /\ globals = M!Fresh(GlobalSize)
    /\ stack = M!Fresh(StackSize) /\ sp = 0 /\ frames = <<>> /\ status = "done"

\* Faulty variant: every line starts with an empty pool.
EmptyPool == <<>>

\* The pool NewWithState is given.
InitialPool == kept

\* NewWithState; a line that does not parse is reported and forgotten.
ReadLine(line) ==
    /\ phase = "prompt" /\ Len(entered) < MaxLines
    /\ phase' = "compile"
    /\ entered' = Append(entered, line)
    /\ control' = <<C!Compile(line)>>
    /\ tables' = <<symbolTable>>
    /\ scopes' = <<C!EmptyScope>>
    /\ importedFiles' = {} /\ currentDir' = BaseDir /\ error' = ""
    /\ constants' = InitialPool
    /\ UNCHANGED <<symbolTable, kept, globals, execution>>

CompileStep ==
    /\ phase = "compile"
    /\ C!Next
    /\ UNCHANGED <<session, globals, execution>>

\* Faulty variants: the table of the innermost function; the table before the line.
InnermostTable == Last(tables)

TableBefore == symbolTable

GlobalTable == tables[1]

\* The table was changed in place, its definitions stay whether the line compiles or not.
CompileFailed ==
    /\ phase = "compile" /\ error # ""
    /\ phase' = "prompt"
    /\ symbolTable' = GlobalTable
    /\ UNCHANGED <<entered, kept, constants, compilation, globals, execution>>

\* Bytecode, the new pool, NewWithGlobalsStore.
CompileDone ==
    /\ phase = "compile" /\ C!Compiled
    /\ phase' = "run"
    /\ symbolTable' = GlobalTable
    /\ kept' = constants
    /\ stack' = M!Fresh(StackSize) /\ sp' = 0 /\ status' = "running"
    /\ frames' = <<M!NewFrame(Closure(Main(C!Bytecode.instructions), <<>>), 0)>>
    /\ UNCHANGED <<entered, constants, compilation, globals>>

RunStep ==
    /\ phase = "run"
    /\ M!Next
    /\ UNCHANGED <<session, compilation>>

\* The last value is printed unless it is Null; a nil has no type to ask for.
RunEnded ==
    /\ phase = "run" /\ status # "running"
    /\ phase' = IF \/ status \notin {"done", "error"}
                   \/ status = "done" /\ M!LastPoppedStackElem = Nil
                THEN "crashed" ELSE "prompt"
    /\ UNCHANGED <<entered, symbolTable, kept, constants, compilation, globals, execution>>

\* What follows when a line has been entered.
Proceed == CompileStep \/ CompileFailed \/ CompileDone \/ RunStep \/ RunEnded

Next == (\E line \in Lines : ReadLine(line)) \/ Proceed

Spec == Init /\ [][Next]_vars

\* Compiling and running are one loop after the other in one goroutine: they go on
\* as long as they can.  Nobody has to enter a line.
FairSpec == Spec /\ WF_vars(Proceed)

-----------------------------------------------------------------------------
(* Properties                                                              *)

(* The type invariant: the phases, and the symbol table as the compiler's. *)
TypeOK ==
    /\ phase \in {"prompt", "compile", "run", "crashed"}
    /\ entered \in Seq(Lines)
    /\ symbolTable \in C!TableType
    /\ phase = "compile" => C!TypeOK
    /\ phase = "run" => M!TypeOK

(* Functions of earlier lines run with the constants of later ones: no     *)
(* line, failing or not, takes a constant out of the pool or replaces it.  *)
ConstantsStay == [][IsPrefix(kept, kept')]_vars

(* Whatever lines were entered before, also lines that failed halfway, the *)
(* code that runs verifies against the pool it runs with, and so does the  *)
(* code of the functions that earlier lines have left there.               *)
RunsVerifiedCode ==
    phase = "run" => Verified(C!Bytecode.instructions, constants, BuiltinCount)

(* A value in a global slot belongs to a declaration: no line's code       *)
(* stores into a slot that the table may give to another name later.       *)
StoredIsDeclared ==
    \A i \in DOMAIN globals : globals[i] # Nil =>
        i < IF phase = "compile" THEN tables[1].numDefinitions ELSE symbolTable.numDefinitions

(* A line of text is always answered: the prompt comes back, or the        *)
(* process dies.                                                           *)
LineAnswered == phase = "compile" ~> phase \in {"prompt", "crashed"}
=============================================================================
