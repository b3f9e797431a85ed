# Zumbra in TLA+

Zumbra is a small scripting language: a lexer and a Pratt parser, a compiler to bytecode, a
stack VM with closures, a REPL, and a library of builtins. This directory is a model of the
way from a program's text to what it does: reading it, name resolution, code generation,
execution, the session that carries state from one line to the next, and the builtins that
keep state of their own: arrays and dicts, the HTTP server, the database. TLC checks it on
small instances; for name resolution, the VM and its stack discipline, the arrays and the
services, TLAPS proves the main properties for every instance, the refinements of the abstract
specifications among them.

## 1. The system

| part | state | operations | talks to |
|---|---|---|---|
| bytecode (`code/`) | none; a `[]byte` per function | `Make`, `ReadOperands` | compiler writes, VM reads |
| symbol table (`compiler/symbol_table.go`) | per function: `store`, `numDefinitions`, `FreeSymbols`, `Outer` | `Define`, `Resolve`, `DefineBuiltin`, `DefineFunctionName`, `defineFree` | compiler; outlives it in the REPL |
| compiler (`compiler/compiler.go`) | `constants`, stack of `scopes` (code, last two instructions), symbol table, `importedFiles`, `currentDir` | `Compile` over the tree, `emit`, `removeLastPop`, `replaceInstruction`, `enterScope`, `leaveScope`, imports | parser (through the tree and imports), file system |
| VM (`vm/`) | `stack`, `sp`, `frames`, `globals`, `constants` | `Run`: one case per opcode | compiler's bytecode, builtins |
| REPL (`repl/repl.go`) | symbol table, constants, globals, kept from line to line | read, compile, run, print | all of the above |
| running a file (`main.go`) | none of its own | the same with one program | all of the above |
| lexer (`lexer/`, `token/`) | `input`, `position` | `NextToken` | parser |
| parser (`parser/`, `ast/`) | two tokens, `errors` | one function for each kind of node; `ParseProgram` | compiler, evaluator (through the tree) |
| evaluator (`evaluator/`) | environments | `Eval` over the tree | reached by `benchmark/main.go` only |
| arrays and dicts (`object/builtins/`) | Go slices and maps, changed in place | `addToArrayEnd`, `removeFromArray`, `organize`, `addToDict`, ... | VM |
| HTTP server (`object/builtins/`) | `registerRoutes`, `staticRoutes`, the global mux | `registerRoute`, `useMiddlewares`, `serveStatic`, `server`; requests | VM; network |
| MySQL (`object/builtins/`) | `db_connection` | connect, create, insert, update, delete, query | VM; database |
| other builtins | a secret key | one function each | VM; libraries, system |
| transpiler, runtime, benchmark | - | tree to Go text; helpers of that text | Go tool chain |

Everything but the answers of the HTTP server runs in one goroutine. What is hard here is not
concurrency but agreement: components written apart rely on facts none of them checks.

* The lexer has to leave its cursor, and each parse function its two tokens, exactly where the
  next one expects them; what binds to what is a comparison of two numbers. A parse function
  that fails leaves both somewhere, with a nil in the tree, and the parser goes on.
* The VM indexes its stack, its constants, its captures and its frames without a test (only
  `push` looks at the size). All of it depends on the code the compiler emits.
* The compiler decides by its memory of the last two instructions whether a block left a
  value, takes instructions back, turns them into others, and patches jumps by position after
  the code behind them was emitted.
* A captured variable is passed on from function to function by recursion of `Resolve` while
  `Define` may overwrite the very entries that recursion relies on.
* In the REPL a line that fails, in the compiler or half way through its run, leaves behind
  part of what it did, and functions of earlier lines run with the pools of later ones.
* An array is a Go slice that builtins shift, sort and append to in place. That only its own
  holders see it relies on no builtin making a second slice over the same cells.
* What a call of the server or of the database has changed before it fails stays: patterns in
  the global mux, a connection that never answered. Requests read the routes in goroutines of
  their own, some of them after the server call has returned.

What makes each part correct:

* *lexer, parser*: tokens are the longest lexemes, no character is lost; a program that is
  written down from its tree is read back as that tree; what is read without an error is a
  whole tree with every word and bracket of the text in its place.
* *symbol table*: the symbol of a use leads to the declaration lexical scoping gives it; each
  function on the way can load what the next one captures; no two names share a slot; nothing
  is captured twice (a capture copies the value).
* *compiler*: whatever the tree, the code it emits keeps the stack balanced on every path, its
  jumps land on instructions, its operands name things there are; imports end and are relative
  to the importing file.
* *VM*: verified code never reads a local or a caller's value as an operand, never leaves the
  stack; a callee does not disturb the caller; the machine stops with an error and not a panic
  when it runs out of room, where it promises to.
* *session*: no sequence of lines, failing ones included, gets the VM to run code that does
  not fit the pool, the symbol table and the globals it runs with; each line is answered.
* *arrays and dicts*: a call changes the object it was given, as it says, and no other one.
* *server, database*: the first server call does not panic, but for folders whose prefixes the
  mux refuses, and no second one comes to serve; a request that is answered keeps its answer
  while the program goes on; statements reach the database asked for last or none.

The hazards behind these, each with its line and the properties that watch it, are listed in
`PROJECT.json`.

## 2. The modules

| module | models | notes |
|---|---|---|
| `Lexer` | `lexer/lexer.go`, `token/token.go` | state machine: a token for each step |
| `Parser` | `parser/parser.go` | state machine: a statement for each step |
| `Reader` | lexer and parser as `main.go`, the REPL and imports use them | composes them; also how a program is written, a specification |
| `Code` | `code/code.go` | the byte format, see below |
| `Object` | `object/object.go` | values, dictionary keys, pointer identity |
| `Syntax` | `ast/` | constructors of the trees the compiler reads |
| `SymbolTable` | `compiler/symbol_table.go` | pure operators on the chain of tables |
| `LexicalScopes` | (abstract) lexical scoping | a specification, not a translation |
| `Scoping` | the compiler's use of the symbol table | state machine; refines `LexicalScopes` |
| `Compiler` | `compiler/compiler.go` | state machine over a stack of tasks |
| `Verifier` | what `vm.Run` takes for granted | the stack effects, read off the cases of `Run` |
| `StackMachine` | frames, program counters and `sp` of `vm/` | the VM without values |
| `Float64` | Go's `float64` of an integer | rounding to `MantissaBits`; for the searches of arrays and the evaluator's `%` |
| `Int64` | Go's `int64` | wrapping arithmetic of integers from `-IntLimit` up to below `IntLimit` |
| `VM` | `vm/vm.go`, `vm/frame.go` | the VM with values; refines `StackMachine` |
| `Session` | `repl/repl.go`, `runFile` | composes `Compiler` and `VM` |
| `Evaluator` | `evaluator/evaluator.go`, `object/environment.go` | recursive operators: the results of evaluating a tree |
| `Collections` | (abstract) arrays and dicts as a program sees them | a specification, not a translation |
| `Arrays` | `array_builtins.go`, `dict_builtins.go`, `size_of_builtin.go` | state machine over the memory of Go slices; refines `Collections` |
| `Server` | `http_builtins.go` | routes, the mux, the server call, replies |
| `Database` | `mysql_builtins.go` | the connection and the tables behind it |
| `Services` | a program that uses both | composes `Server` and `Database` |
| `FrameChains` | | lemmas about chains of frames as values, for both machines |
| `ScopingProofs`, `CompilerProofs`, `StackMachineProofs`, `VMProofs`, `SessionProofs`, `LexerProofs`, `BuiltinsProofs` | | theorems |
| `MCScoping`, `MCCompiler`, `MCStackMachine`, `MCVM`, `MCSession`, `MCReader`, `MCArrays`, `MCServices` | | instances for TLC |
| `SyntaxNodes` | | all nodes of given trees, for the instances |
| `MCExamples` | the programs of docs, examples and tests | `Reader` over a list of texts |
| `MCEngines` | `benchmark/main.go` | composes `Session` and `Evaluator`, for TLC |

```
  Code  Object                SymbolTable          LexicalScopes
    \     |  \                /         \               ^ refines
     Verifier  Syntax        /           Scoping -------+
     |      \       \       /               |
     |       \      Compiler -- CompilerProofs
     |        \       |             ScopingProofs
 StackMachine \       |
       ^ refines\     |
       +-------- VM   |      Object  Int64 (also of VM)
                   \  |          \  /
                   Session   Evaluator          SessionProofs: Session over
                        \     /                  CompilerProofs and VMProofs
                       MCEngines

                   Verifier
                      |
   StackMachine   FrameChains    VM
             \    /         \    /
        StackMachineProofs  VMProofs

  Lexer  Parser (Syntax)      Object, Float64 (also of Evaluator)
      \  /                       \         Collections      Server  Database
       |                          \            ^ refines           \  /
     Reader -- MCExamples        Arrays -------+                Services
                                       \                       /
  LexerProofs: Lexer                    +--- BuiltinsProofs --+
```

**Lexer, Parser, Reader.** A character is a string of one character, and `\0` the byte the lexer
takes for the end. A step of `Lexer` is one `NextToken`; its tokens keep the places they were
read between, so that lost characters show. The parser's recursion is a family of recursive
operators that take and give back its state (place, errors, node), one operator for each parse
function and one step for each statement. An operand that could not be parsed is the nil of
the Go code, put into the tree as there. Since tokens depend on the text alone, `Reader` reads
them all first. `Write` in `Reader` is the other direction, the language as it is described: a
tree becomes words, with parentheses where the ranks of the operators need them, and around the
applications of the operators in `Cautious` wherever these are operands. The ranks (`Ranks`) have `<=` and
`>=` with the other comparisons and `and` below them, as `docs/syntax.MD` has them; beyond that the
documentation says nothing of ranks, and they are taken as in other languages.

**Code.** Code stays a sequence of bytes, because positions in it are what the compiler patches
and the VM jumps to. The byte of an opcode is a cell that also carries the decoded operands;
each operand byte is the cell `Operand`. So an instruction has its real length, a jump into
the middle of one is visible, and `Make` keeps operands modulo `OneByte` and `TwoBytes` as the
Go conversions do. `Make` of an unknown opcode and the disassembler are left out.

**SymbolTable, Scoping.** `tables` is the chain from the global table (first) to that of the
innermost function (last); the Go recursion through `Outer` becomes a choice of the innermost
table that has the name (`Home`), and what the recursion does on its way back becomes one
definition per table in between (`Resolve`). An action of `Scoping` is what `compiler.go` does
with the table at one place of the program text: enter a function with its parameters, declare,
use, leave. Names and parameter lists are constants; the actions come in every order, so that
the properties hold for the scopes of every program.

**Compiler.** The recursion of `Compile` over the tree is a stack of tasks, `control`: an action
takes the first task, does what the source does before the next recursive call and puts down
tasks for the calls and for what comes after them. `scopes`, `constants`, the tables and the
import state are the fields of the Go struct. An error empties nothing: `error` is set and the
machine stops with the state it had, because the REPL keeps part of that state. Dictionary
literals are compiled in the order of their keys' text, given as a rank; equal ranks are
compiled in either order, as Go's map iteration may. Files are a function from path to program,
`Unreadable` or `Unparsable`.

**Verifier.** Not a part of the program: a definition of what the program relies on. `Pops`,
`Pushes` and `Successors` are the effects of the cases of `vm.Run`; `Heights` gives each
reachable offset the number of values above the locals; `Verified` says that all paths agree,
that operands are there and name something. The compiler is checked to emit only such code,
the machine is proved to need no more.

**StackMachine, VM.** `VM` has an action per group of opcodes and the failures that belong to
them; `status` tells how a run ends: `done`, `error` (`Run` returns an error), or the array
whose index was out of range, a nil dereference or a division by zero, which are Go panics.
`StackMachine` keeps `frames`, `sp` and `status` and lets values be anything. `pc` is Go's
`ip + 1`. A frame keeps its base; locals are addressed from it in the same array as the
callers' values and are not cleared by a call, so `VM` shows what an earlier call left in them.

**Session.** `ReadLine` makes a compiler (`NewWithState`) over the kept symbol table and pool,
`CompileDone` a VM over the kept globals; `CompileFailed` keeps what the failed line did to
the table, since Go changed it in place; `RunEnded` prints, where a nil last value is a nil
dereference. A `runFile` is a session of one line which has a directory and does not print.

**Arrays, Collections.** `memory` has the cells of each backing array, `slices` where each array
object's slice lies. `append` writes into the room behind a slice or moves to a fresh backing
array with any room; what no slice points into is collected. A Go map is a set of pairs,
one for each `DictKey`. No builtin looks into an element, so a reference is a value like any
other: sharing through names, closures and elements is sharing of the object's number.
`Collections` has sequences and sets of pairs and no memory.

**Server, Database, Services.** `main` says what the program's goroutine does: it runs, is in the
server call (mounting one pattern for each step, then listening), serves, or has panicked. The
program makes its calls in any order, and none while it serves. `StopServing` is `srvr.Serve`
returning; connections that are open stay until their clients go (`Disconnect`).
`http.Handle` panics on a prefix that makes no pattern (`Malformed`) and on two patterns of which the mux
cannot tell the more specific one (`Conflict`): equal ones, and ones that overlap by wildcards, as
`net/http` does for the Go version of `go.mod`. `Reply` is what a request gets: the mux's choice of
the most specific pattern, its redirect and `http.StripPrefix` (external, `net/http`), then the
code's first match. A request reads `registerRoutes` in one step. The code does not synchronize this
with `append`, so that a request may see a slice header that is half written, which is not
modelled: one that an earlier route answers comes to it before what is new, another one could
read past the end. In `Database` the pool is the name of the database it
was opened for; a call that fails is a step that has changed only what it changed before.

**Evaluator.** `Eval(node, env, heap)` is the set of results a node may have, each a value and
the heap of environments it leaves; a set, because floats and pointer comparisons leave more
than one. It shares no definition with `Compiler` or `VM` but the values and the arithmetic of
`int64`: names are looked up in environments, calls are calls, loops are loops. `MCEngines` has
a VM run end in one of these results. A loop of more than `MaxTurns` (3) turns counts as one that
does not come back; no program that ends has more.

### Abstractions

* A float is its type: arithmetic on it gives `Float`, a comparison either truth value.
* Pointer identity: the VM compares everything but numbers and strings by pointer, and tests
  truth by pointer for Null. Objects the VM holds once (`native`) are told from the ones a
  builtin allocates; two objects of equal contents may or may not be the same one, and a
  comparison may go both ways. The VM has no heap; arrays that are shared and changed in place
  are the subject of `Arrays`, which follows the builtins and not the programs that call them.
* In `VM`, a builtin returns any of `BuiltinResults`, nil and error objects included, or hands back
  an argument or what is inside of one (`HandedBack`), and changes nothing.
* What `strconv` makes of the digits of a number is a table (`IntegerOf`); a float has no value.
* Integers that go through `float64` are rounded (`Float64`); what else a float is used for is left open.
* A path, and the prefix of a folder, is the sequence of its parts, of which the first is the host.
  Requests are for hosts no prefix names, and their paths are clean; prefixes that name a method
  or have escapes in them are left out. A handler is its name: handlers take no arguments, and no
  builtin without arguments changes anything, so a request changes no state.
* The rows that the condition of a statement selects are any rows.
* A panic or an error leaves the rest of the VM's state as it was just before the instruction;
  nobody reads what the failing instruction had popped, as every line gets a new stack.
* Lines that do not parse are reported and change nothing; `Session` skips them.
* FNV collisions of dictionary keys are left out.

## 3. What is checked

| run | question | bounds |
|---|---|---|
| `reading` | tokens are the longest lexemes, nothing is lost or missing, brackets match, what is written is read back | all texts of up to 4 characters of 12 kinds; all of 3 tokens of 22 types and of 4 of 8; 8 programs with one token left out, put in, replaced, or cut off; some thousand programs with every operator under every other one |
| `scoping` | captures of captures: resolves lexically, loadable, once; names declared again, parameters that repeat a name, slots | 4 nested functions, 2 names (one a builtin's), 2 declarations each |
| `compiler` | the emitted code verifies; the remembered last instruction is right; jumps are patched where they were emitted; cycles of imports end, paths are relative to the importing file | some thousand programs of a grammar that puts conditionals, loops, functions, early returns inside each other; 4 files in 2 directories that import one another, from functions too, missing and broken files |
| `stack_machine` | verified code keeps the stack discipline | every verified main program and function of up to 4 instructions; 5 slots, 4 frames |
| `vm` | the VM implements the stack machine; callers' values are kept; values fit | every operator on every two kinds of values; recursion, captures, loops; 12 slots, 4 frames, 4-bit integers |
| `session` | code always fits its pool and globals, constants stay, lines are answered | every sequence of up to 4 of 11 lines |
| `engines` | compiled code and the evaluator agree | operators on every two of 13 operands, 12 functions with up to 75 uses each; `MaxTurns` 3, 4-bit integers, a stack no program fills |
| `arrays` | no two arrays share cells; the program sees the promised collections; searches answer right up to rounding | 2 objects of up to 3 elements of 2 integers, 3 backing arrays, floats of 3 bits |
| `services` | the first server call panics only for prefixes the mux refuses; answers are kept; statements reach the database asked for last | 2 routes of 3, 2 folders of 6, 6 requests; or 1 route and 1 folder of these beside 2 databases with 1 table of 1 row |
| `documented_examples` | *violated*: programs of docs, examples and tests are read as they are meant | 6 texts |
| `short_circuit` | *violated*: `and`/`or` do not short-circuit | 4 programs |
| `conditional_assignment` | *violated*: a conditional assignment ends the process | 2 programs |

The names are those of the runs in `PROJECT.json`; the `.cfg` of each has the values. Every
property is explained where it is defined. The ones that carry most:

* `ResolvesLexically` (refinement, `Scoping` to `LexicalScopes`): follows each resolved symbol
  capture by capture to a declaration and compares it with lexical scoping.
* `EmittedCodeVerifies`: links the compiler to the assumption of the machine theorems.
* `KeepsDiscipline` (refinement, `VM` to `StackMachine`): links the real VM to those theorems.
* `EnginesAgree`: code that verifies may still compute the wrong thing. Jumps, slots, captures and
  the order of operands on one side, environments and recursion on the other, come to one result.
* `RunsVerifiedCode`: links both through the session, after failed lines too.
* `ReadsWhatIsWritten`: the inverse of the parser goes by the ranks operators are meant to have, not
  by the parser's numbers; each pair of operators, on either side, has to come back.
* `ImplementsCollections` (refinement, `Arrays` to `Collections`): a cell that two arrays hold would
  show as a change of the one that was not asked.
* `OnlyLatestDatabase`, `AnswersKept`: across calls that failed in the middle.

Together: what the compiler emits verifies (checked on the grammar), verified code keeps the
stack discipline (proved), the VM with its values is such a machine (proved), and sessions
preserve it (checked).

**Why the bounds suffice.** *Reading*: a token is decided by two characters and ended by the next;
white space and comments need two more. The parser looks at two tokens, so that a wrong
one shows within the statement around it; operators bind by pairs. An application of `<=`, `>=` or `.`
that is an operand is put in parentheses there, needed or not (`Cautious`), because the parser gives these
three no rank: `x <= y and z` is not read as `(x <= y) and z`, which is a finding below, and `1 + a.hour` is read as
`(1 + a).hour`, which is none, as no document says what it should be. Their own operands are
written by the ranks, so that `a <= (a and 1)` keeps its parentheses. *Scoping*: a capture of a capture of a capture needs four tables;
the interactions of two declarations of one name, a parameter and the function's own name need
two declarations and parameter lists with that name. *Compiler*: what it remembers is two instructions deep and
one scope wide, so that three levels of nesting put every construct directly before, behind and
inside every other. Operand bounds are the real ones. *Stack machine and VM*: the sizes are
small so that each limit is met from each instruction: `Sum` and `Deep` of `MCVM` run into the
stack, the frames and the end of the array, with 0 to 8 extra locals so that the limit falls on
every place of the function. Integers of 3 or 4 bits overflow. *Session*: a line whose effects
matter to a later one needs a declaration, a failed line, and a use; four lines leave one more.
*Arrays*: sharing needs two objects; three cells tell a shift from a swap, and the third
backing array is the fresh one. With a mantissa of 3 bits (53 in the code) 8 and 9 are the same
float64, so that `max` and `min` meet integers they cannot tell apart. *Services*: two routes are the one
that answers and one that could get in its way; two folders are enough for every conflict, which is
one of two patterns: one given twice, two that overlap by wildcards and neither above the
other, the empty prefix and the pattern of the routes; one prefix has a blank, one the name of a
route. Two databases are the one asked for and another one. Neither looks at the server, so that
the run has the databases beside one route and one folder only (`MuchOfOne`, a state constraint).
`MaxLines`, `MaxDepth`, `MaxDefinitions`, `MaxObjects`, `MaxLength` and `MaxCalls` are the only
counters bounded by a guard; the others
(`StackSize`, `MaxFrames`, `GlobalSize`, `IntLimit`) are sizes the program has.

Deadlock is allowed where the system stops: a run that ended, a compilation that is complete,
a session after its last line, a text that is read, a memory that is full, a program that has
panicked. `Scoping` never stops and is checked for it.

**Programs left out.** A `return` outside of functions, and an `if` whose branch does not end in
an expression, compile to code that does not verify. The grammar has neither; the second is
the finding below, the first makes `Run` push to slot -1 (`vm/vm.go:206-212`).

**Where the engines differ.** `engines` found, and `MCEngines` lists and leaves out, the constructs
for which the VM and the evaluator give different results. Nothing in the repository says which
one is meant, so none is a finding:

* a function without statements gives null, and in the evaluator no value at all; so does a body
  that ends in a `var` or a loop;
* a `return` inside an expression (`1 + if (x) { return 2 }`) is an operand to the evaluator;
* a missing argument is an error of the VM and a panic of the evaluator, a surplus one an error
  of the VM and nothing to the evaluator, which also goes on with a loop whose body failed;
* a `var` for a name that is already declared is an error of the evaluator, and a name that is not
  declared anywhere is one only when it is reached; the compiler looks names up first;
* the evaluator has `%` of floats and `!=` of strings, the VM `<=` and `>=` of floats; the VM
  panics on `% 0`, the evaluator goes through `float64`, where that is a NaN;
* for the same reason `%` of integers that a `float64` does not hold exactly, those beyond 2^53, may
  have another result in the evaluator: `9007199254740993 % 2` is 1 in the VM and 0 there;
* Booleans a builtin made are equal to literals by value in the evaluator, by pointer in the VM;
* assignments and attributes mean nothing to the evaluator: its operator `<<` is one that the
  parser never makes.

**Fairness.** Only `Session` has a liveness property, `LineAnswered`, under weak fairness of
`Proceed`, the steps of compiling and running a line. They are the loops of one goroutine that
waits for nothing, so they go on as long as they can; nothing makes a user enter a line.
`LineAnswered` is about lines whose own loops end: the `while` among them counts up to the
largest integer, so that a jump to the wrong place, a lost increment or a stuck compilation
would leave it unanswered.

### Where the code and its description disagree

* `README.MD:20` promises short-circuit evaluation. The compiler emits both operands and then
  `OpAnd` / `OpOr` (`compiler/compiler.go:125`); a function on the right runs, with its effects
  and its errors, whatever the left operand is. Run `short_circuit`.
* `docs/syntax.MD` describes `if` and assignment as statements that can be put together. A
  branch that ends in an assignment leaves no value, yet the statement around the `if` pops
  one; at top level the VM reads `stack[-1]` and the process dies. Run `conditional_assignment`.

The run `documented_examples` reads six programs of the repository one after the other; its
last state names the five that are not read as they are meant. The sixth, `a==10 and a`, is
read right.

* `code_examples/types.zum` declares seven variables without semicolons. `parseVarStatement` passes
  over everything up to a semicolon (`parser/parser.go:225`): most of them are never declared, and
  no error is reported.
* `evaluator/evaluator_test.go:661` has a semicolon behind an import; the parser leaves it for
  the next statement and reports an error. The test does not look at the parser's errors.
* `docs/syntax.MD:94` lists `not`; the lexer knows no such word (`token/token.go:67`).
* `docs/syntax.MD:63` joins comparisons with `and`; `<=` and `>=` are not in `precedences`
  (`parser/parser.go:12`), so they bind weaker than `and`.
* The character behind `<=` is lost (`lexer/lexer.go:46`, `:157`); a blank there hides it.

A difference between two lines of text has no run: `createSimpleServer.zum`, `htmlOnZumbra.zum`
and `htmlPageOnZumbra.zum` call `registerRoute` with two arguments; the code wants three
(`http_builtins.go:133`), and its message says two.

## 4. What is proved

`ScopingProofs`, for all finite or infinite sets of names, lists of builtins, parameter lists
and nesting depths, from `ScopingAssumption` alone:

* `TypeCorrect`, `CapturesAlwaysLoadable`, `SymbolsAlwaysLoadable`, `CapturesOnlyOnce`, `NoSharing`
  (`SlotsDistinct`).
* The invariant `Inv` is these together and `CapturedNamesHeld`: a captured name never leaves
  the store. Without it `CapturedOnce` is not inductive, since `Resolve` would look past the
  table and capture the name again. `CapturedOnce` in turn needs `SymbolsLoadable`: a free symbol
  points at the capture of its own name. `UseInv` is the heart: `Resolve` changes all the
  tables between the use and the declaration at once, each by the symbol of the one outside it.

* `ImplementsLexicalScoping`, the refinement `ResolvesLexically`: every name means the innermost
  declaration around it, however many functions pass the capture on.
* What a captured symbol means is a function of the whole chain, defined from the outside in
  (`Sources`, a `CHOOSE`). That there is such a function is proved by way of the least number
  of tables for which there would be none (`TracedExists`, `SourcesIs`).
* The inductive invariant is `FreeRight` (`CapturesLeadHome`): a captured name leads to the innermost
  declaration of that name around it. That names resolve to what is loadable says nothing of
  which declaration they reach; and a later `Define` of the name in a function that has already
  captured it must not change where the captures of the functions inside of it lead, which holds
  because `FreeSymbols` only grows and `Sources` of what was there is kept (`SourcesKept`).
* Each action then maps to its step of `LexicalScopes`: the environment is `Rows` of the tables.

`CompilerProofs`, for any programs, files and nesting of functions, conditionals, loops and
imports, from `TreesAssumption`, `FilesAssumption` and `CodeAssumption`:

* `TypeCorrect`, `LastAccurate` (`LastInstructionAccurate`), `JumpsIntact` (`PendingJumpsIntact`),
  `ImportsAlwaysRelative` (`ImportsRelative`) and `NoneInsideItself` (`NoImportInsideItself`).
* The compiler remembers two instructions. `removeLastPop` makes the one before the last the
  last and leaves no second one to fall back on, so that a second removal at once would cut
  the code at the wrong place. That it never happens is a fact about what is left to do, not
  about the code: a task that computes a value is followed by one that emits (`Followed`), and
  whenever the next task emits nothing, the last instruction may still be removed and every
  loop to be closed starts before the end of the code (`Settled`). That is preserved only with the
  whole of `Sound`: every task is tied to the code of the function it belongs to, which is found
  by counting the ends of functions behind it (`Depth`).
* A pending jump lies where the compiler will look for it, since what is cut off or overwritten is
  one instruction, an `OpPop`, at the end (`Ends`), and every instruction is there with all its
  operand bytes (`Whole`): a cut or a patch at the start of one instruction leaves the starts
  of the others.
* `SoundImports` follows the chain of open imports: the directory each will restore is that of
  the next one out (`RightDir`), and their files are all in `importedFiles`, no two the same. The
  latter is not inductive by itself: what refuses a file is `importedFiles`, and only with the
  former is every file being compiled in it.
* `StoresDeclared`: with n slots of the global table given to names, every `OpSetGlobal` in the
  code of the open functions, in the pool and in what is left to emit names one of the n, and
  every instruction has as many operands as it reads (`Declared`). What is still to be emitted
  must be part of it: a `var` resolves its name long before the store is emitted. No step takes
  a slot back (`Widens`), so that what was stored into stays declared.
* Assumed of trees: what their fields hold (`FieldsFit`), literals of the right type among it,
  as the parser makes them when it reports no error; and that `FullPath` leads to a file, be it an unreadable one. TLC evaluates
  both for the programs of the runs `compiler`, `session` and `engines`, all nodes of them
  (`SyntaxNodes`).

`StackMachineProofs`, for all verified programs, any stack size and any number of frames, from
`CodeAssumption` and `StackAssumption`; that the program is verified is the conjunct
`ProgramSound` of `Init`. The lemmas are in `FrameChains`, about frames as a value, since the VM
needs them too:

* `TypeCorrect`, `OperandsAlwaysAboveLocals`, `NeverUnderflows`, `CallersKeepTheirValues`
  (`FramesAbut`), `AlwaysEndsClean` (`EndsClean`) and `PanicOnlyAtEntry`
  (`LocalsBeyondStackOnlyAtEntry`).
* The invariant is `SoundChain`: it ties each frame to the height the verifier computed at its
  program counter, each base to the frame below, and `sp` to the top frame. `OperandsAboveLocals` alone is not inductive: after a return
  the caller's values are where they should be only because its frame has abutted on the
  callee's all along. What `Heights` computes by recursion over the code is not needed, only
  that it satisfies `SoundAt`, which `ProgramSound` says.

`VMProofs`, for all compiled programs, any `StackSize`, `MaxFrames`, `GlobalSize` and width of
integers:

* `TypeCorrect`, `SitsOnCallee` (`FrameSitsOnCallee`), `KeepsCallersValues` (`CallersValuesKept`), and
  `NeverOutOfRange`: no program that verifies pops below its frame or names a constant, slot,
  capture or builtin that is not there. `StackMachine` cannot say the last: captures and
  constants are values.
* `ImplementsDiscipline`, the refinement `KeepsDiscipline`: each step of the VM is a step of
  `StackMachine` or none, so that what is proved of the machine without values holds of the VM.
* The invariant `Inv` is that the frames without their closures are a `SoundChain`, that bases
  rise (`Rising`: a base is above that of every frame below), that each frame sits on its callee,
  and that there is a set of sound values, closed under taking what is inside of a value, to
  which all that the stack, the globals and the constants hold belongs. None of them is
  inductive alone: the chain stays sound only if what is called is a closure of verified code;
  that a value of the stack is one needs a set that survives indexing an array whose elements
  came from anywhere; that set is kept only while the operands are where the chain says. The
  set grows with what each step makes, so it is under an existential quantifier and not a
  constant.
* For code of which is only known that its instructions have their operands, the session needs
  less than `Inv`, and it holds (`GuardedNext`, `GuardedTypes`, `GlobalWrites`): what such code does
  wrong ends the run, the stack, the frames and the globals keep their types, no closure appears
  but of the functions there were, and a global changes only by an `OpSetGlobal` that names it
  (`Guarded`). It is not a weakening of `Inv` but for programs `Inv` says nothing of.
* Assumed: `ProgramsAssumption`, that programs verify, that their constants are numbers, strings and
  functions, and that a global's index is below `GlobalSize` (2 bytes in the code, and 65536
  slots). That the compiler emits such programs is checked by the runs `compiler` and `session`
  (`EmittedCodeVerifies`, `RunsVerifiedCode`). `ResultsAssumption`: a builtin makes no closure;
  it may hand back those it was given (`HandedBack`). Both are evaluated by TLC for the instances.

`SessionProofs`, for any lines, in any order and number, those that do not parse, do not compile
or fail while they run included, from `SessionAssumption`, `LinesAssumption` (the compiler's
assumptions of trees and files, and that the integers in the lines fit their width),
`MachineAssumption` (the VM's, of results of builtins and sizes) and `CodeAssumption`:

* `TypeCorrect` (`TypeOK`), `ConstantsKept` (`ConstantsStay`) and `DeclaredOnly` (`StoredIsDeclared`).
* The lines are not assumed to compile to code that verifies: some do not (section 3, the
  assignment in a branch of an `if`). So the machine's part is `Guarded` and not the `Inv` of `VMProofs`.
* The invariant `Inv` says what of one line the next one builds on: the functions in the kept pool
  store only into slots of the kept table; the globals hold values of a set closed under taking
  what is inside of a value, whose closures are all of such functions, a function of an earlier
  line called by a later one being how an old store happens late. While a line compiles it
  is the compiler's `Inv`, `SoundConstants` and `Declared`, and that the pool has `kept` as its prefix;
  while it runs, `Guarded`. `StoredIsDeclared` alone is not inductive, since what a run stores
  depends on code compiled lines ago; nor is it enough that the code was right when it was
  compiled, since a line that does not compile leaves the table with what it defined until then.
  Slots are never taken back, so that what fit a smaller table fits a larger one (`MoreSlots`).
* `Session` composes the compiler and the VM as instances, and what is proved of them comes as
  instances of the proof modules. The definitions in both are the same, but not to the provers:
  `CompilerSteps` and `MachineSteps` say so of the next-state relations, operator by operator.

`LexerProofs`, for any text, a sequence of strings of any length, from `LexerAssumption` (letters,
digits and the characters with a meaning of their own are different ones):

* `LongestAlways` (`LongestMatch`) and `NoneLost` (`NothingLost`): no order of the branches of `NextToken` ends
  a token early, and no character is in two tokens or lost, but in white space, in comments, or behind a `<=`.
* The invariant `LexerInv`: each token is what is read at its place (`SoundToken`), they lie in the order
  of their places without overlapping, and what is before the next place is in one of them or may be passed
  over (`Covered`). `NothingLost` speaks of the end of the text and of all tokens at once; `Covered` is
  what a single step can keep.
* `NextToken` calls itself after a comment, and white space is skipped in a loop: both are recursive functions on places,
  and nothing is known of such a function before there is one. That there is one, and what it
  is at its places, is proved from the least number of characters up to the end for which there
  would be none (`LeastOf`), since the induction theorems of the library cannot be used.
* `Reader` takes no step of the lexer but `LexerNext`, and what is proved holds of its tokens too.

`BuiltinsProofs`, of arrays and dicts, for any values (references among them), any set of backing arrays
and any bounds, from `ArraysAssumption` and, for the searches, `RoundedAssumption` (the `float64` of an
integer is a number):

* `TypeCorrect`, `BackingsOwned` (`OwnBacking`) and `CollectionsImplemented`, the whole refinement:
  every behaviour of slices in memory is one of the abstract collections.
* The inductive invariant is `TypeOK /\ OwnBacking`. Neither is inductive alone: that a write in
  place changes one array only needs that it owns its cells, and that it still does afterwards
  needs that the fresh backing array is nobody's. Lemmas say what `Create`, `Move` and a write in
  place do to what is seen of every array (`Created`, `Moved`, `WrittenInPlace`); each call then
  maps to its step of `Collections`. Operators of the library that both modules use are
  different symbols in the instance, so that the proofs unfold them on both sides.
* `SearchesRight` (`ReadsRight`): nothing is assumed of the rounding, not even that it keeps the order,
  since `max` and `min` compare what is rounded and that is all that is promised. The search is a recursive function
  of the place it has come to (`Leads`); that it exists, and that up to each place its value is an element
  which is ahead of those before, is proved from the least place where it would not be.

`BuiltinsProofs`, of server and database, for any routes, folders, requests, databases, tables and rows, from
`NoneAssumption`:

* `LatestDatabaseOnly`: the pool is nil or that of the database asked for last.
* `FirstTrySafe` (`PanicsOnlyOnRetry`): the invariant `ServerInv` follows the first server call pattern by
  pattern (`MountedUpTo`): what is in the mux is the first k patterns, what is left are the others,
  so that what the next one conflicts with is a folder given before it. The theorem leaves open what
  wildcards do; without any, `PlainConflict` says, only equal patterns conflict, which are a folder given
  twice or the empty prefix.
* `NoSecondTry` (`ServesOnFirstTry`): a call that has mounted all and returned leaves the pattern of the routes in the mux,
  and a further call, whatever its folders, ends with that pattern (`EndsInRoot`), which is refused
  (`RootRefused`). It is proved only; no run has it as a property.
* `AnswersAlwaysKept`: every step but a server call's leaves the routes that were there, and their
  order (`RoutesKept`), so that the first match of a request stays the first one.

Only model-checked:

* `EmittedCodeVerifies` and `RunsVerifiedCode`, that what the compiler emits verifies. It does not
  hold for every tree that `FieldsFit` admits: a branch of an `if` that leaves no value, a `return`
  outside of functions, and operands beyond their bytes break it. As a theorem it would need a
  condition on whole trees, and it is an induction over them.
* What parser, reader and evaluator compute (`NothingMissing`, `BracketsMatch`, `ReadsWhatIsWritten`,
  `EnginesAgree`): it depends on the shape of texts and trees, an induction over data the
  provers here do not have, and the modules are written with `RECURSIVE` operators.
* The liveness of the session (`LineAnswered`), which with `ENABLED` is out of the prover's reach.

## 5. What is not modelled

| part | why |
|---|---|
| imports of the evaluator | they parse a file in the middle of a run; the compiler's are modelled |
| `sum`, `first`, `last`, `sizeOf`, `getFromDict` | read one object and change nothing |
| builtins on strings and numbers | conversions, without state |
| `get`, `serveFile`, `mysqlShowTables`, `mysqlShowTableColumns` | one read of the network, a file or the database |
| JWT, mail, messages, date, environment, files, `input`, `show` | one call to a library or to the system each; the only state is the secret key of `createToken` |
| transpiler, runtime, generated build | text generation, and helpers in that text which repeat the builtins |
| terminal input of the REPL | counts braces until a line is complete |

Eight hazards of `PROJECT.json` have no property. Operands that do not fit their bytes
(`code/code.go:127`) need functions of hundreds of locals, or a smaller byte than the code has.
The comparison by pointer (`vm/vm.go:510`) and two places where the evaluator goes its own way
(`evaluator/evaluator.go:594`, `:491`) are differences between engines of which nothing says
which is meant; they are listed in section 3. The others are modelled as the code has them, and no
document promises more: what a local is before its first assignment (`vm/vm.go:756`), the crash of
the REPL after a line without a value (`repl/repl.go:74`), braces that the end of a file closes
(`parser/parser.go:418`), and the rank of an attribute (`parser/parser.go:99`). Not in that list, and
without a property too: the secret key (`jwt_builtins.go:32`), one variable with one assignment, and the rows
of a query that broke off (`mysql_builtins.go:223`), which the model lets be any of them.

## 6. Plan

Done: lexer, its proofs, and parser; scoping, its proofs and that of its refinement; code format; compiler and
its proofs; stack machine and VM, their proofs and that of the refinement between them; session and
its proofs; evaluator and its agreement with compiled code; arrays and dicts with the proofs of their
refinement and their searches; server and database with their proofs.

Next, in this order:

1. **Small operands.** The `compiler` run with `OneByte` and `TwoBytes` small, so that the silent
   truncation of `Make` meets locals, captures, constants and jumps.
2. **Heap.** `Arrays` under the VM's stack, so that programs and not single calls share arrays.
3. **What code verifies.** A condition on trees, met by all that the parser makes but the trees of
   section 3, under which `EmittedCodeVerifies` holds; then its proof along the tasks of `Compiler`.
