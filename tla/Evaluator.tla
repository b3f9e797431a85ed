------------------------------ MODULE Evaluator ------------------------------
(***************************************************************************)
(* evaluator/evaluator.go: the engine that walks the tree.                 *)
(*                                                                         *)
(* Eval(node, env, heap) is the set of results of evaluating a node, a     *)
(* value and the heap it leaves: floats and pointers leave more than one.  *)
(* The heap holds the environments, env is the place of one.  A closure    *)
(* keeps its environment and not, as the VM does, copies of values.        *)
(*                                                                         *)
(* Errors, and the values of return statements, are values here that are   *)
(* handed up.  Two more stand for what does not come back: a Go panic, and *)
(* a loop with more than MaxTurns turns.                                   *)
(*                                                                         *)
(* Import statements are left out.  Eval does nothing with an assignment   *)
(* or an attribute.                                                        *)
(***************************************************************************)
EXTENDS Object, Int64, Float64, TLC

CONSTANTS
    BuiltinNames,   \* the keys of builtinsList
    BuiltinResults, \* what a builtin may make and return, Nil included
    MaxTurns        \* bound: turns of a loop

Function(parameters, body, env) ==
    [type |-> "FUNCTION", parameters |-> parameters, body |-> body, env |-> env]

ReturnValue(v) == [type |-> "RETURN_VALUE", value |-> v]
Panics         == [type |-> "panic"]
Diverges       == [type |-> "diverges"]

Result(v, heap) == [value |-> v, heap |-> heap]

Lost(v) == v \in {Panics, Diverges}

\* if isError(value) { return value }
Then(results, Continue(_)) ==
    UNION {IF Lost(r.value) \/ r.value = Error THEN {r} ELSE Continue(r) : r \in results}

\* What a call of Type() makes of an error's operand.
ErrorAbout(v) == IF v = Nil THEN Panics ELSE Error

-----------------------------------------------------------------------------
(* Environments (object/environment.go).                                   *)

Environment(store, outer) == [store |-> store, outer |-> outer]

\* <<value>>, or <<>> when no environment on the way out has the name.
RECURSIVE Get(_, _, _)
Get(heap, env, name) ==
    CASE env = 0                          -> <<>>
      [] name \in DOMAIN heap[env].store  -> <<heap[env].store[name]>>
      [] OTHER                            -> Get(heap, heap[env].outer, name)

Set(heap, env, name, v) == [heap EXCEPT ![env].store = (name :> v) @@ @]

\* The parameters are set in their order, a later one of the same name over the first.
RECURSIVE SetAll(_, _, _, _)
SetAll(heap, env, names, values) ==
    IF names = <<>> THEN heap
    ELSE SetAll(Set(heap, env, Head(names), Head(values)), env, Tail(names), Tail(values))

-----------------------------------------------------------------------------
(* Operators.                                                              *)

\* A switch on pointers; another Null may have NULL's address.
Truths(v) ==
    CASE v.type = "BOOLEAN" -> {~v.native \/ v.bool}
      [] v = Null           -> {FALSE}
      [] v.type = "NULL"    -> BOOLEAN
      [] OTHER              -> {TRUE}

evalBang(v) ==
    CASE v.type = "BOOLEAN" -> {v.native /\ ~v.bool}
      [] v.type = "NULL"    -> Identical(v, Null)
      [] OTHER              -> {FALSE}

evalPrefix(operator, v) ==
    CASE operator = "!"                        -> {NativeBoolean(b) : b \in evalBang(v)}
      [] operator = "-" /\ v.type = "INTEGER" -> {Integer(Wrap(-v.int))}
      [] OTHER                                 -> {ErrorAbout(v)}

\* int64(math.Mod(float64(a), float64(b))).  The remainder by 0 is NaN, and as an
\* int64 whatever the machine makes of it.
Remainders(a, b) ==
    LET r == Rounded(a)
        s == Rounded(b)
    IN  IF b = 0 THEN {0, Smallest} ELSE {r - s * Quotient(r, s)}

evalIntegerInfix(operator, a, b) ==
    CASE operator = "+"  -> {Integer(Wrap(a + b))}
      [] operator = "-"  -> {Integer(Wrap(a - b))}
      [] operator = "*"  -> {Integer(Wrap(a * b))}
      [] operator = "/"  -> {IF b = 0 THEN Panics ELSE Integer(Wrap(Quotient(a, b)))}
      [] operator = "%"  -> {Integer(n) : n \in Remainders(a, b)}
      [] operator = "<"  -> {NativeBoolean(a < b)}
      [] operator = ">"  -> {NativeBoolean(a > b)}
      [] operator = "<=" -> {NativeBoolean(a <= b)}
      [] operator = ">=" -> {NativeBoolean(a >= b)}
      [] operator = "==" -> {NativeBoolean(a = b)}
      [] operator = "!=" -> {NativeBoolean(a # b)}
      [] OTHER           -> {Error}

evalFloatInfix(operator) ==
    CASE operator \in {"+", "-", "*", "/", "%"}  -> {Float}
      [] operator \in {"<", ">", "==", "!="}     -> {NativeBoolean(b) : b \in BOOLEAN}
      [] OTHER                                   -> {Error}

evalStringInfix(operator, s, t) ==
    CASE operator = "+"  -> {String(s \o t)}
      [] operator = "==" -> {NativeBoolean(s = t)}
      [] operator = "!=" -> {NativeBoolean(s # t)}
      [] OTHER           -> {Error}

\* Booleans are equal by value, unlike in the VM.
objectEquals(v, w) ==
    IF v.type = "BOOLEAN" /\ w.type = "BOOLEAN" THEN {v.bool = w.bool} ELSE Identical(v, w)

evalInfix(operator, v, w) ==
    CASE operator = "and" -> {NativeBoolean(b /\ c) : b \in Truths(v), c \in Truths(w)}
      [] operator = "or"  -> {NativeBoolean(b \/ c) : b \in Truths(v), c \in Truths(w)}
      [] Nil \in {v, w}   -> {Panics}
      [] v.type = "INTEGER" /\ w.type = "INTEGER" -> evalIntegerInfix(operator, v.int, w.int)
      [] v.type = "STRING" /\ w.type = "STRING"   -> evalStringInfix(operator, v.str, w.str)
      [] {v.type, w.type} \in {{"FLOAT"}, {"INTEGER", "FLOAT"}} -> evalFloatInfix(operator)
      [] operator = "==" -> {NativeBoolean(b) : b \in objectEquals(v, w)}
      [] operator = "!=" -> {NativeBoolean(~b) : b \in objectEquals(v, w)}
      [] OTHER           -> {Error}

evalIndex(v, index) ==
    CASE v.type = "ARRAY" /\ index.type = "INTEGER" ->
            IF index.int \in 0..(Len(v.elements) - 1) THEN v.elements[index.int + 1] ELSE Null
      [] v.type = "DICT" /\ Dictable(index) ->
            LET hits == {p \in v.pairs : SameKey(p.key, index)}
            IN  IF hits = {} THEN Null ELSE (CHOOSE p \in hits : TRUE).val
      [] v.type \in {"ARRAY", "DICT"} -> ErrorAbout(index)
      [] OTHER                        -> ErrorAbout(v)

-----------------------------------------------------------------------------
(* The tree.                                                               *)

RECURSIVE Eval(_, _, _)

\* From the first statement on, until one returns or fails; r is the result so far.
RECURSIVE EvalStatements(_, _, _)
EvalStatements(statements, env, r) ==
    IF statements = <<>> \/ Lost(r.value) \/ r.value.type \in {"RETURN_VALUE", "ERROR"}
    THEN {r}
    ELSE UNION {EvalStatements(Tail(statements), env, s) :
                   s \in Eval(Head(statements), env, r.heap)}

\* evalExpressions; the values come as the elements of an array.
RECURSIVE EvalAll(_, _, _)
EvalAll(expressions, env, heap) ==
    IF expressions = <<>> THEN {Result(Array(<<>>), heap)}
    ELSE Then(Eval(Head(expressions), env, heap), LAMBDA first :
           Then(EvalAll(Tail(expressions), env, first.heap), LAMBDA others :
             {Result(Array(<<first.value>> \o others.value.elements), others.heap)}))

\* The pairs of a literal in one order; dict is what has been made of those before.
RECURSIVE EvalPairs(_, _, _, _)
EvalPairs(pairs, env, heap, dict) ==
    IF pairs = <<>> THEN {Result(Dict(dict), heap)}
    ELSE Then(Eval(Head(pairs).key, env, heap), LAMBDA key :
           IF ~Dictable(key.value) THEN {Result(ErrorAbout(key.value), key.heap)}
           ELSE Then(Eval(Head(pairs).value, env, key.heap), LAMBDA val :
                  EvalPairs(Tail(pairs), env, val.heap,
                            {p \in dict : ~SameKey(p.key, key.value)}
                              \cup {[key |-> key.value, val |-> val.value]})))

\* An error of the body does not end the loop.
RECURSIVE EvalWhile(_, _, _, _)
EvalWhile(node, env, r, turns) ==
    Then(Eval(node.condition, env, r.heap), LAMBDA condition :
      UNION {CASE ~truth           -> {Result(r.value, condition.heap)}
               [] turns = MaxTurns -> {Result(Diverges, condition.heap)}
               [] OTHER            ->
                     UNION {IF Lost(s.value) \/ s.value.type = "RETURN_VALUE" THEN {s}
                            ELSE EvalWhile(node, env, s, turns + 1) :
                              s \in Eval(node.body, env, condition.heap)} :
             truth \in Truths(condition.value)})

\* NewEnclosedEnvironment.
Enclosed(heap, env) == Append(heap, Environment(<<>>, env))

unwrapReturnValue(v) == IF v.type = "RETURN_VALUE" THEN v.value ELSE v

\* Missing arguments are an index out of range, further ones are ignored.
applyFunction(fct, args, heap) ==
    CASE fct.type = "BUILTIN" ->
            {Result(IF v = Nil THEN Null ELSE v, heap) : v \in BuiltinResults \cup HandedBack(args)}
      [] fct.type = "FUNCTION" /\ Len(args) >= Len(fct.parameters) ->
            LET extended == SetAll(Enclosed(heap, fct.env), Len(heap) + 1, fct.parameters, args)
            IN  {Result(unwrapReturnValue(r.value), r.heap) :
                    r \in Eval(fct.body, Len(extended), extended)}
      [] fct.type = "FUNCTION" -> {Result(Panics, heap)}
      [] OTHER                 -> {Result(ErrorAbout(fct), heap)}

Values(values, heap) == {Result(v, heap) : v \in values}

Literals == {"IntegerLiteral", "FloatLiteral", "StringLiteral"}

Eval(node, env, heap) ==
    CASE node.kind \in {"Program", "BlockStatement"} ->
            EvalStatements(node.statements, env, Result(Nil, heap))
      [] node.kind = "ExpressionStatement" -> Eval(node.expression, env, heap)
      [] node.kind = "ReturnStatement" ->
            Then(Eval(node.value, env, heap), LAMBDA r :
              {Result(ReturnValue(r.value), r.heap)})
      [] node.kind = "VarStatement" ->
            IF Get(heap, env, node.name) # <<>> THEN {Result(Error, heap)}
            ELSE Then(Eval(node.value, env, heap), LAMBDA r :
                   {Result(Nil, Set(r.heap, env, node.name, r.value))})
      [] node.kind = "WhileStatement" -> EvalWhile(node, env, Result(Nil, heap), 0)
      [] node.kind \in Literals -> {Result(node.literal, heap)}
      [] node.kind = "Boolean" -> {Result(NativeBoolean(node.boolean), heap)}
      [] node.kind = "PrefixExpression" ->
            Then(Eval(node.right, env, heap), LAMBDA r :
              Values(evalPrefix(node.operator, r.value), r.heap))
      [] node.kind = "InfixExpression" ->
            Then(Eval(node.left, env, heap), LAMBDA l :
              Then(Eval(node.right, env, l.heap), LAMBDA r :
                Values(evalInfix(node.operator, l.value, r.value), r.heap)))
      [] node.kind = "IfExpression" ->
            Then(Eval(node.condition, env, heap), LAMBDA c :
              UNION {CASE truth                   -> Eval(node.consequence, env, c.heap)
                       [] ~truth /\ node.alternative # <<>> -> Eval(node.alternative[1], env, c.heap)
                       [] OTHER                   -> {Result(Null, c.heap)} :
                     truth \in Truths(c.value)})
      [] node.kind = "Identifier" ->
            LET found == Get(heap, env, node.name)
            IN  {Result(CASE found # <<>>                 -> found[1]
                          [] found = <<>> /\ node.name \in BuiltinNames -> Builtin(node.name)
                          [] OTHER                        -> Error, heap)}
      [] node.kind = "FunctionLiteral" -> {Result(Function(node.parameters, node.body, env), heap)}
      [] node.kind = "CallExpression" ->
            Then(Eval(node.function, env, heap), LAMBDA f :
              Then(EvalAll(node.arguments, env, f.heap), LAMBDA args :
                applyFunction(f.value, args.value.elements, args.heap)))
      [] node.kind = "ArrayLiteral" -> EvalAll(node.elements, env, heap)
      [] node.kind = "IndexExpression" ->
            Then(Eval(node.left, env, heap), LAMBDA l :
              Then(Eval(node.index, env, l.heap), LAMBDA i :
                {Result(evalIndex(l.value, i.value), i.heap)}))
      [] node.kind = "DictLiteral" ->
            UNION {EvalPairs([i \in DOMAIN node.pairs |-> node.pairs[order[i]]], env, heap, {}) :
                      order \in Permutations(DOMAIN node.pairs)}
      [] OTHER -> {Result(Nil, heap)}

\* The results of a program in a new environment.
EvalProgram(program) ==
    {unwrapReturnValue(r.value) :
        r \in Eval(program, 1, <<Environment(<<>>, 0)>>)}
=============================================================================
