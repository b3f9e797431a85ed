----------------------------- MODULE MCCompiler -----------------------------
(***************************************************************************)
(* The compiler on every program of a small grammar: a global x, then one  *)
(* or two statements over it.  Expressions put a conditional, a function   *)
(* or an operator inside one another; functions declare, capture, assign   *)
(* and return early; loops stand alone, in functions and in branches.      *)
(*                                                                         *)
(* Two kinds of text are left out, because the compiler turns them into    *)
(* code that is not sound: a branch of a conditional whose last statement  *)
(* is not an expression (see ConditionalsRun in MCSession), and a return   *)
(* outside of functions.                                                   *)
(***************************************************************************)
EXTENDS Compiler, SyntaxNodes, Verifier

MCNames == {"x", "y", "f", "a", "sizeOf"}
MCBuiltins == <<"sizeOf">>

One == IntegerLiteral(1)
X   == Identifier("x")
Y   == Identifier("y")

Say(e)     == ExpressionStatement(e)
Call(f)    == CallExpression(f, <<>>)
Fct(body)  == FunctionLiteral("", <<>>, body)

\* Expressions that need no name but x.
Simple == {One, X, InfixExpression(X, "<", One), InfixExpression(X, "??", One),
           PrefixExpression("-", X), PrefixExpression("~", X), BooleanLiteral(TRUE),
           FloatLiteral, CallExpression(Identifier("sizeOf"), <<StringLiteral("s")>>),
           AttributeAccess(X, "hour"), IndexExpression(ArrayLiteral(<<X, One>>), One),
           DictLiteral(<<[key |-> StringLiteral("s"), value |-> X, rank |-> 2],
                         [key |-> One, value |-> One, rank |-> 1]>>),
           DictLiteral(<<[key |-> One, value |-> X, rank |-> 1],
                         [key |-> One, value |-> Call(Fct(<<Say(X)>>)), rank |-> 1]>>)}

\* Conditionals in conditionals, in every position.
If(e) == {IfExpression(c, <<Say(e)>>, alt) :
             c \in {X, e}, alt \in {<<>>, <<BlockStatement(<<Say(e)>>)>>}}

Nested == UNION {If(e) : e \in {One, Call(X)} \cup If(X)}

\* What a function body can be made of; y is a local, x is not.
BodyStatements ==
    {Say(One), Say(Y), VarStatement("y", X), AssignStatement("y", One),
     AssignStatement("x", Y), ReturnStatement(Y),
     Say(IfExpression(X, <<ReturnStatement(One)>>, <<>>)),
     WhileStatement(Y, <<AssignStatement("y", X)>>),
     WhileStatement(X, <<VarStatement("x", Y), ReturnStatement(X)>>),
     VarFunction("f", <<"a">>, <<Say(CallExpression(Identifier("f"), <<Y>>))>>),
     Say(Fct(<<Say(Fct(<<AssignStatement("x", Y), Say(Y)>>))>>))}

Bodies == {<<>>} \cup {<<s>> : s \in BodyStatements}
    \cup {<<VarStatement("y", One), s>> : s \in BodyStatements}
    \cup {<<VarStatement("y", One), s, t>> : s, t \in BodyStatements}

Expressions == {Fct(b) : b \in Bodies} \cup Nested \cup Simple

Statements(e) == {Say(e), VarStatement("x", e), AssignStatement("y", e),
                  WhileStatement(e, <<Say(e)>>),
                  Say(InfixExpression(e, "and", IfExpression(X, <<Say(e)>>, <<>>)))}

GrammarTrees ==
    {Program(<<VarStatement("x", One), s>>) : s \in UNION {Statements(e) : e \in Expressions}}

-----------------------------------------------------------------------------
(* Imports: main.zum and a.zum lie in /, b.zum and c.zum in /lib.  a and b *)
(* import each other; b imports c; main.zum can be imported like any other *)
(* file.                                                                   *)

Dirs == {"/", "/lib"}

MCFullPath ==
    [dir \in Dirs |->
        [path \in {"main", "a", "lib/b", "../a", "b", "c", "bad"} |->
            CASE dir = "/" /\ path \in {"main", "a", "lib/b", "bad"} -> "/" \o path
              [] dir = "/lib" /\ path = "../a"                       -> "/a"
              [] dir = "/lib" /\ path \in {"b", "c"}                 -> "/lib/" \o path
              [] OTHER                                               -> "/nowhere"]]

MCDirOf ==
    [file \in {"/main", "/a", "/lib/b", "/lib/c", "/bad", "/nowhere"} |->
        IF file \in {"/lib/b", "/lib/c"} THEN "/lib" ELSE "/"]

ImportFile(file) ==
    CASE file = "/main" -> Program(<<ImportStatement("a"), Say(Y)>>)
      [] file = "/a" -> Program(<<ImportStatement("lib/b"), VarStatement("y", One)>>)
      [] file = "/lib/b" -> Program(<<ImportStatement("c"), ImportStatement("../a"),
                                      ImportStatement("b"), VarStatement("x", One)>>)
      [] file = "/lib/c" -> Program(<<Say(One)>>)
      [] file = "/bad" -> Unparsable
      [] OTHER -> Unreadable

MCFiles == [file \in DOMAIN MCDirOf |-> ImportFile(file)]

ImportPaths == {"main", "a", "lib/b"}

ImportTrees ==
    {Program(<<s, ImportStatement(p), e, ImportStatement(q)>>) :
        s \in {ImportStatement(path) : path \in ImportPaths \cup {"c", "bad"}}
            \cup {VarFunction("f", <<"a">>, <<ImportStatement(path), Say(Y)>>) : path \in ImportPaths},
        e \in {Say(One), Say(X), Say(Y)},
        p, q \in ImportPaths}

MCTrees == GrammarTrees \cup ImportTrees

MCNodes ==
    NodesOfAll(MCTrees \cup ({MCFiles[file] : file \in DOMAIN MCFiles} \ {Unreadable, Unparsable}))

-----------------------------------------------------------------------------
(* The bytecode of a compiled program is what the VM takes it to be: no    *)
(* instruction finds too little on the stack, control meets at equal       *)
(* heights, and every operand names something there is.                    *)
EmittedCodeVerifies == Compiled => Verified(Scope.instructions, constants, Len(Builtins))
=============================================================================
