----------------------------- MODULE MCSession -----------------------------
(***************************************************************************)
(* Sessions over a handful of lines, entered in any order and repeated:    *)
(* declarations, a function that makes functions and captures, calls of    *)
(* it, a loop, lines that do not compile after having declared or          *)
(* captured something, lines that fail when they run, an empty line.       *)
(***************************************************************************)
EXTENDS Session, SyntaxNodes

MCNames    == {"x", "y", "f", "a", "sizeOf"}
MCBuiltins == <<"sizeOf">>
NoFullPath == [dir \in {"/"} |-> <<>>]
NoDirOf    == <<>>
NoFiles    == <<>>

MCNodes == NodesOfAll(Lines)

MCBuiltinResults == {Nil, Integer(1), OtherBoolean(FALSE)}

One == IntegerLiteral(1)
X   == Identifier("x")
Y   == Identifier("y")

Say(e) == ExpressionStatement(e)
Call(f, args) == CallExpression(f, args)
Line(s) == Program(<<s>>)

MCLines ==
    {Program(<<>>),
     Line(VarStatement("x", One)),
     Line(Say(InfixExpression(X, "+", One))),
     \* var f << fct(a) { var y << a; fct() { x << y; y } }
     Line(VarFunction("f", <<"a">>,
            <<VarStatement("y", Identifier("a")),
              Say(FunctionLiteral("", <<>>, <<AssignStatement("x", Y), Say(Y)>>))>>)),
     Line(Say(Call(Call(Identifier("f"), <<IntegerLiteral(3)>>), <<>>))),
     Line(AssignStatement("x", Call(Identifier("sizeOf"), <<X>>))),
     Line(WhileStatement(InfixExpression(X, "<", IntegerLiteral(3)),
                         <<AssignStatement("x", InfixExpression(X, "+", One))>>)),
     \* var y << undefined
     Line(VarStatement("y", Identifier("a"))),
     \* var y << fct(a) { fct() { a << x } }
     Line(VarStatement("y", FunctionLiteral("y", <<"a">>,
            <<Say(FunctionLiteral("", <<>>, <<AssignStatement("a", X)>>))>>))),
     Program(<<VarStatement("y", PrefixExpression("-", BooleanLiteral(TRUE))), Say(Y)>>),
     Line(Say(Y))}

-----------------------------------------------------------------------------
(* What the documentation says of whole programs.                          *)

ShortCircuitLines ==
    {Program(<<VarStatement("x", One),
               VarFunction("f", <<>>, <<AssignStatement("x", IntegerLiteral(3)),
                                        Say(BooleanLiteral(TRUE))>>),
               Say(InfixExpression(left, operator, Call(Identifier("f"), <<>>)))>>) :
        left \in {BooleanLiteral(b) : b \in BOOLEAN}, operator \in {"and", "or"}}

\* "logical operators with proper short-circuit evaluation": the right operand,
\* which sets x to 3, is evaluated when the left one leaves the result open.
ShortCircuits ==
    phase = "run" /\ status = "done" =>
        LET test == entered[1].statements[3].expression
        IN  globals[0] = Integer(IF test.left.boolean = (test.operator = "and") THEN 3 ELSE 1)

ConditionalLines ==
    {Program(<<VarStatement("x", One),
               Say(IfExpression(InfixExpression(X, op, One),
                                <<AssignStatement("x", IntegerLiteral(2))>>, <<>>))>>) :
        op \in {"==", "<"}}

\* An assignment that an if makes conditional does not end the process.
ConditionalsRun == phase # "crashed"
=============================================================================
