----------------------------- MODULE MCEngines -----------------------------
(***************************************************************************)
(* benchmark/main.go: one program for either engine, the compiler and the  *)
(* VM or the evaluator.  The programs put the operators on every two kinds *)
(* of values, and functions with conditionals, early returns, captures     *)
(* through several functions, recursion and loops in every place a value   *)
(* can stand.                                                              *)
(*                                                                         *)
(* The engines are meant for one language, and differ in it.  Left out are *)
(*   - assignments, attributes (the evaluator has none), a var for a name  *)
(*     that is declared farther out (an error there);                      *)
(*   - names declared nowhere or after the function that uses them (the    *)
(*     compiler looks for them before the program runs);                   *)
(*   - a return inside of an expression; the value of a loop, of an empty  *)
(*     body, and of a block that ends in a loop or a var; calls with too   *)
(*     many or few arguments; errors in the body of a loop;                *)
(*   - error objects and Booleans made by builtins;                        *)
(*   - % of a float or by 0, or of integers that a float64 does not hold   *)
(*     exactly: the evaluator rounds them before (MantissaBits), the VM    *)
(*     does not; <= and >= of floats, != of strings.                       *)
(***************************************************************************)
EXTENDS Session, SyntaxNodes

E == INSTANCE Evaluator WITH BuiltinNames <- ToSet(Builtins), MaxTurns <- 3, MantissaBits <- 2

MCNames    == {"x", "f", "g", "a", "b", "c", "y", "sizeOf"}
MCBuiltins == <<"sizeOf">>
NoFullPath == [dir \in {"/"} |-> <<>>]
NoDirOf    == <<>>
NoFiles    == <<>>

MCNodes == NodesOfAll(Lines)

MCBuiltinResults == {Nil, Integer(1)}

Num(n) == IntegerLiteral(n)
Id(s)  == Identifier(s)
A == Id("a")
B == Id("b")
X == Id("x")

Say(e)      == ExpressionStatement(e)
Op(l, o, r) == InfixExpression(l, o, r)
Fct(params, body) == FunctionLiteral("", params, body)
Call(f, args)     == CallExpression(f, args)
If(c, e1, e2) == IfExpression(c, <<Say(e1)>>, <<BlockStatement(<<Say(e2)>>)>>)
Unless(c, s)  == Say(IfExpression(c, <<s>>, <<>>))
Return(e)     == ReturnStatement(e)

-----------------------------------------------------------------------------
(* Operators.                                                              *)

ArrayXA == ArrayLiteral(<<X, StringLiteral("s"), Num(0)>>)
DictXA  == DictLiteral(<<[key |-> StringLiteral("s"), value |-> X, rank |-> 2],
                         [key |-> Num(0), value |-> BooleanLiteral(FALSE), rank |-> 1]>>)

Operands == {Num(0), Num(3), PrefixExpression("-", X), X, BooleanLiteral(TRUE), FloatLiteral,
             StringLiteral("s"), Id("sizeOf"), Call(Id("sizeOf"), <<X>>),
             IfExpression(BooleanLiteral(FALSE), <<Say(X)>>, <<>>), ArrayXA, DictXA, Fct(<<>>, <<Say(X)>>)}

Infixes == {"+", "-", "*", "/", "<", ">", "==", "and", "or"}

Floating(e) == e.kind = "FloatLiteral"

Written(e) == e.kind = "StringLiteral"

OperatorExpressions ==
    {Op(l, o, r) : l, r \in Operands, o \in Infixes}
      \cup {Op(l, "!=", r) : l, r \in {e \in Operands : ~Written(e)}}
      \cup {Op(l, o, r) : l, r \in {e \in Operands : ~Floating(e)}, o \in {"<=", ">="}}
      \cup {Op(l, "%", r) : l, r \in {e \in Operands \ {Num(0)} : ~Floating(e)}}
      \cup {PrefixExpression(o, e) : o \in {"-", "!"}, e \in Operands}
      \cup {IndexExpression(l, i) : l, i \in Operands}
      \cup {Call(e, <<>>) : e \in Operands}

-----------------------------------------------------------------------------
(* Functions of a and b.                                                   *)

LT(l, r) == Op(l, "<", r)

Bodies ==
    {<<Say(Op(A, "-", B))>>,
     <<Unless(LT(A, B), Return(A)), Say(B)>>,
     <<Say(If(LT(A, B), A, If(Op(B, "==", Num(3)), Op(A, "*", B), Op(A, "-", B))))>>,
     <<Return(If(LT(B, A), Op(A, "-", If(A, B, X)), If(LT(X, B), X, B)))>>,
     \* A loop that is left from inside.
     <<WhileStatement(LT(A, B), <<Unless(LT(X, B), Return(Op(B, "-", A)))>>), Return(B)>>,
     \* The local y and the function around it: captured, and captured again.
     <<VarStatement("y", Op(B, "-", A)),
       Say(Call(Fct(<<>>, <<Say(Op(Id("y"), "-", A))>>), <<>>))>>,
     <<VarFunction("g", <<"c">>, <<Return(Fct(<<>>, <<Say(Op(A, "-", Op(B, "-", Id("c"))))>>))>>),
       Say(Op(Call(Call(Id("g"), <<A>>), <<>>), "-", Call(Call(Id("g"), <<B>>), <<>>)))>>,
     \* A parameter hides a variable of the function around.
     <<Say(Call(Fct(<<"b", "x">>, <<Say(Op(B, "-", Op(Id("x"), "-", A)))>>), <<A, B>>))>>,
     \* Recursion of f, and of a local function that captures.
     <<Unless(LT(A, Num(1)), Return(B)),
       Say(Op(B, "-", Call(Id("f"), <<Op(A, "-", Num(1)), Op(B, "-", X)>>)))>>,
     <<VarFunction("g", <<"c">>, <<Say(If(LT(Id("c"), Num(1)), A,
                                          Op(Call(Id("g"), <<Op(Id("c"), "-", Num(1))>>), "-", B)))>>),
       Return(Call(Id("g"), <<Num(2)>>))>>,
     <<Say(IndexExpression(DictLiteral(<<[key |-> A, value |-> Num(2), rank |-> 1],
                                         [key |-> B, value |-> ArrayLiteral(<<B, A>>), rank |-> 2]>>),
                           Num(3)))>>,
     <<Say(ArrayLiteral(<<A, Call(Id("sizeOf"), <<B>>),
                          Fct(<<>>, <<Return(A)>>), Op(A, "and", B)>>))>>}

Arguments == {Num(0), Num(3), X, If(X, PrefixExpression("-", X), X), BooleanLiteral(TRUE)}

FCall(e1, e2) == Call(Id("f"), <<e1, e2>>)

Uses(e1, e2) == {FCall(e1, e2), Op(e2, "-", FCall(e1, e2)), FCall(FCall(e1, e2), e2)}

Around(s) == Program(<<VarStatement("x", Num(1))>> \o s)

MCPrograms ==
    {Around(<<Say(e)>>) : e \in OperatorExpressions}
      \cup UNION {{Around(<<VarFunction("f", <<"a", "b">>, body), Say(e)>>) :
                     e \in UNION {Uses(e1, e2) : e1, e2 \in Arguments}} : body \in Bodies}

-----------------------------------------------------------------------------
(* Both engines have the same functions, which are not the same objects.   *)
RECURSIVE Alike(_, _)
Alike(v, w) ==
    CASE v.type = "CLOSURE_OBJ" -> w.type = "FUNCTION"
      [] v.type = "ARRAY" /\ w.type = "ARRAY" ->
            /\ Len(v.elements) = Len(w.elements)
            /\ \A i \in DOMAIN v.elements : Alike(v.elements[i], w.elements[i])
      [] v.type = "DICT" /\ w.type = "DICT" ->
            /\ \A p \in v.pairs : \E q \in w.pairs : SameKey(p.key, q.key) /\ Alike(p.val, q.val)
            /\ \A q \in w.pairs : \E p \in v.pairs : SameKey(p.key, q.key)
      [] OTHER -> v = w

\* What the VM's run comes to, as the evaluator has it.
Outcome ==
    CASE status = "done"               -> M!LastPoppedStackElem
      [] status = "error"              -> Error
      [] status \in {"nil", "divide"}  -> E!Panics
      [] OTHER                         -> Nil

(* The two engines agree: the program compiles, and what running its code  *)
(* ends in, its last value, an error or a panic, is what evaluating its    *)
(* tree may end in.  Code with every jump, capture and local in its place  *)
(* on one side, environments and recursion on the other.                   *)
EnginesAgree ==
    /\ error = ""
    /\ phase = "run" /\ status # "running" =>
          \E w \in E!EvalProgram(entered[1]) : Alike(Outcome, w)
=============================================================================
