----------------------------- MODULE MCExamples -----------------------------
(***************************************************************************)
(* Programs as the examples, the tests and the documentation have them,    *)
(* read one after the other, and what they say the programs mean.  Names   *)
(* are shortened, and examples cut down to the lines that matter.          *)
(***************************************************************************)
EXTENDS Reader

VARIABLES example,    \* the one that is read
          misread     \* those that were not read as they are meant

exampleVars == <<vars, example, misread>>

MCIntegerOf == (<<"1">> :> 1) @@ (<<"1", "0">> :> 10)

One == IntegerLiteral(1)
Ten == IntegerLiteral(10)
Name(name) == Identifier(<<name>>)
Say(e)     == ExpressionStatement(e)

\* A line ends with a comment.
Line(words) == Append(words, <<"/", "/", " ", "i", "\n">>)

Var(name, value) == <<Keyword("VAR"), <<name>>, Operator("<<")>> \o value

\* Conjunction and comparison: a <= 1 and a.
Both == InfixExpression(InfixExpression(Name("a"), "<=", One), "and", Name("a"))

Examples == <<
    [name |-> "code_examples/types.zum",
     text |-> TextOf(
        Line(Var("t", <<<<Quote, "t", Quote>>, <<";">>>>))
          \o Line(Var("n", <<<<"1", "0">>>>))
          \o Line(Var("o", <<Keyword("TRUE")>>))
          \o Line(Var("i", <<Keyword("FALSE")>>))
          \o Line(Var("a", <<<<"[">>, <<"]">>>>))
          \o Line(Var("d", <<<<"{">>, <<"}">>>>))
          \o Line(Var("l", <<<<"1", "0", ".", "1">>>>))
          \o Var("f", <<Keyword("FUNCTION"), <<"(">>, <<")">>, <<"{">>, <<"}">>>>), Spaced),
     meant |-> <<VarStatement(<<"t">>, StringLiteral(<<"t">>)), VarStatement(<<"n">>, Ten),
                 VarStatement(<<"o">>, BooleanLiteral(TRUE)), VarStatement(<<"i">>, BooleanLiteral(FALSE)),
                 VarStatement(<<"a">>, ArrayLiteral(<<>>)), VarStatement(<<"d">>, DictLiteral(<<>>)),
                 VarStatement(<<"l">>, FloatLiteral),
                 VarStatement(<<"f">>, FunctionLiteral(<<"f">>, <<>>, <<>>))>>],
    [name |-> "evaluator/evaluator_test.go:661",
     text |-> TextOf(<<Keyword("IMPORT"), <<Quote, "s", Quote>>, <<";">>,
                       <<"s">>, <<"(">>, <<"1">>, <<")">>, <<";">>>>, Spaced),
     meant |-> <<ImportStatement(<<"s">>), Say(CallExpression(Name("s"), <<One>>))>>],
    [name |-> "docs/syntax.MD: not",
     text |-> TextOf(<<<<"n", "o", "t">>, <<"a">>, <<";">>>>, Spaced),
     meant |-> <<Say(PrefixExpression("!", Name("a")))>>],
    [name |-> "docs/syntax.MD: comparison and conjunction",
     text |-> TextOf(<<<<"a">>, Operator("<="), <<"1">>, Operator("and"), <<"a">>, <<";">>>>, Spaced),
     meant |-> <<Say(Both)>>],
    [name |-> "docs/syntax.MD: comparison without blanks",
     text |-> TextOf(<<<<"a">>, Operator("<="), <<"1">>, <<";">>>>, Densest),
     meant |-> <<Say(InfixExpression(Name("a"), "<=", One))>>],
    [name |-> "docs/syntax.MD: conjunction",
     text |-> TextOf(<<<<"a">>, Operator("=="), <<"1", "0">>, Operator("and"), <<"a">>, <<";">>>>, Densest),
     meant |-> <<Say(InfixExpression(InfixExpression(Name("a"), "==", Ten), "and", Name("a")))>>]>>

MCTexts    == {Examples[k].text : k \in DOMAIN Examples}
MCPrograms == {}

Init ==
    /\ LexerInit
    /\ ParserInit
    /\ written = <<>>
    /\ input = Examples[1].text
    /\ example = 1
    /\ misread = {}

Read == ReaderNext /\ UNCHANGED <<example, misread>>

\* A new lexer and a new parser for the next text.
Turn ==
    /\ AtEOF /\ AtEnd /\ example < Len(Examples)
    /\ example' = example + 1
    /\ input' = Examples[example + 1].text
    /\ position' = 1 /\ tokens' = <<>> /\ source' = <<>>
    /\ parser' = NewParser /\ statements' = <<>> /\ UNCHANGED written
    /\ misread' = IF parser.errors = 0 /\ statements = Examples[example].meant
                  THEN misread ELSE misread \cup {Examples[example].name}

Spec == Init /\ [][Read \/ Turn]_exampleVars

\* What the documentation and the tests write is read without an error, and as
\* they say it means.
AsDocumented == AtEOF /\ AtEnd /\ example = Len(Examples) => misread = {}
=============================================================================
