------------------------------ MODULE MCReader ------------------------------
(***************************************************************************)
(* Texts to read: the characters of every kind in every order; tokens in   *)
(* every order, and programs with one token left out, put in or replaced;  *)
(* and programs that are written down from their trees, in which every     *)
(* operator is the operand of every other one, on either side, and every   *)
(* statement and literal stands in others.                                 *)
(***************************************************************************)
EXTENDS Reader

\* Numbers of more than three digits do not fit an int64 here.
MCIntegerOf == (<<"0">> :> 0) @@ (<<"1">> :> 1) @@ (<<"1", "1">> :> 11) @@ (<<"1", "1", "1">> :> 111)

\* Nor does a float64 hold more than one digit before the point.
MCNoFloats == {<<"1", "1", ".">>, <<"1", "1", ".", "1">>, <<"1", "1", "1", ".">>}

Alphabet == {"a", "1", ".", "<", "=", "/", "+", "\"", ";", " ", "\n", "\\0"}

CharacterTexts == UNION {[1..n -> Alphabet] : n \in 0..4}

-----------------------------------------------------------------------------
(* Tokens.                                                                 *)

\* How a token is written; "s" is a string, a and 1 themselves.
WordOf(t) ==
    CASE t = "s" -> <<Quote, "s", Quote>>
      [] t \in {k[2] : k \in Keywords} -> Keyword(t)
      [] OTHER -> Operator(t)

TokenText(ts) == TextOf([k \in DOMAIN ts |-> WordOf(ts[k])], Spaced)

Samples ==
    {<<"VAR", "a", "<<", "1", ";", "a", "<<", "a", "+", "1">>,
     <<"IMPORT", "s", "RETURN", "!", "TRUE", ";", "a", ".", "f">>,
     <<"WHILE", "(", "a", "<", "1", ")", "{", "a", "<<", "1", ";", "}", "a">>,
     <<"IF", "(", "a", ")", "{", "1", ";", "}", "ELSE", "{", "a", "}", ";", "a">>,
     <<"VAR", "f", "<<", "FUNCTION", "(", "a", ",", "f", ")", "{", "a", "}", ";">>,
     <<"f", "(", "a", ",", "1", ")", "[", "1", "]", "-", "(", "a", "or", "1", ")", ";">>,
     <<"{", "s", ":", "1", ",", "a", ":", "[", "1", ",", "a", "]", "}", "[", "s", "]">>,
     <<"FUNCTION", "(", ")", "{", "VAR", "a", "<<", "1", "}", "a", "*", "a", "+", "1">>}

Types == {"a", "1", "s", "VAR", "<<", "+", "-", "(", ")", "{", "}", ";", ",", "ELSE", "==",
          "FUNCTION", "IF", "[", "]", ":", ".", "RETURN"}

Changed ==
    UNION {UNION {{RemoveAt(s, i)} \cup {ReplaceAt(s, i, t) : t \in Types}
                                   \cup {InsertAt(s, i, t) : t \in Types} \cup {SubSeq(s, 1, i)} :
                    i \in DOMAIN s} : s \in Samples}

TokenTexts ==
    {TokenText(s) : s \in Changed
                      \cup [1..3 -> Types]
                      \cup [1..4 -> {"a", "VAR", "<<", "(", ")", "{", "}", ","}]}

-----------------------------------------------------------------------------
(* Programs.                                                               *)

A   == Identifier(<<"a">>)
F   == Identifier(<<"f">>)
One == IntegerLiteral(1)
Str == StringLiteral(<<"s", "{">>)

Say(e) == ExpressionStatement(e)

Two(l, r) ==
    {InfixExpression(l, o, r) : o \in Operators}
      \cup {CallExpression(l, <<r, l>>), IndexExpression(l, r), PrefixExpression("-", l),
            PrefixExpression("!", r), AttributeAccess(l, <<"f">>), ArrayLiteral(<<l, r>>)}

Small == {A} \cup Two(A, One)

Expressions == UNION {Two(l, r) : l, r \in Small}

Bodies == {<<>>, <<Say(A)>>, <<VarStatement(<<"a">>, One), AssignStatement(<<"a">>, F)>>,
           <<ReturnStatement(A)>>}

Function(name, body) == FunctionLiteral(name, <<<<"a">>, <<"f">>>>, body)

Values == {Function("", b) : b \in Bodies}
            \cup {IfExpression(A, b, <<>>) : b \in Bodies}
            \cup {IfExpression(A, b, <<BlockStatement(c)>>) : b, c \in Bodies}
            \cup {Str, BooleanLiteral(TRUE), ArrayLiteral(<<>>), DictLiteral(<<>>),
                  DictLiteral(<<[key |-> Str, value |-> One], [key |-> A, value |-> ArrayLiteral(<<Str>>)]>>)}

Around(e) ==
    {<<VarStatement(<<"f">>, IF e.kind = "FunctionLiteral" THEN [e EXCEPT !.name = <<"f">>] ELSE e), Say(F)>>,
     <<ReturnStatement(e), Say(A)>>,
     <<WhileStatement(e, <<Say(e)>>), AssignStatement(<<"a">>, e)>>,
     <<Say(CallExpression(e, <<e, One>>)), ImportStatement(<<"a">>), Say(IndexExpression(DictLiteral(<<>>), e))>>,
     <<Say(Function("", <<Say(InfixExpression(One, "+", e))>>))>>}

MCPrograms == {<<Say(e)>> : e \in Expressions} \cup UNION {Around(e) : e \in Values}

MCTexts == CharacterTexts \cup TokenTexts
=============================================================================
