------------------------------- MODULE Lexer -------------------------------
(***************************************************************************)
(* lexer/lexer.go and token/token.go: the characters of a text become      *)
(* tokens, one for every call of NextToken.  ch is always the character at *)
(* position and 0 beyond the end, so that a byte 0 is taken for the end.   *)
(*                                                                         *)
(* A token is the type and literal of token.Token, and the places from and *)
(* to between which the lexer read it, which the code does not keep.       *)
(***************************************************************************)
EXTENDS Integers, SequencesExt

CONSTANTS Letters, Digits    \* isLetter, and 0 to 9

VARIABLES input, position, tokens

lexerVars == <<input, position, tokens>>

Zero  == "\\0"
Quote == "\""
Blank == {" ", "\t", "\n", "\r"}

\* One character that is a token, its type the character.
Singles == {".", "<", ";", "(", ")", ",", "+", "%", "{", "}", "-", "/", ">", "!", "*",
            "[", "]", ":"}

ASSUME LexerAssumption ==
    /\ Letters \cap Digits = {}
    /\ (Letters \cup Digits) \cap (Blank \cup Singles \cup {Zero, Quote, "="}) = {}

Ch(i) == IF i \in DOMAIN input THEN input[i] ELSE Zero

\* Two characters that are a token.
PairType(p) ==
    CASE p = <<"<", "<">> -> "<<"
      [] p = <<"<", "=">> -> "<="
      [] p = <<">", "=">> -> ">="
      [] p = <<"=", "=">> -> "=="
      [] p = <<"!", "=">> -> "!="
      [] p = <<"+", "+">> -> "++"
      [] p = <<"-", "-">> -> "--"
      [] p = <<"*", "*">> -> "**"
      [] OTHER -> "ILLEGAL"

Keywords ==
    {<<<<"f", "c", "t">>, "FUNCTION">>, <<<<"v", "a", "r">>, "VAR">>,
     <<<<"t", "r", "u", "e">>, "TRUE">>, <<<<"f", "a", "l", "s", "e">>, "FALSE">>,
     <<<<"i", "f">>, "IF">>, <<<<"e", "l", "s", "e">>, "ELSE">>,
     <<<<"r", "e", "t", "u", "r", "n">>, "RETURN">>, <<<<"w", "h", "i", "l", "e">>, "WHILE">>,
     <<<<"i", "m", "p", "o", "r", "t">>, "IMPORT">>,
     <<<<"a", "n", "d">>, "and">>, <<<<"o", "r">>, "or">>}

LookupIdent(literal) ==
    IF \E k \in Keywords : k[1] = literal
    THEN (CHOOSE k \in Keywords : k[1] = literal)[2]
    ELSE "IDENT"

-----------------------------------------------------------------------------
(* Where the parts of the text end.                                        *)

\* The first place from i on with a character in S, and with one that is not.
Find(i, S) ==
    CHOOSE j \in i..(i + Len(input) + 1) : Ch(j) \in S /\ \A k \in i..(j - 1) : Ch(k) \notin S

Skip(i, S) ==
    CHOOSE j \in i..(i + Len(input) + 1) : Ch(j) \notin S /\ \A k \in i..(j - 1) : Ch(k) \in S

\* After white space, and after a comment as NextToken starts again there.
SkipWhitespace[i \in Nat] ==
    LET start == Skip(i, Blank)
    IN  IF Ch(start) = "/" /\ Ch(start + 1) = "/"
        THEN SkipWhitespace[Find(start + 1, {"\n", Zero})]
        ELSE start

ReadIdentifier(i) == Skip(i, Letters \cup Digits)

\* Faulty variant: goes on after a second point.
ReadPoints(i) == Skip(i, Digits \cup {"."})

\* A second point ends the number.
ReadNumber(i) ==
    LET point == Skip(i, Digits)
    IN  IF Ch(point) = "." THEN Skip(point + 1, Digits) ELSE point

\* The end of the text ends a string like its quote does.
ReadString(i) == Find(i + 1, {Quote, Zero})

-----------------------------------------------------------------------------
TokenOf(type, literal, from, to) ==
    [type |-> type, literal |-> literal, from |-> from, to |-> to]

\* The token that starts at i.  The branch of <= reads its second character
\* and the one after it, and NextToken reads one more, as it does at the end
\* of every branch that does not return.
TokenAt(i) ==
    LET pair == PairType(<<Ch(i), Ch(i + 1)>>)
        Text(to) == SubSeq(input, i, to - 1)
    IN  CASE pair = "<="      -> TokenOf(pair, Text(i + 2), i, i + 3)
          [] pair \notin {"<=", "ILLEGAL"} -> TokenOf(pair, Text(i + 2), i, i + 2)
          [] pair = "ILLEGAL" /\ Ch(i) \in Singles -> TokenOf(Ch(i), Text(i + 1), i, i + 1)
          [] Ch(i) = Quote ->
                TokenOf("STRING", SubSeq(input, i + 1, ReadString(i) - 1), i, ReadString(i) + 1)
          [] Ch(i) = Zero -> TokenOf("EOF", <<>>, i, i + 1)
          [] Ch(i) \in Letters ->
                LET to == ReadIdentifier(i) IN TokenOf(LookupIdent(Text(to)), Text(to), i, to)
          [] Ch(i) \in Digits ->
                LET to == ReadNumber(i)
                IN  TokenOf(IF Contains(Text(to), ".") THEN "FLOAT" ELSE "INT", Text(to), i, to)
          [] OTHER -> TokenOf("ILLEGAL", Text(i + 1), i, i + 1)

\* Faulty variant: a name and a number are left with the readChar that all
\* other tokens need.
NextTokenReadsOn ==
    LET token == TokenAt(SkipWhitespace[position])
    IN  /\ tokens' = Append(tokens, token)
        /\ position' = IF Ch(token.from) \in Letters \cup Digits THEN token.to + 1 ELSE token.to
        /\ UNCHANGED input

NextToken ==
    LET token == TokenAt(SkipWhitespace[position])
    IN  /\ tokens' = Append(tokens, token)
        /\ position' = token.to
        /\ UNCHANGED input

\* The parser asks for no token after EOF that it would use.
AtEOF == tokens # <<>> /\ Last(tokens).type = "EOF"

LexerInit ==
    /\ position = 1
    /\ tokens = <<>>

LexerNext == ~AtEOF /\ NextToken

-----------------------------------------------------------------------------
(* Properties.                                                             *)

\* What the language takes for one token: an operator, a name, a number with
\* at most one point, a string with or without its end.
Lexeme(text) ==
    \/ Len(text) = 1
    \/ Len(text) = 2 /\ PairType(<<text[1], text[2]>>) # "ILLEGAL"
    \/ text[1] \in Letters /\ \A k \in DOMAIN text : text[k] \in Letters \cup Digits
    \/ /\ text[1] \in Digits
       /\ \A k \in DOMAIN text : text[k] \in Digits \cup {"."}
       /\ \A j, k \in DOMAIN text : text[j] = "." /\ text[k] = "." => j = k
    \/ text[1] = Quote /\ \A k \in 2..(Len(text) - 1) : text[k] \notin {Quote, Zero}

\* The places of the text that a token stands for.
Extent(t) ==
    t.from..(t.from + Len(t.literal) - 1 + CASE t.type = "STRING" -> 2
                                              [] t.type = "EOF"    -> 1
                                              [] OTHER             -> 0)

\* The token just read is the longest lexeme at its place (+++ is ++ and +,
\* 1.2.3 is 1.2 and . and 3), whatever order the branches of NextToken try
\* them in.
LongestMatch ==
    tokens # <<>> /\ ~AtEOF =>
        LET token == Last(tokens)
            text  == SubSeq(input, token.from, Len(input))
            n     == Cardinality(Extent(token) \cap DOMAIN input)
        IN  /\ Lexeme(SubSeq(text, 1, n))
            /\ \A m \in (n + 1)..Len(text) : ~Lexeme(SubSeq(text, 1, m))

Comment(i) == \E c \in 1..i : /\ <<Ch(c), Ch(c + 1)>> = <<"/", "/">>
                              /\ \A k \in c..i : Ch(k) # "\n"

\* In the end each character of the text belongs to exactly one token, or is
\* white space or in a comment; the one exception is the character after a <=,
\* which is lost.
NothingLost ==
    AtEOF =>
        \A i \in DOMAIN input :
            LET of == {k \in DOMAIN tokens : i \in Extent(tokens[k])}
            IN  IF of = {}
                THEN i < position =>
                        Ch(i) \in Blank \/ Comment(i) \/ <<Ch(i - 2), Ch(i - 1)>> = <<"<", "=">>
                ELSE Cardinality(of) = 1
=============================================================================
