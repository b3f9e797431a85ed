------------------------------- MODULE Reader -------------------------------
(***************************************************************************)
(* From a text to its tree, as main.go, the REPL and imports read one: the *)
(* parser over the tokens of the lexer.  The tokens depend on the text     *)
(* alone, so that they are all read before the first one is parsed.        *)
(*                                                                         *)
(* Beside it the language as its documentation has it: how a program is    *)
(* written down.  Reading must give back what was written.                 *)
(***************************************************************************)
EXTENDS Lexer, Parser

CONSTANTS Texts,       \* any texts
          Programs,    \* statements, to be written as below and read back
          Cautious     \* operators whose applications are put in parentheses
                       \* wherever they are operands, needed or not

VARIABLE written       \* the program whose text this is, <<>> for any text

vars == <<lexerVars, parserVars, written>>


Lex ==
    /\ LexerNext
    /\ LET token == Last(tokens')
       IN  source' = IF token.type = "EOF"
                     THEN source
                     ELSE Append(source, [type |-> token.type, literal |-> token.literal])
    /\ UNCHANGED <<parser, statements, written>>

Parse == AtEOF /\ ParseProgram /\ UNCHANGED <<lexerVars, written>>

ReaderNext == Lex \/ Parse

-----------------------------------------------------------------------------
(* Writing.  A program is written as a sequence of words, a word as its    *)
(* characters.                                                             *)

Operator(text) ==
    CASE text \in {"<<", "<=", ">=", "==", "!=", "**", "or", "and"} ->
            (CASE text = "<<" -> <<"<", "<">> [] text = "<=" -> <<"<", "=">>
               [] text = ">=" -> <<">", "=">> [] text = "==" -> <<"=", "=">>
               [] text = "!=" -> <<"!", "=">> [] text = "**" -> <<"*", "*">>
               [] text = "or" -> <<"o", "r">> [] text = "and" -> <<"a", "n", "d">>)
      [] OTHER -> <<text>>

Keyword(type) == (CHOOSE k \in Keywords : k[2] = type)[1]

\* docs/syntax.MD has <= and >= among the comparisons, and joins comparisons by and.
\* It says no more: the rest is as in other languages, calls, indexes and attributes
\* before everything else.
Ranks == <<{"or"}, {"and"}, {"==", "!="}, {"<", ">", "<=", ">="}, {"+", "-"},
           {"*", "/", "%", "**"}>>

Rank(operator) == CHOOSE r \in DOMAIN Ranks : operator \in Ranks[r]

PrefixRank  == 7
PrimaryRank == 8

RankOf(e) ==
    CASE e.kind = "InfixExpression"  -> IF e.operator \in Cautious THEN 0 ELSE Rank(e.operator)
      [] e.kind = "PrefixExpression" -> PrefixRank
      [] e.kind = "AttributeAccess" /\ "." \in Cautious -> 0
      [] OTHER -> PrimaryRank

Parenthesized(words) == <<<<"(">>>> \o words \o <<<<")">>>>

\* Sequences of words with a comma between them.
Listed(list) ==
    FlattenSeq([k \in DOMAIN list |-> IF k = 1 THEN list[k] ELSE <<<<",">>>> \o list[k]])

RECURSIVE Write(_, _)

\* The words of a block's statements, each with its semicolon.
WriteAll(nodes) == FlattenSeq([k \in DOMAIN nodes |-> Write(nodes[k], 0)])
Block(block)    == <<<<"{">>>> \o WriteAll(block.statements) \o <<<<"}">>>>

\* e where an operand of at least this rank is wanted.
Write(e, rank) ==
    LET End == <<<<";">>>>
        Assign(name, value) == <<name, Operator("<<")>> \o Write(value, 0) \o End
        List(nodes) == Listed([k \in DOMAIN nodes |-> Write(nodes[k], 0)])
        words ==
          CASE e.kind = "ExpressionStatement" -> Write(e.expression, 0) \o End
            [] e.kind = "VarStatement"    -> <<Keyword("VAR")>> \o Assign(e.name, e.value)
            [] e.kind = "AssignStatement" -> Assign(e.name, e.value)
            [] e.kind = "ReturnStatement" -> <<Keyword("RETURN")>> \o Write(e.value, 0) \o End
            [] e.kind = "ImportStatement" ->
                  <<Keyword("IMPORT"), <<Quote>> \o e.path \o <<Quote>>>>
            [] e.kind = "WhileStatement"  ->
                  <<Keyword("WHILE")>> \o Parenthesized(Write(e.condition, 0)) \o Block(e.body)
            [] e.kind = "Identifier"      -> <<e.name>>
            [] e.kind = "IntegerLiteral"  ->
                  <<CHOOSE l \in DOMAIN IntegerOf : IntegerOf[l] = e.literal.int>>
            [] e.kind = "StringLiteral"   -> <<<<Quote>> \o e.literal.str \o <<Quote>>>>
            [] e.kind = "Boolean" -> <<Keyword(IF e.boolean THEN "TRUE" ELSE "FALSE")>>
            [] e.kind = "ArrayLiteral"    -> <<<<"[">>>> \o List(e.elements) \o <<<<"]">>>>
            [] e.kind = "DictLiteral"     ->
                  <<<<"{">>>> \o Listed([k \in DOMAIN e.pairs |->
                     Write(e.pairs[k].key, 0) \o <<<<":">>>> \o Write(e.pairs[k].value, 0)])
                  \o <<<<"}">>>>
            [] e.kind = "IndexExpression" ->
                  Write(e.left, PrimaryRank) \o <<<<"[">>>> \o Write(e.index, 0) \o <<<<"]">>>>
            [] e.kind = "PrefixExpression" -> <<Operator(e.operator)>> \o Write(e.right, PrefixRank)
            [] e.kind = "InfixExpression" ->
                  Write(e.left, Rank(e.operator)) \o <<Operator(e.operator)>>
                    \o Write(e.right, Rank(e.operator) + 1)
            [] e.kind = "AttributeAccess" ->
                  Write(e.object, PrimaryRank) \o <<<<".">>, e.property>>
            [] e.kind = "CallExpression"  ->
                  Write(e.function, PrimaryRank) \o Parenthesized(List(e.arguments))
            [] e.kind = "IfExpression"    ->
                  <<Keyword("IF")>> \o Parenthesized(Write(e.condition, 0)) \o Block(e.consequence)
                    \o (IF e.alternative = <<>> THEN <<>>
                        ELSE <<Keyword("ELSE")>> \o Block(e.alternative[1]))
            [] e.kind = "FunctionLiteral" ->
                  <<Keyword("FUNCTION")>>
                    \o Parenthesized(Listed([k \in DOMAIN e.parameters |-> <<e.parameters[k]>>]))
                    \o Block(e.body)
    IN  IF RankOf(e) < rank THEN Parenthesized(words) ELSE words

\* Two words next to each other that would be read as others.
Run(left, right) ==
    \/ {Last(left), Head(right)} \subseteq Letters \cup Digits
    \/ PairType(<<Last(left), Head(right)>>) # "ILLEGAL"
    \/ Last(left) \in Digits /\ Head(right) = "."

\* A text: the words with a blank between two when Separate says so.
TextOf(words, Separate(_, _)) ==
    FlattenSeq([k \in DOMAIN words |->
        IF k > 1 /\ Separate(words[k - 1], words[k]) THEN <<" ">> \o words[k] ELSE words[k]])

Spaced(left, right) == TRUE

\* As dense as it can be, but for the character a <= takes with it.
Dense(left, right) == Run(left, right) \/ left = <<"<", "=">>

Densest(left, right) == Run(left, right)

TextsOf(nodes) == {TextOf(WriteAll(nodes), Spaced), TextOf(WriteAll(nodes), Dense)}

ReaderInit ==
    /\ LexerInit
    /\ ParserInit
    /\ \/ input \in Texts /\ written = <<>>
       \/ written \in Programs /\ input \in TextsOf(written)

ReaderSpec == ReaderInit /\ [][ReaderNext]_vars

-----------------------------------------------------------------------------
(* Properties.                                                             *)

\* A program that is written down is read back as it was: what binds to what,
\* what belongs to which block and list, and every name and number.
ReadsWhatIsWritten ==
    AtEOF /\ AtEnd /\ written # <<>> => parser.errors = 0 /\ statements = written
=============================================================================
