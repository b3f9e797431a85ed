------------------------------- MODULE Parser -------------------------------
(***************************************************************************)
(* parser/parser.go: recursive descent over the tokens.  A parser p is     *)
(*   at        the place of curToken (peekToken is the one after it);      *)
(*   errors    how many errors were reported;                              *)
(*   value     what the parse function that made p returns, Nil for nil;   *)
(*   unchecked the places whose token the parser passed without a look at  *)
(*             what it is, which the code does not record.                 *)
(* A parse function takes the parser at its first token and leaves it at   *)
(* its last one, as in the code.                                           *)
(*                                                                         *)
(* Literals are numbers and names already: what strconv makes of an        *)
(* integer is in IntegerOf, which has no value for what does not fit an    *)
(* int64, and NoFloats are the literals out of float64's range.            *)
(***************************************************************************)
EXTENDS Integers, SequencesExt, Syntax

CONSTANTS
    IntegerOf,   \* literal :> number, for the literals that are one
    NoFloats     \* literals, of those with a point

VARIABLES
    source,      \* what the lexer yields, without EOF
    parser,
    statements   \* program.Statements

parserVars == <<source, parser, statements>>

EOF == [type |-> "EOF", literal |-> ""]
Missing == [kind |-> "nil"]

Token(i) == IF i \in DOMAIN source THEN source[i] ELSE EOF

NewParser == [at |-> 1, errors |-> 0, value |-> Missing, unchecked |-> {}]

Cur(p)  == Token(p.at)
Peek(p) == Token(p.at + 1)

Advance(p)        == [p EXCEPT !.at = @ + 1]    \* nextToken
Returns(p, value) == [p EXCEPT !.value = value]
Fails(p)          == [p EXCEPT !.errors = @ + 1, !.value = Missing]

\* expectPeek, of which the callers take the two outcomes apart.
Expects(p, type) == Peek(p).type = type

PastToken(p) == IF Expects(p, "EOF") THEN p ELSE Advance(p)   \* faulty variant

PastSemicolon(p) == IF Expects(p, ";") THEN Advance(p) ELSE p

-----------------------------------------------------------------------------
(* Expressions.                                                            *)

LOWEST == 1
PREFIX == 8

\* The table has no <=, >= and ., so that they bind like LOWEST.
Precedence(type) ==
    CASE type = "or"                    -> 2
      [] type = "and"                   -> 3
      [] type \in {"==", "!="}          -> 4
      [] type \in {"<", ">"}            -> 5
      [] type \in {"+", "-"}            -> 6
      [] type \in {"/", "*", "%", "**"} -> 7
      [] type = "("                     -> 9
      [] type = "["                     -> 10
      [] OTHER                          -> LOWEST

Operators == {"+", "-", "/", "*", "%", "**", "==", "!=", "<", ">", "<=", ">=", "or", "and"}
InfixTokens   == Operators \cup {"(", "[", "."}

RECURSIVE ParseExpression(_, _), ParseInfixes(_, _), ParseElements(_, _, _),
          ParsePairs(_, _), ParseStatement(_), ParseStatements(_, _)

ParseIntegerLiteral(p) ==
    LET literal == Cur(p).literal
    IN  IF literal \in DOMAIN IntegerOf
        THEN Returns(p, IntegerLiteral(IntegerOf[literal]))
        ELSE Fails(p)

ParseFloatLiteral(p) == IF Cur(p).literal \in NoFloats THEN Fails(p) ELSE Returns(p, FloatLiteral)

ParsePrefixExpression(p) ==
    LET right == ParseExpression(Advance(p), PREFIX)
    IN  Returns(right, PrefixExpression(Cur(p).type, right.value))

\* Faulty variant: does not look for the parenthesis.
ParseGroupedUnclosed(p) == ParseExpression(Advance(p), LOWEST)

ParseGroupedExpression(p) ==
    LET inner == ParseExpression(Advance(p), LOWEST)
    IN  IF Expects(inner, ")") THEN Advance(inner) ELSE Fails(inner)

\* The elements that follow before, the first of them at p.
ParseElements(p, before, end) ==
    LET element == ParseExpression(p, LOWEST)
        list    == Append(before, element.value)
    IN  IF Expects(element, ",") THEN ParseElements(Advance(Advance(element)), list, end)
        ELSE IF Expects(element, end) THEN Returns(Advance(element), list)
        ELSE Fails(element)

ParseExpressionList(p, end) ==
    IF Expects(p, end) THEN Returns(Advance(p), <<>>) ELSE ParseElements(Advance(p), <<>>, end)

\* The pairs are in the order of the text: the place of a key's text among the
\* others', which the compiler goes by, is not the parser's.
ParsePairs(p, pairs) ==
    LET key   == ParseExpression(Advance(p), LOWEST)
        value == ParseExpression(Advance(Advance(key)), LOWEST)
        all   == Append(pairs, [key |-> key.value, value |-> value.value])
    IN  IF Expects(p, "}") THEN Returns(Advance(p), DictLiteral(pairs))
        ELSE IF ~Expects(key, ":") THEN Fails(key)
        ELSE IF Expects(value, "}") THEN ParsePairs(value, all)
        ELSE IF Expects(value, ",") THEN ParsePairs(Advance(value), all)
        ELSE Fails(value)

ParseBlockStatement(p) == ParseStatements(Advance(p), <<>>)

ParseIfExpression(p) ==
    LET condition   == ParseExpression(Advance(Advance(p)), LOWEST)
        consequence == ParseBlockStatement(Advance(Advance(condition)))
        alternative == ParseBlockStatement(Advance(Advance(consequence)))
        If(last, else) == Returns(last, IfExpression(condition.value, consequence.value, else))
    IN  IF ~Expects(p, "(") THEN Fails(p)
        ELSE IF ~Expects(condition, ")") THEN Fails(condition)
        ELSE IF ~Expects(Advance(condition), "{") THEN Fails(Advance(condition))
        ELSE IF ~Expects(consequence, "ELSE") THEN If(consequence, <<>>)
        ELSE IF ~Expects(Advance(consequence), "{") THEN Fails(Advance(consequence))
        ELSE If(alternative, <<BlockStatement(alternative.value)>>)

\* Any token will do for a parameter.
RECURSIVE ParseParameters(_, _)
ParseParameters(p, before) ==
    LET list == Append(before, Cur(p).literal)
        name == [Returns(p, list) EXCEPT !.unchecked = @ \cup {p.at}]
    IN  IF Expects(p, ",") THEN ParseParameters(Advance(Advance(name)), list)
        ELSE IF Expects(p, ")") THEN Advance(name)
        ELSE Fails(name)

ParseFunctionParameters(p) ==
    IF Expects(p, ")") THEN Returns(Advance(p), <<>>) ELSE ParseParameters(Advance(p), <<>>)

ParseFunctionLiteral(p) ==
    LET parameters == ParseFunctionParameters(Advance(p))
        body       == ParseBlockStatement(Advance(parameters))
    IN  IF ~Expects(p, "(") THEN Fails(p)
        ELSE IF ~Expects(parameters, "{") THEN Fails(parameters)
        ELSE Returns(body, FunctionLiteral("", parameters.value, body.value))

\* The function for the token at p, whose places in prefixParseFcts they are.
ParsePrefix(p) ==
    LET token == Cur(p)
        list  == ParseExpressionList(p, "]")
    IN  CASE token.type = "IDENT"           -> Returns(p, Identifier(token.literal))
          [] token.type = "INT"             -> ParseIntegerLiteral(p)
          [] token.type = "FLOAT"           -> ParseFloatLiteral(p)
          [] token.type = "STRING"          -> Returns(p, StringLiteral(token.literal))
          [] token.type \in {"TRUE", "FALSE"} -> Returns(p, BooleanLiteral(token.type = "TRUE"))
          [] token.type \in {"!", "-"}      -> ParsePrefixExpression(p)
          [] token.type = "("               -> ParseGroupedExpression(p)
          [] token.type = "IF"              -> ParseIfExpression(p)
          [] token.type = "FUNCTION"        -> ParseFunctionLiteral(p)
          [] token.type = "["               -> Returns(list, ArrayLiteral(list.value))
          [] token.type = "{"               -> ParsePairs(p, <<>>)
          [] OTHER                          -> Fails(p)

ParseCallExpression(p, function) ==
    LET arguments == ParseExpressionList(p, ")")
    IN  Returns(arguments, CallExpression(function, arguments.value))

ParseIndexExpression(p, left) ==
    LET index == ParseExpression(Advance(p), LOWEST)
    IN  IF Expects(index, "]")
        THEN Returns(Advance(index), IndexExpression(left, index.value))
        ELSE Fails(index)

\* Any token will do for a property.
ParseAttributeAccess(p, object) ==
    LET property == Advance(p)
    IN  [Returns(property, AttributeAccess(object, Cur(property).literal))
            EXCEPT !.unchecked = @ \cup {property.at}]

\* Faulty variant: a - b - c is a - (b - c).
ParseInfixRight(p, left) ==
    LET right == ParseExpression(Advance(p), Precedence(Cur(p).type))
    IN  Returns(right, InfixExpression(left, Cur(p).type, right.value))

ParseInfixExpression(p, left) ==
    LET right == ParseExpression(Advance(p), Precedence(Cur(p).type) + 1)
    IN  Returns(right, InfixExpression(left, Cur(p).type, right.value))

\* The function for the token at p, whose left operand is p's value.
ParseInfix(p) ==
    CASE Cur(p).type = "(" -> ParseCallExpression(p, p.value)
      [] Cur(p).type = "[" -> ParseIndexExpression(p, p.value)
      [] Cur(p).type = "." -> ParseAttributeAccess(p, p.value)
      [] OTHER             -> ParseInfixExpression(p, p.value)

Binds(p, precedence) == Peek(p).type \in InfixTokens /\ precedence <= Precedence(Peek(p).type)

ParseInfixes(p, precedence) ==
    IF Binds(p, precedence) THEN ParseInfixes(ParseInfix(Advance(p)), precedence) ELSE p

PrefixTokens == {"IDENT", "INT", "FLOAT", "STRING", "TRUE", "FALSE", "!", "-", "(", "IF",
             "FUNCTION", "[", "{"}

\* A token that starts no expression is an error and read again by nobody.
ParseExpression(p, precedence) ==
    IF Cur(p).type \in PrefixTokens THEN ParseInfixes(ParsePrefix(p), precedence) ELSE Fails(p)

-----------------------------------------------------------------------------
(* Statements.                                                             *)

\* A function literal takes the name; then all tokens up to a semicolon or the
\* end of the text are passed over, whatever they are.
ParseVarStatement(p) ==
    LET name  == Advance(p)
        value == ParseExpression(Advance(Advance(name)), LOWEST)
        node  == IF value.value.kind = "FunctionLiteral"
                 THEN [value.value EXCEPT !.name = Cur(name).literal]
                 ELSE value.value
        end   == CHOOSE j \in value.at..(value.at + Len(source)) :
                     /\ Token(j).type \in {";", "EOF"}
                     /\ \A k \in value.at..(j - 1) : Token(k).type \notin {";", "EOF"}
    IN  IF ~Expects(p, "IDENT") THEN Fails(p)
        ELSE IF ~Expects(name, "<<") THEN Fails(name)
        ELSE [Returns(value, VarStatement(Cur(name).literal, node))
                EXCEPT !.at = end, !.unchecked = @ \cup (value.at + 1)..(end - 1)]

ParseAssignStatement(p) ==
    LET value == ParseExpression(Advance(Advance(p)), LOWEST)
    IN  PastSemicolon(Returns(value, AssignStatement(Cur(p).literal, value.value)))

ParseReturnStatement(p) ==
    LET value == ParseExpression(Advance(p), LOWEST)
    IN  PastSemicolon(Returns(value, ReturnStatement(value.value)))

ParseImportStatement(p) ==
    IF Expects(p, "STRING")
    THEN Returns(Advance(p), ImportStatement(Peek(p).literal))
    ELSE Fails(p)

ParseWhileStatement(p) ==
    LET condition == ParseExpression(Advance(Advance(p)), LOWEST)
        body      == ParseBlockStatement(Advance(Advance(condition)))
    IN  IF ~Expects(p, "(") THEN Fails(p)
        ELSE IF ~Expects(condition, ")") THEN Fails(condition)
        ELSE IF ~Expects(Advance(condition), "{") THEN Fails(Advance(condition))
        ELSE Returns(body, WhileStatement(condition.value, body.value))

ParseExpressionStatement(p) ==
    LET expression == ParseExpression(p, LOWEST)
    IN  PastSemicolon(Returns(expression, ExpressionStatement(expression.value)))

ParseStatement(p) ==
    CASE Cur(p).type = "VAR"    -> ParseVarStatement(p)
      [] Cur(p).type = "RETURN" -> ParseReturnStatement(p)
      [] Cur(p).type = "WHILE"  -> ParseWhileStatement(p)
      [] Cur(p).type = "IMPORT" -> ParseImportStatement(p)
      [] Cur(p).type = "IDENT" /\ Expects(p, "<<") -> ParseAssignStatement(p)
      [] OTHER -> ParseExpressionStatement(p)

\* The statements of a block that follow before.  The end of the text ends a
\* block like its brace does.
ParseStatements(p, before) ==
    LET statement == ParseStatement(p)
    IN  IF Cur(p).type \in {"}", "EOF"} THEN Returns(p, before)
        ELSE ParseStatements(Advance(statement), Append(before, statement.value))

-----------------------------------------------------------------------------
ParserInit ==
    /\ source = <<>>
    /\ parser = NewParser
    /\ statements = <<>>

AtEnd == Cur(parser).type = "EOF"

\* One turn of the loop of ParseProgram.
ParseProgram ==
    LET statement == ParseStatement(parser)
    IN  /\ ~AtEnd
        /\ statements' = Append(statements, statement.value)
        /\ parser' = Advance(statement)
        /\ UNCHANGED source

Tree == Program(statements)

-----------------------------------------------------------------------------
(* Properties.                                                             *)

\* The words of a tree in the order they are written: names, literals,
\* operators, keywords, and the brackets that open something.
Word(token) ==
    CASE token.type \in {"IDENT", "STRING"} -> <<token.type, token.literal>>
      [] token.type = "INT" -> <<"INT", IntegerOf[token.literal]>>
      [] OTHER -> <<token.type>>

RECURSIVE Words(_)
Words(node) ==
    LET All(nodes) == FlattenSeq([k \in DOMAIN nodes |-> Words(nodes[k])])
        Key(type)  == <<<<type>>>>
        Name(name) == <<<<"IDENT", name>>>>
    IN  CASE node.kind = "BlockStatement"      -> Key("{") \o All(node.statements)
          [] node.kind = "ExpressionStatement" -> Words(node.expression)
          [] node.kind = "VarStatement" -> Key("VAR") \o Name(node.name) \o Key("<<") \o Words(node.value)
          [] node.kind = "AssignStatement" -> Name(node.name) \o Key("<<") \o Words(node.value)
          [] node.kind = "ReturnStatement" -> Key("RETURN") \o Words(node.value)
          [] node.kind = "ImportStatement" -> Key("IMPORT") \o <<<<"STRING", node.path>>>>
          [] node.kind = "WhileStatement" -> Key("WHILE") \o All(<<node.condition, node.body>>)
          [] node.kind = "Identifier"     -> Name(node.name)
          [] node.kind = "IntegerLiteral" -> <<<<"INT", node.literal.int>>>>
          [] node.kind = "FloatLiteral"   -> Key("FLOAT")
          [] node.kind = "StringLiteral"  -> <<<<"STRING", node.literal.str>>>>
          [] node.kind = "Boolean"        -> Key(IF node.boolean THEN "TRUE" ELSE "FALSE")
          [] node.kind = "ArrayLiteral"   -> Key("[") \o All(node.elements)
          [] node.kind = "DictLiteral"    ->
                Key("{") \o FlattenSeq([k \in DOMAIN node.pairs |->
                                        All(<<node.pairs[k].key, node.pairs[k].value>>)])
          [] node.kind = "IndexExpression"  -> Words(node.left) \o Key("[") \o Words(node.index)
          [] node.kind = "PrefixExpression" -> Key(node.operator) \o Words(node.right)
          [] node.kind = "InfixExpression"  ->
                Words(node.left) \o Key(node.operator) \o Words(node.right)
          [] node.kind = "AttributeAccess"  -> Words(node.object) \o Key(".")
          [] node.kind = "CallExpression"   -> Words(node.function) \o All(node.arguments)
          [] node.kind = "IfExpression"     ->
                Key("IF") \o All(<<node.condition, node.consequence>>)
                  \o (IF node.alternative = <<>> THEN <<>> ELSE Key("ELSE") \o All(node.alternative))
          [] node.kind = "FunctionLiteral"  -> Key("FUNCTION") \o Words(node.body)
          [] node.kind = "nil"              -> Key("nil")

Silent == {"(", ")", "}", "]", ",", ";", ":", "EOF"}

\* What the parser looked at up to where it is.
Checked ==
    LET places == SelectSeq([i \in 1..Len(source) |-> i],
                            LAMBDA i : i < parser.at /\ i \notin parser.unchecked)
    IN  [k \in DOMAIN places |-> source[places[k]]]

\* Without an error the tree has all that was read, in its order and with no
\* part missing: what passes over tokens is a var after its value, and what takes
\* any token for a name is a list of parameters and an attribute.  The compiler and
\* the evaluator go down the tree without a look for nil.
NothingMissing ==
    parser.errors = 0 =>
        LET read == SelectSeq(Checked, LAMBDA t : t.type \notin Silent)
        IN  FlattenSeq([k \in DOMAIN statements |-> Words(statements[k])])
              = [k \in DOMAIN read |-> Word(read[k])]

Opening(type) == CASE type = ")" -> "(" [] type = "]" -> "[" [] type = "}" -> "{"

\* The brackets that tokens leave open, FALSE first if one closes none.
OpenBrackets(tokens) ==
    LET Step(open, token) ==
            CASE token.type \in {"(", "[", "{"} -> Append(open, token.type)
              [] token.type \in {")", "]", "}"} ->
                    IF open # <<>> /\ Last(open) = Opening(token.type)
                    THEN Front(open)
                    ELSE <<"unmatched">> \o open
              [] OTHER -> open
    IN  FoldLeft(Step, <<>>, tokens)

\* Without an error every bracket is closed by one of its kind, but for the
\* braces of blocks that the end of the text closes.
BracketsMatch == parser.errors = 0 => ToSet(OpenBrackets(Checked)) \subseteq {"{"}
=============================================================================
