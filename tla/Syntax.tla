------------------------------- MODULE Syntax -------------------------------
(***************************************************************************)
(* The nodes of the ast package, as the parser builds them and the         *)
(* compiler reads them, without their tokens.  An alternative that is nil  *)
(* is <<>>, one that is there is a sequence of one block.                  *)
(***************************************************************************)
LOCAL INSTANCE Object

Program(statements)             == [kind |-> "Program", statements |-> statements]
BlockStatement(statements)      == [kind |-> "BlockStatement", statements |-> statements]
ExpressionStatement(expression) == [kind |-> "ExpressionStatement", expression |-> expression]
VarStatement(name, value)       == [kind |-> "VarStatement", name |-> name, value |-> value]
AssignStatement(name, value)    == [kind |-> "AssignStatement", name |-> name, value |-> value]
ReturnStatement(value)          == [kind |-> "ReturnStatement", value |-> value]
ImportStatement(path)           == [kind |-> "ImportStatement", path |-> path]
WhileStatement(condition, body) ==
    [kind |-> "WhileStatement", condition |-> condition, body |-> BlockStatement(body)]

Identifier(name)     == [kind |-> "Identifier", name |-> name]
IntegerLiteral(n)    == [kind |-> "IntegerLiteral", literal |-> Integer(n)]
FloatLiteral         == [kind |-> "FloatLiteral", literal |-> Float]
StringLiteral(s)     == [kind |-> "StringLiteral", literal |-> String(s)]
BooleanLiteral(b)    == [kind |-> "Boolean", boolean |-> b]
ArrayLiteral(elements)  == [kind |-> "ArrayLiteral", elements |-> elements]
\* pairs: [key, value, rank], rank the place of the key's text among the keys.
DictLiteral(pairs)      == [kind |-> "DictLiteral", pairs |-> pairs]
IndexExpression(left, index) == [kind |-> "IndexExpression", left |-> left, index |-> index]
PrefixExpression(operator, right) ==
    [kind |-> "PrefixExpression", operator |-> operator, right |-> right]
InfixExpression(left, operator, right) ==
    [kind |-> "InfixExpression", left |-> left, operator |-> operator, right |-> right]
AttributeAccess(object, property) ==
    [kind |-> "AttributeAccess", object |-> object, property |-> property]
CallExpression(function, arguments) ==
    [kind |-> "CallExpression", function |-> function, arguments |-> arguments]
IfExpression(condition, consequence, alternative) ==
    [kind        |-> "IfExpression",
     condition   |-> condition,
     consequence |-> BlockStatement(consequence),
     alternative |-> alternative]
FunctionLiteral(name, parameters, body) ==
    [kind |-> "FunctionLiteral", name |-> name, parameters |-> parameters,
     body |-> BlockStatement(body)]

\* parseVarStatement gives a function literal the name it is bound to.
VarFunction(name, parameters, body) ==
    VarStatement(name, FunctionLiteral(name, parameters, body))
=============================================================================
