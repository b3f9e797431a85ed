---------------------------- MODULE SyntaxNodes ----------------------------
(***************************************************************************)
(* All the nodes of given trees: the value of Nodes (see Compiler) in an   *)
(* instance that lists its programs.                                       *)
(***************************************************************************)
EXTENDS Syntax, SequencesExt

\* What the fields of a node lead to.
Children(node) ==
    CASE node.kind \in {"Program", "BlockStatement"} -> ToSet(node.statements)
      [] node.kind = "ExpressionStatement"            -> {node.expression}
      [] node.kind \in {"VarStatement", "AssignStatement", "ReturnStatement"} -> {node.value}
      [] node.kind = "WhileStatement"                 -> {node.condition, node.body}
      [] node.kind = "ArrayLiteral"                   -> ToSet(node.elements)
      [] node.kind = "DictLiteral"                    ->
            UNION {{pair.key, pair.value} : pair \in ToSet(node.pairs)}
      [] node.kind = "IndexExpression"                -> {node.left, node.index}
      [] node.kind = "PrefixExpression"               -> {node.right}
      [] node.kind = "InfixExpression"                -> {node.left, node.right}
      [] node.kind = "AttributeAccess"                -> {node.object}
      [] node.kind = "CallExpression"                 -> {node.function} \cup ToSet(node.arguments)
      [] node.kind = "IfExpression"                   ->
            {node.condition, node.consequence} \cup ToSet(node.alternative)
      [] node.kind = "FunctionLiteral"                -> {node.body}
      [] OTHER                                        -> {}

\* A tree's node and all below it.
RECURSIVE NodesOf(_)
NodesOf(tree) == {tree} \cup UNION {NodesOf(child) : child \in Children(tree)}

NodesOfAll(trees) == UNION {NodesOf(tree) : tree \in trees}
=============================================================================
