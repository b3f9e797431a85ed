------------------------------ MODULE MCScoping ------------------------------
(***************************************************************************)
(* Functions in functions in functions, so that a capture is itself        *)
(* captured, over two names, one of them a builtin's; two definitions in   *)
(* each function, and parameter lists that repeat a name or use the        *)
(* function's own.                                                         *)
(***************************************************************************)
EXTENDS Scoping

MCNames == {"x", "sizeOf"}
MCBuiltins == <<"sizeOf">>
MCParams == {<<>>, <<"x", "x">>}
=============================================================================
