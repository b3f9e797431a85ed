---------------------------- MODULE LexicalScopes ----------------------------
(***************************************************************************)
(* What name resolution promises: lexical scoping.  An identifier denotes  *)
(* the latest declaration of its name in the innermost enclosing function  *)
(* that declares it, however many functions lie between the two.           *)
(*                                                                         *)
(* A declaration is identified by <<depth, kind, n>>: the nesting depth of *)
(* the function it belongs to and, for the kind "slot" (a parameter, a var *)
(* statement), which declaration of that function it is.                   *)
(***************************************************************************)
EXTENDS Integers, Sequences

CONSTANTS
    Names,      \* identifiers
    Builtins,   \* names of builtin functions, in the order of the table
    Params,     \* parameter lists: sequences of names
    NoName      \* the name of an anonymous function

VARIABLES
    env,        \* per function, outermost first: its names and what they denote
    count,      \* per function: how many slots it has declared
    reference   \* what the last use denotes: <<declaration>>, <<>> if nothing

vars == <<env, count, reference>>

Positions(s, x) == {i \in DOMAIN s : s[i] = x}

LastPosition(s, x) == CHOOSE i \in Positions(s, x) : \A j \in Positions(s, x) : j <= i

BuiltinScope ==
    [x \in {Builtins[i] : i \in DOMAIN Builtins} |->
        <<1, "builtin", LastPosition(Builtins, x) - 1>>]

Init == /\ env = <<BuiltinScope>>
        /\ count = <<0>>
        /\ reference = <<>>

\* A later parameter hides an earlier one and the function's own name.
FunctionScope(depth, self, params) ==
    [x \in ({self} \ {NoName}) \cup {params[i] : i \in DOMAIN params} |->
        IF Positions(params, x) # {}
        THEN <<depth, "slot", LastPosition(params, x) - 1>>
        ELSE <<depth, "self", 0>>]

EnterFunction(self, params) ==
    /\ count' = Append(count, Len(params))
    /\ env' = Append(env, FunctionScope(Len(env) + 1, self, params))
    /\ reference' = <<>>

Declare(name) ==
    LET depth == Len(count)
    IN  /\ count' = [count EXCEPT ![depth] = @ + 1]
        /\ env' = [env EXCEPT ![depth] =
                      [x \in DOMAIN @ \cup {name} |->
                         IF x = name THEN <<depth, "slot", count[depth]>> ELSE @[x]]]
        /\ reference' = <<>>

Declaring(name) == {k \in DOMAIN env : name \in DOMAIN env[k]}

Innermost(name) == CHOOSE k \in Declaring(name) : \A j \in Declaring(name) : j <= k

Use(name) ==
    /\ UNCHANGED count
    /\ reference' = IF Declaring(name) = {} THEN <<>>
                    ELSE <<env[Innermost(name)][name]>>
    /\ UNCHANGED env

LeaveFunction ==
    /\ Len(count) > 1
    /\ count' = SubSeq(count, 1, Len(count) - 1)
    /\ env' = SubSeq(env, 1, Len(env) - 1)
    /\ reference' = <<>>

Next == \/ \E self \in Names \cup {NoName}, params \in Params : EnterFunction(self, params)
        \/ \E name \in Names : Declare(name) \/ Use(name)
        \/ LeaveFunction

Spec == Init /\ [][Next]_vars
=============================================================================
