--------------------------- MODULE MCStackMachine ---------------------------
(***************************************************************************)
(* The stack machine on every program that can be put together from a few  *)
(* instructions, as long as it verifies: a main program of up to four      *)
(* instructions and a function of up to four, with jumps among them.  The  *)
(* function has a parameter or none and two locals or none; a call may     *)
(* always enter it again, from itself as well.                             *)
(***************************************************************************)
EXTENDS StackMachine, SequencesExt

Instr(op, args) == [op |-> op, args |-> args]

Assemble(s) == FlattenSeq([k \in DOMAIN s |-> Make(s[k].op, s[k].args)])

JumpsNotTruthy(targets) == {Instr("OpJumpNotTruthy", <<t>>) : t \in targets}

MainInstructions ==
    {Instr("OpNull", <<>>), Instr("OpPop", <<>>), Instr("OpCall", <<0>>), Instr("OpCall", <<1>>)}
        \cup JumpsNotTruthy(0..8)

FunctionInstructions ==
    {Instr("OpNull", <<>>), Instr("OpCall", <<0>>), Instr("OpCall", <<1>>),
     Instr("OpGetLocal", <<0>>), Instr("OpGetLocal", <<1>>), Instr("OpSetLocal", <<1>>)}
        \cup JumpsNotTruthy(4..6)

LastInstructions == {Instr("OpReturnValue", <<>>), Instr("OpReturn", <<>>), Instr("OpJump", <<0>>)}

\* No instruction that control never reaches.
Live(fn) ==
    \A p \in 0..(Len(fn.instructions) - 1) :
        IsHead(fn.instructions, p) => p \in DOMAIN Heights(fn.instructions)

Mains ==
    {fn \in {Main(Assemble(s)) : s \in BoundedSeq(MainInstructions, 4)} :
        StackSound(fn, TRUE) /\ Live(fn)}

Functions ==
    {fn \in {CompiledFunction(Assemble(Append(s, last)), shape[1], shape[2]) :
                s \in BoundedSeq(FunctionInstructions, 3), last \in LastInstructions,
                shape \in {<<0, 0>>, <<2, 1>>}} :
        WellFormed(fn) /\ StackSound(fn, FALSE) /\ Live(fn)}

MCInit ==
    /\ main \in Mains
    /\ functions \in {{fn} : fn \in Functions}
    /\ Init

MCSpec == MCInit /\ [][Next]_vars
=============================================================================
