-------------------------------- MODULE MCVM --------------------------------
(***************************************************************************)
(* The VM on bytecode put together by hand: every operator on every two    *)
(* kinds of values, and functions that call themselves until the frames,   *)
(* the stack or an array bound stops them, capture, return early, read     *)
(* locals that hold what an earlier call left, and loop.                   *)
(*                                                                         *)
(* The largest integer is 7, so that 7 + 3 overflows.                      *)
(***************************************************************************)
EXTENDS VM, SequencesExt

Instr(op, args) == [op |-> op, args |-> args]

Do(op) == <<Instr(op, <<>>)>>

With(op, arg) == <<Instr(op, <<arg>>)>>

Assemble(s) == FlattenSeq([k \in DOMAIN s |-> Make(s[k].op, s[k].args)])

\* Every program has these constants, and then its functions.
Pool == <<Integer(0), Integer(3), Integer(7), String("hour"), String("s"), Float>>

K(object) == With("OpConstant", (CHOOSE i \in DOMAIN Pool : Pool[i] = object) - 1)

Bytecode(s, functions) == [instructions |-> Assemble(s), constants |-> Pool \o functions]

Fn(s, numLocals, numParameters) == CompiledFunction(Assemble(s), numLocals, numParameters)

MCBuiltinResults == {Nil, OtherNull, OtherBoolean(FALSE), Error, Integer(3), Date([a \in {"hour"} |-> Integer(3)])}

\* Instructions that leave a value of each kind; global 1 is never set.
Call0    == With("OpGetBuiltin", 0) \o With("OpCall", 0)
Dict1    == K(String("s")) \o K(Integer(3)) \o With("OpDict", 2)
Triple   == K(Integer(7)) \o With("OpGetGlobal", 1) \o K(String("s")) \o With("OpArray", 3)
Producers == {K(c) : c \in ToSet(Pool)} \cup
    {Do("OpTrue"), Do("OpFalse"), Do("OpNull"), K(Integer(3)) \o Do("OpMinus"),
     With("OpGetBuiltin", 0), With("OpGetGlobal", 1), Call0, Dict1, Triple}

BinaryOps == ArithmeticOps \cup ComparisonOps \cup {"OpAnd", "OpOr", "OpIndex", "OpGetAttr"}

Operations ==
    {Bytecode(a \o b \o Do(op) \o Do("OpPop"), <<>>) : a, b \in Producers, op \in BinaryOps}
      \cup {Bytecode(a \o Do(op) \o With("OpSetGlobal", 0), <<>>) :
              a \in Producers, op \in {"OpMinus", "OpBang"}}
      \cup {Bytecode(a \o K(Integer(3)) \o With("OpCall", 1) \o Do("OpPop"), <<>>) : a \in Producers}
      \cup {Bytecode(a \o K(Integer(3)) \o b \o K(Integer(7)) \o With("OpDict", 4) \o a
                       \o Do("OpIndex") \o Do("OpPop"), <<>>) : a, b \in Producers}

F == Len(Pool)

MakeF(free) == <<Instr("OpClosure", <<F, free>>)>>

L(i) == With("OpGetLocal", i)

Main0 == MakeF(0) \o With("OpCall", 0) \o Do("OpPop")
Main1(arg) == MakeF(0) \o With("OpSetGlobal", 0) \o K(Integer(0)) \o With("OpGetGlobal", 0)
                \o K(arg) \o With("OpCall", 1) \o Do("OpAdd") \o Do("OpPop")

\* f(n): if n < 7 then n + f(n + 3) else 0, with two more locals or none.
Sum(locals) ==
    Fn(L(0) \o K(Integer(7)) \o Do("OpLessThan") \o With("OpJumpNotTruthy", 22)
         \o L(0) \o Do("OpCurrentClosure") \o L(0) \o K(Integer(3)) \o Do("OpAdd")
         \o With("OpCall", 1) \o Do("OpAdd") \o Do("OpReturnValue")
         \o K(Integer(0)) \o Do("OpReturnValue"), 1 + locals, 1)

\* A local read before it is set, then set; the next call finds what is left.
Stale == Fn(L(1) \o With("OpSetLocal", 2) \o L(0) \o With("OpSetLocal", 1) \o L(2)
              \o Do("OpReturnValue"), 3, 1)

\* Recursion that never ends, over six locals of which it first reads the last.
Deep == Fn(L(5) \o Do("OpPop") \o Do("OpCurrentClosure") \o L(0) \o With("OpCall", 1)
             \o Do("OpReturnValue"), 6, 1)

CallsTwice ==
    MakeF(0) \o With("OpSetGlobal", 0)
      \o With("OpGetGlobal", 0) \o K(Integer(7)) \o With("OpCall", 1) \o Do("OpPop")
      \o With("OpGetGlobal", 0) \o K(Integer(3)) \o With("OpCall", 1)
      \o Do("OpMinus") \o Do("OpPop")

\* f(n) makes g, which captures n and f and calls f again.
Maker == Fn(L(0) \o Do("OpCurrentClosure") \o <<Instr("OpClosure", <<F + 1, 2>>)>>
              \o With("OpSetLocal", 1) \o L(0) \o L(1) \o With("OpCall", 0)
              \o Do("OpNotEqual") \o Do("OpReturnValue"), 2, 1)
Captured == Fn(With("OpGetFree", 1) \o With("OpGetFree", 0) \o K(Integer(3)) \o Do("OpSub")
                 \o With("OpCall", 1) \o With("OpSetGlobal", 2) \o Do("OpReturn"), 0, 0)

\* while g0 < 7 { g0 = g0 + 3 }, with the jump back of the source or OpWhile.
Loop(back, end) ==
    K(Integer(0)) \o With("OpSetGlobal", 0)
      \o With("OpGetGlobal", 0) \o K(Integer(7)) \o Do("OpLessThan") \o With("OpJumpNotTruthy", end)
      \o With("OpGetGlobal", 0) \o K(Integer(3)) \o Do("OpAdd") \o With("OpSetGlobal", 0) \o back

Calls ==
    {Bytecode(Main1(arg), <<Sum(locals)>>) : arg \in {Integer(0), Integer(7), Float},
                                            locals \in 0..8}
      \cup {Bytecode(Main1(arg), <<f>>) : arg \in {Integer(3), Float},
              f \in {Stale, Deep, Fn(Do("OpReturn"), 1, 1), Fn(Do("OpReturn"), 0, 0)}}
      \cup {Bytecode(Main1(Integer(3)), <<Maker, Captured>>), Bytecode(CallsTwice, <<Stale>>),
            Bytecode(Main0, <<Fn(Do("OpCurrentClosure") \o With("OpCall", 0) \o Do("OpReturnValue"), 0, 0)>>),
            Bytecode(Loop(With("OpJump", 6), 29), <<>>),
            Bytecode(Loop(Do("OpTrue") \o <<Instr("OpWhile", <<6, 0>>)>>, 32), <<>>)}

MCPrograms == Operations \cup Calls
=============================================================================
