------------------------------ MODULE StackCache ------------------------------
(***************************************************************************)
(* From bytecode to running code: a block of bytecodes is decomposed into  *)
(* internal opcodes (makePCTable), block heads are marked                  *)
(* (makeBlockStructure), neighbours are merged (peepholeOptimization),     *)
(* every entry gets the state of the stack cache it starts in              *)
(* (updateStates), and the templates chosen by opcode and state are run,   *)
(* with the transitions between states that writeCode and                  *)
(* resolveExcRetSwitch put on jumps.  The result must be what the          *)
(* bytecodes mean (OperandStack).                                          *)
(*                                                                         *)
(* A block is part of a method: `linear` is the state updateStates has     *)
(* reached when it comes to the block, `heads` are the bytecodes in it     *)
(* that jumps from elsewhere reach, `env` is what run time decides.        *)
(***************************************************************************)
EXTENDS ObjectCode, OperandStack

CONSTANTS Blocks,       \* the blocks to compile: sequences of [op, n]
          Depth,        \* words on the operand stack when a block is entered
          Locals        \* number of local variables

\* No bytecode needs more than four words.
ASSUME DepthAssumption  == Depth \in Nat /\ \A p \in Blocks : 4 * Len(p) <= Depth
ASSUME LocalsAssumption == Locals \in Nat /\ Locals >= 2

VARIABLES prog,         \* the block
          heads, linear, env,
          phase,        \* how far compilation and execution are
          pctable,      \* the entries [op, n, b, head, state]
          enter,        \* the bytecode at which execution entered (< 0: caught)
          leave,        \* the bytecode with which it has left the block, or 0
          i,            \* the next entry to run
          st,           \* the state of the stack cache
          m             \* the machine

vars == <<prog, heads, linear, env, phase, pctable, enter, leave, i, st, m>>

-----------------------------------------------------------------------------
ConditionalJumps == {"ifeq", "iflt", "if_icmpeq", "if_icmplt"}
Switches         == {"tableswitch", "lookupswitch"}
Jumps            == ConditionalJumps \cup Switches \cup {"goto", "jsr", "ret"}
ArrayOps == {"iaload", "faload", "aaload", "baload", "caload", "saload", "laload", "daload",
             "iastore", "fastore", "aastore", "bastore", "castore", "sastore", "lastore",
             "dastore"}
AccessOps == {"getfield", "getfield2", "putfield", "putfield2", "arraylength", "monitorenter",
              "monitorexit"}
NewOps    == {"new", "newarray", "anewarray", "multianewarray"}
LongShifts == {"lshl", "lshr", "lushr"}

Ops(p) == {p[k].op : k \in DOMAIN p}

\* What run time decides, as far as it matters to the block: the build, where
\* the object or array is, the sign, bit 5 of the shift count, a null reference,
\* the jump and the state at its target, and whether the jump closes a loop that
\* needs a check for pending exceptions.
EnvsOf(p) ==
    {e \in [metavm : BOOLEAN, remote : BOOLEAN, near : {"no", "address", "class"}, null : BOOLEAN,
            neg : BOOLEAN, wide : BOOLEAN, taken : BOOLEAN, tgt : ST, loop : BOOLEAN] :
        /\ e.metavm => Ops(p) \cap (ArrayOps \cup AccessOps \cup NewOps) /= {}
        /\ e.remote => e.metavm
        /\ e.near /= "no" => e.remote /\ Ops(p) \cap NewOps /= {}
        /\ e.near = "class" => "new" \in Ops(p)
        /\ e.null => Ops(p) \cap {"checkcast", "instanceof"} /= {}
        /\ e.neg => Ops(p) \cap {"abs_int", "abs_long"} /= {}
        /\ e.wide => Ops(p) \cap LongShifts /= {}
        /\ e.taken => Ops(p) \cap ConditionalJumps /= {}
        /\ e.loop => Ops(p) \cap (ConditionalJumps \cup {"goto", "jsr"}) /= {}
        /\ e.tgt /= 0 => e.taken \/ Ops(p) \cap (Jumps \ (ConditionalJumps \cup {"ret"})) /= {}}

-----------------------------------------------------------------------------
(***************************************************************************)
(* Compilation.                                                            *)
(***************************************************************************)
\* Bytecodes that share an internal opcode (processAnOpcode).
Internal(op) ==
    CASE op \in {"aconst_null", "fconst_0"} -> "iconst_0"
      [] op = "dconst_0"                    -> "lconst_0"
      [] op \in {"fload", "aload"}          -> "iload"
      [] op = "dload"                       -> "lload"
      [] op \in {"faload", "aaload"}        -> "iaload"
      [] op = "daload"                      -> "laload"
      [] op \in {"fstore", "astore"}        -> "istore"
      [] op = "dstore"                      -> "lstore"
      [] op = "fastore"                     -> "iastore"
      [] op = "dastore"                     -> "lastore"
      [] OTHER                              -> op

\* invoke_core, by the words of the result.
InvokeCore(op) == <<"invoke_coreV", "invoke_coreI", "invoke_coreJ">>[Invokes[op] + 1]

\* The micro opcodes of a bytecode (makePCTable).
Decompose(op) ==
    CASE op \in {"iaload", "laload", "faload", "daload", "aaload", "baload", "caload", "saload"}
                                              -> <<"fill_cache", "array_check", op>>
      [] op \in {"lstore", "dstore", "lastore", "dastore"} -> <<"fill_cache", op>>
      [] op \in {"iastore", "fastore", "aastore", "bastore", "castore", "sastore"}
                                  -> <<"iastore1", "fill_cache", "array_check", op>>
      [] op \in {"fadd", "fmul"}  -> <<"flush_cache", "fld", op, "fst">>
      [] op \in {"fsub", "fdiv"}  -> <<"flush_cache", "fld4", op, "fst">>
      [] op \in {"dadd", "dmul"}  -> <<"flush_cache", "dld", op, "dst">>
      [] op \in {"dsub", "ddiv"}  -> <<"flush_cache", "dld8", op, "dst">>
      [] op \in {"i2f", "frem", "l2f"} -> <<"flush_cache", op, "fst">>
      [] op = "drem"              -> <<"fill_cache", op, "dst">>
      [] op \in {"i2d", "l2d"}    -> <<"flush_cache", op, "dst">>
      [] op = "f2d"               -> <<"flush_cache", "fld", op, "dst">>
      [] op = "d2f"               -> <<"flush_cache", "dld", op, "fst">>
      [] op \in {"invokespecialV", "invokespecialI", "invokespecialJ"} ->
           <<"stateto0", "inv_head", "inv_spe_obj", "invokespecial", "inv_spe_varspace",
             InvokeCore(op)>>
      [] op \in {"invokestaticV", "invokestaticI", "invokestaticJ"} ->
           <<"stateto0", "inv_head", "inv_stq_obj", "invokestatic_quick", "inv_stq_varspace",
             InvokeCore(op)>>
      [] op \in {"ireturn", "freturn", "areturn"} -> <<"stateto1", "return">>
      [] op \in {"lreturn", "dreturn"}            -> <<"stateto4", "return">>
      [] OTHER                    -> <<op>>

NoState == 15           \* -1 in the four bits of an entry's state

\* pctableAdd: an entry starts in state 0 and is no block head.
Entries(b) ==
    LET ops == Decompose(prog[b].op)
    IN  [k \in DOMAIN ops |-> [op |-> Internal(ops[k]), n |-> prog[b].n, b |-> b,
                               head |-> FALSE, state |-> 0]]

makePCTable ==
    /\ phase = "parse"
    /\ pctable' = FlattenSeq([b \in DOMAIN prog |-> Entries(b)])
    /\ phase' = "blocks"
    /\ UNCHANGED <<prog, heads, linear, env, enter, leave, i, st, m>>

\* The first entry of bytecode b.
pctableGetByPC(b) == CHOOSE k \in DOMAIN pctable :
                        /\ pctable[k].b = b
                        /\ \A j \in 1 .. k - 1 : pctable[j].b /= b

TargetFound(b) == \E k \in DOMAIN pctable : pctable[k].b = b

\* pctableInsert: the check goes before the jump that closes the loop.  It
\* belongs to the bytecode of the jump; the head mark stays with the jump.
WithCheck(e) ==
    IF env.loop /\ e.op \in ConditionalJumps \cup {"goto", "jsr"}
    THEN <<[e EXCEPT !.op = "exc_check", !.head = FALSE, !.state = NoState], e>>
    ELSE <<e>>

makeBlockStructure ==
    LET mark(k) == [pctable[k] EXCEPT !.head = \E b \in heads : k = pctableGetByPC(b)]
    IN  /\ phase = "blocks"
        /\ pctable' = FlattenSeq([k \in DOMAIN pctable |-> WithCheck(mark(k))])
        /\ phase' = "peephole"
        /\ UNCHANGED <<prog, heads, linear, env, enter, leave, i, st, m>>

\* Mutant: merging looks past block heads
FollowingPastHeads(t, k, n) ==
    IF k + n <= Len(t) THEN [j \in 1 .. n |-> t[k + j].op] ELSE <<>>

\* The opcodes of the n entries after t[k], when none of them is a block head.
Following(t, k, n) ==
    IF k + n <= Len(t) /\ \A j \in 1 .. n : ~t[k + j].head
    THEN [j \in 1 .. n |-> t[k + j].op]
    ELSE <<>>

\* t[k] and the n entries after it become es.
Rewrite(t, k, n, es) == SubSeq(t, 1, k - 1) \o es \o SubSeq(t, k + n + 1, Len(t))

PeepholeAt(t, k) ==
    IF k > Len(t) THEN t
    ELSE
    LET e  == t[k]
        op == e.op
        f1 == Following(t, k, 1)
        f2 == Following(t, k, 2)
        f4 == Following(t, k, 4)
        as(o, from) == [e EXCEPT !.op = o, !.n = from.n]
        flushed == [e EXCEPT !.op = "flush_cache"]
        same    == f1 /= <<>> /\ t[k + 1].n = e.n
    IN
    CASE op = "dst" /\ e.state = 0 /\ f2 = <<"flush_cache", "dld">> ->
            Rewrite(t, k, 2, <<t[k + 1]>>)
      [] op = "dst" /\ e.state = 0 /\ f2 = <<"fill_cache", "lstore">> ->
            Rewrite(t, k, 2, <<as("dst_dstore", t[k + 2])>>)
      [] op = "dst" /\ e.state = 0 /\ f2 = <<"fill_cache", "lastore">> /\ ~env.metavm ->
            Rewrite(t, k, 2, <<as("dst_dastore", e)>>)
      [] op = "fst" /\ e.state = 0 /\ f1 = <<"istore">> ->
            Rewrite(t, k, 1, <<as("fst_fstore", t[k + 1])>>)
      [] op = "fst" /\ e.state = 0 /\ f1 = <<"iastore1">> /\ f4 /= <<>> /\ ~env.metavm ->
            Rewrite(t, k, 3, <<as("fst_fastore", t[k + 4])>>)    \* the store stays
      [] op = "iload" /\ f2 = <<"flush_cache", "fld">> ->
            Rewrite(t, k, 2, <<flushed, [t[k + 1] EXCEPT !.op = "fload_fld", !.n = e.n]>>)
      [] op = "lload" /\ f2 = <<"flush_cache", "dld">> ->
            Rewrite(t, k, 2, <<flushed, [t[k + 1] EXCEPT !.op = "dload_dld", !.n = e.n]>>)
      [] op = "istore" /\ f1 = <<"iload">> /\ same -> Rewrite(t, k, 1, <<as("istld", e)>>)
      [] op = "lstore" /\ f1 = <<"lload">> /\ same -> Rewrite(t, k, 1, <<as("lstld", e)>>)
      [] op = "iaload" /\ f2 = <<"flush_cache", "fld">> ->
            Rewrite(t, k, 2, <<as("faload_fld", e)>>)
      [] op = "laload" /\ f2 = <<"flush_cache", "dld">> ->
            Rewrite(t, k, 2, <<as("daload_dld", e)>>)
      [] OTHER -> t

peepholeOptimization ==
    /\ phase = "peephole"
    /\ pctable' = FoldLeft(PeepholeAt, pctable, [k \in DOMAIN pctable |-> k])
    /\ phase' = "states"
    /\ UNCHANGED <<prog, heads, linear, env, enter, leave, i, st, m>>

\* The state an entry leaves; after a call, the result is in edx or in ecx, edx.
LastState(e, s) ==
    LET last == CodeAt(e.op, e.n, env, s).last
    IN  CASE e.op = "invoke_coreI" -> 1
          [] e.op = "invoke_coreJ" -> 4
          [] last = STSTA          -> s
          [] OTHER                 -> last

\* The state an entry is given, and the state for the one after it.
StateOf(e, s)    == IF e.op = "return" THEN 0 ELSE s
StateAfter(e, s) ==
    IF e.op \in Switches \cup {"goto", "jsr", "ret", "athrow"} THEN 0 ELSE LastState(e, s)

updateStates ==
    LET step(acc, e) == [tab   |-> Append(acc.tab, [e EXCEPT !.state = StateOf(e, acc.state)]),
                         state |-> StateAfter(e, acc.state)]
    IN  /\ phase = "states"
        /\ pctable' = FoldLeft(step, [tab |-> <<>>, state |-> linear], pctable).tab
        /\ phase' = "compiled"
        /\ UNCHANGED <<prog, heads, linear, env, enter, leave, i, st, m>>

-----------------------------------------------------------------------------
(***************************************************************************)
(* Execution.                                                              *)
(***************************************************************************)
Cached(s) == <<<<>>, <<"edx">>, <<"edx", "ecx">>, <<"ecx">>, <<"ecx", "edx">>>>[s + 1]

\* The operand stack as the cache state s has it.
StackOf(s, mach) ==
    [k \in 1 .. mach.esp |-> mach.mem[k]]
    \o [k \in DOMAIN Cached(s) |-> mach.reg[Cached(s)[k]]]

\* A machine with the given operand stack, its topmost words in the cache.
Machine(s, stack) ==
    LET c == Cached(s)
        e == Len(stack) - Len(c)
    IN  [reg  |-> [r \in {"eax", "ecx", "edx", "edi"} |->
                     IF \E k \in DOMAIN c : c[k] = r
                     THEN stack[e + CHOOSE k \in DOMAIN c : c[k] = r] ELSE Junk],
         mem  |-> [k \in 1 .. Depth + 16 |-> IF k <= e THEN stack[k] ELSE Junk],
         esp  |-> e,
         fpu  |-> <<>>,
         cf   |-> Junk,
         vars |-> [k \in 0 .. Locals - 1 |-> <<"v", k>>],
         stat |-> [k \in 0 .. 1 |-> <<"s", k>>],
         out  |-> <<>>]

EntryStack == [k \in 1 .. Depth |-> <<"w", k>>]

\* Control reaches bytecode b: from the entry before or by a jump.
EnterAt(b) ==
    /\ phase = "compiled"
    /\ b = 1 \/ b \in heads
    /\ TargetFound(b)
    /\ enter' = b
    /\ i' = pctableGetByPC(b)
    /\ st' = pctable[i'].state
    /\ m' = Machine(st', EntryStack)
    /\ phase' = "run"
    /\ UNCHANGED <<prog, heads, linear, env, pctable, leave>>

Enter == \E b \in DOMAIN prog : EnterAt(b)

(***************************************************************************)
(* Bytecode b is an exception handler: code.c drops the operand stack,     *)
(* pushes the exception and shifts to the handler's state.  Words are      *)
(* cached only if they exist, so that state is 0, 1 or 3.                  *)
(***************************************************************************)
exc_handler(b) ==
    LET s == pctable[pctableGetByPC(b)].state
        shift == CASE s = 0 -> <<>> [] s = 1 -> <<popl(edx)>> [] s = 3 -> <<popl(ecx)>>
    IN  /\ phase = "compiled"
        /\ b = 1 \/ b \in heads
        /\ TargetFound(b)
        /\ s \in {0, 1, 3}
        /\ enter' = -b
        /\ i' = pctableGetByPC(b)
        /\ st' = s
        /\ m' = Run(Machine(0, <<>>), <<pushl(Imm(<<"exception">>))>> \o shift)
        /\ phase' = "run"
        /\ UNCHANGED <<prog, heads, linear, env, pctable, leave>>

Catch == Last(prog).op \in {"astore", "pop"} /\ exc_handler(Len(prog))

\* The words a return instruction passes to the epilogue.
Returned(op) == CASE op = "return" -> <<>>
                  [] op \in {"ireturn", "freturn", "areturn"} -> <<edx>>
                  [] op \in {"lreturn", "dreturn"} -> <<ecx, edx>>

\* The state at the target when the entry leaves the block, and whether it does.
Leaves(e) == \/ e.op \in (Jumps \ ConditionalJumps) \cup {"return", "athrow"}
             \/ e.op \in ConditionalJumps /\ env.taken
TargetState(e) == IF e.op = "ret" THEN 0 ELSE env.tgt

writeCode ==
    LET e    == pctable[i]
        code == CodeAt(e.op, e.n, env, e.state).insns
        last == LastState(e, e.state)
        exit == IF e.op = "return" THEN <<effect("return", Returned(prog[e.b].op))>>
                ELSE IF ~Leaves(e) \/ e.op = "athrow" THEN <<>>
                ELSE IF e.op \in Switches THEN goto_st(TargetState(e))[last].insns
                ELSE stateto(TargetState(e))[last].insns
    IN  /\ phase = "run" /\ i <= Len(pctable)
        /\ m' = Run(m, code \o exit)
        /\ st' = IF Leaves(e) /\ e.op \notin {"return", "athrow"} THEN TargetState(e) ELSE last
        /\ i' = IF Leaves(e) THEN Len(pctable) + 1 ELSE i + 1
        /\ leave' = IF Leaves(e) THEN e.b ELSE leave
        /\ UNCHANGED <<prog, heads, linear, env, phase, pctable, enter>>

Finished == phase = "run" /\ i > Len(pctable)
LastRun  == IF leave = 0 THEN Len(prog) ELSE leave

-----------------------------------------------------------------------------
Init ==
    /\ prog \in Blocks
    /\ heads \in SUBSET (2 .. Len(prog))
    /\ linear \in ST
    /\ env \in EnvsOf(prog)
    /\ phase = "parse"
    /\ pctable = <<>>
    /\ enter = 0 /\ leave = 0 /\ i = 0 /\ st = 0
    /\ m = Machine(0, <<>>)

Next == \/ makePCTable \/ makeBlockStructure \/ peepholeOptimization \/ updateStates
        \/ Enter \/ Catch \/ writeCode

Spec == Init /\ [][Next]_vars

-----------------------------------------------------------------------------
(***************************************************************************)
(* Properties.                                                             *)
(***************************************************************************)
\* What the bytecodes from the entry point up to bytecode b mean.
Meaning(b) ==
    LET first == IF enter < 0 THEN -enter ELSE enter
        start == [stack |-> IF enter < 0 THEN <<<<"exception">>>> ELSE EntryStack,
                  vars  |-> Machine(0, <<>>).vars, stat |-> Machine(0, <<>>).stat,
                  out   |-> <<>>]
        step(s, x) == JVM(s, x, env)
    IN  FoldLeft(step, start, SubSeq(prog, first, b))

\* The machine is in the state that the bytecodes up to b lead to, whatever
\* words are cached, and nothing is left on the FPU stack.
Agrees(b) ==
    LET r == Meaning(b)
    IN  /\ StackOf(st, m) = r.stack
        /\ m.vars = r.vars /\ m.stat = r.stat
        /\ m.out = r.out
        /\ m.fpu = <<>>

\* Entries whose code does not do what its bytecode means: three for remote
\* arrays, Math.abs() of a word in memory and of a double in state 4.
Flawed(e) == \/ env.remote /\ e.op \in {"lastore", "faload_fld", "daload_dld"}
             \/ e.op \in {"abs_int", "abs_float"} /\ e.state = 0
             \/ e.op = "abs_double" /\ e.state \in {1, 4}
HasFlaw == \E k \in DOMAIN pctable : Flawed(pctable[k])

\* Compiled code computes what the bytecodes mean: after the whole block, for
\* every state the block may start in, every peephole merge and every state at
\* the jump's target, the operand stack, the variables, the checks and the
\* stores are those of the Java VM.
BlockCorrect == Finished /\ ~HasFlaw => Agrees(LastRun)

\* A block head may be entered from elsewhere.  The optimizer deletes no entry a
\* jump needs (sysAssert(tgttable != NULL) in writeCode), and the code that falls
\* into a head has completed the bytecodes before it, in the state the head is
\* compiled for: no merge reaches across a head.
HeadsAgree ==
    /\ phase \in {"compiled", "run"} => \A b \in heads \cup {1} : TargetFound(b)
    /\ phase = "run" /\ i \in DOMAIN pctable /\ pctable[i].head /\ ~HasFlaw
           => st = pctable[i].state /\ Agrees(pctable[i].b - 1)

=============================================================================
