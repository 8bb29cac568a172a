------------------------------ MODULE CodeTable ------------------------------
(***************************************************************************)
(* code_table[opcode][state]: the templates of code.c, translated one      *)
(* opcode (or one CODE_* macro) at a time.  A template is a function from  *)
(* the states it exists in to the instructions it executes and its last    *)
(* state.                                                                  *)
(***************************************************************************)
EXTENDS NativeCode

Code(last, insns) == [last |-> last, insns |-> insns]

\* A template given for the states 0 to 4, for 2 and 4, and for all alike.
By(codes)    == [st \in ST |-> codes[st + 1]]
By24(c2, c4) == [st \in {2, 4} |-> IF st = 2 THEN c2 ELSE c4]
STANY(insns) == [st \in ST |-> Code(STSTA, insns)]

\* The registers that hold the topmost and the second word in states 2 and 4.
OPTOP1(st) == IF st = 2 THEN ecx ELSE edx
OPTOP2(st) == IF st = 2 THEN edx ELSE ecx

-----------------------------------------------------------------------------
(***************************************************************************)
(* Transitions between states.                                             *)
(***************************************************************************)
fill_cache ==
    By(<<Code(2, <<popl(ecx), popl(edx)>>), Code(4, <<popl(ecx)>>), Code(2, <<>>),
         Code(2, <<popl(edx)>>), Code(4, <<>>)>>)

flush_cache ==
    By(<<Code(0, <<>>), Code(0, <<pushl(edx)>>), Code(0, <<pushl(edx), pushl(ecx)>>),
         Code(0, <<pushl(ecx)>>), Code(0, <<pushl(ecx), pushl(edx)>>)>>)

stateto0 == flush_cache

stateto1 ==
    By(<<Code(1, <<popl(edx)>>), Code(1, <<>>), Code(1, <<pushl(edx), movl(ecx, edx)>>),
         Code(1, <<movl(ecx, edx)>>), Code(1, <<pushl(ecx)>>)>>)

stateto2 ==
    By(<<Code(2, <<popl(ecx), popl(edx)>>), Code(2, <<movl(edx, ecx), popl(edx)>>),
         Code(2, <<>>), Code(2, <<popl(edx)>>), Code(2, <<xchg>>)>>)

stateto3 ==
    By(<<Code(3, <<popl(ecx)>>), Code(3, <<movl(edx, ecx)>>), Code(3, <<pushl(edx)>>),
         Code(3, <<>>), Code(3, <<pushl(ecx), movl(edx, ecx)>>)>>)

stateto4 ==
    By(<<Code(4, <<popl(edx), popl(ecx)>>), Code(4, <<popl(ecx)>>), Code(4, <<xchg>>),
         Code(4, <<movl(ecx, edx), popl(ecx)>>), Code(4, <<>>)>>)

stateto(t) == <<stateto0, stateto1, stateto2, stateto3, stateto4>>[t + 1]

\* The trampolines of switch instructions: the same, then jmp *%eax.
goto_st(t) == stateto(t)

Flush(st) == flush_cache[st].insns

\* Reach state 2 or 4, then do what body does with the two topmost words.
After24(body(_, _)) ==
    [st \in ST |-> LET c == fill_cache[st]
                   IN  Code(c.last, c.insns \o body(OPTOP1(c.last), OPTOP2(c.last)))]

\* Registers saved around a call of a C function (FUNCCALL_IN, FUNCCALL_OUT).
FUNCCALL_IN(st)  == Flush(st)
FUNCCALL_OUT(st) == stateto(st)[0].insns

-----------------------------------------------------------------------------
(***************************************************************************)
(* Constants and local variables.                                          *)
(***************************************************************************)
PushWord(src) ==
    By(<<Code(1, <<movl(src, edx)>>), Code(2, <<movl(src, ecx)>>),
         Code(4, <<pushl(edx), movl(src, edx)>>), Code(4, <<movl(src, edx)>>),
         Code(2, <<pushl(ecx), movl(src, ecx)>>)>>)

\* Two words: spill what is cached, then load both registers.
PushPair(lasts, hi, lo) ==
    [st \in ST |-> LET t == lasts[st + 1]
                   IN  Code(t, Flush(st) \o <<movl(lo, OPTOP1(t)), movl(hi, OPTOP2(t))>>)]

iconst_0  == PushWord(Imm(Zero))
iconst_n  == PushWord(Imm(<<"n">>))
lconst_0  == PushPair(<<2, 2, 2, 2, 2>>, Imm(Zero), Imm(Zero))
lconst_1  == PushPair(<<2, 2, 4, 4, 2>>, Imm(Zero), Imm(<<"1">>))
fconst_n  == PushWord(Imm(<<"f">>))
dconst_1  == PushPair(<<2, 4, 2, 2, 4>>, Imm(<<"0x3ff00000">>), Imm(Zero))
bipush    == PushWord(Imm(<<"const">>))
ldc2_w    == PushPair(<<2, 4, 2, 2, 4>>, Imm(<<"val[32:63]">>), Imm(<<"val[0:31]">>))
iload(n)  == PushWord(Var(n))
lload(n)  == PushPair(<<2, 2, 4, 4, 2>>, Var(n + 1), Var(n))

\* Pushes the value on the FPU stack and only makes room on the stack.
fload_fld(n) == [st \in {0} |-> Code(STSTA, <<addlesp(-1), flds(Var(n))>>)]
dload_dld(n) == [st \in {0} |-> Code(STSTA, <<addlesp(-2), fldl(Var(n))>>)]

CODE_ISTORE(n, lasts) ==
    LET d == Var(n)
    IN  By(<<Code(lasts[1], <<popl(edx), movl(edx, d)>>), Code(lasts[2], <<movl(edx, d)>>),
             Code(lasts[3], <<movl(ecx, d)>>), Code(lasts[4], <<movl(ecx, d)>>),
             Code(lasts[5], <<movl(edx, d)>>)>>)
istore(n) == CODE_ISTORE(n, <<0, 0, 1, 0, 3>>)

\* Mutant: the merged store drops the value like a store
istldDrops(n) == CODE_ISTORE(n, <<0, 0, 1, 0, 3>>)

istld(n)  == CODE_ISTORE(n, <<1, 1, 2, 3, 4>>)

CODE_LSTORE(n, last2, last4) ==
    By24(Code(last2, <<movl(ecx, Var(n)), movl(edx, Var(n + 1))>>),
         Code(last4, <<movl(edx, Var(n)), movl(ecx, Var(n + 1))>>))
lstore(n) == CODE_LSTORE(n, 0, 0)
lstld(n)  == CODE_LSTORE(n, 2, 4)

fst_fstore(n) == [st \in {0} |-> Code(0, <<addlesp(1), fstps(Var(n))>>)]
dst_dstore(n) == [st \in {0} |-> Code(0, <<addlesp(2), fstpl(Var(n))>>)]

iinc(n) == STANY(<<alu("add", Imm(<<"inc">>), Var(n))>>)

CODE_GETSTATIC == PushWord(Static(0))
CODE_PUTSTATIC ==
    LET d == Static(0)
    IN  By(<<Code(0, <<popl(edx), movl(edx, d)>>), Code(0, <<movl(edx, d)>>),
             Code(1, <<movl(ecx, d)>>), Code(0, <<movl(ecx, d)>>), Code(3, <<movl(edx, d)>>)>>)
CODE_GETSTATIC2 == PushPair(<<2, 2, 4, 4, 2>>, Static(1), Static(0))
CODE_PUTSTATIC2 ==
    LET body(t1, t2) == <<movl(t1, Static(0)), movl(t2, Static(1))>>
    IN  [st \in ST |-> Code(0, After24(body)[st].insns)]

-----------------------------------------------------------------------------
(***************************************************************************)
(* Arrays.  In state 2 the handle is in edx and the index in ecx, in state *)
(* 4 the other way round.                                                  *)
(***************************************************************************)
\* JUMP_IF_NOT_PROXY and JUMP_IF_NOT_REMOTE destroy edi.
ProxyTest(env) == IF env.metavm THEN <<clobber(edi)>> ELSE <<>>

UNHAND(handle, dst)     == <<movl(handle, dst), un("body", dst)>>
OBJ_LENGTH(handle, dst) == <<movl(handle, dst), un("len", dst)>>

\* The other machine checks the index when the array is remote.
ARRAY_CHECK(env, handle, index) ==
    IF env.remote THEN <<>>
    ELSE <<effect("check", <<handle, index>>)>> \o OBJ_LENGTH(handle, edi)

array_check(env) ==
    By24(Code(2, ARRAY_CHECK(env, edx, ecx)), Code(4, ARRAY_CHECK(env, ecx, edx)))

METAVM_READ(kind, handle, slot, tgt, st) ==
    <<clobber(edi)>> \o FUNCCALL_IN(st)
    \o <<pushl(slot), pushl(handle), pushl(Imm(EE)), call("aload", kind), popl(edi), addlesp(2)>>
    \o FUNCCALL_OUT(st) \o <<movl(eax, tgt), clobber(edi)>>

METAVM_READ2(handle, slot, low, high) ==
    <<clobber(edi), pushl(slot), pushl(handle), pushl(Imm(EE)), call("aload64", Zero),
      movl(edx, high), popl(edi), movl(eax, low), addlesp(2), clobber(edi)>>

METAVM_WRITE(kind, handle, slot, val, st) ==
    <<clobber(edi)>> \o FUNCCALL_IN(st)
    \o <<pushl(val), pushl(slot), pushl(handle), pushl(Imm(EE)), call("astore", kind),
         popl(edi), addlesp(3)>>
    \o FUNCCALL_OUT(st) \o <<clobber(edi)>>

\* iaload, baload, caload, saload
xaload(env, kind) ==
    LET code(h, i) == IF env.remote THEN METAVM_READ(kind, h, i, h, 0)
                      ELSE ProxyTest(env) \o UNHAND(h, eax) \o <<movl(At(kind, eax, i), h)>>
    IN  By24(Code(1, code(edx, ecx)), Code(3, code(ecx, edx)))

iaload(env) == xaload(env, <<"i">>)
baload(env) == xaload(env, <<"b">>)
caload(env) == xaload(env, <<"c">>)
saload(env) == xaload(env, <<"s">>)

laload(env) ==
    LET code(h, i) ==
          IF env.remote THEN METAVM_READ2(h, i, h, i)
          ELSE ProxyTest(env) \o UNHAND(h, eax)
               \o <<movl(At(<<"lo">>, eax, i), h), movl(At(<<"hi">>, eax, i), i)>>
    IN  By24(Code(4, code(edx, ecx)), Code(2, code(ecx, edx)))

\* The value goes to the FPU stack and no room is made on the stack: the
\* states 1 and 2 tell fadd, dadd and the like so.
faload_fld(env) ==
    LET code(h, i) == IF env.remote THEN METAVM_READ(<<"i">>, h, i, h, 0)
                      ELSE ProxyTest(env) \o UNHAND(h, eax) \o <<flds(At(<<"i">>, eax, i))>>
    IN  By24(Code(1, code(edx, ecx)), Code(1, code(ecx, edx)))

daload_dld(env) ==
    LET code(h, i) == IF env.remote THEN METAVM_READ2(h, i, h, i)
                      ELSE ProxyTest(env) \o UNHAND(h, eax) \o <<fldl(At(<<"lo">>, eax, i))>>
    IN  By24(Code(2, code(edx, ecx)), Code(2, code(ecx, edx)))

iastore1 ==
    By(<<Code(0, <<popl(eax)>>), Code(0, <<movl(edx, eax)>>), Code(1, <<movl(ecx, eax)>>),
         Code(0, <<movl(ecx, eax)>>), Code(3, <<movl(edx, eax)>>)>>)

\* iastore, bastore, castore, sastore
xastore(env, kind) ==
    LET code(st) ==
          IF env.remote THEN METAVM_WRITE(kind, OPTOP2(st), OPTOP1(st), eax, st)
          ELSE ProxyTest(env) \o UNHAND(OPTOP2(st), edi)
               \o <<effect("store", <<Imm(kind), edi, OPTOP1(st), eax>>)>>
    IN  By24(Code(0, code(2)), Code(0, code(4)))

iastore(env) == xastore(env, <<"i">>)
bastore(env) == xastore(env, <<"b">>)
castore(env) == xastore(env, <<"c">>)
sastore(env) == xastore(env, <<"s">>)

\* Without MetaVM edi still holds the length from array_check.
aastore(env) ==
    LET test(obj) ==
          <<pushl(eax)>> \o FUNCCALL_IN(2)
          \o <<pushl(Imm(EE)), op2("class", obj, edi, edi), pushl(edi), pushl(eax),
               call("is_instance_of", Zero), addlesp(3)>>
          \o FUNCCALL_OUT(2) \o <<popl(eax)>>
        code(st) ==
          LET h == OPTOP2(st)
          IN  IF env.remote THEN METAVM_WRITE(<<"a">>, h, OPTOP1(st), eax, st)
              ELSE ProxyTest(env) \o (IF env.metavm THEN OBJ_LENGTH(h, edi) ELSE <<>>)
                   \o UNHAND(h, h) \o test(h)
                   \o <<effect("store", <<Imm(<<"a">>), h, OPTOP1(st), eax>>)>>
    IN  By24(Code(0, code(2)), Code(0, code(4)))

\* The handle is in edi, the slot in eax; local is done unless the object is remote.
METAVM_WRITE2(env, lo, hi, st, local) ==
    (IF env.metavm
     THEN <<pushl(eax), pushl(edi), movl(edi, eax), clobber(edi), popl(edi), popl(eax)>>
     ELSE <<>>)
    \o IF env.remote
       THEN FUNCCALL_IN(st)
            \o <<pushl(hi), pushl(lo), pushl(eax), pushl(edi), pushl(Imm(EE)),
                 call("astore64", Zero), popl(edi), addlesp(4)>>
            \o FUNCCALL_OUT(st) \o <<clobber(edi)>>
       ELSE local

\* METAVM_WRITE2 jumps to the end of the template: over popl %edi.
lastore(env) ==
    LET lo(st) == OPTOP1(st)
        hi(st) == OPTOP2(st)
        local(st) == ARRAY_CHECK(env, edi, eax) \o <<popl(edi)>> \o UNHAND(edi, edi)
                     \o <<effect("store64", <<edi, eax, hi(st), lo(st)>>)>>
        code(st) == <<popl(eax), movl(Stk(0), edi)>>
                    \o METAVM_WRITE2(env, lo(st), hi(st), st, local(st))
    IN  By24(Code(0, code(2)), Code(0, code(4)))

\* Only without MetaVM.
fst_fastore ==
    [st \in {0} |->
       Code(0, <<popl(eax), popl(ecx), popl(edx), effect("check", <<edx, ecx>>)>>
               \o UNHAND(edx, edi)
               \o <<fstps(eax), effect("store", <<Imm(<<"i">>), edi, ecx, eax>>)>>)]

dst_dastore ==
    [st \in {0} |->
       Code(0, <<movl(Stk(2), eax), movl(Stk(3), edi), effect("check", <<edi, eax>>),
                 movl(Stk(3), edi)>>
               \o UNHAND(edi, edi)
               \o <<fstpl(Stk(0)), effect("store64", <<edi, eax, Stk(1), Stk(0)>>),
                    addlesp(4)>>)]

-----------------------------------------------------------------------------
(***************************************************************************)
(* Stack manipulation.                                                     *)
(***************************************************************************)
pop  == By(<<Code(0, <<addlesp(1)>>), Code(0, <<>>), Code(1, <<>>), Code(0, <<>>), Code(3, <<>>)>>)
pop2 == By(<<Code(0, <<addlesp(2)>>), Code(0, <<addlesp(1)>>), Code(0, <<>>),
             Code(0, <<addlesp(1)>>), Code(0, <<>>)>>)

dup ==
    By(<<Code(1, <<movl(Stk(0), edx)>>), Code(2, <<movl(edx, ecx)>>),
         Code(2, <<pushl(edx), movl(ecx, edx)>>), Code(2, <<movl(ecx, edx)>>),
         Code(2, <<pushl(ecx), movl(edx, ecx)>>)>>)

dup_x1 ==
    By(<<Code(2, <<popl(ecx), popl(edx), pushl(ecx)>>), Code(4, <<popl(ecx), pushl(edx)>>),
         Code(2, <<pushl(ecx)>>), Code(2, <<popl(edx), pushl(ecx)>>), Code(4, <<pushl(edx)>>)>>)

dup_x2 ==
    LET body(t1, t2) == <<popl(eax), pushl(t1), pushl(eax)>> IN After24(body)

dup2 ==
    By(<<Code(2, <<popl(ecx), popl(edx), addlesp(-2)>>),
         Code(4, <<movl(Stk(0), ecx), pushl(edx)>>), Code(2, <<pushl(edx), pushl(ecx)>>),
         Code(2, <<movl(Stk(0), edx), pushl(ecx)>>), Code(4, <<pushl(ecx), pushl(edx)>>)>>)

dup2_x1 ==
    LET body(t1, t2) == <<popl(eax), pushl(t2), pushl(t1), pushl(eax)>> IN After24(body)

dup2_x2 ==
    LET body(t1, t2) == <<popl(eax), popl(edi), pushl(t2), pushl(t1), pushl(edi), pushl(eax)>>
    IN  After24(body)

swap ==
    By(<<Code(4, <<popl(ecx), popl(edx)>>), Code(2, <<popl(ecx)>>), Code(4, <<>>),
         Code(4, <<popl(edx)>>), Code(2, <<>>)>>)

-----------------------------------------------------------------------------
(***************************************************************************)
(* Integer arithmetic.                                                     *)
(***************************************************************************)
CODE_ARITH_INT(rop) ==
    By(<<Code(1, <<popl(ecx), popl(edx), alu(rop, ecx, edx)>>),
         Code(3, <<popl(ecx), alu(rop, edx, ecx)>>), Code(1, <<alu(rop, ecx, edx)>>),
         Code(1, <<popl(edx), alu(rop, ecx, edx)>>), Code(3, <<alu(rop, edx, ecx)>>)>>)

\* idiv, irem: the quotient is in eax, the remainder in edx.
CODE_ARITH_INT_TEST(result) ==
    LET div == <<effect("divisor", <<ecx>>), op2("irem", eax, ecx, edx),
                 op2("idiv", eax, ecx, eax), movl(result, ecx)>>
    IN  By(<<Code(3, <<popl(ecx), popl(eax)>> \o div),
             Code(3, <<popl(eax), movl(edx, ecx)>> \o div),
             Code(3, <<movl(edx, eax)>> \o div), Code(3, <<popl(eax)>> \o div),
             Code(3, <<movl(ecx, eax), movl(edx, ecx)>> \o div)>>)

CODE_ARITH_LONG_SUB(rop1, rop2) ==
    LET head == By(<<Code(2, <<popl(eax), popl(edi)>>), Code(4, <<movl(edx, eax), popl(edi)>>),
                     Code(2, <<movl(ecx, eax), movl(edx, edi)>>),
                     Code(2, <<movl(ecx, eax), popl(edi)>>),
                     Code(4, <<movl(edx, eax), movl(ecx, edi)>>)>>)
    IN  [st \in ST |->
           LET t1 == OPTOP1(head[st].last)
               t2 == OPTOP2(head[st].last)
           IN  Code(head[st].last, head[st].insns
                 \o <<popl(t1), popl(t2), alu(rop1, eax, t1), alc(rop2, edi, t2)>>)]

\* With carry for ladd, without for land, lor and lxor.
CODE_ARITH_LONG(rop1, rop2) ==
    LET body(t1, t2) == <<popl(eax), popl(edi), alu(rop1, eax, t1),
                          IF rop2 = "adc" THEN alc(rop2, edi, t2) ELSE alu(rop2, edi, t2)>>
    IN  After24(body)

lmul ==
    LET body(t1, t2) ==
          LET low  == IF t1 = ecx THEN ecx ELSE edi
              high == IF t1 = ecx THEN edi ELSE ecx
          IN  <<movl(t1, eax), movl(edx, edi),
                op2("mulhi", eax, Stk(0), edx), op2("mullo", eax, Stk(0), eax),
                movl(eax, Stk(-2)), movl(edx, Stk(-1)),
                alu("imul", Stk(1), low), alu("add", low, Stk(-1)),
                alu("imul", Stk(0), high), alu("add", high, Stk(-1)),
                movl(Stk(-2), ecx), movl(Stk(-1), edx), addlesp(2)>>
    IN  [st \in ST |-> Code(2, After24(body)[st].insns)]

\* ldiv, lrem: value2 is tested, then the library function is called.
CODE_ARITH_LONG_TEST(rop) ==
    LET body(t1, t2) == <<effect("divisor2", <<t2, t1>>), popl(eax), popl(edi),
                          addlesp(-3), pushl(t2), pushl(t1), pushl(edi), pushl(eax),
                          call("ldiv", rop), addlesp(7), movl(eax, ecx)>>
    IN  [st \in ST |-> Code(2, After24(body)[st].insns)]

\* ineg, i2b, i2c, i2s
CODE_UNARY(ops) ==
    LET on(r) == [k \in DOMAIN ops |-> un(ops[k], r)]
    IN  By(<<Code(1, <<popl(edx)>> \o on(edx)), Code(1, on(edx)), Code(2, on(ecx)),
             Code(3, on(ecx)), Code(4, on(edx))>>)

ineg == CODE_UNARY(<<"neg">>)
CODE_I2BCS(ops) == CODE_UNARY(ops)

lneg ==
    LET body(t1, t2) == <<un("neg", t1), alc("adc", Imm(Zero), t2), un("neg", t2)>>
    IN  After24(body)

\* fneg and dneg flip the sign bit where the word is.
CODE_FNEG(tgts) == [st \in ST |-> Code(STSTA, <<un("flip", tgts[st + 1])>>)]
fneg == CODE_FNEG(<<Stk(0), edx, ecx, ecx, edx>>)
dneg == CODE_FNEG(<<Stk(1), Stk(0), edx, Stk(0), ecx>>)

CODE_SHIFT_INT(rop) ==
    LET sh == alu(rop, ecx, edx)
    IN  By(<<Code(1, <<popl(ecx), popl(edx), sh>>), Code(1, <<movl(edx, ecx), popl(edx), sh>>),
             Code(1, <<sh>>), Code(1, <<popl(edx), sh>>), Code(1, <<xchg, sh>>)>>)

\* a is shifted by itself, b receives bits from a; they hold (low, high) for
\* lshl and (high, low) for lshr and lushr.
SHIFT_LONG(env, signed, rop64, rop32, a, b) ==
    <<shxd(rop64, a, b), alu(rop32, ecx, a)>>
    \o (IF env.wide
        THEN <<movl(a, b), IF signed THEN un("sign", a) ELSE movl(Imm(Zero), a)>>
        ELSE <<>>)
    \o <<movl(eax, ecx)>>

CODE_SHIFT_LONG(env, signed, rop64, rop32, a, b) ==
    LET sh == SHIFT_LONG(env, signed, rop64, rop32, a, b)
    IN  By(<<Code(2, <<popl(ecx), popl(eax), popl(edx)>> \o sh),
             Code(2, <<movl(edx, ecx), popl(eax), popl(edx)>> \o sh),
             Code(4, <<popl(eax)>> \o SHIFT_LONG(env, signed, rop64, rop32, b, a)),
             Code(2, <<popl(eax), popl(edx)>> \o sh),
             Code(2, <<movl(ecx, eax), movl(edx, ecx), popl(edx)>> \o sh)>>)
lshl(env)  == CODE_SHIFT_LONG(env, FALSE, "shld", "shl", eax, edx)
lshr(env)  == CODE_SHIFT_LONG(env, TRUE, "shrd", "sar", edx, eax)
lushr(env) == CODE_SHIFT_LONG(env, FALSE, "shrd", "shr", edx, eax)

-----------------------------------------------------------------------------
(***************************************************************************)
(* Floating point.  The opcodes work on the FPU stack; the words of the    *)
(* operand stack are in memory (state 0), where fst and dst put the result.*)
(* States 1 and 2 of fadd, dadd and the like follow faload_fld and         *)
(* daload_dld: the value is on the FPU stack and has no room in memory.    *)
(***************************************************************************)
fld  == STANY(<<flds(Stk(0))>>)
fld4 == STANY(<<flds(Stk(1))>>)
fst  == STANY(<<fstps(Stk(0))>>)
dld  == STANY(<<fldl(Stk(0))>>)
dld8 == STANY(<<fldl(Stk(2))>>)
dst  == STANY(<<fstpl(Stk(0))>>)

ST0(insns)     == [st \in {0} |-> Code(0, insns)]
ST0n(c0, n, cn) == [st \in {0, n} |-> Code(0, IF st = 0 THEN c0 ELSE cn)]

\* fadd and fmul find value2 on the FPU stack, fsub and fdiv value1.
CODE_FADD(op) == ST0n(<<addlesp(1), fops(op, Stk(0))>>, 1, <<fops(op, Stk(0))>>)
CODE_FSUB(op) == ST0(<<fops(op, Stk(0)), addlesp(1)>>)
CODE_DADD(op) == ST0n(<<addlesp(2), fopl(op, Stk(0))>>, 2, <<fopl(op, Stk(0))>>)
CODE_DSUB(op) == ST0(<<fopl(op, Stk(0)), addlesp(2)>>)

frem == ST0(<<flds(Stk(0)), flds(Stk(1)), addlesp(-4), fstpl(Stk(0)), fstpl(Stk(2)),
              call("fmod", Zero), addlesp(4), addlesp(1)>>)

drem ==
    LET code(t1, t2) == <<popl(eax), popl(edi), pushl(t2), pushl(t1), pushl(edi), pushl(eax),
                          call("fmod", Zero), addlesp(4), addlesp(-2)>>
    IN  By24(Code(0, code(ecx, edx)), Code(0, code(edx, ecx)))

-----------------------------------------------------------------------------
(***************************************************************************)
(* Conversions and comparisons.                                            *)
(***************************************************************************)
i2l ==
    By(<<Code(2, <<popl(edx), movl(edx, ecx), un("sign", edx)>>),
         Code(2, <<movl(edx, ecx), un("sign", edx)>>),
         Code(4, <<pushl(edx), movl(ecx, edx), un("sign", ecx)>>),
         Code(4, <<movl(ecx, edx), un("sign", ecx)>>),
         Code(2, <<pushl(ecx), movl(edx, ecx), un("sign", edx)>>)>>)

l2i ==
    By(<<Code(1, <<popl(edx), addlesp(1)>>), Code(1, <<addlesp(1)>>), Code(3, <<>>),
         Code(3, <<addlesp(1)>>), Code(1, <<>>)>>)

i2f == ST0(<<fild(Stk(0))>>)
i2d == ST0(<<fild(Stk(0)), addlesp(-1)>>)
l2f == ST0(<<fildll(Stk(0)), addlesp(1)>>)
l2d == ST0(<<fildll(Stk(0))>>)
f2d == ST0n(<<addlesp(-1)>>, 1, <<addlesp(-2)>>)
d2f == ST0n(<<addlesp(1)>>, 2, <<addlesp(-1)>>)

\* f2i, f2l, d2i, d2l: the control word is saved below the result while the
\* FPU truncates; the fix-up of NaN and overflow is part of the conversion.
CODE_REAL2INT(op, load, adj, long) ==
    LET conv == <<load, addlesp(-(1 + adj)), clobber(Stk(0)), clobber(eax),
                  IF long THEN fistll(op, Stk(1)) ELSE fist(op, Stk(1)), addlesp(1)>>
        take == IF long THEN <<popl(ecx), popl(edx)>> ELSE <<popl(edx)>>
    IN  [st \in ST |-> Code(IF long THEN 2 ELSE 1, Flush(st) \o conv \o take)]
f2i == CODE_REAL2INT("f2i", flds(Stk(0)), 0, FALSE)
f2l == CODE_REAL2INT("f2l", flds(Stk(0)), 1, TRUE)
d2i == CODE_REAL2INT("d2i", fldl(Stk(0)), -1, FALSE)
d2l == CODE_REAL2INT("d2l", fldl(Stk(0)), 0, TRUE)

lcmp ==
    LET body(t1, t2) == <<popl(eax), popl(edi), op2("pair", edi, eax, eax),
                          op2("pair", t2, t1, edx), op2("lcmp", eax, edx, edx)>>
    IN  [st \in ST |-> Code(1, After24(body)[st].insns)]

CODE_FLOAT_CMP(compare) == [st \in ST |-> Code(1, Flush(st) \o compare)]
CODE_FCMP(op) ==
    CODE_FLOAT_CMP(<<flds(Stk(1)), fops(op, Stk(0)), addlesp(2), clobber(eax), fcmp(edx)>>)
CODE_DCMP(op) ==
    CODE_FLOAT_CMP(<<fldl(Stk(2)), fopl(op, Stk(0)), addlesp(4), clobber(eax), fcmp(edx)>>)

-----------------------------------------------------------------------------
(***************************************************************************)
(* Jumps: the tests they make; writeCode appends the jump itself.          *)
(***************************************************************************)
CODE_IF(op) ==
    LET test(r) == <<effect(op, <<r>>)>>
    IN  By(<<Code(0, <<popl(eax)>> \o test(eax)), Code(0, test(edx)), Code(1, test(ecx)),
             Code(0, test(ecx)), Code(3, test(edx))>>)

CODE_IF_ICMP(op) ==
    LET body(t1, t2) == <<effect(op, <<t2, t1>>)>>
    IN  [st \in ST |-> Code(0, After24(body)[st].insns)]

\* The index is consumed; eax receives the target for the trampoline.
CODE_SWITCH(op, spoiled(_)) ==
    LET code(r) == <<effect(op, <<r>>), clobber(edi), pushl(edi), clobber(eax),
                     addlesp(1)>> \o spoiled(r)
    IN  By(<<Code(0, <<popl(edx)>> \o code(edx)), Code(0, code(edx)), Code(1, code(ecx)),
             Code(0, code(ecx)), Code(3, code(edx))>>)
tableswitch  == LET sub(r) == <<clobber(r)>> IN CODE_SWITCH("tableswitch", sub)
lookupswitch == LET keep(r) == <<>> IN CODE_SWITCH("lookupswitch", keep)

\* Looks for a pending exception in ee, at the end of a loop.
exc_check == STANY(<<clobber(edi), clobber(eax)>>)

goto == STANY(<<>>)
jsr  == PushWord(Imm(<<"return address">>))
ret(n) == STANY(<<movl(Var(n), eax), clobber(edi), effect("ret", <<eax>>)>>)
return == [st \in ST |-> Code(0, <<>>)]

-----------------------------------------------------------------------------
(***************************************************************************)
(* The table: the template of an internal opcode with operand n.           *)
(***************************************************************************)
code_table(op, n, env) ==
    CASE op = "fill_cache"  -> fill_cache   [] op = "flush_cache" -> flush_cache
      [] op = "stateto1"    -> stateto1     [] op = "stateto4"    -> stateto4
      [] op = "iconst_0"    -> iconst_0     [] op = "iconst_n"    -> iconst_n
      [] op = "lconst_0"    -> lconst_0     [] op = "lconst_1"    -> lconst_1
      [] op = "fconst_n"    -> fconst_n     [] op = "dconst_1"    -> dconst_1
      [] op = "bipush"      -> bipush       [] op = "ldc2_w"      -> ldc2_w
      [] op = "iload"       -> iload(n)     [] op = "lload"       -> lload(n)
      [] op = "fload_fld"   -> fload_fld(n) [] op = "dload_dld"   -> dload_dld(n)
      [] op = "istore"      -> istore(n)    [] op = "istld"       -> istld(n)
      [] op = "lstore"      -> lstore(n)    [] op = "lstld"       -> lstld(n)
      [] op = "fst_fstore"  -> fst_fstore(n) [] op = "dst_dstore" -> dst_dstore(n)
      [] op = "iinc"        -> iinc(n)
      [] op = "getstatic"   -> CODE_GETSTATIC  [] op = "putstatic"  -> CODE_PUTSTATIC
      [] op = "getstatic2"  -> CODE_GETSTATIC2 [] op = "putstatic2" -> CODE_PUTSTATIC2
      [] op = "array_check" -> array_check(env)
      [] op = "iaload"      -> iaload(env) [] op = "baload" -> baload(env)
      [] op = "caload"      -> caload(env) [] op = "saload" -> saload(env)
      [] op = "laload"      -> laload(env)
      [] op = "faload_fld"  -> faload_fld(env) [] op = "daload_dld" -> daload_dld(env)
      [] op = "iastore1"    -> iastore1
      [] op = "iastore"     -> iastore(env) [] op = "bastore" -> bastore(env)
      [] op = "castore"     -> castore(env) [] op = "sastore" -> sastore(env)
      [] op = "aastore"     -> aastore(env)  [] op = "lastore"    -> lastore(env)
      [] op = "fst_fastore" -> fst_fastore   [] op = "dst_dastore" -> dst_dastore
      [] op = "pop"         -> pop           [] op = "pop2"       -> pop2
      [] op = "dup"         -> dup           [] op = "dup_x1"     -> dup_x1
      [] op = "dup_x2"      -> dup_x2        [] op = "dup2"       -> dup2
      [] op = "dup2_x1"     -> dup2_x1       [] op = "dup2_x2"    -> dup2_x2
      [] op = "swap"        -> swap
      [] op = "iadd"        -> CODE_ARITH_INT("add")  [] op = "isub" -> CODE_ARITH_INT("sub")
      [] op = "imul"        -> CODE_ARITH_INT("imul") [] op = "iand" -> CODE_ARITH_INT("and")
      [] op = "ior"         -> CODE_ARITH_INT("or")   [] op = "ixor" -> CODE_ARITH_INT("xor")
      [] op = "idiv"        -> CODE_ARITH_INT_TEST(eax)
      [] op = "irem"        -> CODE_ARITH_INT_TEST(edx)
      [] op = "ladd"        -> CODE_ARITH_LONG("add", "adc")
      [] op = "lsub"        -> CODE_ARITH_LONG_SUB("sub", "sbb")
      [] op = "land"        -> CODE_ARITH_LONG("and", "and")
      [] op = "lor"         -> CODE_ARITH_LONG("or", "or")
      [] op = "lxor"        -> CODE_ARITH_LONG("xor", "xor")
      [] op = "lmul"        -> lmul
      [] op = "ldiv"        -> CODE_ARITH_LONG_TEST(<<"div">>)
      [] op = "lrem"        -> CODE_ARITH_LONG_TEST(<<"rem">>)
      [] op = "ineg"        -> ineg
      [] op = "i2b"         -> CODE_I2BCS(<<"shl24", "sar24">>)
      [] op = "i2c"         -> CODE_I2BCS(<<"shl16", "shr16">>)
      [] op = "i2s"         -> CODE_I2BCS(<<"shl16", "sar16">>)
      [] op = "lneg"        -> lneg   [] op = "fneg" -> fneg   [] op = "dneg" -> dneg
      [] op = "ishl"        -> CODE_SHIFT_INT("shl") [] op = "ishr" -> CODE_SHIFT_INT("sar")
      [] op = "iushr"       -> CODE_SHIFT_INT("shr")
      [] op = "lshl"        -> lshl(env) [] op = "lshr" -> lshr(env) [] op = "lushr" -> lushr(env)
      [] op = "fld"         -> fld    [] op = "fld4" -> fld4   [] op = "fst"  -> fst
      [] op = "dld"         -> dld    [] op = "dld8" -> dld8   [] op = "dst"  -> dst
      [] op \in {"fadd", "fmul"} -> CODE_FADD(op) [] op \in {"fsub", "fdiv"} -> CODE_FSUB(op)
      [] op \in {"dadd", "dmul"} -> CODE_DADD(op) [] op \in {"dsub", "ddiv"} -> CODE_DSUB(op)
      [] op = "frem"        -> frem   [] op = "drem" -> drem
      [] op = "i2l"         -> i2l    [] op = "l2i"  -> l2i
      [] op = "i2f"         -> i2f    [] op = "i2d"  -> i2d
      [] op = "l2f"         -> l2f    [] op = "l2d"  -> l2d
      [] op = "f2d"         -> f2d    [] op = "d2f"  -> d2f
      [] op = "f2i"         -> f2i    [] op = "f2l"  -> f2l
      [] op = "d2i"         -> d2i    [] op = "d2l"  -> d2l
      [] op = "lcmp"        -> lcmp
      [] op \in {"fcmpl", "fcmpg"} -> CODE_FCMP(op) [] op \in {"dcmpl", "dcmpg"} -> CODE_DCMP(op)
      [] op \in {"ifeq", "iflt"}           -> CODE_IF(op)
      [] op \in {"if_icmpeq", "if_icmplt"} -> CODE_IF_ICMP(op)
      [] op = "exc_check"   -> exc_check
      [] op = "goto"        -> goto   [] op = "jsr"  -> jsr    [] op = "ret" -> ret(n)
      [] op = "tableswitch" -> tableswitch [] op = "lookupswitch" -> lookupswitch
      [] op = "return"      -> return
=============================================================================
