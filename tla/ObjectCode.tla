------------------------------ MODULE ObjectCode ------------------------------
(***************************************************************************)
(* The templates that work on objects and call functions: fields, new      *)
(* objects and arrays, tests of types, monitors, invocations and the       *)
(* methods that are replaced by code of their own (SPECIAL_INLINING).      *)
(* Most of them call C functions, which destroy ecx and edx: FUNCCALL_IN   *)
(* and FUNCCALL_OUT, given a state, save what is cached in that state.     *)
(*                                                                         *)
(* A null reference faults where it is first used (NULLEXC_BY_SIGNAL) or   *)
(* is tested there; either is the effect "nonnull".                        *)
(***************************************************************************)
EXTENDS CodeTable

nonnull(r) == effect("nonnull", <<r>>)

\* A template on the topmost word: popped to edx when nothing is cached.
OnTop(lasts, body(_, _), saved) ==
    [st \in ST |-> Code(lasts[st + 1],
                        (IF st = 0 THEN <<popl(edx)>> ELSE <<>>)
                        \o body(IF st \in {2, 3} THEN ecx ELSE edx, saved[st + 1]))]

\* The states to save so that the word below the topmost one survives, and
\* so that both survive.
Below  == <<0, 0, 1, 0, 3>>
AndTop == <<1, 1, 2, 3, 4>>

\* A C function called with args on the stack, the last one topmost.
CALL(args, f, kind) ==
    [k \in DOMAIN args |-> pushl(args[k])] \o <<call(f, kind), addlesp(Len(args))>>
SavedCALL(st, args, f, kind) == FUNCCALL_IN(st) \o CALL(args, f, kind) \o FUNCCALL_OUT(st)

-----------------------------------------------------------------------------
(***************************************************************************)
(* Fields.  eax is the slot.                                               *)
(***************************************************************************)
FIELD_ACC(handle) == <<movl(Imm(<<"slot">>), eax), nonnull(handle)>>

getfield(env) ==
    LET code(h, tgt, st) ==
          FIELD_ACC(h) \o
          IF env.remote THEN METAVM_READ(<<"f">>, h, eax, tgt, st)
          ELSE ProxyTest(env) \o UNHAND(h, edi) \o <<movl(At(<<"f">>, edi, eax), tgt)>>
    IN  By(<<Code(3, <<popl(edx)>> \o code(edx, ecx, 0)), Code(3, code(edx, ecx, 0)),
             Code(2, code(ecx, ecx, 1)), Code(1, code(ecx, edx, 0)), Code(4, code(edx, edx, 3))>>)

getfield2(env) ==
    LET code(h, low, high) ==
          FIELD_ACC(h) \o
          IF env.remote THEN METAVM_READ2(h, eax, low, high)
          ELSE ProxyTest(env) \o UNHAND(h, edi)
               \o <<movl(At(<<"lo">>, edi, eax), low), movl(At(<<"hi">>, edi, eax), high)>>
    IN  By(<<Code(2, <<popl(edx)>> \o code(edx, ecx, edx)), Code(2, code(edx, ecx, edx)),
             Code(4, <<pushl(edx)>> \o code(ecx, edx, ecx)), Code(4, code(ecx, edx, ecx)),
             Code(2, <<pushl(ecx)>> \o code(edx, ecx, edx))>>)

putfield(env) ==
    LET code(val, h, st) ==
          FIELD_ACC(h) \o
          IF env.remote THEN METAVM_WRITE(<<"f">>, h, eax, val, st)
          ELSE ProxyTest(env) \o UNHAND(h, edi)
               \o <<effect("store", <<Imm(<<"f">>), edi, eax, val>>)>>
    IN  [st \in ST |-> LET c == fill_cache[st]
                       IN  Code(0, c.insns \o code(OPTOP1(c.last), OPTOP2(c.last), st))]

putfield2(env) ==
    LET local(lo, hi) == UNHAND(edi, edi) \o <<effect("store64", <<edi, eax, hi, lo>>)>>
        code(lo, hi, st) == <<popl(edi)>> \o FIELD_ACC(edi)
                            \o METAVM_WRITE2(env, lo, hi, st, local(lo, hi))
    IN  [st \in ST |-> LET c == fill_cache[st]
                       IN  Code(0, c.insns \o code(OPTOP1(c.last), OPTOP2(c.last), st))]

-----------------------------------------------------------------------------
(***************************************************************************)
(* New objects and arrays.                                                 *)
(***************************************************************************)
Class   == Imm(<<"cb">>)
Address == Imm(<<"addr">>)
Caller  == Imm(<<"clazz">>)

\* The thread creates objects on the other machine.
Far(env) == env.remote /\ env.near = "no"

\* to receives the object; st is the state to save.
PushNew(code(_, _)) ==
    By(<<Code(1, code(edx, 0)), Code(2, code(ecx, 1)), Code(4, <<pushl(edx)>> \o code(edx, 3)),
         Code(4, code(edx, 3)), Code(2, <<pushl(ecx)>> \o code(ecx, 1))>>)

\* The class, in the register of the result, outlives the call of isByValue().
METAVM_NEW(env, cb, st) ==
    (IF env.metavm THEN <<clobber(edi)>> ELSE <<>>)
    \o (IF env.remote /\ env.near /= "address"
        THEN FUNCCALL_IN(st) \o <<pushl(cb), pushl(Imm(EE)), call("isByValue", Zero), popl(edi),
                                  popl(cb)>> \o FUNCCALL_OUT(st)
        ELSE <<>>)
    \o (IF Far(env)
        THEN SavedCALL(st, <<cb, Address, Caller, Imm(EE)>>, "proxy_new", Zero) \o <<clobber(edi)>>
        ELSE <<>>)

new(env) ==
    LET code(to, st) ==
          <<movl(Class, to)>> \o METAVM_NEW(env, to, st)
          \o (IF Far(env) THEN <<>>
              ELSE SavedCALL(st, <<Imm(EE), Imm(Zero), to>>, "newobject", Zero))
          \o <<movl(eax, to)>>
    IN  PushNew(code)

new_quick ==
    LET code(to, st) == SavedCALL(st, <<Imm(EE), Imm(Zero), Class>>, "newobject", Zero)
                         \o <<movl(eax, to)>>
    IN  PushNew(code)

NEWARRAY_TEST(count) == effect("count", <<count>>)

\* A null address: the type and the count are popped off the arguments again.
METAVM_NEWARRAY(env, count, st) ==
    (IF env.metavm THEN <<clobber(edi)>> ELSE <<>>)
    \o (IF ~env.remote THEN <<>>
        ELSE IF ~Far(env)
        THEN FUNCCALL_IN(st) \o <<pushl(count), pushl(eax), clobber(eax), popl(eax), popl(count)>>
             \o FUNCCALL_OUT(st)
        ELSE SavedCALL(st, <<count, eax, Address, Caller, Imm(EE)>>, "proxy_newarray", Zero))

newarray(env) ==
    LET code(count, st) ==
          <<movl(Imm(<<"type">>), eax), NEWARRAY_TEST(count)>> \o METAVM_NEWARRAY(env, count, st)
          \o (IF Far(env) THEN <<>>
              ELSE SavedCALL(st, <<count, eax, Imm(EE)>>, "allocArray", Zero))
          \o <<movl(eax, count)>>
    IN  OnTop(<<1, 1, 2, 3, 4>>, code, AndTop)

\* The word behind the last element is the class of the elements.
anewarray(env) ==
    LET local(count, st) ==
          SavedCALL(st, <<count, Imm(<<"T_CLASS">>), Imm(EE)>>, "allocArray", Zero)
          \o UNHAND(eax, edi) \o <<effect("class", <<edi, count, Class>>)>>
        code(count, st) ==
          <<NEWARRAY_TEST(count)>>
          \o (IF env.metavm THEN <<clobber(edi), clobber(eax)>> ELSE <<>>)
          \o (IF Far(env)
              THEN SavedCALL(st, <<count, Class, Address, Caller, Imm(EE)>>, "proxy_newarray", Zero)
                   \o <<clobber(edi)>>
              ELSE local(count, st))
          \o <<movl(eax, count)>>
    IN  OnTop(<<1, 1, 2, 3, 4>>, code, AndTop)

\* ecx points to the dimensions; edx, their number, outlives the call.
multianewarray(n, env) ==
    LET dims(what, skip) == [what |-> what, skip |-> skip, n |-> n]
        sp == Imm(<<"stackpointer">>)
        d  == Imm(<<"dimensions">>)
        make == IF Far(env)
                THEN CALL(<<ecx, edx, Class, Address, Caller, Imm(EE)>>, "multianewarray",
                          dims("proxy multi", 7))
                ELSE CALL(<<ecx, Class, edx, Imm(EE)>>, "multianewarray", dims("multi", 5))
        code == <<movl(d, edx), movl(sp, ecx)>>
                \o (IF env.metavm THEN <<clobber(edi), clobber(eax)>> ELSE <<>>)
                \o <<pushl(edx)>> \o make \o <<popl(edx), addlesp(n), movl(eax, edx)>>
    IN  [st \in ST |-> Code(1, Flush(st) \o code)]

-----------------------------------------------------------------------------
(***************************************************************************)
(* Arrays' lengths, exceptions, types and monitors.                        *)
(***************************************************************************)
arraylength(env) ==
    LET code(h, to, st) ==
          <<nonnull(h)>> \o ProxyTest(env) \o
          IF env.remote
          THEN FUNCCALL_IN(st)
               \o <<pushl(h), pushl(Imm(EE)), call("arraylength", Zero), movl(eax, to), addlesp(2)>>
               \o FUNCCALL_OUT(st)
          ELSE OBJ_LENGTH(h, to)
    IN  By(<<Code(3, <<popl(edx)>> \o code(edx, ecx, 0)), Code(3, code(edx, ecx, 0)),
             Code(2, code(ecx, ecx, 1)), Code(1, code(ecx, edx, 0)), Code(4, code(edx, edx, 3))>>)

\* Jumps to the exception handler.
athrow ==
    LET code(obj, st) == <<nonnull(obj), clobber(eax), effect("throw", <<obj>>)>>
    IN  OnTop(<<1, 1, 2, 3, 4>>, code, Below)

\* is_instance_of(handle, cb, ee); the answer is a byte.
InstanceTest(handle, st) ==
    <<movl(Class, eax)>> \o FUNCCALL_IN(st)
    \o <<pushl(Imm(EE)), pushl(eax), pushl(handle), call("is_instance_of", Zero), un("uint8", eax)>>

\* The handle is popped off the arguments of the call.
checkcast(env) ==
    LET code(handle, st) ==
          IF env.null THEN <<>>
          ELSE InstanceTest(handle, st) \o <<popl(handle), addlesp(2)>> \o FUNCCALL_OUT(st)
    IN  OnTop(<<1, 1, 2, 3, 4>>, code, Below)

\* A null reference is left as it is: 0.
instanceof(env) ==
    LET code(r, st) ==
          IF env.null THEN <<>>
          ELSE InstanceTest(r, st) \o <<addlesp(3), movl(eax, r)>> \o FUNCCALL_OUT(st)
    IN  OnTop(<<1, 1, 2, 3, 4>>, code, Below)

METAVM_MONITOR(obj, what, st) ==
    FUNCCALL_IN(st)
    \o <<pushl(obj), pushl(Imm(EE)), call("monitor", what), popl(edi), addlesp(1)>>
    \o FUNCCALL_OUT(st) \o <<clobber(edi)>>

CODE_MONITOR(env, what) ==
    LET code(obj, st) ==
          <<nonnull(obj), clobber(eax)>> \o ProxyTest(env)
          \o IF env.remote THEN METAVM_MONITOR(obj, what, st)
             ELSE SavedCALL(st, <<obj, Imm(EE)>>, "monitor", what)
    IN  OnTop(<<0, 0, 1, 0, 3>>, code, Below)

-----------------------------------------------------------------------------
(***************************************************************************)
(* Invocations, of n words of arguments.  The state is 0 but ecx, edx, eax *)
(* and edi carry the number of words, the object, the method and the size  *)
(* of the callee's variables from one template to the next.                *)
(***************************************************************************)
inv_head == STANY(<<movl(Imm(<<"args_size">>), ecx)>>)

inv_spe_obj(n)       == STANY(<<movl(Stk(n - 1), edx), nonnull(edx), clobber(eax)>>)
invokespecial        == STANY(<<movl(Imm(<<"method">>), eax)>>)
inv_stq_obj          == STANY(<<>>)
invokestatic_quick   == STANY(<<movl(Imm(<<"method">>), eax), movl(Class, edx)>>)
inv_spe_varspace     == STANY(<<movl(Imm(<<"local_var_space">>), edi)>>)
inv_stq_varspace     == STANY(<<movl(Imm(<<"local_var_space">>), edi)>>)

VarSpace == 1           \* words of the callee's variables beyond its arguments

\* The callee's result is in edx, or in edx (low) and ecx (high).
invoke_core(n, size) ==
    LET callee == [n |-> n, ret |-> size, skip |-> VarSpace + 6]
    IN  [st \in ST |->
           Code(0, <<addlesp(-VarSpace), pushl(edi), pushl(Imm(<<"var base">>)), pushl(Imm(EE)),
                     pushl(ecx), clobber(ecx), clobber(edi), pushl(eax), pushl(edx),
                     call("invoke", callee), addlesp(5), popl(eax), addlesp(VarSpace),
                     addlesp(n), clobber(edi), clobber(eax)>>)]

\* Calls of empty methods are ignored; objects that need it are tested.
INVOKEIGNORED_QUICK(n)        == <<clobber(edi), movl(Stk(n - 1), eax), addlesp(n), nonnull(eax)>>
INVOKEIGNORED_STATIC_QUICK(n) == <<clobber(edi), addlesp(n)>>
CODE_INVOKEIGNORED(insns) == [st \in ST |-> Code(0, Flush(st) \o insns)]

-----------------------------------------------------------------------------
(***************************************************************************)
(* Methods of java.lang.Math and BufferedInputStream.ensureOpen().         *)
(***************************************************************************)
JMATH_DIRECT(op)     == <<fldl(Stk(0)), fun(op), fstpl(Stk(0))>>
JMATH_FUNCCALL(op)   == <<call("math", op), fstpl(Stk(0))>>
JMATH_ATAN2          == <<fldl(Stk(2)), fldl(Stk(0)), addlesp(2), fpatan, fstpl(Stk(0))>>
JMATH_FLOOR_CEIL(op) == <<fldl(Stk(0)), addlesp(-1), clobber(Stk(0)), clobber(eax), fun(op),
                          addlesp(1), fstpl(Stk(0))>>

CODE_JMATH(insns) == [st \in ST |-> Code(0, Flush(st) \o insns)]

ABS_INT(env, r)  == IF env.neg THEN <<un("neg", r)>> ELSE <<>>
ABS_FLOAT(r)     == <<un("fabs", r)>>
ABS_LONG(env, t1, t2) ==
    IF env.neg THEN <<un("neg", t1), alc("adc", Imm(Zero), t2), un("neg", t2)>> ELSE <<>>

\* In state 0 the word is copied, not popped.
AbsWord(abs(_)) ==
    By(<<Code(1, <<movl(Stk(0), edx)>> \o abs(edx)), Code(STSTA, abs(edx)), Code(STSTA, abs(ecx)),
         Code(STSTA, abs(ecx)), Code(STSTA, abs(edx))>>)

abs_int(env)  == LET abs(r) == ABS_INT(env, r) IN AbsWord(abs)
abs_float     == LET abs(r) == ABS_FLOAT(r) IN AbsWord(abs)
abs_long(env) == LET body(t1, t2) == ABS_LONG(env, t1, t2) IN After24(body)

\* The mask is applied to edx in state 4 too, where edx is the low word.
abs_double == LET body(t1, t2) == <<un("fabs", edx)>> IN After24(body)

ensureopen ==
    LET code(h, st) == <<nonnull(h)>> \o UNHAND(h, eax) \o <<effect("open", <<eax>>), clobber(eax)>>
    IN  OnTop(<<0, 0, 1, 0, 3>>, code, Below)

-----------------------------------------------------------------------------
ObjectOps ==
    {"getfield", "getfield2", "putfield", "putfield2", "new", "new_quick", "newarray", "anewarray",
     "multianewarray", "arraylength", "athrow", "checkcast", "instanceof", "monitorenter",
     "monitorexit", "inv_head", "inv_spe_obj", "invokespecial", "inv_stq_obj",
     "invokestatic_quick", "inv_spe_varspace", "inv_stq_varspace", "invoke_coreV", "invoke_coreI",
     "invoke_coreJ", "invokeignored_quick", "invokeignored_static_quick", "sqrt", "atan", "log",
     "exp", "asin", "acos", "sin", "cos", "tan", "atan2", "floor", "ceil", "abs_int", "abs_long",
     "abs_float", "abs_double", "ensureopen", "stateto0"}

object_table(op, n, env) ==
    CASE op = "getfield"  -> getfield(env)  [] op = "getfield2" -> getfield2(env)
      [] op = "putfield"  -> putfield(env)  [] op = "putfield2" -> putfield2(env)
      [] op = "new"       -> new(env)       [] op = "new_quick" -> new_quick
      [] op = "newarray"  -> newarray(env)  [] op = "anewarray" -> anewarray(env)
      [] op = "multianewarray" -> multianewarray(n, env)
      [] op = "arraylength"    -> arraylength(env)
      [] op = "athrow"    -> athrow
      [] op = "checkcast" -> checkcast(env) [] op = "instanceof" -> instanceof(env)
      [] op \in {"monitorenter", "monitorexit"} -> CODE_MONITOR(env, op)
      [] op = "stateto0"  -> stateto0
      [] op = "inv_head"  -> inv_head       [] op = "inv_spe_obj" -> inv_spe_obj(n)
      [] op = "invokespecial"       -> invokespecial
      [] op = "inv_stq_obj"         -> inv_stq_obj
      [] op = "invokestatic_quick"  -> invokestatic_quick
      [] op = "inv_spe_varspace"    -> inv_spe_varspace
      [] op = "inv_stq_varspace"    -> inv_stq_varspace
      [] op = "invoke_coreV" -> invoke_core(n, 0) [] op = "invoke_coreI" -> invoke_core(n, 1)
      [] op = "invoke_coreJ" -> invoke_core(n, 2)
      [] op = "invokeignored_quick" -> CODE_INVOKEIGNORED(INVOKEIGNORED_QUICK(n))
      [] op = "invokeignored_static_quick" -> CODE_INVOKEIGNORED(INVOKEIGNORED_STATIC_QUICK(n))
      [] op \in {"sqrt", "atan", "log", "exp", "asin", "acos"} -> CODE_JMATH(JMATH_DIRECT(op))
      [] op \in {"sin", "cos", "tan"} -> CODE_JMATH(JMATH_FUNCCALL(op))
      [] op = "atan2"     -> CODE_JMATH(JMATH_ATAN2)
      [] op \in {"floor", "ceil"} -> CODE_JMATH(JMATH_FLOOR_CEIL(op))
      [] op = "abs_int"   -> abs_int(env)   [] op = "abs_long"   -> abs_long(env)
      [] op = "abs_float" -> abs_float      [] op = "abs_double" -> abs_double
      [] op = "ensureopen" -> ensureopen

-----------------------------------------------------------------------------
TemplateOf(op, n, env) == IF op \in ObjectOps THEN object_table(op, n, env)
                          ELSE code_table(op, n, env)

\* An opcode has no template in the remaining states: its entry is {0, 0, 0}.
Defined(op, n, env, st) == st \in DOMAIN TemplateOf(op, n, env)
CodeAt(op, n, env, st) ==
    IF Defined(op, n, env, st) THEN TemplateOf(op, n, env)[st] ELSE Code(0, <<>>)
=============================================================================
