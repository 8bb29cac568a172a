----------------------------- MODULE OperandStack -----------------------------
(***************************************************************************)
(* What a bytecode means: the abstract machine of the Java VM on symbolic  *)
(* words, with the whole operand stack in one sequence.  A long or double  *)
(* is two words, the low one on top.  The state is                         *)
(*    [stack, vars, stat, out]                                             *)
(* where out lists, in order, the checks and tests made on the way, the    *)
(* stores into arrays and the words returned.                              *)
(***************************************************************************)
EXTENDS NativeCode

\* Replace the n topmost words by ws.
Replace(s, n, ws) == [s EXCEPT !.stack = SubSeq(@, 1, Len(@) - n) \o ws]
Emit(s, e)        == [s EXCEPT !.out = Append(@, e)]
EmitIf(p, s, e)   == IF p THEN Emit(s, e) ELSE s

IntTerm == [iadd |-> "add", isub |-> "sub", imul |-> "imul", iand |-> "and", ior |-> "or",
            ixor |-> "xor", ishl |-> "shl", ishr |-> "sar", iushr |-> "shr"]
BitTerm == [land |-> "and", lor |-> "or", lxor |-> "xor"]
Convert == [ineg |-> "neg", i2b |-> "sext8", i2c |-> "zext16", i2s |-> "sext16"]
Kind    == [iaload |-> "i", faload |-> "i", aaload |-> "i", baload |-> "b", caload |-> "c",
            saload |-> "s", iastore |-> "i", fastore |-> "i", bastore |-> "b",
            castore |-> "c", sastore |-> "s", aastore |-> "a"]

Float(f) == <<<<"fst", f>>>>
Real(f)  == <<<<"dhi", f>>, <<"dlo", f>>>>
Long(q)  == <<<<"hi", q>>, <<"lo", q>>>>

Constants == [iconst_0 |-> <<Zero>>, aconst_null |-> <<Zero>>, fconst_0 |-> <<Zero>>,
              iconst_n |-> <<<<"n">>>>, fconst_n |-> <<<<"f">>>>, bipush |-> <<<<"const">>>>,
              lconst_0 |-> <<Zero, Zero>>, dconst_0 |-> <<Zero, Zero>>,
              lconst_1 |-> <<Zero, <<"1">>>>, dconst_1 |-> <<<<"0x3ff00000">>, Zero>>,
              ldc2_w |-> <<<<"val[32:63]">>, <<"val[0:31]">>>>,
              jsr |-> <<<<"return address">>>>]

\* Words of arguments of the invocations and the results they push.
Invokes == [invokestaticV |-> 0, invokestaticI |-> 1, invokestaticJ |-> 2,
            invokespecialV |-> 0, invokespecialI |-> 1, invokespecialJ |-> 2]
MathOps == {"sqrt", "atan", "log", "exp", "asin", "acos", "sin", "cos", "tan", "floor", "ceil"}

JVM(s, b, env) ==
    LET op   == b.op
        n    == b.n
        w(k) == s.stack[Len(s.stack) - k + 1]          \* the k-th word from the top
        f(k) == <<"fld", w(k)>>
        d(k) == Double(w(k + 1), w(k))
        checked(h, i) == EmitIf(~env.remote, s, <<"check", h, i>>)
        sum  == Term("add", w(3), w(1))
        dif  == Term("sub", w(3), w(1))
        quo(r) == <<"ldiv", <<r>>, w(4), w(3), w(2), w(1)>>
        divisor2 == Emit(s, <<"divisor2", w(2), w(1)>>)
        left   == Term("shl", w(2), w(1))
        right(r) == Term(r, w(3), w(1))
        class  == <<"class", Body(w(3)), <<"len", w(3)>>>>
        args   == [k \in 1 .. n |-> w(n + 1 - k)]      \* the n words on top
        result == <<"result", args>>
        special == op \in {"invokespecialV", "invokespecialI", "invokespecialJ"}
        nonnull(t, h) == Emit(t, <<"nonnull", h>>)
        far    == env.remote /\ env.near = "no"
        array(type) == <<IF far THEN "proxy array" ELSE "array", <<type>>, w(1)>>
        counted == Emit(s, <<"count", w(1)>>)
        low    == <<"neg", w(1)>>
    IN
    CASE op \in DOMAIN Constants -> Replace(s, 0, Constants[op])
      [] op \in {"iload", "fload", "aload"}    -> Replace(s, 0, <<s.vars[n]>>)
      [] op \in {"lload", "dload"}    -> Replace(s, 0, <<s.vars[n + 1], s.vars[n]>>)
      [] op \in {"istore", "fstore", "astore"} -> [Replace(s, 1, <<>>) EXCEPT !.vars[n] = w(1)]
      [] op \in {"lstore", "dstore"} ->
           [Replace(s, 2, <<>>) EXCEPT !.vars[n] = w(1), !.vars[n + 1] = w(2)]
      [] op = "iinc"       -> [s EXCEPT !.vars[n] = Term("add", @, <<"inc">>)]
      [] op = "getstatic"  -> Replace(s, 0, <<s.stat[0]>>)
      [] op = "getstatic2" -> Replace(s, 0, <<s.stat[1], s.stat[0]>>)
      [] op = "putstatic"  -> [Replace(s, 1, <<>>) EXCEPT !.stat[0] = w(1)]
      [] op = "putstatic2" -> [Replace(s, 2, <<>>) EXCEPT !.stat[0] = w(1), !.stat[1] = w(2)]
      [] op \in {"iaload", "faload", "aaload", "baload", "caload", "saload"} ->
           Replace(checked(w(2), w(1)), 2, <<Elem(<<Kind[op]>>, Body(w(2)), w(1))>>)
      [] op \in {"laload", "daload"} ->
           Replace(checked(w(2), w(1)), 2, <<Elem(<<"hi">>, Body(w(2)), w(1)),
                                             Elem(<<"lo">>, Body(w(2)), w(1))>>)
      [] op \in {"iastore", "fastore", "bastore", "castore", "sastore", "aastore"} ->
           Emit(EmitIf(op = "aastore" /\ ~env.remote, Replace(checked(w(3), w(2)), 3, <<>>),
                       <<"instance", w(1), class>>),
                <<"store", <<Kind[op]>>, Body(w(3)), w(2), w(1)>>)
      [] op \in {"lastore", "dastore"} ->
           Emit(Replace(checked(w(4), w(3)), 4, <<>>),
                <<"store64", Body(w(4)), w(3), w(2), w(1)>>)
      [] op = "pop"     -> Replace(s, 1, <<>>)
      [] op = "pop2"    -> Replace(s, 2, <<>>)
      [] op = "dup"     -> Replace(s, 0, <<w(1)>>)
      [] op = "dup_x1"  -> Replace(s, 2, <<w(1), w(2), w(1)>>)
      [] op = "dup_x2"  -> Replace(s, 3, <<w(1), w(3), w(2), w(1)>>)
      [] op = "dup2"    -> Replace(s, 0, <<w(2), w(1)>>)
      [] op = "dup2_x1" -> Replace(s, 3, <<w(2), w(1), w(3), w(2), w(1)>>)
      [] op = "dup2_x2" -> Replace(s, 4, <<w(2), w(1), w(4), w(3), w(2), w(1)>>)
      [] op = "swap"    -> Replace(s, 2, <<w(1), w(2)>>)
      [] op \in DOMAIN IntTerm -> Replace(s, 2, <<Term(IntTerm[op], w(2), w(1))>>)
      [] op \in {"idiv", "irem"} ->
           Replace(Emit(s, <<"divisor", w(1)>>), 2, <<Term(op, w(2), w(1))>>)
      [] op = "ladd"    -> Replace(s, 4, <<TermC("adc", w(4), w(2), <<"cf", sum>>), sum>>)
      [] op = "lsub"    -> Replace(s, 4, <<TermC("sbb", w(4), w(2), <<"cf", dif>>), dif>>)
      [] op \in DOMAIN BitTerm ->
           Replace(s, 4, <<Term(BitTerm[op], w(4), w(2)), Term(BitTerm[op], w(3), w(1))>>)
      [] op = "lmul" ->
           Replace(s, 4, <<Term("add", Term("add", Term("mulhi", w(3), w(1)),
                                            Term("imul", w(4), w(1))),
                                Term("imul", w(3), w(2))),
                           Term("mullo", w(3), w(1))>>)
      [] op = "ldiv"    -> Replace(divisor2, 4, Long(quo("div")))
      [] op = "lrem"    -> Replace(divisor2, 4, Long(quo("rem")))
      [] op \in DOMAIN Convert -> Replace(s, 1, <<<<Convert[op], w(1)>>>>)
      [] op = "lneg" \/ (op = "abs_long" /\ env.neg) ->
           Replace(s, 2, <<<<"neg", TermC("adc", w(2), Zero, <<"cf", low>>)>>, low>>)
      [] op = "abs_long" /\ ~env.neg -> s
      [] op = "abs_int"    -> IF env.neg THEN Replace(s, 1, <<low>>) ELSE s
      [] op = "abs_float"  -> Replace(s, 1, <<<<"fabs", w(1)>>>>)
      [] op = "abs_double" -> Replace(s, 2, <<<<"fabs", w(2)>>, w(1)>>)
      [] op \in MathOps    -> Replace(s, 2, Real(<<op, d(1)>>))
      [] op = "atan2"      -> Replace(s, 4, Real(<<"atan2", d(3), d(1)>>))
      [] op = "fneg"    -> Replace(s, 1, <<<<"flip", w(1)>>>>)
      [] op = "dneg"    -> Replace(s, 2, <<<<"flip", w(2)>>, w(1)>>)
      [] op = "lshl"    -> Replace(s, 3, IF env.wide THEN <<left, Zero>>
                                         ELSE <<TermC("shld", w(3), w(2), w(1)), left>>)
      [] op = "lshr"    -> Replace(s, 3, IF env.wide THEN <<<<"sign", right("sar")>>, right("sar")>>
                                         ELSE <<right("sar"), TermC("shrd", w(2), w(3), w(1))>>)
      [] op = "lushr"   -> Replace(s, 3, IF env.wide THEN <<Zero, right("shr")>>
                                         ELSE <<right("shr"), TermC("shrd", w(2), w(3), w(1))>>)
      [] op \in {"fadd", "fsub", "fmul", "fdiv"} -> Replace(s, 2, Float(Term(op, f(2), f(1))))
      [] op \in {"dadd", "dsub", "dmul", "ddiv"} -> Replace(s, 4, Real(Term(op, d(3), d(1))))
      [] op = "frem"    -> Replace(s, 2, Float(<<"fmod", f(2), f(1)>>))
      [] op = "drem"    -> Replace(s, 4, Real(<<"fmod", d(3), d(1)>>))
      [] op = "i2l"     -> Replace(s, 1, <<<<"sign", w(1)>>, w(1)>>)
      [] op = "l2i"     -> Replace(s, 2, <<w(1)>>)
      [] op = "i2f"     -> Replace(s, 1, Float(<<"fild", w(1)>>))
      [] op = "i2d"     -> Replace(s, 1, Real(<<"fild", w(1)>>))
      [] op = "l2f"     -> Replace(s, 2, Float(<<"fildll", w(2), w(1)>>))
      [] op = "l2d"     -> Replace(s, 2, Real(<<"fildll", w(2), w(1)>>))
      [] op = "f2d"     -> Replace(s, 1, Real(f(1)))
      [] op = "d2f"     -> Replace(s, 2, Float(d(1)))
      [] op = "f2i"     -> Replace(s, 1, <<<<op, f(1)>>>>)
      [] op = "f2l"     -> Replace(s, 1, Long(<<op, f(1)>>))
      [] op = "d2i"     -> Replace(s, 2, <<<<op, d(1)>>>>)
      [] op = "d2l"     -> Replace(s, 2, Long(<<op, d(1)>>))
      [] op = "lcmp"    -> Replace(s, 4, <<Term("lcmp", Term("pair", w(4), w(3)),
                                                        Term("pair", w(2), w(1)))>>)
      [] op \in {"fcmpl", "fcmpg"} -> Replace(s, 2, <<Term(op, f(2), f(1))>>)
      [] op \in {"dcmpl", "dcmpg"} -> Replace(s, 4, <<Term(op, d(3), d(1))>>)
      [] op \in {"ifeq", "iflt", "tableswitch", "lookupswitch"} ->
           Emit(Replace(s, 1, <<>>), <<op, w(1)>>)
      [] op \in {"if_icmpeq", "if_icmplt"} -> Emit(Replace(s, 2, <<>>), <<op, w(2), w(1)>>)
      [] op = "goto"    -> s
      [] op = "ret"     -> Emit(s, <<"ret", s.vars[n]>>)
      [] op = "return"  -> Emit(s, <<"return">>)
      [] op \in {"ireturn", "freturn", "areturn"} -> Emit(Replace(s, 1, <<>>), <<"return", w(1)>>)
      [] op \in {"lreturn", "dreturn"} -> Emit(Replace(s, 2, <<>>), <<"return", w(2), w(1)>>)
      [] op = "getfield"  ->
           Replace(nonnull(s, w(1)), 1, <<Elem(<<"f">>, Body(w(1)), <<"slot">>)>>)
      [] op = "getfield2" ->
           Replace(nonnull(s, w(1)), 1, <<Elem(<<"hi">>, Body(w(1)), <<"slot">>),
                                          Elem(<<"lo">>, Body(w(1)), <<"slot">>)>>)
      [] op = "putfield"  -> Emit(Replace(nonnull(s, w(2)), 2, <<>>),
                                  <<"store", <<"f">>, Body(w(2)), <<"slot">>, w(1)>>)
      [] op = "putfield2" -> Emit(Replace(nonnull(s, w(3)), 3, <<>>),
                                  <<"store64", Body(w(3)), <<"slot">>, w(2), w(1)>>)
      [] op = "new"       -> Replace(s, 0, <<<<IF far THEN "proxy" ELSE "new", <<"cb">>>>>>)
      [] op = "new_quick" -> Replace(s, 0, <<<<"new", <<"cb">>>>>>)
      [] op = "newarray"  -> Replace(counted, 1, <<array("type")>>)
      [] op = "anewarray" ->
           Replace(EmitIf(~far, counted, <<"class", Body(array("T_CLASS")), w(1), <<"cb">>>>), 1,
                   <<array(IF far THEN "cb" ELSE "T_CLASS")>>)
      [] op = "multianewarray" -> Replace(s, n, <<<<IF far THEN "proxy multi" ELSE "multi", args>>>>)
      [] op = "arraylength" -> Replace(nonnull(s, w(1)), 1, <<<<"len", w(1)>>>>)
      [] op = "athrow"    -> Emit(nonnull(s, w(1)), <<"throw", w(1)>>)
      [] op \in {"checkcast", "instanceof"} /\ env.null -> s      \* null is the word 0
      [] op = "checkcast" /\ ~env.null  -> Emit(s, <<"instance", w(1), <<"cb">>>>)
      [] op = "instanceof" /\ ~env.null ->
           Replace(Emit(s, <<"instance", w(1), <<"cb">>>>), 1,
                   <<<<"uint8", <<"is", w(1), <<"cb">>>>>>>>)
      [] op \in {"monitorenter", "monitorexit"} ->
           Emit(Replace(nonnull(s, w(1)), 1, <<>>), <<op, w(1)>>)
      [] op \in DOMAIN Invokes ->
           Emit(Replace(IF special THEN nonnull(s, w(n)) ELSE s, n,
                        CASE Invokes[op] = 0 -> <<>> [] Invokes[op] = 1 -> <<result>>
                          [] Invokes[op] = 2 -> Long(result)),
                <<"invoke", IF special THEN w(n) ELSE <<"cb">>, args>>)
      [] op = "invokeignored_quick"        -> nonnull(Replace(s, n, <<>>), w(n))
      [] op = "invokeignored_static_quick" -> Replace(s, n, <<>>)
      [] op = "ensureopen" -> Emit(Replace(nonnull(s, w(1)), 1, <<>>), <<"open", Body(w(1))>>)
=============================================================================
