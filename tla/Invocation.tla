----------------------------- MODULE Invocation -----------------------------
(***************************************************************************)
(* Method invocation in one thread: compiled code, the interpreter and    *)
(* native functions calling each other (code.c, runtime.c, invoker.c,     *)
(* compiler.c, metavm/proxy.c; DIRECT_INVOCATION and DIRECT_INV_NATIVE).  *)
(*                                                                         *)
(* Compiled code passes arguments on the native stack, the JVM on its own  *)
(* Java stack, C functions in a third layout; a call made by compiled code *)
(* goes straight to compiled code or through invocationHelper(), and a     *)
(* method changes from "to be compiled" to "interpreted" to "compiled"     *)
(* while calls to it are under way, by this thread or by another one.      *)
(*                                                                         *)
(* stk is the native stack: one record for each activation of a C function *)
(* (helper, candi, jit), of compiled code (comp), of the interpreter       *)
(* (interp) and of a native function (jni, nmi, native; remote stands for  *)
(* proxy_invoke). frames and mem are the Java stack.                       *)
(***************************************************************************)
EXTENDS Integers, Sequences, SequencesExt

CONSTANTS
  Methods,    \* the methods of the program
  Info,       \* Info[m]: kind, static, sync, params, ret, catches
  Root,       \* the interpreted method everything starts from
  Inlined,    \* <<caller, callee>>: calls methodInlining() has expanded
  Lazy,       \* TRUE when a first call may stay below the threshold
  Others,     \* the methods another thread may compile
  Builds,     \* the builds of the JVM and of the compiler
  MaxCalls,   \* bound: the number of calls of a behaviour
  MaxDepth,   \* bound: native activations
  StackWords  \* bound: words of the Java stack

Kinds == {"java", "jni", "nmi"}
Types == {"I", "L", "N", "J", "[I", "[[I"}   \* N: an object argument that is null

ASSUME InfoAssumption ==
  /\ Root \in Methods
  /\ \A m \in Methods :
       /\ Info[m].kind \in Kinds
       /\ Info[m].params \in Seq(Types)
       /\ Info[m].ret \in {"V", "I", "L", "J"}
       /\ {Info[m].static, Info[m].sync, Info[m].catches} \subseteq BOOLEAN
  /\ Info[Root].kind = "java" /\ Info[Root].params = <<>> /\ Info[Root].static

ASSUME BoundAssumption ==
  /\ MaxCalls \in Nat /\ MaxDepth \in Nat /\ StackWords \in Nat
  /\ Lazy \in BOOLEAN /\ Others \subseteq Methods
  /\ Builds \subseteq [asm : BOOLEAN, metavm : BOOLEAN]
  /\ Inlined \subseteq Methods \X {m \in Methods : Info[m].kind = "java" /\ ~Info[m].sync}

VARIABLES
  invoker,   \* methodblock.invoker
  compiled,  \* ACC_MACHINE_COMPILED in methodblock.fb.access
  busy,      \* the methods another thread is compiling
  build,     \* the interpreter (in assembly or in C) and METAVM
  frames,    \* JavaFrames of the thread, current_frame last
  mem,       \* words of the Java stack
  stk,       \* native activations, the running one last
  regs,      \* <<edx, ecx>>, or <<eax, edx>> behind a C function
  ok,        \* truth value a C function returned in eax
  exc,       \* ee->exceptionKind
  held,      \* monitors entered and not exited, in order
  entered,   \* the calls whose method started to run, in order
  calls      \* number of calls so far

shared == <<invoker, compiled, busy>>
vars == <<invoker, compiled, busy, build, frames, mem, stk, regs, ok, exc,
          held, entered, calls>>

----------------------------------------------------------------------------
(* Words and their layouts. Word k of call c is <<c, k, part>>.            *)

Junk == <<0, 0, "junk">>
Null == <<0, 0, "null">>

Wide(t) == t = "J"
Word(c, p, t, part) == IF t = "N" THEN Null ELSE <<c, p, part>>

\* concatenation of F(parameter) over the parameters
Each(m, F(_, _)) ==
  FlattenSeq([p \in 1..Len(Info[m].params) |-> F(p, Info[m].params[p])])

Receiver(m, c) == IF Info[m].static THEN <<>> ELSE <<<<c, 0, "w">>>>

\* on the native stack, from the variable base downwards: the high word of a
\* long is variable n, the low word variable n + 1
NativeWords(m, c) ==
  Receiver(m, c) \o
  Each(m, LAMBDA p, t : IF Wide(t) THEN <<Word(c, p, t, "hi"), Word(c, p, t, "lo")>>
                                   ELSE <<Word(c, p, t, "w")>>)

\* on the Java stack, upwards: the low word first
JVMWords(m, c) ==
  Receiver(m, c) \o
  Each(m, LAMBDA p, t : IF Wide(t) THEN <<Word(c, p, t, "lo"), Word(c, p, t, "hi")>>
                                   ELSE <<Word(c, p, t, "w")>>)

argsizes(m) ==
  (IF Info[m].static THEN <<>> ELSE <<1>>) \o
  [p \in 1..Len(Info[m].params) |-> IF Wide(Info[m].params[p]) THEN 2 ELSE 1]

args_size(m) ==
  LET sizes == argsizes(m)
      sum[n \in 0..Len(sizes)] == IF n = 0 THEN 0 ELSE sum[n - 1] + sizes[n]
  IN sum[Len(sizes)]

ret_size(m) == CASE Info[m].ret = "V" -> 0 [] Info[m].ret = "J" -> 2 [] OTHER -> 1

Result(m, c) ==
  CASE Info[m].ret = "V" -> <<>>
    [] Info[m].ret = "J" -> <<<<c, "ret", "lo">>, <<c, "ret", "hi">>>>
    [] OTHER             -> <<<<c, "ret", "w">>>>

\* edx and ecx after a result of one, two or no words
InRegs(words) ==
  CASE Len(words) = 0 -> <<Junk, Junk>>
    [] Len(words) = 1 -> <<words[1], Junk>>
    [] OTHER          -> words

\* words, a pair at a time swapped: the layout of the other stack. src is
\* read in its own order, sizes are info->argsizes.
Restack(src, sizes) ==
  LET out[n \in 0..Len(sizes)] ==
        IF n = 0 THEN <<>>
        ELSE LET i == Len(out[n - 1]) + 1
             IN out[n - 1] \o (IF sizes[n] = 1 THEN <<src[i]>> ELSE <<src[i + 1], src[i]>>)
  IN out[Len(sizes)]

\* Mutant: the words of a long keep their native order
ToJVMUnswapped(loc, m) == loc

\* restack from the native stack to the JVM stack, invocationHelper()
ToJVM(loc, m) == Restack(loc, argsizes(m))

\* restack from the JVM stack to the native stack, invokeJITCompiledMethod()
ToNative(args, m) == Restack(args, argsizes(m))

\* the C arguments of a native function: 64-bit values low word first, and for
\* JNI a pointer to the stack slot in place of an object
Ref(w) == IF w = Null THEN Null ELSE <<"ref", w>>
IsObject(t) == t \in {"L", "N", "[I", "[[I"}

\* the loop over terse_sig; from: the first native word that is a parameter
NativeArgs(loc, m, from, byRef) ==
  LET out[p \in 0..Len(Info[m].params)] ==
        IF p = 0 THEN <<>>
        ELSE LET i == from + Len(out[p - 1])
                 t == Info[m].params[p]
             IN out[p - 1] \o (IF Wide(t) THEN <<loc[i + 1], loc[i]>>
                               ELSE IF IsObject(t) /\ byRef THEN <<Ref(loc[i])>>
                               ELSE <<loc[i]>>)
  IN out[Len(Info[m].params)]

\* JNIEnv, then a pointer to the receiver's slot or to the class
JNIArgs(loc, m) ==
  IF Info[m].static
  THEN <<"env", Ref(<<"class", m>>)>> \o NativeArgs(loc, m, 1, TRUE)
  ELSE <<"env", Ref(loc[1])>> \o NativeArgs(loc, m, 2, TRUE)

\* the receiver or NULL
NMIArgs(loc, m) ==
  IF Info[m].static
  THEN <<Null>> \o NativeArgs(loc, m, 1, FALSE)
  ELSE <<loc[1]>> \o NativeArgs(loc, m, 2, FALSE)

\* what the native function was meant to get
CArgs(m, c, kind) ==
  (CASE kind = "jni" -> <<"env", IF Info[m].static THEN Ref(<<"class", m>>)
                                                   ELSE Ref(<<c, 0, "w">>)>>
     [] kind = "nmi" -> IF Info[m].static THEN <<Null>> ELSE <<<<c, 0, "w">>>>
     [] OTHER        -> Receiver(m, c)) \o
  Each(m, LAMBDA p, t :
            CASE Wide(t) -> <<<<c, p, "lo">>, <<c, p, "hi">>>>
              [] IsObject(t) /\ kind = "jni" -> <<Ref(Word(c, p, t, "w"))>>
              [] OTHER -> <<Word(c, p, t, "w")>>)

\* the signature as the characters proxy_invoke() scans; a class name and its
\* semicolon are part of the L
Signature(m) ==
  Each(m, LAMBDA p, t : CASE t = "[I"  -> <<"[", "I">>
                          [] t = "[[I" -> <<"[", "[", "I">>
                          [] t = "N"   -> <<"L">>
                          [] OTHER     -> <<t>>)

\* proxy_invoke(): the array of boxed arguments sent to the remote VM. The
\* scan skips one "[" only, so the rest of a multi-dimensional array type is
\* taken for the next argument.
BoxedArgs(loc, m) ==
  LET sig == Signature(m)
      word(i) == IF i \in 1..Len(loc) THEN loc[i] ELSE Junk
      box(s) ==
        CASE sig[s.p] = "[" ->
               [p |-> s.p + 2, sp |-> s.sp + 1, out |-> Append(s.out, <<word(s.sp)>>)]
          [] Wide(sig[s.p]) ->
               [p |-> s.p + 1, sp |-> s.sp + 2,
                out |-> Append(s.out, <<word(s.sp + 1), word(s.sp)>>)]
          [] OTHER ->
               [p |-> s.p + 1, sp |-> s.sp + 1, out |-> Append(s.out, <<word(s.sp)>>)]
      scan[n \in 0..Len(Info[m].params)] ==
        IF n = 0 THEN [p |-> 1, sp |-> 2, out |-> <<>>] ELSE box(scan[n - 1])
  IN scan[Len(Info[m].params)].out

\* the arguments as the callee at the remote VM expects them
BoxedWords(m, c) ==
  [p \in 1..Len(Info[m].params) |->
     IF Wide(Info[m].params[p]) THEN <<<<c, p, "lo">>, <<c, p, "hi">>>>
                                ELSE <<Word(c, p, Info[m].params[p], "w")>>]

----------------------------------------------------------------------------
(* The two stacks.                                                         *)

Top == stk[Len(stk)]
Below == stk[Len(stk) - 1]
Cur == Len(frames)
optop == frames[Cur].optop

Running(k, st) == Top.k = k /\ Top.st = st

\* an activation of k for call c of m; loc: the words it was given, inl: the
\* inlined calls it is inside of, call: the call it waits for
Activation(k, m, c, loc) ==
  [k |-> k, m |-> m, c |-> c, loc |-> loc,
   st |-> IF k \in {"helper", "candi", "jit"} THEN "entry" ELSE "run",
   inv |-> "none", inl |-> <<>>, call |-> <<Root, 0>>]

Await(m, c) == [stk EXCEPT ![Len(stk)].st = "ret", ![Len(stk)].call = <<m, c>>]
At(st) == [stk EXCEPT ![Len(stk)].st = st]

Put(f, at, words) ==
  [i \in DOMAIN f |-> IF i >= at /\ i < at + Len(words) THEN words[i - at + 1] ELSE f[i]]

\* nobody may rely on the words from at on
Scrap(f, at) == [i \in DOMAIN f |-> IF i >= at THEN Junk ELSE f[i]]

Get(at, n) == [i \in 1..n |-> mem[at + i - 1]]

nlocals(m) == args_size(m) + 1

\* Mutant: no room for the variables
NewFrameOverlaps(m, locals, ebp) ==
  [m |-> m, creator |-> m, vars |-> optop, ebp |-> ebp,
   base |-> optop + 1, optop |-> optop + 1]

\* CREATE_JAVAFRAME: the arguments are the first variables of the new frame,
\* its operand stack starts behind the variables and the frame structure
NewFrame(m, locals, ebp) ==
  [m |-> m, creator |-> m, vars |-> optop, ebp |-> ebp,
   base |-> optop + locals + 1, optop |-> optop + locals + 1]

\* EXPAND_JAVASTACK
Fits(locals) == optop + locals + 3 <= StackWords

\* the object whose monitor a synchronized method takes
Lock(m, first) == IF Info[m].static THEN <<"class", m>> ELSE first

monitorEnter(m, first) ==
  IF Info[m].sync THEN Append(held, Lock(m, first)) ELSE held

\* Mutant: a pending exception leaves before the monitor is exited
monitorExitSkipped(m, first) ==
  IF exc \/ ~Info[m].sync THEN held ELSE Front(held)

monitorExit(m, first) ==
  LET at == {i \in DOMAIN held : held[i] = Lock(m, first)}
      last == CHOOSE i \in at : \A j \in at : j <= i
  IN IF ~Info[m].sync THEN held
     ELSE IF at = {} THEN Append(held, <<"illegal", Lock(m, first)>>)
     ELSE RemoveAt(held, last)

First(words) == IF words = <<>> THEN Null ELSE words[1]

----------------------------------------------------------------------------
(* Calls of compiled code: INVOKE_CORE, and code inlined into the caller.  *)

CanCall == calls < MaxCalls /\ Len(stk) < MaxDepth

\* INVCORE_COMPILED and opc_methodhead: no new JavaFrame
InvokeDirect(m, c) ==
  LET words == NativeWords(m, c) IN
  /\ stk' = Append(Await(m, c), Activation("comp", m, c, words))
  /\ frames' = [frames EXCEPT ![Cur].m = m, ![Cur].ebp = Len(stk) + 1]
  /\ held' = monitorEnter(m, First(words))
  /\ entered' = Append(entered, c)

InvokeHelper(m, c) ==
  /\ stk' = Append(Await(m, c), Activation("helper", m, c, NativeWords(m, c)))
  /\ UNCHANGED <<frames, held, entered>>

\* INVCORE_INVOKE: the test of ACC_MACHINE_COMPILED
InvokeCore(m) ==
  /\ Running("comp", "run") /\ CanCall
  /\ calls' = calls + 1
  /\ IF compiled[m] THEN InvokeDirect(m, calls + 1) ELSE InvokeHelper(m, calls + 1)
  /\ UNCHANGED <<shared, build, mem, regs, ok, exc>>

\* inlined_enter: esi is the base of the inlined method's variables
InlinedEnter(m) ==
  /\ Running("comp", "run") /\ calls < MaxCalls
  /\ ~build.metavm /\ <<Top.m, m>> \in Inlined /\ Top.inl = <<>>
  /\ calls' = calls + 1
  /\ stk' = [stk EXCEPT ![Len(stk)].inl =
                <<[m |-> m, c |-> calls + 1, loc |-> NativeWords(m, calls + 1)]>>]
  /\ entered' = Append(entered, calls + 1)
  /\ UNCHANGED <<shared, build, frames, mem, regs, ok, exc, held>>

InlinedExit ==
  /\ Running("comp", "run") /\ Top.inl # <<>>
  /\ stk' = [stk EXCEPT ![Len(stk)].inl = <<>>]
  /\ regs' = InRegs(Result(Top.inl[1].m, Top.inl[1].c))
  /\ UNCHANGED <<shared, build, frames, mem, ok, exc, held, entered, calls>>

\* the word esi points to: variable 0 of the method, or of the inlined one
Esi(r) == First(IF r.inl = <<>> THEN r.loc ELSE r.inl[1].loc)

\* opc_sync_*_exit and opc_methodtail; then the caller's current_method and
\* vars are back in the frame when it is compiled code
MethodTail(words) ==
  /\ regs' = InRegs(words)
  /\ held' = monitorExit(Top.m, Esi(Top))
  /\ stk' = Front(stk)
  /\ frames' = IF Below.k = "comp"
               THEN [frames EXCEPT ![Cur].m = Below.m, ![Cur].ebp = Len(stk) - 1]
               ELSE frames
  /\ UNCHANGED <<shared, build, mem, ok, entered, calls>>

CompiledReturn ==
  /\ Running("comp", "run") /\ Top.inl = <<>>
  /\ MethodTail(Result(Top.m, Top.c))
  /\ UNCHANGED exc

\* exceptionHandler(): searchCatchFrame() found a handler; esi is reset
Catch ==
  /\ Info[Top.m].catches
  /\ stk' = [stk EXCEPT ![Len(stk)].st = "run", ![Len(stk)].inl = <<>>]
  /\ exc' = FALSE
  /\ UNCHANGED <<shared, build, frames, mem, regs, ok, held, entered, calls>>

\* exceptionHandler(): none found, the epilogue follows
Unwind == exc' = TRUE /\ MethodTail(<<>>)

CompiledThrow == Running("comp", "run") /\ (Catch \/ Unwind)

\* the end of INVOKE_CORE: the exception check
InvokeCoreDone ==
  /\ Running("comp", "ret")
  /\ IF exc THEN Catch \/ Unwind
     ELSE /\ stk' = At("run")
          /\ UNCHANGED <<shared, build, frames, mem, regs, ok, exc, held, entered, calls>>

\* opc_inv_metavm: the receiver is a Proxy and the remote flag is on
RemoteInvoke(m) ==
  /\ Running("comp", "run") /\ CanCall
  /\ build.metavm /\ ~Info[m].static
  /\ calls' = calls + 1
  /\ stk' = Append(Await(m, calls + 1),
                   Activation("remote", m, calls + 1, NativeWords(m, calls + 1)))
  /\ UNCHANGED <<shared, build, frames, mem, regs, ok, exc, held, entered>>

\* proxy_invoke(): the answer is left on the Java stack and loaded to edx, ecx
RemoteDone ==
  /\ Running("remote", "run")
  /\ stk' = Front(stk)
  /\ \/ /\ mem' = Put(mem, optop, Result(Top.m, Top.c))
        /\ frames' = [frames EXCEPT ![Cur].optop = optop + ret_size(Top.m)]
        /\ regs' = InRegs(Result(Top.m, Top.c))
        /\ entered' = Append(entered, Top.c)
        /\ UNCHANGED exc
     \/ /\ exc' = TRUE
        /\ UNCHANGED <<mem, frames, regs, entered>>
  /\ UNCHANGED <<shared, build, ok, held, calls>>

----------------------------------------------------------------------------
(* invocationHelper(), runtime.c.                                          *)

\* invhelper_return
HelperReturn == stk' = Front(stk)

\* Mutant: the result is read but not popped
HelperFinishKeeps(fs, words) ==
  LET top == fs[Len(fs)].optop - ret_size(Top.m)
  IN /\ frames' = fs
     /\ regs' = <<words[top], words[top + 1]>>
     /\ mem' = words
     /\ HelperReturn

\* invhelper_finish: the result is popped off the Java stack of fs into edx, ecx
HelperFinish(fs, words) ==
  LET n == Len(fs)
      top == fs[n].optop - ret_size(Top.m)
  IN /\ frames' = [fs EXCEPT ![n].optop = top]
     /\ regs' = <<words[top], words[top + 1]>>
     /\ mem' = Scrap(words, top)
     /\ HelperReturn

\* the native stack (sysThreadCheckStack) or the Java stack is exhausted, which
\* may happen at any time: SignalError() and a return
Overflow ==
  /\ exc' = TRUE /\ ok' = FALSE
  /\ stk' = Front(stk)
  /\ UNCHANGED <<shared, build, frames, mem, regs, held, entered, calls>>

\* the arguments are restacked and the invoker is called. It is read once.
ViaInvoker ==
  /\ stk' = [stk EXCEPT ![Len(stk)].st = "invoke", ![Len(stk)].inv = invoker[Top.m]]
  /\ mem' = Put(mem, optop, ToJVM(Top.loc, Top.m))
  /\ UNCHANGED <<shared, build, frames, regs, ok, exc, held, entered, calls>>

\* a JNI function: a frame of its own
HelperJNI ==
  /\ Info[Top.m].kind = "jni"
  /\ \/ /\ Fits(args_size(Top.m))
        /\ stk' = Append(At("native"), Activation("jni", Top.m, Top.c, JNIArgs(Top.loc, Top.m)))
        /\ frames' = Append(frames, NewFrame(Top.m, args_size(Top.m), 0))
        /\ held' = monitorEnter(Top.m, First(Top.loc))
        /\ entered' = Append(entered, Top.c)
        /\ UNCHANGED <<shared, build, mem, regs, ok, exc, calls>>
     \/ Overflow

\* an old style native function: no frame. One whose code is not found is
\* called through its invoker.
HelperNMI ==
  /\ Info[Top.m].kind = "nmi"
  /\ \/ /\ stk' = Append(At("native"), Activation("nmi", Top.m, Top.c, NMIArgs(Top.loc, Top.m)))
        /\ held' = monitorEnter(Top.m, First(Top.loc))
        /\ entered' = Append(entered, Top.c)
        /\ UNCHANGED <<shared, build, frames, mem, regs, ok, exc, calls>>
     \/ ViaInvoker

HelperJava == Info[Top.m].kind = "java" /\ ViaInvoker

HelperEntry == Running("helper", "entry") /\ (HelperJNI \/ HelperNMI \/ HelperJava)

\* what jniret_table and nmiret_table store at optop
NativeResult(m) ==
  CASE Info[m].ret = "V" -> <<>>
    [] Info[m].ret = "J" -> regs
    [] Info[m].ret = "L" /\ Info[m].kind = "jni" -> <<regs[1][2]>>
    [] OTHER -> <<regs[1]>>

\* behind the native function
HelperNative ==
  /\ Running("helper", "native")
  /\ LET m == Top.m
         fs == IF Info[m].kind = "jni" THEN Front(frames) ELSE frames
         n == Len(fs)
         at == fs[n].optop
     IN /\ held' = monitorExit(m, First(Top.loc))
        /\ IF exc
           THEN /\ frames' = fs /\ HelperReturn
                /\ UNCHANGED <<mem, regs>>
           ELSE HelperFinish([fs EXCEPT ![n].optop = at + ret_size(m)],
                             Put(mem, at, NativeResult(m)))
  /\ UNCHANGED <<shared, build, ok, exc, entered, calls>>

\* the JVM's own invoker: a frame whose variables are the arguments at optop,
\* and the monitor of a synchronized method
JVMFrame(m) ==
  /\ Fits(nlocals(m))
  /\ frames' = Append(frames, NewFrame(m, nlocals(m), 0))
  /\ held' = monitorEnter(m, mem[optop])

\* CALL_INVOKER
HelperInvoke ==
  /\ Running("helper", "invoke")
  /\ \/ /\ Top.inv \in {"candi", "jit"}
        /\ stk' = Append(At("invoked"), Activation(Top.inv, Top.m, Top.c, Top.loc))
        /\ UNCHANGED <<shared, build, frames, mem, regs, ok, exc, held, entered, calls>>
     \/ /\ Top.inv = "native"
        /\ JVMFrame(Top.m)
        /\ stk' = Append(At("invoked"),
                         Activation("native", Top.m, Top.c, Get(optop, args_size(Top.m))))
        /\ entered' = Append(entered, Top.c)
        /\ UNCHANGED <<shared, build, mem, regs, ok, exc, calls>>
     \/ /\ Top.inv = "java"
        /\ JVMFrame(Top.m)
        /\ stk' = At("invoked") /\ ok' = TRUE
        /\ UNCHANGED <<shared, build, mem, regs, exc, entered, calls>>
     \/ Top.inv \in {"java", "native"} /\ Overflow

\* Mutant: the invoker is read again behind the call
InvokedJavaNow(r) == r.inv = "java" \/ invoker[r.m] = "java"

\* the invoker, as it was read before the call, only made the frame
InvokedJava(r) == r.inv = "java"

HelperInvoked ==
  /\ Running("helper", "invoked")
  /\ \/ /\ ~ok /\ HelperReturn
        /\ UNCHANGED <<shared, build, frames, mem, regs, ok, exc, held, entered, calls>>
     \/ /\ ok /\ ~InvokedJava(Top)
        /\ HelperFinish(frames, mem)
        /\ UNCHANGED <<shared, build, ok, exc, held, entered, calls>>
     \/ /\ ok /\ InvokedJava(Top)
        /\ stk' = Append(At("executed"),
                         Activation("interp", Top.m, Top.c,
                                    Get(frames[Cur].vars, args_size(Top.m))))
        /\ entered' = Append(entered, Top.c)
        /\ UNCHANGED <<shared, build, frames, mem, regs, ok, exc, held, calls>>

\* Mutant: the result of the interpreter in assembly is not moved
ExecutedUnmoved(m) == [fs |-> Front(frames), words |-> mem]

\* pExecuteJava() returned with the callee's frame current: the caller drops it
\* and, behind the interpreter in assembly, moves the result to its own stack
Executed(m) ==
  LET fs == Front(frames)
      n == Len(fs)
      size == ret_size(m)
  IN IF build.asm
     THEN [fs |-> [fs EXCEPT ![n].optop = fs[n].optop + size],
           words |-> Put(mem, fs[n].optop, Get(optop - size, size))]
     ELSE [fs |-> fs, words |-> mem]

HelperExecuted ==
  /\ Running("helper", "executed")
  /\ IF ok THEN HelperFinish(Executed(Top.m).fs, Executed(Top.m).words)
     ELSE /\ frames' = Front(frames) /\ HelperReturn
          /\ UNCHANGED <<mem, regs>>
  /\ UNCHANGED <<shared, build, ok, exc, held, entered, calls>>

----------------------------------------------------------------------------
(* compileAndInvokeMethod(), invoker.c.                                    *)

\* under the monitor of the method
CandiEntry ==
  /\ Running("candi", "entry")
  /\ \/ /\ \/ invoker[Top.m] = "jit" /\ stk' = At("compiled")
           \/ /\ \/ invoker[Top.m] = "java"
                 \/ Lazy /\ invoker[Top.m] = "candi"
              /\ stk' = At("normal")
        /\ UNCHANGED <<shared, build, frames, mem, regs, ok, exc, held, entered, calls>>
     \/ /\ invoker[Top.m] = "candi"
        /\ invoker' = [invoker EXCEPT ![Top.m] = "java"]
        /\ frames' = [frames EXCEPT ![Cur].optop = optop + args_size(Top.m)]
        /\ stk' = At("compiling")
        /\ UNCHANGED <<compiled, busy, build, mem, regs, ok, exc, held, entered, calls>>
     \/ Overflow

\* compileMethod(): the Java code it runs (class loading and initialization)
\* has its frames from optop on
CandiCompile ==
  /\ Running("candi", "compiling")
  /\ mem' = Scrap(mem, optop)
  /\ frames' = [frames EXCEPT ![Cur].optop = optop - args_size(Top.m)]
  /\ \/ /\ compiled' = [compiled EXCEPT ![Top.m] = TRUE]
        /\ invoker' = [invoker EXCEPT ![Top.m] = "jit"]
        /\ stk' = At("compiled")
     \/ /\ invoker' = [invoker EXCEPT ![Top.m] = "java"]
        /\ stk' = At("normal")
        /\ UNCHANGED compiled
  /\ UNCHANGED <<busy, build, regs, ok, exc, held, entered, calls>>

\* compilation_done
CandiCall ==
  /\ Running("candi", "compiled")
  /\ stk' = Append(At("done"), Activation("jit", Top.m, Top.c, Top.loc))
  /\ UNCHANGED <<shared, build, frames, mem, regs, ok, exc, held, entered, calls>>

CandiDone ==
  /\ Running("candi", "done")
  /\ stk' = Front(stk)
  /\ UNCHANGED <<shared, build, frames, mem, regs, ok, exc, held, entered, calls>>

\* candi_call_normal_method
CandiNormal ==
  /\ Running("candi", "normal")
  /\ \/ /\ JVMFrame(Top.m)
        /\ stk' = Append(At("executed"),
                         Activation("interp", Top.m, Top.c, Get(optop, args_size(Top.m))))
        /\ entered' = Append(entered, Top.c)
        /\ UNCHANGED <<shared, build, mem, regs, ok, exc, calls>>
     \/ Overflow

CandiExecuted ==
  /\ Running("candi", "executed")
  /\ stk' = Front(stk)
  /\ IF ok THEN frames' = Executed(Top.m).fs /\ mem' = Executed(Top.m).words
           ELSE frames' = Front(frames) /\ UNCHANGED mem
  /\ UNCHANGED <<shared, build, regs, ok, exc, held, entered, calls>>

----------------------------------------------------------------------------
(* invokeJITCompiledMethod(), invoker.c.                                   *)

JITEnter ==
  /\ Running("jit", "entry")
  /\ \/ /\ Fits(nlocals(Top.m))
        /\ LET words == ToNative(Get(optop, args_size(Top.m)), Top.m) IN
           /\ stk' = Append(At("done"), Activation("comp", Top.m, Top.c, words))
           /\ frames' = Append(frames, NewFrame(Top.m, nlocals(Top.m), Len(stk) + 1))
           /\ held' = monitorEnter(Top.m, First(words))
        /\ entered' = Append(entered, Top.c)
        /\ UNCHANGED <<shared, build, mem, regs, ok, exc, calls>>
     \/ Overflow

\* invokeJIT_compiled_done: optop moves whether or not there is a result
JITDone ==
  /\ Running("jit", "done")
  /\ LET fs == Front(frames)
         n == Len(fs)
     IN /\ mem' = Put(mem, fs[n].optop, regs)
        /\ frames' = [fs EXCEPT ![n].optop = fs[n].optop + ret_size(Top.m)]
  /\ ok' = ~exc
  /\ stk' = Front(stk)
  /\ UNCHANGED <<shared, build, regs, exc, held, entered, calls>>

----------------------------------------------------------------------------
(* The interpreter and native functions as callers (the JVM's own code).   *)

\* the arguments are at optop; the invoker of the method is called
InvokeByJVM(m, c, words) ==
  \/ /\ invoker[m] \in {"candi", "jit"}
     /\ stk' = Append(Await(m, c), Activation(invoker[m], m, c, <<>>))
     /\ mem' = words
     /\ UNCHANGED <<shared, build, frames, regs, ok, exc, held, entered>>
  \/ /\ invoker[m] \in {"java", "native"}
     /\ Fits(nlocals(m))
     /\ mem' = words
     /\ frames' = Append(frames, NewFrame(m, nlocals(m), 0))
     /\ held' = monitorEnter(m, words[optop])
     /\ stk' = Append(Await(m, c),
                      Activation(IF invoker[m] = "java" THEN "interp" ELSE "native",
                                 m, c, JVMWords(m, c)))
     /\ entered' = Append(entered, c)
     /\ UNCHANGED <<shared, build, regs, ok, exc>>

InterpCall(m) ==
  /\ Running("interp", "run") /\ CanCall /\ Fits(args_size(m))
  /\ calls' = calls + 1
  /\ InvokeByJVM(m, calls + 1, Put(mem, optop, JVMWords(m, calls + 1)))

\* started by pExecuteJava(), the interpreter leaves its frame to the caller
Executing == Top.k = "interp" /\ Below.k \in {"helper", "candi"}
Left == IF Executing THEN frames ELSE Front(frames)

\* the JVM's way out of a method, with a result or with an exception
Leave(result) ==
  /\ held' = monitorExit(Top.m, First(Top.loc))
  /\ stk' = Front(stk)
  /\ ok' = result /\ exc' = ~result
  /\ UNCHANGED <<shared, build, regs, entered, calls>>

\* the result goes to the stack of the caller's frame, but for the interpreter
\* in assembly, which leaves it on its own
LeaveResult ==
  LET n == IF Executing /\ ~build.asm THEN Cur - 1 ELSE Len(Left)
  IN /\ Leave(TRUE)
     /\ mem' = Put(mem, Left[n].optop, Result(Top.m, Top.c))
     /\ frames' = [Left EXCEPT ![n].optop = Left[n].optop + ret_size(Top.m)]

LeaveThrowing == Leave(FALSE) /\ frames' = Left /\ UNCHANGED mem

InterpReturn == Running("interp", "run") /\ Len(stk) > 1 /\ LeaveResult

InterpThrow == Running("interp", "run") /\ Len(stk) > 1 /\ LeaveThrowing

\* a call of the interpreter has returned; a handler empties the operand stack
InterpBack ==
  /\ Running("interp", "ret")
  /\ \/ exc /\ Len(stk) > 1 /\ LeaveThrowing
     \/ /\ exc => Info[Top.m].catches \/ Len(stk) = 1
        /\ frames' = [frames EXCEPT ![Cur].optop = frames[Cur].base]
        /\ mem' = Scrap(mem, frames[Cur].base)
        /\ stk' = At("run")
        /\ exc' = FALSE /\ ok' = TRUE
        /\ UNCHANGED <<shared, build, regs, held, entered, calls>>

\* JNI and NMI functions return in eax and edx, the ones the JVM calls on the
\* Java stack
CReturn(raise) ==
  /\ Top.k \in {"jni", "nmi"} /\ Top.st = "run"
  /\ stk' = Front(stk)
  /\ regs' = LET words == Result(Top.m, Top.c) IN
             CASE raise -> <<Junk, Junk>>
               [] ~raise /\ Info[Top.m].ret = "L" /\ Top.k = "jni" -> <<Ref(words[1]), Junk>>
               [] OTHER -> InRegs(words)
  /\ exc' = raise
  /\ UNCHANGED <<shared, build, frames, mem, ok, held, entered, calls>>

NativeReturn ==
  \/ \E raise \in BOOLEAN : CReturn(raise)
  \/ Running("native", "run") /\ (LeaveResult \/ LeaveThrowing)

\* a native function calls back: the JVM makes a frame without a method
NativeCall(m) ==
  /\ Top.k \in {"jni", "nmi"} /\ Top.st = "run" /\ CanCall
  /\ Fits(args_size(m) + 2)
  /\ invoker[m] \in {"candi", "jit"}
  /\ calls' = calls + 1
  /\ LET fr == [NewFrame(Root, 0, 0) EXCEPT !.m = "none", !.creator = "none"] IN
     /\ frames' = Append(frames, fr)
     /\ mem' = Put(mem, fr.optop, JVMWords(m, calls + 1))
     /\ stk' = Append(Await(m, calls + 1), Activation(invoker[m], m, calls + 1, <<>>))
  /\ UNCHANGED <<shared, build, regs, ok, exc, held, entered>>

NativeBack ==
  /\ Top.k \in {"jni", "nmi"} /\ Top.st = "ret"
  /\ frames' = Front(frames)
  /\ \/ stk' = At("run") /\ exc' = FALSE /\ UNCHANGED <<regs>>
     \/ exc /\ stk' = Front(stk) /\ regs' = <<Junk, Junk>> /\ UNCHANGED exc
  /\ UNCHANGED <<shared, build, mem, ok, held, entered, calls>>

----------------------------------------------------------------------------
(* Another thread compiles the method (Compilation has the protocol).      *)

OtherStarts(m) ==
  /\ m \in Others /\ invoker[m] = "candi"
  /\ invoker' = [invoker EXCEPT ![m] = "java"]
  /\ busy' = busy \cup {m}
  /\ UNCHANGED <<compiled, build, frames, mem, stk, regs, ok, exc, held, entered, calls>>

OtherFlags(m) ==
  /\ m \in busy /\ ~compiled[m]
  /\ compiled' = [compiled EXCEPT ![m] = TRUE]
  /\ UNCHANGED <<invoker, busy, build, frames, mem, stk, regs, ok, exc, held, entered, calls>>

OtherDone(m) ==
  /\ m \in busy
  /\ busy' = busy \ {m}
  /\ invoker' = [invoker EXCEPT ![m] = IF compiled[m] THEN "jit" ELSE "java"]
  /\ UNCHANGED <<compiled, build, frames, mem, stk, regs, ok, exc, held, entered, calls>>

----------------------------------------------------------------------------

Init ==
  /\ invoker = [m \in Methods |-> IF Info[m].kind # "java" THEN "native"
                                  ELSE IF m = Root THEN "java" ELSE "candi"]
  /\ compiled = [m \in Methods |-> FALSE]
  /\ busy = {}
  /\ build \in Builds
  /\ frames = <<[m |-> Root, creator |-> Root, vars |-> 1, ebp |-> 0,
                 base |-> 3, optop |-> 3]>>
  /\ mem = [i \in 1..StackWords |-> Junk]
  /\ stk = <<Activation("interp", Root, 0, <<>>)>>
  /\ regs = <<Junk, Junk>> /\ ok = TRUE /\ exc = FALSE
  /\ held = <<>> /\ entered = <<>> /\ calls = 0

Next ==
  \/ \E m \in Methods \ {Root} :
       \/ InvokeCore(m) \/ InlinedEnter(m) \/ RemoteInvoke(m)
       \/ InterpCall(m) \/ NativeCall(m)
       \/ OtherStarts(m) \/ OtherFlags(m) \/ OtherDone(m)
  \/ InlinedExit \/ CompiledReturn \/ CompiledThrow \/ InvokeCoreDone \/ RemoteDone
  \/ HelperEntry \/ HelperNative \/ HelperInvoke \/ HelperInvoked \/ HelperExecuted
  \/ CandiEntry \/ CandiCompile \/ CandiCall \/ CandiDone \/ CandiNormal \/ CandiExecuted
  \/ JITEnter \/ JITDone
  \/ InterpReturn \/ InterpThrow \/ InterpBack \/ NativeReturn \/ NativeBack

Spec == Init /\ [][Next]_vars

----------------------------------------------------------------------------
(* The stack walk of the JVM: it asks framePrev() for the predecessor of a *)
(* frame whose current_method is compiled and takes frame->prev otherwise. *)
(* w.b # 0: the walk is on frame_buf, which stands for activation w.b.     *)

walked(w) == IF w.b = 0 THEN frames[w.i].m ELSE stk[w.b].m

\* Mutant: frame_buf inherits the lastpc of the frame
lastpcInherited(w, mb) == frames[w.i].creator = mb

\* frame->lastpc, set when the frame was made, is in the code of mb;
\* frame_buf->lastpc is 0
lastpcIn(w, mb) == w.b = 0 /\ frames[w.i].creator = mb

framePrev(w) ==
  LET mb == walked(w)
      basep == IF w.b = 0 THEN frames[w.i].ebp ELSE w.b
      prev == [w EXCEPT !.i = w.i - 1, !.b = 0]
  IN CASE mb = "none" -> prev
       [] mb # "none" /\ ~compiled[mb] -> prev
       [] mb # "none" /\ compiled[mb] /\ lastpcIn(w, mb) -> prev
       [] OTHER -> IF stk[basep - 1].k = "jit" THEN prev   \* invokeJIT_compiled_done
                   ELSE [w EXCEPT !.b = basep - 1]

\* the methods the walk reports, the running one first
Walk ==
  FoldLeft(LAMBDA w, n :
             IF w.i = 0 THEN w
             ELSE [framePrev(w) EXCEPT !.out =
                     IF walked(w) = "none" THEN w.out ELSE Append(w.out, walked(w))],
           [i |-> Cur, b |-> 0, out |-> <<>>],
           [n \in 1..(Len(stk) + Cur) |-> n]).out

\* the activations that have a place in a JavaFrame
Visible(r) == r.k \in {"comp", "interp", "jni", "native"}

Chain == LET rs == SelectSeq(stk, Visible) IN Reverse([i \in DOMAIN rs |-> rs[i].m])

\* the method that made the current frame runs again in it, called directly
Reentered(f) ==
  /\ f.ebp # 0 /\ f.m = f.creator
  /\ stk[f.ebp - 1].k = "comp"

----------------------------------------------------------------------------

\* a multi-dimensional array, which proxy_invoke() mistakes, with another
\* parameter behind it
Misparsed(m) == \E p \in DOMAIN Front(Info[m].params) : Info[m].params[p] = "[[I"

\* Whoever runs a method has got the words of that very call, in the layout of
\* its kind: compiled code on the native stack, the interpreter on the Java
\* stack, a native function as C arguments, a remote VM as boxed values.
ArgsDelivered ==
  \A i \in DOMAIN stk :
    LET r == stk[i] IN
    /\ r.k = "comp" => r.loc = NativeWords(r.m, r.c)
    /\ r.k \in {"interp", "native"} => r.loc = JVMWords(r.m, r.c)
    /\ r.k \in {"jni", "nmi"} => r.loc = CArgs(r.m, r.c, r.k)
    /\ r.k = "remote" /\ ~Misparsed(r.m) => BoxedArgs(r.loc, r.m) = BoxedWords(r.m, r.c)

\* Variables of interpreted activations on the Java stack are not overwritten
\* by the calls made above them.
VariablesKept ==
  \A i \in DOMAIN stk : stk[i].k \in {"interp", "native"} =>
    \E j \in DOMAIN frames :
      /\ frames[j].m = stk[i].m /\ frames[j].ebp = 0
      /\ Get(frames[j].vars, args_size(stk[i].m)) = JVMWords(stk[i].m, stk[i].c)

\* A caller whose call came back without an exception finds the result of that
\* call where it looks for it, and a failure never comes back without one.
ResultDelivered ==
  Top.st = "ret" =>
    LET m == Top.call[1]
        c == Top.call[2]
        size == ret_size(m)
    IN /\ Top.k = "comp" /\ ~exc => SubSeq(regs, 1, size) = Result(m, c)
       /\ Top.k \in {"interp", "jni", "nmi"} /\ ~exc =>
            Get(optop - size, size) = Result(m, c)
       /\ Top.k \in {"interp", "jni", "nmi"} => (ok <=> ~exc)
       /\ ~exc => Contains(entered, c)

\* A call runs its method once, whichever of the routes it takes and whatever
\* another thread does to the invoker meanwhile.
RunsOnce == IsInjective(entered)

\* the activation that entered the monitor of its method and has to exit it
Holds(r) ==
  /\ Info[r.m].sync
  /\ \/ r.k \in {"comp", "interp", "native"}
     \/ r.k = "helper" /\ r.st = "native"
     \/ r.k = "helper" /\ r.st = "invoked" /\ r.inv = "java"

\* The monitors held are those of the synchronized methods on the stack, and
\* each one is exited by the object it was entered with, also on the way of an
\* exception.
MonitorsBalanced ==
  held = FlattenSeq([i \in DOMAIN stk |->
                       IF Holds(stk[i]) THEN <<Lock(stk[i].m, <<stk[i].c, 0, "w">>)>>
                                        ELSE <<>>])

\* code that may look at the stack runs
Walkable == Top.st \in {"run", "compiling"}

\* A stack walk (a stack trace, a security check) reports every activation, but
\* for what framePrev() cuts off when the method that made a frame has been
\* entered again in it.
WalkComplete ==
  Walkable /\ ~(\E i \in DOMAIN frames : Reentered(frames[i])) => Walk = Chain

\* The operand stack pointer of a frame in which code runs is back at its base
\* after every call. A compiled method that is left by an exception has its
\* result counted nevertheless: such a frame is off by the result of a method
\* at most once, because the next call of that method is direct.
OptopBalanced ==
  ~build.metavm /\ Top.st = "run" /\ Top.k \in {"comp", "interp", "jni", "native"} =>
    /\ optop >= frames[Cur].base
    /\ optop <= frames[Cur].base +
         IF Top.k = "comp"
         THEN FoldLeft(LAMBDA n, m : n + ret_size(m), 0,
                       SetToSeq({m \in Methods : compiled[m]}))
         ELSE 0
=============================================================================
