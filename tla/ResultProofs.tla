---------------------------- MODULE ResultProofs ----------------------------
(***************************************************************************)
(* Invocation: what a call brings back, for any program, any stacks and    *)
(* any number of calls.                                                    *)
(*                                                                         *)
(* - An exception is pending exactly when a call that is coming back has   *)
(*   failed, and whoever comes back without one has begun his method.      *)
(* - A call that comes back without an exception has left its result where *)
(*   the caller looks for it.                                              *)
(***************************************************************************)
EXTENDS InvocationProofs
-----------------------------------------------------------------------------
(* How a call comes back: the flags.                                       *)

\* a C function or a method called by the JVM has returned
Both(t) == Answered(t) \/ Ran(t) \/ (t.k \in {"interp", "jni", "nmi"} /\ t.st = "ret")

\* a call has returned
Busy(t) ==
  \/ Both(t) \/ (t.k = "comp" /\ t.st = "ret") \/ (t.k = "jit" /\ t.st = "done")
  \/ (t.k = "helper" /\ t.st = "native")

\* No exception is pending in code that runs; a truth value tells of one.
Flags(t, o, x) == (~ Busy(t) => ~ x) /\ (Both(t) => (o <=> ~ x))

Pushed(g) ==
  \/ \E st : stk' = Append(At(st), g)
  \/ \E m, c : stk' = Append(Await(m, c), g)

LEMMA PushedTip ==
  ASSUME Laid, NEW g, Pushed(g)
  PROVE  /\ Tip(stk') = g
         /\ \E s, f : Put1(stk, f, s) /\ Next1(f, Top) /\ Push1(s, g, stk')
<1>1. ASSUME NEW st, stk' = Append(At(st), g)
      PROVE  \E s, f : Put1(stk, f, s) /\ Next1(f, Top) /\ Push1(s, g, stk')
  <2>1. PICK f : Put1(stk, f, At(st)) /\ Next1(f, Top)
    BY AtIs
  <2>2. PICK s, r : s = At(st) /\ r = stk'
    OBVIOUS
  <2>3. IsSeq(s) /\ r = Append(s, g) /\ Put1(stk, f, s)
    BY <1>1, <2>1, <2>2 DEF Put1
  <2>4. Push1(s, g, r)
    BY <2>3, PushIs
  <2>5. QED
    BY <2>1, <2>2, <2>3, <2>4
<1>2. ASSUME NEW m, NEW c, stk' = Append(Await(m, c), g)
      PROVE  \E s, f : Put1(stk, f, s) /\ Next1(f, Top) /\ Push1(s, g, stk')
  <2>1. PICK f : Put1(stk, f, Await(m, c)) /\ Next1(f, Top)
    BY AwaitIs
  <2>2. PICK s, r : s = Await(m, c) /\ r = stk'
    OBVIOUS
  <2>3. IsSeq(s) /\ r = Append(s, g) /\ Put1(stk, f, s)
    BY <1>2, <2>1, <2>2 DEF Put1
  <2>4. Push1(s, g, r)
    BY <2>3, PushIs
  <2>5. QED
    BY <2>1, <2>2, <2>3, <2>4
<1>3. PICK s, f : Put1(stk, f, s) /\ Next1(f, Top) /\ Push1(s, g, stk')
  BY <1>1, <1>2 DEF Pushed
<1>4. Tip(stk') = g
  BY <1>3, PushTip
<1>5. QED
  BY <1>3, <1>4

LEMMA FlagsPush ==
  ASSUME Laid, ~ exc, exc' = exc, NEW g, ~ Busy(g), Pushed(g)
  PROVE  Flags(Tip(stk'), ok', exc')
<1>1. ~ Both(g)
  BY DEF Busy
<1>2. Tip(stk') = g
  BY PushedTip
<1>3. QED
  BY <1>1, <1>2 DEF Flags

LEMMA AtTip ==
  ASSUME Laid, NEW st, stk' = At(st)
  PROVE  \E f : /\ Tip(stk') = f /\ Put1(stk, f, stk') /\ Next1(f, Top)
                /\ f.k = Top.k /\ f.m = Top.m /\ f.c = Top.c /\ f.st = st /\ f.inv = Top.inv
<1>1. PICK f : Put1(stk, f, At(st)) /\ Next1(f, Top) /\ f.st = st /\ f.inv = Top.inv
  BY AtIs
<1>2. Put1(stk, f, stk')
  BY <1>1
<1>3. Tip(stk') = f
  BY <1>2, PutTip
<1>4. QED
  BY <1>1, <1>2, <1>3 DEF Next1, Goes

\* The innermost activation goes on.
LEMMA FlagsAt ==
  ASSUME Laid, ~ exc', NEW st, stk' = At(st),
         \/ st = "run" /\ Top.k \in {"comp", "interp", "jni", "nmi"}
         \/ st \in {"compiled", "normal", "compiling"} /\ Top.k = "candi"
         \/ st = "invoked" /\ Top.k = "helper" /\ Top.inv = "java"
  PROVE  Flags(Tip(stk'), ok', exc')
<1>1. PICK f : Tip(stk') = f /\ f.k = Top.k /\ f.st = st /\ f.inv = Top.inv
  BY AtTip
<1>2. ~ Busy(f) /\ ~ Both(f)
  BY <1>1 DEF Busy, Both, Answered, Ran
<1>3. QED
  BY <1>1, <1>2 DEF Flags

\* what is below, when an activation has returned
LEMMA PoppedTip ==
  ASSUME Laid, Len(stk) > 1, stk' = Front(stk)
  PROVE  Link(Tip(stk'), Top) /\ Pop1(stk, stk') /\ Act(Tip(stk'))
<1>1. PICK r : r = Front(stk)
  OBVIOUS
<1>2. Link(Tip(r), Top) /\ Pop1(stk, r) /\ Act(Tip(r))
  BY <1>1, BelowIs
<1>3. QED
  BY <1>1, <1>2

LEMMA LinkBusy ==
  ASSUME NEW a, NEW b, Link(a, b)
  PROVE  /\ Busy(a)
         /\ b.k \in {"comp", "helper", "remote", "jni", "nmi"} => ~ Both(a)
         /\ b.k \in {"jit", "candi", "interp", "native"} => b.k \in {"interp"} \/ Both(a)
BY DEF Link, Busy, Both, Answered, Ran

LEMMA FlagsPop ==
  ASSUME Laid, Len(stk) > 1, stk' = Front(stk),
         \/ ok' <=> ~ exc'
         \/ Top.k \in {"comp", "helper", "remote", "jni", "nmi"}
  PROVE  Flags(Tip(stk'), ok', exc')
<1>1. PICK a : a = Tip(stk')
  OBVIOUS
<1>2. Link(a, Top)
  BY <1>1, PoppedTip
<1>3. Busy(a) /\ (Top.k \in {"comp", "helper", "remote", "jni", "nmi"} => ~ Both(a))
  BY <1>2, LinkBusy
<1>4. QED
  BY <1>1, <1>3 DEF Flags

\* ... but the bottom one is never popped
LEMMA FlagsAway ==
  ASSUME Laid, Top.k # "interp", stk' = Front(stk),
         \/ ok' <=> ~ exc'
         \/ Top.k \in {"comp", "helper", "remote", "jni", "nmi"}
  PROVE  Flags(Tip(stk'), ok', exc')
BY LaidTop, FlagsPop

Flagged == Laid /\ Flags(Tip(stk), ok, exc)

LEMMA Calm ==
  ASSUME Flagged, ~ Busy(Top)
  PROVE  ~ exc
BY LaidTop DEF Flagged, Flags

-----------------------------------------------------------------------------

LEMMA CompiledFlags ==
  ASSUME Flagged, NEW m \in Methods,
         \/ InvokeCore(m) \/ InlinedEnter(m) \/ RemoteInvoke(m) \/ InlinedExit
         \/ CompiledReturn \/ CompiledThrow \/ InvokeCoreDone
  PROVE  Flags(Tip(stk'), ok', exc')
<1>1. Laid /\ Top.k = "comp"
  BY DEF Flagged, InvokeCore, InlinedEnter, InlinedExit, RemoteInvoke, CompiledReturn,
         CompiledThrow, InvokeCoreDone, Running
<1>2. Top.st = "run" => ~ exc
  BY <1>1, Calm DEF Busy, Both, Answered, Ran
<1>3. CASE InvokeCore(m) \/ RemoteInvoke(m)
  <2>1. PICK k, x, y, z : k \in {"comp", "helper", "remote"} /\
          stk' = Append(Await(x, y), Activation(k, x, y, z))
    BY <1>3 DEF InvokeCore, InvokeDirect, InvokeHelper, RemoteInvoke
  <2>2. PICK g : g = Activation(k, x, y, z)
    OBVIOUS
  <2>3. g.k = k /\ g.st = IF k \in {"helper", "candi", "jit"} THEN "entry" ELSE "run"
    BY <2>2, MakeActIs
  <2>4. ~ Busy(g)
    BY <2>3 DEF Busy, Both, Answered, Ran
  <2>5. exc' = exc /\ ~ exc
    BY <1>2, <1>3 DEF InvokeCore, RemoteInvoke, Running
  <2>6. Pushed(g)
    BY <2>1, <2>2 DEF Pushed
  <2>7. QED
    BY <1>1, <2>4, <2>5, <2>6, FlagsPush
<1>4. ASSUME NEW f, Changed(f), ~ exc' PROVE Flags(Tip(stk'), ok', exc')
  <2>1. Put1(stk, f, stk') /\ Goes(f, Top)
    BY <1>1, <1>4, ChangedPut
  <2>2. Tip(stk') = f /\ f.k = "comp"
    BY <1>1, <2>1, PutTip DEF Goes
  <2>3. ~ Both(f)
    BY <2>2 DEF Both, Answered, Ran
  <2>4. QED
    BY <1>4, <2>2, <2>3 DEF Flags
<1>5. CASE InlinedEnter(m) \/ InlinedExit
  <2>1. PICK f : Changed(f)
    BY <1>1, <1>5, InlinedIs
  <2>2. ~ exc'
    BY <1>2, <1>5 DEF InlinedEnter, InlinedExit, Running
  <2>3. QED
    BY <1>4, <2>1, <2>2
<1>6. CASE Catch
  <2>1. PICK f : Changed(f)
    BY <1>1, <1>6, CatchIs
  <2>2. ~ exc'
    BY <1>6 DEF Catch
  <2>3. QED
    BY <1>4, <2>1, <2>2
<1>7. CASE Unwind \/ CompiledReturn
  BY <1>1, <1>7, FlagsAway DEF Unwind, CompiledReturn, MethodTail
<1>8. CASE ~ exc /\ exc' = exc /\ stk' = At("run")
  BY <1>1, <1>8, FlagsAt
<1>9. QED
  BY <1>3, <1>5, <1>6, <1>7, <1>8 DEF CompiledThrow, InvokeCoreDone

LEMMA HelperFlags ==
  ASSUME Flagged, \/ RemoteDone \/ HelperEntry \/ HelperNative \/ HelperInvoke \/ HelperInvoked
                  \/ HelperExecuted
  PROVE  Flags(Tip(stk'), ok', exc')
<1>1. Laid /\ Top.k \in {"remote", "helper"} /\ Top.k # "interp"
  BY DEF Flagged, RemoteDone, HelperEntry, HelperNative, HelperInvoke, HelperInvoked,
         HelperExecuted, Running
<1>2. CASE stk' = Front(stk)
  BY <1>1, <1>2, FlagsAway
<1>3. CASE Top.st \in {"entry", "invoke"} \/ (Top.st = "invoked" /\ Top.inv = "java")
  <2>1. ~ exc
    BY <1>1, <1>3, Calm DEF Busy, Both, Answered, Ran
  <2>2. ASSUME NEW g, NEW st, stk' = Append(At(st), g), exc' = exc,
               g.st # "ret", g.st # "done", g.k # "helper", g.k # "candi" \/ g.st = "entry"
        PROVE  Flags(Tip(stk'), ok', exc')
    <3>1. ~ Busy(g)
      BY <2>2 DEF Busy, Both, Answered, Ran
    <3>2. Pushed(g)
      BY <2>2 DEF Pushed
    <3>3. QED
      BY <1>1, <2>1, <2>2, <3>1, <3>2, FlagsPush
  <2>3. ASSUME NEW k \in {"candi", "jit", "native", "jni", "nmi", "interp"}, NEW x, NEW st,
               stk' = Append(At(st), Activation(k, Top.m, Top.c, x)), exc' = exc
        PROVE  Flags(Tip(stk'), ok', exc')
    <3>1. PICK g : g = Activation(k, Top.m, Top.c, x)
      OBVIOUS
    <3>2. g.k = k /\ g.st = IF k \in {"helper", "candi", "jit"} THEN "entry" ELSE "run"
      BY <3>1, MakeActIs
    <3>3. stk' = Append(At(st), g)
      BY <2>3, <3>1
    <3>4. QED
      BY <2>2, <2>3, <3>2, <3>3
  <2>4. CASE HelperEntry
    <3>1. CASE Overflow
      BY <1>2, <3>1 DEF Overflow
    <3>2. CASE ViaInvoker
      <4>1. PICK f : Put1(stk, f, stk') /\ Next1(f, Top) /\ f.st = "invoke"
        BY <1>1, <3>2, ViaInvokerIs DEF Passing
      <4>2. Tip(stk') = f
        BY <4>1, PutTip
      <4>3. f.k = Top.k
        BY <4>1 DEF Next1, Goes
      <4>4. ~ Both(f) /\ exc' = exc
        BY <1>1, <3>2, <4>1, <4>3 DEF Both, Answered, Ran, ViaInvoker
      <4>5. QED
        BY <2>1, <4>2, <4>4 DEF Flags
    <3>3. CASE /\ stk' = Append(At("native"), Activation("jni", Top.m, Top.c, JNIArgs(Top.loc, Top.m)))
               /\ exc' = exc
      BY <2>3, <3>3
    <3>4. CASE /\ stk' = Append(At("native"), Activation("nmi", Top.m, Top.c, NMIArgs(Top.loc, Top.m)))
               /\ exc' = exc
      BY <2>3, <3>4
    <3>5. QED
      BY <2>4, <3>1, <3>2, <3>3, <3>4 DEF HelperEntry, HelperJNI, HelperNMI, HelperJava
  <2>5. CASE HelperInvoke
    <3>1. CASE Overflow
      BY <1>2, <3>1 DEF Overflow
    <3>2. CASE stk' = At("invoked") /\ Top.inv = "java" /\ exc' = exc
      <4>1. Top.k = "helper"
        BY <2>5 DEF HelperInvoke, Running
      <4>2. QED
        BY <1>1, <2>1, <3>2, <4>1, FlagsAt
    <3>3. CASE /\ Top.inv \in {"candi", "jit"} /\ exc' = exc
               /\ stk' = Append(At("invoked"), Activation(Top.inv, Top.m, Top.c, Top.loc))
      BY <2>3, <3>3
    <3>4. CASE /\ stk' = Append(At("invoked"),
                                Activation("native", Top.m, Top.c, Get(optop, args_size(Top.m))))
               /\ exc' = exc
      BY <2>3, <3>4
    <3>5. QED
      BY <2>5, <3>1, <3>2, <3>3, <3>4 DEF HelperInvoke
  <2>6. CASE HelperInvoked
    <3>1. CASE /\ exc' = exc
               /\ stk' = Append(At("executed"),
                                Activation("interp", Top.m, Top.c,
                                           Get(frames[Cur].vars, args_size(Top.m))))
      BY <2>3, <3>1
    <3>2. QED
      BY <1>2, <2>6, <3>1 DEF HelperInvoked, HelperFinish, HelperReturn
  <2>7. QED
    BY <1>2, <1>3, <2>4, <2>5, <2>6 DEF RemoteDone, HelperNative, HelperExecuted, Running, HelperFinish,
       HelperReturn
<1>4. CASE ~ (Top.st \in {"entry", "invoke"} \/ (Top.st = "invoked" /\ Top.inv = "java"))
  BY <1>2, <1>4 DEF RemoteDone, HelperEntry, HelperNative, HelperInvoke, HelperInvoked,
     HelperExecuted, HelperFinish, HelperReturn, InvokedJava, Running
<1>5. QED
  BY <1>3, <1>4

LEMMA CandiFlags ==
  ASSUME Flagged, \/ CandiEntry \/ CandiCompile \/ CandiCall \/ CandiDone \/ CandiNormal
                  \/ CandiExecuted
  PROVE  Flags(Tip(stk'), ok', exc')
<1>1. Laid /\ Top.k = "candi" /\ Top.k # "interp"
  BY DEF Flagged, CandiEntry, CandiCompile, CandiCall, CandiDone, CandiNormal, CandiExecuted,
         Running
<1>2. CASE Overflow
  <2>1. stk' = Front(stk) /\ (ok' <=> ~ exc')
    BY <1>2 DEF Overflow
  <2>2. QED
    BY <1>1, <2>1, FlagsAway
<1>3. CASE (CandiDone \/ CandiExecuted) /\ Both(Top)
  <2>1. ok <=> ~ exc
    BY <1>1, <1>3, LaidTop DEF Flagged, Flags
  <2>2. stk' = Front(stk) /\ ok' = ok /\ exc' = exc
    BY <1>3 DEF CandiDone, CandiExecuted
  <2>3. QED
    BY <1>1, <2>1, <2>2, FlagsAway
<1>4. CASE CandiDone \/ CandiExecuted
  <2>1. Both(Top)
    BY <1>4 DEF CandiDone, CandiExecuted, Both, Answered, Ran, Running
  <2>2. QED
    BY <1>3, <1>4, <2>1
<1>5. CASE Top.st \in {"entry", "compiling", "compiled", "normal"}
  <2>1. ~ exc
    BY <1>1, <1>5, Calm DEF Busy, Both, Answered, Ran
  <2>2. CASE exc' = exc /\ (\/ stk' = At("compiled") \/ stk' = At("normal") \/ stk' = At("compiling"))
    BY <1>1, <2>1, <2>2, FlagsAt
  <2>3. ASSUME NEW k \in {"jit", "interp"}, NEW x, NEW st,
               stk' = Append(At(st), Activation(k, Top.m, Top.c, x)), exc' = exc
        PROVE  Flags(Tip(stk'), ok', exc')
    <3>1. PICK g : g = Activation(k, Top.m, Top.c, x)
      OBVIOUS
    <3>2. g.k = k /\ g.st = IF k \in {"helper", "candi", "jit"} THEN "entry" ELSE "run"
      BY <3>1, MakeActIs
    <3>3. ~ Busy(g)
      BY <2>3, <3>2 DEF Busy, Both, Answered, Ran
    <3>4. Pushed(g)
      BY <2>3, <3>1 DEF Pushed
    <3>5. QED
      BY <1>1, <2>1, <2>3, <3>3, <3>4, FlagsPush
  <2>4. CASE CandiCall \/ CandiNormal
    BY <1>2, <2>3, <2>4 DEF CandiCall, CandiNormal
  <2>5. QED
    BY <1>2, <1>4, <2>2, <2>4 DEF CandiEntry, CandiCompile
<1>6. QED
  BY <1>4, <1>5 DEF CandiEntry, CandiCompile, CandiCall, CandiNormal, Running

LEMMA JITFlags ==
  ASSUME Flagged, JITEnter \/ JITDone
  PROVE  Flags(Tip(stk'), ok', exc')
<1>1. Laid /\ Top.k = "jit" /\ Top.k # "interp"
  BY DEF Flagged, JITEnter, JITDone, Running
<1>2. CASE Overflow
  <2>1. stk' = Front(stk) /\ (ok' <=> ~ exc')
    BY <1>2 DEF Overflow
  <2>2. QED
    BY <1>1, <2>1, FlagsAway
<1>3. CASE JITDone
  <2>1. stk' = Front(stk) /\ (ok' <=> ~ exc')
    BY <1>3 DEF JITDone
  <2>2. QED
    BY <1>1, <2>1, FlagsAway
<1>4. CASE JITEnter /\ ~ Overflow
  <2>1. ~ exc
    BY <1>1, <1>4, Calm DEF Busy, Both, Answered, Ran, JITEnter, Running
  <2>2. PICK g, x : g = Activation("comp", Top.m, Top.c, x) /\ stk' = Append(At("done"), g)
    BY <1>4 DEF JITEnter
  <2>3. g.k = "comp" /\ g.st = "run"
    BY <2>2, MakeActIs
  <2>4. ~ Busy(g)
    BY <2>3 DEF Busy, Both, Answered, Ran
  <2>5. Pushed(g)
    BY <2>2 DEF Pushed
  <2>6. exc' = exc
    BY <1>4 DEF JITEnter
  <2>7. QED
    BY <1>1, <2>1, <2>4, <2>5, <2>6, FlagsPush
<1>5. QED
  BY <1>2, <1>3, <1>4

\* the JVM's way out of a method
LEMMA LeaveFlags ==
  ASSUME Laid, Len(stk) > 1, LeaveResult \/ LeaveThrowing
  PROVE  Flags(Tip(stk'), ok', exc')
<1>1. stk' = Front(stk) /\ (ok' <=> ~ exc')
  BY DEF LeaveResult, LeaveThrowing, Leave
<1>2. QED
  BY <1>1, FlagsPop

LEMMA JVMFlags ==
  ASSUME Flagged, NEW m \in Methods,
         \/ InterpCall(m) \/ NativeCall(m) \/ InterpReturn \/ InterpThrow \/ InterpBack
         \/ NativeReturn \/ NativeBack
  PROVE  Flags(Tip(stk'), ok', exc')
<1>1. Laid
  BY DEF Flagged
<1>2. CASE Len(stk) > 1 /\ (LeaveResult \/ LeaveThrowing)
  BY <1>1, <1>2, LeaveFlags
<1>3. CASE Top.k \in {"interp", "jni", "nmi"} /\ stk' = At("run") /\ ~ exc'
  BY <1>1, <1>3, FlagsAt
<1>4. CASE Top.k \in {"jni", "nmi"} /\ stk' = Front(stk)
  <2>1. Len(stk) > 1
    BY <1>1, <1>4, LaidTop
  <2>2. QED
    BY <1>1, <1>4, <2>1, FlagsPop
<1>5. CASE InterpCall(m) \/ NativeCall(m)
  <2>1. ~ exc
    BY <1>5, Calm DEF Busy, Both, Answered, Ran, InterpCall, NativeCall, Running
  <2>2. PICK k, x, y, z : k \in {"candi", "jit", "interp", "native"} /\
          stk' = Append(Await(x, y), Activation(k, x, y, z))
    BY <1>5 DEF InterpCall, InvokeByJVM, NativeCall
  <2>3. PICK g : g = Activation(k, x, y, z)
    OBVIOUS
  <2>4. g.k = k /\ g.st = IF k \in {"helper", "candi", "jit"} THEN "entry" ELSE "run"
    BY <2>3, MakeActIs
  <2>5. ~ Busy(g)
    BY <2>4 DEF Busy, Both, Answered, Ran
  <2>6. Pushed(g)
    BY <2>2, <2>3 DEF Pushed
  <2>7. exc' = exc
    BY <1>5 DEF InterpCall, InvokeByJVM, NativeCall
  <2>8. QED
    BY <1>1, <2>1, <2>5, <2>6, <2>7, FlagsPush
<1>6. CASE InterpReturn \/ InterpThrow
  BY <1>2, <1>6 DEF InterpReturn, InterpThrow
<1>7. CASE InterpBack
  <2>1. Top.k = "interp"
    BY <1>7 DEF InterpBack, Running
  <2>2. QED
    BY <1>2, <1>3, <1>7, <2>1 DEF InterpBack
<1>8. CASE NativeReturn
  <2>1. CASE Running("native", "run") /\ (LeaveResult \/ LeaveThrowing)
    <3>1. Len(stk) > 1
      BY <1>1, <2>1, LaidTop DEF Running
    <3>2. QED
      BY <1>2, <2>1, <3>1
  <2>2. ASSUME NEW raise \in BOOLEAN, CReturn(raise) PROVE Flags(Tip(stk'), ok', exc')
    BY <1>4, <2>2 DEF CReturn
  <2>3. QED
    BY <1>8, <2>1, <2>2 DEF NativeReturn
<1>9. CASE NativeBack
  BY <1>3, <1>4, <1>9 DEF NativeBack
<1>10. QED
  BY <1>5, <1>6, <1>7, <1>8, <1>9

LEMMA InitFlags ==
  ASSUME Init
  PROVE  Flags(Tip(stk), ok, exc)
<1>1. PICK a, s : a = Activation("interp", Root, 0, << >>) /\ s = <<a>>
  OBVIOUS
<1>2. stk = s /\ ok = TRUE /\ exc = FALSE
  BY <1>1 DEF Init
<1>3. Len(s) = 1 /\ s[1] = a
  BY <1>1, WordsSeq
<1>4. a.k = "interp" /\ a.st = "run"
  BY <1>1, MakeActIs
<1>5. ~ Both(a)
  BY <1>4 DEF Both, Answered, Ran
<1>6. QED
  BY <1>2, <1>3, <1>5 DEF Flags, Tip

LEMMA NextFlags ==
  ASSUME Flagged, [Next]_vars
  PROVE  Flags(Tip(stk'), ok', exc')
<1>0. Flags(Tip(stk), ok, exc)
  BY DEF Flagged
<1>1. ASSUME NEW m \in Methods,
             InvokeCore(m) \/ InlinedEnter(m) \/ RemoteInvoke(m) \/ InterpCall(m) \/ NativeCall(m)
      PROVE  Flags(Tip(stk'), ok', exc')
  BY <1>1, CompiledFlags, JVMFlags
<1>2. CASE UNCHANGED <<stk, ok, exc>>
  BY <1>0, <1>2
<1>3. CASE InlinedExit \/ CompiledReturn \/ CompiledThrow \/ InvokeCoreDone
  BY <1>3, CompiledFlags, InfoAssumption
<1>5. CASE \/ HelperEntry \/ HelperNative \/ HelperInvoke \/ HelperInvoked \/ HelperExecuted
           \/ RemoteDone
  BY <1>5, HelperFlags
<1>6. CASE CandiEntry \/ CandiCompile \/ CandiCall \/ CandiDone \/ CandiNormal \/ CandiExecuted
  BY <1>6, CandiFlags
<1>7. CASE JITEnter \/ JITDone
  BY <1>7, JITFlags
<1>8. CASE InterpReturn \/ InterpThrow \/ InterpBack \/ NativeReturn \/ NativeBack
  BY <1>8, JVMFlags, InfoAssumption
<1>9. ASSUME NEW m \in Methods, OtherStarts(m) \/ OtherFlags(m) \/ OtherDone(m)
      PROVE  UNCHANGED <<stk, ok, exc>>
  BY <1>9 DEF OtherStarts, OtherFlags, OtherDone
<1>10. UNCHANGED vars => UNCHANGED <<stk, ok, exc>>
  BY DEF vars
<1>11. QED
  BY <1>1, <1>2, <1>3, <1>5, <1>6, <1>7, <1>8, <1>9, <1>10 DEF Next

-----------------------------------------------------------------------------
(* The calls that have begun. entered only grows; whoever runs a method,   *)
(* or has run it, is in it.                                                *)

Has(e, c) == \E i \in 1 .. Len(e) : e[i] = c

More(e, f) == IsSeq(f) /\ \A c : Has(e, c) => Has(f, c)

LEMMA MoreSame ==
  ASSUME NEW e, IsSeq(e)
  PROVE  More(e, e)
BY DEF More

LEMMA MoreOne ==
  ASSUME NEW e, IsSeq(e), NEW c, NEW f, f = Append(e, c)
  PROVE  More(e, f) /\ Has(f, c)
<1>1. PICK n \in Nat : n = Len(e)
  BY SeqFacts
<1>2. IsSeq(f)
  BY Push
<1>3. Len(f) = n + 1
  BY <1>1, Push
<1>4. f[n + 1] = c
  BY <1>1, Push
<1>5. \A k \in 1 .. n : f[k] = e[k]
  BY <1>1, Push
<1>6. n + 1 \in 1 .. n + 1
  OBVIOUS
<1>7. Has(f, c)
  BY <1>3, <1>4, <1>6 DEF Has
<1>8. ASSUME NEW x, Has(e, x) PROVE Has(f, x)
  <2>1. PICK i \in 1 .. n : e[i] = x
    BY <1>1, <1>8 DEF Has
  <2>2. f[i] = e[i]
    BY <1>5
  <2>3. i \in 1 .. n + 1
    OBVIOUS
  <2>4. f[i] = x
    BY <2>1, <2>2
  <2>5. QED
    BY <1>3, <2>3, <2>4 DEF Has
<1>9. QED
  BY <1>2, <1>7, <1>8 DEF More

\* the activations whose method has begun
Began(r) ==
  \/ r.k \in {"comp", "interp", "native", "jni", "nmi"}
  \/ r.k = "helper" /\ r.st \in {"native", "executed"}
  \/ r.k = "candi" /\ r.st = "executed"
  \/ r.k = "jit" /\ r.st = "done"

\* the outermost activation runs the program, which nobody calls
Enrolled(s, e) ==
  /\ IsSeq(s) /\ IsSeq(e)
  /\ \A i \in 1 .. Len(s) : i # 1 /\ Began(s[i]) => Has(e, s[i].c)

LEMMA EnrolTip ==
  ASSUME NEW s, NEW e, Enrolled(s, e), Len(s) > 1, Began(Tip(s))
  PROVE  Has(e, Tip(s).c)
<1>1. PICK n \in Nat : n = Len(s)
  BY SeqFacts DEF Enrolled
<1>2. n \in 1 .. n /\ n # 1
  BY <1>1
<1>3. QED
  BY <1>1, <1>2 DEF Enrolled, Tip

LEMMA EnrolPut ==
  ASSUME NEW s, NEW e, Enrolled(s, e), NEW f, More(e, f), NEW t, NEW r, Put1(s, t, r),
         Len(s) > 1 /\ Began(t) => Has(f, t.c)
  PROVE  Enrolled(r, f)
<1>1. PICK n \in Nat : n = Len(s)
  BY SeqFacts DEF Enrolled
<1>2. IsSeq(r) /\ Len(r) = n /\ r[n] = t
  BY <1>1 DEF Put1
<1>3. \A k \in 1 .. n : k < n => r[k] = s[k]
  BY <1>1 DEF Put1
<1>4. IsSeq(f) /\ \A c : Has(e, c) => Has(f, c)
  BY DEF More
<1>5. ASSUME NEW i \in 1 .. n, i # 1, Began(r[i]) PROVE Has(f, r[i].c)
  <2>1. CASE i = n
    BY <1>1, <1>2, <1>5, <2>1
  <2>2. CASE i < n
    <3>1. r[i] = s[i]
      BY <1>3, <2>2
    <3>2. Has(e, s[i].c)
      BY <1>1, <1>5, <3>1 DEF Enrolled
    <3>3. QED
      BY <1>4, <3>1, <3>2
  <2>3. QED
    BY <2>1, <2>2
<1>6. QED
  BY <1>2, <1>4, <1>5 DEF Enrolled

LEMMA EnrolPush ==
  ASSUME NEW s, NEW e, Enrolled(s, e), NEW f, More(e, f), NEW g, NEW r, Push1(s, g, r),
         Began(g) => Has(f, g.c)
  PROVE  Enrolled(r, f)
<1>1. PICK n \in Nat : n = Len(s)
  BY SeqFacts DEF Enrolled
<1>2. IsSeq(r) /\ Len(r) = n + 1 /\ r[n + 1] = g
  BY <1>1 DEF Push1
<1>3. \A k \in 1 .. n : r[k] = s[k]
  BY <1>1 DEF Push1
<1>4. IsSeq(f) /\ \A c : Has(e, c) => Has(f, c)
  BY DEF More
<1>5. ASSUME NEW i \in 1 .. n + 1, i # 1, Began(r[i]) PROVE Has(f, r[i].c)
  <2>1. CASE i = n + 1
    BY <1>2, <1>5, <2>1
  <2>2. CASE i \in 1 .. n
    <3>1. r[i] = s[i]
      BY <1>3, <2>2
    <3>2. Has(e, s[i].c)
      BY <1>1, <1>5, <2>2, <3>1 DEF Enrolled
    <3>3. QED
      BY <1>4, <3>1, <3>2
  <2>3. QED
    BY <2>1, <2>2
<1>6. QED
  BY <1>2, <1>4, <1>5 DEF Enrolled

LEMMA EnrolPop ==
  ASSUME NEW s, NEW e, Enrolled(s, e), NEW f, More(e, f), NEW r, Pop1(s, r)
  PROVE  Enrolled(r, f)
<1>1. PICK n \in Nat : n = Len(s)
  BY SeqFacts DEF Enrolled
<1>0. PICK l \in Nat : l = Len(r)
  BY SeqFacts DEF Pop1
<1>2. IsSeq(r) /\ l = n - 1
  BY <1>0, <1>1 DEF Pop1
<1>3. \A k \in 1 .. l : r[k] = s[k]
  BY <1>0 DEF Pop1
<1>4. IsSeq(f) /\ \A c : Has(e, c) => Has(f, c)
  BY DEF More
<1>5. ASSUME NEW i \in 1 .. l, i # 1, Began(r[i]) PROVE Has(f, r[i].c)
  <2>1. r[i] = s[i] /\ i \in 1 .. n
    BY <1>2, <1>3
  <2>2. Has(e, s[i].c)
    BY <1>1, <1>5, <2>1 DEF Enrolled
  <2>3. QED
    BY <1>4, <2>1, <2>2
<1>6. QED
  BY <1>0, <1>2, <1>4, <1>5 DEF Enrolled

\* What a caller may rely on when its call has come back
Came(t, e, o, x) ==
  /\ Answered(t) /\ o => Has(e, t.c)
  /\ t.st = "ret" => t.k \in {"comp", "interp", "jni", "nmi"} /\ (~ x => Has(e, t.call[2]))

Rolled == Flagged /\ Enrolled(stk, entered) /\ Came(Tip(stk), entered, ok, exc)

LEMMA RolledIs ==
  ASSUME Rolled
  PROVE  /\ Laid /\ IsSeq(entered) /\ Enrolled(stk, entered) /\ Came(Top, entered, ok, exc)
         /\ Top = Tip(stk) /\ Flags(Top, ok, exc)
<1>1. Laid
  BY DEF Rolled, Flagged
<1>2. QED
  BY <1>1, LaidTop DEF Rolled, Flagged, Enrolled

Rolls == Enrolled(stk', entered') /\ Came(Tip(stk'), entered', ok', exc')

\* no call of t has come back
Awaiting(t) == ~ Answered(t) /\ t.st # "ret"

LEMMA FreshCame ==
  ASSUME NEW t, Awaiting(t), NEW e, NEW o, NEW x
  PROVE  Came(t, e, o, x)
BY DEF Awaiting, Came

\* The innermost activation goes on.
LEMMA SetRolls ==
  ASSUME Rolled, entered' = entered, NEW f, Put1(stk, f, stk'), Goes(f, Top), Awaiting(f),
         Began(f) => Began(Top)
  PROVE  Rolls
<1>1. Laid /\ IsSeq(entered) /\ Enrolled(stk, entered) /\ Top = Tip(stk)
  BY RolledIs
<1>2. More(entered, entered')
  BY <1>1, MoreSame
<1>3. Len(stk) > 1 /\ Began(f) => Has(entered', f.c)
  BY <1>1, EnrolTip DEF Goes
<1>4. PICK e, r : e = entered' /\ r = stk'
  OBVIOUS
<1>5. Enrolled(r, e)
  BY <1>1, <1>2, <1>3, <1>4, EnrolPut
<1>6. Tip(stk') = f
  BY <1>1, <1>4, PutTip
<1>7. QED
  BY <1>4, <1>5, <1>6, FreshCame DEF Rolls

LEMMA AtRolls ==
  ASSUME Rolled, entered' = entered, NEW st, stk' = At(st),
         \/ st = "run"
         \/ Top.k = "candi" /\ st \in {"compiled", "normal", "compiling"}
         \/ Top.k = "helper" /\ Top.inv = "java" /\ st = "invoked"
  PROVE  Rolls
<1>1. Laid
  BY RolledIs
<1>2. PICK f : Put1(stk, f, At(st)) /\ Next1(f, Top) /\ f.st = st /\ f.inv = Top.inv
  BY <1>1, AtIs
<1>3. Goes(f, Top) /\ f.k = Top.k
  BY <1>2 DEF Next1, Goes
<1>4. Awaiting(f)
  BY <1>2, <1>3 DEF Awaiting, Answered
<1>5. Began(f) => Began(Top)
  BY <1>2, <1>3 DEF Began
<1>6. QED
  BY <1>2, <1>3, <1>4, <1>5, SetRolls

\* A call: the new activation is on top.
LEMMA PushRolls ==
  ASSUME Rolled, More(entered, entered'), NEW f, NEW s, Put1(stk, f, s), Goes(f, Top),
         NEW g, Push1(s, g, stk'), Awaiting(g),
         Began(f) => Began(Top) \/ Has(entered', f.c),
         Began(g) => Has(entered', g.c)
  PROVE  Rolls
<1>1. Laid /\ Enrolled(stk, entered) /\ Top = Tip(stk)
  BY RolledIs
<1>2. Len(stk) > 1 /\ Began(f) => Has(entered', f.c)
  BY <1>1, EnrolTip DEF Goes, More
<1>3. PICK e, r : e = entered' /\ r = stk'
  OBVIOUS
<1>4. Enrolled(s, e)
  BY <1>1, <1>2, <1>3, EnrolPut
<1>5. IsSeq(e)
  BY <1>3 DEF More
<1>6. More(e, e)
  BY <1>5, MoreSame
<1>7. Enrolled(r, e)
  BY <1>3, <1>4, <1>6, EnrolPush
<1>8. Tip(stk') = g
  BY <1>3, PushTip
<1>9. QED
  BY <1>3, <1>7, <1>8, FreshCame DEF Rolls

LEMMA NewIs ==
  ASSUME NEW k \in {"comp", "helper", "remote", "candi", "jit", "interp", "native", "jni", "nmi"},
         NEW m, NEW c, NEW x, NEW g, g = Activation(k, m, c, x)
  PROVE  /\ g.k = k /\ g.c = c /\ Awaiting(g)
         /\ Began(g) <=> k \in {"comp", "interp", "native", "jni", "nmi"}
<1>1. g.k = k /\ g.c = c /\ g.st = IF k \in {"helper", "candi", "jit"} THEN "entry" ELSE "run"
  BY MakeActIs
<1>2. QED
  BY <1>1 DEF Awaiting, Began, Answered

\* compiled code, the interpreter and C functions as callers
LEMMA AwaitRolls ==
  ASSUME Rolled, Top.k \in {"comp", "interp", "jni", "nmi"},
         NEW k \in {"comp", "helper", "remote", "candi", "jit", "interp", "native"},
         NEW m, NEW c, NEW x, stk' = Append(Await(m, c), Activation(k, m, c, x)),
         \/ entered' = Append(entered, c)
         \/ entered' = entered /\ k \in {"helper", "remote", "candi", "jit"}
  PROVE  Rolls
<1>1. Laid /\ IsSeq(entered)
  BY RolledIs
<1>2. PICK g : g = Activation(k, m, c, x)
  OBVIOUS
<1>3. /\ g.k = k /\ g.c = c /\ Awaiting(g)
      /\ Began(g) <=> k \in {"comp", "interp", "native", "jni", "nmi"}
  BY <1>2, NewIs
<1>4. PICK f : Put1(stk, f, Await(m, c)) /\ Next1(f, Top)
  BY <1>1, AwaitIs
<1>5. PICK s, r : s = Await(m, c) /\ r = stk'
  OBVIOUS
<1>6. IsSeq(s) /\ r = Append(s, g) /\ Put1(stk, f, s)
  BY <1>2, <1>4, <1>5 DEF Put1
<1>7. Push1(s, g, r)
  BY <1>6, PushIs
<1>8. PICK e : e = entered'
  OBVIOUS
<1>9. More(entered, e) /\ (Began(g) => Has(e, c))
  BY <1>1, <1>3, <1>8, MoreOne, MoreSame
<1>10. Goes(f, Top) /\ Began(Top)
  BY <1>4 DEF Next1, Began
<1>11. QED
  BY <1>3, <1>5, <1>6, <1>7, <1>8, <1>9, <1>10, PushRolls

\* C functions that run a method
LEMMA StartRolls ==
  ASSUME Rolled, NEW k \in {"comp", "interp", "native", "jni", "nmi"}, NEW st, NEW x,
         stk' = Append(At(st), Activation(k, Top.m, Top.c, x)),
         entered' = Append(entered, Top.c)
  PROVE  Rolls
<1>1. Laid /\ IsSeq(entered)
  BY RolledIs
<1>2. PICK g : g = Activation(k, Top.m, Top.c, x)
  OBVIOUS
<1>3. g.k = k /\ g.c = Top.c /\ Awaiting(g)
  BY <1>2, NewIs
<1>4. PICK f : Put1(stk, f, At(st)) /\ Next1(f, Top)
  BY <1>1, AtIs
<1>5. PICK s, r : s = At(st) /\ r = stk'
  OBVIOUS
<1>6. IsSeq(s) /\ r = Append(s, g) /\ Put1(stk, f, s)
  BY <1>2, <1>4, <1>5 DEF Put1
<1>7. Push1(s, g, r)
  BY <1>6, PushIs
<1>8. PICK e : e = entered'
  OBVIOUS
<1>9. More(entered, e) /\ Has(e, Top.c)
  BY <1>1, <1>8, MoreOne
<1>10. Goes(f, Top) /\ f.c = Top.c
  BY <1>4 DEF Next1, Goes
<1>11. QED
  BY <1>3, <1>5, <1>6, <1>7, <1>8, <1>9, <1>10, PushRolls

\* ... and those that call another C function
LEMMA PassRolls ==
  ASSUME Rolled, entered' = entered, NEW k \in {"candi", "jit"}, NEW x,
         NEW st, Top.k \in {"helper", "candi"}, st \in {"invoked", "done"},
         stk' = Append(At(st), Activation(k, Top.m, Top.c, x))
  PROVE  Rolls
<1>1. Laid /\ IsSeq(entered)
  BY RolledIs
<1>2. PICK g : g = Activation(k, Top.m, Top.c, x)
  OBVIOUS
<1>3. g.k = k /\ g.c = Top.c /\ Awaiting(g) /\ ~ Began(g)
  BY <1>2, NewIs
<1>4. PICK f : Put1(stk, f, At(st)) /\ Next1(f, Top) /\ f.st = st
  BY <1>1, AtIs
<1>5. PICK s, r : s = At(st) /\ r = stk'
  OBVIOUS
<1>6. IsSeq(s) /\ r = Append(s, g) /\ Put1(stk, f, s)
  BY <1>2, <1>4, <1>5 DEF Put1
<1>7. Push1(s, g, r)
  BY <1>6, PushIs
<1>8. More(entered, entered')
  BY <1>1, MoreSame
<1>9. Goes(f, Top) /\ ~ Began(f)
  BY <1>4 DEF Next1, Goes, Began
<1>10. QED
  BY <1>3, <1>5, <1>6, <1>7, <1>8, <1>9, PushRolls

\* A return: the call has begun, or the caller is told of an exception.
Back == exc' \/ Began(Top) \/ (Answered(Top) /\ ok) \/ Has(entered', Top.c)

LEMMA PopRolls ==
  ASSUME Rolled, Len(stk) > 1, stk' = Front(stk), Flags(Tip(stk'), ok', exc'),
         More(entered, entered'), Back
  PROVE  Rolls
<1>1. /\ Laid /\ Enrolled(stk, entered) /\ Top = Tip(stk)
      /\ Came(Top, entered, ok, exc)
  BY RolledIs
<1>2. PICK a : a = Tip(stk')
  OBVIOUS
<1>3. Link(a, Top) /\ Pop1(stk, stk')
  BY <1>1, <1>2, PoppedTip
<1>4. PICK e, r : e = entered' /\ r = stk'
  OBVIOUS
<1>5. Enrolled(r, e)
  BY <1>1, <1>3, <1>4, EnrolPop
<1>6. ~ exc' => Has(entered', Top.c)
  <2>1. Has(entered, Top.c) => Has(entered', Top.c)
    BY DEF More
  <2>2. Began(Top) => Has(entered, Top.c)
    BY <1>1, EnrolTip
  <2>3. Answered(Top) /\ ok => Has(entered, Top.c)
    BY <1>1 DEF Came
  <2>4. QED
    BY <2>1, <2>2, <2>3 DEF Back
<1>7. Answered(a) /\ ok' => Has(entered', a.c)
  <2>1. Answered(a) => a.c = Top.c /\ Both(a)
    BY <1>3 DEF Link, Answered, Both
  <2>2. Both(a) /\ ok' => ~ exc'
    BY <1>2 DEF Flags
  <2>3. QED
    BY <1>6, <2>1, <2>2
<1>8. a.st = "ret" => a.k \in {"comp", "interp", "jni", "nmi"} /\ (~ exc' => Has(entered', a.call[2]))
  <2>1. a.st = "ret" => a.k \in {"comp", "interp", "jni", "nmi"}
    BY <1>3 DEF Link
  <2>2. a.k \in {"comp", "interp", "jni", "nmi"} => a.call = <<Top.m, Top.c>>
    BY <1>3 DEF Link
  <2>3. a.call = <<Top.m, Top.c>> => a.call[2] = Top.c
    OBVIOUS
  <2>4. QED
    BY <1>6, <2>1, <2>2, <2>3
<1>9. QED
  BY <1>2, <1>4, <1>5, <1>7, <1>8 DEF Rolls, Came

Told == Flags(Tip(stk'), ok', exc')

\* what is left other than by the program's own end
LEMMA AwayRolls ==
  ASSUME Rolled, Told, Top.k # "interp", stk' = Front(stk), Back,
         \/ entered' = entered
         \/ entered' = Append(entered, Top.c)
  PROVE  Rolls
<1>1. Laid /\ IsSeq(entered)
  BY RolledIs
<1>2. Len(stk) > 1
  BY <1>1, LaidTop
<1>3. PICK e : e = entered'
  OBVIOUS
<1>4. More(entered, e)
  BY <1>1, <1>3, MoreOne, MoreSame
<1>5. QED
  BY <1>2, <1>3, <1>4, PopRolls DEF Told

LEMMA OverflowRolls ==
  ASSUME Rolled, Told, Top.k # "interp", Overflow
  PROVE  Rolls
<1>1. Back
  BY DEF Back, Overflow
<1>2. QED
  BY <1>1, AwayRolls DEF Overflow

LEMMA CompiledRolls ==
  ASSUME Rolled, Told, NEW m \in Methods,
         \/ InvokeCore(m) \/ InlinedEnter(m) \/ RemoteInvoke(m) \/ InlinedExit
         \/ CompiledReturn \/ CompiledThrow \/ InvokeCoreDone
  PROVE  Rolls
<1>1. Laid /\ IsSeq(entered) /\ Enrolled(stk, entered)
  BY RolledIs
<1>2. Top.k = "comp" /\ Began(Top) /\ Top.k # "interp"
  BY DEF InvokeCore, InlinedEnter, InlinedExit, RemoteInvoke, CompiledReturn, CompiledThrow,
         InvokeCoreDone, Running, Began
<1>3. CASE InvokeCore(m) \/ RemoteInvoke(m)
  <2>1. PICK c : c = calls + 1
    OBVIOUS
  <2>2. CASE InvokeDirect(m, c)
    BY <1>2, <2>2, AwaitRolls DEF InvokeDirect
  <2>3. CASE InvokeHelper(m, c)
    BY <1>2, <2>3, AwaitRolls DEF InvokeHelper
  <2>4. CASE RemoteInvoke(m)
    BY <1>2, <2>1, <2>4, AwaitRolls DEF RemoteInvoke
  <2>5. QED
    BY <1>3, <2>1, <2>2, <2>3, <2>4 DEF InvokeCore
<1>4. ASSUME NEW f, Changed(f), More(entered, entered') PROVE Rolls
  <2>1. Put1(stk, f, stk') /\ Goes(f, Top) /\ f.st = "run"
    BY <1>1, <1>4, ChangedPut DEF Changed
  <2>2. f.k = "comp" /\ f.c = Top.c
    BY <1>2, <2>1 DEF Goes
  <2>3. Awaiting(f)
    BY <2>1, <2>2 DEF Awaiting, Answered
  <2>4. PICK e, r : e = entered' /\ r = stk'
    OBVIOUS
  <2>5. Len(stk) > 1 => Has(e, f.c)
    <3>1. Top = Tip(stk)
      BY RolledIs
    <3>2. Len(stk) > 1 => Has(entered, Top.c)
      BY <1>1, <1>2, <3>1, EnrolTip
    <3>3. QED
      BY <1>4, <2>2, <2>4, <3>2 DEF More
  <2>6. Enrolled(r, e)
    BY <1>1, <1>4, <2>1, <2>4, <2>5, EnrolPut
  <2>7. Tip(stk') = f
    BY <2>1, PutTip
  <2>8. QED
    BY <2>3, <2>4, <2>6, <2>7, FreshCame DEF Rolls
<1>5. CASE InlinedEnter(m) \/ InlinedExit
  <2>1. PICK f : Changed(f)
    BY <1>1, <1>5, InlinedIs
  <2>2. PICK c, e : c = calls + 1 /\ e = entered'
    OBVIOUS
  <2>3. e = Append(entered, c) \/ e = entered
    BY <1>5, <2>2 DEF InlinedEnter, InlinedExit
  <2>4. More(entered, e)
    BY <1>1, <2>3, MoreOne, MoreSame
  <2>5. QED
    BY <1>4, <2>1, <2>2, <2>4
<1>6. CASE Catch
  <2>1. PICK f : Changed(f)
    BY <1>1, <1>6, CatchIs
  <2>2. More(entered, entered')
    BY <1>1, <1>6, MoreSame DEF Catch
  <2>3. QED
    BY <1>4, <2>1, <2>2
<1>7. CASE Unwind \/ CompiledReturn
  <2>1. stk' = Front(stk) /\ entered' = entered /\ Back
    BY <1>2, <1>7 DEF Unwind, CompiledReturn, MethodTail, Back
  <2>2. QED
    BY <1>2, <2>1, AwayRolls
<1>8. CASE stk' = At("run") /\ entered' = entered
  BY <1>8, AtRolls
<1>9. QED
  BY <1>3, <1>5, <1>6, <1>7, <1>8 DEF CompiledThrow, InvokeCoreDone

LEMMA HelperRolls ==
  ASSUME Rolled, Told, \/ RemoteDone \/ HelperEntry \/ HelperNative \/ HelperInvoke
                       \/ HelperInvoked \/ HelperExecuted
  PROVE  Rolls
<1>1. Laid /\ IsSeq(entered) /\ Flags(Top, ok, exc)
  BY RolledIs
<1>2. Top.k \in {"remote", "helper"} /\ Top.k # "interp"
  BY DEF RemoteDone, HelperEntry, HelperNative, HelperInvoke, HelperInvoked, HelperExecuted,
         Running
<1>3. CASE Overflow
  BY <1>2, <1>3, OverflowRolls
<1>4. CASE RemoteDone
  <2>1. entered' = Append(entered, Top.c) \/ (entered' = entered /\ exc')
    BY <1>4 DEF RemoteDone
  <2>2. Back
    <3>1. CASE entered' = Append(entered, Top.c)
      <4>1. PICK e : e = entered'
        OBVIOUS
      <4>2. Has(e, Top.c)
        BY <1>1, <3>1, <4>1, MoreOne
      <4>3. QED
        BY <4>1, <4>2 DEF Back
    <3>2. QED
      BY <2>1, <3>1 DEF Back
  <2>3. QED
    BY <1>2, <1>4, <2>1, <2>2, AwayRolls DEF RemoteDone
<1>5. CASE HelperEntry /\ ~ Overflow
  <2>0. Top.st = "entry" /\ Top.k = "helper"
    BY <1>5 DEF HelperEntry, Running
  <2>1. CASE ViaInvoker
    <3>1. PICK f : Put1(stk, f, stk') /\ Next1(f, Top) /\ f.st = "invoke"
      BY <1>1, <2>1, ViaInvokerIs DEF Passing
    <3>2. Goes(f, Top) /\ f.k = "helper"
      BY <2>0, <3>1 DEF Next1, Goes
    <3>3. Awaiting(f) /\ ~ Began(f)
      BY <3>1, <3>2 DEF Awaiting, Answered, Began
    <3>4. entered' = entered
      BY <2>1 DEF ViaInvoker
    <3>5. QED
      BY <3>1, <3>2, <3>3, <3>4, SetRolls
  <2>2. CASE /\ stk' = Append(At("native"), Activation("jni", Top.m, Top.c, JNIArgs(Top.loc, Top.m)))
             /\ entered' = Append(entered, Top.c)
    BY <2>2, StartRolls
  <2>3. CASE /\ stk' = Append(At("native"), Activation("nmi", Top.m, Top.c, NMIArgs(Top.loc, Top.m)))
             /\ entered' = Append(entered, Top.c)
    BY <2>3, StartRolls
  <2>4. QED
    BY <1>5, <2>1, <2>2, <2>3 DEF HelperEntry, HelperJNI, HelperNMI, HelperJava
<1>6. CASE HelperNative
  <2>1. stk' = Front(stk) /\ entered' = entered /\ Back
    BY <1>6 DEF HelperNative, HelperFinish, HelperReturn, Back, Began, Running
  <2>2. QED
    BY <1>2, <2>1, AwayRolls
<1>7. CASE HelperInvoke /\ ~ Overflow
  <2>0. Top.st = "invoke" /\ Top.k = "helper"
    BY <1>7 DEF HelperInvoke, Running
  <2>1. CASE /\ Top.inv \in {"candi", "jit"} /\ entered' = entered
             /\ stk' = Append(At("invoked"), Activation(Top.inv, Top.m, Top.c, Top.loc))
    BY <2>0, <2>1, PassRolls
  <2>2. CASE /\ entered' = Append(entered, Top.c)
             /\ stk' = Append(At("invoked"),
                              Activation("native", Top.m, Top.c, Get(optop, args_size(Top.m))))
    BY <2>2, StartRolls
  <2>3. CASE Top.inv = "java" /\ stk' = At("invoked") /\ entered' = entered
    BY <2>0, <2>3, AtRolls
  <2>4. QED
    BY <1>7, <2>1, <2>2, <2>3 DEF HelperInvoke
<1>8. CASE HelperInvoked
  <2>0. Top.k = "helper" /\ Top.st = "invoked"
    BY <1>8 DEF HelperInvoked, Running
  <2>1. CASE ok /\ InvokedJava(Top)
    <3>1. PICK x : x = Get(frames[Cur].vars, args_size(Top.m))
      OBVIOUS
    <3>2. /\ stk' = Append(At("executed"), Activation("interp", Top.m, Top.c, x))
          /\ entered' = Append(entered, Top.c)
      BY <1>8, <2>1, <3>1 DEF HelperInvoked
    <3>3. QED
      BY <3>2, StartRolls
  <2>2. CASE ok /\ ~ InvokedJava(Top)
    <3>1. Answered(Top)
      BY <2>0, <2>2 DEF Answered, InvokedJava
    <3>2. stk' = Front(stk) /\ entered' = entered
      BY <1>8, <2>2 DEF HelperInvoked, HelperFinish, HelperReturn
    <3>3. QED
      BY <1>2, <2>2, <3>1, <3>2, AwayRolls DEF Back
  <2>3. CASE ~ ok
    <3>1. stk' = Front(stk) /\ entered' = entered /\ exc' = exc
      BY <1>8, <2>3 DEF HelperInvoked, HelperReturn
    <3>2. Top.inv # "java"
      <4>1. Spot(Tip(stk), frames, mem, ok, build) /\ Top = Tip(stk)
        BY <1>1, LaidTop DEF Laid
      <4>2. QED
        BY <2>0, <2>3, <4>1 DEF Spot, Framed
    <3>3. Both(Top)
      BY <2>0, <3>2 DEF Both, Answered
    <3>4. Back
      BY <1>1, <2>3, <3>1, <3>3 DEF Flags, Back
    <3>5. QED
      BY <1>2, <3>1, <3>4, AwayRolls
  <2>4. QED
    BY <2>1, <2>2, <2>3
<1>9. CASE HelperExecuted
  <2>1. stk' = Front(stk) /\ entered' = entered /\ Back
    BY <1>9 DEF HelperExecuted, HelperFinish, HelperReturn, Back, Began, Running
  <2>2. QED
    BY <1>2, <2>1, AwayRolls
<1>10. QED
  BY <1>3, <1>4, <1>5, <1>6, <1>7, <1>8, <1>9

LEMMA CandiRolls ==
  ASSUME Rolled, Told, \/ CandiEntry \/ CandiCompile \/ CandiCall \/ CandiDone \/ CandiNormal
                       \/ CandiExecuted
  PROVE  Rolls
<1>1. Laid /\ Flags(Top, ok, exc)
  BY RolledIs
<1>2. Top.k = "candi" /\ Top.k # "interp"
  BY DEF CandiEntry, CandiCompile, CandiCall, CandiDone, CandiNormal, CandiExecuted, Running
<1>3. CASE Overflow
  BY <1>2, <1>3, OverflowRolls
<1>4. CASE entered' = entered /\ (stk' = At("compiled") \/ stk' = At("normal") \/ stk' = At("compiling"))
  BY <1>2, <1>4, AtRolls
<1>5. CASE CandiCall
  BY <1>2, <1>5, PassRolls DEF CandiCall
<1>6. CASE CandiDone
  <2>1. stk' = Front(stk) /\ entered' = entered /\ exc' = exc /\ Answered(Top)
    BY <1>2, <1>6 DEF CandiDone, Answered, Running
  <2>2. Back
    BY <1>1, <2>1 DEF Flags, Back, Both
  <2>3. QED
    BY <1>2, <2>1, <2>2, AwayRolls
<1>7. CASE CandiNormal /\ ~ Overflow
  <2>1. PICK x : x = Get(optop, args_size(Top.m))
    OBVIOUS
  <2>2. /\ stk' = Append(At("executed"), Activation("interp", Top.m, Top.c, x))
        /\ entered' = Append(entered, Top.c)
    BY <1>7, <2>1 DEF CandiNormal
  <2>3. QED
    BY <2>2, StartRolls
<1>8. CASE CandiExecuted
  <2>1. stk' = Front(stk) /\ entered' = entered /\ Back
    BY <1>8 DEF CandiExecuted, Back, Began, Running
  <2>2. QED
    BY <1>2, <2>1, AwayRolls
<1>9. QED
  BY <1>3, <1>4, <1>5, <1>6, <1>7, <1>8 DEF CandiEntry, CandiCompile

LEMMA JITRolls ==
  ASSUME Rolled, Told, JITEnter \/ JITDone
  PROVE  Rolls
<1>1. Top.k = "jit" /\ Top.k # "interp"
  BY DEF JITEnter, JITDone, Running
<1>2. CASE Overflow
  BY <1>1, <1>2, OverflowRolls
<1>3. CASE JITDone
  <2>1. stk' = Front(stk) /\ entered' = entered /\ Back
    BY <1>3 DEF JITDone, Back, Began, Running
  <2>2. QED
    BY <1>1, <2>1, AwayRolls
<1>4. CASE JITEnter /\ ~ Overflow
  <2>1. PICK x : stk' = Append(At("done"), Activation("comp", Top.m, Top.c, x))
    BY <1>4 DEF JITEnter
  <2>2. entered' = Append(entered, Top.c)
    BY <1>4 DEF JITEnter
  <2>3. QED
    BY <2>1, <2>2, StartRolls
<1>5. QED
  BY <1>2, <1>3, <1>4

LEMMA JVMRolls ==
  ASSUME Rolled, Told, NEW m \in Methods,
         \/ InterpCall(m) \/ NativeCall(m) \/ InterpReturn \/ InterpThrow \/ InterpBack
         \/ NativeReturn \/ NativeBack
  PROVE  Rolls
<1>1. Laid /\ IsSeq(entered)
  BY RolledIs
<1>2. Top.k \in {"interp", "native", "jni", "nmi"} /\ Began(Top)
  BY DEF InterpCall, NativeCall, InterpReturn, InterpThrow, InterpBack, NativeReturn, CReturn,
         NativeBack, Running, Began
<1>3. CASE Len(stk) > 1 /\ stk' = Front(stk) /\ entered' = entered
  <2>1. Back
    BY <1>2 DEF Back
  <2>2. More(entered, entered')
    BY <1>1, <1>3, MoreSame
  <2>3. QED
    BY <1>3, <2>1, <2>2, PopRolls DEF Told
<1>4. CASE stk' = At("run") /\ entered' = entered
  BY <1>4, AtRolls
<1>5. CASE InterpCall(m) \/ NativeCall(m)
  <2>1. PICK c : c = calls + 1
    OBVIOUS
  <2>2. ASSUME InvokeByJVM(m, c, Put(mem, optop, JVMWords(m, c))), Top.k = "interp"
        PROVE  Rolls
    <3>1. CASE invoker[m] \in {"candi", "jit"}
      BY <2>2, <3>1, AwaitRolls DEF InvokeByJVM
    <3>2. CASE invoker[m] \in {"java", "native"}
      <4>1. PICK k : k = IF invoker[m] = "java" THEN "interp" ELSE "native"
        OBVIOUS
      <4>2. k \in {"interp", "native"}
        BY <4>1
      <4>3. /\ stk' = Append(Await(m, c), Activation(k, m, c, JVMWords(m, c)))
            /\ entered' = Append(entered, c)
        BY <2>2, <3>2, <4>1 DEF InvokeByJVM
      <4>4. QED
        BY <2>2, <4>2, <4>3, AwaitRolls
    <3>3. QED
      BY <2>2, <3>1, <3>2 DEF InvokeByJVM
  <2>3. CASE NativeCall(m)
    BY <2>1, <2>3, AwaitRolls DEF NativeCall
  <2>4. CASE InterpCall(m)
    BY <2>1, <2>2, <2>4 DEF InterpCall, Running
  <2>5. QED
    BY <1>5, <2>3, <2>4
<1>6. Top.k # "interp" => Len(stk) > 1
  BY <1>1, LaidTop
<1>7. CASE InterpReturn \/ InterpThrow \/ InterpBack
  BY <1>3, <1>4, <1>7 DEF InterpReturn, InterpThrow, InterpBack, LeaveResult, LeaveThrowing, Leave
<1>8. CASE NativeReturn
  <2>1. stk' = Front(stk) /\ entered' = entered
    BY <1>8 DEF NativeReturn, CReturn, LeaveResult, LeaveThrowing, Leave
  <2>2. Top.k # "interp"
    BY <1>8 DEF NativeReturn, CReturn, Running
  <2>3. QED
    BY <1>3, <1>6, <2>1, <2>2
<1>9. CASE NativeBack
  <2>1. Top.k # "interp"
    BY <1>9 DEF NativeBack
  <2>2. QED
    BY <1>3, <1>4, <1>6, <1>9, <2>1 DEF NativeBack
<1>10. QED
  BY <1>5, <1>7, <1>8, <1>9

LEMMA InitRolls ==
  ASSUME Init
  PROVE  Enrolled(stk, entered) /\ Came(Tip(stk), entered, ok, exc)
<1>1. PICK a, s : a = Activation("interp", Root, 0, << >>) /\ s = <<a>>
  OBVIOUS
<1>2. stk = s /\ entered = << >>
  BY <1>1 DEF Init
<1>3. IsSeq(s) /\ Len(s) = 1 /\ s[1] = a
  BY <1>1, WordsSeq
<1>4. Awaiting(a)
  BY <1>1, NewIs
<1>5. Tip(s) = a
  BY <1>3 DEF Tip
<1>6. IsSeq(entered)
  BY <1>2, EmptySeq DEF IsSeq
<1>7. Enrolled(stk, entered)
  BY <1>2, <1>3, <1>6 DEF Enrolled
<1>8. QED
  BY <1>2, <1>4, <1>5, <1>7, FreshCame

LEMMA NextRolls ==
  ASSUME Rolled, [Next]_vars
  PROVE  Told /\ Rolls
<1>0. Told
  BY NextFlags DEF Rolled, Told
<1>1. ASSUME NEW m \in Methods,
             InvokeCore(m) \/ InlinedEnter(m) \/ RemoteInvoke(m) \/ InterpCall(m) \/ NativeCall(m)
      PROVE  Rolls
  BY <1>0, <1>1, CompiledRolls, JVMRolls
<1>2. CASE UNCHANGED <<stk, ok, exc, entered>>
  BY <1>0, <1>2 DEF Rolled, Rolls
<1>3. CASE InlinedExit \/ CompiledReturn \/ CompiledThrow \/ InvokeCoreDone
  BY <1>0, <1>3, CompiledRolls, InfoAssumption
<1>5. CASE \/ HelperEntry \/ HelperNative \/ HelperInvoke \/ HelperInvoked \/ HelperExecuted
           \/ RemoteDone
  BY <1>0, <1>5, HelperRolls
<1>6. CASE CandiEntry \/ CandiCompile \/ CandiCall \/ CandiDone \/ CandiNormal \/ CandiExecuted
  BY <1>0, <1>6, CandiRolls
<1>7. CASE JITEnter \/ JITDone
  BY <1>0, <1>7, JITRolls
<1>8. CASE InterpReturn \/ InterpThrow \/ InterpBack \/ NativeReturn \/ NativeBack
  BY <1>0, <1>8, JVMRolls, InfoAssumption
<1>9. ASSUME NEW m \in Methods, OtherStarts(m) \/ OtherFlags(m) \/ OtherDone(m)
      PROVE  UNCHANGED <<stk, ok, exc, entered>>
  BY <1>9 DEF OtherStarts, OtherFlags, OtherDone
<1>10. UNCHANGED vars => UNCHANGED <<stk, ok, exc, entered>>
  BY DEF vars
<1>11. Rolls
  BY <1>1, <1>2, <1>3, <1>5, <1>6, <1>7, <1>8, <1>9, <1>10 DEF Next
<1>12. QED
  BY <1>0, <1>11

-----------------------------------------------------------------------------
(* The words of a result: on the Java stack, below the operand stack       *)
(* pointer of a frame, or in edx and ecx.                                  *)

Pair(g) == IsSeq(g) /\ Len(g) = 2

\* the registers g hold the result of call c of m
InRegisters(g, m, c) == \A x \in 1 .. ret_size(m) : g[x] = Result(m, c)[x]

\* ... as a C function returns it: an object of a JNI function is a reference
InC(g, m, c) ==
  IF Info[m].ret = "L" /\ Info[m].kind = "jni" THEN g[1] = Ref(Result(m, c)[1])
                                               ELSE InRegisters(g, m, c)

\* it is on the operand stack whose pointer is o
OnStack(w, o, m, c) ==
  \A x \in 1 .. ret_size(m) :
    LET at == o - ret_size(m) + x - 1
    IN at <= StackWords => w[at] = Result(m, c)[x]

\* the words ws begin with the result
Covers(ws, m, c) ==
  IsSeq(ws) /\ ret_size(m) <= Len(ws) /\ \A x \in 1 .. ret_size(m) : ws[x] = Result(m, c)[x]

LEMMA ResultIs ==
  ASSUME NEW m, NEW c
  PROVE  /\ IsSeq(Result(m, c)) /\ Len(Result(m, c)) = ret_size(m)
         /\ ret_size(m) \in {0, 1, 2}
         /\ Info[m].ret = "V" <=> ret_size(m) = 0
         /\ Info[m].ret = "J" <=> ret_size(m) = 2
         /\ ret_size(m) = 1 => Result(m, c)[1] = <<c, "ret", "w">>
<1>1. PICK a, b, d : a = <<c, "ret", "lo">> /\ b = <<c, "ret", "hi">> /\ d = <<c, "ret", "w">>
  OBVIOUS
<1>2. CASE Info[m].ret = "V"
  <2>1. Result(m, c) = << >> /\ ret_size(m) = 0
    BY <1>2 DEF Result, ret_size
  <2>2. IsSeq(<< >>) /\ Len(<< >>) = 0
    BY EmptySeq DEF IsSeq
  <2>3. QED
    BY <1>2, <2>1, <2>2
<1>3. CASE Info[m].ret = "J"
  <2>1. Result(m, c) = <<a, b>> /\ ret_size(m) = 2
    BY <1>1, <1>3 DEF Result, ret_size
  <2>2. QED
    BY <1>3, <2>1, WordsSeq
<1>4. CASE Info[m].ret # "V" /\ Info[m].ret # "J"
  <2>1. Result(m, c) = <<d>> /\ ret_size(m) = 1
    BY <1>1, <1>4 DEF Result, ret_size
  <2>2. QED
    BY <1>1, <1>4, <2>1, WordsSeq
<1>5. QED
  BY <1>2, <1>3, <1>4

LEMMA ResultCovers ==
  ASSUME NEW m, NEW c
  PROVE  Covers(Result(m, c), m, c)
<1>1. PICK ws, n : ws = Result(m, c) /\ n = ret_size(m)
  OBVIOUS
<1>2. IsSeq(ws) /\ Len(ws) = n
  BY <1>1, ResultIs
<1>3. n \in {0, 1, 2}
  BY <1>1, ResultIs
<1>4. n <= Len(ws)
  BY <1>2, <1>3
<1>5. QED
  BY <1>1, <1>2, <1>4 DEF Covers

LEMMA RegsCover ==
  ASSUME NEW g, Pair(g), NEW m, NEW c, InRegisters(g, m, c)
  PROVE  Covers(g, m, c)
<1>1. ret_size(m) \in {0, 1, 2}
  BY ResultIs
<1>2. ret_size(m) <= Len(g)
  BY <1>1 DEF Pair
<1>3. QED
  BY <1>2 DEF Covers, Pair, InRegisters

\* edx and ecx behind a method
LEMMA InRegsIs ==
  ASSUME NEW m, NEW c
  PROVE  /\ Pair(InRegs(Result(m, c))) /\ InRegisters(InRegs(Result(m, c)), m, c)
<1>1. PICK a, b, d : a = <<c, "ret", "lo">> /\ b = <<c, "ret", "hi">> /\ d = <<c, "ret", "w">>
  OBVIOUS
<1>2. PICK g : g = InRegs(Result(m, c))
  OBVIOUS
<1>3. CASE Info[m].ret = "V"
  <2>1. Result(m, c) = << >> /\ ret_size(m) = 0 /\ Len(<< >>) = 0
    BY <1>3, EmptySeq DEF Result, ret_size
  <2>2. g = <<Junk, Junk>>
    BY <1>2, <2>1 DEF InRegs
  <2>3. Pair(g)
    BY <2>2, WordsSeq DEF Pair
  <2>4. QED
    BY <1>2, <2>1, <2>3 DEF InRegisters
<1>4. CASE Info[m].ret = "J"
  <2>1. Result(m, c) = <<a, b>> /\ ret_size(m) = 2
    BY <1>1, <1>4 DEF Result, ret_size
  <2>2. Len(<<a, b>>) = 2
    BY WordsSeq
  <2>3. g = <<a, b>>
    BY <1>2, <2>1, <2>2 DEF InRegs
  <2>4. Pair(g)
    BY <2>3, WordsSeq DEF Pair
  <2>5. QED
    BY <1>2, <2>1, <2>3, <2>4 DEF InRegisters
<1>5. CASE Info[m].ret # "V" /\ Info[m].ret # "J"
  <2>1. Result(m, c) = <<d>> /\ ret_size(m) = 1
    BY <1>1, <1>5 DEF Result, ret_size
  <2>2. Len(<<d>>) = 1 /\ <<d>>[1] = d
    BY WordsSeq
  <2>3. g = <<d, Junk>>
    BY <1>2, <2>1, <2>2 DEF InRegs
  <2>4. Pair(g) /\ g[1] = d
    BY <2>3, WordsSeq DEF Pair
  <2>5. \A x \in 1 .. 1 : x = 1
    OBVIOUS
  <2>6. QED
    BY <1>2, <2>1, <2>2, <2>4, <2>5 DEF InRegisters
<1>6. QED
  BY <1>3, <1>4, <1>5

\* A result is pushed.
LEMMA StoreResult ==
  ASSUME NEW z \in Int, z >= 1, NEW w, Words32(w), NEW m, NEW c, NEW ws, Covers(ws, m, c),
         NEW u, u = Put(w, z, ws)
  PROVE  OnStack(u, z + ret_size(m), m, c)
<1>1. IsSeq(ws) /\ ret_size(m) <= Len(ws) /\ \A x \in 1 .. ret_size(m) : ws[x] = Result(m, c)[x]
  BY DEF Covers
<1>2. Lie(u, z, ws)
  BY <1>1, PutWords
<1>3. PICK n \in Nat : n = ret_size(m)
  BY ResultIs
<1>4. PICK l \in Nat : l = Len(ws)
  BY <1>1, SeqFacts
<1>5. n <= l
  BY <1>1, <1>3, <1>4
<1>6. \A x \in 1 .. l : z + x - 1 <= StackWords => u[z + x - 1] = ws[x]
  BY <1>2, <1>4 DEF Lie
<1>7. ASSUME NEW x \in 1 .. n, NEW at, at = (z + n) - n + x - 1, at <= StackWords
      PROVE  u[at] = Result(m, c)[x]
  <2>1. x \in 1 .. l /\ at = z + x - 1
    BY <1>5, <1>7
  <2>2. u[at] = ws[x]
    BY <1>6, <1>7, <2>1
  <2>3. QED
    BY <1>1, <1>3, <2>2
<1>8. QED
  BY <1>3, <1>7 DEF OnStack

\* invhelper_finish: the result is popped into the registers.
LEMMA PopResult ==
  ASSUME NEW w, NEW o \in Int, NEW m, NEW c, OnStack(w, o, m, c),
         NEW top, top = o - ret_size(m), top + 1 <= StackWords,
         NEW g, g = <<w[top], w[top + 1]>>
  PROVE  Pair(g) /\ InRegisters(g, m, c)
<1>1. PICK n \in {0, 1, 2} : n = ret_size(m)
  BY ResultIs
<1>2. top \in Int /\ top = o - n
  BY <1>1
<1>3. PICK a, b : a = w[top] /\ b = w[top + 1]
  OBVIOUS
<1>4. Pair(g) /\ g[1] = a /\ g[2] = b
  BY <1>3, WordsSeq DEF Pair
<1>5. \A x \in 1 .. n : o - n + x - 1 <= StackWords => w[o - n + x - 1] = Result(m, c)[x]
  BY <1>1 DEF OnStack
<1>6. n >= 1 => a = Result(m, c)[1]
  <2>1. n >= 1 => 1 \in 1 .. n /\ o - n + 1 - 1 = top
    BY <1>2
  <2>2. top <= StackWords
    BY <1>2, BoundAssumption
  <2>3. QED
    BY <1>3, <1>5, <2>1, <2>2
<1>7. n >= 2 => b = Result(m, c)[2]
  <2>1. n >= 2 => 2 \in 1 .. n /\ o - n + 2 - 1 = top + 1
    BY <1>2
  <2>2. QED
    BY <1>3, <1>5, <2>1
<1>8. ASSUME NEW x \in 1 .. n PROVE g[x] = Result(m, c)[x]
  <2>1. (x = 1 /\ n >= 1) \/ (x = 2 /\ n >= 2)
    OBVIOUS
  <2>2. QED
    BY <1>4, <1>6, <1>7, <2>1
<1>9. QED
  BY <1>1, <1>4, <1>8 DEF InRegisters

\* What is read of the operand stack
LEMMA ReadResult ==
  ASSUME NEW o \in Int, NEW m, NEW c, OnStack(mem, o, m, c), o <= StackWords + 1
  PROVE  Get(o - ret_size(m), ret_size(m)) = Result(m, c)
<1>1. PICK n \in Nat : n = ret_size(m)
  BY ResultIs
<1>2. PICK ws : ws = Result(m, c)
  OBVIOUS
<1>3. IsSeq(ws) /\ n = Len(ws)
  BY <1>1, <1>2, ResultIs
<1>4. PICK at \in Int : at = o - n
  OBVIOUS
<1>5. Lie(mem, at, ws)
  <2>1. \A x \in 1 .. n : o - n + x - 1 <= StackWords => mem[o - n + x - 1] = ws[x]
    BY <1>1, <1>2 DEF OnStack
  <2>2. \A x \in 1 .. n : at + x - 1 <= StackWords => mem[at + x - 1] = ws[x]
    BY <1>4, <2>1
  <2>3. QED
    BY <1>3, <2>2 DEF Lie
<1>6. at + n <= StackWords + 1
  BY <1>4
<1>7. Get(at, n) = ws
  BY <1>3, <1>5, <1>6, GetWords
<1>8. QED
  BY <1>1, <1>2, <1>4, <1>7

-----------------------------------------------------------------------------
(* Where the result is while it is passed from one kind of code to the     *)
(* other.                                                                  *)

\* t: the innermost activation, fs: the frames, w: the words of the Java stack, g:
\* the registers, o: the truth value a C function returned, x: an exception is
\* pending, v: the build
Answer(t, fs, w, g, o, x, v) ==
  /\ Answered(t) /\ o => OnStack(w, Tip(fs).optop, t.m, t.c)
  /\ Ran(t) /\ o /\ v.asm => OnStack(w, Tip(fs).optop, t.m, t.c)
  /\ Ran(t) /\ o /\ ~ v.asm => OnStack(w, fs[Len(fs) - 1].optop, t.m, t.c)
  /\ t.k = "jit" /\ t.st = "done" /\ ~ x => InRegisters(g, t.m, t.c)
  /\ t.k = "helper" /\ t.st = "native" /\ ~ x => InC(g, t.m, t.c)
  /\ t.k = "comp" /\ t.st = "ret" /\ ~ x => InRegisters(g, t.call[1], t.call[2])
  /\ t.k \in {"interp", "jni", "nmi"} /\ t.st = "ret" /\ ~ x =>
       OnStack(w, Tip(fs).optop, t.call[1], t.call[2])

LEMMA IdleAnswer ==
  ASSUME NEW t, ~ Busy(t), NEW fs, NEW w, NEW g, NEW o, NEW x, NEW v
  PROVE  Answer(t, fs, w, g, o, x, v)
BY DEF Answer, Busy, Both

LEMMA FailAnswer ==
  ASSUME NEW t, NEW fs, NEW w, NEW g, NEW o, NEW x, NEW v, Flags(t, o, x), x
  PROVE  Answer(t, fs, w, g, o, x, v)
<1>1. Both(t) => ~ o
  BY DEF Flags
<1>2. (Answered(t) \/ Ran(t)) => ~ o
  BY <1>1 DEF Both
<1>3. QED
  BY <1>2 DEF Answer

\* What is below an activation that returns in registers
LEMMA UnderRegs ==
  ASSUME NEW a, NEW b, Link(a, b), b.k \in {"comp", "helper", "remote"},
         NEW fs, NEW w, NEW g, NEW o, NEW x, NEW v, ~ x => InRegisters(g, b.m, b.c)
  PROVE  Answer(a, fs, w, g, o, x, v)
<1>1. (a.k = "comp" /\ a.call = <<b.m, b.c>>) \/ (a.k = "jit" /\ b.m = a.m /\ b.c = a.c)
  BY DEF Link
<1>2. CASE a.k = "comp" /\ a.call = <<b.m, b.c>>
  <2>1. a.call[1] = b.m /\ a.call[2] = b.c
    BY <1>2
  <2>2. ~ Answered(a) /\ ~ Ran(a)
    BY <1>2 DEF Answered, Ran
  <2>3. QED
    BY <1>2, <2>1, <2>2 DEF Answer
<1>3. CASE a.k = "jit" /\ b.m = a.m /\ b.c = a.c
  <2>1. ~ Answered(a) /\ ~ Ran(a)
    BY <1>3 DEF Answered, Ran
  <2>2. QED
    BY <1>3, <2>1 DEF Answer
<1>4. QED
  BY <1>1, <1>2, <1>3

\* ... and what is below a native function
LEMMA UnderNative ==
  ASSUME NEW a, NEW b, Link(a, b), b.k \in {"jni", "nmi"},
         NEW fs, NEW w, NEW g, NEW o, NEW x, NEW v, ~ x => InC(g, b.m, b.c)
  PROVE  Answer(a, fs, w, g, o, x, v)
<1>1. a.k = "helper" /\ a.st = "native" /\ b.m = a.m /\ b.c = a.c
  BY DEF Link
<1>2. ~ Answered(a) /\ ~ Ran(a)
  BY <1>1 DEF Answered, Ran
<1>3. QED
  BY <1>1, <1>2 DEF Answer

\* ... and one that returns on the operand stack of the innermost frame
LEMMA UnderStack ==
  ASSUME NEW a, NEW b, Link(a, b), b.k \in {"candi", "jit", "interp", "native"},
         NEW fs, NEW w, NEW g, NEW o, NEW x, NEW v, Flags(a, o, x),
         b.k # "interp" \/ ~ Ran(a) \/ v.asm,
         ~ x => OnStack(w, Tip(fs).optop, b.m, b.c)
  PROVE  Answer(a, fs, w, g, o, x, v)
<1>1. CASE x
  BY <1>1, FailAnswer
<1>2. CASE ~ x
  <2>0. OnStack(w, Tip(fs).optop, b.m, b.c)
    BY <1>2
  <2>1. CASE a.k \in {"helper", "candi"}
    <3>1. b.m = a.m /\ b.c = a.c
      BY <2>1 DEF Link
    <3>2. Ran(a) => b.k = "interp"
      BY <2>1 DEF Link, Ran
    <3>3. ~ (a.k = "helper" /\ a.st = "native")
      BY DEF Link
    <3>4. QED
      BY <2>0, <2>1, <3>1, <3>2, <3>3 DEF Answer
  <2>2. CASE a.k \in {"interp", "jni", "nmi"}
    <3>1. a.call = <<b.m, b.c>>
      BY <2>2 DEF Link
    <3>2. a.call[1] = b.m /\ a.call[2] = b.c
      BY <3>1
    <3>3. ~ Answered(a) /\ ~ Ran(a)
      BY <2>2 DEF Answered, Ran
    <3>4. QED
      BY <2>0, <2>2, <3>2, <3>3 DEF Answer
  <2>3. a.k \in {"helper", "candi", "interp", "jni", "nmi"}
    BY DEF Link
  <2>4. QED
    BY <2>1, <2>2, <2>3
<1>3. QED
  BY <1>1, <1>2

\* ... and the interpreter in C, which leaves the result below its own frame
LEMMA UnderFrame ==
  ASSUME NEW a, NEW b, Link(a, b), Ran(a), NEW fs, NEW w, NEW g, NEW o, NEW x, NEW v,
         Flags(a, o, x), ~ v.asm, ~ x => OnStack(w, fs[Len(fs) - 1].optop, b.m, b.c)
  PROVE  Answer(a, fs, w, g, o, x, v)
<1>1. CASE x
  BY <1>1, FailAnswer
<1>2. CASE ~ x
  <2>1. b.m = a.m /\ b.c = a.c
    BY DEF Link, Ran
  <2>2. ~ Answered(a) /\ a.k \in {"helper", "candi"} /\ a.st = "executed"
    BY DEF Answered, Ran
  <2>3. QED
    BY <1>2, <2>1, <2>2 DEF Answer
<1>3. QED
  BY <1>1, <1>2

-----------------------------------------------------------------------------

Found == Rolled /\ Pair(regs) /\ Answer(Tip(stk), frames, mem, regs, ok, exc, build)

Finds == Pair(regs') /\ Answer(Tip(stk'), frames', mem', regs', ok', exc', build')

LEMMA FoundIs ==
  ASSUME Found
  PROVE  /\ Rolled /\ Laid /\ Pair(regs) /\ Top = Tip(stk) /\ Flags(Top, ok, exc)
         /\ Answer(Top, frames, mem, regs, ok, exc, build)
<1>1. Rolled
  BY DEF Found
<1>2. QED
  BY <1>1, RolledIs DEF Found

LEMMA IdleFinds ==
  ASSUME ~ Busy(Tip(stk')), Pair(regs')
  PROVE  Finds
BY IdleAnswer DEF Finds

LEMMA FailFinds ==
  ASSUME Told, exc', Pair(regs')
  PROVE  Finds
BY FailAnswer DEF Finds, Told

\* Another value for edx and ecx
LEMMA JunkPair == Pair(<<Junk, Junk>>) /\ Pair(InRegs(<< >>))
<1>1. Pair(<<Junk, Junk>>)
  BY WordsSeq DEF Pair
<1>2. Len(<< >>) = 0
  BY EmptySeq
<1>3. QED
  BY <1>1, <1>2 DEF InRegs

\* The operand stack pointer stays this far below the end of the Java stack.
Spare(fs) == \A j \in 1 .. Len(fs) : fs[j].optop + 1 <= StackWords

LEMMA TipSpare ==
  ASSUME NEW fs, IsSeq(fs), fs # << >>, Spare(fs)
  PROVE  Tip(fs).optop + 1 <= StackWords
<1>1. PICK n \in Nat : n = Len(fs)
  BY SeqFacts
<1>2. n # 0
  BY <1>1, SeqFacts
<1>3. n \in 1 .. n
  BY <1>2
<1>4. QED
  BY <1>1, <1>3 DEF Spare, Tip

\* q is fs with another operand stack pointer on top.
Sets(fs, q, o) ==
  /\ IsSeq(fs) /\ fs # << >> /\ FrameOK(Tip(fs))
  /\ q = [fs EXCEPT ![Len(fs)].optop = o]
IsSet(fs, q, o) == Tip(q).optop = o /\ IsSeq(q) /\ Len(q) = Len(fs) /\ q # << >>

LEMMA TipOptop ==
  ASSUME NEW fs, NEW o, NEW q, Sets(fs, q, o)
  PROVE  IsSet(fs, q, o)
<1>0. /\ IsSeq(fs) /\ fs # << >> /\ FrameOK(Tip(fs))
      /\ q = [fs EXCEPT ![Len(fs)].optop = o]
  BY DEF Sets
<1>1. PICK t, h : t = Tip(fs) /\ h = [t EXCEPT !.optop = o]
  OBVIOUS
<1>2. t = [i \in FrameFields |-> t[i]]
  BY <1>0, <1>1 DEF FrameOK
<1>3. h.optop = o
  BY <1>1, <1>2 DEF FrameFields
<1>4. q = [fs EXCEPT ![Len(fs)] = h]
  BY <1>0, <1>1 DEF Tip
<1>5. Put1(fs, h, q)
  BY <1>0, <1>4, PutIs
<1>6. Tip(q) = h
  BY <1>5, PutTip
<1>7. IsSeq(q) /\ Len(q) = Len(fs)
  BY <1>5 DEF Put1
<1>8. q # << >>
  <2>1. Len(fs) # 0
    BY <1>0, SeqFacts
  <2>2. Len(q) # 0
    BY <1>7, <2>1
  <2>3. QED
    BY <1>7, <2>2, SeqFacts
<1>9. QED
  BY <1>3, <1>6, <1>7, <1>8 DEF IsSet

\* Moves on which no call comes back
LEMMA NewFinds ==
  ASSUME Laid, Pair(regs'),
         NEW k \in {"comp", "helper", "remote", "candi", "jit", "interp", "native", "jni", "nmi"},
         NEW m, NEW c, NEW x, Pushed(Activation(k, m, c, x))
  PROVE  Finds
<1>1. PICK g : g = Activation(k, m, c, x)
  OBVIOUS
<1>2. g.k = k /\ g.st = IF k \in {"helper", "candi", "jit"} THEN "entry" ELSE "run"
  BY <1>1, MakeActIs
<1>3. ~ Busy(g)
  BY <1>2 DEF Busy, Both, Answered, Ran
<1>4. Pushed(g)
  BY <1>1
<1>5. Tip(stk') = g
  BY <1>4, PushedTip
<1>6. QED
  BY <1>3, <1>5, IdleFinds

LEMMA AtFinds ==
  ASSUME Laid, Pair(regs'), NEW st, stk' = At(st),
         \/ st = "run" /\ Top.k \in {"comp", "interp", "jni", "nmi"}
         \/ st \in {"compiled", "normal", "compiling"} /\ Top.k = "candi"
         \/ st = "invoked" /\ Top.k = "helper" /\ Top.inv = "java"
  PROVE  Finds
<1>1. PICK f : Tip(stk') = f /\ f.k = Top.k /\ f.st = st /\ f.inv = Top.inv
  BY AtTip
<1>2. ~ Busy(f)
  BY <1>1 DEF Busy, Both, Answered, Ran
<1>3. QED
  BY <1>1, <1>2, IdleFinds

\* A return
LEMMA Below1 ==
  ASSUME Laid, Len(stk) > 1, stk' = Front(stk)
  PROVE  Link(Tip(stk'), Top)
BY PoppedTip

LEMMA RegsFinds ==
  ASSUME Laid, stk' = Front(stk), Top.k \in {"comp", "helper", "remote"}, Pair(regs'),
         ~ exc' => InRegisters(regs', Top.m, Top.c)
  PROVE  Finds
<1>1. Len(stk) > 1
  BY LaidTop
<1>2. Link(Tip(stk'), Top)
  BY <1>1, Below1
<1>3. QED
  BY <1>2, UnderRegs DEF Finds

LEMMA StackFinds ==
  ASSUME Laid, Len(stk) > 1, stk' = Front(stk), Told, Pair(regs'),
         Top.k \in {"candi", "jit", "interp", "native"},
         Top.k # "interp" \/ ~ Ran(Tip(stk')) \/ build'.asm,
         ~ exc' => OnStack(mem', Tip(frames').optop, Top.m, Top.c)
  PROVE  Finds
<1>1. Link(Tip(stk'), Top)
  BY Below1
<1>2. QED
  BY <1>1, UnderStack DEF Finds, Told

-----------------------------------------------------------------------------

LEMMA OverflowFinds ==
  ASSUME Found, Told, Overflow
  PROVE  Finds
BY FailFinds DEF Overflow, Found

LEMMA TailFinds ==
  ASSUME Found, Top.k = "comp", NEW words, MethodTail(words), Pair(InRegs(words)),
         ~ exc' => words = Result(Top.m, Top.c)
  PROVE  Finds
<1>1. Laid
  BY FoundIs
<1>2. stk' = Front(stk) /\ regs' = InRegs(words)
  BY DEF MethodTail
<1>3. ~ exc' => InRegisters(regs', Top.m, Top.c)
  BY <1>2, InRegsIs
<1>4. QED
  BY <1>1, <1>2, <1>3, RegsFinds

LEMMA CompiledFinds ==
  ASSUME Found, Told, NEW m \in Methods,
         \/ InvokeCore(m) \/ InlinedEnter(m) \/ RemoteInvoke(m) \/ InlinedExit
         \/ CompiledReturn \/ CompiledThrow \/ InvokeCoreDone
  PROVE  Finds
<1>1. Laid /\ Pair(regs)
  BY FoundIs
<1>2. Top.k = "comp"
  BY DEF InvokeCore, InlinedEnter, InlinedExit, RemoteInvoke, CompiledReturn, CompiledThrow,
         InvokeCoreDone, Running
<1>3. CASE InvokeCore(m) \/ RemoteInvoke(m)
  <2>1. PICK k, x, y, z : k \in {"comp", "helper", "remote"} /\
          stk' = Append(Await(x, y), Activation(k, x, y, z))
    BY <1>3 DEF InvokeCore, InvokeDirect, InvokeHelper, RemoteInvoke
  <2>2. regs' = regs
    BY <1>3 DEF InvokeCore, RemoteInvoke
  <2>3. Pushed(Activation(k, x, y, z))
    BY <2>1 DEF Pushed
  <2>4. k \in {"comp", "helper", "remote"}
    BY <2>1
  <2>5. QED
    BY <1>1, <2>2, <2>3, <2>4, NewFinds
<1>4. ASSUME NEW f, Changed(f), Pair(regs') PROVE Finds
  <2>1. Put1(stk, f, stk') /\ Goes(f, Top) /\ f.st = "run"
    BY <1>1, <1>4, ChangedPut DEF Changed
  <2>2. Tip(stk') = f /\ f.k = "comp"
    BY <1>2, <2>1, PutTip DEF Goes
  <2>3. ~ Busy(f)
    BY <2>1, <2>2 DEF Busy, Both, Answered, Ran
  <2>4. QED
    BY <1>4, <2>2, <2>3, IdleFinds
<1>5. CASE InlinedEnter(m) \/ InlinedExit
  <2>1. PICK f : Changed(f)
    BY <1>1, <1>5, InlinedIs
  <2>2. Pair(regs')
    BY <1>1, <1>5, InRegsIs DEF InlinedEnter, InlinedExit
  <2>3. QED
    BY <1>4, <2>1, <2>2
<1>6. CASE Catch
  <2>1. PICK f : Changed(f)
    BY <1>1, <1>6, CatchIs
  <2>2. Pair(regs')
    BY <1>1, <1>6 DEF Catch
  <2>3. QED
    BY <1>4, <2>1, <2>2
<1>7. CASE Unwind
  BY <1>2, <1>7, JunkPair, TailFinds DEF Unwind
<1>8. CASE CompiledReturn
  <2>1. PICK ws : ws = Result(Top.m, Top.c)
    OBVIOUS
  <2>2. MethodTail(ws)
    BY <1>8, <2>1 DEF CompiledReturn
  <2>3. Pair(InRegs(ws))
    BY <2>1, InRegsIs
  <2>4. QED
    BY <1>2, <2>1, <2>2, <2>3, TailFinds
<1>9. CASE stk' = At("run") /\ regs' = regs
  BY <1>1, <1>2, <1>9, AtFinds
<1>10. QED
  BY <1>3, <1>5, <1>6, <1>7, <1>8, <1>9 DEF CompiledThrow, InvokeCoreDone

LEMMA RemoteDoneFinds ==
  ASSUME Found, Told, RemoteDone
  PROVE  Finds
<1>1. Laid /\ Pair(regs)
  BY FoundIs
<1>2. Top.k = "remote" /\ stk' = Front(stk)
  BY DEF RemoteDone, Running
<1>3. CASE exc' = TRUE /\ regs' = regs
  BY <1>1, <1>3, FailFinds
<1>4. CASE regs' = InRegs(Result(Top.m, Top.c))
  BY <1>1, <1>2, <1>4, RegsFinds, InRegsIs
<1>5. QED
  BY <1>3, <1>4 DEF RemoteDone

-----------------------------------------------------------------------------
(* invocationHelper().                                                     *)

\* invhelper_finish with the result on the operand stack of fs
LEMMA FinishFinds ==
  ASSUME Found, Top.k = "helper", NEW fs, NEW w, HelperFinish(fs, w),
         IsSeq(fs), fs # << >>, FrameOK(Tip(fs)), Spare(frames'),
         ~ exc' => OnStack(w, Tip(fs).optop, Top.m, Top.c)
  PROVE  Finds
<1>1. Laid
  BY FoundIs
<1>2. PICK n \in Nat : n = ret_size(Top.m)
  BY ResultIs
<1>12. PICK o : o = Tip(fs).optop
  OBVIOUS
<1>13. o \in Int
  BY <1>12 DEF FrameOK
<1>3. PICK z \in Int : z = o - n
  BY <1>2, <1>13
<1>4. PICK q : q = frames'
  OBVIOUS
<1>5. /\ q = [fs EXCEPT ![Len(fs)].optop = z] /\ regs' = <<w[z], w[z + 1]>>
      /\ stk' = Front(stk)
  BY <1>2, <1>3, <1>4, <1>12 DEF HelperFinish, HelperReturn, Tip
<1>14. Sets(fs, q, z)
  BY <1>5 DEF Sets
<1>15. IsSet(fs, q, z)
  BY <1>14, TipOptop
<1>6. Tip(q).optop = z /\ IsSeq(q) /\ q # << >>
  BY <1>15 DEF IsSet
<1>7. Spare(q)
  BY <1>4
<1>8. z + 1 <= StackWords
  BY <1>6, <1>7, TipSpare
<1>9. Pair(regs')
  BY <1>5, WordsSeq DEF Pair
<1>10. ~ exc' => InRegisters(regs', Top.m, Top.c)
  BY <1>2, <1>3, <1>5, <1>8, <1>12, <1>13, PopResult
<1>11. QED
  BY <1>1, <1>5, <1>9, <1>10, RegsFinds

\* The JVM may have given a reference for an object.
LEMMA NativeResultCovers ==
  ASSUME NEW m, NEW c, Pair(regs), InC(regs, m, c)
  PROVE  Covers(NativeResult(m), m, c)
<1>1. PICK d, ws : d = <<c, "ret", "w">> /\ ws = NativeResult(m)
  OBVIOUS
<1>2. CASE Info[m].ret = "V"
  <2>1. ws = << >> /\ ret_size(m) = 0
    BY <1>1, <1>2 DEF NativeResult, ret_size
  <2>2. IsSeq(ws) /\ Len(ws) = 0
    BY <2>1, EmptySeq DEF IsSeq
  <2>3. QED
    BY <1>1, <2>1, <2>2 DEF Covers
<1>3. CASE Info[m].ret = "J"
  <2>1. NativeResult(m) = regs
    BY <1>3 DEF NativeResult
  <2>2. InRegisters(regs, m, c)
    BY <1>3 DEF InC
  <2>3. QED
    BY <2>1, <2>2, RegsCover
<1>4. CASE Info[m].ret # "V" /\ Info[m].ret # "J"
  <2>1. ret_size(m) = 1 /\ Result(m, c)[1] = d
    BY <1>1, <1>4, ResultIs
  <2>2. PICK a : ws = <<a>> /\ a = d
    <3>1. CASE Info[m].ret = "L" /\ Info[m].kind = "jni"
      <4>1. regs[1] = Ref(d)
        BY <2>1, <3>1 DEF InC
      <4>2. d # Null
        BY <1>1 DEF Null
      <4>3. Ref(d) = <<"ref", d>>
        BY <4>2 DEF Ref
      <4>4. regs[1][2] = d
        BY <4>1, <4>3
      <4>5. ws = <<regs[1][2]>>
        BY <1>1, <3>1 DEF NativeResult
      <4>6. QED
        BY <4>4, <4>5
    <3>2. CASE ~ (Info[m].ret = "L" /\ Info[m].kind = "jni")
      <4>1. InRegisters(regs, m, c)
        BY <3>2 DEF InC
      <4>2. regs[1] = d
        BY <2>1, <4>1 DEF InRegisters
      <4>3. ws = <<regs[1]>>
        BY <1>1, <1>4, <3>2 DEF NativeResult
      <4>4. QED
        BY <4>2, <4>3
    <3>3. QED
      BY <3>1, <3>2
  <2>3. IsSeq(ws) /\ Len(ws) = 1 /\ ws[1] = d
    BY <2>2, WordsSeq
  <2>4. \A x \in 1 .. 1 : x = 1
    OBVIOUS
  <2>5. QED
    BY <1>1, <2>1, <2>3, <2>4 DEF Covers
<1>5. QED
  BY <1>2, <1>3, <1>4

\* what is left of the frames when a native function has returned
LEMMA NativeFrames ==
  ASSUME Laid, Top.k = "helper", Top.st = "native",
         NEW fs, fs = IF Info[Top.m].kind = "jni" THEN Front(frames) ELSE frames
  PROVE  IsSeq(fs) /\ fs # << >> /\ FrameOK(Tip(fs))
<1>1. Len(stk) > 1 /\ IsSeq(frames) /\ frames # << >>
  BY LaidTop
<1>2. PICK r : r = Front(stk)
  OBVIOUS
<1>3. Pop1(stk, r) /\ Link(Tip(r), Top) /\ Top = Tip(stk)
  BY <1>1, <1>2, BelowIs
<1>4. Arr(stk, frames, mem)
  BY DEF Laid
<1>5. Arr(r, fs, mem)
  <2>1. CASE Info[Top.m].kind = "jni"
    <3>1. Owns(Tip(r), Tip(stk))
      BY <1>3, <2>1 DEF Owns
    <3>2. Pop1(frames, fs)
      BY <1>1, <2>1, PopIs
    <3>3. QED
      BY <1>1, <1>3, <1>4, <3>1, <3>2, ArrPopFrame
  <2>2. CASE Info[Top.m].kind # "jni"
    <3>1. ~ Owns(Tip(r), Tip(stk))
      BY <1>3, <2>2 DEF Owns
    <3>2. fs = frames
      BY <2>2
    <3>3. QED
      BY <1>1, <1>3, <1>4, <3>1, <3>2, ArrPop
  <2>3. QED
    BY <2>1, <2>2
<1>6. QED
  BY <1>5, ArrFacts

LEMMA HelperNativeFinds ==
  ASSUME Found, Told, HelperNative, Spare(frames')
  PROVE  Finds
<1>1. Top.k = "helper" /\ Top.st = "native" /\ exc' = exc
  BY DEF HelperNative, Running
<1>2. Laid /\ Pair(regs) /\ Answer(Top, frames, mem, regs, ok, exc, build) /\ Words32(mem)
  BY FoundIs DEF Laid
<1>3. CASE exc
  <2>1. regs' = regs /\ exc'
    BY <1>1, <1>3 DEF HelperNative
  <2>2. QED
    BY <1>2, <2>1, FailFinds
<1>4. CASE ~ exc
  <2>1. PICK fs : fs = IF Info[Top.m].kind = "jni" THEN Front(frames) ELSE frames
    OBVIOUS
  <2>2. IsSeq(fs) /\ fs # << >> /\ FrameOK(Tip(fs))
    BY <1>1, <1>2, <2>1, NativeFrames
  <2>3. PICK n \in Nat : n = ret_size(Top.m)
    BY ResultIs
  <2>13. PICK z : z = Tip(fs).optop
    OBVIOUS
  <2>14. z \in Int /\ z >= 1
    BY <2>2, <2>13 DEF FrameOK
  <2>4. PICK o \in Int : o = z + n /\ o >= z
    BY <2>3, <2>14
  <2>5. PICK ws, u : ws = NativeResult(Top.m) /\ u = Put(mem, z, ws)
    OBVIOUS
  <2>6. PICK q : q = [fs EXCEPT ![Len(fs)].optop = o]
    OBVIOUS
  <2>7. HelperFinish(q, u)
    BY <1>4, <2>1, <2>3, <2>4, <2>5, <2>6, <2>13 DEF HelperNative, Tip
  <2>8. Covers(ws, Top.m, Top.c)
    BY <1>1, <1>2, <1>4, <2>5, NativeResultCovers DEF Answer
  <2>9. OnStack(u, o, Top.m, Top.c)
    BY <1>2, <2>3, <2>4, <2>5, <2>8, <2>14, StoreResult
  <2>15. Sets(fs, q, o)
    BY <2>2, <2>6 DEF Sets
  <2>16. IsSet(fs, q, o)
    BY <2>15, TipOptop
  <2>10. Tip(q).optop = o /\ IsSeq(q) /\ q # << >>
    BY <2>16 DEF IsSet
  <2>11. FrameOK(Tip(q))
    <3>1. PICK t, h : t = Tip(fs) /\ h = [t EXCEPT !.optop = o]
      OBVIOUS
    <3>2. q = [fs EXCEPT ![Len(fs)] = h]
      BY <2>6, <3>1 DEF Tip
    <3>3. Put1(fs, h, q)
      BY <2>2, <3>2, PutIs
    <3>4. Tip(q) = h
      BY <3>3, PutTip
    <3>5. FrameOK(t) /\ t.optop = z /\ o >= z
      BY <2>2, <2>4, <2>13, <3>1
    <3>6. FrameOK(h)
      BY <2>4, <2>14, <3>1, <3>5 DEF FrameOK, FrameFields
    <3>7. QED
      BY <3>4, <3>6
  <2>12. QED
    BY <1>1, <2>7, <2>9, <2>10, <2>11, FinishFinds
<1>5. QED
  BY <1>3, <1>4

LEMMA HelperEntryFinds ==
  ASSUME Found, Told, HelperEntry
  PROVE  Finds
<1>1. Laid /\ Pair(regs)
  BY FoundIs
<1>2. Top.k = "helper" /\ Top.st = "entry"
  BY DEF HelperEntry, Running
<1>3. CASE Overflow
  BY <1>3, OverflowFinds
<1>4. CASE ViaInvoker
  <2>1. PICK f : Put1(stk, f, stk') /\ Next1(f, Top) /\ f.st = "invoke"
    BY <1>1, <1>4, ViaInvokerIs DEF Passing
  <2>2. Tip(stk') = f /\ f.k = "helper"
    BY <1>2, <2>1, PutTip DEF Next1, Goes
  <2>3. ~ Busy(f)
    BY <2>1, <2>2 DEF Busy, Both, Answered, Ran
  <2>4. Pair(regs')
    BY <1>1, <1>4 DEF ViaInvoker
  <2>5. QED
    BY <2>2, <2>3, <2>4, IdleFinds
<1>5. ASSUME NEW k \in {"jni", "nmi"}, NEW x, regs' = regs,
             stk' = Append(At("native"), Activation(k, Top.m, Top.c, x))
      PROVE  Finds
  <2>1. Pushed(Activation(k, Top.m, Top.c, x))
    BY <1>5 DEF Pushed
  <2>2. QED
    BY <1>1, <1>5, <2>1, NewFinds
<1>6. QED
  BY <1>3, <1>4, <1>5 DEF HelperEntry, HelperJNI, HelperNMI, HelperJava

LEMMA HelperInvokeFinds ==
  ASSUME Found, Told, HelperInvoke
  PROVE  Finds
<1>1. Laid /\ Pair(regs)
  BY FoundIs
<1>2. Top.k = "helper"
  BY DEF HelperInvoke, Running
<1>3. CASE Overflow
  BY <1>3, OverflowFinds
<1>4. ASSUME NEW k \in {"candi", "jit", "native"}, NEW x, regs' = regs,
             stk' = Append(At("invoked"), Activation(k, Top.m, Top.c, x))
      PROVE  Finds
  <2>1. Pushed(Activation(k, Top.m, Top.c, x))
    BY <1>4 DEF Pushed
  <2>2. QED
    BY <1>1, <1>4, <2>1, NewFinds
<1>5. CASE stk' = At("invoked") /\ Top.inv = "java" /\ regs' = regs
  BY <1>1, <1>2, <1>5, AtFinds
<1>6. QED
  BY <1>3, <1>4, <1>5 DEF HelperInvoke

LEMMA HelperInvokedFinds ==
  ASSUME Found, Told, HelperInvoked, Spare(frames')
  PROVE  Finds
<1>1. /\ Laid /\ Pair(regs) /\ Flags(Top, ok, exc)
      /\ Answer(Top, frames, mem, regs, ok, exc, build)
  BY FoundIs
<1>2. Top.k = "helper" /\ Top.st = "invoked"
  BY DEF HelperInvoked, Running
<1>3. CASE ok /\ InvokedJava(Top)
  <2>1. PICK x : x = Get(frames[Cur].vars, args_size(Top.m))
    OBVIOUS
  <2>2. stk' = Append(At("executed"), Activation("interp", Top.m, Top.c, x)) /\ regs' = regs
    BY <1>3, <2>1 DEF HelperInvoked
  <2>3. Pushed(Activation("interp", Top.m, Top.c, x))
    BY <2>2 DEF Pushed
  <2>4. QED
    BY <1>1, <2>2, <2>3, NewFinds
<1>4. CASE ok /\ ~ InvokedJava(Top)
  <2>1. Answered(Top)
    BY <1>2, <1>4 DEF Answered, InvokedJava
  <2>2. OnStack(mem, Tip(frames).optop, Top.m, Top.c)
    BY <1>1, <1>4, <2>1 DEF Answer
  <2>3. HelperFinish(frames, mem)
    BY <1>4 DEF HelperInvoked
  <2>4. IsSeq(frames) /\ frames # << >> /\ FrameOK(Tip(frames))
    BY <1>1, LaidTop
  <2>5. QED
    BY <1>2, <2>2, <2>3, <2>4, FinishFinds
<1>5. CASE ~ ok
  <2>1. regs' = regs /\ exc' = exc
    BY <1>5 DEF HelperInvoked
  <2>2. Top.inv # "java"
    <3>1. Spot(Tip(stk), frames, mem, ok, build) /\ Top = Tip(stk)
      BY <1>1, LaidTop DEF Laid
    <3>2. QED
      BY <1>2, <1>5, <3>1 DEF Spot, Framed
  <2>3. Both(Top)
    BY <1>2, <2>2 DEF Both, Answered
  <2>4. exc
    BY <1>1, <1>5, <2>3 DEF Flags
  <2>5. QED
    BY <1>1, <2>1, <2>4, FailFinds
<1>6. QED
  BY <1>3, <1>4, <1>5

\* The result of pExecuteJava() is on the operand stack of the caller's frame: the
\* interpreter in C puts it there, that of the one in assembly is moved.
LEMMA ExecutedHas ==
  ASSUME Found, Spare(frames), Ran(Top), ok,
         NEW q, q = Executed(Top.m).fs, NEW u, u = Executed(Top.m).words
  PROVE  /\ OnStack(u, Tip(q).optop, Top.m, Top.c)
         /\ IsSeq(q) /\ q # << >> /\ FrameOK(Tip(q))
<1>1. /\ Laid /\ Words32(mem) /\ Arr(stk, frames, mem)
      /\ Answer(Top, frames, mem, regs, ok, exc, build)
  BY FoundIs DEF Laid
<1>2. PICK r : r = Front(stk)
  OBVIOUS
<1>3. Arr(r, q, u)
  BY <1>1, <1>2, ExecutedArr
<1>4. IsSeq(q) /\ q # << >> /\ FrameOK(Tip(q))
  BY <1>3, ArrFacts
<1>5. Len(stk) > 1 /\ IsSeq(frames) /\ frames # << >> /\ optop = Tip(frames).optop
  BY <1>1, LaidTop DEF Ran
<1>6. PICK fs : fs = Front(frames)
  OBVIOUS
<1>7. Pop1(frames, fs)
  BY <1>5, <1>6, PopIs
<1>8. Arr(r, fs, mem)
  <2>1. Pop1(stk, r) /\ Link(Tip(r), Top) /\ Top = Tip(stk)
    BY <1>1, <1>2, <1>5, BelowIs
  <2>2. Owns(Tip(r), Tip(stk))
    BY <2>1 DEF Owns, Ran
  <2>3. QED
    BY <1>1, <1>5, <1>7, <2>1, <2>2, ArrPopFrame
<1>9. IsSeq(fs) /\ fs # << >> /\ FrameOK(Tip(fs))
  BY <1>8, ArrFacts
<1>10. PICK n \in Nat : n = ret_size(Top.m)
  BY ResultIs
<1>11. CASE build.asm
  <2>1. PICK z : z = Tip(fs).optop
    OBVIOUS
  <2>2. z \in Int /\ z >= 1
    BY <1>9, <2>1 DEF FrameOK
  <2>3. PICK o \in Int : o = z + n
    BY <1>10, <2>2
  <2>4. PICK ws : ws = Get(optop - n, n)
    OBVIOUS
  <2>5. q = [fs EXCEPT ![Len(fs)].optop = o] /\ u = Put(mem, z, ws)
    BY <1>6, <1>10, <1>11, <2>1, <2>3, <2>4 DEF Executed, Tip
  <2>6. OnStack(mem, optop, Top.m, Top.c)
    BY <1>1, <1>5, <1>11 DEF Answer
  <2>7. optop \in Int /\ optop <= StackWords + 1
    <3>1. optop + 1 <= StackWords
      BY <1>5, TipSpare
    <3>2. optop \in Int
      BY <1>1, <1>5, LaidTop DEF FrameOK
    <3>3. QED
      BY <3>1, <3>2, BoundAssumption
  <2>8. ws = Result(Top.m, Top.c)
    BY <1>10, <2>4, <2>6, <2>7, ReadResult
  <2>9. Covers(ws, Top.m, Top.c)
    BY <2>8, ResultCovers
  <2>10. OnStack(u, o, Top.m, Top.c)
    BY <1>1, <1>10, <2>2, <2>3, <2>5, <2>9, StoreResult
  <2>11. Sets(fs, q, o)
    BY <1>9, <2>5 DEF Sets
  <2>12. IsSet(fs, q, o)
    BY <2>11, TipOptop
  <2>13. Tip(q).optop = o
    BY <2>12 DEF IsSet
  <2>14. QED
    BY <1>4, <2>10, <2>13
<1>12. CASE ~ build.asm
  <2>1. q = fs /\ u = mem
    BY <1>6, <1>12 DEF Executed
  <2>2. OnStack(mem, frames[Len(frames) - 1].optop, Top.m, Top.c)
    BY <1>1, <1>12 DEF Answer
  <2>3. PICK l : l = Len(fs)
    OBVIOUS
  <2>4. l \in Nat /\ l >= 1 /\ l = Len(frames) - 1
    BY <1>7, <1>8, <2>3, ArrFacts DEF Pop1
  <2>5. fs[l] = frames[l]
    BY <1>7, <2>3, <2>4 DEF Pop1
  <2>6. Tip(fs) = frames[Len(frames) - 1]
    BY <2>3, <2>4, <2>5 DEF Tip
  <2>7. QED
    BY <1>4, <2>1, <2>2, <2>6
<1>13. QED
  BY <1>11, <1>12

LEMMA HelperExecutedFinds ==
  ASSUME Found, Told, HelperExecuted, Spare(frames), Spare(frames')
  PROVE  Finds
<1>1. Laid /\ Pair(regs) /\ Flags(Top, ok, exc)
  BY FoundIs
<1>2. Top.k = "helper" /\ Top.st = "executed" /\ exc' = exc
  BY DEF HelperExecuted, Running
<1>3. Ran(Top)
  BY <1>2 DEF Ran
<1>4. CASE ok
  <2>1. PICK q, u : q = Executed(Top.m).fs /\ u = Executed(Top.m).words
    OBVIOUS
  <2>2. HelperFinish(q, u)
    BY <1>4, <2>1 DEF HelperExecuted
  <2>3. OnStack(u, Tip(q).optop, Top.m, Top.c) /\ IsSeq(q) /\ q # << >> /\ FrameOK(Tip(q))
    BY <1>3, <1>4, <2>1, ExecutedHas
  <2>4. QED
    BY <1>2, <2>2, <2>3, FinishFinds
<1>5. CASE ~ ok
  <2>1. regs' = regs
    BY <1>5 DEF HelperExecuted
  <2>2. exc
    BY <1>1, <1>3, <1>5 DEF Flags, Both
  <2>3. QED
    BY <1>1, <1>2, <2>1, <2>2, FailFinds
<1>6. QED
  BY <1>4, <1>5

-----------------------------------------------------------------------------
(* The invokers.                                                           *)

LEMMA CandiFinds ==
  ASSUME Found, Told, Spare(frames),
         \/ CandiEntry \/ CandiCompile \/ CandiCall \/ CandiDone \/ CandiNormal
         \/ CandiExecuted
  PROVE  Finds
<1>1. /\ Laid /\ Pair(regs) /\ Flags(Top, ok, exc)
      /\ Answer(Top, frames, mem, regs, ok, exc, build)
  BY FoundIs
<1>2. Top.k = "candi" /\ Top.k # "interp"
  BY DEF CandiEntry, CandiCompile, CandiCall, CandiDone, CandiNormal, CandiExecuted, Running
<1>3. Len(stk) > 1
  BY <1>1, <1>2, LaidTop
<1>4. CASE Overflow
  BY <1>4, OverflowFinds
<1>5. CASE regs' = regs /\ (stk' = At("compiled") \/ stk' = At("normal") \/ stk' = At("compiling"))
  BY <1>1, <1>2, <1>5, AtFinds
<1>6. ASSUME NEW k \in {"jit", "interp"}, NEW st, NEW x, regs' = regs,
             stk' = Append(At(st), Activation(k, Top.m, Top.c, x))
      PROVE  Finds
  <2>1. Pushed(Activation(k, Top.m, Top.c, x))
    BY <1>6 DEF Pushed
  <2>2. QED
    BY <1>1, <1>6, <2>1, NewFinds
<1>7. CASE CandiDone
  <2>1. stk' = Front(stk) /\ UNCHANGED <<regs, mem, frames, ok, exc>>
    BY <1>7 DEF CandiDone
  <2>2. Answered(Top)
    BY <1>2, <1>7 DEF CandiDone, Answered, Running
  <2>3. ~ exc => OnStack(mem, Tip(frames).optop, Top.m, Top.c)
    BY <1>1, <2>2 DEF Answer, Flags, Both
  <2>4. QED
    BY <1>1, <1>2, <1>3, <2>1, <2>3, StackFinds
<1>8. CASE CandiExecuted /\ ok
  <2>1. PICK q, u : q = Executed(Top.m).fs /\ u = Executed(Top.m).words
    OBVIOUS
  <2>2. stk' = Front(stk) /\ regs' = regs /\ frames' = q /\ mem' = u
    BY <1>8, <2>1 DEF CandiExecuted
  <2>3. Ran(Top)
    BY <1>2, <1>8 DEF CandiExecuted, Ran, Running
  <2>4. OnStack(u, Tip(q).optop, Top.m, Top.c)
    BY <1>8, <2>1, <2>3, ExecutedHas
  <2>5. QED
    BY <1>1, <1>2, <1>3, <2>2, <2>4, StackFinds
<1>9. CASE CandiExecuted /\ ~ ok
  <2>1. regs' = regs /\ exc' = exc
    BY <1>9 DEF CandiExecuted
  <2>2. Both(Top)
    BY <1>2, <1>9 DEF CandiExecuted, Both, Ran, Running
  <2>3. exc
    BY <1>1, <1>9, <2>2 DEF Flags
  <2>4. QED
    BY <1>1, <2>1, <2>3, FailFinds
<1>10. QED
  BY <1>4, <1>5, <1>6, <1>7, <1>8, <1>9 DEF CandiEntry, CandiCompile, CandiCall, CandiNormal

\* a result is pushed on the innermost frame of fs
LEMMA PushedResult ==
  ASSUME NEW fs, IsSeq(fs), fs # << >>, FrameOK(Tip(fs)), NEW w, Words32(w), NEW m, NEW c,
         NEW ws, Covers(ws, m, c), NEW z, z = Tip(fs).optop,
         NEW q, q = [fs EXCEPT ![Len(fs)].optop = z + ret_size(m)],
         NEW u, u = Put(w, z, ws)
  PROVE  OnStack(u, Tip(q).optop, m, c)
<1>1. PICK n \in Nat : n = ret_size(m)
  BY ResultIs
<1>2. z \in Int /\ z >= 1
  BY DEF FrameOK
<1>3. PICK o \in Int : o = z + n
  BY <1>1, <1>2
<1>4. OnStack(u, o, m, c)
  BY <1>1, <1>2, <1>3, StoreResult
<1>5. Sets(fs, q, o)
  BY <1>1, <1>3 DEF Sets
<1>6. IsSet(fs, q, o)
  BY <1>5, TipOptop
<1>7. QED
  BY <1>4, <1>6 DEF IsSet

LEMMA JITFinds ==
  ASSUME Found, Told, JITEnter \/ JITDone
  PROVE  Finds
<1>1. /\ Laid /\ Pair(regs) /\ Words32(mem) /\ Arr(stk, frames, mem)
      /\ Answer(Top, frames, mem, regs, ok, exc, build)
  BY FoundIs DEF Laid
<1>2. Top.k = "jit"
  BY DEF JITEnter, JITDone, Running
<1>3. CASE Overflow
  BY <1>3, OverflowFinds
<1>4. CASE JITEnter /\ ~ Overflow
  <2>1. PICK x : stk' = Append(At("done"), Activation("comp", Top.m, Top.c, x))
    BY <1>4 DEF JITEnter
  <2>2. Pushed(Activation("comp", Top.m, Top.c, x))
    BY <2>1 DEF Pushed
  <2>3. regs' = regs
    BY <1>4 DEF JITEnter
  <2>4. QED
    BY <1>1, <2>2, <2>3, NewFinds
<1>5. CASE JITDone
  <2>1. Len(stk) > 1 /\ IsSeq(frames) /\ frames # << >>
    BY <1>1, <1>2, LaidTop
  <2>2. PICK fs, r : fs = Front(frames) /\ r = Front(stk)
    OBVIOUS
  <2>3. Pop1(stk, r) /\ Link(Tip(r), Top) /\ Top = Tip(stk)
    BY <1>1, <2>1, <2>2, BelowIs
  <2>4. Arr(r, fs, mem)
    <3>1. Owns(Tip(r), Tip(stk))
      BY <1>2, <1>5, <2>3 DEF Owns, JITDone, Running
    <3>2. Pop1(frames, fs)
      BY <2>1, <2>2, PopIs
    <3>3. QED
      BY <1>1, <2>1, <2>3, <3>1, <3>2, ArrPopFrame
  <2>5. IsSeq(fs) /\ fs # << >> /\ FrameOK(Tip(fs))
    BY <2>4, ArrFacts
  <2>6. PICK z, q, u : /\ z = Tip(fs).optop /\ u = Put(mem, z, regs)
                       /\ q = [fs EXCEPT ![Len(fs)].optop = z + ret_size(Top.m)]
    OBVIOUS
  <2>7. stk' = Front(stk) /\ regs' = regs /\ exc' = exc /\ frames' = q /\ mem' = u
    BY <1>5, <2>2, <2>6 DEF JITDone, Tip
  <2>8. ~ exc => OnStack(u, Tip(q).optop, Top.m, Top.c)
    <3>1. ~ exc => InRegisters(regs, Top.m, Top.c)
      BY <1>1, <1>2, <1>5 DEF Answer, JITDone, Running
    <3>2. ~ exc => Covers(regs, Top.m, Top.c)
      BY <1>1, <3>1, RegsCover
    <3>3. QED
      BY <1>1, <2>5, <2>6, <3>2, PushedResult
  <2>9. QED
    BY <1>1, <1>2, <2>1, <2>7, <2>8, StackFinds
<1>6. QED
  BY <1>3, <1>4, <1>5

-----------------------------------------------------------------------------
(* The JVM.                                                                *)

LEMMA LeaveBelowFinds ==
  ASSUME Found, Told, Len(stk) > 1, Top.k = "interp", Executing, ~ build.asm, LeaveResult
  PROVE  Finds
<1>1. Laid /\ Pair(regs) /\ Words32(mem)
  BY FoundIs DEF Laid
<1>2. PICK r : r = Front(stk)
  OBVIOUS
<1>3. /\ Pop1(stk, r) /\ Link(Tip(r), Top) /\ Act(Tip(r)) /\ Tip(r) = Below /\ Top = Tip(stk)
      /\ Top.m \in Methods
  BY <1>1, <1>2, BelowIs, LaidTop
<1>4. Left = frames
  BY DEF Left
<1>5. Arr(r, frames, mem) /\ Ran(Tip(r))
  BY <1>1, <1>2, <1>4, LeftArr
<1>6. PICK y : y = Len(frames) - 1
  OBVIOUS
<1>7. (\A b : Owns(b, Tip(r))) /\ ~ Reader(Tip(r)) /\ Tip(r).k # "interp"
  BY <1>5 DEF Ran, Owns, Reader
<1>8. Len(r) > 1
  BY <1>5, <1>7, ArrFacts
<1>9. y >= 1
  BY <1>5, <1>6, <1>7, <1>8, ArrWordsBelow
<1>10. PICK l \in Nat : l = Len(frames)
  BY <1>1, LaidTop
<1>11. y \in 1 .. l
  BY <1>6, <1>9, <1>10
<1>12. FrameOK(frames[y])
  BY <1>5, <1>10, <1>11 DEF Arr, Core, Stacked
<1>13. PICK n \in Nat : n = ret_size(Top.m)
  BY ResultIs
<1>14. PICK z : z = frames[y].optop
  OBVIOUS
<1>15. z \in Int /\ z >= 1 /\ frames[y].base \in Int /\ frames[y].base <= z
  BY <1>12, <1>14 DEF FrameOK
<1>16. PICK o \in Int : o = z + n /\ frames[y].base <= o
  BY <1>13, <1>15
<1>17. PICK ws, u, q : /\ ws = Result(Top.m, Top.c) /\ u = Put(mem, z, ws)
                       /\ q = [frames EXCEPT ![y].optop = o]
  OBVIOUS
<1>18. OnStack(u, o, Top.m, Top.c)
  BY <1>1, <1>13, <1>15, <1>16, <1>17, ResultCovers, StoreResult
<1>19. BelowReady(r, frames, mem, y, o)
  BY <1>5, <1>6, <1>9, <1>16 DEF BelowReady
<1>20. BelowDone(r, frames, mem, y, o, q)
  BY <1>17, <1>19, BelowAlike
<1>21. Len(q) = Len(frames) /\ q[y].optop = o
  BY <1>20 DEF BelowDone
<1>22. q[Len(q) - 1].optop = o
  BY <1>6, <1>21
<1>23. stk' = r /\ frames' = q /\ mem' = u /\ build' = build /\ regs' = regs
  BY <1>2, <1>4, <1>6, <1>13, <1>14, <1>16, <1>17 DEF LeaveResult, Leave, Cur
<1>24. Flags(Tip(r), ok', exc')
  BY <1>23 DEF Told
<1>25. PICK g, v, x : g = ok' /\ v = build /\ x = exc'
  OBVIOUS
<1>26. Answer(Tip(r), q, u, regs, g, x, v)
  BY <1>3, <1>5, <1>18, <1>22, <1>24, <1>25, UnderFrame
<1>27. QED
  BY <1>1, <1>23, <1>25, <1>26 DEF Finds

LEMMA LeaveFinds ==
  ASSUME Found, Told, Len(stk) > 1, Top.k \in {"interp", "native"},
         LeaveResult \/ LeaveThrowing
  PROVE  Finds
<1>1. Laid /\ Pair(regs) /\ Words32(mem)
  BY FoundIs DEF Laid
<1>2. CASE LeaveThrowing
  <2>1. exc' /\ regs' = regs
    BY <1>2 DEF LeaveThrowing, Leave
  <2>2. QED
    BY <1>1, <2>1, FailFinds
<1>3. CASE LeaveResult /\ Executing /\ ~ build.asm
  <2>1. Top.k = "interp"
    BY <1>3 DEF Executing
  <2>2. QED
    BY <1>3, <2>1, LeaveBelowFinds
<1>4. CASE LeaveResult /\ ~ (Executing /\ ~ build.asm)
  <2>1. PICK r, fs : r = Front(stk) /\ fs = Left
    OBVIOUS
  <2>2. Arr(r, fs, mem) /\ (Executing <=> Ran(Tip(r)))
    BY <1>1, <2>1, LeftArr
  <2>3. IsSeq(fs) /\ fs # << >> /\ FrameOK(Tip(fs))
    BY <2>2, ArrFacts
  <2>4. PICK z, ws : z = Tip(fs).optop /\ ws = Result(Top.m, Top.c)
    OBVIOUS
  <2>5. PICK q, u : /\ u = Put(mem, z, ws)
                    /\ q = [fs EXCEPT ![Len(fs)].optop = z + ret_size(Top.m)]
    OBVIOUS
  <2>6. Covers(ws, Top.m, Top.c)
    BY <2>4, ResultCovers
  <2>7. OnStack(u, Tip(q).optop, Top.m, Top.c)
    BY <1>1, <2>3, <2>4, <2>5, <2>6, PushedResult
  <2>8. stk' = Front(stk) /\ regs' = regs /\ frames' = q /\ mem' = u /\ build' = build
    BY <1>4, <2>1, <2>4, <2>5 DEF LeaveResult, Leave, Tip
  <2>9. ~ Ran(Tip(stk')) \/ build'.asm
    BY <1>4, <2>1, <2>2, <2>8
  <2>10. QED
    BY <1>1, <2>7, <2>8, <2>9, StackFinds
<1>5. QED
  BY <1>2, <1>3, <1>4

LEMMA CReturnFinds ==
  ASSUME Found, Told, NEW raise \in BOOLEAN, CReturn(raise)
  PROVE  Finds
<1>1. Laid /\ Pair(regs)
  BY FoundIs
<1>2. Top.k \in {"jni", "nmi"} /\ stk' = Front(stk) /\ exc' = raise
  BY DEF CReturn
<1>3. CASE raise
  <2>1. regs' = <<Junk, Junk>>
    BY <1>3 DEF CReturn
  <2>2. QED
    BY <1>2, <1>3, <2>1, JunkPair, FailFinds
<1>4. CASE ~ raise
  <2>1. Len(stk) > 1
    BY <1>1, <1>2, LaidTop
  <2>2. Link(Tip(stk'), Top)
    BY <1>1, <1>2, <2>1, Below1
  <2>3. Top.k = Info[Top.m].kind
    BY <1>2, <2>2 DEF Link
  <2>4. Pair(regs') /\ InC(regs', Top.m, Top.c)
    <3>1. CASE Info[Top.m].ret = "L" /\ Top.k = "jni"
      <4>1. PICK a : a = Ref(Result(Top.m, Top.c)[1])
        OBVIOUS
      <4>2. regs' = <<a, Junk>>
        BY <1>4, <3>1, <4>1 DEF CReturn
      <4>3. Pair(regs') /\ regs'[1] = a
        BY <4>2, WordsSeq DEF Pair
      <4>4. QED
        BY <2>3, <3>1, <4>1, <4>3 DEF InC
    <3>2. CASE ~ (Info[Top.m].ret = "L" /\ Top.k = "jni")
      <4>1. regs' = InRegs(Result(Top.m, Top.c))
        BY <1>4, <3>2 DEF CReturn
      <4>2. QED
        BY <2>3, <3>2, <4>1, InRegsIs DEF InC
    <3>3. QED
      BY <3>1, <3>2
  <2>5. QED
    BY <1>2, <2>2, <2>4, UnderNative DEF Finds
<1>5. QED
  BY <1>3, <1>4

LEMMA JVMFinds ==
  ASSUME Found, Told, NEW m \in Methods,
         \/ InterpCall(m) \/ NativeCall(m) \/ InterpReturn \/ InterpThrow \/ InterpBack
         \/ NativeReturn \/ NativeBack
  PROVE  Finds
<1>1. Laid /\ Pair(regs)
  BY FoundIs
<1>2. CASE InterpCall(m) \/ NativeCall(m)
  <2>1. PICK k, x, y, z : k \in {"candi", "jit", "interp", "native"} /\
          stk' = Append(Await(x, y), Activation(k, x, y, z))
    BY <1>2 DEF InterpCall, InvokeByJVM, NativeCall
  <2>2. Pushed(Activation(k, x, y, z))
    BY <2>1 DEF Pushed
  <2>3. regs' = regs
    BY <1>2 DEF InterpCall, InvokeByJVM, NativeCall
  <2>4. k \in {"candi", "jit", "interp", "native"}
    BY <2>1
  <2>5. QED
    BY <1>1, <2>2, <2>3, <2>4, NewFinds
<1>3. CASE Top.k \in {"interp", "native"} /\ Len(stk) > 1 /\ (LeaveResult \/ LeaveThrowing)
  BY <1>3, LeaveFinds
<1>4. CASE Top.k = "interp" /\ stk' = At("run") /\ regs' = regs
  BY <1>1, <1>4, AtFinds
<1>5. CASE InterpReturn \/ InterpThrow \/ InterpBack
  <2>1. Top.k = "interp"
    BY <1>5 DEF InterpReturn, InterpThrow, InterpBack, Running
  <2>2. QED
    BY <1>3, <1>4, <1>5, <2>1 DEF InterpReturn, InterpThrow, InterpBack
<1>6. CASE NativeReturn
  <2>1. CASE Running("native", "run") /\ (LeaveResult \/ LeaveThrowing)
    <3>1. Top.k = "native" /\ Len(stk) > 1
      BY <1>1, <2>1, LaidTop DEF Running
    <3>2. QED
      BY <1>3, <2>1, <3>1
  <2>2. CASE \E raise \in BOOLEAN : CReturn(raise)
    BY <2>2, CReturnFinds
  <2>3. QED
    BY <1>6, <2>1, <2>2 DEF NativeReturn
<1>7. CASE NativeBack
  <2>1. Top.k \in {"jni", "nmi"}
    BY <1>7 DEF NativeBack
  <2>2. CASE stk' = At("run") /\ regs' = regs
    BY <1>1, <2>1, <2>2, AtFinds
  <2>3. CASE exc' /\ regs' = <<Junk, Junk>>
    BY <2>3, JunkPair, FailFinds
  <2>4. QED
    BY <1>7, <2>2, <2>3 DEF NativeBack
<1>8. QED
  BY <1>2, <1>5, <1>6, <1>7

-----------------------------------------------------------------------------

LEMMA InitFinds ==
  ASSUME Init
  PROVE  Pair(regs) /\ Answer(Tip(stk), frames, mem, regs, ok, exc, build)
<1>1. PICK a, s : a = Activation("interp", Root, 0, << >>) /\ s = <<a>>
  OBVIOUS
<1>2. stk = s /\ regs = <<Junk, Junk>>
  BY <1>1 DEF Init
<1>3. Len(s) = 1 /\ s[1] = a
  BY <1>1, WordsSeq
<1>4. a.k = "interp" /\ a.st = "run"
  BY <1>1, MakeActIs
<1>5. ~ Busy(a)
  BY <1>4 DEF Busy, Both, Answered, Ran
<1>6. Tip(stk) = a
  BY <1>2, <1>3 DEF Tip
<1>7. QED
  BY <1>2, <1>5, <1>6, JunkPair, IdleAnswer

LEMMA NextFinds ==
  ASSUME Found, [Next]_vars, Told, Spare(frames), Spare(frames')
  PROVE  Finds
<1>1. ASSUME NEW m \in Methods,
             InvokeCore(m) \/ InlinedEnter(m) \/ RemoteInvoke(m) \/ InterpCall(m) \/ NativeCall(m)
      PROVE  Finds
  BY <1>1, CompiledFinds, JVMFinds
<1>2. CASE UNCHANGED <<frames, mem, stk, regs, ok, exc, build>>
  BY <1>2 DEF Found, Finds
<1>3. CASE InlinedExit \/ CompiledReturn \/ CompiledThrow \/ InvokeCoreDone
  BY <1>3, CompiledFinds, InfoAssumption
<1>4. CASE HelperEntry \/ HelperNative \/ HelperInvoke \/ HelperInvoked \/ HelperExecuted
  BY <1>4, HelperEntryFinds, HelperNativeFinds, HelperInvokeFinds, HelperInvokedFinds,
     HelperExecutedFinds
<1>5. CASE RemoteDone
  BY <1>5, RemoteDoneFinds
<1>6. CASE CandiEntry \/ CandiCompile \/ CandiCall \/ CandiDone \/ CandiNormal \/ CandiExecuted
  BY <1>6, CandiFinds
<1>7. CASE JITEnter \/ JITDone
  BY <1>7, JITFinds
<1>8. CASE InterpReturn \/ InterpThrow \/ InterpBack \/ NativeReturn \/ NativeBack
  BY <1>8, JVMFinds, InfoAssumption
<1>9. ASSUME NEW m \in Methods, OtherStarts(m) \/ OtherFlags(m) \/ OtherDone(m)
      PROVE  UNCHANGED <<frames, mem, stk, regs, ok, exc, build>>
  BY <1>9 DEF OtherStarts, OtherFlags, OtherDone
<1>10. UNCHANGED vars => UNCHANGED <<frames, mem, stk, regs, ok, exc, build>>
  BY DEF vars
<1>11. QED
  BY <1>1, <1>2, <1>3, <1>4, <1>5, <1>6, <1>7, <1>8, <1>9, <1>10 DEF Next

LEMMA FoundDelivered ==
  ASSUME Found, Spare(frames)
  PROVE  ResultDelivered
<1>1. /\ Rolled /\ Laid /\ Flags(Top, ok, exc) /\ Answer(Top, frames, mem, regs, ok, exc, build)
      /\ Pair(regs)
  BY FoundIs
<1>2. Came(Top, entered, ok, exc)
  BY <1>1, RolledIs
<1>3. SUFFICES ASSUME Top.st = "ret",
                      NEW m, NEW c, m = Top.call[1], c = Top.call[2],
                      NEW n, n = ret_size(m)
               PROVE  /\ Top.k = "comp" /\ ~ exc => SubSeq(regs, 1, n) = Result(m, c)
                      /\ Top.k \in {"interp", "jni", "nmi"} /\ ~ exc =>
                           Get(optop - n, n) = Result(m, c)
                      /\ Top.k \in {"interp", "jni", "nmi"} => (ok <=> ~ exc)
                      /\ ~ exc => Contains(entered, c)
  BY DEF ResultDelivered
<1>4. Top.k \in {"interp", "jni", "nmi"} => (ok <=> ~ exc)
  BY <1>1, <1>3 DEF Flags, Both
<1>5. ~ exc => Contains(entered, c)
  BY <1>2, <1>3 DEF Came, Has, Contains
<1>6. ASSUME Top.k \in {"interp", "jni", "nmi"}, ~ exc
      PROVE  Get(optop - n, n) = Result(m, c)
  <2>1. OnStack(mem, Tip(frames).optop, m, c)
    BY <1>1, <1>3, <1>6 DEF Answer
  <2>2. /\ IsSeq(frames) /\ frames # << >> /\ optop = Tip(frames).optop /\ FrameOK(Tip(frames))
    BY <1>1, LaidTop
  <2>3. optop + 1 <= StackWords
    BY <2>2, TipSpare
  <2>4. optop \in Int
    BY <2>2 DEF FrameOK
  <2>5. optop <= StackWords + 1
    BY <2>3, <2>4, BoundAssumption
  <2>6. QED
    BY <1>3, <2>1, <2>2, <2>4, <2>5, ReadResult
<1>7. ASSUME Top.k = "comp", ~ exc
      PROVE  SubSeq(regs, 1, n) = Result(m, c)
  <2>1. InRegisters(regs, m, c)
    BY <1>1, <1>3, <1>7 DEF Answer
  <2>2. PICK l \in {0, 1, 2} : l = n
    BY <1>3, ResultIs
  <2>3. PICK ws : ws = Result(m, c)
    OBVIOUS
  <2>4. IsSeq(ws) /\ Len(ws) = l
    BY <1>3, <2>2, <2>3, ResultIs
  <2>5. ws = [i \in 1 .. l |-> ws[i]]
    <3>1. PICK S : ws \in Seq(S)
      BY <2>4 DEF IsSeq
    <3>2. QED
      BY <2>4, <3>1, LenProperties
  <2>6. SubSeq(regs, 1, l) = [i \in 1 .. l |-> regs[i]]
    <3>1. PICK S : regs \in Seq(S)
      BY <1>1 DEF Pair, IsSeq
    <3>2. Len(regs) = 2
      BY <1>1 DEF Pair
    <3>3. QED
      BY <2>2, <3>1, <3>2, SubSeqProperties
  <2>7. \A i \in 1 .. l : regs[i] = ws[i]
    BY <1>3, <2>1, <2>2, <2>3 DEF InRegisters
  <2>8. QED
    BY <2>2, <2>3, <2>5, <2>6, <2>7
<1>8. QED
  BY <1>4, <1>5, <1>6, <1>7

\* The operand stacks stay on the Java stack, with a word to spare: what
\* EXPAND_JAVASTACK checks when a frame is made, with the method's maxstack.
Roomy == Spare(frames)

\* A caller whose call came back without an exception finds the result of that very
\* call where it looks for it, in edx and ecx (INVOKE_CORE) or on the Java stack
\* (the JVM's interpreter and its callbacks); a failure never comes back without an
\* exception; and no call comes back without one whose method has not begun
\* (invocationHelper(), compileAndInvokeMethod(), invokeJITCompiledMethod()).
THEOREM ResultsArrive == Spec /\ []Roomy => []ResultDelivered
<1>1. Init => Found
  <2>1. ASSUME Init PROVE Found
    <3>1. Laid /\ Flags(Tip(stk), ok, exc)
      BY <2>1, InitLaid, InitFlags
    <3>2. Rolled
      BY <2>1, <3>1, InitRolls DEF Rolled, Flagged
    <3>3. QED
      BY <2>1, <3>2, InitFinds DEF Found
  <2>2. QED
    BY <2>1
<1>2. Found /\ Roomy /\ Roomy' /\ [Next]_vars => Found'
  <2>1. ASSUME Found, Roomy, Roomy', [Next]_vars PROVE Found'
    <3>1. Rolled /\ Laid
      BY <2>1, FoundIs
    <3>2. Told /\ Rolls
      BY <2>1, <3>1, NextRolls
    <3>3. Laid'
      BY <2>1, <3>1, NextLaid
    <3>4. Rolled'
      BY <3>2, <3>3 DEF Rolled, Flagged, Told, Rolls
    <3>5. Finds
      BY <2>1, <3>2, NextFinds DEF Roomy
    <3>6. QED
      BY <3>4, <3>5 DEF Found, Finds
  <2>2. QED
    BY <2>1
<1>3. Found /\ Roomy => ResultDelivered
  BY FoundDelivered DEF Roomy
<1>4. QED
  BY <1>1, <1>2, <1>3, PTL DEF Spec
=============================================================================
