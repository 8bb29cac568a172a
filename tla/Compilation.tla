---------------------------- MODULE Compilation ----------------------------
(***************************************************************************)
(* The compilation protocol of shuJIT: how threads drive methods through   *)
(* compileMethod() (compile.c), which CompilerContext they work on         *)
(* (computil.c), how a compilation reaches its callees (optimize.c), and   *)
(* how compileAndInvokeMethod() (invoker.c), compileClass() and            *)
(* initializeClassForJIT() (compiler.c) start it.                          *)
(*                                                                         *)
(* A step is a piece of code during which no other thread can observe or   *)
(* change what the piece works on: the body of a monitor section, or a     *)
(* single unlocked access.  The generated code itself is abstracted to the *)
(* name of the method whose bytecode it was made from; the instruction     *)
(* table of a context to the sequence of its invokespecial/invokestatic    *)
(* call sites.                                                             *)
(***************************************************************************)
EXTENDS Integers, Sequences, FiniteSets

CONSTANTS
  Thread,         \* Java threads
  Method,         \* non-abstract, non-native methods that have bytecode
  Context,        \* the CompilerContexts malloc() can return
  Null, Junk,     \* the NULL pointer; a table or buffer written twice
  Callees,        \* static call sites of each method, in bytecode order
  Inlinable,      \* not synchronized, no handler, no jump, short enough
  MayFail,        \* methods whose constant pool resolution may fail
  Threshold,      \* invocations before a method is compiled (0: strictfp)
  Loaded,         \* methods whose class has been initialised for the JIT
  ClassMethods,   \* the methods of the class given to compileClass()
  InliningDepth,  \* opt_inlining_depth
  MaxDepth,       \* bound: nesting of the modelled C calls in one thread
  MaxCalls        \* bound: calls each thread makes from outside

STAGE_START == 0
STAGE_INTERNAL_CODE == 1
STAGE_STATIC_PART == 2
STAGE_DONE == 3

Stage == STAGE_START .. STAGE_DONE

ASSUME NullAssumption ==
  /\ Null \notin Method \cup Context \cup {Junk}
  /\ Junk \notin Method

ASSUME ProgramAssumption ==
  /\ Callees \in [Method -> Seq(Method)]
  /\ Inlinable \subseteq Method
  /\ MayFail \subseteq Method
  /\ Loaded \subseteq Method
  /\ ClassMethods \in Seq(Method)

ASSUME BoundAssumption ==
  /\ Threshold \in [Method -> Nat]
  /\ InliningDepth \in Nat
  /\ MaxDepth \in Nat \ {0}
  /\ MaxCalls \in Nat

VARIABLES
  invoker,     \* mb->invoker: "interp", "candi" or "jit"
  code,        \* mb->CompiledCode: the method whose bytecode it was made from
  linked,      \* its constants, exception table and symbols are resolved
  compiledflag, \* ACC_MACHINE_COMPILED of mb->fb.access
  direct,      \* methods some code calls by invoke_core_compiled
  info,        \* mb->CompiledCodeInfo: "none", "published" or "ready"
  infocc,      \* info->cc
  inlineability, \* info->inlineability; "bare" is INLINE_MAY while info->pctable is NULL
  count,       \* info->invocation_count, up to the threshold
  throwtable,  \* info->throwtable: the passes of writeCode() that filled it
  monitor,     \* info->monitor: the activations <<thread, depth>> inside it
  global,      \* holder of global_monitor
  ctx,         \* the CompilerContexts
  pool,        \* cc_pool, the head of the list linked by ctx[c].next
  enabled,     \* compiler_enabled
  stack,       \* the modelled C calls of each thread; entry 0 is the caller
  depth,       \* index of the running activation of each thread
  calls        \* calls each thread may still make

codeVars == <<code, linked, compiledflag, direct>>
infoVars == <<info, infocc, inlineability, count, throwtable>>
methodVars == <<invoker, codeVars, infoVars>>
contextVars == <<ctx, pool>>
threadVars == <<stack, depth>>
vmVars == <<enabled, calls>>
vars == <<methodVars, monitor, global, contextVars, threadVars, vmVars>>

-----------------------------------------------------------------------------
(* Activations.                                                            *)

\* pcs at which compileMethod() is between its lock and its unlock
Body == {"front", "preserve", "internal", "inline", "inlined", "eager", "eagered",
         "write", "static", "install", "finish", "exit", "fail"}

\* pcs of releaseCompilerContext(), and of compile_failed before it
Releasing == {"clearflag", "release", "unlink", "link", "push"}

\* pcs of getCompilerContext() inside info->monitor
Getting == {"get", "pop", "reset", "ref"}

PC == {"idle",                              \* not in the compiler
       "publish", "initinfo",               \* prepareCompiledCodeInfo()
       "check", "lookup", "stagecheck", "enter"}   \* compileMethod()
      \cup Getting \cup Body \cup Releasing
      \cup {"count", "compiling", "call", "failed",  \* compileAndInvokeMethod()
            "class",                        \* compileClass()
            "hook", "hooktest", "hookset"}  \* initializeClassForJIT()

Activation == [pc : PC, m : Method \cup {Null}, target : Stage,
               cc : Context \cup {Null}, g : Method \cup {Null},
               i : Nat \ {0}, pass : Nat,
               inlined : BOOLEAN, ok : BOOLEAN]

NoActivation == [pc |-> "idle", m |-> Null, target |-> STAGE_START, cc |-> Null,
                 g |-> Null, i |-> 1, pass |-> 1, inlined |-> FALSE, ok |-> TRUE]

Start(pc, m, target) == [NoActivation EXCEPT !.pc = pc, !.m = m, !.target = target]

Top(t) == stack[t][depth[t]]

At(t, pc) == Top(t).pc = pc

\* The running activation of t becomes a.
Set(t, a) ==
  /\ stack' = [stack EXCEPT ![t] = [@ EXCEPT ![depth[t]] = a]]
  /\ UNCHANGED depth

Goto(t, pc) == Set(t, [Top(t) EXCEPT !.pc = pc])

\* The running activation of t becomes a and calls b.
Call(t, a, b) ==
  /\ depth[t] < MaxDepth
  /\ stack' = [stack EXCEPT ![t] =
                 [@ EXCEPT ![depth[t]] = a, ![depth[t] + 1] = b]]
  /\ depth' = [depth EXCEPT ![t] = @ + 1]

\* What the caller does with the value compileMethod() returns: only
\* compileAndInvokeMethod() looks at it.
Resume(a, ok) ==
  IF a.pc = "compiling" THEN [a EXCEPT !.pc = IF ok THEN "call" ELSE "failed"]
                        ELSE a

Return(t, ok) ==
  /\ stack' = [stack EXCEPT ![t] =
                 [j \in 0 .. MaxDepth |->
                    IF j = depth[t] - 1 THEN Resume(stack[t][j], ok)
                    ELSE IF j = depth[t] THEN NoActivation
                    ELSE stack[t][j]]]
  /\ depth' = [depth EXCEPT ![t] = @ - 1]

-----------------------------------------------------------------------------
(* info->monitor is re-entrant: a thread may enter it again.               *)

MonitorFree(t, m) == \A h \in monitor[m] : h[1] = t

MonitorEnter(t, m) ==
  /\ MonitorFree(t, m)
  /\ monitor' = [monitor EXCEPT ![m] = @ \cup {<<t, depth[t]>>}]

MonitorExit(t, m) ==
  monitor' = [monitor EXCEPT ![m] = @ \ {<<t, depth[t]>>}]

-----------------------------------------------------------------------------
(* prepareCompiledCodeInfo() - computil.c                                  *)

\* Under global_monitor: allocate the CodeInfo unless there is one.  The new
\* one is visible to every thread before its fields are set.
Publish(t) ==
  LET m == Top(t).m IN
  /\ At(t, "publish")
  /\ global = Null
  /\ \/ /\ info[m] # "none"
        /\ Return(t, TRUE)
        /\ UNCHANGED info
     \/ /\ info[m] = "none"
        /\ info' = [info EXCEPT ![m] = "published"]
        /\ Goto(t, "initinfo")
  /\ UNCHANGED <<invoker, codeVars, infocc, inlineability, count, throwtable,
                 monitor, global, contextVars, vmVars>>

\* Under info->monitor: set the fields.
InitInfo(t) ==
  LET m == Top(t).m IN
  /\ At(t, "initinfo")
  /\ MonitorFree(t, m)
  /\ info' = [info EXCEPT ![m] = "ready"]
  /\ infocc' = [infocc EXCEPT ![m] = Null]
  /\ inlineability' = [inlineability EXCEPT ![m] = "unknown"]
  /\ throwtable' = [throwtable EXCEPT ![m] = <<>>]
  /\ Return(t, TRUE)
  /\ UNCHANGED <<invoker, codeVars, count, monitor, global, contextVars, vmVars>>

-----------------------------------------------------------------------------
(* getCompilerContext() - computil.c                                       *)

FreshContext(m) ==
  [mb |-> m, ref |-> 0, stage |-> STAGE_START, next |-> Null,
   body |-> Null, sites |-> << >>]

Allocated(c) == ctx[c].mb # Null

\* The CodeInfo is looked up inside global_monitor, then info->monitor entered.
Lookup(t) ==
  LET m == Top(t).m IN
  /\ At(t, "lookup")
  /\ global = Null
  /\ MonitorEnter(t, m)
  /\ Goto(t, "get")
  /\ UNCHANGED <<methodVars, global, contextVars, vmVars>>

\* Mutant: info->cc is not consulted.
GetIgnoresInfo(t) ==
  LET m == Top(t).m IN
  /\ At(t, "get")
  /\ \E c \in Context :
       /\ ~ Allocated(c)
       /\ ctx' = [ctx EXCEPT ![c] = FreshContext(m)]
       /\ infocc' = [infocc EXCEPT ![m] = c]
       /\ Set(t, [Top(t) EXCEPT !.pc = "ref", !.cc = c])
  /\ UNCHANGED <<invoker, codeVars, info, inlineability, count, throwtable,
                 monitor, global, pool, vmVars>>

\* info->cc, or the head of the pool, or a context from malloc().
Get(t) ==
  LET m == Top(t).m IN
  /\ At(t, "get")
  /\ \/ /\ infocc[m] # Null
        /\ Set(t, [Top(t) EXCEPT !.pc = "ref", !.cc = infocc[m]])
        /\ UNCHANGED <<infocc, ctx>>
     \/ /\ infocc[m] = Null
        /\ pool # Null
        /\ Set(t, [Top(t) EXCEPT !.pc = "pop", !.cc = pool])
        /\ UNCHANGED <<infocc, ctx>>
     \/ /\ infocc[m] = Null
        /\ pool = Null
        /\ \E c \in Context :
             /\ ~ Allocated(c)
             /\ ctx' = [ctx EXCEPT ![c] = FreshContext(m)]
             /\ infocc' = [infocc EXCEPT ![m] = c]
             /\ Set(t, [Top(t) EXCEPT !.pc = "ref", !.cc = c])
  /\ UNCHANGED <<invoker, codeVars, info, inlineability, count, throwtable,
                 monitor, global, pool, vmVars>>

\* cc_pool = cc_pool->next: cc_pool is read again.
Pop(t) ==
  /\ At(t, "pop")
  /\ pool # Null
  /\ pool' = ctx[pool].next
  /\ Goto(t, "reset")
  /\ UNCHANGED <<methodVars, monitor, global, ctx, vmVars>>

\* Mutant: the table and the buffer of a recycled context are not cleared.
ResetKeepsBody(t) ==
  LET a == Top(t) IN
  /\ At(t, "reset")
  /\ ctx' = [ctx EXCEPT ![a.cc].mb = a.m, ![a.cc].ref = 0,
                        ![a.cc].stage = STAGE_START]
  /\ infocc' = [infocc EXCEPT ![a.m] = a.cc]
  /\ Goto(t, "ref")
  /\ UNCHANGED <<invoker, codeVars, info, inlineability, count, throwtable,
                 monitor, global, pool, vmVars>>

\* resetCompilerContext()
Reset(t) ==
  LET a == Top(t) IN
  /\ At(t, "reset")
  /\ ctx' = [ctx EXCEPT ![a.cc] = FreshContext(a.m)]
  /\ infocc' = [infocc EXCEPT ![a.m] = a.cc]
  /\ Goto(t, "ref")
  /\ UNCHANGED <<invoker, codeVars, info, inlineability, count, throwtable,
                 monitor, global, pool, vmVars>>

\* Mutant: the reference is not counted.
RefUncounted(t) ==
  /\ At(t, "ref")
  /\ MonitorExit(t, Top(t).m)
  /\ Goto(t, "stagecheck")
  /\ UNCHANGED <<methodVars, global, contextVars, vmVars>>

\* cc->ref_count++, and info->monitor is left.
Ref(t) ==
  LET a == Top(t) IN
  /\ At(t, "ref")
  /\ ctx' = [ctx EXCEPT ![a.cc].ref = @ + 1]
  /\ MonitorExit(t, a.m)
  /\ Goto(t, "stagecheck")
  /\ UNCHANGED <<methodVars, global, pool, vmVars>>

-----------------------------------------------------------------------------
(* releaseCompilerContext() - computil.c, inside global_monitor            *)

\* Where compileMethod() goes on after the release: to its unlock, or, after
\* a failure, back to its caller.
Released(t) == IF Top(t).ok THEN Goto(t, "exit") ELSE Return(t, FALSE)

\* Mutant: the context is released when one reference is left.
UnrefEarly(t) ==
  LET c == Top(t).cc IN
  /\ At(t, "release")
  /\ global = Null
  /\ ctx' = [ctx EXCEPT ![c].ref = @ - 1]
  /\ global' = t
  /\ Goto(t, "unlink")
  /\ UNCHANGED <<methodVars, monitor, pool, vmVars>>

Unref(t) ==
  LET c == Top(t).cc IN
  /\ At(t, "release")
  /\ global = Null
  /\ ctx' = [ctx EXCEPT ![c].ref = @ - 1]
  /\ \/ /\ ctx[c].ref - 1 > 0
        /\ Released(t)
        /\ UNCHANGED global
     \/ /\ ctx[c].ref - 1 <= 0
        /\ global' = t
        /\ Goto(t, "unlink")
  /\ UNCHANGED <<methodVars, monitor, pool, vmVars>>

Unlink(t) ==
  LET c == Top(t).cc IN
  /\ At(t, "unlink")
  /\ infocc' = [infocc EXCEPT ![ctx[c].mb] = Null]
  /\ Goto(t, "link")
  /\ UNCHANGED <<invoker, codeVars, info, inlineability, count, throwtable,
                 monitor, global, contextVars, vmVars>>

Link(t) ==
  LET c == Top(t).cc IN
  /\ At(t, "link")
  /\ ctx' = [ctx EXCEPT ![c].next = pool]
  /\ Goto(t, "push")
  /\ UNCHANGED <<methodVars, monitor, global, pool, vmVars>>

Push(t) ==
  /\ At(t, "push")
  /\ pool' = Top(t).cc
  /\ global' = Null
  /\ Released(t)
  /\ UNCHANGED <<methodVars, monitor, ctx, vmVars>>

-----------------------------------------------------------------------------
(* compileMethod() - compile.c                                             *)

\* Mutant: a method that is compiled already is compiled again.
CheckForgetsCode(t) ==
  LET a == Top(t) IN
  /\ At(t, "check")
  /\ \/ /\ info[a.m] = "none"
        /\ Call(t, [a EXCEPT !.pc = "lookup"], Start("publish", a.m, STAGE_START))
     \/ /\ info[a.m] # "none"
        /\ Goto(t, "lookup")
  /\ UNCHANGED <<methodVars, monitor, global, contextVars, vmVars>>

\* The unlocked test for a method that is compiled already, and the CodeInfo.
Check(t) ==
  LET a == Top(t) IN
  /\ At(t, "check")
  /\ \/ /\ invoker[a.m] = "jit"
        /\ Return(t, TRUE)
     \/ /\ invoker[a.m] # "jit"
        /\ info[a.m] = "none"
        /\ Call(t, [a EXCEPT !.pc = "lookup"], Start("publish", a.m, STAGE_START))
     \/ /\ invoker[a.m] # "jit"
        /\ info[a.m] # "none"
        /\ Goto(t, "lookup")
  /\ UNCHANGED <<methodVars, monitor, global, contextVars, vmVars>>

\* The stage is examined before info->monitor is entered; the early return
\* keeps the reference getCompilerContext() took.
StageCheck(t) ==
  LET a == Top(t) IN
  /\ At(t, "stagecheck")
  /\ \/ /\ ctx[a.cc].stage >= a.target
        /\ Return(t, TRUE)
     \/ /\ ctx[a.cc].stage < a.target
        /\ Goto(t, "enter")
  /\ UNCHANGED <<methodVars, monitor, global, contextVars, vmVars>>

ResumeAt(stage) ==
  CASE stage = STAGE_START         -> "front"
    [] stage = STAGE_INTERNAL_CODE -> "internal"
    [] stage = STAGE_STATIC_PART   -> "static"
    [] stage = STAGE_DONE          -> "exit"

\* Mutant: the lock is left out.
EnterUnlocked(t) ==
  LET a == Top(t) IN
  /\ At(t, "enter")
  /\ Goto(t, ResumeAt(ctx[a.cc].stage))
  /\ UNCHANGED <<methodVars, monitor, global, contextVars, vmVars>>

\* Lock, and jump to the stage the context has reached.  A method being
\* compiled is interpreted.
Enter(t) ==
  LET a == Top(t) IN
  /\ At(t, "enter")
  /\ MonitorEnter(t, a.m)
  /\ Goto(t, ResumeAt(ctx[a.cc].stage))
  /\ invoker' = IF ctx[a.cc].stage = STAGE_DONE THEN invoker
                ELSE [invoker EXCEPT ![a.m] = "interp"]
  /\ UNCHANGED <<codeVars, infoVars, global, contextVars, vmVars>>

\* What a table or buffer holds once the code of method m is appended to it.
Appended(body, m) == IF body = Null THEN m ELSE Junk

\* makePCTable() fails: a constant pool entry could not be resolved.
FrontFails(t) ==
  LET a == Top(t) IN
  /\ At(t, "front")
  /\ ctx[a.cc].mb \in MayFail
  /\ ctx' = [ctx EXCEPT ![a.cc].body = Junk]
  /\ Goto(t, "fail")
  /\ UNCHANGED <<methodVars, monitor, global, pool, vmVars>>

\* makePCTable(), makeBlockStructure(), peepholeOptimization(), and the test
\* whether the method can be inlined.  Its outcome is visible at once.
Front(t) ==
  LET a == Top(t)
      mb == ctx[a.cc].mb IN
  /\ At(t, "front")
  /\ ctx' = [ctx EXCEPT ![a.cc].body = Appended(@, mb),
                        ![a.cc].sites = @ \o Callees[mb]]
  /\ inlineability' = [inlineability EXCEPT
                         ![a.m] = IF a.m \in Inlinable THEN "bare" ELSE "dont"]
  /\ Goto(t, "preserve")
  /\ UNCHANGED <<invoker, codeVars, info, infocc, count, throwtable,
                 monitor, global, pool, vmVars>>

\* The internal instructions are preserved for inlining.
Preserve(t) ==
  LET a == Top(t) IN
  /\ At(t, "preserve")
  /\ inlineability' = [inlineability EXCEPT ![a.m] = IF @ = "bare" THEN "may" ELSE @]
  /\ ctx' = [ctx EXCEPT ![a.cc].stage = STAGE_INTERNAL_CODE]
  /\ Goto(t, "internal")
  /\ UNCHANGED <<invoker, codeVars, info, infocc, count, throwtable,
                 monitor, global, pool, vmVars>>

\* stage_internal_code: stop here when only the internal code was wanted.
Internal(t) ==
  LET a == Top(t) IN
  /\ At(t, "internal")
  /\ \/ /\ ctx[a.cc].stage >= a.target
        /\ invoker' = [invoker EXCEPT ![a.m] = "candi"]
        /\ Goto(t, "exit")
     \/ /\ ctx[a.cc].stage < a.target
        /\ Goto(t, "inline")
        /\ UNCHANGED invoker
  /\ UNCHANGED <<codeVars, infoVars, monitor, global, contextVars, vmVars>>

-----------------------------------------------------------------------------
(* methodInlining() and eagerCompilation() - optimize.c.  Both call        *)
(* compileMethod() for callees while info->monitor of the caller is held.  *)

Sites(a) == ctx[a.cc].sites

Site(a) == Sites(a)[a.i]

SameStrictness(m, g) == (Threshold[m] = 0) <=> (Threshold[g] = 0)

\* One pass of methodInlining0() over the call sites: the inlineability of a
\* callee that is not known is found by compiling it to internal code.
InlineScan(t) ==
  LET a == Top(t) IN
  /\ At(t, "inline")
  /\ a.i <= Len(Sites(a))
  /\ a.pass <= InliningDepth
  /\ \/ /\ info[Site(a)] = "none"
        /\ Call(t, a, Start("publish", Site(a), STAGE_START))
     \/ /\ info[Site(a)] # "none"
        /\ inlineability[Site(a)] = "unknown"
        /\ Call(t, [a EXCEPT !.pc = "inlined", !.g = Site(a)],
                Start("check", Site(a), STAGE_INTERNAL_CODE))
     \/ /\ info[Site(a)] # "none"
        /\ inlineability[Site(a)] # "unknown"
        /\ Set(t, [a EXCEPT !.pc = "inlined", !.g = Site(a)])
  /\ UNCHANGED <<methodVars, monitor, global, contextVars, vmVars>>

\* Replace the call site by the call sites of the callee's body; the scan goes
\* on behind them, so they are for the next pass.  When another thread has not
\* preserved the body yet, what is inserted has no beginning and no length; when
\* the context has been recycled during the callee's compilation the insertion
\* falls outside the table.
InlineSite(t) ==
  LET a == Top(t)
      inlines == inlineability[a.g] \in {"bare", "may"} /\ SameStrictness(a.m, a.g)
      skipped == IF inlines THEN Len(Callees[a.g]) ELSE 1 IN
  /\ At(t, "inlined")
  /\ Set(t, [a EXCEPT !.pc = "inline", !.g = Null, !.i = @ + skipped,
                      !.inlined = @ \/ inlines])
  /\ \/ /\ ~ inlines
        /\ UNCHANGED ctx
     \/ /\ inlines
        /\ inlineability[a.g] = "may" /\ a.i <= Len(Sites(a))
        /\ ctx' = [ctx EXCEPT ![a.cc].sites =
                     SubSeq(@, 1, a.i - 1) \o Callees[a.g]
                       \o SubSeq(@, a.i + 1, Len(@))]
     \/ /\ inlines
        /\ inlineability[a.g] = "bare" \/ a.i > Len(Sites(a))
        /\ ctx' = [ctx EXCEPT ![a.cc].body = Junk]
  /\ UNCHANGED <<methodVars, monitor, global, pool, vmVars>>

\* methodInlining(): another pass if this one inlined something.
InlinePassEnd(t) ==
  LET a == Top(t) IN
  /\ At(t, "inline")
  /\ a.i > Len(Sites(a)) \/ a.pass > InliningDepth
  /\ \/ /\ a.inlined /\ a.pass < InliningDepth
        /\ Set(t, [a EXCEPT !.i = 1, !.pass = @ + 1, !.inlined = FALSE])
     \/ /\ ~ (a.inlined /\ a.pass < InliningDepth)
        /\ Set(t, [a EXCEPT !.pc = "eager", !.i = 1])
  /\ UNCHANGED <<methodVars, monitor, global, contextVars, vmVars>>

\* Mutant: the callee is always compiled.
AlwaysCompilable(g) == TRUE

\* The test that prevents self compilation: info->cc, read without a lock.
NotBeingCompiled(g) ==
  infocc[g] # Null => ctx[infocc[g]].stage < STAGE_INTERNAL_CODE

EagerScan(t) ==
  LET a == Top(t) IN
  /\ At(t, "eager")
  /\ a.i <= Len(Sites(a))
  /\ \/ /\ info[Site(a)] = "none"
        /\ Call(t, a, Start("publish", Site(a), STAGE_START))
     \/ /\ info[Site(a)] # "none"
        /\ NotBeingCompiled(Site(a))
        /\ Call(t, [a EXCEPT !.pc = "eagered", !.g = Site(a)],
                Start("check", Site(a), STAGE_DONE))
     \/ /\ info[Site(a)] # "none"
        /\ ~ NotBeingCompiled(Site(a))
        /\ Set(t, [a EXCEPT !.pc = "eagered", !.g = Site(a)])
  /\ UNCHANGED <<methodVars, monitor, global, contextVars, vmVars>>

\* Mutant: every callee is called as compiled code.
EagerSiteUnchecked(t) ==
  LET a == Top(t) IN
  /\ At(t, "eagered")
  /\ direct' = direct \cup {a.g}
  /\ Set(t, [a EXCEPT !.pc = "eager", !.g = Null, !.i = @ + 1])
  /\ UNCHANGED <<invoker, code, linked, compiledflag, infoVars, monitor, global,
                 contextVars, vmVars>>

\* Mutant: the scan does not advance over a callee that is compiled.
EagerSiteStuck(t) ==
  LET a == Top(t)
      compiled == invoker[a.g] = "jit" IN
  /\ At(t, "eagered")
  /\ direct' = IF compiled THEN direct \cup {a.g} ELSE direct
  /\ Set(t, [a EXCEPT !.pc = "eager", !.g = Null, !.i = IF compiled THEN @ ELSE @ + 1])
  /\ UNCHANGED <<invoker, code, linked, compiledflag, infoVars, monitor, global,
                 contextVars, vmVars>>

\* invoke_core_compiled is substituted for a callee found compiled.
EagerSite(t) ==
  LET a == Top(t) IN
  /\ At(t, "eagered")
  /\ direct' = IF invoker[a.g] = "jit" THEN direct \cup {a.g} ELSE direct
  /\ Set(t, [a EXCEPT !.pc = "eager", !.g = Null, !.i = @ + 1])
  /\ UNCHANGED <<invoker, code, linked, compiledflag, infoVars, monitor, global,
                 contextVars, vmVars>>

EagerEnd(t) ==
  LET a == Top(t) IN
  /\ At(t, "eager")
  /\ a.i > Len(Sites(a))
  /\ Goto(t, "write")
  /\ UNCHANGED <<methodVars, monitor, global, contextVars, vmVars>>

-----------------------------------------------------------------------------
(* writeCode() and what follows it - compile.c                             *)

\* writeCode() appends the throw entries of the method to its table.  Their
\* offsets ascend within a pass and start from zero in each; a pass that fails
\* leaves the entries it has made.
AddThrowEntries(mb, pass) ==
  throwtable' = [throwtable EXCEPT ![mb] = Append(@, pass)]

WriteFails(t) ==
  LET a == Top(t) IN
  /\ At(t, "write")
  /\ ctx[a.cc].mb \in MayFail
  /\ AddThrowEntries(ctx[a.cc].mb, "part")
  /\ ctx' = [ctx EXCEPT ![a.cc].body = Junk]
  /\ Goto(t, "fail")
  /\ UNCHANGED <<invoker, codeVars, info, infocc, inlineability, count, monitor,
                 global, pool, vmVars>>

\* updateStates(), writeCode(), the resolution of jumps, and the copy of the
\* buffer to mb->CompiledCode, still to be linked.
Write(t) ==
  LET a == Top(t) IN
  /\ At(t, "write")
  /\ AddThrowEntries(ctx[a.cc].mb, "whole")
  /\ code' = [code EXCEPT ![a.m] = ctx[a.cc].body]
  /\ linked' = [linked EXCEPT ![a.m] = FALSE]
  /\ ctx' = [ctx EXCEPT ![a.cc].stage = STAGE_STATIC_PART]
  /\ Goto(t, "static")
  /\ UNCHANGED <<invoker, compiledflag, direct, info, infocc, inlineability,
                 count, monitor, global, pool, vmVars>>

\* makeExcTable(), resolveDynamicConstants(), resolveFunctionSymbols(): the
\* code is linked, and may be called directly.
Static(t) ==
  LET a == Top(t) IN
  /\ At(t, "static")
  /\ linked' = [linked EXCEPT ![ctx[a.cc].mb] = TRUE]
  /\ compiledflag' = [compiledflag EXCEPT ![a.m] = TRUE]
  /\ Goto(t, "install")
  /\ UNCHANGED <<invoker, code, direct, infoVars, monitor, global, contextVars, vmVars>>

\* It becomes what an invocation runs: mb->invoker is read without a lock.
Install(t) ==
  /\ At(t, "install")
  /\ invoker' = [invoker EXCEPT ![Top(t).m] = "jit"]
  /\ Goto(t, "finish")
  /\ UNCHANGED <<codeVars, infoVars, monitor, global, contextVars, vmVars>>

\* Mutant: the stage is advanced by two.
FinishOvershoots(t) ==
  LET a == Top(t) IN
  /\ At(t, "finish")
  /\ ctx' = [ctx EXCEPT ![a.cc].stage = @ + 2]
  /\ Goto(t, "release")
  /\ UNCHANGED <<methodVars, monitor, global, pool, vmVars>>

Finish(t) ==
  LET a == Top(t) IN
  /\ At(t, "finish")
  /\ ctx' = [ctx EXCEPT ![a.cc].stage = STAGE_DONE]
  /\ Goto(t, "release")
  /\ UNCHANGED <<methodVars, monitor, global, pool, vmVars>>

\* stage_done: unlock and return.
Exit(t) ==
  /\ At(t, "exit")
  /\ MonitorExit(t, Top(t).m)
  /\ Return(t, TRUE)
  /\ UNCHANGED <<methodVars, global, contextVars, vmVars>>

\* Mutant: compile_failed leaves the method locked.
FailLocked(t) ==
  LET a == Top(t) IN
  /\ At(t, "fail")
  /\ Set(t, [a EXCEPT !.pc = "clearflag", !.ok = FALSE])
  /\ UNCHANGED <<methodVars, monitor, global, contextVars, vmVars>>

\* compile_failed: unlock, ...
Fail(t) ==
  LET a == Top(t) IN
  /\ At(t, "fail")
  /\ MonitorExit(t, a.m)
  /\ Set(t, [a EXCEPT !.pc = "clearflag", !.ok = FALSE])
  /\ UNCHANGED <<methodVars, global, contextVars, vmVars>>

\* ... clear ACC_MACHINE_COMPILED, and release the context.
ClearFlag(t) ==
  LET a == Top(t) IN
  /\ At(t, "clearflag")
  /\ compiledflag' = [compiledflag EXCEPT ![a.m] = FALSE]
  /\ Goto(t, "release")
  /\ UNCHANGED <<invoker, code, linked, direct, infoVars, monitor, global,
                 contextVars, vmVars>>

-----------------------------------------------------------------------------
(* compileAndInvokeMethod() - invoker.c                                    *)

AtLeast(n, m) == IF n < Threshold[m] THEN n ELSE Threshold[m]

\* A thread invokes a method whose invoker is compileAndInvokeMethod().
Invoke(t, m) ==
  /\ At(t, "idle") /\ calls[t] > 0
  /\ invoker[m] = "candi"
  /\ Call(t, NoActivation, Start("count", m, STAGE_START))
  /\ calls' = [calls EXCEPT ![t] = @ - 1]
  /\ UNCHANGED <<methodVars, monitor, global, contextVars, enabled>>

\* Under info->monitor: count the invocation and decide whether to compile.
\* The method being compiled is to be interpreted.
CountInvocation(t) ==
  LET a == Top(t)
      n == AtLeast(count[a.m] + 1, a.m) IN
  /\ At(t, "count")
  /\ MonitorFree(t, a.m)
  /\ count' = [count EXCEPT ![a.m] = n]
  /\ \/ /\ invoker[a.m] = "jit"
        /\ Goto(t, "call")
        /\ UNCHANGED invoker
     \/ /\ invoker[a.m] # "jit"
        /\ invoker[a.m] # "candi" \/ ~ enabled \/ n < Threshold[a.m]
        /\ Return(t, TRUE)
        /\ UNCHANGED invoker
     \/ /\ invoker[a.m] = "candi" /\ enabled /\ n >= Threshold[a.m]
        /\ invoker' = [invoker EXCEPT ![a.m] = "interp"]
        /\ Call(t, [a EXCEPT !.pc = "compiling"], Start("check", a.m, STAGE_DONE))
  /\ UNCHANGED <<codeVars, info, infocc, inlineability, throwtable, monitor,
                 global, contextVars, vmVars>>

\* compilation_done: call mb->invoker.
CallInvoker(t) ==
  /\ At(t, "call")
  /\ Return(t, TRUE)
  /\ UNCHANGED <<methodVars, monitor, global, contextVars, vmVars>>

\* Compilation failed: the method is interpreted from now on.
GiveUp(t) ==
  /\ At(t, "failed")
  /\ invoker' = [invoker EXCEPT ![Top(t).m] = "interp"]
  /\ Return(t, TRUE)
  /\ UNCHANGED <<codeVars, infoVars, monitor, global, contextVars, vmVars>>

-----------------------------------------------------------------------------
(* The entry points of the class library - compiler.c                      *)

compilerEnable(t) ==
  /\ At(t, "idle") /\ calls[t] > 0
  /\ ~ enabled /\ enabled' = TRUE
  /\ calls' = [calls EXCEPT ![t] = @ - 1]
  /\ UNCHANGED <<methodVars, monitor, global, contextVars, threadVars>>

compilerDisable(t) ==
  /\ At(t, "idle") /\ calls[t] > 0
  /\ enabled /\ enabled' = FALSE
  /\ calls' = [calls EXCEPT ![t] = @ - 1]
  /\ UNCHANGED <<methodVars, monitor, global, contextVars, threadVars>>

\* A thread enters a loop over the methods of the class.
EnterClassLoop(t, pc) ==
  /\ At(t, "idle") /\ calls[t] > 0
  /\ Call(t, NoActivation, Start(pc, Null, STAGE_START))
  /\ calls' = [calls EXCEPT ![t] = @ - 1]
  /\ UNCHANGED <<methodVars, monitor, global, contextVars, enabled>>

compileClass(t) == enabled /\ EnterClassLoop(t, "class")

initializeClassForJIT(t) == EnterClassLoop(t, "hook")

\* compileClass(): the next method is prepared if need be, and compiled.
CompileNext(t) ==
  LET a == Top(t)
      m == ClassMethods[a.i] IN
  /\ At(t, "class")
  /\ \/ /\ a.i > Len(ClassMethods)
        /\ Return(t, TRUE)
     \/ /\ a.i <= Len(ClassMethods)
        /\ info[m] = "none"
        /\ Call(t, a, Start("publish", m, STAGE_START))
     \/ /\ a.i <= Len(ClassMethods)
        /\ info[m] # "none"
        /\ Call(t, [a EXCEPT !.i = @ + 1], Start("check", m, STAGE_DONE))
  /\ UNCHANGED <<methodVars, monitor, global, contextVars, vmVars>>

\* initializeClassForJIT(): prepare the next method, ...
HookNext(t) ==
  LET a == Top(t) IN
  /\ At(t, "hook")
  /\ \/ /\ a.i > Len(ClassMethods)
        /\ Return(t, TRUE)
     \/ /\ a.i <= Len(ClassMethods)
        /\ Call(t, [a EXCEPT !.pc = "hooktest"],
                Start("publish", ClassMethods[a.i], STAGE_START))
  /\ UNCHANGED <<methodVars, monitor, global, contextVars, vmVars>>

\* ... see that it is not compiled yet, ...
HookTest(t) ==
  LET a == Top(t) IN
  /\ At(t, "hooktest")
  /\ \/ /\ code[ClassMethods[a.i]] = Null
        /\ Goto(t, "hookset")
     \/ /\ code[ClassMethods[a.i]] # Null
        /\ Set(t, [a EXCEPT !.pc = "hook", !.i = @ + 1])
  /\ UNCHANGED <<methodVars, monitor, global, contextVars, vmVars>>

\* ... and have it compiled when it is invoked.
HookSet(t) ==
  LET a == Top(t) IN
  /\ At(t, "hookset")
  /\ invoker' = [invoker EXCEPT ![ClassMethods[a.i]] = "candi"]
  /\ Set(t, [a EXCEPT !.pc = "hook", !.i = @ + 1])
  /\ UNCHANGED <<codeVars, infoVars, monitor, global, contextVars, vmVars>>

-----------------------------------------------------------------------------
Init ==
  /\ invoker = [m \in Method |-> IF m \in Loaded THEN "candi" ELSE "interp"]
  /\ code = [m \in Method |-> Null]
  /\ linked = [m \in Method |-> FALSE]
  /\ compiledflag = [m \in Method |-> FALSE]
  /\ direct = {}
  /\ info = [m \in Method |-> IF m \in Loaded THEN "ready" ELSE "none"]
  /\ infocc = [m \in Method |-> Null]
  /\ inlineability = [m \in Method |-> "unknown"]
  /\ count = [m \in Method |-> 0]
  /\ throwtable = [m \in Method |-> <<>>]
  /\ monitor = [m \in Method |-> {}]
  /\ global = Null
  /\ ctx = [c \in Context |-> FreshContext(Null)]
  /\ pool = Null
  /\ enabled = TRUE
  /\ stack = [t \in Thread |-> [i \in 0 .. MaxDepth |-> NoActivation]]
  /\ depth = [t \in Thread |-> 0]
  /\ calls = [t \in Thread |-> MaxCalls]

\* A thread outside the compiler calls it.
Enters(t) ==
  \/ \E m \in Method : Invoke(t, m)
  \/ compilerEnable(t) \/ compilerDisable(t)
  \/ compileClass(t) \/ initializeClassForJIT(t)

\* A thread inside the compiler goes on.
Runs(t) ==
  \/ Publish(t) \/ InitInfo(t)
  \/ Lookup(t) \/ Get(t) \/ Pop(t) \/ Reset(t) \/ Ref(t)
  \/ Unref(t) \/ Unlink(t) \/ Link(t) \/ Push(t)
  \/ Check(t) \/ StageCheck(t) \/ Enter(t)
  \/ FrontFails(t) \/ Front(t) \/ Preserve(t) \/ Internal(t)
  \/ InlineScan(t) \/ InlineSite(t) \/ InlinePassEnd(t)
  \/ EagerScan(t) \/ EagerSite(t) \/ EagerEnd(t)
  \/ WriteFails(t) \/ Write(t)
  \/ Static(t) \/ Install(t) \/ Finish(t) \/ Exit(t)
  \/ Fail(t) \/ ClearFlag(t)
  \/ CountInvocation(t) \/ CallInvoker(t) \/ GiveUp(t)
  \/ CompileNext(t) \/ HookNext(t) \/ HookTest(t) \/ HookSet(t)

\* Nobody is in the compiler; the program may go on without it for ever.
Quiet ==
  /\ \A t \in Thread : At(t, "idle")
  /\ UNCHANGED vars

Next == Quiet \/ \E t \in Thread : Enters(t) \/ Runs(t)

Spec == Init /\ [][Next]_vars

\* Every thread inside the compiler keeps running unless it waits for a monitor.
FairSpec == Spec /\ \A t \in Thread : WF_vars(Runs(t))

-----------------------------------------------------------------------------
(* Properties.                                                             *)

\* Every variable keeps the type its C declaration and its use in compile.c,
\* computil.c and invoker.c give it.
TypeOK ==
  /\ invoker \in [Method -> {"interp", "candi", "jit"}]
  /\ code \in [Method -> Method \cup {Null, Junk}]
  /\ linked \in [Method -> BOOLEAN]
  /\ compiledflag \in [Method -> BOOLEAN]
  /\ direct \subseteq Method
  /\ info \in [Method -> {"none", "published", "ready"}]
  /\ infocc \in [Method -> Context \cup {Null}]
  /\ inlineability \in [Method -> {"unknown", "dont", "bare", "may"}]
  /\ count \in [Method -> Nat]
  /\ throwtable \in [Method -> Seq({"part", "whole"})]
  /\ monitor \in [Method -> SUBSET (Thread \X (0 .. MaxDepth))]
  /\ global \in Thread \cup {Null}
  /\ ctx \in [Context -> [mb : Method \cup {Null}, ref : Int, stage : Stage,
                         next : Context \cup {Null},
                         body : Method \cup {Null, Junk}, sites : Seq(Method)]]
  /\ pool \in Context \cup {Null}
  /\ enabled \in BOOLEAN
  /\ stack \in [Thread -> [0 .. MaxDepth -> Activation]]
  /\ depth \in [Thread -> 0 .. MaxDepth]
  /\ calls \in [Thread -> Nat]

\* Activation a is inside info->monitor of its method.
Inside(a) ==
  \/ a.pc \in Getting \cup Body
  \/ a.pc \in Releasing /\ a.ok

\* Thread t is at depth i between the lock and the unlock of compileMethod(m).
InBody(t, i, m) ==
  /\ i <= depth[t]
  /\ stack[t][i].m = m
  /\ Inside(stack[t][i])
  /\ stack[t][i].pc \notin Getting

\* Thread t holds at depth i a reference to a context.
Uses(t, i) ==
  /\ i <= depth[t]
  /\ stack[t][i].pc \in (Body \ {"exit"})
                        \cup {"stagecheck", "enter", "clearflag", "release"}

\* The contexts in the list that starts at cc_pool: those in every set that holds
\* its head and, with a context, the next one.
Pooled ==
  {c \in Context :
     \A S \in SUBSET Context :
       /\ pool # Null => pool \in S
       /\ \A d \in S : ctx[d].next # Null => ctx[d].next \in S
       => c \in S}

\* info->monitor is entered and left in pairs on every path through
\* getCompilerContext() and compileMethod(), the failing ones too: it is held by
\* exactly the activations that are inside it, all of one thread.
LockDiscipline ==
  /\ \A m \in Method, t \in Thread, i \in 0 .. MaxDepth :
       <<t, i>> \in monitor[m]
         <=> i <= depth[t] /\ stack[t][i].m = m /\ Inside(stack[t][i])
  /\ \A m \in Method : \A h, k \in monitor[m] : h[1] = k[1]

\* Two threads are never in the locked part of compileMethod() for the same
\* method, whichever contexts they were given (SYS_MONITOR_ENTER in compile.c).
BodyExclusion ==
  \A m \in Method, t, u \in Thread, i, j \in 0 .. MaxDepth :
    InBody(t, i, m) /\ InBody(u, j, m) => t = u

\* A thread that compiles a method never starts compiling it again below
\* itself, through inlining or eager compilation of (mutually) recursive
\* methods ("prevent self compilation", optimize.c).
NoSelfCompilation ==
  \A m \in Method, t \in Thread, i, j \in 0 .. MaxDepth :
    InBody(t, i, m) /\ InBody(t, j, m) => i = j

\* The code a compiled method runs was generated from its own bytecode, once
\* and into a clean table and buffer.  compileMethod() cleans neither when it
\* fails, hence the exception of methods that may.
OwnCode ==
  \A m \in Method : invoker[m] = "jit" => code[m] = m \/ m \in MayFail

\* Compiled code that calls a method directly, because ACC_MACHINE_COMPILED is
\* set or by invoke_core_compiled, finds complete code: its constants and
\* function symbols are resolved.
DirectCallSafe ==
  \A m \in Method :
    compiledflag[m] \/ m \in direct
      => code[m] # Null /\ linked[m] /\ (code[m] = m \/ m \in MayFail)

\* The throw table throwtableGet() searches by bisection holds one pass of
\* writeCode() that went through, the last, however often the method was
\* attempted.  A failed compilation leaves what it appended in front of it, and
\* only that can break the order of the table.
OneWholePass(passes) ==
  /\ passes # <<>>
  /\ \A k \in 1 .. Len(passes) : passes[k] = "whole" <=> k = Len(passes)

ThrowTableComplete ==
  \A m \in Method :
    invoker[m] = "jit"
      => OneWholePass(throwtable[m]) /\ (Len(throwtable[m]) = 1 \/ m \in MayFail)

\* All threads that compile a method work on one context for it, and a context
\* is never used for two methods at a time.
OneContextPerMethod ==
  \A t, u \in Thread, i, j \in 0 .. MaxDepth :
    Uses(t, i) /\ Uses(u, j)
      => (stack[t][i].m = stack[u][j].m <=> stack[t][i].cc = stack[u][j].cc)

\* A context goes back to the pool only when no thread uses it: the reference
\* count is at least the number of its users, and a pooled context has none.
NoEarlyRelease ==
  \A c \in Context :
    LET users == {h \in Thread \X (0 .. MaxDepth) :
                     Uses(h[1], h[2]) /\ stack[h[1]][h[2]].cc = c}
    IN  /\ Cardinality(users) <= ctx[c].ref
        /\ c \in Pooled => users = {}

\* Every call into the compiler returns: threads that compile methods which call
\* each other, holding one info->monitor while waiting for another, never block
\* each other for ever.
Terminates == \A t \in Thread : depth[t] > 0 ~> depth[t] = 0
=============================================================================
