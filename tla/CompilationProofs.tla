------------------------- MODULE CompilationProofs -------------------------
(***************************************************************************)
(* Compilation: the type invariant, the pairing of monitor operations and  *)
(* the exclusion of compileMethod() bodies, for any threads, methods, call *)
(* graph and bounds.  Then, for a thread that is the only one to use the   *)
(* compiler: the compilations nest, each method is compiled once, from a   *)
(* context of its own, into code of its own.                               *)
(***************************************************************************)
EXTENDS Compilation, FiniteSetTheorems, TLAPS

ContextType == [mb : Method \cup {Null}, ref : Int, stage : Stage,
                next : Context \cup {Null},
                body : Method \cup {Null, Junk}, sites : Seq(Method)]

\* pcs at which an activation holds a context
HasContext == Body \cup Releasing \cup {"pop", "reset", "ref", "stagecheck", "enter"}

\* pcs of the activations that work on no particular method
NoMethod == {"idle", "class", "hook", "hooktest", "hookset"}

\* The fields of an activation are what its pc needs, the contexts being cx.
Formed(a, cx) ==
  /\ a.pc \notin NoMethod => a.m \in Method
  /\ a.pc \in HasContext => a.cc \in Context
  /\ a.pc \in HasContext \ {"pop", "reset"} => cx[a.cc].mb \in Method
  /\ a.pc \in {"inlined", "eagered"} => a.g \in Method
  /\ a.pc \notin Releasing => a.ok

\* What holds of the stacks alone ...
StackOK ==
  /\ stack \in [Thread -> [0 .. MaxDepth -> Activation]]
  /\ depth \in [Thread -> 0 .. MaxDepth]
  /\ \A t \in Thread, i \in 0 .. MaxDepth :
       /\ Formed(stack[t][i], ctx)
       /\ i <= depth[t] => (stack[t][i].pc = "idle" <=> i = 0)

\* ... and of everything else but the monitors.
MethodOK ==
  /\ invoker \in [Method -> {"interp", "candi", "jit"}]
  /\ code \in [Method -> Method \cup {Null, Junk}]
  /\ linked \in [Method -> BOOLEAN]
  /\ compiledflag \in [Method -> BOOLEAN]
  /\ direct \subseteq Method
  /\ info \in [Method -> {"none", "published", "ready"}]
  /\ infocc \in [Method -> Context \cup {Null}]
  /\ inlineability \in [Method -> {"unknown", "dont", "bare", "may"}]
  /\ count \in [Method -> Nat]
  /\ throwtable \in [Method -> Seq({"part", "whole"})]
  /\ global \in Thread \cup {Null}
  /\ ctx \in [Context -> ContextType]
  /\ pool \in Context \cup {Null}
  /\ enabled \in BOOLEAN
  /\ calls \in [Thread -> Nat]
  /\ \A m \in Method : infocc[m] # Null => ctx[infocc[m]].mb \in Method

MonitorOK ==
  /\ monitor \in [Method -> SUBSET (Thread \X (0 .. MaxDepth))]
  /\ LockDiscipline

IInv == StackOK /\ MethodOK /\ MonitorOK

\* A context that was given to a method stays one of a method.
ContextsKept == \A c \in Context : ctx[c].mb \in Method => ctx'[c].mb \in Method

-----------------------------------------------------------------------------
(* What the moves of a thread preserve.                                    *)

LEMMA TopType ==
  ASSUME StackOK, NEW t \in Thread
  PROVE  Top(t) \in Activation /\ Formed(Top(t), ctx) /\ depth[t] \in 0 .. MaxDepth
         /\ (Top(t).pc = "idle" <=> depth[t] = 0)
  BY BoundAssumption DEF StackOK, Top

LEMMA SetStack ==
  ASSUME StackOK, NEW t \in Thread, NEW b \in Activation, Set(t, b), ContextsKept,
         Formed(b, ctx'), b.pc # "idle", Top(t).pc # "idle"
  PROVE  StackOK'
<1>1. depth[t] \in 0 .. MaxDepth /\ depth[t] # 0
  BY TopType
<1>2. /\ stack' \in [Thread -> [0 .. MaxDepth -> Activation]]
      /\ depth' \in [Thread -> 0 .. MaxDepth]
  BY <1>1 DEF StackOK, Set
<1>3. ASSUME NEW u \in Thread, NEW i \in 0 .. MaxDepth
      PROVE  /\ Formed(stack'[u][i], ctx')
             /\ i <= depth'[u] => (stack'[u][i].pc = "idle" <=> i = 0)
  <2>1. CASE u = t /\ i = depth[t]
    <3>1. stack'[u][i] = b
      BY <1>1, <2>1 DEF StackOK, Set
    <3> QED BY <1>1, <2>1, <3>1
  <2>2. CASE ~ (u = t /\ i = depth[t])
    <3>1. stack'[u][i] = stack[u][i] /\ depth'[u] = depth[u]
      BY <1>1, <2>2 DEF StackOK, Set
    <3>2. Formed(stack[u][i], ctx)
      BY DEF StackOK
    <3>3. Formed(stack[u][i], ctx')
      BY <3>2 DEF Formed, ContextsKept
    <3> QED BY <3>1, <3>3 DEF StackOK
  <2> QED BY <2>1, <2>2
<1> QED BY <1>2, <1>3 DEF StackOK

LEMMA CallStack ==
  ASSUME StackOK, NEW t \in Thread, NEW a \in Activation, NEW b \in Activation,
         Call(t, a, b), ContextsKept, Formed(a, ctx'), Formed(b, ctx'),
         a.pc = "idle" <=> Top(t).pc = "idle", b.pc # "idle"
  PROVE  StackOK'
<1>1. depth[t] \in 0 .. MaxDepth /\ (Top(t).pc = "idle" <=> depth[t] = 0)
  BY TopType
<1>2. depth[t] + 1 \in 0 .. MaxDepth /\ depth[t] + 1 # depth[t]
  BY <1>1, BoundAssumption DEF Call
<1>3. /\ stack' \in [Thread -> [0 .. MaxDepth -> Activation]]
      /\ depth' \in [Thread -> 0 .. MaxDepth]
  BY <1>1, <1>2 DEF StackOK, Call
<1>4. ASSUME NEW u \in Thread, NEW i \in 0 .. MaxDepth
      PROVE  /\ Formed(stack'[u][i], ctx')
             /\ i <= depth'[u] => (stack'[u][i].pc = "idle" <=> i = 0)
  <2>1. CASE u = t /\ i = depth[t]
    <3>1. stack'[u][i] = a
      BY <1>1, <1>2, <2>1 DEF StackOK, Call
    <3> QED BY <1>1, <2>1, <3>1
  <2>2. CASE u = t /\ i = depth[t] + 1
    <3>1. stack'[u][i] = b
      BY <1>1, <1>2, <2>2 DEF StackOK, Call
    <3> QED BY <1>1, <2>2, <3>1
  <2>3. CASE ~ (u = t /\ i \in {depth[t], depth[t] + 1})
    <3>1. /\ stack'[u][i] = stack[u][i]
          /\ i <= depth'[u] => i <= depth[u]
      <4>1. CASE u # t
        BY <4>1 DEF StackOK, Call
      <4>2. CASE u = t
        <5>1. depth'[t] = depth[t] + 1
          BY DEF StackOK, Call
        <5>2. stack'[t][i] = stack[t][i]
          BY <1>1, <1>2, <2>3, <4>2 DEF StackOK, Call
        <5> QED BY <1>1, <2>3, <4>2, <5>1, <5>2
      <4> QED BY <4>1, <4>2
    <3>2. Formed(stack[u][i], ctx)
      BY DEF StackOK
    <3>3. Formed(stack[u][i], ctx')
      BY <3>2 DEF Formed, ContextsKept
    <3> QED BY <3>1, <3>3 DEF StackOK
  <2> QED BY <2>1, <2>2, <2>3
<1> QED BY <1>3, <1>4 DEF StackOK

LEMMA ResumeKeeps ==
  ASSUME NEW a \in Activation, NEW cx, NEW ok \in BOOLEAN, Formed(a, cx)
  PROVE  /\ Resume(a, ok) \in Activation
         /\ Formed(Resume(a, ok), cx)
         /\ Resume(a, ok).pc = "idle" <=> a.pc = "idle"
         /\ Resume(a, ok).m = a.m
         /\ Inside(Resume(a, ok)) <=> Inside(a)
<1> USE DEF Resume, Activation, PC, Getting, Body, Releasing
<1>1. CASE a.pc # "compiling"
  BY <1>1
<1>2. CASE a.pc = "compiling"
  <2>1. a.ok /\ a.m \in Method
    BY <1>2 DEF Formed, NoMethod
  <2>2. Resume(a, ok) \in Activation /\ Resume(a, ok).pc \in {"call", "failed"}
        /\ Resume(a, ok).m = a.m /\ Resume(a, ok).ok
    BY <1>2, <2>1
  <2> QED BY <1>2, <2>1, <2>2 DEF Formed, HasContext, NoMethod, Inside
<1> QED BY <1>1, <1>2

LEMMA NoActivationFormed ==
  NoActivation \in Activation /\ \A cx : Formed(NoActivation, cx)
  BY DEF NoActivation, Activation, PC, Stage, STAGE_START, STAGE_DONE, Formed,
         NoMethod, HasContext, Body, Releasing

LEMMA ReturnStack ==
  ASSUME StackOK, NEW t \in Thread, NEW ok \in BOOLEAN, Return(t, ok), ContextsKept,
         Top(t).pc # "idle"
  PROVE  StackOK'
<1>1. depth[t] \in 0 .. MaxDepth /\ depth[t] # 0 /\ depth[t] - 1 \in 0 .. MaxDepth
  BY TopType, BoundAssumption
<1>2. ASSUME NEW u \in Thread, NEW i \in 0 .. MaxDepth
      PROVE  stack[u][i] \in Activation /\ Formed(stack[u][i], ctx')
  <2>1. stack[u][i] \in Activation /\ Formed(stack[u][i], ctx)
    BY DEF StackOK
  <2> QED BY <2>1 DEF Formed, ContextsKept
<1>3. ASSUME NEW i \in 0 .. MaxDepth
      PROVE  stack'[t][i] = IF i = depth[t] - 1 THEN Resume(stack[t][i], ok)
                            ELSE IF i = depth[t] THEN NoActivation ELSE stack[t][i]
  BY DEF StackOK, Return
<1>4. ASSUME NEW u \in Thread, NEW i \in 0 .. MaxDepth
      PROVE  /\ stack'[u][i] \in Activation
             /\ Formed(stack'[u][i], ctx')
             /\ i <= depth'[u] => (stack'[u][i].pc = "idle" <=> i = 0)
  <2>1. CASE u # t
    <3>1. stack'[u][i] = stack[u][i] /\ depth'[u] = depth[u]
      BY <2>1 DEF StackOK, Return
    <3> QED BY <3>1, <1>2 DEF StackOK
  <2>2. CASE u = t
    <3>1. depth'[t] = depth[t] - 1
      BY DEF StackOK, Return
    <3>2. CASE i = depth[t] - 1
      BY <1>1, <1>2, <1>3, <2>2, <3>1, <3>2, ResumeKeeps DEF StackOK
    <3>3. CASE i = depth[t]
      BY <1>1, <1>3, <2>2, <3>1, <3>3, NoActivationFormed
    <3>4. CASE i \notin {depth[t] - 1, depth[t]}
      BY <1>1, <1>2, <1>3, <2>2, <3>1, <3>4 DEF StackOK
    <3> QED BY <3>2, <3>3, <3>4
  <2> QED BY <2>1, <2>2
<1>5. stack' \in [Thread -> [0 .. MaxDepth -> Activation]]
  <2>1. stack' = [stack EXCEPT ![t] = stack'[t]]
    BY DEF StackOK, Return
  <2>2. stack'[t] \in [0 .. MaxDepth -> Activation]
    <3>1. stack'[t] = [j \in 0 .. MaxDepth |-> stack'[t][j]]
      BY DEF StackOK, Return
    <3> QED BY <3>1, <1>4
  <2> QED BY <2>1, <2>2 DEF StackOK
<1>6. depth' \in [Thread -> 0 .. MaxDepth]
  BY <1>1 DEF StackOK, Return
<1> QED BY <1>4, <1>5, <1>6 DEF StackOK

-----------------------------------------------------------------------------
(* What they do to the monitors.                                           *)

\* The activations outside the one that moves are as before.
OthersKept(t, d) ==
  \A u \in Thread, i \in 0 .. MaxDepth :
    ~ (u = t /\ i = d) =>
      /\ i <= depth'[u] <=> i <= depth[u]
      /\ stack'[u][i].m = stack[u][i].m
      /\ Inside(stack'[u][i]) <=> Inside(stack[u][i])

LEMMA SetOthers ==
  ASSUME StackOK, NEW t \in Thread, NEW b \in Activation, Set(t, b)
  PROVE  OthersKept(t, depth[t]) /\ stack'[t][depth[t]] = b /\ depth'[t] = depth[t]
<1>1. depth[t] \in 0 .. MaxDepth
  BY TopType
<1>2. ASSUME NEW u \in Thread, NEW i \in 0 .. MaxDepth, ~ (u = t /\ i = depth[t])
      PROVE  stack'[u][i] = stack[u][i] /\ depth'[u] = depth[u]
  BY <1>1, <1>2 DEF StackOK, Set
<1>3. stack'[t][depth[t]] = b /\ depth'[t] = depth[t]
  BY <1>1 DEF StackOK, Set
<1> QED BY <1>2, <1>3 DEF OthersKept

LEMMA SetSame ==
  ASSUME StackOK, MonitorOK, NEW t \in Thread, NEW b \in Activation, Set(t, b),
         b.m = Top(t).m, Inside(b) <=> Inside(Top(t)), monitor' = monitor
  PROVE  MonitorOK'
<1>1. depth[t] \in 0 .. MaxDepth
  BY TopType
<1> QED
  BY <1>1, SetOthers DEF OthersKept, MonitorOK, LockDiscipline, Top

LEMMA SetEnter ==
  ASSUME StackOK, MonitorOK, NEW t \in Thread, NEW b \in Activation, Set(t, b),
         b.m = Top(t).m, Top(t).m \in Method, ~ Inside(Top(t)), Inside(b),
         MonitorEnter(t, Top(t).m)
  PROVE  MonitorOK'
<1>1. depth[t] \in 0 .. MaxDepth
  BY TopType
<1>2. monitor' \in [Method -> SUBSET (Thread \X (0 .. MaxDepth))]
  BY <1>1 DEF MonitorOK, MonitorEnter
<1>3. ASSUME NEW m \in Method, NEW u \in Thread, NEW i \in 0 .. MaxDepth
      PROVE  <<u, i>> \in monitor'[m]
               <=> i <= depth'[u] /\ stack'[u][i].m = m /\ Inside(stack'[u][i])
  <2>1. <<u, i>> \in monitor'[m] <=>
           \/ <<u, i>> \in monitor[m]
           \/ u = t /\ i = depth[t] /\ m = Top(t).m
    BY <1>1 DEF MonitorOK, MonitorEnter
  <2> QED BY <1>1, <2>1, SetOthers DEF OthersKept, MonitorOK, LockDiscipline, Top
<1>4. ASSUME NEW m \in Method, NEW h \in monitor'[m], NEW k \in monitor'[m]
      PROVE  h[1] = k[1]
  BY DEF MonitorOK, LockDiscipline, MonitorEnter, MonitorFree
<1> QED BY <1>2, <1>3, <1>4 DEF MonitorOK, LockDiscipline

LEMMA SetExit ==
  ASSUME StackOK, MonitorOK, NEW t \in Thread, NEW b \in Activation, Set(t, b),
         b.m = Top(t).m, ~ Inside(b), MonitorExit(t, Top(t).m)
  PROVE  MonitorOK'
<1>1. depth[t] \in 0 .. MaxDepth
  BY TopType
<1>2. monitor' \in [Method -> SUBSET (Thread \X (0 .. MaxDepth))]
  BY <1>1 DEF MonitorOK, MonitorExit
<1>3. ASSUME NEW m \in Method, NEW u \in Thread, NEW i \in 0 .. MaxDepth
      PROVE  <<u, i>> \in monitor'[m]
               <=> i <= depth'[u] /\ stack'[u][i].m = m /\ Inside(stack'[u][i])
  <2>1. <<u, i>> \in monitor'[m] <=>
           /\ <<u, i>> \in monitor[m]
           /\ ~ (u = t /\ i = depth[t] /\ m = Top(t).m)
    BY <1>1 DEF MonitorOK, MonitorExit
  <2> QED BY <1>1, <2>1, SetOthers DEF OthersKept, MonitorOK, LockDiscipline, Top
<1>4. ASSUME NEW m \in Method, NEW h \in monitor'[m], NEW k \in monitor'[m]
      PROVE  h[1] = k[1]
  BY DEF MonitorOK, LockDiscipline, MonitorExit
<1> QED BY <1>2, <1>3, <1>4 DEF MonitorOK, LockDiscipline

LEMMA CallSame ==
  ASSUME StackOK, MonitorOK, NEW t \in Thread, NEW a \in Activation,
         NEW b \in Activation, Call(t, a, b), Inside(a) => a.m = Top(t).m,
         Inside(a) <=> Inside(Top(t)), ~ Inside(b), monitor' = monitor
  PROVE  MonitorOK'
<1>1. depth[t] \in 0 .. MaxDepth
  BY TopType
<1>2. depth[t] + 1 \in 0 .. MaxDepth /\ depth[t] + 1 # depth[t]
  BY <1>1, BoundAssumption DEF Call
<1>3. ASSUME NEW m \in Method, NEW u \in Thread, NEW i \in 0 .. MaxDepth
      PROVE  <<u, i>> \in monitor[m]
               <=> i <= depth'[u] /\ stack'[u][i].m = m /\ Inside(stack'[u][i])
  <2>0. <<u, i>> \in monitor[m]
          <=> i <= depth[u] /\ stack[u][i].m = m /\ Inside(stack[u][i])
    BY DEF MonitorOK, LockDiscipline
  <2>1. CASE u # t
    <3>1. stack'[u] = stack[u] /\ depth'[u] = depth[u]
      BY <2>1 DEF StackOK, Call
    <3> QED BY <2>0, <3>1
  <2>2. CASE u = t
    <3>1. depth'[t] = depth[t] + 1
      BY DEF StackOK, Call
    <3>2. CASE i = depth[t]
      <4>1. stack'[t][i] = a
        BY <1>1, <1>2, <3>2 DEF StackOK, Call
      <4> QED BY <1>1, <2>0, <2>2, <3>1, <3>2, <4>1 DEF Top
    <3>3. CASE i = depth[t] + 1
      <4>1. stack'[t][i] = b
        BY <1>1, <1>2, <3>3 DEF StackOK, Call
      <4> QED BY <1>1, <2>0, <2>2, <3>1, <3>3, <4>1
    <3>4. CASE i \notin {depth[t], depth[t] + 1}
      <4>1. stack'[t][i] = stack[t][i]
        BY <1>1, <1>2, <3>4 DEF StackOK, Call
      <4> QED BY <1>1, <2>0, <2>2, <3>1, <3>4, <4>1
    <3> QED BY <3>2, <3>3, <3>4
  <2> QED BY <2>1, <2>2
<1> QED BY <1>3 DEF MonitorOK, LockDiscipline

LEMMA ReturnTop ==
  ASSUME StackOK, NEW t \in Thread, NEW ok \in BOOLEAN, Return(t, ok),
         Top(t).pc # "idle", NEW u \in Thread, NEW i \in 0 .. MaxDepth
  PROVE  /\ ~ (u = t /\ i = depth[t]) =>
              /\ i <= depth'[u] <=> i <= depth[u]
              /\ stack'[u][i].m = stack[u][i].m
              /\ Inside(stack'[u][i]) <=> Inside(stack[u][i])
         /\ u = t /\ i = depth[t] => ~ (i <= depth'[u])
<1>1. depth[t] \in 0 .. MaxDepth /\ depth[t] # 0
  BY TopType
<1>2. stack[u][i] \in Activation /\ Formed(stack[u][i], ctx)
  BY DEF StackOK
<1>3. CASE u # t
  <2>1. stack'[u] = stack[u] /\ depth'[u] = depth[u]
    BY <1>3 DEF StackOK, Return
  <2> QED BY <1>3, <2>1
<1>4. CASE u = t
  <2>1. depth'[t] = depth[t] - 1
    BY DEF StackOK, Return
  <2>2. stack'[t][i] = IF i = depth[t] - 1 THEN Resume(stack[t][i], ok)
                       ELSE IF i = depth[t] THEN NoActivation ELSE stack[t][i]
    BY DEF StackOK, Return
  <2>3. /\ Resume(stack[t][i], ok).m = stack[t][i].m
        /\ Inside(Resume(stack[t][i], ok)) <=> Inside(stack[t][i])
    BY <1>2, <1>4, ResumeKeeps
  <2> QED BY <1>1, <1>4, <2>1, <2>2, <2>3
<1> QED BY <1>3, <1>4

LEMMA ReturnSame ==
  ASSUME StackOK, MonitorOK, NEW t \in Thread, NEW ok \in BOOLEAN, Return(t, ok),
         Top(t).pc # "idle", ~ Inside(Top(t)), monitor' = monitor
  PROVE  MonitorOK'
  BY ReturnTop DEF MonitorOK, LockDiscipline, Top

LEMMA ReturnExit ==
  ASSUME StackOK, MonitorOK, NEW t \in Thread, NEW ok \in BOOLEAN, Return(t, ok),
         Top(t).pc # "idle", MonitorExit(t, Top(t).m)
  PROVE  MonitorOK'
<1>1. depth[t] \in 0 .. MaxDepth
  BY TopType
<1>2. monitor' \in [Method -> SUBSET (Thread \X (0 .. MaxDepth))]
  BY <1>1 DEF MonitorOK, MonitorExit
<1>3. ASSUME NEW m \in Method, NEW u \in Thread, NEW i \in 0 .. MaxDepth
      PROVE  <<u, i>> \in monitor'[m]
               <=> i <= depth'[u] /\ stack'[u][i].m = m /\ Inside(stack'[u][i])
  <2>1. <<u, i>> \in monitor'[m] <=>
           /\ <<u, i>> \in monitor[m]
           /\ ~ (u = t /\ i = depth[t] /\ m = Top(t).m)
    BY <1>1 DEF MonitorOK, MonitorExit
  <2> QED BY <1>1, <2>1, ReturnTop DEF MonitorOK, LockDiscipline, Top
<1>4. ASSUME NEW m \in Method, NEW h \in monitor'[m], NEW k \in monitor'[m]
      PROVE  h[1] = k[1]
  BY DEF MonitorOK, LockDiscipline, MonitorExit
<1> QED BY <1>2, <1>3, <1>4 DEF MonitorOK, LockDiscipline

-----------------------------------------------------------------------------
(* The moves, for the whole invariant.                                     *)

LEMMA SetStep ==
  ASSUME IInv, NEW t \in Thread, NEW b \in Activation, Set(t, b), MethodOK',
         ContextsKept, Formed(b, ctx'), b.pc # "idle", Top(t).pc # "idle",
         b.m = Top(t).m, Inside(b) <=> Inside(Top(t)), monitor' = monitor
  PROVE  IInv'
  BY SetStack, SetSame DEF IInv

LEMMA CallStep ==
  ASSUME IInv, NEW t \in Thread, NEW a \in Activation, NEW b \in Activation,
         Call(t, a, b), MethodOK', ContextsKept, Formed(a, ctx'), Formed(b, ctx'),
         a.pc = "idle" <=> Top(t).pc = "idle", b.pc # "idle",
         a.m = Top(t).m, Inside(a) <=> Inside(Top(t)), ~ Inside(b),
         monitor' = monitor
  PROVE  IInv'
  BY CallStack, CallSame DEF IInv

LEMMA ReturnStep ==
  ASSUME IInv, NEW t \in Thread, NEW ok \in BOOLEAN, Return(t, ok), MethodOK',
         ContextsKept, Top(t).pc # "idle", ~ Inside(Top(t)), monitor' = monitor
  PROVE  IInv'
  BY ReturnStack, ReturnSame DEF IInv

\* The moves by Goto() between pcs that need the same fields.
LEMMA GotoStep ==
  ASSUME IInv, NEW t \in Thread, NEW pc \in PC \ NoMethod, Goto(t, pc), MethodOK',
         ContextsKept, Top(t).pc \notin NoMethod,
         pc \in HasContext => Top(t).pc \in HasContext \ {"pop", "reset"},
         pc \notin {"inlined", "eagered"},
         pc \in Releasing \/ Top(t).ok,
         Inside([Top(t) EXCEPT !.pc = pc]) <=> Inside(Top(t)), monitor' = monitor
  PROVE  IInv'
<1> DEFINE b == [Top(t) EXCEPT !.pc = pc]
<1>1. Top(t) \in Activation /\ Formed(Top(t), ctx)
  BY TopType DEF IInv
<1>2. /\ b \in Activation /\ b.pc = pc
      /\ b.m = Top(t).m /\ b.cc = Top(t).cc /\ b.ok = Top(t).ok
  BY <1>1 DEF Activation
<1>3. Formed(b, ctx')
  BY <1>1, <1>2 DEF Formed, ContextsKept
<1>4. Set(t, b)
  BY DEF Goto
<1> HIDE DEF b
<1>5. Inside(b) <=> Inside(Top(t))
  BY DEF b
<1> QED BY <1>2, <1>3, <1>4, <1>5, SetStep DEF NoMethod

LEMMA StartType ==
  ASSUME NEW m \in Method, NEW pc \in {"publish", "check", "count"},
         NEW target \in Stage, NEW cx
  PROVE  /\ Start(pc, m, target) \in Activation
         /\ Start(pc, m, target).pc = pc
         /\ Formed(Start(pc, m, target), cx)
         /\ ~ Inside(Start(pc, m, target))
<1> DEFINE a == Start(pc, m, target)
<1>1. a = [pc |-> pc, m |-> m, target |-> target, cc |-> Null, g |-> Null, i |-> 1,
           pass |-> 1, inlined |-> FALSE, ok |-> TRUE]
  <2>1. Start(pc, m, target) = [[[NoActivation EXCEPT !.pc = pc] EXCEPT !.m = m]
                                  EXCEPT !.target = target]
    BY DEF Start
  <2> QED BY <2>1 DEF NoActivation
<1>2. pc \in PC
  BY DEF PC
<1>3. a \in Activation /\ a.pc = pc /\ a.m = m /\ a.ok
  BY <1>1, <1>2 DEF Activation
<1> HIDE DEF a
<1>4. Formed(a, cx) /\ ~ Inside(a)
  BY <1>3 DEF Formed, NoMethod, HasContext, Body, Releasing, Getting, Inside
<1> QED BY <1>3, <1>4 DEF a

LEMMA FreshType ==
  ASSUME NEW m \in Method
  PROVE  FreshContext(m) \in ContextType /\ FreshContext(m).mb = m
<1>1. << >> \in Seq(Method) /\ STAGE_START \in Stage
  BY DEF Stage, STAGE_START, STAGE_DONE
<1> QED BY <1>1 DEF FreshContext, ContextType

-----------------------------------------------------------------------------
(* prepareCompiledCodeInfo() and getCompilerContext()                      *)

LEMMA PublishStep ==
  ASSUME IInv, NEW t \in Thread, Publish(t)
  PROVE  IInv'
<1> USE DEF Publish, At
<1>1. Top(t) \in Activation /\ Formed(Top(t), ctx) /\ Top(t).m \in Method
  BY TopType DEF IInv, Formed, NoMethod
<1>2. MethodOK' /\ ContextsKept /\ monitor' = monitor
  BY <1>1 DEF IInv, MethodOK, ContextsKept, codeVars, contextVars, vmVars
<1>3. ~ Inside(Top(t)) /\ ~ Inside([Top(t) EXCEPT !.pc = "initinfo"])
  BY <1>1 DEF Inside, Getting, Body, Releasing, Activation
<1>4. CASE Return(t, TRUE)
  BY <1>2, <1>3, <1>4, ReturnStep
<1>5. CASE Goto(t, "initinfo")
  <2>1. Top(t).ok
    BY <1>1 DEF Formed, Releasing
  <2> QED BY <1>2, <1>3, <1>5, <2>1, GotoStep DEF PC, NoMethod, HasContext, Body, Releasing
<1> QED BY <1>4, <1>5

LEMMA InitInfoStep ==
  ASSUME IInv, NEW t \in Thread, InitInfo(t)
  PROVE  IInv'
<1> USE DEF InitInfo, At
<1>1. Top(t) \in Activation /\ Formed(Top(t), ctx) /\ Top(t).m \in Method
  BY TopType DEF IInv, Formed, NoMethod
<1>2. MethodOK' /\ ContextsKept /\ monitor' = monitor
  BY <1>1, NullAssumption DEF IInv, MethodOK, ContextsKept, codeVars, contextVars, vmVars
<1>3. ~ Inside(Top(t))
  BY <1>1 DEF Inside, Getting, Body, Releasing
<1> QED BY <1>2, <1>3, ReturnStep

LEMMA LookupStep ==
  ASSUME IInv, NEW t \in Thread, Lookup(t)
  PROVE  IInv'
<1> USE DEF Lookup, At
<1>1. Top(t) \in Activation /\ Formed(Top(t), ctx) /\ Top(t).m \in Method
  BY TopType DEF IInv, Formed, NoMethod
<1> DEFINE b == [Top(t) EXCEPT !.pc = "get"]
<1>2. MethodOK' /\ ContextsKept
  BY <1>1 DEF IInv, MethodOK, ContextsKept, methodVars, codeVars, infoVars, contextVars, vmVars
<1>3. b \in Activation /\ Formed(b, ctx') /\ b.m = Top(t).m /\ b.pc = "get"
  BY <1>1 DEF Activation, PC, Getting, Formed, NoMethod, HasContext, Body, Releasing
<1>4. Inside(b) /\ ~ Inside(Top(t))
  BY <1>3 DEF Inside, Getting, Body, Releasing
<1>5. Set(t, b) /\ MonitorEnter(t, Top(t).m)
  BY DEF Goto
<1> HIDE DEF b
<1>6. StackOK'
  BY <1>2, <1>3, <1>5, SetStack DEF IInv
<1>7. MonitorOK'
  BY <1>1, <1>3, <1>4, <1>5, SetEnter DEF IInv
<1> QED BY <1>2, <1>6, <1>7 DEF IInv

LEMMA GetStep ==
  ASSUME IInv, NEW t \in Thread, Get(t)
  PROVE  IInv'
<1> USE DEF Get, At
<1> DEFINE b(pc, c) == [Top(t) EXCEPT !.pc = pc, !.cc = c]
<1>1. /\ Top(t) \in Activation /\ Formed(Top(t), ctx) /\ Top(t).m \in Method
      /\ Top(t).pc = "get" /\ Top(t).ok /\ Inside(Top(t)) /\ monitor' = monitor
  BY TopType DEF IInv, Formed, NoMethod, Releasing, Inside, Getting
<1>2. ASSUME NEW pc \in {"pop", "ref"}, NEW c \in Context
      PROVE  /\ b(pc, c) \in Activation /\ b(pc, c).pc = pc /\ b(pc, c).cc = c
             /\ b(pc, c).m = Top(t).m /\ b(pc, c).ok /\ Inside(b(pc, c))
  BY <1>1 DEF Activation, PC, Getting, Inside
<1>3. ASSUME NEW pc \in {"pop", "ref"}, NEW c \in Context, Set(t, b(pc, c)),
             MethodOK', ContextsKept, pc = "ref" => ctx'[c].mb \in Method
      PROVE  IInv'
  <2> HIDE DEF b, Get, At
  <2>a. /\ b(pc, c).pc \in {"pop", "ref"} /\ b(pc, c).cc \in Context
        /\ b(pc, c).m \in Method /\ b(pc, c).ok
        /\ b(pc, c).pc = "ref" => ctx'[b(pc, c).cc].mb \in Method
    BY <1>1, <1>2, <1>3
  <2>1. Formed(b(pc, c), ctx')
    BY <2>a DEF Formed, NoMethod, HasContext, Releasing, Body
  <2> QED BY <1>1, <1>2, <1>3, <2>1, SetStep
<1>4. CASE infocc' = infocc /\ ctx' = ctx
  <2>1. MethodOK' /\ ContextsKept
    BY <1>4 DEF IInv, MethodOK, ContextsKept, codeVars, vmVars
  <2>2. CASE infocc[Top(t).m] # Null /\ Set(t, b("ref", infocc[Top(t).m]))
    <3>1. infocc[Top(t).m] \in Context /\ ctx[infocc[Top(t).m]].mb \in Method
      BY <1>1, <2>2 DEF IInv, MethodOK
    <3> QED BY <1>3, <1>4, <2>1, <2>2, <3>1
  <2>3. CASE pool # Null /\ Set(t, b("pop", pool))
    <3>1. pool \in Context
      BY <2>3 DEF IInv, MethodOK
    <3> QED BY <1>3, <2>1, <2>3, <3>1
  <2>4. CASE pool = Null /\ \E c \in Context :
               ~ Allocated(c) /\ ctx' = [ctx EXCEPT ![c] = FreshContext(Top(t).m)]
    <3>1. PICK c \in Context :
            ctx[c].mb = Null /\ ctx' = [ctx EXCEPT ![c] = FreshContext(Top(t).m)]
      BY <2>4 DEF Allocated
    <3>2. ctx'[c].mb = Top(t).m
      BY <3>1 DEF IInv, MethodOK, FreshContext
    <3> QED BY <1>1, <1>4, <3>1, <3>2, NullAssumption
  <2> QED BY <1>4, <2>2, <2>3, <2>4
<1>5. ASSUME NEW c \in Context, ~ Allocated(c),
             ctx' = [ctx EXCEPT ![c] = FreshContext(Top(t).m)],
             infocc' = [infocc EXCEPT ![Top(t).m] = c], Set(t, b("ref", c))
      PROVE  IInv'
  <2>1. FreshContext(Top(t).m) \in ContextType /\ FreshContext(Top(t).m).mb \in Method
    BY <1>1, FreshType
  <2>u. UNCHANGED <<invoker, code, linked, compiledflag, direct, info, inlineability,
                    count, throwtable, global, pool, enabled, calls>>
    BY DEF codeVars, vmVars
  <2> HIDE DEF Get, At, b, FreshContext
  <2>2. /\ ctx' \in [Context -> ContextType] /\ ctx'[c].mb \in Method
        /\ ContextsKept
    BY <1>5, <2>1 DEF IInv, MethodOK, ContextsKept
  <2>3. /\ infocc' \in [Method -> Context \cup {Null}]
        /\ \A m \in Method : infocc'[m] # Null => ctx'[infocc'[m]].mb \in Method
    BY <1>5, <2>2 DEF IInv, MethodOK, ContextsKept
  <2>4. MethodOK'
    BY <2>2, <2>3, <2>u DEF IInv, MethodOK
  <2> QED BY <1>3, <1>5, <2>2, <2>4
<1> QED BY <1>4, <1>5

LEMMA PopStep ==
  ASSUME IInv, NEW t \in Thread, Pop(t)
  PROVE  IInv'
<1> USE DEF Pop, At
<1> DEFINE b == [Top(t) EXCEPT !.pc = "reset"]
<1>1. /\ Top(t) \in Activation /\ Formed(Top(t), ctx) /\ Top(t).m \in Method
      /\ Top(t).cc \in Context /\ Top(t).ok
  BY TopType DEF IInv, Formed, NoMethod, HasContext, Releasing
<1>2. pool' \in Context \cup {Null}
  BY DEF IInv, MethodOK, ContextType
<1>3. MethodOK' /\ ContextsKept /\ monitor' = monitor
  BY <1>2 DEF IInv, MethodOK, ContextsKept, methodVars, codeVars, infoVars, vmVars
<1>4. b \in Activation /\ Formed(b, ctx') /\ b.m = Top(t).m /\ b.pc = "reset"
  BY <1>1 DEF Activation, PC, Getting, Formed, NoMethod, HasContext, Body, Releasing
<1>5. Inside(b) /\ Inside(Top(t))
  BY <1>4 DEF Inside, Getting
<1>6. Set(t, b)
  BY DEF Goto
<1> HIDE DEF b
<1> QED BY <1>3, <1>4, <1>5, <1>6, SetStep

LEMMA ResetStep ==
  ASSUME IInv, NEW t \in Thread, Reset(t)
  PROVE  IInv'
<1> USE DEF Reset, At
<1> DEFINE b == [Top(t) EXCEPT !.pc = "ref"]
<1>1. /\ Top(t) \in Activation /\ Formed(Top(t), ctx) /\ Top(t).m \in Method
      /\ Top(t).cc \in Context /\ Top(t).ok
  BY TopType DEF IInv, Formed, NoMethod, HasContext, Releasing
<1>2. /\ ctx' \in [Context -> ContextType] /\ ctx'[Top(t).cc].mb \in Method
      /\ ContextsKept
  BY <1>1, FreshType DEF IInv, MethodOK, ContextsKept
<1>3. /\ infocc' \in [Method -> Context \cup {Null}]
      /\ \A m \in Method : infocc'[m] # Null => ctx'[infocc'[m]].mb \in Method
  BY <1>1, <1>2 DEF IInv, MethodOK, ContextsKept
<1>4. MethodOK' /\ monitor' = monitor
  BY <1>2, <1>3 DEF IInv, MethodOK, codeVars, vmVars
<1>5. b \in Activation /\ b.m = Top(t).m /\ b.pc = "ref" /\ b.cc = Top(t).cc /\ b.ok
  BY <1>1 DEF Activation, PC, Getting
<1>6. Set(t, b)
  BY DEF Goto
<1> HIDE DEF b
<1>7. Inside(b) /\ Inside(Top(t)) /\ Formed(b, ctx')
  BY <1>1, <1>2, <1>5 DEF Inside, Getting, Formed, NoMethod, HasContext, Body, Releasing
<1> QED BY <1>2, <1>4, <1>5, <1>6, <1>7, SetStep

\* Changing other fields of a context than mb.
LEMMA ContextEdit ==
  ASSUME MethodOK, NEW c \in Context, NEW x \in ContextType, x.mb = ctx[c].mb,
         ctx' = [ctx EXCEPT ![c] = x]
  PROVE  /\ ctx' \in [Context -> ContextType]
         /\ ContextsKept
         /\ \A m \in Method : infocc[m] # Null => ctx'[infocc[m]].mb \in Method
<1>1. /\ ctx' \in [Context -> ContextType]
      /\ \A d \in Context : ctx'[d].mb = ctx[d].mb
  BY DEF MethodOK
<1> QED BY <1>1 DEF MethodOK, ContextsKept

LEMMA RefStep ==
  ASSUME IInv, NEW t \in Thread, Ref(t)
  PROVE  IInv'
<1> USE DEF Ref, At
<1> DEFINE b == [Top(t) EXCEPT !.pc = "stagecheck"]
           x == [ctx[Top(t).cc] EXCEPT !.ref = @ + 1]
<1>1. /\ Top(t) \in Activation /\ Formed(Top(t), ctx) /\ Top(t).m \in Method
      /\ Top(t).cc \in Context /\ Top(t).ok
  BY TopType DEF IInv, Formed, NoMethod, HasContext, Releasing
<1>2. x \in ContextType /\ x.mb = ctx[Top(t).cc].mb /\ ctx' = [ctx EXCEPT ![Top(t).cc] = x]
  <2>1. ctx[Top(t).cc] \in ContextType
    BY <1>1 DEF IInv, MethodOK
  <2>2. ctx[Top(t).cc].ref + 1 \in Int
    BY <2>1 DEF ContextType
  <2>3. x \in ContextType /\ x.mb = ctx[Top(t).cc].mb
    BY <2>1, <2>2 DEF ContextType
  <2> QED BY <2>3
<1> HIDE DEF x
<1>3. MethodOK' /\ ContextsKept
  <2>1. /\ ctx' \in [Context -> ContextType]
        /\ ContextsKept
        /\ \A m \in Method : infocc[m] # Null => ctx'[infocc[m]].mb \in Method
    BY <1>1, <1>2, ContextEdit DEF IInv
  <2> QED BY <2>1 DEF IInv, MethodOK, methodVars, codeVars, infoVars, vmVars
<1>4. /\ b \in Activation /\ b.m = Top(t).m /\ b.pc = "stagecheck" /\ b.cc = Top(t).cc
      /\ b.ok
  BY <1>1 DEF Activation, PC
<1>5. Set(t, b) /\ MonitorExit(t, Top(t).m)
  BY DEF Goto
<1> HIDE DEF b
<1>6. ~ Inside(b) /\ Formed(b, ctx')
  BY <1>1, <1>3, <1>4 DEF Inside, Getting, Formed, NoMethod, HasContext, Body, Releasing,
                         ContextsKept
<1>7. StackOK'
  BY <1>3, <1>4, <1>5, <1>6, SetStack DEF IInv
<1>8. MonitorOK'
  BY <1>4, <1>5, <1>6, SetExit DEF IInv
<1> QED BY <1>3, <1>7, <1>8 DEF IInv

-----------------------------------------------------------------------------
(* releaseCompilerContext()                                                *)

\* What an activation that works on a context knows of itself.
LEMMA ContextHeld ==
  ASSUME IInv, NEW t \in Thread, Top(t).pc \in HasContext \ {"pop", "reset"}
  PROVE  /\ Top(t) \in Activation /\ Formed(Top(t), ctx) /\ Top(t).m \in Method
         /\ Top(t).cc \in Context /\ ctx[Top(t).cc] \in ContextType
         /\ ctx[Top(t).cc].mb \in Method /\ Top(t).pc \notin NoMethod
         /\ Top(t).pc \notin Releasing => Top(t).ok
<1>1. Top(t) \in Activation /\ Formed(Top(t), ctx)
  BY TopType DEF IInv
<1>2. Top(t).pc \notin NoMethod
  BY DEF NoMethod, HasContext, Body, Releasing
<1> QED BY <1>1, <1>2 DEF Formed, IInv, MethodOK

LEMMA ReleasedStep ==
  ASSUME IInv, NEW t \in Thread, Released(t), Top(t).pc \in Releasing,
         MethodOK', ContextsKept, monitor' = monitor
  PROVE  IInv'
<1>1. Top(t).pc \in HasContext \ {"pop", "reset"}
  BY DEF HasContext, Releasing
<1>2. Top(t) \in Activation /\ Top(t).pc \notin NoMethod
  BY <1>1, ContextHeld
<1>3. CASE Top(t).ok
  <2>1. Goto(t, "exit")
    BY <1>3 DEF Released
  <2>2. Inside(Top(t)) /\ Inside([Top(t) EXCEPT !.pc = "exit"])
    BY <1>2, <1>3 DEF Inside, Body, Activation
  <2>3. "exit" \in PC \ NoMethod
    BY DEF PC, Body, NoMethod
  <2> QED BY <1>1, <1>2, <1>3, <2>1, <2>2, <2>3, GotoStep
<1>4. CASE ~ Top(t).ok
  <2>1. Return(t, FALSE)
    BY <1>4 DEF Released
  <2>2. ~ Inside(Top(t)) /\ Top(t).pc # "idle"
    BY <1>2, <1>4 DEF Inside, Getting, Body, Releasing
  <2> QED BY <2>1, <2>2, ReturnStep
<1> QED BY <1>3, <1>4

\* The moves inside the release.
LEMMA ReleasingStep ==
  ASSUME IInv, NEW t \in Thread, Top(t).pc \in Releasing, NEW pc \in Releasing,
         Goto(t, pc), MethodOK', ContextsKept, monitor' = monitor
  PROVE  IInv'
<1>1. Top(t).pc \in HasContext \ {"pop", "reset"}
  BY DEF HasContext, Releasing
<1>2. Top(t) \in Activation /\ Top(t).pc \notin NoMethod
  BY <1>1, ContextHeld
<1>3. Inside([Top(t) EXCEPT !.pc = pc]) <=> Inside(Top(t))
  <2> DEFINE b == [Top(t) EXCEPT !.pc = pc]
  <2>1. b.pc = pc /\ b.ok = Top(t).ok
    BY <1>2 DEF Activation
  <2> HIDE DEF b
  <2>2. Inside(b) <=> Inside(Top(t))
    BY <2>1 DEF Inside, Getting, Body, Releasing
  <2> QED BY <2>2 DEF b
<1>4. pc \in PC \ NoMethod /\ pc \notin {"inlined", "eagered"}
  BY DEF PC, NoMethod, Releasing
<1> QED BY <1>1, <1>2, <1>3, <1>4, GotoStep

LEMMA UnrefStep ==
  ASSUME IInv, NEW t \in Thread, Unref(t)
  PROVE  IInv'
<1> USE DEF Unref, At
<1> DEFINE x == [ctx[Top(t).cc] EXCEPT !.ref = @ - 1]
<1>1. Top(t).pc \in Releasing /\ Top(t).pc \in HasContext \ {"pop", "reset"}
  BY DEF HasContext, Releasing
<1>2. Top(t).cc \in Context /\ ctx[Top(t).cc] \in ContextType
  BY <1>1, ContextHeld
<1>3. x \in ContextType /\ x.mb = ctx[Top(t).cc].mb /\ ctx' = [ctx EXCEPT ![Top(t).cc] = x]
  <2>1. ctx[Top(t).cc] \in ContextType
    BY <1>2 DEF IInv, MethodOK
  <2>2. ctx[Top(t).cc].ref - 1 \in Int
    BY <2>1 DEF ContextType
  <2>3. x \in ContextType /\ x.mb = ctx[Top(t).cc].mb
    BY <2>1, <2>2 DEF ContextType
  <2> QED BY <2>3
<1> HIDE DEF x
<1>4. MethodOK' /\ ContextsKept /\ monitor' = monitor
  <2>1. /\ ctx' \in [Context -> ContextType]
        /\ ContextsKept
        /\ \A m \in Method : infocc[m] # Null => ctx'[infocc[m]].mb \in Method
    BY <1>2, <1>3, ContextEdit DEF IInv
  <2>2. global' \in Thread \cup {Null}
    BY DEF IInv, MethodOK
  <2> QED BY <2>1, <2>2 DEF IInv, MethodOK, methodVars, codeVars, infoVars, vmVars
<1>5. CASE Released(t)
  BY <1>1, <1>4, <1>5, ReleasedStep
<1>6. CASE Goto(t, "unlink")
  BY <1>1, <1>4, <1>6, ReleasingStep DEF Releasing
<1> QED BY <1>5, <1>6

LEMMA UnlinkStep ==
  ASSUME IInv, NEW t \in Thread, Unlink(t)
  PROVE  IInv'
<1> USE DEF Unlink, At
<1>1. Top(t).pc \in Releasing
  BY DEF Releasing
<1>2. MethodOK' /\ ContextsKept /\ monitor' = monitor
  BY DEF IInv, MethodOK, ContextsKept, codeVars, contextVars, vmVars
<1> QED BY <1>1, <1>2, ReleasingStep DEF Releasing

LEMMA LinkStep ==
  ASSUME IInv, NEW t \in Thread, Link(t)
  PROVE  IInv'
<1> USE DEF Link, At
<1> DEFINE x == [ctx[Top(t).cc] EXCEPT !.next = pool]
<1>1. Top(t).pc \in Releasing /\ Top(t).pc \in HasContext \ {"pop", "reset"}
  BY DEF HasContext, Releasing
<1>2. Top(t).cc \in Context /\ ctx[Top(t).cc] \in ContextType
  BY <1>1, ContextHeld
<1>3. x \in ContextType /\ x.mb = ctx[Top(t).cc].mb /\ ctx' = [ctx EXCEPT ![Top(t).cc] = x]
  BY <1>2 DEF IInv, MethodOK, ContextType
<1> HIDE DEF x
<1>4. MethodOK' /\ ContextsKept /\ monitor' = monitor
  <2>1. /\ ctx' \in [Context -> ContextType]
        /\ ContextsKept
        /\ \A m \in Method : infocc[m] # Null => ctx'[infocc[m]].mb \in Method
    BY <1>2, <1>3, ContextEdit DEF IInv
  <2> QED BY <2>1 DEF IInv, MethodOK, methodVars, codeVars, infoVars, vmVars
<1> QED BY <1>1, <1>4, ReleasingStep DEF Releasing

LEMMA PushStep ==
  ASSUME IInv, NEW t \in Thread, Push(t)
  PROVE  IInv'
<1> USE DEF Push, At
<1>1. Top(t).pc \in Releasing /\ Top(t).pc \in HasContext \ {"pop", "reset"}
  BY DEF HasContext, Releasing
<1>2. Top(t).cc \in Context
  BY <1>1, ContextHeld
<1>3. MethodOK' /\ ContextsKept /\ monitor' = monitor
  BY <1>2 DEF IInv, MethodOK, ContextsKept, methodVars, codeVars, infoVars, vmVars
<1> QED BY <1>1, <1>3, ReleasedStep

-----------------------------------------------------------------------------
(* compileMethod()                                                         *)

\* The moves between the lock and the unlock.
LEMMA BodySet ==
  ASSUME IInv, NEW t \in Thread, Top(t).pc \in Body, NEW b \in Activation,
         Set(t, b), b.pc \in Body, b.m = Top(t).m, b.cc = Top(t).cc,
         b.ok = Top(t).ok, b.pc \in {"inlined", "eagered"} => b.g \in Method,
         MethodOK', ContextsKept, monitor' = monitor
  PROVE  IInv'
<1>1. Top(t).pc \in HasContext \ {"pop", "reset"} /\ Top(t).pc \notin Releasing
  BY DEF HasContext, Releasing, Body
<1>2. /\ Top(t).m \in Method /\ Top(t).cc \in Context
      /\ ctx[Top(t).cc].mb \in Method /\ Top(t).ok
  BY <1>1, ContextHeld
<1>3. Formed(b, ctx')
  BY <1>2 DEF Formed, ContextsKept
<1>4. Inside(b) /\ Inside(Top(t))
  BY DEF Inside
<1>5. b.pc # "idle" /\ Top(t).pc # "idle"
  BY DEF Body
<1> QED BY <1>3, <1>4, <1>5, SetStep

LEMMA BodyGoto ==
  ASSUME IInv, NEW t \in Thread, Top(t).pc \in Body, Goto(t, "write") \/
         Goto(t, "static") \/ Goto(t, "exit") \/ Goto(t, "fail") \/
         Goto(t, "internal") \/ Goto(t, "inline") \/ Goto(t, "preserve") \/
         Goto(t, "install") \/ Goto(t, "finish"),
         MethodOK', ContextsKept, monitor' = monitor
  PROVE  IInv'
<1>1. PICK pc \in {"write", "static", "exit", "fail", "internal", "inline", "preserve",
                  "install", "finish"} : Goto(t, pc)
  OBVIOUS
<1> DEFINE b == [Top(t) EXCEPT !.pc = pc]
<1>2. Top(t) \in Activation
  BY TopType DEF IInv
<1>3. pc \in PC /\ pc \in Body \ {"inlined", "eagered"}
  BY DEF PC, Body
<1>4. /\ b \in Activation /\ b.pc = pc /\ b.m = Top(t).m /\ b.cc = Top(t).cc
      /\ b.ok = Top(t).ok /\ Set(t, b)
  BY <1>1, <1>2, <1>3 DEF Activation, Goto
<1> HIDE DEF b
<1> QED BY <1>3, <1>4, BodySet

\* A call of compileMethod() or prepareCompiledCodeInfo() from the body.
LEMMA BodyCall ==
  ASSUME IInv, NEW t \in Thread, Top(t).pc \in Body, NEW a \in Activation,
         NEW g \in Method, NEW pc \in {"publish", "check"}, NEW target \in Stage,
         Call(t, a, Start(pc, g, target)), a.pc \in Body, a.m = Top(t).m,
         a.cc = Top(t).cc, a.ok = Top(t).ok,
         a.pc \in {"inlined", "eagered"} => a.g \in Method,
         MethodOK', ContextsKept, monitor' = monitor
  PROVE  IInv'
<1>1. Top(t).pc \in HasContext \ {"pop", "reset"} /\ Top(t).pc \notin Releasing
  BY DEF HasContext, Releasing, Body
<1>2. /\ Top(t).m \in Method /\ Top(t).cc \in Context
      /\ ctx[Top(t).cc].mb \in Method /\ Top(t).ok
  BY <1>1, ContextHeld
<1>3. Formed(a, ctx')
  BY <1>2 DEF Formed, ContextsKept
<1>4. Inside(a) /\ Inside(Top(t))
  BY DEF Inside
<1>5. a.pc # "idle" /\ Top(t).pc # "idle"
  BY DEF Body
<1> DEFINE b == Start(pc, g, target)
<1>6. b \in Activation /\ b.pc # "idle" /\ Formed(b, ctx') /\ ~ Inside(b)
  BY StartType
<1> HIDE DEF b
<1>7. Call(t, a, b)
  BY DEF b
<1> QED BY <1>3, <1>4, <1>5, <1>6, <1>7, CallStep

LEMMA CheckStep ==
  ASSUME IInv, NEW t \in Thread, Check(t)
  PROVE  IInv'
<1> USE DEF Check, At
<1>1. /\ Top(t) \in Activation /\ Formed(Top(t), ctx) /\ Top(t).m \in Method
      /\ Top(t).ok /\ ~ Inside(Top(t)) /\ Top(t).pc \notin NoMethod
  BY TopType DEF IInv, Formed, NoMethod, Inside, Releasing, Getting, Body
<1>2. MethodOK' /\ ContextsKept /\ monitor' = monitor
  BY DEF IInv, MethodOK, ContextsKept, methodVars, codeVars, infoVars, contextVars, vmVars
<1> DEFINE b == [Top(t) EXCEPT !.pc = "lookup"]
<1>3. b \in Activation /\ b.pc = "lookup" /\ b.m = Top(t).m /\ b.ok
  BY <1>1 DEF Activation, PC
<1>4. ~ Inside(b) /\ Formed(b, ctx')
  <2> HIDE DEF b
  <2> QED BY <1>1, <1>3 DEF Formed, NoMethod, HasContext, Inside, Releasing, Getting, Body
<1>5. CASE Return(t, TRUE)
  BY <1>1, <1>2, <1>5, ReturnStep
<1>6. CASE Goto(t, "lookup")
  <2>1. Set(t, b)
    BY <1>6 DEF Goto
  <2> HIDE DEF b
  <2> QED BY <1>1, <1>2, <1>3, <1>4, <2>1, SetStep
<1>7. CASE Call(t, b, Start("publish", Top(t).m, STAGE_START))
  <2> DEFINE s == Start("publish", Top(t).m, STAGE_START)
  <2>1. s \in Activation /\ s.pc # "idle" /\ Formed(s, ctx') /\ ~ Inside(s)
    BY <1>1, StartType DEF Stage, STAGE_START, STAGE_DONE
  <2>2. Call(t, b, s)
    BY <1>7
  <2> HIDE DEF b, s
  <2> QED BY <1>1, <1>2, <1>3, <1>4, <2>1, <2>2, CallStep
<1> QED BY <1>5, <1>6, <1>7

LEMMA StageCheckStep ==
  ASSUME IInv, NEW t \in Thread, StageCheck(t)
  PROVE  IInv'
<1> USE DEF StageCheck, At
<1>1. Top(t).pc \in HasContext \ {"pop", "reset"} /\ Top(t).pc \notin Releasing
  BY DEF HasContext, Releasing
<1>2. Top(t) \in Activation /\ Top(t).pc \notin NoMethod /\ Top(t).ok /\ ~ Inside(Top(t))
  BY <1>1, ContextHeld DEF Inside, Releasing, Getting, Body
<1>3. MethodOK' /\ ContextsKept /\ monitor' = monitor
  BY DEF IInv, MethodOK, ContextsKept, methodVars, codeVars, infoVars, contextVars, vmVars
<1>4. CASE Return(t, TRUE)
  BY <1>2, <1>3, <1>4, ReturnStep
<1>5. CASE Goto(t, "enter")
  <2>1. ~ Inside([Top(t) EXCEPT !.pc = "enter"])
    BY <1>2 DEF Activation, Inside, Releasing, Getting, Body
  <2>2. "enter" \in PC \ NoMethod
    BY DEF PC, NoMethod
  <2> QED BY <1>1, <1>2, <1>3, <1>5, <2>1, <2>2, GotoStep
<1> QED BY <1>4, <1>5

LEMMA EnterStep ==
  ASSUME IInv, NEW t \in Thread, Enter(t)
  PROVE  IInv'
<1> USE DEF Enter, At
<1> DEFINE pc == ResumeAt(ctx[Top(t).cc].stage)
           b == [Top(t) EXCEPT !.pc = pc]
<1>1. Top(t).pc \in HasContext \ {"pop", "reset"} /\ Top(t).pc \notin Releasing
  BY DEF HasContext, Releasing
<1>2. /\ Top(t) \in Activation /\ Top(t).m \in Method /\ Top(t).cc \in Context
      /\ ctx[Top(t).cc].mb \in Method /\ ctx[Top(t).cc] \in ContextType
      /\ Top(t).ok /\ ~ Inside(Top(t))
  BY <1>1, ContextHeld DEF Inside, Releasing, Getting, Body
<1>3. pc \in {"front", "internal", "static", "exit"}
  <2>1. ctx[Top(t).cc].stage \in {0, 1, 2, 3}
    BY <1>2 DEF ContextType, Stage, STAGE_START, STAGE_DONE
  <2> QED BY <2>1 DEF ResumeAt, STAGE_START, STAGE_INTERNAL_CODE, STAGE_STATIC_PART,
                     STAGE_DONE
<1>4. MethodOK' /\ ContextsKept
  BY DEF IInv, MethodOK, ContextsKept, codeVars, infoVars, contextVars, vmVars
<1>5. Set(t, b) /\ MonitorEnter(t, Top(t).m)
  BY DEF Goto
<1> HIDE DEF pc
<1>6. /\ b \in Activation /\ b.m = Top(t).m /\ b.pc = pc /\ b.cc = Top(t).cc
      /\ b.ok
  BY <1>2, <1>3 DEF Activation, PC, Body
<1> HIDE DEF b
<1>7. Inside(b) /\ Formed(b, ctx') /\ b.pc # "idle"
  BY <1>2, <1>3, <1>4, <1>6 DEF Inside, Formed, Body, Releasing, ContextsKept
<1>8. StackOK'
  BY <1>4, <1>5, <1>6, <1>7, SetStack DEF IInv
<1>9. MonitorOK'
  BY <1>2, <1>5, <1>6, <1>7, SetEnter DEF IInv
<1> QED BY <1>4, <1>8, <1>9 DEF IInv

\* What an activation in the body knows of itself.
LEMMA BodyHeld ==
  ASSUME IInv, NEW t \in Thread, Top(t).pc \in Body
  PROVE  /\ Top(t) \in Activation /\ Top(t).m \in Method /\ Top(t).cc \in Context
         /\ ctx[Top(t).cc] \in ContextType /\ ctx[Top(t).cc].mb \in Method
         /\ Top(t).ok /\ Top(t).pc # "idle"
<1>1. Top(t).pc \in HasContext \ {"pop", "reset"} /\ Top(t).pc \notin Releasing
  BY DEF HasContext, Releasing, Body
<1> QED BY <1>1, ContextHeld DEF NoMethod

LEMMA FrontFailsStep ==
  ASSUME IInv, NEW t \in Thread, FrontFails(t)
  PROVE  IInv'
<1> USE DEF FrontFails, At
<1> DEFINE x == [ctx[Top(t).cc] EXCEPT !.body = Junk]
<1>1. Top(t).pc \in Body
  BY DEF Body
<1>2. x \in ContextType /\ x.mb = ctx[Top(t).cc].mb
  BY <1>1, BodyHeld DEF ContextType
<1>3. Top(t).cc \in Context /\ ctx' = [ctx EXCEPT ![Top(t).cc] = x]
  BY <1>1, BodyHeld
<1> HIDE DEF x
<1>4. /\ ctx' \in [Context -> ContextType]
      /\ ContextsKept
      /\ \A m \in Method : infocc[m] # Null => ctx'[infocc[m]].mb \in Method
  BY <1>2, <1>3, ContextEdit DEF IInv
<1>5. MethodOK' /\ monitor' = monitor
  BY <1>4 DEF IInv, MethodOK, methodVars, codeVars, infoVars, vmVars
<1> QED BY <1>1, <1>4, <1>5, BodyGoto

LEMMA FrontStep ==
  ASSUME IInv, NEW t \in Thread, Front(t)
  PROVE  IInv'
<1> USE DEF Front, At
<1> DEFINE y == ctx[Top(t).cc]
           x == [y EXCEPT !.body = Appended(y.body, y.mb), !.sites = y.sites \o Callees[y.mb]]
<1>1. Top(t).pc \in Body
  BY DEF Body
<1>2. x \in ContextType /\ x.mb = y.mb
  <2>1. y \in ContextType /\ y.mb \in Method
    BY <1>1, BodyHeld
  <2> HIDE DEF y
  <2>2. Appended(y.body, y.mb) \in Method \cup {Null, Junk}
    BY <2>1 DEF Appended
  <2>3. y.sites \o Callees[y.mb] \in Seq(Method)
    BY <2>1, ProgramAssumption DEF ContextType
  <2> QED BY <2>1, <2>2, <2>3 DEF ContextType
<1>3. Top(t).cc \in Context /\ Top(t).m \in Method
  BY <1>1, BodyHeld
<1>4. ctx' = [ctx EXCEPT ![Top(t).cc] = x]
  BY <1>3 DEF IInv, MethodOK
<1>5. /\ ctx' \in [Context -> ContextType]
      /\ ContextsKept
      /\ \A m \in Method : infocc[m] # Null => ctx'[infocc[m]].mb \in Method
  <2> HIDE DEF x
  <2> QED BY <1>2, <1>3, <1>4, ContextEdit DEF IInv
<1>6. inlineability' \in [Method -> {"unknown", "dont", "bare", "may"}]
  BY DEF IInv, MethodOK
<1>7. MethodOK' /\ monitor' = monitor
  BY <1>5, <1>6 DEF IInv, MethodOK, codeVars, vmVars
<1> QED BY <1>1, <1>5, <1>7, BodyGoto

LEMMA PreserveStep ==
  ASSUME IInv, NEW t \in Thread, Preserve(t)
  PROVE  IInv'
<1> USE DEF Preserve, At
<1> DEFINE x == [ctx[Top(t).cc] EXCEPT !.stage = STAGE_INTERNAL_CODE]
<1>1. Top(t).pc \in Body
  BY DEF Body
<1>2. x \in ContextType /\ x.mb = ctx[Top(t).cc].mb
  <2>1. STAGE_INTERNAL_CODE \in Stage
    BY DEF Stage, STAGE_START, STAGE_INTERNAL_CODE, STAGE_DONE
  <2> QED BY <1>1, <2>1, BodyHeld DEF ContextType
<1>3. Top(t).cc \in Context /\ ctx' = [ctx EXCEPT ![Top(t).cc] = x]
  BY <1>1, BodyHeld
<1> HIDE DEF x
<1>4. /\ ctx' \in [Context -> ContextType]
      /\ ContextsKept
      /\ \A m \in Method : infocc[m] # Null => ctx'[infocc[m]].mb \in Method
  BY <1>2, <1>3, ContextEdit DEF IInv
<1>5. inlineability' \in [Method -> {"unknown", "dont", "bare", "may"}]
  BY DEF IInv, MethodOK
<1>6. MethodOK' /\ monitor' = monitor
  BY <1>4, <1>5 DEF IInv, MethodOK, codeVars, vmVars
<1> QED BY <1>1, <1>4, <1>6, BodyGoto

LEMMA InternalStep ==
  ASSUME IInv, NEW t \in Thread, Internal(t)
  PROVE  IInv'
<1> USE DEF Internal, At
<1>1. Top(t).pc \in Body
  BY DEF Body
<1>2. MethodOK' /\ ContextsKept /\ monitor' = monitor
  BY DEF IInv, MethodOK, ContextsKept, codeVars, infoVars, contextVars, vmVars
<1> QED BY <1>1, <1>2, BodyGoto

\* A call site of the table is one of a method.
LEMMA SiteType ==
  ASSUME IInv, NEW t \in Thread, Top(t).pc \in Body, Top(t).i <= Len(Sites(Top(t)))
  PROVE  Site(Top(t)) \in Method
<1>1. Sites(Top(t)) \in Seq(Method) /\ Top(t).i \in Nat \ {0}
  BY BodyHeld DEF Sites, ContextType, Activation
<1> QED BY <1>1 DEF Site

LEMMA InlineScanStep ==
  ASSUME IInv, NEW t \in Thread, InlineScan(t)
  PROVE  IInv'
<1> USE DEF InlineScan, At
<1> DEFINE b == [Top(t) EXCEPT !.pc = "inlined", !.g = Site(Top(t))]
<1>1. Top(t).pc \in Body /\ Top(t).pc \notin {"inlined", "eagered"}
  BY DEF Body
<1>2. Top(t) \in Activation
  BY <1>1, BodyHeld
<1>3. Site(Top(t)) \in Method /\ STAGE_START \in Stage /\ STAGE_INTERNAL_CODE \in Stage
  BY <1>1, SiteType DEF Stage, STAGE_START, STAGE_INTERNAL_CODE, STAGE_DONE
<1>4. MethodOK' /\ ContextsKept /\ monitor' = monitor
  BY DEF IInv, MethodOK, ContextsKept, methodVars, codeVars, infoVars, contextVars, vmVars
<1>5. /\ b \in Activation /\ b.pc = "inlined" /\ b.m = Top(t).m /\ b.cc = Top(t).cc
      /\ b.ok = Top(t).ok /\ b.g \in Method
  BY <1>2, <1>3 DEF Activation, PC, Body
<1>6. b.pc \in Body
  BY <1>5 DEF Body
<1>7. CASE Call(t, Top(t), Start("publish", Site(Top(t)), STAGE_START))
  BY <1>1, <1>2, <1>3, <1>4, <1>7, BodyCall
<1>8. CASE Call(t, b, Start("check", Site(Top(t)), STAGE_INTERNAL_CODE))
  <2> HIDE DEF b
  <2> QED BY <1>1, <1>3, <1>4, <1>5, <1>6, <1>8, BodyCall
<1>9. CASE Set(t, b)
  <2> HIDE DEF b
  <2> QED BY <1>1, <1>4, <1>5, <1>6, <1>9, BodySet
<1> QED BY <1>7, <1>8, <1>9

LEMMA InlineSiteStep ==
  ASSUME IInv, NEW t \in Thread, InlineSite(t)
  PROVE  IInv'
<1> USE DEF At
<1> DEFINE a == Top(t)
           y == ctx[a.cc]
           inlines == inlineability[a.g] \in {"bare", "may"} /\ SameStrictness(a.m, a.g)
           skipped == IF inlines THEN Len(Callees[a.g]) ELSE 1
           b == [a EXCEPT !.pc = "inline", !.g = Null, !.i = a.i + skipped,
                          !.inlined = a.inlined \/ inlines]
           spliced == SubSeq(y.sites, 1, a.i - 1) \o Callees[a.g]
                        \o SubSeq(y.sites, a.i + 1, Len(y.sites))
<1>1. a.pc \in Body /\ a.pc = "inlined"
  BY DEF Body, InlineSite
<1>2. /\ a \in Activation /\ a.m \in Method /\ a.cc \in Context /\ y \in ContextType
      /\ y.mb \in Method
  BY <1>1, BodyHeld
<1>3. a.g \in Method
  BY <1>1, TopType DEF IInv, Formed
<1>4. Callees[a.g] \in Seq(Method) /\ y.sites \in Seq(Method) /\ a.i \in Nat \ {0}
  BY <1>2, <1>3, ProgramAssumption DEF ContextType, Activation
<1>5. skipped \in Nat
  BY <1>4
<1>6. a.i + skipped \in Nat \ {0}
  BY <1>4, <1>5
<1>7. ASSUME a.i <= Len(y.sites)
      PROVE  spliced \in Seq(Method)
  <2>1. SubSeq(y.sites, 1, a.i - 1) \in Seq(Method)
    BY <1>4, <1>7
  <2>2. SubSeq(y.sites, a.i + 1, Len(y.sites)) \in Seq(Method)
    BY <1>4
  <2> QED BY <1>4, <2>1, <2>2
<1>8. /\ b \in Activation /\ b.pc = "inline" /\ b.m = a.m /\ b.cc = a.cc /\ b.ok = a.ok
  <2>1. (a.inlined \/ inlines) \in BOOLEAN
    BY <1>2 DEF Activation
  <2> HIDE DEF inlines, skipped
  <2> QED BY <1>2, <1>6, <2>1 DEF Activation, PC, Body
<1>9. Set(t, b) /\ monitor' = monitor
  BY DEF InlineSite
<1>10. /\ ctx' \in [Context -> ContextType]
       /\ ContextsKept
       /\ \A m \in Method : infocc[m] # Null => ctx'[infocc[m]].mb \in Method
  <2>1. CASE ctx' = ctx
    BY <2>1 DEF IInv, MethodOK, ContextsKept
  <2>2. CASE a.i <= Len(y.sites) /\ ctx' = [ctx EXCEPT ![a.cc].sites = spliced]
    <3> DEFINE x == [y EXCEPT !.sites = spliced]
    <3>1. x \in ContextType /\ x.mb = y.mb
      <4> HIDE DEF spliced, y
      <4> QED BY <1>2, <1>7, <2>2 DEF ContextType
    <3>2. ctx' = [ctx EXCEPT ![a.cc] = x]
      BY <1>2, <2>2 DEF IInv, MethodOK
    <3> HIDE DEF x
    <3> QED BY <1>2, <3>1, <3>2, ContextEdit DEF IInv
  <2>3. CASE ctx' = [ctx EXCEPT ![a.cc].body = Junk]
    <3> DEFINE x == [y EXCEPT !.body = Junk]
    <3>1. x \in ContextType /\ x.mb = y.mb
      BY <1>2 DEF ContextType
    <3>2. ctx' = [ctx EXCEPT ![a.cc] = x]
      BY <1>2, <2>3 DEF IInv, MethodOK
    <3> HIDE DEF x
    <3> QED BY <1>2, <3>1, <3>2, ContextEdit DEF IInv
  <2> QED BY <2>1, <2>2, <2>3 DEF InlineSite, Sites
<1>11. MethodOK'
  BY <1>10 DEF IInv, MethodOK, InlineSite, methodVars, codeVars, infoVars, vmVars
<1>12. b.pc \in Body \ {"inlined", "eagered"}
  BY <1>8 DEF Body
<1> HIDE DEF b
<1> QED BY <1>1, <1>8, <1>9, <1>10, <1>11, <1>12, BodySet

LEMMA InlinePassEndStep ==
  ASSUME IInv, NEW t \in Thread, InlinePassEnd(t)
  PROVE  IInv'
<1> DEFINE b == [Top(t) EXCEPT !.i = 1, !.pass = Top(t).pass + 1, !.inlined = FALSE]
           e == [Top(t) EXCEPT !.pc = "eager", !.i = 1]
<1>1. Top(t).pc \in Body /\ Top(t).pc \notin {"inlined", "eagered"}
  BY DEF Body, InlinePassEnd, At
<1>2. Top(t) \in Activation
  BY <1>1, BodyHeld
<1>3. MethodOK' /\ ContextsKept /\ monitor' = monitor
  BY DEF InlinePassEnd, IInv, MethodOK, ContextsKept, methodVars, codeVars, infoVars,
         contextVars, vmVars
<1>4. /\ b \in Activation /\ b.pc = Top(t).pc /\ b.m = Top(t).m /\ b.cc = Top(t).cc
      /\ b.ok = Top(t).ok
  <2>1. Top(t).pass + 1 \in Nat /\ 1 \in Nat \ {0} /\ FALSE \in BOOLEAN
    BY <1>2 DEF Activation
  <2> QED BY <1>2, <2>1 DEF Activation
<1>5. /\ e \in Activation /\ e.pc = "eager" /\ e.m = Top(t).m /\ e.cc = Top(t).cc
      /\ e.ok = Top(t).ok
  <2>1. "eager" \in PC /\ 1 \in Nat \ {0}
    BY DEF PC, Body
  <2> QED BY <1>2, <2>1 DEF Activation
<1>6. e.pc \in Body
  BY <1>5 DEF Body
<1>7. Set(t, b) \/ Set(t, e)
  BY DEF InlinePassEnd
<1> HIDE DEF b, e
<1> QED BY <1>1, <1>3, <1>4, <1>5, <1>6, <1>7, BodySet

LEMMA EagerScanStep ==
  ASSUME IInv, NEW t \in Thread, EagerScan(t)
  PROVE  IInv'
<1> USE DEF EagerScan, At
<1> DEFINE b == [Top(t) EXCEPT !.pc = "eagered", !.g = Site(Top(t))]
<1>1. Top(t).pc \in Body /\ Top(t).pc \notin {"inlined", "eagered"}
  BY DEF Body
<1>2. Top(t) \in Activation
  BY <1>1, BodyHeld
<1>3. Site(Top(t)) \in Method /\ STAGE_START \in Stage /\ STAGE_DONE \in Stage
  BY <1>1, SiteType DEF Stage, STAGE_START, STAGE_DONE
<1>4. MethodOK' /\ ContextsKept /\ monitor' = monitor
  BY DEF IInv, MethodOK, ContextsKept, methodVars, codeVars, infoVars, contextVars, vmVars
<1>5. /\ b \in Activation /\ b.pc = "eagered" /\ b.m = Top(t).m /\ b.cc = Top(t).cc
      /\ b.ok = Top(t).ok /\ b.g \in Method
  BY <1>2, <1>3 DEF Activation, PC, Body
<1>6. b.pc \in Body
  BY <1>5 DEF Body
<1>7. CASE Call(t, Top(t), Start("publish", Site(Top(t)), STAGE_START))
  BY <1>1, <1>2, <1>3, <1>4, <1>7, BodyCall
<1>8. CASE Call(t, b, Start("check", Site(Top(t)), STAGE_DONE))
  <2> HIDE DEF b
  <2> QED BY <1>1, <1>3, <1>4, <1>5, <1>6, <1>8, BodyCall
<1>9. CASE Set(t, b)
  <2> HIDE DEF b
  <2> QED BY <1>1, <1>4, <1>5, <1>6, <1>9, BodySet
<1> QED BY <1>7, <1>8, <1>9

LEMMA EagerSiteStep ==
  ASSUME IInv, NEW t \in Thread, EagerSite(t)
  PROVE  IInv'
<1> USE DEF EagerSite, At
<1> DEFINE b == [Top(t) EXCEPT !.pc = "eager", !.g = Null, !.i = @ + 1]
<1>1. Top(t).pc \in Body
  BY DEF Body
<1>2. Top(t) \in Activation /\ Top(t).g \in Method
  BY <1>1, TopType DEF IInv, Formed
<1>3. direct' \subseteq Method
  BY <1>2 DEF IInv, MethodOK
<1>4. MethodOK' /\ ContextsKept /\ monitor' = monitor
  BY <1>3 DEF IInv, MethodOK, ContextsKept, infoVars, contextVars, vmVars
<1>5. /\ b \in Activation /\ b.pc = "eager" /\ b.m = Top(t).m /\ b.cc = Top(t).cc
      /\ b.ok = Top(t).ok
  <2>1. Top(t).i + 1 \in Nat \ {0}
    BY <1>2 DEF Activation
  <2> QED BY <1>2, <2>1 DEF Activation, PC, Body
<1>6. b.pc \in Body \ {"inlined", "eagered"}
  BY <1>5 DEF Body
<1>7. Set(t, b)
  OBVIOUS
<1> HIDE DEF b
<1> QED BY <1>1, <1>4, <1>5, <1>6, <1>7, BodySet

LEMMA EagerEndStep ==
  ASSUME IInv, NEW t \in Thread, EagerEnd(t)
  PROVE  IInv'
<1> USE DEF EagerEnd, At
<1>1. Top(t).pc \in Body
  BY DEF Body
<1>2. MethodOK' /\ ContextsKept /\ monitor' = monitor
  BY DEF IInv, MethodOK, ContextsKept, methodVars, codeVars, infoVars, contextVars, vmVars
<1> QED BY <1>1, <1>2, BodyGoto

LEMMA ThrowType ==
  ASSUME MethodOK, NEW mb \in Method, NEW pass \in {"part", "whole"},
         AddThrowEntries(mb, pass)
  PROVE  throwtable' \in [Method -> Seq({"part", "whole"})]
<1>1. Append(throwtable[mb], pass) \in Seq({"part", "whole"})
  BY DEF MethodOK
<1> QED BY <1>1 DEF AddThrowEntries, MethodOK

LEMMA WriteFailsStep ==
  ASSUME IInv, NEW t \in Thread, WriteFails(t)
  PROVE  IInv'
<1> USE DEF WriteFails, At
<1> DEFINE x == [ctx[Top(t).cc] EXCEPT !.body = Junk]
<1>1. Top(t).pc \in Body
  BY DEF Body
<1>2. x \in ContextType /\ x.mb = ctx[Top(t).cc].mb
  BY <1>1, BodyHeld DEF ContextType
<1>3. Top(t).cc \in Context /\ ctx' = [ctx EXCEPT ![Top(t).cc] = x]
  BY <1>1, BodyHeld
<1> HIDE DEF x
<1>4. /\ ctx' \in [Context -> ContextType]
      /\ ContextsKept
      /\ \A m \in Method : infocc[m] # Null => ctx'[infocc[m]].mb \in Method
  BY <1>2, <1>3, ContextEdit DEF IInv
<1>5. throwtable' \in [Method -> Seq({"part", "whole"})]
  BY <1>1, BodyHeld, ThrowType DEF IInv
<1>6. MethodOK' /\ monitor' = monitor
  BY <1>4, <1>5 DEF IInv, MethodOK, codeVars, vmVars
<1> QED BY <1>1, <1>4, <1>6, BodyGoto

LEMMA WriteStep ==
  ASSUME IInv, NEW t \in Thread, Write(t)
  PROVE  IInv'
<1> USE DEF Write, At
<1> DEFINE x == [ctx[Top(t).cc] EXCEPT !.stage = STAGE_STATIC_PART]
<1>1. Top(t).pc \in Body
  BY DEF Body
<1>2. x \in ContextType /\ x.mb = ctx[Top(t).cc].mb
  BY <1>1, BodyHeld DEF ContextType, Stage, STAGE_START, STAGE_STATIC_PART, STAGE_DONE
<1>3. Top(t).cc \in Context /\ ctx' = [ctx EXCEPT ![Top(t).cc] = x]
  BY <1>1, BodyHeld
<1> HIDE DEF x
<1>4. /\ ctx' \in [Context -> ContextType]
      /\ ContextsKept
      /\ \A m \in Method : infocc[m] # Null => ctx'[infocc[m]].mb \in Method
  BY <1>2, <1>3, ContextEdit DEF IInv
<1>5. throwtable' \in [Method -> Seq({"part", "whole"})]
  BY <1>1, BodyHeld, ThrowType DEF IInv
<1>6. /\ code' \in [Method -> Method \cup {Null, Junk}]
      /\ linked' \in [Method -> BOOLEAN]
  BY <1>1, BodyHeld DEF IInv, MethodOK, ContextType
<1>7. MethodOK' /\ monitor' = monitor
  BY <1>4, <1>5, <1>6 DEF IInv, MethodOK, vmVars
<1> QED BY <1>1, <1>4, <1>7, BodyGoto

LEMMA StaticStep ==
  ASSUME IInv, NEW t \in Thread, Static(t)
  PROVE  IInv'
<1> USE DEF Static, At
<1>1. Top(t).pc \in Body
  BY DEF Body
<1>2. /\ linked' \in [Method -> BOOLEAN]
      /\ compiledflag' \in [Method -> BOOLEAN]
  BY DEF IInv, MethodOK
<1>3. MethodOK' /\ ContextsKept /\ monitor' = monitor
  BY <1>2 DEF IInv, MethodOK, ContextsKept, infoVars, contextVars, vmVars
<1> QED BY <1>1, <1>3, BodyGoto

LEMMA InstallStep ==
  ASSUME IInv, NEW t \in Thread, Install(t)
  PROVE  IInv'
<1> USE DEF Install, At
<1>1. Top(t).pc \in Body
  BY DEF Body
<1>2. invoker' \in [Method -> {"interp", "candi", "jit"}]
  BY DEF IInv, MethodOK
<1>3. MethodOK' /\ ContextsKept /\ monitor' = monitor
  BY <1>2 DEF IInv, MethodOK, ContextsKept, codeVars, infoVars, contextVars, vmVars
<1> QED BY <1>1, <1>3, BodyGoto

LEMMA FinishStep ==
  ASSUME IInv, NEW t \in Thread, Finish(t)
  PROVE  IInv'
<1> USE DEF Finish, At
<1> DEFINE x == [ctx[Top(t).cc] EXCEPT !.stage = STAGE_DONE]
<1>1. Top(t).pc \in Body
  BY DEF Body
<1>2. x \in ContextType /\ x.mb = ctx[Top(t).cc].mb
  <2>1. STAGE_DONE \in Stage
    BY DEF Stage, STAGE_START, STAGE_DONE
  <2> QED BY <1>1, <2>1, BodyHeld DEF ContextType
<1>3. Top(t).cc \in Context /\ ctx' = [ctx EXCEPT ![Top(t).cc] = x]
  BY <1>1, BodyHeld
<1> HIDE DEF x
<1>4. /\ ctx' \in [Context -> ContextType]
      /\ ContextsKept
      /\ \A m \in Method : infocc[m] # Null => ctx'[infocc[m]].mb \in Method
  BY <1>2, <1>3, ContextEdit DEF IInv
<1>5. MethodOK' /\ monitor' = monitor
  BY <1>4 DEF IInv, MethodOK, methodVars, codeVars, infoVars, vmVars
<1>6. /\ Top(t).pc \notin NoMethod /\ Top(t).pc \in HasContext \ {"pop", "reset"}
      /\ "release" \in PC \ NoMethod /\ "release" \in Releasing
  BY DEF NoMethod, HasContext, Body, PC, Releasing
<1>7. Inside([Top(t) EXCEPT !.pc = "release"]) /\ Inside(Top(t))
  <2>1. Inside(Top(t))
    BY <1>1 DEF Inside
  <2>2. Top(t) \in Activation /\ Top(t).ok
    BY <1>1, BodyHeld
  <2> QED BY <2>1, <2>2 DEF Inside, Releasing, Activation
<1> QED BY <1>4, <1>5, <1>6, <1>7, GotoStep

LEMMA ExitStep ==
  ASSUME IInv, NEW t \in Thread, Exit(t)
  PROVE  IInv'
<1> USE DEF Exit, At
<1>1. MethodOK' /\ ContextsKept
  BY DEF IInv, MethodOK, ContextsKept, methodVars, codeVars, infoVars, contextVars, vmVars
<1>2. StackOK'
  BY <1>1, ReturnStack DEF IInv
<1>3. MonitorOK'
  BY ReturnExit DEF IInv
<1> QED BY <1>1, <1>2, <1>3 DEF IInv

LEMMA FailStep ==
  ASSUME IInv, NEW t \in Thread, Fail(t)
  PROVE  IInv'
<1> USE DEF Fail, At
<1> DEFINE b == [Top(t) EXCEPT !.pc = "clearflag", !.ok = FALSE]
<1>1. Top(t).pc \in Body
  BY DEF Body
<1>2. /\ b \in Activation /\ b.m = Top(t).m /\ b.pc = "clearflag" /\ b.cc = Top(t).cc
      /\ ~ b.ok /\ Set(t, b)
  <2>1. Set(t, b)
    OBVIOUS
  <2>2. Top(t) \in Activation
    BY <1>1, BodyHeld
  <2> HIDE DEF Fail, At
  <2> QED BY <2>1, <2>2 DEF Activation, PC, Releasing
<1>3. MethodOK' /\ ContextsKept
  BY DEF IInv, MethodOK, ContextsKept, methodVars, codeVars, infoVars, contextVars, vmVars
<1> HIDE DEF b
<1>4. ~ Inside(b) /\ Formed(b, ctx')
  BY <1>1, <1>2, <1>3, BodyHeld DEF Inside, Getting, Body, Releasing, Formed, ContextsKept
<1>5. StackOK'
  BY <1>2, <1>3, <1>4, SetStack DEF IInv
<1>6. MonitorOK'
  BY <1>2, <1>4, SetExit DEF IInv
<1> QED BY <1>3, <1>5, <1>6 DEF IInv

LEMMA ClearFlagStep ==
  ASSUME IInv, NEW t \in Thread, ClearFlag(t)
  PROVE  IInv'
<1> USE DEF ClearFlag, At
<1>1. Top(t).pc \in Releasing
  BY DEF Releasing
<1>2. MethodOK' /\ ContextsKept /\ monitor' = monitor
  BY DEF IInv, MethodOK, ContextsKept, infoVars, contextVars, vmVars
<1> QED BY <1>1, <1>2, ReleasingStep DEF Releasing

-----------------------------------------------------------------------------
(* compileAndInvokeMethod() and the entry points                           *)

\* What an activation that works on a method but on no context knows of itself.
LEMMA Outside ==
  ASSUME IInv, NEW t \in Thread,
         Top(t).pc \in {"count", "compiling", "call", "failed"} \cup NoMethod
  PROVE  /\ Top(t) \in Activation /\ Formed(Top(t), ctx) /\ ~ Inside(Top(t))
         /\ Top(t).pc \notin NoMethod => Top(t).m \in Method
         /\ Top(t).ok
  BY TopType DEF IInv, Formed, NoMethod, Inside, Releasing, Getting, Body

LEMMA CountInvocationStep ==
  ASSUME IInv, NEW t \in Thread, CountInvocation(t)
  PROVE  IInv'
<1> USE DEF CountInvocation, At
<1> DEFINE b == [Top(t) EXCEPT !.pc = "compiling"]
           d == [Top(t) EXCEPT !.pc = "call"]
           s == Start("check", Top(t).m, STAGE_DONE)
<1>1. /\ Top(t) \in Activation /\ Top(t).m \in Method /\ ~ Inside(Top(t)) /\ Top(t).ok
  BY Outside DEF NoMethod
<1>2. AtLeast(count[Top(t).m] + 1, Top(t).m) \in Nat
  <2>1. count[Top(t).m] \in Nat /\ Threshold[Top(t).m] \in Nat
    BY <1>1, BoundAssumption DEF IInv, MethodOK
  <2> QED BY <2>1 DEF AtLeast
<1>3. /\ count' \in [Method -> Nat]
      /\ invoker' \in [Method -> {"interp", "candi", "jit"}]
  BY <1>2 DEF IInv, MethodOK
<1>4. MethodOK' /\ ContextsKept /\ monitor' = monitor
  BY <1>3 DEF IInv, MethodOK, ContextsKept, codeVars, contextVars, vmVars
<1>5. /\ b \in Activation /\ b.pc = "compiling" /\ b.m = Top(t).m /\ b.ok
      /\ d \in Activation /\ d.pc = "call" /\ d.m = Top(t).m /\ d.ok
  BY <1>1 DEF Activation, PC
<1>6. s \in Activation /\ s.pc # "idle" /\ Formed(s, ctx') /\ ~ Inside(s)
  BY <1>1, StartType DEF Stage, STAGE_START, STAGE_DONE
<1>7. Set(t, d) \/ Return(t, TRUE) \/ Call(t, b, s)
  BY DEF Goto
<1> HIDE DEF b, d, s
<1>8. ~ Inside(b) /\ Formed(b, ctx') /\ ~ Inside(d) /\ Formed(d, ctx')
  BY <1>1, <1>5 DEF Formed, NoMethod, HasContext, Inside, Releasing, Getting, Body
<1>9. CASE Set(t, d)
  BY <1>1, <1>4, <1>5, <1>8, <1>9, SetStep
<1>10. CASE Return(t, TRUE)
  BY <1>1, <1>4, <1>10, ReturnStep
<1>11. CASE Call(t, b, s)
  BY <1>1, <1>4, <1>5, <1>6, <1>8, <1>11, CallStep
<1> QED BY <1>7, <1>9, <1>10, <1>11

LEMMA CallInvokerStep ==
  ASSUME IInv, NEW t \in Thread, CallInvoker(t)
  PROVE  IInv'
<1> USE DEF CallInvoker, At
<1>1. MethodOK' /\ ContextsKept /\ monitor' = monitor
  BY DEF IInv, MethodOK, ContextsKept, methodVars, codeVars, infoVars, contextVars, vmVars
<1> QED BY <1>1, Outside, ReturnStep

LEMMA GiveUpStep ==
  ASSUME IInv, NEW t \in Thread, GiveUp(t)
  PROVE  IInv'
<1> USE DEF GiveUp, At
<1>1. MethodOK' /\ ContextsKept /\ monitor' = monitor
  BY DEF IInv, MethodOK, ContextsKept, codeVars, infoVars, contextVars, vmVars
<1> QED BY <1>1, Outside, ReturnStep

LEMMA InvokeStep ==
  ASSUME IInv, NEW t \in Thread, NEW m \in Method, Invoke(t, m)
  PROVE  IInv'
<1> USE DEF Invoke, At
<1> DEFINE s == Start("count", m, STAGE_START)
<1>1. ~ Inside(Top(t)) /\ ~ Inside(NoActivation) /\ NoActivation.pc = "idle"
  BY Outside DEF NoMethod, NoActivation, Inside, Getting, Body, Releasing
<1>2. calls' \in [Thread -> Nat]
  BY DEF IInv, MethodOK
<1>3. MethodOK' /\ ContextsKept /\ monitor' = monitor
  BY <1>2 DEF IInv, MethodOK, ContextsKept, methodVars, codeVars, infoVars, contextVars
<1>4. s \in Activation /\ s.pc # "idle" /\ Formed(s, ctx') /\ ~ Inside(s)
  BY StartType DEF Stage, STAGE_START, STAGE_DONE
<1>5. Call(t, NoActivation, s)
  OBVIOUS
<1> HIDE DEF s
<1>6. StackOK'
  BY <1>1, <1>3, <1>4, <1>5, NoActivationFormed, CallStack DEF IInv
<1>7. MonitorOK'
  BY <1>1, <1>3, <1>4, <1>5, NoActivationFormed, CallSame DEF IInv
<1> QED BY <1>3, <1>6, <1>7 DEF IInv

LEMMA EnableStep ==
  ASSUME IInv, NEW t \in Thread, compilerEnable(t) \/ compilerDisable(t)
  PROVE  IInv'
<1>1. calls' \in [Thread -> Nat] /\ enabled' \in BOOLEAN
  <2>1. calls[t] \in Nat /\ calls[t] > 0 /\ calls' = [calls EXCEPT ![t] = @ - 1]
    BY DEF IInv, MethodOK, compilerEnable, compilerDisable
  <2>2. enabled' = TRUE \/ enabled' = FALSE
    BY DEF compilerEnable, compilerDisable
  <2>3. calls[t] - 1 \in Nat
    BY <2>1
  <2>4. calls' \in [Thread -> Nat]
    BY <2>1, <2>3 DEF IInv, MethodOK
  <2> QED BY <2>2, <2>4
<1>2. UNCHANGED <<methodVars, monitor, global, contextVars, threadVars>>
  BY DEF compilerEnable, compilerDisable
<1>3. MethodOK'
  BY <1>1, <1>2 DEF IInv, MethodOK, methodVars, codeVars, infoVars, contextVars
<1>4. StackOK' /\ MonitorOK'
  BY <1>2 DEF IInv, StackOK, MonitorOK, LockDiscipline, threadVars, contextVars
<1> QED BY <1>3, <1>4 DEF IInv

LEMMA EnterClassLoopStep ==
  ASSUME IInv, NEW t \in Thread, NEW pc \in {"class", "hook"}, EnterClassLoop(t, pc)
  PROVE  IInv'
<1> USE DEF EnterClassLoop, At
<1> DEFINE s == Start(pc, Null, STAGE_START)
<1>1. ~ Inside(Top(t)) /\ ~ Inside(NoActivation) /\ NoActivation.pc = "idle"
  BY Outside DEF NoMethod, NoActivation, Inside, Getting, Body, Releasing
<1>2. calls' \in [Thread -> Nat]
  BY DEF IInv, MethodOK
<1>3. MethodOK' /\ ContextsKept /\ monitor' = monitor
  BY <1>2 DEF IInv, MethodOK, ContextsKept, methodVars, codeVars, infoVars, contextVars
<1>4. s \in Activation /\ s.pc = pc /\ s.ok
  <2>1. s = [pc |-> pc, m |-> Null, target |-> STAGE_START, cc |-> Null, g |-> Null,
             i |-> 1, pass |-> 1, inlined |-> FALSE, ok |-> TRUE]
    <3>1. Start(pc, Null, STAGE_START) =
            [[[NoActivation EXCEPT !.pc = pc] EXCEPT !.m = Null] EXCEPT !.target = STAGE_START]
      BY DEF Start
    <3> QED BY <3>1 DEF NoActivation
  <2>2. pc \in PC /\ STAGE_START \in Stage
    BY DEF PC, Stage, STAGE_START, STAGE_DONE
  <2> QED BY <2>1, <2>2 DEF Activation
<1>5. Call(t, NoActivation, s)
  OBVIOUS
<1> HIDE DEF s
<1>6. Formed(s, ctx') /\ ~ Inside(s)
  BY <1>4 DEF Formed, NoMethod, HasContext, Inside, Getting, Body, Releasing
<1>7. StackOK'
  BY <1>1, <1>3, <1>4, <1>5, <1>6, NoActivationFormed, CallStack DEF IInv
<1>8. MonitorOK'
  BY <1>1, <1>3, <1>4, <1>5, <1>6, NoActivationFormed, CallSame DEF IInv
<1> QED BY <1>3, <1>7, <1>8 DEF IInv

\* The moves of the loops over the methods of a class.
LEMMA LoopSet ==
  ASSUME IInv, NEW t \in Thread, Top(t).pc \in NoMethod \ {"idle"},
         NEW b \in Activation, Set(t, b), b.pc \in NoMethod \ {"idle"},
         b.m = Top(t).m, b.ok, MethodOK', ContextsKept, monitor' = monitor
  PROVE  IInv'
<1>1. ~ Inside(Top(t)) /\ ~ Inside(b) /\ Formed(b, ctx')
  BY Outside DEF Formed, NoMethod, HasContext, Inside, Getting, Body, Releasing
<1> QED BY <1>1, SetStep DEF NoMethod

LEMMA LoopCall ==
  ASSUME IInv, NEW t \in Thread, Top(t).pc \in NoMethod \ {"idle"},
         NEW a \in Activation, NEW g \in Method, NEW pc \in {"publish", "check"},
         NEW target \in Stage, Call(t, a, Start(pc, g, target)),
         a.pc \in NoMethod \ {"idle"}, a.m = Top(t).m, a.ok,
         MethodOK', ContextsKept, monitor' = monitor
  PROVE  IInv'
<1> DEFINE s == Start(pc, g, target)
<1>1. ~ Inside(Top(t)) /\ ~ Inside(a) /\ Formed(a, ctx')
  BY Outside DEF Formed, NoMethod, HasContext, Inside, Getting, Body, Releasing
<1>2. s \in Activation /\ s.pc # "idle" /\ Formed(s, ctx') /\ ~ Inside(s)
  BY StartType
<1>3. Call(t, a, s)
  OBVIOUS
<1> HIDE DEF s
<1> QED BY <1>1, <1>2, <1>3, CallStep DEF NoMethod

LEMMA NextType ==
  ASSUME NEW a \in Activation
  PROVE  /\ [a EXCEPT !.i = @ + 1] \in Activation
         /\ [a EXCEPT !.pc = "hook", !.i = @ + 1] \in Activation
<1>1. a.i + 1 \in Nat \ {0} /\ "hook" \in PC
  BY DEF Activation, PC
<1> QED BY <1>1 DEF Activation

LEMMA CompileNextStep ==
  ASSUME IInv, NEW t \in Thread, CompileNext(t)
  PROVE  IInv'
<1> USE DEF CompileNext, At
<1> DEFINE b == [Top(t) EXCEPT !.i = @ + 1]
           m == ClassMethods[Top(t).i]
<1>1. /\ Top(t) \in Activation /\ ~ Inside(Top(t)) /\ Top(t).ok
      /\ Top(t).pc \in NoMethod \ {"idle"}
  BY Outside DEF NoMethod
<1>2. MethodOK' /\ ContextsKept /\ monitor' = monitor
  BY DEF IInv, MethodOK, ContextsKept, methodVars, codeVars, infoVars, contextVars, vmVars
<1>3. b \in Activation /\ b.pc = Top(t).pc /\ b.m = Top(t).m /\ b.ok
  BY <1>1, NextType DEF Activation
<1>4. /\ Top(t).i <= Len(ClassMethods) => m \in Method
      /\ STAGE_START \in Stage /\ STAGE_DONE \in Stage
  BY <1>1, ProgramAssumption DEF Activation, Stage, STAGE_START, STAGE_DONE
<1>5. CASE Return(t, TRUE)
  BY <1>1, <1>2, <1>5, ReturnStep
<1>6. CASE Top(t).i <= Len(ClassMethods) /\ Call(t, Top(t), Start("publish", m, STAGE_START))
  <2> HIDE DEF m
  <2> QED BY <1>1, <1>2, <1>4, <1>6, LoopCall
<1>7. CASE Top(t).i <= Len(ClassMethods) /\ Call(t, b, Start("check", m, STAGE_DONE))
  <2> HIDE DEF b, m
  <2> QED BY <1>1, <1>2, <1>3, <1>4, <1>7, LoopCall
<1> QED BY <1>5, <1>6, <1>7

LEMMA HookNextStep ==
  ASSUME IInv, NEW t \in Thread, HookNext(t)
  PROVE  IInv'
<1> USE DEF HookNext, At
<1> DEFINE b == [Top(t) EXCEPT !.pc = "hooktest"]
           m == ClassMethods[Top(t).i]
<1>1. /\ Top(t) \in Activation /\ ~ Inside(Top(t)) /\ Top(t).ok
      /\ Top(t).pc \in NoMethod \ {"idle"}
  BY Outside DEF NoMethod
<1>2. MethodOK' /\ ContextsKept /\ monitor' = monitor
  BY DEF IInv, MethodOK, ContextsKept, methodVars, codeVars, infoVars, contextVars, vmVars
<1>3. b \in Activation /\ b.pc = "hooktest" /\ b.m = Top(t).m /\ b.ok
  BY <1>1 DEF Activation, PC
<1>4. /\ Top(t).i <= Len(ClassMethods) => m \in Method
      /\ STAGE_START \in Stage
  BY <1>1, ProgramAssumption DEF Activation, Stage, STAGE_START, STAGE_DONE
<1>5. CASE Return(t, TRUE)
  BY <1>1, <1>2, <1>5, ReturnStep
<1>6. CASE Top(t).i <= Len(ClassMethods) /\ Call(t, b, Start("publish", m, STAGE_START))
  <2> HIDE DEF b, m
  <2> QED BY <1>1, <1>2, <1>3, <1>4, <1>6, LoopCall DEF NoMethod
<1> QED BY <1>5, <1>6

LEMMA HookTestStep ==
  ASSUME IInv, NEW t \in Thread, HookTest(t)
  PROVE  IInv'
<1> USE DEF HookTest, At
<1> DEFINE b == [Top(t) EXCEPT !.pc = "hookset"]
           d == [Top(t) EXCEPT !.pc = "hook", !.i = @ + 1]
<1>1. Top(t) \in Activation /\ Top(t).ok /\ Top(t).pc \in NoMethod \ {"idle"}
  BY Outside DEF NoMethod
<1>2. MethodOK' /\ ContextsKept /\ monitor' = monitor
  BY DEF IInv, MethodOK, ContextsKept, methodVars, codeVars, infoVars, contextVars, vmVars
<1>3. b \in Activation /\ b.pc = "hookset" /\ b.m = Top(t).m /\ b.ok
  BY <1>1 DEF Activation, PC
<1>4. d \in Activation /\ d.pc = "hook" /\ d.m = Top(t).m /\ d.ok
  BY <1>1, NextType DEF Activation
<1>5. Set(t, b) \/ Set(t, d)
  BY DEF Goto
<1> HIDE DEF b, d
<1> QED BY <1>1, <1>2, <1>3, <1>4, <1>5, LoopSet DEF NoMethod

LEMMA HookSetStep ==
  ASSUME IInv, NEW t \in Thread, HookSet(t)
  PROVE  IInv'
<1> USE DEF HookSet, At
<1> DEFINE d == [Top(t) EXCEPT !.pc = "hook", !.i = @ + 1]
<1>1. Top(t) \in Activation /\ Top(t).ok /\ Top(t).pc \in NoMethod \ {"idle"}
  BY Outside DEF NoMethod
<1>2. MethodOK' /\ ContextsKept /\ monitor' = monitor
  BY DEF IInv, MethodOK, ContextsKept, codeVars, infoVars, contextVars, vmVars
<1>3. d \in Activation /\ d.pc = "hook" /\ d.m = Top(t).m /\ d.ok
  BY <1>1, NextType DEF Activation
<1>4. Set(t, d)
  OBVIOUS
<1> HIDE DEF d
<1> QED BY <1>1, <1>2, <1>3, <1>4, LoopSet DEF NoMethod

-----------------------------------------------------------------------------
(* The invariant.                                                          *)

LEMMA InitIInv == Init => IInv
<1> SUFFICES ASSUME Init PROVE IInv
  OBVIOUS
<1>1. /\ stack \in [Thread -> [0 .. MaxDepth -> Activation]]
      /\ depth \in [Thread -> 0 .. MaxDepth]
      /\ \A t \in Thread, i \in 0 .. MaxDepth : stack[t][i] = NoActivation
      /\ \A t \in Thread : depth[t] = 0
  BY NoActivationFormed, BoundAssumption DEF Init
<1>2. NoActivation.pc = "idle" /\ NoActivation.m = Null /\ NoActivation.ok
  BY DEF NoActivation
<1>3. StackOK
  BY <1>1, <1>2, NoActivationFormed DEF StackOK
<1>4. FreshContext(Null) \in ContextType
  <2>1. << >> \in Seq(Method) /\ STAGE_START \in Stage
    BY DEF Stage, STAGE_START, STAGE_DONE
  <2> QED BY <2>1 DEF FreshContext, ContextType
<1>5. ctx \in [Context -> ContextType]
  BY <1>4 DEF Init
<1>6. MethodOK
  BY <1>5, BoundAssumption DEF Init, MethodOK
<1>7. MonitorOK
  BY <1>1, <1>2, NullAssumption DEF Init, MonitorOK, LockDiscipline
<1> QED BY <1>3, <1>6, <1>7 DEF IInv

LEMMA EntersStep ==
  ASSUME IInv, NEW t \in Thread, Enters(t)
  PROVE  IInv'
<1>1. CASE compileClass(t)
  BY <1>1, EnterClassLoopStep DEF compileClass
<1>2. CASE initializeClassForJIT(t)
  BY <1>2, EnterClassLoopStep DEF initializeClassForJIT
<1> QED BY <1>1, <1>2, InvokeStep, EnableStep DEF Enters

LEMMA RunsStep ==
  ASSUME IInv, NEW t \in Thread, Runs(t)
  PROVE  IInv'
<1>1. CASE Publish(t) \/ InitInfo(t) \/ Lookup(t) \/ Get(t) \/ Pop(t) \/ Reset(t) \/ Ref(t)
  BY <1>1, PublishStep, InitInfoStep, LookupStep, GetStep, PopStep, ResetStep, RefStep
<1>2. CASE Unref(t) \/ Unlink(t) \/ Link(t) \/ Push(t)
  BY <1>2, UnrefStep, UnlinkStep, LinkStep, PushStep
<1>3. CASE Check(t) \/ StageCheck(t) \/ Enter(t)
           \/ FrontFails(t) \/ Front(t) \/ Preserve(t) \/ Internal(t)
  BY <1>3, CheckStep, StageCheckStep, EnterStep, FrontFailsStep, FrontStep, PreserveStep,
     InternalStep
<1>4. CASE InlineScan(t) \/ InlineSite(t) \/ InlinePassEnd(t)
           \/ EagerScan(t) \/ EagerSite(t) \/ EagerEnd(t)
  BY <1>4, InlineScanStep, InlineSiteStep, InlinePassEndStep, EagerScanStep,
     EagerSiteStep, EagerEndStep
<1>5. CASE WriteFails(t) \/ Write(t) \/ Static(t) \/ Install(t) \/ Finish(t)
           \/ Exit(t) \/ Fail(t) \/ ClearFlag(t)
  BY <1>5, WriteFailsStep, WriteStep, StaticStep, InstallStep, FinishStep, ExitStep,
     FailStep, ClearFlagStep
<1>6. CASE CountInvocation(t) \/ CallInvoker(t) \/ GiveUp(t)
           \/ CompileNext(t) \/ HookNext(t) \/ HookTest(t) \/ HookSet(t)
  BY <1>6, CountInvocationStep, CallInvokerStep, GiveUpStep, CompileNextStep,
     HookNextStep, HookTestStep, HookSetStep
<1> QED BY <1>1, <1>2, <1>3, <1>4, <1>5, <1>6 DEF Runs

LEMMA StutterStep ==
  ASSUME IInv, UNCHANGED vars
  PROVE  IInv'
<1> USE DEF vars, methodVars, codeVars, infoVars, contextVars, threadVars, vmVars
<1>1. StackOK'
  BY DEF IInv, StackOK
<1>2. MethodOK'
  BY DEF IInv, MethodOK
<1>3. MonitorOK'
  BY DEF IInv, MonitorOK, LockDiscipline
<1> QED BY <1>1, <1>2, <1>3 DEF IInv

\* The stacks are well formed, the fields of the methods and contexts have their
\* types, and the monitors are held as LockDiscipline says, in every behaviour of
\* compileMethod() and its callers.
THEOREM Invariance == Spec => []IInv
<1>1. Init => IInv
  BY InitIInv
<1>2. IInv /\ [Next]_vars => IInv'
  BY EntersStep, RunsStep, StutterStep DEF Next, Quiet
<1> QED BY <1>1, <1>2, PTL DEF Spec

\* Every variable keeps its type, whatever the threads, methods and call graph.
THEOREM TypeCorrectness == Spec => []TypeOK
<1>1. IInv => TypeOK
  BY DEF IInv, StackOK, MethodOK, MonitorOK, TypeOK, ContextType
<1> QED BY <1>1, Invariance, PTL

\* info->monitor is entered and left in pairs on every path through
\* getCompilerContext() and compileMethod(), the failing and the recursive ones
\* included, and no two threads are inside it: for any number of threads and
\* methods and any call graph.
THEOREM MonitorPairing == Spec => []LockDiscipline
<1>1. IInv => LockDiscipline
  BY DEF IInv, MonitorOK
<1> QED BY <1>1, Invariance, PTL

\* No two threads are between the lock and the unlock of compileMethod() for the
\* same method, whichever CompilerContexts they were given.
THEOREM CompilationExcludes == Spec => []BodyExclusion
<1>1. IInv => BodyExclusion
  <2> SUFFICES ASSUME IInv, NEW m \in Method, NEW t \in Thread, NEW u \in Thread,
                      NEW i \in 0 .. MaxDepth, NEW j \in 0 .. MaxDepth,
                      InBody(t, i, m), InBody(u, j, m)
               PROVE  t = u
    BY DEF BodyExclusion
  <2>1. <<t, i>> \in monitor[m] /\ <<u, j>> \in monitor[m]
    BY DEF IInv, MonitorOK, LockDiscipline, InBody
  <2> QED BY <2>1 DEF IInv, MonitorOK, LockDiscipline
<1> QED BY <1>1, Invariance, PTL
-----------------------------------------------------------------------------
(* One thread alone.                                                       *)

\* One thread uses the compiler.  With two, the unlocked accesses to cc_pool and
\* mb->invoker let a context or a method be used twice.
Alone == \A t, u \in Thread : t = u

-----------------------------------------------------------------------------
(* The invariant.                                                          *)

\* pcs of compileMethod(), and of the calls it makes for its own method
Compiling == {"check", "lookup", "stagecheck", "enter"} \cup Getting \cup Body \cup Releasing

\* pcs of the functions that are called from outside the compiler
Entry == {"count", "compiling", "call", "failed", "class", "hook", "hooktest", "hookset"}

\* pcs at which an activation waits for one it called
Waiting == {"idle", "lookup", "inline", "inlined", "eager", "eagered", "compiling",
            "class", "hooktest"}

\* pcs at which info->cc of the method is the context of the activation
Holding == {"ref", "stagecheck", "enter", "clearflag", "release", "unlink"} \cup (Body \ {"exit"})

\* pcs between the unlocked test of mb->invoker and its change to the compiled code
Before == {"lookup", "get", "pop", "reset", "ref", "stagecheck", "enter", "failed"}
          \cup (Body \ {"exit", "finish"})

\* pcs at which the internal code is complete, and the native code is not
Internals == {"internal", "inline", "inlined", "eager", "eagered", "write"}

\* pcs at which compileMethod() is half way through a change of state
Mids == {"preserve", "static", "install", "finish"}

\* Activation a has called b.
Linked(a, b) ==
  /\ a.pc \in Waiting
  /\ a.pc = "idle" <=> b.pc \in Entry
  /\ a.pc \in {"lookup", "inline", "eager"} => b.pc \in {"publish", "initinfo"}
  /\ a.pc \in {"inlined", "eagered", "compiling"} => b.pc \in Compiling
  /\ a.pc = "lookup" => b.m = a.m
  /\ a.pc = "compiling" => b.m = a.m /\ b.target = STAGE_DONE

\* The activations of t are nested as the code calls them, and the methods under
\* compilation differ.
Nested(t) ==
  /\ \A i \in 0 .. MaxDepth : i < depth[t] => Linked(stack[t][i], stack[t][i + 1])
  /\ \A i, j \in 0 .. MaxDepth :
       (i < j /\ j <= depth[t] /\ stack[t][i].pc \in Body /\ stack[t][j].pc \in Compiling)
         => stack[t][i].m # stack[t][j].m

\* No CodeInfo points to context c.
Loose(c) == \A m \in Method : infocc[m] # c

\* Every attempt at the method has failed in writeCode(), or before it.
AllParts(passes) == \A k \in 1 .. Len(passes) : passes[k] = "part"

\* Method m has its native code, ...
Compiled(m) ==
  /\ code[m] # Null
  /\ OneWholePass(throwtable[m])
  /\ m \notin MayFail => code[m] = m /\ Len(throwtable[m]) = 1

\* ... or nothing that could be taken for it.
Uncompiled(m) ==
  /\ AllParts(throwtable[m])
  /\ m \notin MayFail => throwtable[m] = <<>>
  /\ ~ compiledflag[m] /\ m \notin direct

\* What activation a may rely on, from pc to pc: on its context, ...
OwnContext(a) ==
  /\ a.pc \in Holding => infocc[a.m] = a.cc
  /\ a.pc \in Holding \ {"ref", "unlink"} => ctx[a.cc].ref >= 1
  /\ a.pc \in {"front", "preserve"} => ctx[a.cc].stage = STAGE_START
  /\ a.pc = "preserve" =>
       ctx[a.cc].body # Null /\ (a.m \notin MayFail => ctx[a.cc].body = a.m)
  /\ a.pc \in Internals => ctx[a.cc].stage = STAGE_INTERNAL_CODE
  /\ a.pc \in {"static", "install", "finish"} => ctx[a.cc].stage = STAGE_STATIC_PART
  /\ a.pc = "inlined" => a.i <= Len(ctx[a.cc].sites)
  /\ a.pc = "pop" => a.cc = pool
  /\ a.pc \in {"pop", "reset"} => infocc[a.m] = Null
  /\ a.pc \in {"reset", "link", "push"} => Loose(a.cc) /\ Allocated(a.cc)
  /\ a.pc = "push" => ctx[a.cc].next = pool

\* ... and on the state of its method.
OwnMethod(a) ==
  /\ a.pc \in Before \/ (a.pc \in Releasing /\ ~ a.ok) => invoker[a.m] # "jit"
  /\ \/ a.pc \in Releasing \ {"clearflag"} /\ a.ok
     \/ a.pc = "exit" /\ a.target = STAGE_DONE
     \/ a.pc \in {"finish", "call"}
     => invoker[a.m] = "jit"
  /\ a.pc \in Internals \cup {"preserve"} => inlineability[a.m] # "unknown"
  /\ a.pc = "initinfo" => info[a.m] = "published"
  /\ a.pc \in Compiling \ {"check", "lookup"} => info[a.m] = "ready"
  /\ a.pc = "preserve" => Uncompiled(a.m)
  /\ a.pc \in {"static", "install", "finish"} => Compiled(a.m) /\ inlineability[a.m] # "bare"
  /\ a.pc \in {"install", "finish"} => linked[a.m]
  /\ a.pc = "clearflag" => ~ a.ok
  /\ a.pc \in {"hooktest", "hookset"} => a.i <= Len(ClassMethods)
  /\ a.pc = "hookset" => code[ClassMethods[a.i]] = Null

\* A thread is half way through a change of the state of m.
Midway(m) == \E t \in Thread : Top(t).pc \in Mids /\ Top(t).m = m

\* Method m, whatever fails
MethodState(m) ==
  /\ infocc[m] # Null =>
       /\ ctx[infocc[m]].mb = m
       /\ ctx[infocc[m]].ref >= 0
       /\ ctx[infocc[m]].stage = STAGE_INTERNAL_CODE =>
            ctx[infocc[m]].body # Null /\ inlineability[m] # "unknown"
       /\ ctx[infocc[m]].stage = STAGE_STATIC_PART => Midway(m)
       /\ ctx[infocc[m]].stage = STAGE_DONE => invoker[m] = "jit"
  /\ (infocc[m] # Null \/ inlineability[m] # "unknown" \/ throwtable[m] # <<>>) => info[m] = "ready"
  /\ inlineability[m] = "bare" => Midway(m)
  /\ invoker[m] = "jit" => Compiled(m) /\ linked[m]
  /\ invoker[m] # "jit" /\ ~ Midway(m) => Uncompiled(m)
  /\ compiledflag[m] \/ m \in direct => Compiled(m) /\ linked[m] /\ (invoker[m] = "jit" \/ Midway(m))

\* The context of method m, if its own compilation cannot fail
CodeState(m) ==
  infocc[m] # Null =>
    /\ ctx[infocc[m]].stage = STAGE_START => ctx[infocc[m]].body = Null \/ Midway(m)
    /\ ctx[infocc[m]].stage = STAGE_INTERNAL_CODE => ctx[infocc[m]].body = m

\* The contexts nobody has: they are in the pool.
Free == {c \in Context : /\ Allocated(c) /\ Loose(c)
                         /\ \A t \in Thread : Top(t).pc \in {"reset", "link", "push"} => Top(t).cc # c}

\* cc_pool is a list of them, without a cycle.
PoolOK ==
  /\ pool \in Free \cup {Null}
  /\ \A c \in Free : /\ ctx[c].next \in Free \cup {Null}
                     /\ ctx[c].next # Null => ctx[c].next # pool
  /\ \A c, d \in Free : ctx[c].next = ctx[d].next /\ ctx[c].next # Null => c = d

Frames == \A t \in Thread, i \in 0 .. MaxDepth :
            i <= depth[t] => OwnContext(stack[t][i]) /\ OwnMethod(stack[t][i])

Nesting == \A t \in Thread : Nested(t)

Methods == (\A m \in Method : MethodState(m)) /\ (\A m \in Method \ MayFail : CodeState(m))

\* A CodeInfo is visible before its fields are set only inside
\* prepareCompiledCodeInfo(), and compileMethod() goes on with one that is ready.
Prepared ==
  \A t \in Thread :
    /\ Top(t).pc = "lookup" => info[Top(t).m] = "ready"
    /\ \A m \in Method : info[m] = "published" => Top(t).pc = "initinfo" /\ Top(t).m = m

Solo == Nesting /\ Frames /\ Methods /\ PoolOK /\ Prepared

-----------------------------------------------------------------------------
(* The moves of the thread, as in CompilationProofs.                       *)

\* An activation that was a becomes b, in the same function for the same method.
Follows(a, b) ==
  /\ a.pc \in Entry <=> b.pc \in Entry
  /\ a.pc \in {"publish", "initinfo"} <=> b.pc \in {"publish", "initinfo"}
  /\ b.pc \in Compiling <=> a.pc \in Compiling
  /\ a.pc \in Compiling \cup {"publish", "initinfo"} => b.m = a.m
  /\ a.pc \in Compiling => b.target = a.target

\* What the activations below the running one rely on stays true.
LowerOK(t) ==
  \A i \in 0 .. MaxDepth, a \in Activation :
    i < depth[t] /\ a = stack[t][i] => OwnContext(a)' /\ OwnMethod(a)'

LEMMA TopSet ==
  ASSUME StackOK, NEW t \in Thread, NEW b, Set(t, b)
  PROVE  /\ depth[t] \in 0 .. MaxDepth /\ depth' = depth /\ Top(t)' = b
         /\ stack'[t][depth[t]] = b
         /\ \A i \in 0 .. MaxDepth : i # depth[t] => stack'[t][i] = stack[t][i]
<1>1. depth[t] \in 0 .. MaxDepth /\ depth' = depth
  BY TopType DEF Set
<1>2. stack'[t] = [stack[t] EXCEPT ![depth[t]] = b]
  BY DEF Set, StackOK
<1>3. /\ stack'[t][depth[t]] = b
      /\ \A i \in 0 .. MaxDepth : i # depth[t] => stack'[t][i] = stack[t][i]
  BY <1>1, <1>2 DEF StackOK
<1>4. Top(t)' = stack'[t][depth'[t]]
  BY DEF Top
<1>5. QED
  BY <1>1, <1>3, <1>4

LEMMA TopCall ==
  ASSUME StackOK, NEW t \in Thread, NEW a, NEW b, Call(t, a, b)
  PROVE  /\ depth[t] \in 0 .. MaxDepth /\ depth[t] + 1 \in 0 .. MaxDepth
         /\ depth'[t] = depth[t] + 1 /\ Top(t)' = b
         /\ stack'[t][depth[t]] = a /\ stack'[t][depth[t] + 1] = b
         /\ \A i \in 0 .. MaxDepth : i < depth[t] => stack'[t][i] = stack[t][i]
<1>1. /\ depth[t] \in 0 .. MaxDepth /\ depth'[t] = depth[t] + 1 /\ depth[t] + 1 \in 0 .. MaxDepth
      /\ depth[t] # depth[t] + 1
  BY TopType, BoundAssumption DEF Call, StackOK
<1>2. stack'[t] = [stack[t] EXCEPT ![depth[t]] = a, ![depth[t] + 1] = b]
  BY DEF Call, StackOK
<1>3. /\ stack'[t][depth[t]] = a /\ stack'[t][depth[t] + 1] = b
      /\ \A i \in 0 .. MaxDepth : i < depth[t] => stack'[t][i] = stack[t][i]
  <2>1. PICK f, d : f = stack[t] /\ d = depth[t]
    OBVIOUS
  <2>2. f \in [0 .. MaxDepth -> Activation] /\ d \in 0 .. MaxDepth /\ d + 1 \in 0 .. MaxDepth
        /\ stack'[t] = [f EXCEPT ![d] = a, ![d + 1] = b] /\ MaxDepth \in Nat
    BY <1>1, <1>2, <2>1, BoundAssumption DEF StackOK
  <2>3. stack'[t][d] = a /\ stack'[t][d + 1] = b
    BY <2>2
  <2>4. \A i \in 0 .. MaxDepth : i < d => stack'[t][i] = f[i]
    BY <2>2
  <2>5. QED
    BY <2>1, <2>3, <2>4
<1>4. Top(t)' = stack'[t][depth'[t]]
  BY DEF Top
<1>5. QED
  BY <1>1, <1>3, <1>4

LEMMA TopReturn ==
  ASSUME StackOK, NEW t \in Thread, NEW ok \in BOOLEAN, Return(t, ok), Top(t).pc # "idle"
  PROVE  /\ depth[t] \in 0 .. MaxDepth /\ depth[t] - 1 \in 0 .. MaxDepth
         /\ depth'[t] = depth[t] - 1 /\ Top(t)' = Resume(stack[t][depth[t] - 1], ok)
         /\ stack'[t][depth[t] - 1] = Resume(stack[t][depth[t] - 1], ok)
         /\ \A i \in 0 .. MaxDepth : i < depth[t] - 1 => stack'[t][i] = stack[t][i]
<1>1. /\ depth[t] \in 0 .. MaxDepth /\ depth'[t] = depth[t] - 1 /\ depth[t] - 1 \in 0 .. MaxDepth
  BY TopType, BoundAssumption DEF Return, StackOK
<1>2. ASSUME NEW i \in 0 .. MaxDepth
      PROVE  stack'[t][i] = IF i = depth[t] - 1 THEN Resume(stack[t][i], ok)
                            ELSE IF i = depth[t] THEN NoActivation ELSE stack[t][i]
  BY DEF StackOK, Return
<1>3. Top(t)' = stack'[t][depth'[t]]
  BY DEF Top
<1>4. QED
  BY <1>1, <1>2, <1>3

LEMMA NestingSet ==
  ASSUME Alone, StackOK, Nesting, NEW t \in Thread, NEW b, Set(t, b), Follows(Top(t), b)
  PROVE  Nesting'
<1>1. Nested(t)
  BY DEF Nesting
<1>2. /\ depth[t] \in 0 .. MaxDepth /\ depth' = depth /\ stack'[t][depth[t]] = b
      /\ \A i \in 0 .. MaxDepth : i # depth[t] => stack'[t][i] = stack[t][i]
  BY TopSet
<1>3. Top(t) = stack[t][depth[t]]
  BY DEF Top
<1>4. ASSUME NEW i \in 0 .. MaxDepth, i < depth'[t]
      PROVE  Linked(stack'[t][i], stack'[t][i + 1])
  <2>1. i + 1 \in 0 .. MaxDepth /\ i # depth[t] /\ stack'[t][i] = stack[t][i]
    BY <1>2, <1>4, BoundAssumption
  <2>2. Linked(stack[t][i], stack[t][i + 1])
    BY <1>1, <1>2, <1>4 DEF Nested
  <2>3. CASE i + 1 # depth[t]
    BY <1>2, <2>1, <2>2, <2>3
  <2>4. CASE i + 1 = depth[t]
    <3>1. Linked(stack[t][i], Top(t)) /\ stack'[t][i + 1] = b
      BY <1>2, <1>3, <2>2, <2>4
    <3>2. Linked(stack[t][i], b)
      BY <3>1 DEF Linked, Follows
    <3>3. QED
      BY <2>1, <3>1, <3>2
  <2>5. QED
    BY <2>3, <2>4
<1>5. ASSUME NEW i \in 0 .. MaxDepth, NEW j \in 0 .. MaxDepth, i < j, j <= depth'[t],
             stack'[t][i].pc \in Body, stack'[t][j].pc \in Compiling
      PROVE  stack'[t][i].m # stack'[t][j].m
  <2>1. i # depth[t] /\ stack'[t][i] = stack[t][i]
    BY <1>2, <1>5
  <2>2. CASE j # depth[t]
    <3>1. stack'[t][j] = stack[t][j]
      BY <1>2, <2>2
    <3>2. QED
      BY <1>1, <1>2, <1>5, <2>1, <3>1 DEF Nested
  <2>3. CASE j = depth[t]
    <3>1. Top(t).pc \in Compiling /\ stack'[t][j] = b /\ b.m = Top(t).m
      BY <1>2, <1>5, <2>3 DEF Follows
    <3>2. QED
      BY <1>1, <1>2, <1>3, <1>5, <2>1, <2>3, <3>1 DEF Nested
  <2>4. QED
    BY <2>2, <2>3
<1>6. Nested(t)'
  BY <1>4, <1>5 DEF Nested
<1>7. QED
  BY <1>6 DEF Alone, Nesting

LEMMA NestingCall ==
  ASSUME Alone, StackOK, Nesting, NEW t \in Thread, NEW a, NEW b, Call(t, a, b),
         Follows(Top(t), a), Linked(a, b),
         b.pc \in Compiling => /\ a.pc \in Body => a.m # b.m
                               /\ \A i \in 0 .. MaxDepth : i < depth[t] /\ stack[t][i].pc \in Body
                                                             => stack[t][i].m # b.m
  PROVE  Nesting'
<1>1. Nested(t)
  BY DEF Nesting
<1>2. /\ depth[t] \in 0 .. MaxDepth /\ depth[t] + 1 \in 0 .. MaxDepth /\ depth'[t] = depth[t] + 1
      /\ stack'[t][depth[t]] = a /\ stack'[t][depth[t] + 1] = b
      /\ \A i \in 0 .. MaxDepth : i < depth[t] => stack'[t][i] = stack[t][i]
  BY TopCall
<1>3. Top(t) = stack[t][depth[t]]
  BY DEF Top
<1>4. ASSUME NEW i \in 0 .. MaxDepth, i < depth'[t]
      PROVE  Linked(stack'[t][i], stack'[t][i + 1])
  <2>1. CASE i = depth[t]
    BY <1>2, <2>1
  <2>2. CASE i + 1 = depth[t]
    <3>1. Linked(stack[t][i], Top(t)) /\ stack'[t][i + 1] = a /\ stack'[t][i] = stack[t][i]
      BY <1>1, <1>2, <1>3, <2>2 DEF Nested
    <3>2. Linked(stack[t][i], a)
      BY <3>1 DEF Linked, Follows
    <3>3. QED
      BY <3>1, <3>2
  <2>3. CASE i # depth[t] /\ i + 1 # depth[t]
    <3>1. i < depth[t] /\ i + 1 < depth[t] /\ i + 1 \in 0 .. MaxDepth
      BY <1>2, <1>4, <2>3, BoundAssumption
    <3>2. QED
      BY <1>1, <1>2, <3>1 DEF Nested
  <2>4. QED
    BY <2>1, <2>2, <2>3
<1>5. ASSUME NEW i \in 0 .. MaxDepth, NEW j \in 0 .. MaxDepth, i < j, j <= depth'[t],
             stack'[t][i].pc \in Body, stack'[t][j].pc \in Compiling
      PROVE  stack'[t][i].m # stack'[t][j].m
  <2>1. CASE j = depth[t] + 1
    <3>1. CASE i = depth[t]
      BY <1>2, <1>5, <2>1, <3>1
    <3>2. CASE i # depth[t]
      <4>1. i < depth[t] /\ stack'[t][i] = stack[t][i]
        BY <1>2, <1>5, <2>1, <3>2
      <4>2. QED
        BY <1>2, <1>5, <2>1, <4>1
    <3>3. QED
      BY <3>1, <3>2
  <2>2. CASE j = depth[t]
    <3>1. i < depth[t] /\ stack'[t][i] = stack[t][i] /\ stack'[t][j] = a
      BY <1>2, <1>5, <2>2
    <3>2. Top(t).pc \in Compiling /\ a.m = Top(t).m
      BY <1>5, <3>1 DEF Follows
    <3>3. QED
      BY <1>1, <1>2, <1>3, <1>5, <2>2, <3>1, <3>2 DEF Nested
  <2>3. CASE j < depth[t]
    <3>1. i < depth[t] /\ stack'[t][i] = stack[t][i] /\ stack'[t][j] = stack[t][j]
      BY <1>2, <1>5, <2>3
    <3>2. QED
      BY <1>1, <1>2, <1>5, <2>3, <3>1 DEF Nested
  <2>4. QED
    BY <1>2, <1>5, <2>1, <2>2, <2>3
<1>6. Nested(t)'
  BY <1>4, <1>5 DEF Nested
<1>7. QED
  BY <1>6 DEF Alone, Nesting

LEMMA FrameType ==
  ASSUME StackOK, NEW t \in Thread, NEW i \in 0 .. MaxDepth
  PROVE  stack[t][i] \in Activation
BY DEF StackOK

LEMMA ResumeFollows ==
  ASSUME NEW a \in Activation, NEW ok \in BOOLEAN
  PROVE  /\ Follows(a, Resume(a, ok)) /\ Resume(a, ok) \in Activation
         /\ Resume(a, ok).m = a.m
         /\ a.pc # "compiling" => Resume(a, ok) = a
         /\ a.pc = "compiling" => Resume(a, ok).pc = IF ok THEN "call" ELSE "failed"
<1>1. CASE a.pc # "compiling"
  BY <1>1 DEF Resume, Follows
<1>2. CASE a.pc = "compiling"
  <2>1. PICK b : b = [a EXCEPT !.pc = IF ok THEN "call" ELSE "failed"]
    OBVIOUS
  <2>2. b.pc = (IF ok THEN "call" ELSE "failed") /\ b.m = a.m /\ b.pc \in {"call", "failed"}
        /\ b \in Activation
    BY <2>1 DEF Activation, PC
  <2>3. Resume(a, ok) = b
    BY <1>2, <2>1 DEF Resume
  <2>4. Follows(a, b)
    BY <1>2, <2>2 DEF Follows, Entry, Compiling, Getting, Body, Releasing
  <2>5. QED
    BY <1>2, <2>2, <2>3, <2>4
<1>3. QED
  BY <1>1, <1>2

LEMMA NestingReturn ==
  ASSUME Alone, StackOK, Nesting, NEW t \in Thread, NEW ok \in BOOLEAN, Return(t, ok),
         Top(t).pc # "idle"
  PROVE  Nesting'
<1>1. Nested(t)
  BY DEF Nesting
<1>2. PICK d : d = depth[t] - 1
  OBVIOUS
<1>3. PICK a : a = stack[t][d]
  OBVIOUS
<1>4. PICK b : b = Resume(a, ok)
  OBVIOUS
<1>5. /\ d \in 0 .. MaxDepth /\ d + 1 \in 0 .. MaxDepth /\ depth'[t] = d /\ depth[t] = d + 1
      /\ stack'[t][d] = b
      /\ \A i \in 0 .. MaxDepth : i < d => stack'[t][i] = stack[t][i]
  BY <1>2, <1>3, <1>4, TopReturn
<1>6. Follows(a, b)
  BY <1>3, <1>4, <1>5, FrameType, ResumeFollows
<1>7. ASSUME NEW i \in 0 .. MaxDepth, i < depth'[t]
      PROVE  Linked(stack'[t][i], stack'[t][i + 1])
  <2>1. i + 1 \in 0 .. MaxDepth /\ i < d /\ stack'[t][i] = stack[t][i] /\ i < depth[t]
    BY <1>5, <1>7, BoundAssumption
  <2>2. Linked(stack[t][i], stack[t][i + 1])
    BY <1>1, <2>1 DEF Nested
  <2>3. CASE i + 1 # d
    BY <1>5, <2>1, <2>2, <2>3
  <2>4. CASE i + 1 = d
    <3>1. Linked(stack[t][i], b)
      BY <1>3, <1>6, <2>2, <2>4 DEF Linked, Follows
    <3>2. QED
      BY <1>5, <2>1, <2>4, <3>1
  <2>5. QED
    BY <2>3, <2>4
<1>8. ASSUME NEW i \in 0 .. MaxDepth, NEW j \in 0 .. MaxDepth, i < j, j <= depth'[t],
             stack'[t][i].pc \in Body, stack'[t][j].pc \in Compiling
      PROVE  stack'[t][i].m # stack'[t][j].m
  <2>1. i < d /\ stack'[t][i] = stack[t][i] /\ j <= depth[t]
    BY <1>5, <1>8
  <2>2. CASE j # d
    BY <1>1, <1>5, <1>8, <2>1, <2>2 DEF Nested
  <2>3. CASE j = d
    <3>1. a.pc \in Compiling /\ stack'[t][j] = b /\ b.m = a.m
      BY <1>5, <1>6, <1>8, <2>3 DEF Follows
    <3>2. QED
      BY <1>1, <1>3, <1>8, <2>1, <2>3, <3>1 DEF Nested
  <2>4. QED
    BY <2>2, <2>3
<1>9. Nested(t)'
  BY <1>7, <1>8 DEF Nested
<1>10. QED
  BY <1>9 DEF Alone, Nesting

LEMMA FramesSet ==
  ASSUME Alone, StackOK, NEW t \in Thread, NEW b, Set(t, b), LowerOK(t),
         OwnContext(b)', OwnMethod(b)'
  PROVE  Frames'
<1>1. /\ depth[t] \in 0 .. MaxDepth /\ depth' = depth /\ stack'[t][depth[t]] = b
      /\ \A i \in 0 .. MaxDepth : i # depth[t] => stack'[t][i] = stack[t][i]
  BY TopSet
<1>2. ASSUME NEW i \in 0 .. MaxDepth, i <= depth'[t]
      PROVE  OwnContext(stack[t][i])' /\ OwnMethod(stack[t][i])'
  <2>1. PICK a : a = stack'[t][i]
    OBVIOUS
  <2>2. OwnContext(a)' /\ OwnMethod(a)'
    <3>1. CASE i = depth[t]
      BY <1>1, <2>1, <3>1
    <3>2. CASE i # depth[t]
      <4>1. i < depth[t] /\ a = stack[t][i] /\ a \in Activation
        BY <1>1, <1>2, <2>1, <3>2, FrameType
      <4>2. QED
        BY <4>1 DEF LowerOK
    <3>3. QED
      BY <3>1, <3>2
  <2>3. QED
    BY <2>1, <2>2
<1>3. QED
  BY <1>2 DEF Frames, Alone

LEMMA FramesCall ==
  ASSUME Alone, StackOK, NEW t \in Thread, NEW a, NEW b, Call(t, a, b), LowerOK(t),
         OwnContext(a)', OwnMethod(a)', OwnContext(b)', OwnMethod(b)'
  PROVE  Frames'
<1>1. /\ depth[t] \in 0 .. MaxDepth /\ depth'[t] = depth[t] + 1
      /\ stack'[t][depth[t]] = a /\ stack'[t][depth[t] + 1] = b
      /\ \A i \in 0 .. MaxDepth : i < depth[t] => stack'[t][i] = stack[t][i]
  BY TopCall
<1>2. ASSUME NEW i \in 0 .. MaxDepth, i <= depth'[t]
      PROVE  OwnContext(stack[t][i])' /\ OwnMethod(stack[t][i])'
  <2>1. PICK x : x = stack'[t][i]
    OBVIOUS
  <2>2. OwnContext(x)' /\ OwnMethod(x)'
    <3>1. CASE i = depth[t]
      BY <1>1, <2>1, <3>1
    <3>2. CASE i = depth[t] + 1
      BY <1>1, <2>1, <3>2
    <3>3. CASE i # depth[t] /\ i # depth[t] + 1
      <4>1. i < depth[t] /\ x = stack[t][i] /\ x \in Activation
        BY <1>1, <1>2, <2>1, <3>3, FrameType
      <4>2. QED
        BY <4>1 DEF LowerOK
    <3>4. QED
      BY <3>1, <3>2, <3>3
  <2>3. QED
    BY <2>1, <2>2
<1>3. QED
  BY <1>2 DEF Frames, Alone

\* compileAndInvokeMethod() is told whether the method was compiled.
LEMMA FramesReturn ==
  ASSUME Alone, StackOK, Nesting, NEW t \in Thread, NEW ok \in BOOLEAN, Return(t, ok),
         Top(t).pc # "idle", LowerOK(t),
         Top(t).pc \in Compiling /\ Top(t).target = STAGE_DONE =>
           IF ok THEN invoker'[Top(t).m] = "jit" ELSE invoker'[Top(t).m] # "jit"
  PROVE  Frames'
<1>1. PICK d : d = depth[t] - 1
  OBVIOUS
<1>2. PICK a : a = stack[t][d]
  OBVIOUS
<1>3. PICK b : b = Resume(a, ok)
  OBVIOUS
<1>4. /\ d \in 0 .. MaxDepth /\ depth'[t] = d /\ depth[t] = d + 1 /\ d + 1 \in 0 .. MaxDepth
      /\ stack'[t][d] = b
      /\ \A i \in 0 .. MaxDepth : i < d => stack'[t][i] = stack[t][i]
  BY <1>1, <1>2, <1>3, TopReturn
<1>5. a \in Activation /\ Linked(a, Top(t)) /\ OwnContext(a)' /\ OwnMethod(a)'
  <2>1. a \in Activation /\ d < depth[t]
    BY <1>2, <1>4, FrameType
  <2>2. Linked(a, Top(t))
    BY <1>2, <1>4, <2>1 DEF Nesting, Nested, Top
  <2>3. QED
    BY <1>2, <1>4, <2>1, <2>2 DEF LowerOK
<1>6. OwnContext(b)' /\ OwnMethod(b)'
  <2>1. CASE a.pc # "compiling"
    BY <1>3, <1>5, <2>1, ResumeFollows
  <2>2. CASE a.pc = "compiling"
    <3>1. b.pc = (IF ok THEN "call" ELSE "failed") /\ b.m = a.m
      BY <1>3, <1>5, <2>2, ResumeFollows
    <3>2. IF ok THEN invoker'[b.m] = "jit" ELSE invoker'[b.m] # "jit"
      BY <1>5, <2>2, <3>1 DEF Linked
    <3>3. OwnContext(b)'
      BY <3>1 DEF OwnContext, Holding, Body, Internals
    <3>4. OwnMethod(b)'
      BY <3>1, <3>2 DEF OwnMethod, Before, Body, Releasing, Internals, Compiling, Getting
    <3>5. QED
      BY <3>3, <3>4
  <2>3. QED
    BY <2>1, <2>2
<1>7. ASSUME NEW i \in 0 .. MaxDepth, i <= depth'[t]
      PROVE  OwnContext(stack[t][i])' /\ OwnMethod(stack[t][i])'
  <2>1. PICK x : x = stack'[t][i]
    OBVIOUS
  <2>2. OwnContext(x)' /\ OwnMethod(x)'
    <3>1. CASE i = d
      BY <1>4, <1>6, <2>1, <3>1
    <3>2. CASE i # d
      <4>1. i < depth[t] /\ x = stack[t][i] /\ x \in Activation
        BY <1>4, <1>7, <2>1, <3>2, FrameType
      <4>2. QED
        BY <4>1 DEF LowerOK
    <3>3. QED
      BY <3>1, <3>2
  <2>3. QED
    BY <2>1, <2>2
<1>8. QED
  BY <1>7 DEF Frames, Alone

-----------------------------------------------------------------------------
(* What the other activations, methods and contexts keep.                  *)

\* An activation that waits relies on its context and its method only while it
\* compiles.
LEMMA WaitingKept ==
  ASSUME NEW a, a.pc \in Waiting, OwnContext(a), OwnMethod(a),
         a.pc \in Body => /\ infocc'[a.m] = infocc[a.m] /\ ctx'[a.cc] = ctx[a.cc]
                          /\ inlineability'[a.m] = inlineability[a.m] /\ info'[a.m] = info[a.m],
         a.pc \in Body \cup {"lookup"} => invoker'[a.m] = invoker[a.m]
  PROVE  OwnContext(a)' /\ OwnMethod(a)'
<1> USE DEF Waiting, OwnContext, OwnMethod, Holding, Before, Internals, Body, Releasing, Compiling, Getting
<1>1. CASE a.pc \in {"inline", "inlined", "eager", "eagered"}
  BY <1>1
<1>2. CASE a.pc = "lookup"
  BY <1>2
<1>3. CASE a.pc \in {"idle", "compiling", "class", "hooktest"}
  BY <1>3
<1>4. QED
  BY <1>1, <1>2, <1>3

LEMMA LowerFrame ==
  ASSUME StackOK, Nesting, Frames, NEW t \in Thread, NEW i \in 0 .. MaxDepth, i < depth[t]
  PROVE  /\ stack[t][i] \in Activation /\ stack[t][i].pc \in Waiting
         /\ OwnContext(stack[t][i]) /\ OwnMethod(stack[t][i])
         /\ stack[t][i].pc \in Body => stack[t][i].m \in Method /\ stack[t][i].cc \in Context
         /\ stack[t][i].pc \in Body /\ Top(t).pc \in Compiling => stack[t][i].m # Top(t).m
         /\ stack[t][i].pc = "lookup" => Top(t).pc \in {"publish", "initinfo"}
         /\ Top(t).pc \in Entry => stack[t][i].pc = "idle"
<1>1. depth[t] \in 0 .. MaxDepth /\ i + 1 \in 0 .. MaxDepth /\ MaxDepth \in Nat
  BY TopType, BoundAssumption
<1>2. stack[t][i] \in Activation /\ Formed(stack[t][i], ctx)
  BY DEF StackOK
<1>3. Linked(stack[t][i], stack[t][i + 1])
  BY DEF Nesting, Nested
<1>4. OwnContext(stack[t][i]) /\ OwnMethod(stack[t][i])
  BY <1>1 DEF Frames
<1>5. stack[t][i].pc \in Body => stack[t][i].m \in Method /\ stack[t][i].cc \in Context
  BY <1>2 DEF Formed, NoMethod, HasContext, Body
<1>6. stack[t][i].pc \in Body /\ Top(t).pc \in Compiling => stack[t][i].m # Top(t).m
  BY <1>1 DEF Nesting, Nested, Top
<1>7. stack[t][i].pc = "lookup" => Top(t).pc \in {"publish", "initinfo"}
  <2>1. SUFFICES ASSUME stack[t][i].pc = "lookup" PROVE Top(t).pc \in {"publish", "initinfo"}
    OBVIOUS
  <2>2. stack[t][i + 1].pc \in {"publish", "initinfo"}
    BY <1>3, <2>1 DEF Linked
  <2>3. CASE i + 1 < depth[t]
    <3>1. Linked(stack[t][i + 1], stack[t][i + 1 + 1])
      BY <1>1, <2>3 DEF Nesting, Nested
    <3>2. QED
      BY <2>2, <3>1 DEF Linked, Waiting
  <2>4. CASE i + 1 = depth[t]
    BY <2>2, <2>4 DEF Top
  <2>5. QED
    BY <1>1, <2>3, <2>4
<1>8. Top(t).pc \in Entry => stack[t][i].pc = "idle"
  <2>1. SUFFICES ASSUME Top(t).pc \in Entry PROVE stack[t][i].pc = "idle"
    OBVIOUS
  <2>2. PICK d : d = depth[t] - 1
    OBVIOUS
  <2>3. d \in 0 .. MaxDepth /\ d < depth[t] /\ d + 1 = depth[t]
    BY <1>1, <2>2
  <2>4. Linked(stack[t][d], Top(t))
    BY <2>3 DEF Nesting, Nested, Top
  <2>5. stack[t][d].pc = "idle"
    BY <2>1, <2>4 DEF Linked
  <2>6. d = 0
    BY <2>3, <2>5 DEF StackOK
  <2>7. QED
    BY <1>1, <2>3, <2>5, <2>6
<1>9. stack[t][i].pc \in Waiting
  BY <1>3 DEF Linked
<1>10. QED
  BY <1>2, <1>4, <1>5, <1>6, <1>7, <1>8, <1>9

\* A step of compileMethod() that changes its own method and one context, which
\* no other method has.
LEMMA LowerKept ==
  ASSUME StackOK, Solo, NEW t \in Thread, Top(t).pc \in Compiling, NEW c,
         \A m \in Method \ {Top(t).m} :
           /\ infocc'[m] = infocc[m] /\ infocc[m] # c
           /\ inlineability'[m] = inlineability[m] /\ invoker'[m] = invoker[m] /\ info'[m] = info[m],
         \A d \in Context \ {c} : ctx'[d] = ctx[d]
  PROVE  LowerOK(t)
<1>1. SUFFICES ASSUME NEW i \in 0 .. MaxDepth, NEW a \in Activation, i < depth[t], a = stack[t][i]
               PROVE  OwnContext(a)' /\ OwnMethod(a)'
  BY DEF LowerOK
<1>2. /\ a.pc \in Waiting /\ OwnContext(a) /\ OwnMethod(a)
      /\ a.pc \in Body => a.m \in Method \ {Top(t).m} /\ a.cc \in Context
      /\ a.pc = "lookup" => Top(t).pc \in {"publish", "initinfo"}
  BY <1>1, LowerFrame DEF Solo
<1>3. a.pc # "lookup"
  BY <1>2 DEF Compiling, Getting, Body, Releasing
<1>4. a.pc \in Body => a.pc \in Holding
  BY <1>2 DEF Body, Holding, Waiting
<1>5. a.pc \in Body => infocc[a.m] = a.cc
  BY <1>2, <1>4 DEF OwnContext
<1>6. QED
  BY <1>2, <1>3, <1>5, WaitingKept

\* A step that changes nothing an activation relies on
LEMMA LowerQuiet ==
  ASSUME StackOK, Solo, NEW t \in Thread, UNCHANGED <<infocc, ctx, inlineability, invoker, info>>
  PROVE  LowerOK(t)
<1>1. SUFFICES ASSUME NEW i \in 0 .. MaxDepth, NEW a \in Activation, i < depth[t], a = stack[t][i]
               PROVE  OwnContext(a)' /\ OwnMethod(a)'
  BY DEF LowerOK
<1>2. a.pc \in Waiting /\ OwnContext(a) /\ OwnMethod(a)
  BY <1>1, LowerFrame DEF Solo
<1>3. QED
  BY <1>2, WaitingKept

\* A step of a function that was called from outside
LEMMA LowerEntry ==
  ASSUME StackOK, Solo, NEW t \in Thread, Top(t).pc \in Entry
  PROVE  LowerOK(t)
<1>1. SUFFICES ASSUME NEW i \in 0 .. MaxDepth, NEW a \in Activation, i < depth[t], a = stack[t][i]
               PROVE  OwnContext(a)' /\ OwnMethod(a)'
  BY DEF LowerOK
<1>2. a.pc = "idle" /\ a.pc \in Waiting /\ OwnContext(a) /\ OwnMethod(a)
  BY <1>1, LowerFrame DEF Solo
<1>3. QED
  BY <1>2, WaitingKept DEF Body

LEMMA MidwayTop ==
  ASSUME Alone, NEW t \in Thread, NEW m
  PROVE  /\ Midway(m) <=> Top(t).pc \in Mids /\ Top(t).m = m
         /\ Midway(m)' <=> Top(t)'.pc \in Mids /\ Top(t)'.m = m
<1>1. Midway(m) <=> Top(t).pc \in Mids /\ Top(t).m = m
  BY DEF Alone, Midway
<1>2. Midway(m)' <=> \E u \in Thread : Top(u)'.pc \in Mids /\ Top(u)'.m = m
  BY DEF Midway
<1>3. QED
  BY <1>1, <1>2 DEF Alone

\* The fields of method m stay as they are, and its context does.
Same(m) ==
  /\ infocc'[m] = infocc[m]
  /\ infocc[m] # Null => ctx'[infocc[m]] = ctx[infocc[m]]
  /\ info'[m] = info[m] /\ inlineability'[m] = inlineability[m] /\ throwtable'[m] = throwtable[m]
  /\ invoker'[m] = invoker[m] /\ code'[m] = code[m] /\ linked'[m] = linked[m]
  /\ compiledflag'[m] = compiledflag[m] /\ (m \in direct' <=> m \in direct)

\* Whether method m has its native code does not change.
CodeSame(m) == (Compiled(m)' <=> Compiled(m)) /\ (Uncompiled(m)' <=> Uncompiled(m))

LEMMA CodeKept ==
  ASSUME NEW m, code'[m] = code[m], throwtable'[m] = throwtable[m],
         compiledflag'[m] = compiledflag[m], m \in direct' <=> m \in direct
  PROVE  CodeSame(m)
BY DEF CodeSame, Compiled, Uncompiled

LEMMA MethodSame ==
  ASSUME NEW m, Same(m), Midway(m) <=> Midway(m)'
  PROVE  /\ MethodState(m) => MethodState(m)'
         /\ CodeState(m) => CodeState(m)'
<1>c. CodeSame(m)
  BY CodeKept DEF Same
<1>1. MethodState(m) => MethodState(m)'
  <2>1. SUFFICES ASSUME MethodState(m) PROVE MethodState(m)'
    OBVIOUS
  <2>2. (infocc[m] # Null =>
          /\ ctx[infocc[m]].mb = m /\ ctx[infocc[m]].ref >= 0
          /\ (ctx[infocc[m]].stage = STAGE_INTERNAL_CODE =>
                ctx[infocc[m]].body # Null /\ inlineability[m] # "unknown")
          /\ (ctx[infocc[m]].stage = STAGE_STATIC_PART => Midway(m))
          /\ (ctx[infocc[m]].stage = STAGE_DONE => invoker[m] = "jit"))'
    BY <2>1 DEF MethodState, Same
  <2>3. QED
    BY <1>c, <2>1, <2>2 DEF MethodState, Same, CodeSame
<1>2. CodeState(m) => CodeState(m)'
  BY DEF CodeState, Same
<1>3. QED
  BY <1>1, <1>2

\* A step that leaves all methods but one as they are
LEMMA MethodsOthers ==
  ASSUME Alone, Methods, NEW t \in Thread, NEW x,
         \A m \in Method \ {x} : Same(m),
         Top(t).pc \in Mids => Top(t).m = x, Top(t)'.pc \in Mids => Top(t)'.m = x,
         x \in Method => MethodState(x)',
         x \in Method \ MayFail => CodeState(x)'
  PROVE  Methods'
<1>1. ASSUME NEW m \in Method
      PROVE  MethodState(m)' /\ (m \notin MayFail => CodeState(m)')
  <2>1. CASE m = x
    BY <2>1
  <2>2. CASE m # x
    <3>1. Midway(m) <=> Midway(m)'
      BY <2>2, MidwayTop
    <3>2. QED
      BY <2>2, <3>1, MethodSame DEF Methods
  <2>3. QED
    BY <2>1, <2>2
<1>2. QED
  BY <1>1 DEF Methods

LEMMA MethodsQuiet ==
  ASSUME Alone, Methods, NEW t \in Thread, \A m \in Method : Same(m),
         Top(t).pc \notin Mids, Top(t)'.pc \notin Mids
  PROVE  Methods'
BY MidwayTop, MethodSame DEF Methods

\* pcs at which a context is neither in the pool nor in a CodeInfo
Held == {"reset", "link", "push"}

\* pcs at which the state of the activation differs from that of its method
Special == Held \cup Mids \cup {"initinfo"}

LEMMA FreeTop ==
  ASSUME Alone, NEW t \in Thread, NEW c \in Context
  PROVE  /\ c \in Free <=> Allocated(c) /\ Loose(c) /\ (Top(t).pc \in Held => Top(t).cc # c)
         /\ c \in Free' <=> Allocated(c)' /\ Loose(c)' /\ (Top(t)'.pc \in Held => Top(t)'.cc # c)
<1>1. c \in Free <=> Allocated(c) /\ Loose(c) /\ (Top(t).pc \in Held => Top(t).cc # c)
  BY DEF Alone, Free, Held
<1>2. c \in Free' <=> Allocated(c)' /\ Loose(c)'
                      /\ \A u \in Thread : Top(u)'.pc \in {"reset", "link", "push"} => Top(u)'.cc # c
  BY DEF Free
<1>3. QED
  BY <1>1, <1>2 DEF Alone, Held

LEMMA PoolQuiet ==
  ASSUME Alone, PoolOK, NEW t \in Thread, UNCHANGED <<infocc, pool>>,
         \A c \in Context : ctx'[c].mb = ctx[c].mb /\ ctx'[c].next = ctx[c].next,
         Top(t).pc \notin Held, Top(t)'.pc \notin Held
  PROVE  PoolOK'
<1>1. ASSUME NEW c \in Context PROVE c \in Free <=> c \in Free'
  BY FreeTop DEF Allocated, Loose
<1>2. Free \subseteq Context /\ Free' \subseteq Context
  BY DEF Free
<1>3. Free' = Free
  BY <1>1, <1>2
<1>4. QED
  BY <1>2, <1>3 DEF PoolOK

\* The variables the invariant is about, besides the stacks
soloVars == <<infocc, ctx, pool, inlineability, throwtable, info, invoker, code, linked,
              compiledflag, direct>>

LEMMA PreparedStep ==
  ASSUME Alone, NEW t \in Thread, Top(t)'.pc = "lookup" => info'[Top(t)'.m] = "ready",
         \A m \in Method : info'[m] = "published" => Top(t)'.pc = "initinfo" /\ Top(t)'.m = m
  PROVE  Prepared'
BY DEF Alone, Prepared

LEMMA QuietRest ==
  ASSUME Alone, Solo, NEW t \in Thread, UNCHANGED soloVars,
         Top(t).pc \notin Special, Top(t)'.pc \notin Special,
         Top(t)'.pc = "lookup" => info[Top(t)'.m] = "ready"
  PROVE  Methods' /\ PoolOK' /\ Prepared'
<1>1. \A m \in Method : Same(m)
  BY DEF Same, soloVars
<1>2. Methods'
  BY <1>1, MethodsQuiet DEF Solo, Special
<1>3. PoolOK'
  BY PoolQuiet DEF Solo, soloVars, Special
<1>4. \A m \in Method : info[m] # "published"
  BY DEF Solo, Prepared, Special
<1>5. Prepared'
  BY <1>4, PreparedStep DEF soloVars
<1>6. QED
  BY <1>2, <1>3, <1>5

LEMMA QuietOwn ==
  ASSUME UNCHANGED soloVars, NEW a
  PROVE  /\ OwnContext(a) => OwnContext(a)'
         /\ OwnMethod(a) => OwnMethod(a)'
BY CodeKept DEF soloVars, OwnContext, OwnMethod, Loose, Allocated, CodeSame

LEMMA QuietSet ==
  ASSUME Alone, IInv, Solo, NEW t \in Thread, NEW b, Set(t, b), UNCHANGED soloVars,
         Top(t).pc \notin Special, b.pc \notin Special,
         Follows(Top(t), b), OwnContext(b), OwnMethod(b), b.pc = "lookup" => info[b.m] = "ready"
  PROVE  Solo'
<1>1. LowerOK(t)
  BY LowerQuiet DEF IInv, soloVars
<1>2. Nesting' /\ Frames'
  BY <1>1, NestingSet, FramesSet, QuietOwn DEF IInv, Solo
<1>3. Top(t)' = b
  BY TopSet DEF IInv
<1>4. QED
  BY <1>2, <1>3, QuietRest DEF Solo

LEMMA QuietCall ==
  ASSUME Alone, IInv, Solo, NEW t \in Thread, NEW a, NEW b, Call(t, a, b), UNCHANGED soloVars,
         Top(t).pc \notin Special, b.pc \notin Special \cup {"lookup"},
         Follows(Top(t), a), Linked(a, b), OwnContext(a), OwnMethod(a), OwnContext(b), OwnMethod(b),
         b.pc \in Compiling => /\ a.pc \in Body => a.m # b.m
                               /\ \A i \in 0 .. MaxDepth : i < depth[t] /\ stack[t][i].pc \in Body
                                                             => stack[t][i].m # b.m
  PROVE  Solo'
<1>1. LowerOK(t)
  BY LowerQuiet DEF IInv, soloVars
<1>2. Nesting' /\ Frames'
  BY <1>1, NestingCall, FramesCall, QuietOwn DEF IInv, Solo
<1>3. Top(t)' = b
  BY TopCall DEF IInv
<1>4. QED
  BY <1>2, <1>3, QuietRest DEF Solo

\* The activation that runs next is one that waited.
LEMMA ReturnsTo ==
  ASSUME IInv, Solo, NEW t \in Thread, NEW ok \in BOOLEAN, Return(t, ok), Top(t).pc # "idle"
  PROVE  /\ Top(t)'.pc \notin Special
         /\ Top(t)'.pc = "lookup" => Top(t).pc \in {"publish", "initinfo"} /\ Top(t)'.m = Top(t).m
<1>1. PICK d : d = depth[t] - 1
  OBVIOUS
<1>2. PICK a : a = stack[t][d]
  OBVIOUS
<1>3. d \in 0 .. MaxDepth /\ d < depth[t] /\ Top(t)' = Resume(a, ok)
  BY <1>1, <1>2, TopReturn DEF IInv
<1>4. a \in Activation /\ a.pc \in Waiting /\ depth[t] \in 0 .. MaxDepth
  BY <1>2, <1>3, LowerFrame, TopType DEF IInv, Solo
<1>5. Resume(a, ok).pc \in Waiting \cup {"call", "failed"}
  BY <1>4, ResumeFollows
<1>6. Linked(a, Top(t))
  <2>1. d + 1 = depth[t]
    BY <1>1, <1>4
  <2>2. QED
    BY <1>2, <1>3, <2>1 DEF Solo, Nesting, Nested, Top
<1>7. Top(t)'.pc = "lookup" => Top(t).pc \in {"publish", "initinfo"} /\ Top(t)'.m = Top(t).m
  BY <1>3, <1>4, <1>6, ResumeFollows DEF Linked
<1>8. QED
  BY <1>3, <1>5, <1>7 DEF Waiting, Held, Mids, Special

LEMMA QuietReturn ==
  ASSUME Alone, IInv, Solo, NEW t \in Thread, NEW ok \in BOOLEAN, Return(t, ok), UNCHANGED soloVars,
         Top(t).pc \notin Special \cup {"idle"}, Top(t).pc = "publish" => info[Top(t).m] = "ready",
         Top(t).pc \in Compiling /\ Top(t).target = STAGE_DONE =>
           IF ok THEN invoker[Top(t).m] = "jit" ELSE invoker[Top(t).m] # "jit"
  PROVE  Solo'
<1>1. LowerOK(t) /\ invoker' = invoker
  BY LowerQuiet DEF IInv, soloVars
<1>2. Nesting' /\ Frames'
  BY <1>1, NestingReturn, FramesReturn DEF IInv, Solo
<1>3. Top(t)'.pc \notin Special /\ (Top(t)'.pc = "lookup" => info[Top(t)'.m] = "ready")
  BY ReturnsTo DEF Special
<1>4. QED
  BY <1>2, <1>3, QuietRest DEF Solo

-----------------------------------------------------------------------------
(* The steps that move the thread only.                                    *)

LEMMA TopOwn ==
  ASSUME IInv, Solo, NEW t \in Thread
  PROVE  /\ Top(t) \in Activation /\ Formed(Top(t), ctx) /\ OwnContext(Top(t)) /\ OwnMethod(Top(t))
         /\ depth[t] \in 0 .. MaxDepth /\ (Top(t).pc = "idle" <=> depth[t] = 0)
         /\ Top(t).pc \notin NoMethod => Top(t).m \in Method
<1>1. Top(t) \in Activation /\ Formed(Top(t), ctx) /\ depth[t] \in 0 .. MaxDepth
      /\ (Top(t).pc = "idle" <=> depth[t] = 0)
  BY TopType DEF IInv
<1>2. OwnContext(Top(t)) /\ OwnMethod(Top(t))
  BY <1>1 DEF Solo, Frames, Top
<1>3. QED
  BY <1>1, <1>2 DEF Formed

LEMMA PcEdit ==
  ASSUME NEW a \in Activation, NEW pc \in PC, NEW b, b = [a EXCEPT !.pc = pc]
  PROVE  /\ b \in Activation /\ b.pc = pc /\ b.m = a.m /\ b.target = a.target /\ b.cc = a.cc
         /\ b.g = a.g /\ b.i = a.i /\ b.pass = a.pass /\ b.inlined = a.inlined /\ b.ok = a.ok
BY DEF Activation

LEMMA StartFields ==
  ASSUME NEW pc, NEW m, NEW target, NEW b, b = Start(pc, m, target)
  PROVE  /\ b.pc = pc /\ b.m = m /\ b.target = target /\ b.ok
         /\ pc \in {"publish", "check", "count", "class", "hook"} => OwnContext(b) /\ OwnMethod(b)
<1>1. b = [[[NoActivation EXCEPT !.pc = pc] EXCEPT !.m = m] EXCEPT !.target = target]
  BY DEF Start
<1>2. b.pc = pc /\ b.m = m /\ b.target = target /\ b.ok
  BY <1>1 DEF NoActivation
<1>3. pc \in {"publish", "check", "count", "class", "hook"} => OwnContext(b) /\ OwnMethod(b)
  BY <1>2 DEF OwnContext, OwnMethod, Holding, Before, Internals, Body, Releasing, Compiling, Getting
<1>4. QED
  BY <1>2, <1>3

LEMMA LookupAlone ==
  ASSUME Alone, IInv, Solo, NEW t \in Thread, Lookup(t) PROVE Solo'
<1>1. PICK b : b = [Top(t) EXCEPT !.pc = "get"]
  OBVIOUS
<1>2. Set(t, b) /\ UNCHANGED soloVars /\ Top(t).pc = "lookup"
  BY <1>1 DEF Lookup, Goto, At, soloVars, methodVars, codeVars, infoVars, contextVars
<1>3. b.pc = "get" /\ b.m = Top(t).m /\ b.target = Top(t).target
  BY <1>1, TopOwn, PcEdit DEF PC, Getting
<1>4. Follows(Top(t), b)
  BY <1>2, <1>3 DEF Follows, Entry, Compiling, Getting, Body, Releasing
<1>5. OwnContext(b) /\ OwnMethod(b)
  <2>1. info[b.m] = "ready"
    BY <1>2, <1>3 DEF Solo, Prepared
  <2>2. QED
    BY <1>2, <1>3, <2>1, TopOwn
    DEF OwnContext, OwnMethod, Holding, Before, Internals, Body, Releasing, Compiling, Getting
<1>6. QED
  BY <1>2, <1>3, <1>4, <1>5, QuietSet DEF Held, Mids, Special

LEMMA CheckAlone ==
  ASSUME Alone, IInv, Solo, NEW t \in Thread, Check(t) PROVE Solo'
<1>1. PICK b : b = [Top(t) EXCEPT !.pc = "lookup"]
  OBVIOUS
<1>2. UNCHANGED soloVars /\ Top(t).pc = "check" /\ Top(t).pc \notin Special \cup {"idle"}
  BY DEF Check, At, soloVars, methodVars, codeVars, infoVars, contextVars, Held, Mids, Special
<1>3. b.pc = "lookup" /\ b.m = Top(t).m /\ b.target = Top(t).target
  BY <1>1, TopOwn, PcEdit DEF PC
<1>4. Follows(Top(t), b)
  BY <1>2, <1>3 DEF Follows, Entry, Compiling, Getting, Body, Releasing
<1>5. CASE invoker[Top(t).m] = "jit" /\ Return(t, TRUE)
  BY <1>2, <1>5, QuietReturn
<1>6. ASSUME invoker[Top(t).m] # "jit" PROVE OwnContext(b) /\ OwnMethod(b)
  BY <1>3, <1>6 DEF OwnContext, OwnMethod, Holding, Before, Internals, Body, Releasing, Compiling, Getting
<1>7. CASE invoker[Top(t).m] # "jit" /\ Call(t, b, Start("publish", Top(t).m, STAGE_START))
  <2>1. PICK s : s = Start("publish", Top(t).m, STAGE_START)
    OBVIOUS
  <2>2. s.pc = "publish" /\ s.m = Top(t).m /\ OwnContext(s) /\ OwnMethod(s)
    BY <2>1, StartFields
  <2>3. Linked(b, s)
    BY <1>3, <2>2 DEF Linked, Waiting, Entry
  <2>4. s.pc \notin Compiling /\ s.pc \notin Special
    BY <2>2 DEF Compiling, Getting, Body, Releasing, Held, Mids, Special
  <2>5. QED
    BY <1>2, <1>4, <1>6, <1>7, <2>1, <2>2, <2>3, <2>4, QuietCall
<1>8. CASE invoker[Top(t).m] # "jit" /\ info[Top(t).m] # "none" /\ Set(t, b)
  <2>1. b.pc \notin Special /\ info[b.m] = "ready"
    <3>1. Top(t).m \in Method
      BY <1>2, TopOwn DEF NoMethod
    <3>2. info[Top(t).m] \in {"none", "published", "ready"} /\ info[Top(t).m] # "published"
      BY <1>2, <3>1 DEF IInv, MethodOK, Solo, Prepared
    <3>3. QED
      BY <1>3, <1>8, <3>2 DEF Held, Mids, Special
  <2>2. QED
    BY <1>2, <1>4, <1>6, <1>8, <2>1, QuietSet
<1>9. QED
  BY <1>1, <1>5, <1>7, <1>8 DEF Check, Goto

LEMMA StageCheckAlone ==
  ASSUME Alone, IInv, Solo, NEW t \in Thread, StageCheck(t) PROVE Solo'
<1>1. PICK b : b = [Top(t) EXCEPT !.pc = "enter"]
  OBVIOUS
<1>2. UNCHANGED soloVars /\ Top(t).pc = "stagecheck" /\ Top(t).pc \notin Special \cup {"idle"}
  BY DEF StageCheck, At, soloVars, methodVars, codeVars, infoVars, contextVars, Held, Mids, Special
<1>3. b.pc = "enter" /\ b.m = Top(t).m /\ b.target = Top(t).target /\ b.cc = Top(t).cc
  BY <1>1, TopOwn, PcEdit DEF PC
<1>4. /\ Top(t).m \in Method /\ Top(t).cc \in Context /\ infocc[Top(t).m] = Top(t).cc
      /\ ctx[Top(t).cc].stage \in Stage /\ MethodState(Top(t).m)
  <2>1. Top(t).m \in Method /\ Top(t).cc \in Context /\ ctx[Top(t).cc] \in ContextType
    BY <1>2, ContextHeld DEF HasContext
  <2>2. QED
    BY <1>2, <2>1, TopOwn DEF ContextType, Solo, Methods, OwnContext, Holding
<1>5. CASE ctx[Top(t).cc].stage >= Top(t).target /\ Return(t, TRUE)
  <2>1. ASSUME Top(t).target = STAGE_DONE PROVE invoker[Top(t).m] = "jit"
    <3>1. ctx[Top(t).cc].stage = STAGE_DONE
      BY <1>4, <1>5, <2>1 DEF Stage, STAGE_START, STAGE_DONE
    <3>2. QED
      BY <1>4, <3>1, NullAssumption DEF MethodState
  <2>2. QED
    BY <1>2, <1>5, <2>1, QuietReturn
<1>6. CASE Set(t, b)
  <2>1. Follows(Top(t), b) /\ b.pc \notin Special
    BY <1>2, <1>3 DEF Follows, Entry, Compiling, Getting, Body, Releasing, Held, Mids, Special
  <2>2. OwnContext(b) /\ OwnMethod(b)
    BY <1>2, <1>3, TopOwn DEF OwnContext, OwnMethod, Holding, Before, Internals, Body, Releasing, Compiling, Getting
  <2>3. QED
    BY <1>2, <1>3, <1>6, <2>1, <2>2, QuietSet
<1>7. QED
  BY <1>1, <1>5, <1>6 DEF StageCheck, Goto

\* A method of unknown inlineability is not under compilation, nor is one that
\* NotBeingCompiled() lets through.
LEMMA CalleeIsNew ==
  ASSUME IInv, Solo, NEW t \in Thread, NEW g \in Method,
         inlineability[g] = "unknown" \/ NotBeingCompiled(g), NEW a,
         \/ a = Top(t) /\ a.pc \in {"inline", "eager"}
         \/ \E i \in 0 .. MaxDepth : i < depth[t] /\ a = stack[t][i] /\ a.pc \in Body
  PROVE  a.m # g
<1>1. a.pc \in Internals /\ OwnContext(a) /\ OwnMethod(a) /\ a.m \in Method /\ a.cc \in Context
  <2>1. CASE a = Top(t) /\ a.pc \in {"inline", "eager"}
    <3>1. Top(t).pc \in Body /\ Top(t).pc \in Internals
      BY <2>1 DEF Body, Internals
    <3>2. QED
      BY <2>1, <3>1, TopOwn, BodyHeld
  <2>2. ASSUME NEW i \in 0 .. MaxDepth, i < depth[t], a = stack[t][i], a.pc \in Body
        PROVE  a.pc \in Internals /\ OwnContext(a) /\ OwnMethod(a) /\ a.m \in Method /\ a.cc \in Context
    <3>1. /\ a.pc \in Waiting /\ OwnContext(a) /\ OwnMethod(a) /\ a.m \in Method /\ a.cc \in Context
      BY <2>2, LowerFrame DEF IInv, Solo
    <3>2. QED
      BY <2>2, <3>1 DEF Waiting, Body, Internals
  <2>3. QED
    BY <2>1, <2>2
<1>2. a.pc \in Holding
  BY <1>1 DEF Internals, Holding, Body
<1>3. infocc[a.m] = a.cc /\ ctx[a.cc].stage = STAGE_INTERNAL_CODE /\ inlineability[a.m] # "unknown"
  BY <1>1, <1>2 DEF OwnContext, OwnMethod
<1>4. QED
  BY <1>1, <1>3, NullAssumption DEF NotBeingCompiled, STAGE_INTERNAL_CODE

\* What the scans of methodInlining() and eagerCompilation() do at a call site
LEMMA ScanCall ==
  ASSUME Alone, IInv, Solo, NEW t \in Thread, Top(t).pc \in {"inline", "eager"}, UNCHANGED soloVars,
         NEW g \in Method,
         \/ Call(t, Top(t), Start("publish", g, STAGE_START))
         \/ \E pc \in {"inlined", "eagered"}, target \in Stage :
              /\ Call(t, [Top(t) EXCEPT !.pc = pc, !.g = g], Start("check", g, target))
              /\ inlineability[g] = "unknown" \/ NotBeingCompiled(g)
              /\ pc = "inlined" => Top(t).i <= Len(ctx[Top(t).cc].sites)
  PROVE  Solo'
<1>1. Top(t).pc \in Body /\ Top(t).pc \notin Special /\ Top(t).pc \in Compiling
  BY DEF Body, Held, Mids, Special, Compiling
<1>2. CASE Call(t, Top(t), Start("publish", g, STAGE_START))
  <2>1. PICK s : s = Start("publish", g, STAGE_START)
    OBVIOUS
  <2>2. PICK a : a = Top(t)
    OBVIOUS
  <2>3. s.pc = "publish" /\ OwnContext(s) /\ OwnMethod(s) /\ OwnContext(a) /\ OwnMethod(a)
    BY <2>1, <2>2, StartFields, TopOwn
  <2>4. Linked(a, s) /\ Follows(Top(t), a)
    BY <2>2, <2>3 DEF Linked, Waiting, Entry, Follows
  <2>5. s.pc \notin Compiling /\ s.pc \notin Special
    BY <2>3 DEF Compiling, Getting, Body, Releasing, Held, Mids, Special
  <2>6. QED
    BY <1>1, <1>2, <2>1, <2>2, <2>3, <2>4, <2>5, QuietCall
<1>3. ASSUME NEW pc \in {"inlined", "eagered"}, NEW target \in Stage,
             Call(t, [Top(t) EXCEPT !.pc = pc, !.g = g], Start("check", g, target)),
             inlineability[g] = "unknown" \/ NotBeingCompiled(g),
             pc = "inlined" => Top(t).i <= Len(ctx[Top(t).cc].sites)
      PROVE  Solo'
  <2>1. PICK s : s = Start("check", g, target)
    OBVIOUS
  <2>2. PICK a : a = [Top(t) EXCEPT !.pc = pc, !.g = g]
    OBVIOUS
  <2>3. s.pc = "check" /\ s.m = g /\ OwnContext(s) /\ OwnMethod(s)
    BY <2>1, StartFields
  <2>4. /\ a.pc = pc /\ a.m = Top(t).m /\ a.target = Top(t).target /\ a.cc = Top(t).cc
        /\ a.i = Top(t).i
    <3>1. PICK x : x = Top(t)
      OBVIOUS
    <3>2. x \in Activation
      BY <3>1, TopOwn
    <3>3. a = [x EXCEPT !.pc = pc, !.g = g]
      BY <2>2, <3>1
    <3>4. a.pc = pc /\ a.m = x.m /\ a.target = x.target /\ a.cc = x.cc /\ a.i = x.i
      BY <3>2, <3>3 DEF Activation
    <3>5. QED
      BY <3>1, <3>4
  <2>5. OwnContext(a) /\ OwnMethod(a)
    BY <1>3, <2>4, TopOwn DEF OwnContext, OwnMethod, Holding, Before, Internals, Body, Releasing, Compiling, Getting
  <2>6. Linked(a, s) /\ Follows(Top(t), a)
    BY <1>1, <2>3, <2>4 DEF Linked, Waiting, Entry, Follows, Compiling, Getting, Body, Releasing
  <2>7. s.pc \notin Special
    BY <2>3 DEF Held, Mids, Special
  <2>8. a.m # g /\ \A i \in 0 .. MaxDepth : i < depth[t] /\ stack[t][i].pc \in Body => stack[t][i].m # g
    BY <1>3, <2>4, CalleeIsNew
  <2>9. QED
    BY <1>1, <1>3, <2>1, <2>2, <2>3, <2>5, <2>6, <2>7, <2>8, QuietCall
<1>4. QED
  BY <1>2, <1>3

LEMMA ScanSet ==
  ASSUME Alone, IInv, Solo, NEW t \in Thread, Top(t).pc \in {"inline", "eager"}, UNCHANGED soloVars,
         NEW g \in Method, NEW pc \in {"inlined", "eagered"}, Set(t, [Top(t) EXCEPT !.pc = pc, !.g = g]),
         pc = "inlined" => Top(t).i <= Len(ctx[Top(t).cc].sites)
  PROVE  Solo'
<1>1. Top(t).pc \in Body /\ Top(t).pc \notin Special /\ Top(t).pc \in Compiling
  BY DEF Body, Held, Mids, Special, Compiling
<1>2. PICK a : a = [Top(t) EXCEPT !.pc = pc, !.g = g]
  OBVIOUS
<1>3. /\ a.pc = pc /\ a.m = Top(t).m /\ a.target = Top(t).target /\ a.cc = Top(t).cc
      /\ a.i = Top(t).i
  <2>1. PICK x : x = Top(t)
    OBVIOUS
  <2>2. x \in Activation
    BY <2>1, TopOwn
  <2>3. a = [x EXCEPT !.pc = pc, !.g = g]
    BY <1>2, <2>1
  <2>4. a.pc = pc /\ a.m = x.m /\ a.target = x.target /\ a.cc = x.cc /\ a.i = x.i
    BY <2>2, <2>3 DEF Activation
  <2>5. QED
    BY <2>1, <2>4
<1>4. OwnContext(a) /\ OwnMethod(a)
  BY <1>3, TopOwn DEF OwnContext, OwnMethod, Holding, Before, Internals, Body, Releasing, Compiling, Getting
<1>5. Follows(Top(t), a) /\ a.pc \notin Special
  BY <1>1, <1>3 DEF Entry, Follows, Compiling, Getting, Body, Releasing, Held, Mids, Special
<1>6. QED
  BY <1>1, <1>2, <1>3, <1>4, <1>5, QuietSet

LEMMA InlineScanAlone ==
  ASSUME Alone, IInv, Solo, NEW t \in Thread, InlineScan(t) PROVE Solo'
<1>1. Top(t).pc = "inline" /\ UNCHANGED soloVars /\ Top(t).i <= Len(ctx[Top(t).cc].sites)
  BY DEF InlineScan, At, Sites, soloVars, methodVars, codeVars, infoVars, contextVars
<1>2. PICK g : g = Site(Top(t))
  OBVIOUS
<1>3. g \in Method /\ STAGE_INTERNAL_CODE \in Stage
  BY <1>1, <1>2, SiteType DEF Body, Sites, Stage, STAGE_START, STAGE_INTERNAL_CODE, STAGE_DONE
<1>4. \/ Call(t, Top(t), Start("publish", g, STAGE_START))
      \/ /\ inlineability[g] = "unknown"
         /\ Call(t, [Top(t) EXCEPT !.pc = "inlined", !.g = g], Start("check", g, STAGE_INTERNAL_CODE))
      \/ Set(t, [Top(t) EXCEPT !.pc = "inlined", !.g = g])
  BY <1>2 DEF InlineScan
<1>5. QED
  BY <1>1, <1>3, <1>4, ScanCall, ScanSet

LEMMA EagerScanAlone ==
  ASSUME Alone, IInv, Solo, NEW t \in Thread, EagerScan(t) PROVE Solo'
<1>1. Top(t).pc = "eager" /\ UNCHANGED soloVars /\ Top(t).i <= Len(ctx[Top(t).cc].sites)
  BY DEF EagerScan, At, Sites, soloVars, methodVars, codeVars, infoVars, contextVars
<1>2. PICK g : g = Site(Top(t))
  OBVIOUS
<1>3. g \in Method /\ STAGE_DONE \in Stage
  BY <1>1, <1>2, SiteType DEF Body, Sites, Stage, STAGE_START, STAGE_DONE
<1>4. \/ Call(t, Top(t), Start("publish", g, STAGE_START))
      \/ /\ NotBeingCompiled(g)
         /\ Call(t, [Top(t) EXCEPT !.pc = "eagered", !.g = g], Start("check", g, STAGE_DONE))
      \/ Set(t, [Top(t) EXCEPT !.pc = "eagered", !.g = g])
  BY <1>2 DEF EagerScan
<1>5. QED
  BY <1>1, <1>3, <1>4, ScanCall, ScanSet

\* A step from one call site, pass or stage of the internal code to another
LEMMA InternalsSet ==
  ASSUME Alone, IInv, Solo, NEW t \in Thread, NEW b, Set(t, b), UNCHANGED soloVars,
         Top(t).pc \in Internals, b.pc \in Internals \ {"inlined"},
         b.m = Top(t).m, b.target = Top(t).target, b.cc = Top(t).cc
  PROVE  Solo'
<1>1. Top(t).pc \notin Special /\ b.pc \notin Special
  BY DEF Internals, Held, Mids, Special
<1>2. Follows(Top(t), b)
  BY DEF Internals, Follows, Entry, Compiling, Body
<1>3. OwnContext(b) /\ OwnMethod(b)
  BY TopOwn DEF OwnContext, OwnMethod, Holding, Before, Internals, Body, Releasing, Compiling, Getting
<1>4. QED
  BY <1>1, <1>2, <1>3, QuietSet DEF Internals

LEMMA InlinePassEndAlone ==
  ASSUME Alone, IInv, Solo, NEW t \in Thread, InlinePassEnd(t) PROVE Solo'
<1>1. PICK a : a = Top(t)
  OBVIOUS
<1>2. a \in Activation /\ Top(t).pc = "inline" /\ UNCHANGED soloVars
  BY <1>1, TopOwn DEF InlinePassEnd, At, soloVars, methodVars, codeVars, infoVars, contextVars
<1>3. CASE Set(t, [a EXCEPT !.i = 1, !.pass = @ + 1, !.inlined = FALSE])
  <2>1. PICK b : b = [a EXCEPT !.i = 1, !.pass = @ + 1, !.inlined = FALSE]
    OBVIOUS
  <2>2. b.pc = a.pc /\ b.m = a.m /\ b.target = a.target /\ b.cc = a.cc
    BY <1>2, <2>1 DEF Activation
  <2>3. b.pc \in Internals \ {"inlined"} /\ Top(t).pc \in Internals
    BY <1>1, <1>2, <2>2 DEF Internals
  <2>4. QED
    BY <1>1, <1>2, <1>3, <2>1, <2>2, <2>3, InternalsSet
<1>4. CASE Set(t, [a EXCEPT !.pc = "eager", !.i = 1])
  <2>1. PICK b : b = [a EXCEPT !.pc = "eager", !.i = 1]
    OBVIOUS
  <2>2. b.pc = "eager" /\ b.m = a.m /\ b.target = a.target /\ b.cc = a.cc
    BY <1>2, <2>1 DEF Activation
  <2>3. b.pc \in Internals \ {"inlined"} /\ Top(t).pc \in Internals
    BY <1>1, <1>2, <2>2 DEF Internals
  <2>4. QED
    BY <1>1, <1>2, <1>4, <2>1, <2>2, <2>3, InternalsSet
<1>5. QED
  BY <1>1, <1>3, <1>4 DEF InlinePassEnd

LEMMA EagerEndAlone ==
  ASSUME Alone, IInv, Solo, NEW t \in Thread, EagerEnd(t) PROVE Solo'
<1>1. PICK b : b = [Top(t) EXCEPT !.pc = "write"]
  OBVIOUS
<1>2. Set(t, b) /\ UNCHANGED soloVars /\ Top(t).pc = "eager"
  BY <1>1 DEF EagerEnd, Goto, At, soloVars, methodVars, codeVars, infoVars, contextVars
<1>3. b.pc = "write" /\ b.m = Top(t).m /\ b.target = Top(t).target /\ b.cc = Top(t).cc
  BY <1>1, TopOwn, PcEdit DEF PC, Body
<1>4. QED
  BY <1>2, <1>3, InternalsSet DEF Internals

LEMMA ExitAlone ==
  ASSUME Alone, IInv, Solo, NEW t \in Thread, Exit(t) PROVE Solo'
<1>1. Return(t, TRUE) /\ UNCHANGED soloVars /\ Top(t).pc = "exit"
  BY DEF Exit, At, soloVars, methodVars, codeVars, infoVars, contextVars
<1>2. Top(t).pc \notin Special \cup {"idle"}
  BY <1>1 DEF Held, Mids, Special
<1>3. Top(t).target = STAGE_DONE => invoker[Top(t).m] = "jit"
  BY <1>1, TopOwn DEF OwnMethod
<1>4. QED
  BY <1>1, <1>2, <1>3, QuietReturn

LEMMA FailAlone ==
  ASSUME Alone, IInv, Solo, NEW t \in Thread, Fail(t) PROVE Solo'
<1>1. PICK a, b : a = Top(t) /\ b = [a EXCEPT !.pc = "clearflag", !.ok = FALSE]
  OBVIOUS
<1>2. Set(t, b) /\ UNCHANGED soloVars /\ a.pc = "fail" /\ a \in Activation
  BY <1>1, TopOwn DEF Fail, At, soloVars, methodVars, codeVars, infoVars, contextVars
<1>3. b.pc = "clearflag" /\ b.m = a.m /\ b.target = a.target /\ b.cc = a.cc /\ ~ b.ok
  BY <1>1, <1>2 DEF Activation
<1>4. Follows(a, b)
  BY <1>2, <1>3 DEF Follows, Entry, Compiling, Getting, Body, Releasing
<1>5. OwnContext(a) /\ OwnMethod(a)
  BY <1>1, TopOwn
<1>6. OwnContext(b) /\ OwnMethod(b)
  BY <1>2, <1>3, <1>5 DEF OwnContext, OwnMethod, Holding, Before, Internals, Body, Releasing, Compiling, Getting
<1>7. QED
  BY <1>1, <1>2, <1>3, <1>4, <1>6, QuietSet DEF Held, Mids, Special

LEMMA CallInvokerAlone ==
  ASSUME Alone, IInv, Solo, NEW t \in Thread, CallInvoker(t) PROVE Solo'
<1>1. Return(t, TRUE) /\ UNCHANGED soloVars /\ Top(t).pc = "call"
  BY DEF CallInvoker, At, soloVars, methodVars, codeVars, infoVars, contextVars
<1>2. Top(t).pc \notin Special \cup {"idle"} /\ Top(t).pc \notin Compiling
  BY <1>1 DEF Held, Mids, Special, Compiling, Getting, Body, Releasing
<1>3. QED
  BY <1>1, <1>2, QuietReturn

\* The calls of the functions that are called from outside, and into them
LEMMA EntryCall ==
  ASSUME Alone, IInv, Solo, NEW t \in Thread, NEW a, NEW s, NEW pc, NEW m, NEW target,
         Call(t, a, s), s = Start(pc, m, target), UNCHANGED soloVars, OwnContext(a), OwnMethod(a),
         \/ Top(t).pc = "idle" /\ a.pc = "idle" /\ pc \in {"count", "class", "hook"}
         \/ /\ Top(t).pc \in Entry /\ a.pc \in {"class", "hooktest"} /\ pc \in {"publish", "check"}
  PROVE  Solo'
<1>1. s.pc = pc /\ OwnContext(s) /\ OwnMethod(s)
  BY StartFields
<1>2. Follows(Top(t), a) /\ Linked(a, s)
  BY <1>1 DEF Follows, Linked, Waiting, Entry, Compiling, Getting, Body, Releasing
<1>3. Top(t).pc \notin Special /\ s.pc \notin Special /\ a.pc \notin Body
  BY <1>1 DEF Held, Mids, Special, Entry, Body
<1>4. ASSUME s.pc \in Compiling, NEW i \in 0 .. MaxDepth, i < depth[t] PROVE stack[t][i].pc \notin Body
  <2>1. Top(t).pc \in Entry
    BY <1>1, <1>4 DEF Compiling, Getting, Body, Releasing
  <2>2. stack[t][i].pc = "idle"
    BY <1>4, <2>1, LowerFrame DEF IInv, Solo
  <2>3. QED
    BY <2>2 DEF Body
<1>5. QED
  BY <1>1, <1>2, <1>3, <1>4, QuietCall

LEMMA NoActivationOwn ==
  NoActivation.pc = "idle" /\ OwnContext(NoActivation) /\ OwnMethod(NoActivation)
BY DEF NoActivation, OwnContext, OwnMethod, Holding, Before, Internals, Body, Releasing, Compiling, Getting

LEMMA InvokeAlone ==
  ASSUME Alone, IInv, Solo, NEW t \in Thread, NEW m \in Method, Invoke(t, m) PROVE Solo'
<1>1. Call(t, NoActivation, Start("count", m, STAGE_START)) /\ UNCHANGED soloVars /\ Top(t).pc = "idle"
  BY DEF Invoke, At, soloVars, methodVars, codeVars, infoVars, contextVars
<1>2. QED
  BY <1>1, EntryCall, NoActivationOwn

LEMMA EnterClassLoopAlone ==
  ASSUME Alone, IInv, Solo, NEW t \in Thread, NEW pc \in {"class", "hook"}, EnterClassLoop(t, pc)
  PROVE  Solo'
<1>1. Call(t, NoActivation, Start(pc, Null, STAGE_START)) /\ UNCHANGED soloVars /\ Top(t).pc = "idle"
  BY DEF EnterClassLoop, At, soloVars, methodVars, codeVars, infoVars, contextVars
<1>2. QED
  BY <1>1, EntryCall, NoActivationOwn

LEMMA CompileNextAlone ==
  ASSUME Alone, IInv, Solo, NEW t \in Thread, CompileNext(t) PROVE Solo'
<1>1. PICK a, m : a = Top(t) /\ m = ClassMethods[a.i]
  OBVIOUS
<1>2. /\ UNCHANGED soloVars /\ a.pc = "class" /\ a \in Activation /\ OwnContext(a) /\ OwnMethod(a)
  BY <1>1, TopOwn DEF CompileNext, At, soloVars, methodVars, codeVars, infoVars, contextVars
<1>3. Top(t).pc \in Entry /\ Top(t).pc \notin Special \cup {"idle"} /\ Top(t).pc \notin Compiling
  BY <1>1, <1>2 DEF Entry, Held, Mids, Special, Compiling, Getting, Body, Releasing
<1>4. CASE Return(t, TRUE)
  BY <1>1, <1>2, <1>3, <1>4, QuietReturn
<1>5. CASE Call(t, a, Start("publish", m, STAGE_START))
  BY <1>1, <1>2, <1>3, <1>5, EntryCall
<1>6. CASE Call(t, [a EXCEPT !.i = @ + 1], Start("check", m, STAGE_DONE))
  <2>1. PICK b : b = [a EXCEPT !.i = @ + 1]
    OBVIOUS
  <2>2. b.pc = "class"
    BY <1>2, <2>1 DEF Activation
  <2>3. OwnContext(b) /\ OwnMethod(b)
    BY <2>2 DEF OwnContext, OwnMethod, Holding, Before, Internals, Body, Releasing, Compiling, Getting
  <2>4. QED
    BY <1>2, <1>3, <1>6, <2>1, <2>2, <2>3, EntryCall
<1>7. QED
  BY <1>1, <1>4, <1>5, <1>6 DEF CompileNext

LEMMA HookNextAlone ==
  ASSUME Alone, IInv, Solo, NEW t \in Thread, HookNext(t) PROVE Solo'
<1>1. PICK a, b : a = Top(t) /\ b = [a EXCEPT !.pc = "hooktest"]
  OBVIOUS
<1>2. UNCHANGED soloVars /\ a.pc = "hook" /\ a \in Activation
  BY <1>1, TopOwn DEF HookNext, At, soloVars, methodVars, codeVars, infoVars, contextVars
<1>3. Top(t).pc \in Entry /\ Top(t).pc \notin Special \cup {"idle"} /\ Top(t).pc \notin Compiling
  BY <1>1, <1>2 DEF Entry, Held, Mids, Special, Compiling, Getting, Body, Releasing
<1>4. CASE Return(t, TRUE)
  BY <1>1, <1>2, <1>3, <1>4, QuietReturn
<1>5. CASE a.i <= Len(ClassMethods) /\ Call(t, b, Start("publish", ClassMethods[a.i], STAGE_START))
  <2>1. b.pc = "hooktest" /\ b.i = a.i
    BY <1>1, <1>2 DEF Activation
  <2>2. OwnContext(b) /\ OwnMethod(b)
    BY <1>5, <2>1 DEF OwnContext, OwnMethod, Holding, Before, Internals, Body, Releasing, Compiling, Getting
  <2>3. QED
    BY <1>2, <1>3, <1>5, <2>1, <2>2, EntryCall
<1>6. QED
  BY <1>1, <1>4, <1>5 DEF HookNext

LEMMA HookTestAlone ==
  ASSUME Alone, IInv, Solo, NEW t \in Thread, HookTest(t) PROVE Solo'
<1>1. PICK a : a = Top(t)
  OBVIOUS
<1>2. UNCHANGED soloVars /\ a.pc = "hooktest" /\ a \in Activation /\ a.i <= Len(ClassMethods)
  BY <1>1, TopOwn DEF HookTest, At, OwnMethod, soloVars, methodVars, codeVars, infoVars, contextVars
<1>3. CASE code[ClassMethods[a.i]] = Null /\ Goto(t, "hookset")
  <2>1. PICK b : b = [a EXCEPT !.pc = "hookset"]
    OBVIOUS
  <2>2. b.pc = "hookset" /\ b.i = a.i
    BY <1>2, <2>1 DEF Activation
  <2>3. OwnContext(b) /\ OwnMethod(b)
    BY <1>2, <1>3, <2>2 DEF OwnContext, OwnMethod, Holding, Before, Internals, Body, Releasing, Compiling, Getting
  <2>4. Follows(a, b)
    BY <1>2, <2>2 DEF Follows, Entry, Compiling, Getting, Body, Releasing
  <2>5. Set(t, b)
    BY <1>1, <1>3, <2>1 DEF Goto
  <2>6. QED
    BY <1>1, <1>2, <2>2, <2>3, <2>4, <2>5, QuietSet DEF Held, Mids, Special
<1>4. CASE Set(t, [a EXCEPT !.pc = "hook", !.i = @ + 1])
  <2>1. PICK b : b = [a EXCEPT !.pc = "hook", !.i = @ + 1]
    OBVIOUS
  <2>2. b.pc = "hook"
    BY <1>2, <2>1 DEF Activation
  <2>3. OwnContext(b) /\ OwnMethod(b)
    BY <2>2 DEF OwnContext, OwnMethod, Holding, Before, Internals, Body, Releasing, Compiling, Getting
  <2>4. Follows(a, b)
    BY <1>2, <2>2 DEF Follows, Entry, Compiling, Getting, Body, Releasing
  <2>5. QED
    BY <1>1, <1>2, <1>4, <2>1, <2>2, <2>3, <2>4, QuietSet DEF Held, Mids, Special
<1>5. QED
  BY <1>1, <1>3, <1>4 DEF HookTest

LEMMA SoloStutters ==
  ASSUME Solo, UNCHANGED soloVars, UNCHANGED <<stack, depth>> PROVE Solo'
<1> USE DEF soloVars
<1>1. Nesting'
  BY DEF Solo, Nesting, Nested, Linked
<1>c. \A m : CodeSame(m)
  BY CodeKept
<1>2. Frames'
  BY <1>c DEF Solo, Frames, OwnContext, OwnMethod, Loose, Allocated, CodeSame
<1>3. \A m : Midway(m)' <=> Midway(m)
  BY DEF Midway, Top
<1>4. Methods'
  BY <1>c, <1>3 DEF Solo, Methods, MethodState, CodeState, CodeSame
<1>5. Free' = Free
  BY DEF Free, Loose, Allocated, Top
<1>6. PoolOK'
  BY <1>5 DEF Solo, PoolOK
<1>7. Prepared'
  BY DEF Solo, Prepared, Top
<1>8. QED
  BY <1>1, <1>2, <1>4, <1>6, <1>7 DEF Solo

-----------------------------------------------------------------------------
(* The steps that change a method or a context.                            *)

\* prepareCompiledCodeInfo(): nobody has used the CodeInfo yet.
LEMMA InfoStep ==
  ASSUME Alone, IInv, Solo, NEW t \in Thread, Top(t).pc \in {"publish", "initinfo"},
         NEW x, x = Top(t).m, info[x] # "ready", NEW v, info' = [info EXCEPT ![x] = v],
         UNCHANGED <<infocc, ctx, pool, inlineability, throwtable, invoker, codeVars>>,
         Top(t)'.pc \notin Held \cup Mids
  PROVE  LowerOK(t) /\ Methods' /\ PoolOK' /\ (\A m \in Method \ {x} : info'[m] = info[m])
<1>1. x \in Method /\ \A m \in Method \ {x} : info'[m] = info[m]
  BY TopOwn DEF NoMethod, IInv, MethodOK
<1>2. LowerOK(t)
  <2>1. SUFFICES ASSUME NEW i \in 0 .. MaxDepth, NEW a \in Activation, i < depth[t], a = stack[t][i]
                 PROVE  OwnContext(a)' /\ OwnMethod(a)'
    BY DEF LowerOK
  <2>2. /\ a.pc \in Waiting /\ OwnContext(a) /\ OwnMethod(a)
        /\ a.pc \in Body => a.m \in Method
    BY <2>1, LowerFrame DEF IInv, Solo
  <2>3. a.pc \in Body => info[a.m] = "ready"
    BY <2>2 DEF OwnMethod, Body, Compiling
  <2>4. QED
    BY <1>1, <2>2, <2>3, WaitingKept
<1>3. \A m \in Method \ {x} : Same(m)
  BY <1>1 DEF Same, codeVars
<1>4. MethodState(x) /\ (x \notin MayFail => CodeState(x))
  BY <1>1 DEF Solo, Methods
<1>c. CodeSame(x)
  BY CodeKept DEF codeVars
<1>5. ~ Midway(x) /\ ~ Midway(x)'
  BY MidwayTop DEF Mids
<1>6. MethodState(x)'
  BY <1>c, <1>4, <1>5 DEF MethodState, CodeSame, codeVars
<1>7. x \notin MayFail => CodeState(x)'
  BY <1>4, <1>5 DEF CodeState, codeVars
<1>8. Methods'
  BY <1>3, <1>6, <1>7, MethodsOthers DEF Solo, Mids
<1>9. PoolOK'
  BY PoolQuiet DEF Solo, Held
<1>10. QED
  BY <1>1, <1>2, <1>8, <1>9

LEMMA PublishAlone ==
  ASSUME Alone, IInv, Solo, NEW t \in Thread, Publish(t) PROVE Solo'
<1>1. PICK a, x : a = Top(t) /\ x = a.m
  OBVIOUS
<1>2. a.pc = "publish" /\ a \in Activation /\ x \in Method
  BY <1>1, TopOwn DEF Publish, At, NoMethod
<1>3. /\ UNCHANGED <<infocc, ctx, pool, inlineability, throwtable, invoker, codeVars>>
  BY DEF Publish, contextVars
<1>4. \A m \in Method : info[m] # "published"
  BY <1>1, <1>2 DEF Solo, Prepared
<1>5. CASE info[x] # "none" /\ Return(t, TRUE) /\ UNCHANGED info
  <2>1. info[x] = "ready"
    BY <1>2, <1>4, <1>5 DEF IInv, MethodOK
  <2>2. UNCHANGED soloVars
    BY <1>3, <1>5 DEF soloVars, codeVars
  <2>3. a.pc \notin Special \cup {"idle"} /\ a.pc \notin Compiling
    BY <1>2 DEF Special, Held, Mids, Compiling, Getting, Body, Releasing
  <2>4. QED
    BY <1>1, <1>5, <2>1, <2>2, <2>3, QuietReturn
<1>6. CASE info[x] = "none" /\ info' = [info EXCEPT ![x] = "published"] /\ Goto(t, "initinfo")
  <2>1. PICK b : b = [a EXCEPT !.pc = "initinfo"]
    OBVIOUS
  <2>2. Set(t, b)
    BY <1>1, <1>6, <2>1 DEF Goto
  <2>3. b.pc = "initinfo" /\ b.m = x
    BY <1>1, <1>2, <2>1 DEF Activation
  <2>4. Top(t)' = b
    BY <2>2, TopSet DEF IInv
  <2>5. LowerOK(t) /\ Methods' /\ PoolOK' /\ (\A m \in Method \ {x} : info'[m] = info[m])
    BY <1>1, <1>2, <1>3, <1>6, <2>3, <2>4, InfoStep DEF Held, Mids
  <2>6. info'[x] = "published"
    BY <1>2, <1>6 DEF IInv, MethodOK
  <2>7. OwnContext(b)' /\ OwnMethod(b)'
    BY <2>3, <2>6
    DEF OwnContext, OwnMethod, Holding, Before, Internals, Body, Releasing, Compiling, Getting
  <2>8. Follows(a, b)
    BY <1>1, <1>2, <2>3 DEF Follows, Entry, Compiling, Getting, Body, Releasing
  <2>9. Prepared'
    BY <1>4, <2>3, <2>4, <2>5, PreparedStep
  <2>10. Nesting' /\ Frames'
    BY <1>1, <2>2, <2>5, <2>7, <2>8, NestingSet, FramesSet DEF IInv, Solo
  <2>11. QED
    BY <2>5, <2>9, <2>10 DEF Solo
<1>7. QED
  BY <1>1, <1>5, <1>6 DEF Publish

LEMMA InitInfoAlone ==
  ASSUME Alone, IInv, Solo, NEW t \in Thread, InitInfo(t) PROVE Solo'
<1>1. PICK x : x = Top(t).m
  OBVIOUS
<1>2. Top(t).pc = "initinfo" /\ x \in Method /\ info[x] = "published" /\ Return(t, TRUE)
  BY <1>1, TopOwn DEF InitInfo, At, NoMethod, OwnMethod
<1>3. MethodState(x)
  BY <1>2 DEF Solo, Methods
<1>4. infocc[x] = Null /\ inlineability[x] = "unknown" /\ throwtable[x] = <<>>
  BY <1>2, <1>3 DEF MethodState
<1>5. UNCHANGED <<infocc, inlineability, throwtable>>
  BY <1>1, <1>2, <1>4 DEF InitInfo, IInv, MethodOK
<1>6. UNCHANGED <<ctx, pool, invoker, codeVars>> /\ info' = [info EXCEPT ![x] = "ready"]
  BY <1>1 DEF InitInfo, contextVars
<1>7. /\ Top(t)'.pc \notin Special
      /\ Top(t)'.pc = "lookup" => Top(t)'.m = x
  BY <1>1, <1>2, ReturnsTo
<1>8. LowerOK(t) /\ Methods' /\ PoolOK' /\ (\A m \in Method \ {x} : info'[m] = info[m])
  BY <1>1, <1>2, <1>5, <1>6, <1>7, InfoStep DEF Special
<1>9. info'[x] = "ready" /\ \A m \in Method \ {x} : info[m] # "published"
  BY <1>1, <1>2, <1>6 DEF IInv, MethodOK, Solo, Prepared
<1>10. Prepared'
  BY <1>7, <1>8, <1>9, PreparedStep
<1>11. Top(t).pc \notin Compiling
  BY <1>2 DEF Compiling, Getting, Body, Releasing
<1>12. Nesting' /\ Frames'
  BY <1>2, <1>8, <1>11, NestingReturn, FramesReturn DEF IInv, Solo
<1>13. QED
  BY <1>8, <1>10, <1>12 DEF Solo

\* Compilations do not disturb the CodeInfos.
LEMMA PreparedKept ==
  ASSUME Alone, Solo, NEW t \in Thread, UNCHANGED info, Top(t).pc # "initinfo", Top(t)'.pc # "lookup"
  PROVE  Prepared'
<1>1. \A m \in Method : info[m] # "published"
  BY DEF Solo, Prepared
<1>2. QED
  BY <1>1, PreparedStep

\* The contexts of two methods differ.
LEMMA OwnContexts ==
  ASSUME Solo, NEW x \in Method, infocc[x] # Null, NEW m \in Method \ {x}
  PROVE  infocc[m] # infocc[x] /\ ctx[infocc[x]].mb = x
<1>1. MethodState(m) /\ MethodState(x)
  BY DEF Solo, Methods
<1>2. QED
  BY <1>1 DEF MethodState

\* What an activation that holds the context of its method knows of both
LEMMA Holds ==
  ASSUME IInv, Solo, NEW t \in Thread, NEW a, a = Top(t), a.pc \in Holding
  PROVE  /\ a \in Activation /\ a.m \in Method /\ a.cc \in Context /\ a.cc # Null
         /\ infocc[a.m] = a.cc /\ ctx[a.cc] \in ContextType /\ ctx[a.cc].mb = a.m
         /\ MethodState(a.m) /\ (a.m \notin MayFail => CodeState(a.m))
         /\ OwnContext(a) /\ OwnMethod(a)
         /\ a.pc \in Compiling /\ a.pc \notin Held
<1>1. a.pc \in HasContext /\ a.pc \notin NoMethod /\ a.pc \in Compiling /\ a.pc \notin Held
  BY DEF Holding, HasContext, NoMethod, Compiling, Body, Releasing, Getting, Held
<1>2. /\ a \in Activation /\ a.m \in Method /\ a.cc \in Context /\ OwnContext(a) /\ OwnMethod(a)
  BY <1>1, TopOwn DEF Formed
<1>3. ctx[a.cc] \in ContextType /\ a.cc # Null
  BY <1>2, NullAssumption DEF IInv, MethodOK
<1>4. infocc[a.m] = a.cc
  BY <1>2 DEF OwnContext
<1>5. MethodState(a.m) /\ (a.m \notin MayFail => CodeState(a.m))
  BY <1>2 DEF Solo, Methods
<1>6. ctx[a.cc].mb = a.m
  BY <1>3, <1>4, <1>5 DEF MethodState
<1>7. QED
  BY <1>1, <1>2, <1>3, <1>4, <1>5, <1>6

\* The fields of the methods other than x stay as they are.
OnlyMethod(x) ==
  \A m \in Method \ {x} :
    /\ inlineability'[m] = inlineability[m] /\ throwtable'[m] = throwtable[m]
    /\ invoker'[m] = invoker[m] /\ code'[m] = code[m] /\ linked'[m] = linked[m]
    /\ compiledflag'[m] = compiledflag[m] /\ (m \in direct' <=> m \in direct)

\* Context c keeps its place, and the others are not touched.
OnlyContext(c) ==
  /\ \A d \in Context \ {c} : ctx'[d] = ctx[d]
  /\ ctx'[c].mb = ctx[c].mb /\ ctx'[c].next = ctx[c].next

\* A step of compileMethod() on its own method and context
LEMMA OwnStep ==
  ASSUME Alone, IInv, Solo, NEW t \in Thread, NEW a, a = Top(t), a.pc \in Holding,
         UNCHANGED <<infocc, pool, info>>, NEW x, x = a.m, OnlyMethod(x), OnlyContext(a.cc),
         Top(t)'.pc \notin Held \cup {"lookup"}, Top(t)'.pc \in Mids => Top(t)'.m = x,
         MethodState(x)', x \notin MayFail => CodeState(x)'
  PROVE  LowerOK(t) /\ Methods' /\ PoolOK' /\ Prepared'
<1>1. /\ a.m \in Method /\ a.cc \in Context /\ a.cc # Null /\ infocc[a.m] = a.cc
      /\ a.pc \in Compiling /\ a.pc \notin Held
  BY Holds
<1>2. \A m \in Method \ {x} : infocc[m] # a.cc
  BY <1>1, OwnContexts
<1>3. LowerOK(t)
  BY <1>1, <1>2, LowerKept DEF IInv, OnlyMethod, OnlyContext
<1>4. \A m \in Method \ {x} : Same(m)
  BY <1>2 DEF Same, OnlyMethod, OnlyContext, IInv, MethodOK
<1>5. Methods'
  BY <1>4, MethodsOthers DEF Solo
<1>6. PoolOK'
  BY <1>1, PoolQuiet DEF Solo, OnlyContext
<1>7. Prepared'
  BY <1>1, PreparedKept DEF Compiling, Getting, Body, Releasing
<1>8. QED
  BY <1>3, <1>5, <1>6, <1>7

\* The same, for the steps that stay in compileMethod()
LEMMA OwnSet ==
  ASSUME Alone, IInv, Solo, NEW t \in Thread, NEW a, a = Top(t), a.pc \in Holding,
         UNCHANGED <<infocc, pool, info>>, NEW x, x = a.m, OnlyMethod(x), OnlyContext(a.cc),
         NEW b, Set(t, b), b.pc \in Compiling \ (Held \cup {"lookup"}), b.m = x, b.target = a.target,
         OwnContext(b)', OwnMethod(b)', MethodState(x)', x \notin MayFail => CodeState(x)'
  PROVE  Solo'
<1>1. Top(t)' = b
  BY TopSet DEF IInv
<1>2. LowerOK(t) /\ Methods' /\ PoolOK' /\ Prepared'
  BY <1>1, OwnStep
<1>3. a.pc \in Compiling
  BY Holds
<1>4. Follows(a, b)
  BY <1>3 DEF Follows, Entry, Compiling, Getting, Body, Releasing
<1>5. Nesting' /\ Frames'
  BY <1>2, <1>4, NestingSet, FramesSet DEF IInv, Solo
<1>6. QED
  BY <1>2, <1>5 DEF Solo

LEMMA RefAlone ==
  ASSUME Alone, IInv, Solo, NEW t \in Thread, Ref(t) PROVE Solo'
<1>1. PICK a, x, c : a = Top(t) /\ x = a.m /\ c = a.cc
  OBVIOUS
<1>2. a.pc = "ref" /\ a.pc \in Holding
  BY <1>1 DEF Ref, At, Holding
<1>3. /\ a \in Activation /\ x \in Method /\ c \in Context /\ c # Null /\ infocc[x] = c
      /\ ctx[c] \in ContextType /\ MethodState(x) /\ (x \notin MayFail => CodeState(x))
      /\ OwnContext(a) /\ OwnMethod(a)
  BY <1>1, <1>2, Holds
<1>4. PICK b : b = [a EXCEPT !.pc = "stagecheck"]
  OBVIOUS
<1>5. Set(t, b) /\ UNCHANGED <<infocc, pool, info>> /\ OnlyMethod(x)
  BY <1>1, <1>4 DEF Ref, Goto, OnlyMethod, methodVars, codeVars, infoVars
<1>6. b.pc = "stagecheck" /\ b.m = x /\ b.target = a.target /\ b.cc = c
  BY <1>1, <1>3, <1>4 DEF Activation
<1>7. /\ ctx' = [ctx EXCEPT ![c] = [ctx[c] EXCEPT !.ref = ctx[c].ref + 1]]
  BY <1>1 DEF Ref
<1>8. /\ OnlyContext(c) /\ ctx'[c].ref = ctx[c].ref + 1 /\ ctx'[c].stage = ctx[c].stage
      /\ ctx'[c].body = ctx[c].body /\ ctx'[c].mb = ctx[c].mb
  BY <1>3, <1>7 DEF OnlyContext, ContextType, IInv, MethodOK
<1>9. ~ Midway(x) /\ ~ Midway(x)'
  BY <1>1, <1>2, <1>5, <1>6, MidwayTop, TopSet DEF IInv, Mids
<1>10. ctx[c].ref >= 0 /\ ctx[c].ref \in Int
  BY <1>3 DEF MethodState, ContextType
<1>c. CodeSame(x)
  BY CodeKept DEF Ref, methodVars, codeVars, infoVars
<1>11. MethodState(x)'
  BY <1>c, <1>3, <1>5, <1>8, <1>9, <1>10 DEF MethodState, CodeSame, Ref, methodVars, codeVars, infoVars
<1>12. x \notin MayFail => CodeState(x)'
  BY <1>3, <1>8, <1>9 DEF CodeState, Ref, methodVars, codeVars, infoVars
<1>13. OwnContext(b)'
  BY <1>3, <1>5, <1>6, <1>8, <1>10 DEF OwnContext, Holding, Internals, Body
<1>14. OwnMethod(b)'
  BY <1>1, <1>2, <1>3, <1>6
  DEF OwnMethod, Before, Internals, Body, Releasing, Compiling, Getting, Ref, methodVars, codeVars, infoVars
<1>15. b.pc \in Compiling \ (Held \cup {"lookup"})
  BY <1>6 DEF Compiling, Held
<1>16. QED
  BY <1>1, <1>2, <1>5, <1>6, <1>8, <1>11, <1>12, <1>13, <1>14, <1>15, OwnSet

\* releaseCompilerContext() has returned to compileMethod(), which returns.
LEMMA ReleasedFails ==
  ASSUME Alone, IInv, Solo, NEW t \in Thread, NEW a, a = Top(t), a.pc \in Releasing, ~ a.ok,
         Return(t, FALSE), UNCHANGED invoker, LowerOK(t)
  PROVE  Nesting' /\ Frames' /\ Top(t)'.pc \notin Special \cup {"lookup"}
<1>1. a.pc # "idle" /\ a.pc \in Compiling /\ a.pc \notin {"publish", "initinfo"}
  BY DEF Releasing, Compiling
<1>2. invoker[a.m] # "jit"
  BY TopOwn DEF OwnMethod
<1>3. FALSE \in BOOLEAN
  OBVIOUS
<1>4. Top(t)'.pc \notin Special \cup {"lookup"}
  BY <1>1, <1>3, ReturnsTo
<1>5. Nesting'
  BY <1>1, <1>3, NestingReturn DEF IInv, Solo
<1>6. Frames'
  BY <1>1, <1>2, <1>3, FramesReturn DEF IInv, Solo
<1>7. QED
  BY <1>4, <1>5, <1>6

LEMMA UnrefAlone ==
  ASSUME Alone, IInv, Solo, NEW t \in Thread, Unref(t) PROVE Solo'
<1>1. PICK a, x, c : a = Top(t) /\ x = a.m /\ c = a.cc
  OBVIOUS
<1>2. a.pc = "release" /\ a.pc \in Holding
  BY <1>1 DEF Unref, At, Holding
<1>3. /\ a \in Activation /\ x \in Method /\ c \in Context /\ c # Null /\ infocc[x] = c
      /\ ctx[c] \in ContextType /\ MethodState(x) /\ (x \notin MayFail => CodeState(x))
      /\ OwnContext(a) /\ OwnMethod(a)
  BY <1>1, <1>2, Holds
<1>4. UNCHANGED <<infocc, pool, info, invoker, inlineability, throwtable, codeVars>> /\ OnlyMethod(x)
  BY DEF Unref, OnlyMethod, methodVars, codeVars, infoVars
<1>5. ctx' = [ctx EXCEPT ![c] = [ctx[c] EXCEPT !.ref = ctx[c].ref - 1]]
  BY <1>1 DEF Unref
<1>6. /\ OnlyContext(c) /\ ctx'[c].ref = ctx[c].ref - 1 /\ ctx'[c].stage = ctx[c].stage
      /\ ctx'[c].body = ctx[c].body /\ ctx'[c].mb = ctx[c].mb
  BY <1>3, <1>5 DEF OnlyContext, ContextType, IInv, MethodOK
<1>7. ctx[c].ref >= 1 /\ ctx[c].ref \in Int
  BY <1>1, <1>2, <1>3 DEF OwnContext, Holding, ContextType
<1>8. ASSUME Top(t)'.pc \notin Mids
      PROVE  MethodState(x)' /\ (x \notin MayFail => CodeState(x)')
  <2>1. ~ Midway(x) /\ ~ Midway(x)'
    BY <1>1, <1>2, <1>8, MidwayTop DEF Mids
  <2>c. CodeSame(x)
    BY <1>4, CodeKept DEF codeVars
  <2>2. MethodState(x)'
    BY <2>c, <1>3, <1>4, <1>6, <1>7, <2>1 DEF MethodState, CodeSame, codeVars
  <2>3. x \notin MayFail => CodeState(x)'
    BY <1>3, <1>4, <1>6, <2>1 DEF CodeState, codeVars
  <2>4. QED
    BY <2>2, <2>3
<1>9. ASSUME NEW pc \in {"exit", "unlink"}, Goto(t, pc), pc = "exit" => a.ok PROVE Solo'
  <2>1. PICK b : b = [a EXCEPT !.pc = pc]
    OBVIOUS
  <2>2. Set(t, b)
    BY <1>1, <1>9, <2>1 DEF Goto
  <2>3. b.pc = pc /\ b.m = x /\ b.target = a.target /\ b.cc = c /\ b.ok = a.ok
    BY <1>1, <1>3, <2>1 DEF Activation
  <2>4. Top(t)' = b
    BY <2>2, TopSet DEF IInv
  <2>5. OwnContext(b)'
    BY <1>3, <1>4, <2>3 DEF OwnContext, Holding, Internals, Body
  <2>6. OwnMethod(b)'
    BY <1>1, <1>2, <1>3, <1>4, <1>9, <2>3
    DEF OwnMethod, Before, Internals, Body, Releasing, Compiling, Getting, codeVars
  <2>7. b.pc \in Compiling \ (Held \cup {"lookup"}) /\ b.pc \notin Mids
    BY <2>3 DEF Compiling, Body, Releasing, Held, Mids
  <2>8. QED
    BY <1>1, <1>2, <1>4, <1>6, <1>8, <2>2, <2>3, <2>4, <2>5, <2>6, <2>7, OwnSet
<1>10. ASSUME ~ a.ok, Return(t, FALSE) PROVE Solo'
  <2>1. Top(t)'.pc \notin Special \cup {"lookup"}
    BY <1>1, <1>2, <1>10, ReturnsTo
  <2>2. MethodState(x)' /\ (x \notin MayFail => CodeState(x)')
    BY <1>8, <2>1 DEF Special
  <2>3. LowerOK(t) /\ Methods' /\ PoolOK' /\ Prepared'
    BY <1>1, <1>2, <1>4, <1>6, <2>1, <2>2, OwnStep DEF Special
  <2>4. Nesting' /\ Frames'
    BY <1>1, <1>2, <1>4, <1>10, <2>3, ReleasedFails DEF Releasing
  <2>5. QED
    BY <2>3, <2>4 DEF Solo
<1>11. QED
  BY <1>1, <1>9, <1>10 DEF Unref, Released

LEMMA FrontFailsAlone ==
  ASSUME Alone, IInv, Solo, NEW t \in Thread, FrontFails(t) PROVE Solo'
<1>1. PICK a, x, c : a = Top(t) /\ x = a.m /\ c = a.cc
  OBVIOUS
<1>2. a.pc = "front" /\ a.pc \in Holding
  BY <1>1 DEF FrontFails, At, Holding, Body
<1>3. /\ a \in Activation /\ x \in Method /\ c \in Context /\ c # Null /\ infocc[x] = c
      /\ ctx[c] \in ContextType /\ ctx[c].mb = x /\ MethodState(x)
      /\ OwnContext(a) /\ OwnMethod(a)
  BY <1>1, <1>2, Holds
<1>4. PICK b : b = [a EXCEPT !.pc = "fail"]
  OBVIOUS
<1>5. /\ Set(t, b) /\ UNCHANGED <<infocc, pool, info, invoker, inlineability, codeVars, throwtable>>
      /\ OnlyMethod(x) /\ x \in MayFail
  BY <1>1, <1>3, <1>4 DEF FrontFails, Goto, OnlyMethod, methodVars, codeVars, infoVars
<1>6. b.pc = "fail" /\ b.m = x /\ b.target = a.target /\ b.cc = c
  BY <1>1, <1>3, <1>4 DEF Activation
<1>7. ctx' = [ctx EXCEPT ![c] = [ctx[c] EXCEPT !.body = Junk]]
  BY <1>1 DEF FrontFails
<1>8. /\ OnlyContext(c) /\ ctx'[c].ref = ctx[c].ref /\ ctx'[c].stage = ctx[c].stage
      /\ ctx'[c].body = Junk /\ ctx'[c].mb = ctx[c].mb
  BY <1>3, <1>7 DEF OnlyContext, ContextType, IInv, MethodOK
<1>9. ~ Midway(x) /\ ~ Midway(x)'
  BY <1>1, <1>2, <1>5, <1>6, MidwayTop, TopSet DEF IInv, Mids
<1>c. CodeSame(x)
  BY <1>5, CodeKept DEF codeVars
<1>10. MethodState(x)'
  BY <1>c, <1>3, <1>5, <1>8, <1>9, NullAssumption DEF MethodState, CodeSame, codeVars
<1>11. OwnContext(b)'
  BY <1>1, <1>2, <1>3, <1>5, <1>6, <1>8 DEF OwnContext, Holding, Internals, Body
<1>12. OwnMethod(b)'
  BY <1>1, <1>2, <1>3, <1>5, <1>6
  DEF OwnMethod, Before, Internals, Body, Releasing, Compiling, Getting
<1>13. b.pc \in Compiling \ (Held \cup {"lookup"})
  BY <1>6 DEF Compiling, Body, Held
<1>14. QED
  BY <1>1, <1>2, <1>5, <1>6, <1>8, <1>10, <1>11, <1>12, <1>13, OwnSet

LEMMA FrontAlone ==
  ASSUME Alone, IInv, Solo, NEW t \in Thread, Front(t) PROVE Solo'
<1>1. PICK a, x, c : a = Top(t) /\ x = a.m /\ c = a.cc
  OBVIOUS
<1>2. a.pc = "front" /\ a.pc \in Holding
  BY <1>1 DEF Front, At, Holding, Body
<1>3. /\ a \in Activation /\ x \in Method /\ c \in Context /\ c # Null /\ infocc[x] = c
      /\ ctx[c] \in ContextType /\ ctx[c].mb = x /\ MethodState(x) /\ (x \notin MayFail => CodeState(x))
      /\ OwnContext(a) /\ OwnMethod(a)
  BY <1>1, <1>2, Holds
<1>4. PICK b : b = [a EXCEPT !.pc = "preserve"]
  OBVIOUS
<1>5. /\ Set(t, b) /\ UNCHANGED <<infocc, pool, info, invoker, codeVars, throwtable>>
      /\ inlineability' = [inlineability EXCEPT ![x] = IF x \in Inlinable THEN "bare" ELSE "dont"]
  BY <1>1, <1>4 DEF Front, Goto
<1>6. b.pc = "preserve" /\ b.m = x /\ b.target = a.target /\ b.cc = c
  BY <1>1, <1>3, <1>4 DEF Activation
<1>7. PICK sites : sites = ctx[c].sites \o Callees[x]
  OBVIOUS
<1>8. ctx' = [ctx EXCEPT ![c] = [ctx[c] EXCEPT !.body = Appended(ctx[c].body, x), !.sites = sites]]
  BY <1>1, <1>3, <1>7 DEF Front, IInv, MethodOK
<1>9. /\ OnlyContext(c) /\ ctx'[c].ref = ctx[c].ref /\ ctx'[c].stage = ctx[c].stage
      /\ ctx'[c].body = Appended(ctx[c].body, x) /\ ctx'[c].mb = ctx[c].mb
  BY <1>3, <1>8 DEF OnlyContext, ContextType, IInv, MethodOK
<1>10. inlineability'[x] # "unknown" /\ OnlyMethod(x)
  BY <1>3, <1>5 DEF IInv, MethodOK, OnlyMethod, codeVars
<1>11. ~ Midway(x) /\ Midway(x)'
  BY <1>1, <1>2, <1>5, <1>6, MidwayTop, TopSet DEF IInv, Mids
<1>12. info[x] = "ready" /\ ctx[c].stage = STAGE_START /\ invoker[x] # "jit"
  BY <1>1, <1>2, <1>3 DEF OwnMethod, OwnContext, Compiling, Body, Before
<1>13. Uncompiled(x) /\ CodeSame(x)
  BY <1>3, <1>5, <1>11, <1>12, CodeKept DEF MethodState, codeVars
<1>14. Uncompiled(x)' /\ ~ compiledflag'[x] /\ x \notin direct'
  BY <1>5, <1>13 DEF CodeSame, Uncompiled, codeVars
<1>15. ctx'[c].body # Null /\ (x \notin MayFail => ctx'[c].body = x)
  BY <1>3, <1>9, <1>11, <1>12, NullAssumption DEF Appended, CodeState
<1>16. MethodState(x)'
  BY <1>3, <1>5, <1>9, <1>10, <1>11, <1>12, <1>14
  DEF MethodState, STAGE_START, STAGE_INTERNAL_CODE, STAGE_STATIC_PART, STAGE_DONE
<1>17. x \notin MayFail => CodeState(x)'
  BY <1>3, <1>5, <1>9, <1>11, <1>12 DEF CodeState, STAGE_START, STAGE_INTERNAL_CODE
<1>18. OwnContext(b)'
  <2>1. ctx[c].ref >= 1
    BY <1>1, <1>2, <1>3 DEF OwnContext, Holding, Body
  <2>2. QED
    BY <1>3, <1>5, <1>6, <1>9, <1>12, <1>15, <2>1 DEF OwnContext, Holding, Internals, Body
<1>19. OwnMethod(b)'
  BY <1>5, <1>6, <1>10, <1>12, <1>14
  DEF OwnMethod, Before, Internals, Body, Releasing, Compiling, Getting
<1>20. b.pc \in Compiling \ (Held \cup {"lookup"})
  BY <1>6 DEF Compiling, Body, Held
<1>21. QED
  BY <1>1, <1>2, <1>5, <1>6, <1>9, <1>10, <1>16, <1>17, <1>18, <1>19, <1>20, OwnSet

LEMMA PreserveAlone ==
  ASSUME Alone, IInv, Solo, NEW t \in Thread, Preserve(t) PROVE Solo'
<1>1. PICK a, x, c : a = Top(t) /\ x = a.m /\ c = a.cc
  OBVIOUS
<1>2. a.pc = "preserve" /\ a.pc \in Holding
  BY <1>1 DEF Preserve, At, Holding, Body
<1>3. /\ a \in Activation /\ x \in Method /\ c \in Context /\ c # Null /\ infocc[x] = c
      /\ ctx[c] \in ContextType /\ ctx[c].mb = x /\ MethodState(x) /\ (x \notin MayFail => CodeState(x))
      /\ OwnContext(a) /\ OwnMethod(a)
  BY <1>1, <1>2, Holds
<1>4. PICK b : b = [a EXCEPT !.pc = "internal"]
  OBVIOUS
<1>5. /\ Set(t, b) /\ UNCHANGED <<infocc, pool, info, invoker, codeVars, throwtable>>
      /\ inlineability' = [inlineability EXCEPT ![x] = IF @ = "bare" THEN "may" ELSE @]
  BY <1>1, <1>4 DEF Preserve, Goto
<1>6. b.pc = "internal" /\ b.m = x /\ b.target = a.target /\ b.cc = c
  BY <1>1, <1>3, <1>4 DEF Activation
<1>7. ctx' = [ctx EXCEPT ![c] = [ctx[c] EXCEPT !.stage = STAGE_INTERNAL_CODE]]
  BY <1>1 DEF Preserve
<1>8. /\ OnlyContext(c) /\ ctx'[c].ref = ctx[c].ref /\ ctx'[c].stage = STAGE_INTERNAL_CODE
      /\ ctx'[c].body = ctx[c].body /\ ctx'[c].mb = ctx[c].mb
  BY <1>3, <1>7 DEF OnlyContext, ContextType, IInv, MethodOK
<1>9. /\ info[x] = "ready" /\ invoker[x] # "jit" /\ inlineability[x] # "unknown" /\ Uncompiled(x)
      /\ ctx[c].body # Null /\ (x \notin MayFail => ctx[c].body = x) /\ ctx[c].ref >= 1
  BY <1>1, <1>2, <1>3 DEF OwnMethod, OwnContext, Holding, Compiling, Body, Before
<1>10. inlineability'[x] \notin {"unknown", "bare"} /\ OnlyMethod(x)
  BY <1>3, <1>5, <1>9 DEF IInv, MethodOK, OnlyMethod, codeVars
<1>11. Uncompiled(x)' /\ ~ compiledflag'[x] /\ x \notin direct'
  <2>1. CodeSame(x)
    BY <1>5, CodeKept DEF codeVars
  <2>2. QED
    BY <1>5, <1>9, <2>1 DEF CodeSame, Uncompiled, codeVars
<1>12. MethodState(x)'
  BY <1>3, <1>5, <1>8, <1>9, <1>10, <1>11
  DEF MethodState, STAGE_INTERNAL_CODE, STAGE_STATIC_PART, STAGE_DONE
<1>13. x \notin MayFail => CodeState(x)'
  BY <1>3, <1>5, <1>8, <1>9 DEF CodeState, STAGE_START, STAGE_INTERNAL_CODE
<1>14. OwnContext(b)'
  BY <1>3, <1>5, <1>6, <1>8, <1>9 DEF OwnContext, Holding, Internals, Body
<1>15. OwnMethod(b)'
  BY <1>5, <1>6, <1>9, <1>10
  DEF OwnMethod, Before, Internals, Body, Releasing, Compiling, Getting
<1>16. b.pc \in Compiling \ (Held \cup {"lookup"})
  BY <1>6 DEF Compiling, Body, Held
<1>17. QED
  BY <1>1, <1>2, <1>5, <1>6, <1>8, <1>10, <1>12, <1>13, <1>14, <1>15, <1>16, OwnSet

LEMMA EnterAlone ==
  ASSUME Alone, IInv, Solo, NEW t \in Thread, Enter(t) PROVE Solo'
<1>1. PICK a, x, c : a = Top(t) /\ x = a.m /\ c = a.cc
  OBVIOUS
<1>2. a.pc = "enter" /\ a.pc \in Holding
  BY <1>1 DEF Enter, At, Holding
<1>3. /\ a \in Activation /\ x \in Method /\ c \in Context /\ c # Null /\ infocc[x] = c
      /\ ctx[c] \in ContextType /\ ctx[c].mb = x /\ MethodState(x) /\ (x \notin MayFail => CodeState(x))
      /\ OwnContext(a) /\ OwnMethod(a)
  BY <1>1, <1>2, Holds
<1>4. ~ Midway(x)
  BY <1>1, <1>2, MidwayTop DEF Mids
<1>5. invoker[x] # "jit" /\ info[x] = "ready"
  BY <1>1, <1>2, <1>3 DEF OwnMethod, Before, Compiling
<1>6. ctx[c].stage \in {STAGE_START, STAGE_INTERNAL_CODE}
  <2>1. ctx[c].stage # STAGE_DONE /\ ctx[c].stage # STAGE_STATIC_PART
    BY <1>3, <1>4, <1>5 DEF MethodState
  <2>2. ctx[c].stage \in Stage
    BY <1>3 DEF ContextType
  <2>3. QED
    BY <2>1, <2>2 DEF Stage, STAGE_START, STAGE_INTERNAL_CODE, STAGE_STATIC_PART, STAGE_DONE
<1>7. PICK pc : pc = ResumeAt(ctx[c].stage)
  OBVIOUS
<1>8. /\ ctx[c].stage = STAGE_START => pc = "front"
      /\ ctx[c].stage = STAGE_INTERNAL_CODE => pc = "internal"
  BY <1>7 DEF ResumeAt, STAGE_START, STAGE_INTERNAL_CODE, STAGE_STATIC_PART, STAGE_DONE
<1>9. PICK b : b = [a EXCEPT !.pc = pc]
  OBVIOUS
<1>10. /\ Set(t, b) /\ UNCHANGED <<infocc, ctx, pool, info, inlineability, codeVars, throwtable>>
       /\ invoker' = [invoker EXCEPT ![x] = "interp"]
  BY <1>1, <1>6, <1>7, <1>9
  DEF Enter, Goto, infoVars, contextVars, STAGE_START, STAGE_INTERNAL_CODE, STAGE_DONE
<1>11. b.pc = pc /\ b.m = x /\ b.target = a.target /\ b.cc = c
  BY <1>1, <1>3, <1>9 DEF Activation
<1>12. invoker'[x] # "jit" /\ OnlyMethod(x) /\ OnlyContext(c)
  BY <1>3, <1>10 DEF IInv, MethodOK, OnlyMethod, OnlyContext, codeVars
<1>13. ~ Midway(x)'
  BY <1>1, <1>6, <1>8, <1>10, <1>11, MidwayTop, TopSet DEF IInv, Mids
<1>c. CodeSame(x)
  BY <1>10, CodeKept DEF codeVars
<1>14. MethodState(x)'
  BY <1>c, <1>3, <1>4, <1>5, <1>10, <1>12, <1>13 DEF MethodState, CodeSame, codeVars
<1>15. x \notin MayFail => CodeState(x)'
  BY <1>3, <1>4, <1>5, <1>10, <1>12, <1>13 DEF CodeState, codeVars
<1>16. OwnContext(b)'
  <2>1. ctx[c].ref >= 1
    BY <1>1, <1>2, <1>3 DEF OwnContext, Holding
  <2>2. QED
    BY <1>3, <1>6, <1>8, <1>10, <1>11, <2>1 DEF OwnContext, Holding, Internals, Body
<1>17. OwnMethod(b)'
  <2>1. pc = "internal" => inlineability[x] # "unknown"
    BY <1>3, <1>6, <1>8 DEF MethodState
  <2>2. pc \in {"front", "internal"}
    BY <1>6, <1>8
  <2>3. QED
    BY <1>5, <1>10, <1>11, <1>12, <2>1, <2>2
    DEF OwnMethod, Before, Internals, Body, Releasing, Compiling, Getting
<1>18. b.pc \in Compiling \ (Held \cup {"lookup"})
  BY <1>6, <1>8, <1>11 DEF Compiling, Body, Held
<1>19. QED
  BY <1>1, <1>2, <1>10, <1>11, <1>12, <1>14, <1>15, <1>16, <1>17, <1>18, OwnSet

LEMMA InternalAlone ==
  ASSUME Alone, IInv, Solo, NEW t \in Thread, Internal(t) PROVE Solo'
<1>1. PICK a, x, c : a = Top(t) /\ x = a.m /\ c = a.cc
  OBVIOUS
<1>2. a.pc = "internal" /\ a.pc \in Holding /\ a.pc \in Internals
  BY <1>1 DEF Internal, At, Holding, Body, Internals
<1>3. /\ a \in Activation /\ x \in Method /\ c \in Context /\ c # Null /\ infocc[x] = c
      /\ ctx[c] \in ContextType /\ ctx[c].mb = x /\ MethodState(x) /\ (x \notin MayFail => CodeState(x))
      /\ OwnContext(a) /\ OwnMethod(a)
  BY <1>1, <1>2, Holds
<1>4. CASE ctx[c].stage >= a.target /\ invoker' = [invoker EXCEPT ![x] = "candi"] /\ Goto(t, "exit")
  <2>1. PICK b : b = [a EXCEPT !.pc = "exit"]
    OBVIOUS
  <2>2. Set(t, b) /\ UNCHANGED <<infocc, ctx, pool, info, inlineability, codeVars, throwtable>>
    BY <1>1, <1>4, <2>1 DEF Internal, Goto, infoVars, contextVars
  <2>3. b.pc = "exit" /\ b.m = x /\ b.target = a.target /\ b.cc = c
    BY <1>1, <1>3, <2>1 DEF Activation
  <2>4. invoker[x] # "jit" /\ info[x] = "ready" /\ ctx[c].stage = STAGE_INTERNAL_CODE
    BY <1>1, <1>2, <1>3 DEF OwnMethod, OwnContext, Before, Compiling, Body
  <2>5. invoker'[x] # "jit" /\ OnlyMethod(x) /\ OnlyContext(c)
    BY <1>3, <1>4, <2>2 DEF IInv, MethodOK, OnlyMethod, OnlyContext, codeVars
  <2>6. ~ Midway(x) /\ ~ Midway(x)'
    BY <1>1, <1>2, <2>2, <2>3, MidwayTop, TopSet DEF IInv, Mids
  <2>c. CodeSame(x)
    BY <2>2, CodeKept DEF codeVars
  <2>7. MethodState(x)'
    BY <2>c, <1>3, <2>2, <2>4, <2>5, <2>6 DEF MethodState, CodeSame, codeVars, STAGE_INTERNAL_CODE, STAGE_DONE
  <2>8. x \notin MayFail => CodeState(x)'
    BY <1>3, <2>2, <2>4, <2>5, <2>6 DEF CodeState, codeVars
  <2>9. OwnContext(b)'
    BY <2>3 DEF OwnContext, Holding, Internals
  <2>10. a.target # STAGE_DONE
    BY <1>4, <2>4 DEF STAGE_INTERNAL_CODE, STAGE_DONE
  <2>11. OwnMethod(b)'
    BY <2>2, <2>3, <2>4, <2>10
    DEF OwnMethod, Before, Internals, Body, Releasing, Compiling, Getting
  <2>12. b.pc \in Compiling \ (Held \cup {"lookup"})
    BY <2>3 DEF Compiling, Body, Held
  <2>13. QED
    BY <1>1, <1>2, <2>2, <2>3, <2>5, <2>7, <2>8, <2>9, <2>11, <2>12, OwnSet
<1>5. CASE Goto(t, "inline") /\ UNCHANGED invoker
  <2>1. PICK b : b = [a EXCEPT !.pc = "inline"]
    OBVIOUS
  <2>2. Set(t, b) /\ UNCHANGED soloVars
    BY <1>1, <1>5, <2>1 DEF Internal, Goto, soloVars, infoVars, codeVars, contextVars
  <2>3. b.pc = "inline" /\ b.m = a.m /\ b.target = a.target /\ b.cc = a.cc
    BY <1>3, <2>1 DEF Activation
  <2>4. QED
    BY <1>1, <1>2, <2>2, <2>3, InternalsSet DEF Internals
<1>6. QED
  BY <1>1, <1>4, <1>5 DEF Internal

LEMMA InlineSiteAlone ==
  ASSUME Alone, IInv, Solo, NEW t \in Thread, InlineSite(t) PROVE Solo'
<1>1. PICK a, x, c : a = Top(t) /\ x = a.m /\ c = a.cc
  OBVIOUS
<1>2. a.pc = "inlined" /\ a.pc \in Holding /\ a.pc \in Internals
  BY <1>1 DEF InlineSite, At, Holding, Body, Internals
<1>3. /\ a \in Activation /\ x \in Method /\ c \in Context /\ c # Null /\ infocc[x] = c
      /\ ctx[c] \in ContextType /\ ctx[c].mb = x /\ MethodState(x) /\ (x \notin MayFail => CodeState(x))
      /\ OwnContext(a) /\ OwnMethod(a)
  BY <1>1, <1>2, Holds
<1>4. PICK k, inl : Set(t, [a EXCEPT !.pc = "inline", !.g = Null, !.i = k, !.inlined = inl])
  BY <1>1 DEF InlineSite
<1>5. PICK b : b = [a EXCEPT !.pc = "inline", !.g = Null, !.i = k, !.inlined = inl]
  OBVIOUS
<1>6. b.pc = "inline" /\ b.m = x /\ b.target = a.target /\ b.cc = c
  BY <1>1, <1>3, <1>5 DEF Activation
<1>7. Set(t, b) /\ UNCHANGED <<infocc, pool, info, invoker, inlineability, codeVars, throwtable>>
  BY <1>4, <1>5 DEF InlineSite, methodVars, infoVars
<1>8. CASE UNCHANGED ctx
  <2>1. UNCHANGED soloVars
    BY <1>7, <1>8 DEF soloVars, codeVars
  <2>2. QED
    BY <1>1, <1>2, <1>6, <1>7, <2>1, InternalsSet DEF Internals
<1>9. ASSUME NEW sites, ctx' = [ctx EXCEPT ![c].sites = sites] PROVE Solo'
  <2>1. ctx' = [ctx EXCEPT ![c] = [ctx[c] EXCEPT !.sites = sites]]
    BY <1>9
  <2>2. /\ OnlyContext(c) /\ ctx'[c].ref = ctx[c].ref /\ ctx'[c].stage = ctx[c].stage
        /\ ctx'[c].body = ctx[c].body /\ ctx'[c].mb = ctx[c].mb
    BY <1>3, <2>1 DEF OnlyContext, ContextType, IInv, MethodOK
  <2>3. OnlyMethod(x)
    BY <1>7 DEF OnlyMethod, codeVars
  <2>4. ~ Midway(x) /\ ~ Midway(x)'
    BY <1>1, <1>2, <1>6, <1>7, MidwayTop, TopSet DEF IInv, Mids
  <2>c. CodeSame(x)
    BY <1>7, CodeKept DEF codeVars
  <2>5. MethodState(x)'
    BY <2>c, <1>3, <1>7, <2>2, <2>4 DEF MethodState, CodeSame, codeVars
  <2>6. x \notin MayFail => CodeState(x)'
    BY <1>3, <1>7, <2>2, <2>4 DEF CodeState, codeVars
  <2>7. OwnContext(b)'
    BY <1>1, <1>2, <1>3, <1>6, <1>7, <2>2 DEF OwnContext, Holding, Internals, Body
  <2>8. OwnMethod(b)'
    BY <1>1, <1>2, <1>3, <1>6, <1>7
    DEF OwnMethod, Before, Internals, Body, Releasing, Compiling, Getting
  <2>9. b.pc \in Compiling \ (Held \cup {"lookup"})
    BY <1>6 DEF Compiling, Body, Held
  <2>10. QED
    BY <1>1, <1>2, <1>6, <1>7, <2>2, <2>3, <2>5, <2>6, <2>7, <2>8, <2>9, OwnSet
<1>10. a.i <= Len(ctx[c].sites) /\ a.i \in Nat
  BY <1>1, <1>2, <1>3 DEF OwnContext, Activation
<1>11. ~ (a.i > Len(ctx[c].sites))
  <2>1. ctx[c].sites \in Seq(Method)
    BY <1>3 DEF ContextType
  <2>2. Len(ctx[c].sites) \in Nat
    BY <2>1
  <2>3. QED
    BY <1>10, <2>2
<1>14. inlineability[a.g] # "bare"
  <2>1. a.g \in Method /\ ~ Midway(a.g)
    BY <1>1, <1>2, TopOwn, MidwayTop DEF Formed, Mids
  <2>2. QED
    BY <2>1 DEF Solo, Methods, MethodState
<1>12. \/ UNCHANGED ctx
       \/ \E sites : ctx' = [ctx EXCEPT ![c].sites = sites]
  BY <1>1, <1>11, <1>14 DEF InlineSite, Sites
<1>13. QED
  BY <1>8, <1>9, <1>12

LEMMA EagerSiteAlone ==
  ASSUME Alone, IInv, Solo, NEW t \in Thread, EagerSite(t) PROVE Solo'
<1>1. PICK a : a = Top(t)
  OBVIOUS
<1>2. a.pc = "eagered" /\ a.pc \in Holding /\ a.pc \in Internals
  BY <1>1 DEF EagerSite, At, Holding, Body, Internals
<1>3. a \in Activation /\ OwnContext(a) /\ OwnMethod(a)
  BY <1>1, <1>2, Holds
<1>4. PICK b : b = [a EXCEPT !.pc = "eager", !.g = Null, !.i = @ + 1]
  OBVIOUS
<1>5. b.pc = "eager" /\ b.m = a.m /\ b.target = a.target /\ b.cc = a.cc
  BY <1>3, <1>4 DEF Activation
<1>6. /\ Set(t, b) /\ UNCHANGED <<infocc, ctx, pool, info, invoker, inlineability, throwtable>>
      /\ UNCHANGED <<code, linked, compiledflag>>
      /\ \A m \in Method : m \in direct' => m \in direct \/ invoker[m] = "jit"
  BY <1>1, <1>4 DEF EagerSite, infoVars, contextVars
<1>7. LowerOK(t)
  BY <1>6, LowerQuiet DEF IInv
<1>8. OwnContext(b)' /\ OwnMethod(b)'
  BY <1>2, <1>3, <1>5, <1>6
  DEF OwnContext, OwnMethod, Holding, Before, Internals, Body, Releasing, Compiling, Getting
<1>9. Follows(a, b)
  BY <1>2, <1>5 DEF Follows, Entry, Compiling, Getting, Body, Releasing
<1>10. Nesting' /\ Frames'
  BY <1>1, <1>6, <1>7, <1>8, <1>9, NestingSet, FramesSet DEF IInv, Solo
<1>11. Top(t)' = b
  BY <1>6, TopSet DEF IInv
<1>12. \A m \in Method : ~ Midway(m) /\ ~ Midway(m)'
  BY <1>1, <1>2, <1>5, <1>11, MidwayTop DEF Mids
<1>13. Methods'
  <2>1. ASSUME NEW m \in Method
        PROVE  MethodState(m)' /\ (m \notin MayFail => CodeState(m)')
    <3>1. MethodState(m) /\ (m \notin MayFail => CodeState(m))
      BY DEF Solo, Methods
    <3>c. /\ Compiled(m)' <=> Compiled(m)
          /\ invoker[m] # "jit" /\ Uncompiled(m) => Uncompiled(m)'
      BY <1>6 DEF Compiled, Uncompiled
    <3>2. MethodState(m)'
      BY <1>6, <1>12, <3>1, <3>c DEF MethodState
    <3>3. m \notin MayFail => CodeState(m)'
      BY <1>6, <1>12, <3>1 DEF CodeState
    <3>4. QED
      BY <3>2, <3>3
  <2>2. QED
    BY <2>1 DEF Methods
<1>14. PoolOK'
  BY <1>1, <1>2, <1>5, <1>6, <1>11, PoolQuiet DEF Solo, Held
<1>15. Prepared'
  BY <1>1, <1>2, <1>5, <1>6, <1>11, PreparedKept
<1>16. QED
  BY <1>10, <1>13, <1>14, <1>15 DEF Solo

LEMMA ThrowEntries ==
  ASSUME IInv, NEW x \in Method, NEW pass, AddThrowEntries(x, pass)
  PROVE  /\ \A m \in Method \ {x} : throwtable'[m] = throwtable[m]
         /\ throwtable'[x] = Append(throwtable[x], pass)
BY DEF IInv, MethodOK, AddThrowEntries

\* After one more pass that failed all have failed, ...
LEMMA PartAdded ==
  ASSUME NEW s \in Seq({"part", "whole"}), AllParts(s), NEW r, r = Append(s, "part")
  PROVE  AllParts(r)
<1>1. PICK n : n = Len(s)
  OBVIOUS
<1>2. n \in Nat /\ Len(r) = n + 1 /\ r[n + 1] = "part" /\ \A k \in 1 .. n : r[k] = s[k]
  BY <1>1
<1>3. \A k \in 1 .. n : s[k] = "part"
  BY <1>1 DEF AllParts
<1>4. \A k \in 1 .. n + 1 : r[k] = "part"
  BY <1>2, <1>3
<1>5. QED
  BY <1>2, <1>4 DEF AllParts

\* ... and after one that went through it is the only one.
LEMMA WholeAdded ==
  ASSUME NEW s \in Seq({"part", "whole"}), AllParts(s), NEW r, r = Append(s, "whole")
  PROVE  OneWholePass(r) /\ (s = <<>> => Len(r) = 1)
<1>1. PICK n : n = Len(s)
  OBVIOUS
<1>2. n \in Nat /\ Len(r) = n + 1 /\ r[n + 1] = "whole" /\ \A k \in 1 .. n : r[k] = s[k]
  BY <1>1
<1>3. \A k \in 1 .. n : s[k] = "part"
  BY <1>1 DEF AllParts
<1>4. \A k \in 1 .. n + 1 : r[k] = "whole" <=> k = n + 1
  BY <1>2, <1>3
<1>5. r # <<>>
  BY <1>2
<1>6. s = <<>> => n = 0
  BY <1>1
<1>7. QED
  BY <1>2, <1>4, <1>5, <1>6 DEF OneWholePass

LEMMA WriteFailsAlone ==
  ASSUME Alone, IInv, Solo, NEW t \in Thread, WriteFails(t) PROVE Solo'
<1>1. PICK a, x, c : a = Top(t) /\ x = a.m /\ c = a.cc
  OBVIOUS
<1>2. a.pc = "write" /\ a.pc \in Holding
  BY <1>1 DEF WriteFails, At, Holding, Body
<1>3. /\ a \in Activation /\ x \in Method /\ c \in Context /\ c # Null /\ infocc[x] = c
      /\ ctx[c] \in ContextType /\ ctx[c].mb = x /\ MethodState(x)
      /\ OwnContext(a) /\ OwnMethod(a)
  BY <1>1, <1>2, Holds
<1>4. PICK b : b = [a EXCEPT !.pc = "fail"]
  OBVIOUS
<1>5. /\ Set(t, b) /\ UNCHANGED <<infocc, pool, info, invoker, inlineability, codeVars>>
      /\ AddThrowEntries(x, "part") /\ x \in MayFail
  BY <1>1, <1>3, <1>4 DEF WriteFails, Goto
<1>6. b.pc = "fail" /\ b.m = x /\ b.target = a.target /\ b.cc = c
  BY <1>1, <1>3, <1>4 DEF Activation
<1>7. ctx' = [ctx EXCEPT ![c] = [ctx[c] EXCEPT !.body = Junk]]
  BY <1>1 DEF WriteFails
<1>8. /\ OnlyContext(c) /\ ctx'[c].ref = ctx[c].ref /\ ctx'[c].stage = ctx[c].stage
      /\ ctx'[c].body = Junk /\ ctx'[c].mb = ctx[c].mb
  BY <1>3, <1>7 DEF OnlyContext, ContextType, IInv, MethodOK
<1>9. OnlyMethod(x)
  BY <1>3, <1>5, ThrowEntries DEF OnlyMethod, codeVars
<1>10. ~ Midway(x) /\ ~ Midway(x)'
  BY <1>1, <1>2, <1>5, <1>6, MidwayTop, TopSet DEF IInv, Mids
<1>11. info[x] = "ready" /\ invoker[x] # "jit"
  BY <1>1, <1>2, <1>3 DEF OwnMethod, Compiling, Body, Before
<1>c. Uncompiled(x)' /\ ~ compiledflag'[x] /\ x \notin direct'
  <2>1. Uncompiled(x)
    BY <1>3, <1>10, <1>11 DEF MethodState
  <2>2. throwtable[x] \in Seq({"part", "whole"})
    BY <1>3 DEF IInv, MethodOK
  <2>3. AllParts(throwtable'[x])
    BY <1>3, <1>5, <2>1, <2>2, ThrowEntries, PartAdded DEF Uncompiled
  <2>4. ~ compiledflag'[x] /\ x \notin direct'
    BY <1>5, <2>1 DEF Uncompiled, codeVars
  <2>5. QED
    BY <1>5, <2>3, <2>4 DEF Uncompiled
<1>12. MethodState(x)'
  BY <1>c, <1>3, <1>5, <1>8, <1>10, <1>11, NullAssumption DEF MethodState, codeVars
<1>13. OwnContext(b)'
  BY <1>1, <1>2, <1>3, <1>5, <1>6, <1>8 DEF OwnContext, Holding, Internals, Body
<1>14. OwnMethod(b)'
  BY <1>1, <1>2, <1>3, <1>5, <1>6
  DEF OwnMethod, Before, Internals, Body, Releasing, Compiling, Getting
<1>15. b.pc \in Compiling \ (Held \cup {"lookup"})
  BY <1>6 DEF Compiling, Body, Held
<1>16. QED
  BY <1>1, <1>2, <1>5, <1>6, <1>8, <1>9, <1>12, <1>13, <1>14, <1>15, OwnSet

LEMMA WriteAlone ==
  ASSUME Alone, IInv, Solo, NEW t \in Thread, Write(t) PROVE Solo'
<1>1. PICK a, x, c : a = Top(t) /\ x = a.m /\ c = a.cc
  OBVIOUS
<1>2. a.pc = "write" /\ a.pc \in Holding /\ a.pc \in Internals
  BY <1>1 DEF Write, At, Holding, Body, Internals
<1>3. /\ a \in Activation /\ x \in Method /\ c \in Context /\ c # Null /\ infocc[x] = c
      /\ ctx[c] \in ContextType /\ ctx[c].mb = x /\ MethodState(x) /\ (x \notin MayFail => CodeState(x))
      /\ OwnContext(a) /\ OwnMethod(a)
  BY <1>1, <1>2, Holds
<1>4. PICK b : b = [a EXCEPT !.pc = "static"]
  OBVIOUS
<1>5. /\ Set(t, b) /\ UNCHANGED <<infocc, pool, info, invoker, inlineability, compiledflag, direct>>
      /\ AddThrowEntries(x, "whole") /\ code' = [code EXCEPT ![x] = ctx[c].body]
      /\ linked' = [linked EXCEPT ![x] = FALSE]
  BY <1>1, <1>3, <1>4 DEF Write, Goto
<1>6. b.pc = "static" /\ b.m = x /\ b.target = a.target /\ b.cc = c
  BY <1>1, <1>3, <1>4 DEF Activation
<1>7. ctx' = [ctx EXCEPT ![c] = [ctx[c] EXCEPT !.stage = STAGE_STATIC_PART]]
  BY <1>1 DEF Write
<1>8. /\ OnlyContext(c) /\ ctx'[c].ref = ctx[c].ref /\ ctx'[c].stage = STAGE_STATIC_PART
      /\ ctx'[c].body = ctx[c].body /\ ctx'[c].mb = ctx[c].mb
  BY <1>3, <1>7 DEF OnlyContext, ContextType, IInv, MethodOK
<1>9. OnlyMethod(x) /\ code'[x] = ctx[c].body
  BY <1>3, <1>5, ThrowEntries DEF OnlyMethod, IInv, MethodOK
<1>10. ~ Midway(x) /\ Midway(x)'
  BY <1>1, <1>2, <1>5, <1>6, MidwayTop, TopSet DEF IInv, Mids
<1>11. info[x] = "ready" /\ invoker[x] # "jit" /\ ctx[c].stage = STAGE_INTERNAL_CODE
  BY <1>1, <1>2, <1>3 DEF OwnMethod, OwnContext, Compiling, Body, Before
<1>12. ctx[c].body # Null /\ Uncompiled(x) /\ inlineability[x] # "bare" /\ (x \notin MayFail => ctx[c].body = x)
  BY <1>3, <1>10, <1>11 DEF MethodState, CodeState
<1>13. Compiled(x)' /\ ~ compiledflag'[x] /\ x \notin direct'
  <2>1. throwtable[x] \in Seq({"part", "whole"})
    BY <1>3 DEF IInv, MethodOK
  <2>2. AllParts(throwtable[x]) /\ (x \notin MayFail => throwtable[x] = <<>>)
    BY <1>12 DEF Uncompiled
  <2>3. OneWholePass(throwtable'[x]) /\ (throwtable[x] = <<>> => Len(throwtable'[x]) = 1)
    BY <1>3, <1>5, <2>1, <2>2, ThrowEntries, WholeAdded
  <2>4. ~ compiledflag'[x] /\ x \notin direct'
    BY <1>5, <1>12 DEF Uncompiled
  <2>5. code'[x] # Null /\ (x \notin MayFail => code'[x] = x /\ Len(throwtable'[x]) = 1)
    BY <1>9, <1>12, <2>2, <2>3
  <2>6. QED
    BY <2>3, <2>4, <2>5 DEF Compiled
<1>14. MethodState(x)'
  BY <1>3, <1>5, <1>8, <1>10, <1>11, <1>13
  DEF MethodState, STAGE_INTERNAL_CODE, STAGE_STATIC_PART, STAGE_DONE
<1>15. x \notin MayFail => CodeState(x)'
  BY <1>3, <1>5, <1>8 DEF CodeState, STAGE_START, STAGE_INTERNAL_CODE, STAGE_STATIC_PART
<1>16. OwnContext(b)'
  <2>1. ctx[c].ref >= 1
    BY <1>1, <1>2, <1>3 DEF OwnContext, Holding, Body
  <2>2. QED
    BY <1>3, <1>5, <1>6, <1>8, <2>1 DEF OwnContext, Holding, Internals, Body
<1>17. OwnMethod(b)'
  BY <1>5, <1>6, <1>11, <1>12, <1>13
  DEF OwnMethod, Before, Internals, Body, Releasing, Compiling, Getting
<1>18. b.pc \in Compiling \ (Held \cup {"lookup"})
  BY <1>6 DEF Compiling, Body, Held
<1>19. QED
  BY <1>1, <1>2, <1>5, <1>6, <1>8, <1>9, <1>14, <1>15, <1>16, <1>17, <1>18, OwnSet

LEMMA StaticAlone ==
  ASSUME Alone, IInv, Solo, NEW t \in Thread, Static(t) PROVE Solo'
<1>1. PICK a, x, c : a = Top(t) /\ x = a.m /\ c = a.cc
  OBVIOUS
<1>2. a.pc = "static" /\ a.pc \in Holding
  BY <1>1 DEF Static, At, Holding, Body
<1>3. /\ a \in Activation /\ x \in Method /\ c \in Context /\ c # Null /\ infocc[x] = c
      /\ ctx[c] \in ContextType /\ ctx[c].mb = x /\ MethodState(x)
      /\ OwnContext(a) /\ OwnMethod(a)
  BY <1>1, <1>2, Holds
<1>4. PICK b : b = [a EXCEPT !.pc = "install"]
  OBVIOUS
<1>5. /\ Set(t, b) /\ UNCHANGED <<infocc, ctx, pool, info, inlineability, throwtable>>
      /\ UNCHANGED <<invoker, code, direct>>
      /\ linked' = [linked EXCEPT ![x] = TRUE] /\ compiledflag' = [compiledflag EXCEPT ![x] = TRUE]
  BY <1>1, <1>3, <1>4 DEF Static, Goto, infoVars, contextVars
<1>6. b.pc = "install" /\ b.m = x /\ b.target = a.target /\ b.cc = c
  BY <1>1, <1>3, <1>4 DEF Activation
<1>7. OnlyMethod(x) /\ OnlyContext(c) /\ linked'[x]
  BY <1>3, <1>5 DEF OnlyMethod, OnlyContext, IInv, MethodOK
<1>8. Midway(x)'
  BY <1>5, <1>6, MidwayTop, TopSet DEF IInv, Mids
<1>9. /\ info[x] = "ready" /\ invoker[x] # "jit" /\ Compiled(x) /\ inlineability[x] # "bare"
      /\ ctx[c].stage = STAGE_STATIC_PART /\ ctx[c].ref >= 1
  BY <1>1, <1>2, <1>3 DEF OwnMethod, OwnContext, Holding, Compiling, Body, Before, MethodState
<1>10. Compiled(x)'
  BY <1>5, <1>9 DEF Compiled
<1>11. MethodState(x)'
  BY <1>3, <1>5, <1>7, <1>8, <1>9, <1>10
  DEF MethodState, STAGE_INTERNAL_CODE, STAGE_STATIC_PART, STAGE_DONE
<1>12. x \notin MayFail => CodeState(x)'
  BY <1>3, <1>5, <1>9 DEF CodeState, STAGE_START, STAGE_INTERNAL_CODE, STAGE_STATIC_PART
<1>13. OwnContext(b)'
  BY <1>3, <1>5, <1>6, <1>9 DEF OwnContext, Holding, Internals, Body
<1>14. OwnMethod(b)'
  BY <1>5, <1>6, <1>7, <1>9, <1>10
  DEF OwnMethod, Before, Internals, Body, Releasing, Compiling, Getting
<1>15. b.pc \in Compiling \ (Held \cup {"lookup"})
  BY <1>6 DEF Compiling, Body, Held
<1>16. QED
  BY <1>1, <1>2, <1>5, <1>6, <1>7, <1>11, <1>12, <1>13, <1>14, <1>15, OwnSet

LEMMA InstallAlone ==
  ASSUME Alone, IInv, Solo, NEW t \in Thread, Install(t) PROVE Solo'
<1>1. PICK a, x, c : a = Top(t) /\ x = a.m /\ c = a.cc
  OBVIOUS
<1>2. a.pc = "install" /\ a.pc \in Holding
  BY <1>1 DEF Install, At, Holding, Body
<1>3. /\ a \in Activation /\ x \in Method /\ c \in Context /\ c # Null /\ infocc[x] = c
      /\ ctx[c] \in ContextType /\ ctx[c].mb = x /\ MethodState(x)
      /\ OwnContext(a) /\ OwnMethod(a)
  BY <1>1, <1>2, Holds
<1>4. PICK b : b = [a EXCEPT !.pc = "finish"]
  OBVIOUS
<1>5. /\ Set(t, b) /\ UNCHANGED <<infocc, ctx, pool, info, inlineability, throwtable, codeVars>>
      /\ invoker' = [invoker EXCEPT ![x] = "jit"]
  BY <1>1, <1>4 DEF Install, Goto, infoVars, contextVars
<1>6. b.pc = "finish" /\ b.m = x /\ b.target = a.target /\ b.cc = c
  BY <1>1, <1>3, <1>4 DEF Activation
<1>7. OnlyMethod(x) /\ OnlyContext(c) /\ invoker'[x] = "jit"
  BY <1>3, <1>5 DEF OnlyMethod, OnlyContext, IInv, MethodOK, codeVars
<1>8. Midway(x)'
  BY <1>5, <1>6, MidwayTop, TopSet DEF IInv, Mids
<1>9. /\ info[x] = "ready" /\ Compiled(x) /\ linked[x] /\ inlineability[x] # "bare"
      /\ ctx[c].stage = STAGE_STATIC_PART /\ ctx[c].ref >= 1
  BY <1>1, <1>2, <1>3 DEF OwnMethod, OwnContext, Holding, Compiling, Body
<1>10. Compiled(x)'
  BY <1>5, <1>9 DEF Compiled, codeVars
<1>11. MethodState(x)'
  BY <1>3, <1>5, <1>7, <1>8, <1>9, <1>10
  DEF MethodState, codeVars, STAGE_INTERNAL_CODE, STAGE_STATIC_PART, STAGE_DONE
<1>12. x \notin MayFail => CodeState(x)'
  BY <1>3, <1>5, <1>9 DEF CodeState, STAGE_START, STAGE_INTERNAL_CODE, STAGE_STATIC_PART
<1>13. OwnContext(b)'
  BY <1>3, <1>5, <1>6, <1>9 DEF OwnContext, Holding, Internals, Body
<1>14. OwnMethod(b)'
  BY <1>5, <1>6, <1>7, <1>9, <1>10
  DEF OwnMethod, Before, Internals, Body, Releasing, Compiling, Getting, codeVars
<1>15. b.pc \in Compiling \ (Held \cup {"lookup"})
  BY <1>6 DEF Compiling, Body, Held
<1>16. QED
  BY <1>1, <1>2, <1>5, <1>6, <1>7, <1>11, <1>12, <1>13, <1>14, <1>15, OwnSet

LEMMA FinishAlone ==
  ASSUME Alone, IInv, Solo, NEW t \in Thread, Finish(t) PROVE Solo'
<1>1. PICK a, x, c : a = Top(t) /\ x = a.m /\ c = a.cc
  OBVIOUS
<1>2. a.pc = "finish" /\ a.pc \in Holding
  BY <1>1 DEF Finish, At, Holding, Body
<1>3. /\ a \in Activation /\ x \in Method /\ c \in Context /\ c # Null /\ infocc[x] = c
      /\ ctx[c] \in ContextType /\ ctx[c].mb = x /\ MethodState(x)
      /\ OwnContext(a) /\ OwnMethod(a) /\ a.ok
  BY <1>1, <1>2, Holds, TopOwn DEF Formed, Releasing
<1>4. PICK b : b = [a EXCEPT !.pc = "release"]
  OBVIOUS
<1>5. Set(t, b) /\ UNCHANGED <<infocc, pool, info, invoker, inlineability, throwtable, codeVars>>
  BY <1>1, <1>4 DEF Finish, Goto, methodVars, infoVars
<1>6. b.pc = "release" /\ b.m = x /\ b.target = a.target /\ b.cc = c /\ b.ok
  BY <1>1, <1>3, <1>4 DEF Activation
<1>7. ctx' = [ctx EXCEPT ![c] = [ctx[c] EXCEPT !.stage = STAGE_DONE]]
  BY <1>1 DEF Finish
<1>8. /\ OnlyContext(c) /\ ctx'[c].ref = ctx[c].ref /\ ctx'[c].stage = STAGE_DONE
      /\ ctx'[c].mb = ctx[c].mb
  BY <1>3, <1>7 DEF OnlyContext, ContextType, IInv, MethodOK
<1>9. OnlyMethod(x)
  BY <1>5 DEF OnlyMethod, codeVars
<1>10. ~ Midway(x)'
  BY <1>5, <1>6, MidwayTop, TopSet DEF IInv, Mids
<1>11. /\ info[x] = "ready" /\ invoker[x] = "jit" /\ inlineability[x] # "bare"
       /\ Compiled(x) /\ linked[x] /\ ctx[c].ref >= 1
  BY <1>1, <1>2, <1>3 DEF OwnMethod, OwnContext, Holding, Compiling, Body
<1>12. Compiled(x)'
  BY <1>5, <1>11 DEF Compiled, codeVars
<1>13. MethodState(x)'
  BY <1>3, <1>5, <1>8, <1>10, <1>11, <1>12
  DEF MethodState, codeVars, STAGE_INTERNAL_CODE, STAGE_STATIC_PART, STAGE_DONE
<1>14. x \notin MayFail => CodeState(x)'
  BY <1>3, <1>5, <1>8 DEF CodeState, STAGE_START, STAGE_INTERNAL_CODE, STAGE_DONE
<1>15. OwnContext(b)'
  BY <1>3, <1>5, <1>6, <1>8, <1>11 DEF OwnContext, Holding, Internals, Body
<1>16. OwnMethod(b)'
  BY <1>5, <1>6, <1>11
  DEF OwnMethod, Before, Internals, Body, Releasing, Compiling, Getting
<1>17. b.pc \in Compiling \ (Held \cup {"lookup"})
  BY <1>6 DEF Compiling, Releasing, Held
<1>18. QED
  BY <1>1, <1>2, <1>5, <1>6, <1>8, <1>9, <1>13, <1>14, <1>15, <1>16, <1>17, OwnSet

LEMMA ClearFlagAlone ==
  ASSUME Alone, IInv, Solo, NEW t \in Thread, ClearFlag(t) PROVE Solo'
<1>1. PICK a, x, c : a = Top(t) /\ x = a.m /\ c = a.cc
  OBVIOUS
<1>2. a.pc = "clearflag" /\ a.pc \in Holding
  BY <1>1 DEF ClearFlag, At, Holding
<1>3. /\ a \in Activation /\ x \in Method /\ c \in Context /\ c # Null /\ infocc[x] = c
      /\ ctx[c] \in ContextType /\ ctx[c].mb = x /\ MethodState(x) /\ (x \notin MayFail => CodeState(x))
      /\ OwnContext(a) /\ OwnMethod(a)
  BY <1>1, <1>2, Holds
<1>4. PICK b : b = [a EXCEPT !.pc = "release"]
  OBVIOUS
<1>5. /\ Set(t, b) /\ compiledflag' = [compiledflag EXCEPT ![x] = FALSE]
      /\ UNCHANGED <<infocc, ctx, pool, info, inlineability, throwtable, invoker, code, linked, direct>>
  BY <1>1, <1>4 DEF ClearFlag, Goto, infoVars, contextVars
<1>6. b.pc = "release" /\ b.m = x /\ b.target = a.target /\ b.cc = c /\ b.ok = a.ok
  BY <1>1, <1>3, <1>4 DEF Activation
<1>7. OnlyMethod(x) /\ OnlyContext(c) /\ ~ compiledflag'[x]
  BY <1>3, <1>5 DEF OnlyMethod, OnlyContext, IInv, MethodOK
<1>8. ~ Midway(x) /\ ~ Midway(x)'
  BY <1>1, <1>2, <1>5, <1>6, MidwayTop, TopSet DEF IInv, Mids
<1>c. CodeSame(x)
  <2>1. invoker[x] # "jit"
    BY <1>1, <1>2, <1>3 DEF OwnMethod, Releasing
  <2>2. compiledflag'[x] = compiledflag[x]
    <3>1. ~ compiledflag[x]
      BY <1>3, <1>8, <2>1 DEF MethodState, Uncompiled
    <3>2. compiledflag[x] \in BOOLEAN /\ compiledflag'[x] = FALSE
      BY <1>3, <1>5 DEF IInv, MethodOK
    <3>3. QED
      BY <3>1, <3>2
  <2>3. QED
    BY <1>5, <2>2, CodeKept
<1>9. MethodState(x)'
  BY <1>c, <1>3, <1>5, <1>7, <1>8 DEF MethodState, CodeSame
<1>10. x \notin MayFail => CodeState(x)'
  BY <1>3, <1>5, <1>8 DEF CodeState
<1>11. OwnContext(b)'
  BY <1>1, <1>2, <1>3, <1>5, <1>6 DEF OwnContext, Holding, Internals, Body
<1>12. OwnMethod(b)'
  BY <1>1, <1>2, <1>3, <1>5, <1>6
  DEF OwnMethod, Before, Internals, Body, Releasing, Compiling, Getting
<1>13. b.pc \in Compiling \ (Held \cup {"lookup"})
  BY <1>6 DEF Compiling, Releasing, Held
<1>14. QED
  BY <1>1, <1>2, <1>5, <1>6, <1>7, <1>9, <1>10, <1>11, <1>12, <1>13, OwnSet

-----------------------------------------------------------------------------
(* The steps that move a context between a method and the pool.            *)

\* getCompilerContext() gives its method a context that nobody has.
LEMMA NewContext ==
  ASSUME Alone, IInv, Solo, NEW t \in Thread, NEW a, a = Top(t), a.pc \in {"get", "reset"},
         NEW x, x = a.m, NEW c \in Context, Loose(c), c \notin Free, infocc[x] = Null,
         ctx' = [ctx EXCEPT ![c] = FreshContext(x)], infocc' = [infocc EXCEPT ![x] = c],
         a.pc = "reset" => a.cc = c,
         UNCHANGED <<pool, info, inlineability, throwtable, invoker, codeVars>>,
         NEW b, Set(t, b), b.pc = "ref", b.m = x, b.target = a.target, b.cc = c
  PROVE  Solo'
<1>1. x \in Method /\ c # Null /\ OwnMethod(a) /\ a.pc \in Compiling
  BY TopOwn, NullAssumption DEF NoMethod, Compiling, Getting
<1>2. /\ infocc'[x] = c /\ ctx'[c] = FreshContext(x)
      /\ \A m \in Method \ {x} : infocc'[m] = infocc[m]
      /\ \A d \in Context \ {c} : ctx'[d] = ctx[d]
  BY <1>1 DEF IInv, MethodOK
<1>3. \A m \in Method : infocc[m] # c
  BY DEF Loose
<1>4. LowerOK(t)
  BY <1>1, <1>2, <1>3, LowerKept DEF IInv
<1>5. Top(t)' = b
  BY TopSet DEF IInv
<1>6. MethodState(x) /\ (x \notin MayFail => CodeState(x)) /\ ~ Midway(x) /\ ~ Midway(x)'
  BY <1>1, <1>5, MidwayTop DEF Solo, Methods, Mids
<1>c. CodeSame(x)
  BY CodeKept DEF codeVars
<1>7. \A m \in Method \ {x} : Same(m)
  BY <1>2, <1>3 DEF Same, codeVars, IInv, MethodOK
<1>8. info[x] = "ready" /\ invoker[x] # "jit"
  BY <1>1 DEF OwnMethod, Before, Compiling, Getting
<1>9. /\ ctx'[c].mb = x /\ ctx'[c].ref = 0 /\ ctx'[c].stage = STAGE_START /\ ctx'[c].body = Null
  BY <1>2 DEF FreshContext
<1>10. MethodState(x)'
  BY <1>c, <1>1, <1>2, <1>6, <1>8, <1>9
  DEF MethodState, CodeSame, codeVars, STAGE_START, STAGE_INTERNAL_CODE, STAGE_STATIC_PART, STAGE_DONE
<1>11. x \notin MayFail => CodeState(x)'
  BY <1>1, <1>2, <1>6, <1>8, <1>9 DEF CodeState, codeVars, STAGE_START, STAGE_INTERNAL_CODE
<1>12. Methods'
  BY <1>5, <1>7, <1>10, <1>11, MethodsOthers DEF Solo, Mids
<1>13. ASSUME NEW d \in Context PROVE d \in Free' <=> d \in Free
  <2>1. CASE d = c
    BY <1>1, <1>2, <2>1 DEF Free, Loose
  <2>2. CASE d # c
    <3>1. Allocated(d)' <=> Allocated(d)
      BY <1>2, <2>2 DEF Allocated
    <3>2. d # Null
      BY NullAssumption
    <3>3. Loose(d)' <=> Loose(d)
      BY <1>1, <1>2, <2>2, <3>2 DEF Loose
    <3>4. (Top(t).pc \in Held => Top(t).cc # d) /\ (Top(t)'.pc \in Held => Top(t)'.cc # d)
      BY <1>5, <2>2 DEF Held
    <3>5. QED
      BY <3>1, <3>3, <3>4, FreeTop
  <2>3. QED
    BY <2>1, <2>2
<1>14. Free' = Free /\ Free \subseteq Context \ {c}
  BY <1>13 DEF Free
<1>15. PoolOK'
  BY <1>2, <1>14 DEF Solo, PoolOK
<1>16. Prepared'
  BY <1>5, PreparedKept
<1>17. OwnContext(b)'
  BY <1>2 DEF OwnContext, Holding, Internals, Body
<1>18. OwnMethod(b)'
  BY <1>8 DEF OwnMethod, Before, Internals, Body, Releasing, Compiling, Getting
<1>19. Follows(a, b)
  BY DEF Follows, Entry, Compiling, Getting, Body, Releasing
<1>20. Nesting' /\ Frames'
  BY <1>4, <1>17, <1>18, <1>19, NestingSet, FramesSet DEF IInv, Solo
<1>21. QED
  BY <1>12, <1>15, <1>16, <1>20 DEF Solo

LEMMA GetAlone ==
  ASSUME Alone, IInv, Solo, NEW t \in Thread, Get(t) PROVE Solo'
<1>1. PICK a, x : a = Top(t) /\ x = a.m
  OBVIOUS
<1>2. a.pc = "get" /\ a \in Activation /\ x \in Method /\ OwnContext(a) /\ OwnMethod(a)
  BY <1>1, TopOwn DEF Get, At, NoMethod
<1>3. UNCHANGED <<pool, info, inlineability, throwtable, invoker, codeVars>>
  BY DEF Get
<1>4. ASSUME NEW pc \in {"ref", "pop"}, NEW c, Set(t, [a EXCEPT !.pc = pc, !.cc = c]),
             UNCHANGED <<infocc, ctx>>, pc = "ref" => infocc[x] = c,
             pc = "pop" => infocc[x] = Null /\ c = pool
      PROVE  Solo'
  <2>b. PICK b : b = [a EXCEPT !.pc = pc, !.cc = c]
    OBVIOUS
  <2>1. Set(t, b) /\ b.pc = pc /\ b.m = x /\ b.target = a.target /\ b.cc = c
    BY <1>1, <1>2, <1>4, <2>b DEF Activation
  <2>2. UNCHANGED soloVars
    BY <1>3, <1>4 DEF soloVars, codeVars
  <2>3. Follows(a, b) /\ b.pc \notin Special /\ a.pc \notin Special
    BY <1>1, <1>2, <2>1 DEF Follows, Entry, Compiling, Getting, Body, Releasing, Special, Held, Mids
  <2>4. OwnContext(b)
    BY <1>4, <2>1 DEF OwnContext, Holding, Internals, Body
  <2>5. OwnMethod(b)
    BY <1>1, <1>2, <2>1 DEF OwnMethod, Before, Internals, Body, Releasing, Compiling, Getting
  <2>6. QED
    BY <1>1, <2>1, <2>2, <2>3, <2>4, <2>5, QuietSet
<1>5. ASSUME NEW c \in Context, infocc[x] = Null, ~ Allocated(c),
             ctx' = [ctx EXCEPT ![c] = FreshContext(x)], infocc' = [infocc EXCEPT ![x] = c],
             Set(t, [a EXCEPT !.pc = "ref", !.cc = c])
      PROVE  Solo'
  <2>b. PICK b : b = [a EXCEPT !.pc = "ref", !.cc = c]
    OBVIOUS
  <2>1. Set(t, b) /\ b.pc = "ref" /\ b.m = x /\ b.target = a.target /\ b.cc = c
    BY <1>1, <1>2, <1>5, <2>b DEF Activation
  <2>2. Loose(c) /\ c \notin Free
    <3>1. ASSUME NEW m \in Method PROVE infocc[m] # c
      BY <1>5, NullAssumption DEF Solo, Methods, MethodState, Allocated
    <3>2. QED
      BY <1>5, <3>1 DEF Loose, Free
  <2>3. QED
    BY <1>1, <1>2, <1>3, <1>5, <2>1, <2>2, NewContext
<1>6. QED
  BY <1>1, <1>4, <1>5 DEF Get

LEMMA ResetAlone ==
  ASSUME Alone, IInv, Solo, NEW t \in Thread, Reset(t) PROVE Solo'
<1>1. PICK a, x, c : a = Top(t) /\ x = a.m /\ c = a.cc
  OBVIOUS
<1>2. a.pc = "reset" /\ a \in Activation /\ OwnContext(a) /\ c \in Context
  BY <1>1, TopOwn DEF Reset, At, Formed, HasContext
<1>3. PICK b : b = [a EXCEPT !.pc = "ref"]
  OBVIOUS
<1>4. b.pc = "ref" /\ b.m = x /\ b.target = a.target /\ b.cc = c
  BY <1>1, <1>2, <1>3 DEF Activation
<1>5. /\ Set(t, b) /\ UNCHANGED <<pool, info, inlineability, throwtable, invoker, codeVars>>
      /\ ctx' = [ctx EXCEPT ![c] = FreshContext(x)] /\ infocc' = [infocc EXCEPT ![x] = c]
  BY <1>1, <1>3 DEF Reset, Goto
<1>6. Loose(c) /\ infocc[x] = Null
  BY <1>1, <1>2 DEF OwnContext
<1>7. c \notin Free
  BY <1>1, <1>2 DEF Free
<1>8. QED
  BY <1>1, <1>2, <1>4, <1>5, <1>6, <1>7, NewContext

\* The pool loses its head ...
LEMMA PopAlone ==
  ASSUME Alone, IInv, Solo, NEW t \in Thread, Pop(t) PROVE Solo'
<1>1. PICK a, c : a = Top(t) /\ c = pool
  OBVIOUS
<1>2. /\ a.pc = "pop" /\ a \in Activation /\ a.m \in Method /\ OwnContext(a) /\ OwnMethod(a)
  BY <1>1, TopOwn DEF Pop, At, NoMethod
<1>3. /\ a.cc = c /\ c # Null /\ c \in Free /\ c \in Context
  BY <1>1, <1>2 DEF Pop, OwnContext, Solo, PoolOK, Free
<1>4. PICK b : b = [a EXCEPT !.pc = "reset"]
  OBVIOUS
<1>5. b.pc = "reset" /\ b.m = a.m /\ b.target = a.target /\ b.cc = c
  BY <1>2, <1>3, <1>4 DEF Activation
<1>6. /\ Set(t, b) /\ pool' = ctx[c].next
      /\ UNCHANGED <<infocc, ctx, info, inlineability, throwtable, invoker, codeVars>>
  BY <1>1, <1>4 DEF Pop, Goto, methodVars, infoVars
<1>7. Top(t)' = b
  BY <1>6, TopSet DEF IInv
<1>8. ASSUME NEW d \in Context PROVE d \in Free' <=> d \in Free /\ d # c
  BY <1>1, <1>2, <1>5, <1>6, <1>7, FreeTop DEF Held, Allocated, Loose
<1>9. Free' = Free \ {c}
  BY <1>8 DEF Free
<1>10. /\ ctx[c].next \in Free \cup {Null} /\ (ctx[c].next # Null => ctx[c].next # c)
       /\ \A d \in Free : ctx[d].next \in Free \cup {Null} /\ (ctx[d].next # Null => ctx[d].next # c)
       /\ \A d, e \in Free : ctx[d].next = ctx[e].next /\ ctx[d].next # Null => d = e
  BY <1>1, <1>3 DEF Solo, PoolOK
<1>11. PoolOK'
  BY <1>3, <1>6, <1>9, <1>10 DEF PoolOK
<1>12. LowerOK(t)
  BY <1>6, LowerQuiet DEF IInv
<1>13. Methods'
  <2>1. \A m \in Method : Same(m)
    BY <1>6 DEF Same, codeVars
  <2>2. QED
    BY <1>1, <1>2, <1>5, <1>7, <2>1, MethodsQuiet DEF Solo, Mids
<1>14. Prepared'
  BY <1>1, <1>2, <1>5, <1>6, <1>7, PreparedKept
<1>15. OwnContext(b)'
  <2>1. infocc[a.m] = Null
    BY <1>2 DEF OwnContext
  <2>2. Loose(c) /\ Allocated(c)
    BY <1>3 DEF Free
  <2>3. Loose(c)' /\ Allocated(c)'
    BY <1>6, <2>2 DEF Loose, Allocated
  <2>4. QED
    BY <1>5, <1>6, <2>1, <2>3 DEF OwnContext, Holding, Internals, Body
<1>16. OwnMethod(b)'
  BY <1>2, <1>5, <1>6 DEF OwnMethod, Before, Internals, Body, Releasing, Compiling, Getting
<1>17. Follows(a, b)
  BY <1>2, <1>5 DEF Follows, Entry, Compiling, Getting, Body, Releasing
<1>18. Nesting' /\ Frames'
  BY <1>1, <1>6, <1>12, <1>15, <1>16, <1>17, NestingSet, FramesSet DEF IInv, Solo
<1>19. QED
  BY <1>11, <1>13, <1>14, <1>18 DEF Solo

\* releaseCompilerContext() takes the context from its method, ...
LEMMA UnlinkAlone ==
  ASSUME Alone, IInv, Solo, NEW t \in Thread, Unlink(t) PROVE Solo'
<1>1. PICK a, x, c : a = Top(t) /\ x = a.m /\ c = a.cc
  OBVIOUS
<1>2. a.pc = "unlink" /\ a.pc \in Holding
  BY <1>1 DEF Unlink, At, Holding
<1>3. /\ a \in Activation /\ x \in Method /\ c \in Context /\ c # Null /\ infocc[x] = c
      /\ ctx[c] \in ContextType /\ ctx[c].mb = x /\ MethodState(x) /\ (x \notin MayFail => CodeState(x))
      /\ OwnContext(a) /\ OwnMethod(a) /\ a.pc \in Compiling
  BY <1>1, <1>2, Holds
<1>4. PICK b : b = [a EXCEPT !.pc = "link"]
  OBVIOUS
<1>5. b.pc = "link" /\ b.m = x /\ b.target = a.target /\ b.cc = c /\ b.ok = a.ok
  BY <1>1, <1>3, <1>4 DEF Activation
<1>6. /\ Set(t, b) /\ infocc' = [infocc EXCEPT ![x] = Null]
      /\ UNCHANGED <<ctx, pool, info, inlineability, throwtable, invoker, codeVars>>
  BY <1>1, <1>3, <1>4 DEF Unlink, Goto, contextVars
<1>7. infocc'[x] = Null /\ \A m \in Method \ {x} : infocc'[m] = infocc[m] /\ infocc[m] # c
  BY <1>3, <1>6, OwnContexts DEF IInv, MethodOK
<1>8. LowerOK(t)
  BY <1>1, <1>3, <1>6, <1>7, LowerKept DEF IInv
<1>9. Top(t)' = b
  BY <1>6, TopSet DEF IInv
<1>10. ~ Midway(x) /\ ~ Midway(x)'
  BY <1>1, <1>2, <1>5, <1>9, MidwayTop DEF Mids
<1>c. CodeSame(x)
  BY <1>6, CodeKept DEF codeVars
<1>11. MethodState(x)' /\ (x \notin MayFail => CodeState(x)')
  BY <1>c, <1>3, <1>6, <1>7, <1>10 DEF MethodState, CodeState, CodeSame, codeVars
<1>12. Methods'
  <2>1. \A m \in Method \ {x} : Same(m)
    BY <1>6, <1>7 DEF Same, codeVars
  <2>2. QED
    BY <1>1, <1>2, <1>5, <1>9, <1>11, <2>1, MethodsOthers DEF Solo, Mids
<1>13. ASSUME NEW d \in Context PROVE d \in Free' <=> d \in Free
  <2>1. CASE d = c
    <3>1. ~ Loose(d)
      BY <1>3, <2>1 DEF Loose
    <3>2. QED
      BY <1>5, <1>9, <2>1, <3>1, FreeTop DEF Held
  <2>2. CASE d # c
    <3>1. (Loose(d)' <=> Loose(d)) /\ (Allocated(d)' <=> Allocated(d))
      BY <1>3, <1>6, <1>7, <2>2, NullAssumption DEF Loose, Allocated
    <3>2. QED
      BY <1>1, <1>2, <1>5, <1>9, <2>2, <3>1, FreeTop DEF Held
  <2>3. QED
    BY <2>1, <2>2
<1>14. Free' = Free
  BY <1>13 DEF Free
<1>15. PoolOK'
  BY <1>6, <1>14 DEF Solo, PoolOK
<1>16. Prepared'
  BY <1>1, <1>2, <1>5, <1>6, <1>9, PreparedKept
<1>17. OwnContext(b)'
  <2>1. Loose(c)' /\ Allocated(c)'
    BY <1>3, <1>6, <1>7, NullAssumption DEF Loose, Allocated
  <2>2. QED
    BY <1>5, <2>1 DEF OwnContext, Holding, Internals, Body
<1>18. OwnMethod(b)'
  BY <1>1, <1>2, <1>3, <1>5, <1>6
  DEF OwnMethod, Before, Internals, Body, Releasing, Compiling, Getting
<1>19. Follows(a, b)
  BY <1>1, <1>2, <1>5 DEF Follows, Entry, Compiling, Getting, Body, Releasing
<1>20. Nesting' /\ Frames'
  BY <1>1, <1>6, <1>8, <1>17, <1>18, <1>19, NestingSet, FramesSet DEF IInv, Solo
<1>21. QED
  BY <1>12, <1>15, <1>16, <1>20 DEF Solo

\* ... links it before the head of the pool, ...
LEMMA LinkAlone ==
  ASSUME Alone, IInv, Solo, NEW t \in Thread, Link(t) PROVE Solo'
<1>1. PICK a, c : a = Top(t) /\ c = a.cc
  OBVIOUS
<1>2. /\ a.pc = "link" /\ a.pc \in Compiling /\ a \in Activation /\ a.m \in Method
      /\ c \in Context /\ OwnContext(a) /\ OwnMethod(a)
  BY <1>1, TopOwn DEF Link, At, NoMethod, Formed, HasContext, Releasing, Compiling
<1>3. Loose(c) /\ Allocated(c) /\ c \notin Free /\ ctx[c] \in ContextType
  BY <1>1, <1>2 DEF OwnContext, Free, IInv, MethodOK
<1>4. PICK b : b = [a EXCEPT !.pc = "push"]
  OBVIOUS
<1>5. b.pc = "push" /\ b.m = a.m /\ b.target = a.target /\ b.cc = c /\ b.ok = a.ok
  BY <1>1, <1>2, <1>4 DEF Activation
<1>6. /\ Set(t, b) /\ ctx' = [ctx EXCEPT ![c] = [ctx[c] EXCEPT !.next = pool]]
      /\ UNCHANGED <<infocc, pool, info, inlineability, throwtable, invoker, codeVars>>
  BY <1>1, <1>4 DEF Link, Goto, methodVars, infoVars
<1>7. /\ ctx'[c].next = pool /\ ctx'[c].mb = ctx[c].mb
      /\ \A d \in Context \ {c} : ctx'[d] = ctx[d]
      /\ \A m \in Method : infocc[m] # c
  BY <1>2, <1>3, <1>6 DEF IInv, MethodOK, ContextType, Loose
<1>8. LowerOK(t)
  BY <1>1, <1>2, <1>6, <1>7, LowerKept DEF IInv
<1>9. Top(t)' = b
  BY <1>6, TopSet DEF IInv
<1>10. Methods'
  <2>1. \A m \in Method : Same(m)
    BY <1>6, <1>7 DEF Same, codeVars, IInv, MethodOK
  <2>2. QED
    BY <1>1, <1>2, <1>5, <1>9, <2>1, MethodsQuiet DEF Solo, Mids
<1>11. ASSUME NEW d \in Context PROVE d \in Free' <=> d \in Free
  BY <1>1, <1>2, <1>5, <1>6, <1>7, <1>9, FreeTop DEF Held, Loose, Allocated
<1>12. Free' = Free /\ Free \subseteq Context \ {c}
  BY <1>3, <1>11 DEF Free
<1>13. PoolOK'
  BY <1>6, <1>7, <1>12 DEF Solo, PoolOK
<1>14. Prepared'
  BY <1>1, <1>2, <1>5, <1>6, <1>9, PreparedKept
<1>15. OwnContext(b)'
  <2>1. Loose(c)' /\ Allocated(c)'
    BY <1>3, <1>6, <1>7 DEF Loose, Allocated
  <2>2. QED
    BY <1>5, <1>6, <1>7, <2>1 DEF OwnContext, Holding, Internals, Body
<1>16. OwnMethod(b)'
  BY <1>2, <1>5, <1>6 DEF OwnMethod, Before, Internals, Body, Releasing, Compiling, Getting
<1>17. Follows(a, b)
  BY <1>2, <1>5 DEF Follows, Entry, Compiling, Getting, Body, Releasing
<1>18. Nesting' /\ Frames'
  BY <1>1, <1>6, <1>8, <1>15, <1>16, <1>17, NestingSet, FramesSet DEF IInv, Solo
<1>19. QED
  BY <1>10, <1>13, <1>14, <1>18 DEF Solo

\* ... and makes it the head.
LEMMA PushAlone ==
  ASSUME Alone, IInv, Solo, NEW t \in Thread, Push(t) PROVE Solo'
<1>1. PICK a, c : a = Top(t) /\ c = a.cc
  OBVIOUS
<1>2. /\ a.pc = "push" /\ a.pc \in Releasing /\ a \in Activation /\ a.m \in Method
      /\ c \in Context /\ OwnContext(a) /\ OwnMethod(a)
  BY <1>1, TopOwn DEF Push, At, NoMethod, Formed, HasContext, Releasing
<1>3. Loose(c) /\ Allocated(c) /\ c \notin Free /\ ctx[c].next = pool /\ c # Null
  BY <1>1, <1>2, NullAssumption DEF OwnContext, Free
<1>4. /\ pool' = c
      /\ UNCHANGED <<infocc, ctx, info, inlineability, throwtable, invoker, codeVars>>
  BY <1>1 DEF Push, methodVars, infoVars
<1>5. LowerOK(t)
  BY <1>4, LowerQuiet DEF IInv
<1>6. Nesting' /\ Frames' /\ Top(t)'.pc \notin Special \cup {"lookup"}
  <2>1. CASE a.ok /\ Goto(t, "exit")
    <3>1. PICK b : b = [a EXCEPT !.pc = "exit"]
      OBVIOUS
    <3>2. Set(t, b)
      BY <1>1, <2>1, <3>1 DEF Goto
    <3>3. b.pc = "exit" /\ b.m = a.m /\ b.target = a.target
      BY <1>2, <3>1 DEF Activation
    <3>4. OwnContext(b)'
      BY <3>3 DEF OwnContext, Holding, Internals
    <3>5. OwnMethod(b)'
      BY <1>2, <1>4, <2>1, <3>3
      DEF OwnMethod, Before, Internals, Body, Releasing, Compiling, Getting
    <3>6. Follows(a, b)
      BY <1>2, <3>3 DEF Follows, Entry, Compiling, Getting, Body, Releasing
    <3>7. Top(t)' = b
      BY <3>2, TopSet DEF IInv
    <3>8. b.pc \notin Special \cup {"lookup"}
      BY <3>3 DEF Special, Held, Mids
    <3>9. Nesting' /\ Frames'
      BY <1>1, <1>5, <3>2, <3>4, <3>5, <3>6, NestingSet, FramesSet DEF IInv, Solo
    <3>10. QED
      BY <3>7, <3>8, <3>9
  <2>2. CASE ~ a.ok /\ Return(t, FALSE)
    BY <1>1, <1>2, <1>4, <1>5, <2>2, ReleasedFails
  <2>3. QED
    BY <1>1, <2>1, <2>2 DEF Push, Released
<1>7. Methods'
  <2>1. \A m \in Method : Same(m)
    BY <1>4 DEF Same, codeVars
  <2>2. QED
    BY <1>1, <1>2, <1>6, <2>1, MethodsQuiet DEF Solo, Special, Mids
<1>8. ASSUME NEW d \in Context PROVE d \in Free' <=> d \in Free \/ d = c
  BY <1>1, <1>2, <1>3, <1>4, <1>6, FreeTop DEF Held, Mids, Special, Loose, Allocated
<1>9. Free' = Free \cup {c}
  BY <1>2, <1>8 DEF Free
<1>10. PoolOK'
  <2>1. /\ ctx[c].next \in Free \cup {Null} /\ Null \notin Free
        /\ \A d \in Free : ctx[d].next \in Free \cup {Null} /\ (ctx[d].next # Null => ctx[d].next # ctx[c].next)
        /\ \A d, e \in Free : ctx[d].next = ctx[e].next /\ ctx[d].next # Null => d = e
    BY <1>3, NullAssumption DEF Solo, PoolOK, Free
  <2>2. QED
    BY <1>3, <1>4, <1>9, <2>1 DEF PoolOK
<1>11. Prepared'
  BY <1>1, <1>2, <1>4, <1>6, PreparedKept
<1>12. QED
  BY <1>6, <1>7, <1>10, <1>11 DEF Solo

-----------------------------------------------------------------------------
(* The steps of the functions that are called from outside.                *)

\* They set mb->invoker of a method that is not compiled.
LEMMA InvokerStep ==
  ASSUME Alone, IInv, Solo, NEW t \in Thread, Top(t).pc \in Entry, NEW y \in Method, NEW v,
         v # "jit", invoker[y] # "jit", invoker' = [invoker EXCEPT ![y] = v],
         UNCHANGED <<infocc, ctx, pool, info, inlineability, throwtable, codeVars>>,
         Top(t)'.pc \notin Special \cup {"lookup"}
  PROVE  LowerOK(t) /\ Methods' /\ PoolOK' /\ Prepared'
<1>1. LowerOK(t)
  BY LowerEntry DEF IInv
<1>2. invoker'[y] # "jit" /\ \A m \in Method \ {y} : invoker'[m] = invoker[m]
  BY DEF IInv, MethodOK
<1>3. \A m \in Method \ {y} : Same(m)
  BY <1>2 DEF Same, codeVars
<1>4. Top(t).pc \notin Mids /\ Top(t)'.pc \notin Mids /\ Top(t).pc \notin Held /\ Top(t).pc # "initinfo"
  BY DEF Entry, Special, Held, Mids
<1>5. ~ Midway(y) /\ ~ Midway(y)' /\ MethodState(y) /\ (y \notin MayFail => CodeState(y))
  BY <1>4, MidwayTop DEF Solo, Methods
<1>c. CodeSame(y)
  BY CodeKept DEF codeVars
<1>6. MethodState(y)' /\ (y \notin MayFail => CodeState(y)')
  BY <1>c, <1>2, <1>5 DEF MethodState, CodeState, CodeSame, codeVars
<1>7. Methods'
  BY <1>3, <1>4, <1>6, MethodsOthers DEF Solo
<1>8. PoolOK'
  BY <1>4, PoolQuiet DEF Solo, Special
<1>9. Prepared'
  BY <1>4, PreparedKept
<1>10. QED
  BY <1>1, <1>7, <1>8, <1>9

LEMMA CountInvocationAlone ==
  ASSUME Alone, IInv, Solo, NEW t \in Thread, CountInvocation(t) PROVE Solo'
<1>1. PICK a, x : a = Top(t) /\ x = a.m
  OBVIOUS
<1>2. a.pc = "count" /\ a \in Activation /\ x \in Method
  BY <1>1, TopOwn DEF CountInvocation, At, NoMethod
<1>3. UNCHANGED <<infocc, ctx, pool, info, inlineability, throwtable, codeVars>>
  BY DEF CountInvocation, contextVars
<1>4. a.pc \in Entry /\ a.pc \notin Special \cup {"idle"} /\ a.pc \notin Compiling
  BY <1>2 DEF Entry, Special, Held, Mids, Compiling, Getting, Body, Releasing
<1>5. CASE invoker[x] = "jit" /\ Goto(t, "call") /\ UNCHANGED invoker
  <2>1. PICK b : b = [a EXCEPT !.pc = "call"]
    OBVIOUS
  <2>2. Set(t, b) /\ UNCHANGED soloVars
    BY <1>1, <1>3, <1>5, <2>1 DEF Goto, soloVars, codeVars
  <2>3. b.pc = "call" /\ b.m = x
    BY <1>1, <1>2, <2>1 DEF Activation
  <2>4. OwnContext(b) /\ OwnMethod(b)
    BY <1>5, <2>3
    DEF OwnContext, OwnMethod, Holding, Before, Internals, Body, Releasing, Compiling, Getting
  <2>5. Follows(a, b) /\ b.pc \notin Special
    BY <1>2, <2>3 DEF Follows, Entry, Compiling, Getting, Body, Releasing, Special, Held, Mids
  <2>6. QED
    BY <1>1, <1>4, <2>2, <2>3, <2>4, <2>5, QuietSet
<1>6. CASE Return(t, TRUE) /\ UNCHANGED invoker
  <2>1. UNCHANGED soloVars
    BY <1>3, <1>6 DEF soloVars, codeVars
  <2>2. QED
    BY <1>1, <1>2, <1>4, <1>6, <2>1, QuietReturn
<1>7. CASE /\ invoker[x] = "candi" /\ invoker' = [invoker EXCEPT ![x] = "interp"]
           /\ Call(t, [a EXCEPT !.pc = "compiling"], Start("check", x, STAGE_DONE))
  <2>1. PICK b : b = [a EXCEPT !.pc = "compiling"]
    OBVIOUS
  <2>2. PICK s : s = Start("check", x, STAGE_DONE)
    OBVIOUS
  <2>3. b.pc = "compiling" /\ b.m = x /\ s.pc = "check" /\ s.m = x /\ s.target = STAGE_DONE
    BY <1>1, <1>2, <2>1, <2>2, StartFields DEF Activation
  <2>4. Call(t, b, s) /\ Top(t)' = s
    BY <1>7, <2>1, <2>2, TopCall DEF IInv
  <2>5. LowerOK(t) /\ Methods' /\ PoolOK' /\ Prepared'
    BY <1>1, <1>2, <1>3, <1>4, <1>7, <2>3, <2>4, InvokerStep DEF Special, Held, Mids
  <2>6. OwnContext(b)' /\ OwnMethod(b)'
    BY <2>3
    DEF OwnContext, OwnMethod, Holding, Before, Internals, Body, Releasing, Compiling, Getting
  <2>7. OwnContext(s)' /\ OwnMethod(s)'
    BY <2>3
    DEF OwnContext, OwnMethod, Holding, Before, Internals, Body, Releasing, Compiling, Getting
  <2>8. Follows(a, b) /\ Linked(b, s) /\ b.pc \notin Body
    BY <1>2, <2>3 DEF Follows, Linked, Waiting, Entry, Compiling, Getting, Body, Releasing
  <2>9. ASSUME NEW i \in 0 .. MaxDepth, i < depth[t] PROVE stack[t][i].pc \notin Body
    <3>1. stack[t][i].pc = "idle"
      BY <1>1, <1>4, <2>9, LowerFrame DEF IInv, Solo
    <3>2. QED
      BY <3>1 DEF Body
  <2>10. Nesting' /\ Frames'
    BY <1>1, <2>4, <2>5, <2>6, <2>7, <2>8, <2>9, NestingCall, FramesCall DEF IInv, Solo
  <2>11. QED
    BY <2>5, <2>10 DEF Solo
<1>8. QED
  BY <1>1, <1>5, <1>6, <1>7 DEF CountInvocation

LEMMA GiveUpAlone ==
  ASSUME Alone, IInv, Solo, NEW t \in Thread, GiveUp(t) PROVE Solo'
<1>1. PICK a, x : a = Top(t) /\ x = a.m
  OBVIOUS
<1>2. a.pc = "failed" /\ x \in Method /\ invoker[x] # "jit" /\ Return(t, TRUE)
  BY <1>1, TopOwn DEF GiveUp, At, NoMethod, OwnMethod, Before
<1>3. a.pc \in Entry /\ a.pc \notin Compiling
  BY <1>2 DEF Entry, Compiling, Getting, Body, Releasing
<1>4. Top(t)'.pc \notin Special \cup {"lookup"}
  BY <1>1, <1>2, ReturnsTo
<1>5. /\ invoker' = [invoker EXCEPT ![x] = "interp"]
      /\ UNCHANGED <<infocc, ctx, pool, info, inlineability, throwtable, codeVars>>
  BY <1>1 DEF GiveUp, infoVars, contextVars
<1>6. LowerOK(t) /\ Methods' /\ PoolOK' /\ Prepared'
  BY <1>1, <1>2, <1>3, <1>4, <1>5, InvokerStep
<1>7. Nesting' /\ Frames'
  BY <1>1, <1>2, <1>3, <1>6, NestingReturn, FramesReturn DEF IInv, Solo
<1>8. QED
  BY <1>6, <1>7 DEF Solo

LEMMA HookSetAlone ==
  ASSUME Alone, IInv, Solo, NEW t \in Thread, HookSet(t) PROVE Solo'
<1>1. PICK a : a = Top(t)
  OBVIOUS
<1>2. PICK y : y = ClassMethods[a.i]
  OBVIOUS
<1>3. /\ a.pc = "hookset" /\ a \in Activation /\ code[y] = Null /\ a.i <= Len(ClassMethods)
  BY <1>1, <1>2, TopOwn DEF HookSet, At, OwnMethod
<1>4. y \in Method
  <2>1. a.i \in 1 .. Len(ClassMethods)
    <3>1. a.i \in Nat \ {0} /\ Len(ClassMethods) \in Nat
      BY <1>3, ProgramAssumption DEF Activation
    <3>2. QED
      BY <1>3, <3>1
  <2>2. QED
    BY <1>2, <2>1, ProgramAssumption
<1>5. invoker[y] # "jit"
  BY <1>3, <1>4 DEF Solo, Methods, MethodState, Compiled
<1>6. PICK b : b = [a EXCEPT !.pc = "hook", !.i = @ + 1]
  OBVIOUS
<1>7. b.pc = "hook"
  BY <1>3, <1>6 DEF Activation
<1>8. /\ Set(t, b) /\ invoker' = [invoker EXCEPT ![y] = "candi"]
      /\ UNCHANGED <<infocc, ctx, pool, info, inlineability, throwtable, codeVars>>
  BY <1>1, <1>2, <1>6 DEF HookSet, infoVars, contextVars
<1>9. Top(t)' = b
  BY <1>8, TopSet DEF IInv
<1>10. LowerOK(t) /\ Methods' /\ PoolOK' /\ Prepared'
  BY <1>1, <1>3, <1>4, <1>5, <1>7, <1>8, <1>9, InvokerStep DEF Special, Held, Mids, Entry
<1>11. OwnContext(b)' /\ OwnMethod(b)'
  BY <1>7
  DEF OwnContext, OwnMethod, Holding, Before, Internals, Body, Releasing, Compiling, Getting
<1>12. Follows(a, b)
  BY <1>3, <1>7 DEF Follows, Entry, Compiling, Getting, Body, Releasing
<1>13. Nesting' /\ Frames'
  BY <1>1, <1>8, <1>10, <1>11, <1>12, NestingSet, FramesSet DEF IInv, Solo
<1>14. QED
  BY <1>10, <1>13 DEF Solo

-----------------------------------------------------------------------------
(* The invariant holds, and what follows from it.                          *)

LEMMA SoloInit ==
  ASSUME Init PROVE Solo
<1>1. \A t \in Thread, i \in 0 .. MaxDepth : stack[t][i] = NoActivation /\ depth[t] = 0
  BY DEF Init
<1>2. \A t \in Thread : Top(t).pc = "idle"
  BY BoundAssumption DEF Init, Top, NoActivation
<1>3. Nesting
  BY <1>1 DEF Nesting, Nested
<1>4. Frames
  <2>1. OwnContext(NoActivation) /\ OwnMethod(NoActivation)
    BY DEF OwnContext, OwnMethod, NoActivation, Holding, Before, Internals, Body, Releasing,
           Compiling, Getting
  <2>2. QED
    BY <1>1, <2>1 DEF Frames
<1>5. \A m : ~ Midway(m)
  BY <1>2 DEF Midway, Mids
<1>6. Methods
  <2>1. \A m \in Method :
          /\ infocc[m] = Null /\ invoker[m] # "jit" /\ ~ compiledflag[m] /\ m \notin direct
          /\ inlineability[m] = "unknown" /\ throwtable[m] = <<>>
    BY DEF Init
  <2>2. \A m \in Method : Uncompiled(m)
    BY <2>1 DEF Uncompiled, AllParts
  <2>3. QED
    BY <1>5, <2>1, <2>2 DEF Methods, MethodState, CodeState
<1>7. PoolOK
  <2>1. Free = {} /\ pool = Null
    BY DEF Free, Allocated, Init, FreshContext
  <2>2. QED
    BY <2>1 DEF PoolOK
<1>8. Prepared
  BY <1>2 DEF Prepared, Init
<1>9. QED
  BY <1>3, <1>4, <1>6, <1>7, <1>8 DEF Solo

LEMMA EntersAlone ==
  ASSUME Alone, IInv, Solo, NEW t \in Thread, Enters(t) PROVE Solo'
<1>1. ASSUME NEW m \in Method, Invoke(t, m) PROVE Solo'
  BY <1>1, InvokeAlone
<1>2. CASE compilerEnable(t) \/ compilerDisable(t)
  BY <1>2, SoloStutters
  DEF compilerEnable, compilerDisable, soloVars, methodVars, codeVars, infoVars, contextVars, threadVars
<1>3. CASE compileClass(t) \/ initializeClassForJIT(t)
  BY <1>3, EnterClassLoopAlone DEF compileClass, initializeClassForJIT
<1>4. QED
  BY <1>1, <1>2, <1>3 DEF Enters

LEMMA RunsAlone ==
  ASSUME Alone, IInv, Solo, NEW t \in Thread, Runs(t) PROVE Solo'
BY PublishAlone, InitInfoAlone, LookupAlone, GetAlone, PopAlone, ResetAlone, RefAlone, UnrefAlone,
   UnlinkAlone, LinkAlone, PushAlone, CheckAlone, StageCheckAlone, EnterAlone, FrontFailsAlone,
   FrontAlone, PreserveAlone, InternalAlone, InlineScanAlone, InlineSiteAlone, InlinePassEndAlone, EagerScanAlone,
   EagerSiteAlone, EagerEndAlone, WriteFailsAlone, WriteAlone, StaticAlone, InstallAlone, FinishAlone,
   ExitAlone, FailAlone, ClearFlagAlone, CountInvocationAlone, CallInvokerAlone, GiveUpAlone, CompileNextAlone,
   HookNextAlone, HookTestAlone, HookSetAlone
DEF Runs

\* When one thread uses the compiler, the calls nest as compileMethod(),
\* methodInlining() and eagerCompilation() make them, each activation finds its
\* context and its method as it left them, and cc_pool is a list without a cycle
\* of exactly the contexts nobody has.
THEOREM SoloInvariance ==
  ASSUME Alone PROVE Spec => []Solo
<1>1. Init => Solo
  BY SoloInit
<1>2. IInv /\ Solo /\ [Next]_vars => Solo'
  <2>1. SUFFICES ASSUME IInv, Solo, [Next]_vars PROVE Solo'
    OBVIOUS
  <2>2. ASSUME NEW t \in Thread, Enters(t) \/ Runs(t) PROVE Solo'
    BY <2>1, <2>2, EntersAlone, RunsAlone
  <2>3. CASE UNCHANGED vars
    BY <2>1, <2>3, SoloStutters
    DEF vars, soloVars, methodVars, codeVars, infoVars, contextVars, threadVars
  <2>4. QED
    BY <2>1, <2>2, <2>3 DEF Next, Quiet
<1>3. QED
  BY <1>1, <1>2, Invariance, PTL DEF Spec

-----------------------------------------------------------------------------
(* Reference counts.                                                       *)

Counted == \A c \in Context : ctx[c].ref >= 0

\* A step that changes at most one context, and not its count
LEMMA CountKept ==
  ASSUME Counted, NEW c, \A d \in Context \ {c} : ctx'[d] = ctx[d],
         c \in Context => ctx'[c].ref >= 0
  PROVE  Counted'
BY DEF Counted

LEMMA FieldKept ==
  ASSUME IInv, Counted, NEW c \in Context, NEW r, ctx' = [ctx EXCEPT ![c] = r], r.ref >= 0
  PROVE  Counted'
BY CountKept DEF IInv, MethodOK

LEMMA BodyCounted ==
  ASSUME IInv, Solo, Counted, NEW t \in Thread,
         FrontFails(t) \/ Front(t) \/ Preserve(t) \/ InlineSite(t) \/ WriteFails(t) \/ Write(t)
         \/ Finish(t)
  PROVE  Counted'
<1>1. PICK a, c : a = Top(t) /\ c = a.cc
  OBVIOUS
<1>2. a.pc \in Holding
  BY <1>1 DEF FrontFails, Front, Preserve, InlineSite, WriteFails, Write, Finish, At, Holding, Body
<1>3. c \in Context /\ ctx[c] \in ContextType /\ ctx[c].ref >= 0
  BY <1>1, <1>2, Holds DEF Counted
<1>4. ASSUME NEW v, ctx' = [ctx EXCEPT ![c].body = v] \/ ctx' = [ctx EXCEPT ![c].sites = v]
                    \/ ctx' = [ctx EXCEPT ![c].stage = v]
      PROVE  Counted'
  <2>1. PICK r : ctx' = [ctx EXCEPT ![c] = r]
                 /\ (r = [ctx[c] EXCEPT !.body = v] \/ r = [ctx[c] EXCEPT !.sites = v]
                     \/ r = [ctx[c] EXCEPT !.stage = v])
    BY <1>4
  <2>2. r.ref = ctx[c].ref
    BY <1>3, <2>1 DEF ContextType
  <2>3. QED
    BY <1>3, <2>1, <2>2, FieldKept
<1>5. CASE FrontFails(t) \/ WriteFails(t)
  BY <1>1, <1>4, <1>5 DEF FrontFails, WriteFails
<1>6. CASE Preserve(t) \/ Write(t) \/ Finish(t)
  BY <1>1, <1>4, <1>6 DEF Preserve, Write, Finish
<1>7. CASE InlineSite(t)
  <2>1. \/ UNCHANGED ctx
        \/ \E v : ctx' = [ctx EXCEPT ![c].sites = v] \/ ctx' = [ctx EXCEPT ![c].body = v]
    BY <1>1, <1>7 DEF InlineSite
  <2>2. QED
    BY <1>4, <2>1 DEF Counted
<1>8. CASE Front(t)
  <2>1. PICK v, w, r : /\ ctx' = [ctx EXCEPT ![c] = r]
                       /\ r = [ctx[c] EXCEPT !.body = v, !.sites = w]
    BY <1>1, <1>3, <1>8 DEF Front, IInv, MethodOK
  <2>2. r.ref = ctx[c].ref
    BY <1>3, <2>1 DEF ContextType
  <2>3. QED
    BY <1>3, <2>1, <2>2, FieldKept
<1>9. QED
  BY <1>5, <1>6, <1>7, <1>8

LEMMA ContextCounted ==
  ASSUME IInv, Solo, Counted, NEW t \in Thread,
         Get(t) \/ Reset(t) \/ Ref(t) \/ Unref(t) \/ Link(t)
  PROVE  Counted'
<1>1. PICK a, c : a = Top(t) /\ c = a.cc
  OBVIOUS
<1>2. CASE Get(t)
  <2>1. CASE UNCHANGED ctx
    BY <2>1 DEF Counted
  <2>2. ASSUME NEW d \in Context, ctx' = [ctx EXCEPT ![d] = FreshContext(a.m)] PROVE Counted'
    <3>1. FreshContext(a.m).ref >= 0
      BY DEF FreshContext
    <3>2. QED
      BY <2>2, <3>1, FieldKept
  <2>3. QED
    BY <1>1, <1>2, <2>1, <2>2 DEF Get
<1>3. ASSUME ~ Get(t) PROVE c \in Context /\ ctx[c] \in ContextType /\ ctx[c].ref >= 0
  <2>1. a.pc \in HasContext
    BY <1>1, <1>3 DEF Reset, Ref, Unref, Link, At, HasContext, Releasing
  <2>2. QED
    BY <1>1, <2>1, TopOwn DEF Formed, IInv, MethodOK, Counted
<1>4. CASE Reset(t) /\ ~ Get(t)
  <2>1. FreshContext(a.m).ref >= 0
    BY DEF FreshContext
  <2>2. QED
    BY <1>1, <1>3, <1>4, <2>1, FieldKept DEF Reset
<1>5. CASE Ref(t) /\ ~ Get(t)
  <2>1. PICK r : ctx' = [ctx EXCEPT ![c] = r] /\ r = [ctx[c] EXCEPT !.ref = ctx[c].ref + 1]
    BY <1>1, <1>5 DEF Ref
  <2>2. r.ref >= 0
    BY <1>3, <1>5, <2>1 DEF ContextType
  <2>3. QED
    BY <1>3, <1>5, <2>1, <2>2, FieldKept
<1>6. CASE Unref(t) /\ ~ Get(t)
  <2>1. PICK r : ctx' = [ctx EXCEPT ![c] = r] /\ r = [ctx[c] EXCEPT !.ref = ctx[c].ref - 1]
    BY <1>1, <1>6 DEF Unref
  <2>2. ctx[c].ref >= 1
    <3>1. a.pc = "release"
      BY <1>1, <1>6 DEF Unref, At
    <3>2. QED
      BY <1>1, <3>1, TopOwn DEF OwnContext, Holding
  <2>3. r.ref >= 0
    BY <1>3, <1>6, <2>1, <2>2 DEF ContextType
  <2>4. QED
    BY <1>3, <1>6, <2>1, <2>3, FieldKept
<1>7. CASE Link(t) /\ ~ Get(t)
  <2>1. PICK r : ctx' = [ctx EXCEPT ![c] = r] /\ r = [ctx[c] EXCEPT !.next = pool]
    BY <1>1, <1>7 DEF Link
  <2>2. r.ref = ctx[c].ref
    BY <1>3, <1>7, <2>1 DEF ContextType
  <2>3. QED
    BY <1>3, <1>7, <2>1, <2>2, FieldKept
<1>8. QED
  BY <1>2, <1>4, <1>5, <1>6, <1>7

\* The reference count of a CompilerContext never falls below zero: each
\* releaseCompilerContext() gives back a reference getCompilerContext() took.
THEOREM CountsSound ==
  ASSUME Alone PROVE Spec => []Counted
<1>1. Init => Counted
  BY DEF Init, Counted, FreshContext
<1>2. IInv /\ Solo /\ Counted /\ [Next]_vars => Counted'
  <2>1. SUFFICES ASSUME IInv, Solo, Counted, [Next]_vars PROVE Counted'
    OBVIOUS
  <2>2. CASE UNCHANGED ctx
    BY <2>1, <2>2 DEF Counted
  <2>3. ASSUME NEW t \in Thread, Enters(t) \/ Runs(t) PROVE Counted'
    <3>1. CASE \/ FrontFails(t) \/ Front(t) \/ Preserve(t) \/ InlineSite(t) \/ WriteFails(t)
               \/ Write(t) \/ Finish(t)
      BY <2>1, <3>1, BodyCounted
    <3>2. CASE Get(t) \/ Reset(t) \/ Ref(t) \/ Unref(t) \/ Link(t)
      BY <2>1, <3>2, ContextCounted
    <3>3. CASE Enters(t)
      BY <2>2, <3>3
      DEF Enters, Invoke, compilerEnable, compilerDisable, compileClass, initializeClassForJIT,
          EnterClassLoop, contextVars
    <3>4. CASE \/ Publish(t) \/ InitInfo(t) \/ Lookup(t) \/ Pop(t) \/ Unlink(t) \/ Push(t)
               \/ Check(t) \/ StageCheck(t) \/ Enter(t) \/ Internal(t)
      BY <2>2, <3>4
      DEF Publish, InitInfo, Lookup, Pop, Unlink, Push, Check, StageCheck, Enter, Internal, contextVars
    <3>5. CASE \/ InlineScan(t) \/ InlinePassEnd(t) \/ EagerScan(t) \/ EagerSite(t) \/ EagerEnd(t)
               \/ Static(t) \/ Install(t) \/ Exit(t) \/ Fail(t) \/ ClearFlag(t) \/ CountInvocation(t)
               \/ CallInvoker(t)
      BY <2>2, <3>5
      DEF InlineScan, InlinePassEnd, EagerScan, EagerSite, EagerEnd, Static, Install, Exit, Fail, ClearFlag,
          CountInvocation, CallInvoker, contextVars
    <3>6. CASE GiveUp(t) \/ CompileNext(t) \/ HookNext(t) \/ HookTest(t) \/ HookSet(t)
      BY <2>2, <3>6 DEF GiveUp, CompileNext, HookNext, HookTest, HookSet, contextVars
    <3>7. QED
      BY <2>3, <3>1, <3>2, <3>3, <3>4, <3>5, <3>6 DEF Runs
  <2>4. QED
    BY <2>1, <2>2, <2>3 DEF Next, Quiet, vars, contextVars
<1>3. QED
  BY <1>1, <1>2, Invariance, SoloInvariance, PTL DEF Spec

-----------------------------------------------------------------------------
(* The properties of Compilation.                                          *)

\* At most one activation uses the context of a method.
LEMMA OneUser ==
  ASSUME IInv, Solo, NEW t \in Thread, NEW i \in 0 .. MaxDepth, NEW j \in 0 .. MaxDepth,
         i < j, j <= depth[t], stack[t][i].pc \in Body \cup Releasing \cup {"stagecheck", "enter"},
         stack[t][j].pc \in Compiling
  PROVE  stack[t][i].m # stack[t][j].m
<1>1. depth[t] \in 0 .. MaxDepth /\ i < depth[t]
  BY TopType DEF IInv
<1>2. stack[t][i].pc \in Waiting
  BY <1>1, LowerFrame DEF IInv, Solo
<1>3. stack[t][i].pc \in Body
  BY <1>2 DEF Waiting, Releasing
<1>4. QED
  BY <1>1, <1>3 DEF Solo, Nesting, Nested

\* "prevent self compilation" (optimize.c): a thread that compiles a method and
\* is the only one in the compiler never compiles it again below itself, whatever
\* the call graph and the failures.
THEOREM SelfCompilationPrevented ==
  ASSUME Alone PROVE Spec => []NoSelfCompilation
<1>1. IInv /\ Solo => NoSelfCompilation
  <2>1. SUFFICES ASSUME IInv, Solo, NEW m \in Method, NEW t \in Thread, NEW i \in 0 .. MaxDepth,
                        NEW j \in 0 .. MaxDepth, InBody(t, i, m), InBody(t, j, m)
                 PROVE  i = j
    BY DEF NoSelfCompilation
  <2>2. /\ stack[t][i].pc \in Body \cup Releasing /\ stack[t][j].pc \in Body \cup Releasing
        /\ stack[t][i].m = stack[t][j].m /\ i <= depth[t] /\ j <= depth[t]
    BY <2>1 DEF InBody, Inside, Getting, Body, Releasing
  <2>3. stack[t][i].pc \in Compiling /\ stack[t][j].pc \in Compiling
    BY <2>2 DEF Compiling
  <2>4. ~ (i < j) /\ ~ (j < i)
    BY <2>1, <2>2, <2>3, OneUser
  <2>5. QED
    BY <2>4, BoundAssumption
<1>2. QED
  BY <1>1, Invariance, SoloInvariance, PTL

\* What an activation that uses a context knows of it
LEMMA UserHolds ==
  ASSUME IInv, Solo, NEW t \in Thread, NEW i \in 0 .. MaxDepth, Uses(t, i), NEW a, a = stack[t][i]
  PROVE  /\ a.m \in Method /\ a.cc \in Context /\ infocc[a.m] = a.cc /\ ctx[a.cc].ref >= 1
         /\ ctx[a.cc].mb = a.m /\ a.pc \in Compiling /\ i <= depth[t]
         /\ a.pc \in Body \cup Releasing \cup {"stagecheck", "enter"}
<1>1. /\ a.pc \in (Body \ {"exit"}) \cup {"stagecheck", "enter", "clearflag", "release"}
      /\ i <= depth[t]
  BY DEF Uses
<1>2. a.pc \in Holding \ {"ref", "unlink"} /\ a.pc \in HasContext /\ a.pc \notin NoMethod
      /\ a.pc \in Compiling /\ a.pc \in Body \cup Releasing \cup {"stagecheck", "enter"}
  BY <1>1 DEF Holding, HasContext, NoMethod, Body, Compiling, Releasing
<1>3. Formed(a, ctx) /\ OwnContext(a)
  BY <1>1 DEF IInv, StackOK, Solo, Frames
<1>4. a.m \in Method /\ a.cc \in Context /\ infocc[a.m] = a.cc /\ ctx[a.cc].ref >= 1
  BY <1>2, <1>3 DEF Formed, OwnContext
<1>5. ctx[a.cc].mb = a.m
  BY <1>4, NullAssumption DEF Solo, Methods, MethodState
<1>6. QED
  BY <1>1, <1>2, <1>4, <1>5

\* A context belongs to one method at a time, and a method to one context: the
\* pool hands nobody a context that another activation works on.
THEOREM ContextsUnshared ==
  ASSUME Alone PROVE Spec => []OneContextPerMethod
<1>1. IInv /\ Solo => OneContextPerMethod
  <2>1. SUFFICES ASSUME IInv, Solo, NEW t \in Thread, NEW u \in Thread, NEW i \in 0 .. MaxDepth,
                        NEW j \in 0 .. MaxDepth, Uses(t, i), Uses(u, j)
                 PROVE  stack[t][i].m = stack[u][j].m <=> stack[t][i].cc = stack[u][j].cc
    BY DEF OneContextPerMethod
  <2>2. infocc[stack[t][i].m] = stack[t][i].cc /\ ctx[stack[t][i].cc].mb = stack[t][i].m
    BY <2>1, UserHolds
  <2>3. infocc[stack[u][j].m] = stack[u][j].cc /\ ctx[stack[u][j].cc].mb = stack[u][j].m
    BY <2>1, UserHolds
  <2>4. QED
    BY <2>2, <2>3
<1>2. QED
  BY <1>1, Invariance, SoloInvariance, PTL

\* releaseCompilerContext() puts a context back into cc_pool only when nobody
\* uses it.
THEOREM ReleasedUnused ==
  ASSUME Alone PROVE Spec => []NoEarlyRelease
<1>1. IInv /\ Solo /\ Counted => NoEarlyRelease
  <2>1. SUFFICES ASSUME IInv, Solo, Counted, NEW c \in Context, NEW users,
                        users = {h \in Thread \X (0 .. MaxDepth) :
                                   Uses(h[1], h[2]) /\ stack[h[1]][h[2]].cc = c}
                 PROVE  Cardinality(users) <= ctx[c].ref /\ (c \in Pooled => users = {})
    BY DEF NoEarlyRelease
  <2>2. ASSUME NEW h \in users
        PROVE  /\ h[1] \in Thread /\ h[2] \in 0 .. MaxDepth /\ Uses(h[1], h[2]) /\ h = <<h[1], h[2]>>
               /\ stack[h[1]][h[2]].cc = c /\ infocc[stack[h[1]][h[2]].m] = c /\ ctx[c].ref >= 1
               /\ ctx[c].mb = stack[h[1]][h[2]].m /\ stack[h[1]][h[2]].m \in Method
               /\ stack[h[1]][h[2]].pc \in Compiling /\ h[2] <= depth[h[1]]
               /\ stack[h[1]][h[2]].pc \in Body \cup Releasing \cup {"stagecheck", "enter"}
    <3>1. /\ h[1] \in Thread /\ h[2] \in 0 .. MaxDepth /\ Uses(h[1], h[2]) /\ h = <<h[1], h[2]>>
          /\ stack[h[1]][h[2]].cc = c
      BY <2>1, <2>2
    <3>2. QED
      BY <2>1, <3>1, UserHolds
  <2>3. ASSUME NEW h \in users, NEW k \in users PROVE h = k
    <3>1. h[1] = k[1] /\ h[2] \in Int /\ k[2] \in Int
      BY <2>2, <2>3, BoundAssumption DEF Alone
    <3>2. ~ (h[2] < k[2]) /\ ~ (k[2] < h[2])
      BY <2>1, <2>2, <2>3, <3>1, OneUser
    <3>3. h[2] = k[2]
      BY <3>1, <3>2
    <3>4. QED
      BY <2>2, <2>3, <3>1, <3>3
  <2>4. Cardinality(users) <= ctx[c].ref
    <3>1. CASE users = {}
      <4>1. Cardinality(users) = 0
        BY <3>1, FS_EmptySet
      <4>2. QED
        BY <2>1, <4>1 DEF Counted
    <3>2. ASSUME NEW h \in users PROVE Cardinality(users) <= ctx[c].ref
      <4>1. users = {h}
        BY <2>3, <3>2
      <4>2. Cardinality(users) = 1
        BY <4>1, FS_Singleton
      <4>3. QED
        BY <2>2, <3>2, <4>2
    <3>3. QED
      BY <3>1, <3>2
  <2>5. ASSUME c \in Pooled, NEW h \in users PROVE FALSE
    <3>1. /\ Free \in SUBSET Context /\ (pool # Null => pool \in Free)
          /\ \A d \in Free : ctx[d].next # Null => ctx[d].next \in Free
      BY <2>1 DEF Solo, PoolOK, Free
    <3>2. c \in Free
      BY <2>5, <3>1 DEF Pooled
    <3>3. QED
      BY <2>2, <2>5, <3>2 DEF Free, Loose
  <2>6. QED
    BY <2>4, <2>5
<1>2. QED
  BY <1>1, Invariance, SoloInvariance, CountsSound, PTL

\* Every compiled method runs code made from its own bytecode, once and into a
\* clean context, whatever the methods it inlines and compiles eagerly do, unless
\* its own constants may fail to be resolved.
THEOREM CodeIsOwn ==
  ASSUME Alone PROVE Spec => []OwnCode
<1>1. Solo => OwnCode
  BY DEF Solo, Methods, MethodState, Compiled, OwnCode
<1>2. QED
  BY <1>1, SoloInvariance, PTL

\* A direct call, substituted by eagerCompilation() or made because the callee has
\* ACC_MACHINE_COMPILED, reaches code that is there and linked, whatever
\* compilations have failed.
THEOREM DirectCallsReachCode ==
  ASSUME Alone PROVE Spec => []DirectCallSafe
<1>1. Solo => DirectCallSafe
  BY DEF Solo, Methods, MethodState, Compiled, DirectCallSafe
<1>2. QED
  BY <1>1, SoloInvariance, PTL

\* The throw table of a compiled method ends with the one pass of writeCode()
\* that made its code, after any number of failed attempts, and only those can
\* have left entries in front of it.
THEOREM ThrowTableSound ==
  ASSUME Alone PROVE Spec => []ThrowTableComplete
<1>1. Solo => ThrowTableComplete
  BY DEF Solo, Methods, MethodState, Compiled, ThrowTableComplete
<1>2. QED
  BY <1>1, SoloInvariance, PTL
=============================================================================
