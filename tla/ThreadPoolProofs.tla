-------------------------- MODULE ThreadPoolProofs --------------------------
(***************************************************************************)
(* For any number of workers, connections and any pool sizes: a thread the *)
(* pool hands out is free, a connection belongs to one thread, and a       *)
(* filled target is never overwritten.                                     *)
(***************************************************************************)
EXTENDS ThreadPool, SequenceTheorems, TLAPS

Waiting == {"test", "wait", "asleep"}

\* What the dispatcher holds between its steps.
DispatcherOK ==
  /\ disp.at # "accept" => disp.job \in Job
  /\ disp.at \in {"fill", "notify"} => disp.worker \in Worker
  /\ disp.at = "fill" => /\ pc[disp.worker] \in Waiting
                         /\ target[disp.worker] = NoJob

\* target is filled exactly while the thread has a connection to serve.
TargetOK ==
  \A w \in Worker :
    /\ pc[w] \in {"none", "return"} => target[w] = NoJob
    /\ pc[w] \in {"run", "clear"} => target[w] # NoJob

\* StackedIsFree says nothing of a thread that is in pool.run()'s hands or on
\* its way back; the strengthening does.
IInv == TypeOK /\ DispatcherOK /\ TargetOK /\ StackedIsFree /\ OneWorkerPerJob

-----------------------------------------------------------------------------
\* Stack#pop() leaves the other elements in place.
LEMMA PopFacts ==
  ASSUME NEW S, NEW s \in Seq(S), s # << >>
  PROVE  /\ Len(s) \in Nat /\ Len(s) >= 1
         /\ s[Len(s)] \in S
         /\ SubSeq(s, 1, Len(s) - 1) \in Seq(S)
         /\ Len(SubSeq(s, 1, Len(s) - 1)) = Len(s) - 1
         /\ \A i \in 1 .. (Len(s) - 1) : SubSeq(s, 1, Len(s) - 1)[i] = s[i]
<1>1. Len(s) \in Nat /\ Len(s) >= 1
  OBVIOUS
<1>2. s[Len(s)] \in S
  BY <1>1
<1>3. /\ SubSeq(s, 1, Len(s) - 1) \in Seq(S)
      /\ Len(SubSeq(s, 1, Len(s) - 1)) = Len(s) - 1
      /\ \A i \in 1 .. (Len(s) - 1) : SubSeq(s, 1, Len(s) - 1)[i] = s[i]
  <2> DEFINE n == Len(s) - 1
  <2>1. n \in Int /\ 1 \in Int /\ n >= 0 /\ n - 1 + 1 = n
    BY <1>1
  <2>2. \A i \in 1 .. n : s[i] \in S
    BY <1>1
  <2> HIDE DEF n
  <2>3. /\ SubSeq(s, 1, n) \in Seq(S)
        /\ Len(SubSeq(s, 1, n)) = IF 1 <= n THEN n - 1 + 1 ELSE 0
        /\ \A i \in 1 .. n - 1 + 1 : SubSeq(s, 1, n)[i] = s[1 + i - 1]
    BY <2>1, <2>2, SubSeqProperties
  <2>4. Len(SubSeq(s, 1, n)) = n
    BY <2>1, <2>3
  <2>5. \A i \in 1 .. n : 1 + i - 1 = i
    BY <2>1
  <2>6. \A i \in 1 .. n : SubSeq(s, 1, n)[i] = s[i]
    BY <2>1, <2>3, <2>5
  <2>7. QED
    BY <2>3, <2>4, <2>6 DEF n
<1>4. QED
  BY <1>1, <1>2, <1>3

\* The constructor's threads are distinct, waiting and without a target.
LEMMA InitIInv == Init => IInv
<1> SUFFICES ASSUME Init PROVE IInv
  OBVIOUS
<1> USE PoolAssumption
<1>1. stack \in Seq(Worker) /\ Len(stack) = INIT_SIZE
  <2>1. stack \in [1 .. INIT_SIZE -> Worker]
    BY DEF Init
  <2>2. INIT_SIZE \in Nat
    OBVIOUS
  <2>3. QED
    BY <2>1, <2>2
<1>2. \A i \in 1 .. Len(stack) : stack[i] \in Worker /\ pc[stack[i]] = "test"
  BY <1>1 DEF Init, OnStack
<1>3. TypeOK
  BY <1>1 DEF Init, TypeOK, WorkerPC, OnStack
<1>4. DispatcherOK /\ TargetOK
  BY DEF Init, DispatcherOK, TargetOK, OnStack
<1>5. StackedIsFree
  <2>1. \A i, j \in 1 .. INIT_SIZE : i # j => stack[i] # stack[j]
    BY DEF Init
  <2>2. \A i \in 1 .. Len(stack) : target[stack[i]] = NoJob
    BY <1>2 DEF Init
  <2>3. disp.at = "accept"
    BY DEF Init
  <2>4. QED
    BY <1>1, <1>2, <2>1, <2>2, <2>3 DEF StackedIsFree
<1>6. OneWorkerPerJob
  BY DEF Init, OneWorkerPerJob
<1>7. QED
  BY <1>3, <1>4, <1>5, <1>6 DEF IInv

-----------------------------------------------------------------------------
(* One lemma per action.                                                   *)

LEMMA AcceptStep ==
  ASSUME IInv, NEW j \in Job, Accept(j) PROVE IInv'
<1> USE PoolAssumption DEF IInv
<1>1. TypeOK'
  BY DEF TypeOK, Accept
<1>2. DispatcherOK' /\ TargetOK' /\ StackedIsFree' /\ OneWorkerPerJob'
  BY DEF TypeOK, Accept, DispatcherOK, TargetOK, StackedIsFree, OneWorkerPerJob
<1>3. QED
  BY <1>1, <1>2

LEMMA TakeStep ==
  ASSUME IInv, TakeWorker PROVE IInv'
<1> USE PoolAssumption DEF IInv
<1>1. CASE stack = << >>
  <2>1. PICK w \in Worker :
          /\ Instantiate(w)
          /\ disp' = [disp EXCEPT !.at = "fill", !.worker = w]
    BY <1>1 DEF TakeWorker
  <2>2. /\ stack' = stack /\ job' = job
        /\ pc' = [pc EXCEPT ![w] = "test"]
        /\ target' = [target EXCEPT ![w] = NoJob]
        /\ flag' = [flag EXCEPT ![w] = TRUE]
        /\ pc[w] = "none"
        /\ disp.at = "take"
    BY <1>1, <2>1 DEF TakeWorker, Instantiate
  <2>3. Len(stack) = 0
    BY <1>1
  <2>4. TypeOK'
    BY <2>1, <2>2 DEF TypeOK, WorkerPC
  <2>5. DispatcherOK' /\ TargetOK'
    BY <2>1, <2>2 DEF TypeOK, DispatcherOK, TargetOK, Waiting
  <2>6. StackedIsFree'
    BY <2>2, <2>3 DEF StackedIsFree
  <2>7. OneWorkerPerJob'
    <3>1. disp'.at = "fill" /\ disp'.job = disp.job
      BY <2>1 DEF TypeOK
    <3>2. \A v \in Worker : target'[v] = target[v]
      BY <2>2 DEF TypeOK, TargetOK
    <3>3. QED
      BY <2>2, <3>1, <3>2 DEF OneWorkerPerJob
  <2>8. QED
    BY <2>4, <2>5, <2>6, <2>7
<1>2. CASE stack # << >>
  <2>1. /\ disp.at = "take"
        /\ disp' = [disp EXCEPT !.at = "fill", !.worker = stack[Len(stack)]]
        /\ stack' = SubSeq(stack, 1, Len(stack) - 1)
        /\ pc' = pc /\ target' = target /\ flag' = flag /\ job' = job
    BY <1>2 DEF TakeWorker
  <2>2. stack \in Seq(Worker)
    BY DEF TypeOK
  <2>3. /\ Len(stack) \in Nat /\ Len(stack) >= 1
        /\ stack[Len(stack)] \in Worker
        /\ stack' \in Seq(Worker)
        /\ Len(stack') = Len(stack) - 1
        /\ \A i \in 1 .. (Len(stack) - 1) : stack'[i] = stack[i]
    BY <1>2, <2>1, <2>2, PopFacts
  <2>4. /\ pc[stack[Len(stack)]] \in Waiting
        /\ target[stack[Len(stack)]] = NoJob
    BY <2>3 DEF StackedIsFree, Waiting
  <2>5. disp'.at = "fill" /\ disp'.worker = stack[Len(stack)] /\ disp'.job = disp.job
    BY <2>1 DEF TypeOK
  <2>6. TypeOK'
    <3>1. disp' \in [at : {"accept", "take", "fill", "notify"},
                     job : Job \cup {NoJob}, worker : Worker \cup {NoWorker}]
      BY <2>1, <2>3 DEF TypeOK
    <3>2. QED
      BY <2>1, <2>3, <3>1 DEF TypeOK
  <2>7. DispatcherOK' /\ TargetOK'
    BY <2>1, <2>3, <2>4, <2>5 DEF DispatcherOK, TargetOK
  <2>8. \A i \in 1 .. Len(stack') : i \in 1 .. Len(stack) /\ i # Len(stack) /\ stack'[i] = stack[i]
    BY <2>3
  <2>9. StackedIsFree'
    <3>1. Len(stack) \in 1 .. Len(stack)
      BY <2>3
    <3>2. \A i \in 1 .. Len(stack') : stack'[i] # stack[Len(stack)]
      BY <2>8, <3>1 DEF StackedIsFree
    <3>3. \A i, j \in 1 .. Len(stack') : stack'[i] = stack'[j] => i = j
      BY <2>8 DEF StackedIsFree
    <3>4. \A i \in 1 .. Len(stack') :
            /\ pc'[stack'[i]] \in {"test", "wait", "asleep"}
            /\ target'[stack'[i]] = NoJob
      BY <2>1, <2>8 DEF StackedIsFree
    <3>5. QED
      BY <2>5, <3>2, <3>3, <3>4 DEF StackedIsFree
  <2>10. OneWorkerPerJob'
    BY <2>1, <2>5 DEF OneWorkerPerJob
  <2>11. QED
    BY <2>6, <2>7, <2>9, <2>10
<1>3. QED
  BY <1>1, <1>2

LEMMA FillStep ==
  ASSUME IInv, FillTarget PROVE IInv'
<1> USE PoolAssumption DEF IInv
<1>1. /\ disp.at = "fill" /\ disp.worker \in Worker /\ disp.job \in Job
      /\ target' = [target EXCEPT ![disp.worker] = disp.job]
      /\ disp' = [disp EXCEPT !.at = "notify"]
      /\ pc' = pc /\ flag' = flag /\ stack' = stack /\ job' = job
      /\ disp'.at = "notify" /\ disp'.worker = disp.worker /\ disp'.job = disp.job
  BY DEF FillTarget, DispatcherOK, TypeOK
<1>2. TypeOK'
  BY <1>1 DEF TypeOK
<1>3. DispatcherOK' /\ TargetOK'
  BY <1>1 DEF TypeOK, DispatcherOK, TargetOK, Waiting
<1>4. StackedIsFree'
  <2>1. \A i \in 1 .. Len(stack) : stack[i] \in Worker /\ stack[i] # disp.worker
    BY <1>1 DEF TypeOK, StackedIsFree
  <2>2. \A i \in 1 .. Len(stack) : target'[stack[i]] = target[stack[i]]
    BY <1>1, <2>1 DEF TypeOK
  <2>3. QED
    BY <1>1, <2>2 DEF StackedIsFree
<1>5. OneWorkerPerJob'
  BY <1>1 DEF TypeOK, OneWorkerPerJob
<1>6. QED
  BY <1>2, <1>3, <1>4, <1>5

LEMMA NotifyStep ==
  ASSUME IInv, Notify PROVE IInv'
<1> USE PoolAssumption DEF IInv
<1>1. /\ disp.worker \in Worker
      /\ disp' = [at |-> "accept", job |-> NoJob, worker |-> NoWorker]
      /\ target' = target /\ flag' = flag /\ stack' = stack /\ job' = job
      /\ pc' \in [Worker -> WorkerPC]
      /\ \A w \in Worker : \/ pc'[w] = pc[w]
                           \/ pc[w] = "asleep" /\ pc'[w] = "test"
  BY DEF Notify, DispatcherOK, TypeOK, WorkerPC
<1>2. TypeOK'
  BY <1>1 DEF TypeOK
<1>3. DispatcherOK' /\ TargetOK'
  BY <1>1 DEF DispatcherOK, TargetOK
<1>4. StackedIsFree'
  BY <1>1 DEF StackedIsFree, TypeOK
<1>5. OneWorkerPerJob'
  BY <1>1 DEF OneWorkerPerJob
<1>6. QED
  BY <1>2, <1>3, <1>4, <1>5

\* A worker's step that leaves the stack and the targets alone and keeps the
\* thread among the waiting ones, or starts a filled one, keeps IInv.
LEMMA TestStep ==
  ASSUME IInv, NEW w \in Worker, TestTarget(w) \/ Wait(w) PROVE IInv'
<1> USE PoolAssumption DEF IInv
<1>1. /\ target' = target /\ stack' = stack /\ disp' = disp
      /\ pc[w] \in Waiting
      /\ pc' \in [Worker -> WorkerPC]
      /\ pc'[w] \in Waiting \/ (pc'[w] = "run" /\ target[w] # NoJob)
      /\ \A v \in Worker \ {w} : pc'[v] = pc[v]
  BY DEF TestTarget, Wait, TypeOK, WorkerPC, Waiting
<1>2. flag' \in [Worker -> BOOLEAN]
  BY DEF TestTarget, Wait, TypeOK
<1>3. job' \in [Job -> {"closed", "accepted", "running"}]
  BY DEF TestTarget, Wait, TypeOK
<1>4. TypeOK'
  BY <1>1, <1>2, <1>3 DEF TypeOK
<1>5. DispatcherOK' /\ TargetOK'
  BY <1>1 DEF DispatcherOK, TargetOK, Waiting
<1>6. StackedIsFree'
  BY <1>1 DEF StackedIsFree, TypeOK, Waiting
<1>7. OneWorkerPerJob'
  BY <1>1 DEF OneWorkerPerJob
<1>8. QED
  BY <1>4, <1>5, <1>6, <1>7

LEMMA FinishStep ==
  ASSUME IInv, NEW w \in Worker, Finish(w) \/ Die(w) \/ ClearTarget(w) PROVE IInv'
<1> USE PoolAssumption DEF IInv
<1>1. /\ stack' = stack /\ disp' = disp
      /\ pc[w] \in {"run", "clear"}
      /\ pc' \in [Worker -> WorkerPC]
      /\ target' \in [Worker -> Job \cup {NoJob}]
      /\ \/ pc'[w] = "clear" /\ target'[w] = target[w] /\ target[w] # NoJob
         \/ pc'[w] \in {"none", "return"} /\ target'[w] = NoJob
      /\ \A v \in Worker \ {w} : pc'[v] = pc[v] /\ target'[v] = target[v]
  BY DEF Finish, Die, ClearTarget, TypeOK, WorkerPC, TargetOK
<1>2. flag' \in [Worker -> BOOLEAN]
  BY DEF Finish, Die, ClearTarget, TypeOK
<1>3. job' \in [Job -> {"closed", "accepted", "running"}]
  <2>1. job' = job \/ job' = [job EXCEPT ![target[w]] = "closed"]
    BY DEF Finish, Die, ClearTarget
  <2>2. QED
    BY <2>1 DEF TypeOK
<1>4. TypeOK'
  BY <1>1, <1>2, <1>3 DEF TypeOK
<1>5. DispatcherOK' /\ TargetOK'
  BY <1>1 DEF DispatcherOK, TargetOK, Waiting
<1>6. StackedIsFree'
  BY <1>1 DEF StackedIsFree, TypeOK
<1>7. OneWorkerPerJob'
  <2>1. \A v \in Worker : target'[v] = target[v] \/ target'[v] = NoJob
    BY <1>1
  <2>2. disp.at \in {"take", "fill"} => disp.job # NoJob
    BY DEF DispatcherOK
  <2>3. QED
    BY <1>1, <2>1, <2>2 DEF OneWorkerPerJob
<1>8. QED
  BY <1>4, <1>5, <1>6, <1>7

LEMMA ReturnStep ==
  ASSUME IInv, NEW w \in Worker, Return(w) PROVE IInv'
<1> USE PoolAssumption DEF IInv
<1>1. /\ target' = target /\ flag' = flag /\ disp' = disp /\ job' = job
      /\ pc[w] = "return" /\ target[w] = NoJob
  BY DEF Return, TargetOK
<1>2. stack \in Seq(Worker) /\ \A i \in 1 .. Len(stack) : stack[i] \in Worker /\ stack[i] # w
  BY <1>1 DEF TypeOK, StackedIsFree
<1>3. CASE stack' = Append(stack, w) /\ pc' = [pc EXCEPT ![w] = "test"]
  <2>1. /\ stack' \in Seq(Worker) /\ Len(stack') = Len(stack) + 1
        /\ \A i \in 1 .. Len(stack) : stack'[i] = stack[i]
        /\ stack'[Len(stack) + 1] = w
    BY <1>2, <1>3
  <2>2. /\ pc' \in [Worker -> WorkerPC] /\ pc'[w] = "test"
        /\ \A v \in Worker \ {w} : pc'[v] = pc[v]
    BY <1>3 DEF TypeOK, WorkerPC
  <2>3. TypeOK'
    BY <1>1, <2>1, <2>2 DEF TypeOK
  <2>4. DispatcherOK' /\ TargetOK'
    BY <1>1, <2>2 DEF DispatcherOK, TargetOK, Waiting
  <2>5. \A i \in 1 .. Len(stack') : i = Len(stack) + 1 \/ i \in 1 .. Len(stack)
    BY <1>2, <2>1
  <2>6. disp.at = "fill" => w # disp.worker
    BY <1>1 DEF DispatcherOK, Waiting
  <2>7. ASSUME NEW i \in 1 .. Len(stack')
        PROVE  /\ pc'[stack'[i]] \in {"test", "wait", "asleep"}
               /\ target'[stack'[i]] = NoJob
               /\ disp'.at = "fill" => stack'[i] # disp'.worker
    <3>1. CASE i = Len(stack) + 1
      BY <1>1, <2>1, <2>2, <2>6, <3>1
    <3>2. CASE i \in 1 .. Len(stack)
      BY <1>1, <1>2, <2>1, <2>2, <3>2 DEF StackedIsFree
    <3>3. QED
      BY <2>5, <3>1, <3>2
  <2>8. ASSUME NEW i \in 1 .. Len(stack'), NEW j \in 1 .. Len(stack'),
               stack'[i] = stack'[j]
        PROVE  i = j
    BY <1>2, <2>1, <2>5, <2>8 DEF StackedIsFree
  <2>9. StackedIsFree'
    BY <2>7, <2>8 DEF StackedIsFree
  <2>10. OneWorkerPerJob'
    BY <1>1 DEF OneWorkerPerJob
  <2>11. QED
    BY <2>3, <2>4, <2>9, <2>10
<1>4. CASE stack' = stack /\ pc' = [pc EXCEPT ![w] = "none"]
  <2>1. /\ pc' \in [Worker -> WorkerPC] /\ pc'[w] = "none"
        /\ \A v \in Worker \ {w} : pc'[v] = pc[v]
    BY <1>4 DEF TypeOK, WorkerPC
  <2>2. TypeOK'
    BY <1>1, <1>4, <2>1 DEF TypeOK
  <2>3. DispatcherOK' /\ TargetOK'
    BY <1>1, <2>1 DEF DispatcherOK, TargetOK, Waiting
  <2>4. StackedIsFree'
    BY <1>1, <1>2, <1>4, <2>1 DEF StackedIsFree
  <2>5. OneWorkerPerJob'
    BY <1>1 DEF OneWorkerPerJob
  <2>6. QED
    BY <2>2, <2>3, <2>4, <2>5
<1>5. QED
  BY <1>3, <1>4 DEF Return

\* A step that changes nothing keeps IInv.
LEMMA StutterStep ==
  ASSUME IInv, UNCHANGED vars PROVE IInv'
BY DEF IInv, vars, TypeOK, DispatcherOK, TargetOK, StackedIsFree, OneWorkerPerJob

LEMMA NextStep ==
  ASSUME IInv, [Next]_vars PROVE IInv'
BY AcceptStep, TakeStep, FillStep, NotifyStep, TestStep, FinishStep, ReturnStep,
   StutterStep DEF Next, Dispatch, WorkerStep

-----------------------------------------------------------------------------
\* The strengthened invariant holds in every reachable state of the pool.
THEOREM Invariance == Spec => []IInv
BY InitIInv, NextStep, PTL DEF Spec

\* ThreadPool#run() pops only threads that are alive, wait for a target and
\* have none, whatever the pool's sizes and the number of connections.
THEOREM PopsFreeThread == Spec => []StackedIsFree
<1>1. IInv => StackedIsFree
  BY DEF IInv
<1>2. QED
  BY Invariance, <1>1, PTL

\* No connection is served by two threads.
THEOREM ConnectionExclusive == Spec => []OneWorkerPerJob
<1>1. IInv => OneWorkerPerJob
  BY DEF IInv
<1>2. QED
  BY Invariance, <1>1, PTL

\* AThread#run(Runnable) never overwrites a target that has yet to run.
THEOREM NoConnectionLost == Spec => TargetKept
<1> DEFINE Kept(w) == target[w] # NoJob /\ pc[w] \in {"test", "wait", "asleep"}
                        => target'[w] = target[w]
<1>1. ASSUME IInv, Next, NEW w \in Worker PROVE Kept(w)
  <2> USE <1>1 DEF IInv
  <2>1. CASE FillTarget
    BY <2>1 DEF FillTarget, DispatcherOK, TypeOK
  <2>2. ASSUME NEW v \in Worker, WorkerStep(v) PROVE Kept(w)
    BY <2>2 DEF WorkerStep, TestTarget, Wait, Finish, Die, ClearTarget, Return, TypeOK
  <2>3. CASE TakeWorker
    BY <2>3 DEF TakeWorker, Instantiate, TypeOK
  <2>4. CASE Notify
    BY <2>4 DEF Notify
  <2>5. ASSUME NEW j \in Job, Accept(j) PROVE Kept(w)
    BY <2>5 DEF Accept
  <2>6. QED
    BY <2>1, <2>2, <2>3, <2>4, <2>5 DEF Next, Dispatch
<1>2. ASSUME IInv, [Next]_vars
      PROVE [\A w \in Worker : Kept(w)]_vars
  BY <1>1, <1>2
<1>3. QED
  BY Invariance, <1>2, PTL DEF Spec, TargetKept

\* Only the constructor and Return() grow the stack.
LEMMA IdleBoundStep ==
  ASSUME IInv, IdleBound, [Next]_vars PROVE IdleBound'
<1> USE PoolAssumption DEF IInv, TypeOK, IdleBound
<1>1. ASSUME NEW w \in Worker, Return(w) PROVE IdleBound'
  BY <1>1 DEF Return
<1>2. CASE TakeWorker
  <2>1. CASE stack = << >>
    BY <1>2, <2>1 DEF TakeWorker
  <2>2. CASE stack # << >>
    <3>1. stack' = SubSeq(stack, 1, Len(stack) - 1)
      BY <1>2, <2>2 DEF TakeWorker
    <3>2. Len(stack) \in Nat /\ Len(stack') = Len(stack) - 1
      BY <2>2, <3>1, PopFacts
    <3>3. QED
      BY <3>2
  <2>3. QED
    BY <2>1, <2>2
<1>3. CASE stack' = stack
  BY <1>3
<1>4. QED
  BY <1>1, <1>2, <1>3 DEF Next, Dispatch, WorkerStep, TestTarget, Wait, Finish, Die,
     ClearTarget, FillTarget, Notify, Accept, vars

\* The test of the limit and the push are one synchronized section, so no
\* number of threads that return together makes the stack exceed MAX_SIZE.
THEOREM StackBounded == Spec => []IdleBound
<1>1. Init => IdleBound
  BY PoolAssumption DEF Init, IdleBound
<1>2. QED
  BY Invariance, IdleBoundStep, <1>1, PTL DEF Spec
=============================================================================
