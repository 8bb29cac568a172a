----------------------------- MODULE ThreadPool -----------------------------
(***************************************************************************)
(* The thread pool of the MetaVM server (ThreadPool.java): the server's    *)
(* main loop (MetaVMServer.java) hands each accepted connection to a       *)
(* worker AThread, which waits for its `target' field to be filled, runs   *)
(* the target and pushes itself back on the pool's stack.                  *)
(*                                                                         *)
(* A step is one synchronized section or one access to the shared field    *)
(* `target'.  Worker identities are reused once the thread has ended, as   *)
(* if a fresh object had been allocated.                                   *)
(***************************************************************************)
EXTENDS Integers, Sequences

CONSTANTS
  Worker,      \* the AThreads that can exist at a time
  Job,         \* Skeletons, the Runnables of accepted connections
  NoJob,       \* the null reference
  NoWorker,    \* the dispatcher has no thread in hand
  INIT_SIZE,   \* threads created with the pool
  MAX_SIZE     \* idle threads the stack may hold

ASSUME PoolAssumption ==
  /\ NoJob \notin Job
  /\ NoWorker \notin Worker
  /\ INIT_SIZE \in Nat
  /\ MAX_SIZE \in Nat
  /\ INIT_SIZE <= MAX_SIZE

VARIABLES
  pc,          \* where each worker is in AThread#run()
  target,      \* AThread.target
  flag,        \* the worker's remote flag, set and cleared by the hooks
  stack,       \* ThreadPool.stack; the last element is its top
  disp,        \* the main loop: its step, the connection and the thread it holds
  job          \* progress of each connection

vars == <<pc, target, flag, stack, disp, job>>

\* "none": no such thread; "test": about to read target; "wait": has seen null
\* and is about to wait(); "asleep": in wait(); "run": in target.run();
\* "clear": about to reset target; "return": about to push itself
WorkerPC == {"none", "test", "wait", "asleep", "run", "clear", "return"}

OnStack == {stack[i] : i \in 1 .. Len(stack)}

\* ThreadPool#instantiateAThread(): a new thread starts with the remote flag on
\* (metavm_init, generated at the head of Thread#run()) and target == null.
Instantiate(w) ==
  /\ pc[w] = "none"
  /\ pc' = [pc EXCEPT ![w] = "test"]
  /\ target' = [target EXCEPT ![w] = NoJob]
  /\ flag' = [flag EXCEPT ![w] = TRUE]

\* The constructor pushes INIT_SIZE new threads.
Init ==
  /\ stack \in {s \in [1 .. INIT_SIZE -> Worker] :
                  \A i, j \in 1 .. INIT_SIZE : i # j => s[i] # s[j]}
  /\ pc = [w \in Worker |-> IF w \in OnStack THEN "test" ELSE "none"]
  /\ target = [w \in Worker |-> NoJob]
  /\ flag = [w \in Worker |-> TRUE]
  /\ disp = [at |-> "accept", job |-> NoJob, worker |-> NoWorker]
  /\ job = [j \in Job |-> "closed"]

-----------------------------------------------------------------------------
(* The main loop of MetaVMServer#run() and ThreadPool#run(Runnable).       *)

\* servsock.accept() returns a connection, a new Skeleton is made for it.
Accept(j) ==
  /\ disp.at = "accept"
  /\ job[j] = "closed"
  /\ \A w \in Worker : target[w] # j
  /\ job' = [job EXCEPT ![j] = "accepted"]
  /\ disp' = [disp EXCEPT !.at = "take", !.job = j]
  /\ UNCHANGED <<pc, target, flag, stack>>

\* synchronized (stack): a new thread if the stack is empty, else its top.
TakeWorker ==
  /\ disp.at = "take"
  /\ \/ /\ stack = << >>
        /\ \E w \in Worker :
             /\ Instantiate(w)
             /\ disp' = [disp EXCEPT !.at = "fill", !.worker = w]
        /\ UNCHANGED stack
     \/ /\ stack # << >>
        /\ disp' = [disp EXCEPT !.at = "fill", !.worker = stack[Len(stack)]]
        /\ stack' = SubSeq(stack, 1, Len(stack) - 1)
        /\ UNCHANGED <<pc, target, flag>>
  /\ UNCHANGED job

\* AThread#run(Runnable): this.target = r, outside the monitor
FillTarget ==
  /\ disp.at = "fill"
  /\ target' = [target EXCEPT ![disp.worker] = disp.job]
  /\ disp' = [disp EXCEPT !.at = "notify"]
  /\ UNCHANGED <<pc, flag, stack, job>>

\* Mutant: another thread is tried when nobody was waiting
NotifyRetry ==
  /\ disp.at = "notify"
  /\ pc' = IF pc[disp.worker] = "asleep"
           THEN [pc EXCEPT ![disp.worker] = "test"] ELSE pc
  /\ disp' = IF pc[disp.worker] = "wait" THEN [disp EXCEPT !.at = "take"]
             ELSE [at |-> "accept", job |-> NoJob, worker |-> NoWorker]
  /\ UNCHANGED <<target, flag, stack, job>>

\* synchronized (this) { this.notify(); }, then back to accept()
Notify ==
  /\ disp.at = "notify"
  /\ pc' = IF pc[disp.worker] = "asleep"
           THEN [pc EXCEPT ![disp.worker] = "test"] ELSE pc
  /\ disp' = [at |-> "accept", job |-> NoJob, worker |-> NoWorker]
  /\ UNCHANGED <<target, flag, stack, job>>

-----------------------------------------------------------------------------
(* AThread#run().                                                          *)

\* while (target == null): leave the loop and call runHook(), or go on to wait.
TestTarget(w) ==
  /\ pc[w] = "test"
  /\ \/ /\ target[w] = NoJob
        /\ pc' = [pc EXCEPT ![w] = "wait"]
        /\ UNCHANGED <<flag, job>>
     \/ /\ target[w] # NoJob
        /\ pc' = [pc EXCEPT ![w] = "run"]
        /\ flag' = [flag EXCEPT ![w] = TRUE]
        /\ job' = [job EXCEPT ![target[w]] = "running"]
  /\ UNCHANGED <<target, stack, disp>>

\* Mutant: target is reset before the thread waits
WaitReset(w) ==
  /\ pc[w] = "wait"
  /\ pc' = [pc EXCEPT ![w] = "asleep"]
  /\ target' = [target EXCEPT ![w] = NoJob]
  /\ UNCHANGED <<flag, stack, disp, job>>

\* synchronized (this) { this.wait(); }
Wait(w) ==
  /\ pc[w] = "wait"
  /\ pc' = [pc EXCEPT ![w] = "asleep"]
  /\ UNCHANGED <<target, flag, stack, disp, job>>

\* target.run() returns or throws an Exception: doneHook() in both cases.
Finish(w) ==
  /\ pc[w] = "run"
  /\ pc' = [pc EXCEPT ![w] = "clear"]
  /\ flag' = [flag EXCEPT ![w] = FALSE]
  /\ job' = [job EXCEPT ![target[w]] = "closed"]
  /\ UNCHANGED <<target, stack, disp>>

\* target.run() throws an Error, which nothing catches: the thread ends and
\* never returns to the pool; its object is garbage.
Die(w) ==
  /\ pc[w] = "run"
  /\ pc' = [pc EXCEPT ![w] = "none"]
  /\ target' = [target EXCEPT ![w] = NoJob]
  /\ job' = [job EXCEPT ![target[w]] = "closed"]
  /\ UNCHANGED <<flag, stack, disp>>

\* Mutant: the thread is pushed before target is reset
PushBeforeClear(w) ==
  /\ pc[w] = "clear"
  /\ pc' = [pc EXCEPT ![w] = "return"]
  /\ stack' = Append(stack, w)
  /\ UNCHANGED <<target, flag, disp, job>>

\* this.target = null
ClearTarget(w) ==
  /\ pc[w] = "clear"
  /\ target' = [target EXCEPT ![w] = NoJob]
  /\ pc' = [pc EXCEPT ![w] = "return"]
  /\ UNCHANGED <<flag, stack, disp, job>>

\* Mutant: the limit is off by one
PushOneMore(w) ==
  /\ pc[w] = "return"
  /\ stack' = IF Len(stack) <= MAX_SIZE THEN Append(stack, w) ELSE stack
  /\ pc' = [pc EXCEPT ![w] = IF Len(stack) <= MAX_SIZE THEN "test" ELSE "none"]
  /\ UNCHANGED <<target, flag, disp, job>>

\* synchronized (stack): push this thread, or end it if the stack is full
Return(w) ==
  /\ pc[w] = "return"
  /\ \/ /\ Len(stack) < MAX_SIZE
        /\ stack' = Append(stack, w)
        /\ pc' = [pc EXCEPT ![w] = "test"]
     \/ /\ Len(stack) >= MAX_SIZE
        /\ pc' = [pc EXCEPT ![w] = "none"]
        /\ UNCHANGED stack
  /\ UNCHANGED <<target, flag, disp, job>>

WorkerStep(w) ==
  \/ TestTarget(w)
  \/ Wait(w)
  \/ Finish(w)
  \/ Die(w)
  \/ ClearTarget(w)
  \/ Return(w)

Dispatch == TakeWorker \/ FillTarget \/ Notify

Next ==
  \/ \E j \in Job : Accept(j)
  \/ Dispatch
  \/ \E w \in Worker : WorkerStep(w)

\* The main loop and every thread are scheduled; a served connection ends.
\* Nothing makes a client connect.
Fairness ==
  /\ WF_vars(Dispatch)
  /\ \A w \in Worker : WF_vars(WorkerStep(w))

Spec == Init /\ [][Next]_vars /\ Fairness

-----------------------------------------------------------------------------
(* Properties.                                                             *)

\* Types of the pool's state.
TypeOK ==
  /\ pc \in [Worker -> WorkerPC]
  /\ target \in [Worker -> Job \cup {NoJob}]
  /\ flag \in [Worker -> BOOLEAN]
  /\ stack \in Seq(Worker)
  /\ disp \in [at : {"accept", "take", "fill", "notify"},
               job : Job \cup {NoJob}, worker : Worker \cup {NoWorker}]
  /\ job \in [Job -> {"closed", "accepted", "running"}]

\* A thread on the stack is alive, has finished its last connection and is
\* there once, so the thread pool.run() pops is free: nothing in
\* AThread#run(Runnable) checks that target is null before overwriting it.
StackedIsFree ==
  /\ \A i \in 1 .. Len(stack) :
       /\ pc[stack[i]] \in {"test", "wait", "asleep"}
       /\ target[stack[i]] = NoJob
       /\ disp.at = "fill" => stack[i] # disp.worker
  /\ \A i, j \in 1 .. Len(stack) : stack[i] = stack[j] => i = j

\* A connection is served by the thread it was given to, and by no other: no
\* two target fields hold the same connection, nor one pool.run() still holds.
OneWorkerPerJob ==
  /\ \A v, w \in Worker :
       (v # w /\ target[v] # NoJob) => target[v] # target[w]
  /\ disp.at \in {"take", "fill"} => \A w \in Worker : target[w] # disp.job

\* The stack never holds more than MAX_SIZE idle threads.
IdleBound == Len(stack) <= MAX_SIZE

\* A connection handed to a thread is not lost: nobody overwrites a target
\* that has not been run ([ThreadPool.java:96]).
TargetKept ==
  [][\A w \in Worker : target[w] # NoJob /\ pc[w] \in {"test", "wait", "asleep"}
       => target'[w] = target[w]]_vars

\* A thread whose target is filled leaves its waiting loop
\* ([ThreadPool.java:105] "wait for Runnable target is filled").
FilledRuns ==
  \A w \in Worker :
    (target[w] # NoJob /\ pc[w] \in {"test", "wait", "asleep"}) ~> pc[w] = "run"
=============================================================================
