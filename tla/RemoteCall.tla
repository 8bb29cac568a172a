----------------------------- MODULE RemoteCall -----------------------------
(***************************************************************************)
(* Access to remote objects in MetaVM: threads of one virtual machine call *)
(* the methods of Proxy (Proxy.java, through the stubs of proxy.c), each   *)
(* Proxy talks over its own connection to a Skeleton (Skeleton.java), and  *)
(* a pool thread runs the Skeleton in the machine that has the object.     *)
(*                                                                         *)
(* A message is a record.  A step of a thread ends where it reads from the *)
(* connection; a step of a Skeleton ends where it reads, blocks, or        *)
(* touches the object after it has replied.                                *)
(***************************************************************************)
EXTENDS Integers, Sequences, Functions

CONSTANTS
  Thread,      \* client threads
  Proxy,       \* Proxy instances of the client machine
  Obj,         \* objects of the server machine
  Conn,        \* connections that can exist at a time
  Worker,      \* pool threads of the server
  Val,         \* contents of a field or an array element
  Null,
  LEN,         \* fields or elements of an object
  Uses,        \* the proxies each thread has a reference to
  Target,      \* the object each proxy stands for
  Locks,       \* the proxy whose monitor the program holds when it uses a proxy, or Null
  Programs,    \* records [ops, faults]: the operations a program performs, and what
               \* may happen to it ("drop", "expire", "unfit")
  Index,       \* array indexes it uses
  Block        \* records [i, n]: positions and lengths of array blocks it copies

Cell == 0 .. LEN - 1

ASSUME RemoteAssumption ==
  /\ LEN \in Nat \ {0}
  /\ Uses \in [Thread -> SUBSET Proxy]
  /\ Target \in [Proxy -> Obj]
  /\ Locks \in [Proxy -> Proxy \cup {Null}]
  /\ Null \notin Thread \cup Proxy \cup Obj \cup Conn \cup Worker \cup Val
  /\ \A p \in Programs : {p.ops, p.faults} \subseteq SUBSET STRING
  /\ Index \subseteq Int
  /\ Block \subseteq [i : Int, n : Int]

VARIABLES
  prog,      \* the program that runs
  sock,      \* Proxy.sock, with the streams made on it
  link,      \* connections: open or not, and what is on its way
  skel,      \* Skeletons: local state of run()
  heap,      \* contents of the objects
  mon,       \* monitors of the objects
  exported,  \* objects in the ExportTable
  thr,       \* client threads: local state of the Proxy method
  flag,      \* the remote flag of each client thread
  inside,    \* the proxy whose monitor each client thread has entered
  res,       \* outcome of each thread's last operation
  last,      \* history: contents as the returned operations leave them
  unsure     \* history: cells an operation that failed may or may not have written

vars == <<prog, sock, link, skel, heap, mon, exported, thr, flag, inside, res, last, unsure>>

\* The operations.  "copy" is getArrayCopy(i, n), and getObjCopy() as copy(0, -1);
\* "load" and "store" are aryBlockLoad() and aryBlockStore(); "invoke" calls a
\* method that replaces a cell and returns its old content, or throws.
Op(m, i, n, v) == [m |-> m, i |-> i, n |-> n, v |-> v]
AllOp ==
  {Op("get", i, 1, Null) : i \in Cell} \cup {Op("put", i, 1, v) : i \in Cell, v \in Val}
  \cup {Op("aload", i, 1, Null) : i \in Index} \cup {Op("astore", i, 1, v) : i \in Index, v \in Val}
  \cup {Op("invoke", i, 1, v) : i \in Cell, v \in Val}
  \cup {Op("copy", b.i, b.n, Null) : b \in Block} \cup {Op("load", b.i, b.n, Null) : b \in Block}
  \cup {Op("store", b.i, b.n, v) : b \in Block, v \in Val}
  \cup {Op(m, 0, 0, Null) : m \in {"enter", "exit", "close"}}
MyOp == {op \in AllOp : op.m \in prog.ops}
NoOp == Op("none", 0, 0, Null)

\* Only the requests that carry a value change the object.
Writes(op) == op.v # Null

\* A request names its operation; "reference" and the elements of a block
\* travel the same way.  Sender `by', and `to' of a reply, are for the properties only.
Request(t, op) == [op |-> op, by |-> t]
Reply(ok, vals, q) == [ok |-> ok, vals |-> vals, to |-> q]
Reference == Op("reference", 0, 0, Null)
Element(v) == Op("element", 0, 1, v)

Fresh == [up |-> FALSE, req |-> << >>, rep |-> << >>, buf |-> << >>]
NoSkel == [st |-> "gone", w |-> Null, obj |-> Null, op |-> NoOp, q |-> Null, k |-> 0, got |-> << >>]
AtApp == [pc |-> "app", p |-> Null, op |-> NoOp, k |-> 0, got |-> << >>]

S == INSTANCE SingleVM WITH mem <- last,
       holder <- [o \in Obj |->
         LET in == {t \in Thread : inside[t] # Null /\ Target[inside[t]] = o}
         IN IF in = {} THEN Null ELSE CHOOSE t \in in : TRUE]

Init ==
  /\ prog \in Programs
  /\ sock = [p \in Proxy |-> Null]
  /\ link = [c \in Conn |-> Fresh]
  /\ skel = [c \in Conn |-> NoSkel]
  /\ \E v \in Val : heap = [o \in Obj |-> [i \in Cell |-> v]]
  /\ mon = [o \in Obj |-> [owner |-> Null, n |-> 0]]
  /\ exported = Obj
  /\ thr = [t \in Thread |-> AtApp]
  /\ flag = [t \in Thread |-> TRUE]
  /\ inside = [t \in Thread |-> Null]
  /\ res = [t \in Thread |-> S!Normal(<< >>)]
  /\ last = heap
  /\ unsure = [o \in Obj |-> {}]

-----------------------------------------------------------------------------
(* The client: a thread in a method of Proxy.                              *)

\* Cells that block operation [i, n] covers (a negative n means to the end).
Span(op) == {c \in Cell : c >= op.i /\ (op.n < 0 \/ c < op.i + op.n)}

\* The checks that Proxy's methods make before they send a request.
\* aryBlockStore() leaves the check of the length to its caller.
Refused(op) ==
  \/ op.m \in {"copy", "load", "store"} /\ op.i \notin Cell
  \/ op.m \in {"copy", "load"} /\ op.n > LEN - op.i
  \/ op.m \in {"load", "store"} /\ op.n < 0

\* What the program does: it locks what it uses, and enters one monitor at a
\* time.  A proxy is finalized, by any thread, when nobody refers to it, whether
\* or not it has ever been connected.
Wants(t, p, op) ==
  \/ op.m = "enter" /\ inside[t] = Null
  \/ op.m = "exit" /\ inside[t] = p
  \/ /\ op.m = "close"
     /\ \A u \in Thread : inside[u] # p /\ thr[u].p # p
  \/ /\ op.m \notin {"enter", "exit", "close"}
     /\ Locks[p] \in {inside[t], Null}

\* The program performs op on p: compiled code sees the remote flag on and calls
\* the Proxy method, which clears the flag and connects if sock == null.
\* A thread is out of the monitor as soon as it asks to exit.
Call(t, p, op) ==
  /\ thr[t].pc = "app"
  /\ flag[t]
  /\ p \in Uses[t]
  /\ Wants(t, p, op)
  /\ thr' = [thr EXCEPT ![t] = [pc |-> IF sock[p] = Null THEN "open" ELSE "send",
                                p |-> p, op |-> op, k |-> 0, got |-> << >>]]
  /\ flag' = [flag EXCEPT ![t] = FALSE]
  /\ inside' = IF op.m = "exit" THEN [inside EXCEPT ![t] = Null] ELSE inside
  /\ UNCHANGED <<sock, link, skel, heap, mon, exported, res, last, unsure>>

\* establishConnection() and the REFERENCE request of reference().  The server
\* gives the connection to a thread of its pool.
Open(t) ==
  LET p == thr[t].p IN
  /\ thr[t].pc = "open"
  /\ thr[t].op.m # "close"
  /\ \E c \in Conn, w \in Worker :
       /\ skel[c] = NoSkel /\ ~link[c].up /\ \A q \in Proxy : sock[q] # c
       /\ \A d \in Conn : skel[d].w # w
       /\ sock' = [sock EXCEPT ![p] = c]
       /\ link' = [link EXCEPT ![c] = [Fresh EXCEPT !.up = TRUE, !.req = <<Request(t, Reference)>>]]
       /\ skel' = [skel EXCEPT ![c] = [NoSkel EXCEPT !.st = "idle", !.w = w]]
  /\ thr' = [thr EXCEPT ![t].pc = "ref"]
  /\ UNCHANGED <<heap, mon, exported, flag, inside, res, last, unsure>>

Wire(t) == sock[thr[t].p]

\* Normal return with the values read.  Only now is the effect certain to the
\* caller; the history records it, and that a Skeleton without an object has
\* acknowledged the write (NullAnswered and Put below).
Return(t, vals) ==
  LET op == thr[t].op o == Target[thr[t].p] IN
  /\ thr' = [thr EXCEPT ![t] = AtApp]
  /\ flag' = [flag EXCEPT ![t] = TRUE]
  /\ res' = [res EXCEPT ![t] = S!Normal(vals)]
  /\ inside' = IF op.m = "enter" THEN [inside EXCEPT ![t] = thr[t].p] ELSE inside
  /\ last' = IF Writes(op)
             THEN [last EXCEPT ![o] = [c \in Cell |-> IF c \in Span(op) THEN op.v ELSE @[c]]]
             ELSE last
  /\ unsure' = IF ~Writes(op) THEN unsure
               ELSE IF skel[Wire(t)].obj = Null THEN [unsure EXCEPT ![o] = @ \cup Span(op)]
               ELSE [unsure EXCEPT ![o] = @ \ Span(op)]

\* Mutant: an exit that does not restore the flag
ThrowNoRestore(t) ==
  /\ thr' = [thr EXCEPT ![t] = AtApp]
  /\ res' = [res EXCEPT ![t] = S!Abrupt]
  /\ UNCHANGED <<flag, inside, last, unsure>>

\* An exception that the Proxy method throws itself, with the flag restored.
Throw(t) ==
  /\ thr' = [thr EXCEPT ![t] = AtApp]
  /\ flag' = [flag EXCEPT ![t] = TRUE]
  /\ res' = [res EXCEPT ![t] = S!Abrupt]
  /\ UNCHANGED <<inside, last, unsure>>

\* An exception out of the streams, the socket or reference() leaves the flag off;
\* the stubs of proxy.c restore it, but proxy_monitorenter() and
\* proxy_monitorexit() do not, and finalize() has no finally clause.
Fail(t) ==
  LET op == thr[t].op o == Target[thr[t].p] IN
  /\ thr' = [thr EXCEPT ![t] = AtApp]
  /\ flag' = [flag EXCEPT ![t] = op.m \notin {"enter", "exit", "close"}]
  /\ res' = [res EXCEPT ![t] = S!Abrupt]
  /\ unsure' = IF Writes(op) THEN [unsure EXCEPT ![o] = @ \cup Span(op)] ELSE unsure
  /\ UNCHANGED <<inside, last>>

\* The socket cannot be made, sock stays null; or finalize() finds that the proxy
\* has no stream to send CLOSE on.
NotConnected(t) ==
  /\ thr[t].pc = "open"
  /\ thr[t].op.m = "close" \/ "drop" \in prog.faults
  /\ Fail(t)
  /\ UNCHANGED <<sock, link, skel, heap, mon, exported>>

\* The answer to REFERENCE.  After ERROR the method throws, sock stays non-null.
Referred(t) ==
  /\ thr[t].pc = "ref"
  /\ link[Wire(t)].rep # << >>
  /\ link' = [link EXCEPT ![Wire(t)].rep = Tail(@)]
  /\ \/ /\ Head(link[Wire(t)].rep).ok
        /\ thr' = [thr EXCEPT ![t].pc = "send"]
        /\ UNCHANGED <<flag, res, inside, last, unsure>>
     \/ /\ ~Head(link[Wire(t)].rep).ok
        /\ Fail(t)
  /\ UNCHANGED <<sock, skel, heap, mon, exported>>

\* Mutant: the request is put in front of what the buffer holds
SendUnordered(t) ==
  /\ thr[t].pc = "send"
  /\ ~Refused(thr[t].op)
  /\ link[Wire(t)].up
  /\ link' = [link EXCEPT ![Wire(t)].req = @ \o <<Request(t, thr[t].op)>>]
  /\ thr' = [thr EXCEPT ![t].pc = "wait"]
  /\ UNCHANGED <<flag, res, inside, last, unsure, sock, skel, heap, mon, exported>>

\* Range checks, then the request; flush() sends what an earlier block store
\* left in the buffer before it.
Send(t) ==
  /\ thr[t].pc = "send"
  /\ \/ /\ Refused(thr[t].op)
        /\ Throw(t)
        /\ UNCHANGED link
     \/ /\ ~Refused(thr[t].op)
        /\ link[Wire(t)].up
        /\ link' = [link EXCEPT ![Wire(t)].req = @ \o link[Wire(t)].buf \o <<Request(t, thr[t].op)>>,
                                ![Wire(t)].buf = << >>]
        /\ thr' = [thr EXCEPT ![t].pc = "wait"]
        /\ UNCHANGED <<flag, res, inside, last, unsure>>
  /\ UNCHANGED <<sock, skel, heap, mon, exported>>

\* The streams of a connection that is lost or closed throw IOException.  A
\* Proxy being finalized is gone in any case; its identity is used again.
Broken(t) ==
  /\ thr[t].pc \in {"ref", "send", "wait", "elems"}
  /\ ~link[Wire(t)].up
  /\ thr[t].pc # "send" => link[Wire(t)].rep = << >>
  /\ thr[t].pc = "elems" => thr[t].k < thr[t].op.n
  /\ Fail(t)
  /\ sock' = IF thr[t].op.m = "close" THEN [sock EXCEPT ![thr[t].p] = Null] ELSE sock
  /\ UNCHANGED <<link, skel, heap, mon, exported>>

\* The next reply on its connection is there for the thread to read.
Replied(t) == thr[t].pc = "wait" /\ link[Wire(t)].rep # << >>
Answered(t) == Head(link[Wire(t)].rep)

\* The reply of most operations: the result, or an exception to be thrown.
Receive(t) ==
  /\ Replied(t)
  /\ \/ ~Answered(t).ok /\ Throw(t)
     \/ /\ Answered(t).ok
        /\ thr[t].op.m \notin {"load", "store", "close"}
        /\ Return(t, Answered(t).vals)
  /\ link' = [link EXCEPT ![Wire(t)].rep = Tail(@)]
  /\ UNCHANGED <<sock, skel, heap, mon, exported>>

\* closeConnection(): CLOSE is received, sock is closed and reset.
ReceiveClose(t) ==
  /\ thr[t].op.m = "close"
  /\ Replied(t) /\ Answered(t).ok
  /\ Return(t, << >>)
  /\ link' = [link EXCEPT ![Wire(t)] = Fresh]
  /\ sock' = [sock EXCEPT ![thr[t].p] = Null]
  /\ UNCHANGED <<skel, heap, mon, exported>>

\* aryBlockStore(): after OK the elements are written and the method returns.
\* The stream sends some when its buffer is full; the rest stay in the buffer.
WriteElements(t) ==
  LET c == Wire(t)
      op == thr[t].op
      elems == [k \in 1 .. op.n |-> Request(t, Element(op.v))]
  IN
  /\ op.m = "store"
  /\ Replied(t) /\ Answered(t).ok
  /\ Return(t, << >>)
  /\ \E k \in 0 .. op.n :
       link' = [link EXCEPT ![c].rep = Tail(@),
                            ![c].req = @ \o SubSeq(elems, 1, k),
                            ![c].buf = SubSeq(elems, k + 1, op.n)]
  /\ UNCHANGED <<sock, skel, heap, mon, exported>>

\* aryBlockLoad(): OK, and the loop over the elements begins.
BeginElements(t) ==
  /\ thr[t].op.m = "load"
  /\ Replied(t) /\ Answered(t).ok
  /\ thr' = [thr EXCEPT ![t].pc = "elems"]
  /\ link' = [link EXCEPT ![Wire(t)].rep = Tail(@)]
  /\ UNCHANGED <<sock, skel, heap, mon, exported, flag, res, inside, last, unsure>>

\* aryBlockLoad(): one element, or the end of the loop
ReceiveElement(t) ==
  LET c == Wire(t) IN
  /\ thr[t].pc = "elems"
  /\ \/ /\ thr[t].k < thr[t].op.n
        /\ link[c].rep # << >>
        /\ link' = [link EXCEPT ![c].rep = Tail(@)]
        /\ thr' = [thr EXCEPT ![t].k = @ + 1, ![t].got = @ \o Head(link[c].rep).vals]
        /\ UNCHANGED <<flag, res, inside, last, unsure>>
     \/ /\ thr[t].k = thr[t].op.n
        /\ Return(t, thr[t].got)
        /\ UNCHANGED link
  /\ UNCHANGED <<sock, skel, heap, mon, exported>>

-----------------------------------------------------------------------------
(* The server: a pool thread in Skeleton#run().                            *)

cvars == <<sock, thr, flag, inside, res, last, unsure>>

\* The next request on connection c is one of ms, and the Skeleton reads it.
Reads(c, ms) ==
  /\ skel[c].st = "idle"
  /\ link[c].up
  /\ link[c].req # << >>
  /\ Head(link[c].req).op.m \in ms

\* The message is consumed; replies are sent.
Answer(c, replies) ==
  link' = [link EXCEPT ![c].req = Tail(@), ![c].rep = @ \o replies]

Query(c) == Head(link[c].req)
Asked(c) == Query(c).op

\* REFERENCE: the object is looked up in the export table.
ServeReference(c) ==
  LET o == Target[CHOOSE p \in Proxy : sock[p] = c] IN
  /\ Reads(c, {"reference"})
  /\ skel' = [skel EXCEPT ![c].obj = IF o \in exported THEN o ELSE Null]
  /\ Answer(c, <<Reply(o \in exported, << >>, Query(c))>>)
  /\ UNCHANGED <<cvars, heap, mon, exported>>

\* CLOSE: the reply, then close() and the end of run().
ServeClose(c) ==
  /\ Reads(c, {"close"})
  /\ Answer(c, <<Reply(TRUE, << >>, Query(c))>>)
  /\ skel' = [skel EXCEPT ![c] = NoSkel]
  /\ UNCHANGED <<cvars, heap, mon, exported>>

\* GET32FIELD ...: the value of the field
ServeGet(c) ==
  /\ Reads(c, {"get"})
  /\ skel[c].obj # Null
  /\ Answer(c, <<Reply(TRUE, <<heap[skel[c].obj][Asked(c).i]>>, Query(c))>>)
  /\ UNCHANGED <<cvars, skel, heap, mon, exported>>

\* ARYLOAD32 ...: null and the element, or the exception object
ServeArrayLoad(c) ==
  LET i == Asked(c).i IN
  /\ Reads(c, {"aload"})
  /\ skel[c].obj # Null
  /\ Answer(c, <<IF i \in Cell THEN Reply(TRUE, <<heap[skel[c].obj][i]>>, Query(c))
                 ELSE Reply(FALSE, << >>, Query(c))>>)
  /\ UNCHANGED <<cvars, skel, heap, mon, exported>>

\* PUT32FIELD ...: the reply is sent before the field is written; ERROR if the
\* class of an object to be written cannot be loaded.
ServePut(c) ==
  /\ Reads(c, {"put"})
  /\ \/ /\ Answer(c, <<Reply(TRUE, << >>, Query(c))>>)
        /\ skel' = [skel EXCEPT ![c].st = "put", ![c].op = Asked(c)]
     \/ /\ Answer(c, <<Reply(FALSE, << >>, Query(c))>>)
        /\ UNCHANGED skel
  /\ UNCHANGED <<cvars, heap, mon, exported>>

\* The connection is closed and run() ends; monitors stay as they are.
End(c) ==
  /\ skel' = [skel EXCEPT ![c] = NoSkel]
  /\ link' = [link EXCEPT ![c] = [@ EXCEPT !.up = FALSE, !.req = << >>, !.buf = << >>]]

\* Mutant: nothing is written once the connection is lost
PutIfConnected(c) ==
  LET op == skel[c].op o == skel[c].obj IN
  /\ skel[c].st = "put"
  /\ o # Null
  /\ heap' = IF link[c].up THEN [heap EXCEPT ![o][op.i] = op.v] ELSE heap
  /\ skel' = [skel EXCEPT ![c].st = "idle", ![c].op = NoOp]
  /\ UNCHANGED <<cvars, link, mon, exported>>

\* VMOperations.put32Field() ...
Put(c) ==
  LET op == skel[c].op o == skel[c].obj IN
  /\ skel[c].st = "put"
  /\ o # Null
  /\ heap' = [heap EXCEPT ![o][op.i] = op.v]
  /\ skel' = [skel EXCEPT ![c].st = "idle", ![c].op = NoOp]
  /\ UNCHANGED <<cvars, link, mon, exported>>

\* An access to the null object of a failed REFERENCE that throws: the exception is
\* not an IOException, so it leaves run() through the finally clause.  Of the array
\* accesses it is the ones to elements that are references, of the copies
\* GETARYCOPY.
NullAccess(c) ==
  /\ skel[c].obj = Null
  /\ \/ skel[c].st = "put"
     \/ Reads(c, {"get", "aload", "astore", "enter", "exit", "copy", "load", "store"})
  /\ End(c)
  /\ UNCHANGED <<cvars, heap, mon, exported>>

\* The accesses to the null object that do not throw.  elemsig is not set: ARYLOAD32
\* and 64 send null and 0, which is some value, ARYSTORE32 and 64 send null and have
\* written nothing, for any index.  GETOBJCOPY sends a null copy.
NullAnswered(c) ==
  /\ skel[c].obj = Null
  /\ \/ /\ Reads(c, {"aload"})
        /\ \E v \in Val : Answer(c, <<Reply(TRUE, <<v>>, Query(c))>>)
     \/ /\ Reads(c, {"astore"})
        /\ Answer(c, <<Reply(TRUE, << >>, Query(c))>>)
     \/ /\ Reads(c, {"copy"}) /\ Asked(c).n < 0
        /\ Answer(c, <<Reply(FALSE, << >>, Query(c))>>)
  /\ UNCHANGED <<cvars, skel, heap, mon, exported>>

\* ARYSTOREOBJ of a value whose class cannot be loaded or that the array cannot
\* have as an element: IOException or ArrayStoreException out of run().
Unfit(c) ==
  /\ "unfit" \in prog.faults
  /\ Reads(c, {"astore"})
  /\ End(c)
  /\ UNCHANGED <<cvars, heap, mon, exported>>

\* Mutant: the last element is not written
ServeArrayStoreShort(c) ==
  LET op == Asked(c) o == skel[c].obj IN
  /\ Reads(c, {"astore"})
  /\ o # Null
  /\ heap' = IF op.i + 1 \in Cell THEN [heap EXCEPT ![o][op.i] = op.v] ELSE heap
  /\ Answer(c, <<Reply(op.i \in Cell, << >>, Query(c))>>)
  /\ UNCHANGED <<cvars, skel, mon, exported>>

\* Mutant: null is sent after the exception too
ServeArrayStoreTwice(c) ==
  LET op == Asked(c) o == skel[c].obj IN
  /\ Reads(c, {"astore"})
  /\ o # Null
  /\ heap' = IF op.i \in Cell THEN [heap EXCEPT ![o][op.i] = op.v] ELSE heap
  /\ Answer(c, IF op.i \in Cell THEN <<Reply(TRUE, << >>, Query(c))>>
               ELSE <<Reply(FALSE, << >>, Query(c)), Reply(TRUE, << >>, Query(c))>>)
  /\ UNCHANGED <<cvars, skel, mon, exported>>

\* ARYSTORE32 ...: the element is written, then null is sent; or the exception.
ServeArrayStore(c) ==
  LET op == Asked(c) o == skel[c].obj IN
  /\ Reads(c, {"astore"})
  /\ o # Null
  /\ heap' = IF op.i \in Cell THEN [heap EXCEPT ![o][op.i] = op.v] ELSE heap
  /\ Answer(c, <<Reply(op.i \in Cell, << >>, Query(c))>>)
  /\ UNCHANGED <<cvars, skel, mon, exported>>

\* INVOKE: OK and the result, or ERROR and what the method has thrown; a null
\* object is one of the reasons to throw.
ServeInvoke(c) ==
  LET op == Asked(c) o == skel[c].obj IN
  /\ Reads(c, {"invoke"})
  /\ \/ /\ o # Null
        /\ heap' = [heap EXCEPT ![o][op.i] = op.v]
        /\ Answer(c, <<Reply(TRUE, <<heap[o][op.i]>>, Query(c))>>)
     \/ /\ Answer(c, <<Reply(FALSE, << >>, Query(c))>>)
        /\ UNCHANGED heap
  /\ UNCHANGED <<cvars, skel, mon, exported>>

\* MONITORENTER: the thread may have to wait for the monitor.
ServeEnter(c) ==
  /\ Reads(c, {"enter"})
  /\ skel[c].obj # Null
  /\ skel' = [skel EXCEPT ![c].st = "enter", ![c].q = Query(c)]
  /\ Answer(c, << >>)
  /\ UNCHANGED <<cvars, heap, mon, exported>>

\* Mutant: the thread does not wait for the monitor
EnterNoWait(c) ==
  LET o == skel[c].obj IN
  /\ skel[c].st = "enter"
  /\ mon' = [mon EXCEPT ![o] = [owner |-> skel[c].w, n |-> @.n + 1]]
  /\ link[c].up
  /\ link' = [link EXCEPT ![c].rep = Append(@, Reply(TRUE, << >>, skel[c].q))]
  /\ skel' = [skel EXCEPT ![c].st = "idle", ![c].q = Null]
  /\ UNCHANGED <<cvars, heap, exported>>

\* VMOperations.monitorEnter(): the monitor belongs to the pool thread, and is
\* re-entrant.  A reply into a lost connection fails and run() ends.
Enter(c) ==
  LET o == skel[c].obj IN
  /\ skel[c].st = "enter"
  /\ mon[o].owner \in {Null, skel[c].w}
  /\ mon' = [mon EXCEPT ![o] = [owner |-> skel[c].w, n |-> @.n + 1]]
  /\ \/ /\ link[c].up
        /\ link' = [link EXCEPT ![c].rep = Append(@, Reply(TRUE, << >>, skel[c].q))]
        /\ skel' = [skel EXCEPT ![c].st = "idle", ![c].q = Null]
     \/ /\ ~link[c].up
        /\ End(c)
  /\ UNCHANGED <<cvars, heap, exported>>

\* MONITOREXIT: released, then the reply; the error that MonitorExit() returns to a
\* thread that is not the owner is ignored.
ServeExit(c) ==
  LET o == skel[c].obj IN
  /\ Reads(c, {"exit"})
  /\ o # Null
  /\ mon' = [mon EXCEPT ![o] = IF @.owner # skel[c].w THEN @
                               ELSE IF @.n = 1 THEN [owner |-> Null, n |-> 0]
                               ELSE [owner |-> @.owner, n |-> @.n - 1]]
  /\ Answer(c, <<Reply(TRUE, << >>, Query(c))>>)
  /\ UNCHANGED <<cvars, skel, heap, exported>>

\* Number of elements of a block, "normalize length".
Count(op) == IF op.n < 0 \/ op.n > LEN - op.i THEN LEN - op.i ELSE op.n

\* GETOBJCOPY, GETARYCOPY, ARYBLOCKLOAD and ARYBLOCKSTORE begin; the last two
\* send OK at once.
ServeBlock(c) ==
  LET op == Asked(c) IN
  /\ Reads(c, {"copy", "load", "store"})
  /\ skel[c].obj # Null
  /\ skel' = IF Count(op) = 0 THEN skel
             ELSE [skel EXCEPT ![c].st = "block", ![c].op = op, ![c].q = Query(c)]
  /\ Answer(c, IF op.m = "copy" /\ Count(op) > 0 THEN << >> ELSE <<Reply(TRUE, << >>, Query(c))>>)
  /\ UNCHANGED <<cvars, heap, mon, exported>>

\* After element k of a block the loop goes on, or the Skeleton is idle again.
Advance(c, got) ==
  LET sk == skel[c] IN
  skel' = [skel EXCEPT ![c] =
    IF sk.k + 1 < Count(sk.op) THEN [sk EXCEPT !.k = sk.k + 1, !.got = got]
    ELSE [sk EXCEPT !.st = "idle", !.op = NoOp, !.q = Null, !.k = 0, !.got = << >>]]

\* One element is read: ARYBLOCKLOAD sends it, the copy is sent when complete.
BlockRead(c) ==
  LET sk == skel[c]
      v == heap[sk.obj][sk.op.i + sk.k]
      got == IF sk.op.m = "copy" THEN Append(sk.got, v) ELSE << >>
      out == IF sk.op.m = "load" THEN <<Reply(TRUE, <<v>>, sk.q)>>
             ELSE IF sk.k + 1 = Count(sk.op) THEN <<Reply(TRUE, got, sk.q)>> ELSE << >>
  IN
  /\ sk.st = "block" /\ sk.op.m # "store"
  /\ link[c].up
  /\ link' = [link EXCEPT ![c].rep = @ \o out]
  /\ Advance(c, got)
  /\ UNCHANGED <<cvars, heap, mon, exported>>

\* ARYBLOCKSTORE: one element is received and written.
BlockWrite(c) ==
  LET sk == skel[c] IN
  /\ sk.st = "block" /\ sk.op.m = "store"
  /\ link[c].up
  /\ link[c].req # << >>
  /\ Asked(c).m = "element"
  /\ heap' = [heap EXCEPT ![sk.obj][sk.op.i + sk.k] = Asked(c).v]
  /\ Answer(c, << >>)
  /\ Advance(c, << >>)
  /\ UNCHANGED <<cvars, mon, exported>>

\* A read or write on a lost connection: IOException ends run().
Lost(c) ==
  /\ skel[c].st \in {"idle", "block"}
  /\ ~link[c].up
  /\ End(c)
  /\ UNCHANGED <<cvars, heap, mon, exported>>

-----------------------------------------------------------------------------
(* The environment.                                                        *)

\* A connection breaks, with all it carries.  Elements of a block store that has
\* returned may be among it.
Drop(c) ==
  LET ps == {p \in Proxy : sock[p] = c}
      elems == {r \in Range(link[c].req \o link[c].buf) : r.op.m = "element"}
  IN
  /\ "drop" \in prog.faults
  /\ link[c].up
  /\ link' = [link EXCEPT ![c] = Fresh]
  /\ unsure' = IF elems = {} THEN unsure
               ELSE [o \in Obj |-> IF \E p \in ps : Target[p] = o THEN Cell ELSE unsure[o]]
  /\ UNCHANGED <<sock, thr, flag, inside, res, last, skel, heap, mon, exported>>

\* ExportTable.expire(): the lease has run out.
Expire(o) ==
  /\ "expire" \in prog.faults
  /\ exported' = exported \ {o}
  /\ UNCHANGED <<cvars, link, skel, heap, mon>>

\* ExportTable.register(): a reference to the object is passed again.
Register(o) ==
  /\ "expire" \in prog.faults
  /\ exported' = exported \cup {o}
  /\ UNCHANGED <<cvars, link, skel, heap, mon>>

-----------------------------------------------------------------------------

Client(t) ==
  \/ Open(t) \/ NotConnected(t) \/ Referred(t) \/ Send(t) \/ Broken(t) \/ Receive(t) \/ ReceiveClose(t)
  \/ WriteElements(t) \/ BeginElements(t) \/ ReceiveElement(t)

Server(c) ==
  \/ ServeReference(c) \/ ServeClose(c) \/ ServeGet(c) \/ ServeArrayLoad(c) \/ ServePut(c) \/ Put(c)
  \/ NullAccess(c) \/ NullAnswered(c) \/ Unfit(c) \/ ServeArrayStore(c) \/ ServeInvoke(c)
  \/ ServeEnter(c) \/ Enter(c)
  \/ ServeExit(c) \/ ServeBlock(c) \/ BlockRead(c) \/ BlockWrite(c) \/ Lost(c)

Next ==
  /\ \/ \E t \in Thread : Client(t) \/ \E p \in Proxy, op \in MyOp : Call(t, p, op)
     \/ \E c \in Conn : Server(c) \/ Drop(c)
     \/ \E o \in Obj : Expire(o) \/ Register(o)
  /\ UNCHANGED prog

Spec == Init /\ [][Next]_vars

\* Threads of both machines are scheduled fairly.  Nothing is assumed of Call:
\* a program need not go on.
FairSpec ==
  /\ Spec
  /\ \A t \in Thread : WF_vars(Client(t) /\ UNCHANGED prog)
  /\ \A c \in Conn : WF_vars(Server(c) /\ UNCHANGED prog)

-----------------------------------------------------------------------------
(* Properties.                                                             *)

\* A thread reads the reply to its own request: no reply is left over from an
\* earlier operation on the connection, none is taken by another thread.
ReplyMatches ==
  \A t \in Thread :
    (thr[t].pc \in {"ref", "wait", "elems"} /\ link[Wire(t)].rep # << >>)
      => Head(link[Wire(t)].rep).to = Request(t, IF thr[t].pc = "ref" THEN Reference ELSE thr[t].op)

\* Skeleton#run() takes a byte for a request only where a request begins: it
\* never finds an element of a block there, nor a request inside a block.
InStep ==
  \A c \in Conn : (link[c].up /\ link[c].req # << >>) =>
    /\ skel[c].st = "idle" => Asked(c).m # "element"
    /\ (skel[c].st = "block" /\ skel[c].op.m = "store") => Asked(c).m = "element"

\* Two client threads are never inside the monitor of one object.
MonitorExclusion ==
  \A t, u \in Thread :
    (t # u /\ inside[t] # Null /\ inside[u] # Null) => Target[inside[t]] # Target[inside[u]]

\* What returned operations have written is in the object, once the Skeletons
\* and their connections are quiet.  Left out are cells whose last writer got an
\* exception or was answered by a Skeleton whose REFERENCE had failed, and objects
\* whose connection broke with elements on their way.
Quiet ==
  /\ \A c \in Conn : skel[c].st \in {"idle", "gone"} /\ link[c].req = << >> /\ link[c].buf = << >>
  /\ \A t \in Thread : thr[t].pc = "app"

Landed == Quiet => \A o \in Obj : \A i \in Cell \ unsure[o] : heap[o][i] = last[o][i]

\* A thread that comes back from a method of Proxy, by whatever path, has its
\* remote flag on, so that the program does not take a proxy for the object.  The
\* exceptions are an exception out of entering or exiting a monitor, and out of
\* finalize().
FlagRestored ==
  [][\A t \in Thread : (thr[t].pc # "app" /\ thr'[t].pc = "app") =>
       flag'[t] \/ (thr[t].op.m \in {"enter", "exit", "close"} /\ res'[t] = S!Abrupt)]_vars

\* Remote objects behave like objects of the thread's own machine.
SingleVMSpec == S!Spec

\* An operation other than entering a monitor returns or throws.
CallReturns ==
  \A t \in Thread : (thr[t].pc # "app" /\ thr[t].op.m # "enter") ~> (thr[t].pc = "app")
=============================================================================
