-------------------------- MODULE RemoteCallProofs --------------------------
(***************************************************************************)
(* RemoteCall: the conversation of a Proxy and its Skeleton stays in step, *)
(* for any number of threads, proxies, objects and connections, any array  *)
(* length and any program, when connections break and leases expire too.   *)
(* Over connections that stay up, the monitors of remote objects exclude   *)
(* the threads of the client machine, although they belong to the pool     *)
(* threads of the server.                                                  *)
(***************************************************************************)
EXTENDS RemoteCall, SequenceTheorems, TLAPS

(* Hypotheses of the theorems.                                             *)

\* The methods of Proxy are not synchronized: each proxy is used by one thread.
Unshared == \A t, u \in Thread : t # u => Uses[t] \cap Uses[u] = {}

\* The callers of aryBlockStore() keep blocks inside the array.
StoresFit == \A b \in Block : b.i \in Cell => b.n <= LEN - b.i

-----------------------------------------------------------------------------
(* The inductive invariant.                                                *)

OpNames == {"get", "put", "aload", "astore", "invoke", "copy", "load", "store",
            "enter", "exit", "close"}
OpType == [m : OpNames \cup {"none", "reference", "element"},
           i : Int, n : Int, v : Val \cup {Null}]
RequestType == {r \in [op : OpType, by : Thread] : r.op.m = "element" => r.op.v \in Val}
ReplyType == [ok : BOOLEAN, vals : Seq(Val), to : RequestType]
LinkType == [up : BOOLEAN, req : Seq(RequestType), rep : Seq(ReplyType), buf : Seq(RequestType)]
SkelType == [st : {"gone", "idle", "put", "enter", "block"}, w : Worker \cup {Null},
             obj : Obj \cup {Null}, op : OpType, q : RequestType \cup {Null},
             k : Nat, got : Seq(Val)]
ThrType == [pc : {"app", "open", "ref", "send", "wait", "elems"}, p : Proxy \cup {Null},
            op : OpType, k : Nat, got : Seq(Val)]

\* Types of the state of both machines and of what is between them.
RemoteTypes ==
  /\ prog \in Programs
  /\ sock \in [Proxy -> Conn \cup {Null}]
  /\ link \in [Conn -> LinkType]
  /\ skel \in [Conn -> SkelType]
  /\ heap \in [Obj -> [Cell -> Val]]
  /\ thr \in [Thread -> ThrType]
  /\ inside \in [Thread -> Proxy \cup {Null}]

\* A thread in a Proxy method uses a proxy of its own, and has made the checks
\* and the connection that its place in the method implies.
ThrOK(t) ==
  thr[t].pc # "app" =>
    /\ thr[t].p \in Uses[t]
    /\ thr[t].op \in AllOp
    /\ thr[t].pc = "open" => sock[thr[t].p] = Null
    /\ thr[t].pc # "open" => sock[thr[t].p] \in Conn
    /\ thr[t].pc \in {"wait", "elems"} => ~Refused(thr[t].op)
    /\ thr[t].pc = "elems" => thr[t].op.m = "load" /\ thr[t].k <= thr[t].op.n
    /\ thr[t].pc # "elems" => thr[t].k = 0
ThreadOK == \A t \in Thread : ThrOK(t)

\* A connection belongs to one proxy, which has not forgotten one that is up.
SockOK ==
  /\ \A p, q \in Proxy : (sock[p] # Null /\ sock[p] = sock[q]) => p = q
  /\ \A c \in Conn : link[c].up => \E p \in Proxy : sock[p] = c

\* What run() has in its local variables while it executes a request.
SkelOK(K) ==
  /\ K.st = "gone" => K = NoSkel
  /\ K.st = "put" => K.op.i \in Cell /\ K.op.v \in Val
  /\ K.st \in {"enter", "block"} => K.obj \in Obj /\ K.q \in RequestType
  /\ K.st = "enter" => K.q.op.m = "enter"
  /\ K.st = "block" => /\ K.op.m \in {"copy", "load", "store"}
                       /\ K.op.i \in Cell
                       /\ K.k < Count(K.op)
  /\ K.st # "block" => K.k = 0 /\ K.got = << >>

IsElement(r) == r.op.m = "element"

\* The last message on its way to the Skeleton is a request.
Unread(L) == L.req # << >> /\ ~IsElement(L.req[Len(L.req)])

\* The Skeleton has a reply, or more, to send to the request it has read.
Replying(K) == K.st = "enter" \/ (K.st = "block" /\ K.op.m # "store")

\* Replies that a request causes, and those yet to be sent on a connection.
Replies(op) == IF op.m = "load" THEN op.n + 1 ELSE 1
ToCome(L, K) ==
  IF Unread(L) THEN Replies(L.req[Len(L.req)].op)
  ELSE IF K.st = "block" /\ K.op.m = "load" THEN Count(K.op) - K.k
  ELSE IF Replying(K) THEN 1 ELSE 0

\* Elements that a block store of the Skeleton has yet to read, and those that
\* the thread will write once it has read the reply to its block store.
Expected(K) == IF K.st = "block" /\ K.op.m = "store" THEN Count(K.op) - K.k ELSE 0
ToWrite(L, q) == IF q.op.m = "store" /\ L.rep # << >> THEN q.op.n ELSE 0

\* Nobody waits for a reply: there is none, nor any to come, and the Skeleton
\* will find the elements it expects.
Unwaited(L, K) ==
  /\ L.rep = << >>
  /\ \A i \in 1 .. Len(L.req) : IsElement(L.req[i])
  /\ \A i \in 1 .. Len(L.buf) : IsElement(L.buf[i])
  /\ L.up => ~Replying(K)
  /\ StoresFit /\ L.up => Expected(K) = Len(L.req) + Len(L.buf)

\* A thread waits for `left' replies to q: no other requests and replies are on
\* the connection, and as many replies arrive as it will read.
Waited(L, K, q, left) ==
  /\ L.buf = << >>
  /\ \A i \in 1 .. Len(L.rep) :
       L.rep[i].to = q /\ (q.op.m \in {"load", "store"} => L.rep[i].ok)
  /\ \A i \in 1 .. Len(L.req) : IsElement(L.req[i]) \/ (L.up /\ i = Len(L.req) /\ L.req[i] = q)
  /\ L.up /\ Replying(K) => /\ ~Unread(L)
                            /\ K.q = q
                            /\ K.st = "block" => K.op = q.op
  /\ IF L.up THEN left = Len(L.rep) + ToCome(L, K) ELSE Len(L.rep) <= left
  /\ StoresFit /\ L.up =>
       Expected(K) = Len(L.req) - (IF Unread(L) THEN 1 ELSE 0) + ToWrite(L, q)

\* The request a thread waits on, and the replies it has still to read.
Waiting(t, c) == thr[t].pc \in {"ref", "wait", "elems"} /\ sock[thr[t].p] = c
Mine(t) == Request(t, IF thr[t].pc = "ref" THEN Reference ELSE thr[t].op)
Left(t) == IF thr[t].pc = "elems" THEN thr[t].op.n - thr[t].k
           ELSE IF thr[t].pc = "wait" THEN Replies(thr[t].op) ELSE 1

ConnOK(c) ==
  /\ SkelOK(skel[c])
  /\ \A t \in Thread : Waiting(t, c) => Waited(link[c], skel[c], Mine(t), Left(t))
  /\ (\A t \in Thread : ~Waiting(t, c)) => Unwaited(link[c], skel[c])

Conversation == RemoteTypes /\ ThreadOK /\ SockOK /\ \A c \in Conn : ConnOK(c)

-----------------------------------------------------------------------------
(* Facts about the operators.                                              *)

\* What a queue is after its first element has been taken.
LEMMA TailFacts ==
  ASSUME NEW A, NEW s \in Seq(A), s # << >>
  PROVE  /\ Len(s) \in Nat /\ Len(s) >= 1
         /\ Head(s) = s[1] /\ Head(s) \in A
         /\ Tail(s) \in Seq(A)
         /\ Len(Tail(s)) = Len(s) - 1
         /\ \A i \in 1 .. Len(Tail(s)) : Tail(s)[i] = s[i + 1]
<1>1. Len(s) \in Nat /\ Len(s) >= 1
  OBVIOUS
<1>2. Head(s) = s[1] /\ Head(s) \in A
  BY <1>1
<1>3. /\ Tail(s) \in Seq(A)
      /\ Len(Tail(s)) = Len(s) - 1
      /\ \A i \in 1 .. Len(Tail(s)) : Tail(s)[i] = s[i + 1]
  BY <1>1
<1>4. QED
  BY <1>1, <1>2, <1>3

\* What a queue is after others have been put behind it.
LEMMA ConcatFacts ==
  ASSUME NEW A, NEW s \in Seq(A), NEW r \in Seq(A)
  PROVE  /\ s \o r \in Seq(A)
         /\ Len(s) \in Nat /\ Len(r) \in Nat
         /\ Len(s \o r) = Len(s) + Len(r)
         /\ \A i \in 1 .. Len(s) : (s \o r)[i] = s[i]
         /\ \A i \in 1 .. Len(r) : (s \o r)[Len(s) + i] = r[i]
         /\ \A i \in 1 .. Len(s \o r) : i \in 1 .. Len(s) \/ (i - Len(s)) \in 1 .. Len(r)
OBVIOUS

\* The operations that the program can ask for.
LEMMA OpFacts ==
  ASSUME NEW op \in AllOp
  PROVE  /\ op \in OpType
         /\ op.m \in OpNames
         /\ op.m \in {"get", "put", "invoke"} => op.i \in Cell
         /\ op.m \in {"put", "astore", "invoke", "store"} => op.v \in Val
         /\ op.m \notin {"put", "astore", "invoke", "store"} => op.v = Null
         /\ op.m \in {"copy", "load", "store"} => [i |-> op.i, n |-> op.n] \in Block
         /\ op.m \in {"get", "put", "aload", "astore", "invoke"} => op.n = 1
<1> DEFINE Facts(x) ==
             /\ x \in OpType
             /\ x.m \in OpNames
             /\ x.m \in {"get", "put", "invoke"} => x.i \in Cell
             /\ x.m \in {"put", "astore", "invoke", "store"} => x.v \in Val
             /\ x.m \notin {"put", "astore", "invoke", "store"} => x.v = Null
             /\ x.m \in {"copy", "load", "store"} => [i |-> x.i, n |-> x.n] \in Block
             /\ x.m \in {"get", "put", "aload", "astore", "invoke"} => x.n = 1
<1>0. Cell \subseteq Int /\ Index \subseteq Int
  BY RemoteAssumption DEF Cell
<1>1. \A i \in Cell :
        /\ Facts(Op("get", i, 1, Null))
        /\ \A v \in Val : Facts(Op("put", i, 1, v)) /\ Facts(Op("invoke", i, 1, v))
  BY <1>0 DEF Op, OpType, OpNames
<1>2. \A i \in Index :
        Facts(Op("aload", i, 1, Null)) /\ \A v \in Val : Facts(Op("astore", i, 1, v))
  BY <1>0 DEF Op, OpType, OpNames
<1>3. ASSUME NEW b \in Block
      PROVE  /\ Facts(Op("copy", b.i, b.n, Null)) /\ Facts(Op("load", b.i, b.n, Null))
             /\ \A v \in Val : Facts(Op("store", b.i, b.n, v))
  <2>1. b.i \in Int /\ b.n \in Int /\ [i |-> b.i, n |-> b.n] = b
    BY RemoteAssumption
  <2>2. QED
    BY <2>1 DEF Op, OpType, OpNames
<1>4. \A m \in {"enter", "exit", "close"} : Facts(Op(m, 0, 0, Null))
  BY DEF Op, OpType, OpNames
<1> HIDE DEF Facts
<1>5. Facts(op)
  <2>1. CASE op \in {Op("get", i, 1, Null) : i \in Cell}
    BY <1>1, <2>1
  <2>2. CASE op \in {Op("put", i, 1, v) : i \in Cell, v \in Val}
    BY <1>1, <2>2
  <2>3. CASE op \in {Op("aload", i, 1, Null) : i \in Index}
    BY <1>2, <2>3
  <2>4. CASE op \in {Op("astore", i, 1, v) : i \in Index, v \in Val}
    BY <1>2, <2>4
  <2>5. CASE op \in {Op("invoke", i, 1, v) : i \in Cell, v \in Val}
    BY <1>1, <2>5
  <2>6. CASE op \in {Op("copy", b.i, b.n, Null) : b \in Block}
    BY <1>3, <2>6
  <2>7. CASE op \in {Op("load", b.i, b.n, Null) : b \in Block}
    BY <1>3, <2>7
  <2>8. CASE op \in {Op("store", b.i, b.n, v) : b \in Block, v \in Val}
    BY <1>3, <2>8
  <2>9. CASE op \in {Op(m, 0, 0, Null) : m \in {"enter", "exit", "close"}}
    BY <1>4, <2>9
  <2>10. QED
    BY <2>1, <2>2, <2>3, <2>4, <2>5, <2>6, <2>7, <2>8, <2>9 DEF AllOp
<1>6. QED
  BY <1>5 DEF Facts

\* A request as a thread may wait on, with `left' replies still to read.
Asks(q, left) ==
  /\ q \in RequestType
  /\ left \in Nat /\ left <= Replies(q.op)
  /\ q.op = Reference \/ (q.op \in AllOp /\ ~Refused(q.op))

\* The checks of Proxy make the block that a request names lie in the object.
LEMMA AskFacts ==
  ASSUME NEW q, NEW left, Asks(q, left)
  PROVE  /\ ~IsElement(q)
         /\ Replies(q.op) \in Nat /\ Replies(q.op) >= 1
         /\ q.op.m \in {"copy", "load", "store"} =>
              q.op.i \in Cell /\ Count(q.op) \in Nat /\ q.op.n \in Int
         /\ q.op.m = "load" => Count(q.op) = q.op.n
         /\ (q.op.m = "store" /\ StoresFit) => Count(q.op) = q.op.n
<1> USE RemoteAssumption DEF Asks
<1>1. CASE q.op = Reference
  BY <1>1 DEF Reference, Op, Replies, IsElement
<1>2. CASE q.op \in AllOp /\ ~Refused(q.op)
  <2>1. /\ q.op \in OpType /\ q.op.m \in OpNames
        /\ q.op.m \in {"copy", "load", "store"} => [i |-> q.op.i, n |-> q.op.n] \in Block
    BY <1>2, OpFacts
  <2>2. q.op.i \in Int /\ q.op.n \in Int
    BY <2>1 DEF OpType
  <2>3. /\ q.op.m \in {"copy", "load", "store"} => q.op.i \in Cell
        /\ q.op.m \in {"copy", "load"} => q.op.n <= LEN - q.op.i
        /\ q.op.m \in {"load", "store"} => q.op.n >= 0
    BY <1>2, <2>2 DEF Refused, Cell
  <2>4. (q.op.m = "store" /\ StoresFit) => q.op.n <= LEN - q.op.i
    <3> DEFINE b == [i |-> q.op.i, n |-> q.op.n]
    <3>1. b.i = q.op.i /\ b.n = q.op.n
      OBVIOUS
    <3> HIDE DEF b
    <3>2. QED
      BY <2>1, <2>3, <3>1 DEF StoresFit, b
  <2>5. QED
    BY <2>1, <2>2, <2>3, <2>4 DEF OpNames, IsElement, Replies, Count, Cell
<1>3. QED
  BY <1>1, <1>2 DEF Asks

\* If the Skeleton finds a request at the head of its queue, a thread waits on
\* it and nothing else is in the queue.
LEMMA HeadRequest ==
  ASSUME NEW L \in LinkType, NEW K \in SkelType, L.req # << >>, ~IsElement(Head(L.req))
  PROVE  /\ ~Unwaited(L, K)
         /\ \A q, left : Waited(L, K, q, left) =>
              Len(L.req) = 1 /\ Head(L.req) = q /\ Unread(L) /\ L.req[Len(L.req)] = q
<1>1. L.req \in Seq(RequestType)
  BY DEF LinkType
<1>2. Len(L.req) \in Nat /\ Len(L.req) >= 1 /\ Head(L.req) = L.req[1] /\ 1 \in 1 .. Len(L.req)
  BY <1>1, TailFacts
<1>3. QED
  BY <1>2 DEF Unwaited, Waited, Unread

-----------------------------------------------------------------------------
(* What a step of the Skeleton does to one connection: L and K are its link *)
(* and its Skeleton before the step, M and J after it.                      *)

\* A request is read and answered.
LEMMA AnswerOnce ==
  ASSUME NEW L \in LinkType, NEW K \in SkelType, NEW M \in LinkType, NEW J \in SkelType,
         NEW r \in ReplyType, NEW q, NEW left, Asks(q, left),
         L.up, K.st = "idle", L.req # << >>, ~IsElement(Head(L.req)),
         M.up, M.buf = L.buf, M.req = Tail(L.req), M.rep = L.rep \o <<r>>,
         r.to = Head(L.req), Head(L.req).op.m \in {"load", "store"} => r.ok,
         J.st = "block" => /\ J.op = Head(L.req).op /\ J.k = 0 /\ J.q = Head(L.req)
                           /\ J.op.m \in {"load", "store"},
         J.st # "enter",
         Head(L.req).op.m \in {"load", "store"} => (J.st = "block" <=> Count(Head(L.req).op) # 0),
         Waited(L, K, q, left)
  PROVE  Waited(M, J, q, left)
<1>1. /\ Len(L.req) = 1 /\ Head(L.req) = q /\ Unread(L) /\ L.req[Len(L.req)] = q
  BY HeadRequest
<1>2. L.req \in Seq(RequestType) /\ L.rep \in Seq(ReplyType)
  BY DEF LinkType
<1>3. M.req \in Seq(RequestType) /\ Len(M.req) = 0 /\ M.req = << >> /\ ~Unread(M)
  BY <1>1, <1>2, TailFacts, SMTT(30) DEF Unread
<1>4. /\ <<r>> \in Seq(ReplyType) /\ Len(<<r>>) = 1 /\ <<r>>[1] = r
  OBVIOUS
<1>5. /\ Len(L.rep) \in Nat /\ Len(M.rep) = Len(L.rep) + 1
      /\ \A i \in 1 .. Len(L.rep) : M.rep[i] = L.rep[i]
      /\ M.rep[Len(L.rep) + 1] = r
  BY <1>2, <1>4, ConcatFacts
<1>6. /\ L.buf = << >>
      /\ \A i \in 1 .. Len(L.rep) : L.rep[i].to = q /\ (q.op.m \in {"load", "store"} => L.rep[i].ok)
      /\ left = Len(L.rep) + Replies(q.op)
  BY <1>1 DEF Waited, ToCome
<1>7. Len(L.rep) = 0 /\ L.rep = << >>
  <2>1. Replies(q.op) \in Nat /\ left \in Nat /\ left <= Replies(q.op)
    BY AskFacts DEF Asks
  <2>2. QED
    BY <1>2, <1>5, <1>6, <2>1
<1>8. \A i \in 1 .. Len(M.rep) : M.rep[i].to = q /\ (q.op.m \in {"load", "store"} => M.rep[i].ok)
  BY <1>1, <1>5, <1>7
<1>9. left = Len(M.rep) + ToCome(M, J)
  <2>1. CASE J.st = "block" /\ J.op.m = "load"
    BY <1>1, <1>3, <1>5, <1>6, <1>7, <2>1, AskFacts DEF ToCome, Replies
  <2>2. CASE ~(J.st = "block" /\ J.op.m = "load")
    <3>1. Replies(q.op) = 1
      BY <1>1, <2>2, AskFacts DEF Replies
    <3>2. ToCome(M, J) = 0
      BY <1>3, <2>2 DEF ToCome, Replying
    <3>3. QED
      BY <1>5, <1>6, <1>7, <3>1, <3>2
  <2>3. QED
    BY <2>1, <2>2
<1>10. StoresFit => ToWrite(M, q) = Expected(J) /\ ToWrite(M, q) \in Int
  <2>1. M.rep # << >>
    BY <1>5, <1>7
  <2>2. CASE q.op.m = "store"
    <3>1. StoresFit => Count(q.op) = q.op.n /\ q.op.n \in Int
      BY <2>2, AskFacts
    <3>2. StoresFit => Expected(J) = q.op.n
      BY <1>1, <2>2, <3>1 DEF Expected
    <3>3. QED
      BY <2>1, <2>2, <3>1, <3>2 DEF ToWrite
  <2>3. CASE q.op.m # "store"
    BY <1>1, <2>3 DEF ToWrite, Expected
  <2>4. QED
    BY <2>2, <2>3
<1>11. Replying(J) => J.q = q /\ (J.st = "block" => J.op = q.op)
  BY <1>1 DEF Replying
<1>12. QED
  BY <1>3, <1>6, <1>8, <1>9, <1>10, <1>11 DEF Waited

\* A request is read; the reply comes later (MONITORENTER, GETARYCOPY).
LEMMA AnswerLater ==
  ASSUME NEW L \in LinkType, NEW K \in SkelType, NEW M \in LinkType, NEW J \in SkelType,
         NEW q, NEW left, Asks(q, left),
         L.up, K.st = "idle", L.req # << >>, Head(L.req).op.m \in {"enter", "copy"},
         M.up, M.buf = L.buf, M.req = Tail(L.req), M.rep = L.rep,
         J.q = Head(L.req),
         J.st = "enter" \/ (J.st = "block" /\ J.op = Head(L.req).op /\ J.op.m = "copy"),
         Waited(L, K, q, left)
  PROVE  Waited(M, J, q, left)
<1>0. ~IsElement(Head(L.req))
  BY DEF IsElement
<1>1. /\ Len(L.req) = 1 /\ Head(L.req) = q /\ Unread(L) /\ L.req[Len(L.req)] = q
  BY <1>0, HeadRequest
<1>2. L.req \in Seq(RequestType) /\ L.rep \in Seq(ReplyType)
  BY DEF LinkType
<1>3. Len(M.req) = 0 /\ ~Unread(M)
  BY <1>1, <1>2, TailFacts DEF Unread
<1>4. /\ L.buf = << >>
      /\ \A i \in 1 .. Len(L.rep) : L.rep[i].to = q /\ (q.op.m \in {"load", "store"} => L.rep[i].ok)
      /\ left = Len(L.rep) + Replies(q.op)
  BY <1>1 DEF Waited, ToCome
<1>5. ToCome(M, J) = 1 /\ Replies(q.op) = 1
  BY <1>1, <1>3 DEF ToCome, Replying, Replies
<1>6. ToWrite(M, q) = 0 /\ Expected(J) = 0
  BY <1>1 DEF ToWrite, Expected
<1>7. Replying(J) /\ J.q = q /\ (J.st = "block" => J.op = q.op)
  BY <1>1 DEF Replying
<1>8. QED
  BY <1>3, <1>4, <1>5, <1>6, <1>7 DEF Waited

\* The reply to a request that was read before, one of several if it is an
\* ARYBLOCKLOAD.
LEMMA ReplyNow ==
  ASSUME NEW L \in LinkType, NEW K \in SkelType, NEW M \in LinkType, NEW J \in SkelType,
         NEW r \in ReplyType, NEW q, NEW left, Asks(q, left), SkelOK(K),
         L.up, Replying(K), r.ok, r.to = K.q,
         M.up, M.buf = L.buf, M.req = L.req, M.rep = L.rep \o <<r>>,
         \/ J.st = "idle" /\ (K.st = "block" => K.k + 1 = Count(K.op))
         \/ /\ K.st = "block" /\ K.op.m = "load" /\ J.st = "block"
            /\ J.op = K.op /\ J.q = K.q /\ J.k = K.k + 1,
         Waited(L, K, q, left)
  PROVE  Waited(M, J, q, left)
<1>0. ~Unread(L)
  BY DEF Waited
<1>1. /\ L.buf = << >> /\ ~Unread(L) /\ K.q = q /\ (K.st = "block" => K.op = q.op)
      /\ \A i \in 1 .. Len(L.rep) : L.rep[i].to = q /\ (q.op.m \in {"load", "store"} => L.rep[i].ok)
      /\ \A i \in 1 .. Len(L.req) : IsElement(L.req[i]) \/ (i = Len(L.req) /\ L.req[i] = q)
      /\ left = Len(L.rep) + ToCome(L, K)
  BY <1>0 DEF Waited
<1>13. StoresFit => Expected(K) = Len(L.req) - 0 + ToWrite(L, q)
  BY <1>0 DEF Waited
<1>2. L.req \in Seq(RequestType) /\ L.rep \in Seq(ReplyType)
  BY DEF LinkType
<1>3. /\ <<r>> \in Seq(ReplyType) /\ Len(<<r>>) = 1 /\ <<r>>[1] = r
  OBVIOUS
<1>4. /\ Len(L.rep) \in Nat /\ Len(M.rep) = Len(L.rep) + 1
      /\ \A i \in 1 .. Len(L.rep) : M.rep[i] = L.rep[i]
      /\ M.rep[Len(L.rep) + 1] = r
  BY <1>2, <1>3, ConcatFacts
<1>5. \A i \in 1 .. Len(M.rep) : M.rep[i].to = q /\ (q.op.m \in {"load", "store"} => M.rep[i].ok)
  BY <1>1, <1>4
<1>6. ~Unread(M)
  BY <1>1 DEF Unread
<1>7. ToCome(M, J) = ToCome(L, K) - 1 /\ ToCome(L, K) \in Int
  <2>1. CASE K.st = "block" /\ K.op.m = "load"
    <3>1. Count(K.op) \in Nat /\ K.k \in Nat
      BY <1>1, <2>1, AskFacts DEF SkelType
    <3>2. QED
      BY <1>1, <1>6, <2>1, <3>1 DEF ToCome, Replying
  <2>2. CASE ~(K.st = "block" /\ K.op.m = "load")
    BY <1>1, <1>6, <2>2 DEF ToCome, Replying
  <2>3. QED
    BY <2>1, <2>2
<1>8. left = Len(M.rep) + ToCome(M, J)
  BY <1>1, <1>4, <1>7
<1>9. Replying(J) => J.q = q /\ (J.st = "block" => J.op = q.op)
  BY <1>1 DEF Replying
<1>10. Expected(K) = 0 /\ Expected(J) = 0
  BY DEF Expected, Replying
<1>11. StoresFit => Expected(J) = Len(M.req) - 0 + ToWrite(M, q)
  <2>1. CASE q.op.m = "store"
    BY <1>1, <2>1 DEF Replying, SkelOK
  <2>2. CASE q.op.m # "store"
    BY <1>13, <1>10, <2>2 DEF ToWrite
  <2>3. QED
    BY <2>1, <2>2
<1>12. QED
  BY <1>1, <1>5, <1>6, <1>8, <1>9, <1>11 DEF Waited

\* The Skeleton finishes without touching the connection (the write of PUTFIELD).
LEMMA Unheard ==
  ASSUME NEW L \in LinkType, NEW K \in SkelType, NEW J \in SkelType,
         K.st = "put", J.st = "idle"
  PROVE  /\ \A q, left : Waited(L, K, q, left) => Waited(L, J, q, left)
         /\ Unwaited(L, K) => Unwaited(L, J)
<1>1. Expected(J) = Expected(K) /\ Replying(J) = Replying(K) /\ ToCome(L, J) = ToCome(L, K)
  BY DEF Expected, Replying, ToCome
<1>2. ~Replying(J) /\ ~Replying(K)
  BY DEF Replying
<1>3. QED
  BY <1>1, <1>2 DEF Waited, Unwaited

\* There are never fewer than no replies to come.
LEMMA ToComeNat ==
  ASSUME NEW L \in LinkType, NEW K \in SkelType, SkelOK(K), NEW q, NEW left,
         Asks(q, left), Waited(L, K, q, left), L.up
  PROVE  ToCome(L, K) \in Nat
<1>1. CASE Unread(L)
  <2>1. L.req \in Seq(RequestType) /\ L.req # << >>
    BY <1>1 DEF LinkType, Unread
  <2>2. Len(L.req) \in 1 .. Len(L.req)
    BY <2>1
  <2>3. L.req[Len(L.req)] = q
    BY <1>1, <2>2 DEF Waited, Unread
  <2>4. QED
    BY <1>1, <2>3, AskFacts DEF ToCome
<1>2. CASE ~Unread(L) /\ K.st = "block" /\ K.op.m = "load"
  <2>1. K.op = q.op
    BY <1>2 DEF Waited, Replying
  <2>2. Count(K.op) \in Nat /\ K.k \in Nat /\ K.k < Count(K.op)
    BY <1>2, <2>1, AskFacts DEF SkelOK, SkelType
  <2>3. QED
    BY <1>2, <2>2 DEF ToCome
<1>3. CASE ~Unread(L) /\ ~(K.st = "block" /\ K.op.m = "load")
  BY <1>3 DEF ToCome
<1>4. QED
  BY <1>1, <1>2, <1>3

\* The connection goes down; the replies that arrived before may be kept.
LEMMA GoesDown ==
  ASSUME NEW L \in LinkType, NEW K \in SkelType, NEW M \in LinkType, NEW J,
         SkelOK(K), ~M.up, M.req = << >>, M.buf = << >>, M.rep \in {L.rep, << >>}
  PROVE  /\ \A q, left : Asks(q, left) /\ Waited(L, K, q, left) => Waited(M, J, q, left)
         /\ Unwaited(L, K) => Unwaited(M, J)
<1>1. ASSUME NEW q, NEW left, Asks(q, left), Waited(L, K, q, left)
      PROVE  Waited(M, J, q, left)
  <2>1. left \in Nat
    BY <1>1 DEF Asks
  <2>2. Len(L.rep) \in Nat
    BY DEF LinkType
  <2>3. Len(L.rep) <= left
    <3>1. CASE L.up
      <4>1. left = Len(L.rep) + ToCome(L, K) /\ ToCome(L, K) \in Nat
        BY <1>1, <3>1, ToComeNat DEF Waited
      <4>2. QED
        BY <2>1, <2>2, <4>1
    <3>2. CASE ~L.up
      BY <1>1, <3>2 DEF Waited
    <3>3. QED
      BY <3>1, <3>2
  <2>4. Len(M.rep) <= left
    BY <2>1, <2>3
  <2>5. \A i \in 1 .. Len(M.rep) : M.rep[i].to = q /\ (q.op.m \in {"load", "store"} => M.rep[i].ok)
    <3>1. CASE M.rep = L.rep
      BY <1>1, <3>1 DEF Waited
    <3>2. CASE M.rep = << >>
      BY <3>2
    <3>3. QED
      BY <3>1, <3>2
  <2>6. \A i \in 1 .. Len(M.req) : FALSE
    OBVIOUS
  <2>7. QED
    BY <2>4, <2>5, <2>6 DEF Waited
<1>2. Unwaited(L, K) => Unwaited(M, J)
  BY DEF Unwaited
<1>3. QED
  BY <1>1, <1>2

\* An element of a block is read.
LEMMA ElementRead ==
  ASSUME NEW L \in LinkType, NEW K \in SkelType, NEW M \in LinkType, NEW J \in SkelType,
         SkelOK(K), L.up, L.req # << >>, IsElement(Head(L.req)),
         K.st = "block", K.op.m = "store",
         M.up, M.buf = L.buf, M.rep = L.rep,
         Len(M.req) = Len(L.req) - 1, \A i \in 1 .. Len(M.req) : M.req[i] = L.req[i + 1],
         \/ J.st = "idle" /\ K.k + 1 = Count(K.op)
         \/ J.st = "block" /\ J.op = K.op /\ J.k = K.k + 1
  PROVE  /\ \A q, left : Asks(q, left) /\ Waited(L, K, q, left) => Waited(M, J, q, left)
         /\ Unwaited(L, K) => Unwaited(M, J)
<1>1. L.req \in Seq(RequestType) /\ L.buf \in Seq(RequestType) /\ M.req \in Seq(RequestType)
  BY DEF LinkType
<1>2. /\ Len(L.req) \in Nat /\ Len(L.req) >= 1 /\ Head(L.req) = L.req[1]
  BY <1>1, TailFacts
<1>3. Unread(M) <=> Unread(L)
  <2>1. CASE Len(L.req) <= 1
    BY <1>1, <1>2, <2>1 DEF Unread
  <2>2. CASE Len(L.req) > 1
    <3>1. Len(M.req) \in 1 .. Len(M.req) /\ Len(M.req) + 1 = Len(L.req)
      BY <1>2, <2>2
    <3>2. M.req # << >>
      BY <1>1, <3>1
    <3>3. M.req[Len(M.req)] = L.req[Len(L.req)]
      BY <1>2, <3>1
    <3>4. QED
      BY <3>2, <3>3 DEF Unread
  <2>3. QED
    BY <1>2, <2>1, <2>2
<1>4. Unread(L) => M.req[Len(M.req)] = L.req[Len(L.req)]
  <2>1. ASSUME Unread(L) PROVE Len(L.req) > 1
    BY <1>2, <2>1 DEF Unread
  <2>2. ASSUME Unread(L) PROVE Len(M.req) \in 1 .. Len(M.req) /\ Len(M.req) + 1 = Len(L.req)
    BY <1>2, <2>1, <2>2
  <2>3. QED
    BY <1>2, <2>2
<1>5. ~Replying(K) /\ ~Replying(J)
  BY DEF Replying
<1>6. ToCome(M, J) = ToCome(L, K)
  BY <1>3, <1>4, <1>5 DEF ToCome
<1>7. Expected(K) \in Int /\ Expected(J) = Expected(K) - 1
  <2>1. K.k \in Nat /\ Count(K.op) \in Int
    BY RemoteAssumption DEF SkelType, SkelOK, OpType, Count, Cell
  <2>2. QED
    BY <2>1 DEF Expected
<1>8. ASSUME NEW q, NEW left, Asks(q, left), Waited(L, K, q, left)
      PROVE  Waited(M, J, q, left)
  <2>1. \A i \in 1 .. Len(M.req) : i + 1 \in 1 .. Len(L.req) /\ (i + 1 = Len(L.req) => i = Len(M.req))
    BY <1>2
  <2>2. \A i \in 1 .. Len(M.req) : IsElement(M.req[i]) \/ (i = Len(M.req) /\ M.req[i] = q)
    BY <1>2, <1>8, <2>1 DEF Waited
  <2>3. ToWrite(L, q) \in Int /\ ToWrite(M, q) = ToWrite(L, q)
    <3>1. q.op.n \in Int
      BY <1>8 DEF Asks, RequestType, OpType
    <3>2. QED
      BY <3>1 DEF ToWrite
  <2>4. StoresFit => Expected(J) = Len(M.req) - (IF Unread(M) THEN 1 ELSE 0) + ToWrite(M, q)
    <3>1. StoresFit => Expected(K) = Len(L.req) - (IF Unread(L) THEN 1 ELSE 0) + ToWrite(L, q)
      BY <1>8 DEF Waited
    <3>2. CASE Unread(L)
      <4>1. StoresFit => Expected(K) = Len(L.req) - 1 + ToWrite(L, q)
        BY <3>1, <3>2
      <4>2. StoresFit => Expected(J) = Len(M.req) - 1 + ToWrite(M, q)
        BY <1>2, <1>7, <2>3, <4>1
      <4>3. QED
        BY <1>3, <3>2, <4>2
    <3>3. CASE ~Unread(L)
      <4>1. StoresFit => Expected(K) = Len(L.req) - 0 + ToWrite(L, q)
        BY <3>1, <3>3
      <4>2. StoresFit => Expected(J) = Len(M.req) - 0 + ToWrite(M, q)
        BY <1>2, <1>7, <2>3, <4>1
      <4>3. QED
        BY <1>3, <3>3, <4>2
    <3>4. QED
      BY <3>2, <3>3
  <2>5. QED
    BY <1>5, <1>6, <1>8, <2>2, <2>4 DEF Waited
<1>9. ASSUME Unwaited(L, K) PROVE Unwaited(M, J)
  <2>1. \A i \in 1 .. Len(M.req) : i + 1 \in 1 .. Len(L.req)
    BY <1>2
  <2>2. \A i \in 1 .. Len(M.req) : IsElement(M.req[i])
    BY <1>2, <1>9, <2>1 DEF Unwaited
  <2>3. StoresFit => Expected(J) = Len(M.req) + Len(M.buf)
    <3>1. StoresFit => Expected(K) = Len(L.req) + Len(L.buf)
      BY <1>9 DEF Unwaited
    <3>2. Len(L.buf) \in Nat
      BY <1>1
    <3>3. QED
      BY <1>2, <1>7, <3>1, <3>2
  <2>4. QED
    BY <1>5, <1>9, <2>2, <2>3 DEF Unwaited
<1>10. QED
  BY <1>8, <1>9

\* GETARYCOPY has read an element and goes on.
LEMMA CopyGoesOn ==
  ASSUME NEW L \in LinkType, NEW K \in SkelType, NEW J \in SkelType,
         K.st = "block", K.op.m = "copy", J.st = "block", J.op = K.op, J.q = K.q
  PROVE  /\ \A q, left : Waited(L, K, q, left) => Waited(L, J, q, left)
         /\ Unwaited(L, K) => Unwaited(L, J)
<1>1. Expected(J) = Expected(K) /\ ToCome(L, J) = ToCome(L, K)
  BY DEF Expected, Replying, ToCome
<1>2. Replying(J) /\ Replying(K)
  BY DEF Replying
<1>3. QED
  BY <1>1, <1>2 DEF Waited, Unwaited

-----------------------------------------------------------------------------
(* Steps of the server.                                                    *)

\* What a thread waits on is a request it was allowed to send.
LEMMA WaiterAsks ==
  ASSUME RemoteTypes, ThreadOK, NEW t \in Thread, NEW c \in Conn, Waiting(t, c)
  PROVE  Asks(Mine(t), Left(t))
<1> USE DEF RemoteTypes, ThreadOK, ThrOK, Waiting
<1>1. CASE thr[t].pc = "ref"
  <2>1. Reference \in OpType /\ Reference.m = "reference"
    BY DEF Reference, Op, OpType
  <2>2. Mine(t) \in RequestType /\ Mine(t).op = Reference /\ Left(t) = 1
    BY <1>1, <2>1 DEF Mine, Request, RequestType, Left
  <2>3. QED
    BY <2>1, <2>2 DEF Asks, Replies
<1>2. CASE thr[t].pc \in {"wait", "elems"}
  <2>1. /\ thr[t].op \in AllOp /\ ~Refused(thr[t].op) /\ thr[t].k \in Nat
        /\ thr[t].pc = "elems" => thr[t].op.m = "load" /\ thr[t].k <= thr[t].op.n
    BY <1>2 DEF ThrType
  <2>2. thr[t].op \in OpType /\ thr[t].op.n \in Int /\ thr[t].op.m # "element"
    BY <2>1, OpFacts DEF OpType, OpNames
  <2>3. thr[t].op.m = "load" => thr[t].op.n >= 0
    BY <2>1, <2>2 DEF Refused
  <2>4. Mine(t) \in RequestType /\ Mine(t).op = thr[t].op
    BY <1>2, <2>2 DEF Mine, Request, RequestType
  <2>5. Left(t) \in Nat /\ Left(t) <= Replies(thr[t].op)
    BY <1>2, <2>1, <2>2, <2>3 DEF Left, Replies
  <2>6. QED
    BY <2>1, <2>4, <2>5 DEF Asks
<1>3. QED
  BY <1>1, <1>2

\* A step of Skeleton c that keeps its conversation in step keeps them all.
LEMMA ServerFrame ==
  ASSUME Conversation, NEW c \in Conn, UNCHANGED <<prog, sock, thr, inside>>,
         heap' \in [Obj -> [Cell -> Val]],
         link' \in [Conn -> LinkType], skel' \in [Conn -> SkelType],
         \A d \in Conn \ {c} : link'[d] = link[d] /\ skel'[d] = skel[d],
         SkelOK(skel'[c]),
         link'[c].up => link[c].up,
         \A q, left : Asks(q, left) /\ Waited(link[c], skel[c], q, left)
                        => Waited(link'[c], skel'[c], q, left),
         Unwaited(link[c], skel[c]) => Unwaited(link'[c], skel'[c])
  PROVE  Conversation'
<1> USE DEF Conversation
<1>1. sock' = sock /\ thr' = thr /\ inside' = inside /\ prog' = prog
  BY DEF cvars
<1>2. RemoteTypes'
  BY <1>1 DEF RemoteTypes
<1>3. ThreadOK'
  BY <1>1 DEF ThreadOK, ThrOK
<1>4. SockOK'
  BY <1>1 DEF SockOK
<1>5. \A t \in Thread, d \in Conn : /\ Waiting(t, d)' <=> Waiting(t, d)
                                    /\ Mine(t)' = Mine(t) /\ Left(t)' = Left(t)
  BY <1>1 DEF Waiting, Mine, Left
<1>6. ASSUME NEW d \in Conn PROVE ConnOK(d)'
  <2>1. CASE d # c
    <3>1. link'[d] = link[d] /\ skel'[d] = skel[d]
      BY <2>1
    <3>2. ConnOK(d)
      OBVIOUS
    <3>3. QED
      BY <1>5, <3>1, <3>2 DEF ConnOK
  <2>2. CASE d = c
    <3>1. ConnOK(c)
      OBVIOUS
    <3>2. ASSUME NEW t \in Thread, Waiting(t, c)
          PROVE  Waited(link'[c], skel'[c], Mine(t), Left(t))
      <4>1. Asks(Mine(t), Left(t))
        BY <3>2, WaiterAsks
      <4>2. Waited(link[c], skel[c], Mine(t), Left(t))
        BY <3>1, <3>2 DEF ConnOK
      <4>3. QED
        BY <4>1, <4>2
    <3>3. (\A t \in Thread : ~Waiting(t, c)) => Unwaited(link'[c], skel'[c])
      BY <3>1 DEF ConnOK
    <3>4. QED
      BY <1>5, <2>2, <3>2, <3>3 DEF ConnOK
  <2>3. QED
    BY <2>1, <2>2
<1>7. QED
  BY <1>2, <1>3, <1>4, <1>6

\* The request at the head of a queue is the one that some thread waits on.
LEMMA Asker ==
  ASSUME Conversation, NEW c \in Conn, link[c].req # << >>, ~IsElement(Query(c))
  PROVE  /\ Query(c) \in RequestType
         /\ \E t \in Thread : Waiting(t, c) /\ Query(c) = Mine(t) /\ Asks(Query(c), Left(t))
<1>1. link[c] \in LinkType /\ skel[c] \in SkelType /\ ConnOK(c) /\ RemoteTypes /\ ThreadOK
  BY DEF Conversation, RemoteTypes
<1>2. Query(c) \in RequestType
  BY <1>1, TailFacts DEF Query, LinkType
<1>3. ~Unwaited(link[c], skel[c])
  BY <1>1, HeadRequest DEF Query
<1>4. PICK t \in Thread : Waiting(t, c)
  BY <1>1, <1>3 DEF ConnOK
<1>5. Waited(link[c], skel[c], Mine(t), Left(t)) /\ Asks(Mine(t), Left(t))
  BY <1>1, <1>4, WaiterAsks DEF ConnOK
<1>6. Query(c) = Mine(t)
  BY <1>1, <1>5, HeadRequest DEF Query
<1>7. QED
  BY <1>2, <1>4, <1>5, <1>6

\* What link[c] is after Answer(c, replies).
LEMMA AnswerFacts ==
  ASSUME RemoteTypes, NEW c \in Conn, link[c].req # << >>, NEW rs \in Seq(ReplyType), Answer(c, rs)
  PROVE  /\ link' \in [Conn -> LinkType]
         /\ \A d \in Conn \ {c} : link'[d] = link[d]
         /\ link'[c].up = link[c].up /\ link'[c].buf = link[c].buf
         /\ link'[c].req = Tail(link[c].req) /\ link'[c].rep = link[c].rep \o rs
         /\ link[c] \in LinkType /\ link'[c] \in LinkType
<1>1. link \in [Conn -> LinkType] /\ link[c] \in LinkType
  BY DEF RemoteTypes
<1>2. Tail(link[c].req) \in Seq(RequestType)
  BY <1>1, TailFacts DEF LinkType
<1>3. link[c].rep \o rs \in Seq(ReplyType)
  BY <1>1, ConcatFacts DEF LinkType
<1>4. /\ \A d \in Conn \ {c} : link'[d] = link[d]
      /\ link'[c].up = link[c].up /\ link'[c].buf = link[c].buf
      /\ link'[c].req = Tail(link[c].req) /\ link'[c].rep = link[c].rep \o rs
  BY <1>1 DEF Answer, LinkType
<1>5. link' \in [Conn -> LinkType]
  BY <1>1, <1>2, <1>3 DEF Answer, LinkType
<1>6. QED
  BY <1>1, <1>4, <1>5

\* A request is read, answered once, and the Skeleton continues as J.
LEMMA AnswerStep ==
  ASSUME Conversation, NEW c \in Conn, UNCHANGED <<prog, cvars>>,
         heap' \in [Obj -> [Cell -> Val]],
         skel[c].st = "idle", link[c].up, link[c].req # << >>, ~IsElement(Query(c)),
         NEW ok \in BOOLEAN, NEW vals \in Seq(Val), Answer(c, <<Reply(ok, vals, Query(c))>>),
         Asked(c).m \in {"load", "store"} => ok,
         skel' \in [Conn -> SkelType], \A d \in Conn \ {c} : skel'[d] = skel[d],
         SkelOK(skel'[c]), skel'[c].st # "enter",
         skel'[c].st = "block" => /\ skel'[c].op = Asked(c) /\ skel'[c].k = 0
                                  /\ skel'[c].q = Query(c) /\ Asked(c).m \in {"load", "store"},
         Asked(c).m \in {"load", "store"} => (skel'[c].st = "block" <=> Count(Asked(c)) # 0)
  PROVE  Conversation'
<1>1. RemoteTypes /\ skel[c] \in SkelType /\ skel'[c] \in SkelType
  BY DEF Conversation, RemoteTypes
<1>2. Query(c) \in RequestType
  BY Asker
<1> DEFINE r == Reply(ok, vals, Query(c))
<1>3. r \in ReplyType /\ r.to = Head(link[c].req) /\ r.ok = ok
  BY <1>2 DEF Reply, ReplyType, Query
<1>4. <<r>> \in Seq(ReplyType)
  BY <1>3
<1> HIDE DEF r
<1>5. Answer(c, <<r>>)
  BY DEF r
<1>6. /\ link' \in [Conn -> LinkType]
      /\ \A d \in Conn \ {c} : link'[d] = link[d]
      /\ link'[c].up = link[c].up /\ link'[c].buf = link[c].buf
      /\ link'[c].req = Tail(link[c].req) /\ link'[c].rep = link[c].rep \o <<r>>
      /\ link[c] \in LinkType /\ link'[c] \in LinkType
  BY <1>1, <1>4, <1>5, AnswerFacts
<1>7. ASSUME NEW q, NEW left, Asks(q, left), Waited(link[c], skel[c], q, left)
      PROVE  Waited(link'[c], skel'[c], q, left)
  BY <1>1, <1>3, <1>6, <1>7, AnswerOnce DEF Query, Asked
<1>8. ~Unwaited(link[c], skel[c])
  BY <1>1, <1>6, HeadRequest DEF Query
<1>9. QED
  BY <1>6, <1>7, <1>8, ServerFrame DEF cvars

\* A request other than REFERENCE is an operation of the program, in range.
LEMMA ReadFacts ==
  ASSUME Conversation, NEW c \in Conn, NEW ms, Reads(c, ms), "element" \notin ms, "reference" \notin ms
  PROVE  /\ skel[c].st = "idle" /\ link[c].up /\ link[c].req # << >> /\ ~IsElement(Query(c))
         /\ Query(c) \in RequestType /\ Asked(c) = Query(c).op /\ Asked(c).m \in ms
         /\ Asked(c) \in AllOp /\ ~Refused(Asked(c))
<1>1. /\ skel[c].st = "idle" /\ link[c].up /\ link[c].req # << >> /\ ~IsElement(Query(c))
      /\ Asked(c) = Query(c).op /\ Asked(c).m \in ms
  BY DEF Reads, Query, Asked, IsElement
<1>2. Query(c) \in RequestType /\ \E t \in Thread : Asks(Query(c), Left(t))
  BY <1>1, Asker
<1>3. Asked(c) # Reference
  BY <1>1 DEF Reference, Op
<1>4. QED
  BY <1>1, <1>2, <1>3 DEF Asks

LEMMA FreshFacts ==
  Fresh \in LinkType /\ ~Fresh.up /\ Fresh.req = << >> /\ Fresh.buf = << >> /\ Fresh.rep = << >>
<1>1. << >> \in Seq(RequestType) /\ << >> \in Seq(ReplyType)
  OBVIOUS
<1>2. QED
  BY <1>1 DEF Fresh, LinkType

LEMMA NoSkelFacts ==
  NoSkel \in SkelType /\ SkelOK(NoSkel) /\ NoSkel.st = "gone" /\ NoSkel.w = Null
  /\ NoSkel.k = 0 /\ NoSkel.obj = Null /\ NoOp \in OpType
<1>1. NoOp \in OpType
  BY DEF NoOp, Op, OpType
<1>2. QED
  BY <1>1 DEF NoSkel, SkelType, SkelOK

LEMMA ServeReferenceStep ==
  ASSUME Conversation, NEW c \in Conn, ServeReference(c), prog' = prog PROVE Conversation'
<1> DEFINE o == Target[CHOOSE p \in Proxy : sock[p] = c]
<1>1. /\ skel[c].st = "idle" /\ link[c].up /\ link[c].req # << >> /\ ~IsElement(Query(c))
      /\ Asked(c).m = "reference"
  BY DEF ServeReference, Reads, Query, Asked, IsElement
<1>2. RemoteTypes /\ SockOK /\ SkelOK(skel[c]) /\ skel[c] \in SkelType
  BY DEF Conversation, ConnOK, RemoteTypes
<1>3. o \in Obj
  <2>1. (CHOOSE p \in Proxy : sock[p] = c) \in Proxy
    BY <1>1, <1>2 DEF SockOK
  <2>2. QED
    BY <2>1, RemoteAssumption
<1>4. /\ Answer(c, <<Reply(o \in exported, << >>, Query(c))>>)
      /\ heap' = heap /\ UNCHANGED <<prog, cvars>>
      /\ skel' = [skel EXCEPT ![c].obj = IF o \in exported THEN o ELSE Null]
  BY DEF ServeReference
<1> HIDE DEF o
<1>5. /\ skel' \in [Conn -> SkelType] /\ \A d \in Conn \ {c} : skel'[d] = skel[d]
      /\ skel'[c].st = "idle" /\ skel'[c].k = skel[c].k /\ skel'[c].got = skel[c].got
  BY <1>1, <1>2, <1>3, <1>4 DEF RemoteTypes, SkelType
<1>6. SkelOK(skel'[c])
  BY <1>1, <1>2, <1>5 DEF SkelOK
<1>7. (o \in exported) \in BOOLEAN /\ << >> \in Seq(Val) /\ heap' \in [Obj -> [Cell -> Val]]
  BY <1>2, <1>4 DEF RemoteTypes
<1>8. QED
  BY <1>1, <1>4, <1>5, <1>6, <1>7, AnswerStep

LEMMA ServeCloseStep ==
  ASSUME Conversation, NEW c \in Conn, ServeClose(c), prog' = prog PROVE Conversation'
<1>1. /\ skel[c].st = "idle" /\ link[c].up /\ link[c].req # << >> /\ ~IsElement(Query(c))
      /\ Asked(c).m \in {"close"}
  BY ReadFacts DEF ServeClose
<1>2. RemoteTypes
  BY DEF Conversation
<1>3. /\ Answer(c, <<Reply(TRUE, << >>, Query(c))>>)
      /\ heap' = heap /\ UNCHANGED <<prog, cvars>>
      /\ skel' = [skel EXCEPT ![c] = NoSkel]
  BY DEF ServeClose
<1>4. /\ skel' \in [Conn -> SkelType] /\ \A d \in Conn \ {c} : skel'[d] = skel[d]
      /\ skel'[c] = NoSkel
  BY <1>2, <1>3, NoSkelFacts DEF RemoteTypes
<1>5. << >> \in Seq(Val) /\ heap' \in [Obj -> [Cell -> Val]] /\ TRUE \in BOOLEAN
  BY <1>2, <1>3 DEF RemoteTypes
<1>6. QED
  BY <1>1, <1>3, <1>4, <1>5, AnswerStep, NoSkelFacts

\* The requests that are answered at once, the Skeleton staying idle.
LEMMA IdleAnswerStep ==
  ASSUME Conversation, NEW c \in Conn, NEW ms, Reads(c, ms), prog' = prog,
         "element" \notin ms, "reference" \notin ms, "load" \notin ms, "store" \notin ms,
         NEW ok \in BOOLEAN, NEW vals \in Seq(Val), Answer(c, <<Reply(ok, vals, Query(c))>>),
         heap' \in [Obj -> [Cell -> Val]], UNCHANGED <<cvars, skel>>
  PROVE  Conversation'
<1>1. /\ skel[c].st = "idle" /\ link[c].up /\ link[c].req # << >> /\ ~IsElement(Query(c))
      /\ Asked(c).m \in ms
  BY ReadFacts
<1>2. /\ skel' \in [Conn -> SkelType] /\ (\A d \in Conn \ {c} : skel'[d] = skel[d])
      /\ SkelOK(skel'[c]) /\ skel'[c].st = "idle"
  BY <1>1 DEF Conversation, RemoteTypes, ConnOK
<1>3. Asked(c).m \notin {"load", "store"}
  BY <1>1
<1>4. UNCHANGED <<prog, cvars>>
  OBVIOUS
<1>5. QED
  BY <1>1, <1>2, <1>3, <1>4, AnswerStep

LEMMA ServeReadStep ==
  ASSUME Conversation, NEW c \in Conn, ServeGet(c) \/ ServeArrayLoad(c), prog' = prog
  PROVE  Conversation'
<1>1. RemoteTypes
  BY DEF Conversation
<1>2. heap' \in [Obj -> [Cell -> Val]] /\ UNCHANGED <<cvars, skel>> /\ skel[c].obj # Null
  BY <1>1 DEF RemoteTypes, ServeGet, ServeArrayLoad
<1>3. skel[c].obj \in Obj
  BY <1>1, <1>2 DEF RemoteTypes, SkelType
<1>4. CASE ServeGet(c)
  <2>1. Reads(c, {"get"}) /\ Answer(c, <<Reply(TRUE, <<heap[skel[c].obj][Asked(c).i]>>, Query(c))>>)
    BY <1>4 DEF ServeGet
  <2>2. Asked(c).i \in Cell
    BY <2>1, ReadFacts, OpFacts
  <2>3. <<heap[skel[c].obj][Asked(c).i]>> \in Seq(Val)
    BY <1>1, <1>3, <2>2 DEF RemoteTypes
  <2>4. QED
    BY <1>2, <2>1, <2>3, IdleAnswerStep
<1>5. CASE ServeArrayLoad(c)
  <2> DEFINE i == Asked(c).i
  <2>1. Reads(c, {"aload"})
    BY <1>5 DEF ServeArrayLoad
  <2>2. CASE i \in Cell
    <3>1. <<heap[skel[c].obj][i]>> \in Seq(Val)
      BY <1>1, <1>3, <2>2 DEF RemoteTypes
    <3>2. Answer(c, <<Reply(TRUE, <<heap[skel[c].obj][i]>>, Query(c))>>)
      BY <1>5, <2>2 DEF ServeArrayLoad
    <3>3. QED
      BY <1>2, <2>1, <3>1, <3>2, IdleAnswerStep
  <2>3. CASE i \notin Cell
    <3>1. Answer(c, <<Reply(FALSE, << >>, Query(c))>>) /\ << >> \in Seq(Val)
      BY <1>5, <2>3 DEF ServeArrayLoad
    <3>2. QED
      BY <1>2, <2>1, <3>1, IdleAnswerStep
  <2>4. QED
    BY <2>2, <2>3
<1>6. QED
  BY <1>4, <1>5

\* A cell of an object is overwritten.
LEMMA HeapWrite ==
  ASSUME RemoteTypes, NEW o \in Obj, NEW i \in Cell, NEW v \in Val
  PROVE  [heap EXCEPT ![o][i] = v] \in [Obj -> [Cell -> Val]]
BY DEF RemoteTypes

LEMMA ServePutStep ==
  ASSUME Conversation, NEW c \in Conn, ServePut(c), prog' = prog PROVE Conversation'
<1>1. RemoteTypes /\ skel[c] \in SkelType /\ SkelOK(skel[c])
  BY DEF Conversation, RemoteTypes, ConnOK
<1>2. /\ skel[c].st = "idle" /\ link[c].up /\ link[c].req # << >> /\ ~IsElement(Query(c))
      /\ Asked(c).m \in {"put"} /\ Asked(c) \in AllOp /\ Reads(c, {"put"})
  BY ReadFacts DEF ServePut
<1>3. UNCHANGED <<cvars, heap>> /\ heap' \in [Obj -> [Cell -> Val]] /\ << >> \in Seq(Val)
  BY <1>1 DEF ServePut, RemoteTypes
<1>4. CASE Answer(c, <<Reply(FALSE, << >>, Query(c))>>) /\ UNCHANGED skel
  BY <1>2, <1>3, <1>4, IdleAnswerStep
<1>5. CASE /\ Answer(c, <<Reply(TRUE, << >>, Query(c))>>)
           /\ skel' = [skel EXCEPT ![c].st = "put", ![c].op = Asked(c)]
  <2>1. Asked(c) \in OpType /\ Asked(c).i \in Cell /\ Asked(c).v \in Val
    BY <1>2, OpFacts
  <2>2. /\ skel' \in [Conn -> SkelType] /\ \A d \in Conn \ {c} : skel'[d] = skel[d]
        /\ skel'[c].st = "put" /\ skel'[c].op = Asked(c)
        /\ skel'[c].k = skel[c].k /\ skel'[c].got = skel[c].got
    BY <1>1, <1>5, <2>1 DEF RemoteTypes, SkelType
  <2>3. SkelOK(skel'[c])
    BY <1>1, <1>2, <2>1, <2>2 DEF SkelOK
  <2>4. UNCHANGED <<prog, cvars>> /\ Asked(c).m \notin {"load", "store"}
    BY <1>2, <1>3
  <2>5. QED
    BY <1>2, <1>3, <1>5, <2>2, <2>3, <2>4, AnswerStep
<1>6. QED
  BY <1>4, <1>5 DEF ServePut

LEMMA PutStep ==
  ASSUME Conversation, NEW c \in Conn, Put(c), prog' = prog PROVE Conversation'
<1>1. RemoteTypes /\ skel[c] \in SkelType /\ SkelOK(skel[c]) /\ link[c] \in LinkType /\ SockOK
  BY DEF Conversation, RemoteTypes, ConnOK
<1>2. /\ skel[c].st = "put" /\ skel[c].obj \in Obj
      /\ skel[c].op.i \in Cell /\ skel[c].op.v \in Val
      /\ heap' = [heap EXCEPT ![skel[c].obj][skel[c].op.i] = skel[c].op.v]
      /\ skel' = [skel EXCEPT ![c].st = "idle", ![c].op = NoOp]
      /\ UNCHANGED <<prog, cvars>> /\ link' = link
  BY <1>1 DEF Put, SkelType, SkelOK
<1>3. heap' \in [Obj -> [Cell -> Val]]
  BY <1>1, <1>2, HeapWrite
<1>4. /\ skel' \in [Conn -> SkelType] /\ \A d \in Conn \ {c} : skel'[d] = skel[d]
      /\ skel'[c].st = "idle" /\ skel'[c].k = skel[c].k /\ skel'[c].got = skel[c].got
  BY <1>1, <1>2, NoSkelFacts DEF RemoteTypes, SkelType
<1>5. SkelOK(skel'[c])
  BY <1>1, <1>2, <1>4 DEF SkelOK
<1>6. /\ \A q, left : Waited(link[c], skel[c], q, left) => Waited(link[c], skel'[c], q, left)
      /\ Unwaited(link[c], skel[c]) => Unwaited(link[c], skel'[c])
  BY <1>1, <1>2, <1>4, Unheard
<1>7. /\ link' \in [Conn -> LinkType] /\ (\A d \in Conn \ {c} : link'[d] = link[d])
      /\ link'[c].up => link[c].up
  BY <1>1, <1>2 DEF RemoteTypes
<1>8. QED
  BY <1>2, <1>3, <1>4, <1>5, <1>6, <1>7, ServerFrame DEF cvars

LEMMA ServeWriteStep ==
  ASSUME Conversation, NEW c \in Conn, ServeArrayStore(c) \/ ServeInvoke(c), prog' = prog
  PROVE  Conversation'
<1>1. RemoteTypes
  BY DEF Conversation
<1>2. UNCHANGED <<cvars, skel>>
  BY DEF ServeArrayStore, ServeInvoke
<1>3. CASE ServeArrayStore(c)
  <2>1. /\ Reads(c, {"astore"}) /\ skel[c].obj # Null
        /\ heap' = IF Asked(c).i \in Cell THEN [heap EXCEPT ![skel[c].obj][Asked(c).i] = Asked(c).v] ELSE heap
        /\ Answer(c, <<Reply(Asked(c).i \in Cell, << >>, Query(c))>>)
    BY <1>3 DEF ServeArrayStore
  <2>2. Asked(c).v \in Val /\ skel[c].obj \in Obj
    <3>1. Asked(c) \in AllOp /\ Asked(c).m \in {"astore"}
      BY <2>1, ReadFacts
    <3>2. Asked(c).v \in Val
      BY <3>1, OpFacts
    <3>3. skel[c].obj \in Obj
      BY <1>1, <2>1 DEF RemoteTypes, SkelType
    <3>4. QED
      BY <3>2, <3>3
  <2>3. heap' \in [Obj -> [Cell -> Val]]
    BY <1>1, <2>1, <2>2, HeapWrite DEF RemoteTypes
  <2>4. (Asked(c).i \in Cell) \in BOOLEAN /\ << >> \in Seq(Val)
    OBVIOUS
  <2>5. QED
    BY <1>2, <2>1, <2>3, <2>4, IdleAnswerStep
<1>4. CASE ServeInvoke(c)
  <2>1. Reads(c, {"invoke"})
    BY <1>4 DEF ServeInvoke
  <2>2. Asked(c).v \in Val /\ Asked(c).i \in Cell
    BY <2>1, ReadFacts, OpFacts
  <2>3. CASE Answer(c, <<Reply(FALSE, << >>, Query(c))>>) /\ UNCHANGED heap
    <3>1. << >> \in Seq(Val) /\ heap' \in [Obj -> [Cell -> Val]]
      BY <1>1, <2>3 DEF RemoteTypes
    <3>2. QED
      BY <1>2, <2>1, <2>3, <3>1, IdleAnswerStep
  <2>4. CASE /\ skel[c].obj # Null
             /\ heap' = [heap EXCEPT ![skel[c].obj][Asked(c).i] = Asked(c).v]
             /\ Answer(c, <<Reply(TRUE, <<heap[skel[c].obj][Asked(c).i]>>, Query(c))>>)
    <3>1. skel[c].obj \in Obj
      BY <1>1, <2>4 DEF RemoteTypes, SkelType
    <3>2. heap' \in [Obj -> [Cell -> Val]]
      BY <1>1, <2>2, <2>4, <3>1, HeapWrite
    <3>3. <<heap[skel[c].obj][Asked(c).i]>> \in Seq(Val)
      BY <1>1, <2>2, <3>1 DEF RemoteTypes
    <3>4. QED
      BY <1>2, <2>1, <2>4, <3>2, <3>3, IdleAnswerStep
  <2>5. QED
    BY <1>4, <2>3, <2>4 DEF ServeInvoke
<1>5. QED
  BY <1>3, <1>4

LEMMA ServeExitStep ==
  ASSUME Conversation, NEW c \in Conn, ServeExit(c), prog' = prog PROVE Conversation'
<1>1. /\ Reads(c, {"exit"}) /\ Answer(c, <<Reply(TRUE, << >>, Query(c))>>)
      /\ heap' \in [Obj -> [Cell -> Val]] /\ << >> \in Seq(Val)
      /\ UNCHANGED <<cvars, skel>>
  BY DEF ServeExit, Conversation, RemoteTypes
<1>2. QED
  BY <1>1, IdleAnswerStep

\* A Skeleton without object answers without having done anything.
LEMMA NullAnsweredStep ==
  ASSUME Conversation, NEW c \in Conn, NullAnswered(c), prog' = prog PROVE Conversation'
<1>1. UNCHANGED <<cvars, skel>> /\ heap' \in [Obj -> [Cell -> Val]]
  BY DEF NullAnswered, Conversation, RemoteTypes
<1>2. ASSUME NEW v \in Val, Reads(c, {"aload"}), Answer(c, <<Reply(TRUE, <<v>>, Query(c))>>)
      PROVE  Conversation'
  <2>1. <<v>> \in Seq(Val)
    OBVIOUS
  <2>2. QED
    BY <1>1, <1>2, <2>1, IdleAnswerStep
<1>3. << >> \in Seq(Val)
  OBVIOUS
<1>4. CASE Reads(c, {"astore"}) /\ Answer(c, <<Reply(TRUE, << >>, Query(c))>>)
  BY <1>1, <1>3, <1>4, IdleAnswerStep
<1>5. CASE Reads(c, {"copy"}) /\ Answer(c, <<Reply(FALSE, << >>, Query(c))>>)
  BY <1>1, <1>3, <1>5, IdleAnswerStep
<1>6. QED
  BY <1>2, <1>4, <1>5 DEF NullAnswered

\* run() ends and the connection with it.
LEMMA EndStep ==
  ASSUME Conversation, NEW c \in Conn, End(c), UNCHANGED <<prog, cvars, heap>>
  PROVE  Conversation'
<1>1. RemoteTypes /\ skel[c] \in SkelType /\ SkelOK(skel[c]) /\ link[c] \in LinkType
  BY DEF Conversation, RemoteTypes, ConnOK
<1>2. /\ skel' \in [Conn -> SkelType] /\ \A d \in Conn \ {c} : skel'[d] = skel[d]
      /\ skel'[c] = NoSkel /\ heap' \in [Obj -> [Cell -> Val]]
  BY <1>1, NoSkelFacts DEF End, RemoteTypes
<1>3. /\ \A d \in Conn \ {c} : link'[d] = link[d]
      /\ ~link'[c].up /\ link'[c].req = << >> /\ link'[c].buf = << >> /\ link'[c].rep = link[c].rep
  BY <1>1 DEF End, RemoteTypes, LinkType
<1>4. link' \in [Conn -> LinkType]
  <2>1. [link[c] EXCEPT !.up = FALSE, !.req = << >>, !.buf = << >>] \in LinkType
    <3>1. << >> \in Seq(RequestType)
      OBVIOUS
    <3>2. QED
      BY <1>1, <3>1 DEF LinkType
  <2>2. QED
    BY <1>1, <2>1 DEF End, RemoteTypes
<1>5. /\ \A q, left : Asks(q, left) /\ Waited(link[c], skel[c], q, left)
                        => Waited(link'[c], skel'[c], q, left)
      /\ Unwaited(link[c], skel[c]) => Unwaited(link'[c], skel'[c])
  BY <1>1, <1>3, <1>4, GoesDown
<1>6. SkelOK(skel'[c]) /\ UNCHANGED <<prog, cvars>>
  BY <1>2, NoSkelFacts
<1>7. QED
  BY <1>2, <1>3, <1>4, <1>5, <1>6, ServerFrame DEF cvars

\* A request is read that the Skeleton answers later.
LEMMA LaterStep ==
  ASSUME Conversation, NEW c \in Conn, NEW ms, Reads(c, ms), ms \subseteq {"enter", "copy"},
         UNCHANGED <<prog, cvars, heap>>, NEW rs, rs = << >>, Answer(c, rs),
         skel' \in [Conn -> SkelType], \A d \in Conn \ {c} : skel'[d] = skel[d],
         SkelOK(skel'[c]), skel'[c].q = Query(c),
         \/ skel'[c].st = "enter"
         \/ skel'[c].st = "block" /\ skel'[c].op = Asked(c) /\ Asked(c).m = "copy"
  PROVE  Conversation'
<1>1. /\ RemoteTypes /\ skel[c] \in SkelType /\ skel'[c] \in SkelType
      /\ heap' \in [Obj -> [Cell -> Val]]
  BY DEF Conversation, RemoteTypes
<1>2. /\ skel[c].st = "idle" /\ link[c].up /\ link[c].req # << >> /\ ~IsElement(Query(c))
      /\ Asked(c).m \in {"enter", "copy"}
  BY ReadFacts
<1>3. rs \in Seq(ReplyType)
  OBVIOUS
<1>4. /\ link' \in [Conn -> LinkType]
      /\ \A d \in Conn \ {c} : link'[d] = link[d]
      /\ link'[c].up = link[c].up /\ link'[c].buf = link[c].buf
      /\ link'[c].req = Tail(link[c].req) /\ link'[c].rep = link[c].rep \o rs
      /\ link[c] \in LinkType /\ link'[c] \in LinkType
  BY <1>1, <1>2, <1>3, AnswerFacts
<1>5. link'[c].rep = link[c].rep
  <2>1. link[c].rep \in Seq(ReplyType)
    BY <1>4 DEF LinkType
  <2>2. QED
    BY <1>4, <2>1, ConcatEmptySeq
<1>6. ASSUME NEW q, NEW left, Asks(q, left), Waited(link[c], skel[c], q, left)
      PROVE  Waited(link'[c], skel'[c], q, left)
  BY <1>1, <1>2, <1>4, <1>5, <1>6, AnswerLater DEF Query, Asked
<1>7. ~Unwaited(link[c], skel[c])
  BY <1>1, <1>2, <1>4, HeadRequest DEF Query
<1>8. UNCHANGED <<prog, cvars>> /\ link'[c].up
  BY <1>2, <1>4
<1>9. QED
  BY <1>1, <1>2, <1>4, <1>6, <1>7, <1>8, ServerFrame DEF cvars

LEMMA ServeEnterStep ==
  ASSUME Conversation, NEW c \in Conn, ServeEnter(c), prog' = prog PROVE Conversation'
<1>1. RemoteTypes /\ skel[c] \in SkelType /\ SkelOK(skel[c])
  BY DEF Conversation, RemoteTypes, ConnOK
<1>2. /\ Reads(c, {"enter"}) /\ skel[c].obj # Null
      /\ skel' = [skel EXCEPT ![c].st = "enter", ![c].q = Query(c)]
      /\ Answer(c, << >>) /\ UNCHANGED <<prog, cvars, heap>>
  BY DEF ServeEnter
<1>3. Query(c) \in RequestType /\ Query(c).op.m = "enter" /\ skel[c].st = "idle"
  BY <1>2, ReadFacts
<1>4. /\ skel' \in [Conn -> SkelType] /\ (\A d \in Conn \ {c} : skel'[d] = skel[d])
      /\ skel'[c].st = "enter" /\ skel'[c].q = Query(c) /\ skel'[c].obj = skel[c].obj
      /\ skel'[c].k = skel[c].k /\ skel'[c].got = skel[c].got
  BY <1>1, <1>2, <1>3 DEF RemoteTypes, SkelType
<1>5. SkelOK(skel'[c])
  BY <1>1, <1>2, <1>3, <1>4 DEF SkelOK, SkelType
<1>6. QED
  BY <1>2, <1>4, <1>5, LaterStep

LEMMA ServeBlockStep ==
  ASSUME Conversation, NEW c \in Conn, ServeBlock(c), prog' = prog PROVE Conversation'
<1>1. RemoteTypes /\ skel[c] \in SkelType /\ SkelOK(skel[c])
  BY DEF Conversation, RemoteTypes, ConnOK
<1>2. /\ Reads(c, {"copy", "load", "store"}) /\ skel[c].obj # Null
      /\ UNCHANGED <<prog, cvars, heap>>
  BY DEF ServeBlock
<1>3. /\ skel[c].st = "idle" /\ link[c].up /\ link[c].req # << >> /\ ~IsElement(Query(c))
      /\ Query(c) \in RequestType /\ Asked(c) = Query(c).op
      /\ Asked(c).m \in {"copy", "load", "store"} /\ Asked(c) \in AllOp
  BY <1>2, ReadFacts
<1>4. Asked(c).i \in Cell /\ Count(Asked(c)) \in Nat
  BY <1>3, Asker, AskFacts
<1>5. Asked(c) \in OpType
  BY <1>3, OpFacts
<1>6. << >> \in Seq(Val) /\ TRUE \in BOOLEAN /\ heap' \in [Obj -> [Cell -> Val]]
  BY <1>1, <1>2 DEF RemoteTypes
<1>7. CASE Count(Asked(c)) = 0
  <2>1. skel' = skel /\ Answer(c, <<Reply(TRUE, << >>, Query(c))>>)
    BY <1>7 DEF ServeBlock
  <2>2. /\ skel' \in [Conn -> SkelType] /\ (\A d \in Conn \ {c} : skel'[d] = skel[d])
        /\ SkelOK(skel'[c]) /\ skel'[c].st = "idle"
    BY <1>1, <1>3, <2>1 DEF RemoteTypes
  <2>3. QED
    BY <1>2, <1>3, <1>6, <1>7, <2>1, <2>2, AnswerStep
<1>8. CASE Count(Asked(c)) > 0
  <2>1. skel' = [skel EXCEPT ![c].st = "block", ![c].op = Asked(c), ![c].q = Query(c)]
    BY <1>4, <1>8 DEF ServeBlock
  <2>2. /\ skel' \in [Conn -> SkelType] /\ (\A d \in Conn \ {c} : skel'[d] = skel[d])
        /\ skel'[c].st = "block" /\ skel'[c].op = Asked(c) /\ skel'[c].q = Query(c)
        /\ skel'[c].obj = skel[c].obj /\ skel'[c].k = skel[c].k
    BY <1>1, <1>3, <1>5, <2>1 DEF RemoteTypes, SkelType
  <2>3. SkelOK(skel'[c]) /\ skel'[c].k = 0
    BY <1>1, <1>2, <1>3, <1>4, <1>8, <2>2 DEF SkelOK, SkelType
  <2>4. CASE Asked(c).m = "copy"
    <3>1. Answer(c, << >>) /\ Reads(c, {"copy"})
      BY <1>2, <1>8, <2>4 DEF ServeBlock, Reads, Asked, Query
    <3>2. QED
      BY <1>2, <2>2, <2>3, <2>4, <3>1, LaterStep
  <2>5. CASE Asked(c).m \in {"load", "store"}
    <3>1. Answer(c, <<Reply(TRUE, << >>, Query(c))>>) /\ Count(Asked(c)) # 0
      BY <1>4, <1>8, <2>5 DEF ServeBlock
    <3>2. QED
      BY <1>2, <1>3, <1>6, <2>2, <2>3, <2>5, <3>1, AnswerStep
  <2>6. QED
    BY <1>3, <2>4, <2>5
<1>9. QED
  BY <1>4, <1>7, <1>8

\* The local variables of run() after an element of a block.
LEMMA NextElement ==
  ASSUME NEW K \in SkelType, SkelOK(K), K.st = "block", NEW got \in Seq(Val)
  PROVE  LET J1 == [K EXCEPT !.k = @ + 1, !.got = got]
             J2 == [K EXCEPT !.st = "idle", !.op = NoOp, !.q = Null, !.k = 0, !.got = << >>]
         IN /\ J1 \in SkelType /\ J1.st = "block" /\ J1.op = K.op /\ J1.q = K.q /\ J1.k = K.k + 1
            /\ J1.obj = K.obj /\ J1.w = K.w
            /\ K.k + 1 < Count(K.op) => SkelOK(J1)
            /\ J2 \in SkelType /\ J2.st = "idle" /\ J2.obj = K.obj /\ J2.w = K.w
            /\ SkelOK(J2)
<1> DEFINE J1 == [K EXCEPT !.k = @ + 1, !.got = got]
           J2 == [K EXCEPT !.st = "idle", !.op = NoOp, !.q = Null, !.k = 0, !.got = << >>]
<1>1. K.k \in Nat /\ << >> \in Seq(Val)
  BY DEF SkelType
<1>2. /\ J1 \in SkelType /\ J1.st = "block" /\ J1.op = K.op /\ J1.q = K.q /\ J1.k = K.k + 1
      /\ J1.obj = K.obj /\ J1.w = K.w
  <2>1. K.k + 1 \in Nat
    BY <1>1
  <2>2. J1.st = "block" /\ J1.op = K.op /\ J1.q = K.q /\ J1.k = K.k + 1 /\ J1.obj = K.obj /\ J1.w = K.w
    BY DEF SkelType
  <2> DEFINE n == K.k + 1
  <2>3. J1 = [K EXCEPT !.k = n, !.got = got]
    OBVIOUS
  <2> HIDE DEF n, J1
  <2>4. n \in Nat
    BY <2>1 DEF n
  <2>5. J1 \in SkelType
    BY <2>3, <2>4 DEF SkelType
  <2>6. QED
    BY <2>2, <2>5
<1>3. J2 \in SkelType /\ J2.st = "idle" /\ J2.k = 0 /\ J2.got = << >> /\ J2.obj = K.obj /\ J2.w = K.w
  BY <1>1, NoSkelFacts DEF SkelType
<1> HIDE DEF J1, J2
<1>4. K.k + 1 < Count(K.op) => SkelOK(J1)
  BY <1>2 DEF SkelOK
<1>5. SkelOK(J2)
  BY <1>3 DEF SkelOK
<1>6. QED
  BY <1>2, <1>3, <1>4, <1>5 DEF J1, J2

\* After an element of a block: the next one, or idle after the last.
LEMMA AdvanceFacts ==
  ASSUME RemoteTypes, NEW c \in Conn, SkelOK(skel[c]), skel[c].st = "block",
         NEW got \in Seq(Val), Advance(c, got)
  PROVE  /\ skel' \in [Conn -> SkelType] /\ SkelOK(skel'[c])
         /\ \A d \in Conn \ {c} : skel'[d] = skel[d]
         /\ skel'[c].obj = skel[c].obj /\ skel'[c].w = skel[c].w
         /\ \/ /\ skel'[c].st = "idle" /\ skel[c].k + 1 = Count(skel[c].op)
            \/ /\ skel[c].k + 1 < Count(skel[c].op)
               /\ skel'[c].st = "block" /\ skel'[c].op = skel[c].op
               /\ skel'[c].q = skel[c].q /\ skel'[c].k = skel[c].k + 1
<1> DEFINE K == skel[c]
           J1 == [K EXCEPT !.k = @ + 1, !.got = got]
           J2 == [K EXCEPT !.st = "idle", !.op = NoOp, !.q = Null, !.k = 0, !.got = << >>]
<1>1. K \in SkelType /\ K.k \in Nat
  BY DEF RemoteTypes, SkelType
<1>2. Count(K.op) \in Int /\ K.k < Count(K.op)
  BY <1>1, RemoteAssumption DEF SkelType, SkelOK, OpType, Count, Cell
<1>3. /\ K.k + 1 < Count(K.op) => skel' = [skel EXCEPT ![c] = J1]
      /\ ~(K.k + 1 < Count(K.op)) => skel' = [skel EXCEPT ![c] = J2]
  BY DEF Advance, RemoteTypes
<1>4. /\ J1 \in SkelType /\ J1.st = "block" /\ J1.op = K.op /\ J1.q = K.q /\ J1.k = K.k + 1
      /\ J1.obj = K.obj /\ J1.w = K.w
      /\ K.k + 1 < Count(K.op) => SkelOK(J1)
      /\ J2 \in SkelType /\ J2.st = "idle" /\ J2.obj = K.obj /\ J2.w = K.w
      /\ SkelOK(J2)
  BY <1>1, NextElement
<1> HIDE DEF J1, J2
<1>5. CASE K.k + 1 < Count(K.op)
  <2>1. skel' = [skel EXCEPT ![c] = J1]
    BY <1>3, <1>5
  <2>2. QED
    BY <1>4, <1>5, <2>1 DEF RemoteTypes
<1>6. CASE ~(K.k + 1 < Count(K.op))
  <2>1. skel' = [skel EXCEPT ![c] = J2]
    BY <1>3, <1>6
  <2>2. K.k + 1 = Count(K.op)
    BY <1>1, <1>2, <1>6
  <2>3. QED
    BY <1>4, <2>1, <2>2 DEF RemoteTypes
<1>7. QED
  BY <1>5, <1>6

\* What link[c] is after replies to a request that has been read before.
LEMMA RepliesFacts ==
  ASSUME RemoteTypes, NEW c \in Conn, NEW rs \in Seq(ReplyType),
         link' = [link EXCEPT ![c].rep = @ \o rs]
  PROVE  /\ link' \in [Conn -> LinkType]
         /\ \A d \in Conn \ {c} : link'[d] = link[d]
         /\ link'[c].up = link[c].up /\ link'[c].buf = link[c].buf
         /\ link'[c].req = link[c].req /\ link'[c].rep = link[c].rep \o rs
         /\ link'[c] \in LinkType
<1>1. link \in [Conn -> LinkType] /\ link[c] \in LinkType
  BY DEF RemoteTypes
<1>2. link[c].rep \o rs \in Seq(ReplyType)
  BY <1>1, ConcatFacts DEF LinkType
<1>3. /\ \A d \in Conn \ {c} : link'[d] = link[d]
      /\ link'[c].up = link[c].up /\ link'[c].buf = link[c].buf
      /\ link'[c].req = link[c].req /\ link'[c].rep = link[c].rep \o rs
  BY <1>1 DEF LinkType
<1>4. link' \in [Conn -> LinkType]
  BY <1>1, <1>2 DEF LinkType
<1>5. QED
  BY <1>1, <1>3, <1>4

\* The Skeleton replies to a request it has read before.
LEMMA ReplyStep ==
  ASSUME Conversation, NEW c \in Conn, UNCHANGED <<prog, cvars, heap>>,
         link[c].up, Replying(skel[c]), NEW vals \in Seq(Val),
         link' = [link EXCEPT ![c].rep = @ \o <<Reply(TRUE, vals, skel[c].q)>>],
         skel' \in [Conn -> SkelType], \A d \in Conn \ {c} : skel'[d] = skel[d],
         SkelOK(skel'[c]),
         \/ skel'[c].st = "idle" /\ (skel[c].st = "block" => skel[c].k + 1 = Count(skel[c].op))
         \/ /\ skel[c].st = "block" /\ skel[c].op.m = "load" /\ skel'[c].st = "block"
            /\ skel'[c].op = skel[c].op /\ skel'[c].q = skel[c].q /\ skel'[c].k = skel[c].k + 1
  PROVE  Conversation'
<1>1. /\ RemoteTypes /\ skel[c] \in SkelType /\ skel'[c] \in SkelType /\ link[c] \in LinkType
      /\ SkelOK(skel[c]) /\ heap' \in [Obj -> [Cell -> Val]]
  BY DEF Conversation, RemoteTypes, ConnOK
<1>2. skel[c].q \in RequestType
  BY <1>1 DEF SkelOK, Replying
<1> DEFINE r == Reply(TRUE, vals, skel[c].q)
           rs == <<r>>
<1>3. r \in ReplyType /\ r.to = skel[c].q /\ r.ok
  BY <1>2 DEF Reply, ReplyType
<1>5. link' = [link EXCEPT ![c].rep = @ \o rs]
  OBVIOUS
<1> HIDE DEF r
<1>4. rs \in Seq(ReplyType)
  BY <1>3
<1> HIDE DEF rs
<1>7. /\ link' \in [Conn -> LinkType]
      /\ \A d \in Conn \ {c} : link'[d] = link[d]
      /\ link'[c].up = link[c].up /\ link'[c].buf = link[c].buf
      /\ link'[c].req = link[c].req /\ link'[c].rep = link[c].rep \o rs
      /\ link'[c] \in LinkType
  BY <1>1, <1>4, <1>5, RepliesFacts
<1>8. ASSUME NEW q, NEW left, Asks(q, left), Waited(link[c], skel[c], q, left)
      PROVE  Waited(link'[c], skel'[c], q, left)
  BY <1>1, <1>3, <1>7, <1>8, ReplyNow DEF rs
<1>9. ~Unwaited(link[c], skel[c])
  BY DEF Unwaited
<1>10. UNCHANGED <<prog, cvars>>
  OBVIOUS
<1>11. QED
  BY <1>1, <1>7, <1>8, <1>9, <1>10, ServerFrame DEF cvars

LEMMA EnterStep ==
  ASSUME Conversation, NEW c \in Conn, Enter(c), prog' = prog PROVE Conversation'
<1>1. UNCHANGED <<prog, cvars, heap>> /\ skel[c].st = "enter"
  BY DEF Enter
<1>2. CASE ~link[c].up /\ End(c)
  BY <1>1, <1>2, EndStep
<1>3. CASE /\ link[c].up
           /\ link' = [link EXCEPT ![c].rep = Append(@, Reply(TRUE, << >>, skel[c].q))]
           /\ skel' = [skel EXCEPT ![c].st = "idle", ![c].q = Null]
  <2>1. RemoteTypes /\ skel[c] \in SkelType /\ SkelOK(skel[c]) /\ link[c] \in LinkType
    BY DEF Conversation, RemoteTypes, ConnOK
  <2>2. /\ skel' \in [Conn -> SkelType] /\ (\A d \in Conn \ {c} : skel'[d] = skel[d])
        /\ skel'[c].st = "idle" /\ skel'[c].k = skel[c].k /\ skel'[c].got = skel[c].got
    BY <1>3, <2>1 DEF RemoteTypes, SkelType
  <2>3. SkelOK(skel'[c])
    BY <1>1, <2>1, <2>2 DEF SkelOK
  <2>4. Reply(TRUE, << >>, skel[c].q) \in ReplyType /\ << >> \in Seq(Val)
    <3>1. << >> \in Seq(Val)
      OBVIOUS
    <3>2. QED
      BY <1>1, <2>1, <3>1 DEF SkelOK, Reply, ReplyType
  <2>5. Append(link[c].rep, Reply(TRUE, << >>, skel[c].q))
          = link[c].rep \o <<Reply(TRUE, << >>, skel[c].q)>>
    BY <2>1, <2>4, AppendIsConcat DEF LinkType
  <2>6. link' = [link EXCEPT ![c].rep = @ \o <<Reply(TRUE, << >>, skel[c].q)>>]
    BY <1>3, <2>5
  <2>7. Replying(skel[c])
    BY <1>1 DEF Replying
  <2>8. QED
    BY <1>1, <1>3, <2>2, <2>3, <2>4, <2>6, <2>7, ReplyStep
<1>4. QED
  BY <1>2, <1>3 DEF Enter

\* A read or write fails, or the Skeleton has no object.
LEMMA EndsStep ==
  ASSUME Conversation, NEW c \in Conn, NullAccess(c) \/ Unfit(c) \/ Lost(c), prog' = prog
  PROVE  Conversation'
<1>1. End(c) /\ UNCHANGED <<prog, cvars, heap>>
  BY DEF NullAccess, Unfit, Lost
<1>2. QED
  BY <1>1, EndStep

\* The element that a block has come to lies in the object.
LEMMA BlockCell ==
  ASSUME NEW K \in SkelType, SkelOK(K), K.st = "block"
  PROVE  K.op.i + K.k \in Cell /\ K.obj \in Obj
BY RemoteAssumption DEF SkelOK, SkelType, OpType, Count, Cell

LEMMA SameLink ==
  ASSUME NEW L \in LinkType, NEW M \in LinkType,
         M.up = L.up, M.req = L.req, M.rep = L.rep, M.buf = L.buf
  PROVE  M = L
BY DEF LinkType

\* One element of a block is read from the object: ARYBLOCKLOAD replies each
\* time, GETARYCOPY after the last one.
LEMMA BlockReadStep ==
  ASSUME Conversation, NEW c \in Conn, BlockRead(c), prog' = prog PROVE Conversation'
<1> DEFINE sk == skel[c]
           v == heap[sk.obj][sk.op.i + sk.k]
           got == IF sk.op.m = "copy" THEN Append(sk.got, v) ELSE << >>
           out == IF sk.op.m = "load" THEN <<Reply(TRUE, <<v>>, sk.q)>>
                  ELSE IF sk.k + 1 = Count(sk.op) THEN <<Reply(TRUE, got, sk.q)>> ELSE << >>
<1>1. RemoteTypes /\ SockOK /\ sk \in SkelType /\ SkelOK(sk) /\ link[c] \in LinkType
  BY DEF Conversation, RemoteTypes, ConnOK
<1>2. /\ sk.st = "block" /\ sk.op.m # "store" /\ link[c].up
      /\ link' = [link EXCEPT ![c].rep = @ \o out]
      /\ Advance(c, got) /\ UNCHANGED <<prog, cvars, heap>>
  BY DEF BlockRead
<1>3. sk.op.m \in {"copy", "load"} /\ sk.obj \in Obj /\ sk.q \in RequestType /\ Replying(sk)
  BY <1>1, <1>2 DEF SkelOK, Replying
<1>4. sk.op.i + sk.k \in Cell
  BY <1>1, <1>2, BlockCell
<1>5. v \in Val
  BY <1>1, <1>3, <1>4 DEF RemoteTypes
<1> HIDE DEF v
<1>6. got \in Seq(Val) /\ <<v>> \in Seq(Val)
  <2>1. sk.got \in Seq(Val)
    BY <1>1 DEF SkelType
  <2>2. QED
    BY <1>5, <2>1
<1> HIDE DEF got
<1>7. /\ skel' \in [Conn -> SkelType] /\ SkelOK(skel'[c])
      /\ \A d \in Conn \ {c} : skel'[d] = skel[d]
      /\ \/ /\ skel'[c].st = "idle" /\ skel[c].k + 1 = Count(skel[c].op)
         \/ /\ skel[c].k + 1 < Count(skel[c].op)
            /\ skel'[c].st = "block" /\ skel'[c].op = skel[c].op
            /\ skel'[c].q = skel[c].q /\ skel'[c].k = skel[c].k + 1
  BY <1>1, <1>2, <1>6, AdvanceFacts
<1>8. CASE sk.op.m = "load"
  <2>1. link' = [link EXCEPT ![c].rep = @ \o <<Reply(TRUE, <<v>>, skel[c].q)>>]
    BY <1>2, <1>8
  <2>2. QED
    BY <1>2, <1>3, <1>6, <1>7, <1>8, <2>1, ReplyStep
<1>9. CASE sk.op.m # "load" /\ sk.k + 1 = Count(sk.op)
  <2>1. link' = [link EXCEPT ![c].rep = @ \o <<Reply(TRUE, got, skel[c].q)>>]
    BY <1>2, <1>9
  <2>2. skel'[c].st = "idle"
    <3>1. sk.k \in Nat /\ Count(sk.op) \in Int
      BY <1>1, <1>2, RemoteAssumption DEF SkelOK, SkelType, OpType, Count, Cell
    <3>2. QED
      BY <1>7, <1>9, <3>1
  <2>3. QED
    BY <1>2, <1>3, <1>6, <1>7, <1>9, <2>1, <2>2, ReplyStep
<1>10. CASE sk.op.m # "load" /\ sk.k + 1 # Count(sk.op)
  <2>1. out = << >>
    BY <1>10
  <2>2. link[c].rep \in Seq(ReplyType)
    BY <1>1 DEF LinkType
  <2> HIDE DEF out
  <2>3. out \in Seq(ReplyType) /\ link[c].rep \o out = link[c].rep
    BY <2>1, <2>2, ConcatEmptySeq
  <2>4. /\ link' \in [Conn -> LinkType]
        /\ \A d \in Conn \ {c} : link'[d] = link[d]
        /\ link'[c].up = link[c].up /\ link'[c].buf = link[c].buf
        /\ link'[c].req = link[c].req /\ link'[c].rep = link[c].rep \o out
        /\ link'[c] \in LinkType
    BY <1>1, <1>2, <2>3, RepliesFacts
  <2>5. link'[c] = link[c]
    BY <1>1, <2>3, <2>4, SameLink
  <2>6. skel'[c] \in SkelType /\ skel'[c].st = "block" /\ skel'[c].op = sk.op /\ skel'[c].q = sk.q
    BY <1>7, <1>10
  <2>7. /\ \A q, left : Waited(link[c], skel[c], q, left) => Waited(link[c], skel'[c], q, left)
        /\ Unwaited(link[c], skel[c]) => Unwaited(link[c], skel'[c])
    BY <1>1, <1>2, <1>3, <1>10, <2>6, CopyGoesOn
  <2>8. heap' \in [Obj -> [Cell -> Val]] /\ UNCHANGED <<prog, cvars>>
    BY <1>1, <1>2 DEF RemoteTypes
  <2>9. QED
    BY <1>2, <1>7, <2>4, <2>5, <2>7, <2>8, ServerFrame DEF cvars
<1>11. QED
  BY <1>8, <1>9, <1>10

\* One element of a block is received and written.
LEMMA BlockWriteStep ==
  ASSUME Conversation, NEW c \in Conn, BlockWrite(c), prog' = prog PROVE Conversation'
<1> DEFINE sk == skel[c]
<1>1. RemoteTypes /\ SockOK /\ sk \in SkelType /\ SkelOK(sk) /\ link[c] \in LinkType
  BY DEF Conversation, RemoteTypes, ConnOK
<1>2. /\ sk.st = "block" /\ sk.op.m = "store" /\ link[c].up /\ link[c].req # << >>
      /\ Asked(c).m = "element" /\ UNCHANGED <<prog, cvars>>
      /\ heap' = [heap EXCEPT ![sk.obj][sk.op.i + sk.k] = Asked(c).v]
  BY DEF BlockWrite
<1>3. Answer(c, << >>) /\ Advance(c, << >>)
  BY DEF BlockWrite
<1>4. sk.op.i + sk.k \in Cell /\ sk.obj \in Obj
  BY <1>1, <1>2, BlockCell
<1>5. Query(c) \in RequestType /\ Asked(c).v \in Val
  <2>1. Query(c) \in RequestType
    BY <1>1, <1>2, TailFacts DEF Query, LinkType
  <2>2. QED
    BY <1>2, <2>1 DEF RequestType, Asked
<1>6. heap' \in [Obj -> [Cell -> Val]]
  BY <1>1, <1>2, <1>4, <1>5, HeapWrite
<1> DEFINE none == << >>
<1>7. none \in Seq(Val) /\ none \in Seq(ReplyType) /\ none = << >> /\ Answer(c, none) /\ Advance(c, none)
  BY <1>3
<1> HIDE DEF none
<1>8. /\ skel' \in [Conn -> SkelType] /\ SkelOK(skel'[c])
      /\ \A d \in Conn \ {c} : skel'[d] = skel[d]
      /\ \/ /\ skel'[c].st = "idle" /\ skel[c].k + 1 = Count(skel[c].op)
         \/ /\ skel[c].k + 1 < Count(skel[c].op)
            /\ skel'[c].st = "block" /\ skel'[c].op = skel[c].op
            /\ skel'[c].q = skel[c].q /\ skel'[c].k = skel[c].k + 1
  BY <1>1, <1>2, <1>7, AdvanceFacts
<1>9. /\ link' \in [Conn -> LinkType]
      /\ \A d \in Conn \ {c} : link'[d] = link[d]
      /\ link'[c].up = link[c].up /\ link'[c].buf = link[c].buf
      /\ link'[c].req = Tail(link[c].req) /\ link'[c].rep = link[c].rep \o none
      /\ link[c] \in LinkType /\ link'[c] \in LinkType
  BY <1>1, <1>2, <1>7, AnswerFacts
<1>10. link'[c].rep = link[c].rep
  <2>1. link[c].rep \in Seq(ReplyType)
    BY <1>9 DEF LinkType
  <2>2. QED
    BY <1>7, <1>9, <2>1, ConcatEmptySeq
<1>11. /\ Len(link'[c].req) = Len(link[c].req) - 1
       /\ \A i \in 1 .. Len(link'[c].req) : link'[c].req[i] = link[c].req[i + 1]
  <2>1. link[c].req \in Seq(RequestType)
    BY <1>9 DEF LinkType
  <2>2. QED
    BY <1>2, <1>9, <2>1, TailFacts
<1>12. IsElement(Head(link[c].req))
  BY <1>2 DEF IsElement, Asked, Query
<1>13. skel'[c] \in SkelType /\ link'[c].up
  BY <1>2, <1>8, <1>9
<1>14. /\ \A q, left : Asks(q, left) /\ Waited(link[c], skel[c], q, left)
                        => Waited(link'[c], skel'[c], q, left)
       /\ Unwaited(link[c], skel[c]) => Unwaited(link'[c], skel'[c])
  BY <1>1, <1>2, <1>8, <1>9, <1>10, <1>11, <1>12, <1>13, ElementRead
<1>15. QED
  BY <1>2, <1>6, <1>8, <1>9, <1>14, ServerFrame DEF cvars

\* A connection breaks.
LEMMA DropStep ==
  ASSUME Conversation, NEW c \in Conn, Drop(c), prog' = prog PROVE Conversation'
<1>1. RemoteTypes /\ skel[c] \in SkelType /\ SkelOK(skel[c]) /\ link[c] \in LinkType
  BY DEF Conversation, RemoteTypes, ConnOK
<1>2. link' = [link EXCEPT ![c] = Fresh] /\ skel' = skel /\ heap' = heap
      /\ sock' = sock /\ thr' = thr /\ inside' = inside
  BY DEF Drop
<1>3. Fresh \in LinkType /\ ~Fresh.up /\ Fresh.req = << >> /\ Fresh.buf = << >> /\ Fresh.rep = << >>
  BY FreshFacts
<1>4. /\ link' \in [Conn -> LinkType] /\ link'[c] = Fresh
      /\ \A d \in Conn \ {c} : link'[d] = link[d]
  BY <1>1, <1>2, <1>3 DEF RemoteTypes
<1>5. /\ \A q, left : Asks(q, left) /\ Waited(link[c], skel[c], q, left)
                        => Waited(link'[c], skel'[c], q, left)
      /\ Unwaited(link[c], skel[c]) => Unwaited(link'[c], skel'[c])
  BY <1>1, <1>2, <1>3, <1>4, GoesDown
<1>6. QED
  BY <1>1, <1>2, <1>3, <1>4, <1>5, ServerFrame DEF RemoteTypes

-----------------------------------------------------------------------------
(* What a thread does to one connection: it takes a reply, or it writes.   *)

\* The thread takes a reply.
LEMMA NextReply ==
  ASSUME NEW L \in LinkType, NEW K \in SkelType, NEW M \in LinkType, NEW q, NEW left,
         Asks(q, left), Waited(L, K, q, left), q.op.m # "store", SkelOK(K), L.rep # << >>,
         M.up = L.up, M.req = L.req, M.buf = L.buf, M.rep = Tail(L.rep)
  PROVE  Waited(M, K, q, left - 1) /\ Asks(q, left - 1)
<1>1. L.rep \in Seq(ReplyType) /\ left \in Nat /\ Replies(q.op) \in Nat /\ left <= Replies(q.op)
  BY AskFacts DEF LinkType, Asks
<1>2. /\ Len(L.rep) \in Nat /\ Len(L.rep) >= 1 /\ Len(M.rep) = Len(L.rep) - 1
      /\ \A i \in 1 .. Len(M.rep) : M.rep[i] = L.rep[i + 1]
  BY <1>1, TailFacts
<1>3. ToCome(M, K) = ToCome(L, K) /\ (Unread(M) <=> Unread(L))
  BY DEF ToCome, Unread
<1>4. L.up => left = Len(L.rep) + ToCome(L, K) /\ ToCome(L, K) \in Nat
  BY ToComeNat DEF Waited
<1>5. ~L.up => Len(L.rep) <= left
  BY DEF Waited
<1>6. left - 1 \in Nat /\ left - 1 <= Replies(q.op)
  BY <1>1, <1>2, <1>4, <1>5
<1>7. IF M.up THEN left - 1 = Len(M.rep) + ToCome(M, K) ELSE Len(M.rep) <= left - 1
  BY <1>1, <1>2, <1>3, <1>4, <1>5
<1>8. \A i \in 1 .. Len(M.rep) : i + 1 \in 1 .. Len(L.rep)
  BY <1>2
<1>9. \A i \in 1 .. Len(M.rep) : M.rep[i].to = q /\ (q.op.m \in {"load", "store"} => M.rep[i].ok)
  BY <1>2, <1>8 DEF Waited
<1>10. ToWrite(M, q) = 0 /\ ToWrite(L, q) = 0
  BY DEF ToWrite
<1>11. Waited(M, K, q, left - 1)
  BY <1>3, <1>7, <1>9, <1>10 DEF Waited
<1>12. QED
  BY <1>6, <1>11 DEF Asks

\* The thread has taken all the replies to its request.
LEMMA NoneLeft ==
  ASSUME NEW L \in LinkType, NEW K \in SkelType, NEW q, Asks(q, 0), Waited(L, K, q, 0), SkelOK(K)
  PROVE  Unwaited(L, K)
<1>1. L.rep \in Seq(ReplyType) /\ L.req \in Seq(RequestType)
  BY DEF LinkType
<1>2. L.up => 0 = Len(L.rep) + ToCome(L, K) /\ ToCome(L, K) \in Nat
  BY ToComeNat DEF Waited
<1>3. Len(L.rep) \in Nat /\ (~L.up => Len(L.rep) <= 0)
  BY <1>1 DEF Waited
<1>4. Len(L.rep) <= 0 /\ (L.up => ToCome(L, K) = 0)
  BY <1>2, <1>3
<1>5. L.rep = << >>
  BY <1>1, <1>3, <1>4
<1>6. ASSUME L.up PROVE ~Unread(L) /\ ~Replying(K)
  <2>1. ~Unread(L)
    <3>1. SUFFICES ASSUME Unread(L) PROVE FALSE
      OBVIOUS
    <3>2. Len(L.req) \in 1 .. Len(L.req)
      BY <1>1, <3>1 DEF Unread
    <3>3. L.req[Len(L.req)] = q
      BY <3>1, <3>2 DEF Waited, Unread
    <3>4. ToCome(L, K) = Replies(q.op)
      BY <3>1, <3>3 DEF ToCome
    <3>5. QED
      BY <1>4, <1>6, <3>4, AskFacts
  <2>2. ~Replying(K)
    <3>1. SUFFICES ASSUME Replying(K) PROVE FALSE
      OBVIOUS
    <3>2. CASE K.st = "block" /\ K.op.m = "load"
      <4>1. K.op = q.op
        BY <1>6, <3>1, <3>2 DEF Waited
      <4>2. Count(K.op) \in Nat /\ K.k \in Nat /\ K.k < Count(K.op)
        BY <3>2, <4>1, AskFacts DEF SkelOK, SkelType
      <4>3. QED
        BY <1>4, <1>6, <2>1, <3>2, <4>2 DEF ToCome
    <3>3. CASE ~(K.st = "block" /\ K.op.m = "load")
      BY <1>4, <1>6, <2>1, <3>1, <3>3 DEF ToCome
    <3>4. QED
      BY <3>2, <3>3
  <2>3. QED
    BY <2>1, <2>2
<1>7. \A i \in 1 .. Len(L.req) : IsElement(L.req[i])
  <2>1. CASE L.up
    <3>1. ASSUME NEW i \in 1 .. Len(L.req), i = Len(L.req) PROVE IsElement(L.req[i])
      <4>1. L.req # << >>
        BY <1>1, <3>1
      <4>2. QED
        BY <1>6, <2>1, <3>1, <4>1 DEF Unread
    <3>2. QED
      BY <3>1 DEF Waited
  <2>2. CASE ~L.up
    BY <2>2 DEF Waited
  <2>3. QED
    BY <2>1, <2>2
<1>8. L.buf = << >>
  BY DEF Waited
<1>9. StoresFit /\ L.up => Expected(K) = Len(L.req) + Len(L.buf)
  <2>1. Len(L.req) \in Nat /\ Len(L.buf) = 0
    BY <1>1, <1>8
  <2>2. StoresFit /\ L.up => Expected(K) = Len(L.req) - 0 + ToWrite(L, q)
    BY <1>6 DEF Waited
  <2>3. ToWrite(L, q) = 0
    BY <1>5 DEF ToWrite
  <2>4. QED
    BY <2>1, <2>2, <2>3
<1>10. QED
  BY <1>5, <1>6, <1>7, <1>8, <1>9 DEF Unwaited

\* The thread takes the only reply to its request.
LEMMA OnlyReply ==
  ASSUME NEW L \in LinkType, NEW K \in SkelType, NEW M \in LinkType, NEW q,
         Asks(q, 1), Waited(L, K, q, 1), q.op.m # "store", SkelOK(K), L.rep # << >>,
         M.up = L.up, M.req = L.req, M.buf = L.buf, M.rep = Tail(L.rep)
  PROVE  Unwaited(M, K)
<1>1. Waited(M, K, q, 1 - 1) /\ Asks(q, 1 - 1)
  BY NextReply
<1>2. 1 - 1 = 0
  OBVIOUS
<1>3. QED
  BY <1>1, <1>2, NoneLeft

\* The thread gives up, the connection being lost.
LEMMA GivesUp ==
  ASSUME NEW L, NEW K, NEW q, NEW left, Waited(L, K, q, left), ~L.up, L.rep = << >>
  PROVE  Unwaited(L, K)
BY DEF Waited, Unwaited

Queue(s, b, q) == (s \o b) \o <<q>>

\* A request is put behind what is in the queue and in the buffer.
LEMMA QueueFacts ==
  ASSUME NEW s \in Seq(RequestType), NEW b \in Seq(RequestType), NEW q \in RequestType
  PROVE  /\ Queue(s, b, q) \in Seq(RequestType)
         /\ Len(s) \in Nat /\ Len(b) \in Nat
         /\ Len(s) + Len(b) + 1 = Len(Queue(s, b, q))
         /\ Queue(s, b, q)[Len(s) + Len(b) + 1] = q
         /\ \A i \in 1 .. Len(s) : Queue(s, b, q)[i] = s[i]
         /\ \A i \in 1 .. Len(b) : Queue(s, b, q)[Len(s) + i] = b[i]
<1> DEFINE r == <<q>>
           m == s \o b
<1>1. r \in Seq(RequestType) /\ Len(r) = 1 /\ r[1] = q
  OBVIOUS
<1> HIDE DEF r
<1>2. /\ m \in Seq(RequestType) /\ Len(m) = Len(s) + Len(b) /\ Len(s) \in Nat /\ Len(b) \in Nat
      /\ \A i \in 1 .. Len(s) : m[i] = s[i]
      /\ \A i \in 1 .. Len(b) : m[Len(s) + i] = b[i]
  BY ConcatFacts
<1> HIDE DEF m
<1>3. /\ m \o r \in Seq(RequestType) /\ Len(m \o r) = Len(m) + 1 /\ Len(m) \in Nat
      /\ \A i \in 1 .. Len(m) : (m \o r)[i] = m[i]
      /\ (m \o r)[Len(m) + 1] = q
  <2>1. /\ m \o r \in Seq(RequestType) /\ Len(m \o r) = Len(m) + Len(r) /\ Len(m) \in Nat
        /\ \A i \in 1 .. Len(m) : (m \o r)[i] = m[i]
        /\ \A i \in 1 .. Len(r) : (m \o r)[Len(m) + i] = r[i]
    <3>1. m \in Seq(RequestType) /\ r \in Seq(RequestType)
      BY <1>1, <1>2
    <3>2. QED
      BY <3>1, ConcatFacts
  <2>2. 1 \in 1 .. Len(r)
    BY <1>1
  <2>3. QED
    BY <1>1, <2>1, <2>2
<1> DEFINE x == m \o r
<1> HIDE DEF x
<1>4. \A i \in 1 .. Len(m) : x[i] = m[i]
  BY <1>3 DEF x
<1>5. \A i \in 1 .. Len(s) : x[i] = s[i]
  <2>1. \A i \in 1 .. Len(s) : i \in 1 .. Len(m)
    BY <1>2
  <2>2. QED
    BY <1>2, <1>4, <2>1
<1>6. \A i \in 1 .. Len(b) : x[Len(s) + i] = b[i]
  <2>1. \A i \in 1 .. Len(b) : Len(s) + i \in 1 .. Len(m)
    BY <1>2
  <2>2. QED
    BY <1>2, <1>4, <2>1
<1>7. x \in Seq(RequestType) /\ Len(x) = Len(s) + Len(b) + 1 /\ x[Len(s) + Len(b) + 1] = q
  BY <1>2, <1>3 DEF x
<1>8. QED
  BY <1>2, <1>5, <1>6, <1>7 DEF x, m, r, Queue

IsEmpty(s) == s = << >>

\* The thread sends its request, behind what an earlier block store has left.
LEMMA RequestSent ==
  ASSUME NEW L \in LinkType, NEW K \in SkelType, NEW M \in LinkType, NEW q \in RequestType,
         Unwaited(L, K), L.up, M.up, ~IsElement(q), M.rep = L.rep, IsEmpty(M.buf),
         NEW n \in Nat, StoresFit => Expected(K) = n, n + 1 = Len(M.req), M.req[n + 1] = q,
         \A i \in 1 .. n : IsElement(M.req[i])
  PROVE  Waited(M, K, q, Replies(q.op))
<1>1. M.req \in Seq(RequestType)
  BY DEF LinkType
<1>2. Unread(M) /\ M.req[Len(M.req)] = q
  <2>1. M.req # << >>
    <3>1. Len(M.req) > 0
      OBVIOUS
    <3>2. QED
      BY <1>1, <3>1
  <2>2. QED
    BY <2>1 DEF Unread
<1>3. \A i \in 1 .. Len(M.req) : IsElement(M.req[i]) \/ (i = Len(M.req) /\ M.req[i] = q)
  <2>1. \A i \in 1 .. (n + 1) : i \in 1 .. n \/ i = n + 1
    OBVIOUS
  <2>2. QED
    BY <2>1
<1>4. ~Replying(K) /\ L.rep = << >> /\ Len(M.rep) = 0
  BY DEF Unwaited
<1>5. Replies(q.op) = Len(M.rep) + ToCome(M, K)
  <2>1. Replies(q.op) \in Int
    BY DEF Replies, RequestType, OpType
  <2>2. ToCome(M, K) = Replies(q.op)
    BY <1>2 DEF ToCome
  <2>3. QED
    BY <1>4, <2>1, <2>2
<1>6. StoresFit => Expected(K) = Len(M.req) - 1 + ToWrite(M, q)
  <2>1. ToWrite(M, q) = 0
    BY <1>4 DEF ToWrite
  <2>2. QED
    BY <2>1
<1>7. \A i \in 1 .. Len(M.rep) : FALSE
  BY <1>4
<1>8. QED
  BY <1>2, <1>3, <1>4, <1>5, <1>6, <1>7 DEF Waited, IsEmpty

\* The thread takes the reply to ARYBLOCKSTORE and writes the elements.
LEMMA ElementsWritten ==
  ASSUME NEW L \in LinkType, NEW K \in SkelType, NEW M \in LinkType, NEW q,
         Asks(q, 1), Waited(L, K, q, 1), q.op.m = "store", SkelOK(K), L.rep # << >>,
         NEW a \in Seq(RequestType), NEW b \in Seq(RequestType), q.op.n = Len(a) + Len(b),
         \A i \in 1 .. Len(a) : IsElement(a[i]), \A i \in 1 .. Len(b) : IsElement(b[i]),
         M.up = L.up, M.rep = Tail(L.rep), M.req = L.req \o a, M.buf = b
  PROVE  Unwaited(M, K)
<1>1. /\ L.rep \in Seq(ReplyType) /\ L.req \in Seq(RequestType) /\ M.rep \in Seq(ReplyType)
      /\ M.req \in Seq(RequestType)
  BY DEF LinkType
<1>2. Len(L.rep) \in Nat /\ Len(L.rep) >= 1 /\ Len(M.rep) = Len(L.rep) - 1
  BY <1>1, TailFacts
<1>3. L.up => 1 = Len(L.rep) + ToCome(L, K) /\ ToCome(L, K) \in Nat
  BY ToComeNat DEF Waited
<1>4. Len(L.rep) <= 1 /\ (L.up => ToCome(L, K) = 0)
  BY <1>2, <1>3 DEF Waited
<1>5. M.rep = << >>
  <2>1. Len(M.rep) <= 0 /\ Len(M.rep) >= 0
    BY <1>2, <1>4
  <2>2. QED
    BY <1>1, <2>1
<1>6. ASSUME L.up PROVE ~Unread(L) /\ ~Replying(K)
  <2>1. ~Unread(L)
    <3>1. SUFFICES ASSUME Unread(L) PROVE FALSE
      OBVIOUS
    <3>2. Len(L.req) \in 1 .. Len(L.req)
      BY <1>1, <3>1 DEF Unread
    <3>3. L.req[Len(L.req)] = q
      BY <3>1, <3>2 DEF Waited, Unread
    <3>4. ToCome(L, K) = Replies(q.op)
      BY <3>1, <3>3 DEF ToCome
    <3>5. QED
      BY <1>4, <1>6, <3>4, AskFacts
  <2>2. ~Replying(K)
    BY <1>4, <1>6, <2>1 DEF ToCome, Replying, Waited
  <2>3. QED
    BY <2>1, <2>2
<1>7. \A i \in 1 .. Len(L.req) : IsElement(L.req[i])
  <2>1. CASE L.up
    <3>1. ASSUME NEW i \in 1 .. Len(L.req), i = Len(L.req) PROVE IsElement(L.req[i])
      <4>1. L.req # << >>
        BY <1>1, <3>1
      <4>2. QED
        BY <1>6, <2>1, <3>1, <4>1 DEF Unread
    <3>2. QED
      BY <3>1 DEF Waited
  <2>2. CASE ~L.up
    BY <2>2 DEF Waited
  <2>3. QED
    BY <2>1, <2>2
<1>8. /\ Len(L.req) \in Nat /\ Len(a) \in Nat /\ Len(b) \in Nat
      /\ Len(M.req) = Len(L.req) + Len(a)
      /\ \A i \in 1 .. Len(L.req) : M.req[i] = L.req[i]
      /\ \A i \in 1 .. Len(a) : M.req[Len(L.req) + i] = a[i]
  BY <1>1, ConcatFacts
<1>9. \A i \in 1 .. Len(M.req) : IsElement(M.req[i])
  <2>1. SUFFICES ASSUME NEW i \in 1 .. Len(M.req) PROVE IsElement(M.req[i])
    OBVIOUS
  <2>2. CASE i <= Len(L.req)
    <3>1. i \in 1 .. Len(L.req)
      BY <1>8, <2>2
    <3>2. QED
      BY <1>7, <1>8, <3>1
  <2>3. CASE i > Len(L.req)
    <3>1. i - Len(L.req) \in 1 .. Len(a) /\ Len(L.req) + (i - Len(L.req)) = i
      BY <1>8, <2>3
    <3>2. M.req[i] = a[i - Len(L.req)]
      BY <1>8, <3>1
    <3>3. QED
      BY <3>1, <3>2
  <2>4. QED
    BY <1>8, <2>2, <2>3
<1>10. StoresFit /\ M.up => Expected(K) = Len(M.req) + Len(M.buf)
  <2>1. StoresFit /\ L.up => Expected(K) = Len(L.req) - 0 + ToWrite(L, q)
    BY <1>6 DEF Waited
  <2>2. ToWrite(L, q) = q.op.n
    BY DEF ToWrite
  <2>3. QED
    BY <1>8, <2>1, <2>2
<1>11. M.up => ~Replying(K)
  BY <1>6
<1>12. QED
  BY <1>5, <1>9, <1>10, <1>11 DEF Unwaited

-----------------------------------------------------------------------------
(* Steps of the threads.                                                   *)

\* A step of thread t that keeps the conversation on connection c in step, if
\* it touches one, keeps them all: no other thread has to do with c.
LEMMA ClientFrame ==
  ASSUME Unshared, Conversation, NEW t \in Thread, NEW c, UNCHANGED <<prog, heap>>,
         sock' \in [Proxy -> Conn \cup {Null}], inside' \in [Thread -> Proxy \cup {Null}],
         link' \in [Conn -> LinkType], skel' \in [Conn -> SkelType], thr' \in [Thread -> ThrType],
         \A u \in Thread \ {t} : thr'[u] = thr[u],
         \A d \in Conn \ {c} : link'[d] = link[d] /\ skel'[d] = skel[d],
         \A p \in Proxy \ Uses[t] : sock'[p] = sock[p],
         ThrOK(t)', SockOK',
         \A d \in Conn \ {c} : ~Waiting(t, d) /\ ~Waiting(t, d)',
         c \in Conn => /\ \A p \in Proxy \ Uses[t] : sock[p] # c
                       /\ SkelOK(skel'[c])
                       /\ IF Waiting(t, c)' THEN Waited(link'[c], skel'[c], Mine(t)', Left(t)')
                          ELSE Unwaited(link'[c], skel'[c])
  PROVE  Conversation'
<1>1. RemoteTypes /\ ThreadOK /\ \A d \in Conn : ConnOK(d)
  BY DEF Conversation
<1>2. RemoteTypes'
  BY <1>1 DEF RemoteTypes
<1>3. ASSUME NEW u \in Thread \ {t}, thr[u].pc # "app"
      PROVE  /\ thr[u].p \in Proxy \ Uses[t] /\ thr'[u] = thr[u]
             /\ sock'[thr[u].p] = sock[thr[u].p]
  <2>1. thr[u].p \in Uses[u]
    BY <1>1, <1>3 DEF ThreadOK, ThrOK
  <2>2. Uses[u] \subseteq Proxy /\ Uses[u] \cap Uses[t] = {}
    BY RemoteAssumption DEF Unshared
  <2>3. QED
    BY <2>1, <2>2
<1>4. ThreadOK'
  <2>1. ASSUME NEW u \in Thread \ {t} PROVE ThrOK(u)'
    <3>1. ThrOK(u) /\ thr'[u] = thr[u]
      BY <1>1 DEF ThreadOK
    <3>2. QED
      BY <1>3, <3>1 DEF ThrOK
  <2>2. QED
    BY <2>1 DEF ThreadOK
<1>5. ASSUME NEW u \in Thread \ {t}, NEW d \in Conn
      PROVE  /\ Waiting(u, d)' <=> Waiting(u, d)
             /\ Mine(u)' = Mine(u) /\ Left(u)' = Left(u)
             /\ Waiting(u, d) => d # c
  <2>1. thr'[u] = thr[u]
    OBVIOUS
  <2>2. Waiting(u, d)' <=> Waiting(u, d)
    BY <1>3, <2>1 DEF Waiting
  <2>3. Mine(u)' = Mine(u) /\ Left(u)' = Left(u)
    BY <2>1 DEF Mine, Left
  <2>4. Waiting(u, d) => d # c
    BY <1>3 DEF Waiting
  <2>5. QED
    BY <2>2, <2>3, <2>4
<1>6. ASSUME NEW d \in Conn PROVE ConnOK(d)'
  <2>1. CASE d # c
    <3>1. link'[d] = link[d] /\ skel'[d] = skel[d] /\ ~Waiting(t, d) /\ ~Waiting(t, d)' /\ ConnOK(d)
      BY <1>1, <2>1
    <3>2. ASSUME NEW u \in Thread, Waiting(u, d)'
          PROVE  Waited(link'[d], skel'[d], Mine(u)', Left(u)')
      <4>1. u # t
        BY <3>1, <3>2
      <4>2. Waiting(u, d) /\ Mine(u)' = Mine(u) /\ Left(u)' = Left(u)
        BY <1>5, <3>2, <4>1
      <4>3. QED
        BY <3>1, <4>2 DEF ConnOK
    <3>3. ASSUME \A u \in Thread : ~Waiting(u, d)' PROVE Unwaited(link'[d], skel'[d])
      <4>1. \A u \in Thread : ~Waiting(u, d)
        BY <1>5, <3>1, <3>3
      <4>2. QED
        BY <3>1, <4>1 DEF ConnOK
    <3>4. SkelOK(skel'[d])
      BY <3>1 DEF ConnOK
    <3>5. QED
      BY <3>2, <3>3, <3>4 DEF ConnOK
  <2>2. CASE d = c
    <3>1. \A u \in Thread \ {t} : ~Waiting(u, c)'
      BY <1>5, <2>2
    <3>2. QED
      BY <2>2, <3>1 DEF ConnOK
  <2>3. QED
    BY <2>1, <2>2
<1>7. QED
  BY <1>2, <1>4, <1>6 DEF Conversation

LEMMA AtAppFacts == AtApp \in ThrType /\ AtApp.pc = "app"
<1>1. << >> \in Seq(Val) /\ NoOp \in OpType
  BY NoSkelFacts
<1>2. QED
  BY <1>1 DEF AtApp, ThrType

\* A thread leaves the Proxy method without a connection.
LEMMA NotConnectedStep ==
  ASSUME Unshared, Conversation, NEW t \in Thread, NotConnected(t), prog' = prog
  PROVE  Conversation'
<1>1. RemoteTypes /\ SockOK
  BY DEF Conversation
<1>2. /\ thr[t].pc = "open" /\ thr' = [thr EXCEPT ![t] = AtApp]
      /\ UNCHANGED <<prog, sock, link, skel, heap, inside>>
  BY DEF NotConnected, Fail
<1>3. thr' \in [Thread -> ThrType] /\ thr'[t].pc = "app" /\ \A u \in Thread \ {t} : thr'[u] = thr[u]
  BY <1>1, <1>2, AtAppFacts DEF RemoteTypes
<1>4. /\ inside' \in [Thread -> Proxy \cup {Null}] /\ sock' \in [Proxy -> Conn \cup {Null}]
      /\ link' \in [Conn -> LinkType] /\ skel' \in [Conn -> SkelType]
  BY <1>1, <1>2 DEF RemoteTypes
<1>5. ThrOK(t)' /\ \A d \in Conn : ~Waiting(t, d) /\ ~Waiting(t, d)'
  BY <1>2, <1>3 DEF ThrOK, Waiting
<1>6. SockOK' /\ Null \notin Conn
  BY <1>1, <1>2, RemoteAssumption DEF SockOK
<1>7. QED
  BY <1>2, <1>3, <1>4, <1>5, <1>6, ClientFrame

\* A thread that has a connection is the only one to have to do with it.
LEMMA Talks ==
  ASSUME Unshared, Conversation, NEW t \in Thread,
         thr[t].pc \in {"ref", "send", "wait", "elems"}
  PROVE  /\ RemoteTypes /\ thr[t] \in ThrType /\ ThrOK(t) /\ SockOK
         /\ thr[t].p \in Uses[t] /\ thr[t].p \in Proxy /\ thr[t].op \in AllOp
         /\ Wire(t) \in Conn /\ Wire(t) = sock[thr[t].p]
         /\ \A p \in Proxy \ Uses[t] : sock[p] # Wire(t)
         /\ \A d \in Conn \ {Wire(t)} : ~Waiting(t, d)
         /\ link[Wire(t)] \in LinkType /\ skel[Wire(t)] \in SkelType /\ SkelOK(skel[Wire(t)])
         /\ IF thr[t].pc = "send" THEN Unwaited(link[Wire(t)], skel[Wire(t)])
            ELSE /\ Waited(link[Wire(t)], skel[Wire(t)], Mine(t), Left(t))
                 /\ Asks(Mine(t), Left(t))
<1>1. RemoteTypes /\ thr[t] \in ThrType /\ ThreadOK /\ ThrOK(t) /\ SockOK
  BY DEF Conversation, RemoteTypes, ThreadOK
<1>2. /\ thr[t].p \in Uses[t] /\ thr[t].op \in AllOp
      /\ Wire(t) \in Conn /\ Wire(t) = sock[thr[t].p]
  BY <1>1 DEF ThrOK, Wire
<1>3. thr[t].p \in Proxy
  BY <1>2, RemoteAssumption
<1>4. \A p \in Proxy \ Uses[t] : sock[p] # Wire(t)
  BY <1>1, <1>2, <1>3, RemoteAssumption DEF SockOK
<1>5. \A d \in Conn \ {Wire(t)} : ~Waiting(t, d)
  BY <1>2 DEF Waiting
<1>6. link[Wire(t)] \in LinkType /\ skel[Wire(t)] \in SkelType /\ ConnOK(Wire(t))
  BY <1>2 DEF Conversation, RemoteTypes
<1>7. CASE thr[t].pc = "send"
  <2>1. \A u \in Thread : ~Waiting(u, Wire(t))
    <3>1. ASSUME NEW u \in Thread, Waiting(u, Wire(t)) PROVE FALSE
      <4>1. u # t /\ thr[u].p \in Uses[u] /\ sock[thr[u].p] = Wire(t)
        BY <1>1, <1>7, <3>1 DEF Waiting, ThreadOK, ThrOK
      <4>2. Uses[u] \subseteq Proxy /\ Uses[u] \cap Uses[t] = {}
        BY <4>1, RemoteAssumption DEF Unshared
      <4>3. QED
        BY <1>4, <4>1, <4>2
    <3>2. QED
      BY <3>1
  <2>2. QED
    BY <1>1, <1>2, <1>3, <1>4, <1>5, <1>6, <1>7, <2>1 DEF ConnOK
<1>8. CASE thr[t].pc # "send"
  <2>1. Waiting(t, Wire(t))
    BY <1>2, <1>8 DEF Waiting
  <2>2. Waited(link[Wire(t)], skel[Wire(t)], Mine(t), Left(t)) /\ Asks(Mine(t), Left(t))
    BY <1>1, <1>2, <1>6, <2>1, WaiterAsks DEF ConnOK
  <2>3. QED
    BY <1>1, <1>2, <1>3, <1>4, <1>5, <1>6, <1>8, <2>2 DEF ConnOK
<1>9. QED
  BY <1>7, <1>8

\* The program calls a method of Proxy.
LEMMA CallStep ==
  ASSUME Unshared, Conversation, NEW t \in Thread, NEW p \in Proxy, NEW op \in MyOp,
         Call(t, p, op), prog' = prog
  PROVE  Conversation'
<1> DEFINE new == [pc |-> IF sock[p] = Null THEN "open" ELSE "send",
                   p |-> p, op |-> op, k |-> 0, got |-> << >>]
<1>1. RemoteTypes /\ SockOK
  BY DEF Conversation
<1>2. /\ thr[t].pc = "app" /\ p \in Uses[t] /\ thr' = [thr EXCEPT ![t] = new]
      /\ UNCHANGED <<sock, link, skel, heap>>
      /\ inside' = IF op.m = "exit" THEN [inside EXCEPT ![t] = Null] ELSE inside
  BY DEF Call
<1>3. op \in AllOp /\ op \in OpType
  BY OpFacts DEF MyOp
<1>4. new \in ThrType /\ new.k = 0
  <2>1. << >> \in Seq(Val) /\ 0 \in Nat
    OBVIOUS
  <2>2. QED
    BY <1>3, <2>1 DEF ThrType
<1>5. new.p = p /\ new.op = op /\ new.pc = IF sock[p] = Null THEN "open" ELSE "send"
  OBVIOUS
<1> HIDE DEF new
<1>6. thr' \in [Thread -> ThrType] /\ thr'[t] = new /\ \A u \in Thread \ {t} : thr'[u] = thr[u]
  BY <1>1, <1>2, <1>4 DEF RemoteTypes
<1>7. inside' \in [Thread -> Proxy \cup {Null}] /\ sock' \in [Proxy -> Conn \cup {Null}]
      /\ link' \in [Conn -> LinkType] /\ skel' \in [Conn -> SkelType]
  BY <1>1, <1>2 DEF RemoteTypes
<1>8. ThrOK(t)'
  BY <1>1, <1>2, <1>3, <1>4, <1>5, <1>6 DEF ThrOK, RemoteTypes
<1>9. SockOK'
  BY <1>1, <1>2 DEF SockOK
<1>10. \A d \in Conn : ~Waiting(t, d) /\ ~Waiting(t, d)'
  BY <1>2, <1>5, <1>6 DEF Waiting
<1>11. Null \notin Conn
  BY RemoteAssumption
<1>12. QED
  BY <1>2, <1>6, <1>7, <1>8, <1>9, <1>10, <1>11, ClientFrame

\* A thread makes a connection; the server gives it to a pool thread.
LEMMA OpenStep ==
  ASSUME Unshared, Conversation, NEW t \in Thread, Open(t), prog' = prog PROVE Conversation'
<1> DEFINE p == thr[t].p
<1>1. RemoteTypes /\ ThrOK(t) /\ SockOK /\ thr[t] \in ThrType
  BY DEF Conversation, RemoteTypes, ThreadOK
<1>2. /\ thr[t].pc = "open" /\ thr' = [thr EXCEPT ![t].pc = "ref"]
      /\ UNCHANGED <<prog, heap, inside>>
  BY DEF Open
<1>3. PICK c \in Conn, w \in Worker :
        /\ skel[c] = NoSkel /\ ~link[c].up /\ \A q \in Proxy : sock[q] # c
        /\ sock' = [sock EXCEPT ![p] = c]
        /\ link' = [link EXCEPT ![c] = [Fresh EXCEPT !.up = TRUE, !.req = <<Request(t, Reference)>>]]
        /\ skel' = [skel EXCEPT ![c] = [NoSkel EXCEPT !.st = "idle", !.w = w]]
  BY DEF Open
<1>4. p \in Uses[t] /\ p \in Proxy /\ thr[t].op \in AllOp /\ sock[p] = Null /\ thr[t].k = 0
  BY <1>1, <1>2, RemoteAssumption DEF ThrOK
<1> DEFINE L == [Fresh EXCEPT !.up = TRUE, !.req = <<Request(t, Reference)>>]
           K == [NoSkel EXCEPT !.st = "idle", !.w = w]
           r == Request(t, Reference)
<1>5. r \in RequestType /\ r.op = Reference /\ r.op.m = "reference"
  BY DEF Request, RequestType, Reference, Op, OpType
<1>6. /\ L \in LinkType /\ L.up /\ L.rep = << >> /\ L.buf = << >> /\ L.req = <<r>>
  <2>1. <<r>> \in Seq(RequestType)
    BY <1>5
  <2>2. L.up /\ L.rep = << >> /\ L.buf = << >> /\ L.req = <<r>>
    BY DEF Fresh
  <2> HIDE DEF r
  <2>3. L \in LinkType
    BY <2>1, FreshFacts DEF LinkType, r
  <2>4. QED
    BY <2>2, <2>3
<1>7. K \in SkelType /\ K.st = "idle" /\ SkelOK(K)
  <2>1. NoSkel \in SkelType /\ NoSkel.k = 0 /\ NoSkel.got = << >>
    BY NoSkelFacts DEF NoSkel
  <2>2. K.st = "idle" /\ K.k = 0 /\ K.got = << >>
    BY DEF NoSkel
  <2>3. K \in SkelType
    BY <2>1 DEF SkelType
  <2> HIDE DEF K
  <2>4. QED
    BY <2>2, <2>3 DEF SkelOK
<1>8. link' = [link EXCEPT ![c] = L] /\ skel' = [skel EXCEPT ![c] = K]
  BY <1>3
<1> HIDE DEF L, K
<1>9. /\ link' \in [Conn -> LinkType] /\ skel' \in [Conn -> SkelType]
      /\ link'[c] = L /\ skel'[c] = K
      /\ \A d \in Conn \ {c} : link'[d] = link[d] /\ skel'[d] = skel[d]
  BY <1>1, <1>6, <1>7, <1>8 DEF RemoteTypes
<1>10. /\ thr' \in [Thread -> ThrType] /\ thr'[t].pc = "ref" /\ thr'[t].p = p
       /\ thr'[t].op = thr[t].op /\ thr'[t].k = thr[t].k
       /\ \A u \in Thread \ {t} : thr'[u] = thr[u]
  BY <1>1, <1>2 DEF RemoteTypes, ThrType
<1>11. /\ sock' \in [Proxy -> Conn \cup {Null}] /\ sock'[p] = c
       /\ \A q \in Proxy \ {p} : sock'[q] = sock[q]
  BY <1>1, <1>3, <1>4 DEF RemoteTypes
<1> HIDE DEF p
<1>12. ThrOK(t)'
  BY <1>4, <1>10, <1>11 DEF ThrOK
<1>13. SockOK'
  <2>1. \A q1, q2 \in Proxy : (sock'[q1] # Null /\ sock'[q1] = sock'[q2]) => q1 = q2
    BY <1>1, <1>3, <1>4, <1>11 DEF SockOK
  <2>2. ASSUME NEW d \in Conn, link'[d].up PROVE \E q \in Proxy : sock'[q] = d
    <3>1. CASE d = c
      BY <1>4, <1>11, <3>1
    <3>2. CASE d # c
      <4>1. link[d].up
        BY <1>9, <2>2, <3>2
      <4>2. PICK q \in Proxy : sock[q] = d
        BY <1>1, <4>1 DEF SockOK
      <4>3. q # p
        BY <1>4, <4>2, RemoteAssumption
      <4>4. QED
        BY <1>11, <4>2, <4>3
    <3>3. QED
      BY <3>1, <3>2
  <2>3. QED
    BY <2>1, <2>2 DEF SockOK
<1>14. /\ \A d \in Conn \ {c} : ~Waiting(t, d) /\ ~Waiting(t, d)'
       /\ Waiting(t, c)' /\ Mine(t)' = r /\ Left(t)' = 1
  BY <1>2, <1>10, <1>11 DEF Waiting, Mine, Left, p
<1> HIDE DEF r
<1>15. Waited(L, K, r, 1)
  <2>1. /\ Len(<<r>>) = 1 /\ <<r>>[1] = r /\ <<r>> # << >> /\ Len(L.rep) = 0
        /\ \A i \in 1 .. Len(<<r>>) : i = Len(<<r>>) /\ <<r>>[i] = r
    BY <1>6
  <2>2. ~IsElement(r)
    BY <1>5 DEF IsElement
  <2>3. Unread(L)
    BY <1>6, <2>1, <2>2 DEF Unread
  <2>4. ToCome(L, K) = 1
    BY <1>5, <1>6, <2>1, <2>3 DEF ToCome, Replies
  <2>5. ~Replying(K) /\ Expected(K) = 0 /\ ToWrite(L, r) = 0
    BY <1>5, <1>7 DEF Replying, Expected, ToWrite
  <2>6. Len(L.req) = 1 /\ \A i \in 1 .. Len(L.req) : i = Len(L.req) /\ L.req[i] = r
    BY <1>6, <2>1
  <2>7. \A i \in 1 .. Len(L.rep) : FALSE
    BY <2>1
  <2>8. 1 = Len(L.rep) + ToCome(L, K)
    BY <2>1, <2>4
  <2>9. Expected(K) = Len(L.req) - 1 + ToWrite(L, r)
    BY <2>5, <2>6
  <2>10. QED
    BY <1>6, <2>3, <2>5, <2>6, <2>7, <2>8, <2>9 DEF Waited
<1>16. QED
  BY <1>2, <1>3, <1>4, <1>7, <1>9, <1>10, <1>11, <1>12, <1>13, <1>14, <1>15, ClientFrame DEF RemoteTypes, Conversation

\* A thread leaves the Proxy method, and nothing is left on its connection.
LEMMA Leaves ==
  ASSUME Unshared, Conversation, NEW t \in Thread,
         thr[t].pc \in {"ref", "send", "wait", "elems"}, UNCHANGED <<prog, heap, skel>>,
         thr' = [thr EXCEPT ![t] = AtApp], inside' \in [Thread -> Proxy \cup {Null}],
         link' \in [Conn -> LinkType], \A d \in Conn \ {Wire(t)} : link'[d] = link[d],
         link'[Wire(t)].up => link[Wire(t)].up,
         \/ sock' = sock
         \/ sock' = [sock EXCEPT ![thr[t].p] = Null] /\ ~link'[Wire(t)].up,
         Unwaited(link'[Wire(t)], skel[Wire(t)])
  PROVE  Conversation'
<1> DEFINE c == Wire(t)
<1>1. /\ RemoteTypes /\ SockOK /\ thr[t].p \in Uses[t] /\ thr[t].p \in Proxy
      /\ c \in Conn /\ c = sock[thr[t].p]
      /\ \A p \in Proxy \ Uses[t] : sock[p] # c
      /\ \A d \in Conn \ {c} : ~Waiting(t, d)
      /\ SkelOK(skel[c])
  BY Talks
<1> HIDE DEF c
<1>2. /\ thr' \in [Thread -> ThrType] /\ thr'[t].pc = "app"
      /\ \A u \in Thread \ {t} : thr'[u] = thr[u]
  BY <1>1, AtAppFacts DEF RemoteTypes
<1>3. ThrOK(t)' /\ \A d \in Conn : ~Waiting(t, d)'
  BY <1>2 DEF ThrOK, Waiting
<1>4. /\ sock' \in [Proxy -> Conn \cup {Null}]
      /\ \A p \in Proxy \ {thr[t].p} : sock'[p] = sock[p]
      /\ sock'[thr[t].p] \in {Null, c}
      /\ sock'[thr[t].p] # c => ~link'[c].up
  BY <1>1 DEF RemoteTypes, c
<1>5. SockOK'
  <2>1. \A q1, q2 \in Proxy : (sock'[q1] # Null /\ sock'[q1] = sock'[q2]) => q1 = q2
    BY <1>1, <1>4 DEF SockOK
  <2>2. ASSUME NEW d \in Conn, link'[d].up PROVE \E q \in Proxy : sock'[q] = d
    <3>1. CASE d = c
      BY <1>1, <1>4, <2>2, <3>1
    <3>2. CASE d # c
      <4>1. link[d].up
        BY <2>2, <3>2 DEF c
      <4>2. PICK q \in Proxy : sock[q] = d
        BY <1>1, <4>1 DEF SockOK
      <4>3. q # thr[t].p
        BY <1>1, <3>2, <4>2
      <4>4. QED
        BY <1>4, <4>2, <4>3
    <3>3. QED
      BY <3>1, <3>2
  <2>3. QED
    BY <2>1, <2>2 DEF SockOK
<1>6. /\ skel' \in [Conn -> SkelType] /\ SkelOK(skel'[c]) /\ Unwaited(link'[c], skel'[c])
      /\ \A d \in Conn \ {c} : link'[d] = link[d] /\ skel'[d] = skel[d]
  BY <1>1 DEF RemoteTypes, c
<1>7. QED
  BY <1>1, <1>2, <1>3, <1>4, <1>5, <1>6, ClientFrame

\* A thread goes on in the Proxy method, in step with its connection.
LEMMA GoesOn ==
  ASSUME Unshared, Conversation, NEW t \in Thread,
         thr[t].pc \in {"ref", "send", "wait", "elems"}, UNCHANGED <<prog, heap, skel, sock, inside>>,
         thr' \in [Thread -> ThrType], \A u \in Thread \ {t} : thr'[u] = thr[u],
         thr'[t].p = thr[t].p, thr'[t].op = thr[t].op, thr'[t].pc \in {"send", "wait", "elems"},
         thr'[t].pc # "send" => ~Refused(thr[t].op),
         thr'[t].pc = "elems" => thr[t].op.m = "load" /\ thr'[t].k <= thr[t].op.n,
         thr'[t].pc # "elems" => thr'[t].k = 0,
         link' \in [Conn -> LinkType], \A d \in Conn \ {Wire(t)} : link'[d] = link[d],
         link'[Wire(t)].up => link[Wire(t)].up,
         thr'[t].pc = "send" => Unwaited(link'[Wire(t)], skel[Wire(t)]),
         thr'[t].pc = "wait" =>
           Waited(link'[Wire(t)], skel[Wire(t)], Request(t, thr[t].op), Replies(thr[t].op)),
         thr'[t].pc = "elems" =>
           Waited(link'[Wire(t)], skel[Wire(t)], Request(t, thr[t].op), thr[t].op.n - thr'[t].k)
  PROVE  Conversation'
<1>0. PICK c \in Conn : c = Wire(t)
  BY Talks
<1>1. /\ RemoteTypes /\ SockOK /\ thr[t].p \in Uses[t] /\ thr[t].p \in Proxy /\ thr[t].op \in AllOp
      /\ c \in Conn /\ c = sock[thr[t].p]
      /\ \A p \in Proxy \ Uses[t] : sock[p] # c
      /\ \A d \in Conn \ {c} : ~Waiting(t, d)
      /\ SkelOK(skel[c])
  BY <1>0, Talks
<1>2. ThrOK(t)'
  BY <1>1 DEF ThrOK
<1>3. /\ \A d \in Conn \ {c} : ~Waiting(t, d)'
      /\ Waiting(t, c)' => thr'[t].pc # "send"
      /\ thr'[t].pc # "send" => Waiting(t, c)'
  <2>1. sock'[thr'[t].p] = c
    BY <1>1
  <2>2. \A d \in Conn \ {c} : ~Waiting(t, d)'
    BY <2>1 DEF Waiting
  <2>3. Waiting(t, c)' => thr'[t].pc # "send"
    BY <2>1 DEF Waiting
  <2>4. thr'[t].pc # "send" => Waiting(t, c)'
    <3>1. thr'[t].pc # "send" => thr'[t].pc \in {"ref", "wait", "elems"}
      OBVIOUS
    <3>2. QED
      BY <2>1, <3>1 DEF Waiting
  <2>5. QED
    BY <2>2, <2>3, <2>4
<1>4. /\ skel' \in [Conn -> SkelType] /\ SkelOK(skel'[c])
      /\ sock' \in [Proxy -> Conn \cup {Null}] /\ inside' \in [Thread -> Proxy \cup {Null}]
      /\ \A d \in Conn \ {c} : link'[d] = link[d] /\ skel'[d] = skel[d]
  BY <1>0, <1>1 DEF RemoteTypes
<1>5. SockOK'
  <2>1. \A d \in Conn : link'[d].up => link[d].up
    BY <1>0
  <2>2. QED
    BY <1>1, <2>1 DEF SockOK
<1>6. IF Waiting(t, c)' THEN Waited(link'[c], skel'[c], Mine(t)', Left(t)')
      ELSE Unwaited(link'[c], skel'[c])
  <2>1. CASE thr'[t].pc = "send"
    BY <1>0, <1>3, <2>1
  <2>2. CASE thr'[t].pc = "wait"
    <3>1. Mine(t)' = Request(t, thr[t].op) /\ Left(t)' = Replies(thr[t].op)
      BY <2>2 DEF Mine, Left
    <3>2. QED
      BY <1>0, <1>3, <2>2, <3>1
  <2>3. CASE thr'[t].pc = "elems"
    <3>1. Mine(t)' = Request(t, thr[t].op) /\ Left(t)' = thr[t].op.n - thr'[t].k
      BY <2>3 DEF Mine, Left
    <3>2. QED
      BY <1>0, <1>3, <2>3, <3>1
  <2>4. QED
    BY <2>1, <2>2, <2>3
<1>7. /\ UNCHANGED <<prog, heap>>
      /\ \A d \in Conn \ {c} : ~Waiting(t, d) /\ ~Waiting(t, d)'
      /\ \A p \in Proxy \ Uses[t] : sock'[p] = sock[p]
  BY <1>1, <1>3
<1>8. QED
  BY <1>1, <1>2, <1>4, <1>5, <1>6, <1>7, ClientFrame

\* What link is after a thread has taken a reply from connection c.
LEMMA TakenFacts ==
  ASSUME RemoteTypes, NEW c \in Conn, link[c].rep # << >>,
         link' = [link EXCEPT ![c].rep = Tail(@)]
  PROVE  /\ link' \in [Conn -> LinkType] /\ link'[c] \in LinkType
         /\ \A d \in Conn \ {c} : link'[d] = link[d]
         /\ link'[c].up = link[c].up /\ link'[c].buf = link[c].buf
         /\ link'[c].req = link[c].req /\ link'[c].rep = Tail(link[c].rep)
<1>1. link \in [Conn -> LinkType] /\ link[c] \in LinkType
  BY DEF RemoteTypes
<1>2. Tail(link[c].rep) \in Seq(ReplyType)
  BY <1>1, TailFacts DEF LinkType
<1>3. /\ \A d \in Conn \ {c} : link'[d] = link[d]
      /\ link'[c].up = link[c].up /\ link'[c].buf = link[c].buf
      /\ link'[c].req = link[c].req /\ link'[c].rep = Tail(link[c].rep)
  BY <1>1 DEF LinkType
<1>4. link' \in [Conn -> LinkType]
  BY <1>1, <1>2 DEF LinkType
<1>5. QED
  BY <1>1, <1>3, <1>4

\* A thread changes its place in the method only.
LEMMA PlaceFacts ==
  ASSUME RemoteTypes, NEW t \in Thread, NEW pc \in {"send", "wait", "elems"},
         thr' = [thr EXCEPT ![t].pc = pc]
  PROVE  /\ thr' \in [Thread -> ThrType] /\ \A u \in Thread \ {t} : thr'[u] = thr[u]
         /\ thr'[t].pc = pc /\ thr'[t].p = thr[t].p /\ thr'[t].op = thr[t].op /\ thr'[t].k = thr[t].k
BY DEF RemoteTypes, ThrType

\* The answer to REFERENCE is read.
LEMMA ReferredStep ==
  ASSUME Unshared, Conversation, NEW t \in Thread, Referred(t), prog' = prog PROVE Conversation'
<1>1. /\ thr[t].pc = "ref" /\ link[Wire(t)].rep # << >>
      /\ link' = [link EXCEPT ![Wire(t)].rep = Tail(@)]
      /\ UNCHANGED <<prog, sock, skel, heap, inside>>
  BY DEF Referred, Fail
<1>2. /\ RemoteTypes /\ ThrOK(t) /\ Wire(t) \in Conn
      /\ link[Wire(t)] \in LinkType /\ skel[Wire(t)] \in SkelType /\ SkelOK(skel[Wire(t)])
      /\ Waited(link[Wire(t)], skel[Wire(t)], Mine(t), Left(t)) /\ Asks(Mine(t), Left(t))
  BY <1>1, Talks
<1>3. Left(t) = 1 /\ Mine(t).op.m # "store"
  BY <1>1 DEF Left, Mine, Request, Reference, Op
<1>4. /\ link' \in [Conn -> LinkType] /\ link'[Wire(t)] \in LinkType
      /\ \A d \in Conn \ {Wire(t)} : link'[d] = link[d]
      /\ link'[Wire(t)].up = link[Wire(t)].up /\ link'[Wire(t)].buf = link[Wire(t)].buf
      /\ link'[Wire(t)].req = link[Wire(t)].req /\ link'[Wire(t)].rep = Tail(link[Wire(t)].rep)
  BY <1>1, <1>2, TakenFacts
<1>5. Unwaited(link'[Wire(t)], skel[Wire(t)])
  BY <1>1, <1>2, <1>3, <1>4, OnlyReply, ZenonT(60)
<1>6. CASE thr' = [thr EXCEPT ![t].pc = "send"]
  <2>1. /\ thr' \in [Thread -> ThrType] /\ \A u \in Thread \ {t} : thr'[u] = thr[u]
        /\ thr'[t].pc = "send" /\ thr'[t].p = thr[t].p /\ thr'[t].op = thr[t].op /\ thr'[t].k = thr[t].k
    BY <1>2, <1>6, PlaceFacts
  <2>2. thr[t].k = 0
    BY <1>1, <1>2 DEF ThrOK
  <2>3. QED
    BY <1>1, <1>4, <1>5, <2>1, <2>2, GoesOn
<1>7. CASE thr' = [thr EXCEPT ![t] = AtApp]
  <2>1. inside' \in [Thread -> Proxy \cup {Null}]
    BY <1>1, <1>2 DEF RemoteTypes
  <2>2. QED
    BY <1>1, <1>4, <1>5, <1>7, <2>1, Leaves
<1>8. QED
  BY <1>6, <1>7 DEF Referred, Fail

\* The queue after a request has been sent: elements, then the request.
Sent(m, n, q, K) ==
  /\ n + 1 = Len(m) /\ m[n + 1] = q
  /\ StoresFit => Expected(K) = n
  /\ \A i \in 1 .. n : IsElement(m[i])
LEMMA SentFacts ==
  ASSUME NEW L \in LinkType, NEW K, NEW q \in RequestType, Unwaited(L, K), L.up
  PROVE  \E n \in Nat, m \in Seq(RequestType) : m = Queue(L.req, L.buf, q) /\ Sent(m, n, q, K)
<1>1. L.req \in Seq(RequestType) /\ L.buf \in Seq(RequestType)
  BY DEF LinkType
<1> DEFINE m == Queue(L.req, L.buf, q)
           a == Len(L.req)
           b == Len(L.buf)
<1>2. /\ m \in Seq(RequestType) /\ a \in Nat /\ b \in Nat
      /\ a + b + 1 = Len(m) /\ m[a + b + 1] = q
      /\ \A i \in 1 .. a : m[i] = L.req[i]
      /\ \A i \in 1 .. b : m[a + i] = L.buf[i]
  <2> DEFINE s == L.req
             x == L.buf
  <2>1. s \in Seq(RequestType) /\ x \in Seq(RequestType)
    BY <1>1
  <2> HIDE DEF s, x
  <2>2. /\ Queue(s, x, q) \in Seq(RequestType)
        /\ Len(s) \in Nat /\ Len(x) \in Nat
        /\ Len(s) + Len(x) + 1 = Len(Queue(s, x, q))
        /\ Queue(s, x, q)[Len(s) + Len(x) + 1] = q
        /\ \A i \in 1 .. Len(s) : Queue(s, x, q)[i] = s[i]
        /\ \A i \in 1 .. Len(x) : Queue(s, x, q)[Len(s) + i] = x[i]
    BY <2>1, QueueFacts
  <2>3. QED
    BY <2>2, Zenon DEF s, x
<1>3. /\ \A i \in 1 .. a : IsElement(L.req[i])
      /\ \A i \in 1 .. b : IsElement(L.buf[i])
      /\ StoresFit => Expected(K) = a + b
  BY DEF Unwaited
<1>4. m = Queue(L.req, L.buf, q)
  OBVIOUS
<1> HIDE DEF m, a, b
<1>5. \A i \in 1 .. (a + b) : IsElement(m[i])
  <2>1. SUFFICES ASSUME NEW i \in 1 .. (a + b) PROVE IsElement(m[i])
    OBVIOUS
  <2>2. CASE i <= a
    <3>1. i \in 1 .. a
      BY <1>2, <2>2
    <3>2. QED
      BY <1>2, <1>3, <3>1
  <2>3. CASE i > a
    <3>1. i - a \in 1 .. b /\ a + (i - a) = i
      BY <1>2, <2>3
    <3>2. m[i] = L.buf[i - a]
      BY <1>2, <3>1
    <3>3. QED
      BY <1>3, <3>1, <3>2
  <2>4. QED
    BY <1>2, <2>2, <2>3
<1>6. a + b \in Nat /\ (a + b) + 1 = Len(m) /\ m[(a + b) + 1] = q
  BY <1>2
<1>7. Sent(m, a + b, q, K)
  BY <1>3, <1>5, <1>6 DEF Sent
<1>8. QED
  BY <1>2, <1>4, <1>6, <1>7

\* A request is refused or sent.
LEMMA SendStep ==
  ASSUME Unshared, Conversation, NEW t \in Thread, Send(t), prog' = prog PROVE Conversation'
<1> DEFINE c == Wire(t)
           q == Request(t, thr[t].op)
<1>1. thr[t].pc = "send" /\ UNCHANGED <<prog, sock, skel, heap, inside>>
  BY DEF Send, Throw
<1>2. /\ RemoteTypes /\ thr[t].op \in AllOp /\ c \in Conn /\ link[c] \in LinkType
      /\ skel[c] \in SkelType /\ Unwaited(link[c], skel[c]) /\ ThrOK(t)
  BY <1>1, Talks
<1>3. CASE Throw(t) /\ UNCHANGED link
  <2>1. /\ inside' \in [Thread -> Proxy \cup {Null}] /\ link' \in [Conn -> LinkType]
        /\ thr' = [thr EXCEPT ![t] = AtApp] /\ link'[c] = link[c]
    BY <1>1, <1>2, <1>3 DEF RemoteTypes, Throw
  <2>2. QED
    BY <1>1, <1>2, <1>3, <2>1, Leaves
<1>4. CASE /\ ~Refused(thr[t].op) /\ link[c].up
           /\ link' = [link EXCEPT ![c].req = @ \o link[c].buf \o <<q>>, ![c].buf = << >>]
           /\ thr' = [thr EXCEPT ![t].pc = "wait"]
  <2>1. q \in RequestType /\ ~IsElement(q) /\ q.op = thr[t].op
    <3>1. thr[t].op \in OpType /\ thr[t].op.m \in OpNames
      BY <1>2, OpFacts
    <3>2. QED
      BY <3>1 DEF Request, RequestType, IsElement, OpNames
  <2> HIDE DEF q
  <2>2. PICK n \in Nat, m \in Seq(RequestType) :
          m = Queue(link[c].req, link[c].buf, q) /\ Sent(m, n, q, skel[c])
    BY <1>2, <1>4, <2>1, SentFacts
  <2>3. /\ n + 1 = Len(m) /\ m[n + 1] = q
        /\ StoresFit => Expected(skel[c]) = n
        /\ \A i \in 1 .. n : IsElement(m[i])
    BY <2>2 DEF Sent
  <2>4. /\ link' = [link EXCEPT ![c].req = m, ![c].buf = << >>]
    BY <1>4, <2>2 DEF Queue
  <2>6. /\ \A d \in Conn \ {c} : link'[d] = link[d]
        /\ link'[c].up = link[c].up /\ link'[c].rep = link[c].rep
        /\ link'[c].req = m /\ link'[c].buf = << >>
    BY <1>2, <2>4 DEF RemoteTypes, LinkType
  <2>7. link' \in [Conn -> LinkType]
    <3>1. << >> \in Seq(RequestType)
      OBVIOUS
    <3>2. QED
      BY <1>2, <2>4, <3>1 DEF RemoteTypes, LinkType
  <2>9. IsEmpty(link'[c].buf) /\ link'[c] \in LinkType
    BY <1>2, <2>6, <2>7 DEF IsEmpty
  <2>10. Waited(link'[c], skel[c], q, Replies(q.op))
    <3>1. /\ n + 1 = Len(link'[c].req) /\ link'[c].req[n + 1] = q
          /\ \A i \in 1 .. n : IsElement(link'[c].req[i])
      BY <2>3, <2>6
    <3>2. link'[c].up /\ link'[c].rep = link[c].rep
      BY <1>4, <2>6
    <3>3. QED
      BY <1>2, <1>4, <2>1, <2>3, <2>9, <3>1, <3>2, RequestSent
  <2>11. /\ thr' \in [Thread -> ThrType] /\ \A u \in Thread \ {t} : thr'[u] = thr[u]
        /\ thr'[t].pc = "wait" /\ thr'[t].p = thr[t].p /\ thr'[t].op = thr[t].op /\ thr'[t].k = thr[t].k
    BY <1>2, <1>4, PlaceFacts
  <2>12. thr[t].k = 0
    BY <1>1, <1>2 DEF ThrOK
  <2>13. QED
    BY <1>1, <1>4, <2>1, <2>6, <2>7, <2>10, <2>11, <2>12, GoesOn DEF q
<1>5. QED
  BY <1>3, <1>4 DEF Send

\* A thread that waits for the reply to an operation.
LEMMA WaitFacts ==
  ASSUME Unshared, Conversation, NEW t \in Thread, thr[t].pc = "wait"
  PROVE  /\ RemoteTypes /\ ThrOK(t) /\ Wire(t) \in Conn /\ thr[t].op \in AllOp /\ ~Refused(thr[t].op)
         /\ thr[t].op \in OpType /\ thr[t].p \in Proxy
         /\ link[Wire(t)] \in LinkType /\ skel[Wire(t)] \in SkelType /\ SkelOK(skel[Wire(t)])
         /\ Waited(link[Wire(t)], skel[Wire(t)], Request(t, thr[t].op), Replies(thr[t].op))
         /\ Asks(Request(t, thr[t].op), Replies(thr[t].op))
         /\ Request(t, thr[t].op).op = thr[t].op
<1>1. Mine(t) = Request(t, thr[t].op) /\ Left(t) = Replies(thr[t].op)
  BY DEF Mine, Left
<1>2. /\ RemoteTypes /\ ThrOK(t) /\ Wire(t) \in Conn /\ thr[t].op \in AllOp /\ thr[t].p \in Proxy
      /\ link[Wire(t)] \in LinkType /\ skel[Wire(t)] \in SkelType /\ SkelOK(skel[Wire(t)])
      /\ Waited(link[Wire(t)], skel[Wire(t)], Mine(t), Left(t)) /\ Asks(Mine(t), Left(t))
  BY Talks
<1>3. ~Refused(thr[t].op)
  BY <1>2 DEF ThrOK
<1>4. thr[t].op \in OpType /\ Request(t, thr[t].op).op = thr[t].op
  BY <1>2, OpFacts DEF Request
<1>5. QED
  BY <1>1, <1>2, <1>3, <1>4

\* The monitor that a thread has entered is that of a proxy.
LEMMA ReturnFacts ==
  ASSUME RemoteTypes, NEW t \in Thread, thr[t].p \in Proxy, NEW vals, Return(t, vals)
  PROVE  thr' = [thr EXCEPT ![t] = AtApp] /\ inside' \in [Thread -> Proxy \cup {Null}]
<1>1. /\ thr' = [thr EXCEPT ![t] = AtApp]
      /\ inside' = IF thr[t].op.m = "enter" THEN [inside EXCEPT ![t] = thr[t].p] ELSE inside
  BY DEF Return
<1>2. inside \in [Thread -> Proxy \cup {Null}]
  BY DEF RemoteTypes
<1>3. QED
  BY <1>1, <1>2

\* The connection is lost, and the thread finds out.
LEMMA BrokenStep ==
  ASSUME Unshared, Conversation, NEW t \in Thread, Broken(t), prog' = prog PROVE Conversation'
<1>1. /\ thr[t].pc \in {"ref", "send", "wait", "elems"} /\ ~link[Wire(t)].up
      /\ thr[t].pc # "send" => link[Wire(t)].rep = << >>
      /\ thr' = [thr EXCEPT ![t] = AtApp] /\ inside' = inside
      /\ sock' = IF thr[t].op.m = "close" THEN [sock EXCEPT ![thr[t].p] = Null] ELSE sock
      /\ UNCHANGED <<prog, link, skel, heap>>
  BY DEF Broken, Fail
<1>2. RemoteTypes /\ Wire(t) \in Conn
  BY <1>1, Talks
<1>3. Unwaited(link[Wire(t)], skel[Wire(t)])
  <2>1. CASE thr[t].pc = "send"
    BY <1>1, <2>1, Talks
  <2>2. CASE thr[t].pc # "send"
    BY <1>1, <2>2, Talks, GivesUp
  <2>3. QED
    BY <2>1, <2>2
<1>4. /\ link' \in [Conn -> LinkType] /\ inside' \in [Thread -> Proxy \cup {Null}]
      /\ \A d \in Conn \ {Wire(t)} : link'[d] = link[d]
      /\ ~link'[Wire(t)].up /\ Unwaited(link'[Wire(t)], skel[Wire(t)])
      /\ UNCHANGED <<prog, heap, skel>>
  BY <1>1, <1>2, <1>3 DEF RemoteTypes
<1>5. \/ sock' = sock
      \/ sock' = [sock EXCEPT ![thr[t].p] = Null] /\ ~link'[Wire(t)].up
  BY <1>1, <1>4
<1>6. QED
  BY <1>1, <1>4, <1>5, Leaves

\* The reply of an operation is read.
LEMMA ReceiveStep ==
  ASSUME Unshared, Conversation, NEW t \in Thread, Receive(t), prog' = prog PROVE Conversation'
<1> DEFINE q == Request(t, thr[t].op)
<1>1. /\ thr[t].pc = "wait" /\ link[Wire(t)].rep # << >>
      /\ link' = [link EXCEPT ![Wire(t)].rep = Tail(@)]
      /\ UNCHANGED <<prog, sock, skel, heap>>
  BY DEF Receive, Replied
<1>2. /\ RemoteTypes /\ Wire(t) \in Conn /\ thr[t].p \in Proxy
      /\ link[Wire(t)] \in LinkType /\ skel[Wire(t)] \in SkelType /\ SkelOK(skel[Wire(t)])
      /\ Waited(link[Wire(t)], skel[Wire(t)], q, Replies(thr[t].op))
      /\ Asks(q, Replies(thr[t].op)) /\ q.op = thr[t].op
  BY <1>1, WaitFacts
<1>3. /\ link' \in [Conn -> LinkType] /\ link'[Wire(t)] \in LinkType
      /\ \A d \in Conn \ {Wire(t)} : link'[d] = link[d]
      /\ link'[Wire(t)].up = link[Wire(t)].up /\ link'[Wire(t)].buf = link[Wire(t)].buf
      /\ link'[Wire(t)].req = link[Wire(t)].req /\ link'[Wire(t)].rep = Tail(link[Wire(t)].rep)
  BY <1>1, <1>2, TakenFacts
<1>4. thr' = [thr EXCEPT ![t] = AtApp] /\ inside' \in [Thread -> Proxy \cup {Null}]
  <2>1. CASE Throw(t)
    BY <1>2, <2>1 DEF Throw, RemoteTypes
  <2>2. CASE Return(t, Answered(t).vals)
    BY <1>2, <2>2, ReturnFacts
  <2>3. QED
    BY <2>1, <2>2 DEF Receive
<1>5. thr[t].op.m \notin {"load", "store"}
  <2>1. CASE ~Answered(t).ok
    <3>1. link[Wire(t)].rep \in Seq(ReplyType)
      BY <1>2 DEF LinkType
    <3>2. Answered(t) = link[Wire(t)].rep[1] /\ 1 \in 1 .. Len(link[Wire(t)].rep)
      BY <1>1, <3>1, TailFacts DEF Answered
    <3>3. q.op.m \in {"load", "store"} => Answered(t).ok
      BY <1>2, <3>2 DEF Waited
    <3>4. QED
      BY <1>2, <2>1, <3>3
  <2>2. CASE Answered(t).ok
    BY <2>2 DEF Receive
  <2>3. QED
    BY <2>1, <2>2
<1>6. Replies(thr[t].op) = 1 /\ q.op.m # "store"
  BY <1>2, <1>5 DEF Replies
<1> HIDE DEF q
<1>7. Unwaited(link'[Wire(t)], skel[Wire(t)])
  <2>1. Waited(link[Wire(t)], skel[Wire(t)], q, 1) /\ Asks(q, 1) /\ q.op.m # "store"
    BY <1>2, <1>6
  <2>2. /\ link[Wire(t)] \in LinkType /\ skel[Wire(t)] \in SkelType /\ SkelOK(skel[Wire(t)])
        /\ link[Wire(t)].rep # << >>
    BY <1>1, <1>2
  <2>3. QED
    BY <1>3, <2>1, <2>2, OnlyReply
<1>8. QED
  BY <1>1, <1>3, <1>4, <1>7, Leaves

\* A proxy closes its connection.
LEMMA ReceiveCloseStep ==
  ASSUME Unshared, Conversation, NEW t \in Thread, ReceiveClose(t), prog' = prog PROVE Conversation'
<1>1. /\ thr[t].pc = "wait" /\ link' = [link EXCEPT ![Wire(t)] = Fresh]
      /\ sock' = [sock EXCEPT ![thr[t].p] = Null]
      /\ UNCHANGED <<prog, skel, heap>> /\ Return(t, << >>)
  BY DEF ReceiveClose, Replied
<1>2. RemoteTypes /\ Wire(t) \in Conn /\ thr[t].p \in Proxy
  BY <1>1, WaitFacts
<1>3. thr' = [thr EXCEPT ![t] = AtApp] /\ inside' \in [Thread -> Proxy \cup {Null}]
  BY <1>1, <1>2, ReturnFacts
<1>4. /\ link' \in [Conn -> LinkType] /\ link'[Wire(t)] = Fresh
      /\ \A d \in Conn \ {Wire(t)} : link'[d] = link[d]
  BY <1>1, <1>2, FreshFacts DEF RemoteTypes
<1>5. ~link'[Wire(t)].up
  BY <1>4, FreshFacts
<1>6. Unwaited(link'[Wire(t)], skel[Wire(t)])
  <2>1. \A i \in 1 .. Len(Fresh.req) : FALSE
    BY FreshFacts
  <2>2. \A i \in 1 .. Len(Fresh.buf) : FALSE
    BY FreshFacts
  <2>3. QED
    BY <1>4, <1>5, <2>1, <2>2, FreshFacts DEF Unwaited
<1>7. QED
  BY <1>1, <1>3, <1>4, <1>5, <1>6, Leaves

\* A block load begins to read its elements.
LEMMA BeginElementsStep ==
  ASSUME Unshared, Conversation, NEW t \in Thread, BeginElements(t), prog' = prog PROVE Conversation'
<1> DEFINE q == Request(t, thr[t].op)
<1>1. /\ thr[t].pc = "wait" /\ link[Wire(t)].rep # << >> /\ thr[t].op.m = "load"
      /\ link' = [link EXCEPT ![Wire(t)].rep = Tail(@)] /\ thr' = [thr EXCEPT ![t].pc = "elems"]
      /\ UNCHANGED <<prog, sock, skel, heap, inside>>
  BY DEF BeginElements, Replied
<1>2. /\ RemoteTypes /\ ThrOK(t) /\ Wire(t) \in Conn /\ ~Refused(thr[t].op) /\ thr[t].op \in OpType
      /\ link[Wire(t)] \in LinkType /\ skel[Wire(t)] \in SkelType /\ SkelOK(skel[Wire(t)])
      /\ Waited(link[Wire(t)], skel[Wire(t)], q, Replies(thr[t].op))
      /\ Asks(q, Replies(thr[t].op)) /\ q.op = thr[t].op
  BY <1>1, WaitFacts
<1>3. /\ link' \in [Conn -> LinkType] /\ link'[Wire(t)] \in LinkType
      /\ \A d \in Conn \ {Wire(t)} : link'[d] = link[d]
      /\ link'[Wire(t)].up = link[Wire(t)].up /\ link'[Wire(t)].buf = link[Wire(t)].buf
      /\ link'[Wire(t)].req = link[Wire(t)].req /\ link'[Wire(t)].rep = Tail(link[Wire(t)].rep)
  BY <1>1, <1>2, TakenFacts
<1>4. /\ thr' \in [Thread -> ThrType] /\ \A u \in Thread \ {t} : thr'[u] = thr[u]
      /\ thr'[t].pc = "elems" /\ thr'[t].p = thr[t].p /\ thr'[t].op = thr[t].op /\ thr'[t].k = thr[t].k
  BY <1>1, <1>2, PlaceFacts
<1>5. thr[t].k = 0 /\ thr[t].op.n \in Int /\ thr[t].op.n >= 0
  BY <1>1, <1>2 DEF ThrOK, Refused, OpType
<1>6. Replies(thr[t].op) - 1 = thr[t].op.n - thr'[t].k /\ thr'[t].k <= thr[t].op.n
  BY <1>1, <1>4, <1>5 DEF Replies
<1> HIDE DEF q
<1>7. Waited(link'[Wire(t)], skel[Wire(t)], q, Replies(thr[t].op) - 1)
  BY <1>1, <1>2, <1>3, NextReply
<1>8. Waited(link'[Wire(t)], skel[Wire(t)], Request(t, thr[t].op), thr[t].op.n - thr'[t].k)
  BY <1>6, <1>7 DEF q
<1>9. QED
  BY <1>1, <1>2, <1>3, <1>4, <1>6, <1>8, GoesOn, ZenonT(60)

\* A block load reads an element, or has read the last one.
LEMMA ReceiveElementStep ==
  ASSUME Unshared, Conversation, NEW t \in Thread, ReceiveElement(t), prog' = prog PROVE Conversation'
<1> DEFINE q == Request(t, thr[t].op)
           left == thr[t].op.n - thr[t].k
<1>1. thr[t].pc = "elems" /\ UNCHANGED <<prog, sock, skel, heap>>
  BY DEF ReceiveElement
<1>2. Mine(t) = q /\ Left(t) = left
  BY <1>1 DEF Mine, Left
<1>3. /\ RemoteTypes /\ thr[t] \in ThrType /\ ThrOK(t) /\ Wire(t) \in Conn /\ thr[t].p \in Proxy
      /\ thr[t].op \in AllOp
      /\ link[Wire(t)] \in LinkType /\ skel[Wire(t)] \in SkelType /\ SkelOK(skel[Wire(t)])
      /\ Waited(link[Wire(t)], skel[Wire(t)], q, left) /\ Asks(q, left)
  BY <1>1, <1>2, Talks
<1>4. /\ thr[t].op.m = "load" /\ ~Refused(thr[t].op) /\ thr[t].k \in Nat /\ thr[t].op.n \in Int
      /\ thr[t].k <= thr[t].op.n /\ q.op = thr[t].op
  <2>1. thr[t].op \in OpType
    BY <1>3, OpFacts
  <2>2. QED
    BY <1>1, <1>3, <2>1 DEF ThrOK, ThrType, OpType, Request
<1> HIDE DEF q
<1>5. CASE /\ thr[t].k < thr[t].op.n /\ link[Wire(t)].rep # << >>
           /\ link' = [link EXCEPT ![Wire(t)].rep = Tail(@)]
           /\ thr' = [thr EXCEPT ![t].k = @ + 1, ![t].got = @ \o Head(link[Wire(t)].rep).vals]
           /\ UNCHANGED inside
  <2>1. /\ link' \in [Conn -> LinkType] /\ link'[Wire(t)] \in LinkType
        /\ \A d \in Conn \ {Wire(t)} : link'[d] = link[d]
        /\ link'[Wire(t)].up = link[Wire(t)].up /\ link'[Wire(t)].buf = link[Wire(t)].buf
        /\ link'[Wire(t)].req = link[Wire(t)].req /\ link'[Wire(t)].rep = Tail(link[Wire(t)].rep)
    BY <1>3, <1>5, TakenFacts
  <2> DEFINE g == thr[t].got \o Head(link[Wire(t)].rep).vals
             k == thr[t].k + 1
  <2>2. g \in Seq(Val)
    <3>1. link[Wire(t)].rep \in Seq(ReplyType)
      BY <1>3 DEF LinkType
    <3>2. Head(link[Wire(t)].rep) \in ReplyType
      BY <1>5, <3>1, TailFacts
    <3>3. Head(link[Wire(t)].rep).vals \in Seq(Val) /\ thr[t].got \in Seq(Val)
      BY <1>3, <3>2 DEF ReplyType, ThrType
    <3>4. QED
      BY <3>3, ConcatFacts
  <2>3. thr' = [thr EXCEPT ![t].k = k, ![t].got = g]
    BY <1>5
  <2>4. k \in Nat /\ k <= thr[t].op.n
    BY <1>4, <1>5
  <2> HIDE DEF g
  <2>5. /\ \A u \in Thread \ {t} : thr'[u] = thr[u]
        /\ thr'[t].pc = "elems" /\ thr'[t].p = thr[t].p /\ thr'[t].op = thr[t].op /\ thr'[t].k = k
    BY <1>1, <1>3, <2>3 DEF RemoteTypes, ThrType
  <2>6. thr' \in [Thread -> ThrType]
    <3> HIDE DEF k
    <3>1. QED
      BY <1>3, <2>2, <2>3, <2>4 DEF RemoteTypes, ThrType
  <2>7. Waited(link'[Wire(t)], skel[Wire(t)], q, left - 1)
    <3> HIDE DEF left
    <3>1. q.op.m # "store"
      BY <1>4
    <3>2. QED
      BY <1>3, <1>5, <2>1, <3>1, NextReply
  <2>8. left - 1 = thr[t].op.n - thr'[t].k
    BY <1>4, <2>5
  <2>9. Waited(link'[Wire(t)], skel[Wire(t)], Request(t, thr[t].op), thr[t].op.n - thr'[t].k)
    BY <2>7, <2>8 DEF q
  <2>10. UNCHANGED <<prog, heap, skel, sock, inside>> /\ thr'[t].k <= thr[t].op.n
    BY <1>1, <1>5, <2>4, <2>5
  <2>11. QED
    BY <1>1, <1>4, <2>1, <2>5, <2>6, <2>9, <2>10, GoesOn
<1>6. CASE /\ thr[t].k = thr[t].op.n /\ Return(t, thr[t].got) /\ UNCHANGED link
  <2>1. left = 0
    BY <1>4, <1>6
  <2>2. Waited(link[Wire(t)], skel[Wire(t)], q, 0) /\ Asks(q, 0)
    BY <1>3, <2>1
  <2>3. Unwaited(link[Wire(t)], skel[Wire(t)])
    BY <1>3, <2>2, NoneLeft
  <2>4. thr' = [thr EXCEPT ![t] = AtApp] /\ inside' \in [Thread -> Proxy \cup {Null}]
    BY <1>3, <1>6, ReturnFacts
  <2>5. link' \in [Conn -> LinkType] /\ link' = link
    BY <1>3, <1>6 DEF RemoteTypes
  <2>6. QED
    BY <1>1, <2>3, <2>4, <2>5, Leaves
<1>7. QED
  BY <1>5, <1>6 DEF ReceiveElement

\* The elements of a block, those sent and those left in the buffer.
AreElements(s, n) ==
  s \in Seq(RequestType) /\ n = Len(s) /\ \A i \in 1 .. Len(s) : IsElement(s[i])
LEMMA ElementsFacts ==
  ASSUME NEW t \in Thread, NEW v \in Val, NEW n \in Nat, NEW k \in 0 .. n, NEW s,
         s = [j \in 1 .. n |-> Request(t, Element(v))]
  PROVE  AreElements(SubSeq(s, 1, k), k) /\ AreElements(SubSeq(s, k + 1, n), n - k)
<1> DEFINE e == Request(t, Element(v))
<1>1. e \in RequestType /\ IsElement(e)
  BY DEF Request, Element, Op, RequestType, OpType, IsElement
<1>2. s = [j \in 1 .. n |-> e]
  OBVIOUS
<1> HIDE DEF e
<1>3. s \in Seq(RequestType) /\ Len(s) = n /\ \A j \in 1 .. n : s[j] = e
  BY <1>1, <1>2
<1>4. /\ SubSeq(s, 1, k) = [i \in 1 .. k |-> s[i]]
      /\ SubSeq(s, k + 1, n) = [i \in 1 .. (n - k) |-> s[i + k]]
  OBVIOUS
<1>5. QED
  BY <1>1, <1>3, <1>4, SMTT(30) DEF AreElements

\* All the queues of a connection change.
LEMMA LinkFacts ==
  ASSUME RemoteTypes, NEW c \in Conn, NEW x \in Seq(ReplyType),
         NEW y \in Seq(RequestType), NEW z \in Seq(RequestType),
         link' = [link EXCEPT ![c].rep = x, ![c].req = y, ![c].buf = z]
  PROVE  link' \in [Conn -> LinkType]
BY ZenonT(60) DEF RemoteTypes, LinkType

\* A block store writes its elements and returns.
LEMMA WriteElementsStep ==
  ASSUME Unshared, Conversation, NEW t \in Thread, WriteElements(t), prog' = prog PROVE Conversation'
<1> DEFINE q == Request(t, thr[t].op)
           n == thr[t].op.n
           elems == [k \in 1 .. n |-> Request(t, Element(thr[t].op.v))]
<1>1. /\ thr[t].pc = "wait" /\ link[Wire(t)].rep # << >> /\ thr[t].op.m = "store"
      /\ UNCHANGED <<prog, sock, skel, heap>> /\ Return(t, << >>)
  BY DEF WriteElements, Replied
<1>2. PICK k \in 0 .. n :
        link' = [link EXCEPT ![Wire(t)].rep = Tail(@),
                             ![Wire(t)].req = @ \o SubSeq(elems, 1, k),
                             ![Wire(t)].buf = SubSeq(elems, k + 1, n)]
  BY DEF WriteElements
<1>3. /\ RemoteTypes /\ Wire(t) \in Conn /\ thr[t].p \in Proxy /\ thr[t].op \in AllOp
      /\ ~Refused(thr[t].op) /\ thr[t].op \in OpType
      /\ link[Wire(t)] \in LinkType /\ skel[Wire(t)] \in SkelType /\ SkelOK(skel[Wire(t)])
      /\ Waited(link[Wire(t)], skel[Wire(t)], q, Replies(thr[t].op))
      /\ Asks(q, Replies(thr[t].op)) /\ q.op = thr[t].op
  BY <1>1, WaitFacts
<1>4. thr[t].op.v \in Val /\ n \in Nat /\ q.op.m = "store" /\ q.op.n = n
  <2>1. thr[t].op.v \in Val /\ n \in Int
    BY <1>1, <1>3, OpFacts DEF OpType
  <2>2. n >= 0
    BY <1>1, <1>3, <2>1 DEF Refused
  <2>3. QED
    BY <1>1, <1>3, <2>1, <2>2
<1> DEFINE a == SubSeq(elems, 1, k)
           b == SubSeq(elems, k + 1, n)
<1> HIDE DEF q
<1>5. AreElements(a, k) /\ AreElements(b, n - k)
  <2> HIDE DEF n
  <2>1. elems = [j \in 1 .. n |-> Request(t, Element(thr[t].op.v))]
    OBVIOUS
  <2> HIDE DEF elems
  <2>2. QED
    BY <1>4, <2>1, ElementsFacts
<1>6. link' = [link EXCEPT ![Wire(t)].rep = Tail(@), ![Wire(t)].req = @ \o a, ![Wire(t)].buf = b]
  BY <1>2
<1> HIDE DEF elems, a, b
<1>15. a \in Seq(RequestType) /\ b \in Seq(RequestType)
  BY <1>5 DEF AreElements
<1>7. Tail(link[Wire(t)].rep) \in Seq(ReplyType) /\ link[Wire(t)].req \o a \in Seq(RequestType)
  <2>1. link[Wire(t)].rep \in Seq(ReplyType) /\ link[Wire(t)].req \in Seq(RequestType)
    BY <1>3 DEF LinkType
  <2>2. QED
    BY <1>1, <1>15, <2>1, TailFacts, ConcatFacts
<1>8. /\ \A d \in Conn \ {Wire(t)} : link'[d] = link[d]
      /\ link'[Wire(t)].up = link[Wire(t)].up /\ link'[Wire(t)].buf = b
      /\ link'[Wire(t)].req = link[Wire(t)].req \o a /\ link'[Wire(t)].rep = Tail(link[Wire(t)].rep)
  BY <1>3, <1>6 DEF RemoteTypes, LinkType
<1>9. link' \in [Conn -> LinkType]
  <2> DEFINE x == Tail(link[Wire(t)].rep)
             y == link[Wire(t)].req \o a
  <2>1. link' = [link EXCEPT ![Wire(t)].rep = x, ![Wire(t)].req = y, ![Wire(t)].buf = b]
    BY <1>6
  <2>2. x \in Seq(ReplyType) /\ y \in Seq(RequestType)
    BY <1>7
  <2> HIDE DEF x, y
  <2>3. QED
    BY <1>3, <1>15, <2>1, <2>2, LinkFacts
<1>10. Replies(thr[t].op) = 1
  BY <1>1 DEF Replies
<1>11. q.op.n = Len(a) + Len(b)
  <2>1. k = Len(a) /\ n - k = Len(b)
    BY <1>5 DEF AreElements
  <2> HIDE DEF n
  <2>2. n = k + (n - k)
    BY <1>4
  <2>3. QED
    BY <1>4, <2>1, <2>2
<1>12. Unwaited(link'[Wire(t)], skel[Wire(t)])
  <2>1. Waited(link[Wire(t)], skel[Wire(t)], q, 1) /\ Asks(q, 1) /\ q.op.m = "store"
    BY <1>3, <1>4, <1>10
  <2>2. /\ link[Wire(t)] \in LinkType /\ link'[Wire(t)] \in LinkType /\ skel[Wire(t)] \in SkelType
        /\ SkelOK(skel[Wire(t)]) /\ link[Wire(t)].rep # << >>
    BY <1>1, <1>3, <1>9
  <2>3. /\ a \in Seq(RequestType) /\ b \in Seq(RequestType)
        /\ \A i \in 1 .. Len(a) : IsElement(a[i])
        /\ \A i \in 1 .. Len(b) : IsElement(b[i])
    BY <1>5 DEF AreElements
  <2>4. QED
    BY <1>8, <1>11, <2>1, <2>2, <2>3, ElementsWritten
<1>13. thr' = [thr EXCEPT ![t] = AtApp] /\ inside' \in [Thread -> Proxy \cup {Null}]
  BY <1>1, <1>3, ReturnFacts
<1>14. QED
  BY <1>1, <1>8, <1>9, <1>12, <1>13, Leaves

-----------------------------------------------------------------------------
(* The theorems.                                                           *)

LEMMA ConversationInit == ASSUME Init PROVE Conversation
<1>1. /\ sock = [p \in Proxy |-> Null] /\ link = [c \in Conn |-> Fresh]
      /\ skel = [c \in Conn |-> NoSkel] /\ thr = [t \in Thread |-> AtApp]
      /\ inside = [t \in Thread |-> Null] /\ prog \in Programs
  BY DEF Init
<1>2. heap \in [Obj -> [Cell -> Val]]
  <2>1. PICK v \in Val : heap = [o \in Obj |-> [i \in Cell |-> v]]
    BY DEF Init
  <2>2. QED
    BY <2>1
<1>3. RemoteTypes
  BY <1>1, <1>2, FreshFacts, NoSkelFacts, AtAppFacts DEF RemoteTypes
<1>4. ThreadOK /\ \A t \in Thread, c \in Conn : ~Waiting(t, c)
  BY <1>1, AtAppFacts DEF ThreadOK, ThrOK, Waiting
<1>5. SockOK
  BY <1>1, FreshFacts DEF SockOK
<1>6. Unwaited(Fresh, NoSkel)
  <2>1. \A i \in 1 .. Len(Fresh.req) : FALSE
    BY FreshFacts
  <2>2. \A i \in 1 .. Len(Fresh.buf) : FALSE
    BY FreshFacts
  <2>3. QED
    BY <2>1, <2>2, FreshFacts DEF Unwaited
<1>7. \A c \in Conn : ConnOK(c)
  BY <1>1, <1>4, <1>6, NoSkelFacts DEF ConnOK
<1>8. QED
  BY <1>3, <1>4, <1>5, <1>7 DEF Conversation

\* Nothing that the conversation is about changes.
LEMMA ConversationStutter ==
  ASSUME Conversation, UNCHANGED <<prog, sock, link, skel, heap, thr, inside>> PROVE Conversation'
<1>1. /\ prog' = prog /\ sock' = sock /\ link' = link /\ skel' = skel /\ heap' = heap
      /\ thr' = thr /\ inside' = inside
  OBVIOUS
<1>2. RemoteTypes' /\ ThreadOK' /\ SockOK'
  BY <1>1 DEF Conversation, RemoteTypes, ThreadOK, ThrOK, SockOK
<1>3. ASSUME NEW c \in Conn PROVE ConnOK(c)'
  <2>1. ConnOK(c)
    BY DEF Conversation
  <2>2. \A t \in Thread : /\ Waiting(t, c)' <=> Waiting(t, c)
                          /\ Mine(t)' = Mine(t) /\ Left(t)' = Left(t)
    BY <1>1 DEF Waiting, Mine, Left
  <2>3. QED
    BY <1>1, <2>1, <2>2 DEF ConnOK
<1>4. QED
  BY <1>2, <1>3 DEF Conversation

LEMMA ConversationNext ==
  ASSUME Unshared, Conversation, [Next]_vars PROVE Conversation'
<1>1. CASE UNCHANGED vars
  BY <1>1, ConversationStutter DEF vars
<1>2. ASSUME NEW t \in Thread, Client(t), prog' = prog PROVE Conversation'
  BY <1>2, OpenStep, NotConnectedStep, ReferredStep, SendStep, BrokenStep, ReceiveStep,
     ReceiveCloseStep, WriteElementsStep, BeginElementsStep, ReceiveElementStep DEF Client
<1>3. ASSUME NEW t \in Thread, NEW p \in Proxy, NEW op \in MyOp, Call(t, p, op), prog' = prog
      PROVE  Conversation'
  BY <1>3, CallStep
<1>4. ASSUME NEW c \in Conn, Server(c), prog' = prog PROVE Conversation'
  BY <1>4, ServeReferenceStep, ServeCloseStep, ServeReadStep, ServePutStep, PutStep, EndsStep,
     NullAnsweredStep, ServeWriteStep, ServeEnterStep, EnterStep, ServeExitStep, ServeBlockStep, BlockReadStep,
     BlockWriteStep DEF Server
<1>5. ASSUME NEW c \in Conn, Drop(c), prog' = prog PROVE Conversation'
  BY <1>5, DropStep
<1>6. ASSUME NEW o \in Obj, Expire(o) \/ Register(o), prog' = prog PROVE Conversation'
  <2>1. UNCHANGED <<prog, sock, link, skel, heap, thr, inside>>
    BY <1>6 DEF Expire, Register, cvars
  <2>2. QED
    BY <2>1, ConversationStutter
<1>7. QED
  BY <1>1, <1>2, <1>3, <1>4, <1>5, <1>6 DEF Next

\* The methods of Proxy and the loop of Skeleton#run() keep every connection in
\* step: requests, elements and replies are where the invariant puts them.
THEOREM ConversationInvariant ==
  ASSUME Unshared PROVE Spec => []Conversation
<1>1. Init => Conversation
  BY ConversationInit
<1>2. Conversation /\ [Next]_vars => Conversation'
  BY ConversationNext
<1>3. QED
  BY <1>1, <1>2, PTL DEF Spec

\* Every reply that a method of Proxy reads answers the request it has sent, if
\* no two threads use one proxy: operations that threw, block operations and lost
\* connections leave no reply behind for the next one.
THEOREM RepliesMatch ==
  ASSUME Unshared PROVE Spec => []ReplyMatches
<1>1. Conversation => ReplyMatches
  <2>1. SUFFICES ASSUME Conversation, NEW t \in Thread,
                        thr[t].pc \in {"ref", "wait", "elems"}, link[Wire(t)].rep # << >>
                 PROVE  Head(link[Wire(t)].rep).to = Mine(t)
    BY DEF ReplyMatches, Mine
  <2>2. link[Wire(t)] \in LinkType /\ Waited(link[Wire(t)], skel[Wire(t)], Mine(t), Left(t))
    BY <2>1, Talks
  <2>3. link[Wire(t)].rep \in Seq(ReplyType)
    BY <2>2 DEF LinkType
  <2>4. Head(link[Wire(t)].rep) = link[Wire(t)].rep[1] /\ 1 \in 1 .. Len(link[Wire(t)].rep)
    BY <2>1, <2>3, TailFacts
  <2>5. QED
    BY <2>2, <2>4 DEF Waited
<1>2. QED
  BY <1>1, ConversationInvariant, PTL

\* Skeleton#run() takes a request where the Proxy wrote one and an element where
\* it wrote an element, if no two threads use one proxy and block stores stay
\* inside their array.
THEOREM StaysInStep ==
  ASSUME Unshared, StoresFit PROVE Spec => []InStep
<1>1. Conversation => InStep
  <2>1. SUFFICES ASSUME Conversation, NEW c \in Conn, link[c].up, link[c].req # << >>
                 PROVE  /\ skel[c].st = "idle" => Asked(c).m # "element"
                        /\ (skel[c].st = "block" /\ skel[c].op.m = "store") => Asked(c).m = "element"
    BY DEF InStep
  <2>2. RemoteTypes /\ ThreadOK /\ link[c] \in LinkType /\ skel[c] \in SkelType /\ ConnOK(c)
    BY <2>1 DEF Conversation, RemoteTypes
  <2>3. link[c].req \in Seq(RequestType) /\ link[c].buf \in Seq(RequestType)
    BY <2>2 DEF LinkType
  <2>4. /\ Len(link[c].req) \in Nat /\ Len(link[c].req) >= 1 /\ 1 \in 1 .. Len(link[c].req)
        /\ Query(c) = link[c].req[1] /\ Len(link[c].buf) \in Nat
    BY <2>1, <2>3, TailFacts DEF Query
  <2>5. Asked(c).m = "element" <=> IsElement(Query(c))
    BY DEF Asked, IsElement
  <2>6. CASE \A t \in Thread : ~Waiting(t, c)
    <3>1. Unwaited(link[c], skel[c])
      BY <2>2, <2>6 DEF ConnOK
    <3>2. IsElement(Query(c))
      BY <2>4, <3>1 DEF Unwaited
    <3>3. Expected(skel[c]) = Len(link[c].req) + Len(link[c].buf)
      BY <2>1, <3>1 DEF Unwaited
    <3>4. skel[c].st # "idle"
      <4>1. Expected(skel[c]) >= 1
        <5> DEFINE a == Len(link[c].req)
                   b == Len(link[c].buf)
        <5>1. Expected(skel[c]) = a + b /\ a \in Nat /\ b \in Nat /\ a >= 1
          BY <2>4, <3>3
        <5> HIDE DEF a, b
        <5>2. QED
          BY <5>1
      <4>2. QED
        BY <4>1 DEF Expected
    <3>5. QED
      BY <2>5, <3>2, <3>4
  <2>7. ASSUME NEW t \in Thread, Waiting(t, c)
        PROVE  /\ skel[c].st = "idle" => ~IsElement(Query(c))
               /\ (skel[c].st = "block" /\ skel[c].op.m = "store") => IsElement(Query(c))
    <3> DEFINE q == Mine(t)
    <3>1. Waited(link[c], skel[c], q, Left(t)) /\ Asks(q, Left(t))
      BY <2>2, <2>7, WaiterAsks DEF ConnOK
    <3> HIDE DEF q
    <3>2. Expected(skel[c]) = Len(link[c].req) - (IF Unread(link[c]) THEN 1 ELSE 0) + ToWrite(link[c], q)
      BY <2>1, <3>1 DEF Waited
    <3>3. ToWrite(link[c], q) \in Nat
      <4>1. q.op.m = "store" => Count(q.op) \in Nat /\ Count(q.op) = q.op.n
        BY <3>1, AskFacts
      <4>2. QED
        BY <4>1 DEF ToWrite
    <3>4. CASE skel[c].st = "idle"
      <4>1. Expected(skel[c]) = 0
        BY <3>4 DEF Expected
      <4>2. Unread(link[c])
        <5>1. SUFFICES ASSUME ~Unread(link[c]) PROVE FALSE
          OBVIOUS
        <5>2. Expected(skel[c]) = Len(link[c].req) - 0 + ToWrite(link[c], q)
          BY <3>2, <5>1
        <5>3. QED
          BY <2>4, <3>3, <4>1, <5>2
      <4>3. Expected(skel[c]) = Len(link[c].req) - 1 + ToWrite(link[c], q)
        BY <3>2, <4>2
      <4>4. Len(link[c].req) <= 1
        BY <2>4, <3>3, <4>1, <4>3
      <4>5. QED
        BY <2>4, <3>4, <4>2, <4>4 DEF Unread
    <3>5. CASE skel[c].st = "block" /\ skel[c].op.m = "store"
      <4>1. SUFFICES ASSUME ~IsElement(Query(c)) PROVE FALSE
        BY <3>5
      <4>2. Len(link[c].req) <= 1 /\ Query(c) = q /\ Unread(link[c])
        BY <2>1, <2>2, <3>1, <4>1, HeadRequest DEF Query
      <4>3. Expected(skel[c]) = Len(link[c].req) - 1 + ToWrite(link[c], q)
        BY <3>2, <4>2
      <4>4. Expected(skel[c]) >= 1
        <5>1. skel[c].k < Count(skel[c].op) /\ skel[c].k \in Nat /\ Count(skel[c].op) \in Int
          BY <2>2, <3>5, RemoteAssumption DEF ConnOK, SkelOK, SkelType, OpType, Count, Cell
        <5>2. QED
          BY <3>5, <5>1 DEF Expected
      <4>5. ToWrite(link[c], q) >= 1
        BY <2>4, <3>3, <4>2, <4>3, <4>4
      <4>6. link[c].rep # << >> /\ q.op.m = "store"
        BY <4>5 DEF ToWrite
      <4>7. link[c].rep \in Seq(ReplyType) /\ Len(link[c].rep) \in Nat /\ Len(link[c].rep) >= 1
        BY <2>2, <4>6, TailFacts DEF LinkType
      <4>8. link[c].req[Len(link[c].req)] = q
        BY <2>1, <2>2, <3>1, <4>1, HeadRequest DEF Query
      <4>9. ToCome(link[c], skel[c]) = 1
        BY <4>2, <4>6, <4>8 DEF ToCome, Replies
      <4>10. Left(t) = Len(link[c].rep) + 1
        BY <2>1, <3>1, <4>9 DEF Waited
      <4>11. Left(t) <= 1
        BY <3>1, <4>6 DEF Asks, Replies
      <4>12. QED
        BY <4>7, <4>10, <4>11
    <3>6. QED
      BY <3>4, <3>5
  <2>8. QED
    BY <2>5, <2>6, <2>7
<1>2. QED
  BY <1>1, ConversationInvariant, PTL

-----------------------------------------------------------------------------
(* The remote flag.                                                        *)

\* The fields of a thread's record, whatever they hold.
ThrShape(r) == r = [pc |-> r.pc, p |-> r.p, op |-> r.op, k |-> r.k, got |-> r.got]

\* Each thread has its record, its flag and an outcome.
FlagInv ==
  /\ flag \in [Thread -> BOOLEAN]
  /\ thr = [t \in Thread |-> thr[t]]
  /\ res = [t \in Thread |-> res[t]]
  /\ \A t \in Thread : ThrShape(thr[t])

\* A thread that comes back has its flag on, or has been given one of the
\* exceptions that leave it off.
Comes(t) ==
  (thr[t].pc # "app" /\ thr'[t].pc = "app") =>
    flag'[t] \/ (thr[t].op.m \in {"enter", "exit", "close"} /\ res'[t] = S!Abrupt)
FlagStep == FlagInv' /\ \A t \in Thread : Comes(t)

\* A thread leaves the method, with its flag on.
LEMMA FlagLeaves ==
  ASSUME FlagInv, NEW t \in Thread, thr' = [thr EXCEPT ![t] = AtApp],
         flag' = [flag EXCEPT ![t] = TRUE], NEW x, res' = [res EXCEPT ![t] = x]
  PROVE  FlagStep
<1>1. thr' = [u \in Thread |-> thr'[u]] /\ thr'[t] = AtApp /\ \A u \in Thread \ {t} : thr'[u] = thr[u]
  BY DEF FlagInv
<1>2. flag' \in [Thread -> BOOLEAN] /\ flag'[t]
  BY DEF FlagInv
<1>3. ThrShape(AtApp)
  BY DEF ThrShape, AtApp
<1>4. res' = [u \in Thread |-> res'[u]]
  BY DEF FlagInv
<1>5. FlagInv'
  BY <1>1, <1>2, <1>3, <1>4 DEF FlagInv
<1>6. \A u \in Thread : Comes(u)
  BY <1>1, <1>2 DEF Comes
<1>7. QED
  BY <1>5, <1>6 DEF FlagStep

\* A thread goes on with its operation.
LEMMA FlagStays ==
  ASSUME FlagInv, NEW t \in Thread, flag' = flag, res' = res, thr' = [u \in Thread |-> thr'[u]],
         \A u \in Thread \ {t} : thr'[u] = thr[u], ThrShape(thr'[t]), thr'[t].pc # "app"
  PROVE  FlagStep
<1>1. FlagInv'
  BY DEF FlagInv
<1>2. \A u \in Thread : Comes(u)
  BY DEF Comes
<1>3. QED
  BY <1>1, <1>2 DEF FlagStep

\* The place of a thread in its method changes, or the values it has read.
LEMMA ShapeFacts ==
  ASSUME FlagInv, NEW t \in Thread, NEW r, ThrShape(r), thr' = [thr EXCEPT ![t] = r]
  PROVE  thr' = [u \in Thread |-> thr'[u]] /\ thr'[t] = r /\ \A u \in Thread \ {t} : thr'[u] = thr[u]
BY DEF FlagInv

\* A record with the fields of a thread's, two of them replaced.
LEMMA ShapeExcept ==
  ASSUME NEW x, ThrShape(x), NEW k, NEW g
  PROVE  [x EXCEPT !.k = k, !.got = g] = [pc |-> x.pc, p |-> x.p, op |-> x.op, k |-> k, got |-> g]
<1>1. [x EXCEPT !.k = k] = [pc |-> x.pc, p |-> x.p, op |-> x.op, k |-> k, got |-> x.got]
  BY DEF ThrShape
<1>2. PICK y : y = [x EXCEPT !.k = k]
  OBVIOUS
<1>3. ThrShape(y) /\ y.pc = x.pc /\ y.p = x.p /\ y.op = x.op /\ y.k = k
  BY <1>1, <1>2 DEF ThrShape
<1>4. [y EXCEPT !.got = g] = [pc |-> y.pc, p |-> y.p, op |-> y.op, k |-> y.k, got |-> g]
  BY <1>3 DEF ThrShape
<1>5. [x EXCEPT !.k = k, !.got = g] = [y EXCEPT !.got = g]
  BY <1>2
<1>6. QED
  BY <1>3, <1>4, <1>5

LEMMA FlagPlace ==
  ASSUME FlagInv, NEW t \in Thread, flag' = flag, res' = res,
         NEW pc \in {"ref", "send", "wait", "elems"}, thr' = [thr EXCEPT ![t].pc = pc]
  PROVE  FlagStep
<1> DEFINE r == [pc |-> pc, p |-> thr[t].p, op |-> thr[t].op, k |-> thr[t].k, got |-> thr[t].got]
<1>1. ThrShape(r) /\ r.pc # "app"
  BY DEF ThrShape
<1>2. ThrShape(thr[t])
  BY DEF FlagInv
<1>3. [thr[t] EXCEPT !.pc = pc] = r
  BY <1>2 DEF ThrShape
<1>4. thr' = [thr EXCEPT ![t] = r]
  BY <1>3
<1> HIDE DEF r
<1>5. QED
  BY <1>1, <1>4, ShapeFacts, FlagStays, ZenonT(60)

LEMMA FlagFail ==
  ASSUME FlagInv, NEW t \in Thread, Fail(t)
  PROVE  FlagStep
<1>1. /\ thr' = [thr EXCEPT ![t] = AtApp]
      /\ flag' = [flag EXCEPT ![t] = thr[t].op.m \notin {"enter", "exit", "close"}]
      /\ res' = [res EXCEPT ![t] = S!Abrupt]
  BY DEF Fail
<1>2. CASE thr[t].op.m \notin {"enter", "exit", "close"}
  <2>1. flag' = [flag EXCEPT ![t] = TRUE]
    BY <1>1, <1>2
  <2>2. QED
    BY <1>1, <2>1, FlagLeaves
<1>3. CASE thr[t].op.m \in {"enter", "exit", "close"}
  <2>1. thr' = [u \in Thread |-> thr'[u]] /\ thr'[t] = AtApp /\ \A u \in Thread \ {t} : thr'[u] = thr[u]
    BY <1>1 DEF FlagInv
  <2>2. flag' = [flag EXCEPT ![t] = FALSE]
    BY <1>1, <1>3
  <2>3. flag' \in [Thread -> BOOLEAN]
    BY <2>2 DEF FlagInv
  <2>4. res' = [u \in Thread |-> res'[u]] /\ res'[t] = S!Abrupt
    BY <1>1 DEF FlagInv
  <2>5. FlagInv'
    <3>1. ThrShape(AtApp)
      BY DEF ThrShape, AtApp
    <3>2. QED
      BY <2>1, <2>3, <2>4, <3>1 DEF FlagInv
  <2>6. \A u \in Thread : Comes(u)
    BY <1>3, <2>1, <2>4 DEF Comes
  <2>7. QED
    BY <2>5, <2>6 DEF FlagStep
<1>4. QED
  BY <1>2, <1>3

LEMMA FlagNext ==
  ASSUME FlagInv, [Next]_vars PROVE FlagStep
<1>1. ASSUME UNCHANGED <<thr, flag, res>> PROVE FlagStep
  <2>1. FlagInv'
    BY <1>1 DEF FlagInv
  <2>2. \A t \in Thread : Comes(t)
    BY <1>1 DEF Comes
  <2>3. QED
    BY <2>1, <2>2 DEF FlagStep
<1>2. ASSUME NEW t \in Thread, NEW p \in Proxy, NEW op \in MyOp, Call(t, p, op)
      PROVE  FlagStep
  <2> DEFINE r == [pc |-> IF sock[p] = Null THEN "open" ELSE "send",
                   p |-> p, op |-> op, k |-> 0, got |-> << >>]
  <2>1. thr' = [thr EXCEPT ![t] = r] /\ flag' = [flag EXCEPT ![t] = FALSE] /\ res' = res
    BY <1>2 DEF Call
  <2>2. ThrShape(r) /\ r.pc # "app"
    BY DEF ThrShape
  <2> HIDE DEF r
  <2>3. thr' = [u \in Thread |-> thr'[u]] /\ thr'[t] = r /\ \A u \in Thread \ {t} : thr'[u] = thr[u]
    BY <2>1, <2>2, ShapeFacts
  <2>4. flag' \in [Thread -> BOOLEAN]
    BY <2>1 DEF FlagInv
  <2>5. FlagInv'
    BY <2>1, <2>2, <2>3, <2>4 DEF FlagInv
  <2>6. \A u \in Thread : Comes(u)
    BY <2>2, <2>3 DEF Comes
  <2>7. QED
    BY <2>5, <2>6 DEF FlagStep
<1>3. ASSUME NEW t \in Thread, Client(t) PROVE FlagStep
  <2>1. CASE Open(t)
    BY <2>1, FlagPlace DEF Open
  <2>2. CASE NotConnected(t)
    BY <2>2, FlagFail DEF NotConnected
  <2>3. CASE Referred(t)
    BY <2>3, FlagPlace, FlagFail DEF Referred
  <2>4. CASE Send(t)
    BY <2>4, FlagPlace, FlagLeaves DEF Send, Throw
  <2>5. CASE Broken(t)
    BY <2>5, FlagFail DEF Broken
  <2>6. CASE Receive(t)
    BY <2>6, FlagLeaves DEF Receive, Throw, Return
  <2>7. CASE ReceiveClose(t)
    BY <2>7, FlagLeaves DEF ReceiveClose, Return
  <2>8. CASE WriteElements(t)
    BY <2>8, FlagLeaves DEF WriteElements, Return
  <2>9. CASE BeginElements(t)
    BY <2>9, FlagPlace DEF BeginElements
  <2>10. CASE ReceiveElement(t)
    <3>1. CASE Return(t, thr[t].got)
      BY <3>1, FlagLeaves DEF Return
    <3>2. CASE /\ flag' = flag /\ res' = res
               /\ thr' = [thr EXCEPT ![t].k = @ + 1, ![t].got = @ \o Head(link[Wire(t)].rep).vals]
      <4> DEFINE k == thr[t].k + 1
                 g == thr[t].got \o Head(link[Wire(t)].rep).vals
                 r == [pc |-> thr[t].pc, p |-> thr[t].p, op |-> thr[t].op, k |-> k, got |-> g]
      <4>1. thr' = [thr EXCEPT ![t].k = k, ![t].got = g]
        BY <3>2
      <4> HIDE DEF k, g
      <4>2. ThrShape(r) /\ r.pc = thr[t].pc
        BY DEF ThrShape
      <4>3. ThrShape(thr[t]) /\ thr[t].pc # "app"
        BY <2>10 DEF FlagInv, ReceiveElement
      <4>4. [thr[t] EXCEPT !.k = k, !.got = g] = r
        BY <4>3, ShapeExcept
      <4>5. thr' = [thr EXCEPT ![t] = r]
        BY <4>1, <4>4 DEF FlagInv
      <4> HIDE DEF r
      <4>6. QED
        BY <3>2, <4>2, <4>3, <4>5, ShapeFacts, FlagStays
    <3>3. QED
      BY <2>10, <3>1, <3>2 DEF ReceiveElement
  <2>11. QED
    BY <1>3, <2>1, <2>2, <2>3, <2>4, <2>5, <2>6, <2>7, <2>8, <2>9, <2>10 DEF Client
<1>4. ASSUME NEW c \in Conn, Server(c) \/ Drop(c) PROVE FlagStep
  <2>1. UNCHANGED <<thr, flag, res>>
    BY <1>4 DEF Server, Drop, cvars, ServeReference, ServeClose, ServeGet, ServeArrayLoad, ServePut,
                Put, NullAccess, NullAnswered, Unfit, ServeArrayStore, ServeInvoke, ServeEnter, Enter,
                ServeExit, ServeBlock, BlockRead, BlockWrite, Lost
  <2>2. QED
    BY <1>1, <2>1
<1>5. ASSUME NEW o \in Obj, Expire(o) \/ Register(o) PROVE FlagStep
  BY <1>1, <1>5 DEF Expire, Register, cvars
<1>6. CASE UNCHANGED vars
  BY <1>1, <1>6 DEF vars
<1>7. QED
  BY <1>2, <1>3, <1>4, <1>5, <1>6 DEF Next

\* However a thread comes back from a method of Proxy, its remote flag is on, but
\* for an exception out of proxy_monitorenter(), proxy_monitorexit() and
\* Proxy#finalize(), which have no path that restores it: for every program, every
\* fault, and threads that share proxies in any way.
THEOREM FlagComesBack == Spec => FlagRestored
<1>1. Init => FlagInv
  BY DEF Init, FlagInv, ThrShape, AtApp
<1>2. FlagInv /\ [Next]_vars => FlagInv'
  BY FlagNext DEF FlagStep
<1>3. FlagInv /\ [Next]_vars =>
        [\A t \in Thread : (thr[t].pc # "app" /\ thr'[t].pc = "app") =>
           flag'[t] \/ (thr[t].op.m \in {"enter", "exit", "close"} /\ res'[t] = S!Abrupt)]_vars
  BY FlagNext DEF FlagStep, Comes
<1>4. QED
  BY <1>1, <1>2, <1>3, PTL DEF Spec, FlagRestored

-----------------------------------------------------------------------------
(* The monitors of remote objects.                                         *)

\* No connection breaks and no value is refused in run(): a pool thread that leaves
\* run() so keeps its monitors.
NoDrops == \A p \in Programs : p.faults \cap {"drop", "unfit"} = {}

-----------------------------------------------------------------------------
(* The inductive invariant.                                                *)

\* t is in the method of Proxy for p that asks for op m.
In(t, p, m) == thr[t].pc # "app" /\ thr[t].p = p /\ thr[t].op.m = m

\* The monitor behind p is entered for t: from the reply to MONITORENTER to the
\* reply to MONITOREXIT.
Entered(t, p) ==
  \/ inside[t] = p
  \/ In(t, p, "exit") /\ thr[t].pc = "send"
  \/ In(t, p, "exit") /\ thr[t].pc = "wait" /\ link[sock[p]].rep = << >>
  \/ In(t, p, "enter") /\ thr[t].pc = "wait" /\ link[sock[p]].rep # << >>

\* The pool thread that serves p owns the monitor of its object, once.
Owned(p) ==
  /\ sock[p] # Null
  /\ link[sock[p]].up
  /\ skel[sock[p]].obj = Target[p]
  /\ skel[sock[p]].w # Null
  /\ mon[Target[p]] = [owner |-> skel[sock[p]].w, n |-> 1]

\* A thread uses the monitors of its own proxies, one at a time, and closes no
\* connection while it needs it.
UserOK(t) ==
  /\ inside[t] # Null => inside[t] \in Uses[t]
  /\ thr[t].pc # "app" =>
       /\ thr[t].op.m \in {"enter", "exit"} => inside[t] = Null
       /\ thr[t].op.m = "exit" => thr[t].pc \in {"send", "wait"}
       /\ thr[t].op.m = "close" \/ thr[t].pc \in {"open", "ref"} => inside[t] # thr[t].p
       /\ thr[t].op.m \in {"enter", "exit"} /\ thr[t].pc = "wait" =>
            \A i \in 1 .. Len(link[Wire(t)].rep) : link[Wire(t)].rep[i].ok

\* A pool thread serves one connection, and works on the object that the proxy
\* stands for.
ServerOK(c) ==
  /\ skel[c].w # Null => \A d \in Conn : skel[d].w = skel[c].w => d = c
  /\ skel[c].st # "gone" => skel[c].w # Null
  /\ \A p \in Proxy : sock[p] = c /\ skel[c].obj # Null => skel[c].obj = Target[p]
  /\ skel[c].st = "enter" => link[c].up

\* Nobody else owns a monitor.
MonOK(o) ==
  IF mon[o].owner = Null THEN mon[o].n = 0
  ELSE \E t \in Thread, p \in Proxy : Entered(t, p) /\ Target[p] = o

Monitors ==
  /\ \A t \in Thread, p \in Proxy : Entered(t, p) => Owned(p)
  /\ \A t \in Thread : UserOK(t)
  /\ \A c \in Conn : ServerOK(c)
  /\ \A o \in Obj : MonOK(o)
  /\ mon \in [Obj -> [owner : Worker \cup {Null}, n : Nat]]

-----------------------------------------------------------------------------
(* What a step leaves alone.                                               *)

LEMMA MonTypes ==
  ASSUME Conversation
  PROVE  /\ RemoteTypes /\ ThreadOK /\ SockOK
         /\ \A t \in Thread : thr[t] \in ThrType /\ inside[t] \in Proxy \cup {Null} /\ ThrOK(t)
         /\ \A p \in Proxy : sock[p] \in Conn \cup {Null}
         /\ \A c \in Conn : link[c] \in LinkType /\ skel[c] \in SkelType /\ SkelOK(skel[c])
         /\ Null \notin Proxy /\ Null \notin Conn
BY RemoteAssumption DEF Conversation, RemoteTypes, ThreadOK, ConnOK

LEMMA ProxyConn ==
  ASSUME Conversation, NEW p \in Proxy, sock[p] # Null PROVE sock[p] \in Conn
BY MonTypes

\* A proxy whose monitor a thread has entered, or is entering or leaving, is one
\* of the thread's own.
LEMMA OwnProxy ==
  ASSUME Conversation, Monitors, NEW t \in Thread, NEW p \in Proxy, Entered(t, p)
  PROVE  p \in Uses[t]
<1>1. CASE inside[t] = p
  BY <1>1, MonTypes DEF Monitors, UserOK
<1>2. CASE thr[t].pc # "app" /\ thr[t].p = p
  BY <1>2, MonTypes DEF ThrOK
<1>3. QED
  BY <1>1, <1>2 DEF Entered, In

\* Thread t moves: the other threads stay where they are.
LEMMA OthersKeep ==
  ASSUME Unshared, Conversation, Monitors, NEW t \in Thread, mon' = mon,
         \A u \in Thread \ {t} : thr'[u] = thr[u] /\ inside'[u] = inside[u],
         \A p \in Proxy \ Uses[t] :
           /\ sock'[p] = sock[p]
           /\ sock[p] # Null => link'[sock[p]] = link[sock[p]] /\ skel'[sock[p]] = skel[sock[p]]
  PROVE  \A u \in Thread \ {t} :
           /\ UserOK(u)'
           /\ \A p \in Proxy : (Entered(u, p)' <=> Entered(u, p)) /\ (Entered(u, p) => Owned(p)')
<1> SUFFICES ASSUME NEW u \in Thread \ {t}
             PROVE  /\ UserOK(u)'
                    /\ \A p \in Proxy : /\ Entered(u, p)' <=> Entered(u, p)
                                        /\ Entered(u, p) => Owned(p)'
  OBVIOUS
<1>1. thr'[u] = thr[u] /\ inside'[u] = inside[u]
  OBVIOUS
<1>2. Uses[u] \subseteq Proxy \ Uses[t]
  BY RemoteAssumption DEF Unshared
<1>3. thr[u].pc # "app" => thr[u].p \in Proxy \ Uses[t]
  BY <1>2, MonTypes DEF ThrOK
<1>4. thr[u].pc = "wait" => sock[thr[u].p] # Null
  BY MonTypes DEF ThrOK
<1>5. thr[u].pc = "wait" => sock'[thr[u].p] = sock[thr[u].p] /\ link'[sock[thr[u].p]] = link[sock[thr[u].p]]
  BY <1>3, <1>4
<1>6. UserOK(u)'
  BY <1>1, <1>5 DEF Monitors, UserOK, Wire
<1>7. ASSUME NEW p \in Proxy PROVE Entered(u, p)' <=> Entered(u, p)
  BY <1>1, <1>5 DEF Entered, In
<1>8. ASSUME NEW p \in Proxy, Entered(u, p) PROVE Owned(p)'
  <2>1. p \in Proxy \ Uses[t]
    BY <1>2, <1>8, OwnProxy
  <2>2. Owned(p)
    BY <1>8 DEF Monitors
  <2>3. sock[p] # Null
    BY <2>2 DEF Owned
  <2>4. sock'[p] = sock[p] /\ link'[sock[p]] = link[sock[p]] /\ skel'[sock[p]] = skel[sock[p]]
    BY <2>1, <2>3
  <2>5. QED
    BY <2>2, <2>4 DEF Owned
<1>9. QED
  BY <1>6, <1>7, <1>8

\* The same for everything, when t has entered and owns after the step what it
\* had and owned before it.
LEMMA ClientKeeps ==
  ASSUME Unshared, Conversation, Monitors, NEW t \in Thread, mon' = mon,
         \A u \in Thread \ {t} : thr'[u] = thr[u] /\ inside'[u] = inside[u],
         \A p \in Proxy \ Uses[t] :
           /\ sock'[p] = sock[p]
           /\ sock[p] # Null => link'[sock[p]] = link[sock[p]] /\ skel'[sock[p]] = skel[sock[p]],
         \A p \in Proxy : Entered(t, p)' <=> Entered(t, p),
         \A p \in Proxy : Entered(t, p) => Owned(p)',
         UserOK(t)', \A c \in Conn : ServerOK(c)'
  PROVE  Monitors'
<1>1. \A u \in Thread \ {t} :
        /\ UserOK(u)'
        /\ \A p \in Proxy : (Entered(u, p)' <=> Entered(u, p)) /\ (Entered(u, p) => Owned(p)')
  BY OthersKeep
<1>2. \A u \in Thread, p \in Proxy : Entered(u, p)' <=> Entered(u, p)
  BY <1>1
<1>3. \A u \in Thread, p \in Proxy : Entered(u, p)' => Owned(p)'
  BY <1>1, <1>2
<1>4. \A u \in Thread : UserOK(u)'
  BY <1>1
<1>5. ASSUME NEW o \in Obj PROVE MonOK(o)'
  BY <1>2 DEF Monitors, MonOK
<1>6. QED
  BY <1>3, <1>4, <1>5 DEF Monitors

\* The same in a step of t in a method of Proxy that leaves the Skeletons alone.
LEMMA TalkKeeps ==
  ASSUME Unshared, Conversation, Monitors, NEW t \in Thread,
         thr[t].pc \in {"ref", "send", "wait", "elems"}, UNCHANGED <<mon, skel>>,
         \A u \in Thread \ {t} : thr'[u] = thr[u] /\ inside'[u] = inside[u],
         \A d \in Conn \ {Wire(t)} : link'[d] = link[d],
         \A p \in Proxy \ {thr[t].p} : sock'[p] = sock[p],
         \/ sock'[thr[t].p] = sock[thr[t].p] /\ link'[Wire(t)].up = link[Wire(t)].up
         \/ /\ thr[t].op.m = "close" /\ sock'[thr[t].p] \in {sock[thr[t].p], Null}
            /\ skel[Wire(t)].st = "enter" => link'[Wire(t)].up,
         \A p \in Proxy : Entered(t, p)' <=> Entered(t, p), UserOK(t)'
  PROVE  Monitors'
<1>1. /\ thr[t].p \in Uses[t] /\ thr[t].p \in Proxy /\ Wire(t) \in Conn /\ Wire(t) = sock[thr[t].p]
      /\ \A p \in Proxy \ Uses[t] : sock[p] # Wire(t)
  BY Talks
<1>2. /\ \A p \in Proxy : sock[p] \in Conn \cup {Null}
      /\ \A p, q \in Proxy : (sock[p] # Null /\ sock[p] = sock[q]) => p = q
      /\ Null \notin Proxy /\ Null \notin Conn
  BY MonTypes DEF SockOK
<1>3. ASSUME NEW p \in Proxy \ Uses[t]
      PROVE  /\ sock'[p] = sock[p]
             /\ sock[p] # Null => link'[sock[p]] = link[sock[p]] /\ skel'[sock[p]] = skel[sock[p]]
  BY <1>1, <1>2
<1>4. ASSUME NEW p \in Proxy, Entered(t, p) PROVE Owned(p)'
  <2>0. Owned(p)
    BY <1>4 DEF Monitors
  <2>1. sock[p] \in Conn
    <3>1. sock[p] # Null
      BY <2>0 DEF Owned
    <3>2. QED
      BY <3>1, ProxyConn
  <2>2. CASE p # thr[t].p
    <3>1. sock[p] # Wire(t)
      BY <1>1, <1>2, <2>1, <2>2
    <3>2. sock'[p] = sock[p] /\ link'[sock[p]] = link[sock[p]]
      BY <2>1, <2>2, <3>1
    <3>3. QED
      BY <2>0, <3>2 DEF Owned
  <2>3. CASE p = thr[t].p
    <3>1. thr[t].op.m # "close"
      <4>1. thr[t].op.m = "close" => inside[t] # p
        BY <2>3 DEF Monitors, UserOK
      <4>2. thr[t].op.m = "close" => ~ Entered(t, p)
        BY <4>1 DEF Entered, In
      <4>3. QED
        BY <1>4, <4>2
    <3>2. sock'[p] = sock[p] /\ link'[sock[p]].up = link[sock[p]].up
      BY <1>1, <2>3, <3>1
    <3>3. QED
      BY <2>0, <3>2 DEF Owned
  <2>4. QED
    BY <2>2, <2>3
<1>5. ASSUME NEW c \in Conn PROVE ServerOK(c)'
  <2>1. ServerOK(c)
    BY DEF Monitors
  <2>2. \A p \in Proxy : sock'[p] \in {sock[p], Null}
    BY <1>1
  <2>3. skel[c].st = "enter" => link'[c].up
    <3>1. CASE c # Wire(t)
      BY <2>1, <3>1 DEF ServerOK
    <3>2. CASE c = Wire(t)
      BY <2>1, <3>2 DEF ServerOK
    <3>3. QED
      BY <3>1, <3>2
  <2>4. \A p \in Proxy : sock'[p] = c => sock[p] = c
    BY <1>2, <2>2, MonTypes
  <2>5. QED
    BY <2>1, <2>3, <2>4 DEF ServerOK
<1>6. QED
  BY <1>3, <1>4, <1>5, ClientKeeps

\* A thread in a data operation has entered the monitor it is inside of.
LEMMA DataEntered ==
  ASSUME NEW t \in Thread, thr[t].pc # "app", thr[t].op.m \notin {"enter", "exit"},
         inside'[t] = inside[t],
         thr'[t].pc = "app" \/ thr'[t].op = thr[t].op
  PROVE  \A p \in Proxy : Entered(t, p)' <=> Entered(t, p)
BY DEF Entered, In

LEMMA DataUser ==
  ASSUME Monitors, NEW t \in Thread, thr[t].pc # "app", thr[t].op.m \notin {"enter", "exit"},
         inside'[t] = inside[t],
         \/ thr'[t].pc = "app"
         \/ /\ thr'[t].op = thr[t].op /\ thr'[t].p = thr[t].p
            /\ thr'[t].pc \in {"open", "ref"} => thr[t].pc \in {"open", "ref"}
  PROVE  UserOK(t)'
<1>1. UserOK(t)
  BY DEF Monitors
<1>2. QED
  BY <1>1 DEF UserOK

\* A step of a data operation
LEMMA DataKeeps ==
  ASSUME Unshared, Conversation, Monitors, NEW t \in Thread,
         thr[t].pc \in {"ref", "send", "wait", "elems"}, UNCHANGED <<mon, skel>>,
         thr[t].op.m \notin {"enter", "exit"},
         \A u \in Thread \ {t} : thr'[u] = thr[u], inside' = inside,
         \A d \in Conn \ {Wire(t)} : link'[d] = link[d],
         \A p \in Proxy \ {thr[t].p} : sock'[p] = sock[p],
         \/ sock'[thr[t].p] = sock[thr[t].p] /\ link'[Wire(t)].up = link[Wire(t)].up
         \/ /\ thr[t].op.m = "close" /\ sock'[thr[t].p] \in {sock[thr[t].p], Null}
            /\ skel[Wire(t)].st = "enter" => link'[Wire(t)].up,
         \/ thr'[t].pc = "app"
         \/ /\ thr'[t].op = thr[t].op /\ thr'[t].p = thr[t].p
            /\ thr'[t].pc \in {"send", "wait", "elems"}
  PROVE  Monitors'
<1>1. \A p \in Proxy : Entered(t, p)' <=> Entered(t, p)
  BY DataEntered
<1>2. UserOK(t)'
  BY DataUser
<1>3. \A u \in Thread \ {t} : thr'[u] = thr[u] /\ inside'[u] = inside[u]
  OBVIOUS
<1>4. QED
  BY <1>1, <1>2, <1>3, TalkKeeps

-----------------------------------------------------------------------------
(* The steps of a thread.                                                  *)

\* The program calls a method of Proxy.
LEMMA CallMonitors ==
  ASSUME Unshared, Conversation, Monitors, NEW t \in Thread, NEW p \in Proxy, NEW op \in MyOp,
         Call(t, p, op)
  PROVE  Monitors'
<1>1. /\ thr[t].pc = "app" /\ p \in Uses[t] /\ UNCHANGED <<sock, link, skel, mon>>
      /\ Wants(t, p, op)
      /\ inside' = IF op.m = "exit" THEN [inside EXCEPT ![t] = Null] ELSE inside
      /\ \A u \in Thread \ {t} : thr'[u] = thr[u]
      /\ thr'[t].pc = IF sock[p] = Null THEN "open" ELSE "send"
      /\ thr'[t].p = p /\ thr'[t].op = op
  BY MonTypes DEF Call, RemoteTypes
<1>2. /\ \A u \in Thread \ {t} : inside'[u] = inside[u]
      /\ inside'[t] = IF op.m = "exit" THEN Null ELSE inside[t]
      /\ Null \notin Proxy
  BY <1>1, MonTypes DEF RemoteTypes
<1>3. ASSUME NEW q \in Proxy, inside[t] = q PROVE Owned(q) /\ sock[q] # Null
  <2>1. Entered(t, q)
    BY <1>3 DEF Entered
  <2>2. Owned(q)
    BY <2>1 DEF Monitors
  <2>3. QED
    BY <2>2 DEF Owned
<1>4. \A q \in Proxy : Entered(t, q) <=> inside[t] = q
  BY <1>1 DEF Entered, In
<1>5. op.m = "enter" => inside[t] = Null
  BY <1>1 DEF Wants
<1>6. op.m = "exit" => inside[t] = p
  BY <1>1 DEF Wants
<1>7. op.m = "close" => inside[t] # p
  BY <1>1 DEF Wants
<1>8. sock[p] = Null => inside[t] # p
  BY <1>3
<1>9. ASSUME NEW q \in Proxy PROVE Entered(t, q)' <=> Entered(t, q)
  <2>1. Entered(t, q)' <=> (inside'[t] = q \/ (p = q /\ op.m = "exit" /\ thr'[t].pc = "send"))
    BY <1>1 DEF Entered, In
  <2>2. QED
    BY <1>1, <1>2, <1>4, <1>6, <1>8, <2>1
<1>10. ASSUME NEW q \in Proxy, Entered(t, q) PROVE Owned(q)'
  <2>1. Owned(q)
    BY <1>10 DEF Monitors
  <2>2. QED
    BY <1>1, <2>1 DEF Owned
<1>11. inside[t] # Null => inside[t] \in Uses[t]
  BY DEF Monitors, UserOK
<1>12. UserOK(t)'
  BY <1>1, <1>2, <1>5, <1>6, <1>7, <1>8, <1>11 DEF UserOK
<1>13. \A c \in Conn : ServerOK(c)'
  BY <1>1 DEF Monitors, ServerOK
<1>14. QED
  BY <1>1, <1>2, <1>9, <1>10, <1>12, <1>13, ClientKeeps

\* A thread makes a connection, and a pool thread that serves no other takes it.
LEMMA OpenMonitors ==
  ASSUME Unshared, Conversation, Monitors, NEW t \in Thread, Open(t) PROVE Monitors'
<1> DEFINE p == thr[t].p
<1>1. /\ thr[t].pc = "open" /\ UNCHANGED <<mon, inside>>
      /\ \A u \in Thread \ {t} : thr'[u] = thr[u]
      /\ thr'[t].pc = "ref" /\ thr'[t].p = p /\ thr'[t].op = thr[t].op
  BY MonTypes DEF Open, RemoteTypes, ThrType
<1>2. PICK c \in Conn, w \in Worker :
        /\ skel[c] = NoSkel /\ ~link[c].up /\ \A q \in Proxy : sock[q] # c
        /\ \A d \in Conn : skel[d].w # w
        /\ sock' = [sock EXCEPT ![p] = c]
        /\ link' = [link EXCEPT ![c] = [Fresh EXCEPT !.up = TRUE, !.req = <<Request(t, Reference)>>]]
        /\ skel' = [skel EXCEPT ![c] = [NoSkel EXCEPT !.st = "idle", !.w = w]]
  BY DEF Open
<1>3. p \in Uses[t] /\ p \in Proxy /\ sock[p] = Null /\ ThrOK(t)
  BY <1>1, MonTypes, RemoteAssumption DEF ThrOK
<1>4. /\ \A q \in Proxy \ {p} : sock'[q] = sock[q]
      /\ sock'[p] = c
      /\ \A d \in Conn \ {c} : link'[d] = link[d] /\ skel'[d] = skel[d]
      /\ skel'[c].st = "idle" /\ skel'[c].w = w /\ skel'[c].obj = Null
  BY <1>2, <1>3, MonTypes DEF RemoteTypes, NoSkel
<1>5. thr[t].op.m # "exit" /\ (thr[t].op.m = "enter" => inside[t] = Null)
      /\ inside[t] # p /\ (inside[t] # Null => inside[t] \in Uses[t])
  BY <1>1 DEF Monitors, UserOK
<1>6. ASSUME NEW q \in Proxy PROVE Entered(t, q)' <=> Entered(t, q)
  BY <1>1, <1>5 DEF Entered, In
<1>7. UserOK(t)'
  BY <1>1, <1>5 DEF UserOK
<1>8. ASSUME NEW q \in Proxy, sock[q] # Null
      PROVE  sock'[q] = sock[q] /\ link'[sock[q]] = link[sock[q]] /\ skel'[sock[q]] = skel[sock[q]]
  <2>1. q # p /\ sock[q] # c /\ sock[q] \in Conn
    BY <1>2, <1>3, <1>8, ProxyConn
  <2>2. QED
    BY <1>4, <2>1
<1>9. ASSUME NEW q \in Proxy, Entered(t, q) PROVE Owned(q)'
  <2>1. Owned(q)
    BY <1>9 DEF Monitors
  <2>2. sock[q] # Null
    BY <2>1 DEF Owned
  <2>3. QED
    BY <1>1, <1>8, <2>1, <2>2 DEF Owned
<1>10. \A q \in Proxy \ Uses[t] : sock'[q] = sock[q]
  BY <1>3, <1>4
<1>11. ASSUME NEW d \in Conn PROVE ServerOK(d)'
  <2>1. CASE d = c
    <3>1. \A e \in Conn : skel'[e].w = w => e = c
      BY <1>2, <1>4
    <3>2. QED
      BY <1>4, <2>1, <3>1, RemoteAssumption DEF ServerOK
  <2>2. CASE d # c
    <3>1. ServerOK(d)
      BY DEF Monitors
    <3>2. skel'[d] = skel[d] /\ link'[d] = link[d]
      BY <1>4, <2>2
    <3>3. \A e \in Conn : skel[d].w # Null /\ skel'[e].w = skel[d].w => e = d
      <4>1. \A e \in Conn \ {c} : skel[d].w # Null /\ skel'[e].w = skel[d].w => e = d
        BY <1>4, <3>1 DEF ServerOK
      <4>2. skel'[c].w # skel[d].w
        BY <1>2, <1>4
      <4>3. QED
        BY <4>1, <4>2
    <3>4. \A q \in Proxy : sock'[q] = d => sock[q] = d
      BY <1>4, <2>2
    <3>5. QED
      BY <3>1, <3>2, <3>3, <3>4 DEF ServerOK
  <2>3. QED
    BY <2>1, <2>2
<1> HIDE DEF p
<1>12. QED
  BY <1>1, <1>6, <1>7, <1>8, <1>9, <1>10, <1>11, ClientKeeps

\* The answer to REFERENCE is read.
LEMMA ReferredMonitors ==
  ASSUME Unshared, Conversation, Monitors, NEW t \in Thread, Referred(t) PROVE Monitors'
<1>1. /\ thr[t].pc = "ref" /\ link[Wire(t)].rep # << >>
      /\ link' = [link EXCEPT ![Wire(t)].rep = Tail(@)]
      /\ UNCHANGED <<sock, skel, mon, inside>>
      /\ thr' = [thr EXCEPT ![t].pc = "send"] \/ thr' = [thr EXCEPT ![t] = AtApp]
  BY DEF Referred, Fail
<1>2. RemoteTypes /\ Wire(t) \in Conn
  BY <1>1, Talks
<1>3. /\ \A d \in Conn \ {Wire(t)} : link'[d] = link[d]
      /\ link'[Wire(t)].up = link[Wire(t)].up
  BY <1>1, <1>2, TakenFacts
<1>4. /\ \A u \in Thread \ {t} : thr'[u] = thr[u]
      /\ \/ thr'[t].pc = "send" /\ thr'[t].p = thr[t].p /\ thr'[t].op = thr[t].op
         \/ thr'[t].pc = "app"
  BY <1>1, <1>2, AtAppFacts DEF RemoteTypes, ThrType
<1>5. /\ thr[t].op.m # "exit" /\ (thr[t].op.m = "enter" => inside[t] = Null)
      /\ inside[t] # thr[t].p /\ (inside[t] # Null => inside[t] \in Uses[t])
  BY <1>1 DEF Monitors, UserOK
<1>6. ASSUME NEW q \in Proxy PROVE Entered(t, q)' <=> Entered(t, q)
  BY <1>1, <1>4, <1>5 DEF Entered, In
<1>7. UserOK(t)'
  BY <1>1, <1>4, <1>5 DEF UserOK
<1>8. \A p \in Proxy \ {thr[t].p} : sock'[p] = sock[p]
  BY <1>1
<1>9. \A u \in Thread \ {t} : thr'[u] = thr[u] /\ inside'[u] = inside[u]
  BY <1>1, <1>4
<1>10. sock'[thr[t].p] = sock[thr[t].p] /\ UNCHANGED <<mon, skel>>
  BY <1>1
<1>11. thr[t].pc \in {"ref", "send", "wait", "elems"}
  BY <1>1
<1>12. QED
  BY <1>3, <1>6, <1>7, <1>8, <1>9, <1>10, <1>11, TalkKeeps

\* A request is sent, or refused.
LEMMA SendMonitors ==
  ASSUME Unshared, Conversation, Monitors, NEW t \in Thread, Send(t) PROVE Monitors'
<1> DEFINE c == Wire(t)
<1>1. thr[t].pc = "send" /\ UNCHANGED <<sock, skel, inside, mon>>
  BY DEF Send, Throw
<1>2. /\ RemoteTypes /\ c \in Conn /\ link[c] \in LinkType /\ link[c].rep = << >>
      /\ c = sock[thr[t].p]
  BY <1>1, Talks DEF Unwaited
<1>3. CASE Refused(thr[t].op) /\ Throw(t) /\ UNCHANGED link
  <2>1. thr[t].op.m \notin {"enter", "exit"}
    BY <1>3 DEF Refused
  <2>2. thr'[t].pc = "app" /\ \A u \in Thread \ {t} : thr'[u] = thr[u]
    BY <1>2, <1>3, AtAppFacts DEF Throw, RemoteTypes
  <2>3. thr[t].pc \in {"ref", "send", "wait", "elems"}
    BY <1>1
  <2>4. /\ \A d \in Conn \ {Wire(t)} : link'[d] = link[d]
        /\ \A p \in Proxy \ {thr[t].p} : sock'[p] = sock[p]
        /\ sock'[thr[t].p] = sock[thr[t].p] /\ link'[Wire(t)].up = link[Wire(t)].up
    BY <1>1, <1>3
  <2>5. QED
    BY <1>1, <2>1, <2>2, <2>3, <2>4, DataKeeps
<1>4. CASE /\ ~Refused(thr[t].op)
           /\ link' = [link EXCEPT ![c].req = @ \o link[c].buf \o <<Request(t, thr[t].op)>>,
                                   ![c].buf = << >>]
           /\ thr' = [thr EXCEPT ![t].pc = "wait"]
  <2>1. /\ \A d \in Conn \ {c} : link'[d] = link[d]
        /\ link'[c].up = link[c].up /\ link'[c].rep = << >>
    BY <1>2, <1>4 DEF RemoteTypes, LinkType
  <2>2. /\ \A u \in Thread \ {t} : thr'[u] = thr[u]
        /\ thr'[t].pc = "wait" /\ thr'[t].p = thr[t].p /\ thr'[t].op = thr[t].op
    BY <1>2, <1>4, PlaceFacts
  <2>3. Wire(t)' = c /\ sock'[thr[t].p] = sock[thr[t].p]
    BY <1>1, <2>2 DEF Wire
  <2>4. ASSUME NEW q \in Proxy PROVE Entered(t, q)' <=> Entered(t, q)
    <3>1. CASE q = thr[t].p
      <4>1. sock'[q] = c /\ link'[sock'[q]].rep = << >>
        BY <1>1, <1>2, <2>1, <3>1
      <4>2. QED
        BY <1>1, <2>2, <3>1, <4>1 DEF Entered, In
    <3>2. CASE q # thr[t].p
      BY <1>1, <2>2, <3>2 DEF Entered, In
    <3>3. QED
      BY <3>1, <3>2
  <2>5. \A i \in 1 .. Len(link'[Wire(t)'].rep) : link'[Wire(t)'].rep[i].ok
    BY <2>1, <2>3
  <2>6. UserOK(t)'
    <3>1. UserOK(t)
      BY DEF Monitors
    <3>2. QED
      BY <1>1, <2>2, <2>5, <3>1 DEF UserOK
  <2>7. thr[t].pc \in {"ref", "send", "wait", "elems"}
    BY <1>1
  <2>8. /\ \A u \in Thread \ {t} : thr'[u] = thr[u] /\ inside'[u] = inside[u]
        /\ \A d \in Conn \ {Wire(t)} : link'[d] = link[d]
        /\ \A p \in Proxy \ {thr[t].p} : sock'[p] = sock[p]
        /\ sock'[thr[t].p] = sock[thr[t].p] /\ link'[Wire(t)].up = link[Wire(t)].up
    BY <1>1, <2>1, <2>2
  <2>9. QED
    BY <1>1, <2>4, <2>6, <2>7, <2>8, TalkKeeps
<1>5. QED
  BY <1>3, <1>4 DEF Send

\* The connection is lost; the monitor of a proxy whose connection is cannot be
\* one that the thread has entered.
LEMMA BrokenMonitors ==
  ASSUME Unshared, Conversation, Monitors, NEW t \in Thread, Broken(t) PROVE Monitors'
<1>1. /\ thr[t].pc \in {"ref", "send", "wait", "elems"} /\ ~link[Wire(t)].up
      /\ thr[t].pc # "send" => link[Wire(t)].rep = << >>
      /\ thr' = [thr EXCEPT ![t] = AtApp]
      /\ sock' = IF thr[t].op.m = "close" THEN [sock EXCEPT ![thr[t].p] = Null] ELSE sock
      /\ UNCHANGED <<inside, link, skel, mon>>
  BY DEF Broken, Fail
<1>2. RemoteTypes /\ Wire(t) \in Conn /\ Wire(t) = sock[thr[t].p] /\ thr[t].p \in Proxy
  BY <1>1, Talks
<1>3. /\ \A u \in Thread \ {t} : thr'[u] = thr[u]
      /\ thr'[t].pc = "app"
  BY <1>1, <1>2, AtAppFacts DEF RemoteTypes
<1>4. ~ Entered(t, thr[t].p)
  <2>1. SUFFICES ASSUME Entered(t, thr[t].p) PROVE FALSE
    OBVIOUS
  <2>2. Owned(thr[t].p)
    BY <1>2, <2>1 DEF Monitors
  <2>3. QED
    BY <1>1, <1>2, <2>2 DEF Owned
<1>5. ASSUME NEW q \in Proxy PROVE Entered(t, q)' <=> Entered(t, q)
  BY <1>1, <1>3, <1>4 DEF Entered, In
<1>6. UserOK(t)'
  BY <1>1, <1>3 DEF Monitors, UserOK
<1>7. /\ \A u \in Thread \ {t} : thr'[u] = thr[u] /\ inside'[u] = inside[u]
      /\ \A d \in Conn \ {Wire(t)} : link'[d] = link[d]
      /\ \A p \in Proxy \ {thr[t].p} : sock'[p] = sock[p]
  BY <1>1, <1>2, <1>3 DEF RemoteTypes
<1>8. \/ sock'[thr[t].p] = sock[thr[t].p] /\ link'[Wire(t)].up = link[Wire(t)].up
      \/ /\ thr[t].op.m = "close" /\ sock'[thr[t].p] \in {sock[thr[t].p], Null}
         /\ skel[Wire(t)].st = "enter" => link'[Wire(t)].up
  <2>1. CASE thr[t].op.m = "close"
    <3>1. sock'[thr[t].p] = Null
      BY <1>1, <1>2, <2>1 DEF RemoteTypes
    <3>2. skel[Wire(t)].st = "enter" => link'[Wire(t)].up
      BY <1>1, <1>2 DEF Monitors, ServerOK
    <3>3. QED
      BY <2>1, <3>1, <3>2
  <2>2. CASE thr[t].op.m # "close"
    BY <1>1, <2>2
  <2>3. QED
    BY <2>1, <2>2
<1>9. UNCHANGED <<mon, skel>>
  BY <1>1
<1>10. QED
  BY <1>1, <1>5, <1>6, <1>7, <1>8, <1>9, TalkKeeps

\* A thread gives up before it has a connection.
LEMMA NotConnectedMonitors ==
  ASSUME Unshared, Conversation, Monitors, NEW t \in Thread, NotConnected(t) PROVE Monitors'
<1>1. /\ thr[t].pc = "open" /\ thr' = [thr EXCEPT ![t] = AtApp]
      /\ UNCHANGED <<inside, sock, link, skel, mon>>
  BY DEF NotConnected, Fail
<1>2. /\ \A u \in Thread \ {t} : thr'[u] = thr[u]
      /\ thr'[t].pc = "app"
  BY <1>1, MonTypes, AtAppFacts DEF RemoteTypes
<1>3. ASSUME NEW q \in Proxy PROVE Entered(t, q)' <=> Entered(t, q)
  BY <1>1, <1>2 DEF Entered, In
<1>4. UserOK(t)'
  BY <1>1, <1>2 DEF Monitors, UserOK
<1>5. ASSUME NEW q \in Proxy, Entered(t, q) PROVE Owned(q)'
  <2>1. Owned(q)
    BY <1>5 DEF Monitors
  <2>2. QED
    BY <1>1, <2>1 DEF Owned
<1>6. \A c \in Conn : ServerOK(c)'
  BY <1>1 DEF Monitors, ServerOK
<1>7. QED
  BY <1>1, <1>2, <1>3, <1>4, <1>5, <1>6, ClientKeeps

\* The reply to an operation is read: the one to MONITORENTER lets the thread in.
LEMMA ReceiveMonitors ==
  ASSUME Unshared, Conversation, Monitors, NEW t \in Thread, Receive(t) PROVE Monitors'
<1> DEFINE op == thr[t].op
<1>1. /\ thr[t].pc = "wait" /\ link[Wire(t)].rep # << >>
      /\ link' = [link EXCEPT ![Wire(t)].rep = Tail(@)]
      /\ UNCHANGED <<sock, skel, mon>>
      /\ \/ ~Answered(t).ok /\ Throw(t)
         \/ Answered(t).ok /\ Return(t, Answered(t).vals)
  BY DEF Receive, Replied
<1>2. /\ RemoteTypes /\ Wire(t) \in Conn /\ Wire(t) = sock[thr[t].p] /\ thr[t].p \in Proxy
      /\ thr[t].p \in Uses[t] /\ link[Wire(t)] \in LinkType
  BY <1>1, Talks
<1>3. /\ \A d \in Conn \ {Wire(t)} : link'[d] = link[d]
      /\ link'[Wire(t)].up = link[Wire(t)].up
  BY <1>1, <1>2, TakenFacts
<1>4. thr' = [thr EXCEPT ![t] = AtApp]
  BY <1>1 DEF Throw, Return
<1>5. thr'[t].pc = "app" /\ \A u \in Thread \ {t} : thr'[u] = thr[u]
  BY <1>2, <1>4, AtAppFacts DEF RemoteTypes
<1>6. /\ thr[t].pc \in {"ref", "send", "wait", "elems"} /\ UNCHANGED <<mon, skel>>
      /\ \A p \in Proxy \ {thr[t].p} : sock'[p] = sock[p]
      /\ sock'[thr[t].p] = sock[thr[t].p]
  BY <1>1
<1>7. CASE op.m \notin {"enter", "exit"}
  <2>1. inside' = inside
    BY <1>1, <1>7 DEF Throw, Return
  <2>2. QED
    BY <1>3, <1>5, <1>6, <1>7, <2>1, DataKeeps
<1>8. CASE op.m \in {"enter", "exit"}
  <2>1. UserOK(t) /\ inside[t] = Null
    BY <1>1, <1>8 DEF Monitors, UserOK
  <2>2. Answered(t).ok
    <3>1. link[Wire(t)].rep \in Seq(ReplyType)
      BY <1>2 DEF LinkType
    <3>2. Answered(t) = link[Wire(t)].rep[1] /\ 1 \in 1 .. Len(link[Wire(t)].rep)
      BY <1>1, <3>1, TailFacts DEF Answered
    <3>3. QED
      BY <1>1, <1>8, <2>1, <3>2 DEF UserOK
  <2>3. inside' = IF op.m = "enter" THEN [inside EXCEPT ![t] = thr[t].p] ELSE inside
    BY <1>1, <2>2 DEF Return
  <2>4. /\ \A u \in Thread \ {t} : inside'[u] = inside[u]
        /\ inside'[t] = IF op.m = "enter" THEN thr[t].p ELSE Null
    BY <1>2, <2>1, <2>3 DEF RemoteTypes
  <2>5. ASSUME NEW q \in Proxy PROVE Entered(t, q)' <=> Entered(t, q)
    <3>1. Null \notin Proxy
      BY RemoteAssumption
    <3>2. Entered(t, q) <=> (op.m = "enter" /\ thr[t].p = q)
      BY <1>1, <1>2, <1>8, <2>1, <3>1 DEF Entered, In, Wire
    <3>3. Entered(t, q)' <=> inside'[t] = q
      BY <1>5 DEF Entered, In
    <3>4. QED
      BY <2>4, <3>1, <3>2, <3>3
  <2>6. UserOK(t)'
    BY <1>2, <1>5, <2>4 DEF UserOK
  <2>7. \A u \in Thread \ {t} : thr'[u] = thr[u] /\ inside'[u] = inside[u]
    BY <1>5, <2>4
  <2>8. QED
    BY <1>3, <1>6, <2>5, <2>6, <2>7, TalkKeeps
<1>9. QED
  BY <1>7, <1>8

\* A proxy closes its connection, on which no request is being served.
LEMMA ReceiveCloseMonitors ==
  ASSUME Unshared, Conversation, Monitors, NEW t \in Thread, ReceiveClose(t) PROVE Monitors'
<1>1. /\ thr[t].pc = "wait" /\ thr[t].op.m = "close" /\ link' = [link EXCEPT ![Wire(t)] = Fresh]
      /\ sock' = [sock EXCEPT ![thr[t].p] = Null]
      /\ UNCHANGED <<skel, mon>> /\ Return(t, << >>)
  BY DEF ReceiveClose, Replied
<1>2. /\ RemoteTypes /\ Wire(t) \in Conn /\ thr[t].p \in Proxy /\ SkelOK(skel[Wire(t)])
      /\ Waited(link[Wire(t)], skel[Wire(t)], Request(t, thr[t].op), Replies(thr[t].op))
      /\ Request(t, thr[t].op).op = thr[t].op
  BY <1>1, WaitFacts
<1>3. inside' = inside /\ thr' = [thr EXCEPT ![t] = AtApp]
  BY <1>1 DEF Return
<1>4. thr'[t].pc = "app" /\ \A u \in Thread \ {t} : thr'[u] = thr[u]
  BY <1>2, <1>3, AtAppFacts DEF RemoteTypes
<1>5. skel[Wire(t)].st # "enter"
  <2>1. SUFFICES ASSUME skel[Wire(t)].st = "enter" PROVE FALSE
    OBVIOUS
  <2>2. link[Wire(t)].up
    BY <1>2, <2>1 DEF Monitors, ServerOK
  <2>3. skel[Wire(t)].q = Request(t, thr[t].op)
    BY <1>2, <2>1, <2>2 DEF Waited, Replying
  <2>4. skel[Wire(t)].q.op.m = "enter"
    BY <1>2, <2>1 DEF SkelOK
  <2>5. QED
    BY <1>1, <1>2, <2>3, <2>4
<1>6. /\ \A d \in Conn \ {Wire(t)} : link'[d] = link[d]
      /\ \A p \in Proxy \ {thr[t].p} : sock'[p] = sock[p]
      /\ sock'[thr[t].p] = Null
  BY <1>1, <1>2 DEF RemoteTypes
<1>7. thr[t].pc \in {"ref", "send", "wait", "elems"} /\ UNCHANGED <<mon, skel>>
  BY <1>1
<1>8. QED
  BY <1>1, <1>3, <1>4, <1>5, <1>6, <1>7, DataKeeps

\* Blocks: the elements are written, or read one by one.
LEMMA BlockMonitors ==
  ASSUME Unshared, Conversation, Monitors, NEW t \in Thread,
         WriteElements(t) \/ BeginElements(t) \/ ReceiveElement(t)
  PROVE  Monitors'
<1>1. /\ thr[t].pc \in {"wait", "elems"} /\ UNCHANGED <<sock, skel, mon>>
      /\ thr[t].pc = "elems" => thr[t].op.m = "load"
      /\ thr[t].pc = "wait" => thr[t].op.m \in {"load", "store"}
  BY MonTypes DEF WriteElements, BeginElements, ReceiveElement, Replied, ThrOK
<1>2. /\ RemoteTypes /\ Wire(t) \in Conn /\ link[Wire(t)] \in LinkType /\ thr[t] \in ThrType
  BY <1>1, Talks
<1>3. inside' = inside
  BY <1>1 DEF WriteElements, BeginElements, ReceiveElement, Return
<1>4. /\ \A u \in Thread \ {t} : thr'[u] = thr[u]
      /\ \/ thr'[t].pc = "app"
         \/ thr'[t].pc = "elems" /\ thr'[t].p = thr[t].p /\ thr'[t].op = thr[t].op
  <2>1. CASE WriteElements(t)
    BY <1>2, <2>1, AtAppFacts DEF WriteElements, Return, RemoteTypes
  <2>2. CASE BeginElements(t)
    BY <1>2, <2>2 DEF BeginElements, RemoteTypes, ThrType
  <2>3. CASE ReceiveElement(t)
    <3>1. CASE Return(t, thr[t].got)
      BY <1>2, <3>1, AtAppFacts DEF Return, RemoteTypes
    <3>2. CASE thr' = [thr EXCEPT ![t].k = @ + 1, ![t].got = @ \o Head(link[Wire(t)].rep).vals]
      BY <1>2, <2>3, <3>2 DEF ReceiveElement, RemoteTypes, ThrType
    <3>3. QED
      BY <2>3, <3>1, <3>2 DEF ReceiveElement
  <2>4. QED
    BY <2>1, <2>2, <2>3
<1>5. /\ \A d \in Conn \ {Wire(t)} : link'[d] = link[d]
      /\ link'[Wire(t)].up = link[Wire(t)].up
  <2>1. CASE WriteElements(t)
    <3> DEFINE elems == [k \in 1 .. thr[t].op.n |-> Request(t, Element(thr[t].op.v))]
    <3>1. PICK k \in 0 .. thr[t].op.n :
            link' = [link EXCEPT ![Wire(t)].rep = Tail(@),
                                 ![Wire(t)].req = @ \o SubSeq(elems, 1, k),
                                 ![Wire(t)].buf = SubSeq(elems, k + 1, thr[t].op.n)]
      BY <2>1 DEF WriteElements
    <3> HIDE DEF elems
    <3>2. QED
      BY <1>2, <3>1 DEF RemoteTypes, LinkType
  <2>2. CASE BeginElements(t) \/ ReceiveElement(t)
    <3>1. link' = link \/ link' = [link EXCEPT ![Wire(t)].rep = Tail(@)]
      BY <2>2 DEF BeginElements, ReceiveElement
    <3>2. QED
      BY <1>2, <3>1 DEF RemoteTypes, LinkType
  <2>3. QED
    BY <2>1, <2>2
<1>6. /\ thr[t].pc \in {"ref", "send", "wait", "elems"} /\ thr[t].op.m \notin {"enter", "exit"}
      /\ UNCHANGED <<mon, skel>>
      /\ \A p \in Proxy \ {thr[t].p} : sock'[p] = sock[p]
      /\ sock'[thr[t].p] = sock[thr[t].p]
  BY <1>1
<1>7. QED
  BY <1>3, <1>4, <1>5, <1>6, DataKeeps

-----------------------------------------------------------------------------
(* The steps of a Skeleton.                                                *)

\* The thread that waits on the request at the head of a queue has asked it.
LEMMA WaiterRead ==
  ASSUME Conversation, NEW c \in Conn, link[c].req # << >>, ~IsElement(Query(c)),
         NEW t \in Thread, Waiting(t, c)
  PROVE  /\ Mine(t) = Query(c)
         /\ Waited(link[c], skel[c], Mine(t), Left(t))
         /\ Unread(link[c]) /\ link[c].req[Len(link[c].req)] = Mine(t)
<1>1. link[c] \in LinkType /\ skel[c] \in SkelType /\ ConnOK(c)
  BY MonTypes DEF Conversation
<1>2. Waited(link[c], skel[c], Mine(t), Left(t))
  BY <1>1 DEF ConnOK
<1>3. QED
  BY <1>1, <1>2, HeadRequest DEF Query

\* Two threads that have to do with one connection are one.
LEMMA Sharer ==
  ASSUME Unshared, Conversation, Monitors, NEW t \in Thread, NEW c \in Conn, Waiting(t, c)
  PROVE  /\ thr[t].p \in Uses[t] /\ thr[t].p \in Proxy /\ sock[thr[t].p] = c
         /\ \A p \in Proxy : sock[p] = c => p = thr[t].p
         /\ \A u \in Thread : Waiting(u, c) => u = t
         /\ \A u \in Thread, p \in Proxy : Entered(u, p) /\ sock[p] = c => u = t
<1>1. sock[thr[t].p] = c /\ thr[t].pc # "app"
  BY DEF Waiting
<1>2. thr[t].p \in Uses[t] /\ thr[t].p \in Proxy
  BY <1>1, MonTypes, RemoteAssumption DEF ThrOK
<1>3. \A p \in Proxy : sock[p] = c => p = thr[t].p
  BY <1>1, <1>2, MonTypes DEF SockOK
<1>4. ASSUME NEW u \in Thread, Waiting(u, c) PROVE u = t
  <2>1. thr[u].p \in Uses[u] /\ thr[u].p \in Proxy /\ sock[thr[u].p] = c
    BY <1>4, MonTypes, RemoteAssumption DEF ThrOK, Waiting
  <2>2. thr[u].p = thr[t].p
    BY <1>3, <2>1
  <2>3. QED
    BY <1>2, <2>1, <2>2 DEF Unshared
<1>5. ASSUME NEW u \in Thread, NEW p \in Proxy, Entered(u, p), sock[p] = c PROVE u = t
  <2>1. p \in Uses[u] /\ p = thr[t].p
    BY <1>3, <1>5, OwnProxy
  <2>2. QED
    BY <1>2, <2>1 DEF Unshared
<1>6. QED
  BY <1>1, <1>2, <1>3, <1>4, <1>5

\* A Skeleton moves and leaves the monitors alone: it sends nothing to a thread
\* that asks for one, and stays what it is to a thread that has entered one.
LEMMA SkeletonKeeps ==
  ASSUME Conversation, Monitors, NEW c \in Conn, UNCHANGED <<sock, thr, inside, mon>>,
         \A d \in Conn \ {c} : link'[d] = link[d] /\ skel'[d] = skel[d],
         \/ link'[c].rep = link[c].rep
         \/ \A t \in Thread : thr[t].pc = "wait" /\ sock[thr[t].p] = c
                                => thr[t].op.m \notin {"enter", "exit"},
         skel'[c].w \in {skel[c].w, Null},
         \/ link'[c].up = link[c].up /\ skel'[c].obj = skel[c].obj /\ skel'[c].w = skel[c].w
         \/ \A u \in Thread, p \in Proxy : Entered(u, p) => sock[p] # c,
         skel'[c].st # "gone" => skel'[c].w # Null,
         skel'[c].obj # Null => \A p \in Proxy : sock[p] = c => skel'[c].obj = Target[p],
         skel'[c].st = "enter" => link'[c].up
  PROVE  Monitors'
<1>1. sock' = sock /\ thr' = thr /\ inside' = inside /\ mon' = mon
  OBVIOUS
<1>2. ASSUME NEW t \in Thread, thr[t].pc = "wait", thr[t].op.m \in {"enter", "exit"}
      PROVE  link'[Wire(t)].rep = link[Wire(t)].rep
  <2>1. Wire(t) \in Conn /\ Wire(t) = sock[thr[t].p]
    BY <1>2, MonTypes DEF ThrOK, Wire
  <2>2. QED
    BY <1>2, <2>1
<1>3. ASSUME NEW t \in Thread, NEW p \in Proxy PROVE Entered(t, p)' <=> Entered(t, p)
  <2>1. In(t, p, "exit") \/ In(t, p, "enter") => thr[t].op.m \in {"enter", "exit"} /\ Wire(t) = sock[p]
    BY DEF In, Wire
  <2>2. (In(t, p, "exit") \/ In(t, p, "enter")) /\ thr[t].pc = "wait" => link'[sock[p]].rep = link[sock[p]].rep
    BY <1>2, <2>1
  <2>3. (In(t, p, "exit")' <=> In(t, p, "exit")) /\ (In(t, p, "enter")' <=> In(t, p, "enter"))
    BY <1>1 DEF In
  <2>4. QED
    BY <1>1, <2>2, <2>3 DEF Entered
<1>4. ASSUME NEW t \in Thread, NEW p \in Proxy, Entered(t, p) PROVE Owned(p)'
  <2>1. Owned(p)
    BY <1>4 DEF Monitors
  <2>2. sock[p] \in Conn
    BY <2>1, ProxyConn DEF Owned
  <2>3. CASE sock[p] # c
    <3>1. link'[sock[p]] = link[sock[p]] /\ skel'[sock[p]] = skel[sock[p]]
      BY <2>2, <2>3
    <3>2. QED
      BY <1>1, <2>1, <3>1 DEF Owned
  <2>4. CASE sock[p] = c
    <3>1. link'[c].up = link[c].up /\ skel'[c].obj = skel[c].obj /\ skel'[c].w = skel[c].w
      BY <1>4, <2>4
    <3>2. QED
      BY <1>1, <2>1, <2>4, <3>1 DEF Owned
  <2>5. QED
    BY <2>3, <2>4
<1>5. ASSUME NEW t \in Thread PROVE UserOK(t)'
  <2>1. UserOK(t)
    BY DEF Monitors
  <2>2. Wire(t)' = Wire(t)
    BY <1>1 DEF Wire
  <2>3. QED
    BY <1>1, <1>2, <2>1, <2>2 DEF UserOK
<1>6. ASSUME NEW d \in Conn PROVE ServerOK(d)'
  <2>1. ServerOK(d) /\ ServerOK(c)
    BY DEF Monitors
  <2>2. \A e \in Conn : skel'[e].w \in {skel[e].w, Null}
    OBVIOUS
  <2>3. skel'[d].w # Null => \A e \in Conn : skel'[e].w = skel'[d].w => e = d
    BY <2>1, <2>2 DEF ServerOK
  <2>4. CASE d = c
    BY <1>1, <2>3, <2>4 DEF ServerOK
  <2>5. CASE d # c
    <3>1. skel'[d] = skel[d] /\ link'[d] = link[d]
      BY <2>5
    <3>2. QED
      BY <1>1, <2>1, <2>3, <3>1 DEF ServerOK
  <2>6. QED
    BY <2>4, <2>5
<1>7. ASSUME NEW o \in Obj PROVE MonOK(o)'
  BY <1>1, <1>3 DEF Monitors, MonOK
<1>8. QED
  BY <1>1, <1>3, <1>4, <1>5, <1>6, <1>7 DEF Monitors

\* What the Skeletons that have the same thread and object satisfy.
LEMMA SameServer ==
  ASSUME Monitors, NEW c \in Conn, skel[c].st # "gone"
  PROVE  /\ skel[c].w # Null
         /\ skel[c].obj # Null => \A p \in Proxy : sock[p] = c => skel[c].obj = Target[p]
BY DEF Monitors, ServerOK

\* A request that is not about a monitor is read.
LEMMA ServeKeeps ==
  ASSUME Conversation, Monitors, NEW c \in Conn, NEW ms, Reads(c, ms),
         \A m \in {"element", "reference", "enter", "exit"} : m \notin ms,
         UNCHANGED <<sock, thr, inside, mon>>,
         \A d \in Conn \ {c} : link'[d] = link[d] /\ skel'[d] = skel[d],
         link'[c].up = link[c].up,
         skel'[c].w = skel[c].w, skel'[c].obj = skel[c].obj, skel'[c].st # "enter"
  PROVE  Monitors'
<1>1. /\ skel[c].st = "idle" /\ link[c].req # << >> /\ ~IsElement(Query(c))
      /\ Asked(c) = Query(c).op /\ Asked(c).m \in ms
  BY ReadFacts
<1>2. ASSUME NEW t \in Thread, thr[t].pc = "wait", sock[thr[t].p] = c
      PROVE  thr[t].op.m \notin {"enter", "exit"}
  <2>1. Mine(t) = Query(c)
    BY <1>1, <1>2, WaiterRead DEF Waiting
  <2>2. thr[t].op = Asked(c)
    BY <1>1, <1>2, <2>1 DEF Mine, Request
  <2>3. QED
    BY <1>1, <2>2
<1>3. /\ skel[c].w # Null
      /\ skel[c].obj # Null => \A p \in Proxy : sock[p] = c => skel[c].obj = Target[p]
  BY <1>1, SameServer
<1>4. QED
  BY <1>2, <1>3, SkeletonKeeps

\* What Answer(c, replies) leaves alone.
LEMMA AnswerKeeps ==
  ASSUME RemoteTypes, NEW c \in Conn, NEW rs, Answer(c, rs)
  PROVE  /\ \A d \in Conn \ {c} : link'[d] = link[d]
         /\ link'[c].up = link[c].up /\ link'[c].rep = link[c].rep \o rs
BY DEF Answer, RemoteTypes, LinkType

\* Requests for the contents of an object.
LEMMA ServeDataMonitors ==
  ASSUME Conversation, Monitors, NEW c \in Conn,
         \/ ServeGet(c) \/ ServeArrayLoad(c) \/ NullAnswered(c) \/ ServePut(c)
         \/ ServeArrayStore(c) \/ ServeInvoke(c) \/ ServeBlock(c)
  PROVE  Monitors'
<1> DEFINE ms == {"get", "aload", "put", "astore", "invoke", "copy", "load", "store"}
<1>1. Reads(c, ms) /\ UNCHANGED <<sock, thr, inside, mon>> /\ skel[c].st = "idle"
  BY DEF ServeGet, ServeArrayLoad, NullAnswered, ServePut, ServeArrayStore, ServeInvoke, ServeBlock,
         Reads, cvars
<1>2. \E rs : Answer(c, rs)
  BY DEF ServeGet, ServeArrayLoad, NullAnswered, ServePut, ServeArrayStore, ServeInvoke, ServeBlock
<1>3. RemoteTypes /\ skel[c] \in SkelType
  BY MonTypes
<1>4. \A d \in Conn \ {c} : link'[d] = link[d]
  BY <1>2, <1>3, AnswerKeeps
<1>5. link'[c].up = link[c].up
  BY <1>2, <1>3, AnswerKeeps
<1>6. \/ skel' = skel
      \/ skel' = [skel EXCEPT ![c].st = "put", ![c].op = Asked(c)]
      \/ skel' = [skel EXCEPT ![c].st = "block", ![c].op = Asked(c), ![c].q = Query(c)]
  BY DEF ServeGet, ServeArrayLoad, NullAnswered, ServePut, ServeArrayStore, ServeInvoke, ServeBlock
<1>7. /\ \A d \in Conn \ {c} : skel'[d] = skel[d]
      /\ skel'[c].w = skel[c].w /\ skel'[c].obj = skel[c].obj /\ skel'[c].st # "enter"
  BY <1>1, <1>3, <1>6 DEF RemoteTypes, SkelType
<1>8. \A m \in {"element", "reference", "enter", "exit"} : m \notin ms
  OBVIOUS
<1> HIDE DEF ms
<1>9. QED
  BY <1>1, <1>4, <1>5, <1>7, <1>8, ServeKeeps

\* A field is written, an element of a block is read or written.
LEMMA WorkMonitors ==
  ASSUME Conversation, Monitors, NEW c \in Conn, Put(c) \/ BlockRead(c) \/ BlockWrite(c)
  PROVE  Monitors'
<1>1. /\ UNCHANGED <<sock, thr, inside, mon>> /\ skel[c].st \in {"put", "block"}
      /\ RemoteTypes /\ skel[c] \in SkelType /\ link[c] \in LinkType
  BY MonTypes DEF Put, BlockRead, BlockWrite, cvars
<1>2. /\ \A d \in Conn \ {c} : skel'[d] = skel[d]
      /\ skel'[c].w = skel[c].w /\ skel'[c].obj = skel[c].obj /\ skel'[c].st # "enter"
  <2>1. CASE Put(c)
    BY <1>1, <2>1 DEF Put, RemoteTypes, SkelType
  <2>2. CASE BlockRead(c) \/ BlockWrite(c)
    <3>1. \E got : Advance(c, got)
      BY <2>2 DEF BlockRead, BlockWrite
    <3>2. skel[c].st = "block"
      BY <2>2 DEF BlockRead, BlockWrite
    <3>3. QED
      BY <1>1, <3>1, <3>2 DEF Advance, RemoteTypes, SkelType
  <2>3. QED
    BY <2>1, <2>2
<1>3. /\ \A d \in Conn \ {c} : link'[d] = link[d]
      /\ link'[c].up = link[c].up
      /\ \/ link'[c].rep = link[c].rep
         \/ skel[c].st = "block" /\ skel[c].op.m # "store" /\ link[c].up
  <2>1. CASE Put(c)
    BY <2>1 DEF Put
  <2>2. CASE BlockRead(c)
    <3>1. skel[c].st = "block" /\ skel[c].op.m # "store" /\ link[c].up
      BY <2>2 DEF BlockRead
    <3>2. \E out : link' = [link EXCEPT ![c].rep = @ \o out]
      BY <2>2 DEF BlockRead
    <3>3. QED
      BY <1>1, <3>1, <3>2 DEF RemoteTypes, LinkType
  <2>3. CASE BlockWrite(c)
    <3>1. Answer(c, << >>)
      BY <2>3 DEF BlockWrite
    <3>2. link[c].rep \o << >> = link[c].rep
      BY <1>1, ConcatFacts DEF LinkType
    <3>3. QED
      BY <1>1, <3>1, <3>2, AnswerKeeps
  <2>4. QED
    BY <2>1, <2>2, <2>3
<1>4. \/ link'[c].rep = link[c].rep
      \/ \A t \in Thread : thr[t].pc = "wait" /\ sock[thr[t].p] = c
                             => thr[t].op.m \notin {"enter", "exit"}
  <2>1. SUFFICES ASSUME skel[c].st = "block", skel[c].op.m # "store", link[c].up,
                        NEW t \in Thread, thr[t].pc = "wait", sock[thr[t].p] = c
                 PROVE  thr[t].op.m \notin {"enter", "exit"}
    BY <1>3
  <2>2. Waited(link[c], skel[c], Mine(t), Left(t)) /\ SkelOK(skel[c])
    BY <2>1 DEF Conversation, ConnOK, Waiting
  <2>3. skel[c].op = Mine(t).op /\ skel[c].op.m \in {"copy", "load", "store"}
    BY <2>1, <2>2 DEF Waited, Replying, SkelOK
  <2>4. Mine(t).op = thr[t].op
    BY <2>1 DEF Mine, Request
  <2>5. QED
    BY <2>3, <2>4
<1>5. /\ skel[c].w # Null
      /\ skel[c].obj # Null => \A p \in Proxy : sock[p] = c => skel[c].obj = Target[p]
  BY <1>1, SameServer
<1>6. QED
  BY <1>1, <1>2, <1>3, <1>4, <1>5, SkeletonKeeps

\* REFERENCE: the object is that of the proxy, whose monitor nobody has entered.
LEMMA ServeReferenceMonitors ==
  ASSUME Unshared, Conversation, Monitors, NEW c \in Conn, ServeReference(c) PROVE Monitors'
<1> DEFINE o == Target[CHOOSE p \in Proxy : sock[p] = c]
<1>1. /\ Reads(c, {"reference"}) /\ UNCHANGED <<sock, thr, inside, mon>>
      /\ skel' = [skel EXCEPT ![c].obj = IF o \in exported THEN o ELSE Null]
      /\ Answer(c, <<Reply(o \in exported, << >>, Query(c))>>)
  BY DEF ServeReference, cvars
<1>2. /\ skel[c].st = "idle" /\ link[c].req # << >> /\ ~IsElement(Query(c))
      /\ Query(c).op.m = "reference" /\ RemoteTypes /\ skel[c] \in SkelType
  BY <1>1, MonTypes DEF Reads, IsElement, Asked, Query
<1>3. PICK t \in Thread : Waiting(t, c) /\ Query(c) = Mine(t)
  BY <1>2, Asker
<1>4. thr[t].pc = "ref"
  <2>1. SUFFICES ASSUME thr[t].pc # "ref" PROVE FALSE
    OBVIOUS
  <2>2. thr[t].op.m = "reference"
    BY <1>2, <1>3, <2>1 DEF Mine, Request
  <2>3. thr[t].op \in AllOp
    BY <1>3, MonTypes DEF ThrOK, Waiting
  <2>4. QED
    BY <2>2, <2>3, OpFacts DEF OpNames
<1>5. /\ thr[t].p \in Proxy /\ sock[thr[t].p] = c
      /\ \A p \in Proxy : sock[p] = c => p = thr[t].p
      /\ \A u \in Thread : Waiting(u, c) => u = t
      /\ \A u \in Thread, p \in Proxy : Entered(u, p) /\ sock[p] = c => u = t
  BY <1>3, Sharer
<1>6. ~ Entered(t, thr[t].p)
  BY <1>4 DEF Entered, In, Monitors, UserOK
<1>7. \A u \in Thread, p \in Proxy : Entered(u, p) => sock[p] # c
  BY <1>5, <1>6
<1>8. o = Target[thr[t].p]
  BY <1>5
<1> HIDE DEF o
<1>9. /\ \A d \in Conn \ {c} : skel'[d] = skel[d]
      /\ skel'[c].w = skel[c].w /\ skel'[c].st = "idle" /\ skel'[c].obj \in {o, Null}
  BY <1>1, <1>2 DEF RemoteTypes, SkelType
<1>10. \A d \in Conn \ {c} : link'[d] = link[d]
  BY <1>1, <1>2, AnswerKeeps
<1>11. \A u \in Thread : thr[u].pc = "wait" /\ sock[thr[u].p] = c
                           => thr[u].op.m \notin {"enter", "exit"}
  BY <1>4, <1>5 DEF Waiting
<1>12. skel'[c].w # Null
  BY <1>2, <1>9, SameServer
<1>13. skel'[c].obj # Null => \A p \in Proxy : sock[p] = c => skel'[c].obj = Target[p]
  BY <1>5, <1>8, <1>9
<1>14. QED
  BY <1>1, <1>7, <1>9, <1>10, <1>11, <1>12, <1>13, SkeletonKeeps

\* CLOSE: nobody has entered a monitor through the connection.
LEMMA ServeCloseMonitors ==
  ASSUME Unshared, Conversation, Monitors, NEW c \in Conn, ServeClose(c) PROVE Monitors'
<1>1. /\ Reads(c, {"close"}) /\ UNCHANGED <<sock, thr, inside, mon>>
      /\ skel' = [skel EXCEPT ![c] = NoSkel]
      /\ Answer(c, <<Reply(TRUE, << >>, Query(c))>>)
  BY DEF ServeClose, cvars
<1>2. /\ skel[c].st = "idle" /\ link[c].req # << >> /\ ~IsElement(Query(c))
      /\ Query(c).op.m = "close" /\ RemoteTypes
  BY <1>1, MonTypes DEF Reads, IsElement, Asked, Query
<1>3. PICK t \in Thread : Waiting(t, c) /\ Query(c) = Mine(t)
  BY <1>2, Asker
<1>4. thr[t].op.m = "close" /\ thr[t].pc # "app"
  BY <1>2, <1>3 DEF Mine, Request, Reference, Op, Waiting
<1>5. /\ thr[t].p \in Proxy /\ sock[thr[t].p] = c
      /\ \A p \in Proxy : sock[p] = c => p = thr[t].p
      /\ \A u \in Thread : Waiting(u, c) => u = t
      /\ \A u \in Thread, p \in Proxy : Entered(u, p) /\ sock[p] = c => u = t
  BY <1>3, Sharer
<1>6. ~ Entered(t, thr[t].p)
  BY <1>4 DEF Entered, In, Monitors, UserOK
<1>7. \A u \in Thread, p \in Proxy : Entered(u, p) => sock[p] # c
  BY <1>5, <1>6
<1>8. /\ \A d \in Conn \ {c} : skel'[d] = skel[d]
      /\ skel'[c].w = Null /\ skel'[c].st = "gone" /\ skel'[c].obj = Null
  BY <1>1, <1>2, NoSkelFacts DEF RemoteTypes
<1>9. \A d \in Conn \ {c} : link'[d] = link[d]
  BY <1>1, <1>2, AnswerKeeps
<1>10. \A u \in Thread : thr[u].pc = "wait" /\ sock[thr[u].p] = c
                           => thr[u].op.m \notin {"enter", "exit"}
  BY <1>4, <1>5 DEF Waiting
<1>11. QED
  BY <1>1, <1>7, <1>8, <1>9, <1>10, SkeletonKeeps

\* run() ends because the connection is lost or the Skeleton has no object:
\* nobody has entered a monitor through it.
LEMMA EndMonitors ==
  ASSUME Conversation, Monitors, NEW c \in Conn, End(c), UNCHANGED <<sock, thr, inside, mon>>,
         ~link[c].up \/ skel[c].obj = Null
  PROVE  Monitors'
<1>1. RemoteTypes
  BY MonTypes
<1>2. /\ \A d \in Conn \ {c} : link'[d] = link[d] /\ skel'[d] = skel[d]
      /\ link'[c].rep = link[c].rep
      /\ skel'[c].w = Null /\ skel'[c].st = "gone" /\ skel'[c].obj = Null
  BY <1>1, NoSkelFacts DEF End, RemoteTypes, LinkType
<1>3. ASSUME NEW u \in Thread, NEW p \in Proxy, Entered(u, p) PROVE sock[p] # c
  <2>1. Owned(p)
    BY <1>3 DEF Monitors
  <2>2. Target[p] # Null
    BY RemoteAssumption
  <2>3. QED
    BY <2>1, <2>2 DEF Owned
<1>4. QED
  BY <1>2, <1>3, SkeletonKeeps

LEMMA EndsMonitors ==
  ASSUME NoDrops, Conversation, Monitors, NEW c \in Conn, NullAccess(c) \/ Unfit(c) \/ Lost(c)
  PROVE  Monitors'
<1>1. ~ Unfit(c)
  BY MonTypes DEF NoDrops, Unfit, RemoteTypes
<1>2. QED
  BY <1>1, EndMonitors DEF NullAccess, Lost, cvars

\* MONITORENTER: the pool thread is going to enter the monitor.
LEMMA ServeEnterMonitors ==
  ASSUME Conversation, Monitors, NEW c \in Conn, ServeEnter(c) PROVE Monitors'
<1>1. /\ UNCHANGED <<sock, thr, inside, mon>> /\ skel[c].st = "idle" /\ link[c].up
      /\ skel' = [skel EXCEPT ![c].st = "enter", ![c].q = Query(c)]
      /\ Answer(c, << >>)
      /\ RemoteTypes /\ skel[c] \in SkelType /\ link[c] \in LinkType
  BY MonTypes DEF ServeEnter, Reads, cvars
<1>2. /\ \A d \in Conn \ {c} : skel'[d] = skel[d]
      /\ skel'[c].w = skel[c].w /\ skel'[c].obj = skel[c].obj
  BY <1>1 DEF RemoteTypes, SkelType
<1>3. link[c].rep \o << >> = link[c].rep
  BY <1>1, ConcatFacts DEF LinkType
<1>4. /\ \A d \in Conn \ {c} : link'[d] = link[d]
      /\ link'[c].up = link[c].up /\ link'[c].rep = link[c].rep
  BY <1>1, <1>3, AnswerKeeps
<1>5. /\ skel[c].w # Null
      /\ skel[c].obj # Null => \A p \in Proxy : sock[p] = c => skel[c].obj = Target[p]
  BY <1>1, SameServer
<1>6. QED
  BY <1>1, <1>2, <1>4, <1>5, SkeletonKeeps

\* The reply to MONITORENTER, or to MONITOREXIT, is sent: t has entered, or left.
LEMMA HandsOver ==
  ASSUME Unshared, Conversation, Monitors, NEW c \in Conn, NEW t \in Thread,
         Waiting(t, c), thr[t].pc = "wait", thr[t].op.m \in {"enter", "exit"},
         UNCHANGED <<sock, thr, inside>>,
         \A d \in Conn \ {c} : link'[d] = link[d] /\ skel'[d] = skel[d],
         link'[c].rep # << >>, \A i \in 1 .. Len(link'[c].rep) : link'[c].rep[i].ok,
         skel'[c].w = skel[c].w, skel'[c].obj = skel[c].obj, skel'[c].st = "idle",
         skel[c].st # "gone"
  PROVE  /\ \A u \in Thread : UserOK(u)'
         /\ \A d \in Conn : ServerOK(d)'
         /\ \A u \in Thread, p \in Proxy : sock[p] # c \/ u # t => (Entered(u, p)' <=> Entered(u, p))
         /\ Entered(t, thr[t].p)' <=> thr[t].op.m = "enter"
         /\ inside[t] = Null
<1>1. sock' = sock /\ thr' = thr /\ inside' = inside
  OBVIOUS
<1>2. /\ thr[t].p \in Proxy /\ sock[thr[t].p] = c
      /\ \A u \in Thread : Waiting(u, c) => u = t
      /\ Null \notin Proxy
  BY Sharer, MonTypes
<1>3. inside[t] = Null
  BY DEF Monitors, UserOK
<1>4. ASSUME NEW u \in Thread, thr[u].pc = "wait", u # t PROVE link'[Wire(u)] = link[Wire(u)]
  <2>1. Wire(u) \in Conn /\ Wire(u) = sock[thr[u].p]
    BY <1>4, MonTypes DEF ThrOK, Wire
  <2>2. Wire(u) # c
    BY <1>2, <1>4, <2>1 DEF Waiting
  <2>3. QED
    BY <2>1, <2>2
<1>5. ASSUME NEW u \in Thread PROVE UserOK(u)'
  <2>1. UserOK(u) /\ Wire(u)' = Wire(u)
    BY <1>1 DEF Monitors, Wire
  <2>2. CASE u = t
    <3>1. Wire(t) = c
      BY <1>2 DEF Wire
    <3>2. QED
      BY <1>1, <2>1, <2>2, <3>1 DEF UserOK
  <2>3. CASE u # t
    BY <1>1, <1>4, <2>1, <2>3 DEF UserOK
  <2>4. QED
    BY <2>2, <2>3
<1>6. ASSUME NEW d \in Conn PROVE ServerOK(d)'
  <2>1. ServerOK(d) /\ ServerOK(c)
    BY DEF Monitors
  <2>2. \A e \in Conn : skel'[e].w = skel[e].w
    OBVIOUS
  <2>3. CASE d = c
    BY <1>1, <2>1, <2>2, <2>3 DEF ServerOK
  <2>4. CASE d # c
    <3>1. skel'[d] = skel[d] /\ link'[d] = link[d]
      BY <2>4
    <3>2. QED
      BY <1>1, <2>1, <2>2, <3>1 DEF ServerOK
  <2>5. QED
    BY <2>3, <2>4
<1>7. ASSUME NEW u \in Thread, NEW p \in Proxy, sock[p] # c \/ u # t
      PROVE  Entered(u, p)' <=> Entered(u, p)
  <2>1. CASE u = t
    <3>1. thr[t].p # p
      BY <1>2, <1>7, <2>1
    <3>2. QED
      BY <1>1, <2>1, <3>1 DEF Entered, In
  <2>2. CASE u # t
    <3>1. thr[u].pc = "wait" /\ thr[u].p = p => link'[sock[p]] = link[sock[p]]
      BY <1>4, <2>2 DEF Wire
    <3>2. QED
      BY <1>1, <3>1 DEF Entered, In
  <2>3. QED
    BY <2>1, <2>2
<1>8. Entered(t, thr[t].p)' <=> thr[t].op.m = "enter"
  BY <1>1, <1>2, <1>3 DEF Entered, In
<1>9. QED
  BY <1>3, <1>5, <1>6, <1>7, <1>8

\* A monitor that the thread of Skeleton c owns has been entered through c.
LEMMA OwnerServes ==
  ASSUME Conversation, Monitors, NEW c \in Conn, skel[c].w # Null,
         NEW p \in Proxy, Owned(p), mon[Target[p]].owner = skel[c].w
  PROVE  sock[p] = c
<1>1. sock[p] \in Conn
  BY ProxyConn DEF Owned
<1>2. skel[sock[p]].w = skel[c].w
  BY DEF Owned
<1>3. QED
  BY <1>1, <1>2 DEF Monitors, ServerOK

\* The pool thread has the monitor and replies: the thread that waits for the
\* reply is the only one that has entered it.
LEMMA EnterMonitors ==
  ASSUME Unshared, Conversation, Monitors, NEW c \in Conn, Enter(c) PROVE Monitors'
<1> DEFINE o == skel[c].obj
           r == Reply(TRUE, << >>, skel[c].q)
<1>1. /\ skel[c].st = "enter" /\ mon[o].owner \in {Null, skel[c].w}
      /\ mon' = [mon EXCEPT ![o] = [owner |-> skel[c].w, n |-> @.n + 1]]
      /\ UNCHANGED <<sock, thr, inside>>
  BY DEF Enter, cvars
<1>2. /\ RemoteTypes /\ skel[c] \in SkelType /\ SkelOK(skel[c]) /\ link[c] \in LinkType /\ ConnOK(c)
      /\ link[c].up /\ skel[c].w # Null /\ skel[c].w \in Worker
      /\ o \in Obj /\ \A p \in Proxy : sock[p] = c => o = Target[p]
  <2>1. /\ RemoteTypes /\ skel[c] \in SkelType /\ SkelOK(skel[c]) /\ link[c] \in LinkType /\ ConnOK(c)
    BY MonTypes DEF Conversation
  <2>2. skel[c].w # Null /\ link[c].up /\ o \in Obj
    BY <1>1, <2>1 DEF Monitors, ServerOK, SkelOK
  <2>3. o # Null
    BY <2>2, RemoteAssumption
  <2>4. \A p \in Proxy : sock[p] = c => o = Target[p]
    BY <1>1, <2>3, SameServer
  <2>5. skel[c].w \in Worker
    BY <2>1, <2>2 DEF SkelType
  <2>6. QED
    BY <2>1, <2>2, <2>4, <2>5
<1>3. PICK t \in Thread : Waiting(t, c)
  <2>1. ~Unwaited(link[c], skel[c])
    BY <1>1, <1>2 DEF Unwaited, Replying
  <2>2. QED
    BY <1>2, <2>1 DEF ConnOK
<1>4. Waited(link[c], skel[c], Mine(t), Left(t))
  BY <1>2, <1>3 DEF ConnOK
<1>5. thr[t].pc = "wait" /\ thr[t].op.m = "enter"
  <2>1. Mine(t).op.m = "enter"
    BY <1>1, <1>2, <1>4 DEF Waited, Replying, SkelOK
  <2>2. thr[t].pc # "ref" /\ thr[t].op.m = "enter"
    BY <2>1 DEF Mine, Request, Reference, Op
  <2>3. thr[t].pc # "elems"
    BY <1>3, <2>2, MonTypes DEF ThrOK, Waiting
  <2>4. QED
    BY <1>3, <2>2, <2>3 DEF Waiting
<1>6. link[c].rep = << >>
  <2>1. Left(t) = 1
    BY <1>5 DEF Left, Replies
  <2>2. ToCome(link[c], skel[c]) = 1
    BY <1>1, <1>2, <1>4 DEF ToCome, Replying, Waited
  <2>3. link[c].rep \in Seq(ReplyType) /\ Len(link[c].rep) \in Nat
    BY <1>2 DEF LinkType
  <2>4. Len(link[c].rep) + 1 = 1
    BY <1>2, <1>4, <2>1, <2>2 DEF Waited
  <2>5. QED
    BY <2>3, <2>4
<1>7. /\ thr[t].p \in Proxy /\ sock[thr[t].p] = c
      /\ \A p \in Proxy : sock[p] = c => p = thr[t].p
      /\ \A u \in Thread, p \in Proxy : Entered(u, p) /\ sock[p] = c => u = t
  BY <1>3, Sharer
<1>8. ~ Entered(t, thr[t].p)
  <2>1. inside[t] = Null
    BY <1>5 DEF Monitors, UserOK
  <2>2. Null \notin Proxy
    BY MonTypes
  <2>3. QED
    BY <1>5, <1>6, <1>7, <2>1, <2>2 DEF Entered, In
<1>9. mon[o].owner = Null
  <2>1. SUFFICES ASSUME mon[o].owner = skel[c].w PROVE FALSE
    BY <1>1
  <2>2. PICK u \in Thread, p \in Proxy : Entered(u, p) /\ Target[p] = o
    BY <1>2, <2>1 DEF Monitors, MonOK
  <2>3. Owned(p)
    BY <2>2 DEF Monitors
  <2>4. sock[p] = c
    BY <1>2, <2>1, <2>2, <2>3, OwnerServes
  <2>5. QED
    BY <1>7, <1>8, <2>2, <2>4
<1>10. mon[o].n = 0
  BY <1>2, <1>9 DEF Monitors, MonOK
<1>11. /\ mon'[o] = [owner |-> skel[c].w, n |-> 1]
       /\ \A x \in Obj \ {o} : mon'[x] = mon[x]
       /\ mon' \in [Obj -> [owner : Worker \cup {Null}, n : Nat]]
  <2>1. mon \in [Obj -> [owner : Worker \cup {Null}, n : Nat]]
    BY DEF Monitors
  <2>2. mon' = [mon EXCEPT ![o] = [owner |-> skel[c].w, n |-> 1]]
    BY <1>1, <1>10
  <2>3. QED
    BY <1>2, <2>1, <2>2
<1>12. /\ link' = [link EXCEPT ![c].rep = Append(@, r)]
       /\ skel' = [skel EXCEPT ![c].st = "idle", ![c].q = Null]
  BY <1>2 DEF Enter
<1>13. /\ \A d \in Conn \ {c} : link'[d] = link[d] /\ skel'[d] = skel[d]
       /\ link'[c].up /\ link'[c].rep = Append(link[c].rep, r)
       /\ skel'[c].w = skel[c].w /\ skel'[c].obj = skel[c].obj /\ skel'[c].st = "idle"
  <2> HIDE DEF r
  <2>1. QED
    BY <1>2, <1>12 DEF RemoteTypes, LinkType, SkelType
<1>14. link'[c].rep # << >> /\ \A i \in 1 .. Len(link'[c].rep) : link'[c].rep[i].ok
  <2>1. r.ok
    BY DEF Reply
  <2> HIDE DEF r
  <2>2. link'[c].rep = <<r>>
    BY <1>6, <1>13
  <2>3. QED
    BY <2>1, <2>2
<1> HIDE DEF o, r
<1>15. /\ \A u \in Thread : UserOK(u)'
       /\ \A d \in Conn : ServerOK(d)'
       /\ \A u \in Thread, p \in Proxy : sock[p] # c \/ u # t => (Entered(u, p)' <=> Entered(u, p))
       /\ Entered(t, thr[t].p)'
  BY <1>1, <1>3, <1>5, <1>13, <1>14, HandsOver
<1>16. ASSUME NEW u \in Thread, NEW p \in Proxy, Entered(u, p)' PROVE Owned(p)'
  <2>1. CASE sock[p] = c
    <3>1. Target[p] = o
      BY <1>2, <2>1
    <3>2. sock'[p] = c /\ c # Null
      BY <1>1, <2>1, MonTypes
    <3>3. skel'[c].obj = o
      BY <1>13 DEF o
    <3>4. QED
      BY <1>2, <1>11, <1>13, <3>1, <3>2, <3>3 DEF Owned
  <2>2. CASE sock[p] # c
    <3>1. Entered(u, p)
      BY <1>15, <1>16, <2>2
    <3>2. Owned(p)
      BY <3>1 DEF Monitors
    <3>3. Target[p] # o /\ Target[p] \in Obj
      BY <1>9, <3>2, RemoteAssumption DEF Owned
    <3>4. sock[p] \in Conn
      BY <3>2, ProxyConn DEF Owned
    <3>5. mon'[Target[p]] = mon[Target[p]]
      BY <1>11, <3>3
    <3>6. sock'[p] = sock[p] /\ link'[sock[p]] = link[sock[p]] /\ skel'[sock[p]] = skel[sock[p]]
      BY <1>1, <1>13, <2>2, <3>4
    <3>7. QED
      BY <3>2, <3>5, <3>6 DEF Owned
  <2>3. QED
    BY <2>1, <2>2
<1>17. ASSUME NEW x \in Obj PROVE MonOK(x)'
  <2>1. CASE x = o
    <3>1. Target[thr[t].p] = o
      BY <1>2, <1>7
    <3>2. mon'[x].owner # Null
      BY <1>2, <1>11, <2>1
    <3>3. \E u \in Thread, p \in Proxy : Entered(u, p)' /\ Target[p] = x
      BY <1>1, <1>7, <1>15, <3>1, <2>1
    <3>4. QED
      BY <3>2, <3>3 DEF MonOK
  <2>2. CASE x # o
    <3>1. mon'[x] = mon[x] /\ MonOK(x)
      BY <1>11, <2>2 DEF Monitors
    <3>2. CASE mon[x].owner = Null
      BY <3>1, <3>2 DEF MonOK
    <3>3. CASE mon[x].owner # Null
      <4>1. PICK u \in Thread, p \in Proxy : Entered(u, p) /\ Target[p] = x
        BY <3>1, <3>3 DEF MonOK
      <4>2. sock[p] # c
        BY <1>2, <2>2, <4>1
      <4>3. Entered(u, p)'
        BY <1>15, <4>1, <4>2
      <4>4. QED
        BY <3>1, <3>3, <4>1, <4>3 DEF MonOK
    <3>4. QED
      BY <3>2, <3>3
  <2>3. QED
    BY <2>1, <2>2
<1>18. QED
  BY <1>11, <1>15, <1>16, <1>17 DEF Monitors

\* The pool thread releases the monitor and replies: nobody has entered it.
LEMMA ServeExitMonitors ==
  ASSUME Unshared, Conversation, Monitors, NEW c \in Conn, ServeExit(c) PROVE Monitors'
<1> DEFINE o == skel[c].obj
           r == Reply(TRUE, << >>, Query(c))
<1>1. /\ Reads(c, {"exit"}) /\ o # Null
      /\ mon' = [mon EXCEPT ![o] = IF @.owner # skel[c].w THEN @
                                   ELSE IF @.n = 1 THEN [owner |-> Null, n |-> 0]
                                   ELSE [owner |-> @.owner, n |-> @.n - 1]]
      /\ Answer(c, <<r>>)
      /\ UNCHANGED <<sock, thr, inside, skel>>
  BY DEF ServeExit, cvars
<1>2. /\ skel[c].st = "idle" /\ link[c].up /\ link[c].req # << >> /\ ~IsElement(Query(c))
      /\ Query(c).op.m = "exit" /\ RemoteTypes /\ link[c] \in LinkType /\ skel[c].w # Null
      /\ \A p \in Proxy : sock[p] = c => o = Target[p]
  BY <1>1, MonTypes, SameServer DEF Reads, IsElement, Asked, Query
<1>3. PICK t \in Thread : Waiting(t, c) /\ Query(c) = Mine(t)
  BY <1>2, Asker
<1>4. thr[t].pc = "wait" /\ thr[t].op.m = "exit"
  <2>1. thr[t].pc # "ref" /\ thr[t].op.m = "exit"
    BY <1>2, <1>3 DEF Mine, Request, Reference, Op
  <2>2. thr[t].pc # "elems"
    BY <1>3, <2>1, MonTypes DEF ThrOK, Waiting
  <2>3. QED
    BY <1>3, <2>1, <2>2 DEF Waiting
<1>5. link[c].rep = << >>
  <2>1. /\ Waited(link[c], skel[c], Mine(t), Left(t))
        /\ Unread(link[c]) /\ link[c].req[Len(link[c].req)] = Mine(t)
    BY <1>2, <1>3, WaiterRead
  <2>2. Left(t) = 1
    BY <1>4 DEF Left, Replies
  <2>3. Mine(t).op.m = "exit"
    BY <1>2, <1>3
  <2>4. ToCome(link[c], skel[c]) = 1
    BY <2>1, <2>3 DEF ToCome, Replies
  <2>5. link[c].rep \in Seq(ReplyType) /\ Len(link[c].rep) \in Nat
    BY <1>2 DEF LinkType
  <2>6. Len(link[c].rep) + 1 = 1
    BY <1>2, <2>1, <2>2, <2>4 DEF Waited
  <2>7. QED
    BY <2>5, <2>6
<1>6. /\ thr[t].p \in Proxy /\ sock[thr[t].p] = c
      /\ \A p \in Proxy : sock[p] = c => p = thr[t].p
      /\ \A u \in Thread, p \in Proxy : Entered(u, p) /\ sock[p] = c => u = t
  BY <1>3, Sharer
<1>7. Entered(t, thr[t].p)
  BY <1>4, <1>5, <1>6 DEF Entered, In
<1>8. Owned(thr[t].p) /\ Target[thr[t].p] = o /\ o \in Obj
  BY <1>2, <1>6, <1>7, RemoteAssumption DEF Monitors
<1>9. mon[o] = [owner |-> skel[c].w, n |-> 1]
  BY <1>6, <1>8 DEF Owned
<1>10. /\ mon'[o] = [owner |-> Null, n |-> 0]
       /\ \A x \in Obj \ {o} : mon'[x] = mon[x]
       /\ mon' \in [Obj -> [owner : Worker \cup {Null}, n : Nat]]
  <2>1. mon \in [Obj -> [owner : Worker \cup {Null}, n : Nat]]
    BY DEF Monitors
  <2>2. mon[o].n = 1 /\ mon[o].owner = skel[c].w
    BY <1>9
  <2>3. mon' = [mon EXCEPT ![o] = [owner |-> Null, n |-> 0]]
    BY <1>1, <2>2
  <2>4. QED
    BY <1>8, <2>1, <2>3
<1>11. /\ \A d \in Conn \ {c} : link'[d] = link[d] /\ skel'[d] = skel[d]
       /\ link'[c].up = link[c].up /\ link'[c].rep = link[c].rep \o <<r>>
       /\ skel'[c].w = skel[c].w /\ skel'[c].obj = skel[c].obj /\ skel'[c].st = "idle"
  <2> HIDE DEF r
  <2>1. QED
    BY <1>1, <1>2, AnswerKeeps
<1>12. link'[c].rep # << >> /\ \A i \in 1 .. Len(link'[c].rep) : link'[c].rep[i].ok
  <2>1. r.ok
    BY DEF Reply
  <2> HIDE DEF r
  <2>2. link'[c].rep = <<r>>
    BY <1>5, <1>11
  <2>3. QED
    BY <2>1, <2>2
<1> HIDE DEF o, r
<1>13. /\ \A u \in Thread : UserOK(u)'
       /\ \A d \in Conn : ServerOK(d)'
       /\ \A u \in Thread, p \in Proxy : sock[p] # c \/ u # t => (Entered(u, p)' <=> Entered(u, p))
       /\ ~ Entered(t, thr[t].p)'
  BY <1>1, <1>2, <1>3, <1>4, <1>11, <1>12, HandsOver
<1>14. ASSUME NEW u \in Thread, NEW p \in Proxy, Entered(u, p)'
       PROVE  sock[p] # c /\ Entered(u, p)
  <2>1. sock[p] # c
    <3>1. SUFFICES ASSUME sock[p] = c PROVE FALSE
      OBVIOUS
    <3>2. p = thr[t].p
      BY <1>6, <3>1
    <3>3. u # t
      BY <1>1, <1>13, <1>14, <3>2
    <3>4. Entered(u, p)
      BY <1>13, <1>14, <3>3
    <3>5. QED
      BY <1>6, <3>1, <3>3, <3>4
  <2>2. QED
    BY <1>13, <1>14, <2>1
<1>15. ASSUME NEW u \in Thread, NEW p \in Proxy, Entered(u, p)' PROVE Owned(p)'
  <2>1. Entered(u, p) /\ sock[p] # c
    BY <1>14, <1>15
  <2>2. Owned(p)
    BY <2>1 DEF Monitors
  <2>3. Target[p] # o
    <3>1. SUFFICES ASSUME Target[p] = o PROVE FALSE
      OBVIOUS
    <3>2. mon[Target[p]].owner = skel[c].w
      BY <1>9, <3>1
    <3>3. QED
      BY <1>2, <2>1, <2>2, <3>2, OwnerServes
  <2>4. mon'[Target[p]] = mon[Target[p]]
    BY <1>10, <2>3, RemoteAssumption
  <2>5. sock[p] \in Conn
    BY <2>2, ProxyConn DEF Owned
  <2>6. sock'[p] = sock[p] /\ link'[sock[p]] = link[sock[p]] /\ skel'[sock[p]] = skel[sock[p]]
    BY <1>1, <1>11, <2>1, <2>5
  <2>7. QED
    BY <2>2, <2>4, <2>6 DEF Owned
<1>16. ASSUME NEW x \in Obj PROVE MonOK(x)'
  <2>1. CASE x = o
    BY <1>10, <2>1 DEF MonOK
  <2>2. CASE x # o
    <3>1. mon'[x] = mon[x] /\ MonOK(x)
      BY <1>10, <2>2 DEF Monitors
    <3>2. CASE mon[x].owner = Null
      BY <3>1, <3>2 DEF MonOK
    <3>3. CASE mon[x].owner # Null
      <4>1. PICK u \in Thread, p \in Proxy : Entered(u, p) /\ Target[p] = x
        BY <3>1, <3>3 DEF MonOK
      <4>2. sock[p] # c
        BY <1>2, <2>2, <4>1
      <4>3. Entered(u, p)'
        BY <1>13, <4>1, <4>2
      <4>4. QED
        BY <3>1, <3>3, <4>1, <4>3 DEF MonOK
    <3>4. QED
      BY <3>2, <3>3
  <2>3. QED
    BY <2>1, <2>2
<1>17. QED
  BY <1>10, <1>13, <1>15, <1>16 DEF Monitors

-----------------------------------------------------------------------------
(* The theorem.                                                            *)

LEMMA MonitorsInit == ASSUME Init PROVE Monitors
<1>1. /\ sock = [p \in Proxy |-> Null] /\ link = [c \in Conn |-> Fresh]
      /\ skel = [c \in Conn |-> NoSkel] /\ thr = [t \in Thread |-> AtApp]
      /\ inside = [t \in Thread |-> Null] /\ mon = [o \in Obj |-> [owner |-> Null, n |-> 0]]
  BY DEF Init
<1>2. \A t \in Thread, p \in Proxy : ~ Entered(t, p)
  BY <1>1, AtAppFacts, RemoteAssumption DEF Entered, In
<1>3. \A t \in Thread : UserOK(t)
  BY <1>1, AtAppFacts DEF UserOK
<1>4. \A c \in Conn : ServerOK(c)
  BY <1>1, NoSkelFacts DEF ServerOK
<1>5. (\A o \in Obj : MonOK(o)) /\ mon \in [Obj -> [owner : Worker \cup {Null}, n : Nat]]
  BY <1>1 DEF MonOK
<1>6. QED
  BY <1>2, <1>3, <1>4, <1>5 DEF Monitors

\* Nothing that the monitors are about changes.
LEMMA MonitorsStutter ==
  ASSUME Monitors, UNCHANGED <<sock, link, skel, mon, thr, inside>> PROVE Monitors'
<1>1. /\ sock' = sock /\ link' = link /\ skel' = skel /\ mon' = mon /\ thr' = thr
      /\ inside' = inside
  OBVIOUS
<1>2. \A t \in Thread, p \in Proxy : /\ Entered(t, p)' <=> Entered(t, p)
                                     /\ Owned(p)' <=> Owned(p)
  BY <1>1 DEF Entered, In, Owned
<1>3. \A t \in Thread : UserOK(t)'
  BY <1>1 DEF Monitors, UserOK, Wire
<1>4. \A c \in Conn : ServerOK(c)'
  BY <1>1 DEF Monitors, ServerOK
<1>5. \A o \in Obj : MonOK(o)'
  BY <1>1, <1>2 DEF Monitors, MonOK
<1>6. QED
  BY <1>1, <1>2, <1>3, <1>4, <1>5 DEF Monitors

LEMMA MonitorsNext ==
  ASSUME Unshared, NoDrops, Conversation, Monitors, [Next]_vars PROVE Monitors'
<1>1. CASE UNCHANGED vars
  BY <1>1, MonitorsStutter DEF vars
<1>2. ASSUME NEW t \in Thread, Client(t) PROVE Monitors'
  BY <1>2, OpenMonitors, NotConnectedMonitors, ReferredMonitors, SendMonitors, BrokenMonitors, ReceiveMonitors,
     ReceiveCloseMonitors, BlockMonitors DEF Client
<1>3. ASSUME NEW t \in Thread, NEW p \in Proxy, NEW op \in MyOp, Call(t, p, op) PROVE Monitors'
  BY <1>3, CallMonitors
<1>4. ASSUME NEW c \in Conn, Server(c) PROVE Monitors'
  BY <1>4, ServeReferenceMonitors, ServeCloseMonitors, ServeDataMonitors, WorkMonitors,
     EndsMonitors, ServeEnterMonitors, EnterMonitors, ServeExitMonitors DEF Server
<1>5. ASSUME NEW c \in Conn, Drop(c) PROVE Monitors'
  <2>1. prog \in Programs /\ "drop" \in prog.faults
    BY <1>5, MonTypes DEF Drop, RemoteTypes
  <2>2. QED
    BY <2>1 DEF NoDrops
<1>6. ASSUME NEW o \in Obj, Expire(o) \/ Register(o) PROVE Monitors'
  <2>1. UNCHANGED <<sock, link, skel, mon, thr, inside>>
    BY <1>6 DEF Expire, Register, cvars
  <2>2. QED
    BY <2>1, MonitorsStutter
<1>7. QED
  BY <1>1, <1>2, <1>3, <1>4, <1>5, <1>6 DEF Next

\* Two threads inside one monitor would share the proxy.
LEMMA OneWithin ==
  ASSUME Unshared, Conversation, Monitors PROVE MonitorExclusion
<1>1. SUFFICES ASSUME NEW t \in Thread, NEW u \in Thread,
                      t # u, inside[t] # Null, inside[u] # Null,
                      Target[inside[t]] = Target[inside[u]]
               PROVE  FALSE
  BY DEF MonitorExclusion
<1>2. inside[t] \in Proxy /\ inside[u] \in Proxy
  BY <1>1, MonTypes
<1>3. Entered(t, inside[t]) /\ Entered(u, inside[u])
  BY DEF Entered
<1>4. Owned(inside[t]) /\ Owned(inside[u])
  BY <1>1, <1>2, <1>3 DEF Monitors
<1>5. /\ sock[inside[u]] \in Conn /\ skel[sock[inside[u]]].w # Null
      /\ mon[Target[inside[t]]].owner = skel[sock[inside[u]]].w
  BY <1>1, <1>2, <1>4, ProxyConn DEF Owned
<1>6. sock[inside[t]] = sock[inside[u]]
  BY <1>1, <1>2, <1>4, <1>5, OwnerServes
<1>7. inside[t] = inside[u]
  BY <1>1, <1>2, <1>5, <1>6, MonTypes DEF SockOK
<1>8. inside[t] \in Uses[t] /\ inside[u] \in Uses[u]
  BY <1>1, <1>2, <1>3, OwnProxy
<1>9. QED
  BY <1>1, <1>7, <1>8 DEF Unshared

\* Two threads of the client machine are never inside the monitor of one remote
\* object, if no two threads use one proxy, whose pool thread would let both in,
\* and connections stay up, since a lost one leaves the monitor to a thread of
\* the pool that may serve another proxy next.
THEOREM MonitorsExclude ==
  ASSUME Unshared, NoDrops PROVE Spec => []MonitorExclusion
<1>1. Init => Conversation /\ Monitors
  BY ConversationInit, MonitorsInit
<1>2. (Conversation /\ Monitors) /\ [Next]_vars => (Conversation /\ Monitors)'
  BY ConversationNext, MonitorsNext
<1>3. Conversation /\ Monitors => MonitorExclusion
  BY OneWithin
<1>4. QED
  BY <1>1, <1>2, <1>3, PTL DEF Spec
=============================================================================
