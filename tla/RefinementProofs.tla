-------------------------- MODULE RefinementProofs --------------------------
(***************************************************************************)
(* RemoteCall implements SingleVM: remote objects behave like objects of   *)
(* the thread's own machine, for any threads, proxies, objects, array      *)
(* lengths and programs, if a program guards the objects it shares and     *)
(* connections stay up.                                                    *)
(***************************************************************************)
EXTENDS RemoteCallProofs

(* Hypotheses.                                                             *)

\* The program enters the monitor of a proxy before it uses one of several
\* proxies of an object.
Guarded == \A p, q \in Proxy : p # q /\ Target[p] = Target[q] => Locks[p] = p

\* No connection breaks, and no value is refused in run().  Where leases expire, no
\* field is put and no array element read or written: a Skeleton without an object
\* acknowledges the writes and answers 0.
Reliable ==
  \A g \in Programs :
    /\ g.faults \cap {"drop", "unfit"} = {}
    /\ "expire" \in g.faults => g.ops \cap {"put", "aload", "astore"} = {}

-----------------------------------------------------------------------------
(* The inductive invariant.                                                *)

\* Nobody else reads or writes the object of p.
Sole(p) == \A q \in Proxy : Target[q] = Target[p] => q = p
Held(p) == Sole(p) \/ \E t \in Thread : Entered(t, p)

\* t reads or writes through p.
Data(t, p) == thr[t].pc # "app" /\ thr[t].p = p /\ thr[t].op.m \notin {"enter", "exit", "close"}

\* A reply to the request of t is there, of one that has written cell j, of one
\* that will.
Arrived(t, p) == thr[t].pc = "wait" /\ thr[t].p = p /\ link[sock[p]].rep # << >>
Done(t, p, j) ==
  /\ Arrived(t, p)
  /\ thr[t].op.m \in {"put", "astore", "invoke"} /\ thr[t].op.i = j
  /\ Answered(t).ok
Begun(p) == \E t \in Thread : Arrived(t, p) /\ thr[t].op.m = "store"

\* The Skeleton has yet to write cell j: its thread has replied, or the client
\* has returned.
Owed(p, j) ==
  LET K == skel[sock[p]] IN
  /\ sock[p] # Null
  /\ \/ K.st = "put" /\ K.op.i = j
     \/ /\ K.st = "block" /\ K.op.m = "store" /\ ~Begun(p)
        /\ K.op.i + K.k <= j /\ j < K.op.i + Count(K.op)

\* The object has, or will have, what the history says with the operation that
\* is about to return.
Eventual(p, j) == IF Owed(p, j) THEN skel[sock[p]].op.v ELSE heap[Target[p]][j]
Settled(p, j) ==
  IF \E t \in Thread : Done(t, p, j)
  THEN \A t \in Thread : Done(t, p, j) => Eventual(p, j) = thr[t].op.v
  ELSE Eventual(p, j) = last[Target[p]][j]

\* Number of cells whose contents op returns.
Size(op) == IF op.m \in {"get", "aload", "invoke"} THEN 1
            ELSE IF op.m \in {"copy", "load"} THEN Count(op) ELSE 0

\* What op has read, or will have when it returns, is what the history says of
\* its object: T is its thread, m the contents.
Contain(m, i, n) == [j \in 1 .. n |-> m[i + j - 1]]
Heard(T, L, K, m) ==
  LET op == T.op
  IN
  /\ T.pc = "wait" /\ op.m \notin {"load", "store"} /\ L.rep # << >> /\ Head(L.rep).ok =>
       /\ Size(op) # 0 => op.i \in Cell
       /\ Head(L.rep).vals = Contain(m, op.i, Size(op))
  /\ T.pc = "wait" /\ op.m = "copy" /\ K.st = "block" /\ K.op.m = "copy" =>
       K.got = Contain(m, op.i, K.k)
  /\ T.pc = "wait" /\ op.m = "load" =>
       \A j \in 2 .. Len(L.rep) : L.rep[j].vals = <<m[op.i + j - 2]>>
  /\ T.pc = "elems" =>
       /\ T.got = Contain(m, op.i, T.k)
       /\ \A j \in 1 .. Len(L.rep) : L.rep[j].vals = <<m[op.i + T.k + j - 1]>>
ReadOK(t) == Heard(thr[t], link[sock[thr[t].p]], skel[sock[thr[t].p]], last[Target[thr[t].p]])

\* t does what the program may do, and the reply to CLOSE or ARYBLOCKSTORE finds
\* the Skeleton as it was when it replied.
CallOK(t) ==
  LET K == skel[sock[thr[t].p]]
  IN
  thr[t].pc # "app" =>
    /\ thr[t].op.m \in prog.ops
    /\ thr[t].op.m \notin {"enter", "exit", "close"} => Locks[thr[t].p] \in {inside[t], Null}
    /\ thr[t].pc # "elems" => thr[t].got = << >>
    /\ thr[t].pc = "wait" /\ link[sock[thr[t].p]].rep # << >> =>
         /\ thr[t].op.m = "close" => K.st = "gone"
         /\ thr[t].op.m = "store" => K.st # "gone" /\ (K.st = "block" => K.op = thr[t].op /\ K.k = 0)

\* The elements of a block store carry its value.
Carry(s, v) == \A i \in 1 .. Len(s) : IsElement(s[i]) => s[i].op.v = v

\* A Skeleton that runs has its connection, its object, and the object to itself
\* while it writes.
WorkOK(c) ==
  skel[c].st # "gone" =>
    /\ link[c].up
    /\ skel[c].obj = Null /\ "expire" \notin prog.faults =>
         \E t \in Thread : thr[t].pc = "ref" /\ sock[thr[t].p] = c /\ link[c].rep = << >>
    /\ skel[c].st = "put" => skel[c].obj # Null
    /\ skel[c].st \in {"put", "block"} => \A p \in Proxy : sock[p] = c => Held(p)
    /\ skel[c].st = "block" /\ skel[c].op.m = "store" =>
         Carry(link[c].req, skel[c].op.v) /\ Carry(link[c].buf, skel[c].op.v)

\* Nothing is on its way to an object that nobody holds.
FreeOK(o) == (\A p \in Proxy : Target[p] = o => ~Held(p)) => heap[o] = last[o]

Contents ==
  /\ last \in [Obj -> [Cell -> Val]]
  /\ \A t \in Thread : ReadOK(t) /\ CallOK(t)
  /\ \A c \in Conn : WorkOK(c)
  /\ \A p \in Proxy : Held(p) => \A j \in Cell : Settled(p, j)
  /\ \A o \in Obj : FreeOK(o)
  /\ "expire" \notin prog.faults => exported = Obj

-----------------------------------------------------------------------------
(* What a step leaves alone.                                               *)

\* The invariants before a step, and those after it that are known.
Known ==
  /\ Unshared /\ StoresFit /\ Guarded
  /\ Conversation /\ Monitors /\ Contents
  /\ Conversation' /\ Monitors'

LEMMA KnownTypes ==
  ASSUME Known
  PROVE  /\ \A t \in Thread : thr[t] \in ThrType /\ thr'[t] \in ThrType /\ ThrOK(t) /\ ThrOK(t)'
         /\ \A p \in Proxy : sock[p] \in Conn \cup {Null} /\ sock'[p] \in Conn \cup {Null}
         /\ \A c \in Conn : link[c] \in LinkType /\ skel[c] \in SkelType /\ SkelOK(skel[c])
         /\ \A p, q \in Proxy : (sock[p] # Null /\ sock[p] = sock[q]) => p = q
         /\ \A p, q \in Proxy : (sock'[p] # Null /\ sock'[p] = sock'[q]) => p = q
         /\ Null \notin Proxy /\ Null \notin Conn
         /\ \A t \in Thread : Uses[t] \subseteq Proxy
         /\ \A p \in Proxy : Target[p] \in Obj
BY RemoteAssumption DEF Known, Conversation, RemoteTypes, ThreadOK, ConnOK, SockOK

\* One thread uses a proxy.
LEMMA OneUser ==
  ASSUME Unshared, Conversation, NEW t \in Thread, NEW u \in Thread,
         thr[t].pc # "app", thr[u].pc # "app", thr[t].p = thr[u].p
  PROVE  t = u
<1>1. thr[t].p \in Uses[t] /\ thr[u].p \in Uses[u]
  BY MonTypes DEF ThrOK
<1>2. QED
  BY <1>1 DEF Unshared

\* One proxy of an object is held at a time.
LEMMA HeldOne ==
  ASSUME Conversation, Monitors, NEW p \in Proxy, NEW q \in Proxy, Held(p), Held(q), Target[p] = Target[q]
  PROVE  p = q
<1>1. CASE Sole(p) \/ Sole(q)
  BY <1>1 DEF Sole
<1>2. CASE ~Sole(p) /\ ~Sole(q)
  <2>1. Owned(p) /\ Owned(q)
    BY <1>2 DEF Held, Monitors
  <2>2. sock[p] \in Conn /\ sock[q] \in Conn /\ sock[p] # Null
    BY <2>1, MonTypes DEF Owned
  <2>3. skel[sock[p]].w = skel[sock[q]].w /\ skel[sock[p]].w # Null
    BY <2>1 DEF Owned
  <2>4. sock[p] = sock[q]
    BY <2>2, <2>3 DEF Monitors, ServerOK
  <2>5. QED
    BY <2>2, <2>4, MonTypes DEF SockOK
<1>3. QED
  BY <1>1, <1>2

\* A proxy that is used is held.
LEMMA DataHeld ==
  ASSUME Guarded, NEW t \in Thread, CallOK(t), NEW p \in Proxy, Data(t, p)
  PROVE  Held(p)
<1>1. Locks[p] \in {inside[t], Null}
  BY DEF CallOK, Data
<1>2. CASE Sole(p)
  BY <1>2 DEF Held
<1>3. CASE ~Sole(p)
  <2>1. Locks[p] = p
    BY <1>3 DEF Sole, Guarded
  <2>2. inside[t] = p
    BY <1>1, <2>1, RemoteAssumption
  <2>3. QED
    BY <2>2 DEF Held, Entered
<1>4. QED
  BY <1>2, <1>3

\* A step at proxy p and its connection, if p is not held without an effect on
\* the object and the history.
Elsewhere(p) ==
  /\ prog' = prog
  /\ \A q \in Proxy \ {p} : sock'[q] = sock[q]
  /\ \A d \in Conn : d # sock[p] /\ d # sock'[p] => link'[d] = link[d] /\ skel'[d] = skel[d]
  /\ \A u \in Thread : \/ thr'[u] = thr[u] /\ inside'[u] = inside[u]
                       \/ /\ thr[u].pc = "app" \/ thr[u].p = p
                          /\ thr'[u].pc = "app" \/ thr'[u].p = p
                          /\ inside'[u] = inside[u] \/ {inside[u], inside'[u]} \subseteq {p, Null}
  /\ \A o \in Obj \ {Target[p]} : heap'[o] = heap[o] /\ last'[o] = last[o]
  /\ Held(p) \/ (heap'[Target[p]] = heap[Target[p]] /\ last'[Target[p]] = last[Target[p]])

LEMMA FarLink ==
  ASSUME Known, NEW p \in Proxy, Elsewhere(p), NEW q \in Proxy \ {p}
  PROVE  /\ sock'[q] = sock[q]
         /\ sock[q] # Null => /\ sock[q] \in Conn
                              /\ link'[sock[q]] = link[sock[q]] /\ skel'[sock[q]] = skel[sock[q]]
<1>1. sock'[q] = sock[q]
  BY DEF Elsewhere
<1>2. ASSUME sock[q] # Null
      PROVE  sock[q] \in Conn /\ link'[sock[q]] = link[sock[q]] /\ skel'[sock[q]] = skel[sock[q]]
  <2>1. sock[q] \in Conn /\ sock[q] # sock[p]
    BY <1>2, KnownTypes
  <2>2. sock[q] # sock'[p]
    BY <1>1, <1>2, KnownTypes
  <2>3. QED
    BY <2>1, <2>2 DEF Elsewhere
<1>3. QED
  BY <1>1, <1>2

LEMMA FarEntered ==
  ASSUME Known, NEW p \in Proxy, Elsewhere(p), NEW q \in Proxy \ {p}, NEW u \in Thread
  PROVE  Entered(u, q)' <=> Entered(u, q)
<1>1. CASE thr'[u] = thr[u] /\ inside'[u] = inside[u]
  <2>1. \A m \in {"enter", "exit"} : In(u, q, m)' <=> In(u, q, m)
    BY <1>1 DEF In
  <2>2. (In(u, q, "enter") \/ In(u, q, "exit")) /\ thr[u].pc = "wait" => sock[q] # Null
    BY KnownTypes DEF In, ThrOK
  <2>3. QED
    BY <1>1, <2>1, <2>2, FarLink DEF Entered
<1>2. CASE /\ thr[u].pc = "app" \/ thr[u].p = p
           /\ thr'[u].pc = "app" \/ thr'[u].p = p
           /\ inside'[u] = inside[u] \/ {inside[u], inside'[u]} \subseteq {p, Null}
  <2>1. \A m \in {"enter", "exit"} : ~In(u, q, m) /\ ~In(u, q, m)'
    BY <1>2 DEF In
  <2>2. inside'[u] = q <=> inside[u] = q
    BY <1>2, KnownTypes
  <2>3. QED
    BY <2>1, <2>2 DEF Entered
<1>3. QED
  BY <1>1, <1>2 DEF Elsewhere

LEMMA FarHeld ==
  ASSUME Known, NEW p \in Proxy, Elsewhere(p), NEW q \in Proxy \ {p}
  PROVE  Held(q)' <=> Held(q)
<1>1. \A u \in Thread : Entered(u, q)' <=> Entered(u, q)
  BY FarEntered
<1>2. QED
  BY <1>1 DEF Held, Sole

\* A thread that is not at p
LEMMA FarThread ==
  ASSUME Known, NEW p \in Proxy, Elsewhere(p), NEW q \in Proxy \ {p}, NEW u \in Thread
  PROVE  /\ thr[u].pc # "app" /\ thr[u].p = q => thr'[u] = thr[u] /\ inside'[u] = inside[u]
         /\ thr'[u].pc # "app" /\ thr'[u].p = q => thr'[u] = thr[u] /\ inside'[u] = inside[u]
BY DEF Elsewhere

LEMMA FarArrived ==
  ASSUME Known, NEW p \in Proxy, Elsewhere(p), NEW q \in Proxy \ {p}, NEW u \in Thread
  PROVE  /\ Arrived(u, q)' <=> Arrived(u, q)
         /\ Arrived(u, q) => thr'[u] = thr[u] /\ sock[q] # Null
<1>1. thr[u].pc = "wait" /\ thr[u].p = q => sock[q] # Null
  BY KnownTypes DEF ThrOK
<1>2. QED
  BY <1>1, FarThread, FarLink DEF Arrived

LEMMA FarSettled ==
  ASSUME Known, NEW p \in Proxy, Elsewhere(p), NEW q \in Proxy \ {p}, Held(q), NEW j \in Cell
  PROVE  Settled(q, j)'
<1>1. Settled(q, j)
  BY DEF Known, Contents
<1>2. Target[q] \in Obj /\ (Target[q] = Target[p] => ~Held(p))
  BY HeldOne, KnownTypes DEF Known
<1>3. heap'[Target[q]] = heap[Target[q]] /\ last'[Target[q]] = last[Target[q]]
  BY <1>2 DEF Elsewhere
<1>4. \A u \in Thread : Done(u, q, j) => Arrived(u, q)
  BY DEF Done
<1>5. \A u \in Thread : Arrived(u, q) => thr[u].p = q
  BY DEF Arrived
<1>6. ASSUME NEW u \in Thread
      PROVE  (Done(u, q, j)' <=> Done(u, q, j)) /\ (Done(u, q, j) => thr'[u] = thr[u])
  <2>1. Arrived(u, q)' <=> Arrived(u, q)
    BY FarArrived
  <2>2. Arrived(u, q) => thr'[u] = thr[u] /\ sock[q] # Null
    BY FarArrived
  <2>3. Arrived(u, q) => Answered(u)' = Answered(u)
    BY <2>2, <1>5, FarLink DEF Answered, Wire
  <2>4. QED
    BY <2>1, <2>2, <2>3 DEF Done
<1>7. Begun(q)' <=> Begun(q)
  BY FarArrived DEF Begun
<1>8. Owed(q, j)' <=> Owed(q, j)
  BY <1>7, FarLink DEF Owed
<1>9. Eventual(q, j)' = Eventual(q, j)
  <2>1. Owed(q, j) => sock[q] # Null
    BY DEF Owed
  <2>2. QED
    BY <1>3, <1>8, <2>1, FarLink DEF Eventual
<1>10. QED
  BY <1>1, <1>3, <1>6, <1>9 DEF Settled

\* What a thread reads through a proxy that is held does not depend on others.
LEMMA FarRead ==
  ASSUME Known, NEW p \in Proxy, Elsewhere(p), NEW u \in Thread,
         thr'[u].pc # "app", thr'[u].p # p
  PROVE  ReadOK(u)' /\ CallOK(u)'
<1> DEFINE q == thr[u].p
           o == Target[q]
<1>1. thr'[u] = thr[u] /\ inside'[u] = inside[u]
  BY DEF Elsewhere
<1>2. /\ ReadOK(u) /\ CallOK(u) /\ q \in Proxy \ {p} /\ o \in Obj
      /\ thr[u].pc \in {"wait", "elems"} => sock[q] # Null
      /\ thr[u].pc = "elems" => thr[u].op.m = "load"
  BY <1>1, KnownTypes DEF Known, Contents, ThrOK
<1>3. /\ sock'[q] = sock[q]
      /\ sock[q] # Null => link'[sock[q]] = link[sock[q]] /\ skel'[sock[q]] = skel[sock[q]]
  BY <1>2, FarLink
<1>4. prog' = prog
  BY DEF Elsewhere
<1>5. CallOK(u)'
  BY <1>1, <1>2, <1>3, <1>4 DEF CallOK
<1>6. CASE last'[o] = last[o]
  <2>1. thr[u].pc \in {"wait", "elems"} => ReadOK(u)'
    BY <1>1, <1>2, <1>3, <1>6 DEF ReadOK
  <2>2. thr[u].pc \notin {"wait", "elems"} => ReadOK(u)'
    BY <1>1 DEF ReadOK, Heard
  <2>3. QED
    BY <1>5, <2>1, <2>2
<1>7. CASE last'[o] # last[o]
  <2>1. o = Target[p] /\ Held(p)
    BY <1>2, <1>7 DEF Elsewhere
  <2>2. ~Held(q)
    BY <1>2, <2>1, HeldOne DEF Known
  <2>3. ~Data(u, q)
    BY <1>2, <2>2, DataHeld DEF Known
  <2>4. thr[u].op.m \in {"enter", "exit", "close"} /\ thr[u].pc # "elems" /\ Size(thr[u].op) = 0
    BY <1>1, <1>2, <2>3 DEF Data, Size
  <2>5. \A m, i : Contain(m, i, 0) = << >>
    BY DEF Contain
  <2>6. \A L, K, m, n : Heard(thr[u], L, K, m) => Heard(thr[u], L, K, n)
    BY <2>4, <2>5 DEF Heard
  <2>7. thr[u].pc = "wait" => ReadOK(u)'
    BY <1>1, <1>2, <1>3, <2>6 DEF ReadOK
  <2>8. thr[u].pc # "wait" => ReadOK(u)'
    BY <1>1, <2>4 DEF ReadOK, Heard
  <2>9. QED
    BY <1>5, <2>7, <2>8
<1>8. QED
  BY <1>6, <1>7

LEMMA FarWork ==
  ASSUME Known, NEW p \in Proxy, Elsewhere(p), NEW d \in Conn, d # sock[p], d # sock'[p]
  PROVE  WorkOK(d)'
<1>1. WorkOK(d) /\ link'[d] = link[d] /\ skel'[d] = skel[d] /\ prog' = prog
  BY DEF Known, Contents, Elsewhere
<1>2. \A q \in Proxy : sock[q] = d \/ sock'[q] = d => q # p /\ sock'[q] = sock[q]
  BY DEF Elsewhere
<1>3. ASSUME NEW t \in Thread, thr[t].pc = "ref", sock[thr[t].p] = d
      PROVE  thr'[t] = thr[t] /\ sock'[thr[t].p] = d
  <2>1. thr[t].p \in Proxy
    BY <1>3, KnownTypes DEF ThrOK
  <2>2. QED
    BY <1>2, <1>3, <2>1, FarThread
<1>4. (\A q \in Proxy : sock[q] = d => Held(q)) => (\A q \in Proxy : sock'[q] = d => Held(q)')
  BY <1>2, FarHeld
<1>5. QED
  BY <1>1, <1>3, <1>4 DEF WorkOK

\* A step at p keeps the invariant if it does so at p.
LEMMA ContentsFrame ==
  ASSUME Known, NEW p \in Proxy, Elsewhere(p),
         last' \in [Obj -> [Cell -> Val]], "expire" \notin prog.faults => exported' = Obj,
         \A u \in Thread : thr'[u].pc = "app" \/ thr'[u].p = p => ReadOK(u)' /\ CallOK(u)',
         \A d \in Conn : d = sock[p] \/ d = sock'[p] => WorkOK(d)',
         Held(p)' => \A j \in Cell : Settled(p, j)',
         Held(p) /\ ~Held(p)' => heap'[Target[p]] = last'[Target[p]]
  PROVE  Contents'
<1>1. \A u \in Thread : ReadOK(u)' /\ CallOK(u)'
  BY FarRead
<1>2. \A d \in Conn : WorkOK(d)'
  BY FarWork
<1>3. ASSUME NEW q \in Proxy, Held(q)', NEW j \in Cell PROVE Settled(q, j)'
  <2>1. CASE q = p
    BY <1>3, <2>1
  <2>2. CASE q # p
    <3>1. Held(q)
      BY <1>3, <2>2, FarHeld
    <3>2. QED
      BY <2>2, <3>1, FarSettled
  <2>3. QED
    BY <2>1, <2>2
<1>4. ASSUME NEW o \in Obj, \A q \in Proxy : Target[q] = o => ~Held(q)' PROVE heap'[o] = last'[o]
  <2>1. FreeOK(o)
    BY DEF Known, Contents
  <2>2. \A q \in Proxy \ {p} : Target[q] = o => ~Held(q)
    BY <1>4, FarHeld
  <2>3. CASE Target[p] # o
    <3>1. heap[o] = last[o]
      BY <2>1, <2>2, <2>3 DEF FreeOK
    <3>2. QED
      BY <2>3, <3>1 DEF Elsewhere
  <2>4. CASE Target[p] = o /\ Held(p)
    BY <1>4, <2>4
  <2>5. CASE Target[p] = o /\ ~Held(p)
    <3>1. heap[o] = last[o]
      BY <2>1, <2>2, <2>5 DEF FreeOK
    <3>2. QED
      BY <2>5, <3>1 DEF Elsewhere
  <2>6. QED
    BY <2>3, <2>4, <2>5
<1>5. \A o \in Obj : FreeOK(o)'
  BY <1>4 DEF FreeOK
<1>6. prog' = prog
  BY DEF Elsewhere
<1>7. QED
  BY <1>1, <1>2, <1>3, <1>5, <1>6 DEF Contents

-----------------------------------------------------------------------------
(* The steps of a thread.                                                  *)

\* Thread t moves, at proxy p.
Moves(t, p) ==
  /\ t \in Thread /\ thr[t].pc # "app" /\ p = thr[t].p
  /\ thr'[t].pc = "app" \/ thr'[t].p = p
  /\ \A u \in Thread \ {t} : thr'[u] = thr[u] /\ inside'[u] = inside[u]
  /\ inside'[t] = inside[t] \/ {inside[t], inside'[t]} \subseteq {p, Null}

LEMMA MoverFacts ==
  ASSUME Known, NEW t, NEW p, Moves(t, p)
  PROVE  /\ t \in Thread /\ p \in Proxy /\ p \in Uses[t] /\ Target[p] \in Obj
         /\ \A u \in Thread : thr[u].pc # "app" /\ thr[u].p = p => u = t
         /\ \A u \in Thread : thr'[u].pc # "app" /\ thr'[u].p = p => u = t
<1>1. t \in Thread /\ thr[t].pc # "app" /\ p = thr[t].p
  BY DEF Moves
<1>2. p \in Uses[t] /\ p \in Proxy /\ Target[p] \in Obj
  BY <1>1, KnownTypes DEF ThrOK
<1>3. \A u \in Thread : thr[u].pc # "app" /\ thr[u].p = p => u = t
  BY <1>1, OneUser DEF Known
<1>4. \A u \in Thread \ {t} : thr'[u] = thr[u]
  BY DEF Moves
<1>5. QED
  BY <1>1, <1>2, <1>3, <1>4

LEMMA MoverHeld ==
  ASSUME Known, NEW t, NEW p, Moves(t, p), Entered(t, p)' <=> Entered(t, p)
  PROVE  Held(p)' <=> Held(p)
<1>1. ASSUME NEW u \in Thread \ {t} PROVE Entered(u, p)' <=> Entered(u, p)
  <2>1. thr'[u] = thr[u] /\ inside'[u] = inside[u]
    BY DEF Moves
  <2>2. \A m \in {"enter", "exit"} : ~In(u, p, m) /\ ~In(u, p, m)'
    BY <2>1, MoverFacts DEF In
  <2>3. QED
    BY <2>1, <2>2 DEF Entered
<1>2. QED
  BY <1>1 DEF Held, Sole

\* What t has neither read nor written itself stays settled.
LEMMA MoverSettled ==
  ASSUME Known, NEW t, NEW p, Moves(t, p), UNCHANGED <<skel, heap>>,
         \/ sock'[p] = sock[p]
         \/ sock'[p] = Null /\ skel[sock[p]].st = "gone",
         last'[Target[p]] = last[Target[p]],
         Arrived(t, p) => /\ thr[t].op.m # "store"
                          /\ thr[t].op.m \in {"put", "astore", "invoke"} => ~Answered(t).ok,
         ~Arrived(t, p)',
         Held(p), NEW j \in Cell
  PROVE  Settled(p, j)'
<1>1. \A u \in Thread : (Arrived(u, p) => u = t) /\ (Arrived(u, p)' => u = t)
  BY MoverFacts DEF Arrived
<1>2. \A u \in Thread : ~Arrived(u, p)'
  BY <1>1
<1>3. \A u \in Thread : ~Done(u, p, j) /\ ~Done(u, p, j)'
  BY <1>1, <1>2 DEF Done
<1>4. ~Begun(p) /\ ~Begun(p)'
  BY <1>1, <1>2 DEF Begun
<1>5. Settled(p, j)
  BY MoverFacts DEF Known, Contents
<1>6. Owed(p, j)' <=> Owed(p, j)
  BY <1>4 DEF Owed
<1>7. Owed(p, j) => sock'[p] = sock[p]
  BY DEF Owed
<1>8. Eventual(p, j)' = Eventual(p, j)
  BY <1>6, <1>7 DEF Eventual
<1>9. QED
  BY <1>3, <1>5, <1>8 DEF Settled

\* The Skeleton goes on as before.
LEMMA MoverWork ==
  ASSUME Known, NEW t, NEW p, Moves(t, p), NEW c \in Conn, c = sock[p],
         skel' = skel, prog' = prog,
         skel[c].st # "gone" => link'[c].up,
         thr[t].pc = "ref" => link[c].rep # << >> \/ ~link[c].up,
         Held(p) => Held(p)',
         \A q \in Proxy : sock'[q] = c => sock[q] = c,
         \A v : (/\ skel[c].st = "block" /\ skel[c].op.m = "store" /\ v = skel[c].op.v
                 /\ Carry(link[c].req, v) /\ Carry(link[c].buf, v))
                  => Carry(link'[c].req, v) /\ Carry(link'[c].buf, v)
  PROVE  WorkOK(c)'
<1>1. WorkOK(c)
  BY DEF Known, Contents
<1>2. SUFFICES ASSUME skel[c].st # "gone"
               PROVE  WorkOK(c)'
  BY DEF WorkOK
<1>3. link[c].up /\ (thr[t].pc = "ref" => link[c].rep # << >>)
  BY <1>1, <1>2 DEF WorkOK
<1>4. ASSUME NEW u \in Thread, thr[u].pc = "ref", sock[thr[u].p] = c, link[c].rep = << >>
      PROVE  FALSE
  <2>1. thr[u].p \in Proxy /\ p \in Proxy
    BY <1>4, KnownTypes, MoverFacts DEF ThrOK
  <2>2. thr[u].p = p
    BY <1>4, <2>1, KnownTypes
  <2>3. QED
    BY <1>3, <1>4, <2>2, MoverFacts
<1>5. ~(skel[c].obj = Null /\ "expire" \notin prog.faults)
  BY <1>1, <1>2, <1>4 DEF WorkOK
<1>6. \A q \in Proxy : sock[q] = c => q = p
  BY KnownTypes, MoverFacts
<1>7. QED
  BY <1>1, <1>2, <1>5, <1>6 DEF WorkOK

\* A step of t that leaves the history alone or holds p
LEMMA MoverContents ==
  ASSUME Known, NEW t, NEW p, Moves(t, p), UNCHANGED <<prog, skel, heap, exported>>,
         NEW c \in Conn, c = sock[p], \A d \in Conn \ {c} : link'[d] = link[d],
         \A q \in Proxy \ {p} : sock'[q] = sock[q],
         sock'[p] \in {sock[p], Null},
         last' \in [Obj -> [Cell -> Val]],
         \A o \in Obj : last'[o] = last[o] \/ (o = Target[p] /\ Held(p)),
         thr'[t].pc # "app" => ReadOK(t)' /\ CallOK(t)',
         WorkOK(c)',
         Entered(t, p)' <=> Entered(t, p),
         Held(p) => \A j \in Cell : Settled(p, j)'
  PROVE  Contents'
<1>1. p \in Proxy /\ t \in Thread
  BY MoverFacts
<1>2. Elsewhere(p)
  <2>1. \A u \in Thread : \/ thr'[u] = thr[u] /\ inside'[u] = inside[u]
                          \/ /\ thr[u].pc = "app" \/ thr[u].p = p
                             /\ thr'[u].pc = "app" \/ thr'[u].p = p
                             /\ inside'[u] = inside[u] \/ {inside[u], inside'[u]} \subseteq {p, Null}
    BY DEF Moves
  <2>2. Target[p] \in Obj
    BY MoverFacts
  <2>3. QED
    BY <2>1, <2>2 DEF Elsewhere
<1>3. ASSUME NEW u \in Thread, thr'[u].pc = "app" \/ thr'[u].p = p
      PROVE  ReadOK(u)' /\ CallOK(u)'
  <2>1. CASE thr'[u].pc = "app"
    BY <2>1 DEF ReadOK, Heard, CallOK
  <2>2. CASE thr'[u].pc # "app"
    <3>1. u = t
      BY <1>3, <2>2, MoverFacts
    <3>2. QED
      BY <2>2, <3>1
  <2>3. QED
    BY <2>1, <2>2
<1>4. Held(p)' <=> Held(p)
  BY MoverHeld
<1>5. "expire" \notin prog.faults => exported' = Obj
  BY DEF Known, Contents
<1>6. \A d \in Conn : d = sock[p] \/ d = sock'[p] => WorkOK(d)'
  BY KnownTypes
<1>7. QED
  BY <1>1, <1>2, <1>3, <1>4, <1>5, <1>6, ContentsFrame

\* The program calls a method of Proxy.
LEMMA CallEntered ==
  ASSUME Conversation, Monitors, NEW t \in Thread, NEW p \in Proxy, NEW op \in MyOp, Call(t, p, op)
  PROVE  /\ thr[t].pc = "app" /\ thr'[t].pc \in {"open", "send"} /\ thr'[t].p = p /\ thr'[t].op = op
         /\ thr'[t].got = << >> /\ thr'[t].pc = IF sock[p] = Null THEN "open" ELSE "send"
         /\ \A u \in Thread \ {t} : thr'[u] = thr[u] /\ inside'[u] = inside[u]
         /\ inside'[t] = inside[t] \/ (op.m = "exit" /\ inside'[t] = Null /\ inside[t] = p)
         /\ \A q \in Proxy : Entered(t, q)' <=> Entered(t, q)
         /\ UNCHANGED <<sock, link, skel, heap, exported, last>>
<1>1. /\ thr[t].pc = "app" /\ UNCHANGED <<sock, link, skel, heap, exported, last>>
      /\ inside' = IF op.m = "exit" THEN [inside EXCEPT ![t] = Null] ELSE inside
      /\ \A u \in Thread \ {t} : thr'[u] = thr[u]
      /\ thr'[t].pc = IF sock[p] = Null THEN "open" ELSE "send"
      /\ thr'[t].p = p /\ thr'[t].op = op /\ thr'[t].got = << >>
      /\ op.m = "exit" => inside[t] = p
  BY MonTypes DEF Call, RemoteTypes, Wants
<1>2. /\ \A u \in Thread \ {t} : inside'[u] = inside[u]
      /\ inside'[t] = IF op.m = "exit" THEN Null ELSE inside[t]
  BY <1>1, MonTypes DEF RemoteTypes
<1>3. \A q \in Proxy : Entered(t, q) <=> inside[t] = q
  BY <1>1 DEF Entered, In
<1>4. inside[t] = p => sock[p] # Null
  BY <1>3 DEF Monitors, Owned
<1>5. ASSUME NEW q \in Proxy PROVE Entered(t, q)' <=> Entered(t, q)
  <2>1. Entered(t, q)' <=> (inside'[t] = q \/ (p = q /\ op.m = "exit" /\ thr'[t].pc = "send"))
    BY <1>1 DEF Entered, In
  <2>2. Null # q
    BY MonTypes
  <2>3. QED
    BY <1>1, <1>2, <1>3, <1>4, <2>1, <2>2
<1>6. QED
  BY <1>1, <1>2, <1>5

LEMMA CallContents ==
  ASSUME Known, NEW t \in Thread, NEW p \in Proxy, NEW op \in MyOp, Call(t, p, op), prog' = prog
  PROVE  Contents'
<1>1. /\ thr[t].pc = "app" /\ thr'[t].pc \in {"open", "send"} /\ thr'[t].p = p /\ thr'[t].op = op
      /\ thr'[t].got = << >>
      /\ \A u \in Thread \ {t} : thr'[u] = thr[u] /\ inside'[u] = inside[u]
      /\ inside'[t] = inside[t] \/ (op.m = "exit" /\ inside'[t] = Null /\ inside[t] = p)
      /\ \A q \in Proxy : Entered(t, q)' <=> Entered(t, q)
      /\ UNCHANGED <<sock, link, skel, heap, exported, last>>
  BY CallEntered DEF Known
<1>2. Elsewhere(p)
  BY <1>1 DEF Elsewhere
<1>3. /\ last' \in [Obj -> [Cell -> Val]]
      /\ "expire" \notin prog.faults => exported' = Obj
  BY <1>1 DEF Known, Contents
<1>4. \A u \in Thread, q \in Proxy : Entered(u, q)' <=> Entered(u, q)
  BY <1>1 DEF Entered, In
<1>5. \A q \in Proxy : Held(q)' <=> Held(q)
  BY <1>4 DEF Held, Sole
<1>6. CallOK(t)'
  <2>1. op.m \in prog.ops
    BY DEF MyOp
  <2>2. op.m \notin {"enter", "exit", "close"} => Locks[p] \in {inside[t], Null}
    BY DEF Call, Wants
  <2>3. QED
    BY <1>1, <2>1, <2>2 DEF CallOK
<1>7. ReadOK(t)'
  BY <1>1 DEF ReadOK, Heard
<1>8. \A u \in Thread \ {t} : (ReadOK(u)' <=> ReadOK(u)) /\ (CallOK(u)' <=> CallOK(u))
  BY <1>1 DEF ReadOK, CallOK
<1>9. \A u \in Thread : ReadOK(u)' /\ CallOK(u)'
  BY <1>6, <1>7, <1>8 DEF Known, Contents
<1>10. ASSUME NEW d \in Conn PROVE WorkOK(d)'
  <2>1. WorkOK(d)
    BY DEF Known, Contents
  <2>2. \A u \in Thread : thr[u].pc = "ref" => thr'[u] = thr[u]
    BY <1>1
  <2>3. QED
    BY <1>1, <1>5, <2>1, <2>2 DEF WorkOK
<1>11. ASSUME Held(p)', NEW j \in Cell PROVE Settled(p, j)'
  <2>1. Settled(p, j)
    BY <1>5, <1>11 DEF Known, Contents
  <2>2. \A u \in Thread : Arrived(u, p) <=> Arrived(u, p)'
    BY <1>1 DEF Arrived
  <2>3. \A u \in Thread : Arrived(u, p) => thr'[u] = thr[u]
    BY <1>1 DEF Arrived
  <2>4. \A u \in Thread : Done(u, p, j) <=> Done(u, p, j)'
    BY <1>1, <2>2, <2>3 DEF Done, Answered, Wire
  <2>5. Begun(p) <=> Begun(p)'
    BY <2>2, <2>3 DEF Begun
  <2>6. Eventual(p, j)' = Eventual(p, j)
    BY <1>1, <2>5 DEF Eventual, Owed
  <2>7. \A u \in Thread : Done(u, p, j) => thr'[u] = thr[u]
    BY <2>3 DEF Done
  <2>8. QED
    BY <1>1, <2>1, <2>4, <2>6, <2>7 DEF Settled
<1>12. QED
  BY <1>2, <1>3, <1>5, <1>9, <1>10, <1>11, ContentsFrame

\* A thread gives up before it has a connection.
LEMMA NotConnectedContents ==
  ASSUME Known, NEW t \in Thread, NotConnected(t), prog' = prog
  PROVE  Contents'
<1>1. /\ thr[t].pc = "open" /\ thr' = [thr EXCEPT ![t] = AtApp]
      /\ UNCHANGED <<sock, link, skel, heap, exported, inside, last>>
  BY DEF NotConnected, Fail
<1>2. PICK p : p = thr[t].p /\ p \in Proxy
  BY <1>1, KnownTypes DEF ThrOK
<1>3. thr'[t].pc = "app" /\ \A u \in Thread \ {t} : thr'[u] = thr[u]
  BY <1>1, AtAppFacts, KnownTypes DEF Known, Conversation, RemoteTypes
<1>4. Elsewhere(p)
  BY <1>1, <1>2, <1>3 DEF Elsewhere
<1>5. /\ last' \in [Obj -> [Cell -> Val]]
      /\ "expire" \notin prog.faults => exported' = Obj
  BY <1>1 DEF Known, Contents
<1>6. \A u \in Thread, q \in Proxy : Entered(u, q)' <=> Entered(u, q)
  BY <1>1, <1>3 DEF Entered, In
<1>7. \A q \in Proxy : Held(q)' <=> Held(q)
  BY <1>6 DEF Held, Sole
<1>8. ReadOK(t)' /\ CallOK(t)'
  BY <1>3 DEF ReadOK, Heard, CallOK
<1>9. \A u \in Thread \ {t} : (ReadOK(u)' <=> ReadOK(u)) /\ (CallOK(u)' <=> CallOK(u))
  BY <1>1, <1>3 DEF ReadOK, CallOK
<1>10. \A u \in Thread : ReadOK(u)' /\ CallOK(u)'
  BY <1>8, <1>9 DEF Known, Contents
<1>11. ASSUME NEW d \in Conn PROVE WorkOK(d)'
  <2>1. WorkOK(d)
    BY DEF Known, Contents
  <2>2. \A u \in Thread : thr[u].pc = "ref" => thr'[u] = thr[u]
    BY <1>1, <1>3
  <2>3. QED
    BY <1>1, <1>7, <2>1, <2>2 DEF WorkOK
<1>12. ASSUME Held(p)', NEW j \in Cell PROVE Settled(p, j)'
  <2>1. Settled(p, j)
    BY <1>2, <1>7, <1>12 DEF Known, Contents
  <2>2. \A u \in Thread : Arrived(u, p) <=> Arrived(u, p)'
    BY <1>1, <1>3 DEF Arrived
  <2>3. \A u \in Thread : Arrived(u, p) => thr'[u] = thr[u]
    BY <1>1, <1>3 DEF Arrived
  <2>4. \A u \in Thread : Done(u, p, j) <=> Done(u, p, j)'
    BY <1>1, <2>2, <2>3 DEF Done, Answered, Wire
  <2>5. Begun(p) <=> Begun(p)'
    BY <2>2, <2>3 DEF Begun
  <2>6. Eventual(p, j)' = Eventual(p, j)
    BY <1>1, <2>5 DEF Eventual, Owed
  <2>7. \A u \in Thread : Done(u, p, j) => thr'[u] = thr[u]
    BY <2>3 DEF Done
  <2>8. QED
    BY <1>1, <2>1, <2>4, <2>6, <2>7 DEF Settled
<1>13. QED
  BY <1>1, <1>2, <1>4, <1>5, <1>7, <1>10, <1>11, <1>12, ContentsFrame

\* A thread makes a connection, and names the object.
LEMMA OpenContents ==
  ASSUME Known, NEW t \in Thread, Open(t), prog' = prog
  PROVE  Contents'
<1>0. PICK p \in Proxy : p = thr[t].p
  BY KnownTypes DEF Open, ThrOK
<1>1. /\ thr[t].pc = "open" /\ sock[p] = Null
      /\ thr' = [thr EXCEPT ![t].pc = "ref"] /\ UNCHANGED <<heap, exported, inside, last>>
  BY <1>0, KnownTypes DEF Open, ThrOK
<1>2. PICK c \in Conn, w \in Worker :
        /\ skel[c] = NoSkel /\ \A q \in Proxy : sock[q] # c
        /\ sock' = [sock EXCEPT ![p] = c]
        /\ link' = [link EXCEPT ![c] = [Fresh EXCEPT !.up = TRUE, !.req = <<Request(t, Reference)>>]]
        /\ skel' = [skel EXCEPT ![c] = [NoSkel EXCEPT !.st = "idle", !.w = w]]
  BY <1>0 DEF Open
<1>3. /\ sock \in [Proxy -> Conn \cup {Null}] /\ link \in [Conn -> LinkType]
      /\ skel \in [Conn -> SkelType] /\ thr \in [Thread -> ThrType]
  BY DEF Known, Conversation, RemoteTypes
<1>4. /\ sock'[p] = c /\ \A q \in Proxy \ {p} : sock'[q] = sock[q]
      /\ \A d \in Conn \ {c} : link'[d] = link[d] /\ skel'[d] = skel[d]
      /\ link'[c].up /\ link'[c].rep = << >>
      /\ skel'[c].st = "idle" /\ skel'[c].obj = Null
  BY <1>1, <1>2, <1>3 DEF Fresh, NoSkel
<1>5. /\ \A u \in Thread \ {t} : thr'[u] = thr[u]
      /\ thr'[t].pc = "ref" /\ thr'[t].p = p /\ thr'[t].op = thr[t].op /\ thr'[t].got = thr[t].got
  BY <1>0, <1>3, <1>1 DEF ThrType
<1>6. Moves(t, p) /\ Elsewhere(p)
  BY <1>0, <1>1, <1>4, <1>5 DEF Moves, Elsewhere
<1>7. /\ last' \in [Obj -> [Cell -> Val]]
      /\ "expire" \notin prog.faults => exported' = Obj
  BY <1>1 DEF Known, Contents
<1>8. Entered(t, p)' <=> Entered(t, p)
  <2>1. Entered(t, p) <=> inside[t] = p
    BY <1>1 DEF Entered, In
  <2>2. Entered(t, p)' <=> inside[t] = p
    BY <1>1, <1>5 DEF Entered, In
  <2>3. QED
    BY <2>1, <2>2
<1>9. Held(p)' <=> Held(p)
  BY <1>6, <1>8, MoverHeld
<1>10. ReadOK(t)' /\ CallOK(t)'
  <2>1. ReadOK(t)'
    BY <1>5 DEF ReadOK, Heard
  <2>2. CallOK(t)
    BY DEF Known, Contents
  <2>3. CallOK(t)'
    BY <1>0, <1>1, <1>5, <2>2, <1>6 DEF CallOK, Elsewhere
  <2>4. QED
    BY <2>1, <2>3
<1>11. \A u \in Thread : thr'[u].pc = "app" \/ thr'[u].p = p => ReadOK(u)' /\ CallOK(u)'
  <2>1. \A u \in Thread : thr'[u].pc = "app" => ReadOK(u)' /\ CallOK(u)'
    BY DEF ReadOK, Heard, CallOK
  <2>2. QED
    BY <1>6, <1>10, <2>1, MoverFacts
<1>12. WorkOK(c)'
  <2>1. thr'[t].pc = "ref" /\ sock'[thr'[t].p] = c /\ link'[c].rep = << >>
    BY <1>4, <1>5
  <2>2. QED
    BY <1>4, <2>1 DEF WorkOK
<1>13. ASSUME Held(p), NEW j \in Cell PROVE Settled(p, j)'
  <2>1. Settled(p, j)
    BY <1>1, <1>13 DEF Known, Contents
  <2>2. \A u \in Thread : ~Arrived(u, p) /\ ~Arrived(u, p)'
    BY <1>1, <1>5, <1>6, MoverFacts DEF Arrived
  <2>3. \A u \in Thread : ~Done(u, p, j) /\ ~Done(u, p, j)'
    BY <2>2 DEF Done
  <2>4. ~Owed(p, j) /\ ~Owed(p, j)'
    BY <1>1, <1>4 DEF Owed
  <2>5. QED
    BY <1>1, <2>1, <2>3, <2>4 DEF Settled, Eventual
<1>14. \A d \in Conn : d = sock[p] \/ d = sock'[p] => WorkOK(d)'
  BY <1>1, <1>4, <1>12, KnownTypes
<1>15. QED
  BY <1>1, <1>6, <1>7, <1>9, <1>11, <1>13, <1>14, ContentsFrame

\* The proxy and the connection of a thread that talks to a Skeleton
LEMMA TalkerFacts ==
  ASSUME Known, NEW t \in Thread, thr[t].pc \in {"ref", "send", "wait", "elems"}
  PROVE  \E p \in Proxy, c \in Conn : p = thr[t].p /\ c = sock[p] /\ c = Wire(t)
<1>1. thr[t].p \in Proxy /\ Wire(t) \in Conn /\ Wire(t) = sock[thr[t].p]
  BY Talks DEF Known
<1>2. QED
  BY <1>1

\* The invariants of its proxy, connection and object
LEMMA TalkerKnows ==
  ASSUME Known, NEW t \in Thread, NEW p \in Proxy, NEW c \in Conn, c = sock[p]
  PROVE  /\ ReadOK(t) /\ CallOK(t) /\ UserOK(t) /\ WorkOK(c) /\ ServerOK(c)
         /\ Entered(t, p) => Owned(p)
         /\ link[c] \in LinkType /\ skel[c] \in SkelType /\ SkelOK(skel[c])
         /\ link \in [Conn -> LinkType] /\ sock \in [Proxy -> Conn \cup {Null}]
         /\ thr \in [Thread -> ThrType] /\ inside \in [Thread -> Proxy \cup {Null}]
         /\ heap \in [Obj -> [Cell -> Val]] /\ last \in [Obj -> [Cell -> Val]] /\ skel \in [Conn -> SkelType]
         /\ Target[p] \in Obj /\ p # Null
         /\ \A q \in Proxy : sock[q] = c => q = p
BY KnownTypes DEF Known, Contents, Monitors, Conversation, RemoteTypes

LEMMA ReferredContents ==
  ASSUME Known, NEW t \in Thread, Referred(t), prog' = prog
  PROVE  Contents'
<1>1. /\ thr[t].pc = "ref" /\ link[Wire(t)].rep # << >>
      /\ link' = [link EXCEPT ![Wire(t)].rep = Tail(@)]
      /\ UNCHANGED <<sock, skel, heap, exported, inside, last>>
      /\ thr' = [thr EXCEPT ![t].pc = "send"] \/ thr' = [thr EXCEPT ![t] = AtApp]
  BY DEF Referred, Fail
<1>2. PICK p \in Proxy, c \in Conn : p = thr[t].p /\ c = sock[p] /\ c = Wire(t)
  BY <1>1, TalkerFacts
<1>3. RemoteTypes
  BY DEF Known, Conversation
<1>4. /\ \A d \in Conn \ {c} : link'[d] = link[d]
      /\ link'[c].up = link[c].up /\ link'[c].buf = link[c].buf
      /\ link'[c].req = link[c].req
  BY <1>1, <1>2, <1>3, TakenFacts
<1>5. /\ \A u \in Thread \ {t} : thr'[u] = thr[u]
      /\ \/ /\ thr'[t].pc = "send" /\ thr'[t].p = p /\ thr'[t].op = thr[t].op /\ thr'[t].got = thr[t].got
         \/ thr'[t].pc = "app"
  BY <1>1, <1>2, <1>3, AtAppFacts DEF RemoteTypes, ThrType
<1>6. Moves(t, p)
  BY <1>1, <1>2, <1>5 DEF Moves
<1>7. Entered(t, p)' <=> Entered(t, p)
  <2>1. thr[t].op.m # "exit"
    BY <1>1 DEF Known, Monitors, UserOK
  <2>2. QED
    BY <1>1, <1>5, <2>1 DEF Entered, In
<1>8. Held(p)' <=> Held(p)
  BY <1>6, <1>7, MoverHeld
<1>9. WorkOK(c)'
  <2>1. WorkOK(c)
    BY DEF Known, Contents
  <2>2. skel[c].st # "gone" => link'[c].up
    BY <1>4, <2>1 DEF WorkOK
  <2>3. \A v : Carry(link[c].req, v) /\ Carry(link[c].buf, v)
                  => Carry(link'[c].req, v) /\ Carry(link'[c].buf, v)
    BY <1>4
  <2>4. QED
    BY <1>1, <1>2, <1>6, <1>8, <2>2, <2>3, MoverWork
<1>10. thr'[t].pc # "app" => ReadOK(t)' /\ CallOK(t)'
  <2>1. CallOK(t)
    BY DEF Known, Contents
  <2>2. QED
    BY <1>1, <1>2, <1>5, <2>1 DEF ReadOK, Heard, CallOK
<1>11. Held(p) => \A j \in Cell : Settled(p, j)'
  <2>1. ~Arrived(t, p) /\ ~Arrived(t, p)'
    BY <1>1, <1>5 DEF Arrived
  <2>2. QED
    BY <1>1, <1>6, <2>1, MoverSettled
<1>12. last' \in [Obj -> [Cell -> Val]]
  BY <1>1 DEF Known, Contents
<1>13. QED
  BY <1>1, <1>2, <1>4, <1>6, <1>7, <1>9, <1>10, <1>11, <1>12, MoverContents

\* The streams of a connection that has been closed throw.
LEMMA BrokenContents ==
  ASSUME Known, NEW t \in Thread, Broken(t), prog' = prog
  PROVE  Contents'
<1>1. /\ thr[t].pc \in {"ref", "send", "wait", "elems"} /\ ~link[Wire(t)].up
      /\ thr[t].pc # "send" => link[Wire(t)].rep = << >>
      /\ sock' = IF thr[t].op.m = "close" THEN [sock EXCEPT ![thr[t].p] = Null] ELSE sock
      /\ UNCHANGED <<link, skel, heap, exported, inside, last>>
      /\ thr' = [thr EXCEPT ![t] = AtApp]
  BY DEF Broken, Fail
<1>2. PICK p \in Proxy, c \in Conn : p = thr[t].p /\ c = sock[p] /\ c = Wire(t)
  BY <1>1, TalkerFacts
<1>3. /\ WorkOK(c) /\ (Entered(t, p) => Owned(p))
      /\ sock \in [Proxy -> Conn \cup {Null}] /\ thr \in [Thread -> ThrType]
      /\ last \in [Obj -> [Cell -> Val]]
  BY <1>2, TalkerKnows
<1>4. thr'[t].pc = "app" /\ \A u \in Thread \ {t} : thr'[u] = thr[u]
  BY <1>1, <1>3, AtAppFacts
<1>5. sock'[p] \in {sock[p], Null} /\ \A q \in Proxy \ {p} : sock'[q] = sock[q]
  BY <1>1, <1>2, <1>3
<1>6. Moves(t, p)
  BY <1>1, <1>2, <1>4 DEF Moves
<1>7. skel[c].st = "gone"
  BY <1>1, <1>2, <1>3 DEF WorkOK
<1>8. ~Entered(t, p) /\ ~Entered(t, p)'
  <2>1. ~Entered(t, p)
    BY <1>1, <1>2, <1>3 DEF Owned
  <2>2. inside[t] # p
    BY <2>1 DEF Entered
  <2>3. QED
    BY <1>1, <1>4, <2>1, <2>2 DEF Entered, In
<1>9. WorkOK(c)'
  BY <1>1, <1>7 DEF WorkOK
<1>10. Held(p) => \A j \in Cell : Settled(p, j)'
  <2>1. ~Arrived(t, p) /\ ~Arrived(t, p)'
    BY <1>1, <1>2, <1>4 DEF Arrived
  <2>2. QED
    BY <1>1, <1>2, <1>5, <1>6, <1>7, <2>1, MoverSettled
<1>11. QED
  BY <1>1, <1>2, <1>3, <1>4, <1>5, <1>6, <1>8, <1>9, <1>10, MoverContents

\* A request joins the elements on their way.
LEMMA CarryQueue ==
  ASSUME NEW s \in Seq(RequestType), NEW b \in Seq(RequestType), NEW q \in RequestType, ~IsElement(q),
         NEW v, Carry(s, v), Carry(b, v)
  PROVE  Carry(Queue(s, b, q), v)
<1>1. PICK m : m = Queue(s, b, q)
  OBVIOUS
<1>2. PICK n \in Nat, k \in Nat : n = Len(s) /\ k = Len(b)
  <2>1. Len(s) \in Nat /\ Len(b) \in Nat
    BY QueueFacts
  <2>2. QED
    BY <2>1
<1>3. n + k + 1 = Len(m)
  BY <1>1, <1>2, QueueFacts
<1>4. m[n + k + 1] = q
  BY <1>1, <1>2, QueueFacts
<1>5. \A i \in 1 .. n : m[i] = s[i]
  BY <1>1, <1>2, QueueFacts
<1>6. \A i \in 1 .. k : m[n + i] = b[i]
  BY <1>1, <1>2, QueueFacts
<1>7. ASSUME NEW i \in 1 .. n + k + 1, IsElement(m[i]) PROVE m[i].op.v = v
  <2>1. i # n + k + 1
    BY <1>4, <1>7
  <2>2. CASE i <= n
    <3>1. i \in 1 .. n
      BY <1>2, <2>2
    <3>2. m[i] = s[i]
      BY <1>5, <3>1
    <3>3. QED
      BY <1>2, <1>7, <3>1, <3>2 DEF Carry
  <2>3. CASE i > n
    <3>1. PICK j : j = i - n
      OBVIOUS
    <3>2. j \in 1 .. k /\ n + j = i
      BY <1>2, <2>1, <2>3, <3>1
    <3>3. m[i] = b[j]
      BY <1>6, <3>2
    <3>4. QED
      BY <1>2, <1>7, <3>2, <3>3 DEF Carry
  <2>4. QED
    BY <1>2, <2>2, <2>3
<1>8. QED
  BY <1>1, <1>3, <1>7 DEF Carry

\* A request is sent, or refused.
LEMMA SendContents ==
  ASSUME Known, NEW t \in Thread, Send(t), prog' = prog
  PROVE  Contents'
<1>1. thr[t].pc = "send" /\ UNCHANGED <<sock, skel, heap, exported, inside, last>>
  BY DEF Send, Throw
<1>2. PICK p \in Proxy, c \in Conn : p = thr[t].p /\ c = sock[p] /\ c = Wire(t)
  BY <1>1, TalkerFacts
<1>3. /\ CallOK(t) /\ WorkOK(c) /\ link[c] \in LinkType /\ link \in [Conn -> LinkType]
      /\ thr \in [Thread -> ThrType] /\ last \in [Obj -> [Cell -> Val]]
  BY <1>2, TalkerKnows
<1>4. /\ thr[t].op \in AllOp /\ Unwaited(link[c], skel[c]) /\ SkelOK(skel[c])
  BY <1>1, <1>2, Talks DEF Known
<1>5. thr[t].op \in OpType /\ thr[t].op.m \in OpNames
  BY <1>4, OpFacts
<1>6. CASE Throw(t) /\ link' = link /\ Refused(thr[t].op)
  <2>1. thr'[t].pc = "app" /\ \A u \in Thread \ {t} : thr'[u] = thr[u]
    BY <1>3, <1>6, AtAppFacts DEF Throw
  <2>2. Moves(t, p)
    BY <1>1, <1>2, <2>1 DEF Moves
  <2>3. Entered(t, p)' <=> Entered(t, p)
    <3>1. thr[t].op.m \notin {"enter", "exit"}
      BY <1>6 DEF Refused
    <3>2. QED
      BY <1>1, <2>1, <3>1, DataEntered
  <2>4. Held(p)' <=> Held(p)
    BY <2>2, <2>3, MoverHeld
  <2>5. WorkOK(c)'
    <3>1. skel[c].st # "gone" => link'[c].up
      BY <1>3, <1>6 DEF WorkOK
    <3>2. QED
      BY <1>1, <1>2, <1>6, <2>2, <2>4, <3>1, MoverWork
  <2>6. Held(p) => \A j \in Cell : Settled(p, j)'
    <3>1. ~Arrived(t, p) /\ ~Arrived(t, p)'
      BY <1>1, <2>1 DEF Arrived
    <3>2. QED
      BY <1>1, <2>2, <3>1, MoverSettled
  <2>7. QED
    BY <1>1, <1>2, <1>3, <1>6, <2>1, <2>2, <2>3, <2>5, <2>6, MoverContents
<1>7. CASE /\ link[c].up
           /\ link' = [link EXCEPT ![c].req = @ \o link[c].buf \o <<Request(t, thr[t].op)>>,
                                   ![c].buf = << >>]
           /\ thr' = [thr EXCEPT ![t].pc = "wait"]
  <2> DEFINE q == Request(t, thr[t].op)
  <2>1. q \in RequestType /\ ~IsElement(q)
    BY <1>5 DEF Request, RequestType, IsElement, OpNames
  <2>2. link' = [link EXCEPT ![c].req = Queue(link[c].req, link[c].buf, q), ![c].buf = << >>]
    BY <1>7 DEF Queue
  <2> HIDE DEF q
  <2>3. /\ \A d \in Conn \ {c} : link'[d] = link[d]
        /\ link'[c].up = link[c].up /\ link'[c].rep = link[c].rep
        /\ link'[c].req = Queue(link[c].req, link[c].buf, q) /\ link'[c].buf = << >>
    <3> DEFINE x == Queue(link[c].req, link[c].buf, q)
    <3>1. link' = [link EXCEPT ![c].req = x, ![c].buf = << >>]
      BY <2>2
    <3> HIDE DEF x
    <3>2. /\ \A d \in Conn \ {c} : link'[d] = link[d]
          /\ link'[c].up = link[c].up /\ link'[c].rep = link[c].rep
          /\ link'[c].req = x /\ link'[c].buf = << >>
      BY <1>3, <3>1 DEF LinkType
    <3>3. QED
      BY <3>2 DEF x
  <2>4. /\ thr'[t].pc = "wait" /\ thr'[t].p = p /\ thr'[t].op = thr[t].op /\ thr'[t].got = thr[t].got
        /\ \A u \in Thread \ {t} : thr'[u] = thr[u]
    BY <1>2, <1>3, <1>7 DEF ThrType
  <2>5. Moves(t, p)
    BY <1>1, <1>2, <2>4 DEF Moves
  <2>6. link[c].rep = << >> /\ link'[c].rep = << >>
    BY <1>4, <2>3 DEF Unwaited
  <2>7. Entered(t, p)' <=> Entered(t, p)
    BY <1>1, <1>2, <2>4, <2>6 DEF Entered, In
  <2>8. Held(p)' <=> Held(p)
    BY <2>5, <2>7, MoverHeld
  <2>9. WorkOK(c)'
    <3>1. link[c].req \in Seq(RequestType) /\ link[c].buf \in Seq(RequestType)
      BY <1>3 DEF LinkType
    <3>2. ASSUME NEW v, Carry(link[c].req, v), Carry(link[c].buf, v)
          PROVE  Carry(link'[c].req, v) /\ Carry(link'[c].buf, v)
      <4>1. Carry(link'[c].req, v)
        BY <2>1, <2>3, <3>1, <3>2, CarryQueue
      <4>2. Carry(<< >>, v)
        BY DEF Carry
      <4>3. QED
        BY <2>3, <4>1, <4>2
    <3>3. skel[c].st # "gone" => link'[c].up
      BY <1>7, <2>3
    <3>4. QED
      BY <1>1, <1>2, <2>5, <2>8, <3>2, <3>3, MoverWork
  <2>10. CallOK(t)'
    BY <1>1, <1>2, <1>3, <2>4, <2>6 DEF CallOK
  <2>11. ReadOK(t)'
    <3>1. ~(skel[c].st = "block" /\ skel[c].op.m = "copy")
      BY <1>4, <1>7 DEF Unwaited, Replying
    <3>2. \A m : Heard(thr'[t], link'[c], skel[c], m)
      BY <2>4, <2>6, <3>1 DEF Heard
    <3>3. QED
      BY <1>1, <1>2, <2>4, <3>2 DEF ReadOK
  <2>12. Held(p) => \A j \in Cell : Settled(p, j)'
    <3>1. ~Arrived(t, p) /\ ~Arrived(t, p)'
      BY <1>1, <1>2, <2>6 DEF Arrived
    <3>2. QED
      BY <1>1, <2>5, <3>1, MoverSettled
  <2>13. QED
    BY <1>1, <1>2, <1>3, <2>3, <2>5, <2>7, <2>9, <2>10, <2>11, <2>12, MoverContents
<1>8. QED
  BY <1>1, <1>2, <1>6, <1>7 DEF Send

\* A thread that finds a reply
LEMMA AnsweredFacts ==
  ASSUME Known, NEW t \in Thread, thr[t].pc = "wait", NEW p \in Proxy, NEW c \in Conn,
         p = thr[t].p, c = sock[p], link[c].rep # << >>
  PROVE  /\ Arrived(t, p) /\ Answered(t) = Head(link[c].rep) /\ Answered(t) = link[c].rep[1]
         /\ Answered(t).ok \in BOOLEAN /\ Answered(t).vals \in Seq(Val)
         /\ link[c].rep \in Seq(ReplyType) /\ 1 \in 1 .. Len(link[c].rep)
         /\ thr[t].op.m \in {"load", "store", "enter", "exit"} => Answered(t).ok
         /\ thr[t].op \in AllOp /\ ~Refused(thr[t].op)
<1>1. /\ Waited(link[c], skel[c], Request(t, thr[t].op), Replies(thr[t].op))
      /\ Request(t, thr[t].op).op = thr[t].op
      /\ thr[t].op \in AllOp /\ ~Refused(thr[t].op)
  BY WaitFacts DEF Known, Wire
<1>2. link[c].rep \in Seq(ReplyType) /\ UserOK(t)
  BY TalkerKnows DEF LinkType
<1>3. /\ Answered(t) = Head(link[c].rep) /\ Answered(t) = link[c].rep[1] /\ Answered(t) \in ReplyType
      /\ 1 \in 1 .. Len(link[c].rep)
  BY <1>2, TailFacts DEF Answered, Wire
<1>4. thr[t].op.m \in {"load", "store"} => Answered(t).ok
  BY <1>1, <1>3 DEF Waited
<1>5. thr[t].op.m \in {"enter", "exit"} => Answered(t).ok
  BY <1>2, <1>3 DEF UserOK, Wire
<1>6. Answered(t).ok \in BOOLEAN /\ Answered(t).vals \in Seq(Val)
  BY <1>3 DEF ReplyType
<1>7. QED
  BY <1>1, <1>2, <1>3, <1>4, <1>5, <1>6 DEF Arrived

\* The history after the return of an operation
LEMMA History ==
  ASSUME NEW t \in Thread, NEW p \in Proxy, p = thr[t].p, thr[t].op \in AllOp,
         last \in [Obj -> [Cell -> Val]], NEW vals, Return(t, vals)
  PROVE  /\ last' \in [Obj -> [Cell -> Val]]
         /\ \A o \in Obj \ {Target[p]} : last'[o] = last[o]
         /\ thr[t].op.v \in Val \/ last' = last
         /\ \A j \in Cell : last'[Target[p]][j] =
              IF thr[t].op.v # Null /\ j \in Span(thr[t].op) THEN thr[t].op.v ELSE last[Target[p]][j]
<1> DEFINE op == thr[t].op
           o == Target[p]
<1>1. o \in Obj
  BY RemoteAssumption
<1>2. last' = IF op.v # Null
              THEN [last EXCEPT ![o] = [c \in Cell |-> IF c \in Span(op) THEN op.v ELSE @[c]]]
              ELSE last
  BY DEF Return, Writes
<1>3. op.v \in Val \cup {Null}
  BY OpFacts DEF OpType
<1> HIDE DEF op, o
<1>4. QED
  BY <1>1, <1>2, <1>3 DEF op, o

\* The reply to most operations
LEMMA ReceiveContents ==
  ASSUME Known, NEW t \in Thread, Receive(t), prog' = prog
  PROVE  Contents'
<1>1. /\ thr[t].pc = "wait" /\ link[Wire(t)].rep # << >>
      /\ link' = [link EXCEPT ![Wire(t)].rep = Tail(@)]
      /\ UNCHANGED <<sock, skel, heap, exported>>
  BY DEF Receive, Replied
<1>2. PICK p \in Proxy, c \in Conn : p = thr[t].p /\ c = sock[p] /\ c = Wire(t)
  BY <1>1, TalkerFacts
<1>3. RemoteTypes
  BY DEF Known, Conversation
<1>4. /\ \A d \in Conn \ {c} : link'[d] = link[d]
      /\ link'[c].up = link[c].up /\ link'[c].buf = link[c].buf
      /\ link'[c].req = link[c].req
  BY <1>1, <1>2, <1>3, TakenFacts
<1>5. /\ WorkOK(c) /\ UserOK(t) /\ thr \in [Thread -> ThrType] /\ inside \in [Thread -> Proxy \cup {Null}]
      /\ last \in [Obj -> [Cell -> Val]] /\ Target[p] \in Obj /\ p # Null
  BY <1>2, TalkerKnows
<1>6. /\ Arrived(t, p) /\ Answered(t).ok \in BOOLEAN
      /\ thr[t].op.m \in {"load", "store", "enter", "exit"} => Answered(t).ok
      /\ thr[t].op \in AllOp
  <2>1. link[c].rep # << >>
    BY <1>1, <1>2
  <2>2. Arrived(t, p) /\ thr[t].op \in AllOp
    BY <1>1, <1>2, <2>1, AnsweredFacts
  <2>3. Answered(t).ok \in BOOLEAN
    BY <1>1, <1>2, <2>1, AnsweredFacts
  <2>4. thr[t].op.m \in {"load", "store", "enter", "exit"} => Answered(t).ok
    BY <1>1, <1>2, <2>1, AnsweredFacts
  <2>5. QED
    BY <2>2, <2>3, <2>4
<1>7. thr' = [thr EXCEPT ![t] = AtApp]
  BY DEF Receive, Throw, Return
<1>8. thr'[t].pc = "app" /\ \A u \in Thread \ {t} : thr'[u] = thr[u]
  BY <1>5, <1>7, AtAppFacts
<1>9. /\ \A u \in Thread \ {t} : inside'[u] = inside[u]
      /\ inside'[t] = IF thr[t].op.m = "enter" THEN p ELSE inside[t]
      /\ thr[t].op.m = "enter" => inside[t] = Null
  <2>1. CASE Throw(t) /\ ~Answered(t).ok
    BY <1>6, <2>1 DEF Throw
  <2>2. CASE Return(t, Answered(t).vals)
    BY <1>1, <1>2, <1>5, <2>2 DEF Return, UserOK
  <2>3. QED
    BY <2>1, <2>2 DEF Receive
<1>10. Moves(t, p)
  BY <1>1, <1>2, <1>8, <1>9 DEF Moves
<1>11. Entered(t, p)' <=> Entered(t, p)
  <2>1. CASE thr[t].op.m = "enter"
    BY <1>1, <1>2, <1>9, <2>1 DEF Entered, In
  <2>2. CASE thr[t].op.m # "enter"
    BY <1>1, <1>2, <1>8, <1>9, <2>2 DEF Entered, In
  <2>3. QED
    BY <2>1, <2>2
<1>12. Held(p)' <=> Held(p)
  BY <1>10, <1>11, MoverHeld
<1>13. WorkOK(c)'
  <2>1. skel[c].st # "gone" => link'[c].up
    BY <1>4, <1>5 DEF WorkOK
  <2>2. \A v : Carry(link[c].req, v) /\ Carry(link[c].buf, v)
                  => Carry(link'[c].req, v) /\ Carry(link'[c].buf, v)
    BY <1>4
  <2>3. QED
    BY <1>1, <1>2, <1>10, <1>12, <2>1, <2>2, MoverWork
<1>14. ~Arrived(t, p)'
  BY <1>8 DEF Arrived
<1>15. CASE ~Answered(t).ok
  <2>1. last' = last
    BY <1>15 DEF Receive, Throw
  <2>2. Held(p) => \A j \in Cell : Settled(p, j)'
    BY <1>1, <1>6, <1>10, <1>14, <1>15, <2>1, MoverSettled
  <2>3. QED
    BY <1>1, <1>2, <1>4, <1>5, <1>8, <1>10, <1>11, <1>13, <2>1, <2>2, MoverContents
<1>16. CASE Answered(t).ok
  <2>1. Return(t, Answered(t).vals) /\ thr[t].op.m \notin {"load", "store", "close"}
    BY <1>16 DEF Receive
  <2>2. /\ last' \in [Obj -> [Cell -> Val]]
        /\ \A o \in Obj \ {Target[p]} : last'[o] = last[o]
        /\ thr[t].op.v \in Val \/ last' = last
    BY <1>2, <1>5, <1>6, <2>1, History
  <2>3. CASE thr[t].op.m \notin {"put", "astore", "invoke"}
    <3>1. thr[t].op.v = Null
      BY <1>6, <2>1, <2>3, OpFacts
    <3>2. last' = last
      BY <2>2, <3>1, RemoteAssumption
    <3>3. Held(p) => \A j \in Cell : Settled(p, j)'
      BY <1>1, <1>10, <1>14, <2>1, <2>3, <3>2, MoverSettled
    <3>4. QED
      BY <1>1, <1>2, <1>4, <1>5, <1>8, <1>10, <1>11, <1>13, <3>2, <3>3, MoverContents
  <2>4. CASE thr[t].op.m \in {"put", "astore", "invoke"}
    <3>1. Held(p)
      <4>1. Data(t, p) /\ CallOK(t)
        BY <1>1, <1>2, <2>4, TalkerKnows DEF Data
      <4>2. QED
        BY <4>1, DataHeld DEF Known
    <3>2. ASSUME NEW j \in Cell PROVE Settled(p, j)'
      <4>1. Settled(p, j)
        BY <3>1 DEF Known, Contents
      <4>2. \A u \in Thread : (Arrived(u, p) => u = t) /\ ~Arrived(u, p)'
        BY <1>10, <1>14, MoverFacts DEF Arrived
      <4>3. \A u \in Thread : (Done(u, p, j) => u = t) /\ ~Done(u, p, j)'
        BY <4>2 DEF Done
      <4>4. ~Begun(p) /\ ~Begun(p)'
        BY <2>4, <4>2 DEF Begun
      <4>5. Owed(p, j)' <=> Owed(p, j)
        BY <1>1, <4>4 DEF Owed
      <4>6. Eventual(p, j)' = Eventual(p, j)
        BY <1>1, <4>5 DEF Eventual
      <4>7. thr[t].op.n = 1 /\ thr[t].op.v \in Val /\ thr[t].op.i \in Int /\ thr[t].op.v # Null
        BY <1>6, <2>4, OpFacts, RemoteAssumption DEF OpType
      <4>8. j \in Int
        BY RemoteAssumption DEF Cell
      <4>9. j \in Span(thr[t].op) <=> thr[t].op.i = j
        BY <4>7, <4>8 DEF Span
      <4>10. last'[Target[p]][j] = IF thr[t].op.i = j THEN thr[t].op.v ELSE last[Target[p]][j]
        <5>1. \A i \in Cell : last'[Target[p]][i] =
                IF thr[t].op.v # Null /\ i \in Span(thr[t].op) THEN thr[t].op.v ELSE last[Target[p]][i]
          BY <1>2, <1>5, <1>6, <2>1, History
        <5>2. QED
          BY <4>7, <4>9, <5>1
      <4>11. Done(t, p, j) <=> thr[t].op.i = j
        BY <1>6, <1>16, <2>4 DEF Done
      <4>12. CASE thr[t].op.i = j
        <5>1. Eventual(p, j) = thr[t].op.v
          BY <4>1, <4>11, <4>12 DEF Settled
        <5>2. QED
          BY <4>3, <4>6, <4>10, <4>12, <5>1 DEF Settled
      <4>13. CASE thr[t].op.i # j
        <5>1. Eventual(p, j) = last[Target[p]][j]
          BY <4>1, <4>3, <4>11, <4>13 DEF Settled
        <5>2. QED
          BY <4>3, <4>6, <4>10, <4>13, <5>1 DEF Settled
      <4>14. QED
        BY <4>12, <4>13
    <3>3. QED
      BY <1>1, <1>2, <1>4, <1>8, <1>10, <1>11, <1>13, <2>2, <3>1, <3>2, MoverContents, ZenonT(60)
  <2>5. QED
    BY <2>3, <2>4
<1>17. QED
  BY <1>6, <1>15, <1>16

\* CLOSE has been answered, and the connection is forgotten.
LEMMA ReceiveCloseContents ==
  ASSUME Known, NEW t \in Thread, ReceiveClose(t), prog' = prog
  PROVE  Contents'
<1>1. /\ thr[t].pc = "wait" /\ link[Wire(t)].rep # << >> /\ thr[t].op.m = "close"
      /\ link' = [link EXCEPT ![Wire(t)] = Fresh]
      /\ sock' = [sock EXCEPT ![thr[t].p] = Null]
      /\ UNCHANGED <<skel, heap, exported>> /\ Return(t, << >>)
  BY DEF ReceiveClose, Replied
<1>2. PICK p \in Proxy, c \in Conn : p = thr[t].p /\ c = sock[p] /\ c = Wire(t)
  BY <1>1, TalkerFacts
<1>3. /\ CallOK(t) /\ sock \in [Proxy -> Conn \cup {Null}] /\ thr \in [Thread -> ThrType]
      /\ link \in [Conn -> LinkType] /\ last \in [Obj -> [Cell -> Val]]
  BY <1>2, TalkerKnows
<1>4. thr[t].op \in AllOp
  BY <1>1, WaitFacts DEF Known
<1>5. last' = last /\ inside' = inside /\ thr' = [thr EXCEPT ![t] = AtApp]
  BY <1>1, <1>4, OpFacts DEF Return, Writes
<1>6. /\ thr'[t].pc = "app" /\ \A u \in Thread \ {t} : thr'[u] = thr[u]
      /\ sock'[p] = Null /\ \A q \in Proxy \ {p} : sock'[q] = sock[q]
      /\ \A d \in Conn \ {c} : link'[d] = link[d]
  BY <1>1, <1>2, <1>3, <1>5, AtAppFacts
<1>7. Moves(t, p)
  BY <1>1, <1>2, <1>5, <1>6 DEF Moves
<1>8. skel[c].st = "gone"
  BY <1>1, <1>2, <1>3 DEF CallOK
<1>9. Entered(t, p)' <=> Entered(t, p)
  BY <1>1, <1>5, <1>6, DataEntered
<1>10. WorkOK(c)'
  BY <1>1, <1>8 DEF WorkOK
<1>11. Held(p) => \A j \in Cell : Settled(p, j)'
  <2>1. ~Arrived(t, p)'
    BY <1>6 DEF Arrived
  <2>2. QED
    BY <1>1, <1>2, <1>5, <1>6, <1>7, <1>8, <2>1, MoverSettled
<1>12. QED
  BY <1>1, <1>2, <1>3, <1>5, <1>6, <1>7, <1>9, <1>10, <1>11, MoverContents

\* A thread that is to write no element finds no Skeleton that waits for one.
LEMMA NoElements ==
  ASSUME NEW L \in LinkType, NEW K \in SkelType, NEW q, NEW left, StoresFit, L.up,
         Waited(L, K, q, left), q.op.m = "store", q.op.n \in Nat, L.rep # << >>, K.st # "block"
  PROVE  q.op.n = 0
<1>1. Len(L.req) \in Nat /\ (Unread(L) => Len(L.req) >= 1)
  <2>1. L.req \in Seq(RequestType)
    BY DEF LinkType
  <2>2. QED
    BY <2>1, TailFacts DEF Unread
<1>2. ToWrite(L, q) = q.op.n /\ Expected(K) = 0
  BY DEF ToWrite, Expected
<1>3. 0 = Len(L.req) - (IF Unread(L) THEN 1 ELSE 0) + q.op.n
  BY <1>2 DEF Waited
<1>4. CASE Unread(L)
  BY <1>1, <1>3, <1>4
<1>5. CASE ~Unread(L)
  BY <1>1, <1>3, <1>5
<1>6. QED
  BY <1>4, <1>5

LEMMA CarryConcat ==
  ASSUME NEW s \in Seq(RequestType), NEW r \in Seq(RequestType), NEW v, Carry(s, v), Carry(r, v)
  PROVE  Carry(s \o r, v)
<1>1. /\ Len(s) \in Nat /\ Len(r) \in Nat
      /\ \A i \in 1 .. Len(s) : (s \o r)[i] = s[i]
      /\ \A i \in 1 .. Len(r) : (s \o r)[Len(s) + i] = r[i]
      /\ \A i \in 1 .. Len(s \o r) : i \in 1 .. Len(s) \/ (i - Len(s)) \in 1 .. Len(r)
  BY ConcatFacts
<1> DEFINE m == s \o r
<1> HIDE DEF m
<1>2. ASSUME NEW i \in 1 .. Len(m), IsElement(m[i]) PROVE m[i].op.v = v
  <2>1. CASE i \in 1 .. Len(s)
    <3>1. m[i] = s[i]
      BY <1>1, <2>1 DEF m
    <3>2. QED
      BY <1>2, <2>1, <3>1 DEF Carry
  <2>2. CASE i - Len(s) \in 1 .. Len(r)
    <3>1. Len(s) + (i - Len(s)) = i
      BY <1>1, <2>2
    <3>2. m[i] = r[i - Len(s)]
      BY <1>1, <2>2, <3>1 DEF m
    <3>3. QED
      BY <1>2, <2>2, <3>2 DEF Carry
  <2>3. QED
    BY <1>1, <2>1, <2>2 DEF m
<1>3. QED
  BY <1>2 DEF Carry, m

\* The elements that a block store writes
LEMMA CarryElements ==
  ASSUME NEW t \in Thread, NEW v \in Val, NEW n \in Nat, NEW k \in 0 .. n, NEW s,
         s = [j \in 1 .. n |-> Request(t, Element(v))]
  PROVE  Carry(SubSeq(s, 1, k), v) /\ Carry(SubSeq(s, k + 1, n), v)
<1> DEFINE e == Request(t, Element(v))
<1>1. e \in RequestType /\ e.op.v = v
  BY DEF Request, Element, Op, RequestType, OpType
<1>2. s = [j \in 1 .. n |-> e]
  OBVIOUS
<1> HIDE DEF e
<1>3. s \in Seq(RequestType) /\ Len(s) = n /\ \A j \in 1 .. n : s[j] = e
  BY <1>1, <1>2
<1>4. /\ SubSeq(s, 1, k) = [i \in 1 .. k |-> s[i]]
      /\ SubSeq(s, k + 1, n) = [i \in 1 .. (n - k) |-> s[i + k]]
  OBVIOUS
<1>5. QED
  BY <1>1, <1>3, <1>4 DEF Carry

\* aryBlockStore() writes its elements and returns.
LEMMA WriteElementsContents ==
  ASSUME Known, NEW t \in Thread, WriteElements(t), prog' = prog
  PROVE  Contents'
<1>1. /\ thr[t].pc = "wait" /\ link[Wire(t)].rep # << >> /\ thr[t].op.m = "store"
      /\ UNCHANGED <<sock, skel, heap, exported>> /\ Return(t, << >>)
  BY DEF WriteElements, Replied
<1>2. PICK p \in Proxy, c \in Conn : p = thr[t].p /\ c = sock[p] /\ c = Wire(t)
  BY <1>1, TalkerFacts
<1> DEFINE op == thr[t].op
           n == op.n
           q == Request(t, op)
           elems == [j \in 1 .. n |-> Request(t, Element(op.v))]
<1>3. op = thr[t].op
  OBVIOUS
<1>4. /\ CallOK(t) /\ WorkOK(c) /\ thr \in [Thread -> ThrType]
      /\ link[c] \in LinkType /\ link \in [Conn -> LinkType] /\ last \in [Obj -> [Cell -> Val]]
      /\ skel[c] \in SkelType
  BY <1>2, TalkerKnows
<1>5. /\ op \in AllOp /\ ~Refused(op) /\ q.op = op
      /\ Waited(link[c], skel[c], q, Replies(op)) /\ Asks(q, Replies(op))
  BY <1>1, <1>2, <1>3, WaitFacts DEF Known
<1>6. /\ op.v \in Val /\ op.v # Null /\ op.i \in Cell /\ n \in Nat /\ Count(op) = n /\ op.i \in Int
  <2>1. op.v \in Val /\ op.n \in Int /\ op.i \in Int
    BY <1>1, <1>3, <1>5, OpFacts DEF OpType
  <2>2. n >= 0
    BY <1>1, <1>3, <1>5, <2>1 DEF Refused
  <2>3. op.i \in Cell /\ Count(op) = op.n
    BY <1>1, <1>3, <1>5, AskFacts DEF Known
  <2>4. QED
    BY <2>1, <2>2, <2>3, RemoteAssumption
<1>7. PICK k \in 0 .. n :
        link' = [link EXCEPT ![c].rep = Tail(@),
                             ![c].req = @ \o SubSeq(elems, 1, k),
                             ![c].buf = SubSeq(elems, k + 1, n)]
  BY <1>2, <1>3 DEF WriteElements
<1> DEFINE a == SubSeq(elems, 1, k)
           b == SubSeq(elems, k + 1, n)
<1>8. Carry(a, op.v) /\ Carry(b, op.v) /\ a \in Seq(RequestType)
  <2>1. elems = [j \in 1 .. n |-> Request(t, Element(op.v))] /\ n \in Nat
    BY <1>6
  <2> HIDE DEF elems, n
  <2>2. Carry(a, op.v) /\ Carry(b, op.v)
    BY <1>6, <2>1, CarryElements
  <2>3. AreElements(a, k)
    BY <1>6, <2>1, ElementsFacts
  <2>4. QED
    BY <2>2, <2>3 DEF AreElements
<1>9. link' = [link EXCEPT ![c].rep = Tail(@), ![c].req = @ \o a, ![c].buf = b]
  BY <1>7
<1> HIDE DEF elems, a, b
<1>10. /\ \A d \in Conn \ {c} : link'[d] = link[d]
       /\ link'[c].up = link[c].up /\ link'[c].buf = b /\ link'[c].req = link[c].req \o a
  BY <1>4, <1>9 DEF LinkType
<1>11. thr' = [thr EXCEPT ![t] = AtApp] /\ inside' = inside
  BY <1>1 DEF Return
<1>12. thr'[t].pc = "app" /\ \A u \in Thread \ {t} : thr'[u] = thr[u]
  BY <1>4, <1>11, AtAppFacts
<1>13. Moves(t, p)
  BY <1>1, <1>2, <1>11, <1>12 DEF Moves
<1>14. Entered(t, p)' <=> Entered(t, p)
  BY <1>1, <1>11, <1>12, DataEntered
<1>15. Held(p)' <=> Held(p)
  BY <1>13, <1>14, MoverHeld
<1>16. Held(p)
  <2>1. Data(t, p)
    BY <1>1, <1>2 DEF Data
  <2>2. QED
    BY <1>4, <2>1, DataHeld DEF Known
<1>17. /\ skel[c].st # "gone" /\ link[c].up
       /\ skel[c].st = "block" => skel[c].op = op /\ skel[c].k = 0
       /\ skel[c].st # "block" => n = 0
  <2>1. skel[c].st # "gone" /\ link[c].rep # << >>
        /\ (skel[c].st = "block" => skel[c].op = op /\ skel[c].k = 0)
    BY <1>1, <1>2, <1>3, <1>4 DEF CallOK
  <2>2. link[c].up
    BY <1>4, <2>1 DEF WorkOK
  <2>3. q.op.m = "store" /\ q.op.n \in Nat
    BY <1>1, <1>3, <1>5, <1>6
  <2> HIDE DEF q
  <2>4. skel[c].st # "block" => q.op.n = 0
    BY <1>4, <1>5, <2>1, <2>2, <2>3, NoElements DEF Known
  <2>5. QED
    BY <1>5, <2>1, <2>2, <2>4
<1>18. WorkOK(c)'
  <2>1. ASSUME NEW v, skel[c].st = "block", skel[c].op.m = "store", v = skel[c].op.v,
               Carry(link[c].req, v), Carry(link[c].buf, v)
        PROVE  Carry(link'[c].req, v) /\ Carry(link'[c].buf, v)
    <3>1. v = op.v /\ link[c].req \in Seq(RequestType)
      BY <1>4, <1>17, <2>1 DEF LinkType
    <3>2. Carry(link[c].req \o a, v)
      BY <1>8, <2>1, <3>1, CarryConcat
    <3>3. QED
      BY <1>8, <1>10, <3>1, <3>2
  <2>2. link'[c].up
    BY <1>10, <1>17
  <2>3. QED
    BY <1>1, <1>2, <1>13, <1>15, <2>1, <2>2, MoverWork
<1>19. last' \in [Obj -> [Cell -> Val]] /\ \A o \in Obj \ {Target[p]} : last'[o] = last[o]
  BY <1>1, <1>2, <1>3, <1>4, <1>5, History
<1>20. ASSUME NEW j \in Cell PROVE Settled(p, j)'
  <2>1. Settled(p, j)
    BY <1>16 DEF Known, Contents
  <2>2. \A u \in Thread : (Arrived(u, p) => u = t) /\ ~Arrived(u, p)'
    BY <1>12, <1>13, MoverFacts DEF Arrived
  <2>3. \A u \in Thread : ~Done(u, p, j) /\ ~Done(u, p, j)'
    BY <1>1, <2>2 DEF Done
  <2>4. Begun(p) /\ ~Begun(p)'
    <3>1. Arrived(t, p)
      BY <1>1, <1>2 DEF Arrived
    <3>2. QED
      BY <1>1, <2>2, <3>1 DEF Begun
  <2>5. Eventual(p, j) = last[Target[p]][j]
    BY <2>1, <2>3 DEF Settled
  <2>6. j \in Int
    BY RemoteAssumption DEF Cell
  <2>7. j \in Span(op) <=> (op.i <= j /\ j < op.i + n)
    BY <1>6, <2>6 DEF Span
  <2>8. last'[Target[p]][j] = IF j \in Span(op) THEN op.v ELSE last[Target[p]][j]
    <3>1. \A i \in Cell : last'[Target[p]][i] =
            IF op.v # Null /\ i \in Span(op) THEN op.v ELSE last[Target[p]][i]
      BY <1>1, <1>2, <1>3, <1>4, <1>5, History
    <3>2. QED
      BY <1>6, <3>1
  <2>9. Eventual(p, j)' = last'[Target[p]][j]
    <3>1. CASE skel[c].st = "block"
      <4>1. skel[c].op = op /\ skel[c].k = 0 /\ op.m = "store" /\ sock[p] # Null
        BY <1>1, <1>2, <1>3, <1>17, <3>1, KnownTypes
      <4>2. Owed(p, j)' <=> (op.i + 0 <= j /\ j < op.i + n)
        BY <1>1, <1>2, <1>6, <2>4, <3>1, <4>1 DEF Owed
      <4>3. Owed(p, j)' <=> j \in Span(op)
        BY <1>6, <2>7, <4>2
      <4>4. ~Owed(p, j)
        BY <1>2, <2>4, <3>1 DEF Owed
      <4>5. heap[Target[p]][j] = last[Target[p]][j]
        BY <2>5, <4>4 DEF Eventual
      <4>6. QED
        BY <1>1, <1>2, <2>8, <4>1, <4>3, <4>5 DEF Eventual
    <3>2. CASE skel[c].st # "block"
      <4>1. j \notin Span(op)
        BY <1>6, <1>17, <2>6, <2>7, <3>2
      <4>2. Owed(p, j)' <=> Owed(p, j)
        BY <1>1, <1>2, <3>2 DEF Owed
      <4>3. Eventual(p, j)' = Eventual(p, j)
        BY <1>1, <4>2 DEF Eventual
      <4>4. QED
        BY <2>5, <2>8, <4>1, <4>3
    <3>3. QED
      BY <3>1, <3>2
  <2>10. QED
    BY <2>3, <2>9 DEF Settled
<1>21. QED
  BY <1>1, <1>2, <1>10, <1>12, <1>13, <1>14, <1>16, <1>18, <1>19, <1>20, MoverContents

\* One more element has been read.
LEMMA ContainNext ==
  ASSUME NEW m \in [Cell -> Val], NEW i \in Cell, NEW n \in Nat, i + n \in Cell
  PROVE  /\ Contain(m, i, n) \o <<m[i + n]>> = Contain(m, i, n + 1)
         /\ Append(Contain(m, i, n), m[i + n]) = Contain(m, i, n + 1)
         /\ Contain(m, i, n) \in Seq(Val)
<1> DEFINE s == Contain(m, i, n)
           r == Contain(m, i, n + 1)
<1>1. i \in Int /\ \A j \in 1 .. n + 1 : i + j - 1 \in Cell
  BY RemoteAssumption DEF Cell
<1>2. s \in Seq(Val) /\ Len(s) = n /\ \A j \in 1 .. n : s[j] = m[i + j - 1]
  BY <1>1 DEF Contain
<1>3. r \in Seq(Val) /\ Len(r) = n + 1 /\ \A j \in 1 .. n + 1 : r[j] = m[i + j - 1]
  BY <1>1 DEF Contain
<1>4. m[i + n] \in Val /\ i + (n + 1) - 1 = i + n
  BY <1>1
<1> HIDE DEF s, r
<1>5. Append(s, m[i + n]) = r
  BY <1>2, <1>3, <1>4
<1>6. s \o <<m[i + n]>> = r
  BY <1>2, <1>3, <1>4
<1>7. QED
  BY <1>2, <1>5, <1>6 DEF s, r

\* aryBlockLoad() begins to read its elements.
LEMMA BeginElementsContents ==
  ASSUME Known, NEW t \in Thread, BeginElements(t), prog' = prog
  PROVE  Contents'
<1>1. /\ thr[t].pc = "wait" /\ link[Wire(t)].rep # << >> /\ thr[t].op.m = "load"
      /\ link' = [link EXCEPT ![Wire(t)].rep = Tail(@)] /\ thr' = [thr EXCEPT ![t].pc = "elems"]
      /\ UNCHANGED <<sock, skel, heap, exported, inside, last>>
  BY DEF BeginElements, Replied
<1>2. PICK p \in Proxy, c \in Conn : p = thr[t].p /\ c = sock[p] /\ c = Wire(t)
  BY <1>1, TalkerFacts
<1>3. RemoteTypes
  BY DEF Known, Conversation
<1>4. /\ \A d \in Conn \ {c} : link'[d] = link[d]
      /\ link'[c].up = link[c].up /\ link'[c].buf = link[c].buf
      /\ link'[c].req = link[c].req /\ link'[c].rep = Tail(link[c].rep)
  BY <1>1, <1>2, <1>3, TakenFacts
<1>5. /\ ReadOK(t) /\ CallOK(t) /\ WorkOK(c) /\ link[c] \in LinkType /\ thr \in [Thread -> ThrType]
      /\ last \in [Obj -> [Cell -> Val]]
  BY <1>2, TalkerKnows
<1>6. /\ \A u \in Thread \ {t} : thr'[u] = thr[u]
      /\ thr'[t].pc = "elems" /\ thr'[t].p = p /\ thr'[t].op = thr[t].op
      /\ thr'[t].k = thr[t].k /\ thr'[t].got = thr[t].got
  BY <1>1, <1>2, <1>5 DEF ThrType
<1>7. thr[t].k = 0 /\ thr[t].op \in AllOp /\ thr[t].op \in OpType
  BY <1>1, KnownTypes, OpFacts DEF ThrOK
<1>8. thr[t].got = << >>
  BY <1>1, <1>5 DEF CallOK
<1>9. Moves(t, p)
  BY <1>1, <1>2, <1>6 DEF Moves
<1>10. Entered(t, p)' <=> Entered(t, p)
  BY <1>1, <1>6, DataEntered
<1>11. Held(p)' <=> Held(p)
  BY <1>9, <1>10, MoverHeld
<1>12. WorkOK(c)'
  <2>1. skel[c].st # "gone" => link'[c].up
    BY <1>4, <1>5 DEF WorkOK
  <2>2. \A v : Carry(link[c].req, v) /\ Carry(link[c].buf, v)
                  => Carry(link'[c].req, v) /\ Carry(link'[c].buf, v)
    BY <1>4
  <2>3. QED
    BY <1>1, <1>2, <1>9, <1>11, <2>1, <2>2, MoverWork
<1>13. ReadOK(t)'
  <2> DEFINE m == last[Target[p]]
             i == thr[t].op.i
             r == link[c].rep
             s == link'[c].rep
  <2>1. r \in Seq(ReplyType) /\ r # << >> /\ i \in Int
    BY <1>1, <1>2, <1>5, <1>7 DEF LinkType, OpType
  <2>2. /\ Len(r) \in Nat /\ Len(s) = Len(r) - 1
        /\ \A j \in 1 .. Len(s) : s[j] = r[j + 1]
    BY <1>4, <2>1, TailFacts
  <2>3. \A j \in 2 .. Len(r) : r[j].vals = <<m[i + j - 2]>>
    BY <1>1, <1>2, <1>5 DEF ReadOK, Heard
  <2>4. ASSUME NEW j \in 1 .. Len(s) PROVE s[j].vals = <<m[i + 0 + j - 1]>>
    <3>1. j + 1 \in 2 .. Len(r) /\ i + (j + 1) - 2 = i + 0 + j - 1
      BY <2>1, <2>2
    <3>2. QED
      BY <2>2, <2>3, <3>1
  <2>5. << >> = Contain(m, i, 0)
    BY DEF Contain
  <2> HIDE DEF s, r, i
  <2>6. Heard(thr'[t], link'[c], skel[c], m)
    BY <1>6, <1>7, <1>8, <2>4, <2>5 DEF Heard, s, i
  <2>7. QED
    BY <1>1, <1>2, <1>6, <2>6 DEF ReadOK
<1>14. CallOK(t)'
  BY <1>1, <1>2, <1>5, <1>6 DEF CallOK
<1>15. Held(p) => \A j \in Cell : Settled(p, j)'
  <2>1. ~Arrived(t, p)'
    BY <1>6 DEF Arrived
  <2>2. QED
    BY <1>1, <1>9, <2>1, MoverSettled
<1>16. QED
  BY <1>1, <1>2, <1>4, <1>5, <1>9, <1>10, <1>12, <1>13, <1>14, <1>15, MoverContents

\* The block that a load reads lies in the array.
LEMMA LoadFacts ==
  ASSUME Known, NEW t \in Thread, thr[t].pc = "elems"
  PROVE  /\ thr[t].op.m = "load" /\ thr[t].op.v = Null /\ thr[t].op.i \in Cell /\ thr[t].op.i \in Int
         /\ thr[t].op.n \in Nat /\ thr[t].op.n <= LEN - thr[t].op.i /\ Count(thr[t].op) = thr[t].op.n
         /\ thr[t].k \in Nat /\ thr[t].k <= thr[t].op.n /\ thr[t].op \in AllOp
<1>1. thr[t].op.m = "load" /\ ~Refused(thr[t].op) /\ thr[t].op \in AllOp /\ thr[t].k <= thr[t].op.n
  BY KnownTypes DEF ThrOK
<1>2. thr[t].k \in Nat
  BY KnownTypes DEF ThrType
<1>3. thr[t].op \in OpType /\ thr[t].op.v = Null
  BY <1>1, OpFacts
<1>4. thr[t].op.i \in Int /\ thr[t].op.n \in Int
  BY <1>3 DEF OpType
<1>5. QED
  BY <1>1, <1>2, <1>3, <1>4, RemoteAssumption DEF Refused, Count, Cell

\* aryBlockLoad() reads an element, or returns.
LEMMA ReceiveElementContents ==
  ASSUME Known, NEW t \in Thread, ReceiveElement(t), prog' = prog
  PROVE  Contents'
<1>1. thr[t].pc = "elems" /\ UNCHANGED <<sock, skel, heap, exported>>
  BY DEF ReceiveElement
<1>2. PICK p \in Proxy, c \in Conn : p = thr[t].p /\ c = sock[p] /\ c = Wire(t)
  BY <1>1, TalkerFacts
<1>3. RemoteTypes
  BY DEF Known, Conversation
<1>4. /\ ReadOK(t) /\ CallOK(t) /\ WorkOK(c) /\ link[c] \in LinkType /\ thr \in [Thread -> ThrType]
      /\ last \in [Obj -> [Cell -> Val]] /\ Target[p] \in Obj
  BY <1>2, TalkerKnows
<1>5. /\ thr[t].op.m = "load" /\ thr[t].op.v = Null /\ thr[t].op.i \in Cell /\ thr[t].op.i \in Int
      /\ thr[t].op.n \in Nat /\ thr[t].op.n <= LEN - thr[t].op.i
      /\ thr[t].k \in Nat /\ thr[t].k <= thr[t].op.n /\ thr[t].op \in AllOp
  BY <1>1, LoadFacts
<1>6. ~Arrived(t, p)
  BY <1>1 DEF Arrived
<1>7. CASE /\ thr[t].k < thr[t].op.n /\ link[c].rep # << >>
           /\ link' = [link EXCEPT ![c].rep = Tail(@)]
           /\ thr' = [thr EXCEPT ![t].k = @ + 1, ![t].got = @ \o Head(link[c].rep).vals]
           /\ UNCHANGED <<inside, last>>
  <2>1. /\ \A d \in Conn \ {c} : link'[d] = link[d]
        /\ link'[c].up = link[c].up /\ link'[c].buf = link[c].buf
        /\ link'[c].req = link[c].req /\ link'[c].rep = Tail(link[c].rep)
    BY <1>2, <1>3, <1>7, TakenFacts
  <2> DEFINE g == thr[t].got \o Head(link[c].rep).vals
             k == thr[t].k + 1
             m == last[Target[p]]
             i == thr[t].op.i
             r == link[c].rep
             s == link'[c].rep
  <2>2. thr' = [thr EXCEPT ![t].k = k, ![t].got = g]
    BY <1>7
  <2>3. r \in Seq(ReplyType) /\ r # << >>
    BY <1>4, <1>7 DEF LinkType
  <2>4. /\ Len(r) \in Nat /\ Len(s) = Len(r) - 1 /\ Head(r) = r[1] /\ 1 \in 1 .. Len(r)
        /\ \A j \in 1 .. Len(s) : s[j] = r[j + 1]
    BY <2>1, <2>3, TailFacts
  <2>5. thr[t].got = Contain(m, i, thr[t].k) /\ \A j \in 1 .. Len(r) : r[j].vals = <<m[i + thr[t].k + j - 1]>>
    BY <1>1, <1>2, <1>4 DEF ReadOK, Heard
  <2>6. g = Contain(m, i, k)
    <3>1. i + thr[t].k \in Cell
      BY <1>5, <1>7, RemoteAssumption, SMTT(30) DEF Cell
    <3>2. i + thr[t].k + 1 - 1 = i + thr[t].k
      BY <1>5
    <3>3. Head(r).vals = <<m[i + thr[t].k]>>
      BY <2>4, <2>5, <3>2
    <3>4. m \in [Cell -> Val] /\ i \in Cell /\ thr[t].k \in Nat
      BY <1>4, <1>5
    <3> HIDE DEF m, i, r
    <3>5. Contain(m, i, thr[t].k) \o <<m[i + thr[t].k]>> = Contain(m, i, thr[t].k + 1)
      BY <3>1, <3>4, ContainNext
    <3>6. thr[t].got = Contain(m, i, thr[t].k)
      BY <2>5
    <3>7. g = thr[t].got \o Head(r).vals
      BY DEF r
    <3> HIDE DEF g
    <3>8. QED
      BY <3>3, <3>5, <3>6, <3>7
  <2>7. ASSUME NEW j \in 1 .. Len(s) PROVE s[j].vals = <<m[i + k + j - 1]>>
    <3>1. j + 1 \in 1 .. Len(r) /\ j \in Int
      BY <2>4
    <3>2. i + thr[t].k + (j + 1) - 1 = i + k + j - 1
      BY <1>5, <3>1
    <3>3. r[j + 1].vals = <<m[i + thr[t].k + (j + 1) - 1]>>
      BY <2>5, <3>1
    <3>4. QED
      BY <2>4, <3>2, <3>3
  <2> HIDE DEF g
  <2>8. /\ \A u \in Thread \ {t} : thr'[u] = thr[u]
        /\ thr'[t].pc = "elems" /\ thr'[t].p = p /\ thr'[t].op = thr[t].op
        /\ thr'[t].k = k /\ thr'[t].got = g
    <3> HIDE DEF k
    <3>1. QED
      BY <1>1, <1>2, <1>4, <2>2 DEF ThrType
  <2> HIDE DEF k
  <2>9. Moves(t, p)
    BY <1>1, <1>2, <1>7, <2>8 DEF Moves
  <2>10. Entered(t, p)' <=> Entered(t, p)
    BY <1>1, <1>5, <1>7, <2>8, DataEntered
  <2>11. Held(p)' <=> Held(p)
    BY <2>9, <2>10, MoverHeld
  <2>12. WorkOK(c)'
    <3>1. skel[c].st # "gone" => link'[c].up
      BY <1>4, <2>1 DEF WorkOK
    <3>2. \A v : Carry(link[c].req, v) /\ Carry(link[c].buf, v)
                    => Carry(link'[c].req, v) /\ Carry(link'[c].buf, v)
      BY <2>1
    <3>3. QED
      BY <1>1, <1>2, <2>9, <2>11, <3>1, <3>2, MoverWork
  <2>13. ReadOK(t)'
    <3> HIDE DEF s, r, i, m
    <3>1. Heard(thr'[t], link'[c], skel[c], m)
      BY <2>6, <2>7, <2>8 DEF Heard, s, i
    <3>2. QED
      BY <1>1, <1>2, <1>7, <2>8, <3>1 DEF ReadOK, m
  <2>14. CallOK(t)'
    BY <1>1, <1>2, <1>4, <1>7, <2>8 DEF CallOK
  <2>15. Held(p) => \A j \in Cell : Settled(p, j)'
    <3>1. ~Arrived(t, p)'
      BY <2>8 DEF Arrived
    <3>2. QED
      BY <1>1, <1>6, <1>7, <2>9, <3>1, MoverSettled
  <2>16. QED
    BY <1>1, <1>2, <1>4, <1>7, <2>1, <2>9, <2>10, <2>12, <2>13, <2>14, <2>15, MoverContents
<1>8. CASE Return(t, thr[t].got) /\ UNCHANGED link
  <2>1. last' = last /\ inside' = inside /\ thr' = [thr EXCEPT ![t] = AtApp]
    BY <1>5, <1>8 DEF Return, Writes
  <2>2. thr'[t].pc = "app" /\ \A u \in Thread \ {t} : thr'[u] = thr[u]
    BY <1>4, <2>1, AtAppFacts
  <2>3. Moves(t, p)
    BY <1>1, <1>2, <2>1, <2>2 DEF Moves
  <2>4. Entered(t, p)' <=> Entered(t, p)
    BY <1>1, <1>5, <2>1, <2>2, DataEntered
  <2>5. Held(p)' <=> Held(p)
    BY <2>3, <2>4, MoverHeld
  <2>6. WorkOK(c)'
    <3>1. skel[c].st # "gone" => link'[c].up
      BY <1>4, <1>8 DEF WorkOK
    <3>2. QED
      BY <1>1, <1>2, <1>8, <2>3, <2>5, <3>1, MoverWork
  <2>7. Held(p) => \A j \in Cell : Settled(p, j)'
    <3>1. ~Arrived(t, p)'
      BY <2>2 DEF Arrived
    <3>2. QED
      BY <1>1, <1>6, <2>1, <2>3, <3>1, MoverSettled
  <2>8. QED
    BY <1>1, <1>2, <1>4, <1>8, <2>1, <2>2, <2>3, <2>4, <2>6, <2>7, MoverContents
<1>9. QED
  BY <1>2, <1>7, <1>8 DEF ReceiveElement

-----------------------------------------------------------------------------
(* The steps of a Skeleton.                                                *)

\* A connection of a Skeleton that runs, and its proxy
LEMMA ServedFacts ==
  ASSUME Known, NEW c \in Conn, skel[c].st # "gone"
  PROVE  link[c].up /\ \E p \in Proxy : c = sock[p]
<1>1. WorkOK(c) /\ SockOK
  BY DEF Known, Contents, Conversation
<1>2. link[c].up
  BY <1>1 DEF WorkOK
<1>3. QED
  BY <1>1, <1>2 DEF SockOK

\* A step of the Skeleton of p keeps the invariant if it does so at p.
LEMMA SkeletonContents ==
  ASSUME Known, NEW p \in Proxy, NEW c \in Conn, c = sock[p], UNCHANGED <<prog, cvars, exported>>,
         \A d \in Conn \ {c} : link'[d] = link[d] /\ skel'[d] = skel[d],
         \A o \in Obj \ {Target[p]} : heap'[o] = heap[o],
         Held(p) \/ heap'[Target[p]] = heap[Target[p]],
         \A u \in Thread : thr[u].pc # "app" /\ thr[u].p = p => ReadOK(u)' /\ CallOK(u)',
         WorkOK(c)',
         Held(p)' => \A j \in Cell : Settled(p, j)',
         Held(p) /\ ~Held(p)' => heap'[Target[p]] = last[Target[p]]
  PROVE  Contents'
<1>1. UNCHANGED <<sock, thr, inside, last>>
  BY DEF cvars
<1>2. Elsewhere(p)
  BY <1>1 DEF Elsewhere
<1>3. ASSUME NEW u \in Thread, thr'[u].pc = "app" \/ thr'[u].p = p
      PROVE  ReadOK(u)' /\ CallOK(u)'
  <2>1. CASE thr'[u].pc = "app"
    BY <2>1 DEF ReadOK, Heard, CallOK
  <2>2. CASE thr'[u].pc # "app"
    BY <1>1, <1>3, <2>2
  <2>3. QED
    BY <2>1, <2>2
<1>4. last' \in [Obj -> [Cell -> Val]] /\ ("expire" \notin prog.faults => exported' = Obj)
  BY <1>1 DEF Known, Contents
<1>5. \A d \in Conn : d = sock[p] \/ d = sock'[p] => WorkOK(d)'
  BY <1>1
<1>6. QED
  BY <1>1, <1>2, <1>3, <1>4, <1>5, ContentsFrame

\* The thread whose request the Skeleton reads
Asking(t, p, c) ==
  /\ t \in Thread /\ p \in Proxy /\ c \in Conn
  /\ thr[t].pc = "wait" /\ p = thr[t].p /\ c = sock[p]
  /\ skel[c].st = "idle" /\ link[c].up /\ link[c].rep = << >>

LEMMA Requester ==
  ASSUME Known, NEW c \in Conn, NEW ms, Reads(c, ms), "element" \notin ms, "reference" \notin ms
  PROVE  /\ \E t \in Thread, p \in Proxy : Asking(t, p, c) /\ Asked(c) = thr[t].op
         /\ Asked(c).m \in ms
         /\ Len(link[c].req) = 1 /\ link[c].buf = << >>
<1>1. /\ skel[c].st = "idle" /\ link[c].up /\ link[c].req # << >> /\ ~IsElement(Query(c))
      /\ Asked(c) = Query(c).op /\ Asked(c).m \in ms
  BY ReadFacts DEF Known
<1>2. PICK t \in Thread : Waiting(t, c) /\ Query(c) = Mine(t) /\ Asks(Query(c), Left(t))
  BY <1>1, Asker DEF Known
<1>3. thr[t].pc \in {"wait", "elems"} /\ Mine(t) = Request(t, thr[t].op)
  BY <1>1, <1>2 DEF Waiting, Mine, Request, Reference, Op
<1>4. Asked(c) = thr[t].op
  BY <1>1, <1>2, <1>3 DEF Request
<1>5. /\ Waited(link[c], skel[c], Mine(t), Left(t)) /\ Unread(link[c])
      /\ link[c].req[Len(link[c].req)] = Mine(t)
  BY <1>1, <1>2, WaiterRead DEF Known
<1>6. link[c] \in LinkType /\ skel[c] \in SkelType
  BY KnownTypes
<1>7. Len(link[c].req) = 1
  BY <1>1, <1>5, <1>6, HeadRequest DEF Query
<1>8. Left(t) = Len(link[c].rep) + Replies(thr[t].op)
  <2>1. Left(t) = Len(link[c].rep) + ToCome(link[c], skel[c])
    BY <1>1, <1>5 DEF Waited
  <2>2. ToCome(link[c], skel[c]) = Replies(thr[t].op)
    BY <1>3, <1>5 DEF ToCome, Request
  <2>3. QED
    BY <2>1, <2>2
<1>9. link[c].rep \in Seq(ReplyType) /\ Len(link[c].rep) \in Nat
  BY <1>6 DEF LinkType
<1>10. Replies(thr[t].op) \in Nat /\ Left(t) \in Nat /\ Left(t) <= Replies(thr[t].op)
  BY <1>1, <1>2, <1>4, AskFacts DEF Asks
<1>11. Len(link[c].rep) = 0
  BY <1>8, <1>9, <1>10
<1>12. thr[t].pc # "elems"
  <2>1. SUFFICES ASSUME thr[t].pc = "elems" PROVE FALSE
    OBVIOUS
  <2>2. thr[t].op.m = "load" /\ thr[t].op.n \in Nat /\ thr[t].k \in Nat
    BY <2>1, LoadFacts
  <2>3. Left(t) = thr[t].op.n - thr[t].k /\ Replies(thr[t].op) = thr[t].op.n + 1
    BY <2>1, <2>2 DEF Left, Replies
  <2>4. QED
    BY <1>8, <1>11, <2>2, <2>3
<1>13. link[c].rep = << >>
  BY <1>9, <1>11
<1>14. thr[t].p \in Proxy /\ c = sock[thr[t].p]
  <2>1. thr[t].p \in Proxy
    BY <1>3, KnownTypes DEF ThrOK
  <2>2. QED
    BY <1>2, <2>1 DEF Waiting
<1>15. link[c].buf = << >>
  BY <1>5 DEF Waited
<1>16. QED
  BY <1>1, <1>3, <1>4, <1>7, <1>12, <1>13, <1>14, <1>15 DEF Asking

\* What is known of it
LEMMA AskingFacts ==
  ASSUME Known, NEW t, NEW p, NEW c, Asking(t, p, c)
  PROVE  /\ t \in Thread /\ p \in Proxy /\ c \in Conn /\ Target[p] \in Obj
         /\ thr[t].pc = "wait" /\ p = thr[t].p /\ c = sock[p]
         /\ \A u \in Thread : thr[u].pc # "app" /\ thr[u].p = p => u = t
         /\ \A u \in Thread : ~Arrived(u, p)
         /\ Held(p) => \A j \in Cell : heap[Target[p]][j] = last[Target[p]][j]
         /\ Data(t, p) => Held(p)
         /\ skel[c].obj # Null => skel[c].obj = Target[p]
         /\ "expire" \notin prog.faults => skel[c].obj # Null
         /\ thr[t].op \in AllOp /\ ~Refused(thr[t].op)
         /\ thr[t].op.m \in prog.ops /\ thr[t].got = << >>
<1>1. /\ t \in Thread /\ p \in Proxy /\ c \in Conn
      /\ thr[t].pc = "wait" /\ p = thr[t].p /\ c = sock[p]
      /\ skel[c].st = "idle" /\ link[c].rep = << >>
  BY DEF Asking
<1>2. Target[p] \in Obj /\ thr[t].op \in AllOp /\ ~Refused(thr[t].op)
  BY <1>1, KnownTypes DEF ThrOK
<1>3. \A u \in Thread : thr[u].pc # "app" /\ thr[u].p = p => u = t
  BY <1>1, OneUser DEF Known
<1>4. \A u \in Thread : ~Arrived(u, p)
  BY <1>1 DEF Arrived
<1>5. CallOK(t) /\ WorkOK(c)
  BY <1>1 DEF Known, Contents
<1>6. Held(p) => \A j \in Cell : heap[Target[p]][j] = last[Target[p]][j]
  <2>1. SUFFICES ASSUME Held(p), NEW j \in Cell PROVE heap[Target[p]][j] = last[Target[p]][j]
    OBVIOUS
  <2>2. Settled(p, j)
    BY <1>1, <2>1 DEF Known, Contents
  <2>3. \A u \in Thread : ~Done(u, p, j)
    BY <1>4 DEF Done
  <2>4. ~Owed(p, j)
    BY <1>1 DEF Owed
  <2>5. QED
    BY <2>2, <2>3, <2>4 DEF Settled, Eventual
<1>7. Data(t, p) => Held(p)
  BY <1>1, <1>5, DataHeld DEF Known
<1>8. skel[c].obj # Null => skel[c].obj = Target[p]
  BY <1>1 DEF Known, Monitors, ServerOK
<1>9. "expire" \notin prog.faults => skel[c].obj # Null
  <2>1. SUFFICES ASSUME "expire" \notin prog.faults, skel[c].obj = Null PROVE FALSE
    OBVIOUS
  <2>2. PICK u \in Thread : thr[u].pc = "ref" /\ sock[thr[u].p] = c
    BY <1>1, <1>5, <2>1 DEF WorkOK
  <2>3. thr[u].p \in Proxy
    BY <2>2, KnownTypes DEF ThrOK
  <2>4. thr[u].p = p
    BY <1>1, <2>2, <2>3, KnownTypes
  <2>5. QED
    BY <1>1, <1>3, <2>2, <2>4
<1>10. thr[t].op.m \in prog.ops /\ thr[t].got = << >>
  BY <1>1, <1>5 DEF CallOK
<1>11. QED
  BY <1>1, <1>2, <1>3, <1>4, <1>6, <1>7, <1>8, <1>9, <1>10

\* A request other than MONITORENTER and MONITOREXIT is read, and answered or
\* not; if it writes, its thread holds the object.
LEMMA ServeContents ==
  ASSUME Known, NEW t, NEW p, NEW c, Asking(t, p, c),
         thr[t].op.m \notin {"enter", "exit"} \/ (link'[c].rep = << >> /\ ~Entered(t, p)),
         UNCHANGED <<prog, cvars, exported>>,
         \A d \in Conn \ {c} : link'[d] = link[d] /\ skel'[d] = skel[d],
         \A o \in Obj \ {Target[p]} : heap'[o] = heap[o],
         heap'[Target[p]] = heap[Target[p]] \/ Data(t, p),
         Heard(thr[t], link'[c], skel'[c], last[Target[p]]),
         link'[c].rep # << >> =>
           /\ thr[t].op.m = "close" => skel'[c].st = "gone"
           /\ thr[t].op.m = "store" =>
                skel'[c].st # "gone" /\ (skel'[c].st = "block" => skel'[c].op = thr[t].op /\ skel'[c].k = 0),
         \/ skel'[c].st = "gone"
         \/ /\ skel'[c].obj = skel[c].obj /\ link'[c].up
            /\ link'[c].req = << >> /\ link'[c].buf = << >>
            /\ skel'[c].st = "put" => skel[c].obj # Null
            /\ skel'[c].st \in {"put", "block"} => Data(t, p),
         Held(p) => \A j \in Cell : Settled(p, j)'
  PROVE  Contents'
<1>1. /\ t \in Thread /\ p \in Proxy /\ c \in Conn
      /\ thr[t].pc = "wait" /\ p = thr[t].p /\ c = sock[p]
      /\ \A u \in Thread : thr[u].pc # "app" /\ thr[u].p = p => u = t
      /\ Data(t, p) => Held(p)
      /\ "expire" \notin prog.faults => skel[c].obj # Null
  BY AskingFacts
<1>2. UNCHANGED <<sock, thr, inside, last>>
  BY DEF cvars
<1>3. link[c].rep = << >>
  BY DEF Asking
<1>4. \A u \in Thread : Entered(u, p)' <=> Entered(u, p)
  <2>1. Entered(t, p)' <=> Entered(t, p)
    BY <1>1, <1>2, <1>3 DEF Entered, In
  <2>2. \A u \in Thread \ {t} : Entered(u, p)' <=> Entered(u, p)
    BY <1>1, <1>2 DEF Entered, In
  <2>3. QED
    BY <2>1, <2>2
<1>5. Held(p)' <=> Held(p)
  BY <1>4 DEF Held, Sole
<1>6. ReadOK(t)'
  BY <1>1, <1>2 DEF ReadOK
<1>7. CallOK(t)'
  <2>1. CallOK(t)
    BY <1>1 DEF Known, Contents
  <2>2. QED
    BY <1>1, <1>2, <2>1 DEF CallOK
<1>8. WorkOK(c)'
  <2>1. \A q \in Proxy : sock[q] = c => q = p
    BY <1>1, KnownTypes
  <2>2. \A v : Carry(<< >>, v)
    BY DEF Carry
  <2>3. CASE skel'[c].st = "gone"
    BY <2>3 DEF WorkOK
  <2>4. CASE /\ skel'[c].obj = skel[c].obj /\ link'[c].up
             /\ link'[c].req = << >> /\ link'[c].buf = << >>
             /\ skel'[c].st = "put" => skel[c].obj # Null
             /\ skel'[c].st \in {"put", "block"} => Data(t, p)
    BY <1>1, <1>2, <1>5, <2>1, <2>2, <2>4 DEF WorkOK
  <2>5. QED
    BY <2>3, <2>4
<1>9. QED
  BY <1>1, <1>5, <1>6, <1>7, <1>8, SkeletonContents

\* No cell has been written, and none will.
LEMMA ServeSettled ==
  ASSUME Known, NEW t, NEW p, NEW c, Asking(t, p, c), UNCHANGED <<prog, cvars, heap>>,
         Held(p), NEW j \in Cell, ~Done(t, p, j)', ~Owed(p, j)'
  PROVE  Settled(p, j)'
<1>1. /\ \A u \in Thread : thr[u].pc # "app" /\ thr[u].p = p => u = t
      /\ heap[Target[p]][j] = last[Target[p]][j]
  BY AskingFacts
<1>2. UNCHANGED <<thr, last>>
  BY DEF cvars
<1>3. \A u \in Thread : Done(u, p, j)' => u = t
  BY <1>1, <1>2 DEF Done, Arrived
<1>4. \A u \in Thread : ~Done(u, p, j)'
  BY <1>3
<1>5. QED
  BY <1>1, <1>2, <1>4 DEF Settled, Eventual

LEMMA TailOne ==
  ASSUME NEW A, NEW s \in Seq(A), Len(s) = 1
  PROVE  Tail(s) = << >>
<1>1. s # << >>
  OBVIOUS
<1>2. Tail(s) \in Seq(A) /\ Len(Tail(s)) = Len(s) - 1
  BY <1>1, TailFacts
<1>3. PICK r : r = Tail(s)
  OBVIOUS
<1>4. r \in Seq(A) /\ Len(r) = 0
  BY <1>2, <1>3
<1>5. r = << >>
  BY <1>4
<1>6. QED
  BY <1>3, <1>5

\* The one reply to a request
LEMMA AnswersOne ==
  ASSUME Known, NEW t, NEW p, NEW c, Asking(t, p, c), NEW ms, Reads(c, ms),
         "element" \notin ms, "reference" \notin ms,
         NEW ok \in BOOLEAN, NEW vals \in Seq(Val), Answer(c, <<Reply(ok, vals, Query(c))>>)
  PROVE  /\ \A d \in Conn \ {c} : link'[d] = link[d]
         /\ link'[c].up /\ link'[c].req = << >> /\ link'[c].buf = << >>
         /\ link'[c].rep # << >> /\ Len(link'[c].rep) = 1
         /\ Head(link'[c].rep).ok = ok
         /\ Head(link'[c].rep).vals = vals
<1> DEFINE r == Reply(ok, vals, Query(c))
<1>1. c \in Conn /\ link[c].up /\ link[c].rep = << >>
  BY DEF Asking
<1>2. Len(link[c].req) = 1 /\ link[c].buf = << >>
  BY <1>1, Requester
<1>3. link[c].req # << >> /\ Query(c) \in RequestType
  BY <1>1, ReadFacts DEF Known
<1>4. r \in ReplyType /\ r.ok = ok /\ r.vals = vals
  BY <1>3 DEF Reply, ReplyType
<1>5. Answer(c, <<r>>)
  OBVIOUS
<1> HIDE DEF r
<1>6. RemoteTypes /\ <<r>> \in Seq(ReplyType)
  BY <1>4 DEF Known, Conversation
<1>7. /\ \A d \in Conn \ {c} : link'[d] = link[d]
      /\ link'[c].up = link[c].up /\ link'[c].buf = link[c].buf
      /\ link'[c].req = Tail(link[c].req) /\ link'[c].rep = link[c].rep \o <<r>>
      /\ link[c] \in LinkType
  BY <1>1, <1>3, <1>5, <1>6, AnswerFacts
<1>8. link'[c].req = << >>
  <2>1. link[c].req \in Seq(RequestType)
    BY <1>7 DEF LinkType
  <2>2. Tail(link[c].req) = << >>
    BY <1>2, <2>1, TailOne
  <2>3. QED
    BY <1>7, <2>2
<1>9. link'[c].rep = <<r>>
  <2>1. << >> \o <<r>> = <<r>>
    OBVIOUS
  <2>2. QED
    BY <1>1, <1>7, <2>1
<1>10. /\ \A d \in Conn \ {c} : link'[d] = link[d]
       /\ link'[c].up /\ link'[c].buf = << >>
  BY <1>1, <1>2, <1>7
<1>11. link'[c].rep # << >> /\ Len(link'[c].rep) = 1 /\ Head(link'[c].rep) = r
  BY <1>9
<1>12. QED
  BY <1>4, <1>8, <1>10, <1>11

\* No reply, for the time being
LEMMA AnswersLater ==
  ASSUME Known, NEW t, NEW p, NEW c, Asking(t, p, c), NEW ms, Reads(c, ms),
         "element" \notin ms, "reference" \notin ms, Answer(c, << >>)
  PROVE  /\ \A d \in Conn \ {c} : link'[d] = link[d]
         /\ link'[c].up /\ link'[c].req = << >> /\ link'[c].buf = << >>
         /\ link'[c].rep = << >>
<1>1. c \in Conn /\ link[c].up /\ link[c].rep = << >>
  BY DEF Asking
<1>2. Len(link[c].req) = 1 /\ link[c].buf = << >>
  BY <1>1, Requester
<1>3. link[c].req # << >>
  BY <1>1, ReadFacts DEF Known
<1>4. RemoteTypes /\ << >> \in Seq(ReplyType)
  BY DEF Known, Conversation
<1>5. /\ \A d \in Conn \ {c} : link'[d] = link[d]
      /\ link'[c].up = link[c].up /\ link'[c].buf = link[c].buf
      /\ link'[c].req = Tail(link[c].req) /\ link'[c].rep = link[c].rep \o << >>
      /\ link[c] \in LinkType
  BY <1>1, <1>3, <1>4, AnswerFacts
<1>6. link'[c].req = << >>
  <2>1. link[c].req \in Seq(RequestType)
    BY <1>5 DEF LinkType
  <2>2. Tail(link[c].req) = << >>
    BY <1>2, <2>1, TailOne
  <2>3. QED
    BY <1>5, <2>2
<1>7. link'[c].rep = << >>
  <2>1. << >> \o << >> = << >>
    OBVIOUS
  <2>2. QED
    BY <1>1, <1>5, <2>1
<1>8. /\ \A d \in Conn \ {c} : link'[d] = link[d]
      /\ link'[c].up /\ link'[c].buf = << >>
  BY <1>1, <1>2, <1>5
<1>9. QED
  BY <1>6, <1>7, <1>8

\* GET32FIELD and ARYLOAD32 return what the history says.
LEMMA ServeGetContents ==
  ASSUME Known, NEW c \in Conn, ServeGet(c) \/ ServeArrayLoad(c), prog' = prog
  PROVE  Contents'
<1>1. Reads(c, {"get", "aload"}) /\ skel[c].obj # Null /\ UNCHANGED <<cvars, skel, heap, exported>>
  BY DEF ServeGet, ServeArrayLoad, Reads
<1>2. PICK t \in Thread, p \in Proxy : Asking(t, p, c) /\ Asked(c) = thr[t].op
  BY <1>1, Requester
<1>3. thr[t].op.m \in {"get", "aload"}
  BY <1>1, <1>2, Requester
<1>4. /\ thr[t].pc = "wait" /\ p = thr[t].p /\ c = sock[p] /\ skel[c].obj = Target[p]
      /\ Held(p) => \A j \in Cell : heap[Target[p]][j] = last[Target[p]][j]
      /\ Data(t, p) => Held(p)
      /\ thr[t].op \in AllOp /\ Target[p] \in Obj
  BY <1>1, <1>2, AskingFacts
<1>5. \A j \in Cell : heap[Target[p]][j] = last[Target[p]][j] /\ last[Target[p]][j] \in Val
  <2>1. Held(p)
    BY <1>3, <1>4 DEF Data
  <2>2. last \in [Obj -> [Cell -> Val]]
    BY DEF Known, Contents
  <2>3. QED
    BY <1>4, <2>1, <2>2
<1> DEFINE i == thr[t].op.i
           m == last[Target[p]]
           g == i \in Cell
           s == IF g THEN <<m[i]>> ELSE << >>
<1>6. i \in Int /\ (thr[t].op.m = "get" => i \in Cell)
  <2>1. thr[t].op \in OpType /\ (thr[t].op.m = "get" => i \in Cell)
    BY <1>4, OpFacts
  <2>2. QED
    BY <2>1 DEF OpType
<1>7. g \in BOOLEAN /\ s \in Seq(Val)
  BY <1>5
<1>8. Answer(c, <<Reply(g, s, Query(c))>>)
  <2>1. CASE ServeGet(c)
    <3>1. thr[t].op.m = "get"
      BY <1>2, <2>1 DEF ServeGet, Reads, Asked, Query
    <3>2. QED
      BY <1>2, <1>4, <1>5, <1>6, <2>1, <3>1 DEF ServeGet
  <2>2. CASE ServeArrayLoad(c)
    <3>1. CASE g
      BY <1>2, <1>4, <1>5, <2>2, <3>1 DEF ServeArrayLoad
    <3>2. CASE ~g
      <4>1. Answer(c, <<IF i \in Cell THEN Reply(TRUE, <<heap[skel[c].obj][i]>>, Query(c))
                        ELSE Reply(FALSE, << >>, Query(c))>>)
        BY <1>2, <2>2 DEF ServeArrayLoad
      <4>2. g = FALSE
        BY <3>2
      <4>3. QED
        BY <3>2, <4>1, <4>2
    <3>3. QED
      BY <3>1, <3>2
  <2>3. QED
    BY <1>1, <2>1, <2>2
<1> HIDE DEF g, s
<1>9. /\ \A d \in Conn \ {c} : link'[d] = link[d]
      /\ link'[c].up /\ link'[c].req = << >> /\ link'[c].buf = << >>
      /\ link'[c].rep # << >> /\ Len(link'[c].rep) = 1
  BY <1>1, <1>2, <1>7, <1>8, AnswersOne
<1>10. Head(link'[c].rep).ok = g
  BY <1>1, <1>2, <1>7, <1>8, AnswersOne
<1>11. Head(link'[c].rep).vals = s
  BY <1>1, <1>2, <1>7, <1>8, AnswersOne
<1>12. Size(thr[t].op) = 1
  BY <1>3 DEF Size
<1>13. g => i \in Cell /\ s = Contain(m, i, 1)
  <2>1. ASSUME g PROVE Contain(m, i, 1) = <<m[i]>>
    <3>1. Contain(m, i, 1) = [j \in 1 .. 1 |-> m[i + j - 1]]
      BY DEF Contain
    <3>2. i + 1 - 1 = i
      BY <1>6
    <3> HIDE DEF m, i
    <3>3. QED
      BY <3>1, <3>2
  <2>2. QED
    BY <2>1 DEF g, s
<1>14. Heard(thr[t], link'[c], skel'[c], m)
  <2>1. thr[t].op.m \notin {"load", "store", "copy"} /\ thr[t].pc # "elems"
    BY <1>3, <1>4
  <2> HIDE DEF m, i
  <2>2. g => i \in Cell /\ s = Contain(m, i, 1)
    BY <1>13
  <2>3. QED
    BY <1>10, <1>11, <1>12, <2>1, <2>2 DEF Heard, i
<1>15. Held(p) => \A j \in Cell : Settled(p, j)'
  <2>1. SUFFICES ASSUME Held(p), NEW j \in Cell PROVE Settled(p, j)'
    OBVIOUS
  <2>2. thr' = thr /\ sock' = sock /\ skel[c].st = "idle"
    BY <1>1, <1>2 DEF cvars, Asking
  <2>3. ~Done(t, p, j)' /\ ~Owed(p, j)'
    BY <1>1, <1>3, <1>4, <2>2 DEF Done, Owed
  <2>4. QED
    BY <1>1, <1>2, <2>1, <2>3, ServeSettled
<1>16. skel'[c].st = "idle" /\ skel'[c].obj = skel[c].obj
  BY <1>1, <1>2 DEF Asking
<1>17. QED
  BY <1>1, <1>2, <1>3, <1>9, <1>14, <1>15, <1>16, ServeContents

\* The thread of a reply, after the Skeleton has sent it
LEMMA RepliedFacts ==
  ASSUME Known, NEW t, NEW p, NEW c, Asking(t, p, c), UNCHANGED cvars, link'[c].rep # << >>
  PROVE  /\ UNCHANGED <<sock, thr, inside, last>>
         /\ Arrived(t, p)' /\ Answered(t)' = Head(link'[c].rep)
         /\ \A u \in Thread : Arrived(u, p)' => u = t
<1>1. UNCHANGED <<sock, thr, inside, last>>
  BY DEF cvars
<1>2. thr[t].pc = "wait" /\ p = thr[t].p /\ c = sock[p]
      /\ \A u \in Thread : thr[u].pc # "app" /\ thr[u].p = p => u = t
  BY AskingFacts
<1>3. Arrived(t, p)'
  BY <1>1, <1>2 DEF Arrived
<1>4. Answered(t)' = Head(link'[c].rep)
  BY <1>1, <1>2 DEF Answered, Wire
<1>5. \A u \in Thread : Arrived(u, p)' => u = t
  BY <1>1, <1>2 DEF Arrived
<1>6. QED
  BY <1>1, <1>3, <1>4, <1>5

\* A request is refused with an exception: nothing happens to the object.
LEMMA RefusedContents ==
  ASSUME Known, NEW t, NEW p, NEW c, Asking(t, p, c), NEW ms, Reads(c, ms),
         ms \subseteq {"put", "invoke", "astore", "copy"}, Asked(c) = thr[t].op,
         Answer(c, <<Reply(FALSE, << >>, Query(c))>>),
         UNCHANGED <<prog, cvars, skel, heap, exported>>
  PROVE  Contents'
<1>1. thr[t].op.m \in {"put", "invoke", "astore", "copy"} /\ c \in Conn
  BY Requester, ZenonT(60) DEF Asking
<1>2. /\ \A d \in Conn \ {c} : link'[d] = link[d]
      /\ link'[c].up /\ link'[c].req = << >> /\ link'[c].buf = << >>
      /\ link'[c].rep # << >>
  <2>1. << >> \in Seq(Val) /\ "element" \notin ms /\ "reference" \notin ms
    OBVIOUS
  <2>2. QED
    BY <2>1, AnswersOne
<1>3. Head(link'[c].rep).ok = FALSE
  <2>1. << >> \in Seq(Val) /\ "element" \notin ms /\ "reference" \notin ms
    OBVIOUS
  <2>2. QED
    BY <2>1, AnswersOne
<1>4. thr[t].pc = "wait" /\ skel[c].st = "idle" /\ c = sock[p]
  BY DEF Asking
<1>5. Heard(thr[t], link'[c], skel'[c], last[Target[p]])
  BY <1>1, <1>3, <1>4 DEF Heard
<1>6. Held(p) => \A j \in Cell : Settled(p, j)'
  <2>1. SUFFICES ASSUME Held(p), NEW j \in Cell PROVE Settled(p, j)'
    OBVIOUS
  <2>2. Answered(t)' = Head(link'[c].rep)
    BY <1>2, RepliedFacts
  <2>3. ~Done(t, p, j)'
    BY <1>3, <2>2 DEF Done
  <2>4. ~Owed(p, j)'
    BY <1>4 DEF Owed, cvars
  <2>5. QED
    BY <2>1, <2>3, <2>4, ServeSettled
<1>7. QED
  BY <1>1, <1>2, <1>4, <1>5, <1>6, ServeContents

\* PUT32FIELD replies before it writes.
LEMMA ServePutContents ==
  ASSUME Known, Reliable, NEW c \in Conn, ServePut(c), prog' = prog
  PROVE  Contents'
<1>1. Reads(c, {"put"}) /\ UNCHANGED <<cvars, heap, exported>>
  BY DEF ServePut
<1>2. PICK t \in Thread, p \in Proxy : Asking(t, p, c) /\ Asked(c) = thr[t].op
  BY <1>1, Requester
<1>3. thr[t].op.m = "put"
  BY <1>1, <1>2, Requester
<1>4. /\ thr[t].pc = "wait" /\ p = thr[t].p /\ c = sock[p]
      /\ Held(p) => \A j \in Cell : heap[Target[p]][j] = last[Target[p]][j]
      /\ thr[t].op \in AllOp /\ thr[t].op.m \in prog.ops
      /\ "expire" \notin prog.faults => skel[c].obj # Null
  BY <1>2, AskingFacts
<1>5. CASE Answer(c, <<Reply(FALSE, << >>, Query(c))>>) /\ UNCHANGED skel
  BY <1>1, <1>2, <1>5, RefusedContents
<1>6. CASE /\ Answer(c, <<Reply(TRUE, << >>, Query(c))>>)
           /\ skel' = [skel EXCEPT ![c].st = "put", ![c].op = Asked(c)]
  <2>1. << >> \in Seq(Val)
    OBVIOUS
  <2>2. /\ \A d \in Conn \ {c} : link'[d] = link[d]
        /\ link'[c].up /\ link'[c].req = << >> /\ link'[c].buf = << >>
        /\ link'[c].rep # << >>
    BY <1>1, <1>2, <1>6, <2>1, AnswersOne
  <2>3. Head(link'[c].rep).ok = TRUE
    BY <1>1, <1>2, <1>6, <2>1, AnswersOne
  <2>4. Head(link'[c].rep).vals = << >>
    BY <1>1, <1>2, <1>6, <2>1, AnswersOne
  <2>5. skel[c].obj # Null
    <3>1. prog \in Programs
      BY DEF Known, Conversation, RemoteTypes
    <3>2. QED
      BY <1>3, <1>4, <3>1 DEF Reliable
  <2>6. /\ \A d \in Conn \ {c} : skel'[d] = skel[d]
        /\ skel'[c].st = "put" /\ skel'[c].op = thr[t].op /\ skel'[c].obj = skel[c].obj
    <3>1. skel \in [Conn -> SkelType]
      BY DEF Known, Conversation, RemoteTypes
    <3>2. QED
      BY <1>2, <1>6, <3>1 DEF SkelType
  <2>7. Heard(thr[t], link'[c], skel'[c], last[Target[p]])
    <3>1. Size(thr[t].op) = 0
      BY <1>3 DEF Size
    <3>2. \A m, i : Contain(m, i, 0) = << >>
      BY DEF Contain
    <3>3. QED
      BY <1>3, <1>4, <2>4, <2>6, <3>1, <3>2 DEF Heard
  <2>8. Held(p) => \A j \in Cell : Settled(p, j)'
    <3>1. SUFFICES ASSUME Held(p), NEW j \in Cell PROVE Settled(p, j)'
      OBVIOUS
    <3>2. /\ UNCHANGED <<sock, thr, last>> /\ Arrived(t, p)' /\ Answered(t)' = Head(link'[c].rep)
          /\ \A u \in Thread : Arrived(u, p)' => u = t
      BY <1>1, <1>2, <2>2, RepliedFacts
    <3>3. Done(t, p, j)' <=> thr[t].op.i = j
      BY <1>3, <2>3, <3>2 DEF Done
    <3>4. \A u \in Thread : Done(u, p, j)' => u = t
      BY <3>2 DEF Done
    <3>5. Owed(p, j)' <=> thr[t].op.i = j
      BY <1>4, <2>6, <3>2, KnownTypes DEF Owed
    <3>6. thr[t].op.i = j => Eventual(p, j)' = thr[t].op.v
      BY <1>4, <2>6, <3>2, <3>5 DEF Eventual
    <3>7. thr[t].op.i # j => Eventual(p, j)' = last[Target[p]][j]
      BY <1>1, <1>4, <3>1, <3>5 DEF Eventual
    <3>8. QED
      BY <3>2, <3>3, <3>4, <3>6, <3>7 DEF Settled
  <2>9. Data(t, p)
    BY <1>3, <1>4 DEF Data
  <2>10. QED
    BY <1>1, <1>2, <1>3, <2>2, <2>5, <2>6, <2>7, <2>8, <2>9, ServeContents
<1>7. QED
  BY <1>5, <1>6 DEF ServePut

\* A cell is written, and the reply sent.
LEMMA WrittenContents ==
  ASSUME Known, NEW t, NEW p, NEW c, Asking(t, p, c), NEW ms, Reads(c, ms),
         ms \subseteq {"invoke", "astore"}, Asked(c) = thr[t].op, thr[t].op.i \in Cell,
         NEW s \in Seq(Val), s = Contain(last[Target[p]], thr[t].op.i, Size(thr[t].op)),
         Answer(c, <<Reply(TRUE, s, Query(c))>>),
         heap' = [heap EXCEPT ![Target[p]][thr[t].op.i] = thr[t].op.v],
         UNCHANGED <<prog, cvars, skel, exported>>
  PROVE  Contents'
<1>1. thr[t].op.m \in {"invoke", "astore"} /\ c \in Conn
  BY Requester, SMTT(30) DEF Asking
<1>2. "element" \notin ms /\ "reference" \notin ms
  OBVIOUS
<1>3. /\ \A d \in Conn \ {c} : link'[d] = link[d]
      /\ link'[c].up /\ link'[c].req = << >> /\ link'[c].buf = << >>
      /\ link'[c].rep # << >>
  BY <1>2, AnswersOne
<1>4. Head(link'[c].rep).ok = TRUE
  BY <1>2, AnswersOne
<1>5. Head(link'[c].rep).vals = s
  BY <1>2, AnswersOne
<1>6. thr[t].pc = "wait" /\ p = thr[t].p /\ skel[c].st = "idle" /\ c = sock[p]
  BY DEF Asking
<1>7. Target[p] \in Obj /\ (Held(p) => \A j \in Cell : heap[Target[p]][j] = last[Target[p]][j])
  BY AskingFacts
<1>8. /\ \A o \in Obj \ {Target[p]} : heap'[o] = heap[o]
      /\ \A j \in Cell : heap'[Target[p]][j] = IF j = thr[t].op.i THEN thr[t].op.v ELSE heap[Target[p]][j]
  <2>1. heap \in [Obj -> [Cell -> Val]]
    BY DEF Known, Conversation, RemoteTypes
  <2> DEFINE x == Target[p]
             i == thr[t].op.i
             v == thr[t].op.v
  <2>2. heap' = [heap EXCEPT ![x][i] = v] /\ i \in Cell /\ x \in Obj
    BY <1>7
  <2> HIDE DEF x, i, v
  <2>3. /\ \A o \in Obj \ {x} : heap'[o] = heap[o]
        /\ \A j \in Cell : heap'[x][j] = IF j = i THEN v ELSE heap[x][j]
    BY <2>1, <2>2
  <2>4. QED
    BY <2>3 DEF x, i, v
<1>9. Heard(thr[t], link'[c], skel'[c], last[Target[p]])
  BY <1>1, <1>5, <1>6 DEF Heard
<1>10. Held(p) => \A j \in Cell : Settled(p, j)'
  <2>1. SUFFICES ASSUME Held(p), NEW j \in Cell PROVE Settled(p, j)'
    OBVIOUS
  <2>2. /\ UNCHANGED <<sock, thr, last>> /\ Arrived(t, p)' /\ Answered(t)' = Head(link'[c].rep)
        /\ \A u \in Thread : Arrived(u, p)' => u = t
    BY <1>3, RepliedFacts
  <2>3. Done(t, p, j)' <=> thr[t].op.i = j
    BY <1>1, <1>4, <2>2 DEF Done
  <2>4. \A u \in Thread : Done(u, p, j)' => u = t
    BY <2>2 DEF Done
  <2>5. ~Owed(p, j)'
    BY <1>6, <2>2 DEF Owed
  <2>6. Eventual(p, j)' = IF j = thr[t].op.i THEN thr[t].op.v ELSE last[Target[p]][j]
    BY <1>7, <1>8, <2>1, <2>5 DEF Eventual
  <2>7. QED
    BY <2>2, <2>3, <2>4, <2>6 DEF Settled, Asking
<1>11. Data(t, p)
  BY <1>1, <1>6 DEF Data
<1>12. /\ skel'[c].obj = skel[c].obj /\ skel'[c].st = "idle"
       /\ \A d \in Conn \ {c} : link'[d] = link[d] /\ skel'[d] = skel[d]
       /\ thr[t].op.m \notin {"enter", "exit"} /\ thr[t].op.m # "close" /\ thr[t].op.m # "store"
  BY <1>1, <1>3, <1>6
<1>13. \A o \in Obj \ {Target[p]} : heap'[o] = heap[o]
  BY <1>8
<1>14. UNCHANGED <<prog, cvars, exported>>
  OBVIOUS
<1>15. QED
  BY <1>3, <1>9, <1>10, <1>11, <1>12, <1>13, <1>14, ServeContents

\* ARYSTORE32 and INVOKE
LEMMA ServeWriteContents ==
  ASSUME Known, NEW c \in Conn, ServeArrayStore(c) \/ ServeInvoke(c), prog' = prog
  PROVE  Contents'
<1>1. CASE ServeArrayStore(c)
  <2>1. Reads(c, {"astore"}) /\ skel[c].obj # Null /\ UNCHANGED <<cvars, skel, exported>>
    BY <1>1 DEF ServeArrayStore
  <2>2. PICK t \in Thread, p \in Proxy : Asking(t, p, c) /\ Asked(c) = thr[t].op
    BY <2>1, Requester
  <2>3. thr[t].op.m = "astore" /\ skel[c].obj = Target[p]
    BY <2>1, <2>2, Requester, AskingFacts
  <2>4. /\ heap' = IF thr[t].op.i \in Cell THEN [heap EXCEPT ![Target[p]][thr[t].op.i] = thr[t].op.v]
                   ELSE heap
        /\ Answer(c, <<Reply(thr[t].op.i \in Cell, << >>, Query(c))>>)
    BY <1>1, <2>2, <2>3 DEF ServeArrayStore
  <2>5. CASE thr[t].op.i \in Cell
    <3>1. heap' = [heap EXCEPT ![Target[p]][thr[t].op.i] = thr[t].op.v]
      BY <2>4, <2>5
    <3>2. (thr[t].op.i \in Cell) = TRUE
      BY <2>5
    <3>3. Answer(c, <<Reply(TRUE, << >>, Query(c))>>)
      BY <2>4, <3>2
    <3>4. << >> \in Seq(Val) /\ << >> = Contain(last[Target[p]], thr[t].op.i, Size(thr[t].op))
      BY <2>3 DEF Size, Contain
    <3>5. QED
      BY <2>1, <2>2, <2>5, <3>1, <3>3, <3>4, WrittenContents
  <2>6. CASE thr[t].op.i \notin Cell
    <3>1. (thr[t].op.i \in Cell) = FALSE
      BY <2>6
    <3>2. Answer(c, <<Reply(FALSE, << >>, Query(c))>>) /\ heap' = heap
      BY <2>4, <3>1
    <3>3. QED
      BY <2>1, <2>2, <3>2, RefusedContents
  <2>7. QED
    BY <2>5, <2>6
<1>2. CASE ServeInvoke(c)
  <2>1. Reads(c, {"invoke"}) /\ UNCHANGED <<cvars, skel, exported>>
    BY <1>2 DEF ServeInvoke
  <2>2. PICK t \in Thread, p \in Proxy : Asking(t, p, c) /\ Asked(c) = thr[t].op
    BY <2>1, Requester
  <2>3. thr[t].op.m = "invoke"
    BY <2>1, <2>2, Requester
  <2>4. /\ skel[c].obj # Null => skel[c].obj = Target[p]
        /\ Data(t, p) => Held(p)
        /\ Held(p) => \A j \in Cell : heap[Target[p]][j] = last[Target[p]][j]
        /\ thr[t].pc = "wait" /\ p = thr[t].p /\ thr[t].op \in AllOp /\ Target[p] \in Obj
    BY <2>2, AskingFacts
  <2>5. CASE Answer(c, <<Reply(FALSE, << >>, Query(c))>>) /\ UNCHANGED heap
    BY <2>1, <2>2, <2>5, RefusedContents
  <2>6. CASE /\ skel[c].obj # Null
             /\ heap' = [heap EXCEPT ![skel[c].obj][Asked(c).i] = Asked(c).v]
             /\ Answer(c, <<Reply(TRUE, <<heap[skel[c].obj][Asked(c).i]>>, Query(c))>>)
    <3> DEFINE i == thr[t].op.i
               m == last[Target[p]]
    <3>1. i \in Cell
      BY <2>3, <2>4, OpFacts
    <3>2. Held(p)
      BY <2>3, <2>4 DEF Data
    <3>3. heap[Target[p]][i] = m[i]
      BY <2>4, <3>1, <3>2
    <3>4. m[i] \in Val
      <4>1. last \in [Obj -> [Cell -> Val]]
        BY DEF Known, Contents
      <4>2. QED
        BY <2>4, <3>1, <4>1
    <3>5. Answer(c, <<Reply(TRUE, <<m[i]>>, Query(c))>>)
      BY <2>2, <2>4, <2>6, <3>3
    <3>6. heap' = [heap EXCEPT ![Target[p]][i] = thr[t].op.v]
      BY <2>2, <2>4, <2>6
    <3>7. <<m[i]>> \in Seq(Val)
      BY <3>4
    <3>8. <<m[i]>> = Contain(m, i, Size(thr[t].op))
      <4>1. Size(thr[t].op) = 1
        BY <2>3 DEF Size
      <4>2. i + 1 - 1 = i
        BY <3>1, RemoteAssumption DEF Cell
      <4>3. Contain(m, i, 1) = [j \in 1 .. 1 |-> m[i + j - 1]]
        BY DEF Contain
      <4> HIDE DEF m, i
      <4>4. Contain(m, i, 1) = <<m[i]>>
        BY <4>2, <4>3
      <4>5. QED
        BY <4>1, <4>4
    <3>9. QED
      BY <2>1, <2>2, <3>1, <3>5, <3>6, <3>7, <3>8, WrittenContents
  <2>7. QED
    BY <1>2, <2>5, <2>6 DEF ServeInvoke
<1>3. QED
  BY <1>1, <1>2

\* CLOSE is answered, and run() ends.
LEMMA ServeCloseContents ==
  ASSUME Known, NEW c \in Conn, ServeClose(c), prog' = prog
  PROVE  Contents'
<1>1. /\ Reads(c, {"close"}) /\ UNCHANGED <<cvars, heap, exported>>
      /\ Answer(c, <<Reply(TRUE, << >>, Query(c))>>)
      /\ skel' = [skel EXCEPT ![c] = NoSkel]
  BY DEF ServeClose
<1>2. PICK t \in Thread, p \in Proxy : Asking(t, p, c) /\ Asked(c) = thr[t].op
  BY <1>1, Requester
<1>3. thr[t].op.m = "close" /\ thr[t].pc = "wait"
  BY <1>1, <1>2, Requester DEF Asking
<1>4. << >> \in Seq(Val)
  OBVIOUS
<1>5. /\ \A d \in Conn \ {c} : link'[d] = link[d]
      /\ link'[c].rep # << >>
  BY <1>1, <1>2, <1>4, AnswersOne
<1>6. Head(link'[c].rep).vals = << >>
  BY <1>1, <1>2, <1>4, AnswersOne
<1>7. /\ \A d \in Conn \ {c} : skel'[d] = skel[d]
      /\ skel'[c].st = "gone"
  <2>1. skel \in [Conn -> SkelType]
    BY DEF Known, Conversation, RemoteTypes
  <2>2. QED
    BY <1>1, <2>1, NoSkelFacts
<1>8. Heard(thr[t], link'[c], skel'[c], last[Target[p]])
  <2>1. Size(thr[t].op) = 0
    BY <1>3 DEF Size
  <2>2. \A m, i : Contain(m, i, 0) = << >>
    BY DEF Contain
  <2>3. QED
    BY <1>3, <1>6, <2>1, <2>2 DEF Heard
<1>9. Held(p) => \A j \in Cell : Settled(p, j)'
  <2>1. SUFFICES ASSUME Held(p), NEW j \in Cell PROVE Settled(p, j)'
    OBVIOUS
  <2>2. thr' = thr /\ sock' = sock /\ c = sock[p]
    BY <1>1, <1>2 DEF cvars, Asking
  <2>3. ~Done(t, p, j)' /\ ~Owed(p, j)'
    BY <1>3, <1>7, <2>2 DEF Done, Owed
  <2>4. QED
    BY <1>1, <1>2, <2>1, <2>3, ServeSettled
<1>10. QED
  BY <1>1, <1>2, <1>3, <1>5, <1>7, <1>8, <1>9, ServeContents

\* MONITORENTER waits for the monitor.
LEMMA ServeEnterContents ==
  ASSUME Known, NEW c \in Conn, ServeEnter(c), prog' = prog
  PROVE  Contents'
<1>1. /\ Reads(c, {"enter"}) /\ UNCHANGED <<cvars, heap, exported>>
      /\ Answer(c, << >>)
      /\ skel' = [skel EXCEPT ![c].st = "enter", ![c].q = Query(c)]
  BY DEF ServeEnter
<1>2. PICK t \in Thread, p \in Proxy : Asking(t, p, c) /\ Asked(c) = thr[t].op
  BY <1>1, Requester
<1>3. /\ thr[t].op.m = "enter" /\ thr[t].pc = "wait" /\ p = thr[t].p /\ c = sock[p]
      /\ link[c].rep = << >> /\ p # Null
  BY <1>1, <1>2, Requester, KnownTypes DEF Asking
<1>4. /\ \A d \in Conn \ {c} : link'[d] = link[d]
      /\ link'[c].up /\ link'[c].req = << >> /\ link'[c].buf = << >>
      /\ link'[c].rep = << >>
  BY <1>1, <1>2, AnswersLater
<1>5. /\ \A d \in Conn \ {c} : skel'[d] = skel[d]
      /\ skel'[c].st = "enter" /\ skel'[c].obj = skel[c].obj
  <2>1. skel \in [Conn -> SkelType]
    BY DEF Known, Conversation, RemoteTypes
  <2>2. QED
    BY <1>1, <2>1 DEF SkelType
<1>6. ~Entered(t, p)
  <2>1. inside[t] = Null
    BY <1>3 DEF Known, Monitors, UserOK
  <2>2. QED
    BY <1>3, <2>1 DEF Entered, In
<1>7. Heard(thr[t], link'[c], skel'[c], last[Target[p]])
  BY <1>3, <1>4, <1>5 DEF Heard
<1>8. Held(p) => \A j \in Cell : Settled(p, j)'
  <2>1. SUFFICES ASSUME Held(p), NEW j \in Cell PROVE Settled(p, j)'
    OBVIOUS
  <2>2. thr' = thr /\ sock' = sock
    BY <1>1 DEF cvars
  <2>3. ~Done(t, p, j)' /\ ~Owed(p, j)'
    BY <1>3, <1>5, <2>2 DEF Done, Owed
  <2>4. QED
    BY <1>1, <1>2, <2>1, <2>3, ServeSettled
<1>9. QED
  BY <1>1, <1>2, <1>4, <1>5, <1>6, <1>7, <1>8, ServeContents

\* An access to an object that is no longer exported ends run().
LEMMA NullAccessContents ==
  ASSUME Known, NEW c \in Conn, NullAccess(c), prog' = prog
  PROVE  Contents'
<1> DEFINE ms == {"get", "aload", "astore", "enter", "exit", "copy", "load", "store"}
<1>1. /\ UNCHANGED <<cvars, heap, exported>> /\ skel[c].obj = Null
      /\ skel' = [skel EXCEPT ![c] = NoSkel]
      /\ link' = [link EXCEPT ![c] = [@ EXCEPT !.up = FALSE, !.req = << >>, !.buf = << >>]]
  BY DEF NullAccess, End
<1>2. Reads(c, ms)
  <2>1. WorkOK(c)
    BY DEF Known, Contents
  <2>2. skel[c].st # "put"
    BY <1>1, <2>1 DEF WorkOK
  <2>3. QED
    BY <2>2 DEF NullAccess
<1>3. PICK t \in Thread, p \in Proxy : Asking(t, p, c)
  <2>1. "element" \notin ms /\ "reference" \notin ms
    OBVIOUS
  <2> HIDE DEF ms
  <2>2. QED
    BY <1>2, <2>1, Requester
<1>4. thr[t].pc = "wait" /\ p = thr[t].p /\ c = sock[p] /\ link[c].rep = << >>
  BY <1>3 DEF Asking
<1>5. /\ \A d \in Conn \ {c} : link'[d] = link[d] /\ skel'[d] = skel[d]
      /\ link'[c].rep = << >> /\ skel'[c].st = "gone"
  <2>1. skel \in [Conn -> SkelType] /\ link \in [Conn -> LinkType]
    BY DEF Known, Conversation, RemoteTypes
  <2>2. /\ \A d \in Conn \ {c} : skel'[d] = skel[d]
        /\ skel'[c].st = "gone"
    BY <1>1, <2>1, NoSkelFacts
  <2>3. /\ \A d \in Conn \ {c} : link'[d] = link[d]
        /\ link'[c].rep = link[c].rep
    BY <1>1, <2>1 DEF LinkType
  <2>4. QED
    BY <1>4, <2>2, <2>3
<1>6. ~Entered(t, p)
  <2>1. Entered(t, p) => skel[c].obj = Target[p]
    BY <1>4 DEF Known, Monitors, Owned
  <2>2. Target[p] # Null
    BY KnownTypes, RemoteAssumption
  <2>3. QED
    BY <1>1, <2>1, <2>2
<1>7. Heard(thr[t], link'[c], skel'[c], last[Target[p]])
  <2>1. Len(<< >>) = 0 /\ \A j \in 2 .. 0 : FALSE
    OBVIOUS
  <2>2. QED
    BY <1>4, <1>5, <2>1 DEF Heard
<1>8. Held(p) => \A j \in Cell : Settled(p, j)'
  <2>1. SUFFICES ASSUME Held(p), NEW j \in Cell PROVE Settled(p, j)'
    OBVIOUS
  <2>2. thr' = thr /\ sock' = sock
    BY <1>1 DEF cvars
  <2>3. ~Done(t, p, j)' /\ ~Owed(p, j)'
    BY <1>4, <1>5, <2>2 DEF Done, Arrived, Owed
  <2>4. QED
    BY <1>1, <1>3, <2>1, <2>3, ServeSettled
<1>9. QED
  BY <1>1, <1>3, <1>5, <1>6, <1>7, <1>8, ServeContents

\* Of the accesses to it that are answered, there are copies only.
LEMMA NullAnsweredContents ==
  ASSUME Known, Reliable, NEW c \in Conn, NullAnswered(c), prog' = prog
  PROVE  Contents'
<1>1. skel[c].obj = Null /\ UNCHANGED <<prog, cvars, skel, heap, exported>>
  BY DEF NullAnswered
<1>2. prog \in Programs
  BY DEF Known, Conversation, RemoteTypes
<1>3. ASSUME NEW m \in {"aload", "astore"}, Reads(c, {m}) PROVE FALSE
  <2>1. "element" \notin {m} /\ "reference" \notin {m}
    OBVIOUS
  <2>2. PICK t \in Thread, p \in Proxy : Asking(t, p, c) /\ Asked(c) = thr[t].op
    BY <1>3, <2>1, Requester
  <2>3. thr[t].op.m = m
    BY <1>3, <2>2 DEF Reads, Asked, Query
  <2>4. thr[t].op.m \in prog.ops /\ "expire" \in prog.faults
    BY <1>1, <2>2, AskingFacts
  <2>5. QED
    BY <1>2, <2>3, <2>4 DEF Reliable
<1>4. Reads(c, {"copy"}) /\ Answer(c, <<Reply(FALSE, << >>, Query(c))>>)
  BY <1>3 DEF NullAnswered
<1>5. PICK t \in Thread, p \in Proxy : Asking(t, p, c) /\ Asked(c) = thr[t].op
  BY <1>4, Requester
<1>6. QED
  BY <1>1, <1>4, <1>5, RefusedContents

\* A block operation begins.
LEMMA ServeBlockContents ==
  ASSUME Known, NEW c \in Conn, ServeBlock(c), prog' = prog
  PROVE  Contents'
<1>1. /\ Reads(c, {"copy", "load", "store"}) /\ UNCHANGED <<cvars, heap, exported>>
      /\ skel' = IF Count(Asked(c)) = 0 THEN skel
                 ELSE [skel EXCEPT ![c].st = "block", ![c].op = Asked(c), ![c].q = Query(c)]
      /\ Answer(c, IF Asked(c).m = "copy" /\ Count(Asked(c)) > 0 THEN << >>
                   ELSE <<Reply(TRUE, << >>, Query(c))>>)
  BY DEF ServeBlock
<1>2. PICK t \in Thread, p \in Proxy : Asking(t, p, c) /\ Asked(c) = thr[t].op
  BY <1>1, Requester
<1>3. thr[t].op.m \in {"copy", "load", "store"}
  BY <1>1, <1>2, Requester
<1>4. /\ thr[t].pc = "wait" /\ p = thr[t].p /\ c = sock[p] /\ skel[c].st = "idle"
      /\ link[c].rep = << >>
  BY <1>2 DEF Asking
<1> DEFINE op == thr[t].op
           n == Count(op)
           m == last[Target[p]]
<1>5. n \in Nat
  <2>1. Asks(Query(c), Replies(Query(c).op)) /\ Query(c).op = op
    <3>1. link[c].req # << >> /\ ~IsElement(Query(c)) /\ Asked(c) = Query(c).op
      BY <1>1, ReadFacts DEF Known
    <3>2. Query(c) \in RequestType /\ op \in AllOp /\ ~Refused(op)
      BY <1>1, <1>2, ReadFacts, AskingFacts DEF Known
    <3>3. Query(c).op = op
      BY <1>2, <3>1
    <3>4. Replies(op) \in Nat
      <4>1. op \in OpType
        BY <3>2, OpFacts
      <4>2. op.n \in Int
        BY <4>1 DEF OpType
      <4>3. op.m = "load" => ~(op.n < 0)
        BY <3>2 DEF Refused
      <4>4. op.m = "load" => op.n >= 0
        BY <4>2, <4>3
      <4>5. QED
        BY <4>2, <4>4 DEF Replies
    <3>5. Replies(op) <= Replies(op)
      BY <3>4
    <3>6. QED
      BY <3>2, <3>3, <3>4, <3>5 DEF Asks
  <2>2. QED
    BY <1>3, <2>1, AskFacts
<1>6. SkelOK(skel[c]) /\ skel[c] \in SkelType /\ skel \in [Conn -> SkelType]
  BY DEF Known, Conversation, RemoteTypes, ConnOK
<1>7. skel[c].k = 0 /\ skel[c].got = << >>
  BY <1>4, <1>6 DEF SkelOK
<1>8. thr' = thr /\ sock' = sock
  BY <1>1 DEF cvars
<1> DEFINE K == skel'[c]
<1>9. /\ \A d \in Conn \ {c} : skel'[d] = skel[d]
      /\ K.obj = skel[c].obj /\ K.k = 0 /\ K.got = << >>
      /\ n = 0 => K.st = "idle"
      /\ n # 0 => K.st = "block" /\ K.op = op
  BY <1>1, <1>2, <1>4, <1>6, <1>7 DEF SkelType
<1>10. Data(t, p)
  BY <1>3, <1>4 DEF Data
<1>11. /\ \A d \in Conn \ {c} : link'[d] = link[d]
       /\ link'[c].up /\ link'[c].req = << >> /\ link'[c].buf = << >>
       /\ \/ link'[c].rep = << >> /\ op.m = "copy" /\ n # 0
          \/ /\ link'[c].rep # << >> /\ Len(link'[c].rep) = 1 /\ Head(link'[c].rep).vals = << >>
             /\ op.m # "copy" \/ n = 0
  <2>1. CASE op.m = "copy" /\ n > 0
    <3>1. Answer(c, << >>)
      BY <1>1, <1>2, <2>1
    <3>2. /\ \A d \in Conn \ {c} : link'[d] = link[d]
          /\ link'[c].up /\ link'[c].req = << >> /\ link'[c].buf = << >>
          /\ link'[c].rep = << >>
      BY <1>1, <1>2, <3>1, AnswersLater
    <3>3. QED
      BY <1>5, <2>1, <3>2
  <2>2. CASE ~(op.m = "copy" /\ n > 0)
    <3>1. Answer(c, <<Reply(TRUE, << >>, Query(c))>>) /\ << >> \in Seq(Val)
      BY <1>1, <1>2, <2>2
    <3>2. /\ \A d \in Conn \ {c} : link'[d] = link[d]
          /\ link'[c].up /\ link'[c].req = << >> /\ link'[c].buf = << >>
          /\ link'[c].rep # << >> /\ Len(link'[c].rep) = 1
      BY <1>1, <1>2, <3>1, AnswersOne
    <3>3. Head(link'[c].rep).vals = << >>
      BY <1>1, <1>2, <3>1, AnswersOne
    <3>4. op.m # "copy" \/ n = 0
      BY <1>5, <2>2
    <3>5. QED
      BY <3>2, <3>3, <3>4
  <2>3. QED
    BY <2>1, <2>2
<1> HIDE DEF n, m, K
<1>12. Heard(thr[t], link'[c], K, m)
  <2>1. \A j : << >> = Contain(m, j, 0)
    BY DEF Contain
  <2>2. op.m = "copy" => Size(op) = n
    BY DEF Size, n
  <2>3. \A j \in 2 .. 1 : FALSE
    OBVIOUS
  <2>4. CASE op.m = "copy"
    BY <1>4, <1>9, <1>11, <2>1, <2>2, <2>4, SMTT(30) DEF Heard
  <2>5. CASE op.m # "copy"
    BY <1>3, <1>4, <1>11, <2>3, <2>5 DEF Heard
  <2>6. QED
    BY <2>4, <2>5
<1>13. Held(p) => \A j \in Cell : Settled(p, j)'
  <2>1. SUFFICES ASSUME Held(p), NEW j \in Cell PROVE Settled(p, j)'
    OBVIOUS
  <2>2. ~Done(t, p, j)'
    BY <1>3, <1>8 DEF Done
  <2>3. ~Owed(p, j)'
    <3>1. CASE K.st = "block" /\ op.m = "store"
      <4>1. Arrived(t, p)'
        BY <1>4, <1>8, <1>11, <3>1 DEF Arrived
      <4>2. Begun(p)'
        BY <1>8, <3>1, <4>1 DEF Begun
      <4>3. QED
        BY <1>4, <1>8, <3>1, <4>2 DEF Owed, K
    <3>2. CASE K.st = "block" /\ op.m # "store"
      BY <1>4, <1>8, <1>9, <3>2 DEF Owed, K
    <3>3. CASE K.st # "block"
      BY <1>4, <1>8, <1>9, <3>3 DEF Owed, K
    <3>4. QED
      BY <3>1, <3>2, <3>3
  <2>4. QED
    BY <1>1, <1>2, <2>1, <2>2, <2>3, ServeSettled
<1>14. \A d \in Conn \ {c} : link'[d] = link[d] /\ skel'[d] = skel[d]
  BY <1>9, <1>11
<1>15. op.m \notin {"enter", "exit"} /\ op.m # "close"
  BY <1>3
<1>16. op.m = "store" => K.st # "gone" /\ (K.st = "block" => K.op = op /\ K.k = 0)
  BY <1>9
<1>17. /\ K.obj = skel[c].obj /\ link'[c].up
       /\ link'[c].req = << >> /\ link'[c].buf = << >>
       /\ K.st # "put"
  BY <1>9, <1>11
<1>18. QED
  BY <1>1, <1>2, <1>10, <1>12, <1>13, <1>14, <1>15, <1>16, <1>17, ServeContents DEF K, m

\* REFERENCE gives the Skeleton its object.
LEMMA ServeReferenceContents ==
  ASSUME Known, NEW c \in Conn, ServeReference(c), prog' = prog
  PROVE  Contents'
<1> DEFINE o == Target[CHOOSE p \in Proxy : sock[p] = c]
<1>1. /\ Reads(c, {"reference"}) /\ UNCHANGED <<cvars, heap, exported>>
      /\ skel' = [skel EXCEPT ![c].obj = IF o \in exported THEN o ELSE Null]
      /\ Answer(c, <<Reply(o \in exported, << >>, Query(c))>>)
  BY DEF ServeReference
<1>2. /\ skel[c].st = "idle" /\ link[c].up /\ link[c].req # << >> /\ ~IsElement(Query(c))
      /\ Asked(c).m = "reference" /\ Asked(c) = Query(c).op
  BY <1>1 DEF Reads, IsElement, Query, Asked
<1>3. PICK t \in Thread : Waiting(t, c) /\ Query(c) = Mine(t) /\ Asks(Query(c), Left(t))
  BY <1>2, Asker DEF Known
<1>4. thr[t].pc = "ref"
  <2>1. SUFFICES ASSUME thr[t].pc # "ref" PROVE FALSE
    OBVIOUS
  <2>2. Query(c).op = thr[t].op /\ thr[t].pc # "app"
    BY <1>3, <2>1 DEF Mine, Request, Waiting
  <2>3. thr[t].op.m \in OpNames
    BY <2>2, KnownTypes, OpFacts DEF ThrOK
  <2>4. QED
    BY <1>2, <2>2, <2>3 DEF OpNames
<1>5. PICK p \in Proxy : p = thr[t].p /\ c = sock[p]
  <2>1. thr[t].p \in Proxy
    BY <1>4, KnownTypes DEF ThrOK
  <2>2. QED
    BY <1>3, <2>1 DEF Waiting
<1>6. \A q \in Proxy : sock[q] = c => q = p
  BY <1>5, KnownTypes
<1>7. o = Target[p] /\ o \in Obj
  BY <1>5, <1>6, KnownTypes
<1>8. UNCHANGED <<sock, thr, inside, last>>
  BY <1>1 DEF cvars
<1>9. \A u \in Thread : thr[u].pc # "app" /\ thr[u].p = p => u = t
  BY <1>4, <1>5, OneUser DEF Known
<1>10. /\ RemoteTypes /\ WorkOK(c) /\ skel[c] \in SkelType /\ ("expire" \notin prog.faults => exported = Obj)
       /\ link[c] \in LinkType /\ skel \in [Conn -> SkelType]
  BY DEF Known, Conversation, Contents, RemoteTypes
<1>11. \A d \in Conn \ {c} : link'[d] = link[d]
  BY <1>1, <1>10, AnswerKeeps
<1>12. link'[c].up
  BY <1>1, <1>2, <1>10, AnswerKeeps
<1>13. /\ \A d \in Conn \ {c} : skel'[d] = skel[d]
       /\ skel'[c].st = "idle"
       /\ skel'[c].obj = Null => o \notin exported
  <2> HIDE DEF o
  <2>1. o # Null
    BY <1>7, RemoteAssumption
  <2>2. QED
    BY <1>1, <1>2, <1>10, <2>1 DEF SkelType
<1>14. \A u \in Thread : ~Arrived(u, p) /\ ~Arrived(u, p)'
  BY <1>4, <1>8, <1>9 DEF Arrived
<1>15. \A u \in Thread : Entered(u, p)' <=> Entered(u, p)
  BY <1>4, <1>8, <1>9 DEF Entered, In
<1>16. Held(p)' <=> Held(p)
  BY <1>15 DEF Held, Sole
<1>17. ReadOK(t)' /\ CallOK(t)'
  <2>1. CallOK(t)
    BY DEF Known, Contents
  <2>2. QED
    BY <1>4, <1>8, <2>1 DEF ReadOK, Heard, CallOK
<1>18. WorkOK(c)'
  BY <1>7, <1>10, <1>12, <1>13 DEF WorkOK
<1>19. Held(p) => \A j \in Cell : Settled(p, j)'
  <2>1. SUFFICES ASSUME Held(p), NEW j \in Cell PROVE Settled(p, j)'
    OBVIOUS
  <2>2. Settled(p, j)
    BY <2>1 DEF Known, Contents
  <2>3. \A u \in Thread : ~Done(u, p, j) /\ ~Done(u, p, j)'
    BY <1>14 DEF Done
  <2>4. ~Owed(p, j) /\ ~Owed(p, j)'
    BY <1>2, <1>5, <1>8, <1>13 DEF Owed
  <2>5. QED
    BY <1>1, <1>8, <2>2, <2>3, <2>4 DEF Settled, Eventual
<1>20. \A u \in Thread : thr[u].pc # "app" /\ thr[u].p = p => ReadOK(u)' /\ CallOK(u)'
  BY <1>9, <1>17
<1> HIDE DEF o
<1>21. QED
  BY <1>1, <1>5, <1>11, <1>13, <1>16, <1>18, <1>19, <1>20, SkeletonContents


\* The Skeleton works without a reply, or with one that does not matter to the
\* monitor: what is held stays so.
LEMMA HeldKeeps ==
  ASSUME Known, NEW p \in Proxy, NEW c \in Conn, c = sock[p], UNCHANGED cvars,
         \/ link'[c].rep = << >> <=> link[c].rep = << >>
         \/ \A u \in Thread : thr[u].pc = "wait" /\ thr[u].p = p => thr[u].op.m \notin {"enter", "exit"}
  PROVE  Held(p)' <=> Held(p)
<1>1. UNCHANGED <<sock, thr, inside>>
  BY DEF cvars
<1>2. ASSUME NEW u \in Thread PROVE Entered(u, p)' <=> Entered(u, p)
  BY <1>1 DEF Entered, In
<1>3. QED
  BY <1>2 DEF Held, Sole

\* The field is written, as the reply has promised.
LEMMA PutContents ==
  ASSUME Known, NEW c \in Conn, Put(c), prog' = prog
  PROVE  Contents'
<1> DEFINE K == skel[c]
<1>1. /\ K.st = "put" /\ K.obj # Null /\ UNCHANGED <<cvars, link, exported>>
      /\ heap' = [heap EXCEPT ![K.obj][K.op.i] = K.op.v]
      /\ skel' = [skel EXCEPT ![c].st = "idle", ![c].op = NoOp]
  BY DEF Put
<1>2. /\ skel \in [Conn -> SkelType] /\ heap \in [Obj -> [Cell -> Val]]
      /\ SkelOK(K) /\ K \in SkelType
  BY DEF Known, Conversation, RemoteTypes, ConnOK
<1>3. K.op.i \in Cell /\ K.op.v \in Val
  BY <1>1, <1>2 DEF SkelOK
<1>4. link[c].up /\ \E p \in Proxy : c = sock[p]
  BY <1>1, ServedFacts
<1>5. PICK p \in Proxy : c = sock[p]
  BY <1>4
<1>6. Held(p) /\ K.obj = Target[p] /\ Target[p] \in Obj
  <2>1. WorkOK(c)
    BY DEF Known, Contents
  <2>2. Held(p)
    BY <1>1, <1>5, <2>1 DEF WorkOK
  <2>3. K.obj = Target[p]
    BY <1>1, <1>5, SameServer DEF Known
  <2>4. QED
    BY <2>2, <2>3, KnownTypes
<1>7. /\ skel'[c].st = "idle" /\ skel'[c].obj = K.obj
      /\ \A d \in Conn \ {c} : skel'[d] = skel[d]
  BY <1>1, <1>2 DEF SkelType
<1>8. /\ \A o \in Obj \ {Target[p]} : heap'[o] = heap[o]
      /\ \A j \in Cell : heap'[Target[p]][j] = IF j = K.op.i THEN K.op.v ELSE heap[Target[p]][j]
  BY <1>1, <1>2, <1>3, <1>6
<1>9. UNCHANGED <<sock, thr, inside, last>>
  BY <1>1 DEF cvars
<1>10. Held(p)' <=> Held(p)
  BY <1>1, <1>5, HeldKeeps
<1>11. ASSUME NEW j \in Cell PROVE Settled(p, j)'
  <2>1. Settled(p, j)
    BY <1>6 DEF Known, Contents
  <2>2. \A u \in Thread : Done(u, p, j)' <=> Done(u, p, j)
    BY <1>1, <1>9 DEF Done, Arrived, Answered, Wire
  <2>3. Owed(p, j) <=> K.op.i = j
    BY <1>1, <1>5, KnownTypes DEF Owed
  <2>4. ~Owed(p, j)'
    BY <1>5, <1>7, <1>9 DEF Owed
  <2>5. Eventual(p, j)' = Eventual(p, j)
    BY <1>5, <1>8, <2>3, <2>4 DEF Eventual
  <2>6. QED
    BY <1>9, <2>1, <2>2, <2>5 DEF Settled
<1>12. ASSUME NEW u \in Thread, thr[u].pc # "app", thr[u].p = p
       PROVE  ReadOK(u)' /\ CallOK(u)'
  <2>1. ReadOK(u) /\ CallOK(u)
    BY DEF Known, Contents
  <2>2. ReadOK(u)'
    BY <1>1, <1>5, <1>7, <1>9, <1>12, <2>1 DEF ReadOK, Heard
  <2>3. CallOK(u)'
    BY <1>1, <1>5, <1>7, <1>9, <1>12, <2>1 DEF CallOK
  <2>4. QED
    BY <2>2, <2>3
<1>13. WorkOK(c)'
  BY <1>1, <1>4, <1>7 DEF WorkOK
<1>14. QED
  BY <1>1, <1>5, <1>6, <1>7, <1>8, <1>10, <1>11, <1>12, <1>13, SkeletonContents

\* No thread has yet to write the elements once they arrive.
LEMMA ElementsBegun ==
  ASSUME Known, NEW p \in Proxy, NEW c \in Conn, c = sock[p], skel[c].st = "block", link[c].up,
         link[c].req # << >>, Asked(c).m = "element"
  PROVE  ~Begun(p)
<1> DEFINE K == skel[c]
<1>1. SUFFICES ASSUME NEW t \in Thread, Arrived(t, p), thr[t].op.m = "store" PROVE FALSE
  BY DEF Begun
<1>2. thr[t].pc = "wait" /\ thr[t].p = p /\ link[c].rep # << >> /\ ~Refused(thr[t].op) /\ thr[t].op \in AllOp
  BY <1>1, KnownTypes DEF Arrived, ThrOK
<1>3. K.op = thr[t].op /\ K.k = 0
  <2>1. CallOK(t)
    BY DEF Known, Contents
  <2>2. QED
    BY <1>1, <1>2, <2>1 DEF CallOK
<1>4. Mine(t) = Request(t, thr[t].op) /\ Waiting(t, c)
  BY <1>2 DEF Mine, Waiting
<1>5. Waited(link[c], K, Mine(t), Left(t))
  BY <1>4 DEF Known, Conversation, ConnOK
<1>6. ToWrite(link[c], Mine(t)) = thr[t].op.n
  BY <1>1, <1>2, <1>4 DEF ToWrite, Request
<1>7. Expected(K) = Count(thr[t].op)
  <2>1. Expected(K) = Count(K.op) - K.k
    BY <1>1, <1>3 DEF Expected
  <2>2. Count(thr[t].op) \in Int
    <3>1. thr[t].op \in OpType
      BY <1>2, OpFacts
    <3>2. QED
      BY <3>1, RemoteAssumption DEF OpType, Count
  <2>3. QED
    BY <1>3, <2>1, <2>2
<1>8. Count(thr[t].op) = thr[t].op.n /\ thr[t].op.n \in Int
  <2>1. Asks(Mine(t), Left(t))
    BY <1>4, WaiterAsks DEF Known, Conversation
  <2>2. Mine(t).op = thr[t].op
    BY <1>4 DEF Request
  <2>3. StoresFit
    BY DEF Known
  <2>4. QED
    BY <1>1, <2>1, <2>2, <2>3, AskFacts
<1> HIDE DEF K
<1>9. Len(link[c].req) = IF Unread(link[c]) THEN 1 ELSE 0
  <2> DEFINE e == Expected(K)
             w == ToWrite(link[c], Mine(t))
             l == Len(link[c].req)
             n == thr[t].op.n
  <2>1. Expected(K) = Len(link[c].req) - (IF Unread(link[c]) THEN 1 ELSE 0) + ToWrite(link[c], Mine(t))
    BY <1>5 DEF Waited, Known, K
  <2>2. Len(link[c].req) \in Nat
    BY KnownTypes DEF LinkType
  <2>3. e = n /\ w = n /\ n \in Int /\ l \in Nat
    BY <1>6, <1>7, <1>8, <2>2
  <2>4. e = l - (IF Unread(link[c]) THEN 1 ELSE 0) + w
    BY <2>1
  <2> HIDE DEF e, w, l, n
  <2>5. l = IF Unread(link[c]) THEN 1 ELSE 0
    BY <2>3, <2>4
  <2>6. QED
    BY <2>5 DEF l
<1>10. link[c].req \in Seq(RequestType) /\ Len(link[c].req) >= 1 /\ Head(link[c].req) = link[c].req[1]
  <2>1. link[c].req \in Seq(RequestType)
    BY KnownTypes DEF LinkType
  <2>2. QED
    BY <2>1, TailFacts
<1>11. Unread(link[c]) /\ Len(link[c].req) = 1
  BY <1>9, <1>10
<1>12. QED
  BY <1>10, <1>11 DEF Unread, IsElement, Asked, Query

LEMMA CarryTail ==
  ASSUME NEW s \in Seq(RequestType), s # << >>, NEW v, Carry(s, v)
  PROVE  /\ IsElement(Head(s)) => Head(s).op.v = v
         /\ Carry(Tail(s), v)
<1>1. /\ Len(s) \in Nat /\ Len(s) >= 1 /\ Head(s) = s[1]
      /\ Len(Tail(s)) = Len(s) - 1
      /\ \A i \in 1 .. Len(Tail(s)) : Tail(s)[i] = s[i + 1]
  BY TailFacts
<1>2. IsElement(Head(s)) => Head(s).op.v = v
  BY <1>1 DEF Carry
<1>3. ASSUME NEW i \in 1 .. Len(Tail(s)), IsElement(Tail(s)[i]) PROVE Tail(s)[i].op.v = v
  <2>1. Tail(s)[i] = s[i + 1] /\ i + 1 \in 1 .. Len(s)
    BY <1>1
  <2>2. QED
    BY <1>3, <2>1 DEF Carry
<1>4. QED
  BY <1>2, <1>3 DEF Carry

\* An element is written where the block store has come to, and is the value
\* that is to come there.
LEMMA BlockWriteContents ==
  ASSUME Known, NEW c \in Conn, BlockWrite(c), prog' = prog
  PROVE  Contents'
<1> DEFINE K == skel[c]
           x == K.op.i + K.k
<1>1. /\ K.st = "block" /\ K.op.m = "store" /\ link[c].up /\ link[c].req # << >>
      /\ Asked(c).m = "element" /\ UNCHANGED <<cvars, exported>>
      /\ heap' = [heap EXCEPT ![K.obj][x] = Asked(c).v]
  BY DEF BlockWrite
<1>2. /\ RemoteTypes /\ skel \in [Conn -> SkelType] /\ heap \in [Obj -> [Cell -> Val]]
      /\ SkelOK(K) /\ K \in SkelType /\ link[c] \in LinkType
  BY DEF Known, Conversation, RemoteTypes, ConnOK
<1>3. x \in Cell /\ K.obj \in Obj
  BY <1>1, <1>2, BlockCell
<1>4. PICK p \in Proxy : c = sock[p]
  BY <1>1, ServedFacts
<1>5. WorkOK(c)
  BY DEF Known, Contents
<1>6. Held(p) /\ K.obj = Target[p] /\ Target[p] \in Obj
  <2>1. Held(p)
    BY <1>1, <1>4, <1>5 DEF WorkOK
  <2>2. K.obj = Target[p]
    <3>1. K.obj # Null
      BY <1>3, RemoteAssumption
    <3>2. QED
      BY <1>1, <1>4, <3>1, SameServer DEF Known
  <2>3. QED
    BY <2>1, <2>2, KnownTypes
<1>7. Carry(link[c].req, K.op.v) /\ Carry(link[c].buf, K.op.v)
  BY <1>1, <1>5 DEF WorkOK
<1>8. link[c].req \in Seq(RequestType) /\ link[c].rep \in Seq(ReplyType)
  BY <1>2 DEF LinkType
<1>9. Asked(c).v = K.op.v /\ Carry(Tail(link[c].req), K.op.v)
  <2>1. (IsElement(Head(link[c].req)) => Head(link[c].req).op.v = K.op.v) /\ Carry(Tail(link[c].req), K.op.v)
    BY <1>1, <1>7, <1>8, CarryTail
  <2>2. QED
    BY <1>1, <2>1 DEF Asked, Query, IsElement
<1> DEFINE none == << >>
<1>10. none \in Seq(Val) /\ none \in Seq(ReplyType) /\ none = << >> /\ Answer(c, none) /\ Advance(c, none)
  BY DEF BlockWrite
<1> HIDE DEF none
<1>11. /\ \A d \in Conn \ {c} : skel'[d] = skel[d]
       /\ skel'[c].obj = K.obj
       /\ \/ skel'[c].st = "idle" /\ K.k + 1 = Count(K.op)
          \/ /\ K.k + 1 < Count(K.op)
             /\ skel'[c].st = "block" /\ skel'[c].op = K.op /\ skel'[c].k = K.k + 1
  BY <1>1, <1>2, <1>10, AdvanceFacts
<1>12. /\ \A d \in Conn \ {c} : link'[d] = link[d]
       /\ link'[c].up /\ link'[c].buf = link[c].buf
       /\ link'[c].req = Tail(link[c].req) /\ link'[c].rep = link[c].rep \o none
  BY <1>1, <1>2, <1>10, AnswerFacts
<1>13. link'[c].rep = link[c].rep
  BY <1>8, <1>10, <1>12, ConcatEmptySeq
<1>14. UNCHANGED <<sock, thr, inside, last>>
  BY <1>1 DEF cvars
<1>15. ~Begun(p) /\ ~Begun(p)'
  <2>1. ~Begun(p)
    BY <1>1, <1>4, ElementsBegun
  <2>2. Begun(p)' <=> Begun(p)
    BY <1>4, <1>13, <1>14 DEF Begun, Arrived
  <2>3. QED
    BY <2>1, <2>2
<1>16. /\ \A o \in Obj \ {Target[p]} : heap'[o] = heap[o]
       /\ \A j \in Cell : heap'[Target[p]][j] = IF j = x THEN K.op.v ELSE heap[Target[p]][j]
  BY <1>1, <1>2, <1>3, <1>6, <1>9
<1>17. K.k \in Nat /\ K.op.i \in Int /\ Count(K.op) \in Int
  BY <1>1, <1>2, RemoteAssumption DEF SkelType, OpType, Count
<1>18. Held(p)' <=> Held(p)
  BY <1>1, <1>4, <1>13, HeldKeeps
<1>19. ASSUME NEW j \in Cell PROVE Settled(p, j)'
  <2>1. Settled(p, j)
    BY <1>6 DEF Known, Contents
  <2>2. \A u \in Thread : Done(u, p, j)' <=> Done(u, p, j)
    BY <1>4, <1>13, <1>14 DEF Done, Arrived, Answered, Wire
  <2>3. Owed(p, j) <=> x <= j /\ j < K.op.i + Count(K.op)
    BY <1>1, <1>4, <1>15, KnownTypes DEF Owed
  <2>4. sock'[p] = c /\ c # Null /\ j \in Int
    BY <1>4, <1>14, KnownTypes DEF Cell
  <2>5. CASE skel'[c].st = "idle" /\ K.k + 1 = Count(K.op)
    <3>1. ~Owed(p, j)'
      BY <2>4, <2>5 DEF Owed
    <3>2. Owed(p, j) <=> j = x
      BY <1>17, <2>3, <2>4, <2>5
    <3>3. Eventual(p, j)' = Eventual(p, j)
      BY <1>4, <1>16, <3>1, <3>2 DEF Eventual
    <3>4. QED
      BY <1>14, <2>1, <2>2, <3>3 DEF Settled
  <2>6. CASE /\ K.k + 1 < Count(K.op)
             /\ skel'[c].st = "block" /\ skel'[c].op = K.op /\ skel'[c].k = K.k + 1
    <3>1. Owed(p, j)' <=> K.op.i + (K.k + 1) <= j /\ j < K.op.i + Count(K.op)
      BY <1>1, <1>15, <2>4, <2>6 DEF Owed
    <3>2. Owed(p, j)' <=> Owed(p, j) /\ j # x
      BY <1>17, <2>3, <2>4, <3>1
    <3>3. x <= x /\ x < K.op.i + Count(K.op)
      BY <1>17, <2>6
    <3>4. Eventual(p, j)' = Eventual(p, j)
      <4>1. CASE j = x
        BY <1>4, <1>16, <2>3, <3>2, <3>3, <4>1 DEF Eventual
      <4>2. CASE j # x
        BY <1>4, <1>16, <2>4, <2>6, <3>2, <4>2 DEF Eventual
      <4>3. QED
        BY <4>1, <4>2
    <3>5. QED
      BY <1>14, <2>1, <2>2, <3>4 DEF Settled
  <2>7. QED
    BY <1>11, <2>5, <2>6
<1>20. ASSUME NEW u \in Thread, thr[u].pc # "app", thr[u].p = p
       PROVE  ReadOK(u)' /\ CallOK(u)'
  <2>1. ReadOK(u) /\ CallOK(u)
    BY DEF Known, Contents
  <2>2. skel'[c].st = "block" => skel'[c].op.m = "store"
    BY <1>1, <1>11
  <2>3. ReadOK(u)'
    BY <1>4, <1>13, <1>14, <1>20, <2>1, <2>2 DEF ReadOK, Heard
  <2>4. thr[u].pc = "wait" /\ link[c].rep # << >> => thr[u].op.m # "store"
    BY <1>4, <1>15, <1>20 DEF Begun, Arrived
  <2>5. CallOK(u)'
    BY <1>1, <1>4, <1>13, <1>14, <1>20, <2>1, <2>4 DEF CallOK
  <2>6. QED
    BY <2>3, <2>5
<1>21. WorkOK(c)'
  <2>1. K.obj # Null
    BY <1>3, RemoteAssumption
  <2>2. \A q \in Proxy : sock'[q] = c => Held(q)'
    <3>1. \A q \in Proxy : sock'[q] = c => q = p
      BY <1>4, <1>14, KnownTypes
    <3>2. QED
      BY <1>6, <1>18, <3>1
  <2>3. CASE skel'[c].st = "idle"
    BY <1>11, <1>12, <2>1, <2>3 DEF WorkOK
  <2>4. CASE skel'[c].st = "block" /\ skel'[c].op = K.op
    BY <1>7, <1>9, <1>11, <1>12, <2>1, <2>2, <2>4 DEF WorkOK
  <2>5. QED
    BY <1>11, <2>3, <2>4
<1>22. QED
  BY <1>1, <1>4, <1>6, <1>11, <1>12, <1>16, <1>18, <1>19, <1>20, <1>21, SkeletonContents

\* The thread whose block the Skeleton reads, and what it reads.
Reading(t, p, c) ==
  /\ t \in Thread /\ p \in Proxy /\ c \in Conn
  /\ thr[t].pc \in {"wait", "elems"} /\ thr[t].p = p /\ c = sock[p]
  /\ skel[c].op = thr[t].op

LEMMA BlockReader ==
  ASSUME Known, NEW c \in Conn, skel[c].st = "block", skel[c].op.m # "store", link[c].up
  PROVE  \E t \in Thread, p \in Proxy :
           /\ Reading(t, p, c)
           /\ Waited(link[c], skel[c], Mine(t), Left(t)) /\ Asks(Mine(t), Left(t))
           /\ ~Unread(link[c])
<1>1. RemoteTypes /\ ThreadOK /\ SkelOK(skel[c]) /\ ConnOK(c) /\ Replying(skel[c])
  BY DEF Known, Conversation, ConnOK, Replying
<1>2. PICK t \in Thread : Waiting(t, c)
  <2>1. ~Unwaited(link[c], skel[c])
    BY <1>1 DEF Unwaited
  <2>2. QED
    BY <1>1, <2>1 DEF ConnOK
<1>3. Waited(link[c], skel[c], Mine(t), Left(t)) /\ Asks(Mine(t), Left(t))
  BY <1>1, <1>2, WaiterAsks DEF ConnOK
<1>4. skel[c].op = Mine(t).op /\ ~Unread(link[c])
  BY <1>1, <1>3 DEF Waited
<1>5. skel[c].op.m \in {"copy", "load"}
  BY <1>1 DEF SkelOK
<1>6. thr[t].pc # "ref"
  BY <1>4, <1>5 DEF Mine, Request, Reference, Op
<1>7. thr[t].pc \in {"wait", "elems"} /\ skel[c].op = thr[t].op
  BY <1>2, <1>4, <1>6 DEF Mine, Request, Waiting
<1>8. thr[t].p \in Proxy /\ c = sock[thr[t].p]
  <2>1. thr[t].p \in Proxy
    BY <1>7, KnownTypes DEF ThrOK
  <2>2. QED
    BY <1>2, <2>1 DEF Waiting
<1>9. QED
  BY <1>3, <1>4, <1>7, <1>8 DEF Reading

\* It reads what the history says.
LEMMA ReadingFacts ==
  ASSUME Known, NEW t, NEW p, NEW c, Reading(t, p, c), skel[c].st = "block", skel[c].op.m # "store"
  PROVE  /\ t \in Thread /\ p \in Proxy /\ c \in Conn
         /\ \A u \in Thread : thr[u].pc # "app" /\ thr[u].p = p => u = t
         /\ thr[t].op.m \in {"copy", "load"}
         /\ \A u \in Thread, j \in Cell : ~Done(u, p, j)
         /\ Held(p)
         /\ \A j \in Cell : heap[Target[p]][j] = last[Target[p]][j]
         /\ skel[c].obj = Target[p]
<1>1. t \in Thread /\ p \in Proxy /\ c \in Conn
  BY DEF Reading
<1>2. \A u \in Thread : thr[u].pc # "app" /\ thr[u].p = p => u = t
  BY OneUser DEF Known, Reading
<1>3. thr[t].op.m \in {"copy", "load"}
  <2>1. SkelOK(skel[c])
    BY <1>1, KnownTypes
  <2>2. QED
    BY <2>1 DEF SkelOK, Reading
<1>4. \A u \in Thread, j \in Cell : ~Done(u, p, j)
  BY <1>2, <1>3 DEF Done, Arrived
<1>5. Held(p)
  <2>1. CallOK(t)
    BY <1>1 DEF Known, Contents
  <2>2. Data(t, p)
    BY <1>3 DEF Data, Reading
  <2>3. QED
    BY <1>1, <2>1, <2>2, DataHeld DEF Known
<1>6. ASSUME NEW j \in Cell PROVE heap[Target[p]][j] = last[Target[p]][j]
  <2>1. Settled(p, j)
    BY <1>1, <1>5 DEF Known, Contents
  <2>2. ~Owed(p, j)
    BY DEF Owed, Reading
  <2>3. QED
    BY <1>4, <2>1, <2>2 DEF Settled, Eventual
<1>7. skel[c].obj = Target[p]
  <2>1. SkelOK(skel[c])
    BY <1>1, KnownTypes
  <2>2. skel[c].obj \in Obj
    BY <2>1 DEF SkelOK
  <2>3. skel[c].obj # Null
    BY <2>2, RemoteAssumption
  <2>4. QED
    BY <1>1, <2>3, SameServer DEF Known, Reading
<1>8. QED
  BY <1>1, <1>2, <1>3, <1>4, <1>5, <1>6, <1>7

\* An element of a block load arrives.
LEMMA ElementHeard ==
  ASSUME NEW T, NEW L \in LinkType, NEW K, NEW m, Heard(T, L, K, m), T.op.m = "load",
         NEW M, NEW J, NEW r \in ReplyType, NEW k \in Int, M.rep = L.rep \o <<r>>,
         r.vals = <<m[T.op.i + k]>>, T.k \in Int, T.op.i \in Int,
         T.pc = "wait" => Len(L.rep) = k + 1,
         T.pc = "elems" => Len(L.rep) = k - T.k
  PROVE  Heard(T, M, J, m)
<1> DEFINE i == T.op.i
           s == L.rep
           n == Len(s)
<1>1. s \in Seq(ReplyType) /\ <<r>> \in Seq(ReplyType)
  BY DEF LinkType
<1>2. PICK a : a = s \o <<r>>
  OBVIOUS
<1>3. n \in Nat /\ Len(a) = n + 1 /\ (\A j \in 1 .. n : a[j] = s[j]) /\ a[n + 1] = r
  BY <1>1, <1>2
<1>4. M.rep = a
  BY <1>2
<1>5. ASSUME T.pc = "wait", NEW j \in 2 .. Len(a) PROVE a[j].vals = <<m[i + j - 2]>>
  <2>1. CASE j \in 2 .. n
    <3>1. s[j].vals = <<m[i + j - 2]>>
      BY <1>5, <2>1 DEF Heard
    <3>2. j \in 1 .. n
      BY <1>3, <2>1
    <3>3. a[j] = s[j]
      BY <1>3, <3>2
    <3>4. QED
      BY <3>1, <3>3
  <2>2. CASE j = n + 1
    <3>1. i + j - 2 = i + k
      BY <1>5, <2>2
    <3>2. QED
      BY <1>3, <2>2, <3>1
  <2>3. QED
    BY <1>3, <1>5, <2>1, <2>2
<1>6. ASSUME T.pc = "elems"
      PROVE  /\ T.got = Contain(m, i, T.k)
             /\ \A j \in 1 .. Len(a) : a[j].vals = <<m[i + T.k + j - 1]>>
  <2>1. T.got = Contain(m, i, T.k) /\ \A j \in 1 .. n : s[j].vals = <<m[i + T.k + j - 1]>>
    BY <1>6 DEF Heard
  <2>2. SUFFICES ASSUME NEW j \in 1 .. Len(a) PROVE a[j].vals = <<m[i + T.k + j - 1]>>
    BY <2>1
  <2>3. CASE j \in 1 .. n
    BY <1>3, <2>1, <2>3
  <2>4. CASE j = n + 1
    <3>1. i + T.k + j - 1 = i + k
      BY <1>6, <2>4
    <3>2. QED
      BY <1>3, <2>4, <3>1
  <2>5. QED
    BY <1>3, <2>2, <2>3, <2>4
<1>7. QED
  BY <1>4, <1>5, <1>6 DEF Heard

\* What the Skeleton has after an element, and has copied so far.
LEMMA AdvanceGot ==
  ASSUME RemoteTypes, NEW c \in Conn, SkelOK(skel[c]), skel[c].st = "block",
         NEW got \in Seq(Val), Advance(c, got)
  PROVE  /\ skel'[c].st = "block" => skel'[c].got = got
         /\ skel[c].k + 1 = Count(skel[c].op) => skel'[c].st = "idle"
<1> DEFINE K == skel[c]
           J1 == [K EXCEPT !.k = K.k + 1, !.got = got]
           J2 == [K EXCEPT !.st = "idle", !.op = NoOp, !.q = Null, !.k = 0, !.got = << >>]
<1>1. K \in SkelType /\ K.k \in Nat /\ skel \in [Conn -> SkelType]
  BY DEF RemoteTypes, SkelType
<1>2. J1.got = got /\ J2.st = "idle"
  BY <1>1 DEF SkelType
<1>3. skel'[c] = IF K.k + 1 < Count(K.op) THEN J1 ELSE J2
  BY <1>1 DEF Advance
<1> HIDE DEF J1, J2
<1>4. K.k + 1 = Count(K.op) => ~(K.k + 1 < Count(K.op))
  BY <1>1
<1>5. QED
  BY <1>2, <1>3, <1>4

\* What is read of a block so far is what the history says: one more element is.
LEMMA BlockReadHeard ==
  ASSUME Known, NEW t, NEW p, NEW c, Reading(t, p, c), skel[c].st = "block", skel[c].op.m # "store",
         link[c].up, Waited(link[c], skel[c], Mine(t), Left(t)), Asks(Mine(t), Left(t)),
         ~Unread(link[c]), BlockRead(c)
  PROVE  /\ Heard(thr[t], link'[c], skel'[c], last[Target[p]])
         /\ \A d \in Conn \ {c} : link'[d] = link[d]
         /\ link'[c].up
<1> DEFINE K == skel[c]
           op == thr[t].op
           m == last[Target[p]]
           i == op.i
           v == heap[K.obj][K.op.i + K.k]
           got == IF K.op.m = "copy" THEN Append(K.got, v) ELSE << >>
           out == IF K.op.m = "load" THEN <<Reply(TRUE, <<v>>, K.q)>>
                  ELSE IF K.k + 1 = Count(K.op) THEN <<Reply(TRUE, got, K.q)>> ELSE << >>
<1>1. /\ t \in Thread /\ p \in Proxy /\ c \in Conn
      /\ op.m \in {"copy", "load"} /\ K.obj = Target[p]
      /\ \A j \in Cell : heap[Target[p]][j] = m[j]
  BY ReadingFacts
<1>2. thr[t].pc \in {"wait", "elems"} /\ thr[t].p = p /\ c = sock[p] /\ K.op = op
  BY DEF Reading
<1>3. /\ RemoteTypes /\ SkelOK(K) /\ K \in SkelType /\ link[c] \in LinkType /\ thr[t] \in ThrType
      /\ K.q \in RequestType /\ K.k \in Nat /\ i \in Cell /\ K.op.i + K.k \in Cell /\ ThrOK(t)
  <2>1. /\ RemoteTypes /\ SkelOK(K) /\ K \in SkelType /\ link[c] \in LinkType /\ thr[t] \in ThrType /\ ThrOK(t)
    BY <1>1, KnownTypes DEF Known, Conversation
  <2>2. K.q \in RequestType /\ i \in Cell /\ K.k \in Nat
    BY <1>2, <2>1 DEF SkelOK, SkelType
  <2>3. K.op.i + K.k \in Cell
    BY <2>1, BlockCell
  <2>4. QED
    BY <2>1, <2>2, <2>3
<1>4. /\ link' = [link EXCEPT ![c].rep = @ \o out]
      /\ Advance(c, got)
  BY DEF BlockRead
<1>5. m \in [Cell -> Val]
  <2>1. Target[p] \in Obj
    BY <1>1, KnownTypes
  <2>2. QED
    BY <2>1 DEF Known, Contents
<1>6. v = m[i + K.k] /\ v \in Val
  BY <1>1, <1>2, <1>3, <1>5
<1>7. got \in Seq(Val) /\ <<v>> \in Seq(Val)
  <2>1. K.got \in Seq(Val)
    BY <1>3 DEF SkelType
  <2> HIDE DEF v
  <2>2. QED
    BY <1>6, <2>1
<1>8. Heard(thr[t], link[c], K, m)
  <2>1. ReadOK(t)
    BY <1>1 DEF Known, Contents
  <2>2. QED
    BY <1>2, <2>1 DEF ReadOK
<1>9. /\ \A j \in 1 .. 1 : TRUE
      /\ thr[t].k \in Nat /\ i \in Int
  BY <1>3 DEF ThrType, Cell
<1>10. Count(op) \in Int /\ (op.m = "load" => Count(op) = op.n /\ op.n \in Int)
  <2>1. Mine(t).op = op
    BY <1>2 DEF Mine, Request
  <2>2. QED
    BY <1>1, <2>1, AskFacts
<1>11. Left(t) = Len(link[c].rep) + ToCome(link[c], K) /\ Len(link[c].rep) \in Nat
  BY <1>3 DEF Waited, LinkType
<1> HIDE DEF v, got
<1>12. CASE op.m = "load"
  <2> DEFINE r == Reply(TRUE, <<v>>, K.q)
  <2>1. r \in ReplyType /\ r.vals = <<v>>
    BY <1>3, <1>7 DEF Reply, ReplyType
  <2>2. link' = [link EXCEPT ![c].rep = @ \o <<r>>]
    BY <1>2, <1>4, <1>12
  <2> HIDE DEF r
  <2>3. <<r>> \in Seq(ReplyType)
    BY <2>1
  <2>4. /\ \A d \in Conn \ {c} : link'[d] = link[d]
        /\ link'[c].up = link[c].up /\ link'[c].rep = link[c].rep \o <<r>>
    BY <1>1, <1>3, <2>2, <2>3, RepliesFacts
  <2>5. ToCome(link[c], K) = op.n - K.k
    BY <1>2, <1>10, <1>12 DEF ToCome
  <2>6. thr[t].pc = "wait" => Len(link[c].rep) = K.k + 1
    <3>1. thr[t].pc = "wait" => Left(t) = op.n + 1
      BY <1>12 DEF Left, Replies
    <3> DEFINE a == Left(t)
               e == ToCome(link[c], K)
               l == Len(link[c].rep)
               n == op.n
    <3>2. a = l + e /\ e = n - K.k /\ l \in Nat /\ n \in Int /\ K.k \in Int
      BY <1>3, <1>10, <1>11, <1>12, <2>5
    <3>3. thr[t].pc = "wait" => a = n + 1
      BY <3>1
    <3> HIDE DEF a, e, l, n, K
    <3>4. thr[t].pc = "wait" => l = K.k + 1
      BY <3>2, <3>3
    <3>5. QED
      BY <3>4 DEF l
  <2>7. thr[t].pc = "elems" => Len(link[c].rep) = K.k - thr[t].k
    <3>1. thr[t].pc = "elems" => Left(t) = op.n - thr[t].k
      BY DEF Left
    <3>2. QED
      BY <1>3, <1>9, <1>10, <1>11, <1>12, <2>5, <3>1, SMTT(30)
  <2>8. r.vals = <<m[op.i + K.k]>>
    BY <1>6, <2>1
  <2>9. Heard(thr[t], link'[c], skel'[c], m)
    <3>1. K.k \in Int /\ thr[t].k \in Int
      BY <1>3, <1>9
    <3>2. link'[c].rep = link[c].rep \o <<r>>
      BY <2>4
    <3>3. link[c] \in LinkType /\ op.i \in Int /\ r \in ReplyType
      BY <1>3, <1>9, <2>1
    <3> HIDE DEF m, i
    <3>4. QED
      BY <1>8, <1>12, <2>6, <2>7, <2>8, <3>1, <3>2, <3>3, ElementHeard DEF i
  <2>10. QED
    BY <2>4, <2>9
<1>13. CASE op.m = "copy"
  <2>1. thr[t].pc = "wait"
    BY <1>2, <1>3, <1>13 DEF ThrOK
  <2>2. link[c].rep = << >>
    <3>1. Left(t) = 1
      BY <1>13, <2>1 DEF Left, Replies
    <3>2. ToCome(link[c], K) = 1
      BY <1>2, <1>13 DEF ToCome, Replying
    <3>3. link[c].rep \in Seq(ReplyType) /\ Len(link[c].rep) = 0
      BY <1>3, <1>11, <3>1, <3>2 DEF LinkType
    <3>4. QED
      BY <3>3
  <2>3. got = Contain(m, i, K.k + 1)
    <3>1. K.got = Contain(m, i, K.k)
      BY <1>2, <1>8, <1>13, <2>1 DEF Heard
    <3>2. i + K.k \in Cell
      BY <1>2, <1>3
    <3>3. Append(Contain(m, i, K.k), m[i + K.k]) = Contain(m, i, K.k + 1)
      <4> HIDE DEF m, i, K
      <4>1. QED
        BY <1>3, <1>5, <3>2, ContainNext
    <3>4. got = Append(K.got, v)
      BY <1>2, <1>13 DEF got
    <3>5. QED
      BY <1>6, <3>1, <3>3, <3>4
  <2>4. skel'[c].st = "block" => skel'[c].got = got
    BY <1>1, <1>3, <1>4, <1>7, AdvanceGot
  <2>5. skel'[c].st = "idle" \/ (skel'[c].st = "block" /\ skel'[c].k = K.k + 1)
    BY <1>1, <1>3, <1>4, <1>7, AdvanceFacts
  <2>6. CASE K.k + 1 = Count(K.op)
    <3> DEFINE r == Reply(TRUE, got, K.q)
    <3>1. r \in ReplyType /\ r.vals = got
      BY <1>3, <1>7 DEF Reply, ReplyType
    <3>2. link' = [link EXCEPT ![c].rep = @ \o <<r>>]
      BY <1>2, <1>4, <1>13, <2>6
    <3> HIDE DEF r
    <3>3. <<r>> \in Seq(ReplyType)
      BY <3>1
    <3>4. /\ \A d \in Conn \ {c} : link'[d] = link[d]
          /\ link'[c].up = link[c].up /\ link'[c].rep = link[c].rep \o <<r>>
      BY <1>1, <1>3, <3>2, <3>3, RepliesFacts
    <3>5. link'[c].rep = <<r>>
      BY <2>2, <3>1, <3>4
    <3>6. Head(link'[c].rep) = r
      BY <3>5
    <3>7. skel'[c].st = "idle"
      BY <1>1, <1>3, <1>4, <1>7, <2>6, AdvanceGot
    <3>8. Size(op) = K.k + 1
      BY <1>2, <1>13, <2>6 DEF Size
    <3>9. r.vals = Contain(m, op.i, Size(op)) /\ op.i \in Cell
      BY <1>3, <2>3, <3>1, <3>8
    <3> HIDE DEF m, op
    <3>10. Heard(thr[t], link'[c], skel'[c], m)
      BY <1>13, <2>1, <3>6, <3>7, <3>9 DEF Heard, op
    <3>11. QED
      BY <3>4, <3>10 DEF m
  <2>7. CASE K.k + 1 # Count(K.op)
    <3>1. out = << >>
      BY <1>2, <1>13, <2>7
    <3> HIDE DEF out
    <3>2. out \in Seq(ReplyType)
      BY <3>1
    <3>3. /\ \A d \in Conn \ {c} : link'[d] = link[d]
          /\ link'[c].up = link[c].up /\ link'[c].rep = link[c].rep \o out
      BY <1>1, <1>3, <1>4, <3>2, RepliesFacts
    <3>4. link'[c].rep = << >>
      BY <2>2, <3>1, <3>3
    <3>5. skel'[c].st = "block" => skel'[c].got = Contain(m, op.i, skel'[c].k)
      BY <2>3, <2>4, <2>5
    <3> HIDE DEF m, op
    <3>6. Heard(thr[t], link'[c], skel'[c], m)
      BY <1>13, <2>1, <3>4, <3>5 DEF Heard, op
    <3>7. QED
      BY <3>3, <3>6 DEF m
  <2>8. QED
    BY <2>6, <2>7
<1>14. QED
  BY <1>1, <1>12, <1>13

\* An element of a block is read.
LEMMA BlockReadContents ==
  ASSUME Known, NEW c \in Conn, BlockRead(c), prog' = prog
  PROVE  Contents'
<1> DEFINE K == skel[c]
<1>1. K.st = "block" /\ K.op.m # "store" /\ link[c].up /\ UNCHANGED <<prog, cvars, heap, exported>>
  BY DEF BlockRead
<1>2. PICK t \in Thread, p \in Proxy :
        /\ Reading(t, p, c)
        /\ Waited(link[c], K, Mine(t), Left(t)) /\ Asks(Mine(t), Left(t))
        /\ ~Unread(link[c])
  BY <1>1, BlockReader
<1>3. /\ \A u \in Thread : thr[u].pc # "app" /\ thr[u].p = p => u = t
      /\ thr[t].op.m \in {"copy", "load"}
      /\ \A u \in Thread, j \in Cell : ~Done(u, p, j)
      /\ Held(p)
      /\ \A j \in Cell : heap[Target[p]][j] = last[Target[p]][j]
      /\ K.obj = Target[p]
  BY <1>1, <1>2, ReadingFacts
<1>4. thr[t].pc \in {"wait", "elems"} /\ thr[t].p = p /\ c = sock[p] /\ K.op = thr[t].op
  BY <1>2 DEF Reading
<1>5. Heard(thr[t], link'[c], skel'[c], last[Target[p]])
  BY <1>1, <1>2, BlockReadHeard
<1>6. (\A d \in Conn \ {c} : link'[d] = link[d]) /\ link'[c].up
  BY <1>1, <1>2, BlockReadHeard
<1>7. /\ \A d \in Conn \ {c} : skel'[d] = skel[d]
      /\ skel'[c].obj = K.obj
      /\ skel'[c].st = "idle" \/ (skel'[c].st = "block" /\ skel'[c].op = K.op)
  <2>1. RemoteTypes /\ SkelOK(K) /\ K \in SkelType
    BY KnownTypes DEF Known, Conversation
  <2>2. PICK got \in Seq(Val) : Advance(c, got)
    <3> DEFINE v == heap[K.obj][K.op.i + K.k]
               got == IF K.op.m = "copy" THEN Append(K.got, v) ELSE << >>
    <3>1. Advance(c, got)
      BY DEF BlockRead
    <3>2. v \in Val
      <4>1. K.op.i + K.k \in Cell /\ K.obj \in Obj
        BY <1>1, <2>1, BlockCell
      <4>2. QED
        BY <2>1, <4>1 DEF RemoteTypes
    <3> HIDE DEF v
    <3>3. K.got \in Seq(Val)
      BY <2>1 DEF SkelType
    <3>4. got \in Seq(Val)
      BY <3>2, <3>3
    <3>5. QED
      BY <3>1, <3>4
  <2>3. QED
    BY <1>1, <2>1, <2>2, AdvanceFacts
<1>8. UNCHANGED <<sock, thr, inside, last>>
  BY <1>1 DEF cvars
<1>9. Held(p)' <=> Held(p)
  <2>1. \A u \in Thread : thr[u].pc = "wait" /\ thr[u].p = p => thr[u].op.m \notin {"enter", "exit"}
    BY <1>3
  <2>2. QED
    BY <1>1, <1>4, <2>1, HeldKeeps
<1>10. ASSUME NEW j \in Cell PROVE Settled(p, j)'
  <2>1. \A u \in Thread : ~Done(u, p, j)'
    BY <1>3, <1>8 DEF Done, Arrived
  <2>2. ~Owed(p, j)'
    BY <1>1, <1>4, <1>7, <1>8 DEF Owed
  <2>3. heap'[Target[p]][j] = last'[Target[p]][j]
    BY <1>1, <1>3, <1>8
  <2>4. QED
    BY <2>1, <2>2, <2>3 DEF Settled, Eventual
<1>11. ASSUME NEW u \in Thread, thr[u].pc # "app", thr[u].p = p
       PROVE  ReadOK(u)' /\ CallOK(u)'
  <2>1. u = t
    BY <1>3, <1>11
  <2>2. ReadOK(t)'
    BY <1>4, <1>5, <1>8 DEF ReadOK
  <2>3. CallOK(t)
    BY DEF Known, Contents
  <2>4. CallOK(t)'
    BY <1>1, <1>3, <1>8, <2>3 DEF CallOK
  <2>5. QED
    BY <2>1, <2>2, <2>4
<1>12. WorkOK(c)'
  <2>1. K.obj # Null
    BY <1>3, KnownTypes, RemoteAssumption
  <2>2. \A q \in Proxy : sock'[q] = c => Held(q)'
    <3>1. \A q \in Proxy : sock'[q] = c => q = p
      BY <1>4, <1>8, KnownTypes
    <3>2. QED
      BY <1>3, <1>9, <3>1
  <2>3. QED
    BY <1>1, <1>6, <1>7, <2>1, <2>2 DEF WorkOK
<1>13. QED
  BY <1>1, <1>3, <1>4, <1>6, <1>7, <1>9, <1>10, <1>11, <1>12, SkeletonContents

\* MONITORENTER or MONITOREXIT is answered, and the object has what the history
\* says.
LEMMA MonitorAnswered ==
  ASSUME Known, NEW t \in Thread, NEW p \in Proxy, NEW c \in Conn,
         thr[t].pc = "wait", thr[t].p = p, c = sock[p], thr[t].op.m \in {"enter", "exit"},
         UNCHANGED <<prog, cvars, heap, exported>>,
         \A d \in Conn \ {c} : link'[d] = link[d] /\ skel'[d] = skel[d],
         link'[c].up, link'[c].rep # << >>, Head(link'[c].rep).vals = << >>,
         skel'[c].st = "idle", skel'[c].obj # Null,
         heap[Target[p]] = last[Target[p]]
  PROVE  Contents'
<1>1. UNCHANGED <<sock, thr, inside, last>>
  BY DEF cvars
<1>2. \A u \in Thread : thr[u].pc # "app" /\ thr[u].p = p => u = t
  BY OneUser DEF Known
<1>3. ASSUME NEW j \in Cell PROVE Settled(p, j)'
  <2>1. \A u \in Thread : ~Done(u, p, j)'
    BY <1>1, <1>2 DEF Done, Arrived
  <2>2. ~Owed(p, j)'
    BY <1>1 DEF Owed
  <2>3. QED
    BY <1>1, <2>1, <2>2 DEF Settled, Eventual
<1>4. ReadOK(t)'
  <2>1. \A m, i : << >> = Contain(m, i, 0)
    BY DEF Contain
  <2>2. Size(thr[t].op) = 0
    BY DEF Size
  <2>3. Head(link'[c].rep).vals = Contain(last[Target[p]], thr[t].op.i, 0)
    BY <2>1
  <2>4. Heard(thr[t], link'[c], skel'[c], last[Target[p]])
    BY <2>2, <2>3 DEF Heard
  <2>5. QED
    BY <1>1, <2>4 DEF ReadOK
<1>5. CallOK(t)'
  <2>1. CallOK(t)
    BY DEF Known, Contents
  <2>2. QED
    BY <1>1, <2>1 DEF CallOK
<1>6. WorkOK(c)'
  BY DEF WorkOK
<1>7. \A o \in Obj \ {Target[p]} : heap'[o] = heap[o]
  OBVIOUS
<1>8. QED
  BY <1>1, <1>2, <1>3, <1>4, <1>5, <1>6, <1>7, SkeletonContents

\* The thread that waits for the monitor that a Skeleton enters
LEMMA EnterFacts ==
  ASSUME Known, NEW c \in Conn, skel[c].st = "enter"
  PROVE  /\ link[c].up /\ skel[c].w # Null /\ skel[c].obj \in Obj /\ skel[c].q \in RequestType
         /\ \E t \in Thread, p \in Proxy :
              /\ thr[t].pc = "wait" /\ thr[t].p = p /\ c = sock[p] /\ thr[t].op.m = "enter"
              /\ link[c].rep = << >> /\ skel[c].obj = Target[p]
              /\ \A u \in Thread : ~Entered(u, p)
<1> DEFINE K == skel[c]
<1>1. /\ RemoteTypes /\ SkelOK(K) /\ link[c] \in LinkType /\ ConnOK(c) /\ Replying(K)
  BY DEF Known, Conversation, ConnOK, RemoteTypes, Replying
<1>2. link[c].up
  BY DEF Known, Monitors, ServerOK
<1>3. K.w # Null /\ K.obj \in Obj /\ K.q \in RequestType /\ K.q.op.m = "enter"
  BY <1>1 DEF Known, Monitors, ServerOK, SkelOK
<1>4. PICK t \in Thread : Waiting(t, c)
  <2>1. ~Unwaited(link[c], K)
    BY <1>1, <1>2 DEF Unwaited
  <2>2. QED
    BY <1>1, <2>1 DEF ConnOK
<1>5. Waited(link[c], K, Mine(t), Left(t))
  BY <1>1, <1>4 DEF ConnOK
<1>6. thr[t].pc = "wait" /\ thr[t].op.m = "enter"
  <2>1. Mine(t).op.m = "enter"
    BY <1>1, <1>2, <1>3, <1>5 DEF Waited
  <2>2. thr[t].pc # "ref" /\ thr[t].op.m = "enter"
    BY <2>1 DEF Mine, Request, Reference, Op
  <2>3. thr[t].pc # "elems"
    BY <1>4, <2>2, KnownTypes DEF ThrOK, Waiting
  <2>4. QED
    BY <1>4, <2>2, <2>3 DEF Waiting
<1>7. link[c].rep = << >>
  <2>1. Left(t) = 1
    BY <1>6 DEF Left, Replies
  <2>2. ToCome(link[c], K) = 1
    BY <1>1, <1>2, <1>5 DEF ToCome, Waited
  <2>3. link[c].rep \in Seq(ReplyType) /\ Len(link[c].rep) \in Nat
    BY <1>1 DEF LinkType
  <2>4. Left(t) = Len(link[c].rep) + ToCome(link[c], K)
    BY <1>2, <1>5 DEF Waited
  <2>5. QED
    BY <2>1, <2>2, <2>3, <2>4
<1>8. /\ thr[t].p \in Proxy /\ sock[thr[t].p] = c
      /\ \A p \in Proxy : sock[p] = c => p = thr[t].p
      /\ \A u \in Thread, p \in Proxy : Entered(u, p) /\ sock[p] = c => u = t
  BY <1>4, Sharer DEF Known
<1>9. K.obj = Target[thr[t].p]
  <2>1. K.obj # Null
    BY <1>3, RemoteAssumption
  <2>2. QED
    BY <1>8, <2>1, SameServer DEF Known
<1>10. ~Entered(t, thr[t].p)
  <2>1. inside[t] = Null
    BY <1>6 DEF Known, Monitors, UserOK
  <2>2. Null \notin Proxy
    BY KnownTypes
  <2>3. QED
    BY <1>6, <1>7, <1>8, <2>1, <2>2 DEF Entered, In
<1>11. \A u \in Thread : ~Entered(u, thr[t].p)
  BY <1>8, <1>10
<1>12. QED
  BY <1>2, <1>3, <1>6, <1>7, <1>8, <1>9, <1>11

\* The monitor is entered: nothing is on its way to the object.
LEMMA EnterContents ==
  ASSUME Known, NEW c \in Conn, Enter(c), prog' = prog
  PROVE  Contents'
<1> DEFINE K == skel[c]
<1>1. K.st = "enter" /\ mon[K.obj].owner \in {Null, K.w} /\ UNCHANGED <<prog, cvars, heap, exported>>
  BY DEF Enter
<1>2. link[c].up /\ K.w # Null /\ K.obj \in Obj /\ K.q \in RequestType
  BY <1>1, EnterFacts
<1>3. PICK t \in Thread, p \in Proxy :
        /\ thr[t].pc = "wait" /\ thr[t].p = p /\ c = sock[p] /\ thr[t].op.m = "enter"
        /\ link[c].rep = << >> /\ K.obj = Target[p]
        /\ \A u \in Thread : ~Entered(u, p)
  BY <1>1, EnterFacts
<1> DEFINE r == Reply(TRUE, << >>, K.q)
<1>4. /\ link' = [link EXCEPT ![c].rep = Append(@, r)]
      /\ skel' = [skel EXCEPT ![c].st = "idle", ![c].q = Null]
  BY <1>2 DEF Enter
<1>5. r.vals = << >>
  BY DEF Reply
<1> HIDE DEF r
<1>6. RemoteTypes /\ link \in [Conn -> LinkType] /\ skel \in [Conn -> SkelType]
  BY DEF Known, Conversation, RemoteTypes
<1>7. /\ \A d \in Conn \ {c} : skel'[d] = skel[d]
      /\ skel'[c].st = "idle" /\ skel'[c].obj = K.obj
  BY <1>4, <1>6 DEF SkelType
<1>8. /\ \A d \in Conn \ {c} : link'[d] = link[d]
      /\ link'[c].up = link[c].up /\ link'[c].rep = Append(link[c].rep, r)
  BY <1>4, <1>6 DEF LinkType
<1>9. link'[c].rep = <<r>>
  BY <1>3, <1>8
<1>10. heap[Target[p]] = last[Target[p]]
  <2>1. CASE Sole(p)
    <3>1. Held(p)
      BY <2>1 DEF Held
    <3>2. ASSUME NEW j \in Cell PROVE heap[Target[p]][j] = last[Target[p]][j]
      <4>1. Settled(p, j)
        BY <3>1 DEF Known, Contents
      <4>2. \A u \in Thread : ~Done(u, p, j)
        BY <1>3 DEF Done, Arrived
      <4>3. ~Owed(p, j)
        BY <1>1, <1>3 DEF Owed
      <4>4. QED
        BY <4>1, <4>2, <4>3 DEF Settled, Eventual
    <3>3. heap[Target[p]] \in [Cell -> Val] /\ last[Target[p]] \in [Cell -> Val]
      BY <1>2, <1>3, <1>6 DEF RemoteTypes, Known, Contents
    <3>4. QED
      BY <3>2, <3>3
  <2>2. CASE ~Sole(p)
    <3>1. FreeOK(Target[p])
      BY <1>2, <1>3 DEF Known, Contents
    <3>2. ASSUME NEW q \in Proxy, Target[q] = Target[p], Held(q) PROVE FALSE
      <4>1. q # p
        BY <1>3, <2>2, <3>2 DEF Held
      <4>2. PICK u \in Thread : Entered(u, q)
        BY <3>2, <4>1 DEF Held, Sole
      <4>3. Owned(q)
        BY <4>2 DEF Known, Monitors
      <4>4. mon[Target[q]].owner # Null
        BY <4>3 DEF Owned
      <4>5. mon[Target[q]].owner = K.w
        BY <1>1, <1>3, <3>2, <4>4
      <4>6. sock[q] = c
        BY <1>2, <4>3, <4>5, OwnerServes DEF Known
      <4>7. QED
        BY <1>3, <4>1, <4>6, KnownTypes
    <3>3. QED
      BY <3>1, <3>2 DEF FreeOK
  <2>3. QED
    BY <2>1, <2>2
<1>11. link'[c].up /\ link'[c].rep # << >> /\ Head(link'[c].rep).vals = << >>
  BY <1>2, <1>5, <1>8, <1>9
<1>12. skel'[c].obj # Null
  BY <1>2, <1>7, RemoteAssumption
<1>13. QED
  BY <1>1, <1>3, <1>7, <1>8, <1>10, <1>11, <1>12, MonitorAnswered

\* The monitor is released: the object has what its operations have written.
LEMMA ServeExitContents ==
  ASSUME Known, NEW c \in Conn, ServeExit(c), prog' = prog
  PROVE  Contents'
<1>1. Reads(c, {"exit"}) /\ skel[c].obj # Null /\ UNCHANGED <<prog, cvars, skel, heap, exported>>
  BY DEF ServeExit
<1>2. PICK t \in Thread, p \in Proxy : Asking(t, p, c) /\ Asked(c) = thr[t].op
  BY <1>1, Requester
<1>3. thr[t].op.m = "exit"
  BY <1>1, <1>2, Requester
<1>4. /\ thr[t].pc = "wait" /\ p = thr[t].p /\ c = sock[p] /\ Target[p] \in Obj
      /\ t \in Thread /\ p \in Proxy
      /\ Held(p) => \A j \in Cell : heap[Target[p]][j] = last[Target[p]][j]
  BY <1>2, AskingFacts
<1>5. link[c].rep = << >> /\ skel[c].st = "idle"
  BY <1>2 DEF Asking
<1>6. Held(p)
  <2>1. Entered(t, p)
    BY <1>3, <1>4, <1>5 DEF Entered, In
  <2>2. QED
    BY <1>4, <2>1 DEF Held
<1>7. heap[Target[p]] = last[Target[p]]
  <2>1. heap[Target[p]] \in [Cell -> Val] /\ last[Target[p]] \in [Cell -> Val]
    BY <1>4 DEF RemoteTypes, Known, Conversation, Contents
  <2>2. QED
    BY <1>4, <1>6, <2>1
<1>8. Answer(c, <<Reply(TRUE, << >>, Query(c))>>)
  BY DEF ServeExit
<1>9. << >> \in Seq(Val)
  OBVIOUS
<1>10. /\ \A d \in Conn \ {c} : link'[d] = link[d]
       /\ link'[c].up /\ link'[c].rep # << >>
  BY <1>1, <1>2, <1>8, <1>9, AnswersOne
<1>11. Head(link'[c].rep).vals = << >>
  BY <1>1, <1>2, <1>8, <1>9, AnswersOne
<1>12. QED
  BY <1>1, <1>3, <1>4, <1>5, <1>7, <1>10, <1>11, MonitorAnswered

-----------------------------------------------------------------------------
(* The invariant.                                                          *)

LEMMA ContentsInit == ASSUME Init PROVE Contents
<1>1. /\ sock = [p \in Proxy |-> Null] /\ skel = [c \in Conn |-> NoSkel]
      /\ thr = [t \in Thread |-> AtApp] /\ last = heap /\ exported = Obj
  BY DEF Init
<1>2. PICK v \in Val : heap = [o \in Obj |-> [i \in Cell |-> v]]
  BY DEF Init
<1>3. last \in [Obj -> [Cell -> Val]]
  BY <1>1, <1>2
<1>4. \A t \in Thread : thr[t].pc = "app"
  BY <1>1, AtAppFacts
<1>5. \A t \in Thread : ReadOK(t) /\ CallOK(t)
  BY <1>4 DEF ReadOK, Heard, CallOK
<1>6. \A c \in Conn : WorkOK(c)
  BY <1>1, NoSkelFacts DEF WorkOK
<1>7. ASSUME NEW p \in Proxy, NEW j \in Cell PROVE Settled(p, j)
  <2>1. \A t \in Thread : ~Done(t, p, j)
    BY <1>4 DEF Done, Arrived
  <2>2. ~Owed(p, j)
    BY <1>1 DEF Owed
  <2>3. QED
    BY <1>1, <2>1, <2>2 DEF Settled, Eventual
<1>8. \A o \in Obj : FreeOK(o)
  BY <1>1 DEF FreeOK
<1>9. QED
  BY <1>1, <1>3, <1>5, <1>6, <1>7, <1>8 DEF Contents

\* Nothing that the contents depend on changes; leases may expire.
LEMMA ContentsStutter ==
  ASSUME Contents, UNCHANGED <<prog, sock, link, skel, heap, thr, inside, last>>,
         exported' = exported \/ "expire" \in prog.faults
  PROVE  Contents'
<1>1. /\ prog' = prog /\ sock' = sock /\ link' = link /\ skel' = skel /\ heap' = heap
      /\ thr' = thr /\ inside' = inside /\ last' = last
  OBVIOUS
<1>2. \A t \in Thread : ReadOK(t)' /\ CallOK(t)'
  <2>1. SUFFICES ASSUME NEW t \in Thread PROVE ReadOK(t)' /\ CallOK(t)'
    OBVIOUS
  <2>2. ReadOK(t) /\ CallOK(t)
    BY DEF Contents
  <2>3. ReadOK(t)'
    BY <1>1, <2>2 DEF ReadOK
  <2>4. CallOK(t)'
    BY <1>1, <2>2 DEF CallOK
  <2>5. QED
    BY <2>3, <2>4
<1>3. \A p \in Proxy : Held(p)' <=> Held(p)
  <2>1. \A t \in Thread, p \in Proxy : Entered(t, p)' <=> Entered(t, p)
    BY <1>1 DEF Entered, In
  <2>2. QED
    BY <2>1 DEF Held, Sole
<1>4. \A c \in Conn : WorkOK(c)'
  <2>1. SUFFICES ASSUME NEW c \in Conn PROVE WorkOK(c)'
    OBVIOUS
  <2>2. WorkOK(c)
    BY DEF Contents
  <2>3. QED
    BY <1>1, <1>3, <2>2 DEF WorkOK
<1>5. ASSUME NEW p \in Proxy, Held(p)', NEW j \in Cell PROVE Settled(p, j)'
  <2>1. Settled(p, j)
    BY <1>3, <1>5 DEF Contents
  <2>2. \A t \in Thread : Arrived(t, p)' <=> Arrived(t, p)
    BY <1>1 DEF Arrived
  <2>3. \A t \in Thread : Done(t, p, j)' <=> Done(t, p, j)
    BY <1>1, <2>2 DEF Done, Answered, Wire
  <2>4. Begun(p)' <=> Begun(p)
    BY <1>1, <2>2 DEF Begun
  <2>5. Owed(p, j)' <=> Owed(p, j)
    BY <1>1, <2>4 DEF Owed
  <2>6. Eventual(p, j)' = Eventual(p, j)
    BY <1>1, <2>5 DEF Eventual
  <2>7. QED
    BY <1>1, <2>1, <2>3, <2>6 DEF Settled
<1>6. \A o \in Obj : FreeOK(o)'
  BY <1>1, <1>3 DEF Contents, FreeOK
<1>7. last' \in [Obj -> [Cell -> Val]] /\ ("expire" \notin prog'.faults => exported' = Obj)
  BY <1>1 DEF Contents
<1>8. QED
  BY <1>2, <1>4, <1>5, <1>6, <1>7 DEF Contents

LEMMA ContentsNext ==
  ASSUME Reliable, Known, [Next]_vars PROVE Contents'
<1>1. CASE UNCHANGED vars
  <2>1. Contents
    BY DEF Known
  <2>2. QED
    BY <1>1, <2>1, ContentsStutter DEF vars
<1>2. ASSUME NEW t \in Thread, Client(t), prog' = prog PROVE Contents'
  BY <1>2, OpenContents, NotConnectedContents, ReferredContents, SendContents, BrokenContents, ReceiveContents,
     ReceiveCloseContents, WriteElementsContents, BeginElementsContents, ReceiveElementContents
     DEF Client
<1>3. ASSUME NEW t \in Thread, NEW p \in Proxy, NEW op \in MyOp, Call(t, p, op), prog' = prog
      PROVE  Contents'
  BY <1>3, CallContents
<1>4. ASSUME NEW c \in Conn, Server(c), prog' = prog PROVE Contents'
  <2>1. CASE Lost(c)
    <3>1. skel[c].st # "gone" /\ ~link[c].up
      BY <2>1 DEF Lost
    <3>2. QED
      BY <3>1, ServedFacts
  <2>2. ~ Unfit(c)
    BY DEF Unfit, Reliable, Known, Conversation, RemoteTypes
  <2>3. QED
    BY <1>4, <2>1, <2>2, NullAnsweredContents, ServeReferenceContents, ServeCloseContents, ServeGetContents, ServePutContents,
       PutContents, NullAccessContents, ServeWriteContents, ServeEnterContents, EnterContents,
       ServeExitContents, ServeBlockContents, BlockReadContents, BlockWriteContents DEF Server
<1>5. ASSUME NEW c \in Conn, Drop(c) PROVE Contents'
  <2>1. prog \in Programs /\ "drop" \in prog.faults
    BY <1>5 DEF Drop, Known, Conversation, RemoteTypes
  <2>2. QED
    BY <2>1 DEF Reliable
<1>6. ASSUME NEW o \in Obj, Expire(o) \/ Register(o), prog' = prog PROVE Contents'
  <2>1. Contents
    BY DEF Known
  <2>2. UNCHANGED <<sock, link, skel, heap, thr, inside, last>> /\ "expire" \in prog.faults
    BY <1>6 DEF Expire, Register, cvars
  <2>3. QED
    BY <1>6, <2>1, <2>2, ContentsStutter
<1>7. QED
  BY <1>1, <1>2, <1>3, <1>4, <1>5, <1>6 DEF Next

\* Connections that do not break
LEMMA ReliableKeeps == ASSUME Reliable PROVE NoDrops
BY DEF Reliable, NoDrops

LEMMA InvariantNext ==
  ASSUME Unshared, StoresFit, Guarded, Reliable, Conversation, Monitors, Contents, [Next]_vars
  PROVE  Known /\ Contents'
<1>1. Conversation' /\ Monitors'
  BY ConversationNext, MonitorsNext, ReliableKeeps
<1>2. Known
  BY <1>1 DEF Known
<1>3. QED
  BY <1>2, ContentsNext

\* The invariant: what Proxy and Skeleton have read, and what they have still to
\* write, is what the operations that have returned say.
THEOREM ContentsInvariant ==
  ASSUME Unshared, StoresFit, Guarded, Reliable
  PROVE  Spec => [](Conversation /\ Monitors /\ Contents)
<1>1. Init => Conversation /\ Monitors /\ Contents
  BY ConversationInit, MonitorsInit, ContentsInit
<1>2. (Conversation /\ Monitors /\ Contents) /\ [Next]_vars => (Conversation /\ Monitors /\ Contents)'
  BY InvariantNext DEF Known
<1>3. QED
  BY <1>1, <1>2, PTL DEF Spec

\* What a returned operation has written is in the object once its connection is
\* quiet, although PUT32FIELD is acknowledged before the field is written and
\* aryBlockStore() returns with elements in its buffer.
THEOREM WritesLand ==
  ASSUME Unshared, StoresFit, Guarded, Reliable PROVE Spec => []Landed
<1>1. Conversation /\ Monitors /\ Contents => Landed
  <2>1. SUFFICES ASSUME Conversation, Contents, Quiet, NEW o \in Obj, NEW i \in Cell
                 PROVE  heap[o][i] = last[o][i]
    BY DEF Landed
  <2>2. CASE \A p \in Proxy : Target[p] = o => ~Held(p)
    BY <2>1, <2>2 DEF Contents, FreeOK
  <2>3. CASE ~ \A p \in Proxy : Target[p] = o => ~Held(p)
    <3>1. PICK p \in Proxy : Target[p] = o /\ Held(p)
      BY <2>3
    <3>2. Settled(p, i)
      BY <2>1, <3>1 DEF Contents
    <3>3. \A t \in Thread : ~Done(t, p, i)
      BY <2>1 DEF Quiet, Done, Arrived
    <3>4. ~Owed(p, i)
      <4>1. sock[p] # Null => skel[sock[p]].st \in {"idle", "gone"}
        BY <2>1, ProxyConn DEF Quiet
      <4>2. QED
        BY <4>1 DEF Owed
    <3>5. QED
      BY <3>1, <3>2, <3>3, <3>4 DEF Settled, Eventual
  <2>4. QED
    BY <2>2, <2>3
<1>2. QED
  BY <1>1, ContentsInvariant, PTL

-----------------------------------------------------------------------------
(* The refinement.                                                         *)

\* The threads inside the monitor of o, and the one that SingleVM makes of them.
Within(o) == {t \in Thread : inside[t] # Null /\ Target[inside[t]] = o}
Member(ts) == IF ts = {} THEN Null ELSE CHOOSE t \in ts : TRUE
Holder == [o \in Obj |-> Member(Within(o))]

\* The steps of SingleVM.
LEMMA ThrowStep ==
  ASSUME NEW t \in Thread, res' = [res EXCEPT ![t] = S!Abrupt], UNCHANGED <<last, inside>>
  PROVE  S!Next
<1>1. S!Throw(t)
  BY DEF S!Throw, S!Outcome
<1>2. QED
  BY <1>1 DEF S!Next

LEMMA NothingStep ==
  ASSUME NEW t \in Thread, res' = [res EXCEPT ![t] = S!Normal(<< >>)], UNCHANGED <<last, inside>>
  PROVE  S!Next
<1>1. S!Nothing(t)
  BY DEF S!Nothing, S!Outcome
<1>2. QED
  BY <1>1 DEF S!Next

LEMMA ReadStep ==
  ASSUME NEW t \in Thread, NEW o \in Obj, NEW i \in Cell, NEW n \in 0 .. LEN, i + n <= LEN,
         res' = [res EXCEPT ![t] = S!Normal(Contain(last[o], i, n))], UNCHANGED <<last, inside>>
  PROVE  S!Next
<1>1. S!Read(t, o, i, n)
  BY DEF S!Read, S!Outcome, S!Cells, Contain
<1>2. i \in S!Cell
  BY DEF S!Cell, Cell
<1>3. QED
  BY <1>1, <1>2 DEF S!Next

LEMMA WriteStep ==
  ASSUME NEW t \in Thread, NEW o \in Obj, NEW i \in Cell, NEW n \in 0 .. LEN, i + n <= LEN, NEW v \in Val,
         NEW A, \A c \in Cell : c \in A <=> i <= c /\ c < i + n,
         last' = [last EXCEPT ![o] = [c \in Cell |-> IF c \in A THEN v ELSE @[c]]],
         res' = [res EXCEPT ![t] = S!Normal(<< >>)], UNCHANGED inside
  PROVE  S!Next
<1>1. \A c \in Cell : c \in A <=> c \in i .. i + n - 1
  BY RemoteAssumption DEF Cell
<1>2. [c \in Cell |-> IF c \in A THEN v ELSE last[o][c]]
        = [c \in Cell |-> IF c \in i .. i + n - 1 THEN v ELSE last[o][c]]
  BY <1>1
<1>3. last' = [last EXCEPT ![o] = [c \in Cell |-> IF c \in i .. i + n - 1 THEN v ELSE @[c]]]
  BY <1>2
<1>4. S!Write(t, o, i, n, v)
  <2>1. S!Outcome(t, S!Normal(<< >>))
    BY DEF S!Outcome
  <2>2. S!Cell = Cell
    BY DEF S!Cell, Cell
  <2>3. UNCHANGED Holder
    BY DEF Holder, Within
  <2>4. QED
    BY <1>3, <2>1, <2>2, <2>3 DEF S!Write, Holder, Member, Within
<1>5. i \in S!Cell
  BY DEF S!Cell, Cell
<1>6. QED
  BY <1>4, <1>5 DEF S!Next

LEMMA ExchangeStep ==
  ASSUME NEW t \in Thread, NEW o \in Obj, NEW i \in Cell, NEW v \in Val,
         last \in [Obj -> [Cell -> Val]],
         NEW A, \A c \in Cell : c \in A <=> c = i,
         last' = [last EXCEPT ![o] = [c \in Cell |-> IF c \in A THEN v ELSE @[c]]],
         NEW vals, vals = <<last[o][i]>>,
         res' = [res EXCEPT ![t] = S!Normal(vals)], UNCHANGED inside
  PROVE  S!Next
<1>1. [c \in Cell |-> IF c \in A THEN v ELSE last[o][c]] = [last[o] EXCEPT ![i] = v]
  BY DEF Cell
<1>2. last' = [last EXCEPT ![o][i] = v]
  BY <1>1
<1>3. S!Exchange(t, o, i, v)
  <2>1. S!Outcome(t, S!Normal(<<last[o][i]>>))
    BY DEF S!Outcome
  <2>2. UNCHANGED Holder
    BY DEF Holder, Within
  <2>3. QED
    BY <1>2, <2>1, <2>2 DEF S!Exchange, Holder, Member, Within
<1>4. i \in S!Cell
  BY DEF S!Cell, Cell
<1>5. QED
  BY <1>3, <1>4 DEF S!Next

\* The thread within an object
LEMMA WithinFacts ==
  ASSUME MonitorExclusion, NEW o \in Obj
  PROVE  /\ Holder[o] = Null <=> Within(o) = {}
         /\ \A t \in Within(o) : Holder[o] = t
<1>1. \A t, u \in Within(o) : t = u
  BY DEF MonitorExclusion, Within
<1>2. Null \notin Within(o)
  BY RemoteAssumption DEF Within
<1>3. Holder[o] = IF Within(o) = {} THEN Null ELSE CHOOSE t \in Within(o) : TRUE
  BY DEF Holder, Member
<1>4. Within(o) # {} => (CHOOSE t \in Within(o) : TRUE) \in Within(o)
  OBVIOUS
<1>5. QED
  BY <1>1, <1>2, <1>3, <1>4

\* A thread goes into the monitor of the object of p.
LEMMA MonitorEnterStep ==
  ASSUME MonitorExclusion, MonitorExclusion', NEW t \in Thread, NEW p \in Proxy, Target[p] \in Obj,
         inside \in [Thread -> Proxy \cup {Null}],
         inside[t] = Null, inside' = [inside EXCEPT ![t] = p],
         res' = [res EXCEPT ![t] = S!Normal(<< >>)], UNCHANGED last
  PROVE  S!Next
<1> DEFINE o == Target[p]
<1>1. p # Null /\ inside'[t] = p /\ \A u \in Thread \ {t} : inside'[u] = inside[u]
  BY RemoteAssumption
<1>2. t \in Within(o)' /\ t \notin Within(o)
  BY <1>1 DEF Within
<1>3. Within(o)' = {t}
  BY <1>2 DEF MonitorExclusion, Within
<1>4. Within(o) = {}
  <2>1. ASSUME NEW u \in Within(o) PROVE FALSE
    <3>1. u # t /\ u \in Within(o)'
      BY <1>1, <1>2, <2>1 DEF Within
    <3>2. QED
      BY <1>3, <3>1
  <2>2. QED
    BY <2>1
<1>5. \A x \in Obj \ {o} : Within(x)' = Within(x)
  BY <1>1 DEF Within
<1>6. Holder[o] = Null
  BY <1>4 DEF Holder, Member
<1>7. Holder' = [Holder EXCEPT ![o] = t]
  <2>1. Holder'[o] = t
    BY <1>3 DEF Holder, Member
  <2>2. \A x \in Obj \ {o} : Holder'[x] = Holder[x]
    BY <1>5 DEF Holder
  <2>3. Holder' = [x \in Obj |-> Holder'[x]] /\ Holder = [x \in Obj |-> Holder[x]]
    BY DEF Holder
  <2>4. QED
    BY <2>1, <2>2, <2>3
<1>8. S!MonitorEnter(t, o)
  BY <1>6, <1>7 DEF S!MonitorEnter, S!Outcome, Holder, Member, Within
<1>9. QED
  BY <1>8 DEF S!Next

\* A thread leaves the monitor of the object of p.
LEMMA MonitorExitStep ==
  ASSUME MonitorExclusion, NEW t \in Thread, NEW p \in Proxy, Target[p] \in Obj,
         inside \in [Thread -> Proxy \cup {Null}],
         inside[t] = p, inside' = [inside EXCEPT ![t] = Null], UNCHANGED <<last, res>>
  PROVE  S!Next
<1> DEFINE o == Target[p]
<1>1. p # Null /\ inside'[t] = Null /\ \A u \in Thread \ {t} : inside'[u] = inside[u]
  BY RemoteAssumption
<1>2. t \in Within(o)
  BY <1>1 DEF Within
<1>3. Holder[o] = t
  BY <1>2, WithinFacts
<1>4. Within(o)' = {}
  BY <1>1, <1>2 DEF MonitorExclusion, Within
<1>5. \A x \in Obj \ {o} : Within(x)' = Within(x)
  BY <1>1 DEF Within
<1>6. Holder' = [Holder EXCEPT ![o] = Null]
  <2>1. Holder'[o] = Null
    BY <1>4 DEF Holder, Member
  <2>2. \A x \in Obj \ {o} : Holder'[x] = Holder[x]
    BY <1>5 DEF Holder
  <2>3. Holder' = [x \in Obj |-> Holder'[x]] /\ Holder = [x \in Obj |-> Holder[x]]
    BY DEF Holder
  <2>4. QED
    BY <2>1, <2>2, <2>3
<1>7. S!MonitorExit(t, o)
  BY <1>3, <1>6 DEF S!MonitorExit, Holder, Member, Within
<1>8. QED
  BY <1>7 DEF S!Next

\* The exclusion after a step
LEMMA OneWithinNext ==
  ASSUME Unshared PROVE Conversation' /\ Monitors' => MonitorExclusion'
<1>1. Conversation /\ Monitors => MonitorExclusion
  BY OneWithin
<1>2. QED
  BY <1>1, PTL

-----------------------------------------------------------------------------
(* The steps that a program sees.                                          *)

\* The cells that an operation names
LEMMA CellSpan ==
  ASSUME NEW op \in AllOp, op.m \in {"put", "astore", "invoke"}
  PROVE  op.v \in Val /\ op.i \in Int /\ \A c \in Cell : c \in Span(op) <=> c = op.i
<1>1. op.n = 1 /\ op.v \in Val /\ op \in OpType
  BY OpFacts
<1>2. op.i \in Int
  BY <1>1 DEF OpType
<1>3. \A c \in Cell : c \in Int
  BY DEF Cell
<1>4. QED
  BY <1>1, <1>2, <1>3 DEF Span

LEMMA BlockSpan ==
  ASSUME NEW op \in AllOp, op.m \in {"copy", "load", "store"}, ~Refused(op),
         op.m = "store" => StoresFit
  PROVE  /\ op.i \in Cell /\ op.i \in Int /\ op.n \in Int
         /\ op.m \in {"load", "store"} => op.n \in 0 .. LEN /\ op.i + op.n <= LEN
         /\ op.m = "copy" => Count(op) \in 0 .. LEN /\ op.i + Count(op) <= LEN
         /\ op.m = "store" => /\ op.v \in Val
                              /\ \A c \in Cell : c \in Span(op) <=> op.i <= c /\ c < op.i + op.n
<1>1. op \in OpType /\ [i |-> op.i, n |-> op.n] \in Block /\ (op.m = "store" => op.v \in Val)
  BY OpFacts
<1>2. op.i \in Int /\ op.n \in Int /\ LEN \in Nat
  BY <1>1, RemoteAssumption DEF OpType
<1>3. op.i \in Cell
  BY DEF Refused
<1>4. 0 <= op.i /\ op.i <= LEN - 1
  BY <1>2, <1>3 DEF Cell
<1>5. op.m \in {"load", "store"} => op.n >= 0
  BY <1>2 DEF Refused
<1>6. op.m \in {"copy", "load"} => op.n <= LEN - op.i
  BY <1>2 DEF Refused
<1>7. op.m = "store" => op.n <= LEN - op.i
  <2> DEFINE b == [i |-> op.i, n |-> op.n]
  <2>1. b.i = op.i /\ b.n = op.n /\ b \in Block
    BY <1>1
  <2> HIDE DEF b
  <2>2. QED
    BY <1>3, <2>1 DEF StoresFit
<1>8. op.m = "copy" => Count(op) \in 0 .. LEN /\ op.i + Count(op) <= LEN
  BY <1>2, <1>4, <1>6 DEF Count
<1>9. op.m \in {"load", "store"} => op.n \in 0 .. LEN /\ op.i + op.n <= LEN
  BY <1>2, <1>4, <1>5, <1>6, <1>7
<1>10. op.m = "store" => \A c \in Cell : c \in Span(op) <=> op.i <= c /\ c < op.i + op.n
  <2>1. \A c \in Cell : c \in Int
    BY DEF Cell
  <2>2. QED
    BY <1>2, <1>5, <2>1 DEF Span
<1>11. QED
  BY <1>1, <1>2, <1>3, <1>8, <1>9, <1>10

\* An operation that only reads returns.
LEMMA ReadReturns ==
  ASSUME Known, NEW t \in Thread, NEW p \in Proxy, p = thr[t].p, NEW i \in Cell, NEW n \in 0 .. LEN,
         i + n <= LEN, thr[t].op.v = Null, thr[t].op.m # "enter",
         NEW vals, vals = Contain(last[Target[p]], i, n), Return(t, vals)
  PROVE  S!Next
<1>1. last' = last /\ inside' = inside /\ res' = [res EXCEPT ![t] = S!Normal(vals)]
  BY DEF Return, Writes
<1>2. Target[p] \in Obj
  BY KnownTypes
<1>3. QED
  BY <1>1, <1>2, ReadStep

\* An operation that neither reads nor writes returns.
LEMMA OtherReturns ==
  ASSUME NEW t \in Thread, thr[t].op.v = Null, thr[t].op.m # "enter", Return(t, << >>)
  PROVE  S!Next
<1>1. last' = last /\ inside' = inside /\ res' = [res EXCEPT ![t] = S!Normal(<< >>)]
  BY DEF Return, Writes
<1>2. QED
  BY <1>1, NothingStep

\* One that stores a cell returns.
LEMMA StoreReturns ==
  ASSUME Known, NEW t \in Thread, NEW p \in Proxy, p = thr[t].p, thr[t].op \in AllOp,
         thr[t].op.m \in {"put", "astore"}, Return(t, << >>)
  PROVE  S!Next
<1> DEFINE op == thr[t].op
           o == Target[p]
<1>1. op.v \in Val /\ op.i \in Int /\ \A c \in Cell : c \in Span(op) <=> c = op.i
  BY CellSpan
<1>2. o \in Obj /\ last \in [Obj -> [Cell -> Val]] /\ op.v # Null
  BY <1>1, KnownTypes, RemoteAssumption DEF Known, Contents
<1>3. /\ last' = [last EXCEPT ![o] = [c \in Cell |-> IF c \in Span(op) THEN op.v ELSE @[c]]]
      /\ inside' = inside /\ res' = [res EXCEPT ![t] = S!Normal(<< >>)]
  BY <1>2 DEF Return, Writes
<1> HIDE DEF op, o
<1>4. CASE op.i \in Cell
  <2>1. op.i + 1 <= LEN /\ 1 \in 0 .. LEN
    BY <1>4, RemoteAssumption DEF Cell
  <2>2. \A c \in Cell : c \in Span(op) <=> op.i <= c /\ c < op.i + 1
    BY <1>1 DEF Cell
  <2>3. QED
    BY <1>1, <1>2, <1>3, <1>4, <2>1, <2>2, WriteStep
<1>5. CASE op.i \notin Cell
  <2>1. \A c \in Cell : c \notin Span(op)
    BY <1>1, <1>5
  <2>2. [c \in Cell |-> IF c \in Span(op) THEN op.v ELSE last[o][c]] = last[o]
    BY <1>2, <2>1
  <2>3. last' = last
    BY <1>2, <1>3, <2>2
  <2>4. QED
    BY <1>3, <2>3, NothingStep
<1>6. QED
  BY <1>4, <1>5

\* A method that replaces a cell returns the old content.
LEMMA InvokeReturns ==
  ASSUME Known, NEW t \in Thread, NEW p \in Proxy, p = thr[t].p, thr[t].op \in AllOp,
         thr[t].op.m = "invoke", NEW vals, Return(t, vals),
         vals = Contain(last[Target[p]], thr[t].op.i, 1)
  PROVE  S!Next
<1> DEFINE op == thr[t].op
           o == Target[p]
<1>1. op.v \in Val /\ op.i \in Int /\ \A c \in Cell : c \in Span(op) <=> c = op.i
  BY CellSpan
<1>2. o \in Obj /\ last \in [Obj -> [Cell -> Val]] /\ op.v # Null /\ op.i \in Cell
  BY <1>1, KnownTypes, OpFacts, RemoteAssumption DEF Known, Contents
<1>3. /\ last' = [last EXCEPT ![o] = [c \in Cell |-> IF c \in Span(op) THEN op.v ELSE @[c]]]
      /\ inside' = inside /\ res' = [res EXCEPT ![t] = S!Normal(vals)]
  BY <1>2 DEF Return, Writes
<1>4. vals = <<last[o][op.i]>>
  <2> DEFINE m == last[o]
             i == op.i
  <2>1. Contain(m, i, 1) = [j \in 1 .. 1 |-> m[i + j - 1]]
    BY DEF Contain
  <2>2. i + 1 - 1 = i
    BY <1>1
  <2> HIDE DEF m, i
  <2>3. Contain(m, i, 1) = <<m[i]>>
    BY <2>1, <2>2
  <2>4. QED
    BY <2>3 DEF m, i
<1> HIDE DEF op, o
<1>5. op.v \in Val /\ op.i \in Cell /\ o \in Obj
  BY <1>1, <1>2
<1>6. \A c \in Cell : c \in Span(op) <=> c = op.i
  BY <1>1
<1>7. QED
  BY <1>2, <1>3, <1>4, <1>5, <1>6, ExchangeStep

\* A reply is received.
LEMMA ReceiveRefines ==
  ASSUME Known, NEW t \in Thread, Receive(t) PROVE S!Next
<1>1. thr[t].pc = "wait" /\ link[Wire(t)].rep # << >>
  BY DEF Receive, Replied
<1>2. PICK p \in Proxy, c \in Conn : p = thr[t].p /\ c = sock[p] /\ c = Wire(t)
  BY <1>1, TalkerFacts
<1>3. CASE Throw(t)
  BY <1>3, ThrowStep DEF Throw
<1>4. CASE /\ Answered(t).ok
           /\ thr[t].op.m \notin {"load", "store", "close"}
           /\ Return(t, Answered(t).vals)
  <2> DEFINE op == thr[t].op
             m == last[Target[p]]
             vals == Answered(t).vals
  <2>1. op \in AllOp /\ op.m \in OpNames /\ ~Refused(op)
    BY <1>1, KnownTypes, OpFacts DEF ThrOK
  <2>2. /\ Size(op) # 0 => op.i \in Cell
        /\ vals = Contain(m, op.i, Size(op))
    <3>1. ReadOK(t)
      BY DEF Known, Contents
    <3>2. Heard(thr[t], link[c], skel[c], m)
      BY <1>2, <3>1 DEF ReadOK
    <3>3. Head(link[c].rep).ok /\ vals = Head(link[c].rep).vals /\ link[c].rep # << >>
      BY <1>1, <1>2, <1>4 DEF Answered
    <3>4. QED
      BY <1>1, <1>4, <3>2, <3>3 DEF Heard
  <2>3. Return(t, vals)
    BY <1>4
  <2>4. \A i : Contain(m, i, 0) = << >>
    BY DEF Contain
  <2> HIDE DEF vals, m
  <2>5. CASE op.m \in {"get", "aload"}
    <3>1. Size(op) = 1 /\ op.i \in Cell /\ op.v = Null
      <4>1. Size(op) = 1
        BY <2>5 DEF Size
      <4>2. op.v = Null
        BY <2>1, <2>5, OpFacts
      <4>3. QED
        BY <2>2, <4>1, <4>2
    <3>2. 1 \in 0 .. LEN /\ op.i + 1 <= LEN
      BY <3>1, RemoteAssumption DEF Cell
    <3>3. vals = Contain(last[Target[p]], op.i, 1)
      BY <2>2, <3>1 DEF m
    <3>4. QED
      BY <1>2, <2>3, <2>5, <3>1, <3>2, <3>3, ReadReturns
  <2>6. CASE op.m = "copy"
    <3>1. Size(op) = Count(op) /\ op.v = Null
      BY <2>1, <2>6, OpFacts DEF Size
    <3>2. op.i \in Cell /\ Count(op) \in 0 .. LEN /\ op.i + Count(op) <= LEN
      BY <2>1, <2>6, BlockSpan
    <3>3. vals = Contain(last[Target[p]], op.i, Count(op))
      BY <2>2, <3>1 DEF m
    <3>4. QED
      BY <1>2, <2>3, <2>6, <3>1, <3>2, <3>3, ReadReturns
  <2>7. CASE op.m \in {"put", "astore"}
    <3>1. vals = << >>
      BY <2>2, <2>4, <2>7 DEF Size
    <3>2. QED
      BY <1>2, <2>1, <2>3, <2>7, <3>1, StoreReturns
  <2>8. CASE op.m = "invoke"
    <3>1. vals = Contain(last[Target[p]], op.i, 1)
      BY <2>2, <2>8 DEF Size, m
    <3>2. QED
      BY <1>2, <2>1, <2>3, <2>8, <3>1, InvokeReturns
  <2>9. CASE op.m = "enter"
    <3>1. vals = << >> /\ op.v = Null
      BY <2>1, <2>2, <2>4, <2>9, OpFacts DEF Size
    <3>2. /\ last' = last /\ inside' = [inside EXCEPT ![t] = p]
          /\ res' = [res EXCEPT ![t] = S!Normal(<< >>)]
      BY <1>2, <2>3, <2>9, <3>1 DEF Return, Writes
    <3>3. inside[t] = Null
      BY <1>1, <2>9 DEF Known, Monitors, UserOK
    <3>4. MonitorExclusion
      BY OneWithin DEF Known
    <3>5. MonitorExclusion'
      BY OneWithinNext DEF Known
    <3>6. inside \in [Thread -> Proxy \cup {Null}] /\ Target[p] \in Obj
      BY KnownTypes DEF Known, Conversation, RemoteTypes
    <3>7. QED
      BY <3>2, <3>3, <3>4, <3>5, <3>6, MonitorEnterStep
  <2>10. CASE op.m = "exit"
    <3>1. vals = << >> /\ op.v = Null
      BY <2>1, <2>2, <2>4, <2>10, OpFacts DEF Size
    <3>2. QED
      BY <2>3, <2>10, <3>1, OtherReturns
  <2>11. QED
    BY <1>4, <2>1, <2>5, <2>6, <2>7, <2>8, <2>9, <2>10 DEF OpNames
<1>5. QED
  BY <1>3, <1>4 DEF Receive

\* CLOSE, or the elements of a block
LEMMA BlockRefines ==
  ASSUME Known, NEW t \in Thread, ReceiveClose(t) \/ WriteElements(t) PROVE S!Next
<1>1. thr[t].pc = "wait" /\ Return(t, << >>) /\ thr[t].op.m \in {"close", "store"}
  BY DEF ReceiveClose, WriteElements, Replied
<1>2. PICK p \in Proxy, c \in Conn : p = thr[t].p /\ c = sock[p] /\ c = Wire(t)
  BY <1>1, TalkerFacts
<1>3. thr[t].op \in AllOp /\ ~Refused(thr[t].op)
  BY <1>1, KnownTypes DEF ThrOK
<1>4. CASE thr[t].op.m = "close"
  <2>1. thr[t].op.v = Null
    BY <1>3, <1>4, OpFacts
  <2>2. QED
    BY <1>1, <1>4, <2>1, OtherReturns
<1>5. CASE thr[t].op.m = "store"
  <2> DEFINE op == thr[t].op
             o == Target[p]
  <2>1. StoresFit
    BY DEF Known
  <2>2. /\ op.i \in Cell /\ op.n \in 0 .. LEN /\ op.i + op.n <= LEN /\ op.v \in Val
        /\ \A c1 \in Cell : c1 \in Span(op) <=> op.i <= c1 /\ c1 < op.i + op.n
    BY <1>3, <1>5, <2>1, BlockSpan
  <2>3. o \in Obj /\ op.v # Null
    BY <2>2, KnownTypes, RemoteAssumption
  <2>4. /\ last' = [last EXCEPT ![o] = [c1 \in Cell |-> IF c1 \in Span(op) THEN op.v ELSE @[c1]]]
        /\ inside' = inside /\ res' = [res EXCEPT ![t] = S!Normal(<< >>)]
    BY <1>1, <1>2, <1>5, <2>3 DEF Return, Writes
  <2> HIDE DEF op, o
  <2>5. QED
    BY <2>2, <2>3, <2>4, WriteStep
<1>6. QED
  BY <1>1, <1>4, <1>5

LEMMA ElementRefines ==
  ASSUME Known, NEW t \in Thread, ReceiveElement(t) PROVE S!Next \/ UNCHANGED <<last, inside, res>>
<1>1. CASE UNCHANGED <<flag, res, inside, last, unsure>>
  BY <1>1
<1>2. CASE thr[t].k = thr[t].op.n /\ Return(t, thr[t].got)
  <2> DEFINE op == thr[t].op
  <2>1. thr[t].pc = "elems"
    BY DEF ReceiveElement
  <2>2. PICK p \in Proxy, c \in Conn : p = thr[t].p /\ c = sock[p] /\ c = Wire(t)
    BY <2>1, TalkerFacts
  <2>3. op \in AllOp /\ op.m = "load" /\ op.v = Null /\ ~Refused(op)
    BY <2>1, LoadFacts, KnownTypes DEF ThrOK
  <2>4. op.i \in Cell /\ op.n \in 0 .. LEN /\ op.i + op.n <= LEN
    BY <2>3, BlockSpan
  <2>5. thr[t].got = Contain(last[Target[p]], op.i, op.n)
    <3>1. ReadOK(t)
      BY DEF Known, Contents
    <3>2. QED
      BY <1>2, <2>1, <2>2, <3>1 DEF ReadOK, Heard
  <2>6. QED
    BY <1>2, <2>2, <2>3, <2>4, <2>5, ReadReturns
<1>3. QED
  BY <1>1, <1>2 DEF ReceiveElement

\* An exception
LEMMA FailRefines ==
  ASSUME NEW t \in Thread, Throw(t) \/ Fail(t) PROVE S!Next
<1>1. res' = [res EXCEPT ![t] = S!Abrupt] /\ UNCHANGED <<last, inside>>
  BY DEF Throw, Fail
<1>2. QED
  BY <1>1, ThrowStep

\* The program performs an operation: it is out of a monitor it exits.
LEMMA CallRefines ==
  ASSUME Known, NEW t \in Thread, NEW p \in Proxy, NEW op \in MyOp, Call(t, p, op)
  PROVE  S!Next \/ UNCHANGED <<last, inside, res>>
<1>1. UNCHANGED <<last, res>> /\ Wants(t, p, op)
  BY DEF Call
<1>2. CASE op.m = "exit"
  <2>1. inside[t] = p /\ inside' = [inside EXCEPT ![t] = Null]
    BY <1>1, <1>2 DEF Call, Wants
  <2>2. MonitorExclusion
    BY OneWithin DEF Known
  <2>3. inside \in [Thread -> Proxy \cup {Null}] /\ Target[p] \in Obj
    BY KnownTypes, RemoteAssumption DEF Known, Conversation, RemoteTypes
  <2>4. QED
    BY <1>1, <2>1, <2>2, <2>3, MonitorExitStep
<1>3. CASE op.m # "exit"
  BY <1>1, <1>3 DEF Call
<1>4. QED
  BY <1>2, <1>3

LEMMA ClientRefines ==
  ASSUME Known, NEW t \in Thread, Client(t)
  PROVE  S!Next \/ UNCHANGED <<last, inside, res>>
<1>1. CASE Open(t) \/ BeginElements(t)
  BY <1>1 DEF Open, BeginElements
<1>2. CASE NotConnected(t) \/ Referred(t) \/ Send(t) \/ Broken(t)
  <2>1. Throw(t) \/ Fail(t) \/ UNCHANGED <<last, inside, res>>
    BY <1>2 DEF NotConnected, Referred, Send, Broken
  <2>2. QED
    BY <2>1, FailRefines
<1>3. QED
  BY <1>1, <1>2, ReceiveRefines, BlockRefines, ElementRefines DEF Client

\* Nothing that the server or the environment does is seen.
LEMMA Unseen ==
  ASSUME \/ \E c \in Conn : Server(c) \/ Drop(c)
         \/ \E o \in Obj : Expire(o) \/ Register(o)
  PROVE  UNCHANGED <<last, inside, res>>
<1>1. ASSUME NEW c \in Conn, Server(c) PROVE UNCHANGED cvars
  BY <1>1 DEF Server, ServeReference, ServeClose, ServeGet, ServeArrayLoad, ServePut, Put,
     NullAccess, NullAnswered, Unfit, ServeArrayStore, ServeInvoke, ServeEnter, Enter, ServeExit,
     ServeBlock, BlockRead, BlockWrite, Lost
<1>2. ASSUME NEW c \in Conn, Drop(c) PROVE UNCHANGED <<last, inside, res>>
  BY <1>2 DEF Drop
<1>3. ASSUME NEW o \in Obj, Expire(o) \/ Register(o) PROVE UNCHANGED cvars
  BY <1>3 DEF Expire, Register
<1>4. QED
  BY <1>1, <1>2, <1>3 DEF cvars

LEMMA NextRefines ==
  ASSUME Known, [Next]_vars PROVE [S!Next]_(S!svars)
<1>1. UNCHANGED <<last, inside, res>> => UNCHANGED S!svars
  <2>1. UNCHANGED inside => UNCHANGED Holder
    BY DEF Holder, Within
  <2>2. S!svars = <<last, Holder, res>>
    BY DEF S!svars, Holder, Member, Within
  <2>3. (S!svars)' = <<last', Holder', res'>>
    BY DEF S!svars, Holder, Member, Within
  <2>4. QED
    BY <2>1, <2>2, <2>3
<1>2. S!Next \/ UNCHANGED <<last, inside, res>>
  <2>1. CASE UNCHANGED vars
    BY <2>1 DEF vars
  <2>2. CASE Next
    BY <2>2, ClientRefines, CallRefines, Unseen DEF Next
  <2>3. QED
    BY <2>1, <2>2
<1>3. QED
  BY <1>1, <1>2

LEMMA InitRefines == ASSUME Init PROVE S!Init
<1>1. \E v \in Val : last = [o \in Obj |-> [i \in S!Cell |-> v]]
  BY DEF Init, Cell, S!Cell
<1>2. Holder = [o \in Obj |-> Null]
  BY DEF Init, Holder, Member, Within
<1>3. res = [t \in Thread |-> S!Normal(<< >>)]
  BY DEF Init
<1>4. QED
  BY <1>1, <1>2, <1>3 DEF S!Init, Holder, Member, Within

\* A program that guards an object it shares sees, over connections that do not
\* break, what it would see of objects in its own machine: each operation takes
\* effect once, as a whole, when it returns; a value read is the one last
\* written; one thread is inside a monitor.
THEOREM RemoteLikeLocal ==
  ASSUME Unshared, StoresFit, Guarded, Reliable
  PROVE  Spec => SingleVMSpec
<1>1. Init => Conversation /\ Monitors /\ Contents
  BY ConversationInit, MonitorsInit, ContentsInit
<1>2. (Conversation /\ Monitors /\ Contents) /\ [Next]_vars => (Conversation /\ Monitors /\ Contents)'
  BY InvariantNext DEF Known
<1>3. Init => S!Init
  BY InitRefines
<1>4. (Conversation /\ Monitors /\ Contents) /\ [Next]_vars => [S!Next]_(S!svars)
  BY InvariantNext, NextRefines
<1>5. QED
  BY <1>1, <1>2, <1>3, <1>4, PTL DEF Spec, SingleVMSpec, S!Spec
=============================================================================
