-------------------------- MODULE InvocationProofs --------------------------
(***************************************************************************)
(* Invocation, for any program, any stacks and any number of calls.        *)
(*                                                                         *)
(* - Of the activations on the native stack only the innermost can still   *)
(*   have a method to start: each call starts one at most once.            *)
(* - The layouts of arguments on the two stacks, for C functions and for a *)
(*   remote VM are converted into each other, for every signature.         *)
(* - The native stack and the Java stack stay in step (Laid). From it:     *)
(*   everybody gets the words of his call, and variables are kept.         *)
(* - The monitors held are those of the activations, in their order.       *)
(***************************************************************************)
EXTENDS Invocation, StackLemmas
-----------------------------------------------------------------------------
(* The invariant.                                                          *)

ActFields == {"k", "m", "c", "loc", "st", "inv", "inl", "call"}
ActRec(r) == r = [i \in ActFields |-> r[i]]

\* The activation has still to start the method of its call: the helper until
\* it has called the native function, an invoker or the interpreter;
\* compileAndInvokeMethod() until it has called one of the two;
\* invokeJITCompiledMethod() until it has called the code; proxy_invoke() until
\* the answer is there.
Pending(r) ==
  \/ r.k = "helper" /\ r.st \in {"entry", "invoke"}
  \/ r.k = "helper" /\ r.st = "invoked" /\ r.inv = "java"
  \/ r.k = "candi" /\ r.st \in {"entry", "compiling", "compiled", "normal"}
  \/ r.k = "jit" /\ r.st = "entry"
  \/ r.k = "remote" /\ r.st = "run"

\* call c was made and has not started its method
Fresh(c, e, n) == c \in 1 .. n /\ \A i \in DOMAIN e : e[i] # c

\* Only the innermost activation can have a method to start, and it is the
\* activation of a call that has not started one yet.
StkOK(s, e, n) ==
  /\ IsSeq(s) /\ Len(s) >= 1 /\ s[1].k = "interp"
  /\ \A i \in 1 .. Len(s) : ActRec(s[i])
  /\ \A i \in 1 .. Len(s) : i < Len(s) => ~ Pending(s[i])
  /\ Pending(s[Len(s)]) => Fresh(s[Len(s)].c, e, n)

\* The calls that have started are calls that were made, none twice.
EnteredOK(e, n) ==
  /\ IsSeq(e) /\ n \in Nat
  /\ \A i \in DOMAIN e : e[i] \in 1 .. n
  /\ \A i, j \in DOMAIN e : e[i] = e[j] => i = j

Once == StkOK(stk, entered, calls) /\ EnteredOK(entered, calls)

-----------------------------------------------------------------------------
(* The moves of the thread.                                                *)

\* The running activation
LEMMA TopFacts ==
  ASSUME Once
  PROVE  /\ IsSeq(stk) /\ Len(stk) \in Nat /\ Len(stk) >= 1 /\ stk # << >>
         /\ ActRec(Top) /\ Top = stk[Len(stk)]
         /\ Top.k # "interp" => Len(stk) > 1
         /\ Pending(Top) => Fresh(Top.c, entered, calls)
<1>1. IsSeq(stk) /\ Len(stk) >= 1 /\ stk[1].k = "interp" /\ \A i \in 1 .. Len(stk) : ActRec(stk[i])
  BY DEF Once, StkOK
<1>2. PICK n \in Nat : n = Len(stk)
  BY <1>1, SeqFacts
<1>3. n >= 1 /\ n \in 1 .. n
  BY <1>1, <1>2
<1>4. ActRec(stk[n])
  BY <1>1, <1>2, <1>3
<1>5. stk # << >>
  BY <1>1, <1>2, <1>3, SeqFacts
<1>6. stk[n].k # "interp" => n > 1
  BY <1>1, <1>3
<1>7. QED
  BY <1>1, <1>2, <1>3, <1>4, <1>5, <1>6 DEF Top, Once, StkOK

\* The running activation goes on.
LEMMA StkSet ==
  ASSUME Once, NEW f, ActRec(f), f.k = Top.k, NEW e, NEW n, Pending(f) => Fresh(f.c, e, n),
         NEW r, r = [stk EXCEPT ![Len(stk)] = f]
  PROVE  StkOK(r, e, n) /\ r # << >> /\ Len(r) = Len(stk) /\ r[Len(r)] = f
<1>1. /\ IsSeq(stk) /\ Len(stk) \in Nat /\ Len(stk) >= 1 /\ stk # << >> /\ Top = stk[Len(stk)]
  BY TopFacts
<1>2. PICK l \in Nat : l = Len(stk)
  BY <1>1
<1>3. IsSeq(r)
  BY <1>1, PutTop
<1>4. Len(r) = l
  BY <1>1, <1>2, PutTop
<1>5. r[l] = f
  BY <1>1, <1>2, PutTop
<1>6. \A i \in 1 .. l : i < l => r[i] = stk[i]
  BY <1>1, <1>2, PutTop
<1>7. l >= 1 /\ stk[1].k = "interp" /\ f.k = stk[l].k
  BY <1>1, <1>2 DEF Once, StkOK
<1>8. /\ \A i \in 1 .. l : ActRec(stk[i])
      /\ \A i \in 1 .. l : i < l => ~ Pending(stk[i])
  BY <1>2 DEF Once, StkOK
<1>9. r[1].k = "interp"
  <2>1. CASE l = 1
    BY <1>5, <1>7, <2>1
  <2>2. CASE l > 1
    BY <1>6, <1>7, <2>2
  <2>3. QED
    BY <1>7, <2>1, <2>2
<1>10. ASSUME NEW i \in 1 .. l PROVE ActRec(r[i]) /\ (i < l => ~ Pending(r[i]))
  <2>1. CASE i < l
    BY <1>6, <1>8, <2>1
  <2>2. CASE i = l
    BY <1>5, <2>2
  <2>3. QED
    BY <2>1, <2>2
<1>11. r # << >>
  BY <1>3, <1>4, <1>7, SeqFacts
<1>12. StkOK(r, e, n)
  BY <1>3, <1>4, <1>5, <1>7, <1>9, <1>10 DEF StkOK
<1>13. QED
  BY <1>2, <1>4, <1>5, <1>11, <1>12

\* A new activation above one that has nothing to start
LEMMA StkGrow ==
  ASSUME NEW s, NEW e, NEW n, StkOK(s, e, n), NEW l \in Nat, l = Len(s), ~ Pending(s[l]),
         NEW g, ActRec(g), Pending(g) => Fresh(g.c, e, n),
         NEW r, NEW x, x = l + 1, IsSeq(r), Len(r) = x, r[x] = g,
         \A i \in 1 .. l : r[i] = s[i]
  PROVE  StkOK(r, e, n)
<1>1. /\ l >= 1 /\ s[1].k = "interp"
      /\ \A i \in 1 .. l : ActRec(s[i])
      /\ \A i \in 1 .. l : i < l => ~ Pending(s[i])
  BY DEF StkOK
<1>2. ASSUME NEW i \in 1 .. x PROVE ActRec(r[i]) /\ (i < x => ~ Pending(r[i]))
  <2>1. CASE i < l
    BY <1>1, <2>1
  <2>2. CASE i = l
    BY <1>1, <2>2
  <2>3. CASE i = x
    BY <2>3
  <2>4. QED
    BY <2>1, <2>2, <2>3
<1>3. r[1].k = "interp" /\ x >= 1
  BY <1>1
<1>4. QED
  BY <1>2, <1>3 DEF StkOK

\* The running activation calls.
LEMMA StkCall ==
  ASSUME Once, NEW f, ActRec(f), f.k = Top.k, ~ Pending(f), NEW e, NEW n,
         NEW g, ActRec(g), Pending(g) => Fresh(g.c, e, n),
         NEW r, r = Append([stk EXCEPT ![Len(stk)] = f], g)
  PROVE  StkOK(r, e, n)
<1>1. PICK s : s = [stk EXCEPT ![Len(stk)] = f]
  OBVIOUS
<1>2. StkOK(s, e, n)
  BY <1>1, StkSet
<1>3. s[Len(s)] = f
  BY <1>1, StkSet
<1>4. IsSeq(s)
  BY <1>2 DEF StkOK
<1>5. PICK l \in Nat : l = Len(s)
  BY <1>4, SeqFacts
<1>6. PICK x : x = l + 1
  OBVIOUS
<1>7. r = Append(s, g)
  BY <1>1
<1>8. IsSeq(r)
  BY <1>4, <1>7, Push
<1>9. Len(r) = x
  BY <1>4, <1>5, <1>6, <1>7, Push
<1>10. r[x] = g
  BY <1>4, <1>5, <1>6, <1>7, Push
<1>11. \A i \in 1 .. l : r[i] = s[i]
  BY <1>4, <1>5, <1>7, Push
<1>12. ~ Pending(s[l])
  BY <1>3, <1>5
<1>13. QED
  BY <1>2, <1>5, <1>6, <1>8, <1>9, <1>10, <1>11, <1>12, StkGrow

\* The running activation returns.
LEMMA StkReturn ==
  ASSUME Once, Len(stk) > 1, NEW e, NEW n, NEW r, r = Front(stk)
  PROVE  StkOK(r, e, n)
<1>1. IsSeq(stk) /\ stk # << >>
  BY TopFacts
<1>2. PICK l \in Nat : l = Len(stk)
  BY <1>1, SeqFacts
<1>3. r = SubSeq(stk, 1, Len(stk) - 1)
  BY DEF Front
<1>4. IsSeq(r)
  BY <1>1, <1>3, Pop
<1>5. Len(r) = Len(stk) - 1
  BY <1>1, <1>3, Pop
<1>6. \A i \in 1 .. Len(r) : r[i] = stk[i]
  BY <1>1, <1>3, Pop
<1>7. PICK x \in Nat : x = Len(r)
  BY <1>4, SeqFacts
<1>8. x = l - 1 /\ l > 1
  BY <1>2, <1>5, <1>7
<1>9. /\ stk[1].k = "interp"
      /\ \A i \in 1 .. l : ActRec(stk[i])
      /\ \A i \in 1 .. l : i < l => ~ Pending(stk[i])
  BY <1>2 DEF Once, StkOK
<1>10. \A i \in 1 .. x : r[i] = stk[i] /\ i \in 1 .. l /\ i < l
  BY <1>6, <1>7, <1>8
<1>11. x >= 1 /\ 1 \in 1 .. x /\ x \in 1 .. x
  BY <1>8
<1>12. r[1].k = "interp" /\ ~ Pending(r[x])
  BY <1>9, <1>10, <1>11
<1>13. \A i \in 1 .. x : ActRec(r[i]) /\ ~ Pending(r[i])
  BY <1>9, <1>10
<1>14. QED
  BY <1>4, <1>7, <1>11, <1>12, <1>13 DEF StkOK

\* A call that was made has not started a method.
LEMMA NewCall ==
  ASSUME NEW e, NEW n, EnteredOK(e, n)
  PROVE  n + 1 \in Nat /\ Fresh(n + 1, e, n + 1) /\ EnteredOK(e, n + 1)
<1>1. n \in Nat /\ \A i \in DOMAIN e : e[i] \in 1 .. n
  BY DEF EnteredOK
<1>2. \A i \in DOMAIN e : e[i] \in 1 .. n + 1 /\ e[i] # n + 1
  BY <1>1
<1>3. QED
  BY <1>1, <1>2 DEF EnteredOK, Fresh

\* A call starts its method.
LEMMA Start ==
  ASSUME NEW e, NEW n, EnteredOK(e, n), NEW c, Fresh(c, e, n), NEW d, d = Append(e, c)
  PROVE  EnteredOK(d, n)
<1>1. IsSeq(e) /\ n \in Nat
  BY DEF EnteredOK
<1>2. PICK l \in Nat : l = Len(e)
  BY <1>1, SeqFacts
<1>3. IsSeq(d)
  BY <1>1, Push
<1>4. Len(d) = l + 1
  BY <1>1, <1>2, Push
<1>5. d[l + 1] = c
  BY <1>1, <1>2, Push
<1>6. \A i \in 1 .. l : d[i] = e[i]
  BY <1>1, <1>2, Push
<1>7. DOMAIN e = 1 .. l /\ DOMAIN d = 1 .. l + 1
  BY <1>1, <1>2, <1>3, <1>4, SeqFacts
<1>8. c \in 1 .. n /\ \A i \in 1 .. l : e[i] \in 1 .. n /\ e[i] # c
  BY <1>7 DEF EnteredOK, Fresh
<1>9. \A i, j \in 1 .. l : e[i] = e[j] => i = j
  BY <1>7 DEF EnteredOK
<1>10. \A i \in 1 .. l + 1 : i \in 1 .. l \/ i = l + 1
  BY <1>2
<1>11. ASSUME NEW i \in 1 .. l + 1 PROVE d[i] \in 1 .. n
  BY <1>5, <1>6, <1>8, <1>10, Zenon
<1>12. ASSUME NEW i \in 1 .. l + 1, NEW j \in 1 .. l + 1, d[i] = d[j] PROVE i = j
  BY <1>5, <1>6, <1>8, <1>9, <1>10, <1>12, Zenon
<1>13. QED
  BY <1>1, <1>3, <1>7, <1>11, <1>12, Zenon DEF EnteredOK
-----------------------------------------------------------------------------
(* The actions.                                                            *)

LEMMA ActFacts ==
  ASSUME NEW k, NEW m, NEW c, NEW loc, NEW a, a = Activation(k, m, c, loc)
  PROVE  /\ ActRec(a) /\ a.k = k /\ a.m = m /\ a.c = c
         /\ k \notin {"helper", "candi", "jit", "remote"} => ~ Pending(a)
<1>1. ActRec(a) /\ a.k = k /\ a.m = m /\ a.c = c
  BY DEF Activation, ActRec, ActFields
<1>2. QED
  BY <1>1 DEF Pending

\* At(st) and Await(m, c) change the running activation only.
LEMMA AtForm ==
  ASSUME Once, NEW st
  PROVE  \E f : /\ At(st) = [stk EXCEPT ![Len(stk)] = f]
                /\ ActRec(f) /\ f.k = Top.k /\ f.c = Top.c /\ f.inv = Top.inv /\ f.st = st
<1>1. PICK f : f = [Top EXCEPT !.st = st]
  OBVIOUS
<1>2. ActRec(Top) /\ Top = stk[Len(stk)]
  BY TopFacts
<1>3. ActRec(f) /\ f.k = Top.k /\ f.c = Top.c /\ f.inv = Top.inv /\ f.st = st
  BY <1>1, <1>2 DEF ActRec, ActFields
<1>4. At(st) = [stk EXCEPT ![Len(stk)] = f]
  BY <1>1, <1>2 DEF At
<1>5. QED
  BY <1>3, <1>4

LEMMA AwaitForm ==
  ASSUME Once, NEW m, NEW c
  PROVE  \E f : /\ Await(m, c) = [stk EXCEPT ![Len(stk)] = f]
                /\ ActRec(f) /\ f.k = Top.k /\ f.st = "ret"
<1>1. PICK x : x = <<m, c>>
  OBVIOUS
<1>2. PICK g : g = [Top EXCEPT !.st = "ret"]
  OBVIOUS
<1>3. PICK f : f = [g EXCEPT !.call = x]
  OBVIOUS
<1>4. /\ ActRec(Top) /\ Top = stk[Len(stk)] /\ IsSeq(stk) /\ Len(stk) \in Nat
      /\ Len(stk) >= 1
  BY TopFacts
<1>5. ActRec(g) /\ g.k = Top.k /\ g.st = "ret"
  BY <1>2, <1>4 DEF ActRec, ActFields
<1>6. ActRec(f) /\ f.k = Top.k /\ f.st = "ret"
  BY <1>3, <1>5 DEF ActRec, ActFields
<1>7. PICK s : s = [stk EXCEPT ![Len(stk)] = g]
  OBVIOUS
<1>8. Len(stk) \in DOMAIN stk
  BY <1>4, SeqFacts
<1>9. s[Len(stk)] = g
  BY <1>7, <1>8
<1>10. Await(m, c) = [s EXCEPT ![Len(stk)].call = x]
  BY <1>1, <1>2, <1>4, <1>7, <1>8 DEF Await
<1>11. [s EXCEPT ![Len(stk)].call = x] = [s EXCEPT ![Len(stk)] = f]
  BY <1>3, <1>9
<1>12. [s EXCEPT ![Len(stk)] = f] = [stk EXCEPT ![Len(stk)] = f]
  BY <1>7
<1>13. QED
  BY <1>6, <1>10, <1>11, <1>12

\* A step that neither makes a call nor starts a method
LEMMA OnceAt ==
  ASSUME Once, NEW st, stk' = At(st), UNCHANGED <<entered, calls>>,
         NEW f, At(st) = [stk EXCEPT ![Len(stk)] = f], ActRec(f), f.k = Top.k,
         Pending(f) => Fresh(f.c, entered, calls)
  PROVE  Once'
<1>1. StkOK(At(st), entered, calls)
  BY StkSet
<1>2. QED
  BY <1>1 DEF Once

LEMMA OncePop ==
  ASSUME Once, Len(stk) > 1, stk' = Front(stk), UNCHANGED <<entered, calls>>
  PROVE  Once'
<1>1. StkOK(stk', entered, calls)
  BY StkReturn
<1>2. QED
  BY <1>1 DEF Once

\* The stack stays.
LEMMA OnceStay ==
  ASSUME Once, UNCHANGED <<stk, entered, calls>>
  PROVE  Once'
BY DEF Once

\* The running activation makes a new call; entered' is e.
LEMMA OnceNew ==
  ASSUME Once, ~ Pending(Top), Top.k \notin {"helper", "candi", "jit", "remote"}, NEW m,
         NEW g, ActRec(g), g.c = calls + 1,
         stk' = Append(Await(m, calls + 1), g), calls' = calls + 1,
         \/ entered' = entered
         \/ entered' = Append(entered, calls + 1) /\ ~ Pending(g)
  PROVE  Once'
<1>1. PICK f : /\ Await(m, calls + 1) = [stk EXCEPT ![Len(stk)] = f]
               /\ ActRec(f) /\ f.k = Top.k /\ f.st = "ret"
  BY AwaitForm
<1>2. ~ Pending(f)
  BY <1>1 DEF Pending
<1>3. PICK n : n = calls + 1
  OBVIOUS
<1>4. EnteredOK(entered, calls)
  BY DEF Once
<1>5. Fresh(n, entered, n) /\ EnteredOK(entered, n)
  BY <1>3, <1>4, NewCall
<1>6. PICK r : r = Append([stk EXCEPT ![Len(stk)] = f], g)
  OBVIOUS
<1>7. stk' = r
  BY <1>1, <1>6
<1>8. CASE entered' = entered
  <2>1. StkOK(r, entered, n)
    BY <1>1, <1>2, <1>3, <1>5, <1>6, StkCall
  <2>2. QED
    BY <1>3, <1>5, <1>7, <1>8, <2>1 DEF Once
<1>9. CASE entered' = Append(entered, calls + 1) /\ ~ Pending(g)
  <2>1. PICK d : d = Append(entered, n)
    OBVIOUS
  <2>2. EnteredOK(d, n)
    BY <1>5, <2>1, Start
  <2>3. StkOK(r, d, n)
    BY <1>1, <1>2, <1>6, <1>9, StkCall
  <2>4. entered' = d
    BY <1>3, <1>9, <2>1
  <2>5. QED
    BY <1>3, <1>7, <2>2, <2>3, <2>4 DEF Once
<1>10. QED
  BY <1>8, <1>9

\* The running activation passes its call on, or starts its method.
LEMMA OncePass ==
  ASSUME Once, Pending(Top), NEW st, NEW f, At(st) = [stk EXCEPT ![Len(stk)] = f],
         ActRec(f), f.k = Top.k, ~ Pending(f), NEW g, ActRec(g), g.c = Top.c,
         stk' = Append(At(st), g), UNCHANGED calls,
         \/ entered' = entered
         \/ entered' = Append(entered, Top.c) /\ ~ Pending(g)
  PROVE  Once'
<1>1. Fresh(Top.c, entered, calls)
  BY TopFacts
<1>2. EnteredOK(entered, calls)
  BY DEF Once
<1>3. PICK r : r = Append([stk EXCEPT ![Len(stk)] = f], g)
  OBVIOUS
<1>4. stk' = r
  BY <1>3
<1>5. CASE entered' = entered
  <2>1. StkOK(r, entered, calls)
    BY <1>1, <1>3, StkCall
  <2>2. QED
    BY <1>2, <1>4, <1>5, <2>1 DEF Once
<1>6. CASE entered' = Append(entered, Top.c) /\ ~ Pending(g)
  <2>1. PICK d : d = Append(entered, Top.c)
    OBVIOUS
  <2>2. EnteredOK(d, calls)
    BY <1>1, <1>2, <2>1, Start
  <2>3. StkOK(r, d, calls)
    BY <1>3, <1>6, StkCall
  <2>4. QED
    BY <1>4, <1>6, <2>1, <2>2, <2>3 DEF Once
<1>7. QED
  BY <1>5, <1>6

\* The kinds of an activation that never has a method to start
LEMMA NoPending ==
  ASSUME NEW r, r.k \notin {"helper", "candi", "jit", "remote"}
  PROVE  ~ Pending(r)
BY DEF Pending

\* The running activation changes and no call is made.
LEMMA OnceSet ==
  ASSUME Once, NEW f, ActRec(f), f.k = Top.k, Pending(f) => Fresh(f.c, entered, calls),
         stk' = [stk EXCEPT ![Len(stk)] = f], UNCHANGED <<entered, calls>>
  PROVE  Once'
<1>1. StkOK(stk', entered, calls)
  BY StkSet
<1>2. QED
  BY <1>1 DEF Once

\* At(st), where the activation has nothing to start, or goes on having it
LEMMA OnceGoesOn ==
  ASSUME Once, NEW st, stk' = At(st), UNCHANGED <<entered, calls>>,
         NEW f, At(st) = [stk EXCEPT ![Len(stk)] = f], ActRec(f), f.k = Top.k, f.c = Top.c,
         Pending(f) => Pending(Top)
  PROVE  Once'
<1>1. Pending(Top) => Fresh(Top.c, entered, calls)
  BY TopFacts
<1>2. QED
  BY <1>1, OnceAt

LEMMA InvokeCoreOnce ==
  ASSUME Once, NEW m, InvokeCore(m)
  PROVE  Once'
<1>1. Top.k = "comp" /\ calls' = calls + 1
  BY DEF InvokeCore, Running
<1>2. Top.k \notin {"helper", "candi", "jit", "remote"}
  BY <1>1
<1>3. ~ Pending(Top)
  BY <1>2, NoPending
<1>4. PICK w : w = NativeWords(m, calls + 1)
  OBVIOUS
<1>5. CASE compiled[m]
  <2>1. PICK g : g = Activation("comp", m, calls + 1, w)
    OBVIOUS
  <2>2. stk' = Append(Await(m, calls + 1), g) /\ entered' = Append(entered, calls + 1)
    BY <1>4, <1>5, <2>1 DEF InvokeCore, InvokeDirect
  <2>3. ActRec(g) /\ g.c = calls + 1 /\ ~ Pending(g)
    BY <2>1, ActFacts
  <2>4. QED
    BY <1>1, <1>2, <1>3, <2>2, <2>3, OnceNew
<1>6. CASE ~ compiled[m]
  <2>1. PICK g : g = Activation("helper", m, calls + 1, w)
    OBVIOUS
  <2>2. stk' = Append(Await(m, calls + 1), g) /\ entered' = entered
    BY <1>4, <1>6, <2>1 DEF InvokeCore, InvokeHelper
  <2>3. ActRec(g) /\ g.c = calls + 1
    BY <2>1, ActFacts
  <2>4. QED
    BY <1>1, <1>2, <1>3, <2>2, <2>3, OnceNew
<1>7. QED
  BY <1>5, <1>6

LEMMA RemoteInvokeOnce ==
  ASSUME Once, NEW m, RemoteInvoke(m)
  PROVE  Once'
<1>1. Top.k = "comp" /\ calls' = calls + 1 /\ entered' = entered
  BY DEF RemoteInvoke, Running
<1>2. Top.k \notin {"helper", "candi", "jit", "remote"}
  BY <1>1
<1>3. ~ Pending(Top)
  BY <1>2, NoPending
<1>4. PICK g : g = Activation("remote", m, calls + 1, NativeWords(m, calls + 1))
  OBVIOUS
<1>5. stk' = Append(Await(m, calls + 1), g)
  BY <1>4 DEF RemoteInvoke
<1>6. ActRec(g) /\ g.c = calls + 1
  BY <1>4, ActFacts
<1>7. QED
  BY <1>1, <1>2, <1>3, <1>5, <1>6, OnceNew

LEMMA InterpCallOnce ==
  ASSUME Once, NEW m, InterpCall(m)
  PROVE  Once'
<1>1. Top.k = "interp" /\ calls' = calls + 1
  BY DEF InterpCall, Running
<1>2. Top.k \notin {"helper", "candi", "jit", "remote"}
  BY <1>1
<1>3. ~ Pending(Top)
  BY <1>2, NoPending
<1>4. PICK w : w = Put(mem, optop, JVMWords(m, calls + 1))
  OBVIOUS
<1>5. PICK c : c = calls + 1
  OBVIOUS
<1>6. InvokeByJVM(m, c, w)
  BY <1>4, <1>5 DEF InterpCall
<1>7. CASE /\ invoker[m] \in {"candi", "jit"}
           /\ stk' = Append(Await(m, c), Activation(invoker[m], m, c, <<>>))
           /\ entered' = entered
  <2>1. PICK g : g = Activation(invoker[m], m, c, <<>>)
    OBVIOUS
  <2>2. ActRec(g) /\ g.c = c
    BY <2>1, ActFacts
  <2>3. QED
    BY <1>1, <1>2, <1>3, <1>5, <1>7, <2>1, <2>2, OnceNew
<1>8. CASE /\ invoker[m] \in {"java", "native"}
           /\ stk' = Append(Await(m, c),
                            Activation(IF invoker[m] = "java" THEN "interp" ELSE "native",
                                       m, c, JVMWords(m, c)))
           /\ entered' = Append(entered, c)
  <2>1. PICK k : k = IF invoker[m] = "java" THEN "interp" ELSE "native"
    OBVIOUS
  <2>2. PICK g : g = Activation(k, m, c, JVMWords(m, c))
    OBVIOUS
  <2>3. k \notin {"helper", "candi", "jit", "remote"}
    BY <2>1
  <2>4. ActRec(g) /\ g.c = c /\ ~ Pending(g)
    BY <2>2, <2>3, ActFacts
  <2>5. stk' = Append(Await(m, c), g)
    BY <1>8, <2>1, <2>2
  <2>6. QED
    BY <1>1, <1>2, <1>3, <1>5, <1>8, <2>4, <2>5, OnceNew
<1>9. QED
  BY <1>6, <1>7, <1>8 DEF InvokeByJVM

LEMMA NativeCallOnce ==
  ASSUME Once, NEW m, NativeCall(m)
  PROVE  Once'
<1>1. Top.k \in {"jni", "nmi"} /\ calls' = calls + 1 /\ entered' = entered
  BY DEF NativeCall
<1>2. Top.k \notin {"helper", "candi", "jit", "remote"}
  BY <1>1
<1>3. ~ Pending(Top)
  BY <1>2, NoPending
<1>4. PICK g : g = Activation(invoker[m], m, calls + 1, <<>>)
  OBVIOUS
<1>5. stk' = Append(Await(m, calls + 1), g)
  BY <1>4 DEF NativeCall
<1>6. ActRec(g) /\ g.c = calls + 1
  BY <1>4, ActFacts
<1>7. QED
  BY <1>1, <1>2, <1>3, <1>5, <1>6, OnceNew

LEMMA InlinedEnterOnce ==
  ASSUME Once, NEW m, InlinedEnter(m)
  PROVE  Once'
<1>1. Top.k = "comp" /\ calls' = calls + 1 /\ entered' = Append(entered, calls + 1)
  BY DEF InlinedEnter, Running
<1>2. ActRec(Top) /\ Top = stk[Len(stk)]
  BY TopFacts
<1>3. PICK x : x = <<[m |-> m, c |-> calls + 1, loc |-> NativeWords(m, calls + 1)]>>
  OBVIOUS
<1>4. PICK f : f = [Top EXCEPT !.inl = x]
  OBVIOUS
<1>5. stk' = [stk EXCEPT ![Len(stk)] = f]
  BY <1>2, <1>3, <1>4 DEF InlinedEnter
<1>6. ActRec(f) /\ f.k = "comp"
  BY <1>1, <1>2, <1>4 DEF ActRec, ActFields
<1>7. ~ Pending(f)
  BY <1>6, NoPending
<1>8. PICK n : n = calls + 1
  OBVIOUS
<1>9. EnteredOK(entered, calls)
  BY DEF Once
<1>10. Fresh(n, entered, n) /\ EnteredOK(entered, n)
  BY <1>8, <1>9, NewCall
<1>11. PICK d : d = Append(entered, n)
  OBVIOUS
<1>12. EnteredOK(d, n)
  BY <1>10, <1>11, Start
<1>13. StkOK(stk', d, n)
  BY <1>1, <1>5, <1>6, <1>7, StkSet
<1>14. QED
  BY <1>1, <1>8, <1>11, <1>12, <1>13 DEF Once

LEMMA InlinedExitOnce ==
  ASSUME Once, InlinedExit
  PROVE  Once'
<1>1. Top.k = "comp" /\ UNCHANGED <<entered, calls>>
  BY DEF InlinedExit, Running
<1>2. ActRec(Top) /\ Top = stk[Len(stk)]
  BY TopFacts
<1>3. PICK f : f = [Top EXCEPT !.inl = << >>]
  OBVIOUS
<1>4. stk' = [stk EXCEPT ![Len(stk)] = f]
  BY <1>2, <1>3 DEF InlinedExit
<1>5. ActRec(f) /\ f.k = "comp"
  BY <1>1, <1>2, <1>3 DEF ActRec, ActFields
<1>6. ~ Pending(f)
  BY <1>5, NoPending
<1>7. QED
  BY <1>1, <1>4, <1>5, <1>6, OnceSet

\* Compiled code goes on at a handler, or leaves.
LEMMA CatchOnce ==
  ASSUME Once, Top.k = "comp", Catch
  PROVE  Once'
<1>1. UNCHANGED <<entered, calls>>
  BY DEF Catch
<1>2. PICK x, y : x = "run" /\ y = << >>
  OBVIOUS
<1>3. /\ ActRec(Top) /\ Top = stk[Len(stk)] /\ IsSeq(stk) /\ Len(stk) \in Nat
      /\ Len(stk) >= 1
  BY TopFacts
<1>4. PICK g : g = [Top EXCEPT !.st = x]
  OBVIOUS
<1>5. PICK f : f = [g EXCEPT !.inl = y]
  OBVIOUS
<1>6. ActRec(g) /\ g.k = Top.k /\ g.c = Top.c /\ g.st = x
  BY <1>3, <1>4 DEF ActRec, ActFields
<1>7. ActRec(f) /\ f.k = Top.k /\ f.c = Top.c /\ f.st = x
  BY <1>5, <1>6 DEF ActRec, ActFields
<1>8. PICK s : s = [stk EXCEPT ![Len(stk)] = g]
  OBVIOUS
<1>9. Len(stk) \in DOMAIN stk
  BY <1>3, SeqFacts
<1>10. s[Len(stk)] = g
  BY <1>8, <1>9
<1>11. stk' = [s EXCEPT ![Len(stk)].inl = y]
  BY <1>2, <1>3, <1>4, <1>8, <1>9 DEF Catch
<1>12. [s EXCEPT ![Len(stk)].inl = y] = [s EXCEPT ![Len(stk)] = f]
  BY <1>5, <1>10
<1>13. [s EXCEPT ![Len(stk)] = f] = [stk EXCEPT ![Len(stk)] = f]
  BY <1>8
<1>14. stk' = [stk EXCEPT ![Len(stk)] = f]
  BY <1>11, <1>12, <1>13
<1>15. ~ Pending(f)
  BY <1>7, NoPending
<1>16. QED
  BY <1>1, <1>7, <1>14, <1>15, OnceSet

LEMMA TailOnce ==
  ASSUME Once, Top.k = "comp", NEW w, MethodTail(w)
  PROVE  Once'
<1>1. stk' = Front(stk) /\ UNCHANGED <<entered, calls>>
  BY DEF MethodTail
<1>2. Len(stk) > 1
  BY TopFacts
<1>3. QED
  BY <1>1, <1>2, OncePop

LEMMA CompiledOnce ==
  ASSUME Once, CompiledReturn \/ CompiledThrow \/ InvokeCoreDone
  PROVE  Once'
<1>1. Top.k = "comp"
  BY DEF CompiledReturn, CompiledThrow, InvokeCoreDone, Running
<1>2. CASE CompiledReturn
  BY <1>1, <1>2, TailOnce DEF CompiledReturn
<1>3. CASE Catch
  BY <1>1, <1>3, CatchOnce
<1>4. CASE Unwind
  BY <1>1, <1>4, TailOnce DEF Unwind
<1>5. CASE stk' = At("run") /\ UNCHANGED <<entered, calls>>
  <2>1. PICK f : /\ At("run") = [stk EXCEPT ![Len(stk)] = f]
                 /\ ActRec(f) /\ f.k = Top.k /\ f.c = Top.c
    BY AtForm
  <2>2. ~ Pending(f)
    BY <1>1, <2>1, NoPending
  <2>3. QED
    BY <1>5, <2>1, <2>2, OnceGoesOn
<1>6. QED
  BY <1>2, <1>3, <1>4, <1>5 DEF CompiledThrow, InvokeCoreDone

LEMMA RemoteDoneOnce ==
  ASSUME Once, RemoteDone
  PROVE  Once'
<1>1. Top.k = "remote" /\ Top.st = "run" /\ stk' = Front(stk) /\ UNCHANGED calls
  BY DEF RemoteDone, Running
<1>2. Len(stk) > 1
  BY <1>1, TopFacts
<1>3. CASE entered' = Append(entered, Top.c)
  <2>1. Pending(Top)
    BY <1>1 DEF Pending
  <2>2. Fresh(Top.c, entered, calls)
    BY <2>1, TopFacts
  <2>3. PICK d : d = Append(entered, Top.c)
    OBVIOUS
  <2>4. EnteredOK(entered, calls)
    BY DEF Once
  <2>5. EnteredOK(d, calls)
    BY <2>2, <2>3, <2>4, Start
  <2>6. StkOK(stk', d, calls)
    BY <1>1, <1>2, StkReturn
  <2>7. QED
    BY <1>1, <1>3, <2>3, <2>5, <2>6 DEF Once
<1>4. CASE entered' = entered
  BY <1>1, <1>2, <1>4, OncePop
<1>5. QED
  BY <1>3, <1>4 DEF RemoteDone

\* The helper and the invokers give up.
LEMMA LeavesOnce ==
  ASSUME Once, Top.k # "interp", stk' = Front(stk), UNCHANGED <<entered, calls>>
  PROVE  Once'
<1>1. Len(stk) > 1
  BY TopFacts
<1>2. QED
  BY <1>1, OncePop

\* The activation starts its method, in g.
LEMMA StartsOnce ==
  ASSUME Once, Pending(Top), NEW st, st \in {"native", "invoked", "executed", "done"},
         st = "invoked" => Top.inv # "java",
         NEW g, ActRec(g), g.c = Top.c, ~ Pending(g),
         stk' = Append(At(st), g), entered' = Append(entered, Top.c), UNCHANGED calls
  PROVE  Once'
<1>1. PICK f : /\ At(st) = [stk EXCEPT ![Len(stk)] = f]
               /\ ActRec(f) /\ f.k = Top.k /\ f.inv = Top.inv /\ f.st = st
  BY AtForm
<1>2. Top.k \in {"helper", "candi", "jit", "remote"}
  BY DEF Pending
<1>3. ~ Pending(f)
  BY <1>1, <1>2 DEF Pending
<1>4. QED
  BY <1>1, <1>3, OncePass

\* The activation passes its call on to g.
LEMMA PassesOnce ==
  ASSUME Once, Pending(Top), NEW st, st \in {"invoked", "done"},
         st = "invoked" => Top.inv # "java",
         NEW g, ActRec(g), g.c = Top.c,
         stk' = Append(At(st), g), UNCHANGED <<entered, calls>>
  PROVE  Once'
<1>1. PICK f : /\ At(st) = [stk EXCEPT ![Len(stk)] = f]
               /\ ActRec(f) /\ f.k = Top.k /\ f.inv = Top.inv /\ f.st = st
  BY AtForm
<1>2. Top.k \in {"helper", "candi", "jit", "remote"}
  BY DEF Pending
<1>3. ~ Pending(f)
  BY <1>1, <1>2 DEF Pending
<1>4. QED
  BY <1>1, <1>3, OncePass

\* The helper calls the invoker it has read.
LEMMA ViaInvokerOnce ==
  ASSUME Once, Pending(Top), ViaInvoker
  PROVE  Once'
<1>1. UNCHANGED <<entered, calls>>
  BY DEF ViaInvoker
<1>2. PICK x, y : x = "invoke" /\ y = invoker[Top.m]
  OBVIOUS
<1>3. /\ ActRec(Top) /\ Top = stk[Len(stk)] /\ IsSeq(stk) /\ Len(stk) \in Nat
      /\ Len(stk) >= 1
  BY TopFacts
<1>4. PICK g : g = [Top EXCEPT !.st = x]
  OBVIOUS
<1>5. PICK f : f = [g EXCEPT !.inv = y]
  OBVIOUS
<1>6. ActRec(g) /\ g.k = Top.k /\ g.c = Top.c /\ g.st = x
  BY <1>3, <1>4 DEF ActRec, ActFields
<1>7. ActRec(f) /\ f.k = Top.k /\ f.c = Top.c /\ f.st = x
  BY <1>5, <1>6 DEF ActRec, ActFields
<1>8. PICK s : s = [stk EXCEPT ![Len(stk)] = g]
  OBVIOUS
<1>9. Len(stk) \in DOMAIN stk
  BY <1>3, SeqFacts
<1>10. s[Len(stk)] = g
  BY <1>8, <1>9
<1>11. stk' = [s EXCEPT ![Len(stk)].inv = y]
  BY <1>2, <1>3, <1>4, <1>8, <1>9 DEF ViaInvoker
<1>12. [s EXCEPT ![Len(stk)].inv = y] = [s EXCEPT ![Len(stk)] = f]
  BY <1>5, <1>10
<1>13. [s EXCEPT ![Len(stk)] = f] = [stk EXCEPT ![Len(stk)] = f]
  BY <1>8
<1>14. stk' = [stk EXCEPT ![Len(stk)] = f]
  BY <1>11, <1>12, <1>13
<1>15. Fresh(f.c, entered, calls)
  BY <1>7, TopFacts
<1>16. QED
  BY <1>1, <1>7, <1>14, <1>15, OnceSet

LEMMA OverflowOnce ==
  ASSUME Once, Top.k # "interp", Overflow
  PROVE  Once'
<1>1. stk' = Front(stk) /\ UNCHANGED <<entered, calls>>
  BY DEF Overflow
<1>2. QED
  BY <1>1, LeavesOnce

LEMMA HelperEntryOnce ==
  ASSUME Once, HelperEntry
  PROVE  Once'
<1>1. Top.k = "helper" /\ Top.st = "entry"
  BY DEF HelperEntry, Running
<1>2. Pending(Top)
  BY <1>1 DEF Pending
<1>3. CASE Overflow
  BY <1>1, <1>3, OverflowOnce
<1>4. CASE ViaInvoker
  BY <1>2, <1>4, ViaInvokerOnce
<1>5. CASE /\ stk' = Append(At("native"), Activation("jni", Top.m, Top.c, JNIArgs(Top.loc, Top.m)))
           /\ entered' = Append(entered, Top.c) /\ UNCHANGED calls
  <2>1. PICK g : g = Activation("jni", Top.m, Top.c, JNIArgs(Top.loc, Top.m))
    OBVIOUS
  <2>2. ActRec(g) /\ g.c = Top.c /\ ~ Pending(g)
    BY <2>1, ActFacts
  <2>3. QED
    BY <1>2, <1>5, <2>1, <2>2, StartsOnce
<1>6. CASE /\ stk' = Append(At("native"), Activation("nmi", Top.m, Top.c, NMIArgs(Top.loc, Top.m)))
           /\ entered' = Append(entered, Top.c) /\ UNCHANGED calls
  <2>1. PICK g : g = Activation("nmi", Top.m, Top.c, NMIArgs(Top.loc, Top.m))
    OBVIOUS
  <2>2. ActRec(g) /\ g.c = Top.c /\ ~ Pending(g)
    BY <2>1, ActFacts
  <2>3. QED
    BY <1>2, <1>6, <2>1, <2>2, StartsOnce
<1>7. QED
  BY <1>3, <1>4, <1>5, <1>6 DEF HelperEntry, HelperJNI, HelperNMI, HelperJava

LEMMA HelperNativeOnce ==
  ASSUME Once, HelperNative
  PROVE  Once'
<1>1. Top.k # "interp" /\ UNCHANGED <<entered, calls>>
  BY DEF HelperNative, Running
<1>2. stk' = Front(stk)
  BY DEF HelperNative, HelperFinish, HelperReturn
<1>3. QED
  BY <1>1, <1>2, LeavesOnce

LEMMA HelperInvokeOnce ==
  ASSUME Once, HelperInvoke
  PROVE  Once'
<1>1. Top.k = "helper" /\ Top.st = "invoke"
  BY DEF HelperInvoke, Running
<1>2. Pending(Top)
  BY <1>1 DEF Pending
<1>3. CASE /\ Top.inv \in {"candi", "jit"}
           /\ stk' = Append(At("invoked"), Activation(Top.inv, Top.m, Top.c, Top.loc))
           /\ UNCHANGED <<entered, calls>>
  <2>1. PICK g : g = Activation(Top.inv, Top.m, Top.c, Top.loc)
    OBVIOUS
  <2>2. ActRec(g) /\ g.c = Top.c
    BY <2>1, ActFacts
  <2>3. Top.inv # "java"
    BY <1>3
  <2>4. QED
    BY <1>2, <1>3, <2>1, <2>2, <2>3, PassesOnce
<1>4. CASE /\ Top.inv = "native"
           /\ stk' = Append(At("invoked"),
                            Activation("native", Top.m, Top.c, Get(optop, args_size(Top.m))))
           /\ entered' = Append(entered, Top.c) /\ UNCHANGED calls
  <2>1. PICK g : g = Activation("native", Top.m, Top.c, Get(optop, args_size(Top.m)))
    OBVIOUS
  <2>2. ActRec(g) /\ g.c = Top.c /\ ~ Pending(g)
    BY <2>1, ActFacts
  <2>3. Top.inv # "java"
    BY <1>4
  <2>4. QED
    BY <1>2, <1>4, <2>1, <2>2, <2>3, StartsOnce
<1>5. CASE stk' = At("invoked") /\ UNCHANGED <<entered, calls>>
  <2>1. PICK f : /\ At("invoked") = [stk EXCEPT ![Len(stk)] = f]
                 /\ ActRec(f) /\ f.k = Top.k /\ f.c = Top.c
    BY AtForm
  <2>2. QED
    BY <1>2, <1>5, <2>1, OnceGoesOn
<1>6. CASE Overflow
  BY <1>1, <1>6, OverflowOnce
<1>7. QED
  BY <1>3, <1>4, <1>5, <1>6 DEF HelperInvoke

LEMMA HelperInvokedOnce ==
  ASSUME Once, HelperInvoked
  PROVE  Once'
<1>1. Top.k = "helper" /\ Top.st = "invoked"
  BY DEF HelperInvoked, Running
<1>2. CASE stk' = Front(stk) /\ UNCHANGED <<entered, calls>>
  BY <1>1, <1>2, LeavesOnce
<1>3. CASE /\ Top.inv = "java"
           /\ stk' = Append(At("executed"),
                            Activation("interp", Top.m, Top.c,
                                       Get(frames[Cur].vars, args_size(Top.m))))
           /\ entered' = Append(entered, Top.c) /\ UNCHANGED calls
  <2>1. PICK g : g = Activation("interp", Top.m, Top.c, Get(frames[Cur].vars, args_size(Top.m)))
    OBVIOUS
  <2>2. ActRec(g) /\ g.c = Top.c /\ ~ Pending(g)
    BY <2>1, ActFacts
  <2>3. Pending(Top)
    BY <1>1, <1>3 DEF Pending
  <2>4. QED
    BY <1>3, <2>1, <2>2, <2>3, StartsOnce
<1>4. QED
  BY <1>2, <1>3 DEF HelperInvoked, HelperReturn, HelperFinish, InvokedJava

LEMMA HelperExecutedOnce ==
  ASSUME Once, HelperExecuted
  PROVE  Once'
<1>1. Top.k # "interp" /\ UNCHANGED <<entered, calls>>
  BY DEF HelperExecuted, Running
<1>2. stk' = Front(stk)
  BY DEF HelperExecuted, HelperFinish, HelperReturn
<1>3. QED
  BY <1>1, <1>2, LeavesOnce

\* An activation with a method to start goes from one state to the next.
LEMMA AdvanceOnce ==
  ASSUME Once, Pending(Top), NEW st, stk' = At(st), UNCHANGED <<entered, calls>>
  PROVE  Once'
<1>1. PICK f : /\ At(st) = [stk EXCEPT ![Len(stk)] = f]
               /\ ActRec(f) /\ f.k = Top.k /\ f.c = Top.c
  BY AtForm
<1>2. QED
  BY <1>1, OnceGoesOn

LEMMA CandiOnce ==
  ASSUME Once,
         CandiEntry \/ CandiCompile \/ CandiCall \/ CandiDone \/ CandiNormal \/ CandiExecuted
  PROVE  Once'
<1>1. Top.k = "candi"
  BY DEF CandiEntry, CandiCompile, CandiCall, CandiDone, CandiNormal, CandiExecuted, Running
<1>2. CASE Overflow
  BY <1>1, <1>2, OverflowOnce
<1>3. ASSUME CandiEntry, ~ Overflow PROVE Once'
  <2>1. Pending(Top)
    BY <1>1, <1>3 DEF CandiEntry, Running, Pending
  <2>2. UNCHANGED <<entered, calls>>
    BY <1>3 DEF CandiEntry
  <2>3. stk' = At("compiled") \/ stk' = At("normal") \/ stk' = At("compiling")
    BY <1>3 DEF CandiEntry
  <2>4. QED
    BY <2>1, <2>2, <2>3, AdvanceOnce
<1>4. CASE CandiCompile
  <2>1. Pending(Top)
    BY <1>1, <1>4 DEF CandiCompile, Running, Pending
  <2>2. UNCHANGED <<entered, calls>>
    BY <1>4 DEF CandiCompile
  <2>3. stk' = At("compiled") \/ stk' = At("normal")
    BY <1>4 DEF CandiCompile
  <2>4. QED
    BY <2>1, <2>2, <2>3, AdvanceOnce
<1>5. CASE CandiCall
  <2>1. Pending(Top)
    BY <1>1, <1>5 DEF CandiCall, Running, Pending
  <2>2. PICK g : g = Activation("jit", Top.m, Top.c, Top.loc)
    OBVIOUS
  <2>3. ActRec(g) /\ g.c = Top.c
    BY <2>2, ActFacts
  <2>4. stk' = Append(At("done"), g) /\ UNCHANGED <<entered, calls>>
    BY <1>5, <2>2 DEF CandiCall
  <2>5. QED
    BY <2>1, <2>3, <2>4, PassesOnce
<1>6. ASSUME CandiNormal, ~ Overflow PROVE Once'
  <2>1. Pending(Top)
    BY <1>1, <1>6 DEF CandiNormal, Running, Pending
  <2>2. PICK g : g = Activation("interp", Top.m, Top.c, Get(optop, args_size(Top.m)))
    OBVIOUS
  <2>3. ActRec(g) /\ g.c = Top.c /\ ~ Pending(g)
    BY <2>2, ActFacts
  <2>4. /\ stk' = Append(At("executed"), g)
        /\ entered' = Append(entered, Top.c) /\ UNCHANGED calls
    BY <1>6, <2>2 DEF CandiNormal
  <2>5. QED
    BY <2>1, <2>3, <2>4, StartsOnce
<1>7. CASE CandiDone \/ CandiExecuted
  <2>1. stk' = Front(stk) /\ UNCHANGED <<entered, calls>>
    BY <1>7 DEF CandiDone, CandiExecuted
  <2>2. QED
    BY <1>1, <2>1, LeavesOnce
<1>8. QED
  BY <1>2, <1>3, <1>4, <1>5, <1>6, <1>7

LEMMA JITOnce ==
  ASSUME Once, JITEnter \/ JITDone
  PROVE  Once'
<1>1. Top.k = "jit"
  BY DEF JITEnter, JITDone, Running
<1>2. CASE Overflow
  BY <1>1, <1>2, OverflowOnce
<1>3. ASSUME JITEnter, ~ Overflow PROVE Once'
  <2>1. Pending(Top)
    BY <1>1, <1>3 DEF JITEnter, Running, Pending
  <2>2. PICK w : w = ToNative(Get(optop, args_size(Top.m)), Top.m)
    OBVIOUS
  <2>3. PICK g : g = Activation("comp", Top.m, Top.c, w)
    OBVIOUS
  <2>4. ActRec(g) /\ g.c = Top.c /\ ~ Pending(g)
    BY <2>3, ActFacts
  <2>5. /\ stk' = Append(At("done"), g)
        /\ entered' = Append(entered, Top.c) /\ UNCHANGED calls
    BY <1>3, <2>2, <2>3 DEF JITEnter
  <2>6. QED
    BY <2>1, <2>4, <2>5, StartsOnce
<1>4. CASE JITDone
  <2>1. stk' = Front(stk) /\ UNCHANGED <<entered, calls>>
    BY <1>4 DEF JITDone
  <2>2. QED
    BY <1>1, <2>1, LeavesOnce
<1>5. QED
  BY <1>2, <1>3, <1>4

\* An activation of the interpreter or of a native function goes on.
LEMMA ResumesOnce ==
  ASSUME Once, Top.k \in {"interp", "jni", "nmi"}, NEW st, stk' = At(st),
         UNCHANGED <<entered, calls>>
  PROVE  Once'
<1>1. PICK f : /\ At(st) = [stk EXCEPT ![Len(stk)] = f]
               /\ ActRec(f) /\ f.k = Top.k /\ f.c = Top.c
  BY AtForm
<1>2. f.k \notin {"helper", "candi", "jit", "remote"}
  BY <1>1
<1>3. ~ Pending(f)
  BY <1>2, NoPending
<1>4. QED
  BY <1>1, <1>3, OnceGoesOn

LEMMA InterpOnce ==
  ASSUME Once, InterpReturn \/ InterpThrow \/ InterpBack
  PROVE  Once'
<1>1. Top.k = "interp"
  BY DEF InterpReturn, InterpThrow, InterpBack, Running
<1>2. CASE stk' = Front(stk) /\ Len(stk) > 1 /\ UNCHANGED <<entered, calls>>
  BY <1>2, OncePop
<1>3. CASE stk' = At("run") /\ UNCHANGED <<entered, calls>>
  BY <1>1, <1>3, ResumesOnce
<1>4. ASSUME NEW b, Len(stk) > 1, Leave(b) PROVE Once'
  BY <1>2, <1>4 DEF Leave
<1>5. QED
  BY <1>3, <1>4 DEF InterpReturn, InterpThrow, InterpBack, LeaveResult, LeaveThrowing

LEMMA NativeOnce ==
  ASSUME Once, NativeReturn \/ NativeBack
  PROVE  Once'
<1>1. Top.k # "interp"
  BY DEF NativeReturn, NativeBack, CReturn, Running
<1>2. CASE NativeReturn
  <2>1. stk' = Front(stk) /\ UNCHANGED <<entered, calls>>
    BY <1>2 DEF NativeReturn, CReturn, LeaveResult, LeaveThrowing, Leave
  <2>2. QED
    BY <1>1, <2>1, LeavesOnce
<1>3. CASE NativeBack
  <2>1. Top.k \in {"interp", "jni", "nmi"} /\ UNCHANGED <<entered, calls>>
    BY <1>3 DEF NativeBack
  <2>2. CASE stk' = At("run")
    BY <2>1, <2>2, ResumesOnce
  <2>3. CASE stk' = Front(stk)
    BY <1>1, <2>1, <2>3, LeavesOnce
  <2>4. QED
    BY <1>3, <2>2, <2>3 DEF NativeBack
<1>4. QED
  BY <1>2, <1>3

LEMMA OthersOnce ==
  ASSUME Once, NEW m, OtherStarts(m) \/ OtherFlags(m) \/ OtherDone(m)
  PROVE  Once'
<1>1. UNCHANGED <<stk, entered, calls>>
  BY DEF OtherStarts, OtherFlags, OtherDone
<1>2. QED
  BY <1>1, OnceStay

-----------------------------------------------------------------------------
(* The theorems.                                                           *)

LEMMA OnceInit ==
  ASSUME Init
  PROVE  Once
<1>1. PICK a : a = Activation("interp", Root, 0, << >>)
  OBVIOUS
<1>2. ActRec(a) /\ a.k = "interp"
  BY <1>1, ActFacts
<1>3. ~ Pending(a)
  BY <1>2, NoPending
<1>4. stk = <<a>>
  BY <1>1 DEF Init
<1>5. stk \in Seq({a}) /\ Len(stk) = 1 /\ stk[1] = a
  BY <1>4
<1>6. IsSeq(stk)
  BY <1>5 DEF IsSeq
<1>7. \A i \in 1 .. 1 : i = 1
  OBVIOUS
<1>8. StkOK(stk, entered, calls)
  BY <1>2, <1>3, <1>5, <1>6, <1>7 DEF StkOK
<1>9. entered = << >> /\ calls = 0
  BY DEF Init
<1>10. entered \in Seq({a}) /\ DOMAIN entered = {}
  BY <1>9
<1>11. IsSeq(entered)
  BY <1>10 DEF IsSeq
<1>12. EnteredOK(entered, calls)
  BY <1>9, <1>10, <1>11 DEF EnteredOK
<1>13. QED
  BY <1>8, <1>12 DEF Once

LEMMA OnceNext ==
  ASSUME Once, [Next]_vars
  PROVE  Once'
<1>1. CASE UNCHANGED vars
  BY <1>1, OnceStay DEF vars
<1>2. ASSUME NEW m \in Methods \ {Root},
             \/ InvokeCore(m) \/ InlinedEnter(m) \/ RemoteInvoke(m)
             \/ InterpCall(m) \/ NativeCall(m)
             \/ OtherStarts(m) \/ OtherFlags(m) \/ OtherDone(m)
      PROVE  Once'
  BY <1>2, InvokeCoreOnce, InlinedEnterOnce, RemoteInvokeOnce, InterpCallOnce,
     NativeCallOnce, OthersOnce
<1>3. CASE InlinedExit \/ CompiledReturn \/ CompiledThrow \/ InvokeCoreDone \/ RemoteDone
  BY <1>3, InlinedExitOnce, CompiledOnce, RemoteDoneOnce
<1>4. CASE \/ HelperEntry \/ HelperNative \/ HelperInvoke
           \/ HelperInvoked \/ HelperExecuted
  BY <1>4, HelperEntryOnce, HelperNativeOnce, HelperInvokeOnce, HelperInvokedOnce,
     HelperExecutedOnce
<1>5. CASE \/ CandiEntry \/ CandiCompile \/ CandiCall
           \/ CandiDone \/ CandiNormal \/ CandiExecuted
  BY <1>5, CandiOnce
<1>6. CASE JITEnter \/ JITDone
  BY <1>6, JITOnce
<1>7. CASE InterpReturn \/ InterpThrow \/ InterpBack \/ NativeReturn \/ NativeBack
  BY <1>7, InterpOnce, NativeOnce
<1>8. QED
  BY <1>1, <1>2, <1>3, <1>4, <1>5, <1>6, <1>7 DEF Next

\* Of the native activations only the innermost may have a method to start,
\* and its call has not started one: the helper, the two invokers and
\* proxy_invoke() hand a call over at most once, whatever another thread does
\* to methodblock.invoker and ACC_MACHINE_COMPILED between two of their steps.
THEOREM StartInvariance == Spec => []Once
<1>1. Init => Once
  BY OnceInit
<1>2. Once /\ [Next]_vars => Once'
  BY OnceNext
<1>3. QED
  BY <1>1, <1>2, PTL DEF Spec

\* A call runs its method once: INVOKE_CORE, invocationHelper(),
\* compileAndInvokeMethod(), invokeJITCompiledMethod(), the interpreter and
\* proxy_invoke() between them never start a method twice for one call, for
\* any program, any inlining and any compilation by another thread.
THEOREM CallsRunOnce == Spec => []RunsOnce
<1>1. Once => RunsOnce
  BY DEF Once, EnteredOK, RunsOnce, IsInjective
<1>2. QED
  BY <1>1, StartInvariance, PTL

-----------------------------------------------------------------------------
(* The layouts of the arguments.                                           *)

\* FlattenSeq() concatenates.
FlattenStep(gs, f) ==
  f = [i \in 1 .. Len(gs) |-> IF i = 1 THEN gs[i] ELSE f[i - 1] \o gs[i]]

LEMMA FlattenIs ==
  ASSUME NEW gs, Len(gs) # 0
  PROVE  FlattenSeq(gs) = (CHOOSE f : FlattenStep(gs, f))[Len(gs)]
BY DEF FlattenSeq, FlattenStep

LEMMA Flatten ==
  ASSUME NEW gs, NEW n \in Nat, IsSeq(gs), Groups(gs, n)
  PROVE  FlattenSeq(gs) = Joined(gs)[n]
<1>6. n = Len(gs) /\ \A k \in 1 .. n : IsSeq(gs[k])
  BY DEF Groups
<1>1. PICK J : J = Joined(gs)
  OBVIOUS
<1>2. J[0] = << >> /\ \A k \in 1 .. n : J[k] = J[k - 1] \o gs[k]
  BY <1>1, <1>6, JoinedStep
<1>3. CASE n = 0
  <2>1. gs = << >>
    BY <1>3, <1>6, SeqFacts
  <2>2. FlattenSeq(gs) = gs
    BY <1>3, <1>6 DEF FlattenSeq
  <2>3. QED
    BY <1>1, <1>2, <1>3, <2>1, <2>2
<1>4. CASE n # 0
  <2>1. J[1] = gs[1]
    <3>1. 1 \in 1 .. n /\ 1 - 1 = 0
      BY <1>4
    <3>2. J[1] = J[0] \o gs[1]
      BY <1>2, <3>1
    <3>3. IsSeq(gs[1])
      BY <1>6, <3>1
    <3>4. PICK g : g = gs[1]
      OBVIOUS
    <3>5. << >> \o g = g
      BY <3>3, <3>4, Empty
    <3>6. QED
      BY <1>2, <3>2, <3>4, <3>5
  <2>2. PICK h : h = [i \in 1 .. n |-> J[i]]
    OBVIOUS
  <2>3. ASSUME NEW i \in 1 .. n PROVE h[i] = IF i = 1 THEN gs[i] ELSE h[i - 1] \o gs[i]
    <3>1. CASE i = 1
      BY <2>1, <2>2, <3>1
    <3>2. CASE i # 1
      <4>1. i - 1 \in 1 .. n
        BY <3>2
      <4>2. h[i - 1] = J[i - 1] /\ h[i] = J[i]
        BY <2>2, <4>1
      <4>3. J[i] = J[i - 1] \o gs[i]
        BY <1>2
      <4>4. QED
        BY <3>2, <4>2, <4>3
    <3>3. QED
      BY <3>1, <3>2
  <2>4. FlattenStep(gs, h)
    <3>1. h = [i \in 1 .. n |-> IF i = 1 THEN gs[i] ELSE h[i - 1] \o gs[i]]
      BY <2>2, <2>3
    <3>2. QED
      BY <1>6, <3>1 DEF FlattenStep
  <2>5. PICK f : f = CHOOSE g : FlattenStep(gs, g)
    OBVIOUS
  <2>6. FlattenStep(gs, f)
    BY <2>4, <2>5
  <2>7. \A i \in 1 .. n : f[i] = IF i = 1 THEN gs[i] ELSE f[i - 1] \o gs[i]
    BY <1>6, <2>6 DEF FlattenStep
  <2>8. PICK T : T = {k \in 0 .. n : k # 0 => f[k] = J[k]}
    OBVIOUS
  <2>9. 0 \in T
    BY <2>8
  <2>10. ASSUME NEW k \in 1 .. n, k - 1 \in T PROVE k \in T
    <3>1. CASE k = 1
      BY <2>1, <2>7, <2>8, <3>1
    <3>2. CASE k # 1
      <4>1. f[k - 1] = J[k - 1]
        BY <2>8, <2>10, <3>2
      <4>2. f[k] = f[k - 1] \o gs[k]
        BY <2>7, <3>2
      <4>3. J[k] = J[k - 1] \o gs[k]
        BY <1>2
      <4>4. f[k] = J[k]
        BY <4>1, <4>2, <4>3
      <4>5. QED
        BY <2>8, <4>4
    <3>3. QED
      BY <3>1, <3>2
  <2>11. \A k \in 0 .. n : k \in T
    BY <2>9, <2>10, Induct
  <2>12. f[n] = J[n]
    BY <1>4, <2>8, <2>11
  <2>13. FlattenSeq(gs) = f[n]
    BY <1>4, <1>6, <2>5, FlattenIs
  <2>14. QED
    BY <1>1, <2>12, <2>13
<1>5. QED
  BY <1>3, <1>4

\* The parameters of a method
LEMMA Params ==
  ASSUME NEW m \in Methods
  PROVE  /\ Len(Info[m].params) \in Nat
         /\ \A p \in 1 .. Len(Info[m].params) : Info[m].params[p] \in Types
         /\ Info[m].static \in BOOLEAN /\ Info[m].sync \in BOOLEAN
<1>1. Info[m].params \in Seq(Types)
  BY InfoAssumption
<1>2. Info[m].static \in BOOLEAN /\ Info[m].sync \in BOOLEAN
  BY InfoAssumption
<1>3. QED
  BY <1>1, <1>2

\* the words of each parameter: on the native stack, on the Java stack, as C
\* arguments
NativeGroups(m, c) ==
  [p \in 1 .. Len(Info[m].params) |->
     IF Wide(Info[m].params[p])
     THEN <<Word(c, p, Info[m].params[p], "hi"), Word(c, p, Info[m].params[p], "lo")>>
     ELSE <<Word(c, p, Info[m].params[p], "w")>>]

JVMGroups(m, c) ==
  [p \in 1 .. Len(Info[m].params) |->
     IF Wide(Info[m].params[p])
     THEN <<Word(c, p, Info[m].params[p], "lo"), Word(c, p, Info[m].params[p], "hi")>>
     ELSE <<Word(c, p, Info[m].params[p], "w")>>]

CGroups(m, c, kind) ==
  [p \in 1 .. Len(Info[m].params) |->
     CASE Wide(Info[m].params[p]) -> <<<<c, p, "lo">>, <<c, p, "hi">>>>
       [] IsObject(Info[m].params[p]) /\ kind = "jni" -> <<Ref(Word(c, p, Info[m].params[p], "w"))>>
       [] OTHER -> <<Word(c, p, Info[m].params[p], "w")>>]

\* The groups are sequences of one or two words each.
LEMMA WordsSeq ==
  /\ \A a : IsSeq(<<a>>) /\ Len(<<a>>) = 1 /\ <<a>>[1] = a
  /\ \A a, b : IsSeq(<<a, b>>) /\ Len(<<a, b>>) = 2 /\ <<a, b>>[1] = a /\ <<a, b>>[2] = b
<1>1. ASSUME NEW a PROVE IsSeq(<<a>>) /\ Len(<<a>>) = 1 /\ <<a>>[1] = a
  <2>1. <<a>> \in Seq({a})
    OBVIOUS
  <2>2. QED
    BY <2>1 DEF IsSeq
<1>2. ASSUME NEW a, NEW b PROVE IsSeq(<<a, b>>) /\ Len(<<a, b>>) = 2 /\ <<a, b>>[1] = a /\ <<a, b>>[2] = b
  <2>1. <<a, b>> \in Seq({a, b})
    OBVIOUS
  <2>2. QED
    BY <2>1 DEF IsSeq
<1>3. QED
  BY <1>1, <1>2

LEMMA NativeForm ==
  ASSUME NEW m \in Methods, NEW c, NEW n \in Nat, n = Len(Info[m].params),
         NEW gs, gs = NativeGroups(m, c)
  PROVE  /\ Groups(gs, n)
         /\ NativeWords(m, c) = Receiver(m, c) \o Joined(gs)[n]
<1>1. gs = [p \in 1 .. n |-> gs[p]]
  BY DEF NativeGroups
<1>2. IsSeq(gs)
  BY <1>1, FunSeq
<1>3. Len(gs) = n
  BY <1>1, FunSeq
<1>4. ASSUME NEW p \in 1 .. n PROVE IsSeq(gs[p])
  <2>1. CASE Wide(Info[m].params[p])
    BY <2>1, WordsSeq DEF NativeGroups
  <2>2. CASE ~ Wide(Info[m].params[p])
    BY <2>2, WordsSeq DEF NativeGroups
  <2>3. QED
    BY <2>1, <2>2
<1>8. Groups(gs, n)
  BY <1>3, <1>4 DEF Groups
<1>5. FlattenSeq(gs) = Joined(gs)[n]
  BY <1>2, <1>8, Flatten
<1>6. NativeWords(m, c) = Receiver(m, c) \o FlattenSeq(gs)
  BY DEF NativeWords, Each, NativeGroups
<1>7. QED
  BY <1>5, <1>6, <1>8

LEMMA JVMForm ==
  ASSUME NEW m \in Methods, NEW c, NEW n \in Nat, n = Len(Info[m].params),
         NEW gs, gs = JVMGroups(m, c)
  PROVE  /\ Groups(gs, n)
         /\ JVMWords(m, c) = Receiver(m, c) \o Joined(gs)[n]
<1>1. gs = [p \in 1 .. n |-> gs[p]]
  BY DEF JVMGroups
<1>2. IsSeq(gs)
  BY <1>1, FunSeq
<1>3. Len(gs) = n
  BY <1>1, FunSeq
<1>4. ASSUME NEW p \in 1 .. n PROVE IsSeq(gs[p])
  <2>1. CASE Wide(Info[m].params[p])
    BY <2>1, WordsSeq DEF JVMGroups
  <2>2. CASE ~ Wide(Info[m].params[p])
    BY <2>2, WordsSeq DEF JVMGroups
  <2>3. QED
    BY <2>1, <2>2
<1>8. Groups(gs, n)
  BY <1>3, <1>4 DEF Groups
<1>5. FlattenSeq(gs) = Joined(gs)[n]
  BY <1>2, <1>8, Flatten
<1>6. JVMWords(m, c) = Receiver(m, c) \o FlattenSeq(gs)
  BY DEF JVMWords, Each, JVMGroups
<1>7. QED
  BY <1>5, <1>6, <1>8

LEMMA Assoc ==
  ASSUME NEW a, NEW b, NEW c, IsSeq(a), IsSeq(b), IsSeq(c)
  PROVE  (a \o b) \o c = a \o (b \o c)
<1>1. PICK A : a \in Seq(A)
  BY DEF IsSeq
<1>2. PICK B : b \in Seq(B)
  BY DEF IsSeq
<1>3. PICK C : c \in Seq(C)
  BY DEF IsSeq
<1>4. a \in Seq(A \cup B \cup C) /\ b \in Seq(A \cup B \cup C) /\ c \in Seq(A \cup B \cup C)
  BY <1>1, <1>2, <1>3
<1>5. QED
  BY <1>4, ConcatAssociative

\* gs and hs are the groups of the parameters in the orders of the two stacks.
Mirrored(m, n, gs, hs) ==
  /\ n \in Nat /\ n = Len(Info[m].params)
  /\ Len(gs) = n /\ Len(hs) = n
  /\ \A p \in 1 .. n :
       IF Wide(Info[m].params[p])
       THEN \E a, b : gs[p] = <<a, b>> /\ hs[p] = <<b, a>>
       ELSE \E a : gs[p] = <<a>> /\ hs[p] = <<a>>

LEMMA MirroredFacts ==
  ASSUME NEW m \in Methods, NEW n \in Nat, NEW gs, NEW hs, Mirrored(m, n, gs, hs)
  PROVE  /\ Groups(gs, n) /\ Groups(hs, n)
         /\ \A p \in 1 .. n : Len(gs[p]) = IF Wide(Info[m].params[p]) THEN 2 ELSE 1
         /\ \A p \in 1 .. n : Len(hs[p]) = Len(gs[p])
<1>1. ASSUME NEW p \in 1 .. n
      PROVE  /\ IsSeq(gs[p]) /\ IsSeq(hs[p]) /\ Len(hs[p]) = Len(gs[p])
             /\ Len(gs[p]) = IF Wide(Info[m].params[p]) THEN 2 ELSE 1
  <2>1. CASE Wide(Info[m].params[p])
    <3>1. PICK a, b : gs[p] = <<a, b>> /\ hs[p] = <<b, a>>
      BY <2>1 DEF Mirrored
    <3>2. QED
      BY <2>1, <3>1, WordsSeq
  <2>2. CASE ~ Wide(Info[m].params[p])
    <3>1. PICK a : gs[p] = <<a>> /\ hs[p] = <<a>>
      BY <2>2 DEF Mirrored
    <3>2. QED
      BY <2>2, <3>1, WordsSeq
  <2>3. QED
    BY <2>1, <2>2
<1>2. n = Len(gs) /\ n = Len(hs)
  BY DEF Mirrored
<1>3. QED
  BY <1>1, <1>2 DEF Groups

LEMMA NativeMirrorsJVM ==
  ASSUME NEW m \in Methods, NEW c, NEW n \in Nat, n = Len(Info[m].params)
  PROVE  /\ Mirrored(m, n, NativeGroups(m, c), JVMGroups(m, c))
         /\ Mirrored(m, n, JVMGroups(m, c), NativeGroups(m, c))
<1>1. PICK gs, hs : gs = NativeGroups(m, c) /\ hs = JVMGroups(m, c)
  OBVIOUS
<1>2. n \in Nat
  BY Params
<1>3. Len(gs) = n
  BY <1>1, NativeForm DEF Groups
<1>4. Len(hs) = n
  BY <1>1, JVMForm DEF Groups
<1>5. ASSUME NEW p \in 1 .. n
      PROVE  IF Wide(Info[m].params[p])
             THEN \E a, b : gs[p] = <<a, b>> /\ hs[p] = <<b, a>>
             ELSE \E a : gs[p] = <<a>> /\ hs[p] = <<a>>
  BY <1>1 DEF NativeGroups, JVMGroups
<1>6. QED
  BY <1>1, <1>2, <1>3, <1>4, <1>5 DEF Mirrored

\* The concatenations of mirrored groups are of the same lengths.
LEMMA MirroredLen ==
  ASSUME NEW m \in Methods, NEW n \in Nat, NEW gs, NEW hs, Mirrored(m, n, gs, hs),
         NEW J, NEW K, J = Joined(gs), K = Joined(hs)
  PROVE  \A k \in 0 .. n : Len(J[k]) = Len(K[k])
<1>1. n \in Nat /\ Len(gs) = n /\ Len(hs) = n
  BY DEF Mirrored
<1>2. /\ Groups(gs, n) /\ Groups(hs, n)
      /\ \A p \in 1 .. n : Len(hs[p]) = Len(gs[p])
  BY MirroredFacts
<1>3. Len(J[0]) = 0 /\ \A k \in 1 .. n : Len(J[k]) = Len(J[k - 1]) + Len(gs[k])
  BY <1>2, JoinedLen
<1>4. Len(K[0]) = 0 /\ \A k \in 1 .. n : Len(K[k]) = Len(K[k - 1]) + Len(hs[k])
  BY <1>2, JoinedLen
<1>5. PICK T : T = {k \in 0 .. n : Len(J[k]) = Len(K[k])}
  OBVIOUS
<1>6. 0 \in T
  BY <1>1, <1>3, <1>4, <1>5
<1>7. ASSUME NEW k \in 1 .. n, k - 1 \in T PROVE k \in T
  <2>1. Len(J[k - 1]) = Len(K[k - 1]) /\ Len(gs[k]) = Len(hs[k])
    BY <1>2, <1>5, <1>7
  <2>2. Len(J[k]) = Len(K[k])
    BY <1>3, <1>4, <2>1
  <2>3. QED
    BY <1>5, <2>2
<1>8. \A k \in 0 .. n : k \in T
  BY <1>1, <1>6, <1>7, Induct
<1>9. QED
  BY <1>5, <1>8

Receivers(m) == IF Info[m].static THEN 0 ELSE 1

\* The receiver is the first word, if there is one.
LEMMA ReceiverFacts ==
  ASSUME NEW m \in Methods, NEW c, NEW r \in {0, 1}, r = Receivers(m)
  PROVE  /\ IsSeq(Receiver(m, c)) /\ Len(Receiver(m, c)) = r
         /\ r = 1 => Receiver(m, c) = <<<<c, 0, "w">>>>
         /\ r = 0 => Receiver(m, c) = << >>
BY WordsSeq, Empty DEF Receiver, Receivers

\* The sizes of the arguments
LEMMA Sizes ==
  ASSUME NEW m \in Methods, NEW r \in {0, 1}, r = Receivers(m),
         NEW n \in Nat, n = Len(Info[m].params), NEW S, S = argsizes(m)
  PROVE  /\ Len(S) = r + n /\ (r = 1 => S[1] = 1)
         /\ \A p \in 1 .. n : S[r + p] = IF Wide(Info[m].params[p]) THEN 2 ELSE 1
<1>1. PICK a : a = IF Info[m].static THEN << >> ELSE <<1>>
  OBVIOUS
<1>2. IsSeq(a) /\ Len(a) = r /\ (r = 1 => a[1] = 1)
  BY <1>1, WordsSeq, Empty DEF Receivers
<1>3. PICK b : b = [p \in 1 .. n |-> IF Wide(Info[m].params[p]) THEN 2 ELSE 1]
  OBVIOUS
<1>4. b = [p \in 1 .. n |-> b[p]]
  BY <1>3
<1>5. IsSeq(b)
  BY <1>4, FunSeq
<1>6. Len(b) = n
  BY <1>4, FunSeq
<1>7. S = a \o b
  BY <1>1, <1>3 DEF argsizes
<1>8. Len(S) = Len(a) + Len(b)
  BY <1>2, <1>5, <1>7, Cat
<1>9. \A k \in 1 .. Len(a) : S[k] = a[k]
  BY <1>2, <1>5, <1>7, Cat
<1>14. IsSeq(a)
  BY <1>2
<1>10. \A k \in 1 .. Len(b) : S[Len(a) + k] = b[k]
  BY <1>5, <1>7, <1>14, Cat
<1>11. r = 1 => S[1] = 1
  BY <1>2, <1>9
<1>12. \A p \in 1 .. n : S[r + p] = b[p]
  BY <1>2, <1>6, <1>10
<1>13. QED
  BY <1>2, <1>3, <1>6, <1>8, <1>11, <1>12

\* args_size is the number of words of the arguments.
SumStep(S, g) == g = [k \in 0 .. Len(S) |-> IF k = 0 THEN 0 ELSE g[k - 1] + S[k]]

LEMMA args_sizeIs ==
  ASSUME NEW m
  PROVE  args_size(m) = (CHOOSE g : SumStep(argsizes(m), g))[Len(argsizes(m))]
BY DEF args_size, SumStep

LEMMA ArgsSize ==
  ASSUME NEW m \in Methods, NEW r \in {0, 1}, r = Receivers(m),
         NEW n \in Nat, NEW gs, NEW hs, Mirrored(m, n, gs, hs)
  PROVE  args_size(m) = r + Len(Joined(gs)[n]) /\ args_size(m) \in Nat
<1>1. PICK J, S : J = Joined(gs) /\ S = argsizes(m)
  OBVIOUS
<1>2. n = Len(Info[m].params) /\ Len(gs) = n
  BY DEF Mirrored
<1>3. /\ r = 1 => S[1] = 1
      /\ \A p \in 1 .. n : S[r + p] = IF Wide(Info[m].params[p]) THEN 2 ELSE 1
  <2>1. r = 1 => S[1] = 1
    BY <1>1, <1>2, Sizes
  <2>2. \A p \in 1 .. n : S[r + p] = IF Wide(Info[m].params[p]) THEN 2 ELSE 1
    BY <1>1, <1>2, Sizes
  <2>3. QED
    BY <2>1, <2>2
<1>24. Len(S) = r + n
  BY <1>1, <1>2, Sizes
<1>4. /\ Groups(gs, n)
      /\ \A p \in 1 .. n : Len(gs[p]) = IF Wide(Info[m].params[p]) THEN 2 ELSE 1
  BY MirroredFacts
<1>5. /\ \A k \in 0 .. n : Len(J[k]) \in Nat
      /\ Len(J[0]) = 0 /\ \A k \in 1 .. n : Len(J[k]) = Len(J[k - 1]) + Len(gs[k])
  BY <1>1, <1>4, JoinedLen
<1>6. r \in {0, 1}
  OBVIOUS
<1>7. PICK h : h = [k \in 0 .. r + n |-> IF k < r THEN 0 ELSE r + Len(J[k - r])]
  OBVIOUS
<1>8. ASSUME NEW k \in 0 .. r + n PROVE h[k] = IF k = 0 THEN 0 ELSE h[k - 1] + S[k]
  <2>1. CASE k = 0
    BY <1>5, <1>6, <1>7, <2>1
  <2>2. CASE k # 0 /\ k <= r
    <3>1. r = 1 /\ k = 1 /\ S[1] = 1
      BY <1>3, <1>6, <2>2
    <3>2. h[0] = 0
      BY <1>6, <1>7, <3>1
    <3>3. h[1] = 1
      BY <1>5, <1>6, <1>7, <3>1
    <3>4. QED
      BY <3>1, <3>2, <3>3
  <2>3. CASE k > r
    <3>1. PICK p : p = k - r
      OBVIOUS
    <3>2. p \in 1 .. n /\ k = r + p /\ k # 0 /\ p - 1 \in 0 .. n
      <4>1. k \in Int /\ r \in Int /\ k <= r + n /\ k > r
        BY <2>3
      <4>2. QED
        BY <3>1, <4>1
    <3>3. PICK j : j = k - 1
      OBVIOUS
    <3>4. j \in 0 .. r + n /\ ~ (j < r) /\ j - r = p - 1
      <4>1. r \in Int /\ p \in Int /\ p >= 1 /\ p <= n /\ j = r + p - 1 /\ r >= 0
        BY <3>2, <3>3
      <4>2. QED
        BY <4>1
    <3>5. h[j] = r + Len(J[p - 1])
      BY <1>7, <3>4
    <3>6. h[k] = r + Len(J[p])
      BY <1>6, <1>7, <2>3, <3>1
    <3>7. S[k] = Len(gs[p])
      BY <1>3, <1>4, <3>2
    <3>8. Len(J[p]) = Len(J[p - 1]) + Len(gs[p])
      BY <1>5, <3>2
    <3>9. Len(J[p - 1]) \in Nat /\ Len(gs[p]) \in Nat
      BY <1>4, <1>5, <3>2
    <3>10. PICK u, v : u = Len(J[p - 1]) /\ v = Len(gs[p])
      OBVIOUS
    <3>11. h[j] = r + u /\ h[k] = r + (u + v) /\ S[k] = v /\ u \in Nat /\ v \in Nat /\ r \in Nat
      BY <3>5, <3>6, <3>7, <3>8, <3>9, <3>10
    <3>12. h[k] = h[j] + S[k]
      BY <3>11
    <3>13. QED
      BY <3>2, <3>3, <3>12
  <2>4. QED
    BY <1>6, <2>1, <2>2, <2>3
<1>9. SumStep(S, h)
  <2>1. PICK l : l = r + n
    OBVIOUS
  <2>2. h = [k \in 0 .. l |-> IF k = 0 THEN 0 ELSE h[k - 1] + S[k]]
    BY <1>7, <1>8, <2>1
  <2>3. QED
    BY <1>24, <2>1, <2>2 DEF SumStep
<1>10. PICK g : g = CHOOSE x : SumStep(S, x)
  OBVIOUS
<1>11. SumStep(S, g)
  BY <1>9, <1>10
<1>12. \A k \in 0 .. r + n : g[k] = IF k = 0 THEN 0 ELSE g[k - 1] + S[k]
  BY <1>11, <1>24 DEF SumStep
<1>13. PICK T : T = {k \in 0 .. r + n : g[k] = h[k]}
  OBVIOUS
<1>14. r + n \in Nat
  BY <1>6
<1>15. 0 \in T
  <2>1. 0 \in 0 .. r + n
    BY <1>14
  <2>2. g[0] = 0 /\ h[0] = 0
    BY <1>8, <1>12, <2>1
  <2>3. QED
    BY <1>13, <2>1, <2>2
<1>16. ASSUME NEW k \in 1 .. r + n, k - 1 \in T PROVE k \in T
  <2>1. g[k - 1] = h[k - 1] /\ k \in 0 .. r + n /\ k # 0
    BY <1>13, <1>14, <1>16
  <2>2. g[k] = g[k - 1] + S[k]
    BY <1>12, <2>1
  <2>3. h[k] = h[k - 1] + S[k]
    BY <1>8, <2>1
  <2>4. QED
    BY <1>13, <2>1, <2>2, <2>3
<1>17. \A k \in 0 .. r + n : k \in T
  BY <1>14, <1>15, <1>16, Induct
<1>18. r + n \in 0 .. r + n
  BY <1>14
<1>19. g[r + n] = h[r + n]
  BY <1>13, <1>17, <1>18
<1>20. h[r + n] = r + Len(J[n])
  <2>1. PICK k : k = r + n
    OBVIOUS
  <2>2. k \in 0 .. r + n /\ ~ (k < r) /\ k - r = n
    BY <1>6, <1>18, <2>1
  <2>3. QED
    BY <1>7, <2>1, <2>2
<1>21. args_size(m) = g[r + n]
  BY <1>1, <1>10, <1>24, args_sizeIs
<1>22. n \in 0 .. n
  OBVIOUS
<1>23. QED
  BY <1>1, <1>5, <1>6, <1>19, <1>20, <1>21, <1>22

\* The words of argument p are in src behind those of the arguments before it.
Reads(src, r, J, gs, n) ==
  \A p \in 1 .. n : \A x \in 1 .. Len(gs[p]) : src[r + Len(J[p - 1]) + x] = gs[p][x]

\* the receiver and the words of k arguments
Words(m, c, J, k) == Receiver(m, c) \o J[k]

LEMMA WordAt ==
  ASSUME NEW m \in Methods, NEW c, NEW r \in {0, 1}, r = Receivers(m),
         NEW n \in Nat, NEW gs, NEW hs, Mirrored(m, n, gs, hs), NEW J, J = Joined(gs),
         NEW src, src = Words(m, c, J, n)
  PROVE  Reads(src, r, J, gs, n)
<1> SUFFICES ASSUME NEW p \in 1 .. n, NEW x \in 1 .. Len(gs[p])
    PROVE  src[r + Len(J[p - 1]) + x] = gs[p][x]
  BY DEF Reads
<1>1. Len(gs) = n
  BY DEF Mirrored
<1>2. Groups(gs, n)
  BY MirroredFacts
<1>3. n \in p .. n /\ p - 1 \in 0 .. n /\ n \in 0 .. n
  OBVIOUS
<1>4. PICK y : y = Len(J[p - 1]) + x
  OBVIOUS
<1>5. y \in 1 .. Len(J[n]) /\ J[n][y] = gs[p][x]
  <2>1. \A k \in p .. n : y \in 1 .. Len(J[k]) /\ J[k][y] = gs[p][x]
    <3>1. Lies(gs, J, n, p, x, y)
      BY <1>2, JoinedAt
    <3>2. QED
      BY <1>4, <3>1 DEF Lies
  <2>2. QED
    BY <1>3, <2>1
<1>6. \A k \in 0 .. n : IsSeq(J[k]) /\ Len(J[k]) \in Nat
  BY <1>2, JoinedLen
<1>7. PICK R : R = Receiver(m, c)
  OBVIOUS
<1>8. IsSeq(R) /\ Len(R) = r
  BY <1>7, ReceiverFacts
<1>9. PICK t : t = J[n]
  OBVIOUS
<1>10. IsSeq(t) /\ src = R \o t
  BY <1>3, <1>6, <1>7, <1>9 DEF Words
<1>11. \A k \in 1 .. Len(t) : src[Len(R) + k] = t[k]
  BY <1>8, <1>10, Cat
<1>12. src[r + y] = gs[p][x]
  BY <1>5, <1>8, <1>9, <1>11
<1>13. r + y = r + Len(J[p - 1]) + x
  <2>1. Len(J[p - 1]) \in Nat
    BY <1>3, <1>6
  <2>2. x \in Int /\ r \in Int
    OBVIOUS
  <2>3. QED
    BY <1>4, <2>1, <2>2
<1>14. QED
  BY <1>12, <1>13

\* The restacking loop makes the other layout, an argument at a time.
Swapped(src, sizes, n, before) ==
  before \o (IF sizes[n] = 1 THEN <<src[Len(before) + 1]>>
             ELSE <<src[Len(before) + 2], src[Len(before) + 1]>>)

RestackStep(src, sizes, g) ==
  g = [n \in 0 .. Len(sizes) |-> IF n = 0 THEN << >> ELSE Swapped(src, sizes, n, g[n - 1])]

LEMMA RestackIs ==
  ASSUME NEW src, NEW sizes
  PROVE  Restack(src, sizes) = (CHOOSE g : RestackStep(src, sizes, g))[Len(sizes)]
BY DEF Restack, RestackStep, Swapped

\* A receiver and groups of words behind it
LEMMA Arranged ==
  ASSUME NEW m \in Methods, NEW c, NEW r \in {0, 1}, r = Receivers(m),
         NEW n \in Nat, NEW hs, Groups(hs, n), NEW K, K = Joined(hs)
  PROVE  \A k \in 0 .. n : IsSeq(Words(m, c, K, k)) /\ Len(Words(m, c, K, k)) = r + Len(K[k])
<1> SUFFICES ASSUME NEW k \in 0 .. n, NEW b, b = Words(m, c, K, k)
    PROVE  IsSeq(b) /\ Len(b) = r + Len(K[k])
  OBVIOUS
<1>1. IsSeq(K[k]) /\ Len(K[k]) \in Nat
  BY JoinedLen
<1>2. PICK R, t : R = Receiver(m, c) /\ t = K[k]
  OBVIOUS
<1>3. IsSeq(R) /\ Len(R) = r
  BY <1>2, ReceiverFacts
<1>4. IsSeq(t) /\ b = R \o t
  BY <1>1, <1>2 DEF Words
<1>5. IsSeq(b) /\ Len(b) = Len(R) + Len(t)
  BY <1>3, <1>4, Cat
<1>6. QED
  BY <1>1, <1>2, <1>3, <1>5

\* A turn of the restacking loop appends the words of one more argument.
Turns(m, c, r, src, K, n) ==
  \A p \in 1 .. n : Swapped(src, argsizes(m), r + p, Words(m, c, K, p - 1)) = Words(m, c, K, p)

LEMMA SwappedNext ==
  ASSUME NEW m \in Methods, NEW c, NEW r \in {0, 1}, r = Receivers(m),
         NEW n \in Nat, NEW gs, NEW hs, Mirrored(m, n, gs, hs),
         NEW J, J = Joined(gs), NEW K, K = Joined(hs),
         NEW src, src = Words(m, c, J, n)
  PROVE  Turns(m, c, r, src, K, n)
<1> SUFFICES ASSUME NEW p \in 1 .. n, NEW b, b = Words(m, c, K, p - 1)
    PROVE  Swapped(src, argsizes(m), r + p, b) = Words(m, c, K, p)
  BY DEF Turns
<1>1. PICK S : S = argsizes(m)
  OBVIOUS
<1>2. n = Len(Info[m].params)
  BY DEF Mirrored
<1>3. \A q \in 1 .. n : S[r + q] = IF Wide(Info[m].params[q]) THEN 2 ELSE 1
  BY <1>1, <1>2, Sizes
<1>4. /\ Groups(gs, n) /\ Groups(hs, n)
      /\ \A q \in 1 .. n : Len(gs[q]) = IF Wide(Info[m].params[q]) THEN 2 ELSE 1
  BY MirroredFacts
<1>5. p - 1 \in 0 .. n
  OBVIOUS
<1>6. Len(b) = r + Len(K[p - 1])
  <2>1. \A k \in 0 .. n : Len(Words(m, c, K, k)) = r + Len(K[k])
    BY <1>4, Arranged
  <2>2. QED
    BY <1>5, <2>1
<1>7. Len(J[p - 1]) = Len(K[p - 1])
  <2>1. \A k \in 0 .. n : Len(J[k]) = Len(K[k])
    BY MirroredLen
  <2>2. QED
    BY <1>5, <2>1
<1>8. PICK l : l = Len(b)
  OBVIOUS
<1>9. l = r + Len(J[p - 1]) /\ Len(J[p - 1]) \in Nat
  <2>1. Len(J[p - 1]) \in Nat
    BY <1>4, <1>5, JoinedLen
  <2>2. QED
    BY <1>6, <1>7, <1>8, <2>1
<1>10. \A x \in 1 .. Len(gs[p]) : src[r + Len(J[p - 1]) + x] = gs[p][x]
  <2>1. Reads(src, r, J, gs, n)
    BY WordAt
  <2>2. QED
    BY <2>1 DEF Reads
<1>11. \A x \in 1 .. Len(gs[p]) : src[l + x] = gs[p][x]
  BY <1>9, <1>10
<1>12. PICK g, h : g = gs[p] /\ h = hs[p]
  OBVIOUS
<1>13. Swapped(src, S, r + p, b) = b \o h
  <2>1. CASE Wide(Info[m].params[p])
    <3>1. PICK x, y : g = <<x, y>> /\ h = <<y, x>>
      BY <1>12, <2>1 DEF Mirrored
    <3>2. S[r + p] = 2 /\ Len(g) = 2
      BY <1>3, <1>4, <1>12, <2>1
    <3>3. 1 \in 1 .. 2 /\ 2 \in 1 .. 2 /\ g[1] = x /\ g[2] = y
      BY <3>1
    <3>4. src[l + 1] = x /\ src[l + 2] = y
      BY <1>11, <1>12, <3>2, <3>3
    <3>5. QED
      BY <1>8, <3>1, <3>2, <3>4 DEF Swapped
  <2>2. CASE ~ Wide(Info[m].params[p])
    <3>1. PICK x : g = <<x>> /\ h = <<x>>
      BY <1>12, <2>2 DEF Mirrored
    <3>2. S[r + p] = 1 /\ Len(g) = 1
      BY <1>3, <1>4, <1>12, <2>2
    <3>3. 1 \in 1 .. 1 /\ g[1] = x
      BY <3>1
    <3>4. src[l + 1] = x
      BY <1>11, <1>12, <3>2, <3>3
    <3>5. QED
      BY <1>8, <3>1, <3>2, <3>4 DEF Swapped
  <2>3. QED
    BY <2>1, <2>2
<1>14. K[p] = K[p - 1] \o h
  <2>1. Len(hs) \in Nat /\ n = Len(hs)
    BY <1>4 DEF Groups
  <2>2. \A k \in 1 .. n : K[k] = K[k - 1] \o hs[k]
    BY <2>1, JoinedStep
  <2>3. QED
    BY <1>12, <2>2
<1>15. PICK R, a : R = Receiver(m, c) /\ a = K[p - 1]
  OBVIOUS
<1>16. IsSeq(R)
  BY <1>15, ReceiverFacts
<1>17. IsSeq(a)
  BY <1>4, <1>5, <1>15, JoinedLen
<1>18. IsSeq(h)
  BY <1>4, <1>12 DEF Groups
<1>19. (R \o a) \o h = R \o (a \o h)
  BY <1>16, <1>17, <1>18, Assoc
<1>20. b = R \o a
  BY <1>15 DEF Words
<1>21. b \o h = Words(m, c, K, p)
  BY <1>14, <1>15, <1>19, <1>20 DEF Words
<1>22. QED
  BY <1>1, <1>13, <1>21

\* Restack() makes the layout of the other stack.
LEMMA Restacks ==
  ASSUME NEW m \in Methods, NEW c, NEW r \in {0, 1}, r = Receivers(m),
         NEW n \in Nat, NEW gs, NEW hs, Mirrored(m, n, gs, hs),
         NEW J, J = Joined(gs), NEW K, K = Joined(hs),
         NEW src, src = Words(m, c, J, n)
  PROVE  Restack(src, argsizes(m)) = Words(m, c, K, n)
<1>1. PICK S : S = argsizes(m)
  OBVIOUS
<1>2. n = Len(Info[m].params)
  BY DEF Mirrored
<1>3. Len(S) = r + n
  BY <1>1, <1>2, Sizes
<1>4. r = 1 => S[1] = 1
  BY <1>1, <1>2, Sizes
<1>5. Groups(gs, n) /\ Groups(hs, n)
  BY MirroredFacts
<1>6. K[0] = << >> /\ J[0] = << >>
  <2>1. Len(hs) \in Nat /\ Len(gs) \in Nat
    BY <1>5 DEF Groups
  <2>2. QED
    BY <2>1, JoinedStep
<1>7. PICK h : h = [k \in 0 .. r + n |-> IF k < r THEN << >> ELSE Words(m, c, K, k - r)]
  OBVIOUS
<1>8. \A p \in 1 .. n : Swapped(src, S, r + p, Words(m, c, K, p - 1)) = Words(m, c, K, p)
  <2>1. Turns(m, c, r, src, K, n)
    BY SwappedNext
  <2>2. QED
    BY <1>1, <2>1 DEF Turns
<1>9. r \in {0, 1} /\ r + n \in Nat
  OBVIOUS
<1>10. PICK R : R = Receiver(m, c)
  OBVIOUS
<1>11. IsSeq(R) /\ Len(R) = r /\ (r = 1 => R = <<<<c, 0, "w">>>>) /\ (r = 0 => R = << >>)
  BY <1>10, ReceiverFacts
<1>12. Words(m, c, K, 0) = R
  <2>1. R \o << >> = R
    BY <1>11, Empty
  <2>2. QED
    BY <1>6, <1>10, <2>1 DEF Words
<1>13. ASSUME r = 1 PROVE Swapped(src, S, 1, << >>) = R
  <2>1. PICK t : t = J[n]
    OBVIOUS
  <2>2. n \in 0 .. n
    OBVIOUS
  <2>3. IsSeq(t)
    BY <1>5, <2>1, <2>2, JoinedLen
  <2>4. src = R \o t
    BY <1>10, <2>1 DEF Words
  <2>5. \A k \in 1 .. Len(R) : src[k] = R[k]
    BY <1>11, <2>3, <2>4, Cat
  <2>6. PICK w : w = <<c, 0, "w">>
    OBVIOUS
  <2>7. R = <<w>> /\ R[1] = w
    BY <1>11, <1>13, <2>6
  <2>8. src[1] = w
    BY <1>11, <1>13, <2>5, <2>7
  <2>9. Swapped(src, S, 1, << >>) = << >> \o <<src[Len(<< >>) + 1]>>
    BY <1>4, <1>13 DEF Swapped
  <2>10. Len(<< >>) + 1 = 1
    OBVIOUS
  <2>11. << >> \o <<w>> = <<w>>
    BY WordsSeq, Empty
  <2>12. QED
    BY <2>7, <2>8, <2>9, <2>10, <2>11
<1>14. ASSUME NEW k \in 0 .. r + n PROVE h[k] = IF k = 0 THEN << >> ELSE Swapped(src, S, k, h[k - 1])
  <2>1. CASE k = 0
    <3>1. CASE r = 0
      BY <1>7, <1>11, <1>12, <2>1, <3>1
    <3>2. CASE r = 1
      BY <1>7, <2>1, <3>2
    <3>3. QED
      BY <3>1, <3>2
  <2>2. CASE k # 0 /\ k <= r
    <3>1. r = 1 /\ k = 1
      BY <1>9, <2>2
    <3>2. h[0] = << >>
      BY <1>7, <1>9, <3>1
    <3>3. h[1] = R
      BY <1>7, <1>9, <1>12, <3>1
    <3>4. QED
      BY <1>13, <3>1, <3>2, <3>3
  <2>3. CASE k > r
    <3>1. PICK p : p = k - r
      OBVIOUS
    <3>2. p \in 1 .. n /\ k = r + p /\ k # 0
      <4>1. k \in Int /\ r \in Int /\ k <= r + n /\ k > r /\ r >= 0
        BY <2>3
      <4>2. QED
        BY <3>1, <4>1
    <3>3. PICK j : j = k - 1
      OBVIOUS
    <3>4. j \in 0 .. r + n /\ ~ (j < r) /\ j - r = p - 1
      <4>1. r \in Int /\ p \in Int /\ p >= 1 /\ p <= n /\ j = r + p - 1 /\ r >= 0
        BY <3>2, <3>3
      <4>2. QED
        BY <4>1
    <3>5. h[j] = Words(m, c, K, p - 1)
      BY <1>7, <3>4
    <3>6. h[k] = Words(m, c, K, p)
      BY <1>7, <2>3, <3>1
    <3>7. Swapped(src, S, r + p, h[j]) = h[k]
      BY <1>8, <3>2, <3>5, <3>6
    <3>8. QED
      BY <3>2, <3>3, <3>7
  <2>4. QED
    BY <1>9, <2>1, <2>2, <2>3
<1>15. RestackStep(src, S, h)
  <2>1. PICK l : l = r + n
    OBVIOUS
  <2>2. h = [k \in 0 .. l |-> IF k = 0 THEN << >> ELSE Swapped(src, S, k, h[k - 1])]
    BY <1>7, <1>14, <2>1
  <2>3. QED
    BY <1>3, <2>1, <2>2 DEF RestackStep
<1>16. PICK g : g = CHOOSE x : RestackStep(src, S, x)
  OBVIOUS
<1>17. RestackStep(src, S, g)
  BY <1>15, <1>16
<1>18. \A k \in 0 .. r + n : g[k] = IF k = 0 THEN << >> ELSE Swapped(src, S, k, g[k - 1])
  BY <1>3, <1>17 DEF RestackStep
<1>19. PICK T : T = {k \in 0 .. r + n : g[k] = h[k]}
  OBVIOUS
<1>20. 0 \in T
  <2>1. 0 \in 0 .. r + n
    BY <1>9
  <2>2. g[0] = << >> /\ h[0] = << >>
    BY <1>14, <1>18, <2>1
  <2>3. QED
    BY <1>19, <2>1, <2>2
<1>21. ASSUME NEW k \in 1 .. r + n, k - 1 \in T PROVE k \in T
  <2>1. g[k - 1] = h[k - 1] /\ k \in 0 .. r + n /\ k # 0
    BY <1>9, <1>19, <1>21
  <2>2. g[k] = Swapped(src, S, k, g[k - 1])
    BY <1>18, <2>1
  <2>3. h[k] = Swapped(src, S, k, h[k - 1])
    BY <1>14, <2>1
  <2>4. QED
    BY <1>19, <2>1, <2>2, <2>3
<1>22. \A k \in 0 .. r + n : k \in T
  BY <1>9, <1>20, <1>21, Induct
<1>23. r + n \in 0 .. r + n
  BY <1>9
<1>24. g[r + n] = h[r + n]
  BY <1>19, <1>22, <1>23
<1>25. h[r + n] = Words(m, c, K, n)
  <2>1. PICK k : k = r + n
    OBVIOUS
  <2>2. k \in 0 .. r + n /\ ~ (k < r) /\ k - r = n
    BY <1>9, <1>23, <2>1
  <2>3. QED
    BY <1>7, <2>1, <2>2
<1>26. Restack(src, S) = g[r + n]
  BY <1>3, <1>16, RestackIs
<1>27. QED
  BY <1>1, <1>24, <1>25, <1>26

\* For every signature, invocationHelper() turns the native layout of the arguments
\* into that of the Java stack, invokeJITCompiledMethod() turns it back, and both
\* take as many words as args_size says.
THEOREM Layouts ==
  ASSUME NEW m \in Methods, NEW c
  PROVE  /\ ToJVM(NativeWords(m, c), m) = JVMWords(m, c)
         /\ ToNative(JVMWords(m, c), m) = NativeWords(m, c)
         /\ args_size(m) \in Nat
         /\ IsSeq(NativeWords(m, c)) /\ Len(NativeWords(m, c)) = args_size(m)
         /\ IsSeq(JVMWords(m, c)) /\ Len(JVMWords(m, c)) = args_size(m)
<1>1. PICK n \in Nat : n = Len(Info[m].params)
  BY Params
<1>2. PICK r \in {0, 1} : r = Receivers(m)
  BY DEF Receivers
<1>3. PICK gs, hs : gs = NativeGroups(m, c) /\ hs = JVMGroups(m, c)
  OBVIOUS
<1>4. PICK J, K : J = Joined(gs) /\ K = Joined(hs)
  OBVIOUS
<1>5. PICK nw, jw : nw = NativeWords(m, c) /\ jw = JVMWords(m, c)
  OBVIOUS
<1>6. Groups(gs, n) /\ nw = Words(m, c, J, n)
  BY <1>1, <1>3, <1>4, <1>5, NativeForm DEF Words
<1>7. Groups(hs, n) /\ jw = Words(m, c, K, n)
  BY <1>1, <1>3, <1>4, <1>5, JVMForm DEF Words
<1>8. Mirrored(m, n, gs, hs)
  BY <1>1, <1>3, NativeMirrorsJVM
<1>9. Mirrored(m, n, hs, gs)
  BY <1>1, <1>3, NativeMirrorsJVM
<1>10. Restack(nw, argsizes(m)) = jw
  BY <1>2, <1>4, <1>6, <1>7, <1>8, Restacks
<1>11. Restack(jw, argsizes(m)) = nw
  BY <1>2, <1>4, <1>6, <1>7, <1>9, Restacks
<1>12. args_size(m) = r + Len(J[n]) /\ args_size(m) \in Nat
  BY <1>2, <1>4, <1>8, ArgsSize
<1>13. args_size(m) = r + Len(K[n])
  BY <1>2, <1>4, <1>9, ArgsSize
<1>14. n \in 0 .. n
  OBVIOUS
<1>15. IsSeq(nw) /\ Len(nw) = r + Len(J[n])
  <2>1. \A k \in 0 .. n : IsSeq(Words(m, c, J, k)) /\ Len(Words(m, c, J, k)) = r + Len(J[k])
    BY <1>2, <1>4, <1>6, Arranged
  <2>2. QED
    BY <1>6, <1>14, <2>1
<1>16. IsSeq(jw) /\ Len(jw) = r + Len(K[n])
  <2>1. \A k \in 0 .. n : IsSeq(Words(m, c, K, k)) /\ Len(Words(m, c, K, k)) = r + Len(K[k])
    BY <1>2, <1>4, <1>7, Arranged
  <2>2. QED
    BY <1>7, <1>14, <2>1
<1>17. QED
  BY <1>5, <1>10, <1>11, <1>12, <1>13, <1>15, <1>16 DEF ToJVM, ToNative

\* The C arguments: what is ahead of the parameters, and the parameters
CHead(m, c, kind) ==
  CASE kind = "jni" -> <<"env", IF Info[m].static THEN Ref(<<"class", m>>) ELSE Ref(<<c, 0, "w">>)>>
    [] kind = "nmi" -> IF Info[m].static THEN <<Null>> ELSE <<<<c, 0, "w">>>>
    [] OTHER        -> Receiver(m, c)

\* two words for a long, one for any other parameter
Sized(m, n, gs) == \A p \in 1 .. n : Len(gs[p]) = IF Wide(Info[m].params[p]) THEN 2 ELSE 1

CFormed(m, c, kind, ws) == CArgs(m, c, kind) = CHead(m, c, kind) \o ws

LEMMA CForm ==
  ASSUME NEW m \in Methods, NEW c, NEW n \in Nat, n = Len(Info[m].params), NEW kind,
         NEW gs, gs = CGroups(m, c, kind)
  PROVE  /\ Groups(gs, n) /\ Sized(m, n, gs)
         /\ CFormed(m, c, kind, Joined(gs)[n])
<1>1. gs = [p \in 1 .. n |-> gs[p]]
  BY DEF CGroups
<1>2. IsSeq(gs)
  BY <1>1, FunSeq
<1>3. Len(gs) = n
  BY <1>1, FunSeq
<1>4. ASSUME NEW p \in 1 .. n
      PROVE  IsSeq(gs[p]) /\ Len(gs[p]) = IF Wide(Info[m].params[p]) THEN 2 ELSE 1
  <2>1. CASE Wide(Info[m].params[p])
    <3>1. gs[p] = <<<<c, p, "lo">>, <<c, p, "hi">>>>
      BY <2>1 DEF CGroups, Wide, IsObject
    <3>2. QED
      BY <2>1, <3>1, WordsSeq
  <2>2. CASE ~ Wide(Info[m].params[p])
    <3>1. PICK x : gs[p] = <<x>>
      BY <2>2 DEF CGroups
    <3>2. QED
      BY <2>2, <3>1, WordsSeq
  <2>3. QED
    BY <2>1, <2>2
<1>5. Groups(gs, n)
  BY <1>3, <1>4 DEF Groups
<1>6. FlattenSeq(gs) = Joined(gs)[n]
  BY <1>2, <1>5, Flatten
<1>7. CArgs(m, c, kind) = CHead(m, c, kind) \o FlattenSeq(gs)
  BY DEF CArgs, CHead, Each, CGroups
<1>8. QED
  BY <1>4, <1>5, <1>6, <1>7 DEF Sized, CFormed

\* The loop over terse_sig appends the words of a parameter.
Loaded(loc, m, p, from, byRef, before) ==
  before \o
    (IF Wide(Info[m].params[p])
     THEN <<loc[from + Len(before) + 1], loc[from + Len(before)]>>
     ELSE IF IsObject(Info[m].params[p]) /\ byRef THEN <<Ref(loc[from + Len(before)])>>
     ELSE <<loc[from + Len(before)]>>)

ArgsStep(loc, m, from, byRef, g) ==
  g = [p \in 0 .. Len(Info[m].params) |->
         IF p = 0 THEN << >> ELSE Loaded(loc, m, p, from, byRef, g[p - 1])]

LEMMA NativeArgsIs ==
  ASSUME NEW loc, NEW m, NEW from, NEW byRef
  PROVE  NativeArgs(loc, m, from, byRef)
           = (CHOOSE g : ArgsStep(loc, m, from, byRef, g))[Len(Info[m].params)]
BY DEF NativeArgs, ArgsStep, Loaded

\* A turn of the loop appends one more group.
Loads(loc, m, r, byRef, K, n) ==
  \A p \in 1 .. n : Loaded(loc, m, p, r + 1, byRef, K[p - 1]) = K[p]

LEMMA LoadedNext ==
  ASSUME NEW m \in Methods, NEW c, NEW r \in {0, 1}, r = Receivers(m),
         NEW n \in Nat, n = Len(Info[m].params),
         NEW kind, NEW byRef, byRef = (kind = "jni"),
         NEW hs, hs = CGroups(m, c, kind), NEW K, K = Joined(hs)
  PROVE  Loads(NativeWords(m, c), m, r, byRef, K, n)
<1> SUFFICES ASSUME NEW p \in 1 .. n
    PROVE  Loaded(NativeWords(m, c), m, p, r + 1, byRef, K[p - 1]) = K[p]
  BY DEF Loads
<1>1. PICK gs : gs = NativeGroups(m, c)
  OBVIOUS
<1>2. PICK J, loc : J = Joined(gs) /\ loc = NativeWords(m, c)
  OBVIOUS
<1>3. Groups(gs, n) /\ loc = Words(m, c, J, n)
  BY <1>1, <1>2, NativeForm DEF Words
<1>4. Mirrored(m, n, gs, JVMGroups(m, c))
  BY <1>1, NativeMirrorsJVM
<1>5. \A q \in 1 .. n : Len(gs[q]) = IF Wide(Info[m].params[q]) THEN 2 ELSE 1
  BY <1>4, MirroredFacts
<1>6. Groups(hs, n) /\ \A q \in 1 .. n : Len(hs[q]) = IF Wide(Info[m].params[q]) THEN 2 ELSE 1
  <2>1. Groups(hs, n)
    BY CForm
  <2>2. Sized(m, n, hs)
    BY CForm
  <2>3. QED
    BY <2>1, <2>2 DEF Sized
<1>7. \A k \in 0 .. n : Len(J[k]) = Len(K[k])
  <2>1. /\ Len(J[0]) = 0 /\ \A k \in 1 .. n : Len(J[k]) = Len(J[k - 1]) + Len(gs[k])
        /\ \A k \in 0 .. n : Len(J[k]) \in Nat
    BY <1>2, <1>3, JoinedLen
  <2>2. Len(K[0]) = 0 /\ \A k \in 1 .. n : Len(K[k]) = Len(K[k - 1]) + Len(hs[k])
    BY <1>6, JoinedLen
  <2>3. PICK T : T = {k \in 0 .. n : Len(J[k]) = Len(K[k])}
    OBVIOUS
  <2>4. 0 \in T
    BY <2>1, <2>2, <2>3
  <2>5. ASSUME NEW k \in 1 .. n, k - 1 \in T PROVE k \in T
    <3>1. Len(J[k - 1]) = Len(K[k - 1]) /\ Len(gs[k]) = Len(hs[k])
      BY <1>5, <1>6, <2>3, <2>5
    <3>2. Len(J[k]) = Len(K[k])
      BY <2>1, <2>2, <3>1
    <3>3. QED
      BY <2>3, <3>2
  <2>6. \A k \in 0 .. n : k \in T
    BY <2>4, <2>5, Induct
  <2>7. QED
    BY <2>3, <2>6
<1>8. Reads(loc, r, J, gs, n)
  BY <1>2, <1>3, <1>4, WordAt
<1>9. p - 1 \in 0 .. n
  OBVIOUS
<1>10. PICK b, l : b = K[p - 1] /\ l = Len(K[p - 1])
  OBVIOUS
<1>11. l = Len(b) /\ l = Len(J[p - 1]) /\ l \in Nat
  <2>1. Len(J[p - 1]) \in Nat
    BY <1>2, <1>3, <1>9, JoinedLen
  <2>2. QED
    BY <1>7, <1>9, <1>10, <2>1
<1>12. \A x \in 1 .. Len(gs[p]) : loc[r + l + x] = gs[p][x]
  BY <1>8, <1>11 DEF Reads
<1>13. PICK i : i = r + 1 + l
  OBVIOUS
<1>14. i = r + l + 1 /\ i + 1 = r + l + 2 /\ i = r + 1 + Len(b)
  <2>1. r \in Int
    OBVIOUS
  <2>2. QED
    BY <1>11, <1>13, <2>1
<1>15. PICK g, h, t : g = gs[p] /\ h = hs[p] /\ t = Info[m].params[p]
  OBVIOUS
<1>16. Loaded(loc, m, p, r + 1, byRef, b) = b \o h
  <2>1. CASE Wide(t)
    <3>1. g = <<<<c, p, "hi">>, <<c, p, "lo">>>> /\ h = <<<<c, p, "lo">>, <<c, p, "hi">>>>
      <4>1. g = <<Word(c, p, t, "hi"), Word(c, p, t, "lo")>>
        BY <1>1, <1>15, <2>1 DEF NativeGroups
      <4>2. h = <<<<c, p, "lo">>, <<c, p, "hi">>>>
        BY <1>15, <2>1 DEF CGroups, Wide, IsObject
      <4>3. t # "N"
        BY <2>1 DEF Wide
      <4>4. QED
        BY <4>1, <4>2, <4>3 DEF Word
    <3>2. 1 \in 1 .. Len(g) /\ 2 \in 1 .. Len(g)
      BY <1>5, <1>15, <2>1
    <3>3. loc[r + l + 1] = <<c, p, "hi">> /\ loc[r + l + 2] = <<c, p, "lo">>
      BY <1>12, <1>15, <3>1, <3>2
    <3>4. loc[i] = <<c, p, "hi">> /\ loc[i + 1] = <<c, p, "lo">>
      BY <1>14, <3>3
    <3>5. Loaded(loc, m, p, r + 1, byRef, b) = b \o <<loc[i + 1], loc[i]>>
      BY <1>14, <1>15, <2>1 DEF Loaded
    <3>6. QED
      BY <3>1, <3>4, <3>5
  <2>2. CASE ~ Wide(t)
    <3>1. PICK w : w = Word(c, p, t, "w")
      OBVIOUS
    <3>2. g = <<w>> /\ h = IF IsObject(t) /\ byRef THEN <<Ref(w)>> ELSE <<w>>
      BY <1>1, <1>15, <2>2, <3>1 DEF NativeGroups, CGroups
    <3>3. 1 \in 1 .. Len(g) /\ g[1] = w
      BY <1>5, <1>15, <2>2, <3>2
    <3>4. loc[i] = w
      BY <1>12, <1>14, <1>15, <3>3
    <3>5. Loaded(loc, m, p, r + 1, byRef, b)
            = b \o (IF IsObject(t) /\ byRef THEN <<Ref(loc[i])>> ELSE <<loc[i]>>)
      BY <1>14, <1>15, <2>2 DEF Loaded
    <3>6. QED
      BY <3>2, <3>4, <3>5
  <2>3. QED
    BY <2>1, <2>2
<1>17. K[p] = K[p - 1] \o h
  <2>1. Len(hs) \in Nat /\ n = Len(hs)
    BY <1>6 DEF Groups
  <2>2. \A k \in 1 .. n : K[k] = K[k - 1] \o hs[k]
    BY <2>1, JoinedStep
  <2>3. QED
    BY <1>15, <2>2
<1>18. QED
  BY <1>2, <1>10, <1>16, <1>17

LEMMA LoopDelivers ==
  ASSUME NEW m \in Methods, NEW c, NEW r \in {0, 1}, r = Receivers(m),
         NEW n \in Nat, n = Len(Info[m].params),
         NEW kind, NEW byRef, byRef = (kind = "jni"),
         NEW hs, hs = CGroups(m, c, kind), NEW K, K = Joined(hs)
  PROVE  NativeArgs(NativeWords(m, c), m, r + 1, byRef) = K[n]
<1>1. PICK loc, from : loc = NativeWords(m, c) /\ from = r + 1
  OBVIOUS
<1>2. Loads(loc, m, r, byRef, K, n)
  BY <1>1, LoadedNext
<1>3. \A p \in 1 .. n : Loaded(loc, m, p, from, byRef, K[p - 1]) = K[p]
  BY <1>1, <1>2 DEF Loads
<1>4. K[0] = << >>
  <2>1. Groups(hs, n)
    BY CForm
  <2>2. Len(hs) \in Nat
    BY <2>1 DEF Groups
  <2>3. QED
    BY <2>2, JoinedStep
<1>5. PICK h : h = [p \in 0 .. n |-> K[p]]
  OBVIOUS
<1>6. ASSUME NEW p \in 0 .. n
      PROVE  h[p] = IF p = 0 THEN << >> ELSE Loaded(loc, m, p, from, byRef, h[p - 1])
  <2>1. CASE p = 0
    BY <1>4, <1>5, <2>1
  <2>2. CASE p # 0
    <3>1. p \in 1 .. n /\ p - 1 \in 0 .. n
      BY <2>2
    <3>2. h[p - 1] = K[p - 1] /\ h[p] = K[p]
      BY <1>5, <3>1
    <3>3. Loaded(loc, m, p, from, byRef, K[p - 1]) = K[p]
      BY <1>3, <3>1
    <3>4. QED
      BY <2>2, <3>2, <3>3
  <2>3. QED
    BY <2>1, <2>2
<1>7. ArgsStep(loc, m, from, byRef, h)
  <2>1. h = [p \in 0 .. n |-> IF p = 0 THEN << >> ELSE Loaded(loc, m, p, from, byRef, h[p - 1])]
    BY <1>5, <1>6
  <2>2. QED
    BY <2>1 DEF ArgsStep
<1>8. PICK g : g = CHOOSE x : ArgsStep(loc, m, from, byRef, x)
  OBVIOUS
<1>9. ArgsStep(loc, m, from, byRef, g)
  BY <1>7, <1>8
<1>10. \A p \in 0 .. n : g[p] = IF p = 0 THEN << >> ELSE Loaded(loc, m, p, from, byRef, g[p - 1])
  BY <1>9 DEF ArgsStep
<1>11. PICK T : T = {p \in 0 .. n : g[p] = h[p]}
  OBVIOUS
<1>12. 0 \in T
  <2>1. 0 \in 0 .. n
    OBVIOUS
  <2>2. g[0] = << >> /\ h[0] = << >>
    BY <1>6, <1>10, <2>1
  <2>3. QED
    BY <1>11, <2>1, <2>2
<1>13. ASSUME NEW p \in 1 .. n, p - 1 \in T PROVE p \in T
  <2>1. g[p - 1] = h[p - 1] /\ p \in 0 .. n /\ p # 0
    BY <1>11, <1>13
  <2>2. g[p] = Loaded(loc, m, p, from, byRef, g[p - 1])
    BY <1>10, <2>1
  <2>3. h[p] = Loaded(loc, m, p, from, byRef, h[p - 1])
    BY <1>6, <2>1
  <2>4. QED
    BY <1>11, <2>1, <2>2, <2>3
<1>14. \A p \in 0 .. n : p \in T
  BY <1>12, <1>13, Induct
<1>15. n \in 0 .. n
  OBVIOUS
<1>16. g[n] = K[n]
  BY <1>5, <1>11, <1>14, <1>15
<1>17. NativeArgs(loc, m, from, byRef) = g[n]
  BY <1>8, NativeArgsIs
<1>18. QED
  BY <1>1, <1>16, <1>17

\* The receiver is the first word.
LEMMA FirstWord ==
  ASSUME NEW m \in Methods, NEW c, ~ Info[m].static
  PROVE  /\ NativeWords(m, c)[1] = <<c, 0, "w">> /\ JVMWords(m, c)[1] = <<c, 0, "w">>
         /\ args_size(m) >= 1
<1>1. PICK n \in Nat : n = Len(Info[m].params)
  BY Params
<1>2. PICK gs, hs : gs = NativeGroups(m, c) /\ hs = JVMGroups(m, c)
  OBVIOUS
<1>3. PICK R, w : R = Receiver(m, c) /\ w = <<c, 0, "w">>
  OBVIOUS
<1>4. R = <<w>>
  BY <1>3 DEF Receiver
<1>5. IsSeq(R) /\ Len(R) = 1 /\ R[1] = w
  BY <1>4, WordsSeq
<1>6. n \in 0 .. n /\ 1 \in 1 .. 1
  OBVIOUS
<1>7. ASSUME NEW ks, Groups(ks, n), NEW ws, ws = R \o Joined(ks)[n]
      PROVE  ws[1] = w /\ Len(ws) >= 1
  <2>1. PICK J, t : J = Joined(ks) /\ t = J[n]
    OBVIOUS
  <2>2. IsSeq(t)
    BY <1>6, <1>7, <2>1, JoinedLen
  <2>3. ws = R \o t
    BY <1>7, <2>1
  <2>8. IsSeq(R)
    BY <1>5
  <2>4. \A k \in 1 .. Len(R) : ws[k] = R[k]
    BY <2>2, <2>3, <2>8, Cat
  <2>5. Len(ws) = Len(R) + Len(t)
    BY <1>5, <2>2, <2>3, Cat
  <2>6. Len(t) \in Nat
    BY <2>2, SeqFacts
  <2>7. QED
    BY <1>5, <1>6, <2>4, <2>5, <2>6
<1>8. Groups(gs, n) /\ NativeWords(m, c) = R \o Joined(gs)[n]
  BY <1>1, <1>2, <1>3, NativeForm
<1>9. Groups(hs, n) /\ JVMWords(m, c) = R \o Joined(hs)[n]
  BY <1>1, <1>2, <1>3, JVMForm
<1>10. NativeWords(m, c)[1] = w
  BY <1>7, <1>8
<1>11. JVMWords(m, c)[1] = w /\ Len(JVMWords(m, c)) >= 1
  BY <1>7, <1>9
<1>12. Len(JVMWords(m, c)) = args_size(m)
  BY Layouts
<1>13. QED
  BY <1>3, <1>10, <1>11, <1>12

\* For every signature, what invocationHelper() pushes for a JNI function and for an
\* old style native function are the C arguments it expects.
THEOREM CLayout ==
  ASSUME NEW m \in Methods, NEW c
  PROVE  /\ JNIArgs(NativeWords(m, c), m) = CArgs(m, c, "jni")
         /\ NMIArgs(NativeWords(m, c), m) = CArgs(m, c, "nmi")
<1>1. PICK n \in Nat : n = Len(Info[m].params)
  BY Params
<1>2. PICK loc : loc = NativeWords(m, c)
  OBVIOUS
<1>3. PICK r \in {0, 1} : r = Receivers(m)
  BY DEF Receivers
<1>4. ASSUME NEW kind, NEW byRef, byRef = (kind = "jni")
      PROVE  CArgs(m, c, kind) = CHead(m, c, kind) \o NativeArgs(loc, m, r + 1, byRef)
  <2>1. PICK hs : hs = CGroups(m, c, kind)
    OBVIOUS
  <2>2. PICK K : K = Joined(hs)
    OBVIOUS
  <2>3. NativeArgs(loc, m, r + 1, byRef) = K[n]
    BY <1>1, <1>2, <1>3, <1>4, <2>1, <2>2, LoopDelivers
  <2>4. CArgs(m, c, kind) = CHead(m, c, kind) \o K[n]
    <3>1. CFormed(m, c, kind, Joined(hs)[n])
      BY <1>1, <2>1, CForm
    <3>2. QED
      BY <2>2, <3>1 DEF CFormed
  <2>5. QED
    BY <2>3, <2>4
<1>5. CArgs(m, c, "jni") = CHead(m, c, "jni") \o NativeArgs(loc, m, r + 1, TRUE)
  BY <1>4
<1>6. CArgs(m, c, "nmi") = CHead(m, c, "nmi") \o NativeArgs(loc, m, r + 1, FALSE)
  BY <1>4
<1>7. CASE Info[m].static
  <2>1. r + 1 = 1
    BY <1>3, <1>7 DEF Receivers
  <2>2. QED
    BY <1>2, <1>5, <1>6, <1>7, <2>1 DEF JNIArgs, NMIArgs, CHead
<1>8. CASE ~ Info[m].static
  <2>1. r + 1 = 2
    BY <1>3, <1>8 DEF Receivers
  <2>2. loc[1] = <<c, 0, "w">>
    BY <1>2, <1>8, FirstWord
  <2>3. QED
    BY <1>2, <1>5, <1>6, <1>8, <2>1, <2>2 DEF JNIArgs, NMIArgs, CHead
<1>9. QED
  BY <1>7, <1>8

-----------------------------------------------------------------------------
(* The scan of proxy_invoke().                                             *)

\* the characters of each parameter in the signature
SigGroups(m) ==
  [p \in 1 .. Len(Info[m].params) |->
     CASE Info[m].params[p] = "[I"  -> <<"[", "I">>
       [] Info[m].params[p] = "[[I" -> <<"[", "[", "I">>
       [] Info[m].params[p] = "N"   -> <<"L">>
       [] OTHER                     -> <<Info[m].params[p]>>]

Letter(t) == IF t \in {"[I", "[[I"} THEN "[" ELSE IF t = "N" THEN "L" ELSE t

LEMMA SigForm ==
  ASSUME NEW m \in Methods, NEW n \in Nat, n = Len(Info[m].params), NEW gs, gs = SigGroups(m)
  PROVE  /\ Groups(gs, n)
         /\ Signature(m) = Joined(gs)[n]
<1>1. gs = [p \in 1 .. n |-> gs[p]]
  BY DEF SigGroups
<1>2. IsSeq(gs)
  BY <1>1, FunSeq
<1>3. Len(gs) = n
  BY <1>1, FunSeq
<1>4. ASSUME NEW p \in 1 .. n PROVE IsSeq(gs[p])
  <2>1. PICK t : t = Info[m].params[p]
    OBVIOUS
  <2>2. gs[p] = CASE t = "[I"  -> <<"[", "I">>
                  [] t = "[[I" -> <<"[", "[", "I">>
                  [] t = "N"   -> <<"L">>
                  [] OTHER     -> <<t>>
    BY <2>1 DEF SigGroups
  <2>3. gs[p] \in Seq({"[", "I", "L", t})
    <3>1. /\ <<"[", "I">> \in Seq({"[", "I", "L", t}) /\ <<"L">> \in Seq({"[", "I", "L", t})
          /\ <<"[", "[", "I">> \in Seq({"[", "I", "L", t}) /\ <<t>> \in Seq({"[", "I", "L", t})
      OBVIOUS
    <3>2. CASE t = "[I"
      BY <2>2, <3>1, <3>2
    <3>3. CASE t = "[[I"
      BY <2>2, <3>1, <3>3
    <3>4. CASE t = "N"
      BY <2>2, <3>1, <3>4
    <3>5. CASE t \notin {"[I", "[[I", "N"}
      BY <2>2, <3>1, <3>5
    <3>6. QED
      BY <3>2, <3>3, <3>4, <3>5
  <2>4. QED
    BY <2>3 DEF IsSeq
<1>5. Groups(gs, n)
  BY <1>3, <1>4 DEF Groups
<1>6. FlattenSeq(gs) = Joined(gs)[n]
  BY <1>2, <1>5, Flatten
<1>7. Signature(m) = FlattenSeq(gs)
  BY DEF Signature, Each, SigGroups
<1>8. QED
  BY <1>5, <1>6, <1>7

\* the first character, and the others of an array of one dimension
Spelled(m, n, gs) ==
  \A p \in 1 .. n :
    /\ Len(gs[p]) >= 1 /\ gs[p][1] = Letter(Info[m].params[p])
    /\ Info[m].params[p] # "[[I" => Len(gs[p]) = IF Info[m].params[p] = "[I" THEN 2 ELSE 1

LEMMA SigSizes ==
  ASSUME NEW m \in Methods, NEW n \in Nat, n = Len(Info[m].params), NEW gs, gs = SigGroups(m)
  PROVE  Spelled(m, n, gs)
<1> SUFFICES ASSUME NEW p \in 1 .. n, NEW t, t = Info[m].params[p]
    PROVE  /\ Len(gs[p]) >= 1 /\ gs[p][1] = Letter(t)
           /\ t # "[[I" => Len(gs[p]) = IF t = "[I" THEN 2 ELSE 1
  BY DEF Spelled
<1>1. PICK g : g = gs[p]
  OBVIOUS
<1>2. g = CASE t = "[I"  -> <<"[", "I">>
            [] t = "[[I" -> <<"[", "[", "I">>
            [] t = "N"   -> <<"L">>
            [] OTHER     -> <<t>>
  BY <1>1 DEF SigGroups
<1>3. CASE t = "[I"
  BY <1>1, <1>2, <1>3 DEF Letter
<1>4. CASE t = "[[I"
  BY <1>1, <1>2, <1>4 DEF Letter
<1>5. CASE t = "N"
  BY <1>1, <1>2, <1>5 DEF Letter
<1>6. CASE t \notin {"[I", "[[I", "N"}
  BY <1>1, <1>2, <1>6 DEF Letter
<1>7. QED
  BY <1>3, <1>4, <1>5, <1>6

\* a turn of the scan
InLoc(loc, i) == IF i \in 1 .. Len(loc) THEN loc[i] ELSE Junk

Scanned(sig, loc, s) ==
  CASE sig[s.p] = "[" ->
         [p |-> s.p + 2, sp |-> s.sp + 1, out |-> Append(s.out, <<InLoc(loc, s.sp)>>)]
    [] Wide(sig[s.p]) ->
         [p |-> s.p + 1, sp |-> s.sp + 2,
          out |-> Append(s.out, <<InLoc(loc, s.sp + 1), InLoc(loc, s.sp)>>)]
    [] OTHER ->
         [p |-> s.p + 1, sp |-> s.sp + 1, out |-> Append(s.out, <<InLoc(loc, s.sp)>>)]

ScanStep(m, sig, loc, g) ==
  g = [n \in 0 .. Len(Info[m].params) |->
         IF n = 0 THEN [p |-> 1, sp |-> 2, out |-> << >>] ELSE Scanned(sig, loc, g[n - 1])]

LEMMA BoxedIs ==
  ASSUME NEW loc, NEW m
  PROVE  BoxedArgs(loc, m)
           = (CHOOSE g : ScanStep(m, Signature(m), loc, g))[Len(Info[m].params)].out
BY DEF BoxedArgs, ScanStep, Scanned, InLoc

\* what is sent for a parameter, and for the first k
BoxOf(m, c, p) ==
  IF Wide(Info[m].params[p]) THEN <<<<c, p, "lo">>, <<c, p, "hi">>>>
                             ELSE <<Word(c, p, Info[m].params[p], "w")>>

BoxesOf(m, c, k) == [p \in 1 .. k |-> BoxOf(m, c, p)]

LEMMA OneMore ==
  ASSUME NEW m, NEW c, NEW k \in Nat, NEW i, i = k + 1
  PROVE  Append(BoxesOf(m, c, k), BoxOf(m, c, i)) = BoxesOf(m, c, i)
<1>1. PICK s, r, t, b : s = BoxesOf(m, c, k) /\ r = BoxesOf(m, c, i) /\ b = BoxOf(m, c, i)
                     /\ t = Append(s, b)
  OBVIOUS
<1>2. i \in Nat
  OBVIOUS
<1>3. s = [p \in 1 .. k |-> s[p]] /\ r = [p \in 1 .. i |-> r[p]]
  BY <1>1 DEF BoxesOf
<1>4. IsSeq(s) /\ Len(s) = k
  BY <1>3, FunSeq
<1>5. IsSeq(r) /\ Len(r) = i
  BY <1>2, <1>3, FunSeq
<1>6. IsSeq(t) /\ Len(t) = Len(s) + 1 /\ t[Len(s) + 1] = b
      /\ \A p \in 1 .. Len(s) : t[p] = s[p]
  <2>1. IsSeq(s) /\ t = Append(s, b)
    BY <1>1, <1>4
  <2>2. IsSeq(t)
    BY <2>1, Push
  <2>3. Len(t) = Len(s) + 1
    BY <2>1, Push
  <2>4. t[Len(s) + 1] = b
    BY <2>1, Push
  <2>5. \A p \in 1 .. Len(s) : t[p] = s[p]
    BY <2>1, Push
  <2>6. QED
    BY <2>2, <2>3, <2>4, <2>5
<1>7. ASSUME NEW p \in 1 .. i PROVE t[p] = r[p]
  <2>1. CASE p = i
    BY <1>1, <1>4, <1>6, <2>1 DEF BoxesOf
  <2>2. CASE p # i
    <3>1. p \in 1 .. k
      BY <2>2
    <3>2. t[p] = s[p]
      BY <1>4, <1>6, <3>1
    <3>3. QED
      BY <1>1, <3>1, <3>2 DEF BoxesOf
  <2>3. QED
    BY <2>1, <2>2
<1>8. Len(t) = Len(r)
  BY <1>4, <1>5, <1>6
<1>9. \A p \in 1 .. Len(t) : t[p] = r[p]
  BY <1>5, <1>7, <1>8
<1>10. t = r
  BY <1>5, <1>6, <1>8, <1>9, Same
<1>11. QED
  BY <1>1, <1>10

\* the scan behind k parameters
ScanAt(m, c, SJ, J, k) ==
  [p |-> 1 + Len(SJ[k]), sp |-> 2 + Len(J[k]), out |-> BoxesOf(m, c, k)]

Scans(m, c, sig, loc, SJ, J, n) ==
  \A k \in 1 .. n :
    /\ Scanned(sig, loc, ScanAt(m, c, SJ, J, k - 1)).out = BoxesOf(m, c, k)
    /\ Info[m].params[k] # "[[I" =>
         Scanned(sig, loc, ScanAt(m, c, SJ, J, k - 1)) = ScanAt(m, c, SJ, J, k)

LEMMA ScannedNext ==
  ASSUME NEW m \in Methods, NEW c, ~ Info[m].static, NEW n \in Nat, n = Len(Info[m].params),
         NEW gs, gs = NativeGroups(m, c), NEW J, J = Joined(gs),
         NEW ss, ss = SigGroups(m), NEW SJ, SJ = Joined(ss)
  PROVE  Scans(m, c, Signature(m), NativeWords(m, c), SJ, J, n)
<1> SUFFICES ASSUME NEW k \in 1 .. n
    PROVE  /\ Scanned(Signature(m), NativeWords(m, c), ScanAt(m, c, SJ, J, k - 1)).out = BoxesOf(m, c, k)
           /\ Info[m].params[k] # "[[I" =>
                Scanned(Signature(m), NativeWords(m, c), ScanAt(m, c, SJ, J, k - 1))
                  = ScanAt(m, c, SJ, J, k)
  BY DEF Scans
<1>1. PICK sig, loc, t : sig = Signature(m) /\ loc = NativeWords(m, c) /\ t = Info[m].params[k]
  OBVIOUS
<1>2. k - 1 \in 0 .. n /\ k \in 0 .. n /\ n \in k .. n /\ n \in 0 .. n
  OBVIOUS
<1>3. Groups(gs, n) /\ loc = Words(m, c, J, n)
  BY <1>1, NativeForm DEF Words
<1>4. Groups(ss, n) /\ sig = SJ[n]
  BY <1>1, SigForm
<1>5. Mirrored(m, n, gs, JVMGroups(m, c))
  BY NativeMirrorsJVM
<1>6. \A q \in 1 .. n : Len(gs[q]) = IF Wide(Info[m].params[q]) THEN 2 ELSE 1
  BY <1>5, MirroredFacts
<1>7. /\ \A j \in 0 .. n : IsSeq(J[j]) /\ Len(J[j]) \in Nat
      /\ \A j \in 1 .. n : Len(J[j]) = Len(J[j - 1]) + Len(gs[j])
  BY <1>3, JoinedLen
<1>8. /\ \A j \in 0 .. n : Len(SJ[j]) \in Nat
      /\ \A j \in 1 .. n : Len(SJ[j]) = Len(SJ[j - 1]) + Len(ss[j])
  BY <1>4, JoinedLen
<1>9. PICK l, h : l = Len(J[k - 1]) /\ h = Len(SJ[k - 1])
  OBVIOUS
<1>10. l \in Nat /\ h \in Nat
  BY <1>2, <1>7, <1>8, <1>9
<1>11. /\ Len(ss[k]) >= 1 /\ ss[k][1] = Letter(t)
       /\ t # "[[I" => Len(ss[k]) = IF t = "[I" THEN 2 ELSE 1
  <2>1. Spelled(m, n, ss)
    BY SigSizes
  <2>2. QED
    BY <1>1, <2>1 DEF Spelled
<1>12. sig[1 + h] = Letter(t)
  <2>1. PICK y : y = Len(SJ[k - 1]) + 1
    OBVIOUS
  <2>2. 1 \in 1 .. Len(ss[k])
    <3>1. Len(ss[k]) \in Nat
      BY <1>4, SeqFacts DEF Groups
    <3>2. QED
      BY <1>11, <3>1
  <2>3. Lies(ss, SJ, n, k, 1, y)
    BY <1>4, <2>2, JoinedAt
  <2>4. SJ[n][y] = ss[k][1]
    BY <1>2, <2>1, <2>3 DEF Lies
  <2>5. y = 1 + h
    BY <1>9, <1>10, <2>1
  <2>6. QED
    BY <1>4, <1>11, <2>4, <2>5
<1>13. PICK i : i = 2 + l
  OBVIOUS
<1>14. ASSUME NEW x \in 1 .. Len(gs[k]) PROVE InLoc(loc, i + x - 1) = gs[k][x]
  <2>1. PICK y, u : y = Len(J[k - 1]) + x /\ u = J[n]
    OBVIOUS
  <2>2. Lies(gs, J, n, k, x, y)
    BY <1>3, JoinedAt
  <2>3. y \in 1 .. Len(u) /\ u[y] = gs[k][x]
    BY <1>2, <2>1, <2>2 DEF Lies
  <2>4. PICK R : R = Receiver(m, c)
    OBVIOUS
  <2>5. IsSeq(R)
    BY <2>4, WordsSeq DEF Receiver
  <2>6. Len(R) = 1
    BY <2>4, WordsSeq DEF Receiver
  <2>7. IsSeq(u) /\ loc = R \o u
    BY <1>2, <1>3, <1>7, <2>1, <2>4 DEF Words
  <2>8. \A j \in 1 .. Len(u) : loc[Len(R) + j] = u[j]
    BY <2>5, <2>7, Cat
  <2>9. Len(loc) = Len(R) + Len(u)
    BY <2>5, <2>7, Cat
  <2>10. Len(u) \in Nat
    BY <2>7, SeqFacts
  <2>11. PICK z : z = 1 + y
    OBVIOUS
  <2>12. loc[z] = gs[k][x]
    BY <2>3, <2>6, <2>8, <2>11
  <2>13. z \in 1 .. Len(loc)
    BY <2>3, <2>6, <2>9, <2>10, <2>11
  <2>14. z = i + x - 1
    BY <1>9, <1>10, <1>13, <2>1, <2>11
  <2>15. QED
    BY <2>12, <2>13, <2>14 DEF InLoc
<1>15. PICK s, r, b, f : s = ScanAt(m, c, SJ, J, k - 1) /\ r = Scanned(sig, loc, s)
                      /\ b = BoxesOf(m, c, k - 1) /\ f = BoxOf(m, c, k)
  OBVIOUS
<1>16. s.p = 1 + h /\ s.sp = i /\ s.out = b
  BY <1>9, <1>13, <1>15 DEF ScanAt
<1>17. Append(b, f) = BoxesOf(m, c, k)
  <2>1. k - 1 \in Nat /\ k = (k - 1) + 1
    OBVIOUS
  <2>2. QED
    BY <1>15, <2>1, OneMore
<1>18. CASE Wide(t)
  <2>1. t = "J" /\ Letter(t) = "J"
    BY <1>18 DEF Wide, Letter
  <2>2. gs[k] = <<<<c, k, "hi">>, <<c, k, "lo">>>>
    BY <1>1, <2>1 DEF NativeGroups, Wide, Word
  <2>3. 1 \in 1 .. Len(gs[k]) /\ 2 \in 1 .. Len(gs[k]) /\ Len(gs[k]) = 2
    BY <2>2
  <2>4. i + 1 - 1 = i /\ i + 2 - 1 = i + 1
    BY <1>10, <1>13
  <2>5. InLoc(loc, i) = <<c, k, "hi">> /\ InLoc(loc, i + 1) = <<c, k, "lo">>
    BY <1>14, <2>2, <2>3, <2>4
  <2>6. r = [p |-> s.p + 1, sp |-> s.sp + 2,
             out |-> Append(s.out, <<InLoc(loc, s.sp + 1), InLoc(loc, s.sp)>>)]
    BY <1>12, <1>15, <1>16, <2>1 DEF Scanned, Wide
  <2>7. f = <<<<c, k, "lo">>, <<c, k, "hi">>>>
    BY <1>1, <1>15, <1>18 DEF BoxOf
  <2>8. Append(s.out, <<InLoc(loc, s.sp + 1), InLoc(loc, s.sp)>>) = BoxesOf(m, c, k)
    BY <1>16, <1>17, <2>5, <2>7
  <2>9. s.p + 1 = 1 + Len(SJ[k])
    <3>1. Len(ss[k]) = 1
      BY <1>11, <2>1
    <3>2. Len(SJ[k]) = h + Len(ss[k])
      BY <1>8, <1>9
    <3>3. QED
      BY <1>10, <1>16, <3>1, <3>2
  <2>10. s.sp + 2 = 2 + Len(J[k])
    <3>1. Len(J[k]) = l + Len(gs[k])
      BY <1>7, <1>9
    <3>2. QED
      BY <1>10, <1>13, <1>16, <2>3, <3>1
  <2>11. r = ScanAt(m, c, SJ, J, k)
    BY <2>6, <2>8, <2>9, <2>10 DEF ScanAt
  <2>12. r.out = BoxesOf(m, c, k)
    BY <2>11 DEF ScanAt
  <2>13. QED
    BY <1>1, <1>15, <2>11, <2>12
<1>19. CASE ~ Wide(t)
  <2>1. Letter(t) # "J"
    BY <1>19 DEF Wide, Letter
  <2>2. gs[k] = <<Word(c, k, t, "w")>>
    BY <1>1, <1>19 DEF NativeGroups
  <2>3. 1 \in 1 .. Len(gs[k]) /\ Len(gs[k]) = 1 /\ gs[k][1] = Word(c, k, t, "w")
    BY <2>2
  <2>4. i + 1 - 1 = i
    BY <1>10, <1>13
  <2>5. InLoc(loc, i) = Word(c, k, t, "w")
    BY <1>14, <2>3, <2>4
  <2>6. f = <<Word(c, k, t, "w")>>
    BY <1>1, <1>15, <1>19 DEF BoxOf
  <2>7. Append(s.out, <<InLoc(loc, s.sp)>>) = BoxesOf(m, c, k)
    BY <1>16, <1>17, <2>5, <2>6
  <2>8. s.sp + 1 = 2 + Len(J[k])
    <3>1. Len(J[k]) = l + Len(gs[k])
      BY <1>7, <1>9
    <3>2. QED
      BY <1>10, <1>13, <1>16, <2>3, <3>1
  <2>9. Len(SJ[k]) = h + Len(ss[k])
    BY <1>8, <1>9
  <2>10. CASE Letter(t) = "["
    <3>1. r = [p |-> s.p + 2, sp |-> s.sp + 1, out |-> Append(s.out, <<InLoc(loc, s.sp)>>)]
      BY <1>12, <1>15, <1>16, <2>1, <2>10 DEF Scanned, Wide
    <3>2. r.out = BoxesOf(m, c, k)
      BY <2>7, <3>1
    <3>3. ASSUME t # "[[I" PROVE r = ScanAt(m, c, SJ, J, k)
      <4>1. Letter("I") # "[" /\ (t = "[I" \/ t = "[")
        BY <2>10, <3>3 DEF Letter
      <4>2. t = "[I"
        <5>1. Info[m].params[k] \in Types
          BY Params
        <5>2. QED
          BY <1>1, <4>1, <5>1 DEF Types
      <4>3. Len(ss[k]) = 2
        BY <1>11, <4>2
      <4>4. s.p + 2 = 1 + Len(SJ[k])
        BY <1>10, <1>16, <2>9, <4>3
      <4>5. QED
        BY <2>7, <2>8, <3>1, <4>4 DEF ScanAt
    <3>4. QED
      BY <1>1, <1>15, <3>2, <3>3
  <2>11. CASE Letter(t) # "["
    <3>1. r = [p |-> s.p + 1, sp |-> s.sp + 1, out |-> Append(s.out, <<InLoc(loc, s.sp)>>)]
      BY <1>12, <1>15, <1>16, <2>1, <2>11 DEF Scanned, Wide
    <3>2. t # "[[I" /\ t # "[I"
      BY <2>11 DEF Letter
    <3>3. Len(ss[k]) = 1
      BY <1>11, <3>2
    <3>4. s.p + 1 = 1 + Len(SJ[k])
      BY <1>10, <1>16, <2>9, <3>3
    <3>5. r = ScanAt(m, c, SJ, J, k)
      BY <2>7, <2>8, <3>1, <3>4 DEF ScanAt
    <3>6. r.out = BoxesOf(m, c, k)
      BY <3>5 DEF ScanAt
    <3>7. QED
      BY <1>1, <1>15, <3>5, <3>6
  <2>12. QED
    BY <2>10, <2>11
<1>20. QED
  BY <1>18, <1>19

\* For every signature but those with a multi-dimensional array before the last
\* parameter, the scan of proxy_invoke() boxes each argument of a remote call.
THEOREM BoxedLayout ==
  ASSUME NEW m \in Methods, NEW c, ~ Info[m].static, ~ Misparsed(m)
  PROVE  BoxedArgs(NativeWords(m, c), m) = BoxedWords(m, c)
<1>1. PICK n \in Nat : n = Len(Info[m].params)
  BY Params
<1>2. PICK sig, loc : sig = Signature(m) /\ loc = NativeWords(m, c)
  OBVIOUS
<1>3. PICK gs, ss : gs = NativeGroups(m, c) /\ ss = SigGroups(m)
  OBVIOUS
<1>4. PICK J, SJ : J = Joined(gs) /\ SJ = Joined(ss)
  OBVIOUS
<1>5. Scans(m, c, sig, loc, SJ, J, n)
  BY <1>1, <1>2, <1>3, <1>4, ScannedNext
<1>6. \A k \in 1 .. n - 1 : Info[m].params[k] # "[[I"
  <2>1. PICK s : s = Info[m].params
    OBVIOUS
  <2>2. s \in Seq(Types)
    BY <2>1, InfoAssumption
  <2>3. IsSeq(s)
    BY <2>2 DEF IsSeq
  <2>4. ASSUME NEW k \in 1 .. n - 1 PROVE k \in DOMAIN Front(s)
    <3>1. s # << >>
      BY <1>1, <2>1, <2>4, Empty
    <3>2. PICK f : f = SubSeq(s, 1, Len(s) - 1)
      OBVIOUS
    <3>3. IsSeq(f)
      BY <2>3, <3>1, <3>2, Pop
    <3>4. Len(f) = Len(s) - 1
      BY <2>3, <3>1, <3>2, Pop
    <3>5. DOMAIN f = 1 .. Len(f)
      BY <3>3, SeqFacts
    <3>6. f = Front(s)
      BY <3>2 DEF Front
    <3>7. QED
      BY <1>1, <2>1, <3>4, <3>5, <3>6
  <2>5. QED
    BY <2>1, <2>4 DEF Misparsed
<1>7. \A k \in 1 .. n : Scanned(sig, loc, ScanAt(m, c, SJ, J, k - 1)).out = BoxesOf(m, c, k)
  BY <1>5 DEF Scans
<1>8. \A k \in 1 .. n - 1 : Scanned(sig, loc, ScanAt(m, c, SJ, J, k - 1)) = ScanAt(m, c, SJ, J, k)
  BY <1>5, <1>6 DEF Scans
<1>9. ScanAt(m, c, SJ, J, 0) = [p |-> 1, sp |-> 2, out |-> << >>]
  <2>1. Groups(gs, n) /\ Groups(ss, n)
    BY <1>1, <1>3, NativeForm, SigForm
  <2>2. Len(J[0]) = 0
    BY <1>4, <2>1, JoinedLen
  <2>3. Len(SJ[0]) = 0
    BY <1>4, <2>1, JoinedLen
  <2>4. BoxesOf(m, c, 0) = << >>
    <3>1. PICK s : s = BoxesOf(m, c, 0)
      OBVIOUS
    <3>2. s = [p \in 1 .. 0 |-> s[p]]
      BY <3>1 DEF BoxesOf
    <3>3. IsSeq(s)
      BY <3>2, FunSeq
    <3>4. Len(s) = 0
      BY <3>2, FunSeq
    <3>5. QED
      BY <3>1, <3>3, <3>4, SeqFacts
  <2>5. QED
    BY <2>2, <2>3, <2>4 DEF ScanAt
<1>10. PICK h : h = [k \in 0 .. n |-> IF k = 0 \/ k < n THEN ScanAt(m, c, SJ, J, k)
                                      ELSE Scanned(sig, loc, ScanAt(m, c, SJ, J, k - 1))]
  OBVIOUS
<1>11. ASSUME NEW k \in 0 .. n
       PROVE  h[k] = IF k = 0 THEN [p |-> 1, sp |-> 2, out |-> << >>]
                     ELSE Scanned(sig, loc, h[k - 1])
  <2>1. CASE k = 0
    BY <1>9, <1>10, <2>1
  <2>2. CASE k # 0
    <3>1. k - 1 \in 0 .. n /\ k - 1 < n
      BY <2>2
    <3>2. h[k - 1] = ScanAt(m, c, SJ, J, k - 1)
      BY <1>10, <3>1
    <3>3. CASE k < n
      <4>1. k \in 1 .. n - 1
        BY <2>2, <3>3
      <4>2. h[k] = ScanAt(m, c, SJ, J, k)
        BY <1>10, <3>3
      <4>3. QED
        BY <1>8, <2>2, <3>2, <4>1, <4>2
    <3>4. CASE ~ (k < n)
      <4>1. h[k] = Scanned(sig, loc, ScanAt(m, c, SJ, J, k - 1))
        BY <1>10, <2>2, <3>4
      <4>2. QED
        BY <2>2, <3>2, <4>1
    <3>5. QED
      BY <3>3, <3>4
  <2>3. QED
    BY <2>1, <2>2
<1>12. ScanStep(m, sig, loc, h)
  <2>1. h = [k \in 0 .. n |-> IF k = 0 THEN [p |-> 1, sp |-> 2, out |-> << >>]
                              ELSE Scanned(sig, loc, h[k - 1])]
    BY <1>10, <1>11
  <2>2. QED
    BY <1>1, <2>1 DEF ScanStep
<1>13. PICK g : g = CHOOSE x : ScanStep(m, sig, loc, x)
  OBVIOUS
<1>14. ScanStep(m, sig, loc, g)
  BY <1>12, <1>13
<1>15. \A k \in 0 .. n : g[k] = IF k = 0 THEN [p |-> 1, sp |-> 2, out |-> << >>]
                                ELSE Scanned(sig, loc, g[k - 1])
  BY <1>1, <1>14 DEF ScanStep
<1>16. PICK T : T = {k \in 0 .. n : g[k] = h[k]}
  OBVIOUS
<1>17. 0 \in T
  <2>1. 0 \in 0 .. n
    OBVIOUS
  <2>2. g[0] = h[0]
    BY <1>11, <1>15, <2>1
  <2>3. QED
    BY <1>16, <2>1, <2>2
<1>18. ASSUME NEW k \in 1 .. n, k - 1 \in T PROVE k \in T
  <2>1. g[k - 1] = h[k - 1] /\ k \in 0 .. n /\ k # 0
    BY <1>16, <1>18
  <2>2. g[k] = Scanned(sig, loc, g[k - 1])
    BY <1>15, <2>1
  <2>3. h[k] = Scanned(sig, loc, h[k - 1])
    BY <1>11, <2>1
  <2>4. QED
    BY <1>16, <2>1, <2>2, <2>3
<1>19. \A k \in 0 .. n : k \in T
  BY <1>17, <1>18, Induct
<1>20. n \in 0 .. n
  OBVIOUS
<1>21. g[n] = h[n]
  BY <1>16, <1>19, <1>20
<1>22. h[n].out = BoxesOf(m, c, n)
  <2>1. CASE n = 0
    BY <1>10, <1>20, <2>1 DEF ScanAt
  <2>2. CASE n # 0
    <3>1. n \in 1 .. n /\ ~ (n < n)
      BY <2>2
    <3>2. h[n] = Scanned(sig, loc, ScanAt(m, c, SJ, J, n - 1))
      BY <1>10, <1>20, <2>2, <3>1
    <3>3. QED
      BY <1>7, <3>1, <3>2
  <2>3. QED
    BY <2>1, <2>2
<1>23. BoxedArgs(loc, m) = g[n].out
  BY <1>1, <1>2, <1>13, BoxedIs
<1>24. BoxedWords(m, c) = BoxesOf(m, c, n)
  BY <1>1 DEF BoxedWords, BoxesOf, BoxOf
<1>25. QED
  BY <1>2, <1>21, <1>22, <1>23, <1>24

-----------------------------------------------------------------------------
(* The arrangement of the two stacks.                                      *)

\* the words ws are in w from at on
Lie(w, at, ws) ==
  \A x \in 1 .. Len(ws) : at + x - 1 <= StackWords => w[at + x - 1] = ws[x]

\* r has, in state st, a JavaFrame of its own, above the one of b
Owns(b, r) ==
  \/ r.k = "native"
  \/ r.k = "interp" /\ b.k \notin {"helper", "candi"}
  \/ r.k = "helper" /\ \/ r.st = "native" /\ Info[r.m].kind = "jni"
                       \/ r.st = "invoked" /\ r.inv = "java"
                       \/ r.st = "executed"
  \/ r.k = "candi" /\ r.st = "executed"
  \/ r.k = "jit" /\ r.st = "done"
  \/ r.k \in {"jni", "nmi"} /\ r.st = "ret"

Own(b, r) == IF Owns(b, r) THEN 1 ELSE 0

\* what b is to the activation a that called it
Link(a, b) ==
  /\ a.k \in {"helper", "candi", "jit"} => b.m = a.m /\ b.c = a.c
  /\ a.k = "helper" =>
       \/ a.st = "native" /\ b.k \in {"jni", "nmi"} /\ b.k = Info[a.m].kind
       \/ a.st = "invoked" /\ a.inv \in {"candi", "jit", "native"} /\ b.k = a.inv
       \/ a.st = "executed" /\ b.k = "interp"
  /\ a.k = "candi" => (a.st = "done" /\ b.k = "jit") \/ (a.st = "executed" /\ b.k = "interp")
  /\ a.k = "jit" => a.st = "done" /\ b.k = "comp"
  /\ a.k \in {"comp", "interp", "jni", "nmi"} => a.st = "ret" /\ a.call = <<b.m, b.c>>
  /\ a.k = "comp" => b.k \in {"comp", "helper", "remote"}
  /\ a.k = "interp" => b.k \in {"candi", "jit", "interp", "native"}
  /\ a.k \in {"jni", "nmi"} => b.k \in {"candi", "jit"}
  /\ a.k \in {"helper", "candi", "jit", "comp", "interp", "jni", "nmi"}

\* the words the activation was given
Given(r) ==
  /\ r.k \in {"comp", "helper"} => r.loc = NativeWords(r.m, r.c)
  /\ r.k = "remote" => r.loc = NativeWords(r.m, r.c) /\ ~ Info[r.m].static
  /\ r.k \in {"interp", "native"} => r.loc = JVMWords(r.m, r.c)
  /\ r.k \in {"jni", "nmi"} => r.loc = CArgs(r.m, r.c, r.k)

Act(r) ==
  /\ ActRec(r) /\ r.m \in Methods /\ Given(r)
  /\ r.inl # << >> => <<r.m, r.inl[1].m>> \in Inlined

\* the variables of the activation are in its frame
Reader(r) ==
  \/ r.k \in {"interp", "native"}
  \/ r.k = "helper" /\ r.st = "invoked" /\ r.inv = "java"

FrameAt(f, w, r) ==
  /\ r.k = "comp" => f.ebp # 0
  /\ Reader(r) =>
       /\ f.m = r.m /\ f.ebp = 0
       /\ f.vars \in Int /\ f.vars >= 1 /\ f.vars + args_size(r.m) <= f.base
       /\ f.vars + args_size(r.m) <= StackWords + 1
       /\ Lie(w, f.vars, JVMWords(r.m, r.c))

FrameFields == {"m", "creator", "vars", "ebp", "base", "optop"}

FrameOK(f) ==
  /\ f = [i \in FrameFields |-> f[i]]
  /\ f.base \in Int /\ f.optop \in Int /\ 1 <= f.base /\ f.base <= f.optop

Stacked(fs, n) ==
  /\ n \in Nat /\ n >= 1
  /\ \A j \in 1 .. n : FrameOK(fs[j])
  /\ \A i, j \in 1 .. n : i <= j => fs[i].base <= fs[j].base

\* l activations on n frames, activation i on frame d[i]
Core(s, l, fs, n, w, d) ==
  /\ l \in Nat /\ l >= 1 /\ Stacked(fs, n)
  /\ s[1].k = "interp"
  /\ \A i \in 1 .. l : Act(s[i])
  /\ \A i, j \in 1 .. l : j = i + 1 => Link(s[i], s[j]) /\ d[j] = d[i] + Own(s[i], s[j])
  /\ \A i, j \in 1 .. l : i <= j => d[i] <= d[j]
  /\ \A i \in 1 .. l : d[i] \in 1 .. n /\ FrameAt(fs[d[i]], w, s[i])
  /\ d[l] = n

LEMMA LinkLike ==
  ASSUME NEW a, NEW b, NEW f, Link(a, b), f.k = b.k, f.m = b.m, f.c = b.c
  PROVE  Link(a, f)
BY DEF Link

SameOwn(f, t) == \A b : Owns(b, f) <=> Owns(b, t)
Gains(t, f) == \A b : ~ Owns(b, t) /\ Owns(b, f)
Frameless(f, w) == \A g : FrameAt(g, w, f)

\* The innermost activation goes on in its frame.
LEMMA CoreSet ==
  ASSUME NEW s, NEW l, NEW fs, NEW n, NEW w, NEW d, Core(s, l, fs, n, w, d),
         NEW f, Act(f), f.k = s[l].k, f.m = s[l].m, f.c = s[l].c, SameOwn(f, s[l]),
         FrameAt(fs[n], w, f),
         NEW r, r[l] = f, \A i \in 1 .. l : i < l => r[i] = s[i]
  PROVE  Core(r, l, fs, n, w, d)
<1>1. /\ l \in Nat /\ l >= 1 /\ n \in Nat /\ n >= 1
      /\ s[1].k = "interp"
      /\ \A i \in 1 .. l : Act(s[i])
      /\ \A i, j \in 1 .. l : j = i + 1 => Link(s[i], s[j]) /\ d[j] = d[i] + Own(s[i], s[j])
      /\ \A i, j \in 1 .. l : i <= j => d[i] <= d[j]
      /\ \A i \in 1 .. l : d[i] \in 1 .. n /\ FrameAt(fs[d[i]], w, s[i])
      /\ d[l] = n
      /\ \A j \in 1 .. n : FrameOK(fs[j])
      /\ \A i, j \in 1 .. n : i <= j => fs[i].base <= fs[j].base
  BY DEF Core, Stacked
<1>2. r[1].k = "interp"
  <2>1. CASE l = 1
    BY <1>1, <2>1
  <2>2. CASE l # 1
    BY <1>1, <2>2
  <2>3. QED
    BY <2>1, <2>2
<1>3. ASSUME NEW i \in 1 .. l PROVE Act(r[i]) /\ FrameAt(fs[d[i]], w, r[i])
  <2>1. CASE i < l
    BY <1>1, <2>1
  <2>2. CASE i = l
    BY <1>1, <2>2
  <2>3. QED
    BY <1>1, <2>1, <2>2
<1>4. ASSUME NEW i \in 1 .. l, NEW j \in 1 .. l, j = i + 1
      PROVE  Link(r[i], r[j]) /\ d[j] = d[i] + Own(r[i], r[j])
  <2>1. r[i] = s[i]
    BY <1>1, <1>4
  <2>2. Link(s[i], s[j]) /\ d[j] = d[i] + Own(s[i], s[j])
    BY <1>1, <1>4
  <2>3. CASE j < l
    BY <2>1, <2>2, <2>3
  <2>4. CASE j = l
    <3>1. r[j] = f /\ f.k = s[j].k /\ f.m = s[j].m /\ f.c = s[j].c
      BY <2>4
    <3>2. Link(s[i], f)
      BY <2>2, <3>1, LinkLike
    <3>3. Own(s[i], f) = Own(s[i], s[j])
      BY <2>4 DEF SameOwn, Own
    <3>4. QED
      BY <2>1, <2>2, <3>1, <3>2, <3>3
  <2>5. QED
    BY <1>1, <2>3, <2>4
<1>5. QED
  BY <1>1, <1>2, <1>3, <1>4 DEF Core, Stacked

\* A new activation on the innermost frame
LEMMA CorePush ==
  ASSUME NEW s, NEW l, NEW fs, NEW n, NEW w, NEW d, Core(s, l, fs, n, w, d),
         NEW a, Act(a), Link(s[l], a), ~ Owns(s[l], a), FrameAt(fs[n], w, a),
         NEW r, NEW x, x = l + 1, r[x] = a, \A i \in 1 .. l : r[i] = s[i]
  PROVE  \E e : Core(r, x, fs, n, w, e)
<1>1. /\ l \in Nat /\ l >= 1 /\ n \in Nat /\ n >= 1
      /\ s[1].k = "interp"
      /\ \A i \in 1 .. l : Act(s[i])
      /\ \A i, j \in 1 .. l : j = i + 1 => Link(s[i], s[j]) /\ d[j] = d[i] + Own(s[i], s[j])
      /\ \A i, j \in 1 .. l : i <= j => d[i] <= d[j]
      /\ \A i \in 1 .. l : d[i] \in 1 .. n /\ FrameAt(fs[d[i]], w, s[i])
      /\ d[l] = n
      /\ \A j \in 1 .. n : FrameOK(fs[j])
      /\ \A i, j \in 1 .. n : i <= j => fs[i].base <= fs[j].base
  BY DEF Core, Stacked
<1>2. PICK e : e = [i \in 1 .. x |-> IF i = x THEN n ELSE d[i]]
  OBVIOUS
<1>3. x \in Nat /\ x >= 1 /\ \A i \in 1 .. x : i \in 1 .. l \/ i = x
  BY <1>1
<1>4. \A i \in 1 .. l : e[i] = d[i] /\ r[i] = s[i]
  BY <1>1, <1>2
<1>5. e[x] = n
  BY <1>2, <1>3
<1>6. r[1].k = "interp"
  BY <1>1
<1>7. ASSUME NEW i \in 1 .. x PROVE Act(r[i]) /\ e[i] \in 1 .. n /\ FrameAt(fs[e[i]], w, r[i])
  <2>1. CASE i \in 1 .. l
    BY <1>1, <1>4, <2>1
  <2>2. CASE i = x
    BY <1>1, <1>5, <2>2
  <2>3. QED
    BY <1>3, <2>1, <2>2
<1>8. ASSUME NEW i \in 1 .. x, NEW j \in 1 .. x, j = i + 1
      PROVE  Link(r[i], r[j]) /\ e[j] = e[i] + Own(r[i], r[j])
  <2>1. i \in 1 .. l
    BY <1>1, <1>8
  <2>2. CASE j \in 1 .. l
    BY <1>1, <1>4, <1>8, <2>1, <2>2
  <2>3. CASE j = x
    <3>1. i = l
      BY <1>1, <1>8, <2>3
    <3>2. e[i] = n /\ e[j] = n /\ r[i] = s[l] /\ r[j] = a
      BY <1>1, <1>4, <1>5, <2>1, <2>3, <3>1
    <3>3. Own(r[i], r[j]) = 0
      BY <3>2 DEF Own
    <3>4. QED
      BY <1>1, <3>2, <3>3
  <2>4. QED
    BY <1>3, <2>2, <2>3
<1>9. ASSUME NEW i \in 1 .. x, NEW j \in 1 .. x, i <= j PROVE e[i] <= e[j]
  <2>1. CASE j \in 1 .. l
    <3>1. i \in 1 .. l
      BY <1>1, <1>9, <2>1
    <3>2. QED
      BY <1>1, <1>4, <1>9, <2>1, <3>1
  <2>2. CASE j = x
    BY <1>5, <1>7, <2>2
  <2>3. QED
    BY <1>3, <2>1, <2>2
<1>10. Core(r, x, fs, n, w, e)
  BY <1>1, <1>3, <1>5, <1>6, <1>7, <1>8, <1>9 DEF Core, Stacked
<1>11. QED
  BY <1>10

\* One more frame on top
LEMMA CoreFrames ==
  ASSUME NEW fs, NEW n, Stacked(fs, n), NEW g, FrameOK(g), fs[n].base <= g.base,
         NEW q, NEW y, y = n + 1, q[y] = g, \A j \in 1 .. n : q[j] = fs[j]
  PROVE  Stacked(q, y)
<1>0. /\ n \in Nat /\ n >= 1
      /\ \A j \in 1 .. n : FrameOK(fs[j])
      /\ \A i, j \in 1 .. n : i <= j => fs[i].base <= fs[j].base
  BY DEF Stacked
<1>1. y \in Nat /\ y >= 1 /\ \A j \in 1 .. y : j \in 1 .. n \/ j = y
  BY <1>0
<1>2. ASSUME NEW j \in 1 .. y PROVE FrameOK(q[j])
  BY <1>0, <1>1
<1>3. ASSUME NEW i \in 1 .. y, NEW j \in 1 .. y, i <= j PROVE q[i].base <= q[j].base
  <2>1. CASE j \in 1 .. n
    <3>1. i \in 1 .. n
      BY <1>0, <1>3, <2>1
    <3>2. fs[i].base <= fs[j].base /\ q[i] = fs[i] /\ q[j] = fs[j]
      BY <1>0, <1>3, <2>1, <3>1
    <3>3. QED
      BY <3>2
  <2>2. CASE j = y /\ i \in 1 .. n
    <3>1. n \in 1 .. n /\ i <= n
      BY <1>0, <2>2
    <3>2. fs[i].base <= fs[n].base /\ fs[i].base \in Int /\ fs[n].base \in Int /\ g.base \in Int
      BY <1>0, <2>2, <3>1 DEF FrameOK
    <3>3. q[i] = fs[i] /\ q[j] = g
      BY <2>2
    <3>4. QED
      BY <3>2, <3>3
  <2>3. CASE j = y /\ i = y
    <3>1. q[j] = g /\ g.base \in Int
      BY <2>3 DEF FrameOK
    <3>2. QED
      BY <2>3, <3>1
  <2>4. QED
    BY <1>1, <2>1, <2>2, <2>3
<1>4. QED
  BY <1>1, <1>2, <1>3 DEF Stacked

\* A new activation on a new frame
LEMMA CorePushFrame ==
  ASSUME NEW s, NEW l, NEW fs, NEW n, NEW w, NEW d, Core(s, l, fs, n, w, d),
         NEW a, Act(a), Link(s[l], a), Owns(s[l], a),
         NEW g, FrameOK(g), fs[n].base <= g.base, FrameAt(g, w, a),
         NEW r, NEW x, x = l + 1, r[x] = a, \A i \in 1 .. l : r[i] = s[i],
         NEW q, NEW y, y = n + 1, q[y] = g, \A j \in 1 .. n : q[j] = fs[j]
  PROVE  \E e : Core(r, x, q, y, w, e)
<1>1. /\ l \in Nat /\ l >= 1 /\ n \in Nat /\ n >= 1
      /\ s[1].k = "interp"
      /\ \A i \in 1 .. l : Act(s[i])
      /\ \A i, j \in 1 .. l : j = i + 1 => Link(s[i], s[j]) /\ d[j] = d[i] + Own(s[i], s[j])
      /\ \A i, j \in 1 .. l : i <= j => d[i] <= d[j]
      /\ \A i \in 1 .. l : d[i] \in 1 .. n /\ FrameAt(fs[d[i]], w, s[i])
      /\ d[l] = n
      /\ \A j \in 1 .. n : FrameOK(fs[j])
      /\ \A i, j \in 1 .. n : i <= j => fs[i].base <= fs[j].base
  BY DEF Core, Stacked
<1>2. PICK e : e = [i \in 1 .. x |-> IF i = x THEN y ELSE d[i]]
  OBVIOUS
<1>3. x \in Nat /\ x >= 1 /\ \A i \in 1 .. x : i \in 1 .. l \/ i = x
  BY <1>1
<1>4. \A i \in 1 .. l : e[i] = d[i] /\ r[i] = s[i]
  BY <1>1, <1>2
<1>5. e[x] = y
  BY <1>2, <1>3
<1>6. r[1].k = "interp"
  BY <1>1
<1>7. ASSUME NEW i \in 1 .. x PROVE Act(r[i]) /\ e[i] \in 1 .. y /\ FrameAt(q[e[i]], w, r[i])
  <2>1. CASE i \in 1 .. l
    <3>1. d[i] \in 1 .. n /\ FrameAt(fs[d[i]], w, s[i]) /\ Act(s[i])
      BY <1>1, <2>1
    <3>2. e[i] = d[i] /\ r[i] = s[i] /\ q[d[i]] = fs[d[i]] /\ d[i] \in 1 .. y
      BY <1>1, <1>4, <2>1, <3>1
    <3>3. QED
      BY <3>1, <3>2
  <2>2. CASE i = x
    BY <1>1, <1>5, <2>2
  <2>3. QED
    BY <1>3, <2>1, <2>2
<1>8. ASSUME NEW i \in 1 .. x, NEW j \in 1 .. x, j = i + 1
      PROVE  Link(r[i], r[j]) /\ e[j] = e[i] + Own(r[i], r[j])
  <2>1. i \in 1 .. l
    BY <1>1, <1>8
  <2>2. CASE j \in 1 .. l
    BY <1>1, <1>4, <1>8, <2>1, <2>2
  <2>3. CASE j = x
    <3>1. i = l
      BY <1>1, <1>8, <2>3
    <3>2. e[i] = n /\ e[j] = y /\ r[i] = s[l] /\ r[j] = a
      BY <1>1, <1>4, <1>5, <2>1, <2>3, <3>1
    <3>3. Own(r[i], r[j]) = 1
      BY <3>2 DEF Own
    <3>4. QED
      BY <1>1, <3>2, <3>3
  <2>4. QED
    BY <1>3, <2>2, <2>3
<1>9. ASSUME NEW i \in 1 .. x, NEW j \in 1 .. x, i <= j PROVE e[i] <= e[j]
  <2>1. CASE j \in 1 .. l
    <3>1. i \in 1 .. l
      BY <1>1, <1>9, <2>1
    <3>2. QED
      BY <1>1, <1>4, <1>9, <2>1, <3>1
  <2>2. CASE j = x
    BY <1>5, <1>7, <2>2
  <2>3. QED
    BY <1>3, <2>1, <2>2
<1>10. Stacked(fs, n)
  BY DEF Core, Stacked
<1>20. Stacked(q, y)
  BY <1>10, CoreFrames
<1>11. y \in Nat /\ y >= 1
  BY <1>1
<1>12. Core(r, x, q, y, w, e)
  BY <1>3, <1>5, <1>6, <1>7, <1>8, <1>9, <1>11, <1>20 DEF Core, Stacked
<1>13. QED
  BY <1>12

\* The innermost activation gets a frame.
LEMMA CoreGrow ==
  ASSUME NEW s, NEW l, NEW fs, NEW n, NEW w, NEW d, Core(s, l, fs, n, w, d),
         NEW f, Act(f), f.k = s[l].k, f.m = s[l].m, f.c = s[l].c,
         Gains(s[l], f),
         NEW g, FrameOK(g), fs[n].base <= g.base, FrameAt(g, w, f),
         NEW r, r[l] = f, \A i \in 1 .. l : i < l => r[i] = s[i],
         NEW q, NEW y, y = n + 1, q[y] = g, \A j \in 1 .. n : q[j] = fs[j]
  PROVE  \E e : Core(r, l, q, y, w, e)
<1>1. /\ l \in Nat /\ l >= 1 /\ n \in Nat /\ n >= 1
      /\ s[1].k = "interp"
      /\ \A i \in 1 .. l : Act(s[i])
      /\ \A i, j \in 1 .. l : j = i + 1 => Link(s[i], s[j]) /\ d[j] = d[i] + Own(s[i], s[j])
      /\ \A i, j \in 1 .. l : i <= j => d[i] <= d[j]
      /\ \A i \in 1 .. l : d[i] \in 1 .. n /\ FrameAt(fs[d[i]], w, s[i])
      /\ d[l] = n
      /\ \A j \in 1 .. n : FrameOK(fs[j])
      /\ \A i, j \in 1 .. n : i <= j => fs[i].base <= fs[j].base
  BY DEF Core, Stacked
<1>2. PICK e : e = [i \in 1 .. l |-> IF i = l THEN y ELSE d[i]]
  OBVIOUS
<1>3. y \in Nat /\ y >= 1 /\ y = n + 1
  BY <1>1
<1>4. \A i \in 1 .. l : i < l => e[i] = d[i] /\ r[i] = s[i]
  BY <1>1, <1>2
<1>5. e[l] = y
  BY <1>1, <1>2
<1>6. r[1].k = "interp"
  <2>1. CASE l = 1
    BY <1>1, <2>1
  <2>2. CASE l # 1
    BY <1>1, <2>2
  <2>3. QED
    BY <2>1, <2>2
<1>7. ASSUME NEW i \in 1 .. l PROVE Act(r[i]) /\ e[i] \in 1 .. y /\ FrameAt(q[e[i]], w, r[i])
  <2>1. CASE i < l
    <3>1. d[i] \in 1 .. n /\ FrameAt(fs[d[i]], w, s[i]) /\ Act(s[i])
      BY <1>1, <2>1
    <3>2. e[i] = d[i] /\ r[i] = s[i] /\ q[d[i]] = fs[d[i]] /\ d[i] \in 1 .. y
      BY <1>1, <1>4, <2>1, <3>1
    <3>3. QED
      BY <3>1, <3>2
  <2>2. CASE i = l
    BY <1>3, <1>5, <2>2
  <2>3. QED
    BY <1>1, <2>1, <2>2
<1>8. ASSUME NEW i \in 1 .. l, NEW j \in 1 .. l, j = i + 1
      PROVE  Link(r[i], r[j]) /\ e[j] = e[i] + Own(r[i], r[j])
  <2>1. r[i] = s[i] /\ e[i] = d[i]
    BY <1>1, <1>4, <1>8
  <2>2. Link(s[i], s[j]) /\ d[j] = d[i] + Own(s[i], s[j])
    BY <1>1, <1>8
  <2>3. CASE j < l
    BY <1>4, <2>1, <2>2, <2>3
  <2>4. CASE j = l
    <3>1. r[j] = f /\ f.k = s[j].k /\ f.m = s[j].m /\ f.c = s[j].c
      BY <2>4
    <3>2. Link(s[i], f)
      BY <2>2, <3>1, LinkLike
    <3>3. Own(s[i], f) = 1 /\ Own(s[i], s[j]) = 0
      BY <2>4 DEF Own, Gains
    <3>4. d[i] = n /\ e[j] = n + 1
      <4>1. d[j] = n /\ d[i] \in Nat
        BY <1>1, <2>4
      <4>2. QED
        BY <1>3, <1>5, <2>2, <2>4, <3>3, <4>1
    <3>5. QED
      BY <2>1, <3>1, <3>2, <3>3, <3>4
  <2>5. j < l \/ j = l
    BY <1>1
  <2>6. QED
    BY <2>3, <2>4, <2>5
<1>9. ASSUME NEW i \in 1 .. l, NEW j \in 1 .. l, i <= j PROVE e[i] <= e[j]
  <2>1. CASE j < l
    BY <1>1, <1>4, <1>9, <2>1
  <2>2. CASE j = l
    BY <1>5, <1>7, <2>2
  <2>3. QED
    BY <1>1, <2>1, <2>2
<1>10. Stacked(fs, n)
  BY DEF Core, Stacked
<1>20. Stacked(q, y)
  BY <1>10, CoreFrames
<1>11. Core(r, l, q, y, w, e)
  BY <1>1, <1>3, <1>5, <1>6, <1>7, <1>8, <1>9, <1>20 DEF Core, Stacked
<1>12. QED
  BY <1>11

\* The innermost activation returns, its frame stays.
LEMMA CorePop ==
  ASSUME NEW s, NEW l, NEW fs, NEW n, NEW w, NEW d, Core(s, l, fs, n, w, d),
         NEW x, x = l - 1, x >= 1, ~ Owns(s[x], s[l]),
         NEW r, \A i \in 1 .. x : r[i] = s[i]
  PROVE  Core(r, x, fs, n, w, d)
<1>1. /\ l \in Nat /\ l >= 1 /\ n \in Nat /\ n >= 1
      /\ s[1].k = "interp"
      /\ \A i \in 1 .. l : Act(s[i])
      /\ \A i, j \in 1 .. l : j = i + 1 => Link(s[i], s[j]) /\ d[j] = d[i] + Own(s[i], s[j])
      /\ \A i, j \in 1 .. l : i <= j => d[i] <= d[j]
      /\ \A i \in 1 .. l : d[i] \in 1 .. n /\ FrameAt(fs[d[i]], w, s[i])
      /\ d[l] = n
      /\ \A j \in 1 .. n : FrameOK(fs[j])
      /\ \A i, j \in 1 .. n : i <= j => fs[i].base <= fs[j].base
  BY DEF Core, Stacked
<1>2. x \in 1 .. l /\ l \in 1 .. l /\ l = x + 1
  BY <1>1
<1>3. d[l] = d[x] + Own(s[x], s[l]) /\ d[x] \in 1 .. n
  BY <1>1, <1>2
<1>4. Own(s[x], s[l]) = 0
  BY DEF Own
<1>5. d[x] = n
  BY <1>1, <1>3, <1>4
<1>6. \A i \in 1 .. x : i \in 1 .. l
  BY <1>1
<1>7. 1 \in 1 .. x
  BY <1>1
<1>8. QED
  BY <1>1, <1>5, <1>6, <1>7 DEF Core, Stacked

\* The innermost activation returns with its frame.
LEMMA CorePopFrame ==
  ASSUME NEW s, NEW l, NEW fs, NEW n, NEW w, NEW d, Core(s, l, fs, n, w, d),
         NEW x, x = l - 1, x >= 1, Owns(s[x], s[l]),
         NEW r, \A i \in 1 .. x : r[i] = s[i],
         NEW q, NEW y, y = n - 1, \A j \in 1 .. y : q[j] = fs[j]
  PROVE  Core(r, x, q, y, w, d)
<1>1. /\ l \in Nat /\ l >= 1 /\ n \in Nat /\ n >= 1
      /\ s[1].k = "interp"
      /\ \A i \in 1 .. l : Act(s[i])
      /\ \A i, j \in 1 .. l : j = i + 1 => Link(s[i], s[j]) /\ d[j] = d[i] + Own(s[i], s[j])
      /\ \A i, j \in 1 .. l : i <= j => d[i] <= d[j]
      /\ \A i \in 1 .. l : d[i] \in 1 .. n /\ FrameAt(fs[d[i]], w, s[i])
      /\ d[l] = n
      /\ \A j \in 1 .. n : FrameOK(fs[j])
      /\ \A i, j \in 1 .. n : i <= j => fs[i].base <= fs[j].base
  BY DEF Core, Stacked
<1>2. x \in 1 .. l /\ l \in 1 .. l /\ l = x + 1
  BY <1>1
<1>3. d[l] = d[x] + Own(s[x], s[l]) /\ d[x] \in 1 .. n
  BY <1>1, <1>2
<1>4. Own(s[x], s[l]) = 1
  BY DEF Own
<1>5. d[x] = y /\ y \in Nat /\ y >= 1
  BY <1>1, <1>3, <1>4
<1>6. \A i \in 1 .. x : i \in 1 .. l /\ i <= x
  BY <1>1
<1>7. 1 \in 1 .. x /\ x \in Nat
  BY <1>1
<1>8. \A j \in 1 .. y : j \in 1 .. n
  BY <1>1, <1>5
<1>9. ASSUME NEW i \in 1 .. x PROVE d[i] \in 1 .. y /\ FrameAt(q[d[i]], w, r[i])
  <2>1. d[i] <= d[x] /\ d[i] \in 1 .. n /\ FrameAt(fs[d[i]], w, s[i])
    BY <1>1, <1>2, <1>6
  <2>2. d[i] \in 1 .. y
    BY <1>5, <2>1
  <2>3. q[d[i]] = fs[d[i]]
    BY <2>2
  <2>4. QED
    BY <2>1, <2>2, <2>3
<1>10. /\ \A j \in 1 .. y : FrameOK(q[j])
       /\ \A i, j \in 1 .. y : i <= j => q[i].base <= q[j].base
  BY <1>1, <1>8
<1>11. /\ \A i \in 1 .. x : Act(r[i])
       /\ \A i, j \in 1 .. x : j = i + 1 => Link(r[i], r[j]) /\ d[j] = d[i] + Own(r[i], r[j])
       /\ \A i, j \in 1 .. x : i <= j => d[i] <= d[j]
       /\ r[1].k = "interp"
  BY <1>1, <1>6, <1>7
<1>12. QED
  BY <1>5, <1>7, <1>9, <1>10, <1>11 DEF Core, Stacked

\* The innermost activation loses its frame.
LEMMA CoreLose ==
  ASSUME NEW s, NEW l, NEW fs, NEW n, NEW w, NEW d, Core(s, l, fs, n, w, d), l # 1,
         NEW f, Act(f), f.k = s[l].k, f.m = s[l].m, f.c = s[l].c,
         Gains(f, s[l]), Frameless(f, w),
         NEW r, r[l] = f, \A i \in 1 .. l : i < l => r[i] = s[i],
         NEW q, NEW y, y = n - 1, \A j \in 1 .. y : q[j] = fs[j]
  PROVE  \E e : Core(r, l, q, y, w, e)
<1>1. /\ l \in Nat /\ l >= 1 /\ n \in Nat /\ n >= 1
      /\ s[1].k = "interp"
      /\ \A i \in 1 .. l : Act(s[i])
      /\ \A i, j \in 1 .. l : j = i + 1 => Link(s[i], s[j]) /\ d[j] = d[i] + Own(s[i], s[j])
      /\ \A i, j \in 1 .. l : i <= j => d[i] <= d[j]
      /\ \A i \in 1 .. l : d[i] \in 1 .. n /\ FrameAt(fs[d[i]], w, s[i])
      /\ d[l] = n
      /\ \A j \in 1 .. n : FrameOK(fs[j])
      /\ \A i, j \in 1 .. n : i <= j => fs[i].base <= fs[j].base
  BY DEF Core, Stacked
<1>2. PICK x : x = l - 1
  OBVIOUS
<1>3. x \in Nat /\ x >= 1 /\ l = x + 1
  BY <1>1, <1>2
<1>4. \A i \in 1 .. x : r[i] = s[i]
  BY <1>1, <1>3
<1>20. Owns(s[x], s[l])
  BY DEF Gains
<1>5. Core(r, x, q, y, w, d)
  BY <1>2, <1>3, <1>4, <1>20, CorePopFrame
<1>6. Link(s[x], s[l])
  BY <1>1, <1>3
<1>7. Link(s[x], f)
  BY <1>6, LinkLike
<1>8. r[x] = s[x]
  BY <1>3, <1>4
<1>9. Link(r[x], f) /\ ~ Owns(r[x], f)
  BY <1>7, <1>8 DEF Gains
<1>10. FrameAt(q[y], w, f)
  BY DEF Frameless
<1>11. \A i \in 1 .. x : r[i] = r[i]
  OBVIOUS
<1>12. QED
  BY <1>3, <1>5, <1>9, <1>10, <1>11, CorePush

\* Frames whose operand stacks change, or their method where compiled code runs
Alike(f, g) ==
  /\ FrameOK(g) /\ g.base = f.base
  /\ \/ g.m = f.m /\ g.ebp = f.ebp /\ g.vars = f.vars
     \/ f.ebp # 0 /\ g.ebp # 0

LEMMA CoreAlike ==
  ASSUME NEW s, NEW l, NEW fs, NEW n, NEW w, NEW d, Core(s, l, fs, n, w, d),
         NEW q, \A j \in 1 .. n : Alike(fs[j], q[j])
  PROVE  Core(s, l, q, n, w, d)
<1>1. /\ l \in Nat /\ l >= 1 /\ n \in Nat /\ n >= 1
      /\ s[1].k = "interp"
      /\ \A i \in 1 .. l : Act(s[i])
      /\ \A i, j \in 1 .. l : j = i + 1 => Link(s[i], s[j]) /\ d[j] = d[i] + Own(s[i], s[j])
      /\ \A i, j \in 1 .. l : i <= j => d[i] <= d[j]
      /\ \A i \in 1 .. l : d[i] \in 1 .. n /\ FrameAt(fs[d[i]], w, s[i])
      /\ d[l] = n
      /\ \A j \in 1 .. n : FrameOK(fs[j])
      /\ \A i, j \in 1 .. n : i <= j => fs[i].base <= fs[j].base
  BY DEF Core, Stacked
<1>2. ASSUME NEW i \in 1 .. l PROVE FrameAt(q[d[i]], w, s[i])
  <2>1. d[i] \in 1 .. n /\ FrameAt(fs[d[i]], w, s[i])
    BY <1>1
  <2>2. PICK f, g, r : f = fs[d[i]] /\ g = q[d[i]] /\ r = s[i]
    OBVIOUS
  <2>3. Alike(f, g) /\ FrameAt(f, w, r)
    BY <2>1, <2>2
  <2>4. FrameAt(g, w, r)
    <3>1. Reader(r) => f.ebp = 0
      BY <2>3 DEF FrameAt
    <3>2. CASE g.m = f.m /\ g.ebp = f.ebp /\ g.vars = f.vars
      BY <2>3, <3>2 DEF FrameAt, Alike
    <3>3. CASE f.ebp # 0 /\ g.ebp # 0
      BY <3>1, <3>3 DEF FrameAt
    <3>4. QED
      BY <2>3, <3>2, <3>3 DEF Alike
  <2>5. QED
    BY <2>2, <2>4
<1>3. \A j \in 1 .. n : FrameOK(q[j]) /\ q[j].base = fs[j].base
  BY DEF Alike
<1>4. QED
  BY <1>1, <1>2, <1>3 DEF Core, Stacked

\* Words above the variables of the activations change.
LEMMA CoreWords ==
  ASSUME NEW s, NEW l, NEW fs, NEW n, NEW w, NEW d, Core(s, l, fs, n, w, d),
         NEW y \in 1 .. n, \A i \in 1 .. l : Reader(s[i]) => d[i] <= y,
         NEW u, \A x \in 1 .. StackWords : x < fs[y].base => u[x] = w[x]
  PROVE  Core(s, l, fs, n, u, d)
<1>1. /\ l \in Nat /\ l >= 1 /\ n \in Nat /\ n >= 1
      /\ s[1].k = "interp"
      /\ \A i \in 1 .. l : Act(s[i])
      /\ \A i, j \in 1 .. l : j = i + 1 => Link(s[i], s[j]) /\ d[j] = d[i] + Own(s[i], s[j])
      /\ \A i, j \in 1 .. l : i <= j => d[i] <= d[j]
      /\ \A i \in 1 .. l : d[i] \in 1 .. n /\ FrameAt(fs[d[i]], w, s[i])
      /\ d[l] = n
      /\ \A j \in 1 .. n : FrameOK(fs[j])
      /\ \A i, j \in 1 .. n : i <= j => fs[i].base <= fs[j].base
  BY DEF Core, Stacked
<1>2. ASSUME NEW i \in 1 .. l PROVE FrameAt(fs[d[i]], u, s[i])
  <2>1. d[i] \in 1 .. n /\ FrameAt(fs[d[i]], w, s[i]) /\ s[i].m \in Methods
    BY <1>1 DEF Act
  <2>2. PICK f, r : f = fs[d[i]] /\ r = s[i]
    OBVIOUS
  <2>3. ASSUME Reader(r) PROVE Lie(u, f.vars, JVMWords(r.m, r.c))
    <3>1. /\ f.vars \in Int /\ f.vars >= 1 /\ f.vars + args_size(r.m) <= f.base
          /\ f.vars + args_size(r.m) <= StackWords + 1
          /\ Lie(w, f.vars, JVMWords(r.m, r.c))
      BY <2>1, <2>2, <2>3 DEF FrameAt
    <3>2. f.base <= fs[y].base
      BY <1>1, <2>1, <2>2, <2>3
    <3>3. f.base \in Int /\ fs[y].base \in Int
      BY <1>1, <2>1, <2>2 DEF FrameOK
    <3>4. PICK ws, a : ws = JVMWords(r.m, r.c) /\ a = args_size(r.m)
      OBVIOUS
    <3>5. r.m \in Methods
      BY <2>1, <2>2
    <3>6. Len(ws) = a /\ a \in Nat
      BY <3>4, <3>5, Layouts
    <3>9. PICK v, p, q : v = f.vars /\ p = f.base /\ q = fs[y].base
      OBVIOUS
    <3>10. /\ v \in Int /\ v >= 1 /\ v + a <= p /\ v + a <= StackWords + 1 /\ p <= q
           /\ p \in Int /\ q \in Int /\ a \in Nat
      BY <3>1, <3>2, <3>3, <3>4, <3>6, <3>9
    <3>11. \A z \in 1 .. StackWords : z < q => u[z] = w[z]
      BY <3>9
    <3>12. Lie(w, v, ws)
      BY <3>1, <3>4, <3>9
    <3>7. ASSUME NEW x \in 1 .. Len(ws), v + x - 1 <= StackWords PROVE u[v + x - 1] = ws[x]
      <4>1. PICK z : z = v + x - 1
        OBVIOUS
      <4>2. x \in 1 .. a
        BY <3>6
      <4>3. z \in 1 .. StackWords /\ z < q
        BY <3>7, <3>10, <4>1, <4>2, BoundAssumption
      <4>4. w[z] = ws[x]
        BY <3>7, <3>12, <4>1 DEF Lie
      <4>5. QED
        BY <3>11, <4>1, <4>3, <4>4
    <3>8. QED
      BY <3>4, <3>7, <3>9 DEF Lie
  <2>4. QED
    BY <2>1, <2>2, <2>3 DEF FrameAt
<1>3. QED
  BY <1>1, <1>2 DEF Core, Stacked

Tip(s) == s[Len(s)]

Arr(s, fs, w) ==
  /\ IsSeq(s) /\ IsSeq(fs)
  /\ \E d : Core(s, Len(s), fs, Len(fs), w, d)

\* f is the same activation as t
Goes(f, t) == f.k = t.k /\ f.m = t.m /\ f.c = t.c

\* r is s with another element on top, with one more, with one less
Put1(s, f, r) ==
  /\ IsSeq(r) /\ Len(r) = Len(s) /\ r[Len(s)] = f
  /\ \A k \in 1 .. Len(s) : k < Len(s) => r[k] = s[k]
Push1(s, f, r) ==
  /\ IsSeq(r) /\ Len(r) = Len(s) + 1 /\ r[Len(s) + 1] = f
  /\ \A k \in 1 .. Len(s) : r[k] = s[k]
Pop1(s, r) ==
  /\ IsSeq(r) /\ Len(r) = Len(s) - 1
  /\ \A k \in 1 .. Len(r) : r[k] = s[k]

LEMMA PutIs ==
  ASSUME NEW s, IsSeq(s), s # << >>, NEW f, NEW r, r = [s EXCEPT ![Len(s)] = f]
  PROVE  Put1(s, f, r)
<1>1. IsSeq(r) /\ Len(r) = Len(s) /\ r[Len(s)] = f
  BY PutTop
<1>2. \A k \in 1 .. Len(s) : k < Len(s) => r[k] = s[k]
  BY PutTop
<1>3. QED
  BY <1>1, <1>2 DEF Put1

LEMMA PushIs ==
  ASSUME NEW s, IsSeq(s), NEW f, NEW r, r = Append(s, f)
  PROVE  Push1(s, f, r)
<1>1. IsSeq(r) /\ Len(r) = Len(s) + 1 /\ r[Len(s) + 1] = f
  BY Push
<1>2. \A k \in 1 .. Len(s) : r[k] = s[k]
  BY Push
<1>3. QED
  BY <1>1, <1>2 DEF Push1

LEMMA PopIs ==
  ASSUME NEW s, IsSeq(s), s # << >>, NEW r, r = Front(s)
  PROVE  Pop1(s, r)
<1>0. r = SubSeq(s, 1, Len(s) - 1)
  BY DEF Front
<1>1. IsSeq(r) /\ Len(r) = Len(s) - 1
  BY <1>0, Pop
<1>2. \A k \in 1 .. Len(r) : r[k] = s[k]
  BY <1>0, Pop
<1>3. QED
  BY <1>1, <1>2 DEF Pop1

\* what the moves do to the top
LEMMA PutTip ==
  ASSUME NEW s, NEW f, NEW r, Put1(s, f, r)
  PROVE  Tip(r) = f
BY DEF Put1, Tip

LEMMA PushTip ==
  ASSUME NEW s, NEW f, NEW r, Push1(s, f, r)
  PROVE  Tip(r) = f
BY DEF Push1, Tip

\* both stacks are never empty
LEMMA ArrFacts ==
  ASSUME NEW s, NEW fs, NEW w, Arr(s, fs, w)
  PROVE  /\ IsSeq(s) /\ IsSeq(fs) /\ s # << >> /\ fs # << >>
         /\ Len(s) \in Nat /\ Len(s) >= 1 /\ Len(fs) \in Nat /\ Len(fs) >= 1
         /\ Act(Tip(s)) /\ FrameAt(Tip(fs), w, Tip(s)) /\ FrameOK(Tip(fs))
         /\ Tip(s).k # "interp" => Len(s) > 1
<1>1. PICK d, l, n : Core(s, l, fs, n, w, d) /\ l = Len(s) /\ n = Len(fs)
  BY DEF Arr
<1>2. IsSeq(s) /\ IsSeq(fs)
  BY DEF Arr
<1>3. l \in Nat /\ l >= 1 /\ n \in Nat /\ n >= 1
  BY <1>1 DEF Core, Stacked
<1>4. l \in 1 .. l /\ n \in 1 .. n
  BY <1>3
<1>5. Act(s[l]) /\ FrameAt(fs[n], w, s[l]) /\ FrameOK(fs[n])
  BY <1>1, <1>4 DEF Core, Stacked
<1>6. s # << >> /\ fs # << >>
  BY <1>1, <1>2, <1>3, SeqFacts
<1>8. s[l].k # "interp" => l > 1
  BY <1>1, <1>3 DEF Core
<1>7. QED
  BY <1>1, <1>2, <1>3, <1>5, <1>6, <1>8 DEF Tip

LEMMA ArrSet ==
  ASSUME NEW s, NEW fs, NEW w, Arr(s, fs, w), NEW f, Act(f), Goes(f, Tip(s)),
         SameOwn(f, Tip(s)), FrameAt(Tip(fs), w, f), NEW r, Put1(s, f, r)
  PROVE  Arr(r, fs, w)
<1>1. PICK d, l, n : Core(s, l, fs, n, w, d) /\ l = Len(s) /\ n = Len(fs)
  BY DEF Arr
<1>2. IsSeq(r)
  BY DEF Put1
<1>3. Len(r) = l /\ r[l] = f /\ \A i \in 1 .. l : i < l => r[i] = s[i]
  BY <1>1 DEF Put1
<1>4. /\ f.k = s[l].k /\ f.m = s[l].m /\ f.c = s[l].c
      /\ SameOwn(f, s[l]) /\ FrameAt(fs[n], w, f)
  BY <1>1 DEF Goes, Tip
<1>5. Core(r, l, fs, n, w, d)
  BY <1>1, <1>3, <1>4, CoreSet
<1>6. QED
  BY <1>1, <1>2, <1>3, <1>5 DEF Arr

LEMMA ArrPush ==
  ASSUME NEW s, NEW fs, NEW w, Arr(s, fs, w), NEW a, Act(a), Link(Tip(s), a),
         ~ Owns(Tip(s), a), FrameAt(Tip(fs), w, a), NEW r, Push1(s, a, r)
  PROVE  Arr(r, fs, w)
<1>1. PICK d, l, n : Core(s, l, fs, n, w, d) /\ l = Len(s) /\ n = Len(fs)
  BY DEF Arr
<1>2. IsSeq(r)
  BY DEF Push1
<1>3. PICK x : x = l + 1
  OBVIOUS
<1>4. Len(r) = x /\ r[x] = a /\ \A i \in 1 .. l : r[i] = s[i]
  BY <1>1, <1>3 DEF Push1
<1>5. Link(s[l], a) /\ ~ Owns(s[l], a) /\ FrameAt(fs[n], w, a)
  BY <1>1 DEF Tip
<1>6. \E e : Core(r, x, fs, n, w, e)
  BY <1>1, <1>3, <1>4, <1>5, CorePush
<1>7. QED
  BY <1>1, <1>2, <1>4, <1>6 DEF Arr

LEMMA ArrPushFrame ==
  ASSUME NEW s, NEW fs, NEW w, Arr(s, fs, w), NEW a, Act(a), Link(Tip(s), a),
         Owns(Tip(s), a), NEW g, FrameOK(g), Tip(fs).base <= g.base, FrameAt(g, w, a),
         NEW r, Push1(s, a, r), NEW q, Push1(fs, g, q)
  PROVE  Arr(r, q, w)
<1>1. PICK d, l, n : Core(s, l, fs, n, w, d) /\ l = Len(s) /\ n = Len(fs)
  BY DEF Arr
<1>2. IsSeq(r) /\ IsSeq(q)
  BY DEF Push1
<1>3. PICK x, y : x = l + 1 /\ y = n + 1
  OBVIOUS
<1>4. Len(r) = x /\ r[x] = a /\ \A i \in 1 .. l : r[i] = s[i]
  BY <1>1, <1>3 DEF Push1
<1>5. Len(q) = y /\ q[y] = g /\ \A i \in 1 .. n : q[i] = fs[i]
  BY <1>1, <1>3 DEF Push1
<1>6. Link(s[l], a) /\ Owns(s[l], a) /\ fs[n].base <= g.base
  BY <1>1 DEF Tip
<1>7. \E e : Core(r, x, q, y, w, e)
  BY <1>1, <1>3, <1>4, <1>5, <1>6, CorePushFrame
<1>8. QED
  BY <1>2, <1>4, <1>5, <1>7 DEF Arr

LEMMA ArrGrow ==
  ASSUME NEW s, NEW fs, NEW w, Arr(s, fs, w), NEW f, Act(f), Goes(f, Tip(s)),
         Gains(Tip(s), f),
         NEW g, FrameOK(g), Tip(fs).base <= g.base, FrameAt(g, w, f),
         NEW r, Put1(s, f, r), NEW q, Push1(fs, g, q)
  PROVE  Arr(r, q, w)
<1>1. PICK d, l, n : Core(s, l, fs, n, w, d) /\ l = Len(s) /\ n = Len(fs)
  BY DEF Arr
<1>2. IsSeq(r) /\ IsSeq(q)
  BY DEF Push1, Put1
<1>3. PICK y : y = n + 1
  OBVIOUS
<1>4. Len(r) = l /\ r[l] = f /\ \A i \in 1 .. l : i < l => r[i] = s[i]
  BY <1>1 DEF Put1
<1>5. Len(q) = y /\ q[y] = g /\ \A i \in 1 .. n : q[i] = fs[i]
  BY <1>1, <1>3 DEF Push1
<1>6. /\ f.k = s[l].k /\ f.m = s[l].m /\ f.c = s[l].c /\ fs[n].base <= g.base
      /\ Gains(s[l], f)
  BY <1>1 DEF Tip, Goes
<1>7. \E e : Core(r, l, q, y, w, e)
  BY <1>1, <1>3, <1>4, <1>5, <1>6, CoreGrow
<1>8. QED
  BY <1>2, <1>4, <1>5, <1>7 DEF Arr

\* what is below the top
LEMMA ArrBelow ==
  ASSUME NEW s, NEW fs, NEW w, Arr(s, fs, w), Len(s) > 1, NEW r, Pop1(s, r)
  PROVE  /\ Link(Tip(r), Tip(s)) /\ Act(Tip(r)) /\ Tip(r) = s[Len(s) - 1]
         /\ Len(r) = Len(s) - 1 /\ IsSeq(r) /\ r # << >>
<1>1. PICK d, l, n : Core(s, l, fs, n, w, d) /\ l = Len(s) /\ n = Len(fs)
  BY DEF Arr
<1>2. PICK x : x = l - 1
  OBVIOUS
<1>3. l \in Nat /\ l > 1
  BY <1>1 DEF Core
<1>4. x \in 1 .. l /\ l \in 1 .. l /\ l = x + 1 /\ x \in 1 .. x
  BY <1>2, <1>3
<1>5. Link(s[x], s[l]) /\ Act(s[x])
  BY <1>1, <1>4 DEF Core
<1>6. Len(r) = x /\ IsSeq(r)
  BY <1>1, <1>2 DEF Pop1
<1>7. r[x] = s[x]
  BY <1>4, <1>6 DEF Pop1
<1>8. r # << >>
  BY <1>4, <1>6, SeqFacts
<1>9. QED
  BY <1>1, <1>2, <1>5, <1>6, <1>7, <1>8 DEF Tip

LEMMA ArrPop ==
  ASSUME NEW s, NEW fs, NEW w, Arr(s, fs, w), Len(s) > 1, NEW r, Pop1(s, r),
         ~ Owns(Tip(r), Tip(s))
  PROVE  Arr(r, fs, w)
<1>1. PICK d, l, n : Core(s, l, fs, n, w, d) /\ l = Len(s) /\ n = Len(fs)
  BY DEF Arr
<1>2. PICK x : x = l - 1
  OBVIOUS
<1>3. l \in Nat /\ l > 1
  BY <1>1 DEF Core
<1>4. x >= 1 /\ x \in 1 .. x
  BY <1>2, <1>3
<1>5. IsSeq(r) /\ Len(r) = x
  BY <1>1, <1>2 DEF Pop1
<1>6. \A i \in 1 .. x : r[i] = s[i]
  BY <1>5 DEF Pop1
<1>7. ~ Owns(s[x], s[l])
  BY <1>1, <1>4, <1>5, <1>6 DEF Tip
<1>8. Core(r, x, fs, n, w, d)
  BY <1>1, <1>2, <1>4, <1>6, <1>7, CorePop
<1>9. QED
  BY <1>1, <1>5, <1>8 DEF Arr

LEMMA ArrPopFrame ==
  ASSUME NEW s, NEW fs, NEW w, Arr(s, fs, w), Len(s) > 1, NEW r, Pop1(s, r),
         Owns(Tip(r), Tip(s)), NEW q, Pop1(fs, q)
  PROVE  Arr(r, q, w)
<1>1. PICK d, l, n : Core(s, l, fs, n, w, d) /\ l = Len(s) /\ n = Len(fs)
  BY DEF Arr
<1>2. PICK x, y : x = l - 1 /\ y = n - 1
  OBVIOUS
<1>3. l \in Nat /\ l > 1
  BY <1>1 DEF Core
<1>4. x >= 1 /\ x \in 1 .. x
  BY <1>2, <1>3
<1>5. IsSeq(r) /\ Len(r) = x
  BY <1>1, <1>2 DEF Pop1
<1>6. \A i \in 1 .. x : r[i] = s[i]
  BY <1>5 DEF Pop1
<1>7. Owns(s[x], s[l])
  BY <1>1, <1>4, <1>5, <1>6 DEF Tip
<1>10. IsSeq(q) /\ Len(q) = y
  BY <1>1, <1>2 DEF Pop1
<1>11. \A i \in 1 .. y : q[i] = fs[i]
  BY <1>10 DEF Pop1
<1>8. Core(r, x, q, y, w, d)
  BY <1>1, <1>2, <1>4, <1>6, <1>7, <1>11, CorePopFrame
<1>9. QED
  BY <1>5, <1>8, <1>10 DEF Arr

LEMMA ArrLose ==
  ASSUME NEW s, NEW fs, NEW w, Arr(s, fs, w), Len(s) > 1, NEW f, Act(f), Goes(f, Tip(s)),
         Gains(f, Tip(s)), Frameless(f, w),
         NEW r, Put1(s, f, r), NEW q, Pop1(fs, q)
  PROVE  Arr(r, q, w)
<1>1. PICK d, l, n : Core(s, l, fs, n, w, d) /\ l = Len(s) /\ n = Len(fs)
  BY DEF Arr
<1>2. IsSeq(r) /\ IsSeq(q)
  BY DEF Pop1, Put1
<1>3. PICK y : y = n - 1
  OBVIOUS
<1>4. Len(r) = l /\ r[l] = f /\ \A i \in 1 .. l : i < l => r[i] = s[i]
  BY <1>1 DEF Put1
<1>5. Len(q) = y
  BY <1>1, <1>3 DEF Pop1
<1>9. \A i \in 1 .. y : q[i] = fs[i]
  BY <1>5 DEF Pop1
<1>6. /\ f.k = s[l].k /\ f.m = s[l].m /\ f.c = s[l].c /\ l > 1
      /\ Gains(f, s[l])
  BY <1>1 DEF Tip, Goes
<1>10. l # 1
  BY <1>6
<1>11. Core(s, l, fs, n, w, d)
  BY <1>1
<1>12. f.k = s[l].k /\ f.m = s[l].m /\ f.c = s[l].c
  BY <1>6
<1>13. Gains(f, s[l])
  BY <1>6
<1>7. \E e : Core(r, l, q, y, w, e)
  BY <1>3, <1>4, <1>9, <1>10, <1>11, <1>12, <1>13, CoreLose, ZenonT(60)
<1>8. QED
  BY <1>2, <1>4, <1>5, <1>7 DEF Arr

LEMMA ArrAlike ==
  ASSUME NEW s, NEW fs, NEW w, Arr(s, fs, w),
         NEW q, IsSeq(q), Len(q) = Len(fs), \A j \in 1 .. Len(fs) : Alike(fs[j], q[j])
  PROVE  Arr(s, q, w)
<1>1. PICK d, l, n : Core(s, l, fs, n, w, d) /\ l = Len(s) /\ n = Len(fs)
  BY DEF Arr
<1>2. \A j \in 1 .. n : Alike(fs[j], q[j])
  BY <1>1
<1>3. Core(s, l, q, n, w, d)
  BY <1>1, <1>2, CoreAlike
<1>4. Len(q) = n /\ IsSeq(s)
  BY <1>1 DEF Arr
<1>5. QED
  BY <1>1, <1>3, <1>4 DEF Arr

\* The words from at on change, where only the frame n and those below it
\* belong to readers.
LEMMA ArrWords ==
  ASSUME NEW s, NEW fs, NEW w, Arr(s, fs, w), NEW u,
         \A x \in 1 .. StackWords : x < Tip(fs).base => u[x] = w[x]
  PROVE  Arr(s, fs, u)
<1>1. PICK d, l, n : Core(s, l, fs, n, w, d) /\ l = Len(s) /\ n = Len(fs)
  BY DEF Arr
<1>2. n \in 1 .. n
  BY <1>1 DEF Core, Stacked
<1>3. \A i \in 1 .. l : Reader(s[i]) => d[i] <= n
  BY <1>1 DEF Core
<1>4. \A x \in 1 .. StackWords : x < fs[n].base => u[x] = w[x]
  BY <1>1 DEF Tip
<1>5. Core(s, l, fs, n, u, d)
  BY <1>1, <1>2, <1>3, <1>4, CoreWords
<1>6. QED
  BY <1>1, <1>5 DEF Arr

\* the frame below the one of the innermost activation
LEMMA ArrWordsBelow ==
  ASSUME NEW s, NEW fs, NEW w, Arr(s, fs, w), Len(s) > 1, \A b : Owns(b, Tip(s)),
         ~ Reader(Tip(s)), NEW y, y = Len(fs) - 1, NEW u,
         \A x \in 1 .. StackWords : x < fs[y].base => u[x] = w[x]
  PROVE  y >= 1 /\ Arr(s, fs, u)
<1>1. PICK d, l, n : Core(s, l, fs, n, w, d) /\ l = Len(s) /\ n = Len(fs)
  BY DEF Arr
<1>2. /\ n \in Nat /\ l \in Nat /\ l > 1
      /\ \A i, j \in 1 .. l : j = i + 1 => d[j] = d[i] + Own(s[i], s[j])
      /\ \A i, j \in 1 .. l : i <= j => d[i] <= d[j]
      /\ \A i \in 1 .. l : d[i] \in 1 .. n
      /\ d[l] = n
  BY <1>1 DEF Core, Stacked
<1>3. PICK x : x = l - 1
  OBVIOUS
<1>4. x \in 1 .. l /\ l \in 1 .. l /\ l = x + 1
  BY <1>2, <1>3
<1>5. Own(s[x], s[l]) = 1
  BY <1>1 DEF Own, Tip
<1>6. d[x] = y /\ d[x] \in 1 .. n
  BY <1>1, <1>2, <1>4, <1>5
<1>7. y \in 1 .. n
  BY <1>6
<1>8. ASSUME NEW i \in 1 .. l, Reader(s[i]) PROVE d[i] <= y
  <2>1. i # l
    BY <1>1, <1>8 DEF Tip
  <2>2. i \in 1 .. l /\ i <= x
    BY <1>2, <1>3, <2>1
  <2>3. QED
    BY <1>2, <1>4, <1>6, <2>2
<1>9. Core(s, l, fs, n, u, d)
  BY <1>1, <1>7, <1>8, CoreWords
<1>10. QED
  BY <1>1, <1>7, <1>9 DEF Arr

-----------------------------------------------------------------------------
(* The words of the call the innermost activation has to pass on are on    *)
(* the operand stack of its frame, the words of the result below its       *)
(* pointer.                                                                *)

\* the invoker has returned
Answered(t) ==
  \/ t.k = "helper" /\ t.st = "invoked" /\ t.inv # "java"
  \/ t.k = "candi" /\ t.st = "done"

\* pExecuteJava() has returned
Ran(t) == t.k \in {"helper", "candi"} /\ t.st = "executed"

\* the arguments are at optop
Waits(t) ==
  \/ t.k = "helper" /\ t.st = "invoke"
  \/ t.k = "candi" /\ t.st \in {"entry", "compiled", "normal"}
  \/ t.k = "jit" /\ t.st = "entry"

Compiling(t) == t.k = "candi" /\ t.st = "compiling"

\* invokeJavaMethod() has made the frame
Framed(t) == t.k = "helper" /\ t.st = "invoked" /\ t.inv = "java"

Room(f, size) == f.base + size <= f.optop

Spot(t, fs, w, o, b) ==
  /\ Waits(t) => Lie(w, Tip(fs).optop, JVMWords(t.m, t.c))
  /\ Compiling(t) => /\ Lie(w, Tip(fs).optop - args_size(t.m), JVMWords(t.m, t.c))
                     /\ Room(Tip(fs), args_size(t.m))
  /\ Answered(t) /\ o => Room(Tip(fs), ret_size(t.m))
  /\ Ran(t) /\ o /\ ~ b.asm => Room(fs[Len(fs) - 1], ret_size(t.m))
  /\ Framed(t) => o

Quiet(t) ==
  \/ t.k \in {"comp", "interp", "native", "jni", "nmi", "remote"}
  \/ t.k = "helper" /\ t.st \in {"entry", "native"}
  \/ t.k = "jit" /\ t.st = "done"

LEMMA QuietSpot ==
  ASSUME NEW t, Quiet(t), NEW fs, NEW w, NEW o, NEW b
  PROVE  Spot(t, fs, w, o, b)
BY DEF Quiet, Spot, Waits, Compiling, Answered, Ran, Framed

Words32(w) == DOMAIN w = 1 .. StackWords

Laid == Arr(stk, frames, mem) /\ Words32(mem) /\ Spot(Tip(stk), frames, mem, ok, build)

LEMMA LaidBy ==
  ASSUME NEW s, NEW fs, NEW w, NEW o, Arr(s, fs, w), Words32(w), Spot(Tip(s), fs, w, o, build),
         stk' = s, frames' = fs, mem' = w, ok' = o, build' = build
  PROVE  Laid'
BY DEF Laid

LEMMA LaidQuiet ==
  ASSUME NEW s, NEW fs, NEW w, Arr(s, fs, w), Words32(w), Quiet(Tip(s)),
         stk' = s, frames' = fs, mem' = w
  PROVE  Laid'
<1>1. Spot(Tip(s), fs, w, ok', build')
  BY QuietSpot
<1>2. QED
  BY <1>1 DEF Laid

\* the facts about the top
LEMMA LaidTop ==
  ASSUME Laid
  PROVE  /\ IsSeq(stk) /\ stk # << >> /\ Len(stk) \in Nat /\ Len(stk) >= 1
         /\ IsSeq(frames) /\ frames # << >> /\ Len(frames) \in Nat /\ Len(frames) >= 1
         /\ Act(Top) /\ Top = Tip(stk) /\ Tip(frames) = frames[Cur] /\ optop = Tip(frames).optop
         /\ FrameAt(Tip(frames), mem, Top) /\ FrameOK(Tip(frames))
         /\ Top.k # "interp" => Len(stk) > 1
         /\ ActRec(Top) /\ Top.m \in Methods /\ args_size(Top.m) \in Nat
<1>1. Arr(stk, frames, mem)
  BY DEF Laid
<1>2. Top = Tip(stk) /\ Tip(frames) = frames[Cur] /\ optop = Tip(frames).optop
  BY DEF Top, Tip, Cur, optop
<1>3. Act(Top)
  BY <1>1, <1>2, ArrFacts
<1>4. ActRec(Top) /\ Top.m \in Methods
  BY <1>3 DEF Act
<1>5. args_size(Top.m) \in Nat
  BY <1>4, Layouts
<1>6. IsSeq(stk) /\ stk # << >> /\ Len(stk) \in Nat /\ Len(stk) >= 1
  BY <1>1, ArrFacts
<1>7. IsSeq(frames) /\ frames # << >> /\ Len(frames) \in Nat /\ Len(frames) >= 1
  BY <1>1, ArrFacts
<1>8. /\ FrameAt(Tip(frames), mem, Top) /\ FrameOK(Tip(frames))
      /\ Top.k # "interp" => Len(stk) > 1
  BY <1>1, <1>2, ArrFacts
<1>9. QED
  BY <1>2, <1>3, <1>4, <1>5, <1>6, <1>7, <1>8

LEMMA MakeActIs ==
  ASSUME NEW k, NEW m, NEW c, NEW loc, NEW a, a = Activation(k, m, c, loc)
  PROVE  /\ ActRec(a) /\ a.k = k /\ a.m = m /\ a.c = c /\ a.loc = loc /\ a.inl = << >>
         /\ a.st = IF k \in {"helper", "candi", "jit"} THEN "entry" ELSE "run"
         /\ a.inv = "none"
BY DEF Activation, ActRec, ActFields

LEMMA NewAct ==
  ASSUME NEW a, ActRec(a), a.m \in Methods, Given(a), a.inl = << >>
  PROVE  Act(a)
BY DEF Act

\* f is t in another state
Next1(f, t) == ActRec(f) /\ Goes(f, t) /\ f.loc = t.loc /\ f.inl = t.inl

LEMMA Next1Act ==
  ASSUME NEW t, Act(t), NEW f, Next1(f, t)
  PROVE  Act(f)
BY DEF Act, Next1, Goes, Given

LEMMA AtIs ==
  ASSUME Laid, NEW st
  PROVE  \E f : /\ At(st) = [stk EXCEPT ![Len(stk)] = f] /\ Put1(stk, f, At(st))
                /\ Next1(f, Top) /\ Act(f) /\ f.inv = Top.inv /\ f.st = st
<1>1. PICK f : f = [Top EXCEPT !.st = st]
  OBVIOUS
<1>2. ActRec(Top) /\ Act(Top) /\ IsSeq(stk) /\ stk # << >>
  BY LaidTop
<1>3. /\ ActRec(f) /\ f.k = Top.k /\ f.m = Top.m /\ f.c = Top.c /\ f.loc = Top.loc
      /\ f.inl = Top.inl /\ f.inv = Top.inv /\ f.st = st
  BY <1>1, <1>2 DEF ActRec, ActFields
<1>4. At(st) = [stk EXCEPT ![Len(stk)] = f]
  BY <1>1 DEF At, Top
<1>5. Next1(f, Top)
  BY <1>3 DEF Next1, Goes
<1>6. Act(f)
  BY <1>2, <1>5, Next1Act
<1>7. Put1(stk, f, At(st))
  BY <1>2, <1>4, PutIs
<1>8. QED
  BY <1>3, <1>4, <1>5, <1>6, <1>7


LEMMA AwaitIs ==
  ASSUME Laid, NEW m, NEW c
  PROVE  \E f : /\ Await(m, c) = [stk EXCEPT ![Len(stk)] = f] /\ Put1(stk, f, Await(m, c))
                /\ Next1(f, Top) /\ Act(f) /\ f.st = "ret" /\ f.call = <<m, c>>
<1>1. PICK x : x = <<m, c>>
  OBVIOUS
<1>2. PICK g : g = [Top EXCEPT !.st = "ret"]
  OBVIOUS
<1>3. PICK f : f = [g EXCEPT !.call = x]
  OBVIOUS
<1>4. /\ ActRec(Top) /\ Act(Top) /\ IsSeq(stk) /\ stk # << >> /\ Len(stk) \in Nat
      /\ Len(stk) >= 1
  BY LaidTop
<1>5. /\ ActRec(g) /\ g.k = Top.k /\ g.m = Top.m /\ g.c = Top.c /\ g.loc = Top.loc
      /\ g.inl = Top.inl /\ g.st = "ret"
  BY <1>2, <1>4 DEF ActRec, ActFields
<1>6. /\ ActRec(f) /\ f.k = Top.k /\ f.m = Top.m /\ f.c = Top.c /\ f.loc = Top.loc
      /\ f.inl = Top.inl /\ f.st = "ret" /\ f.call = x
  BY <1>3, <1>5 DEF ActRec, ActFields
<1>7. PICK s : s = [stk EXCEPT ![Len(stk)] = g]
  OBVIOUS
<1>8. Len(stk) \in DOMAIN stk
  BY <1>4, SeqFacts
<1>9. s[Len(stk)] = g
  BY <1>7, <1>8
<1>10. Await(m, c) = [s EXCEPT ![Len(stk)].call = x]
  BY <1>1, <1>2, <1>4, <1>7, <1>8 DEF Await, Top
<1>11. [s EXCEPT ![Len(stk)].call = x] = [s EXCEPT ![Len(stk)] = f]
  BY <1>3, <1>9
<1>12. [s EXCEPT ![Len(stk)] = f] = [stk EXCEPT ![Len(stk)] = f]
  BY <1>7
<1>13. Next1(f, Top)
  BY <1>6 DEF Next1, Goes
<1>14. Act(f)
  BY <1>4, <1>13, Next1Act
<1>15. Await(m, c) = [stk EXCEPT ![Len(stk)] = f]
  BY <1>10, <1>11, <1>12
<1>16. Put1(stk, f, Await(m, c))
  BY <1>4, <1>15, PutIs
<1>17. QED
  BY <1>1, <1>6, <1>13, <1>14, <1>15, <1>16

-----------------------------------------------------------------------------
(* Words of the Java stack.                                                *)

LEMMA PutWords ==
  ASSUME NEW w, Words32(w), NEW at \in Int, at >= 1, NEW ws, IsSeq(ws), NEW u, u = Put(w, at, ws)
  PROVE  /\ Words32(u) /\ Lie(u, at, ws)
         /\ \A x \in 1 .. StackWords : x < at => u[x] = w[x]
<1>1. PICK n \in Nat : n = Len(ws)
  BY SeqFacts
<1>2. u = [i \in 1 .. StackWords |-> IF i >= at /\ i < at + n THEN ws[i - at + 1] ELSE w[i]]
  BY <1>1 DEF Put, Words32
<1>3. Words32(u)
  BY <1>2 DEF Words32
<1>4. ASSUME NEW x \in 1 .. n, at + x - 1 <= StackWords PROVE u[at + x - 1] = ws[x]
  <2>1. PICK z : z = at + x - 1
    OBVIOUS
  <2>2. z \in 1 .. StackWords /\ z >= at /\ z < at + n /\ z - at + 1 = x
    BY <1>4, <2>1, BoundAssumption
  <2>3. QED
    BY <1>2, <2>1, <2>2
<1>5. Lie(u, at, ws)
  BY <1>1, <1>4 DEF Lie
<1>6. \A x \in 1 .. StackWords : x < at => u[x] = w[x]
  BY <1>2, BoundAssumption
<1>7. QED
  BY <1>3, <1>5, <1>6

LEMMA ScrapWords ==
  ASSUME NEW w, Words32(w), NEW at \in Int, NEW u, u = Scrap(w, at)
  PROVE  /\ Words32(u)
         /\ \A x \in 1 .. StackWords : x < at => u[x] = w[x]
BY BoundAssumption DEF Words32, Scrap

\* The words below those that change
Untouched(w, u, z) == \A x \in 1 .. StackWords : x < z => u[x] = w[x]
LieBelow(w, at, n, ws, z) ==
  /\ at \in Int /\ at >= 1 /\ n \in Nat /\ z \in Int /\ at + n <= z
  /\ n = Len(ws) /\ Lie(w, at, ws)

LEMMA LieKept ==
  ASSUME NEW w, NEW at, NEW ws, NEW n, NEW z, LieBelow(w, at, n, ws, z),
         NEW u, Untouched(w, u, z)
  PROVE  Lie(u, at, ws)
<1>0. at \in Int /\ at >= 1 /\ n \in Nat /\ z \in Int /\ at + n <= z
  BY DEF LieBelow
<1>3. n = Len(ws)
  BY DEF LieBelow
<1>4. \A x \in 1 .. n : at + x - 1 <= StackWords => w[at + x - 1] = ws[x]
  BY DEF LieBelow, Lie
<1>1. ASSUME NEW x \in 1 .. n, at + x - 1 <= StackWords PROVE u[at + x - 1] = ws[x]
  <2>1. PICK y : y = at + x - 1
    OBVIOUS
  <2>2. y \in 1 .. StackWords /\ y < z
    BY <1>0, <1>1, <2>1, BoundAssumption
  <2>3. w[y] = ws[x]
    BY <1>1, <1>4, <2>1
  <2>4. u[y] = w[y]
    BY <2>2 DEF Untouched
  <2>5. QED
    BY <2>1, <2>3, <2>4
<1>2. QED
  BY <1>1, <1>3 DEF Lie

\* What is read back
LEMMA GetWords ==
  ASSUME NEW at \in Int, NEW ws, IsSeq(ws), NEW n \in Nat, n = Len(ws), Lie(mem, at, ws),
         at + n <= StackWords + 1
  PROVE  Get(at, n) = ws
<1>1. DOMAIN ws = 1 .. n /\ ws = [i \in 1 .. n |-> ws[i]]
  <2>1. PICK S : ws \in Seq(S)
    BY DEF IsSeq
  <2>2. QED
    BY <2>1, LenProperties
<1>2. \A i \in 1 .. n : mem[at + i - 1] = ws[i]
  BY BoundAssumption DEF Lie
<1>3. QED
  BY <1>1, <1>2 DEF Get

-----------------------------------------------------------------------------
(* Calls of compiled code, and code inlined into it.                       *)

LEMMA FrameSame ==
  ASSUME NEW g, NEW w, NEW t, FrameAt(g, w, t), NEW f, Goes(f, t), Reader(f) => Reader(t)
  PROVE  FrameAt(g, w, f)
BY DEF FrameAt, Goes

Steady(t) == t.k \in {"comp", "interp", "native", "remote"}

LEMMA SteadySame ==
  ASSUME NEW t, Steady(t), NEW f, Goes(f, t)
  PROVE  SameOwn(f, t) /\ (Reader(f) => Reader(t)) /\ Quiet(f)
BY DEF Steady, SameOwn, Goes, Owns, Reader, Quiet

\* The innermost activation goes on in its state of the stacks.
LEMMA SteadySet ==
  ASSUME NEW s, NEW fs, NEW w, Arr(s, fs, w), Steady(Tip(s)), NEW f, Next1(f, Tip(s)),
         NEW r, Put1(s, f, r)
  PROVE  Arr(r, fs, w) /\ Tip(r) = f /\ Quiet(f)
<1>1. Goes(f, Tip(s))
  BY DEF Next1
<1>2. Act(Tip(s)) /\ FrameAt(Tip(fs), w, Tip(s))
  BY ArrFacts
<1>3. Act(f)
  BY <1>2, Next1Act
<1>4. SameOwn(f, Tip(s)) /\ (Reader(f) => Reader(Tip(s))) /\ Quiet(f)
  BY <1>1, SteadySame
<1>5. FrameAt(Tip(fs), w, f)
  BY <1>1, <1>2, <1>4, FrameSame
<1>6. Arr(r, fs, w)
  BY <1>1, <1>3, <1>4, <1>5, ArrSet
<1>7. Tip(r) = f
  BY PutTip
<1>8. QED
  BY <1>4, <1>6, <1>7

\* Compiled code and the interpreter make a call.
Callee(a, g) ==
  \/ a.k = "comp" /\ g.k \in {"comp", "helper", "remote"}
  \/ a.k = "interp" /\ g.k \in {"candi", "jit", "interp", "native"}

LEMMA CallerLink ==
  ASSUME NEW a, NEW g, Callee(a, g), a.st = "ret", a.call = <<g.m, g.c>>
  PROVE  Link(a, g)
BY DEF Callee, Link

LEMMA CallArr ==
  ASSUME Laid, NEW fs, NEW w, Arr(stk, fs, w), NEW g, Act(g), Callee(Top, g),
         \A b : b.k = Top.k => ~ Owns(b, g), FrameAt(Tip(fs), w, g),
         NEW r, r = Append(Await(g.m, g.c), g)
  PROVE  Arr(r, fs, w) /\ Tip(r) = g
<1>1. PICK f : /\ Put1(stk, f, Await(g.m, g.c)) /\ Next1(f, Top)
               /\ f.st = "ret" /\ f.call = <<g.m, g.c>>
  BY AwaitIs
<1>2. PICK s : s = Await(g.m, g.c)
  OBVIOUS
<1>3. Top = Tip(stk)
  BY LaidTop
<1>4. Steady(Tip(stk))
  BY <1>3 DEF Callee, Steady
<1>5. Next1(f, Tip(stk)) /\ Put1(stk, f, s)
  BY <1>1, <1>2, <1>3
<1>6. Arr(s, fs, w) /\ Tip(s) = f
  BY <1>4, <1>5, SteadySet
<1>7. f.k = Top.k
  BY <1>1 DEF Next1, Goes
<1>8. Link(f, g)
  <2>1. Callee(f, g)
    BY <1>7 DEF Callee
  <2>2. QED
    BY <1>1, <2>1, CallerLink
<1>9. ~ Owns(f, g)
  BY <1>7
<1>10. IsSeq(s)
  BY <1>6, ArrFacts
<1>11. Push1(s, g, r)
  BY <1>2, <1>10, PushIs
<1>12. Arr(r, fs, w)
  BY <1>6, <1>8, <1>9, <1>11, ArrPush
<1>13. QED
  BY <1>11, <1>12, PushTip

LEMMA CallArrFrame ==
  ASSUME Laid, NEW fs, NEW w, Arr(stk, fs, w), NEW g, Act(g), Callee(Top, g),
         \A b : b.k = Top.k => Owns(b, g),
         NEW h, FrameOK(h), Tip(fs).base <= h.base, FrameAt(h, w, g),
         NEW q, Push1(fs, h, q), NEW r, r = Append(Await(g.m, g.c), g)
  PROVE  Arr(r, q, w) /\ Tip(r) = g
<1>1. PICK f : /\ Put1(stk, f, Await(g.m, g.c)) /\ Next1(f, Top)
               /\ f.st = "ret" /\ f.call = <<g.m, g.c>>
  BY AwaitIs
<1>2. PICK s : s = Await(g.m, g.c)
  OBVIOUS
<1>3. Top = Tip(stk)
  BY LaidTop
<1>4. Steady(Tip(stk))
  BY <1>3 DEF Callee, Steady
<1>5. Next1(f, Tip(stk)) /\ Put1(stk, f, s)
  BY <1>1, <1>2, <1>3
<1>6. Arr(s, fs, w) /\ Tip(s) = f
  BY <1>4, <1>5, SteadySet
<1>7. f.k = Top.k
  BY <1>1 DEF Next1, Goes
<1>8. Link(f, g)
  <2>1. Callee(f, g)
    BY <1>7 DEF Callee
  <2>2. QED
    BY <1>1, <2>1, CallerLink
<1>9. Owns(f, g)
  BY <1>7
<1>10. IsSeq(s)
  BY <1>6, ArrFacts
<1>11. Push1(s, g, r)
  BY <1>2, <1>10, PushIs
<1>12. Arr(r, q, w)
  BY <1>6, <1>8, <1>9, <1>11, ArrPushFrame
<1>13. QED
  BY <1>11, <1>12, PushTip

\* The frames with another one on top that is alike
LEMMA TopAlike ==
  ASSUME NEW s, NEW fs, NEW w, Arr(s, fs, w), NEW g, Alike(Tip(fs), g),
         NEW q, Put1(fs, g, q)
  PROVE  Arr(s, q, w) /\ Tip(q) = g
<1>1. IsSeq(q) /\ Len(q) = Len(fs)
  BY DEF Put1
<1>2. PICK n \in Nat : n = Len(fs)
  BY ArrFacts
<1>3. \A j \in 1 .. n : FrameOK(fs[j])
  BY <1>2 DEF Arr, Core, Stacked
<1>4. \A j \in 1 .. n : Alike(fs[j], q[j])
  <2>1. TAKE j \in 1 .. n
  <2>2. CASE j < n
    <3>1. q[j] = fs[j] /\ FrameOK(fs[j])
      BY <1>2, <1>3, <2>2 DEF Put1
    <3>2. QED
      BY <3>1 DEF Alike
  <2>3. CASE j = n
    BY <1>2, <2>3 DEF Put1, Tip
  <2>4. QED
    BY <2>2, <2>3
<1>5. Arr(s, q, w)
  BY <1>1, <1>2, <1>4, ArrAlike
<1>6. QED
  BY <1>5, PutTip

\* The operand stack of the innermost frame changes.
LEMMA OptopAlike ==
  ASSUME NEW f, FrameOK(f), NEW o \in Int, f.base <= o, NEW g, g = [f EXCEPT !.optop = o]
  PROVE  Alike(f, g) /\ g.base = f.base /\ g.optop = o
<1>1. /\ f = [i \in FrameFields |-> f[i]] /\ f.base \in Int /\ 1 <= f.base
  BY DEF FrameOK
<1>2. /\ g = [i \in FrameFields |-> g[i]] /\ g.base = f.base /\ g.optop = o
      /\ g.m = f.m /\ g.ebp = f.ebp /\ g.vars = f.vars
  BY <1>1 DEF FrameFields
<1>3. QED
  BY <1>1, <1>2 DEF Alike, FrameOK

Moved(s, fs, w, o) == Arr(s, fs, w) /\ o \in Int /\ Tip(fs).base <= o

\* the frames q are fs with o for the operand stack pointer on top
Shifted(s, fs, q, w, o) ==
  Arr(s, q, w) /\ Tip(q).optop = o /\ Tip(q).base = Tip(fs).base

LEMMA SetOptop ==
  ASSUME NEW s, NEW fs, NEW w, NEW o, Moved(s, fs, w, o),
         NEW q, q = [fs EXCEPT ![Len(fs)].optop = o]
  PROVE  Shifted(s, fs, q, w, o)
<1>0. Arr(s, fs, w) /\ o \in Int /\ Tip(fs).base <= o
  BY DEF Moved
<1>1. IsSeq(fs) /\ fs # << >> /\ FrameOK(Tip(fs))
  BY <1>0, ArrFacts
<1>2. PICK g : g = [Tip(fs) EXCEPT !.optop = o]
  OBVIOUS
<1>3. q = [fs EXCEPT ![Len(fs)] = g]
  BY <1>2 DEF Tip
<1>4. Put1(fs, g, q)
  BY <1>1, <1>3, PutIs
<1>5. Alike(Tip(fs), g) /\ g.base = Tip(fs).base /\ g.optop = o
  BY <1>0, <1>1, <1>2, OptopAlike
<1>6. Arr(s, q, w) /\ Tip(q) = g
  BY <1>0, <1>4, <1>5, TopAlike
<1>7. QED
  BY <1>5, <1>6 DEF Shifted

\* Compiled code changes the method of the frame.
LEMMA SetMethod ==
  ASSUME NEW s, NEW fs, NEW w, Arr(s, fs, w), Tip(s).k = "comp", NEW m, NEW e \in Int, e # 0,
         NEW q, q = [fs EXCEPT ![Len(fs)].m = m, ![Len(fs)].ebp = e]
  PROVE  Arr(s, q, w) /\ Tip(q).ebp # 0
<1>1. IsSeq(fs) /\ fs # << >> /\ FrameOK(Tip(fs)) /\ FrameAt(Tip(fs), w, Tip(s))
  BY ArrFacts
<1>2. PICK x : x = Tip(fs)
  OBVIOUS
<1>3. PICK h : h = [x EXCEPT !.m = m]
  OBVIOUS
<1>4. PICK g : g = [h EXCEPT !.ebp = e]
  OBVIOUS
<1>5. /\ x = [i \in FrameFields |-> x[i]] /\ x.base \in Int /\ x.optop \in Int
      /\ 1 <= x.base /\ x.base <= x.optop /\ x.ebp # 0
  BY <1>1, <1>2 DEF FrameOK, FrameAt
<1>6. /\ h = [i \in FrameFields |-> h[i]] /\ h.base = x.base /\ h.optop = x.optop
  BY <1>3, <1>5 DEF FrameFields
<1>7. /\ g = [i \in FrameFields |-> g[i]] /\ g.base = x.base /\ g.optop = x.optop /\ g.ebp = e
  BY <1>4, <1>6 DEF FrameFields
<1>8. Alike(x, g)
  BY <1>5, <1>7 DEF Alike, FrameOK
<1>9. PICK n : n = Len(fs)
  OBVIOUS
<1>10. n \in DOMAIN fs /\ fs[n] = x
  BY <1>1, <1>2, <1>9, ArrFacts, SeqFacts DEF Tip
<1>11. PICK p : p = [fs EXCEPT ![n] = h]
  OBVIOUS
<1>12. q = [p EXCEPT ![n].ebp = e]
  BY <1>3, <1>9, <1>10, <1>11
<1>13. p[n] = h
  BY <1>10, <1>11
<1>14. [p EXCEPT ![n].ebp = e] = [p EXCEPT ![n] = g]
  BY <1>4, <1>13
<1>15. [p EXCEPT ![n] = g] = [fs EXCEPT ![n] = g]
  BY <1>11
<1>16. q = [fs EXCEPT ![Len(fs)] = g]
  BY <1>9, <1>12, <1>14, <1>15
<1>17. Put1(fs, g, q)
  BY <1>1, <1>16, PutIs
<1>18. Arr(s, q, w) /\ Tip(q) = g
  BY <1>2, <1>8, <1>17, TopAlike
<1>19. QED
  BY <1>7, <1>18

\* Words from the base of the innermost frame on change.
LEMMA SetWords ==
  ASSUME NEW s, NEW fs, NEW w, Arr(s, fs, w), NEW u, NEW at \in Int, Tip(fs).base <= at,
         \A x \in 1 .. StackWords : x < at => u[x] = w[x]
  PROVE  Arr(s, fs, u)
<1>1. Tip(fs).base \in Int
  BY ArrFacts DEF FrameOK
<1>2. \A x \in 1 .. StackWords : x < Tip(fs).base => u[x] = w[x]
  BY <1>1, BoundAssumption
<1>3. QED
  BY <1>2, ArrWords
-----------------------------------------------------------------------------
(* Compiled code.                                                          *)

LEMMA InvokeDirectLaid ==
  ASSUME Laid, NEW m \in Methods, NEW c, Top.k = "comp", InvokeDirect(m, c),
         mem' = mem
  PROVE  Laid'
<1>1. PICK q : q = [frames EXCEPT ![Cur].m = m, ![Cur].ebp = Len(stk) + 1]
  OBVIOUS
<1>2. PICK e \in Int : e = Len(stk) + 1 /\ e # 0
  BY LaidTop
<1>3. Arr(stk, frames, mem) /\ Words32(mem) /\ Tip(stk).k = "comp"
  BY LaidTop DEF Laid
<1>4. q = [frames EXCEPT ![Len(frames)].m = m, ![Len(frames)].ebp = e]
  BY <1>1, <1>2 DEF Cur
<1>5. Arr(stk, q, mem) /\ Tip(q).ebp # 0
  BY <1>2, <1>3, <1>4, SetMethod
<1>6. PICK g : g = Activation("comp", m, c, NativeWords(m, c))
  OBVIOUS
<1>7. ActRec(g) /\ g.k = "comp" /\ g.m = m /\ g.c = c /\ g.loc = NativeWords(m, c) /\ g.inl = << >>
  BY <1>6, MakeActIs
<1>8. Act(g)
  BY <1>7, NewAct DEF Given
<1>9. Callee(Top, g) /\ (\A b : ~ Owns(b, g)) /\ FrameAt(Tip(q), mem, g) /\ Quiet(g)
  BY <1>5, <1>7 DEF Callee, Owns, FrameAt, Reader, Quiet
<1>10. PICK r : r = Append(Await(g.m, g.c), g)
  OBVIOUS
<1>11. Arr(r, q, mem) /\ Tip(r) = g
  BY <1>5, <1>8, <1>9, <1>10, CallArr
<1>12. stk' = r /\ frames' = q
  BY <1>1, <1>6, <1>7, <1>10 DEF InvokeDirect
<1>13. QED
  BY <1>3, <1>9, <1>11, <1>12, LaidQuiet

\* a call by compiled code that makes no frame and goes to a C function
LEMMA CallOutLaid ==
  ASSUME Laid, NEW m \in Methods, NEW c, Top.k = "comp", NEW k, k \in {"helper", "remote"},
         k = "remote" => ~ Info[m].static,
         stk' = Append(Await(m, c), Activation(k, m, c, NativeWords(m, c))),
         UNCHANGED <<frames, mem>>
  PROVE  Laid'
<1>1. Arr(stk, frames, mem) /\ Words32(mem)
  BY DEF Laid
<1>2. PICK g : g = Activation(k, m, c, NativeWords(m, c))
  OBVIOUS
<1>3. /\ ActRec(g) /\ g.k = k /\ g.m = m /\ g.c = c /\ g.loc = NativeWords(m, c) /\ g.inl = << >>
      /\ k = "helper" => g.st = "entry"
  BY <1>2, MakeActIs
<1>4. Given(g)
  BY <1>3 DEF Given
<1>5. Act(g)
  BY <1>3, <1>4, NewAct
<1>6. Callee(Top, g) /\ (\A b : ~ Owns(b, g)) /\ FrameAt(Tip(frames), mem, g) /\ Quiet(g)
  BY <1>3 DEF Callee, Owns, FrameAt, Reader, Quiet
<1>7. PICK r : r = Append(Await(g.m, g.c), g)
  OBVIOUS
<1>8. Arr(r, frames, mem) /\ Tip(r) = g
  BY <1>1, <1>5, <1>6, <1>7, CallArr
<1>9. stk' = r
  BY <1>2, <1>3, <1>7
<1>10. QED
  BY <1>1, <1>6, <1>8, <1>9, LaidQuiet

LEMMA InvokeCoreLaid ==
  ASSUME Laid, NEW m \in Methods, InvokeCore(m)
  PROVE  Laid'
<1>1. Top.k = "comp" /\ mem' = mem
  BY DEF InvokeCore, Running
<1>2. PICK c : c = calls + 1
  OBVIOUS
<1>3. CASE compiled[m]
  <2>1. InvokeDirect(m, c)
    BY <1>2, <1>3 DEF InvokeCore
  <2>2. QED
    BY <1>1, <2>1, InvokeDirectLaid
<1>4. CASE ~ compiled[m]
  <2>1. /\ stk' = Append(Await(m, c), Activation("helper", m, c, NativeWords(m, c)))
        /\ UNCHANGED frames
    BY <1>2, <1>4 DEF InvokeCore, InvokeHelper
  <2>2. QED
    BY <1>1, <2>1, CallOutLaid
<1>5. QED
  BY <1>3, <1>4

LEMMA RemoteInvokeLaid ==
  ASSUME Laid, NEW m \in Methods, RemoteInvoke(m)
  PROVE  Laid'
<1>1. Top.k = "comp" /\ UNCHANGED <<frames, mem>> /\ ~ Info[m].static
  BY DEF RemoteInvoke, Running
<1>2. PICK c : c = calls + 1
  OBVIOUS
<1>3. stk' = Append(Await(m, c), Activation("remote", m, c, NativeWords(m, c)))
  BY <1>2 DEF RemoteInvoke
<1>4. QED
  BY <1>1, <1>3, CallOutLaid

\* The innermost activation goes on, nothing else happens.
LEMMA StaysLaid ==
  ASSUME Laid, Top.k = "comp", NEW f, ActRec(f), Goes(f, Top), f.loc = Top.loc,
         f.inl # << >> => <<f.m, f.inl[1].m>> \in Inlined,
         stk' = [stk EXCEPT ![Len(stk)] = f], UNCHANGED <<frames, mem>>
  PROVE  Laid'
<1>1. /\ Act(Top) /\ Top = Tip(stk) /\ IsSeq(stk) /\ stk # << >>
      /\ FrameAt(Tip(frames), mem, Top)
  BY LaidTop
<1>2. Arr(stk, frames, mem) /\ Words32(mem)
  BY DEF Laid
<1>3. Steady(Top)
  BY DEF Steady
<1>4. Act(f)
  BY <1>1 DEF Act, Goes, Given
<1>5. SameOwn(f, Top) /\ (Reader(f) => Reader(Top)) /\ Quiet(f)
  BY <1>3, SteadySame
<1>6. FrameAt(Tip(frames), mem, f)
  BY <1>1, <1>5, FrameSame
<1>7. PICK r : r = [stk EXCEPT ![Len(stk)] = f]
  OBVIOUS
<1>8. Put1(stk, f, r)
  BY <1>1, <1>7, PutIs
<1>9. Arr(r, frames, mem)
  BY <1>1, <1>2, <1>4, <1>5, <1>6, <1>8, ArrSet
<1>10. Tip(r) = f
  BY <1>8, PutTip
<1>11. stk' = r
  BY <1>7
<1>12. QED
  BY <1>2, <1>5, <1>9, <1>10, <1>11, LaidQuiet

\* Only the innermost activation changes, and nothing of its identity.
Changed(f) ==
  /\ ActRec(f) /\ Goes(f, Top) /\ f.loc = Top.loc /\ f.st = "run"
  /\ f.inl # << >> => <<f.m, f.inl[1].m>> \in Inlined
  /\ stk' = [stk EXCEPT ![Len(stk)] = f]

LEMMA ChangedPut ==
  ASSUME Laid, NEW f, Changed(f)
  PROVE  Put1(stk, f, stk') /\ Goes(f, Top)
<1>1. IsSeq(stk) /\ stk # << >>
  BY LaidTop
<1>2. PICK r : r = [stk EXCEPT ![Len(stk)] = f]
  OBVIOUS
<1>3. Put1(stk, f, r)
  BY <1>1, <1>2, PutIs
<1>4. QED
  BY <1>2, <1>3 DEF Changed

LEMMA InlinedIs ==
  ASSUME Laid, NEW m \in Methods, InlinedEnter(m) \/ InlinedExit
  PROVE  \E f : Changed(f)
<1>2. ActRec(Top) /\ Top = stk[Len(stk)]
  BY LaidTop DEF Tip
<1>3. CASE InlinedEnter(m)
  <2>1. PICK y : y = [m |-> m, c |-> calls + 1, loc |-> NativeWords(m, calls + 1)]
    OBVIOUS
  <2>2. PICK x : x = <<y>>
    OBVIOUS
  <2>3. x[1].m = m
    BY <2>1, <2>2
  <2>4. PICK f : f = [Top EXCEPT !.inl = x]
    OBVIOUS
  <2>5. stk' = [stk EXCEPT ![Len(stk)] = f]
    BY <1>2, <1>3, <2>1, <2>2, <2>4 DEF InlinedEnter
  <2>6. /\ ActRec(f) /\ f.k = Top.k /\ f.m = Top.m /\ f.c = Top.c /\ f.loc = Top.loc /\ f.inl = x
        /\ f.st = Top.st
    BY <1>2, <2>4 DEF ActRec, ActFields
  <2>7. <<f.m, f.inl[1].m>> \in Inlined
    BY <1>3, <2>3, <2>6 DEF InlinedEnter
  <2>8. f.st = "run"
    BY <1>3, <2>6 DEF InlinedEnter, Running
  <2>9. QED
    BY <2>5, <2>6, <2>7, <2>8 DEF Goes, Changed
<1>4. CASE InlinedExit
  <2>1. PICK f : f = [Top EXCEPT !.inl = << >>]
    OBVIOUS
  <2>2. stk' = [stk EXCEPT ![Len(stk)] = f]
    BY <1>2, <1>4, <2>1 DEF InlinedExit
  <2>3. /\ ActRec(f) /\ f.k = Top.k /\ f.m = Top.m /\ f.c = Top.c /\ f.loc = Top.loc
        /\ f.inl = << >> /\ f.st = Top.st
    BY <1>2, <2>1 DEF ActRec, ActFields
  <2>4. f.st = "run"
    BY <1>4, <2>3 DEF InlinedExit, Running
  <2>5. QED
    BY <2>2, <2>3, <2>4 DEF Goes, Changed
<1>5. QED
  BY <1>3, <1>4

LEMMA InlinedLaid ==
  ASSUME Laid, NEW m \in Methods, InlinedEnter(m) \/ InlinedExit
  PROVE  Laid'
<1>1. Top.k = "comp" /\ UNCHANGED <<frames, mem>>
  BY DEF InlinedEnter, InlinedExit, Running
<1>2. PICK f : Changed(f)
  BY InlinedIs
<1>3. QED
  BY <1>1, <1>2, StaysLaid DEF Changed

LEMMA CatchIs ==
  ASSUME Laid, Catch
  PROVE  \E f : Changed(f)
<1>2. PICK x, y : x = "run" /\ y = << >>
  OBVIOUS
<1>3. ActRec(Top) /\ Top = stk[Len(stk)] /\ IsSeq(stk) /\ Len(stk) \in Nat /\ Len(stk) >= 1
  BY LaidTop DEF Tip
<1>4. PICK g : g = [Top EXCEPT !.st = x]
  OBVIOUS
<1>5. PICK f : f = [g EXCEPT !.inl = y]
  OBVIOUS
<1>6. ActRec(g) /\ g.k = Top.k /\ g.m = Top.m /\ g.c = Top.c /\ g.loc = Top.loc /\ g.st = x
  BY <1>3, <1>4 DEF ActRec, ActFields
<1>7. /\ ActRec(f) /\ f.k = Top.k /\ f.m = Top.m /\ f.c = Top.c /\ f.loc = Top.loc
      /\ f.inl = y /\ f.st = x
  BY <1>5, <1>6 DEF ActRec, ActFields
<1>8. PICK s : s = [stk EXCEPT ![Len(stk)] = g]
  OBVIOUS
<1>9. Len(stk) \in DOMAIN stk
  BY <1>3, SeqFacts
<1>10. s[Len(stk)] = g
  BY <1>8, <1>9
<1>11. stk' = [s EXCEPT ![Len(stk)].inl = y]
  BY <1>2, <1>3, <1>4, <1>8, <1>9 DEF Catch
<1>12. [s EXCEPT ![Len(stk)].inl = y] = [s EXCEPT ![Len(stk)] = f]
  BY <1>5, <1>10
<1>13. [s EXCEPT ![Len(stk)] = f] = [stk EXCEPT ![Len(stk)] = f]
  BY <1>8
<1>14. stk' = [stk EXCEPT ![Len(stk)] = f]
  BY <1>11, <1>12, <1>13
<1>15. QED
  BY <1>2, <1>7, <1>14 DEF Goes, Changed

LEMMA CatchLaid ==
  ASSUME Laid, Top.k = "comp", Catch
  PROVE  Laid'
<1>1. UNCHANGED <<frames, mem>>
  BY DEF Catch
<1>2. PICK f : Changed(f)
  BY CatchIs
<1>3. QED
  BY <1>1, <1>2, StaysLaid DEF Changed

-----------------------------------------------------------------------------
(* Ways out of compiled code, proxy_invoke(), and exhausted stacks.        *)

\* the activation below the innermost one
LEMMA BelowIs ==
  ASSUME Laid, Len(stk) > 1, NEW r, r = Front(stk)
  PROVE  /\ Pop1(stk, r) /\ Link(Tip(r), Top) /\ Act(Tip(r)) /\ Tip(r) = Below
         /\ Top = Tip(stk)
<1>1. IsSeq(stk) /\ stk # << >> /\ Top = Tip(stk)
  BY LaidTop
<1>2. Arr(stk, frames, mem)
  BY DEF Laid
<1>3. Pop1(stk, r)
  BY <1>1, PopIs
<1>4. Link(Tip(r), Tip(stk)) /\ Act(Tip(r)) /\ Tip(r) = stk[Len(stk) - 1]
  BY <1>2, <1>3, ArrBelow
<1>5. QED
  BY <1>1, <1>3, <1>4 DEF Below

LEMMA RetSize ==
  ASSUME NEW m \in Methods
  PROVE  ret_size(m) \in Nat
BY DEF ret_size

LEMMA PutBelow ==
  ASSUME NEW w, Words32(w), NEW at \in Int, NEW ws, NEW u, u = Put(w, at, ws)
  PROVE  /\ Words32(u)
         /\ \A x \in 1 .. StackWords : x < at => u[x] = w[x]
BY BoundAssumption DEF Words32, Put

\* Compiled code leaves: what is below it is compiled code or the C function
\* that called it.
LEMMA UnderComp ==
  ASSUME NEW a, NEW b, Link(a, b), b.k = "comp"
  PROVE  Quiet(a) /\ a.k \in {"comp", "jit"} /\ ~ Owns(a, b)
BY DEF Link, Quiet, Owns

LEMMA TailLaid ==
  ASSUME Laid, Top.k = "comp", NEW words, MethodTail(words)
  PROVE  Laid'
<1>1. Len(stk) > 1 /\ Len(stk) \in Nat
  BY LaidTop
<1>2. PICK r : r = Front(stk)
  OBVIOUS
<1>3. Pop1(stk, r) /\ Link(Tip(r), Top) /\ Tip(r) = Below /\ Top = Tip(stk)
  BY <1>1, <1>2, BelowIs
<1>4. Quiet(Tip(r)) /\ ~ Owns(Tip(r), Top)
  BY <1>3, UnderComp
<1>5. Arr(stk, frames, mem) /\ Words32(mem)
  BY DEF Laid
<1>6. stk' = r /\ mem' = mem
  BY <1>2 DEF MethodTail
<1>7. CASE Below.k = "comp"
  <2>1. PICK e \in Int : e = Len(stk) - 1 /\ e # 0
    BY <1>1
  <2>2. PICK q : q = [frames EXCEPT ![Len(frames)].m = Below.m, ![Len(frames)].ebp = e]
    OBVIOUS
  <2>3. Tip(stk).k = "comp"
    BY <1>3
  <2>4. Arr(stk, q, mem)
    BY <1>5, <2>1, <2>2, <2>3, SetMethod
  <2>5. Arr(r, q, mem)
    BY <1>1, <1>3, <1>4, <2>4, ArrPop
  <2>6. frames' = q
    BY <1>7, <2>1, <2>2 DEF MethodTail, Cur
  <2>7. QED
    BY <1>4, <1>5, <1>6, <2>5, <2>6, LaidQuiet
<1>8. CASE Below.k # "comp"
  <2>1. frames' = frames
    BY <1>8 DEF MethodTail
  <2>2. Arr(r, frames, mem)
    BY <1>1, <1>3, <1>4, <1>5, ArrPop
  <2>3. QED
    BY <1>4, <1>5, <1>6, <2>1, <2>2, LaidQuiet
<1>9. QED
  BY <1>7, <1>8

LEMMA CompiledLaid ==
  ASSUME Laid, CompiledReturn \/ CompiledThrow \/ InvokeCoreDone
  PROVE  Laid'
<1>1. Top.k = "comp"
  BY DEF CompiledReturn, CompiledThrow, InvokeCoreDone, Running
<1>2. CASE CompiledReturn
  BY <1>1, <1>2, TailLaid DEF CompiledReturn
<1>3. CASE Catch
  BY <1>1, <1>3, CatchLaid
<1>4. CASE Unwind
  BY <1>1, <1>4, TailLaid DEF Unwind
<1>5. CASE stk' = At("run") /\ UNCHANGED <<frames, mem>>
  <2>1. PICK f : /\ At("run") = [stk EXCEPT ![Len(stk)] = f]
                 /\ Next1(f, Top) /\ Act(f)
    BY AtIs
  <2>2. /\ ActRec(f) /\ Goes(f, Top) /\ f.loc = Top.loc
        /\ f.inl # << >> => <<f.m, f.inl[1].m>> \in Inlined
    BY <2>1 DEF Next1, Act
  <2>3. QED
    BY <1>1, <1>5, <2>1, <2>2, StaysLaid
<1>6. QED
  BY <1>2, <1>3, <1>4, <1>5 DEF CompiledThrow, InvokeCoreDone

\* What is below proxy_invoke() and invocationHelper() is compiled code.
LEMMA UnderHelper ==
  ASSUME NEW a, NEW b, Link(a, b), b.k \in {"helper", "remote"}
  PROVE  a.k = "comp" /\ Quiet(a)
BY DEF Link, Quiet

LEMMA RemoteDoneLaid ==
  ASSUME Laid, RemoteDone
  PROVE  Laid'
<1>1. Top.k = "remote" /\ stk' = Front(stk)
  BY DEF RemoteDone, Running
<1>2. Len(stk) > 1
  BY <1>1, LaidTop
<1>3. PICK r : r = Front(stk)
  OBVIOUS
<1>4. Pop1(stk, r) /\ Link(Tip(r), Top) /\ Top = Tip(stk)
  BY <1>2, <1>3, BelowIs
<1>5. Quiet(Tip(r))
  BY <1>1, <1>4, UnderHelper
<1>6. ~ Owns(Tip(r), Tip(stk))
  BY <1>1, <1>4 DEF Owns
<1>7. Arr(stk, frames, mem) /\ Words32(mem)
  BY DEF Laid
<1>8. Arr(r, frames, mem)
  BY <1>2, <1>4, <1>6, <1>7, ArrPop
<1>9. CASE UNCHANGED <<mem, frames>>
  BY <1>1, <1>3, <1>5, <1>7, <1>8, <1>9, LaidQuiet
<1>10. CASE /\ mem' = Put(mem, optop, Result(Top.m, Top.c))
            /\ frames' = [frames EXCEPT ![Cur].optop = optop + ret_size(Top.m)]
  <2>1. /\ Top.m \in Methods /\ optop = Tip(frames).optop /\ FrameOK(Tip(frames))
    BY LaidTop
  <2>2. ret_size(Top.m) \in Nat
    BY <2>1, RetSize
  <2>3. PICK o : o = optop + ret_size(Top.m)
    OBVIOUS
  <2>4. o \in Int /\ Tip(frames).base <= o /\ optop \in Int /\ Tip(frames).base <= optop
    BY <2>1, <2>2, <2>3 DEF FrameOK
  <2>5. PICK u : u = Put(mem, optop, Result(Top.m, Top.c))
    OBVIOUS
  <2>6. Words32(u) /\ \A x \in 1 .. StackWords : x < optop => u[x] = mem[x]
    BY <1>7, <2>4, <2>5, PutBelow
  <2>7. Arr(r, frames, u)
    BY <1>8, <2>4, <2>6, SetWords
  <2>8. PICK q : q = [frames EXCEPT ![Len(frames)].optop = o]
    OBVIOUS
  <2>12. Moved(r, frames, u, o)
    BY <2>4, <2>7 DEF Moved
  <2>13. Shifted(r, frames, q, u, o)
    BY <2>8, <2>12, SetOptop
  <2>9. Arr(r, q, u)
    BY <2>13 DEF Shifted
  <2>10. stk' = r /\ frames' = q /\ mem' = u
    BY <1>1, <1>3, <1>10, <2>3, <2>5, <2>8 DEF Cur
  <2>11. QED
    BY <1>5, <2>6, <2>9, <2>10, LaidQuiet
<1>11. QED
  BY <1>9, <1>10 DEF RemoteDone

-----------------------------------------------------------------------------
(* The invocation helper.                                                  *)

\* A C function gives up: the C function that called it gets ok = FALSE, what
\* else called it looks at the exception.
LEMMA FailSpot ==
  ASSUME NEW a, NEW b, Link(a, b), NEW fs, NEW w, NEW v
  PROVE  Spot(a, fs, w, FALSE, v)
BY DEF Link, Spot, Waits, Compiling, Answered, Ran, Framed

LEMMA OverflowLaid ==
  ASSUME Laid, Top.k \in {"helper", "candi", "jit"}, Overflow,
         Top.st \in {"entry", "invoke", "normal"}
  PROVE  Laid'
<1>1. Len(stk) > 1
  BY LaidTop
<1>2. PICK r : r = Front(stk)
  OBVIOUS
<1>3. Pop1(stk, r) /\ Link(Tip(r), Top) /\ Top = Tip(stk)
  BY <1>1, <1>2, BelowIs
<1>4. ~ Owns(Tip(r), Tip(stk))
  BY <1>3 DEF Owns
<1>5. Arr(stk, frames, mem) /\ Words32(mem)
  BY DEF Laid
<1>6. Arr(r, frames, mem)
  BY <1>1, <1>3, <1>4, <1>5, ArrPop
<1>7. Spot(Tip(r), frames, mem, FALSE, build)
  BY <1>3, FailSpot
<1>8. stk' = r /\ frames' = frames /\ mem' = mem /\ ok' = FALSE /\ build' = build
  BY <1>2 DEF Overflow, shared
<1>9. QED
  BY <1>5, <1>6, <1>7, <1>8, LaidBy

LEMMA NewFrameIs ==
  ASSUME Laid, NEW m, NEW locals \in Nat, NEW e, NEW g, g = NewFrame(m, locals, e)
  PROVE  /\ FrameOK(g) /\ Tip(frames).base <= g.base /\ g.m = m /\ g.ebp = e
         /\ g.vars = optop /\ g.base = optop + locals + 1 /\ g.optop = g.base
         /\ optop \in Int /\ optop >= 1
<1>1. FrameOK(Tip(frames)) /\ optop = Tip(frames).optop
  BY LaidTop
<1>2. optop \in Int /\ optop >= 1 /\ Tip(frames).base <= optop /\ Tip(frames).base \in Int
  BY <1>1 DEF FrameOK
<1>3. PICK o : o = optop
  OBVIOUS
<1>4. g = [m |-> m, creator |-> m, vars |-> o, ebp |-> e,
           base |-> o + locals + 1, optop |-> o + locals + 1]
  BY <1>3 DEF NewFrame
<1>5. /\ g.m = m /\ g.ebp = e /\ g.vars = o /\ g.base = o + locals + 1 /\ g.optop = g.base
      /\ g = [i \in FrameFields |-> g[i]]
  BY <1>4 DEF FrameFields
<1>6. QED
  BY <1>2, <1>3, <1>5 DEF FrameOK

\* The helper calls a native function with a frame of its own.
LEMMA HelperJNILaid ==
  ASSUME Laid, Top.k = "helper", Top.st = "entry", Info[Top.m].kind = "jni",
         stk' = Append(At("native"), Activation("jni", Top.m, Top.c, JNIArgs(Top.loc, Top.m))),
         frames' = Append(frames, NewFrame(Top.m, args_size(Top.m), 0)), mem' = mem
  PROVE  Laid'
<1>1. PICK f : /\ Put1(stk, f, At("native")) /\ Next1(f, Top) /\ Act(f) /\ f.st = "native"
  BY AtIs
<1>2. PICK s : s = At("native")
  OBVIOUS
<1>3. PICK h : h = NewFrame(Top.m, args_size(Top.m), 0)
  OBVIOUS
<1>4. PICK q : q = Append(frames, h)
  OBVIOUS
<1>5. /\ IsSeq(frames) /\ args_size(Top.m) \in Nat /\ Top = Tip(stk) /\ Act(Top)
      /\ Top.m \in Methods
  BY LaidTop
<1>6. Push1(frames, h, q)
  BY <1>4, <1>5, PushIs
<1>7. FrameOK(h) /\ Tip(frames).base <= h.base
  BY <1>3, <1>5, NewFrameIs
<1>8. f.k = "helper" /\ f.m = Top.m /\ f.c = Top.c /\ Goes(f, Tip(stk))
  BY <1>1, <1>5 DEF Next1, Goes
<1>9. Gains(Tip(stk), f)
  BY <1>1, <1>5, <1>8 DEF Gains, Owns
<1>10. FrameAt(h, mem, f)
  BY <1>1, <1>8 DEF FrameAt, Reader
<1>11. Arr(stk, frames, mem) /\ Words32(mem)
  BY DEF Laid
<1>12. Arr(s, q, mem) /\ Tip(s) = f
  BY <1>1, <1>2, <1>6, <1>7, <1>8, <1>9, <1>10, <1>11, ArrGrow, PutTip
<1>13. PICK g : g = Activation("jni", Top.m, Top.c, JNIArgs(Top.loc, Top.m))
  OBVIOUS
<1>14. /\ ActRec(g) /\ g.k = "jni" /\ g.m = Top.m /\ g.c = Top.c /\ g.inl = << >>
       /\ g.loc = JNIArgs(Top.loc, Top.m) /\ g.st = "run"
  BY <1>13, MakeActIs
<1>15. JNIArgs(Top.loc, Top.m) = CArgs(Top.m, Top.c, "jni")
  <2>1. Top.loc = NativeWords(Top.m, Top.c)
    BY <1>5 DEF Act, Given
  <2>2. QED
    BY <1>5, <2>1, CLayout
<1>16. Act(g)
  <2>1. Given(g)
    BY <1>14, <1>15 DEF Given
  <2>2. QED
    BY <1>5, <1>14, <2>1, NewAct
<1>17. Link(f, g)
  BY <1>1, <1>8, <1>14 DEF Link
<1>18. ~ Owns(f, g) /\ FrameAt(Tip(q), mem, g) /\ Quiet(g)
  BY <1>14 DEF Owns, FrameAt, Reader, Quiet
<1>19. PICK r : r = Append(s, g)
  OBVIOUS
<1>20. IsSeq(s)
  BY <1>12, ArrFacts
<1>21. Push1(s, g, r)
  BY <1>19, <1>20, PushIs
<1>22. Arr(r, q, mem) /\ Tip(r) = g
  BY <1>12, <1>16, <1>17, <1>18, <1>21, ArrPush, PushTip
<1>23. stk' = r /\ frames' = q
  BY <1>2, <1>3, <1>4, <1>13, <1>19
<1>24. QED
  BY <1>11, <1>18, <1>22, <1>23, LaidQuiet

-----------------------------------------------------------------------------
(* invocationHelper(): what it calls.                                      *)

\* g is on top, in its frame h
Atop(r, q, w, g) == Arr(r, q, w) /\ Tip(r) = g
AtopOf(r, q, w, g, h) == Arr(r, q, w) /\ Tip(r) = g /\ Tip(q) = h

\* The innermost activation goes on and makes a call.
Goes1(p, fs, w, f, s) ==
  /\ Arr(p, fs, w) /\ Next1(f, Tip(p)) /\ SameOwn(f, Tip(p))
  /\ FrameAt(Tip(fs), w, f) /\ Put1(p, f, s)

SetReady(p, fs, w, f, s, g) ==
  /\ Goes1(p, fs, w, f, s)
  /\ Act(g) /\ Link(f, g) /\ ~ Owns(f, g) /\ FrameAt(Tip(fs), w, g)

LEMMA SetPush ==
  ASSUME NEW p, NEW fs, NEW w, NEW f, NEW s, NEW g, SetReady(p, fs, w, f, s, g),
         NEW r, r = Append(s, g)
  PROVE  Atop(r, fs, w, g)
<1>0. /\ Arr(p, fs, w) /\ Next1(f, Tip(p)) /\ SameOwn(f, Tip(p)) /\ Put1(p, f, s)
      /\ FrameAt(Tip(fs), w, f)
      /\ Act(g) /\ Link(f, g) /\ ~ Owns(f, g) /\ FrameAt(Tip(fs), w, g)
  BY DEF SetReady, Goes1
<1>1. Act(Tip(p))
  BY <1>0, ArrFacts
<1>2. Act(f)
  BY <1>0, <1>1, Next1Act
<1>3. Goes(f, Tip(p))
  BY <1>0 DEF Next1
<1>4. Arr(s, fs, w) /\ Tip(s) = f
  BY <1>0, <1>2, <1>3, ArrSet, PutTip
<1>5. IsSeq(s)
  BY <1>0 DEF Put1
<1>6. Push1(s, g, r)
  BY <1>0, <1>5, PushIs
<1>7. QED
  BY <1>0, <1>4, <1>6, ArrPush, PushTip DEF Atop, AtopOf

FrameReady(p, fs, w, f, s, g, h) ==
  /\ Goes1(p, fs, w, f, s)
  /\ Act(g) /\ Link(f, g) /\ Owns(f, g)
  /\ FrameOK(h) /\ Tip(fs).base <= h.base /\ FrameAt(h, w, g)

LEMMA SetPushFrame ==
  ASSUME NEW p, NEW fs, NEW w, NEW f, NEW s, NEW g, NEW h, FrameReady(p, fs, w, f, s, g, h),
         NEW q, q = Append(fs, h), NEW r, r = Append(s, g)
  PROVE  Atop(r, q, w, g)
<1>0. /\ Arr(p, fs, w) /\ Next1(f, Tip(p)) /\ SameOwn(f, Tip(p)) /\ Put1(p, f, s)
      /\ FrameAt(Tip(fs), w, f)
      /\ Act(g) /\ Link(f, g) /\ Owns(f, g)
      /\ FrameOK(h) /\ Tip(fs).base <= h.base /\ FrameAt(h, w, g)
  BY DEF FrameReady, Goes1
<1>1. Act(Tip(p)) /\ IsSeq(fs)
  BY <1>0, ArrFacts
<1>2. Act(f)
  BY <1>0, <1>1, Next1Act
<1>3. Goes(f, Tip(p))
  BY <1>0 DEF Next1
<1>4. Arr(s, fs, w) /\ Tip(s) = f
  BY <1>0, <1>2, <1>3, ArrSet, PutTip
<1>5. IsSeq(s)
  BY <1>0 DEF Put1
<1>6. Push1(s, g, r) /\ Push1(fs, h, q)
  BY <1>0, <1>1, <1>5, PushIs
<1>7. QED
  BY <1>0, <1>4, <1>6, ArrPushFrame, PushTip DEF Atop, AtopOf

\* It gets a frame on the way.
GrowReady(p, fs, w, f, s, g, h) ==
  /\ Arr(p, fs, w) /\ Next1(f, Tip(p)) /\ Gains(Tip(p), f) /\ Put1(p, f, s)
  /\ FrameOK(h) /\ Tip(fs).base <= h.base /\ FrameAt(h, w, f)
  /\ Act(g) /\ Link(f, g) /\ ~ Owns(f, g) /\ FrameAt(h, w, g)

LEMMA GrowPush ==
  ASSUME NEW p, NEW fs, NEW w, NEW f, NEW s, NEW g, NEW h, GrowReady(p, fs, w, f, s, g, h),
         NEW q, q = Append(fs, h), NEW r, r = Append(s, g)
  PROVE  AtopOf(r, q, w, g, h)
<1>0. /\ Arr(p, fs, w) /\ Next1(f, Tip(p)) /\ Gains(Tip(p), f) /\ Put1(p, f, s)
      /\ FrameOK(h) /\ Tip(fs).base <= h.base /\ FrameAt(h, w, f)
      /\ Act(g) /\ Link(f, g) /\ ~ Owns(f, g) /\ FrameAt(h, w, g)
  BY DEF GrowReady
<1>1. Act(Tip(p)) /\ IsSeq(fs)
  BY <1>0, ArrFacts
<1>2. Act(f)
  BY <1>0, <1>1, Next1Act
<1>3. Goes(f, Tip(p))
  BY <1>0 DEF Next1
<1>4. Push1(fs, h, q)
  BY <1>0, <1>1, PushIs
<1>5. Tip(q) = h
  BY <1>0, <1>4, PushTip
<1>6. Arr(s, q, w) /\ Tip(s) = f
  BY <1>0, <1>2, <1>3, <1>4, ArrGrow, PutTip
<1>7. IsSeq(s)
  BY <1>0 DEF Put1
<1>8. Push1(s, g, r)
  BY <1>0, <1>7, PushIs
<1>9. QED
  BY <1>0, <1>5, <1>6, <1>8, ArrPush, PushTip DEF Atop, AtopOf

\* The helper, or the JVM, makes a frame for a method whose arguments are at
\* optop: they are its first variables.
LEMMA VarsLaid ==
  ASSUME Laid, NEW m \in Methods, NEW c, NEW w, Lie(w, optop, JVMWords(m, c)), Fits(nlocals(m)),
         NEW h, h = NewFrame(m, nlocals(m), 0), NEW f, f.m = m, f.c = c, f.k # "comp"
  PROVE  FrameOK(h) /\ Tip(frames).base <= h.base /\ FrameAt(h, w, f)
<1>1. args_size(m) \in Nat
  BY Layouts
<1>2. PICK a, l, z : a \in Nat /\ l \in Nat /\ a = args_size(m) /\ l = nlocals(m) /\ l = a + 1 /\ z = optop
  BY <1>1 DEF nlocals
<1>3. h = NewFrame(m, l, 0)
  BY <1>2
<1>4. /\ FrameOK(h) /\ Tip(frames).base <= h.base /\ h.m = m /\ h.ebp = 0
      /\ h.vars = z /\ h.base = z + l + 1 /\ z \in Int /\ z >= 1
  BY <1>2, <1>3, NewFrameIs
<1>5. z + l + 3 <= StackWords
  BY <1>2 DEF Fits
<1>6. z + a <= h.base /\ z + a <= StackWords + 1
  BY <1>2, <1>4, <1>5, BoundAssumption
<1>7. Lie(w, h.vars, JVMWords(m, c))
  BY <1>2, <1>4
<1>8. FrameAt(h, w, f)
  BY <1>2, <1>4, <1>6, <1>7 DEF FrameAt
<1>9. QED
  BY <1>4, <1>8

\* What is read at optop are the arguments.
LEMMA ArgsRead ==
  ASSUME Laid, NEW m \in Methods, NEW c, Lie(mem, optop, JVMWords(m, c)), Fits(nlocals(m))
  PROVE  Get(optop, args_size(m)) = JVMWords(m, c)
<1>1. args_size(m) \in Nat /\ IsSeq(JVMWords(m, c)) /\ Len(JVMWords(m, c)) = args_size(m)
  BY Layouts
<1>2. PICK a, ws, z : a \in Nat /\ a = args_size(m) /\ ws = JVMWords(m, c) /\ z = optop
  BY <1>1
<1>3. IsSeq(ws) /\ a = Len(ws)
  BY <1>1, <1>2
<1>4. z \in Int
  BY <1>2, LaidTop DEF FrameOK
<1>5. z + a <= StackWords + 1
  BY <1>2, <1>4, BoundAssumption DEF Fits, nlocals
<1>6. Lie(mem, z, ws)
  BY <1>2
<1>7. Get(z, a) = ws
  BY <1>3, <1>4, <1>5, <1>6, GetWords
<1>8. QED
  BY <1>2, <1>7

LEMMA HelperNMILaid ==
  ASSUME Laid, Top.k = "helper", Top.st = "entry", Info[Top.m].kind = "nmi",
         stk' = Append(At("native"), Activation("nmi", Top.m, Top.c, NMIArgs(Top.loc, Top.m))),
         UNCHANGED <<frames, mem>>
  PROVE  Laid'
<1>1. PICK f : /\ Put1(stk, f, At("native")) /\ Next1(f, Top) /\ f.st = "native"
  BY AtIs
<1>2. PICK s : s = At("native")
  OBVIOUS
<1>3. Top = Tip(stk) /\ Act(Top) /\ Top.m \in Methods
  BY LaidTop
<1>4. f.k = "helper" /\ f.m = Top.m /\ f.c = Top.c
  BY <1>1 DEF Next1, Goes
<1>5. SameOwn(f, Tip(stk)) /\ FrameAt(Tip(frames), mem, f)
  BY <1>1, <1>3, <1>4 DEF SameOwn, Owns, FrameAt, Reader
<1>6. Arr(stk, frames, mem) /\ Words32(mem)
  BY DEF Laid
<1>7. PICK g : g = Activation("nmi", Top.m, Top.c, NMIArgs(Top.loc, Top.m))
  OBVIOUS
<1>8. /\ ActRec(g) /\ g.k = "nmi" /\ g.m = Top.m /\ g.c = Top.c /\ g.inl = << >>
      /\ g.loc = NMIArgs(Top.loc, Top.m) /\ g.st = "run"
  BY <1>7, MakeActIs
<1>9. NMIArgs(Top.loc, Top.m) = CArgs(Top.m, Top.c, "nmi")
  <2>1. Top.loc = NativeWords(Top.m, Top.c)
    BY <1>3 DEF Act, Given
  <2>2. QED
    BY <1>3, <2>1, CLayout
<1>10. Act(g)
  <2>1. Given(g)
    BY <1>8, <1>9 DEF Given
  <2>2. QED
    BY <1>3, <1>8, <2>1, NewAct
<1>11. Link(f, g)
  BY <1>1, <1>4, <1>8 DEF Link
<1>12. ~ Owns(f, g) /\ FrameAt(Tip(frames), mem, g) /\ Quiet(g)
  BY <1>8 DEF Owns, FrameAt, Reader, Quiet
<1>13. PICK r : r = Append(s, g)
  OBVIOUS
<1>14. Put1(stk, f, s) /\ Next1(f, Tip(stk))
  BY <1>1, <1>2, <1>3
<1>18. SetReady(stk, frames, mem, f, s, g)
  BY <1>5, <1>6, <1>10, <1>11, <1>12, <1>14 DEF SetReady, Goes1
<1>19. Atop(r, frames, mem, g)
  BY <1>13, <1>18, SetPush
<1>15. Arr(r, frames, mem) /\ Tip(r) = g
  BY <1>19 DEF Atop
<1>16. stk' = r
  BY <1>2, <1>7, <1>13
<1>17. QED
  BY <1>6, <1>12, <1>15, <1>16, LaidQuiet

Passing(f) == Put1(stk, f, stk') /\ Next1(f, Top) /\ f.st = "invoke"

LEMMA ViaInvokerIs ==
  ASSUME Laid, ViaInvoker
  PROVE  \E f : Passing(f)
<1>1. PICK x, y : x = "invoke" /\ y = invoker[Top.m]
  OBVIOUS
<1>2. /\ ActRec(Top) /\ Top = stk[Len(stk)] /\ IsSeq(stk) /\ Len(stk) \in Nat
      /\ Len(stk) >= 1 /\ stk # << >> /\ Top = Tip(stk) /\ Act(Top) /\ Top.m \in Methods
  BY LaidTop DEF Tip
<1>3. PICK g : g = [Top EXCEPT !.st = x]
  OBVIOUS
<1>4. PICK f : f = [g EXCEPT !.inv = y]
  OBVIOUS
<1>5. /\ ActRec(g) /\ g.k = Top.k /\ g.m = Top.m /\ g.c = Top.c /\ g.loc = Top.loc
      /\ g.inl = Top.inl /\ g.st = x
  BY <1>2, <1>3 DEF ActRec, ActFields
<1>6. /\ ActRec(f) /\ f.k = Top.k /\ f.m = Top.m /\ f.c = Top.c /\ f.loc = Top.loc
      /\ f.inl = Top.inl /\ f.st = x
  BY <1>4, <1>5 DEF ActRec, ActFields
<1>7. PICK s : s = [stk EXCEPT ![Len(stk)] = g]
  OBVIOUS
<1>8. Len(stk) \in DOMAIN stk
  BY <1>2, SeqFacts
<1>9. s[Len(stk)] = g
  BY <1>7, <1>8
<1>10. stk' = [s EXCEPT ![Len(stk)].inv = y]
  BY <1>1, <1>2, <1>3, <1>7, <1>8 DEF ViaInvoker
<1>11. [s EXCEPT ![Len(stk)].inv = y] = [s EXCEPT ![Len(stk)] = f]
  BY <1>4, <1>9
<1>12. [s EXCEPT ![Len(stk)] = f] = [stk EXCEPT ![Len(stk)] = f]
  BY <1>7
<1>13. PICK r : r = [stk EXCEPT ![Len(stk)] = f]
  OBVIOUS
<1>14. stk' = r
  BY <1>10, <1>11, <1>12, <1>13
<1>15. Put1(stk, f, r)
  BY <1>2, <1>13, PutIs
<1>16. Next1(f, Top)
  BY <1>6 DEF Next1, Goes
<1>17. QED
  BY <1>1, <1>6, <1>14, <1>15, <1>16 DEF Passing

LEMMA ViaInvokerLaid ==
  ASSUME Laid, Top.k = "helper", Top.st = "entry", ViaInvoker
  PROVE  Laid'
<1>2. Top = Tip(stk) /\ Act(Top) /\ Top.m \in Methods
  BY LaidTop
<1>3. PICK f : Passing(f)
  BY ViaInvokerIs
<1>4. PICK r : r = stk'
  OBVIOUS
<1>15. Put1(stk, f, r) /\ Next1(f, Top) /\ f.st = "invoke"
  BY <1>3, <1>4 DEF Passing
<1>16. f.k = Top.k /\ f.m = Top.m /\ f.c = Top.c
  BY <1>15 DEF Next1, Goes
<1>17. Act(f) /\ Goes(f, Tip(stk))
  BY <1>2, <1>15, Next1Act DEF Next1
<1>18. SameOwn(f, Tip(stk)) /\ FrameAt(Tip(frames), mem, f)
  BY <1>2, <1>15, <1>16 DEF SameOwn, Owns, FrameAt, Reader
<1>19. Arr(stk, frames, mem) /\ Words32(mem)
  BY DEF Laid
<1>20. Arr(r, frames, mem) /\ Tip(r) = f
  BY <1>15, <1>17, <1>18, <1>19, ArrSet, PutTip
<1>21. ToJVM(Top.loc, Top.m) = JVMWords(Top.m, Top.c)
  <2>1. Top.loc = NativeWords(Top.m, Top.c)
    BY <1>2 DEF Act, Given
  <2>2. QED
    BY <1>2, <2>1, Layouts
<1>22. PICK ws, z, u : ws = JVMWords(Top.m, Top.c) /\ z = optop /\ u = Put(mem, z, ws)
  OBVIOUS
<1>23. IsSeq(ws)
  BY <1>2, <1>22, Layouts
<1>24. z \in Int /\ z >= 1 /\ Tip(frames).base <= z /\ z = Tip(frames).optop
  BY <1>22, LaidTop DEF FrameOK
<1>25. Words32(u) /\ Lie(u, z, ws) /\ \A i \in 1 .. StackWords : i < z => u[i] = mem[i]
  BY <1>19, <1>22, <1>23, <1>24, PutWords
<1>26. Arr(r, frames, u)
  BY <1>20, <1>24, <1>25, SetWords
<1>27. Lie(u, Tip(frames).optop, JVMWords(f.m, f.c))
  BY <1>16, <1>22, <1>24, <1>25
<1>28. Spot(f, frames, u, ok, build)
  BY <1>15, <1>16, <1>27 DEF Spot, Waits, Compiling, Answered, Ran, Framed
<1>29. mem' = u /\ frames' = frames /\ ok' = ok /\ build' = build
  BY <1>21, <1>22 DEF ViaInvoker
<1>30. QED
  BY <1>4, <1>20, <1>25, <1>26, <1>28, <1>29, LaidBy

LEMMA HelperEntryLaid ==
  ASSUME Laid, HelperEntry
  PROVE  Laid'
<1>1. Top.k = "helper" /\ Top.st = "entry"
  BY DEF HelperEntry, Running
<1>2. CASE Overflow
  BY <1>1, <1>2, OverflowLaid
<1>3. CASE ViaInvoker
  BY <1>1, <1>3, ViaInvokerLaid
<1>4. CASE HelperJNI /\ ~ Overflow
  BY <1>1, <1>4, HelperJNILaid DEF HelperJNI
<1>5. CASE HelperNMI /\ ~ ViaInvoker
  BY <1>1, <1>5, HelperNMILaid DEF HelperNMI
<1>6. QED
  BY <1>2, <1>3, <1>4, <1>5 DEF HelperEntry, HelperJava

\* A result is popped off the frame of the caller.
LEMMA FinishLaid ==
  ASSUME Laid, Top.k = "helper", NEW r, r = Front(stk), NEW fs, NEW w, Arr(r, fs, w), Words32(w),
         Room(Tip(fs), ret_size(Top.m)), HelperFinish(fs, w)
  PROVE  Laid'
<1>1. Len(stk) > 1 /\ Top.m \in Methods
  BY LaidTop
<1>2. Link(Tip(r), Top)
  BY <1>1, BelowIs
<1>3. Quiet(Tip(r))
  BY <1>2, UnderHelper
<1>4. PICK o : o = Tip(fs).optop - ret_size(Top.m)
  OBVIOUS
<1>5. FrameOK(Tip(fs))
  BY ArrFacts
<1>6. ret_size(Top.m) \in Nat
  BY <1>1, RetSize
<1>7. o \in Int /\ Tip(fs).base <= o
  BY <1>4, <1>5, <1>6 DEF FrameOK, Room
<1>8. PICK q : q = [fs EXCEPT ![Len(fs)].optop = o]
  OBVIOUS
<1>20. Moved(r, fs, w, o)
  BY <1>7 DEF Moved
<1>21. Shifted(r, fs, q, w, o)
  BY <1>8, <1>20, SetOptop
<1>9. Arr(r, q, w) /\ Tip(q).base = Tip(fs).base
  BY <1>21 DEF Shifted
<1>10. PICK u : u = Scrap(w, o)
  OBVIOUS
<1>11. Words32(u) /\ \A x \in 1 .. StackWords : x < o => u[x] = w[x]
  BY <1>7, <1>10, ScrapWords
<1>12. Arr(r, q, u)
  BY <1>7, <1>9, <1>11, SetWords
<1>13. stk' = r /\ frames' = q /\ mem' = u
  BY <1>4, <1>8, <1>10 DEF HelperFinish, HelperReturn, Tip
<1>14. QED
  BY <1>3, <1>11, <1>12, <1>13, LaidQuiet

LEMMA HelperNativeLaid ==
  ASSUME Laid, HelperNative
  PROVE  Laid'
<1>1. Top.k = "helper" /\ Top.st = "native"
  BY DEF HelperNative, Running
<1>2. Len(stk) > 1 /\ Top.m \in Methods /\ IsSeq(frames) /\ frames # << >>
  BY <1>1, LaidTop
<1>3. PICK r, fs : r = Front(stk) /\ fs = IF Info[Top.m].kind = "jni" THEN Front(frames) ELSE frames
  OBVIOUS
<1>4. Pop1(stk, r) /\ Link(Tip(r), Top) /\ Top = Tip(stk)
  BY <1>2, <1>3, BelowIs
<1>5. Arr(stk, frames, mem) /\ Words32(mem)
  BY DEF Laid
<1>6. Arr(r, fs, mem)
  <2>1. CASE Info[Top.m].kind = "jni"
    <3>1. Owns(Tip(r), Tip(stk))
      BY <1>1, <1>4, <2>1 DEF Owns
    <3>2. Pop1(frames, fs)
      BY <1>2, <1>3, <2>1, PopIs
    <3>3. QED
      BY <1>2, <1>4, <1>5, <3>1, <3>2, ArrPopFrame
  <2>2. CASE Info[Top.m].kind # "jni"
    <3>1. ~ Owns(Tip(r), Tip(stk))
      BY <1>1, <1>4, <2>2 DEF Owns
    <3>2. fs = frames
      BY <1>3, <2>2
    <3>3. QED
      BY <1>2, <1>4, <1>5, <3>1, <3>2, ArrPop
  <2>3. QED
    BY <2>1, <2>2
<1>7. Quiet(Tip(r))
  BY <1>1, <1>4, UnderHelper
<1>8. CASE exc
  <2>1. stk' = r /\ frames' = fs /\ mem' = mem
    BY <1>3, <1>8 DEF HelperNative, HelperReturn
  <2>2. QED
    BY <1>5, <1>6, <1>7, <2>1, LaidQuiet
<1>9. CASE ~ exc
  <2>1. ret_size(Top.m) \in Nat
    BY <1>2, RetSize
  <2>2. PICK z, o : z = Tip(fs).optop /\ o = z + ret_size(Top.m)
    OBVIOUS
  <2>3. FrameOK(Tip(fs))
    BY <1>6, ArrFacts
  <2>4. z \in Int /\ o \in Int /\ Tip(fs).base <= z /\ Tip(fs).base <= o
    BY <2>1, <2>2, <2>3 DEF FrameOK
  <2>5. PICK u : u = Put(mem, z, NativeResult(Top.m))
    OBVIOUS
  <2>6. Words32(u) /\ \A x \in 1 .. StackWords : x < z => u[x] = mem[x]
    BY <1>5, <2>4, <2>5, PutBelow
  <2>7. Arr(r, fs, u)
    BY <1>6, <2>4, <2>6, SetWords
  <2>8. PICK q : q = [fs EXCEPT ![Len(fs)].optop = o]
    OBVIOUS
  <2>13. Moved(r, fs, u, o)
    BY <2>4, <2>7 DEF Moved
  <2>14. Shifted(r, fs, q, u, o)
    BY <2>8, <2>13, SetOptop
  <2>9. Arr(r, q, u) /\ Tip(q).optop = o /\ Tip(q).base = Tip(fs).base
    BY <2>14 DEF Shifted
  <2>10. Room(Tip(q), ret_size(Top.m))
    BY <2>1, <2>2, <2>3, <2>4, <2>9 DEF Room, FrameOK
  <2>11. HelperFinish(q, u)
    BY <1>3, <1>9, <2>2, <2>5, <2>8 DEF HelperNative, Tip
  <2>12. QED
    BY <1>1, <1>3, <2>6, <2>9, <2>10, <2>11, FinishLaid
<1>10. QED
  BY <1>8, <1>9

\* The helper calls the invoker.
LEMMA HelperPassLaid ==
  ASSUME Laid, Top.k = "helper", Top.st = "invoke", Top.inv \in {"candi", "jit"},
         stk' = Append(At("invoked"), Activation(Top.inv, Top.m, Top.c, Top.loc)),
         UNCHANGED <<frames, mem, ok, build>>
  PROVE  Laid'
<1>1. PICK f : /\ Put1(stk, f, At("invoked")) /\ Next1(f, Top) /\ f.st = "invoked"
               /\ f.inv = Top.inv
  BY AtIs
<1>2. PICK s : s = At("invoked")
  OBVIOUS
<1>3. Top = Tip(stk) /\ Act(Top) /\ Top.m \in Methods /\ optop = Tip(frames).optop
  BY LaidTop
<1>4. f.k = "helper" /\ f.m = Top.m /\ f.c = Top.c
  BY <1>1 DEF Next1, Goes
<1>5. SameOwn(f, Tip(stk)) /\ FrameAt(Tip(frames), mem, f)
  BY <1>1, <1>3, <1>4 DEF SameOwn, Owns, FrameAt, Reader
<1>6. Arr(stk, frames, mem) /\ Words32(mem) /\ Spot(Tip(stk), frames, mem, ok, build)
  BY DEF Laid
<1>7. PICK g : g = Activation(Top.inv, Top.m, Top.c, Top.loc)
  OBVIOUS
<1>8. /\ ActRec(g) /\ g.k = Top.inv /\ g.m = Top.m /\ g.c = Top.c /\ g.inl = << >> /\ g.st = "entry"
  BY <1>7, MakeActIs
<1>9. Act(g)
  <2>1. Given(g)
    BY <1>8 DEF Given
  <2>2. QED
    BY <1>3, <1>8, <2>1, NewAct
<1>10. Link(f, g)
  BY <1>1, <1>4, <1>8 DEF Link
<1>11. ~ Owns(f, g) /\ FrameAt(Tip(frames), mem, g)
  BY <1>8 DEF Owns, FrameAt, Reader
<1>12. Spot(g, frames, mem, ok, build)
  <2>1. Lie(mem, Tip(frames).optop, JVMWords(Top.m, Top.c))
    BY <1>3, <1>6 DEF Spot, Waits
  <2>2. QED
    BY <1>8, <2>1 DEF Spot, Waits, Compiling, Answered, Ran, Framed
<1>13. PICK r : r = Append(s, g)
  OBVIOUS
<1>14. Put1(stk, f, s) /\ Next1(f, Tip(stk))
  BY <1>1, <1>2, <1>3
<1>15. SetReady(stk, frames, mem, f, s, g)
  BY <1>5, <1>6, <1>9, <1>10, <1>11, <1>14 DEF SetReady, Goes1
<1>16. Atop(r, frames, mem, g)
  BY <1>13, <1>15, SetPush
<1>17. Arr(r, frames, mem) /\ Tip(r) = g
  BY <1>16 DEF Atop
<1>18. stk' = r /\ frames' = frames /\ mem' = mem /\ ok' = ok /\ build' = build
  BY <1>2, <1>7, <1>13
<1>19. QED
  BY <1>6, <1>12, <1>17, <1>18, LaidBy

LEMMA HelperNativeFrameLaid ==
  ASSUME Laid, Top.k = "helper", Top.st = "invoke", Top.inv = "native",
         Fits(nlocals(Top.m)), frames' = Append(frames, NewFrame(Top.m, nlocals(Top.m), 0)),
         stk' = Append(At("invoked"),
                       Activation("native", Top.m, Top.c, Get(optop, args_size(Top.m)))),
         mem' = mem
  PROVE  Laid'
<1>1. PICK f : /\ Put1(stk, f, At("invoked")) /\ Next1(f, Top) /\ f.st = "invoked"
               /\ f.inv = Top.inv
  BY AtIs
<1>2. PICK s : s = At("invoked")
  OBVIOUS
<1>3. Top = Tip(stk) /\ Act(Top) /\ Top.m \in Methods /\ optop = Tip(frames).optop
  BY LaidTop
<1>4. f.k = "helper" /\ f.m = Top.m /\ f.c = Top.c
  BY <1>1 DEF Next1, Goes
<1>5. SameOwn(f, Tip(stk)) /\ FrameAt(Tip(frames), mem, f)
  BY <1>1, <1>3, <1>4 DEF SameOwn, Owns, FrameAt, Reader
<1>6. Arr(stk, frames, mem) /\ Words32(mem) /\ Spot(Tip(stk), frames, mem, ok, build)
  BY DEF Laid
<1>7. Lie(mem, optop, JVMWords(Top.m, Top.c))
  BY <1>3, <1>6 DEF Spot, Waits
<1>8. Get(optop, args_size(Top.m)) = JVMWords(Top.m, Top.c)
  BY <1>3, <1>7, ArgsRead
<1>9. PICK g : g = Activation("native", Top.m, Top.c, JVMWords(Top.m, Top.c))
  OBVIOUS
<1>10. /\ ActRec(g) /\ g.k = "native" /\ g.m = Top.m /\ g.c = Top.c /\ g.inl = << >>
       /\ g.st = "run" /\ g.loc = JVMWords(Top.m, Top.c)
  BY <1>9, MakeActIs
<1>11. Act(g)
  <2>1. Given(g)
    BY <1>10 DEF Given
  <2>2. QED
    BY <1>3, <1>10, <2>1, NewAct
<1>12. Link(f, g) /\ Owns(f, g) /\ Quiet(g)
  BY <1>1, <1>4, <1>10 DEF Link, Owns, Quiet
<1>13. PICK h : h = NewFrame(Top.m, nlocals(Top.m), 0)
  OBVIOUS
<1>14. FrameOK(h) /\ Tip(frames).base <= h.base /\ FrameAt(h, mem, g)
  BY <1>3, <1>7, <1>10, <1>13, VarsLaid
<1>15. PICK q, r : q = Append(frames, h) /\ r = Append(s, g)
  OBVIOUS
<1>16. Put1(stk, f, s) /\ Next1(f, Tip(stk))
  BY <1>1, <1>2, <1>3
<1>17. FrameReady(stk, frames, mem, f, s, g, h)
  BY <1>5, <1>6, <1>11, <1>12, <1>14, <1>16 DEF FrameReady, Goes1
<1>18. Atop(r, q, mem, g)
  BY <1>15, <1>17, SetPushFrame
<1>19. Arr(r, q, mem) /\ Tip(r) = g
  BY <1>18 DEF Atop
<1>20. stk' = r /\ frames' = q
  BY <1>2, <1>8, <1>9, <1>13, <1>15
<1>21. QED
  BY <1>6, <1>12, <1>19, <1>20, LaidQuiet

\* invokeJavaMethod() only makes the frame.
LEMMA HelperFrameLaid ==
  ASSUME Laid, Top.k = "helper", Top.st = "invoke", Top.inv = "java",
         Fits(nlocals(Top.m)), frames' = Append(frames, NewFrame(Top.m, nlocals(Top.m), 0)),
         stk' = At("invoked"), mem' = mem,
         ok' = TRUE, build' = build
  PROVE  Laid'
<1>1. PICK f : /\ Put1(stk, f, At("invoked")) /\ Next1(f, Top) /\ f.st = "invoked"
               /\ f.inv = Top.inv /\ Act(f)
  BY AtIs
<1>2. PICK s : s = At("invoked")
  OBVIOUS
<1>3. /\ Top = Tip(stk) /\ Act(Top) /\ Top.m \in Methods /\ optop = Tip(frames).optop
      /\ IsSeq(frames)
  BY LaidTop
<1>4. f.k = "helper" /\ f.m = Top.m /\ f.c = Top.c /\ Goes(f, Tip(stk))
  BY <1>1, <1>3 DEF Next1, Goes
<1>5. Gains(Tip(stk), f)
  BY <1>1, <1>3, <1>4 DEF Gains, Owns
<1>6. Arr(stk, frames, mem) /\ Words32(mem) /\ Spot(Tip(stk), frames, mem, ok, build)
  BY DEF Laid
<1>7. Lie(mem, optop, JVMWords(Top.m, Top.c))
  BY <1>3, <1>6 DEF Spot, Waits
<1>8. PICK h : h = NewFrame(Top.m, nlocals(Top.m), 0)
  OBVIOUS
<1>9. FrameOK(h) /\ Tip(frames).base <= h.base /\ FrameAt(h, mem, f)
  BY <1>3, <1>4, <1>7, <1>8, VarsLaid
<1>10. PICK q : q = Append(frames, h)
  OBVIOUS
<1>11. Push1(frames, h, q)
  BY <1>3, <1>10, PushIs
<1>12. Put1(stk, f, s)
  BY <1>1, <1>2
<1>13. Arr(s, q, mem)
  BY <1>1, <1>4, <1>5, <1>6, <1>9, <1>11, <1>12, ArrGrow
<1>14. Tip(s) = f
  BY <1>12, PutTip
<1>15. stk' = s /\ frames' = q
  BY <1>2, <1>8, <1>10
<1>16. Spot(f, q, mem, TRUE, build)
  BY <1>1, <1>4 DEF Spot, Waits, Compiling, Answered, Ran, Framed
<1>17. QED
  BY <1>6, <1>13, <1>14, <1>15, <1>16, LaidBy

LEMMA HelperInvokeLaid ==
  ASSUME Laid, HelperInvoke
  PROVE  Laid'
<1>1. Top.k = "helper" /\ Top.st = "invoke"
  BY DEF HelperInvoke, Running
<1>2. CASE Overflow
  BY <1>1, <1>2, OverflowLaid
<1>3. CASE /\ Top.inv \in {"candi", "jit"}
           /\ stk' = Append(At("invoked"), Activation(Top.inv, Top.m, Top.c, Top.loc))
           /\ UNCHANGED <<frames, mem, ok, build>>
  BY <1>1, <1>3, HelperPassLaid
<1>4. CASE /\ Top.inv = "native" /\ JVMFrame(Top.m)
           /\ stk' = Append(At("invoked"),
                            Activation("native", Top.m, Top.c, Get(optop, args_size(Top.m))))
           /\ UNCHANGED mem
  BY <1>1, <1>4, HelperNativeFrameLaid DEF JVMFrame
<1>5. CASE /\ Top.inv = "java" /\ JVMFrame(Top.m) /\ stk' = At("invoked") /\ ok' = TRUE
           /\ UNCHANGED <<mem, build>>
  BY <1>1, <1>5, HelperFrameLaid DEF JVMFrame
<1>6. QED
  BY <1>2, <1>3, <1>4, <1>5 DEF HelperInvoke

\* The helper has the interpreter run the method in the frame.
LEMMA HelperRunLaid ==
  ASSUME Laid, Top.k = "helper", Top.st = "invoked", Top.inv = "java",
         stk' = Append(At("executed"),
                       Activation("interp", Top.m, Top.c,
                                  Get(frames[Cur].vars, args_size(Top.m)))),
         UNCHANGED <<frames, mem>>
  PROVE  Laid'
<1>1. PICK f : /\ Put1(stk, f, At("executed")) /\ Next1(f, Top) /\ f.st = "executed"
               /\ f.inv = Top.inv
  BY AtIs
<1>2. PICK s : s = At("executed")
  OBVIOUS
<1>3. /\ Top = Tip(stk) /\ Act(Top) /\ Top.m \in Methods /\ FrameAt(Tip(frames), mem, Top)
      /\ Tip(frames) = frames[Cur]
  BY LaidTop
<1>4. f.k = "helper" /\ f.m = Top.m /\ f.c = Top.c
  BY <1>1 DEF Next1, Goes
<1>5. SameOwn(f, Tip(stk)) /\ FrameAt(Tip(frames), mem, f)
  BY <1>1, <1>3, <1>4 DEF SameOwn, Owns, FrameAt, Reader
<1>6. Arr(stk, frames, mem) /\ Words32(mem)
  BY DEF Laid
<1>7. PICK h, ws, a : h = Tip(frames) /\ ws = JVMWords(Top.m, Top.c) /\ a = args_size(Top.m)
  OBVIOUS
<1>8. /\ h.m = Top.m /\ h.ebp = 0 /\ h.vars \in Int /\ h.vars >= 1 /\ h.vars + a <= h.base
      /\ h.vars + a <= StackWords + 1 /\ Lie(mem, h.vars, ws)
  BY <1>3, <1>7 DEF FrameAt, Reader
<1>9. IsSeq(ws) /\ Len(ws) = a /\ a \in Nat
  BY <1>3, <1>7, Layouts
<1>10. PICK v \in Int : v = h.vars
  BY <1>8
<1>11. Lie(mem, v, ws) /\ v + a <= StackWords + 1
  BY <1>8, <1>10
<1>12. Get(v, a) = ws
  BY <1>9, <1>11, GetWords
<1>13. Get(frames[Cur].vars, args_size(Top.m)) = ws
  BY <1>3, <1>7, <1>10, <1>12
<1>14. PICK g : g = Activation("interp", Top.m, Top.c, ws)
  OBVIOUS
<1>15. /\ ActRec(g) /\ g.k = "interp" /\ g.m = Top.m /\ g.c = Top.c /\ g.inl = << >>
       /\ g.st = "run" /\ g.loc = JVMWords(Top.m, Top.c)
  BY <1>7, <1>14, MakeActIs
<1>16. Act(g)
  <2>1. Given(g)
    BY <1>15 DEF Given
  <2>2. QED
    BY <1>3, <1>15, <2>1, NewAct
<1>17. Link(f, g) /\ ~ Owns(f, g) /\ Quiet(g)
  BY <1>1, <1>4, <1>15 DEF Link, Owns, Quiet
<1>18. FrameAt(Tip(frames), mem, g)
  BY <1>3, <1>15 DEF FrameAt, Reader
<1>19. Put1(stk, f, s) /\ Next1(f, Tip(stk))
  BY <1>1, <1>2, <1>3
<1>20. SetReady(stk, frames, mem, f, s, g)
  BY <1>5, <1>6, <1>16, <1>17, <1>18, <1>19 DEF SetReady, Goes1
<1>21. PICK r : r = Append(s, g)
  OBVIOUS
<1>22. Atop(r, frames, mem, g)
  BY <1>20, <1>21, SetPush
<1>23. Arr(r, frames, mem) /\ Tip(r) = g
  BY <1>22 DEF Atop
<1>24. stk' = r
  BY <1>2, <1>13, <1>14, <1>21
<1>25. QED
  BY <1>6, <1>17, <1>23, <1>24, LaidQuiet

LEMMA HelperInvokedLaid ==
  ASSUME Laid, HelperInvoked
  PROVE  Laid'
<1>1. Top.k = "helper" /\ Top.st = "invoked"
  BY DEF HelperInvoked, Running
<1>2. Len(stk) > 1 /\ Top.m \in Methods
  BY <1>1, LaidTop
<1>3. PICK r : r = Front(stk)
  OBVIOUS
<1>4. Pop1(stk, r) /\ Link(Tip(r), Top) /\ Top = Tip(stk)
  BY <1>2, <1>3, BelowIs
<1>5. Arr(stk, frames, mem) /\ Words32(mem) /\ Spot(Tip(stk), frames, mem, ok, build)
  BY DEF Laid
<1>6. Quiet(Tip(r))
  BY <1>1, <1>4, UnderHelper
<1>7. ASSUME Top.inv # "java" PROVE Arr(r, frames, mem)
  <2>1. ~ Owns(Tip(r), Tip(stk))
    BY <1>1, <1>4, <1>7 DEF Owns
  <2>2. QED
    BY <1>2, <1>4, <1>5, <2>1, ArrPop
<1>8. CASE ~ ok
  <2>1. stk' = r /\ frames' = frames /\ mem' = mem
    BY <1>3, <1>8 DEF HelperInvoked, HelperReturn
  <2>2. Top.inv # "java"
    BY <1>1, <1>4, <1>5, <1>8 DEF Spot, Framed
  <2>3. Arr(r, frames, mem)
    BY <1>7, <2>2
  <2>4. QED
    BY <1>5, <1>6, <2>1, <2>3, LaidQuiet
<1>9. CASE ok /\ Top.inv # "java"
  <2>1. HelperFinish(frames, mem)
    BY <1>9 DEF HelperInvoked, InvokedJava
  <2>2. Answered(Top)
    BY <1>1, <1>9 DEF Answered
  <2>3. Room(Tip(frames), ret_size(Top.m))
    BY <1>4, <1>5, <1>9, <2>2 DEF Spot
  <2>4. Arr(r, frames, mem)
    BY <1>7, <1>9
  <2>5. QED
    BY <1>1, <1>3, <1>5, <2>1, <2>3, <2>4, FinishLaid
<1>10. CASE ok /\ Top.inv = "java"
  <2>1. /\ stk' = Append(At("executed"),
                         Activation("interp", Top.m, Top.c,
                                    Get(frames[Cur].vars, args_size(Top.m))))
        /\ UNCHANGED <<frames, mem>>
    BY <1>10 DEF HelperInvoked, InvokedJava
  <2>2. QED
    BY <1>1, <1>10, <2>1, HelperRunLaid
<1>11. QED
  BY <1>8, <1>9, <1>10

-----------------------------------------------------------------------------
(* What pExecuteJava() leaves; compileAndInvokeMethod().                   *)

\* pExecuteJava() has returned a result: its frame is dropped.
LEMMA ExecutedArr ==
  ASSUME Laid, Ran(Top), ok, NEW r, r = Front(stk),
         NEW q, q = Executed(Top.m).fs, NEW u, u = Executed(Top.m).words
  PROVE  Arr(r, q, u) /\ Words32(u) /\ Room(Tip(q), ret_size(Top.m))
<1>1. /\ Len(stk) > 1 /\ Top.m \in Methods /\ IsSeq(frames) /\ frames # << >>
      /\ Len(frames) \in Nat
  BY LaidTop DEF Ran
<1>2. Pop1(stk, r) /\ Link(Tip(r), Top) /\ Top = Tip(stk)
  BY <1>1, BelowIs
<1>3. Arr(stk, frames, mem) /\ Words32(mem) /\ Spot(Tip(stk), frames, mem, ok, build)
  BY DEF Laid
<1>4. Owns(Tip(r), Tip(stk))
  BY <1>2 DEF Owns, Ran
<1>5. PICK fs : fs = Front(frames)
  OBVIOUS
<1>6. Pop1(frames, fs)
  BY <1>1, <1>5, PopIs
<1>7. Arr(r, fs, mem)
  BY <1>1, <1>2, <1>3, <1>4, <1>6, ArrPopFrame
<1>8. ret_size(Top.m) \in Nat
  BY <1>1, RetSize
<1>9. CASE build.asm
  <2>1. PICK z, o : z = Tip(fs).optop /\ o = z + ret_size(Top.m)
    OBVIOUS
  <2>2. FrameOK(Tip(fs))
    BY <1>7, ArrFacts
  <2>3. z \in Int /\ o \in Int /\ Tip(fs).base <= z /\ Tip(fs).base <= o
    BY <1>8, <2>1, <2>2 DEF FrameOK
  <2>4. PICK ws : ws = Get(optop - ret_size(Top.m), ret_size(Top.m))
    OBVIOUS
  <2>5. q = [fs EXCEPT ![Len(fs)].optop = o] /\ u = Put(mem, z, ws)
    BY <1>5, <1>9, <2>1, <2>4 DEF Executed, Tip
  <2>6. Words32(u) /\ \A x \in 1 .. StackWords : x < z => u[x] = mem[x]
    BY <1>3, <2>3, <2>5, PutBelow
  <2>7. Arr(r, fs, u)
    BY <1>7, <2>3, <2>6, SetWords
  <2>8. Moved(r, fs, u, o)
    BY <2>3, <2>7 DEF Moved
  <2>9. Shifted(r, fs, q, u, o)
    BY <2>5, <2>8, SetOptop
  <2>10. Arr(r, q, u) /\ Tip(q).optop = o /\ Tip(q).base = Tip(fs).base
    BY <2>9 DEF Shifted
  <2>11. Room(Tip(q), ret_size(Top.m))
    BY <1>8, <2>1, <2>2, <2>3, <2>10 DEF Room, FrameOK
  <2>12. QED
    BY <2>6, <2>10, <2>11
<1>10. CASE ~ build.asm
  <2>1. q = fs /\ u = mem
    BY <1>5, <1>10 DEF Executed
  <2>2. Len(fs) = Len(frames) - 1
    BY <1>6 DEF Pop1
  <2>3. Room(frames[Len(frames) - 1], ret_size(Top.m))
    BY <1>2, <1>3, <1>10 DEF Spot
  <2>4. PICK n : n = Len(fs)
    OBVIOUS
  <2>5. n \in Nat /\ n >= 1
    BY <1>7, <2>4, ArrFacts
  <2>6. fs[n] = frames[n]
    BY <1>6, <2>4, <2>5 DEF Pop1
  <2>7. Tip(fs) = frames[Len(frames) - 1]
    BY <2>2, <2>4, <2>6 DEF Tip
  <2>8. QED
    BY <1>3, <1>7, <2>1, <2>3, <2>7
<1>11. QED
  BY <1>9, <1>10

\* The callee's frame is dropped without a result.
LEMMA DroppedArr ==
  ASSUME Laid, Ran(Top), NEW r, r = Front(stk), NEW q, q = Front(frames)
  PROVE  Arr(r, q, mem) /\ Words32(mem)
<1>1. /\ Len(stk) > 1 /\ IsSeq(frames) /\ frames # << >>
  BY LaidTop DEF Ran
<1>2. Pop1(stk, r) /\ Top = Tip(stk)
  BY <1>1, BelowIs
<1>3. Arr(stk, frames, mem) /\ Words32(mem)
  BY DEF Laid
<1>4. Owns(Tip(r), Tip(stk))
  BY <1>2 DEF Owns, Ran
<1>5. Pop1(frames, q)
  BY <1>1, PopIs
<1>6. QED
  BY <1>1, <1>2, <1>3, <1>4, <1>5, ArrPopFrame

LEMMA HelperExecutedLaid ==
  ASSUME Laid, HelperExecuted
  PROVE  Laid'
<1>1. Top.k = "helper" /\ Top.st = "executed"
  BY DEF HelperExecuted, Running
<1>2. Ran(Top) /\ Len(stk) > 1
  BY <1>1, LaidTop DEF Ran
<1>3. PICK r : r = Front(stk)
  OBVIOUS
<1>4. Link(Tip(r), Top)
  BY <1>2, <1>3, BelowIs
<1>5. Quiet(Tip(r))
  BY <1>1, <1>4, UnderHelper
<1>6. CASE ok
  <2>1. PICK q, u : q = Executed(Top.m).fs /\ u = Executed(Top.m).words
    OBVIOUS
  <2>2. Arr(r, q, u) /\ Words32(u) /\ Room(Tip(q), ret_size(Top.m))
    BY <1>2, <1>3, <1>6, <2>1, ExecutedArr
  <2>3. HelperFinish(q, u)
    BY <1>6, <2>1 DEF HelperExecuted
  <2>4. QED
    BY <1>1, <1>3, <2>2, <2>3, FinishLaid
<1>7. CASE ~ ok
  <2>1. PICK q : q = Front(frames)
    OBVIOUS
  <2>2. Arr(r, q, mem) /\ Words32(mem)
    BY <1>2, <1>3, <2>1, DroppedArr
  <2>3. stk' = r /\ frames' = q /\ mem' = mem
    BY <1>3, <1>7, <2>1 DEF HelperExecuted, HelperReturn
  <2>4. QED
    BY <1>5, <2>2, <2>3, LaidQuiet
<1>8. QED
  BY <1>6, <1>7

-----------------------------------------------------------------------------
(* The invokers.                                                           *)

\* An invoker goes from one state to another in which the arguments are at
\* optop.
LEMMA CandiSteps ==
  ASSUME Laid, Top.k = "candi", Top.st \in {"entry", "compiling"},
         NEW st, st \in {"compiled", "normal", "compiling"}, stk' = At(st),
         NEW fs, NEW w, Arr(stk, fs, w), Words32(w), FrameAt(Tip(fs), w, Top),
         st # "compiling" => Lie(w, Tip(fs).optop, JVMWords(Top.m, Top.c)),
         st = "compiling" => /\ Lie(w, Tip(fs).optop - args_size(Top.m), JVMWords(Top.m, Top.c))
                             /\ Room(Tip(fs), args_size(Top.m)),
         frames' = fs, mem' = w
  PROVE  Laid'
<1>1. PICK f : Put1(stk, f, At(st)) /\ Next1(f, Top) /\ f.st = st /\ Act(f)
  BY AtIs
<1>2. PICK s : s = At(st)
  OBVIOUS
<1>3. Top = Tip(stk)
  BY LaidTop
<1>4. f.k = "candi" /\ f.m = Top.m /\ f.c = Top.c /\ Goes(f, Tip(stk))
  BY <1>1, <1>3 DEF Next1, Goes
<1>5. SameOwn(f, Tip(stk)) /\ FrameAt(Tip(fs), w, f)
  BY <1>1, <1>3, <1>4 DEF SameOwn, Owns, FrameAt, Reader
<1>6. Put1(stk, f, s)
  BY <1>1, <1>2
<1>7. Arr(s, fs, w) /\ Tip(s) = f
  BY <1>1, <1>4, <1>5, <1>6, ArrSet, PutTip
<1>8. Spot(f, fs, w, ok', build')
  BY <1>1, <1>4 DEF Spot, Waits, Compiling, Answered, Ran, Framed
<1>9. stk' = s
  BY <1>2
<1>10. QED
  BY <1>7, <1>8, <1>9 DEF Laid

LEMMA CandiEntryLaid ==
  ASSUME Laid, CandiEntry
  PROVE  Laid'
<1>1. Top.k = "candi" /\ Top.st = "entry"
  BY DEF CandiEntry, Running
<1>2. /\ Top = Tip(stk) /\ Top.m \in Methods /\ optop = Tip(frames).optop
      /\ FrameOK(Tip(frames)) /\ args_size(Top.m) \in Nat
      /\ FrameAt(Tip(frames), mem, Top)
  BY LaidTop
<1>3. Arr(stk, frames, mem) /\ Words32(mem) /\ Spot(Tip(stk), frames, mem, ok, build)
  BY DEF Laid
<1>4. Lie(mem, Tip(frames).optop, JVMWords(Top.m, Top.c))
  BY <1>1, <1>2, <1>3 DEF Spot, Waits
<1>5. CASE Overflow
  BY <1>1, <1>5, OverflowLaid
<1>6. ASSUME NEW st, st \in {"compiled", "normal"}, stk' = At(st), UNCHANGED <<frames, mem>>
      PROVE  Laid'
  BY <1>1, <1>2, <1>3, <1>4, <1>6, CandiSteps
<1>7. CASE /\ frames' = [frames EXCEPT ![Cur].optop = optop + args_size(Top.m)]
           /\ stk' = At("compiling") /\ UNCHANGED mem
  <2>1. PICK z, a, o : z \in Int /\ a \in Nat /\ z = optop /\ a = args_size(Top.m) /\ o = z + a
    BY <1>2 DEF FrameOK
  <2>2. o \in Int /\ Tip(frames).base <= o /\ Tip(frames).base + a <= o
    BY <1>2, <2>1 DEF FrameOK
  <2>3. PICK q : q = [frames EXCEPT ![Len(frames)].optop = o]
    OBVIOUS
  <2>4. Moved(stk, frames, mem, o)
    BY <1>3, <2>2 DEF Moved
  <2>5. Shifted(stk, frames, q, mem, o)
    BY <2>3, <2>4, SetOptop
  <2>6. Arr(stk, q, mem) /\ Tip(q).optop = o /\ Tip(q).base = Tip(frames).base
    BY <2>5 DEF Shifted
  <2>7. frames' = q
    BY <1>7, <2>1, <2>3 DEF Cur
  <2>8. o - a = z
    BY <2>1
  <2>9. Lie(mem, Tip(q).optop - args_size(Top.m), JVMWords(Top.m, Top.c))
    BY <1>2, <1>4, <2>1, <2>6, <2>8
  <2>10. Room(Tip(q), args_size(Top.m))
    BY <2>1, <2>2, <2>6 DEF Room
  <2>11. FrameAt(Tip(q), mem, Top)
    BY <1>1 DEF FrameAt, Reader
  <2>12. QED
    BY <1>1, <1>3, <1>7, <2>6, <2>7, <2>9, <2>10, <2>11, CandiSteps
<1>8. QED
  BY <1>5, <1>6, <1>7 DEF CandiEntry

LEMMA CandiCompileLaid ==
  ASSUME Laid, CandiCompile
  PROVE  Laid'
<1>1. Top.k = "candi" /\ Top.st = "compiling"
  BY DEF CandiCompile, Running
<1>2. /\ Top = Tip(stk) /\ Top.m \in Methods /\ optop = Tip(frames).optop
      /\ FrameOK(Tip(frames)) /\ args_size(Top.m) \in Nat
  BY LaidTop
<1>3. Arr(stk, frames, mem) /\ Words32(mem) /\ Spot(Tip(stk), frames, mem, ok, build)
  BY DEF Laid
<1>4. PICK z, a, o : z \in Int /\ a \in Nat /\ z = optop /\ a = args_size(Top.m) /\ o = z - a
  BY <1>2 DEF FrameOK
<1>5. Lie(mem, o, JVMWords(Top.m, Top.c)) /\ Room(Tip(frames), a)
  BY <1>1, <1>2, <1>3, <1>4 DEF Spot, Compiling
<1>6. /\ o \in Int /\ o >= 1 /\ Tip(frames).base <= o /\ Tip(frames).base <= z
  BY <1>2, <1>4, <1>5 DEF Room, FrameOK
<1>7. PICK u : u = Scrap(mem, z)
  OBVIOUS
<1>8. Words32(u) /\ \A x \in 1 .. StackWords : x < z => u[x] = mem[x]
  BY <1>3, <1>4, <1>7, ScrapWords
<1>9. Arr(stk, frames, u)
  BY <1>3, <1>4, <1>6, <1>8, SetWords
<1>10. PICK ws : ws = JVMWords(Top.m, Top.c)
  OBVIOUS
<1>11. a = Len(ws)
  BY <1>2, <1>4, <1>10, Layouts
<1>12. o + a <= z
  BY <1>4
<1>13. Lie(mem, o, ws)
  BY <1>5, <1>10
<1>14. Lie(u, o, ws)
  <2>1. LieBelow(mem, o, a, ws, z)
    BY <1>4, <1>6, <1>11, <1>12, <1>13 DEF LieBelow
  <2>2. Untouched(mem, u, z)
    BY <1>8 DEF Untouched
  <2>3. QED
    BY <2>1, <2>2, LieKept
<1>15. PICK q : q = [frames EXCEPT ![Len(frames)].optop = o]
  OBVIOUS
<1>16. Moved(stk, frames, u, o)
  BY <1>6, <1>9 DEF Moved
<1>17. Shifted(stk, frames, q, u, o)
  BY <1>15, <1>16, SetOptop
<1>18. Arr(stk, q, u) /\ Tip(q).optop = o
  BY <1>17 DEF Shifted
<1>19. FrameAt(Tip(q), u, Top)
  BY <1>1 DEF FrameAt, Reader
<1>20. Lie(u, Tip(q).optop, JVMWords(Top.m, Top.c))
  BY <1>10, <1>14, <1>18
<1>21. frames' = q /\ mem' = u
  BY <1>4, <1>7, <1>15 DEF CandiCompile, Cur
<1>22. PICK st : st \in {"compiled", "normal"} /\ stk' = At(st)
  BY DEF CandiCompile
<1>23. QED
  BY <1>1, <1>8, <1>18, <1>19, <1>20, <1>21, <1>22, CandiSteps

LEMMA CandiCallLaid ==
  ASSUME Laid, CandiCall
  PROVE  Laid'
<1>0. Top.k = "candi" /\ Top.st = "compiled"
  BY DEF CandiCall, Running
<1>1. PICK f : /\ Put1(stk, f, At("done")) /\ Next1(f, Top) /\ f.st = "done"
  BY AtIs
<1>2. PICK s : s = At("done")
  OBVIOUS
<1>3. Top = Tip(stk) /\ Act(Top) /\ Top.m \in Methods /\ optop = Tip(frames).optop
  BY LaidTop
<1>4. f.k = "candi" /\ f.m = Top.m /\ f.c = Top.c
  BY <1>0, <1>1 DEF Next1, Goes
<1>5. SameOwn(f, Tip(stk)) /\ FrameAt(Tip(frames), mem, f)
  BY <1>0, <1>1, <1>3, <1>4 DEF SameOwn, Owns, FrameAt, Reader
<1>6. Arr(stk, frames, mem) /\ Words32(mem) /\ Spot(Tip(stk), frames, mem, ok, build)
  BY DEF Laid
<1>7. PICK g : g = Activation("jit", Top.m, Top.c, Top.loc)
  OBVIOUS
<1>8. /\ ActRec(g) /\ g.k = "jit" /\ g.m = Top.m /\ g.c = Top.c /\ g.inl = << >> /\ g.st = "entry"
  BY <1>7, MakeActIs
<1>9. Act(g)
  <2>1. Given(g)
    BY <1>8 DEF Given
  <2>2. QED
    BY <1>3, <1>8, <2>1, NewAct
<1>10. Link(f, g)
  BY <1>1, <1>4, <1>8 DEF Link
<1>11. ~ Owns(f, g) /\ FrameAt(Tip(frames), mem, g)
  BY <1>8 DEF Owns, FrameAt, Reader
<1>12. Spot(g, frames, mem, ok, build)
  <2>1. Lie(mem, Tip(frames).optop, JVMWords(Top.m, Top.c))
    BY <1>0, <1>3, <1>6 DEF Spot, Waits
  <2>2. QED
    BY <1>8, <2>1 DEF Spot, Waits, Compiling, Answered, Ran, Framed
<1>13. PICK r : r = Append(s, g)
  OBVIOUS
<1>14. Put1(stk, f, s) /\ Next1(f, Tip(stk))
  BY <1>1, <1>2, <1>3
<1>15. SetReady(stk, frames, mem, f, s, g)
  BY <1>5, <1>6, <1>9, <1>10, <1>11, <1>14 DEF SetReady, Goes1
<1>16. Atop(r, frames, mem, g)
  BY <1>13, <1>15, SetPush
<1>17. Arr(r, frames, mem) /\ Tip(r) = g
  BY <1>16 DEF Atop
<1>18. stk' = r /\ frames' = frames /\ mem' = mem /\ ok' = ok /\ build' = build
  BY <1>2, <1>7, <1>13 DEF CandiCall
<1>19. QED
  BY <1>6, <1>12, <1>17, <1>18, LaidBy

\* An invoker returns.
LEMMA UnderInvoker ==
  ASSUME NEW a, NEW b, Link(a, b), b.k \in {"candi", "jit", "native"}, NEW fs, NEW w, NEW o, NEW v,
         o => Room(Tip(fs), ret_size(b.m))
  PROVE  Spot(a, fs, w, o, v)
BY DEF Link, Spot, Waits, Compiling, Answered, Ran, Framed

LEMMA CandiDoneLaid ==
  ASSUME Laid, CandiDone
  PROVE  Laid'
<1>1. Top.k = "candi" /\ Top.st = "done"
  BY DEF CandiDone, Running
<1>2. Len(stk) > 1
  BY <1>1, LaidTop
<1>3. PICK r : r = Front(stk)
  OBVIOUS
<1>4. Pop1(stk, r) /\ Link(Tip(r), Top) /\ Top = Tip(stk)
  BY <1>2, <1>3, BelowIs
<1>5. Arr(stk, frames, mem) /\ Words32(mem) /\ Spot(Tip(stk), frames, mem, ok, build)
  BY DEF Laid
<1>6. ~ Owns(Tip(r), Tip(stk))
  BY <1>1, <1>4 DEF Owns
<1>7. Arr(r, frames, mem)
  BY <1>2, <1>4, <1>5, <1>6, ArrPop
<1>8. Answered(Top)
  BY <1>1 DEF Answered
<1>9. ok => Room(Tip(frames), ret_size(Top.m))
  BY <1>4, <1>5, <1>8 DEF Spot
<1>10. Spot(Tip(r), frames, mem, ok, build)
  BY <1>1, <1>4, <1>9, UnderInvoker
<1>11. stk' = r /\ frames' = frames /\ mem' = mem /\ ok' = ok /\ build' = build
  BY <1>3 DEF CandiDone
<1>12. QED
  BY <1>5, <1>7, <1>10, <1>11, LaidBy

LEMMA CandiNormalLaid ==
  ASSUME Laid, CandiNormal
  PROVE  Laid'
<1>0. Top.k = "candi" /\ Top.st = "normal"
  BY DEF CandiNormal, Running
<1>20. CASE Overflow
  BY <1>0, <1>20, OverflowLaid
<1>21. CASE ~ Overflow
  <2>0. /\ Fits(nlocals(Top.m)) /\ frames' = Append(frames, NewFrame(Top.m, nlocals(Top.m), 0))
        /\ stk' = Append(At("executed"),
                         Activation("interp", Top.m, Top.c, Get(optop, args_size(Top.m))))
        /\ mem' = mem
    BY <1>21 DEF CandiNormal, JVMFrame
  <2>1. PICK f : /\ Put1(stk, f, At("executed")) /\ Next1(f, Top) /\ f.st = "executed"
    BY AtIs
  <2>2. PICK s : s = At("executed")
    OBVIOUS
  <2>3. Top = Tip(stk) /\ Act(Top) /\ Top.m \in Methods /\ optop = Tip(frames).optop
    BY LaidTop
  <2>4. f.k = "candi" /\ f.m = Top.m /\ f.c = Top.c
    BY <1>0, <2>1 DEF Next1, Goes
  <2>5. Gains(Tip(stk), f)
    BY <1>0, <2>1, <2>3, <2>4 DEF Gains, Owns
  <2>6. Arr(stk, frames, mem) /\ Words32(mem) /\ Spot(Tip(stk), frames, mem, ok, build)
    BY DEF Laid
  <2>7. Lie(mem, optop, JVMWords(Top.m, Top.c))
    BY <1>0, <2>3, <2>6 DEF Spot, Waits
  <2>8. Get(optop, args_size(Top.m)) = JVMWords(Top.m, Top.c)
    BY <2>0, <2>3, <2>7, ArgsRead
  <2>9. PICK g : g = Activation("interp", Top.m, Top.c, JVMWords(Top.m, Top.c))
    OBVIOUS
  <2>10. /\ ActRec(g) /\ g.k = "interp" /\ g.m = Top.m /\ g.c = Top.c /\ g.inl = << >>
         /\ g.st = "run" /\ g.loc = JVMWords(Top.m, Top.c)
    BY <2>9, MakeActIs
  <2>11. Act(g)
    <3>1. Given(g)
      BY <2>10 DEF Given
    <3>2. QED
      BY <2>3, <2>10, <3>1, NewAct
  <2>12. Link(f, g) /\ ~ Owns(f, g) /\ Quiet(g)
    BY <2>1, <2>4, <2>10 DEF Link, Owns, Quiet
  <2>13. PICK h : h = NewFrame(Top.m, nlocals(Top.m), 0)
    OBVIOUS
  <2>14. FrameOK(h) /\ Tip(frames).base <= h.base /\ FrameAt(h, mem, g)
    BY <2>0, <2>3, <2>7, <2>10, <2>13, VarsLaid
  <2>15. FrameAt(h, mem, f)
    BY <2>4 DEF FrameAt, Reader
  <2>16. PICK q, r : q = Append(frames, h) /\ r = Append(s, g)
    OBVIOUS
  <2>17. Put1(stk, f, s) /\ Next1(f, Tip(stk))
    BY <2>1, <2>2, <2>3
  <2>18. GrowReady(stk, frames, mem, f, s, g, h)
    BY <2>5, <2>6, <2>11, <2>12, <2>14, <2>15, <2>17 DEF GrowReady
  <2>19. AtopOf(r, q, mem, g, h)
    BY <2>16, <2>18, GrowPush
  <2>20. Arr(r, q, mem) /\ Tip(r) = g
    BY <2>19 DEF AtopOf
  <2>21. stk' = r /\ frames' = q
    BY <2>0, <2>2, <2>8, <2>9, <2>13, <2>16
  <2>22. QED
    BY <2>0, <2>6, <2>12, <2>20, <2>21, LaidQuiet
<1>22. QED
  BY <1>20, <1>21

LEMMA CandiExecutedLaid ==
  ASSUME Laid, CandiExecuted
  PROVE  Laid'
<1>1. Top.k = "candi" /\ Top.st = "executed"
  BY DEF CandiExecuted, Running
<1>2. Ran(Top) /\ Len(stk) > 1
  BY <1>1, LaidTop DEF Ran
<1>3. PICK r : r = Front(stk)
  OBVIOUS
<1>4. Link(Tip(r), Top)
  BY <1>2, <1>3, BelowIs
<1>5. stk' = r /\ ok' = ok /\ build' = build
  BY <1>3 DEF CandiExecuted
<1>6. CASE ok
  <2>1. PICK q, u : q = Executed(Top.m).fs /\ u = Executed(Top.m).words
    OBVIOUS
  <2>2. Arr(r, q, u) /\ Words32(u) /\ Room(Tip(q), ret_size(Top.m))
    BY <1>2, <1>3, <1>6, <2>1, ExecutedArr
  <2>3. Spot(Tip(r), q, u, ok, build)
    BY <1>1, <1>4, <2>2, UnderInvoker
  <2>4. frames' = q /\ mem' = u
    BY <1>6, <2>1 DEF CandiExecuted
  <2>5. QED
    BY <1>5, <2>2, <2>3, <2>4, LaidBy
<1>7. CASE ~ ok
  <2>1. PICK q : q = Front(frames)
    OBVIOUS
  <2>2. Arr(r, q, mem) /\ Words32(mem)
    BY <1>2, <1>3, <2>1, DroppedArr
  <2>3. Spot(Tip(r), q, mem, ok, build)
    BY <1>1, <1>4, <1>7, UnderInvoker
  <2>4. frames' = q /\ mem' = mem
    BY <1>7, <2>1 DEF CandiExecuted
  <2>5. QED
    BY <1>5, <2>2, <2>3, <2>4, LaidBy
<1>8. QED
  BY <1>6, <1>7

-----------------------------------------------------------------------------
(* invokeJITCompiledMethod().                                              *)

LEMMA JITEnterLaid ==
  ASSUME Laid, JITEnter
  PROVE  Laid'
<1>0. Top.k = "jit" /\ Top.st = "entry"
  BY DEF JITEnter, Running
<1>20. CASE Overflow
  BY <1>0, <1>20, OverflowLaid
<1>21. CASE ~ Overflow
  <2>1. PICK ws : ws = ToNative(Get(optop, args_size(Top.m)), Top.m)
    OBVIOUS
  <2>0. /\ Fits(nlocals(Top.m))
        /\ frames' = Append(frames, NewFrame(Top.m, nlocals(Top.m), Len(stk) + 1))
        /\ stk' = Append(At("done"), Activation("comp", Top.m, Top.c, ws))
        /\ mem' = mem
    BY <1>21, <2>1 DEF JITEnter
  <2>2. PICK f : /\ Put1(stk, f, At("done")) /\ Next1(f, Top) /\ f.st = "done"
    BY AtIs
  <2>3. PICK s : s = At("done")
    OBVIOUS
  <2>4. /\ Top = Tip(stk) /\ Act(Top) /\ Top.m \in Methods /\ optop = Tip(frames).optop
        /\ Len(stk) \in Nat /\ args_size(Top.m) \in Nat
    BY LaidTop
  <2>5. f.k = "jit" /\ f.m = Top.m /\ f.c = Top.c
    BY <1>0, <2>2 DEF Next1, Goes
  <2>6. Gains(Tip(stk), f)
    BY <1>0, <2>2, <2>4, <2>5 DEF Gains, Owns
  <2>7. Arr(stk, frames, mem) /\ Words32(mem) /\ Spot(Tip(stk), frames, mem, ok, build)
    BY DEF Laid
  <2>8. Lie(mem, optop, JVMWords(Top.m, Top.c))
    BY <1>0, <2>4, <2>7 DEF Spot, Waits
  <2>9. Get(optop, args_size(Top.m)) = JVMWords(Top.m, Top.c)
    BY <2>0, <2>4, <2>8, ArgsRead
  <2>10. ws = NativeWords(Top.m, Top.c)
    BY <2>1, <2>4, <2>9, Layouts
  <2>11. PICK g : g = Activation("comp", Top.m, Top.c, ws)
    OBVIOUS
  <2>12. /\ ActRec(g) /\ g.k = "comp" /\ g.m = Top.m /\ g.c = Top.c /\ g.inl = << >>
         /\ g.loc = NativeWords(Top.m, Top.c)
    BY <2>10, <2>11, MakeActIs
  <2>13. Act(g)
    <3>1. Given(g)
      BY <2>12 DEF Given
    <3>2. QED
      BY <2>4, <2>12, <3>1, NewAct
  <2>14. Link(f, g) /\ ~ Owns(f, g) /\ Quiet(g)
    BY <2>2, <2>5, <2>12 DEF Link, Owns, Quiet
  <2>15. PICK e \in Int, l \in Nat : e = Len(stk) + 1 /\ e # 0 /\ l = nlocals(Top.m)
    BY <2>4 DEF nlocals
  <2>16. PICK h : h = NewFrame(Top.m, l, e)
    OBVIOUS
  <2>17. FrameOK(h) /\ Tip(frames).base <= h.base /\ h.ebp = e
    BY <2>16, NewFrameIs
  <2>18. FrameAt(h, mem, f) /\ FrameAt(h, mem, g)
    BY <2>5, <2>12, <2>15, <2>17 DEF FrameAt, Reader
  <2>19. PICK q, r : q = Append(frames, h) /\ r = Append(s, g)
    OBVIOUS
  <2>20. Put1(stk, f, s) /\ Next1(f, Tip(stk))
    BY <2>2, <2>3, <2>4
  <2>21. GrowReady(stk, frames, mem, f, s, g, h)
    BY <2>6, <2>7, <2>13, <2>14, <2>17, <2>18, <2>20 DEF GrowReady
  <2>22. AtopOf(r, q, mem, g, h)
    BY <2>19, <2>21, GrowPush
  <2>23. Arr(r, q, mem) /\ Tip(r) = g
    BY <2>22 DEF AtopOf
  <2>24. stk' = r /\ frames' = q
    BY <2>0, <2>3, <2>11, <2>15, <2>16, <2>19
  <2>25. QED
    BY <2>0, <2>7, <2>14, <2>23, <2>24, LaidQuiet
<1>22. QED
  BY <1>20, <1>21

\* A result is put on the operand stack of the innermost frame.
Given1(s, fs, w, q, u, n) == Arr(s, q, u) /\ Words32(u) /\ Room(Tip(q), n)

LEMMA PutResult ==
  ASSUME NEW s, NEW fs, NEW w, Arr(s, fs, w), Words32(w), NEW n \in Nat, NEW ws,
         NEW z, z = Tip(fs).optop,
         NEW u, u = Put(w, z, ws), NEW q, q = [fs EXCEPT ![Len(fs)].optop = z + n]
  PROVE  Given1(s, fs, w, q, u, n)
<1>1. FrameOK(Tip(fs))
  BY ArrFacts
<1>2. PICK o : o = z + n
  OBVIOUS
<1>3. z \in Int /\ o \in Int /\ Tip(fs).base <= z /\ Tip(fs).base <= o /\ Tip(fs).base \in Int
  BY <1>1, <1>2 DEF FrameOK
<1>4. Words32(u) /\ \A x \in 1 .. StackWords : x < z => u[x] = w[x]
  BY <1>3, PutBelow
<1>5. Arr(s, fs, u)
  BY <1>3, <1>4, SetWords
<1>6. Moved(s, fs, u, o)
  BY <1>3, <1>5 DEF Moved
<1>7. Shifted(s, fs, q, u, o)
  BY <1>2, <1>6, SetOptop
<1>8. Arr(s, q, u) /\ Tip(q).optop = o /\ Tip(q).base = Tip(fs).base
  BY <1>7 DEF Shifted
<1>9. Room(Tip(q), n)
  BY <1>2, <1>3, <1>8 DEF Room
<1>10. QED
  BY <1>4, <1>8, <1>9 DEF Given1

LEMMA JITDoneLaid ==
  ASSUME Laid, JITDone
  PROVE  Laid'
<1>1. Top.k = "jit" /\ Top.st = "done"
  BY DEF JITDone, Running
<1>2. Len(stk) > 1 /\ Top.m \in Methods /\ IsSeq(frames) /\ frames # << >>
  BY <1>1, LaidTop
<1>3. PICK r, fs : r = Front(stk) /\ fs = Front(frames)
  OBVIOUS
<1>4. Pop1(stk, r) /\ Link(Tip(r), Top) /\ Top = Tip(stk)
  BY <1>2, <1>3, BelowIs
<1>5. Arr(stk, frames, mem) /\ Words32(mem)
  BY DEF Laid
<1>6. Arr(r, fs, mem)
  <2>1. Owns(Tip(r), Tip(stk))
    BY <1>1, <1>4 DEF Owns
  <2>2. Pop1(frames, fs)
    BY <1>2, <1>3, PopIs
  <2>3. QED
    BY <1>2, <1>4, <1>5, <2>1, <2>2, ArrPopFrame
<1>7. PICK n, z : n \in Nat /\ n = ret_size(Top.m) /\ z = Tip(fs).optop
  BY <1>2, RetSize
<1>8. PICK u, q : u = Put(mem, z, regs) /\ q = [fs EXCEPT ![Len(fs)].optop = z + n]
  OBVIOUS
<1>9. Given1(r, fs, mem, q, u, n)
  BY <1>5, <1>6, <1>7, <1>8, PutResult
<1>10. Arr(r, q, u) /\ Words32(u) /\ Room(Tip(q), n)
  BY <1>9 DEF Given1
<1>11. stk' = r /\ frames' = q /\ mem' = u /\ build' = build
  BY <1>3, <1>7, <1>8 DEF JITDone, Tip
<1>12. PICK o : o = ok'
  OBVIOUS
<1>13. Spot(Tip(r), q, u, o, build)
  BY <1>1, <1>4, <1>7, <1>10, UnderInvoker
<1>14. QED
  BY <1>10, <1>11, <1>12, <1>13, LaidBy

-----------------------------------------------------------------------------
(* The interpreter as a caller.                                            *)

\* The interpreter puts the arguments on its operand stack.
Passed(w, m, c) ==
  /\ Arr(stk, frames, w) /\ Words32(w) /\ Lie(w, optop, JVMWords(m, c))

LEMMA PassArgs ==
  ASSUME Laid, NEW m \in Methods, NEW c, NEW w, w = Put(mem, optop, JVMWords(m, c))
  PROVE  Passed(w, m, c)
<1>1. PICK ws, z : ws = JVMWords(m, c) /\ z = optop
  OBVIOUS
<1>2. IsSeq(ws)
  BY <1>1, Layouts
<1>3. z \in Int /\ z >= 1 /\ Tip(frames).base <= z
  BY <1>1, LaidTop DEF FrameOK
<1>4. Arr(stk, frames, mem) /\ Words32(mem)
  BY DEF Laid
<1>5. w = Put(mem, z, ws)
  BY <1>1
<1>6. Words32(w) /\ Lie(w, z, ws) /\ \A x \in 1 .. StackWords : x < z => w[x] = mem[x]
  BY <1>2, <1>3, <1>4, <1>5, PutWords
<1>7. Arr(stk, frames, w)
  BY <1>3, <1>4, <1>6, SetWords
<1>8. QED
  BY <1>1, <1>6, <1>7 DEF Passed

\* The invoker of a method to be compiled, or compiled, is called.
LEMMA ToInvokerLaid ==
  ASSUME Laid, Top.k = "interp", NEW m \in Methods, NEW c, NEW w, Passed(w, m, c),
         NEW k, k \in {"candi", "jit"},
         stk' = Append(Await(m, c), Activation(k, m, c, << >>)),
         mem' = w, UNCHANGED <<frames, ok, build>>
  PROVE  Laid'
<1>1. PICK g : g = Activation(k, m, c, << >>)
  OBVIOUS
<1>2. /\ ActRec(g) /\ g.k = k /\ g.m = m /\ g.c = c /\ g.inl = << >> /\ g.st = "entry"
  BY <1>1, MakeActIs
<1>3. Given(g)
  BY <1>2 DEF Given
<1>4. Act(g)
  BY <1>2, <1>3, NewAct
<1>5. Callee(Top, g) /\ FrameAt(Tip(frames), w, g) /\ (\A b : b.k = Top.k => ~ Owns(b, g))
  BY <1>2 DEF Callee, FrameAt, Reader, Owns
<1>6. Arr(stk, frames, w) /\ Words32(w) /\ Lie(w, Tip(frames).optop, JVMWords(m, c))
  BY LaidTop DEF Passed
<1>7. PICK r : r = Append(Await(g.m, g.c), g)
  OBVIOUS
<1>8. Arr(r, frames, w) /\ Tip(r) = g
  BY <1>4, <1>5, <1>6, <1>7, CallArr
<1>9. Spot(g, frames, w, ok, build)
  BY <1>2, <1>6 DEF Spot, Waits, Compiling, Answered, Ran, Framed
<1>10. stk' = r
  BY <1>1, <1>2, <1>7
<1>11. QED
  BY <1>6, <1>8, <1>9, <1>10, LaidBy

\* The JVM makes a frame for the interpreter or the native function.
LEMMA InFrameLaid ==
  ASSUME Laid, Top.k = "interp", NEW m \in Methods, NEW c, NEW w, Passed(w, m, c),
         Fits(nlocals(m)), NEW k, k \in {"interp", "native"},
         stk' = Append(Await(m, c), Activation(k, m, c, JVMWords(m, c))),
         frames' = Append(frames, NewFrame(m, nlocals(m), 0)), mem' = w
  PROVE  Laid'
<1>1. PICK g : g = Activation(k, m, c, JVMWords(m, c))
  OBVIOUS
<1>2. /\ ActRec(g) /\ g.k = k /\ g.m = m /\ g.c = c /\ g.inl = << >> /\ g.st = "run"
      /\ g.loc = JVMWords(m, c)
  BY <1>1, MakeActIs
<1>3. Given(g)
  BY <1>2 DEF Given
<1>4. Act(g)
  BY <1>2, <1>3, NewAct
<1>5. Callee(Top, g) /\ Quiet(g) /\ (\A b : b.k = Top.k => Owns(b, g))
  BY <1>2 DEF Callee, Quiet, Owns
<1>6. Arr(stk, frames, w) /\ Words32(w) /\ Lie(w, optop, JVMWords(m, c))
  BY DEF Passed
<1>7. PICK h : h = NewFrame(m, nlocals(m), 0)
  OBVIOUS
<1>8. FrameOK(h) /\ Tip(frames).base <= h.base /\ FrameAt(h, w, g)
  BY <1>2, <1>6, <1>7, VarsLaid
<1>9. PICK q : q = Append(frames, h)
  OBVIOUS
<1>10. Push1(frames, h, q)
  BY <1>9, LaidTop, PushIs
<1>11. PICK r : r = Append(Await(g.m, g.c), g)
  OBVIOUS
<1>12. Arr(r, q, w) /\ Tip(r) = g
  BY <1>4, <1>5, <1>6, <1>8, <1>10, <1>11, CallArrFrame
<1>13. stk' = r /\ frames' = q
  BY <1>1, <1>2, <1>7, <1>9, <1>11
<1>14. QED
  BY <1>5, <1>6, <1>12, <1>13, LaidQuiet

LEMMA InterpCallLaid ==
  ASSUME Laid, NEW m \in Methods, InterpCall(m)
  PROVE  Laid'
<1>1. Top.k = "interp"
  BY DEF InterpCall, Running
<1>2. PICK c : c = calls + 1
  OBVIOUS
<1>3. PICK w : w = Put(mem, optop, JVMWords(m, c))
  OBVIOUS
<1>4. Passed(w, m, c)
  BY <1>3, PassArgs
<1>5. InvokeByJVM(m, c, w)
  BY <1>2, <1>3 DEF InterpCall
<1>6. CASE /\ invoker[m] \in {"candi", "jit"}
           /\ stk' = Append(Await(m, c), Activation(invoker[m], m, c, << >>))
           /\ mem' = w /\ UNCHANGED <<frames, ok, build>>
  <2>1. PICK k : k = invoker[m]
    OBVIOUS
  <2>2. QED
    BY <1>1, <1>4, <1>6, <2>1, ToInvokerLaid
<1>7. CASE /\ Fits(nlocals(m)) /\ mem' = w
           /\ frames' = Append(frames, NewFrame(m, nlocals(m), 0))
           /\ stk' = Append(Await(m, c),
                            Activation(IF invoker[m] = "java" THEN "interp" ELSE "native",
                                       m, c, JVMWords(m, c)))
  <2>1. PICK k : k = IF invoker[m] = "java" THEN "interp" ELSE "native"
    OBVIOUS
  <2>2. k \in {"interp", "native"}
    BY <2>1
  <2>3. QED
    BY <1>1, <1>4, <1>7, <2>1, <2>2, InFrameLaid
<1>8. QED
  BY <1>5, <1>6, <1>7 DEF InvokeByJVM

-----------------------------------------------------------------------------
(* The ways out of a method the JVM runs.                                  *)

\* what called the interpreter or a native function
LEMMA UnderJVM ==
  ASSUME NEW a, NEW b, Link(a, b), b.k \in {"interp", "native"}
  PROVE  /\ a.k \in {"helper", "candi", "interp"}
         /\ b.k = "interp" /\ a.k \in {"helper", "candi"} => a.st = "executed"
         /\ b.k = "native" => a.k # "candi" /\ (a.k = "helper" => a.st = "invoked")
BY DEF Link

\* The frame goes with the activation unless the caller drops it.
LEMMA LeftArr ==
  ASSUME Laid, Len(stk) > 1, Top.k \in {"interp", "native"}, NEW r, r = Front(stk)
  PROVE  Arr(r, Left, mem) /\ (Executing <=> Ran(Tip(r)))
<1>1. /\ Pop1(stk, r) /\ Link(Tip(r), Top) /\ Top = Tip(stk) /\ Tip(r) = Below
  BY BelowIs
<1>2. Arr(stk, frames, mem)
  BY DEF Laid
<1>3. Executing <=> Ran(Tip(r))
  BY <1>1, UnderJVM DEF Executing, Ran
<1>4. Owns(Tip(r), Tip(stk)) <=> ~ Executing
  BY <1>1 DEF Executing, Owns
<1>5. CASE Executing
  <2>1. Arr(r, frames, mem)
    BY <1>1, <1>2, <1>4, <1>5, ArrPop
  <2>2. QED
    BY <1>3, <1>5, <2>1 DEF Left
<1>6. CASE ~ Executing
  <2>1. PICK q : q = Front(frames)
    OBVIOUS
  <2>2. Pop1(frames, q)
    BY <2>1, LaidTop, PopIs
  <2>3. Arr(r, q, mem)
    BY <1>1, <1>2, <1>4, <1>6, <2>2, ArrPopFrame
  <2>4. Left = q
    BY <1>6, <2>1 DEF Left
  <2>5. QED
    BY <1>3, <2>3, <2>4
<1>7. QED
  BY <1>5, <1>6

LEMMA ThrowingLaid ==
  ASSUME Laid, Len(stk) > 1, Top.k \in {"interp", "native"}, LeaveThrowing
  PROVE  Laid'
<1>1. PICK r, q : r = Front(stk) /\ q = Left
  OBVIOUS
<1>2. Arr(r, q, mem) /\ Link(Tip(r), Top)
  BY <1>1, LeftArr, BelowIs
<1>3. Words32(mem)
  BY DEF Laid
<1>4. Spot(Tip(r), q, mem, FALSE, build)
  BY <1>2, FailSpot
<1>5. stk' = r /\ frames' = q /\ mem' = mem /\ ok' = FALSE /\ build' = build
  BY <1>1 DEF LeaveThrowing, Leave
<1>6. QED
  BY <1>2, <1>3, <1>4, <1>5, LaidBy

-----------------------------------------------------------------------------
(* Results of the interpreter and of the functions the JVM calls.          *)

LEMMA ResultSpot ==
  ASSUME NEW a, NEW b, Link(a, b), b.k \in {"interp", "native"}, NEW fs, NEW w, NEW o, NEW v,
         Room(Tip(fs), ret_size(b.m)), Ran(a) => v.asm
  PROVE  Spot(a, fs, w, o, v)
BY DEF Link, Spot, Waits, Compiling, Answered, Ran, Framed

\* The frame below the innermost one gets a result.
BelowReady(s, fs, w, y, o) ==
  /\ Arr(s, fs, w) /\ y = Len(fs) - 1 /\ y >= 1 /\ o \in Int /\ fs[y].base <= o
BelowDone(s, fs, w, y, o, q) ==
  /\ Arr(s, q, w) /\ Len(q) = Len(fs) /\ q[y].optop = o /\ q[y].base = fs[y].base

LEMMA BelowAlike ==
  ASSUME NEW s, NEW fs, NEW w, NEW y, NEW o, BelowReady(s, fs, w, y, o),
         NEW q, q = [fs EXCEPT ![y].optop = o]
  PROVE  BelowDone(s, fs, w, y, o, q)
<1>0. Arr(s, fs, w) /\ y = Len(fs) - 1 /\ y >= 1 /\ o \in Int /\ fs[y].base <= o
  BY DEF BelowReady
<1>1. PICK n \in Nat : n = Len(fs)
  BY <1>0, ArrFacts
<1>2. IsSeq(fs) /\ \A j \in 1 .. n : FrameOK(fs[j])
  BY <1>0, <1>1 DEF Arr, Core, Stacked
<1>3. PICK S : fs \in Seq(S)
  BY <1>2 DEF IsSeq
<1>4. DOMAIN fs = 1 .. n /\ y \in 1 .. n
  BY <1>0, <1>1, <1>3
<1>5. PICK g : g = [fs[y] EXCEPT !.optop = o]
  OBVIOUS
<1>6. Alike(fs[y], g) /\ g.base = fs[y].base /\ g.optop = o
  BY <1>0, <1>2, <1>4, <1>5, OptopAlike
<1>7. q = [j \in 1 .. n |-> IF j = y THEN g ELSE fs[j]]
  <2>1. q = [fs EXCEPT ![y] = g]
    BY <1>5
  <2>2. QED
    BY <1>4, <2>1
<1>8. IsSeq(q) /\ Len(q) = n
  <2>1. q \in Seq(S \cup {g})
    BY <1>3, <1>4, <1>7
  <2>2. QED
    BY <1>7, <2>1 DEF IsSeq
<1>9. ASSUME NEW j \in 1 .. n PROVE Alike(fs[j], q[j])
  <2>1. CASE j = y
    BY <1>4, <1>6, <1>7, <2>1
  <2>2. CASE j # y
    <3>1. q[j] = fs[j] /\ FrameOK(fs[j])
      BY <1>2, <1>7, <2>2
    <3>2. QED
      BY <3>1 DEF Alike
  <2>3. QED
    BY <2>1, <2>2
<1>10. \A j \in 1 .. Len(fs) : Alike(fs[j], q[j])
  BY <1>1, <1>9
<1>11. Len(q) = Len(fs)
  BY <1>1, <1>8
<1>12. Arr(s, q, w)
  BY <1>0, <1>8, <1>10, <1>11, ArrAlike
<1>13. q[y] = g
  BY <1>4, <1>7
<1>14. QED
  BY <1>6, <1>11, <1>12, <1>13 DEF BelowDone

\* The interpreter leaves its result on the operand stack of the caller, below
\* its own frame.
LEMMA ResultBelowLaid ==
  ASSUME Laid, Len(stk) > 1, Top.k = "interp", Executing, ~ build.asm, LeaveResult
  PROVE  Laid'
<1>1. PICK r : r = Front(stk)
  OBVIOUS
<1>2. /\ Pop1(stk, r) /\ Link(Tip(r), Top) /\ Act(Tip(r)) /\ Tip(r) = Below /\ Top = Tip(stk)
      /\ Top.m \in Methods
  BY <1>1, BelowIs, LaidTop
<1>3. Left = frames
  BY DEF Left
<1>4. Arr(r, frames, mem) /\ Ran(Tip(r))
  BY <1>1, <1>3, LeftArr
<1>5. Words32(mem)
  BY DEF Laid
<1>6. PICK y : y = Len(frames) - 1
  OBVIOUS
<1>7. (\A b : Owns(b, Tip(r))) /\ ~ Reader(Tip(r)) /\ Tip(r).k # "interp"
  BY <1>4 DEF Ran, Owns, Reader
<1>8. Len(r) > 1
  BY <1>4, <1>7, ArrFacts
<1>9. y >= 1
  BY <1>4, <1>6, <1>7, <1>8, ArrWordsBelow
<1>10. PICK n \in Nat : n = Len(frames)
  BY LaidTop
<1>11. y \in 1 .. n
  BY <1>6, <1>9, <1>10
<1>12. FrameOK(frames[y])
  BY <1>4, <1>10, <1>11 DEF Arr, Core, Stacked
<1>13. PICK size, z, o : size \in Nat /\ size = ret_size(Top.m) /\ z = frames[y].optop /\ o = z + size
  BY <1>2, RetSize
<1>14. /\ z \in Int /\ o \in Int /\ frames[y].base \in Int
       /\ frames[y].base <= z /\ frames[y].base <= o
  BY <1>12, <1>13 DEF FrameOK
<1>15. PICK u : u = Put(mem, z, Result(Top.m, Top.c))
  OBVIOUS
<1>16. Words32(u) /\ \A x \in 1 .. StackWords : x < z => u[x] = mem[x]
  BY <1>5, <1>14, <1>15, PutBelow
<1>17. \A x \in 1 .. StackWords : x < frames[y].base => u[x] = mem[x]
  BY <1>14, <1>16, BoundAssumption
<1>18. Arr(r, frames, u)
  BY <1>4, <1>6, <1>7, <1>8, <1>17, ArrWordsBelow
<1>19. PICK q : q = [frames EXCEPT ![y].optop = o]
  OBVIOUS
<1>20. BelowReady(r, frames, u, y, o)
  BY <1>6, <1>9, <1>14, <1>18 DEF BelowReady
<1>21. BelowDone(r, frames, u, y, o, q)
  BY <1>19, <1>20, BelowAlike
<1>22. Arr(r, q, u) /\ Len(q) = Len(frames) /\ q[y].optop = o /\ q[y].base = frames[y].base
  BY <1>21 DEF BelowDone
<1>23. PICK x : x = Len(q) - 1
  OBVIOUS
<1>24. x = y
  BY <1>6, <1>22, <1>23
<1>25. Room(q[x], size)
  BY <1>13, <1>14, <1>22, <1>24 DEF Room
<1>26. Tip(r).m = Top.m /\ Tip(r).k \in {"helper", "candi"} /\ Tip(r).st = "executed"
  BY <1>2, <1>4 DEF Link, Ran
<1>27. Room(q[Len(q) - 1], ret_size(Tip(r).m))
  BY <1>13, <1>23, <1>25, <1>26
<1>28. PICK v : v = ok'
  OBVIOUS
<1>29. Spot(Tip(r), q, u, v, build)
  BY <1>26, <1>27 DEF Spot, Waits, Compiling, Answered, Ran, Framed
<1>30. stk' = r /\ frames' = q /\ mem' = u /\ build' = build
  BY <1>1, <1>3, <1>6, <1>13, <1>15, <1>19 DEF LeaveResult, Leave, Cur
<1>31. QED
  BY <1>16, <1>22, <1>28, <1>29, <1>30, LaidBy

LEMMA ResultLaid ==
  ASSUME Laid, Len(stk) > 1, Top.k \in {"interp", "native"}, LeaveResult
  PROVE  Laid'
<1>1. CASE Executing /\ ~ build.asm
  BY <1>1, ResultBelowLaid DEF Executing
<1>2. CASE ~ (Executing /\ ~ build.asm)
  <2>1. PICK r, fs : r = Front(stk) /\ fs = Left
    OBVIOUS
  <2>2. Link(Tip(r), Top) /\ Top.m \in Methods
    BY <2>1, BelowIs, LaidTop
  <2>3. Arr(r, fs, mem) /\ (Executing <=> Ran(Tip(r)))
    BY <2>1, LeftArr
  <2>4. Words32(mem)
    BY DEF Laid
  <2>5. PICK n, z, ws : n \in Nat /\ n = ret_size(Top.m) /\ z = Tip(fs).optop /\ ws = Result(Top.m, Top.c)
    BY <2>2, RetSize
  <2>6. PICK u, q : u = Put(mem, z, ws) /\ q = [fs EXCEPT ![Len(fs)].optop = z + n]
    OBVIOUS
  <2>7. Given1(r, fs, mem, q, u, n)
    BY <2>3, <2>4, <2>5, <2>6, PutResult
  <2>8. Arr(r, q, u) /\ Words32(u) /\ Room(Tip(q), n)
    BY <2>7 DEF Given1
  <2>9. PICK v : v = ok'
    OBVIOUS
  <2>10. Spot(Tip(r), q, u, v, build)
    BY <1>2, <2>2, <2>3, <2>5, <2>8, ResultSpot
  <2>11. stk' = r /\ frames' = q /\ mem' = u /\ build' = build
    BY <1>2, <2>1, <2>5, <2>6 DEF LeaveResult, Leave, Tip
  <2>12. QED
    BY <2>8, <2>9, <2>10, <2>11, LaidBy
<1>3. QED
  BY <1>1, <1>2

-----------------------------------------------------------------------------
(* Handlers, native functions and calls from them.                         *)

LEMMA InterpBackLaid ==
  ASSUME Laid, InterpBack
  PROVE  Laid'
<1>1. Top.k = "interp"
  BY DEF InterpBack, Running
<1>2. CASE Len(stk) > 1 /\ LeaveThrowing
  BY <1>1, <1>2, ThrowingLaid
<1>3. CASE /\ frames' = [frames EXCEPT ![Cur].optop = frames[Cur].base]
           /\ mem' = Scrap(mem, frames[Cur].base) /\ stk' = At("run")
  <2>1. PICK f : Put1(stk, f, At("run")) /\ Next1(f, Top)
    BY AtIs
  <2>2. PICK s : s = At("run")
    OBVIOUS
  <2>3. Top = Tip(stk) /\ Tip(frames) = frames[Cur] /\ FrameOK(Tip(frames))
    BY LaidTop
  <2>4. Arr(stk, frames, mem) /\ Words32(mem)
    BY DEF Laid
  <2>5. Steady(Tip(stk))
    BY <1>1, <2>3 DEF Steady
  <2>6. Next1(f, Tip(stk)) /\ Put1(stk, f, s)
    BY <2>1, <2>2, <2>3
  <2>7. Arr(s, frames, mem) /\ Tip(s) = f /\ Quiet(f)
    BY <2>4, <2>5, <2>6, SteadySet
  <2>8. PICK z : z = Tip(frames).base
    OBVIOUS
  <2>9. z \in Int /\ Tip(frames).base <= z
    BY <2>3, <2>8 DEF FrameOK
  <2>10. PICK u, q : u = Scrap(mem, z) /\ q = [frames EXCEPT ![Len(frames)].optop = z]
    OBVIOUS
  <2>11. Words32(u) /\ \A x \in 1 .. StackWords : x < z => u[x] = mem[x]
    BY <2>4, <2>9, <2>10, ScrapWords
  <2>12. Arr(s, frames, u)
    BY <2>7, <2>9, <2>11, SetWords
  <2>13. Moved(s, frames, u, z)
    BY <2>9, <2>12 DEF Moved
  <2>14. Shifted(s, frames, q, u, z)
    BY <2>10, <2>13, SetOptop
  <2>15. Arr(s, q, u)
    BY <2>14 DEF Shifted
  <2>16. stk' = s /\ frames' = q /\ mem' = u
    BY <1>3, <2>2, <2>3, <2>8, <2>10 DEF Cur
  <2>17. QED
    BY <2>7, <2>11, <2>15, <2>16, LaidQuiet
<1>4. QED
  BY <1>2, <1>3 DEF InterpBack

\* what called a native function of the JNI or the NMI
LEMMA UnderC ==
  ASSUME NEW a, NEW b, Link(a, b), b.k \in {"jni", "nmi"}
  PROVE  a.k = "helper" /\ a.st = "native" /\ Quiet(a)
BY DEF Link, Quiet

LEMMA CReturnLaid ==
  ASSUME Laid, NEW raise, CReturn(raise)
  PROVE  Laid'
<1>1. /\ Top.k \in {"jni", "nmi"} /\ Top.st = "run" /\ stk' = Front(stk)
      /\ UNCHANGED <<frames, mem>>
  BY DEF CReturn
<1>2. Len(stk) > 1
  BY <1>1, LaidTop
<1>3. PICK r : r = Front(stk)
  OBVIOUS
<1>4. Pop1(stk, r) /\ Link(Tip(r), Top) /\ Top = Tip(stk)
  BY <1>2, <1>3, BelowIs
<1>5. Quiet(Tip(r)) /\ ~ Owns(Tip(r), Tip(stk))
  BY <1>1, <1>4, UnderC DEF Owns
<1>6. Arr(stk, frames, mem) /\ Words32(mem)
  BY DEF Laid
<1>7. Arr(r, frames, mem)
  BY <1>2, <1>4, <1>5, <1>6, ArrPop
<1>8. QED
  BY <1>1, <1>3, <1>5, <1>6, <1>7, LaidQuiet

LEMMA ReturnLaid ==
  ASSUME Laid, InterpReturn \/ InterpThrow \/ NativeReturn
  PROVE  Laid'
<1>1. CASE InterpReturn
  BY <1>1, ResultLaid DEF InterpReturn, Running
<1>2. CASE InterpThrow
  BY <1>2, ThrowingLaid DEF InterpThrow, Running
<1>3. CASE \E raise \in BOOLEAN : CReturn(raise)
  BY <1>3, CReturnLaid
<1>4. CASE Running("native", "run") /\ (LeaveResult \/ LeaveThrowing)
  <2>1. Top.k = "native" /\ Len(stk) > 1
    BY <1>4, LaidTop DEF Running
  <2>2. QED
    BY <1>4, <2>1, ResultLaid, ThrowingLaid
<1>5. QED
  BY <1>1, <1>2, <1>3, <1>4 DEF NativeReturn

LEMMA CallbackFrame ==
  ASSUME Laid, NEW h, h = [NewFrame(Root, 0, 0) EXCEPT !.m = "none", !.creator = "none"]
  PROVE  FrameOK(h) /\ Tip(frames).base <= h.base /\ h.optop = h.base
<1>1. PICK x : x = NewFrame(Root, 0, 0)
  OBVIOUS
<1>2. FrameOK(x) /\ Tip(frames).base <= x.base /\ x.optop = x.base
  BY <1>1, NewFrameIs
<1>3. PICK y, n : n = "none" /\ y = [x EXCEPT !.m = n]
  OBVIOUS
<1>4. h = [y EXCEPT !.creator = n]
  BY <1>1, <1>3
<1>5. x = [i \in FrameFields |-> x[i]] /\ x.base \in Int /\ 1 <= x.base
  BY <1>2 DEF FrameOK
<1>6. y = [i \in FrameFields |-> y[i]] /\ y.base = x.base /\ y.optop = x.optop
  BY <1>3, <1>5 DEF FrameFields
<1>7. h = [i \in FrameFields |-> h[i]] /\ h.base = x.base /\ h.optop = x.optop
  BY <1>4, <1>6 DEF FrameFields
<1>8. QED
  BY <1>2, <1>5, <1>7 DEF FrameOK

LEMMA NativeCallLaid ==
  ASSUME Laid, NEW m \in Methods, NativeCall(m)
  PROVE  Laid'
<1>0. Top.k \in {"jni", "nmi"} /\ Top.st = "run" /\ invoker[m] \in {"candi", "jit"}
  BY DEF NativeCall
<1>1. PICK c, k : c = calls + 1 /\ k = invoker[m]
  OBVIOUS
<1>2. PICK h : h = [NewFrame(Root, 0, 0) EXCEPT !.m = "none", !.creator = "none"]
  OBVIOUS
<1>3. /\ frames' = Append(frames, h)
      /\ mem' = Put(mem, h.optop, JVMWords(m, c))
      /\ stk' = Append(Await(m, c), Activation(k, m, c, << >>))
      /\ ok' = ok /\ build' = build
  BY <1>1, <1>2 DEF NativeCall
<1>4. FrameOK(h) /\ Tip(frames).base <= h.base /\ h.optop = h.base
  BY <1>2, CallbackFrame
<1>5. PICK f : /\ Put1(stk, f, Await(m, c)) /\ Next1(f, Top)
               /\ f.st = "ret" /\ f.call = <<m, c>>
  BY AwaitIs
<1>6. PICK s : s = Await(m, c)
  OBVIOUS
<1>7. Top = Tip(stk)
  BY LaidTop
<1>8. f.k = Top.k
  BY <1>5 DEF Next1, Goes
<1>9. Gains(Tip(stk), f)
  BY <1>0, <1>5, <1>7, <1>8 DEF Gains, Owns
<1>10. PICK g : g = Activation(k, m, c, << >>)
  OBVIOUS
<1>11. /\ ActRec(g) /\ g.k = k /\ g.m = m /\ g.c = c /\ g.inl = << >>
       /\ k \in {"candi", "jit"} => g.st = "entry"
  BY <1>10, MakeActIs
<1>12. k \in {"candi", "jit"}
  BY <1>0, <1>1
<1>13. Given(g)
  BY <1>11, <1>12 DEF Given
<1>14. Act(g)
  BY <1>11, <1>13, NewAct
<1>15. Link(f, g) /\ ~ Owns(f, g)
  BY <1>0, <1>5, <1>8, <1>11, <1>12 DEF Link, Owns
<1>16. FrameAt(h, mem, f) /\ FrameAt(h, mem, g)
  BY <1>0, <1>8, <1>11, <1>12 DEF FrameAt, Reader
<1>17. Arr(stk, frames, mem) /\ Words32(mem)
  BY DEF Laid
<1>18. Put1(stk, f, s) /\ Next1(f, Tip(stk))
  BY <1>5, <1>6, <1>7
<1>19. GrowReady(stk, frames, mem, f, s, g, h)
  BY <1>4, <1>9, <1>14, <1>15, <1>16, <1>17, <1>18 DEF GrowReady
<1>20. PICK q, r : q = Append(frames, h) /\ r = Append(s, g)
  OBVIOUS
<1>21. AtopOf(r, q, mem, g, h)
  BY <1>19, <1>20, GrowPush
<1>22. Arr(r, q, mem) /\ Tip(r) = g /\ Tip(q) = h
  BY <1>21 DEF AtopOf
<1>23. PICK ws, z : ws = JVMWords(m, c) /\ z = h.optop
  OBVIOUS
<1>24. IsSeq(ws)
  BY <1>23, Layouts
<1>25. z \in Int /\ z >= 1 /\ Tip(q).base <= z
  BY <1>4, <1>22, <1>23 DEF FrameOK
<1>26. PICK u : u = Put(mem, z, ws)
  OBVIOUS
<1>27. Words32(u) /\ Lie(u, z, ws) /\ \A x \in 1 .. StackWords : x < z => u[x] = mem[x]
  BY <1>17, <1>24, <1>25, <1>26, PutWords
<1>28. Arr(r, q, u)
  BY <1>22, <1>25, <1>27, SetWords
<1>29. Lie(u, Tip(q).optop, JVMWords(g.m, g.c))
  BY <1>11, <1>22, <1>23, <1>27
<1>30. Spot(g, q, u, ok, build)
  BY <1>11, <1>12, <1>29 DEF Spot, Waits, Compiling, Answered, Ran, Framed
<1>31. stk' = r /\ frames' = q /\ mem' = u
  BY <1>3, <1>6, <1>10, <1>20, <1>23, <1>26
<1>32. QED
  BY <1>3, <1>22, <1>27, <1>28, <1>30, <1>31, LaidBy

LEMMA NativeBackLaid ==
  ASSUME Laid, NativeBack
  PROVE  Laid'
<1>0. Top.k \in {"jni", "nmi"} /\ Top.st = "ret" /\ frames' = Front(frames) /\ mem' = mem
  BY DEF NativeBack
<1>1. Len(stk) > 1 /\ Top = Tip(stk) /\ IsSeq(frames) /\ frames # << >>
  BY <1>0, LaidTop
<1>2. PICK q : q = Front(frames)
  OBVIOUS
<1>3. Pop1(frames, q)
  BY <1>1, <1>2, PopIs
<1>4. Arr(stk, frames, mem) /\ Words32(mem)
  BY DEF Laid
<1>5. CASE stk' = At("run")
  <2>1. PICK f : Put1(stk, f, At("run")) /\ Next1(f, Top) /\ f.st = "run" /\ Act(f)
    BY AtIs
  <2>2. PICK s : s = At("run")
    OBVIOUS
  <2>3. f.k \in {"jni", "nmi"} /\ Goes(f, Tip(stk))
    BY <1>0, <1>1, <2>1 DEF Next1, Goes
  <2>4. Gains(f, Tip(stk)) /\ Frameless(f, mem) /\ Quiet(f)
    BY <1>0, <1>1, <2>1, <2>3 DEF Gains, Owns, Frameless, FrameAt, Reader, Quiet
  <2>5. Put1(stk, f, s)
    BY <2>1, <2>2
  <2>6. Arr(s, q, mem) /\ Tip(s) = f
    BY <1>1, <1>3, <1>4, <2>1, <2>3, <2>4, <2>5, ArrLose, PutTip
  <2>7. QED
    BY <1>0, <1>2, <1>4, <1>5, <2>2, <2>4, <2>6, LaidQuiet
<1>6. CASE stk' = Front(stk)
  <2>1. PICK r : r = Front(stk)
    OBVIOUS
  <2>2. Pop1(stk, r) /\ Link(Tip(r), Top)
    BY <1>1, <2>1, BelowIs
  <2>3. Quiet(Tip(r)) /\ Owns(Tip(r), Tip(stk))
    BY <1>0, <1>1, <2>2, UnderC DEF Owns
  <2>4. Arr(r, q, mem)
    BY <1>1, <1>3, <1>4, <2>2, <2>3, ArrPopFrame
  <2>5. QED
    BY <1>0, <1>2, <1>4, <1>6, <2>1, <2>3, <2>4, LaidQuiet
<1>7. QED
  BY <1>5, <1>6 DEF NativeBack

-----------------------------------------------------------------------------

\* The method everything starts from has no arguments.
LEMMA RootWords == JVMWords(Root, 0) = << >> /\ args_size(Root) = 0
<1>1. Root \in Methods /\ Info[Root].params = << >> /\ Info[Root].static
  BY InfoAssumption
<1>2. PICK n \in Nat : n = Len(Info[Root].params)
  BY <1>1, Params
<1>3. n = 0
  BY <1>1, <1>2, Empty
<1>4. PICK gs : gs = JVMGroups(Root, 0)
  OBVIOUS
<1>5. Groups(gs, n) /\ JVMWords(Root, 0) = Receiver(Root, 0) \o Joined(gs)[n]
  BY <1>1, <1>2, <1>4, JVMForm
<1>6. Joined(gs)[0] = << >>
  BY <1>2, <1>5, JoinedStep DEF Groups
<1>7. Receiver(Root, 0) = << >>
  BY <1>1 DEF Receiver
<1>8. JVMWords(Root, 0) = << >>
  BY <1>3, <1>5, <1>6, <1>7, Empty
<1>9. Len(JVMWords(Root, 0)) = args_size(Root)
  BY <1>1, Layouts
<1>10. QED
  BY <1>8, <1>9, Empty

LEMMA InitLaid ==
  ASSUME Init
  PROVE  Laid
<1>1. PICK a : a = Activation("interp", Root, 0, << >>)
  OBVIOUS
<1>2. PICK f : f = [m |-> Root, creator |-> Root, vars |-> 1, ebp |-> 0,
                    base |-> 3, optop |-> 3]
  OBVIOUS
<1>3. stk = <<a>> /\ frames = <<f>> /\ mem = [i \in 1 .. StackWords |-> Junk]
  BY <1>1, <1>2 DEF Init
<1>4. /\ ActRec(a) /\ a.k = "interp" /\ a.m = Root /\ a.c = 0 /\ a.loc = << >>
      /\ a.inl = << >> /\ a.st = "run"
  BY <1>1, MakeActIs
<1>5. Root \in Methods /\ Info[Root].params = << >> /\ Info[Root].static
  BY InfoAssumption
<1>6. JVMWords(Root, 0) = << >> /\ args_size(Root) = 0
  BY RootWords
<1>7. Act(a)
  <2>1. Given(a)
    BY <1>4, <1>6 DEF Given
  <2>2. QED
    BY <1>4, <1>5, <2>1, NewAct
<1>8. FrameOK(f)
  <2>1. f = [i \in FrameFields |-> f[i]] /\ f.base = 3 /\ f.optop = 3
    BY <1>2 DEF FrameFields
  <2>2. QED
    BY <2>1 DEF FrameOK
<1>9. FrameAt(f, mem, a)
  <2>1. f.m = Root /\ f.ebp = 0 /\ f.vars = 1 /\ f.base = 3
    BY <1>2
  <2>2. Lie(mem, 1, << >>)
    BY Empty DEF Lie
  <2>3. QED
    BY <1>4, <1>6, <2>1, <2>2, BoundAssumption DEF FrameAt
<1>10. PICK s, fs : s = <<a>> /\ fs = <<f>>
  OBVIOUS
<1>11. IsSeq(s) /\ Len(s) = 1 /\ s[1] = a /\ IsSeq(fs) /\ Len(fs) = 1 /\ fs[1] = f
  <2>1. IsSeq(s) /\ IsSeq(fs)
    <3>1. s \in Seq({a}) /\ fs \in Seq({f})
      BY <1>10
    <3>2. QED
      BY <3>1 DEF IsSeq
  <2>2. QED
    BY <1>10, <2>1
<1>12. Stacked(fs, 1)
  BY <1>8, <1>11 DEF Stacked, FrameOK
<1>13. Core(s, 1, fs, 1, mem, [i \in 1 .. 1 |-> 1])
  BY <1>4, <1>7, <1>9, <1>11, <1>12 DEF Core
<1>14. Arr(s, fs, mem)
  BY <1>11, <1>13 DEF Arr
<1>15. Words32(mem)
  BY <1>3 DEF Words32
<1>16. Quiet(Tip(s))
  BY <1>4, <1>11 DEF Quiet, Tip
<1>17. Spot(Tip(s), fs, mem, ok, build)
  BY <1>16, QuietSpot
<1>18. stk = s /\ frames = fs
  BY <1>3, <1>10
<1>19. QED
  BY <1>14, <1>15, <1>17, <1>18 DEF Laid

\* What another thread does leaves the stacks alone.
LEMMA StutterLaid ==
  ASSUME Laid, UNCHANGED <<stk, frames, mem, ok, build>>
  PROVE  Laid'
BY LaidBy DEF Laid

LEMMA NextLaid ==
  ASSUME Laid, [Next]_vars
  PROVE  Laid'
<1>1. ASSUME NEW m \in Methods,
             InvokeCore(m) \/ InlinedEnter(m) \/ RemoteInvoke(m) \/ InterpCall(m) \/ NativeCall(m)
      PROVE  Laid'
  BY <1>1, InvokeCoreLaid, InlinedLaid, RemoteInvokeLaid, InterpCallLaid, NativeCallLaid
<1>2. ASSUME NEW m \in Methods, OtherStarts(m) \/ OtherFlags(m) \/ OtherDone(m)
      PROVE  Laid'
  BY <1>2, StutterLaid DEF OtherStarts, OtherFlags, OtherDone
<1>3. CASE UNCHANGED vars
  BY <1>3, StutterLaid DEF vars
<1>4. CASE InlinedExit
  BY <1>4, InlinedLaid, InfoAssumption
<1>5. CASE CompiledReturn \/ CompiledThrow \/ InvokeCoreDone \/ RemoteDone
  BY <1>5, CompiledLaid, RemoteDoneLaid
<1>6. CASE HelperEntry \/ HelperNative \/ HelperInvoke \/ HelperInvoked \/ HelperExecuted
  BY <1>6, HelperEntryLaid, HelperNativeLaid, HelperInvokeLaid, HelperInvokedLaid,
     HelperExecutedLaid
<1>7. CASE CandiEntry \/ CandiCompile \/ CandiCall \/ CandiDone \/ CandiNormal \/ CandiExecuted
  BY <1>7, CandiEntryLaid, CandiCompileLaid, CandiCallLaid, CandiDoneLaid, CandiNormalLaid,
     CandiExecutedLaid
<1>8. CASE JITEnter \/ JITDone
  BY <1>8, JITEnterLaid, JITDoneLaid
<1>9. CASE InterpReturn \/ InterpThrow \/ InterpBack \/ NativeReturn \/ NativeBack
  BY <1>9, ReturnLaid, InterpBackLaid, NativeBackLaid
<1>10. QED
  BY <1>1, <1>2, <1>3, <1>4, <1>5, <1>6, <1>7, <1>8, <1>9 DEF Next

\* The native stack and the Java stack stay in step: activation by activation the
\* same frame is under both, each activation was given the words of its call, the
\* variables of interpreted activations lie in their frame, and the words a callee
\* is about to read lie at the operand stack pointer of the current frame.
THEOREM StacksInStep == Spec => []Laid
<1>1. Init => Laid
  BY InitLaid
<1>2. Laid /\ [Next]_vars => Laid'
  BY NextLaid
<1>3. QED
  BY <1>1, <1>2, PTL DEF Spec

-----------------------------------------------------------------------------

\* Whoever runs a method has got the words of that very call in the layout of its
\* kind: compiled code, the interpreter, native functions through both interfaces
\* and a remote VM, for every signature (invocationHelper(),
\* invokeJITCompiledMethod(), the JVM's invokers and proxy_invoke()).
THEOREM WordsArrive == Spec => []ArgsDelivered
<1>1. ASSUME Laid PROVE ArgsDelivered
  <2>1. PICK n \in Nat : n = Len(stk)
    BY <1>1, LaidTop
  <2>2. Arr(stk, frames, mem)
    BY <1>1 DEF Laid
  <2>3. IsSeq(stk) /\ \A i \in 1 .. n : Act(stk[i])
    BY <2>1, <2>2 DEF Arr, Core
  <2>4. DOMAIN stk = 1 .. n
    BY <2>1, <2>3, SeqFacts
  <2>5. ASSUME NEW i \in 1 .. n, NEW r, r = stk[i]
        PROVE  /\ r.k = "comp" => r.loc = NativeWords(r.m, r.c)
               /\ r.k \in {"interp", "native"} => r.loc = JVMWords(r.m, r.c)
               /\ r.k \in {"jni", "nmi"} => r.loc = CArgs(r.m, r.c, r.k)
               /\ r.k = "remote" /\ ~ Misparsed(r.m) => BoxedArgs(r.loc, r.m) = BoxedWords(r.m, r.c)
    <3>1. Given(r) /\ r.m \in Methods
      BY <2>3, <2>5 DEF Act
    <3>2. ASSUME r.k = "remote", ~ Misparsed(r.m)
          PROVE  BoxedArgs(r.loc, r.m) = BoxedWords(r.m, r.c)
      <4>1. r.loc = NativeWords(r.m, r.c) /\ ~ Info[r.m].static
        BY <3>1, <3>2 DEF Given
      <4>2. QED
        BY <3>1, <3>2, <4>1, BoxedLayout
    <3>3. QED
      BY <3>1, <3>2 DEF Given
  <2>6. QED
    BY <2>4, <2>5 DEF ArgsDelivered
<1>2. QED
  BY <1>1, StacksInStep, PTL

\* The variables of interpreted activations on the Java stack are not overwritten
\* by the calls made above them: CREATE_JAVAFRAME leaves room for them, and
\* compileMethod() runs behind the arguments (compileAndInvokeMethod()).
THEOREM VariablesStay == Spec => []VariablesKept
<1>1. ASSUME Laid PROVE VariablesKept
  <2>1. PICK n, p : n = Len(stk) /\ p = Len(frames)
    OBVIOUS
  <2>2. Arr(stk, frames, mem)
    BY <1>1 DEF Laid
  <2>3. PICK d : Core(stk, n, frames, p, mem, d)
    BY <2>1, <2>2 DEF Arr
  <2>4. IsSeq(stk) /\ IsSeq(frames)
    BY <2>2 DEF Arr
  <2>5. /\ \A i \in 1 .. n : Act(stk[i])
        /\ \A i \in 1 .. n : d[i] \in 1 .. p /\ FrameAt(frames[d[i]], mem, stk[i])
    BY <2>3 DEF Core
  <2>6. DOMAIN stk = 1 .. n /\ DOMAIN frames = 1 .. p
    BY <2>1, <2>4, SeqFacts
  <2>7. ASSUME NEW i \in 1 .. n, stk[i].k \in {"interp", "native"}
        PROVE  \E j \in 1 .. p :
                 /\ frames[j].m = stk[i].m /\ frames[j].ebp = 0
                 /\ Get(frames[j].vars, args_size(stk[i].m)) = JVMWords(stk[i].m, stk[i].c)
    <3>1. PICK r, j, f : r = stk[i] /\ j = d[i] /\ f = frames[j]
      OBVIOUS
    <3>2. Reader(r)
      BY <2>7, <3>1 DEF Reader
    <3>3. FrameAt(f, mem, r) /\ j \in 1 .. p /\ r.m \in Methods
      BY <2>5, <3>1 DEF Act
    <3>4. /\ f.m = r.m /\ f.ebp = 0 /\ f.vars \in Int
          /\ f.vars + args_size(r.m) <= StackWords + 1
          /\ Lie(mem, f.vars, JVMWords(r.m, r.c))
      BY <3>2, <3>3 DEF FrameAt
    <3>5. PICK a, ws : a \in Nat /\ ws = JVMWords(r.m, r.c) /\ a = args_size(r.m)
      BY <3>3, Layouts
    <3>6. IsSeq(ws) /\ a = Len(ws)
      BY <3>3, <3>5, Layouts
    <3>7. PICK z \in Int : z = f.vars
      BY <3>4
    <3>8. Lie(mem, z, ws) /\ z + a <= StackWords + 1
      BY <3>4, <3>5, <3>7
    <3>9. Get(z, a) = ws
      BY <3>6, <3>8, GetWords
    <3>10. QED
      BY <3>1, <3>3, <3>4, <3>5, <3>7, <3>9
  <2>8. QED
    BY <2>6, <2>7 DEF VariablesKept
<1>2. QED
  BY <1>1, StacksInStep, PTL

-----------------------------------------------------------------------------
(* The monitors. held is the concatenation of what each activation has     *)
(* entered; a call appends to it, a return takes its last element off.     *)

\* the monitor the activation has to exit
LockWords(r) == IF Holds(r) THEN <<Lock(r.m, <<r.c, 0, "w">>)>> ELSE << >>
LockGroups(s) == [i \in 1 .. Len(s) |-> LockWords(s[i])]

\* h: the monitors of all activations of s; b: of those below the innermost one
Bal(s, h) == IsSeq(s) /\ h = Joined(LockGroups(s))[Len(s)]
Under(s, b) == IsSeq(s) /\ IsSeq(b) /\ Len(s) >= 1 /\ b = Joined(LockGroups(s))[Len(s) - 1]

LEMMA LockSeq ==
  ASSUME NEW r
  PROVE  IsSeq(LockWords(r)) /\ Len(LockWords(r)) \in {0, 1}
BY WordsSeq, Empty DEF LockWords

LEMMA GroupsOf ==
  ASSUME NEW s, IsSeq(s), NEW n \in Nat, n = Len(s), NEW gs, gs = LockGroups(s)
  PROVE  /\ Groups(gs, n) /\ IsSeq(gs) /\ \A i \in 1 .. n : gs[i] = LockWords(s[i])
         /\ Joined(gs)[0] = << >>
         /\ \A k \in 1 .. n : Joined(gs)[k] = Joined(gs)[k - 1] \o LockWords(s[k])
         /\ \A k \in 0 .. n : IsSeq(Joined(gs)[k])
<1>1. gs = [i \in 1 .. n |-> gs[i]] /\ \A i \in 1 .. n : gs[i] = LockWords(s[i])
  BY DEF LockGroups
<1>2. IsSeq(gs)
  BY <1>1, FunSeq
<1>3. Len(gs) = n
  BY <1>1, FunSeq
<1>4. Groups(gs, n)
  BY <1>1, <1>3, LockSeq DEF Groups
<1>5. /\ Joined(gs)[0] = << >>
      /\ \A k \in 1 .. n : Joined(gs)[k] = Joined(gs)[k - 1] \o gs[k]
  BY <1>3, JoinedStep
<1>6. \A k \in 0 .. n : IsSeq(Joined(gs)[k])
  BY <1>4, JoinedLen
<1>7. QED
  BY <1>1, <1>2, <1>4, <1>5, <1>6

\* Stacks that agree on the k outermost activations
LEMMA SameBelow ==
  ASSUME NEW s, NEW r, IsSeq(s), IsSeq(r), NEW k \in Nat, k <= Len(s), k <= Len(r),
         \A i \in 1 .. k : r[i] = s[i]
  PROVE  Joined(LockGroups(r))[k] = Joined(LockGroups(s))[k]
<1>1. PICK n, p : n = Len(s) /\ p = Len(r)
  OBVIOUS
<1>2. n \in Nat /\ p \in Nat
  BY <1>1, SeqFacts
<1>3. PICK gs, hs : gs = LockGroups(s) /\ hs = LockGroups(r)
  OBVIOUS
<1>4. Groups(gs, n) /\ \A i \in 1 .. n : gs[i] = LockWords(s[i])
  BY <1>1, <1>2, <1>3, GroupsOf
<1>5. Groups(hs, p) /\ \A i \in 1 .. p : hs[i] = LockWords(r[i])
  BY <1>1, <1>2, <1>3, GroupsOf
<1>6. Len(gs) = n /\ Len(hs) = p
  BY <1>4, <1>5 DEF Groups
<1>7. k <= Len(gs) /\ k <= Len(hs) /\ Len(gs) \in Nat /\ Len(hs) \in Nat
  BY <1>1, <1>2, <1>6
<1>8. \A i \in 1 .. k : hs[i] = gs[i]
  BY <1>1, <1>2, <1>4, <1>5
<1>9. \A i \in 0 .. k : Joined(hs)[i] = Joined(gs)[i]
  BY <1>7, <1>8, JoinedPrefix
<1>10. k \in 0 .. k
  OBVIOUS
<1>11. QED
  BY <1>3, <1>9, <1>10

LEMMA BalTop ==
  ASSUME NEW s, Len(s) >= 1, NEW h, Bal(s, h)
  PROVE  \E b : Under(s, b) /\ h = b \o LockWords(Tip(s))
<1>1. PICK n : n = Len(s)
  OBVIOUS
<1>2. n \in Nat /\ n >= 1 /\ IsSeq(s)
  BY <1>1, SeqFacts DEF Bal
<1>3. PICK gs : gs = LockGroups(s)
  OBVIOUS
<1>4. PICK b : b = Joined(gs)[n - 1]
  OBVIOUS
<1>5. n \in 1 .. n /\ n - 1 \in 0 .. n
  BY <1>2
<1>6. IsSeq(b)
  BY <1>1, <1>2, <1>3, <1>4, <1>5, GroupsOf
<1>7. Joined(gs)[n] = b \o LockWords(s[n])
  BY <1>1, <1>2, <1>3, <1>4, <1>5, GroupsOf
<1>8. h = b \o LockWords(Tip(s))
  BY <1>1, <1>3, <1>7 DEF Bal, Tip
<1>9. Under(s, b)
  BY <1>1, <1>2, <1>3, <1>4, <1>6 DEF Under
<1>10. QED
  BY <1>8, <1>9

LEMMA BalIs ==
  ASSUME NEW s, NEW b, Under(s, b), NEW h, h = b \o LockWords(Tip(s))
  PROVE  Bal(s, h)
<1>1. PICK n : n = Len(s)
  OBVIOUS
<1>2. n \in Nat /\ n >= 1 /\ IsSeq(s)
  BY <1>1, SeqFacts DEF Under
<1>3. PICK gs : gs = LockGroups(s)
  OBVIOUS
<1>5. n \in 1 .. n
  BY <1>2
<1>7. Joined(gs)[n] = Joined(gs)[n - 1] \o LockWords(s[n])
  BY <1>1, <1>2, <1>3, <1>5, GroupsOf
<1>8. b = Joined(gs)[n - 1]
  BY <1>1, <1>3 DEF Under
<1>9. h = Joined(gs)[n]
  BY <1>1, <1>7, <1>8 DEF Tip
<1>10. QED
  BY <1>1, <1>2, <1>3, <1>9 DEF Bal

LEMMA BalPut ==
  ASSUME NEW s, NEW b, Under(s, b), NEW f, NEW r, Put1(s, f, r)
  PROVE  Under(r, b)
<1>1. PICK n : n = Len(s)
  OBVIOUS
<1>2. n \in Nat /\ n >= 1 /\ IsSeq(s) /\ IsSeq(r) /\ Len(r) = n /\ IsSeq(b)
  BY <1>1, SeqFacts DEF Under, Put1
<1>3. PICK k : k = n - 1
  OBVIOUS
<1>4. k \in Nat /\ k <= Len(s) /\ k <= Len(r) /\ \A i \in 1 .. k : r[i] = s[i]
  BY <1>1, <1>2, <1>3 DEF Put1
<1>5. Joined(LockGroups(r))[k] = Joined(LockGroups(s))[k]
  BY <1>2, <1>4, SameBelow
<1>6. QED
  BY <1>1, <1>2, <1>3, <1>5 DEF Under

LEMMA BalPush ==
  ASSUME NEW s, NEW b, Under(s, b), NEW f, NEW r, Push1(s, f, r),
         NEW a, a = b \o LockWords(Tip(s))
  PROVE  Under(r, a)
<1>1. PICK n : n = Len(s)
  OBVIOUS
<1>2. n \in Nat /\ n >= 1 /\ IsSeq(s) /\ IsSeq(r) /\ Len(r) = n + 1 /\ IsSeq(b)
  BY <1>1, SeqFacts DEF Under, Push1
<1>3. Bal(s, a)
  BY BalIs
<1>4. a = Joined(LockGroups(s))[n]
  BY <1>1, <1>3 DEF Bal
<1>5. n <= Len(s) /\ n <= Len(r) /\ \A i \in 1 .. n : r[i] = s[i]
  BY <1>1, <1>2 DEF Push1
<1>6. Joined(LockGroups(r))[n] = Joined(LockGroups(s))[n]
  BY <1>2, <1>5, SameBelow
<1>7. IsSeq(a)
  BY <1>2, LockSeq, Cat
<1>8. PICK p : p = Len(r)
  OBVIOUS
<1>9. p - 1 = n /\ p >= 1
  BY <1>2, <1>8
<1>10. a = Joined(LockGroups(r))[p - 1]
  BY <1>4, <1>6, <1>9
<1>11. QED
  BY <1>2, <1>7, <1>8, <1>9, <1>10 DEF Under

LEMMA BalPop ==
  ASSUME NEW s, NEW b, Under(s, b), NEW r, Pop1(s, r)
  PROVE  Bal(r, b)
<1>1. PICK n : n = Len(s)
  OBVIOUS
<1>2. n \in Nat /\ n >= 1 /\ IsSeq(s) /\ IsSeq(r) /\ Len(r) = n - 1
  BY <1>1, SeqFacts DEF Under, Pop1
<1>3. PICK k : k = n - 1
  OBVIOUS
<1>4. k \in Nat /\ k <= Len(s) /\ k <= Len(r) /\ \A i \in 1 .. k : r[i] = s[i]
  BY <1>1, <1>2, <1>3 DEF Pop1
<1>5. Joined(LockGroups(r))[k] = Joined(LockGroups(s))[k]
  BY <1>2, <1>4, SameBelow
<1>6. QED
  BY <1>1, <1>2, <1>3, <1>5 DEF Under, Bal

-----------------------------------------------------------------------------
(* Entering and exiting a monitor.                                         *)

\* what a call of m adds
Entry(m, c) == IF Info[m].sync THEN <<Lock(m, <<c, 0, "w">>)>> ELSE << >>

\* first is the receiver, when the monitor is the receiver's
Receives(m, c, first) == Info[m].sync /\ ~ Info[m].static => first = <<c, 0, "w">>

LEMMA AppendCat ==
  ASSUME NEW s, IsSeq(s), NEW e
  PROVE  Append(s, e) = s \o <<e>>
<1>1. PICK S : s \in Seq(S)
  BY DEF IsSeq
<1>2. s \in Seq(S \cup {e}) /\ e \in S \cup {e}
  BY <1>1
<1>3. QED
  BY <1>2, AppendIsConcat

LEMMA EnterAdds ==
  ASSUME IsSeq(held), NEW m, NEW c, NEW first, Receives(m, c, first)
  PROVE  monitorEnter(m, first) = held \o Entry(m, c)
<1>1. PICK l, k : l = Lock(m, first) /\ k = <<c, 0, "w">>
  OBVIOUS
<1>2. Info[m].sync => l = Lock(m, k)
  BY <1>1 DEF Receives, Lock
<1>3. CASE Info[m].sync
  BY <1>1, <1>2, <1>3, AppendCat DEF monitorEnter, Entry
<1>4. CASE ~ Info[m].sync
  BY <1>4, Empty DEF monitorEnter, Entry
<1>5. QED
  BY <1>3, <1>4

Ended(h, b, e, n) == h = b \o <<e>> /\ n = Len(h)
LastOf(h, b, e, n) ==
  n \in Nat /\ n \in DOMAIN h /\ h[n] = e /\ RemoveAt(h, n) = b /\ DOMAIN h = 1 .. n

LEMMA RemoveLast ==
  ASSUME NEW b, IsSeq(b), NEW e, NEW h, NEW n, Ended(h, b, e, n)
  PROVE  LastOf(h, b, e, n)
<1>1. PICK x : x = <<e>>
  OBVIOUS
<1>2. IsSeq(x) /\ Len(x) = 1 /\ x[1] = e
  BY <1>1, WordsSeq
<1>3. h = b \o x
  BY <1>1 DEF Ended
<1>4. IsSeq(h)
  BY <1>2, <1>3, Cat
<1>5. Len(h) = Len(b) + Len(x)
  BY <1>2, <1>3, Cat
<1>6. \A k \in 1 .. Len(b) : h[k] = b[k]
  BY <1>2, <1>3, Cat
<1>7. \A k \in 1 .. Len(x) : h[Len(b) + k] = x[k]
  <2>1. IsSeq(b) /\ IsSeq(x)
    BY <1>2
  <2>2. \A k \in 1 .. Len(x) : (b \o x)[Len(b) + k] = x[k]
    BY <2>1, Cat
  <2>3. QED
    BY <1>3, <2>2
<1>8. PICK p \in Nat : p = Len(b)
  BY SeqFacts
<1>19. n = Len(h)
  BY DEF Ended
<1>9. n = p + 1 /\ h[p + 1] = e
  BY <1>2, <1>5, <1>7, <1>8, <1>19
<1>10. DOMAIN h = 1 .. n
  BY <1>4, <1>19, SeqFacts
<1>11. PICK S : h \in Seq(S)
  BY <1>4 DEF IsSeq
<1>12. PICK u, v : u = SubSeq(h, 1, p) /\ v = SubSeq(h, n + 1, n)
  OBVIOUS
<1>13. v = << >>
  <2>1. n + 1 > n /\ n + 1 \in Int /\ n \in Int
    BY <1>9
  <2>2. QED
    BY <1>12, <2>1, SubSeqEmpty
<1>14. IsSeq(u) /\ Len(u) = p /\ \A k \in 1 .. p : u[k] = h[k]
  <2>1. h # << >>
    <3>1. Len(h) # 0
      BY <1>9, <1>19
    <3>2. QED
      BY <3>1
  <2>2. u = SubSeq(h, 1, Len(h) - 1)
    BY <1>9, <1>12, <1>19
  <2>3. IsSeq(u) /\ Len(u) = Len(h) - 1
    BY <1>4, <2>1, <2>2, Pop
  <2>4. \A k \in 1 .. Len(u) : u[k] = h[k]
    BY <1>4, <2>1, <2>2, Pop
  <2>5. QED
    BY <1>9, <1>19, <2>3, <2>4
<1>15. u = b
  BY <1>6, <1>8, <1>14, Same
<1>16. RemoveAt(h, n) = u \o v
  <2>1. RemoveAt(h, n) = SubSeq(h, 1, n - 1) \o SubSeq(h, n + 1, Len(h))
    BY DEF RemoveAt
  <2>2. n - 1 = p
    BY <1>9
  <2>3. u = SubSeq(h, 1, n - 1) /\ v = SubSeq(h, n + 1, Len(h))
    BY <1>12, <1>19, <2>2
  <2>4. QED
    BY <2>1, <2>3
<1>17. u \o v = u
  BY <1>13, <1>14, Empty
<1>18. QED
  BY <1>9, <1>10, <1>15, <1>16, <1>17 DEF LastOf

LEMMA ExitTakes ==
  ASSUME NEW b, IsSeq(b), NEW m, NEW c, held = b \o Entry(m, c), NEW first, Receives(m, c, first)
  PROVE  monitorExit(m, first) = b
<1>1. PICK l, k : l = Lock(m, first) /\ k = <<c, 0, "w">>
  OBVIOUS
<1>2. Info[m].sync => l = Lock(m, k)
  BY <1>1 DEF Receives, Lock
<1>3. CASE Info[m].sync
  <2>1. held = b \o <<l>>
    BY <1>1, <1>2, <1>3 DEF Entry
  <2>2. PICK n : n = Len(held)
    OBVIOUS
  <2>11. Ended(held, b, l, n)
    BY <2>1, <2>2 DEF Ended
  <2>12. LastOf(held, b, l, n)
    BY <2>11, RemoveLast
  <2>3. n \in Nat /\ n \in DOMAIN held /\ held[n] = l /\ RemoveAt(held, n) = b /\ DOMAIN held = 1 .. n
    BY <2>12 DEF LastOf
  <2>4. PICK at : at = {i \in DOMAIN held : held[i] = l}
    OBVIOUS
  <2>5. n \in at /\ \A j \in at : j <= n /\ j \in Nat
    BY <2>3, <2>4
  <2>6. PICK last : last = CHOOSE i \in at : \A j \in at : j <= i
    OBVIOUS
  <2>7. last \in at /\ \A j \in at : j <= last
    BY <2>5, <2>6
  <2>8. last = n
    BY <2>3, <2>5, <2>7
  <2>9. monitorExit(m, first) = RemoveAt(held, last)
    BY <1>1, <1>3, <2>4, <2>5, <2>6 DEF monitorExit
  <2>10. QED
    BY <2>3, <2>8, <2>9
<1>4. CASE ~ Info[m].sync
  BY <1>4, Empty DEF monitorExit, Entry
<1>5. QED
  BY <1>3, <1>4

-----------------------------------------------------------------------------
(* Activations with a monitor.                                             *)

\* the activations that have to exit the monitor of their method
Grips(r) ==
  \/ r.k \in {"comp", "interp", "native"}
  \/ r.k = "helper" /\ r.st = "native"
  \/ r.k = "helper" /\ r.st = "invoked" /\ r.inv = "java"

Balanced == Laid /\ Bal(stk, held)

LEMMA Grip ==
  ASSUME NEW r
  PROVE  /\ Grips(r) => LockWords(r) = Entry(r.m, r.c)
         /\ ~ Grips(r) => LockWords(r) = << >>
BY DEF Grips, Holds, LockWords, Entry

LEMMA EntrySeq ==
  ASSUME NEW m, NEW c
  PROVE  IsSeq(Entry(m, c))
BY WordsSeq, Empty DEF Entry

LEMMA SameGrip ==
  ASSUME NEW f, NEW t, Goes(f, t), Grips(f) <=> Grips(t)
  PROVE  LockWords(f) = LockWords(t)
<1>1. CASE Grips(f)
  BY <1>1, Grip DEF Goes
<1>2. CASE ~ Grips(f)
  BY <1>2, Grip
<1>3. QED
  BY <1>1, <1>2

LEMMA BalNow ==
  ASSUME Balanced
  PROVE  \E b : Under(stk, b) /\ IsSeq(b) /\ held = b \o LockWords(Top)
<1>1. Len(stk) >= 1 /\ Top = Tip(stk) /\ Bal(stk, held)
  BY LaidTop DEF Balanced
<1>2. PICK b : Under(stk, b) /\ held = b \o LockWords(Tip(stk))
  BY <1>1, BalTop
<1>3. QED
  BY <1>1, <1>2 DEF Under

LEMMA SetBal ==
  ASSUME NEW b, Under(stk, b), NEW f, Put1(stk, f, stk'), held' = b \o LockWords(f)
  PROVE  Bal(stk', held')
<1>1. PICK s, h : s = stk' /\ h = held'
  OBVIOUS
<1>2. Put1(stk, f, s)
  BY <1>1
<1>3. Under(s, b)
  BY <1>2, BalPut
<1>4. Tip(s) = f
  BY <1>2, PutTip
<1>5. h = b \o LockWords(Tip(s))
  BY <1>1, <1>4
<1>6. Bal(s, h)
  BY <1>3, <1>5, BalIs
<1>7. QED
  BY <1>1, <1>6

LEMMA PushBal ==
  ASSUME NEW b, Under(stk, b), NEW f, NEW s, Put1(stk, f, s), NEW g, stk' = Append(s, g),
         held' = (b \o LockWords(f)) \o LockWords(g)
  PROVE  Bal(stk', held')
<1>1. PICK r, h : r = stk' /\ h = held'
  OBVIOUS
<1>2. IsSeq(s) /\ r = Append(s, g)
  BY <1>1 DEF Put1
<1>3. Push1(s, g, r)
  BY <1>2, PushIs
<1>4. Under(s, b)
  BY BalPut
<1>5. Tip(s) = f /\ Tip(r) = g
  BY <1>3, PutTip, PushTip
<1>6. PICK a : a = b \o LockWords(Tip(s))
  OBVIOUS
<1>7. Under(r, a)
  BY <1>3, <1>4, <1>6, BalPush
<1>8. h = a \o LockWords(Tip(r))
  BY <1>1, <1>5, <1>6
<1>9. Bal(r, h)
  BY <1>7, <1>8, BalIs
<1>10. QED
  BY <1>1, <1>9

LEMMA PopBal ==
  ASSUME Laid, Len(stk) > 1, NEW b, Under(stk, b), stk' = Front(stk), held' = b
  PROVE  Bal(stk', held')
<1>1. PICK r : r = Front(stk)
  OBVIOUS
<1>2. Pop1(stk, r)
  BY <1>1, BelowIs
<1>3. Bal(r, b)
  BY <1>2, BalPop
<1>4. QED
  BY <1>1, <1>3

-----------------------------------------------------------------------------
(* The moves.                                                              *)

\* Nothing is entered or exited.
LEMMA StayBal ==
  ASSUME Balanced, NEW f, Put1(stk, f, stk'), Goes(f, Top), Grips(f) <=> Grips(Top),
         held' = held
  PROVE  Bal(stk', held')
<1>1. PICK b : Under(stk, b) /\ held = b \o LockWords(Top)
  BY BalNow
<1>2. LockWords(f) = LockWords(Top)
  BY SameGrip
<1>3. QED
  BY <1>1, <1>2, SetBal

LEMMA AtBal ==
  ASSUME Balanced, Top.k # "helper", NEW st, stk' = At(st), held' = held
  PROVE  Bal(stk', held')
<1>1. PICK f : Put1(stk, f, At(st)) /\ Next1(f, Top)
  BY AtIs DEF Balanced
<1>2. Goes(f, Top) /\ Put1(stk, f, stk')
  BY <1>1 DEF Next1
<1>3. Grips(f) <=> Grips(Top)
  BY <1>2 DEF Grips, Goes
<1>4. QED
  BY <1>2, <1>3, StayBal

\* A call: the callee enters its monitor, if it has one.
LEMMA CallBal ==
  ASSUME Balanced, NEW f, NEW s, Put1(stk, f, s), Goes(f, Top), Grips(f) <=> Grips(Top),
         NEW g, stk' = Append(s, g), held' = held \o LockWords(g)
  PROVE  Bal(stk', held')
<1>1. PICK b : Under(stk, b) /\ held = b \o LockWords(Top)
  BY BalNow
<1>2. LockWords(f) = LockWords(Top)
  BY SameGrip
<1>3. held' = (b \o LockWords(f)) \o LockWords(g)
  BY <1>1, <1>2
<1>4. QED
  BY <1>1, <1>3, PushBal

LEMMA AwaitBal ==
  ASSUME Balanced, Top.k # "helper", NEW m, NEW c, NEW g, stk' = Append(Await(m, c), g),
         held' = held \o LockWords(g)
  PROVE  Bal(stk', held')
<1>1. PICK f : Put1(stk, f, Await(m, c)) /\ Next1(f, Top)
  BY AwaitIs DEF Balanced
<1>2. Goes(f, Top)
  BY <1>1 DEF Next1
<1>3. Grips(f) <=> Grips(Top)
  BY <1>2 DEF Grips, Goes
<1>4. QED
  BY <1>1, <1>2, <1>3, CallBal

LEMMA AtCallBal ==
  ASSUME Balanced, Top.k # "helper", NEW st, NEW g, stk' = Append(At(st), g),
         held' = held \o LockWords(g)
  PROVE  Bal(stk', held')
<1>1. PICK f : Put1(stk, f, At(st)) /\ Next1(f, Top)
  BY AtIs DEF Balanced
<1>2. Goes(f, Top)
  BY <1>1 DEF Next1
<1>3. Grips(f) <=> Grips(Top)
  BY <1>2 DEF Grips, Goes
<1>4. QED
  BY <1>1, <1>2, <1>3, CallBal

\* A return of an activation without a monitor
LEMMA LeaveBal ==
  ASSUME Balanced, Len(stk) > 1, ~ Grips(Top), stk' = Front(stk), held' = held
  PROVE  Bal(stk', held')
<1>1. PICK b : Under(stk, b) /\ IsSeq(b) /\ held = b \o LockWords(Top)
  BY BalNow
<1>2. LockWords(Top) = << >>
  BY Grip
<1>3. held = b
  BY <1>1, <1>2, Empty
<1>4. QED
  BY <1>1, <1>3, PopBal DEF Balanced

\* A return of one that exits its monitor
LEMMA ExitBal ==
  ASSUME Balanced, Len(stk) > 1, Grips(Top), NEW first, Receives(Top.m, Top.c, first),
         stk' = Front(stk), held' = monitorExit(Top.m, first)
  PROVE  Bal(stk', held')
<1>1. PICK b : Under(stk, b) /\ IsSeq(b) /\ held = b \o LockWords(Top)
  BY BalNow
<1>2. held = b \o Entry(Top.m, Top.c)
  BY <1>1, Grip
<1>3. monitorExit(Top.m, first) = b
  BY <1>1, <1>2, ExitTakes
<1>4. QED
  BY <1>1, <1>3, PopBal DEF Balanced

\* A call whose callee enters its monitor
LEMMA EnterIs ==
  ASSUME Balanced, NEW m, NEW c, NEW first, Receives(m, c, first),
         NEW g, Grips(g), g.m = m, g.c = c
  PROVE  monitorEnter(m, first) = held \o LockWords(g)
<1>1. IsSeq(held)
  <2>1. PICK b : IsSeq(b) /\ held = b \o LockWords(Top)
    BY BalNow
  <2>2. IsSeq(LockWords(Top))
    BY LockSeq
  <2>3. QED
    BY <2>1, <2>2, Cat
<1>2. LockWords(g) = Entry(m, c)
  BY Grip
<1>3. QED
  BY <1>1, <1>2, EnterAdds

\* ... and one without a monitor
LEMMA NoEnterIs ==
  ASSUME Balanced, NEW g, ~ Grips(g)
  PROVE  held = held \o LockWords(g)
<1>1. IsSeq(held)
  <2>1. PICK b : IsSeq(b) /\ held = b \o LockWords(Top)
    BY BalNow
  <2>2. IsSeq(LockWords(Top))
    BY LockSeq
  <2>3. QED
    BY <2>1, <2>2, Cat
<1>2. LockWords(g) = << >>
  BY Grip
<1>3. QED
  BY <1>1, <1>2, Empty

-----------------------------------------------------------------------------
(* Where a method finds its receiver.                                      *)

LEMMA FirstNative ==
  ASSUME NEW m \in Methods, NEW c
  PROVE  Receives(m, c, First(NativeWords(m, c))) /\ Receives(m, c, First(JVMWords(m, c)))
<1>1. CASE Info[m].static
  BY <1>1 DEF Receives
<1>2. CASE ~ Info[m].static
  <2>1. PICK u, v, n : u = NativeWords(m, c) /\ v = JVMWords(m, c) /\ n = args_size(m)
    OBVIOUS
  <2>2. n \in Nat /\ IsSeq(u) /\ Len(u) = n /\ IsSeq(v) /\ Len(v) = n
    BY <2>1, Layouts
  <2>3. n >= 1 /\ u[1] = <<c, 0, "w">> /\ v[1] = <<c, 0, "w">>
    BY <1>2, <2>1, FirstWord
  <2>4. u # << >>
    BY <2>2, <2>3, Empty
  <2>5. v # << >>
    BY <2>2, <2>3, Empty
  <2>6. First(u) = <<c, 0, "w">> /\ First(v) = <<c, 0, "w">>
    BY <2>3, <2>4, <2>5 DEF First
  <2>7. QED
    BY <2>1, <2>6 DEF Receives
<1>3. QED
  BY <1>1, <1>2

LEMMA TopReceives ==
  ASSUME Laid
  PROVE  /\ Top.k \in {"comp", "helper", "interp", "native"} => Receives(Top.m, Top.c, First(Top.loc))
<1>1. Act(Top) /\ Top.m \in Methods
  BY LaidTop
<1>2. QED
  BY <1>1, FirstNative DEF Act, Given

\* the first word of the arguments on the Java stack
LEMMA LieReceives ==
  ASSUME Laid, NEW m \in Methods, NEW c, NEW w, Lie(w, optop, JVMWords(m, c)), Fits(nlocals(m))
  PROVE  Receives(m, c, w[optop])
<1>1. CASE Info[m].static
  BY <1>1 DEF Receives
<1>2. CASE ~ Info[m].static
  <2>1. PICK v, n : v = JVMWords(m, c) /\ n = args_size(m)
    OBVIOUS
  <2>2. IsSeq(v) /\ Len(v) = n /\ n \in Nat
    BY <2>1, Layouts
  <2>3. n >= 1 /\ v[1] = <<c, 0, "w">>
    BY <1>2, <2>1, FirstWord
  <2>4. PICK z \in Int : z = optop
    BY LaidTop DEF FrameOK
  <2>5. z <= StackWords
    BY <2>1, <2>2, <2>4, BoundAssumption DEF Fits, nlocals
  <2>6. 1 \in 1 .. Len(v) /\ z + 1 - 1 = z
    BY <2>2, <2>3, <2>4
  <2>7. w[z + 1 - 1] = v[1]
    BY <2>1, <2>4, <2>5, <2>6 DEF Lie
  <2>8. w[z] = v[1]
    BY <2>6, <2>7
  <2>9. QED
    BY <2>3, <2>4, <2>8 DEF Receives
<1>3. QED
  BY <1>1, <1>2

-----------------------------------------------------------------------------
(* Compiled code enters and exits.                                         *)

\* The helper enters the monitor itself: of a native function it calls, or of the
\* method it makes the frame for.
LEMMA TakeBal ==
  ASSUME Balanced, ~ Grips(Top), NEW f, NEW s, Put1(stk, f, s), Goes(f, Top), Grips(f),
         NEW first, Receives(Top.m, Top.c, first), held' = monitorEnter(Top.m, first),
         \/ stk' = s
         \/ \E g : ~ Grips(g) /\ stk' = Append(s, g)
  PROVE  Bal(stk', held')
<1>1. PICK b : Under(stk, b) /\ IsSeq(b) /\ held = b \o LockWords(Top)
  BY BalNow
<1>2. LockWords(Top) = << >>
  BY Grip
<1>3. held = b
  BY <1>1, <1>2, Empty
<1>4. LockWords(f) = Entry(Top.m, Top.c)
  BY Grip DEF Goes
<1>5. held' = b \o LockWords(f)
  BY <1>1, <1>3, <1>4, EnterAdds
<1>6. CASE stk' = s
  BY <1>1, <1>5, <1>6, SetBal
<1>7. ASSUME NEW g, ~ Grips(g), stk' = Append(s, g) PROVE Bal(stk', held')
  <2>1. LockWords(g) = << >>
    BY <1>7, Grip
  <2>2. PICK a : a = b \o LockWords(f)
    OBVIOUS
  <2>3. IsSeq(a)
    BY <1>1, <2>2, LockSeq, Cat
  <2>4. a = a \o LockWords(g)
    BY <2>1, <2>3, Empty
  <2>5. held' = (b \o LockWords(f)) \o LockWords(g)
    BY <1>5, <2>2, <2>4
  <2>6. QED
    BY <1>1, <1>7, <2>5, PushBal
<1>8. QED
  BY <1>6, <1>7

\* The interpreter takes the monitor over from the helper.
LEMMA GiveBal ==
  ASSUME Balanced, Grips(Top), NEW f, NEW s, Put1(stk, f, s), ~ Grips(f),
         NEW g, Grips(g), g.m = Top.m, g.c = Top.c, stk' = Append(s, g), held' = held
  PROVE  Bal(stk', held')
<1>1. PICK b : Under(stk, b) /\ IsSeq(b) /\ held = b \o LockWords(Top)
  BY BalNow
<1>2. LockWords(Top) = Entry(Top.m, Top.c) /\ LockWords(g) = Entry(Top.m, Top.c)
  BY Grip
<1>3. LockWords(f) = << >>
  BY Grip
<1>4. b \o LockWords(f) = b
  BY <1>1, <1>3, Empty
<1>5. held' = (b \o LockWords(f)) \o LockWords(g)
  BY <1>1, <1>2, <1>4
<1>6. QED
  BY <1>1, <1>5, PushBal

-----------------------------------------------------------------------------
(* Compiled code.                                                          *)

LEMMA InvokeCoreBal ==
  ASSUME Balanced, NEW m \in Methods, InvokeCore(m)
  PROVE  Bal(stk', held')
<1>1. Top.k = "comp"
  BY DEF InvokeCore, Running
<1>2. PICK c, ws : c = calls + 1 /\ ws = NativeWords(m, c)
  OBVIOUS
<1>3. CASE InvokeDirect(m, c)
  <2>1. PICK g : g = Activation("comp", m, c, ws)
    OBVIOUS
  <2>2. Grips(g) /\ g.m = m /\ g.c = c
    BY <2>1, MakeActIs DEF Grips
  <2>3. stk' = Append(Await(m, c), g) /\ held' = monitorEnter(m, First(ws))
    BY <1>2, <1>3, <2>1 DEF InvokeDirect
  <2>4. Receives(m, c, First(ws))
    BY <1>2, FirstNative
  <2>5. held' = held \o LockWords(g)
    BY <2>2, <2>3, <2>4, EnterIs
  <2>6. QED
    BY <1>1, <2>3, <2>5, AwaitBal
<1>4. CASE InvokeHelper(m, c)
  <2>1. PICK g : g = Activation("helper", m, c, ws)
    OBVIOUS
  <2>2. ~ Grips(g)
    BY <2>1, MakeActIs DEF Grips
  <2>3. stk' = Append(Await(m, c), g) /\ held' = held
    BY <1>2, <1>4, <2>1 DEF InvokeHelper
  <2>4. held' = held \o LockWords(g)
    BY <2>2, <2>3, NoEnterIs
  <2>5. QED
    BY <1>1, <2>3, <2>4, AwaitBal
<1>5. QED
  BY <1>2, <1>3, <1>4 DEF InvokeCore

\* methodInlining() is only given callers that are not synchronized, or that
\* lock their class.
PlainInlining == \A p \in Inlined : ~ Info[p[1]].sync \/ Info[p[1]].static

LEMMA EsiReceives ==
  ASSUME Laid, PlainInlining, Top.k = "comp"
  PROVE  Receives(Top.m, Top.c, Esi(Top))
<1>1. CASE Top.inl = << >>
  BY <1>1, TopReceives DEF Esi
<1>2. CASE Top.inl # << >>
  <2>1. <<Top.m, Top.inl[1].m>> \in Inlined
    BY <1>2, LaidTop DEF Act
  <2>2. ~ Info[Top.m].sync \/ Info[Top.m].static
    BY <2>1 DEF PlainInlining
  <2>3. QED
    BY <2>2 DEF Receives
<1>3. QED
  BY <1>1, <1>2

LEMMA TailBal ==
  ASSUME Balanced, PlainInlining, Top.k = "comp", NEW words, MethodTail(words)
  PROVE  Bal(stk', held')
<1>1. Laid
  BY DEF Balanced
<1>2. Len(stk) > 1 /\ Grips(Top)
  BY <1>1, LaidTop DEF Grips
<1>3. Receives(Top.m, Top.c, Esi(Top))
  BY <1>1, EsiReceives
<1>4. stk' = Front(stk) /\ held' = monitorExit(Top.m, Esi(Top))
  BY DEF MethodTail
<1>5. QED
  BY <1>2, <1>3, <1>4, ExitBal

LEMMA ChangedBal ==
  ASSUME Balanced, Top.k = "comp", NEW f, Changed(f), held' = held
  PROVE  Bal(stk', held')
<1>1. Put1(stk, f, stk') /\ Goes(f, Top)
  BY ChangedPut DEF Balanced
<1>2. Grips(f) <=> Grips(Top)
  BY <1>1 DEF Grips, Goes
<1>3. QED
  BY <1>1, <1>2, StayBal

LEMMA InlinedBal ==
  ASSUME Balanced, NEW m \in Methods, InlinedEnter(m) \/ InlinedExit
  PROVE  Bal(stk', held')
<1>1. Top.k = "comp" /\ held' = held
  BY DEF InlinedEnter, InlinedExit, Running
<1>2. PICK f : Changed(f)
  BY InlinedIs DEF Balanced
<1>3. QED
  BY <1>1, <1>2, ChangedBal

LEMMA CompiledBal ==
  ASSUME Balanced, PlainInlining, CompiledReturn \/ CompiledThrow \/ InvokeCoreDone
  PROVE  Bal(stk', held')
<1>1. Top.k = "comp"
  BY DEF CompiledReturn, CompiledThrow, InvokeCoreDone, Running
<1>2. CASE CompiledReturn
  BY <1>1, <1>2, TailBal DEF CompiledReturn
<1>3. CASE Catch
  <2>1. PICK f : Changed(f)
    BY <1>3, CatchIs DEF Balanced
  <2>2. held' = held
    BY <1>3 DEF Catch
  <2>3. QED
    BY <1>1, <2>1, <2>2, ChangedBal
<1>4. CASE Unwind
  BY <1>1, <1>4, TailBal DEF Unwind
<1>5. CASE stk' = At("run") /\ held' = held
  <2>1. Top.k # "helper"
    BY <1>1
  <2>2. QED
    BY <1>5, <2>1, AtBal
<1>6. QED
  BY <1>2, <1>3, <1>4, <1>5 DEF CompiledThrow, InvokeCoreDone

LEMMA RemoteInvokeBal ==
  ASSUME Balanced, NEW m \in Methods, RemoteInvoke(m)
  PROVE  Bal(stk', held')
<1>1. Top.k = "comp"
  BY DEF RemoteInvoke, Running
<1>2. PICK c, g : c = calls + 1 /\ g = Activation("remote", m, c, NativeWords(m, c))
  OBVIOUS
<1>3. ~ Grips(g)
  BY <1>2, MakeActIs DEF Grips
<1>4. stk' = Append(Await(m, c), g) /\ held' = held
  BY <1>2 DEF RemoteInvoke
<1>5. held' = held \o LockWords(g)
  BY <1>3, <1>4, NoEnterIs
<1>6. QED
  BY <1>1, <1>4, <1>5, AwaitBal

\* what is left without a monitor
LEMMA AwayBal ==
  ASSUME Balanced, Top.k # "interp", ~ Grips(Top), stk' = Front(stk), held' = held
  PROVE  Bal(stk', held')
<1>1. Len(stk) > 1
  BY LaidTop DEF Balanced
<1>2. QED
  BY <1>1, LeaveBal

LEMMA RemoteDoneBal ==
  ASSUME Balanced, RemoteDone
  PROVE  Bal(stk', held')
BY AwayBal DEF RemoteDone, Running, Grips

LEMMA OverflowBal ==
  ASSUME Balanced, Top.k # "interp", ~ Grips(Top), Overflow
  PROVE  Bal(stk', held')
BY AwayBal DEF Overflow

-----------------------------------------------------------------------------
(* invocationHelper().                                                     *)

LEMMA HelperEntryBal ==
  ASSUME Balanced, HelperEntry
  PROVE  Bal(stk', held')
<1>1. Top.k = "helper" /\ Top.st = "entry"
  BY DEF HelperEntry, Running
<1>2. ~ Grips(Top) /\ Top.k # "interp"
  BY <1>1 DEF Grips
<1>3. Laid
  BY DEF Balanced
<1>4. CASE Overflow
  BY <1>2, <1>4, OverflowBal
<1>5. CASE ViaInvoker
  <2>1. PICK f : Passing(f)
    BY <1>3, <1>5, ViaInvokerIs
  <2>2. Put1(stk, f, stk') /\ Goes(f, Top) /\ f.st = "invoke"
    BY <2>1 DEF Passing, Next1
  <2>3. ~ Grips(f)
    BY <1>1, <2>2 DEF Grips, Goes
  <2>4. held' = held
    BY <1>5 DEF ViaInvoker
  <2>5. QED
    BY <1>2, <2>2, <2>3, <2>4, StayBal
<1>6. ASSUME NEW g, g.k \in {"jni", "nmi"}, stk' = Append(At("native"), g),
             held' = monitorEnter(Top.m, First(Top.loc))
      PROVE  Bal(stk', held')
  <2>1. PICK f : Put1(stk, f, At("native")) /\ Next1(f, Top) /\ f.st = "native"
    BY <1>3, AtIs
  <2>2. Goes(f, Top)
    BY <2>1 DEF Next1
  <2>3. Grips(f)
    BY <1>1, <2>1, <2>2 DEF Grips, Goes
  <2>4. ~ Grips(g)
    BY <1>6 DEF Grips
  <2>5. Receives(Top.m, Top.c, First(Top.loc))
    BY <1>1, <1>3, TopReceives
  <2>6. QED
    BY <1>2, <1>6, <2>1, <2>2, <2>3, <2>4, <2>5, TakeBal
<1>7. CASE /\ stk' = Append(At("native"), Activation("jni", Top.m, Top.c, JNIArgs(Top.loc, Top.m)))
           /\ held' = monitorEnter(Top.m, First(Top.loc))
  <2>1. PICK g : g = Activation("jni", Top.m, Top.c, JNIArgs(Top.loc, Top.m))
    OBVIOUS
  <2>2. g.k = "jni"
    BY <2>1, MakeActIs
  <2>3. QED
    BY <1>6, <1>7, <2>1, <2>2
<1>8. CASE /\ stk' = Append(At("native"), Activation("nmi", Top.m, Top.c, NMIArgs(Top.loc, Top.m)))
           /\ held' = monitorEnter(Top.m, First(Top.loc))
  <2>1. PICK g : g = Activation("nmi", Top.m, Top.c, NMIArgs(Top.loc, Top.m))
    OBVIOUS
  <2>2. g.k = "nmi"
    BY <2>1, MakeActIs
  <2>3. QED
    BY <1>6, <1>8, <2>1, <2>2
<1>9. QED
  BY <1>4, <1>5, <1>7, <1>8 DEF HelperEntry, HelperJNI, HelperNMI, HelperJava

LEMMA HelperNativeBal ==
  ASSUME Balanced, HelperNative
  PROVE  Bal(stk', held')
<1>1. Top.k = "helper" /\ Top.st = "native"
  BY DEF HelperNative, Running
<1>2. Laid
  BY DEF Balanced
<1>3. Len(stk) > 1 /\ Grips(Top)
  BY <1>1, <1>2, LaidTop DEF Grips
<1>4. Receives(Top.m, Top.c, First(Top.loc))
  BY <1>1, <1>2, TopReceives
<1>5. stk' = Front(stk) /\ held' = monitorExit(Top.m, First(Top.loc))
  BY DEF HelperNative, HelperFinish, HelperReturn
<1>6. QED
  BY <1>3, <1>4, <1>5, ExitBal

LEMMA HelperInvokeBal ==
  ASSUME Balanced, HelperInvoke
  PROVE  Bal(stk', held')
<1>1. Top.k = "helper" /\ Top.st = "invoke"
  BY DEF HelperInvoke, Running
<1>2. ~ Grips(Top) /\ Top.k # "interp"
  BY <1>1 DEF Grips
<1>3. Laid
  BY DEF Balanced
<1>4. CASE Overflow
  BY <1>2, <1>4, OverflowBal
<1>5. PICK f : /\ Put1(stk, f, At("invoked")) /\ Next1(f, Top) /\ f.inv = Top.inv
               /\ f.st = "invoked"
  BY <1>3, AtIs
<1>6. Goes(f, Top) /\ f.k = "helper"
  BY <1>1, <1>5 DEF Next1, Goes
<1>7. CASE /\ Top.inv \in {"candi", "jit"}
           /\ stk' = Append(At("invoked"), Activation(Top.inv, Top.m, Top.c, Top.loc))
           /\ held' = held
  <2>1. PICK g : g = Activation(Top.inv, Top.m, Top.c, Top.loc)
    OBVIOUS
  <2>2. ~ Grips(g)
    BY <1>7, <2>1, MakeActIs DEF Grips
  <2>3. Grips(f) <=> Grips(Top)
    BY <1>2, <1>5, <1>6, <1>7 DEF Grips
  <2>4. held' = held \o LockWords(g)
    BY <1>7, <2>2, NoEnterIs
  <2>5. QED
    BY <1>5, <1>6, <1>7, <2>1, <2>3, <2>4, CallBal
<1>8. ASSUME JVMFrame(Top.m)
      PROVE  /\ held' = monitorEnter(Top.m, mem[optop])
             /\ Receives(Top.m, Top.c, mem[optop])
  <2>1. Spot(Tip(stk), frames, mem, ok, build)
    BY <1>3 DEF Laid
  <2>2. Top = Tip(stk) /\ Top.m \in Methods /\ optop = Tip(frames).optop
    BY <1>3, LaidTop
  <2>3. Lie(mem, optop, JVMWords(Top.m, Top.c))
    BY <1>1, <2>1, <2>2 DEF Spot, Waits
  <2>4. Receives(Top.m, Top.c, mem[optop])
    BY <1>3, <1>8, <2>2, <2>3, LieReceives DEF JVMFrame
  <2>5. QED
    BY <1>8, <2>4 DEF JVMFrame
<1>9. CASE /\ Top.inv = "native" /\ JVMFrame(Top.m)
           /\ stk' = Append(At("invoked"),
                            Activation("native", Top.m, Top.c, Get(optop, args_size(Top.m))))
  <2>1. PICK g : g = Activation("native", Top.m, Top.c, Get(optop, args_size(Top.m)))
    OBVIOUS
  <2>2. Grips(g) /\ g.m = Top.m /\ g.c = Top.c
    BY <2>1, MakeActIs DEF Grips
  <2>3. Grips(f) <=> Grips(Top)
    BY <1>2, <1>5, <1>6, <1>9 DEF Grips
  <2>4. held' = held \o LockWords(g)
    BY <1>8, <1>9, <2>2, EnterIs
  <2>5. QED
    BY <1>5, <1>6, <1>9, <2>1, <2>3, <2>4, CallBal
<1>10. CASE Top.inv = "java" /\ JVMFrame(Top.m) /\ stk' = At("invoked")
  <2>1. Grips(f)
    BY <1>5, <1>6, <1>10 DEF Grips
  <2>2. QED
    BY <1>2, <1>5, <1>6, <1>8, <1>10, <2>1, TakeBal
<1>11. QED
  BY <1>4, <1>7, <1>9, <1>10 DEF HelperInvoke

LEMMA HelperInvokedBal ==
  ASSUME Balanced, HelperInvoked
  PROVE  Bal(stk', held')
<1>1. Top.k = "helper" /\ Top.st = "invoked" /\ held' = held
  BY DEF HelperInvoked, Running
<1>2. Laid /\ Top.k # "interp"
  BY <1>1 DEF Balanced
<1>3. CASE stk' = Front(stk) /\ Top.inv # "java"
  <2>1. ~ Grips(Top)
    BY <1>1, <1>3 DEF Grips
  <2>2. QED
    BY <1>1, <1>2, <1>3, <2>1, AwayBal
<1>4. CASE ~ ok
  <2>1. Spot(Tip(stk), frames, mem, ok, build) /\ Top = Tip(stk)
    BY <1>2, LaidTop DEF Laid
  <2>2. Top.inv # "java"
    BY <1>1, <1>4, <2>1 DEF Spot, Framed
  <2>3. stk' = Front(stk)
    BY <1>4 DEF HelperInvoked, HelperReturn
  <2>4. QED
    BY <1>3, <2>2, <2>3
<1>5. CASE ok /\ ~ InvokedJava(Top)
  <2>1. Top.inv # "java"
    BY <1>5 DEF InvokedJava
  <2>2. stk' = Front(stk)
    BY <1>5 DEF HelperInvoked, HelperFinish, HelperReturn
  <2>3. QED
    BY <1>3, <2>1, <2>2
<1>6. CASE ok /\ InvokedJava(Top)
  <2>1. PICK g : g = Activation("interp", Top.m, Top.c, Get(frames[Cur].vars, args_size(Top.m)))
    OBVIOUS
  <2>2. Grips(g) /\ g.m = Top.m /\ g.c = Top.c
    BY <2>1, MakeActIs DEF Grips
  <2>3. PICK f : Put1(stk, f, At("executed")) /\ Next1(f, Top) /\ f.st = "executed"
    BY <1>2, AtIs
  <2>4. ~ Grips(f)
    BY <1>1, <2>3 DEF Grips, Next1, Goes
  <2>5. Grips(Top)
    BY <1>1, <1>6 DEF Grips, InvokedJava
  <2>6. stk' = Append(At("executed"), g)
    BY <1>6, <2>1 DEF HelperInvoked
  <2>7. QED
    BY <1>1, <2>2, <2>3, <2>4, <2>5, <2>6, GiveBal
<1>7. QED
  BY <1>4, <1>5, <1>6

LEMMA HelperExecutedBal ==
  ASSUME Balanced, HelperExecuted
  PROVE  Bal(stk', held')
<1>1. Top.k = "helper" /\ Top.st = "executed" /\ held' = held
  BY DEF HelperExecuted, Running
<1>2. stk' = Front(stk)
  BY DEF HelperExecuted, HelperFinish, HelperReturn
<1>3. ~ Grips(Top) /\ Top.k # "interp"
  BY <1>1 DEF Grips
<1>4. QED
  BY <1>1, <1>2, <1>3, AwayBal

-----------------------------------------------------------------------------
(* The invokers.                                                           *)

LEMMA CandiBal ==
  ASSUME Balanced, CandiEntry \/ CandiCompile \/ CandiCall \/ CandiDone \/ CandiExecuted
  PROVE  Bal(stk', held')
<1>1. Top.k = "candi"
  BY DEF CandiEntry, CandiCompile, CandiCall, CandiDone, CandiExecuted, Running
<1>2. ~ Grips(Top) /\ Top.k # "interp" /\ Top.k # "helper"
  BY <1>1 DEF Grips
<1>3. CASE Overflow
  BY <1>2, <1>3, OverflowBal
<1>4. CASE held' = held /\ \E st : stk' = At(st)
  BY <1>2, <1>4, AtBal
<1>5. CASE held' = held /\ stk' = Front(stk)
  BY <1>2, <1>5, AwayBal
<1>6. CASE CandiCall
  <2>1. PICK g : g = Activation("jit", Top.m, Top.c, Top.loc)
    OBVIOUS
  <2>2. ~ Grips(g)
    BY <2>1, MakeActIs DEF Grips
  <2>3. stk' = Append(At("done"), g) /\ held' = held
    BY <1>6, <2>1 DEF CandiCall
  <2>4. held' = held \o LockWords(g)
    BY <2>2, <2>3, NoEnterIs
  <2>5. QED
    BY <1>2, <2>3, <2>4, AtCallBal
<1>7. QED
  BY <1>3, <1>4, <1>5, <1>6 DEF CandiEntry, CandiCompile, CandiDone, CandiExecuted

LEMMA CandiNormalBal ==
  ASSUME Balanced, CandiNormal
  PROVE  Bal(stk', held')
<1>1. Top.k = "candi" /\ Top.st = "normal"
  BY DEF CandiNormal, Running
<1>2. ~ Grips(Top) /\ Top.k # "interp" /\ Top.k # "helper"
  BY <1>1 DEF Grips
<1>3. CASE Overflow
  BY <1>2, <1>3, OverflowBal
<1>4. CASE ~ Overflow
  <2>1. Laid
    BY DEF Balanced
  <2>2. PICK g : g = Activation("interp", Top.m, Top.c, Get(optop, args_size(Top.m)))
    OBVIOUS
  <2>3. Grips(g) /\ g.m = Top.m /\ g.c = Top.c
    BY <2>2, MakeActIs DEF Grips
  <2>4. stk' = Append(At("executed"), g) /\ JVMFrame(Top.m)
    BY <1>4, <2>2 DEF CandiNormal
  <2>5. Spot(Tip(stk), frames, mem, ok, build)
    BY <2>1 DEF Laid
  <2>6. Top = Tip(stk) /\ Top.m \in Methods /\ optop = Tip(frames).optop
    BY <2>1, LaidTop
  <2>7. Lie(mem, optop, JVMWords(Top.m, Top.c))
    BY <1>1, <2>5, <2>6 DEF Spot, Waits
  <2>8. Receives(Top.m, Top.c, mem[optop])
    BY <2>1, <2>4, <2>6, <2>7, LieReceives DEF JVMFrame
  <2>9. held' = held \o LockWords(g)
    BY <2>3, <2>4, <2>8, EnterIs DEF JVMFrame
  <2>10. QED
    BY <1>2, <2>4, <2>9, AtCallBal
<1>5. QED
  BY <1>3, <1>4

LEMMA JITBal ==
  ASSUME Balanced, JITEnter \/ JITDone
  PROVE  Bal(stk', held')
<1>1. Top.k = "jit"
  BY DEF JITEnter, JITDone, Running
<1>2. ~ Grips(Top) /\ Top.k # "interp" /\ Top.k # "helper"
  BY <1>1 DEF Grips
<1>3. CASE Overflow
  BY <1>2, <1>3, OverflowBal
<1>4. CASE JITDone
  BY <1>2, <1>4, AwayBal DEF JITDone
<1>5. CASE JITEnter /\ ~ Overflow
  <2>1. Laid
    BY DEF Balanced
  <2>2. PICK ws : ws = ToNative(Get(optop, args_size(Top.m)), Top.m)
    OBVIOUS
  <2>3. PICK g : g = Activation("comp", Top.m, Top.c, ws)
    OBVIOUS
  <2>4. Grips(g) /\ g.m = Top.m /\ g.c = Top.c
    BY <2>3, MakeActIs DEF Grips
  <2>5. /\ stk' = Append(At("done"), g) /\ held' = monitorEnter(Top.m, First(ws))
        /\ Fits(nlocals(Top.m)) /\ Top.st = "entry"
    BY <1>5, <2>2, <2>3 DEF JITEnter, Running
  <2>6. Spot(Tip(stk), frames, mem, ok, build)
    BY <2>1 DEF Laid
  <2>7. Top = Tip(stk) /\ Top.m \in Methods /\ optop = Tip(frames).optop /\ Act(Top)
    BY <2>1, LaidTop
  <2>8. Lie(mem, optop, JVMWords(Top.m, Top.c))
    BY <1>1, <2>5, <2>6, <2>7 DEF Spot, Waits
  <2>9. Get(optop, args_size(Top.m)) = JVMWords(Top.m, Top.c)
    BY <2>1, <2>5, <2>7, <2>8, ArgsRead
  <2>10. ws = NativeWords(Top.m, Top.c)
    BY <2>2, <2>7, <2>9, Layouts
  <2>11. Receives(Top.m, Top.c, First(ws))
    BY <2>7, <2>10, FirstNative
  <2>12. held' = held \o LockWords(g)
    BY <2>4, <2>5, <2>11, EnterIs
  <2>13. QED
    BY <1>2, <2>5, <2>12, AtCallBal
<1>6. QED
  BY <1>3, <1>4, <1>5

-----------------------------------------------------------------------------
(* The interpreter and native functions.                                   *)

LEMMA InterpCallBal ==
  ASSUME Balanced, NEW m \in Methods, InterpCall(m)
  PROVE  Bal(stk', held')
<1>1. Top.k = "interp"
  BY DEF InterpCall, Running
<1>2. Laid /\ Top.k # "helper"
  BY <1>1 DEF Balanced
<1>3. PICK c, w : c = calls + 1 /\ w = Put(mem, optop, JVMWords(m, c))
  OBVIOUS
<1>4. InvokeByJVM(m, c, w)
  BY <1>3 DEF InterpCall
<1>5. PICK k, ws : \/ /\ k = invoker[m] /\ k \in {"candi", "jit"} /\ ws = << >> /\ held' = held
                      /\ stk' = Append(Await(m, c), Activation(k, m, c, ws))
                   \/ /\ k \in {"interp", "native"} /\ Fits(nlocals(m))
                      /\ held' = monitorEnter(m, w[optop])
                      /\ stk' = Append(Await(m, c), Activation(k, m, c, ws))
  BY <1>4 DEF InvokeByJVM
<1>6. PICK g : g = Activation(k, m, c, ws)
  OBVIOUS
<1>7. g.k = k /\ g.m = m /\ g.c = c
  BY <1>6, MakeActIs
<1>8. CASE k \in {"candi", "jit"} /\ held' = held
  <2>1. ~ Grips(g)
    BY <1>7, <1>8 DEF Grips
  <2>2. held' = held \o LockWords(g)
    BY <1>8, <2>1, NoEnterIs
  <2>3. QED
    BY <1>2, <1>5, <1>6, <2>2, AwaitBal
<1>9. CASE k \in {"interp", "native"} /\ Fits(nlocals(m)) /\ held' = monitorEnter(m, w[optop])
  <2>1. Grips(g)
    BY <1>7, <1>9 DEF Grips
  <2>2. Lie(w, optop, JVMWords(m, c))
    BY <1>2, <1>3, PassArgs DEF Passed
  <2>3. Receives(m, c, w[optop])
    BY <1>2, <1>9, <2>2, LieReceives
  <2>4. held' = held \o LockWords(g)
    BY <1>7, <1>9, <2>1, <2>3, EnterIs
  <2>5. QED
    BY <1>2, <1>5, <1>6, <2>4, AwaitBal
<1>10. QED
  BY <1>5, <1>8, <1>9

LEMMA LeaveJVMBal ==
  ASSUME Balanced, Top.k \in {"interp", "native"}, Len(stk) > 1, LeaveResult \/ LeaveThrowing
  PROVE  Bal(stk', held')
<1>1. Grips(Top)
  BY DEF Grips
<1>2. Receives(Top.m, Top.c, First(Top.loc))
  BY TopReceives DEF Balanced
<1>3. stk' = Front(stk) /\ held' = monitorExit(Top.m, First(Top.loc))
  BY DEF LeaveResult, LeaveThrowing, Leave
<1>4. QED
  BY <1>1, <1>2, <1>3, ExitBal

LEMMA InterpBal ==
  ASSUME Balanced, InterpReturn \/ InterpThrow \/ InterpBack
  PROVE  Bal(stk', held')
<1>1. Top.k = "interp" /\ Top.k # "helper"
  BY DEF InterpReturn, InterpThrow, InterpBack, Running
<1>2. CASE Len(stk) > 1 /\ (LeaveResult \/ LeaveThrowing)
  BY <1>1, <1>2, LeaveJVMBal
<1>3. CASE stk' = At("run") /\ held' = held
  BY <1>1, <1>3, AtBal
<1>4. QED
  BY <1>2, <1>3 DEF InterpReturn, InterpThrow, InterpBack

LEMMA NativeBal ==
  ASSUME Balanced, NativeReturn \/ NativeBack
  PROVE  Bal(stk', held')
<1>1. CASE Running("native", "run") /\ (LeaveResult \/ LeaveThrowing)
  <2>1. Top.k = "native" /\ Len(stk) > 1
    BY <1>1, LaidTop DEF Running, Balanced
  <2>2. QED
    BY <1>1, <2>1, LeaveJVMBal
<1>2. CASE Top.k \in {"jni", "nmi"} /\ held' = held /\ (stk' = Front(stk) \/ stk' = At("run"))
  <2>1. ~ Grips(Top) /\ Top.k # "interp" /\ Top.k # "helper"
    BY <1>2 DEF Grips
  <2>2. QED
    BY <1>2, <2>1, AwayBal, AtBal
<1>3. QED
  BY <1>1, <1>2 DEF NativeReturn, CReturn, NativeBack

LEMMA NativeCallBal ==
  ASSUME Balanced, NEW m \in Methods, NativeCall(m)
  PROVE  Bal(stk', held')
<1>1. Top.k # "helper" /\ invoker[m] \in {"candi", "jit"} /\ held' = held
  BY DEF NativeCall
<1>2. PICK c, g : c = calls + 1 /\ g = Activation(invoker[m], m, c, << >>)
  OBVIOUS
<1>3. ~ Grips(g)
  BY <1>1, <1>2, MakeActIs DEF Grips
<1>4. stk' = Append(Await(m, c), g)
  BY <1>2 DEF NativeCall
<1>5. held' = held \o LockWords(g)
  BY <1>1, <1>3, NoEnterIs
<1>6. QED
  BY <1>1, <1>4, <1>5, AwaitBal

-----------------------------------------------------------------------------

LEMMA InitBal ==
  ASSUME Init, ~ Info[Root].sync
  PROVE  Bal(stk, held)
<1>1. PICK a, s : a = Activation("interp", Root, 0, << >>) /\ s = <<a>>
  OBVIOUS
<1>2. stk = s /\ held = << >>
  BY <1>1 DEF Init
<1>3. IsSeq(s) /\ Len(s) = 1 /\ s[1] = a
  BY <1>1, WordsSeq
<1>4. a.m = Root
  BY <1>1, MakeActIs
<1>5. LockWords(a) = << >>
  BY <1>4 DEF LockWords, Holds
<1>11. PICK n \in Nat : n = 1
  OBVIOUS
<1>6. PICK gs : gs = LockGroups(s)
  OBVIOUS
<1>7. /\ Joined(gs)[0] = << >>
      /\ \A k \in 1 .. n : Joined(gs)[k] = Joined(gs)[k - 1] \o LockWords(s[k])
  BY <1>3, <1>6, <1>11, GroupsOf
<1>8. Joined(gs)[1] = Joined(gs)[0] \o LockWords(s[1])
  <2>1. n \in 1 .. n /\ n - 1 = 0
    BY <1>11
  <2>2. Joined(gs)[n] = Joined(gs)[n - 1] \o LockWords(s[n])
    BY <1>7, <2>1
  <2>3. QED
    BY <1>11, <2>1, <2>2
<1>9. Joined(gs)[1] = << >>
  BY <1>3, <1>5, <1>7, <1>8, Empty
<1>10. QED
  BY <1>2, <1>3, <1>6, <1>9 DEF Bal

LEMMA NextBal ==
  ASSUME Balanced, PlainInlining, [Next]_vars
  PROVE  Bal(stk', held')
<1>0. Bal(stk, held)
  BY DEF Balanced
<1>1. ASSUME NEW m \in Methods,
             InvokeCore(m) \/ InlinedEnter(m) \/ RemoteInvoke(m) \/ InterpCall(m) \/ NativeCall(m)
      PROVE  Bal(stk', held')
  BY <1>1, InvokeCoreBal, InlinedBal, RemoteInvokeBal, InterpCallBal, NativeCallBal
<1>2. CASE UNCHANGED <<stk, held>>
  BY <1>0, <1>2
<1>3. CASE InlinedExit
  BY <1>3, InlinedBal, InfoAssumption
<1>4. CASE CompiledReturn \/ CompiledThrow \/ InvokeCoreDone \/ RemoteDone
  BY <1>4, CompiledBal, RemoteDoneBal
<1>5. CASE HelperEntry \/ HelperNative \/ HelperInvoke \/ HelperInvoked \/ HelperExecuted
  BY <1>5, HelperEntryBal, HelperNativeBal, HelperInvokeBal, HelperInvokedBal,
     HelperExecutedBal
<1>6. CASE CandiEntry \/ CandiCompile \/ CandiCall \/ CandiDone \/ CandiNormal \/ CandiExecuted
  BY <1>6, CandiBal, CandiNormalBal
<1>7. CASE JITEnter \/ JITDone
  BY <1>7, JITBal
<1>8. CASE InterpReturn \/ InterpThrow \/ InterpBack \/ NativeReturn \/ NativeBack
  BY <1>8, InterpBal, NativeBal
<1>9. ASSUME NEW m \in Methods, OtherStarts(m) \/ OtherFlags(m) \/ OtherDone(m)
      PROVE  UNCHANGED <<stk, held>>
  BY <1>9 DEF OtherStarts, OtherFlags, OtherDone
<1>10. UNCHANGED vars => UNCHANGED <<stk, held>>
  BY DEF vars
<1>11. QED
  BY <1>1, <1>2, <1>3, <1>4, <1>5, <1>6, <1>7, <1>8, <1>9, <1>10 DEF Next

\* The monitors held are those of the synchronized methods on the stack, in order,
\* and each is exited by the object it was entered with, on the way of an exception
\* too (opc_sync_*, invocationHelper(), the JVM's invokers). Where the program has
\* a synchronized instance method with an inlined call, opc_sync_*_exit may find
\* esi at the variables of the inlined method: PlainInlining excludes it.
THEOREM MonitorsPaired ==
  ASSUME ~ Info[Root].sync, PlainInlining
  PROVE  Spec => []MonitorsBalanced
<1>1. Init => Balanced
  BY InitLaid, InitBal DEF Balanced
<1>2. Balanced /\ [Next]_vars => Balanced'
  <2>1. ASSUME Balanced, [Next]_vars PROVE Balanced'
    <3>1. Laid' /\ Bal(stk', held')
      BY <2>1, NextLaid, NextBal DEF Balanced
    <3>2. QED
      BY <3>1 DEF Balanced
  <2>2. QED
    BY <2>1
<1>3. ASSUME Balanced PROVE MonitorsBalanced
  <2>1. PICK n \in Nat : n = Len(stk)
    BY <1>3, LaidTop DEF Balanced
  <2>2. Bal(stk, held) /\ IsSeq(stk)
    BY <1>3 DEF Balanced, Bal
  <2>3. DOMAIN stk = 1 .. n
    BY <2>1, <2>2, SeqFacts
  <2>4. PICK gs : gs = LockGroups(stk)
    OBVIOUS
  <2>5. gs = [i \in DOMAIN stk |-> IF Holds(stk[i]) THEN <<Lock(stk[i].m, <<stk[i].c, 0, "w">>)>>
                                                  ELSE << >>]
    BY <2>1, <2>3, <2>4 DEF LockGroups, LockWords
  <2>6. Groups(gs, n) /\ IsSeq(gs)
    BY <2>1, <2>2, <2>4, GroupsOf
  <2>7. held = Joined(gs)[n]
    BY <2>1, <2>2, <2>4 DEF Bal
  <2>8. FlattenSeq(gs) = Joined(gs)[n]
    BY <2>6, Flatten
  <2>9. QED
    BY <2>5, <2>7, <2>8 DEF MonitorsBalanced
<1>4. QED
  BY <1>1, <1>2, <1>3, PTL DEF Spec
=============================================================================
