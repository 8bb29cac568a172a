---------------------------- MODULE SignalsProofs ----------------------------
(***************************************************************************)
(* Signals: the frames of compiled code, trampolines and initialisers, and *)
(* the registers of a division across its signal, for any threads, any     *)
(* program and any width of an int; then the throw table and its binary    *)
(* search, and what the handler does with each signal, for any program     *)
(* that is Compiled.                                                       *)
(***************************************************************************)
EXTENDS Signals, StackLemmas

-----------------------------------------------------------------------------
(* The invariant.                                                          *)

CodeFields ==
  {"kind", "m", "pc", "ph", "bytepc", "method", "obj", "v1", "eax", "ecx", "edx"}
TrampFields == {"kind", "m", "ph", "cb", "ee", "pc"}
InitFields == {"kind", "c", "ph"}

CodeRec(f) == f.kind = "code" /\ f = [i \in CodeFields |-> f[i]]
TrampRec(f) == f.kind = "trampoline" /\ f = [i \in TrampFields |-> f[i]]
InitRec(f) == f.kind = "init" /\ f = [i \in InitFields |-> f[i]]

Shaped(f) == CodeRec(f) \/ TrampRec(f) \/ InitRec(f)

\* what Java requires of the registers after idivl
Right(f) ==
  IF f.v1 = MinInt /\ f.ecx = -1
    THEN f.eax = MinInt /\ f.edx = 0
    ELSE f.eax = Quotient(f.v1, f.ecx) /\ f.edx = Remainder(f.v1, f.ecx)

\* The dividend is in %eax until the division is made; outside a division no
\* register holds a divisor.
Registers(f) ==
  f.kind = "code" =>
    /\ f.ph = "idivl" => f.eax = f.v1
    /\ f.ph = "divided" => Right(f)
    /\ f.ph \notin {"idivl", "divided"} => f.ecx = 0

\* What stands on what: a method on its caller or on the initialisation it was
\* started by, a trampoline on the site that trapped, an initialisation on a
\* trampoline.
Above(f, g) ==
  \/ f.kind = "code" /\ f.ph = "call" /\ g.kind = "code"
  \/ f.kind = "code" /\ f.ph \in {"run", "bound"} /\ g.kind = "trampoline"
  \/ f.kind = "trampoline" /\ f.ph = "ret" /\ g.kind = "init"
  \/ f.kind = "init" /\ f.ph = "run" /\ g.kind = "code"

FramesOK(s) ==
  \A k \in 1 .. Len(s) :
    /\ Shaped(s[k]) /\ Registers(s[k])
    /\ IF k = 1 THEN s[k].kind = "code" ELSE Above(s[k - 1], s[k])

StackOK(s) == IsSeq(s) /\ FramesOK(s)

\* A signal was raised by the innermost frame, in a phase that can raise it.
SignalOK(q, s) ==
  /\ q = [name |-> q.name, off |-> q.off, lib |-> q.lib, margin |-> q.margin]
  /\ q.lib \in Nat
  /\ q.name # None =>
       /\ s # << >> /\ s[Len(s)].kind = "code"
       /\ q.name \in {"SEGV", "FPE"} => s[Len(s)].ph \in {"run", "idivl"}
       /\ q.name = "TRAP" => s[Len(s)].ph \in {"run", "bound"}

Machine ==
  /\ stk = [t \in Threads |-> stk[t]]
  /\ sig = [t \in Threads |-> sig[t]]
  /\ \A t \in Threads : StackOK(stk[t]) /\ SignalOK(sig[t], stk[t])

-----------------------------------------------------------------------------
(* The moves of a thread.                                                  *)

\* The kinds of frames
LEMMA Kinds ==
  ASSUME NEW f, Shaped(f)
  PROVE  /\ f.kind = "code" <=> CodeRec(f)
         /\ f.kind = "trampoline" <=> TrampRec(f)
         /\ f.kind = "init" <=> InitRec(f)
         /\ f.kind \in {"code", "trampoline", "init"}
BY DEF Shaped, CodeRec, TrampRec, InitRec

\* The innermost frame is well formed and stands on the one below it.
LEMMA TopOK ==
  ASSUME NEW s, StackOK(s), s # << >>
  PROVE  /\ Len(s) \in Nat /\ Len(s) > 0 /\ DOMAIN s = 1 .. Len(s)
         /\ Shaped(s[Len(s)]) /\ Registers(s[Len(s)])
         /\ Len(s) > 1 => Above(s[Len(s) - 1], s[Len(s)])
<1>1. Len(s) \in Nat /\ Len(s) > 0 /\ DOMAIN s = 1 .. Len(s)
  BY SeqFacts DEF StackOK
<1>2. PICK n \in Nat : n = Len(s)
  BY <1>1
<1>3. n > 0 /\ \A k \in 1 .. n : /\ Shaped(s[k]) /\ Registers(s[k])
                                 /\ IF k = 1 THEN s[k].kind = "code" ELSE Above(s[k - 1], s[k])
  BY <1>1, <1>2 DEF StackOK, FramesOK
<1>4. n \in 1 .. n
  BY <1>3
<1>5. QED
  BY <1>1, <1>2, <1>3, <1>4

\* The innermost frame changes and stays what it is.
LEMMA NewTop ==
  ASSUME NEW s, StackOK(s), s # << >>, NEW f, Shaped(f), Registers(f),
         f.kind = s[Len(s)].kind, NEW r, IsSeq(r), Len(r) = Len(s), r[Len(s)] = f,
         \A k \in 1 .. Len(s) : k < Len(s) => r[k] = s[k]
  PROVE  StackOK(r)
<1>1. Len(s) \in Nat /\ Len(s) > 0 /\ DOMAIN s = 1 .. Len(s)
  BY SeqFacts DEF StackOK
<1>2. PICK n \in Nat : n = Len(s) /\ n = Len(r)
  BY <1>1
<1>3. n > 0 /\ f.kind = s[n].kind /\ r[n] = f /\ \A k \in 1 .. n : k < n => r[k] = s[k]
  BY <1>1, <1>2
<1>4. \A k \in 1 .. n : /\ Shaped(s[k]) /\ Registers(s[k])
                        /\ IF k = 1 THEN s[k].kind = "code" ELSE Above(s[k - 1], s[k])
  BY <1>2 DEF StackOK, FramesOK
<1>5. ASSUME NEW k \in 1 .. n
      PROVE  /\ Shaped(r[k]) /\ Registers(r[k])
             /\ IF k = 1 THEN r[k].kind = "code" ELSE Above(r[k - 1], r[k])
  <2>1. CASE k < n
    <3>1. k # 1 => k - 1 \in 1 .. n /\ k - 1 < n
      OBVIOUS
    <3>2. QED
      BY <1>3, <1>4, <2>1, <3>1
  <2>2. CASE k = n
    <3>1. k # 1 => k - 1 \in 1 .. n /\ k - 1 < n
      BY <2>2
    <3>2. k # 1 => Above(s[k - 1], f)
      BY <1>3, <1>4, <2>2 DEF Above
    <3>3. k = 1 => f.kind = "code"
      BY <1>3, <1>4, <2>2
    <3>4. QED
      BY <1>3, <2>2, <3>1, <3>2, <3>3
  <2>3. QED
    BY <2>1, <2>2
<1>6. QED
  BY <1>2, <1>5 DEF StackOK, FramesOK

\* ... as an assignment
LEMMA SetFrame ==
  ASSUME NEW s, StackOK(s), s # << >>, NEW f, Shaped(f), Registers(f),
         f.kind = s[Len(s)].kind, NEW r, r = [s EXCEPT ![Len(s)] = f]
  PROVE  StackOK(r) /\ r # << >> /\ r[Len(r)] = f
<1>1. IsSeq(s)
  BY DEF StackOK
<1>2. /\ IsSeq(r) /\ Len(r) = Len(s) /\ r[Len(s)] = f
      /\ \A k \in 1 .. Len(s) : k < Len(s) => r[k] = s[k]
  <2>1. IsSeq(r)
    BY <1>1, PutTop
  <2>2. Len(r) = Len(s)
    BY <1>1, PutTop
  <2>3. r[Len(s)] = f
    BY <1>1, PutTop
  <2>4. \A k \in 1 .. Len(s) : k < Len(s) => r[k] = s[k]
    BY <1>1, PutTop
  <2>5. QED
    BY <2>1, <2>2, <2>3, <2>4
<1>3. StackOK(r)
  BY <1>2, NewTop
<1>4. Len(s) # 0
  BY <1>1, SeqFacts
<1>5. QED
  BY <1>2, <1>3, <1>4, SeqFacts

\* ... as a pop and a push
LEMMA SwapFrame ==
  ASSUME NEW s, StackOK(s), s # << >>, NEW f, Shaped(f), Registers(f),
         f.kind = s[Len(s)].kind, NEW r, r = Append(SubSeq(s, 1, Len(s) - 1), f)
  PROVE  StackOK(r) /\ r # << >> /\ r[Len(r)] = f
<1>1. IsSeq(s) /\ Len(s) \in Nat /\ Len(s) > 0
  BY SeqFacts DEF StackOK
<1>2. PICK b : b = SubSeq(s, 1, Len(s) - 1)
  OBVIOUS
<1>3. IsSeq(b) /\ Len(b) = Len(s) - 1 /\ \A k \in 1 .. Len(b) : b[k] = s[k]
  BY <1>1, <1>2, Pop
<1>4. PICK n \in Nat : n = Len(s)
  BY <1>1
<1>5. r = Append(b, f)
  BY <1>2
<1>6. /\ IsSeq(r) /\ Len(r) = Len(b) + 1 /\ r[Len(b) + 1] = f
      /\ \A k \in 1 .. Len(b) : r[k] = b[k]
  <2>1. IsSeq(r)
    BY <1>3, <1>5, Push
  <2>2. Len(r) = Len(b) + 1
    BY <1>3, <1>5, Push
  <2>3. r[Len(b) + 1] = f
    BY <1>3, <1>5, Push
  <2>4. \A k \in 1 .. Len(b) : r[k] = b[k]
    BY <1>3, <1>5, Push
  <2>5. QED
    BY <2>1, <2>2, <2>3, <2>4
<1>7. Len(r) = n /\ r[n] = f /\ n > 0 /\ \A k \in 1 .. n : k < n => r[k] = s[k]
  BY <1>1, <1>3, <1>4, <1>6
<1>8. StackOK(r)
  BY <1>4, <1>6, <1>7, NewTop
<1>9. QED
  BY <1>6, <1>7, <1>8, SeqFacts

\* A call
LEMMA PushFrame ==
  ASSUME NEW s, StackOK(s), s # << >>, NEW f, Shaped(f), Registers(f),
         Above(s[Len(s)], f), NEW r, r = Append(s, f)
  PROVE  StackOK(r)
<1>1. IsSeq(s) /\ Len(s) \in Nat /\ Len(s) > 0
  BY SeqFacts DEF StackOK
<1>2. PICK n \in Nat : n = Len(s)
  BY <1>1
<1>3. /\ IsSeq(r) /\ Len(r) = n + 1 /\ r[n + 1] = f
      /\ \A k \in 1 .. n : r[k] = s[k]
  <2>1. IsSeq(r)
    BY <1>1, Push
  <2>2. Len(r) = Len(s) + 1
    BY <1>1, Push
  <2>3. r[Len(s) + 1] = f
    BY <1>1, Push
  <2>4. \A k \in 1 .. Len(s) : r[k] = s[k]
    BY <1>1, Push
  <2>5. QED
    BY <1>2, <2>1, <2>2, <2>3, <2>4
<1>4. n > 0 /\ \A k \in 1 .. n : /\ Shaped(s[k]) /\ Registers(s[k])
                        /\ IF k = 1 THEN s[k].kind = "code" ELSE Above(s[k - 1], s[k])
  BY <1>1, <1>2 DEF StackOK, FramesOK
<1>5. ASSUME NEW k \in 1 .. n + 1
      PROVE  /\ Shaped(r[k]) /\ Registers(r[k])
             /\ IF k = 1 THEN r[k].kind = "code" ELSE Above(r[k - 1], r[k])
  <2>1. CASE k <= n
    <3>1. k \in 1 .. n /\ (k # 1 => k - 1 \in 1 .. n)
      BY <2>1
    <3>2. QED
      BY <1>3, <1>4, <3>1
  <2>2. CASE k = n + 1
    <3>1. k # 1 /\ k - 1 = n /\ n \in 1 .. n
      BY <1>4, <2>2
    <3>2. r[k] = f /\ r[k - 1] = s[n]
      BY <1>3, <2>2, <3>1
    <3>3. Above(s[n], f)
      BY <1>2
    <3>4. Shaped(r[k]) /\ Registers(r[k])
      BY <3>2
    <3>5. Above(r[k - 1], r[k])
      BY <3>2, <3>3
    <3>6. QED
      BY <3>1, <3>4, <3>5
  <2>3. k <= n \/ k = n + 1
    OBVIOUS
  <2>4. QED
    BY <2>1, <2>2, <2>3, Zenon
<1>6. QED
  BY <1>3, <1>5 DEF StackOK, FramesOK

\* A return
LEMMA PopFrame ==
  ASSUME NEW s, StackOK(s), s # << >>, NEW r, r = SubSeq(s, 1, Len(s) - 1)
  PROVE  /\ StackOK(r) /\ Len(r) = Len(s) - 1
         /\ r # << >> => r[Len(r)] = s[Len(s) - 1] /\ Above(r[Len(r)], s[Len(s)])
<1>1. IsSeq(s) /\ Len(s) \in Nat /\ Len(s) > 0
  BY SeqFacts DEF StackOK
<1>2. PICK n \in Nat : n = Len(s)
  BY <1>1
<1>3. IsSeq(r) /\ Len(r) = n - 1 /\ \A k \in 1 .. n - 1 : r[k] = s[k]
  BY <1>1, <1>2, Pop
<1>4. n > 0 /\ \A k \in 1 .. n : /\ Shaped(s[k]) /\ Registers(s[k])
                        /\ IF k = 1 THEN s[k].kind = "code" ELSE Above(s[k - 1], s[k])
  BY <1>1, <1>2 DEF StackOK, FramesOK
<1>5. ASSUME NEW k \in 1 .. n - 1
      PROVE  /\ Shaped(r[k]) /\ Registers(r[k])
             /\ IF k = 1 THEN r[k].kind = "code" ELSE Above(r[k - 1], r[k])
  <2>1. k \in 1 .. n /\ (k # 1 => k - 1 \in 1 .. n - 1)
    OBVIOUS
  <2>2. QED
    BY <1>3, <1>4, <2>1
<1>6. StackOK(r)
  BY <1>3, <1>5 DEF StackOK, FramesOK
<1>7. r # << >> => n > 1
  BY <1>2, <1>3, <1>4, SeqFacts
<1>8. n > 1 => n - 1 \in 1 .. n - 1 /\ n \in 1 .. n /\ n # 1
  OBVIOUS
<1>9. r # << >> => r[n - 1] = s[n - 1] /\ Above(s[n - 1], s[n])
  BY <1>3, <1>4, <1>7, <1>8
<1>10. QED
  BY <1>2, <1>3, <1>6, <1>9
\* A step of thread t moves no other thread.
LEMMA Moved ==
  ASSUME Machine, NEW t \in Threads, NEW r, StackOK(r), NEW q, SignalOK(q, r),
         stk' = [stk EXCEPT ![t] = r], sig' = [sig EXCEPT ![t] = q]
  PROVE  Machine'
<1>1. /\ stk = [u \in Threads |-> stk[u]] /\ sig = [u \in Threads |-> sig[u]]
      /\ \A u \in Threads : StackOK(stk[u]) /\ SignalOK(sig[u], stk[u])
  BY DEF Machine
<1>2. /\ stk' = [u \in Threads |-> stk'[u]] /\ sig' = [u \in Threads |-> sig'[u]]
  BY <1>1
<1>3. stk'[t] = r /\ sig'[t] = q /\ \A u \in Threads : u # t => stk'[u] = stk[u] /\ sig'[u] = sig[u]
  BY <1>1
<1>4. ASSUME NEW u \in Threads PROVE StackOK(stk'[u]) /\ SignalOK(sig'[u], stk'[u])
  <2>1. CASE u = t
    BY <1>3, <2>1
  <2>2. CASE u # t
    <3>1. stk'[u] = stk[u] /\ sig'[u] = sig[u]
      BY <1>3, <2>2
    <3>2. QED
      BY <1>1, <3>1
  <2>3. QED
    BY <2>1, <2>2
<1>5. QED
  BY <1>2, <1>4 DEF Machine

\* Without a signal pending nothing is said of the stack.
LEMMA Quiet ==
  ASSUME NEW q, NEW s, SignalOK(q, s), q.name = None, NEW r
  PROVE  SignalOK(q, r)
BY DEF SignalOK

LEMMA SilentOK ==
  ASSUME NEW s PROVE SignalOK(NoSignal, s)
BY DEF SignalOK, NoSignal, Signal

\* Compiled code goes on.
LEMMA StackMove ==
  ASSUME Machine, NEW t \in Threads, sig[t].name = None, NEW r, StackOK(r),
         stk' = [stk EXCEPT ![t] = r], UNCHANGED sig
  PROVE  Machine'
<1>1. sig' = [sig EXCEPT ![t] = sig[t]]
  BY DEF Machine
<1>2. SignalOK(sig[t], r)
  BY Quiet DEF Machine
<1>3. QED
  BY <1>1, <1>2, Moved

LEMMA SetMove ==
  ASSUME Machine, NEW t \in Threads, sig[t].name = None, stk[t] # << >>, NEW f,
         Shaped(f), Registers(f), f.kind = Top(t).kind, SetTop(t, f), UNCHANGED sig
  PROVE  Machine'
<1>1. PICK r : r = [stk[t] EXCEPT ![Len(stk[t])] = f]
  OBVIOUS
<1>2. stk' = [stk EXCEPT ![t] = r]
  BY <1>1 DEF SetTop
<1>3. StackOK(stk[t]) /\ f.kind = stk[t][Len(stk[t])].kind
  BY DEF Machine, Top
<1>4. StackOK(r)
  BY <1>1, <1>3, SetFrame
<1>5. QED
  BY <1>2, <1>4, StackMove

\* Compiled code is interrupted.
LEMMA RaiseMove ==
  ASSUME Machine, NEW t \in Threads, NEW q, SignalOK(q, stk[t]),
         sig' = [sig EXCEPT ![t] = q], UNCHANGED stk
  PROVE  Machine'
<1>1. stk' = [stk EXCEPT ![t] = stk[t]] /\ StackOK(stk[t])
  BY DEF Machine
<1>2. QED
  BY <1>1, Moved

\* What an action of compiled code finds
LEMMA AtFacts ==
  ASSUME Machine, NEW t \in Threads, NEW ph, At(t, ph)
  PROVE  /\ sig[t].name = None /\ stk[t] # << >> /\ Top(t).kind = "code"
         /\ CodeRec(Top(t)) /\ Registers(Top(t)) /\ Top(t).ph = ph
         /\ Top(t) = stk[t][Len(stk[t])]
<1>1. /\ sig[t].name = None /\ stk[t] # << >> /\ Top(t).kind = "code" /\ Top(t).ph = ph
  BY DEF At
<1>2. StackOK(stk[t])
  BY DEF Machine
<1>3. Shaped(Top(t)) /\ Registers(Top(t))
  BY <1>1, <1>2, TopOK DEF Top
<1>4. QED
  BY <1>1, <1>3, Kinds DEF Top

\* A frame outside a division, changed in fields that are none of its business
LEMMA PlainFrame ==
  ASSUME NEW f, CodeRec(f), f.ecx = 0, f.ph \notin {"idivl", "divided"}
  PROVE  Shaped(f) /\ Registers(f) /\ f.kind = "code"
BY DEF Shaped, Registers, CodeRec
-----------------------------------------------------------------------------
(* The actions of compiled code.                                           *)

\* An instruction that is no division is over.
LEMMA GoOn ==
  ASSUME NEW a, CodeRec(a), a.ecx = 0, NEW b, b = Advance(a)
  PROVE  CodeRec(b) /\ Shaped(b) /\ Registers(b) /\ b.kind = "code"
<1>1. CodeRec(b) /\ b.ecx = 0 /\ b.ph = "run"
  <2>1. PICK x : x = a.pc + 1
    OBVIOUS
  <2>2. b = [a EXCEPT !.pc = x, !.ph = "run"]
    BY <2>1 DEF Advance
  <2>3. QED
    BY <2>2 DEF CodeRec, CodeFields
<1>2. QED
  BY <1>1, PlainFrame

LEMMA MachineTrap ==
  ASSUME Machine, NEW t \in Threads, Trap(t) PROVE Machine'
<1>1. PICK o : Raise(t, Signal("TRAP", o)) /\ UNCHANGED stk
  BY DEF Trap
<1>2. At(t, "run") \/ At(t, "bound")
  BY DEF Trap
<1>3. stk[t] # << >> /\ stk[t][Len(stk[t])].kind = "code" /\ stk[t][Len(stk[t])].ph \in {"run", "bound"}
  BY <1>2, AtFacts
<1>4. SignalOK(Signal("TRAP", o), stk[t])
  BY <1>3 DEF SignalOK, Signal
<1>5. QED
  BY <1>1, <1>4, RaiseMove DEF Raise

\* A fault of an instruction that is not a trap
LEMMA FaultOK ==
  ASSUME Machine, NEW t \in Threads, At(t, "run"), NEW q,
         q = [name |-> q.name, off |-> q.off, lib |-> q.lib, margin |-> q.margin],
         q.lib \in Nat, q.name \in {"SEGV", "FPE"}
  PROVE  SignalOK(q, stk[t])
<1>1. stk[t] # << >> /\ stk[t][Len(stk[t])].kind = "code" /\ stk[t][Len(stk[t])].ph = "run"
  BY AtFacts
<1>2. q.name # "TRAP"
  OBVIOUS
<1>3. QED
  BY <1>1, <1>2 DEF SignalOK

LEMMA SegvMove ==
  ASSUME Machine, NEW t \in Threads, At(t, "run"), NEW o,
         Raise(t, Signal("SEGV", o)), UNCHANGED stk
  PROVE  Machine'
<1>1. PICK q : q = Signal("SEGV", o)
  OBVIOUS
<1>2. q = [name |-> q.name, off |-> q.off, lib |-> q.lib, margin |-> q.margin]
      /\ q.lib \in Nat /\ q.name = "SEGV"
  BY <1>1 DEF Signal
<1>3. SignalOK(q, stk[t])
  BY <1>2, FaultOK
<1>4. QED
  BY <1>1, <1>3, RaiseMove DEF Raise

\* Actions in phase "run" that only advance, with another method or object
LEMMA AdvanceMove ==
  ASSUME Machine, NEW t \in Threads, NEW ph, At(t, ph), ph \notin {"idivl", "divided"},
         NEW a, CodeRec(a), a.ecx = Top(t).ecx, SetTop(t, Advance(a)), UNCHANGED sig
  PROVE  Machine'
<1>1. /\ sig[t].name = None /\ stk[t] # << >> /\ Top(t).kind = "code"
      /\ Registers(Top(t)) /\ Top(t).ph = ph
  BY AtFacts
<1>2. a.ecx = 0
  BY <1>1 DEF Registers
<1>3. PICK b : b = Advance(a)
  OBVIOUS
<1>4. Shaped(b) /\ Registers(b) /\ b.kind = "code"
  BY <1>2, <1>3, GoOn
<1>5. QED
  BY <1>1, <1>3, <1>4, SetMove

LEMMA MachineUse ==
  ASSUME Machine, NEW t \in Threads, Use(t) PROVE Machine'
<1>1. At(t, "run") /\ UNCHANGED sig
  BY DEF Use
<1>2. PICK x : SetTop(t, Advance([Top(t) EXCEPT !.method = x]))
  BY DEF Use
<1>3. CodeRec(Top(t))
  BY <1>1, AtFacts
<1>4. PICK a : a = [Top(t) EXCEPT !.method = x]
  OBVIOUS
<1>5. CodeRec(a) /\ a.ecx = Top(t).ecx
  BY <1>3, <1>4 DEF CodeRec, CodeFields
<1>6. QED
  BY <1>1, <1>2, <1>4, <1>5, AdvanceMove

LEMMA MachineHead ==
  ASSUME Machine, NEW t \in Threads, inv_head(t) PROVE Machine'
<1>1. At(t, "run") /\ UNCHANGED sig
  BY DEF inv_head
<1>2. PICK a : a = [Top(t) EXCEPT !.bytepc = Insn(t).off]
  OBVIOUS
<1>3. CodeRec(Top(t))
  BY <1>1, AtFacts
<1>4. CodeRec(a) /\ a.ecx = Top(t).ecx
  BY <1>2, <1>3 DEF CodeRec, CodeFields
<1>5. QED
  BY <1>1, <1>2, <1>4, AdvanceMove DEF inv_head

\* The actions that advance and change nothing else
LEMMA PlainAdvance ==
  ASSUME Machine, NEW t \in Threads, NEW ph, At(t, ph), ph \notin {"idivl", "divided"},
         SetTop(t, Advance(Top(t))), UNCHANGED sig
  PROVE  Machine'
<1>1. CodeRec(Top(t))
  BY AtFacts
<1>2. QED
  BY <1>1, AdvanceMove

LEMMA MachineExit ==
  ASSUME Machine, NEW t \in Threads, inlined_exit(t) PROVE Machine'
BY PlainAdvance DEF inlined_exit

LEMMA MachineBound ==
  ASSUME Machine, NEW t \in Threads, Bound(t) PROVE Machine'
BY PlainAdvance DEF Bound

LEMMA MachineVarspace ==
  ASSUME Machine, NEW t \in Threads, inv_vir_varspace(t) PROVE Machine'
<1>1. At(t, "run")
  BY DEF inv_vir_varspace
<1>2. CASE Raise(t, Signal("SEGV", Eip(t))) /\ UNCHANGED stk
  BY <1>1, <1>2, SegvMove
<1>3. CASE SetTop(t, Advance(Top(t))) /\ UNCHANGED sig
  BY <1>1, <1>3, PlainAdvance
<1>4. QED
  BY <1>2, <1>3 DEF inv_vir_varspace

LEMMA MachineDeref ==
  ASSUME Machine, NEW t \in Threads, Deref(t) PROVE Machine'
<1>1. At(t, "run")
  BY DEF Deref
<1>2. CASE Raise(t, Signal("SEGV", Eip(t))) /\ UNCHANGED stk
  BY <1>1, <1>2, SegvMove
<1>3. CASE SetTop(t, Advance(Top(t))) /\ UNCHANGED sig
  BY <1>1, <1>3, PlainAdvance
<1>4. ASSUME NEW c, SetTop(t, Advance([Top(t) EXCEPT !.obj = c])), UNCHANGED sig
      PROVE  Machine'
  <2>1. PICK a : a = [Top(t) EXCEPT !.obj = c]
    OBVIOUS
  <2>2. CodeRec(Top(t))
    BY <1>1, AtFacts
  <2>3. CodeRec(a) /\ a.ecx = Top(t).ecx
    BY <2>1, <2>2 DEF CodeRec, CodeFields
  <2>4. QED
    BY <1>1, <1>4, <2>1, <2>3, AdvanceMove
<1>5. QED
  BY <1>2, <1>3, <1>4 DEF Deref
LEMMA MachineLoad ==
  ASSUME Machine, NEW t \in Threads, DivLoad(t) PROVE Machine'
<1>1. At(t, "run") /\ UNCHANGED sig
  BY DEF DivLoad
<1>2. PICK a \in Ints, b \in Ints :
        SetTop(t, [Top(t) EXCEPT !.ph = "idivl", !.eax = a, !.ecx = b,
                                 !.edx = IF a < 0 THEN -1 ELSE 0, !.v1 = a])
  BY DEF DivLoad
<1>3. PICK x : x = IF a < 0 THEN -1 ELSE 0
  OBVIOUS
<1>4. PICK f : f = [Top(t) EXCEPT !.ph = "idivl", !.eax = a, !.ecx = b, !.edx = x, !.v1 = a]
  OBVIOUS
<1>5. SetTop(t, f)
  BY <1>2, <1>3, <1>4
<1>6. CodeRec(Top(t)) /\ sig[t].name = None /\ stk[t] # << >> /\ Top(t).kind = "code"
  BY <1>1, AtFacts
<1>7. CodeRec(f) /\ f.kind = "code" /\ f.ph = "idivl" /\ f.eax = a /\ f.v1 = a
  BY <1>4, <1>6 DEF CodeRec, CodeFields
<1>8. Shaped(f) /\ Registers(f)
  BY <1>7 DEF Shaped, Registers
<1>9. QED
  BY <1>1, <1>5, <1>6, <1>7, <1>8, SetMove

\* The one quotient that does not fit
LEMMA TooBig ==
  Quotient(MinInt, -1) \notin Ints
<1>1. PICK n : n = MinInt
  OBVIOUS
<1>2. n \in Int /\ n < 0
  BY <1>1, IntAssumption
<1>3. Sign(n) = -1 /\ Sign(-1) = -1
  BY <1>2 DEF Sign
<1>4. Abs(n) = -n /\ Abs(-1) = 1
  BY <1>2, <1>3 DEF Abs
<1>5. Quotient(n, -1) = -n
  BY <1>2, <1>3, <1>4 DEF Quotient
<1>6. QED
  BY <1>1, <1>2, <1>5 DEF Ints

LEMMA MachineIdivl ==
  ASSUME Machine, NEW t \in Threads, Idivl(t) PROVE Machine'
<1>1. At(t, "idivl")
  BY DEF Idivl
<1>2. /\ sig[t].name = None /\ stk[t] # << >> /\ Top(t).kind = "code" /\ CodeRec(Top(t))
      /\ Registers(Top(t)) /\ Top(t).ph = "idivl" /\ Top(t) = stk[t][Len(stk[t])]
  BY <1>1, AtFacts
<1>3. PICK a, b : a = Top(t).eax /\ b = Top(t).ecx
  OBVIOUS
<1>4. CASE Raise(t, Signal("FPE", Eip(t) + 1)) /\ UNCHANGED stk
  <2>1. SignalOK(Signal("FPE", Eip(t) + 1), stk[t])
    BY <1>2 DEF SignalOK, Signal
  <2>2. QED
    BY <1>4, <2>1, RaiseMove DEF Raise
<1>5. CASE /\ b # 0 /\ Quotient(a, b) \in Ints /\ UNCHANGED sig
           /\ SetTop(t, [Top(t) EXCEPT !.ph = "divided", !.eax = Quotient(a, b),
                                       !.edx = Remainder(a, b)])
  <2>1. PICK q, r : q = Quotient(a, b) /\ r = Remainder(a, b)
    OBVIOUS
  <2>2. PICK f : f = [Top(t) EXCEPT !.ph = "divided", !.eax = q, !.edx = r]
    OBVIOUS
  <2>3. SetTop(t, f)
    BY <1>5, <2>1, <2>2
  <2>4. /\ CodeRec(f) /\ f.kind = "code" /\ f.ph = "divided" /\ f.eax = q /\ f.edx = r
        /\ f.v1 = Top(t).v1 /\ f.ecx = b
    BY <1>2, <1>3, <2>2 DEF CodeRec, CodeFields
  <2>5. f.v1 = a
    BY <1>2, <1>3, <2>4 DEF Registers
  <2>6. ~ (a = MinInt /\ b = -1)
    BY <1>5, TooBig
  <2>7. Right(f)
    BY <2>1, <2>4, <2>5, <2>6 DEF Right
  <2>8. Shaped(f) /\ Registers(f)
    BY <2>4, <2>7 DEF Shaped, Registers
  <2>9. QED
    BY <1>2, <1>5, <2>3, <2>4, <2>8, SetMove
<1>6. QED
  BY <1>3, <1>4, <1>5 DEF Idivl

LEMMA MachineDone ==
  ASSUME Machine, NEW t \in Threads, DivDone(t) PROVE Machine'
<1>1. At(t, "divided") /\ UNCHANGED sig
  BY DEF DivDone
<1>2. CodeRec(Top(t)) /\ sig[t].name = None /\ stk[t] # << >> /\ Top(t).kind = "code"
  BY <1>1, AtFacts
<1>3. PICK a : a = [Top(t) EXCEPT !.v1 = 0, !.eax = 0, !.ecx = 0, !.edx = 0]
  OBVIOUS
<1>4. CodeRec(a) /\ a.ecx = 0
  BY <1>2, <1>3 DEF CodeRec, CodeFields
<1>5. PICK b : b = Advance(a)
  OBVIOUS
<1>6. Shaped(b) /\ Registers(b) /\ b.kind = "code"
  BY <1>4, <1>5, GoOn
<1>7. SetTop(t, b)
  BY <1>3, <1>5 DEF DivDone
<1>8. QED
  BY <1>1, <1>2, <1>6, <1>7, SetMove

LEMMA MachineLdiv ==
  ASSUME Machine, NEW t \in Threads, ldiv(t) PROVE Machine'
<1>1. At(t, "run")
  BY DEF ldiv
<1>2. ASSUME NEW lib \in LibFrames, Raise(t, [Signal("FPE", 0) EXCEPT !.lib = lib]), UNCHANGED stk
      PROVE  Machine'
  <2>1. PICK q : q = [Signal("FPE", 0) EXCEPT !.lib = lib]
    OBVIOUS
  <2>2. lib \in Nat
    BY <1>2, LibAssumption
  <2>3. q = [name |-> q.name, off |-> q.off, lib |-> q.lib, margin |-> q.margin]
        /\ q.lib = lib /\ q.name = "FPE"
    BY <2>1 DEF Signal
  <2>4. SignalOK(q, stk[t])
    BY <1>1, <2>2, <2>3, FaultOK
  <2>5. QED
    BY <1>2, <2>1, <2>4, RaiseMove DEF Raise
<1>3. CASE SetTop(t, Advance(Top(t))) /\ UNCHANGED sig
  BY <1>1, <1>3, PlainAdvance
<1>4. QED
  BY <1>2, <1>3 DEF ldiv

\* The innermost frame changes its phase.
LEMMA PhaseMove ==
  ASSUME Machine, NEW t \in Threads, NEW ph, At(t, ph), ph \notin {"idivl", "divided"},
         NEW f, CodeRec(f), f.ecx = Top(t).ecx, f.ph \notin {"idivl", "divided"},
         SetTop(t, f), UNCHANGED sig
  PROVE  Machine'
<1>1. /\ sig[t].name = None /\ stk[t] # << >> /\ Top(t).kind = "code"
      /\ Registers(Top(t)) /\ Top(t).ph = ph
  BY AtFacts
<1>2. f.ecx = 0
  BY <1>1 DEF Registers
<1>3. Shaped(f) /\ Registers(f) /\ f.kind = "code"
  BY <1>2, PlainFrame
<1>4. QED
  BY <1>1, <1>3, SetMove

LEMMA MachineAthrow ==
  ASSUME Machine, NEW t \in Threads, athrow(t) PROVE Machine'
<1>1. At(t, "run") /\ CodeRec(Top(t))
  BY AtFacts DEF athrow
<1>2. CASE Raise(t, Signal("SEGV", Eip(t))) /\ UNCHANGED stk
  BY <1>1, <1>2, SegvMove
<1>3. CASE SetTop(t, [Top(t) EXCEPT !.ph = "exc", !.bytepc = Insn(t).off]) /\ UNCHANGED sig
  <2>1. PICK f : f = [Top(t) EXCEPT !.ph = "exc", !.bytepc = Insn(t).off]
    OBVIOUS
  <2>2. CodeRec(f) /\ f.ecx = Top(t).ecx /\ f.ph = "exc"
    BY <1>1, <2>1 DEF CodeRec, CodeFields
  <2>3. QED
    BY <1>1, <1>3, <2>1, <2>2, PhaseMove
<1>4. QED
  BY <1>2, <1>3 DEF athrow

LEMMA MachineKey ==
  ASSUME Machine, NEW t \in Threads, CacheKey(t) PROVE Machine'
<1>1. At(t, "run") /\ CodeRec(Top(t)) /\ UNCHANGED sig
  BY AtFacts DEF CacheKey
<1>2. PICK ph \in {"hit", "miss"} : SetTop(t, [Top(t) EXCEPT !.ph = ph])
  BY DEF CacheKey
<1>3. PICK f : f = [Top(t) EXCEPT !.ph = ph]
  OBVIOUS
<1>4. CodeRec(f) /\ f.ecx = Top(t).ecx /\ f.ph = ph
  BY <1>1, <1>3 DEF CodeRec, CodeFields
<1>5. QED
  BY <1>1, <1>2, <1>3, <1>4, PhaseMove

LEMMA MachineHit ==
  ASSUME Machine, NEW t \in Threads, CacheHit(t) PROVE Machine'
<1>1. At(t, "hit") /\ CodeRec(Top(t)) /\ UNCHANGED sig
  BY AtFacts DEF CacheHit
<1>2. PICK x : SetTop(t, Advance([Top(t) EXCEPT !.method = x]))
  BY DEF CacheHit
<1>3. PICK a : a = [Top(t) EXCEPT !.method = x]
  OBVIOUS
<1>4. CodeRec(a) /\ a.ecx = Top(t).ecx
  BY <1>1, <1>3 DEF CodeRec, CodeFields
<1>5. QED
  BY <1>1, <1>2, <1>3, <1>4, AdvanceMove

LEMMA MachineGet ==
  ASSUME Machine, NEW t \in Threads, getInterfaceMethod(t) PROVE Machine'
<1>1. At(t, "miss") /\ CodeRec(Top(t)) /\ UNCHANGED sig
  BY AtFacts DEF getInterfaceMethod
<1>2. PICK ph \in {"bound", "write"} :
        \E x : SetTop(t, [Top(t) EXCEPT !.ph = ph, !.method = x])
  BY DEF getInterfaceMethod
<1>3. PICK x : SetTop(t, [Top(t) EXCEPT !.ph = ph, !.method = x])
  BY <1>2
<1>4. PICK f : f = [Top(t) EXCEPT !.ph = ph, !.method = x]
  OBVIOUS
<1>5. CodeRec(f) /\ f.ecx = Top(t).ecx /\ f.ph = ph
  BY <1>1, <1>4 DEF CodeRec, CodeFields
<1>6. QED
  BY <1>1, <1>3, <1>4, <1>5, PhaseMove

LEMMA MachineWrite ==
  ASSUME Machine, NEW t \in Threads, CacheWrite(t) PROVE Machine'
<1>1. At(t, "write") /\ CodeRec(Top(t)) /\ UNCHANGED sig
  BY AtFacts DEF CacheWrite
<1>2. SetTop(t, [Top(t) EXCEPT !.ph = "bound"])
  BY DEF CacheWrite
<1>3. PICK f : f = [Top(t) EXCEPT !.ph = "bound"]
  OBVIOUS
<1>4. CodeRec(f) /\ f.ecx = Top(t).ecx /\ f.ph = "bound"
  BY <1>1, <1>3 DEF CodeRec, CodeFields
<1>5. QED
  BY <1>1, <1>2, <1>3, <1>4, PhaseMove
LEMMA FreshFrame ==
  ASSUME NEW m
  PROVE  Shaped(Frame(m)) /\ Registers(Frame(m)) /\ Frame(m).kind = "code"
<1>1. CodeRec(Frame(m)) /\ Frame(m).ecx = 0 /\ Frame(m).ph = "run"
  BY DEF CodeRec, CodeFields, Frame
<1>2. QED
  BY <1>1, PlainFrame

LEMMA MachineInvoke ==
  ASSUME Machine, NEW t \in Threads, invoke_core(t) PROVE Machine'
<1>1. At(t, "run")
  BY DEF invoke_core
<1>2. /\ sig[t].name = None /\ stk[t] # << >> /\ Top(t).kind = "code" /\ CodeRec(Top(t))
      /\ Registers(Top(t)) /\ Top(t).ph = "run" /\ Top(t) = stk[t][Len(stk[t])]
  BY <1>1, AtFacts
<1>3. CASE Raise(t, [Signal("SEGV", Eip(t)) EXCEPT !.margin = TRUE]) /\ UNCHANGED stk
  <2>1. PICK q : q = [Signal("SEGV", Eip(t)) EXCEPT !.margin = TRUE]
    OBVIOUS
  <2>2. q = [name |-> q.name, off |-> q.off, lib |-> q.lib, margin |-> q.margin]
        /\ q.lib = 0 /\ q.name = "SEGV"
    BY <2>1 DEF Signal
  <2>3. SignalOK(q, stk[t])
    BY <1>1, <2>2, FaultOK
  <2>4. QED
    BY <1>3, <2>1, <2>3, RaiseMove DEF Raise
<1>4. CASE /\ UNCHANGED sig
           /\ stk' = [stk EXCEPT ![t] =
                        Append(Append(Below(t), [Top(t) EXCEPT !.ph = "call"]),
                               Frame(Top(t).method))]
  <2>1. PICK f : f = [Top(t) EXCEPT !.ph = "call"]
    OBVIOUS
  <2>2. CodeRec(f) /\ f.ecx = Top(t).ecx /\ f.ph = "call"
    BY <1>2, <2>1 DEF CodeRec, CodeFields
  <2>3. f.ecx = 0
    BY <1>2, <2>2 DEF Registers
  <2>4. Shaped(f) /\ Registers(f) /\ f.kind = "code"
    BY <2>2, <2>3, PlainFrame
  <2>5. PICK s : s = Append(SubSeq(stk[t], 1, Len(stk[t]) - 1), f)
    OBVIOUS
  <2>6. StackOK(stk[t])
    BY DEF Machine
  <2>7. StackOK(s) /\ s # << >> /\ s[Len(s)] = f
    <3>1. PICK z : z = stk[t]
      OBVIOUS
    <3>2. StackOK(z) /\ z # << >> /\ f.kind = z[Len(z)].kind
      BY <1>2, <2>4, <2>6, <3>1
    <3>3. s = Append(SubSeq(z, 1, Len(z) - 1), f)
      BY <2>5, <3>1
    <3>4. StackOK(s)
      BY <2>4, <3>2, <3>3, SwapFrame
    <3>5. s # << >>
      BY <2>4, <3>2, <3>3, SwapFrame
    <3>6. s[Len(s)] = f
      BY <2>4, <3>2, <3>3, SwapFrame
    <3>7. QED
      BY <3>4, <3>5, <3>6
  <2>8. PICK g : g = Frame(Top(t).method)
    OBVIOUS
  <2>9. Shaped(g) /\ Registers(g) /\ g.kind = "code"
    BY <2>8, FreshFrame
  <2>10. Above(s[Len(s)], g)
    BY <2>2, <2>4, <2>7, <2>9 DEF Above
  <2>11. PICK r : r = Append(s, g)
    OBVIOUS
  <2>12. StackOK(r)
    BY <2>7, <2>9, <2>10, <2>11, PushFrame
  <2>13. stk' = [stk EXCEPT ![t] = r]
    BY <1>4, <2>1, <2>5, <2>8, <2>11 DEF Below
  <2>14. QED
    BY <1>2, <1>4, <2>12, <2>13, StackMove
<1>5. QED
  BY <1>3, <1>4 DEF invoke_core

\* A method returns, with or without an exception.
LEMMA ReturnOK ==
  ASSUME NEW s, StackOK(s), s # << >>, s[Len(s)].kind = "code", NEW p \in BOOLEAN,
         NEW r, r = Returned(s, p)
  PROVE  StackOK(r)
<1>1. PICK b : b = SubSeq(s, 1, Len(s) - 1)
  OBVIOUS
<1>2. StackOK(b) /\ (b # << >> => Above(b[Len(b)], s[Len(s)]))
  BY <1>1, PopFrame
<1>3. CASE Len(b) = 0
  BY <1>1, <1>2, <1>3 DEF Returned
<1>4. CASE Len(b) # 0
  <2>1. b # << >>
    BY <1>2, <1>4, SeqFacts DEF StackOK
  <2>2. PICK a : a = b[Len(b)]
    OBVIOUS
  <2>3. Shaped(a) /\ Registers(a)
    BY <1>2, <2>1, <2>2, TopOK
  <2>4. \/ a.kind = "code" /\ a.ph = "call"
        \/ a.kind = "init"
    BY <1>2, <2>1, <2>2 DEF Above
  <2>5. CASE a.kind = "init"
    <3>1. PICK f : f = [a EXCEPT !.ph = "over"]
      OBVIOUS
    <3>2. InitRec(a)
      BY <2>3, <2>5, Kinds
    <3>3. InitRec(f) /\ f.kind = "init"
      BY <3>1, <3>2 DEF InitRec, InitFields
    <3>4. Shaped(f) /\ Registers(f)
      BY <3>3 DEF Shaped, Registers
    <3>5. r = [b EXCEPT ![Len(b)] = f]
      BY <1>1, <1>4, <2>2, <2>5, <3>1 DEF Returned
    <3>6. f.kind = b[Len(b)].kind
      BY <2>2, <2>5, <3>3
    <3>7. QED
      BY <1>2, <2>1, <3>4, <3>5, <3>6, SetFrame
  <2>6. CASE a.kind = "code" /\ a.ph = "call"
    <3>1. CodeRec(a) /\ a.ecx = 0 /\ a.kind # "init"
      BY <2>3, <2>6, Kinds DEF Registers
    <3>2. PICK f : f = IF p THEN [a EXCEPT !.ph = "exc", !.method = None, !.obj = None]
                           ELSE Advance([a EXCEPT !.method = None, !.obj = None])
      OBVIOUS
    <3>3. Shaped(f) /\ Registers(f) /\ f.kind = "code"
      <4>1. CASE p
        <5>1. f = [a EXCEPT !.ph = "exc", !.method = None, !.obj = None]
          BY <3>2, <4>1
        <5>2. CodeRec(f) /\ f.ecx = 0 /\ f.ph = "exc"
          BY <3>1, <5>1 DEF CodeRec, CodeFields
        <5>3. QED
          BY <5>2, PlainFrame
      <4>2. CASE ~ p
        <5>1. PICK g : g = [a EXCEPT !.method = None, !.obj = None]
          OBVIOUS
        <5>2. f = Advance(g)
          BY <3>2, <4>2, <5>1
        <5>3. CodeRec(g) /\ g.ecx = 0
          BY <3>1, <5>1 DEF CodeRec, CodeFields
        <5>4. QED
          BY <5>2, <5>3, GoOn
      <4>3. QED
        BY <4>1, <4>2
    <3>4. r = [b EXCEPT ![Len(b)] = f]
      BY <1>1, <1>4, <2>2, <3>1, <3>2 DEF Returned
    <3>5. QED
      BY <1>2, <2>1, <2>2, <2>6, <3>3, <3>4, SetFrame
  <2>7. QED
    BY <2>4, <2>5, <2>6
<1>5. QED
  BY <1>3, <1>4

LEMMA MachineReturn ==
  ASSUME Machine, NEW t \in Threads, return(t) PROVE Machine'
<1>1. /\ sig[t].name = None /\ stk[t] # << >> /\ stk[t][Len(stk[t])].kind = "code"
  BY AtFacts DEF return
<1>2. PICK r : r = Returned(stk[t], FALSE)
  OBVIOUS
<1>3. stk' = [stk EXCEPT ![t] = r] /\ UNCHANGED sig
  BY <1>2 DEF return
<1>4. StackOK(stk[t])
  BY DEF Machine
<1>5. StackOK(r)
  BY <1>1, <1>2, <1>4, ReturnOK
<1>6. QED
  BY <1>1, <1>3, <1>5, StackMove

LEMMA MachineHandler ==
  ASSUME Machine, NEW t \in Threads, exceptionHandler(t) PROVE Machine'
<1>1. At(t, "exc") /\ UNCHANGED sig
  BY DEF exceptionHandler
<1>2. /\ sig[t].name = None /\ stk[t] # << >> /\ stk[t][Len(stk[t])].kind = "code"
      /\ CodeRec(Top(t))
  BY <1>1, AtFacts
<1>3. CASE stk' = [stk EXCEPT ![t] = Returned(@, TRUE)]
  <2>1. PICK r : r = Returned(stk[t], TRUE)
    OBVIOUS
  <2>2. stk' = [stk EXCEPT ![t] = r]
    BY <1>3, <2>1
  <2>3. StackOK(stk[t])
    BY DEF Machine
  <2>4. StackOK(r)
    BY <1>2, <2>1, <2>3, ReturnOK
  <2>5. QED
    BY <1>1, <1>2, <2>2, <2>4, StackMove
<1>4. ASSUME NEW x, SetTop(t, [Top(t) EXCEPT !.pc = x, !.ph = "run"])
      PROVE  Machine'
  <2>1. PICK f : f = [Top(t) EXCEPT !.pc = x, !.ph = "run"]
    OBVIOUS
  <2>2. CodeRec(f) /\ f.ecx = Top(t).ecx /\ f.ph = "run"
    BY <1>2, <2>1 DEF CodeRec, CodeFields
  <2>3. QED
    BY <1>1, <1>4, <2>1, <2>2, PhaseMove
<1>5. QED
  BY <1>3, <1>4 DEF exceptionHandler
-----------------------------------------------------------------------------
(* The trampoline and the initialisation of a class.                       *)

LEMMA FrameFacts ==
  ASSUME Machine, NEW t \in Threads, NEW kind, NEW ph, InFrame(t, kind, ph)
  PROVE  /\ sig[t].name = None /\ stk[t] # << >> /\ Top(t).kind = kind
         /\ Shaped(Top(t)) /\ Registers(Top(t)) /\ Top(t).ph = ph
         /\ Top(t) = stk[t][Len(stk[t])] /\ StackOK(stk[t])
<1>1. /\ sig[t].name = None /\ stk[t] # << >> /\ Top(t).kind = kind /\ Top(t).ph = ph
  BY DEF InFrame
<1>2. StackOK(stk[t])
  BY DEF Machine
<1>3. Shaped(Top(t)) /\ Registers(Top(t))
  BY <1>1, <1>2, TopOK DEF Top
<1>4. QED
  BY <1>1, <1>2, <1>3 DEF Top

\* Nothing is asked of the registers of other frames.
LEMMA OtherFrame ==
  ASSUME NEW f, TrampRec(f) \/ InitRec(f)
  PROVE  Shaped(f) /\ Registers(f)
BY DEF Shaped, Registers, TrampRec, InitRec

LEMMA MachinePush ==
  ASSUME Machine, NEW t \in Threads, TrampolinePush(t) PROVE Machine'
<1>1. InFrame(t, "trampoline", "push") /\ UNCHANGED sig
  BY DEF TrampolinePush
<1>2. sig[t].name = None /\ stk[t] # << >> /\ Top(t).kind = "trampoline" /\ TrampRec(Top(t))
  BY <1>1, FrameFacts, Kinds
<1>3. PICK op : op = tramp[Top(t).m]
  OBVIOUS
<1>4. PICK f : f = [Top(t) EXCEPT !.ph = "call", !.cb = op.cb, !.ee = op.ee, !.pc = op.pc]
  OBVIOUS
<1>5. TrampRec(f) /\ f.kind = Top(t).kind
  BY <1>2, <1>4 DEF TrampRec, TrampFields
<1>6. SetTop(t, f)
  BY <1>3, <1>4 DEF TrampolinePush
<1>7. QED
  BY <1>1, <1>2, <1>5, <1>6, OtherFrame, SetMove

\* The innermost frame is left for a new one.
LEMMA CallMove ==
  ASSUME Machine, NEW t \in Threads, sig[t].name = None, stk[t] # << >>, NEW f, Shaped(f),
         Registers(f), f.kind = Top(t).kind, NEW g, Shaped(g), Registers(g), Above(f, g),
         stk' = [stk EXCEPT ![t] = Append(Append(Below(t), f), g)], UNCHANGED sig
  PROVE  Machine'
<1>1. PICK z : z = stk[t]
  OBVIOUS
<1>2. StackOK(z) /\ z # << >> /\ f.kind = z[Len(z)].kind
  BY <1>1 DEF Machine, Top
<1>3. PICK s : s = Append(SubSeq(z, 1, Len(z) - 1), f)
  OBVIOUS
<1>4. StackOK(s)
  BY <1>2, <1>3, SwapFrame
<1>5. s # << >>
  BY <1>2, <1>3, SwapFrame
<1>6. s[Len(s)] = f
  BY <1>2, <1>3, SwapFrame
<1>7. PICK r : r = Append(s, g)
  OBVIOUS
<1>8. Above(s[Len(s)], g)
  BY <1>6
<1>9. StackOK(r)
  BY <1>4, <1>5, <1>7, <1>8, PushFrame
<1>10. stk' = [stk EXCEPT ![t] = r]
  BY <1>1, <1>3, <1>7 DEF Below
<1>11. QED
  BY <1>9, <1>10, StackMove

LEMMA BelowMove ==
  ASSUME Machine, NEW t \in Threads, sig[t].name = None, stk[t] # << >>,
         stk' = [stk EXCEPT ![t] = Below(t)], UNCHANGED sig
  PROVE  Machine'
<1>1. PICK r : r = SubSeq(stk[t], 1, Len(stk[t]) - 1)
  OBVIOUS
<1>2. StackOK(stk[t])
  BY DEF Machine
<1>3. StackOK(r)
  BY <1>1, <1>2, PopFrame
<1>4. stk' = [stk EXCEPT ![t] = r]
  BY <1>1 DEF Below
<1>5. QED
  BY <1>3, <1>4, StackMove

LEMMA MachineOnce ==
  ASSUME Machine, NEW t \in Threads, once_InitClass(t) PROVE Machine'
<1>1. InFrame(t, "trampoline", "call") /\ UNCHANGED sig
  BY DEF once_InitClass
<1>2. sig[t].name = None /\ stk[t] # << >> /\ Top(t).kind = "trampoline" /\ TrampRec(Top(t))
  BY <1>1, FrameFacts, Kinds
<1>3. PICK f : f = [Top(t) EXCEPT !.ph = "ret"]
  OBVIOUS
<1>4. TrampRec(f) /\ f.kind = Top(t).kind /\ f.ph = "ret" /\ f.kind = "trampoline"
  BY <1>2, <1>3 DEF TrampRec, TrampFields
<1>5. Shaped(f) /\ Registers(f)
  BY <1>4, OtherFrame
<1>6. CASE SetTop(t, f)
  BY <1>1, <1>2, <1>4, <1>5, <1>6, SetMove
<1>7. CASE stk' = [stk EXCEPT ![t] = Append(Append(Below(t), f),
                                      [kind |-> "init", c |-> f.cb, ph |-> "begin"])]
  <2>1. PICK g : g = [kind |-> "init", c |-> f.cb, ph |-> "begin"]
    OBVIOUS
  <2>2. InitRec(g) /\ g.kind = "init"
    BY <2>1 DEF InitRec, InitFields
  <2>3. Above(f, g)
    BY <1>4, <2>2 DEF Above
  <2>4. Shaped(g) /\ Registers(g)
    BY <2>2, OtherFrame
  <2>5. stk' = [stk EXCEPT ![t] = Append(Append(Below(t), f), g)]
    BY <1>7, <2>1
  <2>6. QED
    BY <1>1, <1>2, <1>4, <1>5, <2>3, <2>4, <2>5, CallMove
<1>8. QED
  BY <1>3, <1>6, <1>7 DEF once_InitClass

LEMMA MachineInitClass ==
  ASSUME Machine, NEW t \in Threads, InitClass(t) PROVE Machine'
<1>1. InFrame(t, "init", "begin") /\ UNCHANGED sig
  BY DEF InitClass
<1>2. sig[t].name = None /\ stk[t] # << >> /\ Top(t).kind = "init" /\ InitRec(Top(t))
  BY <1>1, FrameFacts, Kinds
<1>3. CASE stk' = [stk EXCEPT ![t] = Below(t)]
  BY <1>1, <1>2, <1>3, BelowMove
<1>4. CASE stk' = [stk EXCEPT ![t] = Append(Append(Below(t), [Top(t) EXCEPT !.ph = "run"]),
                                            Frame(Clinit[Top(t).c]))]
  <2>1. PICK f : f = [Top(t) EXCEPT !.ph = "run"]
    OBVIOUS
  <2>2. InitRec(f) /\ f.kind = Top(t).kind /\ f.ph = "run" /\ f.kind = "init"
    BY <1>2, <2>1 DEF InitRec, InitFields
  <2>3. Shaped(f) /\ Registers(f)
    BY <2>2, OtherFrame
  <2>4. PICK g : g = Frame(Clinit[Top(t).c])
    OBVIOUS
  <2>5. Shaped(g) /\ Registers(g) /\ g.kind = "code"
    BY <2>4, FreshFrame
  <2>6. Above(f, g)
    BY <2>2, <2>5 DEF Above
  <2>7. stk' = [stk EXCEPT ![t] = Append(Append(Below(t), f), g)]
    BY <1>4, <2>1, <2>4
  <2>8. QED
    BY <1>1, <1>2, <2>2, <2>3, <2>5, <2>6, <2>7, CallMove
<1>5. QED
  BY <1>3, <1>4 DEF InitClass

LEMMA MachineOver ==
  ASSUME Machine, NEW t \in Threads, InitClassOver(t) PROVE Machine'
<1>1. InFrame(t, "init", "over") /\ UNCHANGED sig /\ stk' = [stk EXCEPT ![t] = Below(t)]
  BY DEF InitClassOver
<1>2. sig[t].name = None /\ stk[t] # << >>
  BY <1>1, FrameFacts
<1>3. QED
  BY <1>1, <1>2, BelowMove

LEMMA MachineResume ==
  ASSUME Machine, NEW t \in Threads, TrampolineReturn(t) PROVE Machine'
<1>1. InFrame(t, "trampoline", "ret") /\ UNCHANGED sig
  BY DEF TrampolineReturn
<1>2. /\ sig[t].name = None /\ stk[t] # << >> /\ Top(t).kind = "trampoline"
      /\ Top(t) = stk[t][Len(stk[t])] /\ StackOK(stk[t])
  BY <1>1, FrameFacts
<1>3. PICK s : s = stk[t]
  OBVIOUS
<1>4. PICK b : b = SubSeq(s, 1, Len(s) - 1)
  OBVIOUS
<1>5. StackOK(s) /\ s # << >> /\ s[Len(s)].kind = "trampoline"
  BY <1>2, <1>3
<1>6. /\ StackOK(b) /\ Len(b) = Len(s) - 1
      /\ b # << >> => Above(b[Len(b)], s[Len(s)])
  <2>1. StackOK(b)
    BY <1>4, <1>5, PopFrame
  <2>2. Len(b) = Len(s) - 1
    BY <1>4, <1>5, PopFrame
  <2>3. b # << >> => Above(b[Len(b)], s[Len(s)])
    BY <1>4, <1>5, PopFrame
  <2>4. QED
    BY <2>1, <2>2, <2>3
<1>7. b # << >>
  <2>1. SUFFICES ASSUME b = << >> PROVE FALSE
    OBVIOUS
  <2>2. PICK n \in Nat : n = Len(s)
    BY <1>5, TopOK
  <2>3. Len(b) = 0
    BY <1>6, <2>1, SeqFacts DEF StackOK
  <2>4. n = 1
    BY <1>6, <2>2, <2>3
  <2>5. s[1].kind = "code"
    <3>1. \A k \in 1 .. n : IF k = 1 THEN s[k].kind = "code" ELSE Above(s[k - 1], s[k])
      BY <1>5, <2>2 DEF StackOK, FramesOK
    <3>2. QED
      BY <2>4, <3>1
  <2>6. QED
    BY <1>5, <2>2, <2>4, <2>5
<1>8. PICK a : a = b[Len(b)]
  OBVIOUS
<1>9. a.kind = "code" /\ a.ph \in {"run", "bound"}
  BY <1>5, <1>6, <1>7, <1>8 DEF Above
<1>10. Shaped(a) /\ Registers(a)
  BY <1>6, <1>7, <1>8, TopOK
<1>11. CodeRec(a) /\ a.ecx = 0
  BY <1>9, <1>10, Kinds DEF Registers
<1>12. PICK f : f = IF exc[Top(t).ee] # None
                      THEN [a EXCEPT !.ph = "exc"]
                      ELSE [a EXCEPT !.pc = InsnAt(Top(t).pc), !.ph = "run"]
  OBVIOUS
<1>13. Shaped(f) /\ Registers(f) /\ f.kind = "code"
  <2>1. CASE f = [a EXCEPT !.ph = "exc"]
    <3>1. CodeRec(f) /\ f.ecx = 0 /\ f.ph = "exc"
      BY <1>11, <2>1 DEF CodeRec, CodeFields
    <3>2. QED
      BY <3>1, PlainFrame
  <2>2. CASE f = [a EXCEPT !.pc = InsnAt(Top(t).pc), !.ph = "run"]
    <3>1. CodeRec(f) /\ f.ecx = 0 /\ f.ph = "run"
      BY <1>11, <2>2 DEF CodeRec, CodeFields
    <3>2. QED
      BY <3>1, PlainFrame
  <2>3. QED
    BY <1>12, <2>1, <2>2
<1>14. PICK r : r = [b EXCEPT ![Len(b)] = f]
  OBVIOUS
<1>15. StackOK(r)
  <2>1. f.kind = b[Len(b)].kind
    BY <1>8, <1>9, <1>13
  <2>2. QED
    BY <1>6, <1>7, <1>13, <1>14, <2>1, SetFrame
<1>16. stk' = [stk EXCEPT ![t] = r]
  <2>1. b = Below(t) /\ Len(b) = Len(stk[t]) - 1
    BY <1>3, <1>4, <1>6 DEF Below
  <2>2. stk' = [stk EXCEPT ![t] = [b EXCEPT ![Len(b)] = f]]
    BY <1>8, <1>12, <2>1 DEF TrampolineReturn
  <2>3. QED
    BY <1>14, <2>2
<1>17. QED
  BY <1>1, <1>2, <1>15, <1>16, StackMove
-----------------------------------------------------------------------------
(* The signal handler.                                                     *)

\* The search looks only at frames of compiled code.
LEMMA AddrFacts ==
  ASSUME Machine, NEW t \in Threads, sig[t].name # None, NEW k \in DOMAIN Addrs(t)
  PROVE  /\ Addrs(t)[k].frame \in 0 .. Len(stk[t])
         /\ Addrs(t)[k].frame # 0 => stk[t][Addrs(t)[k].frame].kind = "code"
<1> DEFINE n == Len(stk[t])
           in(i, off) == [frame |-> i, m |-> stk[t][i].m, off |-> off]
           outside == [frame |-> 0, m |-> None, off |-> 0]
           ret(i) == IF stk[t][i].kind = "code"
                       THEN in(i, Nativeoff(stk[t][i].pc) + Length - 1) ELSE outside
           first == IF sig[t].lib = 0 THEN <<in(n, sig[t].off)>>
                    ELSE Append([j \in 1 .. sig[t].lib |-> outside], ret(n))
           rest == [j \in 1 .. n - 1 |-> ret(n - j)]
           Good(a) == a.frame \in 0 .. n /\ (a.frame # 0 => stk[t][a.frame].kind = "code")
<1>1. Addrs(t) = first \o rest
  BY DEF Addrs
<1>2. n \in Nat /\ n > 0 /\ stk[t][n].kind = "code" /\ sig[t].lib \in Nat
  BY TopOK DEF Machine, SignalOK
<1>3. ASSUME NEW i \in 1 .. n PROVE Good(ret(i))
  <2>1. CASE stk[t][i].kind = "code"
    BY <1>2, <2>1
  <2>2. CASE stk[t][i].kind # "code"
    BY <1>2, <2>2
  <2>3. QED
    BY <2>1, <2>2
<1>4. Good(outside) /\ Good(in(n, sig[t].off))
  BY <1>2
<1>5. IsSeq(rest) /\ \A i \in DOMAIN rest : Good(rest[i])
  <2>1. n - 1 \in Nat /\ rest = [j \in 1 .. n - 1 |-> rest[j]]
    BY <1>2
  <2>2. IsSeq(rest)
    <3>1. PICK z : z = rest
      OBVIOUS
    <3>2. z = [j \in 1 .. n - 1 |-> z[j]]
      BY <2>1, <3>1
    <3>3. IsSeq(z)
      BY <2>1, <3>2, FunSeq
    <3>4. QED
      BY <3>1, <3>3
  <2>3. ASSUME NEW i \in 1 .. n - 1 PROVE Good(rest[i])
    <3>1. n - i \in 1 .. n /\ rest[i] = ret(n - i)
      BY <1>2
    <3>2. Good(ret(n - i))
      BY <1>3, <3>1
    <3>3. QED
      BY <3>1, <3>2
  <2>4. QED
    BY <2>2, <2>3
<1>6. IsSeq(first) /\ \A i \in DOMAIN first : Good(first[i])
  <2>1. CASE sig[t].lib = 0
    <3>1. PICK x : x = in(n, sig[t].off)
      OBVIOUS
    <3>2. first = <<x>>
      BY <2>1, <3>1
    <3>3. Good(x)
      BY <1>4, <3>1
    <3>4. <<x>> \in Seq({x}) /\ DOMAIN <<x>> = {1} /\ <<x>>[1] = x
      OBVIOUS
    <3>5. IsSeq(<<x>>)
      BY <3>4 DEF IsSeq
    <3>6. QED
      BY <3>2, <3>3, <3>4, <3>5
  <2>2. CASE sig[t].lib # 0
    <3>1. PICK z : z = [j \in 1 .. sig[t].lib |-> outside]
      OBVIOUS
    <3>2. IsSeq(z) /\ Len(z) = sig[t].lib
      <4>1. z = [j \in 1 .. sig[t].lib |-> z[j]]
        BY <3>1
      <4>2. QED
        BY <1>2, <4>1, FunSeq
    <3>3. PICK y : y = ret(n)
      OBVIOUS
    <3>4. PICK w : w = Append(z, y)
      OBVIOUS
    <3>5. first = w
      BY <2>2, <3>1, <3>3, <3>4
    <3>6. IsSeq(w)
      BY <3>2, <3>4, Push
    <3>7. Len(w) = Len(z) + 1
      BY <3>2, <3>4, Push
    <3>8. w[Len(z) + 1] = y
      BY <3>2, <3>4, Push
    <3>9. \A i \in 1 .. Len(z) : w[i] = z[i]
      BY <3>2, <3>4, Push
    <3>10. PICK l \in Nat : l = Len(z)
      BY <3>2, SeqFacts
    <3>11. DOMAIN w = 1 .. l + 1 /\ w[l + 1] = y /\ \A i \in 1 .. l : w[i] = outside
      <4>1. DOMAIN w = 1 .. l + 1
        BY <3>6, <3>7, <3>10, SeqFacts
      <4>2. \A i \in 1 .. l : z[i] = outside
        BY <3>1, <3>2, <3>10
      <4>3. QED
        BY <3>8, <3>9, <3>10, <4>1, <4>2
    <3>12. Good(y)
      <4>1. n \in 1 .. n
        BY <1>2
      <4>2. QED
        BY <1>3, <3>3, <4>1
    <3>13. ASSUME NEW i \in DOMAIN w PROVE Good(w[i])
      <4>1. CASE i \in 1 .. l
        <5>1. w[i] = outside
          BY <3>11, <4>1
        <5>2. QED
          BY <1>4, <5>1
      <4>2. CASE i = l + 1
        <5>1. w[i] = y
          BY <3>11, <4>2
        <5>2. QED
          BY <3>12, <5>1
      <4>3. i \in 1 .. l \/ i = l + 1
        BY <3>10, <3>11
      <4>4. QED
        BY <4>1, <4>2, <4>3
    <3>14. QED
      BY <3>5, <3>6, <3>13
  <2>3. QED
    BY <2>1, <2>2
<1>7. PICK a, b : a = first /\ b = rest
  OBVIOUS
<1>8. /\ IsSeq(a) /\ IsSeq(b) /\ k \in DOMAIN (a \o b) /\ Addrs(t) = a \o b
      /\ \A i \in DOMAIN a : Good(a[i])
      /\ \A i \in DOMAIN b : Good(b[i])
  BY <1>1, <1>5, <1>6, <1>7
<1>9. Good((a \o b)[k])
  <2>1. \/ \E i \in DOMAIN a : (a \o b)[k] = a[i]
        \/ \E i \in DOMAIN b : (a \o b)[k] = b[i]
    BY <1>8, CatFacts
  <2>2. QED
    BY <1>8, <2>1
<1>10. QED
  BY <1>8, <1>9

LEMMA LocatedFacts ==
  ASSUME Machine, NEW t \in Threads, sig[t].name # None, NEW found \in Located(t)
  PROVE  /\ found.frame \in 0 .. Len(stk[t])
         /\ found.frame # 0 => stk[t][found.frame].kind = "code"
<1>1. PICK k \in DOMAIN Addrs(t) : \E e : found = [frame |-> Addrs(t)[k].frame, entry |-> e]
  BY DEF Located
<1>2. found.frame = Addrs(t)[k].frame
  BY <1>1
<1>3. QED
  BY <1>2, AddrFacts
\* Everything inside the frame that has the entry is left.
LEMMA HandlerStack ==
  ASSUME NEW s, StackOK(s), NEW n \in Nat, n <= Len(s), n # 0 => s[n].kind = "code",
         NEW f, n # 0 => Shaped(f) /\ Registers(f) /\ f.kind = "code", NEW r, IsSeq(r), Len(r) = n,
         \A k \in 1 .. n : r[k] = IF k < n THEN s[k] ELSE f
  PROVE  StackOK(r)
<1>1. Len(s) \in Nat
  BY SeqFacts DEF StackOK
<1>2. PICK l \in Nat : l = Len(s)
  BY <1>1
<1>3. n <= l
  BY <1>2
<1>4. \A k \in 1 .. l : /\ Shaped(s[k]) /\ Registers(s[k])
                        /\ IF k = 1 THEN s[k].kind = "code" ELSE Above(s[k - 1], s[k])
  BY <1>2 DEF StackOK, FramesOK
<1>5. ASSUME NEW k \in 1 .. n
      PROVE  /\ Shaped(r[k]) /\ Registers(r[k])
             /\ IF k = 1 THEN r[k].kind = "code" ELSE Above(r[k - 1], r[k])
  <2>1. k \in 1 .. l /\ (k # 1 => k - 1 \in 1 .. n /\ k - 1 < n)
    BY <1>3
  <2>2. k # 1 => r[k - 1] = s[k - 1]
    BY <2>1
  <2>3. CASE k < n
    <3>1. r[k] = s[k]
      BY <2>3
    <3>2. QED
      BY <1>4, <2>1, <2>2, <3>1
  <2>4. CASE k = n
    <3>1. r[k] = f /\ Shaped(f) /\ Registers(f) /\ f.kind = "code" /\ s[k].kind = "code"
      BY <2>4
    <3>2. k # 1 => Above(s[k - 1], f)
      BY <1>4, <2>1, <3>1 DEF Above
    <3>3. QED
      BY <2>2, <3>1, <3>2
  <2>5. QED
    BY <2>3, <2>4
<1>6. QED
  BY <1>5 DEF StackOK, FramesOK

LEMMA ThrowMove ==
  ASSUME Machine, NEW t \in Threads, sig[t].name # None, NEW found \in Located(t), NEW e,
         ToHandler(t, found, e), sig' = [sig EXCEPT ![t] = NoSignal]
  PROVE  Machine'
<1>1. PICK s : s = stk[t]
  OBVIOUS
<1>2. PICK n : n = found.frame
  OBVIOUS
<1>3. PICK off : off = found.entry.byteoff
  OBVIOUS
<1>4. StackOK(s) /\ n \in 0 .. Len(s) /\ (n # 0 => s[n].kind = "code")
  BY <1>1, <1>2, LocatedFacts DEF Machine
<1>5. PICK f : f = [s[n] EXCEPT !.ph = "exc", !.bytepc = off, !.method = None,
                                !.obj = None, !.v1 = 0, !.eax = 0, !.ecx = 0, !.edx = 0]
  OBVIOUS
<1>6. PICK l \in Nat : l = Len(s)
  BY <1>4, SeqFacts DEF StackOK
<1>7. n \in Nat /\ n <= l
  BY <1>4, <1>6
<1>8. n # 0 => Shaped(f) /\ Registers(f) /\ f.kind = "code"
  <2>1. SUFFICES ASSUME n # 0 PROVE Shaped(f) /\ Registers(f) /\ f.kind = "code"
    OBVIOUS
  <2>2. n \in 1 .. l
    BY <1>7, <2>1
  <2>3. Shaped(s[n]) /\ s[n].kind = "code"
    BY <1>4, <1>6, <2>1, <2>2 DEF StackOK, FramesOK
  <2>4. CodeRec(s[n])
    BY <2>3, Kinds
  <2>5. CodeRec(f) /\ f.ecx = 0 /\ f.ph = "exc"
    BY <1>5, <2>4 DEF CodeRec, CodeFields
  <2>6. QED
    BY <2>5, PlainFrame
<1>9. PICK r : r = [k \in 1 .. n |-> IF k < n THEN s[k] ELSE f]
  OBVIOUS
<1>10. IsSeq(r) /\ Len(r) = n /\ \A k \in 1 .. n : r[k] = IF k < n THEN s[k] ELSE f
  <2>1. r = [k \in 1 .. n |-> r[k]]
    BY <1>9
  <2>2. QED
    BY <1>7, <1>9, <2>1, FunSeq
<1>11. StackOK(r)
  BY <1>4, <1>6, <1>7, <1>8, <1>10, HandlerStack
<1>12. stk' = [stk EXCEPT ![t] = r]
  <2>1. r = [k \in 1 .. n |->
              IF k < n THEN s[k]
              ELSE [s[k] EXCEPT !.ph = "exc", !.bytepc = off, !.method = None,
                                !.obj = None, !.v1 = 0, !.eax = 0, !.ecx = 0, !.edx = 0]]
    <3>1. ASSUME NEW k \in 1 .. n, ~ (k < n) PROVE k = n
      BY <1>7, <3>1
    <3>2. QED
      BY <1>5, <1>9, <3>1, Zenon
  <2>2. QED
    BY <1>1, <1>2, <1>3, <2>1 DEF ToHandler
<1>13. SignalOK(NoSignal, r)
  BY SilentOK
<1>14. QED
  BY <1>11, <1>12, <1>13, Moved

\* The handler changes the innermost frame.
LEMMA RepairMove ==
  ASSUME Machine, NEW t \in Threads, stk[t] # << >>, NEW f, Shaped(f), Registers(f),
         f.kind = Top(t).kind, SetTop(t, f), sig' = [sig EXCEPT ![t] = NoSignal]
  PROVE  Machine'
<1>1. PICK r : r = [stk[t] EXCEPT ![Len(stk[t])] = f]
  OBVIOUS
<1>2. stk' = [stk EXCEPT ![t] = r]
  BY <1>1 DEF SetTop
<1>3. StackOK(stk[t]) /\ f.kind = stk[t][Len(stk[t])].kind
  BY DEF Machine, Top
<1>4. StackOK(r)
  BY <1>1, <1>3, SetFrame
<1>5. SignalOK(NoSignal, r)
  BY SilentOK
<1>6. QED
  BY <1>2, <1>4, <1>5, Moved

\* What the handler finds
LEMMA SignalledFacts ==
  ASSUME Machine, NEW t \in Threads, sig[t].name # None
  PROVE  /\ stk[t] # << >> /\ CodeRec(Top(t)) /\ Registers(Top(t)) /\ Top(t).kind = "code"
         /\ Top(t) = stk[t][Len(stk[t])] /\ StackOK(stk[t])
         /\ sig[t].name = "FPE" => Top(t).ph \in {"run", "idivl"}
         /\ sig[t].name = "TRAP" => Top(t).ph \in {"run", "bound"}
<1>1. /\ StackOK(stk[t]) /\ stk[t] # << >> /\ stk[t][Len(stk[t])].kind = "code"
      /\ sig[t].name = "FPE" => stk[t][Len(stk[t])].ph \in {"run", "idivl"}
      /\ sig[t].name = "TRAP" => stk[t][Len(stk[t])].ph \in {"run", "bound"}
  BY DEF Machine, SignalOK
<1>2. Shaped(stk[t][Len(stk[t])]) /\ Registers(stk[t][Len(stk[t])])
  BY <1>1, TopOK
<1>3. QED
  BY <1>1, <1>2, Kinds DEF Top

LEMMA MachineFpe ==
  ASSUME Machine, NEW t \in Threads, sig[t].name # None, NEW found \in Located(t),
         SignalFpe(t, found), sig' = [sig EXCEPT ![t] = NoSignal]
  PROVE  Machine'
<1>1. /\ stk[t] # << >> /\ CodeRec(Top(t)) /\ Registers(Top(t)) /\ Top(t).kind = "code"
      /\ sig[t].name = "FPE" /\ Top(t).ph \in {"run", "idivl"}
  BY SignalledFacts DEF SignalFpe
<1>2. CASE ToHandler(t, found, "ArithmeticException")
  BY <1>2, ThrowMove
<1>3. CASE /\ Top(t).eax = MinInt /\ Top(t).ecx = -1
           /\ SetTop(t, [Top(t) EXCEPT !.ph = "divided", !.eax = MinInt, !.edx = 0,
                                       !.bytepc = found.entry.byteoff])
  <2>1. PICK x : x = found.entry.byteoff
    OBVIOUS
  <2>2. PICK f : f = [Top(t) EXCEPT !.ph = "divided", !.eax = MinInt, !.edx = 0, !.bytepc = x]
    OBVIOUS
  <2>3. SetTop(t, f)
    BY <1>3, <2>1, <2>2
  <2>4. /\ CodeRec(f) /\ f.ph = "divided" /\ f.eax = MinInt /\ f.edx = 0
        /\ f.v1 = Top(t).v1 /\ f.ecx = Top(t).ecx
    BY <1>1, <2>2 DEF CodeRec, CodeFields
  <2>5. Top(t).ecx # 0
    BY <1>3
  <2>6. Top(t).ph = "idivl"
    BY <1>1, <2>5 DEF Registers
  <2>7. f.v1 = MinInt /\ f.ecx = -1
    BY <1>1, <1>3, <2>4, <2>6 DEF Registers
  <2>8. Right(f)
    BY <2>4, <2>7 DEF Right
  <2>9. Shaped(f) /\ Registers(f) /\ f.kind = "code"
    BY <2>4, <2>8 DEF Shaped, Registers, CodeRec
  <2>10. QED
    BY <1>1, <2>3, <2>9, RepairMove
<1>4. CASE Fatal
  BY <1>4, SilentOK, RaiseMove DEF Fatal
<1>5. QED
  BY <1>2, <1>3, <1>4 DEF SignalFpe

LEMMA MachineTrapIntf ==
  ASSUME Machine, NEW t \in Threads, sig[t].name # None, NEW e, SignalTrapIntf(t, e),
         sig' = [sig EXCEPT ![t] = NoSignal]
  PROVE  Machine'
<1>1. /\ stk[t] # << >> /\ CodeRec(Top(t)) /\ Registers(Top(t)) /\ Top(t).kind = "code"
      /\ Top(t).ph \in {"run", "bound"}
  BY SignalledFacts DEF SignalTrapIntf
<1>2. Top(t).ecx = 0
  BY <1>1 DEF Registers
<1>3. CASE SetTop(t, Advance(Top(t)))
  <2>1. PICK f : f = Advance(Top(t))
    OBVIOUS
  <2>2. Shaped(f) /\ Registers(f) /\ f.kind = "code"
    BY <1>1, <1>2, <2>1, GoOn
  <2>3. QED
    BY <1>1, <1>3, <2>1, <2>2, RepairMove
<1>4. CASE SetTop(t, [Top(t) EXCEPT !.ph = "exc", !.bytepc = e.byteoff])
  <2>1. PICK f : f = [Top(t) EXCEPT !.ph = "exc", !.bytepc = e.byteoff]
    OBVIOUS
  <2>2. CodeRec(f) /\ f.ecx = 0 /\ f.ph = "exc"
    BY <1>1, <1>2, <2>1 DEF CodeRec, CodeFields
  <2>3. Shaped(f) /\ Registers(f) /\ f.kind = "code"
    BY <2>2, PlainFrame
  <2>4. QED
    BY <1>1, <1>4, <2>1, <2>3, RepairMove
<1>5. QED
  BY <1>3, <1>4 DEF SignalTrapIntf

LEMMA MachineTrapInit ==
  ASSUME Machine, NEW t \in Threads, sig[t].name # None, NEW e, SignalTrapInit(t, e),
         sig' = [sig EXCEPT ![t] = NoSignal]
  PROVE  Machine'
<1>1. /\ stk[t] # << >> /\ Top(t).kind = "code" /\ Top(t).ph \in {"run", "bound"}
      /\ Top(t) = stk[t][Len(stk[t])] /\ StackOK(stk[t])
  BY SignalledFacts DEF SignalTrapInit
<1>2. PICK g : g = [kind |-> "trampoline", m |-> Top(t).m, ph |-> "push",
                    cb |-> None, ee |-> None, pc |-> 0]
  OBVIOUS
<1>3. TrampRec(g) /\ g.kind = "trampoline"
  BY <1>2 DEF TrampRec, TrampFields
<1>4. Shaped(g) /\ Registers(g)
  BY <1>3, OtherFrame
<1>5. PICK s : s = stk[t]
  OBVIOUS
<1>6. StackOK(s) /\ s # << >> /\ Above(s[Len(s)], g)
  BY <1>1, <1>3, <1>5 DEF Above
<1>7. PICK r : r = Append(s, g)
  OBVIOUS
<1>8. StackOK(r)
  BY <1>4, <1>6, <1>7, PushFrame
<1>9. stk' = [stk EXCEPT ![t] = r]
  BY <1>2, <1>5, <1>7 DEF SignalTrapInit
<1>10. SignalOK(NoSignal, r)
  BY SilentOK
<1>11. QED
  BY <1>8, <1>9, <1>10, Moved

LEMMA MachineSignal ==
  ASSUME Machine, NEW t \in Threads, signalHandler(t) PROVE Machine'
<1>1. sig[t].name # None /\ sig' = [sig EXCEPT ![t] = NoSignal]
  BY DEF signalHandler
<1>2. CASE Fatal
  BY <1>1, <1>2, SilentOK, RaiseMove DEF Fatal
<1>3. ASSUME NEW found \in Located(t), SignalSegv(t, found) PROVE Machine'
  <2>1. PICK e : ToHandler(t, found, e)
    BY <1>3 DEF SignalSegv
  <2>2. QED
    BY <1>1, <2>1, ThrowMove
<1>4. ASSUME NEW found \in Located(t), SignalFpe(t, found) PROVE Machine'
  BY <1>1, <1>4, MachineFpe
<1>5. ASSUME NEW found \in Located(t), SignalTrapIntf(t, found.entry) PROVE Machine'
  BY <1>1, <1>5, MachineTrapIntf
<1>6. ASSUME NEW found \in Located(t), SignalTrapInit(t, found.entry) PROVE Machine'
  BY <1>1, <1>6, MachineTrapInit
<1>7. QED
  BY <1>2, <1>3, <1>4, <1>5, <1>6 DEF signalHandler
-----------------------------------------------------------------------------
(* The theorem.                                                            *)

LEMMA MachineInit ==
  Init => Machine
<1>1. SUFFICES ASSUME Init PROVE Machine
  OBVIOUS
<1>2. /\ stk = [t \in Threads |-> <<Frame(Start[t])>>]
      /\ sig = [t \in Threads |-> NoSignal]
  BY <1>1 DEF Init
<1>3. ASSUME NEW t \in Threads PROVE StackOK(stk[t]) /\ SignalOK(sig[t], stk[t])
  <2>1. PICK f : f = Frame(Start[t])
    OBVIOUS
  <2>2. Shaped(f) /\ Registers(f) /\ f.kind = "code"
    BY <2>1, FreshFrame
  <2>3. <<f>> \in Seq({f}) /\ Len(<<f>>) = 1 /\ <<f>>[1] = f
    OBVIOUS
  <2>4. IsSeq(<<f>>)
    BY <2>3 DEF IsSeq
  <2>5. FramesOK(<<f>>)
    <3>1. ASSUME NEW k \in 1 .. 1 PROVE k = 1
      OBVIOUS
    <3>2. QED
      BY <2>2, <2>3, <3>1 DEF FramesOK
  <2>6. stk[t] = <<f>> /\ sig[t] = NoSignal
    BY <1>2, <2>1
  <2>7. QED
    BY <2>4, <2>5, <2>6, SilentOK DEF StackOK
<1>4. stk = [t \in Threads |-> stk[t]] /\ sig = [t \in Threads |-> sig[t]]
  BY <1>2
<1>5. QED
  BY <1>3, <1>4 DEF Machine

LEMMA MachineStep ==
  ASSUME Machine, NEW t \in Threads, Step(t) PROVE Machine'
<1>1. CASE Trap(t) \/ Use(t) \/ inv_head(t) \/ inlined_exit(t) \/ Deref(t)
  BY <1>1, MachineTrap, MachineUse, MachineHead, MachineExit, MachineDeref
<1>2. CASE DivLoad(t) \/ Idivl(t) \/ DivDone(t) \/ ldiv(t) \/ athrow(t)
  BY <1>2, MachineLoad, MachineIdivl, MachineDone, MachineLdiv, MachineAthrow
<1>3. CASE CacheKey(t) \/ CacheHit(t) \/ getInterfaceMethod(t) \/ CacheWrite(t) \/ Bound(t)
  BY <1>3, MachineKey, MachineHit, MachineGet, MachineWrite, MachineBound
<1>4. CASE inv_vir_varspace(t) \/ invoke_core(t) \/ return(t) \/ exceptionHandler(t)
  BY <1>4, MachineVarspace, MachineInvoke, MachineReturn, MachineHandler
<1>5. CASE signalHandler(t) \/ TrampolinePush(t) \/ once_InitClass(t)
  BY <1>5, MachineSignal, MachinePush, MachineOnce
<1>6. CASE InitClass(t) \/ InitClassOver(t) \/ TrampolineReturn(t)
  BY <1>6, MachineInitClass, MachineOver, MachineResume
<1>7. QED
  BY <1>1, <1>2, <1>3, <1>4, <1>5, <1>6 DEF Step

LEMMA MachineNext ==
  Machine /\ [Next]_vars => Machine'
<1>1. SUFFICES ASSUME Machine, [Next]_vars PROVE Machine'
  OBVIOUS
<1>2. ASSUME NEW t \in Threads, Step(t) PROVE Machine'
  BY <1>1, <1>2, MachineStep
<1>3. CASE UNCHANGED vars
  BY <1>1, <1>3 DEF vars, Machine
<1>4. QED
  BY <1>1, <1>2, <1>3 DEF Next

\* Whatever compiled code, the signal handler, trampolines and exceptions do to
\* the stacks of any threads, frames stand on each other as calls, traps and
\* initialisations put them there, and a pending signal is that of the
\* innermost frame.
THEOREM MachineInvariance ==
  Spec => []Machine
<1>1. Init => Machine
  BY MachineInit
<1>2. Machine /\ [Next]_vars => Machine'
  BY MachineNext
<1>3. QED
  BY <1>1, <1>2, PTL DEF Spec

\* idiv and irem give what Java requires for every program and every width of
\* an int: a quotient idivl cannot represent is repaired by the handler in the
\* frame that made the division, and no other signal is taken for it.
THEOREM DivisionsRight ==
  Spec => []DivisionRight
<1>1. Machine => DivisionRight
  <2>1. SUFFICES ASSUME Machine, NEW t \in Threads, NEW k \in DOMAIN stk[t],
                        stk[t][k].kind = "code", stk[t][k].ph = "divided"
                 PROVE  Right(stk[t][k])
    BY DEF DivisionRight, Right
  <2>2. IsSeq(stk[t]) /\ FramesOK(stk[t])
    BY <2>1 DEF Machine, StackOK
  <2>3. k \in 1 .. Len(stk[t])
    BY <2>1, <2>2, SeqFacts
  <2>4. Registers(stk[t][k])
    BY <2>2, <2>3 DEF FramesOK
  <2>5. QED
    BY <2>1, <2>4 DEF Registers
<1>2. QED
  BY <1>1, MachineInvariance, PTL

-----------------------------------------------------------------------------
(* Arithmetic and data.                                                    *)

\* Templates are laid out one behind the other.
LEMMA Layout ==
  ASSUME NEW L \in Nat, NEW a \in Int, NEW b \in Int, a < b
  PROVE  L * a \in Int /\ L * b \in Int /\ L * a + L <= L * b
<1>1. PICK d \in Nat : b = a + 1 + d
  <2>1. b - a - 1 \in Nat /\ b = a + 1 + (b - a - 1)
    OBVIOUS
  <2>2. QED
    BY <2>1
<1>2. L * b = L * a + L + L * d
  BY <1>1
<1>3. L * d \in Nat /\ L * a \in Int
  OBVIOUS
<1>4. QED
  BY <1>2, <1>3

\* The template of an address
LEMMA Divided ==
  ASSUME NEW L \in Nat, L > 0, NEW n \in Int, NEW r \in 0 .. L - 1
  PROVE  (L * n + r) \div L = n
<1>1. PICK a \in Int : a = L * n + r
  OBVIOUS
<1>2. PICK q : q = a \div L
  OBVIOUS
<1>3. q \in Int /\ L * q <= a /\ a < L * q + L
  BY <1>2
<1>4. ~ (q < n)
  <2>1. SUFFICES ASSUME q < n PROVE FALSE
    OBVIOUS
  <2>2. L * q \in Int /\ L * n \in Int /\ L * q + L <= L * n
    BY <1>3, <2>1, Layout
  <2>3. QED
    BY <1>1, <1>3, <2>2
<1>5. ~ (n < q)
  <2>1. SUFFICES ASSUME n < q PROVE FALSE
    OBVIOUS
  <2>2. L * q \in Int /\ L * n \in Int /\ L * n + L <= L * q
    BY <1>3, <2>1, Layout
  <2>3. QED
    BY <1>1, <1>3, <2>2
<1>6. QED
  BY <1>1, <1>2, <1>3, <1>4, <1>5

\* Only the quotient of the smallest int by -1 is no int.
LEMMA Fits ==
  ASSUME NEW a \in Ints, NEW b \in Ints, b # 0, ~ (a = MinInt /\ b = -1)
  PROVE  Quotient(a, b) \in Ints
<1>1. PICK n : n = MinInt
  OBVIOUS
<1>2. n \in Int /\ n < 0 /\ a \in Int /\ b \in Int /\ n <= a /\ n <= b /\ a <= -n - 1 /\ b <= -n - 1
  BY <1>1, IntAssumption DEF Ints
<1>3. PICK x, y : x = Abs(a) /\ y = Abs(b)
  OBVIOUS
<1>4. /\ x \in Nat /\ y \in Nat /\ y > 0 /\ x <= -n /\ (x = a \/ x = -a) /\ (y = b \/ y = -b)
      /\ x = a <=> a >= 0
  <2>1. x = a * Sign(a) /\ y = b * Sign(b)
    BY <1>3 DEF Abs
  <2>2. CASE a < 0 /\ b < 0
    BY <1>2, <2>1, <2>2 DEF Sign
  <2>3. CASE a < 0 /\ ~ (b < 0)
    BY <1>2, <2>1, <2>3 DEF Sign
  <2>4. CASE ~ (a < 0) /\ b < 0
    BY <1>2, <2>1, <2>4 DEF Sign
  <2>5. CASE ~ (a < 0) /\ ~ (b < 0)
    BY <1>2, <2>1, <2>5 DEF Sign
  <2>6. QED
    BY <2>2, <2>3, <2>4, <2>5
<1>5. PICK q : q = x \div y
  OBVIOUS
<1>6. q \in Int /\ y * q <= x /\ x < y * q + y
  BY <1>4, <1>5
<1>7. q \in Nat
  <2>1. SUFFICES ASSUME q < 0 PROVE FALSE
    BY <1>6
  <2>2. y * q + y <= y * 0
    BY <1>4, <1>6, <2>1, Layout
  <2>3. y * 0 = 0
    BY <1>4
  <2>4. y * q \in Int
    BY <1>4, <1>6
  <2>5. QED
    BY <1>4, <1>6, <2>2, <2>3, <2>4
<1>8. y = 1 => q = x
  BY <1>4, <1>6
<1>9. y # 1 => q < -n
  <2>1. SUFFICES ASSUME y # 1, ~ (q < -n) PROVE FALSE
    OBVIOUS
  <2>2. y = 2 + (y - 2) /\ y - 2 \in Nat
    BY <1>4, <2>1
  <2>3. PICK d \in Nat : d = y - 2
    BY <2>2
  <2>4. y * q = q + q + d * q
    BY <1>7, <2>2, <2>3
  <2>5. d * q \in Nat
    BY <1>7, <2>3
  <2>6. QED
    BY <1>2, <1>4, <1>6, <1>7, <2>1, <2>4, <2>5
<1>10. Quotient(a, b) = q \/ Quotient(a, b) = -q
  <2>1. Quotient(a, b) = Sign(a) * Sign(b) * q
    BY <1>3, <1>5 DEF Quotient
  <2>2. Sign(a) \in {1, -1} /\ Sign(b) \in {1, -1}
    BY DEF Sign
  <2>3. QED
    BY <1>7, <2>1, <2>2
<1>11. CASE q < -n
  <2>1. PICK z : z = Quotient(a, b)
    OBVIOUS
  <2>2. z \in Int /\ n <= z /\ z <= -n - 1
    BY <1>2, <1>7, <1>10, <1>11, <2>1
  <2>3. Ints = n .. (-n - 1)
    BY <1>1 DEF Ints
  <2>4. z \in n .. (-n - 1)
    BY <1>2, <2>2
  <2>5. QED
    BY <2>1, <2>3, <2>4
<1>12. CASE ~ (q < -n)
  <2>1. y = 1 /\ q = x /\ x = -n
    BY <1>2, <1>4, <1>7, <1>8, <1>9, <1>12
  <2>2. a = n /\ (b = 1 \/ b = -1)
    BY <1>2, <1>4, <2>1
  <2>3. b = 1
    BY <1>1, <2>2
  <2>4. Quotient(a, b) = -q
    <3>1. Sign(a) = -1 /\ Sign(b) = 1
      BY <1>2, <2>2, <2>3 DEF Sign
    <3>2. Quotient(a, b) = (-1) * 1 * q
      BY <1>3, <1>5, <3>1 DEF Quotient
    <3>3. QED
      BY <1>7, <3>2
  <2>5. QED
    BY <1>1, <1>2, <2>1, <2>4 DEF Ints
<1>13. QED
  BY <1>11, <1>12

-----------------------------------------------------------------------------
(* The binary search.                                                      *)

Ordered(T) ==
  /\ Len(T) \in Nat
  /\ \A k \in 1 .. Len(T) : T[k].start \in Int /\ T[k].len \in Nat
  /\ \A j, k \in 1 .. Len(T) : j < k => T[j].start + T[j].len <= T[k].start

Ranges(T) == {r \in (0 .. Len(T)) \X (0 .. Len(T)) : r[1] <= r[2]}

Middle(r) == r[1] + (r[2] - r[1]) \div 2

\* one probe of the search, which goes on with g
Probe(T, a, g, r) ==
  LET l == r[1]
      h == r[2]
      index == l + (h - l) \div 2
  IN IF index < Len(T) /\ Covers(T[index + 1], a) THEN index + 1
     ELSE IF l = h THEN 0
     ELSE IF a < T[index + 1].start THEN g[<<l, index>>]
     ELSE g[<<index + 1, h>>]

Search(T, a, g) == g = [r \in Ranges(T) |-> Probe(T, a, g, r)]

LEMMA BisectionIs ==
  ASSUME NEW T, NEW a
  PROVE  Bisection(T, a) = CHOOSE g : Search(T, a, g)
BY DEF Bisection, Search, Probe, Ranges

\* the entries that cover a, among those the search still considers
Hits(T, a, r) == {k \in 1 .. Len(T) : r[1] < k /\ k <= r[2] + 1 /\ Covers(T[k], a)}

LEMMA OneHit ==
  ASSUME NEW T, Ordered(T), NEW a \in Int, NEW j \in 1 .. Len(T), NEW k \in 1 .. Len(T),
         Covers(T[j], a), Covers(T[k], a)
  PROVE  j = k
<1>1. ASSUME NEW i1 \in 1 .. Len(T), NEW i2 \in 1 .. Len(T), i1 < i2,
             Covers(T[i1], a), Covers(T[i2], a)
      PROVE  FALSE
  <2>1. T[i1].start + T[i1].len <= T[i2].start
    BY <1>1 DEF Ordered
  <2>2. a < T[i1].start + T[i1].len /\ T[i2].start <= a
    BY <1>1 DEF Covers
  <2>3. T[i1].start \in Int /\ T[i1].len \in Int /\ T[i2].start \in Int
    BY DEF Ordered
  <2>4. QED
    BY <2>1, <2>2, <2>3
<1>2. Len(T) \in Nat
  BY DEF Ordered
<1>3. j < k \/ k < j \/ j = k
  BY <1>2
<1>4. QED
  BY <1>1, <1>3

LEMMA Probed ==
  ASSUME NEW T, Ordered(T), NEW r \in Ranges(T)
  PROVE  /\ r[1] \in Nat /\ r[2] \in Nat /\ r[1] <= r[2] /\ r[2] <= Len(T) /\ Len(T) \in Nat
         /\ Middle(r) \in Nat /\ r[1] <= Middle(r) /\ Middle(r) <= r[2]
         /\ r[1] # r[2] => Middle(r) < r[2]
<1>1. Len(T) \in Nat
  BY DEF Ordered
<1>2. r[1] \in 0 .. Len(T) /\ r[2] \in 0 .. Len(T) /\ r[1] <= r[2]
  BY DEF Ranges
<1>3. PICK l, h : l = r[1] /\ h = r[2]
  OBVIOUS
<1>4. l \in Nat /\ h \in Nat /\ l <= h
  BY <1>1, <1>2, <1>3
<1>5. PICK i : i = l + (h - l) \div 2
  OBVIOUS
<1>6. i \in Nat /\ l <= i /\ i <= h /\ (l # h => i < h)
  BY <1>4, <1>5
<1>7. Middle(r) = i
  BY <1>3, <1>5 DEF Middle
<1>8. QED
  BY <1>1, <1>2, <1>3, <1>4, <1>6, <1>7

\* The probe hits, or nothing is left, or the search goes on where a hit can be.
LEMMA ProbeHits ==
  ASSUME NEW T, Ordered(T), NEW a \in Int, NEW r \in Ranges(T), NEW i, i = Middle(r),
         i < Len(T) /\ Covers(T[i + 1], a)
  PROVE  i + 1 \in Hits(T, a, r)
<1>1. PICK l, h, n : l = r[1] /\ h = r[2] /\ n = Len(T)
  OBVIOUS
<1>2. l \in Nat /\ h \in Nat /\ n \in Nat /\ i \in Nat /\ l <= i /\ i <= h
  BY <1>1, Probed
<1>3. i + 1 \in 1 .. n /\ l < i + 1 /\ i + 1 <= h + 1
  BY <1>1, <1>2
<1>4. QED
  BY <1>1, <1>3 DEF Hits

LEMMA ProbeLast ==
  ASSUME NEW T, Ordered(T), NEW a \in Int, NEW r \in Ranges(T), NEW i, i = Middle(r),
         ~ (i < Len(T) /\ Covers(T[i + 1], a)), r[1] = r[2]
  PROVE  Hits(T, a, r) = {}
<1>1. PICK l, h, n : l = r[1] /\ h = r[2] /\ n = Len(T)
  OBVIOUS
<1>2. l \in Nat /\ h \in Nat /\ n \in Nat /\ l = h /\ i \in Nat /\ l <= i /\ i <= h
  BY <1>1, Probed
<1>3. ASSUME NEW k \in 1 .. n, l < k, k <= h + 1 PROVE k = i + 1 /\ i < n
  BY <1>2, <1>3
<1>4. QED
  BY <1>1, <1>3 DEF Hits

LEMMA GoesLeft ==
  ASSUME NEW T, Ordered(T), NEW a \in Int, NEW r \in Ranges(T), NEW i, i = Middle(r),
         ~ (i < Len(T) /\ Covers(T[i + 1], a)), r[1] # r[2], a < T[i + 1].start
  PROVE  <<r[1], i>> \in Ranges(T) /\ Hits(T, a, r) = Hits(T, a, <<r[1], i>>)
<1>1. PICK l, h, n : l = r[1] /\ h = r[2] /\ n = Len(T)
  OBVIOUS
<1>2. l \in Nat /\ h \in Nat /\ n \in Nat /\ h <= n /\ i \in Nat /\ l <= i /\ i < h
  BY <1>1, Probed
<1>3. i + 1 \in 1 .. n
  BY <1>2
<1>4. <<l, i>> \in Ranges(T)
  BY <1>1, <1>2 DEF Ranges
<1>5. ASSUME NEW k \in 1 .. n, Covers(T[k], a) PROVE k <= i + 1
  <2>1. SUFFICES ASSUME i + 1 < k PROVE FALSE
    BY <1>2
  <2>2. T[i + 1].start + T[i + 1].len <= T[k].start
    BY <1>1, <1>3, <2>1 DEF Ordered
  <2>3. T[k].start <= a
    BY <1>5 DEF Covers
  <2>4. T[i + 1].start \in Int /\ T[i + 1].len \in Nat /\ T[k].start \in Int
    BY <1>1, <1>3 DEF Ordered
  <2>5. QED
    BY <2>2, <2>3, <2>4
<1>6. ASSUME NEW k \in 1 .. n, Covers(T[k], a)
      PROVE  (l < k /\ k <= h + 1) <=> (l < k /\ k <= i + 1)
  BY <1>2, <1>5, <1>6
<1>7. Hits(T, a, <<l, i>>) = {k \in 1 .. n : l < k /\ k <= i + 1 /\ Covers(T[k], a)}
  BY <1>1 DEF Hits
<1>8. Hits(T, a, r) = {k \in 1 .. n : l < k /\ k <= h + 1 /\ Covers(T[k], a)}
  BY <1>1 DEF Hits
<1>9. Hits(T, a, r) = Hits(T, a, <<l, i>>)
  BY <1>6, <1>7, <1>8
<1>10. QED
  BY <1>1, <1>4, <1>9

LEMMA GoesRight ==
  ASSUME NEW T, Ordered(T), NEW a \in Int, NEW r \in Ranges(T), NEW i, i = Middle(r),
         ~ (i < Len(T) /\ Covers(T[i + 1], a)), r[1] # r[2], ~ (a < T[i + 1].start)
  PROVE  <<i + 1, r[2]>> \in Ranges(T) /\ Hits(T, a, r) = Hits(T, a, <<i + 1, r[2]>>)
<1>1. PICK l, h, n : l = r[1] /\ h = r[2] /\ n = Len(T)
  OBVIOUS
<1>2. l \in Nat /\ h \in Nat /\ n \in Nat /\ h <= n /\ i \in Nat /\ l <= i /\ i < h
  BY <1>1, Probed
<1>3. i + 1 \in 1 .. n /\ ~ Covers(T[i + 1], a)
  BY <1>1, <1>2
<1>4. <<i + 1, h>> \in Ranges(T)
  BY <1>1, <1>2 DEF Ranges
<1>5. ASSUME NEW k \in 1 .. n, Covers(T[k], a) PROVE i + 1 < k
  <2>1. T[i + 1].start \in Int /\ T[i + 1].len \in Nat /\ T[k].start \in Int /\ T[k].len \in Nat
    BY <1>1, <1>3 DEF Ordered
  <2>2. T[i + 1].start + T[i + 1].len <= a
    BY <1>3, <2>1 DEF Covers
  <2>3. SUFFICES ASSUME k < i + 1 PROVE FALSE
    BY <1>2, <1>3, <1>5
  <2>4. T[k].start + T[k].len <= T[i + 1].start
    BY <1>1, <1>3, <2>3 DEF Ordered
  <2>5. a < T[k].start + T[k].len
    BY <1>5 DEF Covers
  <2>6. QED
    BY <2>1, <2>4, <2>5
<1>6. ASSUME NEW k \in 1 .. n, Covers(T[k], a)
      PROVE  (l < k /\ k <= h + 1) <=> (i + 1 < k /\ k <= h + 1)
  BY <1>2, <1>5, <1>6
<1>7. Hits(T, a, <<i + 1, h>>) = {k \in 1 .. n : i + 1 < k /\ k <= h + 1 /\ Covers(T[k], a)}
  BY <1>1 DEF Hits
<1>8. Hits(T, a, r) = {k \in 1 .. n : l < k /\ k <= h + 1 /\ Covers(T[k], a)}
  BY <1>1 DEF Hits
<1>9. Hits(T, a, r) = Hits(T, a, <<i + 1, h>>)
  BY <1>6, <1>7, <1>8
<1>10. QED
  BY <1>1, <1>4, <1>9

\* what the search should answer
Found(T, a, r) == IF Hits(T, a, r) = {} THEN 0 ELSE CHOOSE k \in Hits(T, a, r) : TRUE

LEMMA FoundHit ==
  ASSUME NEW T, Ordered(T), NEW a \in Int, NEW r, NEW k \in Hits(T, a, r)
  PROVE  Found(T, a, r) = k
<1>1. Found(T, a, r) \in Hits(T, a, r)
  BY DEF Found
<1>2. QED
  BY <1>1, OneHit DEF Hits

\* One probe answers right if the next ones do.
LEMMA ProbeRight ==
  ASSUME NEW T, Ordered(T), NEW a \in Int, NEW r \in Ranges(T), NEW g,
         \A q \in Ranges(T) : q[2] - q[1] < r[2] - r[1] => g[q] = Found(T, a, q)
  PROVE  Probe(T, a, g, r) = Found(T, a, r)
<1>1. PICK i : i = Middle(r)
  OBVIOUS
<1>2. /\ r[1] \in Nat /\ r[2] \in Nat /\ r[1] <= r[2] /\ i \in Nat /\ r[1] <= i /\ i <= r[2]
      /\ r[1] # r[2] => i < r[2]
  BY <1>1, Probed
<1>3. Probe(T, a, g, r) =
        IF i < Len(T) /\ Covers(T[i + 1], a) THEN i + 1
        ELSE IF r[1] = r[2] THEN 0
        ELSE IF a < T[i + 1].start THEN g[<<r[1], i>>] ELSE g[<<i + 1, r[2]>>]
  BY <1>1 DEF Probe, Middle
<1>4. CASE i < Len(T) /\ Covers(T[i + 1], a)
  <2>1. Probe(T, a, g, r) = i + 1
    BY <1>3, <1>4
  <2>2. i + 1 \in Hits(T, a, r)
    BY <1>1, <1>4, ProbeHits
  <2>3. QED
    BY <2>1, <2>2, FoundHit
<1>5. CASE ~ (i < Len(T) /\ Covers(T[i + 1], a)) /\ r[1] = r[2]
  <2>1. Probe(T, a, g, r) = 0
    BY <1>3, <1>5
  <2>2. Hits(T, a, r) = {}
    BY <1>1, <1>5, ProbeLast
  <2>3. QED
    BY <2>1, <2>2 DEF Found
<1>6. CASE ~ (i < Len(T) /\ Covers(T[i + 1], a)) /\ r[1] # r[2] /\ a < T[i + 1].start
  <2>1. Probe(T, a, g, r) = g[<<r[1], i>>]
    BY <1>3, <1>6
  <2>2. <<r[1], i>> \in Ranges(T) /\ Hits(T, a, r) = Hits(T, a, <<r[1], i>>)
    BY <1>1, <1>6, GoesLeft
  <2>3. i - r[1] < r[2] - r[1]
    BY <1>2, <1>6
  <2>4. g[<<r[1], i>>] = Found(T, a, <<r[1], i>>)
    BY <2>2, <2>3
  <2>5. QED
    BY <2>1, <2>2, <2>4 DEF Found
<1>7. CASE ~ (i < Len(T) /\ Covers(T[i + 1], a)) /\ r[1] # r[2] /\ ~ (a < T[i + 1].start)
  <2>1. Probe(T, a, g, r) = g[<<i + 1, r[2]>>]
    BY <1>3, <1>7, Zenon
  <2>2. <<i + 1, r[2]>> \in Ranges(T) /\ Hits(T, a, r) = Hits(T, a, <<i + 1, r[2]>>)
    BY <1>1, <1>7, GoesRight
  <2>3. r[2] - (i + 1) < r[2] - r[1]
    BY <1>2, <1>7
  <2>4. g[<<i + 1, r[2]>>] = Found(T, a, <<i + 1, r[2]>>)
    BY <2>2, <2>3
  <2>5. QED
    BY <2>1, <2>2, <2>4 DEF Found
<1>8. QED
  BY <1>4, <1>5, <1>6, <1>7

\* The search exists: it is the answer wanted.
LEMMA SearchExists ==
  ASSUME NEW T, Ordered(T), NEW a \in Int
  PROVE  Search(T, a, Bisection(T, a))
<1>1. PICK g : g = [r \in Ranges(T) |-> Found(T, a, r)]
  OBVIOUS
<1>2. ASSUME NEW r \in Ranges(T) PROVE g[r] = Probe(T, a, g, r)
  BY <1>1, ProbeRight
<1>3. Search(T, a, g)
  BY <1>1, <1>2 DEF Search
<1>4. Search(T, a, CHOOSE x : Search(T, a, x))
  BY <1>3
<1>5. QED
  BY <1>4, BisectionIs

\* By the least width of a range that is answered wrong
LEMMA SearchRight ==
  ASSUME NEW T, Ordered(T), NEW a \in Int, NEW g, Search(T, a, g), NEW r0 \in Ranges(T)
  PROVE  g[r0] = Found(T, a, r0)
<1>1. SUFFICES ASSUME g[r0] # Found(T, a, r0) PROVE FALSE
  OBVIOUS
<1>2. PICK Wrong : Wrong = {r \in Ranges(T) : g[r] # Found(T, a, r)}
  OBVIOUS
<1>3. \A r \in Wrong : r \in Ranges(T) /\ r[2] - r[1] \in Nat
  BY <1>2, Probed
<1>4. PICK W : W = {r[2] - r[1] : r \in Wrong}
  OBVIOUS
<1>5. W \in SUBSET Nat /\ W # {}
  BY <1>1, <1>2, <1>3, <1>4
<1>6. PICK w \in W : \A v \in W : w <= v
  BY <1>5, LeastNatural
<1>7. PICK r \in Wrong : w = r[2] - r[1]
  BY <1>4, <1>6
<1>8. ASSUME NEW q \in Ranges(T), q[2] - q[1] < r[2] - r[1] PROVE g[q] = Found(T, a, q)
  <2>1. SUFFICES ASSUME q \in Wrong PROVE FALSE
    BY <1>2
  <2>2. q[2] - q[1] \in W
    BY <1>4, <2>1
  <2>3. w <= q[2] - q[1] /\ w \in Nat /\ q[2] - q[1] \in Nat
    BY <1>5, <1>6, <2>2
  <2>4. QED
    BY <1>7, <1>8, <2>3
<1>9. r \in Ranges(T)
  BY <1>3
<1>10. Probe(T, a, g, r) = Found(T, a, r)
  BY <1>8, <1>9, ProbeRight
<1>11. g[r] = Probe(T, a, g, r)
  BY <1>9 DEF Search
<1>12. QED
  BY <1>2, <1>7, <1>10, <1>11

\* In a table whose entries do not overlap, the binary search finds the entry that covers an offset, wherever
\* it is, and nothing when there is none.
THEOREM BisectionRight ==
  ASSUME NEW T, Ordered(T), NEW a \in Int, NEW k, k = Bisection(T, a)[<<0, Len(T)>>]
  PROVE  \/ k \in 1 .. Len(T) /\ Covers(T[k], a)
         \/ k = 0 /\ \A j \in 1 .. Len(T) : ~ Covers(T[j], a)
<1>1. Len(T) \in Nat
  BY DEF Ordered
<1>2. PICK r : r = <<0, Len(T)>>
  OBVIOUS
<1>3. r \in Ranges(T) /\ r[1] = 0 /\ r[2] = Len(T)
  BY <1>1, <1>2 DEF Ranges
<1>4. k = Found(T, a, r)
  BY <1>2, <1>3, SearchExists, SearchRight
<1>5. Hits(T, a, r) = {j \in 1 .. Len(T) : Covers(T[j], a)}
  BY <1>1, <1>3 DEF Hits
<1>6. CASE Hits(T, a, r) = {}
  BY <1>4, <1>5, <1>6 DEF Found
<1>7. CASE Hits(T, a, r) # {}
  <2>1. PICK x \in Hits(T, a, r) : TRUE
    BY <1>7
  <2>2. Found(T, a, r) = x
    BY FoundHit
  <2>3. QED
    BY <1>4, <1>5, <2>1, <2>2
<1>8. QED
  BY <1>6, <1>7

-----------------------------------------------------------------------------
(* The throw table of a method.                                            *)

\* the table of the first i instructions, given those of fewer
Extended(P, g, i) ==
  IF i = 0 THEN << >>
  ELSE IF Covered(P[i]) THEN Append(g[i - 1], Entry(P[i], i))
  ELSE g[i - 1]

Tables(P, n, g) == g = [i \in 0 .. n |-> Extended(P, g, i)]

LEMMA ThrowTableIs ==
  ASSUME NEW P
  PROVE  ThrowTable(P) = (CHOOSE g : Tables(P, Len(P), g))[Len(P)]
BY DEF ThrowTable, Tables, Extended

LEMMA TablesNext ==
  ASSUME NEW P, NEW n \in Nat, NEW g, Tables(P, n, g)
  PROVE  \E h : Tables(P, n + 1, h)
<1>1. PICK h : h = [i \in 0 .. n + 1 |-> IF i <= n THEN g[i] ELSE Extended(P, g, i)]
  OBVIOUS
<1>2. ASSUME NEW i \in 0 .. n + 1 PROVE h[i] = Extended(P, h, i)
  <2>1. i # 0 => i - 1 \in 0 .. n + 1 /\ i - 1 <= n
    OBVIOUS
  <2>2. i # 0 => h[i - 1] = g[i - 1]
    BY <1>1, <2>1
  <2>3. Extended(P, h, i) = Extended(P, g, i)
    BY <2>2 DEF Extended
  <2>4. CASE i <= n
    <3>1. i \in 0 .. n /\ h[i] = g[i]
      BY <1>1, <2>4
    <3>2. g[i] = Extended(P, g, i)
      BY <3>1 DEF Tables
    <3>3. QED
      BY <2>3, <3>1, <3>2
  <2>5. CASE ~ (i <= n)
    BY <1>1, <2>3, <2>5
  <2>6. QED
    BY <2>4, <2>5
<1>3. h = [i \in 0 .. n + 1 |-> Extended(P, h, i)]
  BY <1>1, <1>2
<1>4. QED
  BY <1>3 DEF Tables

\* The recursion defines a table for every number of instructions.
LEMMA TablesExist ==
  ASSUME NEW P, NEW n \in Nat
  PROVE  \E g : Tables(P, n, g)
<1>1. SUFFICES ASSUME ~ \E g : Tables(P, n, g) PROVE FALSE
  OBVIOUS
<1>2. PICK W : W = {m \in Nat : ~ \E g : Tables(P, m, g)}
  OBVIOUS
<1>3. W \in SUBSET Nat /\ W # {}
  BY <1>1, <1>2
<1>4. PICK m \in W : \A v \in W : m <= v
  BY <1>3, LeastNatural
<1>5. m \in Nat /\ ~ \E g : Tables(P, m, g)
  BY <1>2
<1>6. CASE m = 0
  <2>1. PICK g : g = [i \in 0 .. 0 |-> << >>]
    OBVIOUS
  <2>2. \A i \in 0 .. 0 : i = 0
    OBVIOUS
  <2>3. g = [i \in 0 .. 0 |-> Extended(P, g, i)]
    BY <2>1, <2>2 DEF Extended
  <2>4. QED
    BY <1>5, <1>6, <2>3 DEF Tables
<1>7. CASE m # 0
  <2>1. m - 1 \in Nat /\ ~ (m <= m - 1) /\ m - 1 + 1 = m
    BY <1>5, <1>7
  <2>2. m - 1 \notin W
    BY <1>4, <2>1
  <2>3. PICK g : Tables(P, m - 1, g)
    BY <1>2, <2>1, <2>2
  <2>4. \E h : Tables(P, m - 1 + 1, h)
    BY <2>1, <2>3, TablesNext
  <2>5. QED
    BY <1>5, <2>1, <2>4
<1>8. QED
  BY <1>6, <1>7

\* What the table of the first i instructions holds
Lists(P, i, s) ==
  /\ IsSeq(s)
  /\ \A k \in 1 .. Len(s) : \E j \in 1 .. i : s[k] = Entry(P[j], j)
  /\ \A j \in 1 .. i : Covered(P[j]) => \E k \in 1 .. Len(s) : s[k] = Entry(P[j], j)

LEMMA EntryFacts ==
  ASSUME NEW p, NEW i
  PROVE  Entry(p, i).start = Length * (i - 1) /\ Entry(p, i).len = Length
BY DEF Entry, Nativeoff

LEMMA ListsNext ==
  ASSUME Length \in Nat, NEW P, NEW i \in Nat, NEW s, Lists(P, i, s), Ordered(s), NEW r,
         r = IF Covered(P[i + 1]) THEN Append(s, Entry(P[i + 1], i + 1)) ELSE s
  PROVE  Lists(P, i + 1, r) /\ Ordered(r)
<1>1. PICK n \in Nat : n = Len(s)
  BY DEF Ordered
<1>2. /\ IsSeq(s)
      /\ \A k \in 1 .. n : \E j \in 1 .. i : s[k] = Entry(P[j], j)
      /\ \A j \in 1 .. i : Covered(P[j]) => \E k \in 1 .. n : s[k] = Entry(P[j], j)
  BY <1>1 DEF Lists
<1>3. \A j \in 1 .. i : j \in 1 .. i + 1
  OBVIOUS
<1>4. \A j \in 1 .. i + 1 : j \in 1 .. i \/ j = i + 1
  OBVIOUS
<1>5. CASE ~ Covered(P[i + 1])
  <2>1. r = s
    BY <1>5
  <2>2. \A k \in 1 .. n : \E j \in 1 .. i + 1 : s[k] = Entry(P[j], j)
    BY <1>2, <1>3
  <2>3. \A j \in 1 .. i + 1 : Covered(P[j]) => \E k \in 1 .. n : s[k] = Entry(P[j], j)
    BY <1>2, <1>4, <1>5
  <2>4. QED
    BY <1>1, <1>2, <2>1, <2>2, <2>3 DEF Lists
<1>6. CASE Covered(P[i + 1])
  <2>1. PICK e : e = Entry(P[i + 1], i + 1)
    OBVIOUS
  <2>2. r = Append(s, e)
    BY <1>6, <2>1
  <2>3. IsSeq(r) /\ Len(r) = Len(s) + 1 /\ r[Len(s) + 1] = e
    <3>1. IsSeq(r)
      BY <1>2, <2>2, Push
    <3>2. Len(r) = Len(s) + 1
      BY <1>2, <2>2, Push
    <3>3. r[Len(s) + 1] = e
      BY <1>2, <2>2, Push
    <3>4. QED
      BY <3>1, <3>2, <3>3
  <2>4. \A k \in 1 .. Len(s) : r[k] = s[k]
    BY <1>2, <2>2, Push
  <2>5. Len(r) = n + 1 /\ r[n + 1] = e /\ \A k \in 1 .. n : r[k] = s[k]
    BY <1>1, <2>3, <2>4
  <2>6. n + 1 \in 1 .. n + 1 /\ (\A k \in 1 .. n : k \in 1 .. n + 1)
        /\ \A k \in 1 .. n + 1 : k \in 1 .. n \/ k = n + 1
    OBVIOUS
  <2>7. i + 1 \in 1 .. i + 1
    OBVIOUS
  <2>8. \A k \in 1 .. n + 1 : \E j \in 1 .. i + 1 : r[k] = Entry(P[j], j)
    BY <1>2, <1>3, <2>1, <2>5, <2>6, <2>7
  <2>9. \A j \in 1 .. i + 1 : Covered(P[j]) => \E k \in 1 .. n + 1 : r[k] = Entry(P[j], j)
    BY <1>2, <1>4, <2>1, <2>5, <2>6
  <2>10. Lists(P, i + 1, r)
    BY <2>3, <2>5, <2>8, <2>9 DEF Lists
  <2>11. /\ \A k \in 1 .. n : s[k].start \in Int /\ s[k].len \in Nat
         /\ \A j, k \in 1 .. n : j < k => s[j].start + s[j].len <= s[k].start
    BY <1>1 DEF Ordered
  <2>12. e.start = Length * i /\ e.len = Length /\ e.start \in Int
    <3>1. i + 1 - 1 = i
      OBVIOUS
    <3>2. QED
      BY <2>1, <3>1, EntryFacts
  <2>13. ASSUME NEW k \in 1 .. n PROVE s[k].start + s[k].len <= e.start
    <3>1. PICK j \in 1 .. i : s[k] = Entry(P[j], j)
      BY <1>2
    <3>2. s[k].start = Length * (j - 1) /\ s[k].len = Length
      BY <3>1, EntryFacts
    <3>3. Length * (j - 1) + Length <= Length * i
      BY Layout
    <3>4. QED
      BY <2>12, <3>2, <3>3
  <2>14. \A k \in 1 .. n + 1 : r[k].start \in Int /\ r[k].len \in Nat
    BY <2>5, <2>6, <2>11, <2>12
  <2>15. ASSUME NEW j \in 1 .. n + 1, NEW k \in 1 .. n + 1, j < k
         PROVE  r[j].start + r[j].len <= r[k].start
    <3>1. j \in 1 .. n /\ r[j] = s[j]
      BY <2>5, <2>15
    <3>2. CASE k \in 1 .. n
      BY <2>5, <2>11, <2>15, <3>1, <3>2
    <3>3. CASE k = n + 1
      BY <2>5, <2>13, <3>1, <3>3
    <3>4. QED
      BY <2>6, <3>2, <3>3
  <2>16. Ordered(r)
    BY <2>5, <2>14, <2>15 DEF Ordered
  <2>17. QED
    BY <2>10, <2>16
<1>7. QED
  BY <1>5, <1>6

\* The throw table of a method lists what is covered, in the order of the code.
LEMMA ThrowTableLists ==
  ASSUME Length \in Nat, NEW P, Len(P) \in Nat
  PROVE  Lists(P, Len(P), ThrowTable(P)) /\ Ordered(ThrowTable(P))
<1>1. PICK g : g = CHOOSE x : Tables(P, Len(P), x)
  OBVIOUS
<1>2. Tables(P, Len(P), g)
  BY <1>1, TablesExist
<1>3. ThrowTable(P) = g[Len(P)]
  BY <1>1, ThrowTableIs
<1>4. \A i \in 0 .. Len(P) : g[i] = Extended(P, g, i)
  BY <1>2 DEF Tables
<1>5. SUFFICES ASSUME ~ (Lists(P, Len(P), g[Len(P)]) /\ Ordered(g[Len(P)])) PROVE FALSE
  BY <1>3
<1>6. PICK W : W = {i \in 0 .. Len(P) : ~ (Lists(P, i, g[i]) /\ Ordered(g[i]))}
  OBVIOUS
<1>7. W \in SUBSET Nat /\ W # {}
  BY <1>5, <1>6
<1>8. PICK m \in W : \A v \in W : m <= v
  BY <1>7, LeastNatural
<1>9. m \in 0 .. Len(P) /\ ~ (Lists(P, m, g[m]) /\ Ordered(g[m]))
  BY <1>6
<1>10. CASE m = 0
  <2>1. PICK s : s = << >>
    OBVIOUS
  <2>2. g[0] = s
    BY <1>4, <1>9, <1>10, <2>1 DEF Extended
  <2>3. s \in Seq({}) /\ Len(s) = 0
    BY <2>1
  <2>4. Lists(P, 0, s)
    BY <2>3 DEF Lists, IsSeq
  <2>5. Ordered(s)
    BY <2>3 DEF Ordered
  <2>6. QED
    BY <1>9, <1>10, <2>2, <2>4, <2>5
<1>11. CASE m # 0
  <2>1. PICK i : i = m - 1
    OBVIOUS
  <2>2. i \in 0 .. Len(P) /\ i \in Nat /\ i + 1 = m /\ ~ (m <= i)
    BY <1>9, <1>11, <2>1
  <2>3. i \notin W
    BY <1>8, <2>2
  <2>4. Lists(P, i, g[i]) /\ Ordered(g[i])
    BY <1>6, <2>2, <2>3
  <2>5. g[m] = IF Covered(P[m]) THEN Append(g[i], Entry(P[m], m)) ELSE g[i]
    BY <1>4, <1>9, <1>11, <2>1 DEF Extended
  <2>6. PICK s, r : s = g[i] /\ r = g[m]
    OBVIOUS
  <2>7. r = IF Covered(P[i + 1]) THEN Append(s, Entry(P[i + 1], i + 1)) ELSE s
    BY <2>2, <2>5, <2>6
  <2>8. Lists(P, i, s) /\ Ordered(s)
    BY <2>4, <2>6
  <2>9. Lists(P, i + 1, r) /\ Ordered(r)
    BY <2>2, <2>7, <2>8, ListsNext
  <2>10. QED
    BY <1>9, <2>2, <2>6, <2>9
<1>12. QED
  BY <1>10, <1>11

\* Every address of a template that can be signalled leads to its entry.
THEOREM EntryFound ==
  ASSUME Length \in Nat, NEW P, Len(P) \in Nat, NEW i \in 1 .. Len(P), Covered(P[i]),
         NEW a \in Int, Nativeoff(i) <= a, a < Nativeoff(i) + Length,
         NEW T, T = ThrowTable(P), NEW k, k = Bisection(T, a)[<<0, Len(T)>>]
  PROVE  k # 0 /\ T[k] = Entry(P[i], i)
<1>1. Lists(P, Len(P), T) /\ Ordered(T)
  BY ThrowTableLists
<1>2. PICK j \in 1 .. Len(T) : T[j] = Entry(P[i], i)
  BY <1>1 DEF Lists
<1>3. Covers(T[j], a)
  BY <1>2, EntryFacts DEF Covers, Nativeoff
<1>4. \/ k \in 1 .. Len(T) /\ Covers(T[k], a)
      \/ k = 0 /\ \A q \in 1 .. Len(T) : ~ Covers(T[q], a)
  BY <1>1, BisectionRight
<1>5. k \in 1 .. Len(T) /\ Covers(T[k], a)
  BY <1>3, <1>4
<1>6. k = j
  BY <1>1, <1>3, <1>5, OneHit
<1>7. Len(T) \in Nat
  BY <1>1 DEF Ordered
<1>8. QED
  BY <1>2, <1>5, <1>6, <1>7

-----------------------------------------------------------------------------
(* What a thread finds in compiled code.                                   *)

Ins(f) == Program[f.m][f.pc]

\* what the instructions of a call find in the frame
Carried(f) ==
  /\ Ins(f).op = "invokeinterface" => f.obj \in Program[f.m][f.pc - 1].cls
  /\ Ins(f).op = "inv_vir_varspace" =>
       f.method \in Methods /\ f.method = Impl[<<f.obj, Program[f.m][f.pc - 1].arg>>]
  /\ Ins(f).op = "invoke_core" =>
       /\ f.method \in Methods
       /\ Ins(f).bc = "invokeinterface" => f.method = Impl[<<f.obj, Ins(f).arg>>]

InIntf == {"hit", "miss", "write", "bound"}

\* -4(%ebp) is current in a call and, when strict, wherever an exception is
\* being thrown; C holds the inline caches.
FrameOK(f, C, strict) ==
  /\ f.m \in Methods /\ f.pc \in 1 .. Len(Program[f.m])
  /\ Ins(f).op \in ChainOps => f.bytepc = Ins(f).off
  /\ strict /\ f.ph = "exc" => f.bytepc = Ins(f).off
  /\ f.ph = "call" => Ins(f).op = "invoke_core"
  /\ f.ph \in {"idivl", "divided"} => Ins(f).op \in DivOps
  /\ f.ph = "idivl" => f.eax \in Ints /\ f.ecx \in Ints
  /\ f.ph \in InIntf => Ins(f).op = "invokeinterface"
  /\ f.ph \in InIntf \cup {"run"} => Carried(f)
  /\ f.ph \in {"write", "bound"} => f.method = Impl[<<f.obj, Ins(f).arg>>]
  /\ f.ph = "hit" => /\ C[<<f.m, f.pc>>].key = f.obj
                     /\ C[<<f.m, f.pc>>].method = Impl[<<f.obj, Ins(f).arg>>]
  /\ f.ph = "write" => C[<<f.m, f.pc>>].key = f.obj

\* A trampoline, or the operands T it will push, are those of the site below.
TrampOK(t, T, g, f) ==
  /\ f.m = g.m /\ TrapsForInit(Ins(g))
  /\ IF f.ph = "push"
       THEN T[f.m] = [cb |-> Ins(g).cls, ee |-> t, pc |-> Nativeoff(g.pc)]
       ELSE f.cb = Ins(g).cls /\ f.ee = t /\ f.pc = Nativeoff(g.pc)

\* frame f on frame g
Standing(t, T, C, strict, g, f) ==
  /\ f.kind = "code" => FrameOK(f, C, strict)
  /\ f.kind = "init" => f.c \in Classes
  /\ f.kind = "trampoline" => TrampOK(t, T, g, f)

Sound(t, s, T, C, strict) ==
  \A k \in 1 .. Len(s) : Standing(t, T, C, strict, s[k - 1], s[k])

\* A signal is one that the instruction of the innermost frame may raise.
Raised(q, f) ==
  /\ q.name \in {"SEGV", "TRAP", "FPE"}
  /\ q.name = "SEGV" => q.lib = 0 /\ q.off = Nativeoff(f.pc) /\ Ins(f).op \in SignalOps
  /\ q.name = "TRAP" =>
       /\ q.lib = 0 /\ q.off = PatchAddr(f.pc, Ins(f).op) + 1
       /\ IF f.ph = "run" THEN TrapsForInit(Ins(f)) ELSE f.ph = "bound"
  /\ q.name = "FPE" =>
       IF f.ph = "idivl"
         THEN /\ q.lib = 0 /\ q.off = Nativeoff(f.pc) + 1
              /\ f.ecx = 0 \/ (f.eax = MinInt /\ f.ecx = -1)
         ELSE q.lib \in 1 .. IP_SEARCH_COUNT /\ Ins(f).op \in {"ldiv", "lrem"}

\* The code differs from what was compiled in the int3s that are gone.
CodeOK ==
  /\ code = [m \in Methods |-> code[m]]
  /\ \A m \in Methods :
       /\ code[m] = [i \in DOMAIN Program[m] |->
            [op |-> Program[m][i].op, off |-> Program[m][i].off, bc |-> Program[m][i].bc,
             cls |-> Program[m][i].cls, arg |-> Program[m][i].arg, cc |-> code[m][i].cc]]
       /\ \A i \in DOMAIN Program[m] :
            code[m][i].cc => TrapsForInit(Program[m][i]) \/ TrapsForIntf(Program[m][i])

TableOK == throwtable = [m \in Methods |-> ThrowTable(Program[m])]

Writing(s) ==
  \E t \in Threads : \E k \in 1 .. Len(stk[t]) :
    stk[t][k].kind = "code" /\ stk[t][k].ph = "write" /\ <<stk[t][k].m, stk[t][k].pc>> = s

\* An inline cache that nobody is writing holds the method of its key.
CacheOK ==
  /\ cache = [s \in Sites |-> [key |-> cache[s].key, method |-> cache[s].method,
                               guess |-> cache[s].guess]]
  /\ \A s \in Sites : cache[s].key # None /\ ~ Writing(s) =>
       cache[s].method = Impl[<<cache[s].key, Program[s[1]][s[2]].arg>>]

Steady(strict) ==
  /\ \A t \in Threads : Sound(t, stk[t], tramp, cache, strict)
  /\ \A t \in Threads : sig[t].name # None => Raised(sig[t], Top(t))
  /\ CodeOK /\ TableOK /\ CacheOK
  /\ tramp = [m \in Methods |-> tramp[m]]
  /\ ~ dead

-----------------------------------------------------------------------------
(* The programs.                                                           *)

LEMMA MethodFacts ==
  ASSUME Compiled, NEW m \in Methods
  PROVE  /\ Len(Program[m]) \in 1 .. MaxInsns /\ Len(Program[m]) \in Nat /\ MaxInsns \in Nat
         /\ DOMAIN Program[m] = 1 .. Len(Program[m])
         /\ Program[m][Len(Program[m])].op \in {"return", "athrow"}
<1>1. CompiledMethod(m) /\ MaxInsns \in Nat
  BY DEF Compiled
<1>2. QED
  BY <1>1 DEF CompiledMethod

LEMMA InsnFacts ==
  ASSUME Compiled, NEW m \in Methods, NEW i \in 1 .. Len(Program[m])
  PROVE  /\ Program[m][i].op \in ChainOps => Chained(Program[m], i)
         /\ Program[m][i].op = "invokestatic" => Program[m][i].arg \in Methods
         /\ Program[m][i].op = "invokeinterface" =>
              \A c \in Program[m][i - 1].cls :
                /\ c \in Classes /\ Impl[<<c, Program[m][i].arg>>] \in Methods
                /\ \E k \in DOMAIN Itable[c] : Itable[c][k] = Program[m][i].arg
         /\ Program[m][i].op \in {"idiv", "irem", "ldiv", "lrem"} =>
              Program[m][i].bc = Program[m][i].op
         /\ TrapsForInit(Program[m][i]) => Program[m][i].cls \in Classes
         /\ \A j \in 1 .. Len(Program[m]) :
              Program[m][j].off = Program[m][i].off => Program[m][j].bc = Program[m][i].bc
<1>1. CompiledMethod(m)
  BY DEF Compiled
<1>2. QED
  BY <1>1 DEF CompiledMethod

LEMMA LengthFacts ==
  ASSUME Compiled
  PROVE  /\ Length \in Nat /\ Length > 3 /\ LibFrames \subseteq 1 .. 3
         /\ None \notin Methods /\ None \notin Classes
BY DEF Compiled, INVINTF_PATCH_OFFSET, IP_SEARCH_COUNT

\* Only a return or a throw ends a method.
LEMMA NextInsn ==
  ASSUME Compiled, NEW m \in Methods, NEW i \in 1 .. Len(Program[m]),
         Program[m][i].op \notin {"return", "athrow"}
  PROVE  i + 1 \in 1 .. Len(Program[m])
<1>1. PICK n \in Nat : n = Len(Program[m])
  BY MethodFacts
<1>2. i # n
  BY <1>1, MethodFacts
<1>3. QED
  BY <1>1, <1>2

\* The code a thread runs is the program's.
LEMMA CodeFacts ==
  ASSUME Compiled, CodeOK, NEW m \in Methods, NEW i \in 1 .. Len(Program[m])
  PROVE  /\ DOMAIN code[m] = 1 .. Len(Program[m])
         /\ code[m][i].op = Program[m][i].op /\ code[m][i].off = Program[m][i].off
         /\ code[m][i].bc = Program[m][i].bc /\ code[m][i].cls = Program[m][i].cls
         /\ code[m][i].arg = Program[m][i].arg
         /\ TrapsForInit(code[m][i]) <=> TrapsForInit(Program[m][i])
         /\ TrapsForIntf(code[m][i]) <=> TrapsForIntf(Program[m][i])
         /\ code[m][i].cc => TrapsForInit(Program[m][i]) \/ TrapsForIntf(Program[m][i])
<1>1. DOMAIN Program[m] = 1 .. Len(Program[m])
  BY MethodFacts
<1>2. /\ code[m] = [j \in 1 .. Len(Program[m]) |->
            [op |-> Program[m][j].op, off |-> Program[m][j].off, bc |-> Program[m][j].bc,
             cls |-> Program[m][j].cls, arg |-> Program[m][j].arg, cc |-> code[m][j].cc]]
      /\ code[m][i].cc => TrapsForInit(Program[m][i]) \/ TrapsForIntf(Program[m][i])
  BY <1>1 DEF CodeOK
<1>3. PICK c, p : c = code[m][i] /\ p = Program[m][i]
  OBVIOUS
<1>4. c = [op |-> p.op, off |-> p.off, bc |-> p.bc, cls |-> p.cls, arg |-> p.arg, cc |-> c.cc]
  BY <1>2, <1>3
<1>5. c.op = p.op /\ c.off = p.off /\ c.bc = p.bc /\ c.cls = p.cls /\ c.arg = p.arg
  BY <1>4
<1>6. DOMAIN code[m] = 1 .. Len(Program[m])
  BY <1>2
<1>7. (TrapsForInit(c) <=> TrapsForInit(p)) /\ (TrapsForIntf(c) <=> TrapsForIntf(p))
  BY <1>5 DEF TrapsForInit, TrapsForIntf
<1>8. QED
  BY <1>2, <1>3, <1>5, <1>6, <1>7

\* What the handler reads at mb->code + byteoff
LEMMA BytecodeRead ==
  ASSUME Compiled, CodeOK, NEW m \in Methods, NEW i \in 1 .. Len(Program[m])
  PROVE  BytecodeAt(m, Program[m][i].off) = Program[m][i].bc
<1>1. PICK j : j = CHOOSE h \in DOMAIN code[m] : code[m][h].off = Program[m][i].off
  OBVIOUS
<1>2. i \in DOMAIN code[m] /\ code[m][i].off = Program[m][i].off
  BY CodeFacts
<1>3. j \in DOMAIN code[m] /\ code[m][j].off = Program[m][i].off
  BY <1>1, <1>2
<1>4. j \in 1 .. Len(Program[m])
  BY <1>3, CodeFacts
<1>5. code[m][j].off = Program[m][j].off /\ code[m][j].bc = Program[m][j].bc
  BY <1>4, CodeFacts
<1>6. Program[m][j].bc = Program[m][i].bc
  BY <1>3, <1>4, <1>5, InsnFacts, ZenonT(60)
<1>7. QED
  BY <1>1, <1>5, <1>6 DEF BytecodeAt

\* Addresses within a template
LEMMA Addresses ==
  ASSUME Compiled, NEW i \in Int
  PROVE  /\ Nativeoff(i) \in Int
         /\ InsnAt(Nativeoff(i)) = i /\ InsnAt(Nativeoff(i) + INVINTF_PATCH_OFFSET) = i
<1>1. Length \in Nat /\ Length > 3
  BY LengthFacts
<1>2. PICK n \in Int : n = i - 1
  OBVIOUS
<1>3. Nativeoff(i) = Length * n
  BY <1>2 DEF Nativeoff
<1>4. 0 \in 0 .. Length - 1 /\ 2 \in 0 .. Length - 1 /\ Length > 0
  BY <1>1
<1>5. (Length * n + 0) \div Length = n /\ (Length * n + 2) \div Length = n
  BY <1>1, <1>4, Divided
<1>6. Length * n \in Int /\ Length * n + 0 = Length * n
  BY <1>1
<1>7. (Length * n) \div Length = n
  BY <1>5, <1>6
<1>8. QED
  BY <1>2, <1>3, <1>5, <1>6, <1>7 DEF InsnAt, INVINTF_PATCH_OFFSET

-----------------------------------------------------------------------------
(* What the handler finds.                                                 *)

\* The first part of a concatenation
LEMMA CatFirst ==
  ASSUME NEW s, NEW r, IsSeq(s), IsSeq(r), NEW k \in 1 .. Len(s)
  PROVE  k \in DOMAIN (s \o r) /\ (s \o r)[k] = s[k] /\ DOMAIN (s \o r) \subseteq Nat \ {0}
<1>1. PICK S : s \in Seq(S)
  BY DEF IsSeq
<1>2. PICK R : r \in Seq(R)
  BY DEF IsSeq
<1>3. s \in Seq(S \cup R) /\ r \in Seq(S \cup R)
  BY <1>1, <1>2
<1>4. /\ Len(s) \in Nat /\ Len(r) \in Nat /\ DOMAIN (s \o r) = 1 .. Len(s) + Len(r)
  BY <1>3, ConcatProperties, LenProperties
<1>5. (s \o r)[k] = s[k]
  BY <1>3, <1>4, ConcatProperties
<1>6. QED
  BY <1>4, <1>5

Outside == [frame |-> 0, m |-> None, off |-> 0]
Inside(t, k, off) == [frame |-> k, m |-> stk[t][k].m, off |-> off]

\* The innermost address in compiled code is at the fault itself, or behind the
\* C frames of a library function.
LEMMA FirstAddress ==
  ASSUME Machine, NEW t \in Threads, sig[t].name # None, NEW n, n = Len(stk[t]),
         NEW lib \in Nat, lib = sig[t].lib, NEW x,
         x = Inside(t, n, IF lib = 0 THEN sig[t].off
                          ELSE Nativeoff(stk[t][n].pc) + Length - 1)
  PROVE  /\ DOMAIN Addrs(t) \subseteq Nat \ {0}
         /\ lib + 1 \in DOMAIN Addrs(t) /\ Addrs(t)[lib + 1] = x
         /\ \A j \in 1 .. lib : Addrs(t)[j] = Outside
<1> DEFINE in(k, off) == [frame |-> k, m |-> stk[t][k].m, off |-> off]
           ret(k) == IF stk[t][k].kind = "code"
                       THEN in(k, Nativeoff(stk[t][k].pc) + Length - 1) ELSE Outside
           first == IF lib = 0 THEN <<in(n, sig[t].off)>>
                    ELSE Append([j \in 1 .. lib |-> Outside], ret(n))
           rest == [j \in 1 .. n - 1 |-> ret(n - j)]
<1>1. Addrs(t) = first \o rest
  BY DEF Addrs, Outside
<1>2. n \in Nat /\ n > 0 /\ stk[t][n].kind = "code"
  <2>1. IsSeq(stk[t]) /\ stk[t] # << >> /\ stk[t][Len(stk[t])].kind = "code"
    BY DEF Machine, StackOK, SignalOK
  <2>2. Len(stk[t]) \in Nat /\ Len(stk[t]) # 0
    BY <2>1, SeqFacts
  <2>3. QED
    BY <2>1, <2>2
<1>3. PICK b : b = rest
  OBVIOUS
<1>4. IsSeq(b)
  <2>1. n - 1 \in Nat /\ b = [j \in 1 .. n - 1 |-> b[j]]
    BY <1>2, <1>3
  <2>2. QED
    BY <2>1, FunSeq
<1>5. PICK a : a = first
  OBVIOUS
<1>6. IsSeq(a) /\ Len(a) = lib + 1 /\ a[lib + 1] = x /\ \A j \in 1 .. lib : a[j] = Outside
  <2>1. CASE lib = 0
    <3>1. a = <<x>>
      BY <1>5, <2>1 DEF Inside
    <3>2. <<x>> \in Seq({x}) /\ Len(<<x>>) = 1 /\ <<x>>[1] = x
      OBVIOUS
    <3>3. IsSeq(<<x>>)
      BY <3>2 DEF IsSeq
    <3>4. IsSeq(a) /\ Len(a) = 1 /\ a[1] = x
      BY <3>1, <3>2, <3>3
    <3>5. lib + 1 = 1 /\ \A j \in 1 .. lib : FALSE
      BY <2>1
    <3>6. QED
      BY <3>4, <3>5
  <2>2. CASE lib # 0
    <3>1. PICK z : z = [j \in 1 .. lib |-> Outside]
      OBVIOUS
    <3>2. IsSeq(z) /\ Len(z) = lib
      <4>1. z = [j \in 1 .. lib |-> z[j]]
        BY <3>1
      <4>2. QED
        BY <4>1, FunSeq
    <3>3. x = ret(n)
      BY <1>2, <2>2 DEF Inside
    <3>4. a = Append(z, x)
      BY <1>5, <2>2, <3>1, <3>3
    <3>5. IsSeq(a)
      BY <3>2, <3>4, Push
    <3>6. Len(a) = Len(z) + 1
      BY <3>2, <3>4, Push
    <3>7. a[Len(z) + 1] = x
      BY <3>2, <3>4, Push
    <3>8. \A j \in 1 .. Len(z) : a[j] = z[j]
      BY <3>2, <3>4, Push
    <3>9. QED
      BY <3>1, <3>2, <3>5, <3>6, <3>7, <3>8
  <2>3. QED
    BY <2>1, <2>2
<1>7. Addrs(t) = a \o b
  BY <1>1, <1>3, <1>5
<1>8. \A k \in 1 .. lib + 1 : k \in DOMAIN (a \o b) /\ (a \o b)[k] = a[k]
  BY <1>4, <1>6, CatFirst
<1>9. lib + 1 \in 1 .. lib + 1 /\ \A j \in 1 .. lib : j \in 1 .. lib + 1
  OBVIOUS
<1>10. DOMAIN (a \o b) \subseteq Nat \ {0}
  BY <1>4, <1>6, <1>9, CatFirst
<1>11. QED
  BY <1>6, <1>7, <1>8, <1>9, <1>10

\* Where a signal was raised
LEMMA RaisedFacts ==
  ASSUME Compiled, Machine, NEW strict, Steady(strict), NEW t \in Threads, sig[t].name # None,
         NEW f, f = Top(t)
  PROVE  /\ CodeRec(f) /\ Registers(f) /\ FrameOK(f, cache, strict) /\ Raised(sig[t], f)
         /\ Covered(Ins(f)) /\ stk[t] # << >> /\ f.kind = "code"
         /\ f = stk[t][Len(stk[t])] /\ StackOK(stk[t]) /\ Len(stk[t]) \in Nat /\ Len(stk[t]) > 0
         /\ f.m \in Methods /\ f.pc \in 1 .. Len(Program[f.m])
         /\ sig[t].name = "FPE" => f.ph \in {"run", "idivl"}
         /\ sig[t].name = "TRAP" => f.ph \in {"run", "bound"}
<1>1. /\ CodeRec(f) /\ Registers(f) /\ stk[t] # << >> /\ f.kind = "code"
      /\ f = stk[t][Len(stk[t])] /\ StackOK(stk[t])
      /\ sig[t].name = "FPE" => f.ph \in {"run", "idivl"}
      /\ sig[t].name = "TRAP" => f.ph \in {"run", "bound"}
  BY SignalledFacts
<1>2. Len(stk[t]) \in Nat /\ Len(stk[t]) > 0
  BY <1>1, TopOK
<1>3. Sound(t, stk[t], tramp, cache, strict) /\ Raised(sig[t], f)
  BY DEF Steady
<1>4. Len(stk[t]) \in 1 .. Len(stk[t])
  BY <1>2
<1>5. FrameOK(f, cache, strict)
  BY <1>1, <1>3, <1>4 DEF Sound, Standing
<1>6. Covered(Ins(f))
  <2>1. CASE sig[t].name = "SEGV"
    BY <1>3, <2>1 DEF Raised, Covered
  <2>2. CASE sig[t].name = "TRAP"
    <3>1. CASE f.ph = "run"
      BY <1>3, <2>2, <3>1 DEF Raised, Covered
    <3>2. CASE f.ph = "bound"
      BY <1>5, <3>2 DEF FrameOK, InIntf, Covered, TrapsForIntf
    <3>3. QED
      BY <1>1, <2>2, <3>1, <3>2
  <2>3. CASE sig[t].name = "FPE"
    <3>1. CASE f.ph = "idivl"
      BY <1>5, <3>1 DEF FrameOK, DivOps, Covered, SignalOps
    <3>2. CASE f.ph # "idivl"
      BY <1>3, <2>3, <3>2 DEF Raised, Covered, SignalOps
    <3>3. QED
      BY <3>1, <3>2
  <2>4. QED
    BY <1>3, <2>1, <2>2, <2>3 DEF Raised
<1>7. f.m \in Methods /\ f.pc \in 1 .. Len(Program[f.m])
  BY <1>5 DEF FrameOK
<1>8. QED
  BY <1>1, <1>2, <1>3, <1>5, <1>6, <1>7

\* The first address in compiled code lies in the template that faulted.
LEMMA FaultAddress ==
  ASSUME Compiled, Machine, NEW strict, Steady(strict), NEW t \in Threads, sig[t].name # None,
         NEW f, f = Top(t), NEW lib, lib = sig[t].lib, NEW a,
         a = IF lib = 0 THEN sig[t].off ELSE Nativeoff(f.pc) + Length - 1
  PROVE  /\ lib \in 0 .. IP_SEARCH_COUNT
         /\ lib # 0 => sig[t].name = "FPE" /\ f.ph = "run" /\ Ins(f).op \in {"ldiv", "lrem"}
         /\ a \in Int /\ Nativeoff(f.pc) <= a /\ a < Nativeoff(f.pc) + Length
<1>1. /\ Raised(sig[t], f) /\ f.m \in Methods /\ f.pc \in 1 .. Len(Program[f.m])
      /\ sig[t].name = "FPE" => f.ph \in {"run", "idivl"}
      /\ sig[t].name = "TRAP" => f.ph \in {"run", "bound"}
  BY RaisedFacts
<1>2. f.pc \in Int
  BY <1>1
<1>3. Nativeoff(f.pc) \in Int
  BY <1>2, Addresses
<1>4. PICK o \in Int : o = Nativeoff(f.pc)
  BY <1>3
<1>5. PICK L \in Nat : L = Length /\ L > 3
  BY LengthFacts
<1>6. CASE sig[t].name = "SEGV"
  BY <1>1, <1>4, <1>5, <1>6 DEF Raised, IP_SEARCH_COUNT
<1>7. CASE sig[t].name = "TRAP"
  <2>1. lib = 0 /\ a = PatchAddr(f.pc, Ins(f).op) + 1
    BY <1>1, <1>7 DEF Raised
  <2>2. PatchAddr(f.pc, Ins(f).op) = o \/ PatchAddr(f.pc, Ins(f).op) = o + 2
    BY <1>4 DEF PatchAddr, INVINTF_PATCH_OFFSET
  <2>3. a = o + 1 \/ a = o + 3
    BY <2>1, <2>2
  <2>4. QED
    BY <1>4, <1>5, <2>1, <2>3 DEF IP_SEARCH_COUNT
<1>8. CASE sig[t].name = "FPE"
  <2>1. CASE f.ph = "idivl"
    <3>1. lib = 0 /\ a = o + 1
      BY <1>1, <1>4, <1>8, <2>1 DEF Raised
    <3>2. QED
      BY <1>4, <1>5, <3>1 DEF IP_SEARCH_COUNT
  <2>2. CASE f.ph # "idivl"
    <3>1. lib \in 1 .. IP_SEARCH_COUNT /\ Ins(f).op \in {"ldiv", "lrem"} /\ f.ph = "run"
      BY <1>1, <1>8, <2>2 DEF Raised
    <3>2. lib \in 0 .. IP_SEARCH_COUNT /\ lib # 0
      BY <3>1 DEF IP_SEARCH_COUNT
    <3>3. a = o + L - 1
      BY <1>4, <1>5, <3>2
    <3>4. QED
      BY <1>4, <1>5, <1>8, <3>1, <3>2, <3>3
  <2>3. QED
    BY <2>1, <2>2
<1>9. QED
  BY <1>1, <1>6, <1>7, <1>8 DEF Raised

LEMMA LocatedIs ==
  ASSUME Compiled, Machine, NEW strict, Steady(strict), NEW t \in Threads, sig[t].name # None,
         NEW f, f = Top(t)
  PROVE  Located(t) = {[frame |-> Len(stk[t]), entry |-> Entry(Ins(f), f.pc)]}
<1>1. PICK n, lib, mb : n = Len(stk[t]) /\ lib = sig[t].lib /\ mb = f.m
  OBVIOUS
<1>2. /\ f = stk[t][n] /\ mb \in Methods /\ f.pc \in 1 .. Len(Program[mb]) /\ Covered(Ins(f))
      /\ Raised(sig[t], f) /\ stk[t][n].m = mb
  BY <1>1, RaisedFacts
<1>3. PICK a : a = IF lib = 0 THEN sig[t].off ELSE Nativeoff(f.pc) + Length - 1
  OBVIOUS
<1>4. /\ lib \in 0 .. IP_SEARCH_COUNT
      /\ lib # 0 => sig[t].name = "FPE" /\ Ins(f).op \in {"ldiv", "lrem"}
      /\ a \in Int /\ Nativeoff(f.pc) <= a /\ a < Nativeoff(f.pc) + Length
  BY <1>1, <1>3, FaultAddress
<1>5. PICK x : x = Inside(t, n, a)
  OBVIOUS
<1>6. x.frame = n /\ x.m = mb /\ x.off = a
  BY <1>2, <1>5 DEF Inside
<1>7. lib \in Nat /\ lib + 1 <= IP_SEARCH_COUNT + 1
  BY <1>4 DEF IP_SEARCH_COUNT
<1>8. x = Inside(t, n, IF lib = 0 THEN sig[t].off ELSE Nativeoff(stk[t][n].pc) + Length - 1)
  BY <1>2, <1>3, <1>5
<1>9. PICK addrs : addrs = Addrs(t)
  OBVIOUS
<1>10. /\ DOMAIN addrs \subseteq Nat \ {0}
       /\ lib + 1 \in DOMAIN addrs /\ addrs[lib + 1] = x
       /\ \A j \in 1 .. lib : addrs[j] = Outside
  BY <1>1, <1>7, <1>8, <1>9, FirstAddress
<1>11. PICK entries : entries = [k \in DOMAIN addrs |->
                         IF addrs[k].m = mb THEN throwtableGet(mb, addrs[k].off) ELSE 0]
  OBVIOUS
<1>12. throwtable[mb] = ThrowTable(Program[mb])
  BY <1>2 DEF Steady, TableOK
<1>13. entries[lib + 1] # 0 /\ throwtable[mb][entries[lib + 1]] = Entry(Ins(f), f.pc)
  <2>1. entries[lib + 1] = throwtableGet(mb, a)
    BY <1>6, <1>10, <1>11
  <2>2. PICK P, T, i : P = Program[mb] /\ T = ThrowTable(P) /\ i = f.pc
    OBVIOUS
  <2>3. PICK k : k = Bisection(T, a)[<<0, Len(T)>>]
    OBVIOUS
  <2>4. entries[lib + 1] = k
    BY <1>12, <2>1, <2>2, <2>3 DEF throwtableGet
  <2>5. Length \in Nat /\ Len(P) \in Nat /\ i \in 1 .. Len(P) /\ P[i] = Ins(f)
    BY <1>1, <1>2, <2>2, LengthFacts, MethodFacts DEF Ins
  <2>6. Covered(P[i]) /\ Nativeoff(i) <= a /\ a < Nativeoff(i) + Length
    BY <1>2, <1>4, <2>2, <2>5
  <2>7. k # 0 /\ T[k] = Entry(P[i], i)
    <3>1. T = ThrowTable(P) /\ Length \in Nat /\ Len(P) \in Nat /\ i \in 1 .. Len(P) /\ a \in Int
      BY <1>4, <2>2, <2>5
    <3>2. QED
      BY <2>3, <2>6, <3>1, EntryFound
  <2>8. QED
    BY <1>12, <2>2, <2>4, <2>5, <2>7
<1>14. \A j \in 1 .. lib : j \in DOMAIN addrs => entries[j] = 0
  <2>1. mb # None
    BY <1>2, LengthFacts
  <2>2. \A j \in 1 .. lib : j \in DOMAIN addrs => addrs[j].m = None
    BY <1>10 DEF Outside
  <2>3. QED
    BY <1>11, <2>1, <2>2
<1>15. PICK hits : hits = {k \in DOMAIN addrs : k <= IP_SEARCH_COUNT + 1 /\ entries[k] # 0}
  OBVIOUS
<1>16. lib + 1 \in hits /\ \A j \in hits : lib + 1 <= j
  <2>1. lib + 1 \in hits
    BY <1>7, <1>10, <1>13, <1>15
  <2>2. ASSUME NEW j \in hits PROVE lib + 1 <= j
    <3>1. j \in Nat /\ j # 0 /\ j \in DOMAIN addrs /\ entries[j] # 0
      BY <1>10, <1>15
    <3>2. j \notin 1 .. lib
      BY <1>14, <3>1
    <3>3. QED
      BY <1>7, <3>1, <3>2
  <2>3. QED
    BY <2>1, <2>2
<1>17. PICK first : first = {k \in hits : \A j \in hits : k <= j}
  OBVIOUS
<1>18. first = {lib + 1}
  <2>1. \A k \in hits : k \in Nat
    BY <1>10, <1>15
  <2>2. ASSUME NEW k \in first PROVE k = lib + 1
    <3>1. k \in Nat /\ k <= lib + 1 /\ lib + 1 <= k
      BY <1>16, <1>17, <2>1
    <3>2. QED
      BY <1>7, <3>1
  <2>3. lib + 1 \in first
    BY <1>16, <1>17
  <2>4. QED
    BY <2>2, <2>3
<1>19. lib + 1 > 1 /\ sig[t].name = "FPE" =>
          BytecodeAt(mb, throwtable[mb][entries[lib + 1]].byteoff) \in Divisions
  <2>1. SUFFICES ASSUME lib + 1 > 1
                 PROVE  BytecodeAt(mb, throwtable[mb][entries[lib + 1]].byteoff) \in Divisions
    OBVIOUS
  <2>2. lib # 0
    BY <1>7, <2>1
  <2>3. Ins(f).op \in {"ldiv", "lrem"}
    BY <1>4, <2>2
  <2>4. Ins(f) = Program[mb][f.pc] /\ CodeOK
    BY <1>1 DEF Ins, Steady
  <2>5. Ins(f).bc = Ins(f).op
    BY <1>2, <2>3, <2>4, InsnFacts
  <2>6. BytecodeAt(mb, Ins(f).off) = Ins(f).bc
    BY <1>2, <2>4, BytecodeRead
  <2>7. throwtable[mb][entries[lib + 1]].byteoff = Ins(f).off
    BY <1>13 DEF Entry
  <2>8. QED
    BY <2>3, <2>5, <2>6, <2>7 DEF Divisions
<1>20. Located(t) = {[frame |-> addrs[k].frame, entry |-> throwtable[mb][entries[k]]] :
                       k \in {j \in first : j > 1 /\ sig[t].name = "FPE" =>
                               BytecodeAt(mb, throwtable[mb][entries[j]].byteoff) \in Divisions}}
  BY <1>1, <1>9, <1>11, <1>15, <1>17 DEF Located
<1>21. {j \in first : j > 1 /\ sig[t].name = "FPE" =>
          BytecodeAt(mb, throwtable[mb][entries[j]].byteoff) \in Divisions} = {lib + 1}
  BY <1>18, <1>19
<1>22. Located(t) = {[frame |-> addrs[lib + 1].frame, entry |-> throwtable[mb][entries[lib + 1]]]}
  BY <1>20, <1>21
<1>23. QED
  BY <1>1, <1>6, <1>10, <1>13, <1>22

-----------------------------------------------------------------------------
(* The moves of a thread.                                                  *)

NoWriter(s) == \A k \in 1 .. Len(s) : s[k].kind = "code" => s[k].ph # "write"

\* Only the innermost frame writes an inline cache.
LEMMA Writers ==
  ASSUME NEW s, StackOK(s), s # << >>, s[Len(s)].kind = "code" => s[Len(s)].ph # "write"
  PROVE  NoWriter(s)
<1>1. PICK n \in Nat : n = Len(s)
  BY TopOK
<1>2. \A k \in 1 .. n : k # 1 => Above(s[k - 1], s[k])
  BY <1>1 DEF StackOK, FramesOK
<1>3. ASSUME NEW k \in 1 .. n, s[k].kind = "code" PROVE s[k].ph # "write"
  <2>1. CASE k = n
    BY <1>1, <1>3, <2>1
  <2>2. CASE k # n
    <3>1. k + 1 \in 1 .. n /\ k + 1 # 1 /\ k + 1 - 1 = k
      BY <2>2
    <3>2. Above(s[k], s[k + 1])
      BY <1>2, <3>1
    <3>3. QED
      BY <1>3, <3>2 DEF Above
  <2>3. QED
    BY <2>1, <2>2
<1>4. QED
  BY <1>1, <1>3 DEF NoWriter

\* A step of thread t
LEMMA Steadied ==
  ASSUME NEW strict, Machine, NEW t \in Threads, NEW r, stk' = [stk EXCEPT ![t] = r],
         NEW q, sig' = [sig EXCEPT ![t] = q], q.name # None => Raised(q, r[Len(r)]),
         Sound(t, r, tramp', cache', strict),
         \A u \in Threads : u # t => Sound(u, stk[u], tramp', cache', strict),
         \A u \in Threads : u # t => (sig[u].name # None => Raised(sig[u], Top(u))),
         CodeOK', TableOK', CacheOK', tramp' = [m \in Methods |-> tramp'[m]], ~ dead'
  PROVE  Steady(strict)'
<1>1. /\ stk'[t] = r /\ sig'[t] = q
      /\ \A u \in Threads : u # t => stk'[u] = stk[u] /\ sig'[u] = sig[u]
  BY DEF Machine
<1>2. ASSUME NEW u \in Threads PROVE Sound(u, stk'[u], tramp', cache', strict)
  <2>1. CASE u = t
    BY <1>1, <2>1
  <2>2. CASE u # t
    <3>1. stk'[u] = stk[u]
      BY <1>1, <2>2
    <3>2. QED
      BY <2>2, <3>1
  <2>3. QED
    BY <2>1, <2>2
<1>3. ASSUME NEW u \in Threads, sig'[u].name # None PROVE Raised(sig'[u], Top(u)')
  <2>1. CASE u = t
    <3>1. Top(t)' = r[Len(r)]
      BY <1>1 DEF Top
    <3>2. QED
      BY <1>1, <1>3, <2>1, <3>1
  <2>2. CASE u # t
    <3>1. stk'[u] = stk[u] /\ sig'[u] = sig[u]
      BY <1>1, <2>2
    <3>2. Top(u)' = Top(u)
      BY <3>1 DEF Top
    <3>3. QED
      BY <1>3, <2>2, <3>1, <3>2
  <2>3. QED
    BY <2>1, <2>2
<1>4. \A u \in Threads : Sound(u, stk[u], tramp, cache, strict)'
  <2>1. ASSUME NEW u \in Threads PROVE Sound(u, stk[u], tramp, cache, strict)'
    <3>1. Sound(u, stk'[u], tramp', cache', strict)
      BY <1>2
    <3>2. QED
      BY <3>1 DEF Sound, Standing, FrameOK, Carried, Ins, TrampOK
  <2>2. QED
    BY <2>1
<1>5. \A u \in Threads : (sig[u].name # None => Raised(sig[u], Top(u)))'
  BY <1>3 DEF Raised, Ins
<1>6. QED
  BY <1>4, <1>5 DEF Steady

\* A cache is written for good if nobody was writing it.
LEMMA CachesKept ==
  ASSUME Machine, CacheOK, NEW t \in Threads, NoWriter(stk[t]), NEW r,
         stk' = [stk EXCEPT ![t] = r], UNCHANGED cache
  PROVE  CacheOK'
<1>1. \A u \in Threads : u # t => stk'[u] = stk[u]
  BY DEF Machine
<1>2. ASSUME NEW s, Writing(s) PROVE Writing(s)'
  <2>1. PICK u \in Threads : \E k \in 1 .. Len(stk[u]) :
          stk[u][k].kind = "code" /\ stk[u][k].ph = "write" /\ <<stk[u][k].m, stk[u][k].pc>> = s
    BY <1>2 DEF Writing
  <2>2. u # t
    BY <2>1 DEF NoWriter
  <2>3. stk'[u] = stk[u]
    BY <1>1, <2>2
  <2>4. \E k \in 1 .. Len(stk'[u]) :
          stk'[u][k].kind = "code" /\ stk'[u][k].ph = "write" /\ <<stk'[u][k].m, stk'[u][k].pc>> = s
    BY <2>1, <2>3
  <2>5. QED
    BY <2>4 DEF Writing
<1>3. cache' = [s \in Sites |-> [key |-> cache'[s].key, method |-> cache'[s].method,
                                 guess |-> cache'[s].guess]]
  BY DEF CacheOK
<1>4. Sites' = Sites
  BY DEF Sites
<1>5. ASSUME NEW s \in Sites, cache'[s].key # None, ~ Writing(s)'
      PROVE  cache'[s].method = Impl[<<cache'[s].key, Program[s[1]][s[2]].arg>>]
  <2>1. ~ Writing(s)
    BY <1>2, <1>5
  <2>2. cache'[s] = cache[s]
    OBVIOUS
  <2>3. QED
    BY <1>5, <2>1, <2>2 DEF CacheOK
<1>6. QED
  BY <1>3, <1>4, <1>5 DEF CacheOK

\* A step that changes only the stack and the signal of t
LEMMA SteadyMove ==
  ASSUME Machine, NEW strict, Steady(strict), NEW t \in Threads, NoWriter(stk[t]), NEW r,
         stk' = [stk EXCEPT ![t] = r], Sound(t, r, tramp, cache, strict),
         NEW q, sig' = [sig EXCEPT ![t] = q], q.name # None => Raised(q, r[Len(r)]),
         UNCHANGED <<code, throwtable, tramp, cache, dead>>
  PROVE  Steady(strict)'
<1>1. CodeOK' /\ TableOK' /\ tramp' = [m \in Methods |-> tramp'[m]] /\ ~ dead'
  BY DEF Steady, CodeOK, TableOK
<1>2. CacheOK'
  BY CachesKept DEF Steady
<1>3. Sound(t, r, tramp', cache', strict)
  OBVIOUS
<1>4. \A u \in Threads : u # t => Sound(u, stk[u], tramp', cache', strict)
  BY DEF Steady
<1>5. \A u \in Threads : u # t => (sig[u].name # None => Raised(sig[u], Top(u)))
  BY DEF Steady
<1>6. QED
  BY <1>1, <1>2, <1>3, <1>4, <1>5, Steadied

-----------------------------------------------------------------------------
(* Stacks.                                                                 *)

LEMMA SoundTop ==
  ASSUME NEW t, NEW s, NEW T, NEW C, NEW strict, Sound(t, s, T, C, strict), IsSeq(s), s # << >>
  PROVE  Standing(t, T, C, strict, s[Len(s) - 1], s[Len(s)])
<1>1. Len(s) \in Nat /\ Len(s) # 0
  BY SeqFacts
<1>2. Len(s) \in 1 .. Len(s)
  BY <1>1
<1>3. QED
  BY <1>2 DEF Sound

\* Compiled code stands anywhere.
LEMMA Anywhere ==
  ASSUME NEW t, NEW T, NEW C, NEW strict, NEW g, NEW f, Standing(t, T, C, strict, g, f),
         f.kind # "trampoline", NEW h
  PROVE  Standing(t, T, C, strict, h, f)
BY DEF Standing

\* the frames r has in common with s
LEMMA SoundBelow ==
  ASSUME NEW t, NEW s, NEW T, NEW C, NEW strict, Sound(t, s, T, C, strict), StackOK(s),
         NEW n \in Nat, n <= Len(s), NEW r, \A k \in 1 .. n : r[k] = s[k], NEW k \in 1 .. n
  PROVE  Standing(t, T, C, strict, r[k - 1], r[k])
<1>1. PICK l \in Nat : l = Len(s)
  BY SeqFacts DEF StackOK
<1>2. k \in 1 .. l /\ r[k] = s[k]
  BY <1>1
<1>3. Standing(t, T, C, strict, s[k - 1], s[k])
  BY <1>1, <1>2 DEF Sound
<1>4. CASE k = 1
  <2>1. s[k].kind = "code"
    BY <1>1, <1>2, <1>4 DEF StackOK, FramesOK
  <2>2. QED
    BY <1>2, <1>3, <2>1, Anywhere
<1>5. CASE k # 1
  <2>1. k - 1 \in 1 .. n
    BY <1>5
  <2>2. r[k - 1] = s[k - 1]
    BY <2>1
  <2>3. QED
    BY <1>2, <1>3, <2>2
<1>6. QED
  BY <1>4, <1>5

LEMMA SoundSet ==
  ASSUME NEW t, NEW s, NEW T, NEW C, NEW strict, Sound(t, s, T, C, strict), StackOK(s), s # << >>,
         NEW f, Standing(t, T, C, strict, s[Len(s) - 1], f), f.kind = s[Len(s)].kind,
         NEW r, Len(r) = Len(s), r[Len(s)] = f,
         \A k \in 1 .. Len(s) : k < Len(s) => r[k] = s[k]
  PROVE  Sound(t, r, T, C, strict)
<1>1. PICK n \in Nat : n = Len(s)
  BY TopOK
<1>2. n > 0 /\ Len(r) = n /\ r[n] = f /\ \A k \in 1 .. n - 1 : r[k] = s[k]
  <2>1. n > 0
    BY <1>1, TopOK
  <2>2. \A k \in 1 .. n - 1 : k \in 1 .. n /\ k < n
    OBVIOUS
  <2>3. QED
    BY <1>1, <2>1, <2>2
<1>3. n - 1 \in Nat /\ n - 1 <= n
  BY <1>2
<1>4. ASSUME NEW k \in 1 .. n PROVE Standing(t, T, C, strict, r[k - 1], r[k])
  <2>1. CASE k \in 1 .. n - 1
    BY <1>1, <1>2, <1>3, <2>1, SoundBelow
  <2>2. CASE k = n /\ n = 1
    <3>1. s[n].kind = "code"
      BY <1>1, <1>2, <2>2 DEF StackOK, FramesOK
    <3>2. f.kind # "trampoline" /\ Standing(t, T, C, strict, s[n - 1], f)
      BY <1>1, <3>1
    <3>3. Standing(t, T, C, strict, r[k - 1], f)
      BY <3>2, Anywhere
    <3>4. QED
      BY <1>2, <2>2, <3>3
  <2>3. CASE k = n /\ n # 1
    <3>1. n - 1 \in 1 .. n - 1
      BY <1>2, <2>3
    <3>2. r[n - 1] = s[n - 1]
      BY <1>2, <3>1
    <3>3. QED
      BY <1>1, <1>2, <2>3, <3>2
  <2>4. QED
    BY <2>1, <2>2, <2>3
<1>5. QED
  BY <1>2, <1>4 DEF Sound

LEMMA SoundPush ==
  ASSUME NEW t, NEW s, NEW T, NEW C, NEW strict, Sound(t, s, T, C, strict), StackOK(s), s # << >>,
         NEW f, Standing(t, T, C, strict, s[Len(s)], f), NEW r, r = Append(s, f)
  PROVE  Sound(t, r, T, C, strict)
<1>1. IsSeq(s)
  BY DEF StackOK
<1>2. PICK n \in Nat : n = Len(s) /\ n > 0
  BY TopOK
<1>3. Len(r) = Len(s) + 1
  BY <1>1, Push
<1>4. r[Len(s) + 1] = f
  BY <1>1, Push
<1>5. \A k \in 1 .. Len(s) : r[k] = s[k]
  BY <1>1, Push
<1>6. Len(r) = n + 1 /\ r[n + 1] = f /\ \A k \in 1 .. n : r[k] = s[k]
  BY <1>2, <1>3, <1>4, <1>5
<1>7. ASSUME NEW k \in 1 .. n + 1 PROVE Standing(t, T, C, strict, r[k - 1], r[k])
  <2>1. CASE k \in 1 .. n
    <3>1. n <= Len(s) /\ \A j \in 1 .. n : r[j] = s[j]
      BY <1>2, <1>6
    <3>2. QED
      BY <2>1, <3>1, SoundBelow
  <2>2. CASE k = n + 1
    <3>1. k - 1 = n /\ n \in 1 .. n
      BY <1>2, <2>2
    <3>2. r[k - 1] = s[n]
      BY <1>6, <3>1
    <3>3. QED
      BY <1>2, <1>6, <2>2, <3>2
  <2>3. k \in 1 .. n \/ k = n + 1
    BY <1>2
  <2>4. QED
    BY <2>1, <2>2, <2>3, Zenon
<1>8. QED
  BY <1>6, <1>7 DEF Sound

LEMMA SoundPop ==
  ASSUME NEW t, NEW s, NEW T, NEW C, NEW strict, Sound(t, s, T, C, strict), StackOK(s), s # << >>,
         NEW r, r = SubSeq(s, 1, Len(s) - 1)
  PROVE  Sound(t, r, T, C, strict)
<1>1. IsSeq(s)
  BY DEF StackOK
<1>2. PICK n \in Nat : n = Len(s) /\ n > 0
  BY TopOK
<1>3. Len(r) = Len(s) - 1
  BY <1>1, Pop
<1>4. \A k \in 1 .. Len(r) : r[k] = s[k]
  BY <1>1, Pop
<1>5. PICK m \in Nat : m = Len(r) /\ m <= n
  BY <1>2, <1>3
<1>6. \A k \in 1 .. m : r[k] = s[k]
  BY <1>4, <1>5
<1>7. ASSUME NEW k \in 1 .. m PROVE Standing(t, T, C, strict, r[k - 1], r[k])
  <2>1. m <= Len(s)
    BY <1>2, <1>5
  <2>2. QED
    BY <1>6, <2>1, SoundBelow
<1>8. QED
  BY <1>5, <1>7 DEF Sound

\* Frames are well founded for other caches and operands if these are the same
\* wherever a frame looks at them.
LEMMA SoundElsewhere ==
  ASSUME NEW t, NEW s, NEW T, NEW C, NEW strict, Sound(t, s, T, C, strict), NEW U, NEW D,
         \A k \in 1 .. Len(s) :
           /\ s[k].kind = "trampoline" /\ s[k].ph = "push" => U[s[k].m] = T[s[k].m]
           /\ s[k].kind = "code" /\ s[k].ph \in {"hit", "write"} =>
                D[<<s[k].m, s[k].pc>>] = C[<<s[k].m, s[k].pc>>]
  PROVE  Sound(t, s, U, D, strict)
<1>1. ASSUME NEW k \in 1 .. Len(s) PROVE Standing(t, U, D, strict, s[k - 1], s[k])
  <2>1. PICK f, g : f = s[k] /\ g = s[k - 1]
    OBVIOUS
  <2>2. Standing(t, T, C, strict, g, f)
    BY <2>1 DEF Sound
  <2>3. f.kind = "code" => FrameOK(f, D, strict)
    <3>1. SUFFICES ASSUME f.kind = "code" PROVE FrameOK(f, D, strict)
      OBVIOUS
    <3>2. FrameOK(f, C, strict)
      BY <2>2, <3>1 DEF Standing
    <3>3. f.ph \in {"hit", "write"} => D[<<f.m, f.pc>>] = C[<<f.m, f.pc>>]
      BY <2>1, <3>1
    <3>4. QED
      BY <3>2, <3>3 DEF FrameOK
  <2>4. f.kind = "trampoline" => TrampOK(t, U, g, f)
    <3>1. SUFFICES ASSUME f.kind = "trampoline" PROVE TrampOK(t, U, g, f)
      OBVIOUS
    <3>2. TrampOK(t, T, g, f)
      BY <2>2, <3>1 DEF Standing
    <3>3. f.ph = "push" => U[f.m] = T[f.m]
      BY <2>1, <3>1
    <3>4. QED
      BY <3>2, <3>3 DEF TrampOK
  <2>5. QED
    BY <2>1, <2>2, <2>3, <2>4 DEF Standing
<1>2. QED
  BY <1>1 DEF Sound

-----------------------------------------------------------------------------
(* The steps of compiled code.                                             *)

LEMMA CodeStanding ==
  ASSUME NEW t, NEW T, NEW C, NEW strict, NEW g, NEW f, f.kind = "code", FrameOK(f, C, strict)
  PROVE  Standing(t, T, C, strict, g, f)
BY DEF Standing

\* What a step of compiled code finds
LEMMA Here ==
  ASSUME Compiled, Machine, NEW strict, Steady(strict), NEW t \in Threads, NEW ph, At(t, ph),
         NEW f, f = Top(t)
  PROVE  /\ CodeRec(f) /\ FrameOK(f, cache, strict) /\ f.ph = ph /\ f.kind = "code"
         /\ f.m \in Methods /\ f.pc \in 1 .. Len(Program[f.m])
         /\ sig[t].name = None /\ stk[t] # << >> /\ StackOK(stk[t])
         /\ f = stk[t][Len(stk[t])]
         /\ Insn(t).op = Ins(f).op /\ Insn(t).off = Ins(f).off /\ Insn(t).bc = Ins(f).bc
         /\ Insn(t).cls = Ins(f).cls /\ Insn(t).arg = Ins(f).arg
         /\ TrapsForIntf(Insn(t)) <=> TrapsForIntf(Ins(f))
         /\ Insn(t).cc => TrapsForInit(Ins(f)) \/ TrapsForIntf(Ins(f))
<1>1. /\ sig[t].name = None /\ stk[t] # << >> /\ f.kind = "code" /\ CodeRec(f) /\ f.ph = ph
      /\ f = stk[t][Len(stk[t])]
  BY AtFacts
<1>2. StackOK(stk[t])
  BY DEF Machine
<1>3. Sound(t, stk[t], tramp, cache, strict) /\ IsSeq(stk[t]) /\ CodeOK
  BY <1>2 DEF Steady, StackOK
<1>4. Standing(t, tramp, cache, strict, stk[t][Len(stk[t]) - 1], f)
  BY <1>1, <1>3, SoundTop
<1>5. FrameOK(f, cache, strict)
  BY <1>1, <1>4 DEF Standing
<1>6. f.m \in Methods /\ f.pc \in 1 .. Len(Program[f.m])
  BY <1>5 DEF FrameOK
<1>7. Insn(t) = code[f.m][f.pc] /\ Ins(f) = Program[f.m][f.pc]
  BY DEF Insn, Ins
<1>8. /\ Insn(t).op = Ins(f).op /\ Insn(t).off = Ins(f).off /\ Insn(t).bc = Ins(f).bc
      /\ Insn(t).cls = Ins(f).cls /\ Insn(t).arg = Ins(f).arg
      /\ TrapsForIntf(Insn(t)) <=> TrapsForIntf(Ins(f))
      /\ Insn(t).cc => TrapsForInit(Ins(f)) \/ TrapsForIntf(Ins(f))
  BY <1>3, <1>6, <1>7, CodeFacts
<1>9. QED
  BY <1>1, <1>2, <1>5, <1>6, <1>8

\* The innermost frame changes.
LEMMA SteadySet ==
  ASSUME Machine, NEW strict, Steady(strict), NEW t \in Threads, stk[t] # << >>,
         Top(t).kind = "code" => Top(t).ph # "write", NEW f, f.kind = Top(t).kind,
         Standing(t, tramp, cache, strict, stk[t][Len(stk[t]) - 1], f), SetTop(t, f),
         NEW q, sig' = [sig EXCEPT ![t] = q], q.name = None,
         UNCHANGED <<code, throwtable, tramp, cache, dead>>
  PROVE  Steady(strict)'
<1>1. PICK s : s = stk[t]
  OBVIOUS
<1>2. PICK r : r = [s EXCEPT ![Len(s)] = f]
  OBVIOUS
<1>3. stk' = [stk EXCEPT ![t] = r]
  BY <1>1, <1>2 DEF SetTop
<1>4. StackOK(s) /\ IsSeq(s) /\ s # << >> /\ f.kind = s[Len(s)].kind
  BY <1>1 DEF Machine, StackOK, Top
<1>5. Len(r) = Len(s)
  BY <1>2, <1>4, PutTop
<1>6. r[Len(s)] = f
  BY <1>2, <1>4, PutTop
<1>7. \A k \in 1 .. Len(s) : k < Len(s) => r[k] = s[k]
  BY <1>2, <1>4, PutTop
<1>8. Sound(t, s, tramp, cache, strict) /\ Standing(t, tramp, cache, strict, s[Len(s) - 1], f)
  BY <1>1 DEF Steady
<1>9. Sound(t, r, tramp, cache, strict)
  BY <1>4, <1>5, <1>6, <1>7, <1>8, SoundSet
<1>10. s[Len(s)].kind = "code" => s[Len(s)].ph # "write"
  BY <1>1 DEF Top
<1>11. NoWriter(stk[t])
  BY <1>1, <1>4, <1>10, Writers
<1>12. q.name # None => Raised(q, r[Len(r)])
  OBVIOUS
<1>13. QED
  BY <1>3, <1>9, <1>11, <1>12, SteadyMove

\* ... by compiled code
LEMMA SteadyFrame ==
  ASSUME Machine, NEW strict, Steady(strict), NEW t \in Threads, NEW ph, At(t, ph),
         ph # "write", NEW f, f.kind = "code", FrameOK(f, cache, strict), SetTop(t, f),
         UNCHANGED <<sig, code, throwtable, tramp, cache, dead>>
  PROVE  Steady(strict)'
<1>1. sig[t].name = None /\ stk[t] # << >> /\ Top(t).kind = "code" /\ Top(t).ph = ph
  BY AtFacts
<1>2. Standing(t, tramp, cache, strict, stk[t][Len(stk[t]) - 1], f)
  BY CodeStanding
<1>3. sig' = [sig EXCEPT ![t] = sig[t]]
  BY DEF Machine
<1>4. QED
  BY <1>1, <1>2, <1>3, SteadySet

\* A signal is raised.
LEMMA SteadyRaise ==
  ASSUME Machine, NEW strict, Steady(strict), NEW t \in Threads, NEW ph, At(t, ph),
         ph # "write", NEW q, Raised(q, Top(t)), Raise(t, q), UNCHANGED stk
  PROVE  Steady(strict)'
<1>1. stk[t] # << >> /\ Top(t).ph = ph /\ Top(t) = stk[t][Len(stk[t])]
  BY AtFacts
<1>2. StackOK(stk[t]) /\ stk' = [stk EXCEPT ![t] = stk[t]]
  BY DEF Machine
<1>3. NoWriter(stk[t])
  BY <1>1, <1>2, Writers
<1>4. Sound(t, stk[t], tramp, cache, strict)
  BY DEF Steady
<1>5. q.name # None => Raised(q, stk[t][Len(stk[t])])
  BY <1>1
<1>6. /\ sig' = [sig EXCEPT ![t] = q]
      /\ UNCHANGED <<code, throwtable, tramp, cache, dead>>
  BY DEF Raise
<1>7. QED
  BY <1>2, <1>3, <1>4, <1>5, <1>6, SteadyMove

\* What begins and goes on with a call leaves to the next instruction
Callers == {"inv_head", "inv_spe_obj", "invokestatic", "invokeinterface", "inv_vir_varspace"}

\* Execution reaches the next instruction.
LEMMA AdvanceOK ==
  ASSUME Compiled, NEW C, NEW strict, NEW f, f.m \in Methods, f.pc \in 1 .. Len(Program[f.m]),
         Ins(f).op \notin {"return", "athrow"},
         NEW b, b.m = f.m, b.pc = f.pc + 1, b.ph = "run",
         Ins(f).op \in Callers => b.bytepc = Ins(f).off,
         Ins(f).op = "inv_spe_obj" => b.obj \in Ins(f).cls,
         Ins(f).op = "invokestatic" => b.method \in Methods,
         Ins(f).op = "invokeinterface" =>
           b.method \in Methods /\ b.method = Impl[<<b.obj, Ins(f).arg>>],
         Ins(f).op = "inv_vir_varspace" =>
           b.method \in Methods /\ b.method = Impl[<<b.obj, Program[f.m][f.pc - 1].arg>>]
  PROVE  FrameOK(b, C, strict)
<1>1. PICK P, i : P = Program[f.m] /\ i = f.pc
  OBVIOUS
<1>2. Ins(f) = P[i] /\ i + 1 \in 1 .. Len(P) /\ Ins(b) = P[i + 1] /\ i \in Int
  BY <1>1, NextInsn DEF Ins
<1>3. P[i + 1].op \in ChainOps => Chained(P, i + 1)
  BY <1>1, <1>2, InsnFacts
<1>4. i + 1 - 1 = i /\ i + 1 - 2 = i - 1 /\ i + 1 = b.pc /\ b.pc - 1 = i
  BY <1>1, <1>2
<1>5. ASSUME P[i + 1].op \in ChainOps
      PROVE  /\ P[i].off = P[i + 1].off /\ P[i].op \in Callers
             /\ P[i + 1].op = "invokeinterface" => P[i].op = "inv_spe_obj"
             /\ P[i + 1].op = "inv_vir_varspace" => P[i].op = "invokeinterface"
             /\ P[i + 1].op = "invoke_core" =>
                  IF P[i + 1].bc = "invokeinterface"
                    THEN P[i].op = "inv_vir_varspace" /\ P[i - 1].arg = P[i + 1].arg
                    ELSE P[i].op = "invokestatic"
  BY <1>3, <1>4, <1>5 DEF Chained, ChainOps, Callers
<1>6. Ins(b).op \in ChainOps => b.bytepc = Ins(b).off
  BY <1>2, <1>5
<1>7. Carried(b)
  <2>1. Ins(b).op = "invokeinterface" => b.obj \in Program[b.m][b.pc - 1].cls
    BY <1>1, <1>2, <1>4, <1>5 DEF ChainOps
  <2>2. Ins(b).op = "inv_vir_varspace" =>
          b.method \in Methods /\ b.method = Impl[<<b.obj, Program[b.m][b.pc - 1].arg>>]
    BY <1>1, <1>2, <1>4, <1>5 DEF ChainOps
  <2>3. Ins(b).op = "invoke_core" =>
          /\ b.method \in Methods
          /\ Ins(b).bc = "invokeinterface" => b.method = Impl[<<b.obj, Ins(b).arg>>]
    BY <1>1, <1>2, <1>4, <1>5 DEF ChainOps
  <2>4. QED
    BY <2>1, <2>2, <2>3 DEF Carried
<1>8. b.m \in Methods /\ b.pc \in 1 .. Len(Program[b.m])
  BY <1>1, <1>2
<1>9. QED
  BY <1>6, <1>7, <1>8 DEF FrameOK, InIntf

LEMMA Advanced ==
  ASSUME NEW a, CodeRec(a), NEW b, b = Advance(a)
  PROVE  /\ b.kind = "code" /\ b.m = a.m /\ b.pc = a.pc + 1 /\ b.ph = "run"
         /\ b.bytepc = a.bytepc /\ b.method = a.method /\ b.obj = a.obj
<1>1. PICK x : x = a.pc + 1
  OBVIOUS
<1>2. b = [a EXCEPT !.pc = x, !.ph = "run"]
  BY <1>1 DEF Advance
<1>3. QED
  BY <1>1, <1>2 DEF CodeRec, CodeFields

\* An instruction that has nothing to do with a call is over.
LEMMA SteadyOn ==
  ASSUME Compiled, Machine, NEW strict, Steady(strict), NEW t \in Threads, NEW ph, At(t, ph),
         ph # "write", NEW a, CodeRec(a), a.m = Top(t).m, a.pc = Top(t).pc,
         Ins(Top(t)).op \notin Callers \cup {"return", "athrow"}, SetTop(t, Advance(a)),
         UNCHANGED <<sig, code, throwtable, tramp, cache, dead>>
  PROVE  Steady(strict)'
<1>1. PICK f : f = Top(t)
  OBVIOUS
<1>2. f.m \in Methods /\ f.pc \in 1 .. Len(Program[f.m])
  BY <1>1, Here
<1>3. PICK b : b = Advance(a)
  OBVIOUS
<1>4. b.kind = "code" /\ b.m = f.m /\ b.pc = f.pc + 1 /\ b.ph = "run"
  BY <1>1, <1>3, Advanced
<1>5. /\ Ins(f).op \notin {"return", "athrow"} /\ Ins(f).op \notin Callers
      /\ Ins(f).op # "inv_spe_obj" /\ Ins(f).op # "invokestatic"
      /\ Ins(f).op # "invokeinterface" /\ Ins(f).op # "inv_vir_varspace"
  BY <1>1 DEF Callers
<1>6. FrameOK(b, cache, strict)
  BY <1>2, <1>4, <1>5, AdvanceOK
<1>7. QED
  BY <1>3, <1>4, <1>6, SteadyFrame

LEMMA SteadyPlain ==
  ASSUME Compiled, Machine, NEW strict, Steady(strict), NEW t \in Threads, NEW ph, At(t, ph),
         ph # "write", Ins(Top(t)).op \notin Callers \cup {"return", "athrow"},
         SetTop(t, Advance(Top(t))), UNCHANGED <<sig, code, throwtable, tramp, cache, dead>>
  PROVE  Steady(strict)'
<1>1. CodeRec(Top(t))
  BY AtFacts
<1>2. QED
  BY <1>1, SteadyOn

LEMMA SteadyTrap ==
  ASSUME Compiled, Machine, NEW strict, Steady(strict), NEW t \in Threads, Trap(t)
  PROVE  Steady(strict)'
<1>1. PICK ph \in {"run", "bound"} : At(t, ph) /\ (ph = "run" => ~ TrapsForIntf(Insn(t)))
  BY DEF Trap
<1>2. PICK f : f = Top(t)
  OBVIOUS
<1>3. /\ f.ph = ph /\ Insn(t).op = Ins(f).op /\ (TrapsForIntf(Insn(t)) <=> TrapsForIntf(Ins(f)))
      /\ Insn(t).cc => TrapsForInit(Ins(f)) \/ TrapsForIntf(Ins(f))
  BY <1>1, <1>2, Here
<1>4. PICK q : q = Signal("TRAP", PatchAddr(f.pc, Ins(f).op) + 1)
  OBVIOUS
<1>5. Raise(t, q) /\ UNCHANGED stk /\ Insn(t).cc
  BY <1>2, <1>3, <1>4 DEF Trap
<1>6. q.name = "TRAP" /\ q.lib = 0 /\ q.off = PatchAddr(f.pc, Ins(f).op) + 1
  BY <1>4 DEF Signal
<1>7. IF f.ph = "run" THEN TrapsForInit(Ins(f)) ELSE f.ph = "bound"
  BY <1>1, <1>3, <1>5
<1>8. Raised(q, f)
  BY <1>6, <1>7 DEF Raised
<1>9. QED
  BY <1>1, <1>2, <1>5, <1>8, SteadyRaise

\* A fault where the template loads from an object, or from the stack
LEMMA SteadySegv ==
  ASSUME Compiled, Machine, NEW strict, Steady(strict), NEW t \in Threads, At(t, "run"),
         Ins(Top(t)).op \in SignalOps, NEW q, q.name = "SEGV", q.lib = 0, q.off = Eip(t),
         Raise(t, q), UNCHANGED stk
  PROVE  Steady(strict)'
<1>1. Raised(q, Top(t))
  BY DEF Raised, Eip
<1>2. QED
  BY <1>1, SteadyRaise

LEMMA SteadyUse ==
  ASSUME Compiled, Machine, NEW strict, Steady(strict), NEW t \in Threads, Use(t)
  PROVE  Steady(strict)'
<1>1. /\ At(t, "run") /\ Insn(t).op \in InitOps
      /\ UNCHANGED <<sig, code, throwtable, tramp, cache, dead>>
  BY DEF Use
<1>2. PICK f : f = Top(t)
  OBVIOUS
<1>3. /\ CodeRec(f) /\ FrameOK(f, cache, strict) /\ Ins(f).op = Insn(t).op
      /\ f.m \in Methods /\ f.pc \in 1 .. Len(Program[f.m]) /\ Insn(t).arg = Ins(f).arg
  BY <1>1, <1>2, Here
<1>4. PICK x : x = IF Insn(t).op = "invokestatic" THEN Insn(t).arg ELSE None
  OBVIOUS
<1>5. PICK a : a = [f EXCEPT !.method = x]
  OBVIOUS
<1>6. SetTop(t, Advance(a))
  BY <1>2, <1>4, <1>5 DEF Use
<1>7. CodeRec(a) /\ a.m = f.m /\ a.pc = f.pc /\ a.method = x /\ a.bytepc = f.bytepc
  BY <1>3, <1>5 DEF CodeRec, CodeFields
<1>8. PICK b : b = Advance(a)
  OBVIOUS
<1>9. /\ b.kind = "code" /\ b.m = f.m /\ b.pc = f.pc + 1 /\ b.ph = "run"
      /\ b.bytepc = f.bytepc /\ b.method = x
  BY <1>7, <1>8, Advanced
<1>10. /\ Ins(f).op \notin {"return", "athrow"} /\ Ins(f).op # "inv_spe_obj" /\ Ins(f).op # "inv_head"
       /\ Ins(f).op # "invokeinterface" /\ Ins(f).op # "inv_vir_varspace"
  BY <1>1, <1>3 DEF InitOps
<1>11. Ins(f).op \in Callers => b.bytepc = Ins(f).off
  BY <1>3, <1>9, <1>10 DEF Callers, ChainOps, FrameOK
<1>12. Ins(f).op = "invokestatic" => b.method \in Methods
  <2>1. Ins(f).op = "invokestatic" => Ins(f).arg \in Methods
    BY <1>3, InsnFacts DEF Ins
  <2>2. QED
    BY <1>3, <1>4, <1>9, <2>1
<1>13. FrameOK(b, cache, strict)
  BY <1>3, <1>9, <1>10, <1>11, <1>12, AdvanceOK
<1>14. QED
  BY <1>1, <1>6, <1>8, <1>9, <1>13, SteadyFrame

LEMMA SteadyHead ==
  ASSUME Compiled, Machine, NEW strict, Steady(strict), NEW t \in Threads, inv_head(t)
  PROVE  Steady(strict)'
<1>1. /\ At(t, "run") /\ Insn(t).op = "inv_head"
      /\ UNCHANGED <<sig, code, throwtable, tramp, cache, dead>>
  BY DEF inv_head
<1>2. PICK f : f = Top(t)
  OBVIOUS
<1>3. /\ CodeRec(f) /\ Ins(f).op = "inv_head" /\ Insn(t).off = Ins(f).off
      /\ f.m \in Methods /\ f.pc \in 1 .. Len(Program[f.m])
  BY <1>1, <1>2, Here
<1>4. PICK a : a = [f EXCEPT !.bytepc = Insn(t).off]
  OBVIOUS
<1>5. CodeRec(a) /\ a.m = f.m /\ a.pc = f.pc /\ a.bytepc = Ins(f).off
  BY <1>3, <1>4 DEF CodeRec, CodeFields
<1>6. PICK b : b = Advance(a)
  OBVIOUS
<1>7. /\ b.kind = "code" /\ b.m = f.m /\ b.pc = f.pc + 1 /\ b.ph = "run" /\ b.bytepc = Ins(f).off
  BY <1>5, <1>6, Advanced
<1>8. FrameOK(b, cache, strict)
  BY <1>3, <1>7, AdvanceOK
<1>9. SetTop(t, b)
  BY <1>2, <1>4, <1>6 DEF inv_head
<1>10. QED
  BY <1>1, <1>7, <1>8, <1>9, SteadyFrame

LEMMA SteadyExit ==
  ASSUME Compiled, Machine, NEW strict, Steady(strict), NEW t \in Threads, inlined_exit(t)
  PROVE  Steady(strict)'
<1>1. /\ At(t, "run") /\ Insn(t).op = "inlined_exit" /\ SetTop(t, Advance(Top(t)))
      /\ UNCHANGED <<sig, code, throwtable, tramp, cache, dead>>
  BY DEF inlined_exit
<1>2. Ins(Top(t)).op = "inlined_exit"
  BY <1>1, Here
<1>3. QED
  BY <1>1, <1>2, SteadyPlain DEF Callers

LEMMA SteadyDeref ==
  ASSUME Compiled, Machine, NEW strict, Steady(strict), NEW t \in Threads, Deref(t)
  PROVE  Steady(strict)'
<1>1. At(t, "run") /\ Insn(t).op \in DerefOps \cup {"inv_spe_obj"}
  BY DEF Deref
<1>2. PICK f : f = Top(t)
  OBVIOUS
<1>3. /\ CodeRec(f) /\ FrameOK(f, cache, strict) /\ Ins(f).op = Insn(t).op
      /\ f.m \in Methods /\ f.pc \in 1 .. Len(Program[f.m]) /\ Insn(t).cls = Ins(f).cls
  BY <1>1, <1>2, Here
<1>4. CASE Raise(t, Signal("SEGV", Eip(t))) /\ UNCHANGED stk
  <2>1. PICK q : q = Signal("SEGV", Eip(t))
    OBVIOUS
  <2>2. q.name = "SEGV" /\ q.lib = 0 /\ q.off = Eip(t)
    BY <2>1 DEF Signal
  <2>3. Ins(Top(t)).op \in SignalOps
    BY <1>1, <1>2, <1>3 DEF SignalOps
  <2>4. QED
    BY <1>1, <1>4, <2>1, <2>2, <2>3, SteadySegv
<1>5. CASE /\ Insn(t).op \in DerefOps /\ SetTop(t, Advance(Top(t)))
           /\ UNCHANGED <<sig, code, throwtable, tramp, cache, dead>>
  <2>1. Ins(Top(t)).op \notin Callers \cup {"return", "athrow"}
    BY <1>2, <1>3, <1>5 DEF Callers, DerefOps
  <2>2. QED
    BY <1>1, <1>5, <2>1, SteadyPlain
<1>6. ASSUME Insn(t).op \notin DerefOps, NEW c \in Insn(t).cls,
             SetTop(t, Advance([Top(t) EXCEPT !.obj = c])),
             UNCHANGED <<sig, code, throwtable, tramp, cache, dead>>
      PROVE  Steady(strict)'
  <2>1. Ins(f).op = "inv_spe_obj"
    BY <1>1, <1>3, <1>6
  <2>2. PICK a : a = [f EXCEPT !.obj = c]
    OBVIOUS
  <2>3. CodeRec(a) /\ a.m = f.m /\ a.pc = f.pc /\ a.obj = c /\ a.bytepc = f.bytepc
    BY <1>3, <2>2 DEF CodeRec, CodeFields
  <2>4. PICK b : b = Advance(a)
    OBVIOUS
  <2>5. /\ b.kind = "code" /\ b.m = f.m /\ b.pc = f.pc + 1 /\ b.ph = "run"
        /\ b.bytepc = f.bytepc /\ b.obj = c
    BY <2>3, <2>4, Advanced
  <2>6. b.bytepc = Ins(f).off /\ b.obj \in Ins(f).cls
    BY <1>3, <1>6, <2>1, <2>5 DEF FrameOK, ChainOps
  <2>7. FrameOK(b, cache, strict)
    BY <1>3, <2>1, <2>5, <2>6, AdvanceOK
  <2>8. SetTop(t, b)
    BY <1>2, <1>6, <2>2, <2>4
  <2>9. QED
    BY <1>1, <1>6, <2>5, <2>7, <2>8, SteadyFrame
<1>7. QED
  BY <1>4, <1>5, <1>6 DEF Deref

LEMMA SteadyLoad ==
  ASSUME Compiled, Machine, NEW strict, Steady(strict), NEW t \in Threads, DivLoad(t)
  PROVE  Steady(strict)'
<1>1. /\ At(t, "run") /\ Insn(t).op \in DivOps
      /\ UNCHANGED <<sig, code, throwtable, tramp, cache, dead>>
  BY DEF DivLoad
<1>2. PICK a \in Ints, b \in Ints :
        SetTop(t, [Top(t) EXCEPT !.ph = "idivl", !.eax = a, !.ecx = b,
                                 !.edx = IF a < 0 THEN -1 ELSE 0, !.v1 = a])
  BY DEF DivLoad
<1>3. PICK f, x : f = Top(t) /\ x = IF a < 0 THEN -1 ELSE 0
  OBVIOUS
<1>4. PICK g : g = [f EXCEPT !.ph = "idivl", !.eax = a, !.ecx = b, !.edx = x, !.v1 = a]
  OBVIOUS
<1>5. SetTop(t, g)
  BY <1>2, <1>3, <1>4
<1>6. CodeRec(f) /\ FrameOK(f, cache, strict) /\ Ins(f).op \in DivOps
  BY <1>1, <1>3, Here
<1>7. /\ g.kind = "code" /\ g.ph = "idivl" /\ g.eax = a /\ g.ecx = b /\ g.m = f.m /\ g.pc = f.pc
      /\ g.bytepc = f.bytepc
  BY <1>4, <1>6 DEF CodeRec, CodeFields
<1>8. Ins(g) = Ins(f)
  BY <1>7 DEF Ins
<1>9. FrameOK(g, cache, strict)
  BY <1>6, <1>7, <1>8 DEF FrameOK, InIntf
<1>10. QED
  BY <1>1, <1>5, <1>7, <1>9, SteadyFrame

LEMMA SteadyIdivl ==
  ASSUME Compiled, Machine, NEW strict, Steady(strict), NEW t \in Threads, Idivl(t)
  PROVE  Steady(strict)'
<1>1. At(t, "idivl")
  BY DEF Idivl
<1>2. PICK f : f = Top(t)
  OBVIOUS
<1>3. PICK a, b : a = f.eax /\ b = f.ecx
  OBVIOUS
<1>4. /\ CodeRec(f) /\ FrameOK(f, cache, strict) /\ f.ph = "idivl"
  BY <1>1, <1>2, Here
<1>5. a \in Ints /\ b \in Ints /\ Ins(f).op \in DivOps
  BY <1>3, <1>4 DEF FrameOK
<1>6. CASE /\ b = 0 \/ Quotient(a, b) \notin Ints
           /\ Raise(t, Signal("FPE", Eip(t) + 1)) /\ UNCHANGED stk
  <2>1. PICK q : q = Signal("FPE", Eip(t) + 1)
    OBVIOUS
  <2>2. q.name = "FPE" /\ q.lib = 0 /\ q.off = Nativeoff(f.pc) + 1
    BY <1>2, <2>1 DEF Signal, Eip
  <2>3. f.ecx = 0 \/ (f.eax = MinInt /\ f.ecx = -1)
    BY <1>3, <1>5, <1>6, Fits
  <2>4. Raised(q, f)
    BY <1>4, <2>2, <2>3 DEF Raised
  <2>5. QED
    BY <1>1, <1>2, <1>6, <2>1, <2>4, SteadyRaise
<1>7. CASE /\ SetTop(t, [Top(t) EXCEPT !.ph = "divided", !.eax = Quotient(a, b),
                                       !.edx = Remainder(a, b)])
           /\ UNCHANGED <<sig, code, throwtable, tramp, cache, dead>>
  <2>1. PICK q, r : q = Quotient(a, b) /\ r = Remainder(a, b)
    OBVIOUS
  <2>2. PICK g : g = [f EXCEPT !.ph = "divided", !.eax = q, !.edx = r]
    OBVIOUS
  <2>3. SetTop(t, g)
    BY <1>2, <1>7, <2>1, <2>2
  <2>4. g.kind = "code" /\ g.ph = "divided" /\ g.m = f.m /\ g.pc = f.pc /\ g.bytepc = f.bytepc
    BY <1>4, <2>2 DEF CodeRec, CodeFields
  <2>5. Ins(g) = Ins(f)
    BY <2>4 DEF Ins
  <2>6. FrameOK(g, cache, strict)
    BY <1>4, <1>5, <2>4, <2>5 DEF FrameOK, InIntf
  <2>7. QED
    BY <1>1, <1>7, <2>3, <2>4, <2>6, SteadyFrame
<1>8. QED
  BY <1>2, <1>3, <1>6, <1>7 DEF Idivl

LEMMA SteadyDone ==
  ASSUME Compiled, Machine, NEW strict, Steady(strict), NEW t \in Threads, DivDone(t)
  PROVE  Steady(strict)'
<1>1. At(t, "divided") /\ UNCHANGED <<sig, code, throwtable, tramp, cache, dead>>
  BY DEF DivDone
<1>2. PICK f : f = Top(t)
  OBVIOUS
<1>3. CodeRec(f) /\ FrameOK(f, cache, strict) /\ f.ph = "divided"
  BY <1>1, <1>2, Here
<1>4. Ins(f).op \in DivOps
  BY <1>3 DEF FrameOK
<1>5. PICK a : a = [f EXCEPT !.v1 = 0, !.eax = 0, !.ecx = 0, !.edx = 0]
  OBVIOUS
<1>6. CodeRec(a) /\ a.m = f.m /\ a.pc = f.pc
  BY <1>3, <1>5 DEF CodeRec, CodeFields
<1>7. SetTop(t, Advance(a))
  BY <1>2, <1>5 DEF DivDone
<1>8. Ins(Top(t)).op \notin Callers \cup {"return", "athrow"}
  BY <1>2, <1>4 DEF DivOps, Callers
<1>9. QED
  BY <1>1, <1>2, <1>6, <1>7, <1>8, SteadyOn

LEMMA SteadyLdiv ==
  ASSUME Compiled, Machine, NEW strict, Steady(strict), NEW t \in Threads, ldiv(t)
  PROVE  Steady(strict)'
<1>1. At(t, "run") /\ Insn(t).op \in {"ldiv", "lrem"}
  BY DEF ldiv
<1>2. Ins(Top(t)).op \in {"ldiv", "lrem"} /\ Top(t).ph = "run"
  BY <1>1, Here
<1>3. ASSUME NEW lib \in LibFrames, Raise(t, [Signal("FPE", 0) EXCEPT !.lib = lib]), UNCHANGED stk
      PROVE  Steady(strict)'
  <2>1. PICK q : q = [Signal("FPE", 0) EXCEPT !.lib = lib]
    OBVIOUS
  <2>2. q.name = "FPE" /\ q.lib = lib
    BY <2>1 DEF Signal
  <2>3. lib \in 1 .. IP_SEARCH_COUNT
    BY <1>3 DEF Compiled
  <2>4. Raised(q, Top(t))
    BY <1>2, <2>2, <2>3 DEF Raised
  <2>5. QED
    BY <1>1, <1>3, <2>1, <2>4, SteadyRaise
<1>4. CASE /\ SetTop(t, Advance(Top(t)))
           /\ UNCHANGED <<sig, code, throwtable, tramp, cache, dead>>
  BY <1>1, <1>2, <1>4, SteadyPlain DEF Callers
<1>5. QED
  BY <1>3, <1>4 DEF ldiv

LEMMA SteadyAthrow ==
  ASSUME Compiled, Machine, NEW strict, Steady(strict), NEW t \in Threads, athrow(t)
  PROVE  Steady(strict)'
<1>1. At(t, "run") /\ Insn(t).op = "athrow"
  BY DEF athrow
<1>2. PICK f : f = Top(t)
  OBVIOUS
<1>3. /\ CodeRec(f) /\ FrameOK(f, cache, strict) /\ Ins(f).op = "athrow"
      /\ Insn(t).off = Ins(f).off
  BY <1>1, <1>2, Here
<1>4. CASE Raise(t, Signal("SEGV", Eip(t))) /\ UNCHANGED stk
  <2>1. PICK q : q = Signal("SEGV", Eip(t))
    OBVIOUS
  <2>2. q.name = "SEGV" /\ q.lib = 0 /\ q.off = Eip(t)
    BY <2>1 DEF Signal
  <2>3. Ins(Top(t)).op \in SignalOps
    BY <1>2, <1>3 DEF SignalOps
  <2>4. QED
    BY <1>1, <1>4, <2>1, <2>2, <2>3, SteadySegv
<1>5. CASE /\ SetTop(t, [Top(t) EXCEPT !.ph = "exc", !.bytepc = Insn(t).off])
           /\ UNCHANGED <<sig, code, throwtable, tramp, cache, dead>>
  <2>1. PICK g : g = [f EXCEPT !.ph = "exc", !.bytepc = Insn(t).off]
    OBVIOUS
  <2>2. g.kind = "code" /\ g.ph = "exc" /\ g.m = f.m /\ g.pc = f.pc /\ g.bytepc = Ins(f).off
    BY <1>3, <2>1 DEF CodeRec, CodeFields
  <2>3. Ins(g) = Ins(f)
    BY <2>2 DEF Ins
  <2>4. FrameOK(g, cache, strict)
    BY <1>3, <2>2, <2>3 DEF FrameOK, InIntf
  <2>5. SetTop(t, g)
    BY <1>2, <1>5, <2>1
  <2>6. QED
    BY <1>1, <1>5, <2>2, <2>4, <2>5, SteadyFrame
<1>6. QED
  BY <1>4, <1>5 DEF athrow

-----------------------------------------------------------------------------
(* The inline caches.                                                      *)

\* Only the innermost frame is anywhere but at a call or a trap.
LEMMA Outer ==
  ASSUME NEW s, StackOK(s), NEW k \in 1 .. Len(s), k # Len(s)
  PROVE  /\ s[k].kind = "code" => s[k].ph \in {"call", "run", "bound"}
         /\ s[k].kind = "trampoline" => s[k].ph = "ret"
<1>1. PICK n \in Nat : n = Len(s)
  BY SeqFacts DEF StackOK
<1>2. k + 1 \in 1 .. n /\ k + 1 # 1 /\ k + 1 - 1 = k
  BY <1>1
<1>3. Above(s[k], s[k + 1])
  BY <1>1, <1>2 DEF StackOK, FramesOK
<1>4. QED
  BY <1>3 DEF Above

LEMMA NoRace ==
  ASSUME Machine, Unraced, NEW t \in Threads, NEW u \in Threads, t # u,
         NEW j \in 1 .. Len(stk[t]), stk[t][j].kind # "init",
         NEW k \in 1 .. Len(stk[u]), stk[u][k].kind # "init"
  PROVE  stk[t][j].m # stk[u][k].m
<1>1. IsSeq(stk[t]) /\ IsSeq(stk[u])
  BY DEF Machine, StackOK
<1>2. j \in DOMAIN stk[t] /\ k \in DOMAIN stk[u]
  BY <1>1, SeqFacts
<1>3. QED
  BY <1>2 DEF Unraced

\* The search of a class's table finds an interface the class has.
LEMMA SlotFound ==
  ASSUME Compiled, NEW c \in Classes, NEW intf, NEW guess,
         \E k \in DOMAIN Itable[c] : Itable[c][k] = intf
  PROVE  Slot(c, intf, guess) # 0 /\ Itable[c][Slot(c, intf, guess)] = intf
<1>1. PICK n \in Nat : DOMAIN Itable[c] = 1 .. n
  <2>1. Len(Itable[c]) \in Nat /\ DOMAIN Itable[c] = 1 .. Len(Itable[c])
    BY DEF Compiled
  <2>2. QED
    BY <2>1
<1>2. PICK slots : slots = {k \in DOMAIN Itable[c] : Itable[c][k] = intf}
  OBVIOUS
<1>3. slots # {} /\ slots \subseteq 1 .. n
  BY <1>1, <1>2
<1>4. \E k \in slots : \A j \in slots : j <= k
  <2>1. PICK T : T = {n - k : k \in slots}
    OBVIOUS
  <2>2. T \in SUBSET Nat /\ T # {}
    <3>1. ASSUME NEW k \in slots PROVE n - k \in Nat
      <4>1. k \in 1 .. n /\ n \in Nat
        BY <1>1, <1>3
      <4>2. QED
        BY <4>1
    <3>2. PICK k : k \in slots
      BY <1>3
    <3>3. n - k \in T
      BY <2>1, <3>2
    <3>4. QED
      BY <2>1, <3>1, <3>3
  <2>3. PICK x \in T : \A y \in T : x <= y
    BY <2>2, LeastNatural
  <2>4. PICK k \in slots : x = n - k
    BY <2>1
  <2>5. ASSUME NEW j \in slots PROVE j <= k
    <3>1. n - j \in T
      BY <2>1
    <3>2. n - k <= n - j
      BY <2>3, <2>4, <3>1
    <3>3. j \in 1 .. n /\ k \in 1 .. n
      BY <1>3
    <3>4. QED
      BY <3>2, <3>3
  <2>6. QED
    BY <2>5
<1>5. PICK x : x = Slot(c, intf, guess)
  OBVIOUS
<1>6. x \in slots
  <2>1. CASE guess + 1 \in slots
    BY <1>2, <1>3, <1>5, <2>1 DEF Slot
  <2>2. CASE guess + 1 \notin slots
    <3>1. x = CHOOSE k \in slots : \A j \in slots : j <= k
      BY <1>2, <1>3, <1>5, <2>2 DEF Slot
    <3>2. QED
      BY <1>4, <3>1
  <2>3. QED
    BY <2>1, <2>2
<1>7. QED
  BY <1>2, <1>3, <1>5, <1>6

\* A thread at an interface call: the receiver has a method for it.
LEMMA AtIntf ==
  ASSUME Compiled, NEW C, NEW strict, NEW f, FrameOK(f, C, strict), f.ph \in InIntf \cup {"run"},
         Ins(f).op = "invokeinterface"
  PROVE  /\ f.obj \in Classes /\ Impl[<<f.obj, Ins(f).arg>>] \in Methods
         /\ \E k \in DOMAIN Itable[f.obj] : Itable[f.obj][k] = Ins(f).arg
         /\ <<f.m, f.pc>> \in Sites
<1>1. f.m \in Methods /\ f.pc \in 1 .. Len(Program[f.m]) /\ f.obj \in Program[f.m][f.pc - 1].cls
  BY DEF FrameOK, Carried
<1>2. /\ f.obj \in Classes /\ Impl[<<f.obj, Ins(f).arg>>] \in Methods
      /\ \E k \in DOMAIN Itable[f.obj] : Itable[f.obj][k] = Ins(f).arg
  BY <1>1, InsnFacts DEF Ins
<1>3. Len(Program[f.m]) \in Nat /\ Len(Program[f.m]) \in 1 .. MaxInsns /\ MaxInsns \in Nat
  BY <1>1, MethodFacts
<1>4. PICK n \in Nat : n = Len(Program[f.m])
  BY <1>3
<1>5. f.pc \in 1 .. MaxInsns /\ f.pc <= n
  BY <1>1, <1>3, <1>4
<1>6. TrapsForIntf(Program[f.m][f.pc])
  BY DEF TrapsForIntf, Ins
<1>7. <<f.m, f.pc>> \in Sites
  BY <1>1, <1>4, <1>5, <1>6 DEF Sites
<1>8. QED
  BY <1>2, <1>7

\* While t is at an interface call nobody else is writing its cache.
LEMMA Unwritten ==
  ASSUME Machine, Unraced, NEW t \in Threads, stk[t] # << >>, Top(t).kind = "code",
         Top(t).ph # "write"
  PROVE  ~ Writing(<<Top(t).m, Top(t).pc>>)
<1>1. SUFFICES ASSUME Writing(<<Top(t).m, Top(t).pc>>) PROVE FALSE
  OBVIOUS
<1>2. PICK u \in Threads : \E k \in 1 .. Len(stk[u]) :
        /\ stk[u][k].kind = "code" /\ stk[u][k].ph = "write"
        /\ <<stk[u][k].m, stk[u][k].pc>> = <<Top(t).m, Top(t).pc>>
  BY <1>1 DEF Writing
<1>3. PICK k \in 1 .. Len(stk[u]) :
        stk[u][k].kind = "code" /\ stk[u][k].ph = "write" /\ stk[u][k].m = Top(t).m
  BY <1>2
<1>4. StackOK(stk[t]) /\ Top(t) = stk[t][Len(stk[t])]
  BY DEF Machine, Top
<1>5. u # t
  <2>1. NoWriter(stk[t])
    BY <1>4, Writers
  <2>2. QED
    BY <1>3, <2>1 DEF NoWriter
<1>6. Len(stk[t]) \in 1 .. Len(stk[t])
  <2>1. PICK n \in Nat : n = Len(stk[t]) /\ n > 0
    BY <1>4, TopOK
  <2>2. QED
    BY <2>1
<1>7. stk[t][Len(stk[t])].m # stk[u][k].m
  BY <1>3, <1>4, <1>5, <1>6, NoRace
<1>8. QED
  BY <1>3, <1>4, <1>7

LEMMA SteadyKey ==
  ASSUME Compiled, Machine, Unraced, NEW strict, Steady(strict), NEW t \in Threads, CacheKey(t)
  PROVE  Steady(strict)'
<1>1. /\ At(t, "run") /\ TrapsForIntf(Insn(t))
      /\ UNCHANGED <<sig, code, throwtable, tramp, cache, dead>>
  BY DEF CacheKey
<1>2. PICK f : f = Top(t)
  OBVIOUS
<1>3. /\ CodeRec(f) /\ FrameOK(f, cache, strict) /\ f.ph = "run" /\ f.kind = "code"
      /\ TrapsForIntf(Ins(f)) /\ stk[t] # << >>
  BY <1>1, <1>2, Here
<1>4. Ins(f).op = "invokeinterface"
  BY <1>3 DEF TrapsForIntf
<1>5. f.obj \in Classes /\ <<f.m, f.pc>> \in Sites
  BY <1>3, <1>4, AtIntf
<1>6. PICK ph : ph = IF cache[<<f.m, f.pc>>].key = f.obj THEN "hit" ELSE "miss"
  OBVIOUS
<1>7. PICK g : g = [f EXCEPT !.ph = ph]
  OBVIOUS
<1>8. /\ g.kind = "code" /\ g.ph = ph /\ g.m = f.m /\ g.pc = f.pc /\ g.bytepc = f.bytepc
      /\ g.obj = f.obj /\ g.method = f.method
  BY <1>3, <1>7 DEF CodeRec, CodeFields
<1>9. Ins(g) = Ins(f)
  BY <1>8 DEF Ins
<1>10. Carried(g)
  BY <1>3, <1>8, <1>9 DEF FrameOK, Carried
<1>11. ph = "hit" => /\ cache[<<f.m, f.pc>>].key = f.obj
                     /\ cache[<<f.m, f.pc>>].method = Impl[<<f.obj, Ins(f).arg>>]
  <2>1. SUFFICES ASSUME cache[<<f.m, f.pc>>].key = f.obj
                 PROVE  cache[<<f.m, f.pc>>].method = Impl[<<f.obj, Ins(f).arg>>]
    BY <1>6
  <2>2. f.obj # None
    BY <1>5, LengthFacts
  <2>3. ~ Writing(<<f.m, f.pc>>)
    BY <1>2, <1>3, Unwritten
  <2>4. PICK s \in Sites : s = <<f.m, f.pc>>
    BY <1>5
  <2>5. cache[s].method = Impl[<<cache[s].key, Program[s[1]][s[2]].arg>>]
    BY <2>1, <2>2, <2>3, <2>4 DEF Steady, CacheOK
  <2>6. QED
    BY <2>1, <2>4, <2>5 DEF Ins
<1>12. ph \in {"hit", "miss"}
  BY <1>6
<1>13. FrameOK(g, cache, strict)
  BY <1>3, <1>4, <1>8, <1>9, <1>10, <1>11, <1>12 DEF FrameOK, InIntf
<1>14. SetTop(t, g)
  BY <1>2, <1>6, <1>7 DEF CacheKey
<1>15. QED
  BY <1>1, <1>8, <1>13, <1>14, SteadyFrame

\* An interface call has its method.
LEMMA SteadyBoundTo ==
  ASSUME Compiled, Machine, NEW strict, Steady(strict), NEW t \in Threads, NEW ph, At(t, ph),
         ph # "write", ph \in InIntf, NEW a, CodeRec(a), a.m = Top(t).m, a.pc = Top(t).pc,
         a.bytepc = Top(t).bytepc, a.obj = Top(t).obj,
         a.method = Impl[<<Top(t).obj, Ins(Top(t)).arg>>], SetTop(t, Advance(a)),
         UNCHANGED <<sig, code, throwtable, tramp, cache, dead>>
  PROVE  Steady(strict)'
<1>1. PICK f : f = Top(t)
  OBVIOUS
<1>2. /\ FrameOK(f, cache, strict) /\ f.ph = ph
      /\ f.m \in Methods /\ f.pc \in 1 .. Len(Program[f.m])
  BY <1>1, Here
<1>3. Ins(f).op = "invokeinterface" /\ f.ph \in InIntf \cup {"run"}
  BY <1>2 DEF FrameOK
<1>4. Impl[<<f.obj, Ins(f).arg>>] \in Methods
  BY <1>2, <1>3, AtIntf
<1>5. PICK b : b = Advance(a)
  OBVIOUS
<1>6. /\ b.kind = "code" /\ b.m = f.m /\ b.pc = f.pc + 1 /\ b.ph = "run"
      /\ b.bytepc = f.bytepc /\ b.obj = f.obj /\ b.method = Impl[<<f.obj, Ins(f).arg>>]
  BY <1>1, <1>5, Advanced
<1>7. b.bytepc = Ins(f).off
  BY <1>2, <1>3, <1>6 DEF FrameOK, ChainOps
<1>8. b.method \in Methods /\ b.method = Impl[<<b.obj, Ins(f).arg>>]
  BY <1>4, <1>6
<1>9. FrameOK(b, cache, strict)
  BY <1>2, <1>3, <1>6, <1>7, <1>8, AdvanceOK
<1>10. QED
  BY <1>5, <1>6, <1>9, SteadyFrame

LEMMA SteadyHit ==
  ASSUME Compiled, Machine, NEW strict, Steady(strict), NEW t \in Threads, CacheHit(t)
  PROVE  Steady(strict)'
<1>1. At(t, "hit") /\ UNCHANGED <<sig, code, throwtable, tramp, cache, dead>>
  BY DEF CacheHit
<1>2. PICK f : f = Top(t)
  OBVIOUS
<1>3. CodeRec(f) /\ FrameOK(f, cache, strict) /\ f.ph = "hit"
  BY <1>1, <1>2, Here
<1>4. cache[<<f.m, f.pc>>].method = Impl[<<f.obj, Ins(f).arg>>]
  BY <1>3 DEF FrameOK
<1>5. PICK x : x = Impl[<<f.obj, Ins(f).arg>>]
  OBVIOUS
<1>6. PICK a : a = [f EXCEPT !.method = x]
  OBVIOUS
<1>7. /\ CodeRec(a) /\ a.m = f.m /\ a.pc = f.pc /\ a.bytepc = f.bytepc /\ a.obj = f.obj
      /\ a.method = x
  BY <1>3, <1>6 DEF CodeRec, CodeFields
<1>8. SetTop(t, Advance(a))
  BY <1>2, <1>4, <1>5, <1>6 DEF CacheHit
<1>9. "hit" \in InIntf
  BY DEF InIntf
<1>10. QED
  BY <1>1, <1>2, <1>5, <1>7, <1>8, <1>9, SteadyBoundTo

LEMMA SteadyBound ==
  ASSUME Compiled, Machine, NEW strict, Steady(strict), NEW t \in Threads, Bound(t)
  PROVE  Steady(strict)'
<1>1. /\ At(t, "bound") /\ SetTop(t, Advance(Top(t)))
      /\ UNCHANGED <<sig, code, throwtable, tramp, cache, dead>>
  BY DEF Bound
<1>2. CodeRec(Top(t)) /\ FrameOK(Top(t), cache, strict) /\ Top(t).ph = "bound"
  BY <1>1, Here
<1>3. Top(t).method = Impl[<<Top(t).obj, Ins(Top(t)).arg>>]
  BY <1>2 DEF FrameOK
<1>4. "bound" \in InIntf
  BY DEF InIntf
<1>5. QED
  BY <1>1, <1>2, <1>3, <1>4, SteadyBoundTo

\* A step of t at the cache of its own site, which nobody else looks at
LEMMA SteadyCache ==
  ASSUME Compiled, Machine, Unraced, NEW strict, Steady(strict), NEW t \in Threads, NEW ph,
         At(t, ph), NEW g, g.kind = "code", FrameOK(g, cache', strict), SetTop(t, g),
         NEW s, s = <<Top(t).m, Top(t).pc>>, s \in Sites,
         \A x \in Sites : x # s => cache'[x] = cache[x],
         cache' = [x \in Sites |-> [key |-> cache'[x].key, method |-> cache'[x].method,
                                    guess |-> cache'[x].guess]],
         \/ g.ph = "write" /\ g.m = Top(t).m /\ g.pc = Top(t).pc
         \/ cache'[s].method = Impl[<<cache'[s].key, Program[s[1]][s[2]].arg>>],
         UNCHANGED <<sig, code, throwtable, tramp, dead>>
  PROVE  Steady(strict)'
<1>1. PICK z : z = stk[t]
  OBVIOUS
<1>2. PICK f : f = Top(t)
  OBVIOUS
<1>3. /\ f.kind = "code" /\ f.ph = ph /\ sig[t].name = None /\ z # << >> /\ StackOK(z)
      /\ f = z[Len(z)]
  BY <1>1, <1>2, Here
<1>4. PICK n \in Nat : n = Len(z) /\ n > 0
  BY <1>3, TopOK
<1>5. PICK r : r = [z EXCEPT ![Len(z)] = g]
  OBVIOUS
<1>6. stk' = [stk EXCEPT ![t] = r]
  BY <1>1, <1>5 DEF SetTop
<1>7. /\ IsSeq(r) /\ Len(r) = n /\ r[n] = g /\ \A k \in 1 .. n : k < n => r[k] = z[k]
  <2>1. IsSeq(z)
    BY <1>3 DEF StackOK
  <2>2. IsSeq(r)
    BY <1>3, <1>5, <2>1, PutTop
  <2>3. Len(r) = Len(z)
    BY <1>3, <1>5, <2>1, PutTop
  <2>4. r[Len(z)] = g
    BY <1>3, <1>5, <2>1, PutTop
  <2>5. \A k \in 1 .. Len(z) : k < Len(z) => r[k] = z[k]
    BY <1>3, <1>5, <2>1, PutTop
  <2>6. QED
    BY <1>4, <2>2, <2>3, <2>4, <2>5
<1>8. ASSUME NEW k \in 1 .. n, k # n
      PROVE  z[k].kind = "code" => z[k].ph \notin {"hit", "write"}
  BY <1>3, <1>4, <1>8, Outer
\* the frames of t
<1>9. Sound(t, r, tramp', cache', strict)
  <2>1. ASSUME NEW k \in 1 .. n PROVE Standing(t, tramp, cache', strict, r[k - 1], r[k])
    <3>1. CASE k = n
      BY <1>7, <3>1, CodeStanding
    <3>2. CASE k # n
      <4>1. k < n
        BY <3>2
      <4>2. \A j \in 1 .. k : r[j] = z[j]
        BY <1>7, <4>1
      <4>3. Sound(t, z, tramp, cache, strict)
        BY <1>1 DEF Steady
      <4>4. k <= Len(z) /\ k \in Nat /\ k \in 1 .. k
        BY <1>4
      <4>5. Standing(t, tramp, cache, strict, r[k - 1], r[k])
        BY <1>3, <4>2, <4>3, <4>4, SoundBelow
      <4>6. PICK h : h = r[k]
        OBVIOUS
      <4>7. h.kind = "code" => h.ph \notin {"hit", "write"}
        BY <1>7, <1>8, <3>2, <4>1, <4>6
      <4>8. h.kind = "code" => FrameOK(h, cache', strict)
        <5>1. SUFFICES ASSUME h.kind = "code" PROVE FrameOK(h, cache', strict)
          OBVIOUS
        <5>2. FrameOK(h, cache, strict) /\ h.ph # "hit" /\ h.ph # "write"
          BY <4>5, <4>6, <4>7, <5>1 DEF Standing
        <5>3. QED
          BY <5>2 DEF FrameOK
      <4>9. QED
        BY <4>5, <4>6, <4>8 DEF Standing
    <3>3. QED
      BY <3>1, <3>2
  <2>2. tramp' = tramp
    OBVIOUS
  <2>3. QED
    BY <1>7, <2>1, <2>2 DEF Sound
\* those of the others
<1>10. ASSUME NEW u \in Threads, u # t PROVE Sound(u, stk[u], tramp', cache', strict)
  <2>1. Sound(u, stk[u], tramp, cache, strict)
    BY DEF Steady
  <2>2. ASSUME NEW k \in 1 .. Len(stk[u]), stk[u][k].kind = "code", stk[u][k].ph \in {"hit", "write"}
        PROVE  cache'[<<stk[u][k].m, stk[u][k].pc>>] = cache[<<stk[u][k].m, stk[u][k].pc>>]
    <3>1. PICK h : h = stk[u][k]
      OBVIOUS
    <3>2. FrameOK(h, cache, strict)
      BY <2>1, <2>2, <3>1 DEF Sound, Standing
    <3>3. Ins(h).op = "invokeinterface" /\ h.ph \in InIntf \cup {"run"}
      BY <2>2, <3>1, <3>2 DEF FrameOK, InIntf
    <3>4. <<h.m, h.pc>> \in Sites
      BY <3>2, <3>3, AtIntf
    <3>5. n \in 1 .. Len(stk[t]) /\ stk[t][n] = f
      BY <1>1, <1>3, <1>4
    <3>6. h.m # f.m
      <4>1. stk[t][n].kind # "init" /\ stk[u][k].kind # "init" /\ t # u
        BY <1>3, <1>10, <2>2, <3>5
      <4>2. stk[t][n].m # stk[u][k].m
        BY <3>5, <4>1, NoRace
      <4>3. QED
        BY <3>1, <3>5, <4>2
    <3>7. <<h.m, h.pc>> # s
      BY <1>2, <3>6
    <3>8. QED
      BY <3>1, <3>4, <3>7
  <2>3. \A k \in 1 .. Len(stk[u]) :
          /\ stk[u][k].kind = "trampoline" /\ stk[u][k].ph = "push" =>
               tramp'[stk[u][k].m] = tramp[stk[u][k].m]
          /\ stk[u][k].kind = "code" /\ stk[u][k].ph \in {"hit", "write"} =>
               cache'[<<stk[u][k].m, stk[u][k].pc>>] = cache[<<stk[u][k].m, stk[u][k].pc>>]
    BY <2>2
  <2>4. QED
    BY <2>1, <2>3, SoundElsewhere
<1>11. stk'[t] = r /\ \A u \in Threads : u # t => stk'[u] = stk[u]
  BY <1>6 DEF Machine
\* the caches
<1>12. CacheOK'
  <2>1. ASSUME NEW x \in Sites, cache'[x].key # None, ~ Writing(x)'
        PROVE  cache'[x].method = Impl[<<cache'[x].key, Program[x[1]][x[2]].arg>>]
    <3>1. CASE x = s
      <4>1. ~ (g.ph = "write" /\ g.m = Top(t).m /\ g.pc = Top(t).pc)
        <5>1. SUFFICES ASSUME g.ph = "write", g.m = Top(t).m, g.pc = Top(t).pc PROVE FALSE
          OBVIOUS
        <5>2. n \in 1 .. Len(stk'[t]) /\ stk'[t][n] = g /\ <<g.m, g.pc>> = x
          BY <1>4, <1>7, <1>11, <3>1, <5>1
        <5>3. Writing(x)'
          BY <5>1, <5>2 DEF Writing
        <5>4. QED
          BY <2>1, <5>3
      <4>2. QED
        BY <3>1, <4>1
    <3>2. CASE x # s
      <4>1. ~ Writing(x)
        <5>1. SUFFICES ASSUME Writing(x) PROVE FALSE
          OBVIOUS
        <5>2. PICK u \in Threads : \E k \in 1 .. Len(stk[u]) :
                /\ stk[u][k].kind = "code" /\ stk[u][k].ph = "write"
                /\ <<stk[u][k].m, stk[u][k].pc>> = x
          BY <5>1 DEF Writing
        <5>3. CASE u # t
          <6>1. stk'[u] = stk[u]
            BY <1>11, <5>3
          <6>2. \E k \in 1 .. Len(stk'[u]) :
                  /\ stk'[u][k].kind = "code" /\ stk'[u][k].ph = "write"
                  /\ <<stk'[u][k].m, stk'[u][k].pc>> = x
            BY <5>2, <6>1
          <6>3. Writing(x)'
            BY <6>2 DEF Writing
          <6>4. QED
            BY <2>1, <6>3
        <5>4. CASE u = t
          <6>1. PICK k \in 1 .. n : z[k].kind = "code" /\ z[k].ph = "write" /\ <<z[k].m, z[k].pc>> = x
            BY <1>1, <1>4, <5>2, <5>4
          <6>2. k = n
            BY <1>8, <6>1
          <6>3. x = s
            BY <1>2, <1>3, <1>4, <6>1, <6>2
          <6>4. QED
            BY <3>2, <6>3
        <5>5. QED
          BY <5>3, <5>4
      <4>2. cache'[x] = cache[x]
        BY <3>2
      <4>3. QED
        BY <2>1, <4>1, <4>2 DEF Steady, CacheOK
    <3>3. QED
      BY <3>1, <3>2
  <2>2. Sites' = Sites
    BY DEF Sites
  <2>3. QED
    BY <2>1, <2>2 DEF CacheOK
<1>13. CodeOK' /\ TableOK' /\ tramp' = [m \in Methods |-> tramp'[m]] /\ ~ dead'
  BY DEF Steady, CodeOK, TableOK
<1>14. \A u \in Threads : u # t => (sig[u].name # None => Raised(sig[u], Top(u)))
  BY DEF Steady
<1>15. PICK q : q = sig[t]
  OBVIOUS
<1>16. sig' = [sig EXCEPT ![t] = q] /\ (q.name # None => Raised(q, r[Len(r)]))
  BY <1>3, <1>15 DEF Machine
<1>17. QED
  BY <1>6, <1>9, <1>10, <1>12, <1>13, <1>14, <1>16, Steadied, ZenonT(60)

LEMMA SteadyGet ==
  ASSUME Compiled, Machine, Unraced, NEW strict, Steady(strict), NEW t \in Threads,
         getInterfaceMethod(t)
  PROVE  Steady(strict)'
<1>1. At(t, "miss") /\ UNCHANGED <<sig, code, throwtable, tramp, dead>>
  BY DEF getInterfaceMethod
<1>2. PICK f : f = Top(t)
  OBVIOUS
<1>3. /\ CodeRec(f) /\ FrameOK(f, cache, strict) /\ f.ph = "miss" /\ Insn(t).arg = Ins(f).arg
  BY <1>1, <1>2, Here
<1>4. Ins(f).op = "invokeinterface" /\ f.ph \in InIntf \cup {"run"}
  BY <1>3 DEF FrameOK, InIntf
<1>5. /\ f.obj \in Classes /\ <<f.m, f.pc>> \in Sites
      /\ \E k \in DOMAIN Itable[f.obj] : Itable[f.obj][k] = Ins(f).arg
  BY <1>3, <1>4, AtIntf
<1>6. PICK s \in Sites : s = <<f.m, f.pc>>
  BY <1>5
<1>7. PICK k : k = Slot(f.obj, Ins(f).arg, cache[s].guess)
  OBVIOUS
<1>8. k # 0 /\ Itable[f.obj][k] = Ins(f).arg
  BY <1>5, <1>7, SlotFound
<1>9. PICK x : x = Impl[<<f.obj, Ins(f).arg>>]
  OBVIOUS
<1>10. PICK g : g = [f EXCEPT !.ph = "write", !.method = x]
  OBVIOUS
<1>11. /\ cache' = [cache EXCEPT ![s].guess = k - 1, ![s].key = f.obj]
       /\ SetTop(t, [f EXCEPT !.ph = "write", !.method = Impl[<<f.obj, Itable[f.obj][k]>>]])
  BY <1>2, <1>3, <1>6, <1>7, <1>8 DEF getInterfaceMethod
<1>12. SetTop(t, g)
  BY <1>8, <1>9, <1>10, <1>11
<1>13. /\ g.kind = "code" /\ g.ph = "write" /\ g.m = f.m /\ g.pc = f.pc /\ g.bytepc = f.bytepc
       /\ g.obj = f.obj /\ g.method = x
  BY <1>3, <1>10 DEF CodeRec, CodeFields
<1>14. Ins(g) = Ins(f)
  BY <1>13 DEF Ins
<1>15. cache = [y \in Sites |-> [key |-> cache[y].key, method |-> cache[y].method,
                                 guess |-> cache[y].guess]]
  BY DEF Steady, CacheOK
<1>16. /\ cache'[s].key = f.obj /\ \A y \in Sites : y # s => cache'[y] = cache[y]
       /\ cache' = [y \in Sites |-> [key |-> cache'[y].key, method |-> cache'[y].method,
                                     guess |-> cache'[y].guess]]
  <2>1. PICK j : j = k - 1
    OBVIOUS
  <2>2. cache' = [cache EXCEPT ![s].guess = j, ![s].key = f.obj]
    BY <1>11, <2>1
  <2>3. cache'[s] = [key |-> f.obj, method |-> cache[s].method, guess |-> j]
    <3>1. PICK c : c = [cache EXCEPT ![s].guess = j]
      OBVIOUS
    <3>2. /\ c[s] = [key |-> cache[s].key, method |-> cache[s].method, guess |-> j]
          /\ c = [y \in Sites |-> c[y]]
      <4>1. PICK o : o = cache[s]
        OBVIOUS
      <4>2. o = [key |-> o.key, method |-> o.method, guess |-> o.guess]
        BY <1>6, <1>15, <4>1
      <4>3. c[s] = [o EXCEPT !.guess = j]
        BY <1>6, <1>15, <3>1, <4>1
      <4>4. c[s] = [key |-> o.key, method |-> o.method, guess |-> j]
        BY <4>2, <4>3
      <4>5. c = [y \in Sites |-> c[y]]
        BY <1>15, <3>1
      <4>6. QED
        BY <4>1, <4>4, <4>5
    <3>3. cache' = [c EXCEPT ![s].key = f.obj]
      BY <2>2, <3>1
    <3>4. QED
      BY <1>6, <3>2, <3>3
  <2>4. \A y \in Sites : y # s => cache'[y] = cache[y]
    BY <1>15, <2>2
  <2>5. cache' = [y \in Sites |-> cache'[y]]
    BY <1>15, <2>2
  <2>6. ASSUME NEW y \in Sites
        PROVE  cache'[y] = [key |-> cache'[y].key, method |-> cache'[y].method,
                            guess |-> cache'[y].guess]
    BY <1>15, <2>3, <2>4
  <2>7. QED
    BY <2>3, <2>4, <2>5, <2>6
<1>17. Carried(g)
  BY <1>3, <1>4, <1>13, <1>14 DEF FrameOK, Carried
<1>18. FrameOK(g, cache', strict)
  BY <1>3, <1>4, <1>6, <1>9, <1>13, <1>14, <1>16, <1>17 DEF FrameOK, InIntf
<1>19. \/ g.ph = "write" /\ g.m = Top(t).m /\ g.pc = Top(t).pc
       \/ cache'[s].method = Impl[<<cache'[s].key, Program[s[1]][s[2]].arg>>]
  BY <1>2, <1>13
<1>20. s = <<Top(t).m, Top(t).pc>> /\ s \in Sites /\ g.kind = "code"
  BY <1>2, <1>6, <1>13
<1>21. QED
  BY <1>1, <1>12, <1>16, <1>18, <1>19, <1>20, SteadyCache

LEMMA SteadyWrite ==
  ASSUME Compiled, Machine, Unraced, NEW strict, Steady(strict), NEW t \in Threads, CacheWrite(t)
  PROVE  Steady(strict)'
<1>1. At(t, "write") /\ UNCHANGED <<sig, code, throwtable, tramp, dead>>
  BY DEF CacheWrite
<1>2. PICK f : f = Top(t)
  OBVIOUS
<1>3. CodeRec(f) /\ FrameOK(f, cache, strict) /\ f.ph = "write"
  BY <1>1, <1>2, Here
<1>4. Ins(f).op = "invokeinterface" /\ f.ph \in InIntf \cup {"run"}
  BY <1>3 DEF FrameOK, InIntf
<1>5. <<f.m, f.pc>> \in Sites
  BY <1>3, <1>4, AtIntf
<1>6. PICK s \in Sites : s = <<f.m, f.pc>>
  BY <1>5
<1>7. f.method = Impl[<<f.obj, Ins(f).arg>>] /\ cache[s].key = f.obj
  BY <1>3, <1>6 DEF FrameOK
<1>8. PICK g : g = [f EXCEPT !.ph = "bound"]
  OBVIOUS
<1>9. SetTop(t, g) /\ cache' = [cache EXCEPT ![s].method = f.method]
  BY <1>2, <1>6, <1>8 DEF CacheWrite
<1>10. /\ g.kind = "code" /\ g.ph = "bound" /\ g.m = f.m /\ g.pc = f.pc /\ g.bytepc = f.bytepc
       /\ g.obj = f.obj /\ g.method = f.method
  BY <1>3, <1>8 DEF CodeRec, CodeFields
<1>11. Ins(g) = Ins(f)
  BY <1>10 DEF Ins
<1>12. cache = [y \in Sites |-> [key |-> cache[y].key, method |-> cache[y].method,
                                 guess |-> cache[y].guess]]
  BY DEF Steady, CacheOK
<1>13. /\ cache'[s].method = Impl[<<cache'[s].key, Program[s[1]][s[2]].arg>>]
       /\ \A y \in Sites : y # s => cache'[y] = cache[y]
       /\ cache' = [y \in Sites |-> [key |-> cache'[y].key, method |-> cache'[y].method,
                                     guess |-> cache'[y].guess]]
  <2>1. cache'[s] = [key |-> cache[s].key, method |-> f.method, guess |-> cache[s].guess]
    BY <1>9, <1>12
  <2>2. \A y \in Sites : y # s => cache'[y] = cache[y]
    BY <1>9, <1>12
  <2>3. cache' = [y \in Sites |-> cache'[y]]
    BY <1>9, <1>12
  <2>4. ASSUME NEW y \in Sites
        PROVE  cache'[y] = [key |-> cache'[y].key, method |-> cache'[y].method,
                            guess |-> cache'[y].guess]
    BY <1>12, <2>1, <2>2
  <2>5. Program[s[1]][s[2]].arg = Ins(f).arg
    BY <1>6 DEF Ins
  <2>6. cache'[s].method = Impl[<<cache'[s].key, Program[s[1]][s[2]].arg>>]
    BY <1>7, <2>1, <2>5
  <2>7. QED
    BY <2>2, <2>3, <2>4, <2>6
<1>14. Carried(g)
  BY <1>3, <1>4, <1>10, <1>11 DEF FrameOK, Carried
<1>15. FrameOK(g, cache', strict)
  BY <1>3, <1>4, <1>7, <1>10, <1>11, <1>14 DEF FrameOK, InIntf
<1>16. s = <<Top(t).m, Top(t).pc>>
  BY <1>2, <1>6
<1>17. QED
  BY <1>1, <1>6, <1>9, <1>10, <1>13, <1>15, <1>16, SteadyCache, ZenonT(60)

-----------------------------------------------------------------------------
(* Calls and returns.                                                      *)

LEMMA SteadyVarspace ==
  ASSUME Compiled, Machine, NEW strict, Steady(strict), NEW t \in Threads, inv_vir_varspace(t)
  PROVE  Steady(strict)'
<1>1. At(t, "run") /\ Insn(t).op = "inv_vir_varspace"
  BY DEF inv_vir_varspace
<1>2. PICK f : f = Top(t)
  OBVIOUS
<1>3. /\ CodeRec(f) /\ FrameOK(f, cache, strict) /\ Ins(f).op = "inv_vir_varspace" /\ f.ph = "run"
      /\ f.m \in Methods /\ f.pc \in 1 .. Len(Program[f.m])
  BY <1>1, <1>2, Here
<1>4. f.method \in Methods /\ f.method = Impl[<<f.obj, Program[f.m][f.pc - 1].arg>>]
  BY <1>3 DEF FrameOK, Carried
<1>5. f.method # None
  BY <1>4, LengthFacts
<1>6. SetTop(t, Advance(f)) /\ UNCHANGED <<sig, code, throwtable, tramp, cache, dead>>
  BY <1>2, <1>5 DEF inv_vir_varspace
<1>7. PICK b : b = Advance(f)
  OBVIOUS
<1>8. /\ b.kind = "code" /\ b.m = f.m /\ b.pc = f.pc + 1 /\ b.ph = "run"
      /\ b.bytepc = f.bytepc /\ b.method = f.method /\ b.obj = f.obj
  BY <1>3, <1>7, Advanced
<1>9. b.bytepc = Ins(f).off
  BY <1>3, <1>8 DEF FrameOK, ChainOps
<1>10. b.method \in Methods /\ b.method = Impl[<<b.obj, Program[f.m][f.pc - 1].arg>>]
  BY <1>4, <1>8
<1>11. FrameOK(b, cache, strict)
  BY <1>3, <1>8, <1>9, <1>10, AdvanceOK
<1>12. QED
  BY <1>1, <1>6, <1>7, <1>8, <1>11, SteadyFrame

\* A method starts at its first instruction, in the middle of no call.
LEMMA FreshOK ==
  ASSUME Compiled, NEW m \in Methods, NEW C, NEW strict
  PROVE  FrameOK(Frame(m), C, strict) /\ Frame(m).kind = "code"
<1>1. PICK f : f = Frame(m)
  OBVIOUS
<1>2. f.kind = "code" /\ f.m = m /\ f.pc = 1 /\ f.ph = "run"
  BY <1>1 DEF Frame
<1>3. 1 \in 1 .. Len(Program[m])
  <2>1. PICK n \in Nat : n = Len(Program[m]) /\ n \in 1 .. MaxInsns /\ MaxInsns \in Nat
    BY MethodFacts
  <2>2. QED
    BY <2>1
<1>4. Program[m][1].op \notin ChainOps
  BY <1>3, InsnFacts DEF Chained
<1>5. Ins(f).op \notin ChainOps
  BY <1>2, <1>4 DEF Ins
<1>6. Carried(f)
  BY <1>5 DEF Carried, ChainOps
<1>7. FrameOK(f, C, strict)
  BY <1>2, <1>3, <1>5, <1>6 DEF FrameOK, InIntf
<1>8. QED
  BY <1>1, <1>2, <1>7

\* The innermost frame is left for a new one.
LEMMA SoundCall ==
  ASSUME NEW t, NEW s, NEW T, NEW C, NEW strict, Sound(t, s, T, C, strict), StackOK(s), s # << >>,
         NEW f, Standing(t, T, C, strict, s[Len(s) - 1], f), f.kind = s[Len(s)].kind,
         Shaped(f), Registers(f), NEW g, Standing(t, T, C, strict, f, g),
         NEW r, r = Append(Append(SubSeq(s, 1, Len(s) - 1), f), g)
  PROVE  Sound(t, r, T, C, strict)
<1>1. PICK b : b = SubSeq(s, 1, Len(s) - 1)
  OBVIOUS
<1>2. PICK z : z = Append(b, f)
  OBVIOUS
<1>3. PICK n \in Nat : n = Len(s) /\ n > 0
  BY TopOK
<1>4. IsSeq(s)
  BY DEF StackOK
<1>5. IsSeq(b)
  BY <1>1, <1>4, Pop
<1>6. Len(b) = Len(s) - 1
  BY <1>1, <1>4, Pop
<1>7. \A k \in 1 .. Len(b) : b[k] = s[k]
  BY <1>1, <1>4, Pop
<1>8. Len(z) = Len(b) + 1
  BY <1>2, <1>5, Push
<1>9. z[Len(b) + 1] = f
  BY <1>2, <1>5, Push
<1>10. \A k \in 1 .. Len(b) : z[k] = b[k]
  BY <1>2, <1>5, Push
<1>11. PICK l \in Nat : l = Len(b) /\ l = n - 1
  <2>1. n - 1 \in Nat
    BY <1>3
  <2>2. Len(b) = n - 1
    BY <1>3, <1>6
  <2>3. QED
    BY <2>1, <2>2
<1>12. Len(z) = Len(s)
  BY <1>3, <1>6, <1>8
<1>13. z[Len(s)] = f
  BY <1>3, <1>9, <1>11
<1>14. \A k \in 1 .. Len(s) : k < Len(s) => z[k] = s[k]
  <2>1. ASSUME NEW k \in 1 .. n, k < n PROVE z[k] = s[k]
    <3>1. k \in 1 .. l
      BY <1>11, <2>1
    <3>2. QED
      BY <1>7, <1>10, <1>11, <3>1
  <2>2. QED
    BY <1>3, <2>1
<1>15. Sound(t, z, T, C, strict)
  BY <1>12, <1>13, <1>14, SoundSet
<1>16. StackOK(z)
  BY <1>1, <1>2, SwapFrame
<1>17. z # << >>
  BY <1>1, <1>2, SwapFrame
<1>18. z[Len(z)] = f
  BY <1>1, <1>2, SwapFrame
<1>19. Standing(t, T, C, strict, z[Len(z)], g)
  BY <1>18
<1>20. r = Append(z, g)
  BY <1>1, <1>2
<1>21. QED
  BY <1>15, <1>16, <1>17, <1>19, <1>20, SoundPush

\* A step that changes t's stack only
LEMMA SteadyStack ==
  ASSUME Machine, NEW strict, Steady(strict), NEW t \in Threads, sig[t].name = None, stk[t] # << >>,
         Top(t).kind = "code" => Top(t).ph # "write", NEW r, stk' = [stk EXCEPT ![t] = r],
         Sound(t, r, tramp, cache, strict), UNCHANGED <<sig, code, throwtable, tramp, cache, dead>>
  PROVE  Steady(strict)'
<1>1. StackOK(stk[t]) /\ Top(t) = stk[t][Len(stk[t])]
  BY DEF Machine, Top
<1>2. NoWriter(stk[t])
  BY <1>1, Writers
<1>3. PICK q : q = sig[t]
  OBVIOUS
<1>4. sig' = [sig EXCEPT ![t] = q] /\ (q.name # None => Raised(q, r[Len(r)]))
  BY <1>3 DEF Machine
<1>5. QED
  BY <1>2, <1>4, SteadyMove

LEMMA SteadyInvoke ==
  ASSUME Compiled, Machine, NEW strict, Steady(strict), NEW t \in Threads, invoke_core(t)
  PROVE  Steady(strict)'
<1>1. At(t, "run") /\ Insn(t).op = "invoke_core"
  BY DEF invoke_core
<1>2. PICK f : f = Top(t)
  OBVIOUS
<1>3. /\ CodeRec(f) /\ FrameOK(f, cache, strict) /\ Ins(f).op = "invoke_core" /\ f.ph = "run"
      /\ sig[t].name = None /\ stk[t] # << >> /\ StackOK(stk[t]) /\ f = stk[t][Len(stk[t])]
      /\ f.kind = "code"
  BY <1>1, <1>2, Here
<1>4. CASE Raise(t, [Signal("SEGV", Eip(t)) EXCEPT !.margin = TRUE]) /\ UNCHANGED stk
  <2>1. PICK q : q = [Signal("SEGV", Eip(t)) EXCEPT !.margin = TRUE]
    OBVIOUS
  <2>2. q.name = "SEGV" /\ q.lib = 0 /\ q.off = Eip(t)
    BY <2>1 DEF Signal
  <2>3. Ins(Top(t)).op \in SignalOps
    BY <1>2, <1>3 DEF SignalOps
  <2>4. QED
    BY <1>1, <1>4, <2>1, <2>2, <2>3, SteadySegv
<1>5. CASE /\ stk' = [stk EXCEPT ![t] = Append(Append(Below(t), [Top(t) EXCEPT !.ph = "call"]),
                                               Frame(Top(t).method))]
           /\ UNCHANGED <<sig, code, throwtable, tramp, cache, dead>>
  <2>1. PICK g : g = [f EXCEPT !.ph = "call"]
    OBVIOUS
  <2>2. PICK h : h = Frame(f.method)
    OBVIOUS
  <2>3. PICK s : s = stk[t]
    OBVIOUS
  <2>4. PICK r : r = Append(Append(SubSeq(s, 1, Len(s) - 1), g), h)
    OBVIOUS
  <2>5. stk' = [stk EXCEPT ![t] = r]
    BY <1>2, <1>5, <2>1, <2>2, <2>3, <2>4 DEF Below
  <2>6. f.method \in Methods
    BY <1>3 DEF FrameOK, Carried
  <2>7. FrameOK(h, cache, strict) /\ h.kind = "code"
    BY <2>2, <2>6, FreshOK
  <2>8. CodeRec(g) /\ g.ecx = f.ecx /\ g.ph = "call" /\ g.kind = "code" /\ g.m = f.m /\ g.pc = f.pc
        /\ g.bytepc = f.bytepc
    BY <1>3, <2>1 DEF CodeRec, CodeFields
  <2>9. Ins(g) = Ins(f)
    BY <2>8 DEF Ins
  <2>10. FrameOK(g, cache, strict)
    BY <1>3, <2>8, <2>9 DEF FrameOK, InIntf
  <2>11. Registers(f)
    BY <1>1, <1>2, AtFacts
  <2>12. g.ecx = 0
    BY <1>3, <2>8, <2>11 DEF Registers
  <2>13. Shaped(g) /\ Registers(g)
    BY <2>8, <2>12, PlainFrame
  <2>14. Standing(t, tramp, cache, strict, s[Len(s) - 1], g)
    BY <2>8, <2>10, CodeStanding
  <2>15. Standing(t, tramp, cache, strict, g, h)
    BY <2>7, CodeStanding
  <2>16. Sound(t, s, tramp, cache, strict) /\ StackOK(s) /\ s # << >> /\ g.kind = s[Len(s)].kind
    BY <1>3, <2>3, <2>8 DEF Steady
  <2>17. Sound(t, r, tramp, cache, strict)
    BY <2>4, <2>13, <2>14, <2>15, <2>16, SoundCall
  <2>18. Top(t).kind = "code" => Top(t).ph # "write"
    BY <1>2, <1>3
  <2>19. QED
    BY <1>3, <1>5, <2>5, <2>17, <2>18, SteadyStack
<1>6. QED
  BY <1>4, <1>5 DEF invoke_core

\* A method returns, with or without an exception.
LEMMA SoundReturned ==
  ASSUME Compiled, NEW t, NEW s, NEW T, NEW C, NEW strict, Sound(t, s, T, C, strict), StackOK(s),
         s # << >>, s[Len(s)].kind = "code", NEW p \in BOOLEAN, NEW r, r = Returned(s, p)
  PROVE  Sound(t, r, T, C, strict)
<1>1. PICK b : b = SubSeq(s, 1, Len(s) - 1)
  OBVIOUS
<1>2. Sound(t, b, T, C, strict)
  BY <1>1, SoundPop
<1>3. StackOK(b) /\ IsSeq(b) /\ (b # << >> => Above(b[Len(b)], s[Len(s)]))
  BY <1>1, PopFrame DEF StackOK
<1>4. CASE Len(b) = 0
  BY <1>1, <1>2, <1>4 DEF Returned
<1>5. CASE Len(b) # 0
  <2>1. b # << >>
    BY <1>3, <1>5, SeqFacts
  <2>2. PICK a : a = b[Len(b)]
    OBVIOUS
  <2>3. \/ a.kind = "code" /\ a.ph = "call"
        \/ a.kind = "init"
    BY <1>3, <2>1, <2>2 DEF Above
  <2>4. Shaped(a) /\ Standing(t, T, C, strict, b[Len(b) - 1], a)
    BY <1>2, <1>3, <2>1, <2>2, TopOK, SoundTop
  <2>5. PICK f : f = IF a.kind = "init" THEN [a EXCEPT !.ph = "over"]
                     ELSE IF p THEN [a EXCEPT !.ph = "exc", !.method = None, !.obj = None]
                     ELSE Advance([a EXCEPT !.method = None, !.obj = None])
    OBVIOUS
  <2>6. r = [b EXCEPT ![Len(b)] = f]
    BY <1>1, <1>5, <2>2, <2>5 DEF Returned
  <2>7. Standing(t, T, C, strict, b[Len(b) - 1], f) /\ f.kind = a.kind
    <3>1. CASE a.kind = "init"
      <4>1. InitRec(a) /\ a.c \in Classes
        BY <2>4, <3>1, Kinds DEF Standing
      <4>2. f = [a EXCEPT !.ph = "over"]
        BY <2>5, <3>1
      <4>3. f.kind = "init" /\ f.c = a.c
        BY <4>1, <4>2 DEF InitRec, InitFields
      <4>4. QED
        BY <3>1, <4>1, <4>3 DEF Standing
    <3>2. CASE a.kind = "code" /\ a.ph = "call"
      <4>1. CodeRec(a) /\ FrameOK(a, C, strict) /\ a.kind # "init"
        BY <2>4, <3>2, Kinds DEF Standing
      <4>2. /\ a.m \in Methods /\ a.pc \in 1 .. Len(Program[a.m]) /\ Ins(a).op = "invoke_core"
            /\ a.bytepc = Ins(a).off
        BY <3>2, <4>1 DEF FrameOK, ChainOps
      <4>3. f.kind = "code" /\ FrameOK(f, C, strict)
        <5>1. CASE p
          <6>1. f = [a EXCEPT !.ph = "exc", !.method = None, !.obj = None]
            BY <2>5, <4>1, <5>1
          <6>2. f.kind = "code" /\ f.ph = "exc" /\ f.m = a.m /\ f.pc = a.pc /\ f.bytepc = a.bytepc
            BY <4>1, <6>1 DEF CodeRec, CodeFields
          <6>3. Ins(f) = Ins(a)
            BY <6>2 DEF Ins
          <6>4. QED
            BY <4>2, <6>2, <6>3 DEF FrameOK, InIntf
        <5>2. CASE ~ p
          <6>1. PICK g : g = [a EXCEPT !.method = None, !.obj = None]
            OBVIOUS
          <6>2. f = Advance(g)
            BY <2>5, <4>1, <5>2, <6>1
          <6>3. CodeRec(g) /\ g.m = a.m /\ g.pc = a.pc
            BY <4>1, <6>1 DEF CodeRec, CodeFields
          <6>4. f.kind = "code" /\ f.m = a.m /\ f.pc = a.pc + 1 /\ f.ph = "run"
            BY <6>2, <6>3, Advanced
          <6>5. Ins(a).op \notin Callers /\ Ins(a).op \notin {"return", "athrow"}
            BY <4>2 DEF Callers
          <6>6. FrameOK(f, C, strict)
            BY <4>2, <6>4, <6>5, AdvanceOK
          <6>7. QED
            BY <6>4, <6>6
        <5>3. QED
          BY <5>1, <5>2
      <4>4. QED
        BY <3>2, <4>3, CodeStanding
    <3>3. QED
      BY <2>3, <3>1, <3>2
  <2>8. Len(r) = Len(b)
    BY <1>3, <2>1, <2>6, PutTop
  <2>9. r[Len(b)] = f
    BY <1>3, <2>1, <2>6, PutTop
  <2>10. \A k \in 1 .. Len(b) : k < Len(b) => r[k] = b[k]
    BY <1>3, <2>1, <2>6, PutTop
  <2>11. f.kind = b[Len(b)].kind
    BY <2>2, <2>7
  <2>12. QED
    BY <1>2, <1>3, <2>1, <2>7, <2>8, <2>9, <2>10, <2>11, SoundSet
<1>6. QED
  BY <1>4, <1>5

LEMMA SteadyReturn ==
  ASSUME Compiled, Machine, NEW strict, Steady(strict), NEW t \in Threads, return(t)
  PROVE  Steady(strict)'
<1>1. At(t, "run") /\ UNCHANGED <<sig, code, throwtable, tramp, cache, dead>>
  BY DEF return
<1>2. PICK s : s = stk[t]
  OBVIOUS
<1>3. /\ sig[t].name = None /\ s # << >> /\ StackOK(s) /\ s[Len(s)].kind = "code"
      /\ Top(t).ph = "run"
  BY <1>1, <1>2, Here
<1>4. PICK r : r = Returned(s, FALSE)
  OBVIOUS
<1>5. stk' = [stk EXCEPT ![t] = r]
  BY <1>2, <1>4 DEF return
<1>6. Sound(t, s, tramp, cache, strict)
  BY <1>2 DEF Steady
<1>7. Sound(t, r, tramp, cache, strict)
  BY <1>3, <1>4, <1>6, SoundReturned
<1>8. QED
  BY <1>1, <1>2, <1>3, <1>5, <1>7, SteadyStack

\* The handler an exception is sent to is one of the method's.
LEMMA CatchFound ==
  ASSUME NEW m, NEW b, NEW e, DOMAIN Handlers[m] \subseteq Nat, searchCatchFrame(m, b, e) # 0
  PROVE  searchCatchFrame(m, b, e) \in DOMAIN Handlers[m]
<1> DEFINE fits(cf) == /\ cf.from <= b /\ b < cf.to
                       /\ cf.type = "any" \/ cf.type \in Superclasses(e)
           found == {k \in DOMAIN Handlers[m] : fits(Handlers[m][k])}
           first == CHOOSE k \in found : \A j \in found : k <= j
<1>1. searchCatchFrame(m, b, e) = IF found = {} THEN 0 ELSE first
  BY Zenon DEF searchCatchFrame
<1>2. found # {} /\ found \in SUBSET Nat
  <2>1. found # {}
    BY <1>1
  <2>2. found \in SUBSET Nat
    OBVIOUS
  <2>3. QED
    BY <2>1, <2>2
<1> HIDE DEF fits
<1>3. found \subseteq DOMAIN Handlers[m]
  OBVIOUS
<1> HIDE DEF found
<1>4. \E k \in found : \A j \in found : k <= j
  BY <1>2, LeastNatural
<1>5. first \in found
  BY <1>4
<1>6. QED
  BY <1>1, <1>2, <1>3, <1>5

LEMMA SteadyHandler ==
  ASSUME Compiled, Machine, NEW strict, Steady(strict), NEW t \in Threads, exceptionHandler(t)
  PROVE  Steady(strict)'
<1>1. At(t, "exc") /\ UNCHANGED <<sig, code, throwtable, tramp, cache, dead>>
  BY DEF exceptionHandler
<1>2. PICK s, f : s = stk[t] /\ f = Top(t)
  OBVIOUS
<1>3. /\ sig[t].name = None /\ s # << >> /\ StackOK(s) /\ s[Len(s)].kind = "code"
      /\ f.ph = "exc" /\ CodeRec(f) /\ f.m \in Methods
  BY <1>1, <1>2, Here
<1>4. CASE stk' = [stk EXCEPT ![t] = Returned(@, TRUE)]
  <2>1. PICK r : r = Returned(s, TRUE)
    OBVIOUS
  <2>2. stk' = [stk EXCEPT ![t] = r]
    BY <1>2, <1>4, <2>1
  <2>3. Sound(t, s, tramp, cache, strict)
    BY <1>2 DEF Steady
  <2>4. Sound(t, r, tramp, cache, strict)
    BY <1>3, <2>1, <2>3, SoundReturned
  <2>5. Top(t).ph # "write"
    BY <1>2, <1>3
  <2>6. QED
    BY <1>1, <1>2, <1>3, <2>2, <2>4, <2>5, SteadyStack
<1>5. ASSUME NEW b, NEW e, NEW k, k = searchCatchFrame(f.m, b, e), k # 0,
             NEW x, x = Handlers[f.m][k].at, NEW g, g.kind = "code", g.m = f.m, g.pc = x,
             g.ph = "run", SetTop(t, g)
      PROVE  Steady(strict)'
  <2>1. CompiledMethod(f.m)
    BY <1>3 DEF Compiled
  <2>2. DOMAIN Handlers[f.m] \subseteq Nat
    BY <2>1 DEF CompiledMethod
  <2>3. k \in DOMAIN Handlers[f.m]
    BY <1>5, <2>2, CatchFound
  <2>4. x \in 1 .. Len(Program[f.m]) /\ Program[f.m][x].op \notin ChainOps
    BY <1>5, <2>1, <2>3 DEF CompiledMethod
  <2>6. Ins(g).op \notin ChainOps
    BY <1>5, <2>4 DEF Ins
  <2>7. Carried(g)
    BY <2>6 DEF Carried, ChainOps
  <2>8. FrameOK(g, cache, strict)
    BY <1>3, <1>5, <2>4, <2>6, <2>7 DEF FrameOK, InIntf
  <2>9. QED
    BY <1>1, <1>5, <2>8, SteadyFrame
<1>6. QED
  <2>1. PICK e : e = IF exc[t] = None THEN "Unknown" ELSE exc[t]
    OBVIOUS
  <2>2. \E b : LET k == searchCatchFrame(f.m, b, e)
              IN IF k = 0
                   THEN stk' = [stk EXCEPT ![t] = Returned(@, TRUE)]
                   ELSE SetTop(t, [f EXCEPT !.pc = Handlers[f.m][k].at, !.ph = "run"])
    BY <1>2, <2>1 DEF exceptionHandler
  <2>3. PICK b : LET k == searchCatchFrame(f.m, b, e)
              IN IF k = 0
                   THEN stk' = [stk EXCEPT ![t] = Returned(@, TRUE)]
                   ELSE SetTop(t, [f EXCEPT !.pc = Handlers[f.m][k].at, !.ph = "run"])
    BY <2>2
  <2>4. PICK k : k = searchCatchFrame(f.m, b, e)
    OBVIOUS
  <2>5. CASE k = 0
    BY <1>4, <2>3, <2>4, <2>5
  <2>6. CASE k # 0
    <3>1. SetTop(t, [f EXCEPT !.pc = Handlers[f.m][k].at, !.ph = "run"])
      BY <2>3, <2>4, <2>6
    <3>2. PICK x, g : x = Handlers[f.m][k].at /\ g = [f EXCEPT !.pc = x, !.ph = "run"]
      OBVIOUS
    <3>3. g.kind = "code" /\ g.m = f.m /\ g.pc = x /\ g.ph = "run"
      BY <1>3, <3>2 DEF CodeRec, CodeFields
    <3>4. SetTop(t, g)
      BY <3>1, <3>2
    <3>5. QED
      BY <1>5, <2>4, <2>6, <3>2, <3>3, <3>4
  <2>7. QED
    BY <2>5, <2>6

-----------------------------------------------------------------------------
(* The signal handler.                                                     *)

\* A thread that has been sent a signal
LEMMA Signalled ==
  ASSUME Compiled, Machine, NEW strict, Steady(strict), NEW t \in Threads, sig[t].name # None,
         NEW f, f = Top(t), NEW found \in Located(t)
  PROVE  /\ f.ph # "write" /\ found.frame = Len(stk[t]) /\ found.entry = Entry(Ins(f), f.pc)
         /\ NoWriter(stk[t])
<1>1. /\ stk[t] # << >> /\ f.kind = "code" /\ f = stk[t][Len(stk[t])] /\ StackOK(stk[t])
      /\ Raised(sig[t], f)
  BY RaisedFacts
<1>2. SignalOK(sig[t], stk[t])
  BY DEF Machine
<1>3. f.ph # "write"
  BY <1>1, <1>2 DEF SignalOK, Raised
<1>4. NoWriter(stk[t])
  BY <1>1, <1>3, Writers
<1>5. Located(t) = {[frame |-> Len(stk[t]), entry |-> Entry(Ins(f), f.pc)]}
  BY LocatedIs
<1>6. found = [frame |-> Len(stk[t]), entry |-> Entry(Ins(f), f.pc)]
  BY <1>5
<1>7. QED
  BY <1>3, <1>4, <1>6

LEMMA Silent ==
  NoSignal.name = None
BY DEF NoSignal, Signal

LEMMA SteadyThrow ==
  ASSUME Compiled, Machine, NEW strict, Steady(strict), NEW t \in Threads, sig[t].name # None,
         NEW found \in Located(t), NEW e, ToHandler(t, found, e),
         sig' = [sig EXCEPT ![t] = NoSignal]
  PROVE  Steady(strict)'
<1>1. PICK s, f : s = stk[t] /\ f = Top(t)
  OBVIOUS
<1>2. /\ CodeRec(f) /\ FrameOK(f, cache, strict) /\ s # << >> /\ f.kind = "code"
      /\ f = s[Len(s)] /\ StackOK(s)
  BY <1>1, RaisedFacts
<1>3. PICK n \in Nat : n = Len(s) /\ n > 0
  BY <1>2, TopOK
<1>4. found.frame = n /\ found.entry.byteoff = Ins(f).off /\ NoWriter(stk[t])
  <2>1. found.frame = n /\ found.entry = Entry(Ins(f), f.pc) /\ NoWriter(stk[t])
    BY <1>1, <1>3, Signalled
  <2>2. QED
    BY <2>1 DEF Entry
<1>5. PICK off : off = Ins(f).off
  OBVIOUS
<1>6. PICK g : g = [f EXCEPT !.ph = "exc", !.bytepc = off, !.method = None, !.obj = None,
                             !.v1 = 0, !.eax = 0, !.ecx = 0, !.edx = 0]
  OBVIOUS
<1>7. g.kind = "code" /\ g.ph = "exc" /\ g.m = f.m /\ g.pc = f.pc /\ g.bytepc = off
  BY <1>2, <1>6 DEF CodeRec, CodeFields
<1>8. Ins(g) = Ins(f)
  BY <1>7 DEF Ins
<1>9. FrameOK(g, cache, strict)
  BY <1>2, <1>5, <1>7, <1>8 DEF FrameOK, InIntf
<1>10. PICK r : r = [k \in 1 .. n |-> IF k < n THEN s[k] ELSE g]
  OBVIOUS
<1>11. r = [k \in 1 .. n |->
             IF k < n THEN s[k]
             ELSE [s[k] EXCEPT !.ph = "exc", !.bytepc = off, !.method = None, !.obj = None,
                               !.v1 = 0, !.eax = 0, !.ecx = 0, !.edx = 0]]
  <2>1. ASSUME NEW k \in 1 .. n, ~ (k < n) PROVE k = n
    BY <1>3, <2>1
  <2>2. f = s[n]
    BY <1>2, <1>3
  <2>3. QED
    BY <1>6, <1>10, <2>1, <2>2, Zenon
<1>12. stk' = [stk EXCEPT ![t] = r]
  BY <1>1, <1>4, <1>5, <1>11 DEF ToHandler
<1>13. Len(r) = n /\ r[n] = g /\ \A k \in 1 .. n : k < n => r[k] = s[k]
  <2>1. r = [k \in 1 .. n |-> r[k]]
    BY <1>10
  <2>2. Len(r) = n
    BY <2>1, FunSeq
  <2>3. n \in 1 .. n /\ ~ (n < n)
    BY <1>3
  <2>4. QED
    BY <1>10, <2>2, <2>3
<1>14. Standing(t, tramp, cache, strict, s[Len(s) - 1], g)
  BY <1>7, <1>9, CodeStanding
<1>15. Sound(t, s, tramp, cache, strict)
  BY <1>1 DEF Steady
<1>16. /\ Len(r) = Len(s) /\ r[Len(s)] = g /\ g.kind = s[Len(s)].kind
       /\ \A k \in 1 .. Len(s) : k < Len(s) => r[k] = s[k]
  BY <1>2, <1>3, <1>7, <1>13
<1>17. Sound(t, r, tramp, cache, strict)
  BY <1>2, <1>14, <1>15, <1>16, SoundSet
<1>18. NoSignal.name # None => Raised(NoSignal, r[Len(r)])
  BY Silent
<1>19. UNCHANGED <<code, throwtable, tramp, cache, dead>>
  BY DEF ToHandler
<1>20. QED
  BY <1>4, <1>12, <1>17, <1>18, <1>19, SteadyMove

LEMMA SteadyFpe ==
  ASSUME Compiled, Machine, NEW strict, Steady(strict), NEW t \in Threads, sig[t].name # None,
         NEW found \in Located(t), SignalFpe(t, found), sig' = [sig EXCEPT ![t] = NoSignal]
  PROVE  Steady(strict)'
<1>1. PICK f : f = Top(t)
  OBVIOUS
<1>2. /\ CodeRec(f) /\ FrameOK(f, cache, strict) /\ Raised(sig[t], f) /\ f.kind = "code"
      /\ f.m \in Methods /\ f.pc \in 1 .. Len(Program[f.m]) /\ sig[t].name = "FPE"
      /\ f.ph \in {"run", "idivl"} /\ stk[t] # << >>
  BY <1>1, RaisedFacts DEF SignalFpe
<1>3. f.ph # "write" /\ found.entry.byteoff = Ins(f).off
  <2>1. f.ph # "write" /\ found.entry = Entry(Ins(f), f.pc)
    BY <1>1, Signalled
  <2>2. QED
    BY <2>1 DEF Entry
<1>4. PICK opcode : opcode = BytecodeAt(f.m, Ins(f).off)
  OBVIOUS
<1>5. opcode = Ins(f).bc
  BY <1>2, <1>4, BytecodeRead DEF Ins, Steady
<1>6. /\ IF f.ph = "idivl" THEN Ins(f).op \in DivOps ELSE Ins(f).op \in {"ldiv", "lrem"}
      /\ f.ph = "idivl" => f.ecx = 0 \/ (f.eax = MinInt /\ f.ecx = -1)
  BY <1>2 DEF FrameOK, Raised
<1>7. Ins(f).bc = Ins(f).op
  BY <1>2, <1>6, InsnFacts DEF Ins, DivOps
<1>8. CASE opcode \in {"ldiv", "lrem"} \/ (opcode \in DivOps /\ f.ecx = 0)
  <2>1. ToHandler(t, found, "ArithmeticException")
    BY <1>1, <1>3, <1>4, <1>8 DEF SignalFpe, DivOps
  <2>2. QED
    BY <2>1, SteadyThrow
<1>9. CASE ~ (opcode \in {"ldiv", "lrem"} \/ (opcode \in DivOps /\ f.ecx = 0))
  <2>1. opcode \in DivOps /\ f.ecx # 0 /\ f.eax = MinInt /\ f.ecx = -1
    BY <1>5, <1>6, <1>7, <1>9
  <2>2. /\ SetTop(t, [f EXCEPT !.ph = "divided", !.eax = MinInt, !.edx = 0, !.bytepc = Ins(f).off])
        /\ UNCHANGED <<exc, code, throwtable, tramp, cls, cache, dead>>
    BY <1>1, <1>3, <1>4, <1>9, <2>1 DEF SignalFpe
  <2>3. PICK o : o = Ins(f).off
    OBVIOUS
  <2>4. PICK g : g = [f EXCEPT !.ph = "divided", !.eax = MinInt, !.edx = 0, !.bytepc = o]
    OBVIOUS
  <2>5. SetTop(t, g)
    BY <2>2, <2>3, <2>4
  <2>6. g.kind = "code" /\ g.ph = "divided" /\ g.m = f.m /\ g.pc = f.pc /\ g.bytepc = o
    BY <1>2, <2>4 DEF CodeRec, CodeFields
  <2>7. Ins(g) = Ins(f)
    BY <2>6 DEF Ins
  <2>8. Ins(f).op \in DivOps
    BY <1>5, <1>7, <2>1
  <2>9. FrameOK(g, cache, strict)
    BY <1>2, <2>3, <2>6, <2>7, <2>8 DEF FrameOK, InIntf
  <2>10. Standing(t, tramp, cache, strict, stk[t][Len(stk[t]) - 1], g)
    BY <2>6, <2>9, CodeStanding
  <2>11. g.kind = Top(t).kind /\ (Top(t).kind = "code" => Top(t).ph # "write")
    BY <1>1, <1>2, <1>3, <2>6
  <2>12. QED
    BY <1>2, <2>2, <2>5, <2>10, <2>11, Silent, SteadySet
<1>10. QED
  BY <1>8, <1>9

\* An int3 goes and nothing else changes in the code.
LEMMA Unplanted ==
  ASSUME Compiled, CodeOK, NEW m \in Methods, NEW i \in 1 .. Len(Program[m]),
         code' = [code EXCEPT ![m][i].cc = FALSE]
  PROVE  CodeOK'
<1>1. PICK c : c = code[m]
  OBVIOUS
<1>2. PICK d : d = [c EXCEPT ![i].cc = FALSE]
  OBVIOUS
<1>3. code' = [code EXCEPT ![m] = d]
  BY <1>1, <1>2
<1>4. DOMAIN Program[m] = 1 .. Len(Program[m])
  BY MethodFacts
<1>5. /\ c = [j \in DOMAIN Program[m] |->
            [op |-> Program[m][j].op, off |-> Program[m][j].off, bc |-> Program[m][j].bc,
             cls |-> Program[m][j].cls, arg |-> Program[m][j].arg, cc |-> c[j].cc]]
      /\ \A j \in DOMAIN Program[m] :
           c[j].cc => TrapsForInit(Program[m][j]) \/ TrapsForIntf(Program[m][j])
  BY <1>1 DEF CodeOK
<1>6. PICK o : o = c[i]
  OBVIOUS
<1>7. o = [op |-> Program[m][i].op, off |-> Program[m][i].off, bc |-> Program[m][i].bc,
           cls |-> Program[m][i].cls, arg |-> Program[m][i].arg, cc |-> o.cc]
  BY <1>4, <1>5, <1>6
<1>8. d = [j \in DOMAIN Program[m] |-> d[j]] /\ d[i] = [o EXCEPT !.cc = FALSE]
      /\ \A j \in DOMAIN Program[m] : j # i => d[j] = c[j]
  BY <1>2, <1>4, <1>5, <1>6
<1>9. d[i] = [op |-> Program[m][i].op, off |-> Program[m][i].off, bc |-> Program[m][i].bc,
              cls |-> Program[m][i].cls, arg |-> Program[m][i].arg, cc |-> FALSE]
  <2>1. PICK p, w : p = Program[m][i] /\ w = o.cc
    OBVIOUS
  <2>2. o = [op |-> p.op, off |-> p.off, bc |-> p.bc, cls |-> p.cls, arg |-> p.arg, cc |-> w]
    BY <1>7, <2>1
  <2>3. [o EXCEPT !.cc = FALSE] =
          [op |-> p.op, off |-> p.off, bc |-> p.bc, cls |-> p.cls, arg |-> p.arg, cc |-> FALSE]
    <3>1. ASSUME NEW z
          PROVE  [o EXCEPT !.cc = z] = [op |-> p.op, off |-> p.off, bc |-> p.bc, cls |-> p.cls,
                                        arg |-> p.arg, cc |-> z]
      BY <2>2
    <3>2. QED
      BY <3>1
  <2>4. QED
    BY <1>8, <2>1, <2>3
<1>10. d[i].cc = FALSE
  BY <1>9
<1>11. ASSUME NEW j \in DOMAIN Program[m]
       PROVE  /\ d[j] = [op |-> Program[m][j].op, off |-> Program[m][j].off, bc |-> Program[m][j].bc,
                         cls |-> Program[m][j].cls, arg |-> Program[m][j].arg, cc |-> d[j].cc]
              /\ d[j].cc => TrapsForInit(Program[m][j]) \/ TrapsForIntf(Program[m][j])
  <2>1. CASE j = i
    BY <1>9, <1>10, <2>1
  <2>2. CASE j # i
    <3>1. d[j] = c[j]
      BY <1>8, <2>2
    <3>2. c[j] = [op |-> Program[m][j].op, off |-> Program[m][j].off, bc |-> Program[m][j].bc,
                  cls |-> Program[m][j].cls, arg |-> Program[m][j].arg, cc |-> c[j].cc]
          /\ c[j].cc => TrapsForInit(Program[m][j]) \/ TrapsForIntf(Program[m][j])
      BY <1>5
    <3>3. QED
      BY <1>5, <3>1
  <2>3. QED
    BY <2>1, <2>2
<1>12. d = [j \in DOMAIN Program[m] |->
            [op |-> Program[m][j].op, off |-> Program[m][j].off, bc |-> Program[m][j].bc,
             cls |-> Program[m][j].cls, arg |-> Program[m][j].arg, cc |-> d[j].cc]]
  BY <1>8, <1>11
<1>13. code' = [n \in Methods |-> code'[n]] /\ code'[m] = d
       /\ \A n \in Methods : n # m => code'[n] = code[n]
  BY <1>3 DEF CodeOK
<1>14. ASSUME NEW n \in Methods
       PROVE  /\ code'[n] = [j \in DOMAIN Program[n] |->
                   [op |-> Program[n][j].op, off |-> Program[n][j].off, bc |-> Program[n][j].bc,
                    cls |-> Program[n][j].cls, arg |-> Program[n][j].arg, cc |-> code'[n][j].cc]]
              /\ \A j \in DOMAIN Program[n] :
                   code'[n][j].cc => TrapsForInit(Program[n][j]) \/ TrapsForIntf(Program[n][j])
  <2>1. CASE n = m
    BY <1>11, <1>12, <1>13, <2>1
  <2>2. CASE n # m
    <3>1. code'[n] = code[n]
      BY <1>13, <2>2
    <3>2. /\ code[n] = [j \in DOMAIN Program[n] |->
               [op |-> Program[n][j].op, off |-> Program[n][j].off, bc |-> Program[n][j].bc,
                cls |-> Program[n][j].cls, arg |-> Program[n][j].arg, cc |-> code[n][j].cc]]
          /\ \A j \in DOMAIN Program[n] :
               code[n][j].cc => TrapsForInit(Program[n][j]) \/ TrapsForIntf(Program[n][j])
      BY DEF CodeOK
    <3>3. QED
      BY <3>1, <3>2
  <2>3. QED
    BY <2>1, <2>2
<1>15. QED
  BY <1>13, <1>14 DEF CodeOK

\* What a trap finds
LEMMA Trapped ==
  ASSUME Compiled, Machine, NEW strict, Steady(strict), NEW t \in Threads, sig[t].name = "TRAP",
         NEW found \in Located(t), NEW f, f = Top(t)
  PROVE  /\ found.entry.opcode = Ins(f).op /\ found.entry.byteoff = Ins(f).off
         /\ InsnAt(sig[t].off - 1) = f.pc
         /\ Ins(f).op = "invokeinterface" => f.ph = "bound"
         /\ Ins(f).op \in InitOps =>
              /\ f.ph = "run" /\ TrapsForInit(Ins(f)) /\ found.entry.cb = Ins(f).cls
              /\ sig[t].off - 1 = Nativeoff(f.pc)
<1>1. sig[t].name # None
  BY DEF None
<1>2. /\ FrameOK(f, cache, strict) /\ Raised(sig[t], f) /\ f.pc \in 1 .. Len(Program[f.m])
      /\ f.ph \in {"run", "bound"}
  BY <1>1, RaisedFacts
<1>3. found.entry = Entry(Ins(f), f.pc)
  BY <1>1, Signalled
<1>4. /\ sig[t].off = PatchAddr(f.pc, Ins(f).op) + 1
      /\ IF f.ph = "run" THEN TrapsForInit(Ins(f)) ELSE f.ph = "bound"
  BY <1>2 DEF Raised
<1>5. f.ph = "bound" => Ins(f).op = "invokeinterface"
  BY <1>2 DEF FrameOK, InIntf
<1>6. TrapsForInit(Ins(f)) => Ins(f).op \in InitOps
  BY DEF TrapsForInit
<1>7. "invokeinterface" \notin InitOps
  BY DEF InitOps
<1>8. found.entry.byteoff = Ins(f).off
  BY <1>3 DEF Entry
<1>9. found.entry.opcode = Ins(f).op
  <2>1. TrapsForInit(Ins(f)) \/ TrapsForIntf(Ins(f))
    BY <1>2, <1>4, <1>5 DEF TrapsForIntf
  <2>2. QED
    BY <1>3, <2>1 DEF Entry
<1>10. Ins(f).op = "invokeinterface" => f.ph = "bound"
  BY <1>2, <1>4, <1>6, <1>7
<1>11. Ins(f).op \in InitOps => f.ph = "run" /\ TrapsForInit(Ins(f))
  BY <1>2, <1>4, <1>5, <1>7
<1>12. Ins(f).op \in InitOps => found.entry.cb = Ins(f).cls
  BY <1>3, <1>11 DEF Entry
<1>13. f.pc \in Int
  BY <1>2
<1>14. PICK o \in Int : o = Nativeoff(f.pc)
  BY <1>13, Addresses
<1>15. /\ Ins(f).op = "invokeinterface" => PatchAddr(f.pc, Ins(f).op) = o + INVINTF_PATCH_OFFSET
       /\ Ins(f).op # "invokeinterface" => PatchAddr(f.pc, Ins(f).op) = o
  BY <1>14 DEF PatchAddr
<1>16. /\ Ins(f).op = "invokeinterface" => sig[t].off - 1 = o + INVINTF_PATCH_OFFSET
       /\ Ins(f).op # "invokeinterface" => sig[t].off - 1 = o
  BY <1>4, <1>14, <1>15 DEF INVINTF_PATCH_OFFSET
<1>17. InsnAt(o) = f.pc /\ InsnAt(o + INVINTF_PATCH_OFFSET) = f.pc
  BY <1>13, <1>14, Addresses
<1>18. InsnAt(sig[t].off - 1) = f.pc
  <2>1. CASE Ins(f).op = "invokeinterface"
    BY <1>16, <1>17, <2>1
  <2>2. CASE Ins(f).op # "invokeinterface"
    BY <1>16, <1>17, <2>2
  <2>3. QED
    BY <2>1, <2>2
<1>19. Ins(f).op \in InitOps => sig[t].off - 1 = Nativeoff(f.pc)
  BY <1>7, <1>14, <1>16
<1>20. QED
  BY <1>8, <1>9, <1>10, <1>11, <1>12, <1>18, <1>19

\* A step of the handler that answers a trap
LEMMA SteadyAnswer ==
  ASSUME Machine, NEW strict, Steady(strict), NEW t \in Threads, NoWriter(stk[t]), NEW r,
         stk' = [stk EXCEPT ![t] = r], sig' = [sig EXCEPT ![t] = NoSignal],
         Sound(t, r, tramp', cache, strict),
         \A u \in Threads : u # t => Sound(u, stk[u], tramp', cache, strict),
         CodeOK', tramp' = [m \in Methods |-> tramp'[m]], UNCHANGED <<throwtable, cache, dead>>
  PROVE  Steady(strict)'
<1>1. TableOK' /\ ~ dead'
  BY DEF Steady, TableOK
<1>2. CacheOK'
  BY CachesKept DEF Steady
<1>3. cache' = cache
  OBVIOUS
<1>4. Sound(t, r, tramp', cache', strict)
  BY <1>3
<1>5. \A u \in Threads : u # t => Sound(u, stk[u], tramp', cache', strict)
  BY <1>3
<1>6. \A u \in Threads : u # t => (sig[u].name # None => Raised(sig[u], Top(u)))
  BY DEF Steady
<1>7. NoSignal.name # None => Raised(NoSignal, r[Len(r)])
  BY Silent
<1>8. QED
  BY <1>1, <1>2, <1>4, <1>5, <1>6, <1>7, Steadied

LEMMA SteadyTrapIntf ==
  ASSUME Compiled, Machine, NEW strict, Steady(strict), NEW t \in Threads, sig[t].name # None,
         NEW found \in Located(t), SignalTrapIntf(t, found.entry),
         sig' = [sig EXCEPT ![t] = NoSignal]
  PROVE  Steady(strict)'
<1>1. PICK f, s : f = Top(t) /\ s = stk[t]
  OBVIOUS
<1>2. /\ CodeRec(f) /\ FrameOK(f, cache, strict) /\ f.kind = "code" /\ f.m \in Methods
      /\ f.pc \in 1 .. Len(Program[f.m]) /\ s # << >> /\ StackOK(s) /\ f = s[Len(s)]
  BY <1>1, RaisedFacts
<1>3. sig[t].name = "TRAP" /\ found.entry.opcode = "invokeinterface"
  BY DEF SignalTrapIntf
<1>4. Ins(f).op = "invokeinterface" /\ f.ph = "bound" /\ InsnAt(sig[t].off - 1) = f.pc
  BY <1>1, <1>3, Trapped
<1>5. code' = [code EXCEPT ![f.m][f.pc].cc = FALSE] /\ UNCHANGED <<throwtable, tramp, cache, dead>>
  BY <1>1, <1>4 DEF SignalTrapIntf
<1>6. CodeOK
  BY DEF Steady
<1>7. CodeOK'
  BY <1>2, <1>5, <1>6, Unplanted
<1>8. f.method = Impl[<<f.obj, Ins(f).arg>>] /\ f.bytepc = Ins(f).off
  BY <1>2, <1>4 DEF FrameOK, ChainOps
<1>9. f.method \in Methods
  <2>1. f.ph \in InIntf \cup {"run"}
    BY <1>4 DEF InIntf
  <2>2. Impl[<<f.obj, Ins(f).arg>>] \in Methods
    BY <1>2, <1>4, <2>1, AtIntf
  <2>3. QED
    BY <1>8, <2>2
<1>10. f.method # None
  BY <1>9, LengthFacts
<1>11. PICK g : g = Advance(f)
  OBVIOUS
<1>12. SetTop(t, g)
  BY <1>1, <1>10, <1>11 DEF SignalTrapIntf
<1>13. /\ g.kind = "code" /\ g.m = f.m /\ g.pc = f.pc + 1 /\ g.ph = "run"
       /\ g.bytepc = f.bytepc /\ g.method = f.method /\ g.obj = f.obj
  BY <1>2, <1>11, Advanced
<1>14. g.bytepc = Ins(f).off /\ g.method \in Methods /\ g.method = Impl[<<g.obj, Ins(f).arg>>]
  BY <1>8, <1>9, <1>13
<1>15. FrameOK(g, cache, strict)
  BY <1>2, <1>4, <1>13, <1>14, AdvanceOK
<1>16. PICK r : r = [s EXCEPT ![Len(s)] = g]
  OBVIOUS
<1>17. stk' = [stk EXCEPT ![t] = r]
  BY <1>1, <1>12, <1>16 DEF SetTop
<1>18. IsSeq(s)
  BY <1>2 DEF StackOK
<1>19. Len(r) = Len(s)
  BY <1>2, <1>16, <1>18, PutTop
<1>20. r[Len(s)] = g
  BY <1>2, <1>16, <1>18, PutTop
<1>21. \A k \in 1 .. Len(s) : k < Len(s) => r[k] = s[k]
  BY <1>2, <1>16, <1>18, PutTop
<1>22. Standing(t, tramp, cache, strict, s[Len(s) - 1], g)
  BY <1>13, <1>15, CodeStanding
<1>23. Sound(t, s, tramp, cache, strict) /\ g.kind = s[Len(s)].kind
  BY <1>1, <1>2, <1>13 DEF Steady
<1>24. Sound(t, r, tramp, cache, strict)
  BY <1>2, <1>19, <1>20, <1>21, <1>22, <1>23, SoundSet
<1>25. NoWriter(stk[t])
  BY Signalled
<1>26. Sound(t, r, tramp', cache, strict)
  BY <1>5, <1>24
<1>27. \A u \in Threads : u # t => Sound(u, stk[u], tramp', cache, strict)
  BY <1>5 DEF Steady
<1>28. tramp' = [m \in Methods |-> tramp'[m]]
  BY <1>5 DEF Steady
<1>29. UNCHANGED <<throwtable, cache, dead>>
  BY <1>5
<1>30. QED
  BY <1>7, <1>17, <1>25, <1>26, <1>27, <1>28, <1>29, SteadyAnswer

LEMMA SteadyTrapInit ==
  ASSUME Compiled, Machine, Unraced, NEW strict, Steady(strict), NEW t \in Threads,
         sig[t].name # None, NEW found \in Located(t), SignalTrapInit(t, found.entry),
         sig' = [sig EXCEPT ![t] = NoSignal]
  PROVE  Steady(strict)'
<1>1. PICK f, s : f = Top(t) /\ s = stk[t]
  OBVIOUS
<1>2. /\ CodeRec(f) /\ FrameOK(f, cache, strict) /\ f.kind = "code" /\ f.m \in Methods
      /\ f.pc \in 1 .. Len(Program[f.m]) /\ s # << >> /\ StackOK(s) /\ f = s[Len(s)]
  BY <1>1, RaisedFacts
<1>3. PICK n \in Nat : n = Len(s) /\ n > 0
  BY <1>2, TopOK
<1>4. sig[t].name = "TRAP" /\ found.entry.opcode \in InitOps
  BY DEF SignalTrapInit
<1>5. /\ TrapsForInit(Ins(f)) /\ found.entry.cb = Ins(f).cls /\ InsnAt(sig[t].off - 1) = f.pc
      /\ sig[t].off - 1 = Nativeoff(f.pc)
  <2>1. /\ found.entry.opcode = Ins(f).op /\ InsnAt(sig[t].off - 1) = f.pc
        /\ Ins(f).op \in InitOps =>
             /\ TrapsForInit(Ins(f)) /\ found.entry.cb = Ins(f).cls
             /\ sig[t].off - 1 = Nativeoff(f.pc)
    BY <1>1, <1>4, Trapped
  <2>2. QED
    BY <1>4, <2>1
<1>6. PICK op : op = [cb |-> Ins(f).cls, ee |-> t, pc |-> Nativeoff(f.pc)]
  OBVIOUS
<1>7. PICK g : g = [kind |-> "trampoline", m |-> f.m, ph |-> "push",
                    cb |-> None, ee |-> None, pc |-> 0]
  OBVIOUS
<1>8. PICK r : r = Append(s, g)
  OBVIOUS
<1>9. /\ code' = [code EXCEPT ![f.m][f.pc].cc = FALSE]
      /\ tramp' = [tramp EXCEPT ![f.m] = op]
      /\ stk' = [stk EXCEPT ![t] = r]
      /\ UNCHANGED <<throwtable, cache, dead>>
  <2>1. PICK pc : pc = sig[t].off - 1
    OBVIOUS
  <2>2. /\ code' = [code EXCEPT ![f.m][InsnAt(pc)].cc = FALSE]
        /\ tramp' = [tramp EXCEPT ![f.m] = [cb |-> found.entry.cb, ee |-> t, pc |-> pc]]
        /\ stk' = [stk EXCEPT ![t] = Append(@,
                     [kind |-> "trampoline", m |-> f.m, ph |-> "push",
                      cb |-> None, ee |-> None, pc |-> 0])]
        /\ UNCHANGED <<throwtable, cache, dead>>
    BY <1>1, <2>1 DEF SignalTrapInit
  <2>3. InsnAt(pc) = f.pc /\ [cb |-> found.entry.cb, ee |-> t, pc |-> pc] = op
    BY <1>5, <1>6, <2>1
  <2>4. stk' = [stk EXCEPT ![t] = r]
    BY <1>1, <1>7, <1>8, <2>2
  <2>5. QED
    BY <2>2, <2>3, <2>4
<1>10. CodeOK
  BY DEF Steady
<1>11. CodeOK'
  BY <1>2, <1>9, <1>10, Unplanted
<1>12. tramp = [m \in Methods |-> tramp[m]]
  BY DEF Steady
<1>13. /\ tramp' = [m \in Methods |-> tramp'[m]] /\ tramp'[f.m] = op
       /\ \A m \in Methods : m # f.m => tramp'[m] = tramp[m]
  BY <1>2, <1>9, <1>12
\* whatever other threads will push belongs to other methods
<1>14. ASSUME NEW u \in Threads, u # t PROVE Sound(u, stk[u], tramp', cache, strict)
  <2>1. Sound(u, stk[u], tramp, cache, strict) /\ StackOK(stk[u])
    BY DEF Steady, Machine
  <2>2. ASSUME NEW k \in 1 .. Len(stk[u]), stk[u][k].kind = "trampoline"
        PROVE  tramp'[stk[u][k].m] = tramp[stk[u][k].m]
    <3>1. n \in 1 .. Len(stk[t]) /\ stk[t][n] = f
      BY <1>1, <1>2, <1>3
    <3>2. stk[t][n].kind # "init" /\ stk[u][k].kind # "init" /\ t # u
      BY <1>2, <1>14, <2>2, <3>1
    <3>3. stk[t][n].m # stk[u][k].m
      BY <3>1, <3>2, NoRace
    <3>4. stk[u][k].m # f.m
      BY <3>1, <3>3
    <3>5. stk[u][k].m \in Methods
      <4>1. PICK l \in Nat : l = Len(stk[u])
        BY <2>1, SeqFacts DEF StackOK
      <4>2. k # 1 => k - 1 \in 1 .. l
        BY <4>1
      <4>3. k # 1 /\ Above(stk[u][k - 1], stk[u][k])
        BY <2>1, <2>2, <4>1 DEF StackOK, FramesOK
      <4>4. stk[u][k - 1].kind = "code" /\ k - 1 \in 1 .. Len(stk[u])
        BY <2>2, <4>1, <4>2, <4>3 DEF Above
      <4>5. FrameOK(stk[u][k - 1], cache, strict)
        BY <2>1, <4>4 DEF Sound, Standing
      <4>6. TrampOK(u, tramp, stk[u][k - 1], stk[u][k])
        BY <2>1, <2>2 DEF Sound, Standing
      <4>7. QED
        BY <4>5, <4>6 DEF FrameOK, TrampOK
    <3>6. QED
      BY <1>13, <3>4, <3>5
  <2>3. \A k \in 1 .. Len(stk[u]) :
          /\ stk[u][k].kind = "trampoline" /\ stk[u][k].ph = "push" =>
               tramp'[stk[u][k].m] = tramp[stk[u][k].m]
          /\ stk[u][k].kind = "code" /\ stk[u][k].ph \in {"hit", "write"} =>
               cache[<<stk[u][k].m, stk[u][k].pc>>] = cache[<<stk[u][k].m, stk[u][k].pc>>]
    BY <2>2
  <2>4. QED
    BY <2>1, <2>3, SoundElsewhere
\* and t has pushed whatever it had to
<1>15. Sound(t, s, tramp', cache, strict)
  <2>1. Sound(t, s, tramp, cache, strict)
    BY <1>1 DEF Steady
  <2>2. ASSUME NEW k \in 1 .. Len(s), s[k].kind = "trampoline", s[k].ph = "push" PROVE FALSE
    <3>1. k # Len(s)
      BY <1>2, <2>2
    <3>2. QED
      BY <1>2, <2>2, <3>1, Outer
  <2>3. \A k \in 1 .. Len(s) :
          /\ s[k].kind = "trampoline" /\ s[k].ph = "push" => tramp'[s[k].m] = tramp[s[k].m]
          /\ s[k].kind = "code" /\ s[k].ph \in {"hit", "write"} =>
               cache[<<s[k].m, s[k].pc>>] = cache[<<s[k].m, s[k].pc>>]
    BY <2>2
  <2>4. QED
    BY <2>1, <2>3, SoundElsewhere
<1>16. Standing(t, tramp', cache, strict, s[Len(s)], g)
  <2>1. g.kind = "trampoline" /\ g.m = f.m /\ g.ph = "push"
    BY <1>7
  <2>2. TrampOK(t, tramp', f, g)
    BY <1>5, <1>6, <1>13, <2>1 DEF TrampOK
  <2>3. QED
    BY <1>2, <2>1, <2>2 DEF Standing
<1>17. Sound(t, r, tramp', cache, strict)
  BY <1>2, <1>8, <1>15, <1>16, SoundPush
<1>18. NoWriter(stk[t])
  BY Signalled
<1>19. QED
  BY <1>9, <1>11, <1>13, <1>14, <1>17, <1>18, SteadyAnswer

LEMMA SteadySignal ==
  ASSUME Compiled, Machine, Unraced, NEW strict, Steady(strict), NEW t \in Threads,
         signalHandler(t)
  PROVE  Steady(strict)'
<1>1. sig[t].name # None /\ sig' = [sig EXCEPT ![t] = NoSignal]
  BY DEF signalHandler
<1>2. PICK f : f = Top(t)
  OBVIOUS
<1>3. Located(t) # {}
  BY <1>1, <1>2, LocatedIs
<1>4. ASSUME NEW found \in Located(t), SignalSegv(t, found) PROVE Steady(strict)'
  <2>1. PICK e : ToHandler(t, found, e)
    BY <1>4 DEF SignalSegv
  <2>2. QED
    BY <1>1, <2>1, SteadyThrow
<1>5. ASSUME NEW found \in Located(t), SignalFpe(t, found) PROVE Steady(strict)'
  BY <1>1, <1>5, SteadyFpe
<1>6. ASSUME NEW found \in Located(t), SignalTrapIntf(t, found.entry) PROVE Steady(strict)'
  BY <1>1, <1>6, SteadyTrapIntf
<1>7. ASSUME NEW found \in Located(t), SignalTrapInit(t, found.entry) PROVE Steady(strict)'
  BY <1>1, <1>7, SteadyTrapInit
<1>8. QED
  BY <1>3, <1>4, <1>5, <1>6, <1>7 DEF signalHandler

-----------------------------------------------------------------------------
(* The trampoline and the initialisation of a class.                       *)

\* A trampoline stands on the site that trapped.
LEMMA OnSite ==
  ASSUME Machine, NEW strict, Steady(strict), NEW t \in Threads, NEW ph,
         InFrame(t, "trampoline", ph), NEW f, f = Top(t)
  PROVE  /\ sig[t].name = None /\ stk[t] # << >> /\ StackOK(stk[t]) /\ f = stk[t][Len(stk[t])]
         /\ TrampRec(f) /\ f.kind = "trampoline" /\ f.ph = ph
         /\ Len(stk[t]) - 1 \in 1 .. Len(stk[t])
         /\ stk[t][Len(stk[t]) - 1].kind = "code"
         /\ stk[t][Len(stk[t]) - 1].ph \in {"run", "bound"}
         /\ CodeRec(stk[t][Len(stk[t]) - 1])
         /\ FrameOK(stk[t][Len(stk[t]) - 1], cache, strict)
         /\ TrampOK(t, tramp, stk[t][Len(stk[t]) - 1], f)
<1>1. /\ sig[t].name = None /\ stk[t] # << >> /\ StackOK(stk[t]) /\ f = stk[t][Len(stk[t])]
      /\ TrampRec(f) /\ f.kind = "trampoline" /\ f.ph = ph
  BY FrameFacts, Kinds
<1>2. PICK s : s = stk[t]
  OBVIOUS
<1>3. PICK n \in Nat : n = Len(s) /\ n > 0
  BY <1>1, <1>2, TopOK
<1>4. \A k \in 1 .. n : /\ Shaped(s[k])
                        /\ IF k = 1 THEN s[k].kind = "code" ELSE Above(s[k - 1], s[k])
  BY <1>1, <1>2, <1>3 DEF StackOK, FramesOK
<1>5. n \in 1 .. n
  BY <1>3
<1>6. n # 1 /\ Above(s[n - 1], f)
  BY <1>1, <1>2, <1>3, <1>4, <1>5
<1>7. n - 1 \in 1 .. n
  BY <1>3, <1>6
<1>8. PICK g : g = s[n - 1]
  OBVIOUS
<1>9. g.kind = "code" /\ g.ph \in {"run", "bound"}
  BY <1>1, <1>6, <1>8 DEF Above
<1>10. CodeRec(g)
  BY <1>4, <1>7, <1>8, <1>9, Kinds
<1>11. Sound(t, s, tramp, cache, strict)
  BY <1>2 DEF Steady
<1>12. Standing(t, tramp, cache, strict, s[n - 1 - 1], g)
  BY <1>3, <1>7, <1>8, <1>11 DEF Sound
<1>13. Standing(t, tramp, cache, strict, g, f)
  BY <1>1, <1>2, <1>3, <1>5, <1>8, <1>11 DEF Sound
<1>14. FrameOK(g, cache, strict) /\ TrampOK(t, tramp, g, f)
  BY <1>1, <1>9, <1>12, <1>13 DEF Standing
<1>15. stk[t][Len(stk[t]) - 1] = g /\ Len(stk[t]) - 1 \in 1 .. Len(stk[t])
  BY <1>2, <1>3, <1>7, <1>8
<1>16. QED
  BY <1>1, <1>9, <1>10, <1>14, <1>15

LEMMA SteadyPush ==
  ASSUME Machine, NEW strict, Steady(strict), NEW t \in Threads, TrampolinePush(t)
  PROVE  Steady(strict)'
<1>1. /\ InFrame(t, "trampoline", "push")
      /\ UNCHANGED <<sig, code, throwtable, tramp, cache, dead>>
  BY DEF TrampolinePush
<1>2. PICK f, g : f = Top(t) /\ g = stk[t][Len(stk[t]) - 1]
  OBVIOUS
<1>3. /\ sig[t].name = None /\ stk[t] # << >> /\ TrampRec(f) /\ f.kind = "trampoline"
      /\ f.ph = "push" /\ TrampOK(t, tramp, g, f)
  BY <1>1, <1>2, OnSite
<1>4. PICK op : op = tramp[f.m]
  OBVIOUS
<1>5. PICK h : h = [f EXCEPT !.ph = "call", !.cb = op.cb, !.ee = op.ee, !.pc = op.pc]
  OBVIOUS
<1>6. SetTop(t, h)
  BY <1>2, <1>4, <1>5 DEF TrampolinePush
<1>7. op = [cb |-> Ins(g).cls, ee |-> t, pc |-> Nativeoff(g.pc)] /\ f.m = g.m /\ TrapsForInit(Ins(g))
  BY <1>3, <1>4 DEF TrampOK
<1>8. /\ h.kind = "trampoline" /\ h.m = f.m /\ h.ph = "call" /\ h.cb = op.cb /\ h.ee = op.ee
      /\ h.pc = op.pc
  BY <1>3, <1>5 DEF TrampRec, TrampFields
<1>9. TrampOK(t, tramp, g, h)
  BY <1>7, <1>8 DEF TrampOK
<1>10. Standing(t, tramp, cache, strict, stk[t][Len(stk[t]) - 1], h)
  BY <1>2, <1>8, <1>9 DEF Standing
<1>11. h.kind = Top(t).kind /\ (Top(t).kind = "code" => Top(t).ph # "write")
  BY <1>2, <1>3, <1>8
<1>12. PICK q : q = sig[t]
  OBVIOUS
<1>13. sig' = [sig EXCEPT ![t] = q] /\ q.name = None
  BY <1>1, <1>3, <1>12 DEF Machine
<1>14. QED
  BY <1>1, <1>3, <1>6, <1>10, <1>11, <1>13, SteadySet

LEMMA SteadyOnce ==
  ASSUME Compiled, Machine, NEW strict, Steady(strict), NEW t \in Threads, once_InitClass(t)
  PROVE  Steady(strict)'
<1>1. /\ InFrame(t, "trampoline", "call")
      /\ UNCHANGED <<sig, code, throwtable, tramp, cache, dead>>
  BY DEF once_InitClass
<1>2. PICK f, g, s : f = Top(t) /\ g = stk[t][Len(stk[t]) - 1] /\ s = stk[t]
  OBVIOUS
<1>3. /\ sig[t].name = None /\ s # << >> /\ StackOK(s) /\ f = s[Len(s)] /\ TrampRec(f)
      /\ f.kind = "trampoline" /\ f.ph = "call" /\ TrampOK(t, tramp, g, f)
      /\ FrameOK(g, cache, strict)
  BY <1>1, <1>2, OnSite
<1>4. PICK h : h = [f EXCEPT !.ph = "ret"]
  OBVIOUS
<1>5. /\ TrampRec(h) /\ h.kind = "trampoline" /\ h.m = f.m /\ h.ph = "ret" /\ h.cb = f.cb
      /\ h.ee = f.ee /\ h.pc = f.pc
  BY <1>3, <1>4 DEF TrampRec, TrampFields
<1>6. TrampOK(t, tramp, g, h)
  BY <1>3, <1>5 DEF TrampOK
<1>7. Standing(t, tramp, cache, strict, s[Len(s) - 1], h)
  BY <1>2, <1>5, <1>6 DEF Standing
<1>8. h.kind = Top(t).kind /\ (Top(t).kind = "code" => Top(t).ph # "write")
  BY <1>2, <1>3, <1>5
<1>9. PICK q : q = sig[t]
  OBVIOUS
<1>10. sig' = [sig EXCEPT ![t] = q] /\ q.name = None
  BY <1>1, <1>3, <1>9 DEF Machine
<1>11. CASE SetTop(t, h)
  BY <1>1, <1>2, <1>3, <1>7, <1>8, <1>10, <1>11, SteadySet
<1>12. CASE stk' = [stk EXCEPT ![t] = Append(Append(Below(t), h),
                                       [kind |-> "init", c |-> h.cb, ph |-> "begin"])]
  <2>1. PICK i : i = [kind |-> "init", c |-> h.cb, ph |-> "begin"]
    OBVIOUS
  <2>2. i.kind = "init" /\ i.c = h.cb
    BY <2>1
  <2>3. h.cb = Ins(g).cls /\ TrapsForInit(Ins(g))
    BY <1>5, <1>6 DEF TrampOK
  <2>4. h.cb \in Classes
    BY <1>3, <2>3, InsnFacts DEF FrameOK, Ins
  <2>5. Standing(t, tramp, cache, strict, h, i)
    BY <2>2, <2>4 DEF Standing
  <2>6. Shaped(h) /\ Registers(h)
    BY <1>5, OtherFrame
  <2>7. PICK r : r = Append(Append(SubSeq(s, 1, Len(s) - 1), h), i)
    OBVIOUS
  <2>8. Sound(t, s, tramp, cache, strict) /\ h.kind = s[Len(s)].kind
    BY <1>2, <1>3, <1>5 DEF Steady
  <2>9. Sound(t, r, tramp, cache, strict)
    BY <1>3, <1>7, <2>5, <2>6, <2>7, <2>8, SoundCall
  <2>10. stk' = [stk EXCEPT ![t] = r]
    BY <1>2, <1>12, <2>1, <2>7 DEF Below
  <2>11. QED
    BY <1>1, <1>2, <1>3, <1>8, <2>9, <2>10, SteadyStack
<1>13. QED
  BY <1>2, <1>4, <1>11, <1>12 DEF once_InitClass

\* What a step of InitClass() finds
LEMMA AtClass ==
  ASSUME Machine, NEW strict, Steady(strict), NEW t \in Threads, NEW ph,
         InFrame(t, "init", ph), NEW f, f = Top(t)
  PROVE  /\ sig[t].name = None /\ stk[t] # << >> /\ StackOK(stk[t]) /\ f = stk[t][Len(stk[t])]
         /\ InitRec(f) /\ f.kind = "init" /\ f.c \in Classes
<1>1. /\ sig[t].name = None /\ stk[t] # << >> /\ StackOK(stk[t]) /\ f = stk[t][Len(stk[t])]
      /\ InitRec(f) /\ f.kind = "init"
  BY FrameFacts, Kinds
<1>2. Sound(t, stk[t], tramp, cache, strict) /\ IsSeq(stk[t])
  BY <1>1 DEF Steady, StackOK
<1>3. Standing(t, tramp, cache, strict, stk[t][Len(stk[t]) - 1], f)
  BY <1>1, <1>2, SoundTop
<1>4. QED
  BY <1>1, <1>3 DEF Standing

\* The innermost frame, no compiled code, is left.
LEMMA SteadyBelow ==
  ASSUME Machine, NEW strict, Steady(strict), NEW t \in Threads, sig[t].name = None,
         stk[t] # << >>, Top(t).kind # "code", stk' = [stk EXCEPT ![t] = Below(t)],
         UNCHANGED <<sig, code, throwtable, tramp, cache, dead>>
  PROVE  Steady(strict)'
<1>1. PICK s : s = stk[t]
  OBVIOUS
<1>2. PICK r : r = SubSeq(s, 1, Len(s) - 1)
  OBVIOUS
<1>3. StackOK(s) /\ s # << >> /\ Sound(t, s, tramp, cache, strict)
  BY <1>1 DEF Machine, Steady
<1>4. Sound(t, r, tramp, cache, strict)
  BY <1>2, <1>3, SoundPop
<1>5. stk' = [stk EXCEPT ![t] = r]
  BY <1>1, <1>2 DEF Below
<1>6. QED
  BY <1>4, <1>5, SteadyStack

LEMMA SteadyInitClass ==
  ASSUME Compiled, Machine, NEW strict, Steady(strict), NEW t \in Threads, InitClass(t)
  PROVE  Steady(strict)'
<1>1. /\ InFrame(t, "init", "begin")
      /\ UNCHANGED <<sig, code, throwtable, tramp, cache, dead>>
  BY DEF InitClass
<1>2. PICK f, s : f = Top(t) /\ s = stk[t]
  OBVIOUS
<1>3. /\ sig[t].name = None /\ s # << >> /\ StackOK(s) /\ f = s[Len(s)] /\ InitRec(f)
      /\ f.kind = "init" /\ f.c \in Classes
  BY <1>1, <1>2, AtClass
<1>4. CASE stk' = [stk EXCEPT ![t] = Below(t)]
  BY <1>1, <1>2, <1>3, <1>4, SteadyBelow
<1>5. CASE /\ Clinit[f.c] # None
           /\ stk' = [stk EXCEPT ![t] = Append(Append(Below(t), [Top(t) EXCEPT !.ph = "run"]),
                                               Frame(Clinit[Top(t).c]))]
  <2>1. PICK h : h = [f EXCEPT !.ph = "run"]
    OBVIOUS
  <2>2. InitRec(h) /\ h.kind = "init" /\ h.c = f.c
    BY <1>3, <2>1 DEF InitRec, InitFields
  <2>3. Shaped(h) /\ Registers(h)
    BY <2>2, OtherFrame
  <2>4. PICK g : g = Frame(Clinit[f.c])
    OBVIOUS
  <2>5. Clinit[f.c] \in Methods
    BY <1>3, <1>5 DEF Compiled
  <2>6. FrameOK(g, cache, strict) /\ g.kind = "code"
    BY <2>4, <2>5, FreshOK
  <2>7. Standing(t, tramp, cache, strict, h, g)
    BY <2>6, CodeStanding
  <2>8. Standing(t, tramp, cache, strict, s[Len(s) - 1], h)
    BY <1>3, <2>2 DEF Standing
  <2>9. PICK r : r = Append(Append(SubSeq(s, 1, Len(s) - 1), h), g)
    OBVIOUS
  <2>10. Sound(t, s, tramp, cache, strict) /\ h.kind = s[Len(s)].kind
    BY <1>2, <1>3, <2>2 DEF Steady
  <2>11. Sound(t, r, tramp, cache, strict)
    BY <1>3, <2>3, <2>7, <2>8, <2>9, <2>10, SoundCall
  <2>12. stk' = [stk EXCEPT ![t] = r]
    BY <1>2, <1>5, <2>1, <2>4, <2>9 DEF Below
  <2>13. Top(t).kind = "code" => Top(t).ph # "write"
    BY <1>2, <1>3
  <2>14. QED
    BY <1>1, <1>2, <1>3, <2>11, <2>12, <2>13, SteadyStack
<1>6. QED
  BY <1>2, <1>4, <1>5 DEF InitClass

LEMMA SteadyOver ==
  ASSUME Machine, NEW strict, Steady(strict), NEW t \in Threads, InitClassOver(t)
  PROVE  Steady(strict)'
<1>1. /\ InFrame(t, "init", "over") /\ stk' = [stk EXCEPT ![t] = Below(t)]
      /\ UNCHANGED <<sig, code, throwtable, tramp, cache, dead>>
  BY DEF InitClassOver
<1>2. sig[t].name = None /\ stk[t] # << >> /\ Top(t).kind = "init"
  BY <1>1, FrameFacts
<1>3. QED
  BY <1>1, <1>2, SteadyBelow

\* Back at the site, to run it or to throw what the initialiser has thrown
LEMMA SteadyResume ==
  ASSUME Compiled, Machine, NEW strict, Steady(strict), strict => FailsAtCalls,
         NEW t \in Threads, TrampolineReturn(t)
  PROVE  Steady(strict)'
<1>1. /\ InFrame(t, "trampoline", "ret")
      /\ UNCHANGED <<sig, code, throwtable, tramp, cache, dead>>
  BY DEF TrampolineReturn
<1>2. PICK f, g, s : f = Top(t) /\ g = stk[t][Len(stk[t]) - 1] /\ s = stk[t]
  OBVIOUS
<1>3. /\ sig[t].name = None /\ s # << >> /\ StackOK(s) /\ f = s[Len(s)]
      /\ f.kind = "trampoline" /\ f.ph = "ret" /\ TrampOK(t, tramp, g, f)
      /\ FrameOK(g, cache, strict) /\ CodeRec(g) /\ g.kind = "code" /\ g.ph \in {"run", "bound"}
      /\ Len(s) - 1 \in 1 .. Len(s)
  BY <1>1, <1>2, OnSite
<1>4. /\ TrapsForInit(Ins(g)) /\ f.ee = t /\ f.pc = Nativeoff(g.pc)
  BY <1>3 DEF TrampOK
<1>5. g.m \in Methods /\ g.pc \in 1 .. Len(Program[g.m]) /\ g.pc \in Int
  BY <1>3 DEF FrameOK
<1>6. InsnAt(f.pc) = g.pc
  BY <1>4, <1>5, Addresses
<1>7. PICK n \in Nat : n = Len(s)
  BY <1>3, TopOK
<1>8. PICK b : b = SubSeq(s, 1, Len(s) - 1)
  OBVIOUS
<1>9. Sound(t, b, tramp, cache, strict)
  <2>1. Sound(t, s, tramp, cache, strict)
    BY <1>2 DEF Steady
  <2>2. QED
    BY <1>3, <1>8, <2>1, SoundPop
<1>10. StackOK(b)
  BY <1>3, <1>8, PopFrame
<1>11. Len(b) = Len(s) - 1
  BY <1>3, <1>8, PopFrame
<1>12. IsSeq(b) /\ Len(b) \in Nat /\ Len(b) # 0 /\ b # << >>
  <2>1. IsSeq(b)
    BY <1>10 DEF StackOK
  <2>2. PICK l \in Nat : l = Len(b)
    BY <2>1, SeqFacts
  <2>3. l = n - 1 /\ l # 0
    <3>1. n - 1 \in 1 .. n
      BY <1>3, <1>7
    <3>2. l = n - 1
      BY <1>7, <1>11, <2>2
    <3>3. QED
      BY <1>7, <2>2, <3>1, <3>2
  <2>4. QED
    BY <2>1, <2>2, <2>3, SeqFacts
<1>13. b[Len(b)] = g
  <2>1. b # << >> => b[Len(b)] = s[Len(s) - 1]
    BY <1>3, <1>8, PopFrame
  <2>2. QED
    BY <1>2, <1>12, <2>1
<1>14. PICK h : h = IF exc[f.ee] # None THEN [g EXCEPT !.ph = "exc"]
                    ELSE [g EXCEPT !.pc = InsnAt(f.pc), !.ph = "run"]
  OBVIOUS
<1>15. h.kind = "code" /\ FrameOK(h, cache, strict)
  <2>1. CASE exc[f.ee] # None
    <3>1. h = [g EXCEPT !.ph = "exc"]
      BY <1>14, <2>1
    <3>2. h.kind = "code" /\ h.ph = "exc" /\ h.m = g.m /\ h.pc = g.pc /\ h.bytepc = g.bytepc
      BY <1>3, <3>1 DEF CodeRec, CodeFields
    <3>3. Ins(h) = Ins(g)
      BY <3>2 DEF Ins
    <3>4. strict => g.bytepc = Ins(g).off
      <4>1. SUFFICES ASSUME strict PROVE g.bytepc = Ins(g).off
        OBVIOUS
      <4>2. FailsAtCalls
        BY <4>1
      <4>3. code[g.m][g.pc].op = "invokestatic"
        BY <1>1, <1>2, <1>4, <2>1, <4>2 DEF FailsAtCalls
      <4>4. CodeOK
        BY DEF Steady
      <4>5. Ins(g).op = "invokestatic"
        BY <1>5, <4>3, <4>4, CodeFacts DEF Ins
      <4>6. QED
        BY <1>3, <4>5 DEF FrameOK, ChainOps
    <3>5. QED
      BY <1>3, <3>2, <3>3, <3>4 DEF FrameOK, InIntf
  <2>2. CASE exc[f.ee] = None
    <3>1. h = [g EXCEPT !.pc = g.pc, !.ph = "run"]
      BY <1>6, <1>14, <2>2
    <3>2. /\ h.kind = "code" /\ h.ph = "run" /\ h.m = g.m /\ h.pc = g.pc /\ h.bytepc = g.bytepc
          /\ h.obj = g.obj /\ h.method = g.method
      BY <1>3, <3>1 DEF CodeRec, CodeFields
    <3>3. Ins(h) = Ins(g)
      BY <3>2 DEF Ins
    <3>4. Carried(g)
      BY <1>3 DEF FrameOK, InIntf
    <3>5. Carried(h)
      BY <3>2, <3>3, <3>4 DEF Carried
    <3>6. QED
      BY <1>3, <3>2, <3>3, <3>5 DEF FrameOK, InIntf
  <2>3. QED
    BY <2>1, <2>2
<1>16. PICK r : r = [b EXCEPT ![Len(b)] = h]
  OBVIOUS
<1>17. stk' = [stk EXCEPT ![t] = r]
  <2>1. b = Below(t) /\ Len(b) = Len(stk[t]) - 1
    BY <1>2, <1>8, <1>11 DEF Below
  <2>2. stk' = [stk EXCEPT ![t] = [b EXCEPT ![Len(b)] = h]]
    BY <1>2, <1>13, <1>14, <2>1 DEF TrampolineReturn
  <2>3. QED
    BY <1>16, <2>2
<1>18. Len(r) = Len(b)
  BY <1>12, <1>16, PutTop
<1>19. r[Len(b)] = h
  BY <1>12, <1>16, PutTop
<1>20. \A k \in 1 .. Len(b) : k < Len(b) => r[k] = b[k]
  BY <1>12, <1>16, PutTop
<1>21. Standing(t, tramp, cache, strict, b[Len(b) - 1], h) /\ h.kind = b[Len(b)].kind
  BY <1>3, <1>13, <1>15, CodeStanding
<1>22. Sound(t, r, tramp, cache, strict)
  BY <1>9, <1>10, <1>12, <1>18, <1>19, <1>20, <1>21, SoundSet
<1>23. Top(t).kind = "code" => Top(t).ph # "write"
  BY <1>2, <1>3
<1>24. QED
  BY <1>1, <1>2, <1>3, <1>17, <1>22, <1>23, SteadyStack

-----------------------------------------------------------------------------
(* The invariant holds.                                                    *)

LEMMA SteadyInit ==
  ASSUME Compiled, Init, NEW strict
  PROVE  Steady(strict)
<1>1. /\ stk = [t \in Threads |-> <<Frame(Start[t])>>]
      /\ sig = [t \in Threads |-> NoSignal]
      /\ code = [m \in Methods |-> Planted(Program[m])]
      /\ throwtable = [m \in Methods |-> ThrowTable(Program[m])]
      /\ tramp = [m \in Methods |-> [cb |-> None, ee |-> None, pc |-> 0]]
      /\ cache = [s \in Sites |-> [key |-> None, method |-> None, guess |-> 0]]
      /\ ~ dead
  BY DEF Init
<1>2. ASSUME NEW t \in Threads PROVE Sound(t, stk[t], tramp, cache, strict)
  <2>1. PICK f : f = Frame(Start[t])
    OBVIOUS
  <2>2. Start[t] \in Methods
    BY DEF Compiled
  <2>3. FrameOK(f, cache, strict) /\ f.kind = "code"
    BY <2>1, <2>2, FreshOK
  <2>4. stk[t] = <<f>>
    BY <1>1, <2>1
  <2>5. Len(stk[t]) = 1 /\ stk[t][1] = f
    BY <2>4
  <2>6. ASSUME NEW k \in 1 .. 1
        PROVE  Standing(t, tramp, cache, strict, stk[t][k - 1], stk[t][k])
    <3>1. k = 1
      OBVIOUS
    <3>2. Standing(t, tramp, cache, strict, stk[t][k - 1], f)
      BY <2>3, CodeStanding
    <3>3. QED
      BY <2>5, <3>1, <3>2
  <2>7. QED
    BY <2>5, <2>6 DEF Sound
<1>3. ASSUME NEW t \in Threads PROVE sig[t].name = None
  BY <1>1 DEF NoSignal, Signal
<1>4. CodeOK
  <2>1. ASSUME NEW m \in Methods, NEW i \in DOMAIN Program[m]
        PROVE  /\ code[m][i] =
                    [op |-> Program[m][i].op, off |-> Program[m][i].off,
                     bc |-> Program[m][i].bc, cls |-> Program[m][i].cls,
                     arg |-> Program[m][i].arg, cc |-> code[m][i].cc]
               /\ code[m][i].cc => TrapsForInit(Program[m][i]) \/ TrapsForIntf(Program[m][i])
    <3>1. PICK p, c : p = Program[m][i] /\ c = code[m][i]
      OBVIOUS
    <3>2. c = [op |-> p.op, off |-> p.off, bc |-> p.bc, cls |-> p.cls, arg |-> p.arg,
               cc |-> TrapsForInit(p) \/ TrapsForIntf(p)]
      BY <1>1, <3>1 DEF Planted
    <3>3. PICK b : b = (TrapsForInit(p) \/ TrapsForIntf(p))
      OBVIOUS
    <3>4. c = [op |-> p.op, off |-> p.off, bc |-> p.bc, cls |-> p.cls, arg |-> p.arg, cc |-> b]
      BY <3>2, <3>3, Zenon
    <3>5. c.cc = b
      BY <3>4
    <3>6. c = [op |-> p.op, off |-> p.off, bc |-> p.bc, cls |-> p.cls, arg |-> p.arg,
               cc |-> c.cc]
      BY <3>4, <3>5, Zenon
    <3>7. c.cc => TrapsForInit(p) \/ TrapsForIntf(p)
      BY <3>3, <3>5, Zenon
    <3>8. QED
      BY <3>1, <3>6, <3>7, Zenon
  <2>3. ASSUME NEW m \in Methods
        PROVE  code[m] = [i \in DOMAIN Program[m] |->
                 [op |-> Program[m][i].op, off |-> Program[m][i].off, bc |-> Program[m][i].bc,
                  cls |-> Program[m][i].cls, arg |-> Program[m][i].arg, cc |-> code[m][i].cc]]
    <3>1. code[m] = [i \in DOMAIN Program[m] |-> code[m][i]]
      BY <1>1 DEF Planted
    <3>2. QED
      BY <2>1, <3>1, Zenon
  <2>4. code = [m \in Methods |-> code[m]]
    BY <1>1
  <2>5. QED
    BY <2>1, <2>3, <2>4, Zenon DEF CodeOK
<1>5. TableOK
  BY <1>1 DEF TableOK
<1>6. CacheOK
  <2>1. ASSUME NEW s \in Sites PROVE cache[s] = [key |-> None, method |-> None, guess |-> 0]
    BY <1>1
  <2>2. cache = [s \in Sites |-> [key |-> cache[s].key, method |-> cache[s].method,
                                  guess |-> cache[s].guess]]
    BY <1>1, <2>1
  <2>3. QED
    BY <2>1, <2>2 DEF CacheOK
<1>7. tramp = [m \in Methods |-> tramp[m]]
  BY <1>1
<1>8. QED
  BY <1>1, <1>2, <1>3, <1>4, <1>5, <1>6, <1>7 DEF Steady

LEMMA SteadyStep ==
  ASSUME Compiled, Machine, Unraced, NEW strict, Steady(strict), strict => FailsAtCalls,
         NEW t \in Threads, Step(t)
  PROVE  Steady(strict)'
<1>1. CASE Trap(t) \/ Use(t) \/ inv_head(t) \/ inlined_exit(t) \/ Deref(t)
  BY <1>1, SteadyTrap, SteadyUse, SteadyHead, SteadyExit, SteadyDeref
<1>2. CASE DivLoad(t) \/ Idivl(t) \/ DivDone(t) \/ ldiv(t) \/ athrow(t)
  BY <1>2, SteadyLoad, SteadyIdivl, SteadyDone, SteadyLdiv, SteadyAthrow
<1>3. CASE CacheKey(t) \/ CacheHit(t) \/ getInterfaceMethod(t) \/ CacheWrite(t) \/ Bound(t)
  BY <1>3, SteadyKey, SteadyHit, SteadyGet, SteadyWrite, SteadyBound
<1>4. CASE inv_vir_varspace(t) \/ invoke_core(t) \/ return(t) \/ exceptionHandler(t)
  BY <1>4, SteadyVarspace, SteadyInvoke, SteadyReturn, SteadyHandler
<1>5. CASE signalHandler(t) \/ TrampolinePush(t) \/ once_InitClass(t)
  BY <1>5, SteadySignal, SteadyPush, SteadyOnce
<1>6. CASE InitClass(t) \/ InitClassOver(t) \/ TrampolineReturn(t)
  BY <1>6, SteadyInitClass, SteadyOver, SteadyResume
<1>7. QED
  BY <1>1, <1>2, <1>3, <1>4, <1>5, <1>6 DEF Step

LEMMA SteadyNext ==
  ASSUME Compiled, Machine, Unraced, NEW strict, Steady(strict), strict => FailsAtCalls,
         [Next]_vars
  PROVE  Steady(strict)'
<1>1. ASSUME NEW t \in Threads, Step(t) PROVE Steady(strict)'
  BY <1>1, SteadyStep
<1>2. CASE UNCHANGED vars
  <2>1. UNCHANGED <<stk, sig, code, throwtable, tramp, cache, dead>>
    BY <1>2 DEF vars
  <2>2. CodeOK' /\ TableOK' /\ tramp' = [m \in Methods |-> tramp'[m]] /\ ~ dead'
    BY <2>1 DEF Steady, CodeOK, TableOK
  <2>3. CacheOK'
    BY <2>1 DEF Steady, CacheOK, Writing, Sites
  <2>4. \A u \in Threads : Sound(u, stk[u], tramp, cache, strict)'
    <3>1. \A u \in Threads : Sound(u, stk'[u], tramp', cache', strict)
      BY <2>1 DEF Steady
    <3>2. QED
      BY <3>1 DEF Sound, Standing, FrameOK, Carried, Ins, TrampOK
  <2>5. \A u \in Threads : (sig[u].name # None => Raised(sig[u], Top(u)))'
    <3>1. \A u \in Threads : Top(u)' = Top(u)
      BY <2>1 DEF Top
    <3>2. \A u \in Threads : sig'[u].name # None => Raised(sig'[u], Top(u)')
      BY <2>1, <3>1 DEF Steady
    <3>3. QED
      BY <3>2 DEF Raised, Ins
  <2>6. QED
    BY <2>2, <2>3, <2>4, <2>5 DEF Steady
<1>3. QED
  BY <1>1, <1>2 DEF Next

LEMMA DispatchSteady ==
  ASSUME Compiled, Machine, Steady(FALSE)
  PROVE  DispatchRight
<1>1. ASSUME NEW t \in Threads, At(t, "run"), Insn(t).op = "invoke_core",
             Insn(t).bc = "invokeinterface"
      PROVE  Top(t).method = Impl[<<Top(t).obj, Insn(t).arg>>]
  <2>1. PICK f : f = Top(t)
    OBVIOUS
  <2>2. /\ FrameOK(f, cache, FALSE) /\ f.ph = "run" /\ Insn(t).op = Ins(f).op
        /\ Insn(t).bc = Ins(f).bc /\ Insn(t).arg = Ins(f).arg
    BY <1>1, <2>1, Here, ZenonT(60)
  <2>3. Carried(f)
    BY <2>2 DEF FrameOK
  <2>4. QED
    BY <1>1, <2>1, <2>2, <2>3 DEF Carried
<1>2. QED
  BY <1>1 DEF DispatchRight

LEMMA ResumesSteady ==
  ASSUME Compiled, Machine, Steady(FALSE)
  PROVE  ResumesAtTrap
<1>1. ASSUME NEW t \in Threads, NEW k \in DOMAIN stk[t], NEW f, f = stk[t][k],
             f.kind = "trampoline", f.ph # "push", NEW g, g = stk[t][k - 1]
      PROVE  f.pc = Nativeoff(g.pc) /\ f.cb = code[g.m][g.pc].cls /\ f.ee = t
  <2>1. StackOK(stk[t]) /\ IsSeq(stk[t]) /\ FramesOK(stk[t])
    BY DEF Machine, StackOK
  <2>2. PICK n \in Nat : n = Len(stk[t]) /\ k \in 1 .. n
    BY <2>1, SeqFacts
  <2>3. IF k = 1 THEN f.kind = "code" ELSE Above(g, f)
    BY <1>1, <2>1, <2>2 DEF FramesOK
  <2>4. k # 1 /\ g.kind = "code"
    BY <1>1, <2>3 DEF Above
  <2>5. k - 1 \in 1 .. n
    BY <2>2, <2>4
  <2>6. Sound(t, stk[t], tramp, cache, FALSE) /\ CodeOK
    BY DEF Steady
  <2>7. Standing(t, tramp, cache, FALSE, g, f)
    BY <1>1, <2>2, <2>6 DEF Sound
  <2>8. Standing(t, tramp, cache, FALSE, stk[t][k - 1 - 1], g)
    BY <1>1, <2>2, <2>5, <2>6 DEF Sound
  <2>9. FrameOK(g, cache, FALSE)
    BY <2>4, <2>8 DEF Standing
  <2>10. f.cb = Ins(g).cls /\ f.ee = t /\ f.pc = Nativeoff(g.pc)
    BY <1>1, <2>7 DEF Standing, TrampOK
  <2>11. g.m \in Methods /\ g.pc \in 1 .. Len(Program[g.m])
    BY <2>9 DEF FrameOK
  <2>12. code[g.m][g.pc].cls = Ins(g).cls
    BY <2>6, <2>11, CodeFacts DEF Ins
  <2>13. QED
    BY <2>10, <2>12
<1>2. QED
  BY <1>1 DEF ResumesAtTrap

LEMMA ThrownSteady ==
  ASSUME Compiled, Machine, NEW strict, Steady(strict), NEW t \in Threads, At(t, "exc")
  PROVE  strict => Top(t).bytepc = Insn(t).off
<1>1. PICK f : f = Top(t)
  OBVIOUS
<1>2. FrameOK(f, cache, strict) /\ f.ph = "exc" /\ Insn(t).off = Ins(f).off
  BY <1>1, Here
<1>3. QED
  BY <1>1, <1>2 DEF FrameOK

\* What the theorems below share
LEMMA SteadyInvariance ==
  ASSUME Compiled
  PROVE  /\ Spec /\ []Unraced => [](Machine /\ Steady(FALSE))
         /\ Spec /\ []Unraced /\ []FailsAtCalls => [](Machine /\ Steady(TRUE))
<1>1. Init => Steady(FALSE) /\ Steady(TRUE)
  <2>1. SUFFICES ASSUME Init PROVE Steady(FALSE) /\ Steady(TRUE)
    OBVIOUS
  <2>2. QED
    BY <2>1, SteadyInit
<1>2. Machine /\ Unraced /\ Steady(FALSE) /\ [Next]_vars => Steady(FALSE)'
  <2>1. SUFFICES ASSUME Machine, Unraced, Steady(FALSE), [Next]_vars PROVE Steady(FALSE)'
    OBVIOUS
  <2>2. FALSE => FailsAtCalls
    OBVIOUS
  <2>3. QED
    BY <2>1, <2>2, SteadyNext
<1>3. Machine /\ Unraced /\ FailsAtCalls /\ Steady(TRUE) /\ [Next]_vars => Steady(TRUE)'
  <2>1. SUFFICES ASSUME Machine, Unraced, FailsAtCalls, Steady(TRUE), [Next]_vars
                 PROVE  Steady(TRUE)'
    OBVIOUS
  <2>2. TRUE => FailsAtCalls
    BY <2>1
  <2>3. QED
    BY <2>1, <2>2, SteadyNext
<1>4. Spec => []Machine
  BY MachineInvariance
<1>5. QED
  BY <1>1, <1>2, <1>3, <1>4, PTL DEF Spec

\* In every program of static and interface calls, accesses, divisions and
\* throws whose methods are each in the hands of one thread, signalHandler()
\* finds the throw entry of every fault and int3 that compiled code meets, and
\* knows what to do about it: the process is never ended.
THEOREM AlwaysAnswered ==
  ASSUME Compiled
  PROVE  Spec /\ []Unraced => []SignalsAnswered
<1>1. Machine /\ Steady(FALSE) => SignalsAnswered
  BY DEF Steady, SignalsAnswered
<1>2. QED
  BY <1>1, SteadyInvariance, PTL

\* A trampoline brings the thread back to the site it trapped at, with the class
\* of that site, however deep in initialisers that trap through the trampolines
\* of the same and of other methods it has been in between.
THEOREM ResumesThere ==
  ASSUME Compiled
  PROVE  Spec /\ []Unraced => []ResumesAtTrap
<1>1. Machine /\ Steady(FALSE) => ResumesAtTrap
  BY ResumesSteady
<1>2. QED
  BY <1>1, SteadyInvariance, PTL

\* invokeinterface calls the method that the class of the receiver has for the
\* interface: by the inline cache, whose key and method are written one after
\* the other, by the guess, or by the search of the table.
THEOREM DispatchesRight ==
  ASSUME Compiled
  PROVE  Spec /\ []Unraced => []DispatchRight
<1>1. Machine /\ Steady(FALSE) => DispatchRight
  BY DispatchSteady
<1>2. QED
  BY <1>1, SteadyInvariance, PTL

\* -4(%ebp) holds the offset of the bytecode that throws whenever
\* exceptionHandler is entered, by athrow, by a signal, from a callee or from
\* the trampoline, if a class whose initialiser fails is initialised for a
\* static call: the trampoline stores no offset, the inv_head of a call does.
THEOREM HandlersSoughtThere ==
  ASSUME Compiled
  PROVE  Spec /\ []Unraced /\ []FailsAtCalls => []ThrownHere
<1>1. Machine /\ Steady(TRUE) => ThrownHere
  <2>1. SUFFICES ASSUME Machine, Steady(TRUE), NEW t \in Threads, At(t, "exc")
                 PROVE  Top(t).bytepc = Insn(t).off
    BY DEF ThrownHere
  <2>2. TRUE => Top(t).bytepc = Insn(t).off
    BY <2>1, ThrownSteady
  <2>3. QED
    BY <2>2
<1>2. QED
  BY <1>1, SteadyInvariance, PTL
=============================================================================
