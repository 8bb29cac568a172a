------------------------------- MODULE Signals -------------------------------
(* Exceptions by signal and code patching on first execution.              *)
(*                                                                         *)
(* Compiled code makes no null, zero or stack check of its own and does    *)
(* not test whether a class is initialised.  Instead the hardware faults,  *)
(* or an int3 planted by writeCode() traps, and signalHandler() (signal.c) *)
(* finds the place in the method's throw table and either raises a Java    *)
(* exception, repairs the registers, removes the int3, or sends the        *)
(* thread through the method's trampoline to once_InitClass() (runtime.c). *)
(* The exceptions end in exceptionHandler (code.c), which looks for a      *)
(* handler at the bytecode offset kept at -4(%ebp).                        *)
(*                                                                         *)
(* A method is the sequence of its internal instructions, methods inlined  *)
(* into it included.  An instruction has the fields                        *)
(*   op   the internal opcode                                              *)
(*   off  its increasing_byteoff                                           *)
(*   bc   the bytecode at mb->code + off                                   *)
(*   cls  the class it must find initialised, or the receivers it may get  *)
(*   arg  the method it calls, or the interface                            *)
EXTENDS Integers, Sequences, FiniteSets

CONSTANTS
  Threads,
  Methods,
  Program,    \* the code of each method
  Handlers,   \* the exception table of each method
  Length,     \* the length of a template
  Start,      \* the method each thread runs
  Classes,
  Ready,      \* the classes initialised when the methods are compiled
  Clinit,     \* the static initialiser of each class, or None
  Itable,     \* the interfaces of each class, in the order of its imtable
  Impl,       \* Impl[<<c, intf>>]: the method that c has for intf
  Bits,       \* width of an int
  LibFrames,  \* C frames __divdi3() may have when it divides
  MaxInsns,   \* length of the longest method
  MaxFrames   \* compiled frames that fit above STACKOVERFLOW_MARGIN

None == "none"
Junk == -1    \* -4(%ebp) before the first store: methodhead leaves it alone

MinInt == -(2 ^ (Bits - 1))
Ints == MinInt .. (-MinInt - 1)

ASSUME IntAssumption == MinInt \in Int /\ MinInt < 0
ASSUME LibAssumption == LibFrames \subseteq Nat

INVINTF_PATCH_OFFSET == 2
IP_SEARCH_COUNT == 3

(***************************************************************************)
(* What writeCode() leaves behind.                                         *)
(***************************************************************************)

\* where an instruction starts: all templates are taken to be equally long
Nativeoff(i) == Length * (i - 1)

\* the templates that load from an object and go on
DerefOps ==
  {"getfield", "getfield2", "putfield", "putfield2", "array_check", "lastore",
   "dst_dastore", "arraylength", "monitorenter", "monitorexit"}

\* the templates marked OPC_SIGNAL
SignalOps ==
  DerefOps \cup {"idiv", "irem", "ldiv", "lrem", "inv_spe_obj", "invoke_core",
                 "athrow"}

\* the templates that need a class initialised
InitOps ==
  {"getstatic", "getstatic2", "putstatic", "putstatic2", "new", "invokestatic",
   "invokeignored_static", "inlined_enter"}

\* the sites that writeCode() covers with an int3 to have a class initialised
TrapsForInit(ins) ==
  /\ ins.op \in InitOps
  /\ ins.op = "inlined_enter" => ins.bc = "invokestatic"
  /\ ins.op = "new" \/ ins.cls \notin Ready

TrapsForIntf(ins) == ins.op = "invokeinterface"

Entry(ins, i) ==
  LET site == TrapsForInit(ins) \/ TrapsForIntf(ins)
  IN [start |-> Nativeoff(i), len |-> Length, byteoff |-> ins.off,
      opcode |-> IF site THEN ins.op ELSE None,
      cb |-> IF TrapsForInit(ins) THEN ins.cls ELSE None]

\* the templates that can be signalled
Covered(ins) == ins.op \in SignalOps \/ TrapsForInit(ins) \/ TrapsForIntf(ins)

\* The throw table of a method: each covered template appends its entry.
ThrowTable(insns) ==
  LET table[i \in 0 .. Len(insns)] ==
        IF i = 0 THEN << >>
        ELSE IF Covered(insns[i]) THEN Append(table[i - 1], Entry(insns[i], i))
        ELSE table[i - 1]
  IN table[Len(insns)]

\* the code of a method: cc tells whether a byte of the template is an int3
Planted(insns) ==
  [i \in DOMAIN insns |->
     [op |-> insns[i].op, off |-> insns[i].off, bc |-> insns[i].bc,
      cls |-> insns[i].cls, arg |-> insns[i].arg,
      cc |-> TrapsForInit(insns[i]) \/ TrapsForIntf(insns[i])]]

\* the address of that byte, and the template of an address
PatchAddr(i, op) ==
  Nativeoff(i) + (IF op = "invokeinterface" THEN INVINTF_PATCH_OFFSET ELSE 0)

InsnAt(addr) == addr \div Length + 1

(***************************************************************************)
(* State.                                                                  *)
(***************************************************************************)

VARIABLES
  stk,     \* each thread's stack of frames, the innermost last
  sig,     \* the signal a thread has been sent and not yet handled
  exc,     \* ee->exception of each thread
  code,    \* mb->CompiledCode of each method
  throwtable, \* CodeInfo.throwtable of each method
  tramp,   \* CodeInfo.trampoline: the operands written into it
  cls,     \* the state of each class
  cache,   \* the inline cache and the guess of each invokeinterface site
  dead     \* the process was ended by a signal nobody handled

vars == <<stk, sig, exc, code, throwtable, tramp, cls, cache, dead>>

\* a signal at offset off of the compiled code
Signal(name, off) == [name |-> name, off |-> off, lib |-> 0, margin |-> FALSE]
NoSignal == Signal(None, 0)

Sites == {s \in Methods \X (1 .. MaxInsns) :
            s[2] <= Len(Program[s[1]]) /\ TrapsForIntf(Program[s[1]][s[2]])}

Frame(m) ==
  [kind |-> "code", m |-> m, pc |-> 1, ph |-> "run", bytepc |-> Junk,
   method |-> None, obj |-> None, v1 |-> 0, eax |-> 0, ecx |-> 0, edx |-> 0]

Init ==
  /\ stk = [t \in Threads |-> <<Frame(Start[t])>>]
  /\ sig = [t \in Threads |-> NoSignal]
  /\ exc = [t \in Threads |-> None]
  /\ code = [m \in Methods |-> Planted(Program[m])]
  /\ throwtable = [m \in Methods |-> ThrowTable(Program[m])]
  /\ tramp = [m \in Methods |-> [cb |-> None, ee |-> None, pc |-> 0]]
  /\ cls = [c \in Classes |->
              [st |-> IF c \in Ready THEN "done" ELSE "new", by |-> None]]
  /\ cache = [s \in Sites |-> [key |-> None, method |-> None, guess |-> 0]]
  /\ dead = FALSE

\* Mutant of Covers: the first byte of a template is not covered.
CoversOpen(e, nativeoff) == e.start < nativeoff /\ nativeoff < e.start + e.len

Covers(e, nativeoff) == e.start <= nativeoff /\ nativeoff < e.start + e.len

\* The binary search in throw table T, from l and h.  Result: the index of the
\* entry that covers nativeoff, or 0.  The probe at l = h = throwtablelen is past
\* the table; it is taken to find nothing.
Bisection(T, nativeoff) ==
  LET search[r \in {r \in (0 .. Len(T)) \X (0 .. Len(T)) : r[1] <= r[2]}] ==
        LET l == r[1]
            h == r[2]
            index == l + (h - l) \div 2
        IN IF index < Len(T) /\ Covers(T[index + 1], nativeoff) THEN index + 1
           ELSE IF l = h THEN 0
           ELSE IF nativeoff < T[index + 1].start THEN search[<<l, index>>]
           ELSE search[<<index + 1, h>>]
  IN search

throwtableGet(m, nativeoff) ==
  Bisection(throwtable[m], nativeoff)[<<0, Len(throwtable[m])>>]

\* the opcode the handler reads at mb->code + byteoff
BytecodeAt(m, byteoff) ==
  code[m][CHOOSE i \in DOMAIN code[m] : code[m][i].off = byteoff].bc

Top(t) == stk[t][Len(stk[t])]
Below(t) == SubSeq(stk[t], 1, Len(stk[t]) - 1)
Insn(t) == code[Top(t).m][Top(t).pc]
Eip(t) == Nativeoff(Top(t).pc)

\* thread t executes compiled code and stands in phase ph of an instruction
At(t, ph) ==
  /\ ~dead /\ sig[t].name = None
  /\ stk[t] # <<>> /\ Top(t).kind = "code" /\ Top(t).ph = ph

SetTop(t, f) == stk' = [stk EXCEPT ![t][Len(stk[t])] = f]
Advance(f) == [f EXCEPT !.pc = @ + 1, !.ph = "run"]

CodeFrames(t) == Cardinality({k \in DOMAIN stk[t] : stk[t][k].kind = "code"})

Raise(t, s) ==
  /\ sig' = [sig EXCEPT ![t] = s]
  /\ UNCHANGED <<exc, code, throwtable, tramp, cls, cache, dead>>


(***************************************************************************)
(* Compiled code.                                                          *)
(***************************************************************************)

\* The int3 over a site: execution stops one byte further.
Trap(t) ==
  /\ \/ At(t, "run") /\ ~TrapsForIntf(Insn(t))
     \/ At(t, "bound")
  /\ Insn(t).cc
  /\ Raise(t, Signal("TRAP", PatchAddr(Top(t).pc, Insn(t).op) + 1))
  /\ UNCHANGED stk

\* The restored template of a site that needs its class: getstatic, putstatic
\* and new go on; inlined_enter makes room for the variables; invokestatic
\* leaves the method in %eax (the field method).
Use(t) ==
  /\ At(t, "run") /\ Insn(t).op \in InitOps /\ ~Insn(t).cc
  /\ SetTop(t, Advance([Top(t) EXCEPT
                          !.method = IF Insn(t).op = "invokestatic"
                                       THEN Insn(t).arg ELSE None]))
  /\ UNCHANGED <<sig, exc, code, throwtable, tramp, cls, cache, dead>>

\* bytepcoff = SLOT_BYTEPCOFF
inv_head(t) ==
  /\ At(t, "run") /\ Insn(t).op = "inv_head"
  /\ SetTop(t, Advance([Top(t) EXCEPT !.bytepc = Insn(t).off]))
  /\ UNCHANGED <<sig, exc, code, throwtable, tramp, cls, cache, dead>>

inlined_exit(t) ==
  /\ At(t, "run") /\ Insn(t).op = "inlined_exit"
  /\ SetTop(t, Advance(Top(t)))
  /\ UNCHANGED <<sig, exc, code, throwtable, tramp, cls, cache, dead>>

\* The access to an object, and the load of *obj that inv_spe_obj makes to be
\* faulted on null
Deref(t) ==
  /\ At(t, "run") /\ Insn(t).op \in DerefOps \cup {"inv_spe_obj"}
  /\ \/ /\ Raise(t, Signal("SEGV", Eip(t)))
        /\ UNCHANGED stk
     \/ /\ IF Insn(t).op \in DerefOps
             THEN SetTop(t, Advance(Top(t)))
             ELSE \E c \in Insn(t).cls :
                    SetTop(t, Advance([Top(t) EXCEPT !.obj = c]))
        /\ UNCHANGED <<sig, exc, code, throwtable, tramp, cls, cache, dead>>

Sign(v) == IF v < 0 THEN -1 ELSE 1
Abs(v) == v * Sign(v)
Quotient(a, b) == Sign(a) * Sign(b) * (Abs(a) \div Abs(b))
Remainder(a, b) == a - b * Quotient(a, b)

DivOps == {"idiv", "irem"}

\* idiv and irem, up to the idivl: %eax is the dividend and %ecx the divisor
DivLoad(t) ==
  /\ At(t, "run") /\ Insn(t).op \in DivOps
  /\ \E a, b \in Ints :
       SetTop(t, [Top(t) EXCEPT !.ph = "idivl", !.eax = a, !.ecx = b,
                                !.edx = IF a < 0 THEN -1 ELSE 0,
                                !.v1 = a])
  /\ UNCHANGED <<sig, exc, code, throwtable, tramp, cls, cache, dead>>

\* The idivl faults on a zero divisor and on a quotient that does not fit.
Idivl(t) ==
  /\ At(t, "idivl")
  /\ LET a == Top(t).eax  b == Top(t).ecx
         faults == IF b = 0 THEN TRUE ELSE Quotient(a, b) \notin Ints
     IN IF faults
          THEN /\ Raise(t, Signal("FPE", Eip(t) + 1))
               /\ UNCHANGED stk
          ELSE /\ SetTop(t, [Top(t) EXCEPT !.ph = "divided",
                                           !.eax = Quotient(a, b),
                                           !.edx = Remainder(a, b)])
               /\ UNCHANGED <<sig, exc, code, throwtable, tramp, cls, cache, dead>>

DivDone(t) ==
  /\ At(t, "divided")
  /\ SetTop(t, Advance([Top(t) EXCEPT !.v1 = 0, !.eax = 0, !.ecx = 0, !.edx = 0]))
  /\ UNCHANGED <<sig, exc, code, throwtable, tramp, cls, cache, dead>>

\* ldiv and lrem push their operands and call __divdi3() or __moddi3(), where
\* a zero divisor faults in the innermost of lib C frames.
ldiv(t) ==
  /\ At(t, "run") /\ Insn(t).op \in {"ldiv", "lrem"}
  /\ \/ \E lib \in LibFrames :
          /\ Raise(t, [Signal("FPE", 0) EXCEPT !.lib = lib])
          /\ UNCHANGED stk
     \/ /\ SetTop(t, Advance(Top(t)))
        /\ UNCHANGED <<sig, exc, code, throwtable, tramp, cls, cache, dead>>

\* athrow faults on null; SIGNAL_ERROR stores the offset of the others.
athrow(t) ==
  /\ At(t, "run") /\ Insn(t).op = "athrow"
  /\ \/ /\ Raise(t, Signal("SEGV", Eip(t)))
        /\ UNCHANGED stk
     \/ /\ exc' = [exc EXCEPT ![t] = Insn(t).arg]
        /\ SetTop(t, [Top(t) EXCEPT !.ph = "exc", !.bytepc = Insn(t).off])
        /\ UNCHANGED <<sig, code, throwtable, tramp, cls, cache, dead>>

\* invokeinterface compares the class of the receiver with the cached key...
CacheKey(t) ==
  /\ At(t, "run") /\ TrapsForIntf(Insn(t))
  /\ SetTop(t, [Top(t) EXCEPT
       !.ph = IF cache[<<Top(t).m, Top(t).pc>>].key = Top(t).obj
                THEN "hit" ELSE "miss"])
  /\ UNCHANGED <<sig, exc, code, throwtable, tramp, cls, cache, dead>>

\* ...and takes the cached method, jumping over the call and its int3.
CacheHit(t) ==
  /\ At(t, "hit")
  /\ SetTop(t, Advance([Top(t) EXCEPT
                          !.method = cache[<<Top(t).m, Top(t).pc>>].method]))
  /\ UNCHANGED <<sig, exc, code, throwtable, tramp, cls, cache, dead>>

\* Mutant of Slot: the guess is believed.
SlotGuessed(c, intf, guess) ==
  LET slots == {k \in DOMAIN Itable[c] : Itable[c][k] = intf}
  IN IF guess + 1 \in DOMAIN Itable[c] THEN guess + 1
     ELSE IF slots = {} THEN 0 ELSE CHOOSE k \in slots : \A j \in slots : j <= k

\* The slot of intf in the table of class c, 0 when c has none: the guess if
\* it is right, otherwise the last one.
Slot(c, intf, guess) ==
  LET slots == {k \in DOMAIN Itable[c] : Itable[c][k] = intf}
  IN CASE slots = {} -> 0
       [] guess + 1 \in slots -> guess + 1
       [] OTHER -> CHOOSE k \in slots : \A j \in slots : j <= k

\* whoever writes a cache holds CODE_LOCK
CodeLocked == \E u \in Threads : stk[u] # <<>> /\ Top(u).ph = "write"

\* getInterfaceMethod(): the guess is updated; the key is written, under
\* CODE_LOCK, before the method.
getInterfaceMethod(t) ==
  /\ At(t, "miss")
  /\ LET s == <<Top(t).m, Top(t).pc>>
         intf == Insn(t).arg
         k == Slot(Top(t).obj, intf, cache[s].guess)
     IN IF k = 0
          THEN /\ exc' = [exc EXCEPT ![t] = "IncompatibleClassChangeError"]
               /\ SetTop(t, [Top(t) EXCEPT !.ph = "bound", !.method = None])
               /\ UNCHANGED cache
          ELSE /\ ~CodeLocked
               /\ cache' = [cache EXCEPT ![s].guess = k - 1,
                                        ![s].key = Top(t).obj]
               /\ SetTop(t, [Top(t) EXCEPT !.ph = "write",
                                           !.method = Impl[<<Top(t).obj,
                                                          Itable[Top(t).obj][k]>>]])
               /\ UNCHANGED exc
  /\ UNCHANGED <<sig, code, throwtable, tramp, cls, dead>>

CacheWrite(t) ==
  /\ At(t, "write")
  /\ cache' = [cache EXCEPT ![<<Top(t).m, Top(t).pc>>].method = Top(t).method]
  /\ SetTop(t, [Top(t) EXCEPT !.ph = "bound"])
  /\ UNCHANGED <<sig, exc, code, throwtable, tramp, cls, dead>>

\* getInterfaceMethod() has returned and the int3 behind the call is gone
Bound(t) ==
  /\ At(t, "bound") /\ ~Insn(t).cc
  /\ SetTop(t, Advance(Top(t)))
  /\ UNCHANGED <<sig, exc, code, throwtable, tramp, cls, cache, dead>>

\* inv_vir_varspace reads method->nlocals
inv_vir_varspace(t) ==
  /\ At(t, "run") /\ Insn(t).op = "inv_vir_varspace"
  /\ IF Top(t).method = None
       THEN Raise(t, Signal("SEGV", Eip(t))) /\ UNCHANGED stk
       ELSE /\ SetTop(t, Advance(Top(t)))
            /\ UNCHANGED <<sig, exc, code, throwtable, tramp, cls, cache, dead>>

\* invoke_core loads a word below the stack before it calls
invoke_core(t) ==
  /\ At(t, "run") /\ Insn(t).op = "invoke_core"
  /\ IF CodeFrames(t) >= MaxFrames
       THEN /\ Raise(t, [Signal("SEGV", Eip(t)) EXCEPT !.margin = TRUE])
            /\ UNCHANGED stk
       ELSE /\ stk' = [stk EXCEPT ![t] =
                         Append(Append(Below(t), [Top(t) EXCEPT !.ph = "call"]),
                                Frame(Top(t).method))]
            /\ UNCHANGED <<sig, exc, code, throwtable, tramp, cls, cache, dead>>

\* The stack of t once its innermost frame has returned: the caller goes on
\* behind invoke_core, or to the exception handler.  InitClass() is told by
\* its phase that the initialiser is over.
Returned(s, pending) ==
  LET rest == SubSeq(s, 1, Len(s) - 1)
      n == Len(rest)
  IN IF n = 0 THEN rest
     ELSE IF rest[n].kind = "init"
       THEN [rest EXCEPT ![n].ph = "over"]
       ELSE [rest EXCEPT ![n] =
               IF pending THEN [@ EXCEPT !.ph = "exc", !.method = None, !.obj = None]
                          ELSE Advance([@ EXCEPT !.method = None, !.obj = None])]

return(t) ==
  /\ At(t, "run") /\ Insn(t).op = "return"
  /\ stk' = [stk EXCEPT ![t] = Returned(@, FALSE)]
  /\ UNCHANGED <<sig, exc, code, throwtable, tramp, cls, cache, dead>>

(***************************************************************************)
(* The signal handler.                                                     *)
(***************************************************************************)

\* The addresses at which the handler looks for a throw entry: %eip, then the
\* return addresses found from %ebp outwards, those of the C frames of a
\* library function first.  A frame that is not compiled code counts as one.
Addrs(t) ==
  LET n == Len(stk[t])
      in(k, off) == [frame |-> k, m |-> stk[t][k].m, off |-> off]
      outside == [frame |-> 0, m |-> None, off |-> 0]
      ret(k) == IF stk[t][k].kind = "code"
                  THEN in(k, Nativeoff(stk[t][k].pc) + Length - 1) ELSE outside
  IN (IF sig[t].lib = 0 THEN <<in(n, sig[t].off)>>
      ELSE Append([j \in 1 .. sig[t].lib |-> outside], ret(n)))
     \o [j \in 1 .. n - 1 |-> ret(n - j)]

Divisions == {"idiv", "irem", "ldiv", "lrem"}

\* The throw entry of a signal and the frame it belongs to, {} when there is
\* none.  The search goes IP_SEARCH_COUNT frames outwards; it does not leave
\* a frame whose entry is not that of a division when it looks for one.
Located(t) ==
  LET mb == Top(t).m
      addrs == Addrs(t)
      entries == [k \in DOMAIN addrs |->
                    IF addrs[k].m = mb THEN throwtableGet(mb, addrs[k].off) ELSE 0]
      hits == {k \in DOMAIN addrs : k <= IP_SEARCH_COUNT + 1 /\ entries[k] # 0}
      first == {k \in hits : \A j \in hits : k <= j}
  IN {[frame |-> addrs[k].frame, entry |-> throwtable[mb][entries[k]]] :
        k \in {j \in first :
                j > 1 /\ sig[t].name = "FPE" =>
                  BytecodeAt(mb, throwtable[mb][entries[j]].byteoff) \in Divisions}}

\* signal_handler_error, or FALSE to a virtual machine that has no other use
\* for the signal: the process ends
Fatal == dead' = TRUE /\ UNCHANGED <<stk, exc, code, throwtable, tramp, cls, cache>>

\* Mutant of ToHandler: bytepcoff is left as it was.
ToHandlerBare(t, found, e) ==
  /\ exc' = [exc EXCEPT ![t] = e]
  /\ stk' = [stk EXCEPT ![t] =
       [k \in 1 .. found.frame |->
          IF k < found.frame THEN @[k]
          ELSE [@[k] EXCEPT !.ph = "exc", !.method = None, !.obj = None,
                            !.v1 = 0, !.eax = 0, !.ecx = 0, !.edx = 0]]]
  /\ UNCHANGED <<code, throwtable, tramp, cls, cache, dead>>

\* bytepcoff = tentry->byteoff; %eip = exc_handler
ToHandler(t, found, e) ==
  /\ exc' = [exc EXCEPT ![t] = e]
  /\ stk' = [stk EXCEPT ![t] =
       [k \in 1 .. found.frame |->
          IF k < found.frame THEN @[k]
          ELSE [@[k] EXCEPT !.ph = "exc", !.bytepc = found.entry.byteoff,
                            !.method = None, !.obj = None,
                            !.v1 = 0, !.eax = 0, !.ecx = 0, !.edx = 0]]]
  /\ UNCHANGED <<code, throwtable, tramp, cls, cache, dead>>

SignalSegv(t, found) ==
  /\ sig[t].name = "SEGV"
  /\ ToHandler(t, found, IF exc[t] # None THEN exc[t]
                         ELSE IF sig[t].margin THEN "StackOverflowError"
                         ELSE "NullPointerException")

\* Mutant of SignalFpe: the remainder is not set.
SignalFpeHalf(t, found) ==
  /\ sig[t].name = "FPE"
  /\ LET f == Top(t)
         opcode == BytecodeAt(f.m, found.entry.byteoff)
     IN IF f.ecx = 0 \/ opcode \notin DivOps
          THEN ToHandler(t, found, "ArithmeticException")
          ELSE /\ SetTop(t, [f EXCEPT !.ph = "divided", !.eax = MinInt,
                                      !.bytepc = found.entry.byteoff])
               /\ UNCHANGED <<exc, code, throwtable, tramp, cls, cache, dead>>

\* the bytecode is that of the method itself, not of one inlined into it
SignalFpe(t, found) ==
  /\ sig[t].name = "FPE"
  /\ LET f == Top(t)
         opcode == BytecodeAt(f.m, found.entry.byteoff)
         tooBig == f.eax = MinInt /\ f.ecx = -1
     IN CASE opcode \in {"ldiv", "lrem"} \/ (opcode \in DivOps /\ f.ecx = 0) ->
               ToHandler(t, found, "ArithmeticException")
          [] opcode \in DivOps /\ tooBig ->
               /\ SetTop(t, [f EXCEPT !.ph = "divided", !.eax = MinInt, !.edx = 0,
                                      !.bytepc = found.entry.byteoff])
               /\ UNCHANGED <<exc, code, throwtable, tramp, cls, cache, dead>>
          [] OTHER -> Fatal

\* SIGTRAP behind the call of getInterfaceMethod()
SignalTrapIntf(t, tentry) ==
  /\ sig[t].name = "TRAP" /\ tentry.opcode = "invokeinterface"
  /\ code' = [code EXCEPT ![Top(t).m][InsnAt(sig[t].off - 1)].cc = FALSE]
  /\ SetTop(t, IF Top(t).method # None
                 THEN Advance(Top(t))
                 ELSE [Top(t) EXCEPT !.ph = "exc", !.bytepc = tentry.byteoff])
  /\ UNCHANGED <<exc, throwtable, tramp, cls, cache, dead>>

\* Mutant of SignalTrapInit: the trampoline is filled in once per method.
SignalTrapInitOnce(t, tentry) ==
  /\ sig[t].name = "TRAP" /\ tentry.opcode \in InitOps
  /\ LET mb == Top(t).m
         pc == sig[t].off - 1
     IN /\ code' = [code EXCEPT ![mb][InsnAt(pc)].cc = FALSE]
        /\ tramp' = [tramp EXCEPT ![mb] =
             IF @.cb = None THEN [cb |-> tentry.cb, ee |-> t, pc |-> pc] ELSE @]
        /\ stk' = [stk EXCEPT ![t] = Append(@,
                     [kind |-> "trampoline", m |-> mb, ph |-> "push",
                      cb |-> None, ee |-> None, pc |-> 0])]
  /\ UNCHANGED <<exc, throwtable, cls, cache, dead>>

\* Mutant of SignalTrapInit: the int3 stays.
SignalTrapInitStays(t, tentry) ==
  /\ sig[t].name = "TRAP" /\ tentry.opcode \in InitOps
  /\ tramp' = [tramp EXCEPT ![Top(t).m] =
                 [cb |-> tentry.cb, ee |-> t, pc |-> sig[t].off - 1]]
  /\ stk' = [stk EXCEPT ![t] = Append(@,
               [kind |-> "trampoline", m |-> Top(t).m, ph |-> "push",
                cb |-> None, ee |-> None, pc |-> 0])]
  /\ UNCHANGED <<exc, code, throwtable, cls, cache, dead>>

\* SIGTRAP at a site that needs a class.  The int3 is overwritten first, then
\* the thread is sent through the trampoline, whose operands are written here
\* and which all the sites and all the threads of a method share.
SignalTrapInit(t, tentry) ==
  /\ sig[t].name = "TRAP" /\ tentry.opcode \in InitOps
  /\ LET mb == Top(t).m
         pc == sig[t].off - 1
     IN /\ code' = [code EXCEPT ![mb][InsnAt(pc)].cc = FALSE]
        /\ tramp' = [tramp EXCEPT ![mb] = [cb |-> tentry.cb, ee |-> t, pc |-> pc]]
        /\ stk' = [stk EXCEPT ![t] = Append(@,
                     [kind |-> "trampoline", m |-> mb, ph |-> "push",
                      cb |-> None, ee |-> None, pc |-> 0])]
  /\ UNCHANGED <<exc, throwtable, cls, cache, dead>>

signalHandler(t) ==
  /\ ~dead /\ sig[t].name # None
  /\ sig' = [sig EXCEPT ![t] = NoSignal]
  /\ LET found == Located(t)
     IN IF found = {} THEN Fatal
        ELSE \E f \in found : \/ SignalSegv(t, f)
                             \/ SignalFpe(t, f)
                             \/ SignalTrapIntf(t, f.entry)
                             \/ SignalTrapInit(t, f.entry)

(***************************************************************************)
(* The trampoline and the initialisation of a class.                       *)
(***************************************************************************)

InFrame(t, kind, ph) ==
  /\ ~dead /\ sig[t].name = None
  /\ stk[t] # <<>> /\ Top(t).kind = kind /\ Top(t).ph = ph

\* pushl <orig. PC>; pushl cb; pushl ee
TrampolinePush(t) ==
  /\ InFrame(t, "trampoline", "push")
  /\ LET op == tramp[Top(t).m]
     IN SetTop(t, [Top(t) EXCEPT !.ph = "call", !.cb = op.cb, !.ee = op.ee,
                                 !.pc = op.pc])
  /\ UNCHANGED <<sig, exc, code, throwtable, tramp, cls, cache, dead>>

\* Mutant of once_InitClass: a class that another thread initialises will do.
once_InitClassEager(t) ==
  /\ InFrame(t, "trampoline", "call")
  /\ LET f == [Top(t) EXCEPT !.ph = "ret"]
     IN IF cls[f.cb].st # "new"
          THEN SetTop(t, f)
          ELSE stk' = [stk EXCEPT ![t] = Append(Append(Below(t), f),
                         [kind |-> "init", c |-> f.cb, ph |-> "begin"])]
  /\ UNCHANGED <<sig, exc, code, throwtable, tramp, cls, cache, dead>>

once_InitClass(t) ==
  /\ InFrame(t, "trampoline", "call")
  /\ LET f == [Top(t) EXCEPT !.ph = "ret"]
     IN IF cls[f.cb].st = "done"
          THEN SetTop(t, f)
          ELSE stk' = [stk EXCEPT ![t] = Append(Append(Below(t), f),
                         [kind |-> "init", c |-> f.cb, ph |-> "begin"])]
  /\ UNCHANGED <<sig, exc, code, throwtable, tramp, cls, cache, dead>>

\* The virtual machine's InitClass(): one thread runs the initialiser, the
\* others wait, the thread itself passes, and a failure is for ever.
InitClass(t) ==
  /\ InFrame(t, "init", "begin")
  /\ LET c == Top(t).c
     IN /\ cls[c].st = "running" => cls[c].by = t
        /\ IF cls[c].st = "new"
             THEN IF Clinit[c] = None
                    THEN /\ cls' = [cls EXCEPT ![c].st = "done"]
                         /\ stk' = [stk EXCEPT ![t] = Below(t)]
                    ELSE /\ cls' = [cls EXCEPT ![c] = [st |-> "running", by |-> t]]
                         /\ stk' = [stk EXCEPT ![t] =
                              Append(Append(Below(t), [Top(t) EXCEPT !.ph = "run"]),
                                     Frame(Clinit[c]))]
             ELSE stk' = [stk EXCEPT ![t] = Below(t)] /\ UNCHANGED cls
        /\ exc' = [exc EXCEPT ![t] =
              IF cls[c].st = "failed" THEN "NoClassDefFoundError" ELSE @]
  /\ UNCHANGED <<sig, code, throwtable, tramp, cache, dead>>

InitClassOver(t) ==
  /\ InFrame(t, "init", "over")
  /\ LET ok == exc[t] = None
     IN /\ cls' = [cls EXCEPT ![Top(t).c] =
              [st |-> IF ok THEN "done" ELSE "failed", by |-> None]]
        /\ exc' = [exc EXCEPT ![t] =
              IF ok THEN None ELSE "ExceptionInInitializerError"]
  /\ stk' = [stk EXCEPT ![t] = Below(t)]
  /\ UNCHANGED <<sig, code, throwtable, tramp, cache, dead>>

\* once_InitClass() returned exceptionOccurred(ee): jnz <exc handler>, or
\* jmp *%eax to the restored site.  Nothing stores bytepcoff.
TrampolineReturn(t) ==
  /\ InFrame(t, "trampoline", "ret")
  /\ LET f == Top(t)
         n == Len(stk[t]) - 1
     IN stk' = [stk EXCEPT ![t] =
          [Below(t) EXCEPT ![n] =
             IF exc[f.ee] # None THEN [@ EXCEPT !.ph = "exc"]
                                 ELSE [@ EXCEPT !.pc = InsnAt(f.pc), !.ph = "run"]]]
  /\ UNCHANGED <<sig, exc, code, throwtable, tramp, cls, cache, dead>>

(***************************************************************************)
(* Exceptions.                                                             *)
(***************************************************************************)

\* the class of an exception and its superclasses
Superclasses(e) == {e, "Throwable"}

\* the first entry of the exception table that covers bytepc and accepts e
searchCatchFrame(m, bytepc, e) ==
  LET fits(cf) == /\ cf.from <= bytepc /\ bytepc < cf.to
                  /\ cf.type = "any" \/ cf.type \in Superclasses(e)
      found == {k \in DOMAIN Handlers[m] : fits(Handlers[m][k])}
  IN IF found = {} THEN 0 ELSE CHOOSE k \in found : \A j \in found : k <= j

\* exceptionHandler: without a pending exception one is made of what is in
\* %al; bytepcoff may never have been stored
exceptionHandler(t) ==
  /\ At(t, "exc")
  /\ LET f == Top(t)
         e == IF exc[t] = None THEN "Unknown" ELSE exc[t]
     IN \E b \in IF f.bytepc = Junk THEN {code[f.m][i].off : i \in DOMAIN code[f.m]}
                                    ELSE {f.bytepc} :
          LET k == searchCatchFrame(f.m, b, e)
          IN IF k = 0
               THEN /\ exc' = [exc EXCEPT ![t] = e]
                    /\ stk' = [stk EXCEPT ![t] = Returned(@, TRUE)]
               ELSE /\ exc' = [exc EXCEPT ![t] = None]
                    /\ SetTop(t, [f EXCEPT !.pc = Handlers[f.m][k].at,
                                           !.ph = "run"])
  /\ UNCHANGED <<sig, code, throwtable, tramp, cls, cache, dead>>

Step(t) ==
  \/ Trap(t) \/ Use(t) \/ inv_head(t) \/ inlined_exit(t) \/ Deref(t)
  \/ DivLoad(t) \/ Idivl(t) \/ DivDone(t) \/ ldiv(t) \/ athrow(t)
  \/ CacheKey(t) \/ CacheHit(t) \/ getInterfaceMethod(t) \/ CacheWrite(t)
  \/ Bound(t) \/ inv_vir_varspace(t) \/ invoke_core(t) \/ return(t)
  \/ signalHandler(t) \/ TrampolinePush(t) \/ once_InitClass(t) \/ InitClass(t)
  \/ InitClassOver(t) \/ TrampolineReturn(t) \/ exceptionHandler(t)

Next == \E t \in Threads : Step(t)

Spec == Init /\ [][Next]_vars /\ WF_vars(Next)

(***************************************************************************)
(* What the programs are.                                                  *)
(***************************************************************************)

\* the instructions that go on with a call another one has begun
ChainOps ==
  {"inv_spe_obj", "invokestatic", "invokeinterface", "inv_vir_varspace",
   "invoke_core"}

\* instruction i of P goes on with the call of the one before it
Chained(P, i) ==
  /\ i > 1 /\ P[i - 1].off = P[i].off
  /\ P[i].op \in {"inv_spe_obj", "invokestatic"} => P[i - 1].op = "inv_head"
  /\ P[i].op = "invokeinterface" => P[i - 1].op = "inv_spe_obj"
  /\ P[i].op = "inv_vir_varspace" => P[i - 1].op = "invokeinterface"
  /\ P[i].op = "invoke_core" =>
       IF P[i].bc = "invokeinterface"
         THEN P[i - 1].op = "inv_vir_varspace" /\ P[i - 2].arg = P[i].arg
         ELSE P[i - 1].op = "invokestatic"

\* The code of a method made of static and interface calls, accesses, divisions
\* and throws: every receiver has the interface it is called through, and every
\* division is one of the method itself, none of a method expanded into it.
CompiledMethod(m) ==
  LET P == Program[m]
      n == Len(P)
  IN /\ n \in 1 .. MaxInsns /\ DOMAIN P = 1 .. n
     /\ P[n].op \in {"return", "athrow"}
     /\ \A i \in 1 .. n :
          /\ P[i].op \in ChainOps => Chained(P, i)
          /\ P[i].op = "invokestatic" => P[i].arg \in Methods
          /\ P[i].op = "invokeinterface" =>
               \A c \in P[i - 1].cls :
                 /\ c \in Classes /\ Impl[<<c, P[i].arg>>] \in Methods
                 /\ \E k \in DOMAIN Itable[c] : Itable[c][k] = P[i].arg
          /\ P[i].op \in {"idiv", "irem", "ldiv", "lrem"} => P[i].bc = P[i].op
          /\ TrapsForInit(P[i]) => P[i].cls \in Classes
          /\ \A j \in 1 .. n : P[j].off = P[i].off => P[j].bc = P[i].bc
     /\ DOMAIN Handlers[m] \subseteq Nat \ {0}
     /\ \A k \in DOMAIN Handlers[m] :
          Handlers[m][k].at \in 1 .. n /\ P[Handlers[m][k].at].op \notin ChainOps

Compiled ==
  /\ MaxInsns \in Nat /\ Length \in Nat /\ Length > INVINTF_PATCH_OFFSET + 1
  /\ LibFrames \subseteq 1 .. IP_SEARCH_COUNT
  /\ None \notin Methods \cup Classes
  /\ \A t \in Threads : Start[t] \in Methods
  /\ \A c \in Classes : /\ Clinit[c] \in Methods \cup {None}
                        /\ Len(Itable[c]) \in Nat
                        /\ DOMAIN Itable[c] = 1 .. Len(Itable[c])
  /\ \A m \in Methods : CompiledMethod(m)

\* No two threads are in the same method at a time.
Unraced ==
  \A t, u \in Threads : t # u =>
    \A j \in DOMAIN stk[t], k \in DOMAIN stk[u] :
      stk[t][j].kind # "init" /\ stk[u][k].kind # "init"
        => stk[t][j].m # stk[u][k].m

\* A class whose initialiser fails is initialised for a static call, whose
\* inv_head has stored the bytecode offset.
FailsAtCalls ==
  \A t \in Threads :
    InFrame(t, "trampoline", "ret") /\ exc[t] # None =>
      LET g == stk[t][Len(stk[t]) - 1] IN code[g.m][g.pc].op = "invokestatic"

(***************************************************************************)
(* Properties.                                                             *)
(***************************************************************************)

\* A signal that compiled code raises is always answered: signalHandler()
\* finds its throw entry and what to do, and never ends the process.
SignalsAnswered == ~dead

\* Quotient and remainder are those of Java, also when idivl faulted because
\* the quotient of the smallest int by -1 does not fit: MIN_VALUE and 0.
DivisionRight ==
  \A t \in Threads : \A k \in DOMAIN stk[t] :
    LET f == stk[t][k]
    IN f.kind = "code" /\ f.ph = "divided" =>
         IF f.v1 = MinInt /\ f.ecx = -1
           THEN f.eax = MinInt /\ f.edx = 0
           ELSE f.eax = Quotient(f.v1, f.ecx) /\ f.edx = Remainder(f.v1, f.ecx)

\* No thread runs the template of a static access, an instance creation, a
\* static call or an inlined static method before the class is initialised
\* or is being initialised by the thread itself: removing the int3 never
\* opens the site too early.
InitBeforeUse ==
  \A t \in Threads :
    At(t, "run") /\ Insn(t).op \in InitOps
      /\ ~Insn(t).cc
    => \/ cls[Insn(t).cls].st = "done"
       \/ cls[Insn(t).cls].st = "running" /\ cls[Insn(t).cls].by = t

\* The trampoline belongs to the method, not to the site: whatever the static
\* initialiser runs, sites of the same method included, the thread comes back
\* to the site it trapped at, having initialised that site's class.
ResumesAtTrap ==
  \A t \in Threads : \A k \in DOMAIN stk[t] :
    LET f == stk[t][k]
    IN f.kind = "trampoline" /\ f.ph # "push" =>
         LET g == stk[t][k - 1]
         IN /\ f.pc = Nativeoff(g.pc)
            /\ f.cb = code[g.m][g.pc].cls
            /\ f.ee = t

\* The handler of an exception is looked for at the bytecode that raised it:
\* -4(%ebp) is current whenever exceptionHandler is entered.
ThrownHere ==
  \A t \in Threads : At(t, "exc") => Top(t).bytepc = Insn(t).off

\* A call through an interface reaches the receiver's own method, whether the
\* inline cache, the guess or the search found it.
DispatchRight ==
  \A t \in Threads :
    At(t, "run") /\ Insn(t).op = "invoke_core" /\ Insn(t).bc = "invokeinterface"
    => Top(t).method = Impl[<<Top(t).obj, Insn(t).arg>>]

\* Every thread finishes: no site traps for ever, no class is waited for in
\* vain.
Finishes == <>(dead \/ \A t \in Threads : stk[t] = <<>>)
=============================================================================
