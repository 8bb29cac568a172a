----------------------------- MODULE NativeCode -----------------------------
(***************************************************************************)
(* The pre-assembled code of code.c: for every internal opcode and every   *)
(* state of the stack cache the i386 instructions that the compiler copies *)
(* into a method (code_table[opcode][state]) and the state they leave.     *)
(*                                                                         *)
(* The two topmost words of the operand stack may be cached in registers.  *)
(* The states are (top of stack last)                                      *)
(*    0: none   1: edx   2: edx, ecx   3: ecx   4: ecx, edx                *)
(*                                                                         *)
(* Words are symbolic terms: a leaf <<"x1">>, or an operator applied to    *)
(* terms.  Two computations are the same when their terms are the same.    *)
(* A template is the sequence of instructions that it EXECUTES under env,  *)
(* the run-time conditions it branches on:                                 *)
(*    env.metavm   built with MetaVM                                       *)
(*    env.remote   the thread works remotely and the object or array is a  *)
(*                 proxy of one on another machine                         *)
(*    env.near     ... but creates objects locally: it has no remote       *)
(*                 "address", or the "class" is passed by value            *)
(*    env.null     the reference tested for its class is null              *)
(*    env.neg      the integer is negative                                 *)
(*    env.wide     a 64-bit shift count has bit 5 set                      *)
(* Exceptions leave a template for the handler and are not followed.       *)
(***************************************************************************)
EXTENDS Naturals, Integers, Sequences, SequencesExt

ST    == 0 .. 4
STSTA == 5                      \* "stays": the state is left as it is

Commutative == {"add", "imul", "and", "or", "xor", "fadd", "fmul",
                "dadd", "dmul", "adc", "mullo", "mulhi"}

\* A word computed from two words, and from two words and the carry flag.
Term(op, a, b) == IF op \in Commutative THEN <<op, {a, b}>> ELSE <<op, a, b>>
TermC(op, a, b, c) ==
    IF op \in Commutative THEN <<op, {a, b}, c>> ELSE <<op, a, b, c>>

\* The idiom that extends the low bits of a register: shl $n, then sar or shr $n.
Unary(op, a) ==
    CASE op = "sar24" /\ a[1] = "shl24" -> <<"sext8", a[2]>>
      [] op = "sar16" /\ a[1] = "shl16" -> <<"sext16", a[2]>>
      [] op = "shr16" /\ a[1] = "shl16" -> <<"zext16", a[2]>>
      [] OTHER -> <<op, a>>

Junk == <<"junk">>
Zero == <<"0">>
EE   == <<"ee">>

\* Words of the heap: the body of an array and its elements.
Body(h)          == <<"body", h>>
Elem(kind, b, i) == <<"elem", kind, b, i>>

\* The FPU value of two words; storing a double and loading it gives it back.
Double(hi, lo) ==
    IF hi[1] = "dhi" /\ lo = <<"dlo", hi[2]>> THEN hi[2] ELSE <<"dld", hi, lo>>

-----------------------------------------------------------------------------
(***************************************************************************)
(* Operands and instructions.                                              *)
(***************************************************************************)
Reg(r)    == [k |-> "reg", a |-> r]
Imm(w)    == [k |-> "imm", a |-> w]
Stk(i)    == [k |-> "stk", a |-> i]      \* 4*i(%esp)
Var(i)    == [k |-> "var", a |-> i]      \* 4*i(%esi), a local variable
Static(i) == [k |-> "stat", a |-> i]     \* a word of a static field
At(kind, base, index) ==                 \* (base,index), an array element
    [k |-> "at", a |-> kind, b |-> base.a, c |-> index.a]

edx == Reg("edx")
ecx == Reg("ecx")
eax == Reg("eax")
edi == Reg("edi")

\* The word at the next higher address.
HighWord(x) == IF x.k = "at" THEN [x EXCEPT !.a = <<"hi">>] ELSE [x EXCEPT !.a = @ + 1]

movl(s, d)    == [i |-> "movl", s |-> s, d |-> d]
pushl(s)      == [i |-> "pushl", s |-> s]
popl(d)       == [i |-> "popl", d |-> d]
xchg          == [i |-> "xchg"]
addlesp(n)    == [i |-> "esp", n |-> n]               \* addl $4*n,%esp
alu(op, s, d) == [i |-> "alu", op |-> op, s |-> s, d |-> d]
alc(op, s, d) == [i |-> "alc", op |-> op, s |-> s, d |-> d]
un(op, d)     == [i |-> "un", op |-> op, d |-> d]
shxd(op, s, d) == [i |-> "shxd", op |-> op, s |-> s, d |-> d]   \* by %cl
op2(op, a, b, d) == [i |-> "op2", op |-> op, s |-> a, s2 |-> b, d |-> d]
clobber(d)    == movl(Imm(Junk), d)
flds(s)       == [i |-> "flds", s |-> s]
fldl(s)       == [i |-> "fldl", s |-> s]
fild(s)       == [i |-> "fild", s |-> s]
fildll(s)     == [i |-> "fildll", s |-> s]
fstps(d)      == [i |-> "fstps", d |-> d]
fstpl(d)      == [i |-> "fstpl", d |-> d]
fist(op, d)   == [i |-> "fist", op |-> op, d |-> d]
fistll(op, d) == [i |-> "fistll", op |-> op, d |-> d]
fops(op, s)   == [i |-> "fops", op |-> op, s |-> s]
fopl(op, s)   == [i |-> "fopl", op |-> op, s |-> s]
fcmp(d)       == [i |-> "fcmp", d |-> d]
fun(op)       == [i |-> "fun", op |-> op]             \* of the topmost FPU value
fpatan        == [i |-> "fpatan"]
call(f, kind) == [i |-> "call", f |-> f, kind |-> kind]
effect(e, ss) == [i |-> "effect", e |-> e, ss |-> ss]

(***************************************************************************)
(* The machine: registers, the stack (mem[esp] is (%esp); words beyond esp *)
(* stay in memory), the FPU stack, the carry flag, local variables, static *)
(* fields, and the sequence of effects on the heap and on control.         *)
(***************************************************************************)
Read(m, x) ==
    CASE x.k = "reg"  -> m.reg[x.a]
      [] x.k = "imm"  -> x.a
      [] x.k = "stk"  -> m.mem[m.esp - x.a]
      [] x.k = "var"  -> m.vars[x.a]
      [] x.k = "stat" -> m.stat[x.a]
      [] x.k = "at"   -> Elem(x.a, m.reg[x.b], m.reg[x.c])

Write(m, x, w) ==
    CASE x.k = "reg"  -> [m EXCEPT !.reg[x.a] = w]
      [] x.k = "stk"  -> [m EXCEPT !.mem[m.esp - x.a] = w]
      [] x.k = "var"  -> [m EXCEPT !.vars[x.a] = w]
      [] x.k = "stat" -> [m EXCEPT !.stat[x.a] = w]

Write2(m, x, hi, lo) == Write(Write(m, x, lo), HighWord(x), hi)

Effect(m, e) == [m EXCEPT !.out = Append(@, e)]

PushFPU(m, f) == [m EXCEPT !.fpu = Append(@, f)]
\* Reading an empty FPU stack gives the indefinite value (exceptions masked).
TopFPU(m)     == IF m.fpu = <<>> THEN <<"indefinite">> ELSE Last(m.fpu)
PopFPU(m)     == [m EXCEPT !.fpu = IF @ = <<>> THEN @ ELSE Front(@)]

\* A C function: arguments on the stack, the result in eax (and edx) or on
\* the FPU stack; ecx and edx are not preserved.
Call(m, f, kind) ==
    LET a(k) == m.mem[m.esp - k]
        ret(lo, hi) == [m EXCEPT !.reg["eax"] = lo, !.reg["edx"] = hi,
                                 !.reg["ecx"] = Junk]
    IN  CASE f = "ldiv"    -> LET q == <<"ldiv", kind, a(1), a(0), a(3), a(2)>>
                                IN  ret(<<"lo", q>>, <<"hi", q>>)
          [] f = "fmod"    -> PushFPU(ret(Junk, Junk),
                                     <<"fmod", Double(a(1), a(0)), Double(a(3), a(2))>>)
          [] f = "aload"   -> ret(Elem(kind, Body(a(1)), a(2)), Junk)
          [] f = "aload64" -> ret(Elem(<<"lo">>, Body(a(1)), a(2)),
                                       Elem(<<"hi">>, Body(a(1)), a(2)))
          [] f = "astore"  -> Effect(ret(Junk, Junk),
                                     <<"store", kind, Body(a(1)), a(2), a(3)>>)
          [] f = "astore64" -> Effect(ret(Junk, Junk),
                                     <<"store64", Body(a(1)), a(2), a(4), a(3)>>)
          [] f = "is_instance_of" -> Effect(ret(<<"is", a(0), a(1)>>, Junk),
                                     <<"instance", a(0), a(1)>>)
          [] f = "newobject"   -> ret(<<"new", a(0)>>, Junk)
          [] f = "isByValue"   -> ret(Junk, Junk)
          [] f = "proxy_new"   -> ret(<<"proxy", a(3)>>, Junk)
          [] f = "allocArray"  -> ret(<<"array", a(1), a(2)>>, Junk)
          [] f = "proxy_newarray" -> ret(<<"proxy array", a(3), a(4)>>, Junk)
          [] f = "arraylength" -> ret(<<"len", a(1)>>, Junk)
          [] f = "monitor"     -> Effect(ret(Junk, Junk), <<kind, a(1)>>)
          [] f = "math"        -> PushFPU(ret(Junk, Junk), <<kind, Double(a(1), a(0))>>)
          [] f = "multianewarray" ->      \* kind.skip words above the dimensions
               ret(<<kind.what, [k \in 1 .. kind.n |-> a(kind.skip + kind.n - k)]>>, Junk)
          [] f = "invoke"      ->         \* the callee keeps its variables in its arguments
               LET args == [k \in 1 .. kind.n |-> a(kind.skip + kind.n - k)]
                   c == ret(Junk, IF kind.ret = 0 THEN Junk
                                  ELSE IF kind.ret = 1 THEN <<"result", args>>
                                  ELSE <<"lo", <<"result", args>>>>)
               IN  Effect([c EXCEPT !.reg["ecx"] = IF kind.ret = 2 THEN <<"hi", <<"result", args>>>>
                                                   ELSE Junk,
                                    !.mem = [k \in DOMAIN @ |->
                                               IF k \in m.esp - kind.skip - kind.n + 1 .. m.esp
                                               THEN Junk ELSE @[k]]],
                          <<"invoke", a(0), args>>)

Exec(m, x) ==
    CASE x.i = "movl"   -> Write(m, x.d, Read(m, x.s))
      [] x.i = "pushl"  -> LET w == Read(m, x.s)
                           IN  Write([m EXCEPT !.esp = @ + 1], Stk(0), w)
      [] x.i = "popl"   -> Write([m EXCEPT !.esp = @ - 1], x.d, Read(m, Stk(0)))
      [] x.i = "xchg"   -> [m EXCEPT !.reg["edx"] = m.reg["ecx"],
                                     !.reg["ecx"] = m.reg["edx"]]
      [] x.i = "esp"    -> [m EXCEPT !.esp = @ - x.n]
      [] x.i = "alu"    -> LET w == Term(x.op, Read(m, x.d), Read(m, x.s))
                           IN  [Write(m, x.d, w) EXCEPT !.cf = <<"cf", w>>]
      [] x.i = "alc"    -> Write(m, x.d, TermC(x.op, Read(m, x.d), Read(m, x.s), m.cf))
      [] x.i = "shxd"   -> Write(m, x.d, TermC(x.op, Read(m, x.d), Read(m, x.s), m.reg["ecx"]))
      [] x.i = "un"     -> LET w == Unary(x.op, Read(m, x.d))
                           IN  [Write(m, x.d, w) EXCEPT !.cf = <<"cf", w>>]
      [] x.i = "op2"    -> Write(m, x.d, Term(x.op, Read(m, x.s), Read(m, x.s2)))
      [] x.i = "flds"   -> PushFPU(m, <<"fld", Read(m, x.s)>>)
      [] x.i = "fldl"   -> PushFPU(m, Double(Read(m, HighWord(x.s)), Read(m, x.s)))
      [] x.i = "fild"   -> PushFPU(m, <<"fild", Read(m, x.s)>>)
      [] x.i = "fildll" -> PushFPU(m, <<"fildll", Read(m, HighWord(x.s)), Read(m, x.s)>>)
      [] x.i = "fstps"  -> PopFPU(Write(m, x.d, <<"fst", TopFPU(m)>>))
      [] x.i = "fstpl"  -> PopFPU(Write2(m, x.d, <<"dhi", TopFPU(m)>>, <<"dlo", TopFPU(m)>>))
      [] x.i = "fist"   -> PopFPU(Write(m, x.d, <<x.op, TopFPU(m)>>))
      [] x.i = "fistll" -> PopFPU(Write2(m, x.d, <<"hi", <<x.op, TopFPU(m)>>>>,
                                                 <<"lo", <<x.op, TopFPU(m)>>>>))
      [] x.i = "fops"   -> PushFPU(PopFPU(m),
                             Term(x.op, TopFPU(m), <<"fld", Read(m, x.s)>>))
      [] x.i = "fopl"   -> PushFPU(PopFPU(m),
                             Term(x.op, TopFPU(m), Double(Read(m, HighWord(x.s)), Read(m, x.s))))
      [] x.i = "fcmp"   -> PopFPU(Write(m, x.d, TopFPU(m)))
      [] x.i = "fun"    -> PushFPU(PopFPU(m), <<x.op, TopFPU(m)>>)
      [] x.i = "fpatan" -> PushFPU(PopFPU(PopFPU(m)), <<"atan2", TopFPU(PopFPU(m)), TopFPU(m)>>)
      [] x.i = "call"   -> Call(m, x.f, x.kind)
      [] x.i = "effect" -> Effect(m, <<x.e>> \o [k \in DOMAIN x.ss |-> Read(m, x.ss[k])])

Run(m, insns) == FoldLeft(Exec, m, insns)
=============================================================================
