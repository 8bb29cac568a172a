------------------------------ MODULE MCSignals ------------------------------
(* Instances of Signals.                                                   *)
EXTENDS Signals, TLC

I(op, off, bc, cls0, arg) ==
  [op |-> op, off |-> off, bc |-> bc, cls |-> cls0, arg |-> arg]

StaticCall(off, c, m) ==
  <<I("inv_head", off, "invokestatic", None, None),
    I("invokestatic", off, "invokestatic", c, m),
    I("invoke_core", off, "invokestatic", None, None)>>

IntfCall(off, receivers, intf) ==
  <<I("inv_head", off, "invokeinterface", None, None),
    I("inv_spe_obj", off, "invokeinterface", receivers, None),
    I("invokeinterface", off, "invokeinterface", None, intf),
    I("inv_vir_varspace", off, "invokeinterface", None, None),
    I("invoke_core", off, "invokeinterface", None, intf)>>

\* a static method of class c expanded at off
InlinedCall(off, c, op) ==
  <<I("inlined_enter", off, "invokestatic", c, None),
    I(op, off, "invokestatic", None, None),
    I("inlined_exit", off, "invokestatic", None, None)>>

Simple(op, off, c) == <<I(op, off, op, c, None)>>
Return(off) == Simple("return", off, None)

MixedProgram ==
  [main |-> StaticCall(0, "A", "work") \o StaticCall(3, "A", "work")
              \o StaticCall(6, "F", "call")
              \o StaticCall(9, "A", "deep") \o Return(12),
   work |-> Simple("getstatic", 0, "D") \o Simple("idiv", 3, None)
              \o InlinedCall(4, "E", "getfield") \o Simple("ldiv", 7, None)
              \o IntfCall(8, {"A", "B"}, "I") \o Simple("new", 13, "D")
              \o Return(16),
   initD |-> StaticCall(0, "A", "work") \o Return(3),
   initE |-> Simple("getstatic", 0, "G") \o Return(3),
   initF |-> Simple("new", 0, "A") \o <<I("athrow", 3, "athrow", None, "Thrown")>>,
   call |-> Return(0),
   callB |-> Return(0),
   deep |-> StaticCall(0, "A", "deep") \o Return(3),
   other |-> Simple("getstatic", 0, "E") \o Return(3)]

Catch(from, to, type, at) == [from |-> from, to |-> to, type |-> type, at |-> at]

MixedHandlers ==
  [m \in DOMAIN MixedProgram |->
     CASE m = "main" -> <<Catch(6, 9, "Throwable", 10),
                          Catch(9, 12, "StackOverflowError", 13)>>
       [] m = "work" -> <<Catch(3, 4, "NullPointerException", 13),
                          Catch(3, 4, "ArithmeticException", 3),
                          Catch(4, 8, "any", 7)>>
       [] m = "initD" -> <<Catch(0, 3, "any", 4)>>
       [] OTHER -> <<>>]

MixedClinit ==
  [c \in {"A", "B", "D", "E", "F", "G"} |->
     CASE c = "D" -> "initD" [] c = "E" -> "initE" [] c = "F" -> "initF"
       [] OTHER -> None]

MixedItable ==
  [c \in {"A", "B", "D", "E", "F", "G"} |->
     CASE c = "A" -> <<"I">> [] c = "B" -> <<"J", "I">> [] OTHER -> <<>>]

MixedImpl ==
  <<"A", "I">> :> "call" @@ <<"B", "I">> :> "callB" @@ <<"B", "J">> :> "call"
MixedStart == [t1 |-> "main", t2 |-> "other"]

\* A division in a static method that is expanded in the caller
InlinedProgram ==
  [main |-> InlinedCall(0, "A", "idiv") \o InlinedCall(3, "A", "getfield")
              \o Return(6)]

\* Two threads at the same site of a class that is not initialised
SharedProgram ==
  [work |-> Simple("getstatic", 0, "D") \o Return(3),
   initD |-> Simple("getstatic", 0, "A") \o Return(3)]

NoHandlers == [m \in DOMAIN Program |-> <<>>]
NoItable == [c \in Classes |-> <<>>]
NoImpl == <<>>
OneStart == [t1 |-> "main"]
SameStart == [t1 |-> "work", t2 |-> "work"]

\* What the theorems suppose of a program holds of the mixed one.
ASSUME MixedCompiled == Program = MixedProgram => Compiled
=============================================================================
