---------------------------- MODULE MCCompilation ----------------------------
(* Instances of Compilation for TLC.                                       *)
EXTENDS Compilation, TLC

CONSTANTS m1, m2, m3

\* m1 and m2 call each other.
MutualCallees == m1 :> <<m2>> @@ m2 :> <<m1>>

\* m1 calls m2 and m3; m2 calls m1 and itself; m3 calls m2.
KnotCallees == m1 :> <<m2, m3>> @@ m2 :> <<m1, m2>> @@ m3 :> <<m2>>

\* m1 calls itself.
SelfCallees == m1 :> <<m1>>

Eagerly == [m \in Method |-> 1]
Lazily == [m \in Method |-> 2]

OneMethodClass == <<m1>>
TwoMethodClass == <<m1, m2>>
=============================================================================
