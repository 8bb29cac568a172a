------------------------------ MODULE MCRemote ------------------------------
(* Instances of RemoteCall for TLC. *)
EXTENDS RemoteCall, TLC

CONSTANTS t1, t2, p1, p2, o1

Symmetry == Permutations(Val) \cup Permutations(Conn) \cup Permutations(Worker)

\* Two proxies of one object, each used by one thread and locked by itself.
OwnUses == [t \in Thread |-> IF t = t1 THEN {p1} ELSE {p2}]
SameTarget == [p \in Proxy |-> o1]
OwnLocks == [p \in Proxy |-> p]

\* Every thread uses every proxy; no locks.
BothUses == [t \in Thread |-> Proxy]
NoLocks == [p \in Proxy |-> Null]

InRange == {[i |-> 0, n |-> -1], [i |-> 0, n |-> 2], [i |-> 1, n |-> 1]}

DataOps == {"get", "put", "aload", "astore", "invoke", "copy", "load", "store", "close"}

\* All operations, monitors included, over connections that hold
SafePrograms == {[ops |-> DataOps \cup {"enter", "exit"}, faults |-> {}]}

\* Connections that break, values that cannot be stored, leases that expire
FaultyPrograms ==
  {[ops |-> DataOps \cup {"enter", "exit"}, faults |-> {"drop", "unfit"}],
   [ops |-> DataOps, faults |-> {"drop", "expire"}]}
=============================================================================
