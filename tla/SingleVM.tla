------------------------------ MODULE SingleVM ------------------------------
(***************************************************************************)
(* What a program sees of objects that live in its own virtual machine:    *)
(* an access takes effect at once, a monitor has one holder.  MetaVM wants *)
(* a remote object to look like this; RemoteCall is checked against it.    *)
(***************************************************************************)
EXTENDS Integers, Sequences

CONSTANTS Thread, Obj, Val, Null, LEN

Cell == 0 .. LEN - 1

\* Outcome of an operation: normal with the values it returns, or abrupt.
Normal(vals) == [ok |-> TRUE, vals |-> vals]
Abrupt == [ok |-> FALSE, vals |-> << >>]

VARIABLES
  mem,      \* contents of the objects
  holder,   \* the thread inside the monitor of each object
  res       \* outcome of the last operation of each thread

svars == <<mem, holder, res>>

Init ==
  /\ \E v \in Val : mem = [o \in Obj |-> [i \in Cell |-> v]]
  /\ holder = [o \in Obj |-> Null]
  /\ res = [t \in Thread |-> Normal(<< >>)]

Outcome(t, r) == res' = [res EXCEPT ![t] = r]

\* Cells i, i+1, ..., i+n-1 of object o.
Cells(o, i, n) == [k \in 1 .. n |-> mem[o][i + k - 1]]

Read(t, o, i, n) ==
  /\ Outcome(t, Normal(Cells(o, i, n)))
  /\ UNCHANGED <<mem, holder>>

Write(t, o, i, n, v) ==
  /\ mem' = [mem EXCEPT ![o] = [c \in Cell |-> IF c \in i .. i + n - 1 THEN v ELSE @[c]]]
  /\ Outcome(t, Normal(<< >>))
  /\ UNCHANGED holder

\* A method that replaces a cell and returns the previous value.
Exchange(t, o, i, v) ==
  /\ mem' = [mem EXCEPT ![o][i] = v]
  /\ Outcome(t, Normal(<<mem[o][i]>>))
  /\ UNCHANGED holder

\* An exception, or a null result: nothing happens to the object.
Throw(t) ==
  /\ Outcome(t, Abrupt)
  /\ UNCHANGED <<mem, holder>>

MonitorEnter(t, o) ==
  /\ holder[o] = Null
  /\ holder' = [holder EXCEPT ![o] = t]
  /\ Outcome(t, Normal(<< >>))
  /\ UNCHANGED mem

\* The monitor is free before the thread goes on; Nothing reports the outcome.
MonitorExit(t, o) ==
  /\ holder[o] = t
  /\ holder' = [holder EXCEPT ![o] = Null]
  /\ UNCHANGED <<mem, res>>

\* An operation that touches no object, such as dropping a reference.
Nothing(t) ==
  /\ Outcome(t, Normal(<< >>))
  /\ UNCHANGED <<mem, holder>>

Next ==
  \E t \in Thread :
    \/ Throw(t)
    \/ Nothing(t)
    \/ \E o \in Obj :
         \/ MonitorEnter(t, o)
         \/ MonitorExit(t, o)
         \/ \E i \in Cell, n \in 0 .. LEN : i + n <= LEN /\ Read(t, o, i, n)
         \/ \E i \in Cell, n \in 0 .. LEN, v \in Val : i + n <= LEN /\ Write(t, o, i, n, v)
         \/ \E i \in Cell, v \in Val : Exchange(t, o, i, v)

Spec == Init /\ [][Next]_svars
=============================================================================
