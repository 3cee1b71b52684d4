---------------------------- MODULE BindingCache ----------------------------
(***************************************************************************)
(* What a home agent promises: one binding per mobile node, changed only   *)
(* by binding updates that are not out of sequence and removed only when   *)
(* the node goes home, has been silent for longer than LIFETIME, or the    *)
(* home agent stops.  An acknowledgement names the binding it reports.     *)
(***************************************************************************)
EXTENDS Integers

CONSTANTS MN, Coa, Home, SeqNo, SEQWIN, LIFETIME, MaxWait

VARIABLES
  bind,   \* care-of address of each node, or Home
  last,   \* sequence number of the last update accepted
  age,    \* seconds since it, capped
  ack     \* acknowledgements not yet forgotten

vars == <<bind, last, age, ack>>

Init ==
  /\ bind = [m \in MN |-> Home]
  /\ last = [m \in MN |-> 0]
  /\ \E a \in 0 .. LIFETIME + 1 : age = [m \in MN |-> a]
  /\ ack = {}

Fresh(m, q) == ~(last[m] > q /\ last[m] - q < SEQWIN)

Accept(m, q) ==
  /\ Fresh(m, q)
  /\ last' = [last EXCEPT ![m] = q]
  /\ age' = [age EXCEPT ![m] = 0]

Register(m, q, c) ==
  /\ Accept(m, q)
  /\ bind' = [bind EXCEPT ![m] = c]
  /\ ack' = {[mn |-> m, seq |-> q, coa |-> c]}

Deregister(m, q) ==
  /\ Accept(m, q)
  /\ bind' = [bind EXCEPT ![m] = Home]
  /\ UNCHANGED ack

\* An update whose care-of address the agent cannot use.
Refuse(m, q) ==
  /\ Accept(m, q)
  /\ UNCHANGED <<bind, ack>>

Wait(d) ==
  /\ age' = [m \in MN |-> IF age[m] + d > LIFETIME THEN LIFETIME + 1
                          ELSE age[m] + d]
  /\ ack' = {}
  /\ UNCHANGED <<bind, last>>

Drop(ms) ==
  /\ bind' = [m \in MN |-> IF m \in ms THEN Home ELSE bind[m]]
  /\ last' = [m \in MN |-> IF m \in ms THEN 0 ELSE last[m]]
  /\ UNCHANGED <<age, ack>>

Expire == \E ms \in SUBSET MN : Drop(ms) /\ \A m \in ms : age[m] > LIFETIME

Shutdown == Drop(MN)

Next ==
  \/ \E m \in MN, q \in SeqNo :
       \/ \E c \in Coa : Register(m, q, c)
       \/ Deregister(m, q)
       \/ Refuse(m, q)
  \/ \E d \in 0 .. MaxWait : Wait(d)
  \/ Expire \/ Shutdown

Spec == Init /\ [][Next]_vars
===============================================================================
