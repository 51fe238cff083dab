---------------------------- MODULE LossyChannels ----------------------------
(***************************************************************************)
(* What a subscriber of several topics may rely on: of the events offered  *)
(* to it on a topic, numbered in the order they were offered, it receives  *)
(* some, each at most once and in that order.  Topics are independent.     *)
(***************************************************************************)
EXTENDS Naturals

CONSTANT Topics

VARIABLES
  sent,  \* [Topics -> how many events were offered]
  got    \* [Topics -> the number of the one received last, 0 for none, and how
         \* many were received]

vars == <<sent, got>>

Init ==
  /\ sent = [t \in Topics |-> 0]
  /\ got = [t \in Topics |-> [last |-> 0, count |-> 0]]

Send(t) == sent' = [sent EXCEPT ![t] = @ + 1] /\ UNCHANGED got

Receive(t) ==
  /\ \E n \in got[t].last + 1 .. sent[t] :
       got' = [got EXCEPT ![t] = [last |-> n, count |-> got[t].count + 1]]
  /\ UNCHANGED sent

Next == \E t \in Topics : Send(t) \/ Receive(t)

Spec == Init /\ [][Next]_vars

=============================================================================
