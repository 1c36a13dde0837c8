------------------------------- MODULE Inbox -------------------------------
(***************************************************************************)
(* What the gateway promises of the messages that come in: each is kept    *)
(* once and told, in the same step, to everybody who listens at that       *)
(* moment; and Multiinfo may forget a message only when it has been kept.  *)
(* Module Inbound, the receiver, implements this module.                   *)
(***************************************************************************)
EXTENDS Naturals

CONSTANTS
  Sms,   \* the messages
  Keys   \* the keys that may listen

VARIABLES
  kept,      \* messages in the gateway's table
  told,      \* how often each key was told of a message
  forgotten  \* messages Multiinfo does not hold any more

vars == <<kept, told, forgotten>>

Nobody == [k \in Keys |-> 0]

Init ==
  /\ kept      = {}
  /\ told      = [m \in Sms |-> Nobody]
  /\ forgotten = {}

(* The message is kept and the keys of K are told, once. *)
Keep(m, K) ==
  /\ m \notin kept /\ m \notin forgotten
  /\ kept' = kept \cup {m}
  /\ told' = [told EXCEPT ![m] = [k \in Keys |-> IF k \in K THEN 1 ELSE 0]]
  /\ UNCHANGED forgotten

Forget(m) ==
  /\ m \in kept
  /\ forgotten' = forgotten \cup {m}
  /\ UNCHANGED <<kept, told>>

Next == \E m \in Sms : Forget(m) \/ \E K \in SUBSET Keys : Keep(m, K)

Spec == Init /\ [][Next]_vars
=============================================================================
