---------------------------- MODULE MCInbound ----------------------------
(***************************************************************************)
(* Instances of Inbound for TLC: which service a message comes to.         *)
(***************************************************************************)
EXTENDS Inbound, TLC

(* All messages come to the first service. *)
ToFirst == [m \in Sms |-> CHOOSE s \in Services : TRUE]
=============================================================================
