------------------------ MODULE MCWebhookDelivery ------------------------
(***************************************************************************)
(* Symmetry of the instances of WebhookDelivery: identifiers of jobs are   *)
(* interchangeable.                                                        *)
(***************************************************************************)
EXTENDS WebhookDelivery, TLC

JobSymmetry == Permutations(Jobs)
=============================================================================
