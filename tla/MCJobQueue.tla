----------------------------- MODULE MCJobQueue -----------------------------
(***************************************************************************)
(* Symmetry of the instances of JobQueue: jobs are interchangeable. The    *)
(* run that checks liveness does without it.                               *)
(***************************************************************************)
EXTENDS JobQueue, TLC

JobSymmetry == Permutations(Jobs)
=============================================================================
