------------------------------ MODULE MCPanel ------------------------------
(***************************************************************************)
(* A small instance of Panel. Two logins, workers, pages and so on are     *)
(* interchangeable within their component; one pair of values serves in    *)
(* all of them, so that there are few permutations to try.                 *)
(***************************************************************************)
EXTENDS Panel, TLC

Pairs == Permutations(Logins) \cup Permutations(Pages) \cup Permutations(Browsers)
=============================================================================
