------------------------------ MODULE Throttle ------------------------------
(***************************************************************************)
(* The storm guard of an integration (src/src/store/integration-guards.ts, *)
(* throttle): a window that opens with its first event, lets Limit calls   *)
(* and RecipientLimit recipients through and tells the administrator once. *)
(* A row whose window has passed counts like no row, so both are Fresh.    *)
(***************************************************************************)
EXTENDS Naturals

CONSTANTS
  Limit,           \* throttle.limit
  RecipientLimit   \* throttle.recipients, of Power Automate only

Window == [calls : 0..Limit, recipients : 0..RecipientLimit, notified : BOOLEAN]
Fresh  == [calls |-> 0, recipients |-> 0, notified |-> FALSE]

(* A call for n recipients gets through. *)
Admits(w, n) == w.calls < Limit /\ w.recipients + n <= RecipientLimit

(* What it leaves behind; one that is turned away uses up neither limit. *)
After(w, n) ==
  IF Admits(w, n)
  THEN [w EXCEPT !.calls = @ + 1, !.recipients = @ + n]
  ELSE [w EXCEPT !.notified = TRUE]

(* The administrator is told of the first that is turned away. *)
Tells(w, n) == ~Admits(w, n) /\ ~w.notified
=============================================================================
