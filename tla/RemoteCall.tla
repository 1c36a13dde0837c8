----------------------------- MODULE RemoteCall -----------------------------
(***************************************************************************)
(* What the gateway promises of a call it makes on behalf of somebody      *)
(* else, be it the hand-over of a message to Multiinfo or an event to the  *)
(* webhook of a client: once it has taken on the call it makes it until it *)
(* has an outcome, and it makes it again only when it cannot know that the *)
(* other side already took it. The send job (src/src/worker/send.ts) and   *)
(* the webhook job (src/src/worker/webhook.ts) implement this module.      *)
(*                                                                         *)
(* A process that is killed between the writes that would close a call     *)
(* leaves it torn, and of a torn call nothing is promised.                 *)
(*                                                                         *)
(* A step concerns any number of items at once: when the process dies, all *)
(* the answers on their way to it are lost together.                       *)
(***************************************************************************)
EXTENDS Naturals

CONSTANT Items  \* what the calls are about

VARIABLES
  duty,   \* whether the call of an item is not asked for yet, owed, over or torn
  taken,  \* how often the other side has taken it
  lost    \* how many of these the gateway will never know of

vars == <<duty, taken, lost>>

Duty == {"none", "owed", "over", "torn"}

Init ==
  /\ duty  = [x \in Items |-> "none"]
  /\ taken = [x \in Items |-> 0]
  /\ lost  = [x \in Items |-> 0]

-----------------------------------------------------------------------------
Stay(x) == duty'[x] = duty[x] /\ taken'[x] = taken[x] /\ lost'[x] = lost[x]

(* The call is taken on, or, if the process dies before that is written,   *)
(* never made.                                                             *)
Accept(x) ==
  /\ duty[x] = "none" /\ duty'[x] \in {"owed", "over"}
  /\ taken'[x] = taken[x] /\ lost'[x] = lost[x]

(* The other side takes the item, once for each time the gateway lost      *)
(* track of it and once more.                                              *)
Take(x) ==
  /\ duty[x] = "owed" /\ duty'[x] = "owed"
  /\ taken[x] = lost[x]
  /\ taken'[x] = taken[x] + 1 /\ lost'[x] = lost[x]

(* The answer is lost and the call still owed. *)
Lose(x) ==
  /\ duty[x] = "owed" /\ duty'[x] = "owed"
  /\ taken[x] = lost[x] + 1
  /\ taken'[x] = taken[x] /\ lost'[x] = lost[x] + 1

(* The call has its outcome, or the gateway stops trying; it may do so     *)
(* without ever having had an answer.                                      *)
Settle(x) ==
  /\ duty[x] = "owed" /\ duty'[x] = "over"
  /\ taken'[x] = taken[x] /\ lost'[x] \in {lost[x], taken[x]}

(* A call that, for all the gateway knows, came to nothing is taken on     *)
(* again.                                                                  *)
Reopen(x) ==
  /\ duty[x] = "over" /\ duty'[x] = "owed"
  /\ taken[x] = lost[x]
  /\ taken'[x] = taken[x] /\ lost'[x] = lost[x]

(* The closing of the call is cut: anything may happen to the item.        *)
Tear(x) == duty[x] \in {"owed", "torn"} /\ duty'[x] = "torn"

Step(x) ==
  Stay(x) \/ Accept(x) \/ Take(x) \/ Lose(x) \/ Settle(x) \/ Reopen(x) \/ Tear(x)

Next ==
  /\ duty'  \in [Items -> Duty]
  /\ taken' \in [Items -> Nat]
  /\ lost'  \in [Items -> Nat]
  /\ \A x \in Items : Step(x)

Spec == Init /\ [][Next]_vars

-----------------------------------------------------------------------------
TypeOK ==
  /\ duty  \in [Items -> Duty]
  /\ taken \in [Items -> Nat]
  /\ lost  \in [Items -> Nat]

(* An item is taken at most once more than the gateway lost track of it,   *)
(* and of an item it lost track of it never knows more than it was told:   *)
(* there are not more losses than there were calls taken.                  *)
OnceUnlessLost ==
  \A x \in Items : duty[x] # "torn" => lost[x] <= taken[x] /\ taken[x] <= lost[x] + 1
=============================================================================
