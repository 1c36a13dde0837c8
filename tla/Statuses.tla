------------------------------ MODULE Statuses ------------------------------
(***************************************************************************)
(* The message statuses of the gateway and how they are derived from what  *)
(* Multiinfo reports: src/src/multiinfo/status.ts.                         *)
(*                                                                         *)
(* Multiinfo describes one part of a message by a pair of numbers, its     *)
(* status and substatus, written here as a tuple <<status, substatus>>.    *)
(***************************************************************************)
EXTENDS Naturals

GatewayStatus == {"queued", "sent", "delivered", "failed", "expired",
                  "cancelled", "blocked", "throttled", "unknown"}

Code == Nat \X Nat

(* A status above ten will not change any more, whatever it means. *)
IsFinal(code) == code[1] > 10

(* The substatuses of status 21 that confirm that the handset has the part. *)
Receipt == {1, 2, 3}

MapStatus(code) ==
  CASE code[1] \in {0, 1}      -> "queued"
    [] code[1] = 3             -> "sent"
    [] code[1] = 7             -> "throttled"
    [] code[1] = 11            -> "failed"
    [] code[1] = 12            -> "expired"
    [] code[1] = 13            -> "cancelled"
    [] code[1] \in {14, 20, 22} -> "blocked"
    [] code[1] = 21            -> IF code[2] \in Receipt THEN "delivered" ELSE "sent"
    [] OTHER                   -> "unknown"

(* The statuses of a single part that decide about the whole, the first    *)
(* one that some part has. Below them a message is delivered only when all *)
(* of its parts are.                                                       *)
Precedence == <<"failed", "expired", "blocked", "cancelled",
                "unknown", "queued", "throttled">>

CombineStatuses(statuses) ==
  LET deciding == {i \in 1..7 : Precedence[i] \in statuses}
  IN  IF statuses = {} THEN "queued"
      ELSE IF deciding # {}
           THEN Precedence[CHOOSE i \in deciding : \A j \in deciding : i <= j]
           ELSE IF statuses = {"delivered"} THEN "delivered" ELSE "sent"

(* The poll handler settles a message when every part has a final status   *)
(* that the gateway can name: src/src/worker/poll.ts.                      *)
AllFinal(codes) == \A c \in codes : MapStatus(c) # "unknown" /\ IsFinal(c)

Verdict(codes) == CombineStatuses({MapStatus(c) : c \in codes})

(* The statuses that the webhook reports as message.failed. *)
FailureStatuses == {"failed", "blocked", "expired", "cancelled"}

(* Statuses from which the cancel request turns the client away. *)
Closed == {"delivered"} \cup FailureStatuses
=============================================================================
