-------------------------- MODULE WebhookDelivery --------------------------
(***************************************************************************)
(* The delivery of events to the webhooks of clients and to outgoing       *)
(* integrations: rows of webhook_deliveries, the webhook jobs that post    *)
(* them, the repetition of a failed delivery by the administrator          *)
(* (src/src/worker/webhook.ts, src/src/store/webhook-deliveries.ts,        *)
(* src/src/admin/routes/deliveries.ts).                                    *)
(*                                                                         *)
(* A handler runs without interleaving from one await to the next: it      *)
(* waits for the address of the target and for the receiver's answer. The  *)
(* statements that close it are not one transaction, so its last actions   *)
(* take a number n, how many writes reach the database before the process  *)
(* is killed.                                                              *)
(*                                                                         *)
(* Whether a key still has its secret and an integration is still enabled  *)
(* is up to the administrator at any time, hence a choice; so is what the  *)
(* name of a target resolves to. The counters and answers shown in the     *)
(* panel and the journal of an integration are left out. Locks and batches *)
(* are the subject of module JobQueue.                                     *)
(***************************************************************************)
EXTENDS Naturals

CONSTANTS
  Deliveries,     \* the rows of webhook_deliveries
  Received,       \* those about a received message, written with it in one transaction
  OfIntegration,  \* those of an integration, deleted together with it
  Jobs,           \* identifiers of webhook jobs, none of them used twice
  Nobody,         \* the delivery of an identifier not used yet
  MaxRetries,     \* Len(WEBHOOK_BACKOFF_MS), five in the code
  MaxUnexpected,  \* MAX_UNEXPECTED_ATTEMPTS
  MaxRestarts,    \* bound: how often the process dies
  MidWriteKills   \* whether it may also die between two writes

ASSUME DeliveriesAssumption == Received \subseteq Deliveries /\ OfIntegration \subseteq Deliveries
                               /\ Nobody \notin Deliveries
ASSUME LimitsAssumption == MaxRetries \in Nat /\ MaxUnexpected \in Nat
                           /\ MaxRetries < MaxUnexpected
ASSUME RestartsAssumption == MaxRestarts \in Nat
ASSUME SwitchAssumption == MidWriteKills \in BOOLEAN

VARIABLES
  (* table webhook_deliveries *)
  status,    \* status, "absent" before the row is written, "deleted" after
  content,   \* the text in the payload: kept, to leave with the final status
             \* (scrub_after), or gone
  (* table jobs *)
  queued,    \* the webhook jobs in it
  owner,     \* the delivery a job is about
  attempts,  \* jobs.attempts
  (* handlers in progress, lost with the process *)
  pc,        \* what the handler of a job waits for
  restarts,  \* how often the process has died
  (* history, for the properties only *)
  taken,     \* how often the receiver has taken the event
  lost,      \* how often the gateway did not learn of it
  forsaken,  \* deliveries whose job was never written, or given up
  doubled    \* deliveries that got their final status and kept their job

row     == <<status, content>>
queue   == <<queued, owner, attempts>>
history == <<taken, lost, forsaken, doubled>>
vars    == <<row, queue, pc, restarts, history>>

Status  == {"absent", "pending", "delivered", "failed", "deleted"}
Content == {"kept", "leaves", "gone"}
Wait    == {"idle", "resolve", "post", "taken"}

Init ==
  /\ status   = [d \in Deliveries |-> "absent"]
  /\ content  = [d \in Deliveries |-> "kept"]
  /\ queued   = {}
  /\ owner    = [j \in Jobs |-> Nobody]
  /\ attempts = [j \in Jobs |-> 0]
  /\ pc       = [j \in Jobs |-> "idle"]
  /\ restarts = 0
  /\ taken    = [d \in Deliveries |-> 0]
  /\ lost     = [d \in Deliveries |-> 0]
  /\ forsaken = {}
  /\ doubled  = {}

-----------------------------------------------------------------------------
(* The event is with the receiver, its answer still on the way. *)
Unanswered(d) == \E j \in Jobs : owner[j] = d /\ pc[j] = "taken"

Die ==
  /\ restarts < MaxRestarts
  /\ restarts' = restarts + 1
  /\ pc'   = [j \in Jobs |-> "idle"]
  /\ lost' = [d \in Deliveries |-> IF Unanswered(d) THEN lost[d] + 1 ELSE lost[d]]

(* The handler of j leaves; what it did not hear of is lost. *)
Leave(j) ==
  /\ pc' = [pc EXCEPT ![j] = "idle"]
  /\ UNCHANGED restarts

Unheard(j) ==
  lost' = IF pc[j] = "taken" THEN [lost EXCEPT ![owner[j]] = @ + 1] ELSE lost

(* The outcome of j is recorded; a failure after the receiver took the     *)
(* event is one the gateway did not hear of.                               *)
Heard(j, s) == IF s = "delivered" THEN UNCHANGED lost ELSE Unheard(j)

(* jobs.enqueue('webhook', { deliveryId }) under a new identifier. *)
Enqueue(d) ==
  \E j \in Jobs :
    /\ owner[j] = Nobody
    /\ owner'  = [owner EXCEPT ![j] = d]
    /\ queued' = queued \cup {j}

(* The row is written first and the job after it: of two writes n are done. *)
WithJob(d, n) ==
  IF n = 2
  THEN Enqueue(d) /\ UNCHANGED <<pc, restarts, lost, forsaken>>
  ELSE /\ MidWriteKills
       /\ \E j \in Jobs : owner[j] = Nobody
       /\ Die
       /\ forsaken' = forsaken \cup {d}
       /\ UNCHANGED <<owner, queued>>

-----------------------------------------------------------------------------
(* emitWebhook, or emitIntegrations. Only the account of a received        *)
(* message decides whether its content may stay; that message, its         *)
(* deliveries and their jobs are one transaction.                          *)
Emit(d, n) ==
  /\ status[d] = "absent"
  /\ d \in Received => n = 2
  /\ status' = [status EXCEPT ![d] = "pending"]
  /\ content' \in {[content EXCEPT ![d] = c] : c \in IF d \in Received THEN {"kept", "leaves"} ELSE {"kept"}}
  /\ WithJob(d, n)
  /\ UNCHANGED <<attempts, taken, doubled>>

(* Mutant: every delivery may be repeated that is not waiting. *)
RepeatDelivered(d, n) ==
  /\ status[d] \in {"failed", "delivered"} /\ content[d] # "gone"
  /\ status' = [status EXCEPT ![d] = "pending"]
  /\ WithJob(d, n)
  /\ UNCHANGED <<content, attempts, taken, doubled>>

(* Mutant: the content is not looked at. *)
RepeatScrubbed(d, n) ==
  /\ status[d] = "failed"
  /\ status' = [status EXCEPT ![d] = "pending"]
  /\ WithJob(d, n)
  /\ UNCHANGED <<content, attempts, taken, doubled>>

(* POST /dostawy/:id/ponow: a failed delivery whose content is still there *)
(* waits again, with a new job and the payload it had.                     *)
Repeat(d, n) ==
  /\ status[d] = "failed" /\ content[d] # "gone"
  /\ status' = [status EXCEPT ![d] = "pending"]
  /\ WithJob(d, n)
  /\ UNCHANGED <<content, attempts, taken, doubled>>

(* The administrator deletes an integration, whatever its deliveries do. *)
Delete(d) ==
  /\ d \in OfIntegration /\ status[d] \in {"pending", "delivered", "failed"}
  /\ status' = [status EXCEPT ![d] = "deleted"]
  /\ UNCHANGED <<content, queue, pc, restarts, history>>

-----------------------------------------------------------------------------
Complete(j) == queued' = queued \ {j}

(* markDelivered and markFailed: the final status, and the content that    *)
(* was to leave with it, in one transaction. A deleted row stays deleted.  *)
End(d, s) ==
  IF status[d] = "deleted"
  THEN UNCHANGED <<status, content>>
  ELSE /\ status'  = [status EXCEPT ![d] = s]
       /\ content' = [content EXCEPT ![d] = IF @ = "leaves" THEN "gone" ELSE @]

(* Mutant: the job is completed first. *)
CompleteThenEnd(j, s, n) ==
  /\ Complete(j)
  /\ IF n = 2
     THEN End(owner[j], s) /\ Leave(j) /\ Heard(j, s) /\ UNCHANGED doubled
     ELSE /\ MidWriteKills /\ Die
          /\ doubled' = doubled \cup {owner[j]}
          /\ UNCHANGED <<status, content>>
  /\ UNCHANGED <<owner, attempts, taken, forsaken>>

(* Mutant: the job is left in the queue. *)
EndOnly(j, s, n) ==
  /\ End(owner[j], s)
  /\ IF n = 2
     THEN Leave(j) /\ Heard(j, s) /\ UNCHANGED doubled
     ELSE MidWriteKills /\ Die /\ doubled' = doubled \cup {owner[j]}
  /\ UNCHANGED <<queue, taken, forsaken>>

(* The final status, then jobs.complete. *)
EndThenComplete(j, s, n) ==
  /\ End(owner[j], s)
  /\ IF n = 2
     THEN Complete(j) /\ Leave(j) /\ Heard(j, s) /\ UNCHANGED doubled
     ELSE /\ MidWriteKills /\ Die
          /\ doubled' = doubled \cup {owner[j]}
          /\ UNCHANGED queued
  /\ UNCHANGED <<owner, attempts, taken, forsaken>>

-----------------------------------------------------------------------------
Ready(j) == j \in queued /\ pc[j] = "idle"

(* The delivery was repeated, ended or deleted since: nothing to post. *)
DropFinished(j) ==
  /\ Ready(j) /\ status[owner[j]] # "pending"
  /\ Complete(j)
  /\ UNCHANGED <<row, owner, attempts, pc, restarts, history>>

(* The integration is switched off, or the key lost its secret. *)
DropUnreachable(j, n) ==
  /\ Ready(j) /\ status[owner[j]] = "pending"
  /\ EndThenComplete(j, "failed", n)

(* Mutant: the lock of the job ends while its handler waits. *)
BeginTwice(j) ==
  /\ j \in queued /\ status[owner[j]] = "pending"
  /\ pc' = [pc EXCEPT ![j] = "resolve"]
  /\ UNCHANGED <<row, queue, restarts, history>>

(* The row and the secret are read, then the target's name is resolved. *)
Begin(j) ==
  /\ Ready(j) /\ status[owner[j]] = "pending"
  /\ pc' = [pc EXCEPT ![j] = "resolve"]
  /\ UNCHANGED <<row, queue, restarts, history>>

(* The address is public: the signed payload leaves. *)
Post(j) ==
  /\ pc[j] = "resolve"
  /\ pc' = [pc EXCEPT ![j] = "post"]
  /\ UNCHANGED <<row, queue, restarts, history>>

ReceiverTakes(j) ==
  /\ pc[j] = "post"
  /\ pc' = [pc EXCEPT ![j] = "taken"]
  /\ taken' = [taken EXCEPT ![owner[j]] = @ + 1]
  /\ UNCHANGED <<row, queue, restarts, lost, forsaken, doubled>>

(* 2xx. *)
Delivered(j, n) ==
  /\ pc[j] = "taken"
  /\ EndThenComplete(j, "delivered", n)

(* A private address, 4xx, or the last delay of WEBHOOK_BACKOFF_MS is used *)
(* up and the name does not resolve or the answer is 5xx or lost.          *)
Fails(j, n) ==
  /\ \/ pc[j] \in {"resolve", "post"}
     \/ pc[j] = "taken" /\ attempts[j] >= MaxRetries
  /\ EndThenComplete(j, "failed", n)

TryAgain(j) ==
  /\ attempts' = [attempts EXCEPT ![j] = @ + 1]
  /\ UNCHANGED <<queued, owner, forsaken>>

(* Mutant: a retry is a deferral, which does not count. *)
RetriesUncounted(j) ==
  /\ pc[j] \in {"resolve", "post", "taken"}
  /\ attempts[j] < MaxRetries
  /\ Leave(j) /\ Unheard(j)
  /\ UNCHANGED <<row, queue, taken, forsaken, doubled>>

(* Mutant: a retry whatever the number of attempts. *)
RetriesUnlimited(j) ==
  /\ pc[j] \in {"resolve", "post", "taken"}
  /\ TryAgain(j)
  /\ Leave(j) /\ Unheard(j)
  /\ UNCHANGED <<row, taken, doubled>>

(* The name does not resolve, 5xx, or no answer in time. *)
Retries(j) ==
  /\ pc[j] \in {"resolve", "post", "taken"}
  /\ attempts[j] < MaxRetries
  /\ TryAgain(j)
  /\ Leave(j) /\ Unheard(j)
  /\ UNCHANGED <<row, taken, doubled>>

(* The secret or the headers cannot be decrypted. Worker.run tries again   *)
(* and gives the job up in the end; abandon() has nothing to say of a job  *)
(* without a message, so the delivery is left as it is.                    *)
Throws(j) ==
  /\ \/ Ready(j) /\ status[owner[j]] = "pending"
     \/ pc[j] = "resolve"
  /\ IF attempts[j] + 1 < MaxUnexpected
     THEN TryAgain(j)
     ELSE /\ Complete(j)
          /\ forsaken' = forsaken \cup {owner[j]}
          /\ UNCHANGED <<owner, attempts>>
  /\ Leave(j)
  /\ UNCHANGED <<row, taken, lost, doubled>>

(* The process dies, or is stopped, while handlers wait. *)
Crash ==
  /\ Die
  /\ UNCHANGED <<row, queue, taken, forsaken, doubled>>

-----------------------------------------------------------------------------
Closes(j, n) == DropUnreachable(j, n) \/ Delivered(j, n) \/ Fails(j, n)

Handle(j) ==
  \/ DropFinished(j) \/ Begin(j) \/ Post(j) \/ Retries(j) \/ Throws(j)
  \/ Closes(j, 2)

Next ==
  \/ \E d \in Deliveries : Delete(d) \/ \E n \in 1..2 : Emit(d, n) \/ Repeat(d, n)
  \/ \E j \in Jobs : Handle(j) \/ ReceiverTakes(j) \/ Closes(j, 1)
  \/ Crash

Spec == Init /\ [][Next]_vars

(* The worker keeps claiming jobs, and an answer comes or the request runs *)
(* into its timeout: handlers go on. Nobody else owes anything.            *)
FairSpec == Spec /\ \A j \in Jobs : WF_vars(Handle(j))

-----------------------------------------------------------------------------
(* Rows, jobs and handlers keep their types. *)
TypeOK ==
  /\ status   \in [Deliveries -> Status]
  /\ content  \in [Deliveries -> Content]
  /\ queued   \in SUBSET Jobs
  /\ owner    \in [Jobs -> Deliveries \cup {Nobody}]
  /\ attempts \in [Jobs -> 0..MaxUnexpected]
  /\ pc       \in [Jobs -> Wait]
  /\ restarts \in 0..MaxRestarts
  /\ taken    \in [Deliveries -> Nat]
  /\ lost     \in [Deliveries -> Nat]
  /\ forsaken \in SUBSET Deliveries
  /\ doubled  \in SUBSET Deliveries

JobsOf(d) == {j \in queued : owner[j] = d}

(* A delivery that waits has a job, over retries, repetitions and kills    *)
(* between two writes; only one whose job was never written, because the   *)
(* process died first, or was given up can wait for ever.                  *)
PendingIsOwed ==
  \A d \in Deliveries : status[d] = "pending" /\ d \notin forsaken => JobsOf(d) # {}

(* Two handlers never work on one delivery (the premise of Worker.tick's   *)
(* lanes), unless the process was killed between the final status and      *)
(* jobs.complete and the administrator repeated the delivery after that.   *)
OneJobPerDelivery ==
  \A d \in Deliveries \ doubled, j, k \in Jobs :
    j \in JobsOf(d) /\ k \in JobsOf(d) => j = k

(* The receiver gets an event again only if the gateway could not know     *)
(* that it had it: an answer was lost or the process died before the       *)
(* delivery was marked. Retries and the repetition of a failed delivery    *)
(* add nothing to that.                                                    *)
RepeatedOnlyAfterLoss ==
  \A d \in Deliveries \ doubled : taken[d] <= lost[d] + 1

(* The content of a message on an account that stores none stays exactly   *)
(* as long as it can still be sent: whole while the delivery waits, also   *)
(* for a repetition, and gone as soon as it is delivered or failed.        *)
ContentLeavesWithStatus ==
  \A d \in Deliveries :
    /\ status[d] = "pending" => content[d] # "gone"
    /\ status[d] \in {"delivered", "failed"} => content[d] # "leaves"

(* What is delivered stays delivered: a late answer to another attempt     *)
(* never takes it back.                                                    *)
DeliveredStays ==
  [][\A d \in Deliveries \ doubled' :
       status[d] = "delivered" => status'[d] \in {"delivered", "deleted"}]_vars

(* A delivery does not wait for ever, unless its job was never written or  *)
(* was given up.                                                           *)
EventuallyEnded ==
  \A d \in Deliveries : status[d] = "pending" ~> (status[d] # "pending" \/ d \in forsaken)

-----------------------------------------------------------------------------
(***************************************************************************)
(* The inductive invariant behind the safety properties (proved in module  *)
(* WebhookDeliveryProofs).                                                 *)
(***************************************************************************)
(* A job in the queue is about a delivery, and handlers have jobs. *)
JobSound(j) ==
  /\ j \in queued => owner[j] \in Deliveries
  /\ pc[j] # "idle" => j \in queued

(* A delivery not written yet has left no traces. *)
AbsentIsBare(d) ==
  status[d] = "absent" =>
    /\ \A j \in Jobs : owner[j] # d
    /\ taken[d] = 0 /\ lost[d] = 0 /\ content[d] = "kept"

(* A job finds its delivery still to be made, or deleted. *)
JobFindsOpen(d) ==
  d \notin doubled /\ JobsOf(d) # {} => status[d] \in {"pending", "deleted"}

(* A delivery the gateway would post, now or after a repetition, has not   *)
(* reached the receiver, but for the times it lost track of.               *)
CallsCounted(d) ==
  d \notin doubled =>
    /\ taken[d] <= lost[d] + 1
    /\ Unanswered(d) => taken[d] = lost[d] + 1
    /\ ~Unanswered(d) /\ (JobsOf(d) # {} \/ status[d] \in {"pending", "failed"})
         => taken[d] = lost[d]

IInv ==
  /\ TypeOK
  /\ \A j \in Jobs : JobSound(j)
  /\ PendingIsOwed /\ OneJobPerDelivery /\ ContentLeavesWithStatus
  /\ \A d \in Deliveries : AbsentIsBare(d) /\ JobFindsOpen(d) /\ CallsCounted(d)

-----------------------------------------------------------------------------
(***************************************************************************)
(* The webhook job implements RemoteCall. A call is torn when a kill       *)
(* separates the two writes that close it.                                 *)
(***************************************************************************)
DutyOf(d) ==
  IF d \in doubled THEN "torn"
  ELSE IF status[d] = "absent" THEN "none"
  ELSE IF JobsOf(d) # {} THEN "owed" ELSE "over"

Call == INSTANCE RemoteCall WITH Items <- Deliveries,
                                 duty  <- [d \in Deliveries |-> DutyOf(d)]

(* An event is posted until it has an outcome, and again only if the       *)
(* gateway cannot know that the receiver took it.                          *)
ImplementsCall == Call!Spec

-----------------------------------------------------------------------------
(* A claim of the documentation that the code does not keep.               *)

(* docs/api.md:2385: when the retries of an event are used up it is marked *)
(* as not delivered, and the administrator can repeat it.                  *)
ExhaustedIsMarked ==
  \A d \in Deliveries : d \in forsaken => status[d] # "pending"
=============================================================================
