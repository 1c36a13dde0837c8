-------------------------- MODULE MessageLifecycle --------------------------
(***************************************************************************)
(* The life of outgoing messages on one Multiinfo account: accepted by the *)
(* API, handed over by the send job, followed by the poll job until        *)
(* Multiinfo names a final status, cancelled by the client at any moment,  *)
(* reported to the client's webhook (src/src/worker/send.ts, poll.ts,      *)
(* certificate.ts, src/src/api/submit.ts, cancel.ts).                      *)
(*                                                                         *)
(* The gateway is one process and its database calls are synchronous, so a *)
(* handler runs without interleaving from one await to the next: that is   *)
(* the grain of the actions. What a handler read before an await and uses  *)
(* after it is kept in the record of that handler (sender, poller,         *)
(* canceller). The writes that close a handler are separate statements,    *)
(* not a transaction: those actions take a number n, how many of them      *)
(* reach the database before the process is killed, all in a normal run.   *)
(*                                                                         *)
(* Time is a choice: a due job may start at any moment, and a job that a   *)
(* dead process left locked starts again (after fifteen minutes). A job    *)
(* put off because the account is paused does not change this state, so a  *)
(* send simply does not start then. Locks, batches and the attempt limit   *)
(* of failed handlers are the subject of module JobQueue. The account row  *)
(* is never deleted, and its column active changes only together with      *)
(* paused_reason, so the two branches of handleSend for a missing and for  *)
(* a switched off account cannot be taken.                                 *)
(***************************************************************************)
EXTENDS Statuses, Sequences

CONSTANTS
  Msgs,             \* the messages clients submit
  NParts,           \* the parts every one of them is split into
  Codes,            \* the <<status, substatus>> pairs Multiinfo may report
  FirstCode,        \* the pair of a part just accepted
  WithDeadline,     \* the messages that have a validTo
  MaxRetries,       \* Len(SEND_BACKOFF_MS), five in the code
  MaxRestarts,      \* bound: how often the process dies
  MidWriteKills,    \* whether it may also die between two writes
  RemoteCancels     \* whether clients cancel messages already handed over

ASSUME PartsAssumption == NParts \in Nat \ {0}
ASSUME CodesAssumption == Codes \subseteq Code /\ FirstCode \in Codes
                          /\ ~IsFinal(FirstCode)
ASSUME RetriesAssumption == MaxRetries \in Nat
ASSUME RestartsAssumption == MaxRestarts \in Nat
ASSUME SwitchesAssumption == MidWriteKills \in BOOLEAN /\ RemoteCancels \in BOOLEAN

VARIABLES
  (* tables messages, jobs and accounts *)
  status,     \* messages.status, "absent" before the message is accepted
  finalAt,    \* whether messages.final_at is set
  miIds,      \* which hand-over messages.mi_ids names, 0 for none
  jobs,       \* the types of the jobs of a message
  attempts,   \* jobs.attempts of its send job
  paused,     \* accounts.paused_reason is set
  (* handlers and requests in progress, lost with the process *)
  sender,     \* the send handler of a message
  poller,     \* its poll handler
  canceller,  \* its POST /v1/messages/:id/cancel
  (* the outside world *)
  plus,       \* the hand-overs Multiinfo accepted, with the state of each part
  weekOld,    \* seven days have passed since messages.sent_at
  overdue,    \* two hours have passed since messages.valid_to
  restarts,   \* how often the process has died
  (* history, for the properties only *)
  reports,    \* the statuses reported to the webhook, in order
  lost,       \* accepted hand-overs whose outcome was lost to the send job
  torn        \* messages whose closing writes were cut by a kill

table   == <<status, finalAt, miIds, jobs, attempts>>
running == <<sender, poller, canceller>>
world   == <<plus, weekOld, overdue>>
history == <<reports, lost, torn>>
vars    == <<table, paused, running, world, restarts, history>>

Parts == 1..NParts
Part  == [code : Codes, cancelled : BOOLEAN]

Sender    == [pc : {"idle", "sendLong", "accepted", "withdraw"}, part : 1..NParts + 1]
Poller    == [pc : {"idle", "info"}, part : 1..NParts + 1, seen : [Parts -> Codes],
              wasCancelled : BOOLEAN, old : BOOLEAN]
Canceller == [pc : {"idle", "cancel"}, part : 1..NParts + 1, handover : Nat]

NoSend   == [pc |-> "idle", part |-> 1]
NoPoll   == [pc |-> "idle", part |-> 1, seen |-> [p \in Parts |-> FirstCode],
             wasCancelled |-> FALSE, old |-> FALSE]
NoCancel == [pc |-> "idle", part |-> 1, handover |-> 0]

Init ==
  /\ status    = [m \in Msgs |-> "absent"]
  /\ finalAt   = [m \in Msgs |-> FALSE]
  /\ miIds     = [m \in Msgs |-> 0]
  /\ jobs      = [m \in Msgs |-> {}]
  /\ attempts  = [m \in Msgs |-> 0]
  /\ paused    = FALSE
  /\ sender    = [m \in Msgs |-> NoSend]
  /\ poller    = [m \in Msgs |-> NoPoll]
  /\ canceller = [m \in Msgs |-> NoCancel]
  /\ plus      = [m \in Msgs |-> <<>>]
  /\ weekOld   = [m \in Msgs |-> FALSE]
  /\ overdue   = [m \in Msgs |-> FALSE]
  /\ restarts  = 0
  /\ reports   = [m \in Msgs |-> <<>>]
  /\ lost      = [m \in Msgs |-> 0]
  /\ torn      = {}

-----------------------------------------------------------------------------
(***************************************************************************)
(* The end of the process: every handler and request in progress is gone,  *)
(* the tables stay. The history counts the accepted hand-overs that were   *)
(* still in the hands of a send job, which will run again.                 *)
(***************************************************************************)
Unrecorded(m) == sender[m].pc \in {"accepted", "withdraw"}

Die ==
  /\ restarts < MaxRestarts
  /\ restarts'  = restarts + 1
  /\ sender'    = [m \in Msgs |-> NoSend]
  /\ poller'    = [m \in Msgs |-> NoPoll]
  /\ canceller' = [m \in Msgs |-> NoCancel]
  /\ lost'      = [m \in Msgs |-> IF Unrecorded(m) THEN lost[m] + 1 ELSE lost[m]]

(* A handler of m that had all = n closing writes has done n of them.      *)
Close(m, n, all) ==
  IF n = all
  THEN /\ sender' = [sender EXCEPT ![m] = NoSend]
       /\ poller' = [poller EXCEPT ![m] = NoPoll]
       /\ UNCHANGED <<canceller, restarts, lost, torn>>
  ELSE /\ MidWriteKills
       /\ Die
       /\ torn' = torn \cup {m}

SetStatus(m, s) == status' = [status EXCEPT ![m] = s]

Complete(m, type) == jobs' = [jobs EXCEPT ![m] = @ \ {type}]

(* Mutant: the send job is not completed. *)
SendKeepsItsJob(m, enqueued) ==
  jobs' = [jobs EXCEPT ![m] = @ \cup (IF enqueued THEN {"poll"} ELSE {})]

(* The send job ends and, unless the process dies first, the poll job begins. *)
SendToPoll(m, enqueued) ==
  jobs' = [jobs EXCEPT ![m] = (@ \ {"send"}) \cup (IF enqueued THEN {"poll"} ELSE {})]

Report(m, s) == reports' = [reports EXCEPT ![m] = Append(@, s)]

(* Mutant: the webhook is told before the job is completed. *)
ReportsBeforeCompleting(m, type, s, n) ==
  /\ SetStatus(m, s)
  /\ finalAt' = [finalAt EXCEPT ![m] = TRUE]
  /\ IF n >= 2 THEN Report(m, s) ELSE UNCHANGED reports
  /\ IF n >= 3 THEN Complete(m, type) ELSE UNCHANGED jobs
  /\ Close(m, n, 3)
  /\ UNCHANGED <<miIds, attempts, world>>

(* setStatus with a final time, jobs.complete, notify(message.failed): the *)
(* closing writes of every handler that ends a message unsuccessfully.     *)
EndInFailure(m, type, s, n) ==
  /\ SetStatus(m, s)
  /\ finalAt' = [finalAt EXCEPT ![m] = TRUE]
  /\ IF n >= 2 THEN Complete(m, type) ELSE UNCHANGED jobs
  /\ IF n >= 3 THEN Report(m, s) ELSE UNCHANGED reports
  /\ Close(m, n, 3)
  /\ UNCHANGED <<miIds, attempts, world>>

-----------------------------------------------------------------------------
(* POST /v1/messages: the row and its send job in one transaction. *)
Submit(m) ==
  /\ status[m] = "absent"
  /\ SetStatus(m, "queued")
  /\ jobs' = [jobs EXCEPT ![m] = {"send"}]
  /\ UNCHANGED <<finalAt, miIds, attempts, paused, running, world, restarts, history>>

(* The send job of a message cancelled while it waited has nothing to do. *)
DropCancelledSend(m) ==
  /\ "send" \in jobs[m] /\ sender[m].pc = "idle"
  /\ status[m] = "cancelled"
  /\ Complete(m, "send")
  /\ UNCHANGED <<status, finalAt, miIds, attempts, paused, running, world, restarts, history>>

(* Mutant: the lock of the job ends while its handler waits for Multiinfo. *)
BeginSendTwice(m) ==
  /\ "send" \in jobs[m]
  /\ status[m] # "cancelled"
  /\ ~paused
  /\ sender' = [sender EXCEPT ![m].pc = "sendLong"]
  /\ UNCHANGED <<table, paused, poller, canceller, world, restarts, history>>

BeginSend(m) ==
  /\ "send" \in jobs[m] /\ sender[m].pc = "idle"
  /\ status[m] # "cancelled"
  /\ ~paused
  /\ sender' = [sender EXCEPT ![m].pc = "sendLong"]
  /\ UNCHANGED <<table, paused, poller, canceller, world, restarts, history>>

(* sendsmslong.aspx takes the message; the answer is still on its way. *)
MultiinfoAccepts(m) ==
  /\ sender[m].pc = "sendLong"
  /\ sender' = [sender EXCEPT ![m].pc = "accepted"]
  /\ plus' = [plus EXCEPT ![m] = Append(@, [p \in Parts |-> [code |-> FirstCode, cancelled |-> FALSE]])]
  /\ UNCHANGED <<table, paused, poller, canceller, weekOld, overdue, restarts, history>>

(* setSent, which names the newest hand-over and starts its week. *)
SetSent(m) ==
  /\ miIds'   = [miIds EXCEPT ![m] = Len(plus[m])]
  /\ weekOld' = [weekOld EXCEPT ![m] = FALSE]

(* The answer arrives. Writes: setSent, complete, notify(message.sent),    *)
(* enqueue('poll').                                                        *)
SendSucceeds(m, n) ==
  /\ sender[m].pc = "accepted"
  /\ status[m] # "cancelled"
  /\ SetSent(m)
  /\ SetStatus(m, "sent")
  /\ IF n >= 2 THEN SendToPoll(m, n = 4) ELSE UNCHANGED jobs
  /\ IF n >= 3 THEN Report(m, "sent") ELSE UNCHANGED reports
  /\ Close(m, n, 4)
  /\ UNCHANGED <<finalAt, attempts, paused, plus, overdue>>

(* Mutant: a message cancelled during the hand-over is only put aside. *)
IgnoreWithdraw(m) ==
  /\ sender[m].pc = "accepted"
  /\ status[m] = "cancelled"
  /\ SetSent(m)
  /\ Complete(m, "send")
  /\ sender' = [sender EXCEPT ![m] = NoSend]
  /\ UNCHANGED <<status, finalAt, attempts, paused, poller, canceller, plus, overdue,
                 restarts, history>>

(* The answer arrives and the message was cancelled in the meantime:       *)
(* setSent keeps the status and the parts are withdrawn one by one.        *)
BeginWithdraw(m) ==
  /\ sender[m].pc = "accepted"
  /\ status[m] = "cancelled"
  /\ SetSent(m)
  /\ sender' = [sender EXCEPT ![m].pc = "withdraw"]
  /\ UNCHANGED <<status, finalAt, jobs, attempts, paused, poller, canceller,
                 plus, overdue, restarts, history>>

(* cancelsms.aspx takes the cancellation of a part that is not final. *)
MarkCancelled(m, h, p) ==
  /\ ~IsFinal(plus[m][h][p].code)
  /\ plus' = [plus EXCEPT ![m][h][p].cancelled = TRUE]

WithdrawPart(m) ==
  /\ sender[m].pc = "withdraw" /\ sender[m].part \in Parts
  /\ MarkCancelled(m, miIds[m], sender[m].part)
  /\ sender' = [sender EXCEPT ![m].part = @ + 1]
  /\ UNCHANGED <<table, paused, poller, canceller, weekOld, overdue, restarts, history>>

(* Every part is withdrawn. Writes: complete, enqueue('poll'). *)
WithdrawDone(m, n) ==
  /\ sender[m].pc = "withdraw" /\ sender[m].part = NParts + 1
  /\ SendToPoll(m, n = 2)
  /\ Close(m, n, 2)
  /\ UNCHANGED <<status, finalAt, miIds, attempts, paused, world, reports>>

(* Mutant: a message that could not be withdrawn is not followed. *)
WithdrawRefusedUnpolled(m, n) ==
  /\ sender[m].pc = "withdraw" /\ sender[m].part \in Parts
  /\ SetStatus(m, "sent")
  /\ finalAt' = [finalAt EXCEPT ![m] = FALSE]
  /\ IF n >= 2 THEN Complete(m, "send") ELSE UNCHANGED jobs
  /\ IF n >= 3 THEN Report(m, "sent") ELSE UNCHANGED reports
  /\ Close(m, n, 4)
  /\ UNCHANGED <<miIds, attempts, paused, world>>

(* A part is refused, or the answer is lost. Writes: setStatus(sent),      *)
(* complete, notify(message.sent), enqueue('poll').                        *)
WithdrawRefused(m, n) ==
  /\ sender[m].pc = "withdraw" /\ sender[m].part \in Parts
  /\ \/ UNCHANGED plus
     \/ MarkCancelled(m, miIds[m], sender[m].part)
  /\ SetStatus(m, "sent")
  /\ finalAt' = [finalAt EXCEPT ![m] = FALSE]
  /\ IF n >= 2 THEN SendToPoll(m, n = 4) ELSE UNCHANGED jobs
  /\ IF n >= 3 THEN Report(m, "sent") ELSE UNCHANGED reports
  /\ Close(m, n, 4)
  /\ UNCHANGED <<miIds, attempts, paused, weekOld, overdue>>

(* Mutant: one retry more than SEND_BACKOFF_MS has delays. *)
SendRetryOnceMore(m) ==
  /\ sender[m].pc \in {"sendLong", "accepted"}
  /\ attempts[m] <= MaxRetries
  /\ attempts' = [attempts EXCEPT ![m] = @ + 1]
  /\ sender' = [sender EXCEPT ![m] = NoSend]
  /\ lost' = [lost EXCEPT ![m] = IF Unrecorded(m) THEN @ + 1 ELSE @]
  /\ UNCHANGED <<status, finalAt, miIds, jobs, paused, poller, canceller, world,
                 restarts, reports, torn>>

(* A transient answer, or none: Multiinfo may have taken the message. The  *)
(* job is retried while SEND_BACKOFF_MS has a delay for it.                *)
SendRetry(m) ==
  /\ sender[m].pc \in {"sendLong", "accepted"}
  /\ attempts[m] < MaxRetries
  /\ attempts' = [attempts EXCEPT ![m] = @ + 1]
  /\ sender' = [sender EXCEPT ![m] = NoSend]
  /\ lost' = [lost EXCEPT ![m] = IF Unrecorded(m) THEN @ + 1 ELSE @]
  /\ UNCHANGED <<status, finalAt, miIds, jobs, paused, poller, canceller, world,
                 restarts, reports, torn>>

(* The last retry failed, or Multiinfo refused the message for good. *)
SendFails(m, n) ==
  /\ \/ sender[m].pc = "sendLong"
     \/ sender[m].pc = "accepted" /\ attempts[m] = MaxRetries
  /\ EndInFailure(m, "send", "failed", n)
  /\ UNCHANGED paused

(* Multiinfo rejects the certificate: the account pauses and the job is    *)
(* put off with its attempts unchanged.                                    *)
SendCertificate(m) ==
  /\ sender[m].pc = "sendLong"
  /\ paused' = TRUE
  /\ sender' = [sender EXCEPT ![m] = NoSend]
  /\ UNCHANGED <<table, poller, canceller, world, restarts, history>>

-----------------------------------------------------------------------------
(* Mutant: the week is counted from the last poll, not from the hand-over. *)
BeginPollAfresh(m) ==
  /\ "poll" \in jobs[m] /\ poller[m].pc = "idle"
  /\ ~overdue[m]
  /\ poller' = [poller EXCEPT ![m].pc = "info",
                              ![m].wasCancelled = (status[m] = "cancelled")]
  /\ UNCHANGED <<table, paused, sender, canceller, world, restarts, history>>

(* The poll handler reads the row, then asks about the parts in turn. It   *)
(* does not look at the pause of the account.                              *)
BeginPoll(m) ==
  /\ "poll" \in jobs[m] /\ poller[m].pc = "idle"
  /\ ~overdue[m]
  /\ poller' = [poller EXCEPT ![m].pc = "info",
                              ![m].wasCancelled = (status[m] = "cancelled"),
                              ![m].old = weekOld[m]]
  /\ UNCHANGED <<table, paused, sender, canceller, world, restarts, history>>

(* Past its validTo the message expires without another question. *)
PollExpires(m, n) ==
  /\ "poll" \in jobs[m] /\ poller[m].pc = "idle"
  /\ overdue[m]
  /\ EndInFailure(m, "poll", "expired", n)
  /\ UNCHANGED paused

InfoAnswers(m) ==
  /\ poller[m].pc = "info" /\ poller[m].part \in Parts
  /\ poller' = [poller EXCEPT ![m].seen[poller[m].part] = plus[m][miIds[m]][poller[m].part].code,
                              ![m].part = @ + 1]
  /\ UNCHANGED <<table, paused, sender, canceller, world, restarts, history>>

(* An error for one part puts the whole poll off; the certificate codes    *)
(* pause the account as well.                                              *)
InfoFails(m) ==
  /\ poller[m].pc = "info" /\ poller[m].part \in Parts
  /\ paused' \in {paused, TRUE}
  /\ poller' = [poller EXCEPT ![m] = NoPoll]
  /\ UNCHANGED <<table, sender, canceller, world, restarts, history>>

Seen(m) == {poller[m].seen[p] : p \in Parts}

Answered(m) == poller[m].pc = "info" /\ poller[m].part = NParts + 1

(* Not settled: the intermediate status is stored, unless the message was  *)
(* cancelled when the poll began, and the job is retried.                  *)
PollAgain(m) ==
  /\ Answered(m)
  /\ ~AllFinal(Seen(m)) /\ ~poller[m].old
  /\ IF poller[m].wasCancelled THEN UNCHANGED status ELSE SetStatus(m, Verdict(Seen(m)))
  /\ poller' = [poller EXCEPT ![m] = NoPoll]
  /\ UNCHANGED <<finalAt, miIds, jobs, attempts, paused, sender, canceller, world, restarts, history>>

(* Not settled a week after the hand-over: the gateway stops asking. *)
PollGivesUp(m, n) ==
  /\ Answered(m)
  /\ ~AllFinal(Seen(m)) /\ poller[m].old
  /\ EndInFailure(m, "poll", "expired", n)
  /\ UNCHANGED paused

(* Mutant: the status of the first part is stored, that of the whole reported. *)
PollSettlesByFirstPart(m, n) ==
  LET verdict == Verdict(Seen(m)) IN
  /\ Answered(m)
  /\ AllFinal(Seen(m))
  /\ SetStatus(m, MapStatus(poller[m].seen[1]))
  /\ finalAt' = [finalAt EXCEPT ![m] = TRUE]
  /\ IF n >= 2 THEN Complete(m, "poll") ELSE UNCHANGED jobs
  /\ IF n >= 3 /\ verdict \in Closed THEN Report(m, verdict) ELSE UNCHANGED reports
  /\ Close(m, n, 3)
  /\ UNCHANGED <<miIds, attempts, paused, world>>

(* Settled. Writes: setStatus with the final time, complete, notify; a     *)
(* message sent without a delivery receipt has nothing more to report.     *)
PollSettles(m, n) ==
  LET verdict == Verdict(Seen(m)) IN
  /\ Answered(m)
  /\ AllFinal(Seen(m))
  /\ SetStatus(m, verdict)
  /\ finalAt' = [finalAt EXCEPT ![m] = TRUE]
  /\ IF n >= 2 THEN Complete(m, "poll") ELSE UNCHANGED jobs
  /\ IF n >= 3 /\ verdict \in Closed THEN Report(m, verdict) ELSE UNCHANGED reports
  /\ Close(m, n, 3)
  /\ UNCHANGED <<miIds, attempts, paused, world>>

-----------------------------------------------------------------------------
(* The client cancels a message the gateway has no identifiers of: it is   *)
(* closed at once, whatever the send handler is doing.                     *)
CancelLocally(m) ==
  /\ status[m] \notin Closed \cup {"absent"} /\ canceller[m].pc = "idle"
  /\ miIds[m] = 0
  /\ SetStatus(m, "cancelled")
  /\ finalAt' = [finalAt EXCEPT ![m] = TRUE]
  /\ UNCHANGED <<miIds, jobs, attempts, paused, running, world, restarts, history>>

(* The client cancels a message handed over: the request keeps the row it  *)
(* has read and asks Multiinfo about its parts in turn.                    *)
BeginCancel(m) ==
  /\ RemoteCancels
  /\ status[m] \notin Closed \cup {"absent"} /\ canceller[m].pc = "idle"
  /\ miIds[m] # 0
  /\ canceller' = [canceller EXCEPT ![m].pc = "cancel", ![m].handover = miIds[m]]
  /\ UNCHANGED <<table, paused, sender, poller, world, restarts, history>>

CancelPart(m) ==
  /\ canceller[m].pc = "cancel" /\ canceller[m].part \in Parts
  /\ MarkCancelled(m, canceller[m].handover, canceller[m].part)
  /\ canceller' = [canceller EXCEPT ![m].part = @ + 1]
  /\ UNCHANGED <<table, paused, sender, poller, weekOld, overdue, restarts, history>>

(* A part is refused or the answer is lost: the client gets an error and   *)
(* the message is left as it is.                                           *)
CancelRefused(m) ==
  /\ canceller[m].pc = "cancel" /\ canceller[m].part \in Parts
  /\ \/ UNCHANGED plus
     \/ MarkCancelled(m, canceller[m].handover, canceller[m].part)
  /\ canceller' = [canceller EXCEPT ![m] = NoCancel]
  /\ UNCHANGED <<table, paused, sender, poller, weekOld, overdue, restarts, history>>

CancelDone(m) ==
  /\ canceller[m].pc = "cancel" /\ canceller[m].part = NParts + 1
  /\ SetStatus(m, "cancelled")
  /\ finalAt' = [finalAt EXCEPT ![m] = TRUE]
  /\ canceller' = [canceller EXCEPT ![m] = NoCancel]
  /\ UNCHANGED <<miIds, jobs, attempts, paused, sender, poller, world, restarts, history>>

-----------------------------------------------------------------------------
(* The administrator replaces the certificate or checks the account. *)
Resume ==
  /\ paused
  /\ paused' = FALSE
  /\ UNCHANGED <<table, running, world, restarts, history>>

(* A part moves on inside Multiinfo; a final code never changes. Parts the *)
(* gateway holds no identifier of are never asked about and left alone.    *)
MultiinfoProceeds(m, h, p) ==
  /\ ~IsFinal(plus[m][h][p].code)
  /\ \E c \in Codes \ {plus[m][h][p].code} : plus' = [plus EXCEPT ![m][h][p].code = c]
  /\ UNCHANGED <<table, paused, running, weekOld, overdue, restarts, history>>

WeekPasses(m) ==
  /\ miIds[m] # 0 /\ ~weekOld[m]
  /\ weekOld' = [weekOld EXCEPT ![m] = TRUE]
  /\ UNCHANGED <<table, paused, running, plus, overdue, restarts, history>>

DeadlinePasses(m) ==
  /\ m \in WithDeadline /\ status[m] # "absent" /\ ~overdue[m]
  /\ overdue' = [overdue EXCEPT ![m] = TRUE]
  /\ UNCHANGED <<table, paused, running, plus, weekOld, restarts, history>>

(* The process dies, or is stopped, while its handlers wait for an answer. *)
Crash ==
  /\ Die
  /\ UNCHANGED <<table, paused, world, reports, torn>>

-----------------------------------------------------------------------------
SendStep(m) ==
  \/ DropCancelledSend(m) \/ BeginSend(m) \/ MultiinfoAccepts(m)
  \/ BeginWithdraw(m) \/ WithdrawPart(m) \/ SendRetry(m) \/ SendCertificate(m)
  \/ \E n \in 1..4 : SendSucceeds(m, n) \/ WithdrawRefused(m, n)
  \/ \E n \in 1..3 : SendFails(m, n)
  \/ \E n \in 1..2 : WithdrawDone(m, n)

PollStep(m) ==
  \/ BeginPoll(m) \/ InfoAnswers(m) \/ InfoFails(m) \/ PollAgain(m)
  \/ \E n \in 1..3 : PollExpires(m, n) \/ PollGivesUp(m, n) \/ PollSettles(m, n)

CancelStep(m) ==
  CancelLocally(m) \/ BeginCancel(m) \/ CancelPart(m) \/ CancelRefused(m) \/ CancelDone(m)

Outside(m) ==
  \/ Submit(m) \/ WeekPasses(m) \/ DeadlinePasses(m)
  \/ \E h \in {miIds[m], canceller[m].handover} \ {0}, p \in Parts : MultiinfoProceeds(m, h, p)

Next ==
  \/ \E m \in Msgs : SendStep(m) \/ PollStep(m) \/ CancelStep(m) \/ Outside(m)
  \/ Resume
  \/ Crash

Spec == Init /\ [][Next]_vars

-----------------------------------------------------------------------------
(***************************************************************************)
(* Fairness: the worker's timer keeps claiming due jobs and every await is *)
(* bounded by a request timeout, so handlers and requests go on; days pass;*)
(* somebody repairs a paused account. Multiinfo owes more than weak        *)
(* fairness: asked again and again it once answers otherwise than by an    *)
(* error (infosms.aspx) or a rejected certificate (sendsmslong.aspx).      *)
(* Clients owe nothing, and the process need not die.                      *)
(***************************************************************************)
Completes(m) == \/ SendSucceeds(m, 4) \/ WithdrawRefused(m, 4)
                \/ SendFails(m, 3) \/ WithdrawDone(m, 2)
                \/ PollExpires(m, 3) \/ PollGivesUp(m, 3) \/ PollSettles(m, 3)

Progress(m) == \/ DropCancelledSend(m) \/ BeginSend(m) \/ BeginWithdraw(m)
               \/ SendRetry(m) \/ BeginPoll(m) \/ PollAgain(m) \/ Completes(m)

Fairness ==
  /\ WF_vars(Resume)
  /\ \A m \in Msgs :
       /\ WF_vars(Progress(m))
       /\ WF_vars(CancelRefused(m) \/ CancelDone(m))
       /\ WF_vars(WeekPasses(m))
       /\ SF_vars(MultiinfoAccepts(m) \/ SendRetry(m) \/ SendFails(m, 3))
       /\ \A p \in Parts : SF_vars(poller[m].part = p /\ InfoAnswers(m))

FairSpec == Spec /\ Fairness

-----------------------------------------------------------------------------
(* Every variable keeps its type: the columns of the rows, the locals of   *)
(* the handlers and the history.                                           *)
TypeOK ==
  /\ status    \in [Msgs -> GatewayStatus \cup {"absent"}]
  /\ finalAt   \in [Msgs -> BOOLEAN]
  /\ miIds     \in [Msgs -> Nat]
  /\ jobs      \in [Msgs -> SUBSET {"send", "poll"}]
  /\ attempts  \in [Msgs -> 0..MaxRetries]
  /\ paused    \in BOOLEAN
  /\ sender    \in [Msgs -> Sender]
  /\ poller    \in [Msgs -> Poller]
  /\ canceller \in [Msgs -> Canceller]
  /\ plus      \in [Msgs -> Seq([Parts -> Part])]
  /\ weekOld   \in [Msgs -> BOOLEAN]
  /\ overdue   \in [Msgs -> BOOLEAN]
  /\ restarts  \in 0..MaxRestarts
  /\ reports   \in [Msgs -> Seq(GatewayStatus)]
  /\ lost      \in [Msgs -> Nat]
  /\ torn      \in SUBSET Msgs

Quiet(m) == /\ jobs[m] = {}
            /\ sender[m].pc = "idle" /\ poller[m].pc = "idle" /\ canceller[m].pc = "idle"

(* A message accepted by the API and not closed is owed a job: whatever    *)
(* the order of answers, cancellations, pauses and crashes, the worker     *)
(* will come back to it. Only a process killed between the closing writes  *)
(* of a handler can leave it behind.                                       *)
NoStuckMessage ==
  \A m \in Msgs : status[m] # "absent" /\ ~finalAt[m] /\ m \notin torn => jobs[m] # {}

(* Handlers that run at the same time concern different messages (the      *)
(* premise of Worker.tick's lanes): a message never has a send and a poll  *)
(* job together, and a handler runs only for a job that is still there.    *)
OneJobPerMessage ==
  \A m \in Msgs :
    /\ ~(jobs[m] = {"send", "poll"})
    /\ sender[m].pc # "idle" => jobs[m] = {"send"}
    /\ poller[m].pc # "idle" => jobs[m] = {"poll"}

(* The subscriber gets a message twice only if an answer of sendsmslong    *)
(* was lost after Multiinfo had accepted the message, or the process died  *)
(* before it was recorded: retries, deferrals on a paused account and      *)
(* cancellations never hand over a message once more.                      *)
DuplicateOnlyAfterLoss ==
  \A m \in Msgs : Len(plus[m]) <= 1 + lost[m]

(* The webhook hears of the outcome of a message at most once, and of      *)
(* nothing after it, even over crashes and kills between two writes.       *)
FinalReportIsLast ==
  \A m \in Msgs : \A i \in 1..Len(reports[m]) :
    reports[m][i] \in Closed => i = Len(reports[m])

(* What the webhook was told stays true once nothing works on the message  *)
(* any more, except that a cancellation answered late may stand over it.   *)
ReportedOutcomeStands ==
  \A m \in Msgs :
    Quiet(m) /\ reports[m] # <<>> /\ reports[m][Len(reports[m])] \in Closed
      => status[m] \in {reports[m][Len(reports[m])], "cancelled"}

Stopped(part) == part.cancelled \/ IsFinal(part.code)

(* A message that rests as cancelled was never left to go out: every part  *)
(* Multiinfo got was cancelled there or had ended, also when the cancel    *)
(* request crossed the hand-over. Excused are messages whose hand-over     *)
(* was lost to a broken answer or a dead process.                          *)
CancelledMeansWithdrawn ==
  \A m \in Msgs :
    Quiet(m) /\ status[m] = "cancelled" /\ lost[m] = 0
      => \A h \in DOMAIN plus[m], p \in Parts : Stopped(plus[m][h][p])

(* Every accepted message is closed in the end: delivered, failed, expired *)
(* or cancelled, or left with the last status Multiinfo gives without a    *)
(* receipt. Excused are messages torn by a kill between two writes.        *)
EventuallyClosed ==
  \A m \in Msgs : (status[m] # "absent") ~> (finalAt[m] \/ m \in torn)

-----------------------------------------------------------------------------
(***************************************************************************)
(* The inductive invariant behind the safety properties (proved in module  *)
(* MessageLifecycleProofs).                                                *)
(***************************************************************************)
HasFinalReport(m) == \E i \in 1..Len(reports[m]) : reports[m][i] \in Closed

(* The identifiers a handler follows are those of a hand-over Multiinfo    *)
(* knows: a poll job and a withdrawal never find them missing.             *)
HandoverNamed(m) ==
  /\ miIds[m] <= Len(plus[m])
  /\ sender[m].pc = "accepted" => Len(plus[m]) > 0
  /\ ("poll" \in jobs[m] \/ sender[m].pc = "withdraw") => miIds[m] # 0

(* A message that is not there yet has no traces; one reported as ended    *)
(* has no job; a send job finds its message closed if it is cancelled.     *)
JobsAgreeWithRow(m) ==
  /\ status[m] = "absent" => /\ jobs[m] = {} /\ lost[m] = 0
                             /\ Len(plus[m]) = 0 /\ Len(reports[m]) = 0
  /\ HasFinalReport(m) => jobs[m] = {}
  /\ "send" \in jobs[m] /\ status[m] = "cancelled" /\ m \notin torn => finalAt[m]

(* Of the hand-overs of a message that still has its send job all are      *)
(* counted as lost, but for the one in the hands of that job.              *)
HandoversCounted(m) ==
  "send" \in jobs[m] => Len(plus[m]) = IF Unrecorded(m) THEN lost[m] + 1 ELSE lost[m]

IInv ==
  /\ TypeOK
  /\ OneJobPerMessage /\ NoStuckMessage /\ DuplicateOnlyAfterLoss /\ FinalReportIsLast
  /\ \A m \in Msgs : HandoverNamed(m) /\ JobsAgreeWithRow(m) /\ HandoversCounted(m)

(* A message without a job is closed or has identifiers to cancel it by;   *)
(* a request to cancel has stopped the parts it is done with, and what a   *)
(* poll saw end has ended.                                                 *)
EndsNamed(m) ==
  jobs[m] = {} /\ status[m] \notin Closed \cup {"absent"} => miIds[m] # 0

CancelSoFar(m) ==
  /\ canceller[m].pc = "idle" => canceller[m].part = 1
  /\ canceller[m].pc = "cancel" =>
       /\ status[m] # "absent" /\ canceller[m].handover \in DOMAIN plus[m]
       /\ \A p \in 1..canceller[m].part - 1 : Stopped(plus[m][canceller[m].handover][p])

SeenSoFar(m) ==
  /\ poller[m].pc = "idle" => poller[m].part = 1
  /\ \A p \in 1..poller[m].part - 1 :
       IsFinal(poller[m].seen[p]) => IsFinal(plus[m][miIds[m]][p].code)

(* What was reported stands, and what was cancelled is withdrawn, as soon  *)
(* as the message has no job; requests to cancel may still be under way.   *)
ReportStands(m) ==
  reports[m] # <<>> /\ reports[m][Len(reports[m])] \in Closed
    => status[m] \in {reports[m][Len(reports[m])], "cancelled"}

Withdrawn(m) ==
  jobs[m] = {} /\ status[m] = "cancelled" /\ lost[m] = 0
    => \A h \in DOMAIN plus[m], p \in Parts : Stopped(plus[m][h][p])

OutcomeInv ==
  /\ IInv
  /\ \A m \in Msgs : /\ EndsNamed(m) /\ CancelSoFar(m) /\ SeenSoFar(m)
                     /\ ReportStands(m) /\ Withdrawn(m)

-----------------------------------------------------------------------------
(***************************************************************************)
(* The send job implements RemoteCall: the call is the hand-over.          *)
(***************************************************************************)
DutyOf(m) ==
  IF status[m] = "absent" THEN "none"
  ELSE IF "send" \in jobs[m] THEN "owed" ELSE "over"

HandOver == INSTANCE RemoteCall WITH Items <- Msgs,
                                     duty  <- [m \in Msgs |-> DutyOf(m)],
                                     taken <- [m \in Msgs |-> Len(plus[m])]

(* A message is handed over until the hand-over has an outcome, and again  *)
(* only if the gateway cannot know that Multiinfo accepted it, also when   *)
(* the process is killed between two writes.                               *)
ImplementsHandOver == HandOver!Spec

-----------------------------------------------------------------------------
(* Claims of comments and documents that the code does not keep. The run   *)
(* FinalLost checks FinalStatusStays; the constants of the others are in   *)
(* README.md.                                                              *)

(* poll.ts:101: an intermediate status cannot take a message cancelled     *)
(* through the API back to sent.                                           *)
PollKeepsCancelled ==
  [][\A m \in Msgs :
       poller[m].pc = "info" /\ poller'[m].pc = "idle" /\ "poll" \in jobs'[m]
         /\ status[m] = "cancelled"
       => status'[m] = "cancelled"]_vars

(* docs/power-automate.md:342: delivered, failed, expired, cancelled and   *)
(* blocked are final. Checked for messages that have a final time, and not *)
(* against the return to sent that docs/api.md describes.                  *)
FinalStatusStays ==
  [][\A m \in Msgs :
       finalAt[m] /\ status[m] \in Closed
       => status'[m] = status[m] \/ sender[m].pc = "withdraw"]_vars

(* docs/api.md:792: a cancellation that crosses the hand-over takes the    *)
(* parts back once the hand-over ends. Here also over a restart.           *)
WithdrawalIsNotForgotten ==
  \A m \in Msgs :
    Quiet(m) /\ status[m] = "cancelled" /\ miIds[m] # 0
      => \A p \in Parts : Stopped(plus[m][miIds[m]][p])

(* poll.ts:22: a message without a final status a week after its hand-over *)
(* is ended as expired and not asked about for ever.                       *)
WeekLimitHolds ==
  [][\A m \in Msgs :
       poller[m].pc = "info" /\ poller[m].old /\ poller'[m].pc = "idle"
         /\ restarts' = restarts
       => "poll" \notin jobs'[m]]_vars
=============================================================================
