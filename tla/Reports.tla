------------------------------- MODULE Reports -------------------------------
(***************************************************************************)
(* What the sender of a mail hears about the SMS it became: the reply when *)
(* it became none (replyFor in src/src/worker/mail-in.ts), the report a    *)
(* minute after the sending and the one with the outcome                   *)
(* (src/src/worker/mail-report.ts), and the mails that carry them          *)
(* (src/src/worker/mail.ts).                                               *)
(*                                                                         *)
(* Which mails are taken is MailIn. The numbers of one mail are its rows   *)
(* in the table messages. How a row comes to its status is                 *)
(* MessageLifecycle; here a row takes every status that hand-over, polls   *)
(* and cancellations can write next. "sent" stands for every status after  *)
(* the hand-over that is not final, "expired" for every failure that       *)
(* "failed" of another part overrules. Polls of a row do not overlap (a    *)
(* lock lasts fifteen minutes), and none gives up after its week and is    *)
(* killed before its job ends while a report is still owed. The schedule   *)
(* of the checks is a constant, in the unit of the model.                  *)
(***************************************************************************)
EXTENDS Integers, Sequences

CONSTANTS
  Rows,        \* the messages the mail became
  First,       \* from the sending to the first report
  Schedule,    \* <<until, delay>>: how often to look, by the time since
  TailDelay,   \* and after all of them
  Day,         \* when to stop looking
  MailRetries, \* how often a mail is tried again
  MaxTime      \* bound

VARIABLES
  now,
  settings,   \* smtp: the server of the notifications; reply: replies
  at,         \* how far the mail is
  status,     \* of the rows
  final,      \* rows whose finalAt is set
  withdrawn,  \* rows that the client of the API asked to cancel
  job,        \* the job mail.report; of no stage when there is none
  reports,    \* the reports that were composed, and what they said
  outbox,     \* jobs mail: the number of a report, and its attempts
  waived      \* replies were switched off at a check, or SMTP missing

messages == <<status, final, withdrawn>>
vars == <<now, settings, at, messages, job, reports, outbox, waived>>
mail == <<at, job, reports, outbox, waived>>

Outcomes == {"sent", "refused", "silent"}
NoJob    == [stage |-> "none", at |-> 0]

Failures      == {"failed", "expired"}
FinalStatuses == Failures \cup {"delivered", "cancelled"}

Init ==
  /\ now = 0
  /\ settings = [f \in {"smtp", "reply"} |-> TRUE]
  /\ at = "taken"
  /\ status = [r \in Rows |-> "queued"] /\ final = {} /\ withdrawn = {}
  /\ job = NoJob /\ reports = <<>> /\ outbox = {} /\ waived = FALSE

Tick ==
  /\ now < MaxTime /\ at # "acting"
  /\ now' = now + 1
  /\ UNCHANGED <<settings, mail, messages>>

(* The panel: the server of the notifications, the replies of the mailbox  *)
(* (which is also what its removal ends).                                  *)
Change(f) ==
  /\ settings' = [settings EXCEPT ![f] = ~@]
  /\ UNCHANGED <<now, mail, messages>>

Becomes(r, s) == status' = [status EXCEPT ![r] = s]

(* The hand-over succeeds, or is refused or given up. *)
HandOver(r) ==
  /\ status[r] = "queued"
  /\ \/ Becomes(r, "sent") /\ UNCHANGED final
     \/ Becomes(r, "failed") /\ final' = final \cup {r}

(* A poll. A part that failed decides, while others are still open: the    *)
(* row has the failure and no finalAt. What is delivered is so entirely,   *)
(* and a part with a final status keeps it. Giving up is an end, too, and  *)
(* writes expired.                                                         *)
Poll(r) ==
  /\ status[r] # "queued"
  /\ \/ /\ \E s \in {"sent", "failed", "expired"} : Becomes(r, s)
        /\ final' \in {final, final \cup {r}}
     \/ Becomes(r, "delivered") /\ final' = final \cup {r}
  /\ status[r] \in Failures => status'[r] \in Failures

(* After a request to cancel, its answer, the hand-over and the polls under *)
(* way write over each other, and finalAt is taken back where Multiinfo    *)
(* refuses to withdraw what it accepted meanwhile.                         *)
Crossed(r) ==
  /\ \E s \in {"sent", "delivered", "failed", "cancelled"} : Becomes(r, s)
  /\ final' \in {final \cup {r}, final \ {r}}

Progress(r) ==
  /\ at \notin {"taken", "nothing"}
  /\ IF r \in withdrawn THEN Crossed(r) ELSE r \notin final /\ (HandOver(r) \/ Poll(r))
  /\ UNCHANGED <<now, settings, mail, withdrawn>>

(* POST /v1/messages/:id/cancel of the key that the mailbox sends with.    *)
Cancel(r) ==
  /\ at \notin {"taken", "nothing"}
  /\ status[r] \notin FinalStatuses
  /\ withdrawn' = withdrawn \cup {r}
  /\ UNCHANGED <<now, settings, mail, status, final>>

-----------------------------------------------------------------------------
(* runMailIn has written the messages; what the poller does with the mail  *)
(* in its folder takes time, and only then comes the reply.                *)
Taken ==
  /\ at = "taken" /\ now = 0
  /\ at' = "acting"
  /\ UNCHANGED <<now, settings, messages, job, reports, outbox, waived>>

(* isFinalRow *)
(* Mutant: what was handed to the operator is taken for its outcome. *)
SentIsFinal(r) == r \in final \/ status[r] # "queued"

IsFinal(r) == r \in final \/ status[r] \in FinalStatuses

AllFinal == \A r \in Rows : IsFinal(r)

(* What the report with the outcome says of a row, and whether the row had *)
(* its finalAt then. The other reports speak of their own moment only.     *)
Outcome(r) == [row |-> r, status |-> status[r], dated |-> r \in final]

Report(kind) ==
  [kind |-> kind, open |-> ~AllFinal, late |-> now >= Day,
   told |-> IF kind = "final" THEN {Outcome(r) : r \in Rows} ELSE {}]

Queued == [report |-> Len(reports) + 1, tries |-> 0]

(* reply: to a mail that is no automatic one itself; to a stranger nothing.*)
Reply ==
  /\ at = "acting"
  /\ \E o \in Outcomes, auto \in BOOLEAN :
       IF ~settings.reply \/ ~settings.smtp \/ auto \/ o = "silent"
       THEN /\ at' = "nothing" /\ UNCHANGED <<job, reports, outbox>>
       ELSE IF o = "refused"
       THEN /\ at' = "nothing"
            /\ reports' = Append(reports, Report("refused"))
            /\ outbox' = outbox \cup {Queued}
            /\ UNCHANGED job
       ELSE /\ at' = "replied"
            /\ job' = [stage |-> "first", at |-> now + First]
            /\ UNCHANGED <<reports, outbox>>
  /\ UNCHANGED <<now, settings, messages, waived>>

(* The process dies before the reply: the mail will not be taken again. *)
Die ==
  /\ at = "acting"
  /\ at' = "nothing"
  /\ UNCHANGED <<now, settings, messages, job, reports, outbox, waived>>

-----------------------------------------------------------------------------
(* nextCheckDelayMs, nextCheck: never later than the end of the day. *)
Delay(elapsed) ==
  LET rows == {i \in DOMAIN Schedule : elapsed < Schedule[i][1]}
  IN IF rows = {} THEN TailDelay ELSE Schedule[CHOOSE i \in rows : \A j \in rows : i <= j][2]

Earlier(a, b) == IF a < b THEN a ELSE b
NextCheck     == Earlier(now + Delay(now), Day)

Send(kind) ==
  /\ reports' = Append(reports, Report(kind))
  /\ outbox'  = outbox \cup {Queued}

Due(stage) == job.stage = stage /\ job.at <= now

(* handleMailReport: without a server there is no mail; replies that were  *)
(* switched off since end it, too.                                         *)
Waive ==
  /\ job.stage # "none" /\ job.at <= now
  /\ ~settings.smtp \/ ~settings.reply
  /\ job' = NoJob /\ waived' = TRUE
  /\ UNCHANGED <<now, settings, at, messages, reports, outbox>>

Wanted == settings.smtp /\ settings.reply

(* The first report and the job for the outcome are one transaction. *)
(* Mutant: the promise of a second report is kept by nobody. *)
AfterFirstNothing == NoJob

AfterFirst == IF AllFinal THEN NoJob ELSE [stage |-> "final", at |-> NextCheck]

FirstReport ==
  /\ Wanted /\ Due("first")
  /\ Send("first")
  /\ job' = AfterFirst
  /\ UNCHANGED <<now, settings, at, messages, waived>>

LastReport ==
  /\ Wanted /\ Due("final")
  /\ AllFinal \/ now >= Day
  /\ Send(IF AllFinal THEN "final" ELSE "timeout")
  /\ job' = NoJob
  /\ UNCHANGED <<now, settings, at, messages, waived>>

LookAgain ==
  /\ Wanted /\ Due("final") /\ ~AllFinal /\ now < Day
  /\ job' = [job EXCEPT !.at = NextCheck]
  /\ UNCHANGED <<now, settings, at, messages, reports, outbox, waived>>

-----------------------------------------------------------------------------
(* handleMail: no server, no mail. An account that waits for its login is  *)
(* an attempt that failed, like a refusal of the server (mailerSettings).  *)
Drop(m) ==
  /\ m \in outbox /\ ~settings.smtp
  /\ outbox' = outbox \ {m}
  /\ UNCHANGED <<now, settings, at, messages, job, reports, waived>>

Deliver(m) ==
  /\ m \in outbox /\ settings.smtp
  /\ outbox' = outbox \ {m}
  /\ UNCHANGED <<now, settings, at, messages, job, reports, waived>>

Fail(m) ==
  /\ m \in outbox /\ settings.smtp
  /\ outbox' = (outbox \ {m}) \cup IF m.tries = MailRetries THEN {} ELSE {[m EXCEPT !.tries = @ + 1]}
  /\ UNCHANGED <<now, settings, at, messages, job, reports, waived>>

Next ==
  \/ Tick \/ Taken \/ Reply \/ Die
  \/ \E f \in {"smtp", "reply"} : Change(f)
  \/ \E r \in Rows : Progress(r) \/ Cancel(r)
  \/ Waive \/ FirstReport \/ LastReport \/ LookAgain
  \/ \E m \in outbox : Drop(m) \/ Deliver(m) \/ Fail(m)

Spec == Init /\ [][Next]_vars

-----------------------------------------------------------------------------
Kinds(k) == {i \in DOMAIN reports : reports[i].kind = k}

(* The model keeps its types. *)
TypeOK ==
  /\ now \in 0..MaxTime /\ settings \in [{"smtp", "reply"} -> BOOLEAN]
  /\ at \in {"taken", "acting", "replied", "nothing"}
  /\ final \subseteq Rows /\ withdrawn \subseteq Rows /\ waived \in BOOLEAN
  /\ job.stage \in {"none", "first", "final"} /\ job.at \in 0..MaxTime + First
  /\ \A i \in DOMAIN reports : reports[i].kind \in {"refused", "first", "final", "timeout"}
  /\ \A m \in outbox : m.report \in DOMAIN reports /\ m.tries \in 0..MailRetries

(* What the last report said of a number stays true, unless somebody asked *)
(* to cancel that SMS: it only may have failed otherwise, when it was told *)
(* as failed before all of its parts had ended. The report that gives up   *)
(* comes after a whole day and about a number that was open; there is one  *)
(* of these two at most, and it follows the first.                         *)
Stands(o) ==
  IF o.dated THEN o.status = status[o.row] ELSE {o.status, status[o.row]} \subseteq Failures

OutcomeIsTold ==
  /\ \A i \in Kinds("final") : \A o \in reports[i].told : o.row \in withdrawn \/ Stands(o)
  /\ \A i \in Kinds("timeout") : reports[i].late /\ reports[i].open
  /\ \A i \in Kinds("final") \cup Kinds("timeout") :
       Kinds("first") = {i - 1} /\ i = Len(reports)

(* A first report with an open number promises another; it is owed until   *)
(* it is written or the administrator no longer wants it.                  *)
PromiseIsOwed ==
  (\E i \in Kinds("first") : reports[i].open) =>
    \/ job.stage = "final" /\ job.at <= Day
    \/ Kinds("final") \cup Kinds("timeout") # {}
    \/ waived

-----------------------------------------------------------------------------
(* What makes these inductive: how far the story of the reports is, by the *)
(* mail and its job.                                                       *)
AllStatuses == {"queued", "sent"} \cup FinalStatuses

Told == [kind : {"refused", "first", "final", "timeout"}, open : BOOLEAN, late : BOOLEAN,
         told : SUBSET [row : Rows, status : AllStatuses, dated : BOOLEAN]]

Tables ==
  /\ status \in [Rows -> AllStatuses]
  /\ \A r \in Rows \ (final \cup withdrawn) : status[r] \in {"queued", "sent"} \cup Failures
  /\ job \in [stage : {"none", "first", "final"}, at : 0..MaxTime + First]
  /\ reports \in Seq(Told)
  /\ outbox \subseteq [report : DOMAIN reports, tries : 0..MailRetries]

Unanswered ==
  /\ at # "replied" => /\ job.stage = "none" /\ Len(reports) <= 1
                       /\ \A i \in DOMAIN reports : reports[i].kind = "refused"
  /\ at \in {"taken", "acting"} => reports = <<>>

Answered ==
  at = "replied" =>
    /\ Len(reports) <= 2
    /\ job.stage = "first" => reports = <<>>
    /\ job.stage = "final" => Len(reports) = 1 /\ job.at <= Day
    /\ Len(reports) >= 1 => reports[1].kind = "first"
    /\ Len(reports) = 1 => job.stage = "final" \/ waived \/ ~reports[1].open
    /\ Len(reports) = 2 =>
         /\ job.stage = "none"
         /\ \/ /\ reports[2].kind = "final"
               /\ \A o \in reports[2].told :
                    o.row \in withdrawn \/ (Stands(o) /\ (o.dated => o.row \in final))
            \/ /\ reports[2].kind = "timeout"
               /\ reports[2].late /\ reports[2].open

IInv == TypeOK /\ Tables /\ Unanswered /\ Answered
=============================================================================
