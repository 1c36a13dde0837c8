------------------------------ MODULE Notices ------------------------------
(***************************************************************************)
(* Notifications of the administrator (src/src/notifications/notifier.ts,  *)
(* scanner.ts and sms.ts, src/src/store/notifications.ts,                  *)
(* src/src/worker/mail.ts, notifyFailure in src/src/worker/mail-in.ts).    *)
(*                                                                         *)
(* A notification is a row with a state for each of its two ways, mail and *)
(* SMS. Once a minute the worker turns the waiting rows of every rule into *)
(* mail jobs and into SMS, within the limits of the rule and of the day.   *)
(* Each of these turns runs without waiting, but its writes are not one    *)
(* transaction: the process may die between any two of them.               *)
(*                                                                         *)
(* Time is a number of ticks; what happens within a tick has the same time *)
(* stamp. What is at most Hour ticks old is of the last hour, and what is  *)
(* at most Day ticks old of the last day.                                  *)
(***************************************************************************)
EXTENDS Integers, Sequences, FiniteSets, FiniteSetsExt, Functions

CONSTANTS
  Rules,       \* the rules used, in the order of NOTIFICATION_EVENTS
  MaxPerHour,  \* [rules -> limit of notifications]
  GroupHours,  \* [rules -> ticks between two mails, 0 for no grouping]
  PoolSize,    \* [rules, alarm |-> SMS a day]
  Causes,      \* keys of what is reported again and again
  RuleOf,      \* [Causes -> rules]
  Retries,     \* entries of MAIL_BACKOFF_MS
  Hour, Day, Keep,          \* ticks
  MaxRows, MaxTime,
  MaxEvents    \* bounds; the last one on deaths of the process and saves together

VARIABLES
  (* tables notification_queue, jobs, smtp_settings, sms_notify_settings   *)
  queue,     \* rows in the order they came
  jobs,      \* mail jobs
  rule,      \* enabled and sms of every rule
  smtp,      \* "off", "password" or "m365"
  channel,   \* whether the SMS channel is on, and its numbers
  (* what the notifications are about *)
  down,      \* the account SMTP goes through needs a login
  refusing,  \* the key of the channel cannot send
  (* memory *)
  turn,      \* SMS turn: number of rules done and whether a send was refused
  (* history and bounds *)
  now, kills, saves,
  mailed,    \* [row -> mails made of it that the server took]
  unheard,   \* [row -> those of them whose answer was lost and that were tried again]
  texted,    \* [pool -> [time -> SMS handed over]]
  unmarked,  \* of them, those the process died over before it counted them
  owed,      \* suppressed rows no mail of their rule was written since
  missed     \* suppressed rows the next mail of their rule did not count

settings == <<rule, smtp, channel>>
world    == <<down, refusing>>
past     == <<mailed, unheard, texted, unmarked, owed, missed>>
vars     == <<queue, jobs, settings, world, turn, now, kills, saves, past>>

Events  == Range(Rules)
Alarms  == {"m365_disconnected", "mail_undeliverable"}  \* SMS_ALARM_EVENTS
SmsOnly == {"mail_undeliverable"}                       \* SMS_ONLY_EVENTS
Pool(e) == IF e \in Alarms THEN "alarm" ELSE "rules"
NoKey   == <<>>
Idle    == [done |-> 0, failed |-> FALSE]

Init ==
  /\ queue = <<>> /\ jobs = {}
  /\ \E more \in BOOLEAN :  \* SMS_DEFAULT_ON, or the administrator's choice
       rule = [e \in Events |-> [enabled |-> TRUE, sms |-> more \/ e \in Alarms]]
  /\ smtp     \in {"off", "m365"}
  /\ channel  = [on |-> TRUE, numbers |-> 2]
  /\ down = FALSE /\ refusing = FALSE
  /\ turn     = Idle
  /\ now      = 0 /\ kills = 0 /\ saves = 0
  /\ mailed   = [r \in 1..MaxRows |-> 0]
  /\ unheard  = [r \in 1..MaxRows |-> 0]
  /\ texted   = [p \in DOMAIN PoolSize |-> [t \in 0..MaxTime |-> 0]]
  /\ unmarked = 0 /\ owed = {} /\ missed = {}

-----------------------------------------------------------------------------
Rows         == DOMAIN queue
Kept         == {r \in Rows : queue[r].kept}
Of(e)        == {r \in Kept : queue[r].event = e}
Waiting(e)   == {r \in Of(e) : queue[r].mail = "pending"}
WaitingSms(e) == {r \in Of(e) : queue[r].sms = "pending"}
Free         == turn = Idle
Spare        == kills + saves < MaxEvents
Die          == Spare /\ kills' = kills + 1

(* Rows are taken in their order: some that come before the rest of them.  *)
(* A death that interrupts n of them leaves at most one taken, not marked. *)
Heads(S)              == {X \in SUBSET S : \A r \in X, o \in S \ X : r < o}
Torn(taken, marked, n) ==
  marked \subseteq taken /\ Cardinality(taken \ marked) <= 1 /\ Cardinality(taken) \in 1..n

(* The sum of f over S, counted one by one. *)
Total(f, S) == Cardinality(UNION {{x} \X (1..f[x]) : x \in S})

Sent(r)    == [queue[r] EXCEPT !.mail = "sent", !.mailAt = now]

(* Mutant: of several rows in one mail only the first is marked. *)
MarkSentFirst(S) == [r \in Rows |-> IF r \in S /\ \A o \in S : r <= o THEN Sent(r) ELSE queue[r]]

MarkSent(S) == [r \in Rows |-> IF r \in S THEN Sent(r) ELSE queue[r]]
MarkSms(sent, dropped) ==
  [r \in Rows |-> IF r \in sent
     THEN [queue[r] EXCEPT !.sms = "sent", !.smsAt = now, !.count = channel.numbers]
     ELSE IF r \in dropped THEN [queue[r] EXCEPT !.sms = "suppressed"] ELSE queue[r]]

(* enqueue: nothing when the rule is off, when no way is left, or when a   *)
(* row with the same key is there. A mail about the account the mail goes  *)
(* through would not arrive.                                               *)
ByMail(e)     == e \notin SmsOnly /\ ~(e = "m365_disconnected" /\ smtp = "m365")
BySms(e)      == rule[e].sms /\ channel.on
Noted(e, key) ==
  /\ e \in Events /\ rule[e].enabled /\ (ByMail(e) \/ BySms(e))
  /\ key = NoKey \/ \A r \in Kept : queue[r].key # key
Row(e, key, mail, sms) ==
  [event |-> e, key |-> key, at |-> now, kept |-> TRUE,
   mail |-> IF mail THEN "pending" ELSE "none", mailAt |-> -1,
   sms |-> IF sms THEN "pending" ELSE "none", smsAt |-> -1, count |-> 0]
Notify(q, e, key) ==
  IF Noted(e, key) THEN Append(q, Row(e, key, ByMail(e), BySms(e))) ELSE q

-----------------------------------------------------------------------------
(* What is notified.                                                       *)
Room == Len(queue) < MaxRows

(* Something happened once: an error of an integration, a message refused. *)
Happens(e) ==
  /\ Free /\ Room /\ e \notin {"daily_summary", "m365_disconnected", "mail_undeliverable"}
  /\ e \notin {RuleOf[c] : c \in Causes}
  /\ queue' = Notify(queue, e, NoKey)
  /\ UNCHANGED <<jobs, settings, world, turn, now, kills, saves, past>>

(* The account of SMTP loses its login: TokenService tells it once.        *)
Disconnect ==
  /\ Free /\ Room /\ smtp = "m365" /\ ~down
  /\ down'  = TRUE
  /\ queue' = Notify(queue, "m365_disconnected", NoKey)
  /\ UNCHANGED <<jobs, settings, refusing, turn, now, kills, saves, past>>

Login ==
  /\ Free /\ down /\ down' = FALSE
  /\ UNCHANGED <<queue, jobs, settings, refusing, turn, now, kills, saves, past>>

(* scan, notifyFailure and the check for releases look again and again, and*)
(* rely on the key: a threshold of a certificate, an account with the      *)
(* reason of its pause, a service with the hour, a mailbox with the time   *)
(* its trouble began, a release. A death between the row and the mark of a *)
(* mailbox only makes them look once more.                                 *)
Report(c) ==
  /\ Free /\ Room
  /\ queue' = Notify(queue, RuleOf[c], <<c>>)
  /\ UNCHANGED <<jobs, settings, world, turn, now, kills, saves, past>>

-----------------------------------------------------------------------------
(* flush: the mails of one rule. Rules are independent of one another, so  *)
(* a turn is a step for each of them.                                      *)
LastSent(e)   == Max({queue[r].mailAt : r \in Of(e)} \cup {-1})
Counted(e)    == {r \in Of(e) : queue[r].mail = "suppressed" /\ queue[r].at >= LastSent(e)}
SentNow(e)    == {r \in Of(e) : queue[r].mail = "sent" /\ queue[r].mailAt >= now - Hour}
Over(n)       == IF n < 0 THEN 0 ELSE n
Least(m, n)   == IF m < n THEN m ELSE n
MailBudget(e) == Over(MaxPerHour[e] - Cardinality(SentNow(e)))
Number        == Max({j.no : j \in jobs} \cup {0})
Mail(no, S)   == [no |-> no, about |-> S, tries |-> 0]

(* A mail of the rule counts the suppressed rows since the last one.       *)
Compose(e)  == missed' = missed \cup ((owed \cap Of(e)) \ Counted(e))

FlushGroup(e, killed) ==
  /\ GroupHours[e] > 0
  /\ LastSent(e) = -1 \/ now - LastSent(e) >= GroupHours[e]
  /\ jobs' = jobs \cup {Mail(Number + 1, Waiting(e))}
  /\ Compose(e) /\ owed' = owed \ Of(e)
  /\ IF killed THEN Die /\ UNCHANGED queue
     ELSE UNCHANGED kills /\ queue' = MarkSent(Waiting(e))

(* One by one up to the budget, then the rest is suppressed. Death comes   *)
(* after a job and before its mark, or before the rest is suppressed.      *)
FlushSingles(e, killed) ==
  LET w == Waiting(e)
      n == Least(MailBudget(e), Cardinality(w))
      Mails(S) == {Mail(Number + Cardinality({o \in w : o <= r}), {r}) : r \in S}
  IN /\ GroupHours[e] = 0
     /\ IF n > 0 THEN Compose(e) ELSE UNCHANGED missed
     /\ \E mails \in Heads(w), marked \in Heads(w) :
          /\ jobs' = jobs \cup Mails(mails)
          /\ owed' = (IF n > 0 THEN owed \ Of(e) ELSE owed) \cup (IF killed THEN {} ELSE w \ mails)
          /\ IF killed
             THEN /\ Die /\ Torn(mails, marked, n)
                  /\ queue' = MarkSent(marked)
             ELSE /\ UNCHANGED kills
                  /\ Cardinality(mails) = n /\ marked = mails
                  /\ queue' = [r \in Rows |->
                                 IF r \in mails THEN Sent(r)
                                 ELSE IF r \in w THEN [queue[r] EXCEPT !.mail = "suppressed"]
                                 ELSE queue[r]]

Flush(e, killed) ==
  /\ Free /\ smtp # "off" /\ rule[e].enabled /\ Waiting(e) # {}
  /\ FlushGroup(e, killed) \/ FlushSingles(e, killed)
  /\ UNCHANGED <<settings, world, turn, now, saves, mailed, unheard, texted, unmarked>>

(* dailySummary: the row, the job and the mark are three writes.           *)
DailySummary(cut) ==
  LET key  == <<"daily", now \div (Day + 1)>>
      mail == smtp # "off"
      row  == Len(queue) + 1
      q    == Append(queue, Row("daily_summary", key, mail, BySms("daily_summary")))
  IN /\ Free /\ Room /\ "daily_summary" \in Events /\ rule["daily_summary"].enabled
     /\ mail \/ BySms("daily_summary")
     /\ \A r \in Kept : queue[r].key # key
     /\ IF cut = "none" THEN UNCHANGED kills ELSE mail /\ Die
     /\ queue' = IF mail /\ cut = "none" THEN [q EXCEPT ![row].mail = "sent", ![row].mailAt = now] ELSE q
     /\ jobs'  = IF mail /\ cut # "row" THEN jobs \cup {Mail(Number + 1, {row})} ELSE jobs
     /\ UNCHANGED <<settings, world, turn, now, saves, past>>

-----------------------------------------------------------------------------
(* flushSms: rule after rule; the first refusal ends the turn for all of   *)
(* them. With the channel off what waits is dropped.                       *)
CountedToday(pool)  == {r \in Kept : queue[r].sms = "sent" /\ queue[r].smsAt >= now - Day
                                /\ Pool(queue[r].event) = pool}

(* Mutant: notifications are counted, not the numbers each went to. *)
UsedAsNotes(pool) == Cardinality(CountedToday(pool))

Used(pool)    == Total([r \in Rows |-> queue[r].count], CountedToday(pool))
SmsBudget(e)  == Over(MaxPerHour[e] - Cardinality({r \in Of(e) : queue[r].sms = "sent"
                                                               /\ queue[r].smsAt >= now - Hour}))
DayBudget(p)  == Over(PoolSize[p] - Used(p)) \div channel.numbers
HandOver(p, sent, marked) ==
  /\ texted'   = [texted EXCEPT ![p][now] = @ + Cardinality(sent) * channel.numbers]
  /\ unmarked' = unmarked + Cardinality(sent \ marked) * channel.numbers

FlushSms(killed) ==
  LET e == Rules[turn.done + 1]
      w == WaitingSms(e)
      tries == Least(Least(SmsBudget(e), DayBudget(Pool(e))), Cardinality(w))
      n == IF turn.failed \/ refusing \/ ~channel.on THEN 0 ELSE tries
  IN /\ \E r \in Kept : queue[r].sms = "pending"
     /\ \E sent \in Heads(w), marked \in Heads(w) :
          /\ HandOver(Pool(e), sent, marked)
          /\ queue' = MarkSms(marked, IF killed THEN {} ELSE w \ sent)
          /\ IF killed
             THEN Die /\ Torn(sent, marked, n) /\ turn' = Idle
             ELSE /\ UNCHANGED kills
                  /\ Cardinality(sent) = n /\ marked = sent
                  /\ turn' = IF turn.done + 1 = Len(Rules) THEN Idle
                             ELSE [done |-> turn.done + 1,
                                   failed |-> turn.failed \/ (channel.on /\ refusing /\ tries > 0)]
     /\ UNCHANGED <<jobs, settings, world, now, saves, mailed, unheard, owed, missed>>

(* Nothing is left for the rest of the rules.                              *)
SmsDone ==
  /\ ~Free /\ ~\E r \in Kept : queue[r].sms = "pending"
  /\ turn' = Idle
  /\ UNCHANGED <<queue, jobs, settings, world, now, kills, saves, past>>

-----------------------------------------------------------------------------
(* handleMail. An attempt fails before the server has taken the mail or     *)
(* after it, when the answer is lost: the code cannot tell one from the    *)
(* other, and tries again or gives up all the same.                        *)
Counts(f, j)     == [r \in 1..MaxRows |-> f[r] + IF r \in j.about THEN 1 ELSE 0]
Reachable        == smtp # "off" /\ ~(smtp = "m365" /\ down)
Attempt(j, took) == IF took THEN Reachable /\ mailed' = Counts(mailed, j) ELSE UNCHANGED mailed

Deliver(j, killed) ==
  /\ Free /\ Attempt(j, TRUE)
  /\ IF killed THEN Die /\ UNCHANGED jobs ELSE UNCHANGED kills /\ jobs' = jobs \ {j}
  /\ UNCHANGED <<queue, settings, world, turn, now, saves, unheard, texted, unmarked, owed, missed>>

Retry(j, took) ==
  /\ Free /\ smtp # "off" /\ j.tries < Retries /\ Attempt(j, took)
  /\ unheard' = IF took THEN Counts(unheard, j) ELSE unheard
  /\ jobs'    = (jobs \ {j}) \cup {[j EXCEPT !.tries = @ + 1]}
  /\ UNCHANGED <<queue, settings, world, turn, now, kills, saves, texted, unmarked, owed, missed>>

(* Given up: told by SMS, unless the account is known to need a login.     *)
GiveUp(j, took) ==
  /\ Free /\ Room /\ smtp # "off" /\ j.tries = Retries /\ Attempt(j, took)
  /\ jobs'  = jobs \ {j}
  /\ queue' = IF smtp = "m365" /\ down THEN queue ELSE Notify(queue, "mail_undeliverable", NoKey)
  /\ UNCHANGED <<settings, world, turn, now, kills, saves, unheard, texted, unmarked, owed, missed>>

(* SMTP was removed since: the job fails and nobody is told.               *)
NoSmtp(j) ==
  /\ Free /\ smtp = "off" /\ jobs' = jobs \ {j}
  /\ UNCHANGED <<queue, settings, world, turn, now, kills, saves, past>>

-----------------------------------------------------------------------------
(* The forms of the panel, and the key of the channel.                     *)
Save == Free /\ Spare /\ saves' = saves + 1

SaveSmtp(mode) ==
  /\ Save /\ smtp' = mode
  /\ UNCHANGED <<queue, jobs, rule, channel, world, turn, now, kills, past>>

SaveSms(on, n) ==
  /\ Save /\ channel' = [on |-> on, numbers |-> n]
  /\ UNCHANGED <<queue, jobs, rule, smtp, world, turn, now, kills, past>>

SaveRule(e) ==
  /\ Save /\ (smtp # "off" \/ channel.on)
  /\ \/ rule' = [rule EXCEPT ![e].enabled = ~@]
     \/ rule' = [rule EXCEPT ![e].sms = ~@]
  /\ UNCHANGED <<queue, jobs, smtp, channel, world, turn, now, kills, past>>

KeyChanges ==
  /\ Save /\ refusing' = ~refusing
  /\ UNCHANGED <<queue, jobs, settings, down, turn, now, kills, past>>

(* pruneBefore, waiting rows included.                                     *)
Prune ==
  /\ Free /\ \E r \in Kept : queue[r].at < now - Keep
  /\ queue' = [r \in Rows |-> [queue[r] EXCEPT !.kept = @ /\ queue[r].at >= now - Keep]]
  /\ UNCHANGED <<jobs, settings, world, turn, now, kills, saves, past>>

(* SMS do not wait: the worker takes its turn every minute.                *)
Tick ==
  /\ Free /\ now < MaxTime /\ now' = now + 1
  /\ ~\E r \in Kept : queue[r].sms = "pending"
  /\ UNCHANGED <<queue, jobs, settings, world, turn, kills, saves, past>>

Next ==
  \/ \E e \in Events : Happens(e) \/ \E killed \in BOOLEAN : Flush(e, killed)
  \/ \E c \in Causes : Report(c)
  \/ Disconnect \/ Login
  \/ \E cut \in {"none", "row", "job"} : DailySummary(cut)
  \/ (\E killed \in BOOLEAN : FlushSms(killed)) \/ SmsDone
  \/ \E j \in jobs : NoSmtp(j) \/ \E took \in BOOLEAN : Retry(j, took) \/ GiveUp(j, took)
  \/ \E j \in jobs, killed \in BOOLEAN : Deliver(j, killed)
  \/ \E mode \in {"off", "password", "m365"} : SaveSmtp(mode)
  \/ \E on \in BOOLEAN, n \in 1..2 : SaveSms(on, n)
  \/ \E e \in Events : SaveRule(e)
  \/ KeyChanges \/ Prune \/ Tick

Spec == Init /\ [][Next]_vars

-----------------------------------------------------------------------------
(* Rows, jobs and settings keep their types; a row is pending on some way  *)
(* or was, and has a time exactly when it was sent.                        *)
Ways == {"none", "pending", "sent", "suppressed"}
TypeOK ==
  /\ \A r \in Rows :
       LET q == queue[r] IN
         /\ q.event \in Events /\ q.mail \in Ways /\ q.sms \in Ways
         /\ q.kept \in BOOLEAN /\ {q.mail, q.sms} # {"none"} /\ q.at \in 0..now
         /\ q.mail = "sent" <=> q.mailAt \in q.at..now
         /\ q.sms = "sent" <=> q.smsAt \in q.at..now
  /\ \A j \in jobs : j.about \subseteq Rows /\ j.tries \in 0..Retries
  /\ turn.done \in 0..Len(Rules) /\ owed \cup missed \subseteq Rows

(* The pools of the day hold, whatever the limits of the rules, the numbers*)
(* of the channel and the order of the turns: only what a death of the     *)
(* process kept from being counted may come on top.                        *)
PoolsHold ==
  \A p \in DOMAIN PoolSize, t \in 0..MaxTime :
    Total(texted[p], Over(t - Day)..t) <= PoolSize[p] + unmarked

(* A notification is mailed once more for every death of the process, which*)
(* may come between writing the job and marking the row or between the     *)
(* server taking the mail and the job ending, and once more for every      *)
(* answer of the server that was lost and followed by another attempt.     *)
MailedOnce == \A r \in 1..MaxRows : mailed[r] <= 1 + kills + unheard[r]

(* What makes them inductive. A mail job about a row and a row that still  *)
(* waits, or has not come yet, may each mean one mail more.                *)
About(r)      == {j \in jobs : r \in j.about}
ToMail(r)     == IF r \notin Rows \/ queue[r].mail = "pending" THEN 1 ELSE 0
MailsCounted  == \A r \in 1..MaxRows : mailed[r] + Cardinality(About(r)) + ToMail(r) <= 1 + kills + unheard[r]

(* SMS do not wait: what was sent was sent when it came. So the rows that  *)
(* tell the SMS of a day are kept, and of the SMS handed over since any    *)
(* time of the day all but the unmarked are in the rows.                   *)
SmsAtOnce == \A r \in Rows : /\ queue[r].sms = "pending" /\ queue[r].kept => queue[r].at = now
                             /\ queue[r].sms = "sent" => queue[r].smsAt = queue[r].at
CountedSince(p, s) == {r \in Kept : queue[r].sms = "sent" /\ queue[r].smsAt >= s
                                     /\ Pool(queue[r].event) = p}
TextsCounted ==
  /\ \A p \in DOMAIN PoolSize, t \in 0..MaxTime : t > now => texted[p][t] = 0
  /\ \A p \in DOMAIN PoolSize, s \in Over(now - Day)..now :
       Total(texted[p], s..now) <= Total([r \in Rows |-> queue[r].count], CountedSince(p, s)) + unmarked

Given == {NoKey} \cup {<<c>> : c \in Causes} \cup ({"daily"} \X Nat)  \* the keys of rows
Tables ==
  /\ queue \in Seq([event : Events, key : Given, at : Nat, kept : BOOLEAN, mail : Ways, mailAt : Int,
                     sms : Ways, smsAt : Int, count : Nat])
  /\ \A r \in Rows : /\ queue[r].mail = "sent" \/ queue[r].mailAt = -1
                     /\ queue[r].sms = "sent" \/ queue[r].smsAt = -1
  /\ IsFiniteSet(jobs) /\ \A j \in jobs : j = [no |-> j.no, about |-> j.about, tries |-> j.tries]
  /\ channel \in [on : BOOLEAN, numbers : Nat \ {0}]
  /\ turn \in [done : Nat, failed : BOOLEAN] /\ (turn = Idle \/ turn.done < Len(Rules))
  /\ now \in 0..MaxTime /\ kills \in Nat /\ unmarked \in Nat
  /\ mailed \in [1..MaxRows -> Nat] /\ unheard \in [1..MaxRows -> Nat]
  /\ texted \in [DOMAIN PoolSize -> [0..MaxTime -> Nat]]

IInv == TypeOK /\ Tables /\ SmsAtOnce /\ MailsCounted /\ TextsCounted /\ PoolsHold /\ MailedOnce

(* docs/integracje.md, 9.3: the excess is counted and mentioned in the     *)
(* next mail. The code counts by the time a row came, from the time of the *)
(* last mail: what was suppressed by the very turn of that mail is older.  *)
ExcessIsMentioned == missed = {}
=============================================================================
