------------------------------- MODULE MailIn -------------------------------
(***************************************************************************)
(* One mailbox that is read for SMS (src/src/worker/mail-in.ts,            *)
(* src/src/store/mail-in.ts, runMailIn in src/src/integrations/pipeline.ts,*)
(* the mailbox forms of src/src/admin/routes/integrations.ts).             *)
(*                                                                         *)
(* A poll opens the folder, reads the state of the mailbox, and takes the  *)
(* unread mails above the floor one by one. It waits for the server before *)
(* every one of these steps; between them mails arrive, the panel saves,   *)
(* the connection drops, the process dies. A poll that takes too long is   *)
(* given up, but goes on with the mail it is at while the next one begins. *)
(*                                                                         *)
(* A mail is numbered by its place in the folder (its UID); the same mail  *)
(* may be delivered again, and a stranger may send one with the Message-ID *)
(* of another. Retention of the table of seen mails is left out.           *)
(***************************************************************************)
EXTENDS Integers, Sequences, FiniteSets

CONSTANTS
  Mails,     \* mails
  Ids,       \* their Message-ID
  IdOf,      \* [Mails -> Ids]
  Known,     \* mails of a sender on the list, confirmed by SPF or DKIM
  Polls,     \* polls under way at a time, given up ones included
  MaxUid,    \* bound: mails delivered to the folder
  MaxValid,  \* bound: times the folder was created
  MaxFetch,  \* MAX_PER_POLL, fifty in the code
  MaxEvents  \* bound: crashes, dropped connections, polls given up, saves in the panel

VARIABLES
  (* the mail server *)
  box,       \* what was delivered to the folder, in order
  unread,    \* its numbers that are there and not marked as read
  valid,     \* UIDVALIDITY
  (* tables integrations, mail_in_state and mail_in_seen *)
  enabled,
  state,     \* floor, validity (-1: none), backlog, whether a poll succeeded
  seen,      \* mails taken into account: validity, number, Message-ID
  (* memory *)
  poll,      \* polls under way
  events,    \* what the bound MaxEvents counts
  (* history, for the properties only *)
  sms,       \* SMS sent for a mail
  looked,    \* validity and number of what a poll decided about
  old,       \* of what was in the folder when it was to begin anew
  checked,   \* Message-IDs of known mails that were read
  torn,      \* Message-IDs being read when the process died or the poll was given up
  deaf,      \* known mails skipped as seen though none like them was read
  lost       \* known mails of the present outage that could not be read

server == <<box, unread, valid>>
tables == <<enabled, state, seen>>
past   == <<sms, looked, old, checked, torn, deaf, lost>>
vars   == <<server, tables, poll, events, past>>

None   == "none"
Uids   == 1..MaxUid
Places == {"idle", "opening", "scanning", "reading", "acting", "closing"}
Idle   == [at |-> "idle", todo |-> {}, uid |-> 0, valid |-> 0, highest |-> 0,
           backlog |-> FALSE, fetched |-> 0, up |-> TRUE, late |-> FALSE, ok |-> TRUE]

Init ==
  /\ \E m \in Mails : box = <<m>>
  /\ unread  = {1}
  /\ valid   = 1
  /\ enabled = TRUE
  /\ state   = [floor |-> 0, valid |-> -1, backlog |-> FALSE, ok |-> FALSE]
  /\ seen    = {}
  /\ poll    = [p \in Polls |-> Idle]
  /\ events  = 0
  /\ sms     = [m \in Mails |-> 0]
  /\ looked  = {} /\ old = {<<1, 1>>}
  /\ checked = {} /\ torn = {} /\ deaf = {} /\ lost = {}

-----------------------------------------------------------------------------
At(p, place) == poll[p].at = place
Busy(p)      == ~At(p, "idle")
Event        == events < MaxEvents /\ events' = events + 1

(* The mail server. *)
Deliver(m) ==
  /\ Len(box) < MaxUid
  /\ box'    = Append(box, m)
  /\ unread' = unread \cup {Len(box) + 1}
  /\ UNCHANGED <<events, valid, tables, poll, past>>

(* The folder is created anew, with the same mails; sessions in the old    *)
(* one have ended.                                                         *)
Recreate ==
  /\ valid < MaxValid /\ \A p \in Polls : ~Busy(p)
  /\ valid' = valid + 1
  /\ UNCHANGED <<events, box, unread, tables, poll, past>>

-----------------------------------------------------------------------------
Active       == \E p \in Polls : Busy(p) /\ ~poll[p].late
Step(p, r)   == poll' = [poll EXCEPT ![p] = r]
Go(p, place) == Step(p, [poll[p] EXCEPT !.at = place])

SetFloor(uid, v, s) == [s EXCEPT !.floor = uid, !.valid = v]

(* tick: a mailbox that is due and not being polled. Other mailboxes take  *)
(* their turns beside it and are left out.                                 *)
Start(p) ==
  /\ enabled /\ ~Active /\ ~Busy(p)
  /\ Step(p, [Idle EXCEPT !.at = "opening"])
  /\ lost' = {}
  /\ UNCHANGED <<events, server, tables, sms, looked, old, checked, torn, deaf>>

(* The network, the login or the folder fails: recordPoll and a longer     *)
(* pause. A poll that was given up only ends.                              *)
Fail(p) ==
  /\ At(p, "opening") \/ At(p, "scanning")
  /\ Step(p, Idle)
  /\ UNCHANGED <<events, server, tables, past>>

(* process, up to the list of unread mails: "from now on" when the mailbox *)
(* was never polled, its state was reset or its folder is another, unless  *)
(* the backlog was asked for.                                              *)
Changed == state.valid # -1 /\ state.valid # valid
First   == ~state.ok \/ state.valid = -1

FromNow(p) ==
  /\ At(p, "opening")
  /\ First \/ Changed
  /\ ~state.backlog
  /\ state' = SetFloor(Len(box), valid, state)
  /\ old'   = {<<valid, u>> : u \in 1..Len(box)}
  /\ Step(p, [poll[p] EXCEPT !.at = "closing", !.valid = valid])
  /\ UNCHANGED <<events, server, enabled, seen, sms, looked, checked, torn, deaf, lost>>

Begin(p) ==
  LET floor == IF state.backlog \/ Changed THEN 0 ELSE state.floor
  IN  /\ At(p, "opening")
      /\ ~(First \/ Changed) \/ state.backlog
      /\ Step(p, [poll[p] EXCEPT !.at = "scanning", !.valid = valid, !.highest = floor,
                    !.backlog = state.backlog, !.todo = {u \in unread : u > floor}])
      /\ UNCHANGED <<events, server, tables, past>>

(* The lowest number still to be looked at. *)
Next1(p) == CHOOSE u \in poll[p].todo : \A w \in poll[p].todo : u <= w

Goes(p) == At(p, "scanning") /\ poll[p].todo # {} /\ ~poll[p].late /\ poll[p].fetched < MaxFetch

Taken(p, place, n) ==
  Step(p, [poll[p] EXCEPT !.at = place, !.uid = Next1(p), !.todo = @ \ {Next1(p)},
             !.highest = Next1(p), !.fetched = @ + n])

Key(v, u, id) == [valid |-> v, uid |-> u, id |-> id]

(* seen: by validity and number, or by Message-ID. *)
SeenItself(p, u) == \E k \in seen : k.valid = poll[p].valid /\ k.uid = u
WasSeen(p, u)    == SeenItself(p, u) \/ \E k \in seen : k.id = IdOf[box[u]]

(* remember: one row for a validity and number. *)
Remember(p, u, id) ==
  IF SeenItself(p, u) THEN seen ELSE seen \cup {Key(poll[p].valid, u, id)}

(* A mail that was seen is skipped. *)
SkipSeen(p) ==
  LET u == Next1(p) m == box[u]
  IN  /\ Goes(p) /\ WasSeen(p, u)
      /\ seen'   = Remember(p, u, IdOf[m])
      /\ looked' = looked \cup {<<poll[p].valid, u>>}
      /\ deaf'   = IF m \in Known /\ ~SeenItself(p, u) /\ IdOf[m] \notin checked \cup torn
                   THEN deaf \cup {m} ELSE deaf
      /\ Taken(p, "scanning", 0)
      /\ UNCHANGED <<events, server, enabled, state, sms, old, checked, torn, lost>>

(* One that is too old or too big, by what the envelope says, is skipped   *)
(* and its Message-ID forgotten. A mail of the administrator's senders is  *)
(* always fresh and small here.                                            *)
SkipUnfit(p) ==
  LET u == Next1(p) IN
  /\ Goes(p) /\ ~WasSeen(p, u) /\ box[u] \notin Known
  /\ seen'   = Remember(p, u, None)
  /\ looked' = looked \cup {<<poll[p].valid, u>>}
  /\ \/ Taken(p, "scanning", 0)
     \/ Taken(p, "acting", 0)
  /\ UNCHANGED <<events, server, enabled, state, sms, old, checked, torn, deaf, lost>>

(* Mutant: it is remembered with its outcome. *)
TakeUnwritten(p) ==
  /\ Goes(p) /\ ~WasSeen(p, Next1(p))
  /\ Taken(p, "reading", 1)
  /\ UNCHANGED <<events, server, tables, past>>

(* Every other mail is remembered before it is fetched. *)
Take(p) ==
  LET u == Next1(p) IN
  /\ Goes(p) /\ ~WasSeen(p, u)
  /\ seen' = Remember(p, u, IdOf[box[u]])
  /\ Taken(p, "reading", 1)
  /\ UNCHANGED <<events, server, enabled, state, past>>

(* forgetMessageId *)
Forget(p) == {IF k.valid = poll[p].valid /\ k.uid = poll[p].uid THEN [k EXCEPT !.id = None] ELSE k : k \in seen}

Done(p) ==
  /\ looked' = looked \cup {<<poll[p].valid, poll[p].uid>>}
  /\ Go(p, "acting")

(* runMailIn: a known mail becomes an SMS, or is turned away for good by   *)
(* the condition, the storm guard, its recipients or its text. One that is *)
(* not checked, because its sender is unknown, SPF and DKIM do not confirm *)
(* it or the key cannot be used, leaves its Message-ID free.               *)
ReadKnown(p) ==
  LET m == box[poll[p].uid] IN
  /\ At(p, "reading") /\ poll[p].up /\ m \in Known
  /\ \E n \in 0..1 : sms' = [sms EXCEPT ![m] = @ + n]
  /\ seen'    = Remember(p, poll[p].uid, IdOf[m])
  /\ checked' = checked \cup {IdOf[m]}
  /\ Done(p)
  /\ UNCHANGED <<events, server, enabled, state, old, torn, deaf, lost>>

Unchecked(p) ==
  /\ At(p, "reading") /\ poll[p].up
  /\ Done(p)
  /\ UNCHANGED <<events, server, enabled, state, sms, old, checked, torn, deaf, lost>>

(* Mutant: it keeps its Message-ID. *)
ReadKept(p) == Unchecked(p) /\ UNCHANGED seen

ReadUnchecked(p) == Unchecked(p) /\ seen' = Forget(p)

(* failMail: the mail cannot be fetched or parsed; it is written down as   *)
(* failed and will not be looked at again.                                 *)
Unreadable(p) ==
  LET m == box[poll[p].uid] IN
  /\ At(p, "reading")
  /\ seen' = Forget(p)
  /\ lost' = IF m \in Known /\ ~poll[p].up THEN lost \cup {m} ELSE lost
  /\ Done(p)
  /\ UNCHANGED <<events, server, enabled, state, sms, old, checked, torn, deaf>>

(* afterAction: the mail is marked, moved or deleted. Its failure is kept  *)
(* for the state of the mailbox and stops nothing.                         *)
Act(p) ==
  /\ At(p, "acting")
  /\ unread' = IF poll[p].up THEN unread \ {poll[p].uid} ELSE unread
  /\ Step(p, [poll[p] EXCEPT !.at = "scanning", !.ok = @ /\ poll[p].up])
  /\ UNCHANGED <<events, box, valid, tables, past>>

(* Mutant: the floor is moved past everything that was listed. *)
FinishListed(p) ==
  /\ At(p, "scanning") /\ (poll[p].todo = {} \/ poll[p].late \/ poll[p].fetched = MaxFetch)
  /\ state' = [SetFloor(IF poll[p].todo = {} THEN poll[p].highest ELSE Len(box), poll[p].valid, state)
                 EXCEPT !.backlog = @ /\ ~poll[p].backlog]
  /\ Go(p, "closing")
  /\ UNCHANGED <<events, server, enabled, seen, past>>

(* The floor is the highest number looked at. *)
Finish(p) ==
  /\ At(p, "scanning") /\ (poll[p].todo = {} \/ poll[p].late \/ poll[p].fetched = MaxFetch)
  /\ state' = [SetFloor(poll[p].highest, poll[p].valid, state)
                 EXCEPT !.backlog = @ /\ ~poll[p].backlog]
  /\ Go(p, "closing")
  /\ UNCHANGED <<events, server, enabled, seen, past>>

(* recordPoll, after the server has closed the session. *)
Record(p) ==
  /\ At(p, "closing")
  /\ state' = IF poll[p].late \/ ~poll[p].ok THEN state
              ELSE [state EXCEPT !.valid = poll[p].valid, !.ok = TRUE]
  /\ Step(p, Idle)
  /\ UNCHANGED <<events, server, enabled, seen, past>>

(* What is being read is not decided about. *)
ReadIds(ps) == {IdOf[box[poll[p].uid]] : p \in {q \in ps : At(q, "reading")}}

(* POLL_TIMEOUT_MS: the mailbox is free for the next poll. One that is     *)
(* still connecting ends; one that has begun to open the folder goes on,   *)
(* and looks at no mail.                                                   *)
Timeout(p) ==
  /\ Event
  /\ Busy(p) /\ ~poll[p].late
  /\ \/ Step(p, [poll[p] EXCEPT !.late = TRUE])
     \/ At(p, "opening") /\ Step(p, Idle)
  /\ torn' = torn \cup ReadIds({p})
  /\ UNCHANGED <<server, tables, sms, looked, old, checked, deaf, lost>>

(* The connection breaks: from now on nothing can be fetched or marked. *)
Drop(p) ==
  /\ Event
  /\ poll[p].up /\ \E place \in {"scanning", "reading", "acting"} : At(p, place)
  /\ Step(p, [poll[p] EXCEPT !.up = FALSE])
  /\ UNCHANGED <<server, tables, past>>

(* The process dies. *)
Crash ==
  /\ Event
  /\ \E p \in Polls : Busy(p)
  /\ torn'   = torn \cup ReadIds(Polls)
  /\ looked' = looked \cup {<<poll[p].valid, poll[p].uid>> : p \in {q \in Polls : At(q, "reading")}}
  /\ poll'   = [p \in Polls |-> Idle]
  /\ UNCHANGED <<server, tables, sms, old, checked, deaf, lost>>

-----------------------------------------------------------------------------
(* POST /integracje/:id/wylacz and /wlacz, and the form that switches it   *)
(* on again (afterMailSave): it begins "from now on".                      *)
Disable ==
  /\ Event
  /\ enabled
  /\ enabled' = FALSE
  /\ UNCHANGED <<server, state, seen, poll, past>>

Enable ==
  /\ Event
  /\ ~enabled
  /\ enabled' = TRUE
  /\ state'   = SetFloor(0, 0, state)
  /\ old'     = old \cup {<<valid, u>> : u \in 1..Len(box)}
  /\ UNCHANGED <<server, seen, poll, sms, looked, checked, torn, deaf, lost>>

(* A saved form says whether the backlog is to be read once. *)
Save(backlog) ==
  /\ Event
  /\ backlog # state.backlog
  /\ state' = [state EXCEPT !.backlog = backlog]
  /\ old'   = IF backlog /\ \A p \in Polls : ~Busy(p)
              THEN {} ELSE old \cup {<<valid, u>> : u \in 1..Len(box)}
  /\ UNCHANGED <<server, enabled, seen, poll, sms, looked, checked, torn, deaf, lost>>

Next ==
  \/ \E m \in Mails : Deliver(m)
  \/ \E p \in Polls :
       \/ Start(p) \/ Fail(p) \/ FromNow(p) \/ Begin(p)
       \/ SkipSeen(p) \/ SkipUnfit(p) \/ Take(p)
       \/ ReadKnown(p) \/ ReadUnchecked(p) \/ Unreadable(p) \/ Act(p)
       \/ Finish(p) \/ Record(p) \/ Timeout(p) \/ Drop(p)
  \/ Recreate \/ Crash \/ Disable \/ Enable \/ \E backlog \in BOOLEAN : Save(backlog)

Spec == Init /\ [][Next]_vars

-----------------------------------------------------------------------------
(* The server, the tables and the polls keep their types. *)
TypeOK ==
  /\ box \in Seq(Mails) /\ unread \subseteq 1..Len(box) /\ valid \in 1..MaxValid
  /\ enabled \in BOOLEAN
  /\ state \in [floor : 0..MaxUid, valid : -1..MaxValid, backlog : BOOLEAN, ok : BOOLEAN]
  /\ seen \subseteq [valid : 1..MaxValid, uid : Uids, id : Ids \cup {None}]
  /\ \A p \in Polls : poll[p].at \in Places /\ poll[p].todo \subseteq Uids
  /\ sms \in [Mails -> Nat]

(* A mail brings at most one SMS: across crashes, a second delivery, polls *)
(* that overlap and a folder created anew.                                 *)
MailSendsOnce == \A m \in Mails : sms[m] <= 1

(* No mail of a known sender is skipped because of a stranger's with the   *)
(* same Message-ID, unless the process died or the poll was given up over  *)
(* that one.                                                               *)
StrangersSilenceNobody == deaf = {}

(* The floor passes no unread mail that was not decided about, but for     *)
(* those that were there when the mailbox was to begin anew, or when the   *)
(* panel saved its form during a poll.                                     *)
NothingBelowFloor ==
  \A u \in unread : state.valid = valid /\ u <= state.floor /\ ~state.backlog =>
    <<valid, u>> \in looked \cup old

(* The comment before the fetch: a failure in the middle costs one SMS     *)
(* that is not sent. (Not so: with the connection gone, every further mail *)
(* of the list is written down as failed, too.)                            *)
OutageCostsOne == Cardinality(lost) <= 1

-----------------------------------------------------------------------------
(* What makes these inductive. Polls: one that was not given up at a time, *)
(* each in the folder as it is.                                            *)
PollRow ==
  [at : Places, todo : SUBSET Uids, uid : 0..MaxUid, valid : 0..MaxValid, highest : 0..MaxUid,
   backlog : BOOLEAN, fetched : Nat, up : BOOLEAN, late : BOOLEAN, ok : BOOLEAN]

PollsSound ==
  /\ poll \in [Polls -> PollRow]
  /\ Len(box) <= MaxUid /\ state.valid <= valid
  /\ \A p \in Polls :
       /\ Busy(p) /\ ~At(p, "opening") => poll[p].valid = valid
       /\ At(p, "reading") \/ At(p, "acting") => poll[p].uid \in 1..Len(box)
       /\ \A u \in poll[p].todo : u <= Len(box)
  /\ \A p, q \in Polls : p # q /\ Busy(p) /\ Busy(q) => poll[p].late \/ poll[q].late

(* A mail that is being read is remembered, by nobody else, and no SMS was *)
(* sent for one like it; what is remembered was read, or torn, or is being *)
(* read.                                                                   *)
Own(p, k) == At(p, "reading") /\ k.valid = poll[p].valid /\ k.uid = poll[p].uid
IdAt(p)   == IdOf[box[poll[p].uid]]

MemorySound ==
  /\ \A k, j \in seen : k.valid = j.valid /\ k.uid = j.uid => k = j
  /\ \A p \in Polls : At(p, "reading") =>
       /\ \E k \in seen : Own(p, k) /\ k.id = IdAt(p)
       /\ \A m \in Mails : IdOf[m] = IdAt(p) => sms[m] = 0
  /\ \A p, q \in Polls : p # q /\ At(p, "reading") /\ At(q, "reading") => IdAt(p) # IdAt(q)
  /\ \A k \in seen : \/ k.id \in {None} \cup checked \cup torn
                     \/ \E p \in Polls : Own(p, k) /\ ~poll[p].late
  /\ \A m \in Mails : sms[m] > 0 => \E k \in seen : k.id = IdOf[m]

(* Below what a poll has looked at nothing is left, and above it nothing   *)
(* that it has not on its list, but for mails that have come since.        *)
Decided(u) == <<valid, u>> \in looked \cup old

FloorSound ==
  /\ state.floor <= Len(box)
  /\ \A p \in Polls :
       /\ At(p, "closing") => state.valid = valid \/ state.floor = 0
       /\ poll[p].at \in {"scanning", "reading", "acting"} =>
            /\ poll[p].highest <= Len(box) /\ \A u \in poll[p].todo : poll[p].highest < u
            /\ \A u \in unread :
                 IF u <= poll[p].highest THEN Decided(u) \/ (At(p, "reading") /\ u = poll[p].uid)
                 ELSE u \in poll[p].todo \/ \A w \in poll[p].todo : w < u

IInv ==
  /\ TypeOK /\ PollsSound /\ MemorySound /\ FloorSound
  /\ MailSendsOnce /\ StrangersSilenceNobody /\ NothingBelowFloor
=============================================================================
