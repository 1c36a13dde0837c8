----------------------- MODULE MessageLifecycleProofs -----------------------
(***************************************************************************)
(* Proofs about MessageLifecycle for every set of messages, number of      *)
(* parts, retries and restarts.                                            *)
(***************************************************************************)
EXTENDS MessageLifecycle, TLAPS

(* Replacing an element of a sequence, if it is there, keeps its type. *)
LEMMA ReplaceInSeq ==
  ASSUME NEW S, NEW s \in Seq(S), NEW i, NEW e,
         i \in DOMAIN s => e \in S
  PROVE  /\ [s EXCEPT ![i] = e] \in Seq(S)
         /\ Len([s EXCEPT ![i] = e]) = Len(s)
<1>1. s \in [1..Len(s) -> S] /\ Len(s) \in Nat
  OBVIOUS
<1>2. [s EXCEPT ![i] = e] \in [1..Len(s) -> S]
  BY <1>1
<1>3. QED
  BY <1>1, <1>2

(* A combined status is one of the statuses of the gateway. *)
LEMMA VerdictType ==
  ASSUME NEW C
  PROVE  Verdict(C) \in GatewayStatus
<1> DEFINE S == {MapStatus(c) : c \in C}
           D == {i \in 1..7 : Precedence[i] \in S}
<1>1. CASE D # {}
  <2>1. PICK k \in D : \A j \in D : k <= j
    BY <1>1, D \subseteq 1..7
  <2>2. (CHOOSE i \in D : \A j \in D : i <= j) \in D
    BY <2>1
  <2>3. Precedence \in [1..7 -> GatewayStatus]
    BY DEF Precedence, GatewayStatus
  <2>4. Precedence[CHOOSE i \in D : \A j \in D : i <= j] \in GatewayStatus
    BY <2>2, <2>3
  <2>5. QED
    BY <1>1, <2>4 DEF Verdict, CombineStatuses, GatewayStatus
<1>2. CASE D = {}
  BY <1>2 DEF Verdict, CombineStatuses, GatewayStatus
<1>3. QED
  BY <1>1, <1>2

(* Cancelling a part, and a part moving on, keep the hand-overs in shape. *)
LEMMA PlusType ==
  ASSUME TypeOK, NEW m \in Msgs, NEW h, NEW p \in Parts
  PROVE  /\ MarkCancelled(m, h, p) => plus' \in [Msgs -> Seq([Parts -> Part])]
                                      /\ \A n \in Msgs : Len(plus'[n]) = Len(plus[n])
         /\ \A c \in Codes : plus' = [plus EXCEPT ![m][h][p].code = c]
                             => plus' \in [Msgs -> Seq([Parts -> Part])]
                                /\ \A n \in Msgs : Len(plus'[n]) = Len(plus[n])
<1> DEFINE S == [Parts -> Part]
           s == plus[m]
<1>1. s \in Seq(S) /\ plus \in [Msgs -> Seq(S)]
  BY DEF TypeOK
<1>2. h \in DOMAIN s => s[h] \in S
  BY <1>1
<1>3. ASSUME NEW e, h \in DOMAIN s => e \in S, plus' = [plus EXCEPT ![m] = [s EXCEPT ![h] = e]]
      PROVE  plus' \in [Msgs -> Seq(S)] /\ \A n \in Msgs : Len(plus'[n]) = Len(plus[n])
  <2> HIDE DEF S
  <2>1. [s EXCEPT ![h] = e] \in Seq(S) /\ Len([s EXCEPT ![h] = e]) = Len(s)
    <3> HIDE DEF s
    <3>1. QED
      BY <1>1, <1>3, ReplaceInSeq
  <2>2. QED
    BY <1>1, <1>3, <2>1
<1>4. h \in DOMAIN s => [s[h] EXCEPT ![p].cancelled = TRUE] \in S
  BY <1>2 DEF Part
<1>5. ASSUME NEW c \in Codes
      PROVE  h \in DOMAIN s => [s[h] EXCEPT ![p].code = c] \in S
  BY <1>2 DEF Part
<1>6. QED
  BY <1>3, <1>4, <1>5 DEF MarkCancelled

(* The assignments shared by the handlers keep the types of what they set. *)
LEMMA DieType ==
  ASSUME TypeOK, Die
  PROVE  /\ sender' \in [Msgs -> Sender] /\ poller' \in [Msgs -> Poller]
         /\ canceller' \in [Msgs -> Canceller]
         /\ restarts' \in 0..MaxRestarts /\ lost' \in [Msgs -> Nat]
<1>1. NoSend \in Sender /\ NoPoll \in Poller /\ NoCancel \in Canceller
  BY PartsAssumption, CodesAssumption
     DEF NoSend, NoPoll, NoCancel, Sender, Poller, Canceller, Parts
<1>2. QED
  BY <1>1, RestartsAssumption DEF Die, TypeOK

(* The same for the writes that close a handler, all of them or a part. *)
LEMMA CloseType ==
  ASSUME TypeOK, NEW m \in Msgs, NEW n, NEW all, Close(m, n, all)
  PROVE  /\ sender' \in [Msgs -> Sender] /\ poller' \in [Msgs -> Poller]
         /\ canceller' \in [Msgs -> Canceller]
         /\ restarts' \in 0..MaxRestarts /\ lost' \in [Msgs -> Nat] /\ torn' \in SUBSET Msgs
<1>1. NoSend \in Sender /\ NoPoll \in Poller
  BY PartsAssumption, CodesAssumption DEF NoSend, NoPoll, Sender, Poller, Parts
<1>2. CASE n = all
  BY <1>1, <1>2 DEF Close, TypeOK
<1>3. CASE n # all
  BY <1>3, DieType DEF Close, TypeOK
<1>4. QED
  BY <1>2, <1>3

(* Appending a status to what was reported keeps the type of the reports. *)
LEMMA ReportType ==
  ASSUME TypeOK, NEW m \in Msgs, NEW s \in GatewayStatus, Report(m, s)
  PROVE  reports' \in [Msgs -> Seq(GatewayStatus)]
BY DEF TypeOK, Report

(* Ending a job, or following a send job by a poll job, keeps the type of the jobs. *)
LEMMA JobsType ==
  ASSUME TypeOK, NEW m \in Msgs, NEW type, NEW enqueued,
         Complete(m, type) \/ SendToPoll(m, enqueued) \/ jobs' = jobs
  PROVE  jobs' \in [Msgs -> SUBSET {"send", "poll"}]
<1>1. jobs[m] \in SUBSET {"send", "poll"}
  BY DEF TypeOK
<1>2. /\ jobs[m] \ {type} \in SUBSET {"send", "poll"}
      /\ (jobs[m] \ {"send"}) \cup (IF enqueued THEN {"poll"} ELSE {}) \in SUBSET {"send", "poll"}
  BY <1>1
<1> HIDE <1>1
<1>3. QED
  BY <1>2 DEF Complete, SendToPoll, TypeOK

(* The hand-over a row names is a number. *)
LEMMA SetSentType ==
  ASSUME TypeOK, NEW m \in Msgs, SetSent(m)
  PROVE  miIds' \in [Msgs -> Nat] /\ weekOld' \in [Msgs -> BOOLEAN]
<1>1. plus[m] \in Seq([Parts -> Part])
  BY DEF TypeOK
<1>2. Len(plus[m]) \in Nat
  BY <1>1
<1>3. QED
  BY <1>2 DEF SetSent, TypeOK

(* Ending a message in failure keeps the types. *)
LEMMA EndInFailureType ==
  ASSUME TypeOK, NEW m \in Msgs, NEW type, NEW s \in GatewayStatus, NEW n,
         EndInFailure(m, type, s, n), UNCHANGED paused
  PROVE  TypeOK'
<1>1. /\ status' \in [Msgs -> GatewayStatus \cup {"absent"}]
      /\ finalAt' \in [Msgs -> BOOLEAN]
      /\ jobs' \in [Msgs -> SUBSET {"send", "poll"}]
  BY JobsType DEF TypeOK, EndInFailure, SetStatus
<1>2. reports' \in [Msgs -> Seq(GatewayStatus)]
  BY ReportType DEF EndInFailure, TypeOK
<1>3. /\ sender' \in [Msgs -> Sender] /\ poller' \in [Msgs -> Poller]
      /\ canceller' \in [Msgs -> Canceller]
      /\ restarts' \in 0..MaxRestarts /\ lost' \in [Msgs -> Nat] /\ torn' \in SUBSET Msgs
  BY CloseType DEF EndInFailure
<1>4. QED
  BY <1>1, <1>2, <1>3 DEF EndInFailure, TypeOK, world

(* Every step of the send job keeps the types. *)
LEMMA SendType ==
  ASSUME TypeOK, NEW m \in Msgs, SendStep(m)
  PROVE  TypeOK'
<1> USE DEF table, running, world, history, Parts
<1> NoSend \in Sender
  BY PartsAssumption DEF NoSend, Sender
<1>1. CASE DropCancelledSend(m)
  BY <1>1 DEF DropCancelledSend, Complete, TypeOK
<1>2. CASE BeginSend(m)
  BY <1>2 DEF BeginSend, TypeOK, Sender
<1>3. CASE MultiinfoAccepts(m)
  <2> DEFINE S == [Parts -> Part]
             e == [p \in Parts |-> [code |-> FirstCode, cancelled |-> FALSE]]
  <2>1. sender' \in [Msgs -> Sender]
    BY <1>3 DEF MultiinfoAccepts, TypeOK, Sender
  <2>2. e \in S
    BY CodesAssumption DEF Part
  <2>3. plus \in [Msgs -> Seq(S)] /\ plus' = [plus EXCEPT ![m] = Append(plus[m], e)]
    BY <1>3 DEF TypeOK, MultiinfoAccepts
  <2>4. plus' \in [Msgs -> Seq(S)]
    <3> HIDE DEF S, e
    <3>1. QED
      BY <2>2, <2>3
  <2>5. QED
    BY <1>3, <2>1, <2>4 DEF MultiinfoAccepts, TypeOK
<1>4. CASE BeginWithdraw(m)
  <2>1. sender' \in [Msgs -> Sender]
    BY <1>4 DEF BeginWithdraw, TypeOK, Sender
  <2>2. QED
    BY <1>4, <2>1, SetSentType DEF BeginWithdraw, TypeOK
<1>5. CASE WithdrawPart(m)
  <2>1. plus' \in [Msgs -> Seq([Parts -> Part])]
    BY <1>5, PlusType DEF WithdrawPart
  <2>2. sender' \in [Msgs -> Sender]
    BY <1>5, PartsAssumption DEF WithdrawPart, TypeOK, Sender
  <2>3. QED
    BY <1>5, <2>1, <2>2 DEF WithdrawPart, TypeOK
<1>6. CASE SendRetry(m)
  BY <1>6, RetriesAssumption DEF SendRetry, TypeOK
<1>7. CASE SendCertificate(m)
  BY <1>7 DEF SendCertificate, TypeOK
<1>8. ASSUME NEW n \in 1..4, SendSucceeds(m, n)
      PROVE  TypeOK'
  <2>1. /\ miIds' \in [Msgs -> Nat] /\ weekOld' \in [Msgs -> BOOLEAN]
        /\ status' \in [Msgs -> GatewayStatus \cup {"absent"}]
        /\ jobs' \in [Msgs -> SUBSET {"send", "poll"}]
    BY <1>8, SetSentType, JobsType DEF SendSucceeds, SetStatus, TypeOK, GatewayStatus
  <2>2. reports' \in [Msgs -> Seq(GatewayStatus)]
    BY <1>8, ReportType DEF SendSucceeds, TypeOK, GatewayStatus
  <2>3. QED
    BY <1>8, <2>1, <2>2, CloseType DEF SendSucceeds, TypeOK
<1>9. ASSUME NEW n \in 1..4, WithdrawRefused(m, n)
      PROVE  TypeOK'
  <2>1. /\ status' \in [Msgs -> GatewayStatus \cup {"absent"}]
        /\ finalAt' \in [Msgs -> BOOLEAN]
        /\ jobs' \in [Msgs -> SUBSET {"send", "poll"}]
    BY <1>9, JobsType DEF WithdrawRefused, SetStatus, TypeOK, GatewayStatus
  <2>2. reports' \in [Msgs -> Seq(GatewayStatus)]
    BY <1>9, ReportType DEF WithdrawRefused, TypeOK, GatewayStatus
  <2>3. plus' \in [Msgs -> Seq([Parts -> Part])]
    BY <1>9, PlusType DEF WithdrawRefused, TypeOK
  <2>4. QED
    BY <1>9, <2>1, <2>2, <2>3, CloseType DEF WithdrawRefused, TypeOK
<1>10. ASSUME NEW n \in 1..3, SendFails(m, n)
       PROVE  TypeOK'
  BY <1>10, EndInFailureType DEF SendFails, GatewayStatus
<1>11. ASSUME NEW n \in 1..2, WithdrawDone(m, n)
       PROVE  TypeOK'
  <2>1. jobs' \in [Msgs -> SUBSET {"send", "poll"}]
    BY <1>11 DEF WithdrawDone, SendToPoll, TypeOK
  <2>2. QED
    BY <1>11, <2>1, CloseType DEF WithdrawDone, TypeOK
<1>12. QED
  BY <1>1, <1>2, <1>3, <1>4, <1>5, <1>6, <1>7, <1>8, <1>9, <1>10, <1>11 DEF SendStep

(* Every step of the poll job keeps the types: the hand-over it asks about *)
(* is there.                                                               *)
LEMMA PollType ==
  ASSUME TypeOK, OneJobPerMessage, NEW m \in Msgs, HandoverNamed(m), PollStep(m)
  PROVE  TypeOK'
<1> USE DEF table, running, world, history
<1> NoPoll \in Poller
  BY PartsAssumption, CodesAssumption DEF NoPoll, Poller, Parts
<1>1. CASE BeginPoll(m)
  <2>1. poller[m] \in Poller /\ weekOld[m] \in BOOLEAN
    BY DEF TypeOK
  <2> DEFINE r == [poller[m] EXCEPT !.pc = "info", !.wasCancelled = (status[m] = "cancelled"),
                                    !.old = weekOld[m]]
  <2>2. r \in Poller
    BY <2>1 DEF Poller
  <2>3. poller' = [poller EXCEPT ![m] = r]
    BY <1>1 DEF BeginPoll
  <2>4. poller' \in [Msgs -> Poller]
    BY <2>2, <2>3 DEF TypeOK
  <2>5. QED
    BY <1>1, <2>4 DEF BeginPoll, TypeOK
<1>2. CASE InfoAnswers(m)
  <2> DEFINE p == poller[m].part
             c == plus[m][miIds[m]][p].code
  <2>0. plus[m] \in Seq([Parts -> Part]) /\ miIds[m] \in Nat
    BY DEF TypeOK
  <2>1. miIds[m] \in 1..Len(plus[m]) /\ p \in Parts
    <3>1. miIds[m] # 0 /\ miIds[m] <= Len(plus[m]) /\ p \in Parts
      BY <1>2 DEF InfoAnswers, HandoverNamed, OneJobPerMessage
    <3>2. QED
      BY <2>0, <3>1
  <2>2. c \in Codes
    BY <2>0, <2>1 DEF TypeOK, Part
  <2>3. poller[m] \in Poller /\ poller[m].seen \in [Parts -> Codes]
    BY DEF TypeOK, Poller
  <2> DEFINE q == [poller[m].seen EXCEPT ![p] = c]
             r == [poller[m] EXCEPT !.seen = q, !.part = p + 1]
  <2>4. q \in [Parts -> Codes] /\ p + 1 \in 1..NParts + 1
    <3> HIDE DEF c, p
    <3>1. QED
      BY <2>1, <2>2, <2>3, PartsAssumption DEF Parts
  <2>5. r \in Poller
    <3> HIDE DEF q, p
    <3>1. QED
      BY <2>3, <2>4 DEF Poller
  <2>6. poller' \in [Msgs -> Poller]
    BY <1>2, <2>5 DEF InfoAnswers, TypeOK
  <2>7. QED
    BY <1>2, <2>6 DEF InfoAnswers, TypeOK
<1>3. CASE InfoFails(m)
  BY <1>3 DEF InfoFails, TypeOK
<1>4. CASE PollAgain(m)
  <2>1. Verdict(Seen(m)) \in GatewayStatus
    BY VerdictType
  <2>2. status' \in [Msgs -> GatewayStatus \cup {"absent"}]
    BY <1>4, <2>1 DEF PollAgain, SetStatus, TypeOK
  <2>3. QED
    BY <1>4, <2>2 DEF PollAgain, TypeOK
<1>5. ASSUME NEW n \in 1..3, PollExpires(m, n) \/ PollGivesUp(m, n)
      PROVE  TypeOK'
  BY <1>5, EndInFailureType DEF PollExpires, PollGivesUp, GatewayStatus
<1>6. ASSUME NEW n \in 1..3, PollSettles(m, n)
      PROVE  TypeOK'
  <2>1. Verdict(Seen(m)) \in GatewayStatus
    BY VerdictType
  <2>2. /\ status' \in [Msgs -> GatewayStatus \cup {"absent"}]
        /\ finalAt' \in [Msgs -> BOOLEAN]
        /\ jobs' \in [Msgs -> SUBSET {"send", "poll"}]
    BY <1>6, <2>1, JobsType DEF PollSettles, SetStatus, TypeOK
  <2>3. reports' \in [Msgs -> Seq(GatewayStatus)]
    BY <1>6, <2>1, ReportType DEF PollSettles, TypeOK
  <2>4. QED
    BY <1>6, <2>2, <2>3, CloseType DEF PollSettles, TypeOK
<1>7. QED
  BY <1>1, <1>2, <1>3, <1>4, <1>5, <1>6 DEF PollStep

(* So does every step of a cancel request. *)
LEMMA CancelType ==
  ASSUME TypeOK, NEW m \in Msgs, CancelStep(m)
  PROVE  TypeOK'
<1> USE DEF table, running, world, history
<1> NoCancel \in Canceller
  BY PartsAssumption DEF NoCancel, Canceller
<1>1. CASE CancelLocally(m)
  BY <1>1 DEF CancelLocally, SetStatus, TypeOK, GatewayStatus
<1>2. CASE BeginCancel(m)
  BY <1>2 DEF BeginCancel, TypeOK, Canceller
<1>3. CASE CancelPart(m)
  <2>1. plus' \in [Msgs -> Seq([Parts -> Part])]
    BY <1>3, PlusType DEF CancelPart
  <2>2. canceller' \in [Msgs -> Canceller]
    <3>1. canceller[m] \in Canceller /\ canceller[m].part \in Parts
      BY <1>3 DEF TypeOK, CancelPart
    <3>2. [canceller[m] EXCEPT !.part = @ + 1] \in Canceller
      BY <3>1, PartsAssumption DEF Canceller, Parts
    <3>3. QED
      BY <1>3, <3>2 DEF CancelPart, TypeOK
  <2>3. QED
    BY <1>3, <2>1, <2>2 DEF CancelPart, TypeOK
<1>4. CASE CancelRefused(m)
  <2>1. plus' \in [Msgs -> Seq([Parts -> Part])]
    BY <1>4, PlusType DEF CancelRefused, TypeOK
  <2>2. QED
    BY <1>4, <2>1 DEF CancelRefused, TypeOK
<1>5. CASE CancelDone(m)
  BY <1>5 DEF CancelDone, SetStatus, TypeOK, GatewayStatus
<1>6. QED
  BY <1>1, <1>2, <1>3, <1>4, <1>5 DEF CancelStep

(* So does what happens outside of the handlers. *)
LEMMA OutsideType ==
  ASSUME TypeOK, NEW m \in Msgs, Outside(m)
  PROVE  TypeOK'
<1> USE DEF table, running, world, history
<1>1. CASE Submit(m)
  BY <1>1 DEF Submit, SetStatus, TypeOK, GatewayStatus
<1>2. CASE WeekPasses(m)
  BY <1>2 DEF WeekPasses, TypeOK
<1>3. CASE DeadlinePasses(m)
  BY <1>3 DEF DeadlinePasses, TypeOK
<1>4. ASSUME NEW h, NEW p \in Parts, MultiinfoProceeds(m, h, p)
      PROVE  TypeOK'
  <2>1. plus' \in [Msgs -> Seq([Parts -> Part])]
    <3>1. PICK c \in Codes : plus' = [plus EXCEPT ![m][h][p].code = c]
      BY <1>4 DEF MultiinfoProceeds
    <3>2. QED
      BY <3>1, PlusType
  <2>2. QED
    BY <1>4, <2>1 DEF MultiinfoProceeds, TypeOK
<1>5. QED
  BY <1>1, <1>2, <1>3, <1>4 DEF Outside

(* Every step of the system keeps the types. *)
LEMMA TypeStep ==
  ASSUME TypeOK, OneJobPerMessage, \A m \in Msgs : HandoverNamed(m), [Next]_vars
  PROVE  TypeOK'
<1> USE DEF table, running, world, history
<1>1. ASSUME NEW m \in Msgs, SendStep(m) \/ PollStep(m) \/ CancelStep(m) \/ Outside(m)
      PROVE  TypeOK'
  BY <1>1, SendType, PollType, CancelType, OutsideType
<1>2. CASE Resume
  BY <1>2 DEF Resume, TypeOK
<1>3. CASE Crash
  BY <1>3, DieType DEF Crash, TypeOK
<1>4. CASE UNCHANGED vars
  BY <1>4 DEF vars, TypeOK
<1>5. QED
  BY <1>1, <1>2, <1>3, <1>4 DEF Next

-----------------------------------------------------------------------------
(* What the inductive invariant says of one message. *)
FinalLast(m) == \A i \in 1..Len(reports[m]) : reports[m][i] \in Closed => i = Len(reports[m])

Good(m) ==
  /\ jobs[m] # {"send", "poll"}
  /\ sender[m].pc # "idle" => jobs[m] = {"send"}
  /\ poller[m].pc # "idle" => jobs[m] = {"poll"}
  /\ status[m] # "absent" /\ ~finalAt[m] /\ m \notin torn => jobs[m] # {}
  /\ Len(plus[m]) <= 1 + lost[m]
  /\ FinalLast(m)
  /\ HandoverNamed(m) /\ JobsAgreeWithRow(m) /\ HandoversCounted(m)

(* The invariant is its type part and what it says of every message. *)
LEMMA IInvIsGood == IInv <=> TypeOK /\ \A m \in Msgs : Good(m)
BY DEF IInv, Good, OneJobPerMessage, NoStuckMessage, DuplicateOnlyAfterLoss,
       FinalReportIsLast, FinalLast

(* What a step leaves of a message it is not about: either everything, or, *)
(* when the process dies, its rows.                                        *)
SameRow(m) ==
  /\ status'[m] = status[m] /\ finalAt'[m] = finalAt[m] /\ miIds'[m] = miIds[m]
  /\ jobs'[m] = jobs[m] /\ reports'[m] = reports[m] /\ Len(plus'[m]) = Len(plus[m])
  /\ torn \subseteq torn'

Same(m) == SameRow(m) /\ sender'[m] = sender[m] /\ poller'[m] = poller[m] /\ lost'[m] = lost[m]

(* Or everything but the status of the row. *)
SameButStatus(m) ==
  /\ miIds'[m] = miIds[m] /\ jobs'[m] = jobs[m] /\ reports'[m] = reports[m]
  /\ plus'[m] = plus[m] /\ torn' = torn
  /\ sender'[m] = sender[m] /\ poller'[m] = poller[m] /\ lost'[m] = lost[m]

(* A message that a step does not concern keeps its part of the invariant. *)
LEMMA SameGood ==
  ASSUME TypeOK, NEW m \in Msgs, Good(m), Same(m)
  PROVE  Good(m)'
BY DEF Good, Same, SameRow, FinalLast, HasFinalReport, HandoverNamed, JobsAgreeWithRow,
       HandoversCounted, Unrecorded

(* So does every message when the process dies: the send jobs that will    *)
(* hand over once more have their first hand-over counted as lost.         *)
LEMMA DieGood ==
  ASSUME TypeOK, NEW m \in Msgs, Good(m), SameRow(m), Die
  PROVE  Good(m)'
<1>1. /\ lost[m] \in Nat /\ Len(plus[m]) \in Nat
      /\ sender'[m].pc = "idle" /\ poller'[m].pc = "idle"
      /\ lost'[m] = IF Unrecorded(m) THEN lost[m] + 1 ELSE lost[m]
  BY DEF TypeOK, Die, NoSend, NoPoll
<1>2. QED
  BY <1>1 DEF Good, SameRow, FinalLast, HasFinalReport, HandoverNamed, JobsAgreeWithRow,
       HandoversCounted, Unrecorded

(* The closing writes of a handler of one message leave the others alone.  *)
LEMMA CloseOther ==
  ASSUME TypeOK, NEW m \in Msgs, NEW n, NEW all, Close(m, n, all),
         NEW o \in Msgs \ {m}, Good(o), SameRow(o)
  PROVE  Good(o)'
<1>1. CASE n = all
  BY <1>1, SameGood DEF Close, Same, TypeOK
<1>2. CASE n # all
  BY <1>2, DieGood DEF Close
<1>3. QED
  BY <1>1, <1>2

(* One more report, to a message that has no final one, is the last. *)
LEMMA ReportGood ==
  ASSUME TypeOK, NEW m \in Msgs, NEW s \in GatewayStatus, ~HasFinalReport(m), Report(m, s)
  PROVE  FinalLast(m)' /\ (HasFinalReport(m)' => s \in Closed)
<1>1. reports[m] \in Seq(GatewayStatus) /\ reports'[m] = Append(reports[m], s)
  BY DEF TypeOK, Report
<1> DEFINE r == reports[m]
<1>2. /\ Len(Append(r, s)) = Len(r) + 1 /\ Len(r) \in Nat
      /\ Append(r, s)[Len(r) + 1] = s
      /\ \A i \in 1..Len(r) : Append(r, s)[i] = r[i]
  <2> HIDE DEF r
  <2>1. QED
    BY <1>1
<1>3. \A i \in 1..Len(r) : reports'[m][i] \notin Closed
  BY <1>1, <1>2 DEF HasFinalReport
<1>4. /\ Len(reports'[m]) = Len(r) + 1 /\ reports'[m][Len(r) + 1] = s
  BY <1>1, <1>2
<1>5. \A i \in 1..Len(r) + 1 : reports'[m][i] \in Closed => i = Len(r) + 1 /\ s \in Closed
  BY <1>2, <1>3, <1>4
<1>6. QED
  BY <1>4, <1>5 DEF FinalLast, HasFinalReport

(* The two counts of hand-overs are numbers. *)
CountsTyped(m) == lost[m] \in Nat /\ miIds[m] \in Nat /\ Len(plus[m]) \in Nat

(* That the counts are typed follows from the type invariant. *)
LEMMA CountsType ==
  ASSUME TypeOK, NEW m \in Msgs
  PROVE  CountsTyped(m)
<1>1. plus[m] \in Seq([Parts -> Part]) /\ lost[m] \in Nat /\ miIds[m] \in Nat
  BY DEF TypeOK
<1>2. QED
  BY <1>1 DEF CountsTyped

(* A message has one job at a time. *)
LEMMA OneJob ==
  ASSUME TypeOK, NEW m \in Msgs, Good(m), NEW type \in jobs[m]
  PROVE  jobs[m] = {type} /\ type \in {"send", "poll"}
<1>1. jobs[m] \in SUBSET {"send", "poll"} /\ jobs[m] # {"send", "poll"}
  BY DEF TypeOK, Good
<1>2. QED
  BY <1>1

(* A handler that ends its message in failure keeps the invariant, however *)
(* many of its three writes reach the database.                            *)
LEMMA EndInFailureGood ==
  ASSUME TypeOK, \A o \in Msgs : Good(o), NEW m \in Msgs, NEW type \in jobs[m],
         NEW s \in GatewayStatus, NEW n \in 1..3, EndInFailure(m, type, s, n)
  PROVE  \A o \in Msgs : Good(o)'
<1>1. /\ jobs[m] = {type} /\ ~HasFinalReport(m) /\ Good(m)
      /\ lost[m] \in Nat /\ Len(plus[m]) \in Nat
  <2>1. jobs[m] = {type} /\ Good(m)
    BY OneJob
  <2>2. ~HasFinalReport(m)
    BY <2>1 DEF Good, JobsAgreeWithRow
  <2>3. QED
    BY <2>1, <2>2, CountsType DEF CountsTyped
<1>2. plus' = plus /\ miIds' = miIds /\ status'[m] = s /\ finalAt'[m] = TRUE
  BY DEF EndInFailure, SetStatus, world, TypeOK
<1>3. s # "absent"
  BY DEF GatewayStatus
<1>4. ASSUME NEW o \in Msgs \ {m}
      PROVE  Good(o)'
  <2>1. SameRow(o)
    BY DEF EndInFailure, SetStatus, Complete, Report, world, SameRow, TypeOK, Close
  <2>2. QED
    BY <2>1, CloseOther DEF EndInFailure
<1>5. CASE n = 3
  <2>1. /\ jobs'[m] = {} /\ sender'[m].pc = "idle" /\ poller'[m].pc = "idle" /\ lost' = lost
    BY <1>1, <1>5 DEF EndInFailure, Complete, Close, TypeOK, NoSend, NoPoll
  <2>2. FinalLast(m)'
    BY <1>1, <1>5, ReportGood DEF EndInFailure
  <2>3. Good(m)'
    BY <1>1, <1>2, <1>3, <2>1, <2>2
       DEF Good, HandoverNamed, JobsAgreeWithRow, HandoversCounted, Unrecorded
  <2>4. QED
    BY <1>4, <2>3
<1>6. CASE n # 3
  <2>1. Die /\ m \in torn' /\ reports' = reports /\ (jobs'[m] = jobs[m] \/ jobs'[m] = {})
    BY <1>1, <1>6 DEF EndInFailure, Complete, Close, TypeOK
  <2>2. /\ sender'[m].pc = "idle" /\ poller'[m].pc = "idle"
        /\ lost'[m] = IF Unrecorded(m) THEN lost[m] + 1 ELSE lost[m]
    BY <2>1 DEF Die, NoSend, NoPoll
  <2>3. /\ jobs'[m] # {"send", "poll"} /\ FinalLast(m)' /\ ~HasFinalReport(m)'
        /\ Len(plus'[m]) <= 1 + lost'[m]
    <3>1. jobs'[m] # {"send", "poll"}
      BY <1>1, <2>1 DEF Good
    <3>2. FinalLast(m)' /\ ~HasFinalReport(m)'
      BY <1>1, <2>1 DEF Good, FinalLast, HasFinalReport
    <3>3. Len(plus'[m]) <= 1 + lost'[m]
      BY <1>1, <1>2, <2>2 DEF Good
    <3>4. QED
      BY <3>1, <3>2, <3>3
  <2>4. HandoverNamed(m)' /\ JobsAgreeWithRow(m)'
    BY <1>1, <1>2, <1>3, <2>1, <2>2, <2>3 DEF Good, HandoverNamed, JobsAgreeWithRow
  <2>5. HandoversCounted(m)'
    BY <1>1, <1>2, <2>1, <2>2 DEF Good, HandoversCounted, Unrecorded
  <2>6. Good(m)'
    BY <1>3, <2>1, <2>2, <2>3, <2>4, <2>5 DEF Good
  <2>7. QED
    BY <1>4, <2>6
<1>7. QED
  BY <1>5, <1>6

(* So does a send job that passes its message on to a poll job: the row    *)
(* names the hand-over to follow, and a job is missing only if the process *)
(* died between two writes.                                                *)
LEMMA HandOnGood ==
  ASSUME TypeOK, \A o \in Msgs : Good(o), NEW m \in Msgs, Unrecorded(m),
         NEW n \in Nat, NEW all \in Nat, Close(m, n, all), n <= all, 2 <= all,
         SendToPoll(m, n = all) \/ (n # all /\ UNCHANGED jobs),
         Report(m, "sent") \/ UNCHANGED reports,
         \A o \in Msgs \ {m} : SameRow(o),
         Len(plus'[m]) = Len(plus[m]), miIds'[m] \in 1..Len(plus[m]), status'[m] # "absent"
  PROVE  \A o \in Msgs : Good(o)'
<1>1. jobs[m] = {"send"} /\ ~HasFinalReport(m) /\ Good(m)
  BY DEF Unrecorded, Good, JobsAgreeWithRow
<1>2. FinalLast(m)' /\ ~HasFinalReport(m)'
  <2>1. CASE Report(m, "sent")
    BY <1>1, <2>1, ReportGood DEF GatewayStatus, Closed, FailureStatuses
  <2>2. CASE reports' = reports
    BY <1>1, <2>2 DEF Good, FinalLast, HasFinalReport
  <2>3. QED
    BY <2>1, <2>2
<1>3. sender'[m].pc = "idle" /\ poller'[m].pc = "idle"
  BY DEF Close, Die, NoSend, NoPoll, TypeOK
<1>4. CASE n = all
  <2>1. jobs'[m] = {"poll"} /\ lost' = lost
    BY <1>1, <1>4 DEF SendToPoll, Close, TypeOK
  <2>2. Len(plus'[m]) <= 1 + lost'[m]
    BY <1>1, <2>1 DEF Good
  <2>3. HandoverNamed(m)' /\ JobsAgreeWithRow(m)' /\ HandoversCounted(m)'
    BY <1>2, <1>3, <2>1, CountsType DEF CountsTyped, HandoverNamed, JobsAgreeWithRow, HandoversCounted
  <2>4. Good(m)'
    BY <1>2, <1>3, <2>1, <2>2, <2>3 DEF Good
  <2>5. QED
    BY <2>4, CloseOther
<1>5. CASE n # all
  <2>1. /\ m \in torn' /\ lost'[m] = lost[m] + 1
        /\ jobs'[m] = {"send"} \/ jobs'[m] = {}
    BY <1>1, <1>5 DEF SendToPoll, Close, Die, TypeOK
  <2>2. Len(plus'[m]) = lost'[m] /\ ~Unrecorded(m)'
    BY <1>1, <1>3, <2>1, CountsType DEF CountsTyped, Good, HandoversCounted, Unrecorded
  <2>3. HandoverNamed(m)' /\ JobsAgreeWithRow(m)' /\ HandoversCounted(m)'
    BY <1>2, <1>3, <2>1, <2>2, CountsType DEF CountsTyped, HandoverNamed, JobsAgreeWithRow, HandoversCounted
  <2>4. Good(m)'
    <3>1. jobs'[m] # {"send", "poll"}
      BY <2>1, {"send"} # {"send", "poll"}
    <3>2. Len(plus'[m]) <= 1 + lost'[m]
      BY <2>1, <2>2, CountsType DEF CountsTyped
    <3>3. QED
      BY <1>2, <1>3, <2>1, <2>3, <3>1, <3>2 DEF Good
  <2>5. QED
    BY <2>4, CloseOther
<1>6. QED
  BY <1>4, <1>5

(* Every step of the send job keeps the invariant. *)
LEMMA SendGood ==
  ASSUME TypeOK, \A o \in Msgs : Good(o), NEW m \in Msgs, SendStep(m)
  PROVE  \A o \in Msgs : Good(o)'
<1> USE DEF table, running, world, history
<1> Good(m) /\ CountsTyped(m)
  BY CountsType DEF CountsTyped
<1>1. CASE DropCancelledSend(m)
  <2>1. jobs[m] = {"send"} /\ jobs'[m] = {}
    BY <1>1, OneJob DEF DropCancelledSend, Complete, TypeOK
  <2>2. Good(m)'
    BY <1>1, <2>1
       DEF DropCancelledSend, Good, FinalLast, HasFinalReport, HandoverNamed, JobsAgreeWithRow,
           HandoversCounted
  <2>3. ASSUME NEW o \in Msgs \ {m}
        PROVE  Same(o)
    BY <1>1 DEF DropCancelledSend, Complete, Same, SameRow, TypeOK
  <2>4. QED
    BY <2>2, <2>3, SameGood
<1>2. CASE BeginSend(m)
  <2>1. jobs[m] = {"send"} /\ sender'[m].pc = "sendLong"
    BY <1>2, OneJob DEF BeginSend, TypeOK, Sender
  <2>2. Good(m)'
    BY <1>2, <2>1
       DEF BeginSend, Good, FinalLast, HasFinalReport, HandoverNamed, JobsAgreeWithRow,
           HandoversCounted, Unrecorded
  <2>3. ASSUME NEW o \in Msgs \ {m}
        PROVE  Same(o)
    BY <1>2 DEF BeginSend, Same, SameRow, TypeOK
  <2>4. QED
    BY <2>2, <2>3, SameGood
<1>3. CASE MultiinfoAccepts(m)
  <2>1. /\ jobs[m] = {"send"} /\ sender'[m].pc = "accepted" /\ Len(plus'[m]) = Len(plus[m]) + 1
    BY <1>3 DEF MultiinfoAccepts, TypeOK, Sender, Good
  <2>2. Good(m)'
    <3>1. Len(plus[m]) <= lost[m]
      BY <1>3, <2>1 DEF MultiinfoAccepts, Good, HandoversCounted, Unrecorded
    <3>2. Len(plus'[m]) <= 1 + lost'[m]
      BY <1>3, <2>1, <3>1 DEF MultiinfoAccepts, CountsTyped
    <3>3. HandoverNamed(m)'
      BY <1>3, <2>1 DEF MultiinfoAccepts, Good, HandoverNamed, CountsTyped
    <3>4. FinalLast(m)' /\ JobsAgreeWithRow(m)' /\ HandoversCounted(m)'
      BY <1>3, <2>1
         DEF MultiinfoAccepts, Good, FinalLast, HasFinalReport, JobsAgreeWithRow,
             HandoversCounted, Unrecorded
    <3>5. QED
      BY <1>3, <2>1, <3>2, <3>3, <3>4 DEF MultiinfoAccepts, Good
  <2>3. ASSUME NEW o \in Msgs \ {m}
        PROVE  Same(o)
    BY <1>3 DEF MultiinfoAccepts, Same, SameRow, TypeOK
  <2>4. QED
    BY <2>2, <2>3, SameGood
<1>4. CASE BeginWithdraw(m)
  <2>1. sender'[m].pc = "withdraw" /\ miIds'[m] = Len(plus[m])
    BY <1>4 DEF BeginWithdraw, SetSent, TypeOK, Sender
  <2>2. Good(m)'
    BY <1>4, <2>1
       DEF BeginWithdraw, Good, FinalLast, HasFinalReport, HandoverNamed, JobsAgreeWithRow,
           HandoversCounted, Unrecorded
  <2>3. ASSUME NEW o \in Msgs \ {m}
        PROVE  Same(o)
    BY <1>4 DEF BeginWithdraw, SetSent, Same, SameRow, TypeOK
  <2>4. QED
    BY <2>2, <2>3, SameGood
<1>5. CASE WithdrawPart(m)
  <2>1. sender'[m].pc = "withdraw" /\ \A o \in Msgs : Len(plus'[o]) = Len(plus[o])
    <3>1. MarkCancelled(m, miIds[m], sender[m].part) /\ sender[m].part \in Parts
      BY <1>5 DEF WithdrawPart
    <3>2. \A o \in Msgs : Len(plus'[o]) = Len(plus[o])
      BY <3>1, PlusType
    <3>3. QED
      BY <1>5, <3>2 DEF WithdrawPart, TypeOK, Sender
  <2>2. Good(m)'
    <3>1. HandoverNamed(m)' /\ Len(plus'[m]) <= 1 + lost'[m]
      BY <1>5, <2>1 DEF WithdrawPart, Good, HandoverNamed
    <3>2. FinalLast(m)' /\ JobsAgreeWithRow(m)' /\ HandoversCounted(m)'
      BY <1>5, <2>1
         DEF WithdrawPart, Good, FinalLast, HasFinalReport, JobsAgreeWithRow,
             HandoversCounted, Unrecorded
    <3>3. QED
      BY <1>5, <2>1, <3>1, <3>2 DEF WithdrawPart, Good
  <2>3. ASSUME NEW o \in Msgs \ {m}
        PROVE  Same(o)
    BY <1>5, <2>1 DEF WithdrawPart, Same, SameRow, TypeOK
  <2>4. QED
    BY <2>2, <2>3, SameGood
<1>6. CASE SendRetry(m)
  <2>1. /\ jobs[m] = {"send"} /\ sender'[m].pc = "idle"
        /\ lost'[m] = IF Unrecorded(m) THEN lost[m] + 1 ELSE lost[m]
    BY <1>6 DEF SendRetry, TypeOK, NoSend, Good
  <2>2. Good(m)'
    <3>1. HandoversCounted(m)' /\ Len(plus'[m]) <= 1 + lost'[m]
      BY <1>6, <2>1 DEF SendRetry, Good, HandoversCounted, Unrecorded, CountsTyped
    <3>2. FinalLast(m)' /\ JobsAgreeWithRow(m)' /\ HandoverNamed(m)'
      BY <1>6, <2>1 DEF SendRetry, Good, FinalLast, HasFinalReport, JobsAgreeWithRow, HandoverNamed
    <3>3. QED
      BY <1>6, <2>1, <3>1, <3>2 DEF SendRetry, Good
  <2>3. ASSUME NEW o \in Msgs \ {m}
        PROVE  Same(o)
    BY <1>6 DEF SendRetry, Same, SameRow, TypeOK
  <2>4. QED
    BY <2>2, <2>3, SameGood
<1>7. CASE SendCertificate(m)
  <2>1. sender'[m].pc = "idle" /\ sender[m].pc = "sendLong"
    BY <1>7 DEF SendCertificate, TypeOK, NoSend
  <2>2. Good(m)'
    BY <1>7, <2>1
       DEF SendCertificate, Good, FinalLast, HasFinalReport, HandoverNamed, JobsAgreeWithRow,
           HandoversCounted, Unrecorded
  <2>3. ASSUME NEW o \in Msgs \ {m}
        PROVE  Same(o)
    BY <1>7 DEF SendCertificate, Same, SameRow, TypeOK
  <2>4. QED
    BY <2>2, <2>3, SameGood
<1>8. ASSUME NEW n \in 1..4, SendSucceeds(m, n)
      PROVE  \A o \in Msgs : Good(o)'
  <2>1. ASSUME NEW o \in Msgs \ {m}
        PROVE  SameRow(o)
    BY <1>8 DEF SendSucceeds, SetSent, SetStatus, SendToPoll, Report, Close, SameRow, TypeOK
  <2>2. miIds'[m] \in 1..Len(plus[m])
    BY <1>8 DEF SendSucceeds, SetSent, Good, HandoverNamed, TypeOK
  <2>3. Len(plus'[m]) = Len(plus[m]) /\ status'[m] # "absent" /\ Unrecorded(m)
    BY <1>8 DEF SendSucceeds, SetStatus, TypeOK, Unrecorded
  <2>4. QED
    BY <1>8, <2>1, <2>2, <2>3, HandOnGood DEF SendSucceeds, SendToPoll
<1>9. ASSUME NEW n \in 1..4, WithdrawRefused(m, n)
      PROVE  \A o \in Msgs : Good(o)'
  <2>0. \A o \in Msgs : Len(plus'[o]) = Len(plus[o])
    BY <1>9, PlusType DEF WithdrawRefused
  <2>1. ASSUME NEW o \in Msgs \ {m}
        PROVE  SameRow(o)
    BY <1>9, <2>0 DEF WithdrawRefused, SetStatus, SendToPoll, Report, Close, SameRow, TypeOK
  <2>2. miIds'[m] \in 1..Len(plus[m])
    BY <1>9 DEF WithdrawRefused, Good, HandoverNamed, CountsTyped
  <2>3. status'[m] # "absent" /\ Unrecorded(m)
    BY <1>9 DEF WithdrawRefused, SetStatus, TypeOK, Unrecorded
  <2>4. QED
    BY <1>9, <2>0, <2>1, <2>2, <2>3, HandOnGood DEF WithdrawRefused, SendToPoll
<1>10. ASSUME NEW n \in 1..3, SendFails(m, n)
       PROVE  \A o \in Msgs : Good(o)'
  <2>1. "send" \in jobs[m]
    BY <1>10 DEF SendFails, Good
  <2>2. QED
    BY <1>10, <2>1, EndInFailureGood DEF SendFails, GatewayStatus
<1>11. ASSUME NEW n \in 1..2, WithdrawDone(m, n)
       PROVE  \A o \in Msgs : Good(o)'
  <2>1. ASSUME NEW o \in Msgs \ {m}
        PROVE  SameRow(o)
    BY <1>11 DEF WithdrawDone, SendToPoll, Close, SameRow, TypeOK
  <2>2. miIds'[m] \in 1..Len(plus[m]) /\ jobs[m] = {"send"}
    BY <1>11 DEF WithdrawDone, Good, HandoverNamed, CountsTyped
  <2>3. status'[m] # "absent" /\ Len(plus'[m]) = Len(plus[m]) /\ Unrecorded(m)
    <3>1. status[m] # "absent" /\ sender[m].pc = "withdraw"
      BY <1>11, <2>2 DEF WithdrawDone, Good, JobsAgreeWithRow
    <3>2. QED
      BY <1>11, <3>1 DEF WithdrawDone, Unrecorded
  <2> DEFINE all == 2
  <2>4. Close(m, n, all) /\ reports' = reports /\ SendToPoll(m, n = all)
    BY <1>11 DEF WithdrawDone
  <2>5. all \in Nat /\ 2 <= all /\ n \in Nat /\ n <= all
    OBVIOUS
  <2> HIDE DEF all
  <2>6. QED
    BY <2>1, <2>2, <2>3, <2>4, <2>5, HandOnGood DEF SendToPoll
<1>12. QED
  BY <1>1, <1>2, <1>3, <1>4, <1>5, <1>6, <1>7, <1>8, <1>9, <1>10, <1>11 DEF SendStep

(* Every step of the poll job keeps the invariant. *)
LEMMA PollGood ==
  ASSUME TypeOK, \A o \in Msgs : Good(o), NEW m \in Msgs, PollStep(m)
  PROVE  \A o \in Msgs : Good(o)'
<1> USE DEF table, running, world, history
<1>1. ASSUME UNCHANGED <<finalAt, miIds, jobs, sender, plus, reports, lost, torn>>,
             \A o \in Msgs \ {m} : status'[o] = status[o] /\ poller'[o] = poller[o],
             poller'[m].pc # "idle" => jobs[m] = {"poll"},
             status'[m] = status[m] \/ (jobs[m] = {"poll"} /\ status'[m] # "absent")
      PROVE  \A o \in Msgs : Good(o)'
  <2>1. Good(m)'
    BY <1>1 DEF Good, FinalLast, HasFinalReport, HandoverNamed, JobsAgreeWithRow,
                HandoversCounted, Unrecorded
  <2>2. \A o \in Msgs \ {m} : Same(o)
    BY <1>1 DEF Same, SameRow
  <2>3. QED
    BY <2>1, <2>2, SameGood
<1>2. CASE BeginPoll(m)
  <2>1. jobs[m] = {"poll"}
    BY <1>2, OneJob DEF BeginPoll
  <2>2. \A o \in Msgs \ {m} : status'[o] = status[o] /\ poller'[o] = poller[o]
    BY <1>2 DEF BeginPoll, TypeOK
  <2>3. QED
    BY <1>1, <1>2, <2>1, <2>2 DEF BeginPoll
<1>3. CASE InfoAnswers(m)
  <2>1. jobs[m] = {"poll"}
    BY <1>3 DEF InfoAnswers, Good
  <2>2. \A o \in Msgs \ {m} : status'[o] = status[o] /\ poller'[o] = poller[o]
    BY <1>3 DEF InfoAnswers, TypeOK
  <2>3. QED
    BY <1>1, <1>3, <2>1, <2>2 DEF InfoAnswers
<1>4. CASE InfoFails(m)
  <2>1. /\ \A o \in Msgs \ {m} : status'[o] = status[o] /\ poller'[o] = poller[o]
        /\ poller'[m].pc = "idle"
    BY <1>4 DEF InfoFails, TypeOK, NoPoll
  <2>2. QED
    BY <1>1, <1>4, <2>1 DEF InfoFails
<1>5. CASE PollAgain(m)
  <2>1. jobs[m] = {"poll"}
    BY <1>5 DEF PollAgain, Answered, Good
  <2>2. /\ \A o \in Msgs \ {m} : status'[o] = status[o] /\ poller'[o] = poller[o]
        /\ poller'[m].pc = "idle"
    BY <1>5 DEF PollAgain, SetStatus, TypeOK, NoPoll
  <2>3. Verdict(Seen(m)) # "absent"
    BY VerdictType DEF GatewayStatus
  <2>4. status'[m] = status[m] \/ status'[m] # "absent"
    BY <1>5, <2>3 DEF PollAgain, SetStatus, TypeOK
  <2>5. QED
    BY <1>1, <1>5, <2>1, <2>2, <2>4 DEF PollAgain
<1>6. ASSUME NEW n \in 1..3, PollExpires(m, n) \/ PollGivesUp(m, n)
      PROVE  \A o \in Msgs : Good(o)'
  <2>1. "poll" \in jobs[m]
    BY <1>6 DEF PollExpires, PollGivesUp, Answered, Good
  <2>2. QED
    BY <1>6, <2>1, EndInFailureGood DEF PollExpires, PollGivesUp, GatewayStatus
<1>7. ASSUME NEW n \in 1..3, PollSettles(m, n)
      PROVE  \A o \in Msgs : Good(o)'
  <2> DEFINE verdict == Verdict(Seen(m))
  <2>1. verdict \in GatewayStatus /\ verdict # "absent"
    BY VerdictType DEF GatewayStatus
  <2> HIDE DEF verdict
  <2>2. jobs[m] = {"poll"} /\ ~HasFinalReport(m) /\ Good(m)
    BY <1>7 DEF PollSettles, Answered, Good, JobsAgreeWithRow
  <2>3. status'[m] = verdict /\ finalAt'[m] = TRUE /\ plus' = plus /\ miIds' = miIds
    BY <1>7 DEF PollSettles, SetStatus, TypeOK, verdict
  <2>4. ASSUME NEW o \in Msgs \ {m}
        PROVE  Good(o)'
    <3>1. SameRow(o)
      BY <1>7 DEF PollSettles, SetStatus, Complete, Report, SameRow, TypeOK, Close
    <3>2. QED
      BY <1>7, <3>1, CloseOther DEF PollSettles
  <2>5. CASE n = 3
    <3>1. /\ jobs'[m] = {} /\ sender'[m].pc = "idle" /\ poller'[m].pc = "idle" /\ lost' = lost
      BY <1>7, <2>2, <2>5 DEF PollSettles, Complete, Close, TypeOK, NoSend, NoPoll
    <3>2. Report(m, verdict) \/ reports' = reports
      BY <1>7 DEF PollSettles, verdict
    <3>3. FinalLast(m)'
      BY <2>1, <2>2, <3>2, ReportGood DEF Good, FinalLast
    <3>4. HandoverNamed(m)' /\ JobsAgreeWithRow(m)' /\ HandoversCounted(m)'
      BY <2>1, <2>2, <2>3, <3>1
         DEF Good, HandoverNamed, JobsAgreeWithRow, HandoversCounted, Unrecorded
    <3>5. Good(m)'
      BY <2>2, <2>3, <3>1, <3>3, <3>4 DEF Good
    <3>6. QED
      BY <2>4, <3>5
  <2>6. CASE n # 3
    <3>1. /\ reports' = reports /\ (jobs'[m] = jobs[m] \/ jobs'[m] = {})
          /\ Die /\ m \in torn'
      BY <1>7, <2>2, <2>6 DEF PollSettles, Complete, Close, TypeOK
    <3>2. sender[m].pc = "idle"
      BY <2>2, {"send"} # {"poll"} DEF Good
    <3>3. sender'[m].pc = "idle" /\ poller'[m].pc = "idle" /\ lost'[m] = lost[m]
      BY <3>1, <3>2 DEF Die, TypeOK, NoSend, NoPoll, Unrecorded
    <3>4. HandoverNamed(m)' /\ JobsAgreeWithRow(m)' /\ HandoversCounted(m)' /\ FinalLast(m)'
      BY <2>1, <2>2, <2>3, <3>1, <3>3
         DEF Good, HandoverNamed, JobsAgreeWithRow, HandoversCounted, HasFinalReport, FinalLast
    <3>5. Good(m)'
      BY <2>2, <2>3, <3>1, <3>3, <3>4 DEF Good
    <3>6. QED
      BY <2>4, <3>5
  <2>7. QED
    BY <2>5, <2>6
<1>8. QED
  BY <1>2, <1>3, <1>4, <1>5, <1>6, <1>7 DEF PollStep

(* Every step of a cancel request keeps the invariant. *)
LEMMA CancelGood ==
  ASSUME TypeOK, \A o \in Msgs : Good(o), NEW m \in Msgs, CancelStep(m)
  PROVE  \A o \in Msgs : Good(o)'
<1> USE DEF table, running, world, history
<1>1. CASE CancelLocally(m) \/ CancelDone(m)
  <2>1. status'[m] = "cancelled" /\ finalAt'[m] = TRUE /\ SameButStatus(m)
    BY <1>1 DEF CancelLocally, CancelDone, SetStatus, TypeOK, SameButStatus
  <2>2. Good(m)'
    BY <2>1 DEF SameButStatus, Good, FinalLast, HasFinalReport, HandoverNamed,
                JobsAgreeWithRow, HandoversCounted, Unrecorded
  <2>3. ASSUME NEW o \in Msgs \ {m}
        PROVE  Same(o)
    BY <1>1 DEF CancelLocally, CancelDone, SetStatus, TypeOK, Same, SameRow
  <2>4. QED
    BY <2>2, <2>3, SameGood
<1>2. CASE BeginCancel(m)
  BY <1>2, SameGood DEF BeginCancel, Same, SameRow
<1>3. CASE CancelPart(m) \/ CancelRefused(m)
  <2>1. \A o \in Msgs : Len(plus'[o]) = Len(plus[o])
    BY <1>3, PlusType DEF CancelPart, CancelRefused
  <2>2. \A o \in Msgs : Same(o)
    BY <1>3, <2>1 DEF CancelPart, CancelRefused, Same, SameRow
  <2>3. QED
    BY <2>2, SameGood
<1>4. QED
  BY <1>1, <1>2, <1>3 DEF CancelStep

(* So does what happens outside of the handlers: a message accepted by the *)
(* API is there together with its send job.                                *)
LEMMA OutsideGood ==
  ASSUME TypeOK, \A o \in Msgs : Good(o), NEW m \in Msgs, Outside(m)
  PROVE  \A o \in Msgs : Good(o)'
<1> USE DEF table, running, world, history
<1>1. CASE Submit(m)
  <2>1. jobs'[m] = {"send"} /\ status'[m] = "queued"
    BY <1>1 DEF Submit, SetStatus, TypeOK
  <2>2. Good(m) /\ CountsTyped(m) /\ jobs[m] = {} /\ Len(plus[m]) = 0 /\ Len(reports[m]) = 0
    BY <1>1, CountsType DEF Submit, Good, JobsAgreeWithRow
  <2>3. ~HasFinalReport(m)' /\ FinalLast(m)'
    BY <1>1, <2>2 DEF Submit, HasFinalReport, FinalLast
  <2>4. HandoverNamed(m)' /\ JobsAgreeWithRow(m)' /\ HandoversCounted(m)'
    BY <1>1, <2>1, <2>2, <2>3
       DEF Submit, Good, HandoverNamed, JobsAgreeWithRow, HandoversCounted, Unrecorded, CountsTyped
  <2>5. jobs'[m] # {"send", "poll"}
    BY <2>1, {"send"} # {"send", "poll"}
  <2>6. Good(m)'
    BY <1>1, <2>1, <2>2, <2>3, <2>4, <2>5 DEF Submit, Good
  <2>7. ASSUME NEW o \in Msgs \ {m}
        PROVE  Same(o)
    BY <1>1 DEF Submit, SetStatus, TypeOK, Same, SameRow
  <2>8. QED
    BY <2>6, <2>7, SameGood
<1>2. CASE WeekPasses(m) \/ DeadlinePasses(m)
  BY <1>2, SameGood DEF WeekPasses, DeadlinePasses, Same, SameRow
<1>3. ASSUME NEW h, NEW p \in Parts, MultiinfoProceeds(m, h, p)
      PROVE  \A o \in Msgs : Good(o)'
  <2>1. PICK c \in Codes : plus' = [plus EXCEPT ![m][h][p].code = c]
    BY <1>3 DEF MultiinfoProceeds
  <2>2. \A o \in Msgs : Len(plus'[o]) = Len(plus[o])
    BY <2>1, PlusType
  <2>3. \A o \in Msgs : Same(o)
    BY <1>3, <2>2 DEF MultiinfoProceeds, Same, SameRow
  <2>4. QED
    BY <2>3, SameGood
<1>4. QED
  BY <1>1, <1>2, <1>3 DEF Outside

(* The initial states satisfy the invariant. *)
LEMMA InitGood == Init => IInv
<1> SUFFICES ASSUME Init PROVE TypeOK /\ \A m \in Msgs : Good(m)
  BY IInvIsGood
<1>1. NoSend \in Sender /\ NoPoll \in Poller /\ NoCancel \in Canceller
  BY PartsAssumption, CodesAssumption
     DEF NoSend, NoPoll, NoCancel, Sender, Poller, Canceller, Parts
<1>2. TypeOK
  <2>1. plus \in [Msgs -> Seq([Parts -> Part])]
    BY DEF Init
  <2>2. reports \in [Msgs -> Seq(GatewayStatus)]
    BY DEF Init
  <2>3. jobs \in [Msgs -> SUBSET {"send", "poll"}] /\ torn \in SUBSET Msgs
    BY DEF Init
  <2>4. /\ sender \in [Msgs -> Sender] /\ poller \in [Msgs -> Poller]
        /\ canceller \in [Msgs -> Canceller]
    BY <1>1 DEF Init
  <2>5. attempts \in [Msgs -> 0..MaxRetries] /\ restarts \in 0..MaxRestarts
    BY RetriesAssumption, RestartsAssumption DEF Init
  <2>6. /\ status \in [Msgs -> GatewayStatus \cup {"absent"}] /\ finalAt \in [Msgs -> BOOLEAN]
        /\ miIds \in [Msgs -> Nat] /\ paused \in BOOLEAN /\ lost \in [Msgs -> Nat]
        /\ weekOld \in [Msgs -> BOOLEAN] /\ overdue \in [Msgs -> BOOLEAN]
    BY DEF Init
  <2>7. QED
    BY <2>1, <2>2, <2>3, <2>4, <2>5, <2>6 DEF TypeOK
<1>3. ASSUME NEW m \in Msgs
      PROVE  Good(m)
  <2>1. /\ jobs[m] # {"send", "poll"} /\ Len(plus[m]) = 0 /\ Len(reports[m]) = 0
        /\ jobs[m] = {} /\ miIds[m] = 0 /\ lost[m] = 0 /\ status[m] = "absent"
        /\ sender[m].pc = "idle" /\ poller[m].pc = "idle"
    BY DEF Init, NoSend, NoPoll
  <2>2. FinalLast(m) /\ ~HasFinalReport(m)
    BY <2>1 DEF FinalLast, HasFinalReport
  <2>3. QED
    BY <2>1, <2>2 DEF Good, HandoverNamed, JobsAgreeWithRow, HandoversCounted
<1>4. QED
  BY <1>2, <1>3

(* Every step keeps the invariant. *)
LEMMA Inductive == IInv /\ [Next]_vars => IInv'
<1> SUFFICES ASSUME TypeOK, \A m \in Msgs : Good(m), [Next]_vars
             PROVE  TypeOK' /\ \A m \in Msgs : Good(m)'
  BY IInvIsGood DEF IInv, Good, OneJobPerMessage, NoStuckMessage, DuplicateOnlyAfterLoss,
       FinalReportIsLast, FinalLast
<1> USE DEF table, running, world, history
<1>1. TypeOK'
  BY TypeStep, IInvIsGood DEF IInv
<1>2. ASSUME NEW m \in Msgs, SendStep(m) \/ PollStep(m) \/ CancelStep(m) \/ Outside(m)
      PROVE  \A o \in Msgs : Good(o)'
  BY <1>2, SendGood, PollGood, CancelGood, OutsideGood
<1>3. CASE Resume \/ UNCHANGED vars
  <2>1. \A o \in Msgs : Same(o)
    BY <1>3 DEF Resume, vars, Same, SameRow
  <2>2. QED
    BY <1>1, <2>1, SameGood
<1>4. CASE Crash
  <2>1. Die /\ \A o \in Msgs : SameRow(o)
    BY <1>4 DEF Crash, SameRow
  <2>2. QED
    BY <1>1, <2>1, DieGood
<1>6. QED
  BY <1>1, <1>2, <1>3, <1>4 DEF Next

-----------------------------------------------------------------------------
(* The inductive invariant holds in every reachable state: rows, jobs,     *)
(* handlers and hand-overs agree whatever the interleaving and the kills.  *)
THEOREM InvariantHolds == Spec => []IInv
BY InitGood, Inductive, PTL DEF Spec

(* The columns, the locals of the handlers and the history keep their types. *)
THEOREM TypeCorrect == Spec => []TypeOK
<1>1. IInv => TypeOK
  BY DEF IInv
<1>2. QED
  BY <1>1, InvariantHolds, PTL

(* The premise of the worker's lanes: a message has one job at a time and  *)
(* a handler runs only for a job that is still there.                      *)
THEOREM OneJobAtATime == Spec => []OneJobPerMessage
<1>1. IInv => OneJobPerMessage
  BY DEF IInv
<1>2. QED
  BY <1>1, InvariantHolds, PTL

(* An accepted message that is not closed has a job, unless the process    *)
(* was killed between the closing writes of one of its handlers.           *)
THEOREM NeverStuck == Spec => []NoStuckMessage
<1>1. IInv => NoStuckMessage
  BY DEF IInv
<1>2. QED
  BY <1>1, InvariantHolds, PTL

(* A message goes out once more only for a hand-over whose outcome was lost. *)
THEOREM DuplicatesAreLosses == Spec => []DuplicateOnlyAfterLoss
<1>1. IInv => DuplicateOnlyAfterLoss
  BY DEF IInv
<1>2. QED
  BY <1>1, InvariantHolds, PTL

(* The webhook hears of one outcome of a message and of nothing after it. *)
THEOREM OutcomeReportedOnce == Spec => []FinalReportIsLast
<1>1. IInv => FinalReportIsLast
  BY DEF IInv
<1>2. QED
  BY <1>1, InvariantHolds, PTL

-----------------------------------------------------------------------------
(* The steps of RemoteCall in terms of a message and its send job. *)
LEMMA CallStep ==
  ASSUME NEW m \in Msgs, CountsTyped(m), CountsTyped(m)'
  PROVE  /\ DutyOf(m)' = DutyOf(m) /\ Len(plus'[m]) = Len(plus[m]) /\ lost'[m] = lost[m]
              => HandOver!Step(m)
         /\ DutyOf(m) = "none" /\ DutyOf(m)' = "owed" /\ Len(plus'[m]) = Len(plus[m])
              /\ lost'[m] = lost[m] => HandOver!Step(m)
         /\ DutyOf(m) = "owed" /\ DutyOf(m)' = "owed" /\ Len(plus[m]) = lost[m]
              /\ Len(plus'[m]) = Len(plus[m]) + 1 /\ lost'[m] = lost[m] => HandOver!Step(m)
         /\ DutyOf(m) = "owed" /\ DutyOf(m)' = "owed" /\ Len(plus[m]) = lost[m] + 1
              /\ Len(plus'[m]) = Len(plus[m]) /\ lost'[m] = lost[m] + 1 => HandOver!Step(m)
         /\ DutyOf(m) = "owed" /\ DutyOf(m)' = "over" /\ Len(plus'[m]) = Len(plus[m])
              /\ lost'[m] \in {lost[m], Len(plus[m])} => HandOver!Step(m)
BY DEF HandOver!Step, HandOver!Stay, HandOver!Accept, HandOver!Take, HandOver!Lose, HandOver!Settle

(* A cancel request is about a message that was accepted. *)
CancelKnown(m) == canceller[m].pc # "idle" => status[m] # "absent"

(* What every step leaves of every message, but for the acceptance of a    *)
(* message and that of a hand-over: it takes back neither, and it loses a  *)
(* hand-over only if that is still in the hands of the send job.           *)
LostAtMost(m) == lost'[m] = lost[m] \/ (Unrecorded(m) /\ lost'[m] = lost[m] + 1)

Kept(m) ==
  /\ status'[m] = "absent" <=> status[m] = "absent"
  /\ "send" \in jobs'[m] => "send" \in jobs[m]
  /\ Len(plus'[m]) = Len(plus[m])
  /\ LostAtMost(m)
  /\ canceller'[m].pc # "idle" => status[m] # "absent"

(* Such a step is one of RemoteCall: the call is lost, settled or left. *)
LEMMA KeptIsCallStep ==
  ASSUME TypeOK, TypeOK', NEW m \in Msgs, Good(m), Kept(m)
  PROVE  HandOver!Step(m)
<1>1. CountsTyped(m) /\ CountsTyped(m)'
  BY CountsType DEF CountsTyped, TypeOK, Kept
<1>2. /\ "send" \in jobs[m] /\ Unrecorded(m) => Len(plus[m]) = lost[m] + 1
      /\ status[m] = "absent" => "send" \notin jobs[m]
      /\ Unrecorded(m) => "send" \in jobs[m]
  BY DEF Good, HandoversCounted, JobsAgreeWithRow, Unrecorded
<1>3. CASE "send" \notin jobs[m]
  BY <1>1, <1>2, <1>3, CallStep DEF Kept, LostAtMost, DutyOf
<1>4. CASE "send" \in jobs[m] /\ "send" \in jobs'[m]
  BY <1>1, <1>2, <1>4, CallStep DEF Kept, LostAtMost, DutyOf
<1>5. CASE "send" \in jobs[m] /\ "send" \notin jobs'[m]
  BY <1>1, <1>2, <1>5, CallStep DEF Kept, LostAtMost, DutyOf
<1>6. QED
  BY <1>3, <1>4, <1>5

(* The closing writes lose at most what their process had in its hands. *)
LEMMA CloseKeeps ==
  ASSUME TypeOK, NEW m \in Msgs, NEW n, NEW all, Close(m, n, all), NEW o \in Msgs, CancelKnown(o)
  PROVE  LostAtMost(o) /\ (canceller'[o].pc # "idle" => status[o] # "absent")
BY DEF Close, Die, LostAtMost, NoCancel, CancelKnown, TypeOK

(* Ending a job, or following a send job by a poll job, adds no send job. *)
LEMMA JobsKeep ==
  ASSUME TypeOK, NEW m \in Msgs, NEW type, NEW enqueued,
         Complete(m, type) \/ SendToPoll(m, enqueued) \/ jobs' = jobs, NEW o \in Msgs
  PROVE  "send" \in jobs'[o] => "send" \in jobs[o]
<1>1. "send" \notin (IF enqueued THEN {"poll"} ELSE {})
  OBVIOUS
<1>2. CASE o = m /\ jobs' # jobs
  <2>1. jobs'[m] \in {jobs[m] \ {type},
                     (jobs[m] \ {"send"}) \cup (IF enqueued THEN {"poll"} ELSE {})}
    BY <1>2 DEF Complete, SendToPoll, TypeOK
  <2>2. QED
    BY <1>1, <1>2, <2>1
<1>3. CASE o # m \/ jobs' = jobs
  BY <1>3 DEF Complete, SendToPoll, TypeOK
<1>4. QED
  BY <1>2, <1>3

(* A status is never taken back to that of a message not accepted. *)
LEMMA StatusKeeps ==
  ASSUME TypeOK, NEW m \in Msgs, status[m] # "absent",
         status' = status \/ \E s \in GatewayStatus : SetStatus(m, s), NEW o \in Msgs
  PROVE  status'[o] = "absent" <=> status[o] = "absent"
BY DEF SetStatus, GatewayStatus, TypeOK

(* A message with a job was accepted. *)
LEMMA JobKnown ==
  ASSUME NEW m \in Msgs, Good(m), jobs[m] # {} \/ sender[m].pc # "idle" \/ poller[m].pc # "idle"
  PROVE  status[m] # "absent"
BY DEF Good, JobsAgreeWithRow

(* Ending a message in failure keeps what was accepted. *)
LEMMA EndInFailureKeeps ==
  ASSUME TypeOK, NEW m \in Msgs, status[m] # "absent", NEW type, NEW s \in GatewayStatus, NEW n,
         EndInFailure(m, type, s, n), NEW o \in Msgs, CancelKnown(o)
  PROVE  Kept(o)
<1>1. (status'[o] = "absent" <=> status[o] = "absent") /\ ("send" \in jobs'[o] => "send" \in jobs[o])
  BY StatusKeeps, JobsKeep DEF EndInFailure
<1>2. QED
  BY <1>1, CloseKeeps DEF EndInFailure, Kept, world

(* Every step of the send job but the acceptance by Multiinfo does. *)
LEMMA SendKeeps ==
  ASSUME TypeOK, NEW m \in Msgs, Good(m), SendStep(m), ~MultiinfoAccepts(m),
         NEW o \in Msgs, CancelKnown(o)
  PROVE  Kept(o)
<1> USE DEF table, running, world, history
<1>0. status[m] # "absent"
  <2>1. "send" \in jobs[m] \/ sender[m].pc # "idle"
    BY DEF SendStep, DropCancelledSend, BeginSend, MultiinfoAccepts, BeginWithdraw, WithdrawPart,
           SendRetry, SendCertificate, SendSucceeds, WithdrawRefused, SendFails, WithdrawDone
  <2>2. QED
    BY <2>1, JobKnown
<1>1. CASE DropCancelledSend(m)
  <2>1. "send" \in jobs'[o] => "send" \in jobs[o]
    BY <1>1, JobsKeep DEF DropCancelledSend
  <2>2. QED
    BY <1>1, <2>1 DEF DropCancelledSend, Kept, LostAtMost, CancelKnown
<1>2. CASE BeginSend(m) \/ BeginWithdraw(m) \/ SendCertificate(m)
  BY <1>2 DEF BeginSend, BeginWithdraw, SendCertificate, Kept, LostAtMost, CancelKnown
<1>3. CASE WithdrawPart(m)
  BY <1>3, PlusType DEF WithdrawPart, Kept, LostAtMost, CancelKnown
<1>4. CASE SendRetry(m)
  BY <1>4 DEF SendRetry, Kept, LostAtMost, CancelKnown, TypeOK
<1>5. ASSUME NEW n \in 1..4, SendSucceeds(m, n) \/ WithdrawRefused(m, n)
      PROVE  Kept(o)
  <2>1. (status'[o] = "absent" <=> status[o] = "absent") /\ ("send" \in jobs'[o] => "send" \in jobs[o])
    BY <1>0, <1>5, StatusKeeps, JobsKeep DEF SendSucceeds, WithdrawRefused, GatewayStatus
  <2>2. Len(plus'[o]) = Len(plus[o])
    BY <1>5, PlusType DEF SendSucceeds, WithdrawRefused
  <2>3. LostAtMost(o) /\ (canceller'[o].pc # "idle" => status[o] # "absent")
    BY <1>5, CloseKeeps DEF SendSucceeds, WithdrawRefused
  <2>4. QED
    BY <2>1, <2>2, <2>3 DEF Kept
<1>6. ASSUME NEW n \in 1..3, SendFails(m, n)
      PROVE  Kept(o)
  BY <1>0, <1>6, EndInFailureKeeps DEF SendFails, GatewayStatus
<1>7. ASSUME NEW n \in 1..2, WithdrawDone(m, n)
      PROVE  Kept(o)
  <2>1. "send" \in jobs'[o] => "send" \in jobs[o]
    BY <1>7, JobsKeep DEF WithdrawDone
  <2>2. LostAtMost(o) /\ (canceller'[o].pc # "idle" => status[o] # "absent")
    BY <1>7, CloseKeeps DEF WithdrawDone
  <2>3. QED
    BY <1>7, <2>1, <2>2 DEF WithdrawDone, Kept
<1>8. QED
  BY <1>1, <1>2, <1>3, <1>4, <1>5, <1>6, <1>7 DEF SendStep

(* So does every step of the poll job. *)
LEMMA PollKeeps ==
  ASSUME TypeOK, NEW m \in Msgs, Good(m), PollStep(m), NEW o \in Msgs, CancelKnown(o)
  PROVE  Kept(o)
<1> USE DEF table, running, world, history
<1>0. status[m] # "absent"
  <2>1. "poll" \in jobs[m] \/ poller[m].pc # "idle"
    BY DEF PollStep, BeginPoll, InfoAnswers, InfoFails, PollAgain, PollExpires, PollGivesUp,
           PollSettles, Answered
  <2>2. QED
    BY <2>1, JobKnown
<1>1. CASE BeginPoll(m) \/ InfoAnswers(m) \/ InfoFails(m)
  BY <1>1 DEF BeginPoll, InfoAnswers, InfoFails, Kept, LostAtMost, CancelKnown
<1>2. Verdict(Seen(m)) \in GatewayStatus
  BY VerdictType
<1>3. CASE PollAgain(m)
  <2>1. status'[o] = "absent" <=> status[o] = "absent"
    BY <1>0, <1>2, <1>3, StatusKeeps DEF PollAgain
  <2>2. QED
    BY <1>3, <2>1 DEF PollAgain, Kept, LostAtMost, CancelKnown
<1>4. ASSUME NEW n \in 1..3, PollExpires(m, n) \/ PollGivesUp(m, n)
      PROVE  Kept(o)
  BY <1>0, <1>4, EndInFailureKeeps DEF PollExpires, PollGivesUp, GatewayStatus
<1>5. ASSUME NEW n \in 1..3, PollSettles(m, n)
      PROVE  Kept(o)
  <2>1. (status'[o] = "absent" <=> status[o] = "absent") /\ ("send" \in jobs'[o] => "send" \in jobs[o])
    BY <1>0, <1>2, <1>5, StatusKeeps, JobsKeep DEF PollSettles
  <2>2. LostAtMost(o) /\ (canceller'[o].pc # "idle" => status[o] # "absent")
    BY <1>5, CloseKeeps DEF PollSettles
  <2>3. QED
    BY <1>5, <2>1, <2>2 DEF PollSettles, Kept
<1>6. QED
  BY <1>1, <1>3, <1>4, <1>5 DEF PollStep

(* So do a cancel request and the outside world, but for the acceptance of *)
(* the message.                                                            *)
LEMMA CancelKeeps ==
  ASSUME TypeOK, NEW m \in Msgs, Good(m), CancelStep(m) \/ (Outside(m) /\ ~Submit(m)),
         \A e \in Msgs : CancelKnown(e), NEW o \in Msgs
  PROVE  Kept(o)
<1> USE DEF table, running, world, history
<1>1. CASE CancelLocally(m) \/ CancelDone(m)
  <2>1. status[m] # "absent" /\ \E s \in GatewayStatus : SetStatus(m, s)
    BY <1>1 DEF CancelLocally, CancelDone, CancelKnown, GatewayStatus
  <2>2. status'[o] = "absent" <=> status[o] = "absent"
    BY <2>1, StatusKeeps
  <2>3. canceller'[o].pc # "idle" => canceller[o].pc # "idle"
    BY <1>1 DEF CancelLocally, CancelDone, NoCancel, TypeOK
  <2>4. QED
    BY <1>1, <2>2, <2>3 DEF CancelLocally, CancelDone, Kept, LostAtMost, CancelKnown
<1>2. CASE BeginCancel(m)
  BY <1>2 DEF BeginCancel, Kept, LostAtMost, CancelKnown, TypeOK
<1>3. CASE CancelPart(m) \/ CancelRefused(m)
  <2>1. Len(plus'[o]) = Len(plus[o])
    BY <1>3, PlusType DEF CancelPart, CancelRefused
  <2>2. canceller'[o].pc # "idle" => canceller[o].pc # "idle"
    BY <1>3 DEF CancelPart, CancelRefused, NoCancel, TypeOK
  <2>3. QED
    BY <1>3, <2>1, <2>2 DEF CancelPart, CancelRefused, Kept, LostAtMost, CancelKnown
<1>4. CASE WeekPasses(m) \/ DeadlinePasses(m)
  BY <1>4 DEF WeekPasses, DeadlinePasses, Kept, LostAtMost, CancelKnown
<1>5. ASSUME NEW h, NEW p \in Parts, MultiinfoProceeds(m, h, p)
      PROVE  Kept(o)
  <2>1. PICK c \in Codes : plus' = [plus EXCEPT ![m][h][p].code = c]
    BY <1>5 DEF MultiinfoProceeds
  <2>2. Len(plus'[o]) = Len(plus[o])
    BY <2>1, PlusType
  <2>3. QED
    BY <1>5, <2>2 DEF MultiinfoProceeds, Kept, LostAtMost, CancelKnown
<1>6. QED
  BY <1>1, <1>2, <1>3, <1>4, <1>5 DEF CancelStep, Outside

(* The acceptance of a message, and that of its hand-over, are steps of    *)
(* RemoteCall too, and take back nothing of any message.                   *)
LEMMA AcceptanceSteps ==
  ASSUME TypeOK, TypeOK', \A e \in Msgs : Good(e) /\ CancelKnown(e),
         NEW m \in Msgs, Submit(m) \/ MultiinfoAccepts(m), NEW o \in Msgs
  PROVE  HandOver!Step(o) /\ CancelKnown(o)'
<1> USE DEF table, running, world, history
<1>1. CountsTyped(m) /\ CountsTyped(m)'
  <2>1. plus'[m] \in Seq([Parts -> Part]) /\ lost'[m] \in Nat /\ miIds'[m] \in Nat
    BY DEF TypeOK
  <2>2. Len(plus'[m]) \in Nat
    BY <2>1
  <2>3. QED
    BY <2>1, <2>2, CountsType DEF CountsTyped
<1>2. CASE o # m
  <2>1. Kept(o)
    BY <1>2 DEF Submit, MultiinfoAccepts, SetStatus, Kept, LostAtMost, CancelKnown, TypeOK
  <2>2. QED
    BY <2>1, KeptIsCallStep DEF Kept, CancelKnown
<1>3. CASE o = m /\ Submit(m)
  <2>1. DutyOf(m) = "none" /\ DutyOf(m)' = "owed"
    BY <1>3 DEF Submit, SetStatus, DutyOf, TypeOK
  <2>2. status'[m] # "absent"
    BY <1>3 DEF Submit, SetStatus, TypeOK
  <2>3. QED
    BY <1>1, <1>3, <2>1, <2>2, CallStep DEF Submit, CancelKnown
<1>4. CASE o = m /\ MultiinfoAccepts(m)
  <2>1. "send" \in jobs[m] /\ ~Unrecorded(m) /\ UNCHANGED <<status, jobs, lost, canceller>>
    BY <1>4 DEF MultiinfoAccepts, Unrecorded, Good
  <2>2. Len(plus[m]) = lost[m] /\ status[m] # "absent"
    BY <2>1 DEF Good, HandoversCounted, JobsAgreeWithRow
  <2>3. DutyOf(m) = "owed" /\ DutyOf(m)' = "owed"
    BY <2>1, <2>2 DEF DutyOf
  <2>4. Len(plus'[m]) = Len(plus[m]) + 1
    <3> DEFINE S == [Parts -> Part]
               e == [p \in Parts |-> [code |-> FirstCode, cancelled |-> FALSE]]
    <3>1. plus[m] \in Seq(S) /\ e \in S
      BY CodesAssumption DEF TypeOK, Part
    <3>2. plus'[m] = Append(plus[m], e)
      BY <1>4 DEF MultiinfoAccepts, TypeOK
    <3> HIDE DEF S, e
    <3>3. QED
      BY <3>1, <3>2
  <2>5. QED
    BY <1>1, <1>4, <2>1, <2>2, <2>3, <2>4, CallStep DEF CancelKnown
<1>5. QED
  BY <1>2, <1>3, <1>4

(* Every step is one of RemoteCall. *)
LEMMA CallNext ==
  ASSUME IInv, IInv', \A e \in Msgs : CancelKnown(e), [Next]_vars, NEW o \in Msgs
  PROVE  HandOver!Step(o) /\ CancelKnown(o)'
<1> USE DEF table, running, world, history
<1>1. TypeOK /\ TypeOK' /\ \A e \in Msgs : Good(e)
  BY IInvIsGood DEF IInv
<1>2. ASSUME NEW m \in Msgs, Submit(m) \/ MultiinfoAccepts(m)
      PROVE  HandOver!Step(o) /\ CancelKnown(o)'
  BY <1>1, <1>2, AcceptanceSteps
<1>3. ASSUME Kept(o)
      PROVE  HandOver!Step(o) /\ CancelKnown(o)'
  BY <1>1, <1>3, KeptIsCallStep DEF Kept, CancelKnown
<1>4. CASE Resume \/ UNCHANGED vars
  <2>1. Kept(o)
    BY <1>4 DEF Resume, vars, Kept, LostAtMost, CancelKnown
  <2>2. QED
    BY <1>3, <2>1
<1>5. CASE Crash
  <2>1. Kept(o)
    BY <1>1, <1>5 DEF Crash, Die, Kept, LostAtMost, NoCancel
  <2>2. QED
    BY <1>3, <2>1
<1>6. ASSUME NEW m \in Msgs, SendStep(m) \/ PollStep(m) \/ CancelStep(m) \/ Outside(m)
      PROVE  HandOver!Step(o) /\ CancelKnown(o)'
  BY <1>1, <1>2, <1>3, <1>6, SendKeeps, PollKeeps, CancelKeeps
<1>7. QED
  BY <1>4, <1>5, <1>6 DEF Next

(* The send job implements RemoteCall, also when the process is killed     *)
(* between two writes.                                                     *)
THEOREM HandOverImplemented == Spec => ImplementsHandOver
<1> DEFINE Known == \A m \in Msgs : CancelKnown(m)
<1>1. Init => HandOver!Init /\ Known
  <2> SUFFICES ASSUME Init PROVE HandOver!Init /\ Known
    OBVIOUS
  <2>1. \A m \in Msgs : DutyOf(m) = "none" /\ Len(plus[m]) = 0 /\ lost[m] = 0
    BY DEF Init, DutyOf
  <2>2. HandOver!Init
    BY <2>1 DEF Init, HandOver!Init
  <2>3. Known
    BY DEF Init, NoCancel, CancelKnown
  <2>4. QED
    BY <2>2, <2>3
<1>2. IInv /\ IInv' /\ Known /\ [Next]_vars => [HandOver!Next]_(HandOver!vars) /\ Known'
  <2> SUFFICES ASSUME IInv, IInv', Known, [Next]_vars PROVE HandOver!Next /\ Known'
    OBVIOUS
  <2>1. \A m \in Msgs : HandOver!Step(m) /\ CancelKnown(m)'
    BY CallNext
  <2>2. \A m \in Msgs : DutyOf(m)' \in HandOver!Duty
    BY DEF DutyOf, HandOver!Duty
  <2>3. \A m \in Msgs : lost'[m] \in Nat /\ Len(plus'[m]) \in Nat
    BY DEF IInv, TypeOK
  <2>4. lost' \in [Msgs -> Nat]
    BY DEF IInv, TypeOK
  <2>5. QED
    BY <2>1, <2>2, <2>3, <2>4 DEF HandOver!Next
<1>3. QED
  <2> HIDE DEF Known
  <2>1. QED
    BY <1>1, <1>2, InvariantHolds, PTL DEF Spec, ImplementsHandOver, HandOver!Spec

(* Multiinfo has a message at most once more than the gateway lost track   *)
(* of its hand-over, and is said to be lost only what it had: a promise of *)
(* RemoteCall, which follows from its steps alone.                         *)
THEOREM HandedOverOnceUnlessLost == Spec => []HandOver!OnceUnlessLost
<1>1. Init => HandOver!OnceUnlessLost
  BY DEF Init, HandOver!OnceUnlessLost
<1>2. IInv /\ HandOver!OnceUnlessLost /\ [HandOver!Next]_(HandOver!vars) => HandOver!OnceUnlessLost'
  <2> SUFFICES ASSUME IInv, HandOver!OnceUnlessLost, [HandOver!Next]_(HandOver!vars), NEW m \in Msgs,
                      DutyOf(m)' # "torn"
               PROVE  lost'[m] <= Len(plus'[m]) /\ Len(plus'[m]) <= lost'[m] + 1
    BY DEF HandOver!OnceUnlessLost
  <2>1. lost[m] \in Nat /\ Len(plus[m]) \in Nat /\ DutyOf(m) # "torn"
    BY DEF IInv, TypeOK, DutyOf
  <2>2. lost[m] <= Len(plus[m]) /\ Len(plus[m]) <= lost[m] + 1
    BY <2>1 DEF HandOver!OnceUnlessLost
  <2>3. CASE HandOver!Next
    <3>1. HandOver!Step(m)
      BY <2>3 DEF HandOver!Next
    <3>2. QED
      BY <2>1, <2>2, <3>1 DEF HandOver!Step, HandOver!Stay, HandOver!Accept, HandOver!Take,
         HandOver!Lose, HandOver!Settle, HandOver!Reopen, HandOver!Tear
  <2>4. CASE UNCHANGED HandOver!vars
    <3>1. [n \in Msgs |-> Len(plus[n])][m]' = [n \in Msgs |-> Len(plus[n])][m] /\ lost' = lost
      BY <2>4 DEF HandOver!vars
    <3>2. QED
      BY <2>2, <3>1
  <2>5. QED
    BY <2>3, <2>4
<1>3. QED
  BY <1>1, <1>2, InvariantHolds, HandOverImplemented, PTL DEF Spec, ImplementsHandOver, HandOver!Spec

-----------------------------------------------------------------------------
(* What the second invariant says of one message. *)
OutcomeOK(m) ==
  EndsNamed(m) /\ CancelSoFar(m) /\ SeenSoFar(m) /\ ReportStands(m) /\ Withdrawn(m)

(* Parts that have stopped, or ended, have done so for good, and no        *)
(* hand-over is forgotten.                                                 *)
PartsStay(m) ==
  \A h \in DOMAIN plus[m] :
    /\ h \in DOMAIN plus'[m]
    /\ \A p \in Parts : /\ Stopped(plus[m][h][p]) => Stopped(plus'[m][h][p])
                        /\ IsFinal(plus[m][h][p].code) => IsFinal(plus'[m][h][p].code)

(* The requests about a message go on as they were, or are gone with the   *)
(* process.                                                                *)
RequestsStay(m) ==
  /\ canceller'[m] \in {canceller[m], NoCancel} /\ poller'[m] \in {poller[m], NoPoll}

(* What a step leaves of a message it is not about. *)
Untouched(m) ==
  /\ status'[m] = status[m] /\ miIds'[m] = miIds[m] /\ jobs'[m] = jobs[m]
  /\ reports'[m] = reports[m] /\ lost'[m] \in {lost[m], lost[m] + 1}
  /\ DOMAIN plus'[m] = DOMAIN plus[m] /\ PartsStay(m) /\ RequestsStay(m)

(* A part that has not ended moves on. *)
MovesOn(m, h, p) ==
  /\ ~IsFinal(plus[m][h][p].code)
  /\ \E c \in Codes : plus' = [plus EXCEPT ![m][h][p].code = c]

(* Stopping a part, or its moving on, takes nothing back. *)
LEMMA PartsMove ==
  ASSUME TypeOK, NEW m \in Msgs, NEW h, NEW p \in Parts, NEW o \in Msgs,
         UNCHANGED plus \/ MarkCancelled(m, h, p) \/ MovesOn(m, h, p)
  PROVE  DOMAIN plus'[o] = DOMAIN plus[o] /\ PartsStay(o)
<1>1. plus \in [Msgs -> Seq([Parts -> Part])]
  BY DEF TypeOK
<1> DEFINE e == [plus[m][h][p] EXCEPT !.cancelled = TRUE]
           f(c) == [plus[m][h][p] EXCEPT !.code = c]
<1>2. CASE UNCHANGED plus
  BY <1>2 DEF PartsStay
<1>3. ASSUME NEW g, plus' = [plus EXCEPT ![m][h][p] = g],
             \A i \in DOMAIN plus[m] : i = h =>
               /\ Stopped(plus[m][h][p]) => Stopped(g)
               /\ IsFinal(plus[m][h][p].code) => IsFinal(g.code)
      PROVE  DOMAIN plus'[o] = DOMAIN plus[o] /\ PartsStay(o)
  <2>1. DOMAIN plus'[o] = DOMAIN plus[o]
    BY <1>1, <1>3
  <2>2. ASSUME NEW i \in DOMAIN plus[o], NEW q \in Parts
        PROVE  \/ plus'[o][i][q] = plus[o][i][q]
               \/ o = m /\ i = h /\ q = p /\ plus'[o][i][q] = g
    <3>1. plus[o] \in Seq([Parts -> Part])
      BY <1>1
    <3>2. plus[o][i] \in [Parts -> Part]
      BY <2>2, <3>1
    <3>3. QED
      BY <1>1, <1>3, <2>2, <3>2
  <2>3. QED
    BY <1>3, <2>1, <2>2 DEF PartsStay
<1>4. h \in DOMAIN plus[m] => plus[m][h][p] \in Part
  <2>1. plus[m] \in Seq([Parts -> Part])
    BY <1>1
  <2>2. QED
    BY <2>1
<1>5. CASE MarkCancelled(m, h, p)
  <2>1. plus' = [plus EXCEPT ![m][h][p] = e]
    BY <1>5 DEF MarkCancelled
  <2>2. h \in DOMAIN plus[m] => Stopped(e) /\ (IsFinal(plus[m][h][p].code) => IsFinal(e.code))
    BY <1>4 DEF Part, Stopped
  <2> HIDE DEF e
  <2>3. QED
    BY <1>3, <2>1, <2>2
<1>6. ASSUME NEW c \in Codes, ~IsFinal(plus[m][h][p].code),
             plus' = [plus EXCEPT ![m][h][p].code = c]
      PROVE  DOMAIN plus'[o] = DOMAIN plus[o] /\ PartsStay(o)
  <2>1. plus' = [plus EXCEPT ![m][h][p] = f(c)]
    BY <1>6
  <2>2. h \in DOMAIN plus[m] => /\ Stopped(plus[m][h][p]) => Stopped(f(c))
                                /\ IsFinal(plus[m][h][p].code) => IsFinal(f(c).code)
    BY <1>4, <1>6 DEF Part, Stopped
  <2> HIDE DEF f
  <2>3. QED
    BY <1>3, <2>1, <2>2
<1>7. QED
  BY <1>2, <1>5, <1>6 DEF MovesOn

(* The parts a request is done with are parts of the message. *)
LEMMA PartsBefore ==
  ASSUME TypeOK, NEW m \in Msgs
  PROVE  /\ 1..canceller[m].part - 1 \subseteq Parts /\ 1..poller[m].part - 1 \subseteq Parts
         /\ canceller[m].part \in 1..NParts + 1 /\ poller[m].part \in 1..NParts + 1
<1>1. canceller[m].part \in 1..NParts + 1 /\ poller[m].part \in 1..NParts + 1
  BY DEF TypeOK, Canceller, Poller
<1>2. QED
  BY <1>1, PartsAssumption DEF Parts

(* Requests that only go on, or are gone, stay right. *)
LEMMA RequestsKeep ==
  ASSUME TypeOK, NEW m \in Msgs, Good(m), CancelSoFar(m), SeenSoFar(m),
         PartsStay(m), RequestsStay(m), status[m] # "absent" => status'[m] # "absent",
         miIds'[m] = miIds[m] \/ jobs[m] = {"send"}
  PROVE  CancelSoFar(m)' /\ SeenSoFar(m)'
<1>1. CancelSoFar(m)'
  <2>1. CASE canceller'[m] = NoCancel
    BY <2>1 DEF CancelSoFar, NoCancel
  <2>2. CASE canceller'[m] = canceller[m]
    BY <2>2, PartsBefore DEF CancelSoFar, PartsStay
  <2>3. QED
    BY <2>1, <2>2 DEF RequestsStay
<1>2. SeenSoFar(m)'
  <2>1. CASE poller'[m] = NoPoll
    BY <2>1 DEF SeenSoFar, NoPoll
  <2>2. CASE poller'[m] = poller[m] /\ poller[m].pc = "idle"
    BY <2>2 DEF SeenSoFar
  <2>3. CASE poller'[m] = poller[m] /\ poller[m].pc # "idle"
    <3>1. jobs[m] = {"poll"} /\ {"poll"} # {"send"}
      BY <2>3 DEF Good
    <3>2. miIds'[m] = miIds[m] /\ miIds[m] \in DOMAIN plus[m]
      <4>1. miIds[m] # 0 /\ miIds[m] <= Len(plus[m]) /\ miIds'[m] = miIds[m]
        BY <3>1 DEF Good, HandoverNamed
      <4>2. plus[m] \in Seq([Parts -> Part]) /\ miIds[m] \in Nat
        BY DEF TypeOK
      <4>3. QED
        BY <4>1, <4>2
    <3>3. QED
      BY <2>3, <3>2, PartsBefore DEF SeenSoFar, PartsStay
  <2>4. QED
    BY <2>1, <2>2, <2>3 DEF RequestsStay
<1>3. QED
  BY <1>1, <1>2

(* A message a step is not about keeps its part of the second invariant. *)
LEMMA UntouchedOutcome ==
  ASSUME TypeOK, NEW m \in Msgs, Good(m), OutcomeOK(m), Untouched(m)
  PROVE  OutcomeOK(m)'
<1>1. CancelSoFar(m)' /\ SeenSoFar(m)'
  BY RequestsKeep DEF OutcomeOK, Untouched
<1>2. EndsNamed(m)' /\ ReportStands(m)'
  BY DEF OutcomeOK, Untouched, EndsNamed, ReportStands
<1>3. Withdrawn(m)'
  <2>1. lost'[m] = 0 => lost[m] = 0
    BY CountsType DEF CountsTyped, Untouched
  <2>2. QED
    BY <2>1 DEF OutcomeOK, Untouched, Withdrawn, PartsStay
<1>4. QED
  BY <1>1, <1>2, <1>3 DEF OutcomeOK

(* The closing writes touch the requests of a message, and what was lost   *)
(* of it, only by ending the process.                                      *)
LEMMA CloseLeaves ==
  ASSUME TypeOK, NEW m \in Msgs, NEW n, NEW all, Close(m, n, all), NEW o \in Msgs
  PROVE  RequestsStay(o) /\ lost'[o] \in {lost[o], lost[o] + 1}
<1>1. CASE n = all
  BY <1>1 DEF Close, RequestsStay, TypeOK
<1>2. CASE n # all
  BY <1>2 DEF Close, Die, RequestsStay
<1>3. QED
  BY <1>1, <1>2

(* A report is the last one. *)
LEMMA ReportedLast ==
  ASSUME TypeOK, NEW m \in Msgs, NEW s \in GatewayStatus, Report(m, s)
  PROVE  reports'[m] # <<>> /\ reports'[m][Len(reports'[m])] = s
<1>1. reports[m] \in Seq(GatewayStatus) /\ reports'[m] = Append(reports[m], s)
  BY DEF TypeOK, Report
<1>2. QED
  BY <1>1

(* A message that has no final report has none as its last. *)
LEMMA NotReported ==
  ASSUME TypeOK, NEW m \in Msgs, ~HasFinalReport(m)
  PROVE  reports[m] # <<>> => reports[m][Len(reports[m])] \notin Closed
<1>1. reports[m] \in Seq(GatewayStatus)
  BY DEF TypeOK
<1>2. reports[m] # <<>> => Len(reports[m]) \in 1..Len(reports[m])
  BY <1>1
<1>3. QED
  BY <1>2 DEF HasFinalReport

(* A handler that ends its message in failure, or settles it, has told the *)
(* truth about it, if anything.                                            *)
LEMMA ToldTruly ==
  ASSUME TypeOK, NEW m \in Msgs, Good(m), jobs[m] # {}, NEW s \in GatewayStatus,
         \/ UNCHANGED reports
         \/ Report(m, s) /\ (s \in Closed => status'[m] = s)
  PROVE  ReportStands(m)'
<1>1. ~HasFinalReport(m)
  BY DEF Good, JobsAgreeWithRow
<1>2. QED
  BY <1>1, NotReported, ReportedLast DEF ReportStands

(* Ending a message in failure keeps the second invariant: what ended is   *)
(* not a cancellation.                                                     *)
LEMMA EndInFailureOutcome ==
  ASSUME TypeOK, \A o \in Msgs : Good(o) /\ OutcomeOK(o), NEW m \in Msgs, NEW type \in jobs[m],
         NEW s \in {"failed", "expired"}, NEW n, EndInFailure(m, type, s, n)
  PROVE  \A o \in Msgs : OutcomeOK(o)'
<1> USE DEF world
<1>1. ASSUME NEW o \in Msgs \ {m}
      PROVE  OutcomeOK(o)'
  <2>1. DOMAIN plus'[o] = DOMAIN plus[o] /\ PartsStay(o)
    BY DEF EndInFailure, PartsStay
  <2>2. RequestsStay(o) /\ lost'[o] \in {lost[o], lost[o] + 1}
    BY CloseLeaves DEF EndInFailure
  <2>3. Untouched(o)
    BY <2>1, <2>2 DEF EndInFailure, SetStatus, Complete, Report, Untouched, TypeOK
  <2>4. QED
    BY <2>3, UntouchedOutcome
<1>2. status'[m] = s /\ s \in Closed /\ s # "cancelled" /\ s # "absent" /\ s \in GatewayStatus
  BY DEF EndInFailure, SetStatus, TypeOK, Closed, FailureStatuses, GatewayStatus
<1>3. CancelSoFar(m)' /\ SeenSoFar(m)'
  <2>1. PartsStay(m) /\ RequestsStay(m)
    BY CloseLeaves DEF EndInFailure, PartsStay
  <2>2. QED
    BY <1>2, <2>1, RequestsKeep DEF EndInFailure, OutcomeOK
<1>4. ReportStands(m)'
  BY <1>2, ToldTruly DEF EndInFailure
<1>5. EndsNamed(m)' /\ Withdrawn(m)'
  BY <1>2 DEF EndsNamed, Withdrawn
<1>6. OutcomeOK(m)'
  BY <1>3, <1>4, <1>5 DEF OutcomeOK
<1>7. QED
  BY <1>1, <1>6

(* Every step of the send job keeps the second invariant: a message that   *)
(* leaves it without being closed has identifiers and was not cancelled, a *)
(* poll job, or a lost hand-over.                                          *)
LEMMA SendOutcome ==
  ASSUME TypeOK, \A o \in Msgs : Good(o) /\ OutcomeOK(o), NEW m \in Msgs, SendStep(m)
  PROVE  \A o \in Msgs : OutcomeOK(o)'
<1> USE DEF table, running, world, history
<1> Good(m) /\ OutcomeOK(m) /\ CountsTyped(m)
  BY CountsType
<1>0. jobs[m] = {"send"} /\ status[m] # "absent"
  <2>1. "send" \in jobs[m]
    BY DEF SendStep, DropCancelledSend, BeginSend, MultiinfoAccepts, BeginWithdraw, WithdrawPart,
           SendRetry, SendCertificate, SendSucceeds, WithdrawRefused, SendFails, WithdrawDone, Good
  <2>2. QED
    BY <2>1, OneJob, JobKnown
(* A step that leaves the job, the status and the reports. *)
<1>1. ASSUME UNCHANGED <<status, jobs, reports, canceller, poller>>,
             \A o \in Msgs : PartsStay(o),
             \A o \in Msgs \ {m} : /\ DOMAIN plus'[o] = DOMAIN plus[o]
                                   /\ miIds'[o] = miIds[o] /\ lost'[o] \in {lost[o], lost[o] + 1}
      PROVE  \A o \in Msgs : OutcomeOK(o)'
  <2>1. \A o \in Msgs : RequestsStay(o)
    BY <1>1 DEF RequestsStay
  <2>2. ASSUME NEW o \in Msgs \ {m}
        PROVE  OutcomeOK(o)'
    BY <1>1, <2>1, UntouchedOutcome DEF Untouched
  <2>3. CancelSoFar(m)' /\ SeenSoFar(m)'
    BY <1>0, <1>1, <2>1, RequestsKeep DEF OutcomeOK
  <2>4. EndsNamed(m)' /\ ReportStands(m)' /\ Withdrawn(m)'
    BY <1>0, <1>1 DEF OutcomeOK, EndsNamed, ReportStands, Withdrawn
  <2>5. QED
    BY <2>2, <2>3, <2>4 DEF OutcomeOK
(* A step that ends the job and does not fail the message. *)
<1>2. ASSUME NEW n, NEW all, Close(m, n, all), \A o \in Msgs : PartsStay(o),
             \A o \in Msgs \ {m} : SameRow(o) /\ DOMAIN plus'[o] = DOMAIN plus[o],
             miIds'[m] # 0, status'[m] # "absent",
             Report(m, "sent") \/ UNCHANGED reports,
             status'[m] = "sent" \/ jobs'[m] # {} \/ lost'[m] # 0
      PROVE  \A o \in Msgs : OutcomeOK(o)'
  <2>1. \A o \in Msgs : RequestsStay(o) /\ lost'[o] \in {lost[o], lost[o] + 1}
    BY <1>2, CloseLeaves
  <2>2. ASSUME NEW o \in Msgs \ {m}
        PROVE  OutcomeOK(o)'
    <3>1. Untouched(o)
      BY <1>2, <2>1 DEF Untouched, SameRow
    <3>2. QED
      BY <3>1, UntouchedOutcome
  <2>3. CancelSoFar(m)' /\ SeenSoFar(m)'
    BY <1>0, <1>2, <2>1, RequestsKeep DEF OutcomeOK
  <2>4. "sent" \in GatewayStatus /\ "sent" \notin Closed
    BY DEF GatewayStatus, Closed, FailureStatuses
  <2>5. ReportStands(m)'
    BY <1>0, <1>2, <2>4, ToldTruly
  <2>6. EndsNamed(m)' /\ Withdrawn(m)'
    BY <1>2 DEF EndsNamed, Withdrawn
  <2>7. QED
    BY <2>2, <2>3, <2>5, <2>6 DEF OutcomeOK
<1>3. CASE DropCancelledSend(m)
  <2>1. ASSUME NEW o \in Msgs
        PROVE  DOMAIN plus'[o] = DOMAIN plus[o] /\ PartsStay(o) /\ RequestsStay(o)
    BY <1>3 DEF DropCancelledSend, PartsStay, RequestsStay
  <2>2. ASSUME NEW o \in Msgs \ {m}
        PROVE  OutcomeOK(o)'
    <3>1. Untouched(o)
      BY <1>3, <2>1 DEF DropCancelledSend, Complete, Untouched, TypeOK
    <3>2. QED
      BY <3>1, UntouchedOutcome
  <2>3. CancelSoFar(m)' /\ SeenSoFar(m)'
    BY <1>3, <2>1, RequestsKeep DEF DropCancelledSend, OutcomeOK
  <2>4. EndsNamed(m)' /\ ReportStands(m)'
    BY <1>3 DEF DropCancelledSend, OutcomeOK, EndsNamed, ReportStands, Closed, FailureStatuses
  <2>5. Withdrawn(m)'
    <3>1. Len(plus[m]) = lost[m]
      BY <1>0, <1>3 DEF DropCancelledSend, Good, HandoversCounted, Unrecorded
    <3>2. lost[m] = 0 => DOMAIN plus[m] = {}
      <4>1. plus[m] \in Seq([Parts -> Part])
        BY DEF TypeOK
      <4>2. QED
        BY <3>1, <4>1
    <3>3. QED
      BY <1>3, <3>2 DEF DropCancelledSend, Withdrawn
  <2>6. QED
    BY <2>2, <2>3, <2>4, <2>5 DEF OutcomeOK
<1>4. CASE BeginSend(m) \/ SendCertificate(m)
  BY <1>1, <1>4 DEF BeginSend, SendCertificate, PartsStay
<1>5. CASE MultiinfoAccepts(m)
  <2> DEFINE S == [Parts -> Part]
             e == [p \in Parts |-> [code |-> FirstCode, cancelled |-> FALSE]]
  <2>1. plus[m] \in Seq(S) /\ e \in S /\ plus'[m] = Append(plus[m], e)
    BY <1>5, CodesAssumption DEF TypeOK, Part, MultiinfoAccepts
  <2>2. \A h \in DOMAIN plus[m] : h \in DOMAIN plus'[m] /\ plus'[m][h] = plus[m][h]
    <3> HIDE DEF S, e
    <3>1. QED
      BY <2>1
  <2>3. \A o \in Msgs \ {m} : plus'[o] = plus[o]
    BY <1>5 DEF MultiinfoAccepts, TypeOK
  <2>4. \A o \in Msgs : PartsStay(o)
    BY <2>2, <2>3 DEF PartsStay
  <2>5. QED
    BY <1>1, <1>5, <2>3, <2>4 DEF MultiinfoAccepts
<1>6. CASE BeginWithdraw(m)
  BY <1>1, <1>6 DEF BeginWithdraw, SetSent, PartsStay, TypeOK
<1>7. CASE WithdrawPart(m)
  <2>1. \A o \in Msgs : DOMAIN plus'[o] = DOMAIN plus[o] /\ PartsStay(o)
    BY <1>7, PartsMove DEF WithdrawPart
  <2>2. QED
    BY <1>1, <1>7, <2>1 DEF WithdrawPart
<1>8. CASE SendRetry(m)
  <2>1. \A o \in Msgs : PartsStay(o)
    BY <1>8 DEF SendRetry, PartsStay
  <2>2. \A o \in Msgs \ {m} : lost'[o] = lost[o]
    BY <1>8 DEF SendRetry, TypeOK
  <2>3. QED
    BY <1>1, <1>8, <2>1, <2>2 DEF SendRetry
<1>9. ASSUME NEW n \in 1..4, SendSucceeds(m, n)
      PROVE  \A o \in Msgs : OutcomeOK(o)'
  <2>1. \A o \in Msgs \ {m} : SameRow(o)
    BY <1>9 DEF SendSucceeds, SetSent, SetStatus, SendToPoll, Report, Close, SameRow, TypeOK
  <2>2. miIds'[m] # 0 /\ status'[m] = "sent"
    <3>1. miIds'[m] = Len(plus[m]) /\ sender[m].pc = "accepted" /\ status'[m] = "sent"
      BY <1>9 DEF SendSucceeds, SetSent, SetStatus, TypeOK
    <3>2. QED
      BY <3>1 DEF Good, HandoverNamed
  <2>3. \A o \in Msgs : PartsStay(o) /\ DOMAIN plus'[o] = DOMAIN plus[o]
    BY <1>9 DEF SendSucceeds, PartsStay
  <2>4. Close(m, n, 4) /\ (Report(m, "sent") \/ UNCHANGED reports)
    BY <1>9 DEF SendSucceeds
  <2>5. QED
    BY <1>2, <2>1, <2>2, <2>3, <2>4
<1>10. ASSUME NEW n \in 1..4, WithdrawRefused(m, n)
       PROVE  \A o \in Msgs : OutcomeOK(o)'
  <2>0. \A o \in Msgs : DOMAIN plus'[o] = DOMAIN plus[o] /\ PartsStay(o)
    BY <1>10, PartsMove DEF WithdrawRefused
  <2>1. \A o \in Msgs : Len(plus'[o]) = Len(plus[o])
    BY <1>10, PlusType DEF WithdrawRefused
  <2>2. \A o \in Msgs \ {m} : SameRow(o)
    BY <1>10, <2>1 DEF WithdrawRefused, SetStatus, SendToPoll, Report, Close, SameRow, TypeOK
  <2>3. miIds'[m] # 0 /\ status'[m] = "sent"
    BY <1>10 DEF WithdrawRefused, SetStatus, TypeOK, Good, HandoverNamed
  <2>4. Close(m, n, 4) /\ (Report(m, "sent") \/ UNCHANGED reports)
    BY <1>10 DEF WithdrawRefused
  <2>5. QED
    BY <1>2, <2>0, <2>2, <2>3, <2>4
<1>11. ASSUME NEW n \in 1..3, SendFails(m, n)
       PROVE  \A o \in Msgs : OutcomeOK(o)'
  BY <1>0, <1>11, EndInFailureOutcome DEF SendFails
<1>12. ASSUME NEW n \in 1..2, WithdrawDone(m, n)
       PROVE  \A o \in Msgs : OutcomeOK(o)'
  <2>1. \A o \in Msgs \ {m} : SameRow(o)
    BY <1>12 DEF WithdrawDone, SendToPoll, Close, SameRow, TypeOK
  <2>2. miIds'[m] # 0 /\ status'[m] # "absent"
    BY <1>0, <1>12 DEF WithdrawDone, Good, HandoverNamed
  <2>3. \A o \in Msgs : PartsStay(o) /\ DOMAIN plus'[o] = DOMAIN plus[o]
    BY <1>12 DEF WithdrawDone, PartsStay
  <2>4. Close(m, n, 2) /\ reports' = reports
    BY <1>12 DEF WithdrawDone
  <2>5. CASE n = 2
    <3>1. jobs'[m] # {}
      BY <1>12, <2>5 DEF WithdrawDone, SendToPoll, TypeOK
    <3>2. QED
      BY <1>2, <2>1, <2>2, <2>3, <2>4, <3>1
  <2>6. CASE n # 2
    <3>1. lost'[m] = lost[m] + 1
      BY <1>12, <2>6 DEF WithdrawDone, Close, Die, Unrecorded
    <3>2. lost'[m] # 0
      BY <3>1 DEF CountsTyped
    <3>3. QED
      BY <1>2, <2>1, <2>2, <2>3, <2>4, <3>2
  <2>7. QED
    BY <2>5, <2>6
<1>13. QED
  BY <1>3, <1>4, <1>5, <1>6, <1>7, <1>8, <1>9, <1>10, <1>11, <1>12 DEF SendStep

(* A message of which nothing was lost was handed over once at most. *)
LEMMA HandedOverOnce ==
  ASSUME TypeOK, NEW m \in Msgs, Good(m), lost[m] = 0, NEW h \in DOMAIN plus[m]
  PROVE  h = 1
<1>1. plus[m] \in Seq([Parts -> Part]) /\ Len(plus[m]) <= 1
  BY DEF TypeOK, Good
<1>2. QED
  BY <1>1

(* A poll that settles its message as cancelled has seen every part end.   *)
LEMMA SettledStopped ==
  ASSUME TypeOK, NEW m \in Msgs, Good(m), OutcomeOK(m), Answered(m), AllFinal(Seen(m)),
         lost[m] = 0
  PROVE  \A h \in DOMAIN plus[m], p \in Parts : Stopped(plus[m][h][p])
<1>1. jobs[m] = {"poll"} /\ miIds[m] # 0 /\ miIds[m] <= Len(plus[m])
  BY DEF Answered, Good, HandoverNamed
<1>2. plus[m] \in Seq([Parts -> Part]) /\ miIds[m] \in Nat
  BY DEF TypeOK
<1>3. miIds[m] \in DOMAIN plus[m]
  BY <1>1, <1>2
<1>4. ASSUME NEW h \in DOMAIN plus[m], NEW p \in Parts
      PROVE  Stopped(plus[m][h][p])
  <2>1. h = miIds[m]
    BY <1>3, HandedOverOnce
  <2>2. p \in 1..poller[m].part - 1
    BY PartsAssumption DEF Answered, Parts
  <2>3. IsFinal(poller[m].seen[p])
    BY DEF AllFinal, Seen
  <2>4. IsFinal(plus[m][h][p].code)
    BY <2>1, <2>2, <2>3 DEF OutcomeOK, SeenSoFar
  <2>5. QED
    BY <2>4 DEF Stopped
<1>5. QED
  BY <1>4

(* Every step of the poll job keeps the second invariant. *)
LEMMA PollOutcome ==
  ASSUME TypeOK, TypeOK', \A o \in Msgs : Good(o) /\ OutcomeOK(o), NEW m \in Msgs, PollStep(m)
  PROVE  \A o \in Msgs : OutcomeOK(o)'
<1> USE DEF table, running, world, history
<1> Good(m) /\ OutcomeOK(m) /\ CountsTyped(m)
  BY CountsType
<1>0. jobs[m] = {"poll"} /\ status[m] # "absent"
  <2>1. "poll" \in jobs[m]
    BY DEF PollStep, BeginPoll, InfoAnswers, InfoFails, PollAgain, PollExpires, PollGivesUp,
           PollSettles, Answered, Good
  <2>2. QED
    BY <2>1, OneJob, JobKnown
(* A step that leaves all but the status and what the poll has seen. *)
<1>1. ASSUME UNCHANGED <<miIds, jobs, plus, reports, lost, canceller>>, SeenSoFar(m)',
             \A o \in Msgs \ {m} : status'[o] = status[o] /\ poller'[o] = poller[o],
             status'[m] # "absent"
      PROVE  \A o \in Msgs : OutcomeOK(o)'
  <2>1. ASSUME NEW o \in Msgs \ {m}
        PROVE  OutcomeOK(o)'
    <3>1. Untouched(o)
      BY <1>1 DEF Untouched, RequestsStay, PartsStay
    <3>2. QED
      BY <3>1, UntouchedOutcome
  <2>2. CancelSoFar(m)' /\ EndsNamed(m)' /\ Withdrawn(m)'
    BY <1>0, <1>1 DEF OutcomeOK, CancelSoFar, EndsNamed, Withdrawn
  <2>3. ReportStands(m)'
    BY <1>0, <1>1, ToldTruly DEF GatewayStatus
  <2>4. QED
    BY <1>1, <2>1, <2>2, <2>3 DEF OutcomeOK
<1>2. CASE BeginPoll(m)
  <2>1. /\ poller'[m].part = 1 /\ poller'[m].pc = "info"
        /\ \A o \in Msgs \ {m} : poller'[o] = poller[o]
    BY <1>2 DEF BeginPoll, TypeOK, Poller, OutcomeOK, SeenSoFar
  <2>2. SeenSoFar(m)'
    BY <2>1 DEF SeenSoFar
  <2>3. QED
    BY <1>0, <1>1, <1>2, <2>1, <2>2 DEF BeginPoll
<1>3. CASE InfoAnswers(m)
  <2> DEFINE p == poller[m].part
             c == plus[m][miIds[m]][p].code
  <2>1. p \in Parts /\ poller[m] \in Poller /\ poller[m].seen \in [Parts -> Codes]
    BY <1>3 DEF InfoAnswers, TypeOK, Poller
  <2>2. /\ poller'[m].part = p + 1 /\ poller'[m].pc = "info"
        /\ poller'[m].seen = [poller[m].seen EXCEPT ![p] = c]
    BY <1>3, <2>1 DEF InfoAnswers, TypeOK, Poller
  <2>3. \A o \in Msgs \ {m} : poller'[o] = poller[o]
    BY <1>3 DEF InfoAnswers, TypeOK
  <2>4. SeenSoFar(m)'
    <3>1. ASSUME NEW q \in 1..p, IsFinal(poller'[m].seen[q])
          PROVE  IsFinal(plus[m][miIds[m]][q].code)
      <4>1. CASE q = p
        BY <2>1, <2>2, <3>1, <4>1
      <4>2. CASE q # p
        <5>1. q \in Parts /\ q \in 1..p - 1
          BY <2>1, <4>2, PartsAssumption DEF Parts
        <5>2. poller'[m].seen[q] = poller[m].seen[q]
          BY <2>1, <2>2, <4>2, <5>1
        <5>3. QED
          BY <3>1, <5>1, <5>2 DEF OutcomeOK, SeenSoFar
      <4>3. QED
        BY <4>1, <4>2
    <3>2. UNCHANGED <<plus, miIds>> /\ 1..poller'[m].part - 1 = 1..p
      BY <1>3, <2>1, <2>2, PartsAssumption DEF InfoAnswers, Parts
    <3>3. QED
      BY <2>2, <3>1, <3>2 DEF SeenSoFar
  <2>5. QED
    BY <1>0, <1>1, <1>3, <2>3, <2>4 DEF InfoAnswers
<1>4. CASE InfoFails(m)
  <2>1. poller'[m] = NoPoll /\ \A o \in Msgs \ {m} : poller'[o] = poller[o]
    BY <1>4 DEF InfoFails, TypeOK
  <2>2. SeenSoFar(m)'
    BY <2>1 DEF SeenSoFar, NoPoll
  <2>3. QED
    BY <1>0, <1>1, <1>4, <2>1, <2>2 DEF InfoFails
<1>5. CASE PollAgain(m)
  <2>1. /\ poller'[m] = NoPoll
        /\ \A o \in Msgs \ {m} : poller'[o] = poller[o] /\ status'[o] = status[o]
    BY <1>5 DEF PollAgain, SetStatus, TypeOK
  <2>2. SeenSoFar(m)'
    BY <2>1 DEF SeenSoFar, NoPoll
  <2>3. Verdict(Seen(m)) # "absent"
    BY VerdictType DEF GatewayStatus
  <2>4. status'[m] # "absent"
    BY <1>0, <1>5, <2>3 DEF PollAgain, SetStatus, TypeOK
  <2>5. QED
    BY <1>0, <1>1, <1>5, <2>1, <2>2, <2>4 DEF PollAgain
<1>6. ASSUME NEW n \in 1..3, PollExpires(m, n) \/ PollGivesUp(m, n)
      PROVE  \A o \in Msgs : OutcomeOK(o)'
  BY <1>0, <1>6, EndInFailureOutcome DEF PollExpires, PollGivesUp
<1>7. ASSUME NEW n \in 1..3, PollSettles(m, n)
      PROVE  \A o \in Msgs : OutcomeOK(o)'
  <2> DEFINE verdict == Verdict(Seen(m))
  <2>1. verdict \in GatewayStatus /\ verdict # "absent"
    BY VerdictType DEF GatewayStatus
  <2> HIDE DEF verdict
  <2>2. status'[m] = verdict /\ miIds' = miIds /\ plus' = plus
    BY <1>7 DEF PollSettles, SetStatus, TypeOK, verdict
  <2>3. \A o \in Msgs : /\ DOMAIN plus'[o] = DOMAIN plus[o] /\ PartsStay(o) /\ RequestsStay(o)
                        /\ lost'[o] \in {lost[o], lost[o] + 1}
    BY <1>7, CloseLeaves DEF PollSettles, PartsStay
  <2>4. ASSUME NEW o \in Msgs \ {m}
        PROVE  OutcomeOK(o)'
    <3>1. Untouched(o)
      BY <1>7, <2>3 DEF PollSettles, SetStatus, Complete, Report, Untouched, TypeOK
    <3>2. QED
      BY <3>1, UntouchedOutcome
  <2>5. CancelSoFar(m)' /\ SeenSoFar(m)'
    BY <2>1, <2>2, <2>3, RequestsKeep DEF OutcomeOK
  <2>6. ReportStands(m)'
    <3>1. UNCHANGED reports \/ Report(m, verdict)
      BY <1>7 DEF PollSettles, verdict
    <3>2. QED
      BY <1>0, <2>1, <2>2, <3>1, ToldTruly
  <2>7. EndsNamed(m)'
    BY <1>0, <2>2 DEF EndsNamed, Good, HandoverNamed
  <2>8. Withdrawn(m)'
    <3>1. lost'[m] = 0 => lost[m] = 0
      BY <2>3 DEF CountsTyped
    <3>2. lost[m] = 0 => \A h \in DOMAIN plus[m], p \in Parts : Stopped(plus[m][h][p])
      BY <1>7, SettledStopped DEF PollSettles
    <3>3. QED
      BY <2>2, <3>1, <3>2 DEF Withdrawn
  <2>9. QED
    BY <2>4, <2>5, <2>6, <2>7, <2>8 DEF OutcomeOK
<1>8. QED
  BY <1>2, <1>3, <1>4, <1>5, <1>6, <1>7 DEF PollStep

(* Every step of a cancel request keeps the second invariant: it calls the *)
(* message cancelled when Multiinfo has stopped every part, or never had   *)
(* any.                                                                    *)
LEMMA CancelOutcome ==
  ASSUME TypeOK, \A o \in Msgs : Good(o) /\ OutcomeOK(o), NEW m \in Msgs, CancelStep(m)
  PROVE  \A o \in Msgs : OutcomeOK(o)'
<1> USE DEF table, running, world, history
<1> Good(m) /\ OutcomeOK(m) /\ CountsTyped(m)
  BY CountsType
<1>1. ASSUME NEW o \in Msgs \ {m}
      PROVE  OutcomeOK(o)'
  <2>1. DOMAIN plus'[o] = DOMAIN plus[o] /\ PartsStay(o)
    <3>1. CASE CancelPart(m) \/ CancelRefused(m)
      BY <3>1, PartsMove DEF CancelPart, CancelRefused
    <3>2. CASE UNCHANGED plus
      BY <3>2 DEF PartsStay
    <3>3. QED
      BY <3>1, <3>2 DEF CancelStep, CancelLocally, BeginCancel, CancelDone
  <2>2. Untouched(o)
    BY <2>1 DEF CancelStep, CancelLocally, BeginCancel, CancelPart, CancelRefused, CancelDone,
                SetStatus, Untouched, RequestsStay, TypeOK
  <2>3. QED
    BY <2>2, UntouchedOutcome
<1>2. CASE CancelLocally(m) \/ CancelDone(m)
  <2>1. /\ status'[m] = "cancelled" /\ "cancelled" \in Closed
        /\ canceller'[m] \in {canceller[m], NoCancel}
        /\ UNCHANGED <<miIds, jobs, poller, plus, reports, lost>>
    BY <1>2 DEF CancelLocally, CancelDone, SetStatus, TypeOK, Closed, FailureStatuses
  <2>2. CancelSoFar(m)' /\ SeenSoFar(m)'
    BY <2>1, RequestsKeep DEF OutcomeOK, RequestsStay, PartsStay
  <2>3. EndsNamed(m)' /\ ReportStands(m)'
    BY <2>1 DEF OutcomeOK, EndsNamed, ReportStands
  <2>4. Withdrawn(m)'
    <3>1. CASE jobs[m] = {} /\ lost[m] = 0 /\ CancelLocally(m)
      BY <3>1 DEF CancelLocally, OutcomeOK, EndsNamed
    <3>2. CASE lost[m] = 0 /\ CancelDone(m)
      <4>1. /\ canceller[m].handover \in DOMAIN plus[m]
            /\ \A p \in Parts : Stopped(plus[m][canceller[m].handover][p])
        BY <3>2, PartsAssumption DEF CancelDone, OutcomeOK, CancelSoFar, Parts
      <4>2. \A h \in DOMAIN plus[m] : h = canceller[m].handover
        BY <3>2, <4>1, HandedOverOnce
      <4>3. QED
        BY <2>1, <4>1, <4>2 DEF Withdrawn
    <3>3. QED
      BY <1>2, <2>1, <3>1, <3>2 DEF Withdrawn
  <2>5. QED
    BY <1>1, <2>2, <2>3, <2>4 DEF OutcomeOK
<1>3. CASE BeginCancel(m)
  <2>1. /\ canceller'[m].part = 1 /\ canceller'[m].handover = miIds[m] /\ canceller'[m].pc = "cancel"
        /\ UNCHANGED <<status, miIds, jobs, poller, plus, reports, lost>>
    BY <1>3 DEF BeginCancel, TypeOK, Canceller, OutcomeOK, CancelSoFar
  <2>2. miIds[m] \in DOMAIN plus[m]
    <3>1. plus[m] \in Seq([Parts -> Part]) /\ miIds[m] \in Nat /\ miIds[m] # 0
          /\ miIds[m] <= Len(plus[m])
      BY <1>3 DEF BeginCancel, TypeOK, Good, HandoverNamed
    <3>2. QED
      BY <3>1
  <2>3. CancelSoFar(m)'
    <3>1. status'[m] # "absent" /\ canceller'[m].handover \in DOMAIN plus'[m]
      BY <1>3, <2>1, <2>2 DEF BeginCancel
    <3>2. 1..canceller'[m].part - 1 = {}
      BY <2>1
    <3>3. QED
      BY <2>1, <3>1, <3>2 DEF CancelSoFar
  <2>4. EndsNamed(m)' /\ SeenSoFar(m)' /\ ReportStands(m)' /\ Withdrawn(m)'
    BY <2>1 DEF OutcomeOK, EndsNamed, SeenSoFar, ReportStands, Withdrawn
  <2>5. QED
    BY <1>1, <2>3, <2>4 DEF OutcomeOK
<1>4. CASE CancelPart(m) \/ CancelRefused(m)
  <2>1. DOMAIN plus'[m] = DOMAIN plus[m] /\ PartsStay(m)
    BY <1>4, PartsMove DEF CancelPart, CancelRefused
  <2>2. UNCHANGED <<status, miIds, jobs, poller, reports, lost>>
    BY <1>4 DEF CancelPart, CancelRefused
  <2>3. EndsNamed(m)' /\ ReportStands(m)' /\ Withdrawn(m)'
    BY <2>1, <2>2 DEF OutcomeOK, EndsNamed, ReportStands, Withdrawn, PartsStay
  <2>4. SeenSoFar(m)'
    <3>1. CASE poller[m].pc = "idle"
      BY <2>2, <3>1 DEF OutcomeOK, SeenSoFar
    <3>2. CASE poller[m].pc # "idle"
      <4>1. plus[m] \in Seq([Parts -> Part]) /\ miIds[m] \in Nat
        BY DEF TypeOK
      <4>2. miIds[m] # 0 /\ miIds[m] <= Len(plus[m])
        BY <3>2 DEF Good, HandoverNamed
      <4>3. miIds[m] \in DOMAIN plus[m]
        BY <4>1, <4>2
      <4>4. QED
        BY <2>1, <2>2, <4>3, PartsBefore DEF OutcomeOK, SeenSoFar, PartsStay
    <3>3. QED
      BY <3>1, <3>2
  <2>5. CancelSoFar(m)'
    <3> DEFINE h == canceller[m].handover
               q == canceller[m].part
    <3>1. CASE CancelRefused(m)
      <4>1. canceller'[m] = NoCancel
        BY <3>1 DEF CancelRefused, TypeOK
      <4>2. QED
        BY <4>1 DEF CancelSoFar, NoCancel
    <3>2. CASE CancelPart(m)
      <4>1. canceller'[m].pc = "cancel" /\ canceller'[m].part = q + 1 /\ canceller'[m].handover = h
        BY <3>2 DEF CancelPart, TypeOK, Canceller
      <4>2. h \in DOMAIN plus[m] /\ q \in Parts
        BY <3>2 DEF CancelPart, OutcomeOK, CancelSoFar
      <4>3. Stopped(plus'[m][h][q])
        <5>1. plus[m] \in Seq([Parts -> Part])
          BY DEF TypeOK
        <5>2. plus[m][h] \in [Parts -> Part] /\ plus[m][h][q] \in Part
          BY <4>2, <5>1
        <5>3. plus'[m][h][q].cancelled
          BY <3>2, <4>2, <5>1, <5>2 DEF CancelPart, MarkCancelled, TypeOK, Part
        <5>4. QED
          BY <5>3 DEF Stopped
      <4>4. ASSUME NEW p \in 1..q
            PROVE  Stopped(plus'[m][h][p])
        <5>1. p = q \/ p \in 1..q - 1
          BY <4>2, PartsAssumption DEF Parts
        <5>2. QED
          BY <2>1, <3>2, <4>2, <4>3, <5>1, PartsBefore
             DEF CancelPart, OutcomeOK, CancelSoFar, PartsStay
      <4>5. 1..canceller'[m].part - 1 = 1..q
        BY <4>1, <4>2, PartsAssumption DEF Parts
      <4>6. QED
        BY <2>1, <2>2, <3>2, <4>1, <4>2, <4>4, <4>5 DEF CancelPart, OutcomeOK, CancelSoFar
    <3>3. QED
      BY <1>4, <3>1, <3>2
  <2>6. QED
    BY <1>1, <2>3, <2>4, <2>5 DEF OutcomeOK
<1>5. QED
  BY <1>2, <1>3, <1>4 DEF CancelStep

(* So does what happens outside of the handlers. *)
LEMMA OutsideOutcome ==
  ASSUME TypeOK, \A o \in Msgs : Good(o) /\ OutcomeOK(o), NEW m \in Msgs, Outside(m)
  PROVE  \A o \in Msgs : OutcomeOK(o)'
<1> USE DEF table, running, world, history
<1>1. CASE Submit(m)
  <2>1. jobs'[m] = {"send"} /\ status'[m] = "queued"
    BY <1>1 DEF Submit, SetStatus, TypeOK
  <2>2. \A o \in Msgs : PartsStay(o) /\ RequestsStay(o)
    BY <1>1 DEF Submit, PartsStay, RequestsStay
  <2>3. ASSUME NEW o \in Msgs \ {m}
        PROVE  OutcomeOK(o)'
    <3>1. Untouched(o)
      BY <1>1, <2>2 DEF Submit, SetStatus, Untouched, TypeOK
    <3>2. QED
      BY <3>1, UntouchedOutcome
  <2>4. CancelSoFar(m)' /\ SeenSoFar(m)'
    BY <1>1, <2>1, <2>2, RequestsKeep DEF Submit, OutcomeOK
  <2>5. ReportStands(m)'
    <3>1. Len(reports[m]) = 0 /\ reports[m] \in Seq(GatewayStatus)
      BY <1>1 DEF Submit, Good, JobsAgreeWithRow, TypeOK
    <3>2. reports'[m] = <<>>
      BY <1>1, <3>1 DEF Submit
    <3>3. QED
      BY <3>2 DEF ReportStands
  <2>6. EndsNamed(m)' /\ Withdrawn(m)'
    BY <2>1 DEF EndsNamed, Withdrawn
  <2>7. QED
    BY <2>3, <2>4, <2>5, <2>6 DEF OutcomeOK
<1>2. CASE WeekPasses(m) \/ DeadlinePasses(m)
  <2>1. \A o \in Msgs : Untouched(o)
    BY <1>2 DEF WeekPasses, DeadlinePasses, Untouched, PartsStay, RequestsStay
  <2>2. QED
    BY <2>1, UntouchedOutcome
<1>3. ASSUME NEW h, NEW p \in Parts, MultiinfoProceeds(m, h, p)
      PROVE  \A o \in Msgs : OutcomeOK(o)'
  <2>1. ASSUME NEW o \in Msgs
        PROVE  DOMAIN plus'[o] = DOMAIN plus[o] /\ PartsStay(o)
    <3>1. MovesOn(m, h, p)
      BY <1>3 DEF MultiinfoProceeds, MovesOn
    <3>2. QED
      BY <3>1, PartsMove
  <2>2. \A o \in Msgs : Untouched(o)
    BY <1>3, <2>1 DEF MultiinfoProceeds, Untouched, RequestsStay
  <2>3. QED
    BY <2>2, UntouchedOutcome
<1>4. QED
  BY <1>1, <1>2, <1>3 DEF Outside

(* The second invariant holds at the beginning and every step keeps it. *)
LEMMA OutcomeInductive ==
  /\ Init => OutcomeInv
  /\ OutcomeInv /\ [Next]_vars => OutcomeInv'
<1>1. OutcomeInv <=> IInv /\ \A m \in Msgs : OutcomeOK(m)
  BY DEF OutcomeInv, OutcomeOK
<1>2. ASSUME Init, NEW m \in Msgs
      PROVE  OutcomeOK(m)
  <2>1. /\ status[m] = "absent" /\ canceller[m] = NoCancel /\ poller[m] = NoPoll
        /\ reports[m] = <<>> /\ jobs[m] = {} /\ miIds[m] = 0
    BY <1>2 DEF Init
  <2>2. QED
    BY <2>1 DEF OutcomeOK, EndsNamed, CancelSoFar, SeenSoFar, ReportStands, Withdrawn, NoCancel, NoPoll
<1>3. ASSUME IInv, IInv', \A m \in Msgs : OutcomeOK(m), [Next]_vars
      PROVE  \A m \in Msgs : OutcomeOK(m)'
  <2> USE DEF table, running, world, history
  <2>1. TypeOK /\ TypeOK' /\ \A o \in Msgs : Good(o) /\ OutcomeOK(o)
    BY <1>3, IInvIsGood DEF IInv
  <2>2. ASSUME NEW m \in Msgs, SendStep(m) \/ PollStep(m) \/ CancelStep(m) \/ Outside(m)
        PROVE  \A o \in Msgs : OutcomeOK(o)'
    BY <2>1, <2>2, SendOutcome, PollOutcome, CancelOutcome, OutsideOutcome
  <2>3. CASE Resume \/ UNCHANGED vars
    <3>1. \A o \in Msgs : Untouched(o)
      BY <2>3 DEF Resume, vars, Untouched, PartsStay, RequestsStay
    <3>2. QED
      BY <2>1, <3>1, UntouchedOutcome
  <2>4. CASE Crash
    <3>1. \A o \in Msgs : Untouched(o)
      BY <2>4 DEF Crash, Die, Untouched, PartsStay, RequestsStay
    <3>2. QED
      BY <2>1, <3>1, UntouchedOutcome
  <2>5. QED
    BY <1>3, <2>2, <2>3, <2>4 DEF Next
<1>4. IInv' /\ (\A m \in Msgs : OutcomeOK(m)') => OutcomeInv'
  BY DEF OutcomeInv, OutcomeOK
<1>5. QED
  BY <1>1, <1>2, <1>3, <1>4, InitGood, Inductive

(* What the webhook heard of the end of a message stays true, unless a     *)
(* cancellation answered late stands over it.                              *)
THEOREM ReportsStand == Spec => []ReportedOutcomeStands
<1>1. OutcomeInv => ReportedOutcomeStands
  BY DEF OutcomeInv, ReportStands, ReportedOutcomeStands
<1>2. QED
  BY <1>1, OutcomeInductive, PTL DEF Spec

(* A message that rests as cancelled was not left to go out, unless its    *)
(* hand-over was lost, also when the cancel request crossed the hand-over  *)
(* and over crashes and kills between two writes.                          *)
THEOREM CancellationsHold == Spec => []CancelledMeansWithdrawn
<1>1. OutcomeInv => CancelledMeansWithdrawn
  BY DEF OutcomeInv, Withdrawn, CancelledMeansWithdrawn, Quiet
<1>2. QED
  BY <1>1, OutcomeInductive, PTL DEF Spec
=============================================================================
