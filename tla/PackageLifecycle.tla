-------------------------- MODULE PackageLifecycle --------------------------
(***************************************************************************)
(* The life of packages, mailings to a list of recipients that Multiinfo   *)
(* sends out by itself: accepted by the API, created at Multiinfo by one   *)
(* job, followed by a second until Multiinfo has sent or cancelled them,   *)
(* and reported on by a third, which the client may order again            *)
(* (src/src/worker/packages.ts, src/src/api/submit-package.ts,             *)
(* src/src/api/packages.ts).                                               *)
(*                                                                         *)
(* A handler runs without interleaving from one await to the next, but its *)
(* writes are separate statements and the process may be killed between    *)
(* them. An action with several writes takes a number n, how many of them  *)
(* are done: of the row, the end of the job and what follows where a       *)
(* handler closes, of the row and the job where a report is ordered or a   *)
(* question is put off. Emission of an event is one step here; module      *)
(* WebhookDelivery takes it apart.                                         *)
(*                                                                         *)
(* Time is a choice: a job starts whenever it is due, unless the account   *)
(* is paused. Accounts and packages are never deleted and `active` changes *)
(* only together with paused_reason, so that prepare either defers or goes *)
(* on. The progress of a mailing and the rows of a report are left out.    *)
(***************************************************************************)
EXTENDS Naturals

CONSTANTS
  Packages,     \* the mailings clients submit
  Create, Poll, \* the jobs that create and follow a package
  Reports,      \* bound: the jobs that may fetch its report, one for each order
  MaxRetries,   \* Len(SEND_BACKOFF_MS), five in the code
  MaxRestarts,  \* bound: how often the process dies
  MidWriteKills \* whether it may also die between two writes

Jobs == {Create, Poll} \cup Reports

ASSUME JobsAssumption == Create # Poll /\ Create \notin Reports /\ Poll \notin Reports
ASSUME LimitsAssumption == MaxRetries \in Nat /\ MaxRestarts \in Nat
ASSUME SwitchAssumption == MidWriteKills \in BOOLEAN

VARIABLES
  (* table packages *)
  status,    \* status, "absent" before the package is accepted
  report,    \* report_status
  (* table jobs *)
  jobs,      \* the jobs of a package
  ordered,   \* report jobs it had so far
  attempts,  \* jobs.attempts; past the schedule all numbers are alike
  paused,    \* accounts.paused_reason is set
  (* handlers in progress, lost with the process *)
  pc,        \* what the handler of a job waits for, or the answer it will get
  restarts,  \* how often the process has died
  (* Multiinfo *)
  plus,      \* the package created last
  gen,       \* its report
  made,      \* packages created
  (* history, for the properties only *)
  lost,      \* creations the gateway did not learn of
  told,      \* events package.completed that came of a job
  torn,      \* jobs of a package whose closing writes were cut by a kill
  crowded,   \* packages whose report was ordered while it was being fetched
  slipped    \* packages whose last order of a report a kill cut before its job

row     == <<status, report>>
queue   == <<jobs, ordered, attempts>>
world   == <<plus, gen, made>>
history == <<lost, told, torn, crowded, slipped>>
vars    == <<row, queue, paused, pc, restarts, world, history>>

Final  == {"completed", "cancelled", "failed"}
Status == {"absent", "queued", "open", "sending"} \cup Final
Report == {"none", "pending", "ready", "failed"}
Answer == {"made", "refused", "preparing", "generated", "broken"}
Wait   == {"idle", "ask", "fetch"} \cup Answer

None == [p \in Packages |-> [j \in Jobs |-> 0]]

Init ==
  /\ status   = [p \in Packages |-> "absent"]
  /\ report   = [p \in Packages |-> "none"]
  /\ jobs     = [p \in Packages |-> {}]
  /\ ordered  = [p \in Packages |-> {}]
  /\ attempts = None
  /\ paused   = FALSE
  /\ pc       = [p \in Packages |-> [j \in Jobs |-> "idle"]]
  /\ restarts = 0
  /\ plus     = [p \in Packages |-> "none"]
  /\ gen      = [p \in Packages |-> "none"]
  /\ made     = [p \in Packages |-> 0]
  /\ lost     = [p \in Packages |-> 0]
  /\ told     = None
  /\ torn     = [p \in Packages |-> {}]
  /\ crowded  = {}
  /\ slipped  = {}

-----------------------------------------------------------------------------
(* Every handler is gone; what it did not hear of is lost. *)
Die ==
  /\ restarts < MaxRestarts
  /\ restarts' = restarts + 1
  /\ pc'   = [p \in Packages |-> [j \in Jobs |-> "idle"]]
  /\ lost' = [p \in Packages |-> IF pc[p][Create] = "made" THEN lost[p] + 1 ELSE lost[p]]

Leave(p, j) == pc' = [pc EXCEPT ![p][j] = "idle"] /\ UNCHANGED restarts

(* The outcome of the call of j is not known. *)
Unheard(p, j) == lost' = IF pc[p][j] = "made" THEN [lost EXCEPT ![p] = @ + 1] ELSE lost

(* The row of p is written; then job j ends and the jobs of `next` are     *)
(* added or, if `tell`, the client is told, of which n - 1 steps are done. *)
(* A process killed on the way loses what it was about to record.          *)
Close(p, j, n, next, tell) ==
  /\ jobs' = [jobs EXCEPT ![p] = (IF n = 1 THEN @ ELSE @ \ {j}) \cup (IF n = 3 THEN next ELSE {})]
  /\ told' = IF n = 3 /\ tell THEN [told EXCEPT ![p][j] = @ + 1] ELSE told
  /\ ordered' = IF n = 3 THEN [ordered EXCEPT ![p] = @ \cup (next \ {Poll})] ELSE ordered
  /\ IF n = 3
     THEN Leave(p, j) /\ UNCHANGED torn
     ELSE MidWriteKills /\ Die /\ torn' = [torn EXCEPT ![p] = @ \cup {j}]

(* jobs.retry, after a write to the row: if n = 1, a kill comes before it. *)
Again(p, j, n) ==
  IF n = 2
  THEN /\ attempts' = [attempts EXCEPT ![p][j] = IF @ < MaxRetries THEN @ + 1 ELSE @]
       /\ Leave(p, j) /\ UNCHANGED lost
  ELSE MidWriteKills /\ Die /\ UNCHANGED attempts

-----------------------------------------------------------------------------
(* POST /v1/packages, or an integration: the row, its recipients and the   *)
(* first job in one transaction.                                           *)
Submit(p) ==
  /\ status[p] = "absent"
  /\ status' = [status EXCEPT ![p] = "queued"]
  /\ jobs'   = [jobs EXCEPT ![p] = {Create}]
  /\ UNCHANGED <<report, ordered, attempts, paused, pc, restarts, world, history>>

(* POST /v1/packages/:id/report: of a package that was sent a report may   *)
(* be ordered at any time. The row is written, then the job is added.      *)
Ordered(p) ==
  /\ \E r \in Reports \ ordered[p] :
       /\ jobs'    = [jobs EXCEPT ![p] = @ \cup {r}]
       /\ ordered' = [ordered EXCEPT ![p] = @ \cup {r}]
  /\ crowded' = IF jobs[p] \cap Reports = {} THEN crowded ELSE crowded \cup {p}
  /\ slipped' = slipped \ {p}
  /\ UNCHANGED <<pc, restarts, lost>>

(* Killed in between, it leaves a report that is pending and no job for it, *)
(* unless there is one of an earlier order.                                *)
OrderCut(p) ==
  /\ MidWriteKills /\ Die
  /\ slipped' = slipped \cup {p}
  /\ UNCHANGED <<jobs, ordered, crowded>>

Order(p, n) ==
  /\ status[p] = "completed"
  /\ report' = [report EXCEPT ![p] = "pending"]
  /\ IF n = 2 THEN Ordered(p) ELSE OrderCut(p)
  /\ UNCHANGED <<status, attempts, paused, world, told, torn>>

(* The account passes its check in the panel. *)
Resume ==
  /\ paused
  /\ paused' = FALSE
  /\ UNCHANGED <<row, queue, pc, restarts, world, history>>

-----------------------------------------------------------------------------
(* What a job finds already done. *)
Finished(p, j) ==
  CASE j = Create -> status[p] # "queued"
    [] j = Poll   -> status[p] \in Final
    [] OTHER      -> report[p] = "ready"

Ready(p, j) == j \in jobs[p] /\ pc[p][j] = "idle" /\ ~paused

Drop(p, j) ==
  /\ Ready(p, j) /\ Finished(p, j)
  /\ jobs' = [jobs EXCEPT ![p] = @ \ {j}]
  /\ UNCHANGED <<row, ordered, attempts, paused, pc, restarts, world, history>>

(* Mutant: a job does not look at what is done. *)
BeginAnyway(p, j) ==
  /\ Ready(p, j)
  /\ report' = IF j \in Reports THEN [report EXCEPT ![p] = "pending"] ELSE report
  /\ pc' = [pc EXCEPT ![p][j] = "ask"]
  /\ UNCHANGED <<status, queue, paused, restarts, world, history>>

(* Mutant: the lock of the job ends while its handler waits. *)
BeginTwice(p, j) ==
  /\ j \in jobs[p] /\ ~paused /\ ~Finished(p, j)
  /\ report' = IF j \in Reports THEN [report EXCEPT ![p] = "pending"] ELSE report
  /\ pc' = [pc EXCEPT ![p][j] = "ask"]
  /\ UNCHANGED <<status, queue, paused, restarts, world, history>>

(* The row is read and Multiinfo asked; a report is on its way from now.   *)
Begin(p, j) ==
  /\ Ready(p, j) /\ ~Finished(p, j)
  /\ report' = IF j \in Reports THEN [report EXCEPT ![p] = "pending"] ELSE report
  /\ pc' = [pc EXCEPT ![p][j] = "ask"]
  /\ UNCHANGED <<status, queue, paused, restarts, world, history>>

(* Multiinfo creates the package; its answer is on the way. *)
Make(p) ==
  /\ pc[p][Create] = "ask"
  /\ pc'   = [pc EXCEPT ![p][Create] = "made"]
  /\ plus' = [plus EXCEPT ![p] = "open"]
  /\ made' = [made EXCEPT ![p] = @ + 1]
  /\ UNCHANGED <<row, queue, paused, restarts, gen, history>>

(* Multiinfo refuses for good. *)
Refuse(p, j) ==
  /\ pc[p][j] \in {"ask", "fetch"}
  /\ pc' = [pc EXCEPT ![p][j] = "refused"]
  /\ UNCHANGED <<row, queue, paused, restarts, world, history>>

(* Codes -80 to -86: the certificate is rejected, the job put off. *)
Reject(p, j) ==
  /\ pc[p][j] \in {"ask", "fetch"}
  /\ paused' = TRUE
  /\ Leave(p, j)
  /\ UNCHANGED <<row, queue, world, history>>

(* A call of Create or of a report fails, or its answer is lost, and there *)
(* is another delay left in the schedule.                                  *)
Waiting(p, j) == pc[p][j] \notin {"idle", "refused"}

(* Mutant: the schedule has no end. *)
RetryForEver(p, j) ==
  /\ j # Poll /\ Waiting(p, j)
  /\ attempts' = [attempts EXCEPT ![p][j] = @ + 1]
  /\ Leave(p, j) /\ Unheard(p, j)
  /\ UNCHANGED <<row, jobs, ordered, paused, world, told, torn, crowded, slipped>>

(* Mutant: the attempts are not counted. *)
RetryUncounted(p, j) ==
  /\ j # Poll /\ Waiting(p, j)
  /\ attempts[p][j] < MaxRetries
  /\ Leave(p, j) /\ Unheard(p, j)
  /\ UNCHANGED <<row, queue, paused, world, told, torn, crowded, slipped>>

Retry(p, j) ==
  /\ j # Poll /\ Waiting(p, j)
  /\ attempts[p][j] < MaxRetries
  /\ attempts' = [attempts EXCEPT ![p][j] = @ + 1]
  /\ Leave(p, j) /\ Unheard(p, j)
  /\ UNCHANGED <<row, jobs, ordered, paused, world, told, torn, crowded, slipped>>

(* The answer decides, or the schedule is used up. *)
GivesUp(p, j) ==
  \/ pc[p][j] = "refused"
  \/ Waiting(p, j) /\ attempts[p][j] >= MaxRetries

-----------------------------------------------------------------------------
(* handlePackageCreate. *)

(* Mutant: nobody follows the package. *)
CreatedUnfollowed(p, n) ==
  /\ pc[p][Create] = "made"
  /\ status' = [status EXCEPT ![p] = "open"]
  /\ Close(p, Create, n, {}, FALSE)
  /\ n = 3 => UNCHANGED lost
  /\ UNCHANGED <<report, attempts, paused, world, crowded, slipped>>

Created(p, n) ==
  /\ pc[p][Create] = "made"
  /\ status' = [status EXCEPT ![p] = "open"]
  /\ Close(p, Create, n, {Poll}, FALSE)
  /\ n = 3 => UNCHANGED lost
  /\ UNCHANGED <<report, attempts, paused, world, crowded, slipped>>

NotCreated(p, n) ==
  /\ GivesUp(p, Create)
  /\ status' = [status EXCEPT ![p] = "failed"]
  /\ Close(p, Create, n, {}, TRUE)
  /\ n = 3 => Unheard(p, Create)
  /\ UNCHANGED <<report, attempts, paused, world, crowded, slipped>>

-----------------------------------------------------------------------------
(* handlePackagePoll. *)

(* Multiinfo reports progress. *)
Progress(p, n) ==
  /\ pc[p][Poll] = "ask" /\ plus[p] \in {"open", "sending"}
  /\ status' = [status EXCEPT ![p] = plus[p]]
  /\ Again(p, Poll, n)
  /\ UNCHANGED <<report, jobs, ordered, paused, world, told, torn, crowded, slipped>>

(* An unknown status, a refusal or no answer: the next question comes      *)
(* whatever the number of attempts.                                        *)
LearnNothing(p) ==
  /\ pc[p][Poll] \in {"ask", "refused"}
  /\ Again(p, Poll, 2)
  /\ UNCHANGED <<row, jobs, ordered, paused, world, told, torn, crowded, slipped>>

(* The package was sent, by its status or because Multiinfo does not have  *)
(* it any more (-62), which it may say of a cancelled one too; its report  *)
(* is ordered.                                                             *)
Sent(p, n) ==
  /\ pc[p][Poll] = "ask" /\ plus[p] \in {"completed", "cancelled"}
  /\ status' = [status EXCEPT ![p] = "completed"]
  /\ \E r \in Reports \ ordered[p] : Close(p, Poll, n, {r}, FALSE)
  /\ n = 3 => UNCHANGED lost
  /\ UNCHANGED <<report, attempts, paused, world, crowded, slipped>>

(* Mutant: the client is not told. *)
CancelledQuietly(p, n) ==
  /\ pc[p][Poll] = "ask" /\ plus[p] = "cancelled"
  /\ status' = [status EXCEPT ![p] = "cancelled"]
  /\ Close(p, Poll, n, {}, FALSE)
  /\ n = 3 => UNCHANGED lost
  /\ UNCHANGED <<report, attempts, paused, world, crowded, slipped>>

Cancelled(p, n) ==
  /\ pc[p][Poll] = "ask" /\ plus[p] = "cancelled"
  /\ status' = [status EXCEPT ![p] = "cancelled"]
  /\ Close(p, Poll, n, {}, TRUE)
  /\ n = 3 => UNCHANGED lost
  /\ UNCHANGED <<report, attempts, paused, world, crowded, slipped>>

-----------------------------------------------------------------------------
(* handlePackageReport. *)

(* packagefullinfo.aspx starts the report or says how far it is. *)
AnswerReport(p, r) ==
  /\ pc[p][r] = "ask"
  /\ gen' = IF gen[p] = "none" THEN [gen EXCEPT ![p] = "preparing"] ELSE gen
  /\ pc' = [pc EXCEPT ![p][r] = gen'[p]]
  /\ UNCHANGED <<row, queue, paused, restarts, plus, made, history>>

(* It is being prepared. *)
NotYet(p, r, n) ==
  /\ pc[p][r] = "preparing"
  /\ report' = [report EXCEPT ![p] = "pending"]
  /\ Again(p, r, n)
  /\ UNCHANGED <<status, jobs, ordered, paused, world, told, torn, crowded, slipped>>

Fetch(p, r) ==
  /\ pc[p][r] = "generated"
  /\ pc' = [pc EXCEPT ![p][r] = "fetch"]
  /\ UNCHANGED <<row, queue, paused, restarts, world, history>>

Fetched(p, r, n) ==
  /\ pc[p][r] = "fetch"
  /\ report' = [report EXCEPT ![p] = "ready"]
  /\ Close(p, r, n, {}, TRUE)
  /\ n = 3 => UNCHANGED lost
  /\ UNCHANGED <<status, attempts, paused, world, crowded, slipped>>

NoReport(p, r, n) ==
  /\ pc[p][r] = "broken" \/ GivesUp(p, r)
  /\ report' = [report EXCEPT ![p] = "failed"]
  /\ Close(p, r, n, {}, TRUE)
  /\ n = 3 => UNCHANGED lost
  /\ UNCHANGED <<status, attempts, paused, world, crowded, slipped>>

-----------------------------------------------------------------------------
(* Multiinfo sends a package or somebody cancels it there. *)
Advance(p) ==
  /\ \/ plus[p] = "open"    /\ plus' = [plus EXCEPT ![p] = "sending"]
     \/ plus[p] = "sending" /\ plus' = [plus EXCEPT ![p] = "completed"]
     \/ plus[p] \in {"open", "sending"} /\ plus' = [plus EXCEPT ![p] = "cancelled"]
  /\ UNCHANGED <<row, queue, paused, pc, restarts, gen, made, history>>

Generate(p) ==
  /\ gen[p] = "preparing"
  /\ gen' \in {[gen EXCEPT ![p] = g] : g \in {"generated", "broken"}}
  /\ UNCHANGED <<row, queue, paused, pc, restarts, plus, made, history>>

(* A report expires after half an hour, while nobody asks for it. *)
Expire(p) ==
  /\ gen[p] \in {"generated", "broken"} /\ jobs[p] \cap Reports = {}
  /\ gen' = [gen EXCEPT ![p] = "none"]
  /\ UNCHANGED <<row, queue, paused, pc, restarts, plus, made, history>>

Crash ==
  /\ Die
  /\ UNCHANGED <<row, queue, paused, world, told, torn, crowded, slipped>>

-----------------------------------------------------------------------------
(* What ends the handler of a job, n of its writes being done. *)
Ends(p, n) ==
  \/ Created(p, n) \/ NotCreated(p, n) \/ Sent(p, n) \/ Cancelled(p, n)
  \/ \E r \in Reports : Fetched(p, r, n) \/ NoReport(p, r, n)

Works(p) ==
  \/ \E j \in Jobs : Drop(p, j) \/ Begin(p, j) \/ Reject(p, j) \/ Retry(p, j)
  \/ Progress(p, 2) \/ LearnNothing(p)
  \/ \E r \in Reports : NotYet(p, r, 2) \/ Fetch(p, r)
  \/ Ends(p, 3)

(* A kill between two writes. *)
Cuts(p) ==
  \/ Order(p, 1) \/ Progress(p, 1)
  \/ \E r \in Reports : NotYet(p, r, 1)
  \/ \E n \in 1..2 : Ends(p, n)

Multiinfo(p) ==
  \/ Make(p) \/ \E j \in Jobs : Refuse(p, j)
  \/ Advance(p) \/ Generate(p) \/ Expire(p)
  \/ \E r \in Reports : AnswerReport(p, r)

Next ==
  \/ \E p \in Packages : Submit(p) \/ Order(p, 2) \/ Works(p) \/ Multiinfo(p) \/ Cuts(p)
  \/ Resume \/ Crash

Spec == Init /\ [][Next]_vars

(* What ends an attempt, other than a certificate that is rejected.        *)
Attempted(p) == Ends(p, 3) \/ \E j \in Jobs : Retry(p, j)

(* Handlers start and go on, as answers come or requests time out; the     *)
(* account is repaired at last, and its certificate is not rejected at     *)
(* every attempt; Multiinfo sends a package in the end, or it is cancelled. *)
FairSpec ==
  /\ Spec
  /\ WF_vars(Resume)
  /\ \A p \in Packages :
       /\ WF_vars(\E j \in Jobs : Drop(p, j) \/ Begin(p, j))
       /\ WF_vars(LearnNothing(p))
       /\ WF_vars(Advance(p))
       /\ SF_vars(Attempted(p))

-----------------------------------------------------------------------------
(* Rows, jobs and handlers keep their types; no job is retried past its    *)
(* schedule.                                                               *)
TypeOK ==
  /\ status   \in [Packages -> Status]
  /\ report   \in [Packages -> Report]
  /\ jobs     \in [Packages -> SUBSET Jobs]
  /\ ordered  \in [Packages -> SUBSET Reports]
  /\ attempts \in [Packages -> [Jobs -> 0..MaxRetries]]
  /\ paused   \in BOOLEAN
  /\ pc       \in [Packages -> [Jobs -> Wait]]
  /\ restarts \in 0..MaxRestarts
  /\ plus     \in [Packages -> {"none", "open", "sending", "completed", "cancelled"}]
  /\ gen      \in [Packages -> {"none", "preparing", "generated", "broken"}]
  /\ made     \in [Packages -> Nat]
  /\ lost     \in [Packages -> Nat]
  /\ told     \in [Packages -> [Jobs -> 0..1]]
  /\ torn     \in [Packages -> SUBSET Jobs]
  /\ crowded  \in SUBSET Packages
  /\ slipped  \in SUBSET Packages

(* A package that is not over has the job that takes it on, and a report   *)
(* that was ordered has a job that fetches it, over retries, pauses,       *)
(* restarts and orders that cross: only a kill between the row and the     *)
(* next job leaves it alone, and what a killed order left alone the next   *)
(* order takes up.                                                         *)
StillFollowed ==
  \A p \in Packages :
    /\ status[p] = "queued" => Create \in jobs[p]
    /\ status[p] \in {"open", "sending"} => Poll \in jobs[p] \/ Create \in torn[p]
    /\ status[p] = "completed" /\ report[p] \in {"none", "pending"}
         => jobs[p] \cap Reports # {} \/ Poll \in torn[p] \/ p \in slipped

(* The client is told of every end: of a failure, of a cancellation and of *)
(* each report whose order was accepted, ready or failed, unless its       *)
(* orders crossed or a kill came before. And no job tells of an end twice. *)
EndsAreTold ==
  \A p \in Packages :
    /\ \A j \in Jobs : told[p][j] = 1 => j \notin jobs[p]
    /\ status[p] = "failed" => told[p][Create] = 1 \/ Create \in torn[p]
    /\ status[p] = "cancelled" => told[p][Poll] = 1 \/ Poll \in torn[p]
    /\ \A r \in ordered[p] :
         r \in jobs[p] \/ told[p][r] = 1 \/ r \in torn[p] \/ p \in crowded

(* What the client can see of an end stays: a package that is over, and a  *)
(* report that is ready, until it orders another, be that order cut or     *)
(* not. The job that a kill left behind changes nothing of it.             *)
OutcomesStand ==
  [][\A p \in Packages :
       /\ status[p] \in Final => status'[p] = status[p]
       /\ report[p] = "ready" /\ p \notin crowded /\ ~(\E n \in 1..2 : Order(p, n))
            => report'[p] = "ready"]_vars

(* Every package that was accepted is told of in the end, unless a kill    *)
(* tore its closing writes apart.                                          *)
EverySettles ==
  \A p \in Packages :
    status[p] = "queued" ~> (torn[p] # {} \/ \E j \in Jobs : told[p][j] = 1)

-----------------------------------------------------------------------------
(* The creating job implements RemoteCall: a package is created until      *)
(* there is an outcome, and again only if the gateway cannot know that     *)
(* Multiinfo has it.                                                       *)
DutyOf(p) ==
  IF Create \in torn[p] THEN "torn"
  ELSE IF status[p] = "absent" THEN "none"
  ELSE IF Create \in jobs[p] THEN "owed" ELSE "over"

Creation == INSTANCE RemoteCall WITH
  Items <- Packages, duty <- [p \in Packages |-> DutyOf(p)], taken <- made
ImplementsCreation == Creation!Spec

-----------------------------------------------------------------------------
(* The inductive invariant behind these properties. *)

(* A handler runs for a job that exists and that had something to do; only *)
(* the call of Create has Multiinfo make anything.                         *)
HandlerSound(p) ==
  /\ \A j \in Jobs : pc[p][j] # "idle" => j \in jobs[p]
  /\ \A j \in Jobs : pc[p][j] = "made" => j = Create
  /\ pc[p][Create] # "idle" => status[p] = "queued"
  /\ pc[p][Poll] # "idle" => status[p] \in {"open", "sending"}
  /\ p \notin crowded => \A r \in Reports : pc[p][r] # "idle" => report[p] = "pending"

(* Which jobs a package has, by its status; one fetches its report unless  *)
(* orders crossed, and none a report that is there unless a kill left it.  *)
JobsSound(p) ==
  /\ status[p] = "absent" => jobs[p] = {} /\ torn[p] = {}
  /\ Create \in jobs[p] /\ Create \notin torn[p] => status[p] = "queued"
  /\ Poll \in jobs[p] => status[p] # "queued"
  /\ jobs[p] \cap Reports \subseteq ordered[p]
  /\ ordered[p] # {} \/ report[p] # "none" => status[p] = "completed"
  /\ p \notin crowded =>
       /\ \A r, q \in Reports : {r, q} \subseteq jobs[p] => r = q
       /\ report[p] = "ready" => jobs[p] \cap Reports \subseteq torn[p]

(* No job has told of an end before it came. *)
ToldSound(p) ==
  /\ told[p][Create] = 1 => status[p] = "failed"
  /\ told[p][Poll] = 1 => status[p] = "cancelled"
  /\ \A r \in Reports : told[p][r] = 1 => r \in ordered[p]

(* A package is made once, and once more for each time the gateway did not *)
(* hear of it; while its job waits, the only one it may yet hear of is the *)
(* one whose answer is on its way.                                         *)
CountsSound(p) ==
  Create \notin torn[p] =>
    /\ lost[p] <= made[p] /\ made[p] <= lost[p] + 1
    /\ status[p] = "absent" => made[p] = 0 /\ lost[p] = 0
    /\ pc[p][Create] = "made" => made[p] = lost[p] + 1
    /\ Create \in jobs[p] /\ pc[p][Create] # "made" => made[p] = lost[p]

IInv ==
  /\ TypeOK /\ StillFollowed /\ EndsAreTold
  /\ \A p \in Packages : HandlerSound(p) /\ JobsSound(p) /\ ToldSound(p) /\ CountsSound(p)
=============================================================================
