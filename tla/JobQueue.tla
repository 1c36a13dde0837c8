------------------------------ MODULE JobQueue ------------------------------
(***************************************************************************)
(* The queue of jobs and the loop that works on it: table jobs             *)
(* (src/src/store/jobs.ts) and class Worker (src/src/worker/loop.ts).      *)
(*                                                                         *)
(* A tick claims a batch of due jobs in one transaction and runs their     *)
(* handlers in a few lanes; the next tick begins when all of them have     *)
(* ended. A handler ends its job, retries it, puts it off, or throws. All  *)
(* that a tick schedules is counted from the time at which it began.       *)
(*                                                                         *)
(* What the handlers do beside that is the subject of the modules of the   *)
(* single jobs; the maintenance of a tick is synchronous, touches no job   *)
(* that exists and is left out. The clock does not run backwards.          *)
(***************************************************************************)
EXTENDS Naturals, FiniteSets

CONSTANTS
  Jobs,           \* the identifiers of the jobs, none of them used twice
  Batch,          \* how many jobs a tick claims at most
  Width,          \* how many handlers run at the same time
  LockTimeout,    \* LOCK_TIMEOUT_MS
  Delays,         \* the delays of retries and deferrals
  MaxUnexpected,  \* MAX_UNEXPECTED_ATTEMPTS
  MaxTime,        \* bound: the clock stops here
  MaxRestarts     \* bound: how often the process dies

ASSUME BatchAssumption == Batch \in Nat \ {0} /\ Width \in Nat \ {0}
ASSUME DelaysAssumption == LockTimeout \in Nat /\ Delays \subseteq Nat \ {0}
ASSUME UnexpectedAssumption == MaxUnexpected \in Nat \ {0}
ASSUME BoundsAssumption == MaxTime \in Nat /\ MaxRestarts \in Nat

VARIABLES
  (* table jobs *)
  state,      \* whether the row is not there yet, queued, completed or given up
  runAt,      \* run_at
  lockedAt,   \* locked_at, zero for NULL
  attempts,   \* attempts
  (* the worker *)
  tickAt,     \* the time at which the last tick began
  waiting,    \* claimed jobs no lane has taken yet
  lanes,      \* jobs whose handler is running
  (* the outside world *)
  now,        \* the clock; it starts at one, so that zero is not a time
  restarts,   \* how often the process has died
  (* history *)
  streak,     \* unexpected errors of a job in a row
  passes      \* passes[k][j]: how often j was claimed while k was due and was not

rows    == <<state, runAt, lockedAt, attempts>>
worker  == <<tickAt, waiting, lanes>>
history == <<streak, passes>>
vars    == <<rows, worker, now, restarts, history>>

JobState == {"new", "queued", "done", "abandoned"}

Init ==
  /\ state    = [j \in Jobs |-> "new"]
  /\ runAt    = [j \in Jobs |-> 0]
  /\ lockedAt = [j \in Jobs |-> 0]
  /\ attempts = [j \in Jobs |-> 0]
  /\ tickAt   = 0
  /\ waiting  = {}
  /\ lanes    = {}
  /\ now      = 1
  /\ restarts = 0
  /\ streak   = [j \in Jobs |-> 0]
  /\ passes   = [k \in Jobs |-> [j \in Jobs |-> 0]]

Claimed == waiting \cup lanes

-----------------------------------------------------------------------------
Insert(j, at) ==
  /\ state[j] = "new"
  /\ state' = [state EXCEPT ![j] = "queued"]
  /\ runAt' = [runAt EXCEPT ![j] = at]
  /\ UNCHANGED <<lockedAt, attempts>>

(* A request enqueues a job that is due at once. *)
Enqueue(j) ==
  /\ Insert(j, now)
  /\ UNCHANGED <<worker, now, restarts, history>>

(* A handler enqueues another job, due at once or later by a delay. *)
Spawn(j) ==
  /\ lanes # {}
  /\ \E d \in Delays \cup {0} : Insert(j, tickAt + d)
  /\ UNCHANGED <<worker, now, restarts, history>>

-----------------------------------------------------------------------------
(* Mutant: a lock is never taken for abandoned. *)
DueUnlocked == {j \in Jobs : state[j] = "queued" /\ runAt[j] <= now /\ lockedAt[j] = 0}

(* run_at <= now AND (locked_at IS NULL OR locked_at < now - LOCK_TIMEOUT). *)
Due == {j \in Jobs : /\ state[j] = "queued" /\ runAt[j] <= now
                     /\ lockedAt[j] = 0 \/ lockedAt[j] + LockTimeout < now}

(* ORDER BY run_at LIMIT batch: the order of equal times is open. *)
FirstDue(batch) ==
  /\ batch \subseteq Due
  /\ Cardinality(batch) <= Batch
  /\ batch = Due \/ Cardinality(batch) = Batch
  /\ \A j \in batch, k \in Due \ batch : runAt[j] <= runAt[k]

TakeBatch(batch) ==
  /\ lockedAt' = [j \in Jobs |-> IF j \in batch THEN now ELSE lockedAt[j]]
  /\ tickAt'   = now
  /\ waiting'  = batch
  /\ passes'   = [k \in Jobs |-> [j \in Jobs |->
                    IF k \in batch THEN 0
                    ELSE IF k \in Due /\ j \in batch THEN passes[k][j] + 1
                    ELSE passes[k][j]]]

(* Mutant: the timer does not wait for the handlers of the last tick. *)
TickAnyway ==
  /\ \E batch \in SUBSET Due : batch # {} /\ FirstDue(batch) /\ TakeBatch(batch)
  /\ UNCHANGED <<state, runAt, attempts, lanes, now, restarts, streak>>

(* The timer: nothing is left of the last tick, and a batch is claimed. *)
Tick ==
  /\ Claimed = {}
  /\ \E batch \in SUBSET Due : batch # {} /\ FirstDue(batch) /\ TakeBatch(batch)
  /\ UNCHANGED <<state, runAt, attempts, lanes, now, restarts, streak>>

(* Mutant: a lane reads the head of the batch and leaves it there. *)
StartHandlerAgain(j) ==
  /\ j \in waiting /\ Cardinality(lanes) < Width
  /\ lanes' = lanes \cup {j}
  /\ UNCHANGED <<rows, tickAt, waiting, now, restarts, history>>

(* A free lane takes the next job of the batch. *)
StartHandler(j) ==
  /\ j \in waiting /\ Cardinality(lanes) < Width
  /\ \A k \in waiting : runAt[j] <= runAt[k]
  /\ waiting' = waiting \ {j}
  /\ lanes'   = lanes \cup {j}
  /\ UNCHANGED <<rows, tickAt, now, restarts, history>>

-----------------------------------------------------------------------------
(* The four ends of a handler: complete and fail delete the row, retry and *)
(* defer free it for a later time; run catches what the handler throws.    *)
EndHandler(j) ==
  /\ j \in lanes
  /\ lanes' = lanes \ {j}
  /\ UNCHANGED <<tickAt, waiting, now, restarts, passes>>

Complete(j) ==
  /\ EndHandler(j)
  /\ state' = [state EXCEPT ![j] = "done"]
  /\ UNCHANGED <<runAt, lockedAt, attempts, streak>>

(* Mutant: the lock of the job is left for LOCK_TIMEOUT to free it. *)
RescheduleLocked(j, d) ==
  /\ runAt' = [runAt EXCEPT ![j] = tickAt + d]
  /\ UNCHANGED lockedAt

(* Mutant: the time of the retry is counted from the time the job was due. *)
RescheduleFromDue(j, d) ==
  /\ runAt'    = [runAt EXCEPT ![j] = @ + d]
  /\ lockedAt' = [lockedAt EXCEPT ![j] = 0]

Reschedule(j, d) ==
  /\ runAt'    = [runAt EXCEPT ![j] = tickAt + d]
  /\ lockedAt' = [lockedAt EXCEPT ![j] = 0]

Retry(j) ==
  /\ EndHandler(j)
  /\ \E d \in Delays : Reschedule(j, d)
  /\ attempts' = [attempts EXCEPT ![j] = @ + 1]
  /\ streak'   = [streak EXCEPT ![j] = 0]
  /\ UNCHANGED state

Defer(j) ==
  /\ EndHandler(j)
  /\ \E d \in Delays : Reschedule(j, d)
  /\ streak' = [streak EXCEPT ![j] = 0]
  /\ UNCHANGED <<state, attempts>>

(* An unexpected error of a job that has attempts left: a retry. *)
ThrowRetried(j) ==
  /\ EndHandler(j)
  /\ attempts[j] + 1 < MaxUnexpected
  /\ \E d \in Delays : Reschedule(j, d)
  /\ attempts' = [attempts EXCEPT ![j] = @ + 1]
  /\ streak'   = [streak EXCEPT ![j] = @ + 1]
  /\ UNCHANGED state

(* One more than that: the job is deleted and its message told so. *)
ThrowAbandoned(j) ==
  /\ EndHandler(j)
  /\ attempts[j] + 1 >= MaxUnexpected
  /\ state'  = [state EXCEPT ![j] = "abandoned"]
  /\ streak' = [streak EXCEPT ![j] = @ + 1]
  /\ UNCHANGED <<runAt, lockedAt, attempts>>

-----------------------------------------------------------------------------
TimePasses ==
  /\ now < MaxTime
  /\ now' = now + 1
  /\ UNCHANGED <<rows, worker, restarts, history>>

(* The process dies or is stopped: the handlers are gone, their locks stay. *)
Crash ==
  /\ restarts < MaxRestarts
  /\ restarts' = restarts + 1
  /\ waiting' = {} /\ lanes' = {}
  /\ UNCHANGED <<rows, tickAt, now, history>>

Handle(j) == \/ Complete(j) \/ Retry(j) \/ Defer(j) \/ ThrowRetried(j) \/ ThrowAbandoned(j)

Next ==
  \/ \E j \in Jobs : Enqueue(j) \/ Spawn(j) \/ StartHandler(j) \/ Handle(j)
  \/ Tick \/ TimePasses \/ Crash

Spec == Init /\ [][Next]_vars

(* The timer of the worker keeps firing, a free lane goes on with the next *)
(* job, every handler ends (each of its requests has a timeout), and time  *)
(* does not stand still.                                                   *)
FairSpec ==
  /\ Spec
  /\ WF_vars(Tick) /\ WF_vars(TimePasses)
  /\ \A j \in Jobs : WF_vars(StartHandler(j)) /\ WF_vars(Handle(j))

-----------------------------------------------------------------------------
(* The columns and the locals of the worker keep their types; a claimed job *)
(* is in the list of the tick or in one of its lanes, not in both.          *)
TypeOK ==
  /\ state    \in [Jobs -> JobState]
  /\ runAt    \in [Jobs -> Nat]
  /\ lockedAt \in [Jobs -> Nat]
  /\ attempts \in [Jobs -> Nat]
  /\ tickAt   \in Nat
  /\ waiting  \in SUBSET Jobs
  /\ lanes    \in SUBSET Jobs
  /\ waiting \cap lanes = {}
  /\ now      \in Nat \ {0}
  /\ restarts \in Nat
  /\ streak   \in [Jobs -> Nat]
  /\ passes   \in [Jobs -> [Jobs -> Nat]]

(* A job is never handed out a second time while its handler is at work or *)
(* waits for a lane, although locks run out after fifteen minutes and the  *)
(* handlers of a batch may take longer than that.                          *)
NeverClaimedTwice ==
  [][\A j \in Claimed : lockedAt'[j] \in {0, lockedAt[j]}]_vars

(* No job starves behind others: while it is due and not claimed, every    *)
(* other job is claimed before it at most once, however often that one is  *)
(* retried, and once more for every death of the process (a job left       *)
(* locked keeps its place). New jobs, and jobs retried by a long tick with *)
(* a time already past, do not break this.                                 *)
OvertakenOnce ==
  \A k, j \in Jobs : state[k] = "queued" => passes[k][j] <= restarts + 1

(* A row is locked exactly while its handler is at work, unless a process  *)
(* died with it: the fifteen minutes are never needed otherwise.           *)
LocksAreHeld ==
  \A j \in Jobs :
    /\ j \in Claimed => state[j] = "queued" /\ lockedAt[j] = tickAt /\ runAt[j] <= tickAt
    /\ state[j] = "queued" /\ lockedAt[j] # 0 /\ restarts = 0 => j \in Claimed

(* Once the process stays up, a job that is due in time, and whose lock, if *)
(* a dead process left one, runs out in time, gets its handler.             *)
EveryDueJobRuns ==
  \A j \in Jobs :
    (/\ state[j] = "queued" /\ runAt[j] <= MaxTime
     /\ lockedAt[j] + LockTimeout < MaxTime /\ restarts = MaxRestarts)
      ~> (j \in lanes \/ state[j] # "queued")

(* docs/uruchomienie.md:1248: a job is given up at its eighth unexpected   *)
(* error in a row. (Not so: the retries of the handlers raise the same     *)
(* counter.)                                                               *)
AbandonedAfterStreak ==
  \A j \in Jobs : state[j] = "abandoned" => streak[j] >= MaxUnexpected

-----------------------------------------------------------------------------
(***************************************************************************)
(* The inductive invariant behind OvertakenOnce: a job that has used up    *)
(* its right to be claimed before k is at work, gone, or later than k.     *)
(***************************************************************************)
Behind(j, k) == \/ j \in Claimed /\ runAt[k] <= tickAt
                \/ state[j] \in {"done", "abandoned"}
                \/ runAt[j] > runAt[k]

PassesBounded ==
  \A k, j \in Jobs :
    /\ state[k] = "new" \/ k \in Claimed => passes[k][j] = 0
    /\ state[k] = "queued" => passes[k][j] <= restarts + 1
    /\ state[k] = "queued" /\ passes[k][j] = restarts + 1 => state[j] # "new" /\ Behind(j, k)

NewRowsBlank == \A j \in Jobs : state[j] = "new" => lockedAt[j] = 0

IInv == TypeOK /\ LocksAreHeld /\ NewRowsBlank /\ PassesBounded
=============================================================================
