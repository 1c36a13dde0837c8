--------------------------- MODULE JobQueueProofs ---------------------------
(***************************************************************************)
(* Proofs about JobQueue, for any number of jobs, any size of a batch and  *)
(* any delays. IInv of that module is inductive; TypeOK, LocksAreHeld and  *)
(* OvertakenOnce are parts of it or follow from one, and NeverClaimedTwice *)
(* follows from it step by step.                                           *)
(***************************************************************************)
EXTENDS JobQueue, TLAPS

USE BatchAssumption, DelaysAssumption, UnexpectedAssumption, BoundsAssumption

(* An empty queue satisfies the invariant. *)
LEMMA InitHolds == Init => IInv
BY DEF Init, IInv, TypeOK, JobState, Claimed, LocksAreHeld, NewRowsBlank, PassesBounded

-----------------------------------------------------------------------------
(* A new row comes without a lock, overtaken by nobody, and has overtaken  *)
(* nobody as often as it may.                                              *)
LEMMA InsertHolds ==
  ASSUME IInv, NEW j \in Jobs, NEW at \in Nat, Insert(j, at),
         UNCHANGED <<worker, now, restarts, history>>
  PROVE  IInv'
<1> USE DEF IInv
<1>1. TypeOK'
  BY DEF TypeOK, JobState, Insert, worker, history
<1>2. Claimed' = Claimed /\ j \notin Claimed
  BY DEF Claimed, LocksAreHeld, Insert, worker
<1>3. LocksAreHeld'
  BY <1>2 DEF TypeOK, Insert, LocksAreHeld, NewRowsBlank, worker
<1>4. NewRowsBlank'
  BY DEF TypeOK, Insert, NewRowsBlank
<1>5. PassesBounded'
  <2> SUFFICES ASSUME NEW k \in Jobs, NEW i \in Jobs
      PROVE /\ state'[k] = "new" \/ k \in Claimed' => passes'[k][i] = 0
            /\ state'[k] = "queued" => passes'[k][i] <= restarts' + 1
            /\ state'[k] = "queued" /\ passes'[k][i] = restarts' + 1
                 => state'[i] # "new" /\ Behind(i, k)'
    BY DEF PassesBounded
  <2>1. passes' = passes /\ restarts' = restarts /\ tickAt' = tickAt
    BY DEF history, worker
  <2>2. passes[k][i] \in Nat /\ restarts \in Nat
    BY DEF TypeOK
  <2>3. CASE k = j
    BY <1>2, <2>1, <2>2, <2>3 DEF PassesBounded, TypeOK, Insert
  <2>4. CASE k # j
    BY <1>2, <2>1, <2>2, <2>4 DEF PassesBounded, TypeOK, Insert, Behind
  <2> QED BY <2>3, <2>4
<1> QED BY <1>1, <1>3, <1>4, <1>5

(* The heart of the argument: a job of the batch comes no later than a due *)
(* job left behind, so by the invariant it has overtaken that one less     *)
(* often than it may; afterwards it is at work.                            *)
LEMMA TickHolds == IInv /\ Tick => IInv'
<1> SUFFICES ASSUME IInv, Tick PROVE IInv'
  OBVIOUS
<1> USE DEF IInv
<1>1. PICK batch \in SUBSET Due : FirstDue(batch) /\ TakeBatch(batch)
  BY DEF Tick
<1>2. /\ UNCHANGED <<state, runAt, attempts, lanes, now, restarts, streak>>
      /\ Claimed = {} /\ Claimed' = batch
  BY <1>1 DEF Tick, TakeBatch, Claimed
<1>3. \A i \in batch : i \in Jobs /\ state[i] = "queued" /\ runAt[i] <= now
  BY DEF Due
<1>4. TypeOK'
  <2>1. waiting' \cap lanes' = {} /\ waiting' \in SUBSET Jobs /\ lanes' \in SUBSET Jobs
    BY <1>1, <1>2, <1>3 DEF Claimed, TakeBatch
  <2>2. passes' \in [Jobs -> [Jobs -> Nat]]
    BY <1>1 DEF TypeOK, TakeBatch
  <2> QED BY <1>1, <1>2, <2>1, <2>2 DEF TypeOK, TakeBatch
<1>5. LocksAreHeld'
  <2> SUFFICES ASSUME NEW i \in Jobs
      PROVE /\ i \in batch => state[i] = "queued" /\ lockedAt'[i] = tickAt' /\ runAt[i] <= tickAt'
            /\ state[i] = "queued" /\ lockedAt'[i] # 0 /\ restarts = 0 => i \in batch
    BY <1>2 DEF LocksAreHeld
  <2> QED BY <1>1, <1>2, <1>3 DEF LocksAreHeld, TakeBatch
<1>6. NewRowsBlank'
  BY <1>1, <1>2, <1>3 DEF NewRowsBlank, TakeBatch
<1>7. PassesBounded'
  <2> SUFFICES ASSUME NEW k \in Jobs, NEW i \in Jobs
      PROVE /\ state[k] = "new" \/ k \in batch => passes'[k][i] = 0
            /\ state[k] = "queued" => passes'[k][i] <= restarts + 1
            /\ state[k] = "queued" /\ passes'[k][i] = restarts + 1
                 => state[i] # "new" /\ Behind(i, k)'
    BY <1>2 DEF PassesBounded
  <2>1. passes[k][i] \in Nat /\ restarts \in Nat /\ runAt[k] \in Nat /\ runAt[i] \in Nat /\ now \in Nat
    BY DEF TypeOK
  <2>2. CASE k \in batch
    <3>1. passes'[k][i] = 0
      BY <1>1, <2>2 DEF TakeBatch
    <3> QED BY <1>3, <2>1, <2>2, <3>1
  <2>3. CASE k \notin batch /\ k \in Due /\ i \in batch
    <3>1. passes'[k][i] = passes[k][i] + 1
      BY <1>1, <2>3 DEF TakeBatch
    <3>2. state[k] = "queued" /\ runAt[k] <= now /\ runAt[i] <= runAt[k]
      BY <1>1, <2>3 DEF FirstDue, Due
    <3>3. state[i] = "queued" /\ ~Behind(i, k)
      BY <1>2, <1>3, <2>1, <2>3, <3>2 DEF Behind
    <3>4. passes[k][i] <= restarts
      BY <2>1, <3>2, <3>3 DEF PassesBounded
    <3>5. Behind(i, k)'
      BY <1>1, <1>2, <2>3, <3>2 DEF Behind, TakeBatch
    <3> QED BY <2>1, <2>3, <3>1, <3>2, <3>3, <3>4, <3>5
  <2>4. CASE k \notin batch /\ ~(k \in Due /\ i \in batch)
    <3>1. passes'[k][i] = passes[k][i]
      BY <1>1, <2>4 DEF TakeBatch
    <3>2. Behind(i, k) => Behind(i, k)'
      BY <1>2 DEF Behind
    <3> QED BY <2>1, <2>4, <3>1, <3>2 DEF PassesBounded
  <2> QED BY <2>2, <2>3, <2>4
<1> QED BY <1>4, <1>5, <1>6, <1>7

(* A lane takes a job that was claimed: nothing moves in the table. *)
LEMMA StartHolds == ASSUME IInv, NEW j \in Jobs, StartHandler(j) PROVE IInv'
<1> USE DEF IInv
<1>1. TypeOK'
  BY DEF TypeOK, StartHandler, rows, history
<1>2. Claimed' = Claimed
  BY DEF Claimed, StartHandler
<1>3. UNCHANGED <<rows, tickAt, now, restarts, history>>
  BY DEF StartHandler
<1>4. LocksAreHeld' /\ NewRowsBlank'
  BY <1>2, <1>3 DEF LocksAreHeld, NewRowsBlank, rows
<1>5. PassesBounded'
  BY <1>2, <1>3 DEF PassesBounded, Behind, rows, history
<1> QED BY <1>1, <1>4, <1>5

-----------------------------------------------------------------------------
(* A handler that ends gives up its claim, and only its own. *)
LEMMA EndsClaim ==
  ASSUME TypeOK, NEW j \in Jobs, EndHandler(j)
  PROVE  Claimed' = Claimed \ {j} /\ j \in Claimed
BY DEF TypeOK, EndHandler, Claimed

(* A job that is gone, completed or given up, bothers nobody any more. *)
LEMMA GoneHolds ==
  ASSUME IInv, NEW j \in Jobs, NEW s \in {"done", "abandoned"}, EndHandler(j),
         state' = [state EXCEPT ![j] = s], streak' \in [Jobs -> Nat],
         UNCHANGED <<runAt, lockedAt, attempts>>
  PROVE  IInv'
<1> USE DEF IInv
<1>1. Claimed' = Claimed \ {j} /\ j \in Claimed
  BY EndsClaim
<1>2. UNCHANGED <<tickAt, waiting, now, restarts, passes>>
  BY DEF EndHandler
<1>3. TypeOK'
  BY DEF TypeOK, JobState, EndHandler
<1>4. LocksAreHeld' /\ NewRowsBlank'
  BY <1>1, <1>2 DEF LocksAreHeld, NewRowsBlank, TypeOK
<1>5. PassesBounded'
  <2> SUFFICES ASSUME NEW k \in Jobs, NEW i \in Jobs
      PROVE /\ state'[k] = "new" \/ k \in Claimed' => passes[k][i] = 0
            /\ state'[k] = "queued" => passes[k][i] <= restarts + 1
            /\ state'[k] = "queued" /\ passes[k][i] = restarts + 1
                 => state'[i] # "new" /\ Behind(i, k)'
    BY <1>2 DEF PassesBounded
  <2>1. \A x \in Jobs : state'[x] = IF x = j THEN s ELSE state[x]
    BY DEF TypeOK
  <2>2. Behind(i, k) => Behind(i, k)'
    BY <1>1, <1>2, <2>1 DEF Behind
  <2> QED BY <1>1, <2>1, <2>2 DEF PassesBounded
<1> QED BY <1>3, <1>4, <1>5

(* A job put off to a time after that of its tick is behind every job that *)
(* was due when the tick began.                                            *)
LEMMA LaterHolds ==
  ASSUME IInv, NEW j \in Jobs, EndHandler(j), NEW d \in Delays, Reschedule(j, d),
         attempts' \in [Jobs -> Nat], streak' \in [Jobs -> Nat], UNCHANGED state
  PROVE  IInv'
<1> USE DEF IInv
<1>1. Claimed' = Claimed \ {j} /\ j \in Claimed
  BY EndsClaim
<1>2. UNCHANGED <<tickAt, waiting, now, restarts, passes>>
  BY DEF EndHandler
<1>3. d \in Nat /\ d > 0 /\ tickAt \in Nat /\ restarts \in Nat
  BY DEF TypeOK
<1>4. \A x \in Jobs : /\ runAt'[x] = IF x = j THEN tickAt + d ELSE runAt[x]
                      /\ lockedAt'[x] = IF x = j THEN 0 ELSE lockedAt[x]
  BY DEF TypeOK, Reschedule
<1>5. TypeOK'
  <2>1. runAt' \in [Jobs -> Nat] /\ lockedAt' \in [Jobs -> Nat]
    <3>1. tickAt + d \in Nat
      BY <1>3
    <3> QED BY <3>1 DEF TypeOK, Reschedule
  <2> QED BY <2>1 DEF TypeOK, EndHandler
<1>6. LocksAreHeld' /\ NewRowsBlank'
  BY <1>1, <1>2, <1>4 DEF LocksAreHeld, NewRowsBlank
<1>7. PassesBounded'
  <2> SUFFICES ASSUME NEW k \in Jobs, NEW i \in Jobs
      PROVE /\ state[k] = "new" \/ k \in Claimed' => passes[k][i] = 0
            /\ state[k] = "queued" => passes[k][i] <= restarts + 1
            /\ state[k] = "queued" /\ passes[k][i] = restarts + 1
                 => state[i] # "new" /\ Behind(i, k)'
    BY <1>2 DEF PassesBounded
  <2>1. /\ state[k] = "new" \/ k \in Claimed => passes[k][i] = 0
        /\ state[k] = "queued" => passes[k][i] <= restarts + 1
        /\ state[k] = "queued" /\ passes[k][i] = restarts + 1 => state[i] # "new" /\ Behind(i, k)
    BY DEF PassesBounded
  <2>2. state[j] = "queued" /\ runAt[j] <= tickAt /\ runAt[j] \in Nat /\ runAt[k] \in Nat
    BY <1>1 DEF LocksAreHeld, TypeOK
  <2>3. CASE k = j
    BY <1>1, <1>3, <2>1, <2>3
  <2>4. CASE k # j
    <3>1. Behind(i, k) => Behind(i, k)'
      <4>1. CASE i = j
        <5>1. Behind(j, k) => runAt[k] < tickAt + d
          BY <1>3, <2>2 DEF Behind
        <5> QED BY <1>4, <2>4, <4>1, <5>1 DEF Behind
      <4>2. CASE i # j
        BY <1>1, <1>2, <1>4, <2>4, <4>2 DEF Behind
      <4> QED BY <4>1, <4>2
    <3> QED BY <1>1, <2>1, <3>1
  <2> QED BY <2>3, <2>4
<1> QED BY <1>5, <1>6, <1>7

(* Every end of a handler is one of the two. *)
LEMMA HandleHolds == ASSUME IInv, NEW j \in Jobs, Handle(j) PROVE IInv'
<1>1. attempts \in [Jobs -> Nat] /\ streak \in [Jobs -> Nat]
  BY DEF IInv, TypeOK
<1>2. CASE Complete(j)
  BY <1>1, <1>2, GoneHolds DEF Complete
<1>3. CASE ThrowAbandoned(j)
  <2>1. streak' \in [Jobs -> Nat]
    BY <1>1, <1>3 DEF ThrowAbandoned
  <2> QED BY <1>3, <2>1, GoneHolds DEF ThrowAbandoned
<1>4. CASE Retry(j)
  <2>1. attempts' \in [Jobs -> Nat] /\ streak' \in [Jobs -> Nat]
    BY <1>1, <1>4 DEF Retry
  <2> QED BY <1>4, <2>1, LaterHolds DEF Retry
<1>5. CASE Defer(j)
  <2>1. attempts' \in [Jobs -> Nat] /\ streak' \in [Jobs -> Nat]
    BY <1>1, <1>5 DEF Defer
  <2> QED BY <1>5, <2>1, LaterHolds DEF Defer
<1>6. CASE ThrowRetried(j)
  <2>1. attempts' \in [Jobs -> Nat] /\ streak' \in [Jobs -> Nat]
    BY <1>1, <1>6 DEF ThrowRetried
  <2> QED BY <1>6, <2>1, LaterHolds DEF ThrowRetried
<1> QED BY <1>2, <1>3, <1>4, <1>5, <1>6 DEF Handle

-----------------------------------------------------------------------------
(* Every step keeps the invariant. *)
LEMMA StepHolds == IInv /\ [Next]_vars => IInv'
<1> SUFFICES ASSUME IInv, [Next]_vars PROVE IInv'
  OBVIOUS
<1>1. ASSUME NEW j \in Jobs, Enqueue(j) PROVE IInv'
  <2>1. now \in Nat
    BY DEF IInv, TypeOK
  <2> QED BY <1>1, <2>1, InsertHolds DEF Enqueue
<1>2. ASSUME NEW j \in Jobs, Spawn(j) PROVE IInv'
  <2>1. PICK d \in Delays \cup {0} : Insert(j, tickAt + d)
    BY <1>2 DEF Spawn
  <2>2. tickAt + d \in Nat
    BY DEF IInv, TypeOK
  <2> QED BY <1>2, <2>1, <2>2, InsertHolds DEF Spawn
<1>3. ASSUME NEW j \in Jobs, StartHandler(j) PROVE IInv'
  BY <1>3, StartHolds
<1>4. ASSUME NEW j \in Jobs, Handle(j) PROVE IInv'
  BY <1>4, HandleHolds
<1>5. CASE Tick
  BY <1>5, TickHolds
<1>6. CASE TimePasses
  BY <1>6 DEF TimePasses, IInv, TypeOK, LocksAreHeld, NewRowsBlank, PassesBounded, Behind,
              Claimed, rows, worker, history
<1>7. CASE Crash
  <2>1. TypeOK'
    BY <1>7 DEF IInv, TypeOK, Crash, rows, history
  <2>2. LocksAreHeld' /\ NewRowsBlank'
    BY <1>7 DEF IInv, TypeOK, Crash, rows, LocksAreHeld, NewRowsBlank, Claimed
  <2>3. PassesBounded'
    BY <1>7 DEF IInv, TypeOK, Crash, rows, history, PassesBounded, Claimed
  <2> QED BY <2>1, <2>2, <2>3 DEF IInv
<1>8. CASE UNCHANGED vars
  BY <1>8 DEF vars, rows, worker, history, IInv, TypeOK, LocksAreHeld, NewRowsBlank,
              PassesBounded, Behind, Claimed
<1> QED BY <1>1, <1>2, <1>3, <1>4, <1>5, <1>6, <1>7, <1>8 DEF Next

(* The invariant holds in every state of every behaviour. *)
THEOREM InvariantHolds == Spec => []IInv
BY InitHolds, StepHolds, PTL DEF Spec

(* The columns and the locals of the worker keep their types, and no job   *)
(* is at once in the list of the tick and in a lane.                       *)
THEOREM TypeCorrect == Spec => []TypeOK
<1>1. IInv => TypeOK
  BY DEF IInv
<1> QED BY <1>1, InvariantHolds, PTL

(* A row is locked exactly while its handler is at work, unless a process  *)
(* died with it.                                                           *)
THEOREM LocksHeld == Spec => []LocksAreHeld
<1>1. IInv => LocksAreHeld
  BY DEF IInv
<1> QED BY <1>1, InvariantHolds, PTL

(* A due job is overtaken by each other job at most once, and once more    *)
(* for every death of the process: no job starves behind retried ones.     *)
THEOREM NoStarvation == Spec => []OvertakenOnce
<1>1. IInv => OvertakenOnce
  BY DEF IInv, PassesBounded, OvertakenOnce
<1> QED BY <1>1, InvariantHolds, PTL

(* No step locks a claimed job anew: a handler that outlives the timeout   *)
(* of its lock is not joined by a second one.                              *)
THEOREM ClaimedOnce == Spec => NeverClaimedTwice
<1>1. IInv /\ [Next]_vars => [\A j \in Claimed : lockedAt'[j] \in {0, lockedAt[j]}]_vars
  <2> SUFFICES ASSUME IInv, Next, NEW j \in Claimed
      PROVE lockedAt'[j] \in {0, lockedAt[j]}
    OBVIOUS
  <2>1. j \in Jobs /\ lockedAt \in [Jobs -> Nat]
    BY DEF IInv, TypeOK, Claimed
  <2>2. ASSUME NEW i \in Jobs, Enqueue(i) \/ Spawn(i) \/ StartHandler(i)
        PROVE lockedAt' = lockedAt
    BY <2>2 DEF Enqueue, Spawn, Insert, StartHandler, rows
  <2>3. ASSUME NEW i \in Jobs, Handle(i)
        PROVE lockedAt' \in {lockedAt, [lockedAt EXCEPT ![i] = 0]}
    BY <2>3 DEF Handle, Complete, ThrowAbandoned, Retry, Defer, ThrowRetried, Reschedule
  <2>4. ~Tick
    BY DEF Tick
  <2>5. TimePasses \/ Crash => lockedAt' = lockedAt
    BY DEF TimePasses, Crash, rows
  <2> QED BY <2>1, <2>2, <2>3, <2>4, <2>5 DEF Next
<1> QED BY <1>1, InvariantHolds, PTL DEF Spec, NeverClaimedTwice
=============================================================================
