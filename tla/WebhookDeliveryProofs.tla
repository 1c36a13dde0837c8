----------------------- MODULE WebhookDeliveryProofs -----------------------
(***************************************************************************)
(* Proofs about WebhookDelivery for every set of deliveries and jobs and   *)
(* every number of retries and restarts.                                   *)
(***************************************************************************)
EXTENDS WebhookDelivery, TLAPS

(* The death of the process keeps the types of what it resets. *)
LEMMA DieType ==
  ASSUME TypeOK, Die
  PROVE  /\ pc' \in [Jobs -> Wait] /\ restarts' \in 0..MaxRestarts
         /\ lost' \in [Deliveries -> Nat]
BY RestartsAssumption DEF Die, TypeOK, Wait

(* So does writing a job, or dying before it is written. *)
LEMMA WithJobType ==
  ASSUME TypeOK, NEW d \in Deliveries, NEW n, WithJob(d, n)
  PROVE  /\ pc' \in [Jobs -> Wait] /\ restarts' \in 0..MaxRestarts
         /\ lost' \in [Deliveries -> Nat]
         /\ queued' \in SUBSET Jobs /\ owner' \in [Jobs -> Deliveries \cup {Nobody}]
         /\ forsaken' \in SUBSET Deliveries
<1>1. CASE n = 2
  BY <1>1 DEF WithJob, Enqueue, TypeOK
<1>2. CASE n # 2
  BY <1>2, DieType DEF WithJob, TypeOK
<1>3. QED
  BY <1>1, <1>2

(* What a handler did not hear of is counted in a number. *)
LEMMA UnheardType ==
  ASSUME TypeOK, NEW j \in Jobs, Unheard(j) \/ lost' = lost
  PROVE  lost' \in [Deliveries -> Nat]
BY DEF Unheard, TypeOK

(* Ending a delivery keeps the types. *)
LEMMA EndType ==
  ASSUME TypeOK, NEW j \in Jobs, owner[j] \in Deliveries, NEW s \in Status, NEW n,
         EndThenComplete(j, s, n)
  PROVE  TypeOK'
<1>1. status' \in [Deliveries -> Status] /\ content' \in [Deliveries -> Content]
  BY DEF EndThenComplete, End, TypeOK, Content
<1>2. CASE n = 2
  <2>1. lost' \in [Deliveries -> Nat]
    BY <1>2, UnheardType DEF EndThenComplete, Heard
  <2>2. QED
    BY <1>1, <1>2, <2>1 DEF EndThenComplete, Complete, Leave, TypeOK, Wait
<1>3. CASE n # 2
  BY <1>1, <1>3, DieType DEF EndThenComplete, TypeOK
<1>4. QED
  BY <1>2, <1>3

(* Every step keeps the types. *)
LEMMA TypeStep ==
  ASSUME TypeOK, \A j \in Jobs : JobSound(j), [Next]_vars
  PROVE  TypeOK'
<1> USE DEF row, queue, history
<1>1. ASSUME NEW d \in Deliveries, Delete(d)
      PROVE  TypeOK'
  BY <1>1 DEF Delete, TypeOK, Status
<1>2. ASSUME NEW d \in Deliveries, NEW n \in 1..2, Emit(d, n)
      PROVE  TypeOK'
  <2>1. status' \in [Deliveries -> Status]
    BY <1>2 DEF Emit, TypeOK, Status
  <2>2. PICK c \in Content : content' = [content EXCEPT ![d] = c]
    BY <1>2 DEF Emit, Content
  <2>3. content' \in [Deliveries -> Content]
    BY <2>2 DEF TypeOK
  <2>4. QED
    BY <1>2, <2>1, <2>3, WithJobType DEF Emit, TypeOK
<1>3. ASSUME NEW d \in Deliveries, NEW n \in 1..2, Repeat(d, n)
      PROVE  TypeOK'
  <2>1. status' \in [Deliveries -> Status]
    BY <1>3 DEF Repeat, TypeOK, Status
  <2>2. QED
    BY <1>3, <2>1, WithJobType DEF Repeat, TypeOK
<1>4. ASSUME NEW j \in Jobs, DropFinished(j) \/ Begin(j) \/ Post(j)
      PROVE  TypeOK'
  BY <1>4 DEF DropFinished, Begin, Post, Complete, TypeOK, Wait
<1>5. ASSUME NEW j \in Jobs, ReceiverTakes(j)
      PROVE  TypeOK'
  <2>1. owner[j] \in Deliveries
    BY <1>5 DEF ReceiverTakes, JobSound
  <2>2. taken' \in [Deliveries -> Nat]
    BY <1>5, <2>1 DEF ReceiverTakes, TypeOK
  <2>3. QED
    BY <1>5, <2>2 DEF ReceiverTakes, TypeOK, Wait
<1>6. ASSUME NEW j \in Jobs, Retries(j)
      PROVE  TypeOK'
  <2>1. lost' \in [Deliveries -> Nat]
    BY <1>6, UnheardType DEF Retries
  <2>2. attempts' \in [Jobs -> 0..MaxUnexpected]
    BY <1>6, LimitsAssumption DEF Retries, TryAgain, TypeOK
  <2>3. QED
    BY <1>6, <2>1, <2>2 DEF Retries, TryAgain, Leave, TypeOK, Wait
<1>7. ASSUME NEW j \in Jobs, Throws(j)
      PROVE  TypeOK'
  <2>1. attempts' \in [Jobs -> 0..MaxUnexpected]
    BY <1>7, LimitsAssumption DEF Throws, TryAgain, TypeOK
  <2>2. owner[j] \in Deliveries
    BY <1>7 DEF Throws, JobSound, Ready
  <2>3. QED
    BY <1>7, <2>1, <2>2 DEF Throws, TryAgain, Complete, Leave, TypeOK, Wait
<1>8. ASSUME NEW j \in Jobs, NEW n, Closes(j, n)
      PROVE  TypeOK'
  <2>1. owner[j] \in Deliveries
    BY <1>8 DEF Closes, DropUnreachable, Delivered, Fails, Ready, JobSound
  <2>2. QED
    BY <1>8, <2>1, EndType DEF Closes, DropUnreachable, Delivered, Fails, Status
<1>9. CASE Crash
  BY <1>9, DieType DEF Crash, TypeOK
<1>10. CASE UNCHANGED vars
  BY <1>10 DEF vars, TypeOK
<1>11. QED
  BY <1>1, <1>2, <1>3, <1>4, <1>5, <1>6, <1>7, <1>8, <1>9, <1>10 DEF Next, Handle

-----------------------------------------------------------------------------
HasJob(d) == \E j \in queued : owner[j] = d

(* What the inductive invariant says of one delivery. *)
Good(d) ==
  /\ status[d] = "pending" /\ d \notin forsaken => HasJob(d)
  /\ d \notin doubled => \A j, k \in queued : owner[j] = d /\ owner[k] = d => j = k
  /\ status[d] = "pending" => content[d] # "gone"
  /\ status[d] \in {"delivered", "failed"} => content[d] # "leaves"
  /\ AbsentIsBare(d)
  /\ d \notin doubled /\ HasJob(d) => status[d] \in {"pending", "deleted"}
  /\ d \notin doubled =>
       /\ taken[d] <= lost[d] + 1
       /\ Unanswered(d) => taken[d] = lost[d] + 1
       /\ ~Unanswered(d) /\ (HasJob(d) \/ status[d] \in {"pending", "failed"})
            => taken[d] = lost[d]

Sound == \A j \in Jobs : JobSound(j)

(* The invariant is what it says of types, jobs and every delivery. *)
LEMMA IInvIsGood == IInv <=> TypeOK /\ Sound /\ \A d \in Deliveries : Good(d)
<1>1. \A d : JobsOf(d) # {} <=> HasJob(d)
  BY DEF JobsOf, HasJob
<1>2. TypeOK => (OneJobPerDelivery
        <=> \A d \in Deliveries : d \notin doubled
              => \A j, k \in queued : owner[j] = d /\ owner[k] = d => j = k)
  BY DEF OneJobPerDelivery, JobsOf, TypeOK
<1>3. QED
  BY <1>1, <1>2 DEF IInv, Good, Sound, PendingIsOwed, ContentLeavesWithStatus, JobFindsOpen,
                    CallsCounted

(* What a step leaves of a delivery it is not about. *)
SameRow(d) ==
  /\ status'[d] = status[d] /\ content'[d] = content[d] /\ taken'[d] = taken[d]
  /\ (d \in forsaken) => (d \in forsaken')
  /\ (d \in doubled) => (d \in doubled')

SameJobs(d) ==
  \A j \in Jobs :
    /\ owner'[j] = d <=> owner[j] = d
    /\ owner[j] = d => (j \in queued' <=> j \in queued)

SamePc(d) == \A j \in Jobs : owner[j] = d => pc'[j] = pc[j]

(* A delivery a step is not about keeps its part of the invariant. *)
LEMMA SameGood ==
  ASSUME TypeOK, TypeOK', NEW d \in Deliveries, Good(d),
         SameRow(d), SameJobs(d), SamePc(d), lost'[d] = lost[d]
  PROVE  Good(d)'
<1>1. HasJob(d)' <=> HasJob(d)
  BY DEF HasJob, SameJobs, TypeOK
<1>2. Unanswered(d)' <=> Unanswered(d)
  BY DEF Unanswered, SameJobs, SamePc
<1>3. \A j, k \in queued' : owner'[j] = d /\ owner'[k] = d
        => j \in queued /\ k \in queued /\ owner[j] = d /\ owner[k] = d
  BY DEF SameJobs, TypeOK
<1>4. AbsentIsBare(d)'
  BY DEF Good, AbsentIsBare, SameRow, SameJobs
<1>5. QED
  BY <1>1, <1>2, <1>3, <1>4 DEF Good, SameRow

(* So does every delivery whose row and jobs survive the process. *)
LEMMA DieGood ==
  ASSUME TypeOK, TypeOK', Sound, NEW d \in Deliveries, Good(d),
         SameRow(d), SameJobs(d), Die
  PROVE  Good(d)'
<1>1. HasJob(d)' <=> HasJob(d)
  BY DEF HasJob, SameJobs, TypeOK
<1>2. ~Unanswered(d)' /\ pc' = [j \in Jobs |-> "idle"]
  BY DEF Unanswered, Die
<1>3. lost'[d] = IF Unanswered(d) THEN lost[d] + 1 ELSE lost[d]
  BY DEF Die
<1>4. Unanswered(d) => HasJob(d)
  BY DEF Unanswered, HasJob, Sound, JobSound
<1>5. \A j, k \in queued' : owner'[j] = d /\ owner'[k] = d
        => j \in queued /\ k \in queued /\ owner[j] = d /\ owner[k] = d
  BY DEF SameJobs, TypeOK
<1>6. AbsentIsBare(d)'
  <2>1. status[d] = "absent" => ~Unanswered(d)
    BY DEF Good, AbsentIsBare, Unanswered
  <2>2. QED
    BY <1>3, <2>1 DEF Good, AbsentIsBare, SameRow, SameJobs
<1>7. taken[d] \in Nat /\ lost[d] \in Nat
  BY DEF TypeOK
<1>8. QED
  BY <1>1, <1>2, <1>3, <1>4, <1>5, <1>6, <1>7 DEF Good, SameRow

(* Every step keeps handlers with their jobs and jobs with their delivery. *)
LEMMA SoundStep ==
  ASSUME TypeOK, Sound, [Next]_vars
  PROVE  Sound'
<1> USE DEF row, queue, history
<1>1. ASSUME NEW d \in Deliveries, Delete(d)
      PROVE  Sound'
  BY <1>1 DEF Delete, Sound, JobSound
<1>2. ASSUME NEW d \in Deliveries, NEW n \in 1..2, Emit(d, n) \/ Repeat(d, n)
      PROVE  Sound'
  <2>1. WithJob(d, n) /\ UNCHANGED doubled
    BY <1>2 DEF Emit, Repeat
  <2>2. CASE n = 2
    BY <2>1, <2>2 DEF WithJob, Enqueue, Sound, JobSound, TypeOK
  <2>3. CASE n # 2
    BY <2>1, <2>3 DEF WithJob, Die, Sound, JobSound
  <2>4. QED
    BY <2>2, <2>3
<1>3. ASSUME NEW j \in Jobs, DropFinished(j)
      PROVE  Sound'
  BY <1>3 DEF DropFinished, Complete, Ready, Sound, JobSound
<1>4. ASSUME NEW j \in Jobs, Begin(j) \/ Post(j) \/ ReceiverTakes(j) \/ Retries(j)
      PROVE  Sound'
  BY <1>4 DEF Begin, Post, ReceiverTakes, Retries, TryAgain, Leave, Ready, Sound, JobSound, TypeOK
<1>5. ASSUME NEW j \in Jobs, Throws(j)
      PROVE  Sound'
  BY <1>5 DEF Throws, TryAgain, Complete, Leave, Sound, JobSound, TypeOK
<1>6. ASSUME NEW j \in Jobs, NEW n, Closes(j, n)
      PROVE  Sound'
  <2>1. PICK s : EndThenComplete(j, s, n)
    BY <1>6 DEF Closes, DropUnreachable, Delivered, Fails
  <2>2. CASE n = 2
    BY <2>1, <2>2 DEF EndThenComplete, Complete, Leave, Sound, JobSound, TypeOK
  <2>3. CASE n # 2
    BY <2>1, <2>3 DEF EndThenComplete, Die, Sound, JobSound
  <2>4. QED
    BY <2>2, <2>3
<1>7. CASE Crash
  BY <1>7 DEF Crash, Die, Sound, JobSound
<1>8. CASE UNCHANGED vars
  BY <1>8 DEF vars, Sound, JobSound
<1>9. QED
  BY <1>1, <1>2, <1>3, <1>4, <1>5, <1>6, <1>7, <1>8 DEF Next, Handle

(* A row that gets a job, new or repeated: what the row must be like before. *)
LEMMA WithJobGood ==
  ASSUME TypeOK, TypeOK', Sound, \A d \in Deliveries : Good(d),
         NEW d \in Deliveries, NEW n \in 1..2, WithJob(d, n),
         status[d] \in {"absent", "failed"}, status' = [status EXCEPT ![d] = "pending"],
         content'[d] # "gone",
         \A e \in Deliveries : e # d => content'[e] = content[e],
         UNCHANGED <<taken, doubled>>
  PROVE  \A e \in Deliveries : Good(e)'
<1>1. ASSUME NEW e \in Deliveries, e # d, n = 2
      PROVE  Good(e)'
  <2>1. SameRow(e) /\ SamePc(e) /\ lost'[e] = lost[e]
    BY <1>1 DEF SameRow, SamePc, WithJob, TypeOK
  <2>2. SameJobs(e)
    BY <1>1, DeliveriesAssumption DEF SameJobs, WithJob, Enqueue, TypeOK
  <2>3. QED
    BY <2>1, <2>2, SameGood
<1>2. ASSUME NEW e \in Deliveries, e # d, n # 2
      PROVE  Good(e)'
  <2>1. SameRow(e) /\ SameJobs(e) /\ Die
    BY <1>2 DEF SameRow, SameJobs, WithJob, TypeOK
  <2>2. QED
    BY <2>1, DieGood
<1>3. d \notin doubled => ~HasJob(d) /\ ~Unanswered(d) /\ taken[d] = lost[d]
  <2>1. d \notin doubled => ~HasJob(d)
    BY DEF Good
  <2>2. Unanswered(d) => HasJob(d)
    BY DEF Unanswered, HasJob, Sound, JobSound
  <2>3. d \notin doubled /\ status[d] = "absent" => taken[d] = lost[d]
    BY DEF Good, AbsentIsBare
  <2>4. QED
    BY <2>1, <2>2, <2>3 DEF Good
<1>4. status'[d] = "pending" /\ AbsentIsBare(d)'
  BY DEF TypeOK, AbsentIsBare
<1>5. CASE n = 2
  <2>1. PICK k \in Jobs : owner[k] = Nobody /\ owner' = [owner EXCEPT ![k] = d]
                           /\ queued' = queued \cup {k}
    BY <1>5 DEF WithJob, Enqueue
  <2>2. HasJob(d)'
    BY <2>1 DEF HasJob, TypeOK
  <2>3. pc' = pc /\ lost' = lost /\ doubled' = doubled
    BY <1>5 DEF WithJob
  <2>4. d \notin doubled => \A i \in queued' : owner'[i] = d => i = k
    BY <1>3, <2>1 DEF HasJob, TypeOK
  <2>5. d \notin doubled => ~Unanswered(d)'
    <3>1. k \notin queued
      BY <2>1, DeliveriesAssumption DEF Sound, JobSound
    <3>2. pc[k] = "idle"
      BY <2>1, <3>1 DEF Sound, JobSound
    <3>3. QED
      BY <1>3, <2>1, <2>3, <3>2 DEF Unanswered, TypeOK
  <2>6. taken'[d] = taken[d] /\ taken[d] \in Nat
    BY DEF TypeOK
  <2>7. Good(d)'
    BY <1>3, <1>4, <2>2, <2>3, <2>4, <2>5, <2>6 DEF Good
  <2>8. QED
    BY <1>1, <1>5, <2>7
<1>6. CASE n # 2
  <2>1. Die /\ owner' = owner /\ queued' = queued /\ d \in forsaken'
    BY <1>6 DEF WithJob
  <2>2. ~Unanswered(d)'
    BY <2>1 DEF Unanswered, Die
  <2>3. d \notin doubled => lost'[d] = lost[d] /\ ~HasJob(d)'
    BY <1>3, <2>1 DEF Die, HasJob
  <2>4. taken'[d] = taken[d] /\ taken[d] \in Nat
    BY DEF TypeOK
  <2>5. Good(d)'
    BY <1>3, <1>4, <2>1, <2>2, <2>3, <2>4 DEF Good, HasJob
  <2>6. QED
    BY <1>2, <1>6, <2>5
<1>7. QED
  BY <1>5, <1>6

(* A job at work or ready is the only one of its delivery. *)
LEMMA OwnJob ==
  ASSUME TypeOK, Sound, \A d \in Deliveries : Good(d), NEW j \in Jobs, j \in queued
  PROVE  /\ owner[j] \in Deliveries /\ HasJob(owner[j])
         /\ owner[j] \notin doubled => \A k \in Jobs : k # j /\ owner[k] = owner[j]
                                         => k \notin queued /\ pc[k] = "idle"
BY DEF Sound, JobSound, HasJob, Good

(* Ending a delivery, in one go or cut by the death of the process. *)
LEMMA EndGood ==
  ASSUME TypeOK, TypeOK', Sound, \A d \in Deliveries : Good(d),
         NEW j \in Jobs, j \in queued, NEW s \in {"delivered", "failed"}, NEW n,
         s = "delivered" => pc[j] = "taken",
         EndThenComplete(j, s, n)
  PROVE  \A e \in Deliveries : Good(e)'
<1>0. PICK d \in Deliveries : owner[j] = d
  BY OwnJob
<1>1. /\ d \in Deliveries /\ HasJob(d)
      /\ d \notin doubled => \A k \in Jobs : k # j /\ owner[k] = d => k \notin queued /\ pc[k] = "idle"
  BY <1>0, OwnJob
<1>2. /\ status'[d] = IF status[d] = "deleted" THEN "deleted" ELSE s
      /\ status[d] # "deleted" => content'[d] # "leaves"
      /\ \A e \in Deliveries : e # d => status'[e] = status[e] /\ content'[e] = content[e]
      /\ UNCHANGED <<owner, taken, forsaken>>
  BY <1>1, <1>0 DEF EndThenComplete, End, TypeOK, Content
<1>3. AbsentIsBare(d)'
  BY <1>2 DEF AbsentIsBare
<1>4. taken[d] \in Nat /\ lost[d] \in Nat
  BY <1>1 DEF TypeOK
<1>5. CASE n = 2
  <2>1. /\ queued' = queued \ {j} /\ pc' = [pc EXCEPT ![j] = "idle"] /\ UNCHANGED doubled
        /\ Heard(j, s)
    BY <1>5 DEF EndThenComplete, Complete, Leave
  <2>2. lost'[d] = IF s # "delivered" /\ pc[j] = "taken" THEN lost[d] + 1 ELSE lost[d]
    BY <1>0, <1>1, <2>1 DEF Heard, Unheard, TypeOK
  <2>3. ASSUME d \notin doubled
        PROVE  ~HasJob(d)' /\ ~Unanswered(d)'
    BY <1>0, <1>1, <1>2, <2>1, <2>3 DEF HasJob, Unanswered, TypeOK
  <2>4. ASSUME d \notin doubled
        PROVE  taken[d] <= lost'[d] + 1 /\ (s = "failed" => taken[d] = lost'[d])
    <3>1. CASE pc[j] = "taken"
      <4>1. Unanswered(d)
        BY <1>0, <3>1 DEF Unanswered
      <4>2. QED
        BY <1>1, <1>4, <2>2, <2>4, <3>1, <4>1 DEF Good
    <3>2. CASE pc[j] # "taken"
      <4>1. ~Unanswered(d)
        BY <1>0, <1>1, <2>4, <3>2 DEF Unanswered
      <4>2. QED
        BY <1>1, <1>4, <2>2, <2>4, <3>2, <4>1 DEF Good
    <3>3. QED
      BY <3>1, <3>2
  <2>5. Good(d)'
    BY <1>1, <1>2, <1>3, <2>1, <2>3, <2>4 DEF Good, HasJob
  <2>6. ASSUME NEW e \in Deliveries, e # d
        PROVE  Good(e)'
    <3>1. SameRow(e) /\ SamePc(e) /\ SameJobs(e)
      BY <1>0, <1>2, <2>1, <2>6 DEF SameRow, SamePc, SameJobs, TypeOK
    <3>2. lost'[e] = lost[e]
      BY <1>0, <2>1, <2>6 DEF Heard, Unheard, TypeOK
    <3>3. QED
      BY <3>1, <3>2, SameGood
  <2>7. QED
    BY <2>5, <2>6
<1>6. CASE n # 2
  <2>1. Die /\ doubled' = doubled \cup {d} /\ UNCHANGED queued
    BY <1>0, <1>6 DEF EndThenComplete
  <2>2. Good(d)'
    BY <1>1, <1>2, <1>3, <2>1 DEF Good
  <2>3. ASSUME NEW e \in Deliveries, e # d
        PROVE  Good(e)'
    <3>1. SameRow(e) /\ SameJobs(e)
      BY <1>2, <2>1, <2>3 DEF SameRow, SameJobs
    <3>2. QED
      BY <2>1, <3>1, DieGood
  <2>4. QED
    BY <2>2, <2>3
<1>7. QED
  BY <1>5, <1>6

(* A handler that leaves its job for later counts the answer it missed. *)
LEMMA LeaveGood ==
  ASSUME TypeOK, TypeOK', Sound, \A d \in Deliveries : Good(d),
         NEW j \in Jobs, j \in queued,
         pc' = [pc EXCEPT ![j] = "idle"], Unheard(j),
         UNCHANGED <<row, queued, owner, taken, doubled>>,
         forsaken \subseteq forsaken'
  PROVE  \A e \in Deliveries : Good(e)'
<1>0. PICK d \in Deliveries : owner[j] = d
  BY OwnJob
<1>1. /\ d \in Deliveries /\ HasJob(d)
      /\ d \notin doubled => \A k \in Jobs : k # j /\ owner[k] = d => k \notin queued /\ pc[k] = "idle"
  BY <1>0, OwnJob
<1>2. lost'[d] = IF pc[j] = "taken" THEN lost[d] + 1 ELSE lost[d]
  BY <1>0, <1>1 DEF Unheard, TypeOK
<1>3. \A e \in Deliveries : e # d => lost'[e] = lost[e]
  BY <1>0 DEF Unheard, TypeOK
<1>4. taken[d] \in Nat /\ lost[d] \in Nat
  BY <1>1 DEF TypeOK
<1>5. HasJob(d)' /\ AbsentIsBare(d)'
  BY <1>0, <1>1 DEF HasJob, Good, AbsentIsBare, row
<1>6. ASSUME d \notin doubled
      PROVE  ~Unanswered(d)' /\ taken[d] = lost'[d]
  <2>1. ~Unanswered(d)'
    BY <1>0, <1>1, <1>6 DEF Unanswered, TypeOK
  <2>2. CASE pc[j] = "taken"
    <3>1. Unanswered(d)
      BY <1>0, <2>2 DEF Unanswered
    <3>2. QED
      BY <1>1, <1>2, <1>4, <1>6, <2>1, <2>2, <3>1 DEF Good
  <2>3. CASE pc[j] # "taken"
    <3>1. ~Unanswered(d)
      BY <1>0, <1>1, <1>6, <2>3 DEF Unanswered
    <3>2. QED
      BY <1>1, <1>2, <1>4, <1>6, <2>1, <2>3, <3>1 DEF Good
  <2>4. QED
    BY <2>2, <2>3
<1>7. Good(d)'
  BY <1>1, <1>4, <1>5, <1>6 DEF Good, row
<1>8. ASSUME NEW e \in Deliveries, e # d
      PROVE  Good(e)'
  <2>1. SameRow(e) /\ SamePc(e) /\ SameJobs(e)
    BY <1>0, <1>8 DEF SameRow, SamePc, SameJobs, TypeOK, row
  <2>2. QED
    BY <1>3, <1>8, <2>1, SameGood
<1>9. QED
  BY <1>7, <1>8

(* Every step keeps what the invariant says of the deliveries. *)
LEMMA GoodStep ==
  ASSUME TypeOK, TypeOK', Sound, \A d \in Deliveries : Good(d), [Next]_vars
  PROVE  \A e \in Deliveries : Good(e)'
<1> USE DEF row, queue, history
<1>1. ASSUME NEW d \in Deliveries, Delete(d)
      PROVE  \A e \in Deliveries : Good(e)'
  <2>1. status' = [status EXCEPT ![d] = "deleted"] /\ UNCHANGED <<content, queue, pc, history>>
    BY <1>1 DEF Delete
  <2>2. Good(d)'
    BY <2>1 DEF Good, AbsentIsBare, HasJob, Unanswered, TypeOK
  <2>3. ASSUME NEW e \in Deliveries, e # d
        PROVE  Good(e)'
    <3>1. SameRow(e) /\ SameJobs(e) /\ SamePc(e) /\ lost'[e] = lost[e]
      BY <2>1, <2>3 DEF SameRow, SameJobs, SamePc, TypeOK
    <3>2. QED
      BY <3>1, SameGood
  <2>4. QED
    BY <2>2, <2>3
<1>2. ASSUME NEW d \in Deliveries, NEW n \in 1..2, Emit(d, n)
      PROVE  \A e \in Deliveries : Good(e)'
  <2>1. content'[d] # "gone" /\ \A e \in Deliveries : e # d => content'[e] = content[e]
    <3>1. PICK c \in {"kept", "leaves"} : content' = [content EXCEPT ![d] = c]
      BY <1>2 DEF Emit
    <3>2. QED
      BY <3>1 DEF TypeOK
  <2>2. QED
    BY <1>2, <2>1, WithJobGood DEF Emit
<1>3. ASSUME NEW d \in Deliveries, NEW n \in 1..2, Repeat(d, n)
      PROVE  \A e \in Deliveries : Good(e)'
  BY <1>3, WithJobGood DEF Repeat
<1>4. ASSUME NEW j \in Jobs, DropFinished(j)
      PROVE  \A e \in Deliveries : Good(e)'
  <2>1. /\ j \in queued /\ pc[j] = "idle" /\ status[owner[j]] # "pending"
        /\ queued' = queued \ {j} /\ UNCHANGED <<row, owner, pc, history>>
    BY <1>4 DEF DropFinished, Ready, Complete
  <2>2. PICK d \in Deliveries : owner[j] = d
    BY <2>1, OwnJob
  <2>3. Good(d)'
    BY <2>1, <2>2 DEF Good, AbsentIsBare, HasJob, Unanswered
  <2>4. ASSUME NEW e \in Deliveries, e # d
        PROVE  Good(e)'
    <3>1. SameRow(e) /\ SameJobs(e) /\ SamePc(e) /\ lost'[e] = lost[e]
      BY <2>1, <2>2, <2>4 DEF SameRow, SameJobs, SamePc
    <3>2. QED
      BY <3>1, SameGood
  <2>5. QED
    BY <2>3, <2>4
<1>5. ASSUME NEW j \in Jobs, Begin(j) \/ Post(j)
      PROVE  \A e \in Deliveries : Good(e)'
  <2>1. pc[j] # "taken" /\ (pc' = [pc EXCEPT ![j] = "resolve"] \/ pc' = [pc EXCEPT ![j] = "post"])
        /\ UNCHANGED <<row, queue, history>>
    BY <1>5 DEF Begin, Post, Ready
  <2>2. ASSUME NEW e \in Deliveries
        PROVE  Good(e)'
    <3>1. Unanswered(e)' <=> Unanswered(e)
      BY <2>1 DEF Unanswered, TypeOK
    <3>2. QED
      BY <2>1, <3>1 DEF Good, AbsentIsBare, HasJob
  <2>3. QED
    BY <2>2
<1>6. ASSUME NEW j \in Jobs, ReceiverTakes(j)
      PROVE  \A e \in Deliveries : Good(e)'
  <2>1. /\ pc[j] = "post" /\ pc' = [pc EXCEPT ![j] = "taken"]
        /\ taken' = [taken EXCEPT ![owner[j]] = @ + 1]
        /\ UNCHANGED <<row, queue, lost, forsaken, doubled>>
        /\ j \in queued
    BY <1>6 DEF ReceiverTakes, Sound, JobSound
  <2>2. PICK d \in Deliveries : owner[j] = d
    BY <2>1, OwnJob
  <2>3. d \notin doubled => ~Unanswered(d) /\ HasJob(d)
    BY <2>1, <2>2, OwnJob DEF Unanswered
  <2>4. Unanswered(d)'
    BY <2>1, <2>2 DEF Unanswered, TypeOK
  <2>5. taken'[d] = taken[d] + 1 /\ taken[d] \in Nat /\ lost[d] \in Nat
    BY <2>1, <2>2 DEF TypeOK
  <2>6. AbsentIsBare(d)'
    BY <2>1, <2>2 DEF Good, AbsentIsBare
  <2>7. Good(d)'
    BY <2>1, <2>3, <2>4, <2>5, <2>6 DEF Good, HasJob
  <2>8. ASSUME NEW e \in Deliveries, e # d
        PROVE  Good(e)'
    <3>1. SameRow(e) /\ SameJobs(e) /\ SamePc(e) /\ lost'[e] = lost[e]
      BY <2>1, <2>2, <2>8 DEF SameRow, SameJobs, SamePc, TypeOK
    <3>2. QED
      BY <3>1, SameGood
  <2>9. QED
    BY <2>7, <2>8
<1>7. ASSUME NEW j \in Jobs, Retries(j)
      PROVE  \A e \in Deliveries : Good(e)'
  <2>1. j \in queued
    BY <1>7 DEF Retries, Sound, JobSound
  <2>2. QED
    BY <1>7, <2>1, LeaveGood DEF Retries, TryAgain, Leave
<1>8. ASSUME NEW j \in Jobs, Throws(j)
      PROVE  \A e \in Deliveries : Good(e)'
  <2>1. /\ j \in queued /\ pc[j] # "taken" /\ pc' = [pc EXCEPT ![j] = "idle"]
        /\ UNCHANGED <<row, owner, taken, lost, doubled>>
    BY <1>8 DEF Throws, Ready, Leave, TryAgain, Sound, JobSound
  <2>2. CASE queued' = queued /\ forsaken' = forsaken
    BY <2>1, <2>2, LeaveGood DEF Unheard
  <2>3. CASE queued' = queued \ {j} /\ forsaken' = forsaken \cup {owner[j]}
    <3>1. PICK d \in Deliveries : owner[j] = d
      BY <2>1, OwnJob
    <3>2. \A e \in Deliveries : Unanswered(e)' <=> Unanswered(e)
      BY <2>1 DEF Unanswered, TypeOK
    <3>3. d \notin doubled => HasJob(d)
      BY <2>1, <3>1 DEF HasJob
    <3>4. AbsentIsBare(d)'
      BY <2>1 DEF Good, AbsentIsBare
    <3>5. HasJob(d)' => HasJob(d)
      BY <2>1, <2>3 DEF HasJob
    <3>6. d \in forsaken'
      BY <2>3, <3>1
    <3>7. Good(d)'
      BY <2>1, <2>3, <3>2, <3>3, <3>4, <3>5, <3>6 DEF Good
    <3>8. ASSUME NEW e \in Deliveries, e # d
          PROVE  Good(e)'
      <4>1. SameRow(e) /\ SameJobs(e) /\ SamePc(e) /\ lost'[e] = lost[e]
        BY <2>1, <2>3, <3>1, <3>8 DEF SameRow, SameJobs, SamePc, TypeOK
      <4>2. QED
        BY <4>1, SameGood
    <3>9. QED
      BY <3>7, <3>8
  <2>4. QED
    BY <1>8, <2>2, <2>3 DEF Throws, TryAgain, Complete
<1>9. ASSUME NEW j \in Jobs, NEW n, Closes(j, n)
      PROVE  \A e \in Deliveries : Good(e)'
  <2>1. PICK s \in {"delivered", "failed"} :
          EndThenComplete(j, s, n) /\ (s = "delivered" => pc[j] = "taken")
    BY <1>9 DEF Closes, DropUnreachable, Delivered, Fails
  <2>2. j \in queued
    BY <1>9 DEF Closes, DropUnreachable, Delivered, Fails, Ready, Sound, JobSound
  <2>3. QED
    BY <2>1, <2>2, EndGood
<1>10. CASE Crash
  <2>1. \A e \in Deliveries : SameRow(e) /\ SameJobs(e)
    BY <1>10 DEF Crash, SameRow, SameJobs
  <2>2. QED
    BY <1>10, <2>1, DieGood DEF Crash
<1>11. CASE UNCHANGED vars
  <2>1. UNCHANGED <<status, content, queue, pc, history>>
    BY <1>11 DEF vars
  <2>2. \A e \in Deliveries : SameRow(e) /\ SameJobs(e) /\ SamePc(e) /\ lost'[e] = lost[e]
    BY <2>1 DEF SameRow, SameJobs, SamePc
  <2>3. QED
    BY <2>2, SameGood
<1>12. QED
  BY <1>1, <1>2, <1>3, <1>4, <1>5, <1>6, <1>7, <1>8, <1>9, <1>10, <1>11 DEF Next, Handle

-----------------------------------------------------------------------------
(* Nothing is there at first. *)
LEMMA InitHolds == Init => IInv
<1> SUFFICES ASSUME Init PROVE IInv
  OBVIOUS
<1>1. TypeOK
  BY RestartsAssumption, LimitsAssumption DEF Init, TypeOK, Status, Content, Wait
<1>2. Sound
  BY DEF Init, Sound, JobSound
<1>3. ASSUME NEW d \in Deliveries
      PROVE  Good(d)
  <2>1. ~HasJob(d) /\ ~Unanswered(d) /\ queued = {}
    BY DEF Init, HasJob, Unanswered
  <2>2. \A j \in Jobs : owner[j] # d
    BY DeliveriesAssumption DEF Init
  <2>3. status[d] = "absent" /\ content[d] = "kept" /\ taken[d] = 0 /\ lost[d] = 0
    BY DEF Init
  <2>4. QED
    BY <2>1, <2>2, <2>3 DEF Good, AbsentIsBare
<1>4. QED
  BY <1>1, <1>2, <1>3, IInvIsGood

(* The invariant is inductive. *)
LEMMA StepHolds == IInv /\ [Next]_vars => IInv'
<1> SUFFICES ASSUME IInv, [Next]_vars PROVE IInv'
  OBVIOUS
<1>1. TypeOK /\ Sound /\ \A d \in Deliveries : Good(d)
  BY IInvIsGood
<1>2. TypeOK'
  BY <1>1, TypeStep DEF Sound
<1>3. Sound'
  BY <1>1, SoundStep
<1>4. \A d \in Deliveries : Good(d)'
  BY <1>1, <1>2, GoodStep
<1>5. \A d : (JobsOf(d) # {})' <=> HasJob(d)'
  BY DEF JobsOf, HasJob
<1>6. OneJobPerDelivery'
  BY <1>2, <1>4 DEF Good, OneJobPerDelivery, JobsOf, TypeOK
<1>7. QED
  BY <1>2, <1>3, <1>4, <1>5, <1>6
     DEF IInv, Good, Sound, PendingIsOwed, ContentLeavesWithStatus, JobFindsOpen, CallsCounted

-----------------------------------------------------------------------------
(* The inductive invariant holds in every reachable state: deliveries,     *)
(* jobs, handlers and calls agree whatever the interleaving and the kills. *)
THEOREM InvariantHolds == Spec => []IInv
BY InitHolds, StepHolds, PTL DEF Spec

(* Rows, jobs and handlers keep their types. *)
THEOREM TypeCorrect == Spec => []TypeOK
<1>1. IInv => TypeOK
  BY DEF IInv
<1>2. QED
  BY <1>1, InvariantHolds, PTL

(* A waiting delivery has a job, unless the process died before the job    *)
(* was written or the worker gave it up.                                   *)
THEOREM PendingHasJob == Spec => []PendingIsOwed
<1>1. IInv => PendingIsOwed
  BY DEF IInv
<1>2. QED
  BY <1>1, InvariantHolds, PTL

(* The premise of the worker's lanes: a delivery has one job at a time,    *)
(* unless a kill separated its final status from jobs.complete.            *)
THEOREM OneJobAtATime == Spec => []OneJobPerDelivery
<1>1. IInv => OneJobPerDelivery
  BY DEF IInv
<1>2. QED
  BY <1>1, InvariantHolds, PTL

(* The receiver gets an event once more only for an answer that was lost.  *)
THEOREM RepetitionsAreLosses == Spec => []RepeatedOnlyAfterLoss
<1>1. IInv => RepeatedOnlyAfterLoss
  BY DEF IInv, CallsCounted, RepeatedOnlyAfterLoss
<1>2. QED
  BY <1>1, InvariantHolds, PTL

(* The content that may not stay is there as long as it can be sent, and   *)
(* no longer.                                                              *)
THEOREM ContentIsNotKept == Spec => []ContentLeavesWithStatus
<1>1. IInv => ContentLeavesWithStatus
  BY DEF IInv
<1>2. QED
  BY <1>1, InvariantHolds, PTL

(* A delivery that ends is one a job was there for. *)
LEMMA DeliveredKept ==
  ASSUME IInv, [Next]_vars, NEW d \in Deliveries, d \notin doubled', status[d] = "delivered"
  PROVE  status'[d] \in {"delivered", "deleted"}
<1> USE DEF row, queue, history
<1>1. TypeOK /\ Sound /\ \A e \in Deliveries : Good(e)
  BY IInvIsGood
<1>2. CASE \E e \in Deliveries : Delete(e) \/ \E n \in 1..2 : Emit(e, n) \/ Repeat(e, n)
  BY <1>1, <1>2 DEF Delete, Emit, Repeat, TypeOK
<1>3. ASSUME NEW j \in Jobs, NEW n, Closes(j, n)
      PROVE  status'[d] = "delivered"
  <2>1. PICK s : EndThenComplete(j, s, n) /\ j \in queued
    BY <1>1, <1>3 DEF Closes, DropUnreachable, Delivered, Fails, Ready, Sound, JobSound
  <2>2. owner[j] \in Deliveries
    BY <1>1, <2>1 DEF Sound, JobSound
  <2>3. d \in doubled => d \in doubled'
    BY <2>1 DEF EndThenComplete
  <2>4. owner[j] # d
    BY <1>1, <2>1, <2>3 DEF Good, HasJob
  <2>5. QED
    BY <1>1, <2>1, <2>2, <2>4 DEF EndThenComplete, End, TypeOK
<1>4. CASE status' = status
  BY <1>4
<1>5. QED
  BY <1>2, <1>3, <1>4 DEF Next, Handle, DropFinished, Begin, Post, Retries, Throws, ReceiverTakes,
                          Crash, vars

(* What is delivered stays delivered. *)
THEOREM DeliveredIsFinal == Spec => DeliveredStays
<1>1. IInv /\ [Next]_vars
        => [\A d \in Deliveries \ doubled' :
              status[d] = "delivered" => status'[d] \in {"delivered", "deleted"}]_vars
  BY DeliveredKept
<1>2. QED
  BY <1>1, InvariantHolds, PTL DEF Spec, DeliveredStays

-----------------------------------------------------------------------------
(* The steps of RemoteCall in terms of a delivery and its jobs. *)
Same(d) == DutyOf(d)' = DutyOf(d) /\ taken'[d] = taken[d] /\ lost'[d] = lost[d]

LEMMA CallStep ==
  ASSUME NEW d \in Deliveries
  PROVE  /\ Same(d) => Call!Step(d)
         /\ DutyOf(d) = "none" /\ DutyOf(d)' \in {"owed", "over"}
              /\ taken'[d] = taken[d] /\ lost'[d] = lost[d] => Call!Step(d)
         /\ DutyOf(d) = "owed" /\ DutyOf(d)' = "owed" /\ taken[d] = lost[d]
              /\ taken'[d] = taken[d] + 1 /\ lost'[d] = lost[d] => Call!Step(d)
         /\ DutyOf(d) = "owed" /\ DutyOf(d)' = "owed" /\ taken[d] = lost[d] + 1
              /\ taken'[d] = taken[d] /\ lost'[d] = lost[d] + 1 => Call!Step(d)
         /\ DutyOf(d) = "owed" /\ DutyOf(d)' = "over" /\ taken'[d] = taken[d]
              /\ lost'[d] \in {lost[d], taken[d]} => Call!Step(d)
         /\ DutyOf(d) = "over" /\ DutyOf(d)' = "owed" /\ taken[d] = lost[d]
              /\ taken'[d] = taken[d] /\ lost'[d] = lost[d] => Call!Step(d)
         /\ DutyOf(d) \in {"owed", "torn"} /\ DutyOf(d)' = "torn" => Call!Step(d)
BY DEF Same, Call!Step, Call!Stay, Call!Accept, Call!Take, Call!Lose, Call!Settle, Call!Reopen,
       Call!Tear

(* What a delivery owes, in terms of its jobs. *)
LEMMA DutyIs ==
  ASSUME NEW d
  PROVE  /\ DutyOf(d) = IF d \in doubled THEN "torn"
                        ELSE IF status[d] = "absent" THEN "none"
                        ELSE IF HasJob(d) THEN "owed" ELSE "over"
         /\ DutyOf(d)' = IF d \in doubled' THEN "torn"
                         ELSE IF status'[d] = "absent" THEN "none"
                         ELSE IF HasJob(d)' THEN "owed" ELSE "over"
<1>1. (JobsOf(d) # {} <=> HasJob(d)) /\ ((JobsOf(d) # {})' <=> HasJob(d)')
  BY DEF JobsOf, HasJob
<1>2. QED
  BY <1>1 DEF DutyOf

(* Of a torn delivery nothing is promised. *)
LEMMA TornCall ==
  ASSUME NEW d \in Deliveries, d \in doubled', d \in doubled \/ DutyOf(d) = "owed"
  PROVE  Call!Step(d)
<1>1. DutyOf(d)' = "torn" /\ DutyOf(d) \in {"owed", "torn"}
  BY DutyIs
<1>2. QED
  BY <1>1, CallStep

(* A delivery whose row and jobs a step leaves alone makes no step, or     *)
(* loses its answer with the process.                                      *)
LEMMA OtherCalls ==
  ASSUME TypeOK, TypeOK', Sound, NEW d \in Deliveries, Good(d), d \in doubled' <=> d \in doubled,
         status'[d] = status[d], taken'[d] = taken[d], SameJobs(d),
         lost'[d] = lost[d] \/ Die
  PROVE  Call!Step(d)
<1>1. HasJob(d)' <=> HasJob(d)
  BY DEF HasJob, SameJobs, TypeOK
<1>2. DutyOf(d)' = DutyOf(d)
  BY <1>1, DutyIs
<1>3. CASE lost'[d] = lost[d]
  BY <1>2, <1>3, CallStep DEF Same
<1>4. CASE d \in doubled
  BY <1>4, TornCall
<1>5. CASE lost'[d] # lost[d] /\ d \notin doubled
  <2>1. Unanswered(d) /\ lost'[d] = lost[d] + 1
    BY <1>5 DEF Die
  <2>2. HasJob(d) /\ status[d] # "absent" /\ taken[d] = lost[d] + 1
    BY <1>5, <2>1 DEF Unanswered, HasJob, Sound, JobSound, Good, AbsentIsBare
  <2>3. DutyOf(d) = "owed"
    BY <1>5, <2>2, DutyIs
  <2>4. QED
    BY <1>2, <2>1, <2>2, <2>3, CallStep
<1>6. QED
  BY <1>3, <1>4, <1>5

(* A delivery that is written, or repeated, makes a step, whether its job  *)
(* is written as well or the process dies first.                           *)
LEMMA StartedCall ==
  ASSUME TypeOK, TypeOK', Sound, NEW d \in Deliveries, Good(d), NEW n \in 1..2,
         Emit(d, n) \/ Repeat(d, n)
  PROVE  Call!Step(d)
<1> USE DEF row, queue, history
<1>1. /\ status[d] \in {"absent", "failed"} /\ status'[d] = "pending"
      /\ WithJob(d, n) /\ taken' = taken /\ doubled' = doubled
  BY DEF Emit, Repeat, TypeOK
<1>2. CASE d \in doubled
  BY <1>1, <1>2, TornCall
<1>3. CASE d \notin doubled
  <2>1. ~HasJob(d) /\ ~Unanswered(d) /\ taken[d] = lost[d]
    BY <1>1, <1>3 DEF Good, HasJob, Unanswered, Sound, JobSound, AbsentIsBare
  <2>2. DutyOf(d) = IF status[d] = "absent" THEN "none" ELSE "over"
    BY <1>3, <2>1, DutyIs
  <2>3. lost'[d] = lost[d]
    BY <1>1, <2>1 DEF WithJob, Die
  <2>4. CASE n = 2
    <3>1. HasJob(d)'
      <4>1. PICK k \in Jobs : owner[k] = Nobody /\ owner' = [owner EXCEPT ![k] = d]
                               /\ queued' = queued \cup {k}
        BY <1>1, <2>4 DEF WithJob, Enqueue
      <4>2. QED
        BY <4>1 DEF HasJob, TypeOK
    <3>2. DutyOf(d)' = "owed"
      BY <1>1, <1>3, <3>1, DutyIs
    <3>3. QED
      BY <1>1, <2>1, <2>2, <2>3, <3>2, CallStep
  <2>5. CASE n # 2
    <3>1. ~HasJob(d)'
      BY <1>1, <2>1, <2>5 DEF WithJob, HasJob
    <3>2. DutyOf(d)' = "over"
      BY <1>1, <1>3, <3>1, DutyIs
    <3>3. QED
      BY <1>1, <2>2, <2>3, <3>2, CallStep DEF Same
  <2>6. QED
    BY <2>4, <2>5
<1>4. QED
  BY <1>2, <1>3

(* A delivery whose job leaves the queue is settled. *)
LEMMA SettledCall ==
  ASSUME TypeOK, TypeOK', Sound, NEW j \in queued, NEW d \in Deliveries, owner[j] = d, Good(d),
         queued' = queued \ {j}, owner' = owner, taken' = taken, doubled' = doubled,
         status'[d] # "absent", lost'[d] \in {lost[d], taken[d]}
  PROVE  Call!Step(d)
<1>1. CASE d \in doubled
  BY <1>1, TornCall
<1>2. CASE d \notin doubled
  <2>1. HasJob(d) /\ ~HasJob(d)' /\ status[d] # "absent"
    BY <1>2 DEF HasJob, Good, AbsentIsBare, TypeOK
  <2>2. DutyOf(d) = "owed" /\ DutyOf(d)' = "over"
    BY <1>2, <2>1, DutyIs
  <2>3. QED
    BY <2>2, CallStep
<1>3. QED
  BY <1>1, <1>2

(* A delivery keeps its job: the receiver takes it, or its answer is lost. *)
LEMMA PendingCall ==
  ASSUME TypeOK, TypeOK', Sound, NEW j \in queued, NEW d \in Deliveries, owner[j] = d, Good(d),
         UNCHANGED <<status, queued, owner, doubled>>,
         \/ pc[j] = "post" /\ taken'[d] = taken[d] + 1 /\ lost'[d] = lost[d]
         \/ pc[j] = "taken" /\ taken'[d] = taken[d] /\ lost'[d] = lost[d] + 1
  PROVE  Call!Step(d)
<1>1. CASE d \in doubled
  BY <1>1, TornCall
<1>2. CASE d \notin doubled
  <2>1. HasJob(d) /\ HasJob(d)' /\ status[d] # "absent"
    BY DEF HasJob, Good, AbsentIsBare, TypeOK
  <2>2. DutyOf(d) = "owed" /\ DutyOf(d)' = "owed"
    BY <1>2, <2>1, DutyIs
  <2>3. Unanswered(d) <=> pc[j] = "taken"
    <3>1. j \in Jobs /\ \A k \in queued : owner[k] = d => k = j
      BY <1>2 DEF Good, TypeOK
    <3>2. \A k \in Jobs : pc[k] = "taken" => k \in queued
      BY DEF Sound, JobSound
    <3>3. QED
      BY <3>1, <3>2 DEF Unanswered
  <2>4. taken[d] = IF pc[j] = "taken" THEN lost[d] + 1 ELSE lost[d]
    BY <1>2, <2>1, <2>3 DEF Good
  <2>5. QED
    BY <2>2, <2>4, CallStep
<1>3. QED
  BY <1>1, <1>2

(* Every step is one of RemoteCall. *)
LEMMA CallNext ==
  ASSUME IInv, TypeOK', [Next]_vars, NEW e \in Deliveries
  PROVE  Call!Step(e)
<1> USE DEF row, queue, history
<1>0. TypeOK /\ Sound /\ \A d \in Deliveries : Good(d)
  BY IInvIsGood
<1>1. ASSUME NEW d \in Deliveries, NEW n \in 1..2, Emit(d, n) \/ Repeat(d, n)
      PROVE  Call!Step(e)
  <2>1. CASE e = d
    BY <1>0, <1>1, <2>1, StartedCall
  <2>2. CASE e # d
    <3>1. /\ WithJob(d, n) /\ doubled' = doubled /\ taken' = taken /\ status'[e] = status[e]
      BY <1>0, <1>1, <2>2 DEF Emit, Repeat, TypeOK
    <3>2. SameJobs(e)
      BY <1>0, <2>2, <3>1, DeliveriesAssumption DEF WithJob, Enqueue, SameJobs, TypeOK
    <3>3. lost'[e] = lost[e] \/ Die
      BY <3>1 DEF WithJob
    <3>4. QED
      BY <1>0, <3>1, <3>2, <3>3, OtherCalls
  <2>3. QED
    BY <2>1, <2>2
<1>2. ASSUME NEW d \in Deliveries, Delete(d)
      PROVE  Call!Step(e)
  <2>1. (status'[e] = "absent" <=> status[e] = "absent") /\ (HasJob(e)' <=> HasJob(e))
    BY <1>0, <1>2 DEF Delete, TypeOK, HasJob
  <2>2. Same(e)
    BY <1>2, <2>1, DutyIs DEF Delete, Same
  <2>3. QED
    BY <2>2, CallStep
<1>3. CASE UNCHANGED <<status, queued, owner, taken, lost, doubled>>
  <2>1. HasJob(e)' <=> HasJob(e)
    BY <1>3 DEF HasJob
  <2>2. Same(e)
    BY <1>3, <2>1, DutyIs DEF Same
  <2>3. QED
    BY <2>2, CallStep
<1>4. ASSUME NEW j \in queued, queued' = queued \ {j}, owner' = owner, taken' = taken,
             doubled' = doubled, status'[owner[j]] # "absent",
             \A d \in Deliveries : d # owner[j] => status'[d] = status[d] /\ lost'[d] = lost[d],
             lost'[owner[j]] \in {lost[owner[j]], taken[owner[j]]}
      PROVE  Call!Step(e)
  <2>1. PICK d \in Deliveries : owner[j] = d
    BY <1>0 DEF Sound, JobSound, TypeOK
  <2>2. CASE e = d
    BY <1>0, <1>4, <2>1, <2>2, SettledCall
  <2>3. CASE e # d
    <3>1. SameJobs(e)
      BY <1>4, <2>1, <2>3 DEF SameJobs
    <3>2. QED
      BY <1>0, <1>4, <2>1, <2>3, <3>1, OtherCalls
  <2>4. QED
    BY <2>2, <2>3
<1>5. ASSUME NEW j \in queued
      PROVE  status[owner[j]] # "absent" /\ owner[j] \in Deliveries /\ j \in Jobs
  BY <1>0 DEF Good, AbsentIsBare, Sound, JobSound, TypeOK
<1>6. ASSUME NEW j \in Jobs, DropFinished(j)
      PROVE  Call!Step(e)
  <2>1. j \in queued
    BY <1>6 DEF DropFinished, Ready
  <2>2. QED
    BY <1>4, <1>5, <1>6, <2>1 DEF DropFinished, Complete
<1>7. ASSUME NEW j \in Jobs, ReceiverTakes(j)
      PROVE  Call!Step(e)
  <2>1. j \in queued /\ pc[j] = "post" /\ taken' = [taken EXCEPT ![owner[j]] = @ + 1]
        /\ UNCHANGED <<status, queued, owner, lost, doubled>>
    BY <1>0, <1>7 DEF ReceiverTakes, Sound, JobSound
  <2>2. PICK d \in Deliveries : owner[j] = d
    BY <1>5, <2>1
  <2>3. CASE e = d
    <3>1. taken'[d] = taken[d] + 1
      BY <1>0, <2>1, <2>2 DEF TypeOK
    <3>2. QED
      BY <1>0, <2>1, <2>2, <2>3, <3>1, PendingCall
  <2>4. CASE e # d
    <3>1. SameJobs(e) /\ taken'[e] = taken[e]
      BY <1>0, <2>1, <2>2, <2>4 DEF SameJobs, TypeOK
    <3>2. QED
      BY <1>0, <2>1, <3>1, OtherCalls
  <2>5. QED
    BY <2>3, <2>4
<1>8. ASSUME NEW j \in Jobs, Retries(j)
      PROVE  Call!Step(e)
  <2>1. /\ j \in queued /\ UNCHANGED <<status, queued, owner, taken, doubled>>
        /\ Unheard(j)
    BY <1>0, <1>8 DEF Retries, TryAgain, Sound, JobSound
  <2>2. CASE pc[j] # "taken"
    BY <1>3, <2>1, <2>2 DEF Unheard
  <2>3. CASE pc[j] = "taken"
    <3>1. PICK d \in Deliveries : owner[j] = d
      BY <1>5, <2>1
    <3>2. lost'[d] = lost[d] + 1 /\ \A o \in Deliveries : o # d => lost'[o] = lost[o]
      BY <1>0, <2>1, <2>3, <3>1 DEF Unheard, TypeOK
    <3>3. CASE e = d
      BY <1>0, <2>1, <2>3, <3>1, <3>2, <3>3, PendingCall
    <3>4. CASE e # d
      <4>1. SameJobs(e)
        BY <2>1 DEF SameJobs
      <4>2. QED
        BY <1>0, <2>1, <3>2, <3>4, <4>1, OtherCalls
    <3>5. QED
      BY <3>3, <3>4
  <2>4. QED
    BY <2>2, <2>3
<1>9. ASSUME NEW j \in Jobs, Throws(j)
      PROVE  Call!Step(e)
  <2>1. j \in queued /\ UNCHANGED <<status, owner, taken, lost, doubled>>
    BY <1>0, <1>9 DEF Throws, TryAgain, Ready, Sound, JobSound
  <2>2. CASE queued' = queued
    BY <1>3, <2>1, <2>2
  <2>3. CASE queued' = queued \ {j}
    BY <1>4, <1>5, <2>1, <2>3
  <2>4. QED
    BY <1>9, <2>2, <2>3 DEF Throws, TryAgain, Complete
<1>10. ASSUME NEW j \in Jobs, NEW n, Closes(j, n)
       PROVE  Call!Step(e)
  <2>1. PICK s \in {"delivered", "failed"} : EndThenComplete(j, s, n)
    BY <1>10 DEF Closes, DropUnreachable, Delivered, Fails
  <2>2. /\ j \in queued /\ owner' = owner /\ taken' = taken /\ End(owner[j], s)
    BY <1>0, <1>10, <2>1 DEF EndThenComplete, Closes, DropUnreachable, Delivered, Fails,
                             Ready, Sound, JobSound
  <2>3. PICK d \in Deliveries : owner[j] = d
    BY <1>5, <2>2
  <2>4. /\ status[d] # "absent" /\ status'[d] # "absent"
        /\ \A o \in Deliveries : o # d => status'[o] = status[o]
    BY <1>0, <1>5, <2>2, <2>3 DEF End, TypeOK
  <2>5. CASE n # 2
    <3>1. Die /\ queued' = queued /\ doubled' = doubled \cup {d}
      BY <2>1, <2>3, <2>5 DEF EndThenComplete
    <3>2. CASE e = d
      <4>1. DutyOf(d) \in {"owed", "torn"}
        BY <2>2, <2>3, <2>4, DutyIs DEF HasJob
      <4>2. DutyOf(d)' = "torn"
        BY <3>1, DutyIs
      <4>3. QED
        BY <3>2, <4>1, <4>2, CallStep
    <3>3. CASE e # d
      <4>1. SameJobs(e)
        BY <2>2, <3>1 DEF SameJobs
      <4>2. QED
        BY <1>0, <2>2, <2>4, <3>1, <3>3, <4>1, OtherCalls
    <3>4. QED
      BY <3>2, <3>3
  <2>6. CASE n = 2
    <3>1. queued' = queued \ {j} /\ doubled' = doubled /\ Heard(j, s)
      BY <2>1, <2>6 DEF EndThenComplete, Complete
    <3>2. \A o \in Deliveries : o # d => lost'[o] = lost[o]
      BY <1>0, <2>3, <3>1 DEF Heard, Unheard, TypeOK
    <3>3. CASE e # d
      <4>1. SameJobs(e)
        BY <2>2, <2>3, <3>1, <3>3 DEF SameJobs
      <4>2. QED
        BY <1>0, <2>2, <2>4, <3>1, <3>2, <3>3, <4>1, OtherCalls
    <3>4. CASE e = d /\ d \in doubled
      BY <3>1, <3>4, TornCall
    <3>5. CASE e = d /\ d \notin doubled
      <4>1. pc[j] = "taken" => taken[d] = lost[d] + 1
        BY <1>0, <1>5, <2>2, <2>3, <3>5 DEF Good, Unanswered
      <4>2. lost'[d] \in {lost[d], taken[d]}
        BY <1>0, <2>3, <3>1, <4>1 DEF Heard, Unheard, TypeOK
      <4>3. QED
        BY <1>4, <2>2, <2>3, <2>4, <3>1, <3>2, <4>2
    <3>6. QED
      BY <3>3, <3>4, <3>5
  <2>7. QED
    BY <2>5, <2>6
<1>11. CASE Crash
  <2>1. SameJobs(e)
    BY <1>11 DEF Crash, SameJobs
  <2>2. QED
    BY <1>0, <1>11, <2>1, OtherCalls DEF Crash
<1>12. CASE UNCHANGED vars
  BY <1>3, <1>12 DEF vars
<1>13. ASSUME NEW j \in Jobs, Begin(j) \/ Post(j)
       PROVE  Call!Step(e)
  BY <1>3, <1>13 DEF Begin, Post
<1>14. QED
  BY <1>1, <1>2, <1>6, <1>7, <1>8, <1>9, <1>10, <1>11, <1>12, <1>13 DEF Next, Handle

(* The webhook job implements RemoteCall, whatever kills cut its writes.   *)
THEOREM CallImplemented == Spec => ImplementsCall
<1>1. Init => Call!Init
  <2> SUFFICES ASSUME Init PROVE Call!Init
    OBVIOUS
  <2>1. \A d \in Deliveries : DutyOf(d) = "none"
    BY DEF Init, DutyOf
  <2>2. QED
    BY <2>1 DEF Init, Call!Init
<1>2. IInv /\ IInv' /\ [Next]_vars => [Call!Next]_(Call!vars)
  <2> SUFFICES ASSUME IInv, IInv', [Next]_vars PROVE Call!Next
    OBVIOUS
  <2>1. TypeOK'
    BY DEF IInv
  <2>2. \A e \in Deliveries : Call!Step(e)
    BY <2>1, CallNext
  <2>3. \A e \in Deliveries : DutyOf(e)' \in Call!Duty
    BY DutyIs DEF Call!Duty
  <2>4. QED
    BY <2>1, <2>2, <2>3 DEF Call!Next, TypeOK
<1>3. QED
  BY <1>1, <1>2, InvariantHolds, PTL DEF Spec, ImplementsCall, Call!Spec


(* The receiver has an event at most once more than the gateway lost track *)
(* of its call, and is said to be lost only what it had, except where a    *)
(* kill tore the delivery: a promise of RemoteCall, from its steps alone.  *)
THEOREM PostedOnceUnlessLost == Spec => []Call!OnceUnlessLost
<1>1. Init => Call!OnceUnlessLost
  BY DEF Init, Call!OnceUnlessLost
<1>2. IInv /\ Call!OnceUnlessLost /\ [Call!Next]_(Call!vars) => Call!OnceUnlessLost'
  <2> SUFFICES ASSUME IInv, Call!OnceUnlessLost, [Call!Next]_(Call!vars), NEW d \in Deliveries,
                      DutyOf(d)' # "torn"
               PROVE  lost'[d] <= taken'[d] /\ taken'[d] <= lost'[d] + 1
    BY DEF Call!OnceUnlessLost
  <2>1. lost[d] \in Nat /\ taken[d] \in Nat
    BY DEF IInv, TypeOK
  <2>2. DutyOf(d) # "torn" => lost[d] <= taken[d] /\ taken[d] <= lost[d] + 1
    BY DEF Call!OnceUnlessLost
  <2>3. CASE Call!Next
    <3>1. Call!Step(d)
      BY <2>3 DEF Call!Next
    <3>2. QED
      BY <2>1, <2>2, <3>1 DEF Call!Step, Call!Stay, Call!Accept, Call!Take, Call!Lose, Call!Settle,
         Call!Reopen, Call!Tear
  <2>4. CASE UNCHANGED Call!vars
    <3>1. [e \in Deliveries |-> DutyOf(e)][d]' = [e \in Deliveries |-> DutyOf(e)][d]
          /\ lost' = lost /\ taken' = taken
      BY <2>4 DEF Call!vars
    <3>2. QED
      BY <2>2, <3>1
  <2>5. QED
    BY <2>3, <2>4
<1>3. QED
  BY <1>1, <1>2, InvariantHolds, CallImplemented, PTL DEF Spec, ImplementsCall, Call!Spec
=============================================================================
