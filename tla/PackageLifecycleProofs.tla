----------------------- MODULE PackageLifecycleProofs -----------------------
(***************************************************************************)
(* Proofs about PackageLifecycle for every set of packages and of report   *)
(* jobs and every number of retries and restarts.                          *)
(***************************************************************************)
EXTENDS PackageLifecycle, TLAPS

(* The death of the process keeps the types of what it resets. *)
LEMMA DieType ==
  ASSUME TypeOK, Die
  PROVE  /\ pc' \in [Packages -> [Jobs -> Wait]] /\ restarts' \in 0..MaxRestarts
         /\ lost' \in [Packages -> Nat]
BY LimitsAssumption DEF Die, TypeOK, Wait

(* What a handler did not hear of is counted in a number. *)
LEMMA UnheardType ==
  ASSUME TypeOK, NEW p \in Packages, NEW j \in Jobs, Unheard(p, j) \/ lost' = lost
  PROVE  lost' \in [Packages -> Nat]
<1>1. lost \in [Packages -> Nat]
  BY DEF TypeOK
<1>2. lost' = lost \/ lost' = [lost EXCEPT ![p] = @ + 1]
  BY DEF Unheard
<1>3. QED
  BY <1>1, <1>2

(* Another attempt keeps to the schedule. *)
LEMMA AgainType ==
  ASSUME TypeOK, NEW p \in Packages, NEW j \in Jobs, NEW n \in 1..2, Again(p, j, n)
  PROVE  /\ attempts' \in [Packages -> [Jobs -> 0..MaxRetries]]
         /\ pc' \in [Packages -> [Jobs -> Wait]] /\ restarts' \in 0..MaxRestarts
         /\ lost' \in [Packages -> Nat]
<1>1. ASSUME NEW a \in 0..MaxRetries
      PROVE  (IF a < MaxRetries THEN a + 1 ELSE a) \in 0..MaxRetries
  BY LimitsAssumption
<1>2. attempts[p][j] \in 0..MaxRetries
  BY DEF TypeOK
<1>3. CASE n = 2
  <2>1. /\ attempts' = [attempts EXCEPT ![p][j] = IF @ < MaxRetries THEN @ + 1 ELSE @]
        /\ pc' = [pc EXCEPT ![p][j] = "idle"] /\ restarts' = restarts /\ lost' = lost
    BY <1>3 DEF Again, Leave
  <2>2. attempts' \in [Packages -> [Jobs -> 0..MaxRetries]]
    <3>1. PICK a \in 0..MaxRetries : attempts' = [attempts EXCEPT ![p][j] = a]
      BY <1>1, <1>2, <2>1
    <3>2. QED
      BY <3>1 DEF TypeOK
  <2>3. pc' \in [Packages -> [Jobs -> Wait]]
    BY <2>1 DEF TypeOK, Wait
  <2>4. QED
    BY <2>1, <2>2, <2>3 DEF TypeOK
<1>4. CASE n # 2
  BY <1>4, DieType DEF Again, TypeOK
<1>5. QED
  BY <1>3, <1>4

(* Closing a job that has told nothing yet keeps the types. *)
LEMMA CloseType ==
  ASSUME TypeOK, NEW p \in Packages, NEW j \in Jobs, NEW n \in 1..3,
         NEW next \in SUBSET ({Poll} \cup Reports), NEW tell \in BOOLEAN,
         Close(p, j, n, next, tell), told[p][j] = 0,
         n = 3 => Unheard(p, j) \/ lost' = lost
  PROVE  /\ jobs' \in [Packages -> SUBSET Jobs]
         /\ ordered' \in [Packages -> SUBSET Reports]
         /\ pc' \in [Packages -> [Jobs -> Wait]] /\ restarts' \in 0..MaxRestarts
         /\ lost' \in [Packages -> Nat]
         /\ told' \in [Packages -> [Jobs -> 0..1]]
         /\ torn' \in [Packages -> SUBSET Jobs]
<1>1. jobs' \in [Packages -> SUBSET Jobs]
  BY DEF Close, TypeOK, Jobs
<1>2. ordered' \in [Packages -> SUBSET Reports]
  BY DEF Close, TypeOK
<1>3. told' \in [Packages -> [Jobs -> 0..1]]
  BY DEF Close, TypeOK
<1>4. torn' \in [Packages -> SUBSET Jobs]
  BY DEF Close, TypeOK
<1>5. CASE n = 3
  <2>1. lost' \in [Packages -> Nat]
    BY <1>5, UnheardType
  <2>2. Leave(p, j)
    BY <1>5 DEF Close
  <2>3. pc' \in [Packages -> [Jobs -> Wait]] /\ restarts' \in 0..MaxRestarts
    BY <2>2 DEF Leave, TypeOK, Wait
  <2>4. QED
    BY <1>1, <1>2, <1>3, <1>4, <2>1, <2>3
<1>6. CASE n # 3
  BY <1>1, <1>2, <1>3, <1>4, <1>6, DieType DEF Close
<1>7. QED
  BY <1>5, <1>6

(* A handler at work has told nothing yet. *)
LEMMA SilentAtWork ==
  ASSUME IInv, NEW p \in Packages, NEW j \in Jobs, pc[p][j] # "idle"
  PROVE  j \in jobs[p] /\ told[p][j] = 0
<1>1. told[p][j] \in 0..1
  BY DEF IInv, TypeOK
<1>2. QED
  BY <1>1 DEF IInv, HandlerSound, EndsAreTold

(* Whatever ends a handler closes its job. *)
LEMMA EndsClose ==
  ASSUME IInv, NEW p \in Packages, NEW n \in 1..3, Ends(p, n)
  PROVE  \E j \in Jobs, next \in SUBSET ({Poll} \cup Reports), tell \in BOOLEAN :
           /\ pc[p][j] # "idle"
           /\ Close(p, j, n, next, tell)
           /\ n = 3 => Unheard(p, j) \/ lost' = lost
           /\ UNCHANGED <<attempts, paused, plus, gen, made, crowded, slipped>>
<1> USE DEF world
<1>1. Create \in Jobs /\ Poll \in Jobs /\ Reports \subseteq Jobs
  BY DEF Jobs
<1>2. CASE Created(p, n)
  <2>1. pc[p][Create] # "idle" /\ Close(p, Create, n, {Poll}, FALSE)
    BY <1>2 DEF Created
  <2>2. QED
    BY <1>1, <1>2, <2>1 DEF Created
<1>3. CASE NotCreated(p, n)
  <2>1. pc[p][Create] # "idle" /\ Close(p, Create, n, {}, TRUE)
    BY <1>3 DEF NotCreated, GivesUp, Waiting
  <2>2. QED
    BY <1>1, <1>3, <2>1 DEF NotCreated
<1>4. CASE Sent(p, n)
  <2>1. pc[p][Poll] # "idle" /\ \E r \in Reports : Close(p, Poll, n, {r}, FALSE)
    BY <1>4 DEF Sent
  <2>2. QED
    BY <1>1, <1>4, <2>1 DEF Sent
<1>5. CASE Cancelled(p, n)
  <2>1. pc[p][Poll] # "idle" /\ Close(p, Poll, n, {}, TRUE)
    BY <1>5 DEF Cancelled
  <2>2. QED
    BY <1>1, <1>5, <2>1 DEF Cancelled
<1>6. ASSUME NEW r \in Reports, Fetched(p, r, n) \/ NoReport(p, r, n)
      PROVE  \E j \in Jobs, next \in SUBSET ({Poll} \cup Reports), tell \in BOOLEAN :
               /\ pc[p][j] # "idle"
               /\ Close(p, j, n, next, tell)
               /\ n = 3 => Unheard(p, j) \/ lost' = lost
               /\ UNCHANGED <<attempts, paused, plus, gen, made, crowded, slipped>>
  <2>1. pc[p][r] # "idle" /\ Close(p, r, n, {}, TRUE)
    BY <1>6 DEF Fetched, NoReport, GivesUp, Waiting
  <2>2. QED
    BY <1>1, <1>6, <2>1 DEF Fetched, NoReport
<1>7. QED
  BY <1>2, <1>3, <1>4, <1>5, <1>6 DEF Ends

(* The end of a handler keeps the types. *)
LEMMA EndsType ==
  ASSUME IInv, NEW p \in Packages, NEW n \in 1..3, Ends(p, n)
  PROVE  TypeOK'
<1> USE DEF world
<1>0. TypeOK
  BY DEF IInv
<1>1. status' \in [Packages -> Status] /\ report' \in [Packages -> Report]
  <2>1. \/ report' = report /\ \E s \in Status : status' = [status EXCEPT ![p] = s]
        \/ status' = status /\ \E s \in Report : report' = [report EXCEPT ![p] = s]
    <3>1. CASE Created(p, n) \/ NotCreated(p, n) \/ Sent(p, n) \/ Cancelled(p, n)
      BY <3>1 DEF Created, NotCreated, Sent, Cancelled, Status, Final
    <3>2. ASSUME NEW r \in Reports, Fetched(p, r, n) \/ NoReport(p, r, n)
          PROVE  status' = status /\ \E s \in Report : report' = [report EXCEPT ![p] = s]
      BY <3>2 DEF Fetched, NoReport, Report
    <3>3. QED
      BY <3>1, <3>2 DEF Ends
  <2>2. QED
    BY <1>0, <2>1 DEF TypeOK
<1>2. PICK j \in Jobs, next \in SUBSET ({Poll} \cup Reports), tell \in BOOLEAN :
        /\ pc[p][j] # "idle"
        /\ Close(p, j, n, next, tell)
        /\ n = 3 => Unheard(p, j) \/ lost' = lost
        /\ UNCHANGED <<attempts, paused, plus, gen, made, crowded, slipped>>
  BY EndsClose
<1>3. told[p][j] = 0
  BY <1>2, SilentAtWork
<1>4. /\ jobs' \in [Packages -> SUBSET Jobs]
      /\ ordered' \in [Packages -> SUBSET Reports]
      /\ pc' \in [Packages -> [Jobs -> Wait]] /\ restarts' \in 0..MaxRestarts
      /\ lost' \in [Packages -> Nat]
      /\ told' \in [Packages -> [Jobs -> 0..1]]
      /\ torn' \in [Packages -> SUBSET Jobs]
  BY <1>0, <1>2, <1>3, CloseType
<1>5. QED
  BY <1>0, <1>1, <1>2, <1>4 DEF TypeOK

(* Every step keeps the types. *)
LEMMA TypeStep == IInv /\ [Next]_vars => TypeOK'
<1> SUFFICES ASSUME IInv, [Next]_vars
             PROVE  TypeOK'
  OBVIOUS
<1> USE DEF row, queue, world, history
<1>0. TypeOK /\ Create \in Jobs /\ Poll \in Jobs /\ Reports \subseteq Jobs
  BY DEF IInv, Jobs
<1>1. ASSUME NEW p \in Packages, NEW n \in 1..2, Submit(p) \/ Order(p, n)
      PROVE  TypeOK'
  <2>1. CASE Submit(p)
    BY <1>0, <2>1 DEF Submit, TypeOK, Status
  <2>2. CASE Order(p, n)
    <3>1. /\ report' \in [Packages -> Report]
          /\ UNCHANGED <<status, attempts, paused, plus, gen, made, told, torn>>
      BY <1>0, <2>2 DEF Order, TypeOK, Report
    <3>2. CASE Ordered(p)
      <4>1. PICK r \in Reports : /\ jobs' = [jobs EXCEPT ![p] = @ \cup {r}]
                                /\ ordered' = [ordered EXCEPT ![p] = @ \cup {r}]
        BY <3>2 DEF Ordered
      <4>2. jobs' \in [Packages -> SUBSET Jobs] /\ ordered' \in [Packages -> SUBSET Reports]
        BY <1>0, <4>1 DEF TypeOK
      <4>3. QED
        BY <1>0, <3>1, <3>2, <4>2 DEF Ordered, TypeOK
    <3>3. CASE OrderCut(p)
      BY <1>0, <3>1, <3>3, DieType DEF OrderCut, TypeOK
    <3>4. QED
      BY <2>2, <3>2, <3>3 DEF Order
  <2>3. QED
    BY <1>1, <2>1, <2>2
<1>2. ASSUME NEW p \in Packages, NEW j \in Jobs, Drop(p, j) \/ Begin(p, j)
      PROVE  TypeOK'
  <2>1. CASE Drop(p, j)
    BY <1>0, <2>1 DEF Drop, TypeOK
  <2>2. CASE Begin(p, j)
    <3>1. report' \in [Packages -> Report]
      BY <1>0, <2>2 DEF Begin, TypeOK, Report
    <3>2. pc' \in [Packages -> [Jobs -> Wait]]
      BY <1>0, <2>2 DEF Begin, TypeOK, Wait
    <3>3. QED
      BY <1>0, <2>2, <3>1, <3>2 DEF Begin, TypeOK
  <2>3. QED
    BY <1>2, <2>1, <2>2
<1>3. ASSUME NEW p \in Packages, NEW j \in Jobs, Reject(p, j) \/ Refuse(p, j)
      PROVE  TypeOK'
  <2>1. pc' \in [Packages -> [Jobs -> Wait]]
    <3>1. \E w \in Wait : pc' = [pc EXCEPT ![p][j] = w]
      BY <1>3 DEF Reject, Refuse, Leave, Wait, Answer
    <3>2. QED
      BY <1>0, <3>1 DEF TypeOK
  <2>2. paused' \in BOOLEAN
    <3>1. paused' = TRUE \/ paused' = paused
      BY <1>3, Zenon DEF Reject, Refuse
    <3>2. QED
      BY <1>0, <3>1, Zenon DEF TypeOK
  <2>3. /\ UNCHANGED <<status, report, jobs, ordered, attempts, restarts, plus, gen, made>>
        /\ UNCHANGED <<lost, told, torn, crowded, slipped>>
    BY <1>3 DEF Reject, Refuse, Leave
  <2>4. QED
    BY <1>0, <2>1, <2>2, <2>3 DEF TypeOK
<1>4. ASSUME NEW p \in Packages, NEW j \in Jobs, Retry(p, j)
      PROVE  TypeOK'
  <2>1. lost' \in [Packages -> Nat]
    BY <1>0, <1>4, UnheardType DEF Retry
  <2>2. attempts' \in [Packages -> [Jobs -> 0..MaxRetries]]
    BY <1>0, <1>4, LimitsAssumption DEF Retry, TypeOK
  <2>3. QED
    BY <1>0, <1>4, <2>1, <2>2 DEF Retry, Leave, TypeOK, Wait
<1>5. ASSUME NEW p \in Packages, NEW n \in 1..2, Progress(p, n) \/ LearnNothing(p)
      PROVE  TypeOK'
  <2>1. \E k \in 1..2 : Again(p, Poll, k)
    BY <1>5 DEF Progress, LearnNothing
  <2>2. /\ attempts' \in [Packages -> [Jobs -> 0..MaxRetries]]
        /\ pc' \in [Packages -> [Jobs -> Wait]] /\ restarts' \in 0..MaxRestarts
        /\ lost' \in [Packages -> Nat]
    BY <1>0, <2>1, AgainType
  <2>3. status' \in [Packages -> Status]
    BY <1>0, <1>5 DEF Progress, LearnNothing, TypeOK, Status
  <2>4. QED
    BY <1>0, <1>5, <2>2, <2>3 DEF Progress, LearnNothing, TypeOK
<1>6. ASSUME NEW p \in Packages, NEW r \in Reports, NEW n \in 1..2, NotYet(p, r, n)
      PROVE  TypeOK'
  <2>1. /\ attempts' \in [Packages -> [Jobs -> 0..MaxRetries]]
        /\ pc' \in [Packages -> [Jobs -> Wait]] /\ restarts' \in 0..MaxRestarts
        /\ lost' \in [Packages -> Nat]
    BY <1>0, <1>6, AgainType DEF NotYet
  <2>2. QED
    BY <1>0, <1>6, <2>1 DEF NotYet, TypeOK, Report
<1>7. ASSUME NEW p \in Packages, NEW r \in Reports, Fetch(p, r) \/ AnswerReport(p, r)
      PROVE  TypeOK'
  <2>1. CASE Fetch(p, r)
    BY <1>0, <2>1 DEF Fetch, TypeOK, Wait
  <2>2. CASE AnswerReport(p, r)
    <3>1. gen' \in [Packages -> {"none", "preparing", "generated", "broken"}]
          /\ gen'[p] # "none"
      BY <1>0, <2>2 DEF AnswerReport, TypeOK
    <3>2. gen'[p] \in Wait
      BY <3>1 DEF Wait, Answer
    <3>3. pc' \in [Packages -> [Jobs -> Wait]]
      BY <1>0, <2>2, <3>2 DEF AnswerReport, TypeOK
    <3>4. QED
      BY <1>0, <2>2, <3>1, <3>3 DEF AnswerReport, TypeOK
  <2>3. QED
    BY <1>7, <2>1, <2>2
<1>8. ASSUME NEW p \in Packages, Make(p)
      PROVE  TypeOK'
  BY <1>0, <1>8 DEF Make, TypeOK, Wait, Answer
<1>9. ASSUME NEW p \in Packages, Advance(p) \/ Generate(p) \/ Expire(p)
      PROVE  TypeOK'
  BY <1>0, <1>9 DEF Advance, Generate, Expire, TypeOK
<1>10. ASSUME NEW p \in Packages, NEW n \in 1..3, Ends(p, n)
       PROVE  TypeOK'
  BY <1>10, EndsType
<1>11. CASE Resume
  BY <1>0, <1>11 DEF Resume, TypeOK
<1>12. CASE Crash
  BY <1>0, <1>12, DieType DEF Crash, TypeOK
<1>13. CASE UNCHANGED vars
  BY <1>0, <1>13 DEF vars, TypeOK
<1>14. 1..2 \subseteq 1..3 /\ 3 \in 1..3 /\ 1 \in 1..2 /\ 2 \in 1..2
  OBVIOUS
<1>15. ASSUME NEW p \in Packages, Cuts(p)
       PROVE  TypeOK'
  BY <1>1, <1>5, <1>6, <1>10, <1>14, <1>15 DEF Cuts
<1>16. ASSUME NEW p \in Packages, Works(p)
       PROVE  TypeOK'
  BY <1>2, <1>3, <1>4, <1>5, <1>6, <1>7, <1>10, <1>14, <1>16 DEF Works
<1>17. ASSUME NEW p \in Packages, Multiinfo(p)
       PROVE  TypeOK'
  BY <1>3, <1>7, <1>8, <1>9, <1>17 DEF Multiinfo
<1>18. QED
  BY <1>1, <1>11, <1>12, <1>13, <1>14, <1>15, <1>16, <1>17 DEF Next

-----------------------------------------------------------------------------
(* A step leaves a package alone, but for the handlers that die with the   *)
(* process.                                                                *)
Same(e) ==
  /\ status'[e] = status[e] /\ report'[e] = report[e]
  /\ jobs'[e] = jobs[e] /\ ordered'[e] = ordered[e]
  /\ made'[e] = made[e] /\ told'[e] = told[e] /\ torn'[e] = torn[e]
  /\ e \in crowded' <=> e \in crowded
  /\ e \in slipped' <=> e \in slipped

Dies(e) ==
  /\ \A j \in Jobs : pc'[e][j] = "idle"
  /\ lost'[e] = IF pc[e][Create] = "made" THEN lost[e] + 1 ELSE lost[e]

Untouched(e) == Same(e) /\ (Dies(e) \/ (pc'[e] = pc[e] /\ lost'[e] = lost[e]))

(* A step of a package. *)
Own(p) ==
  \/ Submit(p)
  \/ \E j \in Jobs : Drop(p, j) \/ Begin(p, j) \/ Reject(p, j) \/ Retry(p, j) \/ Refuse(p, j)
  \/ LearnNothing(p) \/ Make(p)
  \/ \E r \in Reports : Fetch(p, r) \/ AnswerReport(p, r)
  \/ \E n \in 1..2 : Order(p, n) \/ Progress(p, n) \/ (\E r \in Reports : NotYet(p, r, n))
  \/ \E n \in 1..3 : Ends(p, n)

(* The death of the process is the same for all packages. *)
LEMMA DieDies ==
  ASSUME TypeOK, Die, NEW e \in Packages
  PROVE  Dies(e)
BY DEF Die, Dies, TypeOK

(* A step of a package leaves the others alone. *)
LEMMA OwnLeaves ==
  ASSUME IInv, NEW p \in Packages, Own(p), NEW e \in Packages, e # p
  PROVE  Untouched(e)
<1> USE DEF row, queue, world, history, Untouched, Same
<1>0. TypeOK
  BY DEF IInv
<1>1. ASSUME NEW n \in 1..2, Submit(p) \/ Order(p, n)
      PROVE  Untouched(e)
  <2>1. CASE Submit(p)
    BY <1>0, <2>1 DEF Submit, TypeOK
  <2>2. CASE Order(p, n) /\ Ordered(p)
    BY <1>0, <2>2 DEF Order, Ordered, TypeOK
  <2>3. CASE Order(p, n) /\ OrderCut(p)
    BY <1>0, <2>3, DieDies DEF Order, OrderCut, TypeOK
  <2>4. QED
    BY <1>1, <2>1, <2>2, <2>3 DEF Order
<1>2. ASSUME NEW j \in Jobs, Drop(p, j) \/ Begin(p, j)
      PROVE  Untouched(e)
  BY <1>0, <1>2 DEF Drop, Begin, TypeOK
<1>3. ASSUME NEW j \in Jobs, Reject(p, j) \/ Refuse(p, j)
      PROVE  Untouched(e)
  BY <1>0, <1>3 DEF Reject, Refuse, Leave, TypeOK
<1>4. ASSUME NEW j \in Jobs, Retry(p, j)
      PROVE  Untouched(e)
  BY <1>0, <1>4 DEF Retry, Leave, Unheard, TypeOK
<1>again. ASSUME NEW j \in Jobs, NEW n \in 1..2, Again(p, j, n)
       PROVE  Dies(e) \/ (pc'[e] = pc[e] /\ lost'[e] = lost[e])
  BY <1>0, <1>again, DieDies DEF Again, Leave, TypeOK
<1>jobs. Poll \in Jobs /\ Reports \subseteq Jobs /\ 2 \in 1..2
  BY DEF Jobs
<1>5. ASSUME NEW n \in 1..2, Progress(p, n) \/ LearnNothing(p)
      PROVE  Untouched(e)
  <2>1. \E k \in 1..2 : Again(p, Poll, k)
    BY <1>5 DEF Progress, LearnNothing
  <2>2. Same(e)
    BY <1>0, <1>5 DEF Progress, LearnNothing, TypeOK
  <2>3. QED
    BY <1>again, <1>jobs, <2>1, <2>2
<1>6. ASSUME NEW r \in Reports, NEW n \in 1..2, NotYet(p, r, n) \/ Fetch(p, r) \/ AnswerReport(p, r)
      PROVE  Untouched(e)
  <2>1. CASE NotYet(p, r, n)
    BY <1>0, <1>again, <1>jobs, <2>1 DEF NotYet, TypeOK
  <2>2. CASE Fetch(p, r) \/ AnswerReport(p, r)
    BY <1>0, <2>2 DEF Fetch, AnswerReport, TypeOK
  <2>3. QED
    BY <1>6, <2>1, <2>2
<1>7. CASE Make(p)
  BY <1>0, <1>7 DEF Make, TypeOK
<1>8. ASSUME NEW n \in 1..3, Ends(p, n)
      PROVE  Untouched(e)
  <2>1. status'[e] = status[e] /\ report'[e] = report[e]
    BY <1>0, <1>8 DEF Ends, Created, NotCreated, Sent, Cancelled, Fetched, NoReport, TypeOK
  <2>2. PICK j \in Jobs, next \in SUBSET ({Poll} \cup Reports), tell \in BOOLEAN :
          /\ pc[p][j] # "idle"
          /\ Close(p, j, n, next, tell)
          /\ n = 3 => Unheard(p, j) \/ lost' = lost
          /\ UNCHANGED <<attempts, paused, plus, gen, made, crowded, slipped>>
    BY <1>8, EndsClose
  <2>3. jobs'[e] = jobs[e] /\ ordered'[e] = ordered[e] /\ told'[e] = told[e] /\ torn'[e] = torn[e]
    BY <1>0, <2>2 DEF Close, TypeOK
  <2>4. CASE n = 3
    <3>1. Leave(p, j)
      BY <2>2, <2>4 DEF Close
    <3>2. pc'[e] = pc[e] /\ lost'[e] = lost[e]
      BY <1>0, <2>2, <2>4, <3>1 DEF Leave, Unheard, TypeOK
    <3>3. QED
      BY <2>1, <2>2, <2>3, <3>2
  <2>5. CASE n # 3
    <3>1. Dies(e)
      BY <1>0, <2>2, <2>5, DieDies DEF Close
    <3>2. QED
      BY <2>1, <2>2, <2>3, <3>1
  <2>6. QED
    BY <2>4, <2>5
<1>9. QED
  BY <1>1, <1>2, <1>3, <1>4, <1>5, <1>6, <1>7, <1>8, <1>jobs DEF Own

(* So a step is one of the package, or leaves it alone. *)
LEMMA OwnOrUntouched ==
  ASSUME IInv, [Next]_vars, NEW e \in Packages
  PROVE  Own(e) \/ Untouched(e)
<1> USE DEF row, queue, world, history
<1>0. TypeOK
  BY DEF IInv
<1>1. ASSUME NEW p \in Packages, Own(p)
      PROVE  Own(e) \/ Untouched(e)
  BY <1>1, OwnLeaves
<1>2. ASSUME NEW p \in Packages, Advance(p) \/ Generate(p) \/ Expire(p)
      PROVE  Untouched(e)
  BY <1>2 DEF Advance, Generate, Expire, Untouched, Same
<1>3. CASE Resume
  BY <1>3 DEF Resume, Untouched, Same
<1>4. CASE Crash
  BY <1>0, <1>4, DieDies DEF Crash, Untouched, Same
<1>5. CASE UNCHANGED vars
  BY <1>5 DEF vars, Untouched, Same
<1>6. 1..2 \subseteq 1..3 /\ 3 \in 1..3 /\ 1 \in 1..2 /\ 2 \in 1..2
  OBVIOUS
<1>7. ASSUME NEW p \in Packages, Submit(p) \/ Order(p, 2) \/ Works(p) \/ Cuts(p)
      PROVE  Own(p)
  BY <1>6, <1>7 DEF Works, Cuts, Own
<1>8. ASSUME NEW p \in Packages, Multiinfo(p)
      PROVE  Own(p) \/ Advance(p) \/ Generate(p) \/ Expire(p)
  BY <1>8 DEF Multiinfo, Own
<1>9. QED
  BY <1>1, <1>2, <1>3, <1>4, <1>5, <1>7, <1>8 DEF Next

-----------------------------------------------------------------------------
(* What the inductive invariant says of one package. *)
Followed(p) ==
  /\ status[p] = "queued" => Create \in jobs[p]
  /\ status[p] \in {"open", "sending"} => Poll \in jobs[p] \/ Create \in torn[p]
  /\ status[p] = "completed" /\ report[p] \in {"none", "pending"}
       => jobs[p] \cap Reports # {} \/ Poll \in torn[p] \/ p \in slipped

EndTold(p) ==
  /\ \A j \in Jobs : told[p][j] = 1 => j \notin jobs[p]
  /\ status[p] = "failed" => told[p][Create] = 1 \/ Create \in torn[p]
  /\ status[p] = "cancelled" => told[p][Poll] = 1 \/ Poll \in torn[p]
  /\ \A r \in ordered[p] :
       r \in jobs[p] \/ told[p][r] = 1 \/ r \in torn[p] \/ p \in crowded

Good(p) ==
  /\ Followed(p) /\ EndTold(p)
  /\ HandlerSound(p) /\ JobsSound(p) /\ ToldSound(p) /\ CountsSound(p)

LEMMA IInvIsGood == IInv <=> TypeOK /\ \A p \in Packages : Good(p)
BY DEF IInv, Good, StillFollowed, EndsAreTold, Followed, EndTold

(* A package that a step leaves alone stays as it should be. *)
LEMMA UntouchedGood ==
  ASSUME TypeOK, NEW e \in Packages, Good(e), Untouched(e)
  PROVE  Good(e)'
<1>0. Create \in Jobs /\ Poll \in Jobs /\ Reports \subseteq Jobs
  BY DEF Jobs
<1>1. Same(e)
  BY DEF Untouched
<1>2. Followed(e)' /\ EndTold(e)' /\ JobsSound(e)' /\ ToldSound(e)'
  BY <1>0, <1>1 DEF Same, Good, Followed, EndTold, JobsSound, ToldSound
<1>3. CASE Dies(e)
  <2>1. HandlerSound(e)'
    BY <1>0, <1>1, <1>3 DEF Dies, HandlerSound
  <2>2. CountsSound(e)'
    <3>1. lost[e] \in Nat
      BY DEF TypeOK
    <3>2. QED
      BY <1>0, <1>1, <1>3, <3>1 DEF Same, Good, Dies, CountsSound, HandlerSound, JobsSound
  <2>3. QED
    BY <1>2, <2>1, <2>2 DEF Good
<1>4. CASE pc'[e] = pc[e] /\ lost'[e] = lost[e]
  <2>1. HandlerSound(e)' /\ CountsSound(e)'
    BY <1>0, <1>1, <1>4 DEF Same, Good, HandlerSound, CountsSound
  <2>2. QED
    BY <1>2, <2>1 DEF Good
<1>5. QED
  BY <1>3, <1>4 DEF Untouched

(* What a job that is closed leaves behind. *)
Closed(p, j, next, tell) ==
  /\ jobs'[p] = (jobs[p] \ {j}) \cup next
  /\ \A k \in Jobs : told'[p][k] = IF tell /\ k = j THEN 1 ELSE told[p][k]
  /\ ordered'[p] = ordered[p] \cup (next \ {Poll})
  /\ \A k \in Jobs : pc'[p][k] = IF k = j THEN "idle" ELSE pc[p][k]
  /\ torn'[p] = torn[p]

(* What a kill leaves of a job that was being closed. *)
Cut(p, j) ==
  /\ Dies(p)
  /\ jobs'[p] \in {jobs[p], jobs[p] \ {j}}
  /\ told'[p] = told[p] /\ ordered'[p] = ordered[p]
  /\ torn'[p] = torn[p] \cup {j}

LEMMA CloseIs ==
  ASSUME IInv, NEW p \in Packages, NEW j \in Jobs, NEW n \in 1..3, NEW next, NEW tell \in BOOLEAN,
         Close(p, j, n, next, tell), pc[p][j] # "idle"
  PROVE  IF n = 3 THEN Closed(p, j, next, tell) ELSE Cut(p, j)
<1>0. TypeOK /\ told[p][j] = 0
  BY SilentAtWork DEF IInv
<1>1. CASE n = 3
  <2>1. Leave(p, j)
    BY <1>1 DEF Close
  <2>2. \A k \in Jobs : pc'[p][k] = IF k = j THEN "idle" ELSE pc[p][k]
    BY <1>0, <2>1 DEF Leave, TypeOK
  <2>3. \A k \in Jobs : told'[p][k] = IF tell /\ k = j THEN 1 ELSE told[p][k]
    <3>1. CASE tell
      <4>1. told' = [told EXCEPT ![p][j] = @ + 1]
        BY <1>1, <3>1 DEF Close
      <4>2. QED
        BY <1>0, <3>1, <4>1 DEF TypeOK
    <3>2. CASE ~tell
      <4>1. told' = told
        BY <1>1, <3>2 DEF Close
      <4>2. QED
        BY <3>2, <4>1
    <3>3. QED
      BY <3>1, <3>2
  <2>4. /\ jobs'[p] = (jobs[p] \ {j}) \cup next
        /\ ordered'[p] = ordered[p] \cup (next \ {Poll})
        /\ torn'[p] = torn[p]
    BY <1>0, <1>1 DEF Close, TypeOK
  <2>5. QED
    BY <1>1, <2>2, <2>3, <2>4 DEF Closed
<1>2. CASE n # 3
  <2>1. Die /\ torn' = [torn EXCEPT ![p] = @ \cup {j}] /\ told' = told /\ ordered' = ordered
    BY <1>2 DEF Close
  <2>2. jobs'[p] \in {jobs[p], jobs[p] \ {j}}
    BY <1>0, <1>2 DEF Close, TypeOK
  <2>3. QED
    BY <1>0, <1>2, <2>1, <2>2, DieDies DEF Cut, TypeOK
<1>3. QED
  BY <1>1, <1>2

(* A package stays as it should be when a kill cuts the closing of a job   *)
(* that has just written its row.                                          *)
LEMMA CutGood ==
  ASSUME IInv, NEW p \in Packages, NEW j \in Jobs, pc[p][j] # "idle", Cut(p, j),
         made'[p] = made[p], p \in crowded' <=> p \in crowded, p \in slipped' <=> p \in slipped,
         \/ j = Create /\ status'[p] \in {"open", "failed"} /\ report'[p] = report[p]
         \/ j = Poll /\ status'[p] \in {"completed", "cancelled"} /\ report'[p] = report[p]
         \/ j \in Reports /\ status'[p] = status[p] /\ report'[p] \in {"ready", "failed"}
  PROVE  Good(p)'
<1>0. /\ Create \in Jobs /\ Poll \in Jobs /\ Reports \subseteq Jobs
      /\ Good(p) /\ TypeOK /\ j \in jobs[p]
  BY IInvIsGood, SilentAtWork DEF Jobs
<1>1. HandlerSound(p)'
  BY <1>0 DEF HandlerSound, Cut, Dies
<1>2. Followed(p)'
  BY <1>0, JobsAssumption DEF Good, Followed, HandlerSound, JobsSound, Cut
<1>3. EndTold(p)'
  BY <1>0, JobsAssumption DEF Good, EndTold, HandlerSound, JobsSound, Cut
<1>4. JobsSound(p)'
  BY <1>0, JobsAssumption DEF Good, HandlerSound, JobsSound, Cut
<1>5. ToldSound(p)'
  BY <1>0, JobsAssumption DEF Good, HandlerSound, ToldSound, JobsSound, Cut
<1>6. CountsSound(p)'
  <2>1. lost[p] \in Nat
    BY <1>0 DEF TypeOK
  <2>2. QED
    BY <1>0, <2>1, JobsAssumption DEF Good, HandlerSound, JobsSound, CountsSound, Cut, Dies
<1>7. QED
  BY <1>1, <1>2, <1>3, <1>4, <1>5, <1>6 DEF Good

(* Every end of a handler leaves its package as it should be. *)
LEMMA EndsGood ==
  ASSUME IInv, NEW p \in Packages, NEW n \in 1..3, Ends(p, n)
  PROVE  Good(p)'
<1> USE DEF world
<1>0. /\ Create \in Jobs /\ Poll \in Jobs /\ Reports \subseteq Jobs
      /\ Good(p) /\ TypeOK /\ lost[p] \in Nat /\ made[p] \in Nat
      /\ ordered[p] \subseteq Reports /\ status[p] \in Status
  BY IInvIsGood DEF Jobs, TypeOK
<1>1. CASE Created(p, n)
  <2>1. /\ pc[p][Create] = "made" /\ status'[p] = "open"
        /\ UNCHANGED <<report, made, crowded, slipped>>
        /\ n = 3 => lost' = lost
    BY <1>0, <1>1 DEF Created, TypeOK
  <2>2. IF n = 3 THEN Closed(p, Create, {Poll}, FALSE) ELSE Cut(p, Create)
    BY <1>0, <1>1, <2>1, CloseIs DEF Created
  <2>3. CASE n = 3
    BY <1>0, <2>1, <2>2, <2>3, JobsAssumption
    DEF Closed, Good, Followed, EndTold, HandlerSound, JobsSound, ToldSound, CountsSound
  <2>4. CASE n # 3
    BY <1>0, <2>1, <2>2, <2>4, CutGood
  <2>5. QED
    BY <2>3, <2>4
<1>2. CASE NotCreated(p, n)
  <2>1. /\ pc[p][Create] # "idle" /\ status'[p] = "failed"
        /\ UNCHANGED <<report, made, crowded, slipped>>
        /\ n = 3 => Unheard(p, Create)
    BY <1>0, <1>2 DEF NotCreated, GivesUp, Waiting, TypeOK
  <2>2. IF n = 3 THEN Closed(p, Create, {}, TRUE) ELSE Cut(p, Create)
    BY <1>0, <1>2, <2>1, CloseIs DEF NotCreated
  <2>3. CASE n = 3
    <3>1. lost'[p] = IF pc[p][Create] = "made" THEN lost[p] + 1 ELSE lost[p]
      BY <1>0, <2>1, <2>3 DEF Unheard, TypeOK
    <3>2. QED
      BY <1>0, <2>1, <2>2, <2>3, <3>1, JobsAssumption
      DEF Closed, Good, Followed, EndTold, HandlerSound, JobsSound, ToldSound, CountsSound
  <2>4. CASE n # 3
    BY <1>0, <2>1, <2>2, <2>4, CutGood
  <2>5. QED
    BY <2>3, <2>4
<1>3. CASE Sent(p, n)
  <2>1. PICK r \in Reports \ ordered[p] : Close(p, Poll, n, {r}, FALSE)
    BY <1>3 DEF Sent
  <2>2. /\ pc[p][Poll] # "idle" /\ status'[p] = "completed"
        /\ UNCHANGED <<report, made, crowded, slipped>>
        /\ n = 3 => lost' = lost
    BY <1>0, <1>3 DEF Sent, TypeOK
  <2>3. IF n = 3 THEN Closed(p, Poll, {r}, FALSE) ELSE Cut(p, Poll)
    BY <1>0, <2>1, <2>2, CloseIs
  <2>4. CASE n = 3
    BY <1>0, <2>1, <2>2, <2>3, <2>4, JobsAssumption
    DEF Closed, Good, Followed, EndTold, HandlerSound, JobsSound, ToldSound, CountsSound
  <2>5. CASE n # 3
    BY <1>0, <2>2, <2>3, <2>5, CutGood
  <2>6. QED
    BY <2>4, <2>5
<1>4. CASE Cancelled(p, n)
  <2>1. /\ pc[p][Poll] # "idle" /\ status'[p] = "cancelled"
        /\ UNCHANGED <<report, made, crowded, slipped>>
        /\ n = 3 => lost' = lost
    BY <1>0, <1>4 DEF Cancelled, TypeOK
  <2>2. IF n = 3 THEN Closed(p, Poll, {}, TRUE) ELSE Cut(p, Poll)
    BY <1>0, <1>4, <2>1, CloseIs DEF Cancelled
  <2>3. CASE n = 3
    BY <1>0, <2>1, <2>2, <2>3, JobsAssumption
    DEF Closed, Good, Followed, EndTold, HandlerSound, JobsSound, ToldSound, CountsSound
  <2>4. CASE n # 3
    BY <1>0, <2>1, <2>2, <2>4, CutGood
  <2>5. QED
    BY <2>3, <2>4
<1>5. ASSUME NEW r \in Reports, Fetched(p, r, n) \/ NoReport(p, r, n)
      PROVE  Good(p)'
  <2>1. /\ pc[p][r] # "idle" /\ report'[p] \in {"ready", "failed"}
        /\ UNCHANGED <<status, made, crowded, slipped>>
        /\ n = 3 => lost' = lost
    BY <1>0, <1>5 DEF Fetched, NoReport, GivesUp, Waiting, TypeOK
  <2>2. IF n = 3 THEN Closed(p, r, {}, TRUE) ELSE Cut(p, r)
    BY <1>0, <1>5, <2>1, CloseIs DEF Fetched, NoReport
  <2>3. CASE n = 3
    BY <1>0, <2>1, <2>2, <2>3, JobsAssumption DEF Closed, Good,
       Followed, EndTold, HandlerSound, JobsSound, ToldSound, CountsSound
  <2>4. CASE n # 3
    BY <1>0, <2>1, <2>2, <2>4, CutGood
  <2>5. QED
    BY <2>3, <2>4
<1>6. QED
  BY <1>1, <1>2, <1>3, <1>4, <1>5 DEF Ends

(* A kill between the writes of an order or of a question put off leaves   *)
(* the package as it should be.                                            *)
LEMMA StruckGood ==
  ASSUME IInv, NEW p \in Packages, Dies(p),
         UNCHANGED <<jobs, ordered, made, told, torn, crowded>>,
         p \in slipped => p \in slipped',
         \/ status[p] \in {"open", "sending"} /\ status'[p] \in {"open", "sending"}
            /\ report' = report
         \/ status[p] = "completed" /\ status' = status /\ report'[p] = "pending"
            /\ (p \in slipped' \/ jobs[p] \cap Reports # {})
  PROVE  Good(p)'
<1>0. /\ Create \in Jobs /\ Poll \in Jobs /\ Reports \subseteq Jobs
      /\ Good(p) /\ lost[p] \in Nat
  BY IInvIsGood DEF Jobs, TypeOK
<1>1. HandlerSound(p)'
  BY <1>0 DEF HandlerSound, Dies
<1>2. Followed(p)' /\ EndTold(p)'
  BY <1>0 DEF Good, Followed, EndTold
<1>3. JobsSound(p)' /\ ToldSound(p)'
  BY <1>0, JobsAssumption DEF Good, JobsSound, ToldSound
<1>4. CountsSound(p)'
  BY <1>0 DEF Good, HandlerSound, JobsSound, CountsSound, Dies
<1>5. QED
  BY <1>1, <1>2, <1>3, <1>4 DEF Good

(* Every other step of a package leaves it as it should be. *)
LEMMA OwnGood ==
  ASSUME IInv, NEW p \in Packages, Own(p)
  PROVE  Good(p)'
<1> USE DEF row, queue, world, history
<1>0. /\ Create \in Jobs /\ Poll \in Jobs /\ Reports \subseteq Jobs
      /\ Good(p) /\ TypeOK /\ lost[p] \in Nat /\ made[p] \in Nat
      /\ ordered[p] \subseteq Reports /\ status[p] \in Status
  BY IInvIsGood DEF Jobs, TypeOK
<1>1. CASE Submit(p)
  <2>1. /\ status[p] = "absent" /\ status'[p] = "queued" /\ jobs'[p] = {Create}
        /\ UNCHANGED <<report, ordered, pc, made, history>>
    BY <1>0, <1>1 DEF Submit, TypeOK
  <2>2. QED
    BY <1>0, <2>1, JobsAssumption
    DEF Good, Followed, EndTold, HandlerSound, JobsSound, ToldSound, CountsSound
<1>2. ASSUME NEW n \in 1..2, Order(p, n)
      PROVE  Good(p)'
  <2>1. /\ status[p] = "completed" /\ report'[p] = "pending"
        /\ UNCHANGED <<status, made, told, torn>>
    BY <1>0, <1>2 DEF Order, TypeOK
  <2>2. CASE Ordered(p)
    <3>1. PICK r \in Reports \ ordered[p] : jobs'[p] = jobs[p] \cup {r} /\ ordered'[p] = ordered[p] \cup {r}
      BY <1>0, <2>2 DEF Ordered, TypeOK
    <3>2. /\ p \in crowded => p \in crowded'
          /\ jobs[p] \cap Reports # {} => p \in crowded'
          /\ UNCHANGED <<pc, lost>>
      BY <1>0, <2>2 DEF Ordered, TypeOK
    <3>3. QED
      BY <1>0, <2>1, <3>1, <3>2, JobsAssumption
      DEF Good, Followed, EndTold, HandlerSound, JobsSound, ToldSound, CountsSound
  <2>3. CASE OrderCut(p)
    <3>1. Dies(p) /\ p \in slipped' /\ UNCHANGED <<jobs, ordered, crowded>>
      BY <1>0, <2>3, DieDies DEF OrderCut
    <3>2. QED
      BY <2>1, <3>1, StruckGood
  <2>4. QED
    BY <1>2, <2>2, <2>3 DEF Order
<1>3. ASSUME NEW j \in Jobs, Drop(p, j)
      PROVE  Good(p)'
  <2>1. /\ Finished(p, j) /\ pc[p][j] = "idle" /\ jobs'[p] = jobs[p] \ {j}
        /\ UNCHANGED <<status, report, ordered, pc, made, history>>
    BY <1>0, <1>3 DEF Drop, Ready, TypeOK
  <2>2. CASE j = Create
    BY <1>0, <2>1, <2>2, JobsAssumption DEF Finished, Final,
       Good, Followed, EndTold, HandlerSound, JobsSound, ToldSound, CountsSound
  <2>3. CASE j = Poll
    BY <1>0, <2>1, <2>3, JobsAssumption DEF Finished, Final, Good,
       Followed, EndTold, HandlerSound, JobsSound, ToldSound, CountsSound
  <2>4. CASE j \in Reports
    BY <1>0, <2>1, <2>4, JobsAssumption DEF Finished, Final,
       Good, Followed, EndTold, HandlerSound, JobsSound, ToldSound, CountsSound
  <2>5. QED
    BY <2>2, <2>3, <2>4 DEF Jobs
<1>4. ASSUME NEW j \in Jobs, Begin(p, j)
      PROVE  Good(p)'
  <2>1. /\ ~Finished(p, j) /\ pc[p][j] = "idle" /\ j \in jobs[p]
        /\ report'[p] = IF j \in Reports THEN "pending" ELSE report[p]
        /\ \A k \in Jobs : pc'[p][k] = IF k = j THEN "ask" ELSE pc[p][k]
        /\ UNCHANGED <<status, jobs, ordered, made, history>>
    BY <1>0, <1>4 DEF Begin, Ready, TypeOK
  <2>2. QED
    BY <1>0, <2>1, JobsAssumption DEF Finished, Final, Status, Good,
       Followed, EndTold, HandlerSound, JobsSound, ToldSound, CountsSound
<1>5. ASSUME NEW j \in Jobs, Reject(p, j) \/ Refuse(p, j)
      PROVE  Good(p)'
  <2>1. /\ pc[p][j] \in {"ask", "fetch"}
        /\ \E w \in {"idle", "refused"} : pc' = [pc EXCEPT ![p][j] = w]
        /\ UNCHANGED <<status, report, jobs, ordered, made, history>>
    BY <1>5 DEF Reject, Refuse, Leave
  <2>2. \E w \in {"idle", "refused"} : \A k \in Jobs : pc'[p][k] = IF k = j THEN w ELSE pc[p][k]
    BY <1>0, <2>1 DEF TypeOK
  <2>3. QED
    BY <1>0, <2>1, <2>2, JobsAssumption
    DEF Good, Followed, EndTold, HandlerSound, JobsSound, ToldSound, CountsSound
<1>6. ASSUME NEW j \in Jobs, Retry(p, j)
      PROVE  Good(p)'
  <2>1. /\ pc[p][j] # "idle" /\ Unheard(p, j)
        /\ \A k \in Jobs : pc'[p][k] = IF k = j THEN "idle" ELSE pc[p][k]
        /\ UNCHANGED <<status, report, jobs, ordered, made, told, torn, crowded, slipped>>
    BY <1>0, <1>6 DEF Retry, Waiting, Leave, TypeOK
  <2>2. lost'[p] = IF pc[p][j] = "made" THEN lost[p] + 1 ELSE lost[p]
    BY <1>0, <2>1 DEF Unheard, TypeOK
  <2>3. QED
    BY <1>0, <2>1, <2>2, JobsAssumption
    DEF Good, Followed, EndTold, HandlerSound, JobsSound, ToldSound, CountsSound
<1>7. ASSUME NEW n \in 1..2, Progress(p, n) \/ LearnNothing(p)
      PROVE  Good(p)'
  <2>1. /\ pc[p][Poll] # "idle" /\ \E k \in 1..2 : Again(p, Poll, k)
        /\ status'[p] \in {status[p], "open", "sending"}
        /\ UNCHANGED <<report, jobs, ordered, made, told, torn, crowded, slipped>>
    BY <1>0, <1>7 DEF Progress, LearnNothing, TypeOK
  <2>2. CASE Again(p, Poll, 2)
    <3>1. /\ \A k \in Jobs : pc'[p][k] = IF k = Poll THEN "idle" ELSE pc[p][k]
          /\ lost' = lost
      BY <1>0, <2>2 DEF Again, Leave, TypeOK
    <3>2. QED
      BY <1>0, <2>1, <3>1, JobsAssumption
      DEF Good, Followed, EndTold, HandlerSound, JobsSound, ToldSound, CountsSound
  <2>3. CASE Again(p, Poll, 1)
    <3>1. Dies(p)
      BY <1>0, <2>3, DieDies DEF Again
    <3>2. status[p] \in {"open", "sending"} /\ status'[p] \in {"open", "sending"}
      BY <1>0, <2>1 DEF Good, HandlerSound
    <3>3. QED
      BY <2>1, <3>1, <3>2, StruckGood
  <2>4. QED
    BY <2>1, <2>2, <2>3
<1>8. CASE Make(p)
  <2>1. /\ pc[p][Create] = "ask" /\ made'[p] = made[p] + 1
        /\ \A k \in Jobs : pc'[p][k] = IF k = Create THEN "made" ELSE pc[p][k]
        /\ UNCHANGED <<status, report, jobs, ordered, history>>
    BY <1>0, <1>8 DEF Make, TypeOK
  <2>2. QED
    BY <1>0, <2>1, JobsAssumption
    DEF Good, Followed, EndTold, HandlerSound, JobsSound, ToldSound, CountsSound
<1>9. ASSUME NEW r \in Reports, NEW n \in 1..2, NotYet(p, r, n)
      PROVE  Good(p)'
  <2>1. /\ pc[p][r] = "preparing" /\ report'[p] = "pending" /\ Again(p, r, n)
        /\ UNCHANGED <<status, jobs, ordered, made, told, torn, crowded, slipped>>
    BY <1>0, <1>9 DEF NotYet, TypeOK
  <2>2. CASE n = 2
    <3>1. /\ \A k \in Jobs : pc'[p][k] = IF k = r THEN "idle" ELSE pc[p][k]
          /\ lost' = lost
      BY <1>0, <2>1, <2>2 DEF Again, Leave, TypeOK
    <3>2. QED
      BY <1>0, <2>1, <3>1, JobsAssumption
      DEF Good, Followed, EndTold, HandlerSound, JobsSound, ToldSound, CountsSound
  <2>3. CASE n # 2
    <3>1. Dies(p)
      BY <1>0, <2>1, <2>3, DieDies DEF Again
    <3>2. r \in jobs[p] /\ status[p] = "completed"
      BY <1>0, <2>1 DEF Good, HandlerSound, JobsSound
    <3>3. QED
      BY <2>1, <3>1, <3>2, StruckGood
  <2>4. QED
    BY <2>2, <2>3
<1>10. ASSUME NEW r \in Reports, Fetch(p, r) \/ AnswerReport(p, r)
       PROVE  Good(p)'
  <2>1. /\ pc[p][r] # "idle"
        /\ UNCHANGED <<status, report, jobs, ordered, made, history>>
    BY <1>10 DEF Fetch, AnswerReport
  <2>2. \E w \in Wait \ {"idle", "made"} : \A k \in Jobs : pc'[p][k] = IF k = r THEN w ELSE pc[p][k]
    <3>1. CASE Fetch(p, r)
      <4>1. \A k \in Jobs : pc'[p][k] = IF k = r THEN "fetch" ELSE pc[p][k]
        BY <1>0, <3>1 DEF Fetch, TypeOK
      <4>2. "fetch" \in Wait \ {"idle", "made"}
        BY DEF Wait
      <4>3. QED
        BY <4>1, <4>2
    <3>2. CASE AnswerReport(p, r)
      <4>1. gen'[p] \in {"preparing", "generated", "broken"}
        BY <1>0, <3>2 DEF AnswerReport, TypeOK
      <4>2. gen'[p] \in Wait \ {"idle", "made"}
        BY <4>1 DEF Wait, Answer
      <4>3. QED
        BY <1>0, <3>2, <4>2 DEF AnswerReport, TypeOK
    <3>3. QED
      BY <1>10, <3>1, <3>2
  <2>3. QED
    BY <1>0, <2>1, <2>2, JobsAssumption
    DEF Good, Followed, EndTold, HandlerSound, JobsSound, ToldSound, CountsSound
<1>11. 1 \in 1..2
  OBVIOUS
<1>12. QED
  BY <1>1, <1>2, <1>3, <1>4, <1>5, <1>6, <1>7, <1>8, <1>9, <1>10, <1>11, EndsGood DEF Own

-----------------------------------------------------------------------------
(* The invariant holds before anything is submitted, and no step ends it.  *)
LEMMA InitHolds == Init => IInv
<1> SUFFICES ASSUME Init PROVE IInv
  OBVIOUS
<1>1. TypeOK
  <2>1. "absent" \in Status /\ "none" \in Report /\ "idle" \in Wait
    BY DEF Status, Report, Wait
  <2>2. 0 \in 0..MaxRetries /\ 0 \in 0..MaxRestarts
    BY LimitsAssumption
  <2>3. /\ status \in [Packages -> Status] /\ report \in [Packages -> Report]
        /\ pc \in [Packages -> [Jobs -> Wait]]
    BY <2>1 DEF Init
  <2>4. /\ attempts \in [Packages -> [Jobs -> 0..MaxRetries]] /\ restarts \in 0..MaxRestarts
        /\ told \in [Packages -> [Jobs -> 0..1]]
    BY <2>2 DEF Init, None
  <2>5. QED
    BY <2>3, <2>4 DEF Init, TypeOK
<1>2. ASSUME NEW p \in Packages
      PROVE  Good(p)
  <2>1. /\ status[p] = "absent" /\ report[p] = "none" /\ jobs[p] = {} /\ ordered[p] = {}
        /\ torn[p] = {} /\ made[p] = 0 /\ lost[p] = 0
        /\ \A j \in Jobs : pc[p][j] = "idle" /\ told[p][j] = 0
    BY DEF Init, None
  <2>2. QED
    BY <2>1 DEF Jobs, Good, Followed, EndTold, HandlerSound, JobsSound, ToldSound, CountsSound
<1>3. QED
  BY <1>1, <1>2, IInvIsGood

LEMMA StepHolds == IInv /\ [Next]_vars => IInv'
<1> SUFFICES ASSUME IInv, [Next]_vars PROVE IInv'
  OBVIOUS
<1>1. TypeOK'
  BY TypeStep
<1>2. ASSUME NEW e \in Packages
      PROVE  Good(e)'
  BY OwnOrUntouched, OwnGood, UntouchedGood, IInvIsGood
<1>3. (TypeOK /\ \A p \in Packages : Good(p))' => IInv'
  BY IInvIsGood, PTL
<1>4. QED
  BY <1>1, <1>2, <1>3

(* The inductive invariant holds at all times. *)
THEOREM InvariantHolds == Spec => []IInv
BY InitHolds, StepHolds, PTL DEF Spec

(* Rows, jobs and handlers keep their types; no job of a package is        *)
(* retried past the schedule and no job tells of an end twice.             *)
THEOREM TypeCorrect == Spec => []TypeOK
<1>1. IInv => TypeOK
  BY DEF IInv
<1>2. QED
  BY <1>1, InvariantHolds, PTL

(* A package that is not over has the job that takes it on, and a report   *)
(* that was ordered one that fetches it, unless a kill came between.       *)
THEOREM PackagesAreFollowed == Spec => []StillFollowed
<1>1. IInv => StillFollowed
  BY DEF IInv
<1>2. QED
  BY <1>1, InvariantHolds, PTL

(* The client is told of every end of a package once, unless its orders    *)
(* crossed or a kill came before.                                          *)
THEOREM EveryEndIsTold == Spec => []EndsAreTold
<1>1. IInv => EndsAreTold
  BY DEF IInv
<1>2. QED
  BY <1>1, InvariantHolds, PTL

(* A package is created at Multiinfo once, and once more only for each     *)
(* time the gateway did not learn that it had been.                        *)
THEOREM CreatedOnceUnlessLost == Spec => []Creation!OnceUnlessLost
<1>1. IInv => Creation!OnceUnlessLost
  <2> SUFFICES ASSUME IInv, NEW p \in Packages, DutyOf(p) # "torn"
               PROVE  lost[p] <= made[p] /\ made[p] <= lost[p] + 1
    BY DEF Creation!OnceUnlessLost
  <2>1. Create \notin torn[p]
    BY DEF DutyOf
  <2>2. QED
    BY <2>1 DEF IInv, CountsSound
<1>2. QED
  BY <1>1, InvariantHolds, PTL

-----------------------------------------------------------------------------
(* A step changes neither a package that is over nor a report that is      *)
(* ready and not ordered again.                                            *)
Stands(p) ==
  /\ status[p] \in Final => status'[p] = status[p]
  /\ report[p] = "ready" /\ p \notin crowded /\ ~(\E n \in 1..2 : Order(p, n))
       => report'[p] = "ready"

LEMMA StandsStep ==
  ASSUME IInv, [Next]_vars, NEW p \in Packages
  PROVE  Stands(p)
<1> USE DEF row, queue, world, history
<1>0. /\ Create \in Jobs /\ Poll \in Jobs /\ Reports \subseteq Jobs
      /\ TypeOK /\ HandlerSound(p) /\ JobsSound(p)
  BY DEF IInv, Jobs
<1>1. CASE Untouched(p)
  BY <1>1 DEF Untouched, Same, Stands
<1>2. CASE Submit(p) \/ Make(p) \/ LearnNothing(p)
  BY <1>0, <1>2 DEF Submit, Make, LearnNothing, Again, Stands, Final, TypeOK
<1>3. ASSUME NEW n \in 1..2, Order(p, n)
      PROVE  Stands(p)
  BY <1>3 DEF Order, Stands
<1>4. ASSUME NEW j \in Jobs, Drop(p, j) \/ Reject(p, j) \/ Retry(p, j) \/ Refuse(p, j)
      PROVE  Stands(p)
  BY <1>4 DEF Drop, Reject, Retry, Refuse, Stands
<1>5. ASSUME NEW j \in Jobs, Begin(p, j)
      PROVE  Stands(p)
  <2>1. CASE j \in Reports
    BY <1>5, <2>1, JobsAssumption DEF Begin, Finished, Stands
  <2>2. CASE j \notin Reports
    BY <1>5, <2>2 DEF Begin, Stands
  <2>3. QED
    BY <2>1, <2>2
<1>6. ASSUME NEW n \in 1..2, Progress(p, n)
      PROVE  Stands(p)
  BY <1>0, <1>6 DEF Progress, HandlerSound, Stands, Final
<1>7. ASSUME NEW r \in Reports, NEW n \in 1..2, NotYet(p, r, n) \/ Fetch(p, r) \/ AnswerReport(p, r)
      PROVE  Stands(p)
  BY <1>0, <1>7 DEF NotYet, Fetch, AnswerReport, HandlerSound, Stands
<1>8. ASSUME NEW n \in 1..3, Ends(p, n)
      PROVE  Stands(p)
  <2>1. CASE Created(p, n) \/ NotCreated(p, n)
    BY <1>0, <2>1 DEF Created, NotCreated, GivesUp, Waiting, HandlerSound, Stands, Final
  <2>2. CASE Sent(p, n) \/ Cancelled(p, n)
    BY <1>0, <2>2 DEF Sent, Cancelled, HandlerSound, Stands, Final
  <2>3. ASSUME NEW r \in Reports, Fetched(p, r, n) \/ NoReport(p, r, n)
        PROVE  Stands(p)
    <3>1. pc[p][r] # "idle" /\ status' = status
      BY <2>3 DEF Fetched, NoReport, GivesUp, Waiting
    <3>2. QED
      BY <1>0, <3>1 DEF HandlerSound, Stands
  <2>4. QED
    BY <1>8, <2>1, <2>2, <2>3 DEF Ends
<1>9. 1 \in 1..2
  OBVIOUS
<1>10. QED
  BY <1>1, <1>2, <1>3, <1>4, <1>5, <1>6, <1>7, <1>8, <1>9, OwnOrUntouched DEF Own

(* What the client can see of an end stays, whatever a kill left behind.   *)
THEOREM OutcomesAreFinal == Spec => OutcomesStand
<1>1. IInv /\ [Next]_vars => [\A p \in Packages :
       /\ status[p] \in Final => status'[p] = status[p]
       /\ report[p] = "ready" /\ p \notin crowded /\ ~(\E n \in 1..2 : Order(p, n))
            => report'[p] = "ready"]_vars
  BY StandsStep DEF Stands
<1>2. QED
  BY <1>1, InvariantHolds, PTL DEF Spec, OutcomesStand

-----------------------------------------------------------------------------
(* The steps of RemoteCall in terms of a package and its creating job. *)
LEMMA CallStep ==
  ASSUME NEW p \in Packages
  PROVE  /\ DutyOf(p)' = DutyOf(p) /\ made'[p] = made[p] /\ lost'[p] = lost[p] => Creation!Step(p)
         /\ DutyOf(p) = "none" /\ DutyOf(p)' = "owed"
              /\ made'[p] = made[p] /\ lost'[p] = lost[p] => Creation!Step(p)
         /\ DutyOf(p) = "owed" /\ DutyOf(p)' = "owed" /\ made[p] = lost[p]
              /\ made'[p] = made[p] + 1 /\ lost'[p] = lost[p] => Creation!Step(p)
         /\ DutyOf(p) = "owed" /\ DutyOf(p)' = "owed" /\ made[p] = lost[p] + 1
              /\ made'[p] = made[p] /\ lost'[p] = lost[p] + 1 => Creation!Step(p)
         /\ DutyOf(p) = "owed" /\ DutyOf(p)' = "over" /\ made'[p] = made[p]
              /\ lost'[p] \in {lost[p], made[p]} => Creation!Step(p)
         /\ DutyOf(p) \in {"owed", "torn"} /\ DutyOf(p)' = "torn" => Creation!Step(p)
BY DEF Creation!Step, Creation!Stay, Creation!Accept, Creation!Take, Creation!Lose,
       Creation!Settle, Creation!Tear

(* A package whose creating job is as it was makes no step of the call, or *)
(* loses the answer to it.                                                 *)
LEMMA DutyKept ==
  ASSUME TypeOK, NEW p \in Packages, Good(p), made'[p] = made[p],
         Dies(p) \/ lost'[p] = lost[p],
         torn'[p] = torn[p] \/ (\E j \in Jobs \ {Create} : torn'[p] = torn[p] \cup {j}),
         status'[p] = "absent" <=> status[p] = "absent",
         Create \in jobs'[p] <=> Create \in jobs[p]
  PROVE  Creation!Step(p)
<1>1. DutyOf(p)' = DutyOf(p)
  BY DEF DutyOf
<1>2. CASE Create \in torn[p]
  BY <1>1, <1>2, CallStep DEF DutyOf
<1>3. CASE Create \notin torn[p] /\ lost'[p] # lost[p]
  <2>1. lost'[p] = lost[p] + 1 /\ pc[p][Create] = "made"
    BY <1>3 DEF Dies
  <2>2. DutyOf(p) = "owed" /\ made[p] = lost[p] + 1
    BY <1>3, <2>1 DEF Good, HandlerSound, CountsSound, DutyOf, Jobs
  <2>3. QED
    BY <1>1, <2>1, <2>2, CallStep
<1>4. CASE lost'[p] = lost[p]
  BY <1>1, <1>4, CallStep
<1>5. QED
  BY <1>2, <1>3, <1>4

(* The end of a handler is a step of the call. *)
LEMMA EndsCall ==
  ASSUME IInv, NEW p \in Packages, NEW n \in 1..3, Ends(p, n)
  PROVE  Creation!Step(p)
<1> USE DEF world
<1>0. /\ Create \in Jobs /\ Poll \in Jobs /\ Reports \subseteq Jobs
      /\ Good(p) /\ TypeOK /\ lost[p] \in Nat /\ made[p] \in Nat
  BY IInvIsGood DEF Jobs, TypeOK
<1>1. CASE Created(p, n) \/ NotCreated(p, n)
  <2>1. /\ pc[p][Create] # "idle" /\ status'[p] # "absent"
        /\ made' = made
        /\ n = 3 => lost' = lost \/ Unheard(p, Create)
    BY <1>0, <1>1 DEF Created, NotCreated, GivesUp, Waiting, TypeOK
  <2>2. \E next \in {{}, {Poll}}, tell \in BOOLEAN :
          IF n = 3 THEN Closed(p, Create, next, tell) ELSE Cut(p, Create)
    BY <1>0, <1>1, <2>1, CloseIs DEF Created, NotCreated
  <2>3. DutyOf(p) \in {"owed", "torn"}
    BY <1>0, <2>1 DEF Good, HandlerSound, DutyOf
  <2>4. CASE n = 3
    <3>1. DutyOf(p)' = IF Create \in torn[p] THEN "torn" ELSE "over"
      BY <2>1, <2>2, <2>4, JobsAssumption DEF Closed, DutyOf
    <3>2. lost'[p] \in {lost[p], made[p]} \/ Create \in torn[p]
      BY <1>0, <2>1, <2>4 DEF Unheard, Good, CountsSound, TypeOK
    <3>3. Create \in torn[p] <=> DutyOf(p) = "torn"
      BY DEF DutyOf
    <3>4. QED
      BY <2>1, <2>3, <3>1, <3>2, <3>3, CallStep
  <2>5. CASE n # 3
    <3>1. DutyOf(p)' = "torn"
      BY <2>2, <2>5 DEF Cut, DutyOf
    <3>2. QED
      BY <2>3, <3>1, CallStep
  <2>6. QED
    BY <2>4, <2>5
<1>2. ASSUME NEW j \in {Poll} \cup Reports, NEW next \in SUBSET Reports, NEW tell \in BOOLEAN,
             pc[p][j] # "idle", Close(p, j, n, next, tell), made' = made,
             status[p] # "absent", status'[p] # "absent", n = 3 => lost' = lost
      PROVE  Creation!Step(p)
  <2>1. IF n = 3 THEN Closed(p, j, next, tell) ELSE Cut(p, j)
    BY <1>0, <1>2, CloseIs
  <2>2. j # Create /\ Create \notin next
    BY <1>2, JobsAssumption
  <2>3. CASE n = 3
    BY <1>0, <1>2, <2>1, <2>2, <2>3, DutyKept DEF Closed
  <2>4. CASE n # 3
    BY <1>0, <1>2, <2>1, <2>2, <2>4, DutyKept DEF Cut
  <2>5. QED
    BY <2>3, <2>4
<1>3. CASE Sent(p, n)
  <2>1. PICK r \in Reports : Close(p, Poll, n, {r}, FALSE)
    BY <1>3 DEF Sent
  <2>2. /\ pc[p][Poll] # "idle" /\ made' = made
        /\ status[p] # "absent" /\ status'[p] # "absent"
        /\ n = 3 => lost' = lost
    BY <1>0, <1>3 DEF Sent, TypeOK, Good, HandlerSound
  <2>3. QED
    BY <1>2, <2>1, <2>2
<1>4. CASE Cancelled(p, n)
  <2>1. /\ pc[p][Poll] # "idle" /\ made' = made /\ Close(p, Poll, n, {}, TRUE)
        /\ status[p] # "absent" /\ status'[p] # "absent"
        /\ n = 3 => lost' = lost
    BY <1>0, <1>4 DEF Cancelled, TypeOK, Good, HandlerSound
  <2>2. QED
    BY <1>2, <2>1
<1>5. ASSUME NEW r \in Reports, Fetched(p, r, n) \/ NoReport(p, r, n)
      PROVE  Creation!Step(p)
  <2>1. /\ pc[p][r] # "idle" /\ made' = made /\ Close(p, r, n, {}, TRUE)
        /\ status' = status
        /\ n = 3 => lost' = lost
    BY <1>5 DEF Fetched, NoReport, GivesUp, Waiting
  <2>2. status[p] # "absent"
    BY <1>0, <2>1 DEF Good, HandlerSound, JobsSound
  <2>3. QED
    BY <1>2, <2>1, <2>2
<1>6. QED
  BY <1>1, <1>3, <1>4, <1>5 DEF Ends

(* Every step of a package is one of the call that creates it. *)
LEMMA CallNext ==
  ASSUME IInv, [Next]_vars, NEW p \in Packages
  PROVE  Creation!Step(p)
<1> USE DEF row, queue, world, history
<1>0. /\ Create \in Jobs /\ Poll \in Jobs /\ Reports \subseteq Jobs
      /\ Good(p) /\ TypeOK /\ lost[p] \in Nat /\ made[p] \in Nat
  BY IInvIsGood DEF Jobs, TypeOK
<1>1. CASE Untouched(p)
  BY <1>0, <1>1, DutyKept DEF Untouched, Same
<1>2. CASE Submit(p)
  <2>1. DutyOf(p) = "none" /\ DutyOf(p)' = "owed"
    BY <1>0, <1>2 DEF Submit, DutyOf, Good, JobsSound, TypeOK
  <2>2. QED
    BY <1>2, <2>1, CallStep DEF Submit
<1>3. ASSUME NEW n \in 1..2, Order(p, n)
      PROVE  Creation!Step(p)
  <2>1. UNCHANGED <<status, made, torn>>
    BY <1>3 DEF Order
  <2>2. CASE Ordered(p)
    <3>1. PICK r \in Reports : jobs' = [jobs EXCEPT ![p] = @ \cup {r}]
      BY <2>2 DEF Ordered
    <3>2. Create \in jobs'[p] <=> Create \in jobs[p]
      BY <1>0, <3>1, JobsAssumption DEF TypeOK
    <3>3. QED
      BY <1>0, <2>1, <2>2, <3>2, DutyKept DEF Ordered
  <2>3. CASE OrderCut(p)
    <3>1. Dies(p) /\ jobs' = jobs
      BY <1>0, <2>3, DieDies DEF OrderCut
    <3>2. QED
      BY <1>0, <2>1, <3>1, DutyKept
  <2>4. QED
    BY <1>3, <2>2, <2>3 DEF Order
<1>4. ASSUME NEW j \in Jobs, Drop(p, j)
      PROVE  Creation!Step(p)
  <2>1. CASE j = Create
    <3>1. Create \in torn[p]
      BY <1>0, <1>4, <2>1 DEF Drop, Ready, Finished, Good, JobsSound
    <3>2. QED
      BY <1>4, <3>1, CallStep DEF Drop, DutyOf
  <2>2. CASE j # Create
    BY <1>0, <1>4, <2>2, DutyKept DEF Drop, TypeOK
  <2>3. QED
    BY <2>1, <2>2
<1>5. ASSUME NEW j \in Jobs, Begin(p, j) \/ Reject(p, j) \/ Refuse(p, j)
      PROVE  Creation!Step(p)
  BY <1>0, <1>5, DutyKept DEF Begin, Reject, Refuse
<1>6. ASSUME NEW j \in Jobs, Retry(p, j)
      PROVE  Creation!Step(p)
  <2>1. Unheard(p, j) /\ UNCHANGED <<status, jobs, made, torn>>
    BY <1>6 DEF Retry
  <2>2. CASE pc[p][j] = "made"
    <3>1. j = Create /\ lost'[p] = lost[p] + 1 /\ DutyOf(p)' = DutyOf(p)
      BY <1>0, <2>1, <2>2 DEF Unheard, Good, HandlerSound, TypeOK, DutyOf
    <3>2. CASE Create \in torn[p]
      BY <3>1, <3>2, CallStep DEF DutyOf
    <3>3. CASE Create \notin torn[p]
      <4>1. DutyOf(p) = "owed" /\ made[p] = lost[p] + 1
        BY <1>0, <2>2, <3>1, <3>3 DEF Good, HandlerSound, CountsSound, DutyOf
      <4>2. QED
        BY <2>1, <3>1, <4>1, CallStep
    <3>4. QED
      BY <3>2, <3>3
  <2>3. CASE pc[p][j] # "made"
    BY <1>0, <2>1, <2>3, DutyKept DEF Unheard
  <2>4. QED
    BY <2>2, <2>3
<1>again. ASSUME NEW j \in Jobs, NEW n \in 1..2, Again(p, j, n)
       PROVE  Dies(p) \/ lost'[p] = lost[p]
  BY <1>0, <1>again, DieDies DEF Again
<1>7. ASSUME NEW n \in 1..2, Progress(p, n) \/ LearnNothing(p)
      PROVE  Creation!Step(p)
  <2>1. status[p] # "absent" /\ status'[p] # "absent"
    BY <1>0, <1>7 DEF Progress, LearnNothing, Good, HandlerSound, TypeOK
  <2>2. /\ UNCHANGED <<jobs, made, torn>>
        /\ \E k \in 1..2 : Again(p, Poll, k)
    BY <1>7 DEF Progress, LearnNothing
  <2>3. QED
    BY <1>0, <1>again, <2>1, <2>2, DutyKept
<1>8. CASE Make(p)
  <2>1. made'[p] = made[p] + 1 /\ DutyOf(p)' = DutyOf(p)
    BY <1>0, <1>8 DEF Make, TypeOK, DutyOf
  <2>2. CASE Create \in torn[p]
    BY <2>1, <2>2, CallStep DEF DutyOf
  <2>3. CASE Create \notin torn[p]
    <3>1. DutyOf(p) = "owed" /\ made[p] = lost[p]
      BY <1>0, <1>8, <2>3 DEF Make, Good, HandlerSound, CountsSound, DutyOf
    <3>2. QED
      BY <1>8, <2>1, <3>1, CallStep DEF Make
  <2>4. QED
    BY <2>2, <2>3
<1>9. ASSUME NEW r \in Reports, NEW n \in 1..2, NotYet(p, r, n) \/ Fetch(p, r) \/ AnswerReport(p, r)
      PROVE  Creation!Step(p)
  <2>1. CASE NotYet(p, r, n)
    <3>1. UNCHANGED <<status, jobs, made, torn>> /\ Again(p, r, n)
      BY <2>1 DEF NotYet
    <3>2. QED
      BY <1>0, <1>again, <3>1, DutyKept
  <2>2. CASE Fetch(p, r) \/ AnswerReport(p, r)
    BY <1>0, <2>2, DutyKept DEF Fetch, AnswerReport
  <2>3. QED
    BY <1>9, <2>1, <2>2
<1>one. 1 \in 1..2
  OBVIOUS
<1>10. QED
  BY <1>1, <1>2, <1>3, <1>4, <1>5, <1>6, <1>7, <1>8, <1>9, <1>one, EndsCall, OwnOrUntouched DEF Own

(* The creating job implements RemoteCall. *)
THEOREM CreationImplemented == Spec => ImplementsCreation
<1>1. Init => Creation!Init
  <2> SUFFICES ASSUME Init PROVE Creation!Init
    OBVIOUS
  <2>1. \A p \in Packages : DutyOf(p) = "none"
    BY DEF Init, DutyOf
  <2>2. QED
    BY <2>1 DEF Init, Creation!Init
<1>2. IInv /\ IInv' /\ [Next]_vars => [Creation!Next]_(Creation!vars)
  <2> SUFFICES ASSUME IInv, IInv', [Next]_vars PROVE Creation!Next
    OBVIOUS
  <2>1. TypeOK'
    BY DEF IInv
  <2>2. \A p \in Packages : Creation!Step(p)
    BY CallNext
  <2>3. \A p \in Packages : DutyOf(p)' \in Creation!Duty
    BY DEF DutyOf, Creation!Duty
  <2>4. QED
    BY <2>1, <2>2, <2>3 DEF Creation!Next, TypeOK
<1>3. QED
  BY <1>1, <1>2, InvariantHolds, PTL DEF Spec, ImplementsCreation, Creation!Spec
=============================================================================
