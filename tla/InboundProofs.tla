--------------------------- MODULE InboundProofs ---------------------------
(***************************************************************************)
(* Proofs about Inbound for every set of services, keys and messages and   *)
(* every number of loops, changes and restarts.                            *)
(***************************************************************************)
EXTENDS Inbound, TLAPS

(* What loops wait for when a refresh begins: what they waited for before, *)
(* or the end of a question that was cut off.                              *)
Cuts(at) == at \in [Loops -> Wait]
            /\ \A l \in Loops : at[l] # pc[l] => pc[l] = "ask" /\ at[l] = "cut"

LEMMA CutCuts ==
  ASSUME TypeOK
  PROVE  Cuts(pc) /\ Cuts(Cut)
<1>1. Cuts(pc)
  BY DEF TypeOK, Cuts
<1>2. Cut \in [Loops -> Wait]
  BY DEF TypeOK, Cut, Wait
<1>3. \A l \in Loops : Cut[l] = IF pc[l] = "ask" THEN "cut" ELSE pc[l]
  BY DEF Cut
<1>4. QED
  BY <1>1, <1>2, <1>3 DEF Cuts

LEMMA TargetsType ==
  ASSUME NEW keys, NEW halted
  PROVE  Targets(keys, halted) \in SUBSET Services
BY DEF Targets

(* The loops a refresh lights were not busy. *)
LEMMA LitFree ==
  ASSUME NEW wanted \in SUBSET Services, NEW retry, NEW at, Reconcile(wanted, retry, at),
         NEW s \in Lit(wanted, retry)
  PROVE  <<s, Free(s, at)>> \in Loops /\ at[<<s, Free(s, at)>>] = "off"
<1>1. PICK n \in Slots : at[<<s, n>>] = "off"
  BY DEF Reconcile
<1>2. Free(s, at) \in Slots /\ at[<<s, Free(s, at)>>] = "off"
  BY <1>1 DEF Free
<1>3. s \in Services
  BY DEF Lit
<1>4. QED
  BY <1>2, <1>3 DEF Loops

(* A refresh keeps the types. *)
LEMMA ReconcileType ==
  ASSUME TypeOK, NEW wanted \in SUBSET Services, NEW retry, NEW at, Cuts(at),
         Reconcile(wanted, retry, at)
  PROVE  /\ loops' \in SUBSET Loops /\ aborted' \in SUBSET Loops
         /\ pc' \in [Loops -> Wait] /\ reply' \in [Loops -> Sms \cup {Nothing}]
         /\ error' \in [Services -> {"none", "passing", "refused"}]
         /\ stopped' \in [Services -> {"no", "fresh", "due"}]
<1>1. loops' \in SUBSET Loops
  <2>1. ASSUME NEW l \in loops'
        PROVE  l \in Loops
    <3>1. CASE l \in loops
      BY <3>1 DEF TypeOK
    <3>2. CASE l \notin loops
      <4>1. PICK s \in Lit(wanted, retry) : l = <<s, Free(s, at)>>
        BY <2>1, <3>2 DEF Reconcile
      <4>2. QED
        BY <4>1, LitFree
    <3>3. QED
      BY <3>1, <3>2
  <2>2. QED
    BY <2>1
<1>2. aborted' \in SUBSET Loops
  <2>1. \A l : l \in aborted' => l \in aborted \/ l \in loops
    BY DEF Reconcile
  <2>2. QED
    BY <2>1 DEF TypeOK
<1>3. pc' \in [Loops -> Wait]
  BY DEF Reconcile, TypeOK, Cuts, Wait
<1>4. reply' \in [Loops -> Sms \cup {Nothing}]
  BY DEF Reconcile, TypeOK
<1>5. QED
  BY <1>1, <1>2, <1>3, <1>4 DEF Reconcile, TypeOK

(* Every step keeps the types. *)
LEMMA TypeStep ==
  ASSUME TypeOK, \A l \in Loops : LoopSound(l), [Next]_vars
  PROVE  TypeOK'
<1> USE DEF tables, world, receiver
<1>1. CASE Refresh
  <2>1. Reconcile(Targets(listeners, paused), FALSE, pc)
    BY <1>1 DEF Refresh
  <2>2. QED
    BY <1>1, <2>1, ReconcileType, CutCuts, TargetsType DEF Refresh, TypeOK
<1>2. ASSUME NEW m \in Sms, Arrive(m) \/ ComeAgain(m)
      PROVE  TypeOK'
  BY <1>2 DEF Arrive, ComeAgain, TypeOK, Place
<1>3. ASSUME NEW l \in Loops, Confirmed(l)
      PROVE  TypeOK'
  BY <1>3 DEF Confirmed, TypeOK, Place
<1>4. ASSUME NEW l \in Loops, NEW m \in Sms, Show(l, m)
      PROVE  TypeOK'
  BY <1>4 DEF Show, TypeOK, Place
<1>5. ASSUME NEW keys \in [Services -> SUBSET Keys], Save(keys)
      PROVE  TypeOK'
  <2>1. Reconcile(Targets(keys, paused), TRUE, pc)
    BY <1>5 DEF Save
  <2>2. changes' \in 0..MaxChanges
    BY <1>5, BoundAssumption DEF Save, Change, TypeOK
  <2>3. QED
    BY <1>5, <2>1, <2>2, ReconcileType, CutCuts, TargetsType DEF Save, TypeOK
<1>6. ASSUME NEW renewed \in BOOLEAN, Resume(renewed)
      PROVE  TypeOK'
  <2> DEFINE at == IF renewed THEN Cut ELSE pc
  <2>1. Reconcile(Targets(listeners, FALSE), TRUE, at) /\ Cuts(at)
    BY <1>6, CutCuts DEF Resume
  <2>2. changes' \in 0..MaxChanges
    BY <1>6, BoundAssumption DEF Resume, Change, TypeOK
  <2> HIDE DEF at
  <2>3. QED
    BY <1>6, <2>1, <2>2, ReconcileType, TargetsType DEF Resume, TypeOK
<1>7. CASE Renew
  <2>1. changes' \in 0..MaxChanges
    BY <1>7, BoundAssumption DEF Renew, Change, TypeOK
  <2>2. pc' \in [Loops -> Wait]
    BY <1>7, CutCuts DEF Renew, Cuts
  <2>3. QED
    BY <1>7, <2>1, <2>2 DEF Renew, TypeOK
<1>8. ASSUME NEW k \in Keys, Expire(k)
      PROVE  TypeOK'
  <2>1. changes' \in 0..MaxChanges
    BY <1>8, BoundAssumption DEF Expire, Change, TypeOK
  <2>2. QED
    BY <1>8, <2>1 DEF Expire, TypeOK
<1>9. CASE PauseElsewhere
  <2>1. changes' \in 0..MaxChanges
    BY <1>9, BoundAssumption DEF PauseElsewhere, Change, TypeOK
  <2>2. pc' \in [Loops -> Wait]
    BY <1>9, CutCuts DEF PauseElsewhere, Cuts
  <2>3. QED
    BY <1>9, <2>1, <2>2 DEF PauseElsewhere, Pause, TypeOK
<1>10. ASSUME NEW l \in Loops, Ask(l)
       PROVE  TypeOK'
  <2>1. l[1] \in Services
    BY DEF Loops
  <2>2. CASE Receive(l)
    <3>1. stored' \in SUBSET Sms
      BY <2>2 DEF Receive, Store, TypeOK
    <3>2. told' \in [Sms -> [Keys -> Nat]]
      <4>1. CASE told' = told
        BY <4>1 DEF TypeOK
      <4>2. CASE told' # told
        <5> DEFINE more == [k \in Keys |-> told[reply[l]][k] + IF k \in listeners[l[1]] THEN 1 ELSE 0]
        <5>1. reply[l] \in Sms
          BY <2>2 DEF Receive, TypeOK
        <5>2. told[reply[l]] \in [Keys -> Nat]
          BY <5>1 DEF TypeOK
        <5>3. more \in [Keys -> Nat]
          BY <5>2
        <5>4. told' = [told EXCEPT ![reply[l]] = more]
          BY <2>2, <4>2 DEF Receive, Store
        <5> HIDE DEF more
        <5>5. QED
          BY <5>1, <5>3, <5>4 DEF TypeOK
      <4>3. QED
        BY <4>1, <4>2
    <3>3. QED
      BY <2>1, <2>2, <3>1, <3>2 DEF Receive, Answered, TypeOK, Wait
  <2>3. CASE StoreFails(l) \/ ReceiveNothing(l)
    BY <2>1, <2>3 DEF StoreFails, ReceiveNothing, Answered, TypeOK, Wait, Outcome
  <2>4. CASE Fail(l) \/ Refuse(l)
    BY <2>1, <2>4 DEF Fail, Refuse, TypeOK, Wait, Outcome
  <2>5. CASE Reject(l)
    <3>1. pc' \in [Loops -> Wait]
      BY <2>5, CutCuts DEF Reject, Cuts, Wait, Outcome
    <3>2. QED
      BY <2>5, <3>1 DEF Reject, Pause, TypeOK
  <2>6. QED
    BY <1>10, <2>2, <2>3, <2>4, <2>5 DEF Ask
<1>11. ASSUME NEW l \in Loops, Finish(l) \/ Continue(l) \/ Wake(l)
       PROVE  TypeOK'
  <2>1. l[1] \in Services
    BY DEF Loops
  <2>2. QED
    BY <1>11, <2>1 DEF Finish, Continue, Wake, End, TypeOK, Wait, Outcome
<1>12. ASSUME NEW s \in Services, Ripen(s)
       PROVE  TypeOK'
  BY <1>12 DEF Ripen, TypeOK
<1>13. CASE Restart
  <2>1. Targets(listeners, paused) \X {1} \in SUBSET Loops
    BY BoundAssumption, TargetsType DEF Loops, Slots
  <2>2. restarts' \in 0..MaxRestarts
    BY <1>13, BoundAssumption DEF Restart, TypeOK
  <2>3. QED
    BY <1>13, <2>1, <2>2 DEF Restart, TypeOK, Wait
<1>14. CASE UNCHANGED vars
  BY <1>14 DEF vars, TypeOK
<1>15. QED
  BY <1>1, <1>2, <1>3, <1>4, <1>5, <1>6, <1>7, <1>8, <1>9, <1>10, <1>11, <1>12, <1>13, <1>14
     DEF Next, Multiinfo, Administrator, Run

-----------------------------------------------------------------------------
(* What the map of loops has to do with the loops themselves. *)
Lights == (\A l \in Loops : LoopSound(l)) /\ OneEntry

(* A refresh leaves every wanted service that is not stopped with a loop,  *)
(* and no error at the others.                                             *)
LEMMA ReconcileLights ==
  ASSUME TypeOK, Lights, NEW wanted \in SUBSET Services, NEW retry, NEW at, Cuts(at),
         Reconcile(wanted, retry, at), stored' = stored
  PROVE  /\ Lights'
         /\ \A s \in wanted :
              stopped'[s] = "no" => \E l \in loops' : l[1] = s /\ pc'[l] # "off"
         /\ \A s \in Services : error'[s] # "none" => s \in wanted
<1> DEFINE out == {l \in loops : l[1] \notin wanted}
           lit == {<<s, Free(s, at)>> : s \in Lit(wanted, retry)}
<1>1. /\ loops' = (loops \ out) \cup lit
      /\ aborted' = aborted \cup {l \in out : at[l] # "sleep"}
      /\ pc' = [l \in Loops |->
                  IF l \in lit THEN "ask"
                  ELSE IF l \in out /\ at[l] = "ask" THEN "cut"
                  ELSE IF l \in out /\ at[l] = "sleep" THEN "off"
                  ELSE at[l]]
      /\ reply' = [l \in Loops |-> IF pc'[l] = "cut" THEN Nothing ELSE reply[l]]
  BY DEF Reconcile
<1>2. \A l \in lit : l \in Loops /\ at[l] = "off"
  BY LitFree
<1>3. \A l \in Loops : at[l] = "off" <=> pc[l] = "off"
  BY DEF Cuts
<1>4. \A l \in Loops : l \in loops <=> pc[l] # "off" /\ l \notin aborted
  BY DEF Lights, LoopSound, Busy
<1>5. \A l \in lit : l \notin loops /\ l \notin out /\ l \notin aborted
  BY <1>2, <1>3 DEF Lights, LoopSound, Busy
<1>6. out \subseteq loops /\ loops \subseteq Loops
  BY DEF TypeOK
<1> HIDE DEF out, lit
<1>7. ASSUME NEW l \in Loops
      PROVE  LoopSound(l)'
  <2>1. CASE l \in lit
    BY <1>1, <1>5, <2>1 DEF LoopSound, Busy
  <2>2. CASE l \in out
    <3>1. l \notin lit /\ l \notin aborted /\ pc[l] # "off" /\ l \notin loops'
      BY <1>1, <1>4, <1>5, <1>6, <2>2
    <3>2. at[l] # "off"
      BY <1>3, <3>1
    <3>3. CASE at[l] = "sleep"
      BY <1>1, <2>2, <3>1, <3>3 DEF LoopSound, Busy
    <3>4. CASE at[l] = "ask"
      BY <1>1, <2>2, <3>1, <3>4 DEF LoopSound, Busy
    <3>5. CASE at[l] \notin {"sleep", "ask"}
      <4>1. pc'[l] = at[l]
        BY <1>1, <3>1, <3>5
      <4>2. l \in aborted'
        BY <1>1, <2>2, <3>5
      <4>3. pc'[l] = "confirm" => reply'[l] \in stored'
        <5>1. pc'[l] = "confirm" => pc[l] = "confirm" /\ reply'[l] = reply[l]
          BY <1>1, <4>1 DEF Cuts
        <5>2. QED
          BY <5>1 DEF Lights, LoopSound
      <4>4. QED
        BY <3>1, <3>2, <3>5, <4>1, <4>2, <4>3 DEF LoopSound, Busy
    <3>6. QED
      BY <3>3, <3>4, <3>5
  <2>3. CASE l \notin lit /\ l \notin out
    <3>1. pc'[l] = at[l] /\ (l \in loops' <=> l \in loops) /\ (l \in aborted' <=> l \in aborted)
      BY <1>1, <2>3
    <3>2. at[l] # pc[l] => pc[l] = "ask" /\ at[l] = "cut"
      BY DEF Cuts
    <3>3. pc'[l] = "confirm" => pc[l] = "confirm" /\ reply'[l] = reply[l]
      BY <1>1, <3>1, <3>2
    <3>4. LoopSound(l)
      BY DEF Lights
    <3>5. QED
      BY <3>1, <3>2, <3>3, <3>4 DEF LoopSound, Busy
  <2>4. QED
    BY <2>1, <2>2, <2>3
<1>8. OneEntry'
  <2> SUFFICES ASSUME NEW l \in loops', NEW k \in loops', l[1] = k[1]
               PROVE  l = k
    BY DEF OneEntry
  <2>1. \A x \in lit : ~Listened(x[1]) /\ x = <<x[1], Free(x[1], at)>>
    BY DEF lit, Lit
  <2>2. CASE l \in lit /\ k \in lit
    BY <2>1, <2>2
  <2>3. CASE l \in loops /\ k \in loops
    BY <2>3 DEF Lights, OneEntry
  <2>4. CASE (l \in lit /\ k \in loops) \/ (k \in lit /\ l \in loops)
    BY <2>1, <2>4 DEF Listened
  <2>5. QED
    BY <1>1, <2>2, <2>3, <2>4
<1>9. ASSUME NEW s \in wanted, stopped'[s] = "no"
      PROVE  \E l \in loops' : l[1] = s /\ pc'[l] # "off"
  <2>1. CASE Listened(s)
    <3>1. PICK l \in loops : l[1] = s
      BY <2>1 DEF Listened
    <3>2. l \notin out /\ l \in Loops /\ pc[l] # "off"
      BY <1>4, <1>6, <3>1 DEF out
    <3>3. l \in loops' /\ pc'[l] # "off"
      BY <1>1, <1>3, <3>2, <3>1
    <3>4. QED
      BY <3>1, <3>3
  <2>2. CASE ~Listened(s)
    <3>1. stopped[s] = "no"
      BY <1>9 DEF Reconcile
    <3>2. s \in Lit(wanted, retry)
      BY <2>2, <3>1 DEF Lit
    <3>3. <<s, Free(s, at)>> \in lit
      BY <3>2 DEF lit
    <3>4. QED
      BY <1>1, <1>2, <3>3
  <2>3. QED
    BY <2>1, <2>2
<1>10. \A s \in Services : error'[s] # "none" => s \in wanted
  BY DEF Reconcile
<1>11. QED
  BY <1>7, <1>8, <1>9, <1>10 DEF Lights

(* What a refresh leaves satisfies the two invariants about services, when *)
(* it works on the targets of the new state.                               *)
LEMMA ReconcileHeard ==
  ASSUME TypeOK, Lights, NEW retry, NEW at, Cuts(at), stored' = stored,
         Reconcile(Targets(listeners', paused'), retry, at)
  PROVE  Lights' /\ WantedIsHeard' /\ ErrorIsAboutListening'
<1> DEFINE wanted == Targets(listeners', paused')
<1>1. wanted \in SUBSET Services
  BY TargetsType
<1>2. Reconcile(wanted, retry, at)
  OBVIOUS
<1>3. \A s : Wanted(s)' <=> s \in wanted
  BY DEF Wanted, Targets
<1> HIDE DEF wanted
<1>4. /\ Lights'
      /\ \A s \in wanted :
           stopped'[s] = "no" => \E l \in loops' : l[1] = s /\ pc'[l] # "off"
      /\ \A s \in Services : error'[s] # "none" => s \in wanted
  BY <1>1, <1>2, ReconcileLights
<1>5. WantedIsHeard'
  BY <1>3, <1>4 DEF WantedIsHeard, Busy
<1>6. ErrorIsAboutListening'
  BY <1>4 DEF ErrorIsAboutListening, Listened
<1>7. QED
  BY <1>4, <1>5, <1>6

-----------------------------------------------------------------------------
Good == Lights /\ WantedIsHeard /\ ErrorIsAboutListening

(* A step that lights and ends no loop leaves the map in order. *)
LEMMA SameLights ==
  ASSUME Lights, UNCHANGED receiver,
         \A l \in Loops :
           /\ pc'[l] = "off" <=> pc[l] = "off"
           /\ l \in aborted => pc'[l] \notin {"ask", "sleep"}
           /\ pc'[l] = "confirm" => reply'[l] \in stored'
  PROVE  Lights'
<1>1. loops' = loops /\ aborted' = aborted
  BY DEF receiver
<1>2. ASSUME NEW l \in Loops
      PROVE  LoopSound(l)'
  BY <1>1 DEF Lights, LoopSound, Busy
<1>3. OneEntry'
  BY <1>1 DEF Lights, OneEntry
<1>4. QED
  BY <1>2, <1>3 DEF Lights

(* If besides no service becomes wanted, none is in error or found running *)
(* again but one with a loop, the services are in order.                   *)
LEMMA SameGood ==
  ASSUME Good, TypeOK, Lights', loops' = loops,
         \A s \in Services :
           /\ Wanted(s)' => Wanted(s)
           /\ stopped'[s] = "no" => stopped[s] = "no" \/ Listened(s)
           /\ error'[s] # "none" => error[s] # "none" \/ Listened(s)
  PROVE  Good'
<1>1. \A l \in loops : l \in Loops /\ pc'[l] # "off"
  BY DEF Lights, LoopSound, Busy, TypeOK
<1>2. \A s : Listened(s)' <=> Listened(s)
  BY DEF Listened
<1>3. WantedIsHeard'
  BY <1>1 DEF Good, WantedIsHeard, Listened, Busy
<1>4. ErrorIsAboutListening'
  <2> SUFFICES ASSUME NEW s \in Services, error'[s] # "none", ~Listened(s)
               PROVE  stopped'[s] # "no"
    BY <1>2 DEF ErrorIsAboutListening
  <2>1. QED
    BY DEF Good, ErrorIsAboutListening
<1>5. QED
  BY <1>3, <1>4 DEF Good

(* A loop that asks is in the map. *)
LEMMA AskIsListed ==
  ASSUME Lights, NEW l \in Loops, pc[l] # "off", l \notin aborted
  PROVE  l \in loops /\ Listened(l[1])
BY DEF Lights, LoopSound, Busy, Listened

LEMMA AskNotAborted ==
  ASSUME Lights, NEW l \in Loops, pc[l] = "ask"
  PROVE  l \notin aborted /\ l \in loops /\ Listened(l[1])
BY AskIsListed DEF Lights, LoopSound

(* The steps of the world around the receiver. *)
LEMMA WorldGood ==
  ASSUME TypeOK, Good,
         \/ Refresh \/ Multiinfo \/ Administrator \/ PauseElsewhere
         \/ \E k \in Keys : Expire(k)
         \/ \E s \in Services : Ripen(s)
  PROVE  Good'
<1> USE DEF tables, world, receiver
<1>0. Lights
  BY DEF Good
<1>1. CASE Refresh
  <2>1. Reconcile(Targets(listeners', paused'), FALSE, pc) /\ stored' = stored
    BY <1>1 DEF Refresh
  <2>2. QED
    BY <1>0, <2>1, ReconcileHeard, CutCuts DEF Good
<1>2. CASE Multiinfo
  <2>1. /\ UNCHANGED <<stored, error, listeners, paused, loops, aborted, stopped, pc>>
        /\ \A l \in Loops : pc[l] = "confirm" => reply'[l] = reply[l]
    <3>1. CASE \E l \in Loops, m \in Sms : Show(l, m)
      BY <3>1 DEF Show, TypeOK
    <3>2. QED
      BY <1>2, <3>1 DEF Multiinfo, Arrive, ComeAgain, Confirmed
  <2>2. Lights'
    BY <1>0, <2>1, SameLights DEF Lights, LoopSound
  <2>3. \A s : Wanted(s)' <=> Wanted(s)
    BY <2>1 DEF Wanted, Targets
  <2>4. QED
    BY <2>1, <2>2, <2>3, SameGood
<1>3. ASSUME NEW keys, Save(keys)
      PROVE  Good'
  <2>1. Reconcile(Targets(listeners', paused'), TRUE, pc) /\ stored' = stored
    BY <1>3 DEF Save
  <2>2. QED
    BY <1>0, <2>1, ReconcileHeard, CutCuts DEF Good
<1>4. ASSUME NEW renewed, Resume(renewed)
      PROVE  Good'
  <2> DEFINE at == IF renewed THEN Cut ELSE pc
  <2>1. Reconcile(Targets(listeners', paused'), TRUE, at) /\ stored' = stored /\ Cuts(at)
    BY <1>4, CutCuts DEF Resume
  <2> HIDE DEF at
  <2>2. QED
    BY <1>0, <2>1, ReconcileHeard DEF Good
<1>5. ASSUME Renew \/ PauseElsewhere
      PROVE  Good'
  <2>1. /\ UNCHANGED <<stored, error, listeners, loops, aborted, stopped>>
        /\ pc' = Cut
        /\ paused => paused'
        /\ \A l \in Loops : pc[l] = "confirm" => reply'[l] = reply[l]
    BY <1>5 DEF Renew, PauseElsewhere, Pause, Cut
  <2>2. \A l \in Loops : pc'[l] = IF pc[l] = "ask" THEN "cut" ELSE pc[l]
    BY <2>1 DEF Cut
  <2>3. Lights'
    BY <1>0, <2>1, <2>2, SameLights DEF Lights, LoopSound
  <2>4. \A s : Wanted(s)' => Wanted(s)
    BY <2>1 DEF Wanted, Targets
  <2>5. QED
    BY <2>1, <2>3, <2>4, SameGood
<1>6. ASSUME NEW k \in Keys, Expire(k)
      PROVE  Good'
  <2>1. /\ UNCHANGED <<stored, error, paused, loops, aborted, stopped, pc, reply>>
        /\ listeners' = [s \in Services |-> listeners[s] \ {k}]
    BY <1>6 DEF Expire
  <2>2. Lights'
    BY <1>0, <2>1, SameLights DEF Lights, LoopSound
  <2>3. \A s : Wanted(s)' => Wanted(s)
    BY <2>1 DEF Wanted, Targets
  <2>4. QED
    BY <2>1, <2>2, <2>3, SameGood
<1>7. ASSUME NEW s \in Services, Ripen(s)
      PROVE  Good'
  <2>1. /\ UNCHANGED <<stored, error, listeners, paused, loops, aborted, pc, reply>>
        /\ \A t \in Services : stopped'[t] = "no" => stopped[t] = "no"
    BY <1>7 DEF Ripen, TypeOK
  <2>2. Lights'
    BY <1>0, <2>1, SameLights DEF Lights, LoopSound
  <2>3. \A t : Wanted(t)' <=> Wanted(t)
    BY <2>1 DEF Wanted, Targets
  <2>4. QED
    BY <2>1, <2>2, <2>3, SameGood
<1>8. QED
  BY <1>1, <1>2, <1>3, <1>4, <1>5, <1>6, <1>7 DEF Administrator

(* The answers to a question. *)
LEMMA AskGood ==
  ASSUME TypeOK, Good, NEW l \in Loops, Ask(l)
  PROVE  Good'
<1> USE DEF tables, world, receiver
<1>0. Lights /\ l[1] \in Services
  BY DEF Good, Loops
<1>1. UNCHANGED <<loops, aborted, listeners>> /\ (paused => paused')
  BY DEF Ask, Receive, StoreFails, ReceiveNothing, Fail, Refuse, Reject, Pause
<1>2. \A s : Wanted(s)' => Wanted(s)
  BY <1>1 DEF Wanted, Targets
<1>3. CASE Receive(l)
  <2>1. Listened(l[1]) /\ l \notin aborted
    BY <1>0, <1>3, AskNotAborted DEF Receive
  <2>2. Lights'
    <3>1. pc' = [pc EXCEPT ![l] = "confirm"] /\ reply' = reply /\ pc[l] = "ask"
          /\ stored' = stored \cup {reply[l]}
      BY <1>3 DEF Receive, Answered, Store
    <3>2. QED
      BY <1>0, <1>1, <2>1, <3>1, SameLights DEF Lights, LoopSound, TypeOK
  <2>3. QED
    BY <1>0, <1>1, <1>2, <1>3, <2>1, <2>2, SameGood DEF Receive, Answered, TypeOK
<1>4. CASE StoreFails(l) \/ ReceiveNothing(l) \/ Refuse(l)
  <2>1. Listened(l[1]) /\ l \notin aborted /\ pc[l] = "ask"
    BY <1>0, <1>4, AskNotAborted DEF StoreFails, ReceiveNothing, Refuse
  <2>2. Lights'
    <3>1. PICK next \in {"error", "empty", "stopped"} : pc' = [pc EXCEPT ![l] = next]
      BY <1>4 DEF StoreFails, ReceiveNothing, Refuse, Answered
    <3>2. /\ \A k \in Loops : k # l => reply'[k] = reply[k]
          /\ stored' = stored
      BY <1>4 DEF StoreFails, ReceiveNothing, Refuse, TypeOK
    <3>3. QED
      BY <1>0, <1>1, <2>1, <3>1, <3>2, SameLights DEF Lights, LoopSound, TypeOK
  <2>3. /\ \A s \in Services : s # l[1] => stopped'[s] = stopped[s] /\ error'[s] = error[s]
    BY <1>4 DEF StoreFails, ReceiveNothing, Refuse, Answered, TypeOK
  <2>4. QED
    BY <1>1, <1>2, <2>1, <2>2, <2>3, SameGood
<1>5. CASE Fail(l)
  <2>1. Lights'
    <3>1. pc' = [pc EXCEPT ![l] = "error"] /\ stored' = stored /\ pc[l] # "off"
          /\ \A k \in Loops : k # l => reply'[k] = reply[k]
      BY <1>5 DEF Fail, TypeOK
    <3>2. QED
      BY <1>0, <1>1, <3>1, SameLights DEF Lights, LoopSound, TypeOK
  <2>2. \A s \in Services : error'[s] # error[s] => s = l[1] /\ l \notin aborted
    BY <1>5 DEF Fail, TypeOK
  <2>3. l \notin aborted => Listened(l[1])
    BY <1>0, <1>5, AskIsListed DEF Fail
  <2>4. stopped' = stopped
    BY <1>5 DEF Fail
  <2>5. QED
    BY <1>1, <1>2, <2>1, <2>2, <2>3, <2>4, SameGood
<1>6. CASE Reject(l)
  <2>1. l \notin aborted
    BY <1>0, <1>6, AskNotAborted DEF Reject
  <2>2. /\ \A k \in Loops : pc'[k] = IF k = l THEN "stopped"
                                     ELSE IF pc[k] = "ask" THEN "cut" ELSE pc[k]
        /\ \A k \in Loops : pc[k] # "ask" => reply'[k] = reply[k]
        /\ UNCHANGED <<stored, error, stopped>> /\ pc[l] = "ask"
    BY <1>6 DEF Reject, Pause, Cut
  <2>3. Lights'
    BY <1>0, <1>1, <2>1, <2>2, SameLights DEF Lights, LoopSound
  <2>4. QED
    BY <1>1, <1>2, <2>2, <2>3, SameGood
<1>7. QED
  BY <1>3, <1>4, <1>5, <1>6 DEF Ask

(* The loop goes on, or ends and takes its entry with it. *)
LEMMA RunGood ==
  ASSUME TypeOK, Good, NEW l \in Loops, Finish(l) \/ Continue(l) \/ Wake(l)
  PROVE  Good'
<1> USE DEF tables, world, receiver
<1>0. Lights /\ l[1] \in Services
  BY DEF Good, Loops
<1>1. UNCHANGED <<stored, error, listeners, paused>>
  BY DEF Finish, Continue, Wake
<1>2. \A s : Wanted(s)' <=> Wanted(s)
  BY <1>1 DEF Wanted, Targets
<1>3. CASE loops' = loops /\ aborted' = aborted /\ stopped' = stopped /\ pc'[l] # "off"
  <2>1. PICK next \in {"message", "sleep", "ask"} : pc' = [pc EXCEPT ![l] = next]
    BY <1>3 DEF Finish, Continue, Wake, End, TypeOK
  <2>2. \A k \in Loops : k # l => reply'[k] = reply[k]
    BY DEF Finish, Continue, Wake, TypeOK
  <2>3. pc[l] # "off" /\ (l \in aborted => next = "message")
    BY <1>0, <1>3, <2>1 DEF Finish, Continue, Wake, End, Lights, LoopSound, Outcome, TypeOK
  <2>4. Lights'
    BY <1>0, <1>1, <1>3, <2>1, <2>2, <2>3, SameLights DEF Lights, LoopSound, TypeOK
  <2>5. QED
    BY <1>1, <1>2, <1>3, <2>4, SameGood
<1>4. CASE End(l) /\ Continue(l)
  <2>1. /\ pc' = [pc EXCEPT ![l] = "off"] /\ reply' = reply
        /\ loops' = loops \ {l} /\ aborted' = aborted \ {l}
    BY <1>4 DEF End, Continue
  <2>2. Lights'
    <3>1. \A k \in Loops : LoopSound(k)'
      BY <1>0, <1>1, <2>1 DEF Lights, LoopSound, Busy, TypeOK
    <3>2. OneEntry'
      BY <1>0, <2>1 DEF Lights, OneEntry
    <3>3. QED
      BY <3>1, <3>2 DEF Lights
  <2>3. \A k \in loops : k # l => k \in loops' /\ Busy(k)'
    BY <1>0, <2>1 DEF Lights, LoopSound, Busy, TypeOK
  <2>4. CASE l \in aborted
    <3>1. l \notin loops /\ stopped' = stopped
      BY <1>0, <1>4, <2>4 DEF Lights, LoopSound, Continue
    <3>2. WantedIsHeard'
      BY <1>2, <2>3, <3>1 DEF Good, WantedIsHeard
    <3>3. ErrorIsAboutListening'
      BY <1>1, <2>1, <3>1 DEF Good, ErrorIsAboutListening, Listened
    <3>4. QED
      BY <2>2, <3>2, <3>3 DEF Good
  <2>5. CASE l \notin aborted
    <3>1. stopped' = [stopped EXCEPT ![l[1]] = "fresh"]
      BY <1>0, <1>4, <2>1, <2>5 DEF Continue, Outcome, TypeOK
    <3>2. WantedIsHeard'
      <4> SUFFICES ASSUME NEW s \in Services, Wanted(s)', stopped'[s] = "no"
                   PROVE  (\E k \in loops : k[1] = s /\ Busy(k))'
        BY DEF WantedIsHeard
      <4>1. s # l[1] /\ stopped[s] = "no"
        BY <3>1 DEF TypeOK
      <4>2. PICK k \in loops : k[1] = s
        BY <1>2, <4>1 DEF Good, WantedIsHeard
      <4>3. QED
        BY <2>3, <4>1, <4>2
    <3>3. ErrorIsAboutListening'
      <4> SUFFICES ASSUME NEW s \in Services, error[s] # "none", stopped'[s] = "no"
                   PROVE  Listened(s)'
        BY <1>1 DEF ErrorIsAboutListening
      <4>1. s # l[1] /\ stopped[s] = "no"
        BY <3>1 DEF TypeOK
      <4>2. PICK k \in loops : k[1] = s
        BY <4>1 DEF Good, ErrorIsAboutListening, Listened
      <4>3. QED
        BY <2>3, <4>1, <4>2 DEF Listened
    <3>4. QED
      BY <2>2, <3>2, <3>3 DEF Good
  <2>6. QED
    BY <2>4, <2>5
<1>5. QED
  <2>1. pc[l] \in Wait
    BY DEF TypeOK
  <2>2. CASE Continue(l)
    BY <1>3, <1>4, <2>2 DEF Continue, TypeOK
  <2>3. CASE Finish(l) \/ Wake(l)
    BY <1>3, <2>3 DEF Finish, Wake, TypeOK
  <2>4. QED
    BY <2>2, <2>3

(* The process starts with one loop for each wanted service. *)
LEMMA RestartGood ==
  ASSUME TypeOK, Restart
  PROVE  Good'
<1> DEFINE wanted == Targets(listeners, paused)
<1>1. /\ loops' = wanted \X {1} /\ aborted' = {}
      /\ pc' = [l \in Loops |-> IF l \in wanted \X {1} THEN "ask" ELSE "off"]
      /\ error' = [s \in Services |-> IF s \in wanted THEN error[s] ELSE "none"]
      /\ UNCHANGED <<listeners, paused>>
  BY DEF Restart, tables, world
<1>2. wanted \in SUBSET Services /\ \A s : Wanted(s)' <=> s \in wanted
  BY <1>1, TargetsType DEF Wanted, Targets
<1> HIDE DEF wanted
<1>3. wanted \X {1} \subseteq Loops
  BY <1>2, BoundAssumption DEF Loops, Slots
<1>4. Lights'
  <2>1. \A l \in Loops : LoopSound(l)'
    BY <1>1 DEF LoopSound, Busy
  <2>2. OneEntry'
    BY <1>1 DEF OneEntry
  <2>3. QED
    BY <2>1, <2>2 DEF Lights
<1>5. ASSUME NEW s \in wanted
      PROVE  \E l \in loops' : l[1] = s /\ pc'[l] # "off"
  <2>1. <<s, 1>> \in loops' /\ <<s, 1>> \in Loops
    BY <1>1, <1>3
  <2>2. pc'[<<s, 1>>] = "ask"
    BY <1>1, <2>1
  <2>3. QED
    BY <2>1, <2>2
<1>6. WantedIsHeard'
  BY <1>2, <1>5 DEF WantedIsHeard, Busy
<1>7. ErrorIsAboutListening'
  BY <1>1, <1>5 DEF ErrorIsAboutListening, Listened
<1>8. QED
  BY <1>4, <1>6, <1>7 DEF Good

-----------------------------------------------------------------------------
(* The message that is confirmed is stored, and what is stored stays. *)
LEMMA StoredStep ==
  ASSUME TypeOK, \A l \in Loops : LoopSound(l), \A m \in Sms : StoredFirst(m), [Next]_vars
  PROVE  \A m \in Sms : StoredFirst(m)'
<1> USE DEF tables, world, receiver
<1>1. CASE UNCHANGED <<sms, stored, told>>
  BY <1>1 DEF StoredFirst
<1>2. ASSUME NEW m \in Sms, Arrive(m) \/ ComeAgain(m) \/ \E l \in Loops : Show(l, m)
      PROVE  \A n \in Sms : StoredFirst(n)'
  BY <1>2 DEF Arrive, ComeAgain, Show, StoredFirst, TypeOK
<1>3. ASSUME NEW l \in Loops, Confirmed(l)
      PROVE  \A m \in Sms : StoredFirst(m)'
  <2>1. reply[l] \in stored
    BY <1>3 DEF Confirmed, LoopSound
  <2>2. QED
    BY <1>3, <2>1 DEF Confirmed, StoredFirst, TypeOK
<1>4. ASSUME NEW l \in Loops, Receive(l)
      PROVE  \A m \in Sms : StoredFirst(m)'
  <2>1. stored' = stored \cup {reply[l]} /\ sms' = sms
    BY <1>4 DEF Receive, Store
  <2>2. \A m \in Sms : m # reply[l] => told'[m] = told[m]
    BY <1>4 DEF Receive, Store, TypeOK
  <2>3. QED
    BY <2>1, <2>2 DEF StoredFirst
<1>5. QED
  BY <1>1, <1>2, <1>3, <1>4
     DEF Next, vars, Refresh, Multiinfo, Administrator, Save, Resume, Renew, Expire,
         PauseElsewhere, Pause, Run, Ask, StoreFails, ReceiveNothing, Fail, Refuse, Reject,
         Finish, Continue, Wake, Ripen, Restart

(* The invariant holds at first and is kept by every step. *)
LEMMA InitIInv == Init => IInv
<1> SUFFICES ASSUME Init
             PROVE  IInv
  OBVIOUS
<1>1. TypeOK
  <2>1. told \in [Sms -> [Keys -> Nat]]
    <3>1. [k \in Keys |-> 0] \in [Keys -> Nat]
      OBVIOUS
    <3>2. QED
      BY <3>1, Zenon DEF Init
  <2>2. sms \in [Sms -> Place] /\ pc \in [Loops -> Wait] /\ reply \in [Loops -> Sms \cup {Nothing}]
    BY DEF Init, Place, Wait
  <2>3. changes \in 0..MaxChanges /\ restarts \in 0..MaxRestarts
    BY BoundAssumption DEF Init
  <2>4. QED
    BY <2>1, <2>2, <2>3 DEF Init, TypeOK
<1>2. \A l \in Loops : LoopSound(l)
  BY DEF Init, LoopSound, Busy
<1>3. OneEntry /\ \A m \in Sms : StoredFirst(m)
  BY DEF Init, OneEntry, StoredFirst
<1>4. WantedIsHeard /\ ErrorIsAboutListening
  BY DEF Init, WantedIsHeard, ErrorIsAboutListening, Wanted, Targets
<1>5. QED
  BY <1>1, <1>2, <1>3, <1>4 DEF IInv

LEMMA StepIInv == IInv /\ [Next]_vars => IInv'
<1> SUFFICES ASSUME IInv, [Next]_vars
             PROVE  IInv'
  OBVIOUS
<1>1. TypeOK /\ Good /\ \A l \in Loops : LoopSound(l)
  BY DEF IInv, Good, Lights
<1>2. TypeOK'
  BY <1>1, TypeStep
<1>3. \A m \in Sms : StoredFirst(m)'
  BY <1>1, StoredStep DEF IInv
<1>4. Good'
  <2>1. CASE UNCHANGED vars
    <3>1. UNCHANGED <<stored, error, listeners, paused, loops, aborted, stopped, pc, reply>>
      BY <2>1 DEF vars, tables, world, receiver
    <3>2. QED
      BY <1>1, <3>1 DEF Good, Lights, LoopSound, OneEntry, Busy, WantedIsHeard, Wanted, Targets,
         ErrorIsAboutListening, Listened
  <2>2. CASE Next
    BY <1>1, <2>2, WorldGood, AskGood, RunGood, RestartGood DEF Next, Run
  <2>3. QED
    BY <2>1, <2>2
<1>5. QED
  BY <1>2, <1>3, <1>4 DEF IInv, Good, Lights

THEOREM Invariance == Spec => []IInv
BY InitIInv, StepIInv, PTL DEF Spec

(* Tables, maps and loops keep their types. *)
THEOREM TypeCorrect == Spec => []TypeOK
<1>1. IInv => TypeOK
  BY DEF IInv
<1>2. QED
  BY <1>1, Invariance, PTL

(* A service is asked about by one loop at a time: one that was put out    *)
(* and is still busy asks no more.                                         *)
THEOREM OneLoopAsks == Spec => []OneListener
<1>1. IInv => OneListener
  BY DEF IInv, LoopSound, OneEntry, OneListener
<1>2. QED
  BY <1>1, Invariance, PTL

(* A service somebody listens to has its loop unless it was stopped. *)
THEOREM NobodyIsForgotten == Spec => []WantedIsHeard
<1>1. IInv => WantedIsHeard
  BY DEF IInv
<1>2. QED
  BY <1>1, Invariance, PTL

(* The error of a service is about a loop that runs or was stopped. *)
THEOREM ErrorsAreCurrent == Spec => []ErrorIsAboutListening
<1>1. IInv => ErrorIsAboutListening
  BY DEF IInv
<1>2. QED
  BY <1>1, Invariance, PTL

-----------------------------------------------------------------------------
(* Each message is kept and told once, together, and confirmed after that: *)
(* the receiver implements Inbox.                                          *)
THEOREM InboxImplemented == Spec => ImplementsInbox
<1> USE DEF tables, world, receiver
<1>1. Init => Promise!Init
  BY DEF Init, Promise!Init, Promise!Nobody
<1>2. IInv /\ [Next]_vars => [Promise!Next]_(Promise!vars)
  <2> SUFFICES ASSUME IInv, [Next]_vars
               PROVE  [Promise!Next]_(Promise!vars)
    OBVIOUS
  <2>0. TypeOK
    BY DEF IInv
  <2>1. CASE UNCHANGED <<stored, told>> /\ \A m \in Sms : sms'[m] = "gone" <=> sms[m] = "gone"
    BY <2>1 DEF Promise!vars
  <2>2. ASSUME NEW m \in Sms, Arrive(m) \/ ComeAgain(m) \/ \E l \in Loops : Show(l, m)
        PROVE  [Promise!Next]_(Promise!vars)
    <3>1. \A n \in Sms : sms'[n] = "gone" <=> sms[n] = "gone"
      BY <2>0, <2>2 DEF Arrive, ComeAgain, Show, TypeOK
    <3>2. UNCHANGED <<stored, told>>
      BY <2>2 DEF Arrive, ComeAgain, Show
    <3>3. QED
      BY <2>1, <3>1, <3>2
  <2>3. ASSUME NEW l \in Loops, Confirmed(l)
        PROVE  [Promise!Next]_(Promise!vars)
    <3>1. PICK m \in Sms : m = reply[l] /\ m \in stored
      BY <2>0, <2>3 DEF Confirmed, IInv, LoopSound, TypeOK
    <3>2. /\ UNCHANGED <<stored, told>>
          /\ {n \in Sms : sms'[n] = "gone"} = {n \in Sms : sms[n] = "gone"} \cup {m}
      BY <2>0, <2>3, <3>1 DEF Confirmed, TypeOK
    <3>3. Promise!Forget(m)
      BY <3>1, <3>2 DEF Promise!Forget
    <3>4. QED
      BY <3>3 DEF Promise!Next
  <2>4. ASSUME NEW l \in Loops, Receive(l)
        PROVE  [Promise!Next]_(Promise!vars)
    <3> DEFINE m == reply[l]
               K == IF m \in Answers THEN {} ELSE listeners[l[1]]
    <3>0. m \in Sms /\ sms' = sms /\ stored' = stored \cup {m} /\ K \in SUBSET Keys
      BY <2>0, <2>4 DEF Receive, Store, TypeOK, Loops
    <3>1. CASE m \in stored
      <4>1. stored' = stored /\ told' = told
        BY <2>4, <3>0, <3>1 DEF Receive, Store
      <4>2. QED
        BY <2>1, <3>0, <4>1
    <3>2. CASE m \notin stored
      <4>1. sms[m] # "gone" /\ told[m] = [k \in Keys |-> 0]
        BY <3>0, <3>2 DEF IInv, StoredFirst
      <4>2. told' = [told EXCEPT ![m] = [k \in Keys |-> IF k \in K THEN 1 ELSE 0]]
        <5> DEFINE new == [k \in Keys |-> IF k \in K THEN 1 ELSE 0]
        <5>1. CASE m \in Answers
          <6>1. told' = told
            BY <2>4, <5>1 DEF Receive, Store
          <6>2. new = told[m]
            BY <4>1, <5>1
          <6> HIDE DEF new
          <6>3. told' = [told EXCEPT ![m] = new]
            BY <2>0, <6>1, <6>2 DEF TypeOK
          <6>4. QED
            BY <6>3 DEF new
        <5>2. CASE m \notin Answers
          <6>1. told' = [told EXCEPT ![m] =
                           [k \in Keys |-> told[m][k] + IF k \in listeners[l[1]] THEN 1 ELSE 0]]
            BY <2>4, <3>2, <5>2 DEF Receive, Store
          <6>2. \A k \in Keys : told[m][k] + (IF k \in listeners[l[1]] THEN 1 ELSE 0)
                                = IF k \in K THEN 1 ELSE 0
            BY <4>1, <5>2
          <6>3. [k \in Keys |-> told[m][k] + IF k \in listeners[l[1]] THEN 1 ELSE 0] = new
            BY <6>2
          <6> HIDE DEF new
          <6>4. told' = [told EXCEPT ![m] = new]
            BY <6>1, <6>3
          <6>5. QED
            BY <6>4 DEF new
        <5>3. QED
          BY <5>1, <5>2
      <4> HIDE DEF K
      <4>3. Promise!Keep(m, K)
        BY <3>0, <3>2, <4>1, <4>2 DEF Promise!Keep
      <4>4. QED
        BY <3>0, <4>3 DEF Promise!Next
    <3>3. QED
      BY <3>1, <3>2
  <2>5. QED
    BY <2>1, <2>2, <2>3, <2>4
       DEF Next, vars, Refresh, Multiinfo, Administrator, Save, Resume, Renew, Expire,
           PauseElsewhere, Pause, Run, Ask, StoreFails, ReceiveNothing, Fail, Refuse, Reject,
           Finish, Continue, Wake, Ripen, Restart
<1>3. QED
  BY <1>1, <1>2, Invariance, PTL DEF Spec, ImplementsInbox, Promise!Spec
=============================================================================
