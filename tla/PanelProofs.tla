---------------------------- MODULE PanelProofs ----------------------------
(***************************************************************************)
(* Proofs about the components behind the panel, for every set of users,   *)
(* sessions, workers, pages, keys and so on.                               *)
(***************************************************************************)
EXTENDS Panel, Sequences, FiniteSetTheorems, TLAPS

-----------------------------------------------------------------------------
(* Certificates. *)

(* A certificate is inspected after a probe that Multiinfo accepted.       *)
InspectedWithReason ==
  \A p \in Pages :
    certPage[p] = "inspected" => CertificatesOf!Overtaken(p) \/ certCall[p] \in certAccepted

CertificatesHold == CertificatesOf!TypeOK /\ CertificatesOf!CallsAreCurrent /\ InspectedWithReason

(* The marks of no client and of a cut call are not credentials, and the   *)
(* kinds of actors are apart.                                              *)
LEMMA MarksAreNoCredentials ==
  /\ CertificatesOf!None \notin CertificatesOf!Credentials
  /\ CertificatesOf!Cut \notin CertificatesOf!Credentials
  /\ CertificatesOf!Cut # CertificatesOf!None
  /\ Pages \subseteq CertificatesOf!Actors /\ Workers \subseteq CertificatesOf!Actors
  /\ Loops \subseteq CertificatesOf!Actors
  /\ Loops \cap Pages = {} /\ Workers \cap Pages = {} /\ Loops \cap Workers = {}
BY SwapsAssumption, ActorsAssumption
DEF CertificatesOf!None, CertificatesOf!Cut, CertificatesOf!Credentials, CertificatesOf!Actors

(* Closing a client cuts the calls that do not wait for a connection, and  *)
(* a loop never waits for one.                                             *)
LEMMA ClosedCalls ==
  ASSUME CertificatesOf!TypeOK, NEW w, CertificatesOf!Waiting(w)
  PROVE  /\ CertificatesOf!Closed(w) \in
              [CertificatesOf!Actors -> CertificatesOf!Credentials \cup
                                          {CertificatesOf!None, CertificatesOf!Cut}]
         /\ \A a \in CertificatesOf!Actors \ (certLate \cup w) :
              CertificatesOf!Closed(w)[a] \in {CertificatesOf!None, CertificatesOf!Cut}
         /\ \A a \in CertificatesOf!Actors :
              CertificatesOf!Closed(w)[a] \in {certCall[a], CertificatesOf!Cut}
         /\ w \subseteq CertificatesOf!Actors /\ w \cap Loops = {}
<1>1. w \subseteq CertificatesOf!Calling \ Loops
  BY DEF CertificatesOf!Waiting
<1>2. CertificatesOf!Calling = {a \in CertificatesOf!Actors \ certLate :
                                  certCall[a] \in CertificatesOf!Credentials}
  BY DEF CertificatesOf!Calling
<1>3. certCall \in [CertificatesOf!Actors -> CertificatesOf!Credentials \cup
                                               {CertificatesOf!None, CertificatesOf!Cut}]
  BY DEF CertificatesOf!TypeOK
<1>4. CertificatesOf!Closed(w) =
        [a \in CertificatesOf!Actors |->
           IF a \in CertificatesOf!Calling \ w THEN CertificatesOf!Cut ELSE certCall[a]]
  BY DEF CertificatesOf!Closed
<1>5. QED
  BY <1>1, <1>2, <1>3, <1>4

(* Saving makes the next credentials the current ones; what Multiinfo      *)
(* accepted it still accepts.                                              *)
LEMMA SavedCredentials ==
  ASSUME CertificatesOf!TypeOK, CertificatesOf!Save
  PROVE  /\ certMaterial' \in CertificatesOf!Credentials /\ certMaterial' # certMaterial
         /\ certAccepted' \subseteq 0..certMaterial' /\ certAccepted \subseteq certAccepted'
<1>1. /\ certMaterial \in 0..MaxSwaps /\ certAccepted \subseteq 0..certMaterial
      /\ certMaterial < MaxSwaps /\ certMaterial' = certMaterial + 1
      /\ certAccepted' \in {certAccepted, certAccepted \cup {certMaterial + 1}}
  BY DEF CertificatesOf!TypeOK, CertificatesOf!Save, CertificatesOf!Credentials
<1>2. QED
  BY <1>1, SwapsAssumption DEF CertificatesOf!Credentials

(* Whoever asks Multiinfo does so with the credentials that are saved, or  *)
(* waited for a connection when they changed.                              *)
LEMMA CertificatesStep ==
  ASSUME CertificatesHold, CertificatesOf!Next
  PROVE  CertificatesHold'
<1> USE DEF CertificatesHold, CertificatesOf!account, InspectedWithReason, CertificatesOf!Overtaken
<1>0. CertificatesOf!TypeOK /\ CertificatesOf!CallsAreCurrent
  OBVIOUS
<1>1. ASSUME NEW w \in Workers \cup Loops, NEW checked \in BOOLEAN, CertificatesOf!Ask(w, checked)
      PROVE  CertificatesHold'
  BY <1>0, <1>1, MarksAreNoCredentials
  DEF CertificatesOf!Ask, CertificatesOf!Through, CertificatesOf!TypeOK, CertificatesOf!CallsAreCurrent
<1>2. ASSUME NEW w \in Workers \cup Loops, CertificatesOf!Finish(w) \/ CertificatesOf!Report(w)
      PROVE  CertificatesHold'
  BY <1>0, <1>2, MarksAreNoCredentials
  DEF CertificatesOf!Finish, CertificatesOf!Report, CertificatesOf!Ended,
      CertificatesOf!TypeOK, CertificatesOf!CallsAreCurrent
<1>3. ASSUME NEW w \in Workers \cup Loops, CertificatesOf!Reject(w)
      PROVE  CertificatesHold'
  <2>1. PICK q \in SUBSET (CertificatesOf!Actors \ {w}) :
          /\ CertificatesOf!Waiting(q)
          /\ certCall' = [CertificatesOf!Closed(q) EXCEPT ![w] = CertificatesOf!None]
          /\ certLate' = (certLate \cup q) \ {w}
    BY <1>3 DEF CertificatesOf!Reject
  <2> DEFINE closed == CertificatesOf!Closed(q)
  <2>3. /\ closed \in [CertificatesOf!Actors -> CertificatesOf!Credentials \cup
                                                  {CertificatesOf!None, CertificatesOf!Cut}]
        /\ \A a \in CertificatesOf!Actors \ (certLate \cup q) :
             closed[a] \in {CertificatesOf!None, CertificatesOf!Cut}
        /\ \A a \in CertificatesOf!Actors : closed[a] \in {certCall[a], CertificatesOf!Cut}
        /\ q \subseteq CertificatesOf!Actors /\ q \cap Loops = {}
    BY <1>0, <2>1, ClosedCalls
  <2>4. certCall' = [closed EXCEPT ![w] = CertificatesOf!None]
    BY <2>1
  <2> HIDE DEF closed
  <2>5. CertificatesOf!TypeOK'
    BY <1>0, <1>3, <2>1, <2>3, <2>4
    DEF CertificatesOf!Reject, CertificatesOf!Pause, CertificatesOf!TypeOK
  <2>6. CertificatesOf!CallsAreCurrent'
    BY <1>0, <1>3, <2>1, <2>3, <2>4
    DEF CertificatesOf!Reject, CertificatesOf!Pause, CertificatesOf!CallsAreCurrent
  <2>7. InspectedWithReason'
    BY <1>0, <1>3, <2>1, <2>3, <2>4, MarksAreNoCredentials
    DEF CertificatesOf!Reject, CertificatesOf!Pause, CertificatesOf!TypeOK
  <2>8. QED
    BY <2>5, <2>6, <2>7
<1>4. ASSUME NEW p \in Pages, CertificatesOf!OpenForm(p) \/ CertificatesOf!RefuseForm(p)
      PROVE  CertificatesHold'
  BY <1>0, <1>4, MarksAreNoCredentials
  DEF CertificatesOf!OpenForm, CertificatesOf!RefuseForm, CertificatesOf!Begin, CertificatesOf!Done,
      CertificatesOf!TypeOK, CertificatesOf!CallsAreCurrent
<1>5. ASSUME NEW p \in Pages, CertificatesOf!Replace(p)
      PROVE  CertificatesHold'
  <2>1. PICK w \in SUBSET CertificatesOf!Actors :
          CertificatesOf!Waiting(w) /\ CertificatesOf!Invalidate(w, CertificatesOf!Closed(w))
    BY <1>5 DEF CertificatesOf!Replace
  <2> DEFINE closed == CertificatesOf!Closed(w)
  <2>3. /\ closed \in [CertificatesOf!Actors -> CertificatesOf!Credentials \cup
                                                  {CertificatesOf!None, CertificatesOf!Cut}]
        /\ \A a \in CertificatesOf!Actors \ (certLate \cup w) :
             closed[a] \in {CertificatesOf!None, CertificatesOf!Cut}
        /\ \A a \in CertificatesOf!Actors : closed[a] \in {certCall[a], CertificatesOf!Cut}
        /\ w \subseteq CertificatesOf!Actors /\ w \cap Loops = {}
    BY <1>0, <2>1, ClosedCalls
  <2>4. certCall' = closed /\ certPool' = CertificatesOf!None /\ certLate' = certLate \cup w
    BY <2>1 DEF CertificatesOf!Invalidate
  <2>5. /\ certMaterial' \in CertificatesOf!Credentials
        /\ certAccepted' \subseteq 0..certMaterial' /\ certAccepted \subseteq certAccepted'
    BY <1>0, <1>5, SavedCredentials DEF CertificatesOf!Replace
  <2> HIDE DEF closed
  <2>6. CertificatesOf!TypeOK'
    BY <1>0, <1>5, <2>3, <2>4, <2>5
    DEF CertificatesOf!Replace, CertificatesOf!ResumeIfPaused, CertificatesOf!Done, CertificatesOf!TypeOK
  <2>7. CertificatesOf!CallsAreCurrent'
    BY <1>0, <2>3, <2>4 DEF CertificatesOf!CallsAreCurrent
  <2>8. InspectedWithReason'
    BY <1>0, <1>5, <2>3, <2>4, <2>5, MarksAreNoCredentials
    DEF CertificatesOf!Replace, CertificatesOf!Done, CertificatesOf!TypeOK
  <2>9. QED
    BY <2>6, <2>7, <2>8
<1>6. ASSUME NEW p \in Pages, CertificatesOf!Edit(p)
      PROVE  CertificatesHold'
  <2>1. PICK w \in SUBSET CertificatesOf!Actors :
          /\ CertificatesOf!Waiting(w)
          /\ certCall' = [CertificatesOf!Closed(w) EXCEPT ![p] = certMaterial']
          /\ certLate' = certLate \cup w
    BY <1>6 DEF CertificatesOf!Edit
  <2> DEFINE closed == CertificatesOf!Closed(w)
  <2>3. /\ closed \in [CertificatesOf!Actors -> CertificatesOf!Credentials \cup
                                                  {CertificatesOf!None, CertificatesOf!Cut}]
        /\ \A a \in CertificatesOf!Actors \ (certLate \cup w) :
             closed[a] \in {CertificatesOf!None, CertificatesOf!Cut}
        /\ \A a \in CertificatesOf!Actors : closed[a] \in {certCall[a], CertificatesOf!Cut}
        /\ w \subseteq CertificatesOf!Actors /\ w \cap Loops = {}
    BY <1>0, <2>1, ClosedCalls
  <2>4. certCall' = [closed EXCEPT ![p] = certMaterial']
    BY <2>1
  <2>5. /\ certMaterial' \in CertificatesOf!Credentials
        /\ certAccepted' \subseteq 0..certMaterial' /\ certAccepted \subseteq certAccepted'
    BY <1>0, <1>6, SavedCredentials DEF CertificatesOf!Edit
  <2> HIDE DEF closed
  <2>6. CertificatesOf!TypeOK'
    <3>1. certCall' \in [CertificatesOf!Actors -> CertificatesOf!Credentials \cup
                                                   {CertificatesOf!None, CertificatesOf!Cut}]
      BY <2>3, <2>4, <2>5
    <3>2. certLate' \subseteq CertificatesOf!Actors
      BY <1>0, <2>1 DEF CertificatesOf!TypeOK
    <3>3. /\ certPage' \in [Pages -> {"none", "form", "edited", "checked", "inspected"}]
          /\ certSaw' \in [Pages -> BOOLEAN] /\ certPool' = certMaterial'
          /\ UNCHANGED <<certActive, certReason>>
      BY <1>0, <1>6 DEF CertificatesOf!Edit, CertificatesOf!Begin, CertificatesOf!TypeOK
    <3>4. QED
      BY <1>0, <2>5, <3>1, <3>2, <3>3 DEF CertificatesOf!TypeOK
  <2>7. CertificatesOf!CallsAreCurrent'
    BY <1>0, <1>6, <2>1, <2>3, <2>4
    DEF CertificatesOf!Edit, CertificatesOf!CallsAreCurrent
  <2>8. InspectedWithReason'
    BY <1>0, <1>6, <2>1, <2>3, <2>4, <2>5, MarksAreNoCredentials
    DEF CertificatesOf!Edit, CertificatesOf!Begin, CertificatesOf!TypeOK
  <2>9. QED
    BY <2>6, <2>7, <2>8
<1>7. ASSUME NEW p \in Pages, CertificatesOf!Check(p)
      PROVE  CertificatesHold'
  BY <1>0, <1>7, MarksAreNoCredentials
  DEF CertificatesOf!Check, CertificatesOf!Begin, CertificatesOf!Through,
      CertificatesOf!TypeOK, CertificatesOf!CallsAreCurrent
<1>8. ASSUME NEW p \in Pages, \/ CertificatesOf!EditOk(p) \/ CertificatesOf!Inspected(p)
                              \/ CertificatesOf!ProbeFails(p)
      PROVE  CertificatesHold'
  BY <1>0, <1>8, MarksAreNoCredentials
  DEF CertificatesOf!EditOk, CertificatesOf!Inspected, CertificatesOf!ProbeFails,
      CertificatesOf!ResumeIfPaused, CertificatesOf!Done, CertificatesOf!Ended,
      CertificatesOf!TypeOK, CertificatesOf!CallsAreCurrent
<1>9. ASSUME NEW p \in Pages, CertificatesOf!CheckOk(p)
      PROVE  CertificatesHold'
  BY <1>0, <1>9 DEF CertificatesOf!CheckOk, CertificatesOf!TypeOK, CertificatesOf!CallsAreCurrent
<1>10. CASE CertificatesOf!Restart
  BY <1>0, <1>10, MarksAreNoCredentials
  DEF CertificatesOf!Restart, CertificatesOf!TypeOK, CertificatesOf!CallsAreCurrent
<1>11. QED
  BY <1>1, <1>2, <1>3, <1>4, <1>5, <1>6, <1>7, <1>8, <1>9, <1>10 DEF CertificatesOf!Next

(* Only new credentials or an accepted call lift a pause, but for requests *)
(* that were overtaken.                                                    *)
LEMMA ResumedStep ==
  ASSUME CertificatesHold, CertificatesOf!Next, ~certActive, certActive'
  PROVE  \/ certMaterial' # certMaterial \/ certMaterial \in certAccepted
         \/ \E p \in Pages :
              CertificatesOf!Overtaken(p) /\ certPage[p] # "none" /\ certPage'[p] = "none"
<1> USE DEF CertificatesOf!account
<1>0. CertificatesOf!TypeOK /\ CertificatesOf!CallsAreCurrent /\ InspectedWithReason
  BY DEF CertificatesHold
<1>1. PICK p \in Pages : \/ CertificatesOf!Replace(p) \/ CertificatesOf!EditOk(p)
                         \/ CertificatesOf!Inspected(p)
  BY DEF CertificatesOf!Next, CertificatesOf!Ask, CertificatesOf!Finish, CertificatesOf!Reject,
         CertificatesOf!Report, CertificatesOf!Pause, CertificatesOf!OpenForm, CertificatesOf!RefuseForm,
         CertificatesOf!Edit, CertificatesOf!Check, CertificatesOf!CheckOk, CertificatesOf!ProbeFails,
         CertificatesOf!Restart
<1>2. CASE CertificatesOf!Replace(p)
  BY <1>0, <1>2, SavedCredentials DEF CertificatesOf!Replace
<1>3. CASE CertificatesOf!EditOk(p) \/ CertificatesOf!Inspected(p)
  <2>1. certPage[p] # "none" /\ certPage'[p] = "none"
    BY <1>0, <1>3
    DEF CertificatesOf!EditOk, CertificatesOf!Inspected, CertificatesOf!Done, CertificatesOf!TypeOK
  <2>2. CertificatesOf!Overtaken(p) \/ certCall[p] \in certAccepted
    BY <1>0, <1>3 DEF CertificatesOf!EditOk, CertificatesOf!Inspected, InspectedWithReason
  <2>3. CASE p \notin certLate /\ certCall[p] \in certAccepted
    <3>1. certAccepted \subseteq CertificatesOf!Credentials
      BY <1>0, SwapsAssumption DEF CertificatesOf!TypeOK, CertificatesOf!Credentials
    <3>2. certCall[p] = certMaterial
      BY <1>0, <2>3, <3>1, MarksAreNoCredentials DEF CertificatesOf!CallsAreCurrent
    <3>3. QED
      BY <2>3, <3>2
  <2>4. QED
    BY <2>1, <2>2, <2>3 DEF CertificatesOf!Overtaken
<1>4. QED
  BY <1>1, <1>2, <1>3

-----------------------------------------------------------------------------
(* Keys. *)

(* Keys hold what their account has, and the channel stands on one.        *)
LEMMA KeysStep ==
  ASSUME KeysOf!IInv, KeysOf!Next
  PROVE  KeysOf!IInv'
<1> USE DEF KeysOf!account, KeysOf!keyTable, KeysOf!users, KeysOf!history
<1>0. /\ KeysOf!TypeOK /\ KeysOf!ChannelHasKey
      /\ keysForm = [p \in Pages |-> keysForm[p]] /\ \A p \in Pages : KeysOf!FormOK(p)
      /\ \A k \in Keys : keysSenders[k] \subseteq keysDictionary
      /\ \A k \in KeysOf!Live \ keysStrayed : keysHolds[k] \subseteq keysServices
      /\ \A p \in Pages \ keysCrossed :
           keysForm[p].kind = "key" => keysForm[p].choice.services \subseteq keysServices
  BY DEF KeysOf!IInv
<1>1. ASSUME NEW p \in Pages, NEW k \in Keys, NEW choice \in KeysOf!Choices, KeysOf!OpenKey(p, k, choice)
      PROVE  KeysOf!IInv'
  <2>1. /\ keysForm[p] = KeysOf!NoForm
        /\ \E new \in BOOLEAN :
             keysForm' = [keysForm EXCEPT ![p] = [kind |-> "key", key |-> k, new |-> new, choice |-> choice]]
        /\ choice.services \subseteq keysServices
        /\ UNCHANGED <<keysServices, keysDictionary, keysMade, keysRevoked, keysExpired, keysHolds>>
        /\ UNCHANGED <<keysSenders, keysStands, keysEnabled, keysChannel, keysCrossed, keysStrayed>>
    BY <1>1 DEF KeysOf!OpenKey, KeysOf!Wait, KeysOf!Checks
  <2>2. QED
    BY <1>0, <2>1
    DEF KeysOf!IInv, KeysOf!TypeOK, KeysOf!ChannelHasKey, KeysOf!FormOK, KeysOf!Live, KeysOf!NoForm,
        KeysOf!None
<1>2. ASSUME NEW p \in Pages, NEW k \in Keys, NEW i \in Integrations, NEW on \in BOOLEAN,
             KeysOf!OpenIntegration(p, i, k, on)
      PROVE  KeysOf!IInv'
  <2>1. /\ keysForm[p] = KeysOf!NoForm
        /\ \E new \in BOOLEAN :
             keysForm' = [keysForm EXCEPT ![p] = [kind |-> "integration", row |-> i, key |-> k,
                                                  on |-> on, new |-> new]]
        /\ UNCHANGED <<keysServices, keysDictionary, keysMade, keysRevoked, keysExpired, keysHolds>>
        /\ UNCHANGED <<keysSenders, keysStands, keysEnabled, keysChannel, keysCrossed, keysStrayed>>
    BY <1>2 DEF KeysOf!OpenIntegration, KeysOf!Wait
  <2>2. QED
    BY <1>0, <2>1
    DEF KeysOf!IInv, KeysOf!TypeOK, KeysOf!ChannelHasKey, KeysOf!FormOK, KeysOf!Live, KeysOf!NoForm,
        KeysOf!None
<1>3. ASSUME NEW p \in Pages, KeysOf!SaveKey(p)
      PROVE  KeysOf!IInv'
  <2>1. /\ keysForm[p].key \in Keys /\ keysForm[p].choice \in KeysOf!Choices
        /\ p \notin keysCrossed => keysForm[p].choice.services \subseteq keysServices
        /\ keysForm[p].choice.senders \subseteq keysDictionary
    BY <1>0, <1>3 DEF KeysOf!SaveKey, KeysOf!Write, KeysOf!FormOK, KeysOf!NoForm, KeysOf!None
  <2>2. PICK k \in Keys, choice \in KeysOf!Choices :
          k = keysForm[p].key /\ choice = keysForm[p].choice
    BY <2>1
  <2>3. choice.services \in SUBSET Services /\ choice.senders \in SUBSET Origs
    BY DEF KeysOf!Choices
  <2>4. /\ keysMade' = keysMade \cup {k} /\ keysExpired' = keysExpired \ {k}
        /\ keysHolds' = [keysHolds EXCEPT ![k] = choice.services]
        /\ keysSenders' = [keysSenders EXCEPT ![k] = choice.senders]
        /\ keysForm' = [keysForm EXCEPT ![p] = KeysOf!NoForm]
        /\ keysCrossed' = keysCrossed \ {p}
        /\ keysStrayed' = IF p \in keysCrossed THEN keysStrayed \cup {k} ELSE keysStrayed \ {k}
        /\ UNCHANGED <<keysServices, keysDictionary, keysRevoked, keysStands, keysEnabled, keysChannel>>
    BY <1>3, <2>2 DEF KeysOf!SaveKey, KeysOf!Write, KeysOf!WriteUnchecked, KeysOf!Closed
  <2>5. KeysOf!TypeOK' /\ KeysOf!ChannelHasKey'
    BY <1>0, <2>3, <2>4 DEF KeysOf!TypeOK, KeysOf!ChannelHasKey, KeysOf!Live, KeysOf!NoForm, KeysOf!None
  <2>6. keysForm' = [q \in Pages |-> keysForm'[q]] /\ \A q \in Pages : KeysOf!FormOK(q)'
    BY <1>0, <2>4 DEF KeysOf!FormOK, KeysOf!NoForm
  <2>7. \A j \in Keys : keysSenders'[j] \subseteq keysDictionary'
    BY <1>0, <2>1, <2>2, <2>4 DEF KeysOf!TypeOK
  <2>8. \A j \in KeysOf!Live' \ keysStrayed' : keysHolds'[j] \subseteq keysServices'
    BY <1>0, <2>1, <2>2, <2>4 DEF KeysOf!TypeOK, KeysOf!Live
  <2>9. \A q \in Pages \ keysCrossed' :
          keysForm'[q].kind = "key" => keysForm'[q].choice.services \subseteq keysServices'
    BY <1>0, <2>4 DEF KeysOf!NoForm, KeysOf!None
  <2>10. QED
    BY <2>5, <2>6, <2>7, <2>8, <2>9 DEF KeysOf!IInv
<1>4. ASSUME NEW p \in Pages, KeysOf!SaveIntegration(p)
      PROVE  KeysOf!IInv'
  <2>1. /\ keysForm[p].row \in Integrations /\ keysForm[p].key \in Keys
        /\ keysForm[p].kind # "key"
    BY <1>0, <1>4 DEF KeysOf!SaveIntegration, KeysOf!FormOK, KeysOf!NoForm, KeysOf!None
  <2>2. /\ KeysOf!WriteIntegration(keysForm[p].row, keysForm[p].key, keysForm[p].on)
        /\ keysForm' = [keysForm EXCEPT ![p] = KeysOf!NoForm]
        /\ keysCrossed' = keysCrossed \ {p}
        /\ UNCHANGED <<keysServices, keysDictionary, keysMade, keysRevoked, keysExpired, keysHolds>>
        /\ UNCHANGED <<keysSenders, keysChannel, keysStrayed>>
    BY <1>4 DEF KeysOf!SaveIntegration, KeysOf!Closed
  <2>3. /\ keysStands' \in [Integrations -> Keys \cup {KeysOf!None}]
        /\ keysEnabled' \subseteq {i \in Integrations : keysStands'[i] # KeysOf!None}
    BY <1>0, <2>1, <2>2, NamesAssumption DEF KeysOf!WriteIntegration, KeysOf!TypeOK, KeysOf!None
  <2>4. KeysOf!TypeOK' /\ KeysOf!ChannelHasKey'
    BY <1>0, <2>2, <2>3 DEF KeysOf!TypeOK, KeysOf!ChannelHasKey, KeysOf!Live, KeysOf!NoForm, KeysOf!None
  <2>5. keysForm' = [q \in Pages |-> keysForm'[q]] /\ \A q \in Pages : KeysOf!FormOK(q)'
    BY <1>0, <2>2 DEF KeysOf!FormOK, KeysOf!NoForm
  <2>6. \A q \in Pages \ keysCrossed' :
          keysForm'[q].kind = "key" => keysForm'[q].choice.services \subseteq keysServices'
    BY <1>0, <2>2 DEF KeysOf!NoForm, KeysOf!None
  <2>7. QED
    BY <1>0, <2>2, <2>4, <2>5, <2>6 DEF KeysOf!IInv, KeysOf!Live
<1>5. ASSUME NEW p \in Pages, KeysOf!GiveUp(p)
      PROVE  KeysOf!IInv'
  <2>1. /\ keysForm' = [keysForm EXCEPT ![p] = KeysOf!NoForm]
        /\ keysCrossed' = keysCrossed \ {p}
        /\ UNCHANGED <<keysServices, keysDictionary, keysMade, keysRevoked, keysExpired, keysHolds>>
        /\ UNCHANGED <<keysSenders, keysStands, keysEnabled, keysChannel, keysStrayed>>
    BY <1>5 DEF KeysOf!GiveUp, KeysOf!Closed
  <2>2. KeysOf!TypeOK' /\ KeysOf!ChannelHasKey'
    BY <1>0, <2>1 DEF KeysOf!TypeOK, KeysOf!ChannelHasKey, KeysOf!Live, KeysOf!NoForm, KeysOf!None
  <2>3. keysForm' = [q \in Pages |-> keysForm'[q]] /\ \A q \in Pages : KeysOf!FormOK(q)'
    BY <1>0, <2>1 DEF KeysOf!FormOK, KeysOf!NoForm
  <2>4. \A q \in Pages \ keysCrossed' :
          keysForm'[q].kind = "key" => keysForm'[q].choice.services \subseteq keysServices'
    BY <1>0, <2>1 DEF KeysOf!NoForm, KeysOf!None
  <2>5. QED
    BY <1>0, <2>1, <2>2, <2>3, <2>4 DEF KeysOf!IInv, KeysOf!Live
<1>6. ASSUME NEW k \in Keys, KeysOf!Revoke(k) \/ KeysOf!Expire(k)
      PROVE  KeysOf!IInv'
  BY <1>0, <1>6
  DEF KeysOf!Revoke, KeysOf!Expire, KeysOf!IInv, KeysOf!TypeOK, KeysOf!ChannelHasKey, KeysOf!FormOK,
      KeysOf!Live
<1>7. ASSUME NEW to \in SUBSET Services, KeysOf!EditServices(to)
      PROVE  KeysOf!IInv'
  BY <1>0, <1>7
  DEF KeysOf!EditServices, KeysOf!IInv, KeysOf!TypeOK, KeysOf!ChannelHasKey, KeysOf!FormOK,
      KeysOf!Live, KeysOf!InUse
<1>8. ASSUME NEW to \in SUBSET Origs, KeysOf!SetOrigs(to)
      PROVE  KeysOf!IInv'
  BY <1>0, <1>8
  DEF KeysOf!SetOrigs, KeysOf!IInv, KeysOf!TypeOK, KeysOf!ChannelHasKey, KeysOf!FormOK, KeysOf!Live
<1>9. ASSUME NEW i \in Integrations, NEW on \in BOOLEAN, KeysOf!SetEnabled(i, on) \/ KeysOf!RemoveIntegration(i)
      PROVE  KeysOf!IInv'
  BY <1>0, <1>9
  DEF KeysOf!SetEnabled, KeysOf!RemoveIntegration, KeysOf!IInv, KeysOf!TypeOK, KeysOf!ChannelHasKey,
      KeysOf!FormOK, KeysOf!Live
<1>10. ASSUME NEW i \in Integrations, NEW on \in BOOLEAN, NEW k \in Keys, KeysOf!SaveAtOnce(i, k, on)
       PROVE  KeysOf!IInv'
  BY <1>0, <1>10, NamesAssumption
  DEF KeysOf!SaveAtOnce, KeysOf!WriteIntegration, KeysOf!IInv, KeysOf!TypeOK, KeysOf!ChannelHasKey,
      KeysOf!FormOK, KeysOf!Live, KeysOf!None
<1>11. ASSUME NEW i \in Integrations, NEW j \in Integrations, KeysOf!Copy(i, j)
       PROVE  KeysOf!IInv'
  BY <1>0, <1>11
  DEF KeysOf!Copy, KeysOf!IInv, KeysOf!TypeOK, KeysOf!ChannelHasKey, KeysOf!FormOK, KeysOf!Live
<1>12. ASSUME NEW on \in BOOLEAN, NEW k \in Keys \cup {KeysOf!None}, NEW orig \in Origs \cup {KeysOf!None},
              KeysOf!SaveChannel(on, k, orig)
       PROVE  KeysOf!IInv'
  BY <1>0, <1>12
  DEF KeysOf!SaveChannel, KeysOf!IInv, KeysOf!TypeOK, KeysOf!ChannelHasKey, KeysOf!FormOK, KeysOf!Live,
      KeysOf!Usable, KeysOf!Channel
<1>13. QED
  BY <1>1, <1>2, <1>3, <1>4, <1>5, <1>6, <1>7, <1>8, <1>9, <1>10, <1>11, <1>12 DEF KeysOf!Next

-----------------------------------------------------------------------------
(* Sign-in. *)

SignInTypes == SignInOf!TypeOK
LoginsSound == SignInOf!SomebodyStays /\ \A l \in Logins : SignInOf!LoginOK(l)
Attempts    == signInFailures + Cardinality(SignInOf!Checking)
AttemptsHold == Attempts < MaxFailures + Cardinality(Logins)

(* Some of the sign-ins are finitely many. *)
LEMMA SomeLogins ==
  ASSUME NEW few \in SUBSET Logins
  PROVE  /\ Cardinality(few) \in Nat /\ Cardinality(Logins) \in Nat
         /\ IsFiniteSet(few) /\ Cardinality(few) <= Cardinality(Logins)
BY SignInAssumption, FS_Subset, FS_CardinalityType

(* One sign-in that is none of them makes them fewer. *)
LEMMA FewerLogins ==
  ASSUME NEW all \in SUBSET Logins, NEW l \in all, NEW few \in SUBSET all, l \notin few
  PROVE  /\ Cardinality(few) \in Nat /\ Cardinality(all) \in Nat
         /\ Cardinality(few) < Cardinality(all)
<1>1. IsFiniteSet(all) /\ Cardinality(all) \in Nat
  BY SomeLogins
<1>2. /\ IsFiniteSet(all \ {l})
      /\ Cardinality(all \ {l}) = Cardinality(all) - 1
  BY <1>1, FS_RemoveElement
<1>3. few \in SUBSET (all \ {l})
  OBVIOUS
<1>4. IsFiniteSet(few) /\ Cardinality(few) <= Cardinality(all \ {l})
  BY <1>2, <1>3, FS_Subset
<1>5. Cardinality(few) \in Nat
  BY <1>4, FS_CardinalityType
<1>6. QED
  BY <1>1, <1>2, <1>4, <1>5

(* The throttle holds if it was not reached before, or if no attempt       *)
(* failed and none was begun.                                              *)
LEMMA NoMoreAttempts ==
  ASSUME SignInTypes, AttemptsHold, signInFailures' \in Nat,
         \/ signInFailures' < MaxFailures
         \/ (signInFailures' = signInFailures /\ SignInOf!Checking' \subseteq SignInOf!Checking)
  PROVE  AttemptsHold'
<1>1. SignInOf!Checking \in SUBSET Logins /\ SignInOf!Checking' \in SUBSET Logins
  BY DEF SignInOf!Checking
<1>2. /\ Cardinality(SignInOf!Checking') \in Nat /\ Cardinality(Logins) \in Nat
      /\ IsFiniteSet(SignInOf!Checking) /\ Cardinality(SignInOf!Checking) \in Nat
      /\ Cardinality(SignInOf!Checking') <= Cardinality(Logins)
  BY <1>1, SomeLogins
<1>3. signInFailures \in Nat /\ MaxFailures \in Nat
  BY SignInAssumption DEF SignInTypes, SignInOf!TypeOK
<1>4. CASE signInFailures' < MaxFailures
  BY <1>2, <1>3, <1>4 DEF AttemptsHold, Attempts
<1>5. CASE signInFailures' = signInFailures /\ SignInOf!Checking' \subseteq SignInOf!Checking
  <2>1. Cardinality(SignInOf!Checking') <= Cardinality(SignInOf!Checking)
    BY <1>2, <1>5, FS_Subset
  <2>2. QED
    BY <1>2, <1>3, <1>5, <2>1 DEF AttemptsHold, Attempts
<1>6. QED
  BY <1>4, <1>5
(* What SignIn counts with is what is counted with here.                   *)
LEMMA SameCount == ASSUME NEW S PROVE SignInOf!Cardinality(S) = Cardinality(S)
BY Zenon DEF SignInOf!Cardinality, Cardinality

(* The places of a sign-in are of its type.                                *)
LEMMA SignInPlaces ==
  ASSUME SignInTypes, NEW l \in Logins
  PROVE  /\ SignInOf!Out \in SignInOf!SignIn
         /\ SignInOf!None \in [kind : SignInOf!Kinds \cup {"none"}, user : Users]
         /\ \A at \in {"out", "verify", "code", "in"} :
              [signInSignIn[l] EXCEPT !.at = at] \in SignInOf!SignIn
         /\ signInSignIn[l].wrong \in 0..StageFailures
         /\ \A wrong \in 0..StageFailures :
              [signInSignIn[l] EXCEPT !.wrong = wrong] \in SignInOf!SignIn
         /\ \A to \in 0..MaxChanges :
              [signInSignIn[l] EXCEPT !.saw.password = to] \in SignInOf!SignIn
<1>1. signInSignIn[l] \in SignInOf!SignIn
  BY DEF SignInTypes, SignInOf!TypeOK
<1>2. SignInOf!Out \in SignInOf!SignIn
  BY SignInAssumption DEF SignInOf!Out, SignInOf!SignIn, SignInOf!Row
<1>3. SignInOf!None \in [kind : SignInOf!Kinds \cup {"none"}, user : Users]
  BY SignInAssumption DEF SignInOf!None, SignInOf!Kinds
<1>4. QED
  BY <1>1, <1>2, <1>3 DEF SignInOf!SignIn, SignInOf!Row

(* Rows and sessions keep their types.                                     *)
LEMMA SignInTypesStep ==
  ASSUME SignInTypes, SignInOf!Next
  PROVE  SignInTypes'
<1> USE DEF SignInOf!table, SignInOf!At, SignInOf!Owner
<1>0. SignInOf!TypeOK
  BY DEF SignInTypes
<1>1. ASSUME NEW l \in Logins, NEW u \in Users, SignInOf!Begin(l, u)
      PROVE  SignInTypes'
  BY <1>0, <1>1, SignInAssumption
  DEF SignInTypes, SignInOf!Begin, SignInOf!TypeOK, SignInOf!SignIn, SignInOf!Row, SignInOf!Out,
      SignInOf!None, SignInOf!Kinds
<1>2. ASSUME NEW l \in Logins, SignInOf!WrongPassword(l)
      PROVE  SignInTypes'
  BY <1>0, <1>2, SignInAssumption
  DEF SignInTypes, SignInOf!WrongPassword, SignInOf!Ended, SignInOf!Fail, SignInOf!TypeOK,
      SignInOf!SignIn, SignInOf!Row, SignInOf!Out, SignInOf!None, SignInOf!Kinds
<1>3. ASSUME NEW l \in Logins, SignInOf!RightPassword(l)
      PROVE  SignInTypes'
  BY <1>0, <1>3, SignInAssumption
  DEF SignInTypes, SignInOf!RightPassword, SignInOf!Finish, SignInOf!TypeOK, SignInOf!SignIn,
      SignInOf!Row, SignInOf!Out, SignInOf!None, SignInOf!Kinds
<1>4. ASSUME NEW l \in Logins, SignInOf!WrongCode(l)
      PROVE  SignInTypes'
  <2>1. PICK place \in SignInOf!SignIn : signInSignIn' = [signInSignIn EXCEPT ![l] = place]
    <3>1. CASE signInSignIn[l].wrong + 1 < StageFailures
      <4>0. signInSignIn[l].wrong \in 0..StageFailures
        BY SignInPlaces
      <4>1. signInSignIn[l].wrong + 1 \in 0..StageFailures
        BY <3>1, <4>0, SignInAssumption
      <4>2. [signInSignIn[l] EXCEPT !.wrong = @ + 1] \in SignInOf!SignIn
        BY <4>1, SignInPlaces
      <4>3. QED
        BY <1>4, <3>1, <4>2 DEF SignInOf!WrongCode, SignInOf!CodeFailed
    <3>2. CASE ~(signInSignIn[l].wrong + 1 < StageFailures)
      BY <1>4, <3>2, SignInPlaces DEF SignInOf!WrongCode, SignInOf!CodeFailed, SignInOf!Ended
    <3>3. QED
      BY <3>1, <3>2
  <2>2. /\ signInFailures' = signInFailures + 1 /\ signInCrossed' \subseteq signInCrossed
        /\ UNCHANGED SignInOf!table /\ UNCHANGED <<signInRequest, signInProposed>>
    BY <1>4 DEF SignInOf!WrongCode, SignInOf!CodeFailed, SignInOf!Fail
  <2>3. QED
    BY <1>0, <2>1, <2>2 DEF SignInTypes, SignInOf!TypeOK
<1>5. ASSUME NEW l \in Logins, SignInOf!RightCode(l)
      PROVE  SignInTypes'
  <2>1. 0 \in 0..StageFailures
    BY SignInAssumption
  <2>2. [signInSignIn[l] EXCEPT !.at = "in", !.wrong = 0] \in SignInOf!SignIn
    BY <1>0, <2>1 DEF SignInOf!TypeOK, SignInOf!SignIn
  <2>3. signInSignIn' \in [Logins -> SignInOf!SignIn] /\ signInFailures' = 0
    BY <1>0, <1>5, <2>2 DEF SignInOf!RightCode, SignInOf!Finish, SignInOf!TypeOK
  <2>4. signInCodes' \in [Users -> 0..MaxCodes]
    BY <1>0, <1>5, SignInAssumption DEF SignInOf!RightCode, SignInOf!Consume, SignInOf!TypeOK
  <2>5. QED
    BY <1>0, <1>5, <2>3, <2>4 DEF SignInTypes, SignInOf!RightCode, SignInOf!TypeOK
<1>6. ASSUME NEW l \in Logins, SignInOf!StageRunsOut(l) \/ SignInOf!SignOut(l)
      PROVE  SignInTypes'
  <2>1. SignInOf!Lose(l)
    BY <1>6 DEF SignInOf!StageRunsOut, SignInOf!SignOut
  <2>2. QED
    BY <1>0, <2>1, SignInPlaces DEF SignInTypes, SignInOf!Lose, SignInOf!Ended, SignInOf!TypeOK
<1>7. ASSUME NEW l \in Logins, NEW kind \in SignInOf!Kinds, SignInOf!Enter(l, kind)
      PROVE  SignInTypes'
  BY <1>0, <1>7, SignInAssumption
  DEF SignInTypes, SignInOf!Enter, SignInOf!TypeOK, SignInOf!SignIn, SignInOf!Row, SignInOf!Out,
      SignInOf!None, SignInOf!Kinds
<1>8. ASSUME NEW l \in Logins, NEW u \in Users, SignInOf!Add(l, u)
      PROVE  SignInTypes'
  BY <1>0, <1>8, SignInAssumption
  DEF SignInTypes, SignInOf!Add, SignInOf!Asks, SignInOf!Handled, SignInOf!TypeOK, SignInOf!SignIn,
      SignInOf!Row, SignInOf!Out, SignInOf!None, SignInOf!Kinds
<1>9. ASSUME NEW l \in Logins, NEW u \in Users, SignInOf!Remove(l, u)
      PROVE  SignInTypes'
  BY <1>0, <1>9, SignInAssumption
  DEF SignInTypes, SignInOf!Remove, SignInOf!Asks, SignInOf!Asker, SignInOf!Delete, SignInOf!Close,
      SignInOf!Sessions, SignInOf!UnderWay, SignInOf!Handled, SignInOf!TypeOK, SignInOf!SignIn,
      SignInOf!Row, SignInOf!Out, SignInOf!None, SignInOf!Kinds
<1>10. ASSUME NEW l \in Logins, NEW u \in Users, SignInOf!Reset(l, u)
       PROVE  SignInTypes'
  BY <1>0, <1>10, SignInAssumption
  DEF SignInTypes, SignInOf!Reset, SignInOf!Asks, SignInOf!SetTotp, SignInOf!Close,
      SignInOf!Sessions, SignInOf!UnderWay, SignInOf!Handled, SignInOf!TypeOK, SignInOf!SignIn,
      SignInOf!Row, SignInOf!Out, SignInOf!None, SignInOf!Kinds
<1>11. ASSUME NEW l \in Logins, SignInOf!Change(l)
       PROVE  SignInTypes'
  <2> DEFINE u == SignInOf!Asker(l)
  <2>1. u \in Users
    BY <1>0 DEF SignInOf!TypeOK, SignInOf!Asker
  <2>2. /\ signInPassword' \in [Users -> 0..MaxChanges]
        /\ signInPassword'[u] \in 0..MaxChanges
    BY <1>0, <1>11, <2>1, SignInAssumption DEF SignInOf!Change, SignInOf!SetPassword, SignInOf!TypeOK
  <2>3. SignInOf!Renewed(l) \in [Logins -> SignInOf!SignIn]
    <3>1. [signInSignIn[l] EXCEPT !.saw.password = signInPassword'[u]] \in SignInOf!SignIn
      BY <2>2, SignInPlaces
    <3>2. QED
      BY <1>0, <3>1 DEF SignInOf!Renewed, SignInOf!TypeOK
  <2>4. signInSignIn' \in [Logins -> SignInOf!SignIn] /\ signInCrossed' \subseteq Logins
    BY <1>0, <1>11, <2>3, SignInPlaces
    DEF SignInOf!Change, SignInOf!Close, SignInOf!UnderWay, SignInOf!TypeOK
  <2>5. signInRequest' \in [Logins -> [kind : SignInOf!Kinds \cup {"none"}, user : Users]]
    BY <1>0, <1>11, SignInPlaces DEF SignInOf!Change, SignInOf!Handled, SignInOf!TypeOK
  <2>6. QED
    BY <1>0, <1>11, <2>2, <2>4, <2>5 DEF SignInTypes, SignInOf!Change, SignInOf!TypeOK
<1>12. ASSUME NEW l \in Logins, SignInOf!Refuse(l) \/ SignInOf!Propose(l)
       PROVE  SignInTypes'
  <2>1. signInRequest' \in [Logins -> [kind : SignInOf!Kinds \cup {"none"}, user : Users]]
    BY <1>0, <1>12, SignInPlaces DEF SignInOf!Refuse, SignInOf!Propose, SignInOf!Handled, SignInOf!TypeOK
  <2>2. QED
    BY <1>0, <1>12, <2>1
    DEF SignInTypes, SignInOf!Refuse, SignInOf!Propose, SignInOf!Asker, SignInOf!TypeOK
<1>13. ASSUME NEW l \in Logins, SignInOf!Enable(l)
       PROVE  SignInTypes'
  BY <1>0, <1>13, SignInAssumption
  DEF SignInTypes, SignInOf!Enable, SignInOf!SetTotp, SignInOf!Asks, SignInOf!Asker,
      SignInOf!Handled, SignInOf!TypeOK, SignInOf!SignIn, SignInOf!Row, SignInOf!Out, SignInOf!None,
      SignInOf!Kinds
<1>14. CASE SignInOf!Forget
  BY <1>0, <1>14, SignInAssumption
  DEF SignInTypes, SignInOf!Forget, SignInOf!TypeOK, SignInOf!SignIn, SignInOf!Row, SignInOf!Out,
      SignInOf!None, SignInOf!Kinds
<1>15. CASE SignInOf!Restart
  BY <1>0, <1>15, SignInAssumption
  DEF SignInTypes, SignInOf!Restart, SignInOf!TypeOK, SignInOf!SignIn, SignInOf!Row, SignInOf!Out,
      SignInOf!None, SignInOf!Kinds
<1>16. QED
  BY <1>1, <1>2, <1>3, <1>4, <1>5, <1>6, <1>7, <1>8, <1>9, <1>10, <1>11, <1>12, <1>13, <1>14, <1>15
  DEF SignInOf!Next

(* Sessions stay current, and requests stay with them.                     *)
LEMMA LoginsSoundStep ==
  ASSUME SignInTypes, LoginsSound, SignInOf!Next
  PROVE  LoginsSound'
<1> USE DEF SignInOf!table, SignInOf!At, SignInOf!Owner
<1>0. SignInOf!TypeOK /\ SignInOf!SomebodyStays /\ \A m \in Logins : SignInOf!LoginOK(m)
  BY DEF SignInTypes, LoginsSound
<1>1. ASSUME NEW l \in Logins, NEW u \in Users, SignInOf!Begin(l, u)
      PROVE  LoginsSound'
  BY <1>0, <1>1, SignInAssumption
  DEF LoginsSound, SignInOf!TypeOK, SignInOf!SignIn, SignInOf!Begin, SignInOf!LoginOK,
      SignInOf!SomebodyStays, SignInOf!Out, SignInOf!None, SignInOf!Asker
<1>2. ASSUME NEW l \in Logins, SignInOf!WrongPassword(l)
      PROVE  LoginsSound'
  BY <1>0, <1>2, SignInAssumption
  DEF LoginsSound, SignInOf!TypeOK, SignInOf!SignIn, SignInOf!WrongPassword, SignInOf!Ended,
      SignInOf!Fail, SignInOf!LoginOK, SignInOf!SomebodyStays, SignInOf!Out, SignInOf!None,
      SignInOf!Asker
<1>3. ASSUME NEW l \in Logins, SignInOf!RightPassword(l)
      PROVE  LoginsSound'
  BY <1>0, <1>3, SignInAssumption
  DEF LoginsSound, SignInOf!TypeOK, SignInOf!SignIn, SignInOf!RightPassword, SignInOf!Finish,
      SignInOf!LoginOK, SignInOf!SomebodyStays, SignInOf!Out, SignInOf!None, SignInOf!Asker
<1>4. ASSUME NEW l \in Logins, SignInOf!WrongCode(l)
      PROVE  LoginsSound'
  BY <1>0, <1>4, SignInAssumption
  DEF LoginsSound, SignInOf!TypeOK, SignInOf!SignIn, SignInOf!WrongCode, SignInOf!CodeFailed,
      SignInOf!Ended, SignInOf!Fail, SignInOf!LoginOK, SignInOf!SomebodyStays, SignInOf!Out,
      SignInOf!None, SignInOf!Asker
<1>5. ASSUME NEW l \in Logins, SignInOf!RightCode(l)
      PROVE  LoginsSound'
  BY <1>0, <1>5, SignInAssumption
  DEF LoginsSound, SignInOf!TypeOK, SignInOf!SignIn, SignInOf!RightCode, SignInOf!Consume,
      SignInOf!Finish, SignInOf!LoginOK, SignInOf!SomebodyStays, SignInOf!Out, SignInOf!None,
      SignInOf!Asker
<1>6. ASSUME NEW l \in Logins, SignInOf!StageRunsOut(l) \/ SignInOf!SignOut(l)
      PROVE  LoginsSound'
  <2>1. SignInOf!Lose(l)
    BY <1>6 DEF SignInOf!StageRunsOut, SignInOf!SignOut
  <2>2. QED
    BY <1>0, <2>1
    DEF LoginsSound, SignInOf!Lose, SignInOf!Ended, SignInOf!TypeOK, SignInOf!LoginOK,
        SignInOf!SomebodyStays, SignInOf!Out, SignInOf!Asker
<1>7. ASSUME NEW l \in Logins, NEW kind \in SignInOf!Kinds, SignInOf!Enter(l, kind)
      PROVE  LoginsSound'
  BY <1>0, <1>7, SignInAssumption
  DEF LoginsSound, SignInOf!TypeOK, SignInOf!SignIn, SignInOf!Enter, SignInOf!LoginOK,
      SignInOf!SomebodyStays, SignInOf!Out, SignInOf!None, SignInOf!Asker
<1>8. ASSUME NEW l \in Logins, NEW u \in Users, SignInOf!Add(l, u)
      PROVE  LoginsSound'
  BY <1>0, <1>8, SignInAssumption
  DEF LoginsSound, SignInOf!TypeOK, SignInOf!SignIn, SignInOf!Add, SignInOf!Asks, SignInOf!Handled,
      SignInOf!LoginOK, SignInOf!SomebodyStays, SignInOf!Out, SignInOf!None, SignInOf!Asker
<1>9. ASSUME NEW l \in Logins, NEW u \in Users, SignInOf!Remove(l, u)
      PROVE  LoginsSound'
  <2>1. SignInOf!SomebodyStays'
    <3>1. signInMember' = signInMember \ {u} /\ Cardinality(signInMember) > 1
      BY <1>9, SameCount DEF SignInOf!Remove, SignInOf!Delete
    <3>2. signInMember # {u}
      <4>1. Cardinality({u}) = 1
        BY FS_Singleton
      <4>2. QED
        BY <3>1, <4>1
    <3>3. QED
      BY <1>0, <3>1, <3>2 DEF SignInOf!SomebodyStays
  <2>2. ASSUME NEW m \in Logins
        PROVE  SignInOf!LoginOK(m)'
    <3>1. /\ signInMember' = signInMember \ {u} /\ signInPassword' = signInPassword
          /\ signInSignIn'[m] = IF m \in SignInOf!Sessions(u) THEN SignInOf!Out ELSE signInSignIn[m]
          /\ signInCrossed' = (signInCrossed \ SignInOf!Sessions(u)) \cup SignInOf!UnderWay(u)
      BY <1>9 DEF SignInOf!Remove, SignInOf!Delete, SignInOf!Close
    <3>2. signInRequest'[m] = signInRequest[m] \/ signInRequest'[m] = SignInOf!None
      BY <1>0, <1>9 DEF SignInOf!Remove, SignInOf!Delete, SignInOf!Handled, SignInOf!TypeOK
    <3>3. SignInOf!LoginOK(m) /\ signInSignIn[m].at \in {"out", "verify", "code", "in"}
      BY <1>0 DEF SignInOf!TypeOK, SignInOf!SignIn
    <3>4. QED
      BY <3>1, <3>2, <3>3
      DEF SignInOf!LoginOK, SignInOf!Out, SignInOf!None, SignInOf!Asker, SignInOf!Sessions, SignInOf!UnderWay
  <2>3. QED
    BY <2>1, <2>2 DEF LoginsSound
<1>10. ASSUME NEW l \in Logins, NEW u \in Users, SignInOf!Reset(l, u)
       PROVE  LoginsSound'
  BY <1>0, <1>10, SignInAssumption
  DEF LoginsSound, SignInOf!TypeOK, SignInOf!SignIn, SignInOf!Reset, SignInOf!Asks,
      SignInOf!SetTotp, SignInOf!Close, SignInOf!Sessions, SignInOf!UnderWay, SignInOf!Handled,
      SignInOf!LoginOK, SignInOf!SomebodyStays, SignInOf!Out, SignInOf!None, SignInOf!Asker
<1>11. ASSUME NEW l \in Logins, SignInOf!Change(l)
       PROVE  LoginsSound'
  BY <1>0, <1>11, SignInAssumption
  DEF LoginsSound, SignInOf!TypeOK, SignInOf!SignIn, SignInOf!Change, SignInOf!Asks,
      SignInOf!SetPassword, SignInOf!Renewed, SignInOf!Close, SignInOf!Sessions, SignInOf!UnderWay,
      SignInOf!Handled, SignInOf!Asker, SignInOf!LoginOK, SignInOf!SomebodyStays, SignInOf!Out,
      SignInOf!None
<1>12. ASSUME NEW l \in Logins, SignInOf!Refuse(l) \/ SignInOf!Propose(l)
       PROVE  LoginsSound'
  BY <1>0, <1>12, SignInAssumption
  DEF LoginsSound, SignInOf!TypeOK, SignInOf!SignIn, SignInOf!Refuse, SignInOf!Propose,
      SignInOf!Asks, SignInOf!Asker, SignInOf!Handled, SignInOf!LoginOK, SignInOf!SomebodyStays,
      SignInOf!Out, SignInOf!None
<1>13. ASSUME NEW l \in Logins, SignInOf!Enable(l)
       PROVE  LoginsSound'
  BY <1>0, <1>13, SignInAssumption
  DEF LoginsSound, SignInOf!TypeOK, SignInOf!SignIn, SignInOf!Enable, SignInOf!SetTotp,
      SignInOf!Asks, SignInOf!Asker, SignInOf!Handled, SignInOf!LoginOK, SignInOf!SomebodyStays,
      SignInOf!Out, SignInOf!None
<1>14. CASE SignInOf!Forget
  BY <1>0, <1>14, SignInAssumption
  DEF LoginsSound, SignInOf!TypeOK, SignInOf!SignIn, SignInOf!Forget, SignInOf!LoginOK,
      SignInOf!SomebodyStays, SignInOf!Out, SignInOf!None, SignInOf!Asker
<1>15. CASE SignInOf!Restart
  BY <1>0, <1>15, SignInAssumption
  DEF LoginsSound, SignInOf!TypeOK, SignInOf!SignIn, SignInOf!Restart, SignInOf!LoginOK,
      SignInOf!SomebodyStays, SignInOf!Out, SignInOf!None, SignInOf!Asker
<1>16. QED
  BY <1>1, <1>2, <1>3, <1>4, <1>5, <1>6, <1>7, <1>8, <1>9, <1>10, <1>11, <1>12, <1>13, <1>14, <1>15
  DEF SignInOf!Next

(* What is checked gets less, unless an attempt begins that the throttle   *)
(* allows.                                                                 *)
LEMMA AttemptsStep ==
  ASSUME SignInTypes, AttemptsHold, SignInOf!Next
  PROVE  AttemptsHold'
<1> USE DEF SignInOf!table, SignInOf!At, SignInOf!Owner
<1>0. SignInOf!TypeOK
  BY DEF SignInTypes
<1>a. /\ signInSignIn = [m \in Logins |-> signInSignIn[m]]
      /\ signInFailures \in Nat /\ MaxFailures \in Nat \ {0}
  BY <1>0, SignInAssumption DEF SignInOf!TypeOK
<1>1. ASSUME NEW l \in Logins, NEW u \in Users, SignInOf!Begin(l, u)
      PROVE  AttemptsHold'
  <2>1. signInFailures' \in Nat /\ signInFailures' < MaxFailures
    BY <1>1, <1>a DEF SignInOf!Begin, SignInOf!Allowed
  <2>2. QED
    BY <2>1, NoMoreAttempts
<1>2. ASSUME NEW l \in Logins, SignInOf!WrongPassword(l)
      PROVE  AttemptsHold'
  <2>1. /\ SignInOf!Checking \in SUBSET Logins /\ l \in SignInOf!Checking
        /\ SignInOf!Checking' \in SUBSET SignInOf!Checking /\ l \notin SignInOf!Checking'
    BY <1>2, <1>a
    DEF SignInOf!Checking, SignInOf!WrongPassword, SignInOf!Ended, SignInOf!Out
  <2>2. /\ Cardinality(SignInOf!Checking') \in Nat /\ Cardinality(SignInOf!Checking) \in Nat
        /\ Cardinality(SignInOf!Checking') < Cardinality(SignInOf!Checking)
    BY <2>1, FewerLogins
  <2>3. Cardinality(Logins) \in Nat
    BY <2>1, SomeLogins
  <2>4. signInFailures' = signInFailures + 1
    BY <1>2 DEF SignInOf!WrongPassword, SignInOf!Fail
  <2>5. QED
    BY <1>a, <2>2, <2>3, <2>4 DEF AttemptsHold, Attempts
<1>3. ASSUME NEW l \in Logins, SignInOf!RightPassword(l)
      PROVE  AttemptsHold'
  <2>1. \/ signInFailures' = 0
        \/ (signInFailures' = signInFailures /\ SignInOf!Checking' \subseteq SignInOf!Checking)
    BY <1>3, <1>a DEF SignInOf!RightPassword, SignInOf!Finish, SignInOf!Checking
  <2>2. QED
    BY <1>a, <2>1, NoMoreAttempts
<1>4. ASSUME NEW l \in Logins, SignInOf!WrongCode(l)
      PROVE  AttemptsHold'
  <2>1. /\ Logins \in SUBSET Logins
        /\ SignInOf!Checking' \in SUBSET Logins /\ l \notin SignInOf!Checking'
    <3>1. signInSignIn[l].at = "code" /\ signInSignIn[l] \in SignInOf!SignIn
      BY <1>0, <1>4 DEF SignInOf!WrongCode, SignInOf!TypeOK
    <3>2. signInSignIn'[l].at \in {"code", "out"}
      BY <1>4, <1>a, <3>1
      DEF SignInOf!WrongCode, SignInOf!CodeFailed, SignInOf!Ended, SignInOf!Out, SignInOf!SignIn
    <3>3. QED
      BY <3>2 DEF SignInOf!Checking
  <2>2. /\ Cardinality(SignInOf!Checking') \in Nat /\ Cardinality(Logins) \in Nat
        /\ Cardinality(SignInOf!Checking') < Cardinality(Logins)
    BY <2>1, FewerLogins
  <2>3. signInFailures' = signInFailures + 1 /\ signInFailures < MaxFailures
    BY <1>4 DEF SignInOf!WrongCode, SignInOf!CodeFailed, SignInOf!Fail, SignInOf!Allowed
  <2>4. QED
    BY <1>a, <2>2, <2>3 DEF AttemptsHold, Attempts
<1>5. ASSUME NEW l \in Logins, SignInOf!RightCode(l)
      PROVE  AttemptsHold'
  <2>1. signInFailures' = 0
    BY <1>5 DEF SignInOf!RightCode, SignInOf!Finish
  <2>2. QED
    BY <1>a, <2>1, NoMoreAttempts
<1>6. ASSUME NEW l \in Logins, SignInOf!StageRunsOut(l) \/ SignInOf!SignOut(l)
      PROVE  AttemptsHold'
  <2>1. SignInOf!Lose(l)
    BY <1>6 DEF SignInOf!StageRunsOut, SignInOf!SignOut
  <2>2. signInFailures' = signInFailures /\ SignInOf!Checking' \subseteq SignInOf!Checking
    BY <1>a, <2>1 DEF SignInOf!Lose, SignInOf!Ended, SignInOf!Out, SignInOf!Checking
  <2>3. QED
    BY <1>a, <2>2, NoMoreAttempts
<1>7. ASSUME NEW l \in Logins, NEW u \in Users, SignInOf!Remove(l, u) \/ SignInOf!Reset(l, u)
      PROVE  AttemptsHold'
  <2>1. PICK hit \in SUBSET Logins : SignInOf!Close(hit, u, signInSignIn)
    BY <1>7 DEF SignInOf!Remove, SignInOf!Delete, SignInOf!Reset, SignInOf!Sessions
  <2>2. signInFailures' = signInFailures
    BY <1>7 DEF SignInOf!Remove, SignInOf!Delete, SignInOf!Reset
  <2>3. SignInOf!Checking' \subseteq SignInOf!Checking
    BY <1>a, <2>1 DEF SignInOf!Close, SignInOf!Out, SignInOf!Checking
  <2>4. QED
    BY <1>a, <2>2, <2>3, NoMoreAttempts
<1>8. ASSUME NEW l \in Logins, SignInOf!Change(l)
      PROVE  AttemptsHold'
  <2>1. PICK hit \in SUBSET Logins : SignInOf!Close(hit, SignInOf!Asker(l), SignInOf!Renewed(l))
    BY <1>8 DEF SignInOf!Change, SignInOf!Sessions
  <2>2. signInFailures' = signInFailures
    BY <1>8 DEF SignInOf!Change
  <2>3. \A m \in Logins : SignInOf!Renewed(l)[m].at = signInSignIn[m].at
    BY <1>a DEF SignInOf!Renewed
  <2>4. SignInOf!Checking' \subseteq SignInOf!Checking
    BY <1>a, <2>1, <2>3 DEF SignInOf!Close, SignInOf!Out, SignInOf!Checking
  <2>5. QED
    BY <1>a, <2>2, <2>4, NoMoreAttempts
<1>9. ASSUME NEW l \in Logins,
             \/ \E kind \in SignInOf!Kinds : SignInOf!Enter(l, kind)
             \/ \E u \in Users : SignInOf!Add(l, u)
             \/ SignInOf!Refuse(l) \/ SignInOf!Propose(l) \/ SignInOf!Enable(l)
      PROVE  AttemptsHold'
  <2>1. signInFailures' = signInFailures /\ signInSignIn' = signInSignIn
    BY <1>9 DEF SignInOf!Enter, SignInOf!Add, SignInOf!Refuse, SignInOf!Propose, SignInOf!Enable
  <2>2. SignInOf!Checking' \subseteq SignInOf!Checking
    BY <2>1 DEF SignInOf!Checking
  <2>3. QED
    BY <1>a, <2>1, <2>2, NoMoreAttempts
<1>10. CASE SignInOf!Forget \/ SignInOf!Restart
  <2>1. signInFailures' = 0
    BY <1>10 DEF SignInOf!Forget, SignInOf!Restart
  <2>2. QED
    BY <1>a, <2>1, NoMoreAttempts
<1>11. QED
  BY <1>1, <1>2, <1>3, <1>4, <1>5, <1>6, <1>7, <1>8, <1>9, <1>10 DEF SignInOf!Next

SignInHolds == SignInTypes /\ LoginsSound /\ AttemptsHold

(* Sign-in begins well, and stays so whether it moves or not.              *)
LEMMA SignInBegins == SignInOf!Init => SignInHolds
<1> SUFFICES ASSUME SignInOf!Init PROVE SignInHolds
  OBVIOUS
<1>1. SignInOf!Out \in SignInOf!SignIn
  BY SignInAssumption DEF SignInOf!Out, SignInOf!SignIn, SignInOf!Row
<1>2. SignInTypes
  BY <1>1, SignInAssumption
  DEF SignInTypes, SignInOf!TypeOK, SignInOf!Init, SignInOf!None, SignInOf!Kinds
<1>3. LoginsSound
  BY SignInAssumption
  DEF LoginsSound, SignInOf!SomebodyStays, SignInOf!LoginOK, SignInOf!Init, SignInOf!At, SignInOf!Out,
      SignInOf!None
<1>4. SignInOf!Checking = {}
  BY DEF SignInOf!Checking, SignInOf!At, SignInOf!Init, SignInOf!Out
<1>5. Cardinality(SignInOf!Checking) = 0
  BY <1>4, FS_EmptySet
<1>6. {} \in SUBSET Logins /\ signInFailures = 0
  BY DEF SignInOf!Init
<1>7. Cardinality(Logins) \in Nat /\ MaxFailures \in Nat \ {0}
  BY <1>6, SomeLogins, SignInAssumption
<1>8. AttemptsHold
  BY <1>5, <1>6, <1>7 DEF AttemptsHold, Attempts
<1>9. QED
  BY <1>2, <1>3, <1>8 DEF SignInHolds

LEMMA SignInStays ==
  ASSUME SignInHolds, SignInOf!Next \/ UNCHANGED signInVars
  PROVE  SignInHolds'
<1>1. CASE SignInOf!Next
  BY <1>1, SignInTypesStep, LoginsSoundStep, AttemptsStep DEF SignInHolds
<1>2. CASE UNCHANGED signInVars
  <2>1. SignInTypes'
    BY <1>2 DEF SignInHolds, SignInTypes, SignInOf!TypeOK, signInVars
  <2>2. LoginsSound'
    BY <1>2
    DEF SignInHolds, LoginsSound, SignInOf!SomebodyStays, SignInOf!LoginOK, SignInOf!At,
        SignInOf!Owner, SignInOf!Asker, signInVars
  <2>3. signInFailures' = signInFailures /\ SignInOf!Checking' = SignInOf!Checking
    BY <1>2 DEF SignInOf!Checking, SignInOf!At, signInVars
  <2>4. AttemptsHold'
    BY <2>3 DEF SignInHolds, AttemptsHold, Attempts
  <2>5. QED
    BY <2>1, <2>2, <2>4 DEF SignInHolds
<1>3. QED
  BY <1>1, <1>2

-----------------------------------------------------------------------------
(* Microsoft 365. *)

(* A row, a refresh and a sign-in are records of their fields; a change of *)
(* the row that drops its token gives up the sign-ins in the browser.      *)
LEMMA TokenDropped ==
  ASSUME M365Of!IInv, m365Account' \in M365Of!Rows(Len(m365Grants)),
         m365Account'.token = 0, m365Account'.state = "new", m365Account'.error = M365Of!Cleared,
         m365Cache' = 0, M365Of!DropPending,
         UNCHANGED <<m365Mailbox, m365Refresh, m365Form, m365Grants, m365Revoked,
                     m365Failures, m365Notes, m365Torn>>
  PROVE  M365Of!IInv'
<1>1. M365Of!PlacesOK'
  BY DEF M365Of!IInv, M365Of!PlacesOK, M365Of!DropPending, M365Of!Ended, M365Of!None
<1>2. M365Of!TokensIssued'
  BY DEF M365Of!IInv, M365Of!TokensIssued, M365Of!DropPending
<1>3. M365Of!GrantIsCurrent' /\ M365Of!NeedsLoginIsTrue' /\ M365Of!NeedsLoginIsTold'
  BY DEF M365Of!IInv, M365Of!GrantIsCurrent, M365Of!NeedsLoginIsTrue, M365Of!NeedsLoginIsTold
<1>4. M365Of!EpochsPass'
  BY DEF M365Of!IInv, M365Of!PlacesOK, M365Of!TokensIssued, M365Of!EpochsPass, M365Of!DropPending,
         M365Of!Ended, M365Of!None
<1>5. M365Of!OutagesNumbered'
  BY DEF M365Of!IInv, M365Of!OutagesNumbered, M365Of!Cleared
<1>6. QED
  BY <1>1, <1>2, <1>3, <1>4, <1>5 DEF M365Of!IInv

(* What is written into a row is of its type; so is a token that somebody  *)
(* has, whose grant is one.                                                *)
LEMMA RowValues ==
  /\ M365Of!Cleared \in M365Of!Errors
  /\ "new" \in M365Of!States /\ "connected" \in M365Of!States
  /\ "needs_login" \in M365Of!States /\ "error" \in M365Of!States
BY DEF M365Of!Cleared, M365Of!Errors, M365Of!States

LEMMA GrantOfToken ==
  ASSUME NEW S, NEW issued \in Seq(S), NEW token \in 1..Len(issued)
  PROVE  issued[token] \in S
OBVIOUS

(* Microsoft issues a token of a grant; the earlier ones stay as they are. *)
LEMMA TokenIssued ==
  ASSUME M365Of!IInv, NEW g \in [who : People, app : Apps, first : Nat], M365Of!Issue(g)
  PROVE  /\ M365Of!Fresh = Len(m365Grants) + 1 /\ Len(m365Grants') = M365Of!Fresh
         /\ M365Of!Fresh \in Nat \ {0} /\ M365Of!Fresh <= MaxTokens
         /\ m365Grants' \in Seq([who : People, app : Apps, first : Nat])
         /\ m365Grants'[M365Of!Fresh] = g
         /\ \A n \in 1..Len(m365Grants) : m365Grants'[n] = m365Grants[n]
<1>1. m365Grants \in Seq([who : People, app : Apps, first : Nat])
  BY DEF M365Of!IInv, M365Of!TokensIssued
<1>2. M365Of!Fresh = Len(m365Grants) + 1 /\ M365Of!Fresh <= MaxTokens
      /\ m365Grants' = Append(m365Grants, g)
  BY DEF M365Of!Issue, M365Of!Fresh
<1>3. QED
  BY <1>1, <1>2

(* A token that nobody keeps changes nothing, and one that is kept comes   *)
(* with its grant, of the application of the account.                      *)
LEMMA TokenKept ==
  ASSUME M365Of!IInv, NEW g \in [who : People, app : Apps, first : Nat], M365Of!Issue(g),
         M365Of!PlacesOK', M365Of!EpochsPass',
         m365Refresh' \in {m365Refresh, M365Of!Resting},
         UNCHANGED <<m365Epoch, m365Revoked, m365Failures, m365Notes, m365Torn>>,
         \/ UNCHANGED <<m365Account, m365Cache>>
         \/ /\ m365Account' \in M365Of!Rows(M365Of!Fresh)
            /\ m365Account'.state = "connected" /\ m365Account'.token = M365Of!Fresh
            /\ m365Account'.error = M365Of!Cleared /\ m365Account'.app = g.app
            /\ m365Cache' = M365Of!Fresh
  PROVE  M365Of!IInv'
<1>0. /\ M365Of!TokensIssued /\ M365Of!GrantIsCurrent /\ M365Of!OutagesNumbered
      /\ M365Of!NeedsLoginIsTrue /\ M365Of!NeedsLoginIsTold
  BY DEF M365Of!IInv
<1>1. /\ M365Of!Fresh = Len(m365Grants) + 1 /\ Len(m365Grants') = M365Of!Fresh
      /\ M365Of!Fresh \in Nat \ {0} /\ M365Of!Fresh <= MaxTokens
      /\ m365Grants' \in Seq([who : People, app : Apps, first : Nat])
      /\ m365Grants'[M365Of!Fresh] = g
      /\ \A n \in 1..Len(m365Grants) : m365Grants'[n] = m365Grants[n]
  BY TokenIssued
<1>2. /\ m365Account.token \in 0..Len(m365Grants) /\ m365Cache \in 0..Len(m365Grants)
      /\ Len(m365Grants) \in Nat
  BY <1>0 DEF M365Of!TokensIssued, M365Of!Rows
<1>3. m365Account \in M365Of!Rows(M365Of!Fresh)
  BY <1>0, <1>1, <1>2 DEF M365Of!TokensIssued, M365Of!Rows
<1>4. m365Refresh' \in [used : 0..M365Of!Fresh, app : Apps \cup {M365Of!None}]
      /\ (m365Refresh' # M365Of!Resting => m365Refresh'.used # 0)
  BY <1>0, <1>1, <1>2 DEF M365Of!TokensIssued, M365Of!Resting
<1>5. M365Of!TokensIssued'
  <2>1. m365Account' \in M365Of!Rows(M365Of!Fresh) /\ m365Cache' \in 0..M365Of!Fresh
    BY <1>1, <1>2, <1>3
  <2>2. m365Account'.state = "new" <=> m365Account'.token = 0
    BY <1>0, <1>1 DEF M365Of!TokensIssued
  <2>3. QED
    BY <1>0, <1>1, <1>4, <2>1, <2>2 DEF M365Of!TokensIssued
<1>6. M365Of!GrantIsCurrent'
  BY <1>0, <1>1, <1>2 DEF M365Of!GrantIsCurrent
<1>7. M365Of!OutagesNumbered'
  BY <1>0 DEF M365Of!OutagesNumbered, M365Of!Cleared
<1>8. M365Of!NeedsLoginIsTrue' /\ M365Of!NeedsLoginIsTold'
  BY <1>0, <1>1, <1>2 DEF M365Of!NeedsLoginIsTrue, M365Of!NeedsLoginIsTold
<1>9. QED
  BY <1>5, <1>6, <1>7, <1>8 DEF M365Of!IInv

(* An outage begins, or goes on; whoever is told of it is told once.       *)
LEMMA OutageNoted ==
  ASSUME M365Of!OutagesNumbered, NEW state \in {"needs_login", "error"}, NEW tells \in BOOLEAN,
         tells => M365Of!Tells, M365Of!Fail(state, tells),
         m365Account \in M365Of!Rows(Len(m365Grants)),
         \A n, k \in 1..Len(m365Notes) : m365Notes[n] = m365Notes[k] => n = k
  PROVE  /\ M365Of!OutagesNumbered'
         /\ m365Account' \in M365Of!Rows(Len(m365Grants)) /\ m365Account'.state = state
         /\ m365Account'.token = m365Account.token /\ m365Account'.app = m365Account.app
         /\ m365Cache' = 0
         /\ \A n, k \in 1..Len(m365Notes') : m365Notes'[n] = m365Notes'[k] => n = k
         /\ m365Account'.error.notified =>
              \E n \in 1..Len(m365Notes') : m365Notes'[n] = m365Account'.error.since
<1> DEFINE since == M365Of!Since
<1>1. /\ m365Failures \in Nat /\ m365Account.error.since \in 0..m365Failures
      /\ m365Notes \in Seq(1..m365Failures)
      /\ m365Account.error.notified \in BOOLEAN
  BY DEF M365Of!OutagesNumbered, M365Of!Rows, M365Of!Errors
<1>2. /\ m365Failures' \in Nat /\ m365Failures <= m365Failures'
      /\ since \in 1..m365Failures'
      /\ ~m365Account.error.notified => \A n \in 1..Len(m365Notes) : m365Notes[n] # since
      /\ m365Account.error.notified => \E n \in 1..Len(m365Notes) : m365Notes[n] = since
  <2>1. CASE m365Account.error.since = 0
    <3>1. since = m365Failures + 1 /\ m365Failures' = m365Failures + 1
      BY <2>1 DEF M365Of!Since, M365Of!Fail
    <3>2. \A n \in 1..Len(m365Notes) : m365Notes[n] \in 1..m365Failures
      BY <1>1
    <3>3. ~m365Account.error.notified
      BY <2>1, <3>2, <1>1 DEF M365Of!OutagesNumbered
    <3>4. QED
      BY <1>1, <3>1, <3>2, <3>3
  <2>2. CASE m365Account.error.since # 0
    <3>1. since = m365Account.error.since /\ m365Failures' = m365Failures
      BY <2>2 DEF M365Of!Since, M365Of!Fail
    <3>2. QED
      BY <1>1, <2>2, <3>1 DEF M365Of!OutagesNumbered
  <2>3. QED
    BY <2>1, <2>2
<1>3. /\ m365Account' = [m365Account EXCEPT !.state = state,
           !.error = [since |-> since, notified |-> m365Account.error.notified \/ tells]]
      /\ m365Cache' = 0
      /\ m365Notes' = IF tells THEN Append(m365Notes, since) ELSE m365Notes
      /\ tells => ~m365Account.error.notified
  BY DEF M365Of!Fail, M365Of!Tells
<1>4. /\ m365Account' \in M365Of!Rows(Len(m365Grants)) /\ m365Account'.state = state
      /\ m365Account'.token = m365Account.token /\ m365Account'.app = m365Account.app
      /\ m365Account'.error.since = since
      /\ m365Account'.error.notified = (m365Account.error.notified \/ tells)
  <2>1. (m365Account.error.notified \/ tells) \in BOOLEAN
    OBVIOUS
  <2>2. since \in Nat
    BY <1>2
  <2>3. [since |-> since, notified |-> m365Account.error.notified \/ tells] \in M365Of!Errors
    BY <2>1, <2>2 DEF M365Of!Errors
  <2>4. state \in M365Of!States
    BY RowValues
  <2>5. /\ m365Account' \in M365Of!Rows(Len(m365Grants)) /\ m365Account'.state = state
        /\ m365Account'.token = m365Account.token /\ m365Account'.app = m365Account.app
        /\ m365Account'.error = [since |-> since, notified |-> m365Account.error.notified \/ tells]
    BY <1>3, <2>3, <2>4 DEF M365Of!Rows
  <2>6. QED
    BY <2>1, <2>5
<1>5. /\ m365Notes' \in Seq(1..m365Failures')
      /\ \A n, k \in 1..Len(m365Notes') : m365Notes'[n] = m365Notes'[k] => n = k
      /\ m365Account'.error.notified =>
           \E n \in 1..Len(m365Notes') : m365Notes'[n] = m365Account'.error.since
      /\ ~m365Account'.error.notified =>
           \A n \in 1..Len(m365Notes') : m365Notes'[n] # m365Account'.error.since
  <2>0. m365Notes \in Seq(1..m365Failures')
    BY <1>1, <1>2
  <2>1. CASE tells
    <3>1. /\ m365Notes' \in Seq(1..m365Failures') /\ Len(m365Notes') = Len(m365Notes) + 1
          /\ m365Notes'[Len(m365Notes) + 1] = since /\ Len(m365Notes) \in Nat
          /\ \A n \in 1..Len(m365Notes) : m365Notes'[n] = m365Notes[n]
      BY <1>2, <1>3, <2>0, <2>1
    <3>2. ASSUME NEW n \in 1..Len(m365Notes'), NEW k \in 1..Len(m365Notes'),
                 m365Notes'[n] = m365Notes'[k]
          PROVE  n = k
      <4>1. \A m \in 1..Len(m365Notes) : m365Notes[m] # since
        BY <1>2, <1>3, <2>1
      <4>2. QED
        BY <3>1, <3>2, <4>1
    <3>3. m365Account'.error.notified /\ m365Account'.error.since = since
      BY <1>4, <2>1
    <3>4. Len(m365Notes) + 1 \in 1..Len(m365Notes')
      BY <3>1
    <3>5. QED
      BY <3>1, <3>2, <3>3, <3>4
  <2>2. CASE ~tells
    BY <1>2, <1>3, <1>4, <2>0, <2>2
  <2>3. QED
    BY <2>1, <2>2
<1>6. M365Of!OutagesNumbered'
  BY <1>2, <1>4, <1>5 DEF M365Of!OutagesNumbered
<1>7. QED
  BY <1>3, <1>4, <1>5, <1>6

(* Whatever a step of Microsoft 365 does, what holds goes on.              *)
LEMMA M365Step ==
  ASSUME M365Of!IInv, M365Of!Next
  PROVE  M365Of!IInv'
<1> USE DEF M365Of!tables, M365Of!memory, M365Of!ms, M365Of!history
<1>0. /\ M365Of!IInv
      /\ M365Of!PlacesOK /\ M365Of!TokensIssued /\ M365Of!GrantIsCurrent /\ M365Of!EpochsPass
      /\ M365Of!OutagesNumbered /\ M365Of!NeedsLoginIsTrue /\ M365Of!NeedsLoginIsTold
  BY DEF M365Of!IInv
<1>1. ASSUME M365Of!Revoke
      PROVE  M365Of!IInv'
  BY <1>0, <1>1
  DEF M365Of!Revoke, M365Of!IInv, M365Of!PlacesOK, M365Of!TokensIssued, M365Of!Rows,
      M365Of!GrantIsCurrent, M365Of!EpochsPass, M365Of!OutagesNumbered, M365Of!NeedsLoginIsTrue,
      M365Of!NeedsLoginIsTold, M365Of!None, M365Of!Ended, M365Of!Resting, M365Of!Cleared,
      M365Of!States, M365Of!Errors
<1>2. ASSUME M365Of!SetAddress
      PROVE  M365Of!IInv'
  BY <1>0, <1>2
  DEF M365Of!SetAddress, M365Of!IInv, M365Of!PlacesOK, M365Of!TokensIssued, M365Of!Rows,
      M365Of!GrantIsCurrent, M365Of!EpochsPass, M365Of!OutagesNumbered, M365Of!NeedsLoginIsTrue,
      M365Of!NeedsLoginIsTold, M365Of!None, M365Of!Ended, M365Of!Resting, M365Of!Cleared,
      M365Of!States, M365Of!Errors
<1>3. ASSUME NEW l \in SignIns, NEW s \in Browsers, M365Of!StartLogin(l, s)
      PROVE  M365Of!IInv'
  BY <1>0, <1>3
  DEF M365Of!StartLogin, M365Of!IInv, M365Of!PlacesOK, M365Of!TokensIssued, M365Of!Rows,
      M365Of!GrantIsCurrent, M365Of!EpochsPass, M365Of!OutagesNumbered, M365Of!NeedsLoginIsTrue,
      M365Of!NeedsLoginIsTold, M365Of!None, M365Of!Ended, M365Of!Resting, M365Of!Cleared,
      M365Of!States, M365Of!Errors
<1>4. ASSUME NEW l \in SignIns, M365Of!LoginEnds(l)
      PROVE  M365Of!IInv'
  BY <1>0, <1>4
  DEF M365Of!LoginEnds, M365Of!IInv, M365Of!PlacesOK, M365Of!TokensIssued, M365Of!Rows,
      M365Of!GrantIsCurrent, M365Of!EpochsPass, M365Of!OutagesNumbered, M365Of!NeedsLoginIsTrue,
      M365Of!NeedsLoginIsTold, M365Of!None, M365Of!Ended, M365Of!Resting, M365Of!Cleared,
      M365Of!States, M365Of!Errors
<1>5. ASSUME M365Of!Refresh
      PROVE  M365Of!IInv'
  BY <1>0, <1>5
  DEF M365Of!Refresh, M365Of!IInv, M365Of!PlacesOK, M365Of!TokensIssued, M365Of!Rows,
      M365Of!GrantIsCurrent, M365Of!EpochsPass, M365Of!OutagesNumbered, M365Of!NeedsLoginIsTrue,
      M365Of!NeedsLoginIsTold, M365Of!None, M365Of!Ended, M365Of!Resting, M365Of!Cleared,
      M365Of!States, M365Of!Errors
<1>6. ASSUME M365Of!Expire
      PROVE  M365Of!IInv'
  BY <1>0, <1>6
  DEF M365Of!Expire, M365Of!IInv, M365Of!PlacesOK, M365Of!TokensIssued, M365Of!Rows,
      M365Of!GrantIsCurrent, M365Of!EpochsPass, M365Of!OutagesNumbered, M365Of!NeedsLoginIsTrue,
      M365Of!NeedsLoginIsTold, M365Of!None, M365Of!Ended, M365Of!Resting, M365Of!Cleared,
      M365Of!States, M365Of!Errors
<1>7. ASSUME M365Of!OpenMailbox
      PROVE  M365Of!IInv'
  BY <1>0, <1>7
  DEF M365Of!OpenMailbox, M365Of!IInv, M365Of!PlacesOK, M365Of!TokensIssued, M365Of!Rows,
      M365Of!GrantIsCurrent, M365Of!EpochsPass, M365Of!OutagesNumbered, M365Of!NeedsLoginIsTrue,
      M365Of!NeedsLoginIsTold, M365Of!None, M365Of!Ended, M365Of!Resting, M365Of!Cleared,
      M365Of!States, M365Of!Errors
<1>8. ASSUME M365Of!SaveMailbox
      PROVE  M365Of!IInv'
  BY <1>0, <1>8
  DEF M365Of!SaveMailbox, M365Of!IInv, M365Of!PlacesOK, M365Of!TokensIssued, M365Of!Rows,
      M365Of!GrantIsCurrent, M365Of!EpochsPass, M365Of!OutagesNumbered, M365Of!NeedsLoginIsTrue,
      M365Of!NeedsLoginIsTold, M365Of!None, M365Of!Ended, M365Of!Resting, M365Of!Cleared,
      M365Of!States, M365Of!Errors
<1>9. ASSUME M365Of!RefuseMailbox
      PROVE  M365Of!IInv'
  BY <1>0, <1>9
  DEF M365Of!RefuseMailbox, M365Of!IInv, M365Of!PlacesOK, M365Of!TokensIssued, M365Of!Rows,
      M365Of!GrantIsCurrent, M365Of!EpochsPass, M365Of!OutagesNumbered, M365Of!NeedsLoginIsTrue,
      M365Of!NeedsLoginIsTold, M365Of!None, M365Of!Ended, M365Of!Resting, M365Of!Cleared,
      M365Of!States, M365Of!Errors
<1>10. ASSUME M365Of!RemoveMailbox
       PROVE  M365Of!IInv'
  BY <1>0, <1>10
  DEF M365Of!RemoveMailbox, M365Of!IInv, M365Of!PlacesOK, M365Of!TokensIssued, M365Of!Rows,
      M365Of!GrantIsCurrent, M365Of!EpochsPass, M365Of!OutagesNumbered, M365Of!NeedsLoginIsTrue,
      M365Of!NeedsLoginIsTold, M365Of!None, M365Of!Ended, M365Of!Resting, M365Of!Cleared,
      M365Of!States, M365Of!Errors
<1>11. ASSUME M365Of!Disconnect \/ M365Of!Remove \/ \E app \in Apps : M365Of!Update(app)
       PROVE  M365Of!IInv'
  <2>1. /\ M365Of!DropPending /\ m365Cache' = 0
        /\ UNCHANGED <<m365Mailbox, m365Refresh, m365Form, m365Grants, m365Revoked,
                       m365Failures, m365Notes, m365Torn>>
    BY <1>11 DEF M365Of!Disconnect, M365Of!Remove, M365Of!Update
  <2>2. m365Account \in M365Of!Rows(Len(m365Grants))
        /\ 0 \in 0..Len(m365Grants)
    BY <1>0 DEF M365Of!TokensIssued
  <2>3. /\ m365Account' \in M365Of!Rows(Len(m365Grants))
        /\ m365Account'.token = 0 /\ m365Account'.state = "new" /\ m365Account'.error = M365Of!Cleared
    <3>1. CASE M365Of!Disconnect
      BY <2>2, <3>1, RowValues DEF M365Of!Disconnect, M365Of!Disconnected, M365Of!Rows
    <3>2. CASE M365Of!Remove
      BY <2>2, <3>2, RowValues DEF M365Of!Remove, M365Of!Rows
    <3>3. ASSUME NEW app \in Apps, M365Of!Update(app)
          PROVE  /\ m365Account' \in M365Of!Rows(Len(m365Grants)) /\ m365Account'.token = 0
                 /\ m365Account'.state = "new" /\ m365Account'.error = M365Of!Cleared
      BY <2>2, <3>3, RowValues DEF M365Of!Update, M365Of!Disconnected, M365Of!Rows
    <3>4. QED
      BY <1>11, <3>1, <3>2, <3>3
  <2>4. QED
    BY <1>0, <2>1, <2>3, TokenDropped
<1>12. ASSUME NEW l \in SignIns, NEW s \in Browsers, M365Of!Return(l, s)
       PROVE  M365Of!IInv'
  <2>1. PICK place : /\ place \in {[m365Login[l] EXCEPT !.at = "redeeming"], M365Of!Ended}
                     /\ place.at = "redeeming" => m365Account.app = m365Login[l].app
                     /\ m365Login' = [m365Login EXCEPT ![l] = place]
                     /\ m365Login[l].at = "browser"
    BY <1>12 DEF M365Of!Return, M365Of!Ended, M365Of!None
  <2>2. M365Of!PlacesOK'
    <3> DEFINE Places == [at : {M365Of!None, "browser", "redeeming"}, app : Apps \cup {M365Of!None},
                          session : Browsers \cup {M365Of!None}, epoch : Nat]
    <3>1. m365Login \in [SignIns -> Places] /\ m365Login[l] \in Places
      BY <1>0 DEF M365Of!PlacesOK
    <3>2. [m365Login[l] EXCEPT !.at = "redeeming"] \in Places /\ M365Of!Ended \in Places
      BY <3>1 DEF M365Of!Ended
    <3>3. m365Login' \in [SignIns -> Places]
      BY <2>1, <3>1, <3>2
    <3>4. QED
      BY <1>0, <1>12, <3>3 DEF M365Of!Return, M365Of!PlacesOK
  <2>3. M365Of!EpochsPass'
    <3>1. /\ m365Account.app \in Apps /\ UNCHANGED <<m365Epoch, m365Behind>>
          /\ m365Login = [m \in SignIns |-> m365Login[m]]
      BY <1>0, <1>12 DEF M365Of!Return, M365Of!TokensIssued, M365Of!Rows, M365Of!PlacesOK
    <3>2. /\ place.at \in {"redeeming", M365Of!None}
          /\ place.at = "redeeming" => place.app \in Apps /\ place.epoch = m365Login[l].epoch
      <4>1. m365Login[l] \in [at : {M365Of!None, "browser", "redeeming"}, app : Apps \cup {M365Of!None},
                              session : Browsers \cup {M365Of!None}, epoch : Nat]
        BY <1>0 DEF M365Of!PlacesOK
      <4>2. QED
        BY <2>1, <3>1, <4>1 DEF M365Of!Ended, M365Of!None
    <3>3. m365Login'[l] = place /\ \A m \in SignIns \ {l} : m365Login'[m] = m365Login[m]
      BY <2>1, <3>1
    <3>4. m365Login[l].epoch <= m365Epoch
      BY <1>0, <2>1 DEF M365Of!EpochsPass, M365Of!None
    <3>5. l \in m365Behind => m365Login[l].epoch < m365Epoch
      BY <1>0, <2>1 DEF M365Of!EpochsPass, M365Of!None
    <3>6. QED
      BY <1>0, <3>1, <3>2, <3>3, <3>4, <3>5 DEF M365Of!EpochsPass, M365Of!None
  <2>4. QED
    BY <1>0, <1>12, <2>2, <2>3
    DEF M365Of!Return, M365Of!IInv, M365Of!TokensIssued, M365Of!GrantIsCurrent,
        M365Of!OutagesNumbered, M365Of!NeedsLoginIsTrue, M365Of!NeedsLoginIsTold
<1>13. ASSUME NEW l \in SignIns, NEW who \in People, M365Of!Redeem(l, who)
       PROVE  M365Of!IInv'
  <2> DEFINE g == M365Of!Grant(who, m365Login[l].app)
  <2>1. /\ m365Login[l].at = "redeeming" /\ M365Of!Issue(g)
        /\ m365Login' = [m365Login EXCEPT ![l] = M365Of!Ended]
        /\ UNCHANGED <<m365Mailbox, m365Refresh, m365Epoch, m365Form, m365Revoked>>
        /\ UNCHANGED <<m365Failures, m365Notes, m365Torn, m365Behind>>
    BY <1>13 DEF M365Of!Redeem, M365Of!Redeemed
  <2>2. /\ g \in [who : People, app : Apps, first : Nat]
        /\ g.app = m365Login[l].app
    <3>1. m365Login[l].app \in Apps /\ M365Of!Fresh \in Nat
      BY <1>0, <2>1 DEF M365Of!EpochsPass, M365Of!TokensIssued, M365Of!Fresh
    <3>2. QED
      BY <3>1 DEF M365Of!Grant
  <2>3. M365Of!PlacesOK' /\ M365Of!EpochsPass'
    BY <1>0, <2>1 DEF M365Of!PlacesOK, M365Of!EpochsPass, M365Of!Ended, M365Of!None
  <2>4. M365Of!Fresh \in Nat
    BY <2>1, <2>2, TokenIssued
  <2>5. \/ UNCHANGED <<m365Account, m365Cache>>
        \/ /\ m365Account' = M365Of!Connected(who) /\ m365Account.app = g.app
           /\ m365Cache' = M365Of!Fresh
    BY <1>13, <2>2 DEF M365Of!Redeem
  <2>6. CASE m365Account' = M365Of!Connected(who)
    <3>1. (m365Account.who = who /\ m365Account.manual) \in BOOLEAN
      OBVIOUS
    <3>2. m365Account \in M365Of!Rows(M365Of!Fresh) /\ M365Of!Fresh \in 0..M365Of!Fresh
      <4>1. m365Account \in M365Of!Rows(Len(m365Grants)) /\ Len(m365Grants) \in Nat
            /\ M365Of!Fresh = Len(m365Grants) + 1
        BY <1>0 DEF M365Of!TokensIssued, M365Of!Fresh
      <4>2. 0..Len(m365Grants) \subseteq 0..M365Of!Fresh /\ M365Of!Fresh \in 0..M365Of!Fresh
        BY <4>1
      <4>3. QED
        BY <4>1, <4>2 DEF M365Of!Rows
    <3>3. /\ m365Account' \in M365Of!Rows(M365Of!Fresh)
          /\ m365Account'.state = "connected" /\ m365Account'.token = M365Of!Fresh
          /\ m365Account'.error = M365Of!Cleared /\ m365Account'.app = m365Account.app
      BY <2>6, <3>1, <3>2, RowValues DEF M365Of!Connected, M365Of!Rows
    <3>4. QED
      BY <1>0, <2>1, <2>2, <2>3, <2>5, <3>3, TokenKept
  <2>7. CASE UNCHANGED <<m365Account, m365Cache>>
    BY <1>0, <2>1, <2>2, <2>3, <2>7, TokenKept
  <2>8. QED
    BY <2>5, <2>6, <2>7
<1>14. ASSUME M365Of!Refreshed
       PROVE  M365Of!IInv'
  <2> DEFINE g == m365Grants[m365Refresh.used]
  <2>1. /\ m365Refresh # M365Of!Resting /\ M365Of!Issue(g) /\ m365Refresh' = M365Of!Resting
        /\ UNCHANGED <<m365Mailbox, m365Login, m365Epoch, m365Form, m365Revoked>>
        /\ UNCHANGED <<m365Failures, m365Notes, m365Torn, m365Behind>>
    BY <1>14 DEF M365Of!Refreshed, M365Of!Answered
  <2>2. m365Refresh.used \in 1..Len(m365Grants) /\ g \in [who : People, app : Apps, first : Nat]
    <3>1. /\ m365Grants \in Seq([who : People, app : Apps, first : Nat])
          /\ m365Refresh.used \in 0..Len(m365Grants) /\ m365Refresh.used # 0
      BY <1>0, <2>1 DEF M365Of!TokensIssued
    <3>2. m365Refresh.used \in 1..Len(m365Grants)
      BY <3>1
    <3>3. QED
      BY <3>1, <3>2, GrantOfToken
  <2>3. M365Of!PlacesOK' /\ M365Of!EpochsPass'
    BY <1>0, <2>1 DEF M365Of!PlacesOK, M365Of!EpochsPass
  <2>4. M365Of!Fresh \in Nat
    BY <2>1, <2>2, TokenIssued
  <2>5. \/ UNCHANGED <<m365Account, m365Cache>>
        \/ /\ M365Of!Keep /\ m365Account.token = m365Refresh.used
    BY <1>14 DEF M365Of!Refreshed, M365Of!Replaced
  <2>6. CASE M365Of!Keep /\ m365Account.token = m365Refresh.used
    <3>1. m365Account.app = g.app
      BY <1>0, <2>2, <2>6 DEF M365Of!GrantIsCurrent
    <3>2. m365Account \in M365Of!Rows(M365Of!Fresh) /\ M365Of!Fresh \in 0..M365Of!Fresh
      <4>1. m365Account \in M365Of!Rows(Len(m365Grants)) /\ Len(m365Grants) \in Nat
            /\ M365Of!Fresh = Len(m365Grants) + 1
        BY <1>0 DEF M365Of!TokensIssued, M365Of!Fresh
      <4>2. 0..Len(m365Grants) \subseteq 0..M365Of!Fresh /\ M365Of!Fresh \in 0..M365Of!Fresh
        BY <4>1
      <4>3. QED
        BY <4>1, <4>2 DEF M365Of!Rows
    <3>3. /\ m365Account' \in M365Of!Rows(M365Of!Fresh)
          /\ m365Account'.state = "connected" /\ m365Account'.token = M365Of!Fresh
          /\ m365Account'.error = M365Of!Cleared /\ m365Account'.app = g.app
          /\ m365Cache' = M365Of!Fresh
      BY <2>6, <3>1, <3>2, RowValues DEF M365Of!Keep, M365Of!Rows
    <3>4. QED
      BY <1>0, <2>1, <2>2, <2>3, <3>3, TokenKept
  <2>7. CASE UNCHANGED <<m365Account, m365Cache>>
    BY <1>0, <2>1, <2>2, <2>3, <2>7, TokenKept
  <2>8. QED
    BY <2>5, <2>6, <2>7
<1>15. ASSUME M365Of!Refused \/ M365Of!Failed
       PROVE  M365Of!IInv'
  <2>1. /\ m365Refresh # M365Of!Resting /\ m365Refresh' = M365Of!Resting
        /\ UNCHANGED <<m365Mailbox, m365Login, m365Epoch, m365Form, m365Grants, m365Revoked>>
        /\ UNCHANGED <<m365Torn, m365Behind>>
    BY <1>15 DEF M365Of!Refused, M365Of!Failed, M365Of!RefreshFails
  <2>2. M365Of!PlacesOK' /\ M365Of!EpochsPass'
    BY <1>0, <2>1 DEF M365Of!PlacesOK, M365Of!EpochsPass
  <2>3. \/ UNCHANGED <<m365Account, m365Failures, m365Notes, m365Cache>>
        \/ /\ m365Account.token = m365Refresh.used
           /\ \/ M365Of!Fail("needs_login", M365Of!Tells) /\ m365Grants[m365Refresh.used] \in m365Revoked
              \/ M365Of!Fail("error", FALSE)
    BY <1>15 DEF M365Of!Refused, M365Of!Failed, M365Of!Replaced, M365Of!Alive
  <2>4. CASE UNCHANGED <<m365Account, m365Failures, m365Notes, m365Cache>>
    BY <1>0, <2>1, <2>2, <2>4
    DEF M365Of!IInv, M365Of!TokensIssued, M365Of!GrantIsCurrent, M365Of!Resting, M365Of!None,
        M365Of!OutagesNumbered, M365Of!NeedsLoginIsTrue, M365Of!NeedsLoginIsTold
  <2>5. ASSUME NEW state \in {"needs_login", "error"}, NEW tells \in BOOLEAN,
               tells => M365Of!Tells, state = "needs_login" => tells = M365Of!Tells,
               M365Of!Fail(state, tells), m365Account.token = m365Refresh.used,
               state = "needs_login" => m365Grants[m365Refresh.used] \in m365Revoked
        PROVE  M365Of!IInv'
    <3>1. m365Account \in M365Of!Rows(Len(m365Grants))
          /\ \A n, k \in 1..Len(m365Notes) : m365Notes[n] = m365Notes[k] => n = k
      BY <1>0 DEF M365Of!TokensIssued, M365Of!NeedsLoginIsTold
    <3>2. /\ M365Of!OutagesNumbered'
          /\ m365Account' \in M365Of!Rows(Len(m365Grants)) /\ m365Account'.state = state
          /\ m365Account'.token = m365Account.token /\ m365Account'.app = m365Account.app
          /\ m365Cache' = 0
          /\ \A n, k \in 1..Len(m365Notes') : m365Notes'[n] = m365Notes'[k] => n = k
          /\ m365Account'.error.notified =>
               \E n \in 1..Len(m365Notes') : m365Notes'[n] = m365Account'.error.since
      BY <1>0, <2>5, <3>1, OutageNoted
    <3>3. state = "needs_login" => m365Account'.error.notified
      BY <2>5, <3>1 DEF M365Of!Fail, M365Of!Tells, M365Of!Rows
    <3>4. m365Account.token # 0
      BY <1>0, <2>1, <2>5 DEF M365Of!TokensIssued
    <3>5. M365Of!TokensIssued'
      BY <1>0, <2>1, <3>2, <3>4 DEF M365Of!TokensIssued, M365Of!Resting
    <3>6. M365Of!GrantIsCurrent' /\ M365Of!NeedsLoginIsTrue'
      BY <1>0, <2>1, <2>5, <3>2, <3>4 DEF M365Of!GrantIsCurrent, M365Of!NeedsLoginIsTrue
    <3>7. M365Of!NeedsLoginIsTold'
      BY <2>1, <3>2, <3>3 DEF M365Of!NeedsLoginIsTold
    <3>8. QED
      BY <2>2, <3>2, <3>5, <3>6, <3>7 DEF M365Of!IInv
  <2>6. M365Of!Tells \in BOOLEAN
    BY DEF M365Of!Tells
  <2>7. QED
    BY <2>3, <2>4, <2>5, <2>6
<1>16. ASSUME M365Of!Restart
       PROVE  M365Of!IInv'
  <2>1. /\ m365Cache' = 0 /\ m365Refresh' = M365Of!Resting /\ m365Form' = FALSE /\ m365Epoch' = 0
        /\ m365Login' = [l \in SignIns |-> M365Of!Ended] /\ m365Behind' = {}
        /\ UNCHANGED <<m365Mailbox, m365Grants, m365Revoked, m365Notes>>
    BY <1>16 DEF M365Of!Restart
  <2>2. M365Of!PlacesOK' /\ M365Of!EpochsPass'
    BY <1>0, <2>1 DEF M365Of!PlacesOK, M365Of!EpochsPass, M365Of!Ended, M365Of!None
  <2>3. CASE UNCHANGED <<m365Account, m365Failures, m365Torn>>
    BY <1>0, <2>1, <2>2, <2>3
    DEF M365Of!IInv, M365Of!TokensIssued, M365Of!GrantIsCurrent, M365Of!Resting, M365Of!None,
        M365Of!OutagesNumbered, M365Of!NeedsLoginIsTrue, M365Of!NeedsLoginIsTold
  <2>4. CASE /\ m365Refresh # M365Of!Resting /\ ~M365Of!Alive /\ ~M365Of!Replaced /\ M365Of!Tells
             /\ m365Account' = [m365Account EXCEPT !.state = "needs_login",
                                                   !.error.since = M365Of!Since]
             /\ m365Failures' = IF m365Account.error.since = 0 THEN m365Failures + 1 ELSE m365Failures
             /\ m365Torn' = m365Torn \cup {M365Of!Since}
    <3>1. /\ m365Failures \in Nat /\ m365Account.error.since \in 0..m365Failures
          /\ m365Notes \in Seq(1..m365Failures) /\ ~m365Account.error.notified
      BY <1>0, <2>4 DEF M365Of!OutagesNumbered, M365Of!Tells
    <3>2. /\ m365Failures' \in Nat /\ m365Failures <= m365Failures'
          /\ M365Of!Since \in 1..m365Failures' /\ M365Of!Since \in Nat
          /\ \A n \in 1..Len(m365Notes) : m365Notes[n] # M365Of!Since
      <4>1. CASE m365Account.error.since = 0
        <5>1. M365Of!Since = m365Failures + 1 /\ m365Failures' = m365Failures + 1
          BY <2>4, <4>1 DEF M365Of!Since
        <5>2. \A n \in 1..Len(m365Notes) : m365Notes[n] \in 1..m365Failures
          BY <3>1
        <5>3. QED
          BY <3>1, <5>1, <5>2
      <4>2. CASE m365Account.error.since # 0
        <5>1. M365Of!Since = m365Account.error.since /\ m365Failures' = m365Failures
          BY <2>4, <4>2 DEF M365Of!Since
        <5>2. QED
          BY <1>0, <3>1, <4>2, <5>1 DEF M365Of!OutagesNumbered
      <4>3. QED
        BY <4>1, <4>2
    <3>3. /\ m365Account' \in M365Of!Rows(Len(m365Grants))
          /\ m365Account'.state = "needs_login" /\ m365Account'.token = m365Account.token
          /\ m365Account'.app = m365Account.app /\ m365Account'.error.since = M365Of!Since
          /\ m365Account'.error.notified = m365Account.error.notified
      <4>1. m365Account \in M365Of!Rows(Len(m365Grants)) /\ m365Account.error \in M365Of!Errors
        BY <1>0 DEF M365Of!TokensIssued, M365Of!Rows
      <4>2. /\ [m365Account.error EXCEPT !.since = M365Of!Since] \in M365Of!Errors
            /\ [m365Account.error EXCEPT !.since = M365Of!Since].since = M365Of!Since
            /\ [m365Account.error EXCEPT !.since = M365Of!Since].notified = m365Account.error.notified
        BY <3>2, <4>1 DEF M365Of!Errors
      <4>3. /\ m365Account' \in M365Of!Rows(Len(m365Grants))
            /\ m365Account'.state = "needs_login" /\ m365Account'.token = m365Account.token
            /\ m365Account'.app = m365Account.app
            /\ m365Account'.error = [m365Account.error EXCEPT !.since = M365Of!Since]
        BY <2>4, <4>1, <4>2, RowValues DEF M365Of!Rows
      <4>4. QED
        BY <4>2, <4>3
    <3>4. /\ m365Account.token # 0 /\ m365Grants[m365Account.token] \in m365Revoked
      BY <1>0, <2>4 DEF M365Of!TokensIssued, M365Of!Replaced, M365Of!Alive
    <3>5. M365Of!TokensIssued'
      BY <1>0, <2>1, <3>3, <3>4 DEF M365Of!TokensIssued, M365Of!Resting, M365Of!None
    <3>6. M365Of!GrantIsCurrent' /\ M365Of!NeedsLoginIsTrue'
      BY <1>0, <2>1, <3>3, <3>4 DEF M365Of!GrantIsCurrent, M365Of!NeedsLoginIsTrue
    <3>7. m365Notes' \in Seq(1..m365Failures')
      BY <2>1, <3>1, <3>2
    <3>8. M365Of!OutagesNumbered'
      BY <2>1, <3>1, <3>2, <3>3, <3>7 DEF M365Of!OutagesNumbered
    <3>9. M365Of!NeedsLoginIsTold'
      BY <1>0, <2>1, <2>4, <3>3 DEF M365Of!NeedsLoginIsTold
    <3>10. QED
      BY <2>2, <3>5, <3>6, <3>8, <3>9 DEF M365Of!IInv
  <2>5. QED
    BY <1>16, <2>3, <2>4 DEF M365Of!Restart
<1>17. QED
  BY <1>1, <1>2, <1>3, <1>4, <1>5, <1>6, <1>7, <1>8, <1>9, <1>10, <1>11, <1>12, <1>13, <1>14, <1>15, <1>16 DEF M365Of!Next

(* A sign-in overtaken by a disconnection does not connect the account.    *)
LEMMA OvertakenStep ==
  ASSUME M365Of!IInv, M365Of!Next, NEW l \in m365Behind,
         m365Login[l].at = "redeeming", m365Login'[l] = M365Of!Ended, l \in SignIns
  PROVE  m365Account'.token \in {0, m365Account.token}
<1> USE DEF M365Of!tables, M365Of!memory, M365Of!ms, M365Of!history
<1>0. /\ m365Login[l].epoch < m365Epoch /\ m365Login[l].epoch \in Nat /\ m365Epoch \in Nat
      /\ m365Login = [m \in SignIns |-> m365Login[m]] /\ m365Login[l] # M365Of!Ended
      /\ m365Account \in M365Of!Rows(Len(m365Grants))
  BY DEF M365Of!IInv, M365Of!EpochsPass, M365Of!PlacesOK, M365Of!TokensIssued, M365Of!None, M365Of!Ended
<1>1. ASSUME NEW m \in SignIns, NEW who \in People, M365Of!Redeem(m, who)
      PROVE  m365Account'.token = m365Account.token
  <2>1. m = l
    BY <1>0, <1>1 DEF M365Of!Redeem, M365Of!Redeemed
  <2>2. m365Epoch # m365Login[l].epoch
    BY <1>0
  <2>3. QED
    BY <1>1, <2>1, <2>2 DEF M365Of!Redeem
<1>2. ASSUME M365Of!Disconnect \/ M365Of!Remove \/ \E app \in Apps : M365Of!Update(app)
      PROVE  m365Account'.token = 0
  BY <1>0, <1>2
  DEF M365Of!Disconnect, M365Of!Remove, M365Of!Update, M365Of!Disconnected, M365Of!Rows
<1>3. ASSUME M365Of!Refresh \/ M365Of!Expire \/ M365Of!Refreshed \/ M365Of!Refused \/ M365Of!Failed
             \/ M365Of!Revoke \/ M365Of!SetAddress \/ M365Of!OpenMailbox \/ M365Of!SaveMailbox
             \/ M365Of!RefuseMailbox \/ M365Of!RemoveMailbox
      PROVE  FALSE
  BY <1>0, <1>3
  DEF M365Of!Refresh, M365Of!Expire, M365Of!Refreshed, M365Of!Answered, M365Of!Refused, M365Of!Failed,
      M365Of!RefreshFails, M365Of!Revoke, M365Of!SetAddress, M365Of!OpenMailbox, M365Of!SaveMailbox,
      M365Of!RefuseMailbox, M365Of!RemoveMailbox
<1>4. ASSUME NEW m \in SignIns,
             \/ M365Of!LoginEnds(m)
             \/ \E s \in Browsers : M365Of!StartLogin(m, s) \/ M365Of!Return(m, s)
      PROVE  m365Account'.token = m365Account.token
  BY <1>4 DEF M365Of!LoginEnds, M365Of!StartLogin, M365Of!Return
<1>5. CASE M365Of!Restart
  BY <1>0, <1>5 DEF M365Of!Restart, M365Of!Rows
<1>6. QED
  BY <1>1, <1>2, <1>3, <1>4, <1>5 DEF M365Of!Next

(* The account begins well.                                                *)
LEMMA M365Begins == M365Of!Init => M365Of!IInv
<1> SUFFICES ASSUME M365Of!Init PROVE M365Of!IInv
  OBVIOUS
<1>1. PICK app \in Apps :
        m365Account = [there |-> TRUE, app |-> app, state |-> "new", token |-> 0,
                       who |-> M365Of!None, manual |-> FALSE, error |-> M365Of!Cleared]
  BY DEF M365Of!Init
<1>2. m365Grants = <<>> /\ Len(m365Grants) = 0 /\ 0 \in 0..0 /\ TRUE \in BOOLEAN /\ FALSE \in BOOLEAN
  BY DEF M365Of!Init
<1>3. m365Account \in M365Of!Rows(0)
  BY <1>1, <1>2, RowValues DEF M365Of!Rows
<1>4. M365Of!PlacesOK
  BY DEF M365Of!Init, M365Of!PlacesOK, M365Of!Ended, M365Of!None
<1>5. M365Of!TokensIssued
  BY <1>1, <1>2, <1>3, TokensAssumption DEF M365Of!Init, M365Of!TokensIssued, M365Of!Resting, M365Of!None
<1>6. M365Of!OutagesNumbered
  BY <1>1 DEF M365Of!Init, M365Of!OutagesNumbered, M365Of!Cleared
<1>7. QED
  BY <1>1, <1>4, <1>5, <1>6
  DEF M365Of!Init, M365Of!IInv, M365Of!GrantIsCurrent, M365Of!EpochsPass, M365Of!NeedsLoginIsTrue,
      M365Of!NeedsLoginIsTold, M365Of!Ended, M365Of!None

(* Its types follow from what holds.                                       *)
LEMMA M365Types == M365Of!IInv => M365Of!TypeOK
<1> SUFFICES ASSUME M365Of!IInv PROVE M365Of!TypeOK
  OBVIOUS
<1>1. /\ m365Grants \in Seq([who : People, app : Apps, first : Nat])
      /\ Len(m365Grants) \in Nat /\ Len(m365Grants) <= MaxTokens
      /\ m365Account \in M365Of!Rows(Len(m365Grants))
      /\ m365Cache \in 0..Len(m365Grants) /\ m365Refresh.used \in 0..Len(m365Grants)
  BY DEF M365Of!IInv, M365Of!TokensIssued
<1>2. m365Account.token \in 0..MaxTokens /\ m365Cache \in 0..MaxTokens /\ m365Refresh.used \in 0..MaxTokens
  BY <1>1, TokensAssumption DEF M365Of!Rows
<1>3. ASSUME NEW n \in 1..Len(m365Grants)
      PROVE  m365Grants[n].who \in People /\ m365Grants[n].app \in Apps
  <2>1. m365Grants[n] \in [who : People, app : Apps, first : Nat]
    BY <1>1, GrantOfToken
  <2>2. QED
    BY <2>1
<1>4. QED
  BY <1>1, <1>2, <1>3 DEF M365Of!IInv, M365Of!TypeOK, M365Of!PlacesOK, M365Of!Rows

LEMMA M365Stays ==
  ASSUME M365Of!IInv, M365Of!Next \/ UNCHANGED m365Vars
  PROVE  M365Of!IInv'
<1>1. CASE M365Of!Next
  BY <1>1, M365Step
<1>2. CASE UNCHANGED m365Vars
  BY <1>2
  DEF m365Vars, M365Of!IInv, M365Of!PlacesOK, M365Of!TokensIssued, M365Of!Rows, M365Of!GrantIsCurrent,
      M365Of!EpochsPass, M365Of!OutagesNumbered, M365Of!NeedsLoginIsTrue, M365Of!NeedsLoginIsTold
<1>3. QED
  BY <1>1, <1>2

-----------------------------------------------------------------------------
(* Forms of integrations. *)

(* A form as it is read: only secrets it uses are typed in, a way of       *)
(* signing in is its own secret, and the simple mode keeps the rest.       *)
LEMMA FormRead ==
  ASSUME FormsOf!RowOK, NEW t \in Tabs, NEW g \in FormsOf!Forms(formsRow.kind)
  PROVE  /\ FormsOf!Sent(t, g).typed \subseteq DOMAIN FormsOf!Sent(t, g).uses
         /\ formsRow.kind = "incoming" =>
              \A way \in DOMAIN FormsOf!Sent(t, g).uses : FormsOf!Sent(t, g).uses[way] = way
         /\ formsTab[t].simple => FormsOf!Sent(t, g).rest = formsRow.rest
<1>1. PICK u \in FormsOf!Uses(formsRow.kind) :
        g \in [uses : {u}, typed : SUBSET DOMAIN u, choice : Listed \cup Unlisted, rest : Rests]
  BY DEF FormsOf!Forms
<1>2. /\ g.uses = u /\ g.typed \subseteq DOMAIN u
      /\ g = [uses |-> g.uses, typed |-> g.typed, choice |-> g.choice, rest |-> g.rest]
  BY <1>1
<1>3. formsRow.kind = "incoming" => \A way \in DOMAIN u : u[way] = way
  BY <1>1 DEF FormsOf!Uses, FormsOf!Auths
<1>4. CASE ~formsTab[t].simple
  BY <1>2, <1>3, <1>4 DEF FormsOf!Sent
<1>5. CASE formsTab[t].simple
  <2> DEFINE uses == IF formsRow.kind = "incoming" THEN [way \in PresetWays |-> way] ELSE formsRow.uses
  <2>1. FormsOf!Sent(t, g) = [g EXCEPT !.rest = formsRow.rest, !.uses = uses, !.typed = @ \cap DOMAIN uses]
    BY <1>5 DEF FormsOf!Sent, FormsOf!FromSimple
  <2>2. /\ FormsOf!Sent(t, g).rest = formsRow.rest /\ FormsOf!Sent(t, g).uses = uses
        /\ FormsOf!Sent(t, g).typed = g.typed \cap DOMAIN uses
    BY <1>2, <2>1
  <2>3. formsRow.kind = "incoming" => \A way \in DOMAIN uses : uses[way] = way
    OBVIOUS
  <2>4. QED
    BY <2>2, <2>3
<1>6. QED
  BY <1>4, <1>5

(* A complete form takes over secrets that are saved for the same use.     *)
LEMMA FormBuilt ==
  ASSUME FormsOf!RowOK, NEW f, NEW simple, FormsOf!Complete(f),
         simple => f.rest = formsRow.rest
  PROVE  /\ FormsOf!TakesOver(FormsOf!Built(f, simple))
         /\ formsRow.kind = "incoming" =>
              \A ref \in DOMAIN f.uses \ f.typed :
                /\ ref \in DOMAIN FormsOf!Built(f, simple).carried /\ ref \in DOMAIN formsRow.secrets
                /\ FormsOf!Built(f, simple).carried[ref] = ref
<1> DEFINE b == FormsOf!Built(f, simple)
<1>1. /\ b.uses = f.uses /\ b.typed = f.typed /\ b.rest = f.rest /\ b.simple = simple
      /\ b.carried = [ref \in DOMAIN f.uses \ f.typed |->
                        CHOOSE r \in FormsOf!OldRef(f.uses[ref], ref) : TRUE]
  BY DEF FormsOf!Built
<1>2. ASSUME NEW ref \in DOMAIN f.uses \ f.typed
      PROVE  ref \in DOMAIN b.carried /\ b.carried[ref] \in FormsOf!OldRef(f.uses[ref], ref)
  <2>1. FormsOf!OldRef(f.uses[ref], ref) # {}
    BY DEF FormsOf!Complete
  <2>2. QED
    BY <1>1, <2>1
<1>3. formsRow.kind = "mailbox" => FormsOf!SameServer(b)
  BY <1>1 DEF FormsOf!Complete, FormsOf!SameServer
<1>4. ASSUME NEW ref \in DOMAIN f.uses \ f.typed, formsRow.kind = "outgoing"
      PROVE  /\ b.carried[ref] \in DOMAIN formsRow.uses \cap DOMAIN formsRow.secrets
             /\ formsRow.uses[b.carried[ref]] = f.uses[ref]
  BY <1>2, <1>4 DEF FormsOf!OldRef
<1>5. ASSUME NEW ref \in DOMAIN f.uses \ f.typed, formsRow.kind = "incoming"
      PROVE  b.carried[ref] = ref /\ ref \in DOMAIN formsRow.secrets
  BY <1>2, <1>5 DEF FormsOf!OldRef
<1>6. FormsOf!TakesOver(b)
  BY <1>1, <1>2, <1>3, <1>4 DEF FormsOf!TakesOver
<1>7. QED
  BY <1>2, <1>5, <1>6

(* A save keeps every secret with what it was typed for.                   *)
LEMMA FormSaved ==
  ASSUME FormsOf!IInv, formsRow # FormsOf!None, NEW t \in Tabs, NEW b, FormsOf!Save(t, b),
         ~formsCrossed => FormsOf!TakesOver(b),
         formsRow.kind = "incoming" =>
           /\ b.typed \subseteq DOMAIN b.uses /\ \A way \in DOMAIN b.uses : b.uses[way] = way
           /\ \A ref \in DOMAIN b.carried : b.carried[ref] = ref
           /\ \A ref \in DOMAIN b.uses \ b.typed :
                /\ ref \in DOMAIN b.carried /\ ref \in DOMAIN formsRow.secrets
  PROVE  FormsOf!IInv'
<1>0. /\ FormsOf!RowOK /\ formsTab = [o \in Tabs |-> formsTab[o]]
      /\ \A o \in Tabs : /\ formsTab[o].kind \in {"none", "page", "form"}
                         /\ FormsOf!Waits(o) => formsRow.kind # "incoming"
      /\ ~formsCrossed => FormsOf!Fit /\ FormsOf!SimpleKeepsRest
  BY DEF FormsOf!IInv
<1>1. /\ formsRow' = [formsRow EXCEPT !.uses = b.uses, !.secrets = FormsOf!Secrets(b),
                                      !.choice = b.choice, !.rest = b.rest]
      /\ formsChosen' = IF b.simple THEN formsChosen ELSE b.rest
      /\ formsCrossed' = (formsCrossed \/ \E o \in Tabs \ {t} : formsTab[o].kind = "form")
      /\ formsTab' = [formsTab EXCEPT ![t] = FormsOf!None]
  BY DEF FormsOf!Save
<1>2. /\ formsRow'.kind = formsRow.kind /\ formsRow'.uses = b.uses
      /\ formsRow'.secrets = FormsOf!Secrets(b) /\ formsRow'.rest = b.rest
      /\ formsRow' = [kind |-> formsRow'.kind, uses |-> formsRow'.uses, secrets |-> formsRow'.secrets,
                      choice |-> formsRow'.choice, rest |-> formsRow'.rest]
  BY <1>0, <1>1 DEF FormsOf!RowOK
<1>3. /\ formsRow.kind \in {"outgoing", "incoming"} =>
           FormsOf!Secrets(b) =
             [ref \in b.typed \cup {r \in DOMAIN b.carried : b.carried[r] \in DOMAIN formsRow.secrets} |->
                IF ref \in b.typed THEN b.uses[ref] ELSE formsRow.secrets[b.carried[ref]]]
      /\ formsRow.kind = "mailbox" =>
           FormsOf!Secrets(b) = IF b.typed = {} THEN formsRow.secrets ELSE b.uses
  BY DEF FormsOf!Secrets
<1>4. FormsOf!RowOK'
  <2>1. formsRow'.kind = "incoming" => \A way \in DOMAIN formsRow'.secrets : formsRow'.secrets[way] = way
    BY <1>0, <1>2, <1>3 DEF FormsOf!RowOK
  <2>2. QED
    BY <1>0, <1>2, <2>1 DEF FormsOf!RowOK
<1>5. formsRow' # FormsOf!None
  BY <1>0, <1>2 DEF FormsOf!None, FormsOf!RowOK, FormsOf!Kinds
<1>6. ASSUME NEW o \in Tabs
      PROVE  /\ formsTab'[o].kind \in {"none", "page", "form"}
             /\ FormsOf!Waits(o)' => formsRow'.kind # "incoming"
             /\ ~formsCrossed' => ~FormsOf!Waits(o)'
  <2>1. formsTab'[o] = IF o = t THEN FormsOf!None ELSE formsTab[o]
    BY <1>0, <1>1
  <2>2. QED
    BY <1>0, <1>1, <1>2, <2>1 DEF FormsOf!Waits, FormsOf!None
<1>7. ASSUME ~formsCrossed'
      PROVE  FormsOf!Fit' /\ FormsOf!SimpleKeepsRest'
  <2>0. ~formsCrossed
    BY <1>1, <1>7
  <2>1. FormsOf!TakesOver(b) /\ FormsOf!Fit /\ FormsOf!SimpleKeepsRest
    BY <1>0, <2>0
  <2>2. FormsOf!SimpleKeepsRest'
    BY <1>1, <1>2, <2>0, <2>1 DEF FormsOf!SimpleKeepsRest, FormsOf!TakesOver
  <2>3. ASSUME NEW ref \in DOMAIN b.uses
        PROVE  ref \in DOMAIN FormsOf!Secrets(b) /\ FormsOf!Secrets(b)[ref] = b.uses[ref]
    <3>1. CASE formsRow.kind = "outgoing"
      BY <1>3, <2>1, <3>1 DEF FormsOf!TakesOver, FormsOf!Fit
    <3>2. CASE formsRow.kind = "incoming"
      BY <1>0, <1>3, <3>2 DEF FormsOf!RowOK
    <3>3. CASE formsRow.kind = "mailbox"
      <4>1. CASE b.typed = {}
        <5>1. b.uses # <<>>
          OBVIOUS
        <5>2. formsRow.uses = b.uses
          BY <2>1, <3>3, <4>1, <5>1 DEF FormsOf!TakesOver, FormsOf!SameServer
        <5>3. QED
          BY <1>3, <2>1, <3>3, <4>1, <5>2 DEF FormsOf!Fit
      <4>2. CASE b.typed # {}
        BY <1>3, <3>3, <4>2
      <4>3. QED
        BY <4>1, <4>2
    <3>4. QED
      BY <1>0, <3>1, <3>2, <3>3 DEF FormsOf!RowOK, FormsOf!Kinds
  <2>4. QED
    BY <1>2, <2>2, <2>3 DEF FormsOf!Fit
<1>8. formsTab' = [o \in Tabs |-> formsTab'[o]]
  BY <1>0, <1>1
<1>9. QED
  BY <1>4, <1>5, <1>6, <1>7, <1>8 DEF FormsOf!IInv

(* What a step of the forms leaves of them.                                *)
LEMMA FormsStep ==
  ASSUME FormsOf!IInv, FormsOf!Next
  PROVE  FormsOf!IInv'
<1>0. /\ formsRow = FormsOf!None \/ FormsOf!RowOK
      /\ formsTab = [o \in Tabs |-> formsTab[o]]
      /\ \A o \in Tabs : /\ formsTab[o].kind \in {"none", "page", "form"}
                         /\ FormsOf!Waits(o) => formsRow # FormsOf!None /\ formsRow.kind # "incoming"
      /\ ~formsCrossed => /\ FormsOf!Fit /\ FormsOf!SimpleKeepsRest
                          /\ \A o \in Tabs : FormsOf!Waits(o) => FormsOf!TakesOver(formsTab[o])
  BY DEF FormsOf!IInv
<1>1. ASSUME NEW kind \in FormsOf!Kinds, NEW f \in FormsOf!Forms(kind), FormsOf!Create(kind, f)
      PROVE  FormsOf!IInv'
  <2>1. /\ formsRow = FormsOf!None /\ formsChosen' = f.rest
        /\ formsRow' = [kind |-> kind, uses |-> f.uses, secrets |-> f.uses, choice |-> f.choice,
                        rest |-> f.rest]
        /\ UNCHANGED <<formsTab, formsCrossed>>
    BY <1>1 DEF FormsOf!Create
  <2>2. kind = "incoming" => \A way \in DOMAIN f.uses : f.uses[way] = way
    <3>1. PICK u \in FormsOf!Uses(kind) :
            f \in [uses : {u}, typed : SUBSET DOMAIN u, choice : Listed \cup Unlisted, rest : Rests]
      BY DEF FormsOf!Forms
    <3>2. QED
      BY <3>1 DEF FormsOf!Uses, FormsOf!Auths
  <2>3. FormsOf!RowOK' /\ FormsOf!Fit' /\ FormsOf!SimpleKeepsRest'
    BY <2>1, <2>2 DEF FormsOf!RowOK, FormsOf!Fit, FormsOf!SimpleKeepsRest
  <2>4. \A o \in Tabs : ~FormsOf!Waits(o)'
    BY <1>0, <2>1 DEF FormsOf!Waits
  <2>5. QED
    BY <1>0, <2>1, <2>3, <2>4 DEF FormsOf!IInv
<1>2. ASSUME NEW t \in Tabs, NEW place, formsTab' = [formsTab EXCEPT ![t] = place],
             UNCHANGED <<formsRow, formsChosen, formsCrossed>>, place.kind \in {"page", "form"},
             place.kind = "form" => /\ formsRow # FormsOf!None /\ formsRow.kind # "incoming"
                                    /\ FormsOf!TakesOver(place)
      PROVE  FormsOf!IInv'
  <2>1. \A o \in Tabs : formsTab'[o] = IF o = t THEN place ELSE formsTab[o]
    BY <1>0, <1>2
  <2>2. /\ formsRow' = FormsOf!None \/ FormsOf!RowOK'
        /\ ~formsCrossed' => FormsOf!Fit' /\ FormsOf!SimpleKeepsRest'
    BY <1>0, <1>2 DEF FormsOf!RowOK, FormsOf!Fit, FormsOf!SimpleKeepsRest
  <2>3. ASSUME NEW o \in Tabs
        PROVE  /\ formsTab'[o].kind \in {"none", "page", "form"}
               /\ FormsOf!Waits(o)' => formsRow' # FormsOf!None /\ formsRow'.kind # "incoming"
               /\ ~formsCrossed' /\ FormsOf!Waits(o)' => FormsOf!TakesOver(formsTab[o])'
    <3>1. CASE o = t
      BY <1>2, <2>1, <3>1 DEF FormsOf!Waits, FormsOf!TakesOver, FormsOf!SameServer
    <3>2. CASE o # t
      BY <1>0, <1>2, <2>1, <3>2 DEF FormsOf!Waits, FormsOf!TakesOver, FormsOf!SameServer
    <3>3. QED
      BY <3>1, <3>2
  <2>4. formsTab' = [o \in Tabs |-> formsTab'[o]]
    BY <1>0, <1>2
  <2>5. QED
    BY <2>2, <2>3, <2>4 DEF FormsOf!IInv
<1>3. ASSUME NEW t \in Tabs, NEW simple \in BOOLEAN, FormsOf!Open(t, simple)
      PROVE  FormsOf!IInv'
  BY <1>2, <1>3 DEF FormsOf!Open
<1>4. ASSUME NEW t \in Tabs, FormsOf!Refused(t)
      PROVE  FormsOf!IInv'
  BY <1>2, <1>4 DEF FormsOf!Refused
<1>5. ASSUME NEW t \in Tabs, formsRow # FormsOf!None, NEW g \in FormsOf!Forms(formsRow.kind),
             FormsOf!Post(t, g)
      PROVE  FormsOf!IInv'
  <2> DEFINE f == FormsOf!Sent(t, g)
             b == FormsOf!Built(f, formsTab[t].simple)
  <2>1. FormsOf!RowOK
    BY <1>0, <1>5
  <2>2. FormsOf!Complete(f)
    BY <1>5 DEF FormsOf!Post
  <2>3. /\ f.typed \subseteq DOMAIN f.uses
        /\ formsRow.kind = "incoming" => \A way \in DOMAIN f.uses : f.uses[way] = way
        /\ formsTab[t].simple => f.rest = formsRow.rest
    BY <2>1, FormRead
  <2>4. /\ FormsOf!TakesOver(b)
        /\ formsRow.kind = "incoming" =>
             \A ref \in DOMAIN f.uses \ f.typed :
               ref \in DOMAIN b.carried /\ ref \in DOMAIN formsRow.secrets /\ b.carried[ref] = ref
    BY <2>1, <2>2, <2>3, FormBuilt
  <2>5. /\ b.kind = "form" /\ b.uses = f.uses /\ b.typed = f.typed
        /\ DOMAIN b.carried = DOMAIN f.uses \ f.typed
    BY DEF FormsOf!Built
  <2>6. CASE formsRow.kind = "incoming"
    <3>1. FormsOf!Save(t, b)
      BY <1>5, <2>6 DEF FormsOf!Post
    <3>2. QED
      BY <1>5, <2>3, <2>4, <2>5, <3>1, FormSaved
  <2>7. CASE formsRow.kind # "incoming"
    <3>1. formsTab' = [formsTab EXCEPT ![t] = b] /\ UNCHANGED <<formsRow, formsChosen, formsCrossed>>
      BY <1>5, <2>7 DEF FormsOf!Post
    <3>2. QED
      BY <1>2, <1>5, <2>4, <2>5, <2>7, <3>1
  <2>8. QED
    BY <2>6, <2>7
<1>6. ASSUME NEW t \in Tabs, FormsOf!Resolved(t)
      PROVE  FormsOf!IInv'
  <2>1. FormsOf!Waits(t) /\ FormsOf!Save(t, formsTab[t])
    BY <1>6 DEF FormsOf!Resolved, FormsOf!Waits
  <2>2. formsRow # FormsOf!None /\ formsRow.kind # "incoming"
    BY <1>0, <2>1
  <2>3. ~formsCrossed => FormsOf!TakesOver(formsTab[t])
    BY <1>0, <2>1
  <2>4. QED
    BY <2>1, <2>2, <2>3, FormSaved
<1>7. QED
  BY <1>1, <1>3, <1>4, <1>5, <1>6 DEF FormsOf!Next

LEMMA FormsBegin == FormsOf!Init => FormsOf!IInv
BY DEF FormsOf!Init, FormsOf!IInv, FormsOf!None, FormsOf!Fit, FormsOf!SimpleKeepsRest, FormsOf!Waits

LEMMA FormsStay ==
  ASSUME FormsOf!IInv, FormsOf!Next \/ UNCHANGED formsVars
  PROVE  FormsOf!IInv'
<1>1. CASE FormsOf!Next
  BY <1>1, FormsStep
<1>2. CASE UNCHANGED formsVars
  BY <1>2
  DEF formsVars, FormsOf!IInv, FormsOf!RowOK, FormsOf!Fit, FormsOf!SimpleKeepsRest, FormsOf!Waits,
      FormsOf!TakesOver, FormsOf!SameServer
<1>3. QED
  BY <1>1, <1>2

-----------------------------------------------------------------------------
(* The panel: every component begins well and stays so, whether it moves   *)
(* or another one does.                                                    *)

(* Passwords that are being checked count as if they had failed.           *)
LEMMA SignInHoldsAll ==
  SignInHolds => SignInOf!IInv /\ SignInOf!SessionsAreCurrent /\ SignInOf!FailuresBounded
<1> SUFFICES ASSUME SignInHolds
             PROVE  SignInOf!IInv /\ SignInOf!SessionsAreCurrent /\ SignInOf!FailuresBounded
  OBVIOUS
<1>1. SignInOf!TypeOK /\ SignInOf!SomebodyStays /\ \A l \in Logins : SignInOf!LoginOK(l)
  BY DEF SignInHolds, SignInTypes, LoginsSound
<1>2. signInFailures + SignInOf!Cardinality(SignInOf!Checking) < MaxFailures + SignInOf!Cardinality(Logins)
  BY SameCount DEF SignInHolds, AttemptsHold, Attempts
<1>3. SignInOf!IInv
  BY <1>1, <1>2 DEF SignInOf!IInv
<1>4. SignInOf!SessionsAreCurrent
  BY <1>1 DEF SignInOf!SessionsAreCurrent, SignInOf!LoginOK, SignInOf!At, SignInOf!Owner
<1>5. SignInOf!FailuresBounded
  <2>1. SignInOf!Checking \in SUBSET Logins
    BY DEF SignInOf!Checking
  <2>2. SignInOf!Cardinality(SignInOf!Checking) \in Nat /\ SignInOf!Cardinality(Logins) \in Nat
    BY <2>1, SomeLogins, SameCount
  <2>3. signInFailures \in Nat /\ MaxFailures \in Nat
    BY <1>1, SignInAssumption DEF SignInOf!TypeOK
  <2>4. QED
    BY <1>2, <2>2, <2>3 DEF SignInOf!FailuresBounded
<1>6. QED
  BY <1>3, <1>4, <1>5

LEMMA CertificatesBegin ==
  ASSUME CertificatesOf!Init
  PROVE  CertificatesHold
BY SwapsAssumption, MarksAreNoCredentials
DEF CertificatesOf!Init, CertificatesHold, CertificatesOf!TypeOK, CertificatesOf!CallsAreCurrent,
    InspectedWithReason,
    CertificatesOf!Credentials, CertificatesOf!None, CertificatesOf!Actors

LEMMA CertificatesStay ==
  ASSUME CertificatesHold, CertificatesOf!Next \/ UNCHANGED certVars
  PROVE  CertificatesHold'
<1>1. CASE CertificatesOf!Next
  BY <1>1, CertificatesStep
<1>2. CASE UNCHANGED certVars
  BY <1>2
  DEF certVars, CertificatesHold, CertificatesOf!TypeOK, CertificatesOf!CallsAreCurrent,
      InspectedWithReason, CertificatesOf!Overtaken
<1>3. QED
  BY <1>1, <1>2

LEMMA KeysBegin == KeysOf!Init => KeysOf!IInv
BY DEF KeysOf!Init, KeysOf!IInv, KeysOf!TypeOK, KeysOf!ChannelHasKey, KeysOf!FormOK, KeysOf!Live,
       KeysOf!NoForm, KeysOf!None, KeysOf!Channel

LEMMA KeysStay ==
  ASSUME KeysOf!IInv, KeysOf!Next \/ UNCHANGED keysVars
  PROVE  KeysOf!IInv'
<1>1. CASE KeysOf!Next
  BY <1>1, KeysStep
<1>2. CASE UNCHANGED keysVars
  BY <1>2
  DEF keysVars, KeysOf!IInv, KeysOf!TypeOK, KeysOf!ChannelHasKey, KeysOf!FormOK, KeysOf!Live
<1>3. QED
  BY <1>1, <1>2

PanelInv ==
  /\ SignInHolds /\ CertificatesHold /\ KeysOf!IInv /\ M365Of!IInv /\ FormsOf!IInv

LEMMA PanelBegins == Init => PanelInv
BY SignInBegins, CertificatesBegin, KeysBegin, M365Begins, FormsBegin DEF Init, PanelInv

LEMMA PanelStays ==
  ASSUME PanelInv, [Next]_vars
  PROVE  PanelInv'
<1>1. /\ SignInOf!Next \/ UNCHANGED signInVars
      /\ CertificatesOf!Next \/ UNCHANGED certVars
      /\ KeysOf!Next \/ UNCHANGED keysVars
      /\ M365Of!Next \/ UNCHANGED m365Vars
      /\ FormsOf!Next \/ UNCHANGED formsVars
  BY DEF Next, SignInMoves, CertificatesMove, KeysMove, M365Moves, FormsMove, vars
<1>2. QED
  BY <1>1, SignInStays, CertificatesStay, KeysStay, M365Stays, FormsStay DEF PanelInv

(* What the proofs of this module rest on: in every behaviour of the panel *)
(* all five components keep what makes their properties inductive.         *)
THEOREM PanelHolds == Spec => []PanelInv
BY PanelBegins, PanelStays, PTL DEF Spec

(* Sign-in (server.ts, session.ts, throttle.ts, users.ts): a session       *)
(* belongs to a user who is there and to the password that holds; somebody *)
(* can always sign in; and attempts that wait for argon2 do not pass the   *)
(* throttle by more than the number of sign-ins.                           *)
THEOREM AccessStaysCurrent == Spec => []AccessIsCurrent
<1>1. PanelInv => AccessIsCurrent
  BY SignInHoldsAll DEF PanelInv, AccessIsCurrent, SignInOf!IInv
<1>2. QED
  BY <1>1, PanelHolds, PTL

(* Keys (keys.ts, accounts.ts, integrations.ts, notifications.ts): a key   *)
(* keeps to what its account has, and the channel of the notifications     *)
(* stands on a key that is not revoked.                                    *)
THEOREM KeysStayCovered == Spec => []KeysAreCovered
<1>1. PanelInv => KeysAreCovered
  BY DEF PanelInv, KeysAreCovered, KeysOf!IInv, KeysOf!KeysWithinAccount, KeysOf!Serves, KeysOf!Usable
<1>2. QED
  BY <1>1, PanelHolds, PTL

(* Forms (integrations.ts, integration-form.ts, simple-form.ts,            *)
(* mail-form.ts): a secret stays with what it was typed for, and the       *)
(* simple mode changes nothing that it does not show.                      *)
THEOREM SecretsNeverStray == Spec => []SecretsStay
<1>1. PanelInv => SecretsStay
  BY DEF PanelInv, SecretsStay, FormsOf!IInv, FormsOf!SecretsFit, FormsOf!SimpleKeepsRest
<1>2. QED
  BY <1>1, PanelHolds, PTL

(* Accounts (clients.ts, certificate.ts, accounts.ts): Multiinfo is asked  *)
(* only with the credentials that are saved, but for requests that waited  *)
(* for a connection when these changed; and a pause ends only with other   *)
(* ones, with a call by the saved ones that succeeded, or at the end of a  *)
(* probe or an inspection whose client was closed under it.                *)
THEOREM CredentialsAlwaysHold == Spec => CredentialsHold
<1>1. PanelInv => CertificatesOf!TypeOK /\ CertificatesOf!CallsAreCurrent
  BY DEF PanelInv, CertificatesHold
<1>2. ASSUME PanelInv, [Next]_vars
      PROVE  [~certActive /\ certActive' =>
                \/ certMaterial' # certMaterial
                \/ certMaterial \in certAccepted
                \/ \E p \in Pages :
                     CertificatesOf!Overtaken(p) /\ certPage[p] # "none" /\ certPage'[p] = "none"]_(CertificatesOf!vars)
  <2>1. CertificatesOf!Next \/ UNCHANGED certVars
    BY <1>2 DEF Next, SignInMoves, CertificatesMove, KeysMove, M365Moves, FormsMove, vars
  <2>2. CASE CertificatesOf!Next
    BY <1>2, <2>2, ResumedStep DEF PanelInv
  <2>3. CASE UNCHANGED certVars
    BY <2>3 DEF certVars
  <2>4. QED
    BY <2>1, <2>2, <2>3
<1>3. QED
  BY <1>1, <1>2, PanelHolds, PTL DEF Spec, CredentialsHold, CertificatesOf!ResumedForReason

(* Microsoft 365 (service.ts, tokens.ts): the tokens at hand are those of  *)
(* the grant and the application of the account; a login is asked for when *)
(* Microsoft refused that very grant, which is told once; and a sign-in    *)
(* overtaken by a disconnection does not connect the account.              *)
THEOREM AccountStaysTrue == Spec => AccountIsTrue
<1>1. PanelInv => /\ M365Of!TypeOK /\ M365Of!GrantIsCurrent
                  /\ M365Of!NeedsLoginIsTrue /\ M365Of!NeedsLoginIsTold
  BY M365Types DEF PanelInv, M365Of!IInv
<1>2. ASSUME PanelInv, [Next]_vars
      PROVE  [\A l \in m365Behind : m365Login[l].at = "redeeming" /\ m365Login'[l] = M365Of!Ended =>
                m365Account'.token \in {0, m365Account.token}]_(M365Of!vars)
  <2>1. M365Of!Next \/ UNCHANGED m365Vars
    BY <1>2 DEF Next, SignInMoves, CertificatesMove, KeysMove, M365Moves, FormsMove, vars
  <2>2. CASE M365Of!Next
    <3>1. M365Of!IInv /\ m365Behind \subseteq SignIns
      BY <1>2 DEF PanelInv, M365Of!IInv, M365Of!PlacesOK
    <3>2. QED
      BY <2>2, <3>1, OvertakenStep
  <2>3. CASE UNCHANGED m365Vars
    BY <2>3 DEF m365Vars
  <2>4. QED
    BY <2>1, <2>2, <2>3
<1>3. QED
  BY <1>1, <1>2, PanelHolds, PTL DEF Spec, AccountIsTrue, M365Of!DisconnectedStays
=============================================================================
