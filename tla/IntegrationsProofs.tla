------------------------- MODULE IntegrationsProofs -------------------------
(***************************************************************************)
(* Proofs about the components that turn events, calls, mails, tickets and *)
(* outcomes into SMS and reports, for every set of them; about the numbers *)
(* an SMS goes to, and the texts it carries, of any length.                *)
(***************************************************************************)
EXTENDS Integrations, FiniteSetTheorems, WellFoundedInduction, TLAPS

-----------------------------------------------------------------------------
(* Hooks. *)

(* The storm guard: what it admits is counted, what it turns away is told  *)
(* of once.                                                                *)
WindowCounted ==
  /\ hookWindow \in HooksOf!Window
  /\ hookPassed = hookWindow.calls
  /\ hookTold = IF hookWindow.notified THEN 1 ELSE 0

LEMMA GuardCounts ==
  ASSUME WindowCounted, HooksOf!Guard
  PROVE  WindowCounted'
<1>1. CASE HooksOf!Admits(hookWindow, 0)
  <2>1. /\ hookWindow' = [hookWindow EXCEPT !.calls = @ + 1, !.recipients = @ + 0]
        /\ hookPassed' = hookPassed + 1 /\ hookTold' = hookTold
    BY <1>1 DEF HooksOf!Guard, HooksOf!After, HooksOf!Tells
  <2>2. hookWindow.calls < HookLimit /\ hookWindow.recipients = 0
    BY <1>1, HooksAssumption DEF HooksOf!Admits, WindowCounted, HooksOf!Window
  <2>3. hookWindow.calls \in Nat /\ HookLimit \in Nat /\ hookWindow.notified \in BOOLEAN
    BY HooksAssumption DEF WindowCounted, HooksOf!Window
  <2>4. hookWindow' = [calls |-> hookWindow.calls + 1, recipients |-> 0, notified |-> hookWindow.notified]
    <3>1. hookWindow = [calls |-> hookWindow.calls, recipients |-> 0, notified |-> hookWindow.notified]
      BY <2>2 DEF WindowCounted, HooksOf!Window
    <3>2. hookWindow.recipients + 0 = 0
      BY <2>2
    <3>3. QED
      BY <2>1, <3>1, <3>2
  <2>5. hookWindow' \in HooksOf!Window
    BY <2>2, <2>3, <2>4 DEF HooksOf!Window
  <2>6. hookWindow'.calls = hookPassed' /\ hookWindow'.notified = hookWindow.notified
    BY <2>1, <2>4 DEF WindowCounted
  <2>7. QED
    BY <2>1, <2>5, <2>6 DEF WindowCounted
<1>2. CASE ~HooksOf!Admits(hookWindow, 0)
  <2>1. /\ hookWindow' = [hookWindow EXCEPT !.notified = TRUE]
        /\ hookPassed' = hookPassed
        /\ hookTold' = IF ~hookWindow.notified THEN hookTold + 1 ELSE hookTold
    BY <1>2 DEF HooksOf!Guard, HooksOf!After, HooksOf!Tells
  <2>2. hookWindow' = [calls |-> hookWindow.calls, recipients |-> hookWindow.recipients, notified |-> TRUE]
    BY <2>1 DEF WindowCounted, HooksOf!Window
  <2>3. hookWindow' \in HooksOf!Window
    BY <2>2 DEF WindowCounted, HooksOf!Window
  <2>4. hookTold' = 1
    BY <2>1 DEF WindowCounted
  <2>5. QED
    BY <2>1, <2>2, <2>3, <2>4 DEF WindowCounted
<1>3. QED
  BY <1>1, <1>2

(* Requests, their events and the SMS that were sent. *)
HooksTypes ==
  /\ hookRow \in {"on", "off", "gone"}
  /\ hookConfig \in HooksOf!Config
  /\ hookUsable \in BOOLEAN
  /\ hookTokens \subseteq Events
  /\ hookCall \in [Calls -> [at : HooksOf!Places, event : Events \cup {"none"}]]
  /\ hookSent \in [Events -> Nat]
  /\ hookDecided \subseteq Events /\ hookBroken \subseteq Events /\ hookRepeated \subseteq Events

EventsSound ==
  /\ HooksOf!SentOnce /\ HooksOf!TokensAreOwed
  /\ hookRow = "gone" => hookTokens = {}
  /\ \A c \in Calls : HooksOf!CallOK(c)
  /\ \A e \in Events : HooksOf!Open(e) => hookSent[e] = 0

LEMMA HooksParts == HooksOf!IInv <=> WindowCounted /\ HooksTypes /\ EventsSound
<1>1. ASSUME WindowCounted
      PROVE  hookPassed \in Nat /\ hookTold \in Nat
  BY <1>1, HooksAssumption DEF WindowCounted, HooksOf!Window
<1>2. QED
  BY <1>1 DEF HooksOf!IInv, WindowCounted, HooksTypes, EventsSound, HooksOf!TypeOK

(* Nothing but the window moves with the guard; every other step leaves    *)
(* the window alone or begins a new one.                                   *)
LEMMA WindowStep ==
  ASSUME WindowCounted, HooksOf!Next
  PROVE  WindowCounted'
<1>1. \/ HooksOf!Guard
      \/ UNCHANGED <<hookWindow, hookPassed, hookTold>>
      \/ hookWindow' = HooksOf!Fresh /\ hookPassed' = 0 /\ hookTold' = 0
  BY DEF HooksOf!Next, HooksOf!Arrive, HooksOf!Refuse, HooksOf!Skip, HooksOf!Duplicate,
         HooksOf!Throttled, HooksOf!Pass, HooksOf!Passes, HooksOf!Answered, HooksOf!Unanswered,
         HooksOf!Fails, HooksOf!Group, HooksOf!Forget, HooksOf!Switch, HooksOf!Remove,
         HooksOf!Usable, HooksOf!WindowPasses, HooksOf!Crash, HooksOf!past
<1>2. CASE hookWindow' = HooksOf!Fresh /\ hookPassed' = 0 /\ hookTold' = 0
  BY <1>2, HooksAssumption DEF WindowCounted, HooksOf!Fresh, HooksOf!Window
<1>3. CASE UNCHANGED <<hookWindow, hookPassed, hookTold>>
  BY <1>3 DEF WindowCounted
<1>4. QED
  BY <1>1, <1>2, <1>3, GuardCounts

(* The steps of a request. *)
LEMMA RequestStep ==
  ASSUME HooksTypes, EventsSound, NEW c \in Calls,
         \/ \E e \in Events : HooksOf!Arrive(c, e)
         \/ HooksOf!Refuse(c) \/ HooksOf!Skip(c) \/ HooksOf!Duplicate(c) \/ HooksOf!Throttled(c)
         \/ HooksOf!Pass(c) \/ HooksOf!Answered(c) \/ HooksOf!Unanswered(c)
  PROVE  HooksTypes' /\ EventsSound'
<1> USE DEF HooksOf!past, HooksOf!At, HooksOf!Event, HooksOf!Go, HooksOf!Leave, HooksOf!Asking,
            HooksOf!Resting, HooksOf!Decide, HooksOf!Ready
<1>0. /\ HooksTypes
      /\ HooksOf!SentOnce /\ HooksOf!TokensAreOwed
      /\ hookRow = "gone" => hookTokens = {}
      /\ \A d \in Calls : HooksOf!CallOK(d)
      /\ \A e \in Events : HooksOf!Open(e) => hookSent[e] = 0
  BY DEF EventsSound
<1>1. ASSUME NEW e \in Events, HooksOf!Arrive(c, e)
      PROVE  HooksTypes' /\ EventsSound'
  <2>1. /\ hookCall' = [hookCall EXCEPT ![c] = [at |-> "checking", event |-> e]]
        /\ hookConfig.kind = "hook" /\ hookCall[c].at = "idle"
        /\ UNCHANGED <<hookRow, hookConfig, hookUsable, hookTokens, hookSent, hookDecided, hookBroken, hookRepeated>>
    BY <1>1 DEF HooksOf!Arrive
  <2>2. HooksTypes'
    BY <1>0, <2>1 DEF HooksTypes, HooksOf!Places
  <2>3. QED
    BY <1>0, <2>1, <2>2 DEF HooksTypes, EventsSound, HooksOf!SentOnce, HooksOf!TokensAreOwed, HooksOf!CallOK, HooksOf!Open
<1>2. CASE HooksOf!Refuse(c) \/ HooksOf!Skip(c) \/ HooksOf!Duplicate(c) \/ HooksOf!Throttled(c)
  <2>1. /\ hookCall' = [hookCall EXCEPT ![c] = [at |-> "idle", event |-> "none"]]
        /\ hookCall[c].at = "checking" /\ hookCall[c].event \in Events
        /\ \/ hookTokens' = hookTokens
           \/ hookRow # "gone" /\ hookTokens' = hookTokens \cup {hookCall[c].event}
              /\ hookDecided' = hookDecided \cup {hookCall[c].event}
        /\ hookDecided' = hookDecided \/ hookDecided' = hookDecided \cup {hookCall[c].event}
        /\ hookRepeated' = hookRepeated \/ hookRepeated' = hookRepeated \cup {hookCall[c].event}
        /\ UNCHANGED <<hookRow, hookConfig, hookUsable, hookSent, hookBroken>>
    BY <1>0, <1>2 DEF HooksOf!Refuse, HooksOf!Skip, HooksOf!Duplicate, HooksOf!Throttled, HooksOf!CallOK
  <2>2. HooksTypes'
    BY <1>0, <2>1 DEF HooksTypes, HooksOf!Places
  <2>3. QED
    BY <1>0, <2>1, <2>2 DEF HooksTypes, EventsSound, HooksOf!SentOnce, HooksOf!TokensAreOwed, HooksOf!CallOK, HooksOf!Open
<1>3. CASE HooksOf!Pass(c)
  <2>1. /\ hookRow # "gone" /\ hookCall[c].event \in Events /\ hookConfig.kind = "hook"
        /\ hookCall[c].event \notin hookTokens
        /\ hookTokens' = hookTokens \cup {hookCall[c].event}
        /\ hookSent[hookCall[c].event] = 0
        /\ hookCall[c].at = "checking"
        /\ UNCHANGED <<hookRow, hookConfig, hookUsable, hookRepeated>>
    BY <1>0, <1>3 DEF HooksOf!Pass, HooksOf!Passes, HooksOf!CallOK, HooksOf!Open
  <2>2. CASE hookConfig.asks
    <3>1. /\ hookCall' = [hookCall EXCEPT ![c].at = "asking"]
          /\ UNCHANGED <<hookSent, hookDecided, hookBroken>>
      BY <1>3, <2>2 DEF HooksOf!Pass, HooksOf!Passes
    <3>2. HooksTypes'
      BY <1>0, <2>1, <3>1 DEF HooksTypes, HooksOf!Places
    <3>3. hookCall'[c].at = "asking" /\ hookCall'[c].event = hookCall[c].event
          /\ \A d \in Calls : d # c => hookCall'[d] = hookCall[d]
      BY <1>0, <3>1 DEF HooksTypes
    <3>4. \A d \in Calls : HooksOf!CallOK(d)'
      BY <1>0, <2>1, <3>1, <3>3 DEF HooksOf!CallOK
    <3>5. QED
      BY <1>0, <2>1, <3>1, <3>2, <3>3, <3>4 DEF HooksTypes, EventsSound, HooksOf!SentOnce, HooksOf!TokensAreOwed, HooksOf!Open
  <2>3. CASE ~hookConfig.asks
    <3>1. PICK sms \in 0..1 :
            /\ hookCall' = [hookCall EXCEPT ![c] = [at |-> "idle", event |-> "none"]]
            /\ hookDecided' = hookDecided \cup {hookCall[c].event}
            /\ hookSent' = [hookSent EXCEPT ![hookCall[c].event] = @ + sms]
            /\ hookBroken' = hookBroken
      BY <1>3, <2>1, <2>3 DEF HooksOf!Pass, HooksOf!Passes, HooksOf!Dispatch
    <3>2. HooksTypes'
      BY <1>0, <2>1, <3>1 DEF HooksTypes, HooksOf!Places
    <3>3. QED
      BY <1>0, <2>1, <3>1, <3>2 DEF HooksTypes, EventsSound, HooksOf!SentOnce, HooksOf!TokensAreOwed, HooksOf!CallOK, HooksOf!Open
  <2>4. QED
    BY <2>2, <2>3
<1>4. CASE HooksOf!Answered(c)
  <2>1. /\ hookCall' = [hookCall EXCEPT ![c] = [at |-> "idle", event |-> "none"]]
        /\ hookCall[c].at = "asking" /\ hookCall[c].event \in Events /\ hookConfig.kind = "hook"
        /\ UNCHANGED <<hookRow, hookConfig, hookUsable, hookTokens, hookRepeated>>
    BY <1>0, <1>4 DEF HooksOf!Answered, HooksOf!CallOK
  <2>2. CASE hookRow = "gone"
    <3>1. hookBroken' = hookBroken \cup {hookCall[c].event} /\ UNCHANGED <<hookSent, hookDecided>>
      BY <1>4, <2>2 DEF HooksOf!Answered, HooksOf!Dispatch
    <3>2. HooksTypes'
      BY <1>0, <2>1, <3>1 DEF HooksTypes, HooksOf!Places
    <3>3. QED
      BY <1>0, <2>1, <2>2, <3>1, <3>2 DEF HooksTypes, EventsSound, HooksOf!SentOnce, HooksOf!TokensAreOwed, HooksOf!CallOK, HooksOf!Open
  <2>3. CASE hookRow # "gone"
    <3>1. PICK sms \in 0..1 :
            /\ hookDecided' = hookDecided \cup {hookCall[c].event}
            /\ hookSent' = [hookSent EXCEPT ![hookCall[c].event] = @ + sms]
            /\ hookBroken' = hookBroken
      BY <1>4, <2>3 DEF HooksOf!Answered, HooksOf!Dispatch
    <3>2. HooksTypes'
      BY <1>0, <2>1, <3>1 DEF HooksTypes, HooksOf!Places
    <3>3. QED
      BY <1>0, <2>1, <2>3, <3>1, <3>2 DEF HooksTypes, EventsSound, HooksOf!SentOnce, HooksOf!TokensAreOwed, HooksOf!CallOK, HooksOf!Open
  <2>4. QED
    BY <2>2, <2>3
<1>5. CASE HooksOf!Unanswered(c)
  <2>1. /\ hookCall' = [hookCall EXCEPT ![c] = [at |-> "idle", event |-> "none"]]
        /\ hookCall[c].at = "asking" /\ hookCall[c].event \in Events /\ hookConfig.kind = "hook"
        /\ \/ hookTokens' = hookTokens /\ hookDecided' = hookDecided \cup {hookCall[c].event}
           \/ hookTokens' = hookTokens \ {hookCall[c].event} /\ hookDecided' = hookDecided
        /\ UNCHANGED <<hookRow, hookConfig, hookUsable, hookSent, hookBroken, hookRepeated>>
    BY <1>0, <1>5 DEF HooksOf!Unanswered, HooksOf!Fails, HooksOf!CallOK
  <2>2. HooksTypes'
    BY <1>0, <2>1 DEF HooksTypes, HooksOf!Places
  <2>3. QED
    BY <1>0, <2>1, <2>2 DEF HooksTypes, EventsSound, HooksOf!SentOnce, HooksOf!TokensAreOwed, HooksOf!CallOK, HooksOf!Open
<1>6. QED
  BY <1>1, <1>2, <1>3, <1>4, <1>5

(* The steps of groups, of the panel and of the clock. *)
LEMMA HooksStep ==
  ASSUME HooksTypes, EventsSound, HooksOf!Next
  PROVE  HooksTypes' /\ EventsSound'
<1> USE DEF HooksOf!past, HooksOf!At, HooksOf!Event, HooksOf!Asking, HooksOf!Resting, HooksOf!Decide
<1>0. /\ HooksTypes
      /\ HooksOf!SentOnce /\ HooksOf!TokensAreOwed
      /\ hookRow = "gone" => hookTokens = {}
      /\ \A d \in Calls : HooksOf!CallOK(d)
      /\ \A e \in Events : HooksOf!Open(e) => hookSent[e] = 0
  BY DEF EventsSound
<1>1. ASSUME NEW e \in Events, HooksOf!Group(e)
      PROVE  HooksTypes' /\ EventsSound'
  <2>1. PICK sms \in 0..1 :
          /\ hookSent' = [hookSent EXCEPT ![e] = @ + sms]
          /\ hookDecided' = hookDecided \cup {e}
          /\ hookConfig.kind = "group" /\ e \notin hookDecided
          /\ UNCHANGED <<hookRow, hookConfig, hookUsable, hookTokens, hookCall, hookBroken, hookRepeated>>
    <3>1. /\ hookDecided' = hookDecided \cup {e}
          /\ hookConfig.kind = "group" /\ e \notin hookDecided
          /\ UNCHANGED <<hookRow, hookConfig, hookUsable, hookTokens, hookCall, hookBroken, hookRepeated>>
      BY <1>1 DEF HooksOf!Group
    <3>2. CASE HooksOf!Admits(hookWindow, 0)
      BY <1>1, <3>1, <3>2 DEF HooksOf!Group
    <3>3. CASE ~HooksOf!Admits(hookWindow, 0)
      <4>1. hookSent' = hookSent
        BY <1>1, <3>3 DEF HooksOf!Group
      <4>2. hookSent = [hookSent EXCEPT ![e] = @ + 0]
        BY <1>0 DEF HooksTypes
      <4>3. QED
        BY <3>1, <4>1, <4>2
    <3>4. QED
      BY <3>2, <3>3
  <2>2. HooksTypes'
    BY <1>0, <2>1 DEF HooksTypes
  <2>3. QED
    BY <1>0, <2>1, <2>2 DEF HooksTypes, EventsSound, HooksOf!SentOnce, HooksOf!TokensAreOwed, HooksOf!CallOK, HooksOf!Open
<1>2. ASSUME NEW e \in Events, HooksOf!Forget(e)
      PROVE  HooksTypes' /\ EventsSound'
  <2>1. /\ hookTokens' = hookTokens \ {e} /\ hookDecided' = hookDecided \ {e}
        /\ hookBroken' = hookBroken \ {e} /\ hookRepeated' = hookRepeated \ {e}
        /\ hookSent' = [hookSent EXCEPT ![e] = 0]
        /\ \A c \in Calls : hookCall[c].at = "asking" => hookCall[c].event # e
        /\ UNCHANGED <<hookRow, hookConfig, hookUsable, hookCall>>
    BY <1>2 DEF HooksOf!Forget
  <2>2. HooksTypes'
    BY <1>0, <2>1 DEF HooksTypes
  <2>3. QED
    BY <1>0, <2>1, <2>2 DEF HooksTypes, EventsSound, HooksOf!SentOnce, HooksOf!TokensAreOwed, HooksOf!CallOK, HooksOf!Open
<1>3. CASE HooksOf!Switch \/ HooksOf!Usable \/ HooksOf!WindowPasses
  <2>1. /\ hookRow' \in {"on", "off", "gone"} /\ hookUsable' \in BOOLEAN
        /\ hookRow' = "gone" <=> hookRow = "gone"
        /\ UNCHANGED <<hookConfig, hookTokens, hookCall, hookSent, hookDecided, hookBroken, hookRepeated>>
    BY <1>0, <1>3 DEF HooksTypes, HooksOf!Switch, HooksOf!Usable, HooksOf!WindowPasses
  <2>2. HooksTypes'
    BY <1>0, <2>1 DEF HooksTypes
  <2>3. QED
    BY <1>0, <2>1, <2>2 DEF HooksTypes, EventsSound, HooksOf!SentOnce, HooksOf!TokensAreOwed, HooksOf!CallOK, HooksOf!Open
<1>4. CASE HooksOf!Remove
  <2>1. /\ hookRow' = "gone" /\ hookTokens' = {}
        /\ UNCHANGED <<hookConfig, hookUsable, hookCall, hookSent, hookDecided, hookBroken, hookRepeated>>
    BY <1>4 DEF HooksOf!Remove
  <2>2. HooksTypes'
    BY <1>0, <2>1 DEF HooksTypes
  <2>3. QED
    BY <1>0, <2>1, <2>2 DEF HooksTypes, EventsSound, HooksOf!SentOnce, HooksOf!TokensAreOwed, HooksOf!CallOK, HooksOf!Open
<1>5. CASE HooksOf!Crash
  <2>1. /\ hookCall' = [c \in Calls |-> [at |-> "idle", event |-> "none"]]
        /\ hookBroken' = hookBroken \cup {e \in Events : HooksOf!Asking(e)}
        /\ UNCHANGED <<hookRow, hookConfig, hookUsable, hookTokens, hookSent, hookDecided, hookRepeated>>
    BY <1>5 DEF HooksOf!Crash
  <2>2. HooksTypes'
    BY <1>0, <2>1 DEF HooksTypes, HooksOf!Places
  <2>3. QED
    BY <1>0, <2>1, <2>2 DEF HooksTypes, EventsSound, HooksOf!SentOnce, HooksOf!TokensAreOwed, HooksOf!CallOK, HooksOf!Open
<1>6. QED
  BY <1>1, <1>2, <1>3, <1>4, <1>5, RequestStep DEF HooksOf!Next

LEMMA HooksBegin == HooksOf!Init => WindowCounted /\ HooksTypes /\ EventsSound
<1> SUFFICES ASSUME HooksOf!Init
             PROVE  WindowCounted /\ HooksTypes /\ EventsSound
  OBVIOUS
<1> USE DEF HooksOf!Init
<1>1. WindowCounted
  BY HooksAssumption DEF WindowCounted, HooksOf!Fresh, HooksOf!Window
<1>2. HooksTypes
  BY DEF HooksTypes, HooksOf!Resting, HooksOf!Places
<1>3. EventsSound
  BY DEF EventsSound, HooksOf!SentOnce, HooksOf!TokensAreOwed, HooksOf!CallOK, HooksOf!Open,
         HooksOf!At, HooksOf!Resting
<1>4. QED
  BY <1>1, <1>2, <1>3


-----------------------------------------------------------------------------
(* FlowCalls. *)

LEMMA SameCount == ASSUME NEW S PROVE FlowCallsOf!Cardinality(S) = Cardinality(S)
BY Zenon DEF FlowCallsOf!Cardinality, Cardinality

(* A list fits the positions its messages are kept under. *)
LEMMA ListsFit ==
  /\ FlowCallsOf!Longest \in Nat
  /\ \A l \in FlowLists : Len(l) \in Nat /\ Len(l) <= FlowCallsOf!Longest
<1>1. PICK l \in FlowLists : \A m \in FlowLists : Len(m) <= Len(l)
  BY FlowsAssumption
<1>2. \A m \in FlowLists : Len(m) \in Nat
  BY FlowsAssumption
<1>3. \E n \in {Len(m) : m \in FlowLists} : \A m \in FlowLists : Len(m) <= n
  BY <1>1
<1>4. /\ FlowCallsOf!Longest \in {Len(m) : m \in FlowLists}
      /\ \A m \in FlowLists : Len(m) <= FlowCallsOf!Longest
  BY <1>3, Zenon DEF FlowCallsOf!Longest
<1>5. QED
  BY <1>2, <1>4

(* All numbers, each once. *)
LEMMA EveryNumber ==
  LET l == FlowCallsOf!SetToSeq(FlowPhones)
  IN  /\ l \in Seq(FlowPhones) /\ Len(l) \in Nat \ {0}
      /\ \A i, j \in DOMAIN l : l[i] = l[j] => i = j
<1> DEFINE n == Cardinality(FlowPhones)
<1>1. n \in Nat
  BY FS_CardinalityType, FlowsAssumption
<1>2. PICK f : f \in [1..n -> FlowPhones] /\ \A i, j \in 1..n : f[i] = f[j] => i = j
  <2>1. PICK f : f \in Bijection(1..n, FlowPhones)
    BY <1>1, FS_CardinalityType, FlowsAssumption DEF ExistsBijection
  <2>2. QED
    BY <2>1 DEF Bijection, Injection, Surjection, IsInjective
<1>3. n # 0
  BY FS_EmptySet, FlowsAssumption
<1>4. FlowCallsOf!SetToSeq(FlowPhones) = CHOOSE g \in [1..n -> FlowPhones] : FlowCallsOf!IsInjective(g)
  BY SameCount, Zenon DEF FlowCallsOf!SetToSeq
<1>5. \E g \in [1..n -> FlowPhones] : FlowCallsOf!IsInjective(g)
  <2>1. DOMAIN f = 1..n
    BY <1>2
  <2>2. FlowCallsOf!IsInjective(f)
    BY <1>2, <2>1, Zenon DEF FlowCallsOf!IsInjective
  <2>3. QED
    BY <1>2, <2>2
<1>6. /\ FlowCallsOf!SetToSeq(FlowPhones) \in [1..n -> FlowPhones]
      /\ FlowCallsOf!IsInjective(FlowCallsOf!SetToSeq(FlowPhones))
  BY <1>4, <1>5, Zenon
<1>7. QED
  BY <1>1, <1>3, <1>6 DEF FlowCallsOf!IsInjective

(* Whom a call is for: numbers, each once. *)
LEMMA ForWhom ==
  ASSUME FlowCallsOf!TypeOK, NEW k \in FlowKeys
  PROVE  LET l == FlowCallsOf!Recipients(k)
         IN  /\ l \in Seq(FlowPhones) /\ Len(l) \in Nat
             /\ \A i, j \in DOMAIN l : l[i] = l[j] => i = j
             /\ flowAction[k] # "group" => Len(l) # 0
             /\ flowAction[k] # "package" =>
                  FlowCallsOf!Positions(l) \subseteq 0..FlowCallsOf!Longest
<1>1. flowAction[k] \in {"sms", "package", "group"} /\ flowList \in FlowLists
  BY DEF FlowCallsOf!TypeOK, FlowCallsOf!Actions
<1>2. FlowCallsOf!Target \in FlowPhones
  BY FlowsAssumption DEF FlowCallsOf!Target
<1>3. CASE flowAction[k] = "sms"
  <2>1. FlowCallsOf!Recipients(k) = <<FlowCallsOf!Target>>
    BY <1>3 DEF FlowCallsOf!Recipients
  <2>2. QED
    BY <1>2, <1>3, <2>1, ListsFit DEF FlowCallsOf!Positions
<1>4. CASE flowAction[k] = "package"
  <2>1. FlowCallsOf!Recipients(k) = FlowCallsOf!SetToSeq(FlowPhones)
    BY <1>4 DEF FlowCallsOf!Recipients
  <2>2. QED
    BY <1>4, <2>1, EveryNumber
<1>5. CASE flowAction[k] = "group"
  <2>1. FlowCallsOf!Recipients(k) = flowList
    BY <1>5 DEF FlowCallsOf!Recipients
  <2>2. flowList \in Seq(FlowPhones) /\ \A i, j \in DOMAIN flowList : flowList[i] = flowList[j] => i = j
    BY <1>1, FlowsAssumption
  <2>3. QED
    BY <1>1, <1>5, <2>1, <2>2, ListsFit DEF FlowCallsOf!Positions
<1>6. QED
  BY <1>1, <1>3, <1>4, <1>5


(* A set whose elements are one and the same. *)
LEMMA AtMostOne ==
  ASSUME NEW S, \A a, b \in S : a = b
  PROVE  /\ Cardinality(S) \in 0..1
         /\ S # {} => Cardinality(S) = 1
<1>1. CASE S = {}
  BY <1>1, FS_EmptySet
<1>2. CASE S # {}
  <2>1. PICK a : a \in S
    BY <1>2
  <2>2. S = {a}
    BY <2>1
  <2>3. Cardinality({a}) = 1
    BY FS_Singleton, Zenon
  <2>4. QED
    BY <2>2, <2>3
<1>3. QED
  BY <1>1, <1>2

(* What is sent goes to no more positions than the list has, to each       *)
(* number once, and to none when the call repeats one.                     *)
LEMMA Sending ==
  ASSUME FlowCallsOf!TypeOK, NEW k \in FlowKeys
  PROVE  LET l == FlowCallsOf!Recipients(k)
             To(p) == {i \in FlowCallsOf!Sends(k) : FlowCallsOf!Number(l, i) = p}
         IN  /\ FlowCallsOf!Cardinality(FlowCallsOf!Sends(k)) \in 0..Len(l)
             /\ FlowCallsOf!Seen(k) => FlowCallsOf!Cardinality(FlowCallsOf!Sends(k)) = 0
             /\ \A p \in FlowPhones :
                  /\ FlowCallsOf!Cardinality(To(p)) \in 0..1
                  /\ FlowCallsOf!Seen(k) => FlowCallsOf!Cardinality(To(p)) = 0
             /\ (FlowCallsOf!Untried(k) /\ l # <<>>) =>
                  \E p \in FlowPhones : FlowCallsOf!Cardinality(To(p)) = 1
<1> DEFINE l == FlowCallsOf!Recipients(k)
           S == FlowCallsOf!Sends(k)
           To(p) == {i \in S : FlowCallsOf!Number(l, i) = p}
<1>1. /\ l \in Seq(FlowPhones) /\ Len(l) \in Nat
      /\ \A i, j \in DOMAIN l : l[i] = l[j] => i = j
      /\ flowAction[k] # "package" => FlowCallsOf!Positions(l) \subseteq 0..FlowCallsOf!Longest
  BY ForWhom
<1> HIDE DEF l
<1> DEFINE P == IF flowAction[k] # "package" /\ Len(l) = 1 THEN {0} ELSE 1..Len(l)
<1>2. /\ S \subseteq P
      /\ P = 1..Len(l) \/ (P = {0} /\ Len(l) = 1)
      /\ FlowCallsOf!Untried(k) => S = P
  <2>1. CASE flowAction[k] = "package"
    <3>1. S \subseteq 1..Len(l) /\ (FlowCallsOf!Untried(k) => S = 1..Len(l))
      BY <2>1 DEF FlowCallsOf!Sends, FlowCallsOf!Untried, l
    <3>2. P = 1..Len(l)
      BY <2>1
    <3>3. QED
      BY <3>1, <3>2
  <2>2. CASE flowAction[k] # "package"
    <3>1. S = {i \in FlowCallsOf!Positions(l) : flowPlaced[k][i] = FlowCallsOf!Nobody}
      BY <2>2 DEF FlowCallsOf!Sends, FlowCallsOf!NewPositions, l
    <3>2. FlowCallsOf!Untried(k) => S = FlowCallsOf!Positions(l)
      BY <1>1, <2>2, <3>1 DEF FlowCallsOf!Untried
    <3>3. P = FlowCallsOf!Positions(l)
      BY <2>2 DEF FlowCallsOf!Positions
    <3>4. P = 1..Len(l) \/ (P = {0} /\ Len(l) = 1)
      OBVIOUS
    <3>5. QED
      BY <3>1, <3>2, <3>3, <3>4, Zenon
  <2>3. QED
    BY <2>1, <2>2
<1> HIDE DEF P
<1> HIDE DEF S
<1>3. IsFiniteSet(P) /\ Cardinality(P) = Len(l)
  <2>1. CASE P = 1..Len(l)
    BY <1>1, <2>1, FS_Interval
  <2>2. CASE P = {0} /\ Len(l) = 1
    BY <2>2, FS_Singleton
  <2>3. QED
    BY <1>2, <2>1, <2>2
<1>4. Cardinality(S) \in 0..Len(l)
  BY <1>1, <1>2, <1>3, FS_Subset, FS_CardinalityType
<1>5. /\ \A i \in P : FlowCallsOf!Number(l, i) \in FlowPhones
      /\ \A i, j \in P : FlowCallsOf!Number(l, i) = FlowCallsOf!Number(l, j) => i = j
  <2>1. CASE P = 1..Len(l)
    <3>1. \A i \in P : i # 0 /\ i \in DOMAIN l /\ FlowCallsOf!Number(l, i) = l[i]
      BY <1>1, <2>1 DEF FlowCallsOf!Number
    <3>2. \A i \in DOMAIN l : l[i] \in FlowPhones
      BY <1>1
    <3>3. QED
      BY <1>1, <3>1, <3>2, Zenon
  <2>2. CASE P = {0} /\ Len(l) = 1
    <3>1. l[1] \in FlowPhones
      <4>1. l \in Seq(FlowPhones) /\ Len(l) = 1
        BY <1>1, <2>2
      <4>2. QED
        BY <4>1
    <3>2. FlowCallsOf!Number(l, 0) = l[1]
      BY Zenon DEF FlowCallsOf!Number
    <3>3. \A i \in P : i = 0
      BY <2>2
    <3>4. QED
      BY <3>1, <3>2, <3>3, Zenon
  <2>3. QED
    BY <1>2, <2>1, <2>2
<1>7. FlowCallsOf!Seen(k) => S = {}
  BY DEF FlowCallsOf!Seen, FlowCallsOf!Sends, FlowCallsOf!NewPositions, S
<1>8. ASSUME NEW p \in FlowPhones
      PROVE  /\ Cardinality(To(p)) \in 0..1
             /\ To(p) # {} => Cardinality(To(p)) = 1
             /\ S = {} => Cardinality(To(p)) = 0
  <2>1. \A i, j \in To(p) : i = j
    BY <1>2, <1>5
  <2>2. S = {} => To(p) = {}
    OBVIOUS
  <2>3. QED
    BY <2>1, <2>2, AtMostOne, FS_EmptySet
<1>9. ASSUME FlowCallsOf!Untried(k), l # <<>>
      PROVE  \E p \in FlowPhones : Cardinality(To(p)) = 1
  <2>1. Len(l) # 0
    BY <1>1, <1>9
  <2>2. PICK i : i \in P
    <3>1. 1 \in 1..Len(l)
      BY <1>1, <2>1
    <3>2. QED
      BY <1>2, <3>1
  <2>3. i \in To(FlowCallsOf!Number(l, i)) /\ FlowCallsOf!Number(l, i) \in FlowPhones
    BY <1>2, <1>5, <1>9, <2>2
  <2>4. QED
    BY <1>8, <2>3
<1>10. S = {} => Cardinality(S) = 0
  BY FS_EmptySet
<1>11. /\ FlowCallsOf!Cardinality(S) = Cardinality(S)
       /\ \A p : FlowCallsOf!Cardinality(To(p)) = Cardinality(To(p))
  BY SameCount, Zenon
<1>12. /\ FlowCallsOf!Cardinality(S) \in 0..Len(l)
       /\ FlowCallsOf!Seen(k) => FlowCallsOf!Cardinality(S) = 0
       /\ \A p \in FlowPhones : /\ FlowCallsOf!Cardinality(To(p)) \in 0..1
                                /\ FlowCallsOf!Seen(k) => FlowCallsOf!Cardinality(To(p)) = 0
       /\ (FlowCallsOf!Untried(k) /\ l # <<>>) => \E p \in FlowPhones : FlowCallsOf!Cardinality(To(p)) = 1
  BY <1>4, <1>7, <1>8, <1>9, <1>10, <1>11, Zenon
<1>13. QED
  BY <1>12, Zenon DEF l, S


(* The storm guard counts the recipients it lets through.                  *)
LEMMA GuardAdds ==
  ASSUME NEW w \in FlowCallsOf!Window, NEW n \in Nat
  PROVE  /\ FlowCallsOf!After(w, n) \in FlowCallsOf!Window
         /\ FlowCallsOf!After(w, n).recipients
              = IF FlowCallsOf!Admits(w, n) THEN w.recipients + n ELSE w.recipients
<1>1. /\ w = [calls |-> w.calls, recipients |-> w.recipients, notified |-> w.notified]
      /\ w.calls \in 0..FlowLimit /\ w.recipients \in 0..FlowRecipients /\ w.notified \in BOOLEAN
  BY DEF FlowCallsOf!Window
<1>2. CASE FlowCallsOf!Admits(w, n)
  <2>1. FlowCallsOf!After(w, n) = [calls |-> w.calls + 1, recipients |-> w.recipients + n, notified |-> w.notified]
    BY <1>1, <1>2 DEF FlowCallsOf!After
  <2>2. w.calls + 1 \in 0..FlowLimit /\ w.recipients + n \in 0..FlowRecipients
    BY <1>1, <1>2, FlowsAssumption DEF FlowCallsOf!Admits
  <2>3. QED
    BY <1>1, <1>2, <2>1, <2>2 DEF FlowCallsOf!Window
<1>3. CASE ~FlowCallsOf!Admits(w, n)
  <2>1. FlowCallsOf!After(w, n) = [calls |-> w.calls, recipients |-> w.recipients, notified |-> TRUE]
    BY <1>1, <1>3 DEF FlowCallsOf!After
  <2>2. QED
    BY <1>1, <1>3, <2>1 DEF FlowCallsOf!Window
<1>4. QED
  BY <1>2, <1>3

(* The number of a message is one of the list.                             *)
LEMMA NumbersOfList ==
  ASSUME FlowCallsOf!TypeOK, NEW k \in FlowKeys,
         NEW i \in FlowCallsOf!Positions(FlowCallsOf!Recipients(k))
  PROVE  FlowCallsOf!Number(FlowCallsOf!Recipients(k), i) \in FlowPhones
<1> DEFINE l == FlowCallsOf!Recipients(k)
<1>1. l \in Seq(FlowPhones) /\ Len(l) \in Nat
  BY ForWhom
<1>2. i \in FlowCallsOf!Positions(l)
  OBVIOUS
<1> HIDE DEF l
<1>3. CASE Len(l) = 1
  <2>1. i = 0
    BY <1>2, <1>3 DEF FlowCallsOf!Positions
  <2>2. l[1] \in FlowPhones
    BY <1>1, <1>3
  <2>3. FlowCallsOf!Number(l, 0) = l[1]
    BY Zenon DEF FlowCallsOf!Number
  <2>4. QED
    BY <2>1, <2>2, <2>3 DEF l
<1>4. CASE Len(l) # 1
  <2>1. i \in 1..Len(l)
    BY <1>2, <1>4 DEF FlowCallsOf!Positions
  <2>2. l[i] \in FlowPhones /\ i # 0
    BY <1>1, <2>1
  <2>3. FlowCallsOf!Number(l, i) = l[i]
    BY <2>2, Zenon DEF FlowCallsOf!Number
  <2>4. QED
    BY <2>2, <2>3 DEF l
<1>5. QED
  BY <1>3, <1>4

(* A call that reaches the queue. *)
LEMMA SubmitStep ==
  ASSUME FlowCallsOf!IInv, NEW k \in FlowKeys, FlowCallsOf!Submit(k),
         FlowCallsOf!Recipients(k) # <<>>,
         UNCHANGED <<flowList, flowAction, flowEdited>>
  PROVE  /\ flowPlaced' \in [FlowKeys -> [0..FlowCallsOf!Longest -> FlowPhones \cup {FlowCallsOf!Nobody}]]
         /\ flowPackaged' \subseteq FlowKeys
         /\ flowGot' \in [FlowKeys -> [FlowPhones -> Nat]]
         /\ FlowCallsOf!RepeatsSendNothing'
         /\ \A j \in FlowKeys \ flowEdited' : FlowCallsOf!Untried(j)' \/ FlowCallsOf!Answered(j)'
<1> DEFINE l == FlowCallsOf!Recipients(k)
           C(p) == FlowCallsOf!Cardinality({i \in FlowCallsOf!Sends(k) : FlowCallsOf!Number(l, i) = p})
<1>1. /\ FlowCallsOf!TypeOK /\ FlowCallsOf!RepeatsSendNothing
      /\ \A j \in FlowKeys \ flowEdited : FlowCallsOf!Untried(j) \/ FlowCallsOf!Answered(j)
  BY DEF FlowCallsOf!IInv
<1>2. /\ \A p \in FlowPhones : C(p) \in 0..1 /\ (FlowCallsOf!Seen(k) => C(p) = 0)
      /\ FlowCallsOf!Untried(k) => \E p \in FlowPhones : C(p) = 1
  BY <1>1, Sending, Zenon
<1>3. flowGot' = [flowGot EXCEPT ![k] = [p \in FlowPhones |-> flowGot[k][p] + C(p)]]
  BY DEF FlowCallsOf!Submit
<1> HIDE DEF C
<1>4. /\ flowPlaced \in [FlowKeys -> [0..FlowCallsOf!Longest -> FlowPhones \cup {FlowCallsOf!Nobody}]]
      /\ flowPackaged \subseteq FlowKeys
      /\ flowGot \in [FlowKeys -> [FlowPhones -> Nat]]
  BY <1>1 DEF FlowCallsOf!TypeOK
<1>5. /\ \A j \in FlowKeys \ {k} : flowGot'[j] = flowGot[j]
      /\ \A p \in FlowPhones : flowGot'[k][p] = flowGot[k][p] + C(p)
      /\ flowGot' \in [FlowKeys -> [FlowPhones -> Nat]]
  <2> DEFINE G == [p \in FlowPhones |-> flowGot[k][p] + C(p)]
  <2>1. G \in [FlowPhones -> Nat]
    BY <1>2, <1>4
  <2>2. flowGot' = [flowGot EXCEPT ![k] = G]
    BY <1>3
  <2>3. \A p \in FlowPhones : G[p] = flowGot[k][p] + C(p)
    OBVIOUS
  <2> HIDE DEF G
  <2>4. QED
    BY <1>4, <2>1, <2>2, <2>3
<1>6. /\ \A j \in FlowKeys \ {k} : flowPlaced'[j] = flowPlaced[j] /\ (j \in flowPackaged' <=> j \in flowPackaged)
      /\ flowPlaced' \in [FlowKeys -> [0..FlowCallsOf!Longest -> FlowPhones \cup {FlowCallsOf!Nobody}]]
      /\ flowPackaged' \subseteq FlowKeys
  <2>1. CASE flowAction[k] = "package"
    BY <1>4, <2>1 DEF FlowCallsOf!Submit
  <2>2. CASE flowAction[k] # "package"
    <3>1. /\ flowPackaged' = flowPackaged
          /\ flowPlaced' = [flowPlaced EXCEPT ![k] = [i \in 0..FlowCallsOf!Longest |->
               IF i \in FlowCallsOf!Positions(l) THEN FlowCallsOf!Number(l, i) ELSE @[i]]]
      BY <2>2 DEF FlowCallsOf!Submit
    <3>2. \A i \in FlowCallsOf!Positions(l) : FlowCallsOf!Number(l, i) \in FlowPhones
      BY <1>1, NumbersOfList
    <3>3. QED
      BY <1>4, <3>1, <3>2
  <2>3. QED
    BY <2>1, <2>2
<1>7. \A j \in FlowKeys : FlowCallsOf!Recipients(j)' = FlowCallsOf!Recipients(j)
  BY DEF FlowCallsOf!Recipients
<1>8. FlowCallsOf!Seen(k)'
  <2>1. CASE flowAction[k] = "package"
    BY <2>1 DEF FlowCallsOf!Submit, FlowCallsOf!Seen
  <2>2. CASE flowAction[k] # "package"
    <3>1. /\ \A i \in FlowCallsOf!Positions(l) : FlowCallsOf!Number(l, i) \in FlowPhones
          /\ FlowCallsOf!Positions(l) \subseteq 0..FlowCallsOf!Longest
      BY <1>1, <2>2, NumbersOfList, ForWhom
    <3>2. \A i \in 0..FlowCallsOf!Longest :
            flowPlaced'[k][i] = IF i \in FlowCallsOf!Positions(l) THEN FlowCallsOf!Number(l, i) ELSE flowPlaced[k][i]
      BY <1>4, <2>2 DEF FlowCallsOf!Submit
    <3>3. FlowCallsOf!Nobody \notin FlowPhones
      BY FlowsAssumption DEF FlowCallsOf!Nobody
    <3>4. \A i \in FlowCallsOf!Positions(l) : flowPlaced'[k][i] # FlowCallsOf!Nobody
      BY <3>1, <3>2, <3>3
    <3>5. l # <<>> /\ flowAction' = flowAction /\ FlowCallsOf!Recipients(k)' = l
      BY <1>7
    <3>6. QED
      BY <2>2, <3>4, <3>5, Zenon DEF FlowCallsOf!Seen
  <2>3. QED
    BY <2>1, <2>2
<1>9. \A j \in FlowKeys \ {k} : FlowCallsOf!Seen(j) => FlowCallsOf!Seen(j)'
  BY <1>6, <1>7 DEF FlowCallsOf!Seen
<1>10. ASSUME NEW j \in FlowKeys \ flowEdited'
       PROVE  /\ \A p \in FlowPhones : flowGot'[j][p] <= 1
              /\ FlowCallsOf!Untried(j)' \/ FlowCallsOf!Answered(j)'
  <2>1. /\ \A p \in FlowPhones : flowGot[j][p] <= 1 /\ flowGot[j][p] \in Nat
        /\ FlowCallsOf!Untried(j) \/ FlowCallsOf!Answered(j)
    BY <1>1, <1>4, <1>10 DEF FlowCallsOf!RepeatsSendNothing
  <2>2. CASE j # k
    <3>1. flowGot'[j] = flowGot[j] /\ flowPlaced'[j] = flowPlaced[j] /\ (j \in flowPackaged' <=> j \in flowPackaged)
      BY <1>5, <1>6, <2>2
    <3>2. FlowCallsOf!Untried(j) => FlowCallsOf!Untried(j)'
      BY <3>1 DEF FlowCallsOf!Untried
    <3>3. FlowCallsOf!Answered(j) => FlowCallsOf!Answered(j)'
      BY <1>9, <2>2, <3>1 DEF FlowCallsOf!Answered
    <3>4. QED
      BY <2>1, <3>1, <3>2, <3>3
  <2>3. CASE j = k /\ FlowCallsOf!Untried(k)
    <3>1. \A p \in FlowPhones : flowGot'[k][p] = C(p)
      BY <1>2, <1>5, <2>3 DEF FlowCallsOf!Untried
    <3>2. \E p \in FlowPhones : flowGot'[k][p] > 0
      BY <1>2, <2>3, <3>1
    <3>3. FlowCallsOf!Answered(k)'
      BY <1>8, <3>2 DEF FlowCallsOf!Answered
    <3>4. \A p \in FlowPhones : flowGot'[k][p] <= 1
      BY <1>2, <3>1
    <3>5. QED
      BY <2>3, <3>3, <3>4
  <2>4. CASE j = k /\ FlowCallsOf!Answered(k)
    <3>1. \A p \in FlowPhones : flowGot'[k][p] = flowGot[k][p]
      BY <1>2, <1>4, <1>5, <2>4 DEF FlowCallsOf!Answered
    <3>2. FlowCallsOf!Answered(k)'
      BY <1>8, <2>4, <3>1 DEF FlowCallsOf!Answered
    <3>3. QED
      BY <2>1, <2>4, <3>1, <3>2
  <2>5. QED
    BY <2>1, <2>2, <2>3, <2>4
<1>11. QED
  BY <1>5, <1>6, <1>10 DEF FlowCallsOf!RepeatsSendNothing


(* A step that leaves the messages and the lists alone. *)
LEMMA FlowsRest ==
  ASSUME FlowCallsOf!IInv,
         flowEnabled' \in BOOLEAN, flowUsable' \in BOOLEAN, flowWindow' \in FlowCallsOf!Window,
         flowOut' \in Nat, flowOut' <= flowWindow'.recipients,
         UNCHANGED <<flowList, flowPlaced, flowPackaged, flowAction, flowGot, flowEdited>>
  PROVE  FlowCallsOf!IInv'
<1>1. FlowCallsOf!TypeOK' /\ FlowCallsOf!RepeatsSendNothing'
  BY DEF FlowCallsOf!IInv, FlowCallsOf!TypeOK, FlowCallsOf!RepeatsSendNothing
<1>2. \A k \in FlowKeys : FlowCallsOf!Untried(k) => FlowCallsOf!Untried(k)'
  BY DEF FlowCallsOf!Untried
<1>3. \A k \in FlowKeys : FlowCallsOf!Answered(k) => FlowCallsOf!Answered(k)'
  BY DEF FlowCallsOf!Answered, FlowCallsOf!Seen, FlowCallsOf!Recipients
<1>4. \A k \in FlowKeys \ flowEdited' : FlowCallsOf!Untried(k)' \/ FlowCallsOf!Answered(k)'
  BY <1>2, <1>3 DEF FlowCallsOf!IInv
<1>5. QED
  BY <1>1, <1>4 DEF FlowCallsOf!IInv

LEMMA FlowsStep ==
  ASSUME FlowCallsOf!IInv, FlowCallsOf!Next
  PROVE  FlowCallsOf!IInv'
<1>1. /\ FlowCallsOf!TypeOK /\ FlowCallsOf!RepeatsSendNothing
      /\ flowOut <= flowWindow.recipients /\ flowOut \in Nat
      /\ flowWindow \in FlowCallsOf!Window /\ flowWindow.recipients \in 0..FlowRecipients
      /\ flowEnabled \in BOOLEAN /\ flowUsable \in BOOLEAN
      /\ \A k \in FlowKeys \ flowEdited : FlowCallsOf!Untried(k) \/ FlowCallsOf!Answered(k)
  BY DEF FlowCallsOf!IInv, FlowCallsOf!TypeOK, FlowCallsOf!Window
<1>2. ASSUME NEW k \in FlowKeys, FlowCallsOf!Call(k)
      PROVE  FlowCallsOf!IInv'
  <2> DEFINE n == Len(FlowCallsOf!Recipients(k))
             sends == FlowCallsOf!Cardinality(FlowCallsOf!Sends(k))
  <2>1. n \in Nat /\ sends \in 0..n /\ (FlowCallsOf!Seen(k) => sends = 0)
    BY <1>1, ForWhom, Sending
  <2>2. /\ flowWindow' = IF FlowCallsOf!Seen(k) THEN flowWindow ELSE FlowCallsOf!After(flowWindow, n)
        /\ UNCHANGED <<flowEnabled, flowUsable, flowList, flowAction, flowEdited>>
        /\ \/ FlowCallsOf!Nothing
           \/ /\ FlowCallsOf!Submit(k) /\ FlowCallsOf!Recipients(k) # <<>>
              /\ FlowCallsOf!Seen(k) \/ FlowCallsOf!Admits(flowWindow, n)
    BY <1>2 DEF FlowCallsOf!Call, FlowCallsOf!Turned
  <2> HIDE DEF n, sends
  <2>3. /\ flowWindow' \in FlowCallsOf!Window
        /\ flowWindow'.recipients \in Nat
        /\ flowWindow'.recipients >= flowWindow.recipients
        /\ (~FlowCallsOf!Seen(k) /\ FlowCallsOf!Admits(flowWindow, n))
             => flowWindow'.recipients = flowWindow.recipients + n
    <3>1. /\ FlowCallsOf!After(flowWindow, n) \in FlowCallsOf!Window
          /\ FlowCallsOf!After(flowWindow, n).recipients
               = IF FlowCallsOf!Admits(flowWindow, n) THEN flowWindow.recipients + n ELSE flowWindow.recipients
      BY <1>1, <2>1, GuardAdds
    <3>2. flowWindow' = flowWindow \/ flowWindow' = FlowCallsOf!After(flowWindow, n)
      BY <2>2
    <3>3. ~FlowCallsOf!Seen(k) => flowWindow' = FlowCallsOf!After(flowWindow, n)
      BY <2>2
    <3>4. QED
      BY <1>1, <2>1, <3>1, <3>2, <3>3
  <2>4. CASE FlowCallsOf!Nothing
    <3>1. UNCHANGED <<flowPlaced, flowPackaged, flowGot, flowOut>>
      BY <2>4 DEF FlowCallsOf!Nothing
    <3>2. flowOut' \in Nat /\ flowOut' <= flowWindow'.recipients
      BY <1>1, <2>3, <3>1
    <3>3. QED
      BY <1>1, <2>2, <2>3, <3>1, <3>2, FlowsRest
  <2>5. CASE /\ FlowCallsOf!Submit(k) /\ FlowCallsOf!Recipients(k) # <<>>
             /\ FlowCallsOf!Seen(k) \/ FlowCallsOf!Admits(flowWindow, n)
    <3>1. flowOut' = flowOut + sends
      BY <2>5 DEF FlowCallsOf!Submit, sends
    <3>2. flowOut' \in Nat /\ flowOut' <= flowWindow'.recipients
      BY <1>1, <2>1, <2>3, <2>5, <3>1
    <3>3. /\ flowPlaced' \in [FlowKeys -> [0..FlowCallsOf!Longest -> FlowPhones \cup {FlowCallsOf!Nobody}]]
          /\ flowPackaged' \subseteq FlowKeys
          /\ flowGot' \in [FlowKeys -> [FlowPhones -> Nat]]
          /\ FlowCallsOf!RepeatsSendNothing'
          /\ \A j \in FlowKeys \ flowEdited' : FlowCallsOf!Untried(j)' \/ FlowCallsOf!Answered(j)'
      BY <2>2, <2>5, SubmitStep
    <3>4. FlowCallsOf!TypeOK'
      BY <1>1, <2>2, <2>3, <3>2, <3>3 DEF FlowCallsOf!TypeOK
    <3>5. QED
      BY <3>2, <3>3, <3>4 DEF FlowCallsOf!IInv
  <2>6. QED
    BY <2>2, <2>4, <2>5
<1>3. ASSUME NEW l \in FlowLists, FlowCallsOf!Edit(l)
      PROVE  FlowCallsOf!IInv'
  <2>1. /\ flowList' = l
        /\ flowEdited' = flowEdited \cup {k \in FlowKeys : flowAction[k] = "group" /\ \E p \in FlowPhones : flowGot[k][p] > 0}
        /\ UNCHANGED <<flowEnabled, flowUsable, flowWindow, flowPlaced, flowPackaged, flowAction, flowGot, flowOut>>
    BY <1>3 DEF FlowCallsOf!Edit
  <2>2. FlowCallsOf!TypeOK' /\ FlowCallsOf!RepeatsSendNothing'
    BY <1>1, <2>1 DEF FlowCallsOf!TypeOK, FlowCallsOf!RepeatsSendNothing
  <2>3. ASSUME NEW k \in FlowKeys \ flowEdited'
        PROVE  FlowCallsOf!Untried(k)' \/ FlowCallsOf!Answered(k)'
    <3>1. CASE FlowCallsOf!Untried(k)
      BY <2>1, <3>1 DEF FlowCallsOf!Untried
    <3>2. CASE FlowCallsOf!Answered(k)
      <4>1. flowAction[k] # "group"
        BY <2>1, <2>3, <3>2 DEF FlowCallsOf!Answered
      <4>2. FlowCallsOf!Recipients(k)' = FlowCallsOf!Recipients(k)
        BY <1>1, <2>1, <4>1 DEF FlowCallsOf!Recipients, FlowCallsOf!TypeOK, FlowCallsOf!Actions
      <4>3. QED
        BY <2>1, <3>2, <4>2 DEF FlowCallsOf!Answered, FlowCallsOf!Seen
    <3>3. QED
      BY <1>1, <2>1, <2>3, <3>1, <3>2
  <2>4. QED
    BY <1>1, <2>1, <2>2, <2>3 DEF FlowCallsOf!IInv
<1>4. CASE FlowCallsOf!CallOnce
  <2>1. /\ flowWindow' = FlowCallsOf!After(flowWindow, 1)
        /\ flowOut' = IF FlowCallsOf!Admits(flowWindow, 1) THEN flowOut + 1 ELSE flowOut
        /\ UNCHANGED <<flowEnabled, flowUsable, flowList, flowPlaced, flowPackaged, flowAction, flowGot, flowEdited>>
    BY <1>4 DEF FlowCallsOf!CallOnce
  <2>2. flowWindow' \in FlowCallsOf!Window /\ flowOut' \in Nat /\ flowOut' <= flowWindow'.recipients
    <3>1. /\ flowWindow' \in FlowCallsOf!Window
          /\ flowWindow'.recipients = IF FlowCallsOf!Admits(flowWindow, 1)
                                      THEN flowWindow.recipients + 1 ELSE flowWindow.recipients
      BY <1>1, <2>1, GuardAdds
    <3>2. flowOut' \in Nat /\ flowOut' <= flowWindow'.recipients
      BY <1>1, <2>1, <3>1
    <3>3. QED
      BY <3>1, <3>2
  <2>3. QED
    BY <1>1, <2>1, <2>2, FlowsRest
<1>5. CASE FlowCallsOf!Switch \/ FlowCallsOf!Usable
  BY <1>1, <1>5, FlowsRest DEF FlowCallsOf!Switch, FlowCallsOf!Usable, FlowCallsOf!past
<1>6. CASE FlowCallsOf!WindowPasses
  <2>1. flowWindow' = FlowCallsOf!Fresh /\ flowOut' = 0
    BY <1>6 DEF FlowCallsOf!WindowPasses
  <2>2. flowWindow' \in FlowCallsOf!Window /\ flowOut' \in Nat /\ flowOut' <= flowWindow'.recipients
    BY <2>1, FlowsAssumption DEF FlowCallsOf!Fresh, FlowCallsOf!Window
  <2>3. QED
    BY <1>1, <1>6, <2>2, FlowsRest DEF FlowCallsOf!WindowPasses
<1>7. QED
  BY <1>2, <1>3, <1>4, <1>5, <1>6 DEF FlowCallsOf!Next

LEMMA FlowsBegin == FlowCallsOf!Init => FlowCallsOf!IInv
<1> SUFFICES ASSUME FlowCallsOf!Init
             PROVE  FlowCallsOf!IInv
  OBVIOUS
<1> USE DEF FlowCallsOf!Init
<1>1. /\ FlowCallsOf!Fresh \in FlowCallsOf!Window /\ FlowCallsOf!Fresh.recipients = 0
  BY FlowsAssumption DEF FlowCallsOf!Fresh, FlowCallsOf!Window
<1>2. flowPlaced \in [FlowKeys -> [0..FlowCallsOf!Longest -> FlowPhones \cup {FlowCallsOf!Nobody}]]
  OBVIOUS
<1>3. flowGot \in [FlowKeys -> [FlowPhones -> Nat]]
  OBVIOUS
<1>4. FlowCallsOf!TypeOK
  BY <1>1, <1>2, <1>3 DEF FlowCallsOf!TypeOK
<1>5. \A k \in FlowKeys : FlowCallsOf!Untried(k) /\ \A p \in FlowPhones : flowGot[k][p] <= 1
  BY DEF FlowCallsOf!Untried
<1>6. QED
  BY <1>1, <1>4, <1>5 DEF FlowCallsOf!IInv, FlowCallsOf!RepeatsSendNothing

(* What the invariant says of the property.                                *)
LEMMA FlowsParts ==
  FlowCallsOf!IInv =>
    FlowCallsOf!TypeOK /\ FlowCallsOf!LoopsStop /\ FlowCallsOf!RepeatsSendNothing
BY FlowsAssumption DEF FlowCallsOf!IInv, FlowCallsOf!LoopsStop, FlowCallsOf!TypeOK, FlowCallsOf!Window


-----------------------------------------------------------------------------
(* Numbers. *)

LEMMA Smallest ==
  ASSUME NEW S \in SUBSET Nat, S # {}
  PROVE  \E m \in S : \A n \in S : m <= n
<1> DEFINE R == {ss \in Nat \X Nat : ss[1] < ss[2]}
<1>1. IsWellFoundedOn(R, Nat)
  BY NatLessThanWellFounded, Zenon DEF OpToRel
<1>2. PICK m \in S : \A n \in S : ~ (<<n, m>> \in R)
  BY <1>1, WFMin, Zenon
<1>3. ASSUME NEW n \in S
      PROVE  m <= n
  <2>1. n \in Nat /\ m \in Nat
    OBVIOUS
  <2>2. n < m => <<n, m>> \in R
    BY <2>1
  <2>3. ~(n < m)
    BY <1>2, <2>2
  <2>4. QED
    BY <2>1, <2>3
<1>4. QED
  BY <1>3

LEMMA Largest ==
  ASSUME NEW S \in SUBSET Nat, S # {}, NEW b \in Nat, \A n \in S : n <= b
  PROVE  \E m \in S : \A n \in S : m >= n
<1> DEFINE T == {b - n : n \in S}
<1>1. \A n \in S : n \in Nat /\ b - n \in Nat
  OBVIOUS
<1>2. T \in SUBSET Nat
  BY <1>1
<1>3. T # {}
  OBVIOUS
<1>4. PICK t \in T : \A u \in T : t <= u
  BY <1>2, <1>3, Smallest
<1>5. PICK m \in S : t = b - m
  BY <1>4
<1>6. \A n \in S : b - m <= b - n
  BY <1>4, <1>5
<1> HIDE DEF T
<1>7. \A n \in S : m >= n
  BY <1>1, <1>6
<1>8. QED
  BY <1>7

-----------------------------------------------------------------------------
(* Reports. *)

LEMMA DelayIsTime ==
  ASSUME NEW t \in Nat
  PROVE  ReportsOf!Delay(t) \in Nat
<1> DEFINE rows == {i \in DOMAIN Schedule : t < Schedule[i][1]}
<1>1. CASE rows = {}
  BY <1>1, ReportsAssumption DEF ReportsOf!Delay
<1>2. CASE rows # {}
  <2>1. rows \in SUBSET Nat
    BY ReportsAssumption
  <2>2. \E i \in rows : \A j \in rows : i <= j
    BY <1>2, <2>1, Smallest
  <2> DEFINE i == CHOOSE i \in rows : \A j \in rows : i <= j
  <2>3. i \in rows
    BY <2>2, Zenon
  <2>4. ReportsOf!Delay(t) = Schedule[i][2]
    BY <1>2, Zenon DEF ReportsOf!Delay
  <2> HIDE DEF i
  <2>5. Schedule[i] \in Nat \X Nat
    BY <2>3, ReportsAssumption
  <2>6. QED
    BY <2>4, <2>5
<1>3. QED
  BY <1>1, <1>2

(* The next look comes by the end of the day. *)
LEMMA LookInTime ==
  ASSUME ReportsOf!TypeOK
  PROVE  ReportsOf!NextCheck \in 0..Day /\ ReportsOf!NextCheck \in 0..MaxTime + FirstDelay
<1>1. reportNow \in Nat
  BY ReportsAssumption DEF ReportsOf!TypeOK
<1>2. ReportsOf!Delay(reportNow) \in Nat
  BY <1>1, DelayIsTime
<1>3. QED
  BY <1>1, <1>2, ReportsAssumption DEF ReportsOf!NextCheck, ReportsOf!Earlier


(* What is not in the tables. *)
ReportScalars ==
  /\ reportNow \in 0..MaxTime /\ reportSettings \in [{"smtp", "reply"} -> BOOLEAN]
  /\ reportAt \in {"taken", "acting", "replied", "nothing"}
  /\ reportFinal \subseteq Rows /\ reportWithdrawn \subseteq Rows /\ reportWaived \in BOOLEAN

LEMMA ReportsParts ==
  ReportsOf!IInv <=> ReportScalars /\ ReportsOf!Tables /\ ReportsOf!Unanswered /\ ReportsOf!Answered
<1>1. ASSUME ReportScalars, ReportsOf!Tables
      PROVE  ReportsOf!TypeOK
  <2>1. \A i \in DOMAIN reportReports : reportReports[i].kind \in {"refused", "first", "final", "timeout"}
    <3>1. \A i \in DOMAIN reportReports : reportReports[i] \in ReportsOf!Told
      BY <1>1 DEF ReportsOf!Tables
    <3>2. QED
      BY <3>1 DEF ReportsOf!Told
  <2>2. \A m \in reportOutbox : m.report \in DOMAIN reportReports /\ m.tries \in 0..MailRetries
    BY <1>1 DEF ReportsOf!Tables
  <2>3. reportJob.stage \in {"none", "first", "final"} /\ reportJob.at \in 0..MaxTime + FirstDelay
    BY <1>1 DEF ReportsOf!Tables
  <2>4. QED
    BY <1>1, <2>1, <2>2, <2>3 DEF ReportScalars, ReportsOf!TypeOK
<1>2. QED
  BY <1>1, Zenon DEF ReportsOf!IInv, ReportScalars, ReportsOf!TypeOK

(* A report is added to those there are. *)
LEMMA SendAdds ==
  ASSUME ReportScalars, ReportsOf!Tables, NEW kind \in {"refused", "first", "final", "timeout"},
         ReportsOf!Send(kind)
  PROVE  /\ reportReports' \in Seq(ReportsOf!Told)
         /\ reportOutbox' \subseteq [report : DOMAIN reportReports', tries : 0..MailRetries]
         /\ Len(reportReports') = Len(reportReports) + 1 /\ Len(reportReports) \in Nat
         /\ \A i \in 1..Len(reportReports) : reportReports'[i] = reportReports[i]
         /\ LET last == reportReports'[Len(reportReports')]
            IN  /\ last.kind = kind /\ last.open = ~ReportsOf!AllFinal
                /\ last.late = (reportNow >= Day)
                /\ kind = "final" => last.told = {ReportsOf!Outcome(q) : q \in Rows}
<1> DEFINE r == ReportsOf!Report(kind)
<1>1. /\ reportReports \in Seq(ReportsOf!Told)
      /\ reportOutbox \subseteq [report : DOMAIN reportReports, tries : 0..MailRetries]
      /\ reportStatus \in [Rows -> ReportsOf!AllStatuses]
  BY DEF ReportScalars, ReportsOf!Tables
<1>2. /\ reportReports' = Append(reportReports, r)
      /\ reportOutbox' = reportOutbox \cup {[report |-> Len(reportReports) + 1, tries |-> 0]}
  BY DEF ReportsOf!Send, ReportsOf!Queued
<1> DEFINE said == IF kind = "final" THEN {ReportsOf!Outcome(q) : q \in Rows} ELSE {}
<1>3. r = [kind |-> kind, open |-> ~ReportsOf!AllFinal, late |-> reportNow >= Day, told |-> said]
  BY DEF ReportsOf!Report
<1>4. r \in ReportsOf!Told
  <2>1. said \in SUBSET [row : Rows, status : ReportsOf!AllStatuses, dated : BOOLEAN]
    <3>1. \A q \in Rows :
            ReportsOf!Outcome(q) \in [row : Rows, status : ReportsOf!AllStatuses, dated : BOOLEAN]
      BY <1>1 DEF ReportsOf!Outcome
    <3>2. QED
      BY <3>1
  <2>2. (~ReportsOf!AllFinal) \in BOOLEAN
    BY Zenon
  <2> HIDE DEF said
  <2>3. QED
    BY <1>3, <2>1, <2>2 DEF ReportsOf!Told
<1> HIDE DEF r
<1>5. /\ reportReports' \in Seq(ReportsOf!Told)
      /\ Len(reportReports') = Len(reportReports) + 1 /\ Len(reportReports) \in Nat
      /\ \A i \in 1..Len(reportReports) : reportReports'[i] = reportReports[i]
      /\ reportReports'[Len(reportReports')] = r
      /\ DOMAIN reportReports \subseteq DOMAIN reportReports'
      /\ Len(reportReports) + 1 \in DOMAIN reportReports'
  BY <1>1, <1>2, <1>4
<1>6. reportOutbox' \subseteq [report : DOMAIN reportReports', tries : 0..MailRetries]
  <2>1. 0 \in 0..MailRetries
    BY ReportsAssumption
  <2>2. QED
    BY <1>1, <1>2, <1>5, <2>1
<1>7. QED
  BY <1>3, <1>5, <1>6

(* Steps that move neither the job nor the reports. *)
LEMMA ReportsWait ==
  ASSUME ReportsOf!IInv, ReportScalars',
         reportOutbox' \subseteq [report : DOMAIN reportReports, tries : 0..MailRetries],
         UNCHANGED <<reportStatus, reportFinal, reportWithdrawn, reportJob, reportReports, reportWaived>>,
         \/ reportAt' = reportAt
         \/ reportAt = "taken" /\ reportAt' = "acting"
         \/ reportAt = "acting" /\ reportAt' = "nothing"
  PROVE  ReportsOf!IInv'
<1>1. ReportScalars /\ ReportsOf!Tables /\ ReportsOf!Unanswered /\ ReportsOf!Answered
  BY ReportsParts
<1>2. ReportsOf!Tables'
  BY <1>1 DEF ReportsOf!Tables
<1>3. ReportsOf!Unanswered' /\ ReportsOf!Answered'
  BY <1>1 DEF ReportsOf!Unanswered, ReportsOf!Answered, ReportsOf!Stands
<1>4. QED
  BY <1>2, <1>3, ReportsParts, PTL

LEMMA ReportsStep ==
  ASSUME ReportsOf!IInv, ReportsOf!Next
  PROVE  ReportsOf!IInv'
<1> USE DEF ReportsOf!mail, ReportsOf!messages, ReportsOf!Due, ReportsOf!Wanted
<1>0. ReportScalars /\ ReportsOf!Tables /\ ReportsOf!Unanswered /\ ReportsOf!Answered
  BY ReportsParts
<1>T. /\ reportOutbox \subseteq [report : DOMAIN reportReports, tries : 0..MailRetries]
      /\ reportReports \in Seq(ReportsOf!Told)
      /\ reportJob \in [stage : {"none", "first", "final"}, at : 0..MaxTime + FirstDelay]
      /\ reportStatus \in [Rows -> ReportsOf!AllStatuses]
      /\ \A r \in Rows \ (reportFinal \cup reportWithdrawn) :
           reportStatus[r] \in {"queued", "sent"} \cup ReportsOf!Failures
  BY <1>0 DEF ReportsOf!Tables
<1>P. ReportScalars' /\ ReportsOf!Tables' /\ ReportsOf!Unanswered' /\ ReportsOf!Answered' => ReportsOf!IInv'
  BY ReportsParts, PTL
<1>1. CASE ReportsOf!Tick \/ ReportsOf!Taken \/ ReportsOf!Die
  <2>1. ReportScalars'
    BY <1>0, <1>1, ReportsAssumption DEF ReportScalars, ReportsOf!Tick, ReportsOf!Taken, ReportsOf!Die
  <2>2. /\ UNCHANGED <<reportStatus, reportFinal, reportWithdrawn, reportJob, reportReports, reportWaived, reportOutbox>>
        /\ \/ reportAt' = reportAt
           \/ reportAt = "taken" /\ reportAt' = "acting"
           \/ reportAt = "acting" /\ reportAt' = "nothing"
    BY <1>1 DEF ReportsOf!Tick, ReportsOf!Taken, ReportsOf!Die
  <2>3. QED
    BY <1>T, <2>1, <2>2, ReportsWait
<1>2. ASSUME NEW f \in {"smtp", "reply"}, ReportsOf!Change(f)
      PROVE  ReportsOf!IInv'
  <2>1. ReportScalars'
    BY <1>0, <1>2 DEF ReportScalars, ReportsOf!Change
  <2>2. UNCHANGED <<reportAt, reportStatus, reportFinal, reportWithdrawn, reportJob, reportReports, reportWaived, reportOutbox>>
    BY <1>2 DEF ReportsOf!Change
  <2>3. QED
    BY <1>T, <2>1, <2>2, ReportsWait
<1>3. ASSUME NEW r \in Rows, ReportsOf!Progress(r) \/ ReportsOf!Cancel(r)
      PROVE  ReportsOf!IInv'
  <2>1. UNCHANGED <<reportNow, reportSettings, reportAt, reportJob, reportReports, reportOutbox, reportWaived>>
    BY <1>3 DEF ReportsOf!Progress, ReportsOf!Cancel
  <2>2. /\ reportStatus' \in [Rows -> ReportsOf!AllStatuses]
        /\ reportFinal' \subseteq Rows
        /\ reportWithdrawn' \subseteq Rows /\ reportWithdrawn \subseteq reportWithdrawn'
        /\ \A q \in Rows \ {r} : /\ reportStatus'[q] = reportStatus[q]
                                 /\ q \in reportFinal' <=> q \in reportFinal
                                 /\ q \in reportWithdrawn' <=> q \in reportWithdrawn
    <3>1. CASE ReportsOf!Cancel(r)
      BY <1>0, <1>T, <3>1 DEF ReportsOf!Cancel, ReportScalars
    <3>2. CASE ReportsOf!Progress(r)
      <4>1. /\ reportWithdrawn' = reportWithdrawn
            /\ \E s \in ReportsOf!AllStatuses : reportStatus' = [reportStatus EXCEPT ![r] = s]
            /\ reportFinal' \in {reportFinal, reportFinal \cup {r}, reportFinal \ {r}}
        BY <3>2 DEF ReportsOf!Progress, ReportsOf!Crossed, ReportsOf!HandOver, ReportsOf!Poll,
                    ReportsOf!Becomes, ReportsOf!AllStatuses, ReportsOf!FinalStatuses, ReportsOf!Failures
      <4>2. QED
        BY <1>0, <1>T, <4>1 DEF ReportScalars
    <3>3. QED
      BY <1>3, <3>1, <3>2
  <2>3. r \in reportWithdrawn' \/ /\ r \notin reportFinal
                                  /\ reportStatus[r] \in ReportsOf!Failures =>
                                       reportStatus'[r] \in ReportsOf!Failures
                                  /\ r \notin reportFinal' =>
                                       reportStatus'[r] \in {"queued", "sent"} \cup ReportsOf!Failures
    BY <1>T, <1>3 DEF ReportsOf!Progress, ReportsOf!Cancel, ReportsOf!HandOver, ReportsOf!Poll,
                      ReportsOf!Becomes, ReportsOf!Failures
  <2>4. ReportScalars'
    BY <1>0, <2>1, <2>2 DEF ReportScalars
  <2>5. ReportsOf!Tables'
    <3>1. \A q \in Rows \ (reportFinal' \cup reportWithdrawn') :
            reportStatus'[q] \in {"queued", "sent"} \cup ReportsOf!Failures
      BY <1>T, <2>2, <2>3
    <3>2. QED
      BY <1>T, <2>1, <2>2, <3>1 DEF ReportsOf!Tables
  <2>6. ASSUME NEW o \in [row : Rows, status : ReportsOf!AllStatuses, dated : BOOLEAN],
               \/ o.row \in reportWithdrawn
               \/ ReportsOf!Stands(o) /\ (o.dated => o.row \in reportFinal)
        PROVE  \/ o.row \in reportWithdrawn'
               \/ ReportsOf!Stands(o)' /\ (o.dated => o.row \in reportFinal')
    <3>1. CASE o.row = r
      BY <2>2, <2>3, <2>6, <3>1 DEF ReportsOf!Stands, ReportsOf!Failures
    <3>2. CASE o.row # r
      BY <2>2, <2>6, <3>2 DEF ReportsOf!Stands
    <3>3. QED
      BY <3>1, <3>2
  <2>7. ReportsOf!Unanswered'
    BY <1>0, <2>1 DEF ReportsOf!Unanswered
  <2>8. ReportsOf!Answered'
    <3>1. ASSUME reportAt = "replied", Len(reportReports) = 2, reportReports[2].kind = "final",
                 \A o \in reportReports[2].told :
                   \/ o.row \in reportWithdrawn
                   \/ ReportsOf!Stands(o) /\ (o.dated => o.row \in reportFinal)
          PROVE  \A o \in reportReports[2].told :
                   \/ o.row \in reportWithdrawn'
                   \/ ReportsOf!Stands(o)' /\ (o.dated => o.row \in reportFinal')
      <4>1. reportReports[2] \in ReportsOf!Told
        BY <1>T, <3>1
      <4>2. reportReports[2].told \subseteq [row : Rows, status : ReportsOf!AllStatuses, dated : BOOLEAN]
        BY <4>1 DEF ReportsOf!Told
      <4>3. QED
        BY <2>6, <3>1, <4>2
    <3>2. QED
      BY <1>0, <2>1, <3>1 DEF ReportsOf!Answered
  <2>9. QED
    BY <1>P, <2>4, <2>5, <2>7, <2>8
<1>4. CASE ReportsOf!Reply
  <2>1. /\ reportAt = "acting" /\ reportReports = <<>> /\ reportJob.stage = "none"
        /\ UNCHANGED <<reportNow, reportSettings, reportStatus, reportFinal, reportWithdrawn, reportWaived>>
    BY <1>0, <1>4 DEF ReportsOf!Reply, ReportsOf!Unanswered
  <2>2. \/ reportAt' = "nothing" /\ UNCHANGED <<reportJob, reportReports, reportOutbox>>
        \/ reportAt' = "nothing" /\ ReportsOf!Send("refused") /\ UNCHANGED reportJob
        \/ /\ reportAt' = "replied" /\ reportJob' = [stage |-> "first", at |-> reportNow + FirstDelay]
           /\ UNCHANGED <<reportReports, reportOutbox>>
    BY <1>4 DEF ReportsOf!Reply, ReportsOf!Send
  <2>3. ReportScalars'
    BY <1>0, <2>1, <2>2 DEF ReportScalars
  <2>4. CASE reportAt' = "nothing" /\ UNCHANGED <<reportJob, reportReports, reportOutbox>>
    BY <1>T, <2>1, <2>3, <2>4, ReportsWait
  <2>5. CASE reportAt' = "nothing" /\ ReportsOf!Send("refused") /\ UNCHANGED reportJob
    <3>1. /\ reportReports' \in Seq(ReportsOf!Told)
          /\ reportOutbox' \subseteq [report : DOMAIN reportReports', tries : 0..MailRetries]
          /\ Len(reportReports') = 1 /\ reportReports'[1].kind = "refused"
      <4>1. Len(reportReports) = 0
        BY <2>1
      <4>2. /\ reportReports' \in Seq(ReportsOf!Told)
            /\ reportOutbox' \subseteq [report : DOMAIN reportReports', tries : 0..MailRetries]
            /\ Len(reportReports') = Len(reportReports) + 1
            /\ reportReports'[Len(reportReports')].kind = "refused"
        BY <1>0, <2>5, SendAdds
      <4>3. QED
        BY <4>1, <4>2
    <3>2. ReportsOf!Tables'
      BY <1>T, <2>1, <2>5, <3>1 DEF ReportsOf!Tables
    <3>3. ReportsOf!Unanswered' /\ ReportsOf!Answered'
      BY <2>1, <2>5, <3>1 DEF ReportsOf!Unanswered, ReportsOf!Answered
    <3>4. QED
      BY <1>P, <2>3, <3>2, <3>3
  <2>6. CASE /\ reportAt' = "replied" /\ reportJob' = [stage |-> "first", at |-> reportNow + FirstDelay]
             /\ UNCHANGED <<reportReports, reportOutbox>>
    <3>1. reportNow + FirstDelay \in 0..MaxTime + FirstDelay
      BY <1>0, ReportsAssumption DEF ReportScalars
    <3>2. ReportsOf!Tables'
      BY <1>T, <2>1, <2>6, <3>1 DEF ReportsOf!Tables
    <3>3. ReportsOf!Unanswered' /\ ReportsOf!Answered'
      BY <2>1, <2>6 DEF ReportsOf!Unanswered, ReportsOf!Answered
    <3>4. QED
      BY <1>P, <2>3, <3>2, <3>3
  <2>7. QED
    BY <2>2, <2>4, <2>5, <2>6
<1>5. CASE ReportsOf!Waive
  <2>1. /\ reportJob.stage # "none" /\ reportAt = "replied"
        /\ reportJob' = [stage |-> "none", at |-> 0] /\ reportWaived' = TRUE
        /\ UNCHANGED <<reportNow, reportSettings, reportAt, reportStatus, reportFinal, reportWithdrawn, reportReports, reportOutbox>>
    BY <1>0, <1>5 DEF ReportsOf!Waive, ReportsOf!NoJob, ReportsOf!Unanswered
  <2>2. ReportScalars'
    BY <1>0, <2>1 DEF ReportScalars
  <2>3. 0 \in 0..MaxTime + FirstDelay
    BY ReportsAssumption
  <2>4. ReportsOf!Tables'
    BY <1>T, <2>1, <2>3 DEF ReportsOf!Tables
  <2>5. ReportsOf!Unanswered' /\ ReportsOf!Answered'
    BY <1>0, <1>T, <2>1 DEF ReportsOf!Unanswered, ReportsOf!Answered
  <2>6. QED
    BY <1>P, <2>2, <2>4, <2>5
<1>6. CASE ReportsOf!FirstReport
  <2>1. /\ reportJob.stage = "first" /\ reportAt = "replied" /\ reportReports = <<>>
        /\ ReportsOf!Send("first")
        /\ UNCHANGED <<reportNow, reportSettings, reportAt, reportStatus, reportFinal, reportWithdrawn, reportWaived>>
    BY <1>0, <1>6 DEF ReportsOf!FirstReport, ReportsOf!Unanswered, ReportsOf!Answered
  <2>2. /\ reportReports' \in Seq(ReportsOf!Told)
        /\ reportOutbox' \subseteq [report : DOMAIN reportReports', tries : 0..MailRetries]
        /\ Len(reportReports') = 1 /\ reportReports'[1].kind = "first"
        /\ reportReports'[1].open = ~ReportsOf!AllFinal
    <3>1. Len(reportReports) = 0
      BY <2>1
    <3>2. /\ reportReports' \in Seq(ReportsOf!Told)
          /\ reportOutbox' \subseteq [report : DOMAIN reportReports', tries : 0..MailRetries]
          /\ Len(reportReports') = Len(reportReports) + 1
          /\ reportReports'[Len(reportReports')].kind = "first"
          /\ reportReports'[Len(reportReports')].open = ~ReportsOf!AllFinal
      BY <1>0, <2>1, SendAdds
    <3>3. QED
      BY <3>1, <3>2
  <2>3. /\ reportJob' \in [stage : {"none", "first", "final"}, at : 0..MaxTime + FirstDelay]
        /\ \/ reportJob'.stage = "final" /\ reportJob'.at <= Day
           \/ reportJob'.stage = "none" /\ ReportsOf!AllFinal
    <3>1. ReportsOf!NextCheck \in 0..Day /\ ReportsOf!NextCheck \in 0..MaxTime + FirstDelay
      BY LookInTime DEF ReportsOf!IInv
    <3>2. 0 \in 0..MaxTime + FirstDelay
      BY ReportsAssumption
    <3>3. CASE ReportsOf!AllFinal
      <4>1. reportJob' = [stage |-> "none", at |-> 0]
        BY <1>6, <3>3 DEF ReportsOf!FirstReport, ReportsOf!AfterFirst, ReportsOf!NoJob
      <4>2. QED
        BY <3>2, <3>3, <4>1
    <3>4. CASE ~ReportsOf!AllFinal
      <4>1. reportJob' = [stage |-> "final", at |-> ReportsOf!NextCheck]
        BY <1>6, <3>4 DEF ReportsOf!FirstReport, ReportsOf!AfterFirst
      <4>2. QED
        BY <3>1, <4>1, ReportsAssumption
    <3>5. QED
      BY <3>3, <3>4
  <2>4. ReportScalars'
    BY <1>0, <2>1 DEF ReportScalars
  <2>5. ReportsOf!Tables'
    BY <1>T, <2>1, <2>2, <2>3 DEF ReportsOf!Tables
  <2>6. ReportsOf!AllFinal => ~reportReports'[1].open
    BY <2>2
  <2>7. ReportsOf!Unanswered' /\ ReportsOf!Answered'
    BY <2>1, <2>2, <2>3, <2>6 DEF ReportsOf!Unanswered, ReportsOf!Answered
  <2>8. QED
    BY <1>P, <2>4, <2>5, <2>7
<1>7. CASE ReportsOf!LastReport
  <2> DEFINE kind == IF ReportsOf!AllFinal THEN "final" ELSE "timeout"
  <2>1. /\ reportJob.stage = "final" /\ reportAt = "replied" /\ Len(reportReports) = 1
        /\ reportReports[1].kind = "first"
        /\ ReportsOf!AllFinal \/ reportNow >= Day
        /\ ReportsOf!Send(kind)
        /\ reportJob' = [stage |-> "none", at |-> 0]
        /\ UNCHANGED <<reportNow, reportSettings, reportAt, reportStatus, reportFinal, reportWithdrawn, reportWaived>>
    BY <1>0, <1>7 DEF ReportsOf!LastReport, ReportsOf!NoJob, ReportsOf!Unanswered, ReportsOf!Answered
  <2>2. /\ reportReports' \in Seq(ReportsOf!Told)
        /\ reportOutbox' \subseteq [report : DOMAIN reportReports', tries : 0..MailRetries]
        /\ Len(reportReports') = 2 /\ reportReports'[1] = reportReports[1]
        /\ reportReports'[2].kind = kind /\ reportReports'[2].open = ~ReportsOf!AllFinal
        /\ reportReports'[2].late = (reportNow >= Day)
        /\ kind = "final" => reportReports'[2].told = {ReportsOf!Outcome(q) : q \in Rows}
    BY <1>0, <2>1, SendAdds
  <2>3. \/ kind = "final" /\ ReportsOf!AllFinal
        \/ kind = "timeout" /\ ~ReportsOf!AllFinal /\ reportNow >= Day
    BY <2>1
  <2>9. ASSUME ReportsOf!AllFinal, NEW q \in Rows, NEW o, o = ReportsOf!Outcome(q)
        PROVE  \/ o.row \in reportWithdrawn'
               \/ ReportsOf!Stands(o)' /\ (o.dated => o.row \in reportFinal')
    <3>1. q \in reportFinal \/ reportStatus[q] \in ReportsOf!FinalStatuses
      BY <2>9 DEF ReportsOf!AllFinal, ReportsOf!IsFinal
    <3>2. q \in reportFinal \cup reportWithdrawn \/ reportStatus[q] \in ReportsOf!Failures
      BY <1>T, <3>1 DEF ReportsOf!FinalStatuses, ReportsOf!Failures
    <3>3. /\ o.row = q /\ o.status = reportStatus[q] /\ o.dated = (q \in reportFinal)
          /\ UNCHANGED <<reportStatus, reportFinal, reportWithdrawn>>
      BY <2>1, <2>9 DEF ReportsOf!Outcome
    <3>4. QED
      BY <3>2, <3>3 DEF ReportsOf!Stands
  <2> HIDE DEF kind
  <2>4. ReportScalars'
    BY <1>0, <2>1 DEF ReportScalars
  <2>5. 0 \in 0..MaxTime + FirstDelay
    BY ReportsAssumption
  <2>6. ReportsOf!Tables'
    BY <1>T, <2>1, <2>2, <2>5 DEF ReportsOf!Tables
  <2>7. ReportsOf!Unanswered' /\ ReportsOf!Answered'
    <3>1. kind = "final" => \A o \in reportReports'[2].told :
            \/ o.row \in reportWithdrawn'
            \/ ReportsOf!Stands(o)' /\ (o.dated => o.row \in reportFinal')
      BY <2>2, <2>3, <2>9
    <3>2. ReportsOf!Unanswered'
      BY <2>1, <2>2 DEF ReportsOf!Unanswered
    <3>3. Len(reportReports') = 2 /\ reportReports'[1].kind = "first" /\ reportJob'.stage = "none"
      BY <2>1, <2>2
    <3>4. CASE kind = "final"
      BY <2>2, <3>1, <3>2, <3>3, <3>4 DEF ReportsOf!Answered
    <3>5. CASE kind = "timeout"
      <4>1. reportReports'[2].kind = "timeout" /\ reportReports'[2].late /\ reportReports'[2].open
        BY <2>2, <2>3, <3>5
      <4>2. QED
        BY <3>2, <3>3, <4>1 DEF ReportsOf!Answered
    <3>6. QED
      BY <2>3, <3>4, <3>5
  <2>8. QED
    BY <1>P, <2>4, <2>6, <2>7
<1>8. CASE ReportsOf!LookAgain
  <2>1. /\ reportJob.stage = "final"
        /\ reportJob' = [reportJob EXCEPT !.at = ReportsOf!NextCheck]
        /\ UNCHANGED <<reportNow, reportSettings, reportAt, reportStatus, reportFinal, reportWithdrawn, reportReports, reportOutbox, reportWaived>>
    BY <1>8 DEF ReportsOf!LookAgain
  <2>2. ReportsOf!NextCheck \in 0..Day /\ ReportsOf!NextCheck \in 0..MaxTime + FirstDelay
    BY LookInTime DEF ReportsOf!IInv
  <2>3. reportJob' = [stage |-> "final", at |-> ReportsOf!NextCheck]
    BY <1>T, <2>1
  <2>4. ReportScalars'
    BY <1>0, <2>1 DEF ReportScalars
  <2>5. ReportsOf!Tables'
    BY <1>T, <2>1, <2>2, <2>3 DEF ReportsOf!Tables
  <2>6. reportJob'.stage = "final" /\ reportJob'.at <= Day
    BY <2>2, <2>3, ReportsAssumption
  <2>7. ReportsOf!Unanswered' /\ ReportsOf!Answered'
    BY <1>0, <2>1, <2>6 DEF ReportsOf!Unanswered, ReportsOf!Answered
  <2>8. QED
    BY <1>P, <2>4, <2>5, <2>7
<1>9. ASSUME NEW m \in reportOutbox, ReportsOf!Drop(m) \/ ReportsOf!Deliver(m) \/ ReportsOf!Fail(m)
      PROVE  ReportsOf!IInv'
  <2>1. UNCHANGED <<reportNow, reportSettings, reportAt, reportStatus, reportFinal, reportWithdrawn, reportJob, reportReports, reportWaived>>
    BY <1>9 DEF ReportsOf!Drop, ReportsOf!Deliver, ReportsOf!Fail
  <2>2. ReportScalars'
    BY <1>0, <2>1 DEF ReportScalars
  <2>3. m \in [report : DOMAIN reportReports, tries : 0..MailRetries]
    BY <1>T
  <2>4. m.tries # MailRetries => [m EXCEPT !.tries = @ + 1] \in [report : DOMAIN reportReports, tries : 0..MailRetries]
    <3>1. m = [report |-> m.report, tries |-> m.tries] /\ m.report \in DOMAIN reportReports /\ m.tries \in 0..MailRetries
      BY <2>3
    <3>2. [m EXCEPT !.tries = @ + 1] = [report |-> m.report, tries |-> m.tries + 1]
      BY <3>1
    <3>3. m.tries # MailRetries => m.tries + 1 \in 0..MailRetries
      BY <3>1, ReportsAssumption
    <3>4. QED
      BY <3>1, <3>2, <3>3
  <2>5. reportOutbox' \subseteq [report : DOMAIN reportReports, tries : 0..MailRetries]
    BY <1>T, <1>9, <2>4 DEF ReportsOf!Drop, ReportsOf!Deliver, ReportsOf!Fail
  <2>6. QED
    BY <2>1, <2>2, <2>5, ReportsWait
<1>10. QED
  BY <1>1, <1>2, <1>3, <1>4, <1>5, <1>6, <1>7, <1>8, <1>9 DEF ReportsOf!Next

LEMMA ReportsBegin == ReportsOf!Init => ReportsOf!IInv
<1> SUFFICES ASSUME ReportsOf!Init
             PROVE  ReportsOf!IInv
  OBVIOUS
<1> USE DEF ReportsOf!Init
<1>1. ReportScalars
  <2>1. 0 \in 0..MaxTime
    BY ReportsAssumption
  <2>2. reportSettings \in [{"smtp", "reply"} -> BOOLEAN]
    OBVIOUS
  <2>3. QED
    BY <2>1, <2>2 DEF ReportScalars
<1>2. ReportsOf!Tables
  BY ReportsAssumption DEF ReportsOf!Tables, ReportsOf!NoJob, ReportsOf!AllStatuses, ReportsOf!FinalStatuses
<1>3. ReportsOf!Unanswered /\ ReportsOf!Answered
  BY DEF ReportsOf!Unanswered, ReportsOf!Answered, ReportsOf!NoJob
<1>4. QED
  BY <1>1, <1>2, <1>3, ReportsParts

(* What the invariant says of the property.                                *)
LEMMA ReportsTell ==
  ASSUME ReportsOf!IInv
  PROVE  ReportsOf!TypeOK /\ ReportsOf!OutcomeIsTold /\ ReportsOf!PromiseIsOwed
<1>1. ReportsOf!TypeOK /\ ReportsOf!Tables /\ ReportsOf!Unanswered /\ ReportsOf!Answered
  BY DEF ReportsOf!IInv
<1>2. reportReports \in Seq(ReportsOf!Told) /\ Len(reportReports) \in Nat
  BY <1>1 DEF ReportsOf!Tables
<1>3. CASE reportAt # "replied"
  <2>1. \A k \in {"first", "final", "timeout"} : ReportsOf!Kinds(k) = {}
    BY <1>1, <1>3 DEF ReportsOf!Unanswered, ReportsOf!Kinds
  <2>2. QED
    BY <1>1, <2>1 DEF ReportsOf!OutcomeIsTold, ReportsOf!PromiseIsOwed
<1>4. CASE reportAt = "replied" /\ Len(reportReports) <= 1
  <2>1. ReportsOf!Kinds("final") = {} /\ ReportsOf!Kinds("timeout") = {}
    BY <1>1, <1>2, <1>4 DEF ReportsOf!Answered, ReportsOf!Kinds
  <2>2. (\E i \in ReportsOf!Kinds("first") : reportReports[i].open) =>
          (reportJob.stage = "final" /\ reportJob.at <= Day) \/ reportWaived
    <3>1. ASSUME NEW i \in ReportsOf!Kinds("first"), reportReports[i].open
          PROVE  i = 1 /\ Len(reportReports) = 1
      <4>1. i \in 1..Len(reportReports)
        BY <1>2, <3>1 DEF ReportsOf!Kinds
      <4>2. QED
        BY <1>2, <1>4, <4>1
    <3>2. QED
      BY <1>1, <1>4, <3>1 DEF ReportsOf!Answered
  <2>3. QED
    BY <1>1, <2>1, <2>2 DEF ReportsOf!OutcomeIsTold, ReportsOf!PromiseIsOwed
<1>5. CASE reportAt = "replied" /\ Len(reportReports) = 2
  <2>1. /\ reportReports[1].kind = "first"
        /\ \/ /\ reportReports[2].kind = "final"
              /\ \A o \in reportReports[2].told : o.row \in reportWithdrawn \/ ReportsOf!Stands(o)
           \/ /\ reportReports[2].kind = "timeout"
              /\ reportReports[2].late /\ reportReports[2].open
    BY <1>1, <1>5 DEF ReportsOf!Answered
  <2>2. DOMAIN reportReports = {1, 2}
    BY <1>2, <1>5
  <2>3. /\ ReportsOf!Kinds("first") = {1}
        /\ ReportsOf!Kinds("final") \cup ReportsOf!Kinds("timeout") = {2}
        /\ ReportsOf!Kinds("final") # {} =>
             \A o \in reportReports[2].told : o.row \in reportWithdrawn \/ ReportsOf!Stands(o)
        /\ ReportsOf!Kinds("timeout") # {} => reportReports[2].late /\ reportReports[2].open
    BY <2>1, <2>2 DEF ReportsOf!Kinds
  <2>4. 1 = 2 - 1 /\ Len(reportReports) = 2
    BY <1>5
  <2>5. ReportsOf!OutcomeIsTold
    BY <2>3, <2>4 DEF ReportsOf!OutcomeIsTold
  <2>6. ReportsOf!PromiseIsOwed
    BY <2>3 DEF ReportsOf!PromiseIsOwed
  <2>7. QED
    BY <1>1, <2>5, <2>6
<1>6. Len(reportReports) <= 1 \/ Len(reportReports) = 2 \/ reportAt # "replied"
  <2>1. reportAt = "replied" => Len(reportReports) <= 2
    BY <1>1 DEF ReportsOf!Answered
  <2>2. \A n \in Nat : n <= 2 => n <= 1 \/ n = 2
    OBVIOUS
  <2>3. QED
    BY <1>2, <2>1, <2>2
<1>7. QED
  BY <1>3, <1>4, <1>5, <1>6


-----------------------------------------------------------------------------
(* Threads. *)

SmsRows ==
  [account : Accounts, service : Services, sender : Numbers, system : BOOLEAN,
   ref : 0..MaxTickets, via : Outs \cup {ThreadsOf!None}]

DeliveryRows(n) == [sms : 1..n, out : Outs, at : {"queued", "answered"}, ticket : 0..MaxTickets]

TicketRows(n) == [desk : {Desk[o] : o \in Outs}, out : Outs, ticket : 1..MaxTickets, sms : 1..n]

SentRows ==
  [by : Ins \cup {ThreadsOf!None}, key : ThreadKeys, service : Services, to : Numbers,
   answers : Nat, ticket : 0..MaxTickets]

LEMMA Redelivered ==
  ASSUME NEW n, NEW x \in DeliveryRows(n), NEW a \in {"queued", "answered"}, NEW t \in 0..MaxTickets
  PROVE  LET z == [x EXCEPT !.at = a, !.ticket = t]
         IN  z \in DeliveryRows(n) /\ z.sms = x.sms /\ z.out = x.out /\ z.at = a /\ z.ticket = t
BY DEF DeliveryRows

LEMMA SameFinite == ASSUME NEW S PROVE ThreadsOf!IsFiniteSet(S) <=> IsFiniteSet(S)
BY Zenon DEF ThreadsOf!IsFiniteSet, IsFiniteSet

(* What a call finds is the newest of the SMS with the ticket it names.    *)
LEMMA FoundIsOfKey ==
  ASSUME ThreadsOf!TypeOK, NEW t, NEW k
  PROVE  LET n == ThreadsOf!Found(t, k)
         IN  \/ n = 0
             \/ /\ n \in DOMAIN threadSms /\ threadSms[n].ref = t
                /\ threadSms[n].via # ThreadsOf!None /\ threadKeyOf[threadSms[n].via] = k
<1> DEFINE S == {n \in DOMAIN threadSms : threadSms[n].ref = t /\ threadSms[n].via # ThreadsOf!None
                                           /\ threadKeyOf[threadSms[n].via] = k}
<1>1. ThreadsOf!Found(t, k) = IF S = {} THEN 0 ELSE ThreadsOf!Max(S)
  BY DEF ThreadsOf!Found, ThreadsOf!Newest
<1>2. CASE S # {}
  <2>1. Len(threadSms) \in Nat /\ DOMAIN threadSms = 1..Len(threadSms)
    BY DEF ThreadsOf!TypeOK
  <2>2. S \in SUBSET Nat /\ \A n \in S : n <= Len(threadSms)
    BY <2>1
  <2>3. \E m \in S : \A n \in S : m >= n
    BY <1>2, <2>1, <2>2, Largest
  <2>4. ThreadsOf!Max(S) \in S
    BY <2>3, Zenon DEF ThreadsOf!Max
  <2>5. QED
    BY <1>1, <1>2, <2>4
<1>3. QED
  BY <1>1, <1>2

(* Nothing that was handed over is forgotten while tickets are added.      *)
LEMMA HandoversKept ==
  ASSUME ThreadsOf!IInv, threadMade \subseteq threadMade', ThreadsOf!IsFiniteSet(threadMade'),
         DOMAIN threadSms' = 1..Len(threadSms'), threadOpen' \subseteq DeliveryRows(Len(threadSms')),
         \A x \in threadOpen' \ threadOpen : x.at = "answered" =>
           \E y \in threadMade' : y.sms = x.sms /\ y.ticket = x.ticket /\ y.out = x.out,
         \A n \in DOMAIN threadSms' : threadSms'[n].via # ThreadsOf!None =>
           \/ n \in DOMAIN threadSms /\ threadSms'[n].ref = threadSms[n].ref /\ threadSms'[n].via = threadSms[n].via
           \/ \E y \in threadMade' : y.sms = n /\ y.ticket = threadSms'[n].ref /\ y.out = threadSms'[n].via
  PROVE  ThreadsOf!Handovers'
<1>1. /\ \A x \in threadOpen : x.at = "answered" =>
           \E y \in threadMade : y.sms = x.sms /\ y.ticket = x.ticket /\ y.out = x.out
      /\ \A n \in DOMAIN threadSms : threadSms[n].via # ThreadsOf!None =>
           \E y \in threadMade : y.sms = n /\ y.ticket = threadSms[n].ref /\ y.out = threadSms[n].via
  BY DEF ThreadsOf!IInv, ThreadsOf!Handovers
<1>2. \A x \in threadOpen' : x.at = "answered" =>
        \E y \in threadMade' : y.sms = x.sms /\ y.ticket = x.ticket /\ y.out = x.out
  BY <1>1
<1>3. \A n \in DOMAIN threadSms' : threadSms'[n].via # ThreadsOf!None =>
        \E y \in threadMade' : y.sms = n /\ y.ticket = threadSms'[n].ref /\ y.out = threadSms'[n].via
  BY <1>1
<1>4. QED
  BY <1>2, <1>3 DEF ThreadsOf!Handovers, DeliveryRows

LEMMA ThreadsStep ==
  ASSUME ThreadsOf!IInv, ThreadsOf!Next
  PROVE  ThreadsOf!IInv'
<1>0. /\ threadKeyOf \in [Outs \cup Ins -> ThreadKeys] /\ threadGone \subseteq Outs
      /\ threadSms \in Seq(SmsRows) /\ Len(threadSms) \in Nat /\ DOMAIN threadSms = 1..Len(threadSms)
      /\ threadMade \subseteq TicketRows(Len(threadSms))
      /\ threadSent \in Seq(SentRows) /\ \A j \in DOMAIN threadSent : threadSent[j].answers <= Len(threadSms)
      /\ threadOpen \subseteq DeliveryRows(Len(threadSms))
      /\ ThreadsOf!IsFiniteSet(threadMade)
      /\ ThreadsOf!TypeOK /\ ThreadsOf!Handovers
  BY DEF ThreadsOf!IInv, ThreadsOf!TypeOK, ThreadsOf!Handovers, SmsRows, TicketRows, SentRows, DeliveryRows
<1>T. ASSUME /\ threadKeyOf' \in [Outs \cup Ins -> ThreadKeys] /\ threadGone' \subseteq Outs
             /\ threadSms' \in Seq(SmsRows)
             /\ threadMade' \subseteq TicketRows(Len(threadSms'))
             /\ threadSent' \in Seq(SentRows) /\ \A j \in DOMAIN threadSent' : threadSent'[j].answers <= Len(threadSms'),
             ThreadsOf!Handovers'
      PROVE  ThreadsOf!IInv'
  <2>1. \A x \in threadOpen' : x.sms \in DOMAIN threadSms' /\ x.out \in Outs /\ x.at \in {"queued", "answered"}
    BY <1>T DEF ThreadsOf!Handovers
  <2>2. DOMAIN threadSms' = 1..Len(threadSms')
    BY <1>T
  <2>3. QED
    BY <1>T, <2>1, <2>2 DEF ThreadsOf!IInv, ThreadsOf!TypeOK, SmsRows, TicketRows, SentRows
<1>1. CASE ThreadsOf!Receive
  <2>1. PICK a \in Accounts, s \in Services, p \in Numbers, system \in BOOLEAN :
          /\ threadSms' = Append(threadSms, [account |-> a, service |-> s, sender |-> p, system |-> system,
                                             ref |-> 0, via |-> ThreadsOf!None])
          /\ \E os \in SUBSET (IF system THEN {} ELSE ThreadsOf!Listening(a, s)) :
               threadOpen' = threadOpen \cup ThreadsOf!Handed(Len(threadSms) + 1, os)
    BY <1>1 DEF ThreadsOf!Receive
  <2>2. PICK os \in SUBSET Outs : threadOpen' = threadOpen \cup ThreadsOf!Handed(Len(threadSms) + 1, os)
    BY <2>1 DEF ThreadsOf!Listening
  <2>3. UNCHANGED <<threadKeyOf, threadGone, threadMade, threadSent>>
    BY <1>1 DEF ThreadsOf!Receive
  <2> DEFINE row == [account |-> a, service |-> s, sender |-> p, system |-> system,
                     ref |-> 0, via |-> ThreadsOf!None]
  <2>4. row \in SmsRows /\ row.via = ThreadsOf!None
    <3>1. 0 \in 0..MaxTickets
      BY ThreadsAssumption
    <3>2. QED
      BY <3>1, Zenon DEF SmsRows
  <2>5. threadSms' = Append(threadSms, row)
    BY <2>1
  <2> HIDE DEF row
  <2>6. /\ threadSms' \in Seq(SmsRows) /\ DOMAIN threadSms' = 1..Len(threadSms')
        /\ Len(threadSms') = Len(threadSms) + 1
        /\ \A n \in DOMAIN threadSms : threadSms'[n] = threadSms[n]
        /\ threadSms'[Len(threadSms) + 1] = row
    BY <1>0, <2>4, <2>5
  <2>7. /\ \A j \in DOMAIN threadSent' : threadSent'[j].answers <= Len(threadSms')
        /\ threadMade' \subseteq TicketRows(Len(threadSms'))
    <3>1. \A j \in DOMAIN threadSent : threadSent[j].answers \in Nat
      <4>1. \A j \in DOMAIN threadSent : threadSent[j] \in SentRows
        BY <1>0
      <4>2. QED
        BY <4>1 DEF SentRows
    <3>2. 1..Len(threadSms) \subseteq 1..Len(threadSms')
      BY <1>0, <2>6
    <3>3. QED
      BY <1>0, <2>3, <2>6, <3>1, <3>2 DEF TicketRows
  <2>8. \A x \in threadOpen' \ threadOpen : x.at = "queued"
    BY <2>2 DEF ThreadsOf!Handed
  <2>9. threadOpen' \subseteq DeliveryRows(Len(threadSms'))
    <3>1. DOMAIN threadSms \subseteq DOMAIN threadSms' /\ Len(threadSms) + 1 \in DOMAIN threadSms'
      BY <1>0, <2>6
    <3>2. 0 \in 0..MaxTickets
      BY ThreadsAssumption
    <3>3. threadOpen \subseteq DeliveryRows(Len(threadSms'))
      BY <1>0, <2>6, <3>1 DEF DeliveryRows
    <3>4. ThreadsOf!Handed(Len(threadSms) + 1, os) \subseteq DeliveryRows(Len(threadSms'))
      BY <2>2, <2>6, <3>1, <3>2 DEF ThreadsOf!Handed, DeliveryRows
    <3>5. QED
      BY <2>2, <3>3, <3>4
  <2>10. \A n \in DOMAIN threadSms' : threadSms'[n].via # ThreadsOf!None =>
           n \in DOMAIN threadSms /\ threadSms'[n].ref = threadSms[n].ref /\ threadSms'[n].via = threadSms[n].via
    <3>1. \A n \in DOMAIN threadSms' : n \in DOMAIN threadSms \/ n = Len(threadSms) + 1
      BY <1>0, <2>6
    <3>2. QED
      BY <2>4, <2>6, <3>1
  <2>11. ThreadsOf!Handovers'
    BY <1>0, <2>3, <2>8, <2>9, <2>10, HandoversKept
  <2>12. QED
    BY <1>0, <1>T, <2>3, <2>6, <2>7, <2>11
<1>2. ASSUME NEW x \in threadOpen, ThreadsOf!Call(x)
      PROVE  ThreadsOf!IInv'
  <2> DEFINE d == Desk[x.out]
             t == ThreadsOf!Ticket(d)
             y == [desk |-> d, out |-> x.out, ticket |-> t, sms |-> x.sms]
             z == [x EXCEPT !.at = "answered", !.ticket = t]
  <2>1. /\ threadMade' = threadMade \cup {y}
        /\ threadOpen' = (threadOpen \ {x}) \cup {z}
        /\ t <= MaxTickets
        /\ UNCHANGED <<threadKeyOf, threadGone, threadSms, threadSent>>
    BY <1>2 DEF ThreadsOf!Call
  <2>2. t \in 1..MaxTickets
    <3> DEFINE c == Cardinality({u \in threadMade : u.desk = d})
    <3>1. c \in Nat
      BY <1>0, SameFinite, FS_Subset, FS_CardinalityType
    <3>2. t = c + 1
      BY Zenon DEF ThreadsOf!Ticket, ThreadsOf!Cardinality, Cardinality
    <3>3. t <= MaxTickets
      BY <2>1
    <3> HIDE DEF t, c
    <3>4. QED
      BY <3>1, <3>2, <3>3, ThreadsAssumption
  <2> HIDE DEF t
  <2>3. /\ z \in DeliveryRows(Len(threadSms))
        /\ z.sms = x.sms /\ z.out = x.out /\ z.ticket = t
        /\ x.sms \in DOMAIN threadSms /\ x.out \in Outs
    <3>1. t \in 0..MaxTickets /\ x \in DeliveryRows(Len(threadSms))
      BY <1>0, <2>2
    <3>2. QED
      BY <1>0, <3>1, Redelivered DEF DeliveryRows
  <2>4. y.sms = z.sms /\ y.ticket = z.ticket /\ y.out = z.out
    BY <2>3
  <2>5. z \in DeliveryRows(Len(threadSms))
    BY <2>3
  <2>M. threadMade' \subseteq TicketRows(Len(threadSms'))
    <3>1. y \in TicketRows(Len(threadSms))
      BY <1>0, <2>2, <2>3 DEF TicketRows
    <3> HIDE DEF y
    <3>2. QED
      BY <1>0, <2>1, <3>1
  <2> HIDE DEF y, z
  <2>6. threadOpen' \subseteq DeliveryRows(Len(threadSms'))
    BY <1>0, <2>1, <2>5
  <2>7. ThreadsOf!IsFiniteSet(threadMade')
    BY <1>0, <2>1, FS_AddElement, SameFinite, Zenon
  <2>8. \A v \in threadOpen' \ threadOpen : \E w \in threadMade' : w.sms = v.sms /\ w.ticket = v.ticket /\ w.out = v.out
    BY <2>1, <2>4
  <2>9. ThreadsOf!Handovers'
    BY <2>1, <2>6, <2>7, <2>8, HandoversKept
  <2>10. QED
    BY <1>0, <1>T, <2>1, <2>9, <2>M
<1>3. ASSUME NEW x \in threadOpen, ThreadsOf!Lost(x) \/ ThreadsOf!Over(x)
      PROVE  ThreadsOf!IInv'
  <2> DEFINE z == [x EXCEPT !.at = "queued", !.ticket = 0]
  <2>1. /\ threadOpen' \subseteq threadOpen \cup {z}
        /\ UNCHANGED <<threadKeyOf, threadGone, threadSms, threadMade, threadSent>>
    <3>1. CASE ThreadsOf!Lost(x)
      <4>1. threadOpen' = (threadOpen \ {x}) \cup (IF x.out \in threadGone THEN {} ELSE {z})
            /\ UNCHANGED <<threadKeyOf, threadGone, threadSms, threadMade, threadSent>>
        BY <3>1 DEF ThreadsOf!Lost
      <4> HIDE DEF z
      <4>2. QED
        BY <4>1
    <3>2. CASE ThreadsOf!Over(x)
      BY <3>2 DEF ThreadsOf!Over
    <3>3. QED
      BY <1>3, <3>1, <3>2
  <2>3. z \in DeliveryRows(Len(threadSms)) /\ z.at = "queued"
    <3>1. 0 \in 0..MaxTickets /\ x \in DeliveryRows(Len(threadSms))
      BY <1>0, ThreadsAssumption
    <3>2. "queued" \in {"queued", "answered"}
      OBVIOUS
    <3>3. QED
      BY <1>0, <3>1, <3>2, Redelivered DEF DeliveryRows
  <2> HIDE DEF z
  <2>4. /\ threadOpen' \subseteq DeliveryRows(Len(threadSms'))
        /\ \A v \in threadOpen' \ threadOpen : v.at = "queued"
    BY <1>0, <2>1, <2>3
  <2>5. ThreadsOf!Handovers'
    BY <1>0, <2>1, <2>4, HandoversKept
  <2>6. QED
    BY <1>0, <1>T, <2>1, <2>5
<1>4. ASSUME NEW x \in threadOpen, ThreadsOf!Store(x)
      PROVE  ThreadsOf!IInv'
  <2>1. /\ x.at = "answered"
        /\ threadSms' = [threadSms EXCEPT ![x.sms].ref = x.ticket, ![x.sms].via = x.out]
        /\ threadOpen' = threadOpen \ {x}
        /\ UNCHANGED <<threadKeyOf, threadGone, threadMade, threadSent>>
    BY <1>4 DEF ThreadsOf!Store
  <2>2. /\ x.sms \in DOMAIN threadSms /\ x.out \in Outs /\ x.ticket \in 0..MaxTickets
        /\ threadSms[x.sms] \in SmsRows
        /\ \A n \in DOMAIN threadSms : threadSms[n] \in SmsRows
    BY <1>0 DEF DeliveryRows
  <2> DEFINE row == [[threadSms[x.sms] EXCEPT !.ref = x.ticket] EXCEPT !.via = x.out]
  <2>3. row \in SmsRows /\ row.ref = x.ticket /\ row.via = x.out
    BY <2>2 DEF SmsRows
  <2>4. threadSms' = [threadSms EXCEPT ![x.sms] = row]
    BY <2>1, <2>2
  <2> HIDE DEF row
  <2>5. /\ threadSms' \in Seq(SmsRows) /\ DOMAIN threadSms' = DOMAIN threadSms /\ Len(threadSms') = Len(threadSms)
        /\ threadSms'[x.sms] = row
        /\ \A n \in DOMAIN threadSms : n # x.sms => threadSms'[n] = threadSms[n]
    BY <1>0, <2>2, <2>3, <2>4
  <2>6. \E y \in threadMade' : y.sms = x.sms /\ y.ticket = x.ticket /\ y.out = x.out
    BY <1>0, <2>1 DEF ThreadsOf!Handovers
  <2>7. \A n \in DOMAIN threadSms' : threadSms'[n].via # ThreadsOf!None =>
          \/ n \in DOMAIN threadSms /\ threadSms'[n].ref = threadSms[n].ref /\ threadSms'[n].via = threadSms[n].via
          \/ \E y \in threadMade' : y.sms = n /\ y.ticket = threadSms'[n].ref /\ y.out = threadSms'[n].via
    BY <2>3, <2>5, <2>6
  <2>8. threadOpen' \subseteq DeliveryRows(Len(threadSms'))
    BY <1>0, <2>1, <2>5
  <2>9. ThreadsOf!Handovers'
    BY <1>0, <2>1, <2>7, <2>8, HandoversKept
  <2>10. QED
    BY <1>0, <1>T, <2>1, <2>5, <2>9
<1>5. ASSUME NEW o \in Outs, ThreadsOf!Remove(o)
      PROVE  ThreadsOf!IInv'
  <2>1. /\ threadGone' = threadGone \cup {o}
        /\ threadOpen' \subseteq threadOpen
        /\ threadSms' = [n \in DOMAIN threadSms |->
             IF threadSms[n].via = o THEN [threadSms[n] EXCEPT !.via = ThreadsOf!None] ELSE threadSms[n]]
        /\ UNCHANGED <<threadKeyOf, threadMade, threadSent>>
    BY <1>5 DEF ThreadsOf!Remove
  <2>2. \A r \in SmsRows : [r EXCEPT !.via = ThreadsOf!None] \in SmsRows
                           /\ [r EXCEPT !.via = ThreadsOf!None].via = ThreadsOf!None
    BY DEF SmsRows
  <2>3. /\ threadSms' \in [1..Len(threadSms) -> SmsRows]
        /\ \A n \in DOMAIN threadSms : threadSms'[n].via # ThreadsOf!None => threadSms'[n] = threadSms[n]
    <3>1. \A n \in DOMAIN threadSms : threadSms[n] \in SmsRows
      BY <1>0
    <3>2. QED
      BY <1>0, <2>1, <2>2, <3>1
  <2>4. threadSms' \in Seq(SmsRows) /\ DOMAIN threadSms' = DOMAIN threadSms /\ Len(threadSms') = Len(threadSms)
    BY <1>0, <2>3
  <2>5. threadOpen' \subseteq DeliveryRows(Len(threadSms'))
    BY <1>0, <2>1, <2>4
  <2>6. ThreadsOf!Handovers'
    BY <1>0, <2>1, <2>3, <2>4, <2>5, HandoversKept
  <2>7. QED
    BY <1>0, <1>T, <2>1, <2>4, <2>6
<1>6. ASSUME NEW i \in Ins \cup {ThreadsOf!None}, NEW k \in ThreadKeys, NEW s, NEW t \in 0..MaxTickets,
             NEW to \in Numbers, NEW n \in 0..Len(threadSms),
             ThreadsOf!Submit(i, k, s, to, n, t)
      PROVE  ThreadsOf!IInv'
  <2> DEFINE row == [by |-> i, key |-> k, service |-> s, to |-> to, answers |-> n, ticket |-> t]
  <2>1. /\ threadSent' = Append(threadSent, row) /\ s \in Allowed[k]
        /\ UNCHANGED <<threadKeyOf, threadGone, threadSms, threadOpen, threadMade>>
    BY <1>6 DEF ThreadsOf!Submit
  <2>2. s \in Services
    BY <1>6, <2>1, ThreadsAssumption
  <2>3. row \in SentRows /\ row.answers <= Len(threadSms)
    BY <1>0, <1>6, <2>2 DEF SentRows
  <2> HIDE DEF row
  <2>4. threadSent' \in Seq(SentRows) /\ \A j \in DOMAIN threadSent' : threadSent'[j].answers <= Len(threadSms')
    BY <1>0, <2>1, <2>3
  <2>5. ThreadsOf!Handovers'
    BY <1>0, <2>1 DEF ThreadsOf!Handovers
  <2>6. QED
    BY <1>0, <1>T, <2>1, <2>4, <2>5
<1>7. ASSUME NEW k \in ThreadKeys, NEW s \in Services, NEW to \in Numbers, NEW n \in DOMAIN threadSms,
             ThreadsOf!Api(k, s, to, n)
      PROVE  ThreadsOf!IInv'
  <2>1. ThreadsOf!Submit(ThreadsOf!None, k, s, to, n, 0)
    BY <1>7 DEF ThreadsOf!Api
  <2>2. n \in 0..Len(threadSms) /\ 0 \in 0..MaxTickets
    BY <1>0, ThreadsAssumption
  <2>3. QED
    BY <1>6, <2>1, <2>2
<1>8. ASSUME NEW i \in Ins, NEW t \in ThreadsOf!Tickets(Desk[i]), NEW number \in Numbers \cup {ThreadsOf!None},
             ThreadsOf!Reply(i, t, number)
      PROVE  ThreadsOf!IInv'
  <2> DEFINE n == ThreadsOf!Found(t, threadKeyOf[i])
             to == IF number # ThreadsOf!None THEN number ELSE IF n # 0 THEN threadSms[n].sender ELSE ThreadsOf!None
             a == IF n # 0 /\ threadSms[n].sender = to THEN n ELSE 0
             b == IF number = ThreadsOf!None THEN t ELSE 0
  <2>1. to # ThreadsOf!None /\ ThreadsOf!Submit(i, threadKeyOf[i], Service[i], to, a, b)
    BY <1>8 DEF ThreadsOf!Reply
  <2>2. n = 0 \/ n \in DOMAIN threadSms
    BY <1>0, FoundIsOfKey
  <2>3. \A m \in DOMAIN threadSms : threadSms[m].sender \in Numbers
    <3>1. \A m \in DOMAIN threadSms : threadSms[m] \in SmsRows
      BY <1>0
    <3>2. QED
      BY <3>1 DEF SmsRows
  <2> HIDE DEF n
  <2>4. to \in Numbers /\ a \in 0..Len(threadSms)
    BY <1>0, <2>1, <2>2, <2>3
  <2>5. b \in 0..MaxTickets
    <3>1. t \in 1..MaxTickets
      BY <1>0 DEF ThreadsOf!Tickets, TicketRows
    <3>2. QED
      BY <3>1, ThreadsAssumption
  <2>6. threadKeyOf[i] \in ThreadKeys
    BY <1>0
  <2> HIDE DEF to, a, b
  <2>7. QED
    BY <1>6, <2>1, <2>4, <2>5, <2>6
<1>9. QED
  BY <1>1, <1>2, <1>3, <1>4, <1>5, <1>7, <1>8 DEF ThreadsOf!Next


LEMMA ThreadsBegin == ThreadsOf!Init => ThreadsOf!IInv
<1> SUFFICES ASSUME ThreadsOf!Init
             PROVE  ThreadsOf!IInv
  OBVIOUS
<1> USE DEF ThreadsOf!Init
<1>1. ThreadsOf!TypeOK
  BY DEF ThreadsOf!TypeOK
<1>2. ThreadsOf!IsFiniteSet({})
  BY FS_EmptySet, SameFinite, Zenon
<1>3. ThreadsOf!Handovers
  BY <1>2 DEF ThreadsOf!Handovers
<1>4. QED
  BY <1>1, <1>3 DEF ThreadsOf!IInv

(* What a step may send: the action of KeysStayApart. *)
StaysApart(j) ==
  LET m == threadSent'[j]
  IN  m.ticket # 0 =>
        /\ ThreadsOf!Answers(m.answers, m.to, m.key, m.service)
        /\ \E x \in threadMade : x.sms = m.answers /\ x.ticket = m.ticket /\ threadKeyOf[x.out] = m.key

LEMMA StepsStayApart ==
  ASSUME ThreadsOf!IInv, ThreadsOf!Next, NEW j \in DOMAIN threadSent' \ DOMAIN threadSent
  PROVE  StaysApart(j)
<1>0. /\ ThreadsOf!TypeOK
      /\ threadSent \in Seq(SentRows)
      /\ \A n \in DOMAIN threadSms : threadSms[n].via # ThreadsOf!None =>
           \E y \in threadMade : y.sms = n /\ y.ticket = threadSms[n].ref /\ y.out = threadSms[n].via
  BY DEF ThreadsOf!IInv, ThreadsOf!TypeOK, ThreadsOf!Handovers, SentRows
<1>1. ASSUME NEW i, NEW k, NEW s, NEW to, NEW n, NEW t, ThreadsOf!Submit(i, k, s, to, n, t)
      PROVE  /\ n # 0 => ThreadsOf!Answers(n, to, k, s)
             /\ threadSent'[j] = [by |-> i, key |-> k, service |-> s, to |-> to, answers |-> n, ticket |-> t]
  <2> DEFINE row == [by |-> i, key |-> k, service |-> s, to |-> to, answers |-> n, ticket |-> t]
  <2>1. threadSent' = Append(threadSent, row) /\ (n # 0 => ThreadsOf!Answers(n, to, k, s))
    BY <1>1 DEF ThreadsOf!Submit
  <2> HIDE DEF row
  <2>2. threadSent'[j] = row
    BY <1>0, <2>1
  <2>3. QED
    BY <2>1, <2>2 DEF row
<1>2. ASSUME NEW k, NEW s, NEW to, NEW n, ThreadsOf!Api(k, s, to, n)
      PROVE  StaysApart(j)
  <2>1. ThreadsOf!Submit(ThreadsOf!None, k, s, to, n, 0)
    BY <1>2 DEF ThreadsOf!Api
  <2>2. threadSent'[j] = [by |-> ThreadsOf!None, key |-> k, service |-> s, to |-> to, answers |-> n, ticket |-> 0]
    BY <1>1, <2>1
  <2>3. QED
    BY <2>2 DEF StaysApart
<1>3. ASSUME NEW i, NEW t, NEW number \in Numbers \cup {ThreadsOf!None}, ThreadsOf!Reply(i, t, number)
      PROVE  StaysApart(j)
  <2> DEFINE n == ThreadsOf!Found(t, threadKeyOf[i])
             to == IF number # ThreadsOf!None THEN number ELSE IF n # 0 THEN threadSms[n].sender ELSE ThreadsOf!None
             a == IF n # 0 /\ threadSms[n].sender = to THEN n ELSE 0
             b == IF number = ThreadsOf!None THEN t ELSE 0
  <2>1. to # ThreadsOf!None /\ ThreadsOf!Submit(i, threadKeyOf[i], Service[i], to, a, b)
    BY <1>3 DEF ThreadsOf!Reply
  <2>2. \/ n = 0
        \/ /\ n \in DOMAIN threadSms /\ threadSms[n].ref = t
           /\ threadSms[n].via # ThreadsOf!None /\ threadKeyOf[threadSms[n].via] = threadKeyOf[i]
    BY <1>0, FoundIsOfKey
  <2>3. n # 0 => \E x \in threadMade : x.sms = n /\ x.ticket = t /\ threadKeyOf[x.out] = threadKeyOf[i]
    BY <1>0, <2>2
  <2> HIDE DEF n
  <2>4. b # 0 => n # 0 /\ a = n /\ b = t
    BY <2>1
  <2> HIDE DEF to, a, b
  <2>5. /\ a # 0 => ThreadsOf!Answers(a, to, threadKeyOf[i], Service[i])
        /\ threadSent'[j] = [by |-> i, key |-> threadKeyOf[i], service |-> Service[i], to |-> to, answers |-> a, ticket |-> b]
    BY <1>1, <2>1
  <2>6. /\ threadSent'[j].ticket = b /\ threadSent'[j].answers = a /\ threadSent'[j].to = to
        /\ threadSent'[j].key = threadKeyOf[i] /\ threadSent'[j].service = Service[i]
    BY <2>5
  <2>7. b # 0 => /\ ThreadsOf!Answers(a, to, threadKeyOf[i], Service[i])
                 /\ \E x \in threadMade : x.sms = a /\ x.ticket = b /\ threadKeyOf[x.out] = threadKeyOf[i]
    BY <2>3, <2>4, <2>5
  <2>8. QED
    BY <2>6, <2>7 DEF StaysApart
<1>4. threadSent' # threadSent
  OBVIOUS
<1>5. \/ \E k \in ThreadKeys, s \in Services, to \in Numbers, n \in DOMAIN threadSms : ThreadsOf!Api(k, s, to, n)
      \/ \E i \in Ins : \E t \in ThreadsOf!Tickets(Desk[i]), number \in Numbers \cup {ThreadsOf!None} :
           ThreadsOf!Reply(i, t, number)
  BY <1>4 DEF ThreadsOf!Next, ThreadsOf!Receive, ThreadsOf!Call, ThreadsOf!Lost, ThreadsOf!Over,
              ThreadsOf!Store, ThreadsOf!Remove
<1>6. QED
  BY <1>2, <1>3, <1>5


-----------------------------------------------------------------------------
(* MailIn. *)

(* What a step makes of a poll. *)
LEMMA Moved ==
  ASSUME mailPoll \in [Polls -> MailInOf!PollRow], NEW p \in Polls, NEW r \in MailInOf!PollRow,
         mailPoll' = [mailPoll EXCEPT ![p] = r]
  PROVE  /\ mailPoll' \in [Polls -> MailInOf!PollRow] /\ mailPoll'[p] = r
         /\ \A q \in Polls : q # p => mailPoll'[q] = mailPoll[q]
OBVIOUS

LEMMA RowMoves ==
  ASSUME NEW r \in MailInOf!PollRow, NEW a \in MailInOf!Places
  PROVE  LET z == [r EXCEPT !.at = a]
         IN  /\ z \in MailInOf!PollRow /\ z.at = a
             /\ z.todo = r.todo /\ z.uid = r.uid /\ z.valid = r.valid /\ z.highest = r.highest
             /\ z.backlog = r.backlog /\ z.late = r.late
BY DEF MailInOf!PollRow

LEMMA RowBegins ==
  ASSUME NEW r \in MailInOf!PollRow, NEW v \in 0..MaxValid, NEW h \in 0..MaxUid,
         NEW b \in BOOLEAN, NEW t \in SUBSET MailInOf!Uids
  PROVE  LET z == [r EXCEPT !.at = "scanning", !.valid = v, !.highest = h, !.backlog = b, !.todo = t]
         IN  /\ z \in MailInOf!PollRow /\ z.at = "scanning"
             /\ z.todo = t /\ z.uid = r.uid /\ z.valid = v /\ z.highest = h
             /\ z.backlog = b /\ z.late = r.late
BY DEF MailInOf!PollRow, MailInOf!Places

LEMMA RowTakes ==
  ASSUME NEW r \in MailInOf!PollRow, NEW a \in MailInOf!Places, NEW u \in 1..MaxUid,
         NEW t \in SUBSET MailInOf!Uids, NEW f \in Nat
  PROVE  LET z == [r EXCEPT !.at = a, !.uid = u, !.todo = t, !.highest = u, !.fetched = f]
         IN  /\ z \in MailInOf!PollRow /\ z.at = a
             /\ z.todo = t /\ z.uid = u /\ z.valid = r.valid /\ z.highest = u
             /\ z.backlog = r.backlog /\ z.late = r.late
<1>1. u \in 0..MaxUid
  OBVIOUS
<1>2. QED
  BY <1>1 DEF MailInOf!PollRow

LEMMA RowActs ==
  ASSUME NEW r \in MailInOf!PollRow, NEW b \in BOOLEAN
  PROVE  LET z == [r EXCEPT !.at = "scanning", !.ok = b]
         IN  /\ z \in MailInOf!PollRow /\ z.at = "scanning"
             /\ z.todo = r.todo /\ z.uid = r.uid /\ z.valid = r.valid /\ z.highest = r.highest
             /\ z.backlog = r.backlog /\ z.late = r.late
BY DEF MailInOf!PollRow, MailInOf!Places

LEMMA RowCloses ==
  ASSUME NEW r \in MailInOf!PollRow, NEW v \in 0..MaxValid
  PROVE  LET z == [r EXCEPT !.at = "closing", !.valid = v]
         IN  /\ z \in MailInOf!PollRow /\ z.at = "closing"
             /\ z.todo = r.todo /\ z.uid = r.uid /\ z.valid = v /\ z.highest = r.highest
             /\ z.backlog = r.backlog /\ z.late = r.late
BY DEF MailInOf!PollRow, MailInOf!Places

LEMMA RowLate ==
  ASSUME NEW r \in MailInOf!PollRow
  PROVE  LET z == [r EXCEPT !.late = TRUE]
         IN  /\ z \in MailInOf!PollRow /\ z.late
             /\ z.todo = r.todo /\ z.uid = r.uid /\ z.valid = r.valid /\ z.highest = r.highest
             /\ z.backlog = r.backlog /\ z.at = r.at
BY DEF MailInOf!PollRow

LEMMA RowDrops ==
  ASSUME NEW r \in MailInOf!PollRow
  PROVE  LET z == [r EXCEPT !.up = FALSE]
         IN  /\ z \in MailInOf!PollRow /\ z.at = r.at
             /\ z.todo = r.todo /\ z.uid = r.uid /\ z.valid = r.valid /\ z.highest = r.highest
             /\ z.backlog = r.backlog /\ z.late = r.late
BY DEF MailInOf!PollRow

LEMMA RowIdle ==
  /\ MailInOf!Idle \in MailInOf!PollRow
  /\ MailInOf!Idle.at = "idle" /\ MailInOf!Idle.todo = {} /\ ~MailInOf!Idle.late
BY MailAssumption DEF MailInOf!PollRow, MailInOf!Idle, MailInOf!Places, MailInOf!Uids

LEMMA RowOpens ==
  LET z == [MailInOf!Idle EXCEPT !.at = "opening"]
  IN  z \in MailInOf!PollRow /\ z.at = "opening" /\ z.todo = {} /\ ~z.late
<1>1. "opening" \in MailInOf!Places
  BY DEF MailInOf!Places
<1>2. QED
  BY <1>1, RowIdle, RowMoves

MailStates == [floor : 0..MaxUid, valid : -1..MaxValid, backlog : BOOLEAN, ok : BOOLEAN]
MailKeys   == [valid : 1..MaxValid, uid : MailInOf!Uids, id : Ids \cup {MailInOf!None}]

MailSteps ==
  /\ mailBox \in Seq(Mails) /\ Len(mailBox) \in Nat /\ Len(mailBox) <= MaxUid
  /\ \A u \in 1..Len(mailBox) : mailBox[u] \in Mails /\ IdOf[mailBox[u]] \in Ids
  /\ mailUnread \subseteq 1..Len(mailBox) /\ mailValid \in 1..MaxValid
  /\ mailState \in MailStates /\ mailSeen \subseteq MailKeys
  /\ mailPoll \in [Polls -> MailInOf!PollRow]

LEMMA MailTypes ==
  ASSUME MailInOf!TypeOK, MailInOf!PollsSound
  PROVE  MailSteps
<1>1. mailBox \in Seq(Mails) /\ Len(mailBox) \in Nat
  BY DEF MailInOf!TypeOK
<1>2. \A u \in 1..Len(mailBox) : mailBox[u] \in Mails
  BY <1>1
<1>3. \A m \in Mails : IdOf[m] \in Ids
  BY MailAssumption
<1>4. QED
  BY <1>1, <1>2, <1>3 DEF MailInOf!TypeOK, MailInOf!PollsSound, MailSteps, MailStates, MailKeys

LEMMA PollFields ==
  ASSUME NEW r \in MailInOf!PollRow
  PROVE  /\ r.at \in MailInOf!Places /\ r.todo \subseteq MailInOf!Uids /\ r.uid \in 0..MaxUid
         /\ r.valid \in 0..MaxValid /\ r.highest \in 0..MaxUid /\ r.backlog \in BOOLEAN
         /\ r.late \in BOOLEAN /\ r.ok \in BOOLEAN /\ r.up \in BOOLEAN
BY DEF MailInOf!PollRow

(* A step of one poll, in the folder as it is. *)
LEMMA PollStep ==
  ASSUME MailInOf!TypeOK, MailInOf!PollsSound,
         NEW p \in Polls, NEW r \in MailInOf!PollRow, mailPoll' = [mailPoll EXCEPT ![p] = r],
         UNCHANGED <<mailBox, mailValid, mailEnabled>>,
         mailUnread' \subseteq mailUnread,
         mailState' \in MailStates, mailState'.valid <= mailValid,
         mailSeen' \subseteq MailKeys, mailSms' \in [Mails -> Nat],
         r.at \notin {"idle", "opening"} => r.valid = mailValid,
         r.at \in {"reading", "acting"} => r.uid \in 1..Len(mailBox),
         \A u \in r.todo : u <= Len(mailBox),
         \A q \in Polls \ {p} : MailInOf!Busy(q) /\ r.at # "idle" => r.late \/ mailPoll[q].late
  PROVE  MailInOf!TypeOK' /\ MailInOf!PollsSound'
<1>1. /\ mailPoll' \in [Polls -> MailInOf!PollRow] /\ mailPoll'[p] = r
      /\ \A q \in Polls : q # p => mailPoll'[q] = mailPoll[q]
  BY Moved DEF MailInOf!PollsSound
<1>2. \A q \in Polls : mailPoll'[q].at \in MailInOf!Places /\ mailPoll'[q].todo \subseteq MailInOf!Uids
  BY <1>1, PollFields
<1>3. MailInOf!TypeOK'
  BY <1>2 DEF MailInOf!TypeOK, MailStates, MailKeys
<1>4. /\ \A q \in Polls : q # p => mailPoll'[q] = mailPoll[q]
      /\ mailPoll'[p] = r
  BY <1>1
<1>5. \A q \in Polls :
       /\ MailInOf!Busy(q)' /\ ~MailInOf!At(q, "opening")' => mailPoll'[q].valid = mailValid'
       /\ MailInOf!At(q, "reading")' \/ MailInOf!At(q, "acting")' => mailPoll'[q].uid \in 1..Len(mailBox')
       /\ \A u \in mailPoll'[q].todo : u <= Len(mailBox')
  <2>1. ASSUME NEW q \in Polls, q # p
        PROVE  /\ MailInOf!Busy(q)' /\ ~MailInOf!At(q, "opening")' => mailPoll'[q].valid = mailValid'
               /\ MailInOf!At(q, "reading")' \/ MailInOf!At(q, "acting")' => mailPoll'[q].uid \in 1..Len(mailBox')
               /\ \A u \in mailPoll'[q].todo : u <= Len(mailBox')
    BY <1>4, <2>1 DEF MailInOf!PollsSound, MailInOf!Busy, MailInOf!At
  <2>2. /\ MailInOf!Busy(p)' /\ ~MailInOf!At(p, "opening")' => mailPoll'[p].valid = mailValid'
        /\ MailInOf!At(p, "reading")' \/ MailInOf!At(p, "acting")' => mailPoll'[p].uid \in 1..Len(mailBox')
        /\ \A u \in mailPoll'[p].todo : u <= Len(mailBox')
    BY <1>4 DEF MailInOf!Busy, MailInOf!At
  <2>3. QED
    BY <2>1, <2>2
<1>6. \A q, s \in Polls : q # s /\ MailInOf!Busy(q)' /\ MailInOf!Busy(s)' => mailPoll'[q].late \/ mailPoll'[s].late
  BY <1>4 DEF MailInOf!PollsSound, MailInOf!Busy, MailInOf!At
<1>7. QED
  BY <1>1, <1>3, <1>5, <1>6 DEF MailInOf!PollsSound

(* A step that leaves the polls alone. *)
LEMMA PollsWait ==
  ASSUME MailInOf!TypeOK, MailInOf!PollsSound,
         UNCHANGED <<mailPoll, mailSeen, mailSms, mailValid>>,
         mailBox' \in Seq(Mails), Len(mailBox) <= Len(mailBox'), Len(mailBox') <= MaxUid,
         mailUnread' \subseteq 1..Len(mailBox'), mailEnabled' \in BOOLEAN,
         mailState' \in MailStates, mailState'.valid <= mailValid
  PROVE  MailInOf!TypeOK' /\ MailInOf!PollsSound'
<1>1. MailInOf!TypeOK'
  BY DEF MailInOf!TypeOK, MailStates
<1>2. Len(mailBox) \in Nat /\ Len(mailBox') \in Nat
  BY DEF MailInOf!TypeOK
<1>3. \A p \in Polls : mailPoll[p].todo \subseteq MailInOf!Uids
  BY DEF MailInOf!TypeOK
<1>4. \A p \in Polls : \A u \in mailPoll[p].todo : u <= Len(mailBox')
  BY <1>2, <1>3 DEF MailInOf!PollsSound, MailInOf!Uids
<1>5. \A p \in Polls : mailPoll[p].uid \in 1..Len(mailBox) => mailPoll[p].uid \in 1..Len(mailBox')
  BY <1>2
<1>6. QED
  BY <1>1, <1>4, <1>5 DEF MailInOf!PollsSound, MailInOf!Busy, MailInOf!At

(* The mail that a poll looks at next. *)
LEMMA NextListed ==
  ASSUME MailInOf!TypeOK, MailInOf!PollsSound, NEW p \in Polls, MailInOf!Goes(p)
  PROVE  /\ MailInOf!Next1(p) \in mailPoll[p].todo /\ MailInOf!Next1(p) \in 1..Len(mailBox)
         /\ MailInOf!Next1(p) \in MailInOf!Uids
         /\ \A w \in mailPoll[p].todo : MailInOf!Next1(p) <= w
         /\ mailPoll[p].valid = mailValid /\ mailPoll[p].at = "scanning" /\ ~mailPoll[p].late
         /\ mailBox[MailInOf!Next1(p)] \in Mails /\ IdOf[mailBox[MailInOf!Next1(p)]] \in Ids
         /\ \A q \in Polls : q # p /\ MailInOf!Busy(q) => mailPoll[q].late
<1>1. MailSteps
  BY MailTypes
<1>2. mailPoll[p].todo \subseteq 1..Len(mailBox) /\ mailPoll[p].todo \subseteq MailInOf!Uids /\ mailPoll[p].todo # {}
  <2>1. mailPoll[p].todo \subseteq MailInOf!Uids
    BY <1>1, PollFields DEF MailSteps
  <2>2. QED
    BY <1>1, <2>1 DEF MailInOf!PollsSound, MailInOf!Uids, MailSteps, MailInOf!Goes
<1>3. \E u \in mailPoll[p].todo : \A w \in mailPoll[p].todo : u <= w
  <2>1. mailPoll[p].todo \in SUBSET Nat
    BY <1>2
  <2>2. QED
    BY <1>2, <2>1, Smallest
<1>4. MailInOf!Next1(p) \in mailPoll[p].todo /\ \A w \in mailPoll[p].todo : MailInOf!Next1(p) <= w
  BY <1>3, Zenon DEF MailInOf!Next1
<1>5. mailPoll[p].valid = mailValid /\ mailPoll[p].at = "scanning" /\ ~mailPoll[p].late
  BY DEF MailInOf!PollsSound, MailInOf!Busy, MailInOf!At, MailInOf!Goes
<1>6. \A q \in Polls : q # p /\ MailInOf!Busy(q) => mailPoll[q].late
  BY <1>5 DEF MailInOf!PollsSound, MailInOf!Busy, MailInOf!At
<1>7. QED
  BY <1>1, <1>2, <1>4, <1>5, <1>6 DEF MailSteps

MailMemory == MailInOf!MemorySound /\ MailInOf!MailSendsOnce /\ MailInOf!StrangersSilenceNobody

(* The key of a mail that is being read. *)
LEMMA OwnKey ==
  ASSUME MailInOf!MemorySound, NEW p \in Polls, MailInOf!At(p, "reading"),
         NEW k \in mailSeen, k.valid = mailPoll[p].valid, k.uid = mailPoll[p].uid
  PROVE  /\ k.id = MailInOf!IdAt(p)
         /\ \A j \in mailSeen : j.valid = k.valid /\ j.uid = k.uid => j = k
<1>1. PICK j \in mailSeen : MailInOf!Own(p, j) /\ j.id = MailInOf!IdAt(p)
  BY DEF MailInOf!MemorySound
<1>2. j.valid = k.valid /\ j.uid = k.uid
  BY <1>1 DEF MailInOf!Own
<1>3. \A a, b \in mailSeen : a.valid = b.valid /\ a.uid = b.uid => a = b
  BY DEF MailInOf!MemorySound
<1>4. j = k
  BY <1>2, <1>3
<1>5. QED
  BY <1>1, <1>3, <1>4

(* A step of a poll that neither remembers nor sends; what is no longer    *)
(* read in time is torn.                                                   *)
LEMMA MemoryKept ==
  ASSUME MailMemory, mailPoll \in [Polls -> MailInOf!PollRow],
         NEW p \in Polls, NEW r \in MailInOf!PollRow, mailPoll' = [mailPoll EXCEPT ![p] = r],
         UNCHANGED <<mailBox, mailSeen, mailSms, mailChecked, mailDeaf>>,
         mailTorn \subseteq mailTorn',
         r.at = "reading" => /\ MailInOf!At(p, "reading")
                             /\ r.uid = mailPoll[p].uid /\ r.valid = mailPoll[p].valid,
         MailInOf!At(p, "reading") =>
           \/ r.at = "reading" /\ r.uid = mailPoll[p].uid /\ r.valid = mailPoll[p].valid
                /\ (~mailPoll[p].late => ~r.late)
           \/ MailInOf!IdAt(p) \in mailTorn'
  PROVE  MailMemory'
<1>0. MailInOf!MemorySound
  BY DEF MailMemory
<1>1. /\ mailPoll'[p] = r
      /\ \A q \in Polls : q # p => mailPoll'[q] = mailPoll[q]
  BY Moved
<1>2. \A q \in Polls : MailInOf!At(q, "reading")' =>
         /\ MailInOf!At(q, "reading")
         /\ mailPoll'[q].uid = mailPoll[q].uid /\ mailPoll'[q].valid = mailPoll[q].valid
  BY <1>1 DEF MailInOf!At
<1>3. \A q \in Polls : MailInOf!At(q, "reading")' => MailInOf!IdAt(q)' = MailInOf!IdAt(q)
  BY <1>2 DEF MailInOf!IdAt
<1>4. ASSUME NEW q \in Polls, MailInOf!At(q, "reading")'
      PROVE  /\ \E k \in mailSeen' : MailInOf!Own(q, k)' /\ k.id = MailInOf!IdAt(q)'
             /\ \A m \in Mails : IdOf[m] = MailInOf!IdAt(q)' => mailSms'[m] = 0
  <2>1. PICK k \in mailSeen : MailInOf!Own(q, k) /\ k.id = MailInOf!IdAt(q)
    BY <1>0, <1>2, <1>4 DEF MailInOf!MemorySound
  <2>2. MailInOf!Own(q, k)'
    BY <1>2, <1>4, <2>1 DEF MailInOf!Own
  <2>3. \A m \in Mails : IdOf[m] = MailInOf!IdAt(q) => mailSms[m] = 0
    BY <1>0, <1>2, <1>4 DEF MailInOf!MemorySound
  <2>4. QED
    BY <1>3, <1>4, <2>1, <2>2, <2>3
<1>5. \A q, s \in Polls : q # s /\ MailInOf!At(q, "reading")' /\ MailInOf!At(s, "reading")' =>
         MailInOf!IdAt(q)' # MailInOf!IdAt(s)'
  <2>1. \A q, s \in Polls : q # s /\ MailInOf!At(q, "reading") /\ MailInOf!At(s, "reading") =>
           MailInOf!IdAt(q) # MailInOf!IdAt(s)
    BY <1>0 DEF MailInOf!MemorySound
  <2>2. QED
    BY <1>2, <1>3, <2>1
<1>6. ASSUME NEW k \in mailSeen
      PROVE  \/ k.id \in {MailInOf!None} \cup mailChecked' \cup mailTorn'
             \/ \E q \in Polls : MailInOf!Own(q, k)' /\ ~mailPoll'[q].late
  <2>1. CASE k.id \in {MailInOf!None} \cup mailChecked \cup mailTorn
    BY <2>1
  <2>2. CASE \E q \in Polls : MailInOf!Own(q, k) /\ ~mailPoll[q].late
    <3>1. PICK q \in Polls : MailInOf!Own(q, k) /\ ~mailPoll[q].late
      BY <2>2
    <3>2. CASE q # p
      BY <1>1, <3>1, <3>2 DEF MailInOf!Own, MailInOf!At
    <3>3. CASE q = p
      <4>1. MailInOf!At(p, "reading") /\ k.valid = mailPoll[p].valid /\ k.uid = mailPoll[p].uid
        BY <3>1, <3>3 DEF MailInOf!Own
      <4>2. k.id = MailInOf!IdAt(p)
        BY <1>0, <4>1, OwnKey
      <4>3. CASE MailInOf!IdAt(p) \in mailTorn'
        BY <4>2, <4>3
      <4>4. CASE r.at = "reading" /\ r.uid = mailPoll[p].uid /\ r.valid = mailPoll[p].valid
                   /\ (~mailPoll[p].late => ~r.late)
        <5>1. MailInOf!Own(p, k)' /\ ~mailPoll'[p].late
          BY <1>1, <3>1, <3>3, <4>1, <4>4 DEF MailInOf!Own, MailInOf!At
        <5>2. QED
          BY <5>1
      <4>5. QED
        BY <4>1, <4>3, <4>4
    <3>4. QED
      BY <3>2, <3>3
  <2>3. QED
    BY <1>0, <2>1, <2>2 DEF MailInOf!MemorySound
<1>7. /\ \A k, j \in mailSeen : k.valid = j.valid /\ k.uid = j.uid => k = j
      /\ \A m \in Mails : mailSms[m] > 0 => \E k \in mailSeen : k.id = IdOf[m]
  BY <1>0 DEF MailInOf!MemorySound
<1>8. MailInOf!MemorySound'
  BY <1>4, <1>5, <1>6, <1>7 DEF MailInOf!MemorySound
<1>9. QED
  BY <1>8 DEF MailMemory, MailInOf!MailSendsOnce, MailInOf!StrangersSilenceNobody

(* A step that leaves the polls alone. *)
LEMMA MemoryWaits ==
  ASSUME MailMemory, MailSteps, MailInOf!PollsSound,
         UNCHANGED <<mailPoll, mailSeen, mailSms, mailChecked, mailTorn, mailDeaf>>,
         \A u \in 1..Len(mailBox) : mailBox'[u] = mailBox[u]
  PROVE  MailMemory'
<1>1. \A q \in Polls : MailInOf!At(q, "reading") => mailPoll[q].uid \in 1..Len(mailBox)
  BY DEF MailInOf!PollsSound
<1>2. \A q \in Polls : MailInOf!At(q, "reading") => MailInOf!IdAt(q)' = MailInOf!IdAt(q)
  BY <1>1 DEF MailInOf!IdAt
<1>3. \A q \in Polls, k \in mailSeen : MailInOf!Own(q, k)' <=> MailInOf!Own(q, k)
  BY DEF MailInOf!Own, MailInOf!At
<1>4. \A q \in Polls : MailInOf!At(q, "reading")' <=> MailInOf!At(q, "reading")
  BY DEF MailInOf!At
<1>5. MailInOf!MemorySound'
  BY <1>2, <1>3, <1>4 DEF MailMemory, MailInOf!MemorySound
<1>6. QED
  BY <1>5 DEF MailMemory, MailInOf!MailSendsOnce, MailInOf!StrangersSilenceNobody

(* A mail that was not seen is remembered: one that will be read, alone    *)
(* with its Message-ID, or one whose Message-ID is accounted for.          *)
LEMMA MemoryGrows ==
  ASSUME MailMemory, mailPoll \in [Polls -> MailInOf!PollRow], mailSms \in [Mails -> Nat],
         NEW p \in Polls, NEW r \in MailInOf!PollRow, mailPoll' = [mailPoll EXCEPT ![p] = r],
         ~MailInOf!At(p, "reading"),
         UNCHANGED <<mailBox, mailSms, mailChecked, mailTorn, mailDeaf>>,
         NEW u \in MailInOf!Uids, NEW id \in Ids \cup {MailInOf!None},
         mailSeen' = mailSeen \cup {MailInOf!Key(mailValid, u, id)},
         \A k \in mailSeen : ~(k.valid = mailValid /\ k.uid = u),
         \/ r.at # "reading" /\ id \in {MailInOf!None} \cup mailChecked \cup mailTorn
         \/ /\ r.at = "reading" /\ r.valid = mailValid /\ r.uid = u /\ ~r.late
            /\ id = IdOf[mailBox[u]] /\ \A k \in mailSeen : k.id # id
  PROVE  MailMemory'
<1>K. PICK key : key = MailInOf!Key(mailValid, u, id)
  OBVIOUS
<1>0. MailInOf!MemorySound
  BY DEF MailMemory
<1>1. /\ mailPoll'[p] = r
      /\ \A q \in Polls : q # p => mailPoll'[q] = mailPoll[q]
  BY Moved
<1>2. /\ key.valid = mailValid /\ key.uid = u /\ key.id = id
      /\ mailSeen' = mailSeen \cup {key}
  BY <1>K DEF MailInOf!Key
<1>3. \A q \in Polls \ {p} : /\ MailInOf!At(q, "reading")' <=> MailInOf!At(q, "reading")
                             /\ MailInOf!IdAt(q)' = MailInOf!IdAt(q)
                             /\ \A k : MailInOf!Own(q, k)' <=> MailInOf!Own(q, k)
  BY <1>1 DEF MailInOf!IdAt, MailInOf!Own, MailInOf!At
<1>4. \A k, j \in mailSeen' : k.valid = j.valid /\ k.uid = j.uid => k = j
  BY <1>0, <1>2 DEF MailInOf!MemorySound
<1>5. \A m \in Mails : mailSms[m] > 0 => \E k \in mailSeen' : k.id = IdOf[m]
  BY <1>0, <1>2 DEF MailInOf!MemorySound
<1>6. \A q \in Polls \ {p} : MailInOf!At(q, "reading")' =>
        /\ \E k \in mailSeen : MailInOf!Own(q, k)' /\ k.id = MailInOf!IdAt(q)'
        /\ \A m \in Mails : IdOf[m] = MailInOf!IdAt(q)' => mailSms[m] = 0
  BY <1>0, <1>3 DEF MailInOf!MemorySound
<1>7. \A q, s \in Polls \ {p} : q # s /\ MailInOf!At(q, "reading")' /\ MailInOf!At(s, "reading")' =>
         MailInOf!IdAt(q)' # MailInOf!IdAt(s)'
  BY <1>0, <1>3 DEF MailInOf!MemorySound
<1>8. \A k \in mailSeen : \/ k.id \in {MailInOf!None} \cup mailChecked \cup mailTorn
                          \/ \E q \in Polls \ {p} : MailInOf!Own(q, k)' /\ ~mailPoll'[q].late
  <2>1. \A k \in mailSeen, q \in Polls : MailInOf!Own(q, k) /\ ~mailPoll[q].late =>
           q # p /\ MailInOf!Own(q, k)' /\ ~mailPoll'[q].late
    BY <1>1, <1>3 DEF MailInOf!Own
  <2>2. QED
    BY <1>0, <2>1 DEF MailInOf!MemorySound
<1>9. CASE r.at # "reading" /\ id \in {MailInOf!None} \cup mailChecked \cup mailTorn
  <2>1. ~MailInOf!At(p, "reading")'
    BY <1>1, <1>9 DEF MailInOf!At
  <2>2. MailInOf!MemorySound'
    BY <1>2, <1>4, <1>5, <1>6, <1>7, <1>8, <1>9, <2>1 DEF MailInOf!MemorySound
  <2>3. QED
    BY <2>2 DEF MailMemory, MailInOf!MailSendsOnce, MailInOf!StrangersSilenceNobody
<1>10. CASE /\ r.at = "reading" /\ r.valid = mailValid /\ r.uid = u /\ ~r.late
            /\ id = IdOf[mailBox[u]] /\ \A k \in mailSeen : k.id # id
  <2>1. MailInOf!IdAt(p)' = id /\ MailInOf!Own(p, key)' /\ ~mailPoll'[p].late
    BY <1>1, <1>2, <1>10 DEF MailInOf!IdAt, MailInOf!Own, MailInOf!At
  <2>2. \A m \in Mails : IdOf[m] = id => mailSms[m] = 0
    <3>1. \A m \in Mails : IdOf[m] = id => ~(mailSms[m] > 0)
      BY <1>0, <1>10 DEF MailInOf!MemorySound
    <3>2. QED
      BY <3>1
  <2>3. \A q \in Polls \ {p} : MailInOf!At(q, "reading")' => MailInOf!IdAt(q)' # id
    BY <1>6, <1>10
  <2>4. MailInOf!MemorySound'
    <3>1. \A q \in Polls : MailInOf!At(q, "reading")' =>
            /\ \E k \in mailSeen' : MailInOf!Own(q, k)' /\ k.id = MailInOf!IdAt(q)'
            /\ \A m \in Mails : IdOf[m] = MailInOf!IdAt(q)' => mailSms'[m] = 0
      BY <1>2, <1>6, <2>1, <2>2
    <3>2. \A q, s \in Polls : q # s /\ MailInOf!At(q, "reading")' /\ MailInOf!At(s, "reading")' =>
             MailInOf!IdAt(q)' # MailInOf!IdAt(s)'
      BY <1>7, <2>1, <2>3
    <3>3. \A k \in mailSeen' : \/ k.id \in {MailInOf!None} \cup mailChecked' \cup mailTorn'
                               \/ \E q \in Polls : MailInOf!Own(q, k)' /\ ~mailPoll'[q].late
      BY <1>2, <1>8, <2>1
    <3>4. QED
      BY <1>4, <1>5, <3>1, <3>2, <3>3 DEF MailInOf!MemorySound
  <2>5. QED
    BY <2>4 DEF MailMemory, MailInOf!MailSendsOnce, MailInOf!StrangersSilenceNobody
<1>11. QED
  BY <1>9, <1>10

(* A known mail was read: its Message-ID was checked, and brings one SMS   *)
(* at most.                                                                *)
LEMMA MemoryChecked ==
  ASSUME MailMemory, mailPoll \in [Polls -> MailInOf!PollRow], mailSms \in [Mails -> Nat],
         NEW p \in Polls, NEW r \in MailInOf!PollRow, mailPoll' = [mailPoll EXCEPT ![p] = r],
         MailInOf!At(p, "reading"), r.at # "reading",
         NEW m \in Mails, m = mailBox[mailPoll[p].uid], NEW n \in 0..1,
         mailSms' = [mailSms EXCEPT ![m] = @ + n],
         mailChecked' = mailChecked \cup {IdOf[m]},
         UNCHANGED <<mailBox, mailSeen, mailTorn, mailDeaf>>
  PROVE  MailMemory'
<1>0. MailInOf!MemorySound
  BY DEF MailMemory
<1>1. /\ mailPoll'[p] = r
      /\ \A q \in Polls : q # p => mailPoll'[q] = mailPoll[q]
  BY Moved
<1>2. MailInOf!IdAt(p) = IdOf[m]
  BY DEF MailInOf!IdAt
<1>3. mailSms[m] = 0
  BY <1>0, <1>2 DEF MailInOf!MemorySound
<1>4. mailSms'[m] = n /\ \A w \in Mails : w # m => mailSms'[w] = mailSms[w]
  BY <1>3
<1>5. \A q \in Polls : MailInOf!At(q, "reading")' =>
        /\ q # p /\ MailInOf!At(q, "reading") /\ MailInOf!IdAt(q)' = MailInOf!IdAt(q)
        /\ MailInOf!IdAt(q) # IdOf[m]
        /\ \A k : MailInOf!Own(q, k)' <=> MailInOf!Own(q, k)
  <2>1. \A q \in Polls : MailInOf!At(q, "reading")' => q # p
    BY <1>1 DEF MailInOf!At
  <2>2. \A q \in Polls : q # p =>
          /\ MailInOf!At(q, "reading")' <=> MailInOf!At(q, "reading")
          /\ MailInOf!IdAt(q)' = MailInOf!IdAt(q)
          /\ \A k : MailInOf!Own(q, k)' <=> MailInOf!Own(q, k)
    BY <1>1 DEF MailInOf!IdAt, MailInOf!Own, MailInOf!At
  <2>3. QED
    BY <1>0, <1>2, <2>1, <2>2 DEF MailInOf!MemorySound
<1>6. \A q \in Polls : MailInOf!At(q, "reading")' =>
        /\ \E k \in mailSeen : MailInOf!Own(q, k)' /\ k.id = MailInOf!IdAt(q)'
        /\ \A w \in Mails : IdOf[w] = MailInOf!IdAt(q)' => mailSms'[w] = 0
  BY <1>0, <1>4, <1>5 DEF MailInOf!MemorySound
<1>7. \A q, s \in Polls : q # s /\ MailInOf!At(q, "reading")' /\ MailInOf!At(s, "reading")' =>
         MailInOf!IdAt(q)' # MailInOf!IdAt(s)'
  BY <1>0, <1>5 DEF MailInOf!MemorySound
<1>8. ASSUME NEW k \in mailSeen
      PROVE  \/ k.id \in {MailInOf!None} \cup mailChecked' \cup mailTorn
             \/ \E q \in Polls : MailInOf!Own(q, k)' /\ ~mailPoll'[q].late
  <2>1. CASE k.id \in {MailInOf!None} \cup mailChecked \cup mailTorn
    BY <2>1
  <2>2. CASE \E q \in Polls : MailInOf!Own(q, k) /\ ~mailPoll[q].late
    <3>1. PICK q \in Polls : MailInOf!Own(q, k) /\ ~mailPoll[q].late
      BY <2>2
    <3>2. CASE q # p
      BY <1>1, <3>1, <3>2 DEF MailInOf!Own, MailInOf!At
    <3>3. CASE q = p
      BY <1>0, <1>2, <3>1, <3>3, OwnKey DEF MailInOf!Own
    <3>4. QED
      BY <3>2, <3>3
  <2>3. QED
    BY <1>0, <2>1, <2>2 DEF MailInOf!MemorySound
<1>9. \A w \in Mails : mailSms'[w] > 0 => \E k \in mailSeen : k.id = IdOf[w]
  <2>1. \E k \in mailSeen : k.id = IdOf[m]
    BY <1>0, <1>2 DEF MailInOf!MemorySound
  <2>2. QED
    BY <1>0, <1>4, <2>1 DEF MailInOf!MemorySound
<1>10. \A k, j \in mailSeen : k.valid = j.valid /\ k.uid = j.uid => k = j
  BY <1>0 DEF MailInOf!MemorySound
<1>11. MailInOf!MemorySound'
  BY <1>6, <1>7, <1>8, <1>9, <1>10 DEF MailInOf!MemorySound
<1>12. MailInOf!MailSendsOnce' /\ MailInOf!StrangersSilenceNobody'
  BY <1>4 DEF MailMemory, MailInOf!MailSendsOnce, MailInOf!StrangersSilenceNobody
<1>13. QED
  BY <1>11, <1>12 DEF MailMemory

(* A mail that was read and not checked: its Message-ID is forgotten.      *)
LEMMA KeyForgets ==
  ASSUME NEW k \in MailKeys
  PROVE  LET z == [k EXCEPT !.id = MailInOf!None]
         IN  z \in MailKeys /\ z.valid = k.valid /\ z.uid = k.uid /\ z.id = MailInOf!None
BY DEF MailKeys

LEMMA ForgetTyped ==
  ASSUME MailSteps, NEW p \in Polls
  PROVE  MailInOf!Forget(p) \subseteq MailKeys
<1>1. \A k \in mailSeen : k \in MailKeys /\ [k EXCEPT !.id = MailInOf!None] \in MailKeys
  BY KeyForgets DEF MailSteps
<1>2. QED
  BY <1>1 DEF MailInOf!Forget

LEMMA MemoryForgets ==
  ASSUME MailMemory, MailSteps,
         NEW p \in Polls, NEW r \in MailInOf!PollRow, mailPoll' = [mailPoll EXCEPT ![p] = r],
         MailInOf!At(p, "reading"), r.at # "reading",
         mailSeen' = MailInOf!Forget(p), mailSms \in [Mails -> Nat],
         UNCHANGED <<mailBox, mailSms, mailChecked, mailTorn, mailDeaf>>
  PROVE  MailMemory'
<1>0. MailInOf!MemorySound
  BY DEF MailMemory
<1>1. /\ mailPoll'[p] = r
      /\ \A q \in Polls : q # p => mailPoll'[q] = mailPoll[q]
  BY Moved DEF MailSteps
<1>2. PICK own \in mailSeen : MailInOf!Own(p, own) /\ own.id = MailInOf!IdAt(p)
  BY <1>0 DEF MailInOf!MemorySound
<1>3. own \in MailKeys /\ own.valid = mailPoll[p].valid /\ own.uid = mailPoll[p].uid
  BY <1>2 DEF MailInOf!Own, MailSteps
<1> DEFINE bare == [own EXCEPT !.id = MailInOf!None]
<1>4. bare.valid = own.valid /\ bare.uid = own.uid /\ bare.id = MailInOf!None
  BY <1>3, KeyForgets
<1>5. \A k \in mailSeen : k.valid = mailPoll[p].valid /\ k.uid = mailPoll[p].uid <=> k = own
  BY <1>0, <1>3 DEF MailInOf!MemorySound
<1>6. mailSeen' = (mailSeen \ {own}) \cup {bare}
  <2> DEFINE f(k) == IF k.valid = mailPoll[p].valid /\ k.uid = mailPoll[p].uid
                     THEN [k EXCEPT !.id = MailInOf!None] ELSE k
  <2>1. \A k \in mailSeen : f(k) = IF k = own THEN bare ELSE k
    BY <1>5
  <2>2. mailSeen' = {f(k) : k \in mailSeen}
    BY Zenon DEF MailInOf!Forget
  <2> HIDE DEF bare, f
  <2>3. f(own) = bare /\ \A k \in mailSeen \ {own} : f(k) = k
    BY <1>2, <2>1
  <2>4. QED
    BY <1>2, <2>2, <2>3
<1> HIDE DEF bare
<1>7. \A k, j \in mailSeen' : k.valid = j.valid /\ k.uid = j.uid => k = j
  <2>1. \A k, j \in mailSeen : k.valid = j.valid /\ k.uid = j.uid => k = j
    BY <1>0 DEF MailInOf!MemorySound
  <2>2. \A k \in mailSeen \ {own} : ~(k.valid = bare.valid /\ k.uid = bare.uid)
    BY <1>2, <1>4, <2>1
  <2>3. QED
    BY <1>6, <2>1, <2>2
<1>8. \A q \in Polls : MailInOf!At(q, "reading")' =>
        /\ q # p /\ MailInOf!At(q, "reading") /\ MailInOf!IdAt(q)' = MailInOf!IdAt(q)
        /\ MailInOf!IdAt(q) # MailInOf!IdAt(p)
        /\ \A k : MailInOf!Own(q, k)' <=> MailInOf!Own(q, k)
  <2>1. \A q \in Polls : MailInOf!At(q, "reading")' => q # p
    BY <1>1 DEF MailInOf!At
  <2>2. \A q \in Polls : q # p =>
          /\ MailInOf!At(q, "reading")' <=> MailInOf!At(q, "reading")
          /\ MailInOf!IdAt(q)' = MailInOf!IdAt(q)
          /\ \A k : MailInOf!Own(q, k)' <=> MailInOf!Own(q, k)
    BY <1>1 DEF MailInOf!IdAt, MailInOf!Own, MailInOf!At
  <2>3. QED
    BY <1>0, <2>1, <2>2 DEF MailInOf!MemorySound
<1>9. ASSUME NEW q \in Polls, MailInOf!At(q, "reading")'
      PROVE  /\ \E k \in mailSeen' : MailInOf!Own(q, k)' /\ k.id = MailInOf!IdAt(q)'
             /\ \A w \in Mails : IdOf[w] = MailInOf!IdAt(q)' => mailSms'[w] = 0
  <2>1. PICK k \in mailSeen : MailInOf!Own(q, k) /\ k.id = MailInOf!IdAt(q)
    BY <1>0, <1>8, <1>9 DEF MailInOf!MemorySound
  <2>2. k # own
    BY <1>2, <1>8, <1>9, <2>1
  <2>3. \A w \in Mails : IdOf[w] = MailInOf!IdAt(q) => mailSms[w] = 0
    BY <1>0, <1>8, <1>9 DEF MailInOf!MemorySound
  <2>4. QED
    BY <1>6, <1>8, <1>9, <2>1, <2>2, <2>3
<1>10. \A q, s \in Polls : q # s /\ MailInOf!At(q, "reading")' /\ MailInOf!At(s, "reading")' =>
         MailInOf!IdAt(q)' # MailInOf!IdAt(s)'
  BY <1>0, <1>8 DEF MailInOf!MemorySound
<1>11. ASSUME NEW k \in mailSeen'
       PROVE  \/ k.id \in {MailInOf!None} \cup mailChecked \cup mailTorn
              \/ \E q \in Polls : MailInOf!Own(q, k)' /\ ~mailPoll'[q].late
  <2>1. CASE k = bare
    BY <1>4, <2>1
  <2>2. CASE k \in mailSeen \ {own}
    <3>1. CASE \E q \in Polls : MailInOf!Own(q, k) /\ ~mailPoll[q].late
      <4>1. PICK q \in Polls : MailInOf!Own(q, k) /\ ~mailPoll[q].late
        BY <3>1
      <4>2. q # p
        BY <1>5, <2>2, <4>1 DEF MailInOf!Own
      <4>3. QED
        BY <1>1, <4>1, <4>2 DEF MailInOf!Own, MailInOf!At
    <3>2. CASE k.id \in {MailInOf!None} \cup mailChecked \cup mailTorn
      BY <3>2
    <3>3. QED
      BY <1>0, <2>2, <3>1, <3>2 DEF MailInOf!MemorySound
  <2>3. QED
    BY <1>6, <2>1, <2>2
<1>12. ASSUME NEW m \in Mails, mailSms[m] > 0
       PROVE  \E k \in mailSeen' : k.id = IdOf[m]
  <2>1. PICK k \in mailSeen : k.id = IdOf[m]
    BY <1>0, <1>12 DEF MailInOf!MemorySound
  <2>2. IdOf[m] # MailInOf!IdAt(p)
    <3>1. IdOf[m] = MailInOf!IdAt(p) => mailSms[m] = 0
      BY <1>0 DEF MailInOf!MemorySound
    <3>2. QED
      BY <1>12, <3>1
  <2>3. QED
    BY <1>2, <1>6, <2>1, <2>2
<1>13. MailInOf!MemorySound'
  BY <1>7, <1>9, <1>10, <1>11, <1>12 DEF MailInOf!MemorySound
<1>14. QED
  BY <1>13 DEF MailMemory, MailInOf!MailSendsOnce, MailInOf!StrangersSilenceNobody

MailFloor == MailInOf!FloorSound /\ MailInOf!NothingBelowFloor

(* What a poll knows of the folder, below and above the highest number     *)
(* that it has looked at.                                                  *)
Looking == {"scanning", "reading", "acting"}

LEMMA FloorKept ==
  ASSUME MailFloor, mailPoll \in [Polls -> MailInOf!PollRow],
         NEW p \in Polls, NEW r \in MailInOf!PollRow, mailPoll' = [mailPoll EXCEPT ![p] = r],
         UNCHANGED <<mailBox, mailValid>>, mailUnread' \subseteq mailUnread,
         \A u \in mailUnread' : MailInOf!Decided(u) => MailInOf!Decided(u)',
         MailInOf!NothingBelowFloor', mailState'.floor <= Len(mailBox),
         mailState.valid = mailValid \/ mailState.floor = 0 =>
           mailState'.valid = mailValid \/ mailState'.floor = 0,
         r.at = "closing" => mailState'.valid = mailValid \/ mailState'.floor = 0,
         r.at \in Looking =>
           /\ r.highest <= Len(mailBox) /\ \A u \in r.todo : r.highest < u
           /\ \A u \in mailUnread' :
                IF u <= r.highest THEN MailInOf!Decided(u)' \/ (r.at = "reading" /\ u = r.uid)
                ELSE u \in r.todo \/ \A w \in r.todo : w < u
  PROVE  MailFloor'
<1>1. /\ mailPoll'[p] = r
      /\ \A q \in Polls : q # p => mailPoll'[q] = mailPoll[q]
  BY Moved
<1>2. ASSUME NEW q \in Polls
      PROVE  /\ MailInOf!At(q, "closing")' => mailState'.valid = mailValid' \/ mailState'.floor = 0
             /\ mailPoll'[q].at \in Looking =>
                  /\ mailPoll'[q].highest <= Len(mailBox')
                  /\ \A u \in mailPoll'[q].todo : mailPoll'[q].highest < u
                  /\ \A u \in mailUnread' :
                       IF u <= mailPoll'[q].highest
                       THEN MailInOf!Decided(u)' \/ (MailInOf!At(q, "reading")' /\ u = mailPoll'[q].uid)
                       ELSE u \in mailPoll'[q].todo \/ \A w \in mailPoll'[q].todo : w < u
  <2>1. CASE q = p
    BY <1>1, <2>1 DEF MailInOf!At
  <2>2. CASE q # p
    <3>1. /\ MailInOf!At(q, "closing") => mailState.valid = mailValid \/ mailState.floor = 0
          /\ mailPoll[q].at \in Looking =>
               /\ mailPoll[q].highest <= Len(mailBox) /\ \A u \in mailPoll[q].todo : mailPoll[q].highest < u
               /\ \A u \in mailUnread :
                    IF u <= mailPoll[q].highest
                    THEN MailInOf!Decided(u) \/ (MailInOf!At(q, "reading") /\ u = mailPoll[q].uid)
                    ELSE u \in mailPoll[q].todo \/ \A w \in mailPoll[q].todo : w < u
      BY DEF MailFloor, MailInOf!FloorSound, Looking
    <3>2. mailPoll'[q] = mailPoll[q]
      BY <1>1, <2>2
    <3>3. QED
      BY <3>1, <3>2 DEF MailInOf!At
  <2>3. QED
    BY <2>1, <2>2
<1>3. QED
  BY <1>2 DEF MailFloor, MailInOf!FloorSound, Looking

(* A step of a poll that leaves what it knows of the folder, and the floor *)
(* as they are.                                                            *)
LEMMA FloorStays ==
  ASSUME MailFloor, mailPoll \in [Polls -> MailInOf!PollRow],
         NEW p \in Polls, NEW r \in MailInOf!PollRow, mailPoll' = [mailPoll EXCEPT ![p] = r],
         UNCHANGED <<mailBox, mailValid, mailState>>, mailUnread' \subseteq mailUnread,
         mailLooked \subseteq mailLooked', mailOld \subseteq mailOld',
         r.at = "closing" => mailPoll[p].at = "closing",
         r.at \in Looking =>
           /\ mailPoll[p].at \in Looking /\ r.highest = mailPoll[p].highest /\ r.todo = mailPoll[p].todo
           /\ MailInOf!At(p, "reading") /\ mailPoll[p].uid \in mailUnread' =>
                (r.at = "reading" /\ r.uid = mailPoll[p].uid) \/ <<mailValid, mailPoll[p].uid>> \in mailLooked'
  PROVE  MailFloor'
<1>1. \A u : MailInOf!Decided(u) => MailInOf!Decided(u)'
  BY DEF MailInOf!Decided
<1>2. MailInOf!NothingBelowFloor'
  BY DEF MailFloor, MailInOf!NothingBelowFloor
<1>3. mailState.floor <= Len(mailBox)
  BY DEF MailFloor, MailInOf!FloorSound
<1>4. r.at = "closing" => mailState.valid = mailValid \/ mailState.floor = 0
  BY DEF MailFloor, MailInOf!FloorSound, MailInOf!At
<1>5. ASSUME r.at \in Looking
      PROVE  /\ r.highest <= Len(mailBox) /\ \A u \in r.todo : r.highest < u
             /\ \A u \in mailUnread' :
                  IF u <= r.highest THEN MailInOf!Decided(u)' \/ (r.at = "reading" /\ u = r.uid)
                  ELSE u \in r.todo \/ \A w \in r.todo : w < u
  <2>1. /\ mailPoll[p].highest <= Len(mailBox) /\ \A u \in mailPoll[p].todo : mailPoll[p].highest < u
        /\ \A u \in mailUnread :
             IF u <= mailPoll[p].highest
             THEN MailInOf!Decided(u) \/ (MailInOf!At(p, "reading") /\ u = mailPoll[p].uid)
             ELSE u \in mailPoll[p].todo \/ \A w \in mailPoll[p].todo : w < u
    BY <1>5 DEF MailFloor, MailInOf!FloorSound, Looking
  <2>2. /\ r.highest = mailPoll[p].highest /\ r.todo = mailPoll[p].todo
        /\ MailInOf!At(p, "reading") /\ mailPoll[p].uid \in mailUnread' =>
             (r.at = "reading" /\ r.uid = mailPoll[p].uid) \/ <<mailValid, mailPoll[p].uid>> \in mailLooked'
    BY <1>5
  <2>3. \A u \in mailUnread' : u = mailPoll[p].uid /\ <<mailValid, u>> \in mailLooked' => MailInOf!Decided(u)'
    BY DEF MailInOf!Decided
  <2>4. QED
    BY <1>1, <2>1, <2>2, <2>3
<1>6. QED
  BY <1>1, <1>2, <1>3, <1>4, <1>5, FloorKept

LEMMA MailParts ==
  MailInOf!IInv <=> MailInOf!TypeOK /\ MailInOf!PollsSound /\ MailMemory /\ MailFloor
BY DEF MailInOf!IInv, MailMemory, MailFloor

LEMMA MailKept ==
  ASSUME MailInOf!TypeOK', MailInOf!PollsSound', MailMemory', MailFloor'
  PROVE  MailInOf!IInv'
BY DEF MailInOf!IInv, MailMemory, MailFloor

LEMMA PollFacts ==
  ASSUME MailInOf!IInv, NEW p \in Polls
  PROVE  /\ MailSteps /\ mailState.valid <= mailValid /\ mailSms \in [Mails -> Nat]
         /\ MailInOf!TypeOK /\ MailInOf!PollsSound /\ MailMemory /\ MailFloor
         /\ mailPoll \in [Polls -> MailInOf!PollRow] /\ mailPoll[p] \in MailInOf!PollRow
         /\ mailPoll[p].at \notin {"idle", "opening"} => mailPoll[p].valid = mailValid
         /\ mailPoll[p].at \in {"reading", "acting"} => mailPoll[p].uid \in 1..Len(mailBox)
         /\ \A u \in mailPoll[p].todo : u <= Len(mailBox)
         /\ mailPoll[p].at # "idle" /\ ~mailPoll[p].late =>
              \A q \in Polls \ {p} : MailInOf!Busy(q) => mailPoll[q].late
<1>1. MailInOf!TypeOK /\ MailInOf!PollsSound /\ MailMemory /\ MailFloor
  BY MailParts
<1>2. MailSteps
  BY <1>1, MailTypes
<1>3. mailPoll[p] \in MailInOf!PollRow
  BY <1>2 DEF MailSteps
<1>4. mailState.valid <= mailValid /\ mailSms \in [Mails -> Nat]
  BY <1>1 DEF MailInOf!PollsSound, MailInOf!TypeOK
<1>5. /\ mailPoll[p].at \notin {"idle", "opening"} => mailPoll[p].valid = mailValid
      /\ mailPoll[p].at \in {"reading", "acting"} => mailPoll[p].uid \in 1..Len(mailBox)
      /\ \A u \in mailPoll[p].todo : u <= Len(mailBox)
      /\ mailPoll[p].at # "idle" /\ ~mailPoll[p].late =>
           \A q \in Polls \ {p} : MailInOf!Busy(q) => mailPoll[q].late
  BY <1>1 DEF MailInOf!PollsSound, MailInOf!Busy, MailInOf!At
<1>6. QED
  BY <1>1, <1>2, <1>3, <1>4, <1>5 DEF MailSteps

(* A step of a poll that neither remembers, sends nor moves the floor.     *)
LEMMA QuietStep ==
  ASSUME MailInOf!IInv, NEW p \in Polls, NEW r \in MailInOf!PollRow,
         mailPoll' = [mailPoll EXCEPT ![p] = r],
         UNCHANGED <<mailBox, mailValid, mailEnabled, mailState, mailSeen, mailSms, mailChecked, mailDeaf>>,
         mailUnread' \subseteq mailUnread, mailTorn \subseteq mailTorn',
         mailLooked \subseteq mailLooked', mailOld \subseteq mailOld',
         r.at = "closing" => mailPoll[p].at = "closing",
         r.at \in {"idle", "opening"} \/ (mailPoll[p].at \in Looking \cup {"closing"} /\ r.valid = mailPoll[p].valid),
         r.at # "idle" => \/ mailPoll[p].at # "idle" /\ (mailPoll[p].late => r.late)
                          \/ \A q \in Polls : MailInOf!Busy(q) => mailPoll[q].late,
         r.todo \subseteq mailPoll[p].todo,
         r.at \in {"reading", "acting"} => r.uid = mailPoll[p].uid /\ MailInOf!At(p, r.at),
         r.at \in Looking =>
           /\ mailPoll[p].at \in Looking /\ r.highest = mailPoll[p].highest /\ r.todo = mailPoll[p].todo,
         MailInOf!At(p, "reading") =>
           \/ r.at = "reading" /\ (~mailPoll[p].late => ~r.late)
           \/ r.at \notin Looking /\ MailInOf!IdAt(p) \in mailTorn'
           \/ r.at = "reading" /\ MailInOf!IdAt(p) \in mailTorn'
  PROVE  MailInOf!IInv'
<1>1. /\ MailSteps /\ mailState.valid <= mailValid /\ mailSms \in [Mails -> Nat]
      /\ MailInOf!TypeOK /\ MailInOf!PollsSound /\ MailMemory /\ MailFloor
      /\ mailPoll \in [Polls -> MailInOf!PollRow] /\ mailPoll[p] \in MailInOf!PollRow
  BY PollFacts
<1>2. /\ mailPoll[p].at \notin {"idle", "opening"} => mailPoll[p].valid = mailValid
      /\ mailPoll[p].at \in {"reading", "acting"} => mailPoll[p].uid \in 1..Len(mailBox)
      /\ \A u \in mailPoll[p].todo : u <= Len(mailBox)
      /\ mailPoll[p].at # "idle" /\ ~mailPoll[p].late =>
           \A q \in Polls \ {p} : MailInOf!Busy(q) => mailPoll[q].late
  BY PollFacts
<1>3. /\ r.at \notin {"idle", "opening"} => r.valid = mailValid
      /\ r.at \in {"reading", "acting"} => r.uid \in 1..Len(mailBox)
      /\ \A u \in r.todo : u <= Len(mailBox)
  BY <1>2 DEF MailInOf!At, Looking
<1>4. \A q \in Polls \ {p} : MailInOf!Busy(q) /\ r.at # "idle" => r.late \/ mailPoll[q].late
  BY <1>2
<1>5. MailInOf!TypeOK' /\ MailInOf!PollsSound'
  BY <1>1, <1>3, <1>4, PollStep DEF MailSteps
<1>6. MailMemory'
  <2>1. r.at = "reading" => /\ MailInOf!At(p, "reading")
                            /\ r.uid = mailPoll[p].uid /\ r.valid = mailPoll[p].valid
    OBVIOUS
  <2>2. MailInOf!At(p, "reading") =>
          \/ r.at = "reading" /\ r.uid = mailPoll[p].uid /\ r.valid = mailPoll[p].valid
               /\ (~mailPoll[p].late => ~r.late)
          \/ MailInOf!IdAt(p) \in mailTorn'
    BY <2>1
  <2>3. QED
    BY <1>1, <2>1, <2>2, MemoryKept
<1>7. MailFloor'
  <2>1. r.at \in Looking =>
           /\ mailPoll[p].at \in Looking /\ r.highest = mailPoll[p].highest /\ r.todo = mailPoll[p].todo
           /\ MailInOf!At(p, "reading") /\ mailPoll[p].uid \in mailUnread' =>
                (r.at = "reading" /\ r.uid = mailPoll[p].uid) \/ <<mailValid, mailPoll[p].uid>> \in mailLooked'
    OBVIOUS
  <2>2. QED
    BY <1>1, <2>1, FloorStays
<1>8. QED
  BY <1>5, <1>6, <1>7, MailKept

LEMMA PollOpens ==
  ASSUME MailInOf!IInv, NEW p \in Polls, MailInOf!Start(p)
  PROVE  MailInOf!IInv'
<1> DEFINE r == [MailInOf!Idle EXCEPT !.at = "opening"]
<1>1. r \in MailInOf!PollRow /\ r.at = "opening" /\ r.todo = {} /\ ~r.late
  BY RowOpens
<1>2. /\ mailPoll' = [mailPoll EXCEPT ![p] = r]
      /\ UNCHANGED <<mailBox, mailValid, mailEnabled, mailState, mailSeen, mailSms, mailChecked, mailDeaf,
                     mailUnread, mailTorn, mailLooked, mailOld>>
      /\ ~MailInOf!Busy(p) /\ \A q \in Polls : MailInOf!Busy(q) => mailPoll[q].late
  BY DEF MailInOf!Start, MailInOf!Step, MailInOf!server, MailInOf!tables, MailInOf!Active
<1> HIDE DEF r
<1>3. mailPoll[p].at = "idle"
  BY <1>2 DEF MailInOf!Busy, MailInOf!At
<1>4. QED
  BY <1>1, <1>2, <1>3, QuietStep DEF MailInOf!At, Looking

LEMMA PollFails ==
  ASSUME MailInOf!IInv, NEW p \in Polls, MailInOf!Fail(p)
  PROVE  MailInOf!IInv'
<1> DEFINE r == MailInOf!Idle
<1>1. r \in MailInOf!PollRow /\ r.at = "idle" /\ r.todo = {} /\ ~r.late
  BY RowIdle
<1>2. /\ mailPoll' = [mailPoll EXCEPT ![p] = r]
      /\ UNCHANGED <<mailBox, mailValid, mailEnabled, mailState, mailSeen, mailSms, mailChecked, mailDeaf,
                     mailUnread, mailTorn, mailLooked, mailOld>>
      /\ mailPoll[p].at \in {"opening", "scanning"}
  BY DEF MailInOf!Fail, MailInOf!Step, MailInOf!server, MailInOf!tables, MailInOf!past, MailInOf!At
<1> HIDE DEF r
<1>3. QED
  BY <1>1, <1>2, QuietStep DEF MailInOf!At, Looking

LEMMA PollDrops ==
  ASSUME MailInOf!IInv, NEW p \in Polls, MailInOf!Drop(p)
  PROVE  MailInOf!IInv'
<1> DEFINE r == [mailPoll[p] EXCEPT !.up = FALSE]
<1>1. mailPoll[p] \in MailInOf!PollRow
  BY PollFacts
<1>2. /\ r \in MailInOf!PollRow /\ r.at = mailPoll[p].at
      /\ r.todo = mailPoll[p].todo /\ r.uid = mailPoll[p].uid /\ r.valid = mailPoll[p].valid
      /\ r.highest = mailPoll[p].highest /\ r.late = mailPoll[p].late
  BY <1>1, RowDrops
<1>3. /\ mailPoll' = [mailPoll EXCEPT ![p] = r]
      /\ UNCHANGED <<mailBox, mailValid, mailEnabled, mailState, mailSeen, mailSms, mailChecked, mailDeaf,
                     mailUnread, mailTorn, mailLooked, mailOld>>
      /\ mailPoll[p].at \in Looking
  BY DEF MailInOf!Drop, MailInOf!Step, MailInOf!server, MailInOf!tables, MailInOf!past, MailInOf!At, Looking
<1> HIDE DEF r
<1>4. QED
  BY <1>2, <1>3, QuietStep DEF MailInOf!At, Looking

LEMMA PollActs ==
  ASSUME MailInOf!IInv, NEW p \in Polls, MailInOf!Act(p)
  PROVE  MailInOf!IInv'
<1> DEFINE b == mailPoll[p].ok /\ mailPoll[p].up
           r == [mailPoll[p] EXCEPT !.at = "scanning", !.ok = b]
<1>1. mailPoll[p] \in MailInOf!PollRow
  BY PollFacts
<1>2. b \in BOOLEAN
  OBVIOUS
<1>3. mailPoll' = [mailPoll EXCEPT ![p] = r]
  BY DEF MailInOf!Act, MailInOf!Step
<1>4. /\ UNCHANGED <<mailBox, mailValid, mailEnabled, mailState, mailSeen, mailSms, mailChecked, mailDeaf,
                     mailTorn, mailLooked, mailOld>>
      /\ mailUnread' \subseteq mailUnread
      /\ mailPoll[p].at = "acting"
  BY DEF MailInOf!Act, MailInOf!tables, MailInOf!past, MailInOf!At
<1> HIDE DEF b
<1>5. /\ r \in MailInOf!PollRow /\ r.at = "scanning"
      /\ r.todo = mailPoll[p].todo /\ r.uid = mailPoll[p].uid /\ r.valid = mailPoll[p].valid
      /\ r.highest = mailPoll[p].highest /\ r.late = mailPoll[p].late
  BY <1>1, <1>2, RowActs
<1> HIDE DEF r
<1>6. QED
  BY <1>3, <1>4, <1>5, QuietStep DEF MailInOf!At, Looking

LEMMA PollLate ==
  ASSUME MailInOf!IInv, NEW p \in Polls, MailInOf!Timeout(p)
  PROVE  MailInOf!IInv'
<1>1. mailPoll[p] \in MailInOf!PollRow
  BY PollFacts
<1>2. /\ UNCHANGED <<mailBox, mailValid, mailEnabled, mailState, mailSeen, mailSms, mailChecked, mailDeaf,
                     mailUnread, mailLooked, mailOld>>
      /\ mailTorn' = mailTorn \cup MailInOf!ReadIds({p})
      /\ mailPoll[p].at # "idle" /\ ~mailPoll[p].late
  BY DEF MailInOf!Timeout, MailInOf!server, MailInOf!tables, MailInOf!Busy, MailInOf!At
<1>3. MailInOf!At(p, "reading") => MailInOf!IdAt(p) \in mailTorn'
  BY <1>2 DEF MailInOf!ReadIds, MailInOf!IdAt
<1>4. CASE MailInOf!At(p, "opening") /\ MailInOf!Step(p, MailInOf!Idle)
  <2> DEFINE r == MailInOf!Idle
  <2>1. r \in MailInOf!PollRow /\ r.at = "idle" /\ r.todo = {} /\ ~r.late
    BY RowIdle
  <2>2. mailPoll' = [mailPoll EXCEPT ![p] = r]
    BY <1>4 DEF MailInOf!Step
  <2> HIDE DEF r
  <2>3. QED
    BY <1>2, <1>4, <2>1, <2>2, QuietStep DEF MailInOf!At, Looking
<1>5. CASE MailInOf!Step(p, [mailPoll[p] EXCEPT !.late = TRUE])
  <2> DEFINE r == [mailPoll[p] EXCEPT !.late = TRUE]
  <2>1. /\ r \in MailInOf!PollRow /\ r.late
        /\ r.todo = mailPoll[p].todo /\ r.uid = mailPoll[p].uid /\ r.valid = mailPoll[p].valid
        /\ r.highest = mailPoll[p].highest /\ r.at = mailPoll[p].at
    BY <1>1, RowLate
  <2>2. mailPoll' = [mailPoll EXCEPT ![p] = r]
    BY <1>5 DEF MailInOf!Step
  <2> HIDE DEF r
  <2>3. r.at \in Looking \cup {"opening", "closing"}
    BY <1>1, <1>2, <2>1, PollFields DEF MailInOf!At, MailInOf!Places, Looking
  <2>4. QED
    BY <1>2, <1>3, <2>1, <2>2, <2>3, QuietStep DEF MailInOf!At, Looking
<1>6. QED
  BY <1>4, <1>5 DEF MailInOf!Timeout

(* What was read is decided about. *)
LEMMA ReadStep ==
  ASSUME MailInOf!IInv, NEW p \in Polls, MailInOf!At(p, "reading"), MailInOf!Done(p),
         UNCHANGED <<mailBox, mailValid, mailUnread, mailEnabled, mailState, mailOld>>,
         mailSeen' \subseteq MailKeys, mailSms' \in [Mails -> Nat]
  PROVE  /\ MailInOf!TypeOK' /\ MailInOf!PollsSound' /\ MailFloor'
         /\ \E r \in MailInOf!PollRow : mailPoll' = [mailPoll EXCEPT ![p] = r] /\ r.at = "acting"
<1>1. /\ MailSteps /\ mailState.valid <= mailValid
      /\ MailInOf!TypeOK /\ MailInOf!PollsSound /\ MailMemory /\ MailFloor
      /\ mailPoll \in [Polls -> MailInOf!PollRow] /\ mailPoll[p] \in MailInOf!PollRow
  BY PollFacts
<1>2. /\ mailPoll[p].valid = mailValid /\ mailPoll[p].uid \in 1..Len(mailBox)
      /\ \A u \in mailPoll[p].todo : u <= Len(mailBox)
      /\ ~mailPoll[p].late => \A q \in Polls \ {p} : MailInOf!Busy(q) => mailPoll[q].late
  BY PollFacts DEF MailInOf!At
<1> DEFINE r == [mailPoll[p] EXCEPT !.at = "acting"]
<1>3. /\ r \in MailInOf!PollRow /\ r.at = "acting"
      /\ r.todo = mailPoll[p].todo /\ r.uid = mailPoll[p].uid /\ r.valid = mailPoll[p].valid
      /\ r.highest = mailPoll[p].highest /\ r.late = mailPoll[p].late
  BY <1>1, RowMoves DEF MailInOf!Places
<1>4. /\ mailPoll' = [mailPoll EXCEPT ![p] = r]
      /\ mailLooked' = mailLooked \cup {<<mailValid, mailPoll[p].uid>>}
  BY <1>2 DEF MailInOf!Done, MailInOf!Go, MailInOf!Step
<1> HIDE DEF r
<1>5. MailInOf!TypeOK' /\ MailInOf!PollsSound'
  BY <1>1, <1>2, <1>3, <1>4, PollStep DEF MailSteps
<1>6. MailFloor'
  <2>1. mailPoll[p].at \in Looking /\ <<mailValid, mailPoll[p].uid>> \in mailLooked'
    BY <1>4 DEF MailInOf!At, Looking
  <2>2. QED
    BY <1>1, <1>3, <1>4, <2>1, FloorStays
<1>7. QED
  BY <1>3, <1>4, <1>5, <1>6

LEMMA PollReads ==
  ASSUME MailInOf!IInv, NEW p \in Polls,
         MailInOf!ReadKnown(p) \/ MailInOf!ReadUnchecked(p) \/ MailInOf!Unreadable(p)
  PROVE  MailInOf!IInv'
<1>1. /\ MailSteps /\ mailSms \in [Mails -> Nat] /\ MailMemory
      /\ mailPoll \in [Polls -> MailInOf!PollRow]
      /\ mailPoll[p].at \in {"reading", "acting"} => mailPoll[p].uid \in 1..Len(mailBox)
  BY PollFacts
<1>2. CASE MailInOf!ReadKnown(p)
  <2> DEFINE m == mailBox[mailPoll[p].uid]
  <2>1. /\ MailInOf!At(p, "reading") /\ MailInOf!Done(p) /\ m \in Known
        /\ \E n \in 0..1 : mailSms' = [mailSms EXCEPT ![m] = @ + n]
        /\ mailSeen' = MailInOf!Remember(p, mailPoll[p].uid, IdOf[m])
        /\ mailChecked' = mailChecked \cup {IdOf[m]}
        /\ UNCHANGED <<mailBox, mailUnread, mailValid, mailEnabled, mailState, mailOld, mailTorn, mailDeaf>>
    BY <1>2 DEF MailInOf!ReadKnown, MailInOf!server
  <2>2. m \in Mails
    BY <2>1, MailAssumption
  <2> HIDE DEF m
  <2>3. PICK n \in 0..1 : mailSms' = [mailSms EXCEPT ![m] = @ + n]
    BY <2>1
  <2>4. mailSms' \in [Mails -> Nat]
    BY <1>1, <2>2, <2>3
  <2>5. mailSeen' = mailSeen
    <3>1. \E k \in mailSeen : MailInOf!Own(p, k)
      BY <1>1, <2>1 DEF MailMemory, MailInOf!MemorySound
    <3>2. QED
      BY <2>1, <3>1 DEF MailInOf!Remember, MailInOf!SeenItself, MailInOf!Own
  <2>6. MailInOf!TypeOK' /\ MailInOf!PollsSound' /\ MailFloor'
    BY <1>1, <2>1, <2>4, <2>5, ReadStep DEF MailSteps
  <2>7. PICK r \in MailInOf!PollRow : mailPoll' = [mailPoll EXCEPT ![p] = r] /\ r.at = "acting"
    BY <1>1, <2>1, <2>4, <2>5, ReadStep DEF MailSteps
  <2>8. MailMemory'
    <3>1. m = mailBox[mailPoll[p].uid] /\ r.at # "reading"
      BY <2>7 DEF m
    <3>2. QED
      BY <1>1, <2>1, <2>2, <2>3, <2>5, <2>7, <3>1, MemoryChecked
  <2>9. QED
    BY <2>6, <2>8, MailKept
<1>3. CASE MailInOf!ReadUnchecked(p) \/ MailInOf!Unreadable(p)
  <2>1. /\ MailInOf!At(p, "reading") /\ MailInOf!Done(p) /\ mailSeen' = MailInOf!Forget(p)
        /\ UNCHANGED <<mailBox, mailUnread, mailValid, mailEnabled, mailState, mailOld, mailTorn, mailDeaf,
                       mailSms, mailChecked>>
    BY <1>3 DEF MailInOf!ReadUnchecked, MailInOf!Unchecked, MailInOf!Unreadable, MailInOf!server
  <2>2. mailSeen' \subseteq MailKeys
    BY <1>1, <2>1, ForgetTyped
  <2>3. MailInOf!TypeOK' /\ MailInOf!PollsSound' /\ MailFloor'
    BY <1>1, <2>1, <2>2, ReadStep
  <2>4. PICK r \in MailInOf!PollRow : mailPoll' = [mailPoll EXCEPT ![p] = r] /\ r.at = "acting"
    BY <1>1, <2>1, <2>2, ReadStep
  <2>5. MailMemory'
    <3>1. r.at # "reading"
      BY <2>4
    <3>2. QED
      BY <1>1, <2>1, <2>4, <3>1, MemoryForgets
  <2>6. QED
    BY <2>3, <2>5, MailKept
<1>4. QED
  BY <1>2, <1>3

(* A poll goes on to the next mail of its list. *)
LEMMA TakeStep ==
  ASSUME MailInOf!IInv, NEW p \in Polls, MailInOf!Goes(p), NEW place \in Looking, NEW n \in 0..1,
         MailInOf!Taken(p, place, n),
         UNCHANGED <<mailBox, mailUnread, mailValid, mailEnabled, mailState, mailOld, mailSms>>,
         mailSeen' \subseteq MailKeys, mailLooked \subseteq mailLooked',
         place = "reading" \/ <<mailValid, MailInOf!Next1(p)>> \in mailLooked'
  PROVE  /\ MailInOf!TypeOK' /\ MailInOf!PollsSound' /\ MailFloor'
         /\ \E r \in MailInOf!PollRow :
              /\ mailPoll' = [mailPoll EXCEPT ![p] = r] /\ r.at = place
              /\ r.uid = MailInOf!Next1(p) /\ r.valid = mailValid /\ ~r.late
<1>U. PICK u : u = MailInOf!Next1(p)
  OBVIOUS
<1> DEFINE t == mailPoll[p].todo \ {u}
           f == mailPoll[p].fetched + n
           r == [mailPoll[p] EXCEPT !.at = place, !.uid = u, !.todo = t, !.highest = u, !.fetched = f]
<1>1. /\ MailSteps /\ mailState.valid <= mailValid /\ mailSms \in [Mails -> Nat]
      /\ MailInOf!TypeOK /\ MailInOf!PollsSound /\ MailFloor
      /\ mailPoll \in [Polls -> MailInOf!PollRow] /\ mailPoll[p] \in MailInOf!PollRow
      /\ \A w \in mailPoll[p].todo : w <= Len(mailBox)
  BY PollFacts
<1>2. /\ u \in mailPoll[p].todo /\ u \in 1..Len(mailBox) /\ u \in 1..MaxUid
      /\ \A w \in mailPoll[p].todo : u <= w
      /\ mailPoll[p].valid = mailValid /\ mailPoll[p].at = "scanning" /\ ~mailPoll[p].late
      /\ \A q \in Polls : q # p /\ MailInOf!Busy(q) => mailPoll[q].late
  BY <1>1, <1>U, NextListed DEF MailInOf!Uids
<1>3. mailPoll' = [mailPoll EXCEPT ![p] = r]
  BY <1>U DEF MailInOf!Taken, MailInOf!Step
<1>5. place \in MailInOf!Places /\ t \in SUBSET MailInOf!Uids /\ f \in Nat /\ t = mailPoll[p].todo \ {u}
  <2>1. place \in MailInOf!Places
    BY DEF MailInOf!Places, Looking
  <2>2. mailPoll[p].todo \subseteq MailInOf!Uids /\ mailPoll[p].fetched \in Nat
    BY <1>1 DEF MailInOf!PollRow
  <2>3. QED
    BY <2>1, <2>2
<1> HIDE DEF t, f
<1>6. /\ r \in MailInOf!PollRow /\ r.at = place
      /\ r.todo = mailPoll[p].todo \ {u} /\ r.uid = u /\ r.valid = mailPoll[p].valid /\ r.highest = u
      /\ r.late = mailPoll[p].late
  BY <1>1, <1>2, <1>5, RowTakes DEF MailInOf!PollRow
<1> HIDE DEF r
<1>7. MailInOf!TypeOK' /\ MailInOf!PollsSound'
  <2>1. /\ r.at \notin {"idle", "opening"} => r.valid = mailValid
        /\ r.at \in {"reading", "acting"} => r.uid \in 1..Len(mailBox)
        /\ \A w \in r.todo : w <= Len(mailBox)
        /\ \A q \in Polls \ {p} : MailInOf!Busy(q) /\ r.at # "idle" => r.late \/ mailPoll[q].late
    BY <1>1, <1>2, <1>6
  <2>2. QED
    BY <1>1, <1>3, <1>6, <2>1, PollStep DEF MailSteps
<1>8. MailFloor'
  <2>1. /\ mailPoll[p].highest <= Len(mailBox) /\ \A w \in mailPoll[p].todo : mailPoll[p].highest < w
        /\ \A w \in mailUnread :
             IF w <= mailPoll[p].highest THEN MailInOf!Decided(w)
             ELSE w \in mailPoll[p].todo \/ \A x \in mailPoll[p].todo : x < w
    BY <1>1, <1>2 DEF MailFloor, MailInOf!FloorSound, MailInOf!At
  <2>2. mailPoll[p].todo \subseteq Nat /\ mailPoll[p].highest \in Nat /\ mailUnread \subseteq Nat /\ u \in Nat
    BY <1>1, <1>2, PollFields DEF MailSteps, MailInOf!Uids
  <2>3. \A w : MailInOf!Decided(w) => MailInOf!Decided(w)'
    BY DEF MailInOf!Decided
  <2>4. place = "reading" \/ MailInOf!Decided(u)'
    BY <1>U DEF MailInOf!Decided
  <2>5. ASSUME NEW w \in mailUnread
        PROVE  IF w <= r.highest THEN MailInOf!Decided(w)' \/ (r.at = "reading" /\ w = r.uid)
               ELSE w \in r.todo \/ \A x \in r.todo : x < w
    <3>1. CASE w < u
      <4>1. w <= mailPoll[p].highest
        BY <1>2, <2>1, <2>2, <3>1
      <4>2. MailInOf!Decided(w)' /\ w <= r.highest
        BY <1>6, <2>1, <2>2, <2>3, <3>1, <4>1
      <4>3. QED
        BY <4>2
    <3>2. CASE w = u
      <4>1. MailInOf!Decided(w)' \/ (r.at = "reading" /\ w = r.uid)
        BY <1>6, <2>4, <3>2
      <4>2. w <= r.highest
        BY <1>6, <2>2, <3>2
      <4>3. QED
        BY <4>1, <4>2
    <3>3. CASE w > u
      <4>1. ~(w <= mailPoll[p].highest) /\ ~(w <= r.highest)
        BY <1>2, <1>6, <2>1, <2>2, <3>3
      <4>2. w \in mailPoll[p].todo \/ \A x \in mailPoll[p].todo : x < w
        BY <2>1, <4>1
      <4>3. w \in r.todo \/ \A x \in r.todo : x < w
        BY <1>6, <2>2, <3>3, <4>2
      <4>4. QED
        BY <4>1, <4>3
    <3>4. QED
      BY <2>2, <3>1, <3>2, <3>3
  <2>6. r.highest <= Len(mailBox) /\ \A w \in r.todo : r.highest < w
    BY <1>1, <1>2, <1>6, <2>2
  <2>7. MailInOf!NothingBelowFloor'
    BY <1>1, <2>3 DEF MailFloor, MailInOf!NothingBelowFloor
  <2>8. mailState.floor <= Len(mailBox) /\ r.at # "closing"
    BY <1>1, <1>6 DEF MailFloor, MailInOf!FloorSound, Looking
  <2>9. QED
    BY <1>1, <1>3, <1>6, <2>3, <2>5, <2>6, <2>7, <2>8, FloorKept
<1>9. mailPoll' = [mailPoll EXCEPT ![p] = r] /\ r.at = place /\ r.uid = u /\ r.valid = mailValid /\ ~r.late
  BY <1>2, <1>3, <1>6
<1>10. QED
  BY <1>U, <1>6, <1>7, <1>8, <1>9

LEMMA RememberTyped ==
  ASSUME MailSteps, NEW p \in Polls, mailPoll[p].valid = mailValid, NEW u \in MailInOf!Uids,
         NEW id \in Ids \cup {MailInOf!None}
  PROVE  MailInOf!Remember(p, u, id) \subseteq MailKeys
<1>1. MailInOf!Key(mailPoll[p].valid, u, id) \in MailKeys
  BY DEF MailInOf!Key, MailKeys, MailSteps
<1>2. QED
  BY <1>1 DEF MailInOf!Remember, MailSteps

LEMMA PollSkips ==
  ASSUME MailInOf!IInv, NEW p \in Polls,
         MailInOf!SkipSeen(p) \/ MailInOf!SkipUnfit(p) \/ MailInOf!Take(p)
  PROVE  MailInOf!IInv'
<1>U. PICK u : u = MailInOf!Next1(p)
  OBVIOUS
<1>I. PICK id : id = IdOf[mailBox[u]]
  OBVIOUS
<1>1. /\ MailSteps /\ mailSms \in [Mails -> Nat] /\ MailMemory
      /\ MailInOf!TypeOK /\ MailInOf!PollsSound
      /\ mailPoll \in [Polls -> MailInOf!PollRow]
  BY PollFacts
<1>2. MailInOf!Goes(p)
  BY DEF MailInOf!SkipSeen, MailInOf!SkipUnfit, MailInOf!Take
<1>3. /\ u \in MailInOf!Uids /\ id \in Ids /\ mailBox[u] \in Mails
      /\ mailPoll[p].valid = mailValid /\ mailPoll[p].at = "scanning" /\ ~mailPoll[p].late
      /\ \A q \in Polls : q # p /\ MailInOf!Busy(q) => mailPoll[q].late
  BY <1>1, <1>2, <1>U, <1>I, NextListed
<1>4. MailInOf!SeenItself(p, u) <=> \E k \in mailSeen : k.valid = mailValid /\ k.uid = u
  BY <1>3 DEF MailInOf!SeenItself
<1>5. \A i \in Ids \cup {MailInOf!None} :
        /\ MailInOf!Remember(p, u, i) \subseteq MailKeys
        /\ MailInOf!SeenItself(p, u) => MailInOf!Remember(p, u, i) = mailSeen
        /\ ~MailInOf!SeenItself(p, u) =>
             MailInOf!Remember(p, u, i) = mailSeen \cup {MailInOf!Key(mailValid, u, i)}
  BY <1>1, <1>3, RememberTyped DEF MailInOf!Remember
<1>6. ~MailInOf!At(p, "reading")
  BY <1>3 DEF MailInOf!At
<1>7. CASE MailInOf!SkipSeen(p)
  <2>1. /\ MailInOf!WasSeen(p, u) /\ mailSeen' = MailInOf!Remember(p, u, id)
        /\ mailLooked' = mailLooked \cup {<<mailPoll[p].valid, u>>}
        /\ mailDeaf' = IF mailBox[u] \in Known /\ ~MailInOf!SeenItself(p, u) /\ id \notin mailChecked \cup mailTorn
                       THEN mailDeaf \cup {mailBox[u]} ELSE mailDeaf
        /\ MailInOf!Taken(p, "scanning", 0)
        /\ UNCHANGED <<mailBox, mailUnread, mailValid, mailEnabled, mailState, mailSms, mailOld, mailChecked, mailTorn>>
    BY <1>7, <1>U, <1>I DEF MailInOf!SkipSeen, MailInOf!server
  <2>2. mailSeen' \subseteq MailKeys
    BY <1>3, <1>5, <2>1
  <2>3. "scanning" \in Looking /\ <<mailValid, MailInOf!Next1(p)>> \in mailLooked'
    BY <1>3, <1>U, <2>1 DEF Looking
  <2>4. MailInOf!TypeOK' /\ MailInOf!PollsSound' /\ MailFloor'
    BY <1>2, <2>1, <2>2, <2>3, TakeStep
  <2>5. PICK r \in MailInOf!PollRow : mailPoll' = [mailPoll EXCEPT ![p] = r] /\ r.at = "scanning"
    BY <1>2, <2>1, <2>2, <2>3, TakeStep
  <2>6. ~MailInOf!SeenItself(p, u) => id \in mailChecked \cup mailTorn
    <3>1. SUFFICES ASSUME ~MailInOf!SeenItself(p, u)
                   PROVE  id \in mailChecked \cup mailTorn
      OBVIOUS
    <3>2. PICK k \in mailSeen : k.id = id
      BY <1>I, <2>1, <3>1 DEF MailInOf!WasSeen
    <3>3. id # MailInOf!None
      BY <1>3, MailAssumption DEF MailInOf!None
    <3>4. ~\E q \in Polls : MailInOf!Own(q, k) /\ ~mailPoll[q].late
      <4>1. \A q \in Polls : MailInOf!At(q, "reading") => q # p /\ MailInOf!Busy(q)
        BY <1>6 DEF MailInOf!Busy, MailInOf!At
      <4>2. QED
        BY <1>3, <4>1 DEF MailInOf!Own
    <3>5. QED
      BY <1>1, <3>2, <3>3, <3>4 DEF MailMemory, MailInOf!MemorySound
  <2>7. mailDeaf' = mailDeaf
    BY <2>1, <2>6
  <2>8. MailMemory'
    <3>1. CASE MailInOf!SeenItself(p, u)
      <4>1. mailSeen' = mailSeen
        BY <1>3, <1>5, <2>1, <3>1
      <4>2. r.at # "reading" /\ mailTorn \subseteq mailTorn'
        BY <2>1, <2>5
      <4>3. QED
        BY <1>1, <1>6, <2>1, <2>5, <2>7, <4>1, <4>2, MemoryKept
    <3>2. CASE ~MailInOf!SeenItself(p, u)
      <4>1. mailSeen' = mailSeen \cup {MailInOf!Key(mailValid, u, id)}
        BY <1>3, <1>5, <2>1, <3>2
      <4>2. /\ \A k \in mailSeen : ~(k.valid = mailValid /\ k.uid = u)
            /\ \/ r.at # "reading" /\ id \in {MailInOf!None} \cup mailChecked \cup mailTorn
               \/ /\ r.at = "reading" /\ r.valid = mailValid /\ r.uid = u /\ ~r.late
                  /\ id = IdOf[mailBox[u]] /\ \A k \in mailSeen : k.id # id
        BY <1>4, <2>5, <2>6, <3>2
      <4>3. QED
        BY <1>1, <1>6, <2>1, <2>5, <2>7, <1>3, <4>1, <4>2, MemoryGrows
    <3>3. QED
      BY <3>1, <3>2
  <2>9. QED
    BY <2>4, <2>8, MailKept
<1>8. CASE MailInOf!SkipUnfit(p)
  <2>1. /\ ~MailInOf!WasSeen(p, u) /\ mailSeen' = MailInOf!Remember(p, u, MailInOf!None)
        /\ mailLooked' = mailLooked \cup {<<mailPoll[p].valid, u>>}
        /\ \E place \in {"scanning", "acting"} : MailInOf!Taken(p, place, 0)
        /\ UNCHANGED <<mailBox, mailUnread, mailValid, mailEnabled, mailState, mailSms, mailOld, mailChecked,
                       mailTorn, mailDeaf>>
    BY <1>8, <1>U, <1>I DEF MailInOf!SkipUnfit, MailInOf!server
  <2>2. PICK place \in {"scanning", "acting"} : MailInOf!Taken(p, place, 0)
    BY <2>1
  <2>3. /\ mailSeen' \subseteq MailKeys /\ ~MailInOf!SeenItself(p, u)
        /\ mailSeen' = mailSeen \cup {MailInOf!Key(mailValid, u, MailInOf!None)}
    BY <1>5, <2>1 DEF MailInOf!WasSeen
  <2>4. place \in Looking /\ <<mailValid, MailInOf!Next1(p)>> \in mailLooked'
    BY <1>3, <1>U, <2>1 DEF Looking
  <2>5. MailInOf!TypeOK' /\ MailInOf!PollsSound' /\ MailFloor'
    BY <1>2, <2>1, <2>2, <2>3, <2>4, TakeStep
  <2>6. PICK r \in MailInOf!PollRow : mailPoll' = [mailPoll EXCEPT ![p] = r] /\ r.at = place
    BY <1>2, <2>1, <2>2, <2>3, <2>4, TakeStep
  <2>7. MailMemory'
    <3>1. /\ \A k \in mailSeen : ~(k.valid = mailValid /\ k.uid = u)
          /\ \/ r.at # "reading" /\ MailInOf!None \in {MailInOf!None} \cup mailChecked \cup mailTorn
             \/ /\ r.at = "reading" /\ r.valid = mailValid /\ r.uid = u /\ ~r.late
                /\ MailInOf!None = IdOf[mailBox[u]] /\ \A k \in mailSeen : k.id # MailInOf!None
      BY <1>4, <2>3, <2>6
    <3>2. QED
      BY <1>1, <1>6, <2>1, <2>3, <2>6, <1>3, <3>1, MemoryGrows
  <2>8. QED
    BY <2>5, <2>7, MailKept
<1>9. CASE MailInOf!Take(p)
  <2>1. /\ ~MailInOf!WasSeen(p, u) /\ mailSeen' = MailInOf!Remember(p, u, id)
        /\ MailInOf!Taken(p, "reading", 1)
        /\ UNCHANGED <<mailBox, mailUnread, mailValid, mailEnabled, mailState, mailSms, mailLooked, mailOld,
                       mailChecked, mailTorn, mailDeaf>>
    BY <1>9, <1>U, <1>I DEF MailInOf!Take, MailInOf!server, MailInOf!past
  <2>2. /\ mailSeen' \subseteq MailKeys /\ ~MailInOf!SeenItself(p, u)
        /\ mailSeen' = mailSeen \cup {MailInOf!Key(mailValid, u, id)}
        /\ \A k \in mailSeen : k.id # id
    BY <1>3, <1>5, <1>I, <2>1 DEF MailInOf!WasSeen
  <2>3. "reading" \in Looking /\ 1 \in 0..1 /\ mailLooked \subseteq mailLooked'
    BY <2>1 DEF Looking
  <2>4. MailInOf!TypeOK' /\ MailInOf!PollsSound' /\ MailFloor'
    BY <1>2, <2>1, <2>2, <2>3, TakeStep
  <2>5. PICK r \in MailInOf!PollRow :
          /\ mailPoll' = [mailPoll EXCEPT ![p] = r] /\ r.at = "reading"
          /\ r.uid = u /\ r.valid = mailValid /\ ~r.late
    BY <1>2, <1>U, <2>1, <2>2, <2>3, TakeStep
  <2>6. MailMemory'
    <3>1. /\ \A k \in mailSeen : ~(k.valid = mailValid /\ k.uid = u)
          /\ \/ r.at # "reading" /\ id \in {MailInOf!None} \cup mailChecked \cup mailTorn
             \/ /\ r.at = "reading" /\ r.valid = mailValid /\ r.uid = u /\ ~r.late
                /\ id = IdOf[mailBox[u]] /\ \A k \in mailSeen : k.id # id
      BY <1>4, <1>I, <2>2, <2>5
    <3>2. QED
      BY <1>1, <1>6, <2>1, <2>2, <2>5, <1>3, <3>1, MemoryGrows
  <2>7. QED
    BY <2>4, <2>6, MailKept
<1>10. QED
  BY <1>7, <1>8, <1>9

(* The floor is set, or a poll begins above it. *)
LEMMA FloorSet ==
  ASSUME NEW s \in MailStates, NEW f \in 0..MaxUid, NEW v \in -1..MaxValid
  PROVE  LET z == MailInOf!SetFloor(f, v, s)
         IN z \in MailStates /\ z.floor = f /\ z.valid = v /\ z.backlog = s.backlog /\ z.ok = s.ok
BY DEF MailInOf!SetFloor, MailStates

LEMMA MailScalars ==
  ASSUME MailSteps
  PROVE  /\ Len(mailBox) \in 0..MaxUid /\ mailValid \in 0..MaxValid /\ mailValid \in -1..MaxValid
         /\ mailValid \in Nat /\ mailState.floor \in 0..MaxUid /\ mailState.valid \in -1..MaxValid
         /\ mailState.backlog \in BOOLEAN /\ mailUnread \subseteq Nat /\ \A u \in mailUnread : 1 <= u /\ u <= Len(mailBox)
<1>1. MaxUid \in Nat /\ MaxValid \in Nat
  BY MailAssumption
<1>2. QED
  BY <1>1 DEF MailSteps, MailStates

LEMMA PollFromNow ==
  ASSUME MailInOf!IInv, NEW p \in Polls, MailInOf!FromNow(p)
  PROVE  MailInOf!IInv'
<1>1. /\ MailSteps /\ mailState.valid <= mailValid /\ mailSms \in [Mails -> Nat]
      /\ MailInOf!TypeOK /\ MailInOf!PollsSound /\ MailMemory /\ MailFloor
      /\ mailPoll \in [Polls -> MailInOf!PollRow] /\ mailPoll[p] \in MailInOf!PollRow
      /\ \A u \in mailPoll[p].todo : u <= Len(mailBox)
  BY PollFacts
<1>2. /\ Len(mailBox) \in 0..MaxUid /\ mailValid \in 0..MaxValid /\ mailValid \in -1..MaxValid /\ mailValid \in Nat
      /\ mailState \in MailStates
  BY <1>1, MailScalars DEF MailSteps
<1> DEFINE r == [mailPoll[p] EXCEPT !.at = "closing", !.valid = mailValid]
<1>3. /\ mailPoll' = [mailPoll EXCEPT ![p] = r]
      /\ mailPoll[p].at = "opening"
      /\ mailState' = MailInOf!SetFloor(Len(mailBox), mailValid, mailState)
      /\ mailOld' = {<<mailValid, u>> : u \in 1..Len(mailBox)}
      /\ UNCHANGED <<mailBox, mailValid, mailUnread, mailEnabled, mailSeen, mailSms, mailLooked, mailChecked,
                     mailTorn, mailDeaf>>
  BY DEF MailInOf!FromNow, MailInOf!Step, MailInOf!server, MailInOf!At
<1>4. /\ r \in MailInOf!PollRow /\ r.at = "closing"
      /\ r.todo = mailPoll[p].todo /\ r.valid = mailValid /\ r.late = mailPoll[p].late
  BY <1>1, <1>2, RowCloses DEF MailInOf!PollRow
<1> HIDE DEF r
<1>5. /\ mailState' \in MailStates /\ mailState'.floor = Len(mailBox) /\ mailState'.valid = mailValid
  BY <1>2, <1>3, FloorSet
<1>6. MailInOf!TypeOK' /\ MailInOf!PollsSound'
  <2>1. \A q \in Polls \ {p} : MailInOf!Busy(q) /\ r.at # "idle" => r.late \/ mailPoll[q].late
    BY <1>3, <1>4, PollFacts
  <2>2. mailState'.valid <= mailValid
    BY <1>2, <1>5
  <2>3. QED
    BY <1>1, <1>3, <1>4, <1>5, <2>1, <2>2, PollStep DEF MailSteps
<1>7. MailMemory'
  BY <1>1, <1>3, <1>4, MemoryKept DEF MailInOf!At
<1>8. MailFloor'
  <2>1. \A u \in mailUnread' : MailInOf!Decided(u)'
    BY <1>1, <1>3 DEF MailInOf!Decided, MailSteps
  <2>2. MailInOf!NothingBelowFloor'
    BY <2>1 DEF MailInOf!NothingBelowFloor, MailInOf!Decided
  <2>3. mailState'.floor <= Len(mailBox) /\ r.at \notin Looking
    BY <1>2, <1>4, <1>5 DEF Looking
  <2>4. QED
    BY <1>1, <1>3, <1>4, <1>5, <2>1, <2>2, <2>3, FloorKept
<1>9. QED
  BY <1>6, <1>7, <1>8, MailKept

LEMMA PollBegins ==
  ASSUME MailInOf!IInv, NEW p \in Polls, MailInOf!Begin(p)
  PROVE  MailInOf!IInv'
<1>1. /\ MailSteps /\ mailState.valid <= mailValid /\ mailSms \in [Mails -> Nat]
      /\ MailInOf!TypeOK /\ MailInOf!PollsSound /\ MailMemory /\ MailFloor
      /\ mailPoll \in [Polls -> MailInOf!PollRow] /\ mailPoll[p] \in MailInOf!PollRow
  BY PollFacts
<1>2. /\ Len(mailBox) \in 0..MaxUid /\ mailValid \in 0..MaxValid /\ mailValid \in Nat
      /\ mailState.floor \in 0..MaxUid /\ mailState.backlog \in BOOLEAN /\ mailState.floor <= Len(mailBox)
      /\ mailUnread \subseteq Nat /\ \A u \in mailUnread : 1 <= u /\ u <= Len(mailBox)
  BY <1>1, MailScalars DEF MailFloor, MailInOf!FloorSound
<1> DEFINE h == IF mailState.backlog \/ MailInOf!Changed THEN 0 ELSE mailState.floor
           t == {u \in mailUnread : u > h}
           b == mailState.backlog
           r == [mailPoll[p] EXCEPT !.at = "scanning", !.valid = mailValid, !.highest = h, !.backlog = b, !.todo = t]
<1>3. /\ mailPoll' = [mailPoll EXCEPT ![p] = r]
      /\ mailPoll[p].at = "opening"
      /\ ~(MailInOf!First \/ MailInOf!Changed) \/ b
      /\ UNCHANGED <<mailBox, mailValid, mailUnread, mailEnabled, mailState, mailSeen, mailSms, mailLooked, mailOld,
                     mailChecked, mailTorn, mailDeaf>>
  BY DEF MailInOf!Begin, MailInOf!Step, MailInOf!server, MailInOf!tables, MailInOf!past, MailInOf!At
<1>4. h = 0 \/ (h = mailState.floor /\ ~mailState.backlog /\ mailState.valid = mailValid)
  BY <1>3 DEF MailInOf!First, MailInOf!Changed
<1>5. t \subseteq mailUnread /\ \A u \in mailUnread : u \in t <=> u > h
  OBVIOUS
<1>6. b \in BOOLEAN
  BY <1>2
<1> HIDE DEF h, t, b
<1>7. h \in 0..MaxUid /\ h <= Len(mailBox) /\ h \in Nat
  <2>1. MaxUid \in Nat
    BY MailAssumption
  <2>2. QED
    BY <1>2, <1>4, <2>1
<1>8. t \in SUBSET MailInOf!Uids
  <2>1. \A u \in mailUnread : u \in 1..MaxUid
    BY <1>2, MailAssumption
  <2>2. QED
    BY <1>5, <2>1 DEF MailInOf!Uids
<1>9. /\ r \in MailInOf!PollRow /\ r.at = "scanning"
      /\ r.todo = t /\ r.valid = mailValid /\ r.late = mailPoll[p].late /\ r.highest = h
  BY <1>1, <1>2, <1>6, <1>7, <1>8, RowBegins DEF MailInOf!PollRow
<1> HIDE DEF r
<1>10. MailInOf!TypeOK' /\ MailInOf!PollsSound'
  <2>1. \A q \in Polls \ {p} : MailInOf!Busy(q) /\ r.at # "idle" => r.late \/ mailPoll[q].late
    BY <1>3, <1>9, PollFacts
  <2>2. \A u \in r.todo : u <= Len(mailBox)
    BY <1>2, <1>5, <1>9
  <2>3. QED
    BY <1>1, <1>3, <1>9, <2>1, <2>2, PollStep DEF MailSteps
<1>11. MailMemory'
  BY <1>1, <1>3, <1>9, MemoryKept DEF MailInOf!At
<1>12. MailFloor'
  <2>1. \A u : MailInOf!Decided(u) => MailInOf!Decided(u)'
    BY <1>3 DEF MailInOf!Decided
  <2>2. MailInOf!NothingBelowFloor'
    BY <1>1, <1>3 DEF MailFloor, MailInOf!NothingBelowFloor
  <2>3. ASSUME NEW u \in mailUnread, u <= h
        PROVE  MailInOf!Decided(u)
    <3>1. h # 0
      BY <1>2, <1>7, <2>3
    <3>2. QED
      BY <1>1, <1>4, <2>3, <3>1 DEF MailFloor, MailInOf!NothingBelowFloor, MailInOf!Decided
  <2>4. \A u \in mailUnread :
          IF u <= r.highest THEN MailInOf!Decided(u)' \/ (r.at = "reading" /\ u = r.uid)
          ELSE u \in r.todo \/ \A w \in r.todo : w < u
    BY <1>2, <1>5, <1>7, <1>9, <2>1, <2>3
  <2>5. r.highest <= Len(mailBox) /\ \A u \in r.todo : r.highest < u
    BY <1>2, <1>5, <1>7, <1>9
  <2>6. QED
    BY <1>1, <1>2, <1>3, <1>9, <2>1, <2>2, <2>4, <2>5, FloorKept
<1>13. QED
  BY <1>10, <1>11, <1>12, MailKept

LEMMA PollFinishes ==
  ASSUME MailInOf!IInv, NEW p \in Polls, MailInOf!Finish(p)
  PROVE  MailInOf!IInv'
<1>1. /\ MailSteps /\ mailState.valid <= mailValid /\ mailSms \in [Mails -> Nat]
      /\ MailInOf!TypeOK /\ MailInOf!PollsSound /\ MailMemory /\ MailFloor
      /\ mailPoll \in [Polls -> MailInOf!PollRow] /\ mailPoll[p] \in MailInOf!PollRow
      /\ \A u \in mailPoll[p].todo : u <= Len(mailBox)
  BY PollFacts
<1>2. /\ mailPoll[p].highest \in 0..MaxUid /\ mailValid \in -1..MaxValid /\ mailValid \in Nat
      /\ mailState \in MailStates /\ mailState.backlog \in BOOLEAN
  BY <1>1, MailScalars, PollFields DEF MailSteps
<1> DEFINE r == [mailPoll[p] EXCEPT !.at = "closing"]
           s == MailInOf!SetFloor(mailPoll[p].highest, mailPoll[p].valid, mailState)
           b == mailState.backlog /\ ~mailPoll[p].backlog
<1>3. /\ mailPoll' = [mailPoll EXCEPT ![p] = r]
      /\ mailPoll[p].at = "scanning"
      /\ UNCHANGED <<mailBox, mailValid, mailUnread, mailEnabled, mailSeen, mailSms, mailLooked, mailOld,
                     mailChecked, mailTorn, mailDeaf>>
  BY DEF MailInOf!Finish, MailInOf!Go, MailInOf!Step, MailInOf!server, MailInOf!past, MailInOf!At
<1>4. mailPoll[p].valid = mailValid
  BY <1>3, PollFacts
<1>5. s \in MailStates /\ s.floor = mailPoll[p].highest /\ s.valid = mailValid /\ s.backlog = mailState.backlog
  BY <1>2, <1>4, FloorSet
<1>6. b \in BOOLEAN /\ mailState' = [s EXCEPT !.backlog = b]
  <2>1. mailState' = [s EXCEPT !.backlog = @ /\ ~mailPoll[p].backlog]
    BY DEF MailInOf!Finish
  <2>2. mailState' = [s EXCEPT !.backlog = s.backlog /\ ~mailPoll[p].backlog]
    BY <2>1
  <2>3. QED
    BY <1>5, <2>2
<1>7. /\ r \in MailInOf!PollRow /\ r.at = "closing"
      /\ r.todo = mailPoll[p].todo /\ r.valid = mailPoll[p].valid /\ r.late = mailPoll[p].late
  BY <1>1, RowMoves DEF MailInOf!Places, MailInOf!PollRow
<1> HIDE DEF r, s, b
<1>8. mailState' \in MailStates /\ mailState'.floor = mailPoll[p].highest /\ mailState'.valid = mailValid
  BY <1>5, <1>6 DEF MailStates
<1>9. MailInOf!TypeOK' /\ MailInOf!PollsSound'
  <2>1. \A q \in Polls \ {p} : MailInOf!Busy(q) /\ r.at # "idle" => r.late \/ mailPoll[q].late
    BY <1>3, <1>7, PollFacts
  <2>2. mailState'.valid <= mailValid /\ r.valid = mailValid
    BY <1>2, <1>4, <1>7, <1>8
  <2>3. QED
    BY <1>1, <1>3, <1>7, <1>8, <2>1, <2>2, PollStep DEF MailSteps
<1>10. MailMemory'
  BY <1>1, <1>3, <1>7, MemoryKept DEF MailInOf!At
<1>11. MailFloor'
  <2>1. \A u : MailInOf!Decided(u) => MailInOf!Decided(u)'
    BY <1>3 DEF MailInOf!Decided
  <2>2. /\ mailPoll[p].highest <= Len(mailBox)
        /\ \A u \in mailUnread : u <= mailPoll[p].highest => MailInOf!Decided(u)
    BY <1>1, <1>3 DEF MailFloor, MailInOf!FloorSound, MailInOf!At
  <2>3. MailInOf!NothingBelowFloor'
    BY <1>3, <1>8, <2>2 DEF MailInOf!NothingBelowFloor, MailInOf!Decided
  <2>4. r.at \notin Looking
    BY <1>7 DEF Looking
  <2>5. QED
    BY <1>1, <1>3, <1>7, <1>8, <2>1, <2>2, <2>3, <2>4, FloorKept
<1>12. QED
  BY <1>9, <1>10, <1>11, MailKept

LEMMA PollRecorded ==
  ASSUME MailInOf!IInv, NEW p \in Polls, MailInOf!Record(p)
  PROVE  MailInOf!IInv'
<1>1. /\ MailSteps /\ mailState.valid <= mailValid /\ mailSms \in [Mails -> Nat]
      /\ MailInOf!TypeOK /\ MailInOf!PollsSound /\ MailMemory /\ MailFloor
      /\ mailPoll \in [Polls -> MailInOf!PollRow]
  BY PollFacts
<1>2. /\ mailValid \in -1..MaxValid /\ mailValid \in Nat /\ mailState \in MailStates
      /\ mailState.floor \in 0..MaxUid /\ mailState.floor <= Len(mailBox) /\ \A u \in mailUnread : 1 <= u /\ u \in Nat
  BY <1>1, MailScalars DEF MailSteps, MailFloor, MailInOf!FloorSound
<1> DEFINE r == MailInOf!Idle
<1>3. /\ mailPoll' = [mailPoll EXCEPT ![p] = r]
      /\ mailPoll[p].at = "closing"
      /\ mailState' \in {mailState, [mailState EXCEPT !.valid = mailPoll[p].valid, !.ok = TRUE]}
      /\ UNCHANGED <<mailBox, mailValid, mailUnread, mailEnabled, mailSeen, mailSms, mailLooked, mailOld,
                     mailChecked, mailTorn, mailDeaf>>
  BY DEF MailInOf!Record, MailInOf!Step, MailInOf!server, MailInOf!past, MailInOf!At
<1>4. mailPoll[p].valid = mailValid
  BY <1>3, PollFacts
<1>5. r \in MailInOf!PollRow /\ r.at = "idle" /\ r.todo = {} /\ ~r.late
  BY RowIdle
<1> HIDE DEF r
<1>6. /\ mailState' \in MailStates /\ mailState'.floor = mailState.floor /\ mailState'.backlog = mailState.backlog
      /\ mailState'.valid \in {mailState.valid, mailValid}
  BY <1>2, <1>3, <1>4 DEF MailStates
<1>7. MailInOf!TypeOK' /\ MailInOf!PollsSound'
  <2>1. mailState'.valid <= mailValid
    BY <1>1, <1>2, <1>6
  <2>2. QED
    BY <1>1, <1>3, <1>5, <1>6, <2>1, PollStep DEF MailSteps
<1>8. MailMemory'
  BY <1>1, <1>3, <1>5, MemoryKept DEF MailInOf!At
<1>9. MailFloor'
  <2>1. \A u : MailInOf!Decided(u) => MailInOf!Decided(u)'
    BY <1>3 DEF MailInOf!Decided
  <2>2. mailState.valid = mailValid \/ mailState.floor = 0
    BY <1>1, <1>3 DEF MailFloor, MailInOf!FloorSound, MailInOf!At
  <2>3. MailInOf!NothingBelowFloor'
    <3>1. CASE mailState.floor = 0
      BY <1>2, <1>3, <1>6, <3>1 DEF MailInOf!NothingBelowFloor
    <3>2. CASE mailState.valid = mailValid
      BY <1>1, <1>3, <1>6, <3>2 DEF MailFloor, MailInOf!NothingBelowFloor
    <3>3. QED
      BY <2>2, <3>1, <3>2
  <2>4. mailState'.valid = mailValid \/ mailState'.floor = 0
    BY <1>6, <2>2
  <2>5. mailState'.floor <= Len(mailBox) /\ r.at \notin Looking
    BY <1>2, <1>5, <1>6 DEF Looking
  <2>6. QED
    BY <1>1, <1>3, <1>5, <2>1, <2>3, <2>4, <2>5, FloorKept
<1>10. QED
  BY <1>7, <1>8, <1>9, MailKept

(* The folder and the panel, and a death of the process. *)

(* A step that leaves the polls and the table of keys alone; what was      *)
(* decided stays so, and what the floor passes is decided about.           *)
LEMMA FolderStep ==
  ASSUME MailInOf!IInv, UNCHANGED <<mailPoll, mailSeen, mailSms, mailChecked, mailTorn, mailDeaf,
                                    mailBox, mailValid, mailUnread>>,
         mailEnabled' \in BOOLEAN, mailState' \in MailStates, mailState'.valid <= mailValid,
         mailState'.floor <= Len(mailBox),
         mailState.valid = mailValid \/ mailState.floor = 0 =>
           mailState'.valid = mailValid \/ mailState'.floor = 0,
         \/ \A p \in Polls : ~MailInOf!Busy(p)
         \/ \A u \in mailUnread : MailInOf!Decided(u) => MailInOf!Decided(u)',
         MailInOf!NothingBelowFloor'
  PROVE  MailInOf!IInv'
<1>1. /\ MailInOf!TypeOK /\ MailInOf!PollsSound /\ MailMemory /\ MailFloor
  BY MailParts
<1>2. MailSteps
  BY <1>1, MailTypes
<1>3. MailInOf!TypeOK' /\ MailInOf!PollsSound'
  BY <1>1, <1>2, PollsWait DEF MailSteps
<1>4. MailMemory'
  BY <1>1, <1>2, MemoryWaits
<1>5. MailFloor'
  <2>1. ASSUME NEW p \in Polls
        PROVE  /\ MailInOf!At(p, "closing")' => mailState'.valid = mailValid' \/ mailState'.floor = 0
               /\ mailPoll'[p].at \in Looking =>
                    /\ mailPoll'[p].highest <= Len(mailBox')
                    /\ \A u \in mailPoll'[p].todo : mailPoll'[p].highest < u
                    /\ \A u \in mailUnread' :
                         IF u <= mailPoll'[p].highest
                         THEN MailInOf!Decided(u)' \/ (MailInOf!At(p, "reading")' /\ u = mailPoll'[p].uid)
                         ELSE u \in mailPoll'[p].todo \/ \A w \in mailPoll'[p].todo : w < u
    <3>1. /\ MailInOf!At(p, "closing") => mailState.valid = mailValid \/ mailState.floor = 0
          /\ mailPoll[p].at \in Looking =>
               /\ mailPoll[p].highest <= Len(mailBox) /\ \A u \in mailPoll[p].todo : mailPoll[p].highest < u
               /\ \A u \in mailUnread :
                    IF u <= mailPoll[p].highest
                    THEN MailInOf!Decided(u) \/ (MailInOf!At(p, "reading") /\ u = mailPoll[p].uid)
                    ELSE u \in mailPoll[p].todo \/ \A w \in mailPoll[p].todo : w < u
      BY <1>1 DEF MailFloor, MailInOf!FloorSound, Looking
    <3>2. MailInOf!At(p, "closing")' => mailState'.valid = mailValid' \/ mailState'.floor = 0
      BY <3>1 DEF MailInOf!At
    <3>3. CASE mailPoll[p].at \in Looking
      <4>1. \A u \in mailUnread : MailInOf!Decided(u) => MailInOf!Decided(u)'
        BY <3>3 DEF MailInOf!Busy, MailInOf!At, Looking
      <4>2. QED
        BY <3>1, <3>2, <4>1 DEF MailInOf!At
    <3>4. QED
      BY <3>2, <3>3
  <2>2. QED
    BY <2>1 DEF MailFloor, MailInOf!FloorSound, Looking
<1>6. QED
  BY <1>3, <1>4, <1>5, MailKept

LEMMA PanelStep ==
  ASSUME MailInOf!IInv,
         MailInOf!Disable \/ MailInOf!Enable \/ \E backlog \in BOOLEAN : MailInOf!Save(backlog)
  PROVE  MailInOf!IInv'
<1>1. /\ MailInOf!TypeOK /\ MailInOf!PollsSound /\ MailMemory /\ MailFloor
  BY MailParts
<1>2. MailSteps
  BY <1>1, MailTypes
<1>3. /\ mailValid \in Nat /\ mailState \in MailStates /\ mailState.valid <= mailValid
      /\ mailState.floor <= Len(mailBox) /\ mailUnread \subseteq 1..Len(mailBox) /\ Len(mailBox) \in Nat
      /\ \A u \in mailUnread : 1 <= u /\ u \in Nat
  BY <1>1, <1>2, MailScalars DEF MailSteps, MailFloor, MailInOf!FloorSound, MailInOf!PollsSound
<1>4. mailEnabled \in BOOLEAN
  BY <1>1 DEF MailInOf!TypeOK
<1>5. CASE MailInOf!Disable
  <2>1. /\ mailEnabled' = FALSE
        /\ UNCHANGED <<mailPoll, mailSeen, mailSms, mailChecked, mailTorn, mailDeaf, mailBox, mailValid, mailUnread,
                       mailState, mailLooked, mailOld>>
    BY <1>5 DEF MailInOf!Disable, MailInOf!server, MailInOf!past
  <2>2. \A u \in mailUnread : MailInOf!Decided(u) => MailInOf!Decided(u)'
    BY <2>1 DEF MailInOf!Decided
  <2>3. MailInOf!NothingBelowFloor'
    BY <1>1, <2>1 DEF MailFloor, MailInOf!NothingBelowFloor
  <2>4. QED
    BY <1>3, <2>1, <2>2, <2>3, FolderStep
<1>6. CASE MailInOf!Enable
  <2>1. /\ mailEnabled' = TRUE /\ mailState' = MailInOf!SetFloor(0, 0, mailState)
        /\ mailOld \subseteq mailOld'
        /\ UNCHANGED <<mailPoll, mailSeen, mailSms, mailChecked, mailTorn, mailDeaf, mailBox, mailValid, mailUnread,
                       mailLooked>>
    BY <1>6 DEF MailInOf!Enable, MailInOf!server
  <2>2. 0 \in 0..MaxUid /\ 0 \in -1..MaxValid
    BY MailAssumption
  <2>3. mailState' \in MailStates /\ mailState'.floor = 0 /\ mailState'.valid = 0
    BY <1>3, <2>1, <2>2, FloorSet
  <2>4. \A u \in mailUnread : MailInOf!Decided(u) => MailInOf!Decided(u)'
    BY <2>1 DEF MailInOf!Decided
  <2>5. MailInOf!NothingBelowFloor'
    BY <1>3, <2>1, <2>3 DEF MailInOf!NothingBelowFloor
  <2>6. mailState'.valid <= mailValid /\ mailState'.floor <= Len(mailBox) /\ mailEnabled' \in BOOLEAN
    BY <1>3, <2>1, <2>3
  <2>7. QED
    BY <2>1, <2>3, <2>4, <2>5, <2>6, FolderStep
<1>7. ASSUME NEW b \in BOOLEAN, MailInOf!Save(b)
      PROVE  MailInOf!IInv'
  <2>1. /\ mailState' = [mailState EXCEPT !.backlog = b]
        /\ mailOld' = IF b /\ \A p \in Polls : ~MailInOf!Busy(p)
                      THEN {} ELSE mailOld \cup {<<mailValid, u>> : u \in 1..Len(mailBox)}
        /\ UNCHANGED <<mailPoll, mailSeen, mailSms, mailChecked, mailTorn, mailDeaf, mailBox, mailValid, mailUnread,
                       mailEnabled, mailLooked>>
    BY <1>7 DEF MailInOf!Save, MailInOf!server
  <2>2. /\ mailState' \in MailStates /\ mailState'.floor = mailState.floor
        /\ mailState'.valid = mailState.valid /\ mailState'.backlog = b
    BY <1>3, <2>1 DEF MailStates
  <2>3. CASE b /\ \A p \in Polls : ~MailInOf!Busy(p)
    <3>1. MailInOf!NothingBelowFloor'
      BY <2>2, <2>3 DEF MailInOf!NothingBelowFloor
    <3>2. QED
      BY <1>3, <1>4, <2>1, <2>2, <2>3, <3>1, FolderStep
  <2>4. CASE ~(b /\ \A p \in Polls : ~MailInOf!Busy(p))
    <3>1. mailOld' = mailOld \cup {<<mailValid, u>> : u \in 1..Len(mailBox)}
      BY <2>1, <2>4
    <3>2. \A u \in mailUnread : MailInOf!Decided(u)'
      BY <1>3, <2>1, <3>1 DEF MailInOf!Decided
    <3>3. MailInOf!NothingBelowFloor'
      BY <2>1, <3>2 DEF MailInOf!NothingBelowFloor, MailInOf!Decided
    <3>4. QED
      BY <1>3, <1>4, <2>1, <2>2, <3>2, <3>3, FolderStep
  <2>5. QED
    BY <2>3, <2>4
<1>8. QED
  BY <1>5, <1>6, <1>7

LEMMA Recreated ==
  ASSUME MailInOf!IInv, MailInOf!Recreate
  PROVE  MailInOf!IInv'
<1>1. /\ MailInOf!TypeOK /\ MailInOf!PollsSound /\ MailMemory /\ MailFloor
  BY MailParts
<1>2. MailSteps
  BY <1>1, MailTypes
<1>3. /\ mailValid' = mailValid + 1 /\ mailValid < MaxValid /\ \A p \in Polls : mailPoll[p].at = "idle"
      /\ UNCHANGED <<mailPoll, mailSeen, mailSms, mailChecked, mailTorn, mailDeaf, mailBox, mailUnread,
                     mailEnabled, mailState, mailLooked, mailOld>>
  BY DEF MailInOf!Recreate, MailInOf!tables, MailInOf!past, MailInOf!Busy, MailInOf!At
<1>4. /\ mailValid \in Nat /\ mailState.valid \in Int /\ mailState.valid <= mailValid
  BY <1>1, <1>2, MailScalars DEF MailInOf!PollsSound
<1>5. mailValid' \in 1..MaxValid /\ mailState.valid < mailValid'
  BY <1>2, <1>3, <1>4, MailAssumption DEF MailSteps
<1>6. MailInOf!TypeOK'
  BY <1>1, <1>3, <1>5 DEF MailInOf!TypeOK
<1>7. MailInOf!PollsSound'
  <2>1. mailState'.valid <= mailValid'
    BY <1>3, <1>4, <1>5
  <2>2. QED
    BY <1>1, <1>3, <2>1 DEF MailInOf!PollsSound, MailInOf!Busy, MailInOf!At
<1>8. MailMemory'
  BY <1>1, <1>2, <1>3, MemoryWaits
<1>9. MailFloor'
  <2>1. MailInOf!NothingBelowFloor'
    <3>1. mailState'.valid # mailValid'
      BY <1>3, <1>4, <1>5
    <3>2. QED
      BY <3>1 DEF MailInOf!NothingBelowFloor
  <2>2. MailInOf!FloorSound'
    BY <1>1, <1>3 DEF MailFloor, MailInOf!FloorSound, MailInOf!At
  <2>3. QED
    BY <2>1, <2>2 DEF MailFloor
<1>10. QED
  BY <1>6, <1>7, <1>8, <1>9, MailKept

LEMMA Delivered ==
  ASSUME MailInOf!IInv, NEW m \in Mails, MailInOf!Deliver(m)
  PROVE  MailInOf!IInv'
<1>1. /\ MailInOf!TypeOK /\ MailInOf!PollsSound /\ MailMemory /\ MailFloor
  BY MailParts
<1>2. MailSteps
  BY <1>1, MailTypes
<1> DEFINE n == Len(mailBox)
<1>3. /\ n < MaxUid /\ mailBox' = Append(mailBox, m) /\ mailUnread' = mailUnread \cup {n + 1}
      /\ UNCHANGED <<mailPoll, mailSeen, mailSms, mailChecked, mailTorn, mailDeaf, mailValid,
                     mailEnabled, mailState, mailLooked, mailOld>>
  BY DEF MailInOf!Deliver, MailInOf!tables, MailInOf!past
<1>4. /\ mailBox \in Seq(Mails) /\ n \in Nat /\ MaxUid \in Nat /\ mailUnread \subseteq 1..n
      /\ mailState \in MailStates /\ mailState.valid <= mailValid /\ mailEnabled \in BOOLEAN
  BY <1>1, <1>2, MailAssumption DEF MailSteps, MailInOf!PollsSound, MailInOf!TypeOK
<1>5. /\ mailBox' \in Seq(Mails) /\ Len(mailBox') = n + 1 /\ \A u \in 1..n : mailBox'[u] = mailBox[u]
  BY <1>3, <1>4
<1> HIDE DEF n
<1>6. mailUnread' \subseteq 1..(n + 1) /\ n <= n + 1 /\ n + 1 <= MaxUid
  BY <1>3, <1>4
<1>7. MailInOf!TypeOK' /\ MailInOf!PollsSound'
  BY <1>1, <1>3, <1>4, <1>5, <1>6, PollsWait DEF n
<1>8. MailMemory'
  BY <1>1, <1>2, <1>3, <1>5, MemoryWaits DEF n
<1>9. MailFloor'
  <2>1. mailState.floor \in Nat /\ mailState.floor <= n
    BY <1>1, <1>2, MailScalars, MailAssumption DEF MailFloor, MailInOf!FloorSound, n
  <2>2. \A u : MailInOf!Decided(u)' <=> MailInOf!Decided(u)
    BY <1>3 DEF MailInOf!Decided
  <2>3. MailInOf!NothingBelowFloor'
    <3>1. ~(n + 1 <= mailState.floor)
      BY <1>4, <2>1
    <3>2. QED
      BY <1>1, <1>3, <3>1 DEF MailFloor, MailInOf!NothingBelowFloor
  <2>4. ASSUME NEW p \in Polls
        PROVE  /\ MailInOf!At(p, "closing")' => mailState'.valid = mailValid' \/ mailState'.floor = 0
               /\ mailPoll'[p].at \in Looking =>
                    /\ mailPoll'[p].highest <= Len(mailBox')
                    /\ \A u \in mailPoll'[p].todo : mailPoll'[p].highest < u
                    /\ \A u \in mailUnread' :
                         IF u <= mailPoll'[p].highest
                         THEN MailInOf!Decided(u)' \/ (MailInOf!At(p, "reading")' /\ u = mailPoll'[p].uid)
                         ELSE u \in mailPoll'[p].todo \/ \A w \in mailPoll'[p].todo : w < u
    <3>1. /\ MailInOf!At(p, "closing") => mailState.valid = mailValid \/ mailState.floor = 0
          /\ mailPoll[p].at \in Looking =>
               /\ mailPoll[p].highest <= n /\ \A u \in mailPoll[p].todo : mailPoll[p].highest < u
               /\ \A u \in mailUnread :
                    IF u <= mailPoll[p].highest
                    THEN MailInOf!Decided(u) \/ (MailInOf!At(p, "reading") /\ u = mailPoll[p].uid)
                    ELSE u \in mailPoll[p].todo \/ \A w \in mailPoll[p].todo : w < u
      BY <1>1 DEF MailFloor, MailInOf!FloorSound, Looking, n
    <3>2. /\ mailPoll[p].highest \in Nat /\ mailPoll[p].todo \subseteq Nat
          /\ \A u \in mailPoll[p].todo : u <= n
      BY <1>1, <1>2, PollFields DEF MailSteps, MailInOf!Uids, MailInOf!PollsSound, n
    <3>3. \A w \in mailPoll[p].todo : w < n + 1
      BY <1>4, <3>2
    <3>4. mailPoll[p].highest <= n => mailPoll[p].highest <= n + 1 /\ ~(n + 1 <= mailPoll[p].highest)
      BY <1>4, <3>2
    <3>5. QED
      BY <1>3, <1>5, <2>2, <3>1, <3>3, <3>4 DEF MailInOf!At
  <2>5. mailState'.floor <= Len(mailBox')
    BY <1>3, <1>4, <1>5, <2>1
  <2>6. QED
    BY <2>3, <2>4, <2>5 DEF MailFloor, MailInOf!FloorSound, Looking
<1>10. QED
  BY <1>7, <1>8, <1>9, MailKept

LEMMA Crashed ==
  ASSUME MailInOf!IInv, MailInOf!Crash
  PROVE  MailInOf!IInv'
<1>1. /\ MailInOf!TypeOK /\ MailInOf!PollsSound /\ MailMemory /\ MailFloor
  BY MailParts
<1>2. /\ mailPoll' = [p \in Polls |-> MailInOf!Idle]
      /\ mailTorn' = mailTorn \cup MailInOf!ReadIds(Polls) /\ mailLooked \subseteq mailLooked'
      /\ UNCHANGED <<mailSeen, mailSms, mailChecked, mailDeaf, mailBox, mailUnread, mailValid,
                     mailEnabled, mailState, mailOld>>
  BY DEF MailInOf!Crash, MailInOf!server, MailInOf!tables
<1>3. \A p \in Polls : /\ mailPoll'[p] \in MailInOf!PollRow /\ mailPoll'[p].at = "idle" /\ mailPoll'[p].todo = {}
                       /\ mailPoll'[p].at \in MailInOf!Places
  BY <1>2, RowIdle DEF MailInOf!Places
<1>4. MailInOf!TypeOK'
  BY <1>1, <1>2, <1>3 DEF MailInOf!TypeOK
<1>5. MailInOf!PollsSound'
  <2>1. mailPoll' \in [Polls -> MailInOf!PollRow]
    BY <1>2, RowIdle
  <2>2. QED
    BY <1>1, <1>2, <1>3, <2>1 DEF MailInOf!PollsSound, MailInOf!Busy, MailInOf!At
<1>6. MailMemory'
  <2>1. \A p \in Polls : MailInOf!At(p, "reading") => MailInOf!IdAt(p) \in mailTorn'
    BY <1>2 DEF MailInOf!ReadIds, MailInOf!IdAt
  <2>2. ASSUME NEW k \in mailSeen
        PROVE  k.id \in {MailInOf!None} \cup mailChecked \cup mailTorn'
    <3>1. CASE \E p \in Polls : MailInOf!Own(p, k) /\ ~mailPoll[p].late
      <4>1. PICK p \in Polls : MailInOf!Own(p, k)
        BY <3>1
      <4>2. k.id = MailInOf!IdAt(p)
        BY <1>1, <4>1, OwnKey DEF MailMemory, MailInOf!Own
      <4>3. QED
        BY <2>1, <4>1, <4>2 DEF MailInOf!Own
    <3>2. QED
      BY <1>1, <1>2, <3>1 DEF MailMemory, MailInOf!MemorySound
  <2>3. \A p \in Polls : ~MailInOf!At(p, "reading")'
    BY <1>3 DEF MailInOf!At
  <2>4. MailInOf!MemorySound'
    BY <1>1, <1>2, <2>2, <2>3 DEF MailMemory, MailInOf!MemorySound
  <2>5. QED
    BY <1>1, <1>2, <2>4 DEF MailMemory, MailInOf!MailSendsOnce, MailInOf!StrangersSilenceNobody
<1>7. MailFloor'
  <2>1. MailInOf!NothingBelowFloor'
    BY <1>1, <1>2 DEF MailFloor, MailInOf!NothingBelowFloor
  <2>2. MailInOf!FloorSound'
    BY <1>1, <1>2, <1>3 DEF MailFloor, MailInOf!FloorSound, MailInOf!At
  <2>3. QED
    BY <2>1, <2>2 DEF MailFloor
<1>8. QED
  BY <1>4, <1>5, <1>6, <1>7, MailKept

LEMMA MailInStep ==
  ASSUME MailInOf!IInv, MailInOf!Next
  PROVE  MailInOf!IInv'
BY Delivered, PollOpens, PollFails, PollFromNow, PollBegins, PollSkips, PollReads, PollActs, PollFinishes,
   PollRecorded, PollLate, PollDrops, Recreated, Crashed, PanelStep
DEF MailInOf!Next

LEMMA MailInBegin == MailInOf!Init => MailInOf!IInv
<1> SUFFICES ASSUME MailInOf!Init
             PROVE  MailInOf!IInv
  OBVIOUS
<1>1. PICK m \in Mails : mailBox = <<m>>
  BY DEF MailInOf!Init
<1>2. /\ mailUnread = {1} /\ mailValid = 1 /\ mailEnabled = TRUE
      /\ mailState = [floor |-> 0, valid |-> -1, backlog |-> FALSE, ok |-> FALSE]
      /\ mailSeen = {} /\ mailPoll = [p \in Polls |-> MailInOf!Idle]
      /\ mailSms = [w \in Mails |-> 0] /\ mailDeaf = {}
  BY DEF MailInOf!Init
<1>3. /\ mailBox \in Seq(Mails) /\ Len(mailBox) = 1
  BY <1>1
<1>4. \A p \in Polls : /\ mailPoll[p] \in MailInOf!PollRow /\ mailPoll[p].at = "idle" /\ mailPoll[p].todo = {}
                       /\ mailPoll[p].at \in MailInOf!Places
  BY <1>2, RowIdle DEF MailInOf!Places
<1>5. /\ 1 \in 1..MaxValid /\ 1 <= MaxUid /\ 0 \in 0..MaxUid /\ -1 \in -1..MaxValid /\ 1..1 = {1}
  BY MailAssumption
<1>6. MailInOf!TypeOK
  <2>1. mailState \in [floor : 0..MaxUid, valid : -1..MaxValid, backlog : BOOLEAN, ok : BOOLEAN]
    BY <1>2, <1>5
  <2>2. mailSms \in [Mails -> Nat]
    BY <1>2
  <2>3. mailUnread \subseteq 1..Len(mailBox) /\ mailValid \in 1..MaxValid /\ mailEnabled \in BOOLEAN
    BY <1>2, <1>3, <1>5
  <2>4. QED
    BY <1>2, <1>3, <1>4, <2>1, <2>2, <2>3 DEF MailInOf!TypeOK
<1>7. MailInOf!PollsSound
  <2>1. mailPoll \in [Polls -> MailInOf!PollRow]
    BY <1>2, RowIdle
  <2>2. Len(mailBox) <= MaxUid /\ mailState.valid <= mailValid
    BY <1>2, <1>3, <1>5
  <2>3. QED
    BY <1>4, <2>1, <2>2 DEF MailInOf!PollsSound, MailInOf!Busy, MailInOf!At
<1>8. MailMemory
  BY <1>2, <1>4 DEF MailMemory, MailInOf!MemorySound, MailInOf!MailSendsOnce, MailInOf!StrangersSilenceNobody,
                    MailInOf!At
<1>9. MailFloor
  <2>1. mailState.floor = 0 /\ mailState.valid = -1
    BY <1>2
  <2>2. QED
    BY <1>2, <1>3, <1>4, <2>1 DEF MailFloor, MailInOf!FloorSound, MailInOf!NothingBelowFloor, MailInOf!At
<1>10. QED
  BY <1>6, <1>7, <1>8, <1>9, MailParts

-----------------------------------------------------------------------------
(* Recipients. A set of numbers that has 0 and with each one the next, up  *)
(* to n, has all of them.                                                  *)
LEMMA UpTo ==
  ASSUME NEW n \in Nat, NEW T, 0 \in T, \A k \in 1..n : k - 1 \in T => k \in T
  PROVE  0..n \subseteq T
<1> DEFINE Out == {k \in Nat : k <= n /\ k \notin T}
<1> SUFFICES ASSUME Out # {} PROVE FALSE
  OBVIOUS
<1>1. \E x \in Out : \A y \in Out : ~(<<y, x>> \in OpToRel(<, Nat))
  BY NatLessThanWellFounded, WFMin
<1>2. PICK x \in Out : \A y \in Out : ~(<<y, x>> \in OpToRel(<, Nat))
  BY <1>1
<1>3. \A y \in Out : ~(y < x)
  BY <1>2 DEF OpToRel
<1>4. x \in 1..n /\ x - 1 \in Nat
  OBVIOUS
<1>5. x - 1 \in T
  BY <1>3, <1>4
<1>6. QED
  BY <1>4, <1>5

(* A table that is made step by step is there.                             *)
Unfolded(n, S, a, G) ==
  \E t \in [0..n -> S] : t[0] = a /\ \A k \in 1..n : t[k] = G[k][t[k - 1]]

LEMMA Unfolds ==
  ASSUME NEW n \in Nat, NEW S, NEW a \in S, NEW G \in [1..n -> [S -> S]]
  PROVE  Unfolded(n, S, a, G)
<1> DEFINE Made(m, t) == t \in [0..m -> S] /\ t[0] = a /\ \A k \in 1..m : t[k] = G[k][t[k - 1]]
           T == {m \in Nat : \E t : Made(m, t)}
<1>1. 0 \in T
  <2> DEFINE t == [k \in 0..0 |-> a]
  <2>1. Made(0, t)
    OBVIOUS
  <2>2. QED
    BY <2>1
<1>2. ASSUME NEW m \in 1..n, m - 1 \in T PROVE m \in T
  <2>1. PICK t : Made(m - 1, t)
    BY <1>2
  <2> DEFINE u == [k \in 0..m |-> IF k = m THEN G[m][t[m - 1]] ELSE t[k]]
  <2>2. m \in Nat /\ m - 1 \in Nat /\ t[m - 1] \in S
    BY <2>1
  <2>3. G[m][t[m - 1]] \in S
    BY <2>2
  <2>4. u \in [0..m -> S] /\ u[0] = a
    BY <2>1, <2>2, <2>3
  <2>5. ASSUME NEW k \in 1..m PROVE u[k] = G[k][u[k - 1]]
    <3>1. u[k - 1] = t[k - 1]
      BY <2>2
    <3>2. QED
      BY <2>1, <2>2, <3>1
  <2>6. Made(m, u)
    BY <2>4, <2>5
  <2>7. QED
    BY <2>2, <2>6
<1> HIDE DEF T
<1>3. 0..n \subseteq T
  BY <1>1, <1>2, UpTo
<1>4. n \in T
  BY <1>3
<1>5. QED
  BY <1>4 DEF T, Unfolded

(* Numbers that are whole: with their country, and no call abroad.         *)

Zeros(p) == Len(p) >= 2 /\ p[1] = 0 /\ p[2] = 0
Whole(p) ==
  /\ Len(p) \in MinDigits..MaxDigits
  /\ RecipientsOf!IsPrefix(Home, p) => Len(p) = Len(Home) + National

(* What follows the zeros of a call abroad.                               *)
LEMMA WithoutTwo ==
  ASSUME NEW S, NEW s \in Seq(S), Len(s) >= 2
  PROVE  /\ SubSeq(s, 3, Len(s)) \in Seq(S) /\ Len(SubSeq(s, 3, Len(s))) = Len(s) - 2
         /\ \A i \in 1..(Len(s) - 2) : SubSeq(s, 3, Len(s))[i] = s[i + 2]
<1>1. PICK n \in Nat : n = Len(s)
  OBVIOUS
<1>2. SubSeq(s, 3, n) \in Seq(S)
  BY <1>1
<1>3. Len(SubSeq(s, 3, n)) = n - 2
  BY <1>1
<1>4. ASSUME NEW i \in 1..(n - 2) PROVE SubSeq(s, 3, n)[i] = s[i + 2]
  BY <1>1
<1>5. QED
  BY <1>1, <1>2, <1>3, <1>4

LEMMA ZerosArePrefix ==
  ASSUME NEW p \in Seq(Digits)
  PROVE  RecipientsOf!IsPrefix(<<0, 0>>, p) <=> Zeros(p)
<1> DEFINE z == <<0, 0>>
<1>1. z \in Seq({0}) /\ Len(z) = 2 /\ z[1] = 0 /\ z[2] = 0
  OBVIOUS
<1> HIDE DEF z
<1>2. Len(SubSeq(z, 1, 2)) = 2 /\ SubSeq(z, 1, 2)[1] = 0 /\ SubSeq(z, 1, 2)[2] = 0
  BY <1>1
<1>3. ASSUME Len(p) >= 2
      PROVE  Len(SubSeq(p, 1, 2)) = 2 /\ SubSeq(p, 1, 2)[1] = p[1] /\ SubSeq(p, 1, 2)[2] = p[2]
  BY <1>3
<1>4. ASSUME Len(p) >= 2 PROVE SubSeq(z, 1, 2) = SubSeq(p, 1, 2) <=> p[1] = 0 /\ p[2] = 0
  <2>1. SubSeq(z, 1, 2) \in Seq({0}) /\ SubSeq(p, 1, 2) \in Seq(Digits)
    BY <1>1, <1>4
  <2>2. DOMAIN SubSeq(z, 1, 2) = 1..2 /\ DOMAIN SubSeq(p, 1, 2) = 1..2
    BY <2>1, <1>2, <1>3, <1>4
  <2>3. QED
    BY <2>1, <2>2, <1>2, <1>3, <1>4
<1>5. Len(p) \in Nat /\ (RecipientsOf!IsPrefix(z, p) <=> Len(z) <= Len(p) /\ SubSeq(z, 1, Len(z)) = SubSeq(p, 1, Len(z)))
  BY DEF RecipientsOf!IsPrefix
<1>6. RecipientsOf!IsPrefix(z, p) <=> Zeros(p)
  BY <1>1, <1>4, <1>5 DEF Zeros
<1>7. QED
  BY <1>6 DEF z

LEMMA NormalIs ==
  ASSUME NEW n, NEW c
  PROVE  LET w == IF Len(n) = National THEN c \o n ELSE n
         IN RecipientsOf!Normal(n, c) = IF Whole(w) THEN w ELSE RecipientsOf!Bad
BY DEF RecipientsOf!Normal, Whole

LEMMA WholeStays ==
  ASSUME NEW p, Whole(p), NEW c
  PROVE  RecipientsOf!Normal(p, c) = p /\ p # RecipientsOf!Bad
<1>1. Len(p) # National /\ Len(p) # 0
  BY RecipientsAssumption DEF Whole
<1>2. QED
  BY <1>1, NormalIs DEF RecipientsOf!Bad

LEMMA NormalIsWhole ==
  ASSUME NEW n, NEW c, RecipientsOf!Normal(n, c) # RecipientsOf!Bad
  PROVE  Whole(RecipientsOf!Normal(n, c))
BY NormalIs

LEMMA RecipientIsWhole ==
  ASSUME NEW n, NEW c, RecipientsOf!Recipient(n, c) # RecipientsOf!Bad
  PROVE  Whole(RecipientsOf!Recipient(n, c))
BY NormalIsWhole DEF RecipientsOf!Recipient

LEMMA NormalTyped ==
  ASSUME NEW n \in Seq(Digits), NEW c \in Countries
  PROVE  RecipientsOf!Normal(n, c) \in Seq(Digits)
<1>1. c \in Seq(Digits)
  BY RecipientsAssumption
<1> DEFINE m == c \o n
<1>2. m \in Seq(Digits)
  BY <1>1
<1>3. RecipientsOf!Normal(n, c) \in {m, n, <<>>}
  BY NormalIs DEF RecipientsOf!Bad
<1>4. <<>> \in Seq(Digits)
  OBVIOUS
<1> HIDE DEF m
<1>5. QED
  BY <1>2, <1>3, <1>4

LEMMA RecipientTyped ==
  ASSUME NEW n \in Seq(Digits), NEW c \in Countries
  PROVE  RecipientsOf!Recipient(n, c) \in Seq(Digits)
<1>1. RecipientsOf!IsPrefix(<<0, 0>>, n) => SubSeq(n, 3, Len(n)) \in Seq(Digits)
  OBVIOUS
<1>2. RecipientsOf!Untrunked(n, c) \in Seq(Digits)
  <2>1. Len(n) = National + 1 => n # <<>>
    BY RecipientsAssumption
  <2>2. QED
    BY <2>1 DEF RecipientsOf!Untrunked
<1>3. QED
  BY <1>1, <1>2, NormalTyped DEF RecipientsOf!Recipient

(* A number that does not begin with the zeros of a call abroad is not     *)
(* changed once it is whole.                                               *)
LEMMA WholeIsSettled ==
  ASSUME NEW p \in Seq(Digits), Whole(p), ~Zeros(p)
  PROVE  RecipientsOf!Settled(p)
<1>1. p # RecipientsOf!Bad
  BY WholeStays
<1>2. ASSUME NEW c \in Countries PROVE RecipientsOf!Normal(p, c) = p /\ RecipientsOf!Recipient(p, c) = p
  <2>1. RecipientsOf!Normal(p, c) = p
    BY WholeStays
  <2>2. RecipientsOf!Untrunked(p, c) = p
    BY RecipientsAssumption DEF RecipientsOf!Untrunked, Whole
  <2>3. QED
    BY <2>1, <2>2, ZerosArePrefix DEF RecipientsOf!Recipient
<1>3. QED
  BY <1>1, <1>2 DEF RecipientsOf!Settled

LEMMA NormalNoZeros ==
  ASSUME NEW n \in Seq(Digits), ~Zeros(n) \/ Len(n) = National, NEW c \in Countries,
         RecipientsOf!Normal(n, c) # RecipientsOf!Bad
  PROVE  ~Zeros(RecipientsOf!Normal(n, c))
<1>1. c \in Seq(Digits) /\ c # <<>> /\ c[1] # 0
  BY RecipientsAssumption
<1>2. c \o n \in Seq(Digits) /\ (c \o n)[1] = c[1]
  BY <1>1
<1>3. ~Zeros(c \o n)
  BY <1>1, <1>2 DEF Zeros
<1>4. QED
  BY <1>3, NormalIs

LEMMA WrittenSettles ==
  ASSUME NEW n \in Written, NEW c \in Countries, RecipientsOf!Recipient(n, c) # RecipientsOf!Bad
  PROVE  RecipientsOf!Settled(RecipientsOf!Recipient(n, c))
<1>1. n \in Seq(Digits) /\ (Len(n) >= 4 => \E i \in 1..4 : n[i] # 0)
  BY RecipientsAssumption
<1>2. CASE Zeros(n)
  <2> DEFINE m == SubSeq(n, 3, Len(n))
  <2>1. RecipientsOf!Recipient(n, c) = RecipientsOf!Normal(m, c)
    BY <1>1, <1>2, ZerosArePrefix DEF RecipientsOf!Recipient
  <2>2. m \in Seq(Digits) /\ Len(m) = Len(n) - 2 /\ \A i \in 1..Len(m) : m[i] = n[i + 2]
    BY <1>1, <1>2, WithoutTwo DEF Zeros
  <2> HIDE DEF m
  <2>3. ~Zeros(m)
    <3> SUFFICES ASSUME Zeros(m) PROVE FALSE
      OBVIOUS
    <3>1. Len(n) >= 4 /\ n[3] = 0 /\ n[4] = 0 /\ n[1] = 0 /\ n[2] = 0
      BY <1>1, <1>2, <2>2 DEF Zeros
    <3>2. QED
      BY <1>1, <3>1
  <2>4. QED
    BY <2>1, <2>2, <2>3, NormalNoZeros, NormalTyped, NormalIsWhole, WholeIsSettled
<1>3. CASE ~Zeros(n)
  <2> DEFINE m == RecipientsOf!Untrunked(n, c)
  <2>1. RecipientsOf!Recipient(n, c) = RecipientsOf!Normal(m, c)
    BY <1>1, <1>3, ZerosArePrefix DEF RecipientsOf!Recipient
  <2>2. m \in Seq(Digits) /\ (~Zeros(m) \/ Len(m) = National)
    <3>1. CASE m = n
      BY <1>1, <1>3, <3>1
    <3>2. CASE Len(n) = National + 1 /\ m = Tail(n)
      BY <1>1, <3>2, RecipientsAssumption
    <3>3. QED
      BY <3>1, <3>2 DEF RecipientsOf!Untrunked
  <2> HIDE DEF m
  <2>3. QED
    BY <2>1, <2>2, NormalNoZeros, NormalTyped, NormalIsWhole, WholeIsSettled
<1>4. QED
  BY <1>2, <1>3

WithoutIn(S, l, x) ==
  \E t \in [0..Len(l) -> Seq(S)] :
    /\ t[0] = <<>>
    /\ \A k \in 1..Len(l) : t[k] = IF l[k] = x THEN t[k - 1] ELSE Append(t[k - 1], l[k])
    /\ RecipientsOf!Without(l, x) = t[Len(l)]

(* The lists that are made entry by entry. *)
LEMMA WithoutTable ==
  ASSUME NEW S, NEW l \in Seq(S), NEW x
  PROVE  WithoutIn(S, l, x)
<1> DEFINE Q == Seq(S)
           n == Len(l)
           F == CHOOSE f : f = [k \in 0..n |-> IF k = 0 THEN <<>> ELSE IF l[k] = x THEN f[k - 1] ELSE Append(f[k - 1], l[k])]
           G == [k \in 1..n |-> [v \in Q |-> IF l[k] = x THEN v ELSE Append(v, l[k])]]
<1>1. n \in Nat /\ <<>> \in Q
  OBVIOUS
<1>2. ASSUME NEW k \in 1..n PROVE l[k] \in S
  <2> DEFINE E == S
  <2>1. l \in Seq(E)
    OBVIOUS
  <2> HIDE DEF E
  <2>2. l[k] \in E
    BY <2>1
  <2>3. QED
    BY <2>2 DEF E
<1>3. RecipientsOf!Without(l, x) = F[n]
  BY DEF RecipientsOf!Without
<1> HIDE DEF n
<1>4. ASSUME NEW k \in 1..n, NEW v \in Q PROVE (IF l[k] = x THEN v ELSE Append(v, l[k])) \in Q
  BY <1>2
<1> HIDE DEF Q
<1>5. G \in [1..n -> [Q -> Q]]
  BY <1>4
<1>6. \E t \in [0..n -> Q] : t[0] = <<>> /\ \A k \in 1..n : t[k] = G[k][t[k - 1]]
  <2> HIDE DEF G, F
  <2>1. Unfolded(n, Q, <<>>, G)
    BY <1>1, <1>5, Unfolds, Zenon
  <2>2. QED
    BY <2>1 DEF Unfolded
<1>7. PICK t \in [0..n -> Q] : t[0] = <<>> /\ \A k \in 1..n : t[k] = G[k][t[k - 1]]
  BY <1>6
<1>8. ASSUME NEW k \in 1..n PROVE t[k] = IF l[k] = x THEN t[k - 1] ELSE Append(t[k - 1], l[k])
  <2>1. k - 1 \in 0..n
    BY <1>1
  <2>2. t[k - 1] \in Q
    BY <1>7, <2>1
  <2>3. QED
    BY <1>7, <2>2
<1> HIDE DEF G
<1>9. t = [k \in 0..n |-> IF k = 0 THEN <<>> ELSE IF l[k] = x THEN t[k - 1] ELSE Append(t[k - 1], l[k])]
  <2>1. t \in [0..n -> Q] /\ t[0] = <<>>
    BY <1>7
  <2>2. \A k \in 0..n : k # 0 => k \in 1..n
    BY <1>1
  <2>3. QED
    BY <2>1, <2>2, <1>8
<1>10. F = [k \in 0..n |-> IF k = 0 THEN <<>> ELSE IF l[k] = x THEN F[k - 1] ELSE Append(F[k - 1], l[k])]
  BY <1>9, Zenon
<1> HIDE DEF F
<1> DEFINE T == {k \in 0..n : F[k] = t[k]}
<1>11. 0 \in T
  BY <1>1, <1>7, <1>10
<1>12. ASSUME NEW k \in 1..n, k - 1 \in T PROVE k \in T
  <2>1. k \in 0..n /\ k # 0 /\ F[k - 1] = t[k - 1]
    BY <1>1, <1>12
  <2>2. F[k] = IF l[k] = x THEN F[k - 1] ELSE Append(F[k - 1], l[k])
    BY <1>10, <2>1
  <2>3. F[k] = t[k]
    BY <2>1, <2>2, <1>8
  <2>4. QED
    BY <2>1, <2>3
<1>13. 0..n \subseteq T
  <2> HIDE DEF T
  <2>1. QED
    BY <1>1, <1>11, <1>12, UpTo
<1>14. F[n] = t[n]
  BY <1>1, <1>13
<1>15. QED
  BY <1>3, <1>7, <1>8, <1>14 DEF Q, n, WithoutIn

DistinctIn(S, l) ==
  \E t \in [0..Len(l) -> Seq(S)] :
    /\ t[0] = <<>>
    /\ \A k \in 1..Len(l) : t[k] = RecipientsOf!Once(t[k - 1], l[k])
    /\ RecipientsOf!Distinct(l) = t[Len(l)]

LEMMA DistinctTable ==
  ASSUME NEW S, NEW l \in Seq(S)
  PROVE  DistinctIn(S, l)
<1> DEFINE Q == Seq(S)
           n == Len(l)
           F == CHOOSE f : f = [k \in 0..n |-> IF k = 0 THEN <<>> ELSE RecipientsOf!Once(f[k - 1], l[k])]
           G == [k \in 1..n |-> [v \in Q |-> RecipientsOf!Once(v, l[k])]]
<1>1. n \in Nat /\ <<>> \in Q
  OBVIOUS
<1>2. ASSUME NEW k \in 1..n PROVE l[k] \in S
  <2> DEFINE E == S
  <2>1. l \in Seq(E)
    OBVIOUS
  <2> HIDE DEF E
  <2>2. l[k] \in E
    BY <2>1
  <2>3. QED
    BY <2>2 DEF E
<1>3. RecipientsOf!Distinct(l) = F[n]
  BY DEF RecipientsOf!Distinct
<1> HIDE DEF n
<1>4. ASSUME NEW k \in 1..n, NEW v \in Q PROVE (RecipientsOf!Once(v, l[k])) \in Q
  BY <1>2 DEF RecipientsOf!Once
<1> HIDE DEF Q
<1>5. G \in [1..n -> [Q -> Q]]
  BY <1>4
<1>6. \E t \in [0..n -> Q] : t[0] = <<>> /\ \A k \in 1..n : t[k] = G[k][t[k - 1]]
  <2> HIDE DEF G, F
  <2>1. Unfolded(n, Q, <<>>, G)
    BY <1>1, <1>5, Unfolds, Zenon
  <2>2. QED
    BY <2>1 DEF Unfolded
<1>7. PICK t \in [0..n -> Q] : t[0] = <<>> /\ \A k \in 1..n : t[k] = G[k][t[k - 1]]
  BY <1>6
<1>8. ASSUME NEW k \in 1..n PROVE t[k] = RecipientsOf!Once(t[k - 1], l[k])
  <2>1. k - 1 \in 0..n
    BY <1>1
  <2>2. t[k - 1] \in Q
    BY <1>7, <2>1
  <2>3. QED
    BY <1>7, <2>2
<1> HIDE DEF G
<1>9. t = [k \in 0..n |-> IF k = 0 THEN <<>> ELSE RecipientsOf!Once(t[k - 1], l[k])]
  <2>1. t \in [0..n -> Q] /\ t[0] = <<>>
    BY <1>7
  <2>2. \A k \in 0..n : k # 0 => k \in 1..n
    BY <1>1
  <2>3. QED
    BY <2>1, <2>2, <1>8
<1>10. F = [k \in 0..n |-> IF k = 0 THEN <<>> ELSE RecipientsOf!Once(F[k - 1], l[k])]
  BY <1>9, Zenon
<1> HIDE DEF F
<1> DEFINE T == {k \in 0..n : F[k] = t[k]}
<1>11. 0 \in T
  BY <1>1, <1>7, <1>10
<1>12. ASSUME NEW k \in 1..n, k - 1 \in T PROVE k \in T
  <2>1. k \in 0..n /\ k # 0 /\ F[k - 1] = t[k - 1]
    BY <1>1, <1>12
  <2>2. F[k] = RecipientsOf!Once(F[k - 1], l[k])
    BY <1>10, <2>1
  <2>3. F[k] = t[k]
    BY <2>1, <2>2, <1>8
  <2>4. QED
    BY <2>1, <2>3
<1>13. 0..n \subseteq T
  <2> HIDE DEF T
  <2>1. QED
    BY <1>1, <1>11, <1>12, UpTo
<1>14. F[n] = t[n]
  BY <1>1, <1>13
<1>15. QED
  BY <1>3, <1>7, <1>8, <1>14 DEF Q, n, DistinctIn

LEMMA JoinTyped ==
  ASSUME NEW out \in Seq(Seq(Digits)), NEW g \in Seq(Digits)
  PROVE  RecipientsOf!Join(out, g) \in Seq(Seq(Digits))
<1> DEFINE S == Seq(Digits)
<1>1. Append(out, g) \in Seq(S)
  OBVIOUS
<1>2. ASSUME out # <<>> PROVE [out EXCEPT ![Len(out)] = @ \o g] \in Seq(S)
  <2>1. Len(out) \in 1..Len(out) /\ out[Len(out)] \in S
    BY <1>2
  <2>2. out[Len(out)] \o g \in S
    BY <2>1
  <2> HIDE DEF S
  <2>3. QED
    BY <2>1, <2>2 DEF S
<1>3. QED
  BY <1>1, <1>2 DEF RecipientsOf!Join

LEMMA SplitTable ==
  ASSUME NEW l \in Seq(Seq(Digits))
  PROVE  RecipientsOf!Split(l) \in Seq(Seq(Digits))
<1> DEFINE Q == Seq(Seq(Digits))
           n == Len(l)
           F == CHOOSE f : f = [k \in 0..n |-> IF k = 0 THEN <<>> ELSE RecipientsOf!Join(f[k - 1], l[k])]
           G == [k \in 1..n |-> [v \in Q |-> RecipientsOf!Join(v, l[k])]]
<1>1. n \in Nat /\ <<>> \in Q
  OBVIOUS
<1>2. ASSUME NEW k \in 1..n PROVE l[k] \in Seq(Digits)
  <2> DEFINE E == Seq(Digits)
  <2>1. l \in Seq(E)
    OBVIOUS
  <2> HIDE DEF E
  <2>2. l[k] \in E
    BY <2>1
  <2>3. QED
    BY <2>2 DEF E
<1>3. RecipientsOf!Split(l) = F[n]
  BY DEF RecipientsOf!Split
<1> HIDE DEF n
<1>4. ASSUME NEW k \in 1..n, NEW v \in Q PROVE (RecipientsOf!Join(v, l[k])) \in Q
  BY <1>2, JoinTyped
<1> HIDE DEF Q
<1>5. G \in [1..n -> [Q -> Q]]
  BY <1>4
<1>6. \E t \in [0..n -> Q] : t[0] = <<>> /\ \A k \in 1..n : t[k] = G[k][t[k - 1]]
  <2> HIDE DEF G, F
  <2>1. Unfolded(n, Q, <<>>, G)
    BY <1>1, <1>5, Unfolds, Zenon
  <2>2. QED
    BY <2>1 DEF Unfolded
<1>7. PICK t \in [0..n -> Q] : t[0] = <<>> /\ \A k \in 1..n : t[k] = G[k][t[k - 1]]
  BY <1>6
<1>8. ASSUME NEW k \in 1..n PROVE t[k] = RecipientsOf!Join(t[k - 1], l[k])
  <2>1. k - 1 \in 0..n
    BY <1>1
  <2>2. t[k - 1] \in Q
    BY <1>7, <2>1
  <2>3. QED
    BY <1>7, <2>2
<1> HIDE DEF G
<1>9. t = [k \in 0..n |-> IF k = 0 THEN <<>> ELSE RecipientsOf!Join(t[k - 1], l[k])]
  <2>1. t \in [0..n -> Q] /\ t[0] = <<>>
    BY <1>7
  <2>2. \A k \in 0..n : k # 0 => k \in 1..n
    BY <1>1
  <2>3. QED
    BY <2>1, <2>2, <1>8
<1>10. F = [k \in 0..n |-> IF k = 0 THEN <<>> ELSE RecipientsOf!Join(F[k - 1], l[k])]
  BY <1>9, Zenon
<1> HIDE DEF F
<1> DEFINE T == {k \in 0..n : F[k] = t[k]}
<1>11. 0 \in T
  BY <1>1, <1>7, <1>10
<1>12. ASSUME NEW k \in 1..n, k - 1 \in T PROVE k \in T
  <2>1. k \in 0..n /\ k # 0 /\ F[k - 1] = t[k - 1]
    BY <1>1, <1>12
  <2>2. F[k] = RecipientsOf!Join(F[k - 1], l[k])
    BY <1>10, <2>1
  <2>3. F[k] = t[k]
    BY <2>1, <2>2, <1>8
  <2>4. QED
    BY <2>1, <2>3
<1>13. 0..n \subseteq T
  <2> HIDE DEF T
  <2>1. QED
    BY <1>1, <1>11, <1>12, UpTo
<1>14. F[n] = t[n]
  BY <1>1, <1>13
<1>15. QED
  BY <1>3, <1>7, <1>8, <1>14 DEF Q, n

LEMMA AddTyped ==
  ASSUME NEW N, NEW l \in [number : Seq(Digits), name : N], NEW c \in Countries,
         NEW ms \in Seq([phone : Seq(Digits), name : N])
  PROVE  RecipientsOf!Add(ms, l, c) \in Seq([phone : Seq(Digits), name : N])
<1> DEFINE S == [phone : Seq(Digits), name : N]
<1>1. l.number \in Seq(Digits) /\ l.name \in N
  OBVIOUS
<1>2. RecipientsOf!Recipient(l.number, c) \in Seq(Digits)
  BY <1>1, RecipientTyped
<1>3. [phone |-> RecipientsOf!Recipient(l.number, c), name |-> l.name] \in S
  BY <1>1, <1>2
<1> HIDE DEF S
<1>4. ms \in Seq(S)
  BY DEF S
<1>5. RecipientsOf!Add(ms, l, c) \in Seq(S)
  BY <1>3, <1>4 DEF RecipientsOf!Add
<1>6. QED
  BY <1>5 DEF S

MembersIn(N, lines, c) ==
  \E t \in [0..Len(lines) -> Seq([phone : Seq(Digits), name : N])] :
    /\ t[0] = <<>>
    /\ \A k \in 1..Len(lines) : t[k] = RecipientsOf!Add(t[k - 1], lines[k], c)
    /\ RecipientsOf!Members(lines, c) = t[Len(lines)]

LEMMA MembersTable ==
  ASSUME NEW N, NEW lines \in Seq([number : Seq(Digits), name : N]), NEW c \in Countries
  PROVE  MembersIn(N, lines, c)
<1> DEFINE Q == Seq([phone : Seq(Digits), name : N])
           n == Len(lines)
           F == CHOOSE f : f = [k \in 0..n |-> IF k = 0 THEN <<>> ELSE RecipientsOf!Add(f[k - 1], lines[k], c)]
           G == [k \in 1..n |-> [v \in Q |-> RecipientsOf!Add(v, lines[k], c)]]
<1>1. n \in Nat /\ <<>> \in Q
  OBVIOUS
<1>2. ASSUME NEW k \in 1..n PROVE lines[k] \in [number : Seq(Digits), name : N]
  <2> DEFINE E == [number : Seq(Digits), name : N]
  <2>1. lines \in Seq(E)
    OBVIOUS
  <2> HIDE DEF E
  <2>2. lines[k] \in E
    BY <2>1
  <2>3. QED
    BY <2>2 DEF E
<1>3. RecipientsOf!Members(lines, c) = F[n]
  BY DEF RecipientsOf!Members
<1> HIDE DEF n
<1>4. ASSUME NEW k \in 1..n, NEW v \in Q PROVE (RecipientsOf!Add(v, lines[k], c)) \in Q
  BY <1>2, AddTyped
<1> HIDE DEF Q
<1>5. G \in [1..n -> [Q -> Q]]
  BY <1>4
<1>6. \E t \in [0..n -> Q] : t[0] = <<>> /\ \A k \in 1..n : t[k] = G[k][t[k - 1]]
  <2> HIDE DEF G, F
  <2>1. Unfolded(n, Q, <<>>, G)
    BY <1>1, <1>5, Unfolds, Zenon
  <2>2. QED
    BY <2>1 DEF Unfolded
<1>7. PICK t \in [0..n -> Q] : t[0] = <<>> /\ \A k \in 1..n : t[k] = G[k][t[k - 1]]
  BY <1>6
<1>8. ASSUME NEW k \in 1..n PROVE t[k] = RecipientsOf!Add(t[k - 1], lines[k], c)
  <2>1. k - 1 \in 0..n
    BY <1>1
  <2>2. t[k - 1] \in Q
    BY <1>7, <2>1
  <2>3. QED
    BY <1>7, <2>2
<1> HIDE DEF G
<1>9. t = [k \in 0..n |-> IF k = 0 THEN <<>> ELSE RecipientsOf!Add(t[k - 1], lines[k], c)]
  <2>1. t \in [0..n -> Q] /\ t[0] = <<>>
    BY <1>7
  <2>2. \A k \in 0..n : k # 0 => k \in 1..n
    BY <1>1
  <2>3. QED
    BY <2>1, <2>2, <1>8
<1>10. F = [k \in 0..n |-> IF k = 0 THEN <<>> ELSE RecipientsOf!Add(F[k - 1], lines[k], c)]
  BY <1>9, Zenon
<1> HIDE DEF F
<1> DEFINE T == {k \in 0..n : F[k] = t[k]}
<1>11. 0 \in T
  BY <1>1, <1>7, <1>10
<1>12. ASSUME NEW k \in 1..n, k - 1 \in T PROVE k \in T
  <2>1. k \in 0..n /\ k # 0 /\ F[k - 1] = t[k - 1]
    BY <1>1, <1>12
  <2>2. F[k] = RecipientsOf!Add(F[k - 1], lines[k], c)
    BY <1>10, <2>1
  <2>3. F[k] = t[k]
    BY <2>1, <2>2, <1>8
  <2>4. QED
    BY <2>1, <2>3
<1>13. 0..n \subseteq T
  <2> HIDE DEF T
  <2>1. QED
    BY <1>1, <1>11, <1>12, UpTo
<1>14. F[n] = t[n]
  BY <1>1, <1>13
<1>15. QED
  BY <1>3, <1>7, <1>8, <1>14 DEF Q, n, MembersIn

Rest(S, l, x, w) ==
  w \in Seq(S) /\ \A i \in DOMAIN w : w[i] # x /\ \E j \in DOMAIN l : w[i] = l[j]

LEMMA WithoutFacts ==
  ASSUME NEW S, NEW l \in Seq(S), NEW x
  PROVE  Rest(S, l, x, RecipientsOf!Without(l, x))
<1> DEFINE Kept(w) == \A i \in DOMAIN w : w[i] # x /\ \E j \in DOMAIN l : w[i] = l[j]
<1> DEFINE n == Len(l)
<1>1. n \in Nat /\ n = Len(l) /\ DOMAIN l = 1..n
  OBVIOUS
<1>2. PICK t \in [0..n -> Seq(S)] :
        /\ t[0] = <<>>
        /\ \A k \in 1..n : t[k] = IF l[k] = x THEN t[k - 1] ELSE Append(t[k - 1], l[k])
        /\ RecipientsOf!Without(l, x) = t[n]
  <2>1. WithoutIn(S, l, x)
    BY WithoutTable, Zenon
  <2>2. QED
    BY <2>1 DEF WithoutIn
<1> HIDE DEF n
<1> DEFINE T == {k \in 0..n : Kept(t[k])}
<1>3. 0 \in T
  BY <1>1, <1>2
<1>4. ASSUME NEW k \in 1..n, k - 1 \in T PROVE k \in T
  <2>1. Kept(t[k - 1]) /\ t[k - 1] \in Seq(S) /\ l[k] \in S /\ k \in DOMAIN l /\ k \in 0..n
    BY <1>1, <1>2, <1>4
  <2>2. CASE l[k] = x
    BY <1>2, <2>1, <2>2
  <2>3. CASE l[k] # x
    <3> DEFINE v == t[k - 1]
    <3>1. t[k] = Append(v, l[k])
      BY <1>2, <2>3
    <3>2. Kept(v) /\ v \in Seq(S) /\ l[k] \in S
      BY <2>1
    <3> HIDE DEF v
    <3>3. ASSUME NEW i \in DOMAIN Append(v, l[k])
          PROVE  Append(v, l[k])[i] # x /\ \E j \in DOMAIN l : Append(v, l[k])[i] = l[j]
      <4>1. CASE i \in DOMAIN v
        <5>1. Append(v, l[k])[i] = v[i]
          BY <3>2, <4>1
        <5>2. QED
          BY <3>2, <4>1, <5>1
      <4>2. CASE Append(v, l[k])[i] = l[k]
        BY <2>1, <2>3, <4>2
      <4>3. QED
        BY <3>2, <4>1, <4>2
    <3>4. QED
      BY <2>1, <3>1, <3>3
  <2>4. QED
    BY <2>2, <2>3
<1>5. n \in T
  <2> HIDE DEF T
  <2>1. 0..n \subseteq T
    BY <1>1, <1>3, <1>4, UpTo
  <2>2. QED
    BY <1>1, <2>1
<1>6. QED
  BY <1>1, <1>2, <1>5 DEF Rest

LEMMA DistinctFacts ==
  ASSUME NEW S, NEW l \in Seq(S)
  PROVE  /\ RecipientsOf!Distinct(l) \in Seq(S)
         /\ RecipientsOf!IsInjective(RecipientsOf!Distinct(l))
         /\ \A i \in DOMAIN RecipientsOf!Distinct(l) : \E j \in DOMAIN l : RecipientsOf!Distinct(l)[i] = l[j]
<1> DEFINE Once(w) == \A i, j \in DOMAIN w : w[i] = w[j] => i = j
           Kept(w) == \A i \in DOMAIN w : \E j \in DOMAIN l : w[i] = l[j]
<1> DEFINE n == Len(l)
<1>1. n \in Nat /\ n = Len(l) /\ DOMAIN l = 1..n
  OBVIOUS
<1>2. PICK t \in [0..n -> Seq(S)] :
        /\ t[0] = <<>>
        /\ \A k \in 1..n : t[k] = RecipientsOf!Once(t[k - 1], l[k])
        /\ RecipientsOf!Distinct(l) = t[n]
  <2>1. DistinctIn(S, l)
    BY DistinctTable, Zenon
  <2>2. QED
    BY <2>1 DEF DistinctIn
<1> HIDE DEF n
<1> DEFINE T == {k \in 0..n : Once(t[k]) /\ Kept(t[k])}
<1>3. 0 \in T
  BY <1>1, <1>2
<1>4. ASSUME NEW k \in 1..n, k - 1 \in T PROVE k \in T
  <2> DEFINE v == t[k - 1]
  <2>1. Once(v) /\ Kept(v) /\ v \in Seq(S) /\ l[k] \in S /\ k \in DOMAIN l /\ k \in 0..n
    BY <1>1, <1>2, <1>4
  <2>2. t[k] = IF \E i \in 1..Len(v) : v[i] = l[k] THEN v ELSE Append(v, l[k])
    BY <1>2 DEF RecipientsOf!Once, RecipientsOf!Contains
  <2> HIDE DEF v
  <2>3. CASE \E i \in 1..Len(v) : v[i] = l[k]
    BY <2>1, <2>2, <2>3
  <2>4. CASE ~\E i \in 1..Len(v) : v[i] = l[k]
    <3> DEFINE u == Append(v, l[k])
    <3>1. DOMAIN v = 1..Len(v) /\ DOMAIN u = 1..(Len(v) + 1) /\ Len(v) \in Nat
      BY <2>1
    <3>2. u[Len(v) + 1] = l[k] /\ \A i \in 1..Len(v) : u[i] = v[i]
      BY <2>1
    <3> HIDE DEF u
    <3>3. Once(u)
      <4> SUFFICES ASSUME NEW i \in 1..(Len(v) + 1), NEW j \in 1..(Len(v) + 1), u[i] = u[j] PROVE i = j
        BY <3>1
      <4>1. CASE i \in 1..Len(v) /\ j \in 1..Len(v)
        BY <2>1, <3>1, <3>2, <4>1
      <4>2. CASE i = Len(v) + 1 /\ j \in 1..Len(v)
        BY <2>4, <3>1, <3>2, <4>2
      <4>3. CASE j = Len(v) + 1 /\ i \in 1..Len(v)
        BY <2>4, <3>1, <3>2, <4>3
      <4>4. QED
        BY <3>1, <4>1, <4>2, <4>3
    <3>4. Kept(u)
      <4> SUFFICES ASSUME NEW i \in 1..(Len(v) + 1) PROVE \E j \in DOMAIN l : u[i] = l[j]
        BY <3>1
      <4>1. CASE i \in 1..Len(v)
        BY <2>1, <3>1, <3>2, <4>1
      <4>2. CASE i = Len(v) + 1
        BY <2>1, <3>2, <4>2
      <4>3. QED
        BY <3>1, <4>1, <4>2
    <3>5. t[k] = u
      BY <2>2, <2>4 DEF u
    <3>6. QED
      BY <2>1, <3>3, <3>4, <3>5
  <2>5. QED
    BY <2>3, <2>4
<1>5. n \in T
  <2> HIDE DEF T
  <2>1. 0..n \subseteq T
    BY <1>1, <1>3, <1>4, UpTo
  <2>2. QED
    BY <1>1, <2>1
<1>6. QED
  BY <1>1, <1>2, <1>5 DEF RecipientsOf!IsInjective

LEMMA MembersFacts ==
  ASSUME NEW N, NEW lines \in Seq([number : Seq(Digits), name : N]), NEW c \in Countries
  PROVE  LET ms == RecipientsOf!Members(lines, c)
         IN /\ ms \in Seq([phone : Seq(Digits), name : N])
            /\ \A i, j \in DOMAIN ms : ms[i].phone = ms[j].phone => i = j
            /\ \A i \in DOMAIN ms : \E j \in DOMAIN lines : ms[i].phone = RecipientsOf!Recipient(lines[j].number, c)
            /\ lines # <<>> => ms # <<>>
<1> DEFINE M == [phone : Seq(Digits), name : N]
           Once(w) == \A i, j \in DOMAIN w : w[i].phone = w[j].phone => i = j
           Kept(w) == \A i \in DOMAIN w : \E j \in DOMAIN lines : w[i].phone = RecipientsOf!Recipient(lines[j].number, c)
<1> DEFINE n == Len(lines)
<1>1. n \in Nat /\ n = Len(lines) /\ DOMAIN lines = 1..n
  OBVIOUS
<1>2. PICK t \in [0..n -> Seq(M)] :
        /\ t[0] = <<>>
        /\ \A k \in 1..n : t[k] = RecipientsOf!Add(t[k - 1], lines[k], c)
        /\ RecipientsOf!Members(lines, c) = t[n]
  <2>1. MembersIn(N, lines, c)
    BY MembersTable, Zenon
  <2>2. QED
    BY <2>1 DEF MembersIn
<1> HIDE DEF n
<1> HIDE DEF M
<1> DEFINE T == {k \in 0..n : Once(t[k]) /\ Kept(t[k]) /\ (k > 0 => t[k] # <<>>)}
<1>3. 0 \in T
  BY <1>1, <1>2
<1>4. ASSUME NEW k \in 1..n, k - 1 \in T PROVE k \in T
  <2> DEFINE v == t[k - 1]
             p == RecipientsOf!Recipient(lines[k].number, c)
             e == [phone |-> p, name |-> lines[k].name]
  <2>1. Once(v) /\ Kept(v) /\ v \in Seq(M) /\ k \in DOMAIN lines /\ k \in 0..n
    <3>1. k - 1 \in 0..n /\ k \in 0..n /\ k \in DOMAIN lines
      BY <1>1
    <3>2. Once(v) /\ Kept(v)
      BY <1>4
    <3>3. QED
      BY <1>2, <3>1, <3>2
  <2>2. t[k] = IF \E i \in DOMAIN v : v[i].phone = p THEN v ELSE Append(v, e)
    BY <1>2 DEF RecipientsOf!Add
  <2>3. t[k] \in Seq(M)
    BY <1>2
  <2>4. e.phone = p
    OBVIOUS
  <2> HIDE DEF v, e
  <2>5. CASE \E i \in DOMAIN v : v[i].phone = p
    <3>1. v # <<>>
      BY <2>5
    <3>2. QED
      BY <2>1, <2>2, <2>5, <3>1
  <2>6. CASE ~\E i \in DOMAIN v : v[i].phone = p
    <3> DEFINE u == t[k]
    <3>1. u = Append(v, e) /\ u \in Seq(M)
      BY <2>2, <2>3, <2>6
    <3> HIDE DEF u
    <3>2. DOMAIN v = 1..Len(v) /\ Len(v) \in Nat
      BY <2>1
    <3>3. DOMAIN u = 1..(Len(v) + 1)
      BY <2>1, <3>1
    <3>4. u[Len(v) + 1] = e /\ \A i \in 1..Len(v) : u[i] = v[i]
      BY <2>1, <3>1
    <3>5. Once(u)
      <4> SUFFICES ASSUME NEW i \in 1..(Len(v) + 1), NEW j \in 1..(Len(v) + 1), u[i].phone = u[j].phone PROVE i = j
        BY <3>3
      <4>1. CASE i \in 1..Len(v) /\ j \in 1..Len(v)
        BY <2>1, <3>2, <3>4, <4>1
      <4>2. CASE i = Len(v) + 1 /\ j \in 1..Len(v)
        BY <2>4, <2>6, <3>2, <3>4, <4>2
      <4>3. CASE j = Len(v) + 1 /\ i \in 1..Len(v)
        BY <2>4, <2>6, <3>2, <3>4, <4>3
      <4>4. QED
        BY <3>2, <4>1, <4>2, <4>3
    <3>6. Kept(u)
      <4> SUFFICES ASSUME NEW i \in 1..(Len(v) + 1)
                   PROVE  \E j \in DOMAIN lines : u[i].phone = RecipientsOf!Recipient(lines[j].number, c)
        BY <3>3
      <4>1. CASE i \in 1..Len(v)
        BY <2>1, <3>2, <3>4, <4>1
      <4>2. CASE i = Len(v) + 1
        BY <2>1, <2>4, <3>4, <4>2
      <4>3. QED
        BY <3>2, <4>1, <4>2
    <3>7. u # <<>>
      BY <3>2, <3>3
    <3>8. QED
      BY <2>1, <3>5, <3>6, <3>7 DEF u
  <2>7. QED
    BY <2>5, <2>6
<1>5. n \in T
  <2> HIDE DEF T
  <2>1. 0..n \subseteq T
    BY <1>1, <1>3, <1>4, UpTo
  <2>2. QED
    BY <1>1, <2>1
<1>6. lines # <<>> => n > 0
  BY <1>1
<1>7. t[n] \in Seq(M)
  BY <1>1, <1>2
<1>8. QED
  BY <1>2, <1>5, <1>6, <1>7 DEF M

(* A list that is written down and read again is the same.                 *)
LEMMA ReadAgain ==
  ASSUME NEW N, NEW ms \in Seq([phone : Seq(Digits), name : N]), NEW c \in Countries,
         \A i, j \in DOMAIN ms : ms[i].phone = ms[j].phone => i = j,
         \A i \in DOMAIN ms : RecipientsOf!Recipient(ms[i].phone, c) = ms[i].phone
  PROVE  /\ RecipientsOf!Lines(ms) \in Seq([number : Seq(Digits), name : N])
         /\ RecipientsOf!Members(RecipientsOf!Lines(ms), c) = ms
<1> DEFINE M == [phone : Seq(Digits), name : N]
           lines == RecipientsOf!Lines(ms)
           L == [number : Seq(Digits), name : N]
<1>1. PICK n \in Nat : n = Len(ms) /\ DOMAIN ms = 1..n
  OBVIOUS
<1>2. ASSUME NEW k \in 1..n
      PROVE  /\ ms[k] \in M /\ ms[k].phone \in Seq(Digits) /\ ms[k].name \in N
             /\ [phone |-> ms[k].phone, name |-> ms[k].name] = ms[k]
             /\ lines[k].number = ms[k].phone /\ lines[k].name = ms[k].name /\ lines[k] \in L
  <2>1. ms[k] \in M
    <3> HIDE DEF M
    <3>1. ms \in Seq(M)
      BY DEF M
    <3>2. QED
      BY <1>1, <3>1
  <2>2. ms[k].phone \in Seq(Digits) /\ ms[k].name \in N
        /\ [phone |-> ms[k].phone, name |-> ms[k].name] = ms[k]
    BY <2>1
  <2>3. lines[k] = [number |-> ms[k].phone, name |-> ms[k].name]
    BY <1>1 DEF RecipientsOf!Lines
  <2>4. QED
    BY <2>1, <2>2, <2>3
<1>3. lines \in Seq(L) /\ Len(lines) = n
  <2>1. lines = [k \in 1..n |-> lines[k]]
    BY <1>1 DEF RecipientsOf!Lines
  <2> HIDE DEF L, lines
  <2>2. lines \in [1..n -> L]
    BY <1>2, <2>1
  <2>3. lines \in Seq(L)
    BY <1>1, <2>2
  <2>4. DOMAIN lines = 1..n
    BY <2>2
  <2>5. QED
    BY <1>1, <2>3, <2>4
<1>4. PICK t \in [0..n -> Seq(M)] :
        /\ t[0] = <<>>
        /\ \A k \in 1..n : t[k] = RecipientsOf!Add(t[k - 1], lines[k], c)
        /\ RecipientsOf!Members(lines, c) = t[n]
  <2> HIDE DEF lines
  <2>1. \E t \in [0..Len(lines) -> Seq(M)] :
          /\ t[0] = <<>>
          /\ \A k \in 1..Len(lines) : t[k] = RecipientsOf!Add(t[k - 1], lines[k], c)
          /\ RecipientsOf!Members(lines, c) = t[Len(lines)]
    <3>1. lines \in Seq([number : Seq(Digits), name : N])
      BY <1>3
    <3>2. MembersIn(N, lines, c)
      BY <3>1, MembersTable, Zenon
    <3>3. QED
      BY <3>2 DEF MembersIn
  <2>2. QED
    BY <1>3, <2>1
<1> HIDE DEF M, L, lines
<1> DEFINE T == {k \in 0..n : Len(t[k]) = k /\ \A i \in 1..k : t[k][i] = ms[i]}
<1>5. 0 \in T
  BY <1>1, <1>4
<1>6. ASSUME NEW k \in 1..n, k - 1 \in T PROVE k \in T
  <2> DEFINE v == t[k - 1]
  <2>1. Len(v) = k - 1 /\ v \in Seq(M) /\ k \in DOMAIN ms /\ k \in 0..n /\ \A i \in 1..(k - 1) : v[i] = ms[i]
    <3>1. k - 1 \in 0..n /\ k \in 0..n /\ k \in DOMAIN ms
      BY <1>1
    <3>2. Len(v) = k - 1 /\ \A i \in 1..(k - 1) : v[i] = ms[i]
      BY <1>6
    <3>3. QED
      BY <1>4, <3>1, <3>2
  <2>2. DOMAIN v = 1..(k - 1)
    BY <2>1
  <2>3. RecipientsOf!Recipient(lines[k].number, c) = ms[k].phone
    BY <1>2, <2>1
  <2>4. ~\E i \in DOMAIN v : v[i].phone = ms[k].phone
    <3> SUFFICES ASSUME NEW i \in 1..(k - 1), v[i].phone = ms[k].phone PROVE FALSE
      BY <2>2
    <3>1. v[i] = ms[i] /\ i \in DOMAIN ms /\ i # k
      BY <1>1, <2>1
    <3>2. QED
      BY <2>1, <3>1
  <2>5. t[k] = Append(v, ms[k])
    BY <1>2, <1>4, <2>3, <2>4 DEF RecipientsOf!Add
  <2> HIDE DEF v
  <2>6. Len(t[k]) = k
    BY <2>1, <2>5
  <2>7. ASSUME NEW i \in 1..k PROVE t[k][i] = ms[i]
    <3>1. CASE i = k
      BY <2>1, <2>5, <3>1
    <3>2. CASE i \in 1..(k - 1)
      BY <2>1, <2>5, <3>2
    <3>3. QED
      BY <3>1, <3>2
  <2>8. QED
    BY <2>1, <2>6, <2>7
<1>7. n \in T
  <2> HIDE DEF T
  <2>1. 0..n \subseteq T
    BY <1>1, <1>5, <1>6, UpTo
  <2>2. QED
    BY <1>1, <2>1
<1>8. t[n] \in Seq(M) /\ ms \in Seq(M) /\ Len(t[n]) = Len(ms) /\ \A i \in 1..Len(ms) : t[n][i] = ms[i]
  BY <1>1, <1>4, <1>7 DEF M
<1>9. t[n] = ms
  <2> DEFINE w == t[n]
  <2>1. w \in Seq(M) /\ ms \in Seq(M) /\ Len(w) = Len(ms) /\ \A i \in 1..Len(ms) : w[i] = ms[i]
    BY <1>8
  <2> HIDE DEF w
  <2>2. DOMAIN w = 1..Len(ms) /\ DOMAIN ms = 1..Len(ms)
    BY <2>1
  <2>3. w = [i \in 1..Len(ms) |-> w[i]] /\ ms = [i \in 1..Len(ms) |-> ms[i]]
    BY <2>1, <2>2
  <2>4. w = ms
    BY <2>1, <2>3
  <2>5. QED
    BY <2>4 DEF w
<1>10. QED
  BY <1>3, <1>4, <1>9 DEF L, lines

LEMMA ListsParts ==
  RecipientsOf!IInv <=>
    /\ toCountry \in Countries /\ toKind \in RecipientsOf!Kinds
    /\ toList \in Seq(Seq(Digits)) /\ toDest \in Seq(Seq(Digits))
    /\ RecipientsOf!ConfigSound
<1>1. RecipientsOf!ConfigSound =>
        /\ toConfig.recipients \in Seq(Seq(Digits))
        /\ \A ms \in {toConfig.senders, toConfig.members} : \A i \in DOMAIN ms : ms[i].name \in Names
  <2> DEFINE M == RecipientsOf!Member
  <2> SUFFICES ASSUME RecipientsOf!ConfigSound
               PROVE  /\ toConfig.recipients \in Seq(Seq(Digits))
                      /\ \A ms \in {toConfig.senders, toConfig.members} : \A i \in DOMAIN ms : ms[i].name \in Names
    OBVIOUS
  <2>1. toConfig.recipients \in Seq(Seq(Digits)) /\ toConfig.senders \in Seq(M) /\ toConfig.members \in Seq(M)
    BY DEF RecipientsOf!ConfigSound
  <2>2. \A m \in M : m.name \in Names
    BY DEF RecipientsOf!Member
  <2> HIDE DEF M
  <2>3. QED
    BY <2>1, <2>2
<1>2. QED
  BY <1>1 DEF RecipientsOf!IInv, RecipientsOf!TypeOK

LEMMA ListsNext ==
  ( /\ toCountry \in Countries /\ toKind \in RecipientsOf!Kinds
    /\ toList \in Seq(Seq(Digits)) /\ toDest \in Seq(Seq(Digits))
    /\ RecipientsOf!ConfigSound )' => RecipientsOf!IInv'
BY ListsParts, PTL

LEMMA UptoTyped ==
  ASSUME NEW S, NEW f \in RecipientsOf!Upto(S)
  PROVE  f \in Seq(S)
<1>1. PICK n \in 0..MaxLines : f \in [1..n -> S]
  BY DEF RecipientsOf!Upto
<1>2. n \in Nat
  BY RecipientsAssumption
<1>3. QED
  BY <1>1, <1>2

(* What a form saves of its lines. *)
LEMMA FormSettles ==
  ASSUME NEW lines \in RecipientsOf!Upto(RecipientsOf!Line), NEW c \in Countries,
         ~RecipientsOf!Wrong(lines, c)
  PROVE  LET ms == RecipientsOf!Members(lines, c)
         IN /\ ms \in Seq(RecipientsOf!Member)
            /\ RecipientsOf!Phones(ms) \in Seq(Seq(Digits))
            /\ RecipientsOf!SettledList(RecipientsOf!Phones(ms))
            /\ lines # <<>> => ms # <<>> /\ RecipientsOf!Phones(ms) # <<>>
<1> DEFINE L == [number : Seq(Digits), name : Names]
           M == [phone : Seq(Digits), name : Names]
           ms == RecipientsOf!Members(lines, c)
           ps == RecipientsOf!Phones(ms)
<1>1. lines \in Seq(RecipientsOf!Line)
  BY UptoTyped
<1>2. \A i \in DOMAIN lines : lines[i] \in RecipientsOf!Line
  BY <1>1
<1>3. \A i \in DOMAIN lines : lines[i].number \in Written /\ lines[i] \in L
  <2>1. \A l \in RecipientsOf!Line : l.number \in Written /\ l \in L
    BY RecipientsAssumption DEF RecipientsOf!Line
  <2>2. QED
    BY <1>2, <2>1
<1>4. lines \in Seq(L)
  <2> HIDE DEF L
  <2>1. QED
    BY <1>1, <1>3
<1>5. /\ ms \in Seq(M)
      /\ \A i, j \in DOMAIN ms : ms[i].phone = ms[j].phone => i = j
      /\ \A i \in DOMAIN ms : \E j \in DOMAIN lines : ms[i].phone = RecipientsOf!Recipient(lines[j].number, c)
      /\ lines # <<>> => ms # <<>>
  BY <1>4, MembersFacts, Zenon
<1> HIDE DEF ms
<1>6. ASSUME NEW i \in DOMAIN ms PROVE RecipientsOf!Settled(ms[i].phone)
  <2>1. PICK j \in DOMAIN lines : ms[i].phone = RecipientsOf!Recipient(lines[j].number, c)
    BY <1>5
  <2>2. QED
    BY <1>3, <2>1, WrittenSettles DEF RecipientsOf!Wrong
<1>7. ps = [i \in DOMAIN ms |-> ms[i].phone]
  BY DEF RecipientsOf!Phones
<1>8. ps \in Seq(Seq(Digits)) /\ Len(ps) = Len(ms)
  <2> DEFINE n == Len(ms)
  <2>1. n \in Nat /\ DOMAIN ms = 1..n
    BY <1>5
  <2>2. \A i \in DOMAIN ms : ms[i].phone \in Seq(Digits)
    BY <1>6 DEF RecipientsOf!Settled
  <2> HIDE DEF n
  <2>3. ps \in [1..n -> Seq(Digits)]
    BY <1>7, <2>1, <2>2
  <2> HIDE DEF ps
  <2>4. ps \in Seq(Seq(Digits)) /\ Len(ps) = n
    BY <2>1, <2>3
  <2>5. QED
    BY <2>4 DEF n
<1> HIDE DEF ps
<1>9. RecipientsOf!SettledList(ps)
  BY <1>5, <1>6, <1>7 DEF RecipientsOf!SettledList, RecipientsOf!IsInjective
<1>10. lines # <<>> => ps # <<>>
  <2>1. ms # <<>> => Len(ms) # 0
    BY <1>5
  <2>2. ps = <<>> => Len(ps) = 0
    OBVIOUS
  <2>3. QED
    BY <1>5, <1>8, <2>1, <2>2
<1>11. QED
  BY <1>5, <1>8, <1>9, <1>10 DEF ms, ps, RecipientsOf!Member

LEMMA NobodySettled ==
  RecipientsOf!SettledList(<<>>) /\ RecipientsOf!Phones(<<>>) = <<>>
<1>1. DOMAIN <<>> = {}
  OBVIOUS
<1>2. QED
  BY <1>1 DEF RecipientsOf!SettledList, RecipientsOf!IsInjective, RecipientsOf!Phones

LEMMA SettledIsWhole ==
  ASSUME NEW p, NEW c \in Countries, RecipientsOf!Settled(p)
  PROVE  Whole(p) /\ p \in Seq(Digits)
<1>1. RecipientsOf!Normal(p, c) = p /\ p # RecipientsOf!Bad /\ p \in Seq(Digits)
  BY DEF RecipientsOf!Settled
<1>2. QED
  BY <1>1, NormalIsWhole

(* What the pipeline hands over is what submitMessages writes. *)
LEMMA HandedOver ==
  ASSUME NEW l \in Seq(Seq(Digits)), \A i \in DOMAIN l : Whole(l[i]), RecipientsOf!Submit(l)
  PROVE  toList' = l /\ toDest' = l
<1>1. \A i \in DOMAIN l : RecipientsOf!Normal(l[i], toCountry) = l[i] /\ l[i] # RecipientsOf!Bad
  BY WholeStays
<1>2. toDest' = [i \in DOMAIN l |-> RecipientsOf!Normal(l[i], toCountry)] /\ toList' = l
  BY <1>1 DEF RecipientsOf!Submit
<1>3. [i \in DOMAIN l |-> RecipientsOf!Normal(l[i], toCountry)] = [i \in DOMAIN l |-> l[i]]
  BY <1>1
<1>4. [i \in DOMAIN l |-> l[i]] = l
  OBVIOUS
<1>5. QED
  BY <1>2, <1>3, <1>4

Told ==
  toList' # toList =>
    /\ toDest' = toList'
    /\ toKind # "hook" => RecipientsOf!IsInjective(toDest')
    /\ (toKind = "group" /\ toConfig.mode = "closed") => ~RecipientsOf!Contains(toDest', toFrom')

LEMMA SubmitKeeps ==
  ASSUME RecipientsOf!IInv, NEW l \in Seq(Seq(Digits)), \A i \in DOMAIN l : Whole(l[i]),
         RecipientsOf!Submit(l), UNCHANGED <<toCountry, toKind, toConfig>>
  PROVE  RecipientsOf!IInv' /\ toDest' = l /\ toList' = l
<1>1. toList' = l /\ toDest' = l
  BY HandedOver
<1>2. QED
  BY <1>1, ListsParts DEF RecipientsOf!ConfigSound, RecipientsOf!IInv, RecipientsOf!TypeOK

LEMMA SaveKeeps ==
  ASSUME RecipientsOf!IInv, UNCHANGED <<toCountry, toKind, toList, toFrom, toDest>>,
         RecipientsOf!ConfigSound'
  PROVE  RecipientsOf!IInv'
<1>1. /\ toCountry' \in Countries /\ toKind' \in RecipientsOf!Kinds
      /\ toList' \in Seq(Seq(Digits)) /\ toDest' \in Seq(Seq(Digits))
  BY ListsParts
<1>2. QED
  BY <1>1, ListsNext

LEMMA GroupSaved ==
  ASSUME RecipientsOf!IInv, RecipientsOf!SaveGroup
  PROVE  RecipientsOf!ConfigSound'
<1> DEFINE U == RecipientsOf!Upto(RecipientsOf!Line)
           A == [mode : {"lists"}, senders : U, recipients : U, members : {<<>>}]
           B == [mode : {"closed"}, senders : {<<>>}, recipients : {<<>>}, members : U]
           C == [mode : {"lists", "closed"}, senders : Seq(RecipientsOf!Member),
                 recipients : Seq(Seq(Digits)), members : Seq(RecipientsOf!Member)]
           c == toConfig'
<1>1. PICK f \in A \cup B : /\ ~RecipientsOf!GroupRefused(f, toCountry)
                            /\ c = RecipientsOf!GroupConfig(f, toCountry)
  BY DEF RecipientsOf!SaveGroup
<1>2. toCountry \in Countries /\ toKind = "group" /\ toKind' = "group" /\ toCountry' = toCountry
  BY ListsParts DEF RecipientsOf!SaveGroup
<1>3. <<>> \in Seq(RecipientsOf!Member) /\ <<>> \in Seq(Seq(Digits))
  OBVIOUS
<1>4. CASE f \in A
  <2> DEFINE s == RecipientsOf!Members(f.senders, toCountry)
             m == RecipientsOf!Members(f.recipients, toCountry)
             r == RecipientsOf!Phones(m)
  <2>1. f.mode = "lists" /\ f.senders \in U /\ f.recipients \in U
    BY <1>4
  <2>2. /\ ~RecipientsOf!Wrong(f.senders, toCountry) /\ f.senders # <<>>
        /\ ~RecipientsOf!Wrong(f.recipients, toCountry) /\ f.recipients # <<>>
    BY <1>1, <2>1 DEF RecipientsOf!GroupRefused
  <2>3. /\ s \in Seq(RecipientsOf!Member) /\ RecipientsOf!SettledList(RecipientsOf!Phones(s)) /\ s # <<>>
    BY <1>2, <2>1, <2>2, FormSettles
  <2>4. r \in Seq(Seq(Digits)) /\ RecipientsOf!SettledList(r) /\ r # <<>>
    BY <1>2, <2>1, <2>2, FormSettles
  <2>5. c = [RecipientsOf!Empty EXCEPT !.senders = s, !.recipients = r]
    BY <1>1, <2>1 DEF RecipientsOf!GroupConfig
  <2> HIDE DEF s, r
  <2>6. c.mode = "lists" /\ c.senders = s /\ c.recipients = r /\ c.members = <<>> /\ c \in C
    BY <1>3, <2>3, <2>4, <2>5 DEF RecipientsOf!Empty
  <2> HIDE DEF c
  <2>7. QED
    BY <1>2, <2>3, <2>4, <2>6, NobodySettled DEF RecipientsOf!ConfigSound, c
<1>5. CASE f \in B
  <2> DEFINE m == RecipientsOf!Members(f.members, toCountry)
  <2>1. f.mode = "closed" /\ f.members \in U
    BY <1>5
  <2>2. ~RecipientsOf!Wrong(f.members, toCountry) /\ ~(Len(m) < 2)
    BY <1>1, <2>1 DEF RecipientsOf!GroupRefused
  <2>3. m \in Seq(RecipientsOf!Member) /\ RecipientsOf!SettledList(RecipientsOf!Phones(m))
    BY <1>2, <2>1, <2>2, FormSettles
  <2>4. c = [RecipientsOf!Empty EXCEPT !.mode = "closed", !.members = m]
    BY <1>1, <2>1 DEF RecipientsOf!GroupConfig
  <2> HIDE DEF m
  <2>5. c.mode = "closed" /\ c.senders = <<>> /\ c.recipients = <<>> /\ c.members = m /\ c \in C
    BY <1>3, <2>3, <2>4 DEF RecipientsOf!Empty
  <2>6. Len(m) >= 2
    BY <2>2, <2>3
  <2> HIDE DEF c
  <2>7. QED
    BY <1>2, <2>3, <2>5, <2>6, NobodySettled DEF RecipientsOf!ConfigSound, c
<1>6. QED
  BY <1>1, <1>4, <1>5

LEMMA FlowSaved ==
  ASSUME RecipientsOf!IInv, RecipientsOf!SaveFlow
  PROVE  RecipientsOf!ConfigSound'
<1> DEFINE U == RecipientsOf!Upto(RecipientsOf!Line)
           A == [mode : {"lists"}, senders : {<<>>}, recipients : {<<>>}, members : U]
           C == [mode : {"lists", "closed"}, senders : Seq(RecipientsOf!Member),
                 recipients : Seq(Seq(Digits)), members : Seq(RecipientsOf!Member)]
           c == toConfig'
<1>1. PICK f \in A : ~RecipientsOf!Wrong(f.members, toCountry) /\ c = RecipientsOf!FlowConfig(f, toCountry)
  BY DEF RecipientsOf!SaveFlow
<1>2. toCountry \in Countries /\ toKind = "flow" /\ toKind' = "flow" /\ toCountry' = toCountry
  BY ListsParts DEF RecipientsOf!SaveFlow
<1>3. <<>> \in Seq(RecipientsOf!Member) /\ <<>> \in Seq(Seq(Digits))
  OBVIOUS
<1> DEFINE m == RecipientsOf!Members(f.members, toCountry)
<1>4. m \in Seq(RecipientsOf!Member) /\ RecipientsOf!SettledList(RecipientsOf!Phones(m))
  BY <1>1, <1>2, FormSettles
<1>5. c = [RecipientsOf!Empty EXCEPT !.members = m]
  BY <1>1 DEF RecipientsOf!FlowConfig
<1> HIDE DEF m
<1>6. c.mode = "lists" /\ c.senders = <<>> /\ c.recipients = <<>> /\ c.members = m /\ c \in C
  BY <1>3, <1>4, <1>5 DEF RecipientsOf!Empty
<1> HIDE DEF c
<1>7. QED
  BY <1>2, <1>4, <1>6, NobodySettled DEF RecipientsOf!ConfigSound, c

LEMMA RawSaved ==
  ASSUME RecipientsOf!IInv, RecipientsOf!SaveRaw
  PROVE  RecipientsOf!ConfigSound'
<1> DEFINE C == [mode : {"lists", "closed"}, senders : Seq(RecipientsOf!Member),
                 recipients : Seq(Seq(Digits)), members : Seq(RecipientsOf!Member)]
           c == toConfig'
<1>1. PICK r \in RecipientsOf!Upto(Written) : c = RecipientsOf!RawConfig([RecipientsOf!Empty EXCEPT !.recipients = r])
  BY DEF RecipientsOf!SaveRaw
<1>2. r \in Seq(Seq(Digits))
  <2>1. r \in Seq(Written)
    BY UptoTyped
  <2>2. Written \subseteq Seq(Digits)
    BY RecipientsAssumption
  <2>3. QED
    BY <2>1, <2>2
<1>3. <<>> \in Seq(RecipientsOf!Member)
  OBVIOUS
<1>4. c \in C
  BY <1>1, <1>2, <1>3 DEF RecipientsOf!RawConfig, RecipientsOf!Empty
<1>5. toKind' \notin {"group", "flow"}
  BY DEF RecipientsOf!SaveRaw
<1>6. QED
  BY <1>4, <1>5 DEF RecipientsOf!ConfigSound

LEMMA SaveStep ==
  ASSUME RecipientsOf!IInv,
         RecipientsOf!SaveGroup \/ RecipientsOf!SaveFlow \/ RecipientsOf!SaveRaw \/ RecipientsOf!ChangeCountry
  PROVE  RecipientsOf!IInv' /\ toList' = toList
<1>1. CASE RecipientsOf!SaveGroup
  BY <1>1, GroupSaved, SaveKeeps DEF RecipientsOf!SaveGroup
<1>2. CASE RecipientsOf!SaveFlow
  BY <1>2, FlowSaved, SaveKeeps DEF RecipientsOf!SaveFlow
<1>3. CASE RecipientsOf!SaveRaw
  BY <1>3, RawSaved, SaveKeeps DEF RecipientsOf!SaveRaw
<1>4. CASE RecipientsOf!ChangeCountry
  <2>1. toCountry' \in Countries /\ UNCHANGED <<toKind, toConfig, toList, toFrom, toDest>>
    BY <1>4 DEF RecipientsOf!ChangeCountry
  <2>2. RecipientsOf!ConfigSound'
    BY <2>1, ListsParts DEF RecipientsOf!ConfigSound
  <2>3. QED
    BY <2>1, <2>2, ListsParts, ListsNext
<1>5. QED
  BY <1>1, <1>2, <1>3, <1>4

LEMMA SettledWhole ==
  ASSUME NEW l, NEW c \in Countries, RecipientsOf!SettledList(l)
  PROVE  \A i \in DOMAIN l : Whole(l[i])
BY SettledIsWhole DEF RecipientsOf!SettledList

LEMMA PhonesTyped ==
  ASSUME NEW ms \in Seq(RecipientsOf!Member)
  PROVE  RecipientsOf!Phones(ms) \in Seq(Seq(Digits))
<1> DEFINE n == Len(ms)
           M == RecipientsOf!Member
<1>1. n \in Nat /\ DOMAIN ms = 1..n
  OBVIOUS
<1>2. \A m \in M : m.phone \in Seq(Digits)
  BY DEF RecipientsOf!Member
<1> HIDE DEF M
<1>3. \A i \in DOMAIN ms : ms[i] \in M
  BY DEF M
<1> HIDE DEF n
<1>4. RecipientsOf!Phones(ms) \in [1..n -> Seq(Digits)]
  BY <1>1, <1>2, <1>3 DEF RecipientsOf!Phones
<1> DEFINE ps == RecipientsOf!Phones(ms)
<1> HIDE DEF ps
<1>5. ps \in Seq(Seq(Digits))
  BY <1>1, <1>4 DEF ps
<1>6. QED
  BY <1>5 DEF ps

(* Whom a group reaches. *)
LEMMA GroupSettled ==
  ASSUME RecipientsOf!IInv, toKind = "group", NEW p
  PROVE  LET g == RecipientsOf!GroupOf(p)
         IN /\ g \in Seq(Seq(Digits))
            /\ \A i \in DOMAIN g : Whole(g[i])
            /\ toConfig.mode = "closed" => \A i \in DOMAIN g : g[i] # p
<1> DEFINE ps == RecipientsOf!Phones(toConfig.members)
           w == RecipientsOf!Without(ps, p)
           g == RecipientsOf!GroupOf(p)
<1>1. /\ toConfig.members \in Seq(RecipientsOf!Member) /\ toConfig.recipients \in Seq(Seq(Digits))
      /\ RecipientsOf!SettledList(ps) /\ RecipientsOf!SettledList(toConfig.recipients)
      /\ toCountry \in Countries
  BY ListsParts DEF RecipientsOf!ConfigSound
<1>2. ps \in Seq(Seq(Digits))
  BY <1>1, PhonesTyped
<1>3. (\A i \in DOMAIN ps : Whole(ps[i])) /\ \A i \in DOMAIN toConfig.recipients : Whole(toConfig.recipients[i])
  BY <1>1, SettledWhole
<1> HIDE DEF ps
<1>4. /\ w \in Seq(Seq(Digits))
      /\ \A i \in DOMAIN w : w[i] # p /\ \E j \in DOMAIN ps : w[i] = ps[j]
  <2>1. Rest(Seq(Digits), ps, p, w)
    BY <1>2, WithoutFacts, Zenon
  <2> HIDE DEF w
  <2>2. QED
    BY <2>1 DEF Rest
<1> HIDE DEF w
<1>5. g = IF toConfig.mode = "closed" THEN w ELSE toConfig.recipients
  BY DEF RecipientsOf!GroupOf, w, ps
<1>6. \A i \in DOMAIN w : Whole(w[i]) /\ w[i] # p
  BY <1>3, <1>4
<1> HIDE DEF g
<1>7. /\ g \in Seq(Seq(Digits)) /\ \A i \in DOMAIN g : Whole(g[i])
      /\ toConfig.mode = "closed" => \A i \in DOMAIN g : g[i] # p
  BY <1>1, <1>3, <1>4, <1>5, <1>6
<1>8. QED
  BY <1>7 DEF g

LEMMA SmsStep ==
  ASSUME RecipientsOf!IInv, NEW n, RecipientsOf!Sms(n)
  PROVE  RecipientsOf!IInv' /\ Told
<1> DEFINE p == RecipientsOf!Sender(n, toCountry)
           g == RecipientsOf!GroupOf(p)
           d == RecipientsOf!Distinct(g)
<1>1. /\ toKind = "group" /\ toFrom' = p /\ RecipientsOf!Submit(d)
      /\ UNCHANGED <<toCountry, toKind, toConfig>>
  BY DEF RecipientsOf!Sms
<1> HIDE DEF p
<1>2. /\ g \in Seq(Seq(Digits)) /\ \A i \in DOMAIN g : Whole(g[i])
      /\ toConfig.mode = "closed" => \A i \in DOMAIN g : g[i] # p
  BY <1>1, GroupSettled
<1> HIDE DEF g
<1>3. /\ d \in Seq(Seq(Digits)) /\ RecipientsOf!IsInjective(d)
      /\ \A i \in DOMAIN d : \E j \in DOMAIN g : d[i] = g[j]
  BY <1>2, DistinctFacts, Zenon
<1> HIDE DEF d
<1>4. /\ \A i \in DOMAIN d : Whole(d[i])
      /\ toConfig.mode = "closed" => \A i \in DOMAIN d : d[i] # p
  BY <1>2, <1>3
<1>5. RecipientsOf!IInv' /\ toDest' = d /\ toList' = d
  BY <1>1, <1>3, <1>4, SubmitKeeps
<1>6. DOMAIN d = 1..Len(d)
  BY <1>3
<1>7. toConfig.mode = "closed" => ~RecipientsOf!Contains(d, p)
  BY <1>4, <1>6 DEF RecipientsOf!Contains
<1>8. QED
  BY <1>1, <1>3, <1>5, <1>7 DEF Told

LEMMA FlowStep ==
  ASSUME RecipientsOf!IInv, RecipientsOf!Flow
  PROVE  RecipientsOf!IInv' /\ Told
<1> DEFINE ps == RecipientsOf!Phones(toConfig.members)
<1>1. toKind = "flow" /\ RecipientsOf!Submit(ps) /\ UNCHANGED <<toCountry, toKind, toConfig>>
  BY DEF RecipientsOf!Flow
<1>2. toConfig.members \in Seq(RecipientsOf!Member) /\ RecipientsOf!SettledList(ps) /\ toCountry \in Countries
  BY <1>1, ListsParts DEF RecipientsOf!ConfigSound
<1>3. ps \in Seq(Seq(Digits)) /\ (\A i \in DOMAIN ps : Whole(ps[i])) /\ RecipientsOf!IsInjective(ps)
  BY <1>2, PhonesTyped, SettledWhole DEF RecipientsOf!SettledList
<1> HIDE DEF ps
<1>4. RecipientsOf!IInv' /\ toDest' = ps /\ toList' = ps
  BY <1>1, <1>3, SubmitKeeps
<1>5. QED
  BY <1>1, <1>3, <1>4 DEF Told

(* The numbers of a list that are ones, as normalizeRecipient makes them.  *)
LEMMA RecipientsTyped ==
  ASSUME NEW l \in Seq(Seq(Digits)), NEW c \in Countries
  PROVE  LET r == [i \in DOMAIN l |-> RecipientsOf!Recipient(l[i], c)]
         IN /\ r \in Seq(Seq(Digits)) /\ DOMAIN r = DOMAIN l
            /\ \A i \in DOMAIN r : r[i] # RecipientsOf!Bad => Whole(r[i])
<1> DEFINE n == Len(l)
           r == [i \in DOMAIN l |-> RecipientsOf!Recipient(l[i], c)]
<1>1. n \in Nat /\ DOMAIN l = 1..n /\ \A i \in DOMAIN l : l[i] \in Seq(Digits)
  OBVIOUS
<1> HIDE DEF n
<1>2. \A i \in DOMAIN l : RecipientsOf!Recipient(l[i], c) \in Seq(Digits)
  BY <1>1, RecipientTyped
<1>3. r \in [1..n -> Seq(Digits)]
  BY <1>1, <1>2
<1>4. \A i \in DOMAIN r : r[i] # RecipientsOf!Bad => Whole(r[i])
  BY RecipientIsWhole
<1>5. DOMAIN r = DOMAIN l
  OBVIOUS
<1> HIDE DEF r
<1>6. r \in Seq(Seq(Digits))
  BY <1>1, <1>3
<1>7. QED
  BY <1>4, <1>5, <1>6 DEF r

LEMMA HookStep ==
  ASSUME RecipientsOf!IInv, NEW numbers \in RecipientsOf!Upto(Written),
         NEW n \in Reported \cup {RecipientsOf!Bad}, RecipientsOf!Hook(numbers, n)
  PROVE  RecipientsOf!IInv' /\ Told
<1> DEFINE s == RecipientsOf!Sender(n, toCountry)
           l == RecipientsOf!Raw(numbers, s)
           r == [i \in DOMAIN l |-> RecipientsOf!Recipient(l[i], toCountry)]
<1>1. /\ toKind = "hook" /\ \A i \in DOMAIN l : RecipientsOf!Recipient(l[i], toCountry) # RecipientsOf!Bad
      /\ RecipientsOf!Submit(r) /\ UNCHANGED <<toCountry, toKind, toConfig>>
  BY DEF RecipientsOf!Hook
<1>2. toCountry \in Countries /\ toConfig.recipients \in Seq(Seq(Digits))
  BY ListsParts DEF RecipientsOf!ConfigSound
<1>3. n \in Seq(Digits) /\ Written \subseteq Seq(Digits)
  <2>1. <<>> \in Seq(Digits) /\ \A x \in Written \cup Reported : x \in Seq(Digits)
    BY RecipientsAssumption
  <2>2. QED
    BY <2>1 DEF RecipientsOf!Bad
<1>4. s \in Seq(Digits)
  BY <1>2, <1>3, NormalTyped DEF RecipientsOf!Sender
<1>5. numbers \in Seq(Seq(Digits))
  <2>1. numbers \in Seq(Written)
    BY UptoTyped
  <2>2. QED
    BY <1>3, <2>1
<1> HIDE DEF s
<1>6. l \in Seq(Seq(Digits))
  BY <1>2, <1>4, <1>5 DEF RecipientsOf!Raw
<1> HIDE DEF l
<1>7. /\ r \in Seq(Seq(Digits)) /\ DOMAIN r = DOMAIN l
      /\ \A i \in DOMAIN r : r[i] # RecipientsOf!Bad => Whole(r[i])
  BY <1>2, <1>6, RecipientsTyped, Zenon
<1>8. \A i \in DOMAIN r : Whole(r[i])
  <2>1. \A i \in DOMAIN l : r[i] # RecipientsOf!Bad
    BY <1>1
  <2>2. QED
    BY <1>7, <2>1
<1> HIDE DEF r
<1>9. RecipientsOf!IInv' /\ toDest' = r /\ toList' = r
  BY <1>1, <1>7, <1>8, SubmitKeeps
<1>10. QED
  BY <1>1, <1>9 DEF Told

LEMMA MailStep ==
  ASSUME RecipientsOf!IInv, NEW groups \in RecipientsOf!Upto(Written),
         NEW own \in {<<>>} \cup {<<n>> : n \in Written}, RecipientsOf!Mail(groups, own)
  PROVE  RecipientsOf!IInv' /\ Told
<1> DEFINE pulled == RecipientsOf!Pulled(groups)
           l == RecipientsOf!Level(pulled, own)
           r == [i \in DOMAIN l |-> RecipientsOf!Recipient(l[i], toCountry)]
           g == RecipientsOf!Without(r, RecipientsOf!Bad)
           d == RecipientsOf!Distinct(g)
<1>1. toKind = "mail" /\ RecipientsOf!Submit(d) /\ UNCHANGED <<toCountry, toKind, toConfig>>
  BY DEF RecipientsOf!Mail, RecipientsOf!Good
<1>2. toCountry \in Countries /\ toConfig.recipients \in Seq(Seq(Digits))
  BY ListsParts DEF RecipientsOf!ConfigSound
<1>3. Written \subseteq Seq(Digits)
  BY RecipientsAssumption
<1>4. pulled \in Seq(Seq(Digits))
  <2>1. groups \in Seq(Written)
    BY UptoTyped
  <2>2. groups \in Seq(Seq(Digits))
    BY <1>3, <2>1
  <2>3. RecipientsOf!Split(groups) \in Seq(Seq(Digits))
    BY <2>2, SplitTable
  <2>4. QED
    BY <2>3 DEF RecipientsOf!Pulled
<1>5. own \in Seq(Seq(Digits))
  <2>1. ASSUME NEW x \in Written PROVE <<x>> \in Seq(Seq(Digits))
    <3> DEFINE S == Seq(Digits)
    <3>1. x \in S
      BY <1>3
    <3> HIDE DEF S
    <3>2. <<x>> \in Seq(S)
      BY <3>1
    <3>3. QED
      BY <3>2 DEF S
  <2>2. <<>> \in Seq(Seq(Digits))
    OBVIOUS
  <2>3. QED
    BY <2>1, <2>2
<1> HIDE DEF pulled
<1>6. l \in Seq(Seq(Digits))
  BY <1>2, <1>4, <1>5 DEF RecipientsOf!Level
<1> HIDE DEF l
<1>7. /\ r \in Seq(Seq(Digits))
      /\ \A i \in DOMAIN r : r[i] # RecipientsOf!Bad => Whole(r[i])
  BY <1>2, <1>6, RecipientsTyped, Zenon
<1> HIDE DEF r
<1>8. /\ g \in Seq(Seq(Digits))
      /\ \A i \in DOMAIN g : g[i] # RecipientsOf!Bad /\ \E j \in DOMAIN r : g[i] = r[j]
  <2>1. Rest(Seq(Digits), r, RecipientsOf!Bad, g)
    BY <1>7, WithoutFacts, Zenon
  <2> HIDE DEF g
  <2>2. QED
    BY <2>1 DEF Rest
<1> HIDE DEF g
<1>9. /\ d \in Seq(Seq(Digits)) /\ RecipientsOf!IsInjective(d)
      /\ \A i \in DOMAIN d : \E j \in DOMAIN g : d[i] = g[j]
  BY <1>8, DistinctFacts, Zenon
<1> HIDE DEF d
<1>10. \A i \in DOMAIN d : Whole(d[i])
  BY <1>7, <1>8, <1>9
<1>11. RecipientsOf!IInv' /\ toDest' = d /\ toList' = d
  BY <1>1, <1>9, <1>10, SubmitKeeps
<1>12. QED
  BY <1>1, <1>9, <1>11 DEF Told

LEMMA ListsStep ==
  ASSUME RecipientsOf!IInv, [RecipientsOf!Next]_toVars
  PROVE  RecipientsOf!IInv' /\ Told
<1>1. CASE RecipientsOf!SaveGroup \/ RecipientsOf!SaveFlow \/ RecipientsOf!SaveRaw \/ RecipientsOf!ChangeCountry
  BY <1>1, SaveStep DEF Told
<1>2. CASE RecipientsOf!Flow
  BY <1>2, FlowStep
<1>3. ASSUME NEW n \in Reported, RecipientsOf!Sms(n) PROVE RecipientsOf!IInv' /\ Told
  BY <1>3, SmsStep
<1>4. ASSUME NEW l \in RecipientsOf!Upto(Written), NEW n \in Reported \cup {RecipientsOf!Bad}, RecipientsOf!Hook(l, n)
      PROVE  RecipientsOf!IInv' /\ Told
  BY <1>4, HookStep
<1>5. ASSUME NEW g \in RecipientsOf!Upto(Written), NEW own \in {<<>>} \cup {<<n>> : n \in Written},
             RecipientsOf!Mail(g, own)
      PROVE  RecipientsOf!IInv' /\ Told
  BY <1>5, MailStep
<1>6. CASE UNCHANGED toVars
  <2>1. UNCHANGED <<toCountry, toKind, toConfig, toList, toFrom, toDest>>
    BY <1>6 DEF toVars
  <2>2. RecipientsOf!ConfigSound'
    BY <2>1, ListsParts DEF RecipientsOf!ConfigSound
  <2>3. QED
    BY <2>1, <2>2, ListsParts, ListsNext DEF Told
<1>7. QED
  BY <1>1, <1>2, <1>3, <1>4, <1>5, <1>6 DEF RecipientsOf!Next

LEMMA ListsBegin ==
  ASSUME RecipientsOf!Init
  PROVE  RecipientsOf!IInv
<1>1. /\ toCountry \in Countries /\ toKind \in RecipientsOf!Kinds /\ toConfig = RecipientsOf!Empty
      /\ toList = <<>> /\ toDest = <<>>
  BY DEF RecipientsOf!Init
<1>2. <<>> \in Seq(Seq(Digits)) /\ <<>> \in Seq(RecipientsOf!Member)
  OBVIOUS
<1>3. RecipientsOf!ConfigSound
  BY <1>1, <1>2, NobodySettled DEF RecipientsOf!ConfigSound, RecipientsOf!Empty
<1>4. QED
  BY <1>1, <1>2, <1>3, ListsParts

(* A list of settled members reads as it was written.                      *)
LEMMA MembersReopen ==
  ASSUME NEW ms \in Seq(RecipientsOf!Member), RecipientsOf!SettledList(RecipientsOf!Phones(ms)),
         NEW c \in Countries
  PROVE  /\ RecipientsOf!Members(RecipientsOf!Lines(ms), c) = ms
         /\ ~RecipientsOf!Wrong(RecipientsOf!Lines(ms), c)
         /\ ms # <<>> => RecipientsOf!Lines(ms) # <<>>
<1> DEFINE ps == RecipientsOf!Phones(ms)
<1>1. DOMAIN ps = DOMAIN ms /\ \A i \in DOMAIN ms : ps[i] = ms[i].phone
  BY DEF RecipientsOf!Phones
<1> HIDE DEF ps
<1>2. /\ \A i, j \in DOMAIN ps : ps[i] = ps[j] => i = j
      /\ \A i \in DOMAIN ps : RecipientsOf!Recipient(ps[i], c) = ps[i] /\ ps[i] # RecipientsOf!Bad
  BY DEF RecipientsOf!SettledList, RecipientsOf!IsInjective, RecipientsOf!Settled, ps
<1>3. /\ \A i, j \in DOMAIN ms : ms[i].phone = ms[j].phone => i = j
      /\ \A i \in DOMAIN ms : RecipientsOf!Recipient(ms[i].phone, c) = ms[i].phone
      /\ \A i \in DOMAIN ms : ms[i].phone # RecipientsOf!Bad
  BY <1>1, <1>2
<1>4. ms \in Seq([phone : Seq(Digits), name : Names])
  BY DEF RecipientsOf!Member
<1>5. RecipientsOf!Members(RecipientsOf!Lines(ms), c) = ms
  BY <1>3, <1>4, ReadAgain, Zenon
<1> DEFINE l == RecipientsOf!Lines(ms)
<1>6. l = [i \in DOMAIN ms |-> [number |-> ms[i].phone, name |-> ms[i].name]]
  BY DEF RecipientsOf!Lines
<1>7. \A i \in DOMAIN l : i \in DOMAIN ms /\ l[i].number = ms[i].phone
  BY <1>6
<1>8. DOMAIN l = DOMAIN ms
  BY <1>6
<1> HIDE DEF l
<1>9. ~RecipientsOf!Wrong(l, c)
  BY <1>3, <1>7 DEF RecipientsOf!Wrong
<1>10. ms # <<>> => l # <<>>
  <2>1. ms # <<>> => 1 \in DOMAIN ms
    BY <1>4
  <2>2. QED
    BY <1>8, <2>1
<1>11. QED
  BY <1>5, <1>9, <1>10 DEF l

(* So do the numbers of a group without names. *)
LEMMA NumbersReopen ==
  ASSUME NEW r \in Seq(Seq(Digits)), RecipientsOf!SettledList(r), NEW c \in Countries
  PROVE  LET l == [i \in DOMAIN r |-> [number |-> r[i], name |-> RecipientsOf!NoName]]
         IN /\ RecipientsOf!Phones(RecipientsOf!Members(l, c)) = r
            /\ ~RecipientsOf!Wrong(l, c)
            /\ r # <<>> => l # <<>>
<1> DEFINE N == {RecipientsOf!NoName}
           ms == [i \in DOMAIN r |-> [phone |-> r[i], name |-> RecipientsOf!NoName]]
           l == [i \in DOMAIN r |-> [number |-> r[i], name |-> RecipientsOf!NoName]]
           n == Len(r)
           M == [phone : Seq(Digits), name : N]
<1>1. n \in Nat /\ DOMAIN r = 1..n /\ \A i \in DOMAIN r : r[i] \in Seq(Digits)
  OBVIOUS
<1>2. /\ \A i, j \in DOMAIN r : r[i] = r[j] => i = j
      /\ \A i \in DOMAIN r : RecipientsOf!Recipient(r[i], c) = r[i] /\ r[i] # RecipientsOf!Bad
  BY DEF RecipientsOf!SettledList, RecipientsOf!IsInjective, RecipientsOf!Settled
<1>3. DOMAIN ms = DOMAIN r /\ \A i \in DOMAIN r : ms[i].phone = r[i] /\ ms[i].name = RecipientsOf!NoName
  OBVIOUS
<1>4. DOMAIN l = DOMAIN r /\ \A i \in DOMAIN r : l[i].number = r[i]
  OBVIOUS
<1>5. l = RecipientsOf!Lines(ms)
  BY <1>3 DEF RecipientsOf!Lines
<1>6. RecipientsOf!Phones(ms) = r
  <2>1. RecipientsOf!Phones(ms) = [i \in DOMAIN r |-> r[i]]
    BY <1>3 DEF RecipientsOf!Phones
  <2>2. QED
    BY <2>1
<1> HIDE DEF n
<1>7. ms \in [1..n -> M]
  BY <1>1
<1> HIDE DEF ms, M
<1>8. ms \in Seq(M)
  BY <1>1, <1>7
<1>9. /\ \A i, j \in DOMAIN ms : ms[i].phone = ms[j].phone => i = j
      /\ \A i \in DOMAIN ms : RecipientsOf!Recipient(ms[i].phone, c) = ms[i].phone
  BY <1>2, <1>3
<1>10. RecipientsOf!Members(RecipientsOf!Lines(ms), c) = ms
  <2>1. ms \in Seq([phone : Seq(Digits), name : N])
    BY <1>8 DEF M
  <2> HIDE DEF N
  <2>2. QED
    BY <1>9, <2>1, ReadAgain, Zenon
<1>11. r # <<>> => l # <<>>
  <2>1. r # <<>> => 1 \in DOMAIN r
    OBVIOUS
  <2> HIDE DEF l
  <2>2. QED
    BY <1>4, <2>1
<1> HIDE DEF l
<1>12. ~RecipientsOf!Wrong(l, c)
  BY <1>2, <1>4 DEF RecipientsOf!Wrong
<1>13. QED
  BY <1>5, <1>6, <1>10, <1>11, <1>12 DEF l

LEMMA GroupReopens ==
  ASSUME RecipientsOf!IInv, toKind = "group", toConfig # RecipientsOf!Empty
  PROVE  /\ ~RecipientsOf!GroupRefused(RecipientsOf!GroupValues(toConfig), toCountry)
         /\ RecipientsOf!GroupConfig(RecipientsOf!GroupValues(toConfig), toCountry) = toConfig
<1> DEFINE v == RecipientsOf!GroupValues(toConfig)
           l == [i \in DOMAIN toConfig.recipients |->
                   [number |-> toConfig.recipients[i], name |-> RecipientsOf!NoName]]
           S == Seq(RecipientsOf!Member)
           R == Seq(Seq(Digits))
<1>1. /\ toConfig.senders \in S /\ toConfig.members \in S /\ toConfig.recipients \in R
      /\ toConfig = [mode |-> toConfig.mode, senders |-> toConfig.senders,
                     recipients |-> toConfig.recipients, members |-> toConfig.members]
  <2> HIDE DEF S, R
  <2>1. toConfig \in [mode : {"lists", "closed"}, senders : S, recipients : R, members : S]
    BY ListsParts DEF RecipientsOf!ConfigSound, S, R
  <2>2. QED
    BY <2>1
<1>2. /\ RecipientsOf!SettledList(RecipientsOf!Phones(toConfig.senders))
      /\ RecipientsOf!SettledList(RecipientsOf!Phones(toConfig.members))
      /\ RecipientsOf!SettledList(toConfig.recipients) /\ toCountry \in Countries
  BY ListsParts DEF RecipientsOf!ConfigSound
<1>3. /\ v.mode = toConfig.mode /\ v.senders = RecipientsOf!Lines(toConfig.senders)
      /\ v.members = RecipientsOf!Lines(toConfig.members) /\ v.recipients = l
  BY DEF RecipientsOf!GroupValues
<1> HIDE DEF v
<1>4. /\ RecipientsOf!Members(v.senders, toCountry) = toConfig.senders
      /\ ~RecipientsOf!Wrong(v.senders, toCountry)
      /\ toConfig.senders # <<>> => v.senders # <<>>
  BY <1>1, <1>2, <1>3, MembersReopen
<1>5. /\ RecipientsOf!Members(v.members, toCountry) = toConfig.members
      /\ ~RecipientsOf!Wrong(v.members, toCountry)
  BY <1>1, <1>2, <1>3, MembersReopen
<1>6. /\ RecipientsOf!Phones(RecipientsOf!Members(v.recipients, toCountry)) = toConfig.recipients
      /\ ~RecipientsOf!Wrong(v.recipients, toCountry)
      /\ toConfig.recipients # <<>> => v.recipients # <<>>
  BY <1>1, <1>2, <1>3, NumbersReopen
<1> HIDE DEF l, S, R
<1>7. \/ toConfig.mode = "lists" /\ toConfig.members = <<>> /\ toConfig.senders # <<>> /\ toConfig.recipients # <<>>
      \/ toConfig.mode = "closed" /\ toConfig.senders = <<>> /\ toConfig.recipients = <<>> /\ Len(toConfig.members) >= 2
  BY ListsParts DEF RecipientsOf!ConfigSound
<1>8. CASE toConfig.mode = "lists" /\ toConfig.members = <<>> /\ toConfig.senders # <<>> /\ toConfig.recipients # <<>>
  <2>1. ~RecipientsOf!GroupRefused(v, toCountry)
    BY <1>3, <1>4, <1>6, <1>8 DEF RecipientsOf!GroupRefused
  <2>2. RecipientsOf!GroupConfig(v, toCountry) =
          [RecipientsOf!Empty EXCEPT !.senders = toConfig.senders, !.recipients = toConfig.recipients]
    BY <1>3, <1>4, <1>6, <1>8 DEF RecipientsOf!GroupConfig
  <2>3. RecipientsOf!GroupConfig(v, toCountry) = toConfig
    BY <1>1, <1>8, <2>2 DEF RecipientsOf!Empty
  <2>4. QED
    BY <2>1, <2>3 DEF v
<1>9. CASE toConfig.mode = "closed" /\ toConfig.senders = <<>> /\ toConfig.recipients = <<>> /\ Len(toConfig.members) >= 2
  <2>1. ~(Len(toConfig.members) < 2)
    BY <1>1, <1>9 DEF S
  <2>2. ~RecipientsOf!GroupRefused(v, toCountry)
    BY <1>3, <1>5, <1>9, <2>1 DEF RecipientsOf!GroupRefused
  <2>3. RecipientsOf!GroupConfig(v, toCountry) =
          [RecipientsOf!Empty EXCEPT !.mode = "closed", !.members = toConfig.members]
    BY <1>3, <1>5, <1>9 DEF RecipientsOf!GroupConfig
  <2>4. RecipientsOf!GroupConfig(v, toCountry) = toConfig
    BY <1>1, <1>9, <2>3 DEF RecipientsOf!Empty
  <2>5. QED
    BY <2>2, <2>4 DEF v
<1>10. QED
  BY <1>7, <1>8, <1>9

LEMMA FlowReopens ==
  ASSUME RecipientsOf!IInv, toKind = "flow"
  PROVE  RecipientsOf!FlowConfig(RecipientsOf!FlowValues(toConfig), toCountry)
           = [toConfig EXCEPT !.mode = "lists"]
<1> DEFINE S == Seq(RecipientsOf!Member)
           R == Seq(Seq(Digits))
           v == RecipientsOf!FlowValues(toConfig)
<1>1. /\ toConfig.members \in S
      /\ toConfig = [mode |-> toConfig.mode, senders |-> toConfig.senders,
                     recipients |-> toConfig.recipients, members |-> toConfig.members]
  <2> HIDE DEF S, R
  <2>1. toConfig \in [mode : {"lists", "closed"}, senders : S, recipients : R, members : S]
    BY ListsParts DEF RecipientsOf!ConfigSound, S, R
  <2>2. QED
    BY <2>1
<1>2. /\ RecipientsOf!SettledList(RecipientsOf!Phones(toConfig.members)) /\ toCountry \in Countries
      /\ toConfig.mode = "lists" /\ toConfig.senders = <<>> /\ toConfig.recipients = <<>>
  BY ListsParts DEF RecipientsOf!ConfigSound
<1>3. v.members = RecipientsOf!Lines(toConfig.members)
  BY DEF RecipientsOf!FlowValues, RecipientsOf!Empty
<1> HIDE DEF v
<1>4. RecipientsOf!Members(v.members, toCountry) = toConfig.members
  BY <1>1, <1>2, <1>3, MembersReopen
<1> HIDE DEF S
<1>5. RecipientsOf!FlowConfig(v, toCountry) = [RecipientsOf!Empty EXCEPT !.members = toConfig.members]
  BY <1>4 DEF RecipientsOf!FlowConfig
<1>6. [RecipientsOf!Empty EXCEPT !.members = toConfig.members] = toConfig
  BY <1>1, <1>2 DEF RecipientsOf!Empty
<1>7. [toConfig EXCEPT !.mode = "lists"] = toConfig
  BY <1>1, <1>2
<1>8. QED
  BY <1>5, <1>6, <1>7 DEF v

LEMMA ListsReopen ==
  ASSUME RecipientsOf!IInv
  PROVE  RecipientsOf!ReopeningKeeps
BY GroupReopens, FlowReopens DEF RecipientsOf!ReopeningKeeps

-----------------------------------------------------------------------------
(* Texts. A part has room for a character. *)
Alphabets == {"gsm", "ucs2"}
Cost(c, e) == TextsOf!Cost(c, e)
Room(e) == TextsOf!Multi(e)

LEMMA CostIs ==
  ASSUME NEW c, NEW e
  PROVE  Cost(c, e) \in {1, 2} /\ Cost(c, e) \in Nat
BY DEF Cost, TextsOf!Cost

LEMMA RoomIs ==
  ASSUME NEW e
  PROVE  /\ Room(e) \in Nat /\ Room(e) >= 2
         /\ TextsOf!Single(e) \in Nat /\ TextsOf!Single(e) >= 2
BY TextsAssumption DEF Room, TextsOf!Multi, TextsOf!Single

(* The slots of a text, character by character. *)
Summed(t, e, s) ==
  /\ s \in [0..Len(t) -> Nat] /\ s[0] = 0
  /\ \A k \in 1..Len(t) : s[k] = s[k - 1] + Cost(t[k], e)

Sum(t, e) == CHOOSE s : Summed(t, e, s)

LEMMA SumIs ==
  ASSUME NEW S, NEW t \in Seq(S), NEW e
  PROVE  Summed(t, e, Sum(t, e)) /\ TextsOf!Slots(t, e) = Sum(t, e)[Len(t)]
<1> DEFINE n == Len(t)
           F == CHOOSE f : f = [k \in 0..n |-> IF k = 0 THEN 0 ELSE f[k - 1] + TextsOf!Cost(t[k], e)]
           G == [k \in 1..n |-> [v \in Nat |-> v + TextsOf!Cost(t[k], e)]]
<1>1. n \in Nat
  OBVIOUS
<1>2. TextsOf!Slots(t, e) = F[n]
  BY DEF TextsOf!Slots, n
<1>3. \A c : TextsOf!Cost(c, e) \in Nat
  BY CostIs DEF Cost
<1> HIDE DEF n
<1>4. G \in [1..n -> [Nat -> Nat]]
  BY <1>3
<1>5. Unfolded(n, Nat, 0, G)
  <2> HIDE DEF G, F
  <2>1. QED
    BY <1>1, <1>4, Unfolds
<1>6. PICK s \in [0..n -> Nat] : s[0] = 0 /\ \A k \in 1..n : s[k] = G[k][s[k - 1]]
  BY <1>5 DEF Unfolded
<1>7. ASSUME NEW k \in 1..n PROVE s[k] = s[k - 1] + TextsOf!Cost(t[k], e)
  <2>1. k - 1 \in 0..n
    BY <1>1
  <2>2. s[k - 1] \in Nat
    BY <1>6, <2>1
  <2>3. QED
    BY <1>6, <2>2
<1> HIDE DEF G
<1>8. s = [k \in 0..n |-> IF k = 0 THEN 0 ELSE s[k - 1] + TextsOf!Cost(t[k], e)]
  <2>1. \A k \in 0..n : k # 0 => k \in 1..n
    BY <1>1
  <2>2. QED
    BY <2>1, <1>6, <1>7
<1>9. F = [k \in 0..n |-> IF k = 0 THEN 0 ELSE F[k - 1] + TextsOf!Cost(t[k], e)]
  BY <1>8, Zenon
<1> HIDE DEF F
<1>10. Summed(t, e, s)
  BY <1>6, <1>7 DEF Summed, n, Cost
<1>11. Summed(t, e, Sum(t, e))
  BY <1>10 DEF Sum
<1> DEFINE u == Sum(t, e)
<1>12. u[0] = 0 /\ \A k \in 1..n : u[k] = u[k - 1] + TextsOf!Cost(t[k], e)
  BY <1>11 DEF Summed, n, Cost
<1> HIDE DEF u
<1> DEFINE T == {k \in 0..n : F[k] = u[k]}
<1>13. 0 \in T
  BY <1>1, <1>9, <1>12
<1>14. ASSUME NEW k \in 1..n, k - 1 \in T PROVE k \in T
  <2>1. k \in 0..n /\ k # 0 /\ F[k - 1] = u[k - 1]
    BY <1>1, <1>14
  <2>2. F[k] = F[k - 1] + TextsOf!Cost(t[k], e)
    BY <1>9, <2>1
  <2>3. QED
    BY <1>12, <2>1, <2>2
<1>15. F[n] = u[n]
  <2> HIDE DEF T
  <2>1. 0..n \subseteq T
    BY <1>1, <1>13, <1>14, UpTo
  <2>2. QED
    BY <1>1, <2>1 DEF T
<1>16. QED
  BY <1>2, <1>11, <1>15 DEF n, u

LEMMA SumFacts ==
  ASSUME NEW S, NEW t \in Seq(S), NEW e
  PROVE  /\ Sum(t, e)[0] = 0
         /\ \A k \in 0..Len(t) : Sum(t, e)[k] \in Nat
         /\ \A k \in 1..Len(t) : Sum(t, e)[k] = Sum(t, e)[k - 1] + Cost(t[k], e)
BY SumIs DEF Summed

LEMMA SumGrows ==
  ASSUME NEW S, NEW t \in Seq(S), NEW e, NEW a \in 0..Len(t), NEW b \in 0..Len(t), a <= b
  PROVE  Sum(t, e)[a] <= Sum(t, e)[b]
<1> DEFINE n == Len(t)
           s == Sum(t, e)
           T == {k \in 0..n : a <= k => s[a] <= s[k]}
<1>1. n \in Nat /\ s[0] = 0 /\ (\A k \in 0..n : s[k] \in Nat) /\ (\A k \in 1..n : s[k] = s[k - 1] + Cost(t[k], e))
  BY SumFacts
<1>2. a \in 0..n /\ b \in 0..n
  OBVIOUS
<1> HIDE DEF n, s
<1>3. 0 \in T
  BY <1>1, <1>2
<1>4. ASSUME NEW k \in 1..n, k - 1 \in T PROVE k \in T
  <2>1. s[k] = s[k - 1] + Cost(t[k], e) /\ s[k - 1] \in Nat /\ k \in 0..n /\ k - 1 \in 0..n
    BY <1>1
  <2>2. Cost(t[k], e) \in Nat
    BY CostIs
  <2>3. CASE a <= k - 1
    BY <1>1, <1>2, <1>4, <2>1, <2>2, <2>3
  <2>4. CASE ~(a <= k - 1)
    BY <1>1, <1>2, <2>1, <2>4
  <2>5. QED
    BY <2>3, <2>4
<1>5. b \in T
  <2> HIDE DEF T
  <2>1. 0..n \subseteq T
    BY <1>1, <1>3, <1>4, UpTo
  <2>2. QED
    BY <1>2, <2>1
<1>6. QED
  BY <1>5 DEF s

(* The slots of a stretch of a text. *)
LEMMA SlotsBetween ==
  ASSUME NEW S, NEW t \in Seq(S), NEW e, NEW a \in 0..Len(t), NEW b \in 0..Len(t), a <= b
  PROVE  TextsOf!Slots(SubSeq(t, a + 1, b), e) = Sum(t, e)[b] - Sum(t, e)[a]
<1> DEFINE u == SubSeq(t, a + 1, b)
           n == b - a
           s == Sum(t, e)
           r == Sum(u, e)
           T == {k \in 0..n : r[k] = s[a + k] - s[a]}
<1>1. n \in Nat /\ a \in Nat /\ b \in Nat /\ b <= Len(t) /\ Len(t) \in Nat
  OBVIOUS
<1>2. u \in Seq(S)
  BY <1>1
<1>3. Len(u) = n
  BY <1>1
<1>4. ASSUME NEW k \in 1..n PROVE u[k] = t[a + k]
  BY <1>1
<1> HIDE DEF u
<1>5. s[0] = 0 /\ (\A k \in 0..Len(t) : s[k] \in Nat) /\ \A k \in 1..Len(t) : s[k] = s[k - 1] + Cost(t[k], e)
  BY SumFacts
<1>6. r[0] = 0 /\ (\A k \in 0..n : r[k] \in Nat) /\ \A k \in 1..n : r[k] = r[k - 1] + Cost(u[k], e)
  BY <1>2, <1>3, SumFacts
<1>7. TextsOf!Slots(u, e) = r[n]
  BY <1>2, <1>3, SumIs
<1> HIDE DEF s, r
<1>8. 0 \in T
  <2>1. a + 0 = a /\ s[a] \in Nat /\ s[a] - s[a] = 0
    BY <1>1, <1>5
  <2>2. QED
    BY <1>1, <1>6, <2>1
<1>9. ASSUME NEW k \in 1..n, k - 1 \in T PROVE k \in T
  <2>1. a + k \in 1..Len(t) /\ a + (k - 1) = a + k - 1 /\ a + k - 1 \in 0..Len(t) /\ a \in 0..Len(t)
    BY <1>1
  <2>2. s[a + k] = s[a + k - 1] + Cost(t[a + k], e)
    BY <1>5, <2>1
  <2>3. r[k] = r[k - 1] + Cost(t[a + k], e)
    BY <1>4, <1>6
  <2>4. r[k - 1] = s[a + k - 1] - s[a]
    BY <1>9, <2>1
  <2>5. Cost(t[a + k], e) \in Nat /\ s[a + k - 1] \in Nat /\ s[a] \in Nat
    BY <1>5, <2>1, CostIs
  <2>6. QED
    BY <2>2, <2>3, <2>4, <2>5
<1> HIDE DEF n
<1>10. n \in T
  <2> HIDE DEF T
  <2>1. 0..n \subseteq T
    BY <1>1, <1>8, <1>9, UpTo
  <2>2. QED
    BY <1>1, <2>1
<1>11. a + n = b
  BY <1>1 DEF n
<1>12. QED
  BY <1>7, <1>10, <1>11 DEF u, s

(* Two texts that begin alike have as many slots so far. *)
LEMMA SumAlike ==
  ASSUME NEW S, NEW t \in Seq(S), NEW u \in Seq(S), NEW e, NEW m \in 0..Len(t), m <= Len(u),
         \A k \in 1..m : t[k] = u[k]
  PROVE  Sum(t, e)[m] = Sum(u, e)[m]
<1> DEFINE s == Sum(t, e)
           r == Sum(u, e)
           T == {k \in 0..m : s[k] = r[k]}
<1>1. m \in Nat /\ m <= Len(t) /\ Len(t) \in Nat /\ Len(u) \in Nat
  OBVIOUS
<1>2. s[0] = 0 /\ \A k \in 1..Len(t) : s[k] = s[k - 1] + Cost(t[k], e)
  BY SumFacts
<1>3. r[0] = 0 /\ \A k \in 1..Len(u) : r[k] = r[k - 1] + Cost(u[k], e)
  BY SumFacts
<1> HIDE DEF s, r
<1>4. 0 \in T
  BY <1>1, <1>2, <1>3
<1>5. ASSUME NEW k \in 1..m, k - 1 \in T PROVE k \in T
  BY <1>1, <1>2, <1>3, <1>5
<1>6. m \in T
  <2> HIDE DEF T
  <2>1. 0..m \subseteq T
    BY <1>1, <1>4, <1>5, UpTo
  <2>2. QED
    BY <1>1, <2>1
<1>7. QED
  BY <1>6 DEF s, r

(* The parts of a text as they are filled. *)
Filling == [parts : Nat, used : Nat, begins : SUBSET Nat]

Filled(t, e, g) ==
  /\ g \in [0..Len(t) -> Filling] /\ g[0] = [parts |-> 1, used |-> 0, begins |-> {}]
  /\ \A k \in 1..Len(t) : g[k] = TextsOf!Place(g[k - 1], k, t[k], e)

Fill(t, e) == CHOOSE g : Filled(t, e, g)

LEMMA PlaceTyped ==
  ASSUME NEW v \in Filling, NEW k \in Nat, NEW c, NEW e
  PROVE  TextsOf!Place(v, k, c, e) \in Filling
<1>1. TextsOf!Cost(c, e) \in Nat
  BY CostIs DEF Cost
<1>2. v.parts \in Nat /\ v.used \in Nat /\ v.begins \in SUBSET Nat
  BY DEF Filling
<1>3. [parts |-> v.parts + 1, used |-> TextsOf!Cost(c, e), begins |-> v.begins \cup {k}] \in Filling
  BY <1>1, <1>2 DEF Filling
<1>4. [v EXCEPT !.used = @ + TextsOf!Cost(c, e)] \in Filling
  BY <1>1, <1>2 DEF Filling
<1>5. QED
  BY <1>3, <1>4 DEF TextsOf!Place

LEMMA FillIs ==
  ASSUME NEW S, NEW t \in Seq(S), NEW e
  PROVE  /\ Filled(t, e, Fill(t, e))
         /\ TextsOf!Segments(t, e) =
              IF TextsOf!Slots(t, e) <= TextsOf!Single(e)
              THEN [parts |-> 1, used |-> TextsOf!Slots(t, e), begins |-> {}] ELSE Fill(t, e)[Len(t)]
<1> DEFINE n == Len(t)
           a == [parts |-> 1, used |-> 0, begins |-> {}]
           F == CHOOSE f : f = [k \in 0..n |-> IF k = 0 THEN [parts |-> 1, used |-> 0, begins |-> {}]
                                               ELSE TextsOf!Place(f[k - 1], k, t[k], e)]
           G == [k \in 1..n |-> [v \in Filling |-> TextsOf!Place(v, k, t[k], e)]]
<1>1. n \in Nat /\ a \in Filling
  BY DEF Filling
<1>2. TextsOf!Segments(t, e) =
        IF TextsOf!Slots(t, e) <= TextsOf!Single(e)
        THEN [parts |-> 1, used |-> TextsOf!Slots(t, e), begins |-> {}] ELSE F[n]
  BY DEF TextsOf!Segments, n
<1> HIDE DEF n
<1>3. G \in [1..n -> [Filling -> Filling]]
  BY <1>1, PlaceTyped
<1>4. Unfolded(n, Filling, a, G)
  <2> HIDE DEF G, F, a
  <2>1. QED
    BY <1>1, <1>3, Unfolds, Zenon
<1>5. PICK s \in [0..n -> Filling] : s[0] = a /\ \A k \in 1..n : s[k] = G[k][s[k - 1]]
  BY <1>4 DEF Unfolded
<1>6. ASSUME NEW k \in 1..n PROVE s[k] = TextsOf!Place(s[k - 1], k, t[k], e)
  <2>1. k - 1 \in 0..n
    BY <1>1
  <2>2. s[k - 1] \in Filling
    BY <1>5, <2>1
  <2>3. QED
    BY <1>5, <2>2
<1> HIDE DEF G
<1>7. s = [k \in 0..n |-> IF k = 0 THEN a ELSE TextsOf!Place(s[k - 1], k, t[k], e)]
  <2> HIDE DEF a
  <2>1. \A k \in 0..n : k # 0 => k \in 1..n
    BY <1>1
  <2>2. QED
    BY <2>1, <1>5, <1>6
<1>8. F = [k \in 0..n |-> IF k = 0 THEN a ELSE TextsOf!Place(F[k - 1], k, t[k], e)]
  BY <1>7, Zenon
<1> HIDE DEF F
<1>9. Filled(t, e, s)
  BY <1>5, <1>6 DEF Filled, n
<1>10. Filled(t, e, Fill(t, e))
  BY <1>9 DEF Fill
<1> DEFINE u == Fill(t, e)
<1>11. u[0] = a /\ \A k \in 1..n : u[k] = TextsOf!Place(u[k - 1], k, t[k], e)
  BY <1>10 DEF Filled, n
<1> HIDE DEF u, a
<1> DEFINE T == {k \in 0..n : F[k] = u[k]}
<1>12. 0 \in T
  BY <1>1, <1>8, <1>11
<1>13. ASSUME NEW k \in 1..n, k - 1 \in T PROVE k \in T
  <2>1. k \in 0..n /\ k # 0 /\ F[k - 1] = u[k - 1]
    BY <1>1, <1>13
  <2>2. F[k] = TextsOf!Place(F[k - 1], k, t[k], e)
    BY <1>8, <2>1
  <2>3. QED
    BY <1>11, <2>1, <2>2
<1>14. F[n] = u[n]
  <2> HIDE DEF T
  <2>1. 0..n \subseteq T
    BY <1>1, <1>12, <1>13, UpTo
  <2>2. QED
    BY <1>1, <2>1 DEF T
<1>15. QED
  BY <1>2, <1>10, <1>14 DEF n, u

(* Least of a set of numbers. *)
LEMMA LeastOf ==
  ASSUME NEW X, X \subseteq Nat, X # {}
  PROVE  TextsOf!Min(X) \in X /\ \A y \in X : TextsOf!Min(X) <= y
<1>1. \E x \in X : \A y \in X : x <= y
  BY Smallest
<1>2. QED
  BY <1>1, Zenon DEF TextsOf!Min

(* The fewest parts of every beginning of a text. *)
Divided(t, e, f) ==
  /\ f[0] = 0 /\ \A n \in 0..Len(t) : f[n] \in Nat
  /\ \A n \in 1..Len(t) :
       /\ \E m \in 0..(n - 1) : Sum(t, e)[n] - Sum(t, e)[m] <= Room(e) /\ f[n] = 1 + f[m]
       /\ \A m \in 0..(n - 1) : Sum(t, e)[n] - Sum(t, e)[m] <= Room(e) => f[n] <= 1 + f[m]

LEMMA FewestIs ==
  ASSUME NEW S, NEW t \in Seq(S), NEW e
  PROVE  \E f : /\ Divided(t, e, f)
                /\ TextsOf!Fewest(t, e) = IF TextsOf!Slots(t, e) <= TextsOf!Single(e) THEN 1 ELSE f[Len(t)]
<1> DEFINE n == Len(t)
           K(j) == {k \in 0..j - 1 : TextsOf!Slots(SubSeq(t, k + 1, j), e) <= TextsOf!Multi(e)}
           F == CHOOSE f : f = [j \in 0..n |-> IF j = 0 THEN 0 ELSE 1 + TextsOf!Min({f[m] : m \in K(j)})]
<1>1. n \in Nat
  OBVIOUS
<1>2. TextsOf!Fewest(t, e) = IF TextsOf!Slots(t, e) <= TextsOf!Single(e) THEN 1 ELSE F[n]
  BY DEF TextsOf!Fewest, n, F, K
<1>3. ASSUME NEW j \in 1..n
      PROVE  /\ K(j) = {k \in 0..(j - 1) : Sum(t, e)[j] - Sum(t, e)[k] <= Room(e)}
             /\ j - 1 \in K(j)
  <2>1. ASSUME NEW k \in 0..(j - 1) PROVE TextsOf!Slots(SubSeq(t, k + 1, j), e) = Sum(t, e)[j] - Sum(t, e)[k]
    <3>1. k \in 0..Len(t) /\ j \in 0..Len(t) /\ k <= j
      BY <1>1
    <3>2. QED
      BY <3>1, SlotsBetween
  <2>2. K(j) = {k \in 0..(j - 1) : Sum(t, e)[j] - Sum(t, e)[k] <= Room(e)}
    BY <2>1 DEF Room
  <2>3. Sum(t, e)[j] = Sum(t, e)[j - 1] + Cost(t[j], e) /\ Sum(t, e)[j - 1] \in Nat
    BY <1>1, SumFacts
  <2>4. Sum(t, e)[j] - Sum(t, e)[j - 1] <= Room(e)
    BY <2>3, CostIs, RoomIs
  <2>5. j - 1 \in 0..(j - 1)
    BY <1>1
  <2> HIDE DEF K
  <2>6. QED
    BY <2>2, <2>4, <2>5
<1> DEFINE L(j) == {k \in 0..(j - 1) : Sum(t, e)[j] - Sum(t, e)[k] <= Room(e)}
<1>4. \A j \in 1..n : K(j) = L(j) /\ j - 1 \in L(j)
  BY <1>3
<1> HIDE DEF n, K
<1> DEFINE Made(m, f) ==
             /\ f \in [0..m -> Nat] /\ f[0] = 0
             /\ \A j \in 1..m : f[j] = 1 + TextsOf!Min({f[k] : k \in L(j)})
           T == {m \in 0..n : \E f : Made(m, f)}
<1>5. 0 \in T
  <2>1. Made(0, [j \in 0..0 |-> 0])
    OBVIOUS
  <2>2. 0 \in 0..n
    BY <1>1
  <2>3. QED
    BY <2>1, <2>2
<1>6. ASSUME NEW m \in 1..n, m - 1 \in T PROVE m \in T
  <2>1. PICK f : Made(m - 1, f)
    BY <1>6
  <2> DEFINE X == {f[k] : k \in L(m)}
             u == [j \in 0..m |-> IF j = m THEN 1 + TextsOf!Min(X) ELSE f[j]]
  <2>2. m - 1 \in L(m) /\ L(m) \subseteq 0..(m - 1)
    BY <1>4
  <2>3. X \subseteq Nat /\ X # {}
    BY <2>1, <2>2
  <2>4. TextsOf!Min(X) \in Nat
    <3> HIDE DEF X
    <3>1. QED
      BY <2>3, LeastOf
  <2> HIDE DEF X
  <2>5. m \in 0..n /\ m \in Nat /\ m # 0
    BY <1>1
  <2>6. \A j \in 0..m : j # m => j \in 0..(m - 1)
    BY <2>5
  <2>7. u \in [0..m -> Nat] /\ u[0] = 0
    BY <2>1, <2>4, <2>5, <2>6
  <2>8. \A j \in 0..(m - 1) : u[j] = f[j]
    BY <2>5
  <2>9. u[m] = 1 + TextsOf!Min(X)
    BY <2>5
  <2> HIDE DEF u
  <2>10. ASSUME NEW j \in 1..m PROVE u[j] = 1 + TextsOf!Min({u[k] : k \in L(j)})
    <3>1. L(j) \subseteq 0..(m - 1)
      BY <2>5
    <3>2. {u[k] : k \in L(j)} = {f[k] : k \in L(j)}
      BY <3>1, <2>8
    <3>3. CASE j = m
      BY <2>9, <3>2, <3>3 DEF X
    <3>4. CASE j # m
      <4>1. j \in 1..(m - 1) /\ j \in 0..(m - 1)
        BY <2>5, <3>4
      <4>2. f[j] = 1 + TextsOf!Min({f[k] : k \in L(j)})
        BY <2>1, <4>1
      <4>3. QED
        BY <2>8, <3>2, <4>1, <4>2
    <3>5. QED
      BY <3>3, <3>4
  <2>11. Made(m, u)
    BY <2>7, <2>10
  <2>12. QED
    BY <2>5, <2>11
<1>7. n \in T
  <2> HIDE DEF T
  <2>1. 0..n \subseteq T
    BY <1>1, <1>5, <1>6, UpTo
  <2>2. QED
    BY <1>1, <2>1
<1>8. PICK g : Made(n, g)
  BY <1>7
<1>9. g = [j \in 0..n |-> IF j = 0 THEN 0 ELSE 1 + TextsOf!Min({g[m] : m \in K(j)})]
  <2>1. ASSUME NEW j \in 0..n, j # 0 PROVE g[j] = 1 + TextsOf!Min({g[m] : m \in K(j)})
    <3>1. j \in 1..n
      BY <1>1, <2>1
    <3>2. K(j) = L(j)
      BY <1>4, <3>1
    <3>3. g[j] = 1 + TextsOf!Min({g[k] : k \in L(j)})
      BY <1>8, <3>1
    <3>4. QED
      BY <3>2, <3>3
  <2>2. g \in [0..n -> Nat] /\ g[0] = 0
    BY <1>8
  <2>3. QED
    BY <2>1, <2>2
<1>10. F = [j \in 0..n |-> IF j = 0 THEN 0 ELSE 1 + TextsOf!Min({F[m] : m \in K(j)})]
  BY <1>9, Zenon
<1> HIDE DEF F
<1>11. F[0] = 0
  BY <1>1, <1>10
<1>12. ASSUME NEW j \in 1..n PROVE F[j] = 1 + TextsOf!Min({F[m] : m \in L(j)})
  <2>1. j \in 0..n /\ j # 0
    BY <1>1
  <2>2. F[j] = 1 + TextsOf!Min({F[m] : m \in K(j)})
    BY <1>10, <2>1
  <2>3. K(j) = L(j)
    BY <1>4
  <2>4. QED
    BY <2>2, <2>3
<1> DEFINE V == {m \in 0..n : \A j \in 0..m : F[j] \in Nat}
<1>13. 0 \in V
  BY <1>1, <1>11
<1>14. ASSUME NEW m \in 1..n, m - 1 \in V PROVE m \in V
  <2> DEFINE X == {F[k] : k \in L(m)}
  <2>1. m - 1 \in L(m) /\ L(m) \subseteq 0..(m - 1) /\ \A j \in 0..(m - 1) : F[j] \in Nat
    BY <1>4, <1>14
  <2>2. X \subseteq Nat /\ X # {}
    BY <2>1
  <2>3. F[m] = 1 + TextsOf!Min(X)
    BY <1>12
  <2> HIDE DEF X
  <2>4. F[m] \in Nat
    <3>1. TextsOf!Min(X) \in Nat
      BY <2>2, LeastOf
    <3>2. QED
      BY <2>3, <3>1
  <2>5. \A j \in 0..m : j = m \/ j \in 0..(m - 1)
    BY <1>1
  <2>6. m \in 0..n
    BY <1>1
  <2>7. QED
    BY <2>1, <2>4, <2>5, <2>6
<1>15. \A j \in 0..n : F[j] \in Nat
  <2> HIDE DEF V
  <2>1. 0..n \subseteq V
    BY <1>1, <1>13, <1>14, UpTo
  <2>2. n \in V
    BY <1>1, <2>1
  <2>3. QED
    BY <2>2 DEF V
<1>16. ASSUME NEW j \in 1..n
       PROVE  /\ \E m \in 0..(j - 1) : Sum(t, e)[j] - Sum(t, e)[m] <= Room(e) /\ F[j] = 1 + F[m]
              /\ \A m \in 0..(j - 1) : Sum(t, e)[j] - Sum(t, e)[m] <= Room(e) => F[j] <= 1 + F[m]
  <2> DEFINE X == {F[k] : k \in L(j)}
  <2>1. j - 1 \in L(j) /\ L(j) \subseteq 0..n
    BY <1>1, <1>4
  <2>2. X \subseteq Nat /\ X # {}
    BY <1>15, <2>1
  <2>3. F[j] = 1 + TextsOf!Min(X)
    BY <1>12
  <2> HIDE DEF X
  <2>4. TextsOf!Min(X) \in X /\ \A y \in X : TextsOf!Min(X) <= y
    BY <2>2, LeastOf
  <2>5. PICK m \in L(j) : TextsOf!Min(X) = F[m]
    BY <2>4 DEF X
  <2>6. \A k \in L(j) : TextsOf!Min(X) <= F[k] /\ F[k] \in Nat /\ TextsOf!Min(X) \in Nat
    BY <2>2, <2>4 DEF X
  <2>7. QED
    BY <2>3, <2>5, <2>6
<1>17. Divided(t, e, F)
  BY <1>11, <1>15, <1>16 DEF Divided, n
<1>18. QED
  BY <1>2, <1>17 DEF n

LEMMA FillStarts ==
  ASSUME NEW S, NEW t \in Seq(S), NEW e
  PROVE  /\ Fill(t, e)[0].parts = 1 /\ Fill(t, e)[0].used = 0 /\ Fill(t, e)[0].begins = {}
         /\ \A k \in 0..Len(t) : /\ Fill(t, e)[k].parts \in Nat /\ Fill(t, e)[k].used \in Nat
                                 /\ Fill(t, e)[k].begins \subseteq Nat
<1> DEFINE g == Fill(t, e)
<1>1. g \in [0..Len(t) -> Filling] /\ g[0] = [parts |-> 1, used |-> 0, begins |-> {}]
  BY FillIs DEF Filled
<1>2. \A v \in Filling : v.parts \in Nat /\ v.used \in Nat /\ v.begins \subseteq Nat
  BY DEF Filling
<1> HIDE DEF g
<1>3. QED
  BY <1>1, <1>2 DEF g

LEMMA FillStep ==
  ASSUME NEW S, NEW t \in Seq(S), NEW e, NEW k \in 1..Len(t)
  PROVE  LET v == Fill(t, e)[k - 1]
             w == Fill(t, e)[k]
             c == Cost(t[k], e)
         IN \/ /\ v.used + c > Room(e)
               /\ w.parts = v.parts + 1 /\ w.used = c /\ w.begins = v.begins \cup {k}
            \/ /\ v.used + c <= Room(e)
               /\ w.parts = v.parts /\ w.used = v.used + c /\ w.begins = v.begins
<1> DEFINE v == Fill(t, e)[k - 1]
           w == Fill(t, e)[k]
           c == Cost(t[k], e)
<1>1. w = TextsOf!Place(v, k, t[k], e) /\ v \in Filling
  BY FillIs DEF Filled
<1>2. v.used \in Nat /\ c \in Nat /\ Room(e) \in Nat
  BY <1>1, CostIs, RoomIs DEF Filling
<1>3. TextsOf!Full(v.used, t[k], e) <=> v.used + c > Room(e)
  BY DEF TextsOf!Full, Cost, Room
<1>4. CASE v.used + c > Room(e)
  BY <1>1, <1>3, <1>4 DEF TextsOf!Place, Cost
<1>5. CASE v.used + c <= Room(e)
  <2>1. w = [v EXCEPT !.used = @ + c]
    BY <1>1, <1>2, <1>3, <1>5 DEF TextsOf!Place, Cost
  <2> HIDE DEF c, w, v
  <2>2. w.parts = v.parts /\ w.used = v.used + c /\ w.begins = v.begins
    BY <1>1, <2>1 DEF Filling
  <2>3. QED
    BY <1>5, <2>2 DEF v, w, c
<1>6. QED
  BY <1>2, <1>4, <1>5

(* What is so after every character: of the parts none is over its room,   *)
(* and before the last one there are no fewer ways to divide.              *)
FillSound(t, e, f, k) ==
  LET g == Fill(t, e)[k]
      s == Sum(t, e)
  IN /\ g.parts >= 1 /\ g.begins \subseteq 1..k
     /\ \E last \in g.begins \cup {1} :
          /\ \A x \in g.begins : x <= last
          /\ last = 1 \/ last <= k
          /\ g.used = s[k] - s[last - 1] /\ g.used <= Room(e)
          /\ f[last - 1] <= g.parts - 1
     /\ \A b \in g.begins \cup {1} : \A m \in b..k :
          (\A x \in g.begins : x <= b \/ x > m) => s[m] - s[b - 1] <= Room(e)

LEMMA FillHolds ==
  ASSUME NEW S, NEW t \in Seq(S), NEW e, NEW f, Divided(t, e, f), NEW n \in 0..Len(t)
  PROVE  FillSound(t, e, f, n)
<1> DEFINE N == Len(t)
           s == Sum(t, e)
           R == Room(e)
           T == {k \in 0..N : FillSound(t, e, f, k)}
<1>1. N \in Nat /\ R \in Nat /\ R >= 2 /\ n \in 0..N
  BY RoomIs
<1>2. s[0] = 0 /\ (\A k \in 0..N : s[k] \in Nat) /\ \A k \in 1..N : s[k] = s[k - 1] + Cost(t[k], e)
  BY SumFacts
<1>3. /\ f[0] = 0 /\ \A k \in 0..N : f[k] \in Nat
      /\ \A k \in 1..N : \A m \in 0..(k - 1) : s[k] - s[m] <= R => f[k] <= 1 + f[m]
  BY DEF Divided
<1>4. /\ Fill(t, e)[0].parts = 1 /\ Fill(t, e)[0].used = 0 /\ Fill(t, e)[0].begins = {}
      /\ \A k \in 0..N : Fill(t, e)[k].parts \in Nat /\ Fill(t, e)[k].used \in Nat
  BY FillStarts
<1>5. ASSUME NEW k \in 1..N
      PROVE  LET v == Fill(t, e)[k - 1]
                 w == Fill(t, e)[k]
                 c == Cost(t[k], e)
             IN \/ /\ v.used + c > R
                   /\ w.parts = v.parts + 1 /\ w.used = c /\ w.begins = v.begins \cup {k}
                \/ /\ v.used + c <= R
                   /\ w.parts = v.parts /\ w.used = v.used + c /\ w.begins = v.begins
  BY FillStep
<1> HIDE DEF s, R, N
<1>6. 0 \in T
  <2> DEFINE g == Fill(t, e)[0]
  <2>1. g.parts >= 1 /\ g.begins \subseteq 1..0 /\ g.used = s[0] - s[1 - 1] /\ g.used <= R /\ f[1 - 1] <= g.parts - 1
    BY <1>1, <1>2, <1>3, <1>4
  <2>2. g.begins = {} /\ 0 \in 0..N
    BY <1>1, <1>4
  <2> HIDE DEF g
  <2>3. \A b \in g.begins \cup {1} : b..0 = {}
    BY <2>2
  <2>4. QED
    BY <2>1, <2>2, <2>3 DEF FillSound, s, R, g
<1>7. ASSUME NEW k \in 1..N, k - 1 \in T PROVE k \in T
  <2> DEFINE v == Fill(t, e)[k - 1]
             w == Fill(t, e)[k]
             c == Cost(t[k], e)
  <2>1. k - 1 \in 0..N /\ k \in 0..N /\ k \in Nat
    BY <1>1
  <2>2. /\ v.parts >= 1 /\ v.begins \subseteq 1..(k - 1)
        /\ \E last \in v.begins \cup {1} :
             /\ \A x \in v.begins : x <= last
             /\ last = 1 \/ last <= k - 1
             /\ v.used = s[k - 1] - s[last - 1] /\ v.used <= R
             /\ f[last - 1] <= v.parts - 1
        /\ \A b \in v.begins \cup {1} : \A m \in b..(k - 1) :
             (\A x \in v.begins : x <= b \/ x > m) => s[m] - s[b - 1] <= R
    BY <1>7 DEF FillSound, s, R
  <2>3. /\ v.parts \in Nat /\ v.used \in Nat /\ c \in {1, 2} /\ s[k] = s[k - 1] + c
        /\ s[k] \in Nat /\ s[k - 1] \in Nat
    BY <1>2, <1>4, <2>1, CostIs
  <2>4. \/ /\ v.used + c > R
           /\ w.parts = v.parts + 1 /\ w.used = c /\ w.begins = v.begins \cup {k}
        \/ /\ v.used + c <= R
           /\ w.parts = v.parts /\ w.used = v.used + c /\ w.begins = v.begins
    BY <1>5
  <2> HIDE DEF v, w, c
  <2>5. PICK last \in v.begins \cup {1} :
          /\ \A x \in v.begins : x <= last
          /\ last = 1 \/ last <= k - 1
          /\ v.used = s[k - 1] - s[last - 1] /\ v.used <= R
          /\ f[last - 1] <= v.parts - 1
    BY <2>2
  <2>6. last \in 1..k /\ last - 1 \in 0..(k - 1) /\ last - 1 \in 0..N /\ s[last - 1] \in Nat /\ f[last - 1] \in Nat
    BY <1>1, <1>2, <1>3, <2>1, <2>2, <2>5
  <2> DEFINE Sound == /\ w.parts >= 1 /\ w.begins \subseteq 1..k
                      /\ \E l \in w.begins \cup {1} :
                           /\ \A x \in w.begins : x <= l
                           /\ l = 1 \/ l <= k
                           /\ w.used = s[k] - s[l - 1] /\ w.used <= R
                           /\ f[l - 1] <= w.parts - 1
                      /\ \A b \in w.begins \cup {1} : \A m \in b..k :
                           (\A x \in w.begins : x <= b \/ x > m) => s[m] - s[b - 1] <= R
  <2>7. CASE v.used + c <= R /\ w.parts = v.parts /\ w.used = v.used + c /\ w.begins = v.begins
    <3>1. w.used = s[k] - s[last - 1] /\ w.used <= R
      BY <2>3, <2>5, <2>6, <2>7
    <3>2. w.parts >= 1 /\ w.begins \subseteq 1..k
      BY <2>1, <2>2, <2>7
    <3>3. ASSUME NEW b \in w.begins \cup {1}, NEW m \in b..k, \A x \in w.begins : x <= b \/ x > m
          PROVE  s[m] - s[b - 1] <= R
      <4>1. CASE m \in b..(k - 1)
        BY <2>2, <2>7, <3>3, <4>1
      <4>2. CASE m = k
        <5>1. b = last
          BY <2>1, <2>2, <2>5, <2>6, <2>7, <3>3, <4>2
        <5>2. QED
          BY <3>1, <4>2, <5>1
      <4>3. QED
        BY <2>1, <2>2, <2>7, <4>1, <4>2
    <3>4. last \in w.begins \cup {1} /\ (\A x \in w.begins : x <= last) /\ (last = 1 \/ last <= k)
          /\ f[last - 1] <= w.parts - 1
      BY <2>1, <2>5, <2>6, <2>7
    <3>5. Sound
      BY <3>1, <3>2, <3>3, <3>4
    <3>6. QED
      BY <2>1, <3>5 DEF FillSound, s, R, w
  <2>8. CASE v.used + c > R /\ w.parts = v.parts + 1 /\ w.used = c /\ w.begins = v.begins \cup {k}
    <3>1. w.used = s[k] - s[k - 1] /\ w.used <= R
      BY <1>1, <2>3, <2>8
    <3>2. w.parts >= 1 /\ w.begins \subseteq 1..k
      BY <2>1, <2>2, <2>3, <2>8
    <3>3. f[k - 1] <= w.parts - 1
      <4>1. CASE k - 1 = 0
        BY <1>3, <2>2, <2>3, <2>8, <4>1
      <4>2. CASE k - 1 # 0
        <5>1. k - 1 \in 1..N /\ last - 1 \in 0..(k - 1 - 1)
          BY <1>1, <2>1, <2>5, <2>6, <4>2
        <5>2. s[k - 1] - s[last - 1] <= R
          BY <2>5
        <5>3. f[k - 1] <= 1 + f[last - 1]
          BY <1>3, <5>1, <5>2
        <5>4. f[k - 1] \in Nat
          BY <1>3, <2>1
        <5>5. QED
          BY <2>3, <2>5, <2>6, <2>8, <5>3, <5>4
      <4>3. QED
        BY <4>1, <4>2
    <3>4. ASSUME NEW b \in w.begins \cup {1}, NEW m \in b..k, \A x \in w.begins : x <= b \/ x > m
          PROVE  s[m] - s[b - 1] <= R
      <4>1. CASE b = k
        BY <2>1, <3>1, <4>1
      <4>2. CASE b # k
        <5>1. k \in w.begins /\ b \in v.begins \cup {1} /\ b \in Nat
          BY <2>1, <2>2, <2>8, <4>2
        <5>2. m \in b..(k - 1)
          BY <2>1, <3>4, <4>2, <5>1
        <5>3. \A x \in v.begins : x <= b \/ x > m
          BY <2>8, <3>4
        <5>4. QED
          BY <2>2, <5>1, <5>2, <5>3
      <4>3. QED
        BY <4>1, <4>2
    <3>5. k \in w.begins /\ \A x \in w.begins : x <= k
      BY <2>1, <2>2, <2>8
    <3>6. Sound
      BY <2>1, <3>1, <3>2, <3>3, <3>4, <3>5
    <3>7. QED
      BY <2>1, <3>6 DEF FillSound, s, R, w
  <2>9. QED
    BY <2>4, <2>7, <2>8
<1>8. n \in T
  <2> HIDE DEF T
  <2>1. 0..N \subseteq T
    BY <1>1, <1>6, <1>7, UpTo
  <2>2. QED
    BY <1>1, <2>1
<1>9. QED
  BY <1>8

(* A stretch that has room in a part makes one part more, at most.         *)
LEMMA OnePartMore ==
  ASSUME NEW S, NEW t \in Seq(S), NEW e, NEW m \in 0..Len(t), NEW n \in 0..Len(t), m <= n,
         Sum(t, e)[n] - Sum(t, e)[m] <= Room(e)
  PROVE  Fill(t, e)[n].parts <= Fill(t, e)[m].parts + 1
<1> DEFINE N == Len(t)
           s == Sum(t, e)
           R == Room(e)
           g == Fill(t, e)
           A(k) == g[k].parts = g[m].parts
           B(k) == g[k].parts = g[m].parts + 1 /\ g[k].used <= s[k] - s[m]
           C(k) == s[k] - s[m] > R
           T == {k \in 0..N : m <= k => A(k) \/ B(k) \/ C(k)}
<1>1. N \in Nat /\ R \in Nat /\ m \in 0..N /\ n \in 0..N /\ m \in Nat
  BY RoomIs
<1>2. (\A k \in 0..N : s[k] \in Nat) /\ \A k \in 1..N : s[k] = s[k - 1] + Cost(t[k], e)
  BY SumFacts
<1>3. \A k \in 0..N : g[k].parts \in Nat /\ g[k].used \in Nat
  BY FillStarts
<1>4. \A k \in 1..N :
        \/ g[k - 1].used + Cost(t[k], e) > R /\ g[k].parts = g[k - 1].parts + 1 /\ g[k].used = Cost(t[k], e)
        \/ /\ g[k - 1].used + Cost(t[k], e) <= R
           /\ g[k].parts = g[k - 1].parts /\ g[k].used = g[k - 1].used + Cost(t[k], e)
  BY FillStep
<1>5. \A a, b \in 0..N : a <= b => s[a] <= s[b]
  BY SumGrows
<1>6. s[n] - s[m] <= R /\ m <= n
  OBVIOUS
<1> HIDE DEF N, s, R, g
<1>7. 0 \in T
  BY <1>1
<1>8. ASSUME NEW k \in 1..N, k - 1 \in T PROVE k \in T
  <2> DEFINE c == Cost(t[k], e)
  <2>1. k \in 0..N /\ k - 1 \in 0..N /\ k \in Nat
    BY <1>1
  <2>2. /\ c \in {1, 2} /\ s[k] = s[k - 1] + c /\ s[k] \in Nat /\ s[k - 1] \in Nat /\ s[m] \in Nat
        /\ g[k].parts \in Nat /\ g[k].used \in Nat /\ g[k - 1].parts \in Nat /\ g[k - 1].used \in Nat
        /\ g[m].parts \in Nat
    BY <1>1, <1>2, <1>3, <2>1, CostIs
  <2>3. \/ g[k - 1].used + c > R /\ g[k].parts = g[k - 1].parts + 1 /\ g[k].used = c
        \/ g[k - 1].used + c <= R /\ g[k].parts = g[k - 1].parts /\ g[k].used = g[k - 1].used + c
    BY <1>4
  <2> HIDE DEF c
  <2>4. CASE m <= k - 1
    <3>1. A(k - 1) \/ B(k - 1) \/ C(k - 1)
      BY <1>8, <2>4
    <3>2. s[m] <= s[k - 1]
      BY <1>1, <1>5, <2>1, <2>4
    <3>3. A(k) \/ B(k) \/ C(k)
      <4>1. CASE A(k - 1)
        BY <2>2, <2>3, <3>2, <4>1
      <4>2. CASE B(k - 1)
        <5>1. CASE g[k - 1].used + c > R
          BY <1>1, <2>2, <4>2, <5>1
        <5>2. CASE g[k].parts = g[k - 1].parts /\ g[k].used = g[k - 1].used + c
          BY <2>2, <4>2, <5>2
        <5>3. QED
          BY <2>3, <5>1, <5>2
      <4>3. CASE C(k - 1)
        BY <1>1, <2>2, <4>3
      <4>4. QED
        BY <3>1, <4>1, <4>2, <4>3
    <3>4. QED
      BY <2>1, <3>3
  <2>5. CASE ~(m <= k - 1)
    <3>1. m <= k => m = k
      BY <1>1, <2>1, <2>5
    <3>2. QED
      BY <2>1, <3>1
  <2>6. QED
    BY <2>4, <2>5
<1>9. n \in T
  <2> HIDE DEF T
  <2>1. 0..N \subseteq T
    BY <1>1, <1>7, <1>8, UpTo
  <2>2. QED
    BY <1>1, <2>1
<1>10. g[n].parts \in Nat /\ g[m].parts \in Nat /\ s[n] \in Nat /\ s[m] \in Nat
  BY <1>1, <1>2, <1>3
<1>11. g[n].parts <= g[m].parts + 1
  BY <1>1, <1>6, <1>9, <1>10
<1>12. QED
  BY <1>11 DEF g

LEMMA FirstPart ==
  ASSUME NEW S, NEW t \in Seq(S), NEW e, NEW n \in 0..Len(t), Sum(t, e)[n] <= Room(e)
  PROVE  Fill(t, e)[n].parts = 1
<1> DEFINE N == Len(t)
           s == Sum(t, e)
           R == Room(e)
           g == Fill(t, e)
           T == {k \in 0..N : (g[k].parts = 1 /\ g[k].used = s[k]) \/ s[k] > R}
<1>1. N \in Nat /\ R \in Nat /\ n \in 0..N
  BY RoomIs
<1>2. s[0] = 0 /\ (\A k \in 0..N : s[k] \in Nat) /\ \A k \in 1..N : s[k] = s[k - 1] + Cost(t[k], e)
  BY SumFacts
<1>3. g[0].parts = 1 /\ g[0].used = 0 /\ \A k \in 0..N : g[k].parts \in Nat /\ g[k].used \in Nat
  BY FillStarts
<1>4. \A k \in 1..N :
        \/ g[k - 1].used + Cost(t[k], e) > R /\ g[k].parts = g[k - 1].parts + 1 /\ g[k].used = Cost(t[k], e)
        \/ /\ g[k - 1].used + Cost(t[k], e) <= R
           /\ g[k].parts = g[k - 1].parts /\ g[k].used = g[k - 1].used + Cost(t[k], e)
  BY FillStep
<1>5. s[n] <= R
  OBVIOUS
<1> HIDE DEF N, s, R, g
<1>6. 0 \in T
  BY <1>1, <1>2, <1>3
<1>7. ASSUME NEW k \in 1..N, k - 1 \in T PROVE k \in T
  <2> DEFINE c == Cost(t[k], e)
  <2>1. k \in 0..N /\ k - 1 \in 0..N
    BY <1>1
  <2>2. c \in {1, 2} /\ s[k] = s[k - 1] + c /\ s[k] \in Nat /\ s[k - 1] \in Nat
    BY <1>2, <2>1, CostIs
  <2>3. \/ g[k - 1].used + c > R /\ g[k].parts = g[k - 1].parts + 1 /\ g[k].used = c
        \/ g[k - 1].used + c <= R /\ g[k].parts = g[k - 1].parts /\ g[k].used = g[k - 1].used + c
    BY <1>4
  <2> HIDE DEF c
  <2>4. (g[k - 1].parts = 1 /\ g[k - 1].used = s[k - 1]) \/ s[k - 1] > R
    BY <1>7
  <2>5. QED
    BY <1>1, <2>1, <2>2, <2>3, <2>4
<1>8. n \in T
  <2> HIDE DEF T
  <2>1. 0..N \subseteq T
    BY <1>1, <1>6, <1>7, UpTo
  <2>2. QED
    BY <1>1, <2>1
<1>9. g[n].parts = 1
  BY <1>1, <1>2, <1>5, <1>8
<1>10. QED
  BY <1>9 DEF g

(* Nobody divides a beginning of the text into fewer parts than the ones   *)
(* that are filled one after the other.                                    *)
LEMMA NoFewer ==
  ASSUME NEW S, NEW t \in Seq(S), NEW e, NEW f, Divided(t, e, f), NEW n \in 1..Len(t)
  PROVE  Fill(t, e)[n].parts <= f[n]
<1> DEFINE N == Len(t)
           s == Sum(t, e)
           g == Fill(t, e)
           T == {k \in 0..N : \A j \in 1..k : g[j].parts <= f[j]}
<1>1. N \in Nat /\ n \in 1..N /\ s[0] = 0 /\ \A k \in 0..N : s[k] \in Nat
  BY SumFacts
<1>2. /\ f[0] = 0 /\ \A k \in 0..N : f[k] \in Nat
      /\ \A k \in 1..N : \E m \in 0..(k - 1) : s[k] - s[m] <= Room(e) /\ f[k] = 1 + f[m]
  BY DEF Divided
<1>3. \A k \in 0..N : g[k].parts \in Nat
  BY FillStarts
<1>4. \A m, k \in 0..N : m <= k /\ s[k] - s[m] <= Room(e) => g[k].parts <= g[m].parts + 1
  BY OnePartMore
<1>5. \A k \in 0..N : s[k] <= Room(e) => g[k].parts = 1
  BY FirstPart
<1> HIDE DEF N, s, g
<1>6. 0 \in T
  BY <1>1
<1>7. ASSUME NEW k \in 1..N, k - 1 \in T PROVE k \in T
  <2>1. k \in 0..N
    BY <1>1
  <2>2. PICK m \in 0..(k - 1) : s[k] - s[m] <= Room(e) /\ f[k] = 1 + f[m]
    BY <1>2
  <2>3. m \in 0..N /\ m <= k
    BY <1>1, <2>2
  <2>4. g[k].parts <= f[k]
    <3>1. CASE m = 0
      BY <1>1, <1>2, <1>5, <2>1, <2>2, <3>1
    <3>2. CASE m # 0
      <4>1. m \in 1..(k - 1)
        BY <2>2, <3>2
      <4>2. g[m].parts <= f[m]
        BY <1>7, <4>1
      <4>3. g[k].parts <= g[m].parts + 1
        BY <1>4, <2>1, <2>2, <2>3
      <4>4. f[m] \in Nat /\ g[m].parts \in Nat /\ g[k].parts \in Nat
        BY <1>2, <1>3, <2>1, <2>3
      <4>5. QED
        BY <2>2, <4>2, <4>3, <4>4
    <3>3. QED
      BY <3>1, <3>2
  <2>5. \A j \in 1..k : j = k \/ j \in 1..(k - 1)
    BY <1>1
  <2>6. \A j \in 1..(k - 1) : g[j].parts <= f[j]
    BY <1>7
  <2>7. QED
    BY <2>1, <2>4, <2>5, <2>6
<1>8. N \in T
  <2> HIDE DEF T
  <2>1. 0..N \subseteq T
    BY <1>1, <1>6, <1>7, UpTo
  <2>2. QED
    BY <1>1, <2>1
<1>9. g[n].parts <= f[n]
  BY <1>1, <1>8
<1>10. QED
  BY <1>9 DEF g

(* segmentText: its parts are the fewest, and none is over its room.       *)
LEMMA FilledAreFewest ==
  ASSUME NEW S, NEW t \in Seq(S), NEW e
  PROVE  LET g == TextsOf!Segments(t, e)
         IN /\ g.parts = TextsOf!Fewest(t, e) /\ g.parts \in Nat /\ g.parts >= 1
            /\ g.parts > 1 => TextsOf!Holds(t, g.begins, e)
<1> DEFINE g == TextsOf!Segments(t, e)
           n == Len(t)
           s == Sum(t, e)
<1>1. PICK f : /\ Divided(t, e, f)
               /\ TextsOf!Fewest(t, e) = IF TextsOf!Slots(t, e) <= TextsOf!Single(e) THEN 1 ELSE f[Len(t)]
  BY FewestIs
<1>2. g = IF TextsOf!Slots(t, e) <= TextsOf!Single(e)
          THEN [parts |-> 1, used |-> TextsOf!Slots(t, e), begins |-> {}] ELSE Fill(t, e)[n]
  BY FillIs
<1>3. n \in Nat /\ TextsOf!Slots(t, e) = s[n] /\ s[0] = 0 /\ \A k \in 0..n : s[k] \in Nat
  BY SumIs, SumFacts
<1>4. TextsOf!Single(e) \in Nat
  BY RoomIs
<1> HIDE DEF g, n, s
<1>5. CASE TextsOf!Slots(t, e) <= TextsOf!Single(e)
  <2>1. g.parts = 1 /\ TextsOf!Fewest(t, e) = 1
    BY <1>1, <1>2, <1>5
  <2>2. QED
    BY <2>1 DEF g
<1>6. CASE ~(TextsOf!Slots(t, e) <= TextsOf!Single(e))
  <2> DEFINE w == Fill(t, e)[n]
  <2>1. n \in 1..n /\ n \in 0..n
    BY <1>3, <1>4, <1>6
  <2>2. g = w /\ TextsOf!Fewest(t, e) = f[n]
    BY <1>1, <1>2, <1>6 DEF n
  <2>3. w.parts <= f[n]
    BY <1>1, <2>1, NoFewer DEF n
  <2>4. FillSound(t, e, f, n)
    BY <1>1, <2>1, FillHolds DEF n
  <2>5. w.parts \in Nat
    BY <2>1, FillStarts DEF n
  <2>6. f[n] \in Nat /\ \A m \in 0..(n - 1) : s[n] - s[m] <= Room(e) => f[n] <= 1 + f[m]
    BY <1>1, <2>1 DEF Divided, n, s
  <2> HIDE DEF w
  <2>7. /\ w.parts >= 1 /\ w.begins \subseteq 1..n
        /\ \E last \in w.begins \cup {1} :
             /\ last = 1 \/ last <= n
             /\ w.used = s[n] - s[last - 1] /\ w.used <= Room(e)
             /\ f[last - 1] <= w.parts - 1
        /\ \A b \in w.begins \cup {1} : \A m \in b..n :
             (\A x \in w.begins : x <= b \/ x > m) => s[m] - s[b - 1] <= Room(e)
    BY <2>4 DEF FillSound, w, s
  <2>8. f[n] <= w.parts
    <3>1. PICK last \in w.begins \cup {1} :
            /\ last = 1 \/ last <= n
            /\ w.used = s[n] - s[last - 1] /\ w.used <= Room(e)
            /\ f[last - 1] <= w.parts - 1
      BY <2>7
    <3>2. last - 1 \in 0..(n - 1) /\ last - 1 \in 0..n
      BY <2>1, <2>7, <3>1
    <3>3. f[n] <= 1 + f[last - 1]
      BY <2>6, <3>1, <3>2
    <3>4. f[last - 1] \in Nat
      BY <1>1, <3>2 DEF Divided, n
    <3>5. QED
      BY <2>5, <2>6, <3>1, <3>3, <3>4
  <2>9. ASSUME NEW b \in w.begins \cup {1}
        PROVE  TextsOf!Slots(SubSeq(t, b, TextsOf!Min({a - 1 : a \in {x \in w.begins : x > b} \cup {Len(t) + 1}})), e)
                 <= TextsOf!Multi(e)
    <3> DEFINE X == {a - 1 : a \in {x \in w.begins : x > b} \cup {Len(t) + 1}}
               m == TextsOf!Min(X)
    <3>1. b \in 1..n
      BY <2>1, <2>7
    <3>2. X \subseteq b..n /\ n \in X
      <4>1. ASSUME NEW x \in w.begins, x > b PROVE x - 1 \in b..n
        BY <1>3, <2>7, <3>1, <4>1
      <4>2. Len(t) + 1 - 1 = n /\ n \in b..n
        BY <1>3, <3>1 DEF n
      <4>3. Len(t) + 1 - 1 \in X
        <5> DEFINE z == Len(t) + 1
                   Y == {x \in w.begins : x > b} \cup {z}
        <5>1. z \in Y
          OBVIOUS
        <5> HIDE DEF z, Y
        <5>2. z - 1 \in {a - 1 : a \in Y}
          BY <5>1
        <5>3. QED
          BY <5>2 DEF z, Y
      <4>4. \A y \in X : (\E x \in w.begins : x > b /\ y = x - 1) \/ y = Len(t) + 1 - 1
        OBVIOUS
      <4> HIDE DEF X
      <4>5. QED
        BY <4>1, <4>2, <4>3, <4>4
    <3>3. \A x \in w.begins : x > b => x - 1 \in X
      OBVIOUS
    <3> HIDE DEF X
    <3>4. X \subseteq Nat /\ X # {}
      BY <3>1, <3>2
    <3>5. m \in X /\ \A y \in X : m <= y
      BY <3>4, LeastOf
    <3> HIDE DEF m
    <3>6. m \in b..n
      BY <3>2, <3>5
    <3>7. \A x \in w.begins : x <= b \/ x > m
      <4> SUFFICES ASSUME NEW x \in w.begins, x > b PROVE x > m
        BY <2>7, <3>1
      <4>1. m <= x - 1
        BY <3>3, <3>5
      <4>2. QED
        BY <2>7, <3>6, <4>1
    <3>8. s[m] - s[b - 1] <= Room(e)
      BY <2>7, <3>6, <3>7
    <3>9. b - 1 \in 0..Len(t) /\ m \in 0..Len(t) /\ b - 1 <= m /\ (b - 1) + 1 = b
      BY <1>3, <3>1, <3>6 DEF n
    <3>10. TextsOf!Slots(SubSeq(t, b, m), e) = s[m] - s[b - 1]
      BY <3>9, SlotsBetween DEF s
    <3>11. TextsOf!Slots(SubSeq(t, b, m), e) <= TextsOf!Multi(e)
      BY <3>8, <3>10 DEF Room
    <3>12. QED
      BY <3>11 DEF m, X
  <2>10. TextsOf!Holds(t, w.begins, e)
    BY <2>9 DEF TextsOf!Holds, TextsOf!Pieces
  <2>11. w.parts = f[n]
    BY <2>3, <2>5, <2>6, <2>8
  <2>12. QED
    BY <2>2, <2>5, <2>7, <2>10, <2>11 DEF g
<1>7. QED
  BY <1>5, <1>6

(* A character that is put into the parts: how many they are, and how much *)
(* of the last is used.                                                    *)
Puts(p, u, c, m, q, v) ==
  \/ u + c > m /\ q = p + 1 /\ v = c
  \/ u + c <= m /\ q = p /\ v = u + c

Below(p, u, q, v) == p < q \/ (p = q /\ u <= v)
Twice(p, u, q, v) == p < q \/ (p = q /\ u <= 2 * v)

LEMMA FillPuts ==
  ASSUME NEW S, NEW t \in Seq(S), NEW e
  PROVE  LET g == Fill(t, e)
         IN /\ g[0].parts = 1 /\ g[0].used = 0
            /\ \A k \in 0..Len(t) : g[k].parts \in Nat /\ g[k].used \in Nat /\ g[k].used <= Room(e)
            /\ \A k \in 1..Len(t) : Puts(g[k - 1].parts, g[k - 1].used, Cost(t[k], e), Room(e), g[k].parts, g[k].used)
<1> DEFINE N == Len(t)
           R == Room(e)
           g == Fill(t, e)
<1>1. N \in Nat /\ R \in Nat /\ R >= 2
  BY RoomIs
<1>2. g[0].parts = 1 /\ g[0].used = 0 /\ \A k \in 0..N : g[k].parts \in Nat /\ g[k].used \in Nat
  BY FillStarts
<1>3. \A k \in 1..N :
        \/ g[k - 1].used + Cost(t[k], e) > R /\ g[k].parts = g[k - 1].parts + 1 /\ g[k].used = Cost(t[k], e)
        \/ /\ g[k - 1].used + Cost(t[k], e) <= R
           /\ g[k].parts = g[k - 1].parts /\ g[k].used = g[k - 1].used + Cost(t[k], e)
  BY FillStep
<1>4. \A k \in 1..N : Cost(t[k], e) \in {1, 2}
  BY CostIs
<1> HIDE DEF N, R, g
<1>5. ASSUME NEW k \in 0..N PROVE g[k].used <= R
  <2>1. CASE k = 0
    BY <1>1, <1>2, <2>1
  <2>2. CASE k # 0
    <3>1. k \in 1..N
      BY <1>1, <2>2
    <3>2. QED
      BY <1>1, <1>3, <1>4, <3>1
  <2>3. QED
    BY <2>1, <2>2
<1>6. \A k \in 1..N : Puts(g[k - 1].parts, g[k - 1].used, Cost(t[k], e), R, g[k].parts, g[k].used)
  BY <1>3 DEF Puts
<1>7. QED
  BY <1>2, <1>5, <1>6 DEF N, R, g

LEMMA FillAlike ==
  ASSUME NEW S, NEW t \in Seq(S), NEW u \in Seq(S), NEW e, NEW m \in 0..Len(t), m <= Len(u),
         \A k \in 1..m : t[k] = u[k]
  PROVE  Fill(t, e)[m] = Fill(u, e)[m]
<1> DEFINE s == Fill(t, e)
           r == Fill(u, e)
           T == {k \in 0..m : s[k] = r[k]}
<1>1. m \in Nat /\ m <= Len(t) /\ Len(t) \in Nat /\ Len(u) \in Nat
  OBVIOUS
<1>2. s[0] = [parts |-> 1, used |-> 0, begins |-> {}] /\ \A k \in 1..Len(t) : s[k] = TextsOf!Place(s[k - 1], k, t[k], e)
  BY FillIs DEF Filled
<1>3. r[0] = [parts |-> 1, used |-> 0, begins |-> {}] /\ \A k \in 1..Len(u) : r[k] = TextsOf!Place(r[k - 1], k, u[k], e)
  BY FillIs DEF Filled
<1> HIDE DEF s, r
<1>4. 0 \in T
  BY <1>1, <1>2, <1>3
<1>5. ASSUME NEW k \in 1..m, k - 1 \in T PROVE k \in T
  <2>1. k \in 1..Len(t) /\ k \in 1..Len(u) /\ k \in 0..m /\ s[k - 1] = r[k - 1] /\ t[k] = u[k]
    BY <1>1, <1>5
  <2>2. s[k] = TextsOf!Place(s[k - 1], k, t[k], e) /\ r[k] = TextsOf!Place(r[k - 1], k, u[k], e)
    BY <1>2, <1>3, <2>1
  <2>3. QED
    BY <2>1, <2>2
<1>6. m \in T
  <2> HIDE DEF T
  <2>1. 0..m \subseteq T
    BY <1>1, <1>4, <1>5, UpTo
  <2>2. QED
    BY <1>1, <2>1
<1>7. QED
  BY <1>6 DEF s, r

LEMMA PutMore ==
  ASSUME NEW p \in Nat, NEW u \in Nat, NEW c \in Nat, NEW m \in Nat, NEW q \in Nat, NEW v \in Nat,
         Puts(p, u, c, m, q, v)
  PROVE  Below(p, u, q, v)
BY DEF Puts, Below

LEMMA PutAlike ==
  ASSUME NEW p \in Nat, NEW u \in Nat, NEW q \in Nat, NEW v \in Nat, NEW c \in Nat, NEW m \in Nat,
         NEW p2 \in Nat, NEW u2 \in Nat, NEW q2 \in Nat, NEW v2 \in Nat,
         Below(p, u, q, v), Puts(p, u, c, m, p2, u2), Puts(q, v, c, m, q2, v2)
  PROVE  Below(p2, u2, q2, v2)
BY DEF Puts, Below

(* The encoding of the first n characters, and the dots behind them.       *)
Coded(n) == TextsOf!Encoding(TextsOf!Upto(n), textRequest)
Dots(n) == IF Coded(n) = "gsm" THEN 3 ELSE 1

TextTyped == textText \in Seq(TextsOf!Kinds) /\ textRequest \in TextsOf!Requests

LEMMA HeadIs ==
  ASSUME TextTyped, NEW n \in 0..Len(textText)
  PROVE  /\ TextsOf!Upto(n) \in Seq(TextsOf!Kinds) /\ Len(TextsOf!Upto(n)) = n
         /\ \A k \in 1..n : TextsOf!Upto(n)[k] = textText[k]
BY DEF TextTyped, TextsOf!Upto

LEMMA CodedIs ==
  ASSUME TextTyped, NEW n \in 0..Len(textText)
  PROVE  /\ Coded(n) \in Alphabets
         /\ textRequest = "gsm" => Coded(n) = "gsm"
         /\ textRequest = "unicode" => Coded(n) = "ucs2"
         /\ textRequest = "auto" => (Coded(n) = "gsm" <=> \A k \in 1..n : textText[k] \in {"basic", "escaped"})
<1> DEFINE h == TextsOf!Upto(n)
<1>1. DOMAIN h = 1..n /\ \A k \in 1..n : h[k] = textText[k]
  BY HeadIs
<1> HIDE DEF h
<1>2. textRequest \in {"auto", "gsm", "unicode"}
  BY DEF TextTyped, TextsOf!Requests
<1>3. Coded(n) = CASE textRequest = "gsm"     -> "gsm"
                   [] textRequest = "unicode" -> "ucs2"
                   [] textRequest = "auto"    -> IF \A i \in DOMAIN h : h[i] \in {"basic", "escaped"} THEN "gsm" ELSE "ucs2"
  BY DEF Coded, TextsOf!Encoding, h
<1>4. QED
  BY <1>1, <1>2, <1>3 DEF Alphabets

LEMMA CutIs ==
  ASSUME TextTyped, NEW n \in 0..Len(textText)
  PROVE  LET x == TextsOf!CutAt(n)
         IN /\ x \in Seq(TextsOf!Kinds) /\ Len(x) = n + Dots(n)
            /\ \A k \in 1..n : x[k] = textText[k]
            /\ \A k \in n + 1 .. n + Dots(n) : Cost(x[k], Coded(n)) = 1
            /\ TextsOf!Encoding(x, textRequest) = Coded(n)
<1> DEFINE h == TextsOf!Upto(n)
           d == IF Coded(n) = "gsm" THEN <<"basic", "basic", "basic">> ELSE <<"other">>
           x == TextsOf!CutAt(n)
<1>1. n \in Nat /\ h \in Seq(TextsOf!Kinds) /\ Len(h) = n /\ \A k \in 1..n : h[k] = textText[k]
  BY HeadIs
<1>2. d \in Seq(TextsOf!Kinds) /\ Len(d) = Dots(n)
  <2>1. CASE Coded(n) = "gsm"
    <3>1. d = <<"basic", "basic", "basic">> /\ Dots(n) = 3 /\ "basic" \in TextsOf!Kinds
      BY <2>1 DEF Dots, TextsOf!Kinds
    <3> HIDE DEF d
    <3>2. QED
      BY <3>1
  <2>2. CASE Coded(n) # "gsm"
    <3>1. d = <<"other">> /\ Dots(n) = 1 /\ "other" \in TextsOf!Kinds
      BY <2>2 DEF Dots, TextsOf!Kinds
    <3> HIDE DEF d
    <3>2. QED
      BY <3>1
  <2>3. QED
    BY <2>1, <2>2
<1>3. \A k \in 1..Dots(n) : d[k] = IF Coded(n) = "gsm" THEN "basic" ELSE "other"
  BY DEF Dots
<1>4. x = h \o d
  BY DEF TextsOf!CutAt, Coded
<1>5. Dots(n) \in {1, 3} /\ Dots(n) \in Nat
  BY DEF Dots
<1>6. Coded(n) \in Alphabets
  BY CodedIs
<1> HIDE DEF h, d, x
<1>7. x \in Seq(TextsOf!Kinds) /\ Len(x) = n + Dots(n)
  <2> DEFINE A == TextsOf!Kinds
  <2>1. h \in Seq(A) /\ d \in Seq(A)
    BY <1>1, <1>2
  <2> HIDE DEF A
  <2>2. x \in Seq(A) /\ Len(x) = Len(h) + Len(d)
    BY <1>4, <2>1
  <2>3. QED
    BY <1>1, <1>2, <2>2 DEF A
<1>8. \A k \in 1..n : x[k] = textText[k]
  BY <1>1, <1>2, <1>4, <1>5
<1>9. ASSUME NEW k \in n + 1 .. n + Dots(n) PROVE x[k] = IF Coded(n) = "gsm" THEN "basic" ELSE "other"
  <2>1. k - n \in 1..Dots(n) /\ k > n /\ k \in 1..n + Dots(n)
    BY <1>1, <1>5
  <2>2. x[k] = d[k - n]
    BY <1>1, <1>2, <1>4, <2>1
  <2>3. QED
    BY <1>3, <2>1, <2>2
<1>10. \A k \in n + 1 .. n + Dots(n) : Cost(x[k], Coded(n)) = 1
  BY <1>6, <1>9 DEF Cost, TextsOf!Cost, Alphabets
<1>11. TextsOf!Encoding(x, textRequest) = Coded(n)
  <2>1. DOMAIN x = 1..(n + Dots(n))
    BY <1>7
  <2>2. textRequest \in {"auto", "gsm", "unicode"}
    BY DEF TextTyped, TextsOf!Requests
  <2>3. CASE textRequest # "auto"
    BY <2>2, <2>3, CodedIs DEF TextsOf!Encoding
  <2>4. CASE textRequest = "auto"
    <3>1. TextsOf!Encoding(x, textRequest) = IF \A k \in DOMAIN x : x[k] \in {"basic", "escaped"} THEN "gsm" ELSE "ucs2"
      BY <2>4 DEF TextsOf!Encoding
    <3>2. Coded(n) = "gsm" <=> \A k \in 1..n : textText[k] \in {"basic", "escaped"}
      BY <2>4, CodedIs
    <3>3. CASE Coded(n) = "gsm"
      <4>1. ASSUME NEW k \in DOMAIN x PROVE x[k] \in {"basic", "escaped"}
        <5>1. k \in 1..n \/ k \in n + 1 .. n + Dots(n)
          BY <1>1, <1>5, <2>1
        <5>2. QED
          BY <1>8, <1>9, <3>2, <3>3, <5>1
      <4>2. QED
        BY <3>1, <3>3, <4>1
    <3>4. CASE Coded(n) # "gsm"
      <4>1. n + 1 \in DOMAIN x /\ n + 1 \in n + 1 .. n + Dots(n)
        BY <1>1, <1>5, <2>1
      <4>2. x[n + 1] = "other"
        BY <1>9, <3>4, <4>1
      <4>3. QED
        BY <1>6, <3>1, <3>4, <4>1, <4>2 DEF Alphabets
    <3>5. QED
      BY <3>3, <3>4
  <2>5. QED
    BY <2>3, <2>4
<1>12. QED
  BY <1>7, <1>8, <1>10, <1>11 DEF x

LEMMA CodedOn ==
  ASSUME TextTyped, NEW n \in 0..Len(textText), n + 1 <= Len(textText), Coded(n) # Coded(n + 1)
  PROVE  /\ Coded(n) = "gsm" /\ Coded(n + 1) = "ucs2"
         /\ \A k \in 1..n : textText[k] \in {"basic", "escaped"}
<1>1. n + 1 \in 0..Len(textText) /\ n \in Nat
  OBVIOUS
<1>2. textRequest \in {"auto", "gsm", "unicode"}
  BY DEF TextTyped, TextsOf!Requests
<1>3. Coded(n) \in Alphabets /\ Coded(n + 1) \in Alphabets
  BY <1>1, CodedIs
<1>4. textRequest = "auto"
  BY <1>1, <1>2, CodedIs
<1>5. /\ Coded(n) = "gsm" <=> \A k \in 1..n : textText[k] \in {"basic", "escaped"}
      /\ Coded(n + 1) = "gsm" <=> \A k \in 1..(n + 1) : textText[k] \in {"basic", "escaped"}
  BY <1>1, <1>4, CodedIs
<1>6. Coded(n + 1) = "gsm" => Coded(n) = "gsm"
  BY <1>1, <1>5
<1>7. QED
  BY <1>3, <1>5, <1>6 DEF Alphabets

CutFill(n) == Fill(TextsOf!CutAt(n), Coded(n))
TextFill(n) == Fill(textText, Coded(n))
TextSum(n) == Sum(textText, Coded(n))

LEMMA CutPuts ==
  ASSUME TextTyped, NEW n \in 0..Len(textText)
  PROVE  LET g == CutFill(n)
             e == Coded(n)
             d == Dots(n)
         IN /\ g[n] = TextFill(n)[n]
            /\ \A k \in n .. n + d : g[k].parts \in Nat /\ g[k].used \in Nat
            /\ \A k \in n + 1 .. n + d : Puts(g[k - 1].parts, g[k - 1].used, 1, Room(e), g[k].parts, g[k].used)
            /\ TextsOf!Parts(TextsOf!CutAt(n)) =
                 IF TextSum(n)[n] + d <= TextsOf!Single(e) THEN 1 ELSE g[n + d].parts
            /\ TextsOf!Parts(TextsOf!CutAt(n)) \in Nat /\ TextsOf!Parts(TextsOf!CutAt(n)) >= 1
<1> DEFINE x == TextsOf!CutAt(n)
           e == Coded(n)
           d == Dots(n)
           g == Fill(x, e)
           s == Sum(x, e)
           S == TextsOf!Kinds
<1>1. /\ x \in Seq(S) /\ Len(x) = n + d /\ (\A k \in 1..n : x[k] = textText[k])
      /\ (\A k \in n + 1 .. n + d : Cost(x[k], e) = 1)
      /\ TextsOf!Encoding(x, textRequest) = e
  BY CutIs
<1>2. n \in Nat /\ d \in {1, 3} /\ textText \in Seq(S) /\ n <= Len(textText)
  BY DEF TextTyped, Dots
<1> HIDE DEF x, e, d, S
<1>3. n \in 0..Len(x) /\ (\A k \in 1..n : x[k] = textText[k]) /\ n <= Len(textText)
  BY <1>1, <1>2
<1>4. g[n] = Fill(textText, e)[n]
  <2> HIDE DEF g
  <2>1. QED
    BY <1>1, <1>2, <1>3, FillAlike DEF g
<1>5. s[n] = Sum(textText, e)[n]
  BY <1>1, <1>2, <1>3, SumAlike
<1>6. /\ \A k \in 0..(n + d) : g[k].parts \in Nat /\ g[k].used \in Nat
      /\ \A k \in 1..(n + d) : Puts(g[k - 1].parts, g[k - 1].used, Cost(x[k], e), Room(e), g[k].parts, g[k].used)
  BY <1>1, FillPuts
<1>7. (\A k \in 0..(n + d) : s[k] \in Nat) /\ \A k \in 1..(n + d) : s[k] = s[k - 1] + Cost(x[k], e)
  BY <1>1, SumFacts
<1>8. TextsOf!Segments(x, e) = IF TextsOf!Slots(x, e) <= TextsOf!Single(e)
                               THEN [parts |-> 1, used |-> TextsOf!Slots(x, e), begins |-> {}] ELSE g[n + d]
  BY <1>1, FillIs
<1>9. TextsOf!Slots(x, e) = s[n + d]
  BY <1>1, SumIs
<1>10. TextsOf!Parts(x) = TextsOf!Segments(x, e).parts
  BY <1>1 DEF TextsOf!Parts
<1>11. TextsOf!Segments(x, e).parts \in Nat /\ TextsOf!Segments(x, e).parts >= 1
  BY <1>1, FilledAreFewest
<1> HIDE DEF g, s
<1>12. s[n + d] = s[n] + d
  <2>1. /\ s[n] \in Nat /\ s[n + 1] = s[n + 1 - 1] + 1 /\ n + 1 - 1 = n
        /\ d = 3 => s[n + 2] = s[n + 2 - 1] + 1 /\ s[n + 3] = s[n + 3 - 1] + 1 /\ n + 2 - 1 = n + 1 /\ n + 3 - 1 = n + 2
    BY <1>1, <1>2, <1>7
  <2>2. QED
    BY <1>2, <2>1
<1>13. TextsOf!Parts(x) = IF s[n] + d <= TextsOf!Single(e) THEN 1 ELSE g[n + d].parts
  BY <1>8, <1>9, <1>10, <1>12
<1>14. \A k \in n + 1 .. n + d : Puts(g[k - 1].parts, g[k - 1].used, 1, Room(e), g[k].parts, g[k].used)
  BY <1>1, <1>2, <1>6
<1>15. \A k \in n .. n + d : g[k].parts \in Nat /\ g[k].used \in Nat
  BY <1>2, <1>6
<1>16. CutFill(n) = g /\ TextFill(n) = Fill(textText, e) /\ TextSum(n) = Sum(textText, e)
  BY DEF CutFill, TextFill, TextSum, g, x, e
<1>17. QED
  BY <1>4, <1>5, <1>10, <1>11, <1>13, <1>14, <1>15, <1>16 DEF x, e, d

(* In a text of the alphabet of GSM every character takes one slot of an   *)
(* SMS in Unicode, and one or two of one in GSM.                           *)
LEMMA Across ==
  ASSUME NEW S, NEW t \in Seq(S), NEW n \in 0..Len(t), \A k \in 1..n : t[k] \in {"basic", "escaped"}
  PROVE  /\ Twice(Fill(t, "gsm")[n].parts, Fill(t, "gsm")[n].used, Fill(t, "ucs2")[n].parts, Fill(t, "ucs2")[n].used)
         /\ Sum(t, "gsm")[n] <= 2 * Sum(t, "ucs2")[n]
<1> DEFINE g == Fill(t, "gsm")
           h == Fill(t, "ucs2")
           s == Sum(t, "gsm")
           r == Sum(t, "ucs2")
           m == Room("gsm")
           l == Room("ucs2")
           T == {k \in 0..n : /\ Twice(g[k].parts, g[k].used, h[k].parts, h[k].used)
                              /\ s[k] <= 2 * r[k]}
<1>1. n \in Nat /\ 0..n \subseteq 0..Len(t) /\ 1..n \subseteq 1..Len(t)
  OBVIOUS
<1>2. m \in Nat /\ l \in Nat /\ m >= 2 * l
  BY TextsAssumption, RoomIs DEF Room, TextsOf!Multi
<1>3. /\ g[0].parts = 1 /\ g[0].used = 0 /\ \A k \in 0..n : g[k].parts \in Nat /\ g[k].used \in Nat
      /\ \A k \in 1..n : Puts(g[k - 1].parts, g[k - 1].used, Cost(t[k], "gsm"), m, g[k].parts, g[k].used)
  BY <1>1, FillPuts
<1>4. /\ h[0].parts = 1 /\ h[0].used = 0 /\ \A k \in 0..n : h[k].parts \in Nat /\ h[k].used \in Nat
      /\ \A k \in 1..n : Puts(h[k - 1].parts, h[k - 1].used, Cost(t[k], "ucs2"), l, h[k].parts, h[k].used)
  BY <1>1, FillPuts
<1>5. /\ s[0] = 0 /\ \A k \in 0..n : s[k] \in Nat
      /\ \A k \in 1..n : s[k] = s[k - 1] + Cost(t[k], "gsm")
  BY <1>1, SumFacts
<1>6. /\ r[0] = 0 /\ \A k \in 0..n : r[k] \in Nat
      /\ \A k \in 1..n : r[k] = r[k - 1] + Cost(t[k], "ucs2")
  BY <1>1, SumFacts
<1>7. \A k \in 1..n : Cost(t[k], "gsm") \in {1, 2} /\ Cost(t[k], "ucs2") = 1
  BY DEF Cost, TextsOf!Cost
<1> HIDE DEF g, h, s, r, m, l
<1>8. 0 \in T
  BY <1>1, <1>3, <1>4, <1>5, <1>6 DEF Twice
<1>9. ASSUME NEW k \in 1..n, k - 1 \in T PROVE k \in T
  <2>1. k \in 0..n /\ k - 1 \in 0..n
    BY <1>1
  <2>2. Cost(t[k], "gsm") \in {1, 2} /\ Cost(t[k], "ucs2") = 1
    BY <1>7
  <2>3. s[k] <= 2 * r[k]
    BY <1>5, <1>6, <1>9, <2>1, <2>2
  <2>4. Twice(g[k].parts, g[k].used, h[k].parts, h[k].used)
    <3> DEFINE p == g[k - 1].parts
               u == g[k - 1].used
               q == h[k - 1].parts
               v == h[k - 1].used
               p2 == g[k].parts
               u2 == g[k].used
               q2 == h[k].parts
               v2 == h[k].used
               c == Cost(t[k], "gsm")
    <3>1. /\ p \in Nat /\ u \in Nat /\ q \in Nat /\ v \in Nat /\ p2 \in Nat /\ u2 \in Nat /\ q2 \in Nat /\ v2 \in Nat
          /\ c \in {1, 2} /\ Puts(p, u, c, m, p2, u2) /\ Puts(q, v, 1, l, q2, v2)
      BY <1>3, <1>4, <2>1, <2>2
    <3>2. Twice(p, u, q, v)
      BY <1>9
    <3> HIDE DEF p, u, q, v, p2, u2, q2, v2, c
    <3>3. Twice(p2, u2, q2, v2)
      BY <1>2, <3>1, <3>2 DEF Puts, Twice
    <3>4. QED
      BY <3>3 DEF p2, u2, q2, v2
  <2>5. QED
    BY <2>1, <2>3, <2>4
<1>10. n \in T
  <2> HIDE DEF T
  <2>1. 0..n \subseteq T
    BY <1>1, <1>8, <1>9, UpTo
  <2>2. QED
    BY <1>1, <2>1
<1>11. QED
  BY <1>10 DEF g, h, s, r

LEMMA GrowAlike ==
  ASSUME TextTyped, NEW n \in 0..Len(textText), n + 1 <= Len(textText), Coded(n) = Coded(n + 1)
  PROVE  TextsOf!Parts(TextsOf!CutAt(n)) <= TextsOf!Parts(TextsOf!CutAt(n + 1))
<1> DEFINE e == Coded(n)
           d == Dots(n)
           g == CutFill(n)
           h == CutFill(n + 1)
           f == Fill(textText, e)
           s == Sum(textText, e)
           m == Room(e)
           a == TextsOf!Parts(TextsOf!CutAt(n))
           b == TextsOf!Parts(TextsOf!CutAt(n + 1))
<1>1. n \in Nat /\ n + 1 \in 0..Len(textText) /\ n + 1 \in 1..Len(textText) /\ n + 1 - 1 = n
  OBVIOUS
<1>2. e = Coded(n + 1) /\ d = Dots(n + 1) /\ d \in {1, 3} /\ m \in Nat /\ TextsOf!Single(e) \in Nat
  BY RoomIs DEF Dots
<1>3. /\ g[n] = f[n]
      /\ \A k \in n .. n + d : g[k].parts \in Nat /\ g[k].used \in Nat
      /\ \A k \in n + 1 .. n + d : Puts(g[k - 1].parts, g[k - 1].used, 1, m, g[k].parts, g[k].used)
      /\ a = IF s[n] + d <= TextsOf!Single(e) THEN 1 ELSE g[n + d].parts
      /\ a \in Nat
  BY CutPuts DEF TextFill, TextSum
<1>4. /\ h[n + 1] = f[n + 1]
      /\ \A k \in n + 1 .. n + 1 + d : h[k].parts \in Nat /\ h[k].used \in Nat
      /\ \A k \in n + 1 + 1 .. n + 1 + d : Puts(h[k - 1].parts, h[k - 1].used, 1, m, h[k].parts, h[k].used)
      /\ b = IF s[n + 1] + d <= TextsOf!Single(e) THEN 1 ELSE h[n + 1 + d].parts
      /\ b \in Nat /\ b >= 1
  BY <1>1, <1>2, CutPuts DEF TextFill, TextSum
<1>5. /\ \A k \in 0..Len(textText) : f[k].parts \in Nat /\ f[k].used \in Nat
      /\ Puts(f[n].parts, f[n].used, Cost(textText[n + 1], e), m, f[n + 1].parts, f[n + 1].used)
  <2>1. textText \in Seq(TextsOf!Kinds)
    BY DEF TextTyped
  <2>2. Puts(f[n + 1 - 1].parts, f[n + 1 - 1].used, Cost(textText[n + 1], e), m, f[n + 1].parts, f[n + 1].used)
    <3> HIDE DEF f
    <3>1. QED
      BY <1>1, <2>1, FillPuts DEF f
  <2>3. QED
    BY <1>1, <2>1, <2>2, FillPuts
<1>6. s[n + 1] = s[n] + Cost(textText[n + 1], e) /\ s[n] \in Nat /\ s[n + 1] \in Nat
  <2>1. textText \in Seq(TextsOf!Kinds)
    BY DEF TextTyped
  <2>2. QED
    BY <1>1, <2>1, SumFacts
<1>7. Cost(textText[n + 1], e) \in Nat
  BY CostIs
<1> HIDE DEF e, d, g, h, f, s, m, a, b
<1>8. Below(g[n].parts, g[n].used, h[n + 1].parts, h[n + 1].used)
  <2>1. f[n].parts \in Nat /\ f[n].used \in Nat /\ f[n + 1].parts \in Nat /\ f[n + 1].used \in Nat
    BY <1>1, <1>5
  <2>2. Below(f[n].parts, f[n].used, f[n + 1].parts, f[n + 1].used)
    BY <1>2, <1>5, <1>7, <2>1, PutMore
  <2>3. QED
    BY <1>3, <1>4, <2>2
<1>9. ASSUME NEW k \in n + 1 .. n + d, Below(g[k - 1].parts, g[k - 1].used, h[k].parts, h[k].used)
      PROVE  Below(g[k].parts, g[k].used, h[k + 1].parts, h[k + 1].used)
  <2>1. /\ k - 1 \in n .. n + d /\ k \in n .. n + d /\ k \in n + 1 .. n + 1 + d
        /\ k + 1 \in n + 1 .. n + 1 + d /\ k + 1 \in n + 1 + 1 .. n + 1 + d /\ k + 1 - 1 = k
    BY <1>1, <1>2
  <2>2. /\ g[k - 1].parts \in Nat /\ g[k - 1].used \in Nat /\ g[k].parts \in Nat /\ g[k].used \in Nat
        /\ h[k].parts \in Nat /\ h[k].used \in Nat /\ h[k + 1].parts \in Nat /\ h[k + 1].used \in Nat
    BY <1>3, <1>4, <2>1
  <2>3. Puts(g[k - 1].parts, g[k - 1].used, 1, m, g[k].parts, g[k].used)
    BY <1>3
  <2>4. Puts(h[k].parts, h[k].used, 1, m, h[k + 1].parts, h[k + 1].used)
    BY <1>4, <2>1
  <2>5. Below(g[k - 1].parts, g[k - 1].used, h[k].parts, h[k].used)
    BY <1>9
  <2> DEFINE p == g[k - 1].parts
             u == g[k - 1].used
             q == h[k].parts
             v == h[k].used
             p2 == g[k].parts
             u2 == g[k].used
             q2 == h[k + 1].parts
             v2 == h[k + 1].used
  <2>6. /\ p \in Nat /\ u \in Nat /\ q \in Nat /\ v \in Nat /\ p2 \in Nat /\ u2 \in Nat /\ q2 \in Nat /\ v2 \in Nat
        /\ Puts(p, u, 1, m, p2, u2) /\ Puts(q, v, 1, m, q2, v2) /\ Below(p, u, q, v)
    BY <2>2, <2>3, <2>4, <2>5
  <2> HIDE DEF p, u, q, v, p2, u2, q2, v2
  <2>7. Below(p2, u2, q2, v2)
    BY <1>2, <2>6 DEF Puts, Below
  <2>8. QED
    BY <2>7 DEF p2, u2, q2, v2
<1>10. Below(g[n + d].parts, g[n + d].used, h[n + d + 1].parts, h[n + d + 1].used)
  <2>1. n + 1 \in n + 1 .. n + d /\ n + 1 - 1 = n
    BY <1>1, <1>2
  <2>2. Below(g[n + 1].parts, g[n + 1].used, h[n + 1 + 1].parts, h[n + 1 + 1].used)
    BY <1>8, <1>9, <2>1
  <2>3. CASE d = 1
    BY <2>2, <2>3
  <2>4. CASE d = 3
    <3>1. /\ n + 2 \in n + 1 .. n + d /\ n + 2 - 1 = n + 1 /\ n + 1 + 1 = n + 2
          /\ n + 3 \in n + 1 .. n + d /\ n + 3 - 1 = n + 2 /\ n + 2 + 1 = n + 3
      BY <1>1, <2>4
    <3>2. Below(g[n + 2].parts, g[n + 2].used, h[n + 2 + 1].parts, h[n + 2 + 1].used)
      BY <1>9, <2>2, <3>1
    <3>3. Below(g[n + 3].parts, g[n + 3].used, h[n + 3 + 1].parts, h[n + 3 + 1].used)
      BY <1>9, <3>1, <3>2
    <3>4. QED
      BY <2>4, <3>3
  <2>5. QED
    BY <1>2, <2>3, <2>4
<1>11. g[n + d].parts <= h[n + 1 + d].parts
  <2>1. n + d \in n .. n + d /\ n + d + 1 = n + 1 + d /\ n + 1 + d \in n + 1 .. n + 1 + d
    BY <1>1, <1>2
  <2>2. g[n + d].parts \in Nat /\ h[n + 1 + d].parts \in Nat
    BY <1>3, <1>4, <2>1
  <2>3. QED
    BY <1>10, <2>1, <2>2 DEF Below
<1>12. a <= b
  BY <1>2, <1>3, <1>4, <1>6, <1>7, <1>11
<1>13. QED
  BY <1>12 DEF a, b

LEMMA GrowAcross ==
  ASSUME TextTyped, NEW n \in 0..Len(textText), n + 1 <= Len(textText), Coded(n) # Coded(n + 1)
  PROVE  TextsOf!Parts(TextsOf!CutAt(n)) <= TextsOf!Parts(TextsOf!CutAt(n + 1))
<1> DEFINE g == CutFill(n)
           h == CutFill(n + 1)
           f == Fill(textText, "gsm")
           i == Fill(textText, "ucs2")
           s == Sum(textText, "gsm")
           r == Sum(textText, "ucs2")
           m == Room("gsm")
           l == Room("ucs2")
           c == Cost(textText[n + 1], "ucs2")
           a == TextsOf!Parts(TextsOf!CutAt(n))
           b == TextsOf!Parts(TextsOf!CutAt(n + 1))
<1>1. n \in Nat /\ n + 1 \in 0..Len(textText) /\ n + 1 \in 1..Len(textText) /\ n + 1 - 1 = n
  OBVIOUS
<1>2. Coded(n) = "gsm" /\ Coded(n + 1) = "ucs2" /\ \A k \in 1..n : textText[k] \in {"basic", "escaped"}
  BY CodedOn
<1>3. Dots(n) = 3 /\ Dots(n + 1) = 1
  BY <1>2 DEF Dots
<1>4. /\ g[n] = f[n]
      /\ \A k \in n .. n + 3 : g[k].parts \in Nat /\ g[k].used \in Nat
      /\ \A k \in n + 1 .. n + 3 : Puts(g[k - 1].parts, g[k - 1].used, 1, m, g[k].parts, g[k].used)
      /\ a = IF s[n] + 3 <= TextsOf!Single("gsm") THEN 1 ELSE g[n + 3].parts
      /\ a \in Nat
  BY <1>2, <1>3, CutPuts DEF TextFill, TextSum
<1>5. /\ h[n + 1] = i[n + 1]
      /\ \A k \in n + 1 .. n + 1 + 1 : h[k].parts \in Nat /\ h[k].used \in Nat
      /\ \A k \in n + 1 + 1 .. n + 1 + 1 : Puts(h[k - 1].parts, h[k - 1].used, 1, l, h[k].parts, h[k].used)
      /\ b = IF r[n + 1] + 1 <= TextsOf!Single("ucs2") THEN 1 ELSE h[n + 1 + 1].parts
      /\ b \in Nat /\ b >= 1
  BY <1>1, <1>2, <1>3, CutPuts DEF TextFill, TextSum
<1>6. textText \in Seq(TextsOf!Kinds)
  BY DEF TextTyped
<1>7. f[n].parts \in Nat /\ f[n].used \in Nat /\ f[n].used <= m
  BY <1>6, FillPuts
<1>8. /\ i[n].parts \in Nat /\ i[n].used \in Nat
      /\ Puts(i[n].parts, i[n].used, c, l, i[n + 1].parts, i[n + 1].used)
  <2>1. /\ \A k \in 0..Len(textText) : i[k].parts \in Nat /\ i[k].used \in Nat
        /\ \A k \in 1..Len(textText) :
             Puts(i[k - 1].parts, i[k - 1].used, Cost(textText[k], "ucs2"), l, i[k].parts, i[k].used)
    BY <1>6, FillPuts
  <2> HIDE DEF i
  <2>2. Puts(i[n + 1 - 1].parts, i[n + 1 - 1].used, c, l, i[n + 1].parts, i[n + 1].used)
    BY <1>1, <2>1
  <2>3. QED
    BY <1>1, <2>1, <2>2
<1>9. Twice(f[n].parts, f[n].used, i[n].parts, i[n].used) /\ s[n] <= 2 * r[n]
  BY <1>2, <1>6, Across
<1>10. r[n + 1] = r[n] + c /\ r[n] \in Nat /\ s[n] \in Nat
  <2>1. /\ s[n] \in Nat /\ r[n] \in Nat
        /\ \A k \in 1..Len(textText) : r[k] = r[k - 1] + Cost(textText[k], "ucs2")
    BY <1>6, SumFacts
  <2> HIDE DEF r
  <2>2. r[n + 1] = r[n + 1 - 1] + c
    BY <1>1, <2>1
  <2>3. QED
    BY <1>1, <2>1, <2>2
<1>11. c \in {1, 2} /\ m \in Nat /\ l \in Nat /\ m >= 2 /\ m >= 2 * l
  BY TextsAssumption, CostIs, RoomIs DEF Room, TextsOf!Multi
<1>12. /\ TextsOf!Single("gsm") \in Nat /\ TextsOf!Single("ucs2") \in Nat
       /\ TextsOf!Single("gsm") >= 2 * TextsOf!Single("ucs2")
  BY TextsAssumption DEF TextsOf!Single
<1> HIDE DEF g, h, f, i, s, r, m, l, c, a, b
<1>13. g[n + 3].parts <= h[n + 2].parts
  <2>1. n + 1 - 1 = n /\ n + 2 - 1 = n + 1 /\ n + 3 - 1 = n + 2 /\ n + 1 + 1 = n + 2
    BY <1>1
  <2>2. /\ n + 1 \in n + 1 .. n + 3 /\ n + 2 \in n + 1 .. n + 3 /\ n + 3 \in n + 1 .. n + 3
        /\ n + 1 \in n .. n + 3 /\ n + 2 \in n .. n + 3 /\ n + 3 \in n .. n + 3
        /\ n + 2 \in n + 1 + 1 .. n + 1 + 1 /\ n + 1 \in n + 1 .. n + 1 + 1 /\ n + 2 \in n + 1 .. n + 1 + 1
    BY <1>1
  <2>3. /\ Puts(f[n].parts, f[n].used, 1, m, g[n + 1].parts, g[n + 1].used)
        /\ Puts(g[n + 1].parts, g[n + 1].used, 1, m, g[n + 2].parts, g[n + 2].used)
        /\ Puts(g[n + 2].parts, g[n + 2].used, 1, m, g[n + 3].parts, g[n + 3].used)
    BY <1>4, <2>1, <2>2
  <2>4. /\ Puts(i[n].parts, i[n].used, c, l, h[n + 1].parts, h[n + 1].used)
        /\ Puts(h[n + 1].parts, h[n + 1].used, 1, l, h[n + 2].parts, h[n + 2].used)
    BY <1>5, <1>8, <2>1, <2>2
  <2>5. /\ g[n + 1].parts \in Nat /\ g[n + 1].used \in Nat /\ g[n + 2].parts \in Nat /\ g[n + 2].used \in Nat
        /\ g[n + 3].parts \in Nat /\ g[n + 3].used \in Nat
        /\ h[n + 1].parts \in Nat /\ h[n + 1].used \in Nat /\ h[n + 2].parts \in Nat /\ h[n + 2].used \in Nat
    BY <1>4, <1>5, <2>2
  <2> DEFINE p == f[n].parts
             u == f[n].used
             q == i[n].parts
             v == i[n].used
             p1 == g[n + 1].parts
             u1 == g[n + 1].used
             p2 == g[n + 2].parts
             u2 == g[n + 2].used
             p3 == g[n + 3].parts
             u3 == g[n + 3].used
             q1 == h[n + 1].parts
             v1 == h[n + 1].used
             q2 == h[n + 2].parts
             v2 == h[n + 2].used
  <2>6. /\ Puts(p, u, 1, m, p1, u1) /\ Puts(p1, u1, 1, m, p2, u2) /\ Puts(p2, u2, 1, m, p3, u3)
        /\ Puts(q, v, c, l, q1, v1) /\ Puts(q1, v1, 1, l, q2, v2) /\ Twice(p, u, q, v) /\ u <= m
        /\ p \in Nat /\ u \in Nat /\ q \in Nat /\ v \in Nat /\ p1 \in Nat /\ u1 \in Nat /\ p2 \in Nat
        /\ u2 \in Nat /\ p3 \in Nat /\ u3 \in Nat /\ q1 \in Nat /\ v1 \in Nat /\ q2 \in Nat /\ v2 \in Nat
    BY <1>7, <1>8, <1>9, <2>3, <2>4, <2>5
  <2> HIDE DEF p, u, q, v, p1, u1, p2, u2, p3, u3, q1, v1, q2, v2
  <2> DEFINE wp == IF u + 2 > m THEN p + 1 ELSE p
             wu == IF u + 2 > m THEN 2 ELSE u + 2
  <2>7. p3 <= q2
    <3>1. wp \in Nat /\ wu \in Nat /\ Puts(p, u, 2, m, wp, wu)
      BY <1>11, <2>6 DEF Puts
    <3> HIDE DEF wp, wu
    <3>2. Below(p2, u2, wp, wu)
      <4>1. CASE u + 1 <= m
        BY <1>11, <2>6, <3>1, <4>1 DEF Puts, Below
      <4>2. CASE u + 1 > m
        BY <1>11, <2>6, <3>1, <4>2 DEF Puts, Below
      <4>3. QED
        BY <1>11, <2>6, <4>1, <4>2
    <3>3. Twice(wp, wu, q1, v1)
      BY <1>11, <2>6, <3>1 DEF Puts, Twice
    <3>4. Twice(p2, u2, q1, v1)
      BY <2>6, <3>1, <3>2, <3>3 DEF Below, Twice
    <3>5. Twice(p3, u3, q2, v2)
      BY <1>11, <2>6, <3>4 DEF Puts, Twice
    <3>6. QED
      BY <2>6, <3>5 DEF Twice
  <2>8. QED
    BY <2>7 DEF p3, q2
<1>14. n + 1 + 1 = n + 2
  BY <1>1
<1>15. n + 3 \in n .. n + 3 /\ n + 2 \in n + 1 .. n + 1 + 1
  BY <1>1
<1>16. g[n + 3].parts \in Nat /\ h[n + 2].parts \in Nat
  BY <1>4, <1>5, <1>15
<1>17. a <= b
  <2>1. CASE r[n + 1] + 1 <= TextsOf!Single("ucs2")
    <3>1. s[n] + 3 <= TextsOf!Single("gsm")
      BY <1>9, <1>10, <1>11, <1>12, <2>1
    <3>2. QED
      BY <1>4, <1>5, <3>1
  <2>2. CASE ~(r[n + 1] + 1 <= TextsOf!Single("ucs2"))
    BY <1>4, <1>5, <1>13, <1>14, <1>16, <2>2
  <2>3. QED
    BY <2>1, <2>2
<1>18. QED
  BY <1>17 DEF a, b

(* A longer beginning, with its dots, takes no fewer parts, be it in the   *)
(* encoding of the shorter or in the other one.                            *)
LEMMA PartsGrow ==
  ASSUME TextTyped, NEW a \in 0..Len(textText), NEW b \in 0..Len(textText), a <= b
  PROVE  TextsOf!Parts(TextsOf!CutAt(a)) <= TextsOf!Parts(TextsOf!CutAt(b))
<1> DEFINE N == Len(textText)
           P(k) == TextsOf!Parts(TextsOf!CutAt(k))
           T == {k \in 0..N : a <= k => P(a) <= P(k)}
<1>1. N \in Nat /\ a \in 0..N /\ b \in 0..N /\ a \in Nat /\ a <= b
  BY DEF TextTyped
<1>2. \A k \in 0..N : P(k) \in Nat
  BY CutPuts
<1>3. \A k \in 0..N : k + 1 <= N => P(k) <= P(k + 1)
  BY GrowAlike, GrowAcross
<1> HIDE DEF N, P
<1>4. 0 \in T
  BY <1>1, <1>2
<1>5. ASSUME NEW k \in 1..N, k - 1 \in T PROVE k \in T
  <2>1. k \in 0..N /\ k - 1 \in 0..N /\ k - 1 + 1 = k /\ k - 1 + 1 <= N
    BY <1>1
  <2>2. P(k - 1) <= P(k)
    BY <1>3, <2>1
  <2>3. P(k - 1) \in Nat /\ P(k) \in Nat /\ P(a) \in Nat
    BY <1>1, <1>2, <2>1
  <2>4. CASE a <= k - 1
    BY <1>5, <2>1, <2>2, <2>3, <2>4
  <2>5. CASE ~(a <= k - 1)
    <3>1. a <= k => a = k
      BY <1>1, <2>1, <2>5
    <3>2. QED
      BY <2>1, <2>3, <3>1
  <2>6. QED
    BY <2>4, <2>5
<1>6. b \in T
  <2> HIDE DEF T
  <2>1. 0..N \subseteq T
    BY <1>1, <1>4, <1>5, UpTo
  <2>2. QED
    BY <1>1, <2>1
<1>7. QED
  BY <1>1, <1>6 DEF P

CutOf(t, r, n) ==
  SubSeq(t, 1, n) \o IF TextsOf!Encoding(SubSeq(t, 1, n), r) = "gsm" THEN <<"basic", "basic", "basic">> ELSE <<"other">>
Held(t, r, m, n) == TextsOf!Segments(CutOf(t, r, n), TextsOf!Encoding(CutOf(t, r, n), r)).parts <= m

TextsTypes ==
  /\ textText \in Seq(TextsOf!Kinds) /\ textCut \in Seq(TextsOf!Kinds)
  /\ textRequest \in TextsOf!Requests /\ textOverflow \in {"truncate", "reject"}
  /\ {textLimit, textKeyLimit} \subseteq 1..MaxParts
  /\ textHi \in 0..Len(textText) /\ textLo \in 0..textHi
  /\ textAt \in {"whole", "search", "submit", "sent", "refused"}

TextsSearch ==
  /\ textAt = "whole" => textLo = 0 /\ textHi = Len(textText)
  /\ textAt = "search" =>
       /\ Held(textText, textRequest, textLimit, textLo)
       /\ textHi < Len(textText) => ~Held(textText, textRequest, textLimit, textHi + 1)
  /\ textAt = "submit" =>
       \/ textCut = textText
       \/ /\ textCut = CutOf(textText, textRequest, textLo) /\ textLo = textHi
          /\ Held(textText, textRequest, textLimit, textLo)
          /\ textHi < Len(textText) => ~Held(textText, textRequest, textLimit, textHi + 1)

LEMMA HeadCut ==
  ASSUME NEW n
  PROVE  TextsOf!CutAt(n) = CutOf(textText, textRequest, n)
BY DEF TextsOf!CutAt, TextsOf!Upto, CutOf

LEMMA HeldTried ==
  ASSUME NEW n
  PROVE  TextsOf!Tried(n) <=> Held(textText, textRequest, textLimit, n)
BY HeadCut DEF TextsOf!Tried, TextsOf!Fits, TextsOf!Parts, Held

LEMMA TextsParts == TextsOf!IInv <=> TextsTypes /\ TextsSearch
<1>1. TextsOf!TypeOK <=> TextsTypes
  BY DEF TextsOf!TypeOK, TextsTypes
<1>2. TextsOf!CutAt(textLo) = CutOf(textText, textRequest, textLo)
  BY HeadCut
<1>3. TextsOf!Between <=> /\ Held(textText, textRequest, textLimit, textLo)
                          /\ textHi < Len(textText) => ~Held(textText, textRequest, textLimit, textHi + 1)
  BY HeldTried DEF TextsOf!Between
<1>4. TextsOf!SearchSound <=> TextsSearch
  BY <1>2, <1>3 DEF TextsOf!SearchSound, TextsSearch
<1>5. QED
  BY <1>1, <1>4 DEF TextsOf!IInv

LEMMA TextsNext == (TextsTypes /\ TextsSearch)' => TextsOf!IInv'
BY TextsParts, PTL

LEMMA NothingFits ==
  ASSUME TextTyped, NEW m \in 1..MaxParts
  PROVE  Held(textText, textRequest, m, 0)
<1> DEFINE x == TextsOf!CutAt(0)
<1>1. 0 \in 0..Len(textText) /\ textText \in Seq(TextsOf!Kinds)
  BY DEF TextTyped
<1>2. TextSum(0)[0] = 0
  BY <1>1, SumFacts DEF TextSum
<1>3. Dots(0) <= TextsOf!Single(Coded(0))
  BY TextsAssumption DEF Dots, TextsOf!Single
<1>4. Dots(0) \in Nat
  BY DEF Dots
<1>5. TextsOf!Parts(x) = 1
  BY <1>1, <1>2, <1>3, <1>4, CutPuts
<1>6. TextsOf!Parts(x) <= m
  BY <1>5
<1>7. TextsOf!Parts(x) = TextsOf!Segments(x, TextsOf!Encoding(x, textRequest)).parts
  BY DEF TextsOf!Parts
<1>8. x = CutOf(textText, textRequest, 0)
  BY HeadCut
<1> HIDE DEF x
<1>9. QED
  BY <1>6, <1>7, <1>8 DEF Held

LEMMA TextsBegin ==
  ASSUME TextsOf!Init, textText \in Seq(TextsOf!Kinds), textRequest \in TextsOf!Requests,
         textOverflow \in {"truncate", "reject"}, {textLimit, textKeyLimit} \subseteq 1..MaxParts
  PROVE  TextsOf!IInv
<1>1. textLo = 0 /\ textHi = Len(textText) /\ textAt = "whole" /\ textCut = <<>>
  BY DEF TextsOf!Init
<1>2. TextsTypes /\ TextsSearch
  BY <1>1 DEF TextsTypes, TextsSearch
<1>3. QED
  BY <1>2, TextsParts

LEMMA TextsStep ==
  ASSUME TextsOf!IInv, TextsOf!Next \/ UNCHANGED textVars
  PROVE  TextsOf!IInv'
<1> DEFINE given == <<textText, textRequest, textLimit, textKeyLimit, textOverflow>>
<1>1. TextsTypes /\ TextsSearch
  BY TextsParts
<1>2. TextTyped /\ textLimit \in 1..MaxParts
  BY <1>1 DEF TextTyped, TextsTypes
<1>3. CASE TextsOf!Whole
  <2>1. UNCHANGED <<given, textLo, textHi>> /\ textAt' = "submit" /\ textCut' = textText
    BY <1>3 DEF TextsOf!Whole, TextsOf!given
  <2>2. (TextsTypes /\ TextsSearch)'
    BY <1>1, <2>1 DEF TextsTypes, TextsSearch
  <2>3. QED
    BY <2>2, TextsNext
<1>4. CASE TextsOf!Reject
  <2>1. UNCHANGED <<given, textLo, textHi, textCut>> /\ textAt' = "refused"
    BY <1>4 DEF TextsOf!Reject, TextsOf!given
  <2>2. (TextsTypes /\ TextsSearch)'
    BY <1>1, <2>1 DEF TextsTypes, TextsSearch
  <2>3. QED
    BY <2>2, TextsNext
<1>5. CASE TextsOf!Shorten
  <2>1. UNCHANGED <<given, textLo, textHi, textCut>> /\ textAt' = "search" /\ textAt = "whole"
    BY <1>5 DEF TextsOf!Shorten, TextsOf!given
  <2>2. Held(textText, textRequest, textLimit, 0)
    BY <1>2, NothingFits
  <2>3. textLo = 0 /\ textHi = Len(textText)
    BY <1>1, <2>1 DEF TextsSearch
  <2>4. textHi \in Int
    BY <1>1 DEF TextsTypes
  <2>5. (TextsTypes /\ TextsSearch)'
    BY <1>1, <2>1, <2>2, <2>3, <2>4 DEF TextsTypes, TextsSearch
  <2>6. QED
    BY <2>5, TextsNext
<1>6. CASE TextsOf!Search
  <2> DEFINE m == TextsOf!Middle
  <2>1. UNCHANGED <<given, textAt, textCut>> /\ textAt = "search" /\ textLo < textHi
    BY <1>6 DEF TextsOf!Search, TextsOf!given
  <2>2. \/ Held(textText, textRequest, textLimit, m) /\ textLo' = m /\ textHi' = textHi
        \/ ~Held(textText, textRequest, textLimit, m) /\ textHi' = m - 1 /\ textLo' = textLo
    BY <1>6, HeldTried DEF TextsOf!Search
  <2>3. textHi \in 0..Len(textText) /\ textLo \in 0..textHi /\ Len(textText) \in Nat
    BY <1>1 DEF TextsTypes
  <2>4. m \in textLo + 1 .. textHi /\ m \in Nat
    BY <2>1, <2>3 DEF TextsOf!Middle
  <2> HIDE DEF m
  <2>5. textHi' \in 0..Len(textText) /\ textLo' \in 0..textHi'
    BY <2>2, <2>3, <2>4
  <2>6. TextsTypes'
    BY <1>1, <2>1, <2>5 DEF TextsTypes
  <2>7. /\ Held(textText, textRequest, textLimit, textLo)
        /\ textHi < Len(textText) => ~Held(textText, textRequest, textLimit, textHi + 1)
    BY <1>1, <2>1 DEF TextsSearch
  <2>8. /\ Held(textText, textRequest, textLimit, textLo')
        /\ textHi' < Len(textText) => ~Held(textText, textRequest, textLimit, textHi' + 1)
    <3>1. m - 1 + 1 = m
      BY <2>4
    <3>2. QED
      BY <2>2, <2>7, <3>1
  <2>9. TextsSearch'
    BY <2>1, <2>8 DEF TextsSearch
  <2>10. QED
    BY <2>6, <2>9, TextsNext
<1>7. CASE TextsOf!Found
  <2>1. UNCHANGED <<given, textLo, textHi>> /\ textAt = "search" /\ textAt' = "submit" /\ textLo = textHi
    BY <1>7 DEF TextsOf!Found, TextsOf!given
  <2>2. textCut' = TextsOf!CutAt(textLo) /\ textCut' = CutOf(textText, textRequest, textLo)
    BY <1>7, HeadCut DEF TextsOf!Found
  <2>3. textLo \in 0..Len(textText)
    BY <1>1 DEF TextsTypes
  <2>4. textCut' \in Seq(TextsOf!Kinds)
    BY <1>2, <2>2, <2>3, CutIs
  <2>5. (TextsTypes /\ TextsSearch)'
    BY <1>1, <2>1, <2>2, <2>4 DEF TextsTypes, TextsSearch
  <2>6. QED
    BY <2>5, TextsNext
<1>8. CASE TextsOf!Submit
  <2>1. UNCHANGED <<given, textLo, textHi, textCut>> /\ textAt' \in {"sent", "refused"}
    BY <1>8 DEF TextsOf!Submit, TextsOf!given
  <2>2. (TextsTypes /\ TextsSearch)'
    BY <1>1, <2>1 DEF TextsTypes, TextsSearch
  <2>3. QED
    BY <2>2, TextsNext
<1>9. CASE UNCHANGED textVars
  <2>1. (TextsTypes /\ TextsSearch)'
    BY <1>1, <1>9 DEF textVars, TextsTypes, TextsSearch
  <2>2. QED
    BY <2>1, TextsNext
<1>10. QED
  BY <1>3, <1>4, <1>5, <1>6, <1>7, <1>8, <1>9 DEF TextsOf!Next

(* What is sent is full, and nothing longer would have fitted.             *)
LEMMA TextsFill ==
  ASSUME TextsOf!IInv
  PROVE  TextsOf!TypeOK /\ TextsOf!CutIsLongest /\ TextsOf!PartsAreFewest
<1>1. TextsTypes /\ TextsSearch
  BY TextsParts
<1>2. TextTyped /\ textLimit \in Nat /\ textCut \in Seq(TextsOf!Kinds)
  BY <1>1, TextsAssumption DEF TextTyped, TextsTypes
<1>3. ASSUME NEW n \in 0..Len(textText)
      PROVE  /\ TextsOf!Parts(TextsOf!CutAt(n)) =
                  TextsOf!Fewest(TextsOf!CutAt(n), TextsOf!Encoding(TextsOf!CutAt(n), textRequest))
             /\ TextsOf!Parts(TextsOf!CutAt(n)) \in Nat
             /\ TextsOf!Parts(TextsOf!CutAt(n)) <= textLimit <=> Held(textText, textRequest, textLimit, n)
  <2> DEFINE x == TextsOf!CutAt(n)
             e == TextsOf!Encoding(x, textRequest)
  <2>1. x \in Seq(TextsOf!Kinds) /\ x = CutOf(textText, textRequest, n)
    BY <1>2, CutIs, HeadCut
  <2>2. TextsOf!Parts(x) = TextsOf!Segments(x, e).parts
    BY DEF TextsOf!Parts
  <2>3. TextsOf!Parts(x) <= textLimit <=> Held(textText, textRequest, textLimit, n)
    BY <2>1, <2>2 DEF Held
  <2> HIDE DEF x
  <2>4. TextsOf!Segments(x, e).parts = TextsOf!Fewest(x, e) /\ TextsOf!Segments(x, e).parts \in Nat
    BY <2>1, FilledAreFewest
  <2>5. QED
    BY <2>2, <2>3, <2>4 DEF x
<1>4. TextsOf!CutIsLongest
  <2> SUFFICES ASSUME textAt = "submit", textCut # textText
               PROVE  /\ textCut = TextsOf!CutAt(textLo)
                      /\ TextsOf!Fewest(textCut, TextsOf!Encoding(textCut, textRequest)) <= textLimit
                      /\ \A n \in textLo + 1 .. Len(textText) :
                           TextsOf!Fewest(TextsOf!CutAt(n), TextsOf!Encoding(TextsOf!CutAt(n), textRequest)) > textLimit
    BY DEF TextsOf!CutIsLongest
  <2>1. /\ textCut = CutOf(textText, textRequest, textLo) /\ textLo = textHi
        /\ Held(textText, textRequest, textLimit, textLo)
        /\ textHi < Len(textText) => ~Held(textText, textRequest, textLimit, textHi + 1)
    BY <1>1 DEF TextsSearch
  <2>2. textCut = TextsOf!CutAt(textLo) /\ textLo \in 0..Len(textText) /\ textLo \in Nat /\ Len(textText) \in Nat
    BY <1>1, <2>1, HeadCut DEF TextsTypes
  <2>3. TextsOf!Fewest(textCut, TextsOf!Encoding(textCut, textRequest)) <= textLimit
    <3>1. TextsOf!Parts(TextsOf!CutAt(textLo)) <= textLimit
      BY <1>3, <2>1, <2>2
    <3>2. TextsOf!Parts(TextsOf!CutAt(textLo)) =
            TextsOf!Fewest(TextsOf!CutAt(textLo), TextsOf!Encoding(TextsOf!CutAt(textLo), textRequest))
      BY <1>3, <2>2
    <3>3. QED
      BY <2>2, <3>1, <3>2
  <2>4. ASSUME NEW n \in textLo + 1 .. Len(textText)
        PROVE  TextsOf!Fewest(TextsOf!CutAt(n), TextsOf!Encoding(TextsOf!CutAt(n), textRequest)) > textLimit
    <3>1. textHi < Len(textText) /\ textHi + 1 \in 0..Len(textText) /\ n \in 0..Len(textText) /\ textHi + 1 <= n
      BY <2>1, <2>2
    <3>2. TextsOf!Parts(TextsOf!CutAt(textHi + 1)) <= TextsOf!Parts(TextsOf!CutAt(n))
      BY <1>2, <3>1, PartsGrow
    <3>3. ~(TextsOf!Parts(TextsOf!CutAt(textHi + 1)) <= textLimit) /\ TextsOf!Parts(TextsOf!CutAt(textHi + 1)) \in Nat
      BY <1>3, <2>1, <3>1
    <3>4. TextsOf!Parts(TextsOf!CutAt(n)) =
            TextsOf!Fewest(TextsOf!CutAt(n), TextsOf!Encoding(TextsOf!CutAt(n), textRequest))
          /\ TextsOf!Parts(TextsOf!CutAt(n)) \in Nat
      BY <1>3, <3>1
    <3>5. QED
      BY <1>2, <3>2, <3>3, <3>4
  <2>5. QED
    BY <2>2, <2>3, <2>4
<1>5. TextsOf!PartsAreFewest
  <2>1. ASSUME NEW e
        PROVE  LET s == TextsOf!Segments(textCut, e)
               IN s.parts = TextsOf!Fewest(textCut, e) /\ (s.parts > 1 => TextsOf!Holds(textCut, s.begins, e))
    BY <1>2, FilledAreFewest
  <2>2. QED
    BY <2>1 DEF TextsOf!PartsAreFewest
<1>6. QED
  BY <1>4, <1>5 DEF TextsOf!IInv

-----------------------------------------------------------------------------
(* All of them together. *)

IntegrationsInv ==
  /\ HooksOf!IInv /\ FlowCallsOf!IInv /\ MailInOf!IInv /\ ThreadsOf!IInv /\ ReportsOf!IInv
  /\ RecipientsOf!IInv /\ TextsOf!IInv

LEMMA IntegrationsBegin == Init => IntegrationsInv
<1>1. HooksOf!Init => HooksOf!IInv
  BY HooksBegin, HooksParts
<1>2. ASSUME Init PROVE TextsOf!IInv
  <2>1. TextsOf!Init
    BY <1>2 DEF Init
  <2>2. Alphabet \subseteq TextsOf!Kinds /\ MaxLength \in Nat
    BY TextsAssumption DEF TextsOf!Kinds
  <2>3. textText \in Seq(TextsOf!Kinds)
    <3>1. textText \in TextsOf!Texts \/ textText = <<>>
      BY <1>2 DEF Init
    <3>2. CASE textText = <<>>
      BY <3>2
    <3>3. CASE textText \in TextsOf!Texts
      <4>1. PICK n \in 0..MaxLength : textText \in [1..n -> Alphabet]
        BY <3>3 DEF TextsOf!Texts
      <4>2. n \in Nat /\ textText \in [1..n -> TextsOf!Kinds]
        BY <2>2, <4>1
      <4>3. QED
        BY <4>2
    <3>4. QED
      BY <3>1, <3>2, <3>3
  <2>4. /\ textRequest \in TextsOf!Requests /\ textOverflow \in {"truncate", "reject"}
        /\ {textLimit, textKeyLimit} \subseteq 1..MaxParts
    BY <1>2, TextsAssumption DEF Init, TextsOf!Requests
  <2>5. QED
    BY <2>1, <2>3, <2>4, TextsBegin
<1>3. QED
  BY <1>1, <1>2, FlowsBegin, MailInBegin, ThreadsBegin, ReportsBegin, ListsBegin DEF Init, IntegrationsInv

LEMMA HooksStay ==
  ASSUME HooksOf!IInv, HooksOf!Next \/ UNCHANGED hookVars
  PROVE  HooksOf!IInv'
<1>1. CASE HooksOf!Next
  <2>1. WindowCounted' /\ HooksTypes' /\ EventsSound'
    BY <1>1, HooksParts, WindowStep, HooksStep
  <2>2. WindowCounted' => hookPassed' \in Nat /\ hookTold' \in Nat
    BY HooksAssumption DEF WindowCounted, HooksOf!Window
  <2>3. QED
    BY <2>1, <2>2 DEF HooksOf!IInv, WindowCounted, HooksTypes, EventsSound, HooksOf!TypeOK
<1>2. CASE UNCHANGED hookVars
  BY <1>2
  DEF hookVars, HooksOf!IInv, HooksOf!TypeOK, HooksOf!SentOnce, HooksOf!TokensAreOwed, HooksOf!CallOK,
      HooksOf!Open, HooksOf!At, HooksOf!Event, HooksOf!Asking
<1>3. QED
  BY <1>1, <1>2

LEMMA FlowsStay ==
  ASSUME FlowCallsOf!IInv, FlowCallsOf!Next \/ UNCHANGED flowVars
  PROVE  FlowCallsOf!IInv'
<1>1. CASE FlowCallsOf!Next
  BY <1>1, FlowsStep
<1>2. CASE UNCHANGED flowVars
  BY <1>2
  DEF flowVars, FlowCallsOf!IInv, FlowCallsOf!TypeOK, FlowCallsOf!RepeatsSendNothing,
      FlowCallsOf!Untried, FlowCallsOf!Answered, FlowCallsOf!Seen, FlowCallsOf!Recipients
<1>3. QED
  BY <1>1, <1>2

LEMMA MailInStays ==
  ASSUME MailInOf!IInv, MailInOf!Next \/ UNCHANGED mailVars
  PROVE  MailInOf!IInv'
<1>1. CASE MailInOf!Next
  BY <1>1, MailInStep
<1>2. CASE UNCHANGED mailVars
  <2> USE <1>2 DEF mailVars
  <2>1. MailInOf!TypeOK /\ MailInOf!PollsSound /\ MailMemory /\ MailFloor
    BY MailParts
  <2>2. MailInOf!TypeOK' /\ MailInOf!PollsSound'
    BY <2>1 DEF MailInOf!TypeOK, MailInOf!PollsSound, MailInOf!Busy, MailInOf!At
  <2>3. MailMemory'
    BY <2>1 DEF MailMemory, MailInOf!MemorySound, MailInOf!Own, MailInOf!IdAt, MailInOf!At,
                MailInOf!MailSendsOnce, MailInOf!StrangersSilenceNobody
  <2>4. MailFloor'
    BY <2>1 DEF MailFloor, MailInOf!FloorSound, MailInOf!Decided, MailInOf!At, MailInOf!NothingBelowFloor
  <2>5. QED
    BY <2>2, <2>3, <2>4, MailKept
<1>3. QED
  BY <1>1, <1>2

LEMMA ThreadsStay ==
  ASSUME ThreadsOf!IInv, ThreadsOf!Next \/ UNCHANGED threadVars
  PROVE  ThreadsOf!IInv'
<1>1. CASE ThreadsOf!Next
  BY <1>1, ThreadsStep
<1>2. CASE UNCHANGED threadVars
  BY <1>2 DEF threadVars, ThreadsOf!IInv, ThreadsOf!TypeOK, ThreadsOf!Handovers
<1>3. QED
  BY <1>1, <1>2

LEMMA ReportsStay ==
  ASSUME ReportsOf!IInv, ReportsOf!Next \/ UNCHANGED reportVars
  PROVE  ReportsOf!IInv'
<1>1. CASE ReportsOf!Next
  BY <1>1, ReportsStep
<1>2. CASE UNCHANGED reportVars
  BY <1>2 DEF reportVars, ReportsOf!IInv, ReportsOf!TypeOK, ReportsOf!Tables, ReportsOf!Unanswered, ReportsOf!Answered,
              ReportsOf!Stands
<1>3. QED
  BY <1>1, <1>2

LEMMA IntegrationsStay ==
  ASSUME IntegrationsInv, [Next]_vars
  PROVE  IntegrationsInv'
<1>1. /\ HooksOf!Next \/ UNCHANGED hookVars
      /\ FlowCallsOf!Next \/ UNCHANGED flowVars
      /\ MailInOf!Next \/ UNCHANGED mailVars
      /\ ThreadsOf!Next \/ UNCHANGED threadVars
      /\ ReportsOf!Next \/ UNCHANGED reportVars
      /\ RecipientsOf!Next \/ UNCHANGED toVars
      /\ TextsOf!Next \/ UNCHANGED textVars
  BY DEF Next, HooksMove, FlowsMove, MailInMoves, ThreadsMove, ReportsMove, TextsMove, RecipientsMove, vars
<1>2. QED
  BY <1>1, HooksStay, FlowsStay, MailInStays, ThreadsStay, ReportsStay, ListsStep, TextsStep DEF IntegrationsInv

(* What the proofs of this module rest on: in every behaviour the          *)
(* components keep what makes their properties inductive.                  *)
THEOREM IntegrationsHold == Spec => []IntegrationsInv
BY IntegrationsBegin, IntegrationsStay, PTL DEF Spec

(* Events (routes.ts, pipeline.ts, guards.ts): one is sent once a day,     *)
(* its identifier stays taken only when it was decided, and the storm      *)
(* guard lets no more through than its limit and tells of it once.         *)
THEOREM EventsStaySentOnce == Spec => []EventsAreSentOnce
<1>1. IntegrationsInv => EventsAreSentOnce
  <2>1. WindowCounted => HooksOf!WindowHolds
    BY HooksAssumption DEF WindowCounted, HooksOf!WindowHolds, HooksOf!Window
  <2>2. QED
    BY <2>1, HooksParts DEF IntegrationsInv, EventsAreSentOnce, HooksOf!IInv, EventsSound
<1>2. QED
  BY <1>1, IntegrationsHold, PTL

(* Flows (power-automate.ts, idempotency.ts, guards.ts): one that loops    *)
(* stops at its limit, and a call repeated with its key sends nothing new. *)
THEOREM FlowsStayBounded == Spec => []FlowsAreBounded
<1>1. IntegrationsInv => FlowsAreBounded
  BY FlowsParts DEF IntegrationsInv, FlowsAreBounded
<1>2. QED
  BY <1>1, IntegrationsHold, PTL

(* Mailboxes (worker/mail-in.ts, store/mail-in.ts): a mail brings one SMS  *)
(* at most, across crashes, overlapping polls and a folder created anew; a *)
(* stranger's mail silences none; and the floor passes no unread mail that *)
(* nobody decided about.                                                   *)
THEOREM MailsStayTakenOnce == Spec => []MailsAreTakenOnce
<1>1. IntegrationsInv => MailsAreTakenOnce
  BY DEF IntegrationsInv, MailsAreTakenOnce, MailInOf!IInv
<1>2. QED
  BY <1>1, IntegrationsHold, PTL

(* Reports (mail-report.ts): what the last report told of an SMS stands,   *)
(* unless somebody asked to cancel that SMS, or a failure without a date   *)
(* became another; it follows the first report, and one that was promised  *)
(* is owed until it is written or the administrator waives it.             *)
THEOREM ReportsStayKept == Spec => []ReportsAreKept
<1>1. IntegrationsInv => ReportsAreKept
  BY ReportsTell DEF IntegrationsInv, ReportsAreKept
<1>2. QED
  BY <1>1, IntegrationsHold, PTL

(* Threads (integration-threads.ts, pipeline.ts): an SMS about a ticket    *)
(* answers one that was handed over under the key of the integration that  *)
(* was called.                                                             *)
THEOREM KeysAlwaysApart == Spec => KeysStayApart
<1>1. IntegrationsInv => (which = "threads" => ThreadsOf!TypeOK)
  BY DEF IntegrationsInv, ThreadsOf!IInv
<1>2. ASSUME IntegrationsInv, [Next]_vars
      PROVE  [\A j \in DOMAIN threadSent' \ DOMAIN threadSent :
                LET m == threadSent'[j]
                IN  m.ticket # 0 =>
                      /\ ThreadsOf!Answers(m.answers, m.to, m.key, m.service)
                      /\ \E x \in threadMade : /\ x.sms = m.answers /\ x.ticket = m.ticket
                                               /\ threadKeyOf[x.out] = m.key]_(ThreadsOf!vars)
  <2>1. ThreadsOf!Next \/ UNCHANGED threadVars
    BY <1>2 DEF Next, HooksMove, FlowsMove, MailInMoves, ThreadsMove, ReportsMove, TextsMove, RecipientsMove, vars
  <2>2. CASE ThreadsOf!Next
    <3>1. \A j \in DOMAIN threadSent' \ DOMAIN threadSent : StaysApart(j)
      BY <1>2, <2>2, StepsStayApart DEF IntegrationsInv
    <3>2. QED
      BY <3>1 DEF StaysApart
  <2>3. CASE UNCHANGED threadVars
    BY <2>3 DEF threadVars
  <2>4. QED
    BY <2>1, <2>2, <2>3
<1>3. QED
  BY <1>1, <1>2, IntegrationsHold, PTL DEF Spec, KeysStayApart, ThreadsOf!KeysStayApart

(* Texts (measure.ts, segment.ts, pipeline.ts): a text that is sent takes   *)
(* the fewest parts there are, none over its size, and one that was        *)
(* shortened could not have kept one character more.                       *)
THEOREM TextsStayFull == Spec => []TextsAreFull
<1>1. IntegrationsInv => TextsAreFull
  BY TextsFill DEF IntegrationsInv, TextsAreFull
<1>2. QED
  BY <1>1, IntegrationsHold, PTL

(* Recipients (members.ts, group-form.ts, power-automate-form.ts,          *)
(* phone.ts, pipeline.ts): a form that is opened and saved again keeps the *)
(* lists, whatever country the account has by then, and what is handed to  *)
(* submitMessages is what gets the SMS, nobody twice but from a webhook,   *)
(* and never the one who wrote to a closed group.                          *)
THEOREM ListsAlwaysHold == Spec => ListsHold
<1>1. IntegrationsInv => (which = "recipients" => RecipientsOf!TypeOK /\ RecipientsOf!ReopeningKeeps)
  BY ListsReopen DEF IntegrationsInv, RecipientsOf!IInv
<1>2. ASSUME IntegrationsInv, [Next]_vars
      PROVE  [toList' # toList =>
                /\ toDest' = toList'
                /\ toKind # "hook" => RecipientsOf!IsInjective(toDest')
                /\ (toKind = "group" /\ toConfig.mode = "closed") =>
                     ~RecipientsOf!Contains(toDest', toFrom')]_(RecipientsOf!vars)
  <2>1. [RecipientsOf!Next]_toVars
    BY <1>2 DEF Next, HooksMove, FlowsMove, MailInMoves, ThreadsMove, ReportsMove, TextsMove, RecipientsMove, vars
  <2>2. Told
    BY <1>2, <2>1, ListsStep DEF IntegrationsInv
  <2>3. QED
    BY <2>2 DEF Told
<1>3. QED
  BY <1>1, <1>2, IntegrationsHold, PTL DEF Spec, ListsHold, RecipientsOf!HandedIsSent
=============================================================================
