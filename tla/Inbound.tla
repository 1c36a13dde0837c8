------------------------------ MODULE Inbound ------------------------------
(***************************************************************************)
(* The receiver of incoming messages (src/src/inbound/receiver.ts): one    *)
(* loop per service somebody listens to, which asks Multiinfo for a        *)
(* message, keeps it together with the deliveries to the listeners, and    *)
(* only then confirms it. A message that is not confirmed comes again      *)
(* after some minutes.                                                     *)
(*                                                                         *)
(* An action is what a loop does from one await to the next. The loops of  *)
(* a service take turns in its slots: one that was put out may still be    *)
(* busy when the next is lit. Time is a choice: a pause ends, a stopped    *)
(* service is due again, a message comes again, whenever that suits.       *)
(*                                                                         *)
(* The services belong to one account, so that a rejected certificate      *)
(* pauses all of them. Keys with a webhook and keys with an integration    *)
(* listen alike; what an integration filters out is not modelled here.     *)
(***************************************************************************)
EXTENDS Naturals

CONSTANTS
  Services,   \* the services of the account
  Keys,       \* the keys that may listen to them
  Sms,        \* the messages Multiinfo receives
  ServiceOf,  \* the service a message comes to
  Answers,    \* messages that answer a notification of the gateway's own
  Nothing,    \* the value of "no message"
  MaxLoops,   \* bound: loops of a service that are busy at the same time
  MaxChanges, \* bound: how often listeners or the account change
  MaxRestarts \* bound: how often the process dies

ASSUME ServiceAssumption == ServiceOf \in [Sms -> Services]
ASSUME MessageAssumption == Answers \subseteq Sms /\ Nothing \notin Sms
ASSUME BoundAssumption ==
  MaxLoops \in Nat \ {0} /\ MaxChanges \in Nat /\ MaxRestarts \in Nat

VARIABLES
  sms,        \* where Multiinfo has a message
  (* the database *)
  stored,     \* rows of inbound_messages
  told,       \* deliveries of a message.received to each key
  error,      \* account_services.inbound_error
  listeners,  \* the keys that listen to a service
  paused,     \* accounts.paused_reason is set
  (* the receiver, lost with the process *)
  loops,      \* the map of loops
  stopped,    \* the map of stopped services; an entry is due after a while
  (* its loops, lost with the process *)
  pc,         \* what a loop waits for
  reply,      \* the message on its way to it, or in its hands
  aborted,    \* loops whose signal is set
  changes,    \* how often listeners or the account changed
  restarts    \* how often the process has died

tables   == <<stored, told>>
world    == <<listeners, paused, changes>>
receiver == <<loops, aborted>>
vars     == <<sms, tables, error, world, receiver, stopped, pc, reply, restarts>>

Slots == 1..MaxLoops
Loops == Services \X Slots

Outcome == {"message", "empty", "stopped", "error"}
Wait    == {"off", "ask", "cut", "confirm", "sleep"} \cup Outcome
Place   == {"coming", "waiting", "shown", "gone"}

Init ==
  /\ sms       = [m \in Sms |-> "coming"]
  /\ stored    = {}
  /\ told      = [m \in Sms |-> [k \in Keys |-> 0]]
  /\ error     = [s \in Services |-> "none"]
  /\ listeners = [s \in Services |-> {}]
  /\ paused    = FALSE
  /\ loops     = {}
  /\ stopped   = [s \in Services |-> "no"]
  /\ pc        = [l \in Loops |-> "off"]
  /\ reply     = [l \in Loops |-> Nothing]
  /\ aborted   = {}
  /\ changes   = 0
  /\ restarts  = 0

-----------------------------------------------------------------------------
(* activeTargets: somebody listens and the account is not paused. *)
Targets(keys, halted) == IF halted THEN {} ELSE {s \in Services : keys[s] # {}}
Wanted(s) == s \in Targets(listeners, paused)

Listened(s) == \E l \in loops : l[1] = s

(* A loop of s that is not busy, for the next one to be lit. *)
Free(s, at) == CHOOSE n \in Slots : at[<<s, n>>] = "off"

(* Wanted services without a loop, but for those stopped a while ago only; *)
(* a change of the account in the panel gives these another chance.        *)
Lit(wanted, retry) ==
  {s \in wanted : ~Listened(s) /\ (retry \/ stopped[s] # "fresh")}

(* refresh: loops nobody wants any more are put out, which ends their      *)
(* question or their pause; the errors of such services are forgotten; a   *)
(* loop is lit where one is missing. `at` is what loops wait for when it   *)
(* begins.                                                                 *)
Reconcile(wanted, retry, at) ==
  LET out == {l \in loops : l[1] \notin wanted}
      lit == {<<s, Free(s, at)>> : s \in Lit(wanted, retry)}
  IN  /\ \A s \in Lit(wanted, retry) : \E n \in Slots : at[<<s, n>>] = "off"
      /\ loops' = (loops \ out) \cup lit
      /\ aborted' = aborted \cup {l \in out : at[l] # "sleep"}
      /\ pc' = [l \in Loops |->
                  IF l \in lit THEN "ask"
                  ELSE IF l \in out /\ at[l] = "ask" THEN "cut"
                  ELSE IF l \in out /\ at[l] = "sleep" THEN "off"
                  ELSE at[l]]
      /\ reply' = [l \in Loops |-> IF pc'[l] = "cut" THEN Nothing ELSE reply[l]]
      /\ error' = [s \in Services |-> IF s \in wanted THEN error[s] ELSE "none"]
      /\ stopped' = [s \in Services |->
                       IF s \notin wanted /\ error[s] # "none" THEN "no" ELSE stopped[s]]

(* The timer, every ten seconds. *)
Refresh ==
  /\ Reconcile(Targets(listeners, paused), FALSE, pc)
  /\ UNCHANGED <<sms, tables, world, restarts>>

-----------------------------------------------------------------------------
Change == changes < MaxChanges /\ changes' = changes + 1

(* clients.invalidate closes the connections: questions end in an error. *)
Cut == [l \in Loops |-> IF pc[l] = "ask" THEN "cut" ELSE pc[l]]

(* Mutant: the receiver is told before the change is written. *)
RefreshThenSave(keys) ==
  /\ Change
  /\ listeners' = keys
  /\ Reconcile(Targets(listeners, paused), TRUE, pc)
  /\ UNCHANGED <<sms, tables, paused, restarts>>

(* A key or an integration is saved or revoked in the panel. *)
Save(keys) ==
  /\ Change
  /\ listeners' = keys
  /\ Reconcile(Targets(keys, paused), TRUE, pc)
  /\ UNCHANGED <<sms, tables, paused, restarts>>

(* The account passes its check, or gets a new certificate, which closes   *)
(* the connections; that ends its pause.                                   *)
Resume(renewed) ==
  /\ Change
  /\ paused
  /\ paused' = FALSE
  /\ Reconcile(Targets(listeners, FALSE), TRUE, IF renewed THEN Cut ELSE pc)
  /\ UNCHANGED <<sms, tables, listeners, restarts>>

(* The certificate is replaced of an account that was not paused when the  *)
(* form came: a pause that began while it was read stays.                  *)
Renew ==
  /\ Change
  /\ pc' = Cut
  /\ reply' = [l \in Loops |-> IF pc'[l] = "cut" THEN Nothing ELSE reply[l]]
  /\ UNCHANGED <<sms, tables, error, listeners, paused, receiver, stopped, restarts>>

(* A key expires. The receiver learns of it at its next refresh. *)
Expire(k) ==
  /\ Change
  /\ listeners' = [s \in Services |-> listeners[s] \ {k}]
  /\ UNCHANGED <<sms, tables, error, paused, receiver, stopped, pc, reply, restarts>>

(* pauseForCertificate. *)
Pause ==
  /\ paused' = TRUE
  /\ reply' = [l \in Loops |-> IF pc[l] = "ask" THEN Nothing ELSE reply[l]]
  /\ UNCHANGED <<sms, tables, listeners, loops, aborted, restarts>>

(* A send or poll job finds the certificate rejected. *)
PauseElsewhere ==
  /\ Change
  /\ Pause
  /\ pc' = Cut
  /\ UNCHANGED <<error, stopped>>

-----------------------------------------------------------------------------
(* A message comes to Multiinfo. *)
Arrive(m) ==
  /\ sms[m] = "coming"
  /\ sms' = [sms EXCEPT ![m] = "waiting"]
  /\ UNCHANGED <<tables, error, world, receiver, stopped, pc, reply, restarts>>

(* Multiinfo answers getsms.aspx with a message, and hides it for a while. *)
Show(l, m) ==
  /\ pc[l] = "ask" /\ reply[l] = Nothing
  /\ sms[m] = "waiting" /\ ServiceOf[m] = l[1]
  /\ sms' = [sms EXCEPT ![m] = "shown"]
  /\ reply' = [reply EXCEPT ![l] = m]
  /\ UNCHANGED <<tables, error, world, receiver, stopped, pc, restarts>>

(* It was not confirmed and comes again. *)
ComeAgain(m) ==
  /\ sms[m] = "shown"
  /\ sms' = [sms EXCEPT ![m] = "waiting"]
  /\ UNCHANGED <<tables, error, world, receiver, stopped, pc, reply, restarts>>

(* confirmsms.aspx takes effect. *)
Confirmed(l) ==
  /\ pc[l] = "confirm"
  /\ sms' = [sms EXCEPT ![reply[l]] = "gone"]
  /\ UNCHANGED <<tables, error, world, receiver, stopped, pc, reply, restarts>>

-----------------------------------------------------------------------------
(* An answer came: the service is not stopped, and not in error unless the *)
(* rest of the handler says so.                                            *)
Answered(l, next, e) ==
  /\ pc' = [pc EXCEPT ![l] = next]
  /\ stopped' = [stopped EXCEPT ![l[1]] = "no"]
  /\ error' = [error EXCEPT ![l[1]] = e]

(* Mutant: a message that comes again is announced again. *)
StoreAgain(m, s) ==
  /\ stored' = stored \cup {m}
  /\ told' = IF m \in Answers THEN told
             ELSE [told EXCEPT ![m] = [k \in Keys |-> @[k] + IF k \in listeners[s] THEN 1 ELSE 0]]

(* The message is stored with the deliveries to all who listen now, unless *)
(* it answers a notification; one that is stored already leaves no trace.  *)
Store(m, s) ==
  /\ stored' = stored \cup {m}
  /\ told' = IF m \in stored \cup Answers THEN told
             ELSE [told EXCEPT ![m] = [k \in Keys |-> @[k] + IF k \in listeners[s] THEN 1 ELSE 0]]

(* Mutant: an answer without a message is stored like any other. *)
ReceiveAnything(l) ==
  /\ pc[l] = "ask"
  /\ Store(reply[l], l[1])
  /\ Answered(l, "confirm", "none")
  /\ UNCHANGED <<sms, world, receiver, reply, restarts>>

Receive(l) ==
  /\ pc[l] = "ask" /\ reply[l] # Nothing
  /\ Store(reply[l], l[1])
  /\ Answered(l, "confirm", "none")
  /\ UNCHANGED <<sms, world, receiver, reply, restarts>>

(* The transaction fails; the message is not confirmed. *)
StoreFails(l) ==
  /\ pc[l] = "ask" /\ reply[l] # Nothing
  /\ Answered(l, "error", "passing")
  /\ reply' = [reply EXCEPT ![l] = Nothing]
  /\ UNCHANGED <<sms, tables, world, receiver, restarts>>

ReceiveNothing(l) ==
  /\ pc[l] = "ask" /\ reply[l] = Nothing
  /\ Answered(l, "empty", "none")
  /\ UNCHANGED <<sms, tables, world, receiver, reply, restarts>>

(* Mutant: whether the loop was put out is not looked at. *)
FailLoudly(l) ==
  /\ pc[l] \in {"ask", "cut"}
  /\ pc' = [pc EXCEPT ![l] = "error"]
  /\ reply' = [reply EXCEPT ![l] = Nothing]
  /\ error' = [error EXCEPT ![l[1]] = "passing"]
  /\ UNCHANGED <<sms, tables, world, receiver, stopped, restarts>>

(* No answer, or an unreadable one; the message in it, if any, is lost. A  *)
(* loop that was put out says nothing of it.                               *)
Fail(l) ==
  /\ pc[l] \in {"ask", "cut"}
  /\ pc' = [pc EXCEPT ![l] = "error"]
  /\ reply' = [reply EXCEPT ![l] = Nothing]
  /\ error' = IF l \in aborted THEN error ELSE [error EXCEPT ![l[1]] = "passing"]
  /\ UNCHANGED <<sms, tables, world, receiver, stopped, restarts>>

(* Codes -23 and -24: the service is unknown or not active. *)
Refuse(l) ==
  /\ pc[l] = "ask" /\ reply[l] = Nothing
  /\ pc' = [pc EXCEPT ![l] = "stopped"]
  /\ error' = [error EXCEPT ![l[1]] = "refused"]
  /\ UNCHANGED <<sms, tables, world, receiver, stopped, reply, restarts>>

(* Codes -80 to -86: the certificate is rejected. *)
Reject(l) ==
  /\ pc[l] = "ask" /\ reply[l] = Nothing
  /\ Pause
  /\ pc' = [Cut EXCEPT ![l] = "stopped"]
  /\ UNCHANGED <<error, stopped, changes>>

(* confirmSms returns or fails, it does not matter which. *)
Finish(l) ==
  /\ pc[l] = "confirm"
  /\ pc' = [pc EXCEPT ![l] = "message"]
  /\ reply' = [reply EXCEPT ![l] = Nothing]
  /\ UNCHANGED <<sms, tables, error, world, receiver, stopped, restarts>>

-----------------------------------------------------------------------------
(* Mutant: the entry of the service leaves, whoever's it is. *)
EndOfService(l) ==
  /\ pc' = [pc EXCEPT ![l] = "off"]
  /\ loops' = {k \in loops : k[1] # l[1]}
  /\ aborted' = aborted \ {l}

(* Mutant: the entry stays. *)
EndOnly(l) ==
  /\ pc' = [pc EXCEPT ![l] = "off"]
  /\ aborted' = aborted \ {l}
  /\ UNCHANGED loops

(* The loop leaves, and with it its entry in the map, if it is still its   *)
(* own.                                                                    *)
End(l) ==
  /\ pc' = [pc EXCEPT ![l] = "off"]
  /\ loops' = loops \ {l}
  /\ aborted' = aborted \ {l}

(* The outcome is known and the turn of the event loop given away once:    *)
(* put out, it leaves; a stopped service is remembered; after a message it *)
(* asks at once, otherwise after a pause.                                  *)
Continue(l) ==
  /\ pc[l] \in Outcome
  /\ IF l \in aborted THEN End(l) /\ UNCHANGED stopped
     ELSE IF pc[l] = "stopped"
     THEN End(l) /\ stopped' = [stopped EXCEPT ![l[1]] = "fresh"]
     ELSE /\ \/ pc[l] # "message" /\ pc' = [pc EXCEPT ![l] = "sleep"]
             \/ pc[l] # "error"   /\ pc' = [pc EXCEPT ![l] = "ask"]
          /\ UNCHANGED <<receiver, stopped>>
  /\ UNCHANGED <<sms, tables, error, world, reply, restarts>>

Wake(l) ==
  /\ pc[l] = "sleep"
  /\ pc' = [pc EXCEPT ![l] = "ask"]
  /\ UNCHANGED <<sms, tables, error, world, receiver, stopped, reply, restarts>>

(* A quarter of an hour has passed since the service was stopped. *)
Ripen(s) ==
  /\ stopped[s] = "fresh"
  /\ stopped' = [stopped EXCEPT ![s] = "due"]
  /\ UNCHANGED <<sms, tables, error, world, receiver, pc, reply, restarts>>

(* The process dies, or is stopped, and starts with a refresh. *)
Restart ==
  LET wanted == Targets(listeners, paused)
      lit    == wanted \X {1}
  IN  /\ restarts < MaxRestarts
      /\ restarts' = restarts + 1
      /\ loops'   = lit
      /\ aborted' = {}
      /\ pc'      = [l \in Loops |-> IF l \in lit THEN "ask" ELSE "off"]
      /\ reply'   = [l \in Loops |-> Nothing]
      /\ stopped' = [s \in Services |-> "no"]
      /\ error'   = [s \in Services |-> IF s \in wanted THEN error[s] ELSE "none"]
      /\ UNCHANGED <<sms, tables, world>>

-----------------------------------------------------------------------------
Ask(l) ==
  Receive(l) \/ StoreFails(l) \/ ReceiveNothing(l) \/ Fail(l) \/ Refuse(l) \/ Reject(l)

Run(l) == Ask(l) \/ Finish(l) \/ Continue(l) \/ Wake(l)

Multiinfo ==
  \/ \E m \in Sms : Arrive(m) \/ ComeAgain(m)
  \/ \E l \in Loops : Confirmed(l) \/ \E m \in Sms : Show(l, m)

Administrator ==
  \/ \E keys \in [Services -> SUBSET Keys] : Save(keys)
  \/ Renew \/ \E renewed \in BOOLEAN : Resume(renewed)

Next ==
  \/ Refresh \/ Multiinfo \/ Administrator
  \/ \E k \in Keys : Expire(k)
  \/ PauseElsewhere
  \/ \E l \in Loops : Run(l)
  \/ \E s \in Services : Ripen(s)
  \/ Restart

Spec == Init /\ [][Next]_vars

(* The timer goes on, requests have a timeout and pauses an end. Of the    *)
(* answers Multiinfo gives again and again, one that shows, hands over or  *)
(* takes the confirmation of a message comes through at last.              *)
FairSpec ==
  /\ Spec
  /\ WF_vars(Refresh)
  /\ \A l \in Loops : WF_vars(Run(l))
  /\ \A s \in Services : WF_vars(Ripen(s))
  /\ \A m \in Sms :
       /\ WF_vars(ComeAgain(m))
       /\ SF_vars(\E l \in Loops : Show(l, m))
       /\ SF_vars(\E l \in Loops : reply[l] = m /\ Receive(l))
       /\ SF_vars(\E l \in Loops : reply[l] = m /\ Confirmed(l))

-----------------------------------------------------------------------------
(* Tables, maps and loops keep their types. *)
TypeOK ==
  /\ sms       \in [Sms -> Place]
  /\ stored    \in SUBSET Sms
  /\ told      \in [Sms -> [Keys -> Nat]]
  /\ error     \in [Services -> {"none", "passing", "refused"}]
  /\ listeners \in [Services -> SUBSET Keys]
  /\ paused    \in BOOLEAN
  /\ loops     \in SUBSET Loops
  /\ stopped   \in [Services -> {"no", "fresh", "due"}]
  /\ pc        \in [Loops -> Wait]
  /\ reply     \in [Loops -> Sms \cup {Nothing}]
  /\ aborted   \in SUBSET Loops
  /\ changes   \in 0..MaxChanges
  /\ restarts  \in 0..MaxRestarts

Busy(l) == pc[l] # "off"

(* A service is asked about by one loop, however often listeners come and  *)
(* go: another loop that is still busy was put out and asks no more.       *)
OneListener ==
  \A l, k \in Loops :
    l[1] = k[1] /\ Busy(l) /\ Busy(k) /\ l \notin aborted /\ k \notin aborted => l = k

(* A service somebody listens to has its loop, unless Multiinfo or the     *)
(* certificate stopped it: no order of changes, refreshes and loops that   *)
(* leave makes the receiver forget it.                                     *)
WantedIsHeard ==
  \A s \in Services :
    Wanted(s) /\ stopped[s] = "no" => \E l \in loops : l[1] = s /\ Busy(l)

(* The error shown for a service is about a loop that runs or was stopped  *)
(* (the comment in refresh): a loop that was put out leaves no error       *)
(* behind that would keep /healthz degraded.                               *)
ErrorIsAboutListening ==
  \A s \in Services : error[s] # "none" => Listened(s) \/ stopped[s] # "no"

(* A message for a service that is listened to for good is kept and taken  *)
(* off Multiinfo in the end, over lost answers, failing transactions,      *)
(* stopped services and restarts.                                          *)
EveryMessageTaken ==
  \A m \in Sms : <>[]Wanted(ServiceOf[m]) => (sms[m] = "waiting" ~> sms[m] = "gone")

-----------------------------------------------------------------------------
(* The inductive invariant behind the safety properties (proved in module  *)
(* InboundProofs).                                                         *)
(* The map holds the loops that were not put out; one that was put out     *)
(* asks no more; what a loop confirms is stored.                           *)
LoopSound(l) ==
  /\ l \in loops <=> Busy(l) /\ l \notin aborted
  /\ l \in aborted => Busy(l) /\ pc[l] \notin {"ask", "sleep"}
  /\ pc[l] = "confirm" => reply[l] \in stored

OneEntry == \A l, k \in loops : l[1] = k[1] => l = k

(* Multiinfo forgets what is stored, and nobody was told of anything else. *)
StoredFirst(m) ==
  /\ sms[m] = "gone" => m \in stored
  /\ m \notin stored => told[m] = [k \in Keys |-> 0]

IInv ==
  /\ TypeOK
  /\ \A l \in Loops : LoopSound(l)
  /\ OneEntry
  /\ \A m \in Sms : StoredFirst(m)
  /\ WantedIsHeard /\ ErrorIsAboutListening

-----------------------------------------------------------------------------
(* The receiver implements Inbox: each message is kept and told once, with *)
(* the same transaction, and confirmed only after that.                    *)
Promise == INSTANCE Inbox WITH
  kept <- stored, forgotten <- {m \in Sms : sms[m] = "gone"}
ImplementsInbox == Promise!Spec
=============================================================================
