-------------------------------- MODULE Hooks --------------------------------
(***************************************************************************)
(* An incoming integration: an application posts events to /hooks/, the    *)
(* pipeline guards against repetition and storms, may ask the application  *)
(* for more (enrich) and sends an SMS (src/src/api/hooks.ts,               *)
(* src/src/integrations/pipeline.ts, src/src/store/integration-guards.ts); *)
(* or an SMS group, whose events are the SMS the gateway receives          *)
(* (runSmsGroup, called inside the transaction that stores the SMS).       *)
(*                                                                         *)
(* A request waits twice: for DNS while its source is checked and for the  *)
(* answer to enrich. In between the panel and other requests run, and the  *)
(* process may die. The row of the integration is the one read on arrival; *)
(* the key and its account are read after the first wait.                  *)
(*                                                                         *)
(* Every event has an identifier; one without is not guarded against       *)
(* repetition at all. A day is the life of an identifier.                  *)
(***************************************************************************)
EXTENDS Naturals, Throttle

CONSTANTS
  Events,   \* identifiers of events
  Calls     \* requests under way at a time

VARIABLES
  (* tables integrations, integration_dedup, integration_throttle *)
  row,       \* "on", "off" or "gone"
  config,    \* what the pipeline does with an event
  usable,    \* the key may be used and its account is not paused
  tokens,    \* identifiers of the last day
  window,    \* the storm guard
  (* memory *)
  call,      \* what a request is waiting for, and its event
  (* history, for the properties only *)
  sent,      \* SMS sent for an event within the day
  decided,   \* events that were sent, dropped or refused for good
  broken,    \* events whose handler died
  repeated,  \* events of which a repetition was answered as a duplicate
  passed,    \* events let through in this window
  told       \* notifications about this window

past  == <<sent, decided, broken, repeated, passed, told>>
vars  == <<row, config, usable, tokens, window, call, past>>

Places == {"idle", "checking", "asking"}
Kinds  == {"hook", "group"}
Resting == [at |-> "idle", event |-> "none"]
Config == [kind : Kinds, asks : BOOLEAN, skips : BOOLEAN]

Init ==
  /\ row      = "on"
  /\ config   \in Config
  /\ config.kind = "group" => ~config.asks
  /\ config.skips => config.asks
  /\ usable   = TRUE
  /\ tokens   = {}
  /\ window   = Fresh
  /\ call     = [c \in Calls |-> Resting]
  /\ sent     = [e \in Events |-> 0]
  /\ decided  = {}
  /\ broken   = {}
  /\ repeated = {}
  /\ passed   = 0
  /\ told     = 0

-----------------------------------------------------------------------------
At(c, place) == call[c].at = place
Event(c)     == call[c].event
Go(c, place) == call' = [call EXCEPT ![c].at = place]
Leave(c)     == call' = [call EXCEPT ![c] = Resting]
Asking(e)    == \E c \in Calls : At(c, "asking") /\ Event(c) = e

(* POST /hooks/:hookId, up to the check of its source. A row that is off   *)
(* or gone answers 404, a source that asks too often 429.                  *)
Arrive(c, e) ==
  /\ config.kind = "hook" /\ row = "on"
  /\ At(c, "idle")
  /\ call' = [call EXCEPT ![c] = [at |-> "checking", event |-> e]]
  /\ UNCHANGED <<row, config, usable, tokens, window, past>>

(* The secret or the source is wrong (401, 403), the key or the account    *)
(* cannot be used (503), or the row was removed meanwhile (500).           *)
Refuse(c) ==
  /\ At(c, "checking")
  /\ Leave(c)
  /\ UNCHANGED <<row, config, usable, tokens, window, past>>

Ready(c) == At(c, "checking") /\ row # "gone" /\ usable

Decide(e)  == decided' = decided \cup {e}

(* The condition is not met. *)
Skip(c) ==
  /\ Ready(c)
  /\ Leave(c) /\ Decide(Event(c))
  /\ UNCHANGED <<row, config, usable, tokens, window, sent, broken, repeated, passed, told>>

(* dedup: the identifier is known. *)
Duplicate(c) ==
  /\ Ready(c) /\ Event(c) \in tokens
  /\ Leave(c)
  /\ repeated' = repeated \cup {Event(c)}
  /\ UNCHANGED <<row, config, usable, tokens, window, sent, decided, broken, passed, told>>

(* The storm guard, which keeps the identifier of what it turns away. *)
Guard ==
  /\ window' = After(window, 0)
  /\ passed' = IF Admits(window, 0) THEN passed + 1 ELSE passed
  /\ told'   = IF Tells(window, 0) THEN told + 1 ELSE told

Throttled(c) ==
  /\ Ready(c) /\ Event(c) \notin tokens /\ ~Admits(window, 0)
  /\ tokens' = tokens \cup {Event(c)}
  /\ Guard
  /\ Leave(c) /\ Decide(Event(c))
  /\ UNCHANGED <<row, config, usable, sent, broken, repeated>>

(* Rendering, recipients and dispatch. Whatever is wrong with them is for  *)
(* good: the identifier stays. An SMS of a removed row is refused by the   *)
(* foreign key (500).                                                      *)
Dispatch(e) ==
  IF row = "gone"
  THEN broken' = broken \cup {e} /\ UNCHANGED <<sent, decided>>
  ELSE /\ Decide(e)
       /\ \E sms \in 0..1 : sent' = [sent EXCEPT ![e] = @ + sms]
       /\ UNCHANGED broken

(* passGuards lets the event through; without a question to ask it is      *)
(* dispatched at once.                                                     *)
Passes(c) ==
  /\ Ready(c) /\ Admits(window, 0)
  /\ Guard
  /\ IF config.asks
     THEN Go(c, "asking") /\ UNCHANGED <<sent, decided, broken>>
     ELSE Leave(c) /\ Dispatch(Event(c))
  /\ UNCHANGED <<row, config, usable, repeated>>

(* Mutant: the identifier is taken once there is something to send. *)
PassTokenless(c) == Event(c) \notin tokens /\ Passes(c) /\ UNCHANGED tokens

Pass(c) ==
  /\ Event(c) \notin tokens
  /\ Passes(c)
  /\ tokens' = tokens \cup {Event(c)}

(* enrich has its answer. *)
Answered(c) ==
  /\ At(c, "asking")
  /\ Leave(c) /\ Dispatch(Event(c))
  /\ UNCHANGED <<row, config, usable, tokens, window, repeated, passed, told>>

(* enrich has none: the event is dropped (200), or the application is      *)
(* asked to repeat it (422).                                               *)
Fails(c) ==
  /\ At(c, "asking")
  /\ Leave(c)
  /\ IF config.skips THEN Decide(Event(c)) ELSE UNCHANGED decided
  /\ UNCHANGED <<row, config, usable, window, sent, broken, repeated, passed, told>>

(* Mutant: the identifier stays taken. *)
UnansweredKept(c) == Fails(c) /\ UNCHANGED tokens

Unanswered(c) ==
  /\ Fails(c)
  /\ tokens' = IF config.skips THEN tokens ELSE tokens \ {Event(c)}

-----------------------------------------------------------------------------
(* runSmsGroup, in the transaction of the receiver: whatever happens, the  *)
(* received SMS is stored; a failure is an entry and a notification. An    *)
(* SMS is received once (Inbound), so there is no identifier to take. The  *)
(* confirmation to the sender is one more SMS, not guarded.                *)
Group(e) ==
  /\ config.kind = "group" /\ row = "on" /\ usable
  /\ e \notin decided
  /\ Guard
  /\ IF Admits(window, 0)
     THEN \E sms \in 0..1 : sent' = [sent EXCEPT ![e] = @ + sms]
     ELSE UNCHANGED sent
  /\ Decide(e)
  /\ UNCHANGED <<row, config, usable, tokens, call, broken, repeated>>

-----------------------------------------------------------------------------
(* POST /integracje/:id/wlacz, wylacz. *)
Switch ==
  /\ row # "gone"
  /\ row' = IF row = "on" THEN "off" ELSE "on"
  /\ UNCHANGED <<config, usable, tokens, window, call, past>>

(* POST /integracje/:id/usun: the guards go with the row. *)
Remove ==
  /\ row # "gone"
  /\ row'    = "gone"
  /\ tokens' = {}
  /\ window' = Fresh
  /\ passed' = 0 /\ told' = 0
  /\ UNCHANGED <<config, usable, call, sent, decided, broken, repeated>>

(* keyUsable and pausedReason: the key expires or is revoked, the account  *)
(* is paused and resumed.                                                  *)
Usable ==
  /\ usable' = ~usable
  /\ UNCHANGED <<row, config, tokens, window, call, past>>

WindowPasses ==
  /\ window # Fresh
  /\ window' = Fresh
  /\ passed' = 0 /\ told' = 0
  /\ UNCHANGED <<row, config, usable, tokens, call, sent, decided, broken, repeated>>

(* pruneDedupBefore, a day after the event; enrich waits for seconds. *)
Forget(e) ==
  /\ e \in tokens \cup decided \cup broken \cup repeated /\ ~Asking(e)
  /\ tokens'   = tokens \ {e}
  /\ sent'     = [sent EXCEPT ![e] = 0]
  /\ decided'  = decided \ {e}
  /\ broken'   = broken \ {e}
  /\ repeated' = repeated \ {e}
  /\ UNCHANGED <<row, config, usable, window, call, passed, told>>

(* The process dies: the guards are in the database, the requests are not. *)
Crash ==
  /\ call'   = [c \in Calls |-> Resting]
  /\ broken' = broken \cup {e \in Events : Asking(e)}
  /\ UNCHANGED <<row, config, usable, tokens, window, sent, decided, repeated, passed, told>>

-----------------------------------------------------------------------------
Next ==
  \/ \E c \in Calls :
       \/ \E e \in Events : Arrive(c, e)
       \/ Refuse(c) \/ Skip(c) \/ Duplicate(c) \/ Throttled(c) \/ Pass(c)
       \/ Answered(c) \/ Unanswered(c)
  \/ \E e \in Events : Group(e) \/ Forget(e)
  \/ Switch \/ Remove \/ Usable \/ WindowPasses \/ Crash

Spec == Init /\ [][Next]_vars

-----------------------------------------------------------------------------
(* The tables and the requests keep their types. *)
TypeOK ==
  /\ row \in {"on", "off", "gone"}
  /\ config \in Config
  /\ usable \in BOOLEAN
  /\ tokens \subseteq Events
  /\ window \in Window
  /\ call \in [Calls -> [at : Places, event : Events \cup {"none"}]]
  /\ sent \in [Events -> Nat]
  /\ decided \subseteq Events /\ broken \subseteq Events /\ repeated \subseteq Events
  /\ passed \in Nat /\ told \in Nat

(* An event brings at most one SMS a day, however often the application    *)
(* repeats it, also while the first of its requests still waits for enrich *)
(* and across a crash.                                                     *)
SentOnce == \A e \in Events : sent[e] <= 1

(* An identifier stays taken only for an event that was decided or is      *)
(* being decided: an application that is asked to repeat one can do so.    *)
(* What a crash or a removal interrupted is the exception.                 *)
TokensAreOwed ==
  \A e \in tokens : e \in decided \cup broken \/ Asking(e)

(* A window lets no more events through than its limit, and tells the      *)
(* administrator once.                                                     *)
WindowHolds == passed <= Limit /\ told <= 1

(* The comment on releaseDedup: an application that is asked to repeat an  *)
(* event does not get its repetition back as a duplicate. (Not so: a       *)
(* repetition sent while the first request still waits for enrich is a     *)
(* duplicate already, and the question may fail after it.)                 *)
RepetitionIsHeard ==
  \A e \in repeated : e \in decided \cup broken \/ Asking(e)

-----------------------------------------------------------------------------
(* What makes these inductive: a request under way is of an application,   *)
(* and while it asks, it alone has the identifier of its event, for which  *)
(* no SMS has gone out; what no identifier or entry keeps from being sent  *)
(* was not sent; and the window counts what was let through.               *)
CallOK(c) ==
  /\ ~At(c, "idle") => config.kind = "hook" /\ Event(c) \in Events
  /\ At(c, "asking") /\ row # "gone" =>
       /\ Event(c) \in tokens /\ sent[Event(c)] = 0
       /\ \A d \in Calls : At(d, "asking") /\ Event(d) = Event(c) => d = c

Open(e) == IF config.kind = "group" THEN e \notin decided ELSE row # "gone" /\ e \notin tokens

IInv ==
  /\ TypeOK /\ SentOnce /\ TokensAreOwed
  /\ row = "gone" => tokens = {}
  /\ \A c \in Calls : CallOK(c)
  /\ \A e \in Events : Open(e) => sent[e] = 0
  /\ passed = window.calls /\ told = IF window.notified THEN 1 ELSE 0
=============================================================================
