------------------------------ MODULE FlowCalls ------------------------------
(***************************************************************************)
(* Calls of an integration with Power Automate                             *)
(* (src/src/api/pa-integrations.ts, src/src/integrations/power-automate.ts,*)
(* and submitMessages and submitPackage in src/src/api): an SMS to one     *)
(* number, a package to a list in the call, an SMS to the group, whose     *)
(* list is the administrator's. A flow repeats a call whose answer it did  *)
(* not get, with the same idempotency key and the same data.               *)
(*                                                                         *)
(* A call runs without a wait, so it is one step. The messages of a list   *)
(* keep the key together with their position in it.                        *)
(***************************************************************************)
EXTENDS Naturals, Sequences, FiniteSets, SequencesExt, Throttle

CONSTANTS
  Phones,   \* numbers
  Lists,    \* lists of recipients the administrator writes
  Keys      \* idempotency keys

VARIABLES
  (* tables integrations, integration_throttle, messages, packages *)
  enabled,   \* the integration is switched on
  usable,    \* its key may be used and the account is not paused
  list,      \* config.recipients
  window,    \* the storm guard
  placed,    \* the number that was sent to, by key and position (0: no list)
  packaged,  \* keys of packages
  (* history, for the properties only *)
  action,    \* what a key stands for
  got,       \* SMS a number was sent under a key
  edited,    \* keys used before the list was changed
  out        \* SMS sent within the window

tables == <<enabled, usable, list, window, placed, packaged>>
past   == <<action, got, edited, out>>
vars   == <<tables, past>>

Nobody    == "nobody"
Longest   == CHOOSE n \in {Len(l) : l \in Lists} : \A l \in Lists : Len(l) <= n
Actions   == {"sms", "package", "group"}
Target    == CHOOSE p \in Phones : TRUE   \* `to` of every call for one number

Init ==
  /\ enabled  = TRUE
  /\ usable   = TRUE
  /\ list     \in Lists
  /\ window   = Fresh
  /\ placed   = [k \in Keys |-> [i \in 0..Longest |-> Nobody]]
  /\ packaged = {}
  /\ action   \in [Keys -> Actions]
  /\ got      = [k \in Keys |-> [p \in Phones |-> 0]]
  /\ edited   = {}
  /\ out      = 0

-----------------------------------------------------------------------------
(* Whom a call is for. *)
Recipients(k) ==
  CASE action[k] = "sms"     -> <<Target>>
    [] action[k] = "package" -> SetToSeq(Phones)
    [] action[k] = "group"   -> list

(* The positions the key of a list is kept under: `key`, or `key#0`, ...   *)
Positions(l) == IF Len(l) = 1 THEN {0} ELSE 1..Len(l)
Number(l, i) == IF i = 0 THEN l[1] ELSE l[i]

(* Mutant: one message under the key is enough. *)
SeenSome(k) ==
  IF action[k] = "package" THEN k \in packaged
  ELSE \E i \in Positions(Recipients(k)) : placed[k][i] # Nobody

(* seenBefore: the call repeats one that sent to a list as long. *)
Seen(k) ==
  IF action[k] = "package" THEN k \in packaged
  ELSE /\ Recipients(k) # <<>>
       /\ \A i \in Positions(Recipients(k)) : placed[k][i] # Nobody

(* submitMessages: a position the key was used for keeps its number. *)
Conflict(k) ==
  /\ action[k] # "package"
  /\ \E i \in Positions(Recipients(k)) :
       placed[k][i] \notin {Nobody, Number(Recipients(k), i)}

(* Mutant: the key is not looked up. *)
AllPositions(k) == Positions(Recipients(k))

(* What is sent: to every position that the key was not used for. *)
NewPositions(k) == {i \in Positions(Recipients(k)) : placed[k][i] = Nobody}

Sends(k) ==
  IF action[k] = "package"
  THEN IF k \in packaged THEN {} ELSE 1..Len(Recipients(k))
  ELSE NewPositions(k)

(* The call is put on the queue. *)
Submit(k) ==
  /\ IF action[k] = "package"
     THEN packaged' = packaged \cup {k} /\ UNCHANGED placed
     ELSE /\ placed' = [placed EXCEPT ![k] = [i \in 0..Longest |->
                          IF i \in Positions(Recipients(k)) THEN Number(Recipients(k), i) ELSE @[i]]]
          /\ UNCHANGED packaged
  /\ got' = [got EXCEPT ![k] = [p \in Phones |->
               @[p] + Cardinality({i \in Sends(k) : Number(Recipients(k), i) = p})]]
  /\ out' = out + Cardinality(Sends(k))

Nothing == UNCHANGED <<placed, packaged, got, out>>

(* POST /v1/integrations/:id/(messages|packages|group). Turned away: the   *)
(* integration is off, its key or account cannot be used, the body is      *)
(* wrong; nothing is counted. A repetition does not count for the storm    *)
(* guard; an empty list, a conflict and a text that is too long are found  *)
(* after it.                                                               *)
Turned(k) == ~Seen(k) /\ ~Admits(window, Len(Recipients(k)))

Call(k) ==
  /\ enabled /\ usable
  /\ window' = IF Seen(k) THEN window ELSE After(window, Len(Recipients(k)))
  /\ IF Turned(k) \/ Recipients(k) = <<>> \/ Conflict(k)
     THEN Nothing
     ELSE Nothing \/ Submit(k)
  /\ UNCHANGED <<enabled, usable, list, action, edited>>

(* A call without a key cannot be repeated. *)
CallOnce ==
  /\ enabled /\ usable
  /\ window' = After(window, 1)
  /\ out'    = IF Admits(window, 1) THEN out + 1 ELSE out
  /\ UNCHANGED <<enabled, usable, list, placed, packaged, action, got, edited>>

(* The administrator's form. *)
Edit(l) ==
  /\ l # list
  /\ list'   = l
  /\ edited' = edited \cup {k \in Keys : action[k] = "group" /\ \E p \in Phones : got[k][p] > 0}
  /\ UNCHANGED <<enabled, usable, window, placed, packaged, action, got, out>>

Switch ==
  /\ enabled' = ~enabled
  /\ UNCHANGED <<usable, list, window, placed, packaged, past>>

(* keyUsable and pausedReason. *)
Usable ==
  /\ usable' = ~usable
  /\ UNCHANGED <<enabled, list, window, placed, packaged, past>>

WindowPasses ==
  /\ window # Fresh
  /\ window' = Fresh
  /\ out'    = 0
  /\ UNCHANGED <<enabled, usable, list, placed, packaged, action, got, edited>>

Next ==
  \/ \E k \in Keys : Call(k)
  \/ \E l \in Lists : Edit(l)
  \/ CallOnce \/ Switch \/ Usable \/ WindowPasses

Spec == Init /\ [][Next]_vars

-----------------------------------------------------------------------------
(* The tables keep their types. *)
TypeOK ==
  /\ enabled \in BOOLEAN /\ usable \in BOOLEAN
  /\ list \in Lists
  /\ window \in Window
  /\ placed \in [Keys -> [0..Longest -> Phones \cup {Nobody}]]
  /\ packaged \subseteq Keys
  /\ action \in [Keys -> Actions]
  /\ got \in [Keys -> [Phones -> Nat]]
  /\ edited \subseteq Keys
  /\ out \in Nat

(* A flow that loops stops: within a window no more SMS are sent than its  *)
(* limit of recipients, repetitions and lists that have grown included.    *)
LoopsStop == out <= RecipientLimit

(* A call repeated with its key sends nobody the SMS twice, as long as the *)
(* list of the group is what it was.                                       *)
RepeatsSendNothing ==
  \A k \in Keys \ edited : \A p \in Phones : got[k][p] <= 1

(* docs/power-automate.md: a call repeated with the same key and the same  *)
(* data returns the first answer instead of sending a second SMS. (Not so  *)
(* once the list of the group has grown to or shrunk from one number: that *)
(* one keeps the key without a position.)                                  *)
KeysSendOnce == \A k \in Keys : \A p \in Phones : got[k][p] <= 1

-----------------------------------------------------------------------------
(* What makes these inductive: a key was not used yet, or it is found for  *)
(* all of its list and sent something to somebody; and every SMS of a      *)
(* window is counted by the guard.                                         *)
Untried(k) ==
  /\ k \notin packaged
  /\ \A i \in 0..Longest : placed[k][i] = Nobody
  /\ \A p \in Phones : got[k][p] = 0

Answered(k) ==
  Seen(k) /\ \E p \in Phones : got[k][p] > 0

IInv ==
  /\ TypeOK /\ RepeatsSendNothing
  /\ out <= window.recipients
  /\ \A k \in Keys \ edited : Untried(k) \/ Answered(k)
=============================================================================
