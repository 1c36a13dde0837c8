-------------------------------- MODULE Keys --------------------------------
(***************************************************************************)
(* API keys, what an account lends them and what stands on them            *)
(* (src/src/admin/routes/keys.ts, accounts.ts, integrations.ts,            *)
(* notifications.ts, src/src/store/api-keys.ts, accounts.ts,               *)
(* integrations.ts, src/src/api/auth.ts, submit.ts).                       *)
(*                                                                         *)
(* A key holds services and senders of its account; integrations and the   *)
(* SMS channel of notifications stand on a key. The panel refuses to take  *)
(* away what is in use. A form with an address is checked, waits for the   *)
(* name of the server to be resolved, and is saved as it was checked;      *)
(* every other request runs at one go.                                     *)
(*                                                                         *)
(* One account. Names, limits, secrets and default senders are left out: a *)
(* default is one of the senders of the same form.                         *)
(***************************************************************************)
EXTENDS Naturals, FiniteSets

CONSTANTS
  Services,      \* identifiers of services of Multiinfo
  Origs,         \* senders
  Keys,
  Integrations,
  Pages          \* requests of the panel that wait for a name

VARIABLES
  services,     \* account_services
  dictionary,   \* account_origs
  made,         \* rows of api_keys
  revoked,      \* those with revoked_at
  expired,      \* those past expires_at
  holds,        \* api_key_services
  senders,      \* api_key_origs
  stands,       \* integrations: the key of a row, or None
  enabled,      \* integrations.enabled
  channel,      \* sms_notify_settings
  form,         \* a form that was checked and waits
  crossed,      \* history: forms during whose wait the account lost services
  strayed       \* history: keys saved by such a form

keyTable == <<made, revoked, expired, holds, senders>>
account  == <<services, dictionary>>
users    == <<stands, enabled, channel>>
history  == <<crossed, strayed>>
vars     == <<account, keyTable, users, form, history>>

None    == "none"
Choices == [services : SUBSET Services \ {{}}, senders : SUBSET Origs]
NoForm  == [kind |-> None]
Channel == [on : BOOLEAN, key : Keys \cup {None}, orig : Origs \cup {None}]

Init ==
  /\ services = Services /\ dictionary = Origs
  /\ made = {} /\ revoked = {} /\ expired = {}
  /\ holds   = [k \in Keys |-> {}]
  /\ senders = [k \in Keys |-> {}]
  /\ stands  = [i \in Integrations |-> None]
  /\ enabled = {}
  /\ channel = [on |-> FALSE, key |-> None, orig |-> None]
  /\ form    = [p \in Pages |-> NoForm]
  /\ crossed = {} /\ strayed = {}

Live   == made \ revoked
Usable == Live \ expired   \* keyUsable

(* What a request that presents the key may send with: authenticate, then  *)
(* submitMessages.                                                         *)
Serves(k, service) == k \in Usable /\ service \in holds[k]

-----------------------------------------------------------------------------
(* Forms of keys. *)

(* check, against the account as it is now. *)
Checks(choice) == choice.services \subseteq services /\ choice.senders \subseteq dictionary

Wait(p, what) ==
  /\ form[p] = NoForm
  /\ form' = [form EXCEPT ![p] = what]
  /\ UNCHANGED <<account, keyTable, users, history>>

(* POST /klucze and POST /klucze/:id/edytuj, up to webhookError. *)
OpenKey(p, k, choice) ==
  /\ k \notin revoked /\ Checks(choice)
  /\ Wait(p, [kind |-> "key", key |-> k, new |-> k \notin made, choice |-> choice])

Closed(p) ==
  /\ form' = [form EXCEPT ![p] = NoForm]
  /\ crossed' = crossed \ {p}

(* The channel sends as the sender the key would lose. *)
TakesChannel(k, choice) ==
  channel.on /\ channel.key = k /\ channel.orig # None /\ channel.orig \notin choice.senders

(* Mutant: the senders are written without the foreign key. *)
WriteUnchecked(k, choice) ==
  /\ made'    = made \cup {k}
  /\ holds'   = [holds EXCEPT ![k] = choice.services]
  /\ senders' = [senders EXCEPT ![k] = choice.senders]
  /\ expired' = expired \ {k}

(* insert, update: api_key_origs refers to account_origs, so that a sender *)
(* the account lost fails the whole transaction. A service is only a text. *)
Write(k, choice) ==
  /\ choice.senders \subseteq dictionary
  /\ WriteUnchecked(k, choice)

SaveKey(p) ==
  LET f == form[p]
  IN  /\ f.kind = "key"
      /\ f.new <=> f.key \notin made
      /\ ~f.new => ~TakesChannel(f.key, f.choice)
      /\ Write(f.key, f.choice)
      /\ Closed(p)
      /\ strayed' = IF p \in crossed THEN strayed \cup {f.key} ELSE strayed \ {f.key}
      /\ UNCHANGED <<account, revoked, users>>

(* The name is not resolved, or the save is refused. *)
GiveUp(p) ==
  /\ form[p] # NoForm
  /\ Closed(p)
  /\ UNCHANGED <<account, keyTable, users, strayed>>

(* Mutant: the channel of notifications is not asked. *)
RevokeUsed(k) ==
  /\ k \in made
  /\ \A i \in enabled : stands[i] # k
  /\ revoked' = revoked \cup {k}
  /\ UNCHANGED <<account, made, expired, holds, senders, users, form, history>>

(* POST /klucze/:id/odwolaj. *)
Revoke(k) ==
  /\ k \in made
  /\ \A i \in enabled : stands[i] # k
  /\ ~(channel.on /\ channel.key = k)
  /\ revoked' = revoked \cup {k}
  /\ UNCHANGED <<account, made, expired, holds, senders, users, form, history>>

Expire(k) ==
  /\ k \in made \ expired
  /\ expired' = expired \cup {k}
  /\ UNCHANGED <<account, made, revoked, holds, senders, users, form, history>>

-----------------------------------------------------------------------------
(* The account. *)

(* serviceIdsInUse. *)
InUse == UNION {holds[k] : k \in Live}

(* Mutant: services in use may go. *)
TakeServices(to) ==
  /\ to # {}
  /\ services' = to
  /\ crossed' = crossed \cup {p \in Pages : form[p].kind = "key" /\ ~(form[p].choice.services \subseteq to)}
  /\ UNCHANGED <<dictionary, keyTable, users, form, strayed>>

(* POST /konta/:id/edytuj. *)
EditServices(to) ==
  /\ to # {}
  /\ (services \ to) \cap InUse = {}
  /\ services' = to
  /\ crossed' = crossed \cup {p \in Pages : form[p].kind = "key" /\ ~(form[p].choice.services \subseteq to)}
  /\ UNCHANGED <<dictionary, keyTable, users, form, strayed>>

(* POST /konta/:id/nadpisy: setOrigs, which takes the sender from its keys. *)
SetOrigs(to) ==
  /\ dictionary' = to
  /\ senders' = [k \in Keys |-> senders[k] \cap to]
  /\ UNCHANGED <<services, made, revoked, expired, holds, users, form, history>>

-----------------------------------------------------------------------------
(* Integrations. *)

(* keyCheck, then the address is looked up. An edit keeps the key.         *)
OpenIntegration(p, i, k, on) ==
  /\ k \in Usable
  /\ stands[i] \in {None, k}
  /\ Wait(p, [kind |-> "integration", row |-> i, key |-> k, on |-> on, new |-> stands[i] = None])

(* insert, update. *)
WriteIntegration(i, k, on) ==
  /\ stands'  = [stands EXCEPT ![i] = k]
  /\ enabled' = IF on THEN enabled \cup {i} ELSE enabled \ {i}

(* Groups and Power Automate have no address: checked and saved at one go. *)
SaveAtOnce(i, k, on) ==
  /\ k \in Usable
  /\ stands[i] \in {None, k}
  /\ WriteIntegration(i, k, on)
  /\ UNCHANGED <<account, keyTable, channel, form, history>>

(* A row that was removed meanwhile is not written, and the page fails.    *)
SaveIntegration(p) ==
  LET f == form[p]
  IN  /\ f.kind = "integration"
      /\ stands[f.row] = IF f.new THEN None ELSE f.key
      /\ WriteIntegration(f.row, f.key, f.on)
      /\ Closed(p)
      /\ UNCHANGED <<account, keyTable, channel, strayed>>

(* POST /integracje/:id/wlacz and wylacz: the key is not looked at.        *)
SetEnabled(i, on) ==
  /\ stands[i] # None
  /\ enabled' = IF on THEN enabled \cup {i} ELSE enabled \ {i}
  /\ UNCHANGED <<account, keyTable, stands, channel, form, history>>

RemoveIntegration(i) ==
  /\ stands[i] # None
  /\ stands'  = [stands EXCEPT ![i] = None]
  /\ enabled' = enabled \ {i}
  /\ UNCHANGED <<account, keyTable, channel, form, history>>

(* POST /integracje/:id/kopiuj: the copy is off, on the same key. *)
Copy(i, j) ==
  /\ stands[i] # None /\ stands[j] = None
  /\ stands' = [stands EXCEPT ![j] = stands[i]]
  /\ UNCHANGED <<account, keyTable, enabled, channel, form, history>>

-----------------------------------------------------------------------------
(* POST /powiadomienia/sms: a channel that is on needs a usable key. *)
SaveChannel(on, k, orig) ==
  /\ k # None => k \in Live
  /\ on => k \in Usable
  /\ orig # None => k # None /\ orig \in senders[k]
  /\ channel' = [on |-> on, key |-> k, orig |-> orig]
  /\ UNCHANGED <<account, keyTable, stands, enabled, form, history>>

-----------------------------------------------------------------------------
Next ==
  \/ \E p \in Pages :
       \/ \E k \in Keys :
            \/ \E choice \in Choices : OpenKey(p, k, choice)
            \/ \E i \in Integrations, on \in BOOLEAN : OpenIntegration(p, i, k, on)
       \/ SaveKey(p) \/ SaveIntegration(p) \/ GiveUp(p)
  \/ \E k \in Keys : Revoke(k) \/ Expire(k)
  \/ \E to \in SUBSET Services : EditServices(to)
  \/ \E to \in SUBSET Origs : SetOrigs(to)
  \/ \E i \in Integrations :
       \/ \E on \in BOOLEAN :
            \/ SetEnabled(i, on)
            \/ \E k \in Keys : SaveAtOnce(i, k, on)
       \/ RemoveIntegration(i)
       \/ \E j \in Integrations : Copy(i, j)
  \/ \E on \in BOOLEAN, k \in Keys \cup {None}, orig \in Origs \cup {None} :
       SaveChannel(on, k, orig)

Spec == Init /\ [][Next]_vars

-----------------------------------------------------------------------------
(* Tables and forms keep their types. *)
TypeOK ==
  /\ services \subseteq Services /\ dictionary \subseteq Origs
  /\ made \subseteq Keys /\ revoked \subseteq made /\ expired \subseteq made
  /\ holds \in [Keys -> SUBSET Services] /\ senders \in [Keys -> SUBSET Origs]
  /\ stands \in [Integrations -> Keys \cup {None}]
  /\ enabled \subseteq {i \in Integrations : stands[i] # None}
  /\ channel \in Channel
  /\ crossed \subseteq {p \in Pages : form[p].kind = "key"}
  /\ strayed \subseteq made

(* A key sends nothing its account does not have: it holds no sender the   *)
(* account lost, and serves no service the account lost, unless the form   *)
(* that saved the key waited for a name while the account was edited.      *)
KeysWithinAccount ==
  /\ \A k \in Keys : senders[k] \subseteq dictionary
  /\ \A k \in Keys \ strayed, s \in Services : Serves(k, s) => s \in services

(* The channel of notifications never stands on a revoked key. *)
ChannelHasKey == channel.on => channel.key \in Live

(* What keys.ts promises of integrations: an enabled one stands on a key   *)
(* that was not revoked.                                                   *)
EnabledHasKey == \A i \in enabled : stands[i] \in Live

-----------------------------------------------------------------------------
(* What makes these inductive: a form holds what its kind has, a key that  *)
(* is not revoked holds services of the account, and so does a form that   *)
(* was checked and not crossed.                                            *)
FormOK(p) ==
  \/ form[p] = NoForm
  \/ form[p] \in [kind : {"key"}, key : Keys, new : BOOLEAN, choice : Choices]
  \/ form[p] \in [kind : {"integration"}, row : Integrations, key : Keys,
                  on : BOOLEAN, new : BOOLEAN]

IInv ==
  /\ TypeOK /\ ChannelHasKey
  /\ form = [p \in Pages |-> form[p]] /\ \A p \in Pages : FormOK(p)
  /\ \A k \in Keys : senders[k] \subseteq dictionary
  /\ \A k \in Live \ strayed : holds[k] \subseteq services
  /\ \A p \in Pages \ crossed : form[p].kind = "key" => form[p].choice.services \subseteq services
=============================================================================
