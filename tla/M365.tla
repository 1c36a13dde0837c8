-------------------------------- MODULE M365 --------------------------------
(***************************************************************************)
(* A Microsoft 365 account of the gateway: signing in through the browser, *)
(* refreshing the token, disconnecting, changing its application, removing *)
(* it, and the mailboxes that use it (src/src/m365/service.ts, tokens.ts,  *)
(* oauth.ts, mailbox.ts, src/src/store/m365-accounts.ts,                   *)
(* src/src/admin/routes/m365.ts, handleMailForm in routes/integrations.ts).*)
(*                                                                         *)
(* A sign-in waits for the browser and then for Microsoft to redeem its    *)
(* code; a refresh waits for Microsoft. Meanwhile the panel goes on, and   *)
(* the process may die, which loses what it holds in memory.               *)
(*                                                                         *)
(* A refresh token is a number; every answer of Microsoft carries the next *)
(* one. Each belongs to a grant: who signed in, to which application, and  *)
(* the token the sign-in began with. Whether a mailbox can be opened with  *)
(* an access token is MailIn's matter.                                     *)
(***************************************************************************)
EXTENDS Naturals, Sequences

CONSTANTS
  People,    \* Microsoft identities (oid)
  Apps,      \* directory and application
  Sessions,  \* sessions of the panel
  Logins,    \* sign-ins under way at a time
  MaxTokens, \* bound: refresh tokens issued
  MaxTrouble \* bound: restarts, outages, removals

VARIABLES
  (* table m365_accounts, and the mailboxes in integrations *)
  account,   \* the row
  mailbox,   \* a mailbox that signs in with the account is saved
  (* memory *)
  cache,     \* refresh token beside which the access token at hand came, 0: none
  refresh,   \* the refresh under way: its token and application
  login,     \* sign-ins under way
  epoch,     \* changes that end them
  form,      \* the form of a mailbox is being checked
  (* Microsoft *)
  grants,    \* grant of each refresh token issued
  revoked,   \* grants that were withdrawn
  (* history, for the properties only *)
  trouble,   \* what the bound MaxTrouble counts
  failures,  \* outages begun
  notes,     \* outages the administrator was told about, in order
  torn,      \* outages whose report was cut short by a restart
  behind,    \* sign-ins that began before the account was last disconnected
  manualFor  \* whose mailbox address the administrator set

tables  == <<account, mailbox>>
memory  == <<cache, refresh, login, epoch, form>>
ms      == <<grants, revoked>>
history == <<trouble, failures, notes, torn, behind, manualFor>>
vars    == <<tables, memory, ms, history>>

None    == "none"
States  == {"new", "connected", "needs_login", "error"}
Ended   == [at |-> None, app |-> None, session |-> None, epoch |-> 0]
Resting == [used |-> 0, app |-> None]

(* The columns cleared by CLEAR_ERROR. *)
Cleared == [since |-> 0, notified |-> FALSE]

Init ==
  /\ \E app \in Apps :
       account = [there |-> TRUE, app |-> app, state |-> "new", token |-> 0, who |-> None,
                  manual |-> FALSE, error |-> Cleared]
  /\ mailbox = FALSE
  /\ cache = 0 /\ refresh = Resting /\ epoch = 0 /\ form = FALSE
  /\ login = [l \in Logins |-> Ended]
  /\ grants = <<>> /\ revoked = {}
  /\ trouble = 0 /\ failures = 0 /\ notes = <<>> /\ torn = {} /\ behind = {} /\ manualFor = None

Trouble == trouble < MaxTrouble /\ trouble' = trouble + 1

-----------------------------------------------------------------------------
(* Microsoft issues the next refresh token of a grant. *)
Fresh == Len(grants) + 1
Issue(g) == Fresh <= MaxTokens /\ grants' = Append(grants, g)

(* A password change, a withdrawn consent, a closed session. *)
Revoke ==
  /\ account.token # 0 /\ grants[account.token] \notin revoked
  /\ revoked' = revoked \cup {grants[account.token]}
  /\ UNCHANGED <<tables, memory, grants, history>>

-----------------------------------------------------------------------------
(* dropPending: every sign-in of the account is given up, those that       *)
(* redeem their code right now too.                                        *)
DropPending ==
  /\ epoch' = epoch + 1
  /\ login' = [l \in Logins |-> IF login[l].at = "browser" THEN Ended ELSE login[l]]
  /\ behind' = {l \in Logins : login[l].at = "redeeming"}

(* The row as disconnect and a changed application leave it: the identity  *)
(* and the address stay.                                                   *)
Disconnected(app) == [account EXCEPT !.app = app, !.token = 0, !.state = "new", !.error = Cleared]

(* POST /microsoft-365/:id/rozlacz *)
Disconnect ==
  /\ account.there /\ account.token # 0
  /\ Trouble
  /\ account' = Disconnected(account.app)
  /\ cache' = 0 /\ DropPending
  /\ UNCHANGED <<mailbox, refresh, form, ms, failures, notes, torn, manualFor>>

(* POST /microsoft-365/:id: another directory or application. *)
Update(app) ==
  /\ account.there /\ account.app # app
  /\ Trouble
  /\ account' = Disconnected(app)
  /\ cache' = 0 /\ DropPending
  /\ UNCHANGED <<mailbox, refresh, form, ms, failures, notes, torn, manualFor>>

(* POST /microsoft-365/:id/usun, refused while somebody uses the account;  *)
(* and POST /microsoft-365, which adds one with another number.            *)
Remove ==
  /\ account.there /\ ~mailbox
  /\ Trouble
  /\ account' = [account EXCEPT !.there = FALSE, !.token = 0, !.state = "new", !.error = Cleared]
  /\ cache' = 0 /\ DropPending
  /\ UNCHANGED <<mailbox, refresh, form, ms, failures, notes, torn, manualFor>>

(* POST /microsoft-365/:id/adres *)
SetAddress ==
  /\ account.there /\ ~account.manual
  /\ account'   = [account EXCEPT !.manual = TRUE]
  /\ manualFor' = account.who
  /\ UNCHANGED <<mailbox, memory, ms, trouble, failures, notes, torn, behind>>

-----------------------------------------------------------------------------
(* startLogin *)
StartLogin(l, s) ==
  /\ account.there /\ login[l] = Ended
  /\ login' = [login EXCEPT ![l] = [at |-> "browser", app |-> account.app, session |-> s, epoch |-> epoch]]
  /\ behind' = behind \ {l}
  /\ UNCHANGED <<tables, cache, refresh, epoch, form, ms, trouble, failures, notes, torn, manualFor>>

(* finishLogin, up to the exchange of the code. The state is used up.      *)
Return(l, s) ==
  /\ login[l].at = "browser"
  /\ login' = [login EXCEPT ![l] =
       IF s = login[l].session /\ account.there /\ account.app = login[l].app
       THEN [@ EXCEPT !.at = "redeeming"] ELSE Ended]
  /\ UNCHANGED <<tables, cache, refresh, epoch, form, ms, history>>

(* Ten minutes pass, or Microsoft sends the user back with an error.       *)
LoginEnds(l) ==
  /\ login[l].at # None
  /\ login' = [login EXCEPT ![l] = Ended]
  /\ UNCHANGED <<tables, cache, refresh, epoch, form, ms, history>>

Grant(who, app) == [who |-> who, app |-> app, first |-> Fresh]

(* Mutant: the mark of the notification outlives the outage. *)
ConnectedMarked(who) ==
  [account EXCEPT !.state = "connected", !.token = Fresh, !.who = who,
     !.manual = account.who = who /\ account.manual, !.error.since = 0]

(* connected: the row after a sign-in. An address set by hand stays for    *)
(* the same identity only.                                                 *)
Connected(who) ==
  [account EXCEPT !.state = "connected", !.token = Fresh, !.who = who,
     !.manual = account.who = who /\ account.manual, !.error = Cleared]

Redeemed(l, who) ==
  /\ login[l].at = "redeeming"
  /\ Issue(Grant(who, login[l].app))
  /\ login' = [login EXCEPT ![l] = Ended]
  /\ UNCHANGED <<mailbox, refresh, epoch, form, revoked, history>>

(* Mutant: only the settings are compared after the exchange. *)
RedeemSettings(l, who) ==
  /\ Redeemed(l, who)
  /\ IF account.there /\ account.app = login[l].app
     THEN account' = Connected(who) /\ cache' = Fresh
     ELSE UNCHANGED <<account, cache>>

(* finishLogin after the exchange: the account must be as it was when the  *)
(* sign-in began.                                                          *)
Redeem(l, who) ==
  /\ Redeemed(l, who)
  /\ IF account.there /\ epoch = login[l].epoch /\ account.app = login[l].app
     THEN account' = Connected(who) /\ cache' = Fresh
     ELSE UNCHANGED <<account, cache>>

-----------------------------------------------------------------------------
(* access and keepAlive, without an access token at hand: one refresh at a *)
(* time. A new account and one that needs a sign-in never ask Microsoft.   *)
Refresh ==
  /\ account.there /\ account.state \in {"connected", "error"}
  /\ cache = 0 /\ refresh = Resting
  /\ refresh' = [used |-> account.token, app |-> account.app]
  /\ UNCHANGED <<tables, cache, login, epoch, form, ms, history>>

(* The access token runs out. *)
Expire ==
  /\ cache # 0
  /\ cache' = 0
  /\ UNCHANGED <<tables, refresh, login, epoch, form, ms, history>>

Replaced == account.token # refresh.used
Alive    == grants[refresh.used] \notin revoked

Answered ==
  /\ refresh # Resting /\ Alive
  /\ Issue(grants[refresh.used])
  /\ refresh' = Resting
  /\ UNCHANGED <<mailbox, login, epoch, form, revoked, history>>

Keep ==
  /\ account' = [account EXCEPT !.state = "connected", !.token = Fresh, !.error = Cleared]
  /\ cache'   = Fresh

(* Mutant: the answer is taken whatever happened meanwhile. *)
RefreshedBlindly == Answered /\ IF account.there THEN Keep ELSE UNCHANGED <<account, cache>>

(* refreshed, unless the token was replaced meanwhile. *)
Refreshed == Answered /\ IF Replaced THEN UNCHANGED <<account, cache>> ELSE Keep

(* failed, and one notification for an outage that needs the administrator.*)
Since == IF account.error.since = 0 THEN failures + 1 ELSE account.error.since

Fail(state, tells) ==
  /\ account'  = [account EXCEPT !.state = state,
                    !.error = [since |-> Since, notified |-> @.notified \/ tells]]
  /\ failures' = IF account.error.since = 0 THEN failures + 1 ELSE failures
  /\ notes'    = IF tells THEN Append(notes, Since) ELSE notes
  /\ cache'    = 0

Tells == ~account.error.notified

RefreshFails ==
  /\ refresh # Resting
  /\ refresh' = Resting
  /\ UNCHANGED <<mailbox, login, epoch, form, ms, trouble, torn, behind, manualFor>>

(* Mutant: the failure is recorded for whatever token the row has now. *)
RefusedBlindly ==
  /\ RefreshFails /\ ~Alive
  /\ IF account.there THEN Fail("needs_login", Tells) ELSE UNCHANGED <<account, failures, notes, cache>>

(* Microsoft refuses the token for good. *)
Refused ==
  /\ RefreshFails /\ ~Alive
  /\ IF Replaced THEN UNCHANGED <<account, failures, notes, cache>> ELSE Fail("needs_login", Tells)

(* It does not answer, or with an error that passes. *)
Failed ==
  /\ RefreshFails
  /\ account.error.since = 0
  /\ IF Replaced THEN UNCHANGED <<account, failures, notes, cache>> ELSE Fail("error", FALSE)

-----------------------------------------------------------------------------
(* handleMailForm: the account is looked up, then the name of the server   *)
(* is resolved; the mailbox is saved after the wait.                       *)
OpenMailbox ==
  /\ account.there /\ ~mailbox /\ ~form
  /\ form' = TRUE
  /\ UNCHANGED <<tables, cache, refresh, login, epoch, ms, history>>

SaveMailbox ==
  /\ form
  /\ form' = FALSE /\ mailbox' = TRUE
  /\ UNCHANGED <<account, cache, refresh, login, epoch, ms, history>>

RefuseMailbox ==
  /\ form
  /\ form' = FALSE
  /\ UNCHANGED <<tables, cache, refresh, login, epoch, ms, history>>

RemoveMailbox ==
  /\ mailbox
  /\ mailbox' = FALSE
  /\ UNCHANGED <<account, memory, ms, history>>

(* The process dies, possibly between the row that says "needs_login" and  *)
(* the notification about it.                                              *)
Restart ==
  /\ Trouble
  /\ \/ UNCHANGED <<account, failures, torn>>
     \/ /\ refresh # Resting /\ ~Alive /\ ~Replaced /\ Tells
        /\ account'  = [account EXCEPT !.state = "needs_login", !.error.since = Since]
        /\ failures' = IF account.error.since = 0 THEN failures + 1 ELSE failures
        /\ torn'     = torn \cup {Since}
  /\ cache' = 0 /\ refresh' = Resting /\ form' = FALSE /\ epoch' = 0
  /\ login' = [l \in Logins |-> Ended] /\ behind' = {}
  /\ UNCHANGED <<mailbox, ms, notes, manualFor>>

Next ==
  \/ Revoke \/ Disconnect \/ (\E app \in Apps : Update(app)) \/ Remove \/ SetAddress
  \/ \E l \in Logins :
       \/ \E s \in Sessions : StartLogin(l, s) \/ Return(l, s)
       \/ LoginEnds(l)
       \/ \E who \in People : Redeem(l, who)
  \/ Refresh \/ Expire \/ Refreshed \/ Refused \/ Failed
  \/ OpenMailbox \/ SaveMailbox \/ RefuseMailbox \/ RemoveMailbox
  \/ Restart

Spec == Init /\ [][Next]_vars

-----------------------------------------------------------------------------
(* The row, the memory and the tokens keep their types. *)
TypeOK ==
  /\ account.state \in States /\ account.app \in Apps /\ account.token \in 0..MaxTokens
  /\ account.who \in People \cup {None} /\ account.there \in BOOLEAN /\ account.manual \in BOOLEAN
  /\ mailbox \in BOOLEAN /\ form \in BOOLEAN
  /\ cache \in 0..MaxTokens /\ refresh.used \in 0..MaxTokens
  /\ login \in [Logins -> [at : {None, "browser", "redeeming"}, app : Apps \cup {None},
                           session : Sessions \cup {None}, epoch : Nat]]
  /\ \A n \in 1..Len(grants) : grants[n].who \in People /\ grants[n].app \in Apps

(* The access token at hand belongs to the grant the account stands on,    *)
(* and that grant to the application of the account, however a sign-in, a  *)
(* refresh, a disconnection and a change of the application overlap.       *)
GrantIsCurrent ==
  /\ account.token # 0 => grants[account.token].app = account.app
  /\ cache # 0 => account.token # 0 /\ grants[cache] = grants[account.token]

(* A sign-in that began before the account was disconnected, given another *)
(* application or removed does not connect it, though its code is redeemed.*)
DisconnectedStays ==
  [][\A l \in behind : login[l].at = "redeeming" /\ login'[l] = Ended => account'.token \in {0, account.token}]_vars

(* An account asks for a sign-in only when Microsoft refused the grant it  *)
(* stands on: a late refusal of an earlier one does not end a new sign-in. *)
NeedsLoginIsTrue ==
  account.state = "needs_login" => account.token # 0 /\ grants[account.token] \in revoked

(* The administrator is told of every outage that needs a sign-in, and     *)
(* once, unless the process died over the report.                          *)
NeedsLoginIsTold ==
  /\ account.state = "needs_login" =>
       account.error.since \in torn \/ \E n \in 1..Len(notes) : notes[n] = account.error.since
  /\ \A n, k \in 1..Len(notes) : notes[n] = notes[k] => n = k

(* An address set by hand serves the identity it was set for. *)
ManualIsForLogin == account.manual /\ account.token # 0 => account.who = manualFor

(* The panel refuses to remove an account that somebody uses; a mailbox    *)
(* has its account. (Not so: the form of a mailbox looks the account up    *)
(* before it waits for DNS and saves after it.)                            *)
MailboxHasAccount == mailbox => account.there

-----------------------------------------------------------------------------
(* What makes these inductive: TypeOK, in detail; *)
PlacesOK ==
  /\ mailbox \in BOOLEAN /\ form \in BOOLEAN /\ behind \subseteq Logins
  /\ login \in [Logins -> [at : {None, "browser", "redeeming"}, app : Apps \cup {None},
                           session : Sessions \cup {None}, epoch : Nat]]

(* every token in use was issued; the account has one unless it is new;    *)
(* and a refresh is under way with one.                                    *)
Errors == [since : Nat, notified : BOOLEAN]
Rows(n) == [there : BOOLEAN, app : Apps, state : States, token : 0..n, who : People \cup {None},
            manual : BOOLEAN, error : Errors]

TokensIssued ==
  /\ account \in Rows(Len(grants))
  /\ grants \in Seq([who : People, app : Apps, first : Nat]) /\ Len(grants) <= MaxTokens
  /\ cache \in 0..Len(grants) /\ epoch \in Nat
  /\ refresh \in [used : 0..Len(grants), app : Apps \cup {None}]
  /\ refresh # Resting => refresh.used # 0
  /\ account.state = "new" <=> account.token = 0

(* a sign-in is of the present epoch or of an earlier one, and of an       *)
(* earlier one if the account was disconnected while it redeemed its code. *)
EpochsPass ==
  \A l \in Logins :
    /\ login[l].at = "redeeming" => login[l].app \in Apps
    /\ login[l].at # None => login[l].epoch <= epoch
    /\ login[l].at # None /\ l \in behind => login[l].epoch < epoch

(* outages are numbered as they begin; the one that lasts is among those   *)
(* told of if it is marked so, and only then.                              *)
OutagesNumbered ==
  /\ failures \in Nat /\ account.error.since \in 0..failures
  /\ notes \in Seq(1..failures)
  /\ account.error.notified => \E n \in 1..Len(notes) : notes[n] = account.error.since
  /\ account.error.since # 0 /\ ~account.error.notified =>
       \A n \in 1..Len(notes) : notes[n] # account.error.since

IInv ==
  /\ PlacesOK /\ TokensIssued /\ GrantIsCurrent /\ EpochsPass /\ OutagesNumbered
  /\ NeedsLoginIsTrue /\ NeedsLoginIsTold
=============================================================================
