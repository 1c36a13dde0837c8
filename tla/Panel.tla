------------------------------- MODULE Panel -------------------------------
(***************************************************************************)
(* The components behind the panel, side by side. They share no state, so  *)
(* a behaviour moves one of them, which is chosen at the beginning; the    *)
(* others stay as they began.                                              *)
(***************************************************************************)
EXTENDS Naturals, FiniteSets

CONSTANTS
  Moving,    \* the components that are explored
  Pages,     \* requests of the panel that wait
  (* SignIn *)
  Users, First, Logins, MaxFailures, StageFailures, MaxCodes, MaxChanges,
  (* Certificates *)
  Workers, Loops, Sockets, MaxSwaps,
  (* Keys *)
  Services, Integrations, Keys, Origs,
  (* M365 *)
  People, Apps, FirstApp, Browsers, SignIns, MaxTokens, MaxTrouble,
  (* Forms *)
  Tabs, Names, MaxHeaders, Ways, PresetWays, Servers, Listed, Unlisted, Rests

ASSUME SignInAssumption ==
  /\ First \in Users /\ IsFiniteSet(Logins)
  /\ MaxFailures \in Nat \ {0} /\ StageFailures \in Nat \ {0}
  /\ MaxCodes \in Nat /\ MaxChanges \in Nat
ASSUME SwapsAssumption == MaxSwaps \in Nat /\ Sockets \in Nat \ {0}
ASSUME ActorsAssumption ==
  Loops \cap (Workers \cup Pages) = {} /\ Workers \cap Pages = {}
ASSUME TokensAssumption == MaxTokens \in Nat
ASSUME NamesAssumption == "none" \notin Keys

VARIABLES
  which,    \* the component that moves
  signInMember, signInGone, signInTotp, signInCodes, signInPassword,
  signInSignIn, signInRequest, signInProposed, signInFailures, signInCrossed,
  certMaterial, certAccepted, certActive, certReason, certPool, certCall,
  certLate, certPage, certSaw, keysServices, keysDictionary, keysMade, keysRevoked,
  keysExpired, keysHolds, keysSenders, keysStands, keysEnabled, keysChannel,
  keysForm, keysCrossed, keysStrayed, m365Account, m365Mailbox, m365Cache,
  m365Refresh, m365Login, m365Epoch, m365Form, m365Grants, m365Revoked,
  m365Trouble, m365Failures, m365Notes, m365Torn, m365Behind, m365ManualFor,
  formsRow, formsTab, formsChosen, formsCrossed

SignInOf == INSTANCE SignIn WITH
  member <- signInMember, gone <- signInGone, totp <- signInTotp,
  codes <- signInCodes, password <- signInPassword, signIn <- signInSignIn,
  request <- signInRequest, proposed <- signInProposed,
  failures <- signInFailures, crossed <- signInCrossed

CertificatesOf == INSTANCE Certificates WITH
  material <- certMaterial, accepted <- certAccepted, active <- certActive,
  reason <- certReason, pool <- certPool, call <- certCall, late <- certLate,
  page <- certPage, saw <- certSaw

KeysOf == INSTANCE Keys WITH
  services <- keysServices, dictionary <- keysDictionary, made <- keysMade,
  revoked <- keysRevoked, expired <- keysExpired, holds <- keysHolds,
  senders <- keysSenders, stands <- keysStands, enabled <- keysEnabled,
  channel <- keysChannel, form <- keysForm, crossed <- keysCrossed,
  strayed <- keysStrayed

M365Of == INSTANCE M365 WITH
  Logins <- SignIns, Sessions <- Browsers, account <- m365Account,
  mailbox <- m365Mailbox, cache <- m365Cache, refresh <- m365Refresh,
  login <- m365Login, epoch <- m365Epoch, form <- m365Form,
  grants <- m365Grants, revoked <- m365Revoked, trouble <- m365Trouble,
  failures <- m365Failures, notes <- m365Notes, torn <- m365Torn,
  behind <- m365Behind, manualFor <- m365ManualFor

FormsOf == INSTANCE Forms WITH
  row <- formsRow, tab <- formsTab, chosen <- formsChosen,
  crossed <- formsCrossed

-----------------------------------------------------------------------------
signInVars ==
  <<signInMember, signInGone, signInTotp, signInCodes, signInPassword,
  signInSignIn, signInRequest, signInProposed, signInFailures, signInCrossed>>
certVars ==
  <<certMaterial, certAccepted, certActive, certReason, certPool, certCall,
  certLate, certPage, certSaw>>
keysVars ==
  <<keysServices, keysDictionary, keysMade, keysRevoked, keysExpired,
  keysHolds, keysSenders, keysStands, keysEnabled, keysChannel, keysForm,
  keysCrossed, keysStrayed>>
m365Vars ==
  <<m365Account, m365Mailbox, m365Cache, m365Refresh, m365Login, m365Epoch,
  m365Form, m365Grants, m365Revoked, m365Trouble, m365Failures, m365Notes,
  m365Torn, m365Behind, m365ManualFor>>
formsVars == <<formsRow, formsTab, formsChosen, formsCrossed>>

vars ==
  <<which, signInVars, certVars, keysVars, m365Vars, formsVars>>

(* Where a component may begin in several ways, one that stays put begins  *)
(* in one of them.                                                         *)
Init ==
  /\ which \in Moving
  /\ certAccepted \in (IF which = "certificates" THEN {{}, {0}} ELSE {{}})
  /\ SignInOf!Init /\ CertificatesOf!Init /\ KeysOf!Init /\ M365Of!Init
  /\ FormsOf!Init
  /\ which # "m365" => m365Account.app = FirstApp

SignInMoves ==
  /\ which = "sign-in" /\ SignInOf!Next
  /\ UNCHANGED
       <<which, certVars, keysVars, m365Vars, formsVars>>

CertificatesMove ==
  /\ which = "certificates" /\ CertificatesOf!Next
  /\ UNCHANGED
       <<which, signInVars, keysVars, m365Vars, formsVars>>

KeysMove ==
  /\ which = "keys" /\ KeysOf!Next
  /\ UNCHANGED
       <<which, signInVars, certVars, m365Vars, formsVars>>

M365Moves ==
  /\ which = "m365" /\ M365Of!Next
  /\ UNCHANGED
       <<which, signInVars, certVars, keysVars, formsVars>>

FormsMove ==
  /\ which = "forms" /\ FormsOf!Next
  /\ UNCHANGED
       <<which, signInVars, certVars, keysVars, m365Vars>>

Next ==
  \/ SignInMoves \/ CertificatesMove \/ KeysMove \/ M365Moves
  \/ FormsMove

Spec == Init /\ [][Next]_vars

-----------------------------------------------------------------------------
(* One property for each component; its state keeps its types, too.        *)

(* Sign-in: a session belongs to a user who is there and to the password   *)
(* that holds, whatever requests crossed; somebody can always sign in; and *)
(* attempts that wait for argon2 do not pass the throttle by more than     *)
(* their number.                                                           *)
AccessIsCurrent ==
  which = "sign-in" =>
    /\ SignInOf!TypeOK /\ SignInOf!SessionsAreCurrent
    /\ SignInOf!SomebodyStays /\ SignInOf!FailuresBounded

(* Accounts: Multiinfo is only asked with the credentials that are saved,  *)
(* but for calls that waited for a connection when these changed; and a    *)
(* pause ends only with other ones or with a call that was accepted, of    *)
(* the saved ones unless the request was overtaken.                        *)
CredentialsHold ==
  /\ [](CertificatesOf!TypeOK /\ CertificatesOf!CallsAreCurrent)
  /\ CertificatesOf!ResumedForReason

(* Keys: a key has no sender and serves no service that its account lost,  *)
(* and the channel of the notifications stands on a key that is not        *)
(* revoked, over forms that wait for a name while accounts are edited.     *)
KeysAreCovered ==
  which = "keys" =>
    KeysOf!TypeOK /\ KeysOf!KeysWithinAccount /\ KeysOf!ChannelHasKey

(* Microsoft 365: the tokens at hand are those of the grant and the        *)
(* application of the account; a sign-in overtaken by a disconnection does *)
(* not connect it; and a login is asked for when Microsoft refused that    *)
(* very grant, which the administrator is told of once.                    *)
AccountIsTrue ==
  /\ [](/\ M365Of!TypeOK /\ M365Of!GrantIsCurrent
        /\ M365Of!NeedsLoginIsTrue /\ M365Of!NeedsLoginIsTold)
  /\ M365Of!DisconnectedStays

(* Integrations: over empty fields, reordered headers, other servers,      *)
(* stale pages and the simple mode every secret stays with what it was     *)
(* typed for, and nothing changes that the page did not show.              *)
SecretsStay ==
  which = "forms" => FormsOf!SecretsFit /\ FormsOf!SimpleKeepsRest
=============================================================================
