------------------------------- MODULE Forms -------------------------------
(***************************************************************************)
(* The form of an integration and the secrets it never shows               *)
(* (src/src/admin/routes/integrations.ts, integration-form.ts,             *)
(* simple-form.ts, mail-form.ts).                                          *)
(*                                                                         *)
(* A secret is written in a form and not shown again: an empty field means *)
(* the value saved before. The pages of two administrators, or two tabs of *)
(* one, are posted in any order, and a form with an address is saved only  *)
(* after a question to DNS. In the simple mode a form shows a few choices, *)
(* and all the rest comes from what is saved.                              *)
(*                                                                         *)
(* A secret is named by what it was typed for: a header of an outgoing     *)
(* integration, a way of signing in of an incoming one, the server and the *)
(* login of a mailbox. The checks of single fields only refuse a form and  *)
(* are left out, and so are the fields that are neither a choice of the    *)
(* simple mode, a secret nor an address: they are one value, the rest.     *)
(***************************************************************************)
EXTENDS Integers, FiniteSets, SequencesExt

CONSTANTS
  Tabs,        \* open pages
  Names,       \* names of headers
  MaxHeaders,  \* headers of an integration, twenty in the code
  Ways,        \* ways in which an application signs in to a hook
  PresetWays,  \* those of the ready-made setting
  Servers,     \* servers of mailboxes, each with its login
  Listed,      \* choices of the simple mode
  Unlisted,    \* conditions, texts and bodies of one's own
  Rests        \* what the simple mode does not show

VARIABLES
  row,     \* the integration saved, or None
  tab,     \* [Tabs -> a page, a form on its way, or None]
  chosen,  \* ghost: the rest last saved by a form that shows it
  crossed  \* ghost: a form was saved while another one waited for DNS

vars == <<row, tab, chosen, crossed>>

None       == [kind |-> "none"]
Kinds      == {"outgoing", "incoming", "mailbox"}
PresetRest == CHOOSE r \in Rests : TRUE

(* What is saved under a name: h0, h1, ... for headers by their place.     *)
Password == "imap_password"
Headers  == UNION {[places -> Names] : places \in SUBSET (1..MaxHeaders)}
Auths    == {[w \in ways |-> w] : ways \in SUBSET Ways}
Boxes    == {[p \in {Password} |-> s] : s \in Servers} \cup {<<>>}  \* <<>>: Microsoft 365
Uses(kind) == CASE kind = "outgoing" -> Headers
                [] kind = "incoming" -> Auths
                [] kind = "mailbox"  -> Boxes

(* A form: what needs a secret, which secrets are typed in, and the rest.  *)
Forms(kind) ==
  UNION {[uses : {u}, typed : SUBSET DOMAIN u, choice : Listed \cup Unlisted, rest : Rests] : u \in Uses(kind)}

Init ==
  /\ row = None /\ tab = [t \in Tabs |-> None]
  /\ chosen = PresetRest /\ crossed = FALSE

-----------------------------------------------------------------------------
(* Creating one: there is nothing to carry over.                           *)
Create(kind, f) ==
  /\ row = None
  /\ f.typed = DOMAIN f.uses
  /\ row' = [kind |-> kind, uses |-> f.uses, secrets |-> f.uses, choice |-> f.choice, rest |-> f.rest]
  /\ chosen' = f.rest
  /\ UNCHANGED <<tab, crossed>>

(* detectSimple: the lists of the setting can show what is saved. For a    *)
(* mailbox (needsAdvanced) the simple mode sends every field it hides.     *)
Detected ==
  /\ row.kind # "mailbox"
  /\ row.choice \in Listed /\ row.rest = PresetRest
  /\ row.kind = "incoming" => DOMAIN row.uses = PresetWays

Open(t, simple) ==
  /\ row # None
  /\ tab[t].kind \in {"none", "page"}
  /\ simple => Detected
  /\ tab' = [tab EXCEPT ![t] = [kind |-> "page", simple |-> simple]]
  /\ UNCHANGED <<row, chosen, crossed>>

(* Mutant: what the page does not show is taken from the setting. *)
SimpleFromPreset(f) ==
  [f EXCEPT !.rest = PresetRest,
            !.uses = IF row.kind = "incoming" THEN [w \in PresetWays |-> w] ELSE row.uses,
            !.typed = @ \cap DOMAIN (IF row.kind = "incoming" THEN [w \in PresetWays |-> w] ELSE row.uses)]

(* simpleToValues: the choices of the page over what is saved by now; the  *)
(* ways to sign in are those of the setting.                               *)
FromSimple(f) ==
  LET uses == IF row.kind = "incoming" THEN [w \in PresetWays |-> w] ELSE row.uses
  IN [f EXCEPT !.rest = row.rest, !.uses = uses, !.typed = @ \cap DOMAIN uses]

Sent(t, f) == IF tab[t].simple THEN FromSimple(f) ELSE f

(* Mutant: a header takes over the secret of the header in its place. *)
OldRefByPlace(use, ref) == {ref} \cap DOMAIN row.secrets

(* The saved secret an empty field stands for: by the name of the header   *)
(* (the last one, when a name repeats), or under the same name.            *)
OldRef(use, ref) ==
  IF row.kind = "outgoing"
  THEN LET same == {r \in DOMAIN row.uses : row.uses[r] = use}
       IN {r \in same : \A q \in same : q <= r} \cap DOMAIN row.secrets
  ELSE {ref} \cap DOMAIN row.secrets

(* Mutant: the saved password is good for any server. *)
AnyServer(f) == TRUE

(* A mailbox: only for the server and the login it was typed for.          *)
SameServer(f) ==
  f.typed = {} /\ f.uses # <<>> => row.uses = f.uses

Complete(f) ==
  /\ \A ref \in DOMAIN f.uses \ f.typed : OldRef(f.uses[ref], ref) # {}
  /\ row.kind = "mailbox" => SameServer(f)

Built(f, simple) ==
  [kind |-> "form", simple |-> simple, uses |-> f.uses, typed |-> f.typed, choice |-> f.choice, rest |-> f.rest,
   carried |-> [ref \in DOMAIN f.uses \ f.typed |-> CHOOSE r \in OldRef(f.uses[ref], ref) : TRUE]]

(* Carried secrets get the values saved under the names found before the   *)
(* question to DNS. The password of a mailbox stays when none is typed.    *)
Secrets(b) ==
  IF row.kind = "mailbox"
  THEN IF b.typed = {} THEN row.secrets ELSE b.uses
  ELSE [ref \in b.typed \cup {r \in DOMAIN b.carried : b.carried[r] \in DOMAIN row.secrets} |->
          IF ref \in b.typed THEN b.uses[ref] ELSE row.secrets[b.carried[ref]]]

Save(t, b) ==
  /\ row' = [row EXCEPT !.uses = b.uses, !.secrets = Secrets(b), !.choice = b.choice, !.rest = b.rest]
  /\ chosen' = IF b.simple THEN chosen ELSE b.rest
  /\ crossed' = (crossed \/ \E o \in Tabs \ {t} : tab[o].kind = "form")
  /\ tab' = [tab EXCEPT ![t] = None]

(* handleForm and handleMailForm up to the question to DNS, which an       *)
(* incoming integration does not need.                                     *)
Post(t, g) ==
  /\ row # None /\ tab[t].kind = "page"
  /\ tab[t].simple => g.choice \in Listed
  /\ LET f == Sent(t, g)
         b == Built(f, tab[t].simple)
     IN /\ Complete(f)
        /\ IF row.kind = "incoming" THEN Save(t, b)
           ELSE tab' = [tab EXCEPT ![t] = b] /\ UNCHANGED <<row, chosen, crossed>>

(* Refused: by a check, by DNS; the page stands as it was sent.            *)
Refused(t) ==
  /\ tab[t].kind \in {"page", "form"}
  /\ tab' = [tab EXCEPT ![t] = [kind |-> "page", simple |-> tab[t].simple]]
  /\ UNCHANGED <<row, chosen, crossed>>

Resolved(t) ==
  /\ tab[t].kind = "form"
  /\ Save(t, tab[t])

Next ==
  \/ \E kind \in Kinds : \E f \in Forms(kind) : Create(kind, f)
  \/ \E t \in Tabs :
       \/ \E simple \in BOOLEAN : Open(t, simple)
       \/ row # None /\ \E f \in Forms(row.kind) : Post(t, f)
       \/ Refused(t) \/ Resolved(t)

Spec == Init /\ [][Next]_vars

-----------------------------------------------------------------------------
Fit ==
  row # None =>
    \A ref \in DOMAIN row.uses : ref \in DOMAIN row.secrets /\ row.secrets[ref] = row.uses[ref]

(* Every secret an integration needs is there, and is the one typed for    *)
(* that header, that way of signing in, that server: over empty fields,    *)
(* reordered and renamed headers, stale pages, the simple mode. A save     *)
(* during the wait of another form for DNS is set apart.                   *)
SecretsFit == ~crossed => Fit

(* What a page in the simple mode does not show, it does not change, though*)
(* it was opened before another page changed it.                           *)
SimpleKeepsRest == row # None /\ ~crossed => row.rest = chosen

(* routes/integrations.ts: a saved password may be used only towards the   *)
(* same server and login. Two forms that cross leave the password of one   *)
(* server with the address of the other.                                   *)
PasswordStaysWithServer == row.kind = "mailbox" => Fit

(* integration-form.ts: an empty secret is carried over from the header of *)
(* the same name. Two forms that cross put it under another header.        *)
SecretStaysWithHeader == row.kind = "outgoing" => Fit

-----------------------------------------------------------------------------
(* What makes these inductive: a form that waits for DNS and was not       *)
(* crossed still finds what it takes over from the row, under the same     *)
(* names, and its simple mode still hides what is saved.                   *)
Waits(t) == tab[t].kind = "form"

TakesOver(b) ==
  /\ row.kind = "outgoing" =>
       \A ref \in DOMAIN b.uses \ b.typed :
         /\ ref \in DOMAIN b.carried
         /\ b.carried[ref] \in DOMAIN row.uses \cap DOMAIN row.secrets
         /\ row.uses[b.carried[ref]] = b.uses[ref]
  /\ row.kind = "mailbox" => SameServer(b)
  /\ b.simple => b.rest = row.rest

RowOK ==
  /\ row.kind \in Kinds
  /\ row = [kind |-> row.kind, uses |-> row.uses, secrets |-> row.secrets, choice |-> row.choice,
            rest |-> row.rest]
  /\ row.kind = "incoming" => \A way \in DOMAIN row.secrets : row.secrets[way] = way

IInv ==
  /\ row = None \/ RowOK
  /\ tab = [t \in Tabs |-> tab[t]]
  /\ \A t \in Tabs :
       /\ tab[t].kind \in {"none", "page", "form"}
       /\ Waits(t) => row # None /\ row.kind # "incoming"
  /\ ~crossed => Fit /\ SimpleKeepsRest /\ \A t \in Tabs : Waits(t) => TakesOver(tab[t])
=============================================================================
