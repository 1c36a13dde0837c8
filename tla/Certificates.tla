---------------------------- MODULE Certificates ----------------------------
(***************************************************************************)
(* The credentials of an account, its client and its pause                 *)
(* (src/src/admin/routes/accounts.ts, src/src/store/accounts.ts,           *)
(* src/src/worker/clients.ts, certificate.ts, the transport of             *)
(* src/src/multiinfo/client.ts).                                           *)
(*                                                                         *)
(* Workers and the panel ask Multiinfo through the one client the pool     *)
(* keeps for the account. A rejection of the certificate pauses the account *)
(* and closes the client; new credentials close it, too. Closing a client  *)
(* destroys its connections and so cuts the calls that have one; a call    *)
(* that waits for one, because all of them are taken, then gets a new one  *)
(* and goes on with the old credentials. Which calls have a connection is  *)
(* left open. The panel reads the account, waits for a form, a probe and   *)
(* the inspection of the certificate, and resumes what it saw paused.      *)
(*                                                                         *)
(* Credentials are numbered; which of them Multiinfo accepts is a choice.  *)
(* A certificate of another login is refused by the form and never saved.  *)
(***************************************************************************)
EXTENDS Naturals, FiniteSets

CONSTANTS
  Workers,   \* handlers of jobs and cancellations
  Loops,     \* loops of the receiver, whose connections are not limited
  Pages,     \* requests of the panel
  Sockets,   \* maxSockets of a client, four in the code
  MaxSwaps   \* bound: how often credentials change

VARIABLES
  material,  \* accounts: the number of the credentials saved
  accepted,  \* the credentials Multiinfo accepts
  active,    \* accounts.active, 0 together with paused_reason
  reason,    \* the credentials whose rejection is paused_reason
  pool,      \* the credentials of the client in the pool
  call,      \* a call under way: the credentials of its client
  late,      \* those whose call goes on although its client was closed
  page,      \* what a request of the panel waits for
  saw        \* whether it saw the account paused

account   == <<material, accepted, active, reason>>
vars      == <<account, pool, call, late, page, saw>>

Credentials == 0..MaxSwaps
None == MaxSwaps + 1   \* no client, no call
Cut  == MaxSwaps + 2   \* a call whose connection was closed
Actors == Workers \cup Loops \cup Pages

Init ==
  /\ material = 0 /\ accepted \in {{}, {0}}
  /\ active = TRUE /\ reason = None
  /\ pool = None
  /\ call = [a \in Actors |-> None] /\ late = {}
  /\ page = [p \in Pages |-> "none"]
  /\ saw  = [p \in Pages |-> FALSE]

-----------------------------------------------------------------------------
(* ClientPool. *)

(* for: the client of the pool, or a new one of what is saved; it is asked *)
(* at once.                                                                *)
Through(a) ==
  LET client == IF pool = None THEN material ELSE pool
  IN  pool' = client /\ call' = [call EXCEPT ![a] = client] /\ UNCHANGED late

(* The calls of the client in the pool, and those of them that wait for a  *)
(* connection.                                                             *)
Calling == {a \in Actors \ late : call[a] \in Credentials}

Waiting(w) ==
  LET sharing == Calling \ Loops
  IN  /\ w \subseteq sharing
      /\ IF Cardinality(sharing) <= Sockets THEN w = {} ELSE Cardinality(sharing \ w) = Sockets

(* close: agent.destroy() destroys the connections in use and leaves alone *)
(* the calls that wait for one.                                            *)
Closed(w) == [a \in Actors |-> IF a \in Calling \ w THEN Cut ELSE call[a]]

(* invalidate. *)
Invalidate(w, calls) == pool' = None /\ call' = calls /\ late' = late \cup w

-----------------------------------------------------------------------------
(* Multiinfo and the workers. *)

(* A send, a package or the receiver asks of an active account only; a     *)
(* poll asks of any.                                                       *)
Ask(w, checked) ==
  /\ call[w] = None
  /\ checked => active
  /\ Through(w)
  /\ UNCHANGED <<account, page, saw>>

(* A call is over. *)
Ended(a) == call' = [call EXCEPT ![a] = None] /\ late' = late \ {a}

(* Any other answer, no answer in time, or the connection was cut. *)
Finish(w) ==
  /\ call[w] # None
  /\ Ended(w)
  /\ UNCHANGED <<account, pool, page, saw>>

(* pauseForCertificate. *)
Pause(gen) ==
  /\ active' = FALSE /\ reason' = gen
  /\ UNCHANGED <<material, accepted>>

(* Whichever client the answer came through, the one of the pool is closed. *)
Reject(w) ==
  /\ call[w] \in Credentials \ accepted
  /\ Pause(call[w])
  /\ pool' = None
  /\ \E q \in SUBSET (Actors \ {w}) :
       /\ Waiting(q)
       /\ call' = [Closed(q) EXCEPT ![w] = None]
       /\ late' = (late \cup q) \ {w}
  /\ UNCHANGED <<page, saw>>

(* DELETE /v1/messages/:id only reports it. *)
Report(w) ==
  /\ call[w] \in Credentials \ accepted
  /\ Ended(w)
  /\ UNCHANGED <<account, pool, page, saw>>

-----------------------------------------------------------------------------
(* The panel. *)
Done(p) == page' = [page EXCEPT ![p] = "none"] /\ saw' = [saw EXCEPT ![p] = FALSE]

Begin(p, what) ==
  /\ page' = [page EXCEPT ![p] = what]
  /\ saw'  = [saw EXCEPT ![p] = ~active]

(* resumeIfPaused, of the row the request read at its beginning. *)
ResumeIfPaused(p) ==
  IF saw[p] THEN active' = TRUE /\ reason' = None ELSE UNCHANGED <<active, reason>>

(* New credentials: accepted or not, nobody knows yet. *)
Save ==
  /\ material < MaxSwaps
  /\ material' = material + 1
  /\ accepted' \in {accepted, accepted \cup {material + 1}}

(* POST /konta/:id/certyfikat: the account is read before the form. *)
OpenForm(p) ==
  /\ page[p] = "none"
  /\ Begin(p, "form")
  /\ UNCHANGED <<account, pool, call, late>>

(* updateCertificate, invalidate, resumeIfPaused. *)
Replace(p) ==
  /\ page[p] = "form"
  /\ Save
  /\ \E w \in SUBSET Actors : Waiting(w) /\ Invalidate(w, Closed(w))
  /\ ResumeIfPaused(p)
  /\ Done(p)

(* No file, not a PKCS#12 file, or the name in it is not the login. *)
RefuseForm(p) ==
  /\ page[p] = "form"
  /\ Done(p)
  /\ UNCHANGED <<account, pool, call, late>>

(* Mutant: the client keeps the old password. *)
EditKeeping(p) ==
  /\ page[p] = "none"
  /\ Begin(p, "edited")
  /\ Save
  /\ Through(p)
  /\ UNCHANGED <<active, reason>>

(* POST /konta/:id/edytuj with a new password or address: a probe follows  *)
(* through a new client.                                                   *)
Edit(p) ==
  /\ page[p] = "none"
  /\ Begin(p, "edited")
  /\ Save
  /\ pool' = material'
  /\ \E w \in SUBSET Actors :
       /\ Waiting(w)
       /\ call' = [Closed(w) EXCEPT ![p] = material']
       /\ late' = late \cup w
  /\ UNCHANGED <<active, reason>>

(* POST /konta/:id/sprawdz. *)
Check(p) ==
  /\ page[p] = "none"
  /\ Begin(p, "checked")
  /\ Through(p)
  /\ UNCHANGED account

(* The probe after an edit succeeds and resumes. *)
EditOk(p) ==
  /\ page[p] = "edited" /\ call[p] \in accepted
  /\ ResumeIfPaused(p)
  /\ Done(p) /\ Ended(p)
  /\ UNCHANGED <<material, accepted, pool>>

(* A check that succeeds has the certificate inspected, through the same   *)
(* client; what comes of that does not matter, only the time it takes.     *)
CheckOk(p) ==
  /\ page[p] = "checked" /\ call[p] \in accepted
  /\ page' = [page EXCEPT ![p] = "inspected"]
  /\ UNCHANGED <<account, pool, call, late, saw>>

Inspected(p) ==
  /\ page[p] = "inspected"
  /\ ResumeIfPaused(p)
  /\ Done(p) /\ Ended(p)
  /\ UNCHANGED <<material, accepted, pool>>

(* A probe that fails pauses nothing, and nothing depends on the inspection *)
(* after it, which is left out.                                            *)
ProbeFails(p) ==
  /\ page[p] \in {"edited", "checked"}
  /\ Done(p) /\ Ended(p)
  /\ UNCHANGED <<account, pool>>

(* closeAll and a new process. *)
Restart ==
  /\ pool' = None /\ call' = [a \in Actors |-> None] /\ late' = {}
  /\ page' = [p \in Pages |-> "none"] /\ saw' = [p \in Pages |-> FALSE]
  /\ UNCHANGED account

-----------------------------------------------------------------------------
Next ==
  \/ \E w \in Workers \cup Loops :
       \/ \E checked \in BOOLEAN : Ask(w, checked)
       \/ Finish(w) \/ Reject(w)
  \/ \E w \in Workers : Report(w)
  \/ \E p \in Pages :
       OpenForm(p) \/ Replace(p) \/ RefuseForm(p) \/ Edit(p) \/ Check(p)
       \/ EditOk(p) \/ CheckOk(p) \/ Inspected(p) \/ ProbeFails(p)
  \/ Restart

Spec == Init /\ [][Next]_vars

-----------------------------------------------------------------------------
(* Credentials, calls and pages keep their types. *)
TypeOK ==
  /\ material \in Credentials /\ accepted \subseteq 0..material
  /\ active \in BOOLEAN /\ reason \in Credentials \cup {None}
  /\ pool \in Credentials \cup {None}
  /\ call \in [Actors -> Credentials \cup {None, Cut}] /\ late \subseteq Actors
  /\ page \in [Pages -> {"none", "form", "edited", "checked", "inspected"}]
  /\ saw  \in [Pages -> BOOLEAN]

(* The pool never keeps a client of credentials that are not the saved     *)
(* ones, and no call of one goes on but for those that waited for a        *)
(* connection when it was closed; a loop of the receiver never does.       *)
CallsAreCurrent ==
  /\ pool \in {None, material}
  /\ \A a \in Actors \ late : call[a] \in {None, Cut, material}
  /\ late \cap Loops = {}

(* Only new credentials, or an accepted call by the saved ones, lift a     *)
(* pause: with others it is lifted only by a request whose probe or        *)
(* inspection was under way when its client was closed.                    *)
Overtaken(p) == p \in late \/ call[p] = Cut

ResumedForReason ==
  [][~active /\ active' =>
       \/ material' # material
       \/ material \in accepted
       \/ \E p \in Pages : Overtaken(p) /\ page[p] # "none" /\ page'[p] = "none"]_vars

(* What accounts.ts promises: after new credentials the queue runs, and an *)
(* account is paused only because Multiinfo rejected what is saved.        *)
PausedByCurrent == ~active => reason = material
=============================================================================
