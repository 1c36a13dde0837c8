------------------------------- MODULE SignIn -------------------------------
(***************************************************************************)
(* Signing in to the panel, its sessions and its users                     *)
(* (src/src/admin/server.ts, session.ts, throttle.ts, routes/users.ts,     *)
(* src/src/store/admin-users.ts).                                          *)
(*                                                                         *)
(* A sign-in reads the row of its user, waits for argon2, and may wait for *)
(* a second factor; a request of a session passes the onRequest hook, its  *)
(* body is read, and only then does its handler run. Users are removed,    *)
(* reset and given new passwords meanwhile. Sessions, stages, proposals    *)
(* and the throttle live in memory.                                        *)
(*                                                                         *)
(* All sign-ins come from one address. Time is a choice: stages, sessions  *)
(* and the window of the throttle run out whenever that suits. A password  *)
(* is the number of times it was changed.                                  *)
(***************************************************************************)
EXTENDS Naturals, FiniteSets

CONSTANTS
  Users,        \* identifiers, each used once (AUTOINCREMENT)
  First,        \* the user the command line created
  Logins,       \* sign-ins under way or signed in at a time
  MaxFailures,  \* LOGIN_MAX_FAILURES, ten in the code
  StageFailures,\* STAGE_MAX_FAILURES, five in the code
  MaxCodes,     \* recovery codes of a user, ten in the code
  MaxChanges    \* bound: how often a password is changed

VARIABLES
  (* table admin_users *)
  member,    \* users in it
  gone,      \* users removed from it
  totp,      \* those with a second factor
  codes,     \* recovery codes left
  password,  \* the password
  (* memory *)
  signIn,    \* where a sign-in is, and the row it read
  request,   \* what a session has passed the hook with
  proposed,  \* users who were shown a secret to confirm
  failures,  \* failed attempts of the address
  (* history, for the properties only *)
  crossed    \* sign-ins during which their user was removed, reset or got a
             \* new password

table  == <<member, gone, totp, codes, password>>
vars   == <<table, signIn, request, proposed, failures, crossed>>

Row     == [password : 0..MaxChanges, totp : BOOLEAN]
SignIn  == [at : {"out", "verify", "code", "in"}, user : Users, saw : Row,
            wrong : 0..StageFailures]
Out     == [at |-> "out", user |-> First, saw |-> [password |-> 0, totp |-> FALSE],
            wrong |-> 0]
Kinds   == {"panel", "setup", "change"}
None    == [kind |-> "none", user |-> First]

Init ==
  /\ member   = {First}
  /\ gone     = {}
  /\ totp     = {}
  /\ codes    = [u \in Users |-> 0]
  /\ password = [u \in Users |-> 0]
  /\ signIn   = [l \in Logins |-> Out]
  /\ request  = [l \in Logins |-> None]
  /\ proposed = {}
  /\ failures = 0
  /\ crossed  = {}

-----------------------------------------------------------------------------
(* LoginThrottle. *)
Allowed == failures < MaxFailures

Fail == failures' = failures + 1

(* The window has passed since the last failure. *)
Forget ==
  /\ failures > 0
  /\ failures' = 0
  /\ UNCHANGED <<table, signIn, request, proposed, crossed>>

-----------------------------------------------------------------------------
At(l, place) == signIn[l].at = place
Owner(l)     == signIn[l].user
Ended(l)     == [signIn EXCEPT ![l] = Out]

(* POST /zaloguj, up to the password check. *)
Begin(l, u) ==
  /\ At(l, "out") /\ request[l] = None /\ Allowed
  /\ u \in member
  /\ signIn' = [signIn EXCEPT ![l] =
       [at |-> "verify", user |-> u, wrong |-> 0,
        saw |-> [password |-> password[u], totp |-> u \in totp]]]
  /\ UNCHANGED <<table, request, proposed, failures, crossed>>

WrongPassword(l) ==
  /\ At(l, "verify")
  /\ signIn' = Ended(l) /\ crossed' = crossed \ {l}
  /\ Fail
  /\ UNCHANGED <<table, request, proposed>>

(* finishLogin: the session is created and the throttle reset. *)
Finish(l) ==
  /\ signIn' = [signIn EXCEPT ![l].at = "in", ![l].wrong = 0]
  /\ failures' = 0

(* What the row said before the wait decides what is still asked for. *)
RightPassword(l) ==
  /\ At(l, "verify")
  /\ IF signIn[l].saw.totp
     THEN signIn' = [signIn EXCEPT ![l].at = "code"] /\ UNCHANGED failures
     ELSE Finish(l)
  /\ UNCHANGED <<table, request, proposed, crossed>>

(* POST /zaloguj/kod. *)

(* The stage ends with the last of its wrong codes. *)
CodeFailed(l) ==
  /\ Fail
  /\ IF signIn[l].wrong + 1 < StageFailures
     THEN signIn' = [signIn EXCEPT ![l].wrong = @ + 1] /\ UNCHANGED crossed
     ELSE signIn' = Ended(l) /\ crossed' = crossed \ {l}
  /\ UNCHANGED <<table, request, proposed>>

(* Mutant: the throttle is asked for passwords only. *)
WrongCodeUnthrottled(l) == At(l, "code") /\ CodeFailed(l)

WrongCode(l) == At(l, "code") /\ Allowed /\ CodeFailed(l)

(* consumeRecoveryCode: a hit takes the code off the list. *)
Consume(u) == codes[u] > 0 /\ codes' = [codes EXCEPT ![u] = @ - 1]

(* The code of the user's device, or a recovery code. *)
RightCode(l) ==
  /\ At(l, "code") /\ Allowed
  /\ \/ Owner(l) \in totp /\ UNCHANGED codes
     \/ Consume(Owner(l))
  /\ Finish(l)
  /\ UNCHANGED <<member, gone, totp, password, request, proposed, crossed>>

Lose(l) ==
  /\ signIn' = Ended(l) /\ crossed' = crossed \ {l}
  /\ UNCHANGED <<table, request, proposed, failures>>

(* readStage: five minutes have passed. *)
StageRunsOut(l) == At(l, "code") /\ Lose(l)

(* GET /wyloguj, or a session idle for too long. *)
SignOut(l) == At(l, "in") /\ Lose(l)

-----------------------------------------------------------------------------
(* The onRequest hook: a session, and its second factor unless the request *)
(* is about setting it up.                                                 *)
Enter(l, kind) ==
  /\ At(l, "in") /\ request[l] = None
  /\ kind # "setup" => Owner(l) \in totp \/ Owner(l) \notin member
  /\ kind = "change" => Owner(l) \in member
  /\ request' = [request EXCEPT ![l] = [kind |-> kind, user |-> Owner(l)]]
  /\ UNCHANGED <<table, signIn, proposed, failures, crossed>>

Asks(l, kind) == request[l].kind = kind
Asker(l)      == request[l].user
Handled(l)    == request' = [request EXCEPT ![l] = None]

Sessions(u) == {l \in Logins : At(l, "in") /\ Owner(l) = u}
UnderWay(u) == {l \in Logins : (At(l, "verify") \/ At(l, "code")) /\ Owner(l) = u}

(* sessions.destroyForUser. A sign-in under way is none yet. *)
Close(hit, u, rest) ==
  /\ signIn'  = [l \in Logins |-> IF l \in hit THEN Out ELSE rest[l]]
  /\ crossed' = (crossed \ hit) \cup UnderWay(u)

(* createAdminUser; the login is unique in the table. *)
Add(l, u) ==
  /\ Asks(l, "panel") /\ u \notin member \cup gone
  /\ member' = member \cup {u}
  /\ Handled(l)
  /\ UNCHANGED <<gone, totp, codes, password, signIn, proposed, failures, crossed>>

Delete(l, u) ==
  /\ member' = member \ {u}
  /\ gone'   = gone \cup {u}
  /\ totp'   = totp \ {u}
  /\ codes'  = [codes EXCEPT ![u] = 0]
  /\ Close(Sessions(u), u, signIn) /\ Handled(l)
  /\ UNCHANGED <<password, proposed, failures>>

(* Mutant: anybody may be removed but oneself. *)
RemoveAny(l, u) ==
  Asks(l, "panel") /\ u \in member /\ u # Asker(l) /\ Delete(l, u)

(* POST /uzytkownicy/:id/usun. *)
Remove(l, u) ==
  /\ Asks(l, "panel") /\ u \in member
  /\ Cardinality(member) > 1 /\ u # Asker(l)
  /\ Delete(l, u)

(* resetTotp, enableTotp. *)
SetTotp(u, to) ==
  /\ totp'  = IF to THEN totp \cup {u} ELSE totp \ {u}
  /\ codes' = [codes EXCEPT ![u] = IF to THEN MaxCodes ELSE 0]

(* POST /uzytkownicy/:id/reset-2fa. *)
Reset(l, u) ==
  /\ Asks(l, "panel") /\ u \in member
  /\ SetTotp(u, FALSE)
  /\ Close(Sessions(u), u, signIn) /\ Handled(l)
  /\ UNCHANGED <<member, gone, password, proposed, failures>>

(* POST /haslo, after the old password was checked and the new one hashed: *)
(* the row may be gone by now. The session of the request stays, and with  *)
(* it the new password.                                                    *)
SetPassword(l) ==
  LET u == Asker(l)
  IN  /\ password[u] < MaxChanges
      /\ password' = IF u \in member THEN [password EXCEPT ![u] = @ + 1] ELSE password

Renewed(l) ==
  IF At(l, "in") THEN [signIn EXCEPT ![l].saw.password = password'[Asker(l)]] ELSE signIn

(* Mutant: the other sessions stay. *)
ChangeOnly(l) ==
  /\ Asks(l, "change")
  /\ SetPassword(l)
  /\ signIn' = Renewed(l)
  /\ Handled(l)
  /\ UNCHANGED <<member, gone, totp, codes, proposed, failures, crossed>>

Change(l) ==
  /\ Asks(l, "change")
  /\ SetPassword(l)
  /\ Close(Sessions(Asker(l)) \ {l}, Asker(l), Renewed(l))
  /\ Handled(l)
  /\ UNCHANGED <<member, gone, totp, codes, proposed, failures>>

(* A page, or a form that is refused. *)
Refuse(l) ==
  /\ request[l] # None
  /\ Handled(l)
  /\ UNCHANGED <<table, signIn, proposed, failures, crossed>>

(* GET and POST /drugi-skladnik: the secret that was shown is confirmed by *)
(* a code.                                                                 *)
Propose(l) ==
  /\ Asks(l, "setup") /\ Asker(l) \in member \ totp
  /\ proposed' = proposed \cup {Asker(l)}
  /\ Handled(l)
  /\ UNCHANGED <<table, signIn, failures, crossed>>

Enable(l) ==
  LET u == Asker(l)
  IN  /\ Asks(l, "setup") /\ u \in (member \ totp) \cap proposed
      /\ SetTotp(u, TRUE)
      /\ proposed' = proposed \ {u}
      /\ Handled(l)
      /\ UNCHANGED <<member, gone, password, signIn, failures, crossed>>

(* A restart forgets what is in memory. *)
Restart ==
  /\ signIn'   = [l \in Logins |-> Out]
  /\ request'  = [l \in Logins |-> None]
  /\ proposed' = {}
  /\ failures' = 0
  /\ crossed'  = {}
  /\ UNCHANGED table

-----------------------------------------------------------------------------
Next ==
  \/ \E l \in Logins :
       \/ \E u \in Users : Begin(l, u) \/ Add(l, u) \/ Remove(l, u) \/ Reset(l, u)
       \/ WrongPassword(l) \/ RightPassword(l) \/ WrongCode(l) \/ RightCode(l)
       \/ StageRunsOut(l) \/ SignOut(l)
       \/ \E kind \in Kinds : Enter(l, kind)
       \/ Change(l) \/ Refuse(l) \/ Propose(l) \/ Enable(l)
  \/ Forget \/ Restart

Spec == Init /\ [][Next]_vars

-----------------------------------------------------------------------------
(* Rows and sessions keep their types. *)
TypeOK ==
  /\ member \subseteq Users /\ gone \subseteq Users /\ totp \subseteq member
  /\ codes    \in [Users -> 0..MaxCodes]
  /\ password \in [Users -> 0..MaxChanges]
  /\ signIn   \in [Logins -> SignIn]
  /\ request  \in [Logins -> [kind : Kinds \cup {"none"}, user : Users]]
  /\ proposed \subseteq Users
  /\ failures \in Nat
  /\ crossed  \subseteq Logins

(* A session belongs to a user who is still there and was begun with the   *)
(* password that still holds: removal, reset and a new password end all    *)
(* others. Only a sign-in that was under way at that moment gets through.  *)
SessionsAreCurrent ==
  \A l \in Logins : At(l, "in") /\ l \notin crossed =>
    Owner(l) \in member /\ signIn[l].saw.password = password[Owner(l)]

(* The panel keeps a user who can sign in, whatever requests cross: the    *)
(* last one is never removed, also not by a session that lost its own.     *)
SomebodyStays == member # {}

(* Passwords and codes share one throttle: attempts that wait for argon2   *)
(* were allowed before, so that it is passed by at most those under way.   *)
FailuresBounded == failures < MaxFailures + Cardinality(Logins)

-----------------------------------------------------------------------------
(* What makes these inductive: a sign-in under way is of a user who is     *)
(* there, too, unless it was crossed; a request runs for the session that  *)
(* sent it, or that session is over; and passwords that are being checked  *)
(* count as if they had failed.                                            *)
Checking == {l \in Logins : At(l, "verify")}

LoginOK(l) ==
  /\ ~At(l, "out") /\ l \notin crossed =>
       Owner(l) \in member /\ signIn[l].saw.password = password[Owner(l)]
  /\ request[l].kind # "none" =>
       At(l, "out") \/ (At(l, "in") /\ Owner(l) = Asker(l))

IInv ==
  /\ TypeOK /\ SomebodyStays
  /\ \A l \in Logins : LoginOK(l)
  /\ failures + Cardinality(Checking) < MaxFailures + Cardinality(Logins)
=============================================================================
