------------------------------ MODULE Startup ------------------------------
(***************************************************************************)
(* The start of the gate and the copies of its database (src/src/index.ts, *)
(* src/src/startup, src/src/store/db.ts and backup.ts,                     *)
(* openAdminDatabase in src/src/cli/admin.ts).                             *)
(*                                                                         *)
(* A release that finds a database of another one first copies it, then    *)
(* changes its schema migration by migration, then checks that the master  *)
(* key reads it, listens, and only then writes its own number down. Every  *)
(* step may fail, or be the last one before the process dies; the next     *)
(* start begins with what it finds on the disk.                            *)
(*                                                                         *)
(* A copy is written beside its final name and renamed, so there is no     *)
(* half of one. Times of files are reduced to what the code asks of them:  *)
(* which copy is newer, and whether one is as new as the last write.       *)
(***************************************************************************)
EXTENDS Integers, Sequences, SequencesExt, FiniteSets

CONSTANTS
  Releases,   \* numbers of releases, 1..n
  Schema,     \* [Releases -> migrations it knows]
  Keys,       \* master keys
  KeptCopies, \* UPGRADE_BACKUPS_KEPT, three in the code
  MaxWrites,  \* bound on the writes of a gate at work
  MaxHands    \* bound on what is done by hand while the gate is off

VARIABLES
  (* disk *)
  db,      \* what a reader of the database sees
  main,    \* what the main file holds: all but the frames of the WAL
  wal,     \* the WAL holds frames
  copies,  \* copies before an upgrade, the oldest first
  (* process *)
  run,     \* where the start is, its release, its key, the schema it found
  hands    \* what was done by hand

vars == <<db, main, wal, copies, run, hands>>

Unknown == 0
Empty   == [schema |-> 0, version |-> Unknown, content |-> 0, keys |-> {}]
Off     == [at |-> "off", release |-> 0, keys |-> {}, found |-> 0]

(* A fresh directory, or one of an early release that left no number.      *)
Init ==
  /\ \/ db = Empty
     \/ \E k \in Keys : db = [Empty EXCEPT !.schema = Schema[1], !.keys = {k}]
  /\ main = db /\ wal = FALSE /\ copies = <<>>
  /\ run = Off /\ hands = 0

-----------------------------------------------------------------------------
At(place)  == run.at = place
Go(place)  == run' = [run EXCEPT !.at = place]
Mine       == run.release

(* Both ports answer with the cause; the database is closed, no key held.  *)
Emergency  == run' = [run EXCEPT !.at = "emergency"]
(* A transaction of a process that goes on: frames in the WAL, of which    *)
(* SQLite may have merged any; what was a copy of the last write is one    *)
(* no more.                                                                *)
Stale(cs)  == [i \in DOMAIN cs |-> [cs[i] EXCEPT !.fresh = FALSE]]
Write(d) ==
  /\ db' = d /\ wal' = TRUE
  /\ main' \in {main, d}
  /\ copies' = Stale(copies)

(* Closing the database merges the WAL and removes it, and so writes the   *)
(* main file when there were frames.                                       *)
Closed ==
  /\ main' = db /\ wal' = FALSE
  /\ copies' = IF wal THEN Stale(copies) ELSE copies

-----------------------------------------------------------------------------
(* prepareDatabase. A database of a newer release is refused untouched.    *)
Start(r, k) ==
  /\ At("off")
  /\ LET new == [at |-> "copying", release |-> r, keys |-> {k}, found |-> db.schema]
     IN run' = IF db.schema > Schema[r] THEN [new EXCEPT !.at = "emergency"] ELSE new
  /\ IF db.schema > Schema[r] THEN Closed ELSE UNCHANGED <<main, wal, copies>>
  /\ UNCHANGED db

(* A key that is missing or cut: nothing is opened.                        *)
StartKeyless(r) ==
  /\ At("off")
  /\ run' = [Off EXCEPT !.at = "emergency", !.release = r]
  /\ UNCHANGED <<db, main, wal, copies>>

Pending == Schema[Mine] > db.schema
Needed  == db.schema # 0 /\ (Pending \/ db.version # Mine)

(* upgradeBackupName *)
Name == IF db.version = Unknown THEN <<"to", Mine>> ELSE <<"from", db.version>>
Named(n)     == {i \in DOMAIN copies : copies[i].name = n}
SomeFresh(S) == \E i \in S : copies[i].fresh

(* Mutant: frames in the WAL are not looked at. *)
CoveredByTime ==
  IF Named(Name) # {} THEN SomeFresh(Named(Name))
  ELSE db.version = Unknown /\ SomeFresh(DOMAIN copies)

(* trustedCopy and freshCopyExists: a copy as new as the last write, of a  *)
(* database that was closed.                                               *)
Covered ==
  /\ ~wal
  /\ IF Named(Name) # {} THEN SomeFresh(Named(Name))
     ELSE db.version = Unknown /\ SomeFresh(DOMAIN copies)

Copy(n, d) == [name |-> n, data |-> d, fresh |-> TRUE]
(* A copy takes the place of the one with its name. *)
Put(c)    == LET old == Named(c.name)
             IN Append(IF old = {} THEN copies ELSE RemoveAt(copies, CHOOSE i \in old : TRUE), c)
Prune(cs) == IF Len(cs) <= KeptCopies THEN cs ELSE SubSeq(cs, Len(cs) - KeptCopies + 1, Len(cs))

NoCopy ==
  /\ At("copying") /\ ~Needed
  /\ Go("migrating")
  /\ UNCHANGED <<db, main, wal, copies>>

(* backupBeforeUpgrade; clearing away old copies may fail without harm.    *)
CopyFirst ==
  /\ At("copying") /\ Needed
  /\ LET cs == IF Covered THEN copies ELSE Put(Copy(Name, db))
     IN copies' \in {cs, Prune(cs)}
  /\ Go("migrating")
  /\ UNCHANGED <<db, main, wal>>

(* The copy fails, for want of space: fatal when the schema is to change.  *)
CopyFails ==
  /\ At("copying") /\ Needed /\ ~Covered
  /\ IF Pending THEN Emergency /\ Closed ELSE Go("migrating") /\ UNCHANGED <<main, wal, copies>>
  /\ UNCHANGED db

(* applyMigrations: one migration with its user_version, or none of it.    *)
Migrate ==
  /\ At("migrating") /\ Pending
  /\ Write([db EXCEPT !.schema = @ + 1])
  /\ UNCHANGED run

MigrationFails ==
  /\ At("migrating") /\ Pending
  /\ Emergency /\ Closed
  /\ UNCHANGED db

(* The number of the release: at once for a database made just now.        *)
Migrated ==
  /\ At("migrating") /\ ~Pending
  /\ Go("checking")
  /\ IF run.found = 0 THEN Write([db EXCEPT !.version = Mine]) ELSE UNCHANGED <<db, main, wal, copies>>

(* Mutant: a key that reads nothing is good enough. *)
NeverMismatch == FALSE

(* isKeyMismatch: there are secrets, and this key reads none of them.      *)
KeyMismatch == db.keys # {} /\ db.keys \cap run.keys = {}

CheckKey ==
  /\ At("checking")
  /\ IF KeyMismatch THEN Emergency /\ Closed ELSE Go("listening") /\ UNCHANGED <<main, wal, copies>>
  /\ UNCHANGED db

Listen ==
  /\ At("listening")
  /\ Go("on")
  /\ Write([db EXCEPT !.version = Mine])

(* The port is taken: the process ends, and is started again by its        *)
(* keeper. Any other error, of writing the number too, is an emergency.    *)
ListenFails ==
  /\ At("listening")
  /\ run' \in {Off, [run EXCEPT !.at = "emergency"]} /\ Closed
  /\ UNCHANGED db

Stop ==
  /\ At("on") \/ At("emergency")
  /\ run' = Off
  /\ IF At("on") THEN Closed ELSE UNCHANGED <<main, wal, copies>>
  /\ UNCHANGED db

(* SIGKILL, or no power: the WAL stays as it is.                           *)
Kill ==
  /\ ~At("off")
  /\ run' = Off
  /\ UNCHANGED <<db, main, wal, copies>>

-----------------------------------------------------------------------------
(* A gate at work: data of the customer, secrets under its key.            *)
Work ==
  /\ At("on") /\ db.content < MaxWrites
  /\ Write([db EXCEPT !.content = @ + 1, !.keys = @ \cup run.keys])
  /\ UNCHANGED run

(* admin:dodaj: makes the schema of a fresh directory and leaves no number *)
(* there, and refuses a database that waits for its migrations, is newer   *)
(* or belongs to another key. The new user is not data of the customer.    *)
AddAdmin(r, k) ==
  /\ At("off") /\ db.schema \in {0, Schema[r]}
  /\ db.keys = {} \/ k \in db.keys
  /\ db' = [db EXCEPT !.schema = Schema[r]]
  /\ main' = db' /\ wal' = FALSE /\ copies' = Stale(copies)
  /\ UNCHANGED run

(* update of the LXC container: the main file is copied under the number   *)
(* of the release it replaces.                                             *)
UpdateCopies(r) ==
  /\ At("off") /\ db.schema # 0 /\ Schema[r] >= db.schema /\ db.version \in {Unknown, r}
  /\ copies' = Put(Copy(<<"from", r>>, main))
  /\ UNCHANGED <<db, main, wal, run>>

(* The administrator puts a copy in the place of the database.             *)
Restore(i) ==
  /\ At("off")
  /\ db' = copies[i].data /\ main' = db' /\ wal' = FALSE
  /\ copies' = Stale(copies)
  /\ UNCHANGED run

Process ==
  \/ \E r \in Releases, k \in Keys : Start(r, k)
  \/ \E r \in Releases : StartKeyless(r)
  \/ NoCopy \/ CopyFirst \/ CopyFails
  \/ Migrate \/ MigrationFails \/ Migrated
  \/ CheckKey \/ Listen \/ ListenFails \/ Stop \/ Kill
  \/ Work

ByHand ==
  \/ \E r \in Releases, k \in Keys : AddAdmin(r, k)
  \/ \E r \in Releases : UpdateCopies(r)
  \/ \E i \in DOMAIN copies : Restore(i)

Next ==
  \/ Process /\ UNCHANGED hands
  \/ ByHand /\ hands < MaxHands /\ hands' = hands + 1

Spec == Init /\ [][Next]_vars

-----------------------------------------------------------------------------
(* The disk and the process keep their types; without frames in the WAL    *)
(* the main file is the database, and a process at work has one key.       *)
Data == [schema : 0..Schema[Len(Schema)], version : Releases \cup {Unknown}, content : Nat, keys : SUBSET Keys]
TypeOK ==
  /\ db \in Data /\ main \in Data /\ (wal \/ main = db)
  /\ \A i \in DOMAIN copies : copies[i].data \in Data /\ copies[i].fresh \in BOOLEAN
  /\ run.at \in {"off", "copying", "migrating", "checking", "listening", "on", "emergency"}
  /\ run.at \in {"off", "emergency"} \/ Cardinality(run.keys) = 1

(* The schema of a database with data is changed only with a copy of all   *)
(* that data on the disk, whoever wrote that copy, however the last        *)
(* process ended and whichever release is restored in between.             *)
CopiedBeforeChange ==
  At("migrating") /\ Pending /\ run.found # 0 =>
    \E i \in DOMAIN copies : copies[i].data.content = db.content /\ copies[i].data.keys = db.keys

(* Data under two master keys is never made: a gate with another key does  *)
(* not get to write, over failed starts, restored copies and fresh         *)
(* databases alike.                                                        *)
OneKey == Cardinality(db.keys) <= 1

(* What makes them inductive. A copy as new as the last write holds the    *)
(* data of a database whose WAL is merged, and if there is one, the newest *)
(* copy is such, so that clearing away the old ones leaves it.             *)
Alike(c, d) == c.content = d.content /\ c.keys = d.keys
CopiesSound ==
  /\ ~wal => \A i \in DOMAIN copies : copies[i].fresh => Alike(copies[i].data, db)
  /\ SomeFresh(DOMAIN copies) => copies[Len(copies)].fresh

(* No database and no copy holds data under two keys, and a process that   *)
(* writes has the key of all that is there.                                *)
OfOneKey(d) == \A k, l \in d.keys : k = l
KeysSound ==
  /\ OfOneKey(db) /\ OfOneKey(main) /\ \A i \in DOMAIN copies : OfOneKey(copies[i].data)
  /\ run.at \in {"listening", "on"} => db.keys \subseteq run.keys

Places == {"off", "copying", "migrating", "checking", "listening", "on", "emergency"}
Tables ==
  /\ copies \in Seq([name : {"to", "from"} \X Int, data : Data, fresh : BOOLEAN])
  /\ wal \in BOOLEAN
  /\ run \in [at : Places, release : Nat, keys : SUBSET Keys, found : Nat]
  /\ run.at \notin {"off", "emergency"} => run.release \in Releases /\ \E k \in Keys : run.keys = {k}
  /\ At("copying") => run.found = db.schema

IInv == TypeOK /\ Tables /\ CopiesSound /\ KeysSound /\ CopiedBeforeChange

(* docs/problemy.md, "Po aktualizacji cos nie dziala": the way back is the *)
(* copy named after the previous release. As long as the new release has   *)
(* not come up, that release must be able to read it. A second try finds   *)
(* the copy older than the migrations of the first, and writes it anew.    *)
WayBack ==
  \A r \in Releases : db.version = r /\ db.schema > Schema[r] =>
    \E i \in DOMAIN copies : copies[i].name = <<"from", r>> /\ copies[i].data.schema <= Schema[r]
=============================================================================
