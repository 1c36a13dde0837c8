--------------------------- MODULE ServiceProofs ---------------------------
(***************************************************************************)
(* Proofs about Service for all rules, limits, releases, migrations,       *)
(* master keys, copies, files and rows, whatever the bounds: the           *)
(* notifications and their limits, the start of the gate and its copies,   *)
(* the results of packages, and the lists read page by page.               *)
(***************************************************************************)
EXTENDS Service, FiniteSetTheorems, WellFoundedInduction, TLAPS

-----------------------------------------------------------------------------
(* The start of the gate. Copies that may be there beside a database: none *)
(* holds data under two keys, and one that is as new as the last write     *)
(* holds what the database does, when the WAL is merged.                   *)
Data  == StartupOf!Data
Names == {"to", "from"} \X Int
Saved == [name : Names, data : Data, fresh : BOOLEAN]

Beside(wal, db) ==
  {c \in Saved : StartupOf!OfOneKey(c.data) /\ (c.fresh /\ ~wal => StartupOf!Alike(c.data, db))}

SoundCopies(cs, wal, db) ==
  /\ cs \in Seq(Beside(wal, db))
  /\ (\E i \in DOMAIN cs : cs[i].fresh) => cs[Len(cs)].fresh

DiskSound ==
  /\ startDb \in Data /\ startMain \in Data /\ startWal \in BOOLEAN
  /\ startWal \/ startMain = startDb
  /\ StartupOf!OfOneKey(startDb) /\ StartupOf!OfOneKey(startMain)
  /\ SoundCopies(startCopies, startWal, startDb)

(* A process that got past the copying has what it needs.                  *)
RunSound ==
  /\ startRun \in [at : StartupOf!Places, release : Nat, keys : SUBSET Keys, found : Nat]
  /\ startRun.at \notin {"off", "emergency"} =>
       startRun.release \in Releases /\ \E k \in Keys : startRun.keys = {k}
  /\ startRun.at = "copying" => startRun.found = startDb.schema
  /\ startRun.at \in {"listening", "on"} => startDb.keys \subseteq startRun.keys
  /\ StartupOf!CopiedBeforeChange

LEMMA CountOfStartup == ASSUME NEW S PROVE StartupOf!Cardinality(S) = Cardinality(S)
BY Zenon DEF StartupOf!Cardinality, Cardinality

(* The two are what Startup calls its inductive invariant.                 *)
LEMMA StartupParts == StartupOf!IInv <=> DiskSound /\ RunSound
<1>1. ASSUME RunSound, startRun.at \notin {"off", "emergency"}
      PROVE  StartupOf!Cardinality(startRun.keys) = 1
  <2>1. PICK k \in Keys : startRun.keys = {k}
    BY <1>1 DEF RunSound
  <2>2. QED
    BY <2>1, CountOfStartup, FS_Singleton
<1>2. DiskSound <=>
        /\ startDb \in Data /\ startMain \in Data /\ startWal \in BOOLEAN
        /\ startWal \/ startMain = startDb
        /\ StartupOf!OfOneKey(startDb) /\ StartupOf!OfOneKey(startMain)
        /\ startCopies \in Seq(Saved) /\ StartupOf!CopiesSound
        /\ \A i \in DOMAIN startCopies : StartupOf!OfOneKey(startCopies[i].data)
  <2>1. SoundCopies(startCopies, startWal, startDb) <=>
          /\ startCopies \in Seq(Saved) /\ StartupOf!CopiesSound
          /\ \A i \in DOMAIN startCopies : StartupOf!OfOneKey(startCopies[i].data)
    <3>1. CASE startCopies \in Seq(Saved)
      <4>1. startCopies \in Seq(Beside(startWal, startDb)) <=>
              \A i \in 1..Len(startCopies) : startCopies[i] \in Beside(startWal, startDb)
        BY <3>1, startCopies = [i \in 1..Len(startCopies) |-> startCopies[i]]
      <4>2. \A i \in 1..Len(startCopies) : startCopies[i] \in Saved
        BY <3>1
      <4>3. DOMAIN startCopies = 1..Len(startCopies)
        BY <3>1
      <4>4. QED
        BY <3>1, <4>1, <4>2, <4>3 DEF SoundCopies, Beside, StartupOf!CopiesSound, StartupOf!SomeFresh
    <3>2. CASE startCopies \in Seq(Beside(startWal, startDb))
      <4>1. Beside(startWal, startDb) \subseteq Saved
        BY DEF Beside
      <4>2. startCopies \in Seq(Saved)
        BY <3>2, <4>1
      <4>3. QED
        BY <3>1, <4>2
    <3>3. QED
      BY <3>1, <3>2 DEF SoundCopies
  <2>2. QED
    BY <2>1 DEF DiskSound
<1>3. DiskSound => \A i \in DOMAIN startCopies : startCopies[i].data \in Data
                                                 /\ startCopies[i].fresh \in BOOLEAN
  <2>1. \A c \in Saved : c.data \in Data /\ c.fresh \in BOOLEAN
    BY DEF Saved
  <2>2. startCopies \in Seq(Saved) => \A i \in DOMAIN startCopies : startCopies[i] \in Saved
    OBVIOUS
  <2>3. QED
    BY <1>2, <2>1, <2>2
<1>4. QED
  BY <1>1, <1>2, <1>3
     DEF StartupOf!IInv, StartupOf!TypeOK, StartupOf!Tables, StartupOf!KeysSound, StartupOf!Places,
         StartupOf!At, RunSound, Data, Saved, Names

(* The schema that a release knows is a number not above the newest one's. *)
LEMMA Schemas ==
  /\ Len(Schema) \in Nat \ {0} /\ 1 \in Releases /\ Len(Schema) \in Releases
  /\ \A r \in Releases : Schema[r] \in Nat \ {0} /\ Schema[r] <= Schema[Len(Schema)]
  /\ Releases \subseteq Nat
BY StartupAssumption

(* After a write no copy is as new as the last write, and each keeps its   *)
(* data.                                                                   *)
LEMMA StaleSound ==
  ASSUME SoundCopies(startCopies, startWal, startDb), NEW wal, NEW db
  PROVE  /\ SoundCopies(StartupOf!Stale(startCopies), wal, db)
         /\ DOMAIN StartupOf!Stale(startCopies) = DOMAIN startCopies
         /\ \A i \in DOMAIN startCopies : StartupOf!Stale(startCopies)[i].data = startCopies[i].data
<1> DEFINE cs == StartupOf!Stale(startCopies)
           B  == Beside(startWal, startDb)
           T  == Beside(wal, db)
           Old(c) == [c EXCEPT !.fresh = FALSE]
<1>1. startCopies \in Seq(B)
  BY DEF SoundCopies
<1>2. \A i \in 1..Len(startCopies) : startCopies[i] \in B
  BY <1>1
<1>3. \A c \in B : Old(c) \in T /\ Old(c).data = c.data /\ ~Old(c).fresh
  BY DEF Saved, Beside
<1>4. cs = [i \in 1..Len(startCopies) |-> Old(startCopies[i])]
  BY <1>1 DEF StartupOf!Stale
<1>5. Len(startCopies) \in Nat /\ DOMAIN startCopies = 1..Len(startCopies)
  BY <1>1
<1> HIDE DEF cs, B, T, Old
<1>6. /\ cs \in Seq(T) /\ DOMAIN cs = DOMAIN startCopies
      /\ \A i \in DOMAIN startCopies : cs[i].data = startCopies[i].data /\ ~cs[i].fresh
  BY <1>2, <1>3, <1>4, <1>5
<1>7. QED
  BY <1>6 DEF SoundCopies, cs, T

(* A new copy of sound data takes the place of an old one.                 *)
LEMMA PutSound ==
  ASSUME SoundCopies(startCopies, startWal, startDb), NEW c \in Beside(startWal, startDb), c.fresh
  PROVE  LET cs == StartupOf!Put(c)
         IN SoundCopies(cs, startWal, startDb) /\ Len(cs) \in Nat \ {0} /\ cs[Len(cs)] = c
<1> DEFINE B   == Beside(startWal, startDb)
           old == StartupOf!Named(c.name)
           i   == CHOOSE j \in old : TRUE
           s   == IF old = {} THEN startCopies ELSE StartupOf!RemoveAt(startCopies, i)
<1>1. startCopies \in Seq(B)
  BY DEF SoundCopies
<1>2. s \in Seq(B)
  <2>1. CASE old # {}
    <3>1. i \in 1..Len(startCopies) /\ Len(startCopies) \in Nat
      BY <1>1, <2>1 DEF StartupOf!Named
    <3> HIDE DEF i, old, B
    <3>2. SubSeq(startCopies, 1, i - 1) \in Seq(B) /\ SubSeq(startCopies, i + 1, Len(startCopies)) \in Seq(B)
      BY <1>1, <3>1
    <3>3. QED
      BY <2>1, <3>2 DEF StartupOf!RemoveAt
  <2>2. QED
    BY <1>1, <2>1
<1>3. StartupOf!Put(c) = Append(s, c)
  BY DEF StartupOf!Put
<1> HIDE DEF s, B
<1>4. /\ Append(s, c) \in Seq(B) /\ Len(Append(s, c)) \in Nat \ {0}
      /\ Append(s, c)[Len(Append(s, c))] = c
  BY <1>2 DEF B
<1>5. QED
  BY <1>3, <1>4 DEF SoundCopies, B

(* Clearing away old copies leaves the newest one.                         *)
LEMMA PruneSound ==
  ASSUME NEW cs, NEW wal, NEW db, SoundCopies(cs, wal, db)
  PROVE  LET ps == StartupOf!Prune(cs)
         IN /\ SoundCopies(ps, wal, db)
            /\ Len(cs) > 0 => Len(ps) \in Nat \ {0} /\ ps[Len(ps)] = cs[Len(cs)]
<1> DEFINE B  == Beside(wal, db)
           ps == StartupOf!Prune(cs)
<1>1. cs \in Seq(B) /\ Len(cs) \in Nat /\ KeptCopies \in Nat \ {0}
  BY StartupAssumption DEF SoundCopies
<1> HIDE DEF B
<1>2. CASE Len(cs) <= KeptCopies
  BY <1>1, <1>2 DEF StartupOf!Prune
<1>3. CASE ~(Len(cs) <= KeptCopies)
  <2>1. ps = SubSeq(cs, Len(cs) - KeptCopies + 1, Len(cs))
    BY <1>3 DEF StartupOf!Prune
  <2>2. /\ SubSeq(cs, Len(cs) - KeptCopies + 1, Len(cs)) \in Seq(B)
        /\ Len(SubSeq(cs, Len(cs) - KeptCopies + 1, Len(cs))) = KeptCopies
        /\ \A i \in 1..KeptCopies :
             SubSeq(cs, Len(cs) - KeptCopies + 1, Len(cs))[i] = cs[Len(cs) - KeptCopies + i]
    BY <1>1, <1>3
  <2> HIDE DEF ps
  <2>3. /\ ps \in Seq(B) /\ Len(ps) = KeptCopies /\ DOMAIN ps = 1..KeptCopies
        /\ \A i \in 1..KeptCopies : ps[i] = cs[Len(cs) - KeptCopies + i]
    BY <1>1, <2>1, <2>2
  <2>4. ps[Len(ps)] = cs[Len(cs)]
    BY <1>1, <2>3
  <2>5. (\E i \in DOMAIN ps : ps[i].fresh) => \E i \in DOMAIN cs : cs[i].fresh
    BY <1>1, <1>3, <2>3
  <2>6. QED
    BY <1>1, <2>3, <2>4, <2>5 DEF SoundCopies, B, ps
<1>4. QED
  BY <1>2, <1>3

-----------------------------------------------------------------------------
(* What steps do to the disk: they write, close, or leave it as it is.     *)
LEMMA WriteSound ==
  ASSUME DiskSound, NEW d \in Data, StartupOf!OfOneKey(d), StartupOf!Write(d)
  PROVE  /\ DiskSound' /\ startDb' = d
         /\ DOMAIN startCopies' = DOMAIN startCopies
         /\ \A i \in DOMAIN startCopies : startCopies'[i].data = startCopies[i].data
<1>1. startDb' = d /\ startWal' = TRUE /\ startMain' \in {startMain, d}
      /\ startCopies' = StartupOf!Stale(startCopies)
  BY DEF StartupOf!Write
<1>2. /\ SoundCopies(startCopies', startWal', startDb')
      /\ DOMAIN startCopies' = DOMAIN startCopies
      /\ \A i \in DOMAIN startCopies : startCopies'[i].data = startCopies[i].data
  BY <1>1, StaleSound DEF DiskSound
<1>3. StartupOf!OfOneKey(startDb') /\ StartupOf!OfOneKey(startMain')
  BY <1>1 DEF DiskSound
<1>4. QED
  BY <1>1, <1>2, <1>3 DEF DiskSound

LEMMA CloseSound ==
  ASSUME DiskSound, StartupOf!Closed, startDb' = startDb
  PROVE  DiskSound'
<1>1. startMain' = startDb /\ startWal' = FALSE
      /\ startCopies' = IF startWal THEN StartupOf!Stale(startCopies) ELSE startCopies
  BY DEF StartupOf!Closed
<1>2. SoundCopies(startCopies', startWal', startDb')
  BY <1>1, StaleSound DEF DiskSound
<1>3. QED
  BY <1>1, <1>2 DEF DiskSound

LEMMA DiskStays ==
  ASSUME DiskSound, UNCHANGED <<startDb, startMain, startWal, startCopies>>
  PROVE  DiskSound'
BY DEF DiskSound

(* The database is replaced as a whole, by hand.                           *)
LEMMA ReplaceSound ==
  ASSUME DiskSound, NEW d \in Data, StartupOf!OfOneKey(d), startDb' = d, startMain' = d,
         startWal' = FALSE, startCopies' = StartupOf!Stale(startCopies)
  PROVE  DiskSound'
<1>1. SoundCopies(startCopies', startWal', startDb')
  BY StaleSound DEF DiskSound
<1>2. QED
  BY <1>1 DEF DiskSound

-----------------------------------------------------------------------------
(* What a step leaves of the process, when it ends, fails or goes on to a  *)
(* place where it only has to have its key.                                *)
LEMMA RunEnds ==
  ASSUME RunSound,
         startRun' \in {StartupOf!Off, startRun, [startRun EXCEPT !.at = "emergency"]},
         startRun'.at \in {"off", "emergency"}
  PROVE  RunSound'
<1>1. startRun' \in [at : StartupOf!Places, release : Nat, keys : SUBSET Keys, found : Nat]
  BY DEF RunSound, StartupOf!Off, StartupOf!Places
<1>2. QED
  BY <1>1 DEF RunSound, StartupOf!CopiedBeforeChange, StartupOf!At

LEMMA RunGoesOn ==
  ASSUME RunSound, startRun.at \notin {"off", "emergency"},
         NEW p \in {"checking", "listening", "on"}, startRun' = [startRun EXCEPT !.at = p],
         p # "checking" => startDb'.keys \subseteq startRun.keys
  PROVE  RunSound'
<1>1. /\ startRun' \in [at : StartupOf!Places, release : Nat, keys : SUBSET Keys, found : Nat]
      /\ startRun'.at = p /\ startRun'.release = startRun.release /\ startRun'.keys = startRun.keys
  BY DEF RunSound, StartupOf!Places
<1>2. QED
  BY <1>1 DEF RunSound, StartupOf!CopiedBeforeChange, StartupOf!At

(* It goes on to the migrations: with a copy, or with none to do.          *)
LEMMA RunMigrates ==
  ASSUME RunSound, startRun.at \in {"copying", "migrating"}, startDb' = startDb,
         startRun' = [startRun EXCEPT !.at = "migrating"],
         StartupOf!Pending /\ startRun.found # 0 =>
           \E i \in DOMAIN startCopies' : StartupOf!Alike(startCopies'[i].data, startDb)
  PROVE  RunSound'
<1>1. /\ startRun' \in [at : StartupOf!Places, release : Nat, keys : SUBSET Keys, found : Nat]
      /\ startRun'.at = "migrating" /\ startRun'.release = startRun.release
      /\ startRun'.keys = startRun.keys /\ startRun'.found = startRun.found
  BY DEF RunSound, StartupOf!Places
<1>2. QED
  BY <1>1 DEF RunSound, StartupOf!CopiedBeforeChange, StartupOf!At, StartupOf!Pending, StartupOf!Mine,
     StartupOf!Alike

-----------------------------------------------------------------------------
(* Start and the copy before an upgrade.                                   *)
LEMMA StartStep ==
  ASSUME DiskSound, RunSound, NEW r \in Releases, NEW k \in Keys, StartupOf!Start(r, k)
  PROVE  DiskSound' /\ RunSound'
<1> DEFINE new == [at |-> "copying", release |-> r, keys |-> {k}, found |-> startDb.schema]
           p   == IF startDb.schema > Schema[r] THEN "emergency" ELSE "copying"
<1>1. startDb' = startDb /\ startRun' = IF startDb.schema > Schema[r] THEN [new EXCEPT !.at = "emergency"] ELSE new
  BY DEF StartupOf!Start
<1>2. DiskSound'
  BY <1>1, CloseSound, DiskStays DEF StartupOf!Start
<1>3. startDb.schema \in Nat
  BY Schemas DEF DiskSound, Data, StartupOf!Data
<1>4. startRun' = [at |-> p, release |-> r, keys |-> {k}, found |-> startDb.schema]
  BY <1>1
<1>5. p \in {"emergency", "copying"} /\ r \in Nat /\ {k} \in SUBSET Keys
  BY Schemas
<1> HIDE DEF p
<1>6. QED
  BY <1>1, <1>2, <1>3, <1>4, <1>5 DEF RunSound, StartupOf!Places, StartupOf!CopiedBeforeChange, StartupOf!At

LEMMA KeylessStep ==
  ASSUME DiskSound, RunSound, NEW r \in Releases, StartupOf!StartKeyless(r)
  PROVE  DiskSound' /\ RunSound'
<1>1. DiskSound'
  BY DiskStays DEF StartupOf!StartKeyless
<1>2. startRun' = [at |-> "emergency", release |-> r, keys |-> {}, found |-> 0] /\ r \in Nat
  BY Schemas DEF StartupOf!StartKeyless, StartupOf!Off
<1>3. QED
  BY <1>1, <1>2 DEF RunSound, StartupOf!Places, StartupOf!CopiedBeforeChange, StartupOf!At

(* No copy is made when there is nothing to change, or nothing there.      *)
LEMMA NoCopyStep ==
  ASSUME DiskSound, RunSound, StartupOf!NoCopy
  PROVE  DiskSound' /\ RunSound'
<1>1. /\ startRun.at = "copying" /\ startRun' = [startRun EXCEPT !.at = "migrating"]
      /\ UNCHANGED <<startDb, startMain, startWal, startCopies>>
      /\ startDb.schema = 0 \/ ~StartupOf!Pending
  BY DEF StartupOf!NoCopy, StartupOf!At, StartupOf!Go, StartupOf!Needed
<1>2. startRun.found = startDb.schema
  BY <1>1 DEF RunSound
<1>3. QED
  BY <1>1, <1>2, DiskStays, RunMigrates

(* A copy that is trusted holds the data, and so does one made now.        *)
LEMMA CopyStep ==
  ASSUME DiskSound, RunSound, StartupOf!CopyFirst
  PROVE  DiskSound' /\ RunSound'
<1> DEFINE c  == StartupOf!Copy(StartupOf!Name, startDb)
           cs == IF StartupOf!Covered THEN startCopies ELSE StartupOf!Put(c)
<1>1. /\ startRun.at = "copying" /\ startRun' = [startRun EXCEPT !.at = "migrating"]
      /\ UNCHANGED <<startDb, startMain, startWal>>
      /\ startCopies' \in {cs, StartupOf!Prune(cs)}
  BY DEF StartupOf!CopyFirst, StartupOf!At, StartupOf!Go
<1>2. SoundCopies(cs, startWal, startDb) /\ Len(cs) \in Nat \ {0}
      /\ StartupOf!Alike(cs[Len(cs)].data, startDb)
  <2>1. CASE StartupOf!Covered
    <3>1. ~startWal /\ \E i \in DOMAIN startCopies : startCopies[i].fresh
      BY <2>1 DEF StartupOf!Covered, StartupOf!SomeFresh, StartupOf!Named
    <3>2. /\ SoundCopies(startCopies, startWal, startDb)
          /\ startCopies \in Seq(Beside(startWal, startDb)) /\ Len(startCopies) \in Nat \ {0}
          /\ startCopies[Len(startCopies)].fresh
      BY <3>1 DEF DiskSound, SoundCopies
    <3>3. startCopies[Len(startCopies)] \in Beside(startWal, startDb)
      BY <3>2
    <3>4. StartupOf!Alike(startCopies[Len(startCopies)].data, startDb)
      BY <3>1, <3>2, <3>3 DEF Beside
    <3>5. QED
      BY <2>1, <3>2, <3>4
  <2>2. CASE ~StartupOf!Covered
    <3>1. StartupOf!Name \in Names
      <4>1. startRun.release \in Int /\ startDb.version \in Int
        BY <1>1, Schemas DEF RunSound, DiskSound, Data, StartupOf!Data, StartupOf!Unknown
      <4>2. QED
        BY <4>1 DEF StartupOf!Name, StartupOf!Mine, Names
    <3>2. c \in Beside(startWal, startDb) /\ c.fresh /\ c.data = startDb
      BY <3>1 DEF StartupOf!Copy, Beside, Saved, DiskSound, StartupOf!Alike
    <3> HIDE DEF c
    <3>3. QED
      BY <2>2, <3>2, PutSound DEF DiskSound, StartupOf!Alike
  <2>3. QED
    BY <2>1, <2>2
<1> HIDE DEF cs
<1>3. SoundCopies(startCopies', startWal', startDb') /\ Len(startCopies') \in Nat \ {0}
      /\ StartupOf!Alike(startCopies'[Len(startCopies')].data, startDb)
  BY <1>1, <1>2, PruneSound
<1>4. DiskSound'
  BY <1>1, <1>3 DEF DiskSound
<1>5. Len(startCopies') \in DOMAIN startCopies'
  BY <1>3 DEF SoundCopies
<1>6. QED
  BY <1>1, <1>3, <1>4, <1>5, RunMigrates

LEMMA CopyFailsStep ==
  ASSUME DiskSound, RunSound, StartupOf!CopyFails
  PROVE  DiskSound' /\ RunSound'
<1>1. CASE StartupOf!Pending
  <2>1. StartupOf!Closed /\ startDb' = startDb /\ startRun' = [startRun EXCEPT !.at = "emergency"]
    BY <1>1 DEF StartupOf!CopyFails, StartupOf!Emergency
  <2>2. startRun'.at = "emergency"
    BY <2>1 DEF RunSound
  <2>3. QED
    BY <2>1, <2>2, CloseSound, RunEnds
<1>2. CASE ~StartupOf!Pending
  <2>1. startRun.at = "copying" /\ startRun' = [startRun EXCEPT !.at = "migrating"]
        /\ UNCHANGED <<startDb, startMain, startWal, startCopies>>
    BY <1>2 DEF StartupOf!CopyFails, StartupOf!At, StartupOf!Go
  <2>2. QED
    BY <1>2, <2>1, DiskStays, RunMigrates
<1>3. QED
  BY <1>1, <1>2

(* The migrations: each writes, and keeps the data there is a copy of.     *)
LEMMA MigrateStep ==
  ASSUME DiskSound, RunSound, StartupOf!Migrate
  PROVE  DiskSound' /\ RunSound'
<1> DEFINE d == [startDb EXCEPT !.schema = @ + 1]
<1>1. /\ startRun.at = "migrating" /\ Schema[startRun.release] > startDb.schema
      /\ StartupOf!Write(d) /\ startRun' = startRun
  BY DEF StartupOf!Migrate, StartupOf!At, StartupOf!Pending, StartupOf!Mine
<1>2. startRun.release \in Releases /\ startDb.schema \in 0..Schema[Len(Schema)]
  BY <1>1 DEF RunSound, DiskSound, Data, StartupOf!Data
<1>3. startDb.schema + 1 \in 0..Schema[Len(Schema)]
  BY <1>1, <1>2, Schemas
<1>4. d \in Data /\ d.content = startDb.content /\ d.keys = startDb.keys /\ d.schema = startDb.schema + 1
  BY <1>3 DEF DiskSound, Data, StartupOf!Data
<1>5. StartupOf!OfOneKey(d)
  BY <1>4 DEF DiskSound, StartupOf!OfOneKey
<1> HIDE DEF d
<1>6. /\ DiskSound' /\ startDb' = d /\ DOMAIN startCopies' = DOMAIN startCopies
      /\ \A i \in DOMAIN startCopies : startCopies'[i].data = startCopies[i].data
  BY <1>1, <1>4, <1>5, WriteSound
<1>7. StartupOf!CopiedBeforeChange'
  <2>1. startRun.found # 0 =>
          \E i \in DOMAIN startCopies :
            startCopies[i].data.content = startDb.content /\ startCopies[i].data.keys = startDb.keys
    BY <1>1 DEF RunSound, StartupOf!CopiedBeforeChange, StartupOf!At, StartupOf!Pending, StartupOf!Mine
  <2>2. QED
    BY <1>1, <1>4, <1>6, <2>1 DEF StartupOf!CopiedBeforeChange
<1>8. QED
  BY <1>1, <1>6, <1>7 DEF RunSound

(* The number of the release is not data of the customer.                  *)
LEMMA VersionSound ==
  ASSUME DiskSound, NEW r \in Releases
  PROVE  LET d == [startDb EXCEPT !.version = r]
         IN d \in Data /\ StartupOf!OfOneKey(d) /\ d.keys = startDb.keys
BY DEF DiskSound, Data, StartupOf!Data, StartupOf!OfOneKey

LEMMA MigratedStep ==
  ASSUME DiskSound, RunSound, StartupOf!Migrated
  PROVE  DiskSound' /\ RunSound'
<1>1. /\ startRun.at = "migrating" /\ startRun' = [startRun EXCEPT !.at = "checking"]
      /\ IF startRun.found = 0 THEN StartupOf!Write([startDb EXCEPT !.version = startRun.release])
         ELSE UNCHANGED <<startDb, startMain, startWal, startCopies>>
  BY DEF StartupOf!Migrated, StartupOf!At, StartupOf!Go, StartupOf!Mine
<1>2. startRun.release \in Releases
  BY <1>1 DEF RunSound
<1>3. DiskSound'
  BY <1>1, <1>2, VersionSound, WriteSound, DiskStays
<1>4. QED
  BY <1>1, <1>3, RunGoesOn

(* The check of the key: who passes it has the key of all data.            *)
LEMMA CheckStep ==
  ASSUME DiskSound, RunSound, StartupOf!CheckKey
  PROVE  DiskSound' /\ RunSound'
<1>1. startRun.at = "checking" /\ startDb' = startDb
  BY DEF StartupOf!CheckKey, StartupOf!At
<1>2. CASE StartupOf!KeyMismatch
  <2>1. StartupOf!Closed /\ startRun' = [startRun EXCEPT !.at = "emergency"]
    BY <1>2 DEF StartupOf!CheckKey, StartupOf!Emergency
  <2>2. startRun'.at = "emergency"
    BY <2>1 DEF RunSound
  <2>3. QED
    BY <1>1, <2>1, <2>2, CloseSound, RunEnds
<1>3. CASE ~StartupOf!KeyMismatch
  <2>1. startRun' = [startRun EXCEPT !.at = "listening"]
        /\ UNCHANGED <<startDb, startMain, startWal, startCopies>>
    BY <1>1, <1>3 DEF StartupOf!CheckKey, StartupOf!Go
  <2>2. startDb.keys \subseteq startRun.keys
    BY <1>3 DEF StartupOf!KeyMismatch, DiskSound, StartupOf!OfOneKey
  <2>3. QED
    BY <1>1, <2>1, <2>2, DiskStays, RunGoesOn
<1>4. QED
  BY <1>2, <1>3

LEMMA ListenStep ==
  ASSUME DiskSound, RunSound, StartupOf!Listen
  PROVE  DiskSound' /\ RunSound'
<1>1. /\ startRun.at = "listening" /\ startRun' = [startRun EXCEPT !.at = "on"]
      /\ StartupOf!Write([startDb EXCEPT !.version = startRun.release])
  BY DEF StartupOf!Listen, StartupOf!At, StartupOf!Go, StartupOf!Mine
<1>2. startRun.release \in Releases /\ startDb.keys \subseteq startRun.keys
  BY <1>1 DEF RunSound
<1>3. DiskSound' /\ startDb'.keys = startDb.keys
  BY <1>1, <1>2, VersionSound, WriteSound
<1>4. QED
  BY <1>1, <1>2, <1>3, RunGoesOn

(* Data is written under the key of the process, and so under one.         *)
LEMMA WorkStep ==
  ASSUME DiskSound, RunSound, StartupOf!Work
  PROVE  DiskSound' /\ RunSound'
<1> DEFINE d == [startDb EXCEPT !.content = @ + 1, !.keys = @ \cup startRun.keys]
<1>1. startRun.at = "on" /\ StartupOf!Write(d) /\ startRun' = startRun
  BY DEF StartupOf!Work, StartupOf!At
<1>2. startDb.keys \subseteq startRun.keys /\ \E k \in Keys : startRun.keys = {k}
  BY <1>1 DEF RunSound
<1>3. d \in Data /\ d.keys = startRun.keys
  <2>1. /\ startDb.keys \cup startRun.keys = startRun.keys /\ startRun.keys \in SUBSET Keys
        /\ startDb \in Data /\ startDb.content + 1 \in Nat
    BY <1>2 DEF DiskSound, Data, StartupOf!Data
  <2>2. d = [startDb EXCEPT !.content = startDb.content + 1, !.keys = startRun.keys]
    BY <2>1
  <2>3. QED
    BY <2>1, <2>2 DEF Data, StartupOf!Data
<1>4. StartupOf!OfOneKey(d)
  BY <1>2, <1>3 DEF StartupOf!OfOneKey
<1> HIDE DEF d
<1>5. DiskSound' /\ startDb' = d
  BY <1>1, <1>3, <1>4, WriteSound
<1>6. QED
  BY <1>1, <1>3, <1>5 DEF RunSound, StartupOf!CopiedBeforeChange, StartupOf!At

(* A start that ends, by itself or not.                                    *)
LEMMA EndSteps ==
  ASSUME DiskSound, RunSound,
         StartupOf!MigrationFails \/ StartupOf!ListenFails \/ StartupOf!Stop \/ StartupOf!Kill
  PROVE  DiskSound' /\ RunSound'
<1>1. /\ startDb' = startDb
      /\ StartupOf!Closed \/ UNCHANGED <<startMain, startWal, startCopies>>
      /\ startRun' \in {StartupOf!Off, [startRun EXCEPT !.at = "emergency"]}
  BY DEF StartupOf!MigrationFails, StartupOf!ListenFails, StartupOf!Stop, StartupOf!Kill, StartupOf!Emergency
<1>2. startRun'.at \in {"off", "emergency"}
  BY <1>1 DEF RunSound, StartupOf!Off
<1>3. QED
  BY <1>1, <1>2, CloseSound, DiskStays, RunEnds

(* What is done by hand while the gate is off.                             *)
LEMMA HandSteps ==
  ASSUME DiskSound, RunSound, StartupOf!ByHand
  PROVE  DiskSound' /\ RunSound'
<1>1. startRun.at = "off" /\ startRun' = startRun
  BY DEF StartupOf!ByHand, StartupOf!AddAdmin, StartupOf!UpdateCopies, StartupOf!Restore, StartupOf!At
<1>2. RunSound'
  BY <1>1, RunEnds
<1>3. ASSUME NEW r \in Releases, NEW k \in Keys, StartupOf!AddAdmin(r, k)
      PROVE  DiskSound'
  <2> DEFINE d == [startDb EXCEPT !.schema = Schema[r]]
  <2>1. startDb' = d /\ startMain' = startDb' /\ startWal' = FALSE
        /\ startCopies' = StartupOf!Stale(startCopies)
    BY <1>3 DEF StartupOf!AddAdmin
  <2>2. Schema[r] \in 0..Schema[Len(Schema)]
    BY Schemas
  <2>3. d \in Data /\ StartupOf!OfOneKey(d)
    BY <2>2 DEF DiskSound, Data, StartupOf!Data, StartupOf!OfOneKey
  <2> HIDE DEF d
  <2>4. QED
    BY <2>1, <2>3, ReplaceSound
<1>4. ASSUME NEW r \in Releases, StartupOf!UpdateCopies(r)
      PROVE  DiskSound'
  <2> DEFINE c == StartupOf!Copy(<<"from", r>>, startMain)
  <2>1. startCopies' = StartupOf!Put(c) /\ UNCHANGED <<startDb, startMain, startWal>>
    BY <1>4 DEF StartupOf!UpdateCopies
  <2>2. <<"from", r>> \in Names
    BY Schemas DEF Names
  <2>3. c \in Beside(startWal, startDb) /\ c.fresh
    BY <2>2 DEF StartupOf!Copy, Beside, Saved, DiskSound, StartupOf!Alike
  <2> HIDE DEF c
  <2>4. SoundCopies(startCopies', startWal', startDb')
    BY <2>1, <2>3, PutSound DEF DiskSound
  <2>5. QED
    BY <2>1, <2>4 DEF DiskSound
<1>5. ASSUME NEW i \in DOMAIN startCopies, StartupOf!Restore(i)
      PROVE  DiskSound'
  <2>1. startCopies[i] \in Beside(startWal, startDb)
    BY DEF DiskSound, SoundCopies
  <2>2. startCopies[i].data \in Data /\ StartupOf!OfOneKey(startCopies[i].data)
    BY <2>1 DEF Beside, Saved
  <2>3. startDb' = startCopies[i].data /\ startMain' = startDb' /\ startWal' = FALSE
        /\ startCopies' = StartupOf!Stale(startCopies)
    BY <1>5 DEF StartupOf!Restore
  <2>4. QED
    BY <2>2, <2>3, ReplaceSound
<1>6. QED
  BY <1>2, <1>3, <1>4, <1>5 DEF StartupOf!ByHand

-----------------------------------------------------------------------------
LEMMA StartupBegin == StartupOf!Init => StartupOf!IInv
<1> SUFFICES ASSUME StartupOf!Init PROVE DiskSound /\ RunSound
  BY StartupParts
<1>1. startDb \in Data /\ StartupOf!OfOneKey(startDb)
  <2> DEFINE New(n, S) == [schema |-> n, version |-> 0, content |-> 0, keys |-> S]
  <2>1. startDb = New(0, {}) \/ \E k \in Keys : startDb = New(Schema[1], {k})
    BY DEF StartupOf!Init, StartupOf!Empty, StartupOf!Unknown
  <2>2. {0, Schema[1]} \subseteq 0..Schema[Len(Schema)]
    BY Schemas
  <2>3. ASSUME NEW n \in {0, Schema[1]}, NEW S \in SUBSET Keys, \A k, l \in S : k = l
        PROVE  New(n, S) \in Data /\ StartupOf!OfOneKey(New(n, S))
    BY <2>2, <2>3 DEF Data, StartupOf!Data, StartupOf!Unknown, StartupOf!OfOneKey
  <2> HIDE DEF New
  <2>4. QED
    BY <2>1, <2>3
<1>2. SoundCopies(<<>>, startWal, startDb)
  BY DEF SoundCopies
<1>3. QED
  BY <1>1, <1>2 DEF StartupOf!Init, StartupOf!Off, DiskSound, RunSound, StartupOf!Places,
     StartupOf!CopiedBeforeChange, StartupOf!At

LEMMA StartupStays ==
  ASSUME StartupOf!IInv, StartupOf!Next \/ UNCHANGED startVars
  PROVE  StartupOf!IInv'
<1>1. DiskSound /\ RunSound
  BY StartupParts
<1>2. CASE StartupOf!Next
  <2>1. DiskSound' /\ RunSound'
    BY <1>1, <1>2, StartStep, KeylessStep, NoCopyStep, CopyStep, CopyFailsStep, MigrateStep, MigratedStep,
       CheckStep, ListenStep, WorkStep, EndSteps, HandSteps
       DEF StartupOf!Next, StartupOf!Process
  <2>2. QED
    BY <2>1, StartupParts, PTL
<1>3. CASE UNCHANGED startVars
  <2>1. UNCHANGED <<startDb, startMain, startWal, startCopies, startRun>>
    BY <1>3 DEF startVars
  <2>2. DiskSound' /\ RunSound'
    BY <1>1, <2>1, DiskStays DEF RunSound, StartupOf!CopiedBeforeChange, StartupOf!At, StartupOf!Pending,
       StartupOf!Mine
  <2>3. QED
    BY <2>2, StartupParts, PTL
<1>4. QED
  BY <1>2, <1>3

-----------------------------------------------------------------------------
(* The lists. Rows are finitely many, and so is a list of them.            *)
LEMMA CountOfLists == ASSUME NEW S PROVE ListsOf!Cardinality(S) = Cardinality(S)
BY Zenon DEF ListsOf!Cardinality, Cardinality

Before(t, i) == {k \in ListsOf!Listed(t) : ListsOf!Newer(t, k, i)}

LEMMA Listing ==
  ASSUME NEW t, DOMAIN t \subseteq Ids
  PROVE  /\ IsFiniteSet(ListsOf!Listed(t)) /\ Cardinality(ListsOf!Listed(t)) \in Nat
         /\ \A i : IsFiniteSet(Before(t, i)) /\ ListsOf!Place(t, i) = Cardinality(Before(t, i))
                   /\ ListsOf!Place(t, i) \in Nat
<1>1. ListsOf!Listed(t) \subseteq Ids
  BY DEF ListsOf!Listed
<1>2. IsFiniteSet(ListsOf!Listed(t))
  BY <1>1, ListsAssumption, FS_Subset
<1>3. ASSUME NEW i
      PROVE  IsFiniteSet(Before(t, i)) /\ ListsOf!Place(t, i) = Cardinality(Before(t, i))
  <2>1. Before(t, i) \subseteq ListsOf!Listed(t)
    BY DEF Before
  <2>2. ListsOf!Place(t, i) = Cardinality(Before(t, i))
    BY CountOfLists, Zenon DEF ListsOf!Place, Before
  <2>3. QED
    BY <1>2, <2>1, <2>2, FS_Subset
<1>4. QED
  BY <1>2, <1>3, FS_CardinalityType

(* The last place of a list is below its length.                           *)
LEMMA PlaceInList ==
  ASSUME NEW t, DOMAIN t \subseteq Ids, \A k \in DOMAIN t : t[k].at \in Int,
         NEW i \in ListsOf!Listed(t)
  PROVE  ListsOf!Place(t, i) < Cardinality(ListsOf!Listed(t))
<1>1. i \notin Before(t, i)
  <2>1. i \in DOMAIN t /\ t[i].at \in Int /\ i \in Int
    BY ListsAssumption DEF ListsOf!Listed
  <2>2. ~ListsOf!Newer(t, i, i)
    BY <2>1 DEF ListsOf!Newer
  <2>3. QED
    BY <2>2 DEF Before
<1>2. Before(t, i) \subseteq ListsOf!Listed(t) /\ Before(t, i) # ListsOf!Listed(t)
  BY <1>1 DEF Before
<1>3. Cardinality(Before(t, i)) < Cardinality(ListsOf!Listed(t))
  BY <1>2, Listing, FS_Subset
<1>4. QED
  BY <1>3, Listing

(* While no row leaves a list, the place of a row in it does not fall.     *)
LEMMA PlaceGrows ==
  ASSUME NEW t, NEW u, DOMAIN t \subseteq Ids, DOMAIN u \subseteq Ids,
         ListsOf!Listed(t) \subseteq ListsOf!Listed(u),
         \A k \in DOMAIN t : u[k].at = t[k].at,
         NEW i \in ListsOf!Listed(t)
  PROVE  ListsOf!Place(t, i) <= ListsOf!Place(u, i)
<1>1. Before(t, i) \subseteq Before(u, i)
  BY DEF Before, ListsOf!Newer, ListsOf!Listed
<1>2. Cardinality(Before(t, i)) <= Cardinality(Before(u, i))
  BY <1>1, Listing, FS_Subset
<1>3. QED
  BY <1>2, Listing

(* What is asked for does not change, and so neither which rows are shown. *)
LEMMA ListedNext ==
  ASSUME listAsked' = listAsked
  PROVE  /\ ListsOf!Listed(listRows)' = ListsOf!Listed(listRows')
         /\ \A i : ListsOf!Place(listRows, i)' = ListsOf!Place(listRows', i)
<1>1. ListsOf!Listed(listRows)' = ListsOf!Listed(listRows')
  BY DEF ListsOf!Listed, ListsOf!Shows, ListsOf!InStatus, ListsOf!InDays, ListsOf!Messages,
     ListsOf!Inbound, ListsOf!PanelMessages, ListsOf!PanelInbound, ListsOf!Packages, ListsOf!Audit
<1>2. QED
  BY <1>1 DEF ListsOf!Place, ListsOf!Newer

-----------------------------------------------------------------------------
ListRow == [at : Times, of : Owners, status : DOMAIN ListsOf!After]

ListsTyped ==
  /\ DOMAIN listRows \subseteq Ids /\ \A i \in DOMAIN listRows : listRows[i] \in ListRow
  /\ listAsked \in ListsOf!Asks
  /\ listReading \in {"no", "on", "over"}
  /\ listOffset \in Nat
  /\ listGot \cup listBase \subseteq Ids
  /\ listLeft \in BOOLEAN

LEMMA ListsParts == ListsOf!IInv <=> ListsTyped /\ ListsOf!ToCome /\ ListsOf!NothingIsSkipped
BY DEF ListsOf!IInv, ListsOf!TypeOK, ListsTyped, ListRow

LEMMA LimitType == listAsked \in ListsOf!Asks => ListsOf!Limit \in Nat
<1> SUFFICES ASSUME listAsked \in ListsOf!Asks PROVE ListsOf!Limit \in Nat
  OBVIOUS
<1>1. listAsked.limit \in Int
  <2>1. ASSUME NEW L, NEW Q \in SUBSET Int, NEW F, listAsked \in [list : L, limit : Q, filter : F]
        PROVE  listAsked.limit \in Int
    BY <2>1
  <2>2. Requests \in SUBSET Int /\ {PageSize} \in SUBSET Int
    BY ListsAssumption
  <2>3. QED
    BY <2>1, <2>2 DEF ListsOf!Asks
<1>2. QED
  BY <1>1, ListsAssumption DEF ListsOf!Limit

(* A row that comes or changes moves no row that is there towards pages    *)
(* that have been read, unless one leaves the list.                        *)
LEMMA TableStep ==
  ASSUME ListsTyped, ListsOf!ToCome, ListsOf!NothingIsSkipped,
         ListsOf!Changed(listRows'),
         DOMAIN listRows' \subseteq Ids, \A i \in DOMAIN listRows' : listRows'[i] \in ListRow,
         \A i \in DOMAIN listRows : listRows'[i].at = listRows[i].at
  PROVE  ListsTyped' /\ ListsOf!ToCome' /\ ListsOf!NothingIsSkipped'
<1>1. /\ UNCHANGED <<listAsked, listReading, listOffset, listGot, listBase>>
      /\ listLeft' = (listLeft \/ (listReading = "on"
                        /\ ~(ListsOf!Listed(listRows) \subseteq ListsOf!Listed(listRows'))))
  BY DEF ListsOf!Changed
<1>2. ListsTyped'
  BY <1>1 DEF ListsTyped
<1>3. ListsOf!NothingIsSkipped'
  BY <1>1 DEF ListsOf!NothingIsSkipped
<1>4. ListsOf!ToCome'
  <2> SUFFICES ASSUME listReading = "on", ~listLeft', NEW i \in listBase
               PROVE  i \in ListsOf!Listed(listRows)' /\ (i \in listGot \/ listOffset <= ListsOf!Place(listRows, i)')
    BY <1>1 DEF ListsOf!ToCome
  <2>1. ListsOf!Listed(listRows) \subseteq ListsOf!Listed(listRows') /\ ~listLeft
    BY <1>1
  <2>2. i \in ListsOf!Listed(listRows) /\ (i \in listGot \/ listOffset <= ListsOf!Place(listRows, i))
    BY <2>1 DEF ListsOf!ToCome
  <2>3. /\ ListsOf!Place(listRows, i) <= ListsOf!Place(listRows', i)
        /\ ListsOf!Place(listRows, i) \in Nat /\ ListsOf!Place(listRows', i) \in Nat
    BY <2>1, <2>2, PlaceGrows, Listing DEF ListsTyped
  <2>4. QED
    BY <1>1, <2>1, <2>2, <2>3, ListedNext DEF ListsTyped
<1>5. QED
  BY <1>2, <1>3, <1>4

LEMMA InsertStep ==
  ASSUME ListsTyped, ListsOf!ToCome, ListsOf!NothingIsSkipped,
         NEW i \in Ids, NEW at \in Times, NEW of \in Owners, ListsOf!Insert(i, at, of)
  PROVE  ListsTyped' /\ ListsOf!ToCome' /\ ListsOf!NothingIsSkipped'
<1> DEFINE new == [at |-> at, of |-> of, status |-> "queued"]
<1>1. /\ i \notin DOMAIN listRows
      /\ listRows' = [k \in {i} \cup DOMAIN listRows |-> IF k = i THEN new ELSE listRows[k]]
      /\ ListsOf!Changed(listRows')
  BY DEF ListsOf!Insert, ListsOf!Changed
<1>2. new \in ListRow
  BY DEF ListRow, ListsOf!After
<1> HIDE DEF new
<1>3. /\ DOMAIN listRows' \subseteq Ids /\ \A k \in DOMAIN listRows' : listRows'[k] \in ListRow
      /\ \A k \in DOMAIN listRows : listRows'[k].at = listRows[k].at
  BY <1>1, <1>2 DEF ListsTyped
<1>4. QED
  BY <1>1, <1>3, TableStep

LEMMA AdvanceStep ==
  ASSUME ListsTyped, ListsOf!ToCome, ListsOf!NothingIsSkipped,
         NEW i \in DOMAIN listRows, NEW s, ListsOf!Advance(i, s)
  PROVE  ListsTyped' /\ ListsOf!ToCome' /\ ListsOf!NothingIsSkipped'
<1> DEFINE new == [listRows[i] EXCEPT !.status = s]
<1>1. /\ s \in ListsOf!After[listRows[i].status]
      /\ listRows' = [listRows EXCEPT ![i] = new]
      /\ ListsOf!Changed(listRows')
  BY DEF ListsOf!Advance, ListsOf!Changed
<1>2. listRows[i] \in ListRow
  BY DEF ListsTyped
<1>3. new \in ListRow /\ new.at = listRows[i].at
  BY <1>1, <1>2 DEF ListRow, ListsOf!After
<1> HIDE DEF new
<1>4. /\ DOMAIN listRows' \subseteq Ids /\ \A k \in DOMAIN listRows' : listRows'[k] \in ListRow
      /\ \A k \in DOMAIN listRows : listRows'[k].at = listRows[k].at
  BY <1>1, <1>3 DEF ListsTyped
<1>5. QED
  BY <1>1, <1>4, TableStep

LEMMA ReadingStarts ==
  ASSUME ListsTyped, ListsOf!ToCome, ListsOf!Start
  PROVE  ListsTyped' /\ ListsOf!ToCome' /\ ListsOf!NothingIsSkipped'
<1>1. /\ listReading = "no" /\ listReading' = "on" /\ listBase' = ListsOf!Listed(listRows)
      /\ UNCHANGED <<listRows, listAsked, listOffset, listGot, listLeft>>
  BY DEF ListsOf!Start
<1>2. ListsTyped'
  BY <1>1 DEF ListsTyped, ListsOf!Listed
<1>3. listOffset' = 0
  BY <1>1 DEF ListsOf!ToCome
<1>4. \A i \in listBase' : i \in ListsOf!Listed(listRows)' /\ listOffset' <= ListsOf!Place(listRows, i)'
  BY <1>1, <1>3, ListedNext, Listing DEF ListsTyped
<1>5. QED
  BY <1>1, <1>2, <1>4 DEF ListsOf!ToCome, ListsOf!NothingIsSkipped

(* A page: what has its place there has been read. When no row came beyond *)
(* it, the list has no place after it.                                     *)
LEMMA PageTurns ==
  ASSUME ListsTyped, ListsOf!ToCome, ListsOf!Turn
  PROVE  ListsTyped' /\ ListsOf!ToCome' /\ ListsOf!NothingIsSkipped'
<1> DEFINE n == Cardinality(ListsOf!Listed(listRows))
<1>1. /\ listReading = "on" /\ listGot' = listGot \cup ListsOf!Page
      /\ listReading' = IF ListsOf!Came > ListsOf!Limit THEN "on" ELSE "over"
      /\ listOffset' = listOffset + ListsOf!Limit
      /\ UNCHANGED <<listRows, listAsked, listBase, listLeft>>
  BY DEF ListsOf!Turn
<1>2. ListsOf!Limit \in Nat /\ listOffset \in Nat /\ n \in Nat
  BY LimitType, Listing DEF ListsTyped
<1>3. ListsTyped'
  BY <1>1, <1>2 DEF ListsTyped, ListsOf!Page, ListsOf!Listed
<1>4. listReading' = "over" => n <= listOffset + ListsOf!Limit
  <2>1. ListsOf!Came = IF n - listOffset < ListsOf!Limit + 1 THEN n - listOffset ELSE ListsOf!Limit + 1
    BY CountOfLists, Zenon DEF ListsOf!Came, ListsOf!AskedRows
  <2> HIDE DEF n
  <2>2. QED
    BY <1>1, <1>2, <2>1
<1> HIDE DEF n
<1>5. ASSUME ~listLeft, NEW i \in listBase
      PROVE  /\ i \in ListsOf!Listed(listRows)
             /\ i \in listGot' \/ listOffset' <= ListsOf!Place(listRows, i)
             /\ ListsOf!Place(listRows, i) < n
  <2>1. i \in ListsOf!Listed(listRows) /\ (i \in listGot \/ listOffset <= ListsOf!Place(listRows, i))
    BY <1>1, <1>5 DEF ListsOf!ToCome
  <2>2. ListsOf!Place(listRows, i) \in Nat
    BY Listing DEF ListsTyped
  <2>3. ListsOf!Place(listRows, i) < n
    <3>1. \A k \in DOMAIN listRows : listRows[k].at \in Int
      BY ListsAssumption DEF ListsTyped, ListRow
    <3>2. QED
      BY <2>1, <3>1, PlaceInList DEF ListsTyped, n
  <2>4. i \in listGot' \/ listOffset' <= ListsOf!Place(listRows, i)
    BY <1>1, <1>2, <2>1, <2>2 DEF ListsOf!Page
  <2>5. QED
    BY <2>1, <2>3, <2>4
<1>6. ListsOf!ToCome'
  BY <1>1, <1>5, ListedNext DEF ListsOf!ToCome
<1>7. ListsOf!NothingIsSkipped'
  <2> SUFFICES ASSUME listReading' = "over", ~listLeft, NEW i \in listBase
               PROVE  i \in listGot'
    BY <1>1 DEF ListsOf!NothingIsSkipped
  <2>1. ListsOf!Place(listRows, i) \in Nat
    BY Listing DEF ListsTyped
  <2>2. QED
    BY <1>1, <1>2, <1>4, <1>5, <2>1
<1>8. QED
  BY <1>3, <1>6, <1>7

LEMMA ListsBegin == ListsOf!Init => ListsOf!IInv
<1> SUFFICES ASSUME ListsOf!Init PROVE ListsTyped /\ ListsOf!ToCome /\ ListsOf!NothingIsSkipped
  BY ListsParts
<1>1. DOMAIN listRows = {}
  BY DEF ListsOf!Init
<1>2. QED
  BY <1>1 DEF ListsOf!Init, ListsTyped, ListsOf!ToCome, ListsOf!NothingIsSkipped

LEMMA ListsStay ==
  ASSUME ListsOf!IInv, ListsOf!Next \/ UNCHANGED listVars
  PROVE  ListsOf!IInv'
<1>1. ListsTyped /\ ListsOf!ToCome /\ ListsOf!NothingIsSkipped
  BY ListsParts
<1>2. ListsTyped' /\ ListsOf!ToCome' /\ ListsOf!NothingIsSkipped'
  <2>1. CASE ListsOf!Next
    BY <1>1, <2>1, InsertStep, AdvanceStep, ReadingStarts, PageTurns DEF ListsOf!Next
  <2>2. CASE UNCHANGED listVars
    BY <1>1, <2>2, ListedNext DEF listVars, ListsTyped, ListsOf!ToCome, ListsOf!NothingIsSkipped
  <2>3. QED
    BY <2>1, <2>2
<1>3. QED
  BY <1>2, ListsParts, PTL

-----------------------------------------------------------------------------
(* Notifications. The sums of the model are cardinalities, so what they    *)
(* are made of is counted and nothing is proved by induction.              *)

LEMMA CountOfNotices ==
  ASSUME NEW S PROVE NoticesOf!Cardinality(S) = Cardinality(S) /\ (NoticesOf!IsFiniteSet(S) <=> IsFiniteSet(S))
BY Zenon DEF NoticesOf!Cardinality, Cardinality, NoticesOf!IsFiniteSet, IsFiniteSet

(* Sums, counted one by one.                                               *)
Units(f, S) == UNION {{x} \X (1..f[x]) : x \in S}
Sum(f, S)   == Cardinality(Units(f, S))

LEMMA TotalIsSum == ASSUME NEW f, NEW S PROVE NoticesOf!Total(f, S) = Sum(f, S)
BY CountOfNotices DEF NoticesOf!Total, Sum, Units

LEMMA ProductFinite == \A S, T : IsFiniteSet(S) /\ IsFiniteSet(T) => IsFiniteSet(S \X T)
BY FS_Product

LEMMA UnionCount ==
  \A S, T : IsFiniteSet(S) /\ IsFiniteSet(T) /\ S \cap T = {} =>
    Cardinality(S \cup T) = Cardinality(S) + Cardinality(T)
<1> SUFFICES ASSUME NEW S, NEW T, IsFiniteSet(S), IsFiniteSet(T), S \cap T = {}
             PROVE  Cardinality(S \cup T) = Cardinality(S) + Cardinality(T)
  OBVIOUS
<1>1. Cardinality(S \cup T) = Cardinality(S) + Cardinality(T) - Cardinality(S \cap T)
  BY FS_Union
<1>2. Cardinality(S) \in Nat /\ Cardinality(T) \in Nat
  BY FS_CardinalityType
<1>3. Cardinality(S \cap T) = 0
  BY FS_EmptySet
<1>4. QED
  BY <1>1, <1>2, <1>3

LEMMA SumType ==
  ASSUME NEW S, IsFiniteSet(S), NEW f, \A x \in S : f[x] \in Nat
  PROVE  IsFiniteSet(Units(f, S)) /\ Sum(f, S) \in Nat
<1> DEFINE T == {{x} \X (1..f[x]) : x \in S}
           g == [x \in S |-> {x} \X (1..f[x])]
<1>1. g \in Surjection(S, T)
  BY DEF Surjection
<1>2. IsFiniteSet(T)
  BY <1>1, FS_Surjection
<1>3. ASSUME NEW t \in T PROVE IsFiniteSet(t)
  <2>1. PICK x \in S : t = {x} \X (1..f[x])
    OBVIOUS
  <2>2. f[x] \in Nat
    OBVIOUS
  <2>3. IsFiniteSet(1..f[x])
    BY <2>2, FS_Interval
  <2>4. IsFiniteSet({x})
    BY FS_Singleton
  <2>5. QED
    BY <2>1, <2>3, <2>4, ProductFinite, Zenon
<1>4. IsFiniteSet(UNION T)
  BY <1>2, <1>3, FS_UNION
<1>5. QED
  BY <1>4, FS_CardinalityType DEF Sum, Units

LEMMA SumOfTwo ==
  ASSUME NEW S, IsFiniteSet(S), NEW T, IsFiniteSet(T), S \cap T = {},
         NEW f, \A x \in S \cup T : f[x] \in Nat
  PROVE  Sum(f, S \cup T) = Sum(f, S) + Sum(f, T)
<1>1. Units(f, S \cup T) = Units(f, S) \cup Units(f, T)
  BY DEF Units
<1>2. Units(f, S) \cap Units(f, T) = {}
  BY DEF Units
<1>3. IsFiniteSet(Units(f, S)) /\ IsFiniteSet(Units(f, T)) /\ Sum(f, S) \in Nat /\ Sum(f, T) \in Nat
  BY SumType
<1>4. Cardinality(Units(f, S) \cup Units(f, T)) = Cardinality(Units(f, S)) + Cardinality(Units(f, T))
  BY <1>2, <1>3, UnionCount, Zenon
<1>5. QED
  BY <1>1, <1>4, Zenon DEF Sum

LEMMA SumOfSame ==
  ASSUME NEW S, NEW f, NEW g, \A x \in S : f[x] = g[x]
  PROVE  Sum(f, S) = Sum(g, S)
<1>1. Units(f, S) = Units(g, S)
  BY DEF Units
<1>2. QED
  BY <1>1 DEF Sum

LEMMA SumOfOne ==
  ASSUME NEW S, IsFiniteSet(S), NEW f, NEW c \in Nat, \A x \in S : f[x] = c
  PROVE  Sum(f, S) = Cardinality(S) * c
<1>1. Units(f, S) = S \X (1..c)
  <2>1. Units(f, S) \subseteq S \X (1..c)
    BY DEF Units
  <2>2. S \X (1..c) \subseteq Units(f, S)
    BY DEF Units
  <2>3. QED
    BY <2>1, <2>2
<1>2. IsFiniteSet(1..c) /\ Cardinality(1..c) = c
  BY FS_Interval
<1>3. QED
  BY <1>1, <1>2, FS_Product DEF Sum

LEMMA SumOfPart ==
  ASSUME NEW S, IsFiniteSet(S), NEW T \in SUBSET S, NEW f, \A x \in S : f[x] \in Nat
  PROVE  Sum(f, T) <= Sum(f, S)
<1>1. Units(f, T) \subseteq Units(f, S)
  BY DEF Units
<1>2. QED
  BY <1>1, SumType, FS_Subset DEF Sum

(* A share of what is left of a pool does not exceed it.                   *)
LEMMA Shares == ASSUME NEW a \in Nat, NEW b \in Nat \ {0} PROVE (a \div b) * b <= a /\ a \div b \in Nat
OBVIOUS

(* A row as it may be at time t.                                           *)
NoticeRow ==
  [event : NoticesOf!Events, key : NoticesOf!Given, at : Nat, kept : BOOLEAN, mail : NoticesOf!Ways,
   mailAt : Int, sms : NoticesOf!Ways, smsAt : Int, count : Nat]

RowsAt(t) ==
  {q \in NoticeRow :
     /\ q.mail # "none" \/ q.sms # "none"
     /\ q.at <= t
     /\ IF q.mail = "sent" THEN q.at <= q.mailAt /\ q.mailAt <= t ELSE q.mailAt = -1
     /\ q.smsAt = IF q.sms = "sent" THEN q.at ELSE -1
     /\ q.kept /\ q.sms = "pending" => q.at = t}

LEMMA RowMailed ==
  ASSUME NEW t \in Nat, NEW q \in RowsAt(t)
  PROVE  [q EXCEPT !.mail = "sent", !.mailAt = t] \in RowsAt(t)
<1> DEFINE p == [q EXCEPT !.mail = "sent", !.mailAt = t]
<1>1. q \in NoticeRow /\ q.at \in Nat /\ q.at <= t
  BY DEF RowsAt, NoticeRow
<1>2. p \in NoticeRow
  <2>1. "sent" \in NoticesOf!Ways /\ t \in Int
    BY DEF NoticesOf!Ways
  <2>2. QED
    BY <1>1, <2>1 DEF NoticeRow
<1>3. p.mail = "sent" /\ p.mailAt = t /\ p.at = q.at /\ p.sms = q.sms /\ p.smsAt = q.smsAt /\ p.kept = q.kept
  BY <1>1 DEF NoticeRow
<1> HIDE DEF p
<1>4. p \in RowsAt(t)
  BY <1>1, <1>2, <1>3 DEF RowsAt
<1>5. QED
  BY <1>4 DEF p

LEMMA RowNotMailed ==
  ASSUME NEW t \in Nat, NEW q \in RowsAt(t), q.mail = "pending"
  PROVE  [q EXCEPT !.mail = "suppressed"] \in RowsAt(t)
BY DEF RowsAt, NoticeRow, NoticesOf!Ways

LEMMA RowTexted ==
  ASSUME NEW t \in Nat, NEW q \in RowsAt(t), q.kept, q.sms = "pending", NEW n \in Nat
  PROVE  [q EXCEPT !.sms = "sent", !.smsAt = t, !.count = n] \in RowsAt(t)
<1> DEFINE p == [q EXCEPT !.sms = "sent", !.smsAt = t, !.count = n]
<1>1. q \in NoticeRow /\ q.at = t
  BY DEF RowsAt, NoticeRow
<1>2. p \in NoticeRow
  <2>1. "sent" \in NoticesOf!Ways /\ t \in Int
    BY DEF NoticesOf!Ways
  <2>2. QED
    BY <1>1, <2>1 DEF NoticeRow
<1>3. p.mail = q.mail /\ p.mailAt = q.mailAt /\ p.at = t /\ p.sms = "sent" /\ p.smsAt = t /\ p.kept = q.kept
  BY <1>1 DEF NoticeRow
<1> HIDE DEF p
<1>4. p \in RowsAt(t)
  BY <1>1, <1>2, <1>3 DEF RowsAt
<1>5. QED
  BY <1>4 DEF p

LEMMA RowNotTexted ==
  ASSUME NEW t \in Nat, NEW q \in RowsAt(t), q.sms = "pending"
  PROVE  [q EXCEPT !.sms = "suppressed"] \in RowsAt(t)
BY DEF RowsAt, NoticeRow, NoticesOf!Ways

LEMMA RowForgotten ==
  ASSUME NEW t \in Nat, NEW q \in RowsAt(t), NEW b \in BOOLEAN
  PROVE  [q EXCEPT !.kept = q.kept /\ b] \in RowsAt(t)
<1>1. CASE q.kept /\ b
  BY <1>1 DEF RowsAt, NoticeRow
<1>2. CASE ~(q.kept /\ b)
  <2>1. [q EXCEPT !.kept = FALSE] \in RowsAt(t)
    BY DEF RowsAt, NoticeRow
  <2>2. (q.kept /\ b) = FALSE
    BY <1>2
  <2>3. QED
    BY <2>1, <2>2
<1>3. QED
  BY <1>1, <1>2

LEMMA RowLater ==
  ASSUME NEW t \in Nat, NEW q \in RowsAt(t), ~(q.kept /\ q.sms = "pending")
  PROVE  q \in RowsAt(t + 1)
BY DEF RowsAt, NoticeRow

LEMMA RowComes ==
  ASSUME NEW e \in NoticesOf!Events, NEW k \in NoticesOf!Given, NEW m, NEW s, m \/ s, noteNow \in Nat
  PROVE  NoticesOf!Row(e, k, m, s) \in RowsAt(noteNow)
<1> DEFINE n == NoticesOf!Row(e, k, m, s)
<1>1. n = [event |-> e, key |-> k, at |-> noteNow, kept |-> TRUE,
           mail |-> IF m THEN "pending" ELSE "none", mailAt |-> -1,
           sms |-> IF s THEN "pending" ELSE "none", smsAt |-> -1, count |-> 0]
  BY DEF NoticesOf!Row
<1>2. "pending" \in NoticesOf!Ways /\ "none" \in NoticesOf!Ways /\ -1 \in Int
  BY DEF NoticesOf!Ways
<1> HIDE DEF n
<1>3. n \in NoticeRow
  BY <1>1, <1>2 DEF NoticeRow
<1>4. n \in RowsAt(noteNow)
  BY <1>1, <1>3 DEF RowsAt
<1>5. QED
  BY <1>4 DEF n

LEMMA Marking ==
  ASSUME NEW R, NEW q \in Seq(R), NEW F, DOMAIN F = DOMAIN q, F = [r \in DOMAIN q |-> F[r]],
         \A r \in DOMAIN q : F[r] \in R
  PROVE  F \in Seq(R) /\ Len(F) = Len(q)
<1>1. F \in [1..Len(q) -> R]
  OBVIOUS
<1>2. QED
  BY <1>1

Pools == {"rules", "alarm"}

(* Rows, jobs, the channel and the turn of the SMS.                        *)
NoticesTyped ==
  /\ noteQueue \in Seq(RowsAt(noteNow))
  /\ IsFiniteSet(noteJobs)
  /\ \A j \in noteJobs : /\ j = [no |-> j.no, about |-> j.about, tries |-> j.tries]
                         /\ j.about \subseteq DOMAIN noteQueue /\ j.tries \in 0..Retries
  /\ noteChannel \in [on : BOOLEAN, numbers : Nat \ {0}]
  /\ noteTurn \in [done : Nat, failed : BOOLEAN]
  /\ noteTurn = [done |-> 0, failed |-> FALSE] \/ noteTurn.done < Len(Rules)
  /\ noteOwed \subseteq DOMAIN noteQueue /\ noteMissed \subseteq DOMAIN noteQueue
  /\ noteNow \in 0..MaxTime /\ noteKills \in Nat /\ noteUnmarked \in Nat
  /\ noteMailed \in [1..MaxRows -> Nat] /\ noteUnheard \in [1..MaxRows -> Nat]
  /\ noteTexted \in [Pools -> [0..MaxTime -> Nat]]

(* Mails that were sent, that are written and that may be written of a row. *)
MailsOf(r)  == {j \in noteJobs : r \in j.about}
Due(q, r)   == IF r \notin DOMAIN q \/ q[r].mail = "pending" THEN 1 ELSE 0
MailsSound  ==
  \A r \in 1..MaxRows :
    noteMailed[r] + Cardinality(MailsOf(r)) + Due(noteQueue, r) <= 1 + noteKills + noteUnheard[r]

(* SMS of a pool that the rows tell of since s.                            *)
Telling(q, p, s) == {r \in DOMAIN q : q[r].kept /\ q[r].sms = "sent" /\ q[r].smsAt >= s
                                      /\ NoticesOf!Pool(q[r].event) = p}
Counts(q)        == [r \in DOMAIN q |-> q[r].count]
Told(q, p, s)    == Sum(Counts(q), Telling(q, p, s))
From(t)          == NoticesOf!Over(t - Day)
TextsSound ==
  /\ \A p \in Pools, t \in 0..MaxTime : t > noteNow => noteTexted[p][t] = 0
  /\ \A p \in Pools, s \in From(noteNow)..noteNow :
       Sum(noteTexted[p], s..noteNow) <= Told(noteQueue, p, s) + noteUnmarked
  /\ \A p \in Pools, t \in 0..MaxTime : Sum(noteTexted[p], From(t)..t) <= PoolSize[p] + noteUnmarked

NoticesInv == NoticesTyped /\ MailsSound /\ TextsSound

LEMMA PoolsAre == DOMAIN PoolSize = Pools /\ \A p \in Pools : PoolSize[p] \in Nat
BY NoticesAssumption DEF Pools

(* The three are what Notices calls its inductive invariant.               *)
LEMMA NoticesParts == NoticesInv => NoticesOf!IInv
<1> SUFFICES ASSUME NoticesInv PROVE NoticesOf!IInv
  OBVIOUS
<1> USE DEF NoticesInv
<1>1. \A r \in DOMAIN noteQueue : noteQueue[r] \in RowsAt(noteNow)
  BY DEF NoticesTyped
<1>2. noteNow \in Nat
  BY DEF NoticesTyped
<1>3. \A q \in RowsAt(noteNow) :
        /\ q \in NoticeRow /\ {q.mail, q.sms} # {"none"} /\ q.at \in 0..noteNow
        /\ q.mail = "sent" <=> q.mailAt \in q.at..noteNow
        /\ q.sms = "sent" <=> q.smsAt \in q.at..noteNow
        /\ q.mail = "sent" \/ q.mailAt = -1
        /\ q.sms = "sent" \/ q.smsAt = -1
        /\ q.sms = "pending" /\ q.kept => q.at = noteNow
        /\ q.sms = "sent" => q.smsAt = q.at
  <2> SUFFICES ASSUME NEW q \in RowsAt(noteNow)
               PROVE  /\ q \in NoticeRow /\ {q.mail, q.sms} # {"none"} /\ q.at \in 0..noteNow
                      /\ q.mail = "sent" <=> q.mailAt \in q.at..noteNow
                      /\ q.sms = "sent" <=> q.smsAt \in q.at..noteNow
                      /\ q.mail = "sent" \/ q.mailAt = -1
                      /\ q.sms = "sent" \/ q.smsAt = -1
                      /\ q.sms = "pending" /\ q.kept => q.at = noteNow
                      /\ q.sms = "sent" => q.smsAt = q.at
    OBVIOUS
  <2>1. /\ q \in NoticeRow /\ q.at \in Nat /\ q.mailAt \in Int /\ q.smsAt \in Int /\ q.at <= noteNow
        /\ IF q.mail = "sent" THEN q.at <= q.mailAt /\ q.mailAt <= noteNow ELSE q.mailAt = -1
        /\ q.smsAt = IF q.sms = "sent" THEN q.at ELSE -1
        /\ q.mail # "none" \/ q.sms # "none"
        /\ q.kept /\ q.sms = "pending" => q.at = noteNow
    BY DEF RowsAt, NoticeRow
  <2>2. {q.mail, q.sms} # {"none"}
    BY <2>1
  <2>3. QED
    BY <1>2, <2>1, <2>2
<1>4. NoticesOf!TypeOK
  <2>1. \A r \in DOMAIN noteQueue :
          /\ noteQueue[r].event \in NoticesOf!Events /\ noteQueue[r].mail \in NoticesOf!Ways
          /\ noteQueue[r].sms \in NoticesOf!Ways /\ noteQueue[r].kept \in BOOLEAN
    BY <1>1 DEF RowsAt, NoticeRow
  <2>2. Len(Rules) \in Nat
    BY NoticesAssumption
  <2>3. noteTurn.done \in 0..Len(Rules)
    BY <2>2 DEF NoticesTyped
  <2>4. noteOwed \cup noteMissed \subseteq DOMAIN noteQueue
    BY DEF NoticesTyped
  <2>5. \A j \in noteJobs : j.about \subseteq DOMAIN noteQueue /\ j.tries \in 0..Retries
    BY DEF NoticesTyped
  <2>6. QED
    BY <1>1, <1>3, <2>1, <2>3, <2>4, <2>5 DEF NoticesOf!TypeOK, NoticesOf!Rows
<1>5. NoticesOf!Tables
  <2>1. noteQueue \in Seq(NoticeRow)
    <3>1. RowsAt(noteNow) \subseteq NoticeRow
      BY DEF RowsAt
    <3>2. QED
      BY <3>1 DEF NoticesTyped
  <2>2. NoticesOf!IsFiniteSet(noteJobs)
    BY CountOfNotices DEF NoticesTyped
  <2>3. QED
    BY <1>1, <1>3, <2>1, <2>2, PoolsAre
       DEF NoticesOf!Tables, NoticesOf!Rows, NoticesOf!Idle, NoticesTyped, NoticeRow
<1>6. NoticesOf!SmsAtOnce
  BY <1>1, <1>3 DEF NoticesOf!SmsAtOnce, NoticesOf!Rows
<1>7. NoticesOf!MailsCounted
  <2>1. \A r \in 1..MaxRows : NoticesOf!Cardinality(NoticesOf!About(r)) = Cardinality(MailsOf(r))
    BY CountOfNotices DEF NoticesOf!About, MailsOf
  <2>2. \A r \in 1..MaxRows : NoticesOf!ToMail(r) = Due(noteQueue, r)
    BY DEF NoticesOf!ToMail, Due, NoticesOf!Rows
  <2>3. QED
    BY <2>1, <2>2 DEF NoticesOf!MailsCounted, MailsSound
<1>8. NoticesOf!MailedOnce
  <2>1. ASSUME NEW r \in 1..MaxRows PROVE Cardinality(MailsOf(r)) \in Nat
    <3>1. IsFiniteSet(MailsOf(r))
      BY FS_Subset DEF NoticesTyped, MailsOf
    <3>2. QED
      BY <3>1, FS_CardinalityType
  <2>2. QED
    BY <2>1 DEF NoticesOf!MailedOnce, MailsSound, Due, NoticesTyped
<1>9. NoticesOf!TextsCounted
  <2>1. ASSUME NEW p, NEW s
        PROVE  NoticesOf!Total([r \in NoticesOf!Rows |-> noteQueue[r].count], NoticesOf!CountedSince(p, s))
                 = Told(noteQueue, p, s)
    <3>1. NoticesOf!CountedSince(p, s) = Telling(noteQueue, p, s)
      BY DEF NoticesOf!CountedSince, NoticesOf!Kept, NoticesOf!Rows, Telling
    <3>2. QED
      BY <3>1, TotalIsSum DEF Told, Counts, NoticesOf!Rows
  <2>2. QED
    BY <2>1, TotalIsSum, PoolsAre DEF NoticesOf!TextsCounted, TextsSound, From
<1>10. NoticesOf!PoolsHold
  BY TotalIsSum, PoolsAre DEF NoticesOf!PoolsHold, TextsSound, From
<1>11. QED
  BY <1>4, <1>5, <1>6, <1>7, <1>8, <1>9, <1>10 DEF NoticesOf!IInv

(* A table p after q that owes no mail more and still tells of the SMS of  *)
(* the day before t.                                                       *)
Follows(q, p, t) ==
  /\ p \in Seq(RowsAt(t)) /\ DOMAIN q \subseteq DOMAIN p
  /\ \A r \in DOMAIN q : p[r].mail = "pending" => q[r].mail = "pending"
  /\ \A r \in DOMAIN q : q[r].kept /\ q[r].sms = "sent" /\ q[r].smsAt >= t - Day =>
       /\ p[r].kept /\ p[r].sms = "sent"
       /\ p[r].smsAt = q[r].smsAt /\ p[r].count = q[r].count /\ p[r].event = q[r].event

LEMMA RowTypes ==
  ASSUME NEW t, NEW q \in Seq(RowsAt(t)), NEW r \in DOMAIN q
  PROVE  /\ q[r] \in RowsAt(t) /\ q[r] \in NoticeRow
         /\ q[r].at \in Nat /\ q[r].count \in Nat /\ q[r].smsAt \in Int /\ q[r].kept \in BOOLEAN
         /\ q[r].event \in NoticesOf!Events
<1>1. q[r] \in RowsAt(t)
  OBVIOUS
<1>2. q[r] \in NoticeRow
  BY <1>1 DEF RowsAt
<1>3. QED
  BY <1>1, <1>2 DEF NoticeRow

LEMMA FollowsItself ==
  ASSUME NEW t, NEW q \in Seq(RowsAt(t)) PROVE Follows(q, q, t)
BY DEF Follows

LEMMA FollowsAppended ==
  ASSUME NEW t, NEW q \in Seq(RowsAt(t)), NEW n \in RowsAt(t) PROVE Follows(q, Append(q, n), t)
<1> DEFINE p == Append(q, n)
<1>1. p \in Seq(RowsAt(t)) /\ DOMAIN q \subseteq DOMAIN p
  OBVIOUS
<1>2. \A r \in DOMAIN q : p[r] = q[r]
  OBVIOUS
<1> HIDE DEF p
<1>3. Follows(q, p, t)
  BY <1>1, <1>2 DEF Follows
<1>4. QED
  BY <1>3 DEF p

LEMMA FollowsMarked ==
  ASSUME NEW t \in Nat, NEW q \in Seq(RowsAt(t)), NEW p \in Seq(RowsAt(t)), DOMAIN p = DOMAIN q,
         \A r \in DOMAIN q : p[r].mail = "pending" => q[r].mail = "pending",
         \A r \in DOMAIN q : q[r].kept /\ q[r].sms = "sent" /\ q[r].smsAt >= t - Day =>
           /\ p[r].kept /\ p[r].sms = "sent"
           /\ p[r].smsAt = q[r].smsAt /\ p[r].count = q[r].count /\ p[r].event = q[r].event
  PROVE  Follows(q, p, t)
BY DEF Follows

LEMMA NotifyFollows ==
  ASSUME NoticesTyped, NEW e, NEW k \in NoticesOf!Given
  PROVE  Follows(noteQueue, NoticesOf!Notify(noteQueue, e, k), noteNow)
<1>1. CASE NoticesOf!Noted(e, k)
  <2>1. e \in NoticesOf!Events /\ (NoticesOf!ByMail(e) \/ NoticesOf!BySms(e))
    BY <1>1 DEF NoticesOf!Noted
  <2>2. noteNow \in Nat /\ noteQueue \in Seq(RowsAt(noteNow))
    BY DEF NoticesTyped
  <2> DEFINE n == NoticesOf!Row(e, k, NoticesOf!ByMail(e), NoticesOf!BySms(e))
  <2>3. n \in RowsAt(noteNow)
    BY <2>1, <2>2, RowComes
  <2>4. NoticesOf!Notify(noteQueue, e, k) = Append(noteQueue, n)
    BY <1>1 DEF NoticesOf!Notify
  <2> HIDE DEF n
  <2>5. QED
    BY <2>2, <2>3, <2>4, FollowsAppended
<1>2. CASE ~NoticesOf!Noted(e, k)
  BY <1>2, FollowsItself DEF NoticesTyped, NoticesOf!Notify
<1>3. QED
  BY <1>1, <1>2

(* The sums over the rows do not get less.                                 *)
LEMMA ToldGrows ==
  ASSUME NEW t, NEW u, NEW v \in Int, NEW q \in Seq(RowsAt(u)), NEW p \in Seq(RowsAt(v)),
         NEW w \in Int, NEW s \in Int, s >= w, NEW pool,
         \A r \in DOMAIN q : q[r].kept /\ q[r].sms = "sent" /\ q[r].smsAt >= w =>
           /\ r \in DOMAIN p /\ p[r].kept /\ p[r].sms = "sent"
           /\ p[r].smsAt = q[r].smsAt /\ p[r].count = q[r].count /\ p[r].event = q[r].event
  PROVE  /\ Told(q, pool, s) <= Told(p, pool, s)
         /\ Told(q, pool, s) \in Nat /\ Told(p, pool, s) \in Nat
<1>1. \A r \in DOMAIN q : q[r].count \in Nat /\ q[r].smsAt \in Int
  BY RowTypes
<1>2. \A r \in DOMAIN p : p[r].count \in Nat /\ p[r].smsAt \in Int
  BY RowTypes
<1>3. Telling(q, pool, s) \subseteq Telling(p, pool, s)
  BY <1>1 DEF Telling
<1>4. IsFiniteSet(DOMAIN p)
  <2>1. DOMAIN p = 1..Len(p) /\ Len(p) \in Nat
    OBVIOUS
  <2>2. QED
    BY <2>1, FS_Interval
<1>5. IsFiniteSet(Telling(p, pool, s)) /\ IsFiniteSet(Telling(q, pool, s))
  BY <1>3, <1>4, FS_Subset DEF Telling
<1>6. \A r \in Telling(p, pool, s) : Counts(p)[r] \in Nat
  BY <1>2 DEF Telling, Counts
<1>7. \A r \in Telling(q, pool, s) : Counts(q)[r] = Counts(p)[r] /\ Counts(q)[r] \in Nat
  BY <1>1, <1>3 DEF Telling, Counts
<1>8. Sum(Counts(q), Telling(q, pool, s)) = Sum(Counts(p), Telling(q, pool, s))
  BY <1>7, SumOfSame
<1>9. Sum(Counts(p), Telling(q, pool, s)) <= Sum(Counts(p), Telling(p, pool, s))
  BY <1>3, <1>5, <1>6, SumOfPart
<1>10. QED
  BY <1>5, <1>6, <1>7, <1>8, <1>9, SumType DEF Told

(* What a mail job may be, what the turn of the SMS and the channel may be. *)
JobsTyped(jobs, rows) ==
  /\ IsFiniteSet(jobs)
  /\ \A j \in jobs : /\ j = [no |-> j.no, about |-> j.about, tries |-> j.tries]
                     /\ j.about \subseteq rows /\ j.tries \in 0..Retries
SendingTyped ==
  /\ noteChannel \in [on : BOOLEAN, numbers : Nat \ {0}]
  /\ noteTurn \in [done : Nat, failed : BOOLEAN]
  /\ noteTurn = [done |-> 0, failed |-> FALSE] \/ noteTurn.done < Len(Rules)

LEMMA FromType == ASSUME NEW t \in Int PROVE From(t) \in Nat /\ From(t) >= t - Day
BY NoticesAssumption DEF From, NoticesOf!Over

LEMMA TextedType ==
  ASSUME NEW f \in [0..MaxTime -> Nat], NEW a \in Nat, NEW b \in 0..MaxTime
  PROVE  Sum(f, a..b) \in Nat /\ IsFiniteSet(a..b)
<1>1. b \in Nat /\ a \in Int /\ b \in Int
  BY NoticesAssumption
<1>2. IsFiniteSet(a..b)
  BY <1>1, FS_Interval
<1>3. \A x \in a..b : f[x] \in Nat
  BY <1>1, NoticesAssumption
<1>4. QED
  BY <1>2, <1>3, SumType

LEMMA MailsCount ==
  ASSUME NoticesTyped, NEW r PROVE IsFiniteSet(MailsOf(r)) /\ Cardinality(MailsOf(r)) \in Nat
<1>1. IsFiniteSet(MailsOf(r))
  BY FS_Subset DEF NoticesTyped, MailsOf
<1>2. QED
  BY <1>1, FS_CardinalityType

LEMMA TextsStay ==
  ASSUME NoticesTyped, TextsSound, Follows(noteQueue, noteQueue', noteNow),
         noteNow' = noteNow, noteTexted' = noteTexted, noteUnmarked' = noteUnmarked
  PROVE  TextsSound'
<1>1. noteNow \in Int /\ noteNow \in 0..MaxTime /\ noteUnmarked \in Nat /\ noteNow - Day \in Int
  BY NoticesAssumption DEF NoticesTyped
<1>2. ASSUME NEW p \in Pools, NEW s \in From(noteNow)..noteNow
      PROVE  Sum(noteTexted[p], s..noteNow) <= Told(noteQueue', p, s) + noteUnmarked
  <2>1. s \in Nat /\ s \in Int /\ s >= noteNow - Day
    <3>1. From(noteNow) \in Nat /\ From(noteNow) >= noteNow - Day
      BY <1>1, FromType
    <3>2. QED
      BY <1>1, <3>1, NoticesAssumption
  <2>2. /\ Told(noteQueue, p, s) <= Told(noteQueue', p, s)
        /\ Told(noteQueue, p, s) \in Nat /\ Told(noteQueue', p, s) \in Nat
    <3>1. noteQueue \in Seq(RowsAt(noteNow)) /\ noteQueue' \in Seq(RowsAt(noteNow))
      BY DEF NoticesTyped, Follows
    <3>2. \A r \in DOMAIN noteQueue :
            noteQueue[r].kept /\ noteQueue[r].sms = "sent" /\ noteQueue[r].smsAt >= noteNow - Day =>
              /\ r \in DOMAIN noteQueue' /\ noteQueue'[r].kept /\ noteQueue'[r].sms = "sent"
              /\ noteQueue'[r].smsAt = noteQueue[r].smsAt /\ noteQueue'[r].count = noteQueue[r].count
              /\ noteQueue'[r].event = noteQueue[r].event
      BY DEF Follows
    <3>3. QED
      BY <1>1, <2>1, <3>1, <3>2, ToldGrows
  <2>3. Sum(noteTexted[p], s..noteNow) \in Nat
    <3>1. noteTexted[p] \in [0..MaxTime -> Nat]
      BY DEF NoticesTyped
    <3>2. QED
      BY <1>1, <2>1, <3>1, TextedType
  <2>4. Sum(noteTexted[p], s..noteNow) <= Told(noteQueue, p, s) + noteUnmarked
    BY DEF TextsSound
  <2>5. QED
    BY <1>1, <2>2, <2>3, <2>4
<1>3. QED
  BY <1>2 DEF TextsSound

LEMMA MailsStay ==
  ASSUME NoticesTyped, MailsSound, Follows(noteQueue, noteQueue', noteNow),
         noteMailed' = noteMailed /\ noteUnheard' = noteUnheard,
         noteKills' \in Nat, noteKills' >= noteKills, IsFiniteSet(noteJobs'),
         \A r \in 1..MaxRows : Cardinality(MailsOf(r)') <= Cardinality(MailsOf(r))
  PROVE  MailsSound'
<1> SUFFICES ASSUME NEW r \in 1..MaxRows
             PROVE  noteMailed[r] + Cardinality(MailsOf(r)') + Due(noteQueue', r) <= 1 + noteKills' + noteUnheard[r]
  BY DEF MailsSound
<1>1. noteMailed[r] \in Nat /\ noteUnheard[r] \in Nat /\ noteKills \in Nat
  BY DEF NoticesTyped
<1>2. Cardinality(MailsOf(r)) \in Nat /\ Cardinality(MailsOf(r)') \in Nat
  <2>1. IsFiniteSet(MailsOf(r)')
    BY FS_Subset DEF MailsOf
  <2>2. QED
    BY <2>1, MailsCount, FS_CardinalityType
<1>3. Due(noteQueue', r) <= Due(noteQueue, r) /\ Due(noteQueue', r) \in {0, 1} /\ Due(noteQueue, r) \in {0, 1}
  BY DEF Due, Follows
<1>4. noteMailed[r] + Cardinality(MailsOf(r)) + Due(noteQueue, r) <= 1 + noteKills + noteUnheard[r]
  BY DEF MailsSound
<1>5. QED
  BY <1>1, <1>2, <1>3, <1>4

(* A step that hands no SMS over.                                          *)
LEMMA SilentStep ==
  ASSUME NoticesInv, Follows(noteQueue, noteQueue', noteNow), SendingTyped',
         noteNow' = noteNow, noteTexted' = noteTexted, noteUnmarked' = noteUnmarked,
         noteMailed' \in [1..MaxRows -> Nat] /\ noteUnheard' \in [1..MaxRows -> Nat], noteKills' \in Nat,
         noteOwed' \subseteq DOMAIN noteQueue, noteMissed' \subseteq DOMAIN noteQueue,
         JobsTyped(noteJobs', DOMAIN noteQueue'), MailsSound'
  PROVE  NoticesInv'
<1>1. NoticesTyped'
  <2>1. noteQueue' \in Seq(RowsAt(noteNow)) /\ DOMAIN noteQueue \subseteq DOMAIN noteQueue'
    BY DEF Follows
  <2>2. QED
    BY <2>1 DEF NoticesInv, NoticesTyped, JobsTyped, SendingTyped
<1>2. TextsSound'
  BY TextsStay DEF NoticesInv
<1>3. QED
  BY <1>1, <1>2 DEF NoticesInv

(* One that writes no mail either.                                         *)
LEMMA QuietStep ==
  ASSUME NoticesInv, Follows(noteQueue, noteQueue', noteNow), SendingTyped',
         noteNow' = noteNow, noteTexted' = noteTexted, noteUnmarked' = noteUnmarked,
         noteMailed' = noteMailed /\ noteUnheard' = noteUnheard,
         noteKills' = noteKills,
         noteOwed' \subseteq DOMAIN noteQueue, noteMissed' \subseteq DOMAIN noteQueue,
         JobsTyped(noteJobs', DOMAIN noteQueue),
         \A r \in 1..MaxRows : Cardinality(MailsOf(r)') <= Cardinality(MailsOf(r))
  PROVE  NoticesInv'
<1>1. DOMAIN noteQueue \subseteq DOMAIN noteQueue' /\ NoticesTyped /\ noteKills \in Nat
  BY DEF Follows, NoticesInv, NoticesTyped
<1>2. JobsTyped(noteJobs', DOMAIN noteQueue')
  BY <1>1 DEF JobsTyped
<1>3. MailsSound'
  BY <1>1, MailsStay DEF NoticesInv, JobsTyped
<1>4. noteMailed' \in [1..MaxRows -> Nat] /\ noteUnheard' \in [1..MaxRows -> Nat]
  BY <1>1 DEF NoticesTyped
<1>5. QED
  BY <1>1, <1>2, <1>3, <1>4, SilentStep

LEMMA JobsStay ==
  ASSUME NoticesTyped, noteJobs' = noteJobs
  PROVE  /\ JobsTyped(noteJobs', DOMAIN noteQueue)
         /\ \A r \in 1..MaxRows : Cardinality(MailsOf(r)') <= Cardinality(MailsOf(r))
<1>1. ASSUME NEW r \in 1..MaxRows PROVE Cardinality(MailsOf(r)') <= Cardinality(MailsOf(r))
  <2>1. MailsOf(r)' = MailsOf(r)
    BY DEF MailsOf
  <2>2. Cardinality(MailsOf(r)) \in Nat
    BY MailsCount
  <2>3. QED
    BY <2>1, <2>2
<1>2. QED
  BY <1>1 DEF NoticesTyped, JobsTyped

(* A step that moves nothing but the table, the turn of the SMS, a setting *)
(* of the channel or a bound.                                              *)
LEMMA StillStep ==
  ASSUME NoticesInv, Follows(noteQueue, noteQueue', noteNow), SendingTyped',
         noteNow' = noteNow, noteJobs' = noteJobs, noteTexted' = noteTexted, noteUnmarked' = noteUnmarked,
         noteMailed' = noteMailed /\ noteUnheard' = noteUnheard, noteOwed' = noteOwed, noteMissed' = noteMissed,
         noteKills' = noteKills
  PROVE  NoticesInv'
<1>1. NoticesTyped
  BY DEF NoticesInv
<1>2. noteOwed' \subseteq DOMAIN noteQueue /\ noteMissed' \subseteq DOMAIN noteQueue
  BY <1>1 DEF NoticesTyped
<1>3. QED
  BY <1>1, <1>2, JobsStay, QuietStep

LEMMA SendingStays ==
  ASSUME NoticesTyped, noteChannel' = noteChannel, noteTurn' = noteTurn PROVE SendingTyped'
BY DEF NoticesTyped, SendingTyped

LEMMA NoticeSteps ==
  ASSUME NoticesInv,
         \/ \E e \in NoticesOf!Events : NoticesOf!Happens(e)
         \/ \E c \in Causes : NoticesOf!Report(c)
         \/ NoticesOf!Disconnect \/ NoticesOf!Login
  PROVE  NoticesInv'
<1>1. NoticesTyped
  BY DEF NoticesInv
<1>2. Follows(noteQueue, noteQueue', noteNow)
  <2>1. ASSUME NEW e \in NoticesOf!Events, NoticesOf!Happens(e)
        PROVE  Follows(noteQueue, noteQueue', noteNow)
    <3>1. noteQueue' = NoticesOf!Notify(noteQueue, e, NoticesOf!NoKey) /\ NoticesOf!NoKey \in NoticesOf!Given
      BY <2>1 DEF NoticesOf!Happens, NoticesOf!Given
    <3>2. QED
      BY <1>1, <3>1, NotifyFollows
  <2>2. ASSUME NEW c \in Causes, NoticesOf!Report(c)
        PROVE  Follows(noteQueue, noteQueue', noteNow)
    <3>1. noteQueue' = NoticesOf!Notify(noteQueue, RuleOf[c], <<c>>) /\ <<c>> \in NoticesOf!Given
      BY <2>2 DEF NoticesOf!Report, NoticesOf!Given
    <3>2. QED
      BY <1>1, <3>1, NotifyFollows
  <2>3. CASE NoticesOf!Disconnect
    <3>1. /\ noteQueue' = NoticesOf!Notify(noteQueue, "m365_disconnected", NoticesOf!NoKey)
          /\ NoticesOf!NoKey \in NoticesOf!Given
      BY <2>3 DEF NoticesOf!Disconnect, NoticesOf!Given
    <3>2. QED
      BY <1>1, <3>1, NotifyFollows
  <2>4. CASE NoticesOf!Login
    BY <1>1, <2>4, FollowsItself DEF NoticesOf!Login, NoticesTyped
  <2>5. QED
    BY <2>1, <2>2, <2>3, <2>4
<1>3. /\ noteChannel' = noteChannel /\ noteTurn' = noteTurn
      /\ noteNow' = noteNow /\ noteJobs' = noteJobs /\ noteTexted' = noteTexted /\ noteUnmarked' = noteUnmarked
      /\ noteMailed' = noteMailed /\ noteUnheard' = noteUnheard /\ noteOwed' = noteOwed /\ noteMissed' = noteMissed
      /\ noteKills' = noteKills
  BY DEF NoticesOf!Happens, NoticesOf!Report, NoticesOf!Disconnect, NoticesOf!Login, NoticesOf!settings,
         NoticesOf!past
<1>4. QED
  BY <1>1, <1>2, <1>3, SendingStays, StillStep

LEMMA FormSteps ==
  ASSUME NoticesInv,
         \/ \E mode \in {"off", "password", "m365"} : NoticesOf!SaveSmtp(mode)
         \/ \E on \in BOOLEAN, n \in 1..2 : NoticesOf!SaveSms(on, n)
         \/ \E e \in NoticesOf!Events : NoticesOf!SaveRule(e)
         \/ NoticesOf!KeyChanges \/ NoticesOf!SmsDone
  PROVE  NoticesInv'
<1>1. NoticesTyped
  BY DEF NoticesInv
<1>2. /\ noteQueue' = noteQueue
      /\ noteNow' = noteNow /\ noteJobs' = noteJobs /\ noteTexted' = noteTexted /\ noteUnmarked' = noteUnmarked
      /\ noteMailed' = noteMailed /\ noteUnheard' = noteUnheard /\ noteOwed' = noteOwed /\ noteMissed' = noteMissed
      /\ noteKills' = noteKills
  BY DEF NoticesOf!SaveSmtp, NoticesOf!SaveSms, NoticesOf!SaveRule, NoticesOf!KeyChanges, NoticesOf!SmsDone,
         NoticesOf!settings, NoticesOf!past
<1>3. SendingTyped'
  <2>1. CASE noteChannel' = noteChannel /\ noteTurn' = noteTurn
    BY <1>1, <2>1, SendingStays
  <2>2. ASSUME NEW on \in BOOLEAN, NEW n \in 1..2, NoticesOf!SaveSms(on, n) PROVE SendingTyped'
    <3>1. noteChannel' = [on |-> on, numbers |-> n] /\ noteTurn' = noteTurn /\ n \in Nat \ {0}
      BY <2>2 DEF NoticesOf!SaveSms
    <3>2. QED
      BY <1>1, <3>1 DEF NoticesTyped, SendingTyped
  <2>3. CASE NoticesOf!SmsDone
    <3>1. noteChannel' = noteChannel /\ noteTurn' = [done |-> 0, failed |-> FALSE]
      BY <2>3 DEF NoticesOf!SmsDone, NoticesOf!settings, NoticesOf!Idle
    <3>2. noteChannel \in [on : BOOLEAN, numbers : Nat \ {0}]
      BY <1>1 DEF NoticesTyped
    <3>3. QED
      BY <3>1, <3>2 DEF SendingTyped
  <2>4. ASSUME \/ \E mode \in {"off", "password", "m365"} : NoticesOf!SaveSmtp(mode)
               \/ \E e \in NoticesOf!Events : NoticesOf!SaveRule(e)
               \/ NoticesOf!KeyChanges
        PROVE  noteChannel' = noteChannel /\ noteTurn' = noteTurn
    BY <2>4 DEF NoticesOf!SaveSmtp, NoticesOf!SaveRule, NoticesOf!KeyChanges, NoticesOf!settings
  <2>5. QED
    BY <2>1, <2>2, <2>3, <2>4
<1>4. Follows(noteQueue, noteQueue', noteNow)
  BY <1>1, <1>2, FollowsItself DEF NoticesTyped
<1>5. QED
  BY <1>2, <1>3, <1>4, StillStep

LEMMA PruneStep == ASSUME NoticesInv, NoticesOf!Prune PROVE NoticesInv'
<1>1. NoticesTyped /\ noteNow \in Nat
  BY DEF NoticesInv, NoticesTyped
<1> DEFINE b(r) == noteQueue[r].at >= noteNow - KeptFor
           p    == [r \in DOMAIN noteQueue |-> [noteQueue[r] EXCEPT !.kept = noteQueue[r].kept /\ b(r)]]
<1>2. noteQueue' = p
  BY DEF NoticesOf!Prune, NoticesOf!Rows
<1>3. ASSUME NEW r \in DOMAIN noteQueue
      PROVE  /\ p[r] \in RowsAt(noteNow)
             /\ p[r].mail = noteQueue[r].mail /\ p[r].sms = noteQueue[r].sms
             /\ p[r].smsAt = noteQueue[r].smsAt /\ p[r].count = noteQueue[r].count
             /\ p[r].event = noteQueue[r].event
             /\ p[r].kept = (noteQueue[r].kept /\ b(r))
  <2>1. noteQueue[r] \in RowsAt(noteNow) /\ noteQueue[r] \in NoticeRow
    BY <1>1, RowTypes DEF NoticesTyped
  <2>2. b(r) \in BOOLEAN
    OBVIOUS
  <2>3. p[r] \in RowsAt(noteNow)
    BY <1>1, <2>1, <2>2, RowForgotten
  <2>4. p[r] = [noteQueue[r] EXCEPT !.kept = noteQueue[r].kept /\ b(r)]
    OBVIOUS
  <2> HIDE DEF b, p
  <2>5. p[r].kept = (noteQueue[r].kept /\ b(r))
    <3> DEFINE v == noteQueue[r].kept /\ b(r)
    <3> HIDE DEF v
    <3>1. [noteQueue[r] EXCEPT !.kept = v].kept = v
      BY <2>1 DEF NoticeRow
    <3>2. QED
      BY <2>4, <3>1, Zenon DEF v
  <2>6. QED
    BY <2>1, <2>3, <2>4, <2>5 DEF NoticeRow
<1>4. ASSUME NEW r \in DOMAIN noteQueue, noteQueue[r].sms = "sent", noteQueue[r].smsAt >= noteNow - Day
      PROVE  b(r)
  <2>1. noteQueue[r].smsAt = noteQueue[r].at /\ noteQueue[r].at \in Nat
    <3>1. noteQueue[r] \in RowsAt(noteNow)
      BY <1>1, RowTypes DEF NoticesTyped
    <3>2. QED
      BY <1>4, <3>1 DEF RowsAt, NoticeRow
  <2>2. QED
    BY <1>1, <1>4, <2>1, NoticesAssumption
<1>5. p \in Seq(RowsAt(noteNow)) /\ DOMAIN p = DOMAIN noteQueue
  <2>1. noteQueue \in Seq(RowsAt(noteNow)) /\ DOMAIN p = DOMAIN noteQueue
    BY <1>1 DEF NoticesTyped
  <2>2. p = [r \in DOMAIN noteQueue |-> p[r]]
    OBVIOUS
  <2>3. \A r \in DOMAIN noteQueue : p[r] \in RowsAt(noteNow)
    BY <1>3
  <2> HIDE DEF p
  <2>4. QED
    BY <2>1, <2>2, <2>3, Marking
<1>6. Follows(noteQueue, p, noteNow)
  <2> HIDE DEF p, b
  <2>1. \A r \in DOMAIN noteQueue : noteQueue[r].sms = "sent" /\ noteQueue[r].smsAt >= noteNow - Day => b(r)
    BY <1>4
  <2>2. QED
    BY <1>1, <1>3, <1>5, <2>1 DEF Follows
<1>7. /\ noteChannel' = noteChannel /\ noteTurn' = noteTurn
      /\ noteNow' = noteNow /\ noteJobs' = noteJobs /\ noteTexted' = noteTexted /\ noteUnmarked' = noteUnmarked
      /\ noteMailed' = noteMailed /\ noteUnheard' = noteUnheard /\ noteOwed' = noteOwed /\ noteMissed' = noteMissed
      /\ noteKills' = noteKills
  BY DEF NoticesOf!Prune, NoticesOf!settings, NoticesOf!past
<1>8. QED
  BY <1>1, <1>2, <1>6, <1>7, SendingStays, StillStep

(* A mail job goes, or is put back with one try more.                      *)
LEMMA MailPutBack ==
  ASSUME NoticesTyped, NEW j \in noteJobs, NEW k, k = [j EXCEPT !.tries = @ + 1],
         \/ noteJobs' = noteJobs \ {j}
         \/ noteJobs' = (noteJobs \ {j}) \cup {k} /\ j.tries < Retries
  PROVE  /\ JobsTyped(noteJobs', DOMAIN noteQueue)
         /\ \A r \in 1..MaxRows : Cardinality(MailsOf(r)') <= Cardinality(MailsOf(r))
<1>1. j = [no |-> j.no, about |-> j.about, tries |-> j.tries] /\ j.about \subseteq DOMAIN noteQueue
      /\ j.tries \in 0..Retries
  BY DEF NoticesTyped
<1>2. k.about = j.about /\ k.tries = j.tries + 1 /\ k = [no |-> k.no, about |-> k.about, tries |-> k.tries]
  BY <1>1
<1>3. \/ noteJobs' = noteJobs \ {j}
      \/ noteJobs' = (noteJobs \ {j}) \cup {k} /\ k.tries \in 0..Retries
  BY <1>1, <1>2, NoticesAssumption
<1>4. JobsTyped(noteJobs', DOMAIN noteQueue)
  <2>1. IsFiniteSet(noteJobs \ {j})
    BY FS_RemoveElement DEF NoticesTyped
  <2>2. IsFiniteSet((noteJobs \ {j}) \cup {k})
    BY <2>1, FS_AddElement
  <2>3. QED
    BY <1>1, <1>2, <1>3, <2>1, <2>2 DEF JobsTyped, NoticesTyped
<1>5. ASSUME NEW r \in 1..MaxRows PROVE Cardinality(MailsOf(r)') <= Cardinality(MailsOf(r))
  <2>1. IsFiniteSet(MailsOf(r)) /\ Cardinality(MailsOf(r)) \in Nat
    BY MailsCount
  <2>2. CASE MailsOf(r)' \subseteq MailsOf(r)
    BY <2>1, <2>2, FS_Subset
  <2>3. CASE MailsOf(r)' = (MailsOf(r) \ {j}) \cup {k} /\ j \in MailsOf(r)
    <3> DEFINE rest == MailsOf(r) \ {j}
    <3>1. IsFiniteSet(rest) /\ Cardinality(rest) = Cardinality(MailsOf(r)) - 1
      BY <2>1, <2>3, FS_RemoveElement
    <3> HIDE DEF rest
    <3>2. Cardinality(rest \cup {k}) = IF k \in rest THEN Cardinality(rest) ELSE Cardinality(rest) + 1
      BY <3>1, FS_AddElement
    <3>3. QED
      BY <2>1, <2>3, <3>1, <3>2 DEF rest
  <2>4. QED
    BY <1>2, <1>3, <2>2, <2>3 DEF MailsOf
<1>6. QED
  BY <1>4, <1>5

LEMMA SenderNotified ==
  ASSUME NoticesTyped
  PROVE  /\ Follows(noteQueue, noteQueue, noteNow)
         /\ Follows(noteQueue, NoticesOf!Notify(noteQueue, "mail_undeliverable", NoticesOf!NoKey), noteNow)
<1>1. NoticesOf!NoKey \in NoticesOf!Given
  BY DEF NoticesOf!Given
<1>2. QED
  BY <1>1, FollowsItself, NotifyFollows DEF NoticesTyped

(* An attempt that failed before the server had the mail.                  *)
LEMMA MailSettles ==
  ASSUME NoticesInv, NEW j \in noteJobs,
         NoticesOf!Retry(j, FALSE) \/ NoticesOf!GiveUp(j, FALSE) \/ NoticesOf!NoSmtp(j)
  PROVE  NoticesInv'
<1>1. NoticesTyped
  BY DEF NoticesInv
<1>2. /\ noteChannel' = noteChannel /\ noteTurn' = noteTurn
      /\ noteNow' = noteNow /\ noteTexted' = noteTexted /\ noteUnmarked' = noteUnmarked
      /\ noteMailed' = noteMailed /\ noteUnheard' = noteUnheard
      /\ noteOwed' = noteOwed /\ noteMissed' = noteMissed
      /\ noteKills' = noteKills
  BY DEF NoticesOf!Retry, NoticesOf!GiveUp, NoticesOf!NoSmtp, NoticesOf!Attempt, NoticesOf!settings, NoticesOf!past
<1>3. Follows(noteQueue, noteQueue', noteNow)
  BY <1>1, SenderNotified DEF NoticesOf!Retry, NoticesOf!GiveUp, NoticesOf!NoSmtp
<1>4. PICK k : k = [j EXCEPT !.tries = @ + 1]
  OBVIOUS
<1>5. \/ noteJobs' = noteJobs \ {j}
      \/ noteJobs' = (noteJobs \ {j}) \cup {k} /\ j.tries < Retries
  BY <1>4 DEF NoticesOf!Retry, NoticesOf!GiveUp, NoticesOf!NoSmtp
<1>6. /\ JobsTyped(noteJobs', DOMAIN noteQueue)
      /\ \A r \in 1..MaxRows : Cardinality(MailsOf(r)') <= Cardinality(MailsOf(r))
  BY <1>1, <1>4, <1>5, MailPutBack
<1>7. noteOwed' \subseteq DOMAIN noteQueue /\ noteMissed' \subseteq DOMAIN noteQueue
  BY <1>1, <1>2 DEF NoticesTyped
<1>8. QED
  BY <1>1, <1>2, <1>3, <1>6, <1>7, SendingStays, QuietStep

(* One that failed after it: a mail and a lost answer more.                *)
LEMMA MailAgain ==
  ASSUME NoticesInv, NEW j \in noteJobs, NoticesOf!Retry(j, TRUE)
  PROVE  NoticesInv'
<1>1. NoticesTyped
  BY DEF NoticesInv
<1>2. /\ noteChannel' = noteChannel /\ noteTurn' = noteTurn /\ noteQueue' = noteQueue
      /\ noteNow' = noteNow /\ noteTexted' = noteTexted /\ noteUnmarked' = noteUnmarked
      /\ noteOwed' = noteOwed /\ noteMissed' = noteMissed /\ noteKills' = noteKills
  BY DEF NoticesOf!Retry, NoticesOf!settings
<1>3. /\ noteMailed'  = [r \in 1..MaxRows |-> noteMailed[r] + IF r \in j.about THEN 1 ELSE 0]
      /\ noteUnheard' = [r \in 1..MaxRows |-> noteUnheard[r] + IF r \in j.about THEN 1 ELSE 0]
  BY DEF NoticesOf!Retry, NoticesOf!Attempt, NoticesOf!Counts
<1>4. PICK k : k = [j EXCEPT !.tries = @ + 1]
  OBVIOUS
<1>5. noteJobs' = (noteJobs \ {j}) \cup {k} /\ j.tries < Retries
  BY <1>4 DEF NoticesOf!Retry
<1>6. /\ JobsTyped(noteJobs', DOMAIN noteQueue)
      /\ \A r \in 1..MaxRows : Cardinality(MailsOf(r)') <= Cardinality(MailsOf(r))
  BY <1>1, <1>4, <1>5, MailPutBack
<1>7. MailsSound'
  <2> SUFFICES ASSUME NEW r \in 1..MaxRows
               PROVE  noteMailed'[r] + Cardinality(MailsOf(r)') + Due(noteQueue', r)
                        <= 1 + noteKills' + noteUnheard'[r]
    BY DEF MailsSound
  <2>1. noteMailed[r] + Cardinality(MailsOf(r)) + Due(noteQueue, r) <= 1 + noteKills + noteUnheard[r]
    BY DEF NoticesInv, MailsSound
  <2>2. /\ noteMailed[r] \in Nat /\ noteUnheard[r] \in Nat /\ noteKills \in Nat
        /\ Due(noteQueue', r) = Due(noteQueue, r) /\ Due(noteQueue, r) \in {0, 1}
        /\ Cardinality(MailsOf(r)) \in Nat
    BY <1>1, <1>2, MailsCount DEF NoticesTyped, Due
  <2>3. Cardinality(MailsOf(r)') \in Nat
    <3>1. IsFiniteSet(MailsOf(r)')
      BY <1>6, FS_Subset DEF MailsOf, JobsTyped
    <3>2. QED
      BY <3>1, FS_CardinalityType
  <2>4. PICK n \in {0, 1} : noteMailed'[r] = noteMailed[r] + n /\ noteUnheard'[r] = noteUnheard[r] + n
    BY <1>3
  <2>5. QED
    BY <1>2, <1>6, <2>1, <2>2, <2>3, <2>4
<1>8. noteMailed' \in [1..MaxRows -> Nat] /\ noteUnheard' \in [1..MaxRows -> Nat] /\ noteKills' \in Nat
  BY <1>1, <1>2, <1>3 DEF NoticesTyped
<1>9. Follows(noteQueue, noteQueue', noteNow)
  BY <1>1, <1>2, FollowsItself DEF NoticesTyped
<1>10. noteOwed' \subseteq DOMAIN noteQueue /\ noteMissed' \subseteq DOMAIN noteQueue
  BY <1>1, <1>2 DEF NoticesTyped
<1>11. QED
  BY <1>1, <1>2, <1>6, <1>7, <1>8, <1>9, <1>10, SendingStays, SilentStep

(* The server has the mail, and the job ends unless the process dies.      *)
LEMMA MailGoes ==
  ASSUME NoticesInv, NEW j \in noteJobs, NEW killed \in BOOLEAN,
         NoticesOf!Deliver(j, killed) \/ NoticesOf!GiveUp(j, TRUE)
  PROVE  NoticesInv'
<1>1. NoticesTyped
  BY DEF NoticesInv
<1>2. /\ noteChannel' = noteChannel /\ noteTurn' = noteTurn
      /\ noteNow' = noteNow /\ noteTexted' = noteTexted /\ noteUnmarked' = noteUnmarked
      /\ noteOwed' = noteOwed /\ noteMissed' = noteMissed /\ noteUnheard' = noteUnheard
  BY DEF NoticesOf!Deliver, NoticesOf!GiveUp, NoticesOf!settings
<1>3. noteMailed' = [r \in 1..MaxRows |-> noteMailed[r] + IF r \in j.about THEN 1 ELSE 0]
  BY DEF NoticesOf!Deliver, NoticesOf!GiveUp, NoticesOf!Attempt, NoticesOf!Counts
<1>4. \/ noteJobs' = noteJobs /\ noteKills' = noteKills + 1
      \/ noteJobs' = noteJobs \ {j} /\ noteKills' = noteKills
  BY DEF NoticesOf!Deliver, NoticesOf!GiveUp, NoticesOf!Die
<1>5. Follows(noteQueue, noteQueue', noteNow)
  BY <1>1, SenderNotified DEF NoticesOf!Deliver, NoticesOf!GiveUp
<1>6. JobsTyped(noteJobs', DOMAIN noteQueue')
  <2>1. IsFiniteSet(noteJobs \ {j}) /\ IsFiniteSet(noteJobs)
    BY <1>1, FS_RemoveElement DEF NoticesTyped
  <2>2. DOMAIN noteQueue \subseteq DOMAIN noteQueue'
    BY <1>5 DEF Follows
  <2>3. QED
    BY <1>1, <1>4, <2>1, <2>2 DEF JobsTyped, NoticesTyped
<1>7. MailsSound'
  <2> SUFFICES ASSUME NEW r \in 1..MaxRows
               PROVE  noteMailed'[r] + Cardinality(MailsOf(r)') + Due(noteQueue', r)
                        <= 1 + noteKills' + noteUnheard[r]
    BY <1>2 DEF MailsSound
  <2>1. noteMailed[r] + Cardinality(MailsOf(r)) + Due(noteQueue, r) <= 1 + noteKills + noteUnheard[r]
    BY DEF NoticesInv, MailsSound
  <2>2. /\ noteMailed[r] \in Nat /\ noteUnheard[r] \in Nat /\ noteKills \in Nat
        /\ Cardinality(MailsOf(r)) \in Nat /\ IsFiniteSet(MailsOf(r))
    BY <1>1, MailsCount DEF NoticesTyped
  <2>3. noteMailed'[r] = noteMailed[r] + IF r \in j.about THEN 1 ELSE 0
    BY <1>3
  <2>4. Due(noteQueue', r) <= Due(noteQueue, r) /\ Due(noteQueue', r) \in {0, 1} /\ Due(noteQueue, r) \in {0, 1}
    BY <1>5 DEF Due, Follows
  <2>5. CASE noteJobs' = noteJobs /\ noteKills' = noteKills + 1
    <3>1. MailsOf(r)' = MailsOf(r)
      BY <2>5 DEF MailsOf
    <3>2. QED
      BY <2>1, <2>2, <2>3, <2>4, <2>5, <3>1
  <2>6. CASE noteJobs' = noteJobs \ {j} /\ noteKills' = noteKills
    <3>1. MailsOf(r)' = MailsOf(r) \ {j}
      BY <2>6 DEF MailsOf
    <3>2. Cardinality(MailsOf(r) \ {j}) = Cardinality(MailsOf(r)) - (IF r \in j.about THEN 1 ELSE 0)
      <4> DEFINE m == MailsOf(r)
      <4>1. j \in m <=> r \in j.about
        BY DEF MailsOf
      <4>2. IsFiniteSet(m) /\ Cardinality(m) \in Nat
        BY <2>2
      <4> HIDE DEF m
      <4>3. Cardinality(m \ {j}) = IF j \in m THEN Cardinality(m) - 1 ELSE Cardinality(m)
        BY <4>2, FS_RemoveElement
      <4>4. Cardinality(m \ {j}) = Cardinality(m) - (IF r \in j.about THEN 1 ELSE 0)
        BY <4>1, <4>2, <4>3
      <4>5. QED
        BY <4>4 DEF m
    <3>3. QED
      BY <2>1, <2>2, <2>3, <2>4, <2>6, <3>1, <3>2
  <2>7. QED
    BY <1>4, <2>5, <2>6
<1>8. noteMailed' \in [1..MaxRows -> Nat] /\ noteUnheard' \in [1..MaxRows -> Nat] /\ noteKills' \in Nat
  BY <1>1, <1>2, <1>3, <1>4 DEF NoticesTyped
<1>9. noteOwed' \subseteq DOMAIN noteQueue /\ noteMissed' \subseteq DOMAIN noteQueue
  BY <1>1, <1>2 DEF NoticesTyped
<1>10. QED
  BY <1>1, <1>2, <1>5, <1>6, <1>7, <1>8, <1>9, SendingStays, SilentStep

(* New mail jobs N about rows of W, one of each of them.                   *)
MailsAbout(N, W) ==
  /\ IsFiniteSet(N)
  /\ \A j \in N : /\ j = [no |-> j.no, about |-> j.about, tries |-> j.tries]
                  /\ j.about \subseteq W /\ j.tries = 0
  /\ \A r \in W : \E m : \A j \in N : r \in j.about => j = m

(* Mails of the rows in W are written: one of each, and what was due is    *)
(* written off, unless the process died in between.                        *)
LEMMA MailsWritten ==
  ASSUME NoticesTyped, MailsSound, Follows(noteQueue, noteQueue', noteNow),
         NEW W, NEW N, MailsAbout(N, W), noteJobs' = noteJobs \cup N,
         noteMailed' = noteMailed /\ noteUnheard' = noteUnheard, noteKills' \in Nat, noteKills' >= noteKills,
         noteKills' = noteKills =>
           \A r \in W : Due(noteQueue, r) = 1 /\ Due(noteQueue', r) = 0
  PROVE  MailsSound'
<1> SUFFICES ASSUME NEW r \in 1..MaxRows
             PROVE  noteMailed[r] + Cardinality(MailsOf(r)') + Due(noteQueue', r) <= 1 + noteKills' + noteUnheard[r]
  BY DEF MailsSound
<1> DEFINE A == MailsOf(r)
           B == {j \in N : r \in j.about}
<1>1. MailsOf(r)' = A \cup B
  BY DEF MailsOf
<1>2. IsFiniteSet(A) /\ Cardinality(A) \in Nat
  BY MailsCount
<1>3. /\ noteMailed[r] \in Nat /\ noteUnheard[r] \in Nat /\ noteKills \in Nat
      /\ Due(noteQueue', r) <= Due(noteQueue, r) /\ Due(noteQueue', r) \in {0, 1} /\ Due(noteQueue, r) \in {0, 1}
  BY DEF NoticesTyped, Due, Follows
<1>4. noteMailed[r] + Cardinality(A) + Due(noteQueue, r) <= 1 + noteKills + noteUnheard[r]
  BY DEF MailsSound
<1>5. CASE r \in W
  <2>1. PICK m : \A j \in N : r \in j.about => j = m
    BY <1>5 DEF MailsAbout
  <2>2. B \subseteq {m}
    BY <2>1
  <2> HIDE DEF A, B
  <2>3. IsFiniteSet(A \cup {m}) /\ Cardinality(A \cup {m}) <= Cardinality(A) + 1
        /\ Cardinality(A \cup {m}) \in Nat
    <3>1. IsFiniteSet(A \cup {m})
          /\ Cardinality(A \cup {m}) = IF m \in A THEN Cardinality(A) ELSE Cardinality(A) + 1
      BY <1>2, FS_AddElement
    <3>2. QED
      BY <1>2, <3>1
  <2>4. IsFiniteSet(A \cup B) /\ Cardinality(A \cup B) <= Cardinality(A \cup {m})
    <3>1. A \cup B \in SUBSET (A \cup {m})
      BY <2>2
    <3>2. QED
      BY <2>3, <3>1, FS_Subset
  <2>5. Cardinality(A \cup B) \in Nat
    BY <2>4, FS_CardinalityType
  <2>6. CASE noteKills' = noteKills
    <3>1. Due(noteQueue, r) = 1 /\ Due(noteQueue', r) = 0
      BY <1>5, <2>6
    <3>2. QED
      BY <1>1, <1>2, <1>3, <1>4, <2>3, <2>4, <2>5, <2>6, <3>1
  <2>7. CASE noteKills' # noteKills
    <3>1. noteKills' >= noteKills + 1
      BY <1>3, <2>7
    <3>2. QED
      BY <1>1, <1>2, <1>3, <1>4, <2>3, <2>4, <2>5, <3>1
  <2>8. QED
    BY <2>6, <2>7
<1>6. CASE r \notin W
  <2>1. B = {}
    BY <1>6 DEF MailsAbout
  <2>2. MailsOf(r)' = A
    BY <1>1, <2>1
  <2> HIDE DEF A, B
  <2>3. QED
    BY <1>2, <1>3, <1>4, <2>2
<1>7. QED
  BY <1>5, <1>6

LEMMA WaitingRows ==
  ASSUME NoticesTyped, NEW e
  PROVE  /\ NoticesOf!Waiting(e) \subseteq DOMAIN noteQueue
         /\ \A r \in NoticesOf!Waiting(e) : noteQueue[r].mail = "pending"
         /\ IsFiniteSet(NoticesOf!Waiting(e))
<1>1. NoticesOf!Waiting(e) \subseteq DOMAIN noteQueue
      /\ \A r \in NoticesOf!Waiting(e) : noteQueue[r].mail = "pending"
  BY DEF NoticesOf!Waiting, NoticesOf!Of, NoticesOf!Kept, NoticesOf!Rows
<1>2. DOMAIN noteQueue = 1..Len(noteQueue) /\ Len(noteQueue) \in Nat
  BY DEF NoticesTyped
<1>3. IsFiniteSet(DOMAIN noteQueue)
  BY <1>2, FS_Interval
<1>4. QED
  BY <1>1, <1>3, FS_Subset

LEMMA NowTyped ==
  ASSUME NoticesTyped PROVE noteNow \in Nat /\ noteNow \in Int /\ noteQueue \in Seq(RowsAt(noteNow))
BY NoticesAssumption DEF NoticesTyped

(* Rows of which mails are written, and those that are left out, are       *)
(* marked.                                                                 *)
LEMMA MarksFollow ==
  ASSUME NoticesTyped, NEW S, NEW D, D \subseteq DOMAIN noteQueue,
         \A r \in D : noteQueue[r].mail = "pending",
         NEW p, p = [r \in DOMAIN noteQueue |->
                       IF r \in S THEN [noteQueue[r] EXCEPT !.mail = "sent", !.mailAt = noteNow]
                       ELSE IF r \in D THEN [noteQueue[r] EXCEPT !.mail = "suppressed"]
                       ELSE noteQueue[r]]
  PROVE  /\ Follows(noteQueue, p, noteNow)
         /\ \A r \in S \cap DOMAIN noteQueue : Due(p, r) = 0
<1>1. noteNow \in Nat /\ noteQueue \in Seq(RowsAt(noteNow))
  BY NowTyped
<1>2. ASSUME NEW r \in DOMAIN noteQueue
      PROVE  /\ p[r] \in RowsAt(noteNow) /\ (p[r].mail = "pending" => noteQueue[r].mail = "pending")
             /\ r \in S => p[r].mail = "sent"
             /\ p[r].kept = noteQueue[r].kept /\ p[r].sms = noteQueue[r].sms
             /\ p[r].smsAt = noteQueue[r].smsAt /\ p[r].count = noteQueue[r].count
             /\ p[r].event = noteQueue[r].event
  <2> DEFINE q == noteQueue[r]
  <2>1. q \in RowsAt(noteNow) /\ q \in NoticeRow
    BY <1>1, RowTypes
  <2>2. r \in D => q.mail = "pending"
    OBVIOUS
  <2>3. \/ r \in S /\ p[r] = [q EXCEPT !.mail = "sent", !.mailAt = noteNow]
        \/ r \notin S /\ r \in D /\ p[r] = [q EXCEPT !.mail = "suppressed"]
        \/ r \notin S /\ p[r] = q
    OBVIOUS
  <2> HIDE DEF q
  <2>4. p[r] \in RowsAt(noteNow)
    BY <1>1, <2>1, <2>2, <2>3, RowMailed, RowNotMailed
  <2>5. /\ p[r].mail = "pending" => q.mail = "pending"
        /\ r \in S => p[r].mail = "sent"
        /\ p[r].kept = q.kept /\ p[r].sms = q.sms /\ p[r].smsAt = q.smsAt /\ p[r].count = q.count
        /\ p[r].event = q.event
    BY <2>1, <2>3 DEF NoticeRow
  <2>6. QED
    BY <2>4, <2>5 DEF q
<1>3. p = [r \in DOMAIN noteQueue |-> p[r]] /\ DOMAIN p = DOMAIN noteQueue
  OBVIOUS
<1>4. p \in Seq(RowsAt(noteNow))
  BY <1>1, <1>2, <1>3, Marking
<1>5. Follows(noteQueue, p, noteNow)
  <2>1. DOMAIN p = DOMAIN noteQueue
    BY <1>3
  <2>2. \A r \in DOMAIN noteQueue : p[r].mail = "pending" => noteQueue[r].mail = "pending"
    BY <1>2
  <2>3. \A r \in DOMAIN noteQueue :
          noteQueue[r].kept /\ noteQueue[r].sms = "sent" /\ noteQueue[r].smsAt >= noteNow - Day =>
            /\ p[r].kept /\ p[r].sms = "sent"
            /\ p[r].smsAt = noteQueue[r].smsAt /\ p[r].count = noteQueue[r].count
            /\ p[r].event = noteQueue[r].event
    <3> SUFFICES ASSUME NEW r \in DOMAIN noteQueue, noteQueue[r].kept, noteQueue[r].sms = "sent"
                 PROVE  /\ p[r].kept /\ p[r].sms = "sent"
                        /\ p[r].smsAt = noteQueue[r].smsAt /\ p[r].count = noteQueue[r].count
                        /\ p[r].event = noteQueue[r].event
      OBVIOUS
    <3>1. /\ p[r].kept = noteQueue[r].kept /\ p[r].sms = noteQueue[r].sms
          /\ p[r].smsAt = noteQueue[r].smsAt /\ p[r].count = noteQueue[r].count
          /\ p[r].event = noteQueue[r].event
      BY <1>2
    <3>2. p[r].kept /\ p[r].sms = "sent"
      BY <3>1, Zenon
    <3>3. QED
      BY <3>1, <3>2
  <2>4. QED
    BY <1>1, <1>4, <2>1, <2>2, <2>3, FollowsMarked, Zenon
<1>6. QED
  BY <1>2, <1>3, <1>5 DEF Due

LEMMA MissedRows ==
  ASSUME NoticesTyped, NEW e
  PROVE  noteMissed \cup ((noteOwed \cap NoticesOf!Of(e)) \ NoticesOf!Counted(e)) \subseteq DOMAIN noteQueue
BY DEF NoticesTyped

(* A step that writes the mails N, about rows of W.                        *)
LEMMA WritingStep ==
  ASSUME NoticesInv, Follows(noteQueue, noteQueue', noteNow),
         noteChannel' = noteChannel, noteTurn' = noteTurn,
         noteNow' = noteNow, noteTexted' = noteTexted, noteUnmarked' = noteUnmarked,
         noteMailed' = noteMailed /\ noteUnheard' = noteUnheard, noteKills' = noteKills \/ noteKills' = noteKills + 1,
         noteOwed' \subseteq DOMAIN noteQueue, noteMissed' \subseteq DOMAIN noteQueue,
         NEW W, W \subseteq DOMAIN noteQueue', NEW N, MailsAbout(N, W), noteJobs' = noteJobs \cup N,
         noteKills' = noteKills =>
           \A r \in W : Due(noteQueue, r) = 1 /\ Due(noteQueue', r) = 0
  PROVE  NoticesInv'
<1>1. NoticesTyped /\ noteKills \in Nat /\ MailsSound
  BY DEF NoticesInv, NoticesTyped
<1>2. noteKills' \in Nat /\ noteKills' >= noteKills
  BY <1>1
<1>3. MailsSound'
  BY <1>1, <1>2, MailsWritten
<1>4. JobsTyped(noteJobs', DOMAIN noteQueue')
  <2>1. IsFiniteSet(noteJobs) /\ DOMAIN noteQueue \subseteq DOMAIN noteQueue'
    BY <1>1 DEF NoticesTyped, Follows
  <2>2. IsFiniteSet(noteJobs')
    <3>1. IsFiniteSet(N)
      BY DEF MailsAbout
    <3>2. IsFiniteSet(noteJobs \cup N)
      BY <2>1, <3>1, FS_Union, Zenon
    <3>3. QED
      BY <3>2
  <2>3. 0 \in 0..Retries
    BY NoticesAssumption
  <2>4. \A j \in noteJobs : /\ j = [no |-> j.no, about |-> j.about, tries |-> j.tries]
                            /\ j.about \subseteq DOMAIN noteQueue /\ j.tries \in 0..Retries
    BY <1>1 DEF NoticesTyped
  <2>5. QED
    BY <2>1, <2>2, <2>3, <2>4 DEF JobsTyped, MailsAbout
<1>5. noteMailed' \in [1..MaxRows -> Nat] /\ noteUnheard' \in [1..MaxRows -> Nat]
  BY <1>1 DEF NoticesTyped
<1>6. QED
  BY <1>1, <1>2, <1>3, <1>4, <1>5, SendingStays, SilentStep

LEMMA DueRows ==
  ASSUME NEW q, NEW r PROVE r \in DOMAIN q /\ q[r].mail = "pending" => Due(q, r) = 1
BY DEF Due

(* What all mails of a rule leave as it is.                                *)
LEMMA FlushKeeps ==
  ASSUME NEW e, NEW killed, NoticesOf!Flush(e, killed)
  PROVE  /\ noteChannel' = noteChannel /\ noteTurn' = noteTurn /\ noteNow' = noteNow
         /\ noteTexted' = noteTexted /\ noteUnmarked' = noteUnmarked
         /\ noteMailed' = noteMailed /\ noteUnheard' = noteUnheard
         /\ NoticesOf!FlushGroup(e, killed) \/ NoticesOf!FlushSingles(e, killed)
BY DEF NoticesOf!Flush, NoticesOf!settings

LEMMA MailOfRows ==
  ASSUME NEW n, NEW S
  PROVE  LET j == NoticesOf!Mail(n, S) IN
           j = [no |-> j.no, about |-> j.about, tries |-> j.tries] /\ j.about = S /\ j.tries = 0
BY DEF NoticesOf!Mail

LEMMA GroupStep ==
  ASSUME NoticesInv, NEW e, NEW killed \in BOOLEAN, NoticesOf!Flush(e, killed), NoticesOf!FlushGroup(e, killed)
  PROVE  NoticesInv'
<1> DEFINE W == NoticesOf!Waiting(e)
           k == NoticesOf!Mail(NoticesOf!Number + 1, W)
           p == [r \in DOMAIN noteQueue |->
                   IF r \in W THEN [noteQueue[r] EXCEPT !.mail = "sent", !.mailAt = noteNow]
                   ELSE IF r \in {} THEN [noteQueue[r] EXCEPT !.mail = "suppressed"]
                   ELSE noteQueue[r]]
<1>1. NoticesTyped
  BY DEF NoticesInv
<1>2. W \subseteq DOMAIN noteQueue /\ \A r \in W : noteQueue[r].mail = "pending"
  BY <1>1, WaitingRows
<1>3. noteJobs' = noteJobs \cup {k}
  BY DEF NoticesOf!FlushGroup
<1>4. \/ noteKills' = noteKills + 1 /\ noteQueue' = noteQueue
      \/ noteKills' = noteKills /\ noteQueue' = p
  BY DEF NoticesOf!FlushGroup, NoticesOf!Die, NoticesOf!MarkSent, NoticesOf!Sent, NoticesOf!Rows
<1>5. noteOwed' \subseteq DOMAIN noteQueue /\ noteMissed' \subseteq DOMAIN noteQueue
  <2>1. noteOwed' = noteOwed \ NoticesOf!Of(e)
        /\ noteMissed' = noteMissed \cup ((noteOwed \cap NoticesOf!Of(e)) \ NoticesOf!Counted(e))
    BY DEF NoticesOf!FlushGroup, NoticesOf!Compose
  <2>2. QED
    BY <1>1, <2>1, MissedRows DEF NoticesTyped
<1>6. k = [no |-> k.no, about |-> k.about, tries |-> k.tries] /\ k.about = W /\ k.tries = 0
  BY MailOfRows
<1> HIDE DEF k, W
<1>7. Follows(noteQueue, p, noteNow) /\ \A r \in W : Due(p, r) = 0
  <2> DEFINE D == {}
  <2>1. D \subseteq DOMAIN noteQueue /\ \A r \in D : noteQueue[r].mail = "pending"
    OBVIOUS
  <2>2. p = [r \in DOMAIN noteQueue |->
               IF r \in W THEN [noteQueue[r] EXCEPT !.mail = "sent", !.mailAt = noteNow]
               ELSE IF r \in D THEN [noteQueue[r] EXCEPT !.mail = "suppressed"]
               ELSE noteQueue[r]]
    OBVIOUS
  <2> HIDE DEF p, D
  <2>3. Follows(noteQueue, p, noteNow) /\ \A r \in W \cap DOMAIN noteQueue : Due(p, r) = 0
    BY <1>1, <2>1, <2>2, MarksFollow
  <2>4. QED
    BY <1>2, <2>3
<1>8. Follows(noteQueue, noteQueue, noteNow)
  BY <1>1, FollowsItself DEF NoticesTyped
<1> HIDE DEF p
<1>9. Follows(noteQueue, noteQueue', noteNow) /\ W \subseteq DOMAIN noteQueue'
  BY <1>2, <1>4, <1>7, <1>8 DEF Follows
<1>10. noteKills' = noteKills => \A r \in W : Due(noteQueue, r) = 1 /\ Due(noteQueue', r) = 0
  <2>1. \A r \in W : Due(noteQueue, r) = 1
    BY <1>2, DueRows
  <2>2. noteKills' = noteKills => noteQueue' = p
    BY <1>1, <1>4 DEF NoticesTyped
  <2>3. QED
    BY <1>7, <2>1, <2>2
<1> DEFINE N == {k}
<1>11. IsFiniteSet(N)
  BY FS_Singleton
<1>12. noteJobs' = noteJobs \cup N /\ MailsAbout(N, W)
  BY <1>3, <1>6, <1>11 DEF MailsAbout
<1> HIDE DEF N
<1>13. QED
  BY <1>4, <1>5, <1>9, <1>10, <1>12, FlushKeeps, WritingStep

LEMMA SinglesStep ==
  ASSUME NoticesInv, NEW e, NEW killed \in BOOLEAN, NoticesOf!Flush(e, killed), NoticesOf!FlushSingles(e, killed)
  PROVE  NoticesInv'
<1> DEFINE w == NoticesOf!Waiting(e)
           k(r) == NoticesOf!Mail(NoticesOf!Number + NoticesOf!Cardinality({o \in w : o <= r}), {r})
           p(S, D) == [r \in DOMAIN noteQueue |->
                        IF r \in S THEN [noteQueue[r] EXCEPT !.mail = "sent", !.mailAt = noteNow]
                        ELSE IF r \in D THEN [noteQueue[r] EXCEPT !.mail = "suppressed"]
                        ELSE noteQueue[r]]
<1>1. NoticesTyped
  BY DEF NoticesInv
<1>2. w \subseteq DOMAIN noteQueue /\ (\A r \in w : noteQueue[r].mail = "pending") /\ IsFiniteSet(w)
  BY <1>1, WaitingRows
<1>3. PICK mails \in SUBSET w, marked \in SUBSET w :
        /\ noteJobs' = noteJobs \cup {k(r) : r \in mails}
        /\ \/ noteKills' = noteKills + 1 /\ noteQueue' = p(marked, {})
              /\ noteOwed' \subseteq noteOwed
           \/ noteKills' = noteKills /\ noteQueue' = p(mails, w)
              /\ noteOwed' \subseteq noteOwed \cup w
  BY DEF NoticesOf!FlushSingles, NoticesOf!Heads, NoticesOf!Die, NoticesOf!MarkSent, NoticesOf!Sent,
         NoticesOf!Rows
<1>4. noteOwed' \subseteq DOMAIN noteQueue /\ noteMissed' \subseteq DOMAIN noteQueue
  <2>1. \/ noteMissed' = noteMissed
        \/ noteMissed' = noteMissed \cup ((noteOwed \cap NoticesOf!Of(e)) \ NoticesOf!Counted(e))
    BY DEF NoticesOf!FlushSingles, NoticesOf!Compose
  <2>2. noteOwed \subseteq DOMAIN noteQueue /\ noteMissed \subseteq DOMAIN noteQueue
    BY <1>1 DEF NoticesTyped
  <2>3. noteMissed' \subseteq DOMAIN noteQueue
    BY <1>1, <2>1, <2>2, MissedRows
  <2>4. QED
    BY <1>2, <1>3, <2>2, <2>3
<1>5. \A r : /\ k(r) = [no |-> k(r).no, about |-> k(r).about, tries |-> k(r).tries]
             /\ k(r).about = {r} /\ k(r).tries = 0
  BY MailOfRows
<1> HIDE DEF k, w
<1>6. ASSUME NEW S, NEW D, D \subseteq w
      PROVE  Follows(noteQueue, p(S, D), noteNow) /\ \A r \in S \cap DOMAIN noteQueue : Due(p(S, D), r) = 0
  <2>1. D \subseteq DOMAIN noteQueue /\ \A r \in D : noteQueue[r].mail = "pending"
    BY <1>2, <1>6
  <2> DEFINE q == p(S, D)
  <2>2. q = [r \in DOMAIN noteQueue |->
               IF r \in S THEN [noteQueue[r] EXCEPT !.mail = "sent", !.mailAt = noteNow]
               ELSE IF r \in D THEN [noteQueue[r] EXCEPT !.mail = "suppressed"]
               ELSE noteQueue[r]]
    OBVIOUS
  <2> HIDE DEF q
  <2>3. Follows(noteQueue, q, noteNow) /\ \A r \in S \cap DOMAIN noteQueue : Due(q, r) = 0
    BY <1>1, <2>1, <2>2, MarksFollow
  <2>4. QED
    BY <2>3 DEF q
<1> HIDE DEF p
<1>7. Follows(noteQueue, noteQueue', noteNow) /\ mails \subseteq DOMAIN noteQueue'
  <2>1. Follows(noteQueue, noteQueue', noteNow)
    BY <1>3, <1>6
  <2>2. QED
    BY <1>2, <2>1 DEF Follows
<1>8. noteKills' = noteKills => \A r \in mails : Due(noteQueue, r) = 1 /\ Due(noteQueue', r) = 0
  <2>1. \A r \in mails : Due(noteQueue, r) = 1
    BY <1>2, DueRows
  <2>2. noteKills' = noteKills => noteQueue' = p(mails, w)
    BY <1>1, <1>3 DEF NoticesTyped
  <2>3. \A r \in mails : Due(p(mails, w), r) = 0
    BY <1>2, <1>6
  <2>4. QED
    BY <2>1, <2>2, <2>3
<1> DEFINE N == {k(r) : r \in mails}
<1>9. IsFiniteSet(N)
  <2>1. IsFiniteSet(mails)
    BY <1>2, FS_Subset
  <2> DEFINE g == [r \in mails |-> k(r)]
  <2>2. g \in Surjection(mails, N)
    BY DEF Surjection
  <2>3. QED
    BY <2>1, <2>2, FS_Surjection
<1>10. /\ noteJobs' = noteJobs \cup N
       /\ \A j \in N : /\ j = [no |-> j.no, about |-> j.about, tries |-> j.tries]
                       /\ j.about \subseteq mails /\ j.tries = 0
  BY <1>3, <1>5
<1>11. \A r \in mails : \E m : \A j \in N : r \in j.about => j = m
  <2> SUFFICES ASSUME NEW r \in mails PROVE \A j \in N : r \in j.about => j = k(r)
    OBVIOUS
  <2>1. QED
    BY <1>5
<1>12. MailsAbout(N, mails) /\ noteJobs' = noteJobs \cup N
  BY <1>9, <1>10, <1>11 DEF MailsAbout
<1> HIDE DEF N
<1>13. QED
  BY <1>3, <1>4, <1>7, <1>8, <1>12, FlushKeeps, WritingStep

(* Nothing is added where there is nothing.                                *)
LEMMA SumOfRest ==
  ASSUME NEW S, IsFiniteSet(S), NEW T \in SUBSET S, NEW f, \A x \in S : f[x] \in Nat,
         \A x \in S \ T : f[x] = 0
  PROVE  Sum(f, S) = Sum(f, T)
<1> DEFINE U == S \ T
<1>1. IsFiniteSet(T) /\ IsFiniteSet(U) /\ T \cap U = {} /\ S = T \cup U
  BY FS_Subset
<1>2. \A x \in T \cup U : f[x] \in Nat
  OBVIOUS
<1>3. \A x \in U : f[x] = 0
  OBVIOUS
<1> HIDE DEF U
<1>4. Sum(f, T \cup U) = Sum(f, T) + Sum(f, U)
  BY <1>1, <1>2, SumOfTwo
<1>5. Sum(f, U) = Cardinality(U) * 0 /\ Cardinality(U) \in Nat
  BY <1>1, <1>3, SumOfOne, FS_CardinalityType
<1>6. Sum(f, T) \in Nat
  BY <1>1, <1>2, SumType
<1>7. QED
  BY <1>1, <1>4, <1>5, <1>6

LEMMA SumOfNothing ==
  ASSUME NEW S, IsFiniteSet(S), NEW f, \A x \in S : f[x] = 0 PROVE Sum(f, S) = 0
<1>1. Sum(f, S) = Cardinality(S) * 0
  BY SumOfOne
<1>2. Cardinality(S) \in Nat
  BY FS_CardinalityType
<1>3. QED
  BY <1>1, <1>2

(* One of the summands is raised.                                          *)
LEMMA SumRaised ==
  ASSUME NEW S, IsFiniteSet(S), NEW f, NEW g, NEW y, NEW c \in Nat,
         \A x \in S : f[x] \in Nat, \A x \in S : g[x] = IF x = y THEN f[x] + c ELSE f[x]
  PROVE  Sum(g, S) = Sum(f, S) + IF y \in S THEN c ELSE 0
<1> DEFINE T == S \ {y}
           U == {y}
<1>1. IsFiniteSet(T) /\ IsFiniteSet(U) /\ T \cap U = {} /\ Cardinality(U) = 1
  BY FS_RemoveElement, FS_Singleton
<1>2. \A x \in T : f[x] = g[x] /\ f[x] \in Nat
  OBVIOUS
<1>3. CASE y \in S
  <2>1. S = T \cup U /\ f[y] \in Nat /\ g[y] = f[y] + c /\ g[y] \in Nat
    BY <1>3
  <2>2. \A x \in T \cup U : f[x] \in Nat /\ g[x] \in Nat
    BY <1>2, <2>1
  <2>3. (\A x \in U : f[x] = f[y]) /\ (\A x \in U : g[x] = g[y])
    OBVIOUS
  <2> HIDE DEF T, U
  <2>4. Sum(f, T \cup U) = Sum(f, T) + Sum(f, U) /\ Sum(g, T \cup U) = Sum(g, T) + Sum(g, U)
    BY <1>1, <2>2, SumOfTwo
  <2>5. Sum(f, U) = 1 * f[y] /\ Sum(g, U) = 1 * g[y]
    BY <1>1, <2>1, <2>3, SumOfOne
  <2>6. Sum(f, T) = Sum(g, T) /\ Sum(f, T) \in Nat
    BY <1>1, <1>2, SumOfSame, SumType
  <2>7. QED
    BY <1>3, <2>1, <2>4, <2>5, <2>6
<1>4. CASE y \notin S
  <2>1. \A x \in S : f[x] = g[x]
    BY <1>4
  <2>2. Sum(f, S) = Sum(g, S) /\ Sum(f, S) \in Nat
    BY <2>1, SumOfSame, SumType
  <2>3. QED
    BY <1>4, <2>2
<1>5. QED
  BY <1>3, <1>4

LEMMA TimesType ==
  ASSUME NEW t \in 0..MaxTime PROVE t \in Nat /\ From(t) \in Nat /\ From(t) >= t - Day /\ From(t) <= t
<1>1. t \in Nat /\ t \in Int /\ Day \in Nat
  BY NoticesAssumption
<1>2. QED
  BY <1>1 DEF From, NoticesOf!Over

LEMMA NoticesStart == ASSUME NoticesOf!Init PROVE NoticesInv
<1>1. /\ noteQueue = <<>> /\ noteJobs = {} /\ noteChannel = [on |-> TRUE, numbers |-> 2]
      /\ noteTurn = [done |-> 0, failed |-> FALSE] /\ noteOwed = {} /\ noteMissed = {}
      /\ noteNow = 0 /\ noteKills = 0 /\ noteUnmarked = 0
      /\ noteMailed = [r \in 1..MaxRows |-> 0] /\ noteUnheard = [r \in 1..MaxRows |-> 0]
      /\ noteTexted = [p \in Pools |-> [t \in 0..MaxTime |-> 0]]
  BY PoolsAre DEF NoticesOf!Init, NoticesOf!Idle
<1>2. NoticesTyped
  <2>1. IsFiniteSet(noteJobs)
    BY <1>1, FS_EmptySet
  <2>2. noteQueue \in Seq(RowsAt(noteNow))
    BY <1>1
  <2>3. noteNow \in 0..MaxTime
    BY <1>1, NoticesAssumption
  <2>4. QED
    BY <1>1, <2>1, <2>2, <2>3 DEF NoticesTyped
<1>3. MailsSound
  <2> SUFFICES ASSUME NEW r \in 1..MaxRows
               PROVE  noteMailed[r] + Cardinality(MailsOf(r)) + Due(noteQueue, r) <= 1 + noteKills + noteUnheard[r]
    BY DEF MailsSound
  <2>1. MailsOf(r) = {} /\ Cardinality({}) = 0
    BY <1>1, FS_EmptySet DEF MailsOf
  <2>2. noteMailed[r] = 0 /\ noteUnheard[r] = 0 /\ Due(noteQueue, r) = 1
    BY <1>1 DEF Due
  <2>3. QED
    BY <1>1, <2>1, <2>2
<1>4. TextsSound
  <2>1. ASSUME NEW p \in Pools, NEW a \in Nat, NEW b \in 0..MaxTime
        PROVE  Sum(noteTexted[p], a..b) = 0
    <3>1. b \in Nat /\ a \in Int /\ b \in Int
      BY NoticesAssumption
    <3>2. IsFiniteSet(a..b)
      BY <3>1, FS_Interval
    <3>3. \A x \in a..b : noteTexted[p][x] = 0
      BY <1>1, <3>1, NoticesAssumption
    <3>4. QED
      BY <3>2, <3>3, SumOfNothing
  <2>2. \A t \in 0..MaxTime : From(t) \in Nat
    BY TimesType
  <2>3. ASSUME NEW p \in Pools, NEW t \in 0..MaxTime
        PROVE  Sum(noteTexted[p], From(t)..t) <= PoolSize[p] + noteUnmarked
    <3>1. Sum(noteTexted[p], From(t)..t) = 0
      BY <2>1, <2>2
    <3>2. QED
      BY <1>1, <3>1, PoolsAre
  <2>4. ASSUME NEW p \in Pools, NEW s \in From(noteNow)..noteNow
        PROVE  Sum(noteTexted[p], s..noteNow) <= Told(noteQueue, p, s) + noteUnmarked
    <3>1. Telling(noteQueue, p, s) = {}
      BY <1>1 DEF Telling
    <3>2. Told(noteQueue, p, s) = 0
      BY <3>1, FS_EmptySet DEF Told, Sum, Units
    <3>3. From(noteNow) \in Nat /\ noteNow \in 0..MaxTime
      BY <1>2, <2>2 DEF NoticesTyped
    <3>4. s \in Nat
      BY <3>3
    <3>5. Sum(noteTexted[p], s..noteNow) = 0
      BY <2>1, <3>3, <3>4
    <3>6. QED
      BY <1>1, <3>2, <3>5
  <2>5. \A p \in Pools, t \in 0..MaxTime : noteTexted[p][t] = 0
    BY <1>1
  <2>6. QED
    BY <2>3, <2>4, <2>5 DEF TextsSound
<1>5. QED
  BY <1>2, <1>3, <1>4 DEF NoticesInv

LEMMA DailyStep ==
  ASSUME NoticesInv, NEW cut \in {"none", "row", "job"}, NoticesOf!DailySummary(cut) PROVE NoticesInv'
<1> DEFINE key  == <<"daily", noteNow \div (Day + 1)>>
           mail == noteSmtp # "off"
           text == NoticesOf!BySms("daily_summary")
           row  == Len(noteQueue) + 1
           n    == NoticesOf!Row("daily_summary", key, mail, text)
           q    == Append(noteQueue, n)
           sent == [n EXCEPT !.mail = "sent", !.mailAt = noteNow]
           p    == Append(noteQueue, sent)
           k    == NoticesOf!Mail(NoticesOf!Number + 1, {row})
<1>1. NoticesTyped
  BY DEF NoticesInv
<1>2. noteNow \in Nat /\ noteQueue \in Seq(RowsAt(noteNow)) /\ Day \in Nat
  BY <1>1, NowTyped, NoticesAssumption
<1>3. n \in RowsAt(noteNow)
  <2>1. key \in NoticesOf!Given
    BY <1>2 DEF NoticesOf!Given
  <2>2. "daily_summary" \in NoticesOf!Events /\ (mail \/ text)
    BY DEF NoticesOf!DailySummary
  <2> HIDE DEF key, mail, text
  <2>3. QED
    BY <1>2, <2>1, <2>2, RowComes
<1>4. sent \in RowsAt(noteNow) /\ sent.mail = "sent"
  <2>1. sent \in RowsAt(noteNow)
    BY <1>2, <1>3, RowMailed
  <2>2. n \in NoticeRow
    BY <1>3 DEF RowsAt
  <2> HIDE DEF n
  <2>3. sent.mail = "sent"
    BY <2>2 DEF NoticeRow
  <2>4. QED
    BY <2>1, <2>3
<1>5. /\ noteChannel' = noteChannel /\ noteTurn' = noteTurn /\ noteNow' = noteNow
      /\ noteTexted' = noteTexted /\ noteUnmarked' = noteUnmarked
      /\ noteMailed' = noteMailed /\ noteUnheard' = noteUnheard
      /\ noteOwed' = noteOwed /\ noteMissed' = noteMissed
  BY DEF NoticesOf!DailySummary, NoticesOf!settings, NoticesOf!past
<1>6. [q EXCEPT ![row].mail = "sent", ![row].mailAt = noteNow] = p
  <2> DEFINE z == [q EXCEPT ![row].mail = "sent", ![row].mailAt = noteNow]
  <2> HIDE DEF n
  <2>1. q \in Seq({q[i] : i \in DOMAIN q}) /\ DOMAIN q = 1..row /\ q[row] = n /\ row \in Nat
    BY <1>2
  <2>2. z = [i \in DOMAIN q |-> IF i = row THEN sent ELSE q[i]]
    <3>1. [q EXCEPT ![row].mail = "sent"] = [q EXCEPT ![row] = [n EXCEPT !.mail = "sent"]]
      BY <2>1
    <3>2. z = [i \in DOMAIN q |-> IF i = row THEN [[n EXCEPT !.mail = "sent"] EXCEPT !.mailAt = noteNow] ELSE q[i]]
      BY <2>1, <3>1
    <3>3. QED
      BY <3>2
  <2>3. p = [i \in DOMAIN q |-> IF i = row THEN sent ELSE q[i]]
    BY <1>2
  <2>4. QED
    BY <2>2, <2>3
<1>7. \/ noteQueue' = p /\ noteJobs' = noteJobs \cup {k} /\ noteKills' = noteKills
      \/ noteQueue' = q /\ noteJobs' = noteJobs \cup {k} /\ noteKills' = noteKills + 1
      \/ noteQueue' = q /\ noteJobs' = noteJobs /\ (noteKills' = noteKills \/ noteKills' = noteKills + 1)
  <2> HIDE DEF p
  <2>1. /\ IF cut = "none" THEN noteKills' = noteKills ELSE mail /\ noteKills' = noteKills + 1
        /\ noteQueue' = IF mail /\ cut = "none"
                        THEN [q EXCEPT ![row].mail = "sent", ![row].mailAt = noteNow] ELSE q
        /\ noteJobs' = IF mail /\ cut # "row" THEN noteJobs \cup {k} ELSE noteJobs
    BY DEF NoticesOf!DailySummary, NoticesOf!Die
  <2> HIDE DEF q, row, k, mail
  <2>2. QED
    BY <1>6, <2>1
<1>8. k = [no |-> k.no, about |-> k.about, tries |-> k.tries] /\ k.about = {row} /\ k.tries = 0
  BY MailOfRows
<1> HIDE DEF n, sent, k, mail, text
<1>9. /\ Follows(noteQueue, q, noteNow) /\ Follows(noteQueue, p, noteNow)
      /\ row \in DOMAIN q /\ row \in DOMAIN p
  BY <1>2, <1>3, <1>4, FollowsAppended
<1>10. Due(noteQueue, row) = 1 /\ Due(p, row) = 0
  <2>1. row \notin DOMAIN noteQueue /\ p[row] = sent
    BY <1>2
  <2>2. QED
    BY <1>4, <1>9, <2>1 DEF Due
<1> HIDE DEF q, p, row
<1>11. noteOwed' \subseteq DOMAIN noteQueue /\ noteMissed' \subseteq DOMAIN noteQueue /\ noteKills \in Nat
  BY <1>1, <1>5 DEF NoticesTyped
<1>12. CASE noteJobs' = noteJobs \cup {k}
  <2> DEFINE W == {row}
             N == {k}
  <2>1. IsFiniteSet({k})
    BY FS_Singleton
  <2>2. MailsAbout(N, W)
    BY <1>8, <2>1 DEF MailsAbout
  <2>3. W \subseteq DOMAIN noteQueue' /\ Follows(noteQueue, noteQueue', noteNow)
    BY <1>7, <1>9
  <2>4. noteKills' = noteKills => noteQueue' = p \/ noteJobs' = noteJobs
    BY <1>7, <1>11
  <2>5. QED
    <3>1. CASE noteJobs' = noteJobs
      <4>1. MailsAbout({}, {}) /\ noteJobs' = noteJobs \cup {}
        BY <3>1, FS_EmptySet DEF MailsAbout
      <4>2. QED
        BY <1>5, <1>7, <1>11, <2>3, <4>1, WritingStep
    <3>2. CASE noteJobs' # noteJobs
      <4>1. noteKills' = noteKills => \A r \in W : Due(noteQueue, r) = 1 /\ Due(noteQueue', r) = 0
        BY <1>10, <2>4, <3>2
      <4>2. noteJobs' = noteJobs \cup N
        BY <1>12
      <4> HIDE DEF W, N
      <4>3. QED
        BY <1>5, <1>7, <1>11, <2>2, <2>3, <4>1, <4>2, WritingStep
    <3>3. QED
      BY <3>1, <3>2
<1>13. CASE noteJobs' = noteJobs
  <2>1. MailsAbout({}, {}) /\ noteJobs' = noteJobs \cup {}
    BY <1>13, FS_EmptySet DEF MailsAbout
  <2>2. Follows(noteQueue, noteQueue', noteNow)
    BY <1>7, <1>9
  <2>3. QED
    BY <1>5, <1>7, <1>11, <2>1, <2>2, WritingStep
<1>14. QED
  BY <1>7, <1>12, <1>13

LEMMA TickStep == ASSUME NoticesInv, NoticesOf!Tick PROVE NoticesInv'
<1>1. NoticesTyped /\ MailsSound /\ TextsSound
  BY DEF NoticesInv
<1>2. /\ noteQueue' = noteQueue /\ noteJobs' = noteJobs /\ noteChannel' = noteChannel /\ noteTurn' = noteTurn
      /\ noteTexted' = noteTexted /\ noteUnmarked' = noteUnmarked
      /\ noteMailed' = noteMailed /\ noteUnheard' = noteUnheard
      /\ noteOwed' = noteOwed /\ noteMissed' = noteMissed /\ noteKills' = noteKills
      /\ noteNow' = noteNow + 1 /\ noteNow < MaxTime
      /\ ~\E r \in DOMAIN noteQueue : noteQueue[r].kept /\ noteQueue[r].sms = "pending"
  BY DEF NoticesOf!Tick, NoticesOf!settings, NoticesOf!past, NoticesOf!Kept, NoticesOf!Rows
<1>3. noteNow \in 0..MaxTime /\ noteNow \in Nat /\ noteNow + 1 \in 0..MaxTime /\ noteQueue \in Seq(RowsAt(noteNow))
  BY <1>1, <1>2, NowTyped, NoticesAssumption DEF NoticesTyped
<1>4. noteQueue \in Seq(RowsAt(noteNow + 1))
  <2>1. ASSUME NEW r \in DOMAIN noteQueue PROVE noteQueue[r] \in RowsAt(noteNow + 1)
    <3>1. noteQueue[r] \in RowsAt(noteNow) /\ ~(noteQueue[r].kept /\ noteQueue[r].sms = "pending")
      BY <1>2, <1>3, RowTypes
    <3>2. QED
      BY <1>3, <3>1, RowLater
  <2>2. noteQueue \in [1..Len(noteQueue) -> RowsAt(noteNow + 1)] /\ Len(noteQueue) \in Nat
    BY <1>3, <2>1
  <2>3. QED
    BY <1>3, <2>2
<1>5. NoticesTyped'
  BY <1>1, <1>2, <1>3, <1>4 DEF NoticesTyped
<1>6. MailsSound'
  BY <1>1, <1>2 DEF MailsSound, MailsOf
<1>7. TextsSound'
  <2>1. ASSUME NEW p \in Pools, NEW s \in From(noteNow + 1)..(noteNow + 1)
        PROVE  Sum(noteTexted[p], s..(noteNow + 1)) <= Told(noteQueue, p, s) + noteUnmarked
    <3>1. noteTexted[p] \in [0..MaxTime -> Nat] /\ noteTexted[p][noteNow + 1] = 0 /\ noteUnmarked \in Nat
      BY <1>1, <1>3 DEF NoticesTyped, TextsSound
    <3>2. From(noteNow + 1) \in Nat /\ From(noteNow) \in Nat /\ From(noteNow) <= From(noteNow + 1)
          /\ From(noteNow) <= noteNow
      <4>1. /\ From(noteNow + 1) \in Nat /\ From(noteNow) \in Nat /\ From(noteNow) <= noteNow
            /\ Day \in Nat
        BY <1>3, TimesType, NoticesAssumption
      <4>2. From(noteNow) <= From(noteNow + 1)
        BY <1>3, <4>1 DEF From, NoticesOf!Over
      <4>3. QED
        BY <4>1, <4>2
    <3>3. s \in Nat /\ s \in Int /\ s <= noteNow + 1 /\ s >= From(noteNow)
      BY <1>3, <3>2
    <3> DEFINE S == s..(noteNow + 1)
               T == s..noteNow
               f == noteTexted[p]
    <3>4. IsFiniteSet(S) /\ T \in SUBSET S /\ \A x \in S : f[x] \in Nat
      <4>1. IsFiniteSet(S)
        BY <1>3, <3>3, FS_Interval
      <4>2. T \in SUBSET S /\ S \subseteq 0..MaxTime
        BY <1>3, <3>3, NoticesAssumption
      <4>3. QED
        BY <3>1, <4>1, <4>2
    <3>5. \A x \in S \ T : f[x] = 0
      BY <1>3, <3>1, <3>3
    <3> HIDE DEF S, T, f
    <3>6. Sum(f, S) = Sum(f, T)
      BY <3>4, <3>5, SumOfRest
    <3>7. Told(noteQueue, p, s) \in Nat
      <4>1. \A r \in DOMAIN noteQueue : noteQueue[r].kept /\ noteQueue[r].sms = "sent" /\ noteQueue[r].smsAt >= s =>
              /\ r \in DOMAIN noteQueue /\ noteQueue[r].kept /\ noteQueue[r].sms = "sent"
              /\ noteQueue[r].smsAt = noteQueue[r].smsAt /\ noteQueue[r].count = noteQueue[r].count
              /\ noteQueue[r].event = noteQueue[r].event
        OBVIOUS
      <4>2. noteNow \in Int /\ s >= s
        BY <1>3, <3>3
      <4>3. QED
        BY <1>3, <3>3, <4>1, <4>2, ToldGrows
    <3>8. CASE s <= noteNow
      <4>1. s \in From(noteNow)..noteNow
        BY <1>3, <3>2, <3>3, <3>8
      <4>2. Sum(noteTexted[p], s..noteNow) <= Told(noteQueue, p, s) + noteUnmarked
        BY <1>1, <4>1 DEF TextsSound
      <4>3. QED
        BY <3>6, <4>2 DEF S, T, f
    <3>9. CASE s > noteNow
      <4>1. T = {}
        BY <1>3, <3>3, <3>9 DEF T
      <4>2. Sum(f, {}) = 0
        BY SumOfNothing, FS_EmptySet
      <4>3. QED
        BY <3>1, <3>6, <3>7, <4>1, <4>2 DEF S, f
    <3>10. QED
      BY <1>3, <3>3, <3>8, <3>9
  <2>2. \A p \in Pools, t \in 0..MaxTime : t > noteNow + 1 => noteTexted[p][t] = 0
    BY <1>1, <1>3, NoticesAssumption DEF TextsSound
  <2>3. \A p \in Pools, t \in 0..MaxTime : Sum(noteTexted[p], From(t)..t) <= PoolSize[p] + noteUnmarked
    BY <1>1 DEF TextsSound
  <2>4. QED
    BY <1>2, <2>1, <2>2, <2>3 DEF TextsSound
<1>8. QED
  BY <1>5, <1>6, <1>7 DEF NoticesInv

(* The SMS of a rule: some of the rows that wait are sent, all or all but  *)
(* one of these are marked, some are dropped.                              *)
Texting(e, sent, marked, dropped) ==
  LET p == NoticesOf!Pool(e)
      m == noteChannel.numbers
      w == NoticesOf!WaitingSms(e)
  IN /\ e \in NoticesOf!Events
     /\ sent \subseteq w /\ marked \subseteq sent /\ dropped \subseteq w
     /\ sent = {} \/ Cardinality(sent) * m <= PoolSize[p] - Told(noteQueue, p, noteNow - Day)
     /\ noteTexted' = [noteTexted EXCEPT ![p][noteNow] = @ + Cardinality(sent) * m]
     /\ noteUnmarked' = noteUnmarked + Cardinality(sent \ marked) * m
     /\ noteQueue' = [r \in DOMAIN noteQueue |->
                        IF r \in marked
                        THEN [noteQueue[r] EXCEPT !.sms = "sent", !.smsAt = noteNow, !.count = m]
                        ELSE IF r \in dropped THEN [noteQueue[r] EXCEPT !.sms = "suppressed"]
                        ELSE noteQueue[r]]

LEMMA WaitingTexts ==
  ASSUME NoticesTyped, NEW e
  PROVE  LET w == NoticesOf!WaitingSms(e) IN
         /\ w \subseteq DOMAIN noteQueue /\ IsFiniteSet(w)
         /\ \A r \in w : noteQueue[r].kept /\ noteQueue[r].sms = "pending" /\ noteQueue[r].event = e
<1> DEFINE w == NoticesOf!WaitingSms(e)
<1>1. w \subseteq DOMAIN noteQueue
      /\ \A r \in w : noteQueue[r].kept /\ noteQueue[r].sms = "pending" /\ noteQueue[r].event = e
  BY DEF NoticesOf!WaitingSms, NoticesOf!Of, NoticesOf!Kept, NoticesOf!Rows
<1>2. DOMAIN noteQueue = 1..Len(noteQueue) /\ Len(noteQueue) \in Nat
  BY DEF NoticesTyped
<1>3. IsFiniteSet(DOMAIN noteQueue)
  BY <1>2, FS_Interval
<1>4. QED
  BY <1>1, <1>3, FS_Subset

LEMMA LeastOf == ASSUME NEW a \in Int, NEW b \in Int
  PROVE NoticesOf!Least(a, b) \in Int /\ NoticesOf!Least(a, b) <= a /\ NoticesOf!Least(a, b) <= b
BY DEF NoticesOf!Least

LEMMA ToldType ==
  ASSUME NoticesTyped, NEW p, NEW s \in Int
  PROVE  /\ Told(noteQueue, p, s) \in Nat /\ IsFiniteSet(Telling(noteQueue, p, s))
         /\ \A r \in DOMAIN noteQueue : noteQueue[r].count \in Nat /\ noteQueue[r].smsAt \in Int
<1>1. DOMAIN noteQueue = 1..Len(noteQueue) /\ Len(noteQueue) \in Nat
  BY DEF NoticesTyped
<1>2. IsFiniteSet(DOMAIN noteQueue)
  BY <1>1, FS_Interval
<1>3. IsFiniteSet(Telling(noteQueue, p, s))
  BY <1>2, FS_Subset DEF Telling
<1>4. \A r \in DOMAIN noteQueue : noteQueue[r].count \in Nat /\ noteQueue[r].smsAt \in Int
  BY NowTyped, RowTypes
<1>5. \A r \in Telling(noteQueue, p, s) : Counts(noteQueue)[r] \in Nat
  BY <1>4 DEF Telling, Counts
<1>6. QED
  BY <1>3, <1>4, <1>5, SumType DEF Told

(* What is left of a pool, and shared out.                                 *)
LEMMA BudgetIs ==
  ASSUME NoticesTyped, NEW p \in Pools
  PROVE  LET m == noteChannel.numbers
             u == Told(noteQueue, p, noteNow - Day)
             a == NoticesOf!Over(PoolSize[p] - u)
         IN  /\ m \in Nat \ {0} /\ u \in Nat /\ a \in Nat /\ (a = 0 \/ a = PoolSize[p] - u)
             /\ NoticesOf!DayBudget(p) = a \div m
             /\ NoticesOf!DayBudget(p) \in Nat /\ NoticesOf!DayBudget(p) * m <= a
<1> DEFINE m == noteChannel.numbers
           u == Told(noteQueue, p, noteNow - Day)
           a == NoticesOf!Over(PoolSize[p] - u)
<1>1. m \in Nat \ {0} /\ noteNow - Day \in Int
  BY NowTyped, NoticesAssumption DEF NoticesTyped
<1>2. u \in Nat /\ PoolSize[p] \in Nat
  BY <1>1, ToldType, PoolsAre
<1>3. NoticesOf!Used(p) = u
  <2>1. NoticesOf!CountedToday(p) = Telling(noteQueue, p, noteNow - Day)
    BY DEF NoticesOf!CountedToday, NoticesOf!Kept, NoticesOf!Rows, Telling
  <2>2. QED
    BY <2>1, TotalIsSum DEF NoticesOf!Used, Told, Counts, NoticesOf!Rows
<1>4. NoticesOf!DayBudget(p) = a \div m
  BY <1>3 DEF NoticesOf!DayBudget
<1>5. a \in Nat /\ (a = 0 \/ a = PoolSize[p] - u)
  BY <1>2 DEF NoticesOf!Over
<1> HIDE DEF m, u, a
<1>6. (a \div m) * m <= a /\ a \div m \in Nat
  BY <1>1, <1>5, Shares
<1>7. QED
  BY <1>1, <1>2, <1>4, <1>5, <1>6 DEF m, u, a

(* What is sent is within the share of the pool that is left.              *)
LEMMA WithinPool ==
  ASSUME NoticesTyped, NEW p \in Pools, NEW c \in Nat, c <= NoticesOf!DayBudget(p), c # 0
  PROVE  c * noteChannel.numbers <= PoolSize[p] - Told(noteQueue, p, noteNow - Day)
<1> DEFINE m == noteChannel.numbers
           u == Told(noteQueue, p, noteNow - Day)
           a == NoticesOf!Over(PoolSize[p] - u)
           d == NoticesOf!DayBudget(p)
<1>1. m \in Nat \ {0} /\ a \in Nat /\ (a = 0 \/ a = PoolSize[p] - u) /\ d \in Nat /\ d * m <= a /\ c <= d
  BY BudgetIs
<1> HIDE DEF m, u, a, d
<1>2. c * m <= d * m /\ c * m > 0
  BY <1>1
<1>3. d * m \in Nat /\ c * m \in Nat
  BY <1>1
<1>4. c * m <= PoolSize[p] - u
  BY <1>1, <1>2, <1>3
<1>5. QED
  BY <1>4 DEF m, u

LEMMA SmsTurn ==
  ASSUME NoticesTyped, NEW killed \in BOOLEAN, NoticesOf!FlushSms(killed)
  PROVE  /\ \E e, sent, marked, dropped : Texting(e, sent, marked, dropped)
         /\ noteTurn' \in [done : Nat, failed : BOOLEAN]
         /\ noteTurn' = [done |-> 0, failed |-> FALSE] \/ noteTurn'.done < Len(Rules)
<1> DEFINE i == noteTurn.done + 1
           e == Rules[i]
           w == NoticesOf!WaitingSms(e)
           p == NoticesOf!Pool(e)
           hour == NoticesOf!SmsBudget(e)
           tries == NoticesOf!Least(NoticesOf!Least(hour, NoticesOf!DayBudget(p)),
                                    NoticesOf!Cardinality(w))
           n == IF noteTurn.failed \/ noteRefusing \/ ~noteChannel.on THEN 0 ELSE tries
<1>1. PICK sent \in SUBSET w, marked \in SUBSET w :
        /\ NoticesOf!HandOver(p, sent, marked)
        /\ noteQueue' = NoticesOf!MarkSms(marked, IF killed THEN {} ELSE w \ sent)
        /\ IF killed
           THEN NoticesOf!Die /\ NoticesOf!Torn(sent, marked, n) /\ noteTurn' = NoticesOf!Idle
           ELSE /\ NoticesOf!Cardinality(sent) = n /\ marked = sent
                /\ noteTurn' = IF noteTurn.done + 1 = Len(Rules) THEN NoticesOf!Idle
                               ELSE [done |-> noteTurn.done + 1,
                                     failed |-> noteTurn.failed
                                                \/ (noteChannel.on /\ noteRefusing /\ tries > 0)]
  BY DEF NoticesOf!FlushSms, NoticesOf!Heads
<1>2. noteTurn.done \in Nat /\ noteTurn.failed \in BOOLEAN /\ Len(Rules) \in Nat /\ noteTurn.done < Len(Rules)
  <2>1. PICK r \in DOMAIN noteQueue : noteQueue[r].event \in NoticesOf!Events
    <3>1. PICK r \in DOMAIN noteQueue : TRUE
      BY DEF NoticesOf!FlushSms, NoticesOf!Kept, NoticesOf!Rows
    <3>2. QED
      BY <3>1, NowTyped, RowTypes
  <2>2. DOMAIN Rules # {} /\ Len(Rules) \in Nat /\ DOMAIN Rules = 1..Len(Rules)
    BY <2>1, NoticesAssumption DEF NoticesOf!Events, NoticesOf!Range
  <2>3. 0 < Len(Rules)
    BY <2>2
  <2>4. QED
    BY <2>2, <2>3 DEF NoticesTyped
<1>3. e \in NoticesOf!Events /\ p \in Pools /\ MaxPerHour[e] \in Nat
  <2>1. i \in DOMAIN Rules
    BY <1>2, NoticesAssumption
  <2>2. QED
    BY <2>1, NoticesAssumption DEF NoticesOf!Events, NoticesOf!Range, NoticesOf!Pool, Pools
<1>4. w \subseteq DOMAIN noteQueue /\ IsFiniteSet(w) /\ Cardinality(w) \in Nat
  BY WaitingTexts, FS_CardinalityType
<1>5. IsFiniteSet(sent) /\ Cardinality(sent) \in Nat /\ marked \subseteq sent
  BY <1>1, <1>4, FS_Subset, FS_CardinalityType DEF NoticesOf!Torn
<1>6. tries <= NoticesOf!DayBudget(p) /\ tries \in Int /\ NoticesOf!DayBudget(p) \in Int
  <2>1. hour \in Int
    <3> DEFINE S == {r \in NoticesOf!Of(e) : noteQueue[r].sms = "sent" /\ noteQueue[r].smsAt >= noteNow - Hour}
    <3>1. DOMAIN noteQueue = 1..Len(noteQueue) /\ Len(noteQueue) \in Nat
      BY DEF NoticesTyped
    <3>2. IsFiniteSet(DOMAIN noteQueue)
      BY <3>1, FS_Interval
    <3>3. S \subseteq DOMAIN noteQueue
      BY DEF NoticesOf!Of, NoticesOf!Kept, NoticesOf!Rows
    <3>4. Cardinality(S) \in Nat
      BY <3>2, <3>3, FS_Subset, FS_CardinalityType
    <3>5. hour = NoticesOf!Over(MaxPerHour[e] - Cardinality(S))
      BY CountOfNotices DEF NoticesOf!SmsBudget
    <3> HIDE DEF S, hour, e
    <3>6. QED
      BY <1>3, <3>4, <3>5 DEF NoticesOf!Over
  <2>2. NoticesOf!DayBudget(p) \in Int
    BY <1>3, BudgetIs
  <2>3. NoticesOf!Cardinality(w) \in Int
    BY <1>4, CountOfNotices
  <2> DEFINE day == NoticesOf!DayBudget(p)
             all == NoticesOf!Cardinality(w)
             least == NoticesOf!Least(hour, day)
  <2> HIDE DEF hour, day, all
  <2>4. hour \in Int /\ day \in Int /\ all \in Int
    BY <2>1, <2>2, <2>3 DEF hour, day, all
  <2>5. least \in Int /\ least <= day
    BY <2>4, LeastOf
  <2> HIDE DEF least
  <2>6. NoticesOf!Least(least, all) \in Int /\ NoticesOf!Least(least, all) <= least
    BY <2>4, <2>5, LeastOf
  <2>7. NoticesOf!Least(least, all) <= day
    BY <2>4, <2>5, <2>6
  <2>8. QED
    BY <2>4, <2>6, <2>7 DEF least, hour, day, all
<1>7. sent = {} \/ (Cardinality(sent) <= NoticesOf!DayBudget(p) /\ Cardinality(sent) # 0)
  <2> HIDE DEF tries, p, w
  <2>1. Cardinality(sent) = n \/ Cardinality(sent) \in 1..n
    BY <1>1, CountOfNotices DEF NoticesOf!Torn
  <2>2. n = 0 \/ n = tries
    OBVIOUS
  <2> HIDE DEF n
  <2>3. CASE Cardinality(sent) = 0
    BY <1>5, <2>3, FS_EmptySet
  <2>4. CASE Cardinality(sent) # 0
    <3>1. n = tries
      BY <1>5, <2>1, <2>2, <2>4
    <3>2. Cardinality(sent) <= tries
      BY <1>5, <1>6, <2>1, <3>1
    <3>3. NoticesOf!DayBudget(p) \in Int
      BY <1>6
    <3>4. QED
      BY <1>5, <1>6, <2>4, <3>2, <3>3
  <2>5. QED
    BY <2>3, <2>4
<1>8. \E dropped : Texting(e, sent, marked, dropped)
  <2> DEFINE dropped == IF killed THEN {} ELSE w \ sent
             m == noteChannel.numbers
  <2>1. sent = {} \/ Cardinality(sent) * m <= PoolSize[p] - Told(noteQueue, p, noteNow - Day)
    BY <1>3, <1>5, <1>7, WithinPool
  <2>2. /\ noteTexted' = [noteTexted EXCEPT ![p][noteNow] = @ + Cardinality(sent) * m]
        /\ noteUnmarked' = noteUnmarked + Cardinality(sent \ marked) * m
    BY <1>1, CountOfNotices DEF NoticesOf!HandOver
  <2>3. noteQueue' = [r \in DOMAIN noteQueue |->
                        IF r \in marked
                        THEN [noteQueue[r] EXCEPT !.sms = "sent", !.smsAt = noteNow, !.count = m]
                        ELSE IF r \in dropped THEN [noteQueue[r] EXCEPT !.sms = "suppressed"]
                        ELSE noteQueue[r]]
    BY <1>1 DEF NoticesOf!MarkSms, NoticesOf!Rows
  <2>4. dropped \subseteq w
    OBVIOUS
  <2> HIDE DEF dropped
  <2>5. Texting(e, sent, marked, dropped)
    BY <1>1, <1>3, <1>5, <2>1, <2>2, <2>3, <2>4 DEF Texting
  <2>6. QED
    BY <2>5
<1>9. /\ noteTurn' \in [done : Nat, failed : BOOLEAN]
      /\ noteTurn' = [done |-> 0, failed |-> FALSE] \/ noteTurn'.done < Len(Rules)
  <2> DEFINE f == noteTurn.failed \/ (noteChannel.on /\ noteRefusing /\ tries > 0)
  <2>1. \/ noteTurn' = [done |-> 0, failed |-> FALSE]
        \/ noteTurn' = [done |-> i, failed |-> f] /\ i # Len(Rules)
    BY <1>1 DEF NoticesOf!Idle
  <2>2. f \in BOOLEAN
    OBVIOUS
  <2> DEFINE z == [done |-> i, failed |-> f]
  <2>3. i \in Nat /\ (i # Len(Rules) => i < Len(Rules))
    BY <1>2
  <2> HIDE DEF f, i
  <2>4. z \in [done : Nat, failed : BOOLEAN] /\ z.done = i
    BY <2>2, <2>3
  <2>5. [done |-> 0, failed |-> FALSE] \in [done : Nat, failed : BOOLEAN]
    OBVIOUS
  <2> HIDE DEF z
  <2>6. noteTurn' = [done |-> 0, failed |-> FALSE] \/ (noteTurn' = z /\ i # Len(Rules))
    BY <2>1 DEF z
  <2>7. QED
    BY <2>3, <2>4, <2>5, <2>6
<1>10. QED
  BY <1>8, <1>9

LEMMA TextedRows ==
  ASSUME NoticesTyped, NEW e, NEW sent, NEW marked, NEW dropped, Texting(e, sent, marked, dropped)
  PROVE  /\ Follows(noteQueue, noteQueue', noteNow) /\ DOMAIN noteQueue' = DOMAIN noteQueue
         /\ \A r \in marked : /\ r \in DOMAIN noteQueue /\ noteQueue[r].sms = "pending"
                              /\ noteQueue'[r].kept /\ noteQueue'[r].sms = "sent"
                              /\ noteQueue'[r].smsAt = noteNow /\ noteQueue'[r].event = e
                              /\ noteQueue'[r].count = noteChannel.numbers
         /\ \A r \in DOMAIN noteQueue : noteQueue[r].sms = "sent" => noteQueue'[r] = noteQueue[r]
<1> DEFINE m == noteChannel.numbers
           p == [r \in DOMAIN noteQueue |->
                   IF r \in marked
                   THEN [noteQueue[r] EXCEPT !.sms = "sent", !.smsAt = noteNow, !.count = m]
                   ELSE IF r \in dropped THEN [noteQueue[r] EXCEPT !.sms = "suppressed"]
                   ELSE noteQueue[r]]
           w == NoticesOf!WaitingSms(e)
<1>1. noteNow \in Nat /\ noteQueue \in Seq(RowsAt(noteNow)) /\ m \in Nat
  BY NowTyped DEF NoticesTyped
<1>2. noteQueue' = p /\ marked \subseteq w /\ dropped \subseteq w
  BY DEF Texting
<1>3. /\ w \subseteq DOMAIN noteQueue
      /\ \A r \in w : noteQueue[r].kept /\ noteQueue[r].sms = "pending" /\ noteQueue[r].event = e
  BY WaitingTexts
<1> HIDE DEF w
<1>4. ASSUME NEW r \in DOMAIN noteQueue
      PROVE  /\ p[r] \in RowsAt(noteNow) /\ p[r].mail = noteQueue[r].mail
             /\ noteQueue[r].sms = "sent" => p[r] = noteQueue[r]
             /\ r \in marked => /\ p[r].kept = noteQueue[r].kept /\ p[r].sms = "sent" /\ p[r].smsAt = noteNow
                                /\ p[r].event = noteQueue[r].event /\ p[r].count = m
  <2> DEFINE q == noteQueue[r]
  <2>1. q \in RowsAt(noteNow) /\ q \in NoticeRow
    BY <1>1, RowTypes
  <2>2. r \in marked \cup dropped => q.kept /\ q.sms = "pending"
    BY <1>2, <1>3
  <2>3. \/ r \in marked /\ p[r] = [q EXCEPT !.sms = "sent", !.smsAt = noteNow, !.count = m]
        \/ r \notin marked /\ r \in dropped /\ p[r] = [q EXCEPT !.sms = "suppressed"]
        \/ r \notin marked /\ r \notin dropped /\ p[r] = q
    OBVIOUS
  <2> HIDE DEF q, p, m
  <2>4. p[r] \in RowsAt(noteNow)
    <3>1. CASE r \in marked
      <4>1. p[r] = [q EXCEPT !.sms = "sent", !.smsAt = noteNow, !.count = m]
        BY <2>3, <3>1
      <4>2. [q EXCEPT !.sms = "sent", !.smsAt = noteNow, !.count = m] \in RowsAt(noteNow)
        BY <1>1, <2>1, <2>2, <3>1, RowTexted
      <4>3. QED
        BY <4>1, <4>2
    <3>2. CASE r \notin marked
      BY <1>1, <2>1, <2>2, <2>3, <3>2, RowNotTexted
    <3>3. QED
      BY <3>1, <3>2
  <2>5. p[r].mail = q.mail
    BY <2>1, <2>3 DEF NoticeRow
  <2>6. ASSUME r \in marked
        PROVE  /\ p[r].kept = q.kept /\ p[r].sms = "sent" /\ p[r].smsAt = noteNow
               /\ p[r].event = q.event /\ p[r].count = m
    <3>1. p[r] = [q EXCEPT !.sms = "sent", !.smsAt = noteNow, !.count = m]
      BY <2>3, <2>6
    <3>2. QED
      BY <2>1, <3>1 DEF NoticeRow
  <2>7. q.sms = "sent" => p[r] = q
    BY <2>2, <2>3
  <2>8. QED
    BY <2>4, <2>5, <2>6, <2>7, Zenon DEF q
<1>5. p = [r \in DOMAIN noteQueue |-> p[r]] /\ DOMAIN p = DOMAIN noteQueue
  OBVIOUS
<1> HIDE DEF p, m
<1>6. p \in Seq(RowsAt(noteNow))
  BY <1>1, <1>4, <1>5, Marking
<1>7. Follows(noteQueue, p, noteNow)
  <2>1. \A r \in DOMAIN noteQueue : p[r].mail = "pending" => noteQueue[r].mail = "pending"
    BY <1>4
  <2>2. \A r \in DOMAIN noteQueue :
          noteQueue[r].kept /\ noteQueue[r].sms = "sent" /\ noteQueue[r].smsAt >= noteNow - Day =>
            /\ p[r].kept /\ p[r].sms = "sent"
            /\ p[r].smsAt = noteQueue[r].smsAt /\ p[r].count = noteQueue[r].count
            /\ p[r].event = noteQueue[r].event
    <3> SUFFICES ASSUME NEW r \in DOMAIN noteQueue, noteQueue[r].kept, noteQueue[r].sms = "sent"
                 PROVE  /\ p[r].kept /\ p[r].sms = "sent"
                        /\ p[r].smsAt = noteQueue[r].smsAt /\ p[r].count = noteQueue[r].count
                        /\ p[r].event = noteQueue[r].event
      OBVIOUS
    <3>1. p[r] = noteQueue[r]
      BY <1>4
    <3>2. p[r].kept /\ p[r].sms = "sent"
      BY <3>1, Zenon
    <3>3. QED
      BY <3>1, <3>2
  <2>3. QED
    BY <1>1, <1>5, <1>6, <2>1, <2>2, FollowsMarked, Zenon
<1>8. ASSUME NEW r \in marked
      PROVE  /\ r \in DOMAIN noteQueue /\ noteQueue[r].sms = "pending"
             /\ p[r].kept /\ p[r].sms = "sent" /\ p[r].smsAt = noteNow /\ p[r].event = e /\ p[r].count = m
  <2>1. r \in DOMAIN noteQueue /\ noteQueue[r].sms = "pending" /\ noteQueue[r].kept /\ noteQueue[r].event = e
    BY <1>2, <1>3
  <2>2. /\ p[r].kept = noteQueue[r].kept /\ p[r].sms = "sent" /\ p[r].smsAt = noteNow
        /\ p[r].event = noteQueue[r].event /\ p[r].count = m
    BY <1>4, <2>1
  <2>3. p[r].kept
    BY <2>1, <2>2, Zenon
  <2>4. QED
    BY <2>1, <2>2, <2>3
<1>9. \A r \in DOMAIN noteQueue : noteQueue[r].sms = "sent" => p[r] = noteQueue[r]
  BY <1>4
<1>10. QED
  BY <1>2, <1>5, <1>7, <1>8, <1>9, Zenon DEF m

(* The rows tell of the SMS that are counted.                              *)
LEMMA TextsAreTold ==
  ASSUME NoticesTyped, NEW e, NEW sent, NEW marked, NEW dropped, Texting(e, sent, marked, dropped),
         NEW p, NEW s \in Int, s <= noteNow
  PROVE  /\ Told(noteQueue', p, s) \in Nat
         /\ Told(noteQueue', p, s) >= Told(noteQueue, p, s)
              + IF p = NoticesOf!Pool(e) THEN Cardinality(marked) * noteChannel.numbers ELSE 0
<1> DEFINE q == noteQueue'
           m == noteChannel.numbers
           A == Telling(noteQueue, p, s)
           B == Telling(q, p, s)
           M == IF p = NoticesOf!Pool(e) THEN marked ELSE {}
<1>1. /\ q \in Seq(RowsAt(noteNow)) /\ DOMAIN q = DOMAIN noteQueue
      /\ \A r \in marked : /\ r \in DOMAIN noteQueue /\ noteQueue[r].sms = "pending"
                           /\ q[r].kept /\ q[r].sms = "sent" /\ q[r].smsAt = noteNow /\ q[r].event = e
                           /\ q[r].count = m
      /\ \A r \in DOMAIN noteQueue : noteQueue[r].sms = "sent" => q[r] = noteQueue[r]
  BY TextedRows DEF Follows
<1>2. noteNow \in Nat /\ m \in Nat /\ noteQueue \in Seq(RowsAt(noteNow))
  BY NowTyped DEF NoticesTyped
<1>3. IsFiniteSet(A) /\ Told(noteQueue, p, s) \in Nat
      /\ \A r \in DOMAIN noteQueue : noteQueue[r].count \in Nat
  BY ToldType
<1> HIDE DEF q, m
<1>4. A \subseteq B
  <2> SUFFICES ASSUME NEW r \in A PROVE r \in B
    OBVIOUS
  <2>1. r \in DOMAIN noteQueue /\ noteQueue[r].sms = "sent"
    BY DEF Telling
  <2>2. q[r] = noteQueue[r] /\ r \in DOMAIN q
    BY <1>1, <2>1
  <2>3. QED
    BY <2>2, Zenon DEF Telling
<1>5. M \subseteq B
  <2> SUFFICES ASSUME NEW r \in marked, p = NoticesOf!Pool(e) PROVE r \in B
    OBVIOUS
  <2>1. /\ r \in DOMAIN q /\ q[r].kept /\ q[r].sms = "sent" /\ q[r].smsAt = noteNow /\ q[r].event = e
    BY <1>1
  <2>2. q[r].smsAt >= s
    BY <1>2, <2>1
  <2>3. QED
    BY <2>1, <2>2, Zenon DEF Telling
<1>6. A \cap M = {}
  BY <1>1 DEF Telling
<1>7. IsFiniteSet(B) /\ \A r \in B : Counts(q)[r] \in Nat
  <2>1. DOMAIN q = 1..Len(q) /\ Len(q) \in Nat
    BY <1>1
  <2>2. IsFiniteSet(DOMAIN q)
    BY <2>1, FS_Interval
  <2>3. \A r \in DOMAIN q : q[r].count \in Nat
    BY <1>1, RowTypes
  <2>4. QED
    BY <2>2, <2>3, FS_Subset DEF Telling, Counts
<1>8. IsFiniteSet(M)
  BY <1>5, <1>7, FS_Subset
<1>9. Sum(Counts(noteQueue), A) = Sum(Counts(q), A)
  <2>1. \A r \in A : Counts(noteQueue)[r] = Counts(q)[r]
    BY <1>1 DEF Telling, Counts
  <2>2. QED
    BY <2>1, SumOfSame
<1>10. Sum(Counts(q), M) = Cardinality(M) * m
  <2>1. \A r \in M : Counts(q)[r] = m
    BY <1>1 DEF Counts
  <2> HIDE DEF M
  <2>2. QED
    BY <1>2, <1>8, <2>1, SumOfOne
<1> HIDE DEF A, B, M
<1>11. Sum(Counts(q), A \cup M) = Sum(Counts(q), A) + Sum(Counts(q), M)
  <2>1. \A r \in A \cup M : Counts(q)[r] \in Nat
    BY <1>4, <1>5, <1>7
  <2>2. QED
    BY <1>3, <1>6, <1>8, <2>1, SumOfTwo
<1>12. Sum(Counts(q), A \cup M) <= Sum(Counts(q), B)
  BY <1>4, <1>5, <1>7, SumOfPart
<1>13. Told(q, p, s) \in Nat /\ Told(q, p, s) >= Told(noteQueue, p, s) + Cardinality(M) * m
  <2>1. Told(q, p, s) = Sum(Counts(q), B) /\ Told(noteQueue, p, s) = Sum(Counts(noteQueue), A)
    BY DEF Told, A, B
  <2>2. Sum(Counts(q), B) \in Nat /\ Cardinality(M) \in Nat
    BY <1>7, <1>8, SumType, FS_CardinalityType
  <2>3. Cardinality(M) * m \in Nat
    BY <1>2, <2>2
  <2>4. QED
    BY <1>3, <1>9, <1>10, <1>11, <1>12, <2>1, <2>2, <2>3
<1>14. Cardinality(M) * m = IF p = NoticesOf!Pool(e) THEN Cardinality(marked) * m ELSE 0
  BY <1>2, FS_EmptySet DEF M
<1>15. QED
  BY <1>13, <1>14 DEF q, m

LEMMA TextsHandedOver ==
  ASSUME NoticesTyped, TextsSound, NEW e, NEW sent, NEW marked, NEW dropped,
         Texting(e, sent, marked, dropped), noteNow' = noteNow
  PROVE  /\ TextsSound' /\ noteTexted' \in [Pools -> [0..MaxTime -> Nat]] /\ noteUnmarked' \in Nat
<1> DEFINE P == NoticesOf!Pool(e)
           m == noteChannel.numbers
           c == Cardinality(sent) * m
           d == Cardinality(marked) * m
           u == Cardinality(sent \ marked) * m
<1>1. /\ noteNow \in Nat /\ noteNow \in Int /\ noteNow \in 0..MaxTime /\ noteNow - Day \in Int
      /\ m \in Nat /\ noteUnmarked \in Nat /\ P \in Pools
      /\ noteTexted \in [Pools -> [0..MaxTime -> Nat]]
  BY NowTyped, NoticesAssumption DEF NoticesTyped, NoticesOf!Pool, Pools
<1>2. c \in Nat /\ d \in Nat /\ u \in Nat /\ c = d + u /\ (c = 0 \/ sent # {})
  <2>1. IsFiniteSet(sent) /\ marked \subseteq sent
    BY WaitingTexts, FS_Subset DEF Texting
  <2>2. IsFiniteSet(marked) /\ IsFiniteSet(sent \ marked)
    BY <2>1, FS_Subset
  <2>3. Cardinality(marked \cup (sent \ marked)) = Cardinality(marked) + Cardinality(sent \ marked)
    BY <2>2, UnionCount
  <2>4. marked \cup (sent \ marked) = sent
    BY <2>1
  <2>5. Cardinality(marked) \in Nat /\ Cardinality(sent \ marked) \in Nat /\ Cardinality(sent) \in Nat
        /\ (sent = {} => Cardinality(sent) = 0)
    BY <2>1, <2>2, FS_CardinalityType, FS_EmptySet
  <2>6. Cardinality(sent) = Cardinality(marked) + Cardinality(sent \ marked)
    BY <2>3, <2>4
  <2> DEFINE x == Cardinality(sent)
             y == Cardinality(marked)
             z == Cardinality(sent \ marked)
  <2> HIDE DEF x, y, z, m
  <2>7. x * m \in Nat /\ y * m \in Nat /\ z * m \in Nat /\ x * m = y * m + z * m /\ (x * m = 0 \/ sent # {})
    <3>1. x \in Nat /\ y \in Nat /\ z \in Nat /\ x = y + z /\ (sent = {} => x = 0)
      BY <2>5, <2>6 DEF x, y, z
    <3>2. QED
      BY <1>1, <3>1
  <2>8. QED
    BY <2>7 DEF x, y, z
<1>3. /\ noteTexted' = [noteTexted EXCEPT ![P][noteNow] = @ + c] /\ noteUnmarked' = noteUnmarked + u
      /\ sent = {} \/ c <= PoolSize[P] - Told(noteQueue, P, noteNow - Day)
  BY DEF Texting
<1>4. ASSUME NEW p, NEW s \in Int, s <= noteNow
      PROVE  /\ Told(noteQueue', p, s) \in Nat
             /\ Told(noteQueue', p, s) >= Told(noteQueue, p, s) + IF p = P THEN d ELSE 0
  BY <1>4, TextsAreTold
<1> HIDE DEF P, m, c, d, u
<1>5. /\ noteTexted' \in [Pools -> [0..MaxTime -> Nat]] /\ noteUnmarked' \in Nat /\ noteUnmarked' >= noteUnmarked
      /\ \A p \in Pools, t \in 0..MaxTime :
           noteTexted'[p][t] = IF p = P /\ t = noteNow THEN noteTexted[p][t] + c ELSE noteTexted[p][t]
  <2> DEFINE f == [noteTexted[P] EXCEPT ![noteNow] = noteTexted[P][noteNow] + c]
  <2>1. noteTexted' = [noteTexted EXCEPT ![P] = f]
    BY <1>3
  <2>2. noteTexted[P] \in [0..MaxTime -> Nat] /\ noteTexted[P][noteNow] + c \in Nat
    <3>1. noteTexted[P] \in [0..MaxTime -> Nat]
      BY <1>1
    <3>2. noteTexted[P][noteNow] \in Nat
      BY <1>1, <3>1
    <3>3. QED
      BY <1>2, <3>1, <3>2
  <2>3. f \in [0..MaxTime -> Nat]
        /\ \A t \in 0..MaxTime : f[t] = IF t = noteNow THEN noteTexted[P][t] + c ELSE noteTexted[P][t]
    BY <1>1, <2>2
  <2> HIDE DEF f
  <2>4. noteTexted' \in [Pools -> [0..MaxTime -> Nat]]
    BY <1>1, <2>1, <2>3
  <2>5. ASSUME NEW p \in Pools, NEW t \in 0..MaxTime
        PROVE  noteTexted'[p][t] = IF p = P /\ t = noteNow THEN noteTexted[p][t] + c ELSE noteTexted[p][t]
    <3>1. noteTexted'[p] = IF p = P THEN f ELSE noteTexted[p]
      BY <1>1, <2>1
    <3>2. QED
      BY <2>3, <3>1
  <2>6. QED
    BY <1>1, <1>2, <1>3, <2>4, <2>5
<1>6. ASSUME NEW p \in Pools, NEW S, IsFiniteSet(S), S \subseteq 0..MaxTime
      PROVE  /\ Sum(noteTexted'[p], S) = Sum(noteTexted[p], S) + IF p = P /\ noteNow \in S THEN c ELSE 0
             /\ Sum(noteTexted[p], S) \in Nat
  <2> DEFINE f == noteTexted[p]
             g == noteTexted'[p]
             a == IF p = P THEN c ELSE 0
  <2>1. a \in Nat /\ \A x \in S : f[x] \in Nat
    <3>1. f \in [0..MaxTime -> Nat]
      BY <1>1
    <3>2. QED
      BY <1>2, <1>6, <3>1
  <2>2. \A x \in S : g[x] = IF x = noteNow THEN f[x] + a ELSE f[x]
    <3> SUFFICES ASSUME NEW x \in S PROVE g[x] = IF x = noteNow THEN f[x] + a ELSE f[x]
      OBVIOUS
    <3>1. x \in 0..MaxTime
      BY <1>6
    <3>2. g[x] = IF p = P /\ x = noteNow THEN f[x] + c ELSE f[x]
      BY <1>5, <3>1
    <3>3. f[x] \in Nat
      BY <2>1
    <3>4. QED
      BY <3>2, <3>3
  <2> HIDE DEF f, g, a
  <2>3. Sum(g, S) = Sum(f, S) + IF noteNow \in S THEN a ELSE 0
    BY <1>6, <2>1, <2>2, SumRaised
  <2>4. Sum(f, S) \in Nat
    BY <1>6, <2>1, SumType
  <2>5. QED
    BY <2>3, <2>4 DEF f, g, a
<1>7. ASSUME NEW a \in Nat, NEW b \in 0..MaxTime PROVE IsFiniteSet(a..b) /\ a..b \subseteq 0..MaxTime
  <2>1. a \in Int /\ b \in Int /\ b <= MaxTime /\ MaxTime \in Nat
    BY NoticesAssumption
  <2>2. QED
    BY <2>1, FS_Interval
<1>8. From(noteNow) \in Nat /\ From(noteNow) <= noteNow
  BY <1>1, TimesType
<1>9. \A p \in Pools, t \in 0..MaxTime : t > noteNow => noteTexted'[p][t] = 0
  <2> SUFFICES ASSUME NEW p \in Pools, NEW t \in 0..MaxTime, t > noteNow PROVE noteTexted'[p][t] = 0
    OBVIOUS
  <2>1. noteTexted[p][t] = 0
    BY DEF TextsSound
  <2>2. t # noteNow
    BY <1>1
  <2>3. QED
    BY <1>5, <2>1, <2>2
<1>10. ASSUME NEW p \in Pools, NEW s \in From(noteNow)..noteNow
       PROVE  Sum(noteTexted'[p], s..noteNow) <= Told(noteQueue', p, s) + noteUnmarked'
  <2>1. s \in Nat /\ s \in Int /\ s <= noteNow
    BY <1>1, <1>8
  <2>2. /\ Sum(noteTexted'[p], s..noteNow) = Sum(noteTexted[p], s..noteNow) + IF p = P THEN c ELSE 0
        /\ Sum(noteTexted[p], s..noteNow) \in Nat
    <3>1. IsFiniteSet(s..noteNow) /\ s..noteNow \subseteq 0..MaxTime
      BY <1>1, <1>7, <2>1
    <3>2. noteNow \in s..noteNow
      BY <1>1, <2>1
    <3>3. QED
      BY <1>6, <3>1, <3>2
  <2>3. Sum(noteTexted[p], s..noteNow) <= Told(noteQueue, p, s) + noteUnmarked
    BY DEF TextsSound
  <2>4. /\ Told(noteQueue', p, s) \in Nat
        /\ Told(noteQueue', p, s) >= Told(noteQueue, p, s) + IF p = P THEN d ELSE 0
    BY <1>4, <2>1
  <2>5. Told(noteQueue, p, s) \in Nat
    BY <2>1, ToldType
  <2>6. QED
    BY <1>1, <1>2, <1>3, <2>2, <2>3, <2>4, <2>5
<1>11. ASSUME NEW p \in Pools, NEW t \in 0..MaxTime
       PROVE  Sum(noteTexted'[p], From(t)..t) <= PoolSize[p] + noteUnmarked'
  <2>1. From(t) \in Nat /\ t \in Nat /\ From(t) <= t /\ From(t) >= t - Day /\ PoolSize[p] \in Nat /\ Day \in Nat
    BY TimesType, PoolsAre, NoticesAssumption
  <2>2. Sum(noteTexted[p], From(t)..t) <= PoolSize[p] + noteUnmarked
    BY DEF TextsSound
  <2> DEFINE S == From(t)..t
             T == From(t)..noteNow
  <2>3. IsFiniteSet(S) /\ S \subseteq 0..MaxTime
    BY <1>7, <2>1
  <2>4. /\ Sum(noteTexted'[p], S) = Sum(noteTexted[p], S) + IF p = P /\ noteNow \in S THEN c ELSE 0
        /\ Sum(noteTexted[p], S) \in Nat
    BY <1>6, <2>3
  <2>5. CASE p = P /\ noteNow \in S /\ sent # {}
    <3>1. From(t) <= noteNow /\ noteNow <= t /\ From(t) \in From(noteNow)..noteNow
      <4>1. From(t) <= noteNow /\ noteNow <= t
        BY <1>1, <2>1, <2>5
      <4>2. From(noteNow) <= From(t)
        BY <1>1, <2>1, <4>1 DEF From, NoticesOf!Over
      <4>3. QED
        BY <1>1, <1>8, <2>1, <4>1, <4>2
    <3>2. T \in SUBSET S /\ \A x \in S \ T : x > noteNow
      BY <1>1, <2>1, <3>1
    <3>3. \A x \in S \ T : noteTexted[p][x] = 0
      BY <2>3, <3>2 DEF TextsSound
    <3>4. \A x \in S : noteTexted[p][x] \in Nat
      BY <1>1, <2>3
    <3> DEFINE f == noteTexted[p]
    <3> HIDE DEF f, S, T
    <3>5. Sum(f, S) = Sum(f, T)
      <4>1. (\A x \in S : f[x] \in Nat) /\ \A x \in S \ T : f[x] = 0
        BY <3>3, <3>4 DEF f
      <4>2. QED
        BY <2>3, <3>2, <4>1, SumOfRest
    <3>6. Sum(noteTexted[p], From(t)..noteNow) <= Told(noteQueue, p, From(t)) + noteUnmarked
      BY <3>1 DEF TextsSound
    <3>7. /\ Told(noteQueue, p, From(t)) <= Told(noteQueue, p, noteNow - Day)
          /\ Told(noteQueue, p, From(t)) \in Nat /\ Told(noteQueue, p, noteNow - Day) \in Nat
      <4>1. From(t) >= noteNow - Day /\ From(t) \in Int
        BY <1>1, <2>1, <3>1
      <4>2. Telling(noteQueue, p, From(t)) \subseteq Telling(noteQueue, p, noteNow - Day)
        <5>1. \A r \in DOMAIN noteQueue : noteQueue[r].smsAt \in Int
          BY <4>1, ToldType
        <5>2. QED
          BY <1>1, <4>1, <5>1 DEF Telling
      <4>3. /\ Told(noteQueue, p, From(t)) \in Nat /\ Told(noteQueue, p, noteNow - Day) \in Nat
            /\ IsFiniteSet(Telling(noteQueue, p, noteNow - Day))
            /\ \A r \in DOMAIN noteQueue : noteQueue[r].count \in Nat
        BY <1>1, <4>1, ToldType
      <4>4. \A r \in Telling(noteQueue, p, noteNow - Day) : Counts(noteQueue)[r] \in Nat
        BY <4>3 DEF Telling, Counts
      <4>5. Told(noteQueue, p, From(t)) <= Told(noteQueue, p, noteNow - Day)
        BY <4>2, <4>3, <4>4, SumOfPart DEF Told
      <4>6. QED
        BY <4>3, <4>5
    <3>8. c <= PoolSize[p] - Told(noteQueue, p, noteNow - Day)
      BY <1>3, <2>5
    <3>9. Sum(noteTexted[p], S) <= Told(noteQueue, p, noteNow - Day) + noteUnmarked
      BY <1>1, <2>4, <3>5, <3>6, <3>7 DEF f, T
    <3>10. Sum(noteTexted'[p], S) = Sum(noteTexted[p], S) + c
      BY <2>4, <2>5
    <3>11. Sum(noteTexted'[p], S) <= PoolSize[p] + noteUnmarked'
      BY <1>1, <1>2, <1>5, <2>1, <2>4, <3>7, <3>8, <3>9, <3>10
    <3>12. QED
      BY <3>11 DEF S
  <2>6. CASE ~(p = P /\ noteNow \in S /\ sent # {})
    <3>1. Sum(noteTexted'[p], S) = Sum(noteTexted[p], S)
      BY <1>2, <2>4, <2>6
    <3>2. QED
      BY <1>1, <1>5, <2>1, <2>2, <2>4, <3>1
  <2>7. QED
    BY <2>5, <2>6
<1>12. QED
  BY <1>5, <1>9, <1>10, <1>11 DEF TextsSound

LEMMA TextStep == ASSUME NoticesInv, NEW killed \in BOOLEAN, NoticesOf!FlushSms(killed) PROVE NoticesInv'
<1>1. NoticesTyped /\ MailsSound /\ TextsSound
  BY DEF NoticesInv
<1>2. PICK e, sent, marked, dropped : Texting(e, sent, marked, dropped)
  BY <1>1, SmsTurn
<1>3. /\ noteTurn' \in [done : Nat, failed : BOOLEAN]
      /\ noteTurn' = [done |-> 0, failed |-> FALSE] \/ noteTurn'.done < Len(Rules)
  BY <1>1, SmsTurn
<1>4. /\ noteJobs' = noteJobs /\ noteChannel' = noteChannel /\ noteNow' = noteNow
      /\ noteMailed' = noteMailed /\ noteUnheard' = noteUnheard
      /\ noteOwed' = noteOwed /\ noteMissed' = noteMissed
      /\ noteKills' = noteKills \/ noteKills' = noteKills + 1
  BY DEF NoticesOf!FlushSms, NoticesOf!settings, NoticesOf!Die
<1>5. Follows(noteQueue, noteQueue', noteNow) /\ DOMAIN noteQueue' = DOMAIN noteQueue
  BY <1>1, <1>2, TextedRows
<1>6. TextsSound' /\ noteTexted' \in [Pools -> [0..MaxTime -> Nat]] /\ noteUnmarked' \in Nat
  BY <1>1, <1>2, <1>4, TextsHandedOver
<1>7. NoticesTyped'
  BY <1>1, <1>3, <1>4, <1>5, <1>6 DEF NoticesTyped, Follows
<1>8. MailsSound'
  <2>1. noteKills' \in Nat /\ noteKills' >= noteKills /\ IsFiniteSet(noteJobs')
    BY <1>1, <1>4 DEF NoticesTyped
  <2>2. \A r \in 1..MaxRows : Cardinality(MailsOf(r)') <= Cardinality(MailsOf(r))
    BY <1>1, <1>4, JobsStay
  <2>3. QED
    BY <1>1, <1>4, <1>5, <2>1, <2>2, MailsStay
<1>9. QED
  BY <1>6, <1>7, <1>8 DEF NoticesInv

LEMMA NoticesRest == ASSUME NoticesInv, UNCHANGED noteVars PROVE NoticesInv'
<1>1. NoticesTyped
  BY DEF NoticesInv
<1>2. Follows(noteQueue, noteQueue, noteNow)
  BY <1>1, FollowsItself DEF NoticesTyped
<1>3. QED
  BY <1>1, <1>2, SendingStays, StillStep DEF noteVars

LEMMA NoticesMoves == ASSUME NoticesInv, NoticesOf!Next PROVE NoticesInv'
<1>1. ASSUME NEW e \in NoticesOf!Events, NEW killed \in BOOLEAN, NoticesOf!Flush(e, killed)
      PROVE  NoticesInv'
  BY <1>1, FlushKeeps, GroupStep, SinglesStep
<1>2. CASE \/ \E e \in NoticesOf!Events : NoticesOf!Happens(e)
           \/ \E c \in Causes : NoticesOf!Report(c)
           \/ NoticesOf!Disconnect \/ NoticesOf!Login
  BY <1>2, NoticeSteps
<1>3. CASE \/ \E mode \in {"off", "password", "m365"} : NoticesOf!SaveSmtp(mode)
           \/ \E on \in BOOLEAN, n \in 1..2 : NoticesOf!SaveSms(on, n)
           \/ \E e \in NoticesOf!Events : NoticesOf!SaveRule(e)
           \/ NoticesOf!KeyChanges \/ NoticesOf!SmsDone
  BY <1>3, FormSteps
<1>4. ASSUME NEW j \in noteJobs, NEW took \in BOOLEAN,
             NoticesOf!Retry(j, took) \/ NoticesOf!GiveUp(j, took) \/ NoticesOf!NoSmtp(j)
      PROVE  NoticesInv'
  <2>1. CASE took = FALSE
    BY <1>4, <2>1, MailSettles
  <2>2. CASE took = TRUE /\ ~NoticesOf!NoSmtp(j)
    BY <1>4, <2>2, MailAgain, MailGoes
  <2>3. CASE NoticesOf!NoSmtp(j)
    BY <2>3, MailSettles
  <2>4. QED
    BY <1>4, <2>1, <2>2, <2>3
<1>5. ASSUME NEW j \in noteJobs, NEW killed \in BOOLEAN, NoticesOf!Deliver(j, killed) PROVE NoticesInv'
  BY <1>5, MailGoes
<1>6. ASSUME NEW killed \in BOOLEAN, NoticesOf!FlushSms(killed) PROVE NoticesInv'
  BY <1>6, TextStep
<1>7. ASSUME NEW cut \in {"none", "row", "job"}, NoticesOf!DailySummary(cut) PROVE NoticesInv'
  BY <1>7, DailyStep
<1>8. QED
  BY <1>1, <1>2, <1>3, <1>4, <1>5, <1>6, <1>7, PruneStep, TickStep DEF NoticesOf!Next

-----------------------------------------------------------------------------
(* The results of packages. A set of numbers has a least one.              *)
LEMMA Least ==
  ASSUME NEW T, T \subseteq Nat, T # {}
  PROVE  \E x \in T : \A y \in T : x <= y
<1>1. \E x \in T : \A y \in T : ~(<<y, x>> \in OpToRel(<, Nat))
  BY NatLessThanWellFounded, WFMin
<1>2. PICK x \in T : \A y \in T : ~(<<y, x>> \in OpToRel(<, Nat))
  BY <1>1
<1>3. ASSUME NEW y \in T PROVE x <= y
  <2>1. ~(y < x)
    BY <1>2, <1>3 DEF OpToRel
  <2>2. QED
    BY <2>1
<1>4. QED
  BY <1>3

(* The tables after each of the rows of a file: there is such a sequence,  *)
(* and its last one is what the file leaves.                               *)
After(rows, rs, t, k) ==
  IF k = 0 THEN rows
  ELSE IF rs[k].reads THEN RowsOf!ApplyRow(t[k - 1], rs[k]) ELSE t[k - 1]

Tables(rows, rs, n, t) == t = [k \in 0..n |-> After(rows, rs, t, k)]

LEMMA TablesExist ==
  ASSUME NEW rows, NEW rs, NEW n \in Nat
  PROVE  \E t : Tables(rows, rs, n, t)
<1> DEFINE Bad == {m \in Nat : ~ \E t : Tables(rows, rs, m, t)}
<1> SUFFICES ASSUME Bad # {} PROVE FALSE
  OBVIOUS
<1>1. PICK m \in Bad : \A y \in Bad : m <= y
  BY Least
<1>2. m # 0
  <2> DEFINE t == [k \in 0..0 |-> rows]
  <2>1. Tables(rows, rs, 0, t)
    BY DEF Tables, After
  <2>2. QED
    BY <2>1
<1>3. m - 1 \in Nat /\ m - 1 \notin Bad
  BY <1>1, <1>2
<1>4. PICK t : Tables(rows, rs, m - 1, t)
  BY <1>3
<1> DEFINE u == [k \in 0..m |-> IF k = m THEN After(rows, rs, t, m) ELSE t[k]]
<1>5. ASSUME NEW k \in 0..m PROVE u[k] = After(rows, rs, u, k)
  <2>1. CASE k = m
    BY <2>1, <1>2, <1>3 DEF After
  <2>2. CASE k # m
    BY <2>2, <1>2, <1>3, <1>4 DEF After, Tables
  <2>3. QED
    BY <2>1, <2>2
<1>6. Tables(rows, rs, m, u)
  BY <1>5 DEF Tables
<1>7. QED
  BY <1>6

LEMMA AppliedIsLast ==
  ASSUME NEW rows, NEW rs, Len(rs) \in Nat
  PROVE  \E t : Tables(rows, rs, Len(rs), t) /\ RowsOf!Applied(rows, rs) = t[Len(rs)]
<1>1. PICK t : Tables(rows, rs, Len(rs), t)
  BY TablesExist
<1> DEFINE a == CHOOSE z : z = [k \in 0..Len(rs) |->
      IF k = 0 THEN rows
      ELSE IF rs[k].reads THEN RowsOf!ApplyRow(z[k - 1], rs[k]) ELSE z[k - 1]]
<1>2. t = [k \in 0..Len(rs) |->
      IF k = 0 THEN rows
      ELSE IF rs[k].reads THEN RowsOf!ApplyRow(t[k - 1], rs[k]) ELSE t[k - 1]]
  BY <1>1 DEF Tables, After
<1>3. a = [k \in 0..Len(rs) |->
      IF k = 0 THEN rows
      ELSE IF rs[k].reads THEN RowsOf!ApplyRow(a[k - 1], rs[k]) ELSE a[k - 1]]
  BY <1>2
<1>4. Tables(rows, rs, Len(rs), a)
  BY <1>3 DEF Tables, After
<1>5. RowsOf!Applied(rows, rs) = a[Len(rs)]
  BY DEF RowsOf!Applied
<1>6. QED
  BY <1>4, <1>5

-----------------------------------------------------------------------------
(* The columns of a file are found: what the code takes for the number,    *)
(* the identifier, the status and the client is that.                      *)
LEMMA LeastIsIn ==
  ASSUME NEW T, T \subseteq Nat, T # {}
  PROVE  RowsOf!Min(T) \in T
<1>1. \E x \in T : \A y \in T : x <= y
  BY Least
<1>2. QED
  BY <1>1 DEF RowsOf!Min

LEMMA FirstOf ==
  ASSUME NEW I, I \subseteq Nat, NEW k, k = IF I # {} THEN RowsOf!Min(I) ELSE 0
  PROVE  IF I = {} THEN k = 0 ELSE k \in I
BY LeastIsIn

LEMMA PlacesFound ==
  ASSUME NEW columns \in Seq([is : STRING, says : SUBSET STRING])
  PROVE  LET p      == RowsOf!Places(columns)
             Say(w) == RowsOf!Says(columns, w)
             Klient == IF Say("klient") # {} THEN Say("klient") ELSE Say("ident") \ Say("id")
         IN /\ IF Say("id") = {} THEN p.id = 0 ELSE p.id \in Say("id")
            /\ IF Say("numer") = {} THEN p.dest = 0 ELSE p.dest \in Say("numer")
            /\ IF Say("status") \ Say("data") = {} THEN p.status = 0
               ELSE p.status \in Say("status") \ Say("data")
            /\ IF Klient = {} THEN p.client = 0 ELSE p.client \in Klient
<1> DEFINE D    == 1..Len(columns)
           W(w) == {i \in D : w \in columns[i].says}
           St   == {i \in D : "status" \in columns[i].says /\ "data" \notin columns[i].says}
           Ow   == {i \in D : "ident" \in columns[i].says /\ "id" \notin columns[i].says}
           F(I) == IF I # {} THEN RowsOf!Min(I) ELSE 0
           p    == RowsOf!Places(columns)
<1>1. D = DOMAIN columns /\ D \subseteq Nat
  OBVIOUS
<1>2. /\ p.id = F(W("id")) /\ p.dest = F(W("numer")) /\ p.status = F(St)
      /\ p.client = IF F(W("klient")) # 0 THEN F(W("klient")) ELSE F(Ow)
  BY DEF RowsOf!Places, RowsOf!SelectInSeq, RowsOf!IsStatus
<1>3. /\ W("id") = RowsOf!Says(columns, "id") /\ W("numer") = RowsOf!Says(columns, "numer")
      /\ W("klient") = RowsOf!Says(columns, "klient")
      /\ St = RowsOf!Says(columns, "status") \ RowsOf!Says(columns, "data")
      /\ Ow = RowsOf!Says(columns, "ident") \ RowsOf!Says(columns, "id")
  BY <1>1 DEF RowsOf!Says
<1>4. /\ W("id") \subseteq Nat \ {0} /\ W("numer") \subseteq Nat \ {0} /\ St \subseteq Nat \ {0}
      /\ W("klient") \subseteq Nat \ {0} /\ Ow \subseteq Nat \ {0}
  BY <1>1
<1> HIDE DEF D, W, St, Ow, p
<1>5. ASSUME NEW I, I \subseteq Nat \ {0} PROVE IF I = {} THEN F(I) = 0 ELSE F(I) \in I
  BY <1>5, FirstOf
<1>6. /\ IF W("id") = {} THEN p.id = 0 ELSE p.id \in W("id")
      /\ IF W("numer") = {} THEN p.dest = 0 ELSE p.dest \in W("numer")
      /\ IF St = {} THEN p.status = 0 ELSE p.status \in St
  BY <1>2, <1>4, <1>5
<1>7. CASE W("klient") # {}
  <2>1. F(W("klient")) \in W("klient")
    BY <1>4, <1>5, <1>7
  <2>2. p.client \in W("klient")
    BY <1>2, <1>4, <2>1
  <2>3. QED
    BY <1>3, <1>6, <1>7, <2>2 DEF p
<1>8. CASE W("klient") = {}
  <2>1. F(W("klient")) = 0
    BY <1>4, <1>5, <1>8
  <2>2. IF Ow = {} THEN p.client = 0 ELSE p.client \in Ow
    BY <1>2, <1>4, <1>5, <2>1
  <2>3. QED
    BY <1>3, <1>6, <1>8, <2>2 DEF p
<1>9. QED
  BY <1>7, <1>8

LEMMA PlacesRight ==
  ASSUME NEW f \in Formats
  PROVE  LET p     == RowsOf!PlacesOf(f)
             Is(w) == RowsOf!Are(f.columns, w)
         IN /\ p.id \in Is("id") /\ p.dest \in Is("dest") /\ p.status \in Is("status")
            /\ Is("client") # {} => p.client \in Is("client")
<1> DEFINE q == RowsOf!Places(f.columns)
<1>1. f.columns \in Seq([is : STRING, says : SUBSET STRING])
  BY RowsAssumption
<1>2. LET Say(w) == RowsOf!Says(f.columns, w)
          Klient == IF Say("klient") # {} THEN Say("klient") ELSE Say("ident") \ Say("id")
      IN /\ IF Say("id") = {} THEN q.id = 0 ELSE q.id \in Say("id")
         /\ IF Say("numer") = {} THEN q.dest = 0 ELSE q.dest \in Say("numer")
         /\ IF Say("status") \ Say("data") = {} THEN q.status = 0
            ELSE q.status \in Say("status") \ Say("data")
         /\ IF Klient = {} THEN q.client = 0 ELSE q.client \in Klient
  BY <1>1, PlacesFound
<1> HIDE DEF q
<1>3. RowsOf!PlacesOf(f) =
        IF f.titled /\ 0 \notin {q.id, q.dest, q.status} THEN q ELSE RowsOf!Positions
  BY DEF RowsOf!PlacesOf, q
<1>4. CASE RowsOf!TitlesTell(f)
  <2>1. /\ q.id \in RowsOf!Are(f.columns, "id") /\ q.dest \in RowsOf!Are(f.columns, "dest")
        /\ q.status \in RowsOf!Are(f.columns, "status")
        /\ RowsOf!Are(f.columns, "client") # {} => q.client \in RowsOf!Are(f.columns, "client")
    BY <1>2, <1>4 DEF RowsOf!TitlesTell
  <2>2. \A w : 0 \notin RowsOf!Are(f.columns, w)
    BY <1>1 DEF RowsOf!Are
  <2>3. f.titled /\ 0 \notin {q.id, q.dest, q.status}
    BY <1>4, <2>1, <2>2 DEF RowsOf!TitlesTell
  <2>4. QED
    BY <1>3, <2>1, <2>3
<1>5. CASE RowsOf!AsTheManual(f)
  <2>1. ~(f.titled /\ 0 \notin {q.id, q.dest, q.status})
    BY <1>2, <1>5 DEF RowsOf!AsTheManual
  <2>2. RowsOf!PlacesOf(f) = RowsOf!Positions
    BY <1>3, <2>1
  <2>3. QED
    BY <1>5, <2>2 DEF RowsOf!AsTheManual, RowsOf!Positions
<1>6. QED
  BY <1>4, <1>5, RowsAssumption

(* Every row of a file reads, and is that of the recipient it is about; it *)
(* names the client when the file has a column of the clients.             *)
HasClients(f) == RowsOf!Are(f.columns, "client") # {}
Result(file)  == [i \in DOMAIN rowsList |-> RowsOf!StatusOf(file.format, file.truth[i])]

LEMMA RowIsOfRecipient ==
  ASSUME NEW file, file.format \in Formats, NEW i \in DOMAIN rowsList
  PROVE  LET r == RowsOf!RowOf(file, i)
         IN /\ r.reads /\ r.id = i /\ r.dest = rowsList[i].dest /\ r.status = Result(file)[i]
            /\ r.client = IF HasClients(file.format) THEN rowsList[i].client ELSE RowsOf!NoClient
<1> DEFINE p == RowsOf!PlacesOf(file.format)
           c == file.format.columns
           r == RowsOf!RowOf(file, i)
<1>1. /\ p.id \in DOMAIN c /\ c[p.id].is = "id"
      /\ p.dest \in DOMAIN c /\ c[p.dest].is = "dest"
      /\ p.status \in DOMAIN c /\ c[p.status].is = "status"
      /\ HasClients(file.format) => p.client \in DOMAIN c /\ c[p.client].is = "client"
      /\ ~HasClients(file.format) => \A k \in DOMAIN c : c[k].is # "client"
  BY PlacesRight DEF RowsOf!Are, HasClients
<1> HIDE DEF p
<1>2. RowsOf!Cell(file, i, p.id) = <<"digits", i>>
  BY <1>1 DEF RowsOf!Cell
<1>3. RowsOf!Cell(file, i, p.dest) = <<"digits", rowsList[i].dest>>
  BY <1>1 DEF RowsOf!Cell
<1>4. RowsOf!Cell(file, i, p.status) =
        <<IF file.format.words THEN "word" ELSE "digits", file.truth[i]>>
  BY <1>1 DEF RowsOf!Cell
<1>8. r.reads /\ r.id = i /\ r.dest = rowsList[i].dest
  <2>1. /\ RowsOf!Cell(file, i, p.id)[1] = "digits" /\ RowsOf!Cell(file, i, p.id)[2] = i
        /\ RowsOf!Cell(file, i, p.dest)[1] = "digits"
        /\ RowsOf!Cell(file, i, p.dest)[2] = rowsList[i].dest
    BY <1>2, <1>3
  <2>2. /\ r.reads <=> /\ RowsOf!Cell(file, i, p.id)[1] = "digits"
                      /\ RowsOf!Cell(file, i, p.dest)[1] = "digits"
        /\ r.id = RowsOf!Cell(file, i, p.id)[2]
        /\ r.dest = RowsOf!Cell(file, i, p.dest)[2]
    BY Zenon DEF RowsOf!RowOf, p
  <2>3. QED
    BY <2>1, <2>2
<1>9. r.status = Result(file)[i]
  <2>1. RowsOf!Cell(file, i, p.status)[1] \in {"digits", "word"}
    BY <1>4
  <2>2. RowsOf!Cell(file, i, p.status)[2] = file.truth[i]
    BY <1>4
  <2>3. r.status = RowsOf!StatusOf(file.format, file.truth[i])
    BY <2>1, <2>2 DEF RowsOf!RowOf, p
  <2>4. QED
    BY <2>3 DEF Result
<1>5. CASE HasClients(file.format)
  <2>1. RowsOf!Cell(file, i, p.client) =
          IF rowsList[i].client # RowsOf!NoClient THEN <<"client", i>> ELSE <<"blank", 0>>
    BY <1>1, <1>5 DEF RowsOf!Cell
  <2>2. r.client = rowsList[i].client
    BY <2>1 DEF RowsOf!RowOf, p
  <2>3. QED
    BY <1>5, <1>8, <1>9, <2>2
<1>6. CASE ~HasClients(file.format)
  <2>1. RowsOf!Cell(file, i, p.client)[1] # "client"
    <3>1. CASE p.client \notin DOMAIN c
      BY <3>1 DEF RowsOf!Cell
    <3>2. CASE p.client \in DOMAIN c
      <4>1. c[p.client].is # "client"
        BY <1>1, <1>6, <3>2
      <4>2. RowsOf!Cell(file, i, p.client) \in
              {<<"digits", i>>, <<"digits", rowsList[i].dest>>, <<"word", file.truth[i]>>,
               <<"digits", file.truth[i]>>, <<"blank", 0>>}
        BY <3>2, <4>1 DEF RowsOf!Cell
      <4>3. QED
        BY <4>2
    <3>3. QED
      BY <3>1, <3>2
  <2>2. r.client = RowsOf!NoClient
    BY <2>1 DEF RowsOf!RowOf, p
  <2>3. QED
    BY <1>6, <1>8, <1>9, <2>2
<1>7. QED
  BY <1>5, <1>6

LEMMA ResultIsStatus ==
  ASSUME NEW file
  PROVE  /\ Result(file) \in [DOMAIN rowsList -> RowsOf!S!GatewayStatus]
         /\ RowsOf!NoResult \notin RowsOf!S!GatewayStatus
<1>1. ASSUME NEW f, NEW c PROVE RowsOf!StatusOf(f, c) \in RowsOf!S!GatewayStatus
  BY DEF RowsOf!StatusOf, RowsOf!S!MapStatus, RowsOf!S!GatewayStatus
<1>2. QED
  BY <1>1 DEF Result, RowsOf!S!GatewayStatus, RowsOf!NoResult

(* The tables after the rows of a file, one by one.                        *)
ListSound == rowsList \in Seq([dest : Int, client : STRING])
Recipients == DOMAIN rowsList
Written == [id : {RowsOf!NoId} \cup Recipients, status : {RowsOf!NoResult} \cup RowsOf!S!GatewayStatus]
SoundFile(file) == file.format \in Formats /\ file.order \in RowsOf!Orders
Got(file, i) == [id |-> i, status |-> Result(file)[i]]

TablesOf(file, rows, t) ==
  /\ t[0] = rows
  /\ \A m \in 1..Len(rowsList) : t[m] = RowsOf!ApplyRow(t[m - 1], RowsOf!RowOf(file, file.order[m]))

LEMMA RecipientsAre ==
  ASSUME ListSound
  PROVE  /\ Len(rowsList) \in Nat /\ Recipients = 1..Len(rowsList)
         /\ IsFiniteSet(Recipients)
         /\ \A i \in Recipients : rowsList[i] \in [dest : Int, client : STRING]
<1> DEFINE R == [dest : Int, client : STRING]
<1>1. rowsList \in Seq(R)
  BY DEF ListSound
<1> HIDE DEF R
<1>2. Len(rowsList) \in Nat /\ Recipients = 1..Len(rowsList)
  BY <1>1 DEF Recipients
<1>3. IsFiniteSet(1..Len(rowsList))
  BY <1>2, FS_Interval
<1>4. \A i \in 1..Len(rowsList) : rowsList[i] \in R
  BY <1>1
<1>5. QED
  BY <1>2, <1>3, <1>4 DEF R

LEMMA FileIsApplied ==
  ASSUME ListSound, NEW file, SoundFile(file), NEW rows
  PROVE  \E t : /\ TablesOf(file, rows, t)
                /\ RowsOf!Applied(rows, RowsOf!RowsOf(file)) = t[Len(rowsList)]
<1> DEFINE rs == RowsOf!RowsOf(file)
           N  == Len(rowsList)
<1>1. N \in Nat /\ DOMAIN file.order = 1..N
  BY RecipientsAre DEF SoundFile, RowsOf!Orders, Recipients
<1>2. rs = [k \in 1..N |-> RowsOf!RowOf(file, file.order[k])]
  BY <1>1 DEF RowsOf!RowsOf
<1>3. Len(rs) = N
  BY <1>1, <1>2
<1>4. \A k \in 1..N : file.order[k] \in DOMAIN rowsList
  BY <1>1 DEF SoundFile, RowsOf!Orders
<1> HIDE DEF rs, N
<1>5. \A k \in 1..N : rs[k].reads
  BY <1>2, <1>4, RowIsOfRecipient DEF SoundFile
<1>6. PICK t : Tables(rows, rs, N, t) /\ RowsOf!Applied(rows, rs) = t[N]
  BY <1>1, <1>3, AppliedIsLast
<1>7. \A k \in 0..N : t[k] = After(rows, rs, t, k)
  BY <1>6 DEF Tables
<1>8. t[0] = rows
  BY <1>1, <1>7 DEF After
<1>9. ASSUME NEW m \in 1..N PROVE t[m] = RowsOf!ApplyRow(t[m - 1], RowsOf!RowOf(file, file.order[m]))
  BY <1>1, <1>2, <1>5, <1>7 DEF After
<1>10. QED
  BY <1>6, <1>8, <1>9 DEF TablesOf, rs, N

(* Whatever the recipients, every table is one.                            *)
LEMMA TablesAreTyped ==
  ASSUME ListSound, NEW file, SoundFile(file), NEW rows \in [Recipients -> Written],
         NEW t, TablesOf(file, rows, t), NEW m \in 0..Len(rowsList)
  PROVE  t[m] \in [Recipients -> Written]
<1> DEFINE N   == Len(rowsList)
           Bad == {k \in Nat : k <= N /\ t[k] \notin [Recipients -> Written]}
<1>1. N \in Nat
  BY RecipientsAre
<1> SUFFICES ASSUME Bad # {} PROVE FALSE
  BY <1>1
<1>2. PICK k \in Bad : \A y \in Bad : k <= y
  BY Least
<1>3. k # 0
  BY <1>2 DEF TablesOf
<1>4. t[k - 1] \in [Recipients -> Written]
  BY <1>1, <1>2, <1>3
<1>5. file.order[k] \in Recipients /\ k \in 1..N
  BY <1>1, <1>2, <1>3, RecipientsAre DEF SoundFile, RowsOf!Orders, Recipients
<1> DEFINE r == RowsOf!RowOf(file, file.order[k])
<1>6. r.id \in Recipients /\ r.status \in RowsOf!S!GatewayStatus
  BY <1>5, RowIsOfRecipient, ResultIsStatus DEF SoundFile, Recipients
<1> HIDE DEF r
<1>7. [id |-> r.id, status |-> r.status] \in Written
  BY <1>6 DEF Written
<1>8. RowsOf!ApplyRow(t[k - 1], r) \in [Recipients -> Written]
  BY <1>4, <1>7 DEF RowsOf!ApplyRow
<1>9. t[k] = RowsOf!ApplyRow(t[k - 1], r)
  BY <1>5 DEF TablesOf, r
<1>10. QED
  BY <1>2, <1>8, <1>9

(* A file that names the clients: each row goes to its recipient alone.    *)
LEMMA NamedTarget ==
  ASSUME ListSound, RowsOf!Distinct, NEW file, file.format \in Formats, HasClients(file.format),
         NEW i \in Recipients, NEW rows
  PROVE  RowsOf!Targets(rows, RowsOf!RowOf(file, i)) = {i}
<1> DEFINE r == RowsOf!RowOf(file, i)
           same == {k \in {l \in DOMAIN rowsList : rowsList[l].dest = r.dest} :
                      rowsList[k].client = r.client}
<1>1. r.dest = rowsList[i].dest /\ r.client = rowsList[i].client
  BY RowIsOfRecipient DEF Recipients
<1> HIDE DEF r
<1>2. ASSUME NEW k \in same PROVE k = i
  <2>1. k \in Recipients /\ rowsList[k].dest = rowsList[i].dest /\ rowsList[k].client = rowsList[i].client
    BY <1>1, <1>2 DEF Recipients
  <2>2. rowsList[k] = rowsList[i]
    BY <2>1, RecipientsAre
  <2>3. QED
    BY <2>1, <2>2 DEF RowsOf!Distinct, Recipients
<1>3. same = {i}
  BY <1>1, <1>2 DEF Recipients
<1>4. QED
  BY <1>3 DEF RowsOf!Targets, r

LEMMA NamedFile ==
  ASSUME ListSound, RowsOf!Distinct, NEW file, SoundFile(file), HasClients(file.format),
         NEW rows \in [Recipients -> Written], NEW t, TablesOf(file, rows, t),
         NEW m \in 0..Len(rowsList)
  PROVE  \A a \in 1..m : t[m][file.order[a]] = Got(file, file.order[a])
<1> DEFINE N     == Len(rowsList)
           o     == file.order
           Ok(k) == \A a \in 1..k : t[k][o[a]] = Got(file, o[a])
           Bad   == {k \in Nat : k <= N /\ ~Ok(k)}
<1>1. N \in Nat
  BY RecipientsAre
<1> SUFFICES ASSUME Bad # {} PROVE FALSE
  BY <1>1
<1>2. PICK k \in Bad : \A y \in Bad : k <= y
  BY Least
<1>3. k # 0
  BY <1>2
<1>4. k \in 1..N /\ k - 1 \in 0..N /\ Ok(k - 1)
  BY <1>1, <1>2, <1>3
<1>5. /\ \A a \in 1..N : o[a] \in Recipients
      /\ \A a, b \in 1..N : o[a] = o[b] => a = b
  BY RecipientsAre DEF SoundFile, RowsOf!Orders, Recipients
<1>6. t[k - 1] \in [Recipients -> Written]
  BY <1>4, TablesAreTyped
<1> DEFINE r == RowsOf!RowOf(file, o[k])
<1>7. [id |-> r.id, status |-> r.status] = Got(file, o[k])
  BY <1>4, <1>5, RowIsOfRecipient DEF Got, SoundFile, Recipients
<1>8. RowsOf!Targets(t[k - 1], r) = {o[k]}
  BY <1>4, <1>5, NamedTarget DEF SoundFile
<1>9. t[k] = RowsOf!ApplyRow(t[k - 1], r)
  BY <1>4 DEF TablesOf
<1> HIDE DEF r, o
<1>10. t[k] = [i \in Recipients |-> IF i = o[k] THEN Got(file, o[k]) ELSE t[k - 1][i]]
  BY <1>6, <1>7, <1>8, <1>9 DEF RowsOf!ApplyRow
<1>11. ASSUME NEW a \in 1..k PROVE t[k][o[a]] = Got(file, o[a])
  <2>1. CASE a = k
    BY <1>4, <1>5, <1>10, <2>1
  <2>2. CASE a # k
    <3>1. a \in 1..(k - 1) /\ a \in 1..N
      BY <1>1, <1>4, <2>2
    <3>2. t[k - 1][o[a]] = Got(file, o[a]) /\ o[a] # o[k] /\ o[a] \in Recipients
      BY <1>4, <1>5, <2>2, <3>1
    <3>3. QED
      BY <1>10, <3>2
  <2>3. QED
    BY <2>1, <2>2
<1>12. QED
  BY <1>2, <1>11

(* A first file without the clients, when no two recipients are twins and  *)
(* no number is mixed: each row finds a recipient of its number that has   *)
(* none yet.                                                               *)
Paired(file, rows, m) ==
  /\ \A k \in Recipients :
       \/ rows[k] = RowsOf!Nothing
       \/ \E a \in 1..m : /\ rows[k] = Got(file, file.order[a])
                          /\ rowsList[file.order[a]].dest = rowsList[k].dest
  /\ \A k, l \in Recipients : rows[k].id = rows[l].id /\ rows[k].id # RowsOf!NoId => k = l
  /\ \A a \in 1..m : \E k \in Recipients : rows[k].id = file.order[a]

OfNumber(i) == {k \in Recipients : rowsList[k].dest = rowsList[i].dest}

LEMMA OrderIsOne ==
  ASSUME ListSound, NEW file, SoundFile(file)
  PROVE  /\ Len(rowsList) \in Nat /\ 0 \notin Recipients /\ Recipients \subseteq Nat
         /\ \A a \in 1..Len(rowsList) : file.order[a] \in Recipients
         /\ \A a, b \in 1..Len(rowsList) : file.order[a] = file.order[b] => a = b
BY RecipientsAre DEF SoundFile, RowsOf!Orders, Recipients

LEMMA UsedByEarlier ==
  ASSUME ListSound, NEW file, SoundFile(file), NEW rows, NEW m \in 1..Len(rowsList),
         Paired(file, rows, m - 1), NEW k \in Recipients, rows[k].id # RowsOf!NoId
  PROVE  /\ rows[k].id \in OfNumber(k) /\ rows[k].id # file.order[m]
<1>1. rows[k] # RowsOf!Nothing
  BY DEF RowsOf!Nothing
<1>2. PICK a \in 1..(m - 1) : /\ rows[k] = Got(file, file.order[a])
                              /\ rowsList[file.order[a]].dest = rowsList[k].dest
  BY <1>1 DEF Paired
<1>3. rows[k].id = file.order[a]
  BY <1>2 DEF Got
<1>4. a \in 1..Len(rowsList) /\ a # m
  BY OrderIsOne
<1>5. QED
  BY <1>2, <1>3, <1>4, OrderIsOne DEF OfNumber

LEMMA OneIsFree ==
  ASSUME ListSound, NEW file, SoundFile(file), NEW rows, NEW m \in 1..Len(rowsList),
         Paired(file, rows, m - 1)
  PROVE  \E k \in OfNumber(file.order[m]) : rows[k].id = RowsOf!NoId
<1> DEFINE i == file.order[m]
           M == OfNumber(i)
           f == [k \in M |-> rows[k].id]
<1> SUFFICES ASSUME \A k \in M : rows[k].id # RowsOf!NoId PROVE FALSE
  OBVIOUS
<1>1. i \in Recipients /\ i \in M /\ M \subseteq Recipients
  BY OrderIsOne DEF OfNumber
<1>2. IsFiniteSet(M)
  BY <1>1, RecipientsAre, FS_Subset
<1>3. ASSUME NEW k \in M PROVE f[k] \in M \ {i}
  <2>1. rows[k].id \in OfNumber(k) /\ rows[k].id # i
    BY <1>1, UsedByEarlier
  <2>2. OfNumber(k) = M
    BY DEF OfNumber
  <2>3. QED
    BY <2>1, <2>2
<1>4. \A k, l \in M : f[k] = f[l] => k = l
  BY <1>1 DEF Paired
<1> HIDE DEF i, M
<1>5. f \in Injection(M, M \ {i})
  BY <1>3, <1>4 DEF Injection, IsInjective
<1>6. /\ IsFiniteSet(M \ {i}) /\ Cardinality(M \ {i}) = Cardinality(M) - 1
  BY <1>1, <1>2, FS_RemoveElement
<1> HIDE DEF f
<1>7. Cardinality(M) <= Cardinality(M \ {i})
  BY <1>5, <1>6, FS_Injection
<1>8. Cardinality(M) \in Nat
  BY <1>2, FS_CardinalityType
<1>9. QED
  BY <1>6, <1>7, <1>8

LEMMA FreeTarget ==
  ASSUME ListSound, RowsOf!Distinct, ~RowsOf!Mixed, NEW file, SoundFile(file),
         ~HasClients(file.format), NEW rows, NEW m \in 1..Len(rowsList),
         Paired(file, rows, m - 1)
  PROVE  \E k \in OfNumber(file.order[m]) :
           /\ rows[k].id = RowsOf!NoId
           /\ RowsOf!Targets(rows, RowsOf!RowOf(file, file.order[m])) = {k}
<1> DEFINE i    == file.order[m]
           M    == OfNumber(i)
           r    == RowsOf!RowOf(file, i)
           same == {k \in M : rowsList[k].client = r.client}
           free == {k \in M : rows[k].id = RowsOf!NoId}
<1>1. i \in Recipients /\ i \in M /\ M \subseteq Recipients /\ Recipients \subseteq Nat
  BY OrderIsOne DEF OfNumber
<1>2. r.dest = rowsList[i].dest /\ r.client = RowsOf!NoClient
  BY <1>1, RowIsOfRecipient DEF SoundFile, Recipients
<1>3. free # {} /\ free \subseteq Nat
  BY <1>1, OneIsFree
<1>4. {l \in DOMAIN rowsList : rowsList[l].dest = r.dest} = M
  BY <1>2 DEF OfNumber, Recipients
<1>5. RowsOf!Targets(rows, r) = IF same # {} THEN same ELSE {k \in free : \A l \in free : k <= l}
  BY <1>2, <1>4 DEF RowsOf!Targets, RowsOf!FirstUnmatched
<1> HIDE DEF i, r
<1>6. CASE same # {}
  <2>1. \A k \in M : rowsList[k].client = RowsOf!NoClient
    BY <1>1, <1>2, <1>6 DEF RowsOf!Mixed, OfNumber, Recipients
  <2>2. ASSUME NEW k \in M PROVE k = i
    <3>1. k \in Recipients /\ rowsList[k].dest = rowsList[i].dest /\ rowsList[k].client = rowsList[i].client
      BY <1>1, <2>1, <2>2 DEF OfNumber
    <3>2. rowsList[k] = rowsList[i]
      BY <1>1, <3>1, RecipientsAre
    <3>3. QED
      BY <1>1, <3>1, <3>2 DEF RowsOf!Distinct, Recipients
  <2>3. M = {i} /\ same = {i} /\ free = {i}
    BY <1>1, <1>2, <1>3, <2>1, <2>2
  <2>4. QED
    BY <1>1, <1>5, <2>3 DEF i, r
<1>7. CASE same = {}
  <2> HIDE DEF free
  <2>1. PICK k \in free : \A l \in free : k <= l
    BY <1>3, Least
  <2>2. ASSUME NEW l \in free, \A n \in free : l <= n PROVE l = k
    <3>1. l <= k /\ k <= l /\ l \in Nat /\ k \in Nat
      BY <1>3, <2>1, <2>2
    <3>2. QED
      BY <3>1
  <2>3. {l \in free : \A n \in free : l <= n} = {k}
    BY <2>1, <2>2
  <2>4. QED
    BY <1>5, <1>7, <2>1, <2>3 DEF free, i, r
<1>8. QED
  BY <1>6, <1>7

LEMMA PairedStep ==
  ASSUME ListSound, RowsOf!Distinct, ~RowsOf!Mixed, NEW file, SoundFile(file),
         ~HasClients(file.format), NEW rows \in [Recipients -> Written], NEW m \in 1..Len(rowsList),
         Paired(file, rows, m - 1)
  PROVE  Paired(file, RowsOf!ApplyRow(rows, RowsOf!RowOf(file, file.order[m])), m)
<1> DEFINE i    == file.order[m]
           r    == RowsOf!RowOf(file, i)
           next == RowsOf!ApplyRow(rows, r)
<1>1. i \in Recipients
  BY OrderIsOne
<1>2. PICK k \in OfNumber(i) : rows[k].id = RowsOf!NoId /\ RowsOf!Targets(rows, r) = {k}
  BY FreeTarget
<1>3. k \in Recipients /\ rowsList[i].dest = rowsList[k].dest
  BY <1>2 DEF OfNumber
<1>4. [id |-> r.id, status |-> r.status] = Got(file, i)
  BY <1>1, RowIsOfRecipient DEF Got, SoundFile, Recipients
<1>5. next = [l \in Recipients |-> IF l = k THEN Got(file, i) ELSE rows[l]]
  BY <1>2, <1>4 DEF RowsOf!ApplyRow
<1>6. i # RowsOf!NoId
  BY <1>1, OrderIsOne DEF RowsOf!NoId
<1>7. Got(file, i).id = i
  BY DEF Got
<1>8. m \in Nat /\ m - 1 \in Nat /\ \A a \in 1..m : a = m \/ a \in 1..(m - 1)
  BY OrderIsOne
<1> HIDE DEF next, r
<1>9. ASSUME NEW l \in Recipients
      PROVE  \/ next[l] = RowsOf!Nothing
             \/ \E a \in 1..m : /\ next[l] = Got(file, file.order[a])
                                /\ rowsList[file.order[a]].dest = rowsList[l].dest
  <2>1. CASE l = k
    BY <1>3, <1>5, <1>8, <2>1
  <2>2. CASE l # k
    BY <1>5, <1>8, <2>2 DEF Paired
  <2>3. QED
    BY <2>1, <2>2
<1>10. ASSUME NEW l \in Recipients, NEW n \in Recipients,
              next[l].id = next[n].id, next[l].id # RowsOf!NoId
       PROVE  l = n
  <2>1. \A j \in Recipients : rows[j].id # RowsOf!NoId => rows[j].id # i
    BY UsedByEarlier
  <2> HIDE DEF i
  <2>2. CASE l = k
    BY <1>5, <1>6, <1>7, <1>10, <2>1, <2>2
  <2>3. CASE n = k
    BY <1>5, <1>6, <1>7, <1>10, <2>1, <2>3
  <2>4. CASE l # k /\ n # k
    BY <1>5, <1>10, <2>4 DEF Paired
  <2>5. QED
    BY <2>2, <2>3, <2>4
<1>11. ASSUME NEW a \in 1..m PROVE \E l \in Recipients : next[l].id = file.order[a]
  <2>1. CASE a = m
    BY <1>3, <1>5, <1>7, <2>1
  <2>2. CASE a # m
    <3>1. PICK l \in Recipients : rows[l].id = file.order[a]
      BY <1>8, <1>11, <2>2 DEF Paired
    <3>2. l # k
      <4>1. file.order[a] \in Recipients
        BY OrderIsOne
      <4>2. QED
        BY <1>2, <3>1, <4>1, OrderIsOne DEF RowsOf!NoId
    <3>3. QED
      BY <1>5, <3>1, <3>2
  <2>3. QED
    BY <2>1, <2>2
<1>12. QED
  BY <1>9, <1>10, <1>11 DEF Paired, next, r

LEMMA Permutes ==
  ASSUME NEW D, IsFiniteSet(D), NEW p \in [D -> D], \A i, k \in D : p[i] = p[k] => i = k
  PROVE  \A i \in D : \E k \in D : p[k] = i
<1>1. p \in Injection(D, D)
  BY DEF Injection, IsInjective
<1>2. p \in Surjection(D, D)
  BY <1>1, FS_Injection
<1>3. QED
  BY <1>2 DEF Surjection

LEMMA SameCount ==
  ASSUME NEW D, IsFiniteSet(D), NEW p \in [D -> D], \A i, k \in D : p[i] = p[k] => i = k,
         NEW A, A \subseteq D, NEW B, B \subseteq D, \A k \in D : k \in A <=> p[k] \in B
  PROVE  RowsOf!Cardinality(A) = RowsOf!Cardinality(B)
<1> DEFINE f == [k \in A |-> p[k]]
<1>1. \A i \in D : \E k \in D : p[k] = i
  BY Permutes
<1>2. f \in Injection(A, B)
  BY DEF Injection, IsInjective
<1>3. f \in Surjection(A, B)
  BY <1>1 DEF Surjection
<1>4. ExistsBijection(A, B)
  BY <1>2, <1>3 DEF ExistsBijection, Bijection
<1>5. IsFiniteSet(A)
  BY FS_Subset
<1>6. Cardinality(B) = Cardinality(A)
  BY <1>4, <1>5, FS_Bijection
<1>7. \A S : RowsOf!Cardinality(S) = Cardinality(S)
  BY Zenon DEF RowsOf!Cardinality, Cardinality
<1>8. QED
  BY <1>6, <1>7

MatchedBy(rows, statuses) ==
  /\ \A i \in Recipients : rows[i].id \in Recipients /\ rows[i].status = statuses[rows[i].id]
  /\ \A i, k \in Recipients : rows[i].id = rows[k].id => i = k

LEMMA OrderReaches ==
  ASSUME ListSound, NEW file, SoundFile(file), NEW i \in Recipients
  PROVE  \E a \in 1..Len(rowsList) : file.order[a] = i
<1> DEFINE o == file.order
<1>1. o \in [Recipients -> Recipients] /\ \A a, b \in Recipients : o[a] = o[b] => a = b
  BY DEF SoundFile, RowsOf!Orders, Recipients
<1>2. IsFiniteSet(Recipients)
  BY RecipientsAre
<1> HIDE DEF o
<1>3. \A j \in Recipients : \E a \in Recipients : o[a] = j
  BY <1>1, <1>2, Permutes
<1>4. QED
  BY <1>3, RecipientsAre DEF o

(* What a file with the clients leaves: each recipient has what is his.    *)
LEMMA NamedApplied ==
  ASSUME ListSound, RowsOf!Distinct, NEW file, SoundFile(file), HasClients(file.format),
         NEW rows \in [Recipients -> Written], NEW i \in Recipients
  PROVE  RowsOf!Applied(rows, RowsOf!RowsOf(file))[i] = Got(file, i)
<1>1. PICK t : /\ TablesOf(file, rows, t)
               /\ RowsOf!Applied(rows, RowsOf!RowsOf(file)) = t[Len(rowsList)]
  BY FileIsApplied
<1>2. PICK a \in 1..Len(rowsList) : file.order[a] = i
  BY OrderReaches
<1>3. Len(rowsList) \in 0..Len(rowsList)
  BY RecipientsAre
<1>4. QED
  BY <1>1, <1>2, <1>3, NamedFile

LEMMA UnnamedApplied ==
  ASSUME ListSound, RowsOf!Distinct, ~RowsOf!Mixed, NEW file, SoundFile(file),
         ~HasClients(file.format),
         NEW rows \in [Recipients -> Written], \A i \in Recipients : rows[i] = RowsOf!Nothing
  PROVE  MatchedBy(RowsOf!Applied(rows, RowsOf!RowsOf(file)), Result(file))
<1> DEFINE N   == Len(rowsList)
           new == RowsOf!Applied(rows, RowsOf!RowsOf(file))
<1>1. PICK t : TablesOf(file, rows, t) /\ new = t[N]
  BY FileIsApplied
<1> HIDE DEF new
<1> DEFINE Bad == {k \in Nat : k <= N /\ ~Paired(file, t[k], k)}
<1>2. N \in Nat
  BY RecipientsAre
<1>3. Bad = {}
  <2> SUFFICES ASSUME Bad # {} PROVE FALSE
    OBVIOUS
  <2>1. PICK k \in Bad : \A y \in Bad : k <= y
    BY Least
  <2>2. Paired(file, t[0], 0)
    BY <1>1 DEF Paired, TablesOf, RowsOf!Nothing
  <2>3. k \in 1..N /\ k - 1 \in Nat /\ k - 1 \notin Bad /\ k - 1 \in 0..N
    BY <1>2, <2>1, <2>2
  <2>4. Paired(file, t[k - 1], k - 1)
    BY <1>2, <2>3
  <2>5. t[k - 1] \in [Recipients -> Written]
    BY <1>1, <2>3, TablesAreTyped
  <2>6. Paired(file, t[k], k)
    BY <1>1, <2>3, <2>4, <2>5, PairedStep DEF TablesOf
  <2>7. QED
    BY <2>1, <2>6
<1>4. Paired(file, new, N)
  BY <1>1, <1>2, <1>3
<1> HIDE DEF N, Bad
<1>5. \A i \in Recipients : \E k \in Recipients : new[k].id = i
  BY <1>4, OrderReaches DEF Paired, N
<1> DEFINE f == [i \in Recipients |-> CHOOSE k \in Recipients : new[k].id = i]
<1>6. \A i \in Recipients : f[i] \in Recipients /\ new[f[i]].id = i
  BY <1>5
<1>7. f \in [Recipients -> Recipients] /\ \A i, k \in Recipients : f[i] = f[k] => i = k
  BY <1>6
<1> HIDE DEF f
<1>8. \A k \in Recipients : \E i \in Recipients : f[i] = k
  BY <1>7, RecipientsAre, Permutes
<1>9. \A k \in Recipients : new[k].id \in Recipients
  BY <1>6, <1>8
<1>10. ASSUME NEW k \in Recipients PROVE new[k].status = Result(file)[new[k].id]
  <2>1. new[k] # RowsOf!Nothing
    BY <1>9, OrderIsOne DEF RowsOf!Nothing, RowsOf!NoId
  <2>2. PICK a \in 1..N : new[k] = Got(file, file.order[a])
    BY <1>4, <2>1 DEF Paired
  <2>3. QED
    BY <2>2 DEF Got
<1>11. \A i, k \in Recipients : new[i].id = new[k].id => i = k
  BY <1>4, <1>9, OrderIsOne DEF Paired, RowsOf!NoId
<1>12. QED
  BY <1>9, <1>10, <1>11 DEF MatchedBy, new

LEMMA FirstApplied ==
  ASSUME ListSound, RowsOf!Distinct, ~RowsOf!Mixed, NEW file, SoundFile(file),
         NEW rows \in [Recipients -> Written], \A i \in Recipients : rows[i] = RowsOf!Nothing
  PROVE  MatchedBy(RowsOf!Applied(rows, RowsOf!RowsOf(file)), Result(file))
<1>1. CASE HasClients(file.format)
  <2> DEFINE new == RowsOf!Applied(rows, RowsOf!RowsOf(file))
  <2>1. \A i \in Recipients : new[i] = Got(file, i)
    BY <1>1, NamedApplied
  <2>2. ASSUME NEW i \in Recipients PROVE new[i].id = i /\ new[i].status = Result(file)[i]
    <3>1. new[i] = [id |-> i, status |-> Result(file)[i]]
      BY <2>1 DEF Got
    <3> HIDE DEF new
    <3>2. QED
      BY <3>1
  <2> HIDE DEF new
  <2>3. MatchedBy(new, Result(file))
    BY <2>2 DEF MatchedBy
  <2>4. QED
    BY <2>3 DEF new
<1>2. QED
  BY <1>1, UnnamedApplied

LEMMA AppliedIsTyped ==
  ASSUME ListSound, NEW file, SoundFile(file), NEW rows \in [Recipients -> Written]
  PROVE  RowsOf!Applied(rows, RowsOf!RowsOf(file)) \in [Recipients -> Written]
<1>1. PICK t : /\ TablesOf(file, rows, t)
               /\ RowsOf!Applied(rows, RowsOf!RowsOf(file)) = t[Len(rowsList)]
  BY FileIsApplied
<1>2. Len(rowsList) \in 0..Len(rowsList)
  BY RecipientsAre
<1>3. QED
  BY <1>1, <1>2, TablesAreTyped

(* Matched recipients count as the results do.                             *)
LEMMA SummariesAgree ==
  ASSUME ListSound, NEW rows, NEW statuses, DOMAIN statuses = Recipients, MatchedBy(rows, statuses)
  PROVE  RowsOf!Summary([i \in Recipients |-> rows[i].status]) = RowsOf!Summary(statuses)
<1> DEFINE p     == [i \in Recipients |-> rows[i].id]
           shown == [i \in Recipients |-> rows[i].status]
           F     == RowsOf!S!FailureStatuses
           In(s, X)  == {i \in DOMAIN s : s[i] \in X}
           Out(s, X) == {i \in DOMAIN s : s[i] \notin X}
<1>1. /\ IsFiniteSet(Recipients) /\ p \in [Recipients -> Recipients]
      /\ \A i, k \in Recipients : p[i] = p[k] => i = k
      /\ \A i \in Recipients : shown[i] = statuses[p[i]]
  BY RecipientsAre DEF MatchedBy
<1>2. DOMAIN shown = Recipients
  OBVIOUS
<1> HIDE DEF p, shown, F
<1>3. ASSUME NEW X PROVE RowsOf!Cardinality(In(shown, X)) = RowsOf!Cardinality(In(statuses, X))
  <2> DEFINE A == In(shown, X)
             B == In(statuses, X)
  <2>1. A \subseteq Recipients /\ B \subseteq Recipients /\ \A k \in Recipients : k \in A <=> p[k] \in B
    BY <1>1, <1>2
  <2> HIDE DEF A, B
  <2>2. RowsOf!Cardinality(A) = RowsOf!Cardinality(B)
    BY <1>1, <2>1, SameCount
  <2>3. QED
    BY <2>2 DEF A, B
<1>4. ASSUME NEW X PROVE RowsOf!Cardinality(Out(shown, X)) = RowsOf!Cardinality(Out(statuses, X))
  <2> DEFINE A == Out(shown, X)
             B == Out(statuses, X)
  <2>1. A \subseteq Recipients /\ B \subseteq Recipients /\ \A k \in Recipients : k \in A <=> p[k] \in B
    BY <1>1, <1>2
  <2> HIDE DEF A, B
  <2>2. RowsOf!Cardinality(A) = RowsOf!Cardinality(B)
    BY <1>1, <2>1, SameCount
  <2>3. QED
    BY <2>2 DEF A, B
<1>5. ASSUME NEW s
      PROVE  RowsOf!Summary(s) =
               [delivered |-> RowsOf!Cardinality(In(s, {"delivered"})),
                failed    |-> RowsOf!Cardinality(In(s, F)),
                other     |-> RowsOf!Cardinality(Out(s, {"delivered"} \cup F))]
  <2>1. {i \in DOMAIN s : s[i] = "delivered"} = In(s, {"delivered"})
    OBVIOUS
  <2>2. QED
    BY <2>1 DEF RowsOf!Summary, F
<1>6. QED
  BY <1>3, <1>4, <1>5 DEF shown

(* The steps: only a file changes what is written of the recipients.       *)
LEMMA RowsBegin == RowsOf!Init => RowsOf!IInv
<1> SUFFICES ASSUME RowsOf!Init PROVE RowsOf!IInv
  OBVIOUS
<1> USE DEF RowsOf!Init
<1>1. RowsOf!TypeOK
  BY DEF RowsOf!TypeOK, RowsOf!Nothing, RowsOf!Off
<1>2. RowsOf!FilesSound
  BY DEF RowsOf!FilesSound, RowsOf!Off
<1>3. RowsOf!Untouched
  BY DEF RowsOf!Untouched
<1>4. \A i \in DOMAIN rowsList : rowsRow[i].status = rowsSeen[i]
  BY DEF RowsOf!Nothing
<1>5. RowsOf!RowsSound
  BY <1>3, <1>4 DEF RowsOf!RowsSound
<1>6. QED
  BY <1>1, <1>2, <1>5 DEF RowsOf!IInv

LEMMA RowsKept ==
  ASSUME RowsOf!RowsSound, UNCHANGED <<rowsList, rowsRow, rowsSeen, rowsOnce, rowsNamed>>
  PROVE  RowsOf!RowsSound'
BY DEF RowsOf!RowsSound, RowsOf!Untouched, RowsOf!Matched, RowsOf!Distinct, RowsOf!Mixed

AFile == [format : Formats, order : RowsOf!Orders, truth : [Recipients -> Codes \cup {RowsOf!Sent}]]
AJob  == [at : {"off", "queued", "asked", "fetched", "written"}, file : SUBSET AFile]

LEMMA JobSteps ==
  ASSUME RowsOf!IInv,
         UNCHANGED <<rowsList, rowsTruth, rowsRow, rowsSeen, rowsOnce, rowsNamed>>,
         rowsReport' \in {"none", "pending", "ready", "failed"},
         NEW j \in Jobs, NEW to \in AJob, rowsJob' = [rowsJob EXCEPT ![j] = to]
  PROVE  RowsOf!IInv'
<1>1. rowsJob \in [Jobs -> AJob]
  BY DEF RowsOf!IInv, RowsOf!FilesSound, AJob, AFile, Recipients
<1>2. rowsJob' \in [Jobs -> AJob]
  BY <1>1
<1>3. RowsOf!Orders' = RowsOf!Orders
  BY DEF RowsOf!Orders
<1>4. RowsOf!FilesSound'
  BY <1>2, <1>3 DEF RowsOf!FilesSound, AJob, AFile, Recipients
<1>5. \A k \in Jobs : rowsJob'[k].at \in {"off", "queued", "asked", "fetched", "written"}
  BY <1>2 DEF AJob
<1>6. RowsOf!TypeOK'
  BY <1>5 DEF RowsOf!IInv, RowsOf!TypeOK
<1>7. QED
  BY <1>4, <1>6, RowsKept DEF RowsOf!IInv

LEMMA JobsMove ==
  ASSUME RowsOf!IInv, NEW j \in Jobs,
         \/ \E again \in BOOLEAN : RowsOf!Order(j, again)
         \/ RowsOf!Begin(j) \/ RowsOf!NotYet(j) \/ RowsOf!NoReport(j) \/ RowsOf!Keep(j) \/ RowsOf!Return(j)
  PROVE  RowsOf!IInv'
<1> DEFINE At(w) == [rowsJob[j] EXCEPT !.at = w]
<1>1. rowsJob \in [Jobs -> AJob]
  BY DEF RowsOf!IInv, RowsOf!FilesSound, AJob, AFile, Recipients
<1>2. RowsOf!Off \in AJob
  BY DEF AJob, RowsOf!Off
<1>3. \A w \in {"queued", "asked", "fetched", "written"} : At(w) \in AJob
  BY <1>1 DEF AJob
<1>4. rowsReport \in {"none", "pending", "ready", "failed"}
  BY DEF RowsOf!IInv, RowsOf!TypeOK
<1>5. /\ UNCHANGED <<rowsList, rowsTruth, rowsRow, rowsSeen, rowsOnce, rowsNamed>>
      /\ rowsReport' \in {"none", "pending", "ready", "failed"}
  BY <1>4 DEF RowsOf!Order, RowsOf!Begin, RowsOf!NotYet, RowsOf!NoReport, RowsOf!Keep, RowsOf!Return
<1>6. \/ rowsJob' = [rowsJob EXCEPT ![j] = RowsOf!Off]
      \/ rowsJob' = [rowsJob EXCEPT ![j] = At("queued")]
      \/ rowsJob' = [rowsJob EXCEPT ![j] = At("asked")]
  <2>1. CASE \E again \in BOOLEAN : RowsOf!Order(j, again)
    BY <2>1 DEF RowsOf!Order
  <2>2. CASE RowsOf!Begin(j)
    BY <2>2 DEF RowsOf!Begin
  <2>3. CASE RowsOf!NotYet(j) \/ RowsOf!NoReport(j) \/ RowsOf!Keep(j) \/ RowsOf!Return(j)
    BY <2>3 DEF RowsOf!NotYet, RowsOf!NoReport, RowsOf!Keep, RowsOf!Return
  <2>4. QED
    BY <2>1, <2>2, <2>3
<1>7. At("queued") \in AJob /\ At("asked") \in AJob
  BY <1>3
<1> HIDE DEF At
<1>8. CASE rowsJob' = [rowsJob EXCEPT ![j] = RowsOf!Off]
  BY <1>2, <1>5, <1>8, JobSteps
<1>9. CASE rowsJob' = [rowsJob EXCEPT ![j] = At("queued")]
  BY <1>7, <1>5, <1>9, JobSteps
<1>10. CASE rowsJob' = [rowsJob EXCEPT ![j] = At("asked")]
  BY <1>7, <1>5, <1>10, JobSteps
<1>11. QED
  BY <1>6, <1>8, <1>9, <1>10

LEMMA FileComes ==
  ASSUME RowsOf!IInv, NEW j \in Jobs, NEW format \in Formats, NEW order \in RowsOf!Orders,
         RowsOf!Fetch(j, format, order)
  PROVE  RowsOf!IInv'
<1> DEFINE file == [format |-> format, order |-> order, truth |-> rowsTruth]
           to   == [at |-> "fetched", file |-> {file}]
<1>1. rowsTruth \in [Recipients -> Codes \cup {RowsOf!Sent}]
  BY DEF RowsOf!IInv, RowsOf!TypeOK, Recipients
<1>2. file \in AFile
  BY <1>1 DEF AFile
<1> HIDE DEF file
<1>3. to \in AJob
  BY <1>2 DEF AJob
<1>4. /\ UNCHANGED <<rowsList, rowsTruth, rowsRow, rowsSeen, rowsOnce, rowsNamed, rowsReport>>
      /\ rowsJob' = [rowsJob EXCEPT ![j] = to]
  BY DEF RowsOf!Fetch, file
<1>5. rowsReport' \in {"none", "pending", "ready", "failed"}
  BY <1>4 DEF RowsOf!IInv, RowsOf!TypeOK
<1> HIDE DEF to
<1>6. QED
  BY <1>3, <1>4, <1>5, JobSteps

LEMMA MultiinfoSettles ==
  ASSUME RowsOf!IInv, NEW i \in Recipients, NEW c \in Codes, RowsOf!Settle(i, c)
  PROVE  RowsOf!IInv'
<1>1. /\ UNCHANGED <<rowsList, rowsRow, rowsReport, rowsJob, rowsSeen, rowsOnce, rowsNamed>>
      /\ rowsTruth' = [rowsTruth EXCEPT ![i] = c]
  BY DEF RowsOf!Settle
<1>2. RowsOf!TypeOK'
  BY <1>1 DEF RowsOf!IInv, RowsOf!TypeOK, Recipients
<1>3. RowsOf!FilesSound'
  BY <1>1 DEF RowsOf!IInv, RowsOf!FilesSound, RowsOf!Orders
<1>4. QED
  BY <1>1, <1>2, <1>3, RowsKept DEF RowsOf!IInv

LEMMA FileGoesIn ==
  ASSUME RowsOf!IInv, NEW j \in Jobs, RowsOf!Apply(j)
  PROVE  RowsOf!IInv'
<1>1. PICK file \in rowsJob[j].file :
        /\ rowsRow' = RowsOf!Applied(rowsRow, RowsOf!RowsOf(file))
        /\ rowsSeen' = Result(file)
        /\ rowsOnce' = (\A i \in DOMAIN rowsList : rowsSeen[i] = RowsOf!NoResult)
        /\ rowsNamed' = (rowsNamed /\ \E k \in DOMAIN file.format.columns :
                                        file.format.columns[k].is = "client")
  BY DEF RowsOf!Apply, Result
<1>2. /\ UNCHANGED <<rowsList, rowsTruth, rowsReport>>
      /\ rowsJob' = [rowsJob EXCEPT ![j] = [at |-> "written", file |-> {}]]
  BY DEF RowsOf!Apply
<1>3. rowsJob \in [Jobs -> AJob]
  BY DEF RowsOf!IInv, RowsOf!FilesSound, AJob, AFile, Recipients
<1>4. file \in AFile
  BY <1>1, <1>3 DEF AJob
<1>5. SoundFile(file)
  BY <1>4 DEF AFile, SoundFile
<1>6. ListSound
  BY RowsAssumption DEF RowsOf!IInv, RowsOf!TypeOK, ListSound
<1>7. rowsRow \in [Recipients -> Written]
  BY DEF RowsOf!IInv, RowsOf!TypeOK, Recipients, Written
<1>8. rowsRow' \in [Recipients -> Written]
  BY <1>1, <1>5, <1>6, <1>7, AppliedIsTyped
<1>9. /\ rowsSeen' \in [Recipients -> RowsOf!S!GatewayStatus]
      /\ RowsOf!NoResult \notin RowsOf!S!GatewayStatus
  BY <1>1, ResultIsStatus DEF Recipients
<1>10. rowsNamed' => rowsNamed /\ HasClients(file.format)
  BY <1>1 DEF HasClients, RowsOf!Are
<1>11. rowsJob' \in [Jobs -> AJob]
  BY <1>2, <1>3 DEF AJob
<1>12. RowsOf!FilesSound'
  BY <1>2, <1>11 DEF RowsOf!FilesSound, AJob, AFile, Recipients, RowsOf!Orders
<1>13. RowsOf!TypeOK'
  <2>1. rowsOnce' \in BOOLEAN
    BY Zenon, <1>1
  <2>2. rowsNamed' \in BOOLEAN
    BY Zenon, <1>1
  <2>3. \A k \in Jobs : rowsJob'[k].at \in {"off", "queued", "asked", "fetched", "written"}
    BY <1>11 DEF AJob
  <2>4. /\ rowsRow' \in [DOMAIN rowsList ->
             [id : {RowsOf!NoId} \cup DOMAIN rowsList, status : {RowsOf!NoResult} \cup RowsOf!S!GatewayStatus]]
        /\ rowsSeen' \in [DOMAIN rowsList -> {RowsOf!NoResult} \cup RowsOf!S!GatewayStatus]
    BY <1>8, <1>9 DEF Recipients, Written
  <2>5. {rowsOnce, rowsNamed}' \subseteq BOOLEAN
    BY <2>1, <2>2
  <2>6. QED
    BY <1>2, <2>3, <2>4, <2>5 DEF RowsOf!IInv, RowsOf!TypeOK
<1>14. (\A i \in DOMAIN rowsList : rowsSeen'[i] = RowsOf!NoResult) => RowsOf!Untouched'
  BY <1>2, <1>9 DEF RowsOf!Untouched, Recipients
<1>15. ASSUME rowsOnce', RowsOf!Distinct, ~RowsOf!Mixed PROVE RowsOf!Matched'
  <2>1. \A i \in DOMAIN rowsList : rowsSeen[i] = RowsOf!NoResult
    BY <1>1, <1>15
  <2>2. \A i \in Recipients : rowsRow[i] = RowsOf!Nothing
    BY <2>1 DEF RowsOf!IInv, RowsOf!RowsSound, RowsOf!Untouched, Recipients
  <2>3. MatchedBy(rowsRow', rowsSeen')
    BY <1>1, <1>5, <1>6, <1>7, <1>15, <2>2, FirstApplied
  <2>4. QED
    BY <1>2, <2>3 DEF MatchedBy, RowsOf!Matched, Recipients
<1>16. ASSUME rowsNamed', RowsOf!Distinct, NEW i \in DOMAIN rowsList PROVE rowsRow'[i].status = rowsSeen'[i]
  <2>1. rowsRow'[i] = Got(file, i)
    BY <1>1, <1>5, <1>6, <1>7, <1>10, <1>16, NamedApplied DEF Recipients
  <2>2. QED
    BY <1>1, <2>1 DEF Got
<1>17. /\ RowsOf!Distinct' <=> RowsOf!Distinct
       /\ RowsOf!Mixed' <=> RowsOf!Mixed
  BY <1>2 DEF RowsOf!Distinct, RowsOf!Mixed
<1>18. RowsOf!RowsSound'
  BY <1>2, <1>14, <1>15, <1>16, <1>17 DEF RowsOf!RowsSound
<1>19. QED
  BY <1>12, <1>13, <1>18 DEF RowsOf!IInv

LEMMA RowsRest ==
  ASSUME RowsOf!IInv, UNCHANGED rowsVars
  PROVE  RowsOf!IInv'
<1> USE DEF rowsVars
<1>1. RowsOf!TypeOK'
  BY DEF RowsOf!IInv, RowsOf!TypeOK
<1>2. RowsOf!FilesSound'
  BY DEF RowsOf!IInv, RowsOf!FilesSound, RowsOf!Orders
<1>3. QED
  BY <1>1, <1>2, RowsKept DEF RowsOf!IInv

LEMMA RowsStay ==
  ASSUME RowsOf!IInv, RowsOf!Next \/ UNCHANGED rowsVars
  PROVE  RowsOf!IInv'
<1>1. CASE \E i \in DOMAIN rowsList, c \in Codes : RowsOf!Settle(i, c)
  BY <1>1, MultiinfoSettles DEF Recipients
<1>2. ASSUME NEW j \in Jobs,
             \/ \E again \in BOOLEAN : RowsOf!Order(j, again)
             \/ RowsOf!Begin(j) \/ RowsOf!NotYet(j) \/ RowsOf!NoReport(j) \/ RowsOf!Keep(j) \/ RowsOf!Return(j)
      PROVE  RowsOf!IInv'
  BY <1>2, JobsMove
<1>3. ASSUME NEW j \in Jobs, RowsOf!Apply(j) PROVE RowsOf!IInv'
  BY <1>3, FileGoesIn
<1>4. ASSUME NEW j \in Jobs, NEW format \in Formats, NEW order \in RowsOf!Orders,
             RowsOf!Fetch(j, format, order)
      PROVE  RowsOf!IInv'
  BY <1>4, FileComes
<1>5. QED
  BY <1>1, <1>2, <1>3, <1>4, RowsRest DEF RowsOf!Next

LEMMA RowsAreTrue == RowsOf!IInv => RowsOf!ResultsAreTrue
<1> SUFFICES ASSUME RowsOf!IInv PROVE RowsOf!ResultsAreTrue
  OBVIOUS
<1>1. ASSUME rowsOnce, RowsOf!Distinct, ~RowsOf!Mixed, rowsReport = "ready"
      PROVE  RowsOf!Summary(RowsOf!Shown) = RowsOf!Summary(rowsSeen)
  <2>1. RowsOf!Shown = [i \in Recipients |-> rowsRow[i].status]
    BY <1>1 DEF RowsOf!Shown, Recipients
  <2>2. rowsSeen \in [Recipients -> {RowsOf!NoResult} \cup RowsOf!S!GatewayStatus]
    BY DEF RowsOf!IInv, RowsOf!TypeOK, Recipients
  <2>3. CASE RowsOf!Untouched
    <3>1. \A i \in Recipients : rowsRow[i].status = rowsSeen[i]
      BY <2>3 DEF RowsOf!Untouched, RowsOf!Nothing, Recipients
    <3>2. RowsOf!Shown = rowsSeen
      BY <2>1, <2>2, <3>1
    <3>3. QED
      BY <3>2
  <2>4. CASE RowsOf!Matched
    <3>1. MatchedBy(rowsRow, rowsSeen)
      BY <2>4 DEF MatchedBy, RowsOf!Matched, Recipients
    <3>2. ListSound
      BY RowsAssumption DEF RowsOf!IInv, RowsOf!TypeOK, ListSound
    <3>3. DOMAIN rowsSeen = Recipients
      BY <2>2
    <3>4. QED
      BY <2>1, <3>1, <3>2, <3>3, SummariesAgree
  <2>5. QED
    BY <1>1, <2>3, <2>4 DEF RowsOf!IInv, RowsOf!RowsSound
<1>2. QED
  BY <1>1 DEF RowsOf!IInv, RowsOf!RowsSound, RowsOf!ResultsAreTrue

-----------------------------------------------------------------------------
ServiceSound == NoticesInv /\ StartupOf!IInv /\ RowsOf!IInv /\ ListsOf!IInv

LEMMA ServiceBegins == Init => ServiceSound
BY NoticesStart, StartupBegin, RowsBegin, ListsBegin DEF Init, ServiceSound

LEMMA ServiceStays ==
  ASSUME ServiceSound, [Next]_vars
  PROVE  ServiceSound'
<1>1. /\ NoticesOf!Next \/ UNCHANGED noteVars
      /\ StartupOf!Next \/ UNCHANGED startVars
      /\ RowsOf!Next \/ UNCHANGED rowsVars
      /\ ListsOf!Next \/ UNCHANGED listVars
  BY DEF Next, NoticesMove, StartupMoves, RowsMove, ListsMove, vars
<1>2. QED
  BY <1>1, NoticesMoves, NoticesRest, StartupStays, RowsStay, ListsStay DEF ServiceSound

(* What the proofs of this module rest on: in every behaviour the          *)
(* notifications, the start and the lists keep what makes their properties *)
(* inductive.                                                              *)
THEOREM ServiceHolds == Spec => []ServiceInv
<1>1. ServiceSound => ServiceInv
  BY NoticesParts DEF ServiceSound, ServiceInv
<1>2. QED
  BY <1>1, ServiceBegins, ServiceStays, PTL DEF Spec

(* Notifications (notifications/notifier.ts, worker/mail.ts): the SMS of a *)
(* day stay within the pool of their kind but for those a death of the     *)
(* process kept from being counted, and no notification is mailed oftener  *)
(* than once, once for every death and once for every lost answer of the   *)
(* mail server to a mail of it that was tried again.                       *)
THEOREM NoticesStayBounded == Spec => []NoticesAreBounded
<1>1. ServiceInv => NoticesAreBounded
  BY DEF ServiceInv, NoticesAreBounded, NoticesOf!IInv
<1>2. QED
  BY <1>1, ServiceHolds, PTL

(* The start (index.ts, upgrade-backup.ts, key-check.ts): a schema under   *)
(* data is changed only over a copy of that data, and no database holds    *)
(* data under two master keys, whatever dies, fails, is done by hand or is *)
(* restored in between.                                                    *)
THEOREM DataStaysSafe == Spec => []DataIsSafe
<1>1. ServiceInv => DataIsSafe
  <2> SUFFICES ASSUME StartupOf!IInv
               PROVE  StartupOf!TypeOK /\ StartupOf!CopiedBeforeChange /\ StartupOf!OneKey
    BY DEF ServiceInv, DataIsSafe
  <2>1. StartupOf!OfOneKey(startDb)
    BY DEF StartupOf!IInv, StartupOf!KeysSound
  <2>2. startDb.keys = {} \/ \E k : startDb.keys = {k}
    BY <2>1 DEF StartupOf!OfOneKey
  <2>3. Cardinality(startDb.keys) \in {0, 1}
    BY <2>2, FS_EmptySet, FS_Singleton
  <2>4. StartupOf!OneKey
    BY <2>3, CountOfStartup DEF StartupOf!OneKey
  <2>5. QED
    BY <2>4 DEF StartupOf!IInv
<1>2. QED
  BY <1>1, ServiceHolds, PTL

(* The results of packages (multiinfo/report.ts, store/packages.ts and     *)
(* worker/packages.ts): for any list of recipients and any files, in any   *)
(* order of rows and columns, whichever of the jobs applies which first,   *)
(* once files have named the clients everyone has the result of the last   *)
(* one, and a first file that names nobody counts right.                   *)
THEOREM ResultsStayTrue == Spec => []ResultsAreTrue
<1>1. ServiceInv => ResultsAreTrue
  BY RowsAreTrue DEF ServiceInv, ResultsAreTrue, RowsOf!IInv
<1>2. QED
  BY <1>1, ServiceHolds, PTL

(* The lists (store/messages.ts, api/messages.ts and the panel's routes):  *)
(* whoever turns the pages as long as there are more has read every row    *)
(* that was there when he began, although rows come and change meanwhile.  *)
THEOREM NothingIsEverSkipped == Spec => []NothingIsSkipped
<1>1. ServiceInv => NothingIsSkipped
  BY DEF ServiceInv, NothingIsSkipped, ListsOf!IInv
<1>2. QED
  BY <1>1, ServiceHolds, PTL

=============================================================================
