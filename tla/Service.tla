------------------------------ MODULE Service ------------------------------
(***************************************************************************)
(* What the gateway does by itself and what it shows: its notifications,   *)
(* its start over upgrades and restored copies, the reports of packages    *)
(* and the lists of the panel and the API. They share no state; a          *)
(* behaviour moves one of them, which is chosen at the beginning.          *)
(***************************************************************************)
EXTENDS Integers, Sequences, FiniteSets

CONSTANTS
  Moving,    \* the components that are explored
  (* Notices *)
  Rules, MaxPerHour, GroupHours, PoolSize, Causes, RuleOf, Retries, Hour, Day,
  KeptFor, MaxRows, MaxTime, MaxEvents,
  (* Startup *)
  Releases, Schema, Keys, KeptCopies, MaxWrites, MaxHands,
  (* PackageRows *)
  RecipientLists, Formats, Codes, Jobs,
  (* Lists *)
  Ids, Times, Owners, Requests, Default, Largest, PageSize

(* Releases only add migrations to those of the releases before them.      *)
ASSUME StartupAssumption ==
  /\ Schema \in Seq(Nat \ {0}) /\ Schema # <<>> /\ Releases = 1..Len(Schema)
  /\ \A r, s \in Releases : r <= s => Schema[r] <= Schema[s]
  /\ KeptCopies \in Nat \ {0}
(* Rows are kept for a month, the pools are those of a day.                *)
ASSUME NoticesAssumption ==
  /\ Day \in Nat /\ KeptFor \in Nat /\ Day <= KeptFor
  /\ Retries \in Nat /\ MaxRows \in Nat /\ MaxTime \in Nat
  /\ Rules \in Seq(STRING) /\ \A i \in DOMAIN Rules : MaxPerHour[Rules[i]] \in Nat
  /\ PoolSize \in [{"rules", "alarm"} -> Nat]
ASSUME ListsAssumption ==
  /\ IsFiniteSet(Ids) /\ Ids \subseteq Int /\ Times \subseteq Int /\ Requests \subseteq Int
  /\ Default \in Nat /\ Largest \in Nat /\ PageSize \in Nat

VARIABLES
  which,    \* the component that moves
  noteQueue, noteJobs, noteRule, noteSmtp, noteChannel, noteDown,
  noteRefusing, noteTurn, noteNow, noteKills, noteSaves, noteMailed,
  noteUnheard, noteTexted, noteUnmarked, noteOwed, noteMissed, startDb, startMain,
  startWal, startCopies, startRun, startHands, rowsList, rowsTruth, rowsRow,
  rowsReport, rowsJob, rowsSeen, rowsOnce, rowsNamed, listRows, listAsked,
  listReading, listOffset, listGot, listBase, listLeft

NoticesOf == INSTANCE Notices WITH
  Keep <- KeptFor, queue <- noteQueue, jobs <- noteJobs, rule <- noteRule,
  smtp <- noteSmtp, channel <- noteChannel, down <- noteDown,
  refusing <- noteRefusing, turn <- noteTurn, now <- noteNow,
  kills <- noteKills, saves <- noteSaves, mailed <- noteMailed,
  unheard <- noteUnheard,
  texted <- noteTexted, unmarked <- noteUnmarked, owed <- noteOwed,
  missed <- noteMissed

StartupOf == INSTANCE Startup WITH
  db <- startDb, main <- startMain, wal <- startWal, copies <- startCopies,
  run <- startRun, hands <- startHands

RowsOf == INSTANCE PackageRows WITH
  Lists <- RecipientLists, list <- rowsList, truth <- rowsTruth,
  row <- rowsRow, report <- rowsReport, job <- rowsJob, seen <- rowsSeen,
  once <- rowsOnce, named <- rowsNamed

ListsOf == INSTANCE Lists WITH
  rows <- listRows, asked <- listAsked, reading <- listReading,
  offset <- listOffset, got <- listGot, base <- listBase, left <- listLeft

(* A recipient is a number and a client. The operator's file has the       *)
(* columns its titles tell, or those of the manual.                        *)
ASSUME RowsAssumption ==
  /\ \A l \in RecipientLists : l \in Seq([dest : Int, client : STRING])
  /\ \A f \in Formats : f.columns \in Seq([is : STRING, says : SUBSET STRING])
  /\ \A f \in Formats : RowsOf!TitlesTell(f) \/ RowsOf!AsTheManual(f)

-----------------------------------------------------------------------------
noteVars ==
  <<noteQueue, noteJobs, noteRule, noteSmtp, noteChannel, noteDown,
  noteRefusing, noteTurn, noteNow, noteKills, noteSaves, noteMailed,
  noteUnheard, noteTexted, noteUnmarked, noteOwed, noteMissed>>
startVars ==
  <<startDb, startMain, startWal, startCopies, startRun, startHands>>
rowsVars ==
  <<rowsList, rowsTruth, rowsRow, rowsReport, rowsJob, rowsSeen, rowsOnce,
  rowsNamed>>
listVars ==
  <<listRows, listAsked, listReading, listOffset, listGot, listBase,
  listLeft>>

vars == <<which, noteVars, startVars, rowsVars, listVars>>

(* Where a component may begin in several ways, one that stays put begins  *)
(* in one of them.                                                         *)
Init ==
  /\ which \in Moving
  /\ NoticesOf!Init /\ StartupOf!Init /\ RowsOf!Init /\ ListsOf!Init
  /\ which # "startup" => startDb = StartupOf!Empty
  /\ which # "notices" => noteSmtp = "off" /\ \A e \in DOMAIN noteRule : noteRule[e].sms
  /\ which # "package rows" => rowsList = CHOOSE l \in RecipientLists : TRUE
  /\ which # "lists" => listAsked = CHOOSE a \in ListsOf!Asks : TRUE

NoticesMove ==
  /\ which = "notices" /\ NoticesOf!Next
  /\ UNCHANGED <<which, startVars, rowsVars, listVars>>

StartupMoves ==
  /\ which = "startup" /\ StartupOf!Next
  /\ UNCHANGED <<which, noteVars, rowsVars, listVars>>

RowsMove ==
  /\ which = "package rows" /\ RowsOf!Next
  /\ UNCHANGED <<which, noteVars, startVars, listVars>>

ListsMove ==
  /\ which = "lists" /\ ListsOf!Next
  /\ UNCHANGED <<which, noteVars, startVars, rowsVars>>

Next == NoticesMove \/ StartupMoves \/ RowsMove \/ ListsMove

Spec == Init /\ [][Next]_vars

-----------------------------------------------------------------------------
(* Notifications: the pools of SMS hold, and a notification is mailed a    *)
(* second time only when the process died over it, or when the answer of   *)
(* the mail server was lost and the mail was tried again.                  *)
NoticesAreBounded ==
  which = "notices" =>
    NoticesOf!TypeOK /\ NoticesOf!PoolsHold /\ NoticesOf!MailedOnce

(* Start: the schema of a database with data is changed only over a copy   *)
(* of it, and data under two master keys is never made.                    *)
DataIsSafe ==
  which = "startup" =>
    StartupOf!TypeOK /\ StartupOf!CopiedBeforeChange /\ StartupOf!OneKey

(* Packages: over reports in any order of rows and columns, in codes or in *)
(* words, fetched by two jobs at once, every recipient has the result that *)
(* Multiinfo gave him, and the counts are right.                           *)
ResultsAreTrue ==
  which = "package rows" => RowsOf!TypeOK /\ RowsOf!ResultsAreTrue

(* Lists: who turns the pages while hasMore says so has read every row,    *)
(* whatever comes and changes in between.                                  *)
NothingIsSkipped ==
  which = "lists" => ListsOf!TypeOK /\ ListsOf!NothingIsSkipped

ServiceInv ==
  NoticesOf!IInv /\ StartupOf!IInv /\ RowsOf!IInv /\ ListsOf!IInv

-----------------------------------------------------------------------------
(* Not so: see Notices. *)
ExcessIsMentioned == NoticesOf!ExcessIsMentioned

(* Not so: see Startup. *)
WayBack == StartupOf!WayBack
=============================================================================
