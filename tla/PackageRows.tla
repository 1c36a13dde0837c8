---------------------------- MODULE PackageRows ----------------------------
(***************************************************************************)
(* The recipients of a package and the report that tells what became of    *)
(* them: src/src/store/packages.ts, src/src/multiinfo/report.ts, the       *)
(* report's way through src/src/worker/packages.ts and what the API shows  *)
(* of it, src/src/api/packages.ts. The package has been sent; its life     *)
(* until then, lost answers and attempts are of PackageLifecycle.          *)
(*                                                                         *)
(* The file has a row for each recipient, in an order of the operator's.   *)
(* Its columns are recognised by their titles: a title is the set of the   *)
(* words in it that the code looks for. A cell is digits or something      *)
(* else; a result is a code, or the operator's word for that code.         *)
(***************************************************************************)
EXTENDS Naturals, FiniteSets, SequencesExt

CONSTANTS
  Lists,      \* lists of recipients: sequences of [dest, client]
  Formats,    \* of files: [columns : Seq([is, says]), titled, words]
  Codes,      \* status codes of Multiinfo that end a message
  Jobs        \* bound: jobs package.report at once

S == INSTANCE Statuses

VARIABLES
  list,      \* the recipients of the package
  truth,     \* the code Multiinfo has for each
  row,       \* what package_recipients has of each: [id, status]
  report,    \* report_status
  job,       \* of each job: where it is and the file it has got
  seen,      \* the statuses in the file that was applied last
  once,      \* at most one file has been applied
  named      \* every file applied so far named the clients

vars == <<list, truth, row, report, job, seen, once, named>>

NoClient == "none"
NoResult == "none"
NoId     == 0
Sent     == 3
Nothing  == [id |-> NoId, status |-> NoResult]
Off      == [at |-> "off", file |-> {}]

-----------------------------------------------------------------------------
(* statusOf: 21 is a delivery; a word that is not in the list is unknown.  *)
Worded == {1, 3, 11, 12, 13, 20, 21}

StatusOf(format, code) ==
  IF format.words /\ code \notin Worded THEN "unknown"
  ELSE S!MapStatus(<<code, IF code = 21 THEN 1 ELSE 0>>)

(* columnsFromHeader: places of the columns, 0 where there is none.        *)
(* Mutant: any title about a status is that of the status.                 *)
IsStatusToo(t) == "status" \in t
IsStatus(t)    == "status" \in t /\ "data" \notin t

Positions == [id |-> 1, dest |-> 2, status |-> 3, client |-> 5]

Places(columns) ==
  LET Is(w)  == SelectInSeq(columns, LAMBDA c : w \in c.says)
      id     == Is("id")
      client == IF Is("klient") # 0 THEN Is("klient")
                ELSE SelectInSeq(columns, LAMBDA c : "ident" \in c.says /\ "id" \notin c.says)
  IN [id |-> id, dest |-> Is("numer"), client |-> client,
      status |-> SelectInSeq(columns, LAMBDA c : IsStatus(c.says))]

PlacesOf(format) ==
  LET p == Places(format.columns)
  IN IF format.titled /\ 0 \notin {p.id, p.dest, p.status} THEN p ELSE Positions

(* The files there are: in one the titles tell the columns, wherever they  *)
(* stand; the other has them where the manual puts them.                   *)
Says(columns, word) == {k \in DOMAIN columns : word \in columns[k].says}
Are(columns, what)  == {k \in DOMAIN columns : columns[k].is = what}

TitlesTell(format) ==
  LET Say(word) == Says(format.columns, word)
      Is(what)  == Are(format.columns, what)
  IN /\ format.titled
     /\ Say("id") = Is("id") /\ Say("numer") = Is("dest") /\ Say("status") \ Say("data") = Is("status")
     /\ Say("klient") \cup (Say("ident") \ Say("id")) = Is("client")
     /\ {} \notin {Is("id"), Is("dest"), Is("status")}

AsTheManual(format) ==
  LET Say(word) == Says(format.columns, word)
      Is(what)  == Are(format.columns, what)
  IN /\ format.titled => {} \in {Say("id"), Say("numer"), Say("status") \ Say("data")}
     /\ 1 \in Is("id") /\ 2 \in Is("dest") /\ 3 \in Is("status")
     /\ Is("client") \subseteq {5}

(* The cell of a recipient in a column, and parseReport: a row reads when  *)
(* its number and identifier are digits.                                   *)
Cell(file, i, k) ==
  IF k \notin DOMAIN file.format.columns THEN <<"blank", 0>>
  ELSE LET is == file.format.columns[k].is
       IN CASE is = "id"     -> <<"digits", i>>
            [] is = "dest"   -> <<"digits", list[i].dest>>
            [] is = "status" -> <<IF file.format.words THEN "word" ELSE "digits", file.truth[i]>>
            [] is = "client" /\ list[i].client # NoClient -> <<"client", i>>
            [] OTHER         -> <<"blank", 0>>

RowOf(file, i) ==
  LET p == PlacesOf(file.format)
      C(k) == Cell(file, i, k)
      status == C(p.status)
  IN [reads  |-> C(p.id)[1] = "digits" /\ C(p.dest)[1] = "digits",
      id     |-> C(p.id)[2],
      dest   |-> C(p.dest)[2],
      status |-> IF status[1] \in {"digits", "word"} THEN StatusOf(file.format, status[2]) ELSE "unknown",
      client |-> IF C(p.client)[1] = "client" THEN list[C(p.client)[2]].client ELSE NoClient]

RowsOf(file) == [k \in DOMAIN file.order |-> RowOf(file, file.order[k])]

(* applyReport: a row with a client goes to the recipients with that       *)
(* number and client, one without to those of the number that have none,   *)
(* and when there are none to the first of the number without an           *)
(* identifier.                                                             *)
(* Mutants: the first of the number, with or without; every row without a  *)
(* client goes to all of its number.                                       *)
FirstOfNumber(rows, mine) ==
  {i \in mine : \A k \in mine : i <= k}

FirstUnmatched(rows, mine) ==
  LET free == {i \in mine : rows[i].id = NoId} IN {i \in free : \A k \in free : i <= k}

TargetsOfNumber(rows, r) ==
  {i \in DOMAIN list : list[i].dest = r.dest /\ r.client \in {NoClient, list[i].client}}

Targets(rows, r) ==
  LET mine  == {i \in DOMAIN list : list[i].dest = r.dest}
      same == {i \in mine : list[i].client = r.client}
  IN IF r.client # NoClient \/ same # {} THEN same ELSE FirstUnmatched(rows, mine)

ApplyRow(rows, r) ==
  LET to == Targets(rows, r)
  IN [i \in DOMAIN rows |-> IF i \in to THEN [id |-> r.id, status |-> r.status] ELSE rows[i]]

(* The table after the rows of a file, one after another; one that does    *)
(* not read is passed over.                                                *)
Applied(rows, rs) ==
  LET after[k \in 0..Len(rs)] ==
        IF k = 0 THEN rows
        ELSE IF rs[k].reads THEN ApplyRow(after[k - 1], rs[k]) ELSE after[k - 1]
  IN after[Len(rs)]

(* recipientSummary, and what GET /v1/packages/:id and its report show.    *)
Summary(statuses) ==
  LET Many(Test(_)) == Cardinality({i \in DOMAIN statuses : Test(statuses[i])})
  IN [delivered |-> Many(LAMBDA s : s = "delivered"),
      failed    |-> Many(LAMBDA s : s \in S!FailureStatuses),
      other     |-> Many(LAMBDA s : s \notin {"delivered"} \cup S!FailureStatuses)]

Shown == [i \in {k \in DOMAIN list : report = "ready"} |-> row[i].status]

-----------------------------------------------------------------------------
Init ==
  /\ list \in Lists
  /\ truth = [i \in DOMAIN list |-> Sent]
  /\ row = [i \in DOMAIN list |-> Nothing]
  /\ report = "none"
  /\ job = [j \in Jobs |-> Off]
  /\ seen = [i \in DOMAIN list |-> NoResult]
  /\ once = TRUE /\ named = TRUE

(* Multiinfo learns what became of a message. *)
Settle(i, c) ==
  /\ truth[i] = Sent
  /\ truth' = [truth EXCEPT ![i] = c]
  /\ UNCHANGED <<list, row, report, job, seen, once, named>>

(* complete orders the report; POST /v1/packages/:id/report orders it again. *)
Order(j, again) ==
  /\ job[j] = Off
  /\ again \/ (report = "none" /\ \A k \in Jobs : job[k] = Off)
  /\ report' = IF again THEN "pending" ELSE report
  /\ job' = [job EXCEPT ![j].at = "queued"]
  /\ UNCHANGED <<list, truth, row, seen, once, named>>

(* handlePackageReport, up to its question and its answers. *)
Begin(j) ==
  /\ job[j].at = "queued"
  /\ report' = IF report = "ready" THEN report ELSE "pending"
  /\ job' = [job EXCEPT ![j] = IF report = "ready" THEN Off ELSE [@ EXCEPT !.at = "asked"]]
  /\ UNCHANGED <<list, truth, row, seen, once, named>>

NotYet(j) ==
  /\ job[j].at = "asked"
  /\ report' = "pending"
  /\ job' = [job EXCEPT ![j].at = "queued"]
  /\ UNCHANGED <<list, truth, row, seen, once, named>>

NoReport(j) ==
  /\ job[j].at \in {"asked", "written"}
  /\ report' = "failed"
  /\ job' = [job EXCEPT ![j] = Off]
  /\ UNCHANGED <<list, truth, row, seen, once, named>>

Fetch(j, format, order) ==
  /\ job[j].at = "asked"
  /\ job' = [job EXCEPT ![j] =
       [at |-> "fetched", file |-> {[format |-> format, order |-> order, truth |-> truth]}]]
  /\ UNCHANGED <<list, truth, row, report, seen, once, named>>

Apply(j) ==
  /\ job[j].at = "fetched"
  /\ \E file \in job[j].file :
       /\ row' = Applied(row, RowsOf(file))
       /\ seen' = [i \in DOMAIN list |-> StatusOf(file.format, file.truth[i])]
       /\ once' = (\A i \in DOMAIN list : seen[i] = NoResult)
       /\ named' = (named /\ \E k \in DOMAIN file.format.columns : file.format.columns[k].is = "client")
  /\ job' = [job EXCEPT ![j] = [at |-> "written", file |-> {}]]
  /\ UNCHANGED <<list, truth, report>>

(* The file is kept in the directory of the reports, or cannot be and the  *)
(* job comes back; it comes back after a death of the process, too.        *)
Keep(j) ==
  /\ job[j].at = "written"
  /\ report' = "ready"
  /\ job' = [job EXCEPT ![j] = Off]
  /\ UNCHANGED <<list, truth, row, seen, once, named>>

Return(j) ==
  /\ job[j].at \in {"asked", "written"}
  /\ job' = [job EXCEPT ![j].at = "queued"]
  /\ UNCHANGED <<list, truth, row, report, seen, once, named>>

Orders == {o \in [DOMAIN list -> DOMAIN list] : \A i, k \in DOMAIN list : o[i] = o[k] => i = k}

Next ==
  \/ \E i \in DOMAIN list, c \in Codes : Settle(i, c)
  \/ \E j \in Jobs :
       \/ \E again \in BOOLEAN : Order(j, again)
       \/ Begin(j) \/ NotYet(j) \/ NoReport(j) \/ Apply(j) \/ Keep(j) \/ Return(j)
       \/ \E format \in Formats, order \in Orders : Fetch(j, format, order)

Spec == Init /\ [][Next]_vars

-----------------------------------------------------------------------------
TypeOK ==
  /\ list \in Lists
  /\ truth \in [DOMAIN list -> Codes \cup {Sent}]
  /\ row \in [DOMAIN list -> [id : {NoId} \cup DOMAIN list, status : {NoResult} \cup S!GatewayStatus]]
  /\ report \in {"none", "pending", "ready", "failed"}
  /\ \A j \in Jobs : job[j].at \in {"off", "queued", "asked", "fetched", "written"}
  /\ seen \in [DOMAIN list -> {NoResult} \cup S!GatewayStatus]
  /\ {once, named} \subseteq BOOLEAN

(* Two recipients are told apart by their number and client; a number is   *)
(* mixed when one of its recipients has a client and another none.         *)
Distinct == \A i, k \in DOMAIN list : list[i] = list[k] => i = k
Mixed    == \E i, k \in DOMAIN list : /\ list[i].dest = list[k].dest
                                      /\ (list[i].client = NoClient) # (list[k].client = NoClient)

(* Once files have named the clients, a recipient has the result Multiinfo *)
(* gave it in the last file, whatever the order of the rows and columns    *)
(* and however often a file was applied; and the first file that names     *)
(* nobody still counts right.                                              *)
ResultsAreTrue ==
  /\ named /\ Distinct => \A i \in DOMAIN list : row[i].status = seen[i]
  /\ once /\ Distinct /\ ~Mixed /\ report = "ready" => Summary(Shown) = Summary(seen)

(* Why: the files of the jobs are of this package, and what is written of  *)
(* the recipients comes of them. The rows of the first file, when no two   *)
(* recipients are twins and no number is mixed, have all found a recipient *)
(* of their number, each its own.                                          *)
FilesSound ==
  /\ job \in [Jobs -> [at : {"off", "queued", "asked", "fetched", "written"},
                       file : SUBSET [format : Formats, order : Orders,
                                      truth : [DOMAIN list -> Codes \cup {Sent}]]]]

Untouched == \A i \in DOMAIN list : row[i] = Nothing /\ seen[i] = NoResult

Matched ==
  /\ \A i \in DOMAIN list : row[i].id \in DOMAIN list /\ row[i].status = seen[row[i].id]
  /\ \A i, k \in DOMAIN list : row[i].id = row[k].id => i = k

RowsSound ==
  /\ (\A i \in DOMAIN list : seen[i] = NoResult) => Untouched
  /\ once /\ Distinct /\ ~Mixed => Untouched \/ Matched
  /\ named /\ Distinct => \A i \in DOMAIN list : row[i].status = seen[i]

IInv == TypeOK /\ FilesSound /\ RowsSound

(* Not so: a file without clients, applied a second time, finds everyone   *)
(* matched, and what is new in it is dropped.                              *)
RepeatCounts == Distinct /\ ~Mixed /\ report = "ready" => Summary(Shown) = Summary(seen)

(* Not so: recipients with one number and no client have the last row all. *)
TwinsCount == once /\ report = "ready" => Summary(Shown) = Summary(seen)
=============================================================================
