------------------------------- MODULE Lists -------------------------------
(***************************************************************************)
(* Reading a long list page by page while it changes: messages sent and    *)
(* received in the API (src/src/api/messages.ts, src/src/api/inbound.ts)   *)
(* and the panel's messages, received messages, packages and audit log.    *)
(* All of them take rows with LIMIT and OFFSET, newest first, and ask for  *)
(* one row more than a page to see whether there is a next one.            *)
(*                                                                         *)
(* Rows are never deleted; which of them a list is about - whose they are, *)
(* a number, days - is for ever, but their statuses change. Identifiers    *)
(* are random, and the clock that dates the rows may be set back. One      *)
(* table stands for all of them; a row that a list is not about stands for *)
(* any such row.                                                           *)
(***************************************************************************)
EXTENDS Integers, FiniteSets

CONSTANTS
  Ids,         \* identifiers of rows, in their order
  Times,       \* moments rows are dated with
  Owners,      \* of rows: the key that reads, "ours", the gateway, "system", others
  Requests,    \* values of the parameter limit; below one stands for none
  Default, Largest, PageSize    \* rows on a page of the API and of the panel

VARIABLES
  rows,      \* the table: identifier |-> [at, of, status]
  asked,     \* what the reader asks for: [list, limit, filter]
  reading,   \* "no", "on" or "over", when the last page said there is no more
  offset,
  got,       \* the rows the reader has been given
  base,      \* the rows the list had when the reading began
  left       \* a row has left the list during the reading

vars == <<rows, asked, reading, offset, got, base, left>>

Transit == {"queued", "sent"}
After   == [queued |-> {"sent", "delivered"}, sent |-> {"delivered"}, delivered |-> {}]

-----------------------------------------------------------------------------
(* Which rows a list is about. *)
InStatus(r) == asked.filter = "transit" => r.status \in Transit
InDays(r)   == asked.filter = "days" => r.at = 0

Messages(r)      == r.of = "ours" /\ InStatus(r)
Inbound(r)       == r.of = "ours" /\ InDays(r)
PanelMessages(r) == InStatus(r)
PanelInbound(r)  == InDays(r)
Packages(r)      == r.of # "system"
Audit(r)         == r.of = "system"

Shows(r) ==
  CASE asked.list = "messages"       -> Messages(r)
    [] asked.list = "inbound"        -> Inbound(r)
    [] asked.list = "panel messages" -> PanelMessages(r)
    [] asked.list = "panel inbound"  -> PanelInbound(r)
    [] asked.list = "packages"       -> Packages(r)
    [] asked.list = "audit"          -> Audit(r)

Asks ==
  [list : {"messages"}, limit : Requests, filter : {"all", "transit"}]
  \cup [list : {"inbound"}, limit : Requests, filter : {"all", "days"}]
  \cup [list : {"panel messages"}, limit : {PageSize}, filter : {"all", "transit"}]
  \cup [list : {"panel inbound"}, limit : {PageSize}, filter : {"all", "days"}]
  \cup [list : {"packages", "audit"}, limit : {PageSize}, filter : {"all"}]

(* The limit of a page: a client's as far as it goes. *)
Limit == IF asked.limit >= 1 THEN (IF asked.limit < Largest THEN asked.limit ELSE Largest) ELSE Default

(* Mutant: rows of one moment come as an index on statuses has them. *)
NewerByStatus(table, i, k) ==
  LET Order(n) == <<table[n].at, [queued |-> 1, sent |-> 2, delivered |-> 3][table[n].status], n>>
  IN \E m \in 1..3 : Order(i)[m] > Order(k)[m] /\ \A n \in 1..m - 1 : Order(i)[n] = Order(k)[n]

Newer(table, i, k) ==
  table[i].at > table[k].at \/ (table[i].at = table[k].at /\ i > k)

Listed(table) == {i \in DOMAIN table : Shows(table[i])}

(* The place of a row in the list, counted from zero: the rows before it.  *)
Place(table, i) == Cardinality({k \in Listed(table) : Newer(table, k, i)})

(* Mutant: no row beyond the page is asked for. *)
AskedBare  == Limit
AskedRows  == Limit + 1

(* LIMIT and OFFSET: how many rows come, and those of them that are shown. *)
Came == LET there == Cardinality(Listed(rows)) - offset
        IN IF there < AskedRows THEN there ELSE AskedRows
Page == {i \in Listed(rows) : offset <= Place(rows, i) /\ Place(rows, i) < offset + Limit}

-----------------------------------------------------------------------------
Init ==
  /\ rows = <<>>
  /\ asked \in Asks
  /\ reading = "no"
  /\ offset = 0 /\ got = {} /\ base = {}
  /\ left = FALSE

Changed(table) ==
  /\ rows' = table
  /\ left' = (left \/ (reading = "on" /\ ~(Listed(rows) \subseteq Listed(table))))
  /\ UNCHANGED <<asked, reading, offset, got, base>>

Insert(i, at, of) ==
  /\ i \notin DOMAIN rows
  /\ Changed([k \in {i} \cup DOMAIN rows |->
       IF k = i THEN [at |-> at, of |-> of, status |-> "queued"] ELSE rows[k]])

Advance(i, status) ==
  /\ status \in After[rows[i].status]
  /\ Changed([rows EXCEPT ![i].status = status])

Start ==
  /\ reading = "no"
  /\ reading' = "on"
  /\ base' = Listed(rows)
  /\ UNCHANGED <<rows, asked, offset, got, left>>

Turn ==
  /\ reading = "on"
  /\ got' = got \cup Page
  /\ reading' = IF Came > Limit THEN "on" ELSE "over"
  /\ offset' = offset + Limit
  /\ UNCHANGED <<rows, asked, base, left>>

Next ==
  \/ \E i \in Ids, at \in Times, of \in Owners : Insert(i, at, of)
  \/ \E i \in DOMAIN rows : \E s \in After[rows[i].status] : Advance(i, s)
  \/ Start \/ Turn

Spec == Init /\ [][Next]_vars

-----------------------------------------------------------------------------
TypeOK ==
  /\ DOMAIN rows \subseteq Ids
  /\ \A i \in DOMAIN rows : rows[i] \in [at : Times, of : Owners, status : DOMAIN After]
  /\ asked \in Asks
  /\ reading \in {"no", "on", "over"}
  /\ offset \in Nat
  /\ got \cup base \subseteq Ids
  /\ left \in BOOLEAN

(* Whoever reads on as long as hasMore says so has seen every row that was *)
(* in the list when he began, although rows come and their statuses change *)
(* between the pages, unless rows have left the list.                      *)
NothingIsSkipped == reading = "over" /\ ~left => base \subseteq got

(* What makes it inductive: what was there when the reading began is read  *)
(* or has its place on a page still to come.                               *)
ToCome ==
  /\ reading = "no" => offset = 0
  /\ reading = "on" /\ ~left =>
       \A i \in base : i \in Listed(rows) /\ (i \in got \/ offset <= Place(rows, i))

IInv == TypeOK /\ ToCome /\ NothingIsSkipped

(* Not so: with a status asked for, rows that get another status move the  *)
(* others towards pages that have been read.                               *)
FilteredIsRead == reading = "over" => {i \in base : Shows(rows[i])} \subseteq got
=============================================================================
