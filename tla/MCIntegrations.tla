--------------------------- MODULE MCIntegrations ---------------------------
(***************************************************************************)
(* A small instance of Integrations. The members of the pairs a and b are  *)
(* interchangeable in every component that they belong to.                 *)
(***************************************************************************)
EXTENDS Integrations, TLC

CONSTANTS
  a1, a2, b1, b2, p1, p2, p3, m1, m2, i1, i2, k1, k2, s1, s2, o1, o2, o3,
  desk1, desk2, account,
  OneId    \* the mails have one Message-ID, and only one is known

(* Lists of a flow's group that grow, shrink and are empty or reordered. *)
ShortLists == {<<>>, <<p1>>, <<p1, p2>>, <<p2, p1>>, <<p1, p2, p3>>}

MailIds    == (m1 :> i1) @@ (m2 :> IF OneId THEN i1 ELSE i2)
KnownMails == IF OneId THEN {m1} ELSE {m1, m2}

(* Two keys of an account; the integrations o1 and o3 are about one desk.  *)
KeyAccount  == (k1 :> account) @@ (k2 :> account)
KeyServices == (k1 :> {s1}) @@ (k2 :> {s1, s2})
DeskOf      == (o1 :> desk1) @@ (o2 :> desk2) @@ (o3 :> desk1)
SendsFrom   == (o3 :> s1)

OneDelay == <<<<2, 1>>>>

(* Numbers with and without the code of a country, of two countries, too   *)
(* short, and with the zeros of a call abroad.                             *)
HomeCode        == <<4, 8>>
TwoCountries    == {<<4, 8>>, <<6>>}
WrittenNumbers  == {<<1, 2>>, <<0, 1, 2>>, <<0, 0, 4, 8, 1, 2>>, <<6, 6, 1, 2>>, <<1>>}
ReportedNumbers == {<<4, 8, 1, 2>>, <<6, 6, 1, 2>>, <<7>>}

Pairs == Permutations({a1, a2}) \cup Permutations({b1, b2})
=============================================================================
