-------------------------------- MODULE Texts --------------------------------
(***************************************************************************)
(* The length of a text on its way to an SMS: in which encoding it goes,   *)
(* how many slots and parts that takes (src/src/text/measure.ts,           *)
(* src/src/text/segment.ts), how an integration shortens one that takes    *)
(* too many (fitToParts in src/src/integrations/pipeline.ts), and the      *)
(* limit of the key it meets afterwards (submitMessages).                  *)
(*                                                                         *)
(* A character is one of four kinds, for that is all its cost depends on.  *)
(* The limits of a part are constants, so that a short text can cross      *)
(* them; the code has 160, 153, 70 and 67.                                 *)
(***************************************************************************)
EXTENDS Integers, FiniteSets, SequencesExt

CONSTANTS
  Alphabet,                  \* the kinds the texts are made of
  MaxLength,
  GsmSingle, GsmMulti,       \* slots of the only part, of one of several
  UcsSingle, UcsMulti,
  MaxParts                   \* 9 in the code

VARIABLES
  text,       \* what the template gave
  request,    \* the encoding asked for
  limit,      \* maxParts of the integration
  keyLimit,   \* maxParts of the key
  overflow,   \* what the integration does with an excess
  lo, hi,     \* the search for the longest text that fits
  at, cut     \* how far it is, and the text that goes

given == <<text, request, limit, keyLimit, overflow>>
vars  == <<given, lo, hi, at, cut>>

(* In the alphabet of GSM; there, but with an escape; outside it; outside  *)
(* it and of two units in UTF-16.                                          *)
Kinds    == {"basic", "escaped", "other", "wide"}
Requests == {"auto", "gsm", "unicode"}
Texts    == UNION {[1..n -> Alphabet] : n \in 0..MaxLength}

-----------------------------------------------------------------------------
(* measureText: `auto` takes GSM for as long as everything is in it.       *)
Encoding(t, r) ==
  CASE r = "gsm"     -> "gsm"
    [] r = "unicode" -> "ucs2"
    [] r = "auto"    -> IF \A i \in DOMAIN t : t[i] \in {"basic", "escaped"} THEN "gsm" ELSE "ucs2"

(* Under a forced GSM the operator replaces what is outside it.            *)
Cost(c, e) ==
  IF e = "gsm" THEN (IF c = "escaped" THEN 2 ELSE 1)
               ELSE (IF c = "wide" THEN 2 ELSE 1)

Slots(t, e) ==
  LET sum[k \in 0..Len(t)] == IF k = 0 THEN 0 ELSE sum[k - 1] + Cost(t[k], e)
  IN sum[Len(t)]

Single(e)   == IF e = "gsm" THEN GsmSingle ELSE UcsSingle
Multi(e)    == IF e = "gsm" THEN GsmMulti ELSE UcsMulti

(* Mutant: the cost of the character that is next does not count. *)
FullAfter(used, c, e) == used >= Multi(e)

Full(used, c, e) == used + Cost(c, e) > Multi(e)

(* segmentText: the parts and the characters they begin with. *)
Place(s, i, c, e) ==
  IF Full(s.used, c, e)
  THEN [parts |-> s.parts + 1, used |-> Cost(c, e), begins |-> s.begins \cup {i}]
  ELSE [s EXCEPT !.used = @ + Cost(c, e)]

Segments(t, e) ==
  LET after[k \in 0..Len(t)] ==
        IF k = 0 THEN [parts |-> 1, used |-> 0, begins |-> {}] ELSE Place(after[k - 1], k, t[k], e)
  IN IF Slots(t, e) <= Single(e) THEN [parts |-> 1, used |-> Slots(t, e), begins |-> {}] ELSE after[Len(t)]

Parts(t)     == Segments(t, Encoding(t, request)).parts
Fits(t, max) == Parts(t) <= max

(* TooManyPartsError: how many slots it asks to remove. *)
SlotsOver(t, max) == Slots(t, Encoding(t, request)) - max * Multi(Encoding(t, request))

-----------------------------------------------------------------------------
(* cutAt: three dots, for an ellipsis is outside GSM. *)
Upto(n)  == SubSeq(text, 1, n)
CutAt(n) ==
  Upto(n) \o IF Encoding(Upto(n), request) = "gsm" THEN <<"basic", "basic", "basic">> ELSE <<"other">>

Init ==
  /\ text     \in Texts
  /\ request  \in Requests
  /\ limit    \in 1..MaxParts
  /\ keyLimit \in 1..MaxParts
  /\ overflow \in {"truncate", "reject"}
  /\ lo = 0 /\ hi = Len(text)
  /\ at = "whole" /\ cut = <<>>

Whole ==
  /\ at = "whole" /\ Fits(text, limit)
  /\ at' = "submit" /\ cut' = text
  /\ UNCHANGED <<given, lo, hi>>

Reject ==
  /\ at = "whole" /\ ~Fits(text, limit) /\ overflow = "reject"
  /\ at' = "refused"
  /\ UNCHANGED <<given, lo, hi, cut>>

Shorten ==
  /\ at = "whole" /\ ~Fits(text, limit) /\ overflow = "truncate"
  /\ at' = "search"
  /\ UNCHANGED <<given, lo, hi, cut>>

Middle == (lo + hi + 1) \div 2

(* Mutant: the dots do not count. *)
TriedBare(n) == Fits(Upto(n), limit)

Tried(n) == Fits(CutAt(n), limit)

Search ==
  /\ at = "search" /\ lo < hi
  /\ IF Tried(Middle) THEN lo' = Middle /\ UNCHANGED hi
                      ELSE hi' = Middle - 1 /\ UNCHANGED lo
  /\ UNCHANGED <<given, at, cut>>

Found ==
  /\ at = "search" /\ lo = hi
  /\ at' = "submit" /\ cut' = CutAt(lo)
  /\ UNCHANGED <<given, lo, hi>>

(* submitMessages: the lower of the two limits. *)
Submit ==
  /\ at = "submit"
  /\ at' = IF Fits(cut, IF limit < keyLimit THEN limit ELSE keyLimit) THEN "sent" ELSE "refused"
  /\ UNCHANGED <<given, lo, hi, cut>>

Next == Whole \/ Reject \/ Shorten \/ Search \/ Found \/ Submit

Spec == Init /\ [][Next]_vars /\ WF_vars(Next)

-----------------------------------------------------------------------------
(* The pieces of t that begin at 1 and at every member of begins. *)
Pieces(t, begins) ==
  {SubSeq(t, b, Min({a - 1 : a \in {x \in begins : x > b} \cup {Len(t) + 1}})) : b \in begins \cup {1}}

Holds(t, begins, e) == \A p \in Pieces(t, begins) : Slots(p, e) <= Multi(e)

(* The fewest parts that hold t, over every way to divide it. *)
Fewest(t, e) ==
  LET f[n \in 0..Len(t)] ==
        IF n = 0 THEN 0
        ELSE 1 + Min({f[m] : m \in {k \in 0..n - 1 : Slots(SubSeq(t, k + 1, n), e) <= Multi(e)}})
  IN IF Slots(t, e) <= Single(e) THEN 1 ELSE f[Len(t)]

(* The model keeps its types. *)
TypeOK ==
  /\ text \in Seq(Kinds) /\ cut \in Seq(Kinds)
  /\ request \in Requests /\ overflow \in {"truncate", "reject"}
  /\ {limit, keyLimit} \subseteq 1..MaxParts
  /\ hi \in 0..Len(text) /\ lo \in 0..hi
  /\ at \in {"whole", "search", "submit", "sent", "refused"}

(* Why: halving keeps the longest head that fits, dots and all, between   *)
(* lo and hi.                                                              *)
Between == Tried(lo) /\ (hi < Len(text) => ~Tried(hi + 1))

SearchSound ==
  /\ at = "whole" => lo = 0 /\ hi = Len(text)
  /\ at = "search" => Between
  /\ at = "submit" => cut = text \/ (cut = CutAt(lo) /\ lo = hi /\ Between)

IInv == TypeOK /\ SearchSound

(* No part of what is sent is over its size, and no other way to divide    *)
(* the text would have taken fewer parts.                                  *)
PartsAreFewest ==
  at = "sent" =>
    LET e == Encoding(cut, request)
        s == Segments(cut, e)
    IN /\ s.parts = Fewest(cut, e)
       /\ s.parts > 1 => Holds(cut, s.begins, e)

(* A shortened text fits its limit with its dots, and one more character   *)
(* would not have: halving finds the longest head, although the encoding,  *)
(* and with it the size of a part, changes along the text.                 *)
CutIsLongest ==
  (at = "submit" /\ cut # text) =>
    /\ cut = CutAt(lo) /\ Fewest(cut, Encoding(cut, request)) <= limit
    /\ \A n \in lo + 1 .. Len(text) : Fewest(CutAt(n), Encoding(CutAt(n), request)) > limit

(* docs/integracje.md: with "shorten and send" the SMS holds the beginning *)
(* of the text. (Not so when the key allows fewer parts than the           *)
(* integration: the text is cut to the limit of the integration and then   *)
(* refused for that of the key.)                                           *)
ShortenedIsSent == at = "refused" => overflow = "reject"

(* docs/api.md: the message of too_many_parts names how many slots to      *)
(* remove. (Not so: for a limit of one part it counts by the size of a     *)
(* part of several, and a slot that an escaped character leaves empty at   *)
(* the end of a part is not counted at all.)                               *)
OverIsLeast ==
  (at = "whole" /\ ~Fits(text, limit)) =>
    LET e == Encoding(text, request)
    IN SlotsOver(text, limit) = Slots(text, e) - (IF limit = 1 THEN Single(e) ELSE limit * Multi(e))
=============================================================================
