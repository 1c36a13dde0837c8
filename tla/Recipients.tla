----------------------------- MODULE Recipients -----------------------------
(***************************************************************************)
(* Whom an integration sends an SMS to: the numbers people write           *)
(* (src/src/text/phone.ts), the lists of a form                            *)
(* (src/src/integrations/group/members.ts, src/src/admin/group-form.ts,    *)
(* src/src/admin/power-automate-form.ts), the numbers of a webhook, of a   *)
(* mail (src/src/integrations/mail/recipients.ts) and of a group           *)
(* (src/src/integrations/pipeline.ts), up to what submitMessages writes.   *)
(*                                                                         *)
(* A number is its digits: spaces, dashes, brackets, dots and the plus are *)
(* dropped wherever they stand. How many digits a number has are           *)
(* constants; the code has 9, 11 and 15. Numbers with the international    *)
(* prefix twice are not written here. Names in a group's text, conditions, *)
(* the storm guard and the text are of other modules.                      *)
(***************************************************************************)
EXTENDS Integers, FiniteSets, SequencesExt

CONSTANTS
  Digits,      \* the digits numbers are written with
  Home,        \* the country code whose national numbers have a known length
  Countries,   \* default country codes an account may be given
  National,    \* digits of a number without its country code
  MinDigits, MaxDigits,
  Written,     \* numbers as people and applications write them
  Names,       \* names beside a number, NoName among them
  Reported,    \* numbers as the operator reports them
  MaxLines     \* bound: numbers on a list

VARIABLES
  country,   \* the default country code of the account
  kind,      \* of the integration
  config,    \* its lists
  list,      \* the numbers it hands to submitMessages
  from,      \* the number a received SMS came from
  dest       \* the numbers written to the table messages

vars == <<country, kind, config, list, from, dest>>

NoName == "none"
Bad    == <<>>
Kinds  == {"group", "flow", "hook", "mail"}

-----------------------------------------------------------------------------
(* normalizePhone: Bad is InvalidPhoneError. *)
Normal(n, code) ==
  LET w == IF Len(n) = National THEN code \o n ELSE n
  IN IF /\ Len(w) \in MinDigits..MaxDigits
        /\ IsPrefix(Home, w) => Len(w) = Len(Home) + National
     THEN w ELSE Bad

(* normalizeSender *)
Sender(n, code) == IF Normal(n, code) = Bad THEN n ELSE Normal(n, code)

(* withoutTrunkPrefix: a zero before a national number. *)
Untrunked(n, code) ==
  IF code = Home /\ Len(n) = National + 1 /\ n[1] = 0 THEN Tail(n) ELSE n

(* normalizeRecipient *)
Recipient(n, code) ==
  IF IsPrefix(<<0, 0>>, n) THEN Normal(SubSeq(n, 3, Len(n)), code) ELSE Normal(Untrunked(n, code), code)

-----------------------------------------------------------------------------
Line       == [number : Written, name : Names]
Upto(S)    == UNION {[1..n -> S] : n \in 0..MaxLines}
Phones(ms) == [i \in DOMAIN ms |-> ms[i].phone]

(* parseMemberLines: one line that is wrong refuses the whole list; of a   *)
(* number that is repeated the first line counts.                          *)
Wrong(lines, code) == \E i \in DOMAIN lines : Recipient(lines[i].number, code) = Bad

(* Mutant: a number is compared as it is written. *)
AddWritten(ms, l, code) ==
  LET p == Recipient(l.number, code)
  IN IF \E i \in DOMAIN ms : ms[i].phone = l.number THEN ms ELSE Append(ms, [phone |-> p, name |-> l.name])

Add(ms, l, code) ==
  LET p == Recipient(l.number, code)
  IN IF \E i \in DOMAIN ms : ms[i].phone = p THEN ms ELSE Append(ms, [phone |-> p, name |-> l.name])

Members(lines, code) ==
  LET after[k \in 0..Len(lines)] == IF k = 0 THEN <<>> ELSE Add(after[k - 1], lines[k], code)
  IN after[Len(lines)]

(* memberLines *)
Lines(ms) == [i \in DOMAIN ms |-> [number |-> ms[i].phone, name |-> ms[i].name]]

Empty == [mode |-> "lists", senders |-> <<>>, recipients |-> <<>>, members |-> <<>>]

(* groupFormToConfig: the lists of the other mode are saved empty. A group *)
(* that two people cannot write to is refused.                             *)
GroupRefused(f, code) ==
  IF f.mode = "lists"
  THEN \/ Wrong(f.senders, code) \/ f.senders = <<>>
       \/ Wrong(f.recipients, code) \/ f.recipients = <<>>
  ELSE Wrong(f.members, code) \/ Len(Members(f.members, code)) < 2

GroupConfig(f, code) ==
  IF f.mode = "lists"
  THEN [Empty EXCEPT !.senders = Members(f.senders, code), !.recipients = Phones(Members(f.recipients, code))]
  ELSE [Empty EXCEPT !.mode = "closed", !.members = Members(f.members, code)]

(* groupConfigToValues: what the form shows when it is opened again. *)
GroupValues(c) ==
  [mode |-> c.mode, senders |-> Lines(c.senders), members |-> Lines(c.members),
   recipients |-> [i \in DOMAIN c.recipients |-> [number |-> c.recipients[i], name |-> NoName]]]

(* paFormToConfig, paConfigToValues: one list, which may be empty. *)
FlowConfig(f, code) == [Empty EXCEPT !.members = Members(f.members, code)]
FlowValues(c)       == [Empty EXCEPT !.members = Lines(c.members)]

(* The fallback list of a webhook or of a mailbox stays as it is written.  *)
RawConfig(f) == [Empty EXCEPT !.recipients = f.recipients]

Init ==
  /\ country \in Countries
  /\ kind    \in Kinds
  /\ config  = Empty
  /\ list    = <<>> /\ from = Bad /\ dest = <<>>

(* Bound: lists are saved before anything is sent. What is sent depends on *)
(* the lists as they are, never on those before.                           *)
Unsent == list = <<>>

(* The form of the integration is saved. *)
SaveGroup ==
  /\ kind = "group" /\ Unsent
  /\ \E f \in [mode : {"lists"}, senders : Upto(Line), recipients : Upto(Line), members : {<<>>}]
              \cup [mode : {"closed"}, senders : {<<>>}, recipients : {<<>>}, members : Upto(Line)] :
       /\ ~GroupRefused(f, country)
       /\ config' = GroupConfig(f, country)
  /\ UNCHANGED <<country, kind, list, from, dest>>

SaveFlow ==
  /\ kind = "flow" /\ Unsent
  /\ \E f \in [mode : {"lists"}, senders : {<<>>}, recipients : {<<>>}, members : Upto(Line)] :
       /\ ~Wrong(f.members, country)
       /\ config' = FlowConfig(f, country)
  /\ UNCHANGED <<country, kind, list, from, dest>>

SaveRaw ==
  /\ kind \in {"hook", "mail"} /\ Unsent
  /\ \E r \in Upto(Written) : config' = RawConfig([Empty EXCEPT !.recipients = r])
  /\ UNCHANGED <<country, kind, list, from, dest>>

(* The account gets another country code. *)
ChangeCountry ==
  /\ \E c \in Countries \ {country} : country' = c
  /\ UNCHANGED <<kind, config, list, from, dest>>

-----------------------------------------------------------------------------
(* submitMessages: all of them or none. *)
Submit(l) ==
  /\ list' = l
  /\ dest' = IF \E i \in DOMAIN l : Normal(l[i], country) = Bad THEN <<>>
             ELSE [i \in DOMAIN l |-> Normal(l[i], country)]

(* groupSender, groupRecipients: a closed group without the one who writes. *)
Writers == IF config.mode = "closed" THEN Phones(config.members) ELSE Phones(config.senders)

(* Mutant: in a closed group the writer is told, too. *)
EverybodyOf(p) == IF config.mode = "closed" THEN Phones(config.members) ELSE config.recipients

Without(l, x) ==
  LET after[k \in 0..Len(l)] ==
        IF k = 0 THEN <<>> ELSE IF l[k] = x THEN after[k - 1] ELSE Append(after[k - 1], l[k])
  IN after[Len(l)]

GroupOf(p) ==
  IF config.mode = "closed" THEN Without(Phones(config.members), p) ELSE config.recipients

Once(out, x) == IF Contains(out, x) THEN out ELSE Append(out, x)

Distinct(l) ==
  LET after[k \in 0..Len(l)] == IF k = 0 THEN <<>> ELSE Once(after[k - 1], l[k])
  IN after[Len(l)]

Sms(n) ==
  LET p == Sender(n, country)
  IN /\ kind = "group" /\ Contains(Writers, p) /\ GroupOf(p) # <<>>
     /\ from' = p
     /\ Submit(Distinct(GroupOf(p)))
     /\ UNCHANGED <<country, kind, config>>

(* The group action of a flow. *)
Flow ==
  /\ kind = "flow" /\ config.members # <<>>
  /\ Submit(Phones(config.members))
  /\ UNCHANGED <<country, kind, config, from>>

(* rawRecipients: the numbers of the payload, else the sender of the SMS   *)
(* it answers, else the fallback list; a bad number refuses them all.      *)
Raw(numbers, thread) ==
  IF numbers # <<>> THEN numbers ELSE IF thread # Bad THEN <<thread>> ELSE config.recipients

Hook(numbers, n) ==
  LET l == Raw(numbers, Sender(n, country))
  IN /\ kind = "hook" /\ l # <<>>
     /\ \A i \in DOMAIN l : Recipient(l[i], country) # Bad
     /\ Submit([i \in DOMAIN l |-> Recipient(l[i], country)])
     /\ UNCHANGED <<country, kind, config, from>>

-----------------------------------------------------------------------------
(* splitSegment: groups of digits become one number for as long as it is   *)
(* shorter than a national one.                                            *)
Join(out, group) ==
  IF out # <<>> /\ Len(Last(out)) < National
  THEN [out EXCEPT ![Len(out)] = @ \o group] ELSE Append(out, group)

Split(groups) ==
  LET after[k \in 0..Len(groups)] == IF k = 0 THEN <<>> ELSE Join(after[k - 1], groups[k])
  IN after[Len(groups)]

(* numbersOf, pullRecipients: nothing at all when one piece is no number.  *)
Pulled(groups) ==
  IF \E i \in DOMAIN Split(groups) : Len(Split(groups)[i]) \notin National..MaxDigits
  THEN <<>> ELSE Split(groups)

(* prepareMail: of the numbers in a mail the bad ones are left out; on the *)
(* list of the sender or of the mailbox one refuses the mail.              *)
Level(pulled, own) ==
  IF pulled # <<>> THEN pulled ELSE IF own # <<>> THEN own ELSE config.recipients

Good(l) == Without([i \in DOMAIN l |-> Recipient(l[i], country)], Bad)

Mail(groups, own) ==
  LET pulled == Pulled(groups)
      l == Level(pulled, own)
  IN /\ kind = "mail" /\ Good(l) # <<>>
     /\ pulled # <<>> \/ Len(Good(l)) = Len(l)
     /\ Submit(Distinct(Good(l)))
     /\ UNCHANGED <<country, kind, config, from>>

Next ==
  \/ SaveGroup \/ SaveFlow \/ SaveRaw \/ ChangeCountry \/ Flow
  \/ \E n \in Reported : Sms(n)
  \/ \E l \in Upto(Written) : \E n \in Reported \cup {Bad} : Hook(l, n)
  \/ \E g \in Upto(Written) : \E own \in {<<>>} \cup {<<n>> : n \in Written} : Mail(g, own)

Spec == Init /\ [][Next]_vars

-----------------------------------------------------------------------------
(* The lists keep their types. *)
TypeOK ==
  /\ country \in Countries /\ kind \in Kinds
  /\ \A l \in {list, dest, config.recipients} : l \in Seq(Seq(Digits))
  /\ \A ms \in {config.senders, config.members} : \A i \in DOMAIN ms : ms[i].name \in Names

(* Why: what a form saves of a number stays as it is, in any country, and  *)
(* a list has it once.                                                     *)
Member == [phone : Seq(Digits), name : Names]

Settled(p) ==
  p \in Seq(Digits) \ {Bad} /\ \A c \in Countries : Normal(p, c) = p /\ Recipient(p, c) = p

SettledList(phones) == IsInjective(phones) /\ \A i \in DOMAIN phones : Settled(phones[i])

ConfigSound ==
  /\ config \in [mode : {"lists", "closed"}, senders : Seq(Member),
                 recipients : Seq(Seq(Digits)), members : Seq(Member)]
  /\ kind \in {"group", "flow"} =>
       /\ SettledList(Phones(config.senders)) /\ SettledList(Phones(config.members))
       /\ SettledList(config.recipients)
  /\ kind = "group" =>
       \/ config = Empty
       \/ config.mode = "lists" /\ config.members = <<>> /\ <<>> \notin {config.senders, config.recipients}
       \/ config.mode = "closed" /\ config.senders = <<>> /\ config.recipients = <<>> /\ Len(config.members) >= 2
  /\ kind = "flow" => config.mode = "lists" /\ config.senders = <<>> /\ config.recipients = <<>>

IInv == TypeOK /\ ConfigSound

(* A form that is opened again and saved as it is keeps the lists, also    *)
(* when the country code of the account has changed in between.            *)
ReopeningKeeps ==
  /\ (kind = "group" /\ config # Empty) =>
       /\ ~GroupRefused(GroupValues(config), country)
       /\ GroupConfig(GroupValues(config), country) = config
  /\ kind = "flow" => FlowConfig(FlowValues(config), country) = [config EXCEPT !.mode = "lists"]

(* What submitMessages makes of the numbers is what the pipeline handed    *)
(* over: the report to the sender of a mail, the entry in the journal and  *)
(* the confirmation of a group name the numbers that get the SMS. Of a     *)
(* group and of a mail nobody gets it twice, and never the writer to a     *)
(* closed group.                                                           *)
HandedIsSent ==
  [][ list' # list =>
        /\ dest' = list'
        /\ kind # "hook" => IsInjective(dest')
        /\ (kind = "group" /\ config.mode = "closed") => ~Contains(dest', from') ]_vars
=============================================================================
