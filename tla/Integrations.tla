---------------------------- MODULE Integrations ----------------------------
(***************************************************************************)
(* The components that turn what other applications, flows, mailboxes and  *)
(* the network send into SMS, side by side. They share no state, so a      *)
(* behaviour moves one of them, which is chosen at the beginning; the      *)
(* others stay as they began.                                              *)
(***************************************************************************)
EXTENDS Integers, Sequences, FiniteSets

CONSTANTS
  Moving,    \* the components that are explored
  (* Hooks *)
  Events, Calls, HookLimit,
  (* FlowCalls *)
  FlowPhones, FlowLists, FlowKeys, FlowLimit, FlowRecipients,
  (* MailIn *)
  Mails, Ids, IdOf, Known, Polls, MaxUid, MaxValid, MaxFetch, MaxEvents,
  (* Threads *)
  ThreadKeys, Accounts, Services, Numbers, AccountOf, Allowed, Outs, Ins,
  Desk, Service, MaxSms, MaxTickets, MaxSent,
  (* Reports *)
  Rows, FirstDelay, Schedule, TailDelay, Day, MailRetries, MaxTime,
  (* Texts *)
  Alphabet, MaxLength, GsmSingle, GsmMulti, UcsSingle, UcsMulti, MaxParts,
  (* Recipients *)
  Home, Countries, National, MinDigits, MaxDigits, Written, Reported, Names,
  MaxLines, Digits

ASSUME HooksAssumption == HookLimit \in Nat
(* The lists of groups name nobody twice (parseMemberLines).               *)
ASSUME FlowsAssumption ==
  /\ FlowLimit \in Nat /\ FlowRecipients \in Nat
  /\ IsFiniteSet(FlowPhones) /\ FlowPhones # {} /\ "nobody" \notin FlowPhones
  /\ \A l \in FlowLists : l \in Seq(FlowPhones) /\ \A i, k \in DOMAIN l : l[i] = l[k] => i = k
  /\ \E l \in FlowLists : \A m \in FlowLists : Len(m) <= Len(l)
ASSUME MailAssumption ==
  /\ IdOf \in [Mails -> Ids] /\ "none" \notin Ids /\ Known \subseteq Mails
  /\ MaxUid \in Nat \ {0} /\ MaxValid \in Nat \ {0}
ASSUME ThreadsAssumption ==
  /\ "none" \notin Outs \cup Numbers
  /\ AccountOf \in [ThreadKeys -> Accounts] /\ Allowed \in [ThreadKeys -> SUBSET Services]
  /\ MaxTickets \in Nat
ASSUME ReportsAssumption ==
  /\ FirstDelay \in Nat /\ TailDelay \in Nat /\ Day \in Nat
  /\ MailRetries \in Nat /\ MaxTime \in Nat /\ Day <= MaxTime + FirstDelay
  /\ Schedule \in Seq(Nat \X Nat)
(* A part of the wide alphabet holds half of what one of GSM does, or less. *)
ASSUME TextsAssumption ==
  /\ Alphabet \subseteq {"basic", "escaped", "other", "wide"} /\ MaxLength \in Nat /\ MaxParts \in Nat \ {0}
  /\ \A n \in {GsmSingle, GsmMulti, UcsSingle, UcsMulti} : n \in Nat /\ n >= 2
  /\ GsmSingle >= 2 * UcsSingle /\ GsmMulti >= 2 * UcsMulti
(* A number with its country is longer than one without, be there a zero   *)
(* before that; no country code begins with one. Nobody writes the zeros   *)
(* of a call abroad twice.                                                 *)
ASSUME RecipientsAssumption ==
  /\ National \in Nat /\ MinDigits \in Nat /\ MaxDigits \in Nat /\ National + 1 < MinDigits
  /\ MaxLines \in Nat
  /\ Home \in Seq(Digits)
  /\ \A c \in Countries : c \in Seq(Digits) /\ c # <<>> /\ c[1] # 0
  /\ \A n \in Written \cup Reported : n \in Seq(Digits)
  /\ \A n \in Written : Len(n) >= 4 => \E i \in 1..4 : n[i] # 0

VARIABLES
  which,    \* the component that moves
  hookRow, hookConfig, hookUsable, hookTokens, hookWindow, hookCall, hookSent,
  hookDecided, hookBroken, hookRepeated, hookPassed, hookTold, flowEnabled,
  flowUsable, flowList, flowWindow, flowPlaced, flowPackaged, flowAction,
  flowGot, flowEdited, flowOut, mailBox, mailUnread, mailValid, mailEnabled,
  mailState, mailSeen, mailPoll, mailEvents, mailSms, mailLooked, mailOld,
  mailChecked, mailTorn, mailDeaf, mailLost, threadKeyOf, threadGone,
  threadSms, threadOpen, threadMade, threadSent, reportNow, reportSettings,
  reportAt, reportStatus, reportFinal, reportWithdrawn, reportJob,
  reportReports, reportOutbox, reportWaived, textText, textRequest, textLimit, textKeyLimit, textOverflow,
  textLo, textHi, textAt, textCut, toCountry, toKind, toConfig, toList,
  toFrom, toDest

HooksOf == INSTANCE Hooks WITH
  Limit <- HookLimit, RecipientLimit <- 0,
  row <- hookRow, config <- hookConfig, usable <- hookUsable,
  tokens <- hookTokens, window <- hookWindow, call <- hookCall,
  sent <- hookSent, decided <- hookDecided, broken <- hookBroken,
  repeated <- hookRepeated, passed <- hookPassed, told <- hookTold

FlowCallsOf == INSTANCE FlowCalls WITH
  Phones <- FlowPhones, Lists <- FlowLists, Keys <- FlowKeys, Limit <- FlowLimit,
  RecipientLimit <- FlowRecipients, enabled <- flowEnabled,
  usable <- flowUsable, list <- flowList, window <- flowWindow,
  placed <- flowPlaced, packaged <- flowPackaged, action <- flowAction,
  got <- flowGot, edited <- flowEdited, out <- flowOut

MailInOf == INSTANCE MailIn WITH
  box <- mailBox, unread <- mailUnread, valid <- mailValid,
  enabled <- mailEnabled, state <- mailState, seen <- mailSeen,
  poll <- mailPoll, events <- mailEvents, sms <- mailSms,
  looked <- mailLooked, old <- mailOld, checked <- mailChecked,
  torn <- mailTorn, deaf <- mailDeaf, lost <- mailLost

ThreadsOf == INSTANCE Threads WITH
  Keys <- ThreadKeys, Account <- AccountOf, keyOf <- threadKeyOf,
  gone <- threadGone, sms <- threadSms, open <- threadOpen,
  made <- threadMade, sent <- threadSent

ReportsOf == INSTANCE Reports WITH
  First <- FirstDelay, now <- reportNow, settings <- reportSettings,
  at <- reportAt, status <- reportStatus, final <- reportFinal,
  withdrawn <- reportWithdrawn, job <- reportJob, reports <- reportReports,
  outbox <- reportOutbox, waived <- reportWaived

TextsOf == INSTANCE Texts WITH
  text <- textText, request <- textRequest, limit <- textLimit,
  keyLimit <- textKeyLimit, overflow <- textOverflow, lo <- textLo,
  hi <- textHi, at <- textAt, cut <- textCut

RecipientsOf == INSTANCE Recipients WITH
  country <- toCountry, kind <- toKind, config <- toConfig, list <- toList,
  from <- toFrom, dest <- toDest

-----------------------------------------------------------------------------
hookVars ==
  <<hookRow, hookConfig, hookUsable, hookTokens, hookWindow, hookCall,
  hookSent, hookDecided, hookBroken, hookRepeated, hookPassed, hookTold>>
flowVars ==
  <<flowEnabled, flowUsable, flowList, flowWindow, flowPlaced, flowPackaged,
  flowAction, flowGot, flowEdited, flowOut>>
mailVars ==
  <<mailBox, mailUnread, mailValid, mailEnabled, mailState, mailSeen,
  mailPoll, mailEvents, mailSms, mailLooked, mailOld, mailChecked, mailTorn,
  mailDeaf, mailLost>>
threadVars ==
  <<threadKeyOf, threadGone, threadSms, threadOpen, threadMade, threadSent>>
reportVars ==
  <<reportNow, reportSettings, reportAt, reportStatus, reportFinal,
  reportWithdrawn, reportJob, reportReports, reportOutbox, reportWaived>>
textVars ==
  <<textText, textRequest, textLimit, textKeyLimit, textOverflow, textLo,
  textHi, textAt, textCut>>
toVars == <<toCountry, toKind, toConfig, toList, toFrom, toDest>>

vars ==
  <<which, hookVars, flowVars, mailVars, threadVars, reportVars, textVars,
  toVars>>

(* Where a component may begin in several ways, one that stays put begins  *)
(* in one of them.                                                         *)
Init ==
  /\ which \in Moving
  /\ hookConfig \in IF which = "hooks" THEN HooksOf!Config
                    ELSE {[kind |-> "hook", asks |-> FALSE, skips |-> FALSE]}
  /\ flowList \in IF which = "flows" THEN FlowLists ELSE {CHOOSE l \in FlowLists : TRUE}
  /\ flowAction \in [FlowKeys -> IF which = "flows" THEN FlowCallsOf!Actions ELSE {"sms"}]
  /\ mailBox \in {<<m>> : m \in IF which = "mail-in" THEN Mails ELSE {CHOOSE m \in Mails : TRUE}}
  /\ threadKeyOf \in [Outs \cup Ins -> IF which = "threads" THEN ThreadKeys
                                        ELSE {CHOOSE k \in ThreadKeys : TRUE}]
  /\ textText \in IF which = "texts" THEN TextsOf!Texts ELSE {<<>>}
  /\ textRequest \in IF which = "texts" THEN TextsOf!Requests ELSE {"auto"}
  /\ textLimit \in IF which = "texts" THEN 1..MaxParts ELSE {1}
  /\ textKeyLimit \in IF which = "texts" THEN 1..MaxParts ELSE {1}
  /\ textOverflow \in IF which = "texts" THEN {"truncate", "reject"} ELSE {"reject"}
  /\ toCountry \in IF which = "recipients" THEN Countries ELSE {CHOOSE c \in Countries : TRUE}
  /\ toKind \in IF which = "recipients" THEN RecipientsOf!Kinds ELSE {"hook"}
  /\ HooksOf!Init /\ FlowCallsOf!Init /\ MailInOf!Init /\ ThreadsOf!Init
  /\ ReportsOf!Init /\ TextsOf!Init /\ RecipientsOf!Init

HooksMove ==
  /\ which = "hooks" /\ HooksOf!Next
  /\ UNCHANGED <<which, flowVars, mailVars, threadVars, reportVars, textVars, toVars>>

FlowsMove ==
  /\ which = "flows" /\ FlowCallsOf!Next
  /\ UNCHANGED <<which, hookVars, mailVars, threadVars, reportVars, textVars, toVars>>

MailInMoves ==
  /\ which = "mail-in" /\ MailInOf!Next
  /\ UNCHANGED <<which, hookVars, flowVars, threadVars, reportVars, textVars, toVars>>

ThreadsMove ==
  /\ which = "threads" /\ ThreadsOf!Next
  /\ UNCHANGED <<which, hookVars, flowVars, mailVars, reportVars, textVars, toVars>>

ReportsMove ==
  /\ which = "reports" /\ ReportsOf!Next
  /\ UNCHANGED <<which, hookVars, flowVars, mailVars, threadVars, textVars, toVars>>

TextsMove ==
  /\ which = "texts" /\ TextsOf!Next
  /\ UNCHANGED <<which, hookVars, flowVars, mailVars, threadVars, reportVars, toVars>>

RecipientsMove ==
  /\ which = "recipients" /\ RecipientsOf!Next
  /\ UNCHANGED <<which, hookVars, flowVars, mailVars, threadVars, reportVars, textVars>>

Next ==
  \/ HooksMove \/ FlowsMove \/ MailInMoves \/ ThreadsMove
  \/ ReportsMove \/ TextsMove \/ RecipientsMove

Spec == Init /\ [][Next]_vars

-----------------------------------------------------------------------------
(* One property for each component; its state keeps its types, too.        *)

(* Events: an event is sent once a day, however often the application      *)
(* repeats it; an identifier stays taken only for one that was decided;    *)
(* the storm guard lets no more through than its limit and tells once.     *)
EventsAreSentOnce ==
  which = "hooks" =>
    /\ HooksOf!TypeOK /\ HooksOf!SentOnce
    /\ HooksOf!TokensAreOwed /\ HooksOf!WindowHolds

(* Flows: one that loops stops at its limit of recipients, and a call that *)
(* is repeated with its key sends nobody an SMS twice while the list of    *)
(* its group stays what it was.                                            *)
FlowsAreBounded ==
  which = "flows" =>
    FlowCallsOf!TypeOK /\ FlowCallsOf!LoopsStop /\ FlowCallsOf!RepeatsSendNothing

(* Mailboxes: a mail brings one SMS at most, a stranger's mail with the    *)
(* same Message-ID silences none, and the floor passes no unread mail that *)
(* nobody decided about.                                                   *)
MailsAreTakenOnce ==
  which = "mail-in" =>
    /\ MailInOf!TypeOK /\ MailInOf!MailSendsOnce
    /\ MailInOf!StrangersSilenceNobody /\ MailInOf!NothingBelowFloor

(* Threads: what a call with the number of a ticket reaches belongs to the *)
(* key of the integration that was called.                                 *)
KeysStayApart ==
  [](which = "threads" => ThreadsOf!TypeOK) /\ ThreadsOf!KeysStayApart

(* Reports: what the last report tells stands, but for an SMS that somebody *)
(* asked to cancel and for one failure put in the place of another; it     *)
(* follows the first, and one that was promised is owed until it is        *)
(* written or unwanted.                                                    *)
ReportsAreKept ==
  which = "reports" =>
    ReportsOf!TypeOK /\ ReportsOf!OutcomeIsTold /\ ReportsOf!PromiseIsOwed

(* Texts: a shortened text is as long as its limit allows, and what is     *)
(* sent is divided into as few parts as can be.                            *)
TextsAreFull ==
  which = "texts" =>
    TextsOf!TypeOK /\ TextsOf!CutIsLongest /\ TextsOf!PartsAreFewest

(* Recipients: a form saved as it was opened keeps its list, and the       *)
(* numbers the pipeline names are the numbers the SMS goes to.             *)
ListsHold ==
  /\ [](which = "recipients" => RecipientsOf!TypeOK /\ RecipientsOf!ReopeningKeeps)
  /\ RecipientsOf!HandedIsSent

-----------------------------------------------------------------------------
(* Not so: see Threads. *)
ReplyReachesWriter == ThreadsOf!ReplyReachesWriter

(* Not so: see MailIn. *)
OutageCostsOne == MailInOf!OutageCostsOne

(* Not so: see Hooks. *)
RepetitionIsHeard == HooksOf!RepetitionIsHeard

(* Not so: see Texts. *)
ShortenedIsSent == TextsOf!ShortenedIsSent
=============================================================================
