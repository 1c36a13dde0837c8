------------------------------- MODULE Threads -------------------------------
(***************************************************************************)
(* A conversation over two integrations: one hands a received SMS to an    *)
(* application, which answers with the number of a ticket; later the       *)
(* application calls the address of the other with that number, and the    *)
(* SMS goes to whoever wrote the first one (src/src/worker/integrations.ts,*)
(* src/src/worker/webhook.ts, src/src/store/inbound-messages.ts,           *)
(* runInbound in src/src/integrations/pipeline.ts, submitMessages in       *)
(* src/src/api/submit.ts).                                                 *)
(*                                                                         *)
(* How a delivery is queued, repeated and given up is WebhookDelivery;     *)
(* conditions, limits and the text are of Hooks and Texts.                 *)
(***************************************************************************)
EXTENDS Integers, FiniteSetsExt, Sequences

CONSTANTS
  Keys, Accounts, Services, Numbers,
  Account,        \* the account of a key
  Allowed,        \* the services of a key
  Outs, Ins,      \* integrations: to an application, and from one
  Desk,           \* the application an integration is about
  Service,        \* the service an integration of Ins sends from
  MaxSms, MaxTickets, MaxSent    \* bounds

VARIABLES
  keyOf,   \* the key of an integration, which it keeps
  gone,    \* integrations that were removed
  sms,     \* the table inbound_messages
  open,    \* deliveries that are not over
  made,    \* the tickets of the applications, and what they were made of
  sent     \* the messages that were written

vars == <<keyOf, gone, sms, open, made, sent>>

None == "none"

Init ==
  /\ keyOf \in [Outs \cup Ins -> Keys]
  /\ \A i \in Ins : Service[i] \in Allowed[keyOf[i]]
  /\ gone = {} /\ sms = <<>> /\ open = {} /\ made = {} /\ sent = <<>>

-----------------------------------------------------------------------------
(* inboundListenerKeyIds, emitIntegrations: every integration of a key     *)
(* with access to the service; a condition, a limit or a template that     *)
(* fails may leave any of them out.                                        *)
Listening(a, s) == {o \in Outs \ gone : Account[keyOf[o]] = a /\ s \in Allowed[keyOf[o]]}

Handed(n, os) == {[sms |-> n, out |-> o, at |-> "queued", ticket |-> 0] : o \in os}

(* An SMS that answers a notification of the gateway is told to nobody.    *)
Receive ==
  /\ Len(sms) < MaxSms
  /\ \E a \in Accounts, s \in Services, p \in Numbers, system \in BOOLEAN :
       /\ sms' = Append(sms, [account |-> a, service |-> s, sender |-> p, system |-> system,
                              ref |-> 0, via |-> None])
       /\ \E os \in SUBSET (IF system THEN {} ELSE Listening(a, s)) :
            open' = open \cup Handed(Len(sms) + 1, os)
  /\ UNCHANGED <<keyOf, gone, made, sent>>

(* The application makes a ticket; each counts its own. The worker waits   *)
(* for several answers at a time.                                          *)
Ticket(d) == Cardinality({x \in made : x.desk = d}) + 1

Call(x) ==
  LET d == Desk[x.out]
  IN /\ x.at = "queued" /\ Ticket(d) <= MaxTickets
     /\ made' = made \cup {[desk |-> d, out |-> x.out, ticket |-> Ticket(d), sms |-> x.sms]}
     /\ open' = (open \ {x}) \cup {[x EXCEPT !.at = "answered", !.ticket = Ticket(d)]}
     /\ UNCHANGED <<keyOf, gone, sms, sent>>

(* The answer is lost, or the process dies with it: the delivery is made   *)
(* again, and again makes a ticket.                                        *)
Lost(x) ==
  /\ x.at = "answered"
  /\ open' = (open \ {x}) \cup (IF x.out \in gone THEN {} ELSE {[x EXCEPT !.at = "queued", !.ticket = 0]})
  /\ UNCHANGED <<keyOf, gone, sms, made, sent>>

(* The delivery is over without a number: the answer has no such field,    *)
(* the application refused, the last attempt failed, or the process died   *)
(* between the two writes.                                                 *)
Over(x) ==
  /\ open' = open \ {x}
  /\ UNCHANGED <<keyOf, gone, sms, made, sent>>

(* setExternalRef: one number for an SMS, of the integration that was      *)
(* last. The database refuses it for one that was removed meanwhile.       *)
Store(x) ==
  /\ x.at = "answered" /\ x.out \notin gone
  /\ sms' = [sms EXCEPT ![x.sms].ref = x.ticket, ![x.sms].via = x.out]
  /\ open' = open \ {x}
  /\ UNCHANGED <<keyOf, gone, made, sent>>

-----------------------------------------------------------------------------
(* An integration is removed: its deliveries go, and the numbers it gave   *)
(* lose it. A call under way goes on.                                      *)
Remove(o) ==
  /\ o \notin gone
  /\ gone' = gone \cup {o}
  /\ open' = {x \in open : x.out # o \/ x.at = "answered"}
  /\ sms'  = [n \in DOMAIN sms |-> IF sms[n].via = o THEN [sms[n] EXCEPT !.via = None] ELSE sms[n]]
  /\ UNCHANGED <<keyOf, made, sent>>

-----------------------------------------------------------------------------
(* submitMessages: an answer goes to who wrote the SMS, from the service   *)
(* it came to, or not at all. 0 is no SMS.                                 *)
Answers(n, to, k, s) ==
  /\ n \in DOMAIN sms
  /\ ~sms[n].system /\ sms[n].account = Account[k] /\ sms[n].service = s
  /\ sms[n].sender = to

Submit(i, k, s, to, n, t) ==
  /\ Len(sent) < MaxSent
  /\ s \in Allowed[k]
  /\ n # 0 => Answers(n, to, k, s)
  /\ sent' = Append(sent, [by |-> i, key |-> k, service |-> s, to |-> to, answers |-> n, ticket |-> t])
  /\ UNCHANGED <<keyOf, gone, sms, open, made>>

(* POST /v1/messages with inReplyTo *)
Api(k, s, to, n) == n # 0 /\ Submit(None, k, s, to, n, 0)

(* findByExternalRefForKey: the newest SMS with that number from an        *)
(* integration of the key; 0 when there is none.                           *)
Newest(S) == IF S = {} THEN 0 ELSE Max(S)

(* Mutant: from any integration. *)
FoundAnywhere(t, k) == Newest({n \in DOMAIN sms : sms[n].ref = t /\ sms[n].via # None})

Found(t, k) == Newest({n \in DOMAIN sms : sms[n].ref = t /\ sms[n].via # None /\ keyOf[sms[n].via] = k})

(* runInbound: the number in the call, else the sender of the SMS found;   *)
(* an answer only when that is whom the SMS goes to.                       *)
Reply(i, t, number) ==
  LET n  == Found(t, keyOf[i])
      to == IF number # None THEN number ELSE IF n # 0 THEN sms[n].sender ELSE None
  IN /\ to # None
     /\ Submit(i, keyOf[i], Service[i], to, IF n # 0 /\ sms[n].sender = to THEN n ELSE 0,
               IF number = None THEN t ELSE 0)

Tickets(d) == {x.ticket : x \in {y \in made : y.desk = d}}

Next ==
  \/ Receive
  \/ \E x \in open : Call(x) \/ Lost(x) \/ Over(x) \/ Store(x)
  \/ \E o \in Outs : Remove(o)
  \/ \E k \in Keys, s \in Services, to \in Numbers, n \in DOMAIN sms : Api(k, s, to, n)
  \/ \E i \in Ins : \E t \in Tickets(Desk[i]), number \in Numbers \cup {None} : Reply(i, t, number)

Spec == Init /\ [][Next]_vars

-----------------------------------------------------------------------------
(* The tables keep their types. *)
TypeOK ==
  /\ keyOf \in [Outs \cup Ins -> Keys] /\ gone \subseteq Outs
  /\ sms \in Seq([account : Accounts, service : Services, sender : Numbers, system : BOOLEAN,
                  ref : 0..MaxTickets, via : Outs \cup {None}])
  /\ \A x \in open : x.sms \in DOMAIN sms /\ x.out \in Outs /\ x.at \in {"queued", "answered"}
  /\ made \subseteq [desk : {Desk[o] : o \in Outs}, out : Outs, ticket : 1..MaxTickets, sms : DOMAIN sms]
  /\ sent \in Seq([by : Ins \cup {None}, key : Keys, service : Services, to : Numbers,
                   answers : Nat, ticket : 0..MaxTickets])
  /\ \A j \in DOMAIN sent : sent[j].answers <= Len(sms)

(* A call that gives no number reaches only somebody whose SMS an          *)
(* integration of the same key has handed to an application, from the      *)
(* service he wrote to; what belongs to another key stays out of its reach.*)
KeysStayApart ==
  [][ \A j \in DOMAIN sent' \ DOMAIN sent :
        LET m == sent'[j]
        IN m.ticket # 0 =>
             /\ Answers(m.answers, m.to, m.key, m.service)
             /\ \E x \in made : /\ x.sms = m.answers /\ x.ticket = m.ticket
                                /\ keyOf[x.out] = m.key ]_vars

(* docs/integracje.md: the gateway then sends the SMS to the sender of     *)
(* that message. (Not so when two applications work with one key, for each *)
(* counts its own tickets: the SMS goes to the sender of the other one's.) *)
ReplyReachesWriter ==
  \A j \in DOMAIN sent :
    sent[j].ticket # 0 =>
      \E x \in made : /\ x.desk = Desk[sent[j].by] /\ x.ticket = sent[j].ticket
                      /\ sms[x.sms].sender = sent[j].to

-----------------------------------------------------------------------------
(* What makes it inductive: a delivery that was answered and an SMS with a *)
(* number stand for a ticket that was made of them.                        *)
Handovers ==
  /\ open \subseteq [sms : DOMAIN sms, out : Outs, at : {"queued", "answered"}, ticket : 0..MaxTickets]
  /\ IsFiniteSet(made)
  /\ \A x \in open : x.at = "answered" =>
       \E y \in made : y.sms = x.sms /\ y.ticket = x.ticket /\ y.out = x.out
  /\ \A n \in DOMAIN sms : sms[n].via # None =>
       \E y \in made : y.sms = n /\ y.ticket = sms[n].ref /\ y.out = sms[n].via

IInv == TypeOK /\ Handovers
=============================================================================
