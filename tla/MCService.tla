----------------------------- MODULE MCService -----------------------------
(***************************************************************************)
(* A small instance of Service. Two keys, two jobs, are interchangeable    *)
(* within their component.                                                 *)
(***************************************************************************)
EXTENDS Service, TLC

CONSTANTS k1, k2, c1

(* Four rules: one that admits two mails an hour and groups the causes of  *)
(* an hour, the one about an account, the summary and the one about mail   *)
(* itself, whose alarm is an SMS. In a storm one, which admits one mail.   *)
FourRules    == <<"webhook_undelivered", "account_rejecting", "daily_summary", "mail_undeliverable">>
FourLimits   == [e \in {FourRules[i] : i \in 1..4} |-> IF e = "webhook_undelivered" THEN 2 ELSE 1]
FourGroups   == [e \in {FourRules[i] : i \in 1..4} |-> IF e = "webhook_undelivered" THEN 1 ELSE 0]
AccountRule  == [c \in {c1} |-> "account_rejecting"]
StormRule    == <<"integration_throttled">>
StormLimit   == [e \in {"integration_throttled"} |-> 1]
StormGroup   == [e \in {"integration_throttled"} |-> 0]
NoRule       == <<>>
Pools        == [rules |-> 3, alarm |-> 2]

(* The second release adds two migrations. *)
Migrations   == <<1, 3>>

(* Recipients that share a number and are told apart by clients, or by one *)
(* of them having none, and two numbers. The real file of an operator, a   *)
(* file with the columns in another order, and one as the manual has it,   *)
(* without the clients.                                                    *)
To(dest, client) == [dest |-> dest, client |-> client]
Packages == {<<To(481, "none"), To(482, "none")>>, <<To(481, "x"), To(481, "y")>>,
             <<To(481, "x"), To(481, "none")>>}

Column(is, says) == [is |-> is, says |-> says]
Dest   == Column("dest", {"numer"})
Status == Column("status", {"status"})
Date   == Column("date", {"data", "status"})
File(columns, words) == [columns |-> columns, titled |-> TRUE, words |-> words]
FileFormats ==
  {File(<<Dest, Status, Column("id", {"id"}), Date, Column("client", {"ident", "klient"})>>, TRUE),
   File(<<Date, Column("client", {"ident"}), Column("id", {"id"}), Status, Dest>>, FALSE),
   File(<<Column("id", {"ident"}), Dest, Status, Column("date", {"czas"})>>, TRUE)}

Pairs == Permutations({k1, k2})
=============================================================================
