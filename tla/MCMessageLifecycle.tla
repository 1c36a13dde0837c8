------------------------ MODULE MCMessageLifecycle ------------------------
(***************************************************************************)
(* Instances of MessageLifecycle for TLC: tuples and the codes reported by *)
(* Multiinfo, which a configuration file cannot write.                     *)
(***************************************************************************)
EXTENDS MessageLifecycle, TLC

Accepted  == <<1, 0>>
Failed    == <<11, 2>>
Cancelled == <<13, 0>>
NoReceipt == <<21, 0>>
Delivered == <<21, 1>>
Unnamed   == <<99, 0>>

(* One code of each kind the poll handler tells apart. *)
AllCodes == {Accepted, Failed, Cancelled, NoReceipt, Delivered, Unnamed}

(* Enough to settle a message well, badly and as cancelled. *)
FewCodes == {Accepted, Failed, Cancelled, Delivered}
=============================================================================
