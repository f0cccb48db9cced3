----------------------------- MODULE MCBilling -----------------------------
(***************************************************************************)
(* Instances of Billing for TLC, and what the pages say of its tables.     *)
(***************************************************************************)
EXTENDS Billing, FiniteSetsExt, TLC

Symmetry == Permutations(PaymentIds) \cup Permutations(Workers)

-----------------------------------------------------------------------------
(* What the pages of the web client say of these tables.                   *)

(* "Confirmed: the records already closed" (AccountantPage): a charge for  *)
(* which a single confirmed payment is enough is settled.                  *)
PaidInFullIsSettled ==
  \A c \in Students, p \in PaymentIds :
       /\ charges[c].status = "active"
       /\ payments[p].status = "Confirmed"
       /\ payments[p].charge = c
       /\ payments[p].amount >= charges[c].amount
    => charges[c].settled

(* GetChargesAsync as the accountant sees it.                              *)
ListedCharges == {c \in Students : charges[c].status = "active" /\ users[c].status = "active"}

(* totalOutstanding of AccountantPage.                                     *)
Remainder(c) == charges[c].amount - charges[c].paid
TotalOutstanding == MapThenSumSet(Remainder, ListedCharges)

(* "The total remainder of all charges not yet closed by payments": the    *)
(* figure counts the charges still open and nothing else.                  *)
TotalIsOfOpenCharges ==
  TotalOutstanding = MapThenSumSet(Remainder, {c \in ListedCharges : ~charges[c].settled})
=============================================================================
