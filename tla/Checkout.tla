------------------------------ MODULE Checkout ------------------------------
(***************************************************************************)
(* A student pays through StudentFinancePage while the accountant confirms *)
(* payments through AccountantPage, over the operations of the Ledger:     *)
(* Billing shows that the service implements them one at a time.           *)
(*                                                                         *)
(* Paying takes two requests, createPayment and confirmPayment, and the    *)
(* amount of the first comes from a cached query.  The page refuses a      *)
(* second try while one is pending, but knows only of the tries of its own *)
(* life: a student who leaves it and returns meets a page that has none.   *)
(*                                                                         *)
(* A payment identity stands for one try.  Rejected inputs change nothing  *)
(* and are left out; payments come from this page only, the other clients  *)
(* of the payment API being scripts and the provider's webhook.            *)
(***************************************************************************)
EXTENDS Ledger, FiniteSets

CONSTANTS
  Payer,       \* the student at the page
  NoPayment,   \* no payment is tracked or selected
  NoData,      \* a query that was never answered
  MaxMishaps   \* bounds the mishaps

ASSUME PayerLivesHere == Payer \in Students
ASSUME NoPaymentIsNotOne == NoPayment \notin PaymentIds
ASSUME MaxMishapsIsNat == MaxMishaps \in Nat
ASSUME RatesAreNat == Rates \subseteq Nat

VARIABLES
  bill,      \* the student's cached query ['charges', id]
  page,      \* the student's page: whether it and its modal are shown
  mine,      \* the try that the page's useMutation tracks
  try,       \* how far every try has come, and the amount it is for
  pending,   \* the payments that the accountant's page shows as Pending
  desk,      \* selectedPayment and receiptReference of the accountant's page
  late,      \* the confirmations that the desk gave up and the server may not have
  receipts,  \* ExternalReceiptId: the payment it was typed for, or Payer's sandbox
  mishaps    \* history: failed calls, and pages left while a try was pending

student == <<bill, page, mine, try>>
accountant == <<pending, desk, late>>
cvars == <<ledger, student, accountant, receipts, mishaps>>

INSTANCE QueryCache

(* "astray" is a try that the page has given up while a call of it may     *)
(* still reach the server.                                                 *)
TryStages == {"none", "create", "created", "confirm", "paid", "refresh", "over", "astray"}
Running(p) == try[p].stage \notin {"none", "over", "astray"}

(* A row of GetChargesAsync.                                               *)
BillRow == [amount : Nat, paid : Nat, settled : BOOLEAN]
Bills ==
  IF charges[Payer].status = "active"
  THEN {[amount |-> charges[Payer].amount, paid |-> charges[Payer].paid,
         settled |-> charges[Payer].settled]}
  ELSE {}

Listing == {p \in PaymentIds : payments[p].status = "Pending"}

Desk == [payment : PaymentIds \cup {NoPayment},
         receipt : PaymentIds \cup {NoPayment},   \* the payment it was typed for
         stage   : {"none", "sent", "done", "refresh"},
         sent    : PaymentIds \cup {NoPayment},   \* what confirmMutation sent
         typed   : PaymentIds \cup {NoPayment}]

CheckoutTypeOK ==
  /\ users \in [Accounts -> [status : {"absent", "active", "deleted"}, balance : Nat]]
  /\ charges \in [Students ->
       [status : {"absent", "active"}, amount : Nat, paid : Nat, settled : BOOLEAN]]
  /\ payments \in [PaymentIds ->
       [status : {"absent", "Pending", "Confirmed"}, user : Accounts \cup {NoAccount},
        charge : Students \cup {NoCharge}, amount : Nat, byWebhook : {FALSE}]]
  /\ bill \in Entry(SUBSET BillRow)
  /\ page \in [here : BOOLEAN, modal : BOOLEAN, complete : BOOLEAN]
  /\ mine \in PaymentIds \cup {NoPayment}
  /\ try \in [PaymentIds -> [stage : TryStages, amount : Nat]]
  /\ pending \in SUBSET PaymentIds
  /\ desk \in Desk
  /\ late \in SUBSET (PaymentIds \X (PaymentIds \cup {NoPayment}))
  /\ receipts \in [PaymentIds -> PaymentIds \cup {NoPayment, Payer}]
  /\ mishaps \in 0..MaxMishaps

NewPage == [here |-> TRUE, modal |-> FALSE, complete |-> FALSE]
EmptyDesk == [payment |-> NoPayment, receipt |-> NoPayment, stage |-> "none",
              sent |-> NoPayment, typed |-> NoPayment]

CheckoutInit ==
  /\ Init
  /\ bill = Mount(Unfetched) /\ page = NewPage /\ mine = NoPayment
  /\ try = [p \in PaymentIds |-> [stage |-> "none", amount |-> 0]]
  /\ pending = {} /\ desk = EmptyDesk /\ late = {}
  /\ receipts = [p \in PaymentIds |-> NoPayment]
  /\ mishaps = 0

Mishap == mishaps < MaxMishaps /\ mishaps' = mishaps + 1

-----------------------------------------------------------------------------
(* The student's page.                                                     *)

BillAnswered ==
  /\ bill.fetch = "asked" /\ users[Payer].status = "active"
  /\ bill' = Answered(bill, Bills)
  /\ UNCHANGED <<ledger, page, mine, try, accountant, receipts, mishaps>>

BillStored ==
  /\ bill.fetch = "answered"
  /\ bill' = Stored(bill)
  /\ UNCHANGED <<ledger, page, mine, try, accountant, receipts, mishaps>>

BillLost ==
  /\ bill.fetch # "idle"
  /\ bill' = Lost(bill)
  /\ Mishap
  /\ UNCHANGED <<ledger, page, mine, try, accountant, receipts>>

(* outstandingCharges; a query without data counts as no charges.  The     *)
(* form always has one of them selected, by the effect on chargeId.        *)
Outstanding ==
  IF bill.data = NoData THEN {} ELSE {c \in bill.data : ~c.settled /\ c.amount > c.paid}

IsPending == mine # NoPayment /\ Running(mine)

OpenPaymentModal ==
  /\ page.here /\ ~page.modal /\ Outstanding # {}
  /\ page' = [page EXCEPT !.modal = TRUE, !.complete = FALSE]
  /\ UNCHANGED <<ledger, bill, mine, try, accountant, receipts, mishaps>>

(* Cancel and the backdrop only close the modal; Done also forgets that    *)
(* the payment was completed.                                              *)
ClosePaymentModal ==
  /\ page.modal
  /\ page' \in {[page EXCEPT !.modal = FALSE], [page EXCEPT !.modal = FALSE, !.complete = FALSE]}
  /\ UNCHANGED <<ledger, bill, mine, try, accountant, receipts, mishaps>>

(* Which identity a try gets tells it from the others and nothing more.    *)
IsNext(p) == p = CHOOSE q \in PaymentIds : try[q].stage = "none"

At(p, stage) == [try EXCEPT ![p].stage = stage]

(* sandboxPaymentMutation.mutate, for the remainder that is shown.         *)
Submit_Unlocked(p) ==
  /\ page.modal /\ ~page.complete
  /\ try[p].stage = "none" /\ IsNext(p)
  /\ \E c \in Outstanding :
       try' = [try EXCEPT ![p] = [stage |-> "create", amount |-> c.amount - c.paid]]
  /\ mine' = p
  /\ UNCHANGED <<ledger, bill, page, accountant, receipts, mishaps>>
Submit(p) ==
  /\ page.modal /\ ~page.complete /\ ~IsPending
  /\ try[p].stage = "none" /\ IsNext(p)
  /\ \E c \in Outstanding :
       try' = [try EXCEPT ![p] = [stage |-> "create", amount |-> c.amount - c.paid]]
  /\ mine' = p
  /\ UNCHANGED <<ledger, bill, page, accountant, receipts, mishaps>>

CreateServed(p) ==
  /\ try[p].stage = "create"
  /\ Pay(p, Payer, Payer, try[p].amount)
  /\ try' = At(p, "created")
  /\ UNCHANGED <<bill, page, mine, accountant, receipts, mishaps>>

CreateAnswered(p) ==
  /\ try[p].stage = "created"
  /\ try' = At(p, "confirm")
  /\ UNCHANGED <<ledger, bill, page, mine, accountant, receipts, mishaps>>

(* A payment that is already confirmed is returned as it is.               *)
Confirmed_AsWebhook(p, receipt) ==
  \/ /\ Settle(p, TRUE)
     /\ receipts' = [receipts EXCEPT ![p] = receipt]
  \/ /\ payments[p].status = "Confirmed"
     /\ UNCHANGED <<ledger, receipts>>
Confirmed(p, receipt) ==
  \/ /\ Settle(p, FALSE)
     /\ receipts' = [receipts EXCEPT ![p] = receipt]
  \/ /\ payments[p].status = "Confirmed"
     /\ UNCHANGED <<ledger, receipts>>

ConfirmServed(p) ==
  /\ try[p].stage = "confirm" /\ users[Payer].status = "active"
  /\ Confirmed(p, Payer)
  /\ try' = At(p, "paid")
  /\ UNCHANGED <<bill, page, mine, accountant, mishaps>>

(* onSuccess runs even when the page is gone; what it sets is then lost.   *)
Succeeds_OnCreate(p) ==
  /\ try[p].stage \in {"created", "paid"}
  /\ try' = At(p, "refresh")
  /\ page' = [page EXCEPT !.complete = (page.here /\ mine = p) \/ @]
  /\ bill' = Invalidate(bill, page.here)
  /\ UNCHANGED <<ledger, mine, accountant, receipts, mishaps>>
Succeeds(p) ==
  /\ try[p].stage = "paid"
  /\ try' = At(p, "refresh")
  /\ page' = [page EXCEPT !.complete = (page.here /\ mine = p) \/ @]
  /\ bill' = Invalidate(bill, page.here)
  /\ UNCHANGED <<ledger, mine, accountant, receipts, mishaps>>

(* The mutation is pending until the queries it invalidated were fetched,  *)
(* whatever came of that.                                                  *)
Refreshed(p) ==
  /\ try[p].stage = "refresh" /\ bill.fetch = "idle"
  /\ try' = At(p, "over")
  /\ UNCHANGED <<ledger, bill, page, mine, accountant, receipts, mishaps>>

(* There is no onError: the page shows nothing and fetches nothing.  What  *)
(* was served stays.                                                       *)
TryFails(p) ==
  /\ try[p].stage \in {"create", "created", "confirm", "paid"}
  /\ try' = At(p, "over")
  /\ Mishap
  /\ UNCHANGED <<ledger, bill, page, mine, accountant, receipts>>

(* To the page it is the same when its connection breaks before the server *)
(* was done, which may serve the call all the same, whenever.              *)
TryGoesAstray(p) ==
  /\ try[p].stage \in {"create", "confirm"}
  /\ try' = At(p, "astray")
  /\ Mishap
  /\ UNCHANGED <<ledger, bill, page, mine, accountant, receipts>>

TryServedLate(p) ==
  /\ try[p].stage = "astray" /\ users[Payer].status = "active"
  /\ \/ Pay(p, Payer, Payer, try[p].amount) /\ UNCHANGED receipts
     \/ Confirmed(p, Payer)
  /\ try' = At(p, "over")
  /\ UNCHANGED <<bill, page, mine, accountant, mishaps>>

(* The page goes with its state; a mutation it started goes on unseen.     *)
Gone == [here |-> FALSE, modal |-> FALSE, complete |-> FALSE]

Leave ==
  /\ page.here /\ ~IsPending
  /\ page' = Gone /\ mine' = NoPayment
  /\ UNCHANGED <<ledger, bill, try, accountant, receipts, mishaps>>

WalkAway ==
  /\ page.here /\ IsPending
  /\ page' = Gone /\ mine' = NoPayment
  /\ Mishap
  /\ UNCHANGED <<ledger, bill, try, accountant, receipts>>

Return ==
  /\ ~page.here
  /\ page' = NewPage
  /\ bill' = Mount(bill)
  /\ UNCHANGED <<ledger, mine, try, accountant, receipts, mishaps>>

(* The same after staleTime has passed.                                    *)
ReturnLater ==
  /\ ~page.here
  /\ page' = NewPage
  /\ bill' = Mount([bill EXCEPT !.stale = TRUE])
  /\ UNCHANGED <<ledger, mine, try, accountant, receipts, mishaps>>

-----------------------------------------------------------------------------
(* The accountant's page.                                                  *)

(* The page's query was fetched: when the accountant came back to it.      *)
Listed ==
  /\ desk = EmptyDesk
  /\ pending' = Listing
  /\ UNCHANGED <<ledger, student, desk, late, receipts, mishaps>>

Select(p) ==
  /\ desk.payment = NoPayment
  /\ p \in pending
  /\ desk' = [desk EXCEPT !.payment = p, !.receipt = NoPayment]
  /\ UNCHANGED <<ledger, student, pending, late, receipts, mishaps>>

TypeReceipt ==
  /\ desk.payment # NoPayment
  /\ desk' = [desk EXCEPT !.receipt = desk.payment]
  /\ UNCHANGED <<ledger, student, pending, late, receipts, mishaps>>

Deselect ==
  /\ desk.payment # NoPayment
  /\ desk' = [desk EXCEPT !.payment = NoPayment, !.receipt = NoPayment]
  /\ UNCHANGED <<ledger, student, pending, late, receipts, mishaps>>

(* confirmMutation.mutate, of whatever is selected and typed now.          *)
Confirm ==
  /\ desk.payment # NoPayment /\ desk.stage = "none"
  /\ desk' = [desk EXCEPT !.stage = "sent", !.sent = desk.payment, !.typed = desk.receipt]
  /\ UNCHANGED <<ledger, student, pending, late, receipts, mishaps>>

ConfirmAtDeskServed_ReceiptReadLate ==
  /\ desk.stage = "sent"
  /\ Confirmed(desk.sent, desk.receipt)
  /\ desk' = [desk EXCEPT !.stage = "done"]
  /\ UNCHANGED <<student, pending, late, mishaps>>
ConfirmAtDeskServed ==
  /\ desk.stage = "sent"
  /\ Confirmed(desk.sent, desk.typed)
  /\ desk' = [desk EXCEPT !.stage = "done"]
  /\ UNCHANGED <<student, pending, late, mishaps>>

(* Clears the modal, even if another payment was selected meanwhile.       *)
ConfirmSucceeds ==
  /\ desk.stage = "done"
  /\ desk' = [desk EXCEPT !.stage = "refresh", !.payment = NoPayment, !.receipt = NoPayment]
  /\ UNCHANGED <<ledger, student, pending, late, receipts, mishaps>>

DeskForgets == [desk EXCEPT !.stage = "none", !.sent = NoPayment, !.typed = NoPayment]

(* The queries that onSuccess invalidated have been fetched, or not.       *)
ConfirmRefreshed ==
  /\ desk.stage = "refresh"
  /\ desk' = DeskForgets
  /\ pending' \in {Listing, pending}
  /\ UNCHANGED <<ledger, student, late, receipts, mishaps>>

(* The payment and the receipt stay for another try.                       *)
ConfirmFails ==
  /\ desk.stage \in {"sent", "done"}
  /\ desk' = DeskForgets
  /\ Mishap
  /\ UNCHANGED <<ledger, student, pending, late, receipts>>

(* The server may not have seen the last of a confirmation given up.       *)
ConfirmGoesAstray ==
  /\ desk.stage = "sent"
  /\ desk' = DeskForgets
  /\ late' = late \cup {<<desk.sent, desk.typed>>}
  /\ Mishap
  /\ UNCHANGED <<ledger, student, pending, receipts>>

ConfirmServedLate ==
  /\ \E call \in late : Confirmed(call[1], call[2]) /\ late' = late \ {call}
  /\ UNCHANGED <<student, pending, desk, mishaps>>

-----------------------------------------------------------------------------
(* The student moves in and the first charge follows; that a resident      *)
(* leaves, after which every call is refused, is left to Billing.          *)
Elsewhere ==
  /\ \E s \in Students : (\E rate \in Rates : Open(s, rate)) \/ Bill(s)
  /\ UNCHANGED <<student, accountant, receipts, mishaps>>

Try(p) ==
  \/ CreateServed(p) \/ CreateAnswered(p) \/ ConfirmServed(p)
  \/ Succeeds(p) \/ Refreshed(p) \/ TryFails(p) \/ TryGoesAstray(p)

StudentNext ==
  \/ BillAnswered \/ BillStored \/ BillLost
  \/ OpenPaymentModal \/ ClosePaymentModal
  \/ Leave \/ WalkAway \/ Return \/ ReturnLater
  \/ \E p \in PaymentIds : Submit(p) \/ Try(p) \/ TryServedLate(p)

AccountantNext ==
  \/ Listed
  \/ TypeReceipt \/ Deselect \/ Confirm
  \/ ConfirmAtDeskServed \/ ConfirmSucceeds \/ ConfirmRefreshed \/ ConfirmFails
  \/ ConfirmGoesAstray \/ ConfirmServedLate
  \/ \E p \in PaymentIds : Select(p)

CheckoutNext == StudentNext \/ AccountantNext \/ Elsewhere

CheckoutSpec == CheckoutInit /\ [][CheckoutNext]_cvars

(* Every call of the pages is answered or given up, and the browser        *)
(* handles every answer; what was given up need never be served.  The      *)
(* student persists: comes back, opens the form and submits it whenever    *)
(* that is possible again and again.                                       *)
FairCheckout ==
  /\ CheckoutSpec
  /\ WF_cvars(BillAnswered) /\ WF_cvars(BillStored)
  /\ \A p \in PaymentIds : WF_cvars(Try(p))
  /\ SF_cvars(OpenPaymentModal) /\ SF_cvars(\E p \in PaymentIds : Submit(p))
  /\ WF_cvars(ClosePaymentModal) /\ SF_cvars(Leave) /\ SF_cvars(ReturnLater)

-----------------------------------------------------------------------------
Owed == charges[Payer].amount

(* A payment that the page reports as complete has been credited in full:  *)
(* the amount came from a cached charge and the report comes after two     *)
(* calls, either of which may be lost (StudentFinancePage onSuccess).      *)
CompleteMeansPaid == page.complete => charges[Payer].paid >= Owed

(* The student never pays a charge twice, nor can the accountant be made   *)
(* to confirm a second payment of it, unless a call failed or the page was *)
(* left while it was paying: each such mishap costs one payment at most,   *)
(* whatever stale amount is shown and whoever confirms what was left.      *)
PaidOnceUnlessMishap ==
  Cardinality({p \in PaymentIds : payments[p].status # "absent"}) <= 1 + mishaps

(* A receipt is recorded on the payment it was typed for, although it is   *)
(* one field for all payments and the answer to one confirmation may come  *)
(* while another payment is selected (AccountantPage receiptReference).    *)
ReceiptIsItsOwn == \A p \in PaymentIds : receipts[p] \in {NoPayment, Payer, p}

(* A student who persists gets a charge settled, however stale the page's  *)
(* data were when the charge appeared and whichever calls failed.          *)
DebtGetsCleared ==
  (charges[Payer].status = "active") ~> charges[Payer].settled
=============================================================================
