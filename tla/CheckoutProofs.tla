--------------------------- MODULE CheckoutProofs ---------------------------
(***************************************************************************)
(* Theorems about Checkout for every value of its constants: any accounts, *)
(* rates, number of tries and bound on the mishaps.                        *)
(***************************************************************************)
EXTENDS Checkout, FiniteSetTheorems, TLAPS

(* The cache entries of this module.                                       *)
Entries == Entry(SUBSET BillRow)

-----------------------------------------------------------------------------
(* What the operations of the cache make of a well-formed entry.           *)

LEMMA AskIsEntry ==
  ASSUME NEW e \in Entries
  PROVE  /\ Ask(e) \in Entries
         /\ Ask(e).data = e.data /\ Ask(e).answer = NoData /\ Ask(e).fetch = "asked"
BY DEF Entries, Entry, Ask, Fetches

LEMMA StaleIsEntry ==
  ASSUME NEW e \in Entries
  PROVE  LET s == [e EXCEPT !.stale = TRUE]
         IN  s \in Entries /\ s.data = e.data /\ s.answer = e.answer /\ s.fetch = e.fetch
BY DEF Entries, Entry, Fetches

LEMMA MountIsEntry ==
  ASSUME NEW e \in Entries
  PROVE  /\ Mount(e) \in Entries
         /\ Mount(e).data = e.data
         /\ \/ Mount(e) = e
            \/ Mount(e).answer = NoData /\ Mount(e).fetch = "asked"
BY AskIsEntry DEF Mount

LEMMA InvalidateIsEntry ==
  ASSUME NEW e \in Entries, NEW mounted \in BOOLEAN
  PROVE  /\ Invalidate(e, mounted) \in Entries
         /\ Invalidate(e, mounted).data = e.data
         /\ IF mounted
            THEN Invalidate(e, mounted).answer = NoData /\ Invalidate(e, mounted).fetch = "asked"
            ELSE /\ Invalidate(e, mounted).answer = e.answer
                 /\ Invalidate(e, mounted).fetch = e.fetch
<1> DEFINE s == [e EXCEPT !.stale = TRUE]
<1>1. s \in Entries /\ s.data = e.data /\ s.answer = e.answer /\ s.fetch = e.fetch
  BY StaleIsEntry
<1>2. Ask(s) \in Entries /\ Ask(s).data = s.data /\ Ask(s).answer = NoData /\ Ask(s).fetch = "asked"
  BY <1>1, AskIsEntry
<1>3. QED
  BY <1>1, <1>2 DEF Invalidate

LEMMA AnsweredIsEntry ==
  ASSUME NEW e \in Entries, NEW d \in SUBSET BillRow
  PROVE  /\ Answered(e, d) \in Entries
         /\ Answered(e, d).data = e.data /\ Answered(e, d).answer = d
         /\ Answered(e, d).fetch = "answered"
BY DEF Entries, Entry, Answered, Fetches

LEMMA UnfetchedIsEntry ==
  /\ Unfetched \in Entries
  /\ Unfetched.data = NoData /\ Unfetched.answer = NoData
  /\ Unfetched.fetch = "idle" /\ Unfetched.stale
BY DEF Entries, Entry, Unfetched, Fetches

LEMMA StoredIsEntry ==
  ASSUME NEW e \in Entries
  PROVE  /\ Stored(e) \in Entries
         /\ Stored(e).data = e.answer /\ Stored(e).answer = NoData /\ Stored(e).fetch = "idle"
BY DEF Entries, Entry, Stored, Unfetched, Fetches

LEMMA LostIsEntry ==
  ASSUME NEW e \in Entries
  PROVE  /\ Lost(e) \in Entries
         /\ Lost(e).data = e.data /\ Lost(e).answer = NoData /\ Lost(e).fetch = "idle"
BY DEF Entries, Entry, Lost, Fetches

-----------------------------------------------------------------------------
(* The ledger: what a step does to the charge of the student at the page.  *)

charge == charges[Payer]

UserRow == [status : {"absent", "active", "deleted"}, balance : Nat]
ChargeRow == [status : {"absent", "active"}, amount : Nat, paid : Nat, settled : BOOLEAN]
PaymentRow == [status : {"absent", "Pending", "Confirmed"}, user : Accounts \cup {NoAccount},
               charge : Students \cup {NoCharge}, amount : Nat, byWebhook : {FALSE}]

LedgerOK ==
  /\ users \in [Accounts -> UserRow]
  /\ charges \in [Students -> ChargeRow]
  /\ payments \in [PaymentIds -> PaymentRow]

FlagIsExact == charge.status = "active" => (charge.settled <=> charge.paid >= charge.amount)

(* An open charge stays, for the same amount, and what was paid stays.     *)
Grows ==
  charge.status = "active" =>
    charge'.status = "active" /\ charge'.amount = charge.amount /\ charge'.paid >= charge.paid

LEMMA ChargeIsRow ==
  ASSUME LedgerOK
  PROVE  charge \in ChargeRow /\ charge.paid \in Nat /\ charge.amount \in Nat
BY PayerLivesHere DEF LedgerOK, charge, ChargeRow

LEMMA SameChargeGrows ==
  ASSUME LedgerOK, FlagIsExact, charge' = charge
  PROVE  FlagIsExact' /\ Grows
BY ChargeIsRow DEF FlagIsExact, Grows

LEMMA OpenIsWellFormed ==
  ASSUME LedgerOK, FlagIsExact, NEW s \in Students, NEW rate \in Rates, Open(s, rate)
  PROVE  LedgerOK' /\ FlagIsExact' /\ Grows
<1>1. [status |-> "active", balance |-> rate] \in UserRow
  BY RatesAreNat DEF UserRow
<1>2. LedgerOK'
  BY <1>1 DEF LedgerOK, Open
<1>3. QED
  BY <1>2, SameChargeGrows DEF Open, charge

LEMMA BillIsWellFormed ==
  ASSUME LedgerOK, FlagIsExact, NEW s \in Students, Bill(s)
  PROVE  LedgerOK' /\ FlagIsExact' /\ Grows
<1> DEFINE row == [status |-> "active", amount |-> users[s].balance, paid |-> 0, settled |-> FALSE]
<1>1. users[s].balance \in Nat /\ users[s].balance > 0
  BY DEF LedgerOK, UserRow, Accounts, Bill
<1>2. row \in ChargeRow
  BY <1>1 DEF ChargeRow
<1>3. charges' = [charges EXCEPT ![s] = row]
  BY DEF Bill
<1>4. LedgerOK'
  BY <1>2, <1>3 DEF LedgerOK, Bill
<1>5. CASE s = Payer
  <2>1. charge' = row /\ charge.status # "active"
    BY <1>3, <1>5 DEF LedgerOK, charge, Bill
  <2>2. QED
    BY <1>1, <1>4, <2>1 DEF FlagIsExact, Grows
<1>6. CASE s # Payer
  <2>1. charge' = charge
    BY <1>3, <1>6, PayerLivesHere DEF LedgerOK, charge
  <2>2. QED
    BY <1>4, <2>1, SameChargeGrows
<1>7. QED
  BY <1>5, <1>6

LEMMA PayIsWellFormed ==
  ASSUME LedgerOK, FlagIsExact, NEW p \in PaymentIds, NEW amount \in Nat,
         Pay(p, Payer, Payer, amount)
  PROVE  /\ LedgerOK' /\ FlagIsExact' /\ Grows
         /\ \A q \in PaymentIds \ {p} : payments'[q] = payments[q]
         /\ payments'[p].status = "Pending" /\ payments'[p].amount = amount
         /\ payments'[p].user = Payer /\ payments'[p].charge = Payer
<1> DEFINE row == [status |-> "Pending", user |-> Payer, charge |-> Payer, amount |-> amount,
                   byWebhook |-> FALSE]
<1>1. row \in PaymentRow
  BY PayerLivesHere DEF PaymentRow, Accounts
<1>2. payments' = [payments EXCEPT ![p] = row]
  BY DEF Pay
<1>3. LedgerOK'
  BY <1>1, <1>2 DEF LedgerOK, Pay
<1>4. FlagIsExact' /\ Grows
  BY SameChargeGrows DEF Pay, charge
<1>5. payments'[p] = row /\ \A q \in PaymentIds \ {p} : payments'[q] = payments[q]
  BY <1>2 DEF LedgerOK
<1>6. QED
  BY <1>3, <1>4, <1>5

LEMMA CreditedRow ==
  ASSUME NEW r \in ChargeRow, NEW amount \in Nat
  PROVE  LET credited == [r EXCEPT !.paid = @ + amount, !.settled = r.paid + amount >= r.amount]
         IN  /\ credited \in ChargeRow
             /\ credited.status = r.status /\ credited.amount = r.amount
             /\ credited.paid = r.paid + amount
             /\ credited.settled <=> r.paid + amount >= r.amount
<1>1. r.paid \in Nat /\ r.paid + amount \in Nat
  BY DEF ChargeRow
<1>2. (r.paid + amount >= r.amount) \in BOOLEAN
  OBVIOUS
<1>3. QED
  BY <1>1, <1>2 DEF ChargeRow

LEMMA ConfirmedRow ==
  ASSUME NEW r \in PaymentRow
  PROVE  LET confirmed == [r EXCEPT !.status = "Confirmed", !.byWebhook = FALSE]
         IN  /\ confirmed \in PaymentRow /\ confirmed.status = "Confirmed"
             /\ confirmed.user = r.user /\ confirmed.charge = r.charge
             /\ confirmed.amount = r.amount
BY DEF PaymentRow

LEMMA SettleIsWellFormed ==
  ASSUME LedgerOK, FlagIsExact, NEW p \in PaymentIds, Settle(p, FALSE),
         payments[p].user = Payer, payments[p].charge = Payer, charge.status = "active"
  PROVE  /\ LedgerOK' /\ FlagIsExact' /\ Grows
         /\ \A q \in PaymentIds \ {p} : payments'[q] = payments[q]
         /\ payments'[p].status = "Confirmed" /\ payments'[p].amount = payments[p].amount
         /\ payments'[p].user = Payer /\ payments'[p].charge = Payer
         /\ charge'.paid = charge.paid + payments[p].amount
<1> DEFINE amount == payments[p].amount
           account == [users[Payer] EXCEPT !.balance = Unpaid(@, amount)]
           credited == [charge EXCEPT !.paid = @ + amount,
                                      !.settled = charge.paid + amount >= charge.amount]
           confirmed == [payments[p] EXCEPT !.status = "Confirmed", !.byWebhook = FALSE]
<1>1. /\ amount \in Nat /\ payments[p] \in PaymentRow
      /\ Payer \in Accounts /\ users[Payer] \in UserRow
  BY PayerLivesHere DEF LedgerOK, Accounts, PaymentRow
<1>2. account \in UserRow
  <2>1. users[Payer].balance \in Nat
    BY <1>1 DEF UserRow
  <2>2. Unpaid(users[Payer].balance, amount) \in Nat
    BY <1>1, <2>1 DEF Unpaid
  <2>3. QED
    BY <1>1, <2>2 DEF UserRow
<1>3. /\ credited \in ChargeRow
      /\ credited.status = charge.status /\ credited.amount = charge.amount
      /\ credited.paid = charge.paid + amount
      /\ credited.settled <=> charge.paid + amount >= charge.amount
  BY <1>1, ChargeIsRow, CreditedRow
<1>4. /\ confirmed \in PaymentRow /\ confirmed.status = "Confirmed"
      /\ confirmed.user = Payer /\ confirmed.charge = Payer /\ confirmed.amount = amount
  BY <1>1, ConfirmedRow
<1>5. users' = [users EXCEPT ![Payer] = account]
  BY DEF Settle
<1>6. payments' = [payments EXCEPT ![p] = confirmed]
  BY DEF Settle
<1>7. charges' = [charges EXCEPT ![Payer] = credited]
  BY PayerLivesHere DEF Settle, charge
<1>8. LedgerOK'
  <2>1. users' \in [Accounts -> UserRow]
    BY <1>2, <1>5 DEF LedgerOK
  <2>2. charges' \in [Students -> ChargeRow]
    BY <1>3, <1>7 DEF LedgerOK
  <2>3. payments' \in [PaymentIds -> PaymentRow]
    BY <1>4, <1>6 DEF LedgerOK
  <2>4. QED
    BY <2>1, <2>2, <2>3 DEF LedgerOK
<1>9. charge' = credited
  BY <1>7, PayerLivesHere DEF LedgerOK, charge
<1>10. payments'[p] = confirmed /\ \A q \in PaymentIds \ {p} : payments'[q] = payments[q]
  BY <1>6 DEF LedgerOK
<1>11. FlagIsExact' /\ Grows
  BY <1>1, <1>3, <1>9, ChargeIsRow DEF FlagIsExact, Grows
<1>12. QED
  BY <1>3, <1>4, <1>8, <1>9, <1>10, <1>11

-----------------------------------------------------------------------------
(***************************************************************************)
(* The inductive invariant, by parts.  Whatever is cached of the charge is *)
(* an earlier state of it, so that every try is for as much as is open, or *)
(* more; hence a payment that is confirmed has paid the charge in full.    *)
(***************************************************************************)
TryRow == [stage : TryStages, amount : Nat]

Fully(c) == c.status = "active" /\ c.paid >= c.amount

RowsAreOld(d, c) ==
  d # NoData => \A row \in d : /\ c.status = "active" /\ row.amount = c.amount
                               /\ row.paid <= c.paid

Covers(t, c) ==
  t.stage # "none" => c.status = "active" /\ t.amount + c.paid >= c.amount

IsOfTry(pay, t) ==
  pay.status # "absent" =>
    /\ pay.user = Payer /\ pay.charge = Payer /\ pay.amount = t.amount
    /\ t.stage \notin {"none", "create"}

HasPaid(pay, t, c) ==
  pay.status = "Confirmed" \/ t.stage \in {"paid", "refresh"} => Fully(c)

BillInv ==
  /\ bill \in Entries
  /\ bill.fetch # "answered" => bill.answer = NoData
  /\ RowsAreOld(bill.data, charge) /\ RowsAreOld(bill.answer, charge)

TryInv ==
  /\ try \in [PaymentIds -> TryRow]
  /\ \A p \in PaymentIds : /\ Covers(try[p], charge)
                           /\ IsOfTry(payments[p], try[p])
                           /\ HasPaid(payments[p], try[p], charge)

PageInv ==
  /\ page \in [here : BOOLEAN, modal : BOOLEAN, complete : BOOLEAN]
  /\ mine \in PaymentIds \cup {NoPayment}
  /\ page.modal => page.here
  /\ page.complete => Fully(charge)

(* What the desk sends: a payment, with its own receipt or none.           *)
DeskCalls == {call \in PaymentIds \X (PaymentIds \cup {NoPayment}) :
                call[2] \in {NoPayment, call[1]}}

DeskInv ==
  /\ pending \in SUBSET PaymentIds
  /\ desk \in Desk
  /\ desk.receipt \in {NoPayment, desk.payment}
  /\ desk.typed \in {NoPayment, desk.sent}
  /\ desk.stage = "sent" => desk.sent \in PaymentIds
  /\ late \in SUBSET DeskCalls
  /\ receipts \in [PaymentIds -> PaymentIds \cup {NoPayment, Payer}]
  /\ ReceiptIsItsOwn

(***************************************************************************)
(* The tries are counted against the mishaps.  One more than the mishaps   *)
(* may have been made, but then another is out of the question: either the *)
(* page tracks one, and will know that the charge is paid when that one is *)
(* over, or it knows already.                                              *)
(***************************************************************************)
Owes(d) == d # NoData /\ \E row \in d : ~row.settled /\ row.amount > row.paid

UpToDate ==
  /\ Fully(charge)
  /\ bill.fetch = "answered" => ~Owes(bill.answer)
  /\ bill.fetch = "idle" => ~Owes(bill.data)

Blocked ==
  \/ page.here /\ IsPending /\ (try[mine].stage = "refresh" => UpToDate)
  \/ UpToDate /\ ~Owes(bill.data)

Started == {p \in PaymentIds : try[p].stage # "none"}

CountInv ==
  /\ mishaps \in 0..MaxMishaps
  /\ IsFiniteSet(Started)
  /\ \/ Cardinality(Started) <= mishaps
     \/ Cardinality(Started) <= mishaps + 1 /\ Blocked

StateInv == LedgerOK /\ FlagIsExact /\ BillInv /\ TryInv /\ PageInv /\ DeskInv
CheckoutInv == StateInv /\ CountInv

-----------------------------------------------------------------------------
(* Growth keeps what is known of the charge.                               *)

LEMMA GrowthKeeps ==
  ASSUME NEW c \in ChargeRow, NEW d \in ChargeRow,
         c.status = "active" => d.status = "active" /\ d.amount = c.amount /\ d.paid >= c.paid
  PROVE  /\ Fully(c) => Fully(d)
         /\ \A rows \in (SUBSET BillRow) \cup {NoData} : RowsAreOld(rows, c) => RowsAreOld(rows, d)
         /\ \A t \in TryRow : Covers(t, c) => Covers(t, d)
         /\ \A pay, t : HasPaid(pay, t, c) => HasPaid(pay, t, d)
<1>1. c.paid \in Nat /\ d.paid \in Nat /\ c.amount \in Nat /\ d.amount \in Nat
  BY DEF ChargeRow
<1>2. Fully(c) => Fully(d)
  BY <1>1 DEF Fully
<1>3. ASSUME NEW rows \in (SUBSET BillRow) \cup {NoData}, RowsAreOld(rows, c)
      PROVE  RowsAreOld(rows, d)
  <2>1. CASE rows = NoData
    BY <2>1 DEF RowsAreOld
  <2>2. ASSUME rows # NoData, NEW row \in rows
        PROVE  d.status = "active" /\ row.amount = d.amount /\ row.paid <= d.paid
    <3>1. row.paid \in Nat
      BY <2>2 DEF BillRow
    <3>2. c.status = "active" /\ row.amount = c.amount /\ row.paid <= c.paid
      BY <1>3, <2>2 DEF RowsAreOld
    <3>3. QED
      BY <1>1, <3>1, <3>2
  <2>3. QED
    BY <2>1, <2>2 DEF RowsAreOld
<1>4. ASSUME NEW t \in TryRow, Covers(t, c)
      PROVE  Covers(t, d)
  <2>1. t.amount \in Nat
    BY DEF TryRow
  <2>2. QED
    BY <1>1, <1>4, <2>1 DEF Covers
<1>5. \A pay, t : HasPaid(pay, t, c) => HasPaid(pay, t, d)
  BY <1>2 DEF HasPaid
<1>6. QED
  BY <1>2, <1>3, <1>4, <1>5

(* What a confirmation does, by either page.                               *)
LEMMA ConfirmedIsWellFormed ==
  ASSUME StateInv, NEW p \in PaymentIds, NEW receipt, Confirmed(p, receipt)
  PROVE  /\ LedgerOK' /\ FlagIsExact' /\ Grows
         /\ \A q \in PaymentIds \ {p} : payments'[q] = payments[q]
         /\ payments[p].status # "absent" /\ payments'[p].status = "Confirmed"
         /\ payments'[p].user = payments[p].user /\ payments'[p].charge = payments[p].charge
         /\ payments'[p].amount = payments[p].amount
         /\ Fully(charge')
         /\ receipts' \in {receipts, [receipts EXCEPT ![p] = receipt]}
<1>1. /\ IsOfTry(payments[p], try[p]) /\ Covers(try[p], charge)
      /\ HasPaid(payments[p], try[p], charge)
  BY DEF StateInv, TryInv
<1>2. CASE Settle(p, FALSE) /\ receipts' = [receipts EXCEPT ![p] = receipt]
  <2>1. payments[p].status = "Pending"
    BY <1>2 DEF Settle
  <2>2. /\ payments[p].user = Payer /\ payments[p].charge = Payer
        /\ payments[p].amount = try[p].amount /\ charge.status = "active"
        /\ try[p].amount + charge.paid >= charge.amount
    BY <1>1, <2>1 DEF IsOfTry, Covers
  <2>3. /\ LedgerOK' /\ FlagIsExact' /\ Grows
        /\ \A q \in PaymentIds \ {p} : payments'[q] = payments[q]
        /\ payments'[p].status = "Confirmed" /\ payments'[p].amount = payments[p].amount
        /\ payments'[p].user = Payer /\ payments'[p].charge = Payer
        /\ charge'.paid = charge.paid + payments[p].amount
    BY <1>2, <2>2, SettleIsWellFormed DEF StateInv
  <2>4. payments[p].amount \in Nat
    BY DEF StateInv, LedgerOK, PaymentRow
  <2>5. Fully(charge')
    BY <2>2, <2>3, <2>4, ChargeIsRow DEF Grows, Fully, StateInv
  <2>6. QED
    BY <1>2, <2>1, <2>2, <2>3, <2>5
<1>3. CASE payments[p].status = "Confirmed" /\ UNCHANGED <<ledger, receipts>>
  <2>1. LedgerOK' /\ charge' = charge /\ payments' = payments
    BY <1>3 DEF ledger, StateInv, LedgerOK, charge
  <2>2. FlagIsExact' /\ Grows
    BY <2>1, SameChargeGrows DEF StateInv
  <2>3. Fully(charge')
    BY <1>1, <1>3, <2>1 DEF HasPaid
  <2>4. QED
    BY <1>3, <2>1, <2>2, <2>3
<1>4. QED
  BY <1>2, <1>3 DEF Confirmed

-----------------------------------------------------------------------------
(* The ledger and its charge.                                              *)

LEMMA LedgerSteps ==
  ASSUME [CheckoutNext]_cvars
  PROVE  \/ ledger' = ledger
         \/ \E s \in Students : (\E rate \in Rates : Open(s, rate)) \/ Bill(s)
         \/ \E p \in PaymentIds : CreateServed(p) \/ ConfirmServed(p) \/ TryServedLate(p)
         \/ ConfirmAtDeskServed \/ ConfirmServedLate
<1>1. ASSUME NEW p \in PaymentIds, Try(p)
      PROVE  ledger' = ledger \/ CreateServed(p) \/ ConfirmServed(p)
  BY <1>1 DEF Try, CreateAnswered, Succeeds, Refreshed, TryFails, TryGoesAstray
<1>2. ASSUME StudentNext
      PROVE  ledger' = ledger \/ \E p \in PaymentIds :
                                   CreateServed(p) \/ ConfirmServed(p) \/ TryServedLate(p)
  BY <1>1, <1>2 DEF StudentNext, BillAnswered, BillStored, BillLost, OpenPaymentModal,
     ClosePaymentModal, Leave, WalkAway, Return, ReturnLater, Submit
<1>3. ASSUME AccountantNext
      PROVE  ledger' = ledger \/ ConfirmAtDeskServed \/ ConfirmServedLate
  BY <1>3 DEF AccountantNext, Listed, TypeReceipt, Deselect, Confirm, ConfirmSucceeds,
     ConfirmRefreshed, ConfirmFails, ConfirmGoesAstray, Select
<1>4. CASE UNCHANGED cvars
  BY <1>4 DEF cvars
<1>5. QED
  BY <1>2, <1>3, <1>4 DEF CheckoutNext, Elsewhere

LEMMA LedgerStep ==
  ASSUME StateInv, [CheckoutNext]_cvars
  PROVE  LedgerOK' /\ FlagIsExact' /\ Grows
<1>1. CASE ledger' = ledger
  <2>1. LedgerOK' /\ charge' = charge
    BY <1>1 DEF ledger, StateInv, LedgerOK, charge
  <2>2. QED
    BY <2>1, SameChargeGrows DEF StateInv
<1>2. CASE \E s \in Students : (\E rate \in Rates : Open(s, rate)) \/ Bill(s)
  BY <1>2, OpenIsWellFormed, BillIsWellFormed DEF StateInv
<1>3. ASSUME NEW p \in PaymentIds, Pay(p, Payer, Payer, try[p].amount)
      PROVE  LedgerOK' /\ FlagIsExact' /\ Grows
  <2>1. try[p].amount \in Nat
    BY DEF StateInv, TryInv, TryRow
  <2>2. QED
    BY <1>3, <2>1, PayIsWellFormed DEF StateInv
<1>4. ASSUME NEW p \in PaymentIds, Confirmed(p, Payer)
      PROVE  LedgerOK' /\ FlagIsExact' /\ Grows
  BY <1>4, ConfirmedIsWellFormed
<1>5. CASE ConfirmAtDeskServed
  <2>1. desk.sent \in PaymentIds /\ Confirmed(desk.sent, desk.typed)
    BY <1>5 DEF ConfirmAtDeskServed, StateInv, DeskInv
  <2>2. QED
    BY <2>1, ConfirmedIsWellFormed
<1>6. CASE ConfirmServedLate
  <2>1. PICK call \in late : Confirmed(call[1], call[2])
    BY <1>6 DEF ConfirmServedLate
  <2>2. call[1] \in PaymentIds
    BY DEF StateInv, DeskInv, DeskCalls
  <2>3. QED
    BY <2>1, <2>2, ConfirmedIsWellFormed
<1>7. CASE \E p \in PaymentIds : CreateServed(p) \/ ConfirmServed(p) \/ TryServedLate(p)
  BY <1>3, <1>4, <1>7 DEF CreateServed, ConfirmServed, TryServedLate
<1>8. QED
  BY <1>1, <1>2, <1>5, <1>6, <1>7, LedgerSteps

(* What the step leaves known of the charge, in the form used below.       *)
LEMMA ChargeStep ==
  ASSUME StateInv, [CheckoutNext]_cvars
  PROVE  /\ charge \in ChargeRow /\ charge' \in ChargeRow
         /\ Fully(charge) => Fully(charge')
         /\ \A rows \in (SUBSET BillRow) \cup {NoData} :
              RowsAreOld(rows, charge) => RowsAreOld(rows, charge')
         /\ \A t \in TryRow : Covers(t, charge) => Covers(t, charge')
         /\ \A pay, t : HasPaid(pay, t, charge) => HasPaid(pay, t, charge')
<1>1. LedgerOK' /\ Grows
  BY LedgerStep
<1>2. charge \in ChargeRow /\ charge' \in ChargeRow
  BY <1>1, PayerLivesHere DEF StateInv, LedgerOK, charge
<1>3. QED
  BY <1>1, <1>2, GrowthKeeps DEF Grows

-----------------------------------------------------------------------------
(* The cached charges of the student's page.                               *)

LEMMA BillSteps ==
  ASSUME [CheckoutNext]_cvars
  PROVE  \/ bill' = bill
         \/ BillAnswered \/ BillStored \/ BillLost \/ Return \/ ReturnLater
         \/ \E p \in PaymentIds : Succeeds(p)
<1>1. ASSUME NEW p \in PaymentIds, Try(p)
      PROVE  bill' = bill \/ Succeeds(p)
  BY <1>1 DEF Try, CreateServed, CreateAnswered, ConfirmServed, Refreshed, TryFails,
     TryGoesAstray
<1>2. ASSUME StudentNext
      PROVE  \/ bill' = bill
             \/ BillAnswered \/ BillStored \/ BillLost \/ Return \/ ReturnLater
             \/ \E p \in PaymentIds : Succeeds(p)
  BY <1>1, <1>2 DEF StudentNext, OpenPaymentModal, ClosePaymentModal, Leave, WalkAway, Submit,
     TryServedLate
<1>3. ASSUME AccountantNext
      PROVE  bill' = bill
  BY <1>3 DEF AccountantNext, Listed, TypeReceipt, Deselect, Confirm, ConfirmAtDeskServed,
     ConfirmSucceeds, ConfirmRefreshed, ConfirmFails, ConfirmGoesAstray, ConfirmServedLate,
     Select, student
<1>4. ASSUME Elsewhere \/ UNCHANGED cvars
      PROVE  bill' = bill
  BY <1>4 DEF Elsewhere, cvars, student
<1>5. QED
  BY <1>2, <1>3, <1>4 DEF CheckoutNext

LEMMA BillsAreCurrent ==
  ASSUME LedgerOK
  PROVE  Bills \in SUBSET BillRow /\ RowsAreOld(Bills, charge)
<1> DEFINE row == [amount |-> charge.amount, paid |-> charge.paid, settled |-> charge.settled]
<1>1. charge \in ChargeRow
  BY ChargeIsRow
<1>2. row \in BillRow /\ row.paid <= charge.paid
  BY <1>1 DEF ChargeRow, BillRow
<1>3. Bills = IF charge.status = "active" THEN {row} ELSE {}
  BY DEF Bills, charge
<1>4. QED
  BY <1>2, <1>3 DEF RowsAreOld

(* What became of the cached entry: fetched again or kept, answered,       *)
(* stored or lost.                                                         *)
LEMMA BillMoves ==
  ASSUME StateInv, [CheckoutNext]_cvars
  PROVE  /\ bill' \in Entries
         /\ \/ bill'.data = bill.data /\ bill'.answer = bill.answer /\ bill'.fetch = bill.fetch
            \/ bill'.data = bill.data /\ bill'.answer = NoData /\ bill'.fetch = "asked"
            \/ bill'.data = bill.data /\ bill'.answer = NoData /\ BillLost
            \/ /\ bill'.data = bill.data /\ bill'.answer = Bills /\ bill'.fetch = "answered"
               /\ BillAnswered
            \/ /\ bill'.data = bill.answer /\ bill'.answer = NoData /\ bill'.fetch = "idle"
               /\ BillStored
<1>1. bill \in Entries
  BY DEF StateInv, BillInv
<1>2. CASE bill' = bill
  BY <1>1, <1>2
<1>3. CASE BillAnswered
  <2>1. Bills \in SUBSET BillRow
    BY BillsAreCurrent DEF StateInv
  <2>2. bill' = Answered(bill, Bills)
    BY <1>3 DEF BillAnswered
  <2>3. QED
    BY <1>1, <1>3, <2>1, <2>2, AnsweredIsEntry
<1>4. CASE BillStored
  <2>1. bill' = Stored(bill)
    BY <1>4 DEF BillStored
  <2>2. QED
    BY <1>1, <1>4, <2>1, StoredIsEntry
<1>5. CASE BillLost
  <2>1. bill' = Lost(bill)
    BY <1>5 DEF BillLost
  <2>2. QED
    BY <1>1, <1>5, <2>1, LostIsEntry
<1>6. CASE Return
  <2>1. bill' = Mount(bill)
    BY <1>6 DEF Return
  <2>2. QED
    BY <1>1, <2>1, MountIsEntry
<1>7. CASE ReturnLater
  <2> DEFINE s == [bill EXCEPT !.stale = TRUE]
  <2>1. bill' = Mount(s)
    BY <1>7 DEF ReturnLater
  <2>2. s \in Entries /\ s.data = bill.data /\ s.answer = bill.answer /\ s.fetch = bill.fetch
    BY <1>1, StaleIsEntry
  <2>3. Mount(s) \in Entries /\ Mount(s).data = s.data
        /\ (Mount(s) = s \/ (Mount(s).answer = NoData /\ Mount(s).fetch = "asked"))
    BY <2>2, MountIsEntry
  <2> HIDE DEF s
  <2>4. QED
    BY <2>1, <2>2, <2>3
<1>8. ASSUME NEW p \in PaymentIds, Succeeds(p)
      PROVE  /\ bill' \in Entries /\ bill'.data = bill.data
             /\ \/ bill'.answer = bill.answer /\ bill'.fetch = bill.fetch
                \/ bill'.answer = NoData /\ bill'.fetch = "asked"
  <2>1. bill' = Invalidate(bill, page.here) /\ page.here \in BOOLEAN
    BY <1>8 DEF Succeeds, StateInv, PageInv
  <2>2. QED
    BY <1>1, <2>1, InvalidateIsEntry
<1>9. QED
  BY <1>2, <1>3, <1>4, <1>5, <1>6, <1>7, <1>8, BillSteps

LEMMA BillStep ==
  ASSUME StateInv, [CheckoutNext]_cvars
  PROVE  BillInv'
<1>1. /\ bill \in Entries
      /\ bill.fetch # "answered" => bill.answer = NoData
      /\ RowsAreOld(bill.data, charge) /\ RowsAreOld(bill.answer, charge)
      /\ RowsAreOld(Bills, charge) /\ RowsAreOld(NoData, charge)
  BY BillsAreCurrent DEF StateInv, BillInv, RowsAreOld
<1>2. /\ bill.data \in (SUBSET BillRow) \cup {NoData}
      /\ bill.answer \in (SUBSET BillRow) \cup {NoData}
      /\ Bills \in (SUBSET BillRow) \cup {NoData}
  BY <1>1, BillsAreCurrent DEF Entries, Entry, StateInv
<1>3. /\ RowsAreOld(bill.data, charge') /\ RowsAreOld(bill.answer, charge')
      /\ RowsAreOld(Bills, charge') /\ RowsAreOld(NoData, charge')
  BY <1>1, <1>2, ChargeStep
<1>4. RowsAreOld(bill'.data, charge') /\ RowsAreOld(bill'.answer, charge')
  BY <1>3, BillMoves
<1>5. bill'.fetch # "answered" => bill'.answer = NoData
  BY <1>1, BillMoves
<1>6. bill' \in Entries
  BY BillMoves
<1>7. QED
  BY <1>4, <1>5, <1>6 DEF BillInv

-----------------------------------------------------------------------------
(* The tries and their payments.                                           *)

LEMMA TrySteps ==
  ASSUME [CheckoutNext]_cvars
  PROVE  \/ try' = try /\ payments' = payments
         \/ \E p \in PaymentIds : Submit(p) \/ Try(p) \/ TryServedLate(p)
         \/ ConfirmAtDeskServed \/ ConfirmServedLate
<1>1. ASSUME StudentNext
      PROVE  \/ try' = try /\ payments' = payments
             \/ \E p \in PaymentIds : Submit(p) \/ Try(p) \/ TryServedLate(p)
  BY <1>1 DEF StudentNext, BillAnswered, BillStored, BillLost, OpenPaymentModal,
     ClosePaymentModal, Leave, WalkAway, Return, ReturnLater, ledger
<1>2. ASSUME AccountantNext
      PROVE  (try' = try /\ payments' = payments) \/ ConfirmAtDeskServed \/ ConfirmServedLate
  BY <1>2 DEF AccountantNext, Listed, TypeReceipt, Deselect, Confirm, ConfirmSucceeds,
     ConfirmRefreshed, ConfirmFails, ConfirmGoesAstray, Select, student, ledger
<1>3. ASSUME Elsewhere \/ UNCHANGED cvars
      PROVE  try' = try /\ payments' = payments
  BY <1>3 DEF Elsewhere, Open, Bill, cvars, student, ledger
<1>4. QED
  BY <1>1, <1>2, <1>3 DEF CheckoutNext

LEMMA StageOfTry ==
  ASSUME try \in [PaymentIds -> TryRow], NEW p \in PaymentIds, NEW stage \in TryStages
  PROVE  \E t \in TryRow :
           /\ At(p, stage) = [try EXCEPT ![p] = t]
           /\ t.stage = stage /\ t.amount = try[p].amount
<1> DEFINE t == [try[p] EXCEPT !.stage = stage]
<1>1. t \in TryRow /\ t.stage = stage /\ t.amount = try[p].amount
  BY DEF TryRow
<1>2. At(p, stage) = [try EXCEPT ![p] = t]
  BY DEF At
<1>3. QED
  BY <1>1, <1>2

(* One try moves on, and no other payment than its own is touched.         *)
LEMMA OneTryMoves ==
  ASSUME StateInv, [CheckoutNext]_cvars,
         NEW p \in PaymentIds, NEW t \in TryRow, try' = [try EXCEPT ![p] = t],
         \A q \in PaymentIds \ {p} : payments'[q] = payments[q],
         Covers(t, charge'), IsOfTry(payments'[p], t), HasPaid(payments'[p], t, charge')
  PROVE  TryInv'
<1>1. try' \in [PaymentIds -> TryRow] /\ try'[p] = t
  BY DEF StateInv, TryInv
<1>2. ASSUME NEW q \in PaymentIds
      PROVE  /\ Covers(try'[q], charge') /\ IsOfTry(payments'[q], try'[q])
             /\ HasPaid(payments'[q], try'[q], charge')
  <2>1. CASE q = p
    BY <1>1, <2>1
  <2>2. CASE q # p
    <3>1. try'[q] = try[q] /\ try[q] \in TryRow /\ payments'[q] = payments[q]
      BY <2>2 DEF StateInv, TryInv
    <3>2. /\ Covers(try[q], charge) /\ IsOfTry(payments[q], try[q])
          /\ HasPaid(payments[q], try[q], charge)
      BY DEF StateInv, TryInv
    <3>3. QED
      BY <3>1, <3>2, ChargeStep
  <2>3. QED
    BY <2>1, <2>2
<1>3. QED
  BY <1>1, <1>2 DEF TryInv

(* A step of a try that touches neither the ledger nor the amount.         *)
LEMMA StageMoves ==
  ASSUME StateInv, [CheckoutNext]_cvars, UNCHANGED ledger,
         NEW p \in PaymentIds, NEW stage \in TryStages \ {"none", "create"}, try' = At(p, stage),
         try[p].stage # "none",
         stage \in {"paid", "refresh"} => Fully(charge)
  PROVE  TryInv'
<1>1. PICK t \in TryRow : /\ At(p, stage) = [try EXCEPT ![p] = t]
                          /\ t.stage = stage /\ t.amount = try[p].amount
  BY StageOfTry DEF StateInv, TryInv
<1>2. /\ Covers(try[p], charge) /\ IsOfTry(payments[p], try[p])
      /\ HasPaid(payments[p], try[p], charge)
  BY DEF StateInv, TryInv
<1>3. payments' = payments /\ charge' = charge
  BY DEF ledger, charge
<1>4. Covers(t, charge) /\ IsOfTry(payments[p], t) /\ HasPaid(payments[p], t, charge)
  BY <1>1, <1>2 DEF Covers, IsOfTry, HasPaid
<1>5. QED
  BY <1>1, <1>3, <1>4, OneTryMoves

LEMMA SubmitKeepsTries ==
  ASSUME StateInv, [CheckoutNext]_cvars, NEW p \in PaymentIds, Submit(p)
  PROVE  TryInv'
<1>1. PICK c \in Outstanding :
        try' = [try EXCEPT ![p] = [stage |-> "create", amount |-> c.amount - c.paid]]
  BY DEF Submit
<1> DEFINE t == [stage |-> "create", amount |-> c.amount - c.paid]
<1>2. bill.data # NoData /\ c \in bill.data /\ c.amount > c.paid
  BY DEF Outstanding
<1>3. c \in BillRow /\ RowsAreOld(bill.data, charge)
  BY <1>2 DEF StateInv, BillInv, Entries, Entry
<1>4. c.amount \in Nat /\ c.paid \in Nat
  BY <1>3 DEF BillRow
<1>5. charge.status = "active" /\ c.amount = charge.amount /\ c.paid <= charge.paid
  BY <1>2, <1>3 DEF RowsAreOld
<1>6. charge.amount \in Nat /\ charge.paid \in Nat
  BY ChargeIsRow DEF StateInv
<1>7. c.amount - c.paid \in Nat /\ (c.amount - c.paid) + charge.paid >= charge.amount
  BY <1>2, <1>4, <1>5, <1>6
<1>8. t \in TryRow /\ Covers(t, charge)
  BY <1>5, <1>7 DEF TryRow, TryStages, Covers
<1>9. payments' = payments /\ charge' = charge /\ try[p].stage = "none"
  BY DEF Submit, ledger, charge
<1>10. IsOfTry(payments[p], try[p]) /\ HasPaid(payments[p], try[p], charge)
  BY DEF StateInv, TryInv
<1>11. IsOfTry(payments[p], t) /\ HasPaid(payments[p], t, charge)
  BY <1>9, <1>10 DEF IsOfTry, HasPaid
<1>12. try' = [try EXCEPT ![p] = t]
  BY <1>1
<1> HIDE DEF t
<1>13. QED
  BY <1>8, <1>9, <1>11, <1>12, OneTryMoves

(* A payment is created, while the page waits for it or later.             *)
LEMMA CreatedKeepsTries ==
  ASSUME StateInv, [CheckoutNext]_cvars, NEW p \in PaymentIds,
         Pay(p, Payer, Payer, try[p].amount), try[p].stage # "none",
         NEW stage \in {"created", "over"}, try' = At(p, stage)
  PROVE  TryInv'
<1>1. PICK t \in TryRow : /\ At(p, stage) = [try EXCEPT ![p] = t]
                          /\ t.stage = stage /\ t.amount = try[p].amount
  BY StageOfTry DEF StateInv, TryInv, TryStages
<1>2. try' = [try EXCEPT ![p] = t]
  BY <1>1
<1>3. /\ \A q \in PaymentIds \ {p} : payments'[q] = payments[q]
      /\ payments'[p].status = "Pending" /\ payments'[p].amount = try[p].amount
      /\ payments'[p].user = Payer /\ payments'[p].charge = Payer
  <2>1. try[p].amount \in Nat
    BY DEF StateInv, TryInv, TryRow
  <2>2. QED
    BY <2>1, PayIsWellFormed DEF StateInv
<1>4. Covers(try[p], charge')
  BY ChargeStep DEF StateInv, TryInv
<1>5. Covers(t, charge') /\ IsOfTry(payments'[p], t) /\ HasPaid(payments'[p], t, charge')
  BY <1>1, <1>2, <1>3, <1>4 DEF Covers, IsOfTry, HasPaid
<1>6. QED
  BY <1>2, <1>3, <1>5, OneTryMoves

(* A payment is confirmed, by the student's try or at the desk.            *)
LEMMA ConfirmedKeepsTries ==
  ASSUME StateInv, [CheckoutNext]_cvars, NEW p \in PaymentIds, NEW receipt,
         Confirmed(p, receipt),
         try' = At(p, "paid") \/ try' = At(p, "over") \/ try' = try
  PROVE  TryInv'
<1>1. /\ \A q \in PaymentIds \ {p} : payments'[q] = payments[q]
      /\ payments[p].status # "absent"
      /\ payments'[p].user = payments[p].user /\ payments'[p].charge = payments[p].charge
      /\ payments'[p].amount = payments[p].amount
      /\ Fully(charge')
  BY ConfirmedIsWellFormed
<1>2. try \in [PaymentIds -> TryRow] /\ IsOfTry(payments[p], try[p])
  BY DEF StateInv, TryInv
<1>3. PICK t \in TryRow : /\ try' = [try EXCEPT ![p] = t]
                          /\ t.stage \in {"paid", "over", try[p].stage}
                          /\ t.amount = try[p].amount
  <2>1. CASE try' = At(p, "paid")
    BY <1>2, <2>1, StageOfTry DEF TryStages
  <2>2. CASE try' = At(p, "over")
    BY <1>2, <2>2, StageOfTry DEF TryStages
  <2>3. CASE try' = try
    BY <1>2, <2>3
  <2>4. QED
    BY <2>1, <2>2, <2>3
<1>4. Covers(try[p], charge')
  BY ChargeStep DEF StateInv, TryInv
<1>5. Covers(t, charge') /\ IsOfTry(payments'[p], t) /\ HasPaid(payments'[p], t, charge')
  BY <1>1, <1>2, <1>3, <1>4 DEF Covers, IsOfTry, HasPaid
<1>6. QED
  BY <1>1, <1>3, <1>5, OneTryMoves

LEMMA TryStep ==
  ASSUME StateInv, [CheckoutNext]_cvars
  PROVE  TryInv'
<1>1. CASE try' = try /\ payments' = payments
  BY <1>1, ChargeStep DEF StateInv, TryInv
<1>2. CASE ConfirmAtDeskServed
  <2>1. desk.sent \in PaymentIds /\ Confirmed(desk.sent, desk.typed) /\ try' = try
    BY <1>2 DEF ConfirmAtDeskServed, StateInv, DeskInv, student
  <2>2. QED
    BY <2>1, ConfirmedKeepsTries
<1>3. CASE ConfirmServedLate
  <2>1. PICK call \in late : Confirmed(call[1], call[2])
    BY <1>3 DEF ConfirmServedLate
  <2>2. call[1] \in PaymentIds /\ try' = try
    BY <1>3 DEF ConfirmServedLate, StateInv, DeskInv, DeskCalls, student
  <2>3. QED
    BY <2>1, <2>2, ConfirmedKeepsTries
<1>4. ASSUME NEW p \in PaymentIds, Submit(p) \/ Try(p) \/ TryServedLate(p)
      PROVE  TryInv'
  <2>1. CASE Submit(p)
    BY <2>1, SubmitKeepsTries
  <2>2. CASE CreateServed(p)
    BY <2>2, CreatedKeepsTries DEF CreateServed
  <2>3. CASE CreateAnswered(p)
    BY <2>3, StageMoves DEF CreateAnswered, TryStages
  <2>4. CASE ConfirmServed(p)
    BY <2>4, ConfirmedKeepsTries DEF ConfirmServed
  <2>5. CASE Succeeds(p)
    <3>1. Fully(charge)
      BY <2>5 DEF Succeeds, StateInv, TryInv, HasPaid
    <3>2. QED
      BY <2>5, <3>1, StageMoves DEF Succeeds, TryStages
  <2>6. CASE Refreshed(p)
    BY <2>6, StageMoves DEF Refreshed, TryStages
  <2>7. CASE TryFails(p)
    BY <2>7, StageMoves DEF TryFails, TryStages
  <2>8. CASE TryGoesAstray(p)
    BY <2>8, StageMoves DEF TryGoesAstray, TryStages
  <2>9. CASE TryServedLate(p)
    <3>1. try' = At(p, "over") /\ try[p].stage # "none"
      BY <2>9 DEF TryServedLate
    <3>2. Pay(p, Payer, Payer, try[p].amount) \/ Confirmed(p, Payer)
      BY <2>9 DEF TryServedLate
    <3>3. QED
      BY <3>1, <3>2, CreatedKeepsTries, ConfirmedKeepsTries
  <2>10. QED
    BY <1>4, <2>1, <2>2, <2>3, <2>4, <2>5, <2>6, <2>7, <2>8, <2>9 DEF Try
<1>5. QED
  BY <1>1, <1>2, <1>3, <1>4, TrySteps

-----------------------------------------------------------------------------
(* The page of the student.                                                *)

LEMMA PageSteps ==
  ASSUME [CheckoutNext]_cvars
  PROVE  \/ page' = page /\ mine' = mine
         \/ OpenPaymentModal \/ ClosePaymentModal
         \/ Leave \/ WalkAway \/ Return \/ ReturnLater
         \/ \E p \in PaymentIds : Submit(p) \/ Succeeds(p)
<1>1. ASSUME NEW p \in PaymentIds, Try(p)
      PROVE  (page' = page /\ mine' = mine) \/ Succeeds(p)
  BY <1>1 DEF Try, CreateServed, CreateAnswered, ConfirmServed, Refreshed, TryFails,
     TryGoesAstray
<1>2. ASSUME StudentNext
      PROVE  \/ page' = page /\ mine' = mine
             \/ OpenPaymentModal \/ ClosePaymentModal
             \/ Leave \/ WalkAway \/ Return \/ ReturnLater
             \/ \E p \in PaymentIds : Submit(p) \/ Succeeds(p)
  BY <1>1, <1>2 DEF StudentNext, BillAnswered, BillStored, BillLost, TryServedLate
<1>3. ASSUME AccountantNext \/ Elsewhere \/ UNCHANGED cvars
      PROVE  page' = page /\ mine' = mine
  BY <1>3 DEF AccountantNext, Listed, TypeReceipt, Deselect, Confirm, ConfirmAtDeskServed,
     ConfirmSucceeds, ConfirmRefreshed, ConfirmFails, ConfirmGoesAstray, ConfirmServedLate,
     Select, Elsewhere, cvars, student
<1>4. QED
  BY <1>2, <1>3 DEF CheckoutNext

LEMMA PageStep ==
  ASSUME StateInv, [CheckoutNext]_cvars
  PROVE  PageInv'
<1> DEFINE PageRow == [here : BOOLEAN, modal : BOOLEAN, complete : BOOLEAN]
<1>1. /\ page \in PageRow /\ mine \in PaymentIds \cup {NoPayment}
      /\ page.modal => page.here
  BY DEF StateInv, PageInv
<1>2. page.complete => Fully(charge')
  BY ChargeStep DEF StateInv, PageInv
<1>3. CASE page' = page /\ mine' = mine
  BY <1>1, <1>2, <1>3 DEF PageInv
<1>4. CASE OpenPaymentModal
  BY <1>1, <1>4 DEF OpenPaymentModal, PageInv
<1>5. CASE ClosePaymentModal
  BY <1>1, <1>2, <1>5 DEF ClosePaymentModal, PageInv
<1>6. CASE Leave \/ WalkAway
  <2>1. page' = Gone /\ mine' = NoPayment
    BY <1>6 DEF Leave, WalkAway
  <2>2. Gone \in PageRow /\ ~Gone.modal /\ ~Gone.complete
    BY DEF Gone
  <2>3. QED
    BY <2>1, <2>2 DEF PageInv
<1>7. CASE Return \/ ReturnLater
  <2>1. page' = NewPage /\ mine' = mine
    BY <1>7 DEF Return, ReturnLater
  <2>2. NewPage \in PageRow /\ ~NewPage.modal /\ ~NewPage.complete
    BY DEF NewPage
  <2>3. QED
    BY <1>1, <2>1, <2>2 DEF PageInv
<1>8. ASSUME NEW p \in PaymentIds, Submit(p)
      PROVE  PageInv'
  BY <1>1, <1>2, <1>8 DEF Submit, PageInv
<1>9. ASSUME NEW p \in PaymentIds, Succeeds(p)
      PROVE  PageInv'
  <2> DEFINE complete == (page.here /\ mine = p) \/ page.complete
  <2>1. Fully(charge')
    BY <1>9, ChargeStep DEF Succeeds, StateInv, TryInv, HasPaid
  <2>2. page' = [page EXCEPT !.complete = complete] /\ mine' = mine
    BY <1>9 DEF Succeeds
  <2>3. complete \in BOOLEAN
    BY <1>1
  <2> HIDE DEF complete
  <2>4. page' \in PageRow /\ (page'.modal => page'.here)
    BY <1>1, <2>2, <2>3
  <2>5. QED
    BY <1>1, <2>1, <2>2, <2>4 DEF PageInv
<1>10. QED
  BY <1>3, <1>4, <1>5, <1>6, <1>7, <1>8, <1>9, PageSteps

-----------------------------------------------------------------------------
(* The desk of the accountant.                                             *)

LEMMA DeskSteps ==
  ASSUME [CheckoutNext]_cvars
  PROVE  \/ UNCHANGED <<accountant, receipts>>
         \/ \E p \in PaymentIds : ConfirmServed(p) \/ TryServedLate(p)
         \/ AccountantNext
<1>1. ASSUME NEW p \in PaymentIds, Try(p)
      PROVE  UNCHANGED <<accountant, receipts>> \/ ConfirmServed(p)
  BY <1>1 DEF Try, CreateServed, CreateAnswered, Succeeds, Refreshed, TryFails, TryGoesAstray,
     accountant
<1>2. ASSUME StudentNext
      PROVE  \/ UNCHANGED <<accountant, receipts>>
             \/ \E p \in PaymentIds : ConfirmServed(p) \/ TryServedLate(p)
  BY <1>1, <1>2 DEF StudentNext, BillAnswered, BillStored, BillLost, OpenPaymentModal,
     ClosePaymentModal, Leave, WalkAway, Return, ReturnLater, Submit, accountant
<1>3. ASSUME Elsewhere \/ UNCHANGED cvars
      PROVE  UNCHANGED <<accountant, receipts>>
  BY <1>3 DEF Elsewhere, cvars, accountant
<1>4. QED
  BY <1>2, <1>3 DEF CheckoutNext

LEMMA ReceiptRecorded ==
  ASSUME DeskInv, NEW p \in PaymentIds, NEW receipt \in {NoPayment, Payer, p},
         receipts' \in {receipts, [receipts EXCEPT ![p] = receipt]}
  PROVE  /\ receipts' \in [PaymentIds -> PaymentIds \cup {NoPayment, Payer}]
         /\ ReceiptIsItsOwn'
BY DEF DeskInv, ReceiptIsItsOwn

LEMMA DeskStep ==
  ASSUME StateInv, [CheckoutNext]_cvars
  PROVE  DeskInv'
<1>1. DeskInv
  BY DEF StateInv
<1>2. CASE UNCHANGED <<accountant, receipts>>
  BY <1>1, <1>2 DEF DeskInv, ReceiptIsItsOwn, accountant
<1>3. ASSUME NEW p \in PaymentIds, ConfirmServed(p) \/ TryServedLate(p)
      PROVE  DeskInv'
  <2>1. receipts' \in {receipts, [receipts EXCEPT ![p] = Payer]}
    BY <1>3, ConfirmedIsWellFormed DEF ConfirmServed, TryServedLate
  <2>2. pending' = pending /\ desk' = desk /\ late' = late
    BY <1>3 DEF ConfirmServed, TryServedLate, accountant
  <2>3. QED
    BY <1>1, <2>1, <2>2, ReceiptRecorded DEF DeskInv
<1>4. CASE ConfirmAtDeskServed
  <2>1. /\ desk.sent \in PaymentIds /\ desk.typed \in {NoPayment, desk.sent}
        /\ Confirmed(desk.sent, desk.typed)
    BY <1>1, <1>4 DEF ConfirmAtDeskServed, DeskInv
  <2>2. receipts' \in {receipts, [receipts EXCEPT ![desk.sent] = desk.typed]}
    BY <2>1, ConfirmedIsWellFormed
  <2>3. /\ receipts' \in [PaymentIds -> PaymentIds \cup {NoPayment, Payer}]
        /\ ReceiptIsItsOwn'
    BY <1>1, <2>1, <2>2, ReceiptRecorded
  <2>4. pending' = pending /\ desk' = [desk EXCEPT !.stage = "done"] /\ late' = late
    BY <1>4 DEF ConfirmAtDeskServed
  <2>5. QED
    BY <1>1, <2>3, <2>4 DEF DeskInv, Desk
<1>5. CASE ConfirmServedLate
  <2>1. PICK call \in late : Confirmed(call[1], call[2]) /\ late' = late \ {call}
    BY <1>5 DEF ConfirmServedLate
  <2>2. call[1] \in PaymentIds /\ call[2] \in {NoPayment, call[1]}
    BY <1>1 DEF DeskInv, DeskCalls
  <2>3. receipts' \in {receipts, [receipts EXCEPT ![call[1]] = call[2]]}
    BY <2>1, <2>2, ConfirmedIsWellFormed
  <2>4. /\ receipts' \in [PaymentIds -> PaymentIds \cup {NoPayment, Payer}]
        /\ ReceiptIsItsOwn'
    BY <1>1, <2>2, <2>3, ReceiptRecorded
  <2>5. pending' = pending /\ desk' = desk
    BY <1>5 DEF ConfirmServedLate
  <2>6. QED
    BY <1>1, <2>1, <2>4, <2>5 DEF DeskInv
<1>6. CASE receipts' = receipts /\ AccountantNext
  <2>1. /\ receipts' \in [PaymentIds -> PaymentIds \cup {NoPayment, Payer}]
        /\ ReceiptIsItsOwn'
    BY <1>1, <1>6 DEF DeskInv, ReceiptIsItsOwn
  <2>2. Listing \in SUBSET PaymentIds
    BY DEF Listing
  <2>3. CASE Listed
    BY <1>1, <2>1, <2>2, <2>3 DEF Listed, DeskInv
  <2>4. ASSUME NEW p \in PaymentIds, Select(p)
        PROVE  DeskInv'
    BY <1>1, <2>1, <2>4 DEF Select, DeskInv, Desk
  <2>5. CASE TypeReceipt
    BY <1>1, <2>1, <2>5 DEF TypeReceipt, DeskInv, Desk
  <2>6. CASE Deselect
    BY <1>1, <2>1, <2>6 DEF Deselect, DeskInv, Desk
  <2>7. CASE Confirm
    BY <1>1, <2>1, <2>7, NoPaymentIsNotOne DEF Confirm, DeskInv, Desk
  <2>8. CASE ConfirmAtDeskServed
    BY <1>4, <2>8
  <2>9. CASE ConfirmSucceeds
    BY <1>1, <2>1, <2>9 DEF ConfirmSucceeds, DeskInv, Desk
  <2>10. CASE ConfirmRefreshed
    BY <1>1, <2>1, <2>2, <2>10 DEF ConfirmRefreshed, DeskForgets, DeskInv, Desk
  <2>11. CASE ConfirmFails
    BY <1>1, <2>1, <2>11 DEF ConfirmFails, DeskForgets, DeskInv, Desk
  <2>12. CASE ConfirmGoesAstray
    <3>1. <<desk.sent, desk.typed>> \in DeskCalls
      BY <1>1, <2>12, NoPaymentIsNotOne DEF ConfirmGoesAstray, DeskInv, Desk, DeskCalls
    <3>2. late' \in SUBSET DeskCalls
      BY <1>1, <2>12, <3>1 DEF ConfirmGoesAstray, DeskInv
    <3>3. QED
      BY <1>1, <2>1, <2>12, <3>2 DEF ConfirmGoesAstray, DeskForgets, DeskInv, Desk
  <2>13. CASE ConfirmServedLate
    BY <1>5, <2>13
  <2>14. QED
    BY <1>6, <2>3, <2>4, <2>5, <2>6, <2>7, <2>8, <2>9, <2>10, <2>11, <2>12, <2>13
       DEF AccountantNext
<1>7. CASE AccountantNext
  <2>1. receipts' = receipts \/ ConfirmAtDeskServed \/ ConfirmServedLate
    BY <1>7 DEF AccountantNext, Listed, Select, TypeReceipt, Deselect, Confirm,
       ConfirmSucceeds, ConfirmRefreshed, ConfirmFails, ConfirmGoesAstray
  <2>2. QED
    BY <1>4, <1>5, <1>6, <1>7, <2>1
<1>8. QED
  BY <1>2, <1>3, <1>7, DeskSteps

-----------------------------------------------------------------------------
(* Counting the tries.                                                     *)

(* A charge that is paid in full is answered as settled.                   *)
LEMMA NothingIsOwed ==
  ASSUME StateInv, Fully(charge)
  PROVE  ~Owes(Bills)
<1>1. charge.settled
  BY DEF StateInv, FlagIsExact, Fully
<1>2. Bills = {[amount |-> charge.amount, paid |-> charge.paid, settled |-> charge.settled]}
  BY DEF Bills, Fully, charge
<1>3. QED
  BY <1>1, <1>2 DEF Owes

(* Only a lost fetch can undo that the page knows or will know.            *)
LEMMA UpToDateStays ==
  ASSUME StateInv, [CheckoutNext]_cvars, UpToDate, ~BillLost
  PROVE  /\ UpToDate'
         /\ ~Owes(bill.data) => ~Owes(bill'.data)
<1>1. Fully(charge) /\ Fully(charge') /\ ~Owes(Bills)
  BY ChargeStep, NothingIsOwed DEF UpToDate
<1>2. /\ bill.fetch = "answered" => ~Owes(bill.answer)
      /\ bill.fetch = "idle" => ~Owes(bill.data)
  BY DEF UpToDate
<1>3. BillStored => bill.fetch = "answered"
  BY DEF BillStored
<1>4. /\ bill'.fetch = "answered" => ~Owes(bill'.answer)
      /\ bill'.fetch = "idle" => ~Owes(bill'.data)
      /\ ~Owes(bill.data) => ~Owes(bill'.data)
  BY <1>1, <1>2, <1>3, BillMoves
<1>5. QED
  BY <1>1, <1>4 DEF UpToDate

(* The steps by what they do to the tries and to the page that tracks one. *)
Starts == \E p \in PaymentIds : Submit(p)

GoesOn(p) ==
  \/ CreateServed(p) \/ CreateAnswered(p) \/ ConfirmServed(p)
  \/ Succeeds(p) \/ Refreshed(p)

GivesUp(p) == TryFails(p) \/ TryGoesAstray(p)

Quiet == try' = try /\ mine' = mine /\ page'.here = page.here

LEMMA MishapSteps ==
  ASSUME [CheckoutNext]_cvars
  PROVE  \/ mishaps' = mishaps
         \/ Mishap /\ (try' = try \/ \E p \in PaymentIds : GivesUp(p))
<1>1. ASSUME NEW p \in PaymentIds, Try(p)
      PROVE  mishaps' = mishaps \/ (Mishap /\ GivesUp(p))
  BY <1>1 DEF Try, CreateServed, CreateAnswered, ConfirmServed, Succeeds, Refreshed, TryFails,
     TryGoesAstray, GivesUp
<1>2. ASSUME StudentNext
      PROVE  \/ mishaps' = mishaps
             \/ Mishap /\ (try' = try \/ \E p \in PaymentIds : GivesUp(p))
  BY <1>1, <1>2 DEF StudentNext, BillAnswered, BillStored, BillLost, OpenPaymentModal,
     ClosePaymentModal, Leave, WalkAway, Return, ReturnLater, Submit, TryServedLate
<1>3. ASSUME AccountantNext
      PROVE  mishaps' = mishaps \/ (Mishap /\ try' = try)
  BY <1>3 DEF AccountantNext, Listed, TypeReceipt, Deselect, Confirm, ConfirmAtDeskServed,
     ConfirmSucceeds, ConfirmRefreshed, ConfirmFails, ConfirmGoesAstray, ConfirmServedLate,
     Select, student
<1>4. ASSUME Elsewhere \/ UNCHANGED cvars
      PROVE  mishaps' = mishaps
  BY <1>4 DEF Elsewhere, cvars
<1>5. QED
  BY <1>2, <1>3, <1>4 DEF CheckoutNext

LEMMA CalmSteps ==
  ASSUME StateInv, mishaps \in Nat, [CheckoutNext]_cvars, mishaps' = mishaps
  PROVE  \/ Starts \/ Quiet \/ \E p \in PaymentIds : GoesOn(p) \/ TryServedLate(p)
         \/ Leave \/ Return \/ ReturnLater
<1>1. ~Mishap
  BY DEF Mishap
<1>2. ASSUME NEW p \in PaymentIds, Try(p)
      PROVE  GoesOn(p)
  BY <1>1, <1>2 DEF Try, GoesOn, TryFails, TryGoesAstray
<1>3. CASE OpenPaymentModal \/ ClosePaymentModal
  <2>1. page'.here = page.here
    BY <1>3 DEF OpenPaymentModal, ClosePaymentModal, StateInv, PageInv
  <2>2. QED
    BY <1>3, <2>1 DEF OpenPaymentModal, ClosePaymentModal, Quiet
<1>4. ASSUME StudentNext
      PROVE  \/ Starts \/ Quiet \/ \E p \in PaymentIds : GoesOn(p) \/ TryServedLate(p)
             \/ Leave \/ Return \/ ReturnLater
  BY <1>1, <1>2, <1>3, <1>4 DEF StudentNext, BillAnswered, BillStored, BillLost, WalkAway,
     Starts, Quiet
<1>5. ASSUME AccountantNext \/ Elsewhere \/ UNCHANGED cvars
      PROVE  Quiet
  BY <1>5 DEF AccountantNext, Listed, TypeReceipt, Deselect, Confirm, ConfirmAtDeskServed,
     ConfirmSucceeds, ConfirmRefreshed, ConfirmFails, ConfirmGoesAstray, ConfirmServedLate,
     Select, Elsewhere, cvars, student, Quiet
<1>6. QED
  BY <1>4, <1>5 DEF CheckoutNext

LEMMA SameStarted ==
  ASSUME StateInv, NEW p \in PaymentIds, GoesOn(p) \/ GivesUp(p) \/ TryServedLate(p)
  PROVE  Started' = Started
<1>1. try \in [PaymentIds -> TryRow]
  BY DEF StateInv, TryInv
<1>2. PICK stage \in TryStages \ {"none"} : try' = At(p, stage)
  BY DEF GoesOn, CreateServed, CreateAnswered, ConfirmServed, Succeeds, Refreshed,
     GivesUp, TryFails, TryGoesAstray, TryServedLate, TryStages
<1>3. try[p].stage # "none"
  BY DEF GoesOn, CreateServed, CreateAnswered, ConfirmServed, Succeeds, Refreshed,
     GivesUp, TryFails, TryGoesAstray, TryServedLate
<1>4. PICK t \in TryRow : try' = [try EXCEPT ![p] = t] /\ t.stage = stage
  BY <1>1, <1>2, StageOfTry
<1>5. QED
  BY <1>1, <1>2, <1>3, <1>4 DEF Started

(* The payment that the page tracks goes on, and when it is over the page  *)
(* knows that the charge is paid.                                          *)
LEMMA TrackedGoesOn ==
  ASSUME StateInv, [CheckoutNext]_cvars, ~BillLost, page.here, IsPending,
         try[mine].stage = "refresh" => UpToDate,
         GoesOn(mine)
  PROVE  Blocked'
<1>1. mine \in PaymentIds /\ try \in [PaymentIds -> TryRow] /\ page.here \in BOOLEAN
  BY DEF IsPending, StateInv, PageInv, TryInv
<1>2. ASSUME NEW stage \in TryStages \ {"none", "over", "astray"}, try' = At(mine, stage),
             mine' = mine, page'.here, stage = "refresh" => UpToDate'
      PROVE  Blocked'
  <2>1. try'[mine].stage = stage
    <3>1. PICK t \in TryRow : try' = [try EXCEPT ![mine] = t] /\ t.stage = stage
      BY <1>1, <1>2, StageOfTry
    <3>2. QED
      BY <1>1, <3>1
  <2>2. QED
    BY <1>1, <1>2, <2>1, NoPaymentIsNotOne DEF Blocked, IsPending, Running
<1>3. CASE CreateServed(mine)
  BY <1>2, <1>3 DEF CreateServed, TryStages
<1>4. CASE CreateAnswered(mine)
  BY <1>2, <1>4 DEF CreateAnswered, TryStages
<1>5. CASE ConfirmServed(mine)
  BY <1>2, <1>5 DEF ConfirmServed, TryStages
<1>6. CASE Succeeds(mine)
  <2>1. Fully(charge')
    BY <1>1, <1>6, ChargeStep DEF Succeeds, StateInv, TryInv, HasPaid
  <2>2. bill'.fetch = "asked"
    BY <1>6, InvalidateIsEntry DEF Succeeds, StateInv, BillInv
  <2>3. UpToDate'
    BY <2>1, <2>2 DEF UpToDate
  <2>4. page'.here
    BY <1>6 DEF Succeeds, StateInv, PageInv
  <2>5. QED
    BY <1>2, <1>6, <2>3, <2>4 DEF Succeeds, TryStages
<1>7. CASE Refreshed(mine)
  <2>1. UpToDate /\ bill.fetch = "idle"
    BY <1>7 DEF Refreshed
  <2>2. ~Owes(bill.data)
    BY <2>1 DEF UpToDate
  <2>3. QED
    BY <2>1, <2>2, UpToDateStays DEF Blocked
<1>8. QED
  BY <1>3, <1>4, <1>5, <1>6, <1>7 DEF GoesOn

LEMMA BlockedStays ==
  ASSUME StateInv, mishaps \in Nat, [CheckoutNext]_cvars, mishaps' = mishaps, Blocked, ~Starts
  PROVE  Blocked'
<1>1. ~BillLost
  BY DEF BillLost, Mishap
<1>2. CASE UpToDate /\ ~Owes(bill.data)
  BY <1>1, <1>2, UpToDateStays DEF Blocked
<1>3. CASE page.here /\ IsPending /\ (try[mine].stage = "refresh" => UpToDate)
  <2>1. mine \in PaymentIds
    BY <1>3 DEF IsPending, StateInv, PageInv
  <2>2. CASE Quiet
    BY <1>1, <1>3, <2>2, UpToDateStays DEF Quiet, Blocked, IsPending, Running
  <2>3. ASSUME NEW p \in PaymentIds, GoesOn(p), p # mine
        PROVE  Blocked'
    <3>1. try'[mine] = try[mine]
      BY <2>1, <2>3 DEF GoesOn, CreateServed, CreateAnswered, ConfirmServed, Succeeds,
         Refreshed, At, StateInv, TryInv
    <3>2. mine' = mine /\ page'.here = page.here
      BY <2>3 DEF GoesOn, CreateServed, CreateAnswered, ConfirmServed, Succeeds, Refreshed,
         StateInv, PageInv
    <3>3. QED
      BY <1>1, <1>3, <3>1, <3>2, UpToDateStays DEF Blocked, IsPending, Running
  <2>4. CASE GoesOn(mine)
    BY <1>1, <1>3, <2>4, TrackedGoesOn
  <2>5. ~Leave /\ ~Return /\ ~ReturnLater
    BY <1>3 DEF Leave, Return, ReturnLater
  <2>6. ASSUME NEW p \in PaymentIds, TryServedLate(p)
        PROVE  Blocked'
    <3>1. p # mine
      BY <1>3, <2>6 DEF TryServedLate, IsPending, Running
    <3>2. try'[mine] = try[mine]
      BY <2>1, <2>6, <3>1 DEF TryServedLate, At, StateInv, TryInv
    <3>3. mine' = mine /\ page' = page
      BY <2>6 DEF TryServedLate
    <3>4. QED
      BY <1>1, <1>3, <3>2, <3>3, UpToDateStays DEF Blocked, IsPending, Running
  <2>7. QED
    BY <2>2, <2>3, <2>4, <2>5, <2>6, CalmSteps
<1>4. QED
  BY <1>2, <1>3 DEF Blocked

(* A try can only be started when another was not out of the question.     *)
LEMMA StartStep ==
  ASSUME StateInv, CountInv, [CheckoutNext]_cvars, NEW p \in PaymentIds, Submit(p)
  PROVE  CountInv'
<1>1. ~Blocked
  <2>1. ~IsPending /\ Outstanding # {}
    BY DEF Submit
  <2>2. Owes(bill.data)
    BY <2>1 DEF Outstanding, Owes
  <2>3. QED
    BY <2>1, <2>2 DEF Blocked
<1>2. /\ mishaps \in 0..MaxMishaps /\ mishaps' = mishaps /\ IsFiniteSet(Started)
      /\ Cardinality(Started) <= mishaps
  BY <1>1 DEF CountInv, Submit
<1>3. PICK c \in Outstanding :
        try' = [try EXCEPT ![p] = [stage |-> "create", amount |-> c.amount - c.paid]]
  BY DEF Submit
<1>4. try'[p].stage = "create" /\ \A q \in PaymentIds \ {p} : try'[q] = try[q]
  BY <1>3 DEF StateInv, TryInv
<1>5. Started' = Started \cup {p} /\ p \notin Started
  BY <1>4 DEF Started, Submit
<1>6. /\ IsFiniteSet(Started') /\ Cardinality(Started') = Cardinality(Started) + 1
      /\ Cardinality(Started) \in Nat
  BY <1>2, <1>5, FS_AddElement, FS_CardinalityType
<1>7. Blocked'
  <2>1. mine' = p /\ page'.here
    BY DEF Submit, StateInv, PageInv
  <2>2. QED
    BY <1>4, <2>1, NoPaymentIsNotOne DEF Blocked, IsPending, Running
<1>8. QED
  BY <1>2, <1>6, <1>7 DEF CountInv

LEMMA CountStep ==
  ASSUME StateInv, CountInv, [CheckoutNext]_cvars
  PROVE  CountInv'
<1>1. /\ mishaps \in 0..MaxMishaps /\ mishaps \in Nat /\ IsFiniteSet(Started)
      /\ Cardinality(Started) \in Nat
  BY MaxMishapsIsNat, FS_CardinalityType DEF CountInv
<1>2. CASE Starts
  BY <1>2, StartStep DEF Starts
<1>3. CASE mishaps' = mishaps /\ ~Starts
  <2>1. Started' = Started
    <3>1. CASE try' = try
      BY <3>1 DEF Started
    <3>2. CASE \E p \in PaymentIds : GoesOn(p) \/ TryServedLate(p)
      BY <3>2, SameStarted
    <3>3. QED
      BY <1>1, <1>3, <3>1, <3>2, CalmSteps DEF Quiet, Leave, Return, ReturnLater
  <2>2. Blocked => Blocked'
    BY <1>1, <1>3, BlockedStays
  <2>3. QED
    BY <1>3, <2>1, <2>2 DEF CountInv
<1>4. CASE Mishap /\ (try' = try \/ \E p \in PaymentIds : GivesUp(p))
  <2>1. Started' = Started
    <3>1. CASE try' = try
      BY <3>1 DEF Started
    <3>2. CASE \E p \in PaymentIds : GivesUp(p)
      BY <3>2, SameStarted
    <3>3. QED
      BY <1>4, <3>1, <3>2
  <2>2. mishaps' = mishaps + 1 /\ mishaps' \in 0..MaxMishaps
    BY <1>1, <1>4, MaxMishapsIsNat DEF Mishap
  <2>3. Cardinality(Started) <= mishaps + 1
    BY <1>1 DEF CountInv
  <2>4. QED
    BY <1>1, <2>1, <2>2, <2>3 DEF CountInv
<1>5. QED
  BY <1>2, <1>3, <1>4, MishapSteps

-----------------------------------------------------------------------------
(* The invariant.                                                          *)

LEMMA InitIsInv ==
  ASSUME CheckoutInit
  PROVE  CheckoutInv
<1>1. LedgerOK
  <2>1. \A u \in Accounts :
          [status |-> IF u \in Staff THEN "active" ELSE "absent", balance |-> 0] \in UserRow
    BY DEF UserRow
  <2>2. [status |-> "absent", amount |-> 0, paid |-> 0, settled |-> FALSE] \in ChargeRow
    BY DEF ChargeRow
  <2>3. [status |-> "absent", user |-> NoAccount, charge |-> NoCharge, amount |-> 0,
         byWebhook |-> FALSE] \in PaymentRow
    BY DEF PaymentRow
  <2>4. QED
    BY <2>1, <2>2, <2>3 DEF CheckoutInit, Init, LedgerOK
<1>2. charge.status = "absent"
  BY PayerLivesHere DEF CheckoutInit, Init, charge
<1>3. BillInv
  <2>1. bill = Mount(Unfetched)
    BY DEF CheckoutInit
  <2>2. bill \in Entries /\ bill.data = NoData /\ bill.answer = NoData
    BY <2>1, UnfetchedIsEntry, MountIsEntry
  <2>3. QED
    BY <2>2 DEF BillInv, RowsAreOld
<1>4. TryInv
  <2>1. \A p \in PaymentIds : payments[p].status = "absent" /\ try[p].stage = "none"
    BY DEF CheckoutInit, Init
  <2>2. try \in [PaymentIds -> TryRow]
    <3>1. [stage |-> "none", amount |-> 0] \in TryRow
      BY DEF TryRow, TryStages
    <3>2. QED
      BY <3>1 DEF CheckoutInit
  <2>3. QED
    BY <2>1, <2>2 DEF TryInv, Covers, IsOfTry, HasPaid
<1>5. PageInv
  <2>1. page = NewPage /\ mine = NoPayment
    BY DEF CheckoutInit
  <2>2. QED
    BY <2>1 DEF NewPage, PageInv
<1>6. DeskInv
  <2>1. EmptyDesk \in Desk
    BY DEF EmptyDesk, Desk
  <2>2. QED
    BY <2>1 DEF CheckoutInit, DeskInv, EmptyDesk, ReceiptIsItsOwn
<1>7. CountInv
  <2>1. Started = {}
    BY DEF CheckoutInit, Started
  <2>2. mishaps = 0
    BY DEF CheckoutInit
  <2>3. QED
    BY <2>1, <2>2, FS_EmptySet, MaxMishapsIsNat DEF CountInv
<1>8. QED
  BY <1>1, <1>2, <1>3, <1>4, <1>5, <1>6, <1>7 DEF CheckoutInv, StateInv, FlagIsExact

LEMMA StepKeepsInv ==
  ASSUME CheckoutInv, [CheckoutNext]_cvars
  PROVE  CheckoutInv'
<1>1. StateInv /\ CountInv
  BY DEF CheckoutInv
<1>2. StateInv'
  BY <1>1, LedgerStep, BillStep, TryStep, PageStep, DeskStep DEF StateInv
<1>3. QED
  BY <1>1, <1>2, CountStep DEF CheckoutInv

LEMMA InvHolds == CheckoutSpec => []CheckoutInv
<1>1. CheckoutInit => CheckoutInv
  BY InitIsInv
<1>2. CheckoutInv /\ [CheckoutNext]_cvars => CheckoutInv'
  BY StepKeepsInv
<1>3. QED
  BY <1>1, <1>2, PTL DEF CheckoutSpec

(* Both pages, the cache, the tries and the ledger stay well formed: in    *)
(* particular nothing that was paid, owed or typed is ever negative or of  *)
(* somebody unknown (StudentFinancePage and AccountantPaymentsPage).       *)
THEOREM TypeCorrect == CheckoutSpec => []CheckoutTypeOK
<1>1. CheckoutInv => CheckoutTypeOK
  <2> SUFFICES ASSUME CheckoutInv
               PROVE  CheckoutTypeOK
    OBVIOUS
  <2>1. LedgerOK /\ BillInv /\ TryInv /\ PageInv /\ DeskInv /\ mishaps \in 0..MaxMishaps
    BY DEF CheckoutInv, StateInv, CountInv
  <2>2. QED
    BY <2>1 DEF CheckoutTypeOK, LedgerOK, UserRow, ChargeRow, PaymentRow, BillInv, Entries,
       TryInv, TryRow, PageInv, DeskInv, DeskCalls
<1>2. QED
  BY <1>1, InvHolds, PTL

(* What the page reports as complete has been paid in full, whatever the   *)
(* age of the charge it was computed from, whoever confirmed it and        *)
(* whichever calls failed (StudentFinancePage onSuccess).                  *)
THEOREM CompleteIsPaid == CheckoutSpec => []CompleteMeansPaid
<1>1. CheckoutInv => CompleteMeansPaid
  BY DEF CheckoutInv, StateInv, PageInv, Fully, charge, CompleteMeansPaid, Owed
<1>2. QED
  BY <1>1, InvHolds, PTL

(* However many tries the student has, and however the pages interleave,   *)
(* every payment but one was preceded by a mishap of its own: a call or a  *)
(* fetch that failed, or a page left while paying (StudentFinancePage).    *)
THEOREM PaymentsAreCounted == CheckoutSpec => []PaidOnceUnlessMishap
<1> DEFINE Paid == {p \in PaymentIds : payments[p].status # "absent"}
<1>1. CheckoutInv => PaidOnceUnlessMishap
  <2> SUFFICES ASSUME CheckoutInv
               PROVE  Cardinality(Paid) <= 1 + mishaps
    BY DEF PaidOnceUnlessMishap
  <2>1. TryInv /\ CountInv
    BY DEF CheckoutInv, StateInv
  <2>2. mishaps \in Nat /\ IsFiniteSet(Started) /\ Cardinality(Started) \in Nat
        /\ Cardinality(Started) <= mishaps + 1
    BY <2>1, MaxMishapsIsNat, FS_CardinalityType DEF CountInv
  <2>3. Paid \subseteq Started
    BY <2>1 DEF TryInv, IsOfTry, Started
  <2>4. IsFiniteSet(Paid) /\ Cardinality(Paid) <= Cardinality(Started)
    BY <2>2, <2>3, FS_Subset
  <2>5. Cardinality(Paid) \in Nat
    BY <2>4, FS_CardinalityType
  <2>6. QED
    BY <2>2, <2>4, <2>5
<1>2. QED
  BY <1>1, InvHolds, PTL

(* The one receipt field of the accountant's page never puts a receipt on  *)
(* another payment than the one that was selected when it was typed        *)
(* (AccountantPaymentsPage receiptReference).                              *)
THEOREM ReceiptsStay == CheckoutSpec => []ReceiptIsItsOwn
<1>1. CheckoutInv => ReceiptIsItsOwn
  BY DEF CheckoutInv, StateInv, DeskInv
<1>2. QED
  BY <1>1, InvHolds, PTL
=============================================================================
