---------------------------- MODULE BillingProofs ----------------------------
(***************************************************************************)
(* Theorems about Billing for every value of its constants, in particular  *)
(* for any number of requests in flight.                                   *)
(***************************************************************************)
EXTENDS Billing, FiniteSetTheorems, TLAPS

(***************************************************************************)
(* Helpers: what the operators that compute rows return.                   *)
(***************************************************************************)

LEMMA ReducedType ==
  ASSUME NEW b \in Nat, NEW m \in Nat
  PROVE  Reduced(b, m) \in Nat
BY DEF Reduced

LEMMA PaymentColumnsType ==
  ASSUME NEW stored \in PaymentRow, NEW loaded \in PaymentRow, NEW new \in PaymentRow
  PROVE  /\ PaymentColumns(stored, loaded, new) \in PaymentRow
         /\ PaymentColumns(stored, loaded, new).user = stored.user
         /\ PaymentColumns(stored, loaded, new).charge = stored.charge
         /\ PaymentColumns(stored, loaded, new).amount = stored.amount
         /\ PaymentColumns(stored, loaded, new).method = stored.method
         /\ PaymentColumns(stored, loaded, new).status =
              Column(stored.status, loaded.status, new.status)
         /\ PaymentColumns(stored, loaded, new).updatedBy =
              Column(stored.updatedBy, loaded.updatedBy, new.updatedBy)
BY DEF PaymentColumns, PaymentRow, Column

LEMMA ChargeColumnsType ==
  ASSUME NEW stored \in ChargeRow, NEW loaded \in ChargeRow, NEW new \in ChargeRow
  PROVE  /\ ChargeColumns(stored, loaded, new) \in ChargeRow
         /\ ChargeColumns(stored, loaded, new).amount = stored.amount
         /\ ChargeColumns(stored, loaded, new).status =
              Column(stored.status, loaded.status, new.status)
         /\ ChargeColumns(stored, loaded, new).paid =
              Column(stored.paid, loaded.paid, new.paid)
         /\ ChargeColumns(stored, loaded, new).settled =
              Column(stored.settled, loaded.settled, new.settled)
BY DEF ChargeColumns, ChargeRow, Column

LEMMA AbsentRows ==
  /\ AbsentCharge \in ChargeRow
  /\ AbsentPayment \in PaymentRow
  /\ Idle \in Request
BY DEF AbsentCharge, AbsentPayment, Idle, ChargeRow, PaymentRow, Request, Stages

LEMMA ApplyPaymentType ==
  ASSUME NEW charge \in ChargeRow, NEW amount \in Nat
  PROVE  /\ ApplyPayment(charge, amount) \in ChargeRow
         /\ ApplyPayment(charge, amount).status = charge.status
         /\ ApplyPayment(charge, amount).amount = charge.amount
         /\ ApplyPayment(charge, amount).paid = charge.paid + amount
         /\ ApplyPayment(charge, amount).settled = Covers(charge.paid + amount, charge.amount)
<1>1. Covers(charge.paid + amount, charge.amount) \in BOOLEAN
  BY DEF Covers
<1>2. PICK full \in BOOLEAN : full = Covers(charge.paid + amount, charge.amount)
  BY <1>1, Zenon
<1>3. ApplyPayment(charge, amount) = [charge EXCEPT !.paid = @ + amount, !.settled = full]
  BY <1>2, Zenon DEF ApplyPayment
<1>4. charge.paid + amount \in Nat
  BY DEF ChargeRow
<1>5. /\ ApplyPayment(charge, amount) \in ChargeRow
      /\ ApplyPayment(charge, amount).status = charge.status
      /\ ApplyPayment(charge, amount).amount = charge.amount
      /\ ApplyPayment(charge, amount).paid = charge.paid + amount
      /\ ApplyPayment(charge, amount).settled = full
  BY <1>3, <1>4 DEF ChargeRow
<1>6. QED
  BY <1>2, <1>5, Zenon

LEMMA ConfirmType ==
  ASSUME NEW payment \in PaymentRow, NEW by \in Accounts \cup {NoAccount}
  PROVE  /\ Confirm(payment, by) \in PaymentRow
         /\ Confirm(payment, by).status = "Confirmed"
         /\ Confirm(payment, by).updatedBy = by
         /\ Confirm(payment, by).reference = payment.reference
BY DEF Confirm, PaymentRow

LEMMA SoftDeletedType ==
  ASSUME NEW charge \in ChargeRow
  PROVE  /\ SoftDeleted(charge) \in ChargeRow
         /\ SoftDeleted(charge).status = "deleted"
         /\ SoftDeleted(charge).paid = charge.paid
         /\ SoftDeleted(charge).settled = charge.settled
BY DEF SoftDeleted, ChargeRow

LEMMA FindType ==
  ASSUME NEW charge \in ChargeRow
  PROVE  Find(charge) \in ChargeRow
BY AbsentRows DEF Find

(* The fields of a request that a worker may be serving.                   *)
LEMMA RequestFields ==
  ASSUME TypeOK, NEW w \in Workers
  PROVE  /\ req[w] \in Request
         /\ req[w].stage \in Stages
         /\ req[w].actor \in Accounts \cup {NoAccount}
         /\ req[w].id \in PaymentIds \cup {NoPayment}
         /\ req[w].subject \in Accounts \cup {NoAccount}
         /\ req[w].authBalance \in Nat
         /\ req[w].balance \in Nat
         /\ req[w].charge \in ChargeRow
         /\ req[w].payment \in PaymentRow
         /\ req[w].payment.amount \in Nat
BY DEF TypeOK, Request, PaymentRow

LEMMA BecomesType ==
  ASSUME TypeOK, NEW w \in Workers, NEW r \in Request, Becomes(w, r)
  PROVE  req' \in [Workers -> Request]
BY DEF TypeOK, Becomes

LEMMA EndsType ==
  ASSUME TypeOK, NEW w \in Workers, Ends(w)
  PROVE  req' \in [Workers -> Request]
BY BecomesType, AbsentRows DEF Ends

(***************************************************************************)
(* The structural invariant: tables and requests are well typed, and a     *)
(* request past its first query refers to rows that exist.                 *)
(***************************************************************************)
PaymentStages == {"attachReference", "confirm", "confirmUser", "confirmCharge",
                  "confirmSave", "webhookUser", "webhookSave"}

OwnerStages == {"confirmUser", "confirmCharge", "confirmSave",
                "webhookUser", "webhookSave"}

DeleteStages == {"deleteCharges", "deleteSave"}

RowsOK == \A p \in PaymentIds : payments[p].status # "absent" => payments[p].user \in Accounts

StageOK(w) ==
  /\ req[w].stage \in PaymentStages =>
       req[w].id \in PaymentIds /\ payments[req[w].id].status # "absent"
  /\ req[w].stage = "addCharge" => req[w].subject \in Students
  /\ req[w].stage \in OwnerStages =>
       /\ req[w].subject = payments[req[w].id].user
       /\ req[w].payment.user = payments[req[w].id].user
       /\ req[w].payment.charge = payments[req[w].id].charge
       /\ req[w].payment.amount = payments[req[w].id].amount
       /\ req[w].payment.method = payments[req[w].id].method
  /\ req[w].stage \in OwnerStages \cup {"attachReference"} => req[w].payment.status = "Pending"
  /\ req[w].stage \in DeleteStages => req[w].subject \in Accounts

SInv == TypeOK /\ RowsOK /\ \A w \in Workers : StageOK(w)

(* What every step keeps of the payments that exist.                       *)
PaymentsKept ==
  \A p \in PaymentIds : payments[p].status # "absent" =>
    /\ payments'[p].status # "absent"
    /\ payments'[p].user = payments[p].user
    /\ payments'[p].charge = payments[p].charge
    /\ payments'[p].amount = payments[p].amount
    /\ payments'[p].method = payments[p].method

(* Only the worker that takes the step has to be looked at.                *)
LEMMA StructuralStep ==
  ASSUME SInv, NEW w \in Workers, NEW r \in Request, Becomes(w, r),
         users' \in [Accounts -> UserRow],
         charges' \in [Students -> ChargeRow],
         payments' \in [PaymentIds -> PaymentRow],
         PaymentsKept, RowsOK', StageOK(w)'
  PROVE  SInv'
<1>1. req' \in [Workers -> Request]
  BY BecomesType DEF SInv
<1>2. ASSUME NEW v \in Workers, v # w
      PROVE  StageOK(v)'
  <2>1. req'[v] = req[v]
    BY <1>2 DEF Becomes, SInv, TypeOK
  <2>2. StageOK(v)
    BY DEF SInv
  <2>3. QED
    BY <2>1, <2>2 DEF StageOK, PaymentsKept, PaymentStages, OwnerStages
<1>3. QED
  BY <1>1, <1>2 DEF SInv, TypeOK

LEMMA ReadStep ==
  ASSUME SInv, NEW w \in Workers, NEW r \in Request, Becomes(w, r),
         UNCHANGED <<users, charges, payments>>, StageOK(w)'
  PROVE  SInv'
BY StructuralStep DEF SInv, TypeOK, RowsOK, PaymentsKept

LEMMA IdleIsOK ==
  ASSUME SInv, NEW w \in Workers, Ends(w)
  PROVE  StageOK(w)' /\ Becomes(w, Idle) /\ Idle \in Request
<1>1. req'[w] = Idle
  BY DEF Ends, Becomes, SInv, TypeOK
<1>2. QED
  BY <1>1, AbsentRows DEF StageOK, Idle, PaymentStages, OwnerStages, DeleteStages, Ends

LEMMA EndStep ==
  ASSUME SInv, NEW w \in Workers, Ends(w), UNCHANGED <<users, charges, payments>>
  PROVE  SInv'
BY IdleIsOK, ReadStep

(* The request that Becomes writes.                                        *)
LEMMA Becoming ==
  ASSUME SInv, NEW w \in Workers, NEW r, Becomes(w, r)
  PROVE  req'[w] = r
BY DEF Becomes, SInv, TypeOK

(* A save that replaces one payment by PaymentColumns.                     *)
LEMMA SavedPayment ==
  ASSUME SInv, NEW p \in PaymentIds, payments[p].status # "absent",
         NEW loaded \in PaymentRow, loaded.status = "Pending",
         NEW new \in PaymentRow, new.status # "absent",
         payments' = [payments EXCEPT ![p] = PaymentColumns(@, loaded, new)]
  PROVE  payments' \in [PaymentIds -> PaymentRow] /\ PaymentsKept /\ RowsOK'
<1>1. payments[p] \in PaymentRow
  BY DEF SInv, TypeOK
<1>2. /\ payments'[p] = PaymentColumns(payments[p], loaded, new)
      /\ \A q \in PaymentIds : q # p => payments'[q] = payments[q]
      /\ payments'[p] \in PaymentRow
      /\ payments' \in [PaymentIds -> PaymentRow]
  BY <1>1, PaymentColumnsType DEF SInv, TypeOK
<1>3. payments'[p].status # "absent"
  BY <1>1, <1>2, PaymentColumnsType DEF Column
<1>4. PaymentsKept
  BY <1>1, <1>2, <1>3, PaymentColumnsType DEF PaymentsKept
<1>5. RowsOK'
  BY <1>2, <1>4 DEF RowsOK, PaymentsKept, SInv
<1>6. QED
  BY <1>2, <1>4, <1>5

(***************************************************************************)
(* The structural invariant is kept by every action.                       *)
(***************************************************************************)
LEMMA StructInit == Init => SInv
<1> SUFFICES ASSUME Init PROVE SInv
  OBVIOUS
<1>1. TypeOK
  BY AbsentRows DEF Init, TypeOK, UserRow
<1>2. RowsOK
  BY DEF Init, RowsOK, AbsentPayment
<1>3. ASSUME NEW w \in Workers PROVE StageOK(w)
  BY DEF Init, StageOK, Idle, PaymentStages, OwnerStages, DeleteStages
<1>4. QED
  BY <1>1, <1>2, <1>3 DEF SInv

LEMMA StructCreateUser ==
  ASSUME SInv, NEW w \in Workers, NEW a \in Admins, NEW s \in Students, NEW rate \in Rates,
         CreateUser(w, a, s, rate)
  PROVE  SInv'
<1> DEFINE r == IF rate > 0
                THEN [Idle EXCEPT !.stage = "addCharge", !.actor = a,
                                  !.subject = s, !.balance = rate]
                ELSE Idle
<1>1. a \in Accounts /\ s \in Accounts /\ rate \in Nat
  BY RolesAreExclusive, RatesAreNaturals DEF Accounts
<1>2. r \in Request
  BY <1>1, AbsentRows DEF Request, Idle, Stages
<1>3. Becomes(w, r) /\ UNCHANGED <<charges, payments>>
  BY DEF CreateUser
<1>4. users' \in [Accounts -> UserRow]
  BY <1>1 DEF CreateUser, InitialBalance, SInv, TypeOK, UserRow
<1>5. req'[w] = r
  BY <1>3, Becoming
<1>6. StageOK(w)'
  BY <1>5 DEF StageOK, Idle, PaymentStages, OwnerStages, DeleteStages
<1>7. QED
  BY <1>2, <1>3, <1>4, <1>6, StructuralStep DEF SInv, TypeOK, RowsOK, PaymentsKept

LEMMA StructAddCharge ==
  ASSUME SInv, NEW w \in Workers, AddCharge(w)
  PROVE  SInv'
<1>1. [status |-> "active", amount |-> req[w].balance, paid |-> 0, settled |-> FALSE]
        \in ChargeRow
  BY RequestFields DEF ChargeRow, SInv
<1>2. charges' \in [Students -> ChargeRow]
  BY <1>1 DEF AddCharge, SInv, TypeOK
<1>3. QED
  BY <1>2, IdleIsOK, StructuralStep DEF AddCharge, SInv, TypeOK, RowsOK, PaymentsKept

LEMMA StructCreatePayment ==
  ASSUME SInv, NEW w \in Workers, NEW a \in Accounts, NEW p \in PaymentIds,
         NEW c \in Students \cup {NoCharge}, NEW amount \in Amounts,
         NEW method \in {"Manual", "MockGateway"},
         CreatePayment(w, a, p, c, amount, method)
  PROVE  SInv'
<1> DEFINE row == [AbsentPayment EXCEPT !.status = "Pending", !.user = a, !.charge = c,
                                        !.amount = amount, !.method = method]
           r == IF method = "MockGateway"
                THEN [Idle EXCEPT !.stage = "attachReference", !.actor = a,
                                  !.id = p, !.payment = row]
                ELSE Idle
<1>1. amount \in Nat
  BY AmountsAreNaturals
<1>2. /\ row \in PaymentRow
      /\ row.status = "Pending"
      /\ row.user = a
  BY <1>1 DEF PaymentRow, AbsentPayment
<1>3. /\ payments[p].status = "absent"
      /\ payments' = [payments EXCEPT ![p] = row]
      /\ Becomes(w, r)
      /\ UNCHANGED <<users, charges>>
  BY DEF CreatePayment
<1> HIDE DEF row
<1>4. r \in Request
  BY <1>2, AbsentRows DEF Request, Idle, Stages
<1>5. req'[w] = r
  BY <1>3, Becoming
<1>6. /\ payments' \in [PaymentIds -> PaymentRow]
      /\ payments'[p] = row
      /\ \A q \in PaymentIds : q # p => payments'[q] = payments[q]
  BY <1>2, <1>3 DEF SInv, TypeOK
<1>7. PaymentsKept /\ RowsOK'
  BY <1>2, <1>3, <1>6 DEF PaymentsKept, RowsOK, SInv
<1>8. StageOK(w)'
  BY <1>2, <1>5, <1>6 DEF StageOK, Idle, PaymentStages, OwnerStages, DeleteStages
<1>9. QED
  BY <1>3, <1>4, <1>6, <1>7, <1>8, StructuralStep DEF SInv, TypeOK

LEMMA StructAttachReference ==
  ASSUME SInv, NEW w \in Workers, AttachReference(w)
  PROVE  SInv'
<1> DEFINE new == [req[w].payment EXCEPT !.reference = TRUE, !.updatedBy = req[w].actor]
<1>1. /\ req[w].id \in PaymentIds
      /\ payments[req[w].id].status # "absent"
      /\ req[w].payment.status = "Pending"
  BY DEF AttachReference, SInv, StageOK, PaymentStages
<1>2. new \in PaymentRow /\ new.status = "Pending"
  BY <1>1, RequestFields DEF PaymentRow, SInv
<1>3. payments' = [payments EXCEPT ![req[w].id] = PaymentColumns(@, req[w].payment, new)]
  BY DEF AttachReference
<1> HIDE DEF new
<1>4. payments' \in [PaymentIds -> PaymentRow] /\ PaymentsKept /\ RowsOK'
  BY <1>1, <1>2, <1>3, RequestFields, SavedPayment DEF SInv
<1>5. QED
  BY <1>4, IdleIsOK, StructuralStep DEF AttachReference, SInv, TypeOK

LEMMA StructBeginConfirm ==
  ASSUME SInv, NEW w \in Workers, NEW a \in Accounts, NEW p \in PaymentIds,
         BeginConfirm(w, a, p)
  PROVE  SInv'
<1> DEFINE r == [Idle EXCEPT !.stage = "confirm", !.actor = a, !.id = p,
                             !.authBalance = users[a].balance]
<1>1. r \in Request
  BY AbsentRows DEF SInv, TypeOK, UserRow, Request, Idle, Stages
<1>2. Becomes(w, r) /\ UNCHANGED <<users, charges, payments>>
  BY DEF BeginConfirm
<1>3. StageOK(w)'
  BY <1>2, Becoming DEF BeginConfirm, StageOK, Idle, PaymentStages, OwnerStages, DeleteStages
<1>4. QED
  BY <1>1, <1>2, <1>3, ReadStep

LEMMA StructConfirmLoadPayment ==
  ASSUME SInv, NEW w \in Workers, ConfirmLoadPayment(w)
  PROVE  SInv'
<1> DEFINE row == payments[req[w].id]
           r == [req[w] EXCEPT !.stage = "confirmUser", !.payment = row, !.subject = row.user]
<1>1. /\ req[w].id \in PaymentIds
      /\ row \in PaymentRow
      /\ row.status # "absent"
      /\ row.user \in Accounts
  BY DEF ConfirmLoadPayment, SInv, TypeOK, RowsOK, StageOK, PaymentStages
<1>2. UNCHANGED <<users, charges, payments>>
  BY DEF ConfirmLoadPayment
<1>3. CASE Becomes(w, r) /\ StillPending(row)
  <2>1. r \in Request
    BY <1>1, RequestFields DEF SInv, Request, Stages
  <2>2. req'[w] = r
    BY <1>3, Becoming
  <2>3. r.stage = "confirmUser" /\ r.id = req[w].id /\ r.payment = row /\ r.subject = row.user
    BY RequestFields DEF SInv, Request
  <2>4. row.status = "Pending"
    BY <1>1, <1>3 DEF StillPending, PaymentRow
  <2>5. StageOK(w)'
    BY <1>1, <1>2, <2>2, <2>3, <2>4 DEF StageOK, PaymentStages, OwnerStages, DeleteStages
  <2>6. QED
    BY <1>2, <1>3, <2>1, <2>5, ReadStep
<1>4. CASE Ends(w)
  BY <1>2, <1>4, EndStep
<1>5. QED
  BY <1>3, <1>4 DEF ConfirmLoadPayment, Ends

LEMMA StructLoadUser ==
  ASSUME SInv, NEW w \in Workers, ConfirmLoadUser(w) \/ WebhookLoadUser(w)
  PROVE  SInv'
<1>1. /\ req[w].stage \in {"confirmUser", "webhookUser"}
      /\ UNCHANGED <<users, charges, payments>>
  BY DEF ConfirmLoadUser, WebhookLoadUser
<1>2. StageOK(w) /\ req[w].subject \in Accounts
  BY <1>1 DEF SInv, StageOK, RowsOK, OwnerStages, PaymentStages
<1>3. ASSUME NEW stage \in {"confirmCharge", "webhookSave"}, NEW balance \in Nat,
             Becomes(w, [req[w] EXCEPT !.stage = stage, !.balance = balance])
      PROVE  SInv'
  <2> DEFINE r == [req[w] EXCEPT !.stage = stage, !.balance = balance]
  <2>1. r \in Request
    BY RequestFields DEF SInv, Request, Stages
  <2>2. req'[w] = r
    BY <1>3, Becoming
  <2>3. /\ r.stage = stage /\ r.id = req[w].id /\ r.payment = req[w].payment
        /\ r.subject = req[w].subject
    BY RequestFields DEF SInv, Request
  <2>4. StageOK(w)'
    BY <1>1, <1>2, <2>2, <2>3 DEF StageOK, PaymentStages, OwnerStages, DeleteStages
  <2>5. QED
    BY <1>1, <1>3, <2>1, <2>4, ReadStep
<1>4. users[req[w].subject].balance \in Nat /\ req[w].authBalance \in Nat
  BY <1>2, RequestFields DEF SInv, TypeOK, UserRow
<1>5. QED
  BY <1>1, <1>3, <1>4, EndStep DEF ConfirmLoadUser, WebhookLoadUser, Ends

LEMMA StructConfirmLoadCharge ==
  ASSUME SInv, NEW w \in Workers, ConfirmLoadCharge(w)
  PROVE  SInv'
<1> DEFINE c == req[w].payment.charge
           found == IF c \in Students THEN Find(charges[c]) ELSE AbsentCharge
           r == [req[w] EXCEPT !.stage = "confirmSave", !.charge = found]
<1>1. found \in ChargeRow
  BY FindType, AbsentRows DEF SInv, TypeOK
<1>2. Becomes(w, r) /\ UNCHANGED <<users, charges, payments>>
  BY DEF ConfirmLoadCharge
<1> HIDE DEF found
<1>3. r \in Request
  BY <1>1, RequestFields DEF SInv, Request, Stages
<1>4. req'[w] = r
  BY <1>2, Becoming
<1>5. /\ r.stage = "confirmSave" /\ r.id = req[w].id /\ r.payment = req[w].payment
      /\ r.subject = req[w].subject
  BY RequestFields DEF SInv, Request
<1>6. StageOK(w) /\ req[w].stage = "confirmCharge"
  BY DEF SInv, ConfirmLoadCharge
<1>7. StageOK(w)'
  BY <1>2, <1>4, <1>5, <1>6 DEF StageOK, PaymentStages, OwnerStages, DeleteStages
<1>8. QED
  BY <1>2, <1>3, <1>7, ReadStep

(* What the two saves that confirm a payment do to the payment and to its  *)
(* owner's Balance.                                                        *)
LEMMA Confirms ==
  ASSUME SInv, NEW w \in Workers, NEW by \in Accounts \cup {NoAccount},
         req[w].stage \in {"confirmSave", "webhookSave"},
         payments' = [payments EXCEPT ![req[w].id] =
           PaymentColumns(@, req[w].payment, Confirm(req[w].payment, by))],
         users' = [users EXCEPT ![req[w].subject].balance =
           SaveBalance(req[w].subject, req[w].balance,
                       Reduced(req[w].balance, req[w].payment.amount))]
  PROVE  /\ req[w].id \in PaymentIds
         /\ payments[req[w].id].status # "absent"
         /\ req[w].subject = payments[req[w].id].user
         /\ payments' \in [PaymentIds -> PaymentRow]
         /\ PaymentsKept
         /\ RowsOK'
         /\ payments'[req[w].id].status = "Confirmed"
         /\ payments'[req[w].id].updatedBy =
              Column(payments[req[w].id].updatedBy, req[w].payment.updatedBy, by)
         /\ \A q \in PaymentIds : q # req[w].id => payments'[q] = payments[q]
         /\ users' \in [Accounts -> UserRow]
         /\ \A u \in Accounts : users'[u].status = users[u].status
         /\ \A u \in Accounts : u # req[w].subject => users'[u] = users[u]
<1> DEFINE p == req[w].id
           new == Confirm(req[w].payment, by)
<1>1. /\ p \in PaymentIds
      /\ payments[p].status # "absent"
      /\ req[w].payment \in PaymentRow
      /\ req[w].payment.status = "Pending"
      /\ req[w].subject = payments[p].user
      /\ req[w].subject \in Accounts
  BY RequestFields DEF SInv, StageOK, RowsOK, PaymentStages, OwnerStages
<1>2. new \in PaymentRow /\ new.status = "Confirmed" /\ new.updatedBy = by
  BY <1>1, ConfirmType
<1>3. payments' \in [PaymentIds -> PaymentRow] /\ PaymentsKept /\ RowsOK'
  BY <1>1, <1>2, SavedPayment
<1>4. payments[p] \in PaymentRow /\ payments'[p] = PaymentColumns(payments[p], req[w].payment, new)
  BY <1>1 DEF SInv, TypeOK
<1>5. /\ payments'[p].status = "Confirmed"
      /\ payments'[p].updatedBy = Column(payments[p].updatedBy, req[w].payment.updatedBy, by)
  BY <1>1, <1>2, <1>4, PaymentColumnsType DEF Column
<1>6. \A q \in PaymentIds : q # p => payments'[q] = payments[q]
  BY DEF SInv, TypeOK
<1>7. req[w].balance \in Nat /\ req[w].payment.amount \in Nat
  BY RequestFields DEF SInv
<1>8. SaveBalance(req[w].subject, req[w].balance,
                  Reduced(req[w].balance, req[w].payment.amount)) \in Nat
  BY <1>1, <1>7, ReducedType DEF SaveBalance, Column, SInv, TypeOK, UserRow
<1>9. /\ users' \in [Accounts -> UserRow]
      /\ \A u \in Accounts : users'[u].status = users[u].status
      /\ \A u \in Accounts : u # req[w].subject => users'[u] = users[u]
  BY <1>1, <1>8 DEF SInv, TypeOK, UserRow
<1>10. QED
  BY <1>1, <1>3, <1>5, <1>6, <1>9

LEMMA StructConfirmSave ==
  ASSUME SInv, NEW w \in Workers, ConfirmSave(w)
  PROVE  SInv'
<1> DEFINE c == req[w].payment.charge
           paid == ApplyPayment(req[w].charge, req[w].payment.amount)
<1>1. req[w].stage \in {"confirmSave", "webhookSave"} /\ req[w].actor \in Accounts \cup {NoAccount}
  BY RequestFields DEF ConfirmSave, SInv
<1>2. payments' \in [PaymentIds -> PaymentRow] /\ PaymentsKept /\ RowsOK'
      /\ users' \in [Accounts -> UserRow]
  BY <1>1, Confirms DEF ConfirmSave
<1>3. paid \in ChargeRow
  BY RequestFields, ApplyPaymentType DEF SInv
<1>4. \A s \in Students : ChargeColumns(charges[s], req[w].charge, paid) \in ChargeRow
  BY <1>3, RequestFields, ChargeColumnsType DEF SInv, TypeOK
<1>5. charges' \in [Students -> ChargeRow]
  BY <1>4 DEF ConfirmSave, SInv, TypeOK
<1>6. QED
  BY <1>2, <1>5, IdleIsOK, StructuralStep DEF ConfirmSave

LEMMA StructWebhookLoadPayment ==
  ASSUME SInv, NEW w \in Workers, NEW p \in PaymentIds, WebhookLoadPayment(w, p)
  PROVE  SInv'
<1> DEFINE r == [Idle EXCEPT !.stage = "webhookUser", !.id = p,
                             !.payment = payments[p], !.subject = payments[p].user]
<1>1. payments[p] \in PaymentRow /\ payments[p].status = "Pending" /\ payments[p].user \in Accounts
  BY DEF WebhookLoadPayment, SInv, TypeOK, RowsOK
<1>2. r \in Request
  BY <1>1, AbsentRows DEF Request, Idle, Stages
<1>3. Becomes(w, r) /\ UNCHANGED <<users, charges, payments>>
  BY DEF WebhookLoadPayment
<1>4. req'[w] = r /\ payments' = payments
  BY <1>2, <1>3, Becoming
<1>5. r.stage = "webhookUser" /\ r.id = p /\ r.payment = payments[p] /\ r.subject = payments[p].user
  BY DEF Idle
<1>6. StageOK(w)'
  BY <1>1, <1>4, <1>5 DEF StageOK, PaymentStages, OwnerStages, DeleteStages
<1>7. QED
  BY <1>2, <1>3, <1>6, ReadStep

LEMMA StructWebhookSave ==
  ASSUME SInv, NEW w \in Workers, WebhookSave(w)
  PROVE  SInv'
<1>1. payments' \in [PaymentIds -> PaymentRow] /\ PaymentsKept /\ RowsOK'
      /\ users' \in [Accounts -> UserRow]
  BY Confirms DEF WebhookSave
<1>2. QED
  BY <1>1, IdleIsOK, StructuralStep DEF WebhookSave, SInv, TypeOK

LEMMA StructDeleteUser ==
  ASSUME SInv, NEW w \in Workers, NEW a \in Admins, NEW u \in Accounts, DeleteUser(w, a, u)
  PROVE  SInv'
<1> DEFINE r == [Idle EXCEPT !.stage = "deleteCharges", !.actor = a, !.subject = u,
                             !.balance = users[u].balance]
<1>1. r \in Request
  BY AbsentRows, RolesAreExclusive DEF SInv, TypeOK, UserRow, Request, Idle, Stages, Accounts
<1>2. Becomes(w, r) /\ UNCHANGED <<users, charges, payments>>
  BY DEF DeleteUser
<1>3. StageOK(w)'
  BY <1>2, Becoming DEF StageOK, Idle, PaymentStages, OwnerStages, DeleteStages
<1>4. QED
  BY <1>1, <1>2, <1>3, ReadStep

LEMMA StructDeleteLoadCharges ==
  ASSUME SInv, NEW w \in Workers, DeleteLoadCharges(w)
  PROVE  SInv'
<1> DEFINE u == req[w].subject
           found == IF u \in Students THEN Find(charges[u]) ELSE AbsentCharge
           r == [req[w] EXCEPT !.stage = "deleteSave", !.charge = found]
<1>1. found \in ChargeRow
  BY FindType, AbsentRows DEF SInv, TypeOK
<1>2. Becomes(w, r) /\ UNCHANGED <<users, charges, payments>>
  BY DEF DeleteLoadCharges
<1> HIDE DEF found
<1>3. r \in Request
  BY <1>1, RequestFields DEF SInv, Request, Stages
<1>4. req'[w] = r
  BY <1>2, Becoming
<1>5. r.stage = "deleteSave" /\ r.subject = req[w].subject
  BY RequestFields DEF SInv, Request
<1>6. req[w].subject \in Accounts
  BY DEF SInv, StageOK, DeleteLoadCharges, DeleteStages
<1>7. StageOK(w)'
  BY <1>4, <1>5, <1>6 DEF StageOK, PaymentStages, OwnerStages, DeleteStages
<1>8. QED
  BY <1>2, <1>3, <1>7, ReadStep

LEMMA StructDeleteSave ==
  ASSUME SInv, NEW w \in Workers, DeleteSave(w)
  PROVE  SInv'
<1> DEFINE u == req[w].subject
           gone == SoftDeleted(req[w].charge)
<1>1. u \in Accounts /\ req[w].balance \in Nat /\ req[w].charge \in ChargeRow
  BY RequestFields DEF DeleteSave, SInv, StageOK, DeleteStages
<1>2. SaveBalance(u, req[w].balance, 0) \in Nat
  BY <1>1 DEF SaveBalance, Column, SInv, TypeOK, UserRow
<1>3. users' \in [Accounts -> UserRow]
  BY <1>1, <1>2 DEF DeleteSave, SInv, TypeOK, UserRow
<1>4. gone \in ChargeRow
  BY <1>1, SoftDeletedType
<1>5. \A s \in Students : ChargeColumns(charges[s], req[w].charge, gone) \in ChargeRow
  BY <1>1, <1>4, ChargeColumnsType DEF SInv, TypeOK
<1>6. charges' \in [Students -> ChargeRow]
  BY <1>5 DEF DeleteSave, SInv, TypeOK
<1>7. QED
  BY <1>3, <1>6, IdleIsOK, StructuralStep DEF DeleteSave, SInv, TypeOK, RowsOK, PaymentsKept

LEMMA StructAbort ==
  ASSUME SInv, NEW w \in Workers, Abort(w)
  PROVE  SInv'
BY EndStep DEF Abort

LEMMA StructNext == SInv /\ [Next]_vars => SInv'
<1> SUFFICES ASSUME SInv, [Next]_vars PROVE SInv'
  OBVIOUS
<1>1. ASSUME NEW w \in Workers, Start(w) PROVE SInv'
  BY <1>1, StructCreateUser, StructCreatePayment, StructBeginConfirm,
     StructWebhookLoadPayment, StructDeleteUser DEF Start
<1>2. ASSUME NEW w \in Workers, Continue(w) PROVE SInv'
  BY <1>2, StructAddCharge, StructAttachReference, StructConfirmLoadPayment, StructLoadUser,
     StructConfirmLoadCharge, StructConfirmSave, StructWebhookSave, StructDeleteLoadCharges,
     StructDeleteSave, StructAbort DEF Continue
<1>3. CASE UNCHANGED vars
  BY <1>3 DEF vars, SInv, TypeOK, RowsOK, StageOK
<1>4. QED
  BY <1>1, <1>2, <1>3 DEF Next

LEMMA StructuralInvariant == Spec => []SInv
BY StructInit, StructNext, PTL DEF Spec

(* Tables and requests keep their types, in particular no Balance and no   *)
(* paid amount is ever negative, whatever the requests overwrite.          *)
THEOREM TypeCorrect == Spec => []TypeOK
<1>1. SInv => TypeOK
  BY DEF SInv
<1>2. QED
  BY <1>1, StructuralInvariant, PTL

(***************************************************************************)
(* What a step may do to a payment: create it, or leave it what it was     *)
(* about, never leaving Confirmed.                                         *)
(***************************************************************************)
LEMMA PaymentStep ==
  ASSUME SInv, [Next]_vars
  PROVE  /\ PaymentsKept
         /\ \A p \in PaymentIds :
              payments[p].status = "Confirmed" => payments'[p].status = "Confirmed"
<1>1. CASE UNCHANGED payments
  BY <1>1 DEF PaymentsKept
<1>2. ASSUME NEW w \in Workers, NEW a \in Accounts, NEW p \in PaymentIds,
             NEW c \in Students \cup {NoCharge}, NEW amount \in Amounts,
             NEW method \in {"Manual", "MockGateway"},
             CreatePayment(w, a, p, c, amount, method)
      PROVE  /\ PaymentsKept
             /\ \A q \in PaymentIds :
                  payments[q].status = "Confirmed" => payments'[q].status = "Confirmed"
  <2>1. payments[p].status = "absent"
    BY <1>2 DEF CreatePayment
  <2>2. \A q \in PaymentIds : q # p => payments'[q] = payments[q]
    BY <1>2 DEF CreatePayment, SInv, TypeOK
  <2>3. QED
    BY <2>1, <2>2 DEF PaymentsKept
<1>3. ASSUME NEW w \in Workers, AttachReference(w)
      PROVE  /\ PaymentsKept
             /\ \A q \in PaymentIds :
                  payments[q].status = "Confirmed" => payments'[q].status = "Confirmed"
  <2> DEFINE p == req[w].id
             new == [req[w].payment EXCEPT !.reference = TRUE, !.updatedBy = req[w].actor]
  <2>1. /\ p \in PaymentIds
        /\ payments[p].status # "absent"
        /\ req[w].payment.status = "Pending"
    BY <1>3 DEF AttachReference, SInv, StageOK, PaymentStages
  <2>2. new \in PaymentRow /\ new.status = "Pending" /\ req[w].payment \in PaymentRow
    BY <2>1, RequestFields DEF PaymentRow, SInv
  <2>3. payments' = [payments EXCEPT ![p] = PaymentColumns(@, req[w].payment, new)]
    BY <1>3 DEF AttachReference
  <2> HIDE DEF new
  <2>4. PaymentsKept
    BY <2>1, <2>2, <2>3, SavedPayment
  <2>5. payments[p] \in PaymentRow /\ payments'[p] = PaymentColumns(payments[p], req[w].payment, new)
    BY <2>1, <2>3 DEF SInv, TypeOK
  <2>6. payments'[p].status = payments[p].status
    BY <2>1, <2>2, <2>5, PaymentColumnsType DEF Column
  <2>7. QED
    BY <2>3, <2>4, <2>6 DEF SInv, TypeOK
<1>4. ASSUME NEW w \in Workers, ConfirmSave(w) \/ WebhookSave(w)
      PROVE  /\ PaymentsKept
             /\ \A q \in PaymentIds :
                  payments[q].status = "Confirmed" => payments'[q].status = "Confirmed"
  <2>1. req[w].actor \in Accounts \cup {NoAccount}
    BY RequestFields DEF SInv
  <2>2. CASE ConfirmSave(w)
    BY <2>1, <2>2, Confirms DEF ConfirmSave
  <2>3. CASE WebhookSave(w)
    BY <2>3, Confirms DEF WebhookSave
  <2>4. QED
    BY <1>4, <2>2, <2>3
<1>5. QED
  BY <1>1, <1>2, <1>3, <1>4
     DEF Next, Start, Continue, vars, CreateUser, AddCharge, BeginConfirm, ConfirmLoadPayment,
         ConfirmLoadUser, ConfirmLoadCharge, WebhookLoadPayment, WebhookLoadUser, DeleteUser,
         DeleteLoadCharges, DeleteSave, Abort

(* No request, however stale the payment it loaded, reopens a confirmed    *)
(* payment or alters what it was for.                                      *)
THEOREM ConfirmedStaysFinal == Spec => ConfirmedIsFinal
<1>1. SInv /\ [Next]_vars =>
        [\A p \in PaymentIds :
           payments[p].status = "Confirmed" =>
             /\ payments'[p].status = "Confirmed"
             /\ payments'[p].user = payments[p].user
             /\ payments'[p].charge = payments[p].charge
             /\ payments'[p].amount = payments[p].amount]_vars
  BY PaymentStep DEF PaymentsKept
<1>2. QED
  BY <1>1, StructuralInvariant, PTL DEF Spec, ConfirmedIsFinal

(***************************************************************************)
(* Credit has evidence.  The invariant is inductive once the structure is  *)
(* known: a save that credits a charge confirms a payment on that charge   *)
(* in the same transaction, and confirmed payments stay.                   *)
(***************************************************************************)
LEMMA ChargeStep ==
  ASSUME SInv, NEW w \in Workers, ConfirmSave(w), NEW c \in Students, charges'[c] # charges[c]
  PROVE  /\ req[w].id \in PaymentIds
         /\ payments'[req[w].id].status = "Confirmed"
         /\ payments'[req[w].id].charge = c
<1>1. req[w].actor \in Accounts \cup {NoAccount} /\ req[w].stage = "confirmSave"
  BY RequestFields DEF SInv, ConfirmSave
<1>2. /\ req[w].id \in PaymentIds
      /\ payments[req[w].id].status # "absent"
      /\ payments'[req[w].id].status = "Confirmed"
      /\ PaymentsKept
  BY <1>1, Confirms DEF ConfirmSave
<1>3. payments'[req[w].id].charge = req[w].payment.charge
  BY <1>1, <1>2 DEF PaymentsKept, SInv, StageOK, OwnerStages
<1>4. c = req[w].payment.charge
  BY DEF ConfirmSave, SInv, TypeOK
<1>5. QED
  BY <1>2, <1>3, <1>4

(* Only three saves write the table of charges.                            *)
LEMMA ChargeWriters ==
  ASSUME [Next]_vars, charges' # charges
  PROVE  \E w \in Workers : AddCharge(w) \/ ConfirmSave(w) \/ DeleteSave(w)
<1>1. PICK w \in Workers : Start(w) \/ Continue(w)
  BY DEF Next, vars
<1>2. ~Start(w)
  BY DEF Start, CreateUser, CreatePayment, BeginConfirm, WebhookLoadPayment, DeleteUser
<1>3. Continue(w)
  BY <1>1, <1>2
<1>4. QED
  BY <1>3 DEF Continue, AttachReference, ConfirmLoadPayment, ConfirmLoadUser, ConfirmLoadCharge,
              WebhookLoadUser, WebhookSave, DeleteLoadCharges, Abort

LEMMA EvidenceNext == SInv /\ CreditHasEvidence /\ [Next]_vars => CreditHasEvidence'
<1> SUFFICES ASSUME SInv, CreditHasEvidence, [Next]_vars,
                    NEW c \in Students, charges'[c].paid > 0 \/ charges'[c].settled
             PROVE  \E p \in PaymentIds : payments'[p].status = "Confirmed" /\ payments'[p].charge = c
  BY DEF CreditHasEvidence
<1>1. CASE charges[c].paid > 0 \/ charges[c].settled
  <2>1. PICK p \in PaymentIds : payments[p].status = "Confirmed" /\ payments[p].charge = c
    BY <1>1 DEF CreditHasEvidence
  <2>2. QED
    BY <2>1, PaymentStep DEF PaymentsKept
<1>2. CASE ~(charges[c].paid > 0 \/ charges[c].settled)
  <2>1. charges'[c] # charges[c]
    BY <1>2
  <2>2. ASSUME NEW w \in Workers, AddCharge(w) PROVE FALSE
    <3>1. charges'[c] = [status |-> "active", amount |-> req[w].balance, paid |-> 0, settled |-> FALSE]
      BY <2>1, <2>2 DEF AddCharge, SInv, TypeOK
    <3>2. QED
      BY <3>1
  <2>3. ASSUME NEW w \in Workers, DeleteSave(w) PROVE FALSE
    <3> DEFINE gone == SoftDeleted(req[w].charge)
    <3>1. charges[c] \in ChargeRow /\ req[w].charge \in ChargeRow
      BY RequestFields DEF SInv, TypeOK
    <3>2. gone \in ChargeRow /\ gone.paid = req[w].charge.paid /\ gone.settled = req[w].charge.settled
      BY <3>1, SoftDeletedType
    <3>3. charges'[c] = ChargeColumns(charges[c], req[w].charge, gone)
      BY <2>1, <2>3 DEF DeleteSave, SInv, TypeOK
    <3>4. charges'[c].paid = charges[c].paid /\ charges'[c].settled = charges[c].settled
      BY <3>1, <3>2, <3>3, ChargeColumnsType DEF Column
    <3>5. QED
      BY <1>2, <3>4
  <2>4. ASSUME NEW w \in Workers, ConfirmSave(w)
        PROVE  \E p \in PaymentIds : payments'[p].status = "Confirmed" /\ payments'[p].charge = c
    BY <2>1, <2>4, ChargeStep
  <2>5. QED
    BY <2>1, <2>2, <2>3, <2>4, ChargeWriters
<1>3. QED
  BY <1>1, <1>2

(* However many confirmations race, a charge shows a paid amount only if   *)
(* some payment on it is confirmed.                                        *)
THEOREM CreditIsEvidenced == Spec => []CreditHasEvidence
<1>1. Init => CreditHasEvidence
  BY DEF Init, CreditHasEvidence, AbsentCharge
<1>2. QED
  BY <1>1, EvidenceNext, StructuralInvariant, PTL DEF Spec

(***************************************************************************)
(* Payments made outside the gateway are confirmed by staff.  A request    *)
(* that passed EnsureCanConfirmPayment keeps that permission, because what *)
(* it was judged by (the payment's owner and method) never changes; and    *)
(* the provider's reference is only ever attached to a gateway payment.    *)
(***************************************************************************)
CheckedStages == {"confirmUser", "confirmCharge", "confirmSave"}

ManualRows ==
  \A p \in PaymentIds :
    payments[p].method = "Manual" => payments[p].updatedBy \in Staff \cup {NoAccount}

PermissionOK(w) ==
  /\ req[w].stage = "attachReference" => payments[req[w].id].method = "MockGateway"
  /\ req[w].stage \in CheckedStages => CanConfirm(req[w].actor, req[w].payment)

MInv == ManualRows /\ \A w \in Workers : PermissionOK(w)

(* Only four saves write the table of payments.                            *)
LEMMA PaymentWriters ==
  ASSUME [Next]_vars, payments' # payments
  PROVE  \E w \in Workers :
           \/ \E a \in Accounts, p \in PaymentIds, c \in Students \cup {NoCharge},
                amount \in Amounts, method \in {"Manual", "MockGateway"} :
                CreatePayment(w, a, p, c, amount, method)
           \/ AttachReference(w)
           \/ ConfirmSave(w)
           \/ WebhookSave(w)
<1>1. PICK w \in Workers : Start(w) \/ Continue(w)
  BY DEF Next, vars
<1>2. CASE Start(w)
  BY <1>2 DEF Start, CreateUser, BeginConfirm, WebhookLoadPayment, DeleteUser
<1>3. CASE Continue(w)
  BY <1>3 DEF Continue, AddCharge, ConfirmLoadPayment, ConfirmLoadUser, ConfirmLoadCharge,
              WebhookLoadUser, DeleteLoadCharges, DeleteSave, Abort
<1>4. QED
  BY <1>1, <1>2, <1>3

LEMMA ManualRowsNext == SInv /\ MInv /\ [Next]_vars => ManualRows'
<1> SUFFICES ASSUME SInv, MInv, [Next]_vars,
                    NEW q \in PaymentIds, payments'[q].method = "Manual"
             PROVE  payments'[q].updatedBy \in Staff \cup {NoAccount}
  BY DEF ManualRows
<1>0. payments[q] \in PaymentRow
  BY DEF SInv, TypeOK
<1>1. CASE payments' = payments
  BY <1>1 DEF MInv, ManualRows
<1>2. ASSUME NEW w \in Workers, NEW a \in Accounts, NEW p \in PaymentIds,
             NEW c \in Students \cup {NoCharge}, NEW amount \in Amounts,
             NEW method \in {"Manual", "MockGateway"}, CreatePayment(w, a, p, c, amount, method)
      PROVE  payments'[q].updatedBy \in Staff \cup {NoAccount}
  <2>1. CASE q = p
    BY <1>2, <2>1 DEF CreatePayment, AbsentPayment, SInv, TypeOK
  <2>2. CASE q # p
    <3>1. payments'[q] = payments[q]
      BY <1>2, <2>2 DEF CreatePayment, SInv, TypeOK
    <3>2. QED
      BY <3>1 DEF MInv, ManualRows
  <2>3. QED
    BY <2>1, <2>2
<1>3. ASSUME NEW w \in Workers, AttachReference(w)
      PROVE  payments'[q].updatedBy \in Staff \cup {NoAccount}
  <2> DEFINE new == [req[w].payment EXCEPT !.reference = TRUE, !.updatedBy = req[w].actor]
  <2>1. /\ payments[req[w].id].method = "MockGateway"
        /\ payments[req[w].id].status # "absent"
        /\ req[w].id \in PaymentIds
    BY <1>3 DEF MInv, PermissionOK, AttachReference, SInv, StageOK, PaymentStages
  <2>2. payments'[req[w].id].method = "MockGateway"
    BY <1>3, <2>1, PaymentStep DEF PaymentsKept
  <2>3. payments'[q] = payments[q]
    BY <1>3, <2>1, <2>2 DEF AttachReference, SInv, TypeOK
  <2>4. QED
    BY <2>3 DEF MInv, ManualRows
<1>4. ASSUME NEW w \in Workers, NEW by \in Staff \cup Students \cup {NoAccount},
             \/ ConfirmSave(w) /\ by = req[w].actor
             \/ WebhookSave(w) /\ by = NoAccount
      PROVE  payments'[q].updatedBy \in Staff \cup {NoAccount}
  <2> DEFINE p == req[w].id
  <2>1. /\ p \in PaymentIds
        /\ payments[p].status # "absent"
        /\ PaymentsKept
        /\ payments'[p].updatedBy = Column(payments[p].updatedBy, req[w].payment.updatedBy, by)
        /\ \A o \in PaymentIds : o # p => payments'[o] = payments[o]
    BY <1>4, Confirms DEF ConfirmSave, WebhookSave, Accounts
  <2>2. CASE q = p
    <3>1. payments[p].method = "Manual" /\ req[w].payment.method = "Manual"
      BY <1>4, <2>1, <2>2
         DEF PaymentsKept, SInv, StageOK, OwnerStages, ConfirmSave, WebhookSave
    <3>2. by \in Staff \cup {NoAccount}
      BY <1>4, <3>1 DEF MInv, PermissionOK, CheckedStages, CanConfirm, ConfirmSave
    <3>3. payments[p].updatedBy \in Staff \cup {NoAccount}
      BY <2>2, <3>1 DEF MInv, ManualRows
    <3>4. QED
      BY <2>1, <2>2, <3>2, <3>3 DEF Column
  <2>3. CASE q # p
    BY <2>1, <2>3 DEF MInv, ManualRows
  <2>4. QED
    BY <2>2, <2>3
<1>5. ASSUME NEW w \in Workers, ConfirmSave(w)
      PROVE  payments'[q].updatedBy \in Staff \cup {NoAccount}
  <2>1. req[w].actor \in Staff \cup Students \cup {NoAccount}
    BY RequestFields DEF SInv, Accounts
  <2>2. QED
    BY <1>4, <1>5, <2>1
<1>6. ASSUME NEW w \in Workers, WebhookSave(w)
      PROVE  payments'[q].updatedBy \in Staff \cup {NoAccount}
  BY <1>4, <1>6
<1>7. QED
  BY <1>1, <1>2, <1>3, <1>5, <1>6, PaymentWriters

(* A request changes only by a step of the worker that serves it.          *)
LEMMA OwnStep ==
  ASSUME SInv, [Next]_vars, NEW v \in Workers, req'[v] # req[v]
  PROVE  Start(v) \/ Continue(v)
<1>1. PICK w \in Workers : Start(w) \/ Continue(w)
  BY DEF Next, vars
<1>2. \E r : Becomes(w, r)
  <2>1. CASE Start(w)
    BY <2>1 DEF Start, CreateUser, CreatePayment, BeginConfirm, WebhookLoadPayment, DeleteUser
  <2>2. CASE Continue(w)
    BY <2>2 DEF Continue, Ends, AddCharge, AttachReference, ConfirmLoadPayment, ConfirmLoadUser,
                ConfirmLoadCharge, ConfirmSave, WebhookLoadUser, WebhookSave,
                DeleteLoadCharges, DeleteSave, Abort
  <2>3. QED
    BY <1>1, <2>1, <2>2
<1>3. w = v
  BY <1>2 DEF Becomes, SInv, TypeOK
<1>4. QED
  BY <1>1, <1>3

(* Which actions bring a request to the stages the permission is about.    *)
LEMMA EntersStage ==
  ASSUME SInv, NEW v \in Workers, Start(v) \/ Continue(v),
         req'[v].stage \in {"attachReference"} \cup CheckedStages
  PROVE  \/ \E a \in Accounts, p \in PaymentIds, c \in Students \cup {NoCharge},
              amount \in Amounts, method \in {"Manual", "MockGateway"} :
              CreatePayment(v, a, p, c, amount, method)
         \/ ConfirmLoadPayment(v)
         \/ ConfirmLoadUser(v)
         \/ ConfirmLoadCharge(v)
<1>1. ASSUME NEW r, Becomes(v, r) PROVE req'[v] = r
  BY <1>1 DEF Becomes, SInv, TypeOK
<1>2. ~Ends(v)
  BY <1>1 DEF Ends, Idle, CheckedStages
<1>3. ASSUME NEW a \in Admins, NEW s \in Students, NEW rate \in Rates, CreateUser(v, a, s, rate)
      PROVE  FALSE
  <2> DEFINE r == [Idle EXCEPT !.stage = "addCharge", !.actor = a, !.subject = s, !.balance = rate]
  <2>1. req'[v] = r \/ req'[v] = Idle
    BY <1>1, <1>3 DEF CreateUser
  <2>2. r.stage = "addCharge" /\ Idle.stage = "idle"
    BY DEF Idle
  <2> HIDE DEF r
  <2>3. QED
    BY <2>1, <2>2 DEF CheckedStages
<1>4. ASSUME NEW a \in Accounts, NEW p \in PaymentIds, BeginConfirm(v, a, p) PROVE FALSE
  BY <1>1, <1>4 DEF BeginConfirm, Idle, CheckedStages
<1>5. ASSUME NEW p \in PaymentIds, WebhookLoadPayment(v, p) PROVE FALSE
  BY <1>1, <1>5 DEF WebhookLoadPayment, Idle, CheckedStages
<1>6. ASSUME NEW a \in Admins, NEW u \in Accounts, DeleteUser(v, a, u) PROVE FALSE
  BY <1>1, <1>6 DEF DeleteUser, Idle, CheckedStages
<1>7. req[v] \in Request
  BY RequestFields DEF SInv
<1>8. ASSUME WebhookLoadUser(v) PROVE FALSE
  <2> DEFINE r == [req[v] EXCEPT !.stage = "webhookSave", !.balance = users[req[v].subject].balance]
  <2>1. req'[v] = r \/ req'[v] = Idle
    BY <1>1, <1>8 DEF WebhookLoadUser
  <2>2. r.stage = "webhookSave" /\ Idle.stage = "idle"
    BY <1>7 DEF Request, Idle
  <2> HIDE DEF r
  <2>3. QED
    BY <2>1, <2>2 DEF CheckedStages
<1>9. ASSUME DeleteLoadCharges(v) PROVE FALSE
  <2> DEFINE found == IF req[v].subject \in Students THEN Find(charges[req[v].subject])
                                                     ELSE AbsentCharge
             r == [req[v] EXCEPT !.stage = "deleteSave", !.charge = found]
  <2> HIDE DEF found
  <2>1. req'[v] = r
    BY <1>1, <1>9 DEF DeleteLoadCharges, found
  <2>2. r.stage = "deleteSave"
    BY <1>7 DEF Request
  <2> HIDE DEF r
  <2>3. QED
    BY <2>1, <2>2 DEF CheckedStages
<1>10. QED
  BY <1>2, <1>3, <1>4, <1>5, <1>6, <1>8, <1>9
     DEF Start, Continue, AddCharge, AttachReference, ConfirmSave, WebhookSave, DeleteSave, Abort

LEMMA PermissionNext ==
  ASSUME SInv, MInv, [Next]_vars, NEW v \in Workers
  PROVE  PermissionOK(v)'
<1>1. CASE req'[v] = req[v]
  <2>1. CASE req[v].stage = "attachReference"
    BY <1>1, <2>1, PaymentStep
       DEF PermissionOK, MInv, CheckedStages, PaymentsKept, SInv, StageOK, PaymentStages
  <2>2. CASE req[v].stage # "attachReference"
    BY <1>1, <2>2 DEF PermissionOK, MInv, CheckedStages, CanConfirm
  <2>3. QED
    BY <2>1, <2>2
<1>2. CASE req'[v].stage \notin {"attachReference"} \cup CheckedStages
  BY <1>2 DEF PermissionOK
<1>3. CASE req'[v] # req[v] /\ req'[v].stage \in {"attachReference"} \cup CheckedStages
  <2>1. req[v] \in Request
    BY RequestFields DEF SInv
  <2>2. ASSUME NEW a \in Accounts, NEW p \in PaymentIds, NEW c \in Students \cup {NoCharge},
               NEW amount \in Amounts, NEW method \in {"Manual", "MockGateway"},
               CreatePayment(v, a, p, c, amount, method)
        PROVE  PermissionOK(v)'
    <3>1. payments'[p].method = method
      BY <2>2 DEF CreatePayment, AbsentPayment, SInv, TypeOK
    <3>2. /\ req'[v].stage = "attachReference" => method = "MockGateway" /\ req'[v].id = p
          /\ req'[v].stage \notin CheckedStages
      BY <2>2 DEF CreatePayment, Becomes, Idle, SInv, TypeOK, CheckedStages
    <3>3. QED
      BY <3>1, <3>2 DEF PermissionOK
  <2>3. CASE ConfirmLoadPayment(v)
    <3> DEFINE row == payments[req[v].id]
               r == [req[v] EXCEPT !.stage = "confirmUser", !.payment = row, !.subject = row.user]
    <3>1. req'[v] = IF CanConfirm(req[v].actor, row) /\ StillPending(row) THEN r ELSE Idle
      BY <2>3 DEF ConfirmLoadPayment, Becomes, SInv, TypeOK
    <3>2. CanConfirm(req[v].actor, row) /\ req'[v] = r
      BY <1>3, <3>1 DEF Idle, CheckedStages
    <3>3. r.stage = "confirmUser" /\ r.actor = req[v].actor /\ r.payment = row
      BY <2>1 DEF Request
    <3> HIDE DEF r
    <3>4. QED
      BY <3>2, <3>3 DEF PermissionOK, CanConfirm
  <2>4. CASE ConfirmLoadUser(v) \/ ConfirmLoadCharge(v)
    <3>1. CanConfirm(req[v].actor, req[v].payment)
      BY <2>4 DEF ConfirmLoadUser, ConfirmLoadCharge, MInv, PermissionOK, CheckedStages
    <3> DEFINE r1(b) == [req[v] EXCEPT !.stage = "confirmCharge", !.balance = b]
               r2(c) == [req[v] EXCEPT !.stage = "confirmSave", !.charge = c]
    <3>2. (\E b : req'[v] = r1(b)) \/ (\E c : req'[v] = r2(c)) \/ req'[v] = Idle
      BY <2>4 DEF ConfirmLoadUser, ConfirmLoadCharge, Becomes, SInv, TypeOK
    <3>3. /\ \A b : /\ r1(b).stage = "confirmCharge"
                   /\ r1(b).actor = req[v].actor
                   /\ r1(b).payment = req[v].payment
          /\ \A c : /\ r2(c).stage = "confirmSave"
                   /\ r2(c).actor = req[v].actor
                   /\ r2(c).payment = req[v].payment
          /\ Idle.stage = "idle"
      BY <2>1 DEF Request, Idle
    <3> HIDE DEF r1, r2
    <3>4. /\ req'[v].stage # "attachReference"
          /\ req'[v].stage \in CheckedStages => /\ req'[v].actor = req[v].actor
                                                /\ req'[v].payment = req[v].payment
      BY <3>2, <3>3 DEF CheckedStages
    <3>5. QED
      BY <3>1, <3>4 DEF PermissionOK, CanConfirm
  <2>5. QED
    BY <1>3, <2>2, <2>3, <2>4, OwnStep, EntersStage
<1>4. QED
  BY <1>1, <1>2, <1>3

LEMMA PermissionInvariant == Spec => []MInv
<1>1. Init => MInv
  BY DEF Init, MInv, ManualRows, PermissionOK, CheckedStages, Idle, AbsentPayment
<1>2. SInv /\ MInv /\ [Next]_vars => MInv'
  BY ManualRowsNext, PermissionNext DEF MInv
<1>3. QED
  BY <1>1, <1>2, StructuralInvariant, PTL DEF Spec

(* A payment made outside the gateway is never confirmed by a student,     *)
(* whoever else is confirming it at the time.                              *)
THEOREM ManualByStaff == Spec => []ManualConfirmedByStaff
<1>1. MInv => ManualConfirmedByStaff
  BY DEF MInv, ManualRows, ManualConfirmedByStaff
<1>2. QED
  BY <1>1, PermissionInvariant, PTL

(***************************************************************************)
(* What a request knows after each of its queries.  It has ended, or it    *)
(* holds what the query answered beside what it held.                      *)
(***************************************************************************)
Ended(w) == req'[w] = Idle

LEMMA EndedIsIdle ==
  ASSUME NEW w, Ended(w)
  PROVE  req'[w].stage = "idle"
BY DEF Ended, Idle

LEMMA EndsEnded ==
  ASSUME TypeOK, NEW w \in Workers, Ends(w)
  PROVE  Ended(w) /\ req'[w].stage = "idle"
BY DEF TypeOK, Ends, Becomes, Ended, Idle

LEMMA UserCreated ==
  ASSUME TypeOK, NEW w \in Workers, NEW a \in Admins, NEW s \in Students, NEW rate \in Rates,
         CreateUser(w, a, s, rate)
  PROVE  Ended(w) \/ /\ req'[w].stage = "addCharge" /\ req'[w].subject = s
                     /\ req'[w].balance = rate /\ rate > 0
<1> DEFINE r == [Idle EXCEPT !.stage = "addCharge", !.actor = a, !.subject = s, !.balance = rate]
<1>1. (rate > 0 /\ req'[w] = r) \/ Ended(w)
  BY DEF CreateUser, Becomes, TypeOK, Ended
<1>2. r.stage = "addCharge" /\ r.subject = s /\ r.balance = rate
  BY DEF Idle
<1> HIDE DEF r
<1>3. QED
  BY <1>1, <1>2

LEMMA PaymentCreated ==
  ASSUME TypeOK, NEW w \in Workers, NEW a \in Accounts, NEW p \in PaymentIds,
         NEW c \in Students \cup {NoCharge}, NEW amount \in Amounts,
         NEW method \in {"Manual", "MockGateway"},
         CreatePayment(w, a, p, c, amount, method)
  PROVE  /\ payments'[p] \in PaymentRow
         /\ payments'[p].status = "Pending" /\ payments'[p].user = a /\ payments'[p].charge = c
         /\ payments'[p].amount = amount /\ payments'[p].method = method
         /\ payments'[p].updatedBy = NoAccount
         /\ \A q \in PaymentIds : q # p => payments'[q] = payments[q]
         /\ Ended(w) \/ /\ req'[w].stage = "attachReference" /\ req'[w].actor = a
                        /\ req'[w].id = p /\ req'[w].payment = payments'[p]
<1> DEFINE row == [AbsentPayment EXCEPT !.status = "Pending", !.user = a, !.charge = c,
                                        !.amount = amount, !.method = method]
           r == [Idle EXCEPT !.stage = "attachReference", !.actor = a, !.id = p,
                             !.payment = row]
<1>1. /\ row \in PaymentRow /\ row.status = "Pending" /\ row.user = a /\ row.charge = c
      /\ row.amount = amount /\ row.method = method /\ row.updatedBy = NoAccount
  BY AmountsAreNaturals DEF PaymentRow, AbsentPayment
<1>2. /\ payments'[p] = row
      /\ \A q \in PaymentIds : q # p => payments'[q] = payments[q]
  BY DEF CreatePayment, TypeOK
<1>3. req'[w] = r \/ Ended(w)
  BY DEF CreatePayment, Becomes, TypeOK, Ended
<1> HIDE DEF row
<1>4. r.stage = "attachReference" /\ r.actor = a /\ r.id = p /\ r.payment = row
  BY DEF Idle
<1> HIDE DEF r
<1>5. QED
  BY <1>1, <1>2, <1>3, <1>4

LEMMA ConfirmBegun ==
  ASSUME TypeOK, NEW w \in Workers, NEW a \in Accounts, NEW p \in PaymentIds,
         BeginConfirm(w, a, p)
  PROVE  /\ req'[w].stage = "confirm" /\ req'[w].actor = a /\ req'[w].id = p
         /\ req'[w].authBalance = users[a].balance
BY DEF BeginConfirm, Becomes, TypeOK, Idle

LEMMA PaymentLoaded ==
  ASSUME TypeOK, NEW w \in Workers, ConfirmLoadPayment(w)
  PROVE  Ended(w) \/ /\ req'[w].stage = "confirmUser" /\ req'[w].actor = req[w].actor
                     /\ req'[w].id = req[w].id /\ req'[w].payment = payments[req[w].id]
                     /\ req'[w].subject = payments[req[w].id].user
                     /\ req'[w].authBalance = req[w].authBalance
                     /\ StillPending(payments[req[w].id])
<1> DEFINE row == payments[req[w].id]
           r == [req[w] EXCEPT !.stage = "confirmUser", !.payment = row, !.subject = row.user]
<1>1. (req'[w] = r /\ StillPending(row)) \/ Ended(w)
  BY DEF ConfirmLoadPayment, Becomes, TypeOK, Ended
<1>2. /\ r.stage = "confirmUser" /\ r.actor = req[w].actor /\ r.id = req[w].id
      /\ r.payment = row /\ r.subject = row.user /\ r.authBalance = req[w].authBalance
  BY RequestFields DEF Request
<1> HIDE DEF r
<1>3. QED
  BY <1>1, <1>2

LEMMA UserLoaded ==
  ASSUME TypeOK, NEW w \in Workers, ConfirmLoadUser(w)
  PROVE  Ended(w) \/ /\ req'[w].stage = "confirmCharge" /\ req'[w].actor = req[w].actor
                     /\ req'[w].id = req[w].id /\ req'[w].payment = req[w].payment
                     /\ req'[w].subject = req[w].subject
                     /\ users[req[w].subject].status = "active"
                     /\ req'[w].balance = IF req[w].subject = req[w].actor
                                          THEN req[w].authBalance
                                          ELSE users[req[w].subject].balance
<1> DEFINE balance == IF req[w].subject = req[w].actor THEN req[w].authBalance
                                                       ELSE users[req[w].subject].balance
           r == [req[w] EXCEPT !.stage = "confirmCharge", !.balance = balance]
<1>1. (req'[w] = r /\ users[req[w].subject].status = "active") \/ Ended(w)
  BY DEF ConfirmLoadUser, Becomes, TypeOK, Ended
<1> HIDE DEF balance
<1>2. /\ r.stage = "confirmCharge" /\ r.actor = req[w].actor /\ r.id = req[w].id
      /\ r.payment = req[w].payment /\ r.subject = req[w].subject /\ r.balance = balance
  BY RequestFields DEF Request
<1> HIDE DEF r
<1>3. QED
  BY <1>1, <1>2 DEF balance

LEMMA ChargeLoaded ==
  ASSUME TypeOK, NEW w \in Workers, ConfirmLoadCharge(w)
  PROVE  /\ req'[w].stage = "confirmSave" /\ req'[w].actor = req[w].actor
         /\ req'[w].id = req[w].id /\ req'[w].payment = req[w].payment
         /\ req'[w].subject = req[w].subject /\ req'[w].balance = req[w].balance
         /\ req'[w].charge = IF req[w].payment.charge \in Students
                             THEN Find(charges[req[w].payment.charge]) ELSE AbsentCharge
<1> DEFINE found == IF req[w].payment.charge \in Students
                    THEN Find(charges[req[w].payment.charge]) ELSE AbsentCharge
           r == [req[w] EXCEPT !.stage = "confirmSave", !.charge = found]
<1>1. req'[w] = r
  BY DEF ConfirmLoadCharge, Becomes, TypeOK
<1> HIDE DEF found
<1>2. /\ r.stage = "confirmSave" /\ r.actor = req[w].actor /\ r.id = req[w].id
      /\ r.payment = req[w].payment /\ r.subject = req[w].subject
      /\ r.balance = req[w].balance /\ r.charge = found
  BY RequestFields DEF Request
<1> HIDE DEF r
<1>3. QED
  BY <1>1, <1>2 DEF found

LEMMA WebhookBegun ==
  ASSUME TypeOK, NEW w \in Workers, NEW p \in PaymentIds, WebhookLoadPayment(w, p)
  PROVE  /\ req'[w].stage = "webhookUser" /\ req'[w].id = p
         /\ req'[w].payment = payments[p] /\ req'[w].subject = payments[p].user
<1> DEFINE r == [Idle EXCEPT !.stage = "webhookUser", !.id = p,
                             !.payment = payments[p], !.subject = payments[p].user]
<1>1. req'[w] = r
  BY DEF WebhookLoadPayment, Becomes, TypeOK
<1>2. r.stage = "webhookUser" /\ r.id = p /\ r.payment = payments[p] /\ r.subject = payments[p].user
  BY DEF Idle
<1> HIDE DEF r
<1>3. QED
  BY <1>1, <1>2

LEMMA WebhookUserLoaded ==
  ASSUME TypeOK, NEW w \in Workers, WebhookLoadUser(w)
  PROVE  Ended(w) \/ /\ req'[w].stage = "webhookSave" /\ req'[w].id = req[w].id
                     /\ req'[w].payment = req[w].payment /\ req'[w].subject = req[w].subject
                     /\ users[req[w].subject].status = "active"
                     /\ req'[w].balance = users[req[w].subject].balance
<1> DEFINE r == [req[w] EXCEPT !.stage = "webhookSave", !.balance = users[req[w].subject].balance]
<1>1. (req'[w] = r /\ users[req[w].subject].status = "active") \/ Ended(w)
  BY DEF WebhookLoadUser, Becomes, TypeOK, Ended
<1>2. /\ r.stage = "webhookSave" /\ r.id = req[w].id /\ r.payment = req[w].payment
      /\ r.subject = req[w].subject /\ r.balance = users[req[w].subject].balance
  BY RequestFields DEF Request
<1> HIDE DEF r
<1>3. QED
  BY <1>1, <1>2

LEMMA DeletionBegun ==
  ASSUME TypeOK, NEW w \in Workers, NEW a \in Admins, NEW u \in Accounts, DeleteUser(w, a, u)
  PROVE  /\ req'[w].stage = "deleteCharges" /\ req'[w].subject = u
         /\ req'[w].balance = users[u].balance /\ users[u].status = "active"
BY DEF DeleteUser, Becomes, TypeOK, Idle

LEMMA ChargesLoaded ==
  ASSUME TypeOK, NEW w \in Workers, DeleteLoadCharges(w)
  PROVE  /\ req'[w].stage = "deleteSave" /\ req'[w].subject = req[w].subject
         /\ req'[w].balance = req[w].balance
         /\ req'[w].charge = IF req[w].subject \in Students
                             THEN Find(charges[req[w].subject]) ELSE AbsentCharge
<1> DEFINE found == IF req[w].subject \in Students THEN Find(charges[req[w].subject])
                                                   ELSE AbsentCharge
           r == [req[w] EXCEPT !.stage = "deleteSave", !.charge = found]
<1>1. req'[w] = r
  BY DEF DeleteLoadCharges, Becomes, TypeOK
<1> HIDE DEF found
<1>2. /\ r.stage = "deleteSave" /\ r.subject = req[w].subject
      /\ r.balance = req[w].balance /\ r.charge = found
  BY RequestFields DEF Request
<1> HIDE DEF r
<1>3. QED
  BY <1>1, <1>2 DEF found

(***************************************************************************)
(* The life of a charge.  It is created once, by the request that created  *)
(* its student, before any payment refers to it; once deleted it stays so. *)
(***************************************************************************)
Adds(w) == req[w].stage = "addCharge"

HasCharge ==
  \A p \in PaymentIds :
    payments[p].status # "absent" /\ payments[p].charge \in Students =>
      charges[payments[p].charge].status # "absent"

NoUserNoCharge == \A s \in Students : users[s].status = "absent" => charges[s].status = "absent"

FirstCharge(w) ==
  Adds(w) => /\ charges[req[w].subject].status = "absent"
             /\ users[req[w].subject].status # "absent"

OneAdds ==
  \A v, w \in Workers : Adds(v) /\ Adds(w) /\ req[v].subject = req[w].subject => v = w

(* The charge a request loaded was there: where a confirmation found none  *)
(* active, the charge of its payment had been deleted.                     *)
FoundCharge(w) ==
  /\ req[w].stage = "confirmSave" /\ req[w].payment.charge \in Students =>
       \/ req[w].charge.status = "active"
       \/ charges[req[w].payment.charge].status = "deleted"
  /\ req[w].stage = "deleteSave" /\ req[w].charge.status = "active" =>
       req[w].subject \in Students /\ charges[req[w].subject].status # "absent"

LifeInv ==
  /\ HasCharge /\ NoUserNoCharge /\ OneAdds
  /\ \A w \in Workers : FirstCharge(w) /\ FoundCharge(w)

ChargesKept ==
  \A c \in Students :
    /\ charges[c].status # "absent" => charges'[c].status # "absent"
    /\ charges[c].status = "deleted" => charges'[c].status = "deleted"

(* What the three saves that write a charge do to it.                      *)
LEMMA ChargeAdded ==
  ASSUME SInv, NEW w \in Workers, AddCharge(w)
  PROVE  /\ req[w].subject \in Students
         /\ charges'[req[w].subject].status = "active"
         /\ charges'[req[w].subject].amount = req[w].balance
         /\ charges'[req[w].subject].paid = 0 /\ charges'[req[w].subject].settled = FALSE
         /\ \A c \in Students : c # req[w].subject => charges'[c] = charges[c]
         /\ Ended(w) /\ UNCHANGED <<users, payments>>
<1> DEFINE row == [status |-> "active", amount |-> req[w].balance, paid |-> 0, settled |-> FALSE]
<1>1. /\ row.status = "active" /\ row.amount = req[w].balance /\ row.paid = 0
      /\ row.settled = FALSE
  OBVIOUS
<1>2. charges' = [charges EXCEPT ![req[w].subject] = row] /\ UNCHANGED <<users, payments>>
  BY DEF AddCharge
<1> HIDE DEF row
<1>3. req[w].subject \in Students
  BY DEF AddCharge, SInv, StageOK
<1>4. /\ charges'[req[w].subject] = row
      /\ \A c \in Students : c # req[w].subject => charges'[c] = charges[c]
  BY <1>2, <1>3 DEF SInv, TypeOK
<1>5. Ended(w)
  BY EndsEnded DEF AddCharge, SInv
<1>6. QED
  BY <1>1, <1>2, <1>3, <1>4, <1>5

LEMMA ChargePaid ==
  ASSUME SInv, NEW w \in Workers, ConfirmSave(w), NEW c \in Students
  PROVE  /\ charges'[c].status = charges[c].status
         /\ charges'[c].amount = charges[c].amount
         /\ IF req[w].charge.status = "active" /\ c = req[w].payment.charge
            THEN LET paid == req[w].charge.paid + req[w].payment.amount
                 IN  /\ charges'[c].paid = Column(charges[c].paid, req[w].charge.paid, paid)
                     /\ charges'[c].settled =
                          Column(charges[c].settled, req[w].charge.settled,
                                 Covers(paid, req[w].charge.amount))
            ELSE charges'[c] = charges[c]
<1> DEFINE new == ApplyPayment(req[w].charge, req[w].payment.amount)
<1>1. charges[c] \in ChargeRow /\ req[w].charge \in ChargeRow /\ req[w].payment.amount \in Nat
  BY RequestFields DEF SInv, TypeOK
<1>2. /\ new \in ChargeRow /\ new.status = req[w].charge.status
      /\ new.paid = req[w].charge.paid + req[w].payment.amount
      /\ new.settled = Covers(req[w].charge.paid + req[w].payment.amount, req[w].charge.amount)
  BY <1>1, ApplyPaymentType
<1>3. charges'[c] = IF req[w].charge.status = "active" /\ c = req[w].payment.charge
                    THEN ChargeColumns(charges[c], req[w].charge, new) ELSE charges[c]
  BY DEF ConfirmSave, SInv, TypeOK
<1> HIDE DEF new
<1>4. CASE req[w].charge.status = "active" /\ c = req[w].payment.charge
  <2>1. charges'[c] = ChargeColumns(charges[c], req[w].charge, new)
    BY <1>3, <1>4
  <2>2. /\ charges'[c].amount = charges[c].amount
        /\ charges'[c].status = Column(charges[c].status, req[w].charge.status, new.status)
        /\ charges'[c].paid = Column(charges[c].paid, req[w].charge.paid, new.paid)
        /\ charges'[c].settled = Column(charges[c].settled, req[w].charge.settled, new.settled)
    BY <1>1, <1>2, <2>1, ChargeColumnsType
  <2>3. charges'[c].status = charges[c].status
    BY <1>2, <2>2 DEF Column
  <2>4. charges'[c].settled =
          Column(charges[c].settled, req[w].charge.settled,
                 Covers(req[w].charge.paid + req[w].payment.amount, req[w].charge.amount))
    BY <1>2, <2>2, Zenon
  <2>5. QED
    BY <1>2, <1>4, <2>2, <2>3, <2>4
<1>5. CASE ~(req[w].charge.status = "active" /\ c = req[w].payment.charge)
  <2>1. charges'[c] = charges[c]
    BY <1>3, <1>5
  <2>2. QED
    BY <1>5, <2>1
<1>6. QED
  BY <1>4, <1>5

LEMMA ChargeDeleted ==
  ASSUME SInv, NEW w \in Workers, DeleteSave(w), NEW c \in Students
  PROVE  /\ charges'[c].amount = charges[c].amount /\ charges'[c].paid = charges[c].paid
         /\ charges'[c].settled = charges[c].settled
         /\ IF req[w].charge.status = "active" /\ c = req[w].subject
            THEN charges'[c].status = "deleted"
            ELSE charges'[c] = charges[c]
<1> DEFINE gone == SoftDeleted(req[w].charge)
<1>1. charges[c] \in ChargeRow /\ req[w].charge \in ChargeRow
  BY RequestFields DEF SInv, TypeOK
<1>2. /\ gone \in ChargeRow /\ gone.status = "deleted"
      /\ gone.paid = req[w].charge.paid /\ gone.settled = req[w].charge.settled
  BY <1>1, SoftDeletedType
<1>3. charges'[c] = IF req[w].charge.status = "active" /\ c = req[w].subject
                    THEN ChargeColumns(charges[c], req[w].charge, gone) ELSE charges[c]
  BY DEF DeleteSave, SInv, TypeOK
<1> HIDE DEF gone
<1>4. CASE req[w].charge.status = "active" /\ c = req[w].subject
  <2>1. charges'[c] = ChargeColumns(charges[c], req[w].charge, gone)
    BY <1>3, <1>4
  <2>2. /\ charges'[c].amount = charges[c].amount
        /\ charges'[c].status = Column(charges[c].status, req[w].charge.status, gone.status)
        /\ charges'[c].paid = Column(charges[c].paid, req[w].charge.paid, gone.paid)
        /\ charges'[c].settled = Column(charges[c].settled, req[w].charge.settled, gone.settled)
    BY <1>1, <1>2, <2>1, ChargeColumnsType
  <2>3. QED
    BY <1>2, <1>4, <2>2 DEF Column
<1>5. QED
  BY <1>3, <1>4

(* What the deletion of an account saves of it.                            *)
LEMMA AccountDeleted ==
  ASSUME SInv, NEW w \in Workers, DeleteSave(w)
  PROVE  /\ req[w].subject \in Accounts /\ users'[req[w].subject].status = "deleted"
         /\ users'[req[w].subject].balance = SaveBalance(req[w].subject, req[w].balance, 0)
         /\ \A u \in Accounts : u # req[w].subject => users'[u] = users[u]
         /\ Ended(w) /\ UNCHANGED payments
<1>1. req[w].subject \in Accounts
  BY DEF DeleteSave, SInv, StageOK, DeleteStages
<1>2. QED
  BY <1>1, EndsEnded DEF DeleteSave, SInv, TypeOK

LEMMA OthersStay ==
  ASSUME SInv, NEW w \in Workers, Start(w) \/ Continue(w)
  PROVE  \A v \in Workers : v # w => req'[v] = req[v]
<1>1. \E r : Becomes(w, r)
  BY DEF Start, CreateUser, CreatePayment, BeginConfirm, WebhookLoadPayment, DeleteUser,
         Continue, Ends, AddCharge, AttachReference, ConfirmLoadPayment, ConfirmLoadUser,
         ConfirmLoadCharge, ConfirmSave, WebhookLoadUser, WebhookSave, DeleteLoadCharges,
         DeleteSave, Abort
<1>2. QED
  BY <1>1 DEF Becomes, SInv, TypeOK

(* Every step but the three that are about a charge or create a user keeps *)
(* the status of users and charges, and does not bring a request to a      *)
(* stage the invariant speaks of.                                          *)
Calm(w) ==
  /\ \A c \in Students : charges'[c].status = charges[c].status
  /\ \A u \in Accounts : users'[u].status = users[u].status
  /\ req'[w].stage \notin {"addCharge", "confirmSave", "deleteSave"}

LEMMA CalmSteps ==
  ASSUME SInv, NEW w \in Workers, Start(w) \/ Continue(w)
  PROVE  \/ Calm(w)
         \/ \E a \in Admins, s \in Students, rate \in Rates : CreateUser(w, a, s, rate)
         \/ AddCharge(w) \/ DeleteSave(w) \/ ConfirmLoadCharge(w) \/ DeleteLoadCharges(w)
<1>0. TypeOK
  BY DEF SInv
<1> USE <1>0 DEF Calm
<1>1. ASSUME Ends(w), UNCHANGED <<users, charges>> PROVE Calm(w)
  BY <1>1, EndsEnded
<1>2. ASSUME NEW a \in Accounts, NEW p \in PaymentIds, NEW c \in Students \cup {NoCharge},
             NEW amount \in Amounts, NEW method \in {"Manual", "MockGateway"},
             CreatePayment(w, a, p, c, amount, method)
      PROVE  Calm(w)
  <2>1. req'[w].stage \in {"idle", "attachReference"}
    BY <1>2, PaymentCreated, EndedIsIdle
  <2>2. QED
    BY <1>2, <2>1 DEF CreatePayment
<1>3. ASSUME NEW a \in Accounts, NEW p \in PaymentIds, BeginConfirm(w, a, p) PROVE Calm(w)
  BY <1>3, ConfirmBegun DEF BeginConfirm
<1>4. ASSUME NEW p \in PaymentIds, WebhookLoadPayment(w, p) PROVE Calm(w)
  BY <1>4, WebhookBegun DEF WebhookLoadPayment
<1>5. ASSUME NEW a \in Admins, NEW u \in Accounts, DeleteUser(w, a, u) PROVE Calm(w)
  BY <1>5, DeletionBegun DEF DeleteUser
<1>6. CASE ConfirmLoadPayment(w)
  <2>1. req'[w].stage \in {"idle", "confirmUser"}
    BY <1>6, PaymentLoaded, EndedIsIdle
  <2>2. UNCHANGED <<users, charges>>
    BY <1>6 DEF ConfirmLoadPayment
  <2>3. QED
    BY <2>1, <2>2
<1>7. CASE ConfirmLoadUser(w)
  <2>1. req'[w].stage \in {"idle", "confirmCharge"}
    BY <1>7, UserLoaded, EndedIsIdle
  <2>2. UNCHANGED <<users, charges>>
    BY <1>7 DEF ConfirmLoadUser
  <2>3. QED
    BY <2>1, <2>2
<1>8. CASE WebhookLoadUser(w)
  <2>1. req'[w].stage \in {"idle", "webhookSave"}
    BY <1>8, WebhookUserLoaded, EndedIsIdle
  <2>2. UNCHANGED <<users, charges>>
    BY <1>8 DEF WebhookLoadUser
  <2>3. QED
    BY <2>1, <2>2
<1>9. CASE ConfirmSave(w)
  <2>1. req[w].actor \in Accounts \cup {NoAccount}
    BY RequestFields
  <2>2. \A u \in Accounts : users'[u].status = users[u].status
    BY <1>9, <2>1, Confirms DEF ConfirmSave
  <2>3. \A c \in Students : charges'[c].status = charges[c].status
    BY <1>9, ChargePaid
  <2>4. QED
    BY <1>9, <2>2, <2>3, EndsEnded DEF ConfirmSave
<1>10. CASE WebhookSave(w)
  <2>1. \A u \in Accounts : users'[u].status = users[u].status
    BY <1>10, Confirms DEF WebhookSave
  <2>2. QED
    BY <1>10, <2>1, EndsEnded DEF WebhookSave
<1>11. CASE Start(w)
  BY <1>2, <1>3, <1>4, <1>5, <1>11 DEF Start
<1>12. CASE Continue(w)
  BY <1>1, <1>6, <1>7, <1>8, <1>9, <1>10, <1>12 DEF Continue, AttachReference, Abort
<1>13. QED
  BY <1>11, <1>12

(* Payments keep their charge, and a new one refers to a charge that is.   *)
LEMMA HasChargeNext ==
  ASSUME SInv, HasCharge, [Next]_vars, ChargesKept
  PROVE  HasCharge'
<1> SUFFICES ASSUME NEW p \in PaymentIds, payments'[p].status # "absent",
                    payments'[p].charge \in Students
             PROVE  charges'[payments'[p].charge].status # "absent"
  BY DEF HasCharge
<1>1. CASE payments[p].status # "absent"
  BY <1>1, PaymentStep DEF PaymentsKept, HasCharge, ChargesKept
<1>2. CASE payments[p].status = "absent"
  <2>1. ASSUME NEW w \in Workers, NEW a \in Accounts, NEW q \in PaymentIds,
               NEW c \in Students \cup {NoCharge}, NEW amount \in Amounts,
               NEW method \in {"Manual", "MockGateway"},
               CreatePayment(w, a, q, c, amount, method)
        PROVE  charges'[payments'[p].charge].status # "absent"
    <3>1. p = q /\ payments'[p].charge = c
      BY <1>2, <2>1, PaymentCreated DEF SInv
    <3>2. QED
      BY <2>1, <3>1 DEF CreatePayment, ChargesKept
  <2>2. ASSUME NEW w \in Workers, AttachReference(w) PROVE FALSE
    <3>1. req[w].id \in PaymentIds /\ payments[req[w].id].status # "absent"
      BY <2>2 DEF AttachReference, SInv, StageOK, PaymentStages
    <3>2. payments'[p] = payments[p]
      BY <1>2, <2>2, <3>1 DEF AttachReference, SInv, TypeOK
    <3>3. QED
      BY <1>2, <3>2
  <2>3. ASSUME NEW w \in Workers, ConfirmSave(w) \/ WebhookSave(w) PROVE FALSE
    <3>1. req[w].actor \in Accounts \cup {NoAccount}
      BY RequestFields DEF SInv
    <3>2. payments'[p] = payments[p]
      BY <1>2, <2>3, <3>1, Confirms DEF ConfirmSave, WebhookSave
    <3>3. QED
      BY <1>2, <3>2
  <2>4. QED
    BY <1>2, <2>1, <2>2, <2>3, PaymentWriters
<1>3. QED
  BY <1>1, <1>2

LEMMA LifeStep ==
  ASSUME SInv, LifeInv, [Next]_vars, NEW w \in Workers,
         \A v \in Workers : v # w => req'[v] = req[v],
         ChargesKept, NoUserNoCharge', FoundCharge(w)',
         Adds(w)' => FirstCharge(w)' /\ users[req'[w].subject].status = "absent",
         \A v \in Workers : v # w /\ Adds(v) =>
           /\ charges'[req[v].subject].status = "absent"
           /\ users'[req[v].subject].status # "absent"
  PROVE  LifeInv'
<1>1. HasCharge'
  BY HasChargeNext DEF LifeInv
<1>2. OneAdds'
  BY DEF LifeInv, OneAdds, FirstCharge, Adds
<1>3. ASSUME NEW v \in Workers PROVE FirstCharge(v)' /\ FoundCharge(v)'
  <2>1. CASE v = w
    BY <2>1 DEF FirstCharge
  <2>2. CASE v # w
    <3>1. FirstCharge(v)'
      BY <2>2 DEF FirstCharge, Adds
    <3>2. FoundCharge(v)'
      BY <2>2 DEF LifeInv, FoundCharge, ChargesKept
    <3>3. QED
      BY <3>1, <3>2
  <2>3. QED
    BY <2>1, <2>2
<1>4. QED
  BY <1>1, <1>2, <1>3 DEF LifeInv

LEMMA LifeInit == Init => LifeInv
BY DEF Init, LifeInv, HasCharge, NoUserNoCharge, OneAdds, FirstCharge, FoundCharge, Adds,
       AbsentPayment, AbsentCharge, Idle

LEMMA LifeNext == SInv /\ LifeInv /\ [Next]_vars => LifeInv'
<1> SUFFICES ASSUME SInv, LifeInv, [Next]_vars PROVE LifeInv'
  OBVIOUS
<1>0. TypeOK /\ (\A s \in Students : s \in Accounts)
      /\ (\A w \in Workers : Adds(w) => req[w].subject \in Students)
  BY DEF SInv, Accounts, StageOK, Adds
<1>1. CASE UNCHANGED vars
  BY <1>1 DEF vars, LifeInv, HasCharge, NoUserNoCharge, OneAdds, FirstCharge, FoundCharge, Adds
<1>2. ASSUME NEW w \in Workers, Calm(w), Start(w) \/ Continue(w) PROVE LifeInv'
  <2>1. ChargesKept /\ NoUserNoCharge'
    BY <1>0, <1>2 DEF Calm, ChargesKept, LifeInv, NoUserNoCharge
  <2>2. FoundCharge(w)' /\ ~Adds(w)'
    BY <1>2 DEF Calm, FoundCharge, Adds
  <2>3. \A v \in Workers : Adds(v) =>
          /\ charges'[req[v].subject].status = "absent"
          /\ users'[req[v].subject].status # "absent"
    BY <1>0, <1>2 DEF Calm, LifeInv, FirstCharge
  <2>4. QED
    BY <1>2, <2>1, <2>2, <2>3, OthersStay, LifeStep
<1>3. ASSUME NEW w \in Workers, NEW a \in Admins, NEW s \in Students, NEW rate \in Rates,
             CreateUser(w, a, s, rate)
      PROVE  LifeInv'
  <2>1. /\ users[s].status = "absent" /\ charges' = charges
        /\ users'[s].status = "active" /\ \A u \in Accounts : u # s => users'[u] = users[u]
    BY <1>0, <1>3 DEF CreateUser, SInv, TypeOK, UserRow
  <2>2. ChargesKept /\ NoUserNoCharge'
    BY <1>0, <2>1 DEF ChargesKept, LifeInv, NoUserNoCharge
  <2>3. \/ req'[w].stage = "idle"
        \/ req'[w].stage = "addCharge" /\ req'[w].subject = s
    BY <1>0, <1>3, UserCreated, EndedIsIdle
  <2>4. charges[s].status = "absent"
    BY <2>1 DEF LifeInv, NoUserNoCharge
  <2>5. FoundCharge(w)' /\ (Adds(w)' => FirstCharge(w)' /\ users[req'[w].subject].status = "absent")
    BY <2>1, <2>3, <2>4 DEF FoundCharge, FirstCharge, Adds
  <2>6. \A v \in Workers : Adds(v) =>
          /\ charges'[req[v].subject].status = "absent"
          /\ users'[req[v].subject].status # "absent"
    BY <1>0, <2>1 DEF LifeInv, FirstCharge
  <2>7. Start(w)
    BY <1>3 DEF Start
  <2>8. QED
    BY <2>2, <2>5, <2>6, <2>7, OthersStay, LifeStep
<1>4. ASSUME NEW w \in Workers, AddCharge(w) PROVE LifeInv'
  <2> PICK s \in Students : s = req[w].subject
    BY <1>4, ChargeAdded
  <2>1. /\ charges'[s].status = "active" /\ \A c \in Students : c # s => charges'[c] = charges[c]
        /\ users' = users
    BY <1>4, ChargeAdded
  <2>8. req'[w].stage = "idle"
    BY <1>4, ChargeAdded, EndedIsIdle
  <2>2. Adds(w) /\ charges[s].status = "absent" /\ users[s].status # "absent"
    BY <1>4 DEF AddCharge, Adds, LifeInv, FirstCharge
  <2>3. ChargesKept /\ NoUserNoCharge'
    BY <2>1, <2>2 DEF ChargesKept, LifeInv, NoUserNoCharge
  <2>4. FoundCharge(w)' /\ ~Adds(w)'
    BY <2>8 DEF FoundCharge, Adds
  <2>5. \A v \in Workers : v # w /\ Adds(v) =>
          /\ charges'[req[v].subject].status = "absent"
          /\ users'[req[v].subject].status # "absent"
    BY <1>0, <2>1, <2>2 DEF LifeInv, FirstCharge, OneAdds
  <2>6. Continue(w)
    BY <1>4 DEF Continue
  <2>7. QED
    BY <2>3, <2>4, <2>5, <2>6, OthersStay, LifeStep
<1>5. ASSUME NEW w \in Workers, DeleteSave(w) PROVE LifeInv'
  <2> PICK u \in Accounts : u = req[w].subject
    BY <1>5, AccountDeleted
  <2>1. /\ users'[u].status = "deleted" /\ \A o \in Accounts : o # u => users'[o] = users[o]
        /\ req'[w].stage = "idle"
    BY <1>5, AccountDeleted, EndedIsIdle
  <2>2. \A c \in Students :
          \/ charges'[c] = charges[c]
          \/ /\ charges'[c].status = "deleted" /\ c = u
             /\ charges[c].status # "absent"
    BY <1>5, ChargeDeleted DEF LifeInv, FoundCharge, DeleteSave
  <2>3. ChargesKept /\ NoUserNoCharge'
    BY <1>0, <2>1, <2>2 DEF ChargesKept, LifeInv, NoUserNoCharge
  <2>4. FoundCharge(w)' /\ ~Adds(w)'
    BY <2>1 DEF FoundCharge, Adds
  <2>5. \A v \in Workers : Adds(v) =>
          /\ charges'[req[v].subject].status = "absent"
          /\ users'[req[v].subject].status # "absent"
    BY <1>0, <2>1, <2>2 DEF LifeInv, FirstCharge
  <2>6. Continue(w)
    BY <1>5 DEF Continue
  <2>7. QED
    BY <2>3, <2>4, <2>5, <2>6, OthersStay, LifeStep
<1>6. ASSUME NEW w \in Workers, ConfirmLoadCharge(w) \/ DeleteLoadCharges(w) PROVE LifeInv'
  <2>1. UNCHANGED <<users, charges, payments>> /\ Continue(w)
    BY <1>6 DEF ConfirmLoadCharge, DeleteLoadCharges, Continue
  <2>2. ChargesKept /\ NoUserNoCharge'
    BY <2>1 DEF ChargesKept, LifeInv, NoUserNoCharge
  <2>3. \A c \in Students : charges[c].status \in {"absent", "active", "deleted"}
    BY DEF SInv, TypeOK, ChargeRow
  <2>4. ASSUME ConfirmLoadCharge(w) PROVE FoundCharge(w)'
    <3>1. req[w].payment.charge \in Students => charges[req[w].payment.charge].status # "absent"
      BY <2>4 DEF ConfirmLoadCharge, SInv, StageOK, OwnerStages, PaymentStages, LifeInv, HasCharge
    <3>2. /\ req'[w].stage = "confirmSave" /\ req'[w].payment = req[w].payment
          /\ req'[w].charge = IF req[w].payment.charge \in Students
                              THEN Find(charges[req[w].payment.charge]) ELSE AbsentCharge
      BY <1>0, <2>4, ChargeLoaded
    <3>3. QED
      BY <2>1, <2>3, <3>1, <3>2 DEF FoundCharge, Find
  <2>5. ASSUME DeleteLoadCharges(w) PROVE FoundCharge(w)'
    <3>1. /\ req'[w].stage = "deleteSave" /\ req'[w].subject = req[w].subject
          /\ req'[w].charge = IF req[w].subject \in Students
                              THEN Find(charges[req[w].subject]) ELSE AbsentCharge
      BY <1>0, <2>5, ChargesLoaded
    <3>2. QED
      BY <2>1, <3>1 DEF FoundCharge, Find, AbsentCharge
  <2>6. ~Adds(w)'
    BY <1>0, <1>6, ChargeLoaded, ChargesLoaded DEF Adds
  <2>7. \A v \in Workers : Adds(v) =>
          /\ charges'[req[v].subject].status = "absent"
          /\ users'[req[v].subject].status # "absent"
    BY <2>1 DEF LifeInv, FirstCharge
  <2>8. QED
    BY <1>6, <2>1, <2>2, <2>4, <2>5, <2>6, <2>7, OthersStay, LifeStep
<1>7. QED
  BY <1>1, <1>2, <1>3, <1>4, <1>5, <1>6, CalmSteps DEF Next

LEMMA LifeInvariant == Spec => []LifeInv
BY LifeInit, LifeNext, StructuralInvariant, PTL DEF Spec

(***************************************************************************)
(* A payment confirmed by staff has left its mark on the charge.           *)
(***************************************************************************)
ByStaff(p) ==
  payments[p].status # "absent" /\ payments[p].method = "Manual" /\ payments[p].updatedBy \in Staff

Credited ==
  \A p \in PaymentIds, c \in Students :
    ByStaff(p) /\ payments[p].charge = c /\ payments[p].amount > 0 /\ charges[c].status = "active"
      => charges[c].paid > 0

(* The mark stays: no save sets the paid amount back.                      *)
LEMMA CreditStays ==
  ASSUME SInv, LifeInv, [Next]_vars, NEW c \in Students,
         charges[c].status # "absent", charges'[c].status = "active",
         charges[c].status = "active" => charges[c].paid > 0
  PROVE  charges'[c].paid > 0
<1>1. CASE charges' = charges
  BY <1>1
<1>2. ASSUME NEW w \in Workers, AddCharge(w) PROVE charges'[c] = charges[c]
  <2>1. c # req[w].subject
    BY <1>2 DEF AddCharge, LifeInv, FirstCharge, Adds
  <2>2. QED
    BY <1>2, <2>1, ChargeAdded
<1>3. ASSUME NEW w \in Workers, ConfirmSave(w) PROVE charges'[c].paid > 0
  <2>1. charges'[c].status = charges[c].status /\ charges[c].paid > 0
    BY <1>3, ChargePaid
  <2>2. req[w].charge.paid \in Nat /\ req[w].payment.amount \in Nat
    BY RequestFields DEF SInv, ChargeRow
  <2>3. charges'[c] = charges[c]
        \/ charges'[c].paid = Column(charges[c].paid, req[w].charge.paid,
                                     req[w].charge.paid + req[w].payment.amount)
    BY <1>3, ChargePaid
  <2>4. QED
    BY <2>1, <2>2, <2>3 DEF Column
<1>4. ASSUME NEW w \in Workers, DeleteSave(w) PROVE charges'[c] = charges[c]
  BY <1>4, ChargeDeleted
<1>5. QED
  BY <1>1, <1>2, <1>3, <1>4, ChargeWriters

(* A payment becomes ByStaff in the save that credits its charge.          *)
LEMMA BecomesByStaff ==
  ASSUME SInv, MInv, [Next]_vars, NEW p \in PaymentIds, ByStaff(p)', ~ByStaff(p)
  PROVE  \E w \in Workers :
           /\ ConfirmSave(w) /\ req[w].payment.charge = payments'[p].charge
           /\ req[w].payment.amount = payments'[p].amount
<1>0. NoAccount \notin Staff /\ TypeOK
  BY NullsAreNotRows DEF SInv
<1>1. payments' # payments
  BY DEF ByStaff
<1>2. ASSUME NEW w \in Workers, NEW a \in Accounts, NEW q \in PaymentIds,
             NEW c \in Students \cup {NoCharge}, NEW amount \in Amounts,
             NEW method \in {"Manual", "MockGateway"},
             CreatePayment(w, a, q, c, amount, method)
      PROVE  FALSE
  <2>1. payments'[q].updatedBy = NoAccount /\ \A o \in PaymentIds : o # q => payments'[o] = payments[o]
    BY <1>0, <1>2, PaymentCreated
  <2>2. QED
    BY <1>0, <2>1 DEF ByStaff
<1>3. ASSUME NEW w \in Workers, AttachReference(w) PROVE FALSE
  <2>1. /\ req[w].id \in PaymentIds /\ payments[req[w].id].status # "absent"
        /\ payments[req[w].id].method = "MockGateway"
    BY <1>3 DEF AttachReference, SInv, StageOK, PaymentStages, MInv, PermissionOK
  <2>2. p # req[w].id
    BY <2>1, PaymentStep DEF ByStaff, PaymentsKept
  <2>3. payments'[p] = payments[p]
    BY <1>3, <2>1, <2>2 DEF AttachReference, SInv, TypeOK
  <2>4. QED
    BY <2>3 DEF ByStaff
<1>4. ASSUME NEW w \in Workers, NEW by \in Accounts \cup {NoAccount},
             \/ ConfirmSave(w) /\ by = req[w].actor
             \/ WebhookSave(w) /\ by = NoAccount
      PROVE  /\ p = req[w].id /\ PaymentsKept /\ payments[p].status # "absent"
             /\ payments'[p].updatedBy = Column(payments[p].updatedBy, req[w].payment.updatedBy, by)
  BY <1>4, Confirms DEF ConfirmSave, WebhookSave, ByStaff
<1>5. ASSUME NEW w \in Workers, WebhookSave(w) PROVE FALSE
  <2>1. payments'[p].updatedBy \in {payments[p].updatedBy, NoAccount}
    BY <1>4, <1>5 DEF Column
  <2>2. payments[p].status # "absent" /\ payments'[p].method = payments[p].method
    BY <1>4, <1>5 DEF PaymentsKept
  <2>3. QED
    BY <1>0, <2>1, <2>2 DEF ByStaff
<1>6. ASSUME NEW w \in Workers, ConfirmSave(w)
      PROVE  /\ req[w].payment.charge = payments'[p].charge
             /\ req[w].payment.amount = payments'[p].amount
  <2>1. req[w].actor \in Accounts \cup {NoAccount}
    BY RequestFields DEF SInv
  <2>2. p = req[w].id /\ PaymentsKept /\ payments[p].status # "absent"
    BY <1>4, <1>6, <2>1
  <2>3. QED
    BY <1>6, <2>2 DEF ConfirmSave, SInv, StageOK, OwnerStages, PaymentsKept
<1>7. QED
  BY <1>1, <1>2, <1>3, <1>5, <1>6, PaymentWriters

LEMMA CreditedNext == SInv /\ MInv /\ LifeInv /\ Credited /\ [Next]_vars => Credited'
<1> SUFFICES ASSUME SInv, MInv, LifeInv, Credited, [Next]_vars,
                    NEW p \in PaymentIds, NEW c \in Students,
                    ByStaff(p)', payments'[p].charge = c, payments'[p].amount > 0,
                    charges'[c].status = "active"
             PROVE  charges'[c].paid > 0
  BY DEF Credited
<1>1. CASE ByStaff(p)
  <2>1. /\ payments[p].status # "absent" /\ payments[p].charge = c /\ payments[p].amount > 0
    BY <1>1, PaymentStep DEF ByStaff, PaymentsKept
  <2>2. charges[c].status # "absent" /\ (charges[c].status = "active" => charges[c].paid > 0)
    BY <1>1, <2>1 DEF LifeInv, HasCharge, Credited
  <2>3. QED
    BY <2>2, CreditStays
<1>2. CASE ~ByStaff(p)
  <2>1. PICK w \in Workers :
           /\ ConfirmSave(w) /\ req[w].payment.charge = c
           /\ req[w].payment.amount > 0
    BY <1>2, BecomesByStaff
  <2>2. charges[c].status = "active"
    BY <2>1, ChargePaid
  <2>3. req[w].charge.status = "active"
    BY <2>1, <2>2 DEF ConfirmSave, LifeInv, FoundCharge
  <2>4. charges'[c].paid = Column(charges[c].paid, req[w].charge.paid,
                                  req[w].charge.paid + req[w].payment.amount)
    BY <2>1, <2>3, ChargePaid
  <2>5. req[w].charge.paid \in Nat /\ req[w].payment.amount \in Nat
    BY RequestFields DEF SInv, ChargeRow
  <2>6. QED
    BY <2>1, <2>4, <2>5 DEF Column
<1>3. QED
  BY <1>1, <1>2

(* However confirmations race, a manual payment that staff confirmed shows *)
(* on the charge it was for, as long as that charge is active.             *)
THEOREM StaffConfirmationCredits == Spec => []ConfirmedIsCredited
<1>1. Init => Credited
  BY DEF Init, Credited, ByStaff, AbsentPayment
<1>2. SInv /\ MInv /\ LifeInv /\ Credited /\ [Next]_vars => Credited'
  BY CreditedNext
<1>3. Credited => ConfirmedIsCredited
  BY DEF Credited, ByStaff, ConfirmedIsCredited
<1>4. QED
  BY <1>1, <1>2, <1>3, StructuralInvariant, PermissionInvariant, LifeInvariant, PTL DEF Spec

(***************************************************************************)
(* Who writes an account: the request that creates it, the one that        *)
(* deletes it, and a save that confirms a payment of its owner.            *)
(***************************************************************************)
Settles(w) == ConfirmSave(w) \/ WebhookSave(w)

LEMMA UserStep ==
  ASSUME SInv, [Next]_vars, NEW u \in Accounts, users'[u] # users[u]
  PROVE  \E w \in Workers :
           \/ \E a \in Admins, rate \in Rates : u \in Students /\ CreateUser(w, a, u, rate)
           \/ DeleteSave(w) /\ u = req[w].subject
           \/ Settles(w) /\ u = req[w].subject /\ users'[u].status = users[u].status
<1>1. PICK w \in Workers : Start(w) \/ Continue(w)
  BY DEF Next, vars
<1>2. ASSUME NEW a \in Admins, NEW s \in Students, NEW rate \in Rates, CreateUser(w, a, s, rate)
      PROVE  u = s
  BY <1>2 DEF CreateUser, SInv, TypeOK
<1>3. CASE DeleteSave(w)
  BY <1>3, AccountDeleted
<1>4. CASE Settles(w)
  <2>1. req[w].actor \in Accounts \cup {NoAccount}
    BY RequestFields DEF SInv
  <2>2. /\ \A o \in Accounts : users'[o].status = users[o].status
        /\ \A o \in Accounts : o # req[w].subject => users'[o] = users[o]
    BY <1>4, <2>1, Confirms DEF Settles, ConfirmSave, WebhookSave
  <2>3. QED
    BY <1>4, <2>2
<1>5. QED
  BY <1>1, <1>2, <1>3, <1>4
     DEF Start, CreatePayment, BeginConfirm, WebhookLoadPayment, DeleteUser, Settles,
         Continue, AddCharge, AttachReference, ConfirmLoadPayment, ConfirmLoadUser,
         ConfirmLoadCharge, WebhookLoadUser, DeleteLoadCharges, Abort

(* A charge is added where there was none, and no other save brings a      *)
(* deleted one back, whatever the request loaded.                          *)
LEMMA ChargeStays ==
  ASSUME SInv, LifeInv, [Next]_vars
  PROVE  ChargesKept
<1> SUFFICES ASSUME charges' # charges PROVE ChargesKept
  BY DEF ChargesKept
<1>1. PICK w \in Workers : AddCharge(w) \/ ConfirmSave(w) \/ DeleteSave(w)
  BY ChargeWriters
<1>2. CASE AddCharge(w)
  <2>1. charges[req[w].subject].status = "absent"
    BY <1>2 DEF AddCharge, LifeInv, FirstCharge, Adds
  <2>2. QED
    BY <1>2, <2>1, ChargeAdded DEF ChargesKept
<1>3. CASE ConfirmSave(w)
  BY <1>3, ChargePaid DEF ChargesKept
<1>4. CASE DeleteSave(w)
  <2>1. \A c \in Students : charges'[c] = charges[c] \/ charges'[c].status = "deleted"
    BY <1>4, ChargeDeleted
  <2>2. QED
    BY <2>1 DEF ChargesKept
<1>5. QED
  BY <1>1, <1>2, <1>3, <1>4

(* A confirmation or a webhook that loaded the account before it was       *)
(* deleted, and saves after, leaves it deleted, and its charge closed.     *)
THEOREM NobodyComesBack == Spec => DeletedStaysDeleted
<1>1. SInv /\ LifeInv /\ [Next]_vars =>
        [/\ \A u \in Accounts : users[u].status = "deleted" => users'[u].status = "deleted"
         /\ \A c \in Students :
              charges[c].status = "deleted" => charges'[c].status = "deleted"]_vars
  <2> SUFFICES ASSUME SInv, LifeInv, [Next]_vars
               PROVE  /\ \A u \in Accounts :
                           users[u].status = "deleted" => users'[u].status = "deleted"
                      /\ \A c \in Students :
                           charges[c].status = "deleted" => charges'[c].status = "deleted"
    OBVIOUS
  <2>1. ASSUME NEW u \in Accounts, users[u].status = "deleted", users'[u] # users[u]
        PROVE  users'[u].status = "deleted"
    <3>1. ASSUME NEW w \in Workers, NEW a \in Admins, NEW rate \in Rates,
                 CreateUser(w, a, u, rate)
          PROVE  FALSE
      BY <2>1, <3>1 DEF CreateUser
    <3>2. QED
      BY <2>1, <3>1, UserStep, AccountDeleted
  <2>2. QED
    BY <2>1, ChargeStays DEF ChargesKept
<1>2. QED
  BY <1>1, StructuralInvariant, LifeInvariant, PTL DEF Spec, DeletedStaysDeleted

(***************************************************************************)
(* Sums.  An amount is a pile of units with its owner's name on each, so   *)
(* that piles of different owners have no unit in common.                  *)
(***************************************************************************)
Piles(S, h) == UNION {{x} \X (1..h[x]) : x \in S}

LEMMA InPiles ==
  ASSUME NEW S, NEW h, NEW u
  PROVE  u \in Piles(S, h) <=> \E x \in S : \E k \in 1..h[x] : u = <<x, k>>
BY DEF Piles

LEMMA PilesOfNone ==
  ASSUME NEW h
  PROVE  IsFiniteSet(Piles({}, h)) /\ Cardinality(Piles({}, h)) = 0
BY FS_EmptySet DEF Piles

LEMMA SamePiles ==
  ASSUME NEW S, NEW g, NEW h, \A x \in S : g[x] = h[x]
  PROVE  Piles(S, g) = Piles(S, h)
<1>1. \A u : u \in Piles(S, g) <=> u \in Piles(S, h)
  BY InPiles
<1>2. QED
  BY <1>1

LEMMA FewerPiles ==
  ASSUME NEW S, NEW T \in SUBSET S, NEW h, IsFiniteSet(Piles(S, h))
  PROVE  /\ IsFiniteSet(Piles(T, h))
         /\ Cardinality(Piles(T, h)) <= Cardinality(Piles(S, h))
<1>1. \A u : u \in Piles(T, h) => u \in Piles(S, h)
  BY InPiles
<1>2. Piles(T, h) \in SUBSET Piles(S, h)
  BY <1>1
<1>3. QED
  BY <1>2, FS_Subset

LEMMA Counted ==
  ASSUME NEW n \in Nat
  PROVE  IsFiniteSet(1..n) /\ Cardinality(1..n) = n
BY FS_Interval

LEMMA OnePile ==
  ASSUME NEW x, NEW n \in Nat
  PROVE  IsFiniteSet({x} \X (1..n)) /\ Cardinality({x} \X (1..n)) = n
<1>1. IsFiniteSet(1..n) /\ Cardinality(1..n) = n
  BY Counted
<1>2. IsFiniteSet({x}) /\ Cardinality({x}) = 1
  BY FS_Singleton
<1>3. QED
  BY <1>1, <1>2, FS_Product

LEMMA PileAdded ==
  ASSUME NEW S, NEW h, NEW x, x \notin S, h[x] \in Nat, IsFiniteSet(Piles(S, h))
  PROVE  /\ IsFiniteSet(Piles(S \cup {x}, h))
         /\ Cardinality(Piles(S \cup {x}, h)) = Cardinality(Piles(S, h)) + h[x]
<1> DEFINE old == Piles(S, h)
           new == {x} \X (1..h[x])
<1>1. \A u : u \in Piles(S \cup {x}, h) <=> u \in old \/ u \in new
  <2>1. \A u : u \in new <=> \E k \in 1..h[x] : u = <<x, k>>
    OBVIOUS
  <2>2. QED
    BY <2>1, InPiles
<1>2. Piles(S \cup {x}, h) = old \cup new
  BY <1>1
<1>3. old \cap new = {}
  BY InPiles
<1>4. IsFiniteSet(new) /\ Cardinality(new) = h[x]
  BY OnePile
<1>5. Cardinality(old) \in Nat
  BY FS_CardinalityType
<1> HIDE DEF old, new
<1>6. /\ IsFiniteSet(old \cup new)
      /\ Cardinality(old \cup new) = Cardinality(old) + Cardinality(new) - Cardinality(old \cap new)
  BY <1>4, FS_Union DEF old
<1>7. Cardinality(old \cap new) = 0
  BY <1>3, FS_EmptySet
<1>8. Cardinality(old \cup new) = Cardinality(old) + h[x]
  BY <1>4, <1>5, <1>6, <1>7
<1>9. QED
  BY <1>2, <1>6, <1>8 DEF old

(***************************************************************************)
(* How often a payment is credited.  Every request that has loaded it as   *)
(* pending may still do so once, also after another has confirmed it; such *)
(* a request is late.  What a charge shows, or a request is about to write *)
(* to it, leaves room for all late ones under the bound.                   *)
(***************************************************************************)
Height == [p \in PaymentIds |-> payments[p].amount]
Due == [w \in Workers |-> req[w].payment.amount]

Holds(w, c) == req[w].stage \in CheckedStages /\ req[w].payment.charge = c
Late(c) == {w \in Workers : Holds(w, c) /\ payments[req[w].id].status = "Confirmed"}
Again(c) == Piles(Late(c), Due)
Bound(c) == Cardinality(Workers) * Worth(ConfirmedOn(c))

Room(c) ==
  /\ IsFiniteSet(Units(ConfirmedOn(c))) /\ IsFiniteSet(Again(c))
  /\ charges[c].paid + Cardinality(Again(c)) <= Bound(c)
  /\ \A w \in Workers : req[w].stage = "confirmSave" /\ req[w].payment.charge = c =>
       req[w].charge.paid + Cardinality(Again(c)) <= Bound(c)

(* The units of the payments confirmed on a charge are their piles.        *)
LEMMA ConfirmedPiles ==
  ASSUME NEW ps \in SUBSET PaymentIds
  PROVE  Units(ps) = Piles(ps, Height)
<1>1. Units(ps) = UNION {{p} \X (1..payments[p].amount) : p \in ps}
  BY DEF Units
<1>2. \A p \in ps : Height[p] = payments[p].amount
  BY DEF Height
<1>3. \A u : u \in Units(ps) <=> u \in Piles(ps, Height)
  BY <1>1, <1>2, InPiles
<1>4. QED
  BY <1>3

(* A request knows what its payment is for and how much it is.             *)
LEMMA HolderKnows ==
  ASSUME SInv, NEW w \in Workers, req[w].stage \in CheckedStages
  PROVE  /\ req[w].id \in PaymentIds /\ payments[req[w].id].status # "absent"
         /\ req[w].payment.charge = payments[req[w].id].charge
         /\ req[w].payment.amount = payments[req[w].id].amount
         /\ req[w].payment.amount \in Nat
BY RequestFields DEF SInv, StageOK, CheckedStages, OwnerStages, PaymentStages

(* The provider's reference changes neither status nor charge.             *)
LEMMA ReferenceOnly ==
  ASSUME SInv, NEW w \in Workers, AttachReference(w), NEW q \in PaymentIds
  PROVE  payments'[q].status = payments[q].status /\ payments'[q].charge = payments[q].charge
<1> DEFINE p == req[w].id
           new == [req[w].payment EXCEPT !.reference = TRUE, !.updatedBy = req[w].actor]
<1>1. p \in PaymentIds /\ req[w].payment.status = "Pending"
  BY DEF AttachReference, SInv, StageOK, PaymentStages
<1>2. new \in PaymentRow /\ new.status = "Pending" /\ req[w].payment \in PaymentRow
  BY <1>1, RequestFields DEF PaymentRow, SInv
<1>3. payments' = [payments EXCEPT ![p] = PaymentColumns(@, req[w].payment, new)]
  BY DEF AttachReference
<1> HIDE DEF new
<1>4. payments[p] \in PaymentRow /\ payments'[p] = PaymentColumns(payments[p], req[w].payment, new)
  BY <1>1, <1>3 DEF SInv, TypeOK
<1>5. payments'[p].status = payments[p].status /\ payments'[p].charge = payments[p].charge
  BY <1>1, <1>2, <1>4, PaymentColumnsType DEF Column
<1>6. QED
  BY <1>3, <1>5 DEF SInv, TypeOK

(* A step confirms at most one payment, by one of the two saves.           *)
LEMMA ConfirmedOnStep ==
  ASSUME SInv, NEW w \in Workers, Start(w) \/ Continue(w), NEW c \in Students,
         ConfirmedOn(c)' # ConfirmedOn(c)
  PROVE  /\ ConfirmSave(w) \/ WebhookSave(w)
         /\ req[w].id \in PaymentIds \ ConfirmedOn(c)
         /\ req[w].payment.charge = c
         /\ ConfirmedOn(c)' = ConfirmedOn(c) \cup {req[w].id}
         /\ \A q \in PaymentIds : q # req[w].id => payments'[q] = payments[q]
<1> DEFINE Seen(q) == payments[q].status = "Confirmed" /\ payments[q].charge = c
<1>1. /\ ConfirmedOn(c) = {q \in PaymentIds : Seen(q)}
      /\ ConfirmedOn(c)' = {q \in PaymentIds : Seen(q)'}
  BY DEF ConfirmedOn
<1>2. PICK q \in PaymentIds : ~(Seen(q)' <=> Seen(q))
  BY <1>1
<1>3. ASSUME NEW a \in Accounts, NEW p \in PaymentIds, NEW d \in Students \cup {NoCharge},
             NEW amount \in Amounts, NEW method \in {"Manual", "MockGateway"},
             CreatePayment(w, a, p, d, amount, method)
      PROVE  FALSE
  <2>1. TypeOK /\ payments[p].status = "absent"
    BY <1>3 DEF SInv, CreatePayment
  <2>2. payments'[p].status = "Pending" /\ \A o \in PaymentIds : o # p => payments'[o] = payments[o]
    BY <1>3, <2>1, PaymentCreated
  <2>3. QED
    BY <1>2, <2>1, <2>2
<1>4. ~AttachReference(w)
  BY <1>2, ReferenceOnly
<1>5. ConfirmSave(w) \/ WebhookSave(w)
  <2>1. payments' # payments
    BY <1>2
  <2>2. ~Start(w)
    BY <1>3, <2>1 DEF Start, CreateUser, BeginConfirm, WebhookLoadPayment, DeleteUser
  <2>3. QED
    BY <1>4, <2>1, <2>2 DEF Continue, AddCharge, ConfirmLoadPayment, ConfirmLoadUser,
       ConfirmLoadCharge, WebhookLoadUser, DeleteLoadCharges, DeleteSave, Abort
<1> DEFINE p == req[w].id
<1>6. /\ p \in PaymentIds /\ payments[p].status # "absent" /\ payments'[p].status = "Confirmed"
      /\ PaymentsKept /\ \A o \in PaymentIds : o # p => payments'[o] = payments[o]
  BY <1>5, RequestFields, Confirms DEF ConfirmSave, WebhookSave, SInv
<1>7. q = p /\ payments[q].charge = c /\ ~Seen(q) /\ Seen(q)'
  BY <1>2, <1>6 DEF PaymentsKept
<1>8. req[w].payment.charge = c
  BY <1>5, <1>7 DEF SInv, StageOK, OwnerStages, ConfirmSave, WebhookSave
<1>9. \A o \in PaymentIds : Seen(o)' <=> Seen(o) \/ o = q
  BY <1>6, <1>7
<1>10. ConfirmedOn(c)' = ConfirmedOn(c) \cup {q}
  BY <1>1, <1>9
<1>11. QED
  BY <1>1, <1>5, <1>6, <1>7, <1>8, <1>10

(* What the confirmed payments are worth grows by the one confirmed.       *)
LEMMA WorthStep ==
  ASSUME SInv, NEW w \in Workers, Start(w) \/ Continue(w), [Next]_vars, NEW c \in Students,
         IsFiniteSet(Units(ConfirmedOn(c)))
  PROVE  /\ IsFiniteSet(Units(ConfirmedOn(c)))'
         /\ Worth(ConfirmedOn(c)) \in Nat
         /\ Worth(ConfirmedOn(c))' = Worth(ConfirmedOn(c)) +
              IF ConfirmedOn(c)' = ConfirmedOn(c) THEN 0 ELSE req[w].payment.amount
<1> DEFINE old == ConfirmedOn(c)
<1>1. old \in SUBSET PaymentIds /\ ConfirmedOn(c)' \in SUBSET PaymentIds
  BY DEF ConfirmedOn
<1>2. \A p \in old : Height'[p] = Height[p]
  BY PaymentStep DEF ConfirmedOn, Height, PaymentsKept
<1>3. Piles(old, Height') = Piles(old, Height)
  BY <1>2, SamePiles
<1>4. Units(old) = Piles(old, Height) /\ Worth(old) \in Nat /\ Worth(old) = Cardinality(Units(old))
  BY <1>1, ConfirmedPiles, FS_CardinalityType DEF Worth
<1>5. /\ Units(ConfirmedOn(c))' = Piles(ConfirmedOn(c)', Height')
      /\ Worth(ConfirmedOn(c))' = Cardinality(Units(ConfirmedOn(c))')
  <2>1. Units(ConfirmedOn(c))' =
          UNION {{p} \X (1..payments'[p].amount) : p \in ConfirmedOn(c)'}
    BY DEF Units
  <2>2. \A p \in ConfirmedOn(c)' : Height'[p] = payments'[p].amount
    BY <1>1 DEF Height
  <2>3. \A u : u \in Units(ConfirmedOn(c))' <=> u \in Piles(ConfirmedOn(c)', Height')
    BY <2>1, <2>2, InPiles
  <2>4. QED
    BY <2>3 DEF Worth
<1>6. CASE ConfirmedOn(c)' = old
  BY <1>3, <1>4, <1>5, <1>6
<1>7. CASE ConfirmedOn(c)' # old
  <2> DEFINE p == req[w].id
  <2>1. /\ ConfirmSave(w) \/ WebhookSave(w)
        /\ p \in PaymentIds /\ p \notin old /\ ConfirmedOn(c)' = old \cup {p}
    BY <1>7, ConfirmedOnStep
  <2>2. payments[p].status # "absent" /\ req[w].payment.amount = payments[p].amount
        /\ req[w].payment.amount \in Nat
    BY <2>1, RequestFields
       DEF SInv, StageOK, OwnerStages, PaymentStages, ConfirmSave, WebhookSave
  <2>3. Height'[p] = req[w].payment.amount
    BY <2>1, <2>2, PaymentStep DEF Height, PaymentsKept
  <2>4. /\ IsFiniteSet(Piles(old \cup {p}, Height'))
        /\ Cardinality(Piles(old \cup {p}, Height')) =
             Cardinality(Piles(old, Height')) + Height'[p]
    BY <1>3, <1>4, <2>1, <2>2, <2>3, PileAdded
  <2>5. QED
    BY <1>3, <1>4, <1>5, <1>7, <2>1, <2>3, <2>4
<1>8. QED
  BY <1>6, <1>7

(* Who is late after a step was so before, or holds the payment that it    *)
(* confirmed.                                                              *)
LEMMA LateStep ==
  ASSUME SInv, NEW w \in Workers, Start(w) \/ Continue(w), [Next]_vars, NEW c \in Students,
         NEW v \in Workers, v \in Late(c)'
  PROVE  /\ Due'[v] = Due[v]
         /\ \/ v \in Late(c) /\ ~(v = w /\ ConfirmSave(w))
            \/ /\ v # w /\ ConfirmedOn(c)' # ConfirmedOn(c)
               /\ Due[v] = req[w].payment.amount
<1>1. req'[v].stage \in CheckedStages /\ req'[v].payment.charge = c
      /\ payments'[req'[v].id].status = "Confirmed"
  BY DEF Late, Holds
<1>2. CASE v # w
  <2> DEFINE p == req[v].id
  <2>1. req'[v] = req[v]
    BY <1>2, OthersStay
  <2>2. /\ p \in PaymentIds /\ payments[p].status # "absent" /\ payments[p].charge = c
        /\ req[v].payment.amount = payments[p].amount
    BY <1>1, <2>1, HolderKnows
  <2>3. CASE payments[p].status = "Confirmed"
    BY <1>1, <1>2, <2>1, <2>3 DEF Late, Holds, Due
  <2>4. CASE payments[p].status # "Confirmed"
    <3>1. p \notin ConfirmedOn(c)
      BY <2>4 DEF ConfirmedOn
    <3>2. payments'[p].charge = c
      BY <2>2, PaymentStep DEF PaymentsKept
    <3>3. payments'[p].status = "Confirmed"
      BY <1>1, <2>1
    <3>4. p \in ConfirmedOn(c)'
      BY <2>2, <3>2, <3>3 DEF ConfirmedOn
    <3>5. ConfirmSave(w) \/ WebhookSave(w)
      BY <3>1, <3>4, ConfirmedOnStep
    <3>6. p = req[w].id
      BY <2>2, <2>4, <3>1, <3>3, <3>4, ConfirmedOnStep
    <3>7. req[w].payment.amount = payments[p].amount
      BY <3>5, <3>6 DEF SInv, StageOK, OwnerStages, ConfirmSave, WebhookSave
    <3>8. QED
      BY <1>2, <2>1, <2>2, <3>1, <3>4, <3>7 DEF Due
  <2>5. QED
    BY <2>3, <2>4
<1>3. CASE v = w
  <2>0. TypeOK
    BY DEF SInv
  <2>1. ASSUME NEW a \in Accounts, NEW p \in PaymentIds, NEW d \in Students \cup {NoCharge},
               NEW amount \in Amounts, NEW method \in {"Manual", "MockGateway"},
               CreatePayment(v, a, p, d, amount, method)
        PROVE  FALSE
    BY <1>1, <2>0, <2>1, PaymentCreated, EndedIsIdle DEF CheckedStages
  <2>2. ~ConfirmLoadPayment(v)
    <3> SUFFICES ASSUME ConfirmLoadPayment(v) PROVE FALSE
      OBVIOUS
    <3>1. req'[v].id = req[v].id /\ StillPending(payments[req[v].id])
      BY <1>1, <2>0, PaymentLoaded, EndedIsIdle DEF CheckedStages
    <3>2. QED
      BY <1>1, <3>1 DEF ConfirmLoadPayment, StillPending
  <2>3. ConfirmLoadUser(v) \/ ConfirmLoadCharge(v)
    BY <1>1, <1>3, <2>1, <2>2, EntersStage
  <2>4. /\ req'[v].id = req[v].id /\ req'[v].payment = req[v].payment
        /\ payments' = payments /\ req[v].stage \in {"confirmUser", "confirmCharge"}
    BY <1>1, <2>0, <2>3, UserLoaded, ChargeLoaded, EndedIsIdle
       DEF CheckedStages, ConfirmLoadUser, ConfirmLoadCharge
  <2>5. v \in Late(c) /\ Due'[v] = Due[v]
    BY <1>1, <2>4 DEF Late, Holds, Due, CheckedStages
  <2>6. QED
    BY <1>3, <2>4, <2>5 DEF ConfirmSave
<1>4. QED
  BY <1>2, <1>3

(* One late request settles its part; a new confirmation makes late at     *)
(* most all others.                                                        *)
LEMMA AgainStep ==
  ASSUME SInv, NEW w \in Workers, Start(w) \/ Continue(w), [Next]_vars, NEW c \in Students,
         IsFiniteSet(Again(c))
  PROVE  /\ IsFiniteSet(Again(c)')
         /\ Cardinality(Again(c)) \in Nat /\ Cardinality(Again(c)') \in Nat
         /\ ConfirmedOn(c)' = ConfirmedOn(c) =>
              /\ Cardinality(Again(c)') <= Cardinality(Again(c))
              /\ ConfirmSave(w) /\ req[w].payment.charge = c =>
                   Cardinality(Again(c)') + req[w].payment.amount <= Cardinality(Again(c))
         /\ ConfirmedOn(c)' # ConfirmedOn(c) =>
              Cardinality(Again(c)') <=
                Cardinality(Again(c)) + (Cardinality(Workers) - 1) * req[w].payment.amount
<1> DEFINE a == req[w].payment.amount
<1>0. Cardinality(Again(c)) \in Nat
  BY FS_CardinalityType
<1>1. Late(c) \in SUBSET Workers /\ Late(c)' \in SUBSET Workers
  BY DEF Late
<1>2. Again(c)' = Piles(Late(c)', Due) /\ Again(c) = Piles(Late(c), Due)
  <2>1. \A v \in Late(c)' : Due'[v] = Due[v]
    BY <1>1, LateStep
  <2>2. QED
    BY <2>1, SamePiles DEF Again
<1>3. ASSUME ConfirmedOn(c)' = ConfirmedOn(c)
      PROVE  /\ IsFiniteSet(Again(c)') /\ Cardinality(Again(c)') <= Cardinality(Again(c))
             /\ ConfirmSave(w) /\ req[w].payment.charge = c =>
                  Cardinality(Again(c)') + a <= Cardinality(Again(c))
  <2>1. Late(c)' \in SUBSET Late(c)
    BY <1>1, <1>3, LateStep
  <2>2. IsFiniteSet(Again(c)') /\ Cardinality(Again(c)') <= Cardinality(Again(c))
    BY <1>2, <2>1, FewerPiles
  <2>3. ASSUME ConfirmSave(w), req[w].payment.charge = c
        PROVE  Cardinality(Again(c)') + a <= Cardinality(Again(c))
    <3> DEFINE rest == Late(c) \ {w}
    <3>1. req[w].stage = "confirmSave" /\ req[w].stage \in CheckedStages
      BY <2>3 DEF ConfirmSave, CheckedStages
    <3>2. /\ req[w].id \in PaymentIds /\ payments[req[w].id].charge = c
          /\ payments[req[w].id].status # "absent" /\ a \in Nat
      BY <2>3, <3>1, HolderKnows
    <3>3. payments'[req[w].id].status = "Confirmed" /\ payments'[req[w].id].charge = c
      BY <2>3, <3>2, RequestFields, Confirms DEF ConfirmSave, SInv, PaymentsKept
    <3>4. payments[req[w].id].status = "Confirmed"
      <4> DEFINE p == req[w].id
      <4>1. \A q \in PaymentIds : payments'[q].status = "Confirmed" /\ payments'[q].charge = c =>
              payments[q].status = "Confirmed"
        BY <1>3 DEF ConfirmedOn
      <4>2. QED
        BY <3>2, <3>3, <4>1
    <3>5. w \in Late(c) /\ Due[w] = a
      BY <2>3, <3>1, <3>4 DEF Late, Holds, Due
    <3>6. Late(c)' \in SUBSET rest
      BY <1>1, <1>3, <2>3, LateStep
    <3>7. /\ IsFiniteSet(Piles(rest, Due))
          /\ Cardinality(Again(c)') <= Cardinality(Piles(rest, Due))
      <4>1. rest \in SUBSET Late(c)
        OBVIOUS
      <4>2. IsFiniteSet(Piles(rest, Due))
        BY <1>2, <4>1, FewerPiles
      <4>3. QED
        BY <1>2, <3>6, <4>2, FewerPiles
    <3>8. rest \cup {w} = Late(c) /\ w \notin rest
      BY <3>5
    <3>9. Cardinality(Piles(Late(c), Due)) = Cardinality(Piles(rest, Due)) + a
      BY <3>2, <3>5, <3>7, <3>8, PileAdded
    <3>10. Cardinality(Again(c)') \in Nat /\ Cardinality(Piles(rest, Due)) \in Nat
      BY <2>2, <3>7, FS_CardinalityType
    <3> HIDE DEF rest
    <3>11. QED
      BY <1>0, <1>2, <3>2, <3>7, <3>9, <3>10
  <2>4. QED
    BY <2>2, <2>3
<1>4. ASSUME ConfirmedOn(c)' # ConfirmedOn(c)
      PROVE  /\ IsFiniteSet(Again(c)')
             /\ Cardinality(Again(c)') <= Cardinality(Again(c)) + (Cardinality(Workers) - 1) * a
  <2> DEFINE new == (Workers \ {w}) \X (1..a)
  <2>1. a \in Nat
    BY RequestFields DEF SInv
  <2>2. \A v \in Late(c)' : v \in Late(c) \/ (v \in Workers \ {w} /\ Due[v] = a)
    <3> SUFFICES ASSUME NEW v \in Workers, v \in Late(c)', v \notin Late(c)
                 PROVE  v # w /\ Due[v] = a
      BY <1>1
    <3>1. QED
      BY LateStep
  <2>3. \A u : u \in Again(c)' => u \in Again(c) \cup new
    BY <1>2, <2>2, InPiles
  <2>4. /\ IsFiniteSet(new) /\ Cardinality(new) = (Cardinality(Workers) - 1) * a
    <3>1. IsFiniteSet(1..a) /\ Cardinality(1..a) = a
      BY <2>1, Counted
    <3>2. IsFiniteSet(Workers \ {w}) /\ Cardinality(Workers \ {w}) = Cardinality(Workers) - 1
      BY WorkersAreFinite, FS_RemoveElement
    <3>3. QED
      BY <3>1, <3>2, FS_Product
  <2> HIDE DEF new
  <2> DEFINE old == Again(c)
             next == Again(c)'
             both == old \cup new
  <2>5. next \in SUBSET both /\ IsFiniteSet(old)
    BY <2>3
  <2> HIDE DEF old, next
  <2>6. /\ IsFiniteSet(both)
        /\ Cardinality(both) = Cardinality(old) + Cardinality(new) - Cardinality(old \cap new)
    BY <2>4, <2>5, FS_Union
  <2>7. Cardinality(old \cap new) \in Nat /\ Cardinality(new) \in Nat /\ Cardinality(old) \in Nat
    BY <2>4, <2>5, FS_Intersection, FS_CardinalityType
  <2> HIDE DEF both
  <2>8. IsFiniteSet(next) /\ Cardinality(next) <= Cardinality(both)
    BY <2>5, <2>6, FS_Subset
  <2>9. Cardinality(next) \in Nat
    BY <2>8, FS_CardinalityType
  <2>10. Cardinality(next) <= Cardinality(old) + Cardinality(new)
    BY <2>6, <2>7, <2>8, <2>9
  <2>11. QED
    BY <2>4, <2>8, <2>10 DEF next, old
<1>5. Cardinality(Again(c)') \in Nat
  BY <1>3, <1>4, FS_CardinalityType
<1>6. QED
  BY <1>0, <1>3, <1>4, <1>5

LEMMA Distributes ==
  ASSUME NEW n \in Nat, NEW a \in Nat, NEW b \in Nat
  PROVE  n * b \in Nat /\ n * a \in Nat /\ n * (b + a) = n * b + n * a /\ (n - 1) * a = n * a - a
OBVIOUS

(* Whatever fitted under the bound still does, with the amount of the      *)
(* payment that was confirmed, or paid once more by a late request.        *)
LEMMA StillFits ==
  ASSUME SInv, NEW w \in Workers, Start(w) \/ Continue(w), [Next]_vars, NEW c \in Students,
         Room(c), NEW z \in Nat, z + Cardinality(Again(c)) <= Bound(c)
  PROVE  /\ z + Cardinality(Again(c)') <= Bound(c)'
         /\ ConfirmSave(w) /\ req[w].payment.charge = c =>
              z + req[w].payment.amount + Cardinality(Again(c)') <= Bound(c)'
<1> DEFINE a == req[w].payment.amount
           n == Cardinality(Workers)
           b == Worth(ConfirmedOn(c))
           old == Cardinality(Again(c))
           new == Cardinality(Again(c)')
<1>1. n \in Nat /\ a \in Nat
  BY WorkersAreFinite, FS_CardinalityType, RequestFields DEF SInv
<1>2. /\ b \in Nat /\ Bound(c) = n * b
      /\ Bound(c)' = n * (b + IF ConfirmedOn(c)' = ConfirmedOn(c) THEN 0 ELSE a)
  BY WorthStep DEF Room, Bound
<1>3. /\ old \in Nat /\ new \in Nat
      /\ ConfirmedOn(c)' = ConfirmedOn(c) =>
           new <= old /\ (ConfirmSave(w) /\ req[w].payment.charge = c => new + a <= old)
      /\ ConfirmedOn(c)' # ConfirmedOn(c) => new <= old + (n - 1) * a
  BY AgainStep DEF Room
<1>4. z + old <= n * b
  BY <1>2
<1>5. /\ n * b \in Nat /\ n * a \in Nat /\ n * (b + a) = n * b + n * a
      /\ (n - 1) * a = n * a - a /\ n * (b + 0) = n * b
  BY <1>1, <1>2, Distributes
<1>6. CASE ConfirmedOn(c)' = ConfirmedOn(c)
  <2>1. Bound(c)' = n * b
    BY <1>2, <1>5, <1>6
  <2> HIDE DEF n, b, old, new, a
  <2>2. QED
    BY <1>1, <1>3, <1>4, <1>5, <1>6, <2>1 DEF a, new
<1>7. CASE ConfirmedOn(c)' # ConfirmedOn(c)
  <2>1. Bound(c)' = n * b + n * a /\ new <= old + (n * a - a)
    BY <1>2, <1>3, <1>5, <1>7
  <2> HIDE DEF n, b, old, new, a
  <2>2. z + a + new <= n * b + n * a
    BY <1>1, <1>3, <1>4, <1>5, <2>1
  <2>3. z + new <= n * b + n * a
    BY <1>1, <1>3, <1>5, <2>2
  <2>4. QED
    BY <2>1, <2>2, <2>3 DEF a, new
<1>8. QED
  BY <1>6, <1>7

(* What a charge shows after a step: what it showed, nothing yet, or what  *)
(* the request had loaded and the payment it confirms.                     *)
LEMMA PaidStep ==
  ASSUME SInv, NEW w \in Workers, Start(w) \/ Continue(w), NEW c \in Students
  PROVE  \/ charges'[c].paid = charges[c].paid
         \/ charges'[c].paid = 0
         \/ /\ ConfirmSave(w) /\ req[w].payment.charge = c
            /\ charges'[c].paid = req[w].charge.paid + req[w].payment.amount
<1>1. CASE AddCharge(w)
  BY <1>1, ChargeAdded
<1>2. CASE ConfirmSave(w)
  BY <1>2, ChargePaid DEF Column
<1>3. CASE DeleteSave(w)
  BY <1>3, ChargeDeleted
<1>4. CASE ~AddCharge(w) /\ ~ConfirmSave(w) /\ ~DeleteSave(w)
  <2>1. charges' = charges
    BY <1>4 DEF Start, Continue, CreateUser, CreatePayment, BeginConfirm, WebhookLoadPayment,
       DeleteUser, AttachReference, ConfirmLoadPayment, ConfirmLoadUser, ConfirmLoadCharge,
       WebhookLoadUser, WebhookSave, DeleteLoadCharges, Abort
  <2>2. QED
    BY <2>1
<1>5. QED
  BY <1>1, <1>2, <1>3, <1>4

(* A request comes to its save with what the charge showed, or nothing.    *)
LEMMA CopyStep ==
  ASSUME SInv, NEW w \in Workers, Start(w) \/ Continue(w), NEW c \in Students,
         req'[w].stage = "confirmSave", req'[w].payment.charge = c
  PROVE  req'[w].charge.paid = charges[c].paid \/ req'[w].charge.paid = 0
<1>0. TypeOK
  BY DEF SInv
<1>1. ASSUME NEW a \in Accounts, NEW p \in PaymentIds, NEW d \in Students \cup {NoCharge},
             NEW amount \in Amounts, NEW method \in {"Manual", "MockGateway"},
             CreatePayment(w, a, p, d, amount, method)
      PROVE  FALSE
  BY <1>0, <1>1, PaymentCreated, EndedIsIdle
<1>2. ~ConfirmLoadPayment(w) /\ ~ConfirmLoadUser(w)
  BY <1>0, PaymentLoaded, UserLoaded, EndedIsIdle
<1>3. ConfirmLoadCharge(w)
  BY <1>1, <1>2, EntersStage DEF CheckedStages
<1>4. req'[w].charge = Find(charges[c])
  BY <1>0, <1>3, ChargeLoaded
<1>5. QED
  BY <1>4 DEF Find, AbsentCharge

LEMMA RoomNext ==
  ASSUME SInv, [Next]_vars, NEW c \in Students, Room(c)
  PROVE  Room(c)'
<1>1. CASE UNCHANGED vars
  BY <1>1 DEF vars, Room, Units, Worth, ConfirmedOn, Again, Late, Holds, Due, Bound
<1>2. ASSUME NEW w \in Workers, Start(w) \/ Continue(w) PROVE Room(c)'
  <2>1. /\ charges[c].paid \in Nat
        /\ \A v \in Workers : req[v].charge.paid \in Nat /\ req[v].payment.amount \in Nat
    BY RequestFields DEF SInv, TypeOK, ChargeRow
  <2>2. IsFiniteSet(Units(ConfirmedOn(c)))' /\ IsFiniteSet(Again(c)')
    BY <1>2, WorthStep, AgainStep DEF Room
  <2>3. charges[c].paid + Cardinality(Again(c)) <= Bound(c)
    BY DEF Room
  <2>4. 0 + Cardinality(Again(c)) <= Bound(c)
    <3>1. Cardinality(Again(c)) \in Nat /\ Bound(c) \in Nat
      BY <1>2, WorkersAreFinite, FS_CardinalityType, WorthStep, Distributes DEF Room, Bound
    <3>2. QED
      BY <2>1, <2>3, <3>1
  <2>5. /\ charges[c].paid + Cardinality(Again(c)') <= Bound(c)'
        /\ 0 + Cardinality(Again(c)') <= Bound(c)'
    BY <1>2, <2>1, <2>3, <2>4, StillFits
  <2>6. charges'[c].paid + Cardinality(Again(c)') <= Bound(c)'
    <3>1. ASSUME ConfirmSave(w), req[w].payment.charge = c
          PROVE  req[w].charge.paid + req[w].payment.amount + Cardinality(Again(c)') <= Bound(c)'
      <4>1. req[w].charge.paid + Cardinality(Again(c)) <= Bound(c)
        BY <3>1 DEF Room, ConfirmSave
      <4>2. QED
        BY <1>2, <2>1, <3>1, <4>1, StillFits
    <3>2. QED
      BY <1>2, <2>5, <3>1, PaidStep
  <2>7. ASSUME NEW v \in Workers, req'[v].stage = "confirmSave", req'[v].payment.charge = c
        PROVE  req'[v].charge.paid + Cardinality(Again(c)') <= Bound(c)'
    <3>1. CASE v = w
      BY <1>2, <2>5, <2>7, <3>1, CopyStep
    <3>2. CASE v # w
      <4>1. req'[v] = req[v]
        BY <1>2, <3>2, OthersStay
      <4>2. req[v].charge.paid + Cardinality(Again(c)) <= Bound(c)
        BY <2>7, <4>1 DEF Room
      <4>3. QED
        BY <1>2, <2>1, <4>1, <4>2, StillFits
    <3>3. QED
      BY <3>1, <3>2
  <2>8. QED
    BY <2>2, <2>6, <2>7 DEF Room
<1>3. QED
  BY <1>1, <1>2 DEF Next

LEMMA RoomInvariant == Spec => [](\A c \in Students : Room(c))
<1>1. Init => \A c \in Students : Room(c)
  <2> SUFFICES ASSUME Init, NEW c \in Students PROVE Room(c)
    OBVIOUS
  <2>1. ConfirmedOn(c) = {} /\ Late(c) = {} /\ charges[c].paid = 0
    BY DEF Init, AbsentPayment, AbsentCharge, Idle, ConfirmedOn, Late, Holds, CheckedStages
  <2>2. Units(ConfirmedOn(c)) = {}
    BY <2>1 DEF Units
  <2>3. /\ IsFiniteSet(Units(ConfirmedOn(c))) /\ Worth(ConfirmedOn(c)) = 0
        /\ IsFiniteSet(Again(c)) /\ Cardinality(Again(c)) = 0
    BY <2>1, <2>2, PilesOfNone, FS_EmptySet DEF Worth, Again
  <2>4. Bound(c) = 0
    BY <2>3, WorkersAreFinite, FS_CardinalityType DEF Bound
  <2>5. \A w \in Workers : req[w].stage # "confirmSave"
    BY DEF Init, Idle
  <2>6. QED
    BY <2>1, <2>3, <2>4, <2>5 DEF Room
<1>2. SInv /\ (\A c \in Students : Room(c)) /\ [Next]_vars => (\A c \in Students : Room(c))'
  BY RoomNext
<1>3. QED
  BY <1>1, <1>2, StructuralInvariant, PTL DEF Spec

(* A charge never shows more than what the payments confirmed on it are    *)
(* worth, once for every request that can be in flight.                    *)
THEOREM CreditStaysBounded == Spec => []CreditIsBounded
<1>1. SInv /\ (\A c \in Students : Room(c)) => CreditIsBounded
  <2> SUFFICES ASSUME SInv, NEW c \in Students, Room(c)
               PROVE  charges[c].paid <= Bound(c)
    BY DEF CreditIsBounded, Bound
  <2>1. Cardinality(Again(c)) \in Nat /\ charges[c].paid \in Nat
    BY FS_CardinalityType DEF Room, SInv, TypeOK, ChargeRow
  <2>2. Worth(ConfirmedOn(c)) \in Nat /\ Cardinality(Workers) \in Nat
    BY WorkersAreFinite, FS_CardinalityType DEF Room, Worth
  <2>3. Bound(c) \in Nat
    BY <2>2, Distributes DEF Bound
  <2>4. QED
    BY <2>1, <2>3 DEF Room
<1>2. QED
  BY <1>1, RoomInvariant, StructuralInvariant, PTL

(***************************************************************************)
(* Balances.  What a student was charged at admission is the amount of the *)
(* charge, or of the one that CreateUserAsync is about to add.  The Balance *)
(* and every copy of it that a request holds start from that and only sink, *)
(* and a copy taken after the Balance sank cannot be written higher.       *)
(***************************************************************************)
Charged(s, r) ==
  \/ charges[s].status # "absent" /\ charges[s].amount = r
  \/ \E w \in Workers : Adds(w) /\ req[w].subject = s /\ req[w].balance = r

PaidNothing(s) ==
  \A p \in PaymentIds : payments[p].status = "Confirmed" /\ payments[p].user = s
                          => payments[p].amount = 0

HoldsActor(w, s) == req[w].stage \in {"confirm", "confirmUser"} /\ req[w].actor = s
HoldsOwner(w, s) ==
  req[w].stage \in {"confirmCharge", "confirmSave", "webhookSave"} /\ req[w].subject = s

Copy(s, r, c) == c <= r /\ (c < r => users[s].balance < r)

Sinks(s, r) ==
  Charged(s, r) =>
    /\ r \in Nat \ {0}
    /\ users[s].balance <= r
    /\ users[s].balance = r => PaidNothing(s)
    /\ \A w \in Workers : HoldsActor(w, s) => Copy(s, r, req[w].authBalance)
    /\ \A w \in Workers : HoldsOwner(w, s) => Copy(s, r, req[w].balance)

(* Nothing refers to an account before it is created.                      *)
NobodyUnknown ==
  /\ \A p \in PaymentIds :
       payments[p].status # "absent" => users[payments[p].user].status # "absent"
  /\ \A w \in Workers, s \in Students : HoldsActor(w, s) => users[s].status # "absent"

BInv == NobodyUnknown /\ \A s \in Students, r \in Nat : Sinks(s, r)

LEMMA ChargedIsKnown ==
  ASSUME SInv, LifeInv, NEW s \in Students, NEW r, Charged(s, r)
  PROVE  r \in Nat /\ users[s].status # "absent"
<1>1. charges[s] \in ChargeRow
  BY DEF SInv, TypeOK
<1>2. \A w \in Workers : req[w].balance \in Nat
  BY RequestFields DEF SInv
<1>3. r \in Nat
  BY <1>1, <1>2 DEF Charged, ChargeRow
<1>4. users[s].status # "absent"
  BY DEF Charged, LifeInv, NoUserNoCharge, FirstCharge
<1>5. QED
  BY <1>3, <1>4

(* A payment is confirmed by the save of a request that handles it.        *)
LEMMA NewlyConfirmed ==
  ASSUME SInv, NEW w \in Workers, Start(w) \/ Continue(w), NEW q \in PaymentIds,
         payments'[q].status = "Confirmed", payments[q].status # "Confirmed"
  PROVE  Settles(w) /\ q = req[w].id
<1>1. ASSUME NEW a \in Accounts, NEW p \in PaymentIds, NEW d \in Students \cup {NoCharge},
             NEW amount \in Amounts, NEW method \in {"Manual", "MockGateway"},
             CreatePayment(w, a, p, d, amount, method)
      PROVE  FALSE
  <2>1. payments'[p].status = "Pending" /\ \A o \in PaymentIds : o # p => payments'[o] = payments[o]
    BY <1>1, PaymentCreated DEF SInv
  <2>2. QED
    BY <2>1
<1>2. ~AttachReference(w)
  BY ReferenceOnly
<1>3. payments' # payments
  OBVIOUS
<1>4. Settles(w)
  <2>1. ~Start(w)
    BY <1>1, <1>3 DEF Start, CreateUser, BeginConfirm, WebhookLoadPayment, DeleteUser
  <2>2. QED
    BY <1>2, <1>3, <2>1 DEF Continue, Settles, AddCharge, ConfirmLoadPayment, ConfirmLoadUser,
       ConfirmLoadCharge, WebhookLoadUser, DeleteLoadCharges, DeleteSave, Abort
<1>5. req[w].actor \in Accounts \cup {NoAccount}
  BY RequestFields DEF SInv
<1>6. q = req[w].id
  BY <1>4, <1>5, Confirms DEF Settles, ConfirmSave, WebhookSave
<1>7. QED
  BY <1>4, <1>6

(* What such a save writes to the Balance of the payment's owner.          *)
LEMMA SettledBalance ==
  ASSUME SInv, NEW w \in Workers, Settles(w)
  PROVE  /\ HoldsOwner(w, req[w].subject) /\ req[w].subject \in Accounts
         /\ req[w].balance \in Nat /\ req[w].payment.amount \in Nat
         /\ req[w].id \in PaymentIds /\ payments[req[w].id].status # "absent"
         /\ payments[req[w].id].user = req[w].subject
         /\ payments[req[w].id].amount = req[w].payment.amount
         /\ users'[req[w].subject].balance =
              SaveBalance(req[w].subject, req[w].balance,
                          Reduced(req[w].balance, req[w].payment.amount))
         /\ \A u \in Accounts : users'[u].status = users[u].status
         /\ \A u \in Accounts : u # req[w].subject => users'[u] = users[u]
<1>1. req[w].stage \in {"confirmSave", "webhookSave"}
  BY DEF Settles, ConfirmSave, WebhookSave
<1>2. /\ req[w].actor \in Accounts \cup {NoAccount}
      /\ req[w].balance \in Nat /\ req[w].payment.amount \in Nat
  BY RequestFields DEF SInv
<1>3. /\ req[w].id \in PaymentIds /\ payments[req[w].id].status # "absent"
      /\ payments[req[w].id].user = req[w].subject
      /\ payments[req[w].id].amount = req[w].payment.amount
  BY <1>1 DEF SInv, StageOK, PaymentStages, OwnerStages
<1>4. req[w].subject \in Accounts
  BY <1>3 DEF SInv, RowsOK
<1>5. users' = [users EXCEPT ![req[w].subject].balance =
                  SaveBalance(req[w].subject, req[w].balance,
                              Reduced(req[w].balance, req[w].payment.amount))]
  BY DEF Settles, ConfirmSave, WebhookSave
<1>6. /\ users'[req[w].subject].balance =
           SaveBalance(req[w].subject, req[w].balance,
                       Reduced(req[w].balance, req[w].payment.amount))
      /\ \A u \in Accounts : users'[u].status = users[u].status
      /\ \A u \in Accounts : u # req[w].subject => users'[u] = users[u]
  BY <1>4, <1>5 DEF SInv, TypeOK, UserRow
<1>7. QED
  BY <1>1, <1>2, <1>3, <1>4, <1>6 DEF HoldsOwner

(* Who is charged what changes only when the account is created.           *)
LEMMA ChargedStep ==
  ASSUME SInv, LifeInv, [Next]_vars, NEW s \in Students, NEW r, Charged(s, r)'
  PROVE  \/ Charged(s, r)
         \/ \E w \in Workers, a \in Admins : r \in Rates /\ r > 0 /\ CreateUser(w, a, s, r)
<1>1. CASE charges'[s].status # "absent" /\ charges'[s].amount = r
  <2>1. CASE charges' = charges
    BY <1>1, <2>1 DEF Charged
  <2>2. ASSUME NEW w \in Workers, AddCharge(w) PROVE Charged(s, r)
    <3>1. CASE s = req[w].subject
      BY <1>1, <2>2, <3>1, ChargeAdded DEF AddCharge, Adds, Charged
    <3>2. CASE s # req[w].subject
      BY <1>1, <2>2, <3>2, ChargeAdded DEF Charged
    <3>3. QED
      BY <3>1, <3>2
  <2>3. ASSUME NEW w \in Workers, ConfirmSave(w) PROVE Charged(s, r)
    BY <1>1, <2>3, ChargePaid DEF Charged
  <2>4. ASSUME NEW w \in Workers, DeleteSave(w) PROVE Charged(s, r)
    <3>1. charges'[s] = charges[s] \/ charges[s].status # "absent"
      BY <2>4, ChargeDeleted DEF LifeInv, FoundCharge, DeleteSave
    <3>2. charges'[s].amount = charges[s].amount
      BY <2>4, ChargeDeleted
    <3>3. QED
      BY <1>1, <3>1, <3>2 DEF Charged
  <2>5. QED
    BY <2>1, <2>2, <2>3, <2>4, ChargeWriters
<1>2. ASSUME NEW v \in Workers, Adds(v)', req'[v].subject = s, req'[v].balance = r
      PROVE  Charged(s, r) \/
             \E w \in Workers, a \in Admins : r \in Rates /\ r > 0 /\ CreateUser(w, a, s, r)
  <2>1. CASE req'[v] = req[v]
    BY <1>2, <2>1 DEF Adds, Charged
  <2>2. CASE req'[v] # req[v]
    <3>1. Start(v) \/ Continue(v)
      BY <2>2, OwnStep
    <3>2. ASSUME NEW a \in Admins, NEW t \in Students, NEW rate \in Rates, CreateUser(v, a, t, rate)
          PROVE  s = t /\ r = rate /\ rate > 0
      BY <1>2, <3>2, UserCreated, EndedIsIdle DEF Adds, SInv
    <3>3. ~Calm(v)
      BY <1>2 DEF Calm, Adds
    <3>4. ~AddCharge(v) /\ ~DeleteSave(v)
      BY <1>2, ChargeAdded, AccountDeleted, EndedIsIdle DEF Adds
    <3>5. ~ConfirmLoadCharge(v) /\ ~DeleteLoadCharges(v)
      BY <1>2, ChargeLoaded, ChargesLoaded DEF Adds, SInv
    <3>6. QED
      BY <3>1, <3>2, <3>3, <3>4, <3>5, CalmSteps
  <2>3. QED
    BY <2>1, <2>2
<1>3. QED
  BY <1>1, <1>2 DEF Charged

LEMMA BalanceSinks ==
  ASSUME SInv, LifeInv, NEW s \in Students, NEW r, Charged(s, r), Sinks(s, r),
         NEW w \in Workers, Start(w) \/ Continue(w), [Next]_vars
  PROVE  /\ users'[s].balance <= r
         /\ users[s].balance < r => users'[s].balance < r
         /\ users'[s].balance = r => PaidNothing(s)'
<1>0. /\ r \in Nat \ {0} /\ users[s].status # "absent" /\ users[s].balance \in Nat
      /\ users[s].balance <= r /\ (users[s].balance = r => PaidNothing(s)) /\ s \in Accounts
  BY ChargedIsKnown DEF Sinks, SInv, TypeOK, UserRow, Accounts
<1>1. CASE Settles(w) /\ s = req[w].subject
  <2> PICK c \in Nat, amount \in Nat, p \in PaymentIds :
         /\ c = req[w].balance /\ amount = req[w].payment.amount /\ p = req[w].id
    BY <1>1, SettledBalance
  <2>1. /\ users'[s].balance = Column(users[s].balance, c, Reduced(c, amount))
        /\ payments[p].status # "absent" /\ payments[p].amount = amount
    BY <1>1, SettledBalance DEF SaveBalance
  <2>2. c <= r /\ (c < r => users[s].balance < r)
    BY <1>1, SettledBalance DEF Sinks, Copy
  <2>3. CASE Reduced(c, amount) # c
    <3>1. Reduced(c, amount) < c /\ Reduced(c, amount) \in Nat
      BY <2>3 DEF Reduced
    <3>2. users'[s].balance = Reduced(c, amount)
      BY <2>1, <2>3 DEF Column
    <3>3. QED
      BY <1>0, <2>2, <3>1, <3>2
  <2>4. CASE Reduced(c, amount) = c
    <3>1. users'[s].balance = users[s].balance
      BY <2>1, <2>4 DEF Column
    <3>2. users[s].balance = r => amount = 0
      BY <1>0, <2>2, <2>4 DEF Reduced
    <3>3. ASSUME users[s].balance = r, NEW q \in PaymentIds,
                 payments'[q].status = "Confirmed", payments'[q].user = s
          PROVE  payments'[q].amount = 0
      <4>1. CASE payments[q].status = "Confirmed"
        BY <1>0, <3>3, <4>1, PaymentStep DEF PaymentsKept, PaidNothing
      <4>2. CASE payments[q].status # "Confirmed"
        <5>1. q = p
          BY <3>3, <4>2, NewlyConfirmed
        <5>2. QED
          BY <2>1, <3>2, <3>3, <5>1, PaymentStep DEF PaymentsKept
      <4>3. QED
        BY <4>1, <4>2
    <3>4. QED
      BY <1>0, <3>1, <3>3 DEF PaidNothing
  <2>5. QED
    BY <2>3, <2>4
<1>2. CASE ~(Settles(w) /\ s = req[w].subject)
  <2>1. ASSUME NEW q \in PaymentIds, payments'[q].status = "Confirmed", payments'[q].user = s
        PROVE  payments[q].status = "Confirmed"
    <3> SUFFICES ASSUME payments[q].status # "Confirmed" PROVE FALSE
      OBVIOUS
    <3>1. Settles(w) /\ q = req[w].id
      BY <2>1, NewlyConfirmed
    <3>2. payments[q].status # "absent" /\ payments[q].user = req[w].subject
      BY <3>1, SettledBalance
    <3>3. QED
      BY <1>2, <2>1, <3>1, <3>2, PaymentStep DEF PaymentsKept
  <2>2. PaidNothing(s) => PaidNothing(s)'
    BY <2>1, PaymentStep DEF PaidNothing, PaymentsKept
  <2>3. users'[s].balance \in {users[s].balance, 0}
    <3>1. CASE users'[s] = users[s]
      BY <3>1
    <3>2. ASSUME NEW a \in Admins, NEW t \in Students, NEW rate \in Rates, CreateUser(w, a, t, rate)
          PROVE  users'[s] = users[s]
      BY <1>0, <3>2 DEF CreateUser, SInv, TypeOK
    <3>3. CASE DeleteSave(w)
      BY <1>0, <3>3, AccountDeleted DEF SaveBalance, Column
    <3>4. CASE Settles(w)
      BY <1>0, <1>2, <3>4, SettledBalance
    <3>5. CASE users' = users
      BY <3>5
    <3>6. QED
      BY <3>2, <3>3, <3>4, <3>5
         DEF Start, CreatePayment, BeginConfirm, WebhookLoadPayment, DeleteUser, Settles,
             Continue, AddCharge, AttachReference, ConfirmLoadPayment, ConfirmLoadUser,
             ConfirmLoadCharge, WebhookLoadUser, DeleteLoadCharges, Abort
  <2>4. QED
    BY <1>0, <2>2, <2>3
<1>3. QED
  BY <1>1, <1>2

(* Which queries a copy of a Balance comes from.                           *)
LEMMA EntersCopy ==
  ASSUME SInv, NEW v \in Workers, Start(v) \/ Continue(v),
         req'[v].stage \in {"confirm", "confirmUser", "confirmCharge", "confirmSave", "webhookSave"}
  PROVE  \/ \E a \in Accounts, p \in PaymentIds : BeginConfirm(v, a, p)
         \/ ConfirmLoadPayment(v) \/ ConfirmLoadUser(v) \/ ConfirmLoadCharge(v)
         \/ WebhookLoadUser(v)
<1>0. TypeOK
  BY DEF SInv
<1>1. ~Ends(v)
  BY <1>0, EndsEnded
<1>2. ASSUME NEW a \in Admins, NEW s \in Students, NEW rate \in Rates, CreateUser(v, a, s, rate)
      PROVE  FALSE
  BY <1>0, <1>2, UserCreated, EndedIsIdle
<1>3. ASSUME NEW a \in Accounts, NEW p \in PaymentIds, NEW c \in Students \cup {NoCharge},
             NEW amount \in Amounts, NEW method \in {"Manual", "MockGateway"},
             CreatePayment(v, a, p, c, amount, method)
      PROVE  FALSE
  BY <1>0, <1>3, PaymentCreated, EndedIsIdle
<1>4. ASSUME NEW p \in PaymentIds, WebhookLoadPayment(v, p) PROVE FALSE
  BY <1>0, <1>4, WebhookBegun
<1>5. ASSUME NEW a \in Admins, NEW u \in Accounts, DeleteUser(v, a, u) PROVE FALSE
  BY <1>0, <1>5, DeletionBegun
<1>6. ~DeleteLoadCharges(v)
  BY <1>0, ChargesLoaded
<1>7. QED
  BY <1>1, <1>2, <1>3, <1>4, <1>5, <1>6
     DEF Start, Continue, AddCharge, AttachReference, ConfirmSave, WebhookSave, DeleteSave, Abort

(* A copy is what is stored, or what the request held before.              *)
LEMMA ActorCopied ==
  ASSUME SInv, NEW v \in Workers, Start(v) \/ Continue(v), NEW s \in Students, HoldsActor(v, s)'
  PROVE  /\ users' = users
         /\ \/ users[s].status # "absent" /\ req'[v].authBalance = users[s].balance
            \/ HoldsActor(v, s) /\ req'[v].authBalance = req[v].authBalance
<1>0. TypeOK /\ req'[v].stage \in {"confirm", "confirmUser"} /\ req'[v].actor = s
  BY DEF SInv, HoldsActor
<1>1. ASSUME NEW a \in Accounts, NEW p \in PaymentIds, BeginConfirm(v, a, p)
      PROVE  /\ users' = users
             /\ users[s].status # "absent" /\ req'[v].authBalance = users[s].balance
  BY <1>0, <1>1, ConfirmBegun DEF BeginConfirm, Authenticated
<1>2. CASE ConfirmLoadPayment(v)
  BY <1>0, <1>2, PaymentLoaded, EndedIsIdle DEF ConfirmLoadPayment, HoldsActor
<1>3. ~ConfirmLoadUser(v)
  BY <1>0, UserLoaded, EndedIsIdle
<1>4. ~ConfirmLoadCharge(v)
  BY <1>0, ChargeLoaded
<1>5. ~WebhookLoadUser(v)
  BY <1>0, WebhookUserLoaded, EndedIsIdle
<1>6. QED
  BY <1>0, <1>1, <1>2, <1>3, <1>4, <1>5, EntersCopy

LEMMA OwnerCopied ==
  ASSUME SInv, NEW v \in Workers, Start(v) \/ Continue(v), NEW s \in Students, HoldsOwner(v, s)'
  PROVE  /\ users' = users
         /\ \/ req'[v].balance = users[s].balance
            \/ HoldsActor(v, s) /\ req'[v].balance = req[v].authBalance
            \/ HoldsOwner(v, s) /\ req'[v].balance = req[v].balance
<1>0. /\ TypeOK /\ req'[v].stage \in {"confirmCharge", "confirmSave", "webhookSave"}
      /\ req'[v].subject = s
  BY DEF SInv, HoldsOwner
<1>1. ASSUME NEW a \in Accounts, NEW p \in PaymentIds, BeginConfirm(v, a, p) PROVE FALSE
  BY <1>0, <1>1, ConfirmBegun
<1>2. ~ConfirmLoadPayment(v)
  BY <1>0, PaymentLoaded, EndedIsIdle
<1>3. CASE ConfirmLoadUser(v)
  <2>1. /\ users' = users /\ req[v].stage = "confirmUser" /\ req[v].subject = s
        /\ req'[v].balance = IF s = req[v].actor THEN req[v].authBalance ELSE users[s].balance
    BY <1>0, <1>3, UserLoaded, EndedIsIdle DEF ConfirmLoadUser
  <2>2. QED
    BY <2>1 DEF HoldsActor
<1>4. CASE ConfirmLoadCharge(v)
  BY <1>0, <1>4, ChargeLoaded DEF ConfirmLoadCharge, HoldsOwner
<1>5. CASE WebhookLoadUser(v)
  BY <1>0, <1>5, WebhookUserLoaded, EndedIsIdle DEF WebhookLoadUser
<1>6. QED
  BY <1>0, <1>1, <1>2, <1>3, <1>4, <1>5, EntersCopy

LEMMA UsersStay ==
  ASSUME SInv, [Next]_vars, NEW u \in Accounts, users[u].status # "absent"
  PROVE  users'[u].status # "absent"
<1>1. ASSUME NEW w \in Workers, NEW a \in Admins, NEW rate \in Rates, CreateUser(w, a, u, rate)
      PROVE  FALSE
  BY <1>1 DEF CreateUser
<1>2. QED
  BY <1>1, UserStep, AccountDeleted

LEMMA NobodyUnknownNext ==
  ASSUME SInv, NobodyUnknown, [Next]_vars
  PROVE  NobodyUnknown'
<1>1. ASSUME NEW p \in PaymentIds, payments'[p].status # "absent"
      PROVE  users'[payments'[p].user].status # "absent"
  <2>1. CASE payments[p].status # "absent"
    BY <2>1, PaymentStep, UsersStay DEF PaymentsKept, NobodyUnknown, SInv, RowsOK
  <2>2. CASE payments[p].status = "absent"
    <3>1. ASSUME NEW w \in Workers, NEW a \in Accounts, NEW q \in PaymentIds,
                 NEW c \in Students \cup {NoCharge}, NEW amount \in Amounts,
                 NEW method \in {"Manual", "MockGateway"},
                 CreatePayment(w, a, q, c, amount, method)
          PROVE  users'[payments'[p].user].status # "absent"
      <4>1. p = q /\ payments'[p].user = a
        BY <1>1, <2>2, <3>1, PaymentCreated DEF SInv
      <4>2. QED
        BY <3>1, <4>1 DEF CreatePayment, Authenticated
    <3>2. ASSUME NEW w \in Workers, AttachReference(w) PROVE FALSE
      BY <1>1, <2>2, <3>2, ReferenceOnly
    <3>3. ASSUME NEW w \in Workers, ConfirmSave(w) \/ WebhookSave(w) PROVE FALSE
      BY <1>1, <2>2, <3>3, RequestFields, Confirms DEF ConfirmSave, WebhookSave, SInv
    <3>4. QED
      BY <1>1, <2>2, <3>1, <3>2, <3>3, PaymentWriters
  <2>3. QED
    BY <2>1, <2>2
<1>2. ASSUME NEW v \in Workers, NEW s \in Students, HoldsActor(v, s)'
      PROVE  users'[s].status # "absent"
  <2>1. CASE req'[v] = req[v]
    BY <1>2, <2>1, UsersStay DEF NobodyUnknown, HoldsActor, Accounts
  <2>2. CASE req'[v] # req[v]
    BY <1>2, <2>2, OwnStep, ActorCopied DEF NobodyUnknown
  <2>3. QED
    BY <2>1, <2>2
<1>3. QED
  BY <1>1, <1>2 DEF NobodyUnknown

(* An account just created has the Balance charged, and no copy of it and  *)
(* no payment of the student exist yet.                                    *)
LEMMA SinksFirst ==
  ASSUME SInv, NobodyUnknown, NEW s \in Students, NEW r \in Rates, r > 0,
         NEW w \in Workers, NEW a \in Admins, CreateUser(w, a, s, r)
  PROVE  Sinks(s, r)'
<1>1. /\ users[s].status = "absent" /\ users'[s].balance = r /\ r \in Nat
      /\ UNCHANGED <<charges, payments>>
  BY RatesAreNaturals DEF CreateUser, InitialBalance, SInv, TypeOK, Accounts
<1>2. PaidNothing(s)'
  BY <1>1 DEF NobodyUnknown, PaidNothing
<1>3. Start(w) /\ req'[w].stage \in {"idle", "addCharge"}
  BY <1>1, UserCreated, EndedIsIdle DEF SInv, Start
<1>4. \A v \in Workers : ~HoldsActor(v, s)
  BY <1>1 DEF NobodyUnknown
<1>5. \A v \in Workers : ~HoldsOwner(v, s)
  BY <1>1 DEF NobodyUnknown, HoldsOwner, SInv, StageOK, PaymentStages, OwnerStages
<1>6. \A v \in Workers : ~HoldsActor(v, s)' /\ ~HoldsOwner(v, s)'
  BY <1>3, <1>4, <1>5, OthersStay DEF HoldsActor, HoldsOwner
<1>7. QED
  BY <1>1, <1>2, <1>6 DEF Sinks

LEMMA SinksNext ==
  ASSUME SInv, LifeInv, BInv, [Next]_vars, NEW s \in Students, NEW r \in Nat
  PROVE  Sinks(s, r)'
<1>1. CASE UNCHANGED vars
  BY <1>1 DEF BInv, Sinks, Charged, Adds, PaidNothing, HoldsActor, HoldsOwner, Copy, vars
<1>2. ASSUME NEW w \in Workers, Start(w) \/ Continue(w) PROVE Sinks(s, r)'
  <2> SUFFICES ASSUME Charged(s, r)' PROVE Sinks(s, r)'
    BY DEF Sinks
  <2>1. CASE Charged(s, r)
    <3>1. Sinks(s, r) /\ r \in Nat \ {0}
      BY <2>1 DEF BInv, Sinks
    <3>2. /\ users'[s].balance <= r
          /\ users[s].balance < r => users'[s].balance < r
          /\ users'[s].balance = r => PaidNothing(s)'
      BY <1>2, <2>1, <3>1, BalanceSinks
    <3>3. /\ \A c : Copy(s, r, c) => Copy(s, r, c)'
          /\ Copy(s, r, users[s].balance)
      BY <2>1, <3>1, <3>2 DEF Copy, Sinks
    <3>4. ASSUME NEW v \in Workers, HoldsActor(v, s)' PROVE Copy(s, r, req[v].authBalance)'
      <4>1. CASE req'[v] = req[v]
        <5> PICK c : c = req[v].authBalance
          OBVIOUS
        <5>1. Copy(s, r, c)'
          BY <2>1, <3>1, <3>3, <3>4, <4>1 DEF Sinks, HoldsActor
        <5>2. QED
          BY <4>1, <5>1 DEF Copy
      <4>2. CASE req'[v] # req[v]
        BY <2>1, <3>1, <3>3, <3>4, <4>2, OwnStep, ActorCopied DEF Sinks, Copy
      <4>3. QED
        BY <4>1, <4>2
    <3>5. ASSUME NEW v \in Workers, HoldsOwner(v, s)' PROVE Copy(s, r, req[v].balance)'
      <4>1. CASE req'[v] = req[v]
        <5> PICK c : c = req[v].balance
          OBVIOUS
        <5>1. Copy(s, r, c)'
          BY <2>1, <3>1, <3>3, <3>5, <4>1 DEF Sinks, HoldsOwner
        <5>2. QED
          BY <4>1, <5>1 DEF Copy
      <4>2. CASE req'[v] # req[v]
        BY <2>1, <3>1, <3>3, <3>5, <4>2, OwnStep, OwnerCopied DEF Sinks, Copy
      <4>3. QED
        BY <4>1, <4>2
    <3>6. QED
      BY <3>1, <3>2, <3>4, <3>5 DEF Sinks
  <2>2. CASE ~Charged(s, r)
    BY <2>2, ChargedStep, SinksFirst DEF BInv
  <2>3. QED
    BY <2>1, <2>2
<1>3. QED
  BY <1>1, <1>2 DEF Next

(* The Balance of a student with an active charge never exceeds the        *)
(* charge, and after a payment of theirs is confirmed stays below it,      *)
(* whatever copies of it racing requests hold.                             *)
THEOREM BalanceStaysLowered == Spec => []BalanceIsLowered
<1>1. Init => BInv
  BY DEF Init, BInv, NobodyUnknown, Sinks, Charged, Adds, HoldsActor, AbsentPayment, AbsentCharge,
         Idle
<1>2. SInv /\ LifeInv /\ BInv /\ [Next]_vars => BInv'
  BY SinksNext, NobodyUnknownNext DEF BInv
<1>3. SInv /\ BInv => BalanceIsLowered
  <2> SUFFICES ASSUME SInv, BInv, NEW s \in Students, charges[s].status = "active"
               PROVE  /\ users[s].balance <= charges[s].amount
                      /\ users[s].balance = charges[s].amount => PaidNothing(s)
    BY DEF BalanceIsLowered, PaidNothing
  <2>1. charges[s].amount \in Nat /\ Charged(s, charges[s].amount)
    BY DEF SInv, TypeOK, ChargeRow, Charged
  <2>2. QED
    BY <2>1 DEF BInv, Sinks
<1>4. QED
  BY <1>1, <1>2, <1>3, StructuralInvariant, LifeInvariant, PTL DEF Spec
=============================================================================
