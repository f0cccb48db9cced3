------------------------------- MODULE Billing -------------------------------
(***************************************************************************)
(* Students' debts and their payments: PaymentService, the parts of        *)
(* UserService that touch money, and the entities StudentCharge and        *)
(* Payment.                                                                *)
(*                                                                         *)
(* The database runs at READ COMMITTED and no entity carries a concurrency *)
(* token, so requests interleave at every awaited query.  A request reads  *)
(* rows into its own DbContext and SaveChangesAsync writes back, in one    *)
(* transaction, the columns whose value differs from the one it read.      *)
(* A worker is one request in flight; a service with a single worker       *)
(* serves the requests one after the other.                                *)
(*                                                                         *)
(* CreateUserAsync creates at most one charge per student and nothing else *)
(* creates charges while the service runs, so a charge is named by its     *)
(* student.                                                                *)
(*                                                                         *)
(* Op_Fault is a wrong variant of the operator Op that follows it: the     *)
(* project's mutants put it in Op's place to show which property notices.  *)
(***************************************************************************)
EXTENDS Integers, FiniteSets

CONSTANTS
  Students,    \* accounts with the role Student, existing or yet to be created
  Staff,       \* accounts with the role Accountant or Admin
  Admins,      \* the members of Staff with the role Admin
  PaymentIds,  \* identities of payments; bounds how many are ever created
  Workers,     \* requests that may be in flight at once
  Rates,       \* monthly rates of rooms; 0 stands for a student with no room
  Amounts,     \* amounts a payment may have, as its column stores them
  NoAccount,   \* the null of a user reference
  NoCharge,    \* the null of Payment.ChargeId
  NoPayment    \* no payment is being handled

ASSUME RatesAreNaturals == Rates \subseteq Nat
(* CreatePaymentRequestValidator admits positive amounts only; the column, *)
(* decimal(18,2), stores as 0 an amount below half a cent.                 *)
ASSUME AmountsAreNaturals == Amounts \subseteq Nat
(* A server has so many threads and connections.                           *)
ASSUME WorkersAreFinite == IsFiniteSet(Workers)
ASSUME RolesAreExclusive == Students \cap Staff = {} /\ Admins \subseteq Staff
ASSUME NullsAreNotRows ==
  /\ NoAccount \notin Students \cup Staff
  /\ NoCharge \notin Students
  /\ NoPayment \notin PaymentIds

VARIABLES
  users,     \* table users: IsActive and Balance of every account
  charges,   \* table student_charges, by student
  payments,  \* table payments
  req        \* the request each worker is serving, with the rows it tracks

vars == <<users, charges, payments, req>>

Accounts == Students \cup Staff

-----------------------------------------------------------------------------
(* Rows.                                                                   *)

UserRow == [status : {"absent", "active", "deleted"}, balance : Nat]

ChargeRow == [status : {"absent", "active", "deleted"},
              amount : Nat, paid : Nat, settled : BOOLEAN]

PaymentRow == [status    : {"absent", "Pending", "Confirmed"},
               user      : Accounts \cup {NoAccount},
               charge    : Students \cup {NoCharge},
               amount    : Nat,
               method    : {"Manual", "MockGateway"},
               reference : BOOLEAN,  \* ProviderReference is set
               updatedBy : Accounts \cup {NoAccount}]

AbsentCharge == [status |-> "absent", amount |-> 0, paid |-> 0, settled |-> FALSE]

AbsentPayment == [status |-> "absent", user |-> NoAccount, charge |-> NoCharge,
                  amount |-> 0, method |-> "Manual", reference |-> FALSE,
                  updatedBy |-> NoAccount]

Stages == {"idle", "addCharge", "attachReference",
           "confirm", "confirmUser", "confirmCharge", "confirmSave",
           "webhookUser", "webhookSave", "deleteCharges", "deleteSave"}

Request == [stage   : Stages,
            actor   : Accounts \cup {NoAccount},    \* the authenticated user
            id      : PaymentIds \cup {NoPayment},  \* the payment handled
            subject : Accounts \cup {NoAccount},    \* the user created, deleted or credited
            authBalance : Nat,     \* the actor's Balance as authentication loaded it
            balance : Nat,         \* the subject's Balance as tracked
            charge  : ChargeRow,   \* the subject's charge as tracked
            payment : PaymentRow]  \* the payment as tracked

Idle == [stage |-> "idle", actor |-> NoAccount, id |-> NoPayment,
         subject |-> NoAccount, authBalance |-> 0, balance |-> 0,
         charge |-> AbsentCharge, payment |-> AbsentPayment]

TypeOK ==
  /\ users \in [Accounts -> UserRow]
  /\ charges \in [Students -> ChargeRow]
  /\ payments \in [PaymentIds -> PaymentRow]
  /\ req \in [Workers -> Request]

(* Staff accounts are seeded with no debt.                                 *)
Init ==
  /\ users = [u \in Accounts |-> [status |-> IF u \in Staff THEN "active" ELSE "absent",
                                  balance |-> 0]]
  /\ charges = [s \in Students |-> AbsentCharge]
  /\ payments = [p \in PaymentIds |-> AbsentPayment]
  /\ req = [w \in Workers |-> Idle]

-----------------------------------------------------------------------------
(* What SaveChangesAsync writes to a column: nothing unless the tracked    *)
(* value was modified.                                                     *)
Column_WholeRow(stored, loaded, new) == new
Column(stored, loaded, new) == IF new = loaded THEN stored ELSE new

PaymentColumns(stored, loaded, new) ==
  [stored EXCEPT !.status    = Column(@, loaded.status, new.status),
                 !.reference = Column(@, loaded.reference, new.reference),
                 !.updatedBy = Column(@, loaded.updatedBy, new.updatedBy)]

ChargeColumns(stored, loaded, new) ==
  [stored EXCEPT !.status  = Column(@, loaded.status, new.status),
                 !.paid    = Column(@, loaded.paid, new.paid),
                 !.settled = Column(@, loaded.settled, new.settled)]

SaveBalance(u, loaded, new) == Column(users[u].balance, loaded, new)

-----------------------------------------------------------------------------
(* Domain rules.                                                           *)

(* Math.Max(0m, user.Balance - payment.Amount)                             *)
Reduced_Unclamped(balance, amount) == balance - amount
Reduced(balance, amount) == IF amount <= balance THEN balance - amount ELSE 0

(* StudentCharge.ApplyPayment                                              *)
ApplyPayment_FlagKept(charge, amount) == [charge EXCEPT !.paid = @ + amount]
Covers(paid, amount) == paid >= amount
ApplyPayment(charge, amount) ==
  [charge EXCEPT !.paid    = @ + amount,
                 !.settled = Covers(charge.paid + amount, charge.amount)]

(* Payment.Confirm                                                         *)
Confirm_StatusLost(payment, by) == [payment EXCEPT !.updatedBy = by]
Confirm(payment, by) == [payment EXCEPT !.status = "Confirmed", !.updatedBy = by]

(* PaymentService.EnsureCanConfirmPayment                                  *)
CanConfirm_AnyMethod(a, payment) == a \in Staff \/ payment.user = a
CanConfirm(a, payment) ==
  \/ a \in Staff
  \/ a \in Students /\ payment.user = a /\ payment.method = "MockGateway"

(* UserService.GetEffectiveDebtAmount: the outstanding part of the active  *)
(* charge, or the stored Balance when there is no active charge.           *)
EffectiveDebt(s) ==
  IF charges[s].status = "active"
  THEN Reduced(charges[s].amount, charges[s].paid)
  ELSE users[s].balance

(* FirstOrDefaultAsync under the query filter IsActive.                    *)
Find(charge) == IF charge.status = "active" THEN charge ELSE AbsentCharge

-----------------------------------------------------------------------------
(* Requests.  Authenticated(a) is what OnTokenValidated requires of the    *)
(* account: its row is active.                                             *)
Authenticated(a) == users[a].status = "active"

Becomes(w, r) == req' = [req EXCEPT ![w] = r]
Ends(w) == Becomes(w, Idle)

(* CreateUserAsync up to its first SaveChangesAsync: the row of a new      *)
(* student, whose Balance is the rate of the room.                         *)
InitialBalance_ChargeOnly(rate) == 0
InitialBalance(rate) == rate

CreateUser(w, a, s, rate) ==
  /\ req[w].stage = "idle"
  /\ a \in Admins /\ Authenticated(a)
  /\ users[s].status = "absent"
  /\ users' = [users EXCEPT ![s] = [status |-> "active", balance |-> InitialBalance(rate)]]
  /\ Becomes(w, IF rate > 0
                THEN [Idle EXCEPT !.stage = "addCharge", !.actor = a,
                                  !.subject = s, !.balance = rate]
                ELSE Idle)
  /\ UNCHANGED <<charges, payments>>

(* Its second SaveChangesAsync: the first charge.                          *)
AddCharge(w) ==
  /\ req[w].stage = "addCharge"
  /\ charges' = [charges EXCEPT ![req[w].subject] =
       [status |-> "active", amount |-> req[w].balance, paid |-> 0, settled |-> FALSE]]
  /\ Ends(w)
  /\ UNCHANGED <<users, payments>>

(* CreatePaymentAsync up to its first SaveChangesAsync.  The payment       *)
(* belongs to whoever creates it; the foreign key requires the charge, if  *)
(* one is given, to exist.                                                 *)
CreatePayment(w, a, p, c, amount, method) ==
  /\ req[w].stage = "idle"
  /\ Authenticated(a)
  /\ payments[p].status = "absent"
  /\ c \in Students => charges[c].status # "absent"
  /\ LET row == [AbsentPayment EXCEPT !.status = "Pending", !.user = a, !.charge = c,
                                      !.amount = amount, !.method = method]
     IN  /\ payments' = [payments EXCEPT ![p] = row]
         /\ Becomes(w, IF method = "MockGateway"
                       THEN [Idle EXCEPT !.stage = "attachReference", !.actor = a,
                                         !.id = p, !.payment = row]
                       ELSE Idle)
  /\ UNCHANGED <<users, charges>>

(* Its second SaveChangesAsync: the reference the provider returned.       *)
AttachReference(w) ==
  /\ req[w].stage = "attachReference"
  /\ LET p     == req[w].id
         new   == [req[w].payment EXCEPT !.reference = TRUE, !.updatedBy = req[w].actor]
     IN  payments' = [payments EXCEPT ![p] = PaymentColumns(@, req[w].payment, new)]
  /\ Ends(w)
  /\ UNCHANGED <<users, charges>>

(* ConfirmPaymentAsync.  Authentication has already loaded the actor's own *)
(* row: the context returns that copy, however old, to every later query   *)
(* for the same user.                                                      *)
BeginConfirm(w, a, p) ==
  /\ req[w].stage = "idle"
  /\ Authenticated(a)
  /\ payments[p].status # "absent"
  /\ Becomes(w, [Idle EXCEPT !.stage = "confirm", !.actor = a, !.id = p,
                             !.authBalance = users[a].balance])
  /\ UNCHANGED <<users, charges, payments>>

StillPending_Unchecked(payment) == TRUE
StillPending(payment) == payment.status # "Confirmed"

(* The payment is loaded; EnsureCanConfirmPayment may refuse, and a        *)
(* payment already Confirmed is answered as it is.                         *)
ConfirmLoadPayment(w) ==
  /\ req[w].stage = "confirm"
  /\ LET row == payments[req[w].id]
     IN  Becomes(w, IF CanConfirm(req[w].actor, row) /\ StillPending(row)
                    THEN [req[w] EXCEPT !.stage = "confirmUser", !.payment = row,
                                        !.subject = row.user]
                    ELSE Idle)
  /\ UNCHANGED <<users, charges, payments>>

(* FirstAsync throws when the owner was deleted meanwhile.                 *)
ConfirmLoadUser(w) ==
  /\ req[w].stage = "confirmUser"
  /\ LET u == req[w].subject
     IN  Becomes(w, IF users[u].status = "active"
                    THEN [req[w] EXCEPT !.stage = "confirmCharge",
                                        !.balance = IF u = req[w].actor
                                                    THEN req[w].authBalance
                                                    ELSE users[u].balance]
                    ELSE Idle)
  /\ UNCHANGED <<users, charges, payments>>

ConfirmLoadCharge(w) ==
  /\ req[w].stage = "confirmCharge"
  /\ LET c == req[w].payment.charge
     IN  Becomes(w, [req[w] EXCEPT !.stage = "confirmSave",
                                   !.charge = IF c \in Students THEN Find(charges[c])
                                                                ELSE AbsentCharge])
  /\ UNCHANGED <<users, charges, payments>>

(* Payment, owner and charge are saved in one transaction.                 *)
ConfirmSave_PaymentOnly(w) ==
  /\ req[w].stage = "confirmSave"
  /\ LET p == req[w].id
         u == req[w].subject
     IN  /\ payments' = [payments EXCEPT ![p] = PaymentColumns(@, req[w].payment,
                           Confirm(req[w].payment, req[w].actor))]
         /\ users' = [users EXCEPT ![u].balance = SaveBalance(u, req[w].balance,
                           Reduced(req[w].balance, req[w].payment.amount))]
  /\ Ends(w)
  /\ UNCHANGED charges
ConfirmSave(w) ==
  /\ req[w].stage = "confirmSave"
  /\ LET p == req[w].id
         u == req[w].subject
         c == req[w].payment.charge
         amount == req[w].payment.amount
     IN  /\ payments' = [payments EXCEPT ![p] = PaymentColumns(@, req[w].payment,
                           Confirm(req[w].payment, req[w].actor))]
         /\ users' = [users EXCEPT ![u].balance = SaveBalance(u, req[w].balance,
                           Reduced(req[w].balance, amount))]
         /\ charges' = IF req[w].charge.status = "active"
                       THEN [charges EXCEPT ![c] = ChargeColumns(@, req[w].charge,
                              ApplyPayment(req[w].charge, amount))]
                       ELSE charges
  /\ Ends(w)

(* HandleWebhookAsync: no actor, and no charge is loaded.                  *)
WebhookLoadPayment(w, p) ==
  /\ req[w].stage = "idle"
  /\ payments[p].status = "Pending"
  /\ Becomes(w, [Idle EXCEPT !.stage = "webhookUser", !.id = p,
                             !.payment = payments[p], !.subject = payments[p].user])
  /\ UNCHANGED <<users, charges, payments>>

WebhookLoadUser(w) ==
  /\ req[w].stage = "webhookUser"
  /\ LET u == req[w].subject
     IN  Becomes(w, IF users[u].status = "active"
                    THEN [req[w] EXCEPT !.stage = "webhookSave",
                                        !.balance = users[u].balance]
                    ELSE Idle)
  /\ UNCHANGED <<users, charges, payments>>

WebhookSave_PaymentOnly(w) ==
  /\ req[w].stage = "webhookSave"
  /\ payments' = [payments EXCEPT ![req[w].id] = PaymentColumns(@, req[w].payment,
                     Confirm(req[w].payment, NoAccount))]
  /\ Ends(w)
  /\ UNCHANGED <<users, charges>>
WebhookSave(w) ==
  /\ req[w].stage = "webhookSave"
  /\ LET p == req[w].id
         u == req[w].subject
     IN  /\ payments' = [payments EXCEPT ![p] = PaymentColumns(@, req[w].payment,
                           Confirm(req[w].payment, NoAccount))]
         /\ users' = [users EXCEPT ![u].balance = SaveBalance(u, req[w].balance,
                           Reduced(req[w].balance, req[w].payment.amount))]
  /\ Ends(w)
  /\ UNCHANGED charges

(* DeleteUserAsync: the account, then its active charges, then one save.   *)
DeleteUser(w, a, u) ==
  /\ req[w].stage = "idle"
  /\ a \in Admins /\ Authenticated(a)
  /\ u # a
  /\ users[u].status = "active"
  /\ Becomes(w, [Idle EXCEPT !.stage = "deleteCharges", !.actor = a, !.subject = u,
                             !.balance = users[u].balance])
  /\ UNCHANGED <<users, charges, payments>>

DeleteLoadCharges(w) ==
  /\ req[w].stage = "deleteCharges"
  /\ LET u == req[w].subject
     IN  Becomes(w, [req[w] EXCEPT !.stage = "deleteSave",
                                   !.charge = IF u \in Students THEN Find(charges[u])
                                                                ELSE AbsentCharge])
  /\ UNCHANGED <<users, charges, payments>>

SoftDeleted_ChargeKept(charge) == charge
SoftDeleted(charge) == [charge EXCEPT !.status = "deleted"]

DeleteSave(w) ==
  /\ req[w].stage = "deleteSave"
  /\ LET u == req[w].subject
     IN  /\ users' = [users EXCEPT ![u] =
                        [status |-> "deleted", balance |-> SaveBalance(u, req[w].balance, 0)]]
         /\ charges' = IF req[w].charge.status = "active"
                       THEN [charges EXCEPT ![u] = ChargeColumns(@, req[w].charge,
                              SoftDeleted(req[w].charge))]
                       ELSE charges
  /\ Ends(w)
  /\ UNCHANGED payments

(* The client disconnects, so the token every query takes is cancelled, or *)
(* the process stops: what was saved stays saved, the rest never happens.  *)
Abort(w) ==
  /\ req[w].stage # "idle"
  /\ Ends(w)
  /\ UNCHANGED <<users, charges, payments>>

-----------------------------------------------------------------------------
Start(w) ==
  \/ \E a \in Admins, s \in Students, rate \in Rates : CreateUser(w, a, s, rate)
  \/ \E a \in Accounts, p \in PaymentIds, c \in Students \cup {NoCharge},
        amount \in Amounts, method \in {"Manual", "MockGateway"} :
       CreatePayment(w, a, p, c, amount, method)
  \/ \E a \in Accounts, p \in PaymentIds : BeginConfirm(w, a, p)
  \/ \E p \in PaymentIds : WebhookLoadPayment(w, p)
  \/ \E a \in Admins, u \in Accounts : DeleteUser(w, a, u)

Continue(w) ==
  \/ AddCharge(w)
  \/ AttachReference(w)
  \/ ConfirmLoadPayment(w)
  \/ ConfirmLoadUser(w)
  \/ ConfirmLoadCharge(w)
  \/ ConfirmSave(w)
  \/ WebhookLoadUser(w)
  \/ WebhookSave(w)
  \/ DeleteLoadCharges(w)
  \/ DeleteSave(w)
  \/ Abort(w)

Next == \E w \in Workers : Start(w) \/ Continue(w)

Spec == Init /\ [][Next]_vars

-----------------------------------------------------------------------------
(* Properties that hold however many requests are in flight.               *)

Touches(s, payment) == payment.user = s \/ payment.charge = s

(* A confirmed payment is final: whatever the requests in flight when it   *)
(* was confirmed still write (another confirmation, the provider reference *)
(* of CreatePaymentAsync), they never reopen it nor alter what was paid.   *)
ConfirmedIsFinal ==
  [][\A p \in PaymentIds :
       payments[p].status = "Confirmed" =>
         /\ payments'[p].status = "Confirmed"
         /\ payments'[p].user = payments[p].user
         /\ payments'[p].charge = payments[p].charge
         /\ payments'[p].amount = payments[p].amount]_vars

(* Nothing is credited without a confirmed payment: a charge with a paid   *)
(* amount, or marked settled, has one.                                     *)
CreditHasEvidence ==
  \A c \in Students :
    charges[c].paid > 0 \/ charges[c].settled =>
      \E p \in PaymentIds : payments[p].status = "Confirmed" /\ payments[p].charge = c

(* ConfirmPaymentAsync saves the payment and its charge together: a manual *)
(* payment that staff confirmed while its charge was active has left its   *)
(* mark on the charge, even if a concurrent confirmation overwrote part of *)
(* the sum.                                                                *)
ConfirmedIsCredited ==
  \A p \in PaymentIds, c \in Students :
       /\ payments[p].status = "Confirmed"
       /\ payments[p].method = "Manual"
       /\ payments[p].updatedBy \in Staff
       /\ payments[p].charge = c
       /\ payments[p].amount > 0
       /\ charges[c].status = "active"
    => charges[c].paid > 0

(* What a set of payments is worth: the number of units in their amounts.  *)
Units(ps) == UNION {{p} \X (1..payments[p].amount) : p \in ps}
Worth(ps) == Cardinality(Units(ps))

ConfirmedOn(c) ==
  {p \in PaymentIds : payments[p].status = "Confirmed" /\ payments[p].charge = c}

(* A payment is credited at most once per request that was in flight when  *)
(* it was confirmed, however the requests interleave.                      *)
CreditIsBounded ==
  \A c \in Students : charges[c].paid <= Cardinality(Workers) * Worth(ConfirmedOn(c))

(* A payment made outside the gateway is confirmed by staff (or by the     *)
(* provider's webhook, which leaves no account), never by a student.       *)
ManualConfirmedByStaff ==
  \A p \in PaymentIds :
    payments[p].status = "Confirmed" /\ payments[p].method = "Manual"
      => payments[p].updatedBy \in Staff \cup {NoAccount}

(* Nobody comes back: whatever requests still write to a row they loaded   *)
(* before DeleteUserAsync saved, the account stays deleted and its charge  *)
(* closed.                                                                 *)
DeletedStaysDeleted ==
  [][/\ \A u \in Accounts : users[u].status = "deleted" => users'[u].status = "deleted"
     /\ \A c \in Students : charges[c].status = "deleted" => charges'[c].status = "deleted"]_vars

(* A student who confirms a payment of their own works on the Balance that *)
(* authentication loaded, and racing requests write the Balance from what  *)
(* each of them loaded.  However old these copies are, the Balance never   *)
(* exceeds what was charged at admission, and once a payment of the        *)
(* student is confirmed never gets back to it.                             *)
BalanceIsLowered ==
  \A s \in Students :
    charges[s].status = "active" =>
      /\ users[s].balance <= charges[s].amount
      /\ users[s].balance = charges[s].amount =>
           \A p \in PaymentIds : payments[p].status = "Confirmed" /\ payments[p].user = s
                                   => payments[p].amount = 0

-----------------------------------------------------------------------------
(* Properties of a service that serves one request at a time.              *)

(* IsSettled says of an active charge whether it is paid in full.          *)
SettledIsExact ==
  \A c \in Students :
    charges[c].status = "active" =>
      (charges[c].settled <=> charges[c].paid >= charges[c].amount)

(* An active charge has received the amount of every payment confirmed on  *)
(* it by ConfirmPaymentAsync, exactly once; those the webhook confirmed    *)
(* (they leave no account in UpdatedBy) are not counted.                   *)
CreditedOn(c) == {p \in ConfirmedOn(c) : payments[p].updatedBy # NoAccount}

PaidIsExact ==
  \A c \in Students : charges[c].status = "active" => charges[c].paid = Worth(CreditedOn(c))

(* A deleted account owes nothing: its Balance is zero and no charge of it *)
(* is left active.                                                         *)
DeletedOwesNothing ==
  \A u \in Accounts :
    users[u].status = "deleted" =>
      /\ users[u].balance = 0
      /\ u \in Students => charges[u].status # "active"

(* The debt shown for a resident changes only in a step that confirms a    *)
(* payment of theirs, or on their charge, and then by what was paid.  In   *)
(* particular it is the same before the second save of CreateUserAsync,    *)
(* after it, and when that save never happens.                             *)
DebtMovesByPayment ==
  [][\A s \in Students :
          /\ users[s].status = "active"
          /\ users'[s].status = "active"
          /\ EffectiveDebt(s)' # EffectiveDebt(s)
       => \E p \in PaymentIds :
            /\ payments[p].status = "Pending" /\ payments'[p].status = "Confirmed"
            /\ Touches(s, payments[p])
            /\ EffectiveDebt(s)' = Reduced(EffectiveDebt(s), payments[p].amount)]_vars

(* No request but CreateUserAsync makes anybody's debt grow.               *)
DebtNeverGrows ==
  [][\A s \in Students :
       users[s].status = "active" => EffectiveDebt(s)' <= EffectiveDebt(s)]_vars

-----------------------------------------------------------------------------
(* What the Ledger sees of the tables: everything but the requests in      *)
(* flight and the columns that carry no money.  A payment that the webhook *)
(* confirmed has no account in UpdatedBy.                                  *)
LedgerPayments ==
  [p \in PaymentIds |-> [status    |-> payments[p].status,
                         user      |-> payments[p].user,
                         charge    |-> payments[p].charge,
                         amount    |-> payments[p].amount,
                         byWebhook |-> payments[p].status = "Confirmed"
                                         /\ payments[p].updatedBy = NoAccount]]

L == INSTANCE Ledger WITH payments <- LedgerPayments

(* Served one at a time, requests implement the Ledger: each confirmation  *)
(* takes effect once and in full, whatever was retried or cut short.       *)
ImplementsLedger == L!Spec
=============================================================================
