------------------------------- MODULE Ledger -------------------------------
(***************************************************************************)
(* What Billing promises, with no requests in it: accounts, one charge per *)
(* student, and payments, each step one operation completed in full.  A    *)
(* payment goes from Pending to Confirmed once, and that step alone moves  *)
(* money: its amount is added to the charge and taken off the owner's      *)
(* Balance.                                                                *)
(***************************************************************************)
EXTENDS Integers

CONSTANTS Students, Staff, PaymentIds, Rates, Amounts, NoAccount, NoCharge

VARIABLES
  users,    \* [status, balance] of every account
  charges,  \* [status, amount, paid, settled] of every student's charge
  payments  \* [status, user, charge, amount, byWebhook] of every payment

ledger == <<users, charges, payments>>

Accounts == Students \cup Staff

Unpaid(balance, amount) == IF amount <= balance THEN balance - amount ELSE 0

Init ==
  /\ users = [u \in Accounts |-> [status |-> IF u \in Staff THEN "active" ELSE "absent",
                                  balance |-> 0]]
  /\ charges = [s \in Students |->
       [status |-> "absent", amount |-> 0, paid |-> 0, settled |-> FALSE]]
  /\ payments = [p \in PaymentIds |->
       [status |-> "absent", user |-> NoAccount, charge |-> NoCharge, amount |-> 0,
        byWebhook |-> FALSE]]

(* A student moves in owing the rate of the room.                          *)
Open(s, rate) ==
  /\ users[s].status = "absent"
  /\ users' = [users EXCEPT ![s] = [status |-> "active", balance |-> rate]]
  /\ UNCHANGED <<charges, payments>>

(* The first charge is for what the new student owes.                      *)
Bill(s) ==
  /\ users[s].status = "active" /\ users[s].balance > 0
  /\ charges[s].status = "absent"
  /\ charges' = [charges EXCEPT ![s] =
       [status |-> "active", amount |-> users[s].balance, paid |-> 0, settled |-> FALSE]]
  /\ UNCHANGED <<users, payments>>

Pay(p, u, c, amount) ==
  /\ users[u].status = "active"
  /\ payments[p].status = "absent"
  /\ payments' = [payments EXCEPT ![p] =
       [status |-> "Pending", user |-> u, charge |-> c, amount |-> amount, byWebhook |-> FALSE]]
  /\ UNCHANGED <<users, charges>>

(* The one step that moves money; byWebhook leaves the charge alone.       *)
Settle(p, byWebhook) ==
  LET u == payments[p].user
      c == payments[p].charge
      amount == payments[p].amount
  IN  /\ payments[p].status = "Pending"
      /\ users[u].status = "active"
      /\ payments' = [payments EXCEPT ![p].status = "Confirmed", ![p].byWebhook = byWebhook]
      /\ users' = [users EXCEPT ![u].balance = Unpaid(@, amount)]
      /\ charges' =
           IF ~byWebhook /\ c \in Students /\ charges[c].status = "active"
           THEN [charges EXCEPT ![c].paid = @ + amount,
                                ![c].settled = charges[c].paid + amount >= charges[c].amount]
           ELSE charges

(* A resident leaves and owes nothing any more.                            *)
Close(u) ==
  /\ users[u].status = "active"
  /\ users' = [users EXCEPT ![u] = [status |-> "deleted", balance |-> 0]]
  /\ charges' = IF u \in Students /\ charges[u].status = "active"
                THEN [charges EXCEPT ![u].status = "deleted"]
                ELSE charges
  /\ UNCHANGED payments

Next ==
  \/ \E s \in Students, rate \in Rates : Open(s, rate)
  \/ \E s \in Students : Bill(s)
  \/ \E p \in PaymentIds, u \in Accounts, c \in Students \cup {NoCharge}, amount \in Amounts :
       Pay(p, u, c, amount)
  \/ \E p \in PaymentIds, byWebhook \in BOOLEAN : Settle(p, byWebhook)
  \/ \E u \in Accounts : Close(u)

Spec == Init /\ [][Next]_ledger
=============================================================================
