---------------------------- MODULE LedgerProofs ----------------------------
(***************************************************************************)
(* Theorems about Billing when no request saves a row under the copy that  *)
(* another request in flight has of it, for every value of the constants:  *)
(* the service then implements the Ledger.  Requests served one at a time  *)
(* are such a service; so are any number of requests whose rows do not     *)
(* overlap, and so would be one that refuses a save from an outdated copy. *)
(***************************************************************************)
EXTENDS BillingProofs

(***************************************************************************)
(* What the request in flight loaded is what the tables hold.              *)
(***************************************************************************)
WithPayment == {"attachReference", "confirmUser", "confirmCharge", "confirmSave",
                 "webhookUser", "webhookSave"}
WithActor == {"confirm", "confirmUser", "confirmCharge", "confirmSave"}
WithSubject == {"addCharge", "confirmCharge", "confirmSave", "webhookSave",
                 "deleteCharges", "deleteSave"}

PaymentCurrent(w) ==
  req[w].stage \in WithPayment => req[w].payment = payments[req[w].id]

ActorCurrent(w) ==
  /\ req[w].stage \in WithActor => req[w].actor \in Accounts
  /\ req[w].stage \in {"confirm", "confirmUser"} =>
       /\ users[req[w].actor].status # "absent"
       /\ req[w].authBalance = users[req[w].actor].balance

SubjectCurrent(w) ==
  /\ req[w].stage \in WithSubject =>
       /\ req[w].subject \in Accounts
       /\ users[req[w].subject].status = "active"
       /\ req[w].balance = users[req[w].subject].balance
  /\ req[w].stage = "addCharge" => req[w].balance > 0

Loaded(c) == IF c \in Students THEN Find(charges[c]) ELSE AbsentCharge

ChargeCurrent(w) ==
  /\ req[w].stage = "confirmSave" => req[w].charge = Loaded(req[w].payment.charge)
  /\ req[w].stage = "deleteSave" => req[w].charge = Loaded(req[w].subject)

Current(w) == PaymentCurrent(w) /\ ActorCurrent(w) /\ SubjectCurrent(w) /\ ChargeCurrent(w)

CInv == \A w \in Workers : Current(w)

(* The rows that a request will save with its next query, and those whose  *)
(* copy it holds.                                                          *)
SavesAccount(w, u) ==
  req[w].stage \in {"confirmSave", "webhookSave", "deleteSave"} /\ req[w].subject = u
SavesPayment(w, p) ==
  req[w].stage \in {"attachReference", "confirmSave", "webhookSave"} /\ req[w].id = p
SavesCharge(w, c) ==
  \/ req[w].stage = "confirmSave" /\ req[w].payment.charge = c
  \/ req[w].stage \in {"addCharge", "deleteSave"} /\ req[w].subject = c

HoldsAccount(v, u) ==
  \/ req[v].stage \in WithSubject /\ req[v].subject = u
  \/ req[v].stage \in {"confirm", "confirmUser"} /\ req[v].actor = u
HoldsPayment(v, p) == req[v].stage \in WithPayment /\ req[v].id = p
HoldsCharge(v, c) ==
  \/ req[v].stage = "confirmSave" /\ req[v].payment.charge = c
  \/ req[v].stage = "deleteSave" /\ req[v].subject = c

(* Nobody is about to save what another request has read.                  *)
Undisturbed ==
  \A v, w \in Workers : v # w =>
    /\ \A u \in Accounts : ~(HoldsAccount(v, u) /\ SavesAccount(w, u))
    /\ \A p \in PaymentIds : ~(HoldsPayment(v, p) /\ SavesPayment(w, p))
    /\ \A c \in Students : ~(HoldsCharge(v, c) /\ SavesCharge(w, c))

LEMMA IdleIsCurrent ==
  ASSUME NEW w, req'[w].stage = "idle"
  PROVE  Current(w)'
BY DEF Current, PaymentCurrent, ActorCurrent, SubjectCurrent, ChargeCurrent,
       WithPayment, WithActor, WithSubject

LEMMA CurrentStart ==
  ASSUME SInv, NEW w \in Workers, Start(w)
  PROVE  Current(w)'
<1>0. TypeOK /\ (\A s \in Students : s \in Accounts) /\ (\A a \in Admins : a \in Accounts)
  BY RolesAreExclusive DEF SInv, Accounts
<1>1. ASSUME NEW a \in Admins, NEW s \in Students, NEW rate \in Rates, CreateUser(w, a, s, rate)
      PROVE  Current(w)'
  <2>1. users'[s].status = "active" /\ users'[s].balance = rate
    BY <1>0, <1>1 DEF CreateUser, InitialBalance, TypeOK
  <2>2. CASE Ended(w)
    BY <2>2, EndedIsIdle, IdleIsCurrent
  <2>3. CASE ~Ended(w)
    <3>1. /\ req'[w].stage = "addCharge" /\ req'[w].subject = s
          /\ req'[w].balance = rate /\ rate > 0
      BY <1>0, <1>1, <2>3, UserCreated
    <3>2. SubjectCurrent(w)'
      BY <1>0, <2>1, <3>1 DEF SubjectCurrent
    <3>3. PaymentCurrent(w)' /\ ActorCurrent(w)' /\ ChargeCurrent(w)'
      BY <3>1 DEF PaymentCurrent, ActorCurrent, ChargeCurrent, WithPayment, WithActor
    <3>4. QED
      BY <3>2, <3>3 DEF Current
  <2>4. QED
    BY <2>2, <2>3
<1>2. ASSUME NEW a \in Accounts, NEW p \in PaymentIds, NEW c \in Students \cup {NoCharge},
             NEW amount \in Amounts, NEW method \in {"Manual", "MockGateway"},
             CreatePayment(w, a, p, c, amount, method)
      PROVE  Current(w)'
  <2>1. CASE Ended(w)
    BY <2>1, EndedIsIdle, IdleIsCurrent
  <2>2. CASE ~Ended(w)
    <3>1. req'[w].stage = "attachReference" /\ req'[w].id = p /\ req'[w].payment = payments'[p]
      BY <1>0, <1>2, <2>2, PaymentCreated
    <3>2. QED
      BY <3>1 DEF Current, PaymentCurrent, ActorCurrent, SubjectCurrent, ChargeCurrent,
                  WithActor, WithSubject
  <2>3. QED
    BY <2>1, <2>2
<1>3. ASSUME NEW a \in Accounts, NEW p \in PaymentIds, BeginConfirm(w, a, p)
      PROVE  Current(w)'
  <2>1. /\ req'[w].stage = "confirm" /\ req'[w].actor = a
        /\ req'[w].authBalance = users[a].balance
    BY <1>0, <1>3, ConfirmBegun
  <2>2. users' = users /\ users[a].status # "absent"
    BY <1>3 DEF BeginConfirm, Authenticated
  <2>3. QED
    BY <2>1, <2>2 DEF Current, PaymentCurrent, ActorCurrent, SubjectCurrent, ChargeCurrent,
                      WithPayment, WithSubject
<1>4. ASSUME NEW p \in PaymentIds, WebhookLoadPayment(w, p)
      PROVE  Current(w)'
  <2>1. req'[w].stage = "webhookUser" /\ req'[w].id = p /\ req'[w].payment = payments[p]
    BY <1>0, <1>4, WebhookBegun
  <2>2. payments' = payments
    BY <1>4 DEF WebhookLoadPayment
  <2>3. QED
    BY <2>1, <2>2 DEF Current, PaymentCurrent, ActorCurrent, SubjectCurrent, ChargeCurrent,
                      WithActor, WithSubject
<1>5. ASSUME NEW a \in Admins, NEW u \in Accounts, DeleteUser(w, a, u)
      PROVE  Current(w)'
  <2>1. /\ req'[w].stage = "deleteCharges" /\ req'[w].subject = u
        /\ req'[w].balance = users[u].balance /\ users[u].status = "active"
    BY <1>0, <1>5, DeletionBegun
  <2>2. users' = users
    BY <1>5 DEF DeleteUser
  <2>3. QED
    BY <2>1, <2>2 DEF Current, PaymentCurrent, ActorCurrent, SubjectCurrent, ChargeCurrent,
                      WithPayment, WithActor
<1>6. QED
  BY <1>1, <1>2, <1>3, <1>4, <1>5 DEF Start

LEMMA CurrentContinue ==
  ASSUME SInv, NEW w \in Workers, Current(w), Continue(w)
  PROVE  Current(w)'
<1>0. TypeOK
  BY DEF SInv
<1>1. CASE Ended(w)
  BY <1>1, EndedIsIdle, IdleIsCurrent
<1>2. CASE ConfirmLoadPayment(w) /\ ~Ended(w)
  <2>1. /\ req'[w].stage = "confirmUser" /\ req'[w].actor = req[w].actor
        /\ req'[w].id = req[w].id /\ req'[w].payment = payments[req[w].id]
        /\ req'[w].authBalance = req[w].authBalance
    BY <1>0, <1>2, PaymentLoaded
  <2>2. users' = users /\ payments' = payments
    BY <1>2 DEF ConfirmLoadPayment
  <2>3. /\ req[w].actor \in Accounts /\ req[w].authBalance = users[req[w].actor].balance
        /\ users[req[w].actor].status # "absent"
    BY <1>2 DEF ConfirmLoadPayment, Current, ActorCurrent, WithActor
  <2>4. QED
    BY <2>1, <2>2, <2>3 DEF Current, PaymentCurrent, ActorCurrent, SubjectCurrent,
                            ChargeCurrent, WithSubject
<1>3. CASE ConfirmLoadUser(w) /\ ~Ended(w)
  <2>1. /\ req'[w].stage = "confirmCharge" /\ req'[w].actor = req[w].actor
        /\ req'[w].id = req[w].id /\ req'[w].payment = req[w].payment
        /\ req'[w].subject = req[w].subject
        /\ users[req[w].subject].status = "active"
        /\ req'[w].balance = IF req[w].subject = req[w].actor
                             THEN req[w].authBalance
                             ELSE users[req[w].subject].balance
    BY <1>0, <1>3, UserLoaded
  <2>2. users' = users /\ payments' = payments
    BY <1>3 DEF ConfirmLoadUser
  <2>3. /\ req[w].actor \in Accounts /\ req[w].authBalance = users[req[w].actor].balance
        /\ req[w].payment = payments[req[w].id]
    BY <1>3 DEF ConfirmLoadUser, Current, ActorCurrent, PaymentCurrent, WithActor, WithPayment
  <2>4. req[w].subject \in Accounts
    BY <1>3 DEF ConfirmLoadUser, SInv, StageOK, RowsOK, OwnerStages, PaymentStages
  <2>5. QED
    BY <2>1, <2>2, <2>3, <2>4 DEF Current, PaymentCurrent, ActorCurrent, SubjectCurrent,
                                  ChargeCurrent
<1>4. CASE ConfirmLoadCharge(w)
  <2>1. /\ req'[w].stage = "confirmSave" /\ req'[w].actor = req[w].actor
        /\ req'[w].id = req[w].id /\ req'[w].payment = req[w].payment
        /\ req'[w].subject = req[w].subject /\ req'[w].balance = req[w].balance
        /\ req'[w].charge = Loaded(req[w].payment.charge)
    BY <1>0, <1>4, ChargeLoaded DEF Loaded
  <2>2. users' = users /\ payments' = payments /\ charges' = charges
    BY <1>4 DEF ConfirmLoadCharge
  <2>3. /\ req[w].actor \in Accounts /\ req[w].payment = payments[req[w].id]
        /\ req[w].subject \in Accounts /\ users[req[w].subject].status = "active"
        /\ req[w].balance = users[req[w].subject].balance
    BY <1>4 DEF ConfirmLoadCharge, Current, ActorCurrent, PaymentCurrent, SubjectCurrent,
                WithActor, WithPayment, WithSubject
  <2>4. QED
    BY <2>1, <2>2, <2>3 DEF Current, PaymentCurrent, ActorCurrent, SubjectCurrent,
                            ChargeCurrent, Loaded
<1>5. CASE WebhookLoadUser(w) /\ ~Ended(w)
  <2>1. /\ req'[w].stage = "webhookSave" /\ req'[w].id = req[w].id
        /\ req'[w].payment = req[w].payment /\ req'[w].subject = req[w].subject
        /\ users[req[w].subject].status = "active"
        /\ req'[w].balance = users[req[w].subject].balance
    BY <1>0, <1>5, WebhookUserLoaded
  <2>2. users' = users /\ payments' = payments
    BY <1>5 DEF WebhookLoadUser
  <2>3. req[w].payment = payments[req[w].id]
    BY <1>5 DEF WebhookLoadUser, Current, PaymentCurrent, WithPayment
  <2>4. req[w].subject \in Accounts
    BY <1>5 DEF WebhookLoadUser, SInv, StageOK, RowsOK, OwnerStages, PaymentStages
  <2>5. QED
    BY <2>1, <2>2, <2>3, <2>4 DEF Current, PaymentCurrent, ActorCurrent, SubjectCurrent,
                                  ChargeCurrent, WithActor
<1>6. CASE DeleteLoadCharges(w)
  <2>1. /\ req'[w].stage = "deleteSave" /\ req'[w].subject = req[w].subject
        /\ req'[w].balance = req[w].balance /\ req'[w].charge = Loaded(req[w].subject)
    BY <1>0, <1>6, ChargesLoaded DEF Loaded
  <2>2. users' = users /\ charges' = charges
    BY <1>6 DEF DeleteLoadCharges
  <2>3. /\ req[w].subject \in Accounts /\ users[req[w].subject].status = "active"
        /\ req[w].balance = users[req[w].subject].balance
    BY <1>6 DEF DeleteLoadCharges, Current, SubjectCurrent, WithSubject
  <2>4. QED
    BY <2>1, <2>2, <2>3 DEF Current, PaymentCurrent, ActorCurrent, SubjectCurrent,
                            ChargeCurrent, WithPayment, WithActor, Loaded
<1>7. QED
  BY <1>0, <1>1, <1>2, <1>3, <1>4, <1>5, <1>6, EndsEnded
     DEF Continue, AddCharge, AttachReference, ConfirmSave, WebhookSave, DeleteSave, Abort

(* A step changes the rows its request saves, and those it creates.        *)
LEMMA SavedAccounts ==
  ASSUME SInv, NEW w \in Workers, Start(w) \/ Continue(w), NEW u \in Accounts, users'[u] # users[u]
  PROVE  users[u].status = "absent" \/ SavesAccount(w, u)
<1>1. ASSUME NEW a \in Admins, NEW s \in Students, NEW rate \in Rates, CreateUser(w, a, s, rate)
      PROVE  users[u].status = "absent"
  BY <1>1 DEF CreateUser, SInv, TypeOK
<1>2. CASE ConfirmSave(w) \/ WebhookSave(w)
  BY <1>2 DEF ConfirmSave, WebhookSave, SInv, TypeOK, SavesAccount
<1>3. CASE DeleteSave(w)
  BY <1>3, AccountDeleted DEF DeleteSave, SavesAccount
<1>4. CASE Start(w)
  BY <1>1, <1>4 DEF Start, CreatePayment, BeginConfirm, WebhookLoadPayment, DeleteUser
<1>5. CASE Continue(w)
  BY <1>2, <1>3, <1>5
     DEF Continue, AddCharge, AttachReference, ConfirmLoadPayment, ConfirmLoadUser,
         ConfirmLoadCharge, WebhookLoadUser, DeleteLoadCharges, Abort
<1>6. QED
  BY <1>4, <1>5

LEMMA SavedPayments ==
  ASSUME SInv, NEW w \in Workers, Start(w) \/ Continue(w), NEW p \in PaymentIds,
         payments'[p] # payments[p]
  PROVE  payments[p].status = "absent" \/ SavesPayment(w, p)
<1>1. ASSUME NEW a \in Accounts, NEW q \in PaymentIds, NEW c \in Students \cup {NoCharge},
             NEW amount \in Amounts, NEW method \in {"Manual", "MockGateway"},
             CreatePayment(w, a, q, c, amount, method)
      PROVE  payments[p].status = "absent"
  <2>1. p = q
    BY <1>1, PaymentCreated DEF SInv
  <2>2. QED
    BY <1>1, <2>1 DEF CreatePayment
<1>2. CASE AttachReference(w) \/ ConfirmSave(w) \/ WebhookSave(w)
  BY <1>2 DEF AttachReference, ConfirmSave, WebhookSave, SInv, TypeOK, SavesPayment
<1>3. CASE Start(w)
  BY <1>1, <1>3 DEF Start, CreateUser, BeginConfirm, WebhookLoadPayment, DeleteUser
<1>4. CASE Continue(w)
  BY <1>2, <1>4
     DEF Continue, AddCharge, DeleteSave, ConfirmLoadPayment, ConfirmLoadUser,
         ConfirmLoadCharge, WebhookLoadUser, DeleteLoadCharges, Abort
<1>5. QED
  BY <1>3, <1>4

LEMMA SavedCharges ==
  ASSUME SInv, NEW w \in Workers, Start(w) \/ Continue(w), NEW c \in Students,
         charges'[c] # charges[c]
  PROVE  SavesCharge(w, c)
<1>1. CASE AddCharge(w)
  BY <1>1, ChargeAdded DEF AddCharge, SavesCharge
<1>2. CASE ConfirmSave(w)
  BY <1>2, ChargePaid DEF ConfirmSave, SavesCharge
<1>3. CASE DeleteSave(w)
  BY <1>3, ChargeDeleted DEF DeleteSave, SavesCharge
<1>4. CASE Start(w)
  BY <1>4 DEF Start, CreateUser, CreatePayment, BeginConfirm, WebhookLoadPayment, DeleteUser
<1>5. CASE Continue(w)
  BY <1>1, <1>2, <1>3, <1>5
     DEF Continue, AttachReference, WebhookSave, ConfirmLoadPayment, ConfirmLoadUser,
         ConfirmLoadCharge, WebhookLoadUser, DeleteLoadCharges, Abort
<1>6. QED
  BY <1>4, <1>5

(* The copies of the other requests stay what the tables hold.             *)
LEMMA OthersCurrent ==
  ASSUME SInv, CInv, Undisturbed, NEW w \in Workers, Start(w) \/ Continue(w),
         NEW v \in Workers, v # w
  PROVE  Current(v)'
<1>1. req'[v] = req[v] /\ Current(v) /\ StageOK(v)
  BY OthersStay DEF CInv, SInv
<1>2. PaymentCurrent(v)'
  <2> SUFFICES ASSUME req[v].stage \in WithPayment
               PROVE  req[v].payment = payments'[req[v].id]
    BY <1>1 DEF PaymentCurrent
  <2>1. /\ req[v].payment = payments[req[v].id] /\ req[v].id \in PaymentIds
        /\ payments[req[v].id].status # "absent"
    BY <1>1 DEF Current, PaymentCurrent, StageOK, PaymentStages, WithPayment
  <2>2. ~SavesPayment(w, req[v].id)
    BY <2>1 DEF Undisturbed, HoldsPayment
  <2>3. QED
    BY <2>1, <2>2, SavedPayments
<1>3. ActorCurrent(v)'
  <2>1. CASE req[v].stage \in {"confirm", "confirmUser"}
    <3>1. /\ req[v].actor \in Accounts /\ users[req[v].actor].status # "absent"
          /\ req[v].authBalance = users[req[v].actor].balance
      BY <1>1, <2>1 DEF Current, ActorCurrent, WithActor
    <3>2. ~SavesAccount(w, req[v].actor)
      BY <2>1, <3>1 DEF Undisturbed, HoldsAccount
    <3>3. users'[req[v].actor] = users[req[v].actor]
      BY <3>1, <3>2, SavedAccounts
    <3>4. QED
      BY <1>1, <2>1, <3>1, <3>3 DEF ActorCurrent
  <2>2. CASE req[v].stage \notin {"confirm", "confirmUser"}
    BY <1>1, <2>2 DEF Current, ActorCurrent
  <2>3. QED
    BY <2>1, <2>2
<1>4. SubjectCurrent(v)'
  <2>1. CASE req[v].stage \in WithSubject
    <3>1. /\ req[v].subject \in Accounts /\ users[req[v].subject].status = "active"
          /\ req[v].balance = users[req[v].subject].balance
          /\ req[v].stage = "addCharge" => req[v].balance > 0
      BY <1>1, <2>1 DEF Current, SubjectCurrent
    <3>2. ~SavesAccount(w, req[v].subject)
      BY <2>1, <3>1 DEF Undisturbed, HoldsAccount
    <3>3. users'[req[v].subject] = users[req[v].subject]
      BY <3>1, <3>2, SavedAccounts
    <3>4. QED
      BY <1>1, <2>1, <3>1, <3>3 DEF SubjectCurrent
  <2>2. CASE req[v].stage \notin WithSubject
    BY <1>1, <2>2 DEF SubjectCurrent, WithSubject
  <2>3. QED
    BY <2>1, <2>2
<1>5. ChargeCurrent(v)'
  <2>1. ASSUME NEW c, HoldsCharge(v, c) PROVE Loaded(c)' = Loaded(c)
    <3>1. CASE c \in Students
      <4>1. ~SavesCharge(w, c)
        BY <2>1, <3>1 DEF Undisturbed
      <4>2. charges'[c] = charges[c]
        BY <3>1, <4>1, SavedCharges
      <4>3. QED
        BY <4>2 DEF Loaded
    <3>2. CASE c \notin Students
      BY <3>2 DEF Loaded
    <3>3. QED
      BY <3>1, <3>2
  <2>2. ASSUME req[v].stage = "confirmSave"
        PROVE  req[v].charge = Loaded(req[v].payment.charge)'
    <3>1. PICK c : c = req[v].payment.charge
      OBVIOUS
    <3>2. Loaded(c)' = Loaded(c) /\ req[v].charge = Loaded(c)
      BY <1>1, <2>1, <2>2, <3>1 DEF HoldsCharge, Current, ChargeCurrent
    <3>3. QED
      BY <1>1, <3>1, <3>2 DEF Loaded
  <2>3. ASSUME req[v].stage = "deleteSave"
        PROVE  req[v].charge = Loaded(req[v].subject)'
    <3>1. PICK c : c = req[v].subject
      OBVIOUS
    <3>2. Loaded(c)' = Loaded(c) /\ req[v].charge = Loaded(c)
      BY <1>1, <2>1, <2>3, <3>1 DEF HoldsCharge, Current, ChargeCurrent
    <3>3. QED
      BY <1>1, <3>1, <3>2 DEF Loaded
  <2>4. QED
    BY <1>1, <2>2, <2>3 DEF ChargeCurrent, Loaded
<1>6. QED
  BY <1>2, <1>3, <1>4, <1>5 DEF Current

LEMMA CurrentNext == Undisturbed /\ SInv /\ CInv /\ [Next]_vars => CInv'
<1> SUFFICES ASSUME Undisturbed, SInv, CInv, [Next]_vars PROVE CInv'
  OBVIOUS
<1>1. CASE UNCHANGED vars
  BY <1>1 DEF vars, CInv, Current, PaymentCurrent, ActorCurrent, SubjectCurrent,
              ChargeCurrent, Loaded
<1>2. ASSUME NEW w \in Workers, Start(w) \/ Continue(w), NEW v \in Workers
      PROVE  Current(v)'
  BY <1>2, CurrentStart, CurrentContinue, OthersCurrent DEF CInv
<1>3. QED
  BY <1>1, <1>2 DEF Next, CInv

LEMMA UndisturbedInvariant == Spec /\ []Undisturbed => [](SInv /\ LifeInv /\ CInv)
<1>1. Init => CInv
  BY DEF Init, CInv, Idle, Current, PaymentCurrent, ActorCurrent, SubjectCurrent, ChargeCurrent,
         WithPayment, WithActor, WithSubject
<1>2. QED
  BY <1>1, CurrentNext, StructuralInvariant, LifeInvariant, PTL DEF Spec

(***************************************************************************)
(* What a save does when nothing has moved since the request's queries:    *)
(* the columns it writes are computed from what they hold.                 *)
(***************************************************************************)
LEMMA CurrentColumn ==
  ASSUME NEW stored, NEW new
  PROVE  Column(stored, stored, new) = new
BY DEF Column

LEMMA ActiveLoaded ==
  ASSUME SInv, NEW c, Loaded(c).status = "active"
  PROVE  c \in Students /\ charges[c].status = "active" /\ Loaded(c) = charges[c]
BY DEF Loaded, Find, AbsentCharge

LEMMA LoadedActive ==
  ASSUME NEW c \in Students, charges[c].status = "active"
  PROVE  Loaded(c) = charges[c]
BY DEF Loaded, Find

(* A confirmation by an account or by the webhook, as the owner sees it.   *)
LEMMA Debits ==
  ASSUME SInv, NEW w \in Workers, Current(w), ConfirmSave(w) \/ WebhookSave(w)
  PROVE  /\ req[w].id \in PaymentIds /\ req[w].payment = payments[req[w].id]
         /\ payments[req[w].id].status = "Pending"
         /\ req[w].subject = payments[req[w].id].user /\ req[w].subject \in Accounts
         /\ users[req[w].subject].status = "active"
         /\ users' = [users EXCEPT ![req[w].subject].balance =
                        Reduced(@, payments[req[w].id].amount)]
<1>1. /\ req[w].id \in PaymentIds /\ req[w].payment.status = "Pending"
      /\ req[w].subject = payments[req[w].id].user
  BY DEF ConfirmSave, WebhookSave, SInv, StageOK, OwnerStages, PaymentStages
<1>2. /\ req[w].payment = payments[req[w].id]
      /\ req[w].subject \in Accounts /\ users[req[w].subject].status = "active"
      /\ req[w].balance = users[req[w].subject].balance
  BY DEF ConfirmSave, WebhookSave, Current, PaymentCurrent, SubjectCurrent,
         WithPayment, WithSubject
<1>3. SaveBalance(req[w].subject, req[w].balance, Reduced(req[w].balance, req[w].payment.amount))
        = Reduced(users[req[w].subject].balance, payments[req[w].id].amount)
  BY <1>2, CurrentColumn DEF SaveBalance
<1>4. QED
  BY <1>1, <1>2, <1>3 DEF ConfirmSave, WebhookSave

(* ConfirmPaymentAsync credits the charge of the payment if it is active.  *)
LEMMA Credits ==
  ASSUME SInv, NEW w \in Workers, Current(w), ConfirmSave(w), NEW c \in Students
  PROVE  /\ charges'[c].status = charges[c].status
         /\ charges'[c].amount = charges[c].amount
         /\ IF charges[c].status = "active" /\ c = req[w].payment.charge
            THEN /\ charges'[c].paid = charges[c].paid + req[w].payment.amount
                 /\ charges'[c].settled =
                      Covers(charges[c].paid + req[w].payment.amount, charges[c].amount)
            ELSE charges'[c] = charges[c]
<1>1. req[w].charge = Loaded(req[w].payment.charge)
  BY DEF ConfirmSave, Current, ChargeCurrent
<1>2. CASE charges[c].status = "active" /\ c = req[w].payment.charge
  <2>1. req[w].charge = charges[c] /\ req[w].charge.status = "active"
    BY <1>1, <1>2, LoadedActive
  <2>2. /\ charges'[c].paid = Column(charges[c].paid, charges[c].paid,
                                     charges[c].paid + req[w].payment.amount)
        /\ charges'[c].settled =
             Column(charges[c].settled, charges[c].settled,
                    Covers(charges[c].paid + req[w].payment.amount, charges[c].amount))
    BY <1>2, <2>1, ChargePaid
  <2>3. charges'[c].settled = Covers(charges[c].paid + req[w].payment.amount, charges[c].amount)
    BY <2>2, CurrentColumn, Zenon
  <2>4. charges'[c].paid = charges[c].paid + req[w].payment.amount
    BY <2>2, CurrentColumn
  <2>5. QED
    BY <1>2, <2>3, <2>4, ChargePaid
<1>3. CASE ~(charges[c].status = "active" /\ c = req[w].payment.charge)
  <2>1. ~(req[w].charge.status = "active" /\ c = req[w].payment.charge)
    BY <1>1, <1>3, ActiveLoaded
  <2>2. charges'[c] = charges[c]
    BY <2>1, ChargePaid
  <2>3. QED
    BY <1>3, <2>2
<1>4. QED
  BY <1>2, <1>3

(* DeleteUserAsync leaves no debt behind.                                  *)
LEMMA Clears ==
  ASSUME SInv, NEW w \in Workers, Current(w), DeleteSave(w)
  PROVE  /\ req[w].subject \in Accounts /\ users[req[w].subject].status = "active"
         /\ users' = [users EXCEPT ![req[w].subject] = [status |-> "deleted", balance |-> 0]]
         /\ \A c \in Students : IF c = req[w].subject /\ charges[c].status = "active"
                                THEN charges'[c].status = "deleted"
                                ELSE charges'[c] = charges[c]
<1>1. /\ req[w].subject \in Accounts /\ users[req[w].subject].status = "active"
      /\ req[w].balance = users[req[w].subject].balance
      /\ req[w].charge = Loaded(req[w].subject)
  BY DEF DeleteSave, Current, SubjectCurrent, ChargeCurrent, WithSubject
<1>2. SaveBalance(req[w].subject, req[w].balance, 0) = 0
  BY <1>1, CurrentColumn DEF SaveBalance
<1>3. ASSUME NEW c \in Students
      PROVE  IF c = req[w].subject /\ charges[c].status = "active"
             THEN charges'[c].status = "deleted"
             ELSE charges'[c] = charges[c]
  BY <1>1, ActiveLoaded, LoadedActive, ChargeDeleted
<1>4. QED
  BY <1>1, <1>2, <1>3 DEF DeleteSave

(***************************************************************************)
(* The settled flag is exact: the only saves that touch it compute it from *)
(* the paid amount they write in the same transaction.                     *)
(***************************************************************************)
LEMMA SettledNext == SInv /\ LifeInv /\ CInv /\ SettledIsExact /\ [Next]_vars => SettledIsExact'
<1> SUFFICES ASSUME SInv, LifeInv, CInv, SettledIsExact, [Next]_vars,
                    NEW c \in Students, charges'[c].status = "active"
             PROVE  charges'[c].settled <=> charges'[c].paid >= charges'[c].amount
  BY DEF SettledIsExact
<1>1. CASE charges'[c] = charges[c]
  BY <1>1 DEF SettledIsExact
<1>2. ASSUME NEW w \in Workers, AddCharge(w), charges'[c] # charges[c]
      PROVE  charges'[c].settled <=> charges'[c].paid >= charges'[c].amount
  <2>1. c = req[w].subject
    BY <1>2, ChargeAdded
  <2>2. /\ charges'[c].amount = req[w].balance /\ charges'[c].paid = 0
        /\ charges'[c].settled = FALSE
    BY <1>2, <2>1, ChargeAdded
  <2>3. req[w].balance > 0 /\ req[w].balance \in Nat
    BY <1>2, RequestFields DEF AddCharge, CInv, Current, SubjectCurrent, SInv
  <2>4. ~(charges'[c].paid >= charges'[c].amount)
    BY <2>2, <2>3
  <2>5. QED
    BY <2>2, <2>4
<1>3. ASSUME NEW w \in Workers, ConfirmSave(w), charges'[c] # charges[c]
      PROVE  charges'[c].settled <=> charges'[c].paid >= charges'[c].amount
  <2>1. /\ charges'[c].amount = charges[c].amount
        /\ charges'[c].paid = charges[c].paid + req[w].payment.amount
        /\ charges'[c].settled =
             Covers(charges[c].paid + req[w].payment.amount, charges[c].amount)
    BY <1>3, Credits DEF CInv
  <2>2. charges'[c].settled = Covers(charges'[c].paid, charges'[c].amount)
    BY <2>1
  <2>3. QED
    BY <2>2, Zenon DEF Covers
<1>4. ASSUME NEW w \in Workers, DeleteSave(w) PROVE charges'[c] = charges[c]
  BY <1>4, Clears DEF CInv
<1>5. QED
  BY <1>1, <1>2, <1>3, <1>4, ChargeWriters

(* IsSettled says of an active charge whether it is paid in full, unless a *)
(* request saves under the copy another has: two confirmations that both   *)
(* read the charge are needed to leave it settled short of its amount.     *)
THEOREM SettledStaysExact == Spec /\ []Undisturbed => []SettledIsExact
<1>1. Init => SettledIsExact
  BY DEF Init, SettledIsExact, AbsentCharge
<1>2. QED
  BY <1>1, SettledNext, UndisturbedInvariant, PTL DEF Spec

(***************************************************************************)
(* A deleted account owes nothing.                                         *)
(***************************************************************************)
(* Accounts and charges change in five saves only.                         *)
LEMMA MoneyWriters ==
  ASSUME [Next]_vars
  PROVE  \/ UNCHANGED <<users, charges>>
         \/ \E w \in Workers :
              \/ \E a \in Admins, s \in Students, rate \in Rates : CreateUser(w, a, s, rate)
              \/ AddCharge(w) \/ ConfirmSave(w) \/ WebhookSave(w) \/ DeleteSave(w)
<1>1. CASE UNCHANGED vars
  BY <1>1 DEF vars
<1>2. ASSUME NEW w \in Workers, Start(w)
      PROVE  \/ UNCHANGED <<users, charges>>
             \/ \E a \in Admins, s \in Students, rate \in Rates : CreateUser(w, a, s, rate)
  BY <1>2 DEF Start, CreatePayment, BeginConfirm, WebhookLoadPayment, DeleteUser
<1>3. ASSUME NEW w \in Workers, Continue(w)
      PROVE  \/ UNCHANGED <<users, charges>>
             \/ AddCharge(w) \/ ConfirmSave(w) \/ WebhookSave(w) \/ DeleteSave(w)
  BY <1>3 DEF Continue, AttachReference, ConfirmLoadPayment, ConfirmLoadUser, ConfirmLoadCharge,
              WebhookLoadUser, DeleteLoadCharges, Abort
<1>4. QED
  BY <1>1, <1>2, <1>3 DEF Next

LEMMA DeletedNext ==
  SInv /\ LifeInv /\ CInv /\ DeletedOwesNothing /\ [Next]_vars => DeletedOwesNothing'
<1> SUFFICES ASSUME SInv, LifeInv, CInv, DeletedOwesNothing, [Next]_vars,
                    NEW u \in Accounts, users'[u].status = "deleted"
             PROVE  users'[u].balance = 0 /\ (u \in Students => charges'[u].status # "active")
  BY DEF DeletedOwesNothing
<1>1. CASE UNCHANGED <<users, charges>>
  BY <1>1 DEF DeletedOwesNothing
<1>2. ASSUME NEW w \in Workers, NEW a \in Admins, NEW s \in Students, NEW rate \in Rates,
             CreateUser(w, a, s, rate)
      PROVE  users'[u] = users[u] /\ charges' = charges
  BY <1>2 DEF CreateUser, SInv, TypeOK
<1>3. ASSUME NEW w \in Workers, AddCharge(w)
      PROVE  users' = users /\ (u \in Students => charges'[u] = charges[u])
  <2>1. users' = users /\ users[req[w].subject].status = "active"
    BY <1>3, ChargeAdded DEF AddCharge, CInv, Current, SubjectCurrent, WithSubject
  <2>2. u # req[w].subject
    BY <2>1
  <2>3. QED
    BY <1>3, <2>1, <2>2, ChargeAdded
<1>4. ASSUME NEW w \in Workers, ConfirmSave(w) \/ WebhookSave(w)
      PROVE  users'[u] = users[u] /\ (u \in Students => charges'[u].status = charges[u].status)
  <2>1. /\ req[w].subject \in Accounts /\ users[req[w].subject].status = "active"
        /\ users' = [users EXCEPT ![req[w].subject].balance =
                       Reduced(@, payments[req[w].id].amount)]
    BY <1>4, Debits DEF CInv
  <2>2. u # req[w].subject
    BY <2>1 DEF SInv, TypeOK, UserRow
  <2>3. users'[u] = users[u]
    BY <2>1, <2>2 DEF SInv, TypeOK
  <2>4. u \in Students => charges'[u].status = charges[u].status
    BY <1>4, Credits DEF CInv, WebhookSave
  <2>5. QED
    BY <2>3, <2>4
<1>5. ASSUME NEW w \in Workers, DeleteSave(w)
      PROVE  users'[u].balance = 0 /\ (u \in Students => charges'[u].status # "active")
  <2>1. /\ req[w].subject \in Accounts
        /\ users' = [users EXCEPT ![req[w].subject] = [status |-> "deleted", balance |-> 0]]
        /\ \A c \in Students : IF c = req[w].subject /\ charges[c].status = "active"
                               THEN charges'[c].status = "deleted"
                               ELSE charges'[c] = charges[c]
    BY <1>5, Clears DEF CInv
  <2>2. CASE u = req[w].subject
    BY <2>1, <2>2 DEF SInv, TypeOK
  <2>3. CASE u # req[w].subject
    <3>1. users'[u] = users[u] /\ (u \in Students => charges'[u] = charges[u])
      BY <2>1, <2>3 DEF SInv, TypeOK
    <3>2. QED
      BY <3>1 DEF DeletedOwesNothing
  <2>4. QED
    BY <2>2, <2>3
<1>6. ASSUME users'[u] = users[u], u \in Students => charges'[u].status = charges[u].status
      PROVE  users'[u].balance = 0 /\ (u \in Students => charges'[u].status # "active")
  BY <1>6 DEF DeletedOwesNothing
<1>7. QED
  BY <1>1, <1>2, <1>3, <1>4, <1>5, <1>6, MoneyWriters

(* Nothing revives the debt of a deleted account: no confirmation writes   *)
(* its Balance back, no charge of it stays or becomes active.              *)
THEOREM DeletedStaysClear == Spec /\ []Undisturbed => []DeletedOwesNothing
<1>1. Init => DeletedOwesNothing
  BY DEF Init, DeletedOwesNothing
<1>2. QED
  BY <1>1, DeletedNext, UndisturbedInvariant, PTL DEF Spec

(***************************************************************************)
(* The debt shown for a resident never grows.                              *)
(***************************************************************************)
LEMMA ReducedLess ==
  ASSUME NEW b \in Nat, NEW m \in Nat, NEW k \in Nat
  PROVE  /\ Reduced(b, m) \in Nat /\ Reduced(b, m) <= b
         /\ Reduced(b, m + k) <= Reduced(b, m)
         /\ Reduced(b, 0) = b
BY DEF Reduced

LEMMA DebtStep ==
  ASSUME SInv, LifeInv, CInv, [Next]_vars, NEW s \in Students, users[s].status = "active"
  PROVE  EffectiveDebt(s)' <= EffectiveDebt(s)
<1>0. /\ s \in Accounts /\ users[s].balance \in Nat /\ charges[s].amount \in Nat
      /\ charges[s].paid \in Nat /\ EffectiveDebt(s) \in Nat
  <2>1. s \in Accounts /\ users[s] \in UserRow /\ charges[s] \in ChargeRow
    BY DEF SInv, TypeOK, Accounts
  <2>2. users[s].balance \in Nat /\ charges[s].amount \in Nat /\ charges[s].paid \in Nat
    BY <2>1 DEF UserRow, ChargeRow
  <2>3. QED
    BY <2>1, <2>2, ReducedType DEF EffectiveDebt
<1>1. CASE users'[s] = users[s] /\ charges'[s] = charges[s]
  BY <1>0, <1>1 DEF EffectiveDebt
<1>2. ASSUME NEW w \in Workers, NEW a \in Admins, NEW t \in Students, NEW rate \in Rates,
             CreateUser(w, a, t, rate)
      PROVE  users'[s] = users[s] /\ charges'[s] = charges[s]
  BY <1>0, <1>2 DEF CreateUser, SInv, TypeOK
<1>3. ASSUME NEW w \in Workers, AddCharge(w) PROVE EffectiveDebt(s)' <= EffectiveDebt(s)
  <2>1. CASE s # req[w].subject
    BY <1>1, <1>3, <2>1, ChargeAdded
  <2>2. CASE s = req[w].subject
    <3>1. charges[s].status = "absent" /\ req[w].balance = users[s].balance
      BY <1>3, <2>2 DEF AddCharge, CInv, Current, SubjectCurrent, WithSubject,
                        LifeInv, FirstCharge, Adds
    <3>2. /\ charges'[s].status = "active" /\ charges'[s].amount = users[s].balance
          /\ charges'[s].paid = 0
      BY <1>3, <2>2, <3>1, ChargeAdded
    <3>3. QED
      BY <1>0, <3>1, <3>2, ReducedLess DEF EffectiveDebt
  <2>3. QED
    BY <2>1, <2>2
<1>4. ASSUME NEW w \in Workers, ConfirmSave(w) \/ WebhookSave(w)
      PROVE  EffectiveDebt(s)' <= EffectiveDebt(s)
  <2>1. /\ req[w].subject \in Accounts /\ payments[req[w].id].amount \in Nat
        /\ req[w].payment = payments[req[w].id]
        /\ users' = [users EXCEPT ![req[w].subject].balance =
                       Reduced(@, payments[req[w].id].amount)]
    BY <1>4, Debits, RequestFields DEF CInv, SInv
  <2>2. users'[s].balance <= users[s].balance
    <3>1. CASE s = req[w].subject
      <4>1. users'[s].balance = Reduced(users[s].balance, payments[req[w].id].amount)
        BY <1>0, <2>1, <3>1 DEF SInv, TypeOK, UserRow
      <4>2. QED
        BY <1>0, <2>1, <4>1, ReducedLess
    <3>2. CASE s # req[w].subject
      BY <1>0, <2>1, <3>2 DEF SInv, TypeOK
    <3>3. QED
      BY <3>1, <3>2
  <2>3. \/ charges'[s] = charges[s]
        \/ /\ charges'[s].status = charges[s].status /\ charges'[s].amount = charges[s].amount
           /\ charges[s].status = "active"
           /\ charges'[s].paid = charges[s].paid + payments[req[w].id].amount
    BY <1>4, <2>1, Credits DEF CInv, WebhookSave
  <2>4. CASE charges'[s] = charges[s]
    BY <1>0, <2>2, <2>4 DEF EffectiveDebt
  <2>5. CASE charges'[s] # charges[s]
    BY <1>0, <2>1, <2>3, <2>5, ReducedLess DEF EffectiveDebt
  <2>6. QED
    BY <2>4, <2>5
<1>5. ASSUME NEW w \in Workers, DeleteSave(w) PROVE EffectiveDebt(s)' <= EffectiveDebt(s)
  <2>1. /\ users' = [users EXCEPT ![req[w].subject] = [status |-> "deleted", balance |-> 0]]
        /\ IF s = req[w].subject /\ charges[s].status = "active"
           THEN charges'[s].status = "deleted"
           ELSE charges'[s] = charges[s]
    BY <1>5, Clears DEF CInv
  <2>2. CASE s = req[w].subject
    <3>1. users'[s].balance = 0
      BY <1>0, <2>1, <2>2 DEF SInv, TypeOK
    <3>2. charges'[s].status # "active"
      BY <2>1, <2>2
    <3>3. QED
      BY <1>0, <3>1, <3>2 DEF EffectiveDebt
  <2>3. CASE s # req[w].subject
    <3>1. users'[s] = users[s] /\ charges'[s] = charges[s]
      BY <1>0, <2>1, <2>3 DEF SInv, TypeOK
    <3>2. QED
      BY <1>1, <3>1
  <2>4. QED
    BY <2>2, <2>3
<1>6. QED
  BY <1>1, <1>2, <1>3, <1>4, <1>5, MoneyWriters

(* No request but CreateUserAsync makes the debt of anybody grow: not the  *)
(* charge it adds to a new resident, no confirmation and no deletion.      *)
THEOREM DebtsOnlyShrink == Spec /\ []Undisturbed => DebtNeverGrows
<1>1. SInv /\ LifeInv /\ CInv /\ [Next]_vars =>
        [\A s \in Students :
           users[s].status = "active" => EffectiveDebt(s)' <= EffectiveDebt(s)]_vars
  BY DebtStep
<1>2. QED
  BY <1>1, UndisturbedInvariant, PTL DEF Spec, DebtNeverGrows

(***************************************************************************)
(* The debt shown for a resident moves by what is confirmed, and only so.  *)
(***************************************************************************)
LEMMA ReducedBy ==
  ASSUME NEW b \in Nat, NEW m \in Nat, NEW k \in Nat
  PROVE  Reduced(b, m + k) = Reduced(Reduced(b, m), k)
BY DEF Reduced

(* The first charge asks for what the Balance, still unpaid, asked for.    *)
LEMMA ChargeIsTheBalance ==
  ASSUME SInv, LifeInv, CInv, NEW w \in Workers, AddCharge(w), NEW s \in Students
  PROVE  EffectiveDebt(s)' = EffectiveDebt(s)
<1>1. s \in Accounts /\ users[s].balance \in Nat /\ users' = users
  BY DEF AddCharge, SInv, TypeOK, Accounts, UserRow
<1>2. CASE s # req[w].subject
  <2>1. charges'[s] = charges[s]
    BY <1>2, ChargeAdded
  <2>2. QED
    BY <1>1, <2>1 DEF EffectiveDebt
<1>3. CASE s = req[w].subject
  <2>1. charges[s].status = "absent" /\ req[w].balance = users[s].balance
    BY <1>3 DEF AddCharge, CInv, Current, SubjectCurrent, WithSubject, LifeInv, FirstCharge, Adds
  <2>2. /\ charges'[s].status = "active" /\ charges'[s].amount = users[s].balance
        /\ charges'[s].paid = 0
    BY <1>3, <2>1, ChargeAdded
  <2>3. QED
    BY <1>1, <2>1, <2>2, ReducedLess DEF EffectiveDebt
<1>4. QED
  BY <1>2, <1>3

(* A confirmation reduces the Balance of the payment's owner and pays into *)
(* its charge; the debt shown follows whichever of the two it is read from.*)
LEMMA DebtIsPaid ==
  ASSUME SInv, CInv, NEW w \in Workers, ConfirmSave(w) \/ WebhookSave(w),
         NEW s \in Students, EffectiveDebt(s)' # EffectiveDebt(s)
  PROVE  \E p \in PaymentIds :
           /\ payments[p].status = "Pending" /\ payments'[p].status = "Confirmed"
           /\ Touches(s, payments[p])
           /\ EffectiveDebt(s)' = Reduced(EffectiveDebt(s), payments[p].amount)
<1>0. /\ s \in Accounts /\ users[s] \in UserRow /\ charges[s] \in ChargeRow /\ Current(w)
  BY DEF SInv, TypeOK, Accounts, CInv
<1>1. PICK p, amount : p = req[w].id /\ amount = payments[p].amount
  OBVIOUS
<1>2. /\ p \in PaymentIds /\ payments[p].status = "Pending" /\ payments[p] = req[w].payment
      /\ amount \in Nat /\ req[w].subject = payments[p].user /\ req[w].subject \in Accounts
      /\ users' = [users EXCEPT ![req[w].subject].balance = Reduced(@, amount)]
  BY <1>0, <1>1, Debits, RequestFields DEF SInv
<1>3. payments'[p].status = "Confirmed"
  <2>1. PICK by \in Accounts \cup {NoAccount} :
          \/ ConfirmSave(w) /\ by = req[w].actor
          \/ WebhookSave(w) /\ by = NoAccount
    BY RequestFields DEF SInv
  <2>2. QED
    BY <1>1, <2>1, Confirms DEF ConfirmSave, WebhookSave
<1>4. CASE charges'[s] # charges[s]
  <2>1. /\ payments[p].charge = s /\ charges[s].status = "active"
        /\ charges'[s].status = "active" /\ charges'[s].amount = charges[s].amount
        /\ charges'[s].paid = charges[s].paid + amount
    BY <1>0, <1>1, <1>2, <1>4, Credits DEF WebhookSave
  <2>2. EffectiveDebt(s)' = Reduced(charges[s].amount, charges[s].paid + amount)
    BY <2>1 DEF EffectiveDebt
  <2>3. EffectiveDebt(s) = Reduced(charges[s].amount, charges[s].paid)
    BY <2>1 DEF EffectiveDebt
  <2>4. EffectiveDebt(s)' = Reduced(EffectiveDebt(s), amount)
    BY <1>0, <1>2, <2>2, <2>3, ReducedBy DEF ChargeRow
  <2>5. QED
    BY <1>1, <1>2, <1>3, <2>1, <2>4 DEF Touches
<1>5. CASE charges'[s] = charges[s]
  <2>1. charges[s].status # "active" /\ users'[s].balance # users[s].balance
    BY <1>5 DEF EffectiveDebt
  <2>2. s = req[w].subject
    BY <1>0, <1>2, <2>1 DEF SInv, TypeOK
  <2>3. users'[s].balance = Reduced(users[s].balance, amount)
    BY <1>0, <1>2, <2>2 DEF SInv, TypeOK, UserRow
  <2>4. EffectiveDebt(s)' = Reduced(EffectiveDebt(s), amount)
    BY <1>5, <2>1, <2>3 DEF EffectiveDebt
  <2>5. QED
    BY <1>1, <1>2, <1>3, <2>2, <2>4 DEF Touches
<1>6. QED
  BY <1>4, <1>5

LEMMA DebtMoves ==
  ASSUME SInv, LifeInv, CInv, [Next]_vars, NEW s \in Students,
         users[s].status = "active", users'[s].status = "active",
         EffectiveDebt(s)' # EffectiveDebt(s)
  PROVE  \E p \in PaymentIds :
           /\ payments[p].status = "Pending" /\ payments'[p].status = "Confirmed"
           /\ Touches(s, payments[p])
           /\ EffectiveDebt(s)' = Reduced(EffectiveDebt(s), payments[p].amount)
<1>1. users'[s] # users[s] \/ charges'[s] # charges[s]
  BY DEF EffectiveDebt
<1>2. ASSUME NEW w \in Workers, NEW a \in Admins, NEW t \in Students, NEW rate \in Rates,
             CreateUser(w, a, t, rate)
      PROVE  FALSE
  BY <1>1, <1>2 DEF CreateUser, SInv, TypeOK, Accounts
<1>3. ASSUME NEW w \in Workers, DeleteSave(w) PROVE FALSE
  <2>1. /\ users' = [users EXCEPT ![req[w].subject] = [status |-> "deleted", balance |-> 0]]
        /\ charges'[s] # charges[s] => s = req[w].subject
    BY <1>3, Clears DEF CInv
  <2>2. QED
    BY <1>1, <2>1 DEF SInv, TypeOK, Accounts
<1>4. ~(UNCHANGED <<users, charges>>)
  BY <1>1
<1>5. QED
  BY <1>2, <1>3, <1>4, ChargeIsTheBalance, DebtIsPaid, MoneyWriters

(* What a resident is shown to owe changes when a payment of theirs, or on *)
(* their charge, is confirmed, by its amount, and at no other time: adding *)
(* the charge to a new resident changes nothing.  The hypothesis matters:  *)
(* a webhook that lowers the Balance between the two saves of              *)
(* CreateUserAsync is undone by the charge the second one adds.            *)
THEOREM DebtMovesAsPaid == Spec /\ []Undisturbed => DebtMovesByPayment
<1>1. SInv /\ LifeInv /\ CInv /\ [Next]_vars =>
        [\A s \in Students :
            /\ users[s].status = "active"
            /\ users'[s].status = "active"
            /\ EffectiveDebt(s)' # EffectiveDebt(s)
          => \E p \in PaymentIds :
               /\ payments[p].status = "Pending" /\ payments'[p].status = "Confirmed"
               /\ Touches(s, payments[p])
               /\ EffectiveDebt(s)' = Reduced(EffectiveDebt(s), payments[p].amount)]_vars
  BY DebtMoves
<1>2. QED
  BY <1>1, UndisturbedInvariant, PTL DEF Spec, DebtMovesByPayment

(***************************************************************************)
(* The paid amount is the sum of what was confirmed: while it changes with *)
(* the set of credited payments only, one payment at a time, the sum and   *)
(* the column grow together.                                               *)
(***************************************************************************)
Counts(p, c) == /\ payments[p].status = "Confirmed" /\ payments[p].charge = c
                /\ payments[p].updatedBy # NoAccount

Sum(c) ==
  charges[c].status = "active" =>
    IsFiniteSet(Units(CreditedOn(c))) /\ charges[c].paid = Worth(CreditedOn(c))

LEMMA CreditedPayments ==
  ASSUME NEW c
  PROVE  /\ CreditedOn(c) = {p \in PaymentIds : Counts(p, c)}
         /\ CreditedOn(c)' = {p \in PaymentIds : Counts(p, c)'}
BY DEF CreditedOn, ConfirmedOn, Counts

(* Only ConfirmPaymentAsync adds to them, and only what was pending.       *)
LEMMA CreditedOnStep ==
  ASSUME SInv, NEW w \in Workers, Current(w), Start(w) \/ Continue(w), NEW q \in PaymentIds,
         NEW c \in Students, ~(Counts(q, c)' <=> Counts(q, c))
  PROVE  /\ ConfirmSave(w) /\ q = req[w].id /\ req[w].payment.charge = c
         /\ payments[q].status = "Pending" /\ Counts(q, c)'
<1>0. TypeOK
  BY DEF SInv
<1>1. ASSUME NEW a \in Accounts, NEW p \in PaymentIds, NEW d \in Students \cup {NoCharge},
             NEW amount \in Amounts, NEW method \in {"Manual", "MockGateway"},
             CreatePayment(w, a, p, d, amount, method)
      PROVE  FALSE
  <2>1. payments[p].status = "absent"
    BY <1>1 DEF CreatePayment
  <2>2. payments'[p].status = "Pending" /\ \A o \in PaymentIds : o # p => payments'[o] = payments[o]
    BY <1>0, <1>1, PaymentCreated
  <2>3. QED
    BY <2>1, <2>2 DEF Counts
<1>2. ~AttachReference(w)
  <2> SUFFICES ASSUME AttachReference(w) PROVE FALSE
    OBVIOUS
  <2>1. payments'[q].status = payments[q].status
    BY ReferenceOnly
  <2>2. req[w].id \in PaymentIds /\ payments[req[w].id].status = "Pending"
    BY DEF AttachReference, Current, PaymentCurrent, WithPayment, SInv, StageOK, PaymentStages
  <2>3. q # req[w].id => payments'[q] = payments[q]
    BY <2>2 DEF AttachReference, SInv, TypeOK
  <2>4. QED
    BY <2>1, <2>2, <2>3 DEF Counts
<1>3. ConfirmSave(w) \/ WebhookSave(w)
  <2>1. payments' # payments
    BY DEF Counts
  <2>2. ~Start(w)
    BY <1>1, <2>1 DEF Start, CreateUser, BeginConfirm, WebhookLoadPayment, DeleteUser
  <2>3. QED
    BY <1>2, <2>1, <2>2 DEF Continue, AddCharge, ConfirmLoadPayment, ConfirmLoadUser,
       ConfirmLoadCharge, WebhookLoadUser, DeleteLoadCharges, DeleteSave, Abort
<1>4. /\ req[w].id \in PaymentIds /\ payments[req[w].id].status = "Pending"
      /\ req[w].payment = payments[req[w].id]
  BY <1>3, Debits
<1>5. /\ PaymentsKept /\ \A o \in PaymentIds : o # req[w].id => payments'[o] = payments[o]
      /\ WebhookSave(w) =>
           payments'[req[w].id].updatedBy =
             Column(payments[req[w].id].updatedBy, req[w].payment.updatedBy, NoAccount)
  BY <1>3, RequestFields, Confirms DEF ConfirmSave, WebhookSave, SInv
<1>6. q = req[w].id
  BY <1>5 DEF Counts
<1>7. WebhookSave(w) => payments'[q].updatedBy = NoAccount
  BY <1>4, <1>5, <1>6, CurrentColumn
<1>8. Counts(q, c)' /\ ~WebhookSave(w)
  BY <1>4, <1>6, <1>7 DEF Counts
<1>9. req[w].payment.charge = c
  BY <1>4, <1>5, <1>6, <1>8 DEF Counts, PaymentsKept
<1>10. QED
  BY <1>3, <1>4, <1>6, <1>8, <1>9

(* And it always does.                                                     *)
LEMMA CountsNow ==
  ASSUME SInv, NEW w \in Workers, Current(w), ConfirmSave(w),
         NEW p \in PaymentIds, p = req[w].id, NEW c, c = req[w].payment.charge
  PROVE  Counts(p, c)' /\ ~Counts(p, c)
<1>1. payments[p].status = "Pending" /\ req[w].payment = payments[p]
  BY Debits
<1>2. req[w].actor \in Accounts /\ req[w].actor # NoAccount
  BY NullsAreNotRows DEF ConfirmSave, Current, ActorCurrent, WithActor, Accounts
<1>3. /\ payments'[p].status = "Confirmed" /\ PaymentsKept
      /\ payments'[p].updatedBy =
           Column(payments[p].updatedBy, req[w].payment.updatedBy, req[w].actor)
  BY <1>2, Confirms DEF ConfirmSave
<1>4. payments'[p].updatedBy = req[w].actor /\ payments'[p].charge = c
  BY <1>1, <1>3, CurrentColumn DEF PaymentsKept
<1>5. QED
  BY <1>1, <1>2, <1>3, <1>4 DEF Counts

(* The credited payments keep their amounts, so their worth changes with   *)
(* the set alone.                                                          *)
LEMMA WorthNext ==
  ASSUME SInv, [Next]_vars, NEW c \in Students,
         IsFiniteSet(Units(CreditedOn(c)))
  PROVE  /\ IsFiniteSet(Piles(CreditedOn(c), Height'))
         /\ Cardinality(Piles(CreditedOn(c), Height')) = Worth(CreditedOn(c))
         /\ Units(CreditedOn(c))' = Piles(CreditedOn(c)', Height')
         /\ Worth(CreditedOn(c))' = Cardinality(Units(CreditedOn(c))')
<1>1. CreditedOn(c) \in SUBSET PaymentIds /\ CreditedOn(c)' \in SUBSET PaymentIds
  BY CreditedPayments
<1>2. \A p \in CreditedOn(c) : Height'[p] = Height[p]
  BY PaymentStep, CreditedPayments DEF Counts, Height, PaymentsKept
<1>3. Piles(CreditedOn(c), Height') = Units(CreditedOn(c))
  BY <1>1, <1>2, SamePiles, ConfirmedPiles
<1>4. Units(CreditedOn(c))' = Piles(CreditedOn(c)', Height')
  <2>1. Units(CreditedOn(c))' = UNION {{p} \X (1..payments'[p].amount) : p \in CreditedOn(c)'}
    BY DEF Units
  <2>2. \A p \in CreditedOn(c)' : Height'[p] = payments'[p].amount
    BY <1>1 DEF Height
  <2>3. \A u : u \in Units(CreditedOn(c))' <=> u \in Piles(CreditedOn(c)', Height')
    BY <2>1, <2>2, InPiles
  <2>4. QED
    BY <2>3
<1>5. QED
  BY <1>3, <1>4 DEF Worth

LEMMA SumNext ==
  ASSUME SInv, LifeInv, CInv, [Next]_vars, NEW c \in Students, Sum(c), charges'[c].status = "active"
  PROVE  IsFiniteSet(Units(CreditedOn(c)))' /\ charges'[c].paid = Worth(CreditedOn(c))'
<1> DEFINE Goal == IsFiniteSet(Units(CreditedOn(c)))' /\ charges'[c].paid = Worth(CreditedOn(c))'
<1>1. ASSUME charges'[c] = charges[c], CreditedOn(c)' = CreditedOn(c) PROVE Goal
  BY <1>1, WorthNext DEF Sum
<1>2. CASE UNCHANGED vars
  <2>1. CreditedOn(c)' = CreditedOn(c)
    BY <1>2 DEF vars, CreditedOn, ConfirmedOn
  <2>2. QED
    BY <1>1, <1>2, <2>1 DEF vars
<1>3. ASSUME NEW w \in Workers, Start(w) \/ Continue(w) PROVE Goal
  <2>0. Current(w)
    BY DEF CInv
  <2>1. CASE ConfirmSave(w) /\ req[w].payment.charge = c
    <3>1. PICK p \in PaymentIds : p = req[w].id
      BY <2>0, <2>1, Debits
    <3>2. /\ charges[c].status = "active"
          /\ charges'[c].paid = charges[c].paid + req[w].payment.amount
      BY <2>0, <2>1, Credits
    <3>3. Counts(p, c)' /\ ~Counts(p, c)
      BY <2>0, <2>1, <3>1, CountsNow
    <3>4. \A q \in PaymentIds : q # p => (Counts(q, c)' <=> Counts(q, c))
      BY <1>3, <2>0, <3>1, CreditedOnStep
    <3>5. CreditedOn(c)' = CreditedOn(c) \cup {p} /\ p \notin CreditedOn(c)
      BY <3>3, <3>4, CreditedPayments
    <3>6. Height'[p] = req[w].payment.amount /\ req[w].payment.amount \in Nat
      <4>1. payments[p].status = "Pending" /\ req[w].payment = payments[p]
        BY <2>0, <2>1, <3>1, Debits
      <4>2. payments'[p].amount = payments[p].amount
        BY <4>1, PaymentStep DEF PaymentsKept
      <4>3. QED
        BY <4>1, <4>2, RequestFields DEF Height, SInv
    <3>7. /\ IsFiniteSet(Piles(CreditedOn(c), Height'))
          /\ Cardinality(Piles(CreditedOn(c), Height')) = charges[c].paid
      BY <3>2, WorthNext DEF Sum
    <3>8. /\ IsFiniteSet(Piles(CreditedOn(c) \cup {p}, Height'))
          /\ Cardinality(Piles(CreditedOn(c) \cup {p}, Height')) =
               charges[c].paid + req[w].payment.amount
      BY <3>5, <3>6, <3>7, PileAdded
    <3>9. QED
      BY <3>2, <3>5, <3>8, WorthNext DEF Sum
  <2>2. CASE ~(ConfirmSave(w) /\ req[w].payment.charge = c)
    <3>1. CreditedOn(c)' = CreditedOn(c)
      <4>1. \A q \in PaymentIds : Counts(q, c)' <=> Counts(q, c)
        BY <1>3, <2>0, <2>2, CreditedOnStep
      <4>2. QED
        BY <4>1, CreditedPayments
    <3>2. CASE charges'[c] = charges[c]
      BY <1>1, <3>1, <3>2
    <3>3. CASE charges'[c] # charges[c]
      <4>1. AddCharge(w) /\ c = req[w].subject
        <5>1. ~ConfirmSave(w)
          BY <2>0, <2>2, <3>3, Credits
        <5>2. ~DeleteSave(w)
          BY <2>0, <3>3, Clears
        <5>3. AddCharge(w)
          BY <1>3, <3>3, <5>1, <5>2 DEF Start, Continue, CreateUser, CreatePayment, BeginConfirm,
             WebhookLoadPayment, DeleteUser, AttachReference, ConfirmLoadPayment, ConfirmLoadUser,
             ConfirmLoadCharge, WebhookLoadUser, WebhookSave, DeleteLoadCharges, Abort
        <5>4. QED
          BY <3>3, <5>3, ChargeAdded
      <4>2. charges[c].status = "absent"
        BY <4>1 DEF LifeInv, FirstCharge, Adds, AddCharge
      <4>3. CreditedOn(c) = {}
        BY <4>2, CreditedPayments DEF Counts, LifeInv, HasCharge
      <4>4. Units(CreditedOn(c))' = {}
        BY <3>1, <4>3 DEF Units
      <4>5. charges'[c].paid = 0
        BY <4>1, ChargeAdded
      <4>6. QED
        BY <4>4, <4>5, FS_EmptySet DEF Worth
    <3>4. QED
      BY <3>2, <3>3
  <2>3. QED
    BY <2>1, <2>2
<1>4. QED
  BY <1>2, <1>3 DEF Next

(* An active charge shows the sum of the payments that ConfirmPaymentAsync *)
(* confirmed on it, none twice and none missing.                           *)
THEOREM PaidStaysExact == Spec /\ []Undisturbed => []PaidIsExact
<1>1. Init => \A c \in Students : Sum(c)
  BY DEF Init, AbsentCharge, Sum
<1>2. SInv /\ LifeInv /\ CInv /\ (\A c \in Students : Sum(c)) /\ [Next]_vars
        => (\A c \in Students : Sum(c))'
  BY SumNext DEF Sum
<1>3. (\A c \in Students : Sum(c)) => PaidIsExact
  BY DEF Sum, PaidIsExact
<1>4. QED
  BY <1>1, <1>2, <1>3, UndisturbedInvariant, PTL DEF Spec

(***************************************************************************)
(* The Ledger.  View is what the Ledger sees of a payment; every save is   *)
(* one of its steps, every other action shows it nothing.                  *)
(***************************************************************************)
ByWebhook(row) == row.status = "Confirmed" /\ row.updatedBy = NoAccount

Entry(status, user, charge, amount, byWebhook) ==
  [status |-> status, user |-> user, charge |-> charge, amount |-> amount, byWebhook |-> byWebhook]

View(row) == Entry(row.status, row.user, row.charge, row.amount, ByWebhook(row))

LEMMA LedgerView == LedgerPayments = [p \in PaymentIds |-> View(payments[p])]
BY DEF LedgerPayments, View, Entry, ByWebhook

LEMMA SeenAsConfirmed ==
  ASSUME NEW row, NEW t \in BOOLEAN, row.status = "Confirmed", t <=> row.updatedBy = NoAccount
  PROVE  View(row) = Entry("Confirmed", row.user, row.charge, row.amount, t)
<1>1. ByWebhook(row) = t
  BY DEF ByWebhook
<1>2. QED
  BY <1>1, Zenon DEF View

LEMMA SeenAsUnconfirmed ==
  ASSUME NEW row, row.status # "Confirmed"
  PROVE  View(row) = Entry(row.status, row.user, row.charge, row.amount, FALSE)
<1>1. ByWebhook(row) = FALSE
  BY DEF ByWebhook
<1>2. QED
  BY <1>1, Zenon DEF View

(* One payment changes: so does its entry in the Ledger.                   *)
LEMMA OneEntry ==
  ASSUME NEW p \in PaymentIds, \A q \in PaymentIds : q # p => payments'[q] = payments[q]
  PROVE  LedgerPayments' = [LedgerPayments EXCEPT ![p] = View(payments'[p])]
<1>1. LedgerPayments' = [q \in PaymentIds |-> View(payments'[q])]
  BY LedgerView DEF LedgerPayments, View, Entry, ByWebhook
<1>2. QED
  BY <1>1, LedgerView

Settled(f, p, t) == [f EXCEPT ![p].status = "Confirmed", ![p].byWebhook = t]
Replaced(f, p, entry) == [f EXCEPT ![p] = entry]

LEMMA SettledEntry ==
  ASSUME NEW f, NEW p \in DOMAIN f,
         NEW user, NEW charge, NEW amount, NEW t \in BOOLEAN,
         f[p] = Entry("Pending", user, charge, amount, FALSE)
  PROVE  Settled(f, p, t) = Replaced(f, p, Entry("Confirmed", user, charge, amount, t))
<1>1. PICK old : f[p] = Entry("Pending", user, charge, amount, old)
  OBVIOUS
<1> DEFINE e == [f[p] EXCEPT !.status = "Confirmed"]
           g == [f EXCEPT ![p].status = "Confirmed"]
           h == [g EXCEPT ![p].byWebhook = t]
<1>2. e = Entry("Confirmed", user, charge, amount, old)
  BY ONLY <1>1 DEF Entry
<1>3. g = [f EXCEPT ![p] = e]
  OBVIOUS
<1>4. Settled(f, p, t) = h
  BY DEF Settled
<1> HIDE DEF e
<1>5. g[p] = e
  BY <1>3
<1> HIDE DEF g
<1>6. h = [g EXCEPT ![p] = [e EXCEPT !.byWebhook = t]]
  BY <1>5
<1>7. [e EXCEPT !.byWebhook = t] = Entry("Confirmed", user, charge, amount, t)
  BY ONLY <1>2 DEF Entry
<1> HIDE DEF h
<1>8. QED
  BY <1>3, <1>4, <1>6, <1>7 DEF Replaced

LEMMA SameCharge ==
  ASSUME NEW x \in ChargeRow, NEW y \in ChargeRow,
         x.status = y.status, x.amount = y.amount, x.paid = y.paid, x.settled = y.settled
  PROVE  x = y
BY DEF ChargeRow

LEMMA SameCharges ==
  ASSUME NEW f \in [Students -> ChargeRow], NEW g \in [Students -> ChargeRow],
         \A c \in Students : f[c] = g[c]
  PROVE  f = g
OBVIOUS

(* Crediting a charge in place.                                            *)
LEMMA CreditedCharge ==
  ASSUME NEW f \in [Students -> ChargeRow], NEW g \in [Students -> ChargeRow],
         NEW c \in Students, NEW x \in Nat, NEW full \in BOOLEAN,
         g[c].status = f[c].status, g[c].amount = f[c].amount,
         g[c].paid = x, g[c].settled = full,
         \A s \in Students : s # c => g[s] = f[s]
  PROVE  g = [f EXCEPT ![c].paid = x, ![c].settled = full]
<1> DEFINE row == [f[c] EXCEPT !.paid = x]
           h   == [f EXCEPT ![c].paid = x]
           k   == [h EXCEPT ![c].settled = full]
<1>1. row \in ChargeRow /\ row.status = f[c].status /\ row.amount = f[c].amount /\ row.paid = x
  BY DEF ChargeRow
<1>2. h = [f EXCEPT ![c] = row]
  OBVIOUS
<1>3. [f EXCEPT ![c].paid = x, ![c].settled = full] = k
  OBVIOUS
<1> HIDE DEF row
<1>4. /\ h \in [Students -> ChargeRow] /\ h[c] = row
      /\ \A s \in Students : s # c => h[s] = f[s]
  BY <1>1, <1>2
<1> HIDE DEF h
<1> DEFINE new == [row EXCEPT !.settled = full]
<1>5. k = [h EXCEPT ![c] = new]
  BY <1>4
<1>6. /\ new \in ChargeRow /\ new.status = f[c].status /\ new.amount = f[c].amount
      /\ new.paid = x /\ new.settled = full
  BY <1>1 DEF ChargeRow
<1> HIDE DEF new, k
<1>7. g[c] = new
  BY <1>6, SameCharge
<1>8. /\ k \in [Students -> ChargeRow] /\ k[c] = new
      /\ \A s \in Students : s # c => k[s] = f[s]
  BY <1>4, <1>5, <1>6
<1>9. g = k
  BY <1>7, <1>8, SameCharges
<1>10. QED
  BY <1>3, <1>9

(* Deleting a charge in place.                                             *)
LEMMA DeletedCharge ==
  ASSUME NEW f \in [Students -> ChargeRow], NEW g \in [Students -> ChargeRow],
         NEW c \in Students,
         g[c].status = "deleted", g[c].amount = f[c].amount,
         g[c].paid = f[c].paid, g[c].settled = f[c].settled,
         \A s \in Students : s # c => g[s] = f[s]
  PROVE  g = [f EXCEPT ![c].status = "deleted"]
<1> DEFINE row == [f[c] EXCEPT !.status = "deleted"]
<1>1. /\ row \in ChargeRow /\ row.status = "deleted" /\ row.amount = f[c].amount
      /\ row.paid = f[c].paid /\ row.settled = f[c].settled
  BY DEF ChargeRow
<1>2. [f EXCEPT ![c].status = "deleted"] = [f EXCEPT ![c] = row]
  OBVIOUS
<1> HIDE DEF row
<1>3. g[c] = row
  BY <1>1, SameCharge
<1>4. g = [f EXCEPT ![c] = row]
  BY <1>1, <1>3, SameCharges
<1>5. QED
  BY <1>2, <1>4

(* The saves as steps of the Ledger.                                       *)
LEMMA CreateUserOpens ==
  ASSUME SInv, NEW w \in Workers, NEW a \in Admins, NEW s \in Students, NEW rate \in Rates,
         CreateUser(w, a, s, rate)
  PROVE  L!Open(s, rate)
<1>1. LedgerPayments' = LedgerPayments
  BY DEF CreateUser, LedgerPayments
<1>2. QED
  BY <1>1 DEF CreateUser, InitialBalance, L!Open

LEMMA AddChargeBills ==
  ASSUME SInv, LifeInv, CInv, NEW w \in Workers, AddCharge(w)
  PROVE  req[w].subject \in Students /\ L!Bill(req[w].subject)
<1>1. /\ req[w].subject \in Students /\ charges[req[w].subject].status = "absent"
      /\ users[req[w].subject].status = "active"
      /\ req[w].balance = users[req[w].subject].balance /\ req[w].balance > 0
  BY ChargeAdded DEF AddCharge, LifeInv, FirstCharge, Adds, CInv, Current, SubjectCurrent,
                     WithSubject
<1>2. LedgerPayments' = LedgerPayments
  BY DEF AddCharge, LedgerPayments
<1>3. QED
  BY <1>1, <1>2 DEF AddCharge, L!Bill

LEMMA CreatePaymentPays ==
  ASSUME SInv, NEW w \in Workers, NEW a \in Accounts, NEW p \in PaymentIds,
         NEW c \in Students \cup {NoCharge}, NEW amount \in Amounts,
         NEW method \in {"Manual", "MockGateway"},
         CreatePayment(w, a, p, c, amount, method)
  PROVE  L!Pay(p, a, c, amount)
<1>1. /\ payments'[p].status = "Pending" /\ payments'[p].user = a /\ payments'[p].charge = c
      /\ payments'[p].amount = amount
      /\ \A q \in PaymentIds : q # p => payments'[q] = payments[q]
  BY PaymentCreated DEF SInv
<1>2. View(payments'[p]) = Entry("Pending", a, c, amount, FALSE)
  BY <1>1, SeenAsUnconfirmed
<1>3. LedgerPayments' = [LedgerPayments EXCEPT ![p] = Entry("Pending", a, c, amount, FALSE)]
  BY <1>1, <1>2, OneEntry
<1>4. LedgerPayments[p].status = payments[p].status
  BY DEF LedgerPayments
<1>5. QED
  BY <1>3, <1>4 DEF CreatePayment, Authenticated, L!Pay, Entry

LEMMA AttachReferenceStutters ==
  ASSUME SInv, CInv, NEW w \in Workers, AttachReference(w)
  PROVE  LedgerPayments' = LedgerPayments
<1> DEFINE p   == req[w].id
           new == [req[w].payment EXCEPT !.reference = TRUE, !.updatedBy = req[w].actor]
<1>1. /\ p \in PaymentIds /\ req[w].payment = payments[p] /\ payments[p].status = "Pending"
  BY DEF AttachReference, SInv, StageOK, PaymentStages, CInv, Current, PaymentCurrent,
         WithPayment
<1>2. new \in PaymentRow /\ new.status = "Pending"
  BY <1>1, RequestFields DEF SInv, PaymentRow
<1>3. payments' = [payments EXCEPT ![p] = PaymentColumns(payments[p], payments[p], new)]
  BY <1>1 DEF AttachReference
<1> HIDE DEF p, new
<1>4. payments[p] \in PaymentRow
  BY <1>1 DEF SInv, TypeOK
<1>5. payments'[p] = PaymentColumns(payments[p], payments[p], new)
  BY <1>1, <1>3 DEF SInv, TypeOK
<1>6. /\ payments'[p].user = payments[p].user /\ payments'[p].charge = payments[p].charge
      /\ payments'[p].amount = payments[p].amount /\ payments'[p].status = "Pending"
  BY <1>1, <1>2, <1>4, <1>5, PaymentColumnsType DEF Column
<1>7. View(payments'[p]) = View(payments[p])
  BY <1>1, <1>6, SeenAsUnconfirmed
<1>8. \A q \in PaymentIds : q # p => payments'[q] = payments[q]
  BY <1>3 DEF SInv, TypeOK
<1>9. QED
  BY <1>1, <1>7, <1>8, OneEntry, LedgerView

(* A confirmation as the Ledger sees the payment.                          *)
LEMMA SettlesPayment ==
  ASSUME SInv, NEW w \in Workers, Current(w), NEW t \in BOOLEAN,
         \/ ConfirmSave(w) /\ t = FALSE
         \/ WebhookSave(w) /\ t = TRUE
  PROVE  /\ LedgerPayments[req[w].id] =
              Entry("Pending", req[w].subject, req[w].payment.charge, req[w].payment.amount, FALSE)
         /\ LedgerPayments' = Settled(LedgerPayments, req[w].id, t)
<1>1. PICK by \in Accounts \cup {NoAccount} :
        /\ \/ ConfirmSave(w) /\ by = req[w].actor
           \/ WebhookSave(w) /\ by = NoAccount
        /\ t <=> by = NoAccount
  <2>1. CASE ConfirmSave(w) /\ t = FALSE
    <3>1. req[w].actor \in Accounts /\ req[w].actor # NoAccount
      BY <2>1, NullsAreNotRows DEF ConfirmSave, Current, ActorCurrent, WithActor, Accounts
    <3>2. QED
      BY <2>1, <3>1
  <2>2. CASE WebhookSave(w) /\ t = TRUE
    BY <2>2
  <2>3. QED
    BY <2>1, <2>2
<1>2. PICK p \in PaymentIds : p = req[w].id
  BY Debits
<1>3. /\ payments[p].status = "Pending" /\ req[w].payment = payments[p]
      /\ req[w].subject = payments[p].user
  BY <1>2, Debits
<1>4. /\ payments'[p].status = "Confirmed"
      /\ payments'[p].updatedBy = Column(payments[p].updatedBy, req[w].payment.updatedBy, by)
      /\ PaymentsKept /\ \A q \in PaymentIds : q # p => payments'[q] = payments[q]
  BY <1>1, <1>2, Confirms DEF ConfirmSave, WebhookSave
<1>5. /\ payments'[p].updatedBy = by /\ payments'[p].user = payments[p].user
      /\ payments'[p].charge = payments[p].charge /\ payments'[p].amount = payments[p].amount
  BY <1>3, <1>4, CurrentColumn DEF PaymentsKept
<1>6. View(payments[p]) =
        Entry("Pending", payments[p].user, payments[p].charge, payments[p].amount, FALSE)
  BY <1>3, SeenAsUnconfirmed
<1>7. View(payments'[p]) =
        Entry("Confirmed", payments[p].user, payments[p].charge, payments[p].amount, t)
  BY <1>1, <1>4, <1>5, SeenAsConfirmed
<1>8. LedgerPayments[p] = View(payments[p]) /\ DOMAIN LedgerPayments = PaymentIds
  BY LedgerView
<1>9. Settled(LedgerPayments, p, t) = Replaced(LedgerPayments, p, View(payments'[p]))
  <2>1. PICK f, u, c, amount : /\ f = LedgerPayments /\ u = payments[p].user
                               /\ c = payments[p].charge /\ amount = payments[p].amount
    OBVIOUS
  <2>2. p \in DOMAIN f /\ f[p] = Entry("Pending", u, c, amount, FALSE)
    BY <1>6, <1>8, <2>1
  <2>3. Settled(f, p, t) = Replaced(f, p, Entry("Confirmed", u, c, amount, t))
    BY <2>2, SettledEntry
  <2>4. QED
    BY <1>7, <2>1, <2>3
<1>10. LedgerPayments' = Replaced(LedgerPayments, p, View(payments'[p]))
  BY <1>4, OneEntry DEF Replaced
<1>11. QED
  BY <1>2, <1>3, <1>6, <1>8, <1>9, <1>10

LEMMA ConfirmSettles ==
  ASSUME SInv, SInv', NEW w \in Workers, Current(w), ConfirmSave(w)
  PROVE  req[w].id \in PaymentIds /\ L!Settle(req[w].id, FALSE)
<1>1. PICK p, u, c, amount :
        /\ p \in PaymentIds /\ p = req[w].id /\ u = req[w].subject
        /\ c = req[w].payment.charge /\ amount = req[w].payment.amount
  BY Debits
<1>2. /\ LedgerPayments[p] = Entry("Pending", u, c, amount, FALSE)
      /\ LedgerPayments' = Settled(LedgerPayments, p, FALSE)
  BY <1>1, SettlesPayment
<1>3. /\ users[u].status = "active"
      /\ users' = [users EXCEPT ![u].balance = Reduced(@, amount)]
  BY <1>1, Debits
<1>4. charges' = IF c \in Students /\ charges[c].status = "active"
                 THEN [charges EXCEPT ![c].paid = charges[c].paid + amount,
                                      ![c].settled = charges[c].paid + amount >= charges[c].amount]
                 ELSE charges
  <2>1. charges \in [Students -> ChargeRow] /\ charges' \in [Students -> ChargeRow]
    BY DEF SInv, TypeOK
  <2>2. CASE c \in Students /\ charges[c].status = "active"
    <3>1. PICK full \in BOOLEAN : full = Covers(charges[c].paid + amount, charges[c].amount)
      <4>1. Covers(charges[c].paid + amount, charges[c].amount) \in BOOLEAN
        BY DEF Covers
      <4>2. QED
        BY <4>1, Zenon
    <3>2. /\ charges'[c].status = charges[c].status /\ charges'[c].amount = charges[c].amount
          /\ charges'[c].paid = charges[c].paid + amount
          /\ charges'[c].settled = Covers(charges[c].paid + amount, charges[c].amount)
      BY <1>1, <2>2, Credits
    <3>3. charges'[c].settled = full
      BY <3>1, <3>2, Zenon
    <3>4. \A s \in Students : s # c => charges'[s] = charges[s]
      BY <1>1, Credits
    <3>5. charges[c].paid + amount \in Nat
      BY <1>1, <2>1, <2>2, RequestFields DEF SInv, ChargeRow
    <3>6. charges' = [charges EXCEPT ![c].paid = charges[c].paid + amount, ![c].settled = full]
      BY <2>1, <2>2, <3>2, <3>3, <3>4, <3>5, CreditedCharge
    <3>7. QED
      BY <2>2, <3>1, <3>6, Zenon DEF Covers
  <2>3. CASE ~(c \in Students /\ charges[c].status = "active")
    <3>1. \A s \in Students : charges'[s] = charges[s]
      BY <1>1, <2>3, Credits
    <3>2. charges' = charges
      BY <2>1, <3>1, SameCharges
    <3>3. QED
      BY <2>3, <3>2
  <2>4. QED
    BY <2>2, <2>3
<1>5. /\ LedgerPayments[p].status = "Pending" /\ LedgerPayments[p].user = u
      /\ LedgerPayments[p].charge = c /\ LedgerPayments[p].amount = amount
  BY <1>2 DEF Entry
<1>6. users' = [users EXCEPT ![u].balance = L!Unpaid(@, amount)]
  BY <1>3 DEF Reduced, L!Unpaid
<1>7. QED
  BY <1>1, <1>2, <1>3, <1>4, <1>5, <1>6 DEF L!Settle, Settled

LEMMA WebhookSettles ==
  ASSUME SInv, NEW w \in Workers, Current(w), WebhookSave(w)
  PROVE  req[w].id \in PaymentIds /\ L!Settle(req[w].id, TRUE)
<1>1. PICK p, u, c, amount :
        /\ p \in PaymentIds /\ p = req[w].id /\ u = req[w].subject
        /\ c = req[w].payment.charge /\ amount = req[w].payment.amount
  BY Debits
<1>2. /\ LedgerPayments[p] = Entry("Pending", u, c, amount, FALSE)
      /\ LedgerPayments' = Settled(LedgerPayments, p, TRUE)
  BY <1>1, SettlesPayment
<1>3. /\ users[u].status = "active"
      /\ users' = [users EXCEPT ![u].balance = Reduced(@, amount)]
  BY <1>1, Debits
<1>4. /\ LedgerPayments[p].status = "Pending" /\ LedgerPayments[p].user = u
      /\ LedgerPayments[p].amount = amount
  BY <1>2 DEF Entry
<1>5. users' = [users EXCEPT ![u].balance = L!Unpaid(@, amount)]
  BY <1>3 DEF Reduced, L!Unpaid
<1>6. charges' = charges
  BY DEF WebhookSave
<1>7. QED
  BY <1>1, <1>2, <1>3, <1>4, <1>5, <1>6 DEF L!Settle, Settled

LEMMA DeleteCloses ==
  ASSUME SInv, SInv', NEW w \in Workers, Current(w), DeleteSave(w)
  PROVE  req[w].subject \in Accounts /\ L!Close(req[w].subject)
<1>1. PICK u \in Accounts : u = req[w].subject
  BY Clears
<1>2. /\ users[u].status = "active"
      /\ users' = [users EXCEPT ![u] = [status |-> "deleted", balance |-> 0]]
  BY <1>1, Clears
<1>3. charges' = IF u \in Students /\ charges[u].status = "active"
                 THEN [charges EXCEPT ![u].status = "deleted"] ELSE charges
  <2>1. charges \in [Students -> ChargeRow] /\ charges' \in [Students -> ChargeRow]
    BY DEF SInv, TypeOK
  <2>2. CASE u \in Students /\ charges[u].status = "active"
    <3>1. /\ charges'[u].status = "deleted"
          /\ \A s \in Students : s # u => charges'[s] = charges[s]
      BY <1>1, <2>2, Clears
    <3>2. /\ charges'[u].amount = charges[u].amount /\ charges'[u].paid = charges[u].paid
          /\ charges'[u].settled = charges[u].settled
      BY <2>2, ChargeDeleted
    <3>3. charges' = [charges EXCEPT ![u].status = "deleted"]
      BY <2>1, <2>2, <3>1, <3>2, DeletedCharge
    <3>4. QED
      BY <2>2, <3>3
  <2>3. CASE ~(u \in Students /\ charges[u].status = "active")
    <3>1. \A s \in Students : charges'[s] = charges[s]
      BY <1>1, <2>3, Clears
    <3>2. charges' = charges
      BY <2>1, <3>1, SameCharges
    <3>3. QED
      BY <2>3, <3>2
  <2>4. QED
    BY <2>2, <2>3
<1>4. LedgerPayments' = LedgerPayments
  BY DEF DeleteSave, LedgerPayments
<1>5. QED
  BY <1>1, <1>2, <1>3, <1>4 DEF L!Close

LEMMA LedgerInit == Init => L!Init
<1> SUFFICES ASSUME Init PROVE L!Init
  OBVIOUS
<1>1. ASSUME NEW p \in PaymentIds
      PROVE  View(payments[p]) = Entry("absent", NoAccount, NoCharge, 0, FALSE)
  <2>1. /\ payments[p].status = "absent" /\ payments[p].user = NoAccount
        /\ payments[p].charge = NoCharge /\ payments[p].amount = 0
    BY DEF Init, AbsentPayment
  <2>2. QED
    BY <2>1, SeenAsUnconfirmed
<1>2. LedgerPayments = [p \in PaymentIds |-> Entry("absent", NoAccount, NoCharge, 0, FALSE)]
  BY <1>1, LedgerView
<1>3. QED
  BY <1>2 DEF Init, AbsentCharge, Entry, Accounts, L!Init, L!Accounts

LEMMA LedgerStep ==
  ASSUME SInv, SInv', LifeInv, CInv, [Next]_vars
  PROVE  [L!Next]_L!ledger
<1>1. ASSUME UNCHANGED <<users, charges, LedgerPayments>> PROVE UNCHANGED L!ledger
  BY <1>1 DEF L!ledger
<1>2. ASSUME UNCHANGED <<users, charges, payments>> PROVE UNCHANGED L!ledger
  BY <1>1, <1>2 DEF LedgerPayments
<1>3. ASSUME NEW w \in Workers, Start(w) PROVE [L!Next]_L!ledger
  <2>1. ASSUME NEW a \in Admins, NEW s \in Students, NEW rate \in Rates, CreateUser(w, a, s, rate)
        PROVE  L!Next
    BY <2>1, CreateUserOpens DEF L!Next
  <2>2. ASSUME NEW a \in Accounts, NEW p \in PaymentIds, NEW c \in Students \cup {NoCharge},
               NEW amount \in Amounts, NEW method \in {"Manual", "MockGateway"},
               CreatePayment(w, a, p, c, amount, method)
        PROVE  L!Next
    BY <2>2, CreatePaymentPays DEF L!Next, L!Accounts, Accounts
  <2>3. QED
    BY <1>2, <1>3, <2>1, <2>2 DEF Start, BeginConfirm, WebhookLoadPayment, DeleteUser
<1>4. ASSUME NEW w \in Workers, Continue(w) PROVE [L!Next]_L!ledger
  <2>1. Current(w)
    BY DEF CInv
  <2>2. ASSUME AddCharge(w) PROVE L!Next
    BY <2>2, AddChargeBills DEF L!Next
  <2>3. ASSUME AttachReference(w) PROVE UNCHANGED L!ledger
    BY <1>1, <2>3, AttachReferenceStutters DEF AttachReference
  <2>4. ASSUME ConfirmSave(w) PROVE L!Next
    BY <2>1, <2>4, ConfirmSettles DEF L!Next
  <2>5. ASSUME WebhookSave(w) PROVE L!Next
    BY <2>1, <2>5, WebhookSettles DEF L!Next
  <2>6. ASSUME DeleteSave(w) PROVE L!Next
    BY <2>1, <2>6, DeleteCloses DEF L!Next, L!Accounts, Accounts
  <2>7. QED
    BY <1>2, <1>4, <2>2, <2>3, <2>4, <2>5, <2>6
       DEF Continue, ConfirmLoadPayment, ConfirmLoadUser, ConfirmLoadCharge, WebhookLoadUser,
           DeleteLoadCharges, Abort
<1>5. CASE UNCHANGED vars
  BY <1>2, <1>5 DEF vars
<1>6. QED
  BY <1>3, <1>4, <1>5 DEF Next

(* Requests that leave each other's copies alone implement the Ledger: a   *)
(* confirmation settles its payment once and in full, a deletion closes    *)
(* the account with its debt, and what is cut short has happened up to its *)
(* last save.                                                              *)
THEOREM UndisturbedServiceImplementsLedger == Spec /\ []Undisturbed => ImplementsLedger
<1>1. SInv /\ SInv' /\ LifeInv /\ CInv /\ [Next]_vars => [L!Next]_L!ledger
  BY LedgerStep
<1>2. QED
  BY <1>1, LedgerInit, UndisturbedInvariant, PTL DEF Spec, ImplementsLedger, L!Spec

(***************************************************************************)
(* A single worker.                                                        *)
(***************************************************************************)

(* A service with a single worker is undisturbed, whatever it is asked.    *)
OneWorker == \A v, w \in Workers : v = w

(* What the runs with one request in flight check, for any accounts, rates *)
(* and payments.                                                           *)
THEOREM SerialServiceIsExact ==
  ASSUME OneWorker
  PROVE  Spec => /\ []SettledIsExact /\ []PaidIsExact /\ []DeletedOwesNothing
                 /\ DebtNeverGrows /\ DebtMovesByPayment /\ ImplementsLedger
<1>1. Undisturbed
  BY DEF OneWorker, Undisturbed
<1>2. QED
  BY <1>1, SettledStaysExact, PaidStaysExact, DeletedStaysClear, DebtsOnlyShrink,
     DebtMovesAsPaid, UndisturbedServiceImplementsLedger, PTL
=============================================================================
