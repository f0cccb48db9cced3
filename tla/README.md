# A TLA+ model of e-dormitory

e-dormitory is a web application for a student dormitory: an ASP.NET Core API
over PostgreSQL (`src/src/backend`), a React client (`src/src/frontend/web`) and
container files (`src/infrastructure`). This directory holds TLA+ modules that
model its services, configurations that check them with TLC, and proofs checked
by TLAPS. `PROJECT.json` maps every definition that models code to the lines it
stands for and lists the runs, the hazards, the theorems and the findings.

Paths below are relative to `src/src/backend/` unless they begin with `src/`.

## The system

| Component | State | Operations | Modelled by |
|---|---|---|---|
| Billing (`PaymentService`, `StudentCharge`, `Payment`) | `payments`, `student_charges`, `users.Balance` | create, confirm and webhook-confirm a payment; first charge of a new student; clearing of a deleted account | `Billing`, `Ledger` |
| Accommodation (`UserService`, `RoomService`) | `users.RoomId`, `users.IsActive`, `rooms`, `relocation_requests` | admit and delete a student, ask for and review a relocation | `Accommodation`, `Seats` |
| Guest passes (`PassService`) | `guest_passes`, `pass_logs` | issue a pass, validate it at the gate (entry and exit are the same call) | `GuestPasses`, `Gate` |
| Debt listings (`UserService`, accountant's page) | none | effective debt of a resident, the accountant's total | `Billing`, `MCBilling` |
| Guard's terminal (`GuardPage`) | cached passes, the checked copy, the pending call, a timer | check a code, record an entry or an exit, reset | `GuardTerminal` over `GuestPasses` |
| Checkout and accountant's desk (`StudentFinancePage`, `AccountantPage`) | cached charges and payments, modals, the pending calls | create and confirm a payment, confirm somebody's payment with a receipt | `Checkout` over `Ledger` |
| Web client (`App`, `LoginPage`, `AppShell`, `api`, all pages) | the session and every cached query, the route, the dialog, pending calls | login, logout, navigation, the calls of every page and what they invalidate | `WebClient` over `Pages` |
| Notifications (`NotificationService`) | none: computed from the tables | list; marking as read changes nothing | `Pages` (what each feed is made of) |
| Sessions (`AuthService`, `Program.cs`, `ApiSecurity.cs`) | `user_sessions`, `refresh_tokens`, `users.TokenVersion` | login, refresh, logout, password reset, CSRF check, activity | `WebClient` sees the cookie; the service is planned |
| Tickets (`TicketService`, `RepairTicket`) | `repair_tickets` | create, start, complete, change status | `Pages` has the calls; the service is planned |
| Violations, directories, validators, controllers, seeder, deployment, unused pages and sections | see `PROJECT.json` | one insert each, or reads only | partly or not modelled, with the reason in `PROJECT.json` |

The components of the server meet in the database. Every HTTP request gets its
own `DbContext`; authentication (`OnTokenValidated`,
`EDormitory.Api/Program.cs:98`) loads the actor's session and user row into it
before the service runs. Deleting a user touches three components at once:
charges and Balance (Billing), the seat (Accommodation), and the passes, which a
query filter hides with their host (GuestPasses). A new student takes a seat and
starts owing money in one call.

The pages of the client meet in one `QueryClient`: a query is shared by all pages
that use its key, and a page changes what another shows only by invalidating a
prefix of that key. The client and the server meet in requests whose answer may
come late, or never.

### What is hard about it

* **Interleaving.** A service awaits several queries and then one
  `SaveChangesAsync`. PostgreSQL runs at READ COMMITTED, no entity has a
  concurrency token, and nothing takes a lock: whatever a request has read may be
  stale when it saves. EF Core writes only the columns whose value differs from
  what the request had loaded, so a lost update loses a column, not a row.
* **Stale copies.** A row already tracked is returned as it is by a later query
  of the same context: the actor's own Balance and RoomId are those read during
  authentication, however long ago.
* **Partial failure.** `CreateUserAsync` and `CreatePaymentAsync` save twice; the
  cancellation token passed to every query is cancelled when the client leaves;
  the process may stop anywhere. What was saved stays, the rest never happens.
* **Retries.** A webhook or a confirmation whose answer was lost is sent again.
* **Requests without a page.** When `fetch` fails or a tab is reloaded the page
  unlocks its buttons; the request may be on its way, or be served, and be saved
  after whatever the page does next.
* **Toggles.** The same validation call means an entry or an exit, depending on
  a log read in an earlier round trip - and on what the guard's page showed.
* **Caches.** A query is fresh for 30 s, is fetched again when it is invalidated
  while shown, and otherwise when it next appears. A fetch may have been answered
  from before a change and stored after it; a mutation goes on when its page is
  gone; the key of a staff query does not say whose data it holds.

### What makes each component correct

* Billing: a payment is credited exactly once, on a charge whose settled flag
  follows the sum; a confirmed payment is final; nothing is credited without
  one; the debt shown moves by what is paid and only then; a Balance once lowered
  is not restored; a deleted account stays deleted and owes nothing.
* Accommodation: no more residents than beds, nobody in a room under repair,
  nobody moved except where they asked and by an approval.
* Guest passes: visits of a pass alternate entry and exit, the log is
  append-only, pass and log agree, nobody enters early, everybody can leave.
* Guard's terminal: the button pressed says what is recorded, and the terminal
  always comes back from a validation.
* Checkout: nothing is paid twice without a failure, what is reported as complete
  is paid, a receipt stays with its payment, and a student who persists has a
  settled charge in the end.
* Web client: a page shows what its own tab changed, never what was served to
  another user, and a logout always ends at an empty login page.

## How the modules model the code

### The services

The three modules of the services have the same shape. One function per table
(`users`, `charges`, `payments`, ...) and one function `req`: for every *worker*,
the request it serves, with what that request has read. A worker is a request in
flight, so a constant `Workers` with one element is a service that handles one
request at a time and one with two elements is any pair of racing requests. An
action is what happens between two awaits: the code after a query returned, up to
and including the next query or save. `req[w].stage` names the await the request
stands at. `Column(stored, loaded, new)` is EF Core's change detection.
`Abort` ends a request at any await. Identities of payments, relocation
requests, passes and logs come from constant sets, which bound how many there
ever are; these sets and the values of amounts and rates are the only bounds.

An operator named `Op_Fault` is a plausible mistake in the operator `Op` below
it. It is used by no specification; replacing `Op` by it makes the property named
in `PROJECT.json` fail, which shows that the property depends on that code.

* **`Billing`** - `CreateUser`/`AddCharge` are the two saves of
  `CreateUserAsync`, `CreatePayment`/`AttachReference` those of
  `CreatePaymentAsync`. `BeginConfirm`, `ConfirmLoadPayment`, `ConfirmLoadUser`,
  `ConfirmLoadCharge`, `ConfirmSave` follow `ConfirmPaymentAsync`, with the
  actor's own Balance taken from authentication; `Webhook*` follows
  `HandleWebhookAsync`, `Delete*` follows `DeleteUserAsync`. Only
  `CreateUserAsync` creates charges while the service runs, so a charge is named
  by its student. The student that `DataSeeder` creates with a charge is reached
  by `CreateUser` and `AddCharge`. Of an amount only what `decimal(18,2)` stores
  is kept, so 0 stands for less than half a cent. Statuses of payments other than
  Pending and Confirmed are set nowhere. The properties add amounts up by counting
  units (`Worth`): a sum that is a cardinality can be reasoned about without
  induction.
* **`Ledger`** - the abstract account book: one atomic step per operation,
  `Settle` the only one that moves money.
* **`Accommodation`** - a room has no column for its residents; `Residents(r)` is
  the query that counts them. `Admit*` is `CreateUserAsync`, `Request*` is
  `CreateRelocationRequestAsync`, `Review*` is `ReviewRelocationRequestAsync`,
  which takes a request in any status. The unique index over Email lets a deleted
  address never be used again, while the check before it sees active users only.
* **`Seats`** - the abstract promise: a seat is taken only while one is free, and
  a student moves in the very step that approves it.
* **`GuestPasses`** - `ValidateLoadPass`, `ValidateLoadLog`, then `EnterSave` or
  `LeaveSave` are `ValidatePassAsync`; `window` is where the clock stands against
  ValidFrom and ValidTo. A log exists in memory (`new`) before it is saved, and
  `older` is the order of CreatedAt, taken at construction.
* **`Gate`** - the abstract gate: who is inside, and how many visits each pass has
  completed.

### The web client

An action is what one event does: a click, an answer, a timer, an `onSuccess` up
to its next await. Paths are relative to `src/src/frontend/web/src/`.

* **`QueryCache`** - one entry of the react-query cache, as `main.tsx` configures
  it: its data, whether they are stale, and a fetch in two steps (the server
  answers, the cache stores), since what an answer holds may be outdated when it
  is stored. The library is not in the repository; the definitions are marked
  external and model what the pages rely on.
* **`GuardTerminal`** - `pages/GuardPage.tsx` composed with the actions of
  `GuestPasses`: `Check` is `handleCheck` against the cached list, `Press` the
  enabled button, `Reach` and `Serve` hand the request to the service,
  `Succeeds`, `Refreshed` and `ResetFires` are the three parts of `onSuccess`.
  Three things end in `onError`: `Refused` (the service does not accept the pass),
  `Failed` (it fails before it has saved, and answers so) and `Disconnected`
  (`fetch` fails, and the service need not know). Together with `Reload`, which
  starts the page anew at any moment, `Disconnected` leaves the request behind: one
  that was on its way is counted in `adrift` and served by `Arrives` whenever, or
  never; one that was being served goes on as part of `Elsewhere`, which is also
  what others ask of the service. `unsure` and `trusted` are history: since the
  list was fetched something may have been recorded, or may yet be, of which the
  page was not told; and whether a press was made with reason to trust the list. A
  refetch ends the doubt only if nothing is astray any more.
* **`Checkout`** - `pages/student/StudentFinancePage.tsx` and
  `pages/AccountantPage.tsx` composed with `Ledger`, which `billing_serial` shows
  the service to implement. A payment identity is one try: `Submit`,
  `CreateServed`, `CreateAnswered`, `ConfirmServed`, `Succeeds`, `Refreshed` are
  `sandboxPaymentMutation`, `TryFails` either call failing or its answer lost.
  A call that the page has given up may be served all the same, whenever, or never
  (`TryGoesAstray`, `TryServedLate`; at the desk `ConfirmGoesAstray`,
  `ConfirmServedLate`). `Leave`/`WalkAway` and `Return`/`ReturnLater` unmount and
  mount the page; what it knew of its own tries is gone. The accountant's pending list is a set refreshed
  when the page is opened and after a confirmation. That a resident leaves is left
  to `Billing`. Identities are taken in a fixed order (`IsNext`), which leaves out
  nothing but their names.
* **`Pages`** - every routed page as data: the keys it shows, the calls it offers
  with the dialog, the lock and the batches of keys its `onSuccess` invalidates;
  `Reads` and `Writes` say which facts of the server an endpoint touches.
* **`WebClient`** - one tab: `Enter`, `ProbeFails`, `SignIn*` and `Leave*` are the
  session query of `App.tsx`, `LoginPage.tsx` and `handleLogout`; `Navigate`,
  `SelectRow`, `OpenDialog`, `Send`, `Serve`, `Succeed`, `Continue`, `Fail` run any
  page of `Pages`. One query is followed, any of them; its data are told apart by
  the user they were served to and by whether they reflect what this tab changed.
  `Overlooked` lists the views that a call changes and its page does not refresh.

`MCBilling`, `MCAccommodation`, `MCGuestPasses`, `MCGuardTerminal`, `MCCheckout`
and `MCWebClient` hold values and symmetry for TLC; `MCBilling` also has what is
only said of TLC's runs, two refuted properties and the accountant's total.
Modules whose name ends in `Proofs` hold the theorems.

## What the runs check

Runs with one worker check what the service promises when requests do not
overlap; runs with two workers check what is left of it when they do.

| Run | Bounds | Shows |
|---|---|---|
| `billing_concurrent` | 1 student, 1 admin, 2 payments, 2 requests, amounts 1 and 2 against a rate of 2 | a confirmed payment is final, credit is evidenced and at most doubled by the other request, manual payments are confirmed by staff, a Balance once lowered stays below the charge, nobody deleted comes back |
| `billing_serial` | 2 students, 1 admin, 2 payments, 1 request, amounts 0 and 2 against rates 0 and 3 | exact sums and flags, nothing owed by the deleted, debts never grow and move in the step that confirms a payment, by its amount; `Ledger` is implemented |
| `rooms_concurrent` | 3 students, a single, a double and a room under repair, 2 relocation requests, 2 requests | overbooking by one at most, nobody under repair, moves are requested |
| `rooms_serial` | the same, 1 request | no overbooking, moves are approved, `Seats` is implemented |
| `passes_concurrent` | 2 hosts, 2 passes, 4 logs, 2 requests | pass and log agree, nobody early, the log is append-only |
| `guard_terminal` | 1 student, 1 pass, 3 logs, 1 request, 1 adrift | visits of a pass alternate and `Gate` is implemented, whatever the terminal does and whatever it leaves behind; the button says what is recorded while the list can be trusted; the terminal always returns |
| `checkout` | 1 student, 1 accountant, 3 tries, 1 mishap, a rate of 1 | no second payment without a mishap, though calls given up are served later, complete means paid, receipts stay with their payment, the debt is cleared in the end |
| `web_client` | 1 student and 5 members of staff, 1 row, 2 calls under way, any one query followed | pages show their own tab's changes and nobody else's data; a logout ends at an empty login page |
| `billing_webhook` | 2 students, 2 payments, 1 request | **violated**: a charge paid in full through the webhook stays open |
| `billing_total` | the same | **violated**: an overpaid charge lowers the accountant's total |
| `guard_overlap` | 1 student, 1 pass, 2 logs, 2 requests, 1 adrift | **violated**: one terminal's validations overlap and a pass is entered twice at once |
| `passes_checkout` | 1 host, 1 pass, 2 logs, 1 request | **violated**: a guest inside when the window ends can never be recorded as gone |

Why the bounds are enough. The interesting conflicts are between two requests on
the same row, so two workers and one or two of each row make every pair of
operations meet at every pair of awaits; what holds for more workers is the
business of the theorems. Two payments are needed for two confirmations on one
charge to race, two amounts for a payment that covers a charge and one that does
not, an amount of 0 and a rate that two payments overshoot for the boundaries of
`ApplyPayment`. Three students and a double room let a room be full, be one short
and overflow. Four logs give one pass two complete visits beside another pass.

At the terminal three logs let a pass come three times, one visit after another,
so that whatever a visit leaves on the page or adrift meets the next one. One pass
is enough: the page and the service relate two passes nowhere, but for the single
call under way and the single card on the screen, which a second pass could only
keep busy (the theorems about the terminal hold for any number). `MaxAdrift`, the
bound on the requests for a pass that nobody waits for, is 1: one left behind and
one sent since are what it takes to record two passages (theorems have any bound;
it only keeps the states finite). An entry needs a free log, so that `Reach` is
not the place where the identities run out (`IsRecordable`). With one mishap
the student makes two tries at most, so the third identity shows that the bound
on the tries is not what stops the third. In the client one call may be
refreshing while another is served, which is how a fetch from before a change
comes to be stored after it. Each query is followed in a behaviour of its own:
every key of every page, but for three whose pages and calls treat them as another
one that is followed (`Followed` in `MCWebClient`; the theorems have no such
bound). A second row would only rename the first.

Only the pass runs disable the deadlock check: once all identities are used, every
window is over or every host is deleted, nothing is left to do. Elsewhere
something can always be done: a payment or a relocation handled again, a code
typed in, a page opened, a tab reloaded.

### Fairness

The services have no background work, retry loop or timer, so what must
eventually happen is the business of their callers.

* `FairSpec` of `GuestPasses`: a guard keeps presenting the pass of a guest who is
  inside, whenever the service would accept it, and the server completes the
  validation it has begun. It serves to show that even then `GuestsCheckOut` fails:
  the refusal is the code's, not a lack of effort.
* `FairTerminal`: a `fetch` is answered or fails in the end, `onSuccess` runs, a
  `setTimeout` fires. Nothing obliges the guard to press anything, nor the service
  to take or complete what it was sent: the connection may break instead.
  `TerminalReturns` needs no more.
* `FairCheckout`: the server and the browser do their part, and the student
  persists - leaves a page that shows nothing to pay, comes back later, opens the
  form and submits it if that is possible again and again (strong fairness, as a
  charge fetched late or a page left closes the form in between). Without it the student may simply not
  pay. The accountant is obliged to nothing.
* `FairWeb`: the logout request is answered or fails. That is what the `fetch` of
  the browser guarantees, and all that `LogoutEndsAtLogin` needs.

## Findings

Four runs end in a counterexample, each against a sentence of the repository;
`PROJECT.json` quotes it.

* The webhook never credits the charge (`PassPaymentDirectoryServices.cs:275`).
* The accountant's total adds negative remainders (`AccountantPage.tsx:54`).
* The validity of a pass is required for the exit as well
  (`PassPaymentDirectoryServices.cs:72`).
* `onError` unlocks the terminal while its request may still be served
  (`GuardPage.tsx:65`), so that one terminal can have two validations of a pass
  served at once, and both enter it (`PassPaymentDirectoryServices.cs:77`).

The concurrent runs check bounds where the serial ones check equality, because the
code does reach what the bounds leave room for: two confirmations that both read a
charge (`PassPaymentDirectoryServices.cs:228`) leave it settled with a part of it
paid, and two admissions that both counted the last free seat
(`AuthAndUserServices.cs:255`) are both accepted. A press of the guard made without
reason to trust the list (`trusted`) may record the opposite of what it says.

## What is proved

The theorems hold for every value of the constants: any accounts, rooms, passes,
logs, rows and tries, any number of requests or calls in flight. They assume the
named assumptions of the component modules: the nulls are not rows and no data is
no list, rates, amounts and the bound on requests adrift are naturals, roles do not overlap, populations that
are counted (workers, payments, students) are finite, the student at the checkout
is a student. Every property that a passing run checks is stated by a theorem,
but for the three of liveness.

Some theorems are about requests that do not get into each other's way, and
their statements say so:

* `OneWorker` - the service handles one request at a time, which is what the runs
  with one worker check. It is an assumption of the theorem, on a constant.
* `[]Undisturbed` (`LedgerProofs`) - no request is about to save a row of which
  another holds a copy. One worker meets it; so does any number of requests on
  different rows, and so would a service that refuses to save an outdated copy, as
  a concurrency token of EF Core does. The code has none, which is why it appears
  in the statement.
* `[]OneValidates` (`GuestPassesProofs`) - validations do not overlap, while
  requests of other kinds go on. A single terminal is not enough for that, as
  `guard_overlap` shows.
* `[]~Astray` (`GuardTerminalProofs`) - no validation goes on without its page:
  no connection breaks, and no page is reloaded, before the answer is there. That is
  what the lock of the buttons relies on without saying so.

Billing, with any number of requests in any order (`BillingProofs`):

* `TypeCorrect`, `ConfirmedStaysFinal`, `CreditIsEvidenced`, `ManualByStaff`. The
  structural invariant `SInv` says, for every stage, which rows a request refers to
  and that its copy of them agrees with the columns nobody ever changes (owner,
  charge, amount, method). Given `SInv`, `CreditHasEvidence` is inductive, because
  the save that credits a charge confirms a payment on it in the same transaction
  and a confirmed payment stays so. `ManualConfirmedByStaff` needs one more part,
  `MInv`: a request past `EnsureCanConfirmPayment` keeps that permission, since the
  owner and the method of a payment never change, and the provider reference is
  only attached to gateway payments.
* `StaffConfirmationCredits` (`ConfirmedIsCredited`). `LifeInv` follows the life of
  an account: its charge is added once, by the one request that created it, and
  once deleted never comes back. A confirmation that found no active charge
  therefore had a deleted one; whatever charge it did find is credited by what it
  saves, lost updates included: the save writes its copy plus the payment, which is
  no less than the payment.
* `NobodyComesBack` (`DeletedStaysDeleted`). No request writes a status but the
  deletion, and `LifeInv` rules out that the charge of a new student is added after
  a deletion.
* `BalanceStaysLowered` (`BalanceIsLowered`). The Balance a request saves comes from
  the copy it loaded, or from the one that authentication loaded before. `BInv` says
  that every such copy is at most what the charge is for - before the charge exists,
  at most what the request that will add it holds - and that a request about to
  save a copy lowers it: a confirmed payment of more than nothing therefore leaves
  every Balance in the table below the charge, whichever request wrote it last.
  How far below is not said: sums may be lost to a race.
* `CreditStaysBounded` (`CreditIsBounded`). Each request that loaded a payment as
  pending may credit it, also after another has confirmed it (it is then `Late`).
  The invariant `Room` says that what a charge shows, and what any request is about
  to write to it, leaves room under |Workers| times the confirmed payments for all
  that late requests may still add. A confirmation turns at most the other
  requests that hold the payment into late ones, and raises the bound by as much; a
  late one uses up its own room. Sums are counted in units, each with the name of its
  payment or request on it (`Piles`), so that adding an element to a set of
  payments adds a disjoint set of units.

Billing with undisturbed requests (`LedgerProofs`): `SettledStaysExact`,
`PaidStaysExact`, `DeletedStaysClear`, `DebtsOnlyShrink`, `DebtMovesAsPaid` and
`UndisturbedServiceImplementsLedger`. `CInv` says that what a request has loaded is
what the tables hold; `Undisturbed` is what makes it inductive, and it
makes each save a step of `Ledger` on the current rows. `SerialServiceIsExact`
draws the six conclusions for a service with one worker. `DebtMovesAsPaid`
(`DebtMovesByPayment`) needs the condition: a webhook may lower the Balance between
the two saves of `CreateUserAsync`, and the charge that the second one adds is
then for the old amount.

Accommodation (`AccommodationProofs`):

* `TypeCorrect`, `BoundedOverbooking`, `RoomsUnderRepairStayEmpty`,
  `OnlyRequestedMoves`. The bound on overbooking is the interesting one: the
  invariant counts, with the residents of a room, the requests that have passed the
  vacancy check and not saved yet, and says that their sum stays below capacity
  plus workers.
* With one worker: `SerialServiceNeverOverbooks` follows from that bound.
  `SerialMovesAreApproved` and `SerialServiceImplementsSeats` need that the
  resident, the request and the seat that a review found are still there when it
  saves (`Current`).

Guest passes and the terminal (`GuestPassesProofs`, `GuardTerminalProofs`):

* `TypeCorrect`, `StatusAndLogAgree`, `NoEarlyEntry`, `LogNeverShrinks`, from one
  invariant `IInv`: a validation in flight refers to a pass whose window has opened
  and, once loaded as used, is used; the log it constructed is stored by nobody
  else.
* `NoSecondEntry` and `StatusTellsWhoIsInside`, while validations do not overlap.
  `GInv` says that at most one log of a pass is without an exit, that it is then
  the newest one, which is what `OrderByDescending(CreatedAt)` finds, that Status
  is Entered exactly when there is one, and that the validation in flight has read
  what still is so. With one worker the host is still there as
  well when the pass is issued or used (`HInv`), and
  `SerialServiceImplementsGate` follows.
* `TerminalImplementsService`: every step of the page with its service is a step
  of the service or none, so what is proved of the service holds with the page in
  front of it.
* `ButtonSaysWhatIsRecorded` (`PressRecordsPassage`), while validations do not
  overlap. `TInv` says that whatever is astray is known (`unsure`), that a trusted
  press was made when nothing was, and that a list that can be trusted agrees with
  the stored passes on who is inside, except from the terminal's own validation
  until the refetch after it; an answer on its way agrees, since nothing that is
  unknown is validated while it travels; and what the pressed button wants stays
  what the service will record. A press that was not trusted promises nothing.
* `NothingAstrayIsEnough`: while nothing is astray, the lock of the buttons
  (`isPending`) keeps the terminal's validations apart, so `OneVisitAtATime`,
  `StatusMatchesLog` and `PressRecordsPassage` hold without any condition on the
  service. `SerialTerminalImplementsGate` combines the refinements.

The rest of the web client:

* `CheckoutProofs`: `TypeCorrect`, `CompleteIsPaid`, `PaymentsAreCounted`,
  `ReceiptsStay`. `StateInv` says that whatever is cached of the charge is an
  earlier state of it, and that a charge once open stays open for the same amount
  while what was paid only grows; so every try is for as much as is open, or more,
  and a confirmed payment has paid the charge in full. Counting the tries needs
  more than that: `CountInv` says that when one more than the mishaps was made
  another is out of the question (`Blocked`) - either the page tracks one, and will
  have fetched the paid charge by the time that one is over, or it knows already.
  Only a mishap can undo `Blocked`, and a mishap allows for one more. A call served
  after the page gave it up belongs to a try that was counted when it began. The checkout
  is composed with `Ledger`, which `LedgerProofs` shows undisturbed services to
  implement.
* `WebClientProofs`: `TypeCorrect` and `DataAreOwn`, from `SessionInv`. Outside the
  application nothing is cached and nothing under way; inside it the server takes
  the tab for the session's user or for nobody, so that whatever is answered, now
  or later, was served to that user.
* `ReadYourWritesProofs`: `OwnChangesAreShown`. Lemma `Table` goes through the pages
  of every role: a call that changes what one of its user's pages shows invalidates
  that query in some batch, unless `Overlooked` names the view. `FreshInv` follows a
  change from there to the screen: outdated data or an outdated answer are
  accounted for by a call that has yet to invalidate them, by a fetch that was asked
  for since, by being stale and off the screen, or by a failure.

Only model-checked: liveness, which is out of the prover's reach
(`TerminalReturns`, `DebtGetsCleared`, `LogoutEndsAtLogin`). The properties of the
four findings are refuted by their runs.

## What is not modelled, and the plan

Left out because no property tells the difference: texts, receipt numbers, titles,
due dates, remarks, access codes, audit entries, the responses read back after a
save, filters and searches of the pages, the camera, role checks that only select
who may call (where a role changes what happens, as in `EnsureCanConfirmPayment`,
it is modelled), and rows that cannot be found because the caller made up an
identity.

Limits of the client's modules, and what they found on the way:

* `Overlooked` is excluded from `ReadYourWrites`: reviewing a relocation leaves
  occupancy, room details and the user search as they were; a ticket's status
  leaves the notifications (and, from the board, the ticket's page); validating a
  pass, confirming a payment and deleting a user leave the notifications. These
  views catch up after `staleTime` or when they are fetched for another reason.
* A query that is invalidated while it is not shown but being fetched will count as
  fresh with the older answer; that case is marked `unseen` and excluded as well.
* A success closes whatever dialog its page shows by then, also one opened again
  since; the comment typed for one ticket stays in the form for the next
  (`MasterPages.tsx:166`).
* A reload of the checkout is not an action of its own: `TryGoesAstray` or
  `TryFails` followed by `Leave` and `ReturnLater` stands for it, and offers the
  student what is cached, where a reload has nothing to offer until the charges
  are fetched.
* The checkout's report says that the sum and the history have been updated
  (`StudentFinancePage.tsx:260`) when the fetch that does it has only begun, and may
  fail; `CompleteMeansPaid` is about the charge itself.
* In `WebClient` a call that fails is forgotten, and so is the login or logout of a
  request cut off: if the server gets to it later, that is to the tab what
  somebody else's change is, which `ReadYourWrites` says nothing about.
* One query is followed at a time, so nothing is said of two queries that disagree.
  Another tab sharing the cookie, and a session that is exchanged on the server
  while a tab is open, are not modelled.
* `pages/DashboardPage.tsx` and the files of `sections/` other than
  `GuardScanner.tsx` are reached by no route.

In order:

1. `Sessions`: login, refresh rotation, logout, deletion and password reset
   against `user_sessions`, `refresh_tokens` and `TokenVersion`, with the CSRF and
   activity middleware; an abstract specification of who may still act. Properties:
   one usable refresh token per session when served one at a time, a deleted or
   logged-out actor is never authenticated again, what two racing refreshes leave.
   The client never calls refresh, so `WebClient` stays as it is.
2. `Tickets`: status and assignee under two masters.
3. `Seeder`: start-up with retries, stopped between two saves.
4. Proofs: `MovesAreApproved` and the refinements of `Seats` and `Gate` under a
   condition on the rows, like `Undisturbed`, instead of one worker. `DeleteUser`
   reads and saves within one step, so the condition has to be on the step and not
   on the state before it. Then the theorems of `Sessions`, `Tickets` and `Seeder`.
