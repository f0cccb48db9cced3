------------------------------- MODULE Pages -------------------------------
(***************************************************************************)
(* The pages of the web client as data: which cached queries each shows,   *)
(* and which calls it offers, in which dialog, whether its button is       *)
(* disabled while one is pending, and which queries it invalidates when    *)
(* one succeeds.  Layout, filters and formatting are left out; what is     *)
(* typed into the forms too, as a form is valid sooner or later.           *)
(*                                                                         *)
(* A member of the staff is named by the role.  A query key is a sequence, *)
(* and names every key that extends it.                                    *)
(***************************************************************************)
EXTENDS Sequences

CONSTANTS
  Students,
  Rows,    \* what may be selected: rooms, students or tickets
  NoRow

StaffRoles == {"Commandant", "Master", "Guard", "Accountant", "Admin"}
Users == Students \cup StaffRoles
RoleOf(u) == IF u \in Students THEN "Student" ELSE u

(* The pages of every role; the first of them is the default route.        *)
Navigation(role) ==
  CASE role = "Student"    -> <<"overview", "tickets", "passes", "finance">>
    [] role = "Commandant" -> <<"occupancy", "relocations", "discipline">>
    [] role = "Master"     -> <<"tasks">>
    [] role = "Guard"      -> <<"guard">>
    [] role = "Accountant" -> <<"payments">>
    [] role = "Admin"      -> <<"students", "staff", "directories">>

Routes(role) ==
  {Navigation(role)[i] : i \in DOMAIN Navigation(role)}
    \cup (IF role = "Master" THEN {"task"} ELSE {})
DefaultRoute(role) == Navigation(role)[1]

-----------------------------------------------------------------------------
(* What the server does for a call, by the facts it reads or writes: where *)
(* residents live is a fact apart from their accounts.                     *)

(* What the notifications of a role are made of.                           *)
Feed(role) ==
  CASE role = "Student"    -> {"tickets", "passes", "payments", "relocations", "violations"}
    [] role = "Commandant" -> {"relocations", "violations"}
    [] role = "Master"     -> {"tickets"}
    [] role = "Guard"      -> {"logs"}
    [] role = "Accountant" -> {"payments"}
    [] role = "Admin"      -> {"sessions"}

(* The endpoint that feeds a query.  Roles are never changed.              *)
Reads(key, u) ==
  CASE Head(key) \in {"tickets", "ticket-detail"} -> {"tickets"}
    [] Head(key) = "passes"                       -> {"passes"}
    [] Head(key) = "passLogs"                     -> {"logs"}
    [] Head(key) = "charges"                      -> {"charges"}
    [] Head(key) = "session" -> IF u \in Students THEN {"charges"} ELSE {}   \* debtAmount
    [] Head(key) = "payments"                     -> {"payments"}
    [] Head(key) = "relocations"                  -> {"relocations"}
    [] Head(key) = "violations"                   -> {"violations"}
    [] Head(key) \in {"rooms", "occupancy"}       -> {"accounts", "residence"}
    [] Head(key) \in {"room-detail", "user-search", "users"} ->
         {"accounts", "residence", "charges"}
    [] Head(key) = "roles"                        -> {}
    [] Head(key) = "notifications"                -> Feed(RoleOf(u))

(* The call may be several requests.  Nothing is ever marked as read: the  *)
(* service only answers.                                                   *)
Writes(does) ==
  CASE does = "createTicket"       -> {"tickets"}
    [] does = "updateTicketStatus" -> {"tickets"}
    [] does = "createRelocation"   -> {"relocations"}
    [] does = "reviewRelocation"   -> {"relocations", "residence"}
    [] does = "createViolation"    -> {"violations"}
    [] does = "createPass"         -> {"passes"}
    [] does = "validatePass"       -> {"passes", "logs"}
    [] does = "sandboxPayment"     -> {"payments", "charges"}
    [] does = "confirmPayment"     -> {"payments", "charges"}
    [] does = "createUser"         -> {"accounts", "residence", "charges"}
    [] does = "deleteUser"         -> {"accounts", "residence", "charges", "sessions"}
    [] does = "markNotificationsRead" -> {}

-----------------------------------------------------------------------------
(* A call that a page offers: in a dialog or by a button of the page; with *)
(* a lock, not while the last one is pending; and what its onSuccess does: *)
(* it closes the dialog and invalidates one batch of keys after another,   *)
(* each once the one before was fetched.                                   *)
Offer(does, dialog, locked, refresh) ==
  [does |-> does, dialog |-> dialog, locked |-> locked, refresh |-> refresh]

NoDialog == "none"

(* AppShell is around every page.                                          *)
Shell(u) ==
  [shows  |-> {<<"notifications", u>>},
   offers |-> {Offer("markNotificationsRead", NoDialog, TRUE, <<{<<"notifications", u>>}>>)}]

StudentOverviewPage(u) ==
  [shows  |-> {<<"notifications", u>>, <<"passes", u>>, <<"charges", u>>,
               <<"tickets", u>>, <<"rooms">>},
   offers |-> {}]

StudentTicketsPage_TicketsOnly(u) ==
  [shows  |-> {<<"tickets", u>>, <<"rooms">>, <<"relocations", u>>},
   offers |->
     {Offer("createTicket", "ticket", TRUE, <<{<<"tickets", u>>}>>),
      Offer("createRelocation", "relocation", TRUE, <<{<<"relocations">>}>>)}]
StudentTicketsPage(u) ==
  [shows  |-> {<<"tickets", u>>, <<"rooms">>, <<"relocations", u>>},
   offers |->
     {Offer("createTicket", "ticket", TRUE,
            <<{<<"tickets", u>>}, {<<"notifications", u>>}>>),
      Offer("createRelocation", "relocation", TRUE,
            <<{<<"relocations">>}, {<<"notifications", u>>}>>)}]

StudentPassesPage(u) ==
  [shows  |-> {<<"passes", u>>},
   offers |-> {Offer("createPass", NoDialog, TRUE,
                     <<{<<"passes", u>>}, {<<"notifications", u>>}>>)}]

StudentFinancePage(u) ==
  [shows  |-> {<<"charges", u>>, <<"payments", u>>},
   offers |-> {Offer("sandboxPayment", "payment", TRUE,
                     <<{<<"payments", u>>, <<"charges", u>>,
                        <<"notifications", u>>, <<"session">>}>>)}]

(* Whatever was selected; its query is enabled by the selection.           *)
Selected(head, row) == IF row = NoRow THEN {} ELSE {<<head, row>>}

CommandantOccupancyPage(row) ==
  [shows  |-> {<<"occupancy">>} \cup Selected("room-detail", row),
   offers |-> {}]

CommandantRelocationsPage ==
  [shows  |-> {<<"relocations">>},
   offers |-> {Offer("reviewRelocation", NoDialog, FALSE,
                     <<{<<"relocations">>}, {<<"notifications">>}>>)}]

CommandantDisciplinePage(row) ==
  [shows  |-> {<<"violations">>, <<"user-search">>} \cup Selected("violations", row),
   offers |-> {Offer("createViolation", "violation", TRUE,
                     <<{<<"violations">>}>>
                       \o (IF row = NoRow THEN <<>> ELSE <<{<<"violations", row>>}>>)
                       \o <<{<<"notifications">>}>>)}]

(* A card is dropped on a column, or on the last one and confirmed in a    *)
(* dialog, which submitting closes at once.                                *)
MasterTasksPage ==
  [shows  |-> {<<"tickets">>},
   offers |-> {Offer("updateTicketStatus", NoDialog, FALSE, <<{<<"tickets">>}>>),
               Offer("updateTicketStatus", "complete", TRUE, <<{<<"tickets">>}>>)}]

(* The row is part of the path.                                            *)
MasterTaskDetailPage(row) ==
  [shows  |-> Selected("ticket-detail", row),
   offers |-> {Offer("updateTicketStatus", NoDialog, FALSE,
                     <<{<<"tickets">>, <<"ticket-detail", row>>}>>)}]

GuardTerminalPage ==
  [shows  |-> {<<"passes">>, <<"passLogs">>},
   offers |-> {Offer("validatePass", NoDialog, TRUE, <<{<<"passLogs">>, <<"passes">>}>>)}]

AccountantPaymentsPage ==
  [shows  |-> {<<"charges">>, <<"payments">>},
   offers |-> {Offer("confirmPayment", "payment", TRUE,
                     <<{<<"payments">>, <<"charges">>, <<"session">>}>>)}]

(* Students and staff are two views of one page.                           *)
AdminUsersCatalogPage ==
  [shows  |-> {<<"users">>, <<"roles">>, <<"rooms">>},
   offers |-> {Offer("createUser", "user", TRUE, <<{<<"users">>}, {<<"rooms">>}>>),
               Offer("deleteUser", "delete", TRUE, <<{<<"users">>}, {<<"rooms">>}>>)}]

AdminDirectoriesPage == [shows |-> {<<"roles">>}, offers |-> {}]

(* renderRoleRoutes.                                                       *)
Page(path, u, row) ==
  CASE path = "overview"    -> StudentOverviewPage(u)
    [] path = "tickets"     -> StudentTicketsPage(u)
    [] path = "passes"      -> StudentPassesPage(u)
    [] path = "finance"     -> StudentFinancePage(u)
    [] path = "occupancy"   -> CommandantOccupancyPage(row)
    [] path = "relocations" -> CommandantRelocationsPage
    [] path = "discipline"  -> CommandantDisciplinePage(row)
    [] path = "tasks"       -> MasterTasksPage
    [] path = "task"        -> MasterTaskDetailPage(row)
    [] path = "guard"       -> GuardTerminalPage
    [] path = "payments"    -> AccountantPaymentsPage
    [] path \in {"students", "staff"} -> AdminUsersCatalogPage
    [] path = "directories" -> AdminDirectoriesPage

(* The pages on which a row can be selected, or that are about one.        *)
Selects(path) == path \in {"occupancy", "discipline"}
IsAboutRow(path) == path = "task"
=============================================================================
