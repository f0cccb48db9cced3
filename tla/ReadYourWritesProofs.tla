------------------------ MODULE ReadYourWritesProofs ------------------------
(***************************************************************************)
(* A page shows what its own tab changed, for every value of WebClient's   *)
(* constants: any query of any page, and any number of calls under way.    *)
(***************************************************************************)
EXTENDS WebClientProofs

-----------------------------------------------------------------------------
(* Keys and batches.                                                       *)

LEMMA PrefixFacts ==
  \A a, b : /\ IsPrefix(<<a>>, <<a>>) /\ IsPrefix(<<a>>, <<a, b>>)
            /\ IsPrefix(<<a, b>>, <<a, b>>)
BY DEF IsPrefix

LEMMA HeadFacts == \A a, b : Head(<<a>>) = a /\ Head(<<a, b>>) = a
OBVIOUS

LEMMA Concatenated ==
  ASSUME NEW S, NEW s \in Seq(S), NEW t \in Seq(S)
  PROVE  /\ s \o t \in Seq(S) /\ Len(s \o t) = Len(s) + Len(t)
         /\ DOMAIN (s \o t) = 1..Len(s \o t)
         /\ \A i \in 1..Len(s) : (s \o t)[i] = s[i]
         /\ \A i \in 1..Len(t) : (s \o t)[Len(s) + i] = t[i]
OBVIOUS

LEMMA FirstAndLast ==
  ASSUME NEW S, NEW x \in Seq(S), NEW a \in S, NEW b \in S
  PROVE  LET q == <<a>> \o x \o <<b>>
         IN  /\ 1 \in DOMAIN q /\ q[1] = a
             /\ Len(q) \in DOMAIN q /\ q[Len(q)] = b
<1> DEFINE y == <<a>> \o x
<1>1. /\ <<a>> \in Seq(S) /\ Len(<<a>>) = 1 /\ <<a>>[1] = a
      /\ <<b>> \in Seq(S) /\ Len(<<b>>) = 1 /\ <<b>>[1] = b
  OBVIOUS
<1>2. y \in Seq(S) /\ Len(y) = 1 + Len(x) /\ y[1] = a
  BY <1>1, Concatenated
<1> HIDE DEF y
<1>3. QED
  BY <1>1, <1>2, Concatenated DEF y

-----------------------------------------------------------------------------
(* The table of the pages: a call that changes what one of its own user's  *)
(* pages shows invalidates that query in some batch, or leaves the view    *)
(* behind as Overlooked says.                                              *)

KeysOf(u) ==
  Shell(u).shows \cup {<<"session">>}
    \cup UNION {Page(path, u, row).shows :
                path \in Routes(RoleOf(u)), row \in Rows \cup {NoRow}}

Refreshes(offer) == \E i \in DOMAIN offer.refresh : Covers(offer.refresh[i])

Answers(offer) == Touches(offer) => Refreshes(offer) \/ IsOverlooked(offer)

KeysRefreshed(offer) == UNION {offer.refresh[i] : i \in DOMAIN offer.refresh}

LEMMA KeyOfBatch ==
  ASSUME NEW offer, NEW i \in DOMAIN offer.refresh, NEW k \in offer.refresh[i]
  PROVE  k \in KeysRefreshed(offer)
BY DEF KeysRefreshed

LEMMA RefreshesByKey ==
  ASSUME NEW offer, NEW k \in KeysRefreshed(offer), IsPrefix(k, watched)
  PROVE  Refreshes(offer)
BY DEF KeysRefreshed, Refreshes, Covers

LEMMA RoutesOfRoles ==
  /\ Routes("Student") = {"overview", "tickets", "passes", "finance"}
  /\ Routes("Commandant") = {"occupancy", "relocations", "discipline"}
  /\ Routes("Master") = {"tasks", "task"}
  /\ Routes("Guard") = {"guard"}
  /\ Routes("Accountant") = {"payments"}
  /\ Routes("Admin") = {"students", "staff", "directories"}
<1>1. \A a : {<<a>>[i] : i \in DOMAIN <<a>>} = {a}
  OBVIOUS
<1>2. \A a, b, c : {<<a, b, c>>[i] : i \in DOMAIN <<a, b, c>>} = {a, b, c}
  OBVIOUS
<1>3. \A a, b, c, d : {<<a, b, c, d>>[i] : i \in DOMAIN <<a, b, c, d>>} = {a, b, c, d}
  OBVIOUS
<1>4. QED
  BY <1>1, <1>2, <1>3 DEF Routes, Navigation

LEMMA ReadsByHead ==
  ASSUME NEW key, NEW u
  PROVE  /\ Head(key) \in {"tickets", "ticket-detail"} => Reads(key, u) = {"tickets"}
         /\ Head(key) = "passes" => Reads(key, u) = {"passes"}
         /\ Head(key) = "passLogs" => Reads(key, u) = {"logs"}
         /\ Head(key) = "charges" => Reads(key, u) = {"charges"}
         /\ Head(key) = "session" =>
              Reads(key, u) = IF u \in Students THEN {"charges"} ELSE {}
         /\ Head(key) = "payments" => Reads(key, u) = {"payments"}
         /\ Head(key) = "relocations" => Reads(key, u) = {"relocations"}
         /\ Head(key) = "violations" => Reads(key, u) = {"violations"}
         /\ Head(key) \in {"rooms", "occupancy"} => Reads(key, u) = {"accounts", "residence"}
         /\ Head(key) \in {"room-detail", "user-search", "users"} =>
              Reads(key, u) = {"accounts", "residence", "charges"}
         /\ Head(key) = "roles" => Reads(key, u) = {}
         /\ Head(key) = "notifications" => Reads(key, u) = Feed(RoleOf(u))
BY DEF Reads

LEMMA WritesOf ==
  /\ Writes("createTicket") = {"tickets"} /\ Writes("updateTicketStatus") = {"tickets"}
  /\ Writes("createRelocation") = {"relocations"}
  /\ Writes("reviewRelocation") = {"relocations", "residence"}
  /\ Writes("createViolation") = {"violations"}
  /\ Writes("createPass") = {"passes"} /\ Writes("validatePass") = {"passes", "logs"}
  /\ Writes("sandboxPayment") = {"payments", "charges"}
  /\ Writes("confirmPayment") = {"payments", "charges"}
  /\ Writes("createUser") = {"accounts", "residence", "charges"}
  /\ Writes("deleteUser") = {"accounts", "residence", "charges", "sessions"}
  /\ Writes("markNotificationsRead") = {}
BY DEF Writes

LEMMA FeedOf ==
  /\ Feed("Student") = {"tickets", "passes", "payments", "relocations", "violations"}
  /\ Feed("Commandant") = {"relocations", "violations"} /\ Feed("Master") = {"tickets"}
  /\ Feed("Guard") = {"logs"} /\ Feed("Accountant") = {"payments"}
  /\ Feed("Admin") = {"sessions"}
BY DEF Feed

(* Nothing the read marks write is shown anywhere.                         *)
LEMMA ShellTable ==
  ASSUME NEW u, NEW offer \in Shell(u).offers
  PROVE  Answers(offer)
BY WritesOf DEF Shell, Offer, Answers, Touches

LEMMA StudentTable ==
  ASSUME NEW u \in Students, session = u, watched \in KeysOf(u), NEW offer \in OffersOf(u)
  PROVE  Answers(offer)
<1>1. RoleOf(u) = "Student"
  BY DEF RoleOf
<1>2. watched \in {<<"notifications", u>>, <<"session">>, <<"passes", u>>, <<"charges", u>>,
                   <<"tickets", u>>, <<"rooms">>, <<"relocations", u>>, <<"payments", u>>}
  BY <1>1, RoutesOfRoles DEF KeysOf, Shell, Page, StudentOverviewPage, StudentTicketsPage,
     StudentPassesPage, StudentFinancePage
<1>3. /\ watched = <<"notifications", u>> => Reads(watched, session) = Feed("Student")
      /\ watched = <<"passes", u>> => Reads(watched, session) = {"passes"}
      /\ watched = <<"tickets", u>> => Reads(watched, session) = {"tickets"}
      /\ watched = <<"relocations", u>> => Reads(watched, session) = {"relocations"}
      /\ watched = <<"payments", u>> => Reads(watched, session) = {"payments"}
      /\ watched = <<"rooms">> => Reads(watched, session) = {"accounts", "residence"}
      /\ watched \in {<<"charges", u>>, <<"session">>} => Reads(watched, session) = {"charges"}
  BY <1>1, HeadFacts, ReadsByHead
<1>4. CASE offer = Offer("createTicket", "ticket", TRUE,
                   <<{<<"tickets", u>>}, {<<"notifications", u>>}>>)
  <2>1. /\ offer.does = "createTicket"
        /\ 1 \in DOMAIN offer.refresh
        /\ <<"tickets", u>> \in offer.refresh[1]
        /\ 2 \in DOMAIN offer.refresh
        /\ <<"notifications", u>> \in offer.refresh[2]
    BY <1>4 DEF Offer
  <2>2. Touches(offer) => watched \in {<<"tickets", u>>, <<"notifications", u>>}
    BY <1>2, <1>3, <2>1, WritesOf, FeedOf DEF Touches
  <2>3. {<<"notifications", u>>, <<"tickets", u>>} \subseteq KeysRefreshed(offer)
    BY <2>1, KeyOfBatch
  <2>4. QED
    BY <2>2, <2>3, PrefixFacts, RefreshesByKey DEF Answers
<1>5. CASE offer = Offer("createRelocation", "relocation", TRUE,
                   <<{<<"relocations">>}, {<<"notifications", u>>}>>)
  <2>1. /\ offer.does = "createRelocation"
        /\ 1 \in DOMAIN offer.refresh
        /\ <<"relocations">> \in offer.refresh[1]
        /\ 2 \in DOMAIN offer.refresh
        /\ <<"notifications", u>> \in offer.refresh[2]
    BY <1>5 DEF Offer
  <2>2. Touches(offer) => watched \in {<<"relocations", u>>, <<"notifications", u>>}
    BY <1>2, <1>3, <2>1, WritesOf, FeedOf DEF Touches
  <2>3. {<<"notifications", u>>, <<"relocations">>} \subseteq KeysRefreshed(offer)
    BY <2>1, KeyOfBatch
  <2>4. QED
    BY <2>2, <2>3, PrefixFacts, RefreshesByKey DEF Answers
<1>6. CASE offer = Offer("createPass", NoDialog, TRUE,
                   <<{<<"passes", u>>}, {<<"notifications", u>>}>>)
  <2>1. /\ offer.does = "createPass"
        /\ 1 \in DOMAIN offer.refresh
        /\ <<"passes", u>> \in offer.refresh[1]
        /\ 2 \in DOMAIN offer.refresh
        /\ <<"notifications", u>> \in offer.refresh[2]
    BY <1>6 DEF Offer
  <2>2. Touches(offer) => watched \in {<<"passes", u>>, <<"notifications", u>>}
    BY <1>2, <1>3, <2>1, WritesOf, FeedOf DEF Touches
  <2>3. {<<"notifications", u>>, <<"passes", u>>} \subseteq KeysRefreshed(offer)
    BY <2>1, KeyOfBatch
  <2>4. QED
    BY <2>2, <2>3, PrefixFacts, RefreshesByKey DEF Answers
<1>7. CASE offer = Offer("sandboxPayment", "payment", TRUE,
                   <<{<<"payments", u>>, <<"charges", u>>, <<"notifications", u>>, <<"session">>}>>)
  <2>1. /\ offer.does = "sandboxPayment"
        /\ 1 \in DOMAIN offer.refresh
        /\ <<"payments", u>> \in offer.refresh[1]
        /\ <<"charges", u>> \in offer.refresh[1]
        /\ <<"notifications", u>> \in offer.refresh[1]
        /\ <<"session">> \in offer.refresh[1]
    BY <1>7 DEF Offer
  <2>2. Touches(offer) => watched \in {<<"payments", u>>, <<"charges", u>>, <<"notifications", u>>, <<"session">>}
    BY <1>2, <1>3, <2>1, WritesOf, FeedOf DEF Touches
  <2>3. {<<"charges", u>>, <<"notifications", u>>, <<"payments", u>>, <<"session">>} \subseteq KeysRefreshed(offer)
    BY <2>1, KeyOfBatch
  <2>4. QED
    BY <2>2, <2>3, PrefixFacts, RefreshesByKey DEF Answers
<1>8. offer \in Shell(u).offers \cup StudentTicketsPage(u).offers
                 \cup StudentPassesPage(u).offers \cup StudentFinancePage(u).offers
  BY <1>1, RoutesOfRoles DEF OffersOf, Page, StudentOverviewPage
<1>9. QED
  BY <1>4, <1>5, <1>6, <1>7, <1>8, ShellTable
     DEF StudentTicketsPage, StudentPassesPage, StudentFinancePage

(* The staff's keys are invalidated by their heads.                        *)
LEMMA RefreshesByHead ==
  ASSUME NEW offer, IsPrefix(<<Head(watched)>>, watched)
  PROVE  /\ <<Head(watched)>> \in KeysRefreshed(offer) => Refreshes(offer)
         /\ Head(watched) \in Overlooked(offer.does) => Refreshes(offer) \/ IsOverlooked(offer)
BY RefreshesByKey DEF IsOverlooked, Refreshes

LEMMA OverlookedViews ==
  /\ Overlooked("reviewRelocation") = {"occupancy", "room-detail", "user-search"}
  /\ Overlooked("updateTicketStatus") = {"notifications", "ticket-detail"}
  /\ Overlooked("validatePass") = {"notifications"}
  /\ Overlooked("confirmPayment") = {"notifications"}
  /\ Overlooked("deleteUser") = {"notifications"}
BY DEF Overlooked

LEMMA CommandantTable ==
  ASSUME NEW u, u \notin Students, RoleOf(u) = "Commandant", session = u,
         watched \in KeysOf(u), NEW offer \in OffersOf(u)
  PROVE  Answers(offer)
<1>1. /\ IsPrefix(<<Head(watched)>>, watched)
      /\ Head(watched) \in {"notifications", "session", "occupancy", "room-detail", "relocations", "violations", "user-search"}
  <2>1. \/ watched \in {<<"notifications", u>>, <<"session">>, <<"occupancy">>,
                         <<"relocations">>, <<"violations">>, <<"user-search">>}
        \/ \E row : watched \in {<<"room-detail", row>>, <<"violations", row>>}
    BY RoutesOfRoles DEF KeysOf, Shell, Page, CommandantOccupancyPage, CommandantRelocationsPage, CommandantDisciplinePage, Selected
  <2>2. \E head \in {"notifications", "session", "occupancy", "room-detail", "relocations", "violations", "user-search"} :
          watched = <<head>> \/ \E x : watched = <<head, x>>
    BY <2>1
  <2>3. QED
    BY <2>2, HeadFacts, PrefixFacts
<1>2. CASE offer = Offer("reviewRelocation", NoDialog, FALSE,
                    <<{<<"relocations">>}, {<<"notifications">>}>>)
  <2>1. /\ offer.does = "reviewRelocation"
        /\ 1 \in DOMAIN offer.refresh
        /\ <<"relocations">> \in offer.refresh[1]
        /\ 2 \in DOMAIN offer.refresh
        /\ <<"notifications">> \in offer.refresh[2]
    BY <1>2 DEF Offer
  <2>2. Touches(offer) =>
          Head(watched) \in {"relocations", "notifications", "occupancy", "room-detail", "user-search"}
    BY <1>1, <2>1, WritesOf, FeedOf, ReadsByHead DEF Touches
  <2>3. {<<"relocations">>, <<"notifications">>} \subseteq KeysRefreshed(offer)
    BY <2>1, KeyOfBatch
  <2>4. QED
    BY <1>1, <2>1, <2>2, <2>3, RefreshesByHead, OverlookedViews DEF Answers
<1>3. ASSUME NEW row, offer \in CommandantDisciplinePage(row).offers
      PROVE  Answers(offer)
  <2> DEFINE first == {<<"violations">>}
             x == IF row = NoRow THEN <<>> ELSE <<{<<"violations", row>>}>>
             last == {<<"notifications">>}
             S == {first, {<<"violations", row>>}, last}
  <2>1. offer = Offer("createViolation", "violation", TRUE, <<first>> \o x \o <<last>>)
    BY <1>3 DEF CommandantDisciplinePage
  <2>2. x \in Seq(S) /\ first \in S /\ last \in S
    OBVIOUS
  <2>3. <<"violations">> \in first /\ <<"notifications">> \in last
    OBVIOUS
  <2> HIDE DEF first, x, last, S
  <2>4. offer.does = "createViolation" /\ offer.refresh = <<first>> \o x \o <<last>>
    BY <2>1 DEF Offer
  <2>5. \E i, j \in DOMAIN offer.refresh : offer.refresh[i] = first /\ offer.refresh[j] = last
    BY <2>2, <2>4, FirstAndLast
  <2>6. {<<"violations">>, <<"notifications">>} \subseteq KeysRefreshed(offer)
    BY <2>3, <2>5, KeyOfBatch
  <2>7. Touches(offer) => Head(watched) \in {"violations", "notifications"}
    BY <1>1, <2>4, WritesOf, FeedOf, ReadsByHead DEF Touches
  <2>8. QED
    BY <1>1, <2>6, <2>7, RefreshesByHead DEF Answers
<1>4. offer \in Shell(u).offers \/ \E row : offer \in CommandantRelocationsPage.offers
                   \cup CommandantDisciplinePage(row).offers
  BY RoutesOfRoles DEF OffersOf, Page, CommandantOccupancyPage
<1>5. QED
  BY <1>2, <1>3, <1>4, ShellTable DEF CommandantOccupancyPage, CommandantRelocationsPage, CommandantDisciplinePage

LEMMA MasterTable ==
  ASSUME NEW u, u \notin Students, RoleOf(u) = "Master", session = u,
         watched \in KeysOf(u), NEW offer \in OffersOf(u)
  PROVE  Answers(offer)
<1>1. /\ IsPrefix(<<Head(watched)>>, watched)
      /\ Head(watched) \in {"notifications", "session", "tickets", "ticket-detail"}
  <2>1. \/ watched \in {<<"notifications", u>>, <<"session">>, <<"tickets">>}
        \/ \E row : watched = <<"ticket-detail", row>>
    BY RoutesOfRoles DEF KeysOf, Shell, Page, MasterTasksPage, MasterTaskDetailPage, Selected
  <2>2. \E head \in {"notifications", "session", "tickets", "ticket-detail"} :
          watched = <<head>> \/ \E x : watched = <<head, x>>
    BY <2>1
  <2>3. QED
    BY <2>2, HeadFacts, PrefixFacts
<1>2. CASE \E dialog, locked :
             offer = Offer("updateTicketStatus", dialog, locked, <<{<<"tickets">>}>>)
  <2>1. /\ offer.does = "updateTicketStatus"
        /\ 1 \in DOMAIN offer.refresh
        /\ <<"tickets">> \in offer.refresh[1]
    BY <1>2 DEF Offer
  <2>2. Touches(offer) =>
          Head(watched) \in {"tickets", "notifications", "ticket-detail"}
    BY <1>1, <2>1, WritesOf, FeedOf, ReadsByHead DEF Touches
  <2>3. {<<"tickets">>} \subseteq KeysRefreshed(offer)
    BY <2>1, KeyOfBatch
  <2>4. QED
    BY <1>1, <2>1, <2>2, <2>3, RefreshesByHead, OverlookedViews DEF Answers
<1>3. CASE \E row : offer = Offer("updateTicketStatus", NoDialog, FALSE,
                            <<{<<"tickets">>, <<"ticket-detail", row>>}>>)
  <2>1. /\ offer.does = "updateTicketStatus"
        /\ 1 \in DOMAIN offer.refresh
        /\ <<"tickets">> \in offer.refresh[1]
    BY <1>3 DEF Offer
  <2>2. Touches(offer) =>
          Head(watched) \in {"tickets", "notifications", "ticket-detail"}
    BY <1>1, <2>1, WritesOf, FeedOf, ReadsByHead DEF Touches
  <2>3. {<<"tickets">>} \subseteq KeysRefreshed(offer)
    BY <2>1, KeyOfBatch
  <2>4. QED
    BY <1>1, <2>1, <2>2, <2>3, RefreshesByHead, OverlookedViews DEF Answers
<1>4. offer \in Shell(u).offers \/ \E row : offer \in MasterTasksPage.offers \cup MasterTaskDetailPage(row).offers
  BY RoutesOfRoles DEF OffersOf, Page
<1>5. QED
  BY <1>2, <1>3, <1>4, ShellTable DEF MasterTasksPage, MasterTaskDetailPage

LEMMA GuardTable ==
  ASSUME NEW u, u \notin Students, RoleOf(u) = "Guard", session = u,
         watched \in KeysOf(u), NEW offer \in OffersOf(u)
  PROVE  Answers(offer)
<1>1. /\ IsPrefix(<<Head(watched)>>, watched)
      /\ Head(watched) \in {"notifications", "session", "passes", "passLogs"}
  <2>1. watched \in {<<"notifications", u>>, <<"session">>, <<"passes">>, <<"passLogs">>}
    BY RoutesOfRoles DEF KeysOf, Shell, Page, GuardTerminalPage, Selected
  <2>2. \E head \in {"notifications", "session", "passes", "passLogs"} :
          watched = <<head>> \/ \E x : watched = <<head, x>>
    BY <2>1
  <2>3. QED
    BY <2>2, HeadFacts, PrefixFacts
<1>2. CASE offer = Offer("validatePass", NoDialog, TRUE, <<{<<"passLogs">>, <<"passes">>}>>)
  <2>1. /\ offer.does = "validatePass"
        /\ 1 \in DOMAIN offer.refresh
        /\ <<"passLogs">> \in offer.refresh[1]
        /\ <<"passes">> \in offer.refresh[1]
    BY <1>2 DEF Offer
  <2>2. Touches(offer) =>
          Head(watched) \in {"passLogs", "passes", "notifications"}
    BY <1>1, <2>1, WritesOf, FeedOf, ReadsByHead DEF Touches
  <2>3. {<<"passLogs">>, <<"passes">>} \subseteq KeysRefreshed(offer)
    BY <2>1, KeyOfBatch
  <2>4. QED
    BY <1>1, <2>1, <2>2, <2>3, RefreshesByHead, OverlookedViews DEF Answers
<1>3. offer \in Shell(u).offers \/ \E row : offer \in GuardTerminalPage.offers
  BY RoutesOfRoles DEF OffersOf, Page
<1>4. QED
  BY <1>2, <1>3, ShellTable DEF GuardTerminalPage

LEMMA AccountantTable ==
  ASSUME NEW u, u \notin Students, RoleOf(u) = "Accountant", session = u,
         watched \in KeysOf(u), NEW offer \in OffersOf(u)
  PROVE  Answers(offer)
<1>1. /\ IsPrefix(<<Head(watched)>>, watched)
      /\ Head(watched) \in {"notifications", "session", "payments", "charges"}
  <2>1. watched \in {<<"notifications", u>>, <<"session">>, <<"payments">>, <<"charges">>}
    BY RoutesOfRoles DEF KeysOf, Shell, Page, AccountantPaymentsPage, Selected
  <2>2. \E head \in {"notifications", "session", "payments", "charges"} :
          watched = <<head>> \/ \E x : watched = <<head, x>>
    BY <2>1
  <2>3. QED
    BY <2>2, HeadFacts, PrefixFacts
<1>2. CASE offer = Offer("confirmPayment", "payment", TRUE,
                    <<{<<"payments">>, <<"charges">>, <<"session">>}>>)
  <2>1. /\ offer.does = "confirmPayment"
        /\ 1 \in DOMAIN offer.refresh
        /\ <<"payments">> \in offer.refresh[1]
        /\ <<"charges">> \in offer.refresh[1]
    BY <1>2 DEF Offer
  <2>2. Touches(offer) =>
          Head(watched) \in {"payments", "charges", "notifications"}
    BY <1>1, <2>1, WritesOf, FeedOf, ReadsByHead DEF Touches
  <2>3. {<<"payments">>, <<"charges">>} \subseteq KeysRefreshed(offer)
    BY <2>1, KeyOfBatch
  <2>4. QED
    BY <1>1, <2>1, <2>2, <2>3, RefreshesByHead, OverlookedViews DEF Answers
<1>3. offer \in Shell(u).offers \/ \E row : offer \in AccountantPaymentsPage.offers
  BY RoutesOfRoles DEF OffersOf, Page
<1>4. QED
  BY <1>2, <1>3, ShellTable DEF AccountantPaymentsPage

LEMMA AdminTable ==
  ASSUME NEW u, u \notin Students, RoleOf(u) = "Admin", session = u,
         watched \in KeysOf(u), NEW offer \in OffersOf(u)
  PROVE  Answers(offer)
<1>1. /\ IsPrefix(<<Head(watched)>>, watched)
      /\ Head(watched) \in {"notifications", "session", "users", "roles", "rooms"}
  <2>1. watched \in {<<"notifications", u>>, <<"session">>, <<"users">>, <<"roles">>, <<"rooms">>}
    BY RoutesOfRoles DEF KeysOf, Shell, Page, AdminUsersCatalogPage, AdminDirectoriesPage, Selected
  <2>2. \E head \in {"notifications", "session", "users", "roles", "rooms"} :
          watched = <<head>> \/ \E x : watched = <<head, x>>
    BY <2>1
  <2>3. QED
    BY <2>2, HeadFacts, PrefixFacts
<1>2. CASE offer = Offer("createUser", "user", TRUE, <<{<<"users">>}, {<<"rooms">>}>>)
  <2>1. /\ offer.does = "createUser"
        /\ 1 \in DOMAIN offer.refresh
        /\ <<"users">> \in offer.refresh[1]
        /\ 2 \in DOMAIN offer.refresh
        /\ <<"rooms">> \in offer.refresh[2]
    BY <1>2 DEF Offer
  <2>2. Touches(offer) =>
          Head(watched) \in {"users", "rooms"}
    BY <1>1, <2>1, WritesOf, FeedOf, ReadsByHead DEF Touches
  <2>3. {<<"users">>, <<"rooms">>} \subseteq KeysRefreshed(offer)
    BY <2>1, KeyOfBatch
  <2>4. QED
    BY <1>1, <2>1, <2>2, <2>3, RefreshesByHead, OverlookedViews DEF Answers
<1>3. CASE offer = Offer("deleteUser", "delete", TRUE, <<{<<"users">>}, {<<"rooms">>}>>)
  <2>1. /\ offer.does = "deleteUser"
        /\ 1 \in DOMAIN offer.refresh
        /\ <<"users">> \in offer.refresh[1]
        /\ 2 \in DOMAIN offer.refresh
        /\ <<"rooms">> \in offer.refresh[2]
    BY <1>3 DEF Offer
  <2>2. Touches(offer) =>
          Head(watched) \in {"users", "rooms", "notifications"}
    BY <1>1, <2>1, WritesOf, FeedOf, ReadsByHead DEF Touches
  <2>3. {<<"users">>, <<"rooms">>} \subseteq KeysRefreshed(offer)
    BY <2>1, KeyOfBatch
  <2>4. QED
    BY <1>1, <2>1, <2>2, <2>3, RefreshesByHead, OverlookedViews DEF Answers
<1>4. offer \in Shell(u).offers \/ \E row : offer \in AdminUsersCatalogPage.offers
  BY RoutesOfRoles DEF OffersOf, Page, AdminDirectoriesPage
<1>5. QED
  BY <1>2, <1>3, <1>4, ShellTable DEF AdminUsersCatalogPage, AdminDirectoriesPage

LEMMA Table ==
  ASSUME NEW u \in Users, session = u, watched \in KeysOf(u), NEW offer \in OffersOf(u)
  PROVE  Answers(offer)
<1>1. CASE u \in Students
  BY <1>1, StudentTable
<1>2. CASE u \notin Students
  <2>1. RoleOf(u) \in {"Commandant", "Master", "Guard", "Accountant", "Admin"}
    BY <1>2 DEF RoleOf, Users, StaffRoles
  <2>2. QED
    BY <1>2, <2>1, CommandantTable, MasterTable, GuardTable, AccountantTable, AdminTable
<1>3. QED
  BY <1>1, <1>2

(* The batches of an offer are numbered from 1.                            *)
LEMMA BatchesAreNumbered ==
  ASSUME NEW u \in Users, NEW offer \in OffersOf(u)
  PROVE  \E n \in Nat : DOMAIN offer.refresh = 1..n
<1>1. offer \in Shell(u).offers => DOMAIN offer.refresh = 1..1
  BY DEF Shell, Offer
<1>2. offer \in StudentTicketsPage(u).offers => DOMAIN offer.refresh = 1..2
  BY DEF StudentTicketsPage, Offer
<1>3. offer \in StudentPassesPage(u).offers => DOMAIN offer.refresh = 1..2
  BY DEF StudentPassesPage, Offer
<1>4. offer \in StudentFinancePage(u).offers => DOMAIN offer.refresh = 1..1
  BY DEF StudentFinancePage, Offer
<1>5. offer \in CommandantRelocationsPage.offers => DOMAIN offer.refresh = 1..2
  BY DEF CommandantRelocationsPage, Offer
<1>6. offer \in MasterTasksPage.offers => DOMAIN offer.refresh = 1..1
  BY DEF MasterTasksPage, Offer
<1>7. \A row : offer \in MasterTaskDetailPage(row).offers => DOMAIN offer.refresh = 1..1
  BY DEF MasterTaskDetailPage, Offer
<1>8. offer \in GuardTerminalPage.offers => DOMAIN offer.refresh = 1..1
  BY DEF GuardTerminalPage, Offer
<1>9. offer \in AccountantPaymentsPage.offers => DOMAIN offer.refresh = 1..1
  BY DEF AccountantPaymentsPage, Offer
<1>10. offer \in AdminUsersCatalogPage.offers => DOMAIN offer.refresh = 1..2
  BY DEF AdminUsersCatalogPage, Offer
<1>11. ASSUME NEW row, offer \in CommandantDisciplinePage(row).offers
      PROVE  \E n \in Nat : DOMAIN offer.refresh = 1..n
  <2> DEFINE first == {<<"violations">>}
             x == IF row = NoRow THEN <<>> ELSE <<{<<"violations", row>>}>>
             last == {<<"notifications">>}
             S == {first, {<<"violations", row>>}, last}
  <2>1. offer = Offer("createViolation", "violation", TRUE, <<first>> \o x \o <<last>>)
    BY <1>11 DEF CommandantDisciplinePage
  <2>2. x \in Seq(S) /\ <<first>> \in Seq(S) /\ <<last>> \in Seq(S)
    OBVIOUS
  <2> HIDE DEF first, x, last, S
  <2>3. <<first>> \o x \o <<last>> \in Seq(S)
    BY <2>2, Concatenated
  <2>4. offer.refresh = <<first>> \o x \o <<last>>
    BY <2>1 DEF Offer
  <2>5. QED
    BY <2>3, <2>4
<1>12. \/ offer \in Shell(u).offers
      \/ offer \in StudentTicketsPage(u).offers
      \/ offer \in StudentPassesPage(u).offers
      \/ offer \in StudentFinancePage(u).offers
      \/ offer \in CommandantRelocationsPage.offers
      \/ (\E row : offer \in CommandantDisciplinePage(row).offers)
      \/ offer \in MasterTasksPage.offers
      \/ (\E row : offer \in MasterTaskDetailPage(row).offers)
      \/ offer \in GuardTerminalPage.offers
      \/ offer \in AccountantPaymentsPage.offers
      \/ offer \in AdminUsersCatalogPage.offers
  <2>1. RoleOf(u) \in {"Student", "Commandant", "Master", "Guard", "Accountant", "Admin"}
    BY DEF RoleOf, Users, StaffRoles
  <2>2. QED
    BY <2>1, RoutesOfRoles DEF OffersOf, Page, StudentOverviewPage,
       CommandantOccupancyPage, AdminDirectoriesPage
<1>13. QED
  BY <1>1, <1>2, <1>3, <1>4, <1>5, <1>6, <1>7, <1>8, <1>9, <1>10, <1>11, <1>12

-----------------------------------------------------------------------------
(***************************************************************************)
(* The invariant about the followed query.  Stale data in use are being    *)
(* fetched, or could not be; data that miss a change are stale, unless the *)
(* call that made the change has yet to invalidate them; and an answer     *)
(* that misses one cannot be stored for good before such a call comes to   *)
(* its batch.                                                              *)
(***************************************************************************)
Waiting == \E c \in Calls : YetToRefresh(c)

IsCurrent(d) == d # NoData => d.current

CacheInv ==
  /\ entry.fetch # "idle" \/ entry.failed => entry.stale
  /\ entry.fetch # "answered" => entry.answer = NoData
  /\ entry.data # NoData \/ entry.fetch # "idle" => watched \in KeysOf(session)
  /\ Shown /\ entry.fetch = "idle" /\ entry.stale => entry.failed

SentInv == \A c \in Calls : calls[c].stage = "sent" => calls[c].batch = 0

CurrencyInv ==
  ~unseen => /\ IsCurrent(entry.data) \/ entry.stale \/ Waiting
             /\ IsCurrent(entry.answer) \/ Waiting

FreshInv == CacheInv /\ SentInv /\ CurrencyInv

(* Outside the application the query was never fetched.                    *)
LEMMA InitiallyFresh == WebInit => FreshInv
<1> SUFFICES ASSUME WebInit PROVE FreshInv
  OBVIOUS
<1>1. CacheInv
  BY DEF WebInit, Loading, CacheInv, Unfetched, Shown
<1>2. SentInv
  BY DEF WebInit, SentInv, NoCall
<1>3. CurrencyInv
  BY DEF WebInit, CurrencyInv, Unfetched, IsCurrent
<1>4. QED
  BY <1>1, <1>2, <1>3 DEF FreshInv

LEMMA FreshOutside ==
  ASSUME SessionInv', tab'.stage # "app"
  PROVE  FreshInv'
<1>1. entry' = Unfetched /\ calls' = [c \in Calls |-> NoCall]
  BY DEF SessionInv, Outside
<1>2. CacheInv'
  BY <1>1 DEF CacheInv, Unfetched, Shown
<1>3. SentInv'
  BY <1>1 DEF SentInv, NoCall
<1>4. CurrencyInv'
  BY <1>1 DEF CurrencyInv, Unfetched, IsCurrent
<1>5. QED
  BY <1>2, <1>3, <1>4 DEF FreshInv

(* What is shown is a key of the session's user.                           *)
LEMMA ShownIsAKey ==
  ASSUME SessionInv, Shown
  PROVE  watched \in KeysOf(session)
BY DEF SessionInv, Inside, TabOK, Shown, ShownOn, KeysOf

LEMMA ShownKept ==
  ASSUME tab'.stage = tab.stage, tab'.path = tab.path, tab'.row = tab.row,
         session' = session, watched' = watched
  PROVE  Shown' = Shown
BY DEF Shown, ShownOn

(* A step that leaves the query as it is, shows it no more than before,    *)
(* and forgets no call that has yet to invalidate it.                      *)
LEMMA EntryKept ==
  ASSUME FreshInv, UNCHANGED <<session, watched, entry, unseen>>,
         Shown' => Shown, Waiting => Waiting', SentInv'
  PROVE  FreshInv'
<1>1. CacheInv'
  BY DEF FreshInv, CacheInv
<1>2. CurrencyInv'
  BY DEF FreshInv, CurrencyInv, IsCurrent
<1>3. QED
  BY <1>1, <1>2 DEF FreshInv

(* A step that fetches the query anew.                                     *)
LEMMA EntryAsked ==
  ASSUME NEW e \in Entry(Data), entry' = Ask(e), e.stale,
         (watched \in KeysOf(session))', SentInv'
  PROVE  FreshInv'
<1>1. entry'.fetch = "asked" /\ entry'.answer = NoData /\ entry'.stale
  BY AskKeepsData
<1>2. CacheInv' /\ CurrencyInv'
  BY <1>1 DEF CacheInv, CurrencyInv, IsCurrent
<1>3. QED
  BY <1>2 DEF FreshInv

-----------------------------------------------------------------------------
(* The calls.                                                              *)

LEMMA CallFacts ==
  ASSUME SessionInv, tab.stage = "app", NEW c \in Calls, calls[c] # NoCall
  PROVE  /\ session \in Users
         /\ calls[c].offer \in OffersOf(session)
         /\ calls[c].batch \in Nat
         /\ calls[c].stage \in {"sent", "served", "refresh"}
         /\ \E n \in Nat : DOMAIN calls[c].offer.refresh = 1..n
<1>1. session \in Users
  BY DEF SessionInv, Inside
<1>2. /\ calls[c].offer \in OffersOf(session)
      /\ calls[c].batch \in Nat
      /\ calls[c].stage \in {"sent", "served", "refresh"}
  BY DEF SessionInv, CallsOK, CallOK
<1>3. QED
  BY <1>1, <1>2, BatchesAreNumbered

LEMMA NoCallWaits == \A c : calls[c] = NoCall => ~YetToRefresh(c) /\ calls[c].stage # "sent"
BY DEF NoCall, YetToRefresh

(* A step of one call concerns the others only through the query.          *)
LEMMA OthersWait ==
  ASSUME NEW c \in Calls, watched' = watched,
         \A d \in Calls : d # c => calls'[d] = calls[d],
         YetToRefresh(c) => YetToRefresh(c)'
  PROVE  Waiting => Waiting'
<1>1. \A d \in Calls : d # c /\ YetToRefresh(d) => YetToRefresh(d)'
  BY DEF YetToRefresh, Covers
<1>2. QED
  BY <1>1 DEF Waiting

LEMMA OthersSent ==
  ASSUME SentInv, NEW c \in Calls, \A d \in Calls : d # c => calls'[d] = calls[d],
         calls'[c].stage = "sent" => calls'[c].batch = 0
  PROVE  SentInv'
BY DEF SentInv

LEMMA FreshStepOfSend ==
  ASSUME SessionInv, FreshInv, NEW c \in Calls, NEW offer, Send(c, offer)
  PROVE  FreshInv'
<1>1. /\ UNCHANGED <<session, watched, entry, unseen>>
      /\ tab'.stage = tab.stage /\ tab'.path = tab.path /\ tab'.row = tab.row
  BY DEF Send, SessionInv, TabOK, TabShape
<1>2. calls[c] = NoCall /\ calls' = [calls EXCEPT ![c] = Call(offer)]
  BY DEF Send
<1>3. /\ \A d \in Calls : d # c => calls'[d] = calls[d]
      /\ calls'[c] = Call(offer)
  BY <1>2 DEF SessionInv, CallsOK
<1>4. ~YetToRefresh(c) /\ calls'[c].batch = 0
  BY <1>2, <1>3, NoCallWaits DEF Call
<1>5. (Waiting => Waiting') /\ SentInv'
  BY <1>1, <1>3, <1>4, OthersWait, OthersSent DEF FreshInv
<1>6. QED
  BY <1>1, <1>5, ShownKept, EntryKept

LEMMA FreshStepOfServe ==
  ASSUME SessionInv, FreshInv, tab.stage = "app", NEW c \in Calls, Serve(c)
  PROVE  FreshInv'
<1> DEFINE offer == calls[c].offer
<1>1. /\ calls[c].stage = "sent" /\ calls[c] # NoCall
      /\ calls' = [calls EXCEPT ![c].stage = "served"]
      /\ UNCHANGED <<session, tab, watched, unseen>>
  BY DEF Serve, NoCall
<1>2. /\ \A d \in Calls : d # c => calls'[d] = calls[d]
      /\ calls'[c] = [calls[c] EXCEPT !.stage = "served"]
  BY <1>1 DEF SessionInv, CallsOK
<1>3. calls[c] \in [stage : {"sent", "served", "refresh"}, offer : OffersOf(session),
                    batch : Nat, mine : BOOLEAN]
  BY <1>1 DEF SessionInv, CallsOK, CallOK
<1>4. calls'[c].stage = "served" /\ calls'[c].offer = offer /\ calls'[c].batch = calls[c].batch
  BY <1>2, <1>3
<1>5. ~YetToRefresh(c) /\ calls[c].batch = 0
  BY <1>1 DEF YetToRefresh, FreshInv, SentInv
<1>6. (Waiting => Waiting') /\ SentInv'
  BY <1>1, <1>2, <1>4, <1>5, OthersWait, OthersSent DEF FreshInv
<1>7. CASE entry' = entry
  BY <1>1, <1>6, <1>7, ShownKept, EntryKept
<1>8. CASE /\ Touches(offer) /\ ~IsOverlooked(offer)
           /\ entry' = [entry EXCEPT !.data = Outdated(@), !.answer = Outdated(@)]
  <2>1. entry \in Entry(Data)
    BY DEF SessionInv
  <2>2. /\ entry'.data = Outdated(entry.data) /\ entry'.answer = Outdated(entry.answer)
        /\ entry'.stale = entry.stale /\ entry'.fetch = entry.fetch
        /\ entry'.failed = entry.failed
    BY <1>8, <2>1 DEF Entry
  <2>3. /\ entry.data = NoData => entry'.data = NoData
        /\ entry.answer = NoData => entry'.answer = NoData
    BY <2>2 DEF Outdated
  <2>5. CacheInv'
    BY <1>1, <2>2, <2>3, ShownKept DEF FreshInv, CacheInv
  <2>6. CASE entry.data = NoData /\ entry.fetch = "idle"
    BY <1>6, <2>3, <2>5, <2>6 DEF FreshInv, CacheInv, CurrencyInv, IsCurrent
  <2>7. CASE entry.data # NoData \/ entry.fetch # "idle"
    <3>1. watched \in KeysOf(session)
      BY <2>7 DEF FreshInv, CacheInv
    <3>2. Refreshes(offer)
      BY <1>1, <1>8, <3>1, CallFacts, Table DEF Answers
    <3>3. PICK i \in DOMAIN offer.refresh : Covers(offer.refresh[i])
      BY <3>2 DEF Refreshes
    <3>4. i > 0
      BY <1>1, <3>3, CallFacts
    <3>5. YetToRefresh(c)'
      BY <1>1, <1>4, <1>5, <3>3, <3>4 DEF YetToRefresh, Covers
    <3>6. QED
      BY <1>6, <2>5, <3>5 DEF FreshInv, CurrencyInv, Waiting
  <2>8. QED
    BY <2>6, <2>7
<1>9. QED
  BY <1>7, <1>8 DEF Serve

(* Once a batch was invalidated its keys are stale, and being fetched if   *)
(* they are shown.                                                         *)
LEMMA FreshStepOfNextBatch ==
  ASSUME SessionInv, FreshInv, tab.stage = "app", NEW c \in Calls,
         calls[c].stage \in {"served", "refresh"}, NextBatch(c),
         UNCHANGED <<session, watched>>, Shown' = Shown
  PROVE  FreshInv'
<1> DEFINE call == calls[c]
           i == call.batch + 1
<1>1. call # NoCall
  BY DEF NoCall
<1>2. call \in [stage : {"sent", "served", "refresh"}, offer : OffersOf(session),
                batch : Nat, mine : BOOLEAN]
  BY <1>1 DEF SessionInv, CallsOK, CallOK
<1>3. PICK n \in Nat : DOMAIN call.offer.refresh = 1..n
  BY <1>1, CallFacts
<1>4. /\ \A d \in Calls : d # c => calls'[d] = calls[d]
      /\ i \in 1..n => calls'[c] = [call EXCEPT !.stage = "refresh", !.batch = i]
      /\ i \notin 1..n => calls'[c] = NoCall
  <2>1. /\ i \in 1..n => calls' = [calls EXCEPT ![c] = [call EXCEPT !.stage = "refresh", !.batch = i]]
        /\ i \notin 1..n => calls' = [calls EXCEPT ![c] = NoCall]
    BY <1>3 DEF NextBatch, SessionInv, CallsOK
  <2>2. QED
    BY <2>1 DEF SessionInv, CallsOK
<1>5. i \in 1..n => /\ calls'[c].stage = "refresh" /\ calls'[c].batch = i
                    /\ calls'[c].offer = call.offer
  BY <1>2, <1>4
<1>6. SentInv'
  BY <1>4, <1>5, OthersSent DEF FreshInv, NoCall
<1>7. YetToRefresh(c) /\ ~Covers(call.offer.refresh[i]) => i \in 1..n /\ YetToRefresh(c)'
  <2> SUFFICES ASSUME YetToRefresh(c), ~Covers(call.offer.refresh[i])
               PROVE  i \in 1..n /\ YetToRefresh(c)'
    OBVIOUS
  <2>1. PICK j \in 1..n : j > call.batch /\ Covers(call.offer.refresh[j])
    BY <1>3 DEF YetToRefresh
  <2>2. j # i
    BY <2>1
  <2>3. i \in 1..n /\ j > i
    BY <1>2, <2>1, <2>2
  <2>4. QED
    BY <1>3, <1>5, <2>1, <2>3 DEF YetToRefresh, Covers
<1>8. CASE i \in 1..n /\ Covers(call.offer.refresh[i])
  <2> DEFINE s == [entry EXCEPT !.stale = TRUE]
  <2>1. entry' = Invalidate(entry, Shown) /\ unseen' = (~Shown /\ (unseen \/ entry.fetch # "idle"))
    BY <1>3, <1>8 DEF NextBatch
  <2>2. /\ s \in Entry(Data) /\ s.stale /\ s.data = entry.data
        /\ s.answer = entry.answer /\ s.fetch = entry.fetch /\ s.failed = entry.failed
    BY StaleKeepsData DEF SessionInv
  <2>3. CASE Shown
    <3>1. entry' = Ask(s)
      BY <2>1, <2>3 DEF Invalidate
    <3>2. (watched \in KeysOf(session))'
      BY <2>3, ShownIsAKey
    <3> HIDE DEF s
    <3>3. QED
      BY <1>6, <2>2, <3>1, <3>2, EntryAsked
  <2>4. CASE ~Shown
    <3>1. entry' = s
      BY <2>1, <2>4 DEF Invalidate
    <3> HIDE DEF s
    <3>2. CacheInv'
      BY <2>2, <2>4, <3>1 DEF FreshInv, CacheInv
    <3>3. CurrencyInv'
      BY <2>1, <2>2, <2>4, <3>1 DEF FreshInv, CacheInv, CurrencyInv, IsCurrent
    <3>4. QED
      BY <1>6, <3>2, <3>3 DEF FreshInv
  <2>5. QED
    BY <2>3, <2>4
<1>9. CASE ~(i \in 1..n /\ Covers(call.offer.refresh[i]))
  <2>1. UNCHANGED <<entry, unseen>>
    BY <1>3, <1>9 DEF NextBatch
  <2>2. YetToRefresh(c) => YetToRefresh(c)'
    <3>1. CASE i \in 1..n
      BY <1>7, <1>9, <3>1
    <3>2. CASE i \notin 1..n
      BY <1>2, <1>3, <3>2 DEF YetToRefresh
    <3>3. QED
      BY <3>1, <3>2
  <2>3. Waiting => Waiting'
    BY <1>4, <2>2, OthersWait
  <2>4. QED
    BY <1>6, <2>1, <2>3, EntryKept
<1>10. QED
  BY <1>8, <1>9

(* A call that fails after it was served may leave the query behind.       *)
LEMMA FreshStepOfFail ==
  ASSUME SessionInv, FreshInv, NEW c \in Calls, Fail(c)
  PROVE  FreshInv'
<1>1. /\ UNCHANGED <<session, tab, watched, entry>>
      /\ calls[c].stage \in {"sent", "served"}
      /\ calls' = [calls EXCEPT ![c] = NoCall]
      /\ unseen' = (unseen \/ (calls[c].stage = "served" /\ IsOutdated))
  BY DEF Fail
<1>2. calls'[c] = NoCall /\ \A d \in Calls : d # c => calls'[d] = calls[d]
  BY <1>1 DEF SessionInv, CallsOK
<1>3. SentInv'
  BY <1>2, OthersSent DEF FreshInv, NoCall
<1>4. CacheInv'
  BY <1>1, ShownKept DEF FreshInv, CacheInv
<1>5. CASE calls[c].stage = "sent"
  <2>1. ~YetToRefresh(c)
    BY <1>5 DEF YetToRefresh
  <2>2. Waiting => Waiting'
    BY <1>1, <1>2, <2>1, OthersWait
  <2>3. unseen' = unseen
    BY <1>1, <1>5 DEF SessionInv
  <2>4. QED
    BY <1>1, <1>3, <2>2, <2>3, ShownKept, EntryKept
<1>6. CASE calls[c].stage = "served"
  <2>1. ~unseen' => IsCurrent(entry.data) /\ IsCurrent(entry.answer)
    BY <1>1, <1>6 DEF IsOutdated, IsCurrent
  <2>2. CurrencyInv'
    BY <1>1, <2>1 DEF CurrencyInv, IsCurrent
  <2>3. QED
    BY <1>3, <1>4, <2>2 DEF FreshInv
<1>7. QED
  BY <1>1, <1>5, <1>6

LEMMA FreshStepOfCalls ==
  ASSUME SessionInv, FreshInv, tab.stage = "app", CallNext
  PROVE  FreshInv'
<1>1. ASSUME NEW dialog \in Dialogs, OpenDialog(dialog) PROVE FreshInv'
  <2>1. /\ UNCHANGED <<session, watched, entry, unseen, calls>>
        /\ tab'.stage = tab.stage /\ tab'.path = tab.path /\ tab'.row = tab.row
    BY <1>1 DEF OpenDialog, SessionInv, TabOK, TabShape
  <2>2. (Waiting => Waiting') /\ SentInv'
    BY <2>1 DEF Waiting, YetToRefresh, Covers, FreshInv, SentInv
  <2>3. QED
    BY <2>1, <2>2, ShownKept, EntryKept
<1>2. ASSUME NEW c \in Calls, Succeed(c) PROVE FreshInv'
  <2>1. /\ UNCHANGED <<session, watched>> /\ calls[c].stage = "served" /\ NextBatch(c)
        /\ tab'.stage = tab.stage /\ tab'.path = tab.path /\ tab'.row = tab.row
    BY <1>2 DEF Succeed, SessionInv, TabOK, TabShape
  <2>2. QED
    BY <2>1, ShownKept, FreshStepOfNextBatch
<1>3. ASSUME NEW c \in Calls, Continue(c) PROVE FreshInv'
  <2>1. UNCHANGED <<session, watched, tab>> /\ calls[c].stage = "refresh" /\ NextBatch(c)
    BY <1>3 DEF Continue
  <2>2. QED
    BY <2>1, ShownKept, FreshStepOfNextBatch
<1>4. QED
  BY <1>1, <1>2, <1>3, FreshStepOfSend, FreshStepOfServe, FreshStepOfFail DEF CallNext

-----------------------------------------------------------------------------
(* The pages and the session.                                              *)

(* Steps after which every call has as much left to do as before.          *)
LEMMA CallsAsBefore ==
  ASSUME FreshInv, watched' = watched,
         \A c \in Calls : \/ calls'[c] = calls[c]
                          \/ /\ calls'[c].stage = calls[c].stage
                             /\ calls'[c].offer = calls[c].offer
                             /\ calls'[c].batch = calls[c].batch
  PROVE  (Waiting => Waiting') /\ SentInv'
<1>1. \A c \in Calls : YetToRefresh(c) => YetToRefresh(c)'
  BY DEF YetToRefresh, Covers
<1>2. QED
  BY <1>1 DEF Waiting, FreshInv, SentInv

(* The query appears on a page: stale, it is fetched.                      *)
LEMMA FreshStepOfAppearing ==
  ASSUME SessionInv, FreshInv, Appears, UNCHANGED <<session, watched>>,
         watched \in KeysOf(session), Waiting => Waiting', SentInv'
  PROVE  FreshInv'
<1> DEFINE s == [entry EXCEPT !.stale = TRUE]
<1>1. entry \in Entry(Data)
  BY DEF SessionInv
<1>2. /\ s \in Entry(Data) /\ s.stale /\ s.data = entry.data
      /\ s.answer = entry.answer /\ s.fetch = entry.fetch /\ s.failed = entry.failed
  BY <1>1, StaleKeepsData
<1> HIDE DEF s
<1>3. (watched \in KeysOf(session))'
  OBVIOUS
<1>4. entry' \in {Mount(entry), Mount(s)} /\ unseen' = (unseen /\ entry'.fetch = entry.fetch)
  BY DEF Appears, s
<1>5. CASE entry.fetch = "idle" /\ (entry' = Mount(s) \/ entry.stale)
  <2>1. PICK e \in {entry, s} : e.stale /\ e.fetch = "idle" /\ entry' = Mount(e)
    BY <1>2, <1>4, <1>5
  <2>2. entry' = Ask(e) /\ e \in Entry(Data)
    BY <1>1, <1>2, <2>1 DEF Mount
  <2>3. QED
    BY <1>3, <2>1, <2>2, EntryAsked
<1>6. CASE entry.fetch = "idle" /\ entry' = Mount(entry) /\ ~entry.stale
  <2>1. entry' = entry
    BY <1>6 DEF Mount
  <2>2. unseen' = unseen
    BY <1>4, <2>1 DEF SessionInv
  <2>3. CacheInv'
    BY <1>6, <2>1 DEF FreshInv, CacheInv
  <2>4. CurrencyInv'
    BY <2>1, <2>2 DEF FreshInv, CurrencyInv, IsCurrent
  <2>5. QED
    BY <2>3, <2>4 DEF FreshInv
<1>7. CASE entry.fetch # "idle"
  <2>1. entry' \in {entry, s}
    BY <1>2, <1>4, <1>7 DEF Mount
  <2>2. unseen' = unseen
    BY <1>2, <1>4, <2>1 DEF SessionInv
  <2>3. CacheInv'
    BY <1>2, <1>7, <2>1 DEF FreshInv, CacheInv
  <2>4. CurrencyInv'
    BY <1>2, <1>7, <2>1, <2>2 DEF FreshInv, CacheInv, CurrencyInv, IsCurrent
  <2>5. QED
    BY <2>3, <2>4 DEF FreshInv
<1>8. QED
  BY <1>4, <1>5, <1>6, <1>7

LEMMA FreshStepOfPages ==
  ASSUME SessionInv, SessionInv', FreshInv, tab.stage = "app", PageNext
  PROVE  FreshInv'
<1>1. entry \in Entry(Data)
  BY DEF SessionInv
<1>2. CASE Answer
  <2> DEFINE d == [of |-> cookie, current |-> TRUE]
  <2>1. /\ UNCHANGED <<session, watched, tab, unseen, calls>>
        /\ entry.fetch = "asked" /\ entry' = Answered(entry, d)
    BY <1>2 DEF Answer
  <2>2. /\ entry'.data = entry.data /\ entry'.answer = d /\ entry'.fetch = "answered"
        /\ entry'.stale = entry.stale /\ entry'.failed = entry.failed /\ d.current
    BY <1>1, <2>1 DEF Answered, Entry
  <2>3. (Waiting => Waiting') /\ SentInv'
    BY <2>1, CallsAsBefore
  <2>4. CacheInv'
    BY <2>1, <2>2 DEF FreshInv, CacheInv
  <2>5. CurrencyInv'
    BY <2>1, <2>2, <2>3 DEF FreshInv, CurrencyInv, IsCurrent
  <2>6. QED
    BY <2>3, <2>4, <2>5 DEF FreshInv
<1>3. CASE Store
  <2>1. /\ UNCHANGED <<session, watched, tab, unseen, calls>>
        /\ entry.fetch = "answered" /\ entry' = Stored(entry)
    BY <1>3 DEF Store
  <2>2. /\ entry'.data = entry.answer /\ entry'.answer = NoData /\ entry'.fetch = "idle"
        /\ ~entry'.stale /\ ~entry'.failed
    BY <2>1 DEF Stored, Unfetched
  <2>3. (Waiting => Waiting') /\ SentInv'
    BY <2>1, CallsAsBefore
  <2>4. CacheInv'
    BY <2>1, <2>2 DEF FreshInv, CacheInv
  <2>5. CurrencyInv'
    BY <2>1, <2>2, <2>3 DEF FreshInv, CurrencyInv, IsCurrent
  <2>6. QED
    BY <2>3, <2>4, <2>5 DEF FreshInv
<1>4. CASE FetchFails
  <2>1. /\ UNCHANGED <<session, watched, tab, unseen, calls>>
        /\ entry.fetch # "idle" /\ entry' = Lost(entry)
    BY <1>4 DEF FetchFails
  <2>2. /\ entry'.data = entry.data /\ entry'.answer = NoData /\ entry'.fetch = "idle"
        /\ entry'.stale = entry.stale /\ entry'.failed
    BY <1>1, <2>1 DEF Lost, Entry
  <2>3. (Waiting => Waiting') /\ SentInv'
    BY <2>1, CallsAsBefore
  <2>4. CacheInv'
    BY <2>1, <2>2 DEF FreshInv, CacheInv
  <2>5. CurrencyInv'
    BY <2>1, <2>2, <2>3 DEF FreshInv, CacheInv, CurrencyInv, IsCurrent
  <2>6. QED
    BY <2>3, <2>4, <2>5 DEF FreshInv
<1>5. ASSUME NEW path \in AnyPath, NEW row \in Rows \cup {NoRow}, Navigate(path, row)
      PROVE  FreshInv'
  <2>1. /\ UNCHANGED <<cookie, session, watched>> /\ calls' = Disown
        /\ tab'.stage = "app" /\ tab'.path = path /\ tab'.row = row
        /\ path \in Routes(RoleOf(session))
        /\ IF watched \in Page(path, session, row).shows
           THEN Appears ELSE UNCHANGED <<entry, unseen>>
    BY <1>5 DEF Navigate, SessionInv, TabOK, TabShape
  <2>2. (Waiting => Waiting') /\ SentInv'
    <3>1. ASSUME NEW c \in Calls, calls[c] # NoCall
          PROVE  /\ [calls[c] EXCEPT !.mine = FALSE].stage = calls[c].stage
                 /\ [calls[c] EXCEPT !.mine = FALSE].offer = calls[c].offer
                 /\ [calls[c] EXCEPT !.mine = FALSE].batch = calls[c].batch
      <4>1. calls[c] \in [stage : {"sent", "served", "refresh"}, offer : OffersOf(session),
                          batch : Nat, mine : BOOLEAN]
        BY <3>1 DEF SessionInv, CallsOK, CallOK
      <4>2. QED
        BY <4>1
    <3>2. \A c \in Calls : \/ calls'[c] = calls[c]
                           \/ /\ calls'[c].stage = calls[c].stage
                              /\ calls'[c].offer = calls[c].offer
                              /\ calls'[c].batch = calls[c].batch
      BY <2>1, <3>1 DEF Disown
    <3>3. QED
      BY <2>1, <3>2, CallsAsBefore
  <2>3. CASE watched \in Page(path, session, row).shows
    <3>1. watched \in KeysOf(session)
      BY <2>1, <2>3 DEF KeysOf
    <3>2. QED
      BY <2>1, <2>2, <2>3, <3>1, FreshStepOfAppearing
  <2>4. CASE watched \notin Page(path, session, row).shows
    <3>1. Shown' => Shown
      BY <2>1, <2>4 DEF Shown, ShownOn
    <3>2. QED
      BY <2>1, <2>2, <2>4, <3>1, EntryKept
  <2>5. QED
    BY <2>3, <2>4
<1>6. ASSUME NEW row \in Rows \cup {NoRow}, SelectRow(row)
      PROVE  FreshInv'
  <2>1. /\ UNCHANGED <<cookie, session, watched, calls>>
        /\ tab'.stage = tab.stage /\ tab'.path = tab.path /\ tab'.row = row
        /\ IF ~Shown /\ watched \in ShownOn(tab.path, row)
           THEN Appears ELSE UNCHANGED <<entry, unseen>>
    BY <1>6 DEF SelectRow, SessionInv, TabOK, TabShape
  <2>2. (Waiting => Waiting') /\ SentInv'
    BY <2>1, CallsAsBefore
  <2>3. CASE ~Shown /\ watched \in ShownOn(tab.path, row)
    <3>1. watched \in KeysOf(session)
      BY <2>1, <2>3 DEF ShownOn, KeysOf, SessionInv, Inside
    <3>2. QED
      BY <2>1, <2>2, <2>3, <3>1, FreshStepOfAppearing
  <2>4. CASE ~(~Shown /\ watched \in ShownOn(tab.path, row))
    <3>1. Shown' => Shown
      BY <2>1, <2>4 DEF Shown, ShownOn
    <3>2. QED
      BY <2>1, <2>2, <2>4, <3>1, EntryKept
  <2>5. QED
    BY <2>3, <2>4
<1>7. CASE CloseDialog
  <2>1. /\ UNCHANGED <<session, watched, entry, unseen, calls>>
        /\ tab'.stage = tab.stage /\ tab'.path = tab.path /\ tab'.row = tab.row
    BY <1>7 DEF CloseDialog, SessionInv, TabOK, TabShape
  <2>2. (Waiting => Waiting') /\ SentInv'
    BY <2>1, CallsAsBefore
  <2>3. QED
    BY <2>1, <2>2, ShownKept, EntryKept
<1>8. QED
  BY <1>2, <1>3, <1>4, <1>5, <1>6, <1>7 DEF PageNext

(* What the first page shows is fetched at once.                           *)
LEMMA FreshStepOfEntering ==
  ASSUME SessionInv, SessionInv', tab.stage # "app", cookie # Nobody, Enter(cookie),
         UNCHANGED <<watched, unseen, calls>>
  PROVE  FreshInv'
<1> DEFINE known == tab.path \in Routes(RoleOf(cookie))
           path == IF known THEN tab.path ELSE DefaultRoute(RoleOf(cookie))
           row == IF known THEN tab.row ELSE NoRow
           shows == Page(path, cookie, row).shows \cup Shell(cookie).shows
           fetched == [of |-> cookie, current |-> TRUE]
<1>1. cookie \in Users /\ entry = Unfetched /\ calls = [c \in Calls |-> NoCall]
  BY DEF SessionInv, Outside
<1>2. path \in Routes(RoleOf(cookie)) /\ row \in Rows \cup {NoRow}
  BY <1>1, DefaultIsARoute DEF SessionInv, TabOK
<1>3. session' = cookie /\ tab' = [Loading(path, row) EXCEPT !.stage = "app"]
  BY DEF Enter
<1>4. tab'.stage = "app" /\ tab'.path = path /\ tab'.row = row
  BY <1>3 DEF Loading
<1>5. SentInv'
  BY <1>1 DEF SentInv, NoCall
<1>6. CASE watched = <<"session">>
  <2>1. entry' = [Unfetched EXCEPT !.data = fetched, !.stale = FALSE]
    BY <1>6 DEF Enter
  <2>2. /\ entry'.data = fetched /\ entry'.answer = NoData /\ fetched.current
        /\ entry'.fetch = "idle" /\ ~entry'.stale /\ ~entry'.failed
    BY <2>1 DEF Unfetched
  <2>3. (watched \in KeysOf(session))'
    BY <1>3, <1>6 DEF KeysOf
  <2>4. CacheInv'
    BY <2>2, <2>3 DEF CacheInv
  <2>5. CurrencyInv'
    BY <2>2 DEF CurrencyInv, IsCurrent
  <2>6. QED
    BY <1>5, <2>4, <2>5 DEF FreshInv
<1>7. CASE watched # <<"session">> /\ watched \in shows
  <2>1. entry' = Mount(Unfetched)
    BY <1>1, <1>7 DEF Enter
  <2>2. entry' = Ask(Unfetched) /\ Unfetched.stale
    BY <2>1 DEF Mount, Unfetched
  <2>3. (watched \in KeysOf(session))'
    BY <1>2, <1>3, <1>7 DEF KeysOf
  <2>4. QED
    BY <1>5, <2>2, <2>3, UnfetchedIsEntry, EntryAsked
<1>8. CASE watched # <<"session">> /\ watched \notin shows
  <2>1. entry' = Unfetched
    BY <1>1, <1>8 DEF Enter
  <2>2. ~Shown'
    BY <1>3, <1>4, <1>8 DEF Shown, ShownOn
  <2>3. CacheInv'
    BY <2>1, <2>2 DEF CacheInv, Unfetched
  <2>4. CurrencyInv'
    BY <2>1 DEF CurrencyInv, IsCurrent, Unfetched
  <2>5. QED
    BY <1>5, <2>3, <2>4 DEF FreshInv
<1>9. QED
  BY <1>6, <1>7, <1>8

LEMMA FreshStepOfSession ==
  ASSUME SessionInv, SessionInv', FreshInv, SessionNext
  PROVE  FreshInv'
<1>1. CASE tab'.stage # "app"
  BY <1>1, FreshOutside
<1>2. CASE ProbeAnswered
  BY <1>2, FreshStepOfEntering DEF ProbeAnswered
<1>3. CASE SignedIn
  <2>1. tab.stage # "app" /\ cookie # Nobody
    BY <1>3 DEF SignedIn, SessionInv, TabOK
  <2>2. QED
    BY <1>3, <2>1, FreshStepOfEntering DEF SignedIn
<1>4. CASE SessionEnds \/ Leave
  <2>1. /\ UNCHANGED <<session, watched, entry, unseen, calls>>
        /\ tab'.stage = tab.stage /\ tab'.path = tab.path /\ tab'.row = tab.row
    BY <1>4 DEF SessionEnds, Leave, SessionInv, TabOK, TabShape
  <2>2. (Waiting => Waiting') /\ SentInv'
    BY <2>1, CallsAsBefore
  <2>3. QED
    BY <2>1, <2>2, ShownKept, EntryKept
<1>5. CASE \/ ProbeFails \/ LeaveServed \/ LeaveFails \/ Reload
  <2>1. tab'.stage # "app"
    BY <1>5 DEF ProbeFails, LeaveServed, LeaveFails, Reload, Clear, LoginPage, Loading
  <2>2. QED
    BY <1>1, <2>1
<1>6. CASE (\E u \in Users : SignIn(u)) \/ SignInServed \/ SignInFails
  <2>1. tab'.stage # "app"
    BY <1>6 DEF SignIn, SignInServed, SignInFails, SessionInv, TabOK, TabShape
  <2>2. QED
    BY <1>1, <2>1
<1>7. QED
  BY <1>2, <1>3, <1>4, <1>5, <1>6 DEF SessionNext

LEMMA FreshStep ==
  ASSUME SessionInv, SessionInv', FreshInv, [WebNext]_wvars
  PROVE  FreshInv'
<1>1. CASE UNCHANGED wvars
  <2>1. UNCHANGED <<session, watched, entry, unseen, calls, tab>>
    BY <1>1 DEF wvars
  <2>2. (Waiting => Waiting') /\ SentInv'
    BY <2>1, CallsAsBefore
  <2>3. QED
    BY <2>1, <2>2, ShownKept, EntryKept
<1>2. CASE PageNext /\ tab.stage # "app"
  <2>1. tab'.stage # "app"
    BY <1>2 DEF PageNext, Answer, Store, FetchFails, Navigate, SelectRow, InUse, CloseDialog,
       SessionInv, TabOK, TabShape
  <2>2. QED
    BY <2>1, FreshOutside
<1>3. QED
  BY <1>1, <1>2, FreshStepOfSession, FreshStepOfPages, FreshStepOfCalls DEF WebNext

(* A page shows what its own tab changed, whichever of its calls, batches  *)
(* and fetches overtake one another (the onSuccess of every page).         *)
THEOREM OwnChangesAreShown == WebSpec => []ReadYourWrites
<1>1. SessionInv /\ SessionInv' /\ FreshInv /\ [WebNext]_wvars => FreshInv'
  BY FreshStep
<1>2. FreshInv => ReadYourWrites
  BY DEF FreshInv, CacheInv, CurrencyInv, ReadYourWrites, IsCurrent, Waiting
<1>3. QED
  BY SessionAlways, InitiallyFresh, <1>1, <1>2, PTL DEF WebSpec
=============================================================================
