----------------------------- MODULE WebClient -----------------------------
(***************************************************************************)
(* One tab of the web client: App with its session query, routes and       *)
(* logout, the login page, and the pages with the calls they make.  The    *)
(* cookies of the session are the server's word for who the tab is; the    *)
(* cache remembers who it was.                                             *)
(*                                                                         *)
(* Of the cached queries one is followed, any of them: what it holds is    *)
(* told apart by the user it was served to and by whether it reflects what *)
(* this tab changed itself.  Two calls may be under way at once, each of   *)
(* which writes what the followed query reads, or invalidates it: others   *)
(* do not matter to it.                                                    *)
(***************************************************************************)
EXTENDS Pages, SequencesExt

CONSTANTS
  Calls,     \* bounds the calls under way
  Watchable, \* the keys that may be followed
  Nobody,
  NoData

ASSUME NobodyIsNoUser == Nobody \notin Users

VARIABLES
  cookie,   \* whom the server takes the tab for
  session,  \* the data of ['session']: whom the tab takes itself for
  tab,      \* [stage, path, row, dialog, signingIn, leaving]
  watched,  \* the key that is followed; never changes
  entry,    \* its cache entry
  unseen,   \* history: a change was served whose answer was lost
  calls     \* the calls under way

wvars == <<cookie, session, tab, watched, entry, unseen, calls>>

INSTANCE QueryCache

Data == [of : Users, current : BOOLEAN]

NoCall == [stage |-> "none"]
Call(offer) == [stage |-> "sent", offer |-> offer, batch |-> 0, mine |-> TRUE]

Loading(path, row) ==
  [stage |-> "loading", path |-> path, row |-> row, dialog |-> NoDialog,
   signingIn |-> Nobody, leaving |-> FALSE]
LoginPage == [Loading("login", NoRow) EXCEPT !.stage = "login"]

Current == Page(tab.path, session, tab.row)
Offers == Current.offers \cup Shell(session).offers
ShownOn(path, row) == Page(path, session, row).shows \cup Shell(session).shows \cup {<<"session">>}
Shown == tab.stage = "app" /\ watched \in ShownOn(tab.path, tab.row)

WebTypeOK ==
  /\ cookie \in Users \cup {Nobody}
  /\ session \in Users \cup {Nobody}
  /\ tab.stage \in {"loading", "login", "app"}
  /\ tab.stage = "app" => tab.path \in Routes(RoleOf(session))
  /\ tab.row \in Rows \cup {NoRow}
  /\ tab.signingIn \in Users \cup {Nobody}
  /\ tab.leaving \in BOOLEAN
  /\ watched \in Watchable
  /\ entry \in Entry(Data)
  /\ unseen \in BOOLEAN
  /\ \A c \in Calls : calls[c].stage \in {"none", "sent", "served", "refresh"}

(* The tab is opened with or without a session of old.                     *)
WebInit ==
  /\ cookie \in Users \cup {Nobody} /\ session = Nobody
  /\ tab = Loading("login", NoRow)
  /\ watched \in Watchable
  /\ entry = Unfetched /\ unseen = FALSE
  /\ calls = [c \in Calls |-> NoCall]

-----------------------------------------------------------------------------
(* The session.                                                            *)

(* The routes of the role are rendered, and any other path is replaced by  *)
(* the default route.  The session is fetched data itself.                 *)
Enter(u) ==
  LET known == tab.path \in Routes(RoleOf(u))
      path == IF known THEN tab.path ELSE DefaultRoute(RoleOf(u))
      row == IF known THEN tab.row ELSE NoRow
  IN  /\ session' = u
      /\ tab' = [Loading(path, row) EXCEPT !.stage = "app"]
      /\ entry' = IF watched = <<"session">>
                  THEN [Unfetched EXCEPT !.data = [of |-> u, current |-> TRUE], !.stale = FALSE]
                  ELSE IF watched \in Page(path, u, row).shows \cup Shell(u).shows
                  THEN Mount(entry) ELSE entry

ProbeAnswered ==
  /\ tab.stage = "loading" /\ cookie # Nobody
  /\ Enter(cookie)
  /\ UNCHANGED <<cookie, watched, unseen, calls>>

(* Refused, or lost: the login page shows in both cases.                   *)
ProbeFails ==
  /\ tab.stage = "loading"
  /\ tab' = LoginPage
  /\ UNCHANGED <<cookie, session, watched, entry, unseen, calls>>

SignIn(u) ==
  /\ tab.stage = "login" /\ tab.signingIn = Nobody
  /\ tab' = [tab EXCEPT !.signingIn = u]
  /\ UNCHANGED <<cookie, session, watched, entry, unseen, calls>>

SignInServed ==
  /\ tab.stage = "login" /\ tab.signingIn # Nobody
  /\ cookie' = tab.signingIn
  /\ UNCHANGED <<session, tab, watched, entry, unseen, calls>>

(* onSuccess fetches the session, whoever it is then.                      *)
SignedIn ==
  /\ tab.stage = "login" /\ tab.signingIn # Nobody
  /\ cookie = tab.signingIn
  /\ Enter(cookie)
  /\ UNCHANGED <<cookie, watched, unseen, calls>>

(* An error is shown, even if login itself came through and only the fetch *)
(* of the session failed; then the cookies are set.                        *)
SignInFails ==
  /\ tab.stage = "login" /\ tab.signingIn # Nobody
  /\ tab' = [tab EXCEPT !.signingIn = Nobody]
  /\ UNCHANGED <<cookie, session, watched, entry, unseen, calls>>

(* It expires or is revoked.                                               *)
SessionEnds ==
  /\ cookie # Nobody
  /\ cookie' = Nobody
  /\ UNCHANGED <<session, tab, watched, entry, unseen, calls>>

(* handleLogout.                                                           *)
Leave ==
  /\ tab.stage = "app" /\ ~tab.leaving
  /\ tab' = [tab EXCEPT !.leaving = TRUE, !.dialog = NoDialog]
  /\ UNCHANGED <<cookie, session, watched, entry, unseen, calls>>

(* The cache is cleared, and the location replaced: everything under way   *)
(* is forgotten, and the new page does not ask for the session.            *)
Clear_SessionOnly ==
  /\ session' = Nobody
  /\ tab' = LoginPage
  /\ calls' = [c \in Calls |-> NoCall]
  /\ UNCHANGED <<entry, unseen>>
Clear ==
  /\ session' = Nobody
  /\ tab' = LoginPage
  /\ entry' = Unfetched /\ unseen' = FALSE
  /\ calls' = [c \in Calls |-> NoCall]

LeaveServed ==
  /\ tab.leaving
  /\ cookie' = Nobody
  /\ Clear
  /\ UNCHANGED watched

(* The failure is swallowed; the server may still hold the session.        *)
LeaveFails_NotCaught ==
  /\ tab.leaving
  /\ tab' = [tab EXCEPT !.leaving = FALSE]
  /\ UNCHANGED <<cookie, session, watched, entry, unseen, calls>>
LeaveFails ==
  /\ tab.leaving
  /\ Clear
  /\ UNCHANGED <<cookie, watched>>

(* Of the tab by its user, who waits for a logout; after one the login     *)
(* page asks for no session until another address is opened.               *)
Reload ==
  /\ ~tab.leaving
  /\ session' = Nobody
  /\ tab' = Loading(tab.path, IF IsAboutRow(tab.path) THEN tab.row ELSE NoRow)
  /\ entry' = Unfetched /\ unseen' = FALSE
  /\ calls' = [c \in Calls |-> NoCall]
  /\ UNCHANGED <<cookie, watched>>

-----------------------------------------------------------------------------
(* The followed query.                                                     *)

Answer ==
  /\ entry.fetch = "asked" /\ cookie # Nobody
  /\ entry' = Answered(entry, [of |-> cookie, current |-> TRUE])
  /\ UNCHANGED <<cookie, session, tab, watched, unseen, calls>>

Store ==
  /\ entry.fetch = "answered"
  /\ entry' = Stored(entry)
  /\ UNCHANGED <<cookie, session, tab, watched, unseen, calls>>

FetchFails ==
  /\ entry.fetch # "idle"
  /\ entry' = Lost(entry)
  /\ UNCHANGED <<cookie, session, tab, watched, unseen, calls>>

(* The user waits for a logout.                                            *)
InUse == tab.stage = "app" /\ ~tab.leaving

(* The query appears on the page, now or after staleTime.                  *)
Appears ==
  /\ entry' \in {Mount(entry), Mount([entry EXCEPT !.stale = TRUE])}
  /\ unseen' = (unseen /\ entry'.fetch = entry.fetch)

(* A page goes with its state, and its mutations go on without it.         *)
Disown ==
  [c \in Calls |-> IF calls[c] = NoCall \/ calls[c].offer \in Shell(session).offers
                   THEN calls[c] ELSE [calls[c] EXCEPT !.mine = FALSE]]

AnyPath == UNION {Routes(RoleOf(u)) : u \in Users}

(* A path of another role is replaced by the default route (Enter).        *)
Navigate_AnyRole(path, row) ==
  /\ InUse /\ path # tab.path
  /\ IF IsAboutRow(path) THEN row \in Rows /\ tab.path = "tasks" ELSE row = NoRow
  /\ tab' = [tab EXCEPT !.path = path, !.row = row, !.dialog = NoDialog]
  /\ calls' = Disown
  /\ IF watched \in Page(path, session, row).shows THEN Appears ELSE UNCHANGED <<entry, unseen>>
  /\ UNCHANGED <<cookie, session, watched>>
Navigate(path, row) ==
  /\ InUse /\ path # tab.path /\ path \in Routes(RoleOf(session))
  /\ IF IsAboutRow(path) THEN row \in Rows /\ tab.path = "tasks" ELSE row = NoRow
  /\ tab' = [tab EXCEPT !.path = path, !.row = row, !.dialog = NoDialog]
  /\ calls' = Disown
  /\ IF watched \in Page(path, session, row).shows THEN Appears ELSE UNCHANGED <<entry, unseen>>
  /\ UNCHANGED <<cookie, session, watched>>

SelectRow(row) ==
  /\ InUse /\ Selects(tab.path) /\ row # tab.row
  /\ tab' = [tab EXCEPT !.row = row]
  /\ IF ~Shown /\ watched \in ShownOn(tab.path, row) THEN Appears ELSE UNCHANGED <<entry, unseen>>
  /\ UNCHANGED <<cookie, session, watched, calls>>

-----------------------------------------------------------------------------
(* The calls.                                                              *)

Covers(keys) == \E k \in keys : IsPrefix(k, watched)
Touches(offer) == Writes(offer.does) \cap Reads(watched, session) # {}
Matters(offer) ==
  Touches(offer) \/ \E i \in DOMAIN offer.refresh : Covers(offer.refresh[i])

Dialogs == {o.dialog : o \in {x \in Offers : Matters(x)}} \ {NoDialog}

OpenDialog(dialog) ==
  /\ InUse /\ tab.dialog = NoDialog /\ dialog \in Dialogs
  /\ tab' = [tab EXCEPT !.dialog = dialog]
  /\ UNCHANGED <<cookie, session, watched, entry, unseen, calls>>

CloseDialog ==
  /\ tab.dialog # NoDialog
  /\ tab' = [tab EXCEPT !.dialog = NoDialog]
  /\ UNCHANGED <<cookie, session, watched, entry, unseen, calls>>

IsPending(offer) ==
  \E c \in Calls : calls[c] # NoCall /\ calls[c].mine /\ calls[c].offer.does = offer.does

(* The master's dialog is closed by submitting, all others by success.     *)
Send(c, offer) ==
  /\ InUse /\ calls[c] = NoCall
  /\ offer \in Offers /\ Matters(offer)
  /\ offer.dialog \in {NoDialog, tab.dialog}
  /\ offer.locked => ~IsPending(offer)
  /\ calls' = [calls EXCEPT ![c] = Call(offer)]
  /\ tab' = IF offer.dialog = "complete" THEN [tab EXCEPT !.dialog = NoDialog] ELSE tab
  /\ UNCHANGED <<cookie, session, watched, entry, unseen>>

(* What was read before no longer is current.                              *)
Outdated(d) == IF d = NoData THEN NoData ELSE [d EXCEPT !.current = FALSE]

IsOutdated == \E d \in {entry.data, entry.answer} : d # NoData /\ ~d.current

(* Views that a page leaves as they are, whatever it changed in them.      *)
Overlooked(does) ==
  CASE does = "reviewRelocation"   -> {"occupancy", "room-detail", "user-search"}
    [] does = "updateTicketStatus" -> {"notifications", "ticket-detail"}
    [] does = "validatePass"       -> {"notifications"}
    [] does = "confirmPayment"     -> {"notifications"}
    [] does = "deleteUser"         -> {"notifications"}
    [] OTHER                       -> {}

IsOverlooked(offer) ==
  /\ Head(watched) \in Overlooked(offer.does)
  /\ ~ \E i \in DOMAIN offer.refresh : Covers(offer.refresh[i])

Serve(c) ==
  /\ calls[c].stage = "sent" /\ cookie = session
  /\ calls' = [calls EXCEPT ![c].stage = "served"]
  /\ entry' = IF Touches(calls[c].offer) /\ ~IsOverlooked(calls[c].offer)
              THEN [entry EXCEPT !.data = Outdated(@), !.answer = Outdated(@)]
              ELSE entry
  /\ UNCHANGED <<cookie, session, tab, watched, unseen>>

(* The next batch is invalidated; a query that is not shown while it is    *)
(* fetched will count as fresh with what it had been asked for before.     *)
NextBatch(c) ==
  LET call == calls[c]
      i == call.batch + 1
  IN  IF i \in DOMAIN call.offer.refresh
      THEN /\ calls' = [calls EXCEPT ![c].stage = "refresh", ![c].batch = i]
           /\ IF Covers(call.offer.refresh[i])
              THEN /\ entry' = Invalidate(entry, Shown)
                   /\ unseen' = (~Shown /\ (unseen \/ entry.fetch # "idle"))
              ELSE UNCHANGED <<entry, unseen>>
      ELSE /\ calls' = [calls EXCEPT ![c] = NoCall]
           /\ UNCHANGED <<entry, unseen>>

Succeed(c) ==
  /\ calls[c].stage = "served"
  /\ NextBatch(c)
  /\ tab' = IF calls[c].mine /\ calls[c].offer.dialog # NoDialog
            THEN [tab EXCEPT !.dialog = NoDialog] ELSE tab
  /\ UNCHANGED <<cookie, session, watched>>

Continue(c) ==
  /\ calls[c].stage = "refresh"
  /\ Covers(calls[c].offer.refresh[calls[c].batch]) => entry.fetch = "idle" \/ ~Shown
  /\ NextBatch(c)
  /\ UNCHANGED <<cookie, session, tab, watched>>

(* Nobody sees it fail: no page has an onError but the terminal's.         *)
Fail(c) ==
  /\ calls[c].stage \in {"sent", "served"}
  /\ calls' = [calls EXCEPT ![c] = NoCall]
  /\ unseen' = (unseen \/ (calls[c].stage = "served" /\ IsOutdated))
  /\ UNCHANGED <<cookie, session, tab, watched, entry>>

-----------------------------------------------------------------------------
SessionNext ==
  \/ ProbeAnswered \/ ProbeFails
  \/ \E u \in Users : SignIn(u)
  \/ SignInServed \/ SignedIn \/ SignInFails \/ SessionEnds
  \/ Leave \/ LeaveServed \/ LeaveFails \/ Reload

PageNext ==
  \/ Answer \/ Store \/ FetchFails
  \/ \E path \in AnyPath, row \in Rows \cup {NoRow} : Navigate(path, row)
  \/ \E row \in Rows \cup {NoRow} : SelectRow(row)
  \/ CloseDialog

CallNext ==
  \/ \E dialog \in Dialogs : OpenDialog(dialog)
  \/ \E c \in Calls, offer \in Offers : Send(c, offer)
  \/ \E c \in Calls : Serve(c) \/ Succeed(c) \/ Continue(c) \/ Fail(c)

WebNext == SessionNext \/ PageNext \/ (tab.stage = "app" /\ CallNext)

WebSpec == WebInit /\ [][WebNext]_wvars

(* Every request is answered or fails, and the browser carries on.         *)
FairWeb == WebSpec /\ WF_wvars(LeaveServed \/ LeaveFails)

-----------------------------------------------------------------------------
YetToRefresh(c) ==
  /\ calls[c].stage \in {"served", "refresh"}
  /\ \E i \in DOMAIN calls[c].offer.refresh :
       i > calls[c].batch /\ Covers(calls[c].offer.refresh[i])

(* A page shows what its own tab changed.  Data from before such a change  *)
(* are shown only while the call that made it has yet to be answered or to *)
(* invalidate them, or after their fetch or that answer was lost: although *)
(* the keys are invalidated page by page and batch by batch, while other   *)
(* calls, fetches from before the change and the routes go on              *)
(* (every onSuccess of the pages, src/pages).                              *)
ReadYourWrites ==
  Shown /\ entry.data # NoData /\ entry.fetch = "idle" /\ ~entry.failed /\ ~unseen =>
    \/ entry.data.current
    \/ \E c \in Calls : YetToRefresh(c)

(* What is shown was served to the user whom the tab takes itself for,     *)
(* however the user before left: the keys of the staff's queries and of    *)
(* the rooms do not name their user, so the cache must not outlive the     *)
(* session (App handleLogout).                                             *)
NobodyElsesData == Shown /\ entry.data # NoData => entry.data.of = session

(* Logging out ends at the login page with nothing cached, even if the     *)
(* server cannot be reached ("we still need to clear the client state",    *)
(* App handleLogout).                                                      *)
LogoutEndsAtLogin ==
  tab.leaving ~> (tab.stage = "login" /\ session = Nobody /\ entry.data = NoData)
=============================================================================
