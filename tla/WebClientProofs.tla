-------------------------- MODULE WebClientProofs --------------------------
(***************************************************************************)
(* Theorems about WebClient for every value of its constants: any students *)
(* and rows, any query followed, and any number of calls under way.        *)
(***************************************************************************)
EXTENDS WebClient, TLAPS

(***************************************************************************)
(* The invariant about the session.  Outside the application nothing is    *)
(* cached and nothing under way; inside it the server takes the tab for    *)
(* the session's user or for nobody, so that whatever is answered was      *)
(* served to that user.                                                    *)
(***************************************************************************)
TabShape ==
  tab = [stage |-> tab.stage, path |-> tab.path, row |-> tab.row, dialog |-> tab.dialog,
         signingIn |-> tab.signingIn, leaving |-> tab.leaving]

TabOK ==
  /\ TabShape
  /\ tab.stage \in {"loading", "login", "app"}
  /\ tab.row \in Rows \cup {NoRow}
  /\ tab.signingIn \in Users \cup {Nobody}
  /\ tab.leaving \in BOOLEAN

(* What a user may do on some page.                                        *)
OffersOf(u) ==
  Shell(u).offers \cup UNION {Page(path, u, row).offers :
                               path \in Routes(RoleOf(u)), row \in Rows \cup {NoRow}}

CallOK(call) ==
  \/ call = NoCall
  \/ call \in [stage : {"sent", "served", "refresh"}, offer : OffersOf(session),
               batch : Nat, mine : BOOLEAN]

CallsOK == calls = [c \in Calls |-> calls[c]] /\ \A c \in Calls : CallOK(calls[c])

Inside ==
  /\ session \in Users
  /\ cookie \in {session, Nobody}
  /\ tab.path \in Routes(RoleOf(session))
  /\ \A d \in {entry.data, entry.answer} : d # NoData => d.of = session

Outside ==
  /\ session = Nobody
  /\ ~tab.leaving
  /\ entry = Unfetched
  /\ unseen = FALSE
  /\ calls = [c \in Calls |-> NoCall]

SessionInv ==
  /\ cookie \in Users \cup {Nobody}
  /\ watched \in Watchable
  /\ unseen \in BOOLEAN
  /\ entry \in Entry(Data)
  /\ TabOK
  /\ CallsOK
  /\ IF tab.stage = "app" THEN Inside ELSE Outside

-----------------------------------------------------------------------------
(* What the operations of the cache make of a well-formed entry.           *)

LEMMA EntryFields ==
  ASSUME NEW e \in Entry(Data)
  PROVE  /\ e.data \in Data \cup {NoData}
         /\ e.answer \in Data \cup {NoData}
         /\ e.fetch \in {"idle", "asked", "answered"}
         /\ e.stale \in BOOLEAN
         /\ e.failed \in BOOLEAN
BY DEF Entry, Fetches

LEMMA UnfetchedIsEntry ==
  /\ Unfetched \in Entry(Data)
  /\ Unfetched.data = NoData /\ Unfetched.answer = NoData
BY DEF Unfetched, Entry, Fetches

LEMMA AskKeepsData ==
  ASSUME NEW e \in Entry(Data)
  PROVE  /\ Ask(e) \in Entry(Data)
         /\ Ask(e).data = e.data /\ Ask(e).answer = NoData
         /\ Ask(e).fetch = "asked" /\ Ask(e).stale = e.stale
BY DEF Ask, Entry, Fetches

LEMMA StaleKeepsData ==
  ASSUME NEW e \in Entry(Data)
  PROVE  LET s == [e EXCEPT !.stale = TRUE]
         IN  /\ s \in Entry(Data)
             /\ s.data = e.data /\ s.answer = e.answer
             /\ s.fetch = e.fetch /\ s.stale /\ s.failed = e.failed
BY DEF Entry, Fetches

LEMMA MountKeepsData ==
  ASSUME NEW e \in Entry(Data)
  PROVE  /\ Mount(e) \in Entry(Data)
         /\ Mount(e).data = e.data
         /\ Mount(e).answer \in {e.answer, NoData}
BY AskKeepsData DEF Mount

LEMMA InvalidateKeepsData ==
  ASSUME NEW e \in Entry(Data), NEW mounted \in BOOLEAN
  PROVE  /\ Invalidate(e, mounted) \in Entry(Data)
         /\ Invalidate(e, mounted).data = e.data
         /\ Invalidate(e, mounted).answer \in {e.answer, NoData}
<1> DEFINE s == [e EXCEPT !.stale = TRUE]
<1>1. s \in Entry(Data) /\ s.data = e.data /\ s.answer = e.answer
  BY StaleKeepsData
<1>2. Ask(s) \in Entry(Data) /\ Ask(s).data = s.data /\ Ask(s).answer = NoData
  BY <1>1, AskKeepsData
<1>3. QED
  BY <1>1, <1>2 DEF Invalidate

LEMMA AnsweredTakesAnswer ==
  ASSUME NEW e \in Entry(Data), NEW d \in Data
  PROVE  /\ Answered(e, d) \in Entry(Data)
         /\ Answered(e, d).data = e.data /\ Answered(e, d).answer = d
BY DEF Answered, Entry, Fetches

LEMMA StoredTakesAnswer ==
  ASSUME NEW e \in Entry(Data)
  PROVE  /\ Stored(e) \in Entry(Data)
         /\ Stored(e).data = e.answer /\ Stored(e).answer = NoData
BY DEF Stored, Unfetched, Entry, Fetches

LEMMA LostKeepsData ==
  ASSUME NEW e \in Entry(Data)
  PROVE  /\ Lost(e) \in Entry(Data)
         /\ Lost(e).data = e.data /\ Lost(e).answer = NoData
BY DEF Lost, Entry, Fetches

LEMMA OutdatedKeepsUser ==
  ASSUME NEW d \in Data \cup {NoData}
  PROVE  /\ Outdated(d) \in Data \cup {NoData}
         /\ Outdated(d) # NoData =>
              d # NoData /\ Outdated(d).of = d.of /\ ~Outdated(d).current
BY DEF Outdated, Data

(* The first page of a role is one of its pages.                           *)
LEMMA DefaultIsARoute ==
  ASSUME NEW u \in Users
  PROVE  DefaultRoute(RoleOf(u)) \in Routes(RoleOf(u))
<1>1. RoleOf(u) \in {"Student"} \cup StaffRoles
  BY DEF RoleOf, Users
<1>2. \A role \in {"Student"} \cup StaffRoles : 1 \in DOMAIN Navigation(role)
  BY DEF Navigation, StaffRoles
<1>3. QED
  BY <1>1, <1>2 DEF Routes, DefaultRoute
-----------------------------------------------------------------------------
(* The session invariant is inductive.                                     *)

LEMMA InitialSession == WebInit => SessionInv
<1> SUFFICES ASSUME WebInit PROVE SessionInv
  OBVIOUS
<1>1. TabOK /\ tab.stage = "loading" /\ ~tab.leaving
  BY DEF WebInit, Loading, TabOK, TabShape
<1>2. CallsOK
  BY DEF WebInit, CallsOK, CallOK
<1>3. Outside
  BY <1>1 DEF WebInit, Outside
<1>4. QED
  BY <1>1, <1>2, <1>3, UnfetchedIsEntry DEF WebInit, SessionInv

(* The tab enters the application with an empty cache, or with the session *)
(* that was just fetched.                                                  *)
LEMMA EnterKeepsSession ==
  ASSUME SessionInv, tab.stage # "app", cookie # Nobody, Enter(cookie),
         UNCHANGED <<cookie, watched, unseen, calls>>
  PROVE  SessionInv'
<1> DEFINE known == tab.path \in Routes(RoleOf(cookie))
           path == IF known THEN tab.path ELSE DefaultRoute(RoleOf(cookie))
           row == IF known THEN tab.row ELSE NoRow
<1>1. cookie \in Users /\ entry = Unfetched /\ CallsOK /\ TabOK
  BY DEF SessionInv, Outside
<1>2. path \in Routes(RoleOf(cookie)) /\ row \in Rows \cup {NoRow}
  BY <1>1, DefaultIsARoute DEF TabOK
<1>3. tab' = [Loading(path, row) EXCEPT !.stage = "app"] /\ session' = cookie
  BY DEF Enter
<1>4. /\ TabOK' /\ tab'.stage = "app" /\ tab'.path = path
  BY <1>2, <1>3 DEF TabOK, TabShape, Loading
<1>5. /\ entry' \in Entry(Data)
      /\ \A d \in {entry'.data, entry'.answer} : d # NoData => d.of = cookie
  <2>1. CASE watched = <<"session">>
    <3>1. entry' = [Unfetched EXCEPT !.data = [of |-> cookie, current |-> TRUE], !.stale = FALSE]
      BY <2>1 DEF Enter
    <3> DEFINE d == [of |-> cookie, current |-> TRUE]
    <3>2. d \in Data /\ d.of = cookie
      BY <1>1 DEF Data
    <3>3. entry' \in Entry(Data) /\ entry'.data = d /\ entry'.answer = NoData
      BY <3>1, <3>2 DEF Unfetched, Entry, Fetches
    <3>4. QED
      BY <3>2, <3>3
  <2>2. CASE watched # <<"session">>
    <3>1. entry' \in {Mount(Unfetched), Unfetched}
      BY <2>2, <1>1 DEF Enter
    <3>2. QED
      BY <3>1, MountKeepsData, UnfetchedIsEntry
  <2>3. QED
    BY <2>1, <2>2
<1>6. CallsOK'
  BY <1>1 DEF CallsOK, CallOK, Outside, SessionInv
<1>7. Inside'
  BY <1>1, <1>2, <1>3, <1>4, <1>5 DEF Inside
<1>8. QED
  BY <1>1, <1>4, <1>5, <1>6, <1>7 DEF SessionInv
(* Most steps inside the application change no user and leave of the cache *)
(* what was served to the session's user.                                  *)
LEMMA InsideStep ==
  ASSUME SessionInv, tab.stage = "app",
         UNCHANGED <<session, watched>>, cookie' \in {cookie, Nobody},
         unseen' \in BOOLEAN, TabOK', tab'.stage = "app",
         tab'.path \in Routes(RoleOf(session)), CallsOK',
         entry' \in Entry(Data),
         \A d \in {entry'.data, entry'.answer} : d # NoData => d.of = session
  PROVE  SessionInv'
<1>1. Inside'
  BY DEF SessionInv, Inside
<1>2. QED
  BY <1>1 DEF SessionInv

(* When the followed query stays as it is, or appears on a page.           *)
LEMMA CachedKept ==
  ASSUME SessionInv, tab.stage = "app", Appears \/ UNCHANGED <<entry, unseen>>
  PROVE  /\ unseen' \in BOOLEAN
         /\ entry' \in Entry(Data)
         /\ \A d \in {entry'.data, entry'.answer} : d # NoData => d.of = session
<1>1. /\ entry \in Entry(Data) /\ unseen \in BOOLEAN
      /\ \A d \in {entry.data, entry.answer} : d # NoData => d.of = session
  BY DEF SessionInv, Inside
<1> DEFINE s == [entry EXCEPT !.stale = TRUE]
<1>2. s \in Entry(Data) /\ s.data = entry.data /\ s.answer = entry.answer
  BY <1>1, StaleKeepsData
<1>3. \A e \in {entry, s} :
        Mount(e) \in Entry(Data) /\ Mount(e).data = e.data /\ Mount(e).answer \in {e.answer, NoData}
  BY <1>1, <1>2, MountKeepsData
<1>4. CASE Appears
  <2>1. entry' \in {Mount(entry), Mount(s)}
    BY <1>4 DEF Appears
  <2>2. unseen' \in BOOLEAN
    BY <1>4, <1>1 DEF Appears
  <2>3. QED
    BY <2>1, <2>2, <1>1, <1>2, <1>3
<1>5. CASE UNCHANGED <<entry, unseen>>
  BY <1>5, <1>1
<1>6. QED
  BY <1>4, <1>5

LEMMA TabFieldChange ==
  ASSUME TabOK,
         \/ tab' = tab
         \/ \E d : tab' = [tab EXCEPT !.dialog = d]
         \/ \E u \in Users \cup {Nobody} : tab' = [tab EXCEPT !.signingIn = u]
         \/ \E row \in Rows \cup {NoRow} : tab' = [tab EXCEPT !.row = row]
  PROVE  TabOK' /\ tab'.stage = tab.stage /\ tab'.path = tab.path /\ tab'.leaving = tab.leaving
BY DEF TabOK, TabShape

LEMMA LoginPageIsOK ==
  ASSUME tab' = LoginPage
  PROVE  TabOK' /\ tab'.stage = "login" /\ ~tab'.leaving
BY DEF TabOK, TabShape, LoginPage, Loading

(* What becomes of a call under way.                                       *)
LEMMA CallFieldChange ==
  ASSUME NEW call, CallOK(call), call # NoCall
  PROVE  /\ CallOK([call EXCEPT !.mine = FALSE])
         /\ \A stage \in {"sent", "served", "refresh"} : CallOK([call EXCEPT !.stage = stage])
         /\ CallOK([call EXCEPT !.stage = "refresh", !.batch = call.batch + 1])
<1> DEFINE O == OffersOf(session)
           Under == [stage : {"sent", "served", "refresh"}, offer : O,
                     batch : Nat, mine : BOOLEAN]
<1>1. call \in Under
  BY DEF CallOK
<1> HIDE DEF O
<1>2. [call EXCEPT !.mine = FALSE] \in Under
  BY <1>1
<1>3. \A stage \in {"sent", "served", "refresh"} : [call EXCEPT !.stage = stage] \in Under
  BY <1>1
<1>4. [call EXCEPT !.stage = "refresh", !.batch = call.batch + 1] \in Under
  <2>1. call.batch + 1 \in Nat
    BY <1>1
  <2>2. \A i \in Nat : [call EXCEPT !.stage = "refresh", !.batch = i] \in Under
    BY <1>1
  <2>3. QED
    BY <2>1, <2>2
<1>5. QED
  BY <1>2, <1>3, <1>4 DEF CallOK, O

(* A step that leaves every call well formed.                              *)
LEMMA CallsStayOK ==
  ASSUME session' = session, calls' = [c \in Calls |-> calls'[c]],
         \A c \in Calls : CallOK(calls'[c])
  PROVE  CallsOK'
<1>1. \A c \in Calls : CallOK(calls[c])'
  BY DEF CallOK, NoCall
<1>2. QED
  BY <1>1 DEF CallsOK

LEMMA NewCallOK ==
  \A offer \in OffersOf(session) : CallOK(Call(offer)) /\ Call(offer) # NoCall
BY DEF CallOK, Call, NoCall

(* Clearing the cache on logout or by reloading leaves nothing behind.     *)
LEMMA NothingLeft ==
  ASSUME SessionInv, session' = Nobody, entry' = Unfetched, unseen' = FALSE,
         calls' = [c \in Calls |-> NoCall], watched' = watched,
         cookie' \in {cookie, Nobody},
         TabOK', tab'.stage # "app", ~tab'.leaving
  PROVE  SessionInv'
<1>1. CallsOK'
  BY DEF CallsOK, CallOK
<1>2. Outside'
  BY DEF Outside
<1>3. QED
  BY <1>1, <1>2, UnfetchedIsEntry DEF SessionInv

LEMMA SessionStepOfSession ==
  ASSUME SessionInv, SessionNext
  PROVE  SessionInv'
<1>1. CASE ProbeAnswered
  BY <1>1, EnterKeepsSession DEF ProbeAnswered
<1>2. CASE ProbeFails
  <2>1. TabOK' /\ tab'.stage = "login" /\ ~tab'.leaving
    BY <1>2, LoginPageIsOK DEF ProbeFails
  <2>2. Outside
    BY <1>2 DEF ProbeFails, SessionInv
  <2>3. QED
    BY <1>2, <2>1, <2>2, NothingLeft DEF ProbeFails, Outside
<1>3. ASSUME NEW u \in Users, SignIn(u) PROVE SessionInv'
  <2>1. TabOK' /\ tab'.stage = "login" /\ tab'.leaving = tab.leaving
    BY <1>3, TabFieldChange DEF SignIn, SessionInv
  <2>2. Outside
    BY <1>3 DEF SignIn, SessionInv
  <2>3. QED
    BY <1>3, <2>1, <2>2, NothingLeft DEF SignIn, Outside
<1>4. CASE SignInServed
  <2>1. cookie' \in Users /\ TabOK' /\ CallsOK' /\ Outside'
    BY <1>4 DEF SignInServed, SessionInv, TabOK, TabShape, CallsOK, CallOK, NoCall, Outside
  <2>2. QED
    BY <1>4, <2>1 DEF SignInServed, SessionInv
<1>5. CASE SignedIn
  <2>1. cookie # Nobody
    BY <1>5 DEF SignedIn
  <2>2. QED
    BY <1>5, <2>1, EnterKeepsSession DEF SignedIn
<1>6. CASE SignInFails
  <2>1. TabOK' /\ tab'.stage = "login" /\ tab'.leaving = tab.leaving
    BY <1>6, TabFieldChange DEF SignInFails, SessionInv
  <2>2. Outside
    BY <1>6 DEF SignInFails, SessionInv
  <2>3. QED
    BY <1>6, <2>1, <2>2, NothingLeft DEF SignInFails, Outside
<1>7. CASE SessionEnds
  <2>1. TabOK' /\ CallsOK' /\ tab'.stage = tab.stage
    BY <1>7 DEF SessionEnds, SessionInv, TabOK, TabShape, CallsOK, CallOK, NoCall
  <2>2. IF tab.stage = "app" THEN Inside' ELSE Outside'
    BY <1>7 DEF SessionEnds, SessionInv, Inside, Outside
  <2>3. QED
    BY <1>7, <2>1, <2>2 DEF SessionEnds, SessionInv
<1>8. CASE Leave
  <2>1. tab' = [tab EXCEPT !.leaving = TRUE, !.dialog = NoDialog]
    BY <1>8 DEF Leave
  <2>2. TabOK' /\ tab'.stage = "app" /\ tab'.path = tab.path
    BY <2>1, <1>8 DEF Leave, SessionInv, TabOK, TabShape
  <2>3. CallsOK'
    BY <1>8 DEF Leave, SessionInv, CallsOK, CallOK, NoCall
  <2>4. tab.stage = "app" /\ UNCHANGED <<cookie, session, watched, entry, unseen>>
    BY <1>8 DEF Leave
  <2>5. QED
    BY <2>2, <2>3, <2>4, InsideStep DEF SessionInv, Inside
<1>9. CASE LeaveServed \/ LeaveFails
  <2>1. Clear /\ watched' = watched /\ cookie' \in {cookie, Nobody}
    BY <1>9 DEF LeaveServed, LeaveFails
  <2>2. TabOK' /\ tab'.stage = "login" /\ ~tab'.leaving
    BY <2>1, LoginPageIsOK DEF Clear
  <2>3. QED
    BY <2>1, <2>2, NothingLeft DEF Clear
<1>10. CASE Reload
  <2>1. TabOK' /\ tab'.stage = "loading" /\ ~tab'.leaving
    BY <1>10 DEF Reload, Loading, SessionInv, TabOK, TabShape
  <2>2. QED
    BY <1>10, <2>1, NothingLeft DEF Reload
<1>11. QED
  BY <1>1, <1>2, <1>3, <1>4, <1>5, <1>6, <1>7, <1>8, <1>9, <1>10 DEF SessionNext

LEMMA SessionStepOfPages ==
  ASSUME SessionInv, PageNext
  PROVE  SessionInv'
<1> USE DEF SessionInv
<1>1. entry \in Entry(Data) /\ unseen \in BOOLEAN
  OBVIOUS
<1>2. ASSUME tab.stage = "app" PROVE Inside
  BY <1>2
<1>3. ASSUME entry.fetch # "idle" PROVE tab.stage = "app"
  BY <1>3 DEF Outside, Unfetched
<1>4. CASE Answer
  <2> DEFINE d == [of |-> cookie, current |-> TRUE]
  <2>1. tab.stage = "app" /\ cookie = session /\ session \in Users
    BY <1>4, <1>2, <1>3 DEF Answer, Inside
  <2>2. d \in Data /\ d.of = session
    BY <2>1 DEF Data
  <2>3. entry' \in Entry(Data) /\ entry'.data = entry.data /\ entry'.answer = d
    BY <1>1, <1>4, <2>2, AnsweredTakesAnswer DEF Answer
  <2>4. TabOK' /\ CallsOK'
    BY <1>4 DEF Answer, TabOK, TabShape, CallsOK, CallOK, NoCall
  <2>5. QED
    BY <1>4, <2>1, <2>2, <2>3, <2>4, InsideStep DEF Answer, Inside
<1>5. CASE Store
  <2>1. tab.stage = "app"
    BY <1>5, <1>3 DEF Store
  <2>2. entry' \in Entry(Data) /\ entry'.data = entry.answer /\ entry'.answer = NoData
    BY <1>1, <1>5, StoredTakesAnswer DEF Store
  <2>3. TabOK' /\ CallsOK'
    BY <1>5 DEF Store, TabOK, TabShape, CallsOK, CallOK, NoCall
  <2>4. QED
    BY <1>5, <2>1, <2>2, <2>3, InsideStep DEF Store, Inside
<1>6. CASE FetchFails
  <2>1. tab.stage = "app"
    BY <1>6, <1>3 DEF FetchFails
  <2>2. entry' \in Entry(Data) /\ entry'.data = entry.data /\ entry'.answer = NoData
    BY <1>1, <1>6, LostKeepsData DEF FetchFails
  <2>3. TabOK' /\ CallsOK'
    BY <1>6 DEF FetchFails, TabOK, TabShape, CallsOK, CallOK, NoCall
  <2>4. QED
    BY <1>6, <2>1, <2>2, <2>3, InsideStep DEF FetchFails, Inside
<1>7. ASSUME NEW path \in AnyPath, NEW row \in Rows \cup {NoRow}, Navigate(path, row)
      PROVE  SessionInv'
  <2>1. /\ tab.stage = "app" /\ path \in Routes(RoleOf(session))
        /\ UNCHANGED <<cookie, session, watched>>
        /\ Appears \/ UNCHANGED <<entry, unseen>>
    BY <1>7 DEF Navigate, InUse
  <2>2. tab' = [tab EXCEPT !.path = path, !.row = row, !.dialog = NoDialog]
    BY <1>7 DEF Navigate
  <2>3. TabOK' /\ tab'.stage = "app" /\ tab'.path = path
    BY <2>1, <2>2 DEF TabOK, TabShape
  <2>4. calls' = Disown
    BY <1>7 DEF Navigate
  <2>5. \A c \in Calls : CallOK(Disown[c])
    BY CallFieldChange DEF Disown, CallsOK
  <2>6. CallsOK'
    BY <2>1, <2>4, <2>5, CallsStayOK DEF Disown
  <2>7. QED
    BY <2>1, <2>3, <2>6, CachedKept, InsideStep
<1>8. ASSUME NEW row \in Rows \cup {NoRow}, SelectRow(row) PROVE SessionInv'
  <2>1. /\ tab.stage = "app" /\ UNCHANGED <<cookie, session, watched>>
        /\ Appears \/ UNCHANGED <<entry, unseen>>
    BY <1>8 DEF SelectRow, InUse
  <2>2. TabOK' /\ tab'.stage = "app" /\ tab'.path = tab.path
    BY <1>8, <2>1, TabFieldChange DEF SelectRow
  <2>3. CallsOK'
    BY <1>8 DEF SelectRow, CallsOK, CallOK, NoCall
  <2>4. QED
    BY <2>1, <2>2, <2>3, CachedKept, InsideStep DEF Inside
<1>9. CASE CloseDialog
  <2>1. TabOK' /\ tab'.stage = tab.stage /\ tab'.path = tab.path /\ tab'.leaving = tab.leaving
    BY <1>9, TabFieldChange DEF CloseDialog
  <2>2. CallsOK'
    BY <1>9 DEF CloseDialog, CallsOK, CallOK, NoCall
  <2>3. IF tab.stage = "app" THEN Inside' ELSE Outside'
    BY <1>9, <2>1 DEF CloseDialog, Inside, Outside
  <2>4. QED
    BY <1>9, <2>1, <2>2, <2>3 DEF CloseDialog
<1>10. QED
  BY <1>4, <1>5, <1>6, <1>7, <1>8, <1>9 DEF PageNext
LEMMA SessionStepOfCalls ==
  ASSUME SessionInv, tab.stage = "app", CallNext
  PROVE  SessionInv'
<1> USE DEF SessionInv
<1>1. entry \in Entry(Data) /\ unseen \in BOOLEAN /\ Inside
  OBVIOUS
<1>2. ASSUME NEW dialog \in Dialogs, OpenDialog(dialog) PROVE SessionInv'
  <2>1. TabOK' /\ tab'.stage = tab.stage /\ tab'.path = tab.path
    BY <1>2, TabFieldChange DEF OpenDialog
  <2>2. CallsOK'
    BY <1>2 DEF OpenDialog, CallsOK, CallOK, NoCall
  <2>3. QED
    BY <1>1, <1>2, <2>1, <2>2, InsideStep DEF OpenDialog, Inside
<1>3. ASSUME NEW c \in Calls, NEW offer \in Offers, Send(c, offer) PROVE SessionInv'
  <2>1. TabOK' /\ tab'.stage = tab.stage /\ tab'.path = tab.path
    BY <1>3, TabFieldChange DEF Send
  <2>2. calls' = [calls EXCEPT ![c] = Call(offer)]
    BY <1>3 DEF Send
  <2>5. offer \in OffersOf(session)
    BY <1>1, <1>3 DEF Send, Offers, Current, OffersOf, Inside, SessionInv, TabOK
  <2>3. CallsOK'
    BY <1>3, <2>2, <2>5, NewCallOK, CallsStayOK DEF CallsOK, Send
  <2>4. QED
    BY <1>1, <1>3, <2>1, <2>3, InsideStep DEF Send, Inside
<1>4. ASSUME NEW c \in Calls, Serve(c) PROVE SessionInv'
  <2>1. TabOK' /\ UNCHANGED <<tab, cookie, session, watched, unseen>>
    BY <1>4, TabFieldChange DEF Serve
  <2>2. calls[c] # NoCall /\ calls' = [calls EXCEPT ![c].stage = "served"]
    BY <1>4 DEF Serve, NoCall
  <2>3. CallsOK'
    <3>1. CallOK([calls[c] EXCEPT !.stage = "served"])
      BY <2>2, CallFieldChange DEF CallsOK
    <3>2. QED
      BY <2>1, <2>2, <3>1, CallsStayOK DEF CallsOK
  <2> DEFINE e == [entry EXCEPT !.data = Outdated(@), !.answer = Outdated(@)]
  <2>4. e \in Entry(Data) /\ e.data = Outdated(entry.data) /\ e.answer = Outdated(entry.answer)
    BY <1>1, EntryFields, OutdatedKeepsUser DEF Entry
  <2>5. entry' \in {e, entry}
    BY <1>4 DEF Serve
  <2>6. \A d \in {entry.data, entry.answer} :
          Outdated(d) # NoData => Outdated(d).of = session
    <3>1. \A d \in {entry.data, entry.answer} :
            d \in Data \cup {NoData} /\ (d # NoData => d.of = session)
      BY <1>1, EntryFields DEF Inside
    <3>2. QED
      BY <3>1, OutdatedKeepsUser
  <2>8. \A d \in {e.data, e.answer} : d # NoData => d.of = session
    BY <2>4, <2>6
  <2>9. \A d \in {entry'.data, entry'.answer} : d # NoData => d.of = session
    BY <1>1, <2>5, <2>8 DEF Inside
  <2>7. QED
    BY <1>1, <2>1, <2>3, <2>4, <2>5, <2>9, InsideStep DEF Inside
<1>5. ASSUME NEW c \in Calls, calls[c] # NoCall, NextBatch(c), session' = session
      PROVE  /\ CallsOK' /\ unseen' \in BOOLEAN /\ entry' \in Entry(Data)
             /\ \A d \in {entry'.data, entry'.answer} : d # NoData => d.of = session
  <2> DEFINE i == calls[c].batch + 1
  <2>1. \/ calls' = [calls EXCEPT ![c].stage = "refresh", ![c].batch = i]
        \/ calls' = [calls EXCEPT ![c] = NoCall]
    BY <1>5 DEF NextBatch
  <2>2. CallsOK'
    <3>1. CallOK([calls[c] EXCEPT !.stage = "refresh", !.batch = i]) /\ CallOK(NoCall)
      BY <1>5, CallFieldChange DEF CallsOK, CallOK
    <3>2. \/ calls' = [calls EXCEPT ![c] = [calls[c] EXCEPT !.stage = "refresh", !.batch = i]]
          \/ calls' = [calls EXCEPT ![c] = NoCall]
      BY <2>1 DEF CallsOK
    <3>3. calls' = [d \in Calls |-> calls'[d]] /\ \A d \in Calls : CallOK(calls'[d])
      BY <3>1, <3>2 DEF CallsOK
    <3>4. QED
      BY <1>5, <3>3, CallsStayOK
  <2>3. Shown \in BOOLEAN
    BY DEF Shown
  <2>4. \/ UNCHANGED <<entry, unseen>>
        \/ entry' = Invalidate(entry, Shown) /\ unseen' \in BOOLEAN
    BY <1>5, <2>3, <1>1 DEF NextBatch
  <2>5. QED
    BY <1>1, <2>2, <2>3, <2>4, InvalidateKeepsData DEF Inside
<1>6. ASSUME NEW c \in Calls, Succeed(c) PROVE SessionInv'
  <2>1. TabOK' /\ tab'.stage = tab.stage /\ tab'.path = tab.path
    BY <1>6, TabFieldChange DEF Succeed
  <2>2. calls[c] # NoCall /\ NextBatch(c) /\ UNCHANGED <<cookie, session, watched>>
    BY <1>6 DEF Succeed, NoCall
  <2>3. QED
    BY <1>1, <1>5, <2>1, <2>2, InsideStep DEF Inside
<1>7. ASSUME NEW c \in Calls, Continue(c) PROVE SessionInv'
  <2>1. TabOK' /\ UNCHANGED <<tab, cookie, session, watched>>
    BY <1>7, TabFieldChange DEF Continue
  <2>2. calls[c] # NoCall /\ NextBatch(c)
    BY <1>7 DEF Continue, NoCall
  <2>3. QED
    BY <1>1, <1>5, <2>1, <2>2, InsideStep DEF Inside
<1>8. ASSUME NEW c \in Calls, Fail(c) PROVE SessionInv'
  <2>1. TabOK' /\ UNCHANGED <<tab, cookie, session, watched, entry>>
    BY <1>8, TabFieldChange DEF Fail
  <2>2. CallsOK'
    BY <1>8 DEF Fail, CallsOK, CallOK, NoCall
  <2>3. unseen' \in BOOLEAN
    BY <1>1, <1>8 DEF Fail
  <2>4. QED
    BY <1>1, <2>1, <2>2, <2>3, InsideStep DEF Inside
<1>9. QED
  BY <1>2, <1>3, <1>4, <1>6, <1>7, <1>8 DEF CallNext

LEMMA SessionStep ==
  ASSUME SessionInv, [WebNext]_wvars
  PROVE  SessionInv'
<1>1. CASE UNCHANGED wvars
  <2>1. TabOK' /\ CallsOK'
    BY <1>1 DEF wvars, SessionInv, TabOK, TabShape, CallsOK, CallOK, NoCall
  <2>2. IF tab.stage = "app" THEN Inside' ELSE Outside'
    BY <1>1 DEF wvars, SessionInv, Inside, Outside
  <2>3. QED
    BY <1>1, <2>1, <2>2 DEF wvars, SessionInv
<1>2. QED
  BY <1>1, SessionStepOfSession, SessionStepOfPages, SessionStepOfCalls DEF WebNext

LEMMA SessionAlways == WebSpec => []SessionInv
<1>1. SessionInv /\ [WebNext]_wvars => SessionInv'
  BY SessionStep
<1>2. QED
  BY InitialSession, <1>1, PTL DEF WebSpec

-----------------------------------------------------------------------------
(* The state is always well formed; in particular the path is always one   *)
(* of the session's role (renderRoleRoutes).                               *)
THEOREM TypeCorrect == WebSpec => []WebTypeOK
<1>1. SessionInv => WebTypeOK
  <2> SUFFICES ASSUME SessionInv PROVE WebTypeOK
    OBVIOUS
  <2>1. session \in Users \cup {Nobody} /\ (tab.stage = "app" => tab.path \in Routes(RoleOf(session)))
    BY DEF SessionInv, Inside, Outside
  <2>2. \A c \in Calls : calls[c].stage \in {"none", "sent", "served", "refresh"}
    BY DEF SessionInv, CallsOK, CallOK, NoCall
  <2>3. QED
    BY <2>1, <2>2 DEF SessionInv, WebTypeOK, TabOK
<1>2. QED
  BY SessionAlways, <1>1, PTL

(* However one user follows another at the same tab, and whichever of the  *)
(* calls fails, a page never shows what was served to somebody else        *)
(* (handleLogout clears the cache, and only it ends a session in a tab).   *)
THEOREM DataAreOwn == WebSpec => []NobodyElsesData
<1>1. SessionInv => NobodyElsesData
  BY DEF SessionInv, Inside, NobodyElsesData, Shown
<1>2. QED
  BY SessionAlways, <1>1, PTL
=============================================================================
