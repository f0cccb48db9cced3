------------------------- MODULE GuardTerminalProofs -------------------------
(***************************************************************************)
(* Theorems about GuardTerminal for every value of its constants: any      *)
(* number of passes, guests and requests that others have in flight.       *)
(***************************************************************************)
EXTENDS GuardTerminal, GuestPassesProofs

(***************************************************************************)
(* The cached list.                                                        *)
(***************************************************************************)
Lists == [PassIds -> ListedStatus]

LEMMA EntryFields ==
  ASSUME NEW e \in Entry(Lists)
  PROVE  /\ e.data \in Lists \cup {NoData} /\ e.fetch \in Fetches
         /\ e.answer \in Lists \cup {NoData} /\ e.failed \in BOOLEAN
BY DEF Entry

LEMMA AnsweredFields ==
  ASSUME NEW e \in Entry(Lists), NEW d \in Lists
  PROVE  /\ Answered(e, d) \in Entry(Lists)
         /\ Answered(e, d).data = e.data /\ Answered(e, d).fetch = "answered"
         /\ Answered(e, d).answer = d /\ Answered(e, d).failed = e.failed
BY DEF Entry, Answered, Fetches

LEMMA StoredFields ==
  ASSUME NEW e \in Entry(Lists)
  PROVE  /\ Stored(e) \in Entry(Lists)
         /\ Stored(e).data = e.answer /\ Stored(e).fetch = "idle" /\ Stored(e).failed = FALSE
BY DEF Entry, Stored, Unfetched, Fetches

LEMMA LostFields ==
  ASSUME NEW e \in Entry(Lists)
  PROVE  /\ Lost(e) \in Entry(Lists)
         /\ Lost(e).data = e.data /\ Lost(e).fetch = "idle" /\ Lost(e).failed = TRUE
BY DEF Entry, Lost, Fetches

LEMMA InvalidateFields ==
  ASSUME NEW e \in Entry(Lists)
  PROVE  /\ Invalidate(e, TRUE) \in Entry(Lists)
         /\ Invalidate(e, TRUE).data = e.data /\ Invalidate(e, TRUE).fetch = "asked"
<1> DEFINE f == [e EXCEPT !.stale = TRUE]
<1>1. f \in Entry(Lists) /\ f.data = e.data
  BY DEF Entry
<1>2. Invalidate(e, TRUE) = Ask(f)
  BY DEF Invalidate
<1> HIDE DEF f
<1>3. Ask(f) \in Entry(Lists) /\ Ask(f).data = f.data /\ Ask(f).fetch = "asked"
  BY <1>1 DEF Entry, Ask, Fetches
<1>4. QED
  BY <1>1, <1>2, <1>3

LEMMA MountFields ==
  LET e == Mount(Unfetched)
  IN  e \in Entry(Lists) /\ e.data = NoData /\ e.fetch = "asked"
BY DEF Entry, Mount, Ask, Unfetched, Fetches

LEMMA ListedIsList == TypeOK => Listed \in Lists
<1> SUFFICES ASSUME TypeOK, NEW p \in PassIds
             PROVE  passes[p].status \in PassStatus \cup {"absent"}
  BY DEF Listed, Lists, ListedStatus
<1>1. QED
  BY PassFields

(***************************************************************************)
(* What a list says of the passes.  It agrees on who is inside, except for *)
(* the passes it calls Expired: those are over, and stay over.             *)
(***************************************************************************)
IsInside(p) == passes[p].status = "Entered"

Agrees(d) == \A p \in PassIds : d[p] \in PassStatus => (d[p] = "Entered" <=> IsInside(p))
Expiry(d) == \A p \in PassIds : d[p] = "Expired" => passes[p].window = "over"

LEMMA ListedAgrees == TypeOK => Agrees(Listed) /\ Expiry(Listed)
BY PassFields DEF Agrees, Expiry, IsInside, Listed, PassStatus

(* A pass that is over stays over; a quiet step also lets nobody in or out. *)
OverStays == \A p \in PassIds : passes[p].window = "over" => passes'[p].window = "over"
Quiet == OverStays /\ \A p \in PassIds : IsInside(p)' <=> IsInside(p)

LEMMA StillExpired == OverStays => \A d : Expiry(d) => Expiry(d)'
BY DEF OverStays, Expiry

LEMMA StillAgrees ==
  ASSUME Quiet
  PROVE  /\ \A d : Agrees(d) => Agrees(d)'
         /\ \A d : Expiry(d) => Expiry(d)'
BY DEF Quiet, OverStays, Agrees, Expiry

LEMMA NoPassWritten == UNCHANGED passes => Quiet
BY DEF Quiet, OverStays, IsInside

(***************************************************************************)
(* The invariant.  Part one: the request the page waits for is being       *)
(* served, and the page is unsure while any other may be recorded, so that *)
(* a trusted press has the service to itself.                              *)
(***************************************************************************)
CallOK ==
  /\ call.stage = "served" =>
       /\ call.worker \in Workers
       /\ req[call.worker].stage \in ValidateStages
       /\ req[call.worker].pass = call.pass
  /\ call.stage # "served" => call.worker = NoWorker
  /\ call.stage # "none" => call.pass \in PassIds

StraysAreKnown == Astray => unsure
TrustIsKept == call.trusted => ~unsure

(* Part two: the list is fetched again before it is relied on, and nothing *)
(* is pressed before it was first fetched.  It may lag behind only while a *)
(* validation recorded has not been followed by a refetch, when that       *)
(* refetch failed, or when the page is unsure.                             *)
Trusted == ~list.failed /\ ~unsure
Settled == \/ call.stage \in {"none", "sent", "served"}
           \/ call.stage = "refresh" /\ list.fetch = "idle"

ListOK ==
  /\ list.fetch # "idle" => call.stage = "refresh" \/ list.data = NoData
  /\ list.data = NoData => call.stage = "none" /\ screen.result # "valid"
  /\ list.fetch = "answered" =>
       list.answer # NoData /\ Expiry(list.answer) /\ (~unsure => Agrees(list.answer))
  /\ list.data # NoData => Expiry(list.data)
  /\ list.data # NoData /\ Settled /\ Trusted => Agrees(list.data)

(* Part three: what the screen shows of the pass checked.                  *)
ScreenOK ==
  screen.result = "valid" =>
    /\ screen.pass \in PassIds
    /\ timers = 0 /\ Trusted /\ call.stage = "none" =>
         (screen.status = "Entered" <=> IsInside(screen.pass))

(* Part four: what a trusted press wants is what the service will record.  *)
PressOK ==
  call.trusted /\ call.stage \in {"sent", "served"} =>
    (call.wants = "exit" <=> IsInside(call.pass))

Own == /\ list \in Entry(Lists) /\ screen \in Screen /\ call \in Call
       /\ timers \in Nat /\ adrift \in [PassIds -> Nat] /\ unsure \in BOOLEAN

TInv == Own /\ CallOK /\ StraysAreKnown /\ TrustIsKept /\ ListOK /\ ScreenOK /\ PressOK

JInv == IInv /\ TInv

LEMMA ScreenFields ==
  ASSUME Own
  PROVE  /\ screen.result \in {"idle", "valid", "invalid"}
         /\ screen.pass \in PassIds \cup {NoPass} /\ screen.status \in ListedStatus
BY DEF Own, Screen

LEMMA CallFields ==
  ASSUME Own
  PROVE  /\ call.stage \in {"none", "sent", "served", "done", "refresh"}
         /\ call.pass \in PassIds \cup {NoPass} /\ call.wants \in {"entry", "exit"}
BY DEF Own, Call

LEMMA ReadyFields ==
  /\ Ready \in Screen /\ Ready.result = "idle"
  /\ [Ready EXCEPT !.result = "invalid"] \in Screen
  /\ [Ready EXCEPT !.result = "invalid"].result = "invalid"
BY DEF Ready, Screen, ListedStatus

LEMMA NoCallFields ==
  /\ NoCall \in Call /\ NoCall.stage = "none" /\ NoCall.trusted = FALSE
  /\ NoCall.worker = NoWorker
BY DEF NoCall, Call

(***************************************************************************)
(* Each step is one of the service or none.  Where nothing is astray, only *)
(* the request the page waits for validates.                               *)
(***************************************************************************)
LEMMA TerminalStep ==
  ASSUME CallOK, [TerminalNext]_tvars
  PROVE  [Next]_vars
<1>1. CASE UNCHANGED vars
  BY <1>1
<1>2. ASSUME NEW w \in Workers, Reach(w) PROVE Next
  <2>1. call.pass \in PassIds
    BY <1>2 DEF Reach, CallOK
  <2>2. QED
    BY <1>2, <2>1 DEF Reach, Next, Start
<1>3. CASE Serve
  BY <1>3 DEF Serve, CallOK, Next, Continue, Validate
<1>4. CASE Failed
  BY <1>4 DEF Failed, CallOK, Next, Continue
<1>5. ASSUME NEW w \in Workers, NEW p \in PassIds, Arrives(w, p) PROVE [Next]_vars
  BY <1>5 DEF Arrives, Next, Start
<1>6. CASE Elsewhere
  BY <1>6 DEF Elsewhere, Next, Start, Continue
<1>7. QED
  BY <1>1, <1>2, <1>3, <1>4, <1>5, <1>6
     DEF TerminalNext, tvars, ListAnswered, ListStored, ListLost, Check, Press, Dismiss,
         Succeeds, Refreshed, ResetFires, Refused, Disconnected, Reload

LEMMA WhoIsAwaited ==
  ASSUME CallOK, NEW w \in Workers, Awaited(w)
  PROVE  call.stage = "served" /\ req[w].stage \in ValidateStages
BY NoWorkerIsNotAWorker DEF CallOK, Awaited

LEMMA OnlyTheAwaitedValidates == CallOK /\ ~Astray => OneValidates
BY DEF OneValidates, Astray, Awaited, IsValidating, ValidateStages

(***************************************************************************)
(* The parts of the invariant that a step leaves alone.                    *)
(***************************************************************************)
LEMMA CallKept ==
  ASSUME CallOK, UNCHANGED call, \A w \in Workers : Awaited(w) => req'[w] = req[w]
  PROVE  CallOK'
BY DEF CallOK, Awaited

LEMMA StraysKept ==
  ASSUME StraysAreKnown, UNCHANGED <<adrift, unsure>>,
         \A w \in Workers :
           IsValidating(w)' /\ ~Awaited(w)' => IsValidating(w) /\ ~Awaited(w)
  PROVE  StraysAreKnown'
BY DEF StraysAreKnown, Astray

LEMMA NothingServed ==
  ASSUME CallOK, StraysAreKnown, TrustIsKept, UNCHANGED <<req, call, adrift, unsure>>
  PROVE  CallOK' /\ StraysAreKnown' /\ TrustIsKept'
<1>1. CallOK' /\ TrustIsKept'
  BY CallKept DEF TrustIsKept
<1>2. StraysAreKnown'
  BY StraysKept DEF IsValidating, Awaited
<1>3. QED
  BY <1>1, <1>2

LEMMA PressKept ==
  ASSUME PressOK, UNCHANGED call, Quiet, call.stage # "none" => call.pass \in PassIds
  PROVE  PressOK'
<1>1. call.stage # "none" => (IsInside(call.pass)' <=> IsInside(call.pass))
  BY DEF Quiet
<1>2. QED
  BY <1>1 DEF PressOK, IsInside

LEMMA ScreenKept ==
  ASSUME ScreenOK, UNCHANGED <<screen, timers, call>>, Quiet, Trusted' => Trusted
  PROVE  ScreenOK'
<1>1. screen.result = "valid" => (IsInside(screen.pass)' <=> IsInside(screen.pass))
  BY DEF ScreenOK, Quiet
<1>2. QED
  BY <1>1 DEF ScreenOK, IsInside

(* The list stays, and so does what it is worth, unless the page becomes   *)
(* unsure of it.                                                           *)
LEMMA ListKept ==
  ASSUME ListOK, UNCHANGED list, OverStays, ~unsure' => Quiet /\ ~unsure,
         list.fetch # "idle" => call'.stage = "refresh" \/ list.data = NoData,
         list.data = NoData => call'.stage = "none" /\ screen'.result # "valid",
         Settled' /\ Trusted' => Settled /\ Trusted
  PROVE  ListOK'
<1>1. /\ ~unsure' => \A d : Agrees(d) => Agrees(d)'
      /\ \A d : Expiry(d) => Expiry(d)'
  BY StillAgrees, StillExpired
<1>2. /\ (list.fetch # "idle" => call.stage = "refresh" \/ list.data = NoData)'
      /\ (list.data = NoData => call.stage = "none" /\ screen.result # "valid")'
  OBVIOUS
<1>3. (list.fetch = "answered" =>
         list.answer # NoData /\ Expiry(list.answer) /\ (~unsure => Agrees(list.answer)))'
  <2> PICK d : d = list.answer
    OBVIOUS
  <2>1. list.fetch = "answered" => d # NoData /\ Expiry(d) /\ (~unsure => Agrees(d))
    BY DEF ListOK
  <2>2. list'.fetch = "answered" => d # NoData /\ Expiry(d)' /\ (~unsure' => Agrees(d)')
    BY <1>1, <2>1
  <2>3. list'.answer = d
    OBVIOUS
  <2>4. QED
    BY <2>2, <2>3 DEF Agrees, Expiry
<1>4. (/\ list.data # NoData => Expiry(list.data)
       /\ list.data # NoData /\ Settled /\ Trusted => Agrees(list.data))'
  <2> PICK d : d = list.data
    OBVIOUS
  <2>1. /\ d # NoData => Expiry(d)
        /\ d # NoData /\ Settled /\ Trusted => Agrees(d)
    BY DEF ListOK
  <2>2. /\ d # NoData => Expiry(d)'
        /\ d # NoData /\ Settled' /\ Trusted' => Agrees(d)'
    BY <1>1, <2>1 DEF Trusted
  <2>3. list'.data = d
    OBVIOUS
  <2>4. QED
    BY <2>2, <2>3 DEF Agrees, Expiry
<1>5. QED
  BY <1>2, <1>3, <1>4 DEF ListOK

(***************************************************************************)
(* One lemma per step of the terminal.                                     *)
(***************************************************************************)
LEMMA NoCallHasNoData == TInv /\ call.stage # "none" => list.data # NoData /\ call.pass \in PassIds
BY DEF TInv, ListOK, CallOK

(* The answer knows of everything recorded so far, and the page is sure of *)
(* it unless something more may be recorded without it.                    *)
LEMMA StepListAnswered == ASSUME TypeOK, TInv, ListAnswered PROVE TInv'
<1> USE DEF TInv
<1>1. list \in Entry(Lists) /\ Listed \in Lists /\ Listed # NoData
  BY ListedIsList, NoDataIsNoList DEF Own, Lists
<1> PICK d \in Lists : d = Listed
  BY <1>1
<1>2. /\ list' \in Entry(Lists) /\ list'.data = list.data /\ list'.fetch = "answered"
      /\ list'.answer = d /\ list'.failed = list.failed
  BY <1>1, AnsweredFields DEF ListAnswered
<1>3. /\ UNCHANGED <<hosts, passes, logs, req, screen, call, timers, adrift>>
      /\ list.fetch = "asked" /\ unsure' = (unsure /\ Astray)
  BY DEF ListAnswered, vars
<1>4. Quiet
  BY <1>3, NoPassWritten
<1>5. Own' /\ CallOK' /\ TrustIsKept'
  BY <1>2, <1>3, CallKept DEF Own, TrustIsKept
<1>6. StraysAreKnown'
  BY <1>3 DEF StraysAreKnown, Astray, IsValidating, Awaited
<1>7. call.stage = "refresh" \/ list.data = NoData
  BY <1>3 DEF ListOK
<1>8. ScreenOK'
  BY <1>3, <1>7 DEF ScreenOK, ListOK
<1>9. PressOK'
  BY <1>3, <1>4, NoCallHasNoData, PressKept
<1>10. ListOK'
  <2>1. Agrees(d)' /\ Expiry(d)'
    BY <1>4, ListedAgrees, StillAgrees
  <2>2. (list.fetch = "answered" =>
           list.answer # NoData /\ Expiry(list.answer) /\ (~unsure => Agrees(list.answer)))'
    BY <1>1, <1>2, <2>1 DEF Agrees, Expiry
  <2> PICK e : e = list.data
    OBVIOUS
  <2>3. e # NoData => Expiry(e)'
    BY <1>4, StillAgrees DEF ListOK
  <2>4. (list.data # NoData => Expiry(list.data) /\ ~Settled)'
    BY <1>2, <1>3, <1>7, <2>3 DEF Expiry, Settled
  <2>5. QED
    BY <1>2, <1>3, <2>2, <2>4 DEF ListOK
<1>11. QED
  BY <1>5, <1>6, <1>8, <1>9, <1>10

(* What is stored was read after the last validation that the page knows   *)
(* of: nothing can be pressed while a fetch is in flight.                  *)
LEMMA StepListStored == ASSUME TInv, ListStored PROVE TInv'
<1> USE DEF TInv
<1> PICK d : d = list.answer
  OBVIOUS
<1>1. d # NoData /\ Expiry(d) /\ (~unsure => Agrees(d))
  BY DEF ListStored, ListOK
<1>2. /\ list' \in Entry(Lists) /\ list'.data = d /\ list'.fetch = "idle"
      /\ list'.failed = FALSE
  BY StoredFields DEF ListStored, Own
<1>3. UNCHANGED <<hosts, passes, logs, req, screen, call, timers, adrift, unsure>>
  BY DEF ListStored, vars
<1>4. Quiet
  BY <1>3, NoPassWritten
<1>5. Own' /\ CallOK' /\ StraysAreKnown' /\ TrustIsKept'
  BY <1>2, <1>3, NothingServed DEF Own
<1>6. Expiry(d)' /\ (~unsure => Agrees(d)')
  BY <1>1, <1>4, StillAgrees
<1>7. Expiry(list.data)' /\ (~unsure => Agrees(list.data)')
  BY <1>2, <1>6 DEF Agrees, Expiry
<1>8. ListOK'
  BY <1>1, <1>2, <1>3, <1>7 DEF ListOK, Trusted
<1>9. ScreenOK'
  <2>1. screen.result = "valid" => call.stage = "refresh"
    BY DEF ListOK, ListStored
  <2>2. QED
    BY <1>3, <2>1 DEF ScreenOK
<1>10. PressOK'
  BY <1>3, <1>4, NoCallHasNoData, PressKept
<1>11. QED
  BY <1>5, <1>8, <1>9, <1>10

LEMMA StepListLost == ASSUME TInv, ListLost PROVE TInv'
<1> USE DEF TInv
<1>1. /\ list' \in Entry(Lists) /\ list'.data = list.data /\ list'.fetch = "idle"
      /\ list'.failed = TRUE
  BY LostFields DEF ListLost, Own
<1>2. UNCHANGED <<hosts, passes, logs, req, screen, call, timers, adrift, unsure>>
  BY DEF ListLost, vars
<1>3. Quiet /\ ~Trusted'
  BY <1>1, <1>2, NoPassWritten DEF Trusted
<1>4. Own' /\ CallOK' /\ StraysAreKnown' /\ TrustIsKept'
  BY <1>1, <1>2, NothingServed DEF Own
<1>5. ScreenOK' /\ PressOK'
  BY <1>2, <1>3, NoCallHasNoData, ScreenKept, PressKept
<1> PICK d : d = list.data
  OBVIOUS
<1>6. d # NoData => Expiry(d)'
  BY <1>3, StillAgrees DEF ListOK
<1>7. (list.data # NoData => Expiry(list.data))'
  BY <1>1, <1>6 DEF Expiry
<1>8. ListOK'
  BY <1>1, <1>2, <1>3, <1>7 DEF ListOK
<1>9. QED
  BY <1>4, <1>5, <1>8

(* A code that is found is in its window, so the list does not call it     *)
(* Expired, and what it says of the guest is what is stored.               *)
LEMMA StepCheck == ASSUME TypeOK, TInv, NEW p \in PassIds, Check(p) PROVE TInv'
<1> USE DEF TInv
<1> DEFINE card == [Ready EXCEPT !.result = "valid", !.pass = p, !.status = list.data[p]]
<1>1. UNCHANGED <<hosts, passes, logs, req, list, call, timers, adrift, unsure>>
  BY DEF Check, vars
<1>2. Finds(p) => list.data \in Lists /\ list.data[p] \in ListedStatus \ {"absent"}
  BY EntryFields DEF Own, Finds, Lists
<1>3. Finds(p) => /\ card \in Screen /\ card.result = "valid" /\ card.pass = p
                  /\ card.status = list.data[p]
  BY <1>2 DEF Ready, Screen
<1>4. screen' = IF Finds(p) THEN card ELSE [Ready EXCEPT !.result = "invalid"]
  BY DEF Check
<1> HIDE DEF card
<1>5. /\ screen' \in Screen
      /\ screen'.result = "valid" =>
           Finds(p) /\ screen'.pass = p /\ screen'.status = list.data[p]
  BY <1>3, <1>4, ReadyFields
<1>6. Quiet
  BY <1>1, NoPassWritten
<1>7. Own' /\ CallOK' /\ StraysAreKnown' /\ TrustIsKept'
  BY <1>1, <1>5, NothingServed DEF Own
<1>8. PressOK'
  BY <1>1, <1>6, NoCallHasNoData, PressKept
<1>9. ListOK'
  <2>1. Settled' /\ Trusted' => Settled /\ Trusted
    BY <1>1 DEF Settled, Trusted
  <2>2. screen'.result = "valid" => list.data # NoData
    BY <1>5 DEF Finds
  <2>3. QED
    BY <1>1, <1>6, <2>1, <2>2, ListKept DEF ListOK, Quiet
<1>10. ScreenOK'
  <2>1. Finds(p) /\ Trusted /\ call.stage = "none" =>
          (list.data[p] = "Entered" <=> IsInside(p))
    <3> SUFFICES ASSUME Finds(p), Trusted, call.stage = "none"
                 PROVE  list.data[p] = "Entered" <=> IsInside(p)
      OBVIOUS
    <3> PICK d : d = list.data
      OBVIOUS
    <3>1. Agrees(d) /\ Expiry(d)
      BY DEF ListOK, Settled, Finds
    <3>2. d[p] # "Expired"
      BY <3>1 DEF Expiry, Finds, IsValid
    <3>3. d[p] \in PassStatus
      BY <1>2, <3>2 DEF ListedStatus
    <3>4. QED
      BY <3>1, <3>3 DEF Agrees
  <2>2. QED
    BY <1>1, <1>5, <2>1 DEF ScreenOK, IsInside, Trusted
<1>11. QED
  BY <1>7, <1>8, <1>9, <1>10

(* The call that a button sends.                                           *)
LEMMA PressFields ==
  ASSUME Own, Press
  PROVE  /\ call' \in Call /\ call'.stage = "sent" /\ call'.pass = screen.pass
         /\ call'.wants = NextAction(screen.status) /\ call'.worker = NoWorker
         /\ call'.trusted <=> timers = 0 /\ Trusted
<1> PICK t \in BOOLEAN : t <=> timers = 0 /\ ~list.failed /\ ~unsure
  OBVIOUS
<1> PICK a \in {"entry", "exit"} : a = NextAction(screen.status)
  BY DEF NextAction
<1> PICK p \in PassIds \cup {NoPass} : p = screen.pass
  BY ScreenFields
<1> DEFINE new == [NoCall EXCEPT !.stage = "sent", !.pass = p, !.wants = a, !.trusted = t]
<1>1. (timers = 0 /\ ~list.failed /\ ~unsure) = t
  OBVIOUS
<1>2. call' = new
  BY <1>1 DEF Press
<1>3. /\ new \in Call /\ new.stage = "sent" /\ new.pass = p /\ new.wants = a
      /\ new.trusted = t /\ new.worker = NoWorker
  BY DEF NoCall, Call
<1> HIDE DEF new
<1>4. call'.trusted = t
  BY <1>2, <1>3
<1>5. QED
  BY <1>2, <1>3, <1>4 DEF Trusted

(* A press is trusted when the list it was checked against was.            *)
LEMMA StepPress == ASSUME TInv, Press PROVE TInv'
<1> USE DEF TInv
<1>1. UNCHANGED <<hosts, passes, logs, req, list, screen, timers, adrift, unsure>>
  BY DEF Press, vars
<1>2. /\ call.stage = "none" /\ screen.result = "valid" /\ screen.pass \in PassIds
      /\ list.data # NoData /\ list.fetch = "idle"
  BY DEF Press, ScreenOK, ListOK
<1>3. Own'
  BY <1>1, PressFields DEF Own
<1>4. CallOK'
  BY <1>2, PressFields DEF CallOK
<1>5. StraysAreKnown' /\ TrustIsKept'
  <2>1. call.worker = NoWorker
    BY <1>2 DEF CallOK
  <2>2. StraysAreKnown'
    BY <1>1, <2>1, PressFields, StraysKept DEF IsValidating, Awaited
  <2>3. QED
    BY <1>1, <2>2, PressFields DEF TrustIsKept, Trusted
<1>6. ListOK'
  <2>1. Settled /\ (Trusted' => Trusted)
    BY <1>1, <1>2 DEF Settled, Trusted
  <2>2. QED
    BY <1>1, <1>2, <2>1, NoPassWritten, ListKept DEF Quiet
<1>7. ScreenOK'
  BY <1>1, <1>2, PressFields DEF ScreenOK
<1>8. PressOK'
  <2>1. call'.trusted => (call'.wants = "exit" <=> IsInside(call'.pass))
    BY <1>2, PressFields DEF ScreenOK, NextAction
  <2>2. QED
    BY <1>1, <2>1 DEF PressOK, IsInside
<1>9. QED
  BY <1>3, <1>4, <1>5, <1>6, <1>7, <1>8

(* The card leaves the screen.                                             *)
LEMMA StepScreen ==
  ASSUME TInv, UNCHANGED <<vars, list, call, adrift, unsure>>,
         screen' \in Screen, screen'.result # "valid", timers' \in Nat
  PROVE  TInv'
<1> USE DEF TInv
<1>1. UNCHANGED <<hosts, passes, logs, req>>
  BY DEF vars
<1>2. Quiet
  BY <1>1, NoPassWritten
<1>3. Own' /\ CallOK' /\ StraysAreKnown' /\ TrustIsKept'
  BY <1>1, NothingServed DEF Own
<1>4. ListOK'
  <2>1. Settled' /\ Trusted' => Settled /\ Trusted
    BY DEF Settled, Trusted
  <2>2. QED
    BY <1>2, <2>1, ListKept DEF ListOK, Quiet
<1>5. PressOK'
  BY <1>2, NoCallHasNoData, PressKept
<1>6. QED
  BY <1>3, <1>4, <1>5 DEF ScreenOK

LEMMA StepDismiss == ASSUME TInv, Dismiss \/ ResetFires PROVE TInv'
<1>1. UNCHANGED <<vars, list, call, adrift, unsure>> /\ screen' = Ready
  BY DEF Dismiss, ResetFires
<1>2. timers' \in Nat
  BY DEF TInv, Own, Dismiss, ResetFires
<1>3. QED
  BY <1>1, <1>2, ReadyFields, StepScreen

(* The call goes from one stage to another.                                *)
Moved(stage, worker, recorded) ==
  /\ call' \in Call
  /\ call'.stage = stage /\ call'.worker = worker /\ call'.recorded = recorded
  /\ call'.pass = call.pass /\ call'.wants = call.wants /\ call'.trusted = call.trusted

LEMMA StepReach == ASSUME TInv, TypeOK, NEW w \in Workers, Reach(w) PROVE TInv'
<1> USE DEF TInv
<1>1. /\ UNCHANGED <<hosts, passes, logs, list, screen, timers, adrift, unsure>>
      /\ call.stage = "sent"
  BY DEF Reach, ValidateLoadPass
<1>2. Moved("served", w, call.recorded)
  BY DEF Reach, Own, Call, Moved
<1>3. list.data # NoData /\ call.pass \in PassIds /\ list.fetch = "idle"
  BY <1>1, NoCallHasNoData DEF ListOK
<1> DEFINE new == [Idle EXCEPT !.stage = "lastLog", !.pass = call.pass,
                               !.status = passes[call.pass].status]
<1>4. Becomes(w, new) /\ new.stage = "lastLog" /\ new.pass = call.pass
  BY DEF Reach, ValidateLoadPass, Idle
<1> HIDE DEF new
<1>5. /\ req'[w].stage = "lastLog" /\ req'[w].pass = call.pass
      /\ \A v \in Workers : v # w => req'[v] = req[v]
  BY <1>4, Becoming
<1>6. CallOK'
  BY <1>1, <1>2, <1>3, <1>5 DEF CallOK, Moved, ValidateStages
<1>7. StraysAreKnown' /\ TrustIsKept'
  <2>1. call.worker = NoWorker
    BY <1>1 DEF CallOK
  <2>2. StraysAreKnown'
    BY <1>1, <1>2, <1>5, <2>1, NoWorkerIsNotAWorker, StraysKept DEF Moved, IsValidating, Awaited
  <2>3. QED
    BY <1>1, <1>2, <2>2 DEF Moved, TrustIsKept
<1>8. Own' /\ ScreenOK'
  BY <1>1, <1>2 DEF Own, ScreenOK, Moved
<1>9. PressOK'
  BY <1>1, <1>2 DEF PressOK, Moved, IsInside
<1>10. ListOK'
  <2>1. Settled /\ (Trusted' => Trusted)
    BY <1>1 DEF Settled, Trusted
  <2>2. QED
    BY <1>1, <1>3, <2>1, NoPassWritten, ListKept DEF Quiet
<1>11. QED
  BY <1>6, <1>7, <1>8, <1>9, <1>10

(* The service goes on, with nothing that the terminal sees.               *)
LEMMA StepQuiet ==
  ASSUME TInv, Quiet, UNCHANGED terminal, CallOK', StraysAreKnown'
  PROVE  TInv'
<1> USE DEF TInv
<1>1. UNCHANGED <<list, screen, call, timers, adrift, unsure>>
  BY DEF terminal
<1>2. (Trusted' => Trusted) /\ (Settled' => Settled) /\ Own' /\ TrustIsKept'
  BY <1>1 DEF Trusted, Settled, Own, TrustIsKept
<1>3. ListOK'
  BY <1>1, <1>2, ListKept DEF ListOK, Quiet
<1>4. ScreenOK' /\ PressOK'
  BY <1>1, <1>2, NoCallHasNoData, ScreenKept, PressKept
<1>5. QED
  BY <1>2, <1>3, <1>4

(* Choosing between entry and exit is the same for every validation.       *)
LEMMA LoadLogFields ==
  ASSUME TypeOK, NEW w \in Workers, ValidateLoadLog(w)
  PROVE  /\ req[w].stage \in ValidateStages
         /\ req'[w].stage \in ValidateStages /\ req'[w].pass = req[w].pass
         /\ \A v \in Workers : v # w => req'[v] = req[v]
         /\ UNCHANGED passes
<1> DEFINE new(stage, l) == [req[w] EXCEPT !.stage = stage, !.log = l]
<1>1. \A stage, l : new(stage, l).stage = stage /\ new(stage, l).pass = req[w].pass
  BY RequestFields DEF Request
<1>2. PICK stage \in {"enter", "leave"}, l \in LogIds : Becomes(w, new(stage, l))
  BY DEF ValidateLoadLog
<1> HIDE DEF new
<1>3. /\ req'[w].stage \in ValidateStages /\ req'[w].pass = req[w].pass
      /\ \A v \in Workers : v # w => req'[v] = req[v]
  BY <1>1, <1>2, Becoming DEF ValidateStages
<1>4. req[w].stage \in ValidateStages /\ UNCHANGED passes
  BY DEF ValidateStages, ValidateLoadLog
<1>5. QED
  BY <1>3, <1>4

LEMMA StepLoadLog ==
  ASSUME TInv, TypeOK, NEW w \in Workers, ValidateLoadLog(w), UNCHANGED terminal
  PROVE  TInv'
<1> USE DEF TInv
<1>1. UNCHANGED <<call, adrift, unsure>>
  BY DEF terminal
<1>2. CallOK'
  BY <1>1, LoadLogFields DEF CallOK
<1>3. StraysAreKnown'
  BY <1>1, LoadLogFields, StraysKept DEF IsValidating, Awaited, ValidateStages
<1>4. QED
  BY <1>2, <1>3, LoadLogFields, NoPassWritten, StepQuiet

(* The save of a validation, awaited or not, moves no window and ends it.  *)
LEMMA SaveFields ==
  ASSUME IInv, NEW w \in Workers, EnterSave(w) \/ LeaveSave(w)
  PROVE  /\ OverStays /\ req[w].stage \in ValidateStages /\ req'[w].stage = "idle"
         /\ \A v \in Workers : v # w => req'[v] = req[v]
<1>1. req[w].stage \in ValidateStages /\ Ends(w)
  BY DEF EnterSave, LeaveSave, ValidateStages
<1>2. req'[w].stage = "idle" /\ \A v \in Workers : v # w => req'[v] = req[v]
  BY <1>1, Becoming, IdleIsOK DEF Ends, IInv
<1>3. PICK status : passes' = [passes EXCEPT ![req[w].pass].status = status]
  BY DEF EnterSave, LeaveSave
<1>4. \A p \in PassIds : passes[p] \in PassRow \cup {AbsentPass}
  BY DEF IInv, TypeOK
<1>5. \A p \in PassIds : passes'[p].window = passes[p].window
  BY <1>3, <1>4 DEF IInv, TypeOK, PassRow, AbsentPass
<1>6. QED
  BY <1>1, <1>2, <1>5 DEF OverStays

(* The save awaited: until the refetch the list need not agree.            *)
LEMMA StepSave ==
  ASSUME IInv, TInv, NEW w \in Workers, w = call.worker, call.stage = "served",
         NEW passage \in {"entry", "exit"}, EnterSave(w) \/ LeaveSave(w),
         Moved("done", NoWorker, passage), UNCHANGED <<list, screen, timers, adrift, unsure>>
  PROVE  TInv'
<1> USE DEF TInv
<1>1. call'.stage = "done" /\ list.fetch = "idle" /\ list.data # NoData /\ call.pass \in PassIds
  BY NoCallHasNoData DEF Moved, ListOK
<1>2. Own' /\ CallOK' /\ TrustIsKept'
  BY <1>1 DEF Own, Moved, CallOK, TrustIsKept
<1>3. StraysAreKnown'
  BY SaveFields, StraysKept DEF IsValidating, Awaited
<1>4. ListOK'
  <2>1. Expiry(list.data)
    BY <1>1 DEF ListOK
  <2>2. Expiry(list.data)'
    BY <2>1, SaveFields DEF Expiry, OverStays
  <2>3. ~Settled'
    BY <1>1 DEF Settled
  <2>4. QED
    BY <1>1, <2>2, <2>3 DEF ListOK
<1>5. ScreenOK' /\ PressOK'
  BY <1>1 DEF ScreenOK, PressOK
<1>6. QED
  BY <1>2, <1>3, <1>4, <1>5

LEMMA ServeFields ==
  ASSUME TInv, Serve
  PROVE  LET w == call.worker
         IN  /\ w \in Workers /\ call.stage = "served"
             /\ UNCHANGED <<list, screen, timers, adrift, unsure>>
             /\ \/ ValidateLoadLog(w) /\ UNCHANGED call
                \/ EnterSave(w) /\ Moved("done", NoWorker, "entry")
                \/ LeaveSave(w) /\ Moved("done", NoWorker, "exit")
<1>1. call \in Call
  BY DEF TInv, Own
<1>2. \A passage \in {"entry", "exit"} :
        call' = Records(passage) => Moved("done", NoWorker, passage)
  BY <1>1 DEF Records, Call, Moved
<1>3. QED
  BY <1>2 DEF TInv, CallOK, Serve

LEMMA StepServe == ASSUME IInv, TInv, Serve PROVE TInv'
<1> PICK w : w = call.worker
  OBVIOUS
<1>1. /\ w \in Workers /\ call.stage = "served"
      /\ UNCHANGED <<list, screen, timers, adrift, unsure>>
  BY ServeFields
<1>2. CASE ValidateLoadLog(w) /\ UNCHANGED call
  BY <1>1, <1>2, StepLoadLog DEF terminal, IInv
<1>3. CASE EnterSave(w) /\ Moved("done", NoWorker, "entry")
  BY <1>1, <1>3, StepSave
<1>4. CASE LeaveSave(w) /\ Moved("done", NoWorker, "exit")
  BY <1>1, <1>4, StepSave
<1>5. QED
  BY <1>2, <1>3, <1>4, ServeFields

(* From here to the answer, the list may contradict what was recorded.     *)
LEMMA StepSucceeds == ASSUME TInv, Succeeds PROVE TInv'
<1> USE DEF TInv
<1>1. Moved("refresh", call.worker, call.recorded) /\ call.stage = "done"
  BY DEF Succeeds, Own, Call, Moved
<1>2. UNCHANGED <<hosts, passes, logs, req, screen, timers, adrift, unsure>>
  BY DEF Succeeds, vars
<1>3. list' \in Entry(Lists) /\ list'.data = list.data /\ list'.fetch = "asked"
  BY InvalidateFields DEF Succeeds, Own
<1>4. list.data # NoData /\ call.pass \in PassIds
  BY <1>1, NoCallHasNoData
<1>5. Own'
  BY <1>1, <1>2, <1>3 DEF Own, Moved
<1>6. CallOK' /\ TrustIsKept' /\ ScreenOK' /\ PressOK'
  BY <1>1, <1>2, <1>4 DEF Moved, CallOK, TrustIsKept, ScreenOK, PressOK
<1>7. StraysAreKnown'
  BY <1>1, <1>2, StraysKept DEF Moved, IsValidating, Awaited
<1>8. ListOK'
  <2> PICK d : d = list.data
    OBVIOUS
  <2>1. Expiry(d)
    BY <1>4 DEF ListOK
  <2>2. Expiry(list.data)' /\ ~Settled'
    BY <1>1, <1>2, <1>3, <2>1 DEF Expiry, Settled, Moved
  <2>3. QED
    BY <1>1, <1>3, <1>4, <2>2 DEF ListOK, Moved
<1>9. QED
  BY <1>5, <1>6, <1>7, <1>8

(* The page waits no longer, and its list stays.                           *)
LEMMA EndCall ==
  ASSUME TInv, UNCHANGED <<passes, list>>, call' = NoCall, call.stage # "none",
         list.fetch = "idle", StraysAreKnown', adrift' \in [PassIds -> Nat],
         screen' \in Screen, timers' \in Nat, unsure' \in BOOLEAN,
         ~unsure' => ~unsure, Trusted' => Settled,
         screen'.result = "valid" => timers' # 0 /\ UNCHANGED screen
  PROVE  TInv'
<1> USE DEF TInv
<1>1. /\ call' \in Call /\ call'.stage = "none" /\ call'.trusted = FALSE
      /\ call'.worker = NoWorker
  BY NoCallFields
<1>2. Own' /\ CallOK' /\ TrustIsKept'
  BY <1>1 DEF Own, CallOK, TrustIsKept
<1>3. ListOK'
  <2>1. Trusted' => Trusted
    BY DEF Trusted
  <2>2. QED
    BY <1>1, <2>1, NoPassWritten, NoCallHasNoData, ListKept DEF Quiet
<1>4. ScreenOK' /\ PressOK'
  BY <1>1 DEF ScreenOK, PressOK
<1>5. QED
  BY <1>2, <1>3, <1>4

(* The refetch is over, so the list is settled, and the reset pending      *)
(* keeps what is on the screen from being trusted.                         *)
LEMMA StepRefreshed == ASSUME TInv, Refreshed PROVE TInv'
<1> USE DEF TInv
<1>1. /\ UNCHANGED <<hosts, passes, logs, req, list, screen, adrift, unsure>> /\ call' = NoCall
      /\ call.stage = "refresh" /\ list.fetch = "idle" /\ timers' = timers + 1
  BY DEF Refreshed, vars
<1>2. StraysAreKnown'
  <2>1. call'.worker = call.worker
    BY <1>1, NoCallFields DEF CallOK
  <2>2. QED
    BY <1>1, <2>1, StraysKept DEF IsValidating, Awaited
<1>3. /\ timers' \in Nat /\ timers' # 0 /\ screen' \in Screen /\ unsure' \in BOOLEAN
      /\ adrift' \in [PassIds -> Nat]
  BY <1>1 DEF Own
<1>4. Settled
  BY <1>1 DEF Settled
<1>5. QED
  BY <1>1, <1>2, <1>3, <1>4, EndCall

LEMMA RefuseFields ==
  ASSUME TInv, Refuse
  PROVE  /\ call' = NoCall /\ list' = list /\ timers' \in Nat
         /\ screen' \in Screen /\ screen'.result # "valid"
BY ReadyFields DEF TInv, Own, Refuse

LEMMA StepRefused == ASSUME TInv, Refused PROVE TInv'
<1> USE DEF TInv
<1>1. UNCHANGED <<hosts, passes, logs, req, adrift, unsure>> /\ call.stage = "sent"
  BY DEF Refused, vars
<1>2. list.fetch = "idle" /\ Settled
  BY <1>1 DEF ListOK, Settled
<1>3. StraysAreKnown'
  <2>1. call'.worker = call.worker
    BY <1>1, NoCallFields, RefuseFields DEF Refused, CallOK
  <2>2. QED
    BY <1>1, <2>1, StraysKept DEF IsValidating, Awaited
<1>4. unsure' \in BOOLEAN /\ adrift' \in [PassIds -> Nat]
  BY <1>1 DEF Own
<1>5. QED
  BY <1>1, <1>2, <1>3, <1>4, RefuseFields, EndCall DEF Refused

(* The service ends the request before it tells the page.                  *)
LEMMA StepFailed == ASSUME TypeOK, TInv, Failed PROVE TInv'
<1> USE DEF TInv
<1> PICK w : w = call.worker
  OBVIOUS
<1>1. w \in Workers /\ call.stage = "served" /\ Abort(w) /\ Refuse /\ UNCHANGED <<adrift, unsure>>
  BY DEF Failed, CallOK
<1>2. passes' = passes /\ req'[w].stage = "idle" /\ \A v \in Workers : v # w => req'[v] = req[v]
  BY <1>1, Becoming, IdleIsOK DEF Abort, Ends
<1>3. list.fetch = "idle" /\ Settled
  BY <1>1 DEF ListOK, Settled
<1>4. StraysAreKnown'
  BY <1>1, <1>2, StraysKept DEF IsValidating, Awaited
<1>5. unsure' \in BOOLEAN /\ adrift' \in [PassIds -> Nat]
  BY <1>1 DEF Own
<1>6. QED
  BY <1>1, <1>2, <1>3, <1>4, <1>5, RefuseFields, EndCall

LEMMA LeftBehindFields ==
  ASSUME TInv, LeftBehind
  PROVE  adrift' \in [PassIds -> Nat]
BY DEF TInv, Own, CallOK, LeftBehind

(* The page is unsure from here on.                                        *)
LEMMA StepDisconnected == ASSUME TInv, Disconnected PROVE TInv'
<1> USE DEF TInv
<1>1. /\ Refuse /\ LeftBehind /\ UNCHANGED <<hosts, passes, logs, req>>
      /\ unsure' = TRUE /\ call.stage # "none"
  BY DEF Disconnected, vars
<1>2. list.fetch = "idle"
  BY DEF Disconnected, ListOK
<1>3. StraysAreKnown' /\ ~Trusted'
  BY <1>1 DEF StraysAreKnown, Trusted
<1>4. QED
  BY <1>1, <1>2, <1>3, RefuseFields, LeftBehindFields, EndCall

(* The page starts anew, and knows as little as before of what is astray.  *)
LEMMA StepReload == ASSUME TInv, Reload PROVE TInv'
<1> USE DEF TInv
<1>1. /\ list' \in Entry(Lists) /\ list'.data = NoData /\ list'.fetch = "asked"
      /\ screen' \in Screen /\ screen'.result # "valid" /\ timers' = 0
      /\ call' \in Call /\ call'.stage = "none" /\ call'.trusted = FALSE
      /\ call'.worker = NoWorker
  BY MountFields, ReadyFields, NoCallFields DEF Reload
<1>2. Own'
  BY <1>1, LeftBehindFields DEF Reload, Own
<1>3. CallOK' /\ TrustIsKept' /\ ListOK' /\ ScreenOK' /\ PressOK'
  BY <1>1 DEF CallOK, TrustIsKept, ListOK, ScreenOK, PressOK
<1>4. StraysAreKnown'
  <2>1. CASE call.stage \in {"sent", "served"}
    BY <2>1 DEF Reload, StraysAreKnown
  <2>2. CASE call.stage \notin {"sent", "served"}
    <3>1. UNCHANGED <<req, adrift>> /\ unsure' = unsure /\ call'.worker = call.worker
      BY <1>1, <2>2 DEF Reload, LeftBehind, CallOK, Own, vars
    <3>2. QED
      BY <3>1, StraysKept DEF IsValidating, Awaited
  <2>3. QED
    BY <2>1, <2>2
<1>5. QED
  BY <1>2, <1>3, <1>4

(* A request on its way made the page unsure, which it is still.           *)
LEMMA StepArrives ==
  ASSUME TypeOK, TInv, NEW w \in Workers, NEW p \in PassIds, Arrives(w, p)
  PROVE  TInv'
<1> USE DEF TInv
<1>1. /\ UNCHANGED <<passes, list, screen, call, timers, unsure>>
      /\ adrift' = [adrift EXCEPT ![p] = @ - 1] /\ adrift[p] > 0
  BY DEF Arrives, ValidateLoadPass, vars
<1>2. unsure
  BY <1>1 DEF StraysAreKnown, Astray
<1>3. Own' /\ StraysAreKnown' /\ TrustIsKept'
  BY <1>1, <1>2 DEF Own, StraysAreKnown, TrustIsKept
<1>4. CallOK'
  <2>1. CASE UNCHANGED vars
    BY <1>1, <2>1, CallKept DEF vars
  <2>2. CASE ValidateLoadPass(w, p)
    <3>1. ~Awaited(w)
      BY <2>2, WhoIsAwaited DEF ValidateLoadPass, ValidateStages
    <3>2. PICK r : Becomes(w, r)
      BY <2>2 DEF ValidateLoadPass
    <3>3. \A v \in Workers : v # w => req'[v] = req[v]
      BY <3>2, Becoming
    <3>4. QED
      BY <1>1, <3>1, <3>3, CallKept
  <2>3. QED
    BY <2>1, <2>2 DEF Arrives
<1>5. Quiet /\ (Settled' => Settled)
  BY <1>1, NoPassWritten DEF Settled
<1>6. ListOK'
  BY <1>1, <1>2, <1>5, ListKept DEF ListOK, Quiet, Trusted
<1>7. ScreenOK' /\ PressOK'
  BY <1>1, <1>2, <1>5, NoCallHasNoData, ScreenKept, PressKept DEF Trusted
<1>8. QED
  BY <1>3, <1>4, <1>6, <1>7

(* A validation nobody waits for is recorded: the page is unsure already.  *)
LEMMA StepStraySave ==
  ASSUME IInv, TInv, NEW w \in Workers, ~Awaited(w), EnterSave(w) \/ LeaveSave(w),
         UNCHANGED terminal
  PROVE  TInv'
<1> USE DEF TInv
<1>1. UNCHANGED <<list, screen, call, timers, adrift, unsure>>
  BY DEF terminal
<1>2. unsure /\ ~call.trusted
  BY SaveFields DEF StraysAreKnown, TrustIsKept, Astray, IsValidating, ValidateStages
<1>3. Own' /\ StraysAreKnown' /\ TrustIsKept'
  BY <1>1, <1>2 DEF Own, StraysAreKnown, TrustIsKept
<1>4. CallOK'
  BY <1>1, SaveFields, CallKept
<1>5. OverStays /\ (Settled' => Settled) /\ ~Trusted'
  BY <1>1, <1>2, SaveFields DEF Settled, Trusted
<1>6. ListOK'
  BY <1>1, <1>2, <1>5, ListKept DEF ListOK
<1>7. ScreenOK' /\ PressOK'
  BY <1>1, <1>2, <1>5 DEF ScreenOK, PressOK
<1>8. QED
  BY <1>3, <1>4, <1>6, <1>7

(* Of the other requests none is awaited, and none becomes a validation.   *)
LEMMA StepOther ==
  ASSUME TInv, Quiet, UNCHANGED terminal, NEW w \in Workers, ~Awaited(w),
         req'[w].stage \notin ValidateStages,
         \A v \in Workers : v # w => req'[v] = req[v]
  PROVE  TInv'
<1>1. UNCHANGED <<call, adrift, unsure>>
  BY DEF terminal
<1>2. CallOK'
  BY <1>1, CallKept DEF TInv
<1>3. StraysAreKnown'
  BY <1>1, StraysKept DEF TInv, IsValidating, Awaited, ValidateStages
<1>4. QED
  BY <1>2, <1>3, StepQuiet

LEMMA StepSameRequests ==
  ASSUME TInv, Quiet, UNCHANGED <<req, terminal>>
  PROVE  TInv'
<1>1. UNCHANGED <<req, call, adrift, unsure>>
  BY DEF terminal
<1>2. CallOK' /\ StraysAreKnown'
  BY <1>1, NothingServed DEF TInv
<1>3. QED
  BY <1>2, StepQuiet

LEMMA StepElsewhere == ASSUME IInv, TInv, Elsewhere PROVE TInv'
<1>0. UNCHANGED terminal /\ TypeOK /\ CallOK
  BY DEF Elsewhere, IInv, TInv
<1>1. ASSUME NEW w \in Workers, NEW s \in Students, IssueLoadHost(w, s) PROVE TInv'
  <2> DEFINE new == [Idle EXCEPT !.stage = "issue", !.host = s]
  <2>1. new.stage = "issue" /\ Becomes(w, new) /\ req[w].stage = "idle" /\ passes' = passes
    BY <1>1 DEF IssueLoadHost, Idle
  <2> HIDE DEF new
  <2>2. /\ req'[w].stage \notin ValidateStages
        /\ \A v \in Workers : v # w => req'[v] = req[v]
    BY <1>0, <2>1, Becoming DEF ValidateStages
  <2>3. ~Awaited(w)
    BY <1>0, <2>1, WhoIsAwaited DEF ValidateStages
  <2>4. QED
    BY <1>0, <2>1, <2>2, <2>3, NoPassWritten, StepOther
<1>2. ASSUME NEW w \in Workers, NEW s \in Students, DeleteUser(w, s) PROVE TInv'
  BY <1>0, <1>2, NoPassWritten, StepSameRequests DEF DeleteUser
<1>3. ASSUME NEW w \in Workers, NEW p \in PassIds, NEW window \in Windows, IssueSave(w, p, window)
      PROVE  TInv'
  <2>1. /\ req'[w].stage \notin ValidateStages
        /\ \A v \in Workers : v # w => req'[v] = req[v]
    BY <1>0, <1>3, Becoming, IdleIsOK DEF IssueSave, Ends, ValidateStages
  <2>2. /\ passes[p] = AbsentPass /\ passes'[p].status = "Approved"
        /\ \A q \in PassIds \ {p} : passes'[q] = passes[q]
    BY <1>0, <1>3 DEF IssueSave, TypeOK, PassRow, PassStatus
  <2>3. Quiet
    BY <2>2 DEF Quiet, OverStays, IsInside, AbsentPass
  <2>4. ~Awaited(w)
    BY <1>0, <1>3, WhoIsAwaited DEF IssueSave, ValidateStages
  <2>5. QED
    BY <1>0, <2>1, <2>3, <2>4, StepOther
<1>4. ASSUME NEW w \in Workers, ~Awaited(w), Validate(w) PROVE TInv'
  BY <1>0, <1>4, StepLoadLog, StepStraySave DEF Validate
<1>5. ASSUME NEW w \in Workers, ~Awaited(w), Abort(w) PROVE TInv'
  <2>1. /\ req'[w].stage \notin ValidateStages /\ passes' = passes
        /\ \A v \in Workers : v # w => req'[v] = req[v]
    BY <1>0, <1>5, Becoming, IdleIsOK DEF Abort, Ends, ValidateStages
  <2>2. QED
    BY <1>0, <1>5, <2>1, NoPassWritten, StepOther
<1>6. ASSUME NEW p \in PassIds, TimePasses(p) PROVE TInv'
  <2>1. passes[p] \in PassRow
    BY <1>0, <1>6, PassFields DEF TimePasses
  <2>2. \A q \in PassIds : /\ passes'[q].status = passes[q].status
                           /\ passes[q].window = "over" => passes'[q].window = "over"
    BY <1>0, <1>6, <2>1 DEF TimePasses, TypeOK, PassRow
  <2>3. Quiet
    BY <2>2 DEF Quiet, OverStays, IsInside
  <2>4. QED
    BY <1>0, <1>6, <2>3, StepSameRequests DEF TimePasses
<1>7. QED
  BY <1>1, <1>2, <1>3, <1>4, <1>5, <1>6 DEF Elsewhere

LEMMA TerminalInvInit == TerminalInit => JInv
<1> SUFFICES ASSUME TerminalInit PROVE JInv
  OBVIOUS
<1>1. IInv
  BY InvInit DEF TerminalInit
<1>2. /\ list \in Entry(Lists) /\ list.data = NoData /\ list.fetch = "asked"
      /\ screen \in Screen /\ screen.result = "idle"
      /\ call \in Call /\ call.stage = "none" /\ call.trusted = FALSE /\ call.worker = NoWorker
      /\ timers = 0 /\ unsure = FALSE
      /\ adrift \in [PassIds -> Nat] /\ \A p \in PassIds : adrift[p] = 0
  BY MountFields, ReadyFields, NoCallFields DEF TerminalInit
<1>3. \A w \in Workers : ~IsValidating(w)
  BY DEF TerminalInit, Init, Idle, IsValidating
<1>4. Own /\ CallOK /\ TrustIsKept
  BY <1>2 DEF Own, CallOK, TrustIsKept
<1>5. ~Astray
  BY <1>2, <1>3 DEF Astray
<1>6. ListOK /\ ScreenOK /\ PressOK
  BY <1>2 DEF ListOK, ScreenOK, PressOK
<1>7. TInv
  BY <1>4, <1>5, <1>6 DEF TInv, StraysAreKnown
<1>8. QED
  BY <1>1, <1>7 DEF JInv

LEMMA TerminalInvNext == JInv /\ [TerminalNext]_tvars => JInv'
<1> SUFFICES ASSUME JInv, [TerminalNext]_tvars PROVE JInv'
  OBVIOUS
<1> USE DEF JInv
<1>1. TypeOK /\ CallOK
  BY DEF IInv, TInv
<1>2. IInv'
  BY <1>1, TerminalStep, InvNext
<1>3. TInv'
  <2>1. CASE UNCHANGED tvars
    BY <2>1, NoPassWritten, StepSameRequests DEF tvars, vars
  <2>2. CASE TerminalNext
    BY <1>1, <2>2, StepListAnswered, StepListStored, StepListLost, StepCheck, StepPress,
       StepDismiss, StepReach, StepServe, StepSucceeds, StepRefreshed, StepRefused,
       StepFailed, StepDisconnected, StepReload, StepArrives, StepElsewhere DEF TerminalNext
  <2>3. QED
    BY <2>1, <2>2
<1>4. QED
  BY <1>2, <1>3

LEMMA TerminalInvariant == TerminalSpec => []JInv
<1>1. QED
  BY TerminalInvInit, TerminalInvNext, PTL DEF TerminalSpec

(***************************************************************************)
(* What is recorded.  The save awaited by a trusted press toggles what the *)
(* press took for granted; that it toggles at all needs validations not to *)
(* have overlapped before, the terminal's own or others'.                  *)
(***************************************************************************)
LEMMA SaveRecords ==
  ASSUME IInv, GInv, OneValidates, NEW w \in Workers,
         NEW l, NEW p, NEW stored \in Saved, NEW status \in Used,
         Saves(w, l, p, stored, status),
         status = "Entered" <=> stored = "open",
         stored = "open" <=> req[w].stage = "enter"
  PROVE  /\ req[w].pass = p
         /\ IsInside(p) <=> stored = "closed"
<1>1. Recorded(l, p, stored, status) /\ Toggled(l, p, stored)
  BY SaveEffect, GSave
<1>2. QED
  BY <1>1 DEF Saves, Recorded, Toggled, IsInside, GInv, OpenLogOK, Saved

LEMMA PassageNext ==
  ASSUME JInv, GInv, OneValidates, PressRecordsPassage, [TerminalNext]_tvars
  PROVE  PressRecordsPassage'
<1> USE DEF JInv, TInv
<1>1. CASE call'.stage \notin {"done", "refresh"} \/ UNCHANGED call
  BY <1>1 DEF PressRecordsPassage
<1>2. CASE Serve
  <2> PICK w : w = call.worker
    OBVIOUS
  <2>1. w \in Workers /\ call.stage = "served" /\ req[w].pass = call.pass
    BY <1>2, ServeFields DEF CallOK
  <2>2. CASE EnterSave(w) /\ Moved("done", NoWorker, "entry")
    <3>1. PICK l, p : Saves(w, l, p, "open", "Entered") /\ req[w].stage = "enter"
      BY <2>1, <2>2, EnterIsSave
    <3>2. "open" \in Saved /\ "Entered" \in Used
      BY DEF Saved, Used
    <3>3. ~IsInside(call.pass)
      BY <2>1, <3>1, <3>2, SaveRecords
    <3>4. QED
      BY <2>1, <2>2, <3>3, CallFields DEF PressOK, Moved, PressRecordsPassage
  <2>3. CASE LeaveSave(w) /\ Moved("done", NoWorker, "exit")
    <3>1. PICK l, p : Saves(w, l, p, "closed", "Exited") /\ req[w].stage = "leave"
      BY <2>1, <2>3, LeaveIsSave
    <3>2. "closed" \in Saved /\ "Exited" \in Used
      BY DEF Saved, Used
    <3>3. IsInside(call.pass)
      BY <2>1, <3>1, <3>2, SaveRecords
    <3>4. QED
      BY <2>1, <2>3, <3>3, CallFields DEF PressOK, Moved, PressRecordsPassage
  <2>4. QED
    BY <1>1, <1>2, <2>2, <2>3, ServeFields
<1>3. CASE Succeeds
  BY <1>3 DEF Succeeds, Own, Call, PressRecordsPassage
<1>4. ASSUME NEW w \in Workers, Reach(w) PROVE call'.stage = "served"
  BY <1>4 DEF Reach, Own, Call
<1>5. CASE Press
  BY <1>1, <1>5, PressFields
<1>6. CASE Refreshed \/ Refused \/ Failed \/ Disconnected \/ Reload
  BY <1>1, <1>6, NoCallFields DEF Refreshed, Refused, Failed, Disconnected, Reload, Refuse
<1>7. QED
  BY <1>1, <1>2, <1>3, <1>4, <1>5, <1>6
     DEF TerminalNext, tvars, terminal, ListAnswered, ListStored, ListLost, Check, Dismiss,
         ResetFires, Arrives, Elsewhere

(***************************************************************************)
(* The theorems.                                                           *)
(***************************************************************************)

(* The terminal's state stays well formed beside the service's.            *)
THEOREM TerminalTypeCorrect == TerminalSpec => []TerminalTypeOK
<1>1. JInv => TerminalTypeOK
  BY DEF JInv, IInv, TInv, Own, Lists, TerminalTypeOK
<1>2. QED
  BY <1>1, TerminalInvariant, PTL

(* The page with its service behaves as the service alone.                 *)
THEOREM TerminalImplementsService == TerminalSpec => Spec
<1>1. TerminalInit => Init
  BY DEF TerminalInit
<1>2. JInv /\ [TerminalNext]_tvars => [Next]_vars
  BY TerminalStep DEF JInv, TInv
<1>3. QED
  BY <1>1, <1>2, TerminalInvariant, PTL DEF TerminalSpec, Spec

(* The button pressed on GuardPage, Confirm entry or Confirm exit, is what *)
(* ValidatePassAsync records, when the press is trusted: made before any   *)
(* reset is pending, after no failed refetch, and with no earlier request  *)
(* unaccounted for.  Requests left behind do happen, and may be recorded   *)
(* at any time; only, no two validations overlap in the service.           *)
THEOREM ButtonSaysWhatIsRecorded ==
  TerminalSpec /\ []OneValidates => []PressRecordsPassage
<1>1. TerminalInit => GInv /\ PressRecordsPassage
  BY GInit, NoCallFields DEF TerminalInit, PressRecordsPassage
<1>2. JInv /\ GInv /\ OneValidates /\ [TerminalNext]_tvars => GInv'
  BY TerminalStep, GNext DEF JInv, TInv
<1>3. JInv /\ GInv /\ OneValidates /\ PressRecordsPassage /\ [TerminalNext]_tvars
        => PressRecordsPassage'
  BY PassageNext
<1>4. QED
  BY <1>1, <1>2, <1>3, TerminalInvariant, PTL DEF TerminalSpec

(* A terminal that leaves no request behind keeps its validations apart by *)
(* locking its buttons, so no pass is used twice for an entry, its Status  *)
(* says who is inside, and trusted presses record what they say, whatever  *)
(* else the service is asked.  With a request left behind (onError or a    *)
(* reload while it is served) this fails: see the run MCGuardTerminalOverlap. *)
THEOREM NothingAstrayIsEnough ==
  TerminalSpec /\ []~Astray
    => []OneVisitAtATime /\ []StatusMatchesLog /\ []PressRecordsPassage
<1>1. JInv /\ ~Astray => OneValidates
  BY OnlyTheAwaitedValidates DEF JInv, TInv
<1>2. TerminalSpec /\ []~Astray => Spec /\ []OneValidates
  BY <1>1, TerminalInvariant, TerminalImplementsService, PTL
<1>3. QED
  BY <1>2, NoSecondEntry, StatusTellsWhoIsInside, ButtonSaysWhatIsRecorded, PTL

(* And where the service answers one request at a time it is a Gate, with  *)
(* the page in front of it as without.                                     *)
THEOREM SerialTerminalImplementsGate ==
  ASSUME OneWorker
  PROVE  TerminalSpec => ImplementsGate
<1>1. QED
  BY TerminalImplementsService, SerialServiceImplementsGate, PTL
=============================================================================
