--------------------------- MODULE GuardTerminal ---------------------------
(***************************************************************************)
(* The guard's terminal (GuardPage.tsx) at work on the pass service.       *)
(*                                                                         *)
(* The page checks a code against its own cached list of passes, and shows *)
(* two buttons.  Both send the same request, validatePass; which of the    *)
(* two is enabled is decided by the copy of the pass taken when the code   *)
(* was checked, while what is recorded is decided by the service.          *)
(*                                                                         *)
(* The page and the service lose each other: when fetch fails, or the page *)
(* is reloaded, the request may still be on its way or be served, and the  *)
(* page is ready for the next one.  Such a request is astray.              *)
(*                                                                         *)
(* The terminal is the only one that validates here: GuestPasses itself    *)
(* covers validations that race.  The list of the last passages feeds      *)
(* nothing but the table at the bottom and is left out; that onSuccess     *)
(* also waits for it is the delay before Refreshed.                        *)
(***************************************************************************)
EXTENDS GuestPasses

CONSTANTS
  NoData,    \* a query that was never answered
  NoWorker,  \* the terminal's request is not being served
  MaxAdrift  \* bounds the requests for a pass that are on their way unawaited

ASSUME NoWorkerIsNotAWorker == NoWorker \notin Workers
ASSUME MaxAdriftIsNatural == MaxAdrift \in Nat

VARIABLES
  list,    \* the cached query ['passes']
  screen,  \* resultState and checkedPass of the page
  call,    \* the validation sent by validateMutation
  timers,  \* resets scheduled with setTimeout that have not run yet
  adrift,  \* of every pass, the requests on their way that no page waits for
  unsure   \* history: since the list was fetched a passage may have been
           \* recorded, or may yet be, of which the page was not told

terminal == <<list, screen, call, timers, adrift, unsure>>
tvars == <<vars, terminal>>

INSTANCE QueryCache

(* The list as GetPassesAsync answers it: passes of deleted hosts are      *)
(* filtered out, and a pass not used up is listed as Expired when it is.   *)
ListedStatus == PassStatus \cup {"absent", "Expired"}
Listed ==
  [p \in PassIds |->
     IF passes[p].status = "absent" \/ hosts[passes[p].host] # "active" THEN "absent"
     ELSE IF passes[p].window = "over" /\ passes[p].status # "Exited" THEN "Expired"
     ELSE passes[p].status]

ASSUME NoDataIsNoList == NoData \notin [PassIds -> ListedStatus]

Screen == [result  : {"idle", "valid", "invalid"},
           pass    : PassIds \cup {NoPass},
           status  : ListedStatus]

(* A call: what the pressed button says and, for the properties, whether   *)
(* the page had reason to trust its list, and what the service recorded.   *)
Call == [stage    : {"none", "sent", "served", "done", "refresh"},
         pass     : PassIds \cup {NoPass},
         worker   : Workers \cup {NoWorker},
         wants    : {"entry", "exit"},
         trusted  : BOOLEAN,
         recorded : {"none", "entry", "exit"}]

NoCall == [stage |-> "none", pass |-> NoPass, worker |-> NoWorker, wants |-> "entry",
           trusted |-> FALSE, recorded |-> "none"]

(* resetTerminal.                                                          *)
Ready == [result |-> "idle", pass |-> NoPass, status |-> "absent"]

TerminalTypeOK ==
  /\ TypeOK
  /\ list \in Entry([PassIds -> ListedStatus])
  /\ screen \in Screen
  /\ call \in Call
  /\ timers \in Nat
  /\ adrift \in [PassIds -> Nat]
  /\ unsure \in BOOLEAN

TerminalInit ==
  /\ Init
  /\ list = Mount(Unfetched)
  /\ screen = Ready
  /\ call = NoCall
  /\ timers = 0
  /\ adrift = [p \in PassIds |-> 0]
  /\ unsure = FALSE

-----------------------------------------------------------------------------
Awaited(w) == call.worker = w

IsValidating(w) == req[w].stage \in {"lastLog", "enter", "leave"}

(* Some validation may be recorded that the page does not wait for.        *)
Astray ==
  \/ \E p \in PassIds : adrift[p] > 0
  \/ \E w \in Workers : IsValidating(w) /\ ~Awaited(w)

(* The list is fetched when the page opens and after every validation.     *)
ListAnswered ==
  /\ list.fetch = "asked"
  /\ list' = Answered(list, Listed)
  /\ unsure' = (unsure /\ Astray)
  /\ UNCHANGED <<vars, screen, call, timers, adrift>>

ListStored ==
  /\ list.fetch = "answered"
  /\ list' = Stored(list)
  /\ UNCHANGED <<vars, screen, call, timers, adrift, unsure>>

ListLost ==
  /\ list.fetch # "idle"
  /\ list' = Lost(list)
  /\ UNCHANGED <<vars, screen, call, timers, adrift, unsure>>

(* findPassByCode: the code is looked up in the cached list, and the       *)
(* validity window is compared with the terminal's clock.                  *)
Finds(p) ==
  /\ list.data # NoData
  /\ list.data[p] # "absent"
  /\ IsValid(p)

(* handleCheck.  The form is never disabled: a code may be checked while a *)
(* validation or a reset is pending.                                       *)
Check(p) ==
  /\ screen' = IF Finds(p)
               THEN [Ready EXCEPT !.result = "valid", !.pass = p, !.status = list.data[p]]
               ELSE [Ready EXCEPT !.result = "invalid"]
  /\ UNCHANGED <<vars, list, call, timers, adrift, unsure>>

NextAction(status) == IF status = "Entered" THEN "exit" ELSE "entry"

(* The enabled one of the two buttons: validateMutation.mutate.            *)
Press ==
  /\ screen.result = "valid" /\ screen.pass # NoPass
  /\ call.stage = "none"
  /\ call' = [NoCall EXCEPT !.stage = "sent", !.pass = screen.pass,
                            !.wants = NextAction(screen.status),
                            !.trusted = timers = 0 /\ ~list.failed /\ ~unsure]
  /\ UNCHANGED <<vars, list, screen, timers, adrift, unsure>>

(* The button that returns from a refusal.                                 *)
Dismiss ==
  /\ screen.result = "invalid"
  /\ screen' = Ready
  /\ UNCHANGED <<vars, list, call, timers, adrift, unsure>>

-----------------------------------------------------------------------------
(* One of the LogIds is left, if an entry is to be recorded.               *)
IsRecordable(p) == OpenLogs(p) # {} \/ \E l \in LogIds : logs[l].status = "absent"

(* The service takes the request and serves it as GuestPasses says.        *)
Reach(w) ==
  /\ call.stage = "sent"
  /\ IsRecordable(call.pass)
  /\ ValidateLoadPass(w, call.pass)
  /\ call' = [call EXCEPT !.stage = "served", !.worker = w]
  /\ UNCHANGED <<list, screen, timers, adrift, unsure>>

Records(passage) ==
  [call EXCEPT !.stage = "done", !.worker = NoWorker, !.recorded = passage]

Serve ==
  /\ call.stage = "served"
  /\ LET w == call.worker
     IN  \/ ValidateLoadLog(w) /\ UNCHANGED call
         \/ EnterSave(w) /\ call' = Records("entry")
         \/ LeaveSave(w) /\ call' = Records("exit")
  /\ UNCHANGED <<list, screen, timers, adrift, unsure>>

(* onSuccess: both lists are invalidated, and the reset is scheduled once  *)
(* they have been fetched again or that has failed.                        *)
Succeeds_LogsOnly ==
  /\ call.stage = "done"
  /\ call' = [call EXCEPT !.stage = "refresh"]
  /\ UNCHANGED <<vars, list, screen, timers, adrift, unsure>>
Succeeds ==
  /\ call.stage = "done"
  /\ call' = [call EXCEPT !.stage = "refresh"]
  /\ list' = Invalidate(list, TRUE)
  /\ UNCHANGED <<vars, screen, timers, adrift, unsure>>

Refreshed_NoReset ==
  /\ call.stage = "refresh" /\ list.fetch = "idle"
  /\ call' = NoCall
  /\ UNCHANGED <<vars, list, screen, timers, adrift, unsure>>
Refreshed ==
  /\ call.stage = "refresh" /\ list.fetch = "idle"
  /\ call' = NoCall
  /\ timers' = timers + 1
  /\ UNCHANGED <<vars, list, screen, adrift, unsure>>

(* 900 ms later, whatever the terminal shows by then.                      *)
ResetFires ==
  /\ timers > 0
  /\ timers' = timers - 1
  /\ screen' = Ready
  /\ UNCHANGED <<vars, list, call, adrift, unsure>>

(* onError: the buttons are unlocked, and nothing is fetched again.        *)
Refuse ==
  /\ screen' = [Ready EXCEPT !.result = "invalid"]
  /\ call' = NoCall
  /\ UNCHANGED <<list, timers>>

(* The service refuses the pass, or the request never reaches it.          *)
Refused ==
  /\ call.stage = "sent"
  /\ Refuse
  /\ UNCHANGED <<vars, adrift, unsure>>

(* The service fails before it has saved, and answers so.                  *)
Failed ==
  /\ call.stage = "served"
  /\ Abort(call.worker)
  /\ Refuse
  /\ UNCHANGED <<adrift, unsure>>

(* The page no longer waits for its request, which goes on without it.     *)
LeftBehind ==
  IF call.stage = "sent"
  THEN adrift[call.pass] < MaxAdrift /\ adrift' = [adrift EXCEPT ![call.pass] = @ + 1]
  ELSE UNCHANGED adrift

(* The connection breaks, and fetch fails, before the answer is there.     *)
Disconnected_Trusting ==
  /\ call.stage \in {"sent", "served", "done"}
  /\ LeftBehind
  /\ Refuse
  /\ UNCHANGED <<vars, unsure>>
Disconnected ==
  /\ call.stage \in {"sent", "served", "done"}
  /\ LeftBehind
  /\ unsure' = TRUE
  /\ Refuse
  /\ UNCHANGED vars

(* The page is reloaded, at any time: it starts with an empty cache.  What *)
(* was recorded before is in the list it will fetch.                       *)
Reload ==
  /\ LeftBehind
  /\ unsure' = (unsure \/ call.stage \in {"sent", "served"})
  /\ list' = Mount(Unfetched)
  /\ screen' = Ready
  /\ call' = NoCall
  /\ timers' = 0
  /\ UNCHANGED vars

(* A request left behind reaches the service after all, or never does, or  *)
(* is refused.                                                             *)
Arrives_Twice(w, p) ==
  /\ adrift' = [adrift EXCEPT ![p] = @ - 1]
  /\ (IsRecordable(p) /\ ValidateLoadPass(w, p)) \/ UNCHANGED vars
  /\ UNCHANGED <<list, screen, call, timers, unsure>>
Arrives(w, p) ==
  /\ adrift[p] > 0
  /\ adrift' = [adrift EXCEPT ![p] = @ - 1]
  /\ (IsRecordable(p) /\ ValidateLoadPass(w, p)) \/ UNCHANGED vars
  /\ UNCHANGED <<list, screen, call, timers, unsure>>

-----------------------------------------------------------------------------
(* What others ask of the service meanwhile, and the validations that the  *)
(* page no longer waits for.                                               *)
Elsewhere ==
  /\ \/ \E w \in Workers, s \in Students : IssueLoadHost(w, s) \/ DeleteUser(w, s)
     \/ \E w \in Workers, p \in PassIds, window \in Windows : IssueSave(w, p, window)
     \/ \E w \in Workers : ~Awaited(w) /\ (Validate(w) \/ Abort(w))
     \/ \E p \in PassIds : TimePasses(p)
  /\ UNCHANGED terminal

TerminalNext ==
  \/ ListAnswered \/ ListStored \/ ListLost
  \/ \E p \in PassIds : Check(p)
  \/ Press \/ Dismiss
  \/ \E w \in Workers : Reach(w)
  \/ Serve
  \/ Succeeds \/ Refreshed \/ ResetFires
  \/ Refused \/ Failed \/ Disconnected \/ Reload
  \/ \E w \in Workers, p \in PassIds : Arrives(w, p)
  \/ Elsewhere

(* fetch ends with an answer or fails, and timers run; nothing obliges the *)
(* guard to do anything, nor the service to take or complete a request.    *)
TerminalSpec == TerminalInit /\ [][TerminalNext]_tvars

FairTerminal ==
  /\ TerminalSpec
  /\ WF_tvars(ListAnswered) /\ WF_tvars(ListStored)
  /\ WF_tvars(Serve \/ Refused \/ Failed \/ Disconnected)
  /\ WF_tvars(Succeeds) /\ WF_tvars(Refreshed) /\ WF_tvars(ResetFires)

-----------------------------------------------------------------------------
(* The button pressed says what is recorded.  The service only toggles, so *)
(* this needs the checked copy to be current until the request is served;  *)
(* it is, unless the guard presses again before the reset of an earlier    *)
(* validation has run, after a refetch that failed, or while a validation  *)
(* is unaccounted for: its reply was lost, or it may still be recorded.    *)
PressRecordsPassage ==
  call.trusted /\ call.stage \in {"done", "refresh"} => call.recorded = call.wants

(* Every validation, recorded or refused, takes the card with the buttons  *)
(* off the screen in the end.                                              *)
TerminalReturns == call.stage = "sent" ~> screen.result # "valid"
=============================================================================
