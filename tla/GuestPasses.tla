---------------------------- MODULE GuestPasses ----------------------------
(***************************************************************************)
(* Guest passes and the log of passages: PassService and the entities      *)
(* GuestPass and PassLog.                                                  *)
(*                                                                         *)
(* Validating a pass is a toggle: the same call records the entry and the  *)
(* exit, and which of the two is decided by the pass's latest log, read in *)
(* a round trip before the one that saves.  Nothing locks the pass, so     *)
(* requests interleave at every awaited query, as in Billing.  A worker is *)
(* one request in flight.                                                  *)
(*                                                                         *)
(* Op_Fault is a wrong variant of the operator Op that follows it: the     *)
(* project's mutants put it in Op's place to show which property notices.  *)
(***************************************************************************)
EXTENDS Integers, FiniteSets

CONSTANTS
  Students,   \* accounts that may invite guests (students, and admins)
  PassIds,    \* identities of passes; bounds how many there are
  LogIds,     \* identities of logs; bounds how many there are
  Workers,    \* requests that may be in flight at once
  NoStudent,  \* no host
  NoPass,     \* no pass is being handled
  NoLog       \* no stored log is tracked

ASSUME NullsAreNotRows ==
  NoStudent \notin Students /\ NoPass \notin PassIds /\ NoLog \notin LogIds
ASSUME LogsAreFinite == IsFiniteSet(LogIds)

VARIABLES
  hosts,   \* table users: IsActive of every host
  passes,  \* table guest_passes, and where now stands against ValidFrom and ValidTo
  logs,    \* table pass_logs, and the logs constructed but not saved yet
  req      \* the request each worker is serving, with what it has read

vars == <<hosts, passes, logs, req>>

Windows == {"early", "open", "over"}
PassStatus == {"Approved", "Entered", "Exited"}

PassRow == [status : PassStatus, host : Students, window : Windows]
AbsentPass == [status |-> "absent", host |-> NoStudent, window |-> "early"]

(* A log is new while the request that constructed it has not saved it,    *)
(* and open until its ExitTime is set.  CreatedAt is taken at construction *)
(* and only compared: older is the set of the logs constructed before.     *)
LogRow == [status : {"new", "open", "closed"}, pass : PassIds, older : SUBSET LogIds]
AbsentLog == [status |-> "absent", pass |-> NoPass, older |-> {}]

Request == [stage   : {"idle", "issue", "lastLog", "enter", "leave"},
            host    : Students \cup {NoStudent},
            pass    : PassIds \cup {NoPass},
            status  : PassStatus \cup {"absent"},  \* Status of the pass as loaded
            log     : LogIds \cup {NoLog}]         \* the log constructed or tracked

Idle == [stage |-> "idle", host |-> NoStudent, pass |-> NoPass, status |-> "absent",
         log |-> NoLog]

TypeOK ==
  /\ hosts \in [Students -> {"active", "deleted"}]
  /\ passes \in [PassIds -> PassRow \cup {AbsentPass}]
  /\ logs \in [LogIds -> LogRow \cup {AbsentLog}]
  /\ req \in [Workers -> Request]

Init ==
  /\ hosts = [s \in Students |-> "active"]
  /\ passes = [p \in PassIds |-> AbsentPass]
  /\ logs = [l \in LogIds |-> AbsentLog]
  /\ req = [w \in Workers |-> Idle]

-----------------------------------------------------------------------------
(* What SaveChangesAsync writes to a column: nothing unless the tracked    *)
(* value was modified.                                                     *)
Column(stored, loaded, new) == IF new = loaded THEN stored ELSE new

LogsOf(p) == {l \in LogIds : logs[l].pass = p /\ logs[l].status \in {"open", "closed"}}

(* OrderByDescending(x => x.CreatedAt), then the first.                    *)
IsLast_OpenUnseen(l, p) == l \in LogsOf(p) /\ logs[l].status = "closed"
IsLast(l, p) == l \in LogsOf(p) /\ \A k \in LogsOf(p) : l \notin logs[k].older

(* GuestPass.IsValidAt(now).  No operation sets Status to Rejected.        *)
IsValid_NoStart(p) == passes[p].window # "over"
IsValid(p) == passes[p].window = "open"

Becomes(w, r) == req' = [req EXCEPT ![w] = r]
Ends(w) == Becomes(w, Idle)

-----------------------------------------------------------------------------
(* CreatePassAsync: the host is loaded, then the pass is saved.  ValidTo   *)
(* is only required to come after ValidFrom.                               *)
IssueLoadHost_NotKept(w, s) ==
  /\ req[w].stage = "idle"
  /\ hosts[s] = "active"
  /\ Becomes(w, [Idle EXCEPT !.stage = "issue"])
  /\ UNCHANGED <<hosts, passes, logs>>
IssueLoadHost(w, s) ==
  /\ req[w].stage = "idle"
  /\ hosts[s] = "active"
  /\ Becomes(w, [Idle EXCEPT !.stage = "issue", !.host = s])
  /\ UNCHANGED <<hosts, passes, logs>>

IssueSave(w, p, window) ==
  /\ req[w].stage = "issue"
  /\ passes[p].status = "absent"
  /\ passes' = [passes EXCEPT ![p] =
       [status |-> "Approved", host |-> req[w].host, window |-> window]]
  /\ Ends(w)
  /\ UNCHANGED <<hosts, logs>>

(* ValidatePassAsync: the pass is joined with its host, whose query filter *)
(* hides the pass once the host is deleted.                                *)
ValidateLoadPass_FilterIgnored(w, p) ==
  /\ req[w].stage = "idle"
  /\ passes[p].status # "absent"
  /\ IsValid(p)
  /\ Becomes(w, [Idle EXCEPT !.stage = "lastLog", !.pass = p, !.status = passes[p].status])
  /\ UNCHANGED <<hosts, passes, logs>>
ValidateLoadPass(w, p) ==
  /\ req[w].stage = "idle"
  /\ passes[p].status # "absent"
  /\ hosts[passes[p].host] = "active"
  /\ IsValid(p)
  /\ Becomes(w, [Idle EXCEPT !.stage = "lastLog", !.pass = p, !.status = passes[p].status])
  /\ UNCHANGED <<hosts, passes, logs>>

(* An entry unless the latest log lacks its exit.                          *)
ValidateLoadLog(w) ==
  /\ req[w].stage = "lastLog"
  /\ LET p == req[w].pass
     IN  \/ \E l \in LogIds :
              /\ \A k \in LogIds : IsLast(k, p) => logs[k].status = "closed"
              /\ logs[l].status = "absent"
              /\ logs' = [logs EXCEPT ![l] =
                   [status |-> "new", pass |-> p, older |-> {k \in LogIds : logs[k].pass = p}]]
              /\ Becomes(w, [req[w] EXCEPT !.stage = "enter", !.log = l])
         \/ \E l \in LogIds :
              /\ IsLast(l, p) /\ logs[l].status = "open"
              /\ Becomes(w, [req[w] EXCEPT !.stage = "leave", !.log = l])
              /\ UNCHANGED logs
  /\ UNCHANGED <<hosts, passes>>

(* The pass and its log are saved in one transaction.                      *)
EnterSave_LogOnly(w) ==
  /\ req[w].stage = "enter"
  /\ logs' = [logs EXCEPT ![req[w].log].status = "open"]
  /\ Ends(w)
  /\ UNCHANGED <<hosts, passes>>
EnterSave(w) ==
  /\ req[w].stage = "enter"
  /\ logs' = [logs EXCEPT ![req[w].log].status = "open"]
  /\ passes' = [passes EXCEPT ![req[w].pass].status = Column(@, req[w].status, "Entered")]
  /\ Ends(w)
  /\ UNCHANGED hosts

LeaveSave_Toggled(w) ==
  /\ req[w].stage = "leave"
  /\ logs' = [logs EXCEPT ![req[w].log].status = IF @ = "open" THEN "closed" ELSE "open"]
  /\ passes' = [passes EXCEPT ![req[w].pass].status = Column(@, req[w].status, "Exited")]
  /\ Ends(w)
  /\ UNCHANGED hosts
LeaveSave(w) ==
  /\ req[w].stage = "leave"
  /\ logs' = [logs EXCEPT ![req[w].log].status = "closed"]
  /\ passes' = [passes EXCEPT ![req[w].pass].status = Column(@, req[w].status, "Exited")]
  /\ Ends(w)
  /\ UNCHANGED hosts

(* The host's account is deleted; the passes stay as they are.             *)
DeleteUser(w, s) ==
  /\ req[w].stage = "idle"
  /\ hosts[s] = "active"
  /\ hosts' = [hosts EXCEPT ![s] = "deleted"]
  /\ UNCHANGED <<passes, logs, req>>

(* The client disconnects or the process stops before the save: a log      *)
(* constructed by the request is forgotten.                                *)
Without(l) ==
  [k \in LogIds |-> IF k = l THEN AbsentLog ELSE [logs[k] EXCEPT !.older = @ \ {l}]]

Abort(w) ==
  /\ req[w].stage # "idle"
  /\ logs' = IF req[w].stage = "enter" THEN Without(req[w].log) ELSE logs
  /\ Ends(w)
  /\ UNCHANGED <<hosts, passes>>

(* IClock.UtcNow passes ValidFrom, then ValidTo.                           *)
TimePasses(p) ==
  /\ passes[p].status # "absent"
  /\ \/ passes[p].window = "early" /\ passes' = [passes EXCEPT ![p].window = "open"]
     \/ passes[p].window = "open"  /\ passes' = [passes EXCEPT ![p].window = "over"]
  /\ UNCHANGED <<hosts, logs, req>>

-----------------------------------------------------------------------------
Start(w) ==
  \/ \E s \in Students : IssueLoadHost(w, s) \/ DeleteUser(w, s)
  \/ \E p \in PassIds : ValidateLoadPass(w, p)

Validate(w) ==
  \/ ValidateLoadLog(w)
  \/ EnterSave(w)
  \/ LeaveSave(w)

Continue(w) ==
  \/ \E p \in PassIds, window \in Windows : IssueSave(w, p, window)
  \/ Validate(w)
  \/ Abort(w)

Next ==
  \/ \E w \in Workers : Start(w) \/ Continue(w)
  \/ \E p \in PassIds : TimePasses(p)

Spec == Init /\ [][Next]_vars

-----------------------------------------------------------------------------
(* Properties that hold however many requests are in flight.               *)

(* The pass and its log never contradict each other on whether the pass    *)
(* was ever used: it leaves Approved in the transaction that inserts its   *)
(* first log, whichever of the racing validations that is.                 *)
UsedMeansLogged ==
  \A p \in PassIds : passes[p].status \in {"Entered", "Exited"} <=> LogsOf(p) # {}

(* Nobody enters before the pass becomes valid.                            *)
NobodyEarly == \A p \in PassIds : passes[p].window = "early" => LogsOf(p) = {}

(* The log is append-only: an exit once recorded is never withdrawn, and a *)
(* passage never disappears nor moves to another pass, even when two       *)
(* validations write the same log.                                         *)
LogIsAppendOnly ==
  [][\A l \in LogIds :
       logs[l].status \in {"open", "closed"} =>
         /\ logs'[l].pass = logs[l].pass
         /\ logs'[l].status \in {logs[l].status, "closed"}]_vars

-----------------------------------------------------------------------------
(* Properties of a service that serves one request at a time.              *)

OpenLogs(p) == {l \in LogsOf(p) : logs[l].status = "open"}

(* The same pass records an entry and then an exit: no second entry while  *)
(* the guest is inside.                                                    *)
OneVisitAtATime == \A p \in PassIds : Cardinality(OpenLogs(p)) <= 1

(* The Status that the guard's terminal reads says where the guest is.     *)
StatusMatchesLog ==
  \A p \in PassIds :
    /\ passes[p].status = "Entered" <=> OpenLogs(p) # {}
    /\ passes[p].status = "Exited" => LogsOf(p) # {}

(* Served one at a time, requests implement the Gate.                      *)
G == INSTANCE Gate WITH
       inside <- {p \in PassIds : OpenLogs(p) # {}},
       visits <- [p \in PassIds |-> Cardinality(LogsOf(p) \ OpenLogs(p))]

ImplementsGate == G!Spec

-----------------------------------------------------------------------------
(* A guard who keeps presenting the pass of a guest who is inside, and a   *)
(* server that completes what it has begun.                                *)
Present(p) == \E w \in Workers : ValidateLoadPass(w, p)

FairSpec ==
  /\ Spec
  /\ \A p \in PassIds : SF_vars(passes[p].status = "Entered" /\ Present(p))
  /\ \A w \in Workers : SF_vars(Validate(w))

(* Every guest who came in is eventually recorded as gone.                 *)
GuestsCheckOut == \A p \in PassIds : passes[p].status = "Entered" ~> passes[p].status = "Exited"
=============================================================================
