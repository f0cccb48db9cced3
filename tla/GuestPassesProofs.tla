-------------------------- MODULE GuestPassesProofs --------------------------
(***************************************************************************)
(* Theorems about GuestPasses for every value of its constants, in         *)
(* particular for any number of validations in flight; at the end, what    *)
(* validations add that do not overlap, and a service with one request at  *)
(* a time.                                                                 *)
(***************************************************************************)
EXTENDS GuestPasses, FiniteSetTheorems, TLAPS

(***************************************************************************)
(* The inductive invariant.  UsedMeansLogged and NobodyEarly speak of what *)
(* is stored; a validation in flight may still change it, so the invariant *)
(* adds what every request knows of the rows it is about to write, and     *)
(* that no two requests construct the same log.                            *)
(***************************************************************************)
Used == {"Entered", "Exited"}
Saved == {"open", "closed"}
ValidateStages == {"lastLog", "enter", "leave"}

PassOK(w) ==
  req[w].stage \in ValidateStages =>
    /\ req[w].pass \in PassIds
    /\ passes[req[w].pass].status # "absent"
    /\ passes[req[w].pass].window # "early"
    /\ req[w].status \in Used => passes[req[w].pass].status \in Used

LogOK(w) ==
  /\ req[w].stage = "enter" =>
       req[w].log \in LogIds /\ logs[req[w].log].status = "new"
         /\ logs[req[w].log].pass = req[w].pass
  /\ req[w].stage = "leave" =>
       req[w].log \in LogIds /\ logs[req[w].log].status \in Saved
         /\ logs[req[w].log].pass = req[w].pass

StageOK(w) ==
  /\ req[w].stage = "issue" => req[w].host \in Students
  /\ PassOK(w)
  /\ LogOK(w)

OwnLogs ==
  \A v, w \in Workers :
    req[v].stage = "enter" /\ req[w].stage = "enter" /\ v # w => req[v].log # req[w].log

RequestsOK == (\A w \in Workers : StageOK(w)) /\ OwnLogs

IInv == TypeOK /\ RequestsOK /\ UsedMeansLogged /\ NobodyEarly

LEMMA PassFields ==
  ASSUME TypeOK, NEW p \in PassIds
  PROVE  /\ passes[p].status \in PassStatus \cup {"absent"}
         /\ passes[p].window \in Windows
         /\ passes[p].status # "absent" => passes[p] \in PassRow
BY DEF TypeOK, PassRow, AbsentPass, PassStatus, Windows

LEMMA LogFields ==
  ASSUME TypeOK, NEW l \in LogIds
  PROVE  /\ logs[l].status \in Saved \cup {"new", "absent"}
         /\ logs[l] = AbsentLog \/ logs[l] \in LogRow
         /\ logs[l].status # "absent" =>
              logs[l] \in LogRow /\ logs[l].pass \in PassIds /\ logs[l].older \subseteq LogIds
BY DEF TypeOK, LogRow, AbsentLog, Saved

LEMMA RequestFields ==
  ASSUME TypeOK, NEW w \in Workers
  PROVE  /\ req[w] \in Request
         /\ req[w].stage \in {"idle", "issue", "lastLog", "enter", "leave"}
         /\ req[w].status \in PassStatus \cup {"absent"}
BY DEF TypeOK, Request

LEMMA Becoming ==
  ASSUME TypeOK, NEW w \in Workers, NEW r, Becomes(w, r)
  PROVE  req'[w] = r /\ \A v \in Workers : v # w => req'[v] = req[v]
BY DEF TypeOK, Becomes

LEMMA IdleIsOK ==
  /\ Idle \in Request /\ Idle.stage = "idle"
  /\ \A w \in Workers : req'[w] = Idle => StageOK(w)'
BY DEF Idle, Request, StageOK, PassOK, LogOK, ValidateStages

(***************************************************************************)
(* What a step of one request leaves to the others.                        *)
(***************************************************************************)
PassesKept ==
  \A p \in PassIds : passes[p].status # "absent" =>
    /\ passes'[p].status # "absent"
    /\ passes[p].status \in Used => passes'[p].status \in Used
    /\ passes[p].window # "early" => passes'[p].window # "early"

LogsKept(mine) ==
  \A l \in LogIds \ mine :
    /\ logs[l].status = "new" => logs'[l].status = "new" /\ logs'[l].pass = logs[l].pass
    /\ logs[l].status \in Saved => logs'[l].status \in Saved /\ logs'[l].pass = logs[l].pass

LEMMA OthersKept ==
  ASSUME IInv, NEW v \in Workers, req'[v] = req[v], PassesKept, NEW mine, LogsKept(mine),
         req[v].stage \in {"enter", "leave"} => req[v].log \notin mine
  PROVE  StageOK(v)'
<1>1. StageOK(v)
  BY DEF IInv, RequestsOK
<1>2. PassOK(v)'
  BY <1>1 DEF StageOK, PassOK, PassesKept
<1>3. LogOK(v)'
  BY <1>1 DEF StageOK, LogOK, LogsKept
<1>4. QED
  BY <1>1, <1>2, <1>3 DEF StageOK

(* The logs of the requests in flight beside w are not the one w has       *)
(* constructed.                                                            *)
Mine(w) == IF req[w].stage = "enter" THEN {req[w].log} ELSE {}

LEMMA OtherLogs ==
  ASSUME IInv, NEW w \in Workers, NEW v \in Workers, v # w,
         req[v].stage \in {"enter", "leave"}
  PROVE  req[v].log \notin Mine(w)
BY DEF IInv, RequestsOK, OwnLogs, StageOK, LogOK, Mine, Saved

LEMMA RequestStep ==
  ASSUME IInv, NEW w \in Workers, NEW r \in Request, Becomes(w, r), StageOK(w)',
         PassesKept, LogsKept(Mine(w)),
         r.stage = "enter" => r.log \in LogIds /\ logs[r.log].status = "absent"
  PROVE  RequestsOK' /\ req' \in [Workers -> Request]
<1>1. req' \in [Workers -> Request]
  BY DEF IInv, TypeOK, Becomes
<1>2. req'[w] = r /\ \A v \in Workers : v # w => req'[v] = req[v]
  BY Becoming DEF IInv
<1>3. ASSUME NEW v \in Workers PROVE StageOK(v)'
  BY <1>2, OthersKept, OtherLogs
<1>4. ASSUME NEW v \in Workers, v # w, req[v].stage = "enter", r.stage = "enter"
      PROVE  req[v].log # r.log
  BY <1>4 DEF IInv, RequestsOK, StageOK, LogOK
<1>5. OwnLogs'
  BY <1>2, <1>4 DEF IInv, RequestsOK, OwnLogs
<1>6. QED
  BY <1>1, <1>3, <1>5 DEF RequestsOK

(* A step that ends the request.                                           *)
LEMMA EndStep ==
  ASSUME IInv, NEW w \in Workers, Ends(w), PassesKept, LogsKept(Mine(w))
  PROVE  RequestsOK' /\ req' \in [Workers -> Request]
<1>1. Idle \in Request /\ Idle.stage # "enter"
  BY IdleIsOK
<1>2. StageOK(w)'
  BY Becoming, IdleIsOK DEF Ends, IInv
<1>3. QED
  BY <1>1, <1>2, RequestStep DEF Ends

(* A step that writes no table.                                            *)
LEMMA ReadStep ==
  ASSUME IInv, NEW w \in Workers, NEW r \in Request, Becomes(w, r), StageOK(w)',
         UNCHANGED <<hosts, passes, logs>>, r.stage # "enter"
  PROVE  IInv'
<1>1. PassesKept /\ LogsKept(Mine(w))
  BY DEF PassesKept, LogsKept
<1>2. RequestsOK' /\ req' \in [Workers -> Request]
  BY <1>1, RequestStep
<1>3. UsedMeansLogged' /\ NobodyEarly'
  BY DEF IInv, UsedMeansLogged, NobodyEarly, LogsOf
<1>4. QED
  BY <1>2, <1>3 DEF IInv, TypeOK

(***************************************************************************)
(* One lemma per action.                                                   *)
(***************************************************************************)
LEMMA InvInit == Init => IInv
<1> SUFFICES ASSUME Init PROVE IInv
  OBVIOUS
<1>1. TypeOK
  BY IdleIsOK DEF Init, TypeOK
<1>2. RequestsOK
  BY DEF Init, RequestsOK, StageOK, PassOK, LogOK, ValidateStages, OwnLogs, Idle
<1>3. UsedMeansLogged /\ NobodyEarly
  BY DEF Init, UsedMeansLogged, NobodyEarly, LogsOf, AbsentPass, AbsentLog
<1>4. QED
  BY <1>1, <1>2, <1>3 DEF IInv

LEMMA InvIssueLoadHost ==
  ASSUME IInv, NEW w \in Workers, NEW s \in Students, IssueLoadHost(w, s)
  PROVE  IInv'
<1> DEFINE new == [Idle EXCEPT !.stage = "issue", !.host = s]
<1>1. new \in Request /\ new.stage = "issue" /\ new.host = s
  BY DEF Idle, Request
<1>2. Becomes(w, new) /\ UNCHANGED <<hosts, passes, logs>>
  BY DEF IssueLoadHost
<1> HIDE DEF new
<1>3. StageOK(w)'
  BY <1>1, <1>2, Becoming DEF IInv, StageOK, PassOK, LogOK, ValidateStages
<1>4. QED
  BY <1>1, <1>2, <1>3, ReadStep

LEMMA InvIssueSave ==
  ASSUME IInv, NEW w \in Workers, NEW p \in PassIds, NEW window \in Windows,
         IssueSave(w, p, window)
  PROVE  IInv'
<1> DEFINE row == [status |-> "Approved", host |-> req[w].host, window |-> window]
<1>1. row \in PassRow /\ row.status = "Approved"
  BY DEF IInv, RequestsOK, StageOK, IssueSave, PassRow, PassStatus
<1>2. passes' = [passes EXCEPT ![p] = row] /\ UNCHANGED <<hosts, logs>> /\ Ends(w)
  BY DEF IssueSave
<1> HIDE DEF row
<1>3. passes' \in [PassIds -> PassRow \cup {AbsentPass}]
  BY <1>1, <1>2 DEF IInv, TypeOK
<1>4. PassesKept /\ LogsKept(Mine(w))
  BY <1>2 DEF PassesKept, LogsKept, IssueSave, IInv, TypeOK
<1>5. RequestsOK' /\ req' \in [Workers -> Request]
  BY <1>2, <1>4, EndStep
(* The pass was absent, so it has no log yet.                              *)
<1>6. LogsOf(p) = {}
  BY DEF IssueSave, IInv, UsedMeansLogged
<1>7. UsedMeansLogged' /\ NobodyEarly'
  BY <1>1, <1>2, <1>6 DEF IInv, TypeOK, UsedMeansLogged, NobodyEarly, LogsOf
<1>8. QED
  BY <1>2, <1>3, <1>5, <1>7 DEF IInv, TypeOK

LEMMA InvValidateLoadPass ==
  ASSUME IInv, NEW w \in Workers, NEW p \in PassIds, ValidateLoadPass(w, p)
  PROVE  IInv'
<1> DEFINE new == [Idle EXCEPT !.stage = "lastLog", !.pass = p, !.status = passes[p].status]
<1>1. passes[p].status \in PassStatus /\ passes[p].window = "open"
  BY PassFields DEF IInv, ValidateLoadPass, IsValid
<1>2. /\ new \in Request /\ new.stage = "lastLog" /\ new.pass = p
      /\ new.status = passes[p].status
  BY <1>1 DEF Idle, Request
<1>3. Becomes(w, new) /\ UNCHANGED <<hosts, passes, logs>>
  BY DEF ValidateLoadPass
<1> HIDE DEF new
<1>4. StageOK(w)'
  BY <1>1, <1>2, <1>3, Becoming
     DEF IInv, StageOK, PassOK, LogOK, PassStatus, ValidateLoadPass
<1>5. QED
  BY <1>2, <1>3, <1>4, ReadStep

(* An entry constructs a log, which is not among the stored ones yet.      *)
LEMMA InvConstructLog ==
  ASSUME IInv, NEW w \in Workers, NEW l \in LogIds, NEW older \in SUBSET LogIds,
         req[w].stage = "lastLog", logs[l].status = "absent",
         logs' = [logs EXCEPT ![l] =
           [status |-> "new", pass |-> req[w].pass, older |-> older]],
         Becomes(w, [req[w] EXCEPT !.stage = "enter", !.log = l]),
         UNCHANGED <<hosts, passes>>
  PROVE  IInv'
<1> DEFINE new == [req[w] EXCEPT !.stage = "enter", !.log = l]
           row == [status |-> "new", pass |-> req[w].pass, older |-> older]
<1>1. PassOK(w) /\ req[w].pass \in PassIds
  BY DEF IInv, RequestsOK, StageOK, PassOK, ValidateStages
<1>2. /\ new \in Request /\ new.stage = "enter" /\ new.log = l
      /\ new.pass = req[w].pass /\ new.status = req[w].status
  BY RequestFields DEF IInv, Request
<1>3. row \in LogRow /\ row.status = "new" /\ row.pass = req[w].pass
  BY <1>1 DEF LogRow
<1>4. Becomes(w, new) /\ logs' = [logs EXCEPT ![l] = row]
  OBVIOUS
<1> HIDE DEF new, row
<1>5. logs' \in [LogIds -> LogRow \cup {AbsentLog}]
  BY <1>3, <1>4 DEF IInv, TypeOK
<1>6. logs'[l] = row /\ \A k \in LogIds \ {l} : logs'[k] = logs[k]
  BY <1>4 DEF IInv, TypeOK
<1>7. PassesKept /\ LogsKept(Mine(w))
  BY <1>6 DEF PassesKept, LogsKept, Saved
<1>8. StageOK(w)'
  <2>1. PassOK(w)'
    BY <1>1, <1>2, <1>4, Becoming DEF IInv, PassOK, ValidateStages
  <2>2. LogOK(w)'
    BY <1>2, <1>3, <1>4, <1>6, Becoming DEF IInv, LogOK
  <2>3. QED
    BY <1>2, <1>4, <2>1, <2>2, Becoming DEF IInv, StageOK
<1>9. RequestsOK' /\ req' \in [Workers -> Request]
  BY <1>2, <1>4, <1>7, <1>8, RequestStep
<1>10. \A p : LogsOf(p)' = LogsOf(p)
  BY <1>3, <1>6 DEF LogsOf
<1>11. UsedMeansLogged' /\ NobodyEarly'
  BY <1>10 DEF IInv, UsedMeansLogged, NobodyEarly
<1>12. QED
  BY <1>5, <1>9, <1>11 DEF IInv, TypeOK

LEMMA InvValidateLoadLog ==
  ASSUME IInv, NEW w \in Workers, ValidateLoadLog(w)
  PROVE  IInv'
<1> DEFINE p == req[w].pass
<1>1. ASSUME NEW l \in LogIds, logs[l].status = "absent",
             logs' = [logs EXCEPT ![l] =
               [status |-> "new", pass |-> p, older |-> {k \in LogIds : logs[k].pass = p}]],
             Becomes(w, [req[w] EXCEPT !.stage = "enter", !.log = l])
      PROVE  IInv'
  BY <1>1, InvConstructLog DEF ValidateLoadLog
<1>2. ASSUME NEW l \in LogIds, IsLast(l, p), Becomes(w, [req[w] EXCEPT !.stage = "leave", !.log = l]),
             UNCHANGED logs
      PROVE  IInv'
  <2> DEFINE new == [req[w] EXCEPT !.stage = "leave", !.log = l]
  <2>1. /\ new \in Request /\ new.stage = "leave" /\ new.log = l
        /\ new.pass = req[w].pass /\ new.status = req[w].status
    BY RequestFields DEF IInv, Request
  <2>2. Becomes(w, new) /\ UNCHANGED <<hosts, passes, logs>>
    BY <1>2 DEF ValidateLoadLog
  <2> HIDE DEF new
  <2>3. PassOK(w) /\ req[w].stage = "lastLog"
    BY DEF IInv, RequestsOK, StageOK, ValidateLoadLog
  <2>4. PassOK(w)'
    BY <2>1, <2>2, <2>3, Becoming DEF IInv, PassOK, ValidateStages
  <2>5. LogOK(w)'
    BY <1>2, <2>1, <2>2, Becoming DEF IInv, LogOK, IsLast, LogsOf, Saved
  <2>6. QED
    BY <2>1, <2>2, <2>4, <2>5, Becoming, ReadStep DEF IInv, StageOK
<1>3. QED
  BY <1>1, <1>2 DEF ValidateLoadLog

(* Both saves: the log the request holds is stored with a status in Saved, *)
(* and its pass ends up used.                                              *)
LEMMA SaveStep ==
  ASSUME IInv, NEW w \in Workers, req[w].stage \in {"enter", "leave"},
         NEW l, l = req[w].log, NEW p, p = req[w].pass,
         NEW log \in LogRow, log.status \in Saved, log.pass = p,
         NEW pass \in PassRow, pass.status \in Used, pass.window = passes[p].window,
         logs' = [logs EXCEPT ![l] = log], passes' = [passes EXCEPT ![p] = pass],
         Ends(w), UNCHANGED hosts
  PROVE  IInv'
<1>1. p \in PassIds /\ passes[p].status # "absent" /\ passes[p].window # "early"
  BY DEF IInv, RequestsOK, StageOK, PassOK, ValidateStages
<1>2. l \in LogIds /\ logs[l].status \in Saved \cup {"new"} /\ logs[l].pass = p
  BY DEF IInv, RequestsOK, StageOK, LogOK
<1>3. logs[l].status = "new" => Mine(w) = {l}
  BY DEF IInv, RequestsOK, StageOK, LogOK, Mine, Saved
<1>4. logs' \in [LogIds -> LogRow \cup {AbsentLog}]
  BY <1>2 DEF IInv, TypeOK
<1>5. passes' \in [PassIds -> PassRow \cup {AbsentPass}]
  BY <1>1 DEF IInv, TypeOK
<1>6. /\ logs'[l] = log /\ \A k \in LogIds \ {l} : logs'[k] = logs[k]
      /\ passes'[p] = pass /\ \A q \in PassIds \ {p} : passes'[q] = passes[q]
  BY <1>1, <1>2 DEF IInv, TypeOK
<1>7. PassesKept
  BY <1>1, <1>6 DEF PassesKept, Used
<1>8. LogsKept(Mine(w))
  BY <1>2, <1>3, <1>6 DEF LogsKept, Saved
<1>9. RequestsOK' /\ req' \in [Workers -> Request]
  BY <1>7, <1>8, EndStep
<1>10. /\ LogsOf(p)' = LogsOf(p) \cup {l}
       /\ \A q \in PassIds \ {p} : LogsOf(q)' = LogsOf(q)
  BY <1>2, <1>6 DEF LogsOf, Saved
<1>11. UsedMeansLogged'
  BY <1>1, <1>6, <1>10 DEF IInv, UsedMeansLogged, Used
<1>12. NobodyEarly'
  BY <1>1, <1>6, <1>10 DEF IInv, NobodyEarly
<1>13. QED
  BY <1>4, <1>5, <1>9, <1>11, <1>12 DEF IInv, TypeOK

LEMMA InvSave ==
  ASSUME IInv, NEW w \in Workers, EnterSave(w) \/ LeaveSave(w)
  PROVE  IInv'
<1> DEFINE l == req[w].log
           p == req[w].pass
           stored == IF req[w].stage = "enter" THEN "open" ELSE "closed"
           new == IF req[w].stage = "enter" THEN "Entered" ELSE "Exited"
           status == Column(passes[p].status, req[w].status, new)
           log == [logs[l] EXCEPT !.status = stored]
           pass == [passes[p] EXCEPT !.status = status]
<1>1. req[w].stage \in {"enter", "leave"} /\ Ends(w) /\ UNCHANGED hosts
  BY DEF EnterSave, LeaveSave
<1>2. passes[p] \in PassRow /\ (req[w].status \in Used => passes[p].status \in Used)
  BY <1>1, PassFields DEF IInv, RequestsOK, StageOK, PassOK, ValidateStages
<1>3. status \in Used
  BY <1>2 DEF Column, Used
<1>4. logs[l] \in LogRow /\ logs[l].pass = p
  BY <1>1, LogFields DEF IInv, RequestsOK, StageOK, LogOK, Saved
<1>5. logs' = [logs EXCEPT ![l] = log] /\ passes' = [passes EXCEPT ![p] = pass]
  BY DEF EnterSave, LeaveSave
<1> HIDE DEF status
<1>6. log \in LogRow /\ log.status \in Saved /\ log.pass = p
  BY <1>4 DEF LogRow, Saved
<1>7. pass \in PassRow /\ pass.status \in Used /\ pass.window = passes[p].window
  BY <1>2, <1>3 DEF PassRow, PassStatus, Used
<1> HIDE DEF l, p, log, pass
<1>8. QED
  BY <1>1, <1>5, <1>6, <1>7, SaveStep DEF l, p

LEMMA InvDeleteUser ==
  ASSUME IInv, NEW w \in Workers, NEW s \in Students, DeleteUser(w, s)
  PROVE  IInv'
<1>1. TypeOK'
  BY DEF DeleteUser, IInv, TypeOK
<1>2. RequestsOK'
  BY DEF DeleteUser, IInv, RequestsOK, OwnLogs, StageOK, PassOK, LogOK
<1>3. UsedMeansLogged' /\ NobodyEarly'
  BY DEF DeleteUser, IInv, UsedMeansLogged, NobodyEarly, LogsOf
<1>4. QED
  BY <1>1, <1>2, <1>3 DEF IInv

(* Forgetting a log nobody saved changes none that are stored.             *)
LEMMA InvAbort ==
  ASSUME IInv, NEW w \in Workers, Abort(w)
  PROVE  IInv'
<1> DEFINE l == req[w].log
<1>1. CASE req[w].stage = "enter"
  <2>1. l \in LogIds /\ logs[l].status = "new" /\ Mine(w) = {l}
    BY <1>1 DEF IInv, RequestsOK, StageOK, LogOK, Mine
  <2>2. logs' = Without(l)
    BY <1>1 DEF Abort
  <2>3. ASSUME NEW k \in LogIds
        PROVE  /\ logs'[k] \in LogRow \cup {AbsentLog}
               /\ k = l => logs'[k] = AbsentLog
               /\ k # l => logs'[k].status = logs[k].status /\ logs'[k].pass = logs[k].pass
    <3>1. CASE k = l
      BY <2>2, <3>1 DEF Without
    <3>2. CASE k # l
      <4> DEFINE row == [logs[k] EXCEPT !.older = @ \ {l}]
      <4>1. logs'[k] = row
        BY <2>2, <3>2 DEF Without
      <4>2. CASE logs[k] = AbsentLog
        BY <3>2, <4>1, <4>2 DEF AbsentLog
      <4>3. CASE logs[k] \in LogRow
        BY <3>2, <4>1, <4>3 DEF LogRow
      <4>4. QED
        BY <4>2, <4>3, LogFields DEF IInv
    <3>3. QED
      BY <3>1, <3>2
  <2>4. logs' \in [LogIds -> LogRow \cup {AbsentLog}]
    <3>1. logs' = [k \in LogIds |-> logs'[k]]
      BY <2>2 DEF Without
    <3>2. QED
      BY <2>3, <3>1
  <2>5. PassesKept /\ LogsKept(Mine(w))
    BY <2>1, <2>3 DEF Abort, PassesKept, LogsKept
  <2>6. RequestsOK' /\ req' \in [Workers -> Request]
    BY <2>5, EndStep DEF Abort
  <2>7. \A p : LogsOf(p)' = LogsOf(p)
    BY <2>1, <2>3 DEF LogsOf, AbsentLog
  <2>8. UsedMeansLogged' /\ NobodyEarly'
    BY <2>7 DEF Abort, IInv, UsedMeansLogged, NobodyEarly
  <2>9. QED
    BY <2>4, <2>6, <2>8 DEF Abort, IInv, TypeOK
<1>2. CASE req[w].stage # "enter"
  <2>1. Becomes(w, Idle) /\ UNCHANGED <<hosts, passes, logs>>
    BY <1>2 DEF Abort, Ends
  <2>2. QED
    BY <2>1, IdleIsOK, Becoming, ReadStep DEF IInv
<1>3. QED
  BY <1>1, <1>2

LEMMA InvTimePasses ==
  ASSUME IInv, NEW p \in PassIds, TimePasses(p)
  PROVE  IInv'
<1> PICK later \in {"open", "over"} : passes' = [passes EXCEPT ![p].window = later]
  BY DEF TimePasses
<1> DEFINE row == [passes[p] EXCEPT !.window = later]
<1>1. passes[p] \in PassRow
  BY PassFields DEF IInv, TimePasses
<1>2. row \in PassRow /\ row.status = passes[p].status /\ row.window = later
  BY <1>1 DEF PassRow, Windows
<1>3. passes' = [passes EXCEPT ![p] = row]
  OBVIOUS
<1> HIDE DEF row
<1>4. TypeOK'
  BY <1>2, <1>3 DEF TimePasses, IInv, TypeOK
<1>5. passes'[p] = row /\ \A q \in PassIds \ {p} : passes'[q] = passes[q]
  BY <1>3 DEF IInv, TypeOK
<1>6. PassesKept /\ LogsKept({})
  BY <1>2, <1>5 DEF TimePasses, PassesKept, LogsKept
<1>7. RequestsOK'
  BY <1>6, OthersKept DEF TimePasses, IInv, RequestsOK, OwnLogs
<1>8. UsedMeansLogged' /\ NobodyEarly'
  BY <1>2, <1>5 DEF TimePasses, IInv, UsedMeansLogged, NobodyEarly, LogsOf
<1>9. QED
  BY <1>4, <1>7, <1>8 DEF IInv

LEMMA InvNext == IInv /\ [Next]_vars => IInv'
<1> SUFFICES ASSUME IInv, [Next]_vars PROVE IInv'
  OBVIOUS
<1>1. CASE UNCHANGED vars
  BY <1>1 DEF vars, IInv, TypeOK, RequestsOK, OwnLogs, StageOK, PassOK, LogOK,
              UsedMeansLogged, NobodyEarly, LogsOf
<1>2. ASSUME NEW w \in Workers, Start(w) PROVE IInv'
  BY <1>2, InvIssueLoadHost, InvValidateLoadPass, InvDeleteUser DEF Start
<1>3. ASSUME NEW w \in Workers, Validate(w) PROVE IInv'
  BY <1>3, InvValidateLoadLog, InvSave DEF Validate
<1>4. ASSUME NEW w \in Workers, Continue(w) PROVE IInv'
  BY <1>3, <1>4, InvIssueSave, InvAbort DEF Continue
<1>5. QED
  BY <1>1, <1>2, <1>4, InvTimePasses DEF Next

LEMMA Invariant == Spec => []IInv
<1>1. QED
  BY InvInit, InvNext, PTL DEF Spec

(***************************************************************************)
(* The theorems.                                                           *)
(***************************************************************************)

(* Every row and every request in flight stays well formed.                *)
THEOREM TypeCorrect == Spec => []TypeOK
<1>1. IInv => TypeOK
  BY DEF IInv
<1>2. QED
  BY <1>1, Invariant, PTL

(* A pass has left Approved exactly when a passage of it is logged, however *)
(* many guards validate it at once.                                        *)
THEOREM StatusAndLogAgree == Spec => []UsedMeansLogged
<1>1. IInv => UsedMeansLogged
  BY DEF IInv
<1>2. QED
  BY <1>1, Invariant, PTL

(* ValidatePassAsync lets nobody in before the pass becomes valid.         *)
THEOREM NoEarlyEntry == Spec => []NobodyEarly
<1>1. IInv => NobodyEarly
  BY DEF IInv
<1>2. QED
  BY <1>1, Invariant, PTL

(* Racing validations never withdraw an exit nor lose a passage: a stored  *)
(* log changes only in LeaveSave, which closes it.                         *)
THEOREM LogNeverShrinks == Spec => LogIsAppendOnly
<1>1. IInv /\ [Next]_vars =>
        [\A l \in LogIds :
           logs[l].status \in {"open", "closed"} =>
             /\ logs'[l].pass = logs[l].pass
             /\ logs'[l].status \in {logs[l].status, "closed"}]_vars
  <2> SUFFICES ASSUME IInv, [Next]_vars, NEW l \in LogIds, logs[l].status \in {"open", "closed"}
               PROVE  /\ logs'[l].pass = logs[l].pass
                      /\ logs'[l].status \in {logs[l].status, "closed"}
    OBVIOUS
  <2>1. CASE UNCHANGED logs
    BY <2>1
  <2>2. ASSUME NEW w \in Workers, ValidateLoadLog(w), logs' # logs
        PROVE  logs'[l] = logs[l]
    BY <2>2 DEF ValidateLoadLog, IInv, TypeOK
  <2>3. ASSUME NEW w \in Workers, EnterSave(w)
        PROVE  logs'[l] = logs[l]
    <3>1. LogOK(w)
      BY DEF IInv, RequestsOK, StageOK
    <3>2. QED
      BY <2>3, <3>1 DEF EnterSave, LogOK, IInv, TypeOK
  <2>4. ASSUME NEW w \in Workers, LeaveSave(w)
        PROVE  logs'[l].pass = logs[l].pass /\ logs'[l].status \in {logs[l].status, "closed"}
    <3>1. logs[l] \in LogRow
      BY LogFields DEF IInv
    <3>2. logs'[l] = logs[l] \/ logs'[l] = [logs[l] EXCEPT !.status = "closed"]
      BY <2>4 DEF LeaveSave, IInv, TypeOK
    <3>3. QED
      BY <3>1, <3>2 DEF LogRow
  <2>5. ASSUME NEW w \in Workers, Abort(w), logs' # logs
        PROVE  logs'[l].pass = logs[l].pass /\ logs'[l].status = logs[l].status
    <3>1. LogOK(w) /\ req[w].stage = "enter" /\ logs' = Without(req[w].log)
      BY <2>5 DEF Abort, IInv, RequestsOK, StageOK
    <3>2. logs'[l] = [logs[l] EXCEPT !.older = @ \ {req[w].log}]
      BY <3>1 DEF LogOK, Without
    <3>3. logs[l] \in LogRow
      BY LogFields DEF IInv
    <3>4. QED
      BY <3>2, <3>3 DEF LogRow
  <2>6. ASSUME NEW w \in Workers, Start(w) \/ \E p \in PassIds, window \in Windows : IssueSave(w, p, window)
        PROVE  UNCHANGED logs
    BY <2>6 DEF Start, IssueLoadHost, DeleteUser, ValidateLoadPass, IssueSave
  <2>7. ASSUME NEW p \in PassIds, TimePasses(p)
        PROVE  UNCHANGED logs
    BY <2>7 DEF TimePasses
  <2>8. QED
    BY <2>1, <2>2, <2>3, <2>4, <2>5, <2>6, <2>7 DEF Next, Continue, Validate, vars
<1>2. QED
  BY <1>1, Invariant, PTL DEF Spec, LogIsAppendOnly

(***************************************************************************)
(* Validations that do not overlap.  Requests of other kinds may still     *)
(* interleave with the one validation in flight.                           *)
(***************************************************************************)
OneValidates ==
  \A v, w \in Workers :
    req[v].stage \in ValidateStages /\ req[w].stage \in ValidateStages => v = w

(* A log knows as older only what was stored when it was constructed, and  *)
(* only the validation in flight has constructed a log it has not saved.   *)
OlderAreSaved == \A k, l \in LogIds : l \in logs[k].older => logs[l].status \in Saved
NewAreHeld ==
  \A l \in LogIds : logs[l].status = "new" =>
    \E w \in Workers : req[w].stage = "enter" /\ req[w].log = l

(* The open log of a pass is its only one and its last one, and Status     *)
(* says whether it exists.                                                 *)
OpenLogOK ==
  \A p \in PassIds :
    /\ \A k, l \in OpenLogs(p) : k = l
    /\ \A l \in OpenLogs(p) : IsLast(l, p)
    /\ passes[p].status = "Entered" <=> OpenLogs(p) # {}

(* What a validation in flight has read is still so.                       *)
UpToDate(w) ==
  /\ req[w].stage \in ValidateStages => req[w].status = passes[req[w].pass].status
  /\ req[w].stage = "enter" => OpenLogs(req[w].pass) = {}
  /\ req[w].stage = "leave" => logs[req[w].log].status = "open"

GInv == OlderAreSaved /\ NewAreHeld /\ OpenLogOK /\ \A w \in Workers : UpToDate(w)

LEMMA GInit == Init => GInv
<1> SUFFICES ASSUME Init PROVE GInv
  OBVIOUS
<1>1. OlderAreSaved /\ NewAreHeld
  BY DEF Init, AbsentLog, OlderAreSaved, NewAreHeld
<1>2. \A p \in PassIds : OpenLogs(p) = {}
  BY DEF Init, AbsentLog, OpenLogs, LogsOf
<1>3. OpenLogOK
  BY <1>2 DEF Init, AbsentPass, OpenLogOK
<1>4. \A w \in Workers : UpToDate(w)
  BY DEF Init, Idle, UpToDate, ValidateStages
<1>5. QED
  BY <1>1, <1>3, <1>4 DEF GInv

(* What the request w validates when it is in one of those stages.         *)
LEMMA Validating ==
  ASSUME IInv, NEW w \in Workers, req[w].stage \in ValidateStages
  PROVE  /\ req[w].pass \in PassIds
         /\ passes[req[w].pass].status \in PassStatus
         /\ passes[req[w].pass] \in PassRow
         /\ req[w].stage \in {"enter", "leave"} =>
              /\ req[w].log \in LogIds
              /\ logs[req[w].log] \in LogRow
              /\ logs[req[w].log].pass = req[w].pass
         /\ req[w].stage = "enter" => logs[req[w].log].status = "new"
<1>1. StageOK(w) /\ TypeOK
  BY DEF IInv, RequestsOK
<1>2. req[w].pass \in PassIds /\ passes[req[w].pass].status # "absent"
  BY <1>1 DEF StageOK, PassOK
<1>3. passes[req[w].pass] \in PassRow
  BY <1>1, <1>2, PassFields
<1>4. req[w].stage \in {"enter", "leave"} =>
        /\ req[w].log \in LogIds /\ logs[req[w].log].status # "absent"
        /\ logs[req[w].log].pass = req[w].pass
  BY <1>1 DEF StageOK, LogOK, Saved
<1>5. QED
  BY <1>1, <1>2, <1>3, <1>4, LogFields DEF StageOK, LogOK, PassRow

(* A step that writes no log and leaves Status alone, except that a pass   *)
(* may be issued.                                                          *)
LEMMA GQuiet ==
  ASSUME IInv, GInv, UNCHANGED logs,
         \A p \in PassIds :
           \/ passes'[p].status = passes[p].status
           \/ passes[p].status = "absent" /\ passes'[p].status = "Approved",
         \A v \in Workers :
           \/ req'[v] = req[v]
           \/ req[v].stage # "enter" /\ req'[v].stage \notin ValidateStages
           \/ /\ req[v].stage = "idle" /\ req'[v].stage = "lastLog"
              /\ req'[v].status = passes'[req'[v].pass].status
  PROVE  GInv'
<1>1. \A p : OpenLogs(p)' = OpenLogs(p) /\ LogsOf(p)' = LogsOf(p)
  BY DEF OpenLogs, LogsOf
<1>2. OlderAreSaved'
  BY DEF GInv, OlderAreSaved
<1>3. NewAreHeld'
  BY DEF GInv, NewAreHeld
<1>4. OpenLogOK'
  BY <1>1 DEF GInv, OpenLogOK, IsLast
<1>5. ASSUME NEW v \in Workers PROVE UpToDate(v)'
  <2>1. CASE req'[v] = req[v] /\ req[v].stage \in ValidateStages
    <3>1. req[v].pass \in PassIds /\ passes[req[v].pass].status # "absent"
      BY <2>1, Validating DEF PassStatus
    <3>2. passes'[req[v].pass].status = passes[req[v].pass].status
      BY <3>1
    <3>3. UpToDate(v)
      BY DEF GInv
    <3>4. QED
      BY <1>1, <2>1, <3>2, <3>3 DEF UpToDate
  <2>2. CASE req'[v].stage \notin ValidateStages
    BY <2>2 DEF UpToDate, ValidateStages
  <2>3. CASE req'[v].stage = "lastLog" /\ req'[v].status = passes'[req'[v].pass].status
    BY <2>3 DEF UpToDate
  <2>4. QED
    BY <2>1, <2>2, <2>3
<1>6. QED
  BY <1>2, <1>3, <1>4, <1>5 DEF GInv

LEMMA GIssueLoadHost ==
  ASSUME IInv, GInv, NEW w \in Workers, NEW s \in Students, IssueLoadHost(w, s)
  PROVE  GInv'
<1> DEFINE new == [Idle EXCEPT !.stage = "issue", !.host = s]
<1>1. Becomes(w, new) /\ new.stage = "issue" /\ UNCHANGED <<passes, logs>> /\ req[w].stage = "idle"
  BY DEF IssueLoadHost, Idle
<1> HIDE DEF new
<1>2. req'[w].stage = "issue" /\ \A v \in Workers : v # w => req'[v] = req[v]
  BY <1>1, Becoming DEF IInv
<1>3. QED
  BY <1>1, <1>2, GQuiet DEF ValidateStages

LEMMA GIssueSave ==
  ASSUME IInv, GInv, NEW w \in Workers, NEW p \in PassIds, NEW window \in Windows,
         IssueSave(w, p, window)
  PROVE  GInv'
<1>1. \A q \in PassIds :
        \/ passes'[q].status = passes[q].status
        \/ passes[q].status = "absent" /\ passes'[q].status = "Approved"
  BY DEF IssueSave, IInv, TypeOK
<1>2. req'[w].stage = "idle" /\ \A v \in Workers : v # w => req'[v] = req[v]
  BY Becoming, IdleIsOK DEF IInv, IssueSave, Ends
<1>3. QED
  BY <1>1, <1>2, GQuiet DEF IssueSave, ValidateStages

LEMMA GValidateLoadPass ==
  ASSUME IInv, GInv, NEW w \in Workers, NEW p \in PassIds, ValidateLoadPass(w, p)
  PROVE  GInv'
<1> DEFINE new == [Idle EXCEPT !.stage = "lastLog", !.pass = p, !.status = passes[p].status]
<1>1. /\ Becomes(w, new) /\ new.stage = "lastLog" /\ new.pass = p
      /\ new.status = passes[p].status /\ UNCHANGED <<passes, logs>> /\ req[w].stage = "idle"
  BY DEF ValidateLoadPass, Idle
<1> HIDE DEF new
<1>2. /\ req'[w].stage = "lastLog" /\ req'[w].status = passes'[req'[w].pass].status
      /\ \A v \in Workers : v # w => req'[v] = req[v]
  BY <1>1, Becoming DEF IInv
<1>3. QED
  BY <1>1, <1>2, GQuiet

(* An entry: the latest log is closed, so none is open; and nobody else    *)
(* has constructed one, so every log of the pass is stored.                *)
LEMMA GConstructLog ==
  ASSUME IInv, GInv, OneValidates, NEW w \in Workers, NEW l \in LogIds,
         req[w].stage = "lastLog", logs[l].status = "absent",
         \A k \in LogIds : IsLast(k, req[w].pass) => logs[k].status = "closed",
         logs' = [logs EXCEPT ![l] =
           [status |-> "new", pass |-> req[w].pass,
            older |-> {k \in LogIds : logs[k].pass = req[w].pass}]],
         Becomes(w, [req[w] EXCEPT !.stage = "enter", !.log = l]),
         UNCHANGED <<hosts, passes>>
  PROVE  GInv'
<1> DEFINE p == req[w].pass
           new == [req[w] EXCEPT !.stage = "enter", !.log = l]
<1>1. p \in PassIds /\ logs[l] = AbsentLog
  BY Validating, LogFields DEF IInv, ValidateStages, LogRow
<1>2. /\ new.stage = "enter" /\ new.log = l /\ new.pass = p /\ new.status = req[w].status
  BY RequestFields DEF IInv, Request
<1>3. Becomes(w, new)
  OBVIOUS
<1> HIDE DEF new
<1>4. req'[w] = new /\ \A v \in Workers : v # w => req'[v] = req[v] /\ req[v].stage \notin ValidateStages
  BY <1>3, Becoming DEF IInv, OneValidates, ValidateStages
<1>5. /\ logs'[l].status = "new" /\ logs'[l].older = {k \in LogIds : logs[k].pass = p}
      /\ \A k \in LogIds \ {l} : logs'[k] = logs[k]
  BY DEF IInv, TypeOK
<1>6. \A k \in LogIds : logs[k].status # "new"
  BY <1>4 DEF GInv, NewAreHeld, ValidateStages
<1>7. \A k \in LogIds : logs[k].pass = p => logs[k].status \in Saved
  BY <1>1, <1>6, LogFields, NullsAreNotRows DEF IInv, AbsentLog, LogRow
<1>8. OlderAreSaved'
  <2> SUFFICES ASSUME NEW k \in LogIds, NEW j \in LogIds, j \in logs'[k].older
               PROVE  logs'[j].status \in Saved
    BY DEF OlderAreSaved
  <2>1. logs[j].status \in Saved
    BY <1>5, <1>7 DEF GInv, OlderAreSaved
  <2>2. QED
    BY <1>5, <2>1 DEF Saved
<1>9. NewAreHeld'
  BY <1>2, <1>4, <1>5, <1>6 DEF NewAreHeld
<1>10. \A q : LogsOf(q)' = LogsOf(q) /\ OpenLogs(q)' = OpenLogs(q)
  BY <1>5 DEF LogsOf, OpenLogs
<1>11. OpenLogOK'
  <2>1. \A q, j : j \in OpenLogs(q) /\ IsLast(j, q) => IsLast(j, q)'
    BY <1>5, <1>10 DEF IsLast, LogsOf
  <2>2. QED
    BY <1>10, <2>1 DEF GInv, OpenLogOK
<1>12. OpenLogs(p) = {}
  BY <1>1 DEF GInv, OpenLogOK, OpenLogs, LogsOf
<1>13. UpToDate(w)'
  <2>1. UpToDate(w)
    BY DEF GInv
  <2>2. req'[w].status = passes'[req'[w].pass].status
    BY <1>2, <1>4, <2>1 DEF UpToDate, ValidateStages
  <2>3. (OpenLogs(req[w].pass))' = {}
    BY <1>2, <1>4, <1>10, <1>12
  <2>4. QED
    BY <1>2, <1>4, <2>2, <2>3 DEF UpToDate
<1>14. \A v \in Workers : v # w => UpToDate(v)'
  BY <1>4 DEF UpToDate, ValidateStages
<1>15. QED
  BY <1>8, <1>9, <1>11, <1>13, <1>14 DEF GInv

(* An exit: the log found is open.                                         *)
LEMMA GFindLog ==
  ASSUME IInv, GInv, NEW w \in Workers, NEW l \in LogIds,
         req[w].stage = "lastLog", logs[l].status = "open",
         Becomes(w, [req[w] EXCEPT !.stage = "leave", !.log = l]),
         UNCHANGED <<hosts, passes, logs>>
  PROVE  GInv'
<1> DEFINE new == [req[w] EXCEPT !.stage = "leave", !.log = l]
<1>1. /\ new.stage = "leave" /\ new.log = l /\ new.pass = req[w].pass
      /\ new.status = req[w].status
  BY RequestFields DEF IInv, Request
<1>2. Becomes(w, new)
  OBVIOUS
<1> HIDE DEF new
<1>3. req'[w] = new /\ \A v \in Workers : v # w => req'[v] = req[v]
  BY <1>2, Becoming DEF IInv
<1>4. OlderAreSaved'
  BY DEF GInv, OlderAreSaved
<1>5. NewAreHeld'
  <2> SUFFICES ASSUME NEW k \in LogIds, logs[k].status = "new"
               PROVE  \E v \in Workers : req'[v].stage = "enter" /\ req'[v].log = k
    BY DEF NewAreHeld
  <2>1. PICK v \in Workers : req[v].stage = "enter" /\ req[v].log = k
    BY DEF GInv, NewAreHeld
  <2>2. v # w
    BY <2>1
  <2>3. QED
    BY <1>3, <2>1, <2>2
<1>6. \A p : LogsOf(p)' = LogsOf(p) /\ OpenLogs(p)' = OpenLogs(p)
  BY DEF LogsOf, OpenLogs
<1>7. OpenLogOK'
  BY <1>6 DEF GInv, OpenLogOK, IsLast
<1>8. ASSUME NEW v \in Workers PROVE UpToDate(v)'
  <2>1. UpToDate(v)
    BY DEF GInv
  <2>2. CASE v = w
    BY <1>1, <1>3, <2>1, <2>2 DEF UpToDate, ValidateStages
  <2>3. CASE v # w
    BY <1>3, <1>6, <2>1, <2>3 DEF UpToDate
  <2>4. QED
    BY <2>2, <2>3
<1>9. QED
  BY <1>4, <1>5, <1>7, <1>8 DEF GInv

LEMMA GValidateLoadLog ==
  ASSUME IInv, GInv, OneValidates, NEW w \in Workers, ValidateLoadLog(w)
  PROVE  GInv'
BY GConstructLog, GFindLog DEF ValidateLoadLog

(* The validation w saves the log l and the pass p.                        *)
Saves(w, l, p, stored, status) ==
  /\ req[w].stage \in {"enter", "leave"}
  /\ l = req[w].log /\ p = req[w].pass
  /\ logs' = [logs EXCEPT ![l].status = stored]
  /\ passes' = [passes EXCEPT ![p].status = Column(@, req[w].status, status)]
  /\ Ends(w)

(* What is stored after that, and which logs of the pass are open then.    *)
Recorded(l, p, stored, status) ==
  /\ p \in PassIds /\ l \in LogIds /\ logs[l].pass = p
  /\ logs'[l].status = stored /\ logs'[l].pass = p /\ logs'[l].older = logs[l].older
  /\ \A k \in LogIds \ {l} : logs'[k] = logs[k]
  /\ passes'[p].status = status /\ passes' = [passes EXCEPT ![p].status = status]
  /\ \A q \in PassIds \ {p} : passes'[q] = passes[q]
  /\ \A v \in Workers : req'[v].stage \notin ValidateStages
  /\ LogsOf(p)' = LogsOf(p) \cup {l}
  /\ \A q \in PassIds \ {p} : LogsOf(q)' = LogsOf(q) /\ OpenLogs(q)' = OpenLogs(q)

Toggled(l, p, stored) ==
  /\ OpenLogs(p) = IF stored = "open" THEN {} ELSE {l}
  /\ OpenLogs(p)' = IF stored = "open" THEN {l} ELSE {}

(* The validation in flight saves: afterwards no request validates, and    *)
(* its log is the one stored with the new status.                          *)
LEMMA SaveEffect ==
  ASSUME IInv, GInv, OneValidates, NEW w \in Workers,
         NEW l, NEW p, NEW stored \in Saved, NEW status \in Used,
         Saves(w, l, p, stored, status)
  PROVE  Recorded(l, p, stored, status)
<1> DEFINE log == [logs[l] EXCEPT !.status = stored]
           pass == [passes[p] EXCEPT !.status = status]
<1> USE DEF Saves
<1>1. /\ p \in PassIds /\ l \in LogIds /\ logs[l] \in LogRow /\ logs[l].pass = p
      /\ passes[p] \in PassRow
  BY Validating DEF ValidateStages
<1>2. Column(passes[p].status, req[w].status, status) = status
  BY DEF GInv, UpToDate, Column, ValidateStages
<1>3. log.status = stored /\ log.pass = p /\ log.older = logs[l].older
  BY <1>1 DEF LogRow
<1>4. pass.status = status
  BY <1>1 DEF PassRow
<1>5. logs' = [logs EXCEPT ![l] = log] /\ passes' = [passes EXCEPT ![p] = pass]
  BY <1>1, <1>2 DEF IInv, TypeOK
<1>6. passes' = [passes EXCEPT ![p].status = status]
  BY <1>5
<1> HIDE DEF log, pass
<1>7. logs'[l] = log /\ \A k \in LogIds \ {l} : logs'[k] = logs[k]
  BY <1>1, <1>5 DEF IInv, TypeOK
<1>8. passes'[p] = pass /\ \A q \in PassIds \ {p} : passes'[q] = passes[q]
  BY <1>1, <1>5 DEF IInv, TypeOK
<1>9. ASSUME NEW v \in Workers PROVE req'[v].stage \notin ValidateStages
  BY Becoming, IdleIsOK DEF IInv, Ends, OneValidates, ValidateStages
<1>10. LogsOf(p)' = LogsOf(p) \cup {l}
  BY <1>1, <1>3, <1>7 DEF LogsOf, Saved
<1>11. ASSUME NEW q \in PassIds \ {p}
       PROVE  LogsOf(q)' = LogsOf(q) /\ OpenLogs(q)' = OpenLogs(q)
  BY <1>1, <1>3, <1>7 DEF LogsOf, OpenLogs
<1>12. QED
  BY <1>1, <1>3, <1>4, <1>6, <1>7, <1>8, <1>9, <1>10, <1>11 DEF Recorded

(* Only whether the log saved is open has to be looked at.                 *)
LEMMA GSave ==
  ASSUME IInv, GInv, OneValidates, NEW w \in Workers,
         NEW l, NEW p, NEW stored \in Saved, NEW status \in Used,
         Saves(w, l, p, stored, status),
         status = "Entered" <=> stored = "open",
         stored = "open" <=> req[w].stage = "enter"
  PROVE  GInv' /\ Toggled(l, p, stored)
<1>0. Recorded(l, p, stored, status)
  BY SaveEffect
<1> USE DEF Recorded
<1>1. OlderAreSaved'
  <2> SUFFICES ASSUME NEW k \in LogIds, NEW j \in LogIds, j \in logs'[k].older
               PROVE  logs'[j].status \in Saved
    BY DEF OlderAreSaved
  <2>1. logs[j].status \in Saved
    BY <1>0 DEF GInv, OlderAreSaved
  <2>2. QED
    BY <1>0, <2>1
<1>2. NewAreHeld'
  <2> SUFFICES ASSUME NEW k \in LogIds, logs'[k].status = "new" PROVE FALSE
    BY DEF NewAreHeld
  <2>1. k # l /\ logs[k].status = "new"
    BY <1>0 DEF Saved
  <2>2. QED
    BY <2>1 DEF Saves, GInv, NewAreHeld, OneValidates, ValidateStages
<1>3. OpenLogs(p) = IF stored = "open" THEN {} ELSE {l}
  <2>1. CASE req[w].stage = "enter"
    BY <2>1 DEF Saves, GInv, UpToDate
  <2>2. CASE req[w].stage = "leave"
    <3>1. l \in OpenLogs(p)
      BY <1>0, <2>2 DEF Saves, GInv, UpToDate, OpenLogs, LogsOf
    <3>2. QED
      BY <1>0, <2>2, <3>1 DEF GInv, OpenLogOK
  <2>3. QED
    BY <2>1, <2>2 DEF Saves
<1>4. OpenLogs(p)' = IF stored = "open" THEN {l} ELSE {}
  BY <1>0, <1>3 DEF OpenLogs, LogsOf, Saved
<1>5. stored = "open" => \A k \in LogIds : l \notin logs'[k].older
  <2>1. stored = "open" => logs[l].status \notin Saved
    BY Validating DEF Saves, ValidateStages, Saved
  <2>2. QED
    BY <1>0, <2>1 DEF GInv, OlderAreSaved
<1>6. ASSUME NEW q \in PassIds, NEW j \in OpenLogs(q)' PROVE IsLast(j, q)'
  <2>1. CASE q = p
    BY <1>0, <1>4, <1>5, <1>6, <2>1 DEF IsLast, LogsOf
  <2>2. CASE q # p
    <3>1. IsLast(j, q)
      BY <1>0, <1>6, <2>2 DEF GInv, OpenLogOK
    <3>2. j # l /\ \A k \in LogsOf(q) : logs'[k] = logs[k]
      BY <1>0, <2>2, <3>1 DEF IsLast, LogsOf
    <3>3. QED
      BY <1>0, <2>2, <3>1, <3>2 DEF IsLast
  <2>3. QED
    BY <2>1, <2>2
<1>7. OpenLogOK'
  BY <1>0, <1>4, <1>6 DEF GInv, OpenLogOK
<1>8. \A v \in Workers : UpToDate(v)'
  BY <1>0 DEF UpToDate, ValidateStages
<1>9. QED
  BY <1>1, <1>2, <1>3, <1>4, <1>7, <1>8 DEF GInv, Toggled

LEMMA EnterIsSave ==
  ASSUME NEW w \in Workers, EnterSave(w)
  PROVE  \E l, p : Saves(w, l, p, "open", "Entered") /\ req[w].stage = "enter"
BY DEF EnterSave, Saves

LEMMA LeaveIsSave ==
  ASSUME NEW w \in Workers, LeaveSave(w)
  PROVE  \E l, p : Saves(w, l, p, "closed", "Exited") /\ req[w].stage = "leave"
BY DEF LeaveSave, Saves

LEMMA GEnterOrLeave ==
  ASSUME IInv, GInv, OneValidates, NEW w \in Workers, EnterSave(w) \/ LeaveSave(w)
  PROVE  GInv'
<1>1. CASE EnterSave(w)
  <2>1. PICK l, p : Saves(w, l, p, "open", "Entered") /\ req[w].stage = "enter"
    BY <1>1, EnterIsSave
  <2>2. QED
    BY <2>1, GSave DEF Saved, Used
<1>2. CASE LeaveSave(w)
  <2>1. PICK l, p : Saves(w, l, p, "closed", "Exited") /\ req[w].stage = "leave"
    BY <1>2, LeaveIsSave
  <2>2. QED
    BY <2>1, GSave DEF Saved, Used
<1>3. QED
  BY <1>1, <1>2

(* A log that was never saved leaves no trace: no other log knew it.       *)
LEMMA Forgetting ==
  ASSUME IInv, GInv, NEW w \in Workers, Abort(w), req[w].stage = "enter",
         NEW l, l = req[w].log
  PROVE  /\ l \in LogIds /\ logs[l].status = "new" /\ logs'[l] = AbsentLog
         /\ \A k \in LogIds \ {l} :
              /\ logs'[k].status = logs[k].status /\ logs'[k].pass = logs[k].pass
              /\ logs'[k].older = logs[k].older
<1>1. l \in LogIds /\ logs[l].status = "new"
  BY Validating DEF ValidateStages
<1>2. logs' = Without(l)
  BY DEF Abort
<1>3. logs'[l] = AbsentLog
  BY <1>1, <1>2 DEF Without
<1>4. ASSUME NEW k \in LogIds \ {l}
      PROVE  /\ logs'[k].status = logs[k].status /\ logs'[k].pass = logs[k].pass
             /\ logs'[k].older = logs[k].older
  <2>1. logs'[k] = [logs[k] EXCEPT !.older = @ \ {l}]
    BY <1>2 DEF Without
  <2>2. l \notin logs[k].older
    BY <1>1 DEF GInv, OlderAreSaved, Saved
  <2>3. CASE logs[k] = AbsentLog
    BY <2>1, <2>2, <2>3 DEF AbsentLog
  <2>4. CASE logs[k] \in LogRow
    BY <2>1, <2>2, <2>4 DEF LogRow
  <2>5. QED
    BY <2>3, <2>4, LogFields DEF IInv
<1>5. QED
  BY <1>1, <1>3, <1>4

LEMMA GAbort ==
  ASSUME IInv, GInv, NEW w \in Workers, Abort(w)
  PROVE  GInv'
<1>1. req'[w].stage = "idle" /\ \A v \in Workers : v # w => req'[v] = req[v]
  BY Becoming, IdleIsOK DEF IInv, Abort, Ends
<1>2. CASE req[w].stage # "enter"
  BY <1>1, <1>2, GQuiet DEF Abort, ValidateStages
<1>3. CASE req[w].stage = "enter"
  <2>1. PICK l : l = req[w].log
    OBVIOUS
  <2>2. /\ l \in LogIds /\ logs[l].status = "new" /\ logs'[l].status = "absent"
        /\ logs'[l].older = {}
        /\ \A k \in LogIds \ {l} :
             /\ logs'[k].status = logs[k].status /\ logs'[k].pass = logs[k].pass
             /\ logs'[k].older = logs[k].older
    BY <1>3, <2>1, Forgetting DEF AbsentLog
  <2>3. OlderAreSaved'
    BY <2>2 DEF GInv, OlderAreSaved, Saved
  <2>4. NewAreHeld'
    <3> SUFFICES ASSUME NEW k \in LogIds, logs'[k].status = "new"
                 PROVE  \E v \in Workers : req'[v].stage = "enter" /\ req'[v].log = k
      BY DEF NewAreHeld
    <3>1. k # l /\ logs[k].status = "new"
      BY <2>2
    <3>2. PICK v \in Workers : req[v].stage = "enter" /\ req[v].log = k
      BY <3>1 DEF GInv, NewAreHeld
    <3>3. QED
      BY <1>1, <2>1, <3>1, <3>2
  <2>5. \A p : LogsOf(p)' = LogsOf(p) /\ OpenLogs(p)' = OpenLogs(p)
    BY <2>2 DEF LogsOf, OpenLogs
  <2>6. \A p : \A j \in OpenLogs(p) : IsLast(j, p) => IsLast(j, p)'
    BY <2>2, <2>5 DEF IsLast, LogsOf
  <2>7. OpenLogOK'
    BY <2>5, <2>6 DEF Abort, GInv, OpenLogOK
  <2>8. ASSUME NEW v \in Workers PROVE UpToDate(v)'
    <3>1. CASE v = w
      BY <1>1, <3>1 DEF UpToDate, ValidateStages
    <3>2. CASE v # w
      <4>1. UpToDate(v) /\ req'[v] = req[v] /\ passes' = passes
        BY <1>1, <3>2 DEF GInv, Abort
      <4>2. req[v].stage = "leave" => req[v].log \in LogIds
        BY Validating DEF ValidateStages
      <4>3. QED
        BY <2>2, <2>5, <4>1, <4>2 DEF UpToDate
    <3>3. QED
      BY <3>1, <3>2
  <2>9. QED
    BY <2>3, <2>4, <2>7, <2>8 DEF GInv
<1>4. QED
  BY <1>2, <1>3

LEMMA GTimePasses ==
  ASSUME IInv, GInv, NEW p \in PassIds, TimePasses(p)
  PROVE  GInv'
<1>1. passes[p] \in PassRow
  BY PassFields DEF IInv, TimePasses
<1>2. \A q \in PassIds : passes'[q].status = passes[q].status
  BY <1>1 DEF TimePasses, IInv, TypeOK, PassRow
<1>3. QED
  BY <1>2, GQuiet DEF TimePasses

LEMMA GNext == IInv /\ GInv /\ OneValidates /\ [Next]_vars => GInv'
<1> SUFFICES ASSUME IInv, GInv, OneValidates, [Next]_vars PROVE GInv'
  OBVIOUS
<1>1. CASE UNCHANGED vars
  BY <1>1, GQuiet DEF vars
<1>2. ASSUME NEW w \in Workers, Start(w) PROVE GInv'
  <2>1. ASSUME NEW s \in Students, DeleteUser(w, s) PROVE GInv'
    BY <2>1, GQuiet DEF DeleteUser
  <2>2. QED
    BY <1>2, <2>1, GIssueLoadHost, GValidateLoadPass DEF Start
<1>3. ASSUME NEW w \in Workers, Continue(w) PROVE GInv'
  BY <1>3, GIssueSave, GValidateLoadLog, GEnterOrLeave, GAbort DEF Continue, Validate
<1>4. QED
  BY <1>1, <1>2, <1>3, GTimePasses DEF Next

LEMMA GateInvariant == Spec /\ []OneValidates => []GInv
<1>1. QED
  BY GInit, GNext, Invariant, PTL DEF Spec

(* While validations do not overlap, a pass is never used for a second     *)
(* entry before its exit is recorded.                                      *)
THEOREM NoSecondEntry == Spec /\ []OneValidates => []OneVisitAtATime
<1>1. GInv => OneVisitAtATime
  <2> SUFFICES ASSUME GInv, NEW p \in PassIds PROVE Cardinality(OpenLogs(p)) <= 1
    BY DEF OneVisitAtATime
  <2>1. CASE OpenLogs(p) = {}
    BY <2>1, FS_EmptySet
  <2>2. CASE OpenLogs(p) # {}
    <3>1. PICK l : l \in OpenLogs(p)
      BY <2>2
    <3>2. OpenLogs(p) = {l}
      BY <3>1 DEF GInv, OpenLogOK
    <3>3. QED
      BY <3>2, FS_Singleton
  <2>3. QED
    BY <2>1, <2>2
<1>2. QED
  BY <1>1, GateInvariant, PTL

(* While validations do not overlap, the Status the guard sees says        *)
(* whether the guest is inside.                                            *)
THEOREM StatusTellsWhoIsInside == Spec /\ []OneValidates => []StatusMatchesLog
<1>1. IInv /\ GInv => StatusMatchesLog
  BY DEF IInv, UsedMeansLogged, GInv, OpenLogOK, StatusMatchesLog
<1>2. QED
  BY <1>1, GateInvariant, Invariant, PTL

(***************************************************************************)
(* The refinement.  A service with a single worker deletes no host between *)
(* the reads of a request and its save, so the host it has seen is still   *)
(* there when the pass is issued or the passage recorded.                  *)
(***************************************************************************)
OneWorker == \A v, w \in Workers : v = w

HostStays(w) ==
  /\ req[w].stage = "issue" => hosts[req[w].host] = "active"
  /\ req[w].stage \in ValidateStages => hosts[passes[req[w].pass].host] = "active"

HInv == \A w \in Workers : HostStays(w)

LEMMA HostStep ==
  ASSUME OneWorker, NEW w \in Workers, HostStays(w)'
  PROVE  HInv'
BY DEF OneWorker, HInv

LEMMA HNext == OneWorker /\ IInv /\ HInv /\ [Next]_vars => HInv'
<1> SUFFICES ASSUME OneWorker, IInv, HInv, [Next]_vars PROVE HInv'
  OBVIOUS
<1>1. CASE UNCHANGED vars
  BY <1>1 DEF vars, HInv, HostStays
<1>2. ASSUME NEW w \in Workers, NEW s \in Students, IssueLoadHost(w, s) PROVE HInv'
  <2> DEFINE new == [Idle EXCEPT !.stage = "issue", !.host = s]
  <2>1. Becomes(w, new) /\ new.stage = "issue" /\ new.host = s
    BY <1>2 DEF IssueLoadHost, Idle
  <2> HIDE DEF new
  <2>2. HostStays(w)'
    BY <1>2, <2>1, Becoming DEF IInv, IssueLoadHost, HostStays, ValidateStages
  <2>3. QED
    BY <2>2, HostStep
<1>3. ASSUME NEW w \in Workers, NEW p \in PassIds, ValidateLoadPass(w, p) PROVE HInv'
  <2> DEFINE new == [Idle EXCEPT !.stage = "lastLog", !.pass = p, !.status = passes[p].status]
  <2>1. Becomes(w, new) /\ new.stage = "lastLog" /\ new.pass = p
    BY <1>3 DEF ValidateLoadPass, Idle
  <2> HIDE DEF new
  <2>2. HostStays(w)'
    BY <1>3, <2>1, Becoming DEF IInv, ValidateLoadPass, HostStays, ValidateStages
  <2>3. QED
    BY <2>2, HostStep
<1>4. ASSUME NEW w \in Workers, NEW s \in Students, DeleteUser(w, s) PROVE HInv'
  <2>1. HostStays(w)'
    BY <1>4 DEF DeleteUser, HostStays, ValidateStages
  <2>2. QED
    BY <2>1, HostStep
<1>5. ASSUME NEW w \in Workers, ValidateLoadLog(w) PROVE HInv'
  <2> DEFINE new(stage, l) == [req[w] EXCEPT !.stage = stage, !.log = l]
  <2>1. \A stage, l : new(stage, l).stage = stage /\ new(stage, l).pass = req[w].pass
    BY RequestFields DEF IInv, Request
  <2>2. PICK stage, l : Becomes(w, new(stage, l)) /\ stage \in {"enter", "leave"}
    BY <1>5 DEF ValidateLoadLog
  <2> HIDE DEF new
  <2>3. req'[w].pass = req[w].pass /\ req'[w].stage \in {"enter", "leave"}
    BY <2>1, <2>2, Becoming DEF IInv
  <2>4. HostStays(w)'
    BY <1>5, <2>3 DEF HInv, HostStays, ValidateLoadLog, ValidateStages
  <2>5. QED
    BY <2>4, HostStep
<1>6. ASSUME NEW w \in Workers, Ends(w) PROVE HInv'
  <2>1. HostStays(w)'
    BY <1>6, Becoming, IdleIsOK DEF IInv, Ends, HostStays, ValidateStages
  <2>2. QED
    BY <2>1, HostStep
<1>7. ASSUME NEW p \in PassIds, TimePasses(p) PROVE HInv'
  <2>1. passes[p] \in PassRow
    BY <1>7, PassFields DEF IInv, TimePasses
  <2>2. \A q \in PassIds : passes'[q].host = passes[q].host
    BY <1>7, <2>1 DEF TimePasses, IInv, TypeOK, PassRow
  <2>3. QED
    BY <1>7, <2>2, Validating DEF TimePasses, HInv, HostStays
<1>8. QED
  BY <1>1, <1>2, <1>3, <1>4, <1>5, <1>6, <1>7
     DEF Next, Start, Continue, Validate, IssueSave, EnterSave, LeaveSave, Abort

LEMMA SerialValidations ==
  ASSUME OneWorker
  PROVE  OneValidates
BY DEF OneWorker, OneValidates

LEMMA SerialInvariant ==
  ASSUME OneWorker
  PROVE  Spec => [](IInv /\ GInv /\ HInv)
<1>1. Init => HInv
  BY DEF Init, Idle, HInv, HostStays, ValidateStages
<1>2. IInv /\ HInv /\ [Next]_vars => HInv'
  BY HNext
<1>3. OneValidates
  BY SerialValidations
<1>4. QED
  BY <1>1, <1>2, <1>3, GateInvariant, Invariant, PTL DEF Spec

(* What the Gate sees of the logs: who is inside, and the visits completed.*)
Inside == {p \in PassIds : OpenLogs(p) # {}}
Visits == [p \in PassIds |-> Cardinality(LogsOf(p) \ OpenLogs(p))]

LEMMA UnseenByGate ==
  ASSUME \A p \in PassIds : LogsOf(p)' = LogsOf(p) /\ OpenLogs(p)' = OpenLogs(p)
  PROVE  UNCHANGED <<Inside, Visits>>
BY DEF Inside, Visits

LEMMA EntryEnters ==
  ASSUME IInv, GInv, HInv, OneValidates, NEW w \in Workers, EnterSave(w)
  PROVE  G!Next
<1>1. PICK l, p : Saves(w, l, p, "open", "Entered") /\ req[w].stage = "enter"
  BY EnterIsSave
<1>2. Recorded(l, p, "open", "Entered") /\ Toggled(l, p, "open")
  BY <1>1, SaveEffect, GSave DEF Saved, Used
<1>3. p \in PassIds /\ p \notin Inside /\ OpenLogs(p) = {} /\ OpenLogs(p)' = {l}
  BY <1>2 DEF Recorded, Toggled, Inside
<1>4. Inside' = Inside \cup {p}
  BY <1>2, <1>3 DEF Recorded, Inside
<1>5. l \notin LogsOf(p)
  BY <1>1, Validating DEF Saves, ValidateStages, LogsOf
<1>6. \A q \in PassIds : LogsOf(q)' \ OpenLogs(q)' = LogsOf(q) \ OpenLogs(q)
  BY <1>2, <1>3, <1>5 DEF Recorded
<1>7. Visits' = Visits
  BY <1>6 DEF Visits
<1>8. G!Usable(p)
  <2>1. p = req[w].pass /\ req[w].stage \in ValidateStages
    BY <1>1 DEF Saves, ValidateStages
  <2>2. StageOK(w)
    BY DEF IInv, RequestsOK
  <2>3. QED
    BY <2>1, <2>2 DEF G!Usable, HInv, HostStays, StageOK, PassOK
<1>9. G!Enter(p)
  BY <1>2, <1>3, <1>4, <1>7, <1>8 DEF G!Enter, Inside, Visits, Recorded, EnterSave
<1>10. QED
  BY <1>3, <1>9 DEF G!Next

LEMMA ExitLeaves ==
  ASSUME IInv, GInv, HInv, OneValidates, NEW w \in Workers, LeaveSave(w)
  PROVE  G!Next
<1>1. PICK l, p : Saves(w, l, p, "closed", "Exited") /\ req[w].stage = "leave"
  BY LeaveIsSave
<1>2. Recorded(l, p, "closed", "Exited") /\ Toggled(l, p, "closed")
  BY <1>1, SaveEffect, GSave DEF Saved, Used
<1>3. p \in PassIds /\ p \in Inside /\ OpenLogs(p) = {l} /\ OpenLogs(p)' = {}
  BY <1>2 DEF Recorded, Toggled, Inside
<1>4. Inside' = Inside \ {p}
  BY <1>2, <1>3 DEF Recorded, Inside
<1>5. l \in LogsOf(p) /\ LogsOf(p)' = LogsOf(p)
  BY <1>2, <1>3 DEF Recorded, OpenLogs
<1>6. \A q \in PassIds \ {p} : LogsOf(q)' \ OpenLogs(q)' = LogsOf(q) \ OpenLogs(q)
  BY <1>2 DEF Recorded
<1>7. Cardinality(LogsOf(p)' \ OpenLogs(p)') = Cardinality(LogsOf(p) \ OpenLogs(p)) + 1
  <2>1. IsFiniteSet(LogsOf(p))
    BY LogsAreFinite, FS_Subset DEF LogsOf
  <2>2. /\ Cardinality(LogsOf(p) \ {l}) = Cardinality(LogsOf(p)) - 1
        /\ Cardinality(LogsOf(p)) \in Nat
    BY <1>5, <2>1, FS_RemoveElement, FS_CardinalityType
  <2>3. LogsOf(p)' \ OpenLogs(p)' = LogsOf(p)
    BY <1>3, <1>5
  <2>4. QED
    BY <1>3, <2>2, <2>3
<1>8. Visits' = [Visits EXCEPT ![p] = @ + 1]
  BY <1>3, <1>6, <1>7 DEF Visits
<1>9. G!Usable(p)
  <2>1. p = req[w].pass /\ req[w].stage \in ValidateStages
    BY <1>1 DEF Saves, ValidateStages
  <2>2. StageOK(w)
    BY DEF IInv, RequestsOK
  <2>3. QED
    BY <2>1, <2>2 DEF G!Usable, HInv, HostStays, StageOK, PassOK
<1>10. G!Leave(p)
  BY <1>2, <1>3, <1>4, <1>8, <1>9 DEF G!Leave, Inside, Visits, Recorded, LeaveSave
<1>11. QED
  BY <1>3, <1>10 DEF G!Next

LEMMA IssueInvites ==
  ASSUME IInv, HInv, NEW w \in Workers, NEW p \in PassIds, NEW window \in Windows,
         IssueSave(w, p, window)
  PROVE  G!Next
<1>1. UNCHANGED <<Inside, Visits>>
  BY UnseenByGate DEF IssueSave, LogsOf, OpenLogs
<1>2. req[w].host \in Students /\ hosts[req[w].host] = "active"
  BY DEF IssueSave, IInv, RequestsOK, StageOK, HInv, HostStays
<1>3. G!Invite(p, req[w].host, window)
  BY <1>1, <1>2 DEF IssueSave, G!Invite, Inside, Visits
<1>4. QED
  BY <1>2, <1>3 DEF G!Next, Windows

(* Constructing a log that is not saved yet, or forgetting it, shows       *)
(* nothing to the Gate.                                                    *)
LEMMA UnsavedIsUnseen ==
  ASSUME IInv, GInv, NEW w \in Workers, ValidateLoadLog(w) \/ Abort(w)
  PROVE  UNCHANGED <<hosts, passes, Inside, Visits>>
<1>1. CASE UNCHANGED logs
  BY <1>1, UnseenByGate DEF ValidateLoadLog, Abort, LogsOf, OpenLogs
<1>2. ASSUME ValidateLoadLog(w), logs' # logs
      PROVE  \A p : LogsOf(p)' = LogsOf(p) /\ OpenLogs(p)' = OpenLogs(p)
  <2>1. PICK l \in LogIds, older \in SUBSET LogIds :
               /\ logs[l].status = "absent"
               /\ logs' = [logs EXCEPT ![l] =
                    [status |-> "new", pass |-> req[w].pass, older |-> older]]
    BY <1>2 DEF ValidateLoadLog
  <2>2. logs'[l].status = "new" /\ \A k \in LogIds \ {l} : logs'[k] = logs[k]
    BY <2>1 DEF IInv, TypeOK
  <2>3. QED
    BY <2>1, <2>2 DEF LogsOf, OpenLogs
<1>3. ASSUME Abort(w), logs' # logs
      PROVE  \A p : LogsOf(p)' = LogsOf(p) /\ OpenLogs(p)' = OpenLogs(p)
  <2>1. PICK l : l = req[w].log
    OBVIOUS
  <2>2. /\ logs[l].status = "new" /\ logs'[l].status = "absent"
        /\ \A k \in LogIds \ {l} :
             logs'[k].status = logs[k].status /\ logs'[k].pass = logs[k].pass
    BY <1>3, <2>1, Forgetting DEF Abort, AbsentLog
  <2>3. QED
    BY <2>2 DEF LogsOf, OpenLogs
<1>4. QED
  BY <1>1, <1>2, <1>3, UnseenByGate DEF ValidateLoadLog, Abort

(* Served one at a time, a validation is one visit begun or completed at   *)
(* the Gate, and every other request one of its steps or none.             *)
THEOREM SerialServiceImplementsGate ==
  ASSUME OneWorker
  PROVE  Spec => ImplementsGate
<1>1. Init => G!Init
  <2> SUFFICES ASSUME Init PROVE G!Init
    OBVIOUS
  <2>1. \A p \in PassIds : LogsOf(p) = {} /\ OpenLogs(p) = {}
    BY DEF Init, AbsentLog, LogsOf, OpenLogs
  <2>2. Inside = {}
    BY <2>1 DEF Inside
  <2>3. Visits = [p \in PassIds |-> 0]
    BY <2>1, FS_EmptySet DEF Visits
  <2>4. QED
    BY <2>2, <2>3 DEF Init, AbsentPass, Inside, Visits, G!Init
<1>2. IInv /\ GInv /\ HInv /\ [Next]_vars => [G!Next]_G!gate
  <2> SUFFICES ASSUME IInv, GInv, HInv, [Next]_vars PROVE [G!Next]_G!gate
    OBVIOUS
  <2>1. OneValidates
    BY SerialValidations
  <2>2. ASSUME UNCHANGED <<hosts, passes, Inside, Visits>> PROVE UNCHANGED G!gate
    BY <2>2 DEF G!gate, Inside, Visits
  <2>3. CASE UNCHANGED vars
    BY <2>2, <2>3, UnseenByGate DEF vars, LogsOf, OpenLogs
  <2>4. ASSUME NEW w \in Workers, Start(w) PROVE [G!Next]_G!gate
    <3>1. UNCHANGED <<Inside, Visits>>
      BY <2>4, UnseenByGate
         DEF Start, IssueLoadHost, DeleteUser, ValidateLoadPass, LogsOf, OpenLogs
    <3>2. ASSUME NEW s \in Students, DeleteUser(w, s) PROVE G!Next
      BY <3>1, <3>2 DEF DeleteUser, Inside, Visits, G!MoveOut, G!Next
    <3>3. QED
      BY <2>2, <2>4, <3>1, <3>2 DEF Start, IssueLoadHost, ValidateLoadPass
  <2>5. ASSUME NEW w \in Workers, Continue(w) PROVE [G!Next]_G!gate
    BY <2>1, <2>2, <2>5, IssueInvites, EntryEnters, ExitLeaves, UnsavedIsUnseen
       DEF Continue, Validate
  <2>6. ASSUME NEW p \in PassIds, TimePasses(p) PROVE G!Next
    <3>1. UNCHANGED <<Inside, Visits>>
      BY <2>6, UnseenByGate DEF TimePasses, LogsOf, OpenLogs
    <3>2. G!Turn(p)
      BY <2>6, <3>1 DEF TimePasses, Inside, Visits, G!Turn
    <3>3. QED
      BY <3>2 DEF G!Next
  <2>7. QED
    BY <2>3, <2>4, <2>5, <2>6 DEF Next
<1>3. QED
  BY <1>1, <1>2, SerialInvariant, PTL DEF Spec, ImplementsGate, G!Spec
=============================================================================
