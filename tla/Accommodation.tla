--------------------------- MODULE Accommodation ---------------------------
(***************************************************************************)
(* Who lives where: the parts of UserService that give and free a seat,    *)
(* and the relocation requests of RoomService.                             *)
(*                                                                         *)
(* A room has no column for its residents: a request that gives a seat     *)
(* counts the active users whose RoomId is the room, and saves the RoomId  *)
(* in a later round trip.  Nothing locks the room in between and nothing   *)
(* in the schema limits its residents, so requests interleave at every     *)
(* awaited query, as in Billing.  A worker is one request in flight.       *)
(*                                                                         *)
(* Op_Fault is a wrong variant of the operator Op that follows it: the     *)
(* project's mutants put it in Op's place to show which property notices.  *)
(***************************************************************************)
EXTENDS Integers, FiniteSets

CONSTANTS
  Students,       \* accounts with the role Student, existing or yet to be created
  Rooms,          \* seeded once; no operation adds, removes or edits a room
  Capacity,       \* Capacity[r]: Room.Capacity
  UnderRepair,    \* rooms with IsUnderRepair
  RelocationIds,  \* identities of relocation requests; bounds how many there are
  Workers,        \* requests that may be in flight at once
  NoRoom,         \* the null of User.RoomId
  NoStudent,      \* no student is being handled
  NoRelocation    \* no relocation request is being handled

ASSUME RoomsAreRows == Capacity \in [Rooms -> Nat] /\ UnderRepair \subseteq Rooms
ASSUME PopulationIsFinite == IsFiniteSet(Students) /\ IsFiniteSet(Workers) /\ Workers # {}
ASSUME NullsAreNotRows ==
  NoRoom \notin Rooms /\ NoStudent \notin Students /\ NoRelocation \notin RelocationIds

VARIABLES
  users,        \* table users: IsActive and RoomId of every student
  relocations,  \* table relocation_requests
  req           \* the request each worker is serving, with what it has read

vars == <<users, relocations, req>>

UserRow == [status : {"absent", "active", "deleted"}, room : Rooms \cup {NoRoom}]

RelocationRow ==
  [status : {"Pending", "Approved", "Rejected"}, user : Students, from : Rooms, to : Rooms]

AbsentRelocation ==
  [status |-> "absent", user |-> NoStudent, from |-> NoRoom, to |-> NoRoom]

Stages == {"idle", "admitSave", "requestRoom", "requestSave",
           "reviewRoom", "reviewUser", "reviewSave"}

Request == [stage    : Stages,
            student  : Students \cup {NoStudent},
            target   : Rooms \cup {NoRoom},  \* the room asked for
            room     : Rooms \cup {NoRoom},  \* RoomId of the student as tracked
            id       : RelocationIds \cup {NoRelocation},
            status   : {"absent", "Pending", "Approved", "Rejected"},  \* as loaded
            decision : {"Approved", "Rejected"}]

Idle == [stage |-> "idle", student |-> NoStudent, target |-> NoRoom, room |-> NoRoom,
         id |-> NoRelocation, status |-> "absent", decision |-> "Rejected"]

TypeOK ==
  /\ users \in [Students -> UserRow]
  /\ relocations \in [RelocationIds -> RelocationRow \cup {AbsentRelocation}]
  /\ req \in [Workers -> Request]

(* No student yet: the one DataSeeder puts in an empty room is a           *)
(* CreateUser.                                                             *)
Init ==
  /\ users = [s \in Students |-> [status |-> "absent", room |-> NoRoom]]
  /\ relocations = [q \in RelocationIds |-> AbsentRelocation]
  /\ req = [w \in Workers |-> Idle]

-----------------------------------------------------------------------------
(* What SaveChangesAsync writes to a column: nothing unless the tracked    *)
(* value was modified.                                                     *)
Column(stored, loaded, new) == IF new = loaded THEN stored ELSE new

(* Include(x => x.Residents.Where(resident => resident.IsActive))          *)
Residents(r) == {s \in Students : users[s].status = "active" /\ users[s].room = r}

(* EnsureRoomHasVacancy and EnsureRoomCanHostStudent, of the residents     *)
(* loaded.                                                                 *)
HasVacancy_OneTooMany(r, residents) ==
  r \notin UnderRepair /\ Cardinality(residents) <= Capacity[r]
HasVacancy_RepairIgnored(r, residents) == Cardinality(residents) < Capacity[r]
HasVacancy(r, residents) == r \notin UnderRepair /\ Cardinality(residents) < Capacity[r]

(* The guards of CreateRelocationRequestAsync on the student's RoomId.     *)
MayRequest_NoRoomAllowed(room, to) == room # to
MayRequest(room, to) == room # NoRoom /\ room # to

Becomes(w, r) == req' = [req EXCEPT ![w] = r]
Ends(w) == Becomes(w, Idle)

-----------------------------------------------------------------------------
(* CreateUserAsync for a student up to the room's residents.  The query    *)
(* for the email sees active users only.                                   *)
AdmitLoadRoom(w, s, r) ==
  /\ req[w].stage = "idle"
  /\ users[s].status # "active"
  /\ r \in Rooms => HasVacancy(r, Residents(r))
  /\ Becomes(w, [Idle EXCEPT !.stage = "admitSave", !.student = s, !.target = r])
  /\ UNCHANGED <<users, relocations>>

(* The insert fails on the unique index over Email if the address was ever *)
(* used, be it by a deleted account or by a request that came first.       *)
AdmitSave(w) ==
  /\ req[w].stage = "admitSave"
  /\ users' = IF users[req[w].student].status = "absent"
              THEN [users EXCEPT ![req[w].student] =
                     [status |-> "active", room |-> req[w].target]]
              ELSE users
  /\ Ends(w)
  /\ UNCHANGED relocations

(* CreateRelocationRequestAsync: authentication tracked the student's row, *)
(* so the RoomId it compares and records is the one read there.            *)
RequestLoadUser(w, s, to) ==
  /\ req[w].stage = "idle"
  /\ users[s].status = "active"
  /\ MayRequest(users[s].room, to)
  /\ Becomes(w, [Idle EXCEPT !.stage = "requestRoom", !.student = s,
                             !.target = to, !.room = users[s].room])
  /\ UNCHANGED <<users, relocations>>

(* The student is tracked with another room: even if moved to the target   *)
(* meanwhile, it does not show among the residents loaded.                 *)
RequestLoadRoom(w) ==
  /\ req[w].stage = "requestRoom"
  /\ LET to == req[w].target
     IN  Becomes(w, IF HasVacancy(to, Residents(to) \ {req[w].student})
                    THEN [req[w] EXCEPT !.stage = "requestSave"]
                    ELSE Idle)
  /\ UNCHANGED <<users, relocations>>

RequestSave(w, q) ==
  /\ req[w].stage = "requestSave"
  /\ relocations[q].status = "absent"
  /\ relocations' = [relocations EXCEPT ![q] =
       [status |-> "Pending", user |-> req[w].student,
        from |-> req[w].room, to |-> req[w].target]]
  /\ Ends(w)
  /\ UNCHANGED users

(* ReviewRelocationRequestAsync takes a request in any status; rejecting   *)
(* reads nothing more before it saves.                                     *)
ReviewLoadRelocation(w, q, decision) ==
  /\ req[w].stage = "idle"
  /\ relocations[q].status # "absent"
  /\ Becomes(w, [Idle EXCEPT
       !.stage = IF decision = "Approved" THEN "reviewRoom" ELSE "reviewSave",
       !.student = relocations[q].user, !.target = relocations[q].to, !.id = q,
       !.status = relocations[q].status, !.decision = decision])
  /\ UNCHANGED <<users, relocations>>

(* Loading the residents tracks the student too when it is one of them.    *)
ReviewLoadRoom(w) ==
  /\ req[w].stage = "reviewRoom"
  /\ LET to == req[w].target
     IN  Becomes(w, IF HasVacancy(to, Residents(to))
                    THEN [req[w] EXCEPT !.stage = "reviewUser",
                            !.room = IF req[w].student \in Residents(to) THEN to ELSE NoRoom]
                    ELSE Idle)
  /\ UNCHANGED <<users, relocations>>

(* FirstAsync throws when the student was deleted; a student already       *)
(* tracked keeps the RoomId it was loaded with.                            *)
ReviewLoadUser_DeletedToo(w) ==
  /\ req[w].stage = "reviewUser"
  /\ LET s == req[w].student
     IN  Becomes(w, [req[w] EXCEPT !.stage = "reviewSave",
                       !.room = IF req[w].room = req[w].target THEN @ ELSE users[s].room])
  /\ UNCHANGED <<users, relocations>>
ReviewLoadUser(w) ==
  /\ req[w].stage = "reviewUser"
  /\ LET s == req[w].student
     IN  Becomes(w, IF users[s].status = "active"
                    THEN [req[w] EXCEPT !.stage = "reviewSave",
                            !.room = IF req[w].room = req[w].target THEN @ ELSE users[s].room]
                    ELSE Idle)
  /\ UNCHANGED <<users, relocations>>

(* The decision and the new RoomId are saved in one transaction.           *)
ReviewSave_MoveOnly(w) ==
  /\ req[w].stage = "reviewSave"
  /\ users' = IF req[w].decision = "Approved"
              THEN [users EXCEPT ![req[w].student].room = Column(@, req[w].room, req[w].target)]
              ELSE users
  /\ Ends(w)
  /\ UNCHANGED relocations
ReviewSave_RejectMovesBack(w) ==
  /\ req[w].stage = "reviewSave"
  /\ relocations' = [relocations EXCEPT ![req[w].id].status =
                       Column(@, req[w].status, req[w].decision)]
  /\ users' = IF req[w].decision = "Approved"
              THEN [users EXCEPT ![req[w].student].room = Column(@, req[w].room, req[w].target)]
              ELSE [users EXCEPT ![req[w].student].room = relocations[req[w].id].from]
  /\ Ends(w)
ReviewSave(w) ==
  /\ req[w].stage = "reviewSave"
  /\ relocations' = [relocations EXCEPT ![req[w].id].status =
                       Column(@, req[w].status, req[w].decision)]
  /\ users' = IF req[w].decision = "Approved"
              THEN [users EXCEPT ![req[w].student].room = Column(@, req[w].room, req[w].target)]
              ELSE users
  /\ Ends(w)

(* DeleteUserAsync: the row stays and keeps its RoomId; being inactive it  *)
(* is no resident any more.                                                *)
DeleteUser(w, s) ==
  /\ req[w].stage = "idle"
  /\ users[s].status = "active"
  /\ users' = [users EXCEPT ![s].status = "deleted"]
  /\ UNCHANGED <<relocations, req>>

(* The client disconnects or the process stops before the save.            *)
Abort(w) ==
  /\ req[w].stage # "idle"
  /\ Ends(w)
  /\ UNCHANGED <<users, relocations>>

-----------------------------------------------------------------------------
Start(w) ==
  \/ \E s \in Students, r \in Rooms \cup {NoRoom} : AdmitLoadRoom(w, s, r)
  \/ \E s \in Students, to \in Rooms : RequestLoadUser(w, s, to)
  \/ \E q \in RelocationIds, decision \in {"Approved", "Rejected"} :
       ReviewLoadRelocation(w, q, decision)
  \/ \E s \in Students : DeleteUser(w, s)

Continue(w) ==
  \/ AdmitSave(w)
  \/ RequestLoadRoom(w)
  \/ \E q \in RelocationIds : RequestSave(w, q)
  \/ ReviewLoadRoom(w)
  \/ ReviewLoadUser(w)
  \/ ReviewSave(w)
  \/ Abort(w)

Next == \E w \in Workers : Start(w) \/ Continue(w)

Spec == Init /\ [][Next]_vars

-----------------------------------------------------------------------------
(* Properties that hold however many requests are in flight.               *)

(* How far the unlocked vacancy check can be off: every request in flight  *)
(* may have counted the same last free seat, so a room exceeds its         *)
(* capacity by at most one resident per further request, never more.       *)
OverbookingIsBounded ==
  \A r \in Rooms : Cardinality(Residents(r)) <= Capacity[r] + Cardinality(Workers) - 1

(* Nobody is placed in a room under repair, by admission or relocation.    *)
NobodyUnderRepair == \A s \in Students : users[s].room \notin UnderRepair

(* A resident is never moved except to a room they asked for: whatever     *)
(* reviews race, the new room is the target of a request of theirs.        *)
MovesAreRequested ==
  [][\A s \in Students :
       users[s].status = "active" /\ users'[s].room # users[s].room =>
         \E q \in RelocationIds : relocations[q].user = s /\ relocations[q].to = users'[s].room]_vars

-----------------------------------------------------------------------------
(* Properties of a service that serves one request at a time.              *)

(* No room holds more residents than its capacity.                         *)
NotOverbooked == \A r \in Rooms : Cardinality(Residents(r)) <= Capacity[r]

(* A resident who changed rooms finds the request recorded as approved.    *)
MovesAreApproved ==
  [][\A s \in Students :
       users[s].status = "active" /\ users'[s].room # users[s].room =>
         \E q \in RelocationIds : /\ relocations[q].user = s
                                  /\ relocations[q].to = users'[s].room
                                  /\ relocations'[q].status = "Approved"]_vars

-----------------------------------------------------------------------------
(* Served one at a time, requests implement Seats: the vacancy counted,    *)
(* the decision and the move are one step.                                 *)
S == INSTANCE Seats

ImplementsSeats == S!Spec
=============================================================================
