------------------------- MODULE AccommodationProofs -------------------------
(***************************************************************************)
(* Theorems about Accommodation for every value of its constants, in       *)
(* particular for any number of requests in flight; at the end, what a     *)
(* service with one request at a time adds.                                *)
(***************************************************************************)
EXTENDS Accommodation, FiniteSetTheorems, TLAPS

(***************************************************************************)
(* The structural invariant: types, and what a request in flight knows of  *)
(* the rows it handles.                                                    *)
(***************************************************************************)
RequestStages == {"requestRoom", "requestSave"}
ReviewStages == {"reviewRoom", "reviewUser", "reviewSave"}

StageOK(w) ==
  /\ req[w].stage = "admitSave" => req[w].student \in Students
  /\ req[w].stage \in RequestStages =>
       req[w].student \in Students /\ req[w].target \in Rooms /\ req[w].room \in Rooms
  /\ req[w].stage \in ReviewStages =>
       /\ req[w].id \in RelocationIds
       /\ relocations[req[w].id].status # "absent"
       /\ req[w].student = relocations[req[w].id].user
       /\ req[w].target = relocations[req[w].id].to

SInv == TypeOK /\ \A w \in Workers : StageOK(w)

(* What every step keeps of the relocation requests that exist.            *)
RelocationsKept ==
  \A q \in RelocationIds : relocations[q].status # "absent" =>
    /\ relocations'[q].status # "absent"
    /\ relocations'[q].user = relocations[q].user
    /\ relocations'[q].to = relocations[q].to

LEMMA RelocationFields ==
  ASSUME TypeOK, NEW q \in RelocationIds, relocations[q].status # "absent"
  PROVE  /\ relocations[q] \in RelocationRow
         /\ relocations[q].user \in Students
         /\ relocations[q].from \in Rooms
         /\ relocations[q].to \in Rooms
         /\ relocations[q].status \in {"Pending", "Approved", "Rejected"}
BY DEF TypeOK, RelocationRow, AbsentRelocation

LEMMA RequestFields ==
  ASSUME TypeOK, NEW w \in Workers
  PROVE  /\ req[w] \in Request
         /\ req[w].stage \in Stages
         /\ req[w].student \in Students \cup {NoStudent}
         /\ req[w].target \in Rooms \cup {NoRoom}
         /\ req[w].room \in Rooms \cup {NoRoom}
         /\ req[w].id \in RelocationIds \cup {NoRelocation}
         /\ req[w].status \in {"absent", "Pending", "Approved", "Rejected"}
         /\ req[w].decision \in {"Approved", "Rejected"}
BY DEF TypeOK, Request

(* Only the worker that takes the step has to be looked at.                *)
LEMMA StructuralStep ==
  ASSUME SInv, NEW w \in Workers, NEW r \in Request, Becomes(w, r),
         users' \in [Students -> UserRow],
         relocations' \in [RelocationIds -> RelocationRow \cup {AbsentRelocation}],
         RelocationsKept, StageOK(w)'
  PROVE  SInv'
<1>1. TypeOK'
  BY DEF SInv, TypeOK, Becomes
<1>2. ASSUME NEW v \in Workers PROVE StageOK(v)'
  <2>1. CASE v = w
    BY <2>1
  <2>2. CASE v # w
    <3>1. req'[v] = req[v] /\ StageOK(v)
      BY <2>2 DEF SInv, TypeOK, Becomes
    <3>2. QED
      BY <3>1 DEF StageOK, RelocationsKept
  <2>3. QED
    BY <2>1, <2>2
<1>3. QED
  BY <1>1, <1>2 DEF SInv

LEMMA IdleIsOK ==
  /\ Idle \in Request
  /\ \A w \in Workers : req'[w] = Idle => StageOK(w)'
BY DEF Idle, Request, Stages, StageOK, RequestStages, ReviewStages

LEMMA Becoming ==
  ASSUME SInv, NEW w \in Workers, NEW r, Becomes(w, r)
  PROVE  req'[w] = r /\ \A v \in Workers : v # w => req'[v] = req[v]
BY DEF SInv, TypeOK, Becomes

LEMMA StructInit == Init => SInv
<1> SUFFICES ASSUME Init PROVE SInv
  OBVIOUS
<1>1. TypeOK
  BY IdleIsOK DEF Init, TypeOK, UserRow
<1>2. ASSUME NEW w \in Workers PROVE StageOK(w)
  BY DEF Init, Idle, StageOK, RequestStages, ReviewStages
<1>3. QED
  BY <1>1, <1>2 DEF SInv

(* A step that writes no table.                                            *)
LEMMA ReadStep ==
  ASSUME SInv, NEW w \in Workers, NEW r \in Request, Becomes(w, r),
         UNCHANGED <<users, relocations>>, StageOK(w)'
  PROVE  SInv'
<1>1. RelocationsKept
  BY DEF RelocationsKept
<1>2. QED
  BY <1>1, StructuralStep DEF SInv, TypeOK

LEMMA StructAdmitLoadRoom ==
  ASSUME SInv, NEW w \in Workers, NEW s \in Students, NEW r \in Rooms \cup {NoRoom},
         AdmitLoadRoom(w, s, r)
  PROVE  SInv'
<1> DEFINE new == [Idle EXCEPT !.stage = "admitSave", !.student = s, !.target = r]
<1>1. new \in Request /\ new.stage = "admitSave" /\ new.student = s
  BY DEF Idle, Request, Stages
<1>2. Becomes(w, new) /\ UNCHANGED <<users, relocations>>
  BY DEF AdmitLoadRoom
<1> HIDE DEF new
<1>3. StageOK(w)'
  BY <1>1, <1>2, Becoming DEF StageOK, RequestStages, ReviewStages
<1>4. QED
  BY <1>1, <1>2, <1>3, ReadStep

LEMMA StructRequestLoadUser ==
  ASSUME SInv, NEW w \in Workers, NEW s \in Students, NEW to \in Rooms,
         RequestLoadUser(w, s, to)
  PROVE  SInv'
<1> DEFINE new == [Idle EXCEPT !.stage = "requestRoom", !.student = s,
                               !.target = to, !.room = users[s].room]
<1>1. users[s].room \in Rooms
  BY DEF RequestLoadUser, MayRequest, SInv, TypeOK, UserRow
<1>2. /\ new \in Request /\ new.stage = "requestRoom" /\ new.student = s
      /\ new.target = to /\ new.room = users[s].room
  BY <1>1 DEF Idle, Request, Stages
<1>3. Becomes(w, new) /\ UNCHANGED <<users, relocations>>
  BY DEF RequestLoadUser
<1> HIDE DEF new
<1>4. StageOK(w)'
  BY <1>1, <1>2, <1>3, Becoming DEF StageOK, RequestStages, ReviewStages
<1>5. QED
  BY <1>2, <1>3, <1>4, ReadStep

LEMMA StructRequestLoadRoom ==
  ASSUME SInv, NEW w \in Workers, RequestLoadRoom(w)
  PROVE  SInv'
<1> DEFINE new == [req[w] EXCEPT !.stage = "requestSave"]
<1>1. req[w] \in Request
  BY RequestFields DEF SInv
<1>2. /\ new \in Request /\ new.stage = "requestSave" /\ new.student = req[w].student
      /\ new.target = req[w].target /\ new.room = req[w].room
  BY <1>1 DEF Request, Stages
<1>3. (Becomes(w, new) \/ Becomes(w, Idle)) /\ UNCHANGED <<users, relocations>>
  BY DEF RequestLoadRoom
<1> HIDE DEF new
<1>4. CASE Becomes(w, new)
  <2>1. StageOK(w)'
    BY <1>2, <1>4, Becoming DEF StageOK, RequestStages, ReviewStages, SInv, RequestLoadRoom
  <2>2. QED
    BY <1>2, <1>3, <1>4, <2>1, ReadStep
<1>5. CASE Becomes(w, Idle)
  BY <1>3, <1>5, IdleIsOK, Becoming, ReadStep
<1>6. QED
  BY <1>3, <1>4, <1>5

LEMMA StructReviewLoadRelocation ==
  ASSUME SInv, NEW w \in Workers, NEW q \in RelocationIds,
         NEW decision \in {"Approved", "Rejected"}, ReviewLoadRelocation(w, q, decision)
  PROVE  SInv'
<1> DEFINE next == IF decision = "Approved" THEN "reviewRoom" ELSE "reviewSave"
           new == [Idle EXCEPT !.stage = next, !.student = relocations[q].user,
                               !.target = relocations[q].to, !.id = q,
                               !.status = relocations[q].status, !.decision = decision]
<1>1. /\ relocations[q].status # "absent"
      /\ relocations[q].user \in Students
      /\ relocations[q].to \in Rooms
      /\ relocations[q].status \in {"Pending", "Approved", "Rejected"}
  BY RelocationFields DEF ReviewLoadRelocation, SInv
<1>2. next \in {"reviewRoom", "reviewSave"}
  OBVIOUS
<1>3. Becomes(w, new) /\ UNCHANGED <<users, relocations>>
  BY DEF ReviewLoadRelocation
<1> HIDE DEF next
<1>4. /\ new \in Request /\ new.stage = next /\ new.student = relocations[q].user
      /\ new.target = relocations[q].to /\ new.id = q
  BY <1>1, <1>2 DEF Idle, Request, Stages
<1> HIDE DEF new
<1>5. StageOK(w)'
  BY <1>1, <1>2, <1>3, <1>4, Becoming DEF StageOK, RequestStages, ReviewStages
<1>6. QED
  BY <1>3, <1>4, <1>5, ReadStep

(* ReviewLoadRoom and ReviewLoadUser only move the stage and the tracked   *)
(* room on, or end the request.                                            *)
LEMMA StructReviewLoad ==
  ASSUME SInv, NEW w \in Workers, ReviewLoadRoom(w) \/ ReviewLoadUser(w)
  PROVE  SInv'
<1> DEFINE new(stage, room) == [req[w] EXCEPT !.stage = stage, !.room = room]
<1>1. /\ req[w] \in Request
      /\ req[w].target \in Rooms \cup {NoRoom}
      /\ req[w].room \in Rooms \cup {NoRoom}
  BY RequestFields DEF SInv
<1>2. ASSUME NEW stage \in {"reviewUser", "reviewSave"}, NEW room \in Rooms \cup {NoRoom}
      PROVE  /\ new(stage, room) \in Request
             /\ new(stage, room).stage = stage
             /\ new(stage, room).student = req[w].student
             /\ new(stage, room).target = req[w].target
             /\ new(stage, room).id = req[w].id
  BY <1>1, <1>2 DEF Request, Stages
<1>3. req[w].student \in Students
  BY RelocationFields DEF SInv, StageOK, ReviewStages, ReviewLoadRoom, ReviewLoadUser
<1>4. /\ \/ \E stage \in {"reviewUser", "reviewSave"}, room \in Rooms \cup {NoRoom} :
              Becomes(w, new(stage, room))
         \/ Becomes(w, Idle)
      /\ UNCHANGED <<users, relocations>>
  <2>1. CASE ReviewLoadRoom(w)
    <3> DEFINE room == IF req[w].student \in Residents(req[w].target) THEN req[w].target ELSE NoRoom
    <3>1. room \in Rooms \cup {NoRoom}
      BY <1>1
    <3>2. Becomes(w, new("reviewUser", room)) \/ Becomes(w, Idle)
      BY <2>1 DEF ReviewLoadRoom
    <3>3. QED
      BY <2>1, <3>1, <3>2 DEF ReviewLoadRoom
  <2>2. CASE ReviewLoadUser(w)
    <3> DEFINE room == IF req[w].room = req[w].target THEN req[w].room
                                                     ELSE users[req[w].student].room
    <3>1. room \in Rooms \cup {NoRoom}
      BY <1>1, <1>3 DEF SInv, TypeOK, UserRow
    <3>2. Becomes(w, new("reviewSave", room)) \/ Becomes(w, Idle)
      BY <2>2 DEF ReviewLoadUser
    <3>3. QED
      BY <2>2, <3>1, <3>2 DEF ReviewLoadUser
  <2>3. QED
    BY <2>1, <2>2
<1> HIDE DEF new
<1>5. ASSUME NEW stage \in {"reviewUser", "reviewSave"}, NEW room \in Rooms \cup {NoRoom},
             Becomes(w, new(stage, room))
      PROVE  SInv'
  <2>1. req'[w] = new(stage, room)
    BY <1>5, Becoming
  <2>2. StageOK(w)
    BY DEF SInv
  <2>3. StageOK(w)'
    BY <1>2, <1>4, <2>1, <2>2
       DEF StageOK, RequestStages, ReviewStages, ReviewLoadRoom, ReviewLoadUser
  <2>4. QED
    BY <1>2, <1>4, <1>5, <2>3, ReadStep
<1>6. CASE Becomes(w, Idle)
  BY <1>4, <1>6, IdleIsOK, Becoming, ReadStep
<1>7. QED
  BY <1>4, <1>5, <1>6

(* A step that ends the request.                                           *)
LEMMA EndStep ==
  ASSUME SInv, NEW w \in Workers, Ends(w),
         users' \in [Students -> UserRow],
         relocations' \in [RelocationIds -> RelocationRow \cup {AbsentRelocation}],
         RelocationsKept
  PROVE  SInv'
BY StructuralStep, IdleIsOK, Becoming DEF Ends

LEMMA StructAdmitSave ==
  ASSUME SInv, NEW w \in Workers, AdmitSave(w)
  PROVE  SInv'
<1>1. req[w].student \in Students /\ req[w].target \in Rooms \cup {NoRoom}
  BY RequestFields DEF SInv, StageOK, AdmitSave
<1>2. users' \in [Students -> UserRow]
  BY <1>1 DEF AdmitSave, SInv, TypeOK, UserRow
<1>3. RelocationsKept
  BY DEF RelocationsKept, AdmitSave
<1>4. QED
  BY <1>2, <1>3, EndStep DEF AdmitSave, SInv, TypeOK

LEMMA StructRequestSave ==
  ASSUME SInv, NEW w \in Workers, NEW q \in RelocationIds, RequestSave(w, q)
  PROVE  SInv'
<1> DEFINE row == [status |-> "Pending", user |-> req[w].student,
                   from |-> req[w].room, to |-> req[w].target]
<1>1. row \in RelocationRow
  BY DEF SInv, StageOK, RequestStages, RequestSave, RelocationRow
<1>2. relocations' = [relocations EXCEPT ![q] = row]
  BY DEF RequestSave
<1> HIDE DEF row
<1>3. relocations' \in [RelocationIds -> RelocationRow \cup {AbsentRelocation}]
  BY <1>1, <1>2 DEF SInv, TypeOK
<1>4. RelocationsKept
  BY <1>2 DEF RelocationsKept, RequestSave, SInv, TypeOK
<1>5. QED
  BY <1>3, <1>4, EndStep DEF RequestSave, SInv, TypeOK

LEMMA StructReviewSave ==
  ASSUME SInv, NEW w \in Workers, ReviewSave(w)
  PROVE  SInv'
<1> DEFINE q == req[w].id
           s == req[w].student
           status == Column(relocations[q].status, req[w].status, req[w].decision)
           row == [relocations[q] EXCEPT !.status = status]
<1>1. /\ q \in RelocationIds
      /\ relocations[q].status # "absent"
      /\ s = relocations[q].user
      /\ req[w].target = relocations[q].to
      /\ req[w].decision \in {"Approved", "Rejected"}
  BY RequestFields DEF SInv, StageOK, ReviewStages, ReviewSave
<1>2. /\ relocations[q] \in RelocationRow
      /\ s \in Students
      /\ req[w].target \in Rooms
      /\ relocations[q].status \in {"Pending", "Approved", "Rejected"}
  BY <1>1, RelocationFields DEF SInv
<1>3. status \in {"Pending", "Approved", "Rejected"}
  BY <1>1, <1>2 DEF Column
<1>4. relocations' = [relocations EXCEPT ![q] = row]
  BY <1>1 DEF ReviewSave, SInv, TypeOK
<1> HIDE DEF status
<1>5. /\ row \in RelocationRow /\ row.status # "absent"
      /\ row.user = relocations[q].user /\ row.to = relocations[q].to
  BY <1>2, <1>3 DEF RelocationRow
<1> HIDE DEF row
<1>6. relocations' \in [RelocationIds -> RelocationRow \cup {AbsentRelocation}]
  BY <1>1, <1>4, <1>5 DEF SInv, TypeOK
<1>7. RelocationsKept
  BY <1>1, <1>4, <1>5 DEF RelocationsKept, SInv, TypeOK
<1>8. users' \in [Students -> UserRow]
  BY <1>2 DEF ReviewSave, Column, SInv, TypeOK, UserRow
<1>9. QED
  BY <1>6, <1>7, <1>8, EndStep DEF ReviewSave

LEMMA StructDeleteUser ==
  ASSUME SInv, NEW w \in Workers, NEW s \in Students, DeleteUser(w, s)
  PROVE  SInv'
BY DEF DeleteUser, SInv, TypeOK, UserRow, StageOK

LEMMA StructNext == SInv /\ [Next]_vars => SInv'
<1> SUFFICES ASSUME SInv, [Next]_vars PROVE SInv'
  OBVIOUS
<1>1. CASE UNCHANGED vars
  BY <1>1 DEF vars, SInv, TypeOK, StageOK
<1>2. ASSUME NEW w \in Workers, Start(w) PROVE SInv'
  BY <1>2, StructAdmitLoadRoom, StructRequestLoadUser, StructReviewLoadRelocation,
     StructDeleteUser DEF Start
<1>3. ASSUME NEW w \in Workers, Abort(w) PROVE SInv'
  BY <1>3, EndStep DEF Abort, SInv, TypeOK, RelocationsKept
<1>4. ASSUME NEW w \in Workers, Continue(w) PROVE SInv'
  BY <1>3, <1>4, StructAdmitSave, StructRequestLoadRoom, StructRequestSave, StructReviewLoad,
     StructReviewSave DEF Continue
<1>5. QED
  BY <1>1, <1>2, <1>4 DEF Next

LEMMA StructuralInvariant == Spec => []SInv
<1>1. QED
  BY StructInit, StructNext, PTL DEF Spec

(* Every row and every request in flight stays well formed.                *)
THEOREM TypeCorrect == Spec => []TypeOK
<1>1. SInv => TypeOK
  BY DEF SInv
<1>2. QED
  BY <1>1, StructuralInvariant, PTL

(***************************************************************************)
(* The bound on overbooking.  A request is committed to a room from the    *)
(* moment its vacancy check succeeded until it saves.  Residents alone are *)
(* not inductive: the invariant counts with them the requests committed to *)
(* the room, each of which may still add one.                              *)
(***************************************************************************)
Placing(w) ==
  \/ req[w].stage \in {"admitSave", "reviewUser"}
  \/ req[w].stage = "reviewSave" /\ req[w].decision = "Approved"

Committed(r) == {w \in Workers : Placing(w) /\ req[w].target = r}

Bounded(r) ==
  Cardinality(Residents(r)) + Cardinality(Committed(r)) <= Capacity[r] + Cardinality(Workers) - 1

BInv == \A r \in Rooms : Bounded(r)

LEMMA SetsAreFinite ==
  ASSUME NEW r
  PROVE  /\ IsFiniteSet(Residents(r)) /\ Cardinality(Residents(r)) \in Nat
         /\ IsFiniteSet(Committed(r)) /\ Cardinality(Committed(r)) \in Nat
         /\ Cardinality(Committed(r)) <= Cardinality(Workers)
         /\ Cardinality(Workers) \in Nat \ {0}
<1>1. Residents(r) \subseteq Students /\ Committed(r) \subseteq Workers
  BY DEF Residents, Committed
<1>2. IsFiniteSet(Students) /\ IsFiniteSet(Workers) /\ Workers # {}
  BY PopulationIsFinite
<1>3. QED
  BY <1>1, <1>2, FS_Subset, FS_CardinalityType, FS_EmptySet

LEMMA SetsAreFiniteNext ==
  ASSUME NEW r
  PROVE  /\ IsFiniteSet(Residents(r)') /\ Cardinality(Residents(r)') \in Nat
         /\ IsFiniteSet(Committed(r)') /\ Cardinality(Committed(r)') \in Nat
         /\ Cardinality(Committed(r)') <= Cardinality(Workers)
<1>1. Residents(r)' \subseteq Students /\ Committed(r)' \subseteq Workers
  BY DEF Residents, Committed
<1>2. IsFiniteSet(Students) /\ IsFiniteSet(Workers)
  BY PopulationIsFinite
<1>3. QED
  BY <1>1, <1>2, FS_Subset, FS_CardinalityType

(* Nobody moves in, no request becomes committed.                          *)
LEMMA QuietStep ==
  ASSUME NEW r \in Rooms, Bounded(r),
         Residents(r)' \subseteq Residents(r), Committed(r)' \subseteq Committed(r)
  PROVE  Bounded(r)'
<1>1. /\ Cardinality(Residents(r)') <= Cardinality(Residents(r))
      /\ Cardinality(Committed(r)') <= Cardinality(Committed(r))
  BY SetsAreFinite, FS_Subset
<1>2. Capacity[r] \in Nat
  BY RoomsAreRows
<1>3. QED
  BY <1>1, <1>2, SetsAreFinite, SetsAreFiniteNext DEF Bounded

(* A vacancy check succeeds: all workers may be committed now.             *)
LEMMA CheckStep ==
  ASSUME NEW r \in Rooms, Cardinality(Residents(r)) < Capacity[r],
         Residents(r)' = Residents(r)
  PROVE  Bounded(r)'
<1>1. Capacity[r] \in Nat
  BY RoomsAreRows
<1>2. QED
  BY <1>1, SetsAreFinite, SetsAreFiniteNext DEF Bounded

(* A committed request places its student and is committed no more.        *)
LEMMA PlaceStep ==
  ASSUME NEW r \in Rooms, Bounded(r), NEW w \in Committed(r), NEW s \in Students,
         Residents(r)' \subseteq Residents(r) \cup {s},
         Committed(r)' \subseteq Committed(r) \ {w}
  PROVE  Bounded(r)'
<1>1. /\ IsFiniteSet(Residents(r) \cup {s})
      /\ Cardinality(Residents(r) \cup {s}) <= Cardinality(Residents(r)) + 1
  <2>1. IsFiniteSet(Residents(r)) /\ Cardinality(Residents(r)) \in Nat
    BY SetsAreFinite
  <2>2. CASE s \in Residents(r)
    <3>1. Residents(r) \cup {s} = Residents(r)
      BY <2>2
    <3>2. QED
      BY <2>1, <3>1
  <2>3. CASE s \notin Residents(r)
    <3>1. /\ IsFiniteSet(Residents(r) \cup {s})
          /\ Cardinality(Residents(r) \cup {s}) = Cardinality(Residents(r)) + 1
      BY <2>1, <2>3, FS_AddElement
    <3>2. QED
      BY <2>1, <3>1
  <2>4. QED
    BY <2>2, <2>3
<1>2. Cardinality(Residents(r)') <= Cardinality(Residents(r)) + 1
  BY <1>1, FS_Subset, FS_CardinalityType, SetsAreFinite, SetsAreFiniteNext
<1>3. /\ IsFiniteSet(Committed(r) \ {w})
      /\ Cardinality(Committed(r) \ {w}) = Cardinality(Committed(r)) - 1
  BY SetsAreFinite, FS_RemoveElement
<1>4. Cardinality(Committed(r)') <= Cardinality(Committed(r)) - 1
  BY <1>3, FS_Subset
<1>5. Capacity[r] \in Nat
  BY RoomsAreRows
<1>6. QED
  BY <1>2, <1>4, <1>5, SetsAreFinite, SetsAreFiniteNext DEF Bounded

(* A request that is not placing anybody after the step adds to no room's  *)
(* commitments; one that is adds itself to its target's.                   *)
LEMMA CommittedStep ==
  ASSUME SInv, NEW w \in Workers, NEW new, Becomes(w, new), NEW r
  PROVE  /\ w \notin Committed(r)' => Committed(r)' = Committed(r) \ {w}
         /\ ~Placing(w)' => Committed(r)' = Committed(r) \ {w}
         /\ req'[w].target # r => Committed(r)' = Committed(r) \ {w}
         /\ Committed(r)' \subseteq Committed(r) \cup {w}
BY Becoming DEF Committed, Placing

LEMMA Unplaced ==
  ASSUME SInv, BInv, NEW w \in Workers, NEW new, Becomes(w, new), ~Placing(w)', users' = users
  PROVE  BInv'
<1> SUFFICES ASSUME NEW r \in Rooms PROVE Bounded(r)'
  BY DEF BInv
<1>1. Residents(r)' = Residents(r) /\ Committed(r)' \subseteq Committed(r)
  BY CommittedStep DEF Residents
<1>2. QED
  BY <1>1, QuietStep DEF BInv

LEMMA IdlePlacesNobody ==
  ASSUME SInv, NEW w \in Workers, Ends(w)
  PROVE  ~Placing(w)'
BY Becoming DEF Ends, Idle, Placing

(* The two requests whose vacancy check may succeed.                       *)
LEMMA Checked ==
  ASSUME SInv, BInv, NEW w \in Workers, NEW new, Becomes(w, new), users' = users,
         req'[w].target \in Rooms =>
           Cardinality(Residents(req'[w].target)) < Capacity[req'[w].target]
  PROVE  BInv'
<1> SUFFICES ASSUME NEW r \in Rooms PROVE Bounded(r)'
  BY DEF BInv
<1>1. Residents(r)' = Residents(r)
  BY DEF Residents
<1>2. CASE req'[w].target = r
  BY <1>1, <1>2, CheckStep
<1>3. CASE req'[w].target # r
  BY <1>1, <1>3, CommittedStep, QuietStep DEF BInv
<1>4. QED
  BY <1>2, <1>3

(* The two requests that place somebody: whoever changes rooms moves to    *)
(* the target of a committed request, which then ends.                     *)
LEMMA Placed ==
  ASSUME SInv, BInv, NEW w \in Workers, Ends(w), Placing(w), NEW s \in Students,
         \A r \in Rooms : Residents(r)' \subseteq Residents(r) \cup {s},
         \A r \in Rooms : r # req[w].target => Residents(r)' \subseteq Residents(r)
  PROVE  BInv'
<1> SUFFICES ASSUME NEW r \in Rooms PROVE Bounded(r)'
  BY DEF BInv
<1>1. Committed(r)' = Committed(r) \ {w}
  BY IdlePlacesNobody, CommittedStep DEF Ends
<1>2. CASE req[w].target = r
  <2>1. w \in Committed(r)
    BY <1>2 DEF Committed
  <2>2. QED
    BY <1>1, <1>2, <2>1, PlaceStep DEF BInv
<1>3. CASE req[w].target # r
  BY <1>1, <1>3, QuietStep DEF BInv
<1>4. QED
  BY <1>2, <1>3

LEMMA BoundNext == SInv /\ BInv /\ [Next]_vars => BInv'
<1> SUFFICES ASSUME SInv, BInv, [Next]_vars PROVE BInv'
  OBVIOUS
<1>1. CASE UNCHANGED vars
  BY <1>1 DEF vars, BInv, Bounded, Residents, Committed, Placing
<1>2. ASSUME NEW w \in Workers, NEW s \in Students, NEW r \in Rooms \cup {NoRoom},
             AdmitLoadRoom(w, s, r)
      PROVE  BInv'
  <2> DEFINE new == [Idle EXCEPT !.stage = "admitSave", !.student = s, !.target = r]
  <2>1. Becomes(w, new) /\ users' = users /\ new.target = r
    BY <1>2 DEF AdmitLoadRoom, Idle
  <2> HIDE DEF new
  <2>2. req'[w].target = r
    BY <2>1, Becoming
  <2>3. QED
    BY <1>2, <2>1, <2>2, Checked DEF AdmitLoadRoom, HasVacancy
<1>3. ASSUME NEW w \in Workers, NEW s \in Students, NEW to \in Rooms, RequestLoadUser(w, s, to)
      PROVE  BInv'
  <2> DEFINE new == [Idle EXCEPT !.stage = "requestRoom", !.student = s,
                                 !.target = to, !.room = users[s].room]
  <2>1. Becomes(w, new) /\ users' = users /\ new.stage = "requestRoom"
    BY <1>3 DEF RequestLoadUser, Idle
  <2> HIDE DEF new
  <2>2. QED
    BY <2>1, Becoming, Unplaced DEF Placing
<1>4. ASSUME NEW w \in Workers, NEW q \in RelocationIds,
             NEW decision \in {"Approved", "Rejected"}, ReviewLoadRelocation(w, q, decision)
      PROVE  BInv'
  <2> DEFINE next == IF decision = "Approved" THEN "reviewRoom" ELSE "reviewSave"
             new == [Idle EXCEPT !.stage = next, !.student = relocations[q].user,
                                 !.target = relocations[q].to, !.id = q,
                                 !.status = relocations[q].status, !.decision = decision]
  <2>1. /\ Becomes(w, new) /\ users' = users
        /\ new.stage = next /\ new.decision = decision
    BY <1>4 DEF ReviewLoadRelocation, Idle
  <2> HIDE DEF new
  <2>2. QED
    BY <2>1, Becoming, Unplaced DEF Placing
<1>5. ASSUME NEW w \in Workers, NEW s \in Students, DeleteUser(w, s)
      PROVE  BInv'
  <2> SUFFICES ASSUME NEW r \in Rooms PROVE Bounded(r)'
    BY DEF BInv
  <2>1. Residents(r)' \subseteq Residents(r) /\ Committed(r)' = Committed(r)
    BY <1>5 DEF DeleteUser, Residents, Committed, Placing, SInv, TypeOK, UserRow
  <2>2. QED
    BY <2>1, QuietStep DEF BInv
<1>6. ASSUME NEW w \in Workers, AdmitSave(w)
      PROVE  BInv'
  <2> DEFINE s == req[w].student
  <2>1. s \in Students /\ Placing(w)
    BY <1>6 DEF SInv, StageOK, AdmitSave, Placing
  <2>2. \A r : Residents(r)' \subseteq Residents(r) \cup {s}
    BY <1>6 DEF AdmitSave, Residents, SInv, TypeOK
  <2>3. \A r : r # req[w].target => Residents(r)' \subseteq Residents(r)
    BY <1>6, <2>1 DEF AdmitSave, Residents, SInv, TypeOK
  <2>4. QED
    BY <1>6, <2>1, <2>2, <2>3, Placed DEF AdmitSave
<1>7. ASSUME NEW w \in Workers, RequestLoadRoom(w)
      PROVE  BInv'
  <2> DEFINE new == [req[w] EXCEPT !.stage = "requestSave"]
  <2>1. new.stage = "requestSave" /\ Idle.stage = "idle"
    BY RequestFields DEF SInv, Request, Idle
  <2>2. (Becomes(w, new) \/ Becomes(w, Idle)) /\ users' = users
    BY <1>7 DEF RequestLoadRoom
  <2> HIDE DEF new
  <2>3. ~Placing(w)'
    BY <2>1, <2>2, Becoming DEF Placing
  <2>4. QED
    BY <2>2, <2>3, Unplaced
<1>8. ASSUME NEW w \in Workers, NEW q \in RelocationIds, RequestSave(w, q) PROVE BInv'
  BY <1>8, IdlePlacesNobody, Unplaced DEF RequestSave, Ends
<1>9. ASSUME NEW w \in Workers, ReviewLoadRoom(w)
      PROVE  BInv'
  <2> DEFINE to == req[w].target
             room == IF req[w].student \in Residents(to) THEN to ELSE NoRoom
             new == [req[w] EXCEPT !.stage = "reviewUser", !.room = room]
  <2>1. new.target = to
    BY RequestFields DEF SInv, Request
  <2>2. CASE HasVacancy(to, Residents(to))
    <3>1. Becomes(w, new) /\ users' = users
      BY <1>9, <2>2 DEF ReviewLoadRoom
    <3> HIDE DEF new
    <3>2. req'[w].target = to
      BY <2>1, <3>1, Becoming
    <3>3. QED
      BY <2>2, <3>1, <3>2, Checked DEF HasVacancy
  <2>3. CASE ~HasVacancy(to, Residents(to))
    BY <1>9, <2>3, IdlePlacesNobody, Unplaced DEF ReviewLoadRoom, Ends
  <2>4. QED
    BY <2>2, <2>3
<1>10. ASSUME NEW w \in Workers, ReviewLoadUser(w)
       PROVE  BInv'
  <2> DEFINE room == IF req[w].room = req[w].target THEN req[w].room
                                                    ELSE users[req[w].student].room
             new == [req[w] EXCEPT !.stage = "reviewSave", !.room = room]
  <2>1. new.target = req[w].target
    BY RequestFields DEF SInv, Request
  <2>2. CASE Becomes(w, new)
    <3> SUFFICES ASSUME NEW r \in Rooms PROVE Bounded(r)'
      BY DEF BInv
    <3> HIDE DEF new
    <3>1. req'[w].target = req[w].target /\ Placing(w)
      BY <1>10, <2>1, <2>2, Becoming DEF ReviewLoadUser, Placing
    <3>2. Committed(r)' \subseteq Committed(r)
      BY <2>2, <3>1, CommittedStep DEF Committed
    <3>3. Residents(r)' = Residents(r)
      BY <1>10 DEF ReviewLoadUser, Residents
    <3>4. QED
      BY <3>2, <3>3, QuietStep DEF BInv
  <2>3. CASE Becomes(w, Idle)
    BY <1>10, <2>3, IdlePlacesNobody, Unplaced DEF ReviewLoadUser, Ends
  <2>4. QED
    BY <1>10, <2>2, <2>3 DEF ReviewLoadUser
<1>11. ASSUME NEW w \in Workers, ReviewSave(w)
       PROVE  BInv'
  <2> DEFINE s == req[w].student
  <2>1. s \in Students
    BY <1>11, RelocationFields DEF SInv, StageOK, ReviewStages, ReviewSave
  <2>2. CASE req[w].decision = "Approved"
    <3>1. Placing(w)
      BY <1>11, <2>2 DEF ReviewSave, Placing
    <3>2. users' = [users EXCEPT ![s].room = Column(users[s].room, req[w].room, req[w].target)]
      BY <1>11, <2>1, <2>2 DEF ReviewSave, SInv, TypeOK
    <3>3. \A r : Residents(r)' \subseteq Residents(r) \cup {s}
      BY <2>1, <3>2 DEF Residents, SInv, TypeOK
    <3>4. \A r : r # req[w].target => Residents(r)' \subseteq Residents(r)
      BY <2>1, <3>2 DEF Residents, SInv, TypeOK, UserRow, Column
    <3>5. QED
      BY <1>11, <2>1, <3>1, <3>3, <3>4, Placed DEF ReviewSave
  <2>3. CASE req[w].decision # "Approved"
    BY <1>11, <2>3, IdlePlacesNobody, Unplaced DEF ReviewSave, Ends
  <2>4. QED
    BY <2>2, <2>3
<1>12. ASSUME NEW w \in Workers, Abort(w) PROVE BInv'
  BY <1>12, IdlePlacesNobody, Unplaced DEF Abort, Ends
<1>13. QED
  BY <1>1, <1>2, <1>3, <1>4, <1>5, <1>6, <1>7, <1>8, <1>9, <1>10, <1>11, <1>12
     DEF Next, Start, Continue

LEMMA BoundInit == Init => BInv
<1> SUFFICES ASSUME Init, NEW r \in Rooms PROVE Bounded(r)
  BY DEF BInv
<1>1. Residents(r) = {} /\ Committed(r) = {}
  BY DEF Init, Residents, Committed, Placing, Idle
<1>2. Capacity[r] \in Nat
  BY RoomsAreRows
<1>3. QED
  BY <1>1, <1>2, SetsAreFinite, FS_EmptySet DEF Bounded

(* The vacancy check is unlocked, but it is never off by more than the     *)
(* requests in flight beside the one that saves.                           *)
THEOREM BoundedOverbooking == Spec => []OverbookingIsBounded
<1>1. BInv => OverbookingIsBounded
  <2> SUFFICES ASSUME BInv, NEW r \in Rooms
               PROVE  Cardinality(Residents(r)) <= Capacity[r] + Cardinality(Workers) - 1
    BY DEF OverbookingIsBounded
  <2>1. Bounded(r) /\ Capacity[r] \in Nat
    BY RoomsAreRows DEF BInv
  <2>2. QED
    BY <2>1, SetsAreFinite DEF Bounded
<1>2. QED
  BY <1>1, BoundInit, BoundNext, StructuralInvariant, PTL DEF Spec

(***************************************************************************)
(* Rooms under repair.  A request places somebody only after its vacancy   *)
(* check, and nothing changes which rooms are under repair.                *)
(***************************************************************************)
RInv == NobodyUnderRepair /\ \A w \in Workers : Placing(w) => req[w].target \notin UnderRepair

LEMMA CommitsAfterCheck ==
  ASSUME SInv, NEW w \in Workers, Start(w) \/ Continue(w), Placing(w)'
  PROVE  \/ Placing(w) /\ req'[w].target = req[w].target
         \/ req'[w].target \notin UnderRepair
<1>1. ~Ends(w)
  BY IdlePlacesNobody
<1>2. ASSUME NEW s \in Students, NEW r \in Rooms \cup {NoRoom}, AdmitLoadRoom(w, s, r)
      PROVE  req'[w].target \notin UnderRepair
  <2> DEFINE new == [Idle EXCEPT !.stage = "admitSave", !.student = s, !.target = r]
  <2>1. Becomes(w, new) /\ new.target = r
    BY <1>2 DEF AdmitLoadRoom, Idle
  <2> HIDE DEF new
  <2>2. QED
    BY <1>2, <2>1, Becoming, NullsAreNotRows, RoomsAreRows DEF AdmitLoadRoom, HasVacancy
<1>3. ASSUME NEW s \in Students, NEW to \in Rooms, RequestLoadUser(w, s, to)
      PROVE  FALSE
  <2> DEFINE new == [Idle EXCEPT !.stage = "requestRoom", !.student = s,
                                 !.target = to, !.room = users[s].room]
  <2>1. Becomes(w, new) /\ new.stage = "requestRoom"
    BY <1>3 DEF RequestLoadUser, Idle
  <2> HIDE DEF new
  <2>2. QED
    BY <2>1, Becoming DEF Placing
<1>4. ASSUME NEW q \in RelocationIds, NEW decision \in {"Approved", "Rejected"},
             ReviewLoadRelocation(w, q, decision)
      PROVE  FALSE
  <2> DEFINE next == IF decision = "Approved" THEN "reviewRoom" ELSE "reviewSave"
             new == [Idle EXCEPT !.stage = next, !.student = relocations[q].user,
                                 !.target = relocations[q].to, !.id = q,
                                 !.status = relocations[q].status, !.decision = decision]
  <2>1. Becomes(w, new) /\ new.stage = next /\ new.decision = decision
    BY <1>4 DEF ReviewLoadRelocation, Idle
  <2> HIDE DEF new
  <2>2. QED
    BY <2>1, Becoming DEF Placing
<1>5. ASSUME NEW s \in Students, DeleteUser(w, s)
      PROVE  Placing(w) /\ req'[w].target = req[w].target
  BY <1>5 DEF DeleteUser, Placing
<1>6. ASSUME RequestLoadRoom(w) PROVE FALSE
  <2> DEFINE new == [req[w] EXCEPT !.stage = "requestSave"]
  <2>1. new.stage = "requestSave" /\ Becomes(w, new)
    BY <1>1, <1>6, RequestFields DEF SInv, Request, RequestLoadRoom, Ends
  <2> HIDE DEF new
  <2>2. QED
    BY <2>1, Becoming DEF Placing
<1>7. ASSUME ReviewLoadRoom(w)
      PROVE  req'[w].target \notin UnderRepair
  <2> DEFINE room == IF req[w].student \in Residents(req[w].target) THEN req[w].target ELSE NoRoom
             new == [req[w] EXCEPT !.stage = "reviewUser", !.room = room]
  <2>1. new.target = req[w].target
    BY RequestFields DEF SInv, Request
  <2>2. Becomes(w, new) /\ req[w].target \notin UnderRepair
    BY <1>1, <1>7 DEF ReviewLoadRoom, HasVacancy, Ends
  <2> HIDE DEF new
  <2>3. QED
    BY <2>1, <2>2, Becoming
<1>8. ASSUME ReviewLoadUser(w)
      PROVE  Placing(w) /\ req'[w].target = req[w].target
  <2> DEFINE room == IF req[w].room = req[w].target THEN req[w].room
                                                    ELSE users[req[w].student].room
             new == [req[w] EXCEPT !.stage = "reviewSave", !.room = room]
  <2>1. new.target = req[w].target
    BY RequestFields DEF SInv, Request
  <2>2. Becomes(w, new)
    BY <1>1, <1>8 DEF ReviewLoadUser, Ends
  <2> HIDE DEF new
  <2>3. QED
    BY <1>8, <2>1, <2>2, Becoming DEF ReviewLoadUser, Placing
<1>9. QED
  BY <1>1, <1>2, <1>3, <1>4, <1>5, <1>6, <1>7, <1>8
     DEF Start, Continue, AdmitSave, RequestSave, ReviewSave, Abort

(* Which requests change somebody's RoomId, and to what.                   *)
LEMMA RoomWriters ==
  ASSUME SInv, [Next]_vars, NEW s \in Students, users'[s].room # users[s].room
  PROVE  \E w \in Workers :
           /\ Placing(w)
           /\ req[w].student = s
           /\ users'[s].room = req[w].target
           /\ \/ AdmitSave(w) /\ users[s].status = "absent"
              \/ ReviewSave(w)
<1>1. PICK w \in Workers : Start(w) \/ Continue(w)
  BY DEF Next, vars
<1>2. ~Start(w)
  <2>1. ASSUME NEW u \in Students, DeleteUser(w, u) PROVE FALSE
    BY <2>1 DEF DeleteUser, SInv, TypeOK, UserRow
  <2>2. QED
    BY <2>1 DEF Start, AdmitLoadRoom, RequestLoadUser, ReviewLoadRelocation
<1>3. AdmitSave(w) \/ ReviewSave(w)
  BY <1>1, <1>2 DEF Continue, RequestLoadRoom, RequestSave, ReviewLoadRoom, ReviewLoadUser, Abort
<1>4. CASE AdmitSave(w)
  <2>1. req[w].student \in Students
    BY <1>4 DEF SInv, StageOK, AdmitSave
  <2>2. req[w].student = s /\ users'[s].room = req[w].target /\ users[s].status = "absent"
    BY <1>4, <2>1 DEF AdmitSave, SInv, TypeOK
  <2>3. QED
    BY <1>4, <2>2 DEF AdmitSave, Placing
<1>5. CASE ReviewSave(w)
  <2>1. req[w].student \in Students
    BY <1>5, RelocationFields DEF SInv, StageOK, ReviewStages, ReviewSave
  <2>2. /\ req[w].student = s
        /\ req[w].decision = "Approved"
        /\ users'[s].room = Column(users[s].room, req[w].room, req[w].target)
    BY <1>5, <2>1 DEF ReviewSave, SInv, TypeOK, UserRow
  <2>3. users'[s].room = req[w].target
    BY <2>2 DEF Column
  <2>4. QED
    BY <1>5, <2>2, <2>3 DEF ReviewSave, Placing
<1>6. QED
  BY <1>3, <1>4, <1>5

(* Admission and relocation alike keep out of the rooms under repair.      *)
THEOREM RoomsUnderRepairStayEmpty == Spec => []NobodyUnderRepair
<1>1. Init => RInv
  BY NullsAreNotRows, RoomsAreRows DEF Init, RInv, NobodyUnderRepair, Placing, Idle
<1>2. SInv /\ RInv /\ [Next]_vars => RInv'
  <2> SUFFICES ASSUME SInv, RInv, [Next]_vars PROVE RInv'
    OBVIOUS
  <2>1. ASSUME NEW s \in Students PROVE users'[s].room \notin UnderRepair
    BY RoomWriters DEF RInv, NobodyUnderRepair
  <2>2. ASSUME NEW v \in Workers, Placing(v)' PROVE req'[v].target \notin UnderRepair
    <3>1. CASE req'[v] = req[v]
      BY <2>2, <3>1 DEF RInv, Placing
    <3>2. CASE req'[v] # req[v]
      <4>1. PICK w \in Workers : Start(w) \/ Continue(w)
        BY <3>2 DEF Next, vars
      <4>2. (\E r : Becomes(w, r)) \/ UNCHANGED req
        <5>1. CASE Start(w)
          BY <5>1 DEF Start, AdmitLoadRoom, RequestLoadUser, ReviewLoadRelocation, DeleteUser
        <5>2. CASE Continue(w)
          BY <5>2 DEF Continue, Ends, AdmitSave, RequestLoadRoom, RequestSave, ReviewLoadRoom,
                      ReviewLoadUser, ReviewSave, Abort
        <5>3. QED
          BY <4>1, <5>1, <5>2
      <4>3. w = v
        BY <3>2, <4>2, Becoming
      <4>4. QED
        BY <2>2, <4>1, <4>3, CommitsAfterCheck DEF RInv
    <3>3. QED
      BY <3>1, <3>2
  <2>3. QED
    BY <2>1, <2>2 DEF RInv, NobodyUnderRepair
<1>3. RInv => NobodyUnderRepair
  BY DEF RInv
<1>4. QED
  BY <1>1, <1>2, <1>3, StructuralInvariant, PTL DEF Spec

(* Reviews that race can move a resident nowhere but where the resident    *)
(* asked to go.                                                            *)
THEOREM OnlyRequestedMoves == Spec => MovesAreRequested
<1>1. SInv /\ [Next]_vars =>
        [\A s \in Students :
           users[s].status = "active" /\ users'[s].room # users[s].room =>
             \E q \in RelocationIds :
               relocations[q].user = s /\ relocations[q].to = users'[s].room]_vars
  <2> SUFFICES ASSUME SInv, [Next]_vars, NEW s \in Students,
                      users[s].status = "active", users'[s].room # users[s].room
               PROVE  \E q \in RelocationIds :
                        relocations[q].user = s /\ relocations[q].to = users'[s].room
    OBVIOUS
  <2>1. PICK w \in Workers : ReviewSave(w) /\ req[w].student = s /\ users'[s].room = req[w].target
    BY RoomWriters
  <2>2. QED
    BY <2>1 DEF SInv, StageOK, ReviewStages, ReviewSave
<1>2. QED
  BY <1>1, StructuralInvariant, PTL DEF Spec, MovesAreRequested

(***************************************************************************)
(* One request at a time.  A service with a single worker finds every row  *)
(* as it read it: what the request in flight carries is still true when it *)
(* saves.                                                                  *)
(***************************************************************************)
OneWorker == \A v, w \in Workers : v = w

Current(w) ==
  /\ req[w].stage = "admitSave" /\ req[w].target \in Rooms =>
       HasVacancy(req[w].target, Residents(req[w].target))
  /\ req[w].stage \in RequestStages =>
       /\ users[req[w].student].status = "active"
       /\ users[req[w].student].room = req[w].room
       /\ req[w].room # req[w].target
  /\ req[w].stage \in {"requestSave", "reviewUser"} =>
       HasVacancy(req[w].target, Residents(req[w].target))
  /\ req[w].stage \in {"reviewRoom", "reviewUser"} => req[w].decision = "Approved"
  /\ req[w].stage = "reviewUser" =>
       (req[w].room = req[w].target <=> req[w].student \in Residents(req[w].target))
  /\ req[w].stage \in ReviewStages => req[w].status = relocations[req[w].id].status
  /\ req[w].stage = "reviewSave" /\ req[w].decision = "Approved" =>
       /\ HasVacancy(req[w].target, Residents(req[w].target))
       /\ users[req[w].student].status = "active"
       /\ users[req[w].student].room = req[w].room

CInv == \A w \in Workers : Current(w)

(* The request that takes the step is the only one.                        *)
LEMMA SerialStep ==
  ASSUME OneWorker, NEW w \in Workers, Current(w)'
  PROVE  CInv'
BY DEF OneWorker, CInv

LEMMA IdleIsCurrent ==
  ASSUME SInv, OneWorker, NEW w \in Workers, Ends(w)
  PROVE  CInv'
<1>1. req'[w].stage = "idle"
  BY Becoming DEF Ends, Idle
<1>2. Current(w)'
  BY <1>1 DEF Current, RequestStages, ReviewStages
<1>3. QED
  BY <1>2, SerialStep

LEMMA ResidentsKept ==
  ASSUME users' = users
  PROVE  \A r : Residents(r)' = Residents(r)
BY DEF Residents

LEMMA CurrentAdmitLoadRoom ==
  ASSUME SInv, OneWorker, NEW w \in Workers, NEW s \in Students, NEW r \in Rooms \cup {NoRoom},
         AdmitLoadRoom(w, s, r)
  PROVE  CInv'
<1> DEFINE new == [Idle EXCEPT !.stage = "admitSave", !.student = s, !.target = r]
<1>1. Becomes(w, new) /\ new.stage = "admitSave" /\ new.target = r
  BY DEF AdmitLoadRoom, Idle
<1> HIDE DEF new
<1>2. r \in Rooms => HasVacancy(r, Residents(r)')
  BY ResidentsKept DEF AdmitLoadRoom
<1>3. req'[w].stage = "admitSave" /\ req'[w].target = r
  BY <1>1, Becoming
<1>4. Current(w)'
  BY <1>2, <1>3 DEF Current, RequestStages, ReviewStages
<1>5. QED
  BY <1>4, SerialStep

LEMMA CurrentRequestLoadUser ==
  ASSUME SInv, OneWorker, NEW w \in Workers, NEW s \in Students, NEW to \in Rooms,
         RequestLoadUser(w, s, to)
  PROVE  CInv'
<1> DEFINE new == [Idle EXCEPT !.stage = "requestRoom", !.student = s,
                               !.target = to, !.room = users[s].room]
<1>1. /\ Becomes(w, new) /\ new.stage = "requestRoom" /\ new.student = s
      /\ new.target = to /\ new.room = users[s].room
  BY DEF RequestLoadUser, Idle
<1> HIDE DEF new
<1>2. users' = users /\ users[s].status = "active" /\ users[s].room # to
  BY DEF RequestLoadUser, MayRequest
<1>3. Current(w)'
  BY <1>1, <1>2, Becoming DEF Current, RequestStages, ReviewStages
<1>4. QED
  BY <1>3, SerialStep

(* The student lives elsewhere, so leaving them out of the count changes   *)
(* nothing.                                                                *)
LEMMA CurrentRequestLoadRoom ==
  ASSUME SInv, OneWorker, NEW w \in Workers, Current(w), RequestLoadRoom(w)
  PROVE  CInv'
<1> DEFINE new == [req[w] EXCEPT !.stage = "requestSave"]
           to == req[w].target
<1>1. /\ new.stage = "requestSave" /\ new.student = req[w].student
      /\ new.target = to /\ new.room = req[w].room
  BY RequestFields DEF SInv, Request
<1>2. /\ users[req[w].student].status = "active"
      /\ users[req[w].student].room = req[w].room
      /\ req[w].room # to
  BY DEF RequestLoadRoom, Current, RequestStages
<1>3. Residents(to) \ {req[w].student} = Residents(to)
  BY <1>2 DEF Residents
<1>4. CASE HasVacancy(to, Residents(to))
  <2>1. Becomes(w, new) /\ users' = users
    BY <1>3, <1>4 DEF RequestLoadRoom
  <2> HIDE DEF new
  <2>2. HasVacancy(req'[w].target, Residents(req'[w].target))
    BY <1>1, <1>4, <2>1, Becoming
  <2>3. Current(w)'
    BY <1>1, <1>2, <2>1, <2>2, Becoming, ResidentsKept DEF Current, RequestStages, ReviewStages
  <2>4. QED
    BY <2>3, SerialStep
<1>5. CASE ~HasVacancy(to, Residents(to))
  BY <1>3, <1>5, IdleIsCurrent DEF RequestLoadRoom, Ends
<1>6. QED
  BY <1>4, <1>5

LEMMA CurrentReviewLoadRelocation ==
  ASSUME SInv, OneWorker, NEW w \in Workers, NEW q \in RelocationIds,
         NEW decision \in {"Approved", "Rejected"}, ReviewLoadRelocation(w, q, decision)
  PROVE  CInv'
<1> DEFINE next == IF decision = "Approved" THEN "reviewRoom" ELSE "reviewSave"
           new == [Idle EXCEPT !.stage = next, !.student = relocations[q].user,
                               !.target = relocations[q].to, !.id = q,
                               !.status = relocations[q].status, !.decision = decision]
<1>1. /\ Becomes(w, new) /\ new.stage = next /\ new.id = q
      /\ new.status = relocations[q].status /\ new.decision = decision
  BY DEF ReviewLoadRelocation, Idle
<1> HIDE DEF new
<1>2. relocations' = relocations
  BY DEF ReviewLoadRelocation
<1>3. Current(w)'
  BY <1>1, <1>2, Becoming DEF Current, RequestStages, ReviewStages
<1>4. QED
  BY <1>3, SerialStep

LEMMA CurrentReviewLoadRoom ==
  ASSUME SInv, OneWorker, NEW w \in Workers, Current(w), ReviewLoadRoom(w)
  PROVE  CInv'
<1> DEFINE to == req[w].target
           room == IF req[w].student \in Residents(to) THEN to ELSE NoRoom
           new == [req[w] EXCEPT !.stage = "reviewUser", !.room = room]
<1>1. /\ new.stage = "reviewUser" /\ new.student = req[w].student /\ new.target = to
      /\ new.room = room /\ new.id = req[w].id /\ new.status = req[w].status
      /\ new.decision = req[w].decision
  BY RequestFields DEF SInv, Request
<1>2. /\ req[w].decision = "Approved"
      /\ req[w].status = relocations[req[w].id].status
  BY DEF ReviewLoadRoom, Current, ReviewStages
<1>3. room = to <=> req[w].student \in Residents(to)
  <2>1. to \in Rooms
    BY RelocationFields DEF SInv, StageOK, ReviewStages, ReviewLoadRoom
  <2>2. QED
    BY <2>1, NullsAreNotRows
<1>4. CASE HasVacancy(to, Residents(to))
  <2>1. Becomes(w, new) /\ users' = users /\ relocations' = relocations
    BY <1>4 DEF ReviewLoadRoom
  <2> HIDE DEF new, room
  <2>2. HasVacancy(req'[w].target, Residents(req'[w].target))
    BY <1>1, <1>4, <2>1, Becoming
  <2>3. Current(w)'
    BY <1>1, <1>2, <1>3, <2>1, <2>2, Becoming, ResidentsKept
       DEF Current, RequestStages, ReviewStages
  <2>4. QED
    BY <2>3, SerialStep
<1>5. CASE ~HasVacancy(to, Residents(to))
  BY <1>5, IdleIsCurrent DEF ReviewLoadRoom, Ends
<1>6. QED
  BY <1>4, <1>5

LEMMA CurrentReviewLoadUser ==
  ASSUME SInv, OneWorker, NEW w \in Workers, Current(w), ReviewLoadUser(w)
  PROVE  CInv'
<1> DEFINE s == req[w].student
           to == req[w].target
           room == IF req[w].room = to THEN req[w].room ELSE users[s].room
           new == [req[w] EXCEPT !.stage = "reviewSave", !.room = room]
<1>1. /\ new.stage = "reviewSave" /\ new.student = s /\ new.target = to
      /\ new.room = room /\ new.id = req[w].id /\ new.status = req[w].status
      /\ new.decision = req[w].decision
  BY RequestFields DEF SInv, Request
<1>2. /\ HasVacancy(to, Residents(to))
      /\ req[w].room = to <=> s \in Residents(to)
      /\ req[w].status = relocations[req[w].id].status
  BY DEF ReviewLoadUser, Current, ReviewStages
<1>3. CASE users[s].status = "active"
  <2>1. Becomes(w, new) /\ users' = users /\ relocations' = relocations
    BY <1>3 DEF ReviewLoadUser
  <2>2. room = users[s].room
    BY <1>2 DEF Residents
  <2> HIDE DEF new, room
  <2>3. HasVacancy(req'[w].target, Residents(req'[w].target))
    BY <1>1, <1>2, <2>1, Becoming
  <2>4. Current(w)'
    BY <1>1, <1>2, <1>3, <2>1, <2>2, <2>3, Becoming, ResidentsKept
       DEF Current, RequestStages, ReviewStages
  <2>5. QED
    BY <2>4, SerialStep
<1>4. CASE users[s].status # "active"
  BY <1>4, IdleIsCurrent DEF ReviewLoadUser, Ends
<1>5. QED
  BY <1>3, <1>4

(* A deletion is one step and no other request is in flight.               *)
LEMMA CurrentDeleteUser ==
  ASSUME SInv, OneWorker, NEW w \in Workers, NEW s \in Students, DeleteUser(w, s)
  PROVE  CInv'
<1>1. Current(w)'
  BY DEF DeleteUser, Current, RequestStages, ReviewStages
<1>2. QED
  BY <1>1, SerialStep

LEMMA CurrentNext == OneWorker /\ SInv /\ CInv /\ [Next]_vars => CInv'
<1> SUFFICES ASSUME OneWorker, SInv, CInv, [Next]_vars PROVE CInv'
  OBVIOUS
<1>1. CASE UNCHANGED vars
  BY <1>1 DEF vars, CInv, Current, HasVacancy, Residents
<1>2. ASSUME NEW w \in Workers, Start(w) PROVE CInv'
  BY <1>2, CurrentAdmitLoadRoom, CurrentRequestLoadUser, CurrentReviewLoadRelocation,
     CurrentDeleteUser DEF Start
<1>3. ASSUME NEW w \in Workers, Continue(w) PROVE CInv'
  <2>1. CASE RequestLoadRoom(w) \/ ReviewLoadRoom(w) \/ ReviewLoadUser(w)
    BY <2>1, CurrentRequestLoadRoom, CurrentReviewLoadRoom, CurrentReviewLoadUser DEF CInv
  <2>2. CASE Ends(w)
    BY <2>2, IdleIsCurrent
  <2>3. QED
    BY <1>3, <2>1, <2>2 DEF Continue, AdmitSave, RequestSave, ReviewSave, Abort
<1>4. QED
  BY <1>1, <1>2, <1>3 DEF Next

LEMMA CurrentInvariant ==
  ASSUME OneWorker
  PROVE  Spec => [](SInv /\ CInv)
<1>1. Init => CInv
  BY DEF Init, Idle, CInv, Current, RequestStages, ReviewStages
<1>2. SInv /\ CInv /\ [Next]_vars => CInv'
  BY CurrentNext
<1>3. QED
  BY <1>1, <1>2, StructuralInvariant, PTL DEF Spec

(* Served one at a time, admissions and relocations never overbook a room. *)
THEOREM SerialServiceNeverOverbooks ==
  ASSUME OneWorker
  PROVE  Spec => []NotOverbooked
<1>1. Cardinality(Workers) = 1
  <2>1. PICK w \in Workers : TRUE
    BY PopulationIsFinite
  <2>2. Workers = {w}
    BY <2>1 DEF OneWorker
  <2>3. QED
    BY <2>2, FS_Singleton
<1>2. OverbookingIsBounded => NotOverbooked
  <2> SUFFICES ASSUME OverbookingIsBounded, NEW r \in Rooms
               PROVE  Cardinality(Residents(r)) <= Capacity[r]
    BY DEF NotOverbooked
  <2>1. /\ Cardinality(Residents(r)) <= Capacity[r] + Cardinality(Workers) - 1
        /\ Cardinality(Residents(r)) \in Nat
        /\ Capacity[r] \in Nat
    BY SetsAreFinite, RoomsAreRows DEF OverbookingIsBounded
  <2>2. QED
    BY <1>1, <2>1
<1>3. QED
  BY <1>2, BoundedOverbooking, PTL

(* What the save of an approval does when the copies it carries are true.  *)
LEMMA ApprovalSaved ==
  ASSUME SInv, NEW w \in Workers, Current(w), ReviewSave(w), req[w].decision = "Approved"
  PROVE  LET q == req[w].id
         IN  /\ q \in RelocationIds
             /\ relocations[q].status # "absent"
             /\ relocations[q].user \in Students
             /\ req[w].student = relocations[q].user
             /\ req[w].target = relocations[q].to
             /\ users[relocations[q].user].status = "active"
             /\ HasVacancy(relocations[q].to, Residents(relocations[q].to))
             /\ users' = [users EXCEPT ![relocations[q].user].room = relocations[q].to]
             /\ relocations' = [relocations EXCEPT ![q].status = "Approved"]
<1> DEFINE q == req[w].id
           s == req[w].student
<1>1. /\ q \in RelocationIds
      /\ relocations[q].status # "absent"
      /\ s = relocations[q].user
      /\ req[w].target = relocations[q].to
  BY DEF SInv, StageOK, ReviewStages, ReviewSave
<1>2. relocations[q].user \in Students
  BY <1>1, RelocationFields DEF SInv
<1>3. /\ req[w].status = relocations[q].status
      /\ HasVacancy(req[w].target, Residents(req[w].target))
      /\ users[s].status = "active"
      /\ users[s].room = req[w].room
  BY DEF Current, ReviewSave, ReviewStages
<1>4. Column(users[s].room, req[w].room, req[w].target) = req[w].target
  BY <1>3 DEF Column
<1>5. Column(relocations[q].status, req[w].status, "Approved") = "Approved"
  BY <1>3 DEF Column
<1>6. users' = [users EXCEPT ![s].room = req[w].target]
  <2>1. users' = [users EXCEPT ![s].room = Column(users[s].room, req[w].room, req[w].target)]
    BY <1>1, <1>2 DEF ReviewSave, SInv, TypeOK
  <2>2. QED
    BY <1>4, <2>1
<1>7. relocations' = [relocations EXCEPT ![q].status = "Approved"]
  <2>1. relocations' = [relocations EXCEPT ![q].status =
                          Column(relocations[q].status, req[w].status, "Approved")]
    BY <1>1 DEF ReviewSave, SInv, TypeOK
  <2>2. QED
    BY <1>5, <2>1
<1>8. QED
  BY <1>1, <1>2, <1>3, <1>6, <1>7

(* The room of a resident and the decision on the request that moved them  *)
(* are saved together.                                                     *)
THEOREM SerialMovesAreApproved ==
  ASSUME OneWorker
  PROVE  Spec => MovesAreApproved
<1>1. SInv /\ CInv /\ [Next]_vars =>
        [\A s \in Students :
           users[s].status = "active" /\ users'[s].room # users[s].room =>
             \E q \in RelocationIds : /\ relocations[q].user = s
                                      /\ relocations[q].to = users'[s].room
                                      /\ relocations'[q].status = "Approved"]_vars
  <2> SUFFICES ASSUME SInv, CInv, [Next]_vars, NEW s \in Students,
                      users[s].status = "active", users'[s].room # users[s].room
               PROVE  \E q \in RelocationIds : /\ relocations[q].user = s
                                               /\ relocations[q].to = users'[s].room
                                               /\ relocations'[q].status = "Approved"
    OBVIOUS
  <2>1. PICK w \in Workers : /\ Placing(w) /\ ReviewSave(w) /\ req[w].student = s
                             /\ users'[s].room = req[w].target
    BY RoomWriters
  <2>2. req[w].decision = "Approved"
    BY <2>1 DEF Placing, ReviewSave
  <2> DEFINE q == req[w].id
  <2>3. /\ q \in RelocationIds /\ relocations[q].user = s
        /\ relocations[q].to = users'[s].room
        /\ relocations' = [relocations EXCEPT ![q].status = "Approved"]
    BY <2>1, <2>2, ApprovalSaved DEF CInv
  <2>4. relocations'[q].status = "Approved"
    BY <2>3, RelocationFields DEF SInv, TypeOK, RelocationRow, AbsentRelocation
  <2>5. QED
    BY <2>3, <2>4
<1>2. QED
  BY <1>1, CurrentInvariant, PTL DEF Spec, MovesAreApproved

(***************************************************************************)
(* The refinement.  The steps that only read are stutters of Seats; a save *)
(* is the step of Seats it is named after, or a stutter when the insert    *)
(* fails on the unique index over Email.                                   *)
(***************************************************************************)
LEMMA VacancyIsFree ==
  ASSUME NEW r, HasVacancy(r, Residents(r))
  PROVE  S!Free(r)
<1>1. {s \in Students : S!Lives(s, r)} = Residents(r)
  BY DEF Residents, S!Lives
<1>2. S!Cardinality(Residents(r)) = Cardinality(Residents(r))
  BY DEF S!Cardinality, Cardinality
<1>3. QED
  BY <1>1, <1>2 DEF HasVacancy, S!Free

LEMMA AdmissionMovesIn ==
  ASSUME SInv, NEW w \in Workers, Current(w), AdmitSave(w)
  PROVE  [S!Next]_S!seats
<1> DEFINE s == req[w].student
           r == req[w].target
<1>1. s \in Students /\ r \in Rooms \cup {NoRoom} /\ UNCHANGED relocations
  BY RequestFields DEF SInv, StageOK, AdmitSave
<1>2. CASE users[s].status = "absent"
  <2>1. r \in Rooms => S!Free(r)
    BY VacancyIsFree DEF Current, AdmitSave
  <2>2. S!MoveIn(s, r)
    BY <1>1, <1>2, <2>1 DEF AdmitSave, S!MoveIn
  <2>3. QED
    BY <1>1, <2>2 DEF S!Next
<1>3. CASE users[s].status # "absent"
  BY <1>1, <1>3 DEF AdmitSave, S!seats
<1>4. QED
  BY <1>2, <1>3

LEMMA RequestAsks ==
  ASSUME SInv, NEW w \in Workers, Current(w), NEW q \in RelocationIds, RequestSave(w, q)
  PROVE  S!Next
<1> DEFINE s == req[w].student
           to == req[w].target
<1>1. s \in Students /\ to \in Rooms /\ req[w].room \in Rooms
  BY DEF SInv, StageOK, RequestStages, RequestSave
<1>2. /\ users[s].status = "active" /\ users[s].room = req[w].room
      /\ req[w].room # to /\ S!Free(to)
  BY VacancyIsFree DEF Current, RequestStages, RequestSave
<1>3. S!Ask(q, s, to)
  BY <1>1, <1>2 DEF RequestSave, S!Ask
<1>4. QED
  BY <1>1, <1>3 DEF S!Next

LEMMA ReviewDecides ==
  ASSUME SInv, NEW w \in Workers, Current(w), ReviewSave(w)
  PROVE  S!Next
<1> DEFINE q == req[w].id
<1>1. q \in RelocationIds /\ relocations[q].status # "absent"
  BY DEF SInv, StageOK, ReviewStages, ReviewSave
<1>2. CASE req[w].decision = "Approved"
  <2>1. S!Approve(q)
    BY <1>2, ApprovalSaved, VacancyIsFree DEF S!Approve
  <2>2. QED
    BY <1>1, <2>1 DEF S!Next
<1>3. CASE req[w].decision # "Approved"
  <2>1. req[w].decision = "Rejected"
    BY <1>3, RequestFields DEF SInv
  <2>2. Column(relocations[q].status, req[w].status, "Rejected") = "Rejected"
    BY DEF Column, Current, ReviewSave, ReviewStages
  <2>3. relocations' = [relocations EXCEPT ![q].status =
                          Column(relocations[q].status, req[w].status, "Rejected")]
    BY <1>1, <2>1 DEF ReviewSave, SInv, TypeOK
  <2>4. S!Reject(q)
    BY <1>1, <1>3, <2>2, <2>3 DEF S!Reject, ReviewSave
  <2>5. QED
    BY <1>1, <2>4 DEF S!Next
<1>4. QED
  BY <1>2, <1>3

(* Served one at a time, every request takes effect in one step of Seats   *)
(* or in none.                                                             *)
THEOREM SerialServiceImplementsSeats ==
  ASSUME OneWorker
  PROVE  Spec => ImplementsSeats
<1>1. Init => S!Init
  BY DEF Init, S!Init, AbsentRelocation
<1>2. SInv /\ CInv /\ [Next]_vars => [S!Next]_S!seats
  <2> SUFFICES ASSUME SInv, CInv, [Next]_vars PROVE [S!Next]_S!seats
    OBVIOUS
  <2>1. CASE UNCHANGED vars
    BY <2>1 DEF vars, S!seats
  <2>2. ASSUME NEW w \in Workers, Start(w) PROVE [S!Next]_S!seats
    <3>1. ASSUME NEW s \in Students, DeleteUser(w, s) PROVE S!Next
      BY <3>1 DEF DeleteUser, S!MoveOut, S!Next
    <3>2. QED
      BY <2>2, <3>1
         DEF Start, AdmitLoadRoom, RequestLoadUser, ReviewLoadRelocation, S!seats
  <2>3. ASSUME NEW w \in Workers, Continue(w) PROVE [S!Next]_S!seats
    <3>1. UNCHANGED <<users, relocations>> \/ AdmitSave(w) \/ ReviewSave(w)
            \/ \E q \in RelocationIds : RequestSave(w, q)
      BY <2>3 DEF Continue, RequestLoadRoom, ReviewLoadRoom, ReviewLoadUser, Abort
    <3>2. QED
      BY <3>1, AdmissionMovesIn, RequestAsks, ReviewDecides DEF CInv, S!seats
  <2>4. QED
    BY <2>1, <2>2, <2>3 DEF Next
<1>3. QED
  BY <1>1, <1>2, CurrentInvariant, PTL DEF Spec, ImplementsSeats, S!Spec
=============================================================================
