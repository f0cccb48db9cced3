------------------------------- MODULE Seats -------------------------------
(***************************************************************************)
(* What Accommodation promises, with no requests in flight: a seat is      *)
(* taken only while the room is usable and has one free, and a student     *)
(* changes rooms in the very step that approves the relocation.            *)
(***************************************************************************)
EXTENDS Integers, FiniteSets

CONSTANTS Students, Rooms, Capacity, UnderRepair, RelocationIds, NoRoom, NoStudent

VARIABLES
  users,       \* [status, room] of every student
  relocations  \* [status, user, from, to] of every relocation request

seats == <<users, relocations>>

Init ==
  /\ users = [s \in Students |-> [status |-> "absent", room |-> NoRoom]]
  /\ relocations = [q \in RelocationIds |->
       [status |-> "absent", user |-> NoStudent, from |-> NoRoom, to |-> NoRoom]]

Lives(s, r) == users[s].status = "active" /\ users[s].room = r

Free(r) ==
  /\ r \notin UnderRepair
  /\ Cardinality({s \in Students : Lives(s, r)}) < Capacity[r]

MoveIn(s, r) ==
  /\ users[s].status = "absent"
  /\ r \in Rooms => Free(r)
  /\ users' = [users EXCEPT ![s] = [status |-> "active", room |-> r]]
  /\ UNCHANGED relocations

Ask(q, s, to) ==
  /\ users[s].status = "active"
  /\ users[s].room \in Rooms \ {to}
  /\ Free(to)
  /\ relocations[q].status = "absent"
  /\ relocations' = [relocations EXCEPT ![q] =
       [status |-> "Pending", user |-> s, from |-> users[s].room, to |-> to]]
  /\ UNCHANGED users

Approve(q) ==
  LET s == relocations[q].user
  IN  /\ relocations[q].status # "absent"
      /\ users[s].status = "active"
      /\ Free(relocations[q].to)
      /\ users' = [users EXCEPT ![s].room = relocations[q].to]
      /\ relocations' = [relocations EXCEPT ![q].status = "Approved"]

Reject(q) ==
  /\ relocations[q].status # "absent"
  /\ relocations' = [relocations EXCEPT ![q].status = "Rejected"]
  /\ UNCHANGED users

MoveOut(s) ==
  /\ users[s].status = "active"
  /\ users' = [users EXCEPT ![s].status = "deleted"]
  /\ UNCHANGED relocations

Next ==
  \/ \E s \in Students, r \in Rooms \cup {NoRoom} : MoveIn(s, r)
  \/ \E q \in RelocationIds, s \in Students, r \in Rooms : Ask(q, s, r)
  \/ \E q \in RelocationIds : Approve(q) \/ Reject(q)
  \/ \E s \in Students : MoveOut(s)

Spec == Init /\ [][Next]_seats
=============================================================================
