-------------------------------- MODULE Gate --------------------------------
(***************************************************************************)
(* What GuestPasses promises, with no requests in flight: a guest with a   *)
(* pass comes in and goes out, one visit after the other, while the host   *)
(* lives in the dormitory and not before the pass becomes valid.           *)
(***************************************************************************)
EXTENDS Integers

CONSTANTS Students, PassIds, NoStudent

VARIABLES
  hosts,   \* the students still living here
  passes,  \* [status, host, window] of every pass
  inside,  \* the passes whose guest is inside
  visits   \* completed visits of every pass

gate == <<hosts, passes, inside, visits>>

Init ==
  /\ hosts = [s \in Students |-> "active"]
  /\ passes = [p \in PassIds |->
       [status |-> "absent", host |-> NoStudent, window |-> "early"]]
  /\ inside = {}
  /\ visits = [p \in PassIds |-> 0]

Invite(p, s, window) ==
  /\ hosts[s] = "active"
  /\ passes[p].status = "absent"
  /\ passes' = [passes EXCEPT ![p] = [status |-> "Approved", host |-> s, window |-> window]]
  /\ UNCHANGED <<hosts, inside, visits>>

Usable(p) ==
  /\ passes[p].status # "absent"
  /\ hosts[passes[p].host] = "active"
  /\ passes[p].window # "early"

Enter(p) ==
  /\ Usable(p) /\ p \notin inside
  /\ inside' = inside \cup {p}
  /\ passes' = [passes EXCEPT ![p].status = "Entered"]
  /\ UNCHANGED <<hosts, visits>>

Leave(p) ==
  /\ Usable(p) /\ p \in inside
  /\ inside' = inside \ {p}
  /\ visits' = [visits EXCEPT ![p] = @ + 1]
  /\ passes' = [passes EXCEPT ![p].status = "Exited"]
  /\ UNCHANGED hosts

(* The window of a pass opens and closes on its own.                       *)
Turn(p) ==
  /\ passes[p].status # "absent"
  /\ \/ passes[p].window = "early" /\ passes' = [passes EXCEPT ![p].window = "open"]
     \/ passes[p].window = "open"  /\ passes' = [passes EXCEPT ![p].window = "over"]
  /\ UNCHANGED <<hosts, inside, visits>>

MoveOut(s) ==
  /\ hosts' = [hosts EXCEPT ![s] = "deleted"]
  /\ UNCHANGED <<passes, inside, visits>>

Next ==
  \/ \E p \in PassIds, s \in Students, window \in {"early", "open", "over"} :
       Invite(p, s, window)
  \/ \E p \in PassIds : Enter(p) \/ Leave(p) \/ Turn(p)
  \/ \E s \in Students : MoveOut(s)

Spec == Init /\ [][Next]_gate
=============================================================================
