---------------------------- MODULE GuardLifecycle ----------------------------
(***************************************************************************)
(* What the rollback guards promise their callers, independently of files, *)
(* processes and clocks.  A guard that is prepared becomes pending; a      *)
(* pending guard is closed at most once, as confirmed, rolled back or      *)
(* expired; a closed guard never changes again.  The only damage a fault   *)
(* may do is to lose a guard nobody has been promised a decision about.    *)
(***************************************************************************)

CONSTANT Guards

VARIABLE status

Closed == {"confirmed", "rolled_back", "expired"}

States == {"absent", "pending", "lost"} \cup Closed

Init == status = [g \in Guards |-> "absent"]

Create(g) ==
  /\ status[g] = "absent"
  /\ status' = [status EXCEPT ![g] = "pending"]

Close(g) ==
  /\ status[g] = "pending"
  /\ \E s \in Closed : status' = [status EXCEPT ![g] = s]

Lose(g) ==
  /\ status[g] \in {"absent", "pending"}
  /\ status' = [status EXCEPT ![g] = "lost"]

Next == \E g \in Guards : Create(g) \/ Close(g) \/ Lose(g)

Spec == Init /\ [][Next]_status

===============================================================================
