----------------------------- MODULE StatusWalk -----------------------------
(***************************************************************************)
(* What the tracker promises about one sent application: it starts out     *)
(* applied, moves only along the transitions a candidate may make, and     *)
(* never leaves a rejection or a withdrawal.                               *)
(***************************************************************************)
CONSTANTS
  Applications,   \* the applications there may ever be
  Allowed         \* from each status, the statuses it may move to

VARIABLE status   \* where each application stands, "none" before it is sent

Init == status = [i \in Applications |-> "none"]

Send(i) ==
  /\ status[i] = "none"
  /\ status' = [status EXCEPT ![i] = "applied"]

Move(i) ==
  /\ status[i] # "none"
  /\ \E s \in Allowed[status[i]] : status' = [status EXCEPT ![i] = s]

Next == \E i \in Applications : Send(i) \/ Move(i)

Spec == Init /\ [][Next]_status
=============================================================================
