--------------------------- MODULE SharedObjects ----------------------------
(***************************************************************************)
(* What reference counting promises of the objects it manages: an object   *)
(* is shared among users while it has at least one, can be acquired only   *)
(* while it has one, and is destroyed once, after its last user is gone.   *)
(***************************************************************************)
CONSTANTS Objects, Users

VARIABLES phase, users

vars == <<phase, users>>

Init ==
  /\ phase = [b \in Objects |-> "none"]
  /\ users = [b \in Objects |-> {}]

Create(b, u) ==
  /\ phase[b] = "none"
  /\ phase' = [phase EXCEPT ![b] = "live"]
  /\ users' = [users EXCEPT ![b] = {u}]

Acquire(b, u) ==
  /\ phase[b] = "live" /\ users[b] # {} /\ u \notin users[b]
  /\ users' = [users EXCEPT ![b] = @ \cup {u}]
  /\ UNCHANGED phase

Release(b, u) ==
  /\ u \in users[b]
  /\ users' = [users EXCEPT ![b] = @ \ {u}]
  /\ UNCHANGED phase

Destroy(b) ==
  /\ phase[b] = "live" /\ users[b] = {}
  /\ phase' = [phase EXCEPT ![b] = "dead"]
  /\ UNCHANGED users

Next ==
  \E b \in Objects :
    \/ Destroy(b)
    \/ \E u \in Users : Create(b, u) \/ Acquire(b, u) \/ Release(b, u)

(* An object that lost its last user is destroyed.                         *)
Spec == /\ Init /\ [][Next]_vars
        /\ \A b \in Objects : WF_vars(Destroy(b))
=============================================================================
