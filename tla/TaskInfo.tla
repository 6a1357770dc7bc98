------------------------------ MODULE TaskInfo ------------------------------
(***************************************************************************)
(* Task kinds, task states and the task summary of PolyORB.Task_Info.      *)
(* The summary is the table of counters, indexed by kind and by state,     *)
(* that the ORB controllers consult before they decide to awake, unblock   *)
(* or create a task; each index also has an Any row and an Any column.     *)
(***************************************************************************)
EXTENDS Integers

Task_Kind  == {"Permanent", "Transient"}
Task_State == {"Unscheduled", "Running", "Blocked", "Idle", "Terminated"}

Any_Task_Kind  == Task_Kind \cup {"Any"}
Any_Task_State == Task_State \cup {"Any"}

Task_Summary == [Any_Task_Kind -> [Any_Task_State -> Int]]

Empty_Summary == [k \in Any_Task_Kind |-> [s \in Any_Task_State |-> 0]]

(* Kind "Any" matches every task, another kind only the tasks of the kind. *)
Kind_Match(kind, requested) == requested \in {"Any", kind}

(* Adds d to the cells (kind, s) and (Any, s) for each s in states.        *)
Adjust(summary, kind, states, d) ==
  [k \in Any_Task_Kind |-> [s \in Any_Task_State |->
     IF Kind_Match(kind, k) /\ s \in states
     THEN summary[k][s] + d
     ELSE summary[k][s]]]

Get_Count(summary, kind, state) == summary[kind][state]

(* Mutant: the removed task is still counted in the Any column.            *)
Task_Removed_M1(summary, kind) == Adjust(summary, kind, {"Terminated"}, -1)

(* A task enters the summary Unscheduled and leaves it Terminated.         *)
Task_Created(summary, kind) == Adjust(summary, kind, {"Unscheduled", "Any"}, 1)
Task_Removed(summary, kind) == Adjust(summary, kind, {"Terminated", "Any"}, -1)

Task_State_Change(summary, kind, old, new) ==
  Adjust(Adjust(summary, kind, {old}, -1), kind, {new}, 1)
=============================================================================
