---------------------------- MODULE WakeupProofs ----------------------------
(***************************************************************************)
(* Nobody sleeps over work in OrbWorkers, for every set of threads: the    *)
(* wakeups of the idle tasks manager and of the selectors, given from the  *)
(* counts of the task summary, reach a task that sees the monitor to poll  *)
(* or the job to run; and the critical section raises no exception.        *)
(***************************************************************************)
EXTENDS SummaryProofs, SourceProofs

(* Where a task is when its Task_Info is Unscheduled, Idle or Terminated.  *)
StatePlace ==
  \A t \in Tasks :
    /\ state[t] = "Unscheduled" => pc[t] = "schedule"
    /\ state[t] = "Idle" => pc[t] \in {"goidle", "idle", "aborting", "schedule"}
    /\ state[t] = "Terminated" => pc[t] \in {"schedule", "leaving"}

----------------------------------------------------------------------------
(* The states of tasks                                                     *)

(* A step of a task keeps its state in place.                              *)
LEMMA PlaceTask ==
  ASSUME Typed, StateAgrees, BlockedAgrees, StatePlace, NEW t \in Tasks,
         Task_Inside(t) \/ Task_Enter(t)
  PROVE  StatePlace'
<1> USE ThreadsAssumption
    DEF Typed, TypeOK, StatePlace, StateAgrees, Task_State, Threads, Goto, taskVars, Set_State,
        Scheduling, Register_Task
<1>1. CASE Schedule_Terminated(t)
  BY <1>1 DEF Schedule_Terminated
<1>2. CASE Schedule_Exit(t)
  BY <1>2 DEF Schedule_Exit
<1>3. CASE Schedule_Job(t)
  BY <1>3 DEF Schedule_Job
<1>4. CASE Schedule_Poll(t)
  BY <1>4 DEF Schedule_Poll
<1>5. CASE Schedule_Idle(t)
  BY <1>5 DEF Schedule_Idle
<1>6. CASE Unregister_Task(t)
  BY <1>6 DEF Unregister_Task
<1>7. CASE Idle_Terminate(t)
  BY <1>7 DEF Idle_Terminate
<1>8. CASE Idle_Wait(t)
  BY <1>8 DEF Idle_Wait
<1>9. CASE End_Of_Check_Sources(t)
  BY <1>9 DEF End_Of_Check_Sources
<1>10. CASE Run(t)
  BY <1>10 DEF Run
<1>11. CASE Idle_Return(t)
  BY <1>11 DEF Idle_Return
<1>12. CASE Reenter(t)
  BY <1>12 DEF Reenter
<1>13. CASE Terminate_Task(t)
  BY <1>13 DEF Terminate_Task
<1>14. CASE Job_Completed(t)
  BY <1>14 DEF Job_Completed
<1>15. ASSUME NEW s \in Sources, Queue_Event_Job(t, s) PROVE StatePlace'
  BY <1>15 DEF Queue_Event_Job
<1>16. CASE Abort_Request_Fails(t)
  BY <1>16 DEF Abort_Request_Fails
<1> HIDE DEF StatePlace
<1>17. QED
  BY <1>1, <1>2, <1>3, <1>4, <1>5, <1>6, <1>7, <1>8, <1>9, <1>10, <1>11, <1>12, <1>13,
     <1>14, <1>15, <1>16
  DEF Task_Inside, Task_Enter, Schedule_Task

(* A step that changes no state, and moves tasks that are elsewhere only.  *)
LEMMA PlaceKept ==
  ASSUME StatePlace, UNCHANGED state,
         \A t \in Tasks :
           \/ pc'[t] = pc[t]
           \/ pc'[t] = "aborting" /\ pc[t] \notin {"schedule", "leaving"}
           \/ pc[t] \notin {"schedule", "goidle", "idle", "aborting", "leaving"}
  PROVE  StatePlace'
BY DEF StatePlace

(* Every step keeps the states in place.                                   *)
LEMMA PlaceStep ==
  ASSUME Typed, StateAgrees, BlockedAgrees, StatePlace, [Next]_vars
  PROVE  StatePlace'
<1> USE DEF Goto, taskVars
<1>1. CASE UNCHANGED vars
  BY <1>1 DEF vars, StatePlace
<1>2. ASSUME NEW t \in Threads, Call_Inside(t) \/ Call_Enter(t) \/ Source_Calls(t)
      PROVE  StatePlace'
  <2>1. UNCHANGED state
    BY <1>2
    DEF Call_Inside, Call_Enter, Source_Calls, Disable_Polling, Register_Unknown,
        Register_Source, Register_Failure, Create_Monitor, Create_Failure,
        Event_Sources_Added, Unregister_Source, Source_Done, Delete_Source,
        Delete_Unmonitored, Disable_Return, Insert_Source, Finalize_Endpoint
  <2>2. pc[t] \in {"running", "out"} \cup Calling
    BY <1>2
    DEF Call_Inside, Call_Enter, Source_Calls, Disable_Polling, Register_Unknown,
        Register_Source, Register_Failure, Create_Monitor, Create_Failure,
        Event_Sources_Added, Unregister_Source, Source_Done, Delete_Source,
        Delete_Unmonitored, Disable_Return, Insert_Source, Finalize_Endpoint, Can_Call, Calling
  <2>3. \A u \in Tasks : u # t => pc'[u] = pc[u]
    <3>1. \A u \in Threads : u # t => pc'[u] = pc[u]
      BY <1>2
      DEF Call_Inside, Call_Enter, Source_Calls, Disable_Polling, Register_Unknown,
          Register_Source, Register_Failure, Create_Monitor, Create_Failure,
          Event_Sources_Added, Unregister_Source, Source_Done, Delete_Source,
          Delete_Unmonitored, Disable_Return, Insert_Source, Finalize_Endpoint, Typed, TypeOK
    <3>2. QED BY <3>1 DEF Threads
  <2>4. QED BY <2>1, <2>2, <2>3, PlaceKept DEF Calling
<1>3. ASSUME NEW t \in Tasks,
             \/ Job_Calls(t) \/ Request_Result_Ready(t)
             \/ Check_Sources(t) \/ Check_Sources_Aborted(t)
      PROVE  StatePlace'
  <2>1. UNCHANGED state /\ pc[t] \in {"running", "notifying", "blocked"}
    BY <1>3 DEF Job_Calls, Queue_Request_Job, Executed_Request, Disconnect,
                Request_Result_Ready, Check_Sources, Check_Sources_Aborted
  <2>2. \A u \in Tasks : u # t => pc'[u] = pc[u]
    BY <1>3 DEF Job_Calls, Queue_Request_Job, Executed_Request, Disconnect,
                Request_Result_Ready, Check_Sources, Check_Sources_Aborted, Typed, TypeOK,
                Threads
  <2>3. QED BY <2>1, <2>2, PlaceKept
<1>4. ASSUME NEW t \in Transient, Invoke(t) \/ Abort_Run(t) PROVE StatePlace'
  BY <1>4, PlaceKept DEF Invoke, Abort_Run, Typed, TypeOK, Threads, Tasks
<1>5. ASSUME NEW a \in Closers, (\E w \in BOOLEAN : Shutdown(a, w)) \/ Completion_Return(a)
      PROVE  StatePlace'
  <2>1. UNCHANGED state /\ a \notin Tasks
    BY <1>5, ThreadsAssumption DEF Shutdown, Completion_Return
  <2>2. \A u \in Tasks : pc'[u] = pc[u]
    BY <1>5, <2>1 DEF Shutdown, Completion_Return, Typed, TypeOK, Threads
  <2>3. QED BY <2>1, <2>2, PlaceKept
<1>6. QED BY <1>1, <1>2, <1>3, <1>4, <1>5, PlaceTask DEF Next

----------------------------------------------------------------------------
(* Exceptions and their causes                                             *)

(* The configurations in which no exception is to be expected: no client   *)
(* is aborted, no registration fails and all sources are of one type.      *)
SingleType == \A m \in Monitors, s \in Sources : MonitorType[m] = SourceType[s]
Undisturbed == Timed = {} /\ Failing = {} /\ SingleType

(* A request with a Requesting_Task has a registered one; the task that is *)
(* notified is such a task, or is being aborted, which only clients with a *)
(* timeout are; and with one type a monitor is created for the first slot. *)
Requested == \A r \in Transient : requesting[r] => state[r] # "none"
Notifies ==
  \A t \in Threads : pc[t] = "notifying" =>
    op[t].arg \in Transient /\ (requesting[op[t].arg] \/ pc[op[t].arg] = "aborting")
Aborts == \A t \in Threads : pc[t] = "aborting" => t \in Timed
FirstMonitor == SingleType => \A t \in Threads : pc[t] = "create" => aemMonitor[1] = None

(* The inductive invariant behind ExceptionExplained and NoException.      *)
Calm == Requested /\ Notifies /\ Aborts /\ FirstMonitor

(* A step raises an exception for one of the causes only.                  *)
Explained == error' # error => \E t \in {lock, lock'} \cap Threads : Exception_Cause(t)

(* What the invariants of the other modules say of a state.                *)
Sound ==
  /\ Typed /\ CriticalHoldsLock /\ IdleAgrees /\ SleepersOnList /\ Tables /\ StateAgrees
  /\ SummaryExact /\ StatePlace

(* Reschedule_Task raises no exception for a task that is doing something. *)
LEMMA RescheduleCalm ==
  ASSUME NEW t, state[t] \in {"Running", "Blocked", "Idle"}, Reschedule_Task(t)
  PROVE  UNCHANGED error
BY DEF Reschedule_Task

(* Try_Allocate_One_Task reschedules a task that polls.                    *)
LEMMA TryCalm ==
  ASSUME SlotNamesPoller, NEW c, NEW a, Try_Allocate_One_Task(c, a)
  PROVE  UNCHANGED error
<1> DEFINE kind == IF a THEN "Any" ELSE "Permanent"
<1>1. ASSUME NEW J \in Polled_By(kind), Reschedule_Task(aemTI[J]) PROVE UNCHANGED error
  <2>1. state[aemTI[J]] = "Blocked"
    BY DEF Polled_By, SlotNamesPoller, Polls
  <2>2. QED BY <1>1, <2>1, RescheduleCalm
<1>2. QED BY <1>1 DEF Try_Allocate_One_Task

(* So does Enable_Polling.                                                 *)
LEMMA EnableCalm ==
  ASSUME SlotNamesPoller, NEW J, Enable_Polling(J)
  PROVE  UNCHANGED error
BY TryCalm DEF Enable_Polling

(* The Task_Unregistered event.                                            *)
LEMMA UnregisteredCalm ==
  ASSUME SlotNamesPoller, NEW c, Task_Unregistered(c)
  PROVE  UNCHANGED error
BY TryCalm DEF Task_Unregistered

(* A step that concerns no request and no new monitor, and finishes the    *)
(* abort of a client only with the lock, while nobody is notified.         *)
Uneventful ==
  /\ UNCHANGED <<requesting, aemMonitor>>
  /\ \A u \in Tasks : state[u] # "none" => state'[u] # "none"
  /\ \A u \in Threads :
       /\ pc'[u] \in {"notifying", "create"} => pc'[u] = pc[u] /\ op'[u] = op[u]
       /\ pc'[u] = "aborting" => pc[u] = "aborting"
       /\ pc[u] = "aborting" => pc'[u] = "aborting" \/ lock = None

(* Nobody is being notified while the lock is free.                        *)
LEMMA FreeNotifies ==
  ASSUME CriticalHoldsLock, lock = None, NEW t \in Threads
  PROVE  pc[t] # "notifying"
BY ThreadsAssumption DEF CriticalHoldsLock, Critical

(* Such a step keeps the invariant.                                        *)
LEMMA UneventfulCalm ==
  ASSUME Sound, Calm, Uneventful
  PROVE  Calm'
<1>1. Requested' /\ Aborts' /\ FirstMonitor'
  BY DEF Calm, Requested, Aborts, FirstMonitor, Uneventful, Tasks
<1>2. Notifies'
  <2> SUFFICES ASSUME NEW t \in Threads, pc'[t] = "notifying"
               PROVE  /\ op'[t].arg \in Transient
                      /\ requesting'[op'[t].arg] \/ pc'[op'[t].arg] = "aborting"
    BY DEF Notifies
  <2>1. pc[t] = "notifying" /\ op'[t] = op[t] /\ lock # None
    BY FreeNotifies DEF Uneventful, Sound
  <2>2. op[t].arg \in Transient /\ op[t].arg \in Threads
    BY <2>1 DEF Calm, Notifies, Threads, Tasks
  <2>3. QED BY <2>1, <2>2 DEF Calm, Notifies, Uneventful
<1>3. QED BY <1>1, <1>2 DEF Calm

(* A task that is notified and not being aborted can be rescheduled.       *)
LEMMA NotifiedCalm ==
  ASSUME Sound, Calm, NEW t \in Tasks, Request_Result_Ready(t)
  PROVE  Explained
<1> USE DEF Sound
<1>1. pc[t] = "notifying" /\ t \in Threads /\ lock = t
  BY DEF Request_Result_Ready, Leave, Threads
<1>2. PICK r : r = op[t].arg
  OBVIOUS
<1>3. r \in Transient /\ r \in Tasks /\ r \in Threads
  BY <1>1, <1>2 DEF Calm, Notifies, Tasks, Threads
<1>4. CASE requesting[r]
  <2>1. state[r] \in Task_State
    BY <1>3, <1>4 DEF Calm, Requested, Typed, TypeOK
  <2>2. pc[r] \notin {"schedule", "leaving"}
    BY <1>1, <1>3 DEF CriticalHoldsLock, Critical
  <2>3. state[r] \in {"Running", "Blocked", "Idle"}
    BY <1>3, <2>1, <2>2 DEF StatePlace, Task_State
  <2>4. Reschedule_Task(r)
    BY <1>2, <1>4 DEF Request_Result_Ready
  <2>5. QED BY <2>3, <2>4, RescheduleCalm DEF Explained
<1>5. CASE ~requesting[r]
  <2>1. pc[r] = "aborting"
    BY <1>1, <1>2, <1>5 DEF Calm, Notifies
  <2>2. QED BY <1>1, <1>2, <2>1 DEF Explained, Exception_Cause
<1>6. QED BY <1>4, <1>5

(* A step of a task raises an exception only when it is aborted and its    *)
(* request is, or is about to be, completed.                               *)
LEMMA ExplainedTask ==
  ASSUME Sound, NEW t \in Tasks, Task_Inside(t) \/ Task_Enter(t)
  PROVE  Explained
<1> USE DEF Sound, Tables
<1>1. CASE Unregister_Task(t)
  BY <1>1, UnregisteredCalm DEF Unregister_Task, Explained
<1>2. ASSUME NEW s \in Sources, Queue_Event_Job(t, s) PROVE Explained
  BY <1>2, TryCalm DEF Queue_Event_Job, Explained
<1>3. CASE Abort_Request_Fails(t)
  <2>1. pc[t] = "aborting" /\ lock' = t /\ t \in Threads
    BY <1>3 DEF Abort_Request_Fails, Enter, Threads
  <2>2. QED
    BY <1>3, <2>1
    DEF Abort_Request_Fails, Forgotten, Being_Forgotten, Explained, Exception_Cause
<1>4. CASE \/ Schedule_Task(t) \/ Run(t) \/ Idle_Terminate(t) \/ Idle_Wait(t) \/ Idle_Return(t)
           \/ End_Of_Check_Sources(t) \/ Reenter(t) \/ Terminate_Task(t) \/ Job_Completed(t)
  <2>1. UNCHANGED error
    BY <1>4
    DEF Schedule_Task, Schedule_Terminated, Schedule_Exit, Schedule_Job, Schedule_Poll,
        Schedule_Idle, Run, Idle_Terminate, Idle_Wait, Idle_Return, End_Of_Check_Sources,
        Reenter, Terminate_Task, Job_Completed
  <2>2. QED BY <2>1 DEF Explained
<1>5. QED BY <1>1, <1>2, <1>3, <1>4 DEF Task_Inside, Task_Enter

(* A call into the ORB raises one only for a source that may not be        *)
(* registered, or for want of a slot.                                      *)
LEMMA ExplainedCall ==
  ASSUME Sound, Orderly, Registered, NEW t \in Threads,
         Call_Inside(t) \/ Call_Enter(t) \/ Source_Calls(t)
  PROVE  Explained
<1> USE DEF Sound, Tables
<1>1. CASE Create_Failure(t)
  BY <1>1 DEF Create_Failure, Inside, Explained, Exception_Cause
<1>2. CASE Create_Monitor(t)
  <2>1. pc[t] = "create" /\ lock = t
    BY <1>2 DEF Create_Monitor, Inside
  <2>2. error' # error => ~(Monitor_Count < Maximum_Number_Of_Monitors)
    BY <1>2 DEF Create_Monitor
  <2>3. Monitor_Count \in 0 .. Maximum_Number_Of_Monitors
    BY DEF Monitor_Count, Maximum_Number_Of_Monitors
  <2>4. error' # error => Monitor_Count = Maximum_Number_Of_Monitors
    BY <2>2, <2>3 DEF Maximum_Number_Of_Monitors
  <2>5. QED BY <2>1, <2>4 DEF Explained, Exception_Cause
<1>3. CASE Delete_Unmonitored(t)
  <2>1. lock' = t
    BY <1>3 DEF Delete_Unmonitored, Enter
  <2>2. QED BY <1>3, <2>1, DeletesRegistered DEF Explained, Exception_Cause
<1>4. CASE Source_Done(t) \/ Register_Unknown(t)
  BY <1>4, EnableCalm DEF Source_Done, Register_Unknown, Explained
<1>5. CASE Event_Sources_Added(t)
  BY <1>5, TryCalm DEF Event_Sources_Added, Explained
<1>6. CASE \/ Disable_Polling(t) \/ Disable_Return(t) \/ Register_Source(t) \/ Register_Failure(t)
           \/ Unregister_Source(t) \/ Delete_Source(t)
  BY <1>6
  DEF Disable_Polling, Disable_Return, Register_Source, Register_Failure, Unregister_Source,
      Delete_Source, Explained
<1>7. ASSUME NEW s \in Sources, Insert_Source(t, s) \/ Finalize_Endpoint(t, s) PROVE Explained
  BY <1>7 DEF Insert_Source, Finalize_Endpoint, Explained
<1>8. QED
  BY <1>1, <1>2, <1>3, <1>4, <1>5, <1>6, <1>7 DEF Call_Inside, Call_Enter, Source_Calls

(* The other steps raise one only to notify a client that is aborted.      *)
LEMMA ExplainedOther ==
  ASSUME Sound, Calm,
         \/ \E t \in Tasks : \/ Job_Calls(t) \/ Request_Result_Ready(t)
                             \/ Check_Sources(t) \/ Check_Sources_Aborted(t)
         \/ \E t \in Transient : Invoke(t) \/ Abort_Run(t)
         \/ \E a \in Closers : (\E w \in BOOLEAN : Shutdown(a, w)) \/ Completion_Return(a)
  PROVE  Explained
<1>1. ASSUME NEW t \in Tasks, NEW u \in Upcalls, Queue_Request_Job(t, u) PROVE Explained
  BY <1>1, TryCalm DEF Queue_Request_Job, Explained, Sound, Tables
<1>2. ASSUME \/ \E t \in Tasks : \/ \E r \in Transient : Executed_Request(t, r)
                                 \/ Disconnect(t) \/ Check_Sources(t)
                                 \/ Check_Sources_Aborted(t)
             \/ \E t \in Transient : Invoke(t) \/ Abort_Run(t)
             \/ \E a \in Closers : (\E w \in BOOLEAN : Shutdown(a, w)) \/ Completion_Return(a)
      PROVE  Explained
  <2>1. UNCHANGED error
    BY <1>2
    DEF Executed_Request, Disconnect, Check_Sources, Check_Sources_Aborted, Invoke, Abort_Run,
        Shutdown, Completion_Return
  <2>2. QED BY <2>1 DEF Explained
<1>3. QED BY <1>1, <1>2, NotifiedCalm DEF Job_Calls

(* A step of a task keeps the invariant.                                   *)
LEMMA CalmTask ==
  ASSUME Sound, Calm, NEW t \in Tasks, Task_Inside(t) \/ Task_Enter(t)
  PROVE  Calm'
<1> USE ThreadsAssumption
    DEF Typed, TypeOK, Goto, taskVars, aemVars, clientVars, Set_State, Threads, Scheduling
<1>1. Typed /\ CriticalHoldsLock
  BY DEF Sound
<1>2. CASE Unregister_Task(t)
  <2>1. /\ pc' = [pc EXCEPT ![t] = IF t \in MayExit THEN "unborn" ELSE "out"]
        /\ UNCHANGED <<aemMonitor, op>> /\ lock = t /\ pc[t] = "leaving"
        /\ requesting' = [r \in Transient |-> r # t /\ requesting[r]]
        /\ state' = [state EXCEPT ![t] = "none"]
    BY <1>2 DEF Unregister_Task, Leave
  <2>2. \A u \in Threads : pc'[u] # "notifying"
    BY <1>1, <2>1 DEF CriticalHoldsLock, Critical
  <2>3. Requested' /\ FirstMonitor' /\ Aborts'
    BY <1>1, <2>1 DEF Calm, Requested, FirstMonitor, Aborts, Tasks
  <2>4. Notifies'
    BY <2>2 DEF Notifies
  <2>5. QED BY <2>3, <2>4 DEF Calm
<1>3. CASE Run(t)
  <2>1. /\ pc' = [pc EXCEPT ![t] = "schedule"] /\ UNCHANGED <<aemMonitor, op>> /\ lock = None
        /\ requesting' = [r \in Transient |-> r = t \/ requesting[r]]
        /\ state' = [state EXCEPT ![t] = "Unscheduled"]
    BY <1>3 DEF Run, Register_Task, Enter
  <2>2. \A u \in Threads : pc'[u] # "notifying"
    BY <1>1, <2>1, FreeNotifies
  <2>3. Requested' /\ FirstMonitor' /\ Aborts'
    BY <1>1, <2>1 DEF Calm, Requested, FirstMonitor, Aborts, Tasks
  <2>4. Notifies'
    BY <2>2 DEF Notifies
  <2>5. QED BY <2>3, <2>4 DEF Calm
<1>4. CASE \/ Schedule_Task(t) \/ Idle_Terminate(t) \/ Idle_Wait(t) \/ End_Of_Check_Sources(t)
           \/ Reenter(t) \/ Terminate_Task(t) \/ Job_Completed(t)
  <2>1. UNCHANGED <<requesting, aemMonitor, op>>
    BY <1>4 DEF Schedule_Task, Schedule_Terminated, Schedule_Exit, Schedule_Job, Schedule_Poll,
                Schedule_Idle, Idle_Terminate, Idle_Wait, End_Of_Check_Sources, Reenter,
                Terminate_Task, Job_Completed
  <2>2. \A u \in Tasks : state[u] # "none" => state'[u] # "none"
    BY <1>1, <1>4
    DEF Schedule_Task, Schedule_Terminated, Schedule_Exit, Schedule_Job, Schedule_Poll,
        Schedule_Idle, Idle_Terminate, Idle_Wait, End_Of_Check_Sources, Reenter, Terminate_Task,
        Job_Completed
  <2>3. /\ pc[t] = "aborting" => lock = None
        /\ \E p \in {"leaving", "running", "blocked", "goidle", "schedule", "idle", "queueing"} :
             pc' = [pc EXCEPT ![t] = p]
    BY <1>4 DEF Schedule_Task, Schedule_Terminated, Schedule_Exit, Schedule_Job, Schedule_Poll,
                Schedule_Idle, Idle_Terminate, Idle_Wait, End_Of_Check_Sources, Reenter,
                Terminate_Task, Job_Completed, Enter
  <2>4. Uneventful
    BY <1>1, <2>1, <2>2, <2>3 DEF Uneventful
  <2>5. QED BY <2>4, UneventfulCalm
<1>5. CASE Idle_Return(t)
  <2>1. Uneventful
    BY <1>1, <1>5 DEF Idle_Return, Uneventful
  <2>2. QED BY <2>1, UneventfulCalm
<1>6. ASSUME NEW s \in Sources, Queue_Event_Job(t, s) PROVE Calm'
  <2>1. Uneventful
    BY <1>1, <1>6 DEF Queue_Event_Job, Uneventful
  <2>2. QED BY <2>1, UneventfulCalm
<1>7. CASE Abort_Request_Fails(t)
  <2>1. Uneventful
    BY <1>7 DEF Abort_Request_Fails, Uneventful
  <2>2. QED BY <2>1, UneventfulCalm
<1>8. QED
  BY <1>2, <1>3, <1>4, <1>5, <1>6, <1>7 DEF Task_Inside, Task_Enter

(* So does a call into the ORB.                                            *)
LEMMA CalmCall ==
  ASSUME Sound, Calm, SlotsFilled, NEW t \in Threads,
         Call_Inside(t) \/ Call_Enter(t) \/ Source_Calls(t)
  PROVE  Calm'
<1> USE DEF Typed, TypeOK, Goto, taskVars, aemVars, clientVars
<1>1. Typed /\ CriticalHoldsLock
  BY DEF Sound
<1>2. ASSUME pc[t] # "aborting", UNCHANGED <<state, requesting>>, FirstMonitor',
             \E p \in {"create", "disable", "added"} : pc' = [pc EXCEPT ![t] = p],
             \A u \in Threads : u # t => op'[u] = op[u]
      PROVE  Calm'
  <2>1. Requested' /\ Aborts'
    BY <1>1, <1>2 DEF Calm, Requested, Aborts
  <2>2. ASSUME NEW u \in Threads, pc'[u] = "notifying"
        PROVE  /\ op'[u].arg \in Transient
               /\ requesting'[op'[u].arg] \/ pc'[op'[u].arg] = "aborting"
    <3>1. u # t /\ pc[u] = "notifying" /\ op'[u] = op[u]
      BY <1>1, <1>2, <2>2
    <3>2. op[u].arg \in Transient /\ (requesting[op[u].arg] \/ pc[op[u].arg] = "aborting")
      BY <3>1 DEF Calm, Notifies
    <3>3. QED BY <1>1, <1>2, <3>1, <3>2 DEF Threads, Tasks
  <2>3. QED BY <1>2, <2>1, <2>2 DEF Calm, Notifies
<1>3. CASE Register_Unknown(t)
  <2>1. /\ pc[t] = "disabled" /\ op[t].kind = "insert" /\ op[t].slot \in Slots
        /\ op[t].arg \in Sources
        /\ MonitorType[aemMonitor[op[t].slot]] # SourceType[op[t].arg]
    BY <1>1, <1>3 DEF Register_Unknown, OpAgrees
  <2>2. aemMonitor[op[t].slot] # None
    <3>1. /\ op[t].last \in Slots /\ op[t].slot <= op[t].last
          /\ \A J \in 1 .. op[t].last : aemMonitor[J] # None
      BY <2>1 DEF SlotsFilled, SlotFilled, Looping
    <3>2. op[t].slot \in 1 .. op[t].last
      BY <2>1, <3>1 DEF Slots, Maximum_Number_Of_Monitors
    <3>3. QED BY <3>1, <3>2
  <2>3. ~SingleType
    BY <1>1, <2>1, <2>2 DEF SingleType
  <2>4. FirstMonitor'
    BY <2>3 DEF FirstMonitor, SingleType
  <2>5. /\ UNCHANGED <<state, requesting>> /\ \A u \in Threads : u # t => op'[u] = op[u]
        /\ \E p \in {"create", "disable", "added"} : pc' = [pc EXCEPT ![t] = p]
    BY <1>1, <1>3 DEF Register_Unknown
  <2>6. QED BY <1>2, <2>1, <2>4, <2>5
<1>4. CASE Create_Monitor(t)
  <2>1. pc[t] = "create" /\ lock = t
    BY <1>4 DEF Create_Monitor, Inside
  <2>2. CASE Monitor_Count < Maximum_Number_Of_Monitors
    <3>1. /\ pc' = [pc EXCEPT ![t] = "added"] /\ UNCHANGED <<state, requesting>>
          /\ \A u \in Threads : u # t => op'[u] = op[u]
      BY <1>1, <1>4, <2>2 DEF Create_Monitor
    <3>2. \A u \in Threads : pc'[u] # "create"
      BY <1>1, <2>1, <3>1 DEF CriticalHoldsLock, Critical
    <3>3. FirstMonitor'
      BY <3>2 DEF FirstMonitor
    <3>4. QED BY <1>2, <2>1, <3>1, <3>3
  <2>3. CASE ~(Monitor_Count < Maximum_Number_Of_Monitors)
    BY <1>4, <2>3, UneventfulCalm DEF Create_Monitor, Uneventful
  <2>4. QED BY <2>2, <2>3
<1>5. ASSUME NEW s \in Sources, Insert_Source(t, s) PROVE Calm'
  <2>1. /\ UNCHANGED <<state, requesting, aemMonitor>> /\ pc[t] \in {"running", "out"}
        /\ pc' = [pc EXCEPT ![t] = IF Monitor_Count = 0 THEN "create" ELSE "disable"]
        /\ \A u \in Threads : u # t => op'[u] = op[u]
    BY <1>1, <1>5 DEF Insert_Source, Can_Call
  <2>2. Monitor_Count = 0 => aemMonitor[1] = None
    BY DEF Monitor_Count
  <2>3. FirstMonitor'
    BY <1>1, <2>1, <2>2 DEF Calm, FirstMonitor, SingleType
  <2>4. QED BY <1>2, <2>1, <2>3
<1>6. CASE Source_Done(t)
  BY <1>1, <1>6, UneventfulCalm DEF Source_Done, Uneventful, Operation
<1>7. CASE Event_Sources_Added(t)
  BY <1>1, <1>7, UneventfulCalm DEF Event_Sources_Added, Uneventful
<1>8. CASE Delete_Source(t) \/ Delete_Unmonitored(t) \/ Create_Failure(t)
  BY <1>1, <1>8, UneventfulCalm DEF Delete_Source, Delete_Unmonitored, Create_Failure, Uneventful
<1>9. CASE Disable_Polling(t) \/ Disable_Return(t) \/ Register_Source(t) \/ Register_Failure(t)
           \/ Unregister_Source(t)
  <2>1. UNCHANGED <<requesting, aemMonitor, op, state>> /\ pc[t] # "aborting"
    BY <1>9 DEF Disable_Polling, Disable_Return, Register_Source, Register_Failure,
                Unregister_Source
  <2>2. \E p \in {"disabling", "disabled", "added", "enabling"} : pc' = [pc EXCEPT ![t] = p]
    BY <1>9 DEF Disable_Polling, Disable_Return, Register_Source, Register_Failure,
                Unregister_Source
  <2>3. QED BY <1>1, <2>1, <2>2, UneventfulCalm DEF Uneventful
<1>10. ASSUME NEW s \in Sources, Finalize_Endpoint(t, s) PROVE Calm'
  BY <1>1, <1>10, UneventfulCalm DEF Finalize_Endpoint, Can_Call, Uneventful
<1>11. QED
  BY <1>3, <1>4, <1>5, <1>6, <1>7, <1>8, <1>9, <1>10
  DEF Call_Inside, Call_Enter, Source_Calls

(* So does any other step.                                                 *)
LEMMA CalmOther ==
  ASSUME Sound, Calm,
         \/ \E t \in Tasks : \/ Job_Calls(t) \/ Request_Result_Ready(t)
                             \/ Check_Sources(t) \/ Check_Sources_Aborted(t)
         \/ \E t \in Transient : Invoke(t) \/ Abort_Run(t)
         \/ \E a \in Closers : (\E w \in BOOLEAN : Shutdown(a, w)) \/ Completion_Return(a)
  PROVE  Calm'
<1> USE ThreadsAssumption DEF Typed, TypeOK, Goto, taskVars, aemVars, clientVars, Threads
<1>1. Typed /\ CriticalHoldsLock
  BY DEF Sound
<1>2. ASSUME NEW t \in Tasks, NEW u \in Upcalls, Queue_Request_Job(t, u) PROVE Calm'
  BY <1>1, <1>2, UneventfulCalm DEF Queue_Request_Job, Uneventful
<1>3. ASSUME NEW t \in Tasks, NEW r \in Transient, Executed_Request(t, r) PROVE Calm'
  <2>1. UNCHANGED <<state, requesting, aemMonitor>>
    BY <1>3 DEF Executed_Request
  <2>2. CASE UNCHANGED <<pc, op>>
    BY <2>1, <2>2, UneventfulCalm DEF Uneventful
  <2>3. CASE /\ pc' = [pc EXCEPT ![t] = "notifying"] /\ requesting[r] /\ lock = None
             /\ op' = [op EXCEPT ![t] = [kind |-> "notify", arg |-> r, slot |-> 0,
                                         last |-> 0, ret |-> pc[t]]]
    <3>1. op'[t].arg = r /\ \A u \in Threads : u # t => pc'[u] # "notifying"
      BY <1>1, <2>3, FreeNotifies
    <3>2. Notifies'
      BY <2>1, <2>3, <3>1 DEF Notifies
    <3>3. Requested' /\ Aborts' /\ FirstMonitor'
      BY <1>1, <2>1, <2>3 DEF Calm, Requested, Aborts, FirstMonitor, SingleType
    <3>4. QED BY <3>2, <3>3 DEF Calm
  <2>4. QED BY <1>3, <2>2, <2>3 DEF Executed_Request, Has_Requesting_Task, Enter
<1>4. ASSUME NEW t \in Tasks, Disconnect(t) PROVE Calm'
  BY <1>4, UneventfulCalm DEF Disconnect, Uneventful
<1>5. ASSUME NEW t \in Tasks, Request_Result_Ready(t) PROVE Calm'
  BY <1>1, <1>5, UneventfulCalm DEF Request_Result_Ready, Uneventful
<1>6. ASSUME NEW t \in Tasks, Check_Sources(t) \/ Check_Sources_Aborted(t) PROVE Calm'
  BY <1>1, <1>6, UneventfulCalm DEF Check_Sources, Check_Sources_Aborted, Uneventful
<1>7. ASSUME NEW t \in Transient, Invoke(t) PROVE Calm'
  BY <1>1, <1>7, UneventfulCalm DEF Invoke, Uneventful
<1>8. ASSUME NEW t \in Transient, Abort_Run(t) PROVE Calm'
  <2>1. /\ UNCHANGED <<state, aemMonitor, op>> /\ t \in Timed /\ t \in Threads
        /\ pc' = [pc EXCEPT ![t] = "aborting"]
        /\ requesting' = [requesting EXCEPT ![t] = FALSE]
    BY <1>8 DEF Abort_Run, Tasks
  <2>2. Requested' /\ Aborts' /\ FirstMonitor'
    BY <1>1, <2>1 DEF Calm, Requested, Aborts, FirstMonitor, SingleType
  <2>3. ASSUME NEW u \in Threads, pc'[u] = "notifying"
        PROVE  /\ op'[u].arg \in Transient
               /\ requesting'[op'[u].arg] \/ pc'[op'[u].arg] = "aborting"
    <3>1. pc[u] = "notifying"
      BY <1>1, <2>1, <2>3
    <3>2. op[u].arg \in Transient /\ (requesting[op[u].arg] \/ pc[op[u].arg] = "aborting")
      BY <3>1 DEF Calm, Notifies
    <3>3. QED BY <1>1, <2>1, <3>2 DEF Tasks
  <2>4. QED BY <2>2, <2>3 DEF Calm, Notifies
<1>9. ASSUME NEW a \in Closers, NEW w \in BOOLEAN, Shutdown(a, w) PROVE Calm'
  BY <1>1, <1>9, UneventfulCalm DEF Shutdown, Uneventful
<1>10. ASSUME NEW a \in Closers, Completion_Return(a) PROVE Calm'
  BY <1>1, <1>10, UneventfulCalm DEF Completion_Return, Uneventful
<1>11. QED
  BY <1>2, <1>3, <1>4, <1>5, <1>6, <1>7, <1>8, <1>9, <1>10 DEF Job_Calls

(* Every step keeps the invariant, and has its exception explained.        *)
LEMMA CalmStep ==
  ASSUME Sound, Traced, Steady, Calm, [Next]_vars
  PROVE  Calm' /\ Explained
<1>1. CASE UNCHANGED vars
  BY <1>1, UneventfulCalm DEF Explained, Uneventful, vars, taskVars, aemVars, clientVars
<1>2. CASE Next
  <2>1. Orderly /\ SlotsFilled /\ Registered
    BY <1>2 DEF Next, Traced, Steady, Inserted
  <2>2. QED
    BY <1>2, <2>1, CalmTask, CalmCall, CalmOther, ExplainedTask, ExplainedCall, ExplainedOther
    DEF Next
<1>3. QED BY <1>1, <1>2

(* What the other modules prove holds in every state.                      *)
LEMMA SoundAlways == Spec => [](Sound /\ Steady)
<1>1. Init => StatePlace
  BY DEF Init, StatePlace
<1>2. Typed /\ Summarized /\ Tables /\ StatePlace /\ [Next]_vars => StatePlace'
  BY PlaceStep DEF Summarized, Tables
<1>3. Spec => []StatePlace
  BY <1>1, <1>2, SummarizedAlways, TracedAlways, PTL DEF Spec
<1>4. Init => Steady
  BY DEF Init, Steady, Inserted, Settled, HeldAgrees, CarriedAgrees, Kept, Live, SlotsFilled, SlotFilled,
         Registered, NoOp
<1>5. Typed /\ Traced /\ Known /\ Steady /\ [Next]_vars => Steady'
  BY SteadyStep
<1>6. Spec => []Steady
  BY <1>4, <1>5, TracedAlways, PTL DEF Spec
<1>7. Typed /\ Sleepers /\ Tables /\ Summarized /\ StatePlace => Sound
  BY DEF Sleepers, Summarized, Sound
<1>8. QED BY <1>3, <1>6, <1>7, SummarizedAlways, TracedAlways, PTL

(* The invariant holds in every state.                                     *)
LEMMA CalmAlways == Spec => []Calm
<1>1. Init => Calm
  BY ThreadsAssumption DEF Init, Calm, Requested, Notifies, Aborts, FirstMonitor
<1>2. Sound /\ Traced /\ Steady /\ Calm /\ [Next]_vars => Calm'
  BY CalmStep
<1>3. QED BY <1>1, <1>2, SoundAlways, TracedAlways, PTL DEF Spec

(* For any number of threads, sources, monitors and requests, with         *)
(* timeouts, failing registrations and any types: the critical section     *)
(* raises an exception only when an aborted client is notified, when an    *)
(* aborted client's request is or may be completed, for a source whose     *)
(* registration fails, or for a monitor that finds no slot.                *)
THEOREM ExceptionsCorrect == Spec => ExceptionExplained
<1>1. Sound /\ Traced /\ Steady /\ Calm /\ [Next]_vars => [Explained]_vars
  BY CalmStep
<1>2. Spec => [][Explained]_vars
  BY <1>1, CalmAlways, SoundAlways, TracedAlways, PTL DEF Spec
<1>3. QED BY <1>2 DEF ExceptionExplained, Explained

(* Where no client is aborted, no registration fails and all sources are   *)
(* of one type, no exception is raised.  Each condition is needed: without *)
(* it one of the causes above occurs.                                      *)
THEOREM ExceptionFree == Spec => [](Undisturbed => NoException)
<1>1. Init => (Undisturbed => NoException)
  BY DEF Init, NoException
<1>2. /\ Sound /\ Traced /\ Steady /\ Calm /\ [Next]_vars
      /\ (Undisturbed => NoException)
      => (Undisturbed => NoException)'
  <2> SUFFICES ASSUME Sound, Traced, Steady, Calm, [Next]_vars, Undisturbed, NoException
               PROVE  UNCHANGED error
    BY DEF Undisturbed, SingleType, NoException
  <2>1. ASSUME NEW t \in Threads, Exception_Cause(t) PROVE FALSE
    <3>1. \A u \in Threads : pc[u] # "aborting"
      BY DEF Calm, Aborts, Undisturbed
    <3>2. CASE pc[t] = "notifying" /\ pc[op[t].arg] = "aborting"
      BY <3>1, <3>2 DEF Calm, Notifies, Threads, Tasks
    <3>3. CASE pc[t] = "create" /\ Monitor_Count = Maximum_Number_Of_Monitors
      BY <3>3 DEF Calm, FirstMonitor, Undisturbed, Monitor_Count, Maximum_Number_Of_Monitors
    <3>4. QED BY <2>1, <3>1, <3>2, <3>3 DEF Exception_Cause, Undisturbed
  <2>2. QED BY <2>1, CalmStep DEF Explained
<1>3. QED BY <1>1, <1>2, CalmAlways, SoundAlways, TracedAlways, PTL DEF Spec

(* In these configurations no source is lost or duplicated either: the     *)
(* condition of AccountedCorrect, that no exception was raised, is met.    *)
THEOREM AccountedFree == Spec => [](Undisturbed => SourceAccounted)
<1>1. Undisturbed => Timed = {}
  BY DEF Undisturbed
<1>2. QED BY <1>1, ExceptionFree, AccountedCorrect, PTL

----------------------------------------------------------------------------
(* No lost wakeup for polling                                              *)

(* The slots that need a polling task, the tasks that will go through      *)
(* Schedule_Task by themselves or tell others when they leave, and the     *)
(* slots on which a thread in the critical section is still to call        *)
(* Enable_Polling.                                                         *)
Needy == {J \in Slots : Needs_Polling(J)}
Responsible == {u \in Tasks : state[u] # "none" /\ u \notin onList /\ ~Polls(u)}
Serving == {"disabled", "added", "enabling"}
Served == {J \in Slots : \E t \in Threads : pc[t] \in Serving /\ op[t].slot = J}

(* Every slot of N has somebody to see to it; when both slots need         *)
(* polling, the two have somebody each, because a task polls only one.     *)
Covered(N, R, S) ==
  /\ \A J \in N : R # {} \/ J \in S
  /\ N = Slots => (\E u, v \in R : u # v) \/ (R # {} /\ S # {})

(* The inductive invariant behind NoLostPoll.                              *)
PollsCovered ==
  /\ idleWait # {} => Covered(Needy, Responsible, Served)
  /\ (\E t \in Tasks : pc[t] = "goidle") => Needy = {}

(* The ways in which a step keeps the slots covered: nobody is lost;       *)
LEMMA CoverKept ==
  ASSUME NEW N, NEW R, NEW S, NEW N2, NEW R2, NEW S2, S \subseteq Slots, Covered(N, R, S),
         N2 \subseteq N, N \subseteq Slots, R \subseteq R2, S \cap N2 \subseteq S2
  PROVE  Covered(N2, R2, S2)
BY DEF Covered

(* a responsible task begins to poll;                                      *)
LEMMA CoverPoll ==
  ASSUME NEW N, NEW R, NEW N2, NEW R2, NEW S2, Covered(N, R, {}), N \subseteq Slots,
         NEW t \in R, NEW J \in N, N2 \subseteq N \ {J}, R \ {t} \subseteq R2
  PROVE  Covered(N2, R2, S2)
<1>1. ASSUME NEW K \in N2 PROVE R2 # {}
  <2>1. \A L \in Slots : L = J \/ L = K
    BY <1>1 DEF Slots, Maximum_Number_Of_Monitors
  <2>2. N = Slots
    BY <1>1, <2>1
  <2>3. QED BY <2>2 DEF Covered
<1>2. N2 # Slots
  OBVIOUS
<1>3. QED BY <1>1, <1>2 DEF Covered

(* a task that polled becomes responsible, and its slot may need polling;  *)
LEMMA CoverPolled ==
  ASSUME NEW N, NEW R, NEW N2, NEW R2, NEW S2, Covered(N, R, {}),
         NEW t, t \notin R, NEW J, N2 \subseteq N \cup {J}, R \cup {t} \subseteq R2
  PROVE  Covered(N2, R2, S2)
<1>1. ASSUME N2 = Slots PROVE \E u, v \in R2 : u # v
  <2>1. PICK K \in Slots : K # J
    BY DEF Slots, Maximum_Number_Of_Monitors
  <2>2. R # {}
    BY <1>1, <2>1 DEF Covered
  <2>3. QED BY <2>2
<1>2. QED BY <1>1 DEF Covered

(* a responsible task leaves and another one is awakened;                  *)
LEMMA CoverLeave ==
  ASSUME NEW N, NEW R, NEW R2, NEW S2, Covered(N, R, {}),
         NEW t, NEW w, w \notin R, (R \ {t}) \cup {w} \subseteq R2
  PROVE  Covered(N, R2, S2)
BY DEF Covered

(* a thread begins to change the list of slot J;                           *)
LEMMA CoverBegin ==
  ASSUME NEW N, NEW R, NEW S, NEW N2, NEW R2, NEW S2, Covered(N, R, S),
         NEW J \in S2, S \subseteq {J}, N2 \subseteq N \cup {J}, R \subseteq R2
  PROVE  Covered(N2, R2, S2)
<1>1. ASSUME N2 = Slots PROVE R2 # {}
  <2>1. PICK K \in Slots : K # J
    BY DEF Slots, Maximum_Number_Of_Monitors
  <2>2. QED BY <1>1, <2>1 DEF Covered
<1>2. QED BY <1>1 DEF Covered

(* and it ends, having awakened a task if the slot needs polling.          *)
LEMMA CoverEnd ==
  ASSUME NEW N, NEW R, NEW S, NEW N2, NEW R2, NEW S2, Covered(N, R, S), NEW J \in Slots,
         S \subseteq {J}, N2 \subseteq N, R \subseteq R2,
         J \in N2 => \E w : w \notin R /\ w \in R2
  PROVE  Covered(N2, R2, S2)
<1>1. CASE J \in N2
  BY <1>1 DEF Covered
<1>2. CASE J \notin N2
  BY <1>2 DEF Covered
<1>3. QED BY <1>1, <1>2

(* Try_Allocate_One_Task with the lock held by a task that is not new      *)
(* awakes a task, if one is on the list, and a permanent one if there is   *)
(* one: the summary c counts it.                                           *)
LEMMA TryAwakes ==
  ASSUME Sound, NEW t \in Threads, lock = t, pc[t] # "schedule", onList # {}, NEW c,
         c["Any"]["Unscheduled"] = summary["Any"]["Unscheduled"],
         c["Any"]["Idle"] = summary["Any"]["Idle"],
         Try_Allocate_One_Task(c, TRUE)
  PROVE  \E w \in onList :
           Awake_Idle_Task(w) /\ (onList \cap Permanent # {} => w \in Permanent)
<1> USE DEF Sound
<1>1. Counted("Any", "Unscheduled") = {}
  BY DEF Counted, StatePlace, CriticalHoldsLock, Critical, Threads
<1>2. Get_Count(c, "Any", "Unscheduled") = 0
  <2>1. Get_Count(summary, "Any", "Unscheduled") = Cardinality(Counted("Any", "Unscheduled"))
    BY DEF SummaryExact, Any_Task_Kind, Any_Task_State, Task_State
  <2>2. QED BY <1>1, <2>1, FS_EmptySet DEF Get_Count
<1>3. PICK w \in onList : TRUE
  OBVIOUS
<1>4. w \in Counted("Any", "Idle")
  BY DEF Counted, SleepersOnList, Typed, TypeOK, Kind_Match
<1>5. Get_Count(c, "Any", "Idle") > 0
  <2>1. Get_Count(summary, "Any", "Idle") = Cardinality(Counted("Any", "Idle"))
    BY DEF SummaryExact, Any_Task_Kind, Any_Task_State, Task_State
  <2>2. IsFiniteSet(Counted("Any", "Idle"))
    <3>1. Counted("Any", "Idle") \subseteq Threads
      BY DEF Counted, Threads
    <3>2. QED BY <3>1, FiniteAssumption, FS_Subset
  <2>3. Cardinality(Counted("Any", "Idle")) \in Nat /\ Cardinality(Counted("Any", "Idle")) # 0
    BY <1>4, <2>2, FS_CardinalityType, FS_EmptySet
  <2>4. QED BY <2>1, <2>3 DEF Get_Count
<1>6. /\ Awakable(TRUE) # {} /\ Awakable(TRUE) \subseteq onList
      /\ onList \cap Permanent # {} => Awakable(TRUE) \subseteq Permanent
  BY DEF Awakable, Typed, TypeOK, Tasks
<1>7. \E u \in Awakable(TRUE) : Awake_Idle_Task(u)
  <2>1. ~(Get_Count(c, "Any", "Unscheduled") > 0)
    BY <1>2
  <2>2. (IF TRUE THEN "Any" ELSE "Permanent") = "Any"
    OBVIOUS
  <2>3. QED BY <1>5, <1>6, <2>1, <2>2, Zenon DEF Try_Allocate_One_Task
<1>8. QED BY <1>6, <1>7

(* An awakened task becomes responsible.                                   *)
LEMMA AwakenedResponsible ==
  ASSUME Sound, NEW w \in onList, Awake_Idle_Task(w), UNCHANGED state
  PROVE  w \notin Responsible /\ w \in Responsible'
BY DEF Sound, Responsible, Awake_Idle_Task, SleepersOnList, Typed, TypeOK, Polls

(* Responsible tasks remain so in a step that changes no state, adds       *)
(* nobody to the list and is not one of Schedule_Task.                     *)
LEMMA ResponsibleKept ==
  ASSUME Sound, UNCHANGED state, onList' \subseteq onList,
         \A u \in Tasks : pc'[u] = pc[u] \/ pc[u] # "schedule"
  PROVE  Responsible \subseteq Responsible'
BY DEF Sound, Tables, BlockedAgrees, Responsible, Polls

(* A slot begins to need polling only when its list gets longer or a wait  *)
(* or a poll ends.                                                         *)
LEMMA NeedyKept ==
  ASSUME TypeOK, UNCHANGED <<aemMonitor, aemTI, abortCounter>>,
         \A m \in Monitors : sources'[m] \subseteq sources[m]
  PROVE  Needy' \subseteq Needy
BY DEF Needy, Needs_Polling, Has_Sources, TypeOK

(* While a thread holds the lock, or nobody does, nobody else serves a     *)
(* slot and nobody else is about to sleep.                                 *)
LEMMA NobodyElse ==
  ASSUME Sound, NEW t \in Threads, lock \in {t, None}
  PROVE  \A u \in Threads : u # t => pc[u] \notin Serving /\ pc[u] # "goidle"
BY ThreadsAssumption DEF Sound, CriticalHoldsLock, Critical, Serving, Threads

(* The steps that lose nobody.                                             *)
Peaceful ==
  /\ Needy' \subseteq Needy
  /\ Responsible \subseteq Responsible'
  /\ idleWait' \subseteq idleWait
  /\ \A u \in Threads :
       pc[u] \in Serving => pc'[u] \in Serving /\ op'[u].slot = op[u].slot
  /\ \A u \in Tasks : pc'[u] = "goidle" => pc[u] = "goidle"

(* Such a step leaves every slot that needs polling covered.               *)
LEMMA PeacefulCovered ==
  ASSUME PollsCovered, Peaceful
  PROVE  PollsCovered'
<1>1. Served \subseteq Slots /\ Needy \subseteq Slots /\ Served \subseteq Served'
  BY DEF Served, Needy, Peaceful
<1>2. idleWait' # {} => Covered(Needy', Responsible', Served')
  BY <1>1, CoverKept DEF PollsCovered, Peaceful
<1>3. QED BY <1>2 DEF PollsCovered, Peaceful, Covered

(* A task that schedules itself is responsible, and the only one to act.   *)
LEMMA SchedulingResponsible ==
  ASSUME Sound, NEW t \in Tasks, Scheduling(t)
  PROVE  t \in Responsible /\ Served = {}
<1>1. t \in Threads /\ lock = t /\ pc[t] = "schedule"
  BY DEF Scheduling, Threads
<1>2. state[t] # "none" /\ ~Polls(t)
  BY <1>1 DEF Sound, StateAgrees, Calling, Polls
<1>3. t \notin onList
  BY <1>1 DEF Sound, SleepersOnList, IdleAgrees
<1>4. Served = {}
  BY <1>1, NobodyElse DEF Served, Serving
<1>5. QED BY <1>2, <1>3, <1>4 DEF Responsible

(* A task that has ended its poll becomes responsible for its slot.        *)
LEMMA PolledCovered ==
  ASSUME Sound, PollsCovered, NEW t \in Tasks, Polls(t), lock \in {t, None},
         pc[t] # "goidle", pc[t] \notin Serving,
         pc' = [pc EXCEPT ![t] = pc'[t]], pc'[t] \in {"schedule", "leaving"},
         state'[t] # "none", \A u \in Tasks : u # t => state'[u] = state[u],
         onList' \subseteq onList, idleWait' \subseteq idleWait,
         UNCHANGED <<aemMonitor, abortCounter, sources>>,
         NEW J \in Slots, aemTI' = [aemTI EXCEPT ![J] = None]
  PROVE  PollsCovered'
<1> USE DEF Sound, Typed, TypeOK
<1>1. \A u \in Threads : pc[u] \notin Serving /\ pc[u] # "goidle"
  BY NobodyElse DEF Threads
<1>2. Served = {}
  BY <1>1 DEF Served
<1>3. Needy' \subseteq Needy \cup {J}
  BY DEF Needy, Needs_Polling, Has_Sources
<1>4. t \notin Responsible /\ t \notin onList
  BY DEF Responsible, Polls, SleepersOnList
<1>5. Responsible \cup {t} \subseteq Responsible'
  BY <1>4 DEF Responsible, Polls, Threads
<1>6. ASSUME idleWait' # {} PROVE Covered(Needy', Responsible', Served')
  <2>1. Covered(Needy, Responsible, {})
    BY <1>2, <1>6 DEF PollsCovered
  <2>2. t \notin Responsible
    BY <1>4
  <2> HIDE DEF Sound, Typed, TypeOK
  <2>3. QED BY <1>3, <1>5, <2>1, <2>2, CoverPolled
<1>7. \A u \in Tasks : pc'[u] # "goidle"
  BY <1>1 DEF Threads
<1>8. QED BY <1>6, <1>7 DEF PollsCovered

(* The steps of a task.                                                    *)
LEMMA CoveredTask ==
  ASSUME Sound, PollsCovered, NEW t \in Tasks, Task_Inside(t) \/ Task_Enter(t)
  PROVE  PollsCovered'
<1> USE ThreadsAssumption
    DEF Typed, TypeOK, Goto, taskVars, aemVars, waitVars, idleVars, Set_State, Threads
<1>1. Typed
  BY DEF Sound
<1>2. CASE Schedule_Terminated(t) \/ Schedule_Exit(t) \/ Schedule_Job(t)
  <2>1. /\ Scheduling(t) /\ UNCHANGED <<aemVars, sources, onList, idleWait>>
        /\ \E p \in {"leaving", "running"} : pc' = [pc EXCEPT ![t] = p]
        /\ \A u \in Tasks : u # t => state'[u] = state[u]
        /\ state'[t] \in {"Terminated", "Running"}
    BY <1>1, <1>2 DEF Schedule_Terminated, Schedule_Exit, Schedule_Job
  <2>2. t \in Responsible /\ Served = {} /\ lock = t
    BY <2>1, SchedulingResponsible DEF Scheduling
  <2>3. Needy' \subseteq Needy
    BY <1>1, <2>1, NeedyKept
  <2>4. Responsible \subseteq Responsible'
    BY <1>1, <2>1, <2>2 DEF Responsible, Polls
  <2>5. \A u \in Threads : pc[u] \notin Serving
    BY <2>1, <2>2, NobodyElse DEF Scheduling, Serving
  <2>6. Peaceful
    BY <1>1, <2>1, <2>3, <2>4, <2>5 DEF Peaceful
  <2>7. QED BY <2>6, PeacefulCovered
<1>3. CASE Schedule_Poll(t)
  <2>1. PICK J \in Slots : Needs_Polling(J) /\ aemTI' = [aemTI EXCEPT ![J] = t]
    BY <1>3 DEF Schedule_Poll, Need_Polling_Task
  <2>2. /\ Scheduling(t) /\ UNCHANGED <<aemMonitor, abortCounter, sources, onList, idleWait>>
        /\ pc' = [pc EXCEPT ![t] = "blocked"] /\ state' = [state EXCEPT ![t] = "Blocked"]
    BY <1>3 DEF Schedule_Poll
  <2>3. t \in Responsible /\ Served = {} /\ lock = t /\ pc[t] = "schedule"
    BY <2>2, SchedulingResponsible DEF Scheduling
  <2>4. J \in Needy /\ Needy \subseteq Slots /\ Needy' \subseteq Needy \ {J}
    BY <1>1, <2>1, <2>2 DEF Needy, Needs_Polling, Has_Sources
  <2>5. Responsible \ {t} \subseteq Responsible'
    BY <1>1, <2>2 DEF Responsible, Polls
  <2>6. idleWait' # {} => Covered(Needy', Responsible', Served')
    BY <2>2, <2>3, <2>4, <2>5, CoverPoll DEF PollsCovered
  <2>7. \A u \in Tasks : pc'[u] # "goidle"
    BY <1>1, <2>2, <2>3, NobodyElse
  <2>8. QED BY <2>6, <2>7 DEF PollsCovered
<1>4. CASE Schedule_Idle(t) \/ Idle_Terminate(t) \/ Idle_Wait(t)
  <2>1. Needy = {}
    BY <1>4 DEF Schedule_Idle, Idle_Terminate, Idle_Wait, PollsCovered, Needy
  <2>2. UNCHANGED <<aemVars, sources>>
    BY <1>4 DEF Schedule_Idle, Idle_Terminate, Idle_Wait
  <2>3. Needy' = {}
    BY <1>1, <2>1, <2>2, NeedyKept
  <2>4. QED BY <2>3 DEF PollsCovered, Covered, Slots, Maximum_Number_Of_Monitors
<1>5. CASE Unregister_Task(t)
  <2>1. /\ pc[t] = "leaving" /\ lock = t /\ state' = [state EXCEPT ![t] = "none"]
        /\ pc' = [pc EXCEPT ![t] = IF t \in MayExit THEN "unborn" ELSE "out"]
        /\ UNCHANGED <<aemMonitor, aemTI, abortCounter, sources>>
        /\ Task_Unregistered(Task_Removed(summary, Kind(t)))
    BY <1>5 DEF Unregister_Task, Leave
  <2>2. Needy' = Needy
    BY <2>1 DEF Needy, Needs_Polling, Has_Sources
  <2>3. \A u \in Threads : pc[u] \notin Serving /\ pc[u] # "goidle"
    BY <2>1, NobodyElse DEF Serving
  <2>4. Served = {} /\ \A u \in Tasks : pc'[u] # "goidle"
    BY <1>1, <2>1, <2>3 DEF Served
  <2>5. CASE Needy = {}
    BY <2>2, <2>5 DEF PollsCovered, Covered, Slots, Maximum_Number_Of_Monitors
  <2>6. CASE Needy # {}
    <3> SUFFICES ASSUME idleWait' # {} PROVE Covered(Needy', Responsible', Served')
      BY <2>4 DEF PollsCovered
    <3>1. PICK c : c = Task_Removed(summary, Kind(t))
      OBVIOUS
    <3>2. Try_Allocate_One_Task(c, TRUE)
      BY <2>1, <2>6, <3>1 DEF Task_Unregistered, Needy
    <3>3. /\ c["Any"]["Unscheduled"] = summary["Any"]["Unscheduled"]
          /\ c["Any"]["Idle"] = summary["Any"]["Idle"]
      BY <3>1 DEF Task_Removed, Adjust, Any_Task_Kind, Any_Task_State, Task_State
    <3>4. idleWait # {} /\ onList # {}
      <4>1. idleWait' \subseteq idleWait
        BY <1>1, <3>2, TryAllocates DEF Allocates, Awakes
      <4>2. QED BY <4>1 DEF Sound, SleepersOnList
    <3>5. PICK w \in onList : Awake_Idle_Task(w)
      BY <2>1, <3>2, <3>3, <3>4, TryAwakes
    <3>6. state[w] = "Idle" /\ w # t /\ w \in Tasks
      BY <1>1, <2>1 DEF Sound, SleepersOnList, IdleAgrees
    <3>7. w \notin Responsible /\ (Responsible \ {t}) \cup {w} \subseteq Responsible'
      BY <1>1, <2>1, <3>5, <3>6 DEF Responsible, Awake_Idle_Task, Polls
    <3>8. Covered(Needy, Responsible, {})
      BY <2>4, <3>4 DEF PollsCovered
    <3>9. Covered(Needy, Responsible', Served')
      BY <3>7, <3>8, CoverLeave
    <3>10. QED BY <2>2, <3>9
  <2>7. QED BY <2>5, <2>6
<1>6. ASSUME NEW s \in Sources, Queue_Event_Job(t, s) PROVE PollsCovered'
  <2>1. Allocates
    BY <1>1, <1>6, TryAllocates, NothingAllocates DEF Queue_Event_Job
  <2>2. onList' \subseteq onList /\ idleWait' \subseteq idleWait
    BY <2>1 DEF Allocates, Awakes
  <2>3. UNCHANGED <<pc, op, state, aemVars, sources>>
    BY <1>6 DEF Queue_Event_Job
  <2>4. Needy' \subseteq Needy /\ Responsible \subseteq Responsible'
    BY <1>1, <2>2, <2>3, NeedyKept, ResponsibleKept
  <2>5. QED BY <2>2, <2>3, <2>4, PeacefulCovered DEF Peaceful
<1>7. CASE End_Of_Check_Sources(t)
  <2>1. PICK J \in Slots : Polling_Ended(J)
    BY <1>7 DEF End_Of_Check_Sources, Index
  <2>2. /\ aemTI' = [aemTI EXCEPT ![J] = None] /\ pc[t] = "queueing" /\ lock = t
        /\ UNCHANGED <<state, aemMonitor, abortCounter, sources, onList, idleWait>>
        /\ pc' = [pc EXCEPT ![t] = "schedule"]
    BY <1>7, <2>1 DEF End_Of_Check_Sources, Polling_Ended, Inside
  <2>3. Polls(t) /\ state[t] = "Blocked"
    BY <2>2 DEF Sound, Tables, BlockedAgrees, Polls
  <2>4. pc' = [pc EXCEPT ![t] = pc'[t]] /\ pc'[t] \in {"schedule", "leaving"}
    BY <1>1, <2>2
  <2>5. QED BY <1>1, <2>2, <2>3, <2>4, PolledCovered DEF Serving
<1>8. CASE Terminate_Task(t)
  <2>1. /\ pc[t] = "aborting" /\ lock = None /\ state' = [state EXCEPT ![t] = "Terminated"]
        /\ pc' = [pc EXCEPT ![t] = "leaving"] /\ onList' = onList \ {t}
        /\ UNCHANGED <<aemMonitor, abortCounter, sources, idleWait, op>>
    BY <1>8 DEF Terminate_Task, Enter, Leave_State
  <2>2. CASE state[t] = "Blocked"
    <3>1. PICK J \in Slots : Polling_Ended(J)
      BY <1>8, <2>2 DEF Terminate_Task, Leave_State, Index
    <3>2. aemTI' = [aemTI EXCEPT ![J] = None] /\ Polls(t)
      BY <2>1, <2>2, <3>1 DEF Polling_Ended, Polls
    <3>3. pc' = [pc EXCEPT ![t] = pc'[t]] /\ pc'[t] \in {"schedule", "leaving"}
      BY <1>1, <2>1
    <3>4. /\ state'[t] # "none" /\ \A u \in Tasks : u # t => state'[u] = state[u]
          /\ onList' \subseteq onList
      BY <1>1, <2>1
    <3>5. QED BY <1>1, <2>1, <3>2, <3>3, <3>4, PolledCovered DEF Serving
  <2>3. CASE state[t] # "Blocked"
    <3>1. UNCHANGED aemTI
      BY <1>8, <2>3 DEF Terminate_Task, Leave_State
    <3>2. Needy' \subseteq Needy
      BY <1>1, <2>1, <3>1, NeedyKept
    <3>3. Responsible \subseteq Responsible'
      BY <1>1, <2>1 DEF Responsible, Polls
    <3>4. QED BY <1>1, <2>1, <3>2, <3>3, PeacefulCovered DEF Peaceful, Serving
  <2>4. QED BY <2>2, <2>3
<1>9. CASE Run(t)
  <2>1. /\ pc' = [pc EXCEPT ![t] = "schedule"] /\ state' = [state EXCEPT ![t] = "Unscheduled"]
        /\ UNCHANGED <<aemVars, sources, onList, idleWait, op>>
        /\ pc[t] \in {"out", "requested"}
    BY <1>9 DEF Run, Register_Task
  <2>2. Needy' \subseteq Needy
    BY <1>1, <2>1, NeedyKept
  <2>3. Responsible \subseteq Responsible'
    BY <1>1, <2>1 DEF Responsible, Polls
  <2>4. QED BY <1>1, <2>1, <2>2, <2>3, PeacefulCovered DEF Peaceful, Serving
<1>10. CASE Idle_Return(t)
  <2>1. /\ UNCHANGED <<state, aemVars, sources, idleWait, op>> /\ onList' \subseteq onList
        /\ pc[t] = "idle" /\ pc'[t] = "schedule"
        /\ \A u \in Threads : u # t =>
             pc'[u] = pc[u] \/ (pc[u] = "unborn" /\ pc'[u] = "out")
    BY <1>1, <1>10 DEF Idle_Return
  <2>2. Needy' \subseteq Needy
    BY <1>1, <2>1, NeedyKept
  <2>3. Responsible \subseteq Responsible'
    BY <2>1, ResponsibleKept
  <2>4. QED BY <2>1, <2>2, <2>3, PeacefulCovered DEF Peaceful, Serving
<1>11. CASE Reenter(t) \/ Job_Completed(t)
  <2>1. /\ UNCHANGED <<state, aemVars, sources, idleWait, onList, op>>
        /\ pc[t] \in {"polled", "running"}
        /\ \E p \in {"queueing", "schedule"} : pc' = [pc EXCEPT ![t] = p]
    BY <1>11 DEF Reenter, Job_Completed
  <2>2. Needy' \subseteq Needy
    BY <1>1, <2>1, NeedyKept
  <2>3. Responsible \subseteq Responsible'
    BY <1>1, <2>1, ResponsibleKept
  <2>4. QED BY <1>1, <2>1, <2>2, <2>3, PeacefulCovered DEF Peaceful, Serving
<1>12. CASE Abort_Request_Fails(t)
  <2>1. /\ UNCHANGED <<pc, state, aemVars, sources, idleWait, onList, op>>
        /\ pc[t] = "aborting"
    BY <1>12 DEF Abort_Request_Fails
  <2>2. Needy' \subseteq Needy
    BY <1>1, <2>1, NeedyKept
  <2>3. Responsible \subseteq Responsible'
    BY <1>1, <2>1, ResponsibleKept
  <2>4. QED BY <1>1, <2>1, <2>2, <2>3, PeacefulCovered DEF Peaceful, Serving
<1>13. QED
  BY <1>2, <1>3, <1>4, <1>5, <1>6, <1>7, <1>8, <1>9, <1>10, <1>11, <1>12
  DEF Task_Inside, Task_Enter, Schedule_Task

(* A thread that has the lock begins to work on the list of slot J.        *)
LEMMA BeginCovered ==
  ASSUME Sound, PollsCovered, NEW t \in Threads, lock \in {t, None}, pc[t] # "goidle",
         NEW J \in Slots, Served \subseteq {J}, J \in Served', Needy' \subseteq Needy \cup {J},
         UNCHANGED <<state, onList, idleWait>>, pc[t] # "schedule", pc'[t] # "goidle",
         \A u \in Threads : u # t => pc'[u] = pc[u]
  PROVE  PollsCovered'
<1>1. \A u \in Tasks : pc'[u] # "goidle"
  BY NobodyElse DEF Threads
<1>2. Responsible \subseteq Responsible'
  BY ResponsibleKept DEF Threads
<1>3. ASSUME idleWait' # {} PROVE Covered(Needy', Responsible', Served')
  <2>1. Covered(Needy, Responsible, Served)
    BY <1>3 DEF PollsCovered
  <2>2. QED BY <1>2, <2>1, CoverBegin
<1>4. QED BY <1>1, <1>3 DEF PollsCovered

(* It ends with Enable_Polling.                                            *)
LEMMA EnableCovered ==
  ASSUME Sound, PollsCovered, NEW t \in Threads, lock = t, pc[t] \in Serving,
         op[t].slot \in Slots, Enable_Polling(op[t].slot),
         UNCHANGED <<state, aemVars, sources>>, pc'[t] # "goidle",
         \A u \in Threads : u # t => pc'[u] = pc[u]
  PROVE  PollsCovered'
<1>1. Typed
  BY DEF Sound
<1>2. PICK J \in Slots : J = op[t].slot
  OBVIOUS
<1>3. \A u \in Threads : u # t => pc[u] \notin Serving /\ pc[u] # "goidle"
  BY NobodyElse
<1>4. Served \subseteq {J} /\ \A u \in Tasks : pc'[u] # "goidle"
  BY <1>2, <1>3 DEF Served, Threads
<1>5. Allocates
  BY <1>1, EnableAllocates DEF Typed
<1>6. onList' \subseteq onList /\ idleWait' \subseteq idleWait
  BY <1>5 DEF Allocates, Awakes
<1>7. Needy' \subseteq Needy
  BY <1>1, NeedyKept DEF Typed, aemVars
<1>8. Responsible \subseteq Responsible'
  BY <1>6, ResponsibleKept DEF Serving, Threads
<1>9. ASSUME idleWait' # {} PROVE Covered(Needy', Responsible', Served')
  <2>1. Covered(Needy, Responsible, Served) /\ onList # {}
    BY <1>6, <1>9 DEF PollsCovered, Sound, SleepersOnList
  <2>2. ASSUME J \in Needy' PROVE \E w : w \notin Responsible /\ w \in Responsible'
    <3>1. abortCounter[J] = 0
      BY <1>7, <2>2 DEF Needy, Needs_Polling
    <3>2. Try_Allocate_One_Task(summary, TRUE)
      BY <1>2, <3>1 DEF Enable_Polling
    <3>3. PICK w \in onList : Awake_Idle_Task(w)
      BY <2>1, <3>2, TryAwakes DEF Serving
    <3>4. QED BY <3>3, AwakenedResponsible
  <2>3. QED BY <1>4, <1>7, <1>8, <2>1, <2>2, CoverEnd
<1>10. QED BY <1>4, <1>9 DEF PollsCovered

(* The calls into the ORB.                                                 *)
LEMMA CoveredCall ==
  ASSUME Sound, PollsCovered, NEW t \in Threads,
         Call_Inside(t) \/ Call_Enter(t) \/ Source_Calls(t)
  PROVE  PollsCovered'
<1> USE DEF Goto, taskVars, aemVars, waitVars, idleVars
<1>1. Typed /\ TypeOK /\ OpAgrees
  BY DEF Sound, Typed
<1>2. /\ pc \in [Threads -> Locations] /\ op \in [Threads -> Operation]
      /\ sources \in [Monitors -> SUBSET Sources]
      /\ aemMonitor \in [Slots -> Monitors \cup {None}] /\ abortCounter \in [Slots -> Int]
  BY <1>1 DEF TypeOK
<1>3. CASE Disable_Polling(t)
  <2>1. pc[t] = "disable" /\ op[t].slot \in Slots
    BY <1>1, <1>3 DEF Disable_Polling, OpAgrees
  <2>2. /\ UNCHANGED <<state, aemMonitor, aemTI, sources, onList, idleWait, op>>
        /\ \E p \in {"disabling", "disabled"} : pc' = [pc EXCEPT ![t] = p]
        /\ \/ UNCHANGED abortCounter
           \/ /\ aemTI[op[t].slot] # None
              /\ \A K \in Slots : K # op[t].slot => abortCounter'[K] = abortCounter[K]
    BY <1>2, <1>3 DEF Disable_Polling
  <2>3. Needy' \subseteq Needy
    BY <2>2 DEF Needy, Needs_Polling, Has_Sources
  <2>4. Responsible \subseteq Responsible'
    BY <1>2, <2>1, <2>2, ResponsibleKept
  <2>5. Peaceful
    BY <1>2, <2>1, <2>2, <2>3, <2>4 DEF Peaceful, Serving, Threads
  <2>6. QED BY <2>5, PeacefulCovered
<1>4. CASE Register_Unknown(t)
  <2>1. pc[t] = "disabled" /\ op[t].slot \in Slots /\ lock = t
    BY <1>1, <1>4 DEF Register_Unknown, OpAgrees, Inside
  <2>2. /\ Enable_Polling(op[t].slot) /\ UNCHANGED <<state, aemVars, sources>>
        /\ \E p \in {"disable", "create"} : pc' = [pc EXCEPT ![t] = p]
    BY <1>4 DEF Register_Unknown
  <2>3. QED BY <1>2, <2>1, <2>2, EnableCovered DEF Serving
<1>5. CASE Source_Done(t)
  <2>1. pc[t] = "enabling" /\ op[t].slot \in Slots /\ lock = t /\ op[t].ret \in {"out", "running"}
    BY <1>1, <1>2, <1>5 DEF Source_Done, OpAgrees, Leave, Operation
  <2>2. /\ Enable_Polling(op[t].slot) /\ UNCHANGED <<state, aemVars, sources>>
        /\ pc' = [pc EXCEPT ![t] = op[t].ret]
    BY <1>5 DEF Source_Done
  <2>3. QED BY <1>2, <2>1, <2>2, EnableCovered DEF Serving
<1>6. CASE Register_Source(t)
  <2>1. PICK J \in Slots : J = op[t].slot
    BY <1>1, <1>6 DEF Register_Source, OpAgrees
  <2>2. /\ pc[t] = "disabled" /\ lock = t /\ pc' = [pc EXCEPT ![t] = "added"]
        /\ UNCHANGED <<state, onList, idleWait, op, aemVars>>
        /\ sources' = [sources EXCEPT ![aemMonitor[J]] = @ \cup {op[t].arg}]
    BY <1>6, <2>1 DEF Register_Source, Inside
  <2>3. Needy' \subseteq Needy \cup {J}
    <3>1. ASSUME NEW K \in Slots, K # J, aemMonitor[K] # None
          PROVE  aemMonitor[K] \in Monitors /\ sources'[aemMonitor[K]] = sources[aemMonitor[K]]
      BY <1>2, <2>2, <3>1 DEF Sound, Tables, SlotsDistinct
    <3>2. QED BY <2>2, <3>1 DEF Needy, Needs_Polling, Has_Sources
  <2>4. Served \subseteq {J} /\ J \in Served'
    <3>1. \A u \in Threads : u # t => pc[u] \notin Serving
      BY <2>2, NobodyElse
    <3>2. pc'[t] \in Serving /\ op'[t].slot = J
      BY <1>2, <2>1, <2>2 DEF Serving
    <3>3. QED BY <2>1, <3>1, <3>2 DEF Served
  <2>5. QED BY <1>2, <2>2, <2>3, <2>4, BeginCovered
<1>7. CASE Create_Monitor(t)
  <2>1. pc[t] = "create" /\ lock = t /\ UNCHANGED <<state, onList, idleWait, aemTI, abortCounter>>
    BY <1>7 DEF Create_Monitor, Inside
  <2>2. PICK m \in Monitors :
          /\ \A J \in Slots : aemMonitor[J] # m
          /\ sources' = [sources EXCEPT ![m] = {op[t].arg}]
          /\ \/ /\ Monitor_Count < Maximum_Number_Of_Monitors
                /\ aemMonitor' = [aemMonitor EXCEPT ![Monitor_Count + 1] = m]
                /\ op' = [op EXCEPT ![t].slot = Monitor_Count + 1]
                /\ pc' = [pc EXCEPT ![t] = "added"]
             \/ UNCHANGED <<aemMonitor, op, pc>>
    BY <1>7 DEF Create_Monitor
  <2>3. ASSUME NEW K \in Slots, aemMonitor[K] # None
        PROVE  sources'[aemMonitor[K]] = sources[aemMonitor[K]]
    BY <1>2, <2>2, <2>3
  <2>4. CASE UNCHANGED <<aemMonitor, op, pc>>
    <3>1. Needy' \subseteq Needy
      BY <2>1, <2>3, <2>4 DEF Needy, Needs_Polling, Has_Sources
    <3>2. Responsible \subseteq Responsible'
      BY <2>1, <2>4, ResponsibleKept
    <3>3. QED BY <2>1, <2>4, <3>1, <3>2, PeacefulCovered DEF Peaceful
  <2>5. CASE /\ Monitor_Count < Maximum_Number_Of_Monitors
             /\ aemMonitor' = [aemMonitor EXCEPT ![Monitor_Count + 1] = m]
             /\ op' = [op EXCEPT ![t].slot = Monitor_Count + 1]
             /\ pc' = [pc EXCEPT ![t] = "added"]
    <3>1. PICK J \in Slots : J = Monitor_Count + 1
      BY <2>5 DEF Monitor_Count, Maximum_Number_Of_Monitors, Slots
    <3>2. Needy' \subseteq Needy \cup {J}
      BY <1>2, <2>1, <2>3, <2>5, <3>1 DEF Needy, Needs_Polling, Has_Sources
    <3>3. \A u \in Threads : pc[u] \notin Serving
      BY <2>1, NobodyElse DEF Serving
    <3>4. op'[t].slot = J /\ pc'[t] \in Serving
      BY <1>2, <2>5, <3>1 DEF Serving, Operation
    <3>5. Served \subseteq {J} /\ J \in Served'
      BY <3>3, <3>4 DEF Served
    <3>6. QED BY <1>2, <2>1, <2>5, <3>2, <3>5, BeginCovered
  <2>6. QED BY <2>2, <2>4, <2>5
<1>8. CASE Disable_Return(t)
  <2>1. PICK J \in Slots : J = op[t].slot
    BY <1>1, <1>8 DEF Disable_Return, OpAgrees
  <2>2. /\ pc[t] = "disabling" /\ lock = None /\ pc' = [pc EXCEPT ![t] = "disabled"]
        /\ UNCHANGED <<state, onList, idleWait, op, aemMonitor, aemTI, sources>>
        /\ \A K \in Slots : K # J => abortCounter'[K] = abortCounter[K]
    BY <1>2, <1>8, <2>1 DEF Disable_Return, Enter
  <2>3. Needy' \subseteq Needy \cup {J}
    BY <2>2 DEF Needy, Needs_Polling, Has_Sources
  <2>4. Served \subseteq {J} /\ J \in Served'
    <3>1. \A u \in Threads : pc[u] \notin Serving
      BY <2>2, NobodyElse DEF Serving
    <3>2. pc'[t] \in Serving /\ op'[t].slot = J
      BY <1>2, <2>1, <2>2 DEF Serving
    <3>3. QED BY <3>1, <3>2 DEF Served
  <2>5. QED BY <1>2, <2>2, <2>3, <2>4, BeginCovered
<1>9. CASE Event_Sources_Added(t)
  <2>1. Allocates
    BY <1>1, <1>9, TryAllocates, NothingAllocates DEF Event_Sources_Added
  <2>2. onList' \subseteq onList /\ idleWait' \subseteq idleWait
    BY <2>1 DEF Allocates, Awakes
  <2>3. /\ UNCHANGED <<state, aemMonitor, aemTI, abortCounter, sources, op>>
        /\ pc[t] = "added" /\ pc' = [pc EXCEPT ![t] = "enabling"]
    BY <1>9 DEF Event_Sources_Added
  <2>4. Needy' \subseteq Needy
    BY <1>1, <2>3, NeedyKept
  <2>5. Responsible \subseteq Responsible'
    BY <1>2, <2>2, <2>3, ResponsibleKept
  <2>6. Peaceful
    BY <1>2, <2>2, <2>3, <2>4, <2>5 DEF Peaceful, Serving, Threads
  <2>7. QED BY <2>6, PeacefulCovered
<1>10. CASE Unregister_Source(t) \/ Register_Failure(t) \/ Create_Failure(t)
            \/ Delete_Unmonitored(t)
  <2>1. /\ UNCHANGED <<state, aemVars, onList, idleWait, op>>
        /\ \A m \in Monitors : sources'[m] \subseteq sources[m]
        /\ \/ UNCHANGED pc
           \/ pc[t] = "disabled" /\ pc' = [pc EXCEPT ![t] = "enabling"]
    BY <1>2, <1>10 DEF Unregister_Source, Register_Failure, Create_Failure, Delete_Unmonitored
  <2>2. Needy' \subseteq Needy
    BY <1>1, <2>1, NeedyKept
  <2>3. Responsible \subseteq Responsible'
    <3>1. \A u \in Tasks : pc'[u] = pc[u] \/ pc[u] # "schedule"
      BY <1>2, <2>1 DEF Threads
    <3>2. QED BY <2>1, <3>1, ResponsibleKept
  <2>4. Peaceful
    BY <1>2, <2>1, <2>2, <2>3 DEF Peaceful, Serving, Threads
  <2>5. QED BY <2>4, PeacefulCovered
<1>11. CASE Delete_Source(t) \/ Source_Calls(t)
  <2>1. /\ UNCHANGED <<state, aemVars, onList, idleWait, sources>>
        /\ pc[t] \in {"deleting", "running", "out"}
        /\ \E p \in {"create", "disable", "deleting"} : pc' = [pc EXCEPT ![t] = p]
        /\ \A u \in Threads : u # t => op'[u] = op[u]
    BY <1>2, <1>11 DEF Delete_Source, Source_Calls, Insert_Source, Finalize_Endpoint, Can_Call
  <2>2. Needy' \subseteq Needy
    BY <1>1, <2>1, NeedyKept
  <2>3. Responsible \subseteq Responsible'
    BY <1>2, <2>1, ResponsibleKept
  <2>4. Peaceful
    BY <1>2, <2>1, <2>2, <2>3 DEF Peaceful, Serving, Threads
  <2>5. QED BY <2>4, PeacefulCovered
<1>12. QED
  BY <1>3, <1>4, <1>5, <1>6, <1>7, <1>8, <1>9, <1>10, <1>11 DEF Call_Inside, Call_Enter

(* The other steps.                                                        *)
LEMMA CoveredOther ==
  ASSUME Sound, PollsCovered,
         \/ \E t \in Tasks : \/ Job_Calls(t) \/ Request_Result_Ready(t)
                             \/ Check_Sources(t) \/ Check_Sources_Aborted(t)
         \/ \E t \in Transient : Invoke(t) \/ Abort_Run(t)
         \/ \E a \in Closers : (\E w \in BOOLEAN : Shutdown(a, w)) \/ Completion_Return(a)
  PROVE  PollsCovered'
<1> USE ThreadsAssumption DEF Goto, taskVars, aemVars, waitVars, idleVars
<1>1. Typed /\ TypeOK
  BY DEF Sound, Typed
<1>2. pc \in [Threads -> Locations] /\ sources \in [Monitors -> SUBSET Sources]
  BY <1>1 DEF TypeOK
<1>3. ASSUME NEW t \in Threads, pc[t] \in {"running", "notifying", "blocked", "out", "polled",
                                          "idle", "completing"},
             pc'[t] \notin {"goidle"}, \A u \in Threads : u # t => pc'[u] = pc[u] /\ op'[u] = op[u],
             UNCHANGED <<state, aemVars>>, onList' \subseteq onList, idleWait' \subseteq idleWait,
             \A m \in Monitors : sources'[m] \subseteq sources[m]
      PROVE  PollsCovered'
  <2>1. Needy' \subseteq Needy
    BY <1>1, <1>3, NeedyKept
  <2>2. Responsible \subseteq Responsible'
    BY <1>3, ResponsibleKept DEF Threads
  <2>3. Peaceful
    BY <1>3, <2>1, <2>2 DEF Peaceful, Serving, Threads
  <2>4. QED BY <2>3, PeacefulCovered
<1>4. ASSUME NEW t \in Tasks, NEW u \in Upcalls, Queue_Request_Job(t, u) PROVE PollsCovered'
  <2>1. Allocates
    BY <1>1, <1>4, TryAllocates DEF Queue_Request_Job
  <2>2. QED BY <1>2, <1>3, <1>4, <2>1 DEF Queue_Request_Job, Allocates, Awakes, Threads
<1>5. ASSUME NEW t \in Tasks, NEW r \in Transient, Executed_Request(t, r) PROVE PollsCovered'
  <2>1. /\ pc[t] = "running" /\ UNCHANGED <<state, aemVars, onList, idleWait, sources>>
        /\ UNCHANGED <<pc, op>> \/
             (pc' = [pc EXCEPT ![t] = "notifying"] /\ \A u \in Threads : u # t => op'[u] = op[u])
    BY <1>1, <1>5 DEF Executed_Request, TypeOK, Threads
  <2>2. QED BY <1>2, <1>3, <2>1 DEF Threads
<1>6. ASSUME NEW t \in Tasks, Disconnect(t) PROVE PollsCovered'
  BY <1>2, <1>3, <1>6 DEF Disconnect, Threads
<1>7. ASSUME NEW t \in Tasks, Request_Result_Ready(t) PROVE PollsCovered'
  <2>1. onList' \subseteq onList /\ idleWait' \subseteq idleWait
    BY <1>7 DEF Request_Result_Ready, Reschedule_Task, Awake_Idle_Task
  <2>2. \A u \in Threads : u # t => op'[u] = op[u]
    BY <1>1, <1>7 DEF Request_Result_Ready, TypeOK
  <2>3. QED BY <1>2, <1>3, <1>7, <2>1, <2>2 DEF Request_Result_Ready, Threads
<1>8. ASSUME NEW t \in Tasks, Check_Sources(t) \/ Check_Sources_Aborted(t) PROVE PollsCovered'
  <2>1. \A m \in Monitors : sources'[m] \subseteq sources[m]
    BY <1>2, <1>8 DEF Check_Sources, Check_Sources_Aborted
  <2>2. QED BY <1>2, <1>3, <1>8, <2>1 DEF Check_Sources, Check_Sources_Aborted, Threads
<1>9. ASSUME NEW t \in Transient, Invoke(t) \/ Abort_Run(t) PROVE PollsCovered'
  BY <1>2, <1>3, <1>9 DEF Invoke, Abort_Run, Threads, Tasks
<1>10. ASSUME NEW a \in Closers, (\E w \in BOOLEAN : Shutdown(a, w)) \/ Completion_Return(a)
       PROVE  PollsCovered'
  <2>1. a \in Threads /\ pc[a] \in {"out", "completing"} /\ pc'[a] \in {"out", "completing"}
    BY <1>2, <1>10 DEF Shutdown, Completion_Return, Threads
  <2>2. /\ UNCHANGED <<state, aemVars, sources, op>> /\ onList' \subseteq onList
        /\ idleWait' \subseteq idleWait /\ \A u \in Threads : u # a => pc'[u] = pc[u]
    BY <1>2, <1>10 DEF Shutdown, Completion_Return
  <2>3. QED BY <1>3, <2>1, <2>2
<1>11. QED BY <1>4, <1>5, <1>6, <1>7, <1>8, <1>9, <1>10 DEF Job_Calls

(* For any number of threads, sources and monitors, also when              *)
(* registrations fail and clients are aborted: while the lock is free and  *)
(* no abort is under way, a monitor that needs polling has a task on its   *)
(* way to Schedule_Task, or nobody sleeps.  The abort of a client that was *)
(* just awakened delays the wakeup until the client has unregistered.      *)
THEOREM PollWakeup == Spec => []((\A t \in Tasks : pc[t] # "aborting") => NoLostPoll)
<1>1. Init => PollsCovered
  BY ThreadsAssumption DEF Init, PollsCovered, Tasks, Threads
<1>2. Sound /\ PollsCovered /\ [Next]_vars => PollsCovered'
  <2> SUFFICES ASSUME Sound, PollsCovered, [Next]_vars PROVE PollsCovered'
    OBVIOUS
  <2>1. CASE UNCHANGED vars
    <3>1. /\ UNCHANGED <<pc, op, state, onList, idleWait, sources>>
          /\ UNCHANGED <<aemMonitor, aemTI, abortCounter>>
      BY <2>1 DEF vars, taskVars, aemVars, waitVars
    <3>2. Needy' \subseteq Needy
      BY <3>1 DEF Needy, Needs_Polling, Has_Sources
    <3>3. Responsible \subseteq Responsible'
      BY <3>1, ResponsibleKept
    <3>4. QED BY <3>1, <3>2, <3>3, PeacefulCovered DEF Peaceful
  <2>2. QED BY <2>1, CoveredTask, CoveredCall, CoveredOther DEF Next
<1>3. Sound /\ PollsCovered => ((\A t \in Tasks : pc[t] # "aborting") => NoLostPoll)
  <2> SUFFICES ASSUME Sound, PollsCovered, \A t \in Tasks : pc[t] # "aborting", lock = None,
                      idleWait # {}, NEW J \in Slots, Needs_Polling(J)
               PROVE  \E u \in Tasks : About_To_Schedule(u)
    BY DEF NoLostPoll
  <2>1. Served = {}
    BY ThreadsAssumption DEF Sound, CriticalHoldsLock, Critical, Served, Serving, Threads
  <2>2. PICK u \in Responsible : TRUE
    BY <2>1 DEF PollsCovered, Covered, Needy
  <2>3. u \in Tasks /\ state[u] \in Task_State /\ u \notin onList /\ ~Polls(u)
    BY <2>2 DEF Responsible, Sound, Typed, TypeOK
  <2>4. CASE state[u] = "Idle"
    BY <2>3, <2>4 DEF Sound, StatePlace, SleepersOnList, About_To_Schedule
  <2>5. CASE state[u] = "Blocked"
    BY <2>3, <2>5 DEF Sound, Tables, BlockedAgrees, Polls, About_To_Schedule
  <2>6. CASE state[u] \in {"Unscheduled", "Terminated", "Running"}
    BY <2>3, <2>6 DEF Sound, StatePlace, About_To_Schedule
  <2>7. QED BY <2>3, <2>4, <2>5, <2>6 DEF Task_State
<1>4. QED BY <1>1, <1>2, <1>3, SoundAlways, PTL DEF Spec

----------------------------------------------------------------------------
(* No lost wakeup for jobs                                                 *)

(* The task will look at the queue by itself.                              *)
Attentive(p) ==
  /\ state[p] # "none" /\ p \notin onList
  /\ Polls(p) => pc[p] \in {"polled", "queueing"} \/ abortSignal[selector[p]] > 0

(* Permanent tasks are not aborted, and they sleep or leave only when the  *)
(* queue is empty.                                                         *)
NeverAborted == \A p \in Permanent : pc[p] # "aborting"
Emptied == (\E p \in Permanent : pc[p] = "goidle" \/ state[p] = "Terminated") => queue = <<>>

(* With one monitor, a job in the queue has a permanent task that will see *)
(* it, if any is registered: a client may leave instead of running it.     *)
Attended ==
  aemMonitor[2] = None /\ queue # <<>> /\ (\E p \in Permanent : state[p] # "none") =>
    \E p \in Permanent : Attentive(p)

(* Without clients, the last task to leave leaves an empty queue.          *)
Drained == Transient = {} /\ queue # <<>> => \E t \in Tasks : state[t] # "none"

(* The inductive invariant behind NoLostJob and ShutdownDrains.            *)
JobsCovered == NeverAborted /\ Emptied /\ Attended /\ Drained

(* The permanent task t remains attentive, or the queue is empty.          *)
Minds(t) ==
  /\ pc'[t] # "aborting"
  /\ queue' # <<>> =>
       /\ pc'[t] # "goidle" /\ state'[t] # "Terminated"
       /\ Attentive(t) => Attentive(t)'
       /\ state[t] # "none" => state'[t] # "none"
       /\ state[t] = "none" => state'[t] = "none" \/ Attentive(t)'

(* A step of t takes no attention of the others.                           *)
Minded(t) ==
  /\ \A u \in Tasks : u # t =>
       /\ state'[u] = state[u] /\ selector'[u] = selector[u]
       /\ pc'[u] = pc[u] \/ (pc[u] = "unborn" /\ pc'[u] = "out")
  /\ onList' \subseteq onList \cup {t}
  /\ \A m \in Monitors : abortSignal[m] > 0 =>
       abortSignal'[m] > 0 \/ (t \in Tasks /\ pc[t] = "blocked" /\ selector[t] = m)

(* Two tasks do not poll the same monitor.                                 *)
LEMMA OnePoller ==
  ASSUME Sound, NEW t \in Tasks, NEW u \in Tasks, Polls(t), Polls(u), selector[t] = selector[u]
  PROVE  t = u
<1>1. PICK J \in Slots : aemTI[J] = t
  BY DEF Sound, Tables, SlotNamesPoller
<1>2. PICK K \in Slots : aemTI[K] = u
  BY DEF Sound, Tables, SlotNamesPoller
<1>3. aemMonitor[J] = selector[t] /\ aemMonitor[K] = selector[u]
  BY <1>1, <1>2, ThreadsAssumption DEF Sound, Tables, SlotNamesPoller, Threads
<1>4. aemMonitor[J] # None
  BY <1>3, JobsAssumption DEF Sound, Tables, BlockedAgrees
<1>5. QED BY <1>1, <1>2, <1>3, <1>4 DEF Sound, Tables, SlotsDistinct

(* The other tasks remain attentive.                                       *)
LEMMA AttentiveKept ==
  ASSUME Sound, NeverAborted, NEW t \in Threads, Minded(t),
         NEW p \in Permanent, p # t, Attentive(p)
  PROVE  Attentive(p)'
<1>1. p \in Tasks /\ p \in Threads
  BY DEF Tasks, Threads
<1>2. state'[p] # "none" /\ p \notin onList'
  BY <1>1 DEF Minded, Attentive
<1>3. ASSUME Polls(p)', pc'[p] \notin {"polled", "queueing"}
      PROVE  abortSignal'[selector'[p]] > 0
  <2>1. /\ pc'[p] = pc[p] /\ state[p] = "Blocked" /\ selector'[p] = selector[p]
        /\ pc'[p] \in {"blocked", "aborting"}
    BY <1>1, <1>3 DEF Minded, Polls
  <2>2. pc[p] = "blocked" /\ Polls(p)
    BY <2>1 DEF NeverAborted, Polls
  <2>3. abortSignal[selector[p]] > 0 /\ selector[p] \in Monitors
    BY <1>1, <2>2 DEF Attentive, Sound, Tables, BlockedAgrees
  <2>4. ASSUME t \in Tasks, pc[t] = "blocked", selector[t] = selector[p] PROVE FALSE
    <3>1. Polls(t)
      BY <2>4 DEF Sound, Tables, BlockedAgrees, Polls
    <3>2. QED BY <1>1, <2>2, <2>4, <3>1, OnePoller
  <2>5. QED BY <2>1, <2>3, <2>4 DEF Minded
<1>4. QED BY <1>2, <1>3 DEF Attentive

(* Steps that queue no job.                                                *)
LEMMA JobsKept ==
  ASSUME Sound, JobsCovered, NEW t \in Threads, Minded(t), t \in Permanent => Minds(t),
         queue' # <<>> => queue # <<>>, aemMonitor'[2] = None => aemMonitor[2] = None
  PROVE  JobsCovered'
<1> USE DEF JobsCovered
<1>1. \A p \in Permanent : p \in Tasks
  BY DEF Tasks
<1>2. NeverAborted'
  BY <1>1 DEF NeverAborted, Minded, Minds
<1>3. Emptied'
  BY <1>1 DEF Emptied, Minded, Minds
<1>4. Attended'
  <2> SUFFICES ASSUME aemMonitor'[2] = None, queue' # <<>>, NEW p \in Permanent,
                      state'[p] # "none"
               PROVE  \E q \in Permanent : Attentive(q)'
    BY DEF Attended
  <2>1. CASE p = t /\ state[t] = "none"
    BY <2>1 DEF Minds
  <2>2. CASE p # t \/ state[t] # "none"
    <3>1. state[p] # "none"
      BY <1>1, <2>2 DEF Minded
    <3>2. PICK q \in Permanent : Attentive(q)
      BY <3>1 DEF Attended
    <3>3. CASE q = t
      BY <3>2, <3>3 DEF Minds
    <3>4. CASE q # t
      BY <3>2, <3>4, AttentiveKept
    <3>5. QED BY <3>3, <3>4
  <2>3. QED BY <2>1, <2>2
<1>5. Drained'
  BY DEF Drained, Minded, Minds, Tasks
<1>6. QED BY <1>2, <1>3, <1>4, <1>5

(* Nothing is aborted any less by Abort_Check_Sources.                     *)
LEMMA AbortKept ==
  ASSUME TypeOK, NEW M, abortSignal' = Abort_Check_Sources(abortSignal, M)
  PROVE  /\ \A m \in Monitors : abortSignal[m] > 0 => abortSignal'[m] > 0
         /\ \A m \in Monitors \cap M : abortSignal'[m] > 0
BY AbortCapAssumption DEF Abort_Check_Sources, TypeOK

(* An attempt to get a task to schedule itself takes no attention.         *)
LEMMA RescheduleMinded ==
  ASSUME TypeOK, NEW t, Reschedule_Task(t)
  PROVE  /\ onList' \subseteq onList
         /\ \A m \in Monitors : abortSignal[m] > 0 => abortSignal'[m] > 0
BY AbortKept DEF Reschedule_Task, Awake_Idle_Task, idleVars

(* Nor does Try_Allocate_One_Task,                                         *)
LEMMA TryMinded ==
  ASSUME TypeOK, NEW c, NEW a, Try_Allocate_One_Task(c, a)
  PROVE  /\ onList' \subseteq onList
         /\ \A m \in Monitors : abortSignal[m] > 0 => abortSignal'[m] > 0
<1>1. CASE \E J \in Slots : Reschedule_Task(aemTI[J])
  BY <1>1, RescheduleMinded
<1>2. CASE UNCHANGED <<idleVars, abortSignal, error>>
  BY <1>2 DEF idleVars
<1>3. CASE (\E t \in Awakable(a) : Awake_Idle_Task(t)) /\ UNCHANGED <<abortSignal, error>>
  BY <1>3 DEF Awake_Idle_Task
<1>4. QED BY <1>1, <1>2, <1>3 DEF Try_Allocate_One_Task, Polled_By

(* nor Enable_Polling.                                                     *)
LEMMA EnableMinded ==
  ASSUME TypeOK, NEW J, Enable_Polling(J)
  PROVE  /\ onList' \subseteq onList
         /\ \A m \in Monitors : abortSignal[m] > 0 => abortSignal'[m] > 0
BY TryMinded DEF Enable_Polling, idleVars

(* A permanent task finds no job to run only in an empty queue.            *)
LEMMA NoJobLeft ==
  ASSUME NEW p \in Permanent, queue \in Seq(Jobs), ~Some_Schedulable_Job(p)
  PROVE  queue = <<>>
BY DEF Some_Schedulable_Job, Is_Schedulable

(* The steps of a task that queue no job.                                  *)
LEMMA JobsTask ==
  ASSUME Sound, JobsCovered, NEW t \in Tasks, Task_Inside(t) \/ Task_Enter(t),
         \A s \in Sources : ~Queue_Event_Job(t, s)
  PROVE  JobsCovered'
<1> USE ThreadsAssumption DEF Goto, taskVars, aemVars, waitVars, idleVars, Set_State
<1>1. Typed /\ TypeOK /\ StateAgrees /\ StatePlace /\ Tables /\ t \in Threads
  BY DEF Sound, Typed, Threads
<1>2. /\ pc \in [Threads -> Locations] /\ state \in [Tasks -> Task_State \cup {"none"}]
      /\ selector \in [Tasks -> Monitors \cup {None}] /\ queue \in Seq(Jobs)
  BY <1>1 DEF TypeOK
<1>3. CASE Schedule_Task(t)
  <2>1. /\ Scheduling(t) /\ UNCHANGED <<aemMonitor, abortSignal>>
        /\ \A u \in Tasks : u # t =>
             state'[u] = state[u] /\ selector'[u] = selector[u] /\ pc'[u] = pc[u]
        /\ onList' \subseteq onList \cup {t}
    BY <1>2, <1>3
    DEF Schedule_Task, Schedule_Terminated, Schedule_Exit, Schedule_Job, Schedule_Poll,
        Schedule_Idle, Threads
  <2>2. queue' # <<>> => queue # <<>>
    <3>1. CASE Schedule_Job(t)
      BY <3>1 DEF Schedule_Job
    <3>2. CASE UNCHANGED queue
      BY <3>2
    <3>3. QED
      BY <1>3, <3>1, <3>2
      DEF Schedule_Task, Schedule_Terminated, Schedule_Exit, Schedule_Poll, Schedule_Idle
  <2>3. ASSUME t \in Permanent PROVE Minds(t)
    <3>1. CASE Schedule_Job(t)
      <4>1. /\ pc' = [pc EXCEPT ![t] = "running"] /\ state' = [state EXCEPT ![t] = "Running"]
            /\ UNCHANGED onList /\ pc[t] = "schedule"
        BY <3>1 DEF Schedule_Job, Scheduling
      <4>2. t \notin onList /\ state[t] # "none"
        BY <2>1, SchedulingResponsible DEF Responsible
      <4>3. Attentive(t)'
        BY <1>1, <1>2, <4>1, <4>2 DEF Attentive, Polls
      <4>4. QED BY <1>1, <1>2, <4>1, <4>2, <4>3 DEF Minds
    <3>2. CASE Schedule_Terminated(t)
      <4>1. queue = <<>> /\ UNCHANGED queue
        BY <2>3, <3>2 DEF Schedule_Terminated, JobsCovered, Emptied
      <4>2. QED BY <1>1, <1>2, <3>2, <4>1 DEF Schedule_Terminated, Minds
    <3>3. CASE Schedule_Exit(t)
      <4>1. queue = <<>> /\ UNCHANGED queue
        BY <2>3, <3>3 DEF Schedule_Exit, Must_Exit, Exit_Condition, Has_Pending_Job
      <4>2. QED BY <1>1, <1>2, <3>3, <4>1 DEF Schedule_Exit, Minds
    <3>4. CASE Schedule_Poll(t) \/ Schedule_Idle(t)
      <4>1. queue = <<>> /\ UNCHANGED queue
        BY <1>2, <2>3, <3>4, NoJobLeft DEF Schedule_Poll, Schedule_Idle
      <4>2. pc'[t] # "aborting"
        BY <1>1, <1>2, <3>4 DEF Schedule_Poll, Schedule_Idle
      <4>3. QED BY <4>1, <4>2 DEF Minds
    <3>5. QED BY <1>3, <3>1, <3>2, <3>3, <3>4 DEF Schedule_Task
  <2>4. Minded(t)
    BY <2>1 DEF Minded
  <2>5. QED BY <1>1, <2>1, <2>2, <2>3, <2>4, JobsKept
<1>4. CASE Unregister_Task(t)
  <2>1. /\ UNCHANGED <<aemMonitor, queue, selector>> /\ state' = [state EXCEPT ![t] = "none"]
        /\ pc' = [pc EXCEPT ![t] = IF t \in MayExit THEN "unborn" ELSE "out"]
        /\ pc[t] = "leaving" /\ Task_Unregistered(Task_Removed(summary, Kind(t)))
    BY <1>4 DEF Unregister_Task
  <2>2. /\ onList' \subseteq onList
        /\ \A m \in Monitors : abortSignal[m] > 0 => abortSignal'[m] > 0
    BY <1>1, <2>1, TryMinded DEF Task_Unregistered
  <2>3. Minded(t)
    BY <1>2, <2>1, <2>2 DEF Minded, Threads
  <2>4. ASSUME t \in Permanent PROVE Minds(t)
    <3>1. queue = <<>>
      BY <1>1, <2>1, <2>4 DEF StateAgrees, JobsCovered, Emptied
    <3>2. pc'[t] # "aborting"
      BY <1>1, <1>2, <2>1
    <3>3. QED BY <2>1, <3>1, <3>2 DEF Minds
  <2>5. QED BY <1>1, <2>1, <2>3, <2>4, JobsKept
<1>5. CASE Idle_Terminate(t) \/ Idle_Wait(t)
  <2>1. /\ UNCHANGED <<aemMonitor, queue, selector, abortSignal>> /\ onList' \subseteq onList
        /\ \A u \in Tasks : u # t => state'[u] = state[u] /\ pc'[u] = pc[u]
        /\ pc[t] = "goidle" /\ pc'[t] \in {"schedule", "idle"}
    BY <1>1, <1>2, <1>5 DEF Idle_Terminate, Idle_Wait, Threads
  <2>2. Minded(t)
    BY <2>1 DEF Minded
  <2>3. t \in Permanent => Minds(t)
    BY <2>1 DEF JobsCovered, Emptied, Minds
  <2>4. QED BY <1>1, <2>1, <2>2, <2>3, JobsKept
<1>6. CASE End_Of_Check_Sources(t) \/ Reenter(t) \/ Job_Completed(t) \/ Run(t)
  <2>1. /\ UNCHANGED <<aemMonitor, queue, selector, abortSignal, onList>>
        /\ \A u \in Tasks : u # t => state'[u] = state[u] /\ pc'[u] = pc[u]
        /\ pc[t] \in {"queueing", "polled", "running", "out", "requested"}
        /\ pc'[t] \in {"schedule", "queueing"}
        /\ state'[t] = state[t] \/ state'[t] = "Unscheduled"
    BY <1>1, <1>2, <1>6
    DEF End_Of_Check_Sources, Reenter, Job_Completed, Run, Register_Task, Threads
  <2>2. t \notin onList /\ state[t] # "Terminated"
    BY <1>1, <2>1 DEF Sound, SleepersOnList, IdleAgrees, StatePlace
  <2>3. state[t] = "none" => state'[t] = "none" \/ Attentive(t)'
    BY <2>1, <2>2 DEF Attentive, Polls
  <2>4. Minded(t)
    BY <2>1 DEF Minded
  <2>5. t \in Permanent => Minds(t)
    BY <2>1, <2>2, <2>3 DEF Minds, Attentive, Polls
  <2>6. QED BY <1>1, <2>1, <2>4, <2>5, JobsKept
<1>7. CASE Idle_Return(t)
  <2>1. /\ UNCHANGED <<aemMonitor, queue, selector, abortSignal, state>>
        /\ onList' \subseteq onList /\ pc[t] = "idle" /\ pc'[t] = "schedule"
        /\ \A u \in Tasks : u # t => pc'[u] = pc[u] \/ (pc[u] = "unborn" /\ pc'[u] = "out")
    BY <1>1, <1>7 DEF Idle_Return, Threads
  <2>2. Minded(t)
    BY <2>1 DEF Minded
  <2>3. t \in Permanent => Minds(t)
    BY <1>1, <2>1 DEF Minds, Attentive, Polls, StatePlace
  <2>4. QED BY <1>1, <2>1, <2>2, <2>3, JobsKept
<1>8. CASE Terminate_Task(t)
  <2>1. /\ UNCHANGED <<aemMonitor, queue, selector, abortSignal>> /\ onList' \subseteq onList
        /\ \A u \in Tasks : u # t => state'[u] = state[u] /\ pc'[u] = pc[u]
        /\ pc[t] = "aborting"
    BY <1>1, <1>2, <1>8 DEF Terminate_Task, Leave_State, Threads
  <2>2. Minded(t) /\ t \notin Permanent
    BY <2>1 DEF Minded, JobsCovered, NeverAborted
  <2>3. QED BY <1>1, <2>1, <2>2, JobsKept
<1>9. CASE Abort_Request_Fails(t)
  <2>1. /\ UNCHANGED <<pc, state, aemMonitor, queue, selector, abortSignal, onList>>
        /\ pc[t] = "aborting"
    BY <1>9 DEF Abort_Request_Fails
  <2>2. Minded(t) /\ t \notin Permanent
    BY <2>1 DEF Minded, JobsCovered, NeverAborted
  <2>3. QED BY <1>1, <2>1, <2>2, JobsKept
<1>10. QED
  BY <1>3, <1>4, <1>5, <1>6, <1>7, <1>8, <1>9 DEF Task_Inside, Task_Enter

(* A step that changes no state and queues no job.                         *)
LEMMA JobsIdle ==
  ASSUME Sound, JobsCovered, NEW t \in Threads,
         pc[t] \in {"running", "notifying", "blocked", "out", "completing"} \cup Calling,
         pc'[t] \in {"running", "notifying", "polled", "out", "completing"} \cup Calling,
         \A u \in Threads : u # t => pc'[u] = pc[u],
         UNCHANGED <<state, selector, queue>>, aemMonitor'[2] = None => aemMonitor[2] = None,
         onList' \subseteq onList,
         \A m \in Monitors : abortSignal[m] > 0 =>
           abortSignal'[m] > 0 \/ (t \in Tasks /\ pc[t] = "blocked" /\ selector[t] = m)
  PROVE  JobsCovered'
<1>1. Minded(t)
  BY DEF Minded, Threads
<1>2. t \in Permanent => Minds(t)
  BY DEF Minds, Attentive, Polls, Sound, StatePlace, Calling, Tasks
<1>3. QED BY <1>1, <1>2, JobsKept

(* The calls into the ORB.                                                 *)
LEMMA JobsCall ==
  ASSUME Sound, JobsCovered, NEW t \in Threads,
         Call_Inside(t) \/ Call_Enter(t) \/ Source_Calls(t)
  PROVE  JobsCovered'
<1> USE DEF Goto, taskVars, aemVars, waitVars, idleVars
<1>1. TypeOK
  BY DEF Sound, Typed
<1>2. /\ pc \in [Threads -> Locations] /\ op \in [Threads -> Operation]
      /\ aemMonitor \in [Slots -> Monitors \cup {None}]
  BY <1>1 DEF TypeOK
<1>3. op[t].ret \in {"out", "running"}
  BY <1>2 DEF Operation
<1>4. CASE Disable_Polling(t)
  <2>1. \A m \in Monitors : abortSignal[m] > 0 => abortSignal'[m] > 0
    BY <1>1, <1>4, AbortKept DEF Disable_Polling
  <2>2. QED BY <1>2, <1>4, <2>1, JobsIdle DEF Disable_Polling, Calling
<1>5. CASE Register_Unknown(t)
  <2>1. /\ onList' \subseteq onList
        /\ \A m \in Monitors : abortSignal[m] > 0 => abortSignal'[m] > 0
    BY <1>1, <1>5, EnableMinded DEF Register_Unknown
  <2>2. QED BY <1>2, <1>5, <2>1, JobsIdle DEF Register_Unknown, Calling
<1>6. CASE Source_Done(t)
  <2>1. /\ onList' \subseteq onList
        /\ \A m \in Monitors : abortSignal[m] > 0 => abortSignal'[m] > 0
    BY <1>1, <1>6, EnableMinded DEF Source_Done
  <2>2. QED BY <1>2, <1>3, <1>6, <2>1, JobsIdle DEF Source_Done, Calling
<1>7. CASE Event_Sources_Added(t)
  <2>1. /\ onList' \subseteq onList
        /\ \A m \in Monitors : abortSignal[m] > 0 => abortSignal'[m] > 0
    BY <1>1, <1>7, TryMinded DEF Event_Sources_Added
  <2>2. QED BY <1>2, <1>7, <2>1, JobsIdle DEF Event_Sources_Added, Calling
<1>8. CASE Create_Monitor(t)
  <2>1. aemMonitor'[2] = None => aemMonitor[2] = None
    BY <1>2, <1>8 DEF Create_Monitor, Monitor_Count, Slots, Maximum_Number_Of_Monitors
  <2>2. pc[t] = "create" /\ (UNCHANGED pc \/ pc' = [pc EXCEPT ![t] = "added"])
        /\ UNCHANGED <<state, selector, queue, onList, abortSignal>>
    BY <1>8 DEF Create_Monitor
  <2>3. QED BY <1>2, <2>1, <2>2, JobsIdle DEF Calling
<1>9. CASE Register_Source(t) \/ Register_Failure(t) \/ Create_Failure(t)
           \/ Unregister_Source(t) \/ Delete_Source(t) \/ Delete_Unmonitored(t) \/ Disable_Return(t)
           \/ Source_Calls(t)
  <2>1. /\ UNCHANGED <<state, selector, queue, onList, abortSignal, aemMonitor>>
        /\ pc[t] \in {"running", "out"} \cup Calling
        /\ UNCHANGED pc \/ \E p \in Calling : pc' = [pc EXCEPT ![t] = p]
    BY <1>9
    DEF Register_Source, Register_Failure, Create_Failure, Unregister_Source, Delete_Source,
        Delete_Unmonitored, Disable_Return, Source_Calls, Insert_Source, Finalize_Endpoint, Can_Call, Calling
  <2>2. QED BY <1>2, <2>1, JobsIdle
<1>10. QED
  BY <1>4, <1>5, <1>6, <1>7, <1>8, <1>9 DEF Call_Inside, Call_Enter

(* The other steps that queue no job.                                      *)
LEMMA JobsOther ==
  ASSUME Sound, JobsCovered,
         \/ \E t \in Tasks : \/ \E r \in Transient : Executed_Request(t, r)
                             \/ Disconnect(t) \/ Request_Result_Ready(t)
                             \/ Check_Sources(t) \/ Check_Sources_Aborted(t)
         \/ \E t \in Transient : Invoke(t) \/ Abort_Run(t)
         \/ \E a \in Closers : (\E w \in BOOLEAN : Shutdown(a, w)) \/ Completion_Return(a)
  PROVE  JobsCovered'
<1> USE ThreadsAssumption DEF Goto, taskVars, aemVars, waitVars, idleVars
<1>1. TypeOK
  BY DEF Sound, Typed
<1>2. pc \in [Threads -> Locations] /\ abortSignal \in [Monitors -> 0 .. AbortCap]
  BY <1>1 DEF TypeOK
<1>3. ASSUME NEW t \in Tasks, NEW r \in Transient, Executed_Request(t, r) PROVE JobsCovered'
  <2>1. /\ pc[t] = "running"
        /\ UNCHANGED <<state, selector, queue, onList, abortSignal, aemMonitor>>
        /\ UNCHANGED pc \/ pc' = [pc EXCEPT ![t] = "notifying"]
    BY <1>3 DEF Executed_Request
  <2>2. QED BY <1>2, <2>1, JobsIdle DEF Threads
<1>4. ASSUME NEW t \in Tasks, Disconnect(t) PROVE JobsCovered'
  BY <1>2, <1>4, JobsIdle DEF Disconnect, Threads
<1>5. ASSUME NEW t \in Tasks, Request_Result_Ready(t) PROVE JobsCovered'
  <2>1. /\ onList' \subseteq onList
        /\ \A m \in Monitors : abortSignal[m] > 0 => abortSignal'[m] > 0
    BY <1>1, <1>5, RescheduleMinded DEF Request_Result_Ready
  <2>2. QED BY <1>2, <1>5, <2>1, JobsIdle DEF Request_Result_Ready, Threads
<1>6. ASSUME NEW t \in Tasks, Check_Sources(t) \/ Check_Sources_Aborted(t) PROVE JobsCovered'
  <2>1. /\ pc[t] = "blocked" /\ pc' = [pc EXCEPT ![t] = "polled"]
        /\ UNCHANGED <<state, selector, queue, onList, aemMonitor>>
        /\ \A m \in Monitors : m # selector[t] => abortSignal'[m] = abortSignal[m]
    BY <1>2, <1>6 DEF Check_Sources, Check_Sources_Aborted
  <2>2. QED BY <1>2, <2>1, JobsIdle DEF Threads
<1>7. ASSUME NEW t \in Transient, Invoke(t) \/ Abort_Run(t) PROVE JobsCovered'
  <2>1. t \in Threads /\ t \notin Permanent
    BY DEF Threads, Tasks
  <2>2. /\ UNCHANGED <<state, selector, queue, onList, aemMonitor, abortSignal>>
        /\ \A u \in Threads : u # t => pc'[u] = pc[u]
    BY <1>2, <1>7 DEF Invoke, Abort_Run
  <2>3. Minded(t)
    BY <2>2 DEF Minded, Threads
  <2>4. QED BY <2>1, <2>2, <2>3, JobsKept
<1>8. ASSUME NEW a \in Closers, (\E w \in BOOLEAN : Shutdown(a, w)) \/ Completion_Return(a)
      PROVE  JobsCovered'
  <2>1. a \in Threads /\ pc[a] \in {"out", "completing"} /\ pc'[a] \in {"out", "completing"}
    BY <1>2, <1>8 DEF Shutdown, Completion_Return, Threads
  <2>2. /\ UNCHANGED <<state, selector, queue, aemMonitor>> /\ onList' \subseteq onList
        /\ \A u \in Threads : u # a => pc'[u] = pc[u]
    BY <1>2, <1>8 DEF Shutdown, Completion_Return
  <2>3. \A m \in Monitors : abortSignal[m] > 0 => abortSignal'[m] > 0
    BY <1>1, <1>8, AbortKept DEF Shutdown, Completion_Return
  <2>4. QED BY <2>1, <2>2, <2>3, JobsIdle
<1>9. QED BY <1>3, <1>4, <1>5, <1>6, <1>7, <1>8

(* A counted task exists.                                                  *)
LEMMA CountedExists ==
  ASSUME SummaryExact, NEW k \in Any_Task_Kind, NEW s \in Any_Task_State
  PROVE  /\ Get_Count(summary, k, s) > 0 <=> Counted(k, s) # {}
         /\ Counted(k, s) = {} => Get_Count(summary, k, s) = 0
<1>1. Get_Count(summary, k, s) = Cardinality(Counted(k, s))
  BY DEF SummaryExact
<1>2. IsFiniteSet(Counted(k, s))
  <2>1. Counted(k, s) \subseteq Threads
    BY DEF Counted, Threads
  <2>2. QED BY <2>1, FiniteAssumption, FS_Subset
<1>3. /\ Cardinality(Counted(k, s)) \in Nat
      /\ Cardinality(Counted(k, s)) = 0 <=> Counted(k, s) = {}
  BY <1>2, FS_CardinalityType, FS_EmptySet
<1>4. QED BY <1>1, <1>3

(* A step that queues a job, and changes nothing but lists and selectors.  *)
LEMMA JobsQueued ==
  ASSUME Sound, JobsCovered, NEW t \in Tasks, pc[t] \in {"queueing", "running"},
         lock \in {t, None}, UNCHANGED <<pc, state, selector, aemMonitor>>,
         aemMonitor[2] = None => (\A p \in Permanent : state[p] # "none" =>
                                    \E q \in Permanent : Attentive(q)')
  PROVE  JobsCovered'
<1>1. NeverAborted'
  BY DEF JobsCovered, NeverAborted
<1>2. Emptied'
  <2>1. ASSUME NEW p \in Permanent, pc[p] = "goidle" \/ state[p] = "Terminated" PROVE FALSE
    <3>1. p \in Tasks /\ p \in Threads
      BY DEF Tasks, Threads
    <3>2. pc[p] \in {"goidle", "schedule", "leaving"}
      BY <2>1, <3>1 DEF Sound, StatePlace
    <3>3. lock = p /\ p # None /\ p # t
      BY <3>1, <3>2, ThreadsAssumption DEF Sound, CriticalHoldsLock, Critical
    <3>4. QED BY <3>3
  <2>2. QED BY <2>1 DEF Emptied
<1>3. Attended'
  BY DEF Attended
<1>4. state[t] # "none"
  BY DEF Sound, StateAgrees, Calling
<1>5. Drained'
  BY <1>4 DEF Drained
<1>6. QED BY <1>1, <1>2, <1>3, <1>5 DEF JobsCovered

(* The job of an event: the polling task itself is permanent, or, with one *)
(* monitor, no permanent task polls.                                       *)
LEMMA EventAttended ==
  ASSUME Sound, JobsCovered, NEW t \in Tasks, NEW s \in Sources, Queue_Event_Job(t, s)
  PROVE  JobsCovered'
<1>1. Typed /\ TypeOK /\ Tables
  BY DEF Sound, Typed
<1>2. /\ pc[t] = "queueing" /\ lock = t /\ t \in Threads
      /\ UNCHANGED <<pc, state, selector, aemMonitor>>
  BY DEF Queue_Event_Job, Inside, taskVars, aemVars, Threads
<1>3. Polls(t) /\ t \notin onList /\ state[t] = "Blocked"
  BY <1>1, <1>2 DEF Tables, BlockedAgrees, Polls, Sound, SleepersOnList, IdleAgrees
<1>4. CASE UNCHANGED <<queue, idleVars, abortSignal, error>>
  <2>1. Minded(t) /\ (t \in Permanent => Minds(t))
    BY <1>2, <1>3, <1>4 DEF Minded, Minds, Attentive, Polls, idleVars
  <2>2. QED BY <1>2, <1>4, <2>1, JobsKept
<1>5. CASE Try_Allocate_One_Task(summary, TRUE)
  <2>1. onList' \subseteq onList
    BY <1>1, <1>5, TryMinded
  <2>2. ASSUME aemMonitor[2] = None, NEW p \in Permanent, state[p] # "none"
        PROVE  \E q \in Permanent : Attentive(q)'
    <3>1. CASE t \in Permanent
      <4>1. Attentive(t)'
        BY <1>2, <1>3, <2>1 DEF Attentive
      <4>2. QED BY <3>1, <4>1
    <3>2. CASE p # t /\ Polls(p)
      <4>1. PICK J \in Slots : aemTI[J] = t
        BY <1>1, <1>3 DEF Tables, SlotNamesPoller
      <4>2. PICK K \in Slots : aemTI[K] = p
        BY <1>1, <3>2 DEF Tables, SlotNamesPoller, Tasks
      <4>3. aemMonitor[J] \in Monitors /\ aemMonitor[K] \in Monitors
        BY <1>1, <1>3, <3>2, <4>1, <4>2, ThreadsAssumption
        DEF Tables, SlotNamesPoller, BlockedAgrees, Tasks, Threads
      <4>4. J = 1 /\ K = 1
        BY <2>2, <4>3, JobsAssumption DEF Slots, Maximum_Number_Of_Monitors
      <4>5. QED BY <3>2, <4>1, <4>2, <4>4
    <3>3. CASE ~Polls(p) /\ p \notin onList
      BY <1>2, <2>1, <2>2, <3>3 DEF Attentive, Polls
    <3>4. CASE p \in onList
      <4>1. PICK w \in onList :
              Awake_Idle_Task(w) /\ (onList \cap Permanent # {} => w \in Permanent)
        BY <1>2, <1>5, <3>4, TryAwakes
      <4>2. w \in Permanent /\ w \notin onList' /\ state[w] = "Idle"
        BY <3>4, <4>1 DEF Awake_Idle_Task, Sound, SleepersOnList
      <4>3. Attentive(w)'
        BY <1>2, <4>2 DEF Attentive, Polls
      <4>4. QED BY <4>2, <4>3
    <3>5. QED BY <3>1, <3>2, <3>3, <3>4
  <2>3. QED BY <1>2, <2>2, JobsQueued
<1>6. QED BY <1>4, <1>5 DEF Queue_Event_Job

(* The job of a request: an idle permanent task is awakened, one runs, or  *)
(* one that polls is aborted.                                              *)
LEMMA RequestAttended ==
  ASSUME Sound, JobsCovered, NEW t \in Tasks, NEW v \in Upcalls, Queue_Request_Job(t, v)
  PROVE  JobsCovered'
<1>1. Typed /\ TypeOK /\ Tables /\ SummaryExact
  BY DEF Sound, Typed
<1>2. /\ pc[t] = "running" /\ lock = None /\ UNCHANGED <<pc, state, selector, aemMonitor>>
  BY DEF Queue_Request_Job, Locked, aemVars
<1>3. Try_Allocate_One_Task(summary, FALSE)
  <2>1. (~Is_Upcall(v)) = FALSE
    BY DEF Is_Upcall
  <2>2. Try_Allocate_One_Task(summary, ~Is_Upcall(v))
    BY DEF Queue_Request_Job
  <2>3. QED BY <2>1, <2>2, Zenon
<1>4. onList' \subseteq onList
  BY <1>1, <1>3, TryMinded
<1>5. ~(Get_Count(summary, "Permanent", "Unscheduled") > 0)
  <2>1. Counted("Permanent", "Unscheduled") = {}
    BY <1>2, ThreadsAssumption
    DEF Counted, Sound, StatePlace, CriticalHoldsLock, Critical, Threads
  <2>2. QED
    BY <1>1, <2>1, CountedExists
    DEF Any_Task_Kind, Any_Task_State, Task_Kind, Task_State
<1>6. ASSUME NEW p \in Permanent, state[p] # "none"
      PROVE  \E q \in Permanent : Attentive(q)'
  <2>1. p \in Tasks
    BY DEF Tasks
  <2>2. CASE ~Polls(p) /\ p \notin onList
    BY <1>2, <1>4, <1>6, <2>2 DEF Attentive, Polls
  <2>3. ASSUME NEW w \in onList \cap Permanent, Awake_Idle_Task(w)
        PROVE  \E q \in Permanent : Attentive(q)'
    <3>1. w \notin onList' /\ state[w] = "Idle"
      BY <2>3 DEF Awake_Idle_Task, Sound, SleepersOnList
    <3>2. Attentive(w)'
      BY <1>2, <3>1 DEF Attentive, Polls
    <3>3. QED BY <3>2
  <2>4. Awakable(FALSE) = onList \cap Permanent
    BY DEF Awakable
  <2>5. CASE p \in onList
    <3>1. p \in Counted("Permanent", "Idle")
      BY <2>1, <2>5 DEF Counted, Kind, Kind_Match, Sound, SleepersOnList
    <3>2. Get_Count(summary, "Permanent", "Idle") > 0
      BY <1>1, <3>1, CountedExists DEF Any_Task_Kind, Any_Task_State, Task_Kind, Task_State
    <3>3. Awakable(FALSE) # {}
      BY <2>4, <2>5
    <3>4. (IF FALSE THEN "Any" ELSE "Permanent") = "Permanent"
      OBVIOUS
    <3>5. \E w \in Awakable(FALSE) : Awake_Idle_Task(w)
      BY <1>3, <1>5, <3>2, <3>3, <3>4, Zenon DEF Try_Allocate_One_Task
    <3>6. QED BY <2>3, <2>4, <3>5
  <2>6. CASE Polls(p)
    <3>1. PICK L \in Slots : aemTI[L] = p
      BY <1>1, <2>1, <2>6 DEF Tables, SlotNamesPoller
    <3>2. L \in Polled_By("Permanent")
      BY <3>1, ThreadsAssumption DEF Polled_By, Kind, Kind_Match, Tasks, Threads
    <3>3. p \in Counted("Permanent", "Blocked")
      BY <2>1, <2>6 DEF Counted, Kind, Kind_Match, Polls
    <3>4. Get_Count(summary, "Permanent", "Blocked") > 0
      BY <1>1, <3>3, CountedExists DEF Any_Task_Kind, Any_Task_State, Task_Kind, Task_State
    <3>5. Polled_By("Permanent") # {}
      BY <3>2
    <3>6. (IF FALSE THEN "Any" ELSE "Permanent") = "Permanent"
      OBVIOUS
    <3>7. \/ \E w \in Awakable(FALSE) : Awake_Idle_Task(w)
          \/ Get_Count(summary, "Permanent", "Running") > 0
          \/ \E J \in Polled_By("Permanent") : Reschedule_Task(aemTI[J])
      BY <1>3, <1>5, <3>4, <3>5, <3>6, Zenon DEF Try_Allocate_One_Task
    <3>8. CASE \E w \in Awakable(FALSE) : Awake_Idle_Task(w)
      BY <2>3, <2>4, <3>8
    <3>9. CASE Get_Count(summary, "Permanent", "Running") > 0
      <4>1. PICK q : q \in Counted("Permanent", "Running")
        BY <1>1, <3>9, CountedExists DEF Any_Task_Kind, Any_Task_State, Task_Kind, Task_State
      <4>2. q \in Permanent /\ state[q] = "Running"
        BY <4>1 DEF Counted, Kind, Kind_Match, Task_State
      <4>3. q \notin onList
        BY <4>2 DEF Sound, SleepersOnList
      <4>4. Attentive(q)'
        BY <1>2, <1>4, <4>2, <4>3 DEF Attentive, Polls
      <4>5. QED BY <4>2, <4>4
    <3>10. ASSUME NEW J \in Polled_By("Permanent"), Reschedule_Task(aemTI[J])
           PROVE  \E q \in Permanent : Attentive(q)'
      <4>1. PICK q : q = aemTI[J]
        OBVIOUS
      <4>2. q \in Permanent /\ q \in Tasks
        BY <1>1, <4>1 DEF Polled_By, Kind, Kind_Match, Tasks, TypeOK
      <4>3. Polls(q) /\ state[q] = "Blocked" /\ selector[q] \in Monitors
        BY <1>1, <4>1, <4>2 DEF Polled_By, Tables, SlotNamesPoller, BlockedAgrees, Polls
      <4>4. abortSignal' = Abort_Check_Sources(abortSignal, {selector[q]})
        BY <3>10, <4>1, <4>3 DEF Reschedule_Task
      <4>5. abortSignal'[selector[q]] > 0
        BY <1>1, <4>3, <4>4, AbortKept
      <4>6. q \notin onList
        BY <4>3 DEF Sound, SleepersOnList
      <4>7. Attentive(q)'
        BY <1>2, <1>4, <4>3, <4>5, <4>6 DEF Attentive
      <4>8. QED BY <4>2, <4>7
    <3>11. QED BY <3>7, <3>8, <3>9, <3>10
  <2>7. QED BY <2>2, <2>5, <2>6
<1>7. QED BY <1>2, <1>6, JobsQueued

(* Every step keeps JobsCovered.                                           *)
LEMMA JobsCoveredAlways == Spec => []JobsCovered
<1>1. Init => JobsCovered
  BY ThreadsAssumption
  DEF Init, JobsCovered, NeverAborted, Emptied, Attended, Drained, Tasks, Threads
<1>2. Sound /\ JobsCovered /\ [Next]_vars => JobsCovered'
  <2> SUFFICES ASSUME Sound, JobsCovered, [Next]_vars PROVE JobsCovered'
    OBVIOUS
  <2>1. CASE UNCHANGED vars
    BY <2>1
    DEF JobsCovered, NeverAborted, Emptied, Attended, Drained, Attentive, Polls, vars, taskVars,
        aemVars
  <2>2. ASSUME NEW t \in Tasks, Task_Inside(t) \/ Task_Enter(t) PROVE JobsCovered'
    BY <2>2, JobsTask, EventAttended
  <2>3. ASSUME NEW t \in Tasks, Job_Calls(t) PROVE JobsCovered'
    BY <2>3, JobsOther, RequestAttended DEF Job_Calls
  <2>4. QED BY <2>1, <2>2, <2>3, JobsCall, JobsOther DEF Next
<1>3. QED BY <1>1, <1>2, SoundAlways, PTL DEF Spec

(* For any number of threads, sources and requests, also when clients are  *)
(* aborted: in an ORB with one monitor, as long as a permanent task is     *)
(* registered, no task sleeps while a job that it may run is queued unless *)
(* some task is about to look at the queue.  Both conditions are needed:   *)
(* the client that is awakened for a job may leave with its reply, and a   *)
(* permanent task that polls another monitor does not see the job.         *)
THEOREM JobWakeup ==
  Spec => [](aemMonitor[2] = None /\ (\E p \in Permanent : state[p] # "none") => NoLostJob)
<1>1. Sound /\ JobsCovered =>
        (aemMonitor[2] = None /\ (\E p \in Permanent : state[p] # "none") => NoLostJob)
  <2> SUFFICES ASSUME Sound, JobsCovered, aemMonitor[2] = None,
                      \E p \in Permanent : state[p] # "none",
                      NEW t \in idleWait, Some_Schedulable_Job(t)
               PROVE  \E u \in Tasks : About_To_Schedule(u)
    BY DEF NoLostJob
  <2>1. queue # <<>>
    BY DEF Some_Schedulable_Job
  <2>2. PICK p \in Permanent : Attentive(p)
    BY <2>1 DEF JobsCovered, Attended
  <2>3. p \in Tasks /\ state[p] \in Task_State /\ p \notin onList
    BY <2>2 DEF Attentive, Sound, Typed, TypeOK, Tasks
  <2>4. pc[p] # "aborting"
    BY DEF JobsCovered, NeverAborted
  <2>5. CASE state[p] = "Idle"
    BY <2>3, <2>4, <2>5 DEF Sound, StatePlace, SleepersOnList, About_To_Schedule
  <2>6. CASE state[p] = "Blocked"
    BY <2>2, <2>3, <2>4, <2>6
    DEF Sound, Tables, BlockedAgrees, Attentive, Polls, About_To_Schedule
  <2>7. CASE state[p] \in {"Unscheduled", "Terminated", "Running"}
    BY <2>3, <2>7 DEF Sound, StatePlace, About_To_Schedule
  <2>8. QED BY <2>3, <2>5, <2>6, <2>7 DEF Task_State
<1>2. QED BY <1>1, SoundAlways, JobsCoveredAlways, PTL

----------------------------------------------------------------------------
(* Shutdown                                                                *)

(* Only its own step takes an application thread out of the wait.          *)
LEMMA OwnReturn ==
  ASSUME Typed, NEW a \in Closers, pc[a] = "completing", pc'[a] = "out", Next
  PROVE  Completion_Return(a)
<1> USE DEF Goto, Typed, TypeOK
<1>1. a \in Threads /\ a \notin Tasks
  BY ThreadsAssumption DEF Threads
<1>2. ASSUME NEW t \in Tasks, Task_Inside(t) \/ Task_Enter(t) PROVE FALSE
  <2>1. t # a /\ t \in Threads /\ a \notin MayExit
    BY <1>1, ThreadsAssumption DEF Threads, Tasks
  <2>2. pc'[a] = pc[a]
    <3>1. CASE Idle_Return(t)
      BY <1>1, <2>1, <3>1 DEF Idle_Return
    <3>2. CASE ~Idle_Return(t)
      BY <1>1, <1>2, <2>1, <3>2
      DEF Task_Inside, Task_Enter, Schedule_Task, Schedule_Terminated, Schedule_Exit,
          Schedule_Job, Schedule_Poll, Schedule_Idle, Unregister_Task, Idle_Terminate, Idle_Wait,
          Queue_Event_Job, End_Of_Check_Sources, Run, Reenter, Terminate_Task,
          Abort_Request_Fails, Job_Completed
    <3>3. QED BY <3>1, <3>2
  <2>3. QED BY <2>2
<1>3. ASSUME NEW t \in Threads, Call_Inside(t) \/ Call_Enter(t) \/ Source_Calls(t) PROVE FALSE
  <2>1. t # a
    BY <1>3
    DEF Call_Inside, Call_Enter, Source_Calls, Disable_Polling, Register_Unknown,
        Register_Source, Register_Failure, Create_Monitor, Create_Failure,
        Event_Sources_Added, Unregister_Source, Source_Done, Delete_Source,
        Delete_Unmonitored, Disable_Return, Insert_Source, Finalize_Endpoint, Can_Call
  <2>2. \A u \in Threads : u # t => pc'[u] = pc[u]
    BY <1>3
    DEF Call_Inside, Call_Enter, Source_Calls, Disable_Polling, Register_Unknown,
        Register_Source, Register_Failure, Create_Monitor, Create_Failure,
        Event_Sources_Added, Unregister_Source, Source_Done, Delete_Source,
        Delete_Unmonitored, Disable_Return, Insert_Source, Finalize_Endpoint
  <2>3. QED BY <1>1, <2>1, <2>2
<1>4. ASSUME NEW t \in Tasks,
             \/ Job_Calls(t) \/ Request_Result_Ready(t)
             \/ Check_Sources(t) \/ Check_Sources_Aborted(t)
      PROVE  FALSE
  <2>1. t # a /\ t \in Threads
    BY <1>1 DEF Threads
  <2>2. pc'[a] = pc[a]
    BY <1>1, <1>4, <2>1
    DEF Job_Calls, Queue_Request_Job, Executed_Request, Disconnect, Request_Result_Ready,
        Check_Sources, Check_Sources_Aborted
  <2>3. QED BY <2>2
<1>5. ASSUME NEW t \in Transient, Invoke(t) \/ Abort_Run(t) PROVE FALSE
  <2>1. t # a /\ t \in Threads
    BY <1>1, ThreadsAssumption DEF Threads, Tasks
  <2>2. QED BY <1>1, <1>5, <2>1 DEF Invoke, Abort_Run
<1>6. ASSUME NEW b \in Closers, NEW w \in BOOLEAN, Shutdown(b, w) PROVE FALSE
  <2>1. b # a /\ b \in Threads
    BY <1>6 DEF Shutdown, Threads
  <2>2. QED BY <1>1, <1>6, <2>1 DEF Shutdown
<1>7. ASSUME NEW b \in Closers, Completion_Return(b), b # a PROVE FALSE
  BY <1>1, <1>7 DEF Completion_Return, Threads
<1>8. QED BY <1>2, <1>3, <1>4, <1>5, <1>6, <1>7 DEF Next

(* In an ORB without client threads, for any number of permanent tasks:    *)
(* Shutdown with Wait_For_Completion returns with an empty queue, because  *)
(* the tasks leave only when they find it empty, and the count that the    *)
(* waiting thread reads again is exact.  A client may leave a job behind.  *)
THEOREM DrainCorrect ==
  ASSUME Transient = {}
  PROVE  Spec => ShutdownDrains
<1>1. Sound /\ JobsCovered /\ [Next]_vars =>
        [\A a \in Closers : pc[a] = "completing" /\ pc'[a] = "out" => ~Has_Pending_Job]_vars
  <2> SUFFICES ASSUME Sound, JobsCovered, Next, NEW a \in Closers, pc[a] = "completing",
                      pc'[a] = "out"
               PROVE  ~Has_Pending_Job
    OBVIOUS
  <2>1. Completion_Return(a) /\ a \in Threads
    BY OwnReturn, ThreadsAssumption DEF Sound, Threads
  <2>2. ~(Get_Count(summary, "Any", "Any") > 0)
    BY <2>1 DEF Completion_Return, Sound, Typed, TypeOK
  <2>3. Counted("Any", "Any") = {}
    BY <2>2, CountedExists DEF Sound, Any_Task_Kind, Any_Task_State
  <2>4. \A t \in Tasks : state[t] = "none"
    BY <2>3 DEF Counted, Kind_Match
  <2>5. QED BY <2>4 DEF JobsCovered, Drained, Has_Pending_Job
<1>2. QED BY <1>1, SoundAlways, JobsCoveredAlways, PTL DEF Spec, ShutdownDrains
=============================================================================
