--------------------------- MODULE SummaryProofs ---------------------------
(***************************************************************************)
(* The task summary of OrbWorkers, for every set of threads: it counts     *)
(* exactly the tasks that are registered, in each kind and each state, so  *)
(* that what the controller and the thread pool decide from it is decided  *)
(* from the states of the tasks.                                           *)
(***************************************************************************)
EXTENDS OrbWorkersProofs, FiniteSetTheorems

(* The locations of Insert_Source and Delete_Source.                       *)
Calling ==
  {"create", "disable", "disabling", "disabled", "added", "enabling", "deleting"}

(* A task is registered from Run to Unregister_Task, and Terminated when   *)
(* it leaves.                                                              *)
StateAgrees ==
  \A t \in Tasks :
    /\ pc[t] \in {"unborn", "out", "requested"} => state[t] = "none"
    /\ pc[t] = "leaving" => state[t] = "Terminated"
    /\ pc[t] \in Calling => (state[t] = "none" <=> op[t].ret = "out")
    /\ state[t] = "none" => pc[t] \in {"unborn", "out", "requested"} \cup Calling

(* What a step does to the states: nothing, or one task is registered,     *)
(* changes its state or is unregistered.                                   *)
StateEffect ==
  \/ UNCHANGED <<state, summary>>
  \/ \E t \in Tasks :
       \/ state[t] = "none" /\ Register_Task(t)
       \/ state[t] # "none" /\ \E new \in Task_State : Set_State(t, new)
       \/ /\ state[t] = "Terminated" /\ state' = [state EXCEPT ![t] = "none"]
          /\ summary' = Task_Removed(summary, Kind(t))

----------------------------------------------------------------------------
(* The steps                                                               *)

(* A step of a task agrees with its state, and changes one state in the    *)
(* summary.                                                                *)
LEMMA StateTask ==
  ASSUME Typed, StateAgrees, NEW t \in Tasks,
         Task_Inside(t) \/ Task_Enter(t)
  PROVE  StateAgrees' /\ StateEffect
<1> USE ThreadsAssumption
    DEF Typed, TypeOK, OpAgrees, StateAgrees, StateEffect, Calling, Task_State, Operation,
        Tasks, Threads, Goto, taskVars
<1>1. CASE Schedule_Terminated(t)
  BY <1>1 DEF Schedule_Terminated, Scheduling
<1>2. CASE Schedule_Exit(t)
  <2>1. StateAgrees'
    BY <1>2 DEF Schedule_Exit, Set_State, Scheduling
  <2>2. StateEffect
    BY <1>2 DEF Schedule_Exit, Scheduling
  <2>3. QED BY <2>1, <2>2
<1>3. CASE Schedule_Job(t)
  <2>1. StateAgrees'
    BY <1>3 DEF Schedule_Job, Set_State, Scheduling
  <2>2. StateEffect
    BY <1>3 DEF Schedule_Job, Scheduling
  <2>3. QED BY <2>1, <2>2
<1>4. CASE Schedule_Poll(t)
  <2>1. StateAgrees'
    BY <1>4 DEF Schedule_Poll, Set_State, Scheduling
  <2>2. StateEffect
    BY <1>4 DEF Schedule_Poll, Scheduling
  <2>3. QED BY <2>1, <2>2
<1>5. CASE Schedule_Idle(t)
  <2>1. StateAgrees'
    BY <1>5 DEF Schedule_Idle, Set_State, Scheduling
  <2>2. StateEffect
    BY <1>5 DEF Schedule_Idle, Scheduling
  <2>3. QED BY <2>1, <2>2
<1>6. CASE Unregister_Task(t)
  <2>1. StateAgrees'
    BY <1>6 DEF Unregister_Task
  <2>2. StateEffect
    BY <1>6 DEF Unregister_Task
  <2>3. QED BY <2>1, <2>2
<1>7. CASE Idle_Terminate(t)
  <2>1. StateAgrees'
    BY <1>7 DEF Idle_Terminate, Set_State
  <2>2. StateEffect
    BY <1>7 DEF Idle_Terminate
  <2>3. QED BY <2>1, <2>2
<1>8. CASE Idle_Wait(t)
  BY <1>8 DEF Idle_Wait
<1>9. CASE End_Of_Check_Sources(t)
  BY <1>9 DEF End_Of_Check_Sources
<1>10. CASE Run(t)
  <2>1. StateAgrees'
    BY <1>10 DEF Run, Register_Task
  <2>2. StateEffect
    BY <1>10 DEF Run
  <2>3. QED BY <2>1, <2>2
<1>11. CASE Idle_Return(t)
  BY <1>11 DEF Idle_Return
<1>12. CASE Reenter(t)
  BY <1>12 DEF Reenter
<1>13. CASE Terminate_Task(t)
  <2>1. StateAgrees'
    BY <1>13 DEF Terminate_Task, Set_State
  <2>2. StateEffect
    BY <1>13 DEF Terminate_Task
  <2>3. QED BY <2>1, <2>2
<1>14. CASE Job_Completed(t)
  BY <1>14 DEF Job_Completed
<1>15. ASSUME NEW s \in Sources, Queue_Event_Job(t, s)
      PROVE  StateAgrees' /\ StateEffect
  BY <1>15 DEF Queue_Event_Job
<1>16. CASE Abort_Request_Fails(t)
  BY <1>16 DEF Abort_Request_Fails
<1> HIDE DEF StateAgrees, StateEffect
<1>17. QED
  BY <1>1, <1>2, <1>3, <1>4, <1>5, <1>6, <1>7, <1>8, <1>9, <1>10, <1>11, <1>12, <1>13,
     <1>14, <1>15, <1>16
  DEF Task_Inside, Task_Enter, Schedule_Task

(* A call that the program makes into the ORB changes no state.            *)
LEMMA StateCall ==
  ASSUME Typed, StateAgrees, NEW t \in Threads,
         Call_Inside(t) \/ Call_Enter(t) \/ Source_Calls(t)
  PROVE  StateAgrees' /\ StateEffect
<1> USE ThreadsAssumption
    DEF Typed, TypeOK, OpAgrees, StateAgrees, StateEffect, Calling, Task_State, Operation,
        Tasks, Threads, Goto, taskVars
<1>1. CASE Disable_Polling(t)
  <2>1. pc' = [pc EXCEPT ![t] = "disabling"] \/ pc' = [pc EXCEPT ![t] = "disabled"]
    BY <1>1 DEF Disable_Polling
  <2>2. pc[t] = "disable" /\ UNCHANGED <<state, summary, op>>
    BY <1>1 DEF Disable_Polling
  <2>3. CASE pc' = [pc EXCEPT ![t] = "disabling"]
    BY <2>2, <2>3
  <2>4. CASE pc' = [pc EXCEPT ![t] = "disabled"]
    BY <2>2, <2>4
  <2>5. QED BY <2>1, <2>3, <2>4
<1>2. CASE Register_Unknown(t)
  BY <1>2 DEF Register_Unknown
<1>3. CASE Register_Source(t)
  BY <1>3 DEF Register_Source
<1>4. CASE Register_Failure(t)
  BY <1>4 DEF Register_Failure
<1>5. CASE Create_Monitor(t)
  <2>1. pc[t] = "create" /\ UNCHANGED <<state, summary>>
    BY <1>5 DEF Create_Monitor
  <2>2. CASE UNCHANGED <<pc, op>>
    BY <2>1, <2>2
  <2>3. CASE /\ pc' = [pc EXCEPT ![t] = "added"]
             /\ op' = [op EXCEPT ![t].slot = Monitor_Count + 1]
    BY <2>1, <2>3
  <2>4. QED BY <1>5, <2>2, <2>3 DEF Create_Monitor
<1>6. CASE Create_Failure(t)
  BY <1>6 DEF Create_Failure
<1>7. CASE Event_Sources_Added(t)
  BY <1>7 DEF Event_Sources_Added
<1>8. CASE Unregister_Source(t)
  BY <1>8 DEF Unregister_Source
<1>9. CASE Source_Done(t)
  BY <1>9 DEF Source_Done, NoOp
<1>10. CASE Delete_Source(t)
  BY <1>10 DEF Delete_Source
<1>11. CASE Disable_Return(t)
  BY <1>11 DEF Disable_Return
<1>12. ASSUME NEW s \in Sources, Insert_Source(t, s)
      PROVE  StateAgrees' /\ StateEffect
  BY <1>12 DEF Insert_Source, Can_Call
<1>13. ASSUME NEW s \in Sources, Finalize_Endpoint(t, s)
      PROVE  StateAgrees' /\ StateEffect
  BY <1>13 DEF Finalize_Endpoint, Can_Call
<1>14. CASE Delete_Unmonitored(t)
  BY <1>14 DEF Delete_Unmonitored
<1> HIDE DEF StateAgrees, StateEffect
<1>15. QED
  BY <1>1, <1>2, <1>3, <1>4, <1>5, <1>6, <1>7, <1>8, <1>9, <1>10, <1>11, <1>12, <1>13, <1>14
  DEF Call_Inside, Call_Enter, Source_Calls

(* Nor does a step of a job, of Check_Sources, of a client or of a thread  *)
(* that shuts the ORB down.                                                *)
LEMMA StateOther ==
  ASSUME Typed, StateAgrees,
         \/ \E t \in Tasks : \/ Job_Calls(t) \/ Request_Result_Ready(t)
                             \/ Check_Sources(t) \/ Check_Sources_Aborted(t)
         \/ \E t \in Transient : Invoke(t) \/ Abort_Run(t)
         \/ \E a \in Closers : (\E w \in BOOLEAN : Shutdown(a, w)) \/ Completion_Return(a)
  PROVE  StateAgrees' /\ StateEffect
<1> USE ThreadsAssumption
    DEF Typed, TypeOK, OpAgrees, StateAgrees, StateEffect, Calling, Task_State, Operation,
        Tasks, Threads, Goto, taskVars
<1>1. ASSUME NEW t \in Tasks, NEW u \in Upcalls, Queue_Request_Job(t, u)
     PROVE  StateAgrees' /\ StateEffect
  BY <1>1 DEF Queue_Request_Job
<1>2. ASSUME NEW t \in Tasks, NEW r \in Transient, Executed_Request(t, r)
     PROVE  StateAgrees' /\ StateEffect
  <2>1. pc[t] = "running" /\ UNCHANGED <<state, summary>>
    BY <1>2 DEF Executed_Request
  <2>2. CASE UNCHANGED <<pc, op>>
    BY <2>1, <2>2
  <2>3. CASE /\ pc' = [pc EXCEPT ![t] = "notifying"]
             /\ \A u \in Threads \ {t} : op'[u] = op[u]
    BY <2>1, <2>3
  <2>4. QED BY <1>2, <2>2, <2>3 DEF Executed_Request
<1>3. ASSUME NEW t \in Tasks, Disconnect(t)
     PROVE  StateAgrees' /\ StateEffect
  BY <1>3 DEF Disconnect
<1>4. ASSUME NEW t \in Tasks, Request_Result_Ready(t)
     PROVE  StateAgrees' /\ StateEffect
  BY <1>4 DEF Request_Result_Ready, NoOp
<1>5. ASSUME NEW t \in Tasks, Check_Sources(t)
     PROVE  StateAgrees' /\ StateEffect
  BY <1>5 DEF Check_Sources
<1>6. ASSUME NEW t \in Tasks, Check_Sources_Aborted(t)
     PROVE  StateAgrees' /\ StateEffect
  BY <1>6 DEF Check_Sources_Aborted
<1>7. ASSUME NEW t \in Transient, Invoke(t)
     PROVE  StateAgrees' /\ StateEffect
  BY <1>7 DEF Invoke
<1>8. ASSUME NEW t \in Transient, Abort_Run(t)
     PROVE  StateAgrees' /\ StateEffect
  BY <1>8 DEF Abort_Run
<1>9. ASSUME NEW a \in Closers, NEW w \in BOOLEAN, Shutdown(a, w)
     PROVE  StateAgrees' /\ StateEffect
  <2>1. \A t \in Tasks : pc'[t] = pc[t]
    BY <1>9 DEF Shutdown
  <2>2. QED BY <1>9, <2>1 DEF Shutdown
<1>10. ASSUME NEW a \in Closers, Completion_Return(a)
      PROVE  StateAgrees' /\ StateEffect
  <2>1. \A t \in Tasks : pc'[t] = pc[t]
    BY <1>10 DEF Completion_Return
  <2>2. QED BY <1>10, <2>1 DEF Completion_Return
<1> HIDE DEF StateAgrees, StateEffect
<1>11. QED
  BY <1>1, <1>2, <1>3, <1>4, <1>5, <1>6, <1>7, <1>8, <1>9, <1>10
  DEF Job_Calls

----------------------------------------------------------------------------
(* The counts                                                              *)

(* A set of counted tasks is finite, and counts with and without a task.   *)
LEMMA CountedFinite ==
  ASSUME NEW k, NEW s
  PROVE  /\ Cardinality(Counted(k, s)) \in Nat
         /\ \A t : t \notin Counted(k, s) =>
              Cardinality(Counted(k, s) \cup {t}) = Cardinality(Counted(k, s)) + 1
         /\ \A t : t \in Counted(k, s) =>
              Cardinality(Counted(k, s) \ {t}) = Cardinality(Counted(k, s)) - 1
<1>1. Counted(k, s) \subseteq Threads
  BY DEF Counted, Threads
<1>2. IsFiniteSet(Counted(k, s))
  BY <1>1, FiniteAssumption, FS_Subset
<1>3. QED BY <1>2, FS_AddElement, FS_RemoveElement, FS_CardinalityType

(* What Adjust does to a cell.                                             *)
LEMMA AdjustCell ==
  ASSUME NEW c, NEW kind, NEW S, NEW d,
         NEW k \in Any_Task_Kind, NEW s \in Any_Task_State
  PROVE  Adjust(c, kind, S, d)[k][s]
           = IF Kind_Match(kind, k) /\ s \in S THEN c[k][s] + d ELSE c[k][s]
BY DEF Adjust

(* Every effect keeps the summary exact.                                   *)
LEMMA EffectExact ==
  ASSUME TypeOK, SummaryExact, StateEffect
  PROVE  SummaryExact'
<1> SUFFICES ASSUME NEW k \in Any_Task_Kind, NEW s \in Any_Task_State
             PROVE  summary'[k][s] = Cardinality(Counted(k, s)')
  BY DEF SummaryExact, Get_Count
<1>1. summary[k][s] = Cardinality(Counted(k, s)) /\ summary[k][s] \in Int
  BY DEF SummaryExact, Get_Count, TypeOK, Task_Summary
<1>2. CASE UNCHANGED <<state, summary>>
  BY <1>1, <1>2 DEF Counted
<1>3. ASSUME NEW t \in Tasks, state[t] = "none", Register_Task(t)
      PROVE  summary'[k][s] = Cardinality(Counted(k, s)')
  <2> DEFINE hit == Kind_Match(Kind(t), k) /\ s \in {"Unscheduled", "Any"}
  <2>1. summary'[k][s] = IF hit THEN summary[k][s] + 1 ELSE summary[k][s]
    BY <1>3, AdjustCell DEF Register_Task, Task_Created
  <2>2. /\ t \notin Counted(k, s)
        /\ Counted(k, s)' = IF hit THEN Counted(k, s) \cup {t} ELSE Counted(k, s)
    BY <1>3 DEF Register_Task, Counted, TypeOK
  <2>3. QED BY <1>1, <2>1, <2>2, CountedFinite
<1>4. ASSUME NEW t \in Tasks, state[t] = "Terminated",
             state' = [state EXCEPT ![t] = "none"],
             summary' = Task_Removed(summary, Kind(t))
      PROVE  summary'[k][s] = Cardinality(Counted(k, s)')
  <2> DEFINE hit == Kind_Match(Kind(t), k) /\ s \in {"Terminated", "Any"}
  <2>1. summary'[k][s] = IF hit THEN summary[k][s] + (-1) ELSE summary[k][s]
    BY <1>4, AdjustCell DEF Task_Removed
  <2>2. /\ hit => t \in Counted(k, s)
        /\ Counted(k, s)' = IF hit THEN Counted(k, s) \ {t} ELSE Counted(k, s)
    BY <1>4 DEF Counted, TypeOK
  <2>3. QED BY <1>1, <2>1, <2>2, CountedFinite
<1>5. ASSUME NEW t \in Tasks, state[t] # "none", NEW new \in Task_State, Set_State(t, new)
      PROVE  summary'[k][s] = Cardinality(Counted(k, s)')
  <2> DEFINE match == Kind_Match(Kind(t), k)
             old == state[t]
             mid == Adjust(summary, Kind(t), {old}, -1)
  <2>1. mid[k][s] = IF match /\ s = old THEN summary[k][s] + (-1) ELSE summary[k][s]
    BY AdjustCell
  <2>2. summary' = Adjust(mid, Kind(t), {new}, 1)
    BY <1>5 DEF Set_State, Task_State_Change
  <2>3. summary'[k][s] = IF match /\ s = new THEN mid[k][s] + 1 ELSE mid[k][s]
    BY <2>2, AdjustCell
  <2> HIDE DEF mid
  <2>4. state' = [state EXCEPT ![t] = new] /\ new # "none" /\ new # "Any" /\ old # "Any"
    BY <1>5 DEF Set_State, TypeOK, Task_State
  <2>5. CASE ~match \/ s \notin {old, new} \/ old = new
    <3>1. Counted(k, s)' = Counted(k, s)
      BY <1>5, <2>4, <2>5 DEF Counted, TypeOK
    <3>2. summary'[k][s] = summary[k][s]
      BY <1>1, <2>1, <2>3, <2>5
    <3>3. QED BY <1>1, <3>1, <3>2
  <2>6. CASE match /\ s = new /\ old # new
    <3>1. t \notin Counted(k, s) /\ Counted(k, s)' = Counted(k, s) \cup {t}
      BY <1>5, <2>4, <2>6 DEF Counted, TypeOK
    <3>2. summary'[k][s] = summary[k][s] + 1
      BY <2>1, <2>3, <2>6
    <3>3. QED BY <1>1, <3>1, <3>2, CountedFinite
  <2>7. CASE match /\ s = old /\ old # new
    <3>1. t \in Counted(k, s) /\ Counted(k, s)' = Counted(k, s) \ {t}
      BY <1>5, <2>4, <2>7 DEF Counted, TypeOK
    <3>2. summary'[k][s] = summary[k][s] - 1
      BY <1>1, <2>1, <2>3, <2>7
    <3>3. QED BY <1>1, <3>1, <3>2, CountedFinite
  <2>8. QED BY <2>5, <2>6, <2>7
<1>6. QED BY <1>2, <1>3, <1>4, <1>5 DEF StateEffect

(* The inductive invariant of the task summary.                            *)
Summarized == StateAgrees /\ SummaryExact

(* No task is registered at first.                                         *)
LEMMA SummarizedInit == Init => Summarized
<1> SUFFICES ASSUME Init PROVE Summarized
  OBVIOUS
<1>1. StateAgrees
  BY ThreadsAssumption DEF Init, StateAgrees, Calling, Tasks, Threads
<1>2. ASSUME NEW k \in Any_Task_Kind, NEW s \in Any_Task_State
      PROVE  Counted(k, s) = {} /\ summary[k][s] = 0
  BY DEF Init, Counted, Empty_Summary
<1>3. SummaryExact
  BY <1>2, FS_EmptySet DEF SummaryExact, Get_Count
<1>4. QED BY <1>1, <1>3 DEF Summarized

(* Every step keeps the states and the summary in agreement.               *)
LEMMA SummarizedStep ==
  ASSUME Typed, Summarized, [Next]_vars
  PROVE  Summarized'
<1>1. StateAgrees' /\ StateEffect
  <2>1. CASE Next
    BY <2>1, StateTask, StateCall, StateOther DEF Next, Summarized
  <2>2. CASE UNCHANGED vars
    BY <2>2 DEF Summarized, StateAgrees, StateEffect, vars, taskVars
  <2>3. QED BY <2>1, <2>2
<1>2. SummaryExact'
  BY <1>1, EffectExact DEF Summarized, Typed
<1>3. QED BY <1>1, <1>2 DEF Summarized

----------------------------------------------------------------------------
(* Spare threads                                                           *)

(* Sleeping tasks are among those that the summary counts as Idle.         *)
LEMMA SleepersCounted ==
  ASSUME TypeOK, SleepersOnList, SummaryExact
  PROVE  \A t \in Permanent :
           t \in Counted("Permanent", "Idle") =>
             Cardinality((idleWait \cup {t}) \cap Permanent)
               <= Get_Count(summary, "Permanent", "Idle")
<1> SUFFICES ASSUME NEW t \in Permanent, t \in Counted("Permanent", "Idle")
             PROVE  Cardinality((idleWait \cup {t}) \cap Permanent)
                      <= Get_Count(summary, "Permanent", "Idle")
  OBVIOUS
<1> DEFINE C == Counted("Permanent", "Idle")
<1>1. (idleWait \cup {t}) \cap Permanent \subseteq C
  BY DEF TypeOK, SleepersOnList, Counted, Kind, Kind_Match
<1>2. C \subseteq Threads
  BY DEF Counted, Threads
<1>3. IsFiniteSet(C)
  BY <1>2, FiniteAssumption, FS_Subset
<1>4. Cardinality((idleWait \cup {t}) \cap Permanent) <= Cardinality(C)
  BY <1>1, <1>3, FS_Subset
<1>5. Get_Count(summary, "Permanent", "Idle") = Cardinality(C)
  BY DEF SummaryExact, Any_Task_Kind, Task_Kind, Any_Task_State, Task_State
<1>6. QED BY <1>4, <1>5

(* Who may begin to sleep, and what else happens to the sleeping tasks.    *)
LEMMA SleepEffect ==
  ASSUME Typed, [Next]_vars
  PROVE  idleWait' \subseteq idleWait \/ \E t \in Tasks : Idle_Wait(t)
<1> USE DEF waitVars, idleVars
<1>1. ASSUME Allocates PROVE idleWait' \subseteq idleWait
  BY <1>1 DEF Allocates, Awakes
<1>2. ASSUME NEW t \in Tasks, Task_Inside(t) \/ Task_Enter(t)
      PROVE  idleWait' \subseteq idleWait \/ Idle_Wait(t)
  <2>1. CASE Unregister_Task(t)
    BY <1>1, <2>1, UnregisteredAllocates DEF Unregister_Task, Typed
  <2>2. CASE \E s \in Sources : Queue_Event_Job(t, s)
    BY <1>1, <2>2, TryAllocates DEF Queue_Event_Job, Typed
  <2>3. QED
    BY <1>2, <2>1, <2>2
    DEF Task_Inside, Task_Enter, Schedule_Task, Schedule_Terminated, Schedule_Exit,
        Schedule_Job, Schedule_Poll, Schedule_Idle, Idle_Terminate, End_Of_Check_Sources, Run,
        Idle_Return, Reenter, Terminate_Task, Abort_Request_Fails,
        Job_Completed
<1>3. ASSUME NEW t \in Threads, Call_Inside(t) \/ Call_Enter(t) \/ Source_Calls(t)
      PROVE  idleWait' \subseteq idleWait
  <2>1. CASE Register_Unknown(t)
    BY <1>1, <2>1, EnableAllocates DEF Register_Unknown, Typed
  <2>2. CASE Event_Sources_Added(t)
    BY <1>1, <2>2, TryAllocates DEF Event_Sources_Added, Typed
  <2>3. CASE Source_Done(t)
    BY <1>1, <2>3, EnableAllocates DEF Source_Done, Typed
  <2>4. QED
    BY <1>3, <2>1, <2>2, <2>3
    DEF Call_Inside, Call_Enter, Source_Calls, Disable_Polling, Register_Source,
        Register_Failure, Create_Monitor, Create_Failure, Unregister_Source, Delete_Source,
        Delete_Unmonitored, Disable_Return, Insert_Source, Finalize_Endpoint
<1>4. ASSUME NEW t \in Tasks, \/ Job_Calls(t) \/ Request_Result_Ready(t)
                              \/ Check_Sources(t) \/ Check_Sources_Aborted(t)
      PROVE  idleWait' \subseteq idleWait
  <2>1. CASE \E u \in Upcalls : Queue_Request_Job(t, u)
    BY <1>1, <2>1, TryAllocates DEF Queue_Request_Job, Typed
  <2>2. CASE Request_Result_Ready(t)
    BY <2>2 DEF Request_Result_Ready, Reschedule_Task, Awake_Idle_Task
  <2>3. QED
    BY <1>4, <2>1, <2>2
    DEF Job_Calls, Executed_Request, Disconnect, Check_Sources, Check_Sources_Aborted
<1>5. CASE \/ \E t \in Transient : Invoke(t) \/ Abort_Run(t)
           \/ \E a \in Closers : (\E w \in BOOLEAN : Shutdown(a, w)) \/ Completion_Return(a)
           \/ UNCHANGED vars
  BY <1>5 DEF Invoke, Abort_Run, Shutdown, Completion_Return, vars
<1>6. QED BY <1>2, <1>3, <1>4, <1>5 DEF Next

(* Every step keeps the number of spare threads within its bound.          *)
LEMMA SparesStep ==
  ASSUME Typed, Sleepers, Summarized, SpareBound, [Next]_vars
  PROVE  SpareBound'
<1> SUFFICES ASSUME Permanent \subseteq MayExit
             PROVE  Cardinality(idleWait' \cap Permanent) <= MaxSpare
  BY DEF SpareBound
<1>1. Cardinality(idleWait \cap Permanent) <= MaxSpare
  BY DEF SpareBound
<1>2. IsFiniteSet(idleWait \cap Permanent)
  BY FiniteAssumption, FS_Subset DEF Threads, Tasks
<1>3. CASE idleWait' \subseteq idleWait
  <2>1. idleWait' \cap Permanent \subseteq idleWait \cap Permanent
    BY <1>3
  <2>2. /\ IsFiniteSet(idleWait' \cap Permanent)
        /\ Cardinality(idleWait' \cap Permanent) <= Cardinality(idleWait \cap Permanent)
    BY <1>2, <2>1, FS_Subset
  <2>3. QED BY <1>1, <1>2, <2>2, PoolAssumption, FS_CardinalityType
<1>4. ASSUME NEW t \in Tasks, Idle_Wait(t)
      PROVE  Cardinality(idleWait' \cap Permanent) <= MaxSpare
  <2>1. idleWait' = idleWait \cup {t} /\ ~Too_Many_Spares(t) /\ pc[t] = "goidle"
    BY <1>4 DEF Idle_Wait
  <2>2. CASE t \notin Permanent
    <3>1. idleWait' \cap Permanent = idleWait \cap Permanent
      BY <2>1, <2>2
    <3>2. QED BY <1>1, <3>1
  <2>3. CASE t \in Permanent
    <3>1. t \in Counted("Permanent", "Idle")
      BY <2>1, <2>3
      DEF Sleepers, IdleAgrees, SleepersOnList, Counted, Kind, Kind_Match
    <3>2. Cardinality(idleWait' \cap Permanent) <= Get_Count(summary, "Permanent", "Idle")
      BY <2>1, <2>3, <3>1, SleepersCounted DEF Typed, Sleepers, Summarized
    <3>3. ~(Get_Count(summary, "Permanent", "Idle") > MaxSpare)
      BY <2>1, <2>3 DEF Too_Many_Spares
    <3>4. /\ Get_Count(summary, "Permanent", "Idle") \in Int
          /\ MaxSpare \in Int
      BY PoolAssumption
      DEF Typed, TypeOK, Task_Summary, Get_Count, Any_Task_Kind, Task_Kind, Any_Task_State,
          Task_State
    <3>5. /\ IsFiniteSet(idleWait' \cap Permanent)
          /\ Cardinality(idleWait' \cap Permanent) \in Int
      <4>1. idleWait' \cap Permanent = (idleWait \cap Permanent) \cup {t}
        BY <2>1, <2>3
      <4>2. IsFiniteSet((idleWait \cap Permanent) \cup {t})
        BY <1>2, FS_AddElement
      <4>3. IsFiniteSet(idleWait' \cap Permanent)
        BY <4>1, <4>2
      <4>4. QED BY <4>3, FS_CardinalityType
    <3>6. QED BY <3>2, <3>3, <3>4, <3>5
  <2>4. QED BY <2>2, <2>3
<1>5. QED BY <1>3, <1>4, SleepEffect

----------------------------------------------------------------------------
(* Theorems                                                                *)

(* The inductive invariants hold in every state.                           *)
LEMMA SummarizedAlways == Spec => [](Typed /\ Sleepers /\ Summarized)
<1>1. Spec => []Typed
  BY TypedInit, TypedStep, PTL DEF Spec
<1>2. Spec => []Sleepers
  <2>1. Typed => TypeOK
    BY DEF Typed
  <2>2. QED BY <1>1, <2>1, SleepersInit, SleepersStep, PTL DEF Spec
<1>3. Typed /\ Summarized /\ [Next]_vars => Summarized'
  BY SummarizedStep
<1>4. QED BY <1>1, <1>2, <1>3, SummarizedInit, PTL DEF Spec

(* The task summary counts exactly the registered tasks, in every row and  *)
(* column, for any number of threads, and also where clients are aborted   *)
(* and pool threads are created and end.                                   *)
THEOREM SummaryCorrect == Spec => []SummaryExact
<1>1. QED BY SummarizedAlways, PTL DEF Summarized

(* Where every permanent task is one of the pool's, Idle never lets more   *)
(* than Maximum_Spare_Threads of them sleep, however many tasks become     *)
(* idle and are awakened at the same time.                                 *)
THEOREM SpareCorrect == Spec => []SpareBound
<1>1. Init => SpareBound
  <2> SUFFICES ASSUME Init PROVE SpareBound
    OBVIOUS
  <2>1. idleWait \cap Permanent = {}
    BY DEF Init
  <2>2. QED BY <2>1, FS_EmptySet, PoolAssumption DEF SpareBound
<1>2. Typed /\ Sleepers /\ Summarized /\ SpareBound /\ [Next]_vars => SpareBound'
  BY SparesStep
<1>3. QED BY <1>1, <1>2, SummarizedAlways, PTL DEF Spec
=============================================================================
