--------------------------- MODULE PollingProofs ---------------------------
(***************************************************************************)
(* The polling protocol of OrbWorkers, for every set of threads: a monitor *)
(* is polled by one task at a time, the slot of the monitor names it,      *)
(* Disable_Polling waits for it, and a source list never changes under a   *)
(* task that polls it, although the lock is not held while polling.        *)
(***************************************************************************)
EXTENDS OrbWorkersProofs, FiniteSetTheorems

(* A monitor has at most one slot.                                         *)
SlotsDistinct ==
  \A J, K \in Slots : aemMonitor[J] # None /\ aemMonitor[J] = aemMonitor[K] => J = K

(* A task is Blocked from Schedule_Task to the end of its poll, and then   *)
(* has a selector; it remains so until Schedule_Task gives it a new state. *)
BlockedAgrees ==
  \A t \in Tasks :
    /\ state[t] = "Blocked" => pc[t] \in {"blocked", "polled", "queueing", "aborting", "schedule"}
    /\ pc[t] \in {"blocked", "polled", "queueing"} => state[t] = "Blocked"
    /\ Polls(t) => selector[t] \in Monitors

(* A thread that waits in Disable_Polling is in the wait set of its slot   *)
(* until polling has ended, and polling does not start again before it has *)
(* returned with the lock and changed the source list.                     *)
WaitersAgree ==
  /\ \A J \in Slots : \A t \in pollWait[J] : pc[t] = "disabling" /\ op[t].slot = J
  /\ \A t \in Threads :
       /\ pc[t] = "disabling" => t \in pollWait[op[t].slot] \/ aemTI[op[t].slot] = None
       /\ pc[t] = "disabled" => aemTI[op[t].slot] = None
  /\ \A J \in Slots : pollWait[J] # {} => aemTI[J] # None

(* The polling tables, without the counter.                                *)
Tables == SlotsDistinct /\ SlotNamesPoller /\ BlockedAgrees /\ WaitersAgree

(* The threads that Disable_Polling of slot J has not released.            *)
Disabling(J) == {t \in Threads : pc[t] = "disabling" /\ op[t].slot = J}

(* Polling_Abort_Counter counts them.                                      *)
CounterExact == \A J \in Slots : abortCounter[J] = Cardinality(Disabling(J))

(* What the counter is for.                                                *)
WaitsCounted == \A t \in Threads : pc[t] = "disabling" => abortCounter[op[t].slot] > 0

(* The inductive invariant of the polling protocol.                        *)
Polling == Tables /\ CounterExact

----------------------------------------------------------------------------
(* The abort counter                                                       *)

(* The counter of a slot is positive as long as a thread has not returned  *)
(* from its wait.                                                          *)
LEMMA CounterPositive == Typed /\ CounterExact => WaitsCounted
<1> SUFFICES ASSUME Typed, CounterExact, NEW t \in Threads, pc[t] = "disabling"
             PROVE  abortCounter[op[t].slot] > 0
  BY DEF WaitsCounted
<1> DEFINE J == op[t].slot
<1>1. J \in Slots
  BY DEF Typed, OpAgrees
<1>2. t \in Disabling(J) /\ IsFiniteSet(Disabling(J))
  <2>1. Disabling(J) \subseteq Threads
    BY DEF Disabling
  <2>2. IsFiniteSet(Disabling(J))
    BY <2>1, FiniteAssumption, FS_Subset
  <2>3. QED BY <2>2 DEF Disabling
<1>3. Cardinality(Disabling(J)) \in Nat /\ Cardinality(Disabling(J)) # 0
  BY <1>2, FS_EmptySet, FS_CardinalityType
<1>4. QED BY <1>1, <1>3 DEF CounterExact

(* A step that no thread enters or leaves the wait with.                   *)
SameWaits ==
  /\ UNCHANGED abortCounter
  /\ \A t \in Threads : /\ pc'[t] = "disabling" <=> pc[t] = "disabling"
                        /\ pc[t] = "disabling" => op'[t].slot = op[t].slot

(* Such a step keeps the counter exact.                                    *)
LEMMA SameCounter ==
  ASSUME CounterExact, SameWaits
  PROVE  CounterExact'
<1>1. \A J \in Slots : Disabling(J)' = Disabling(J)
  BY DEF SameWaits, Disabling
<1>2. QED BY <1>1 DEF CounterExact, SameWaits

(* A step of a task does not change the set of waiting threads.            *)
LEMMA CounterTask ==
  ASSUME Typed, NEW t \in Tasks, Task_Inside(t) \/ Task_Enter(t)
  PROVE  SameWaits
<1> USE DEF Typed, TypeOK, SameWaits, Goto, Threads, aemVars
<1>1. CASE Schedule_Terminated(t)
  BY <1>1 DEF Schedule_Terminated, Scheduling
<1>2. CASE Schedule_Exit(t)
  BY <1>2 DEF Schedule_Exit, Scheduling
<1>3. CASE Schedule_Job(t)
  BY <1>3 DEF Schedule_Job, Scheduling
<1>4. CASE Schedule_Poll(t)
  BY <1>4 DEF Schedule_Poll, Scheduling
<1>5. CASE Schedule_Idle(t)
  BY <1>5 DEF Schedule_Idle, Scheduling
<1>6. CASE Unregister_Task(t)
  BY <1>6 DEF Unregister_Task
<1>7. CASE Idle_Terminate(t)
  BY <1>7 DEF Idle_Terminate
<1>8. CASE Idle_Wait(t)
  BY <1>8 DEF Idle_Wait
<1>9. CASE End_Of_Check_Sources(t)
  BY <1>9 DEF End_Of_Check_Sources
<1>10. CASE Run(t)
  BY <1>10 DEF Run
<1>11. CASE Idle_Return(t)
  BY <1>11 DEF Idle_Return
<1>12. CASE Reenter(t)
  BY <1>12 DEF Reenter
<1>13. CASE Terminate_Task(t)
  BY <1>13 DEF Terminate_Task
<1>14. CASE Job_Completed(t)
  BY <1>14 DEF Job_Completed
<1>15. ASSUME NEW s \in Sources, Queue_Event_Job(t, s) PROVE SameWaits
  BY <1>15 DEF Queue_Event_Job
<1>16. CASE Abort_Request_Fails(t)
  BY <1>16 DEF Abort_Request_Fails
<1> HIDE DEF SameWaits
<1>17. QED
  BY <1>1, <1>2, <1>3, <1>4, <1>5, <1>6, <1>7, <1>8, <1>9, <1>10, <1>11, <1>12, <1>13, <1>14, <1>15, <1>16
  DEF Task_Inside, Task_Enter, Schedule_Task

(* A thread enters the wait in Disable_Polling and leaves it in            *)
(* Disable_Return; no other call changes the set of waiting threads.       *)
LEMMA CounterCall ==
  ASSUME Typed, NEW t \in Threads, Call_Inside(t) \/ Call_Enter(t) \/ Source_Calls(t)
  PROVE  SameWaits \/ Disable_Polling(t) \/ Disable_Return(t)
<1> USE DEF Typed, TypeOK, SameWaits, Goto, aemVars
<1>1. CASE Register_Unknown(t)
  BY <1>1 DEF Register_Unknown
<1>2. CASE Register_Source(t)
  BY <1>2 DEF Register_Source
<1>3. CASE Register_Failure(t)
  BY <1>3 DEF Register_Failure
<1>4. CASE Create_Monitor(t)
  BY <1>4 DEF Create_Monitor
<1>5. CASE Create_Failure(t)
  BY <1>5 DEF Create_Failure
<1>6. CASE Event_Sources_Added(t)
  BY <1>6 DEF Event_Sources_Added
<1>7. CASE Unregister_Source(t)
  BY <1>7 DEF Unregister_Source
<1>8. CASE Source_Done(t)
  <2>1. op[t].ret \in {"out", "running"}
    BY DEF Operation
  <2>2. QED BY <1>8, <2>1 DEF Source_Done
<1>9. CASE Delete_Source(t)
  BY <1>9 DEF Delete_Source
<1>10. ASSUME NEW s \in Sources, Insert_Source(t, s) PROVE SameWaits
  BY <1>10 DEF Insert_Source, Can_Call
<1>11. ASSUME NEW s \in Sources, Finalize_Endpoint(t, s) PROVE SameWaits
  BY <1>11 DEF Finalize_Endpoint, Can_Call
<1>12. CASE Delete_Unmonitored(t)
  BY <1>12 DEF Delete_Unmonitored
<1> HIDE DEF SameWaits
<1>13. QED
  BY <1>1, <1>2, <1>3, <1>4, <1>5, <1>6, <1>7, <1>8, <1>9, <1>10, <1>11, <1>12
  DEF Call_Inside, Call_Enter, Source_Calls

(* Nor does a step of a job, of Check_Sources, of a client or of a thread  *)
(* that shuts the ORB down.                                                *)
LEMMA CounterOther ==
  ASSUME Typed,
         \/ \E t \in Tasks : \/ Job_Calls(t) \/ Request_Result_Ready(t)
                             \/ Check_Sources(t) \/ Check_Sources_Aborted(t)
         \/ \E t \in Transient : Invoke(t) \/ Abort_Run(t)
         \/ \E a \in Closers : (\E w \in BOOLEAN : Shutdown(a, w)) \/ Completion_Return(a)
  PROVE  SameWaits
<1> USE ThreadsAssumption DEF Typed, TypeOK, SameWaits, Goto, Tasks, Threads, aemVars
<1>1. ASSUME NEW t \in Tasks, NEW u \in Upcalls, Queue_Request_Job(t, u) PROVE SameWaits
  BY <1>1 DEF Queue_Request_Job
<1>2. ASSUME NEW t \in Tasks, NEW r \in Transient, Executed_Request(t, r) PROVE SameWaits
  BY <1>2 DEF Executed_Request
<1>3. ASSUME NEW t \in Tasks, Disconnect(t) PROVE SameWaits
  BY <1>3 DEF Disconnect
<1>4. ASSUME NEW t \in Tasks, Request_Result_Ready(t) PROVE SameWaits
  BY <1>4 DEF Request_Result_Ready
<1>5. ASSUME NEW t \in Tasks, Check_Sources(t) PROVE SameWaits
  BY <1>5 DEF Check_Sources
<1>6. ASSUME NEW t \in Tasks, Check_Sources_Aborted(t) PROVE SameWaits
  BY <1>6 DEF Check_Sources_Aborted
<1>7. ASSUME NEW t \in Transient, Invoke(t) PROVE SameWaits
  BY <1>7 DEF Invoke
<1>8. ASSUME NEW t \in Transient, Abort_Run(t) PROVE SameWaits
  BY <1>8 DEF Abort_Run
<1>9. ASSUME NEW a \in Closers, NEW w \in BOOLEAN, Shutdown(a, w) PROVE SameWaits
  BY <1>9 DEF Shutdown
<1>10. ASSUME NEW a \in Closers, Completion_Return(a) PROVE SameWaits
  BY <1>10 DEF Completion_Return
<1> HIDE DEF SameWaits, Tasks
<1>11. QED
  BY <1>1, <1>2, <1>3, <1>4, <1>5, <1>6, <1>7, <1>8, <1>9, <1>10 DEF Job_Calls

(* Every step keeps the counter exact.                                     *)
LEMMA CounterStep ==
  ASSUME Typed, CounterExact, [Next]_vars
  PROVE  CounterExact'
<1>1. CASE SameWaits
  BY <1>1, SameCounter
<1>2. \A J \in Slots : IsFiniteSet(Disabling(J)) /\ Cardinality(Disabling(J)) \in Nat
  <2> SUFFICES ASSUME NEW J \in Slots
               PROVE  IsFiniteSet(Disabling(J)) /\ Cardinality(Disabling(J)) \in Nat
    OBVIOUS
  <2>1. Disabling(J) \subseteq Threads
    BY DEF Disabling
  <2>2. QED BY <2>1, FiniteAssumption, FS_Subset, FS_CardinalityType
<1>3. ASSUME NEW t \in Threads, Disable_Polling(t) PROVE CounterExact'
  <2> DEFINE J == op[t].slot
  <2>1. J \in Slots /\ pc[t] = "disable" /\ UNCHANGED op
    BY <1>3 DEF Disable_Polling, Typed, OpAgrees
  <2>2. CASE aemTI[J] = None
    <3>1. Goto(t, "disabled") /\ UNCHANGED abortCounter
      BY <1>3, <2>2 DEF Disable_Polling
    <3>2. SameWaits
      BY <2>1, <3>1 DEF SameWaits, Goto, Typed, TypeOK
    <3>3. QED BY <3>2, SameCounter
  <2>3. CASE aemTI[J] # None
    <3>1. Goto(t, "disabling") /\ abortCounter' = [abortCounter EXCEPT ![J] = @ + 1]
      BY <1>3, <2>3 DEF Disable_Polling
    <3>2. /\ t \notin Disabling(J)
          /\ Disabling(J)' = Disabling(J) \cup {t}
          /\ \A K \in Slots : K # J => Disabling(K)' = Disabling(K)
      BY <2>1, <3>1 DEF Disabling, Goto, Typed, TypeOK
    <3>3. Cardinality(Disabling(J)') = Cardinality(Disabling(J)) + 1
      BY <1>2, <2>1, <3>2, FS_AddElement
    <3>4. QED BY <2>1, <3>1, <3>2, <3>3 DEF CounterExact, Typed, TypeOK
  <2>4. QED BY <2>2, <2>3
<1>4. ASSUME NEW t \in Threads, Disable_Return(t) PROVE CounterExact'
  <2> DEFINE J == op[t].slot
  <2>1. J \in Slots /\ pc[t] = "disabling" /\ UNCHANGED op
    BY <1>4 DEF Disable_Return, Typed, OpAgrees
  <2>2. Goto(t, "disabled") /\ abortCounter' = [abortCounter EXCEPT ![J] = @ - 1]
    BY <1>4 DEF Disable_Return
  <2>3. /\ t \in Disabling(J)
        /\ Disabling(J)' = Disabling(J) \ {t}
        /\ \A K \in Slots : K # J => Disabling(K)' = Disabling(K)
    BY <2>1, <2>2 DEF Disabling, Goto, Typed, TypeOK
  <2>4. Cardinality(Disabling(J)') = Cardinality(Disabling(J)) - 1
    <3>1. IsFiniteSet(Disabling(J)) /\ t \in Disabling(J)
      BY <1>2, <2>1, <2>3
    <3>2. Cardinality(Disabling(J) \ {t}) = Cardinality(Disabling(J)) - 1
      BY <3>1, FS_RemoveElement
    <3>3. QED BY <2>3, <3>2
  <2>5. QED BY <2>1, <2>2, <2>3, <2>4 DEF CounterExact, Typed, TypeOK
<1>5. CASE UNCHANGED vars
  <2>1. SameWaits
    BY <1>5 DEF SameWaits, vars, aemVars
  <2>2. QED BY <2>1, SameCounter
<1>6. QED
  BY <1>1, <1>3, <1>4, <1>5, CounterTask, CounterCall, CounterOther DEF Next

----------------------------------------------------------------------------
(* The tables                                                              *)

(* The initial state satisfies Polling.                                    *)
LEMMA PollingInit == Init => Polling
<1> SUFFICES ASSUME Init PROVE Polling
  OBVIOUS
<1> USE DEF Init
<1>1. Tables
  BY ThreadsAssumption
  DEF Tables, SlotsDistinct, SlotNamesPoller, BlockedAgrees, WaitersAgree, Polls, Threads
<1>2. \A J \in Slots : Disabling(J) = {}
  BY DEF Disabling
<1>3. CounterExact
  BY <1>2, FS_EmptySet DEF CounterExact
<1>4. QED BY <1>1, <1>3 DEF Polling

(* A task that polls is named by exactly one slot: that of its selector.   *)
LEMMA OneSlot ==
  ASSUME Typed, Tables, NEW t \in Tasks, Polls(t)
  PROVE  \E J \in Slots :
           /\ aemTI[J] = t
           /\ Index(selector[t]) = {J}
           /\ \A K \in Slots : K # J => aemTI[K] # t
<1>1. PICK J \in Slots : aemTI[J] = t
  BY DEF Tables, SlotNamesPoller
<1>2. t # None /\ selector[t] = aemMonitor[J] /\ aemMonitor[J] # None
  BY <1>1, ThreadsAssumption, JobsAssumption
  DEF Tables, SlotNamesPoller, BlockedAgrees, Threads
<1>3. \A K \in Slots : aemTI[K] = t => aemMonitor[K] = selector[t]
  BY <1>2 DEF Tables, SlotNamesPoller
<1>4. QED BY <1>1, <1>2, <1>3 DEF Tables, SlotsDistinct, Index

(* The end of a poll frees the slot of the task and releases all threads   *)
(* that wait for it.                                                       *)
LEMMA PollEnds ==
  ASSUME Typed, Tables, WaitsCounted, NEW t \in Tasks, Polls(t),
         \E J \in Index(selector[t]) : Polling_Ended(J)
  PROVE  \E J \in Slots :
           /\ aemTI[J] = t
           /\ \A K \in Slots : K # J => aemTI[K] # t
           /\ aemTI' = [aemTI EXCEPT ![J] = None]
           /\ pollWait' = [pollWait EXCEPT ![J] = {}]
<1>1. PICK J \in Slots : /\ aemTI[J] = t
                         /\ Index(selector[t]) = {J}
                         /\ \A K \in Slots : K # J => aemTI[K] # t
  BY OneSlot
<1>2. Polling_Ended(J)
  BY <1>1
<1>3. abortCounter[J] > 0 \/ pollWait[J] = {}
  <2> SUFFICES ASSUME NEW u \in pollWait[J] PROVE abortCounter[J] > 0
    OBVIOUS
  <2>1. u \in Threads /\ pc[u] = "disabling" /\ op[u].slot = J
    BY DEF Typed, TypeOK, Tables, WaitersAgree
  <2>2. QED BY <2>1 DEF WaitsCounted
<1>4. pollWait' = [pollWait EXCEPT ![J] = {}]
  BY <1>2, <1>3 DEF Polling_Ended
<1>5. QED BY <1>1, <1>2, <1>4 DEF Polling_Ended

(* Tables after a step that ends t's poll on slot J.                       *)
LEMMA TablesAfterPoll ==
  ASSUME Typed, Tables, NEW t \in Tasks, NEW J \in Slots, NEW p,
         aemTI[J] = t, \A K \in Slots : K # J => aemTI[K] # t,
         aemTI' = [aemTI EXCEPT ![J] = None],
         pollWait' = [pollWait EXCEPT ![J] = {}],
         UNCHANGED <<aemMonitor, selector, op>>,
         pc[t] \in {"queueing", "aborting"},
         Goto(t, p), p \in {"schedule", "leaving"},
         \A u \in Tasks : u # t => state'[u] = state[u],
         p = "leaving" => state'[t] # "Blocked"
  PROVE  Tables'
<1>1. SlotsDistinct'
  BY DEF Tables, SlotsDistinct
<1>2. /\ \A u \in Tasks : u # t => pc'[u] = pc[u] /\ state'[u] = state[u]
      /\ pc'[t] = p
  BY DEF Goto, Typed, TypeOK, Threads
<1>3. SlotNamesPoller'
  <2>1. \A K \in Slots : aemTI'[K] # None => K # J /\ aemTI'[K] = aemTI[K]
    BY DEF Typed, TypeOK
  <2>2. \A K \in Slots : aemTI'[K] # None =>
          /\ aemTI'[K] \in Tasks /\ aemTI'[K] # t
          /\ Polls(aemTI[K]) /\ selector[aemTI[K]] = aemMonitor[K]
    BY <2>1 DEF Typed, TypeOK, Tables, SlotNamesPoller
  <2>3. \A K \in Slots : aemTI'[K] # None =>
          /\ state'[aemTI'[K]] = "Blocked"
          /\ pc'[aemTI'[K]] \in {"blocked", "polled", "queueing", "aborting"}
          /\ selector'[aemTI'[K]] = aemMonitor'[K]
    BY <1>2, <2>1, <2>2 DEF Polls
  <2>4. ASSUME NEW u \in Tasks, Polls(u)' PROVE \E K \in Slots : aemTI'[K] = u
    <3>1. u # t /\ Polls(u)
      BY <1>2, <2>4 DEF Polls
    <3>2. PICK K \in Slots : aemTI[K] = u
      BY <3>1 DEF Tables, SlotNamesPoller
    <3>3. K # J
      BY <3>1, <3>2
    <3>4. QED BY <3>2, <3>3 DEF Typed, TypeOK
  <2>5. QED BY <2>3, <2>4 DEF SlotNamesPoller, Polls
<1>4. BlockedAgrees'
  BY <1>2 DEF Tables, BlockedAgrees, Polls
<1>5. WaitersAgree'
  BY DEF Tables, WaitersAgree, Goto, Typed, TypeOK, OpAgrees, Threads
<1>6. QED BY <1>1, <1>3, <1>4, <1>5 DEF Tables

(* A step of a task preserves the tables.                                  *)
LEMMA TablesTask ==
  ASSUME Typed, Sleepers, Tables, WaitsCounted, NEW t \in Tasks, Task_Inside(t) \/ Task_Enter(t)
  PROVE  Tables'
<1> USE ThreadsAssumption
    DEF Typed, TypeOK, OpAgrees, Tables, SlotsDistinct, SlotNamesPoller, BlockedAgrees,
        WaitersAgree, Polls, Goto, Threads, aemVars, taskVars, waitVars, Set_State
<1>1. CASE Schedule_Terminated(t)
  BY <1>1 DEF Schedule_Terminated, Scheduling
<1>2. CASE Schedule_Exit(t)
  BY <1>2 DEF Schedule_Exit, Scheduling
<1>3. CASE Schedule_Job(t)
  BY <1>3 DEF Schedule_Job, Scheduling
<1>4. CASE Schedule_Poll(t)
  <2>1. PICK J \in Slots :
               /\ Need_Polling_Task(J)
               /\ aemTI' = [aemTI EXCEPT ![J] = t]
               /\ selector' = [selector EXCEPT ![t] = aemMonitor[J]]
    BY <1>4 DEF Schedule_Poll
  <2>2. /\ pc[t] = "schedule" /\ lock = t /\ Goto(t, "blocked")
        /\ state' = [state EXCEPT ![t] = "Blocked"]
        /\ UNCHANGED <<aemMonitor, pollWait, op>>
    BY <1>4 DEF Schedule_Poll, Scheduling
  <2>3. aemMonitor[J] \in Monitors /\ abortCounter[J] = 0 /\ aemTI[J] = None
    BY <2>1 DEF Need_Polling_Task, Needs_Polling
  <2>4. t # None /\ \A K \in Slots : aemTI[K] # t
    <3>1. t # None
      OBVIOUS
    <3>2. ASSUME NEW K \in Slots, aemTI[K] = t PROVE FALSE
      BY <2>2, <3>1, <3>2
    <3>3. QED BY <3>1, <3>2
  <2>5. SlotsDistinct'
    BY <2>2
  <2>6. SlotNamesPoller'
    <3>1. \A K \in Slots : aemTI'[K] # None =>
            /\ state'[aemTI'[K]] = "Blocked"
            /\ pc'[aemTI'[K]] \in {"blocked", "polled", "queueing", "aborting"}
            /\ selector'[aemTI'[K]] = aemMonitor'[K]
      <4>1. ASSUME NEW K \in Slots, K # J, aemTI[K] # None
            PROVE  /\ aemTI[K] \in Tasks \ {t}
                   /\ state[aemTI[K]] = "Blocked"
                   /\ pc[aemTI[K]] \in {"blocked", "polled", "queueing", "aborting"}
                   /\ selector[aemTI[K]] = aemMonitor[K]
        BY <2>4, <4>1
      <4>2. QED BY <2>1, <2>2, <4>1
    <3>2. ASSUME NEW u \in Tasks, Polls(u)' PROVE \E K \in Slots : aemTI'[K] = u
      <4>1. CASE u = t
        BY <2>1, <4>1
      <4>2. CASE u # t
        <5>1. Polls(u)
          BY <2>2, <3>2, <4>2
        <5>2. PICK K \in Slots : aemTI[K] = u
          BY <5>1
        <5>3. K # J
          BY <2>3, <5>2
        <5>4. QED BY <2>1, <5>2, <5>3
      <4>3. QED BY <4>1, <4>2
    <3>3. QED BY <3>1, <3>2
  <2>7. BlockedAgrees'
    BY <2>1, <2>2, <2>3
  <2>8. WaitersAgree'
    <3>1. \A u \in Threads : pc[u] \in {"disabling", "disabled"} => op[u].slot # J
      BY <2>2, <2>3 DEF WaitsCounted, Sleepers, CriticalHoldsLock, Critical
    <3>2. QED BY <2>1, <2>2, <2>4, <3>1
  <2>9. QED BY <2>5, <2>6, <2>7, <2>8
<1>5. CASE Schedule_Idle(t)
  BY <1>5 DEF Schedule_Idle, Scheduling
<1>6. CASE Unregister_Task(t)
  BY <1>6 DEF Unregister_Task
<1>7. CASE Idle_Terminate(t)
  BY <1>7 DEF Idle_Terminate
<1>8. CASE Idle_Wait(t)
  BY <1>8 DEF Idle_Wait
<1>9. CASE End_Of_Check_Sources(t)
  <2>1. /\ pc[t] = "queueing" /\ Goto(t, "schedule")
        /\ UNCHANGED <<aemMonitor, selector, op, state>>
        /\ \E J \in Index(selector[t]) : Polling_Ended(J)
    BY <1>9 DEF End_Of_Check_Sources
  <2>2. Polls(t)
    BY <2>1
  <2> HIDE DEF Typed, Tables, Polls
  <2>3. PICK J \in Slots :
               /\ aemTI[J] = t
               /\ \A K \in Slots : K # J => aemTI[K] # t
               /\ aemTI' = [aemTI EXCEPT ![J] = None]
               /\ pollWait' = [pollWait EXCEPT ![J] = {}]
    BY <2>1, <2>2, PollEnds
  <2>4. QED BY <2>1, <2>3, TablesAfterPoll
<1>10. CASE Run(t)
  BY <1>10 DEF Run, Register_Task
<1>11. CASE Idle_Return(t)
  BY <1>11 DEF Idle_Return
<1>12. CASE Reenter(t)
  BY <1>12 DEF Reenter
<1>13. CASE Terminate_Task(t)
  <2>1. /\ pc[t] = "aborting" /\ Goto(t, "leaving")
        /\ state' = [state EXCEPT ![t] = "Terminated"]
        /\ UNCHANGED <<aemMonitor, selector, op>>
    BY <1>13 DEF Terminate_Task
  <2>2. CASE state[t] = "Blocked"
    <3>1. \E J \in Index(selector[t]) : Polling_Ended(J)
      BY <1>13, <2>2 DEF Terminate_Task, Leave_State
    <3>2. Polls(t)
      BY <2>1, <2>2
    <3> HIDE DEF Typed, Tables, Polls
    <3>3. PICK J \in Slots :
                 /\ aemTI[J] = t
                 /\ \A K \in Slots : K # J => aemTI[K] # t
                 /\ aemTI' = [aemTI EXCEPT ![J] = None]
                 /\ pollWait' = [pollWait EXCEPT ![J] = {}]
      BY <3>1, <3>2, PollEnds
    <3>4. /\ \A u \in Tasks : u # t => state'[u] = state[u]
          /\ state'[t] # "Blocked"
      BY <2>1 DEF Typed
    <3>5. QED BY <2>1, <3>3, <3>4, TablesAfterPoll
  <2>3. CASE state[t] # "Blocked"
    <3>1. UNCHANGED <<aemTI, pollWait>>
      BY <1>13, <2>3 DEF Terminate_Task, Leave_State
    <3>2. QED BY <2>1, <2>3, <3>1
  <2>4. QED BY <2>2, <2>3
<1>14. CASE Job_Completed(t)
  BY <1>14 DEF Job_Completed
<1>15. ASSUME NEW s \in Sources, Queue_Event_Job(t, s) PROVE Tables'
  BY <1>15 DEF Queue_Event_Job
<1>16. CASE Abort_Request_Fails(t)
  BY <1>16 DEF Abort_Request_Fails
<1> HIDE DEF Tables
<1>17. QED
  BY <1>1, <1>2, <1>3, <1>4, <1>5, <1>6, <1>7, <1>8, <1>9, <1>10, <1>11, <1>12, <1>13, <1>14, <1>15, <1>16
  DEF Task_Inside, Task_Enter, Schedule_Task

(* A call that the program makes into the ORB preserves the tables.        *)
LEMMA TablesCall ==
  ASSUME Typed, Tables, NEW t \in Threads, Call_Inside(t) \/ Call_Enter(t) \/ Source_Calls(t)
  PROVE  Tables'
<1> USE ThreadsAssumption
    DEF Typed, TypeOK, OpAgrees, Tables, SlotsDistinct, SlotNamesPoller, BlockedAgrees,
        WaitersAgree, Polls, Goto, aemVars, taskVars, waitVars
<1>1. CASE Disable_Polling(t)
  <2> DEFINE J == op[t].slot
  <2>1. /\ pc[t] = "disable" /\ J \in Slots
        /\ UNCHANGED <<state, selector, aemMonitor, aemTI, op>>
    BY <1>1 DEF Disable_Polling
  <2>2. CASE aemTI[J] # None
    <3>1. Goto(t, "disabling") /\ pollWait' = [pollWait EXCEPT ![J] = @ \cup {t}]
      BY <1>1, <2>2 DEF Disable_Polling
    <3>2. SlotsDistinct' /\ SlotNamesPoller' /\ BlockedAgrees'
      BY <2>1, <3>1
    <3>3. WaitersAgree'
      BY <2>1, <2>2, <3>1
    <3>4. QED BY <3>2, <3>3
  <2>3. CASE aemTI[J] = None
    <3>1. Goto(t, "disabled") /\ UNCHANGED pollWait
      BY <1>1, <2>3 DEF Disable_Polling
    <3>2. QED BY <2>1, <2>3, <3>1
  <2>4. QED BY <2>2, <2>3
<1>2. CASE Register_Unknown(t)
  BY <1>2 DEF Register_Unknown
<1>3. CASE Register_Source(t)
  BY <1>3 DEF Register_Source
<1>4. CASE Register_Failure(t)
  BY <1>4 DEF Register_Failure
<1>5. CASE Create_Monitor(t)
  <2>1. pc[t] = "create" /\ UNCHANGED <<state, selector, aemTI, pollWait>>
    BY <1>5 DEF Create_Monitor
  <2>2. CASE UNCHANGED <<aemMonitor, op, pc>>
    BY <2>1, <2>2
  <2>3. CASE Monitor_Count < Maximum_Number_Of_Monitors
    <3> DEFINE N == Monitor_Count + 1
    <3>1. N \in Slots /\ aemMonitor[N] = None
      BY <2>3 DEF Monitor_Count, Slots, Maximum_Number_Of_Monitors
    <3>2. aemTI[N] = None
      BY <3>1, JobsAssumption
    <3>3. PICK m \in Monitors : /\ \A J \in Slots : aemMonitor[J] # m
                                /\ aemMonitor' = [aemMonitor EXCEPT ![N] = m]
      BY <1>5, <2>3 DEF Create_Monitor
    <3>4. Goto(t, "added") /\ op' = [op EXCEPT ![t].slot = N]
      BY <1>5, <2>3 DEF Create_Monitor
    <3>5. \A u \in Threads : u # t => op'[u] = op[u]
      BY <3>4
    <3> HIDE DEF N
    <3>6. SlotsDistinct'
      BY <3>1, <3>3
    <3>7. SlotNamesPoller' /\ BlockedAgrees'
      BY <2>1, <3>1, <3>2, <3>3, <3>4
    <3>8. WaitersAgree'
      <4>1. /\ \A u \in Threads : u # t => pc'[u] = pc[u] /\ op'[u] = op[u]
            /\ pc'[t] = "added"
        BY <3>4, <3>5
      <4>2. \A J \in Slots : \A u \in pollWait[J] : u \in Threads /\ u # t
        BY <2>1
      <4>3. \A J \in Slots : \A u \in pollWait'[J] : pc'[u] = "disabling" /\ op'[u].slot = J
        BY <2>1, <4>1, <4>2
      <4>4. \A u \in Threads :
              /\ pc'[u] = "disabling" => u \in pollWait'[op'[u].slot] \/ aemTI'[op'[u].slot] = None
              /\ pc'[u] = "disabled" => aemTI'[op'[u].slot] = None
        BY <2>1, <4>1
      <4>5. QED BY <2>1, <4>3, <4>4
    <3>9. QED BY <3>6, <3>7, <3>8
  <2>4. QED BY <1>5, <2>2, <2>3 DEF Create_Monitor
<1>6. CASE Create_Failure(t)
  BY <1>6 DEF Create_Failure
<1>7. CASE Event_Sources_Added(t)
  BY <1>7 DEF Event_Sources_Added
<1>8. CASE Unregister_Source(t)
  BY <1>8 DEF Unregister_Source
<1>9. CASE Source_Done(t)
  <2>1. op[t].ret \in {"out", "running"}
    BY DEF Operation
  <2>2. QED BY <1>9, <2>1 DEF Source_Done
<1>10. CASE Delete_Source(t)
  BY <1>10 DEF Delete_Source
<1>11. CASE Disable_Return(t)
  BY <1>11 DEF Disable_Return
<1>12. ASSUME NEW s \in Sources, Insert_Source(t, s) PROVE Tables'
  BY <1>12 DEF Insert_Source, Can_Call
<1>13. ASSUME NEW s \in Sources, Finalize_Endpoint(t, s) PROVE Tables'
  BY <1>13 DEF Finalize_Endpoint, Can_Call
<1>14. CASE Delete_Unmonitored(t)
  BY <1>14 DEF Delete_Unmonitored
<1> HIDE DEF Tables
<1>15. QED
  BY <1>1, <1>2, <1>3, <1>4, <1>5, <1>6, <1>7, <1>8, <1>9, <1>10, <1>11, <1>12, <1>13, <1>14
  DEF Call_Inside, Call_Enter, Source_Calls

(* A step of a job, of Check_Sources, of a client or of a thread that      *)
(* shuts the ORB down preserves the tables.                                *)
LEMMA TablesOther ==
  ASSUME Typed, Tables,
         \/ \E t \in Tasks : \/ Job_Calls(t) \/ Request_Result_Ready(t)
                             \/ Check_Sources(t) \/ Check_Sources_Aborted(t)
         \/ \E t \in Transient : Invoke(t) \/ Abort_Run(t)
         \/ \E a \in Closers : (\E w \in BOOLEAN : Shutdown(a, w)) \/ Completion_Return(a)
  PROVE  Tables'
<1> USE ThreadsAssumption
    DEF Typed, TypeOK, OpAgrees, Tables, SlotsDistinct, SlotNamesPoller, BlockedAgrees,
        WaitersAgree, Polls, Goto, Tasks, Threads, aemVars, taskVars, waitVars
<1>1. ASSUME NEW t \in Tasks, NEW u \in Upcalls, Queue_Request_Job(t, u) PROVE Tables'
  BY <1>1 DEF Queue_Request_Job
<1>2. ASSUME NEW t \in Tasks, NEW r \in Transient, Executed_Request(t, r) PROVE Tables'
  <2>1. pc[t] = "running" /\ UNCHANGED <<state, selector, aemMonitor, aemTI, pollWait>>
    BY <1>2 DEF Executed_Request
  <2>2. CASE UNCHANGED <<pc, op>>
    BY <2>1, <2>2
  <2>3. CASE Goto(t, "notifying") /\ \A u \in Threads : u # t => op'[u] = op[u]
    BY <2>1, <2>3
  <2>4. QED BY <1>2, <2>2, <2>3 DEF Executed_Request
<1>3. ASSUME NEW t \in Tasks, Disconnect(t) PROVE Tables'
  BY <1>3 DEF Disconnect
<1>4. ASSUME NEW t \in Tasks, Request_Result_Ready(t) PROVE Tables'
  BY <1>4 DEF Request_Result_Ready
<1>5. ASSUME NEW t \in Tasks, Check_Sources(t) PROVE Tables'
  BY <1>5 DEF Check_Sources
<1>6. ASSUME NEW t \in Tasks, Check_Sources_Aborted(t) PROVE Tables'
  BY <1>6 DEF Check_Sources_Aborted
<1>7. ASSUME NEW t \in Transient, Invoke(t) PROVE Tables'
  BY <1>7 DEF Invoke
<1>8. ASSUME NEW t \in Transient, Abort_Run(t) PROVE Tables'
  BY <1>8 DEF Abort_Run
<1>9. ASSUME NEW a \in Closers, NEW w \in BOOLEAN, Shutdown(a, w) PROVE Tables'
  <2>1. a \notin Tasks /\ pc[a] = "out"
        /\ UNCHANGED <<state, selector, aemMonitor, aemTI, pollWait, op>>
    BY <1>9 DEF Shutdown
  <2>2. CASE UNCHANGED pc
    BY <2>1, <2>2
  <2>3. CASE Goto(a, "completing")
    BY <2>1, <2>3
  <2>4. QED BY <1>9, <2>2, <2>3 DEF Shutdown
<1>10. ASSUME NEW a \in Closers, Completion_Return(a) PROVE Tables'
  <2>1. a \notin Tasks /\ pc[a] = "completing"
        /\ UNCHANGED <<state, selector, aemMonitor, aemTI, pollWait, op>>
    BY <1>10 DEF Completion_Return
  <2>2. CASE UNCHANGED pc
    BY <2>1, <2>2
  <2>3. CASE Goto(a, "out")
    BY <2>1, <2>3
  <2>4. QED BY <1>10, <2>2, <2>3 DEF Completion_Return
<1> HIDE DEF Tables, Tasks
<1>11. QED
  BY <1>1, <1>2, <1>3, <1>4, <1>5, <1>6, <1>7, <1>8, <1>9, <1>10 DEF Job_Calls

(* Every step preserves Polling.                                           *)
LEMMA PollingStep ==
  ASSUME Typed, Sleepers, Polling, [Next]_vars
  PROVE  Polling'
<1>1. CounterExact'
  BY CounterStep DEF Polling
<1>2. Tables /\ WaitsCounted
  BY CounterPositive DEF Polling
<1>3. CASE Next
  <2>1. Tables'
    BY <1>2, <1>3, TablesTask, TablesCall, TablesOther DEF Next
  <2>2. QED BY <1>1, <2>1 DEF Polling
<1>4. CASE UNCHANGED vars
  <2>1. Tables'
    BY <1>2, <1>4
    DEF Tables, SlotsDistinct, SlotNamesPoller, BlockedAgrees, WaitersAgree, Polls, vars,
        taskVars, aemVars, waitVars
  <2>2. QED BY <1>1, <2>1 DEF Polling
<1>5. QED BY <1>3, <1>4

----------------------------------------------------------------------------
(* Source lists                                                            *)

(* What SourceListStable says of one step.                                 *)
ListStable ==
  \A t \in Tasks :
    pc[t] = "blocked" /\ sources'[selector[t]] # sources[selector[t]] => pc'[t] = "polled"

(* The slots and the waits keep everybody else off the list of a monitor   *)
(* that is being polled.                                                   *)
LEMMA ListStableStep ==
  ASSUME Typed, Tables, [Next]_vars
  PROVE  ListStable
<1> SUFFICES ASSUME NEW t \in Tasks, pc[t] = "blocked",
                    sources'[selector[t]] # sources[selector[t]]
             PROVE  pc'[t] = "polled"
  BY DEF ListStable
<1> DEFINE m == selector[t]
<1>1. Polls(t) /\ m \in Monitors
  BY DEF Tables, BlockedAgrees, Polls
<1>2. PICK J \in Slots : /\ aemTI[J] = t
                         /\ Index(m) = {J}
                         /\ \A K \in Slots : K # J => aemTI[K] # t
  BY <1>1, OneSlot
<1>3. aemTI[J] # None
  BY <1>2, ThreadsAssumption DEF Threads
<1>4. aemMonitor[J] = m /\ \A K \in Slots : aemMonitor[K] = m => K = J
  BY <1>2 DEF Index
<1>5. ASSUME NEW u \in Tasks, Check_Sources(u) PROVE pc'[t] = "polled"
  <2>1. pc[u] = "blocked" /\ Goto(u, "polled")
        /\ \E ready : sources' = [sources EXCEPT ![selector[u]] = @ \ ready]
    BY <1>5 DEF Check_Sources
  <2>2. CASE selector[u] # m
    BY <2>1, <2>2
  <2>3. CASE selector[u] = m
    <3>1. Polls(u)
      BY <2>1 DEF Tables, BlockedAgrees, Polls
    <3>2. PICK K \in Slots : aemTI[K] = u /\ Index(m) = {K}
      BY <2>3, <3>1, OneSlot
    <3>3. u = t
      BY <1>2, <3>2
    <3>4. QED BY <2>1, <3>3 DEF Goto, Typed, TypeOK, Threads
  <2>4. QED BY <2>2, <2>3
<1>6. ASSUME NEW u \in Threads, pc[u] = "disabled",
             NEW S, sources' = [sources EXCEPT ![aemMonitor[op[u].slot]] = S]
      PROVE  FALSE
  <2>1. op[u].slot \in Slots /\ aemTI[op[u].slot] = None
    BY <1>6 DEF Typed, OpAgrees, Tables, WaitersAgree
  <2>2. aemMonitor[op[u].slot] # m
    BY <1>3, <1>4, <2>1
  <2>3. QED BY <1>6, <2>2
<1>7. ASSUME NEW u \in Threads, Register_Source(u) PROVE FALSE
  BY <1>6, <1>7 DEF Register_Source
<1>8. ASSUME NEW u \in Threads, Unregister_Source(u) PROVE FALSE
  BY <1>6, <1>8 DEF Unregister_Source
<1>9. ASSUME NEW u \in Threads, Create_Monitor(u) PROVE FALSE
  <2>1. PICK n \in Monitors : /\ \A K \in Slots : aemMonitor[K] # n
                              /\ sources' = [sources EXCEPT ![n] = {op[u].arg}]
    BY <1>9 DEF Create_Monitor
  <2>2. n # m
    BY <1>4, <2>1
  <2>3. QED BY <2>1, <2>2
<1>10. sources' # sources
  OBVIOUS
<1>11. CASE \E u \in Tasks : Task_Inside(u) \/ Task_Enter(u)
  BY <1>10, <1>11
  DEF Task_Inside, Task_Enter, Schedule_Task, Schedule_Terminated, Schedule_Exit, Schedule_Job,
      Schedule_Poll, Schedule_Idle, Unregister_Task, Idle_Terminate, Idle_Wait,
      Queue_Event_Job, End_Of_Check_Sources, Run, Idle_Return, Reenter, Terminate_Task,
      Abort_Request_Fails, Job_Completed
<1>12. CASE \E u \in Threads : Call_Inside(u) \/ Call_Enter(u) \/ Source_Calls(u)
  BY <1>7, <1>8, <1>9, <1>10, <1>12
  DEF Call_Inside, Call_Enter, Source_Calls, Disable_Polling, Register_Unknown,
      Register_Failure, Create_Failure, Event_Sources_Added, Source_Done, Delete_Source,
      Delete_Unmonitored, Disable_Return, Insert_Source, Finalize_Endpoint
<1>13. CASE \E u \in Tasks : Job_Calls(u) \/ Request_Result_Ready(u) \/ Check_Sources_Aborted(u)
  BY <1>10, <1>13
  DEF Job_Calls, Queue_Request_Job, Executed_Request, Disconnect, Request_Result_Ready,
      Check_Sources_Aborted
<1>14. CASE \/ \E u \in Transient : Invoke(u) \/ Abort_Run(u)
            \/ \E a \in Closers : (\E w \in BOOLEAN : Shutdown(a, w)) \/ Completion_Return(a)
            \/ UNCHANGED vars
  BY <1>10, <1>14 DEF Invoke, Abort_Run, Shutdown, Completion_Return, vars
<1>15. QED BY <1>5, <1>11, <1>12, <1>13, <1>14 DEF Next

(* The inductive invariants hold in every state.                           *)
LEMMA PollingAlways == Spec => [](Typed /\ Polling)
<1>1. Spec => []Typed
  BY TypedInit, TypedStep, PTL DEF Spec
<1>2. Spec => []Sleepers
  <2>1. Typed => TypeOK
    BY DEF Typed
  <2>2. QED BY <1>1, <2>1, SleepersInit, SleepersStep, PTL DEF Spec
<1>3. Typed /\ Sleepers /\ Polling /\ [Next]_vars => Polling'
  BY PollingStep
<1>4. QED BY <1>1, <1>2, <1>3, PollingInit, PTL DEF Spec

(* The polling protocol, for any number of threads: the TI of a slot is    *)
(* the task that polls its monitor, and a task that polls is the TI of a   *)
(* slot.                                                                   *)
THEOREM PollingCorrect == Spec => []SlotNamesPoller
<1>1. Polling => SlotNamesPoller
  BY DEF Polling, Tables
<1>2. QED BY <1>1, PollingAlways, PTL

(* For any number of threads, a thread waits in Disable_Polling only for a *)
(* task that is polling, and Polling_Abort_Counter is the number of        *)
(* threads that have not returned from that wait.                          *)
THEOREM WaitsCorrect == Spec => []WaitsForPoller
<1>1. Polling => WaitsForPoller
  BY DEF Polling, Tables, WaitersAgree, CounterExact, Disabling, WaitsForPoller
<1>2. QED BY <1>1, PollingAlways, PTL

(* Disable_Polling protects the source lists: no step changes the list of  *)
(* a monitor under a task that is in Check_Sources, except that task's own *)
(* return, although the lock is not held while polling.                    *)
THEOREM SourceListCorrect == Spec => SourceListStable
<1>1. Typed /\ Polling /\ [Next]_vars => [ListStable]_vars
  BY ListStableStep DEF Polling
<1>2. Spec => [][ListStable]_vars
  BY <1>1, PollingAlways, PTL DEF Spec
<1>3. QED BY <1>2 DEF SourceListStable, ListStable
=============================================================================
