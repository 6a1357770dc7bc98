-------------------------- MODULE OrbWorkersProofs --------------------------
(***************************************************************************)
(* Theorems about OrbWorkers, for every set of threads, sources and        *)
(* monitors and every configuration of the thread pool.                    *)
(***************************************************************************)
EXTENDS OrbWorkers, TLAPS

(* What a thread is executing agrees with where it is: a source operation  *)
(* that has reached the controller works on a slot of AEM_Infos.           *)
OpAgrees ==
  \A t \in Threads :
    /\ pc[t] \in {"disable", "disabling", "disabled", "added", "enabling"} =>
         op[t].kind \in {"insert", "delete"} /\ op[t].slot \in Slots
    /\ pc[t] = "create" => op[t].kind = "insert"
    /\ pc[t] = "deleting" => op[t].kind = "delete"
    /\ op[t].kind \in {"insert", "delete"} => op[t].arg \in Sources

(* A task in Check_Sources polls a monitor.                                *)
PollsMonitor == \A t \in Tasks : pc[t] = "blocked" => selector[t] \in Monitors

(* The inductive invariant behind TypeOK.                                  *)
Typed == TypeOK /\ OpAgrees /\ PollsMonitor

(* The locations of a thread that is inside the ORB critical section.      *)
Critical ==
  {"schedule", "goidle", "leaving", "queueing", "notifying", "create", "disable", "disabled",
   "added", "enabling"}

(* A thread inside the critical section holds the lock.                    *)
CriticalHoldsLock == \A t \in Threads : pc[t] \in Critical => lock = t

(* A task about to sleep is on the list, and only a task in Idle sleeps.   *)
IdleAgrees ==
  /\ \A t \in Tasks : pc[t] = "goidle" => t \in onList
  /\ \A t \in idleWait : pc[t] = "idle"

(* The inductive invariant behind SleepersOnList.                          *)
Sleepers == CriticalHoldsLock /\ IdleAgrees /\ SleepersOnList

----------------------------------------------------------------------------
(* The operators that awake a task or abort a selector                     *)

(* Some tasks are awakened: they leave the list and the wait together.     *)
Awakes == \E S \in SUBSET Tasks : onList' = onList \ S /\ idleWait' = idleWait \ S

(* The outcome of an attempt to get a task to schedule itself.             *)
Allocates ==
  /\ Awakes
  /\ abortSignal' \in [Monitors -> 0 .. AbortCap]
  /\ error' \in {"none", "Program_Error", "Constraint_Error", "GIOP_Error"}

(* Abort_Check_Sources keeps the number of pending aborts within bounds.   *)
LEMMA AbortTyped ==
  ASSUME NEW M, abortSignal \in [Monitors -> 0 .. AbortCap]
  PROVE  Abort_Check_Sources(abortSignal, M) \in [Monitors -> 0 .. AbortCap]
BY AbortCapAssumption DEF Abort_Check_Sources

(* Doing nothing is an outcome of Try_Allocate_One_Task.                   *)
LEMMA NothingAllocates ==
  ASSUME TypeOK, UNCHANGED <<idleVars, abortSignal, error>>
  PROVE  Allocates
<1>1. onList' = onList \ {} /\ idleWait' = idleWait \ {}
  BY DEF idleVars
<1>2. QED BY <1>1 DEF Allocates, Awakes, TypeOK, idleVars

(* Reschedule_Task awakes at most the task it is given.                    *)
LEMMA RescheduleAllocates ==
  ASSUME TypeOK, NEW t \in Tasks, Reschedule_Task(t)
  PROVE  Allocates
<1>1. CASE UNCHANGED <<idleVars, abortSignal, error>>
  BY <1>1, NothingAllocates
<1>2. CASE /\ abortSignal' = Abort_Check_Sources(abortSignal, {selector[t]})
           /\ UNCHANGED <<idleVars, error>>
  <2>1. abortSignal' \in [Monitors -> 0 .. AbortCap]
    BY <1>2, AbortTyped DEF TypeOK
  <2>2. onList' = onList \ {} /\ idleWait' = idleWait \ {}
    BY <1>2 DEF idleVars
  <2>3. QED BY <1>2, <2>1, <2>2 DEF Allocates, Awakes, TypeOK
<1>3. CASE Awake_Idle_Task(t) /\ UNCHANGED <<abortSignal, error>>
  <2>1. onList' = onList \ {t} /\ idleWait' = idleWait \ {t} /\ {t} \in SUBSET Tasks
    BY <1>3 DEF Awake_Idle_Task
  <2>2. QED BY <1>3, <2>1 DEF Allocates, Awakes, TypeOK
<1>4. CASE error' = "Program_Error" /\ UNCHANGED <<idleVars, abortSignal>>
  <2>1. onList' = onList \ {} /\ idleWait' = idleWait \ {}
    BY <1>4 DEF idleVars
  <2>2. QED BY <1>4, <2>1 DEF Allocates, Awakes, TypeOK
<1>5. QED BY <1>1, <1>2, <1>3, <1>4 DEF Reschedule_Task

(* Try_Allocate_One_Task awakes one task, aborts one selector or does      *)
(* neither.                                                                *)
LEMMA TryAllocates ==
  ASSUME TypeOK, NEW c, NEW a, Try_Allocate_One_Task(c, a)
  PROVE  Allocates
<1> DEFINE kind == IF a THEN "Any" ELSE "Permanent"
<1>1. CASE UNCHANGED <<idleVars, abortSignal, error>>
  BY <1>1, NothingAllocates
<1>2. CASE (\E t \in Awakable(a) : Awake_Idle_Task(t)) /\ UNCHANGED <<abortSignal, error>>
  <2>1. PICK t \in Awakable(a) : Awake_Idle_Task(t)
    BY <1>2
  <2>2. onList' = onList \ {t} /\ idleWait' = idleWait \ {t} /\ {t} \in SUBSET Tasks
    BY <2>1 DEF Awake_Idle_Task, Awakable, Tasks
  <2>3. QED BY <1>2, <2>2 DEF Allocates, Awakes, TypeOK
<1>3. CASE \E J \in Polled_By(kind) : Reschedule_Task(aemTI[J])
  <2>1. PICK J \in Polled_By(kind) : Reschedule_Task(aemTI[J])
    BY <1>3
  <2>2. aemTI[J] \in Tasks
    BY DEF Polled_By, TypeOK
  <2>3. QED BY <2>1, <2>2, RescheduleAllocates
<1>4. QED BY <1>1, <1>2, <1>3 DEF Try_Allocate_One_Task

(* So does Enable_Polling.                                                 *)
LEMMA EnableAllocates ==
  ASSUME TypeOK, NEW J, Enable_Polling(J)
  PROVE  Allocates
BY TryAllocates, NothingAllocates DEF Enable_Polling

(* So does the Task_Unregistered event.                                    *)
LEMMA UnregisteredAllocates ==
  ASSUME TypeOK, NEW c, Task_Unregistered(c)
  PROVE  Allocates
BY TryAllocates, NothingAllocates DEF Task_Unregistered, idleVars

----------------------------------------------------------------------------
(* Types                                                                   *)

(* Adding to cells of the task summary leaves a table of integers.         *)
LEMMA AdjustTyped ==
  ASSUME NEW c \in Task_Summary, NEW k, NEW S, NEW d \in Int
  PROVE  Adjust(c, k, S, d) \in Task_Summary
BY DEF Adjust, Task_Summary

(* Set_State gives the task a state and keeps the summary a summary.       *)
LEMMA SetStateTyped ==
  ASSUME TypeOK, NEW t \in Tasks, NEW new \in Task_State, Set_State(t, new)
  PROVE  state' \in [Tasks -> Task_State \cup {"none"}] /\ summary' \in Task_Summary
<1>1. summary' \in Task_Summary
  BY AdjustTyped DEF Set_State, Task_State_Change, TypeOK
<1>2. QED BY <1>1 DEF Set_State, TypeOK

(* Removing a job leaves a queue of jobs.                                  *)
LEMMA WithoutTyped ==
  ASSUME NEW q \in Seq(Jobs), NEW i \in 1 .. Len(q)
  PROVE  Without(q, i) \in Seq(Jobs)
<1>1. SubSeq(q, 1, i - 1) \in Seq(Jobs) /\ SubSeq(q, i + 1, Len(q)) \in Seq(Jobs)
  OBVIOUS
<1>2. QED BY <1>1 DEF Without

(* Queue_Job leaves a queue of jobs.                                       *)
LEMMA AppendTyped ==
  ASSUME NEW q \in Seq(Jobs), NEW j \in Jobs
  PROVE  Append(q, j) \in Seq(Jobs)
OBVIOUS

(* Get_Monitors returns at most Maximum_Number_Of_Monitors monitors.       *)
LEMMA MonitorCountTyped == Monitor_Count \in 0 .. Maximum_Number_Of_Monitors
BY DEF Monitor_Count, Maximum_Number_Of_Monitors

(* t's operation goes on with slot J.                                      *)
SetSlot(t, J) == op' = [op EXCEPT ![t].slot = J]

(* The slot of an operation is assigned, the rest of it kept.              *)
LEMMA SlotAssigned ==
  ASSUME op \in [Threads -> Operation], NEW t \in Threads,
         NEW J \in 0 .. Maximum_Number_Of_Monitors + 1, SetSlot(t, J)
  PROVE  /\ op' \in [Threads -> Operation]
         /\ op'[t].slot = J /\ op'[t].kind = op[t].kind /\ op'[t].arg = op[t].arg
         /\ \A u \in Threads : u # t => op'[u] = op[u]
<1> DEFINE r == [op[t] EXCEPT !.slot = J]
<1>1. /\ r \in Operation
      /\ r.slot = J /\ r.kind = op[t].kind /\ r.arg = op[t].arg
  BY DEF Operation
<1>2. op' = [op EXCEPT ![t] = r]
  BY DEF SetSlot
<1> HIDE DEF r
<1>3. QED BY <1>1, <1>2

(* The operation of a thread that notifies a requesting task.              *)
LEMMA NotifyTyped ==
  ASSUME NEW r \in Transient
  PROVE  [kind |-> "notify", arg |-> r, slot |-> 0, last |-> 0, ret |-> "running"] \in Operation
BY DEF Operation, Maximum_Number_Of_Monitors

(* The initial state satisfies Typed.                                      *)
LEMMA TypedInit == Init => Typed
<1> SUFFICES ASSUME Init PROVE Typed
  OBVIOUS
<1> USE DEF Init
<1>1. NoOp \in Operation
  BY DEF NoOp, Operation, Maximum_Number_Of_Monitors
<1>2. summary \in Task_Summary
  BY DEF Empty_Summary, Task_Summary
<1>3. TypeOK
  <2>1. pc \in [Threads -> Locations]
    BY DEF Locations
  <2>2. abortSignal \in [Monitors -> 0 .. AbortCap]
    BY AbortCapAssumption
  <2>3. lastAEM \in Slots
    BY DEF Slots, Maximum_Number_Of_Monitors
  <2>4. queue \in Seq(Jobs)
    OBVIOUS
  <2>5. op \in [Threads -> Operation]
    BY <1>1
  <2>6. pollWait \in [Slots -> SUBSET Threads] /\ events \in [Tasks -> SUBSET Sources]
        /\ sources \in [Monitors -> SUBSET Sources]
    OBVIOUS
  <2>7. /\ pollingScheduled \in [Slots -> BOOLEAN]
        /\ completed \in [Transient -> BOOLEAN]
        /\ requesting \in [Transient -> BOOLEAN]
        /\ shutdown \in BOOLEAN
    OBVIOUS
  <2>8. /\ state \in [Tasks -> Task_State \cup {"none"}]
        /\ job \in [Tasks -> Jobs \cup {None}]
        /\ selector \in [Tasks -> Monitors \cup {None}]
        /\ aemMonitor \in [Slots -> Monitors \cup {None}]
        /\ aemTI \in [Slots -> Tasks \cup {None}]
        /\ abortCounter \in [Slots -> Int]
    OBVIOUS
  <2>9. /\ conn \in [Transient -> Sources \cup {None}]
        /\ held \in [Tasks -> Sources \cup {None}]
        /\ carried \in [Upcalls -> Sources \cup {None}]
        /\ sourceMonitor \in [Sources -> Monitors \cup {None}]
    OBVIOUS
  <2>10. QED BY <1>2, <2>1, <2>2, <2>3, <2>4, <2>5, <2>6, <2>7, <2>8, <2>9 DEF TypeOK
<1>4. OpAgrees /\ PollsMonitor
  BY ThreadsAssumption DEF OpAgrees, PollsMonitor, NoOp, Tasks, Threads
<1>5. QED BY <1>3, <1>4 DEF Typed

(* A step of a task preserves Typed.                                       *)
LEMMA TypedTask ==
  ASSUME Typed, NEW t \in Tasks, Task_Inside(t) \/ Task_Enter(t)
  PROVE  Typed'
<1> USE ThreadsAssumption
    DEF Typed, TypeOK, OpAgrees, PollsMonitor, Threads, Goto, Enter, Inside, Leave, Locked,
        taskVars, waitVars, aemVars, clientVars, sourceVars, Locations
<1>1. CASE Schedule_Terminated(t)
  BY <1>1 DEF Schedule_Terminated
<1>2. CASE Schedule_Exit(t)
  <2>1. state' \in [Tasks -> Task_State \cup {"none"}] /\ summary' \in Task_Summary
    BY <1>2, SetStateTyped DEF Schedule_Exit, Task_State
  <2>2. QED BY <1>2, <2>1 DEF Schedule_Exit, Scheduling
<1>3. CASE Schedule_Job(t)
  <2>1. state' \in [Tasks -> Task_State \cup {"none"}] /\ summary' \in Task_Summary
    BY <1>3, SetStateTyped DEF Schedule_Job, Task_State
  <2>2. PICK i \in 1 .. Len(queue) :
               /\ queue' = Without(queue, i)
               /\ job' = [job EXCEPT ![t] = queue[i]]
               /\ Take_Source(t, queue[i])
    BY <1>3 DEF Schedule_Job
  <2>3. queue[i] \in Jobs /\ queue' \in Seq(Jobs)
    BY <2>2, WithoutTyped
  <2>4. /\ job' \in [Tasks -> Jobs \cup {None}]
        /\ held' \in [Tasks -> Sources \cup {None}]
        /\ carried' \in [Upcalls -> Sources \cup {None}]
    BY <2>2, <2>3 DEF Take_Source, Jobs
  <2>5. QED BY <1>3, <2>1, <2>3, <2>4 DEF Schedule_Job, Scheduling
<1>4. CASE Schedule_Poll(t)
  <2>1. state' \in [Tasks -> Task_State \cup {"none"}] /\ summary' \in Task_Summary
    BY <1>4, SetStateTyped DEF Schedule_Poll, Task_State
  <2>2. PICK J \in Slots :
               /\ Need_Polling_Task(J)
               /\ lastAEM' = J
               /\ pollingScheduled' = [pollingScheduled EXCEPT ![J] = FALSE]
               /\ aemTI' = [aemTI EXCEPT ![J] = t]
               /\ selector' = [selector EXCEPT ![t] = aemMonitor[J]]
    BY <1>4 DEF Schedule_Poll
  <2>3. aemMonitor[J] \in Monitors
    BY <2>2 DEF Need_Polling_Task, Needs_Polling
  <2>4. /\ lastAEM' \in Slots
        /\ pollingScheduled' \in [Slots -> BOOLEAN]
        /\ aemTI' \in [Slots -> Tasks \cup {None}]
        /\ selector' \in [Tasks -> Monitors \cup {None}]
        /\ PollsMonitor'
    BY <1>4, <2>2, <2>3 DEF Schedule_Poll
  <2>5. QED BY <1>4, <2>1, <2>4 DEF Schedule_Poll
<1>5. CASE Schedule_Idle(t)
  <2>1. state' \in [Tasks -> Task_State \cup {"none"}] /\ summary' \in Task_Summary
    BY <1>5, SetStateTyped DEF Schedule_Idle, Task_State
  <2>2. QED BY <1>5, <2>1 DEF Schedule_Idle, Scheduling
<1>6. CASE Unregister_Task(t)
  <2>1. Allocates
    BY <1>6, UnregisteredAllocates DEF Unregister_Task
  <2>2. summary' \in Task_Summary
    BY <1>6, AdjustTyped DEF Unregister_Task, Task_Removed
  <2>3. lastAEM' \in Slots /\ downWait' \subseteq App
    BY <1>6 DEF Unregister_Task, Task_Unregistered, Note_Task_Unregistered
  <2>4. QED BY <1>6, <2>1, <2>2, <2>3 DEF Unregister_Task, Allocates, Awakes
<1>7. CASE Idle_Terminate(t)
  <2>1. state' \in [Tasks -> Task_State \cup {"none"}] /\ summary' \in Task_Summary
    BY <1>7, SetStateTyped DEF Idle_Terminate, Task_State
  <2>2. QED BY <1>7, <2>1 DEF Idle_Terminate
<1>8. CASE Idle_Wait(t)
  BY <1>8 DEF Idle_Wait
<1>9. ASSUME NEW s \in Sources, Queue_Event_Job(t, s) PROVE Typed'
  <2>1. Allocates
    BY <1>9, TryAllocates, NothingAllocates DEF Queue_Event_Job
  <2>2. queue' \in Seq(Jobs)
    <3>1. queue \in Seq(Jobs) /\ s \in Jobs
      BY DEF Jobs
    <3>2. Append(queue, s) \in Seq(Jobs)
      BY <3>1, AppendTyped
    <3>3. CASE Queue_Job(s)
      BY <3>2, <3>3 DEF Queue_Job
    <3>4. CASE UNCHANGED queue
      BY <3>1, <3>4
    <3>5. QED BY <1>9, <3>3, <3>4 DEF Queue_Event_Job
  <2>3. QED BY <1>9, <2>1, <2>2 DEF Queue_Event_Job, Allocates, Awakes
<1>10. CASE End_Of_Check_Sources(t)
  BY <1>10 DEF End_Of_Check_Sources, Index, Polling_Ended
<1>11. CASE Run(t)
  <2>1. summary' \in Task_Summary
    BY <1>11, AdjustTyped DEF Run, Register_Task, Task_Created
  <2>2. QED BY <1>11, <2>1 DEF Run, Register_Task, Task_State
<1>12. CASE Idle_Return(t)
  BY <1>12 DEF Idle_Return
<1>13. CASE Reenter(t)
  BY <1>13 DEF Reenter
<1>14. CASE Terminate_Task(t)
  <2>1. state' \in [Tasks -> Task_State \cup {"none"}] /\ summary' \in Task_Summary
    BY <1>14, SetStateTyped DEF Terminate_Task, Task_State
  <2>2. aemTI' \in [Slots -> Tasks \cup {None}] /\ pollWait' \in [Slots -> SUBSET Threads]
    <3>1. CASE UNCHANGED <<aemTI, pollWait>>
      BY <3>1
    <3>2. CASE \E J \in Index(selector[t]) : Polling_Ended(J)
      BY <3>2 DEF Index, Polling_Ended
    <3>3. QED BY <1>14, <3>1, <3>2 DEF Terminate_Task, Leave_State
  <2>3. onList' \subseteq Tasks
    BY <1>14 DEF Terminate_Task, Leave_State
  <2>4. QED BY <1>14, <2>1, <2>2, <2>3 DEF Terminate_Task
<1>15. CASE Job_Completed(t)
  BY <1>15 DEF Job_Completed
<1>16. CASE Abort_Request_Fails(t)
  BY <1>16 DEF Abort_Request_Fails
<1>17. QED
  BY <1>1, <1>2, <1>3, <1>4, <1>5, <1>6, <1>7, <1>8, <1>9, <1>10, <1>11, <1>12, <1>13,
     <1>14, <1>15, <1>16
  DEF Task_Inside, Task_Enter, Schedule_Task

(* A call that the program makes into the ORB preserves Typed.             *)
LEMMA TypedCall ==
  ASSUME Typed, NEW t \in Threads, Call_Inside(t) \/ Call_Enter(t) \/ Source_Calls(t)
  PROVE  Typed'
<1> USE ThreadsAssumption
    DEF Typed, TypeOK, OpAgrees, PollsMonitor, Goto, Enter, Inside, Leave, taskVars, waitVars,
        aemVars, clientVars, sourceVars, idleVars, Locations
<1>1. CASE Disable_Polling(t)
  <2>1. /\ abortSignal' \in [Monitors -> 0 .. AbortCap]
        /\ abortCounter' \in [Slots -> Int]
        /\ pollWait' \in [Slots -> SUBSET Threads]
    <3>1. CASE UNCHANGED <<abortSignal, abortCounter, pollWait>>
      BY <3>1
    <3>2. CASE aemTI[op[t].slot] # None
      <4>1. op[t].slot \in Slots
        BY <1>1 DEF Disable_Polling
      <4>2. /\ abortSignal' = Abort_Check_Sources(abortSignal, {selector[aemTI[op[t].slot]]})
            /\ abortCounter' = [abortCounter EXCEPT ![op[t].slot] = @ + 1]
            /\ pollWait' = [pollWait EXCEPT ![op[t].slot] = @ \cup {t}]
        BY <1>1, <3>2 DEF Disable_Polling
      <4>3. abortSignal' \in [Monitors -> 0 .. AbortCap]
        BY <4>2, AbortTyped
      <4>4. abortCounter' \in [Slots -> Int]
        BY <4>1, <4>2
      <4>5. pollWait' \in [Slots -> SUBSET Threads]
        BY <4>1, <4>2
      <4>6. QED BY <4>3, <4>4, <4>5
    <3>3. QED BY <1>1, <3>1, <3>2 DEF Disable_Polling
  <2>2. CASE Leave(t) /\ Goto(t, "disabling")
    BY <1>1, <2>1, <2>2 DEF Disable_Polling
  <2>3. CASE Inside(t) /\ Goto(t, "disabled")
    BY <1>1, <2>1, <2>3 DEF Disable_Polling
  <2>4. QED BY <1>1, <2>2, <2>3 DEF Disable_Polling
<1>2. CASE Register_Unknown(t)
  <2>1. Allocates
    BY <1>2, EnableAllocates DEF Register_Unknown
  <2>2. /\ op[t].kind = "insert" /\ op[t].slot \in Slots /\ op[t].arg \in Sources
        /\ op[t].last \in 0 .. Maximum_Number_Of_Monitors
    BY <1>2 DEF Register_Unknown, Operation
  <2>3. op[t].slot + 1 \in 0 .. Maximum_Number_Of_Monitors + 1
    BY <2>2 DEF Slots, Maximum_Number_Of_Monitors
  <2>4. /\ op' \in [Threads -> Operation]
        /\ op'[t].slot = op[t].slot + 1 /\ op'[t].kind = "insert" /\ op'[t].arg \in Sources
        /\ \A u \in Threads : u # t => op'[u] = op[u]
    <3>1. SetSlot(t, op[t].slot + 1)
      BY <1>2 DEF Register_Unknown, SetSlot
    <3>2. QED BY <2>2, <2>3, <3>1, SlotAssigned
  <2>5. op[t].slot < op[t].last => op'[t].slot \in Slots
    BY <2>2, <2>4 DEF Slots, Maximum_Number_Of_Monitors
  <2>6. OpAgrees' /\ pc' \in [Threads -> Locations] /\ PollsMonitor'
    BY <1>2, <2>4, <2>5 DEF Register_Unknown
  <2>7. QED BY <1>2, <2>1, <2>4, <2>6 DEF Register_Unknown, Allocates, Awakes
<1>3. CASE Register_Source(t)
  <2>1. op[t].arg \in Sources /\ op[t].slot \in Slots
    BY <1>3 DEF Register_Source
  <2>2. /\ sources' \in [Monitors -> SUBSET Sources]
        /\ sourceMonitor' \in [Sources -> Monitors \cup {None}]
    BY <1>3, <2>1 DEF Register_Source
  <2>3. QED BY <1>3, <2>2 DEF Register_Source
<1>4. CASE Register_Failure(t)
  BY <1>4 DEF Register_Failure
<1>5. CASE Create_Monitor(t)
  <2>1. pc[t] = "create" /\ op[t].kind = "insert" /\ op[t].arg \in Sources
    BY <1>5 DEF Create_Monitor
  <2>2. /\ sources' \in [Monitors -> SUBSET Sources]
        /\ sourceMonitor' \in [Sources -> Monitors \cup {None}]
    BY <1>5, <2>1 DEF Create_Monitor
  <2>3. CASE Monitor_Count < Maximum_Number_Of_Monitors
    <3>1. Monitor_Count + 1 \in Slots
      BY <2>3, MonitorCountTyped DEF Slots, Maximum_Number_Of_Monitors
    <3>2. SetSlot(t, Monitor_Count + 1) /\ Goto(t, "added") /\ UNCHANGED error
      BY <1>5, <2>3 DEF Create_Monitor, SetSlot
    <3>3. aemMonitor' \in [Slots -> Monitors \cup {None}]
      <4>1. PICK m \in Monitors : aemMonitor' = [aemMonitor EXCEPT ![Monitor_Count + 1] = m]
        BY <1>5, <2>3 DEF Create_Monitor
      <4>2. QED BY <3>1, <4>1
    <3>4. Monitor_Count + 1 \in 0 .. Maximum_Number_Of_Monitors + 1
      BY <3>1 DEF Slots, Maximum_Number_Of_Monitors
    <3>5. /\ op' \in [Threads -> Operation]
          /\ op'[t].slot \in Slots /\ op'[t].kind = "insert" /\ op'[t].arg \in Sources
          /\ \A u \in Threads : u # t => op'[u] = op[u]
      BY <2>1, <3>1, <3>2, <3>4, SlotAssigned
    <3>6. OpAgrees' /\ pc' \in [Threads -> Locations] /\ PollsMonitor'
      BY <1>5, <3>2, <3>5 DEF Create_Monitor
    <3>7. QED BY <1>5, <2>2, <3>2, <3>3, <3>5, <3>6 DEF Create_Monitor
  <2>4. CASE ~(Monitor_Count < Maximum_Number_Of_Monitors)
    <3>1. error' = "Constraint_Error" /\ UNCHANGED <<aemMonitor, op, pc>>
      BY <1>5, <2>4 DEF Create_Monitor
    <3>2. QED BY <1>5, <2>2, <3>1 DEF Create_Monitor
  <2>5. QED BY <2>3, <2>4
<1>6. CASE Create_Failure(t)
  BY <1>6 DEF Create_Failure
<1>7. CASE Event_Sources_Added(t)
  <2>1. Allocates
    BY <1>7, TryAllocates, NothingAllocates DEF Event_Sources_Added
  <2>2. pollingScheduled' \in [Slots -> BOOLEAN]
    BY <1>7 DEF Event_Sources_Added
  <2>3. QED BY <1>7, <2>1, <2>2 DEF Event_Sources_Added, Allocates, Awakes
<1>8. CASE Unregister_Source(t)
  <2>1. sources' \in [Monitors -> SUBSET Sources]
    BY <1>8 DEF Unregister_Source
  <2>2. QED BY <1>8, <2>1 DEF Unregister_Source
<1>9. CASE Source_Done(t)
  <2>1. Allocates
    BY <1>9, EnableAllocates DEF Source_Done
  <2>2. NoOp \in Operation
    BY DEF NoOp, Operation, Maximum_Number_Of_Monitors
  <2>3. op[t].ret \in {"out", "running"}
    BY DEF Operation
  <2>4. sourceMonitor' \in [Sources -> Monitors \cup {None}]
    BY <1>9 DEF Source_Done
  <2>5. QED BY <1>9, <2>1, <2>2, <2>3, <2>4 DEF Source_Done, Allocates, Awakes, NoOp
<1>10. CASE Delete_Source(t)
  <2>1. PICK J \in Slots : SetSlot(t, J)
    BY <1>10 DEF Delete_Source, Index, SetSlot
  <2>2. J \in 0 .. Maximum_Number_Of_Monitors + 1
    BY DEF Slots, Maximum_Number_Of_Monitors
  <2>3. /\ op' \in [Threads -> Operation]
        /\ op'[t].slot = J /\ op'[t].kind = op[t].kind /\ op'[t].arg = op[t].arg
        /\ \A u \in Threads : u # t => op'[u] = op[u]
    BY <2>1, <2>2, SlotAssigned
  <2>4. QED BY <1>10, <2>3 DEF Delete_Source
<1>11. CASE Disable_Return(t)
  BY <1>11 DEF Disable_Return
<1>12. ASSUME NEW s \in Sources, Insert_Source(t, s) PROVE Typed'
  BY <1>12, MonitorCountTyped
  DEF Insert_Source, Can_Call, Pass_On, Operation, Slots, Maximum_Number_Of_Monitors
<1>13. ASSUME NEW s \in Sources, Finalize_Endpoint(t, s) PROVE Typed'
  BY <1>13 DEF Finalize_Endpoint, Can_Call, Pass_On, Operation, Maximum_Number_Of_Monitors
<1>14. CASE Delete_Unmonitored(t)
  BY <1>14 DEF Delete_Unmonitored
<1>15. QED
  BY <1>1, <1>2, <1>3, <1>4, <1>5, <1>6, <1>7, <1>8, <1>9, <1>10, <1>11, <1>12, <1>13, <1>14
  DEF Call_Inside, Call_Enter, Source_Calls

(* A step of a job, of Check_Sources, of a client or of a thread that      *)
(* shuts the ORB down preserves Typed.                                     *)
LEMMA TypedOther ==
  ASSUME Typed,
         \/ \E t \in Tasks : \/ Job_Calls(t) \/ Request_Result_Ready(t)
                             \/ Check_Sources(t) \/ Check_Sources_Aborted(t)
         \/ \E t \in Transient : Invoke(t) \/ Abort_Run(t)
         \/ \E a \in Closers : (\E w \in BOOLEAN : Shutdown(a, w)) \/ Completion_Return(a)
  PROVE  Typed'
<1> USE ThreadsAssumption
    DEF Typed, TypeOK, OpAgrees, PollsMonitor, Tasks, Threads, Goto, Enter, Inside, Leave, Locked,
        taskVars, waitVars, aemVars, clientVars, sourceVars, idleVars, Locations
<1>1. ASSUME NEW t \in Tasks, NEW u \in Upcalls, Queue_Request_Job(t, u) PROVE Typed'
  <2>1. Allocates
    BY <1>1, TryAllocates DEF Queue_Request_Job
  <2>2. queue' \in Seq(Jobs)
    BY <1>1, AppendTyped DEF Queue_Request_Job, Queue_Job, Jobs
  <2>3. QED BY <1>1, <2>1, <2>2 DEF Queue_Request_Job, Allocates, Awakes
<1>2. ASSUME NEW t \in Tasks, NEW r \in Transient, Executed_Request(t, r) PROVE Typed'
  <2>1. completed' \in [Transient -> BOOLEAN] /\ job' \in [Tasks -> Jobs \cup {None}]
    BY <1>2 DEF Executed_Request
  <2>2. CASE /\ Enter(t)
             /\ Goto(t, "notifying")
             /\ op' = [op EXCEPT ![t] = [kind |-> "notify", arg |-> r, slot |-> 0,
                                         last |-> 0, ret |-> pc[t]]]
    <3>1. [kind |-> "notify", arg |-> r, slot |-> 0, last |-> 0, ret |-> pc[t]] \in Operation
      BY <1>2, NotifyTyped DEF Executed_Request
    <3>2. QED BY <1>2, <2>1, <2>2, <3>1 DEF Executed_Request
  <2>3. CASE Locked(t) /\ UNCHANGED <<pc, op>>
    BY <1>2, <2>1, <2>3 DEF Executed_Request
  <2>4. QED BY <1>2, <2>2, <2>3 DEF Executed_Request
<1>3. ASSUME NEW t \in Tasks, Disconnect(t) PROVE Typed'
  BY <1>3 DEF Disconnect
<1>4. ASSUME NEW t \in Tasks, Request_Result_Ready(t) PROVE Typed'
  <2>1. /\ onList' \subseteq Tasks /\ idleWait' \subseteq Tasks
        /\ abortSignal' \in [Monitors -> 0 .. AbortCap]
    BY <1>4, AbortTyped DEF Request_Result_Ready, Reschedule_Task, Awake_Idle_Task
  <2>2. error' \in {error, "Program_Error", "Constraint_Error"}
    BY <1>4 DEF Request_Result_Ready, Reschedule_Task, Awake_Idle_Task
  <2>3. NoOp \in Operation /\ NoOp.kind = "none"
    BY DEF NoOp, Operation, Maximum_Number_Of_Monitors
  <2>4. QED BY <1>4, <2>1, <2>2, <2>3 DEF Request_Result_Ready
<1>5. ASSUME NEW t \in Tasks, Check_Sources(t) PROVE Typed'
  BY <1>5 DEF Check_Sources
<1>6. ASSUME NEW t \in Tasks, Check_Sources_Aborted(t) PROVE Typed'
  BY <1>6, AbortCapAssumption DEF Check_Sources_Aborted
<1>7. ASSUME NEW t \in Transient, Invoke(t) PROVE Typed'
  BY <1>7 DEF Invoke
<1>8. ASSUME NEW t \in Transient, Abort_Run(t) PROVE Typed'
  BY <1>8 DEF Abort_Run
<1>9. ASSUME NEW a \in Closers, NEW w \in BOOLEAN, Shutdown(a, w) PROVE Typed'
  <2>1. abortSignal' \in [Monitors -> 0 .. AbortCap]
    BY <1>9, AbortTyped DEF Shutdown
  <2>2. pc' \in [Threads -> Locations] /\ downWait' \subseteq App
    <3>1. CASE UNCHANGED <<pc, downWait>>
      BY <3>1
    <3>2. CASE Goto(a, "completing") /\ downWait' = downWait \cup {a}
      BY <3>2
    <3>3. QED BY <1>9, <3>1, <3>2 DEF Shutdown
  <2>3. OpAgrees' /\ PollsMonitor'
    <3>1. CASE UNCHANGED pc
      BY <1>9, <3>1 DEF Shutdown
    <3>2. CASE Goto(a, "completing")
      BY <1>9, <3>2 DEF Shutdown
    <3>3. QED BY <1>9, <3>1, <3>2 DEF Shutdown
  <2>4. QED BY <1>9, <2>1, <2>2, <2>3 DEF Shutdown
<1>10. ASSUME NEW a \in Closers, Completion_Return(a) PROVE Typed'
  <2>1. downWait' \subseteq App
    BY <1>10 DEF Completion_Return
  <2>2. CASE UNCHANGED pc
    BY <1>10, <2>1, <2>2 DEF Completion_Return
  <2>3. CASE Goto(a, "out")
    BY <1>10, <2>1, <2>3 DEF Completion_Return
  <2>4. QED BY <1>10, <2>2, <2>3 DEF Completion_Return
<1> HIDE DEF Typed
<1>11. QED
  BY <1>1, <1>2, <1>3, <1>4, <1>5, <1>6, <1>7, <1>8, <1>9, <1>10 DEF Job_Calls

(* Every step preserves Typed.                                             *)
LEMMA TypedStep == Typed /\ [Next]_vars => Typed'
<1> SUFFICES ASSUME Typed, [Next]_vars PROVE Typed'
  OBVIOUS
<1>1. CASE Next
  BY <1>1, TypedTask, TypedCall, TypedOther DEF Next
<1>2. CASE UNCHANGED vars
  BY <1>2
  DEF Typed, TypeOK, OpAgrees, PollsMonitor, vars, taskVars, waitVars, aemVars, clientVars,
      sourceVars
<1>3. QED BY <1>1, <1>2

(* Every variable of the ORB keeps its type, and Typed always holds: the   *)
(* slot index that Disable_Polling, Enable_Polling and Event_Sources_Added *)
(* work with is an index of AEM_Infos, and a task calls Check_Sources on a *)
(* monitor.                                                                *)
THEOREM TypeCorrect == Spec => [](TypeOK /\ OpAgrees /\ PollsMonitor)
<1>1. Spec => []Typed
  BY TypedInit, TypedStep, PTL DEF Spec
<1>2. QED BY <1>1, PTL DEF Typed

----------------------------------------------------------------------------
(* Sleepers                                                                *)

(* The initial state satisfies Sleepers.                                   *)
LEMMA SleepersInit == Init => Sleepers
BY ThreadsAssumption
DEF Init, Sleepers, CriticalHoldsLock, IdleAgrees, SleepersOnList, Critical, Threads

(* A step of a task preserves Sleepers.                                    *)
LEMMA SleepersTask ==
  ASSUME TypeOK, Sleepers, NEW t \in Tasks,
         Task_Inside(t) \/ Task_Enter(t)
  PROVE  Sleepers'
<1> USE ThreadsAssumption
    DEF Sleepers, CriticalHoldsLock, IdleAgrees, SleepersOnList, Critical, Threads, Goto,
        Enter, Inside, Leave, Locked, TypeOK, taskVars, waitVars, idleVars, Set_State
<1>1. CASE Schedule_Terminated(t)
  BY <1>1 DEF Schedule_Terminated
<1>2. CASE Schedule_Exit(t)
  BY <1>2 DEF Schedule_Exit, Scheduling
<1>3. CASE Schedule_Job(t)
  BY <1>3 DEF Schedule_Job, Scheduling
<1>4. CASE Schedule_Poll(t)
  BY <1>4 DEF Schedule_Poll, Scheduling
<1>5. CASE Schedule_Idle(t)
  BY <1>5 DEF Schedule_Idle, Scheduling
<1>6. CASE Unregister_Task(t)
  <2>1. Awakes
    BY <1>6, UnregisteredAllocates DEF Unregister_Task, Allocates
  <2>2. QED BY <1>6, <2>1 DEF Unregister_Task, Awakes
<1>7. CASE Idle_Terminate(t)
  BY <1>7 DEF Idle_Terminate
<1>8. CASE Idle_Wait(t)
  BY <1>8 DEF Idle_Wait
<1>9. ASSUME NEW s \in Sources, Queue_Event_Job(t, s) PROVE Sleepers'
  <2>1. Awakes
    BY <1>9, TryAllocates, NothingAllocates DEF Queue_Event_Job, Allocates
  <2>2. QED BY <1>9, <2>1 DEF Queue_Event_Job, Awakes
<1>10. CASE End_Of_Check_Sources(t)
  BY <1>10 DEF End_Of_Check_Sources
<1>11. CASE Run(t)
  BY <1>11 DEF Run, Register_Task
<1>12. CASE Idle_Return(t)
  BY <1>12 DEF Idle_Return
<1>13. CASE Reenter(t)
  BY <1>13 DEF Reenter
<1>14. CASE Terminate_Task(t)
  BY <1>14 DEF Terminate_Task, Leave_State
<1>15. CASE Job_Completed(t)
  BY <1>15 DEF Job_Completed
<1>16. CASE Abort_Request_Fails(t)
  BY <1>16 DEF Abort_Request_Fails
<1>17. QED
  BY <1>1, <1>2, <1>3, <1>4, <1>5, <1>6, <1>7, <1>8, <1>9, <1>10, <1>11, <1>12, <1>13,
     <1>14, <1>15, <1>16
  DEF Task_Inside, Task_Enter, Schedule_Task

(* A call that the program makes into the ORB preserves Sleepers.          *)
LEMMA SleepersCall ==
  ASSUME TypeOK, Sleepers, NEW t \in Threads,
         Call_Inside(t) \/ Call_Enter(t) \/ Source_Calls(t)
  PROVE  Sleepers'
<1> USE ThreadsAssumption
    DEF Sleepers, CriticalHoldsLock, IdleAgrees, SleepersOnList, Critical, Threads, Goto,
        Enter, Inside, Leave, Locked, TypeOK, taskVars, waitVars, idleVars
<1>1. CASE Disable_Polling(t)
  <2>1. pc[t] = "disable" /\ UNCHANGED <<state, onList, idleWait>>
    BY <1>1 DEF Disable_Polling
  <2>2. CASE Leave(t) /\ Goto(t, "disabling")
    BY <2>1, <2>2
  <2>3. CASE Inside(t) /\ Goto(t, "disabled")
    BY <2>1, <2>3
  <2>4. QED BY <1>1, <2>2, <2>3 DEF Disable_Polling
<1>2. CASE Register_Unknown(t)
  <2>1. Awakes
    BY <1>2, EnableAllocates DEF Register_Unknown, Allocates
  <2>2. QED BY <1>2, <2>1 DEF Register_Unknown, Awakes
<1>3. CASE Register_Source(t)
  BY <1>3 DEF Register_Source
<1>4. CASE Register_Failure(t)
  BY <1>4 DEF Register_Failure
<1>5. CASE Create_Monitor(t)
  <2>1. CASE Goto(t, "added")
    BY <1>5, <2>1 DEF Create_Monitor
  <2>2. CASE UNCHANGED pc
    BY <1>5, <2>2 DEF Create_Monitor
  <2>3. QED BY <1>5, <2>1, <2>2 DEF Create_Monitor
<1>6. CASE Create_Failure(t)
  BY <1>6 DEF Create_Failure
<1>7. CASE Event_Sources_Added(t)
  <2>1. Awakes
    BY <1>7, TryAllocates, NothingAllocates DEF Event_Sources_Added, Allocates
  <2>2. QED BY <1>7, <2>1 DEF Event_Sources_Added, Awakes
<1>8. CASE Unregister_Source(t)
  BY <1>8 DEF Unregister_Source
<1>9. CASE Source_Done(t)
  <2>1. Awakes
    BY <1>9, EnableAllocates DEF Source_Done, Allocates
  <2>2. op[t].ret \in {"out", "running"}
    BY DEF Operation
  <2>3. QED BY <1>9, <2>1, <2>2 DEF Source_Done, Awakes
<1>10. CASE Delete_Source(t)
  BY <1>10 DEF Delete_Source
<1>11. CASE Disable_Return(t)
  BY <1>11 DEF Disable_Return
<1>12. ASSUME NEW s \in Sources, Insert_Source(t, s) PROVE Sleepers'
  BY <1>12 DEF Insert_Source, Can_Call
<1>13. ASSUME NEW s \in Sources, Finalize_Endpoint(t, s) PROVE Sleepers'
  BY <1>13 DEF Finalize_Endpoint, Can_Call
<1>14. CASE Delete_Unmonitored(t)
  BY <1>14 DEF Delete_Unmonitored
<1>15. QED
  BY <1>1, <1>2, <1>3, <1>4, <1>5, <1>6, <1>7, <1>8, <1>9, <1>10, <1>11, <1>12, <1>13, <1>14
  DEF Call_Inside, Call_Enter, Source_Calls

(* A step of a job, of Check_Sources, of a client or of a thread that      *)
(* shuts the ORB down preserves Sleepers.                                  *)
LEMMA SleepersOther ==
  ASSUME TypeOK, Sleepers,
         \/ \E t \in Tasks : \/ Job_Calls(t) \/ Request_Result_Ready(t)
                             \/ Check_Sources(t) \/ Check_Sources_Aborted(t)
         \/ \E t \in Transient : Invoke(t) \/ Abort_Run(t)
         \/ \E a \in Closers : (\E w \in BOOLEAN : Shutdown(a, w)) \/ Completion_Return(a)
  PROVE  Sleepers'
<1> USE ThreadsAssumption
    DEF Sleepers, CriticalHoldsLock, IdleAgrees, SleepersOnList, Critical, Tasks, Threads,
        Goto, Enter, Inside, Leave, Locked, TypeOK, taskVars, waitVars, idleVars
<1>1. ASSUME NEW t \in Tasks, NEW u \in Upcalls, Queue_Request_Job(t, u) PROVE Sleepers'
  <2>1. Awakes
    BY <1>1, TryAllocates DEF Queue_Request_Job, Allocates
  <2>2. QED BY <1>1, <2>1 DEF Queue_Request_Job, Awakes
<1>2. ASSUME NEW t \in Tasks, NEW r \in Transient, Executed_Request(t, r) PROVE Sleepers'
  <2>1. pc[t] = "running" /\ UNCHANGED <<state, onList, idleWait>>
    BY <1>2 DEF Executed_Request
  <2>2. CASE Enter(t) /\ Goto(t, "notifying")
    BY <2>1, <2>2
  <2>3. CASE Locked(t) /\ UNCHANGED pc
    BY <2>1, <2>3
  <2>4. QED BY <1>2, <2>2, <2>3 DEF Executed_Request
<1>3. ASSUME NEW t \in Tasks, Disconnect(t) PROVE Sleepers'
  BY <1>3 DEF Disconnect
<1>4. ASSUME NEW t \in Tasks, Request_Result_Ready(t) PROVE Sleepers'
  BY <1>4 DEF Request_Result_Ready, Reschedule_Task, Awake_Idle_Task
<1>5. ASSUME NEW t \in Tasks, Check_Sources(t) PROVE Sleepers'
  BY <1>5 DEF Check_Sources
<1>6. ASSUME NEW t \in Tasks, Check_Sources_Aborted(t) PROVE Sleepers'
  BY <1>6 DEF Check_Sources_Aborted
<1>7. ASSUME NEW t \in Transient, Invoke(t) PROVE Sleepers'
  BY <1>7 DEF Invoke
<1>8. ASSUME NEW t \in Transient, Abort_Run(t) PROVE Sleepers'
  BY <1>8 DEF Abort_Run
<1>9. ASSUME NEW a \in Closers, NEW w \in BOOLEAN, Shutdown(a, w) PROVE Sleepers'
  BY <1>9 DEF Shutdown
<1>10. ASSUME NEW a \in Closers, Completion_Return(a) PROVE Sleepers'
  <2>1. CASE UNCHANGED pc
    BY <1>10, <2>1 DEF Completion_Return
  <2>2. CASE Goto(a, "out")
    BY <1>10, <2>2 DEF Completion_Return
  <2>3. QED BY <1>10, <2>1, <2>2 DEF Completion_Return
<1>11. QED
  BY <1>1, <1>2, <1>3, <1>4, <1>5, <1>6, <1>7, <1>8, <1>9, <1>10 DEF Job_Calls

(* Every step preserves Sleepers.                                          *)
LEMMA SleepersStep == TypeOK /\ Sleepers /\ [Next]_vars => Sleepers'
<1> SUFFICES ASSUME TypeOK, Sleepers, [Next]_vars PROVE Sleepers'
  OBVIOUS
<1>1. CASE Next
  BY <1>1, SleepersTask, SleepersCall, SleepersOther DEF Next
<1>2. CASE UNCHANGED vars
  BY <1>2
  DEF Sleepers, CriticalHoldsLock, IdleAgrees, SleepersOnList, vars, taskVars, waitVars
<1>3. QED BY <1>1, <1>2

(* Mutual exclusion and the idle list, for any number of threads: a thread *)
(* inside the ORB critical section holds the lock, every sleeping task is  *)
(* on the list where Awake_One_Idle_Task finds it, and every task found    *)
(* there is about to sleep, asleep or being aborted.                       *)
THEOREM SleepersCorrect == Spec => [](SleepersOnList /\ CriticalHoldsLock)
<1>1. Spec => [](TypeOK /\ OpAgrees /\ PollsMonitor)
  BY TypeCorrect
<1>2. Spec => []Sleepers
  BY <1>1, SleepersInit, SleepersStep, PTL DEF Spec
<1>3. QED BY <1>2, PTL DEF Sleepers

=============================================================================
