----------------------------- MODULE OrbWorkers -----------------------------
(***************************************************************************)
(* The ORB main loop and source management (PolyORB.ORB) under the Workers *)
(* control policy (PolyORB.ORB_Controller.Workers) and the thread pool     *)
(* tasking policy (PolyORB.ORB.Thread_Pool).                               *)
(*                                                                         *)
(* A thread in Run goes through Schedule_Task again and again and does     *)
(* what it was given: run a job, poll a monitor or sleep.  The bodies of   *)
(* jobs are the calls back into the ORB that transport endpoints, sessions *)
(* and servants make: monitor an endpoint, close it, queue a request       *)
(* received from a client, report that a request was executed.             *)
(***************************************************************************)
EXTENDS OrbController

VARIABLES
  events,      \* sources returned by the task's last Check_Sources
  conn,        \* the source on which a client thread's reply is to arrive
  completed,   \* Request.Completed of each client thread's request
  requesting,  \* Request.Requesting_Task /= null, for the same request
  op,          \* the source operation or notification a thread is executing
  held,        \* the source whose data the task's job is reading: the job has
               \* to have it monitored again or closed
  carried,     \* the source that a request job goes on reading
  broken,      \* sources on which the session was disconnected
  open,        \* sources the ORB has been given and that are not closed
  dying,       \* sources whose binding object is being finalized
  sourceMonitor \* the monitor recorded in the source (AES.Monitor)

taskVars   == <<state, summary, job, selector>>
waitVars   == <<idleWait, pollWait, downWait>>
clientVars == <<conn, completed, requesting>>
sourceVars == <<open, dying, sourceMonitor, held, carried, broken>>

vars == <<lock, pc, taskVars, queue, aemVars, onList, waitVars, shutdown,
          sources, abortSignal, error, events, clientVars, op, sourceVars>>

NoOp == [kind |-> "none", arg |-> None, slot |-> 0, last |-> 0, ret |-> "out"]

Init ==
  /\ lock = None
  /\ pc = [t \in Threads |->
             IF t \in Permanent \ Started THEN "unborn" ELSE "out"]
  /\ state = [t \in Tasks |-> "none"]
  /\ summary = Empty_Summary
  /\ queue = <<>>
  /\ job = [t \in Tasks |-> None]
  /\ selector = [t \in Tasks |-> None]
  /\ aemMonitor = [J \in Slots |-> None]
  /\ aemTI = [J \in Slots |-> None]
  /\ abortCounter = [J \in Slots |-> 0]
  /\ pollingScheduled = [J \in Slots |-> FALSE]
  /\ lastAEM = Maximum_Number_Of_Monitors
  /\ onList = {}
  /\ idleWait = {}
  /\ pollWait = [J \in Slots |-> {}]
  /\ downWait = {}
  /\ shutdown = FALSE
  /\ sources = [m \in Monitors |-> {}]
  /\ abortSignal = [m \in Monitors |-> 0]
  /\ error = "none"
  /\ events = [t \in Tasks |-> {}]
  /\ conn = [t \in Transient |-> None]
  /\ completed = [t \in Transient |-> FALSE]
  /\ requesting = [t \in Transient |-> FALSE]
  /\ op = [t \in Threads |-> NoOp]
  /\ held = [t \in Tasks |-> None]
  /\ carried = [u \in Upcalls |-> None]
  /\ broken = {}
  /\ open = {}
  /\ dying = {}
  /\ sourceMonitor = [s \in Sources |-> None]

Goto(t, p) == pc' = [pc EXCEPT ![t] = p]

(* The steps at which a thread takes the lock, keeps it and releases it.   *)
Enter(t) == lock = None /\ lock' = t
Inside(t) == lock = t /\ lock' = t
Leave(t) == lock = t /\ lock' = None
Locked(t) == lock = None /\ lock' = None

----------------------------------------------------------------------------
(* Joining and leaving the ORB                                             *)

(* Requests.Invoke: the client has sent its request on a connection whose  *)
(* Insert_Source has returned, whether or not the ORB monitors it, and is  *)
(* about to run the ORB until it completes.                                *)
Invoke(t) ==
  /\ t \in Transient
  /\ pc[t] = "out"
  /\ \E s \in open \ (dying \cup broken \cup ServerSide) :
       /\ sourceMonitor[s] # None \/ \A u \in Threads : op[u].arg # s
       /\ conn' = [conn EXCEPT ![t] = s]
  /\ Goto(t, "requested")
  /\ completed' = [completed EXCEPT ![t] = FALSE]
  /\ UNCHANGED <<lock, taskVars, queue, aemVars, onList, waitVars, shutdown, sources,
                 abortSignal, error, events, requesting, op, sourceVars>>

Register_Task(t) ==
  /\ state' = [state EXCEPT ![t] = "Unscheduled"]
  /\ summary' = Task_Created(summary, Kind(t))

(* Run up to the main loop: Task_Witness.Initialize sets Requesting_Task   *)
(* and registers the task.                                                 *)
Run(t) ==
  /\ \/ t \in Permanent /\ pc[t] = "out"
     \/ pc[t] = "requested"
  /\ Enter(t)
  /\ Goto(t, "schedule")
  /\ Register_Task(t)
  /\ requesting' = [r \in Transient |-> r = t \/ requesting[r]]
  /\ UNCHANGED <<job, selector, queue, aemVars, onList, waitVars, shutdown, sources,
                 abortSignal, error, events, conn, completed, op, sourceVars>>

(* Mutant: the threads that wait for completion are not told.              *)
Note_Task_Unregistered_M1(c) == UNCHANGED downWait

Note_Task_Unregistered(c) ==
  downWait' = IF shutdown /\ Get_Count(c, "Any", "Any") = 0 THEN {} ELSE downWait

(* The Task_Unregistered event, c being the summary the task has left.     *)
Task_Unregistered(c) ==
  /\ \/ \E J \in Slots :
          /\ Need_Polling_Task(J)
          /\ lastAEM' = J
          /\ Try_Allocate_One_Task(c, TRUE)
     \/ /\ \A J \in Slots : ~Needs_Polling(J)
        /\ UNCHANGED <<lastAEM, onList, idleWait, abortSignal, error>>
  /\ Note_Task_Unregistered(c)

(* Task_Witness.Finalize and Unregister_Task; a pool thread then ends.     *)
Unregister_Task(t) ==
  /\ pc[t] = "leaving"
  /\ Leave(t)
  /\ Goto(t, IF t \in MayExit THEN "unborn" ELSE "out")
  /\ state' = [state EXCEPT ![t] = "none"]
  /\ summary' = Task_Removed(summary, Kind(t))
  /\ Task_Unregistered(Task_Removed(summary, Kind(t)))
  /\ requesting' = [r \in Transient |-> r # t /\ requesting[r]]
  /\ conn' = [r \in Transient |-> IF r = t THEN None ELSE conn[r]]
  /\ UNCHANGED <<job, selector, queue, aemMonitor, aemTI, abortCounter, pollingScheduled,
                 pollWait, shutdown, sources, events, completed, op, sourceVars>>

----------------------------------------------------------------------------
(* Schedule_Task                                                           *)

Exit_Condition(t) == t \in Transient /\ completed[t]

(* Mutants: pending jobs are forgotten; the shutdown is.                   *)
Must_Exit_M1(t) == Exit_Condition(t) \/ (shutdown /\ t \in Permanent)
Must_Exit_M2(t) == Exit_Condition(t)

Must_Exit(t) ==
  \/ Exit_Condition(t)
  \/ shutdown /\ ~Has_Pending_Job /\ t \in Permanent

Is_Schedulable(t, j) == t \in Permanent \/ ~Is_Upcall(j)

Some_Schedulable_Job(t) == \E i \in 1 .. Len(queue) : Is_Schedulable(t, queue[i])

Scheduling(t) == pc[t] = "schedule" /\ lock = t

(* The thread pool had the task terminated: leave the main loop.           *)
Schedule_Terminated(t) ==
  /\ Scheduling(t)
  /\ state[t] = "Terminated"
  /\ Inside(t)
  /\ Goto(t, "leaving")
  /\ UNCHANGED <<taskVars, queue, aemVars, onList, waitVars, shutdown, sources, abortSignal,
                 error, events, clientVars, op, sourceVars>>

Schedule_Exit(t) ==
  /\ Scheduling(t)
  /\ state[t] # "Terminated"
  /\ Must_Exit(t)
  /\ Inside(t)
  /\ Goto(t, "leaving")
  /\ Set_State(t, "Terminated")
  /\ selector' = [selector EXCEPT ![t] = None]
  /\ UNCHANGED <<job, queue, aemVars, onList, waitVars, shutdown, sources, abortSignal, error,
                 events, clientVars, op, sourceVars>>

(* An event job starts with its source, a request job with the source its  *)
(* arguments are still to be read from, if any.                            *)
Take_Source(t, j) ==
  /\ held' = [held EXCEPT ![t] = IF j \in Upcalls THEN carried[j] ELSE j]
  /\ carried' = [u \in Upcalls |-> IF u = j THEN None ELSE carried[u]]

(* Set_State_Running, then Perform_Work leaves the critical section.       *)
Schedule_Job(t) ==
  /\ Scheduling(t)
  /\ state[t] # "Terminated"
  /\ ~Must_Exit(t)
  /\ \E i \in 1 .. Len(queue) :
       /\ Fetch_Job(i, {j \in Jobs : Is_Schedulable(t, j)})
       /\ queue' = Without(queue, i)
       /\ job' = [job EXCEPT ![t] = queue[i]]
       /\ Take_Source(t, queue[i])
  /\ Leave(t)
  /\ Goto(t, "running")
  /\ Set_State(t, "Running")
  /\ selector' = [selector EXCEPT ![t] = None]
  /\ UNCHANGED <<aemVars, onList, waitVars, shutdown, sources, abortSignal, error, events,
                 clientVars, op, open, dying, sourceMonitor, broken>>

(* Set_State_Blocked, then Try_Check_Sources leaves the critical section.  *)
Schedule_Poll(t) ==
  /\ Scheduling(t)
  /\ state[t] # "Terminated"
  /\ ~Must_Exit(t)
  /\ ~Some_Schedulable_Job(t)
  /\ \E J \in Slots :
       /\ Need_Polling_Task(J)
       /\ lastAEM' = J
       /\ pollingScheduled' = [pollingScheduled EXCEPT ![J] = FALSE]
       /\ aemTI' = [aemTI EXCEPT ![J] = t]
       /\ selector' = [selector EXCEPT ![t] = aemMonitor[J]]
  /\ Leave(t)
  /\ Goto(t, "blocked")
  /\ Set_State(t, "Blocked")
  /\ UNCHANGED <<job, queue, aemMonitor, abortCounter, onList, waitVars, shutdown, sources,
                 abortSignal, error, events, clientVars, op, sourceVars>>

(* Insert_Idle_Task and Set_State_Idle; the tasking policy comes next.     *)
Schedule_Idle(t) ==
  /\ Scheduling(t)
  /\ state[t] # "Terminated"
  /\ ~Must_Exit(t)
  /\ ~Some_Schedulable_Job(t)
  /\ \A J \in Slots : ~Needs_Polling(J)
  /\ Inside(t)
  /\ Goto(t, "goidle")
  /\ Set_State(t, "Idle")
  /\ onList' = onList \cup {t}
  /\ selector' = [selector EXCEPT ![t] = None]
  /\ UNCHANGED <<job, queue, aemVars, waitVars, shutdown, sources, abortSignal, error, events,
                 clientVars, op, sourceVars>>

----------------------------------------------------------------------------
(* The thread pool's Idle operation                                        *)

(* Mutant: one spare task too many is kept.                                *)
Too_Many_Spares_M1(t) ==
  t \in MayExit /\ Get_Count(summary, "Permanent", "Idle") > MaxSpare + 1

Too_Many_Spares(t) ==
  t \in MayExit /\ Get_Count(summary, "Permanent", "Idle") > MaxSpare

(* Terminate_Task of an idle task: Idle_Awake, then Terminated.            *)
Idle_Terminate(t) ==
  /\ pc[t] = "goidle"
  /\ Too_Many_Spares(t)
  /\ Inside(t)
  /\ Goto(t, "schedule")
  /\ Set_State(t, "Terminated")
  /\ onList' = onList \ {t}
  /\ UNCHANGED <<job, selector, queue, aemVars, waitVars, shutdown, sources, abortSignal,
                 error, events, clientVars, op, sourceVars>>

Idle_Wait(t) ==
  /\ pc[t] = "goidle"
  /\ ~Too_Many_Spares(t)
  /\ Leave(t)
  /\ Goto(t, "idle")
  /\ idleWait' = idleWait \cup {t}
  /\ UNCHANGED <<taskVars, queue, aemVars, onList, pollWait, downWait, shutdown, sources,
                 abortSignal, error, events, clientVars, op, sourceVars>>

(* Check_Spares: how many pool threads the awakened task creates.          *)
New_Spares ==
  LET cur    == Get_Count(summary, "Permanent", "Idle")
      wanted == MinSpare - cur
      room   == MaxThreads - Get_Count(summary, "Permanent", "Any")
      limit  == IF room < MaxSpare - cur THEN room ELSE MaxSpare - cur
  IN  IF shutdown \/ wanted <= 0 \/ limit <= 0 THEN 0
      ELSE IF wanted < limit THEN wanted ELSE limit

(* The awakened task gets the lock again, creates the missing spare        *)
(* threads (Create_Task may fail) and notifies Idle_Awake.                 *)
Idle_Return(t) ==
  /\ pc[t] = "idle"
  /\ t \notin idleWait
  /\ Enter(t)
  /\ \E new \in SUBSET {p \in MayExit : pc[p] = "unborn"} :
       /\ Cardinality(new) <= New_Spares
       /\ pc' = [u \in Threads |-> IF u = t THEN "schedule"
                                   ELSE IF u \in new THEN "out" ELSE pc[u]]
  /\ onList' = onList \ {t}
  /\ UNCHANGED <<taskVars, queue, aemVars, waitVars, shutdown, sources, abortSignal, error,
                 events, clientVars, op, sourceVars>>

----------------------------------------------------------------------------
(* Try_Check_Sources                                                       *)

(* Check_Sources returns, outside the critical section, with the sources   *)
(* that have data; it has taken them off the monitor's source list.        *)
Check_Sources(t) ==
  /\ pc[t] = "blocked"
  /\ abortSignal[selector[t]] = 0
  /\ \E ready \in SUBSET sources[selector[t]] :
       /\ ready # {}
       /\ events' = [events EXCEPT ![t] = ready]
       /\ sources' = [sources EXCEPT ![selector[t]] = @ \ ready]
  /\ Goto(t, "polled")
  /\ UNCHANGED <<lock, taskVars, queue, aemVars, onList, waitVars, shutdown, abortSignal,
                 error, clientVars, op, sourceVars>>

(* Check_Sources consumes an abort and returns no event.                   *)
Check_Sources_Aborted(t) ==
  /\ pc[t] = "blocked"
  /\ abortSignal[selector[t]] > 0
  /\ abortSignal' = [abortSignal EXCEPT ![selector[t]] = @ - 1]
  /\ Goto(t, "polled")
  /\ UNCHANGED <<lock, taskVars, queue, aemVars, onList, waitVars, shutdown, sources, error,
                 events, clientVars, op, sourceVars>>

Reenter(t) ==
  /\ pc[t] = "polled"
  /\ Enter(t)
  /\ Goto(t, "queueing")
  /\ UNCHANGED <<taskVars, queue, aemVars, onList, waitVars, shutdown, sources, abortSignal,
                 error, events, clientVars, op, sourceVars>>

(* Mutant: a binding object under finalization is referenced again.        *)
Stabilize_M1(s) == TRUE

(* Stabilize fails when the binding object is already being finalized.     *)
Stabilize(s) == s \notin dying

Queue_Event_Job(t, s) ==
  /\ pc[t] = "queueing"
  /\ s \in events[t]
  /\ Inside(t)
  /\ events' = [events EXCEPT ![t] = @ \ {s}]
  /\ IF Stabilize(s)
     THEN Queue_Job(s) /\ Try_Allocate_One_Task(summary, TRUE)
     ELSE UNCHANGED <<queue, idleVars, abortSignal, error>>
  /\ UNCHANGED <<pc, taskVars, aemVars, pollWait, downWait, shutdown, sources, clientVars,
                 op, sourceVars>>

(* Mutants: TI is not reset; the waiting threads are not told.             *)
Polling_Ended_M1(J) ==
  /\ UNCHANGED aemTI
  /\ pollWait' = [pollWait EXCEPT ![J] = IF abortCounter[J] > 0 THEN {} ELSE @]
Polling_Ended_M2(J) ==
  /\ aemTI' = [aemTI EXCEPT ![J] = None]
  /\ UNCHANGED pollWait

(* The End_Of_Check_Sources event, on the slot J of the monitor.           *)
Polling_Ended(J) ==
  /\ aemTI' = [aemTI EXCEPT ![J] = None]
  /\ pollWait' = [pollWait EXCEPT ![J] = IF abortCounter[J] > 0 THEN {} ELSE @]

End_Of_Check_Sources(t) ==
  /\ pc[t] = "queueing"
  /\ events[t] = {}
  /\ Inside(t)
  /\ Goto(t, "schedule")
  /\ \E J \in Index(selector[t]) : Polling_Ended(J)
  /\ UNCHANGED <<taskVars, queue, aemMonitor, abortCounter, pollingScheduled, lastAEM, onList,
                 idleWait, downWait, shutdown, sources, abortSignal, error, events, clientVars,
                 op, sourceVars>>

----------------------------------------------------------------------------
(* Perform_Work: the calls a job makes into the ORB                        *)

(* The job returns: its source has been passed on, or is disconnected and  *)
(* is closed when its binding object is finalized.  Job_Completed changes  *)
(* nothing under this policy.                                              *)
Job_Completed(t) ==
  /\ pc[t] = "running"
  /\ held[t] \in broken \cup {None}
  /\ \A r \in Transient : held[t] # None /\ conn[r] = held[t] => completed[r]
  /\ Enter(t)
  /\ Goto(t, "schedule")
  /\ job' = [job EXCEPT ![t] = None]
  /\ held' = [held EXCEPT ![t] = None]
  /\ UNCHANGED <<state, summary, selector, queue, aemVars, onList, waitVars, shutdown, sources,
                 abortSignal, error, events, clientVars, op, open, dying, sourceMonitor,
                 carried, broken>>

(* The event job of a server-side connection received a request:           *)
(* Handle_Request_Execution queues it.                                     *)
(* Its source is monitored again before, or once the request job has read  *)
(* the arguments; the event job has nothing else to do.                    *)
Queue_Request_Job(t, u) ==
  /\ pc[t] = "running"
  /\ job[t] \in ServerSide \ broken
  /\ \A i \in 1 .. Len(queue) : queue[i] # u
  /\ \A r \in Tasks : job[r] # u
  /\ Locked(t)
  /\ Queue_Job(u)
  /\ Try_Allocate_One_Task(summary, ~Is_Upcall(u))
  /\ carried' = [carried EXCEPT ![u] = held[t]]
  /\ held' = [held EXCEPT ![t] = None]
  /\ job' = [job EXCEPT ![t] = None]
  /\ UNCHANGED <<pc, state, summary, selector, aemVars, pollWait, downWait, shutdown, sources,
                 events, clientVars, op, open, dying, sourceMonitor, broken>>

(* The job of a source finds the connection closed by the other side.      *)
Disconnect(t) ==
  /\ pc[t] = "running"
  /\ job[t] \in Sources /\ held[t] = job[t]
  /\ broken' = broken \cup {held[t]}
  /\ UNCHANGED <<lock, pc, taskVars, queue, aemVars, onList, waitVars, shutdown, sources,
                 abortSignal, error, events, clientVars, op, open, dying, sourceMonitor,
                 held, carried>>

(* The event job received a reply, and has its source monitored again; or  *)
(* the session was disconnected and completes every request with an error. *)
Completes(t, r) ==
  /\ job[t] \in Sources /\ job[t] = conn[r] /\ ~completed[r]
  /\ held[t] = None \/ held[t] \in broken

(* Mutant: Requesting_Task is taken for granted.                           *)
Has_Requesting_Task_M1(r) == TRUE

Has_Requesting_Task(r) == requesting[r]

(* Handle_Message (Executed_Request): r's request is completed; when it    *)
(* has a requesting task, that task is notified.  A reply is the last      *)
(* thing its event job sees to.                                            *)
Executed_Request(t, r) ==
  /\ pc[t] = "running"
  /\ Completes(t, r)
  /\ completed' = [completed EXCEPT ![r] = TRUE]
  /\ job' = [job EXCEPT ![t] = IF held[t] = None THEN None ELSE @]
  /\ IF Has_Requesting_Task(r)
     THEN /\ Enter(t)
          /\ Goto(t, "notifying")
          /\ op' = [op EXCEPT ![t] = [kind |-> "notify", arg |-> r, slot |-> 0,
                                      last |-> 0, ret |-> pc[t]]]
     ELSE /\ Locked(t)
          /\ UNCHANGED <<pc, op>>
  /\ UNCHANGED <<state, summary, selector, queue, aemVars, onList, waitVars, shutdown,
                 sources, abortSignal, error, events, conn, requesting, sourceVars>>

(* Request_Result_Ready, with the Requesting_Task read again.              *)
Request_Result_Ready(t) ==
  /\ pc[t] = "notifying"
  /\ Leave(t)
  /\ Goto(t, "running")
  /\ op' = [op EXCEPT ![t] = NoOp]
  /\ IF requesting[op[t].arg]
     THEN Reschedule_Task(op[t].arg)
     ELSE error' = "Constraint_Error" /\ UNCHANGED <<idleVars, abortSignal>>
  /\ UNCHANGED <<taskVars, queue, aemVars, pollWait, downWait, shutdown, sources, events,
                 clientVars, sourceVars>>

----------------------------------------------------------------------------
(* Insert_Source and Delete_Source                                         *)

(* Threads that may call the ORB: tasks in a job, clients, applications.   *)
Can_Call(t) == pc[t] = "running" \/ (pc[t] = "out" /\ t \notin Permanent)

Holds(t, s) == t \in Tasks /\ pc[t] = "running" /\ held[t] = s

Pass_On(t, s) == held' = [u \in Tasks |-> IF u = t /\ held[u] = s THEN None ELSE held[u]]

(* Insert_Source up to the loop over the monitors known at this time.      *)
Insert_Source(t, s) ==
  /\ Can_Call(t)
  /\ (s \notin open /\ t \in Callers) \/ (Holds(t, s) /\ s \notin broken)
  /\ Enter(t)
  /\ Goto(t, IF Monitor_Count = 0 THEN "create" ELSE "disable")
  /\ op' = [op EXCEPT ![t] = [kind |-> "insert", arg |-> s, slot |-> 1,
                              last |-> Monitor_Count, ret |-> pc[t]]]
  /\ open' = open \cup {s}
  /\ Pass_On(t, s)
  /\ UNCHANGED <<taskVars, queue, aemVars, onList, waitVars, shutdown, sources, abortSignal,
                 error, events, clientVars, dying, sourceMonitor, carried, broken>>

(* Nobody but t refers to the binding object of s any more: no job for it  *)
(* is queued or run by another task, no client waits for a reply on it,    *)
(* and nobody is inserting or deleting it.                                 *)
Last_Reference(t, s) ==
  /\ s \in open \ dying
  /\ \A i \in 1 .. Len(queue) : queue[i] # s
  /\ \A u \in Tasks \ {t} : job[u] # s /\ held[u] # s
  /\ \A u \in Upcalls : carried[u] # s
  /\ \A u \in Threads : op[u].arg # s
  /\ \A r \in Transient : conn[r] = s => completed[r]

(* The last reference to the binding object of s goes away, which closes   *)
(* the endpoint: Delete_Source is about to be called.                      *)
Finalize_Endpoint(t, s) ==
  /\ Can_Call(t)
  /\ t \in Callers \/ Holds(t, s)
  /\ Last_Reference(t, s)
  /\ Goto(t, "deleting")
  /\ op' = [op EXCEPT ![t] = [kind |-> "delete", arg |-> s, slot |-> 0,
                              last |-> 0, ret |-> pc[t]]]
  /\ dying' = dying \cup {s}
  /\ Pass_On(t, s)
  /\ job' = [u \in Tasks |-> IF u = t /\ job[u] = s THEN None ELSE job[u]]
  /\ UNCHANGED <<lock, state, summary, selector, queue, aemVars, onList, waitVars, shutdown,
                 sources, abortSignal, error, events, clientVars, open, sourceMonitor, carried,
                 broken>>

Delete_Source(t) ==
  /\ pc[t] = "deleting"
  /\ sourceMonitor[op[t].arg] # None
  /\ Enter(t)
  /\ Goto(t, "disable")
  /\ \E J \in Index(sourceMonitor[op[t].arg]) : op' = [op EXCEPT ![t].slot = J]
  /\ UNCHANGED <<taskVars, queue, aemVars, onList, waitVars, shutdown, sources, abortSignal,
                 error, events, clientVars, sourceVars>>

(* Delete_Source of a source that was never registered, because that       *)
(* failed: it has no monitor, and the null AES.Monitor is dereferenced.    *)
Delete_Unmonitored(t) ==
  /\ pc[t] = "deleting"
  /\ sourceMonitor[op[t].arg] = None
  /\ Enter(t)
  /\ error' = "Constraint_Error"
  /\ UNCHANGED <<pc, taskVars, queue, aemVars, onList, waitVars, shutdown, sources,
                 abortSignal, events, clientVars, op, sourceVars>>

(* Disable_Polling: a polling task is aborted and waited for.              *)
Disable_Polling(t) ==
  LET J == op[t].slot
  IN  /\ pc[t] = "disable"
      /\ IF aemTI[J] # None
         THEN /\ Leave(t)
              /\ Goto(t, "disabling")
              /\ abortSignal' = Abort_Check_Sources(abortSignal, {selector[aemTI[J]]})
              /\ abortCounter' = [abortCounter EXCEPT ![J] = @ + 1]
              /\ pollWait' = [pollWait EXCEPT ![J] = @ \cup {t}]
         ELSE /\ Inside(t)
              /\ Goto(t, "disabled")
              /\ UNCHANGED <<abortSignal, abortCounter, pollWait>>
      /\ UNCHANGED <<taskVars, queue, aemMonitor, aemTI, pollingScheduled, lastAEM, idleVars,
                     downWait, shutdown, sources, error, events, clientVars, op, sourceVars>>

Disable_Return(t) ==
  LET J == op[t].slot
  IN  /\ pc[t] = "disabling"
      /\ t \notin pollWait[J]
      /\ Enter(t)
      /\ Goto(t, "disabled")
      /\ abortCounter' = [abortCounter EXCEPT ![J] = @ - 1]
      /\ UNCHANGED <<taskVars, queue, aemMonitor, aemTI, pollingScheduled, lastAEM, onList,
                     waitVars, shutdown, sources, abortSignal, error, events, clientVars, op,
                     sourceVars>>

(* Mutant: no task is allocated when polling is enabled again.             *)
Enable_Polling_M1(J) == UNCHANGED <<idleVars, abortSignal, error>>

Enable_Polling(J) ==
  IF abortCounter[J] = 0
  THEN Try_Allocate_One_Task(summary, TRUE)
  ELSE UNCHANGED <<idleVars, abortSignal, error>>

(* Register_Source does not know the type of the source: polling is        *)
(* enabled again and the loop goes on.                                     *)
Register_Unknown(t) ==
  LET J == op[t].slot
  IN  /\ pc[t] = "disabled" /\ op[t].kind = "insert"
      /\ MonitorType[aemMonitor[J]] # SourceType[op[t].arg]
      /\ Inside(t)
      /\ Enable_Polling(J)
      /\ op' = [op EXCEPT ![t].slot = J + 1]
      /\ Goto(t, IF J < op[t].last THEN "disable" ELSE "create")
      /\ UNCHANGED <<taskVars, queue, aemVars, pollWait, downWait, shutdown, sources, events,
                     clientVars, sourceVars>>

Register_Source(t) ==
  LET m == aemMonitor[op[t].slot]
  IN  /\ pc[t] = "disabled" /\ op[t].kind = "insert"
      /\ MonitorType[m] = SourceType[op[t].arg]
      /\ Inside(t)
      /\ Goto(t, "added")
      /\ sources' = [sources EXCEPT ![m] = @ \cup {op[t].arg}]
      /\ sourceMonitor' = [sourceMonitor EXCEPT ![op[t].arg] = m]
      /\ UNCHANGED <<taskVars, queue, aemVars, onList, waitVars, shutdown, abortSignal, error,
                     events, clientVars, op, held, carried, broken, open, dying>>

(* Register_Source fails: the source is left open and not monitored, and   *)
(* nobody is told.                                                         *)
Register_Failure(t) ==
  /\ pc[t] = "disabled" /\ op[t].kind = "insert"
  /\ op[t].arg \in Failing
  /\ MonitorType[aemMonitor[op[t].slot]] = SourceType[op[t].arg]
  /\ Inside(t)
  /\ Goto(t, "enabling")
  /\ UNCHANGED <<taskVars, queue, aemVars, onList, waitVars, shutdown, sources, abortSignal,
                 error, events, clientVars, op, sourceVars>>

(* No monitor knows the source: one is created, the source is registered   *)
(* with it, and Event_Sources_Added puts it into the first free slot.  The *)
(* slot index is 0 when there is none.                                     *)
Create_Monitor(t) ==
  /\ pc[t] = "create"
  /\ Inside(t)
  /\ \E m \in Monitors :
       /\ \A J \in Slots : aemMonitor[J] # m
       /\ MonitorType[m] = SourceType[op[t].arg]
       /\ sources' = [sources EXCEPT ![m] = {op[t].arg}]
       /\ sourceMonitor' = [sourceMonitor EXCEPT ![op[t].arg] = m]
       /\ IF Monitor_Count < Maximum_Number_Of_Monitors
          THEN /\ aemMonitor' = [aemMonitor EXCEPT ![Monitor_Count + 1] = m]
               /\ op' = [op EXCEPT ![t].slot = Monitor_Count + 1]
               /\ Goto(t, "added")
               /\ UNCHANGED error
          ELSE /\ error' = "Constraint_Error"
               /\ UNCHANGED <<aemMonitor, op, pc>>
  /\ UNCHANGED <<taskVars, queue, aemTI, abortCounter, pollingScheduled, lastAEM, onList,
                 waitVars, shutdown, abortSignal, events, clientVars, held, carried, broken,
                 open, dying>>

(* Register_Source fails on the new monitor, which is then in no slot: the *)
(* final Enable_Polling uses slot index 0.                                 *)
Create_Failure(t) ==
  /\ pc[t] = "create"
  /\ op[t].arg \in Failing
  /\ Inside(t)
  /\ error' = "Constraint_Error"
  /\ UNCHANGED <<pc, taskVars, queue, aemVars, onList, waitVars, shutdown, sources,
                 abortSignal, events, clientVars, op, sourceVars>>

(* Event_Sources_Added, for a monitor that has its slot.                   *)
Event_Sources_Added(t) ==
  LET J == op[t].slot
  IN  /\ pc[t] = "added"
      /\ Inside(t)
      /\ Goto(t, "enabling")
      /\ IF aemTI[J] # None /\ ~pollingScheduled[J]
         THEN /\ pollingScheduled' = [pollingScheduled EXCEPT ![J] = TRUE]
              /\ Try_Allocate_One_Task(summary, TRUE)
         ELSE UNCHANGED <<pollingScheduled, idleVars, abortSignal, error>>
      /\ UNCHANGED <<taskVars, queue, aemMonitor, aemTI, abortCounter, lastAEM, pollWait,
                     downWait, shutdown, sources, events, clientVars, op, sourceVars>>

(* Unregister_Source; it does nothing for a source that is not monitored.  *)
Unregister_Source(t) ==
  LET m == aemMonitor[op[t].slot]
  IN  /\ pc[t] = "disabled" /\ op[t].kind = "delete"
      /\ Inside(t)
      /\ Goto(t, "enabling")
      /\ sources' = [sources EXCEPT ![m] = @ \ {op[t].arg}]
      /\ UNCHANGED <<taskVars, queue, aemVars, onList, waitVars, shutdown, abortSignal, error,
                     events, clientVars, op, sourceVars>>

(* The final Enable_Polling; a deleted source is destroyed, and a source   *)
(* that takes its name later is a new one.                                 *)
Source_Done(t) ==
  /\ pc[t] = "enabling"
  /\ Leave(t)
  /\ Goto(t, op[t].ret)
  /\ Enable_Polling(op[t].slot)
  /\ op' = [op EXCEPT ![t] = NoOp]
  /\ IF op[t].kind = "delete"
     THEN /\ open' = open \ {op[t].arg}
          /\ dying' = dying \ {op[t].arg}
          /\ broken' = broken \ {op[t].arg}
          /\ sourceMonitor' = [sourceMonitor EXCEPT ![op[t].arg] = None]
     ELSE UNCHANGED <<open, dying, broken, sourceMonitor>>
  /\ UNCHANGED <<taskVars, queue, aemVars, pollWait, downWait, shutdown, sources, events,
                 clientVars, held, carried>>

----------------------------------------------------------------------------
(* Shutdown                                                                *)

(* Shutdown: the ORB_Shutdown event, then Wait_For_Completion if asked to. *)
Shutdown(a, waitForCompletion) ==
  /\ pc[a] = "out"
  /\ Locked(a)
  /\ shutdown' = TRUE
  /\ onList' = {}
  /\ idleWait' = idleWait \ onList
  /\ abortSignal' = Abort_Check_Sources
                      (abortSignal, {selector[aemTI[J]] : J \in {K \in Slots : aemTI[K] # None}})
  /\ IF waitForCompletion /\ Get_Count(summary, "Any", "Any") > 0
     THEN Goto(a, "completing") /\ downWait' = downWait \cup {a}
     ELSE UNCHANGED <<pc, downWait>>
  /\ UNCHANGED <<taskVars, queue, aemVars, pollWait, sources, error, events, clientVars, op,
                 sourceVars>>

(* Wait_For_Completion checks the number of tasks again.                   *)
Completion_Return(a) ==
  /\ pc[a] = "completing"
  /\ a \notin downWait
  /\ Locked(a)
  /\ IF Get_Count(summary, "Any", "Any") > 0
     THEN downWait' = downWait \cup {a} /\ UNCHANGED pc
     ELSE Goto(a, "out") /\ UNCHANGED downWait
  /\ UNCHANGED <<taskVars, queue, aemVars, onList, idleWait, pollWait, shutdown, sources,
                 abortSignal, error, events, clientVars, op, sourceVars>>

----------------------------------------------------------------------------
(* Asynchronous abort of a client thread whose request timed out           *)

(* The abort takes the thread out of what it is doing outside the critical *)
(* section; Finalize clears Requesting_Task before it takes the lock.      *)
Abort_Run(t) ==
  /\ t \in Timed
  /\ pc[t] \in {"running", "blocked", "polled", "idle"}
  /\ Goto(t, "aborting")
  /\ requesting' = [requesting EXCEPT ![t] = FALSE]
  /\ idleWait' = idleWait \ {t}
  /\ events' = [events EXCEPT ![t] = {}]
  /\ job' = [job EXCEPT ![t] = None]
  /\ held' = [held EXCEPT ![t] = None]
  /\ UNCHANGED <<lock, state, summary, selector, queue, aemVars, onList, pollWait, downWait,
                 shutdown, sources, abortSignal, error, conn, completed, op, open, dying,
                 sourceMonitor, carried, broken>>

(* Mutants: the controller is not told that the task no longer polls, or   *)
(* that it is no longer idle.                                              *)
Leave_State_M1(t) == onList' = onList \ {t} /\ UNCHANGED <<aemTI, pollWait>>
Leave_State_M2(t) ==
  /\ UNCHANGED onList
  /\ IF state[t] = "Blocked"
     THEN \E J \in Index(selector[t]) : Polling_Ended(J)
     ELSE UNCHANGED <<aemTI, pollWait>>

(* What Terminate_Task notifies: Idle_Awake for an idle task,              *)
(* End_Of_Check_Sources for a blocked one.                                 *)
Leave_State(t) ==
  /\ onList' = onList \ {t}
  /\ IF state[t] = "Blocked"
     THEN \E J \in Index(selector[t]) : Polling_Ended(J)
     ELSE UNCHANGED <<aemTI, pollWait>>

(* A request of which the session has no entry any more, as it has been    *)
(* completed, or may have none: the job of its connection is about to      *)
(* complete it.                                                            *)
Forgotten(r) == completed[r]

Being_Forgotten(r) ==
  \E t \in Tasks : /\ job[t] \in Sources /\ job[t] = conn[r]
                   /\ held[t] = None \/ held[t] \in broken

(* Finalize sends Abort_Request to the surrogate, the session, which takes *)
(* the request out of its table and raises an exception when it is not     *)
(* there: the task is neither terminated nor unregistered.                 *)
Abort_Request_Fails(t) ==
  /\ t \in Timed
  /\ pc[t] = "aborting"
  /\ Forgotten(t) \/ Being_Forgotten(t)
  /\ Enter(t)
  /\ error' = "GIOP_Error"
  /\ UNCHANGED <<pc, taskVars, queue, aemVars, onList, waitVars, shutdown, sources,
                 abortSignal, events, clientVars, op, sourceVars>>

(* Finalize, where the session has forgotten the request at the order of   *)
(* Abort_Request: no reply is matched with it any more, which is what the  *)
(* reset of conn in Unregister_Task says.  The lock is kept up to there.   *)
Terminate_Task(t) ==
  /\ pc[t] = "aborting"
  /\ ~Forgotten(t)
  /\ Enter(t)
  /\ Goto(t, "leaving")
  /\ Set_State(t, "Terminated")
  /\ Leave_State(t)
  /\ UNCHANGED <<job, selector, queue, aemMonitor, abortCounter, pollingScheduled, lastAEM,
                 idleWait, downWait, shutdown, sources, abortSignal, error, events, clientVars,
                 op, sourceVars>>

----------------------------------------------------------------------------
Schedule_Task(t) ==
  \/ Schedule_Terminated(t) \/ Schedule_Exit(t) \/ Schedule_Job(t)
  \/ Schedule_Poll(t) \/ Schedule_Idle(t)

(* Steps of the main loop that a task takes while it holds the lock or     *)
(* leaves it, and those that wait for the lock.                            *)
Task_Inside(t) ==
  \/ Schedule_Task(t) \/ Unregister_Task(t)
  \/ Idle_Terminate(t) \/ Idle_Wait(t)
  \/ (\E s \in Sources : Queue_Event_Job(t, s)) \/ End_Of_Check_Sources(t)

Task_Enter(t) ==
  \/ Run(t) \/ Idle_Return(t) \/ Reenter(t) \/ Terminate_Task(t)
  \/ Abort_Request_Fails(t) \/ Job_Completed(t)

Call_Inside(t) ==
  \/ Disable_Polling(t) \/ Register_Unknown(t)
  \/ Register_Source(t) \/ Register_Failure(t) \/ Create_Monitor(t)
  \/ Create_Failure(t)
  \/ Event_Sources_Added(t) \/ Unregister_Source(t) \/ Source_Done(t)

Call_Enter(t) == Delete_Source(t) \/ Delete_Unmonitored(t) \/ Disable_Return(t)

(* What the rest of the program may do at any time.                        *)
Job_Calls(t) ==
  \/ \E u \in Upcalls : Queue_Request_Job(t, u)
  \/ \E r \in Transient : Executed_Request(t, r)
  \/ Disconnect(t)

Source_Calls(t) == \E s \in Sources : Insert_Source(t, s) \/ Finalize_Endpoint(t, s)

Next ==
  /\ error = "none"
  /\ \/ \E t \in Tasks :
          \/ Task_Inside(t) \/ Task_Enter(t) \/ Job_Calls(t) \/ Request_Result_Ready(t)
          \/ Check_Sources(t) \/ Check_Sources_Aborted(t)
     \/ \E t \in Threads : Call_Inside(t) \/ Call_Enter(t) \/ Source_Calls(t)
     \/ \E t \in Transient : Invoke(t) \/ Abort_Run(t)
     \/ \E a \in Closers :
          \/ \E w \in BOOLEAN : Shutdown(a, w)
          \/ Completion_Return(a)

Spec == Init /\ [][Next]_vars

(* A job that reads a source goes on to have it monitored again, or, once  *)
(* disconnected, to complete the requests that wait for it.                *)
Job_Progress(t) ==
  \/ \E s \in Sources : Holds(t, s) /\ Insert_Source(t, s)
  \/ \E r \in Transient : held[t] # None /\ Executed_Request(t, r)

(* Threads do not stop inside the ORB, the ORB lock serves its callers in  *)
(* order (strong fairness), jobs end, and an aborted selector returns.     *)
Fairness ==
  /\ \A t \in Tasks :
       /\ WF_vars(Task_Inside(t)) /\ SF_vars(Task_Enter(t)) /\ SF_vars(Job_Progress(t))
       /\ WF_vars(Check_Sources_Aborted(t)) /\ WF_vars(Request_Result_Ready(t))
  /\ \A t \in Threads : WF_vars(Call_Inside(t)) /\ SF_vars(Call_Enter(t))
  /\ \A a \in Closers : SF_vars(Completion_Return(a))

FairSpec == Spec /\ Fairness

----------------------------------------------------------------------------
(* Invariants                                                              *)

Locations ==
  {"unborn", "out", "requested", "schedule", "goidle", "idle", "leaving", "running",
   "blocked", "polled", "queueing", "notifying", "create", "disable", "disabling",
   "disabled", "added", "enabling", "deleting", "completing", "aborting"}

Operation ==
  [kind : {"none", "notify", "insert", "delete"},
   arg  : Sources \cup Transient \cup {None},
   slot : 0 .. Maximum_Number_Of_Monitors + 1,
   last : 0 .. Maximum_Number_Of_Monitors,
   ret  : {"out", "running"}]

(* Every variable has its type.                                            *)
TypeOK ==
  /\ lock \in Threads \cup {None}
  /\ pc \in [Threads -> Locations]
  /\ state \in [Tasks -> Task_State \cup {"none"}]
  /\ summary \in Task_Summary
  /\ queue \in Seq(Jobs)
  /\ job \in [Tasks -> Jobs \cup {None}]
  /\ selector \in [Tasks -> Monitors \cup {None}]
  /\ aemMonitor \in [Slots -> Monitors \cup {None}]
  /\ aemTI \in [Slots -> Tasks \cup {None}]
  /\ abortCounter \in [Slots -> Int]
  /\ pollingScheduled \in [Slots -> BOOLEAN]
  /\ lastAEM \in Slots
  /\ onList \subseteq Tasks
  /\ idleWait \subseteq Tasks
  /\ pollWait \in [Slots -> SUBSET Threads]
  /\ downWait \subseteq App
  /\ shutdown \in BOOLEAN
  /\ sources \in [Monitors -> SUBSET Sources]
  /\ abortSignal \in [Monitors -> 0 .. AbortCap]
  /\ error \in {"none", "Program_Error", "Constraint_Error", "GIOP_Error"}
  /\ events \in [Tasks -> SUBSET Sources]
  /\ conn \in [Transient -> Sources \cup {None}]
  /\ completed \in [Transient -> BOOLEAN]
  /\ requesting \in [Transient -> BOOLEAN]
  /\ op \in [Threads -> Operation]
  /\ held \in [Tasks -> Sources \cup {None}]
  /\ carried \in [Upcalls -> Sources \cup {None}]
  /\ broken \subseteq Sources
  /\ open \subseteq Sources
  /\ dying \subseteq Sources
  /\ sourceMonitor \in [Sources -> Monitors \cup {None}]

Counted(k, s) ==
  {t \in Tasks : /\ state[t] # "none"
                 /\ Kind_Match(Kind(t), k)
                 /\ s \in {"Any", state[t]}}

(* The task summary counts exactly the registered tasks, in every row and  *)
(* column.                                                                 *)
SummaryExact ==
  \A k \in Any_Task_Kind, s \in Any_Task_State :
    Get_Count(summary, k, s) = Cardinality(Counted(k, s))

(* The task is between Schedule_Task and End_Of_Check_Sources of a poll.   *)
Polls(t) == state[t] = "Blocked" /\ pc[t] \in {"blocked", "polled", "queueing", "aborting"}

(* The TI of a slot is the task that polls the monitor of the slot, and a  *)
(* task that polls is the TI of a slot: the invariant that the comment on  *)
(* AEM_Infos asks of this controller, that TI points to the valid task     *)
(* info of a Blocked task.                                                 *)
SlotNamesPoller ==
  /\ \A J \in Slots : aemTI[J] # None =>
       Polls(aemTI[J]) /\ selector[aemTI[J]] = aemMonitor[J]
  /\ \A t \in Tasks : Polls(t) => \E J \in Slots : aemTI[J] = t

(* A thread waits in Disable_Polling only for a task that is polling, and  *)
(* Polling_Abort_Counter is the number of threads that have not returned   *)
(* from that wait.                                                         *)
WaitsForPoller ==
  \A J \in Slots :
    /\ pollWait[J] # {} => aemTI[J] # None
    /\ abortCounter[J] = Cardinality({t \in Threads : pc[t] = "disabling" /\ op[t].slot = J})

(* A task that sleeps is attached to the list where Awake_One_Idle_Task    *)
(* finds it, and a task found there is idle: about to sleep, asleep or     *)
(* being aborted.                                                          *)
SleepersOnList ==
  /\ idleWait \subseteq onList
  /\ \A t \in onList :
       state[t] = "Idle" /\ (pc[t] \in {"goidle", "aborting"} \/ t \in idleWait)

(* No exception is raised inside the critical section: no task is          *)
(* rescheduled in a state that Reschedule_Task excludes, no null task is   *)
(* notified, no null monitor is dereferenced, no slot index is 0 and the   *)
(* finalization of an aborted task is not cut short.                       *)
NoException == error = "none"

(* The step in which thread t raises an exception inside the critical      *)
(* section: it notifies the client of a completed request, which is being  *)
(* aborted; it is an aborted client whose request is completed, or about   *)
(* to be by a job of its connection; it registers or closes a source whose *)
(* registration fails; it creates a monitor when all slots are taken.      *)
Exception_Cause(t) ==
  \/ pc[t] = "notifying" /\ pc[op[t].arg] = "aborting"
  \/ /\ pc[t] = "aborting"
     /\ completed[t] \/ \E u \in Tasks : job[u] \in Sources /\ job[u] = conn[t]
  \/ pc[t] \in {"create", "deleting"} /\ op[t].arg \in Failing
  \/ pc[t] = "create" /\ Monitor_Count = Maximum_Number_Of_Monitors

Places(s) ==
  {<<"monitor", m>> : m \in {n \in Monitors : s \in sources[n]}}
  \cup {<<"event", t>> : t \in {u \in Tasks : s \in events[u]}}
  \cup {<<"queue", i>> : i \in {k \in 1 .. Len(queue) : queue[k] = s}}
  \cup {<<"job", t>> : t \in {u \in Tasks : held[u] = s}}
  \cup {<<"request", j>> : j \in {u \in Upcalls : carried[u] = s}}
  \cup {<<"call", t>> : t \in {u \in Threads : /\ op[u].kind = "insert" /\ op[u].arg = s
                                               /\ pc[u] \in {"create", "disable", "disabling",
                                                             "disabled"}}}

(* A source that was handed to the ORB is never lost and never duplicated  *)
(* on its way from the source list through Check_Sources, the job queue    *)
(* and the jobs back to Insert_Source; one that is disconnected or being   *)
(* closed, or whose registration may fail, may be nowhere.                 *)
SourceAccounted ==
  \A s \in open :
    \/ Cardinality(Places(s)) = 1
    \/ s \in dying \cup broken \cup Failing /\ Places(s) = {}

(* Delete_Source destroys a source that no list, event array, queue or job *)
(* refers to.                                                              *)
NoDanglingSource == \A s \in Sources : Places(s) # {} => s \in open

(* A source list is modified only for a monitor that the controller knows, *)
(* and so can have polled.                                                 *)
MonitoredIsKnown ==
  lock = None => \A m \in Monitors : Has_Sources(m) => Index(m) # {}

(* The task is on its way to Schedule_Task without anybody's help.         *)
About_To_Schedule(t) ==
  \/ pc[t] \in {"schedule", "polled", "queueing", "goidle", "leaving"}
  \/ pc[t] = "idle" /\ t \notin idleWait
  \/ pc[t] = "blocked" /\ abortSignal[selector[t]] > 0
  \/ state[t] = "Running"

(* No lost wakeup for jobs: a task does not sleep while a job that it may  *)
(* run is queued, unless some task is about to look at the queue.          *)
NoLostJob ==
  \A t \in idleWait :
     Some_Schedulable_Job(t) => \E u \in Tasks : About_To_Schedule(u)

(* No lost wakeup for polling: outside the critical section, a task does   *)
(* not sleep while a monitor needs polling, unless some task is about to   *)
(* see it.                                                                 *)
NoLostPoll ==
  lock = None /\ idleWait # {} /\ (\E J \in Slots : Needs_Polling(J)) =>
     \E u \in Tasks : About_To_Schedule(u)

(* Idle keeps at most Maximum_Spare_Threads idle tasks when every          *)
(* permanent task is one of the pool's.                                    *)
SpareBound == Permanent \subseteq MayExit => Cardinality(idleWait \cap Permanent) <= MaxSpare

----------------------------------------------------------------------------
(* Action and liveness properties                                          *)

(* A source list changes under a task that is in Check_Sources only        *)
(* because that task itself returns from it: Disable_Polling protects the  *)
(* list although the lock is not held while polling.                       *)
SourceListStable ==
  [][\A t \in Tasks :
       pc[t] = "blocked" /\ sources'[selector[t]] # sources[selector[t]]
         => pc'[t] = "polled"]_vars

(* Every exception inside the critical section has one of these causes; no *)
(* abort, failure or shutdown makes Request_Result_Ready, Enable_Polling or*)
(* Try_Allocate_One_Task reschedule a task that is leaving or has left.    *)
ExceptionExplained ==
  [][error' # error => \E t \in {lock, lock'} \cap Threads : Exception_Cause(t)]_vars

(* Shutdown with Wait_For_Completion returns with no job pending.          *)
ShutdownDrains ==
  [][\A a \in Closers : pc[a] = "completing" /\ pc'[a] = "out" => ~Has_Pending_Job]_vars

(* A client whose request is completed leaves the ORB, whatever it was     *)
(* doing there.                                                            *)
RequestReturns == \A t \in Transient : (requesting[t] /\ completed[t]) ~> pc[t] = "out"

(* A thread that waits in Disable_Polling gets the polling task out of     *)
(* Check_Sources and goes on.                                              *)
DisableReturns == \A t \in Threads : (pc[t] = "disabling") ~> (pc[t] = "disabled")

(* After Shutdown, all threads of the pool end.                            *)
ShutdownEnds == shutdown ~> (\A p \in MayExit : pc[p] = "unborn")

(* Wait_For_Completion returns, unless a client is inside the ORB: one     *)
(* whose request is never answered keeps it waiting.                       *)
CompletionReturns ==
  \A a \in Closers :
    (pc[a] = "completing") ~>
      (pc[a] = "out" \/ \E t \in Transient : pc[t] # "out")
=============================================================================
