--------------------------- MODULE OrbController ---------------------------
(***************************************************************************)
(* The state every ORB controller shares (PolyORB.ORB_Controller), and the *)
(* operations of the root controller, of Idle_Tasks_Managers, of the       *)
(* asynchronous event monitors (Asynch_Ev) and of the job queue (Jobs)     *)
(* that the concrete control policies are built from.                      *)
(*                                                                         *)
(* Everything between Enter_ORB_Critical_Section and the next release of   *)
(* the lock is executed by the thread that `lock` names.  The condition    *)
(* variables are modelled by the sets of threads waiting on them: a wait   *)
(* puts the thread into the set and frees the lock in one step             *)
(* (Release_Then_Wait), a signal or broadcast takes threads out of it, and *)
(* a thread taken out goes on when it gets the lock again.                 *)
(***************************************************************************)
EXTENDS TaskInfo, Sequences, FiniteSets

CONSTANTS
  Permanent,     \* threads that call ORB.Run without a request
  Transient,     \* client threads: each runs the ORB until its request completes
  App,           \* application threads that use the ORB and never run its loop
  Sources,       \* asynchronous event sources (transport endpoints, access points)
  Monitors,      \* the asynchronous event monitors that may be created
  ServerSide,    \* sources whose session has the Server role
  Upcalls,       \* request jobs received from remote clients
  SourceType,    \* the type of each source: the kind of monitor that accepts it
  MonitorType,   \* the type of each monitor
  Started,       \* permanent threads that exist when the ORB starts
  MayExit,       \* permanent threads run with May_Exit (pool threads)
  Timed,         \* transient threads whose request has a timeout
  Callers,       \* threads whose own code opens and closes connections
  Closers,       \* application threads that may shut the ORB down
  Failing,       \* sources whose registration with a monitor may fail
  MaxThreads, MinSpare, MaxSpare,  \* the thread pool's configuration
  AbortCap,      \* bound: pending selector aborts counted per monitor
  None

Tasks   == Permanent \cup Transient
Threads == Tasks \cup App
Jobs    == Sources \cup Upcalls

Maximum_Number_Of_Monitors == 2
Slots == 1 .. Maximum_Number_Of_Monitors

ASSUME ThreadsAssumption ==
  /\ Permanent \cap Transient = {} /\ Tasks \cap App = {} /\ None \notin Threads
  /\ Started \subseteq Permanent /\ MayExit \subseteq Permanent /\ Timed \subseteq Transient
  /\ Callers \subseteq Threads /\ Closers \subseteq App
ASSUME FiniteAssumption == IsFiniteSet(Threads)
ASSUME JobsAssumption ==
  ServerSide \subseteq Sources /\ Sources \cap Upcalls = {} /\ None \notin Jobs \cup Monitors
ASSUME PoolAssumption ==
  /\ MaxThreads \in Nat /\ MinSpare \in Nat /\ MaxSpare \in Nat
  /\ MaxThreads >= MaxSpare /\ MaxSpare >= MinSpare
ASSUME AbortCapAssumption == AbortCap \in Nat \ {0}

VARIABLES
  lock,              \* holder of the ORB critical section, or None
  pc,                \* where each thread is
  state,             \* state of the Task_Info of each task; "none" outside Run
  summary,           \* O.Summary
  queue,             \* O.Job_Queue
  job,               \* Task_Info.Job
  selector,          \* Task_Info.Selector
  aemMonitor,        \* AEM_Infos (J).Monitor
  aemTI,             \* AEM_Infos (J).TI
  abortCounter,      \* AEM_Infos (J).Polling_Abort_Counter
  pollingScheduled,  \* AEM_Infos (J).Polling_Scheduled
  lastAEM,           \* O.Last_Monitored_AEM
  onList,            \* tasks attached to a list of the idle tasks manager
  idleWait,          \* tasks waiting on their idle condition variable
  pollWait,          \* threads waiting on AEM_Infos (J).Polling_Completed
  downWait,          \* threads waiting on Shutdown_CV
  shutdown,          \* O.Shutdown
  sources,           \* the source list of each monitor
  abortSignal,       \* aborts posted to a monitor's selector and not consumed
  error              \* exception raised inside the ORB critical section, if any

idleVars == <<onList, idleWait>>
aemVars  == <<aemMonitor, aemTI, abortCounter, pollingScheduled, lastAEM>>

Kind(t) == IF t \in Permanent THEN "Permanent" ELSE "Transient"

(* Set_State_*: the state and the summary change together.                 *)
Set_State(t, new) ==
  /\ state' = [state EXCEPT ![t] = new]
  /\ summary' = Task_State_Change(summary, Kind(t), state[t], new)

----------------------------------------------------------------------------
(* PolyORB.Jobs and the job predicates of the controller                   *)

Is_Upcall(j) == j \in Upcalls

Queue_Job(j) == queue' = Append(queue, j)

Has_Pending_Job == queue # <<>>

(* Mutant: the job that was fetched stays in the queue.                     *)
Without_M1(q, i) == q

Without(q, i) == SubSeq(q, 1, i - 1) \o SubSeq(q, i + 1, Len(q))

(* Fetch_Job with a selector: i is the first job of the queue that the     *)
(* selector accepts.                                                       *)
Fetch_Job(i, accepted) ==
  /\ i \in 1 .. Len(queue)
  /\ queue[i] \in accepted
  /\ \A k \in 1 .. (i - 1) : queue[k] \notin accepted

----------------------------------------------------------------------------
(* PolyORB.Asynch_Ev: the selector remembers an abort that arrives while   *)
(* nobody is blocked on it, and gives it to the next Check_Sources.        *)

Has_Sources(m) == sources[m] # {}

(* Mutant: the selector is not aborted.                                    *)
Abort_Check_Sources_M1(signals, M) == signals

Abort_Check_Sources(signals, M) ==
  [m \in Monitors |->
     IF m \in M /\ signals[m] < AbortCap THEN signals[m] + 1 ELSE signals[m]]

----------------------------------------------------------------------------
(* PolyORB.Tasking.Idle_Tasks_Managers.  The lists keep their order, most  *)
(* recent first; which of the tasks of a kind is awakened is left open.    *)

(* Mutant: the task is taken off its list and not signalled.               *)
Awake_Idle_Task_M1(t) ==
  /\ onList' = onList \ {t}
  /\ UNCHANGED idleWait

Awake_Idle_Task(t) ==
  /\ onList' = onList \ {t}
  /\ idleWait' = idleWait \ {t}

Awakable(allowTransient) ==
  IF onList \cap Permanent # {} THEN onList \cap Permanent
  ELSE IF allowTransient THEN onList \cap Transient ELSE {}

----------------------------------------------------------------------------
(* PolyORB.ORB_Controller                                                  *)

(* The index of monitor m in AEM_Infos.                                    *)
Index(m) == {J \in Slots : aemMonitor[J] = m}

(* Mutants: an off-by-one; a count that never grows.                       *)
Monitor_Count_M1 == IF aemMonitor[1] = None THEN -1 ELSE IF aemMonitor[2] = None THEN 0 ELSE 1
Monitor_Count_M2 == 0

(* The slots are filled in order: Get_Monitors returns the first ones.     *)
Monitor_Count == IF aemMonitor[1] = None THEN 0 ELSE IF aemMonitor[2] = None THEN 1 ELSE 2

(* Mutant: polling starts again while threads wait in Disable_Polling.     *)
Needs_Polling_M1(J) ==
  aemMonitor[J] # None /\ Has_Sources(aemMonitor[J]) /\ aemTI[J] = None

Needs_Polling(J) ==
  /\ aemMonitor[J] # None
  /\ Has_Sources(aemMonitor[J])
  /\ abortCounter[J] = 0
  /\ aemTI[J] = None

(* J is the slot that Need_Polling_Task returns: the first one that needs  *)
(* polling and is not the last one polled, else the last one polled.       *)
Need_Polling_Task(J) ==
  /\ Needs_Polling(J)
  /\ \A K \in Slots : Needs_Polling(K) /\ K # J =>
       /\ J # lastAEM
       /\ K = lastAEM \/ K > J

(* Reschedule_Task: the task is left to finish its job, unblocked or       *)
(* awakened; any other state is an error.                                  *)
Reschedule_Task(t) ==
  \/ /\ state[t] = "Running"
     /\ UNCHANGED <<idleVars, abortSignal, error>>
  \/ /\ state[t] = "Blocked"
     /\ abortSignal' = Abort_Check_Sources(abortSignal, {selector[t]})
     /\ UNCHANGED <<idleVars, error>>
  \/ /\ state[t] = "Idle"
     /\ Awake_Idle_Task(t)
     /\ UNCHANGED <<abortSignal, error>>
  \/ /\ state[t] \in {"Terminated", "Unscheduled"}
     /\ error' = "Program_Error"
     /\ UNCHANGED <<idleVars, abortSignal>>

(* Slots whose polling task is of the requested kind.                      *)
Polled_By(kind) ==
  {J \in Slots : aemTI[J] # None /\ Kind_Match(Kind(aemTI[J]), kind)}

(* Try_Allocate_One_Task, with c the task summary at the time of the call. *)
Try_Allocate_One_Task(c, allowTransient) ==
  LET kind == IF allowTransient THEN "Any" ELSE "Permanent"
  IN  IF Get_Count(c, kind, "Unscheduled") > 0
      THEN UNCHANGED <<idleVars, abortSignal, error>>
      ELSE IF Get_Count(c, kind, "Idle") > 0 /\ Awakable(allowTransient) # {}
      THEN /\ \E t \in Awakable(allowTransient) : Awake_Idle_Task(t)
           /\ UNCHANGED <<abortSignal, error>>
      ELSE IF Get_Count(c, "Permanent", "Running") > 0
      THEN UNCHANGED <<idleVars, abortSignal, error>>
      ELSE IF Get_Count(c, kind, "Blocked") > 0 /\ Polled_By(kind) # {}
      THEN \E J \in Polled_By(kind) :
             /\ \A K \in Polled_By(kind) : J <= K
             /\ Reschedule_Task(aemTI[J])
      ELSE UNCHANGED <<idleVars, abortSignal, error>>
=============================================================================
