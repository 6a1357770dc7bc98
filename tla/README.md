# A verification project for PolyORB's concurrent core

PolyORB is a polymorphic middleware written in Ada: application personalities
(CORBA, DSA, MOMA, ...) and protocol personalities (GIOP, SOAP, SRP) share a
*neutral core*. The heart of that core is a multi-threaded main loop,
`PolyORB.ORB.Run`, in which any number of threads poll event sources, run jobs
and sleep, as directed by an *ORB controller*. Everything a partition does (accept
connections, receive requests, run servants, receive replies) goes through that
loop, and most of what can go wrong in it takes the steps of several threads. Beside
the Ada core the repository holds C and C++ programs: the CORBA interoperability
tests, which run foreign ORBs against PolyORB, and the tool that runs commands
for the test suite. This directory holds TLA+ modules that model these parts, TLC
configurations that check small instances, and TLAPS proofs of properties of
instances of any size.

Source references are relative to the root of the repository.

## 1. Inventory

### Components, their state, their operations

| Component | Source | State | Operations | What makes it correct |
|---|---|---|---|---|
| ORB main loop | `src/polyorb-orb.adb` | a `Task_Info` per running thread, the `Requesting_Task` of a request | `Run`, `Perform_Work`, `Try_Check_Sources`, `Shutdown`, `Handle_Message`, `Queue_Request_To_Handler` | a request that completes lets its client out; nobody sleeps on work |
| Source management | `src/polyorb-orb.adb` 850-1010 | `AES.Monitor` | `Insert_Source`, `Delete_Source`, `Modify_Source` | source lists do not change under a polling task; no source is lost |
| ORB controller | `src/polyorb-orb_controller.adb` | lock, job queue, task summary, idle tasks, `AEM_Infos`, shutdown flag | register/unregister/terminate/reschedule a task, allocate a task, wait for completion | its tables agree with what the threads do |
| Workers policy | `src/polyorb-orb_controller-workers.adb` | - | `Notify_Event`, `Schedule_Task`, `Disable_Polling`, `Enable_Polling` | no lost wakeup; polling stops when asked to |
| Leader/Followers, Half Sync/Half Async, No_Tasking | `src/polyorb-orb_controller-*.adb` | leader, dispatch tables, polling threads | same interface | same |
| Task_Info | `src/polyorb-task_info.adb` | counters by kind and state | state changes | the counters are exact |
| Idle tasks manager | `src/polyorb-tasking-idle_tasks_managers.adb` | two lists of idle tasks, free condition variables | insert, remove, awake | sleepers can be found |
| Jobs | `src/polyorb-jobs.adb` | queue | `Queue_Job`, `Fetch_Job` | FIFO among accepted jobs |
| Event monitors | `src/polyorb-asynch_ev-sockets.adb` | source list, selector | register, unregister, check, abort | an abort is never lost |
| Tasking policies | `src/polyorb-orb-thread_pool.adb`, `-thread_per_session.adb`, `-thread_per_request.adb` | pool sizes, session queues | `Idle`, `Handle_Request_Execution`, ... | thread counts stay within their limits |
| Transport, binding objects, smart pointers | `src/polyorb-transport*.adb`, `src/polyorb-binding_objects.adb`, `src/polyorb-smart_pointers.adb`, `src/polyorb-references-binding.adb` | endpoints, reference counts, the ORB's list of binding objects | bind, accept, handle an event, close, finalize, reuse | counts are exact; an object is finalized once, after its last use, and never reused afterwards |
| Requests | `src/polyorb-requests.adb` | `Completed`, timeout | `Invoke` | returns exactly when completed or timed out |
| GIOP sessions | `src/giop/polyorb-protocols-giop*.adb` | pending requests, role, receive state | send and receive messages, disconnect | each pending request is completed once |
| POA, object maps, POA managers | `src/polyorb-poa*.adb`, `src/polyorb-object_maps*.adb` | active object map, manager state, held requests | activate, deactivate, hold, discard | held requests are executed or discarded |
| DSA termination, shared memory | `src/dsa/` | waves, page tables | termination rounds, DSM protocol | no early termination; coherence |
| Tasking primitives | `src/polyorb-tasking-*.adb` | mutexes, RW locks | lock, wait | exclusion, no starvation |
| C++ interoperability tests | `testsuite/corba/interop/cpp/` | attributes of the servant, each client's checks and verdict | serve `all_types`, run the tests, report | a verdict stands for all the checks; a failure has a known cause; clients end |
| `rungroup` | `utils/rungroup.c` | `sig`, `status`, a process group | run a command, forward its status, kill the group | the status is the command's; a signal kills the group |
| OpenSSL bindings, platform support | `src/security/`, `src/ssl/polyorb_ssl.c`, `src/csupport.c` | none of their own | wrap library calls | that of the libraries |
| MOMA, buffers, CDR, filters, personalities, services, compilers | `src/moma/`, `src/corba/`, `cos/`, `compilers/` | | | sequential, or applications of the core |

`PROJECT.json` lists each of them with its status.

### How the components interact

A thread enters `Run`, registers with the controller and loops: `Schedule_Task`
(under the ORB lock) gives it a state, and it runs a job (`Perform_Work`, lock
released), polls a monitor (`Try_Check_Sources`, lock released) or sleeps on a
condition variable (`Idle` of the tasking policy, lock released). A poll that
returns takes the ready sources off the monitor's list and queues one event job
per source. An event job reads the source and calls back: it has the endpoint
monitored again (`Insert_Source`), queues a request job (server side), or
completes a request (client side) and notifies the client's task
(`Request_Result_Ready`). The source list of a monitor is not protected by the
lock during a poll; instead `Disable_Polling` aborts the poll and waits for its end.
Permanent threads belong to the pool; transient threads are clients waiting for
a reply, which work for the whole ORB meanwhile, except for running request jobs.
A request with a timeout runs `Run` inside `select ... then abort`, so that the
client may be torn out of the loop.

A connection belongs to a *binding object*, which is reference counted. A client
that binds a reference looks for an object of the same node in the ORB's list
(`Get_Binding_Objects`) and reuses it, or connects and adds a new one. An accepted
connection's endpoint refers to its own object. An event that has been polled takes a
reference for the time of its job (`Stabilize`), a request in progress another.
Whoever drops the last reference finalizes the object: out of the list, endpoint
closed, memory freed.

An interoperability server publishes its reference, activates its POA manager and runs
upcalls on the threads of its ORB; client processes call it, print one line per
check and the line `END TESTS`. `rungroup` puts a command into a process group and waits
for its end or for a signal.

### What is hard

Wakeups that race with threads going to sleep or leaving; a poll abort that races
with the poll's return; snapshots taken before the lock is given up in
`Disable_Polling`; asynchronous aborts; the last reference to an endpoint going
while an event for it has been taken or a client finds it in the list; a signal
handler that interrupts another handler, or runs between a test and the `pause` that
follows; an unsynchronized counter; calls that arrive before the server is ready or
after it died; fixed-size tables; thread counts that lag
behind the threads; shutdown while work arrives. `PROJECT.json` lists these
hazards at their lines, with the properties that would show them going wrong.

## 2. Modules

| Module | Contents |
|---|---|
| `TaskInfo` | kinds, states and the summary table of `PolyORB.Task_Info` |
| `OrbController` | constants with their assumptions, the controller's variables, and the operations policies are built from: job queue, selector aborts, idle tasks, slots, `Need_Polling_Task`, `Reschedule_Task`, `Try_Allocate_One_Task` |
| `OrbWorkers` | the whole: the main loop and the source operations under the Workers policy and the thread pool, one action per critical section or per step outside one; the properties |
| `MCOrbWorkers` | names and types for TLC's instances, symmetry |
| `OrbWorkersProofs` | types, mutual exclusion and the idle list, proved |
| `PollingProofs` | the polling protocol and the stability of source lists, proved |
| `SummaryProofs` | the task summary and the bound on spare threads, proved |
| `SourceProofs` | the way of sources through lists, event arrays, queue, jobs and calls, and that none is lost or duplicated on it, proved |
| `WakeupProofs` | that nobody sleeps over work, that the critical section raises no exception, and that shutdown leaves no job, proved with the conditions each needs |
| `BindingObjects` | binding objects: counters, list, endpoints and handlers, one action per atomic access or critical section |
| `SharedObjects` | what reference counting promises, abstractly: acquired only while somebody uses it, destroyed once, after the last use, and then in the end |
| `BindingObjectsProofs` | the counters, the list and the safety part of the refinement, proved |
| `AllTypes` | the operations of the interoperability servants: `all_types_i` and the two `MyDynImpl::invoke` |
| `Interop` | the servers' mains, the ORB between, the three client programs, their checks and reports; the properties |
| `MCInterop` | the builds of the clients for TLC's instance |
| `InteropProofs` | types, the servant's references, what one server thread guarantees, the causes of failures and the completeness of verdicts, proved |
| `RunGroup` | `rungroup.c`, one action per system call and per half of `hndcld`, with the kernel's signals |
| `RunGroupProofs` | types, the exit status and the cause of an abort, proved |

### State and actions against the code

* `lock` is the ORB critical section and `pc` the place of each thread. A thread
  that keeps the lock from one action to the next is at one of the places that
  `Critical` names in `OrbWorkersProofs`. A critical section is
  cut into several actions only where the code gives up the lock in the middle
  (`Disable_Polling`, `Idle`) or where an early return or a loop makes separate
  cases clearer; nobody else can act inside it in either case.
* `state`, `summary`, `job`, `selector` are the fields of `Task_Info` and the
  controller's summary. A state change and its count are one step (`Set_State`).
* `aemMonitor`, `aemTI`, `abortCounter`, `pollingScheduled`, `lastAEM` are
  `AEM_Infos` and `Last_Monitored_AEM`.
* `onList`, `idleWait`, `pollWait`, `downWait` are the idle lists and the threads
  waiting on condition variables. A wait puts the thread into the set and frees
  the lock in one step; a signalled thread goes on once it gets the lock again.
* `sources`, `abortSignal` are a monitor's list and the aborts its selector
  remembers. A GNAT.Sockets selector is external: an abort that finds nobody
  blocked ends the next `Check_Sources`. At most `AbortCap` are remembered.
* `events`, `held`, `carried`, `broken`, `open`, `dying`, `sourceMonitor` follow a
  source from the list through `Check_Sources`, the queue and its job back to
  the list; `op` is the source operation a thread is in the middle of.
* `conn`, `completed`, `requesting` are the client's side of a request.
* `error` is an exception raised inside the critical section; the model stops
  there. Production builds suppress run-time checks (`-gnatp`), which makes the
  same steps erroneous execution.

| Action | Code |
|---|---|
| `Invoke`, `Run`, `Unregister_Task` | `Requests.Invoke`, `Run` and `Task_Witness` |
| `Schedule_Terminated/Exit/Job/Poll/Idle` | `Schedule_Task` of the Workers policy, with the transition to the body it selects |
| `Idle_Terminate`, `Idle_Wait`, `Idle_Return` | `Thread_Pool.Idle` with `Check_Spares` |
| `Check_Sources`, `Check_Sources_Aborted`, `Reenter`, `Queue_Event_Job`, `End_Of_Check_Sources` | `Try_Check_Sources` |
| `Job_Completed`, `Queue_Request_Job`, `Disconnect`, `Executed_Request`, `Request_Result_Ready` | `Perform_Work` and what GIOP sessions do from a job |
| `Insert_Source`, `Disable_Polling`, `Disable_Return`, `Register_Unknown`, `Register_Source`, `Register_Failure`, `Create_Monitor`, `Create_Failure`, `Event_Sources_Added`, `Source_Done` | `Insert_Source` |
| `Finalize_Endpoint`, `Delete_Source`, `Delete_Unmonitored`, `Unregister_Source` (and the shared ones) | finalization of a binding object and `Delete_Source` |
| `Shutdown`, `Completion_Return` | `Shutdown`, `Wait_For_Completion` |
| `Abort_Run`, `Terminate_Task`, `Abort_Request_Fails` | `select ... then abort` in `Invoke`; `Task_Witness.Finalize` |

| Action of `BindingObjects` | Code |
|---|---|
| `Get_Binding_Objects`, `Undo`, `Bind_Existing`, `Bind_Profile`, `Register_Binding_Object`, `Add_Binding_Object`, `Unbind` | `References.Binding.Bind`, `Reuse_Entity`, `ORB.Register_Binding_Object`, finalization of a reference |
| `Accept_Connection` | `Handle_Event` of a connected access point |
| `Check_Sources`, `Stabilize`, `Queue_Event_Job` | `Try_Check_Sources` and the handler's `Stabilize` |
| `Handle_Event`, `Release`, `Emit`, `Monitor_Endpoint`, `Disconnect`, `Detach`, `Leave` | `Handle_Event` of an endpoint, in its order |
| `Destroy_Request` | the end of a request that refers to the object |
| `Unregister_Binding_Object`, `Dismantle`, `Free` | `Binding_Objects.Finalize`, `Dec_Usage` |

| Action of `Interop` | Code |
|---|---|
| `Activate_Object`, `Print_IOR`, `Remove_Ref`, `Run`, `Fatal` | `main` of the three servers |
| `Dispatch`, `Complete`, `Break` | the ORBs (external) around the servant's operation; the two memory accesses of `++tmp` are in the first two |
| `Oneway_Begin`, `Oneway_End` | `all_functions.Impl.oneway_void_proc` |
| `Start`, `Send`, `Receive` | `main` and `test` of the three client programs |
| `Send_Other` | an unrelated client of the same servant |

In `RunGroup` the actions carry the names of the calls in `main`; `hnd`, `hndcld` and
`hndcld_sig` are the handlers, the latter two the parts of `hndcld` before and after
the window in which another signal can be handled; `Deliver`, `CommandEnds`,
`CommandForks` and `User` are the kernel, the command and whoever sends signals.

### Decisions worth knowing

* In `BindingObjects` the list is a set: how far `Get_Binding_Objects` walks, and so
  which closed objects it purges before it stops at a match, is left open. What
  `Valid` answers for an object that was freed while listed is undefined and left
  open too. `Valid` itself closes an endpoint only under the No_Tasking policy
  (`Handle_Validate_TE` of the others does nothing), so that it only reads here.
* The refinement maps a user to each place that can hold a reference. `Reuse_Entity`
  acquires at its increment when the counter was positive; an increment from zero
  is not an acquisition and is undone.
* Closing an endpoint deletes its source, for which polling is disabled: `Close`
  waits for the task that holds an event of it. `OrbWorkers` has the details.
* In `Interop` a value that is sent and comes back is one token; operations that
  return their argument, a copy, null or nothing are told apart, as are exceptions.
  The macros of `all_types_client.cc` select sections of the program; the
  second client of the instance has the section of the exceptions only: it is the
  one build that ends its tests against the dynamic servers on TAO.
* A check that compares results stops at the first bad one; the dynamic client
  makes all its calls. `testException` that returns prints nothing.
* On TAO the dynamic servers answer an operation they do not know with an ordinary
  reply without a result (`Caught`). The stub of a void operation has nothing to read and
  returns as if the operation had been executed; that of another one raises `MARSHAL`.
* In `RunGroup` standard signals do not queue. A handler that is called while
  `pause` waits ends the pause when the outermost handler returns.

* `Set_State_Unscheduled` at the start of `Schedule_Task` is merged with the
  state that is chosen, in the same critical section.
* Which idle task of a kind is awakened is left open (the code takes the most
  recent one): the properties hold for every choice.
* A session that receives a reply first has its endpoint monitored again and
  then completes the request; a request job may carry the endpoint and have it
  monitored again once it has read its arguments. Both orders are the code's.
* `ServerSide` is the set of sources whose session has the Server role: requests
  are received on those, replies on the others.
* In `Event_Sources_Added` the branch for a slot whose monitor is being polled is
  never taken: polling was disabled before. Allocating the task is left to the
  `Enable_Polling` that follows.
* Spare threads are counted while the awakened task is itself still Idle, as in
  `Check_Spares`, which runs before `Idle_Awake`: a pool with
  `min_spare_threads = 1` never creates a thread. `workers_shutdown`
  therefore has two. Threads that were created and have not registered yet are
  not counted, so that several awakened tasks together may exceed `max_threads`
  (`doc/Tasking_model_in_PolyORB.rst:98` calls it the maximum).
* `Insert_Source` works on the monitors it read before `Disable_Polling` gave up the
  lock: concurrent insertions of a new type create two monitors of it, and a third
  monitor finds no slot (`error`).
* A source whose registration fails stays open and is on no monitor (`Register_Failure`).
  `Delete_Unmonitored` is what becomes of `Delete_Source` for it: the null
  `AES.Monitor` is dereferenced. In the other direction, that only a failed
  registration gets there is a conjunct of the proofs (`Registered` in `SourceProofs`).
* `Finalize` of an aborted task sends `Abort_Request` to the session, which forgets the
  request or, when it has no entry for it any more, raises an exception
  (`Abort_Request_Fails`): certainly so when the request is completed, possibly while a job has
  its connection. Otherwise no reply is matched with the request any more, and the lock is
  kept to the end of `Unregister_Task`, where the model ends the client's use of its
  connection.
* With one thread and an infinite polling timeout (the default), a second
  monitor is polled only after the first poll returns; the model shows the same.

## 3. Runs

All instances of `OrbWorkers` have `AbortCap = 1`: each `Check_Sources` consumes one
abort, and what matters is whether one is pending. One or two threads of each kind
are enough for every pair of actors to meet; two sources suffice for one to be
in the queue while the other is polled or closed.

| Run | Instance | Checks |
|---|---|---|
| `workers_core` | pool thread, two clients (symmetric), application thread, client and server connection, request job | `TypeOK`, `SummaryExact`, `SlotNamesPoller`, `WaitsForPoller`, `SleepersOnList`, `NoException`, `SourceAccounted`, `NoDanglingSource`, `NoLostJob`, `NoLostPoll`, `SourceListStable` |
| `workers_faults` | two monitor types, failing registrations, a client that is aborted | `SlotNamesPoller`, `SleepersOnList`, `MonitoredIsKnown`, `NoLostPoll`, `ExceptionExplained` |
| `workers_shutdown` | pool that creates its second thread, one connection, a shutdown that may wait, fairness | `ShutdownDrains`, `ShutdownEnds`, `CompletionReturns` |
| `workers_requests` | pool thread that retires when idle, client, fairness | `SpareBound`, `RequestReturns`, `DisableReturns` |
| `binding_objects` | one client, two ORB tasks, two outgoing and one accepted connection, fairness | `TypeOK`, `CounterExact`, `NoDanglingReference`, `StabilizeNil`, `ListExact`, `Refinement` |
| `interop` | every server on one or four threads, possibly dying; two clients, one with every section and a connection that may break, one that tests the exceptions or disturbs the attributes; fairness | `TypeOK`, `VerdictComplete`, `ServedAlive`, `OnewayNeedsThreads`, `FailuresExplained`, `CounterNeverBack`, `ClientsEnd` |
| `rungroup` | rungroup, its child and a descendant, exit codes 0, 1 and 255, three signals, fairness | `TypeOK`, `StatusFaithful`, `AbortOnSignal`, `AbortKillsGroup`, `WaitReturns` |

The bounds of the last three: with two ORB tasks and a client, one task can poll or
accept while another finalizes and a client searches the list, and a second
outgoing object lets a client find one object closing and create another. `Repeats`
is 2 for the 1000 calls of the dynamic client and `RefRepeats` 2 for the 15 of
`echoRef`, since the loops' state is whether a call failed and whether calls are left;
the unrelated client makes one call, which can hit every pair of calls of the other.
Three signals are enough for one to end the loop, one to interrupt a handler and
one to come while the group is being killed. `rungroup` does not check for
deadlock: all processes may have ended, and a signal between the loop's test
and `pause` leaves rungroup waiting for another one, which the code does not exclude.

What the results say of the tests: the line `END TESTS` is printed only when every check
was made, and says PASSED only when none failed, so a run without that line
is the only sign of an exception (the exit code is 0). One line can be missing all the same:
against the dynamic servers on TAO `testException` returns, and prints nothing. The unknown
exception is not raised either there, so that the verdict is FAILED.
`all_types_client` never passes with its exception section: against the C++ servant it
sends 42 and expects 2485 (`all_types_client.cc:406`, `:411`).
Attribute checks fail only when another client of the servant interferes.
`all_functions_client` cannot pass against a server with one thread. `StatusFaithful`
and `CounterNeverBack` are claims with a condition: the first takes it as the code's
answer that a command killed by a signal gives status 0, and the second is about one
thread, since several lose increments of `++tmp`.

`workers_faults` does not check for deadlock: the model stops at the first
exception, and this instance raises some. `ExceptionExplained` says which ones there can be,
in any instance:

| Cause | Where it bites | In `workers_faults` |
|---|---|---|
| a client is aborted between the two reads of `Requesting_Task` in `Handle_Message`: `Finalize` sets it to null before it takes the lock (`polyorb-orb.adb:424`), and a null task is rescheduled | `polyorb-orb.adb:1287` | yes |
| a client is aborted when its request is completed, or when a job is about to complete it: the session does not know the request any more, and its exception ends `Finalize` before the task is unregistered | `polyorb-orb.adb:444`, `polyorb-protocols-giop-common.adb:727` | yes |
| a registration fails on the monitor created for the source, and `Enable_Polling` reads slot 0; or its source is closed later, and the null `AES.Monitor` is dereferenced | `polyorb-orb.adb:930`, `:961` | yes |
| a thread waits in `Disable_Polling` with the monitors it has read while another creates a monitor of its type; it creates one more, which finds no slot | `polyorb-orb.adb:879` | no: it takes three monitors |

The comment on the main loop says that "Exceptions must not be propagated from within ORB
critical section" (`polyorb-orb.adb:460`). What the property excludes is any other one: that
an abort, a failure or a shutdown leaves a task that is leaving, or has left, where
`Reschedule_Task` is applied to it, that a client is notified before it has registered, or
that a source that was registered has no monitor. `workers_core`, where `NoException` holds,
excludes all four causes: it has no timeouts, no failing registrations and one type.

Five runs show a disagreement between the code and what its comments say; each
checks one property and ends with a counterexample.

| Run | Property | What it shows |
|---|---|---|
| `lost_job` | `NoLostJob` | without permanent tasks, a client awakened for a queued job leaves because its own request has completed; the job stays and everybody sleeps |
| `abort_loses_source` | `SourceAccounted` | a client aborted after `Check_Sources` drops the sources it took |
| `shutdown_pending` | `ShutdownDrains` | a client still in the ORB queues a request job after the last pool thread has left; `Shutdown` returns with the job pending |
| `binding_list` | `ListedAlive` | an accepted connection breaks before its binding object is listed; another task frees the object and the accepting task then lists it |
| `rungroup_signal` | `KillsGroupOnSignal` | the child ends after SIGTERM was received and before the loop tests it: `sig` is overwritten and the group survives |

In the runs whose configuration excludes the cause (a pool thread that stays, no timeouts, a pool
without clients) `NoLostJob`, `SourceAccounted` and `ShutdownDrains` hold. `rungroup` has another
window, between the loop's test and `pause` (`rungroup.c:52`): a signal that is handled there is
waited for afterwards. `WaitReturns` is about the child's end and starts inside `pause`. `ListExact` is the
part of `ListedAlive` that holds: it is about the objects that a client can reuse. In `lost_job` the constraint `ClientScope` fixes on which connection
each client waits, to keep the search short; it removes behaviours and adds none.

### Fairness

`FairSpec` is used where something must happen. Threads do not stop inside the
ORB (weak fairness of steps taken with the lock held and of returning from an
aborted selector). The lock is a queued mutex, so a thread that waits for it
gets it even though it is taken and released in between (strong fairness of the
steps that take it). A job ends, and the job of a live source has it monitored
again. Nothing is assumed about when data arrives, when clients invoke, when
connections are opened and closed, when shutdown is called, or about timeouts.
`CompletionReturns` is claimed of the times when no client is inside the ORB.

`BindingObjects`: a task in the middle of a subprogram goes on, strongly, since the
critical section is the same queued mutex; nothing is assumed of what tasks begin.
`Interop`: the server's main goes on unless it dies, its ORB runs the calls it has
received when a thread is free, a started client goes on, and the connection to a dead
server breaks. `RunGroup`: the scheduler runs the processes and the kernel delivers
pending signals; the command may run for ever.

## 4. Proofs

The theorems are checked by TLAPS for every choice of the constants that
satisfies the named assumptions. In `OrbController`: disjoint sets of threads and
jobs, finitely many threads, a `None` outside these sets, `AbortCap` positive; nothing
is assumed of the number of sources, monitors or threads, nor of the pool's
configuration, and timeouts and failing registrations are included. In
`BindingObjects`, `Interop` and `RunGroup`: finitely many tasks, objects and clients,
any sections, numbers of calls, exit codes (0 .. 255) and numbers of signals.

Every proof has the same outline. An inductive invariant says where things are; one
lemma per group of actions says what a step does to it; the theorems follow. As most
actions change little of what an invariant speaks of, the larger proofs name the few
*effects* that steps have (a source moves from one place to another, a reference is
acquired or released, a state is counted differently), show once what each effect
preserves, and then only which action has which effect.

### The ORB

* `TypeCorrect`: `Spec => [](TypeOK /\ OpAgrees /\ PollsMonitor)`. `TypeOK` is
  not inductive: `Check_Sources` reads the list of the task's selector, so a
  task in `Check_Sources` must have one (`PollsMonitor`); the loop of
  `Insert_Source` increments a slot index, which stays an index only because of
  the comparison with the number of monitors (`OpAgrees`, which also says that
  source operations carry a source).
* `SleepersCorrect`: `Spec => [](SleepersOnList /\ CriticalHoldsLock)`. The list
  and the condition variable are two structures, updated at different times: a
  task is put on the list in `Schedule_Task` and waits only in `Idle`. The gap
  is closed by mutual exclusion, so the inductive invariant `Sleepers` adds that
  a thread inside the critical section holds the lock, that a task about to
  sleep is on the list, and that only a task in `Idle` waits. Whoever empties the
  list (`Try_Allocate_One_Task`, `Reschedule_Task`, shutdown) takes the task out
  of both structures: the lemmas `TryAllocates`, `RescheduleAllocates`,
  `EnableAllocates` and `UnregisteredAllocates` say so once.
* `PollingCorrect` (`SlotNamesPoller`), `WaitsCorrect` (`WaitsForPoller`) and
  `SourceListCorrect` (`SourceListStable`). Several facts hold only together,
  in `Polling`: a monitor has one slot (`SlotsDistinct`); a task is Blocked
  exactly from `Schedule_Task` to the end of its poll (`BlockedAgrees`), so that its
  slot can be found from its selector (`OneSlot`); a thread that waits is in the
  wait set of its slot until polling ends, and polling does not start again
  before it has returned with the lock (`WaitersAgree`). The last point is the
  delicate one, as the code waits with an `if` and not in a loop: another
  task may schedule between the broadcast and the waiter's return. It does not
  poll because `Polling_Abort_Counter` is still positive (`CounterPositive`), which
  needs the counter to be exact (`CounterExact`, by cardinalities of the finite set
  of waiting threads). Once inside `Insert_Source` or `Delete_Source` the waiter
  holds the lock (`CriticalHoldsLock`), so nobody can schedule a poll.
* `SummaryCorrect` (`SummaryExact`). The counts change by one, the sets they count by
  one task; that the task was counted before needs the state to agree with the place
  of the task (`StateAgrees`): a task is registered from `Run` to `Unregister_Task` and is
  Terminated when it leaves, also when it leaves because it is aborted.
* `SpareCorrect` (`SpareBound`) follows from `SummaryExact`, the lock that `Idle` holds
  from its count to its wait, and `SleepersOnList`: the sleeping tasks are among the
  Idle ones that were counted.
* `NoDanglingCorrect` (`NoDanglingSource`). Places cannot be shown to hold open sources
  without showing that a source being destroyed is in none, so the invariant `Traced`
  follows all of them: a source is in places of one kind (`PlacesSound`) and in one
  of that kind (`OnePlace`), its recorded monitor is the one that has it (`Recorded`), and
  the thread that closes it has disabled polling of that monitor (`DeletesSound`). The
  last conjunct rests on `Polling`: while polling is disabled, no `Check_Sources` can
  return the source. The exception that `Create_Monitor` can raise leaves the source
  both registered and in the call; the model stops there, and after it only
  `PlacedIsOpen` is claimed.
* `KnownCorrect` (`MonitoredIsKnown`): lists grow in two steps only (`ListEffect`), each for
  a monitor that has a slot or is given one before the lock is free.
* `AccountedCorrect`: `Spec => [](Timed = {} /\ NoException => SourceAccounted)`. That there
  is at most one place is `Traced`; that there is at least one needs that who
  holds a source gives it on: a task that reads one is in its job or in a call of the job
  (`HeldAgrees`), a request that carries one has its job in the queue (`CarriedAgrees`),
  and a call of `Insert_Source` comes to a monitor that accepts the source, as the
  slots it goes through are filled (`SlotsFilled`); only an exception ends the call
  elsewhere. Sources in `Failing` are excepted; that every other open source is on a
  monitor or in a call, and so never comes to `Delete_Unmonitored`, is `Registered`. Both conditions are needed: `abort_loses_source` shows the loss with a timeout,
  and an instance with more monitor types than slots the duplicate.
* `ExceptionsCorrect` (`ExceptionExplained`): for all constants, with timeouts, failing registrations and
  any types. The invariant `Calm` says that a request with a `Requesting_Task` has a registered one
  (`Requested`), and that the task which is notified is such a task or is being aborted (`Notifies`): it
  cannot go on before the notifier frees the lock. A task that polls is Blocked (`SlotNamesPoller`), so
  that the wakeups for jobs and polling are given to tasks that `Reschedule_Task` accepts. That only a
  source whose registration fails has no monitor when it is closed is `Registered`, in `SourceProofs`.
* `ExceptionFree`: `Spec => [](Undisturbed => NoException)`, where `Undisturbed` is a condition on the
  constants: no timeouts, no failing registrations, all sources of one type. With it, only timeouts
  abort (`Aborts`) and a monitor is created only while slot 1 is empty (`FirstMonitor`), so that
  none of the causes can occur. `AccountedFree` is `AccountedCorrect` with the condition on exceptions
  discharged.
* `PollWakeup`: `Spec => []((\A t \in Tasks : pc[t] # "aborting") => NoLostPoll)`, with timeouts, failing
  registrations and any types. `NoLostPoll` speaks of states with a free lock, so the
  invariant `PollsCovered` speaks of those within a critical section too: when somebody sleeps, each slot
  that needs polling has a *responsible* task, one that is registered, off the idle
  list and not polling, or a thread that will call `Enable_Polling` on it before it
  frees the lock. A task polls one monitor, so two slots in need must have one each (`Covered`):
  that is why one wakeup per `Enable_Polling` is enough. The condition is needed: the one
  client awakened for a monitor may be aborted before it gets the lock, and the next
  wakeup is given only when it unregisters. With two clients, one of which can be aborted, TLC shows
  such a state; with the single client of `workers_faults` there is nobody left to sleep.
* `JobWakeup`: `NoLostJob` whenever there is one monitor and a permanent task is registered, with
  timeouts and any number of clients. The invariant is `JobsCovered`: a queued job has an *attentive*
  permanent task, one that is off the idle list and, if it polls, has been aborted or has
  returned (`Attended`). Clients do not count, since the client that is
  awakened may leave (`lost_job`); this is where `Try_Allocate_One_Task` must prefer permanent tasks, and
  stop at a running permanent one. The condition on slot 2 is needed:
  TLC finds `lost_job` again in an instance whose permanent task polls a second monitor,
  from which nobody aborts it, while the clients awakened for the job leave.
* `DrainCorrect`: without clients, `Spec => ShutdownDrains`. A permanent task
  sleeps or leaves only when the queue is empty (`Emptied`), so the last one to leave leaves it empty
  (`Drained`); that the waiting thread returns only when all have left is `SummaryExact`. With a client it
  fails (`shutdown_pending`).

### Binding objects

`Inv` is `CounterExact` and `Places`. `CounterExact` alone is not inductive: that the
task which decrements to zero is the last user needs that nobody acquires afterwards.
Three facts close this: an object is used or has a source that can report events only
while it is live (`Kept`); one task finalizes it and nobody uses it then (`Finalized`);
`Reuse_Entity` undoes only increments of an object without users (`UndoneUnused`), which
is what makes its unlocked increment from zero harmless. `OnePlace` says that the
event source is monitored, polled, queued or handled, never two of these: therefore
`Stabilize` finds its handler empty (`StabilizeNilCorrect`). `SetUp` keeps a connection that is
not registered yet from everybody else. From `Inv` follow `CounterExactCorrect`, `TypeCorrect`
(the counter is bounded by the places that can hold a reference),
`NoDanglingReferenceCorrect`, `ListExactCorrect`, and `SharedCorrect`: the initial states and the
steps of `SharedObjects` are implemented. Its fairness is left to TLC.

### The C and C++ programs

* `RunGroupProofs`: `Inv` adds to `StatusFaithful` that SIGCHLD is pending or handled only
  once the child has ended, and never in the child (`ChildSignal`); that whoever is
  signalled or aborts does so after rungroup was (`Told`, from which `AbortOnSignal` follows); and
  that a status once noted is the child's (`Noted`). `StatusFaithful` depends on the order of two
  handlers that can interrupt each other, which `Noted` states for each half of `hndcld`. The proof of
  `TypeOK` showed that its range of `status` was too narrow: `status` is 0 until the child has
  ended, also where the constant `Codes` does not list 0.
* `InteropProofs`: `TypeCorrect` needs that a client is at a test of its own program and calls
  an operation that the server answers (`Fits`), for every choice of sections, and with it the
  lengths and tests of all programs (`StaticProgram`, `ProgramOK`). The attempt showed that the model applied
  an empty program to 1 for a client that is built without any section; such a client ends its
  tests at once, as it does in the code. `ServedAliveCorrect` follows from the count that belongs to
  each step of main (`RefsAgree`). `CounterCorrect` (`CounterNeverBack`) needs `OneAtATime`: on one thread
  no other upcall and no oneway delay goes on beside an upcall, so the value it has loaded
  is still the one it replaces. `OnewayCorrect` (`OnewayNeedsThreads`) builds on it: the value 1
  exists only during a delay, no reply carries it (`NeverOne`), so the client's first check fails
  and it never reaches its last one (`AtOneway`). `FailuresCorrect` (`FailuresExplained`) holds for any
  clients, calls and threads. Its invariant `AllObserved` says what a client in the middle of a
  check has seen: as long as no other client updated the attribute since its first call, the servant
  still holds the value it set, and the reply under way carries it; and that the exceptions of the
  exception tests come from the static server, their empty replies from a dynamic one on TAO.
  `VerdictCorrect` (`VerdictComplete`) compares the lines printed with the lines of the program; these
  are counted by a cardinality (`Lines`), so that one more test adds its lines without an induction
  over the program. Its invariant `AllTally` relates the count to the test reached, for each client:
  it is exact, or short of one line when the client has got past `testException` without it
  (`Missed`). The test of the unknown exception comes right after that one and is the last
  (`UserBeforeLast`), so that a client with a line missing fails it before its verdict.

### What stays with TLC

* Liveness (`ShutdownEnds`, `CompletionReturns`, `RequestReturns`, `DisableReturns`,
  `AbortKillsGroup`, `WaitReturns`, `ClientsEnd`) and the fairness part of `Refinement`: the prover has no fairness.
* What the theorems of the ORB exclude by their conditions: `NoException` with timeouts, failures or several
  source types, `NoLostJob` without a permanent task or with two monitors, `NoLostPoll` during an abort,
  `ShutdownDrains` with clients. Each of them fails for some constants: the causes that
  `ExceptionExplained` names, `lost_job` and `shutdown_pending` show it. That `NoLostJob` can fail with two monitors
  and `NoLostPoll` during an abort was found with TLC on larger instances that are not kept as runs.

Every other property of a passing run is stated by a theorem.

## 5. What is left out

Request schedulers (`O.RS`, only the RT personality sets one), `Run` nested in an
upcall, an abort that hits a thread inside the critical section, finite polling
timeouts, the pool of free condition variables, nesting of the ORB lock (no path
modelled here nests it), the order of the idle lists, `Modify_Source`, and the
wording, logging and data of every message. The components that
`PROJECT.json` marks `not_modelled` are either planned, below, or sequential
programs and data conversions that unit tests reach. The OpenSSL bindings are
wrappers of single calls, whose ownership rules are those of a library that is not
in the repository. In `BindingObjects`: entities that are not reference counted,
collocated profiles, and the sessions above the endpoint, which appear by the
requests and errors they cause. In `Interop`: the internals of the foreign ORBs,
and whether their skeletons own the arguments that `echoRef` and `echoAny` return without a
copy (generated code that is not in the repository).

## 6. Plan

In this order, the most central first:

1. Done: `BindingObjects` and `SharedObjects` (reference counts and reuse), `Interop` and
   `RunGroup` (the C and C++ programs). `OrbWorkers`' `Finalize_Endpoint` stands on the first.
2. `OrbLeaderFollowers` and `OrbHalfSync` as further policies over
   `OrbController`, checked for the same properties as the Workers policy.
3. `GiopSession`: pending requests against replies, cancellation, disconnection;
   refinement of "each request is completed exactly once".
4. `RWLocks`, `AdvancedMutexes`: exclusion and starvation; then `PoaManager` (states
   and held requests), `TerminationManager` (waves against activity) and module
   initialization (dependency order, a pure algorithm).
5. An abstract specification of the ORB as a pool serving jobs (a queued job
   is eventually run, a completed request returns), implemented by
   `OrbWorkers` with a permanent task.
6. `NoLostJob` with two monitors: which wakeups a queued job needs when permanent tasks
   outnumber the monitors, and a proof for that configuration.
