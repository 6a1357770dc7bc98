--------------------------- MODULE BindingObjects ---------------------------
(***************************************************************************)
(* Binding objects: the reference-counted owners of a connection (transport*)
(* endpoint and protocol stack), shared by the references bound to a node, *)
(* by the jobs that handle its events and by the requests in progress.     *)
(* Client tasks bind and give up references; ORB tasks accept connections, *)
(* poll event sources, handle events and complete requests.  Whoever drops *)
(* the last reference finalizes the object.  Memory accesses of the        *)
(* reference counter are atomic and not protected by the ORB's critical    *)
(* section, which protects the list of binding objects.                    *)
(***************************************************************************)
EXTENDS Integers, FiniteSets

CONSTANTS
  Clients,      (* tasks that bind references                              *)
  Workers,      (* tasks that run the ORB                                  *)
  Outgoing,     (* binding objects that Bind may create, all to one node   *)
  Incoming,     (* binding objects of the connections that are accepted    *)
  NoTask,
  NoObject

Tasks   == Clients \cup Workers
Objects == Outgoing \cup Incoming

ASSUME BindingAssumption ==
  /\ IsFiniteSet(Tasks) /\ IsFiniteSet(Objects)
  /\ Clients \cap Workers = {} /\ Outgoing \cap Incoming = {}
  /\ NoTask \notin Tasks /\ NoObject \notin Objects
  /\ {"TE", "Handler", "Request"} \cap Tasks = {}

VARIABLES
  life,         (* not yet allocated, allocated, freed                     *)
  Counter,      (* Smart_Pointers: the reference counter                   *)
  objects,      (* ORB.Binding_Objects                                     *)
  Referenced,   (* the binding object believes it is in that list          *)
  Closed,       (* its transport endpoint is closed                        *)
  monitored,    (* its event source is in a monitor                        *)
  polled,       (* an ORB task holds an event of the source                *)
  te,           (* TE.Dependent_Binding_Object is set                      *)
  handler,      (* H.Dependent_Binding_Object is set                       *)
  request,      (* Req.Dependent_Binding_Object is set in a request        *)
  lock,         (* task inside the ORB critical section                    *)
  pc, obj       (* where each task is, and the object it works on          *)

refs == <<te, handler, request>>
source == <<Closed, monitored, polled>>
list == <<objects, Referenced>>
vars == <<life, Counter, list, source, refs, lock, pc, obj>>

Init ==
  /\ life = [b \in Objects |-> "none"]
  /\ Counter = [b \in Objects |-> 0]
  /\ objects = {} /\ Referenced = [b \in Objects |-> FALSE]
  /\ Closed = [b \in Objects |-> FALSE]
  /\ monitored = [b \in Objects |-> FALSE]
  /\ polled = [b \in Objects |-> FALSE]
  /\ te = [b \in Objects |-> FALSE]
  /\ handler = [b \in Objects |-> FALSE]
  /\ request = [b \in Objects |-> FALSE]
  /\ lock = NoTask
  /\ pc = [t \in Tasks |-> "idle"] /\ obj = [t \in Tasks |-> NoObject]

-----------------------------------------------------------------------------
(* Tasks, the ORB critical section and the reference counter.              *)

At(t, l) == pc[t] = l

Goto(t, l) == pc' = [pc EXCEPT ![t] = l] /\ UNCHANGED obj

Idle(t) ==
  /\ pc' = [pc EXCEPT ![t] = "idle"]
  /\ obj' = [obj EXCEPT ![t] = NoObject]

Work(t, l, b) ==
  /\ pc' = [pc EXCEPT ![t] = l]
  /\ obj' = [obj EXCEPT ![t] = b]

(* Mutants: calls of Reuse_Entity outside the critical section.            *)
CanEnter_M1 == TRUE

(* Enter_ORB_Critical_Section goes on.                                     *)
CanEnter == lock = NoTask

Inc_Usage(b) == Counter' = [Counter EXCEPT ![b] = @ + 1]

(* A reference that task t drops, its last act on the object: at zero t    *)
(* finalizes it.                                                           *)
Dec_Usage(t, b) ==
  /\ Counter' = [Counter EXCEPT ![b] = @ - 1]
  /\ IF Counter[b] = 1 THEN Work(t, "unregister", b) ELSE Idle(t)

(* The increment; its result tells whether the object had a reference.     *)
Reuse_Entity(t, b) ==
  /\ Inc_Usage(b) /\ lock' = t
  /\ Work(t, IF Counter[b] = 0 THEN "undo" ELSE "reused", b)

(* Mutants: the counter is not reset.                                      *)
Undo_M1(t) ==
  /\ At(t, "undo") /\ lock' = NoTask
  /\ IF t \in Clients THEN Work(t, "create", NoObject) ELSE Idle(t)
  /\ polled' = IF t \in Workers THEN [polled EXCEPT ![obj[t]] = FALSE]
                                ELSE polled
  /\ UNCHANGED <<life, Counter, list, Closed, monitored, refs>>

(* Reuse_Entity resets the counter and leaves the reference nil; then the  *)
(* caller leaves the critical section, an ORB task with End_Of_Check_      *)
(* Sources.                                                                *)
Undo(t) ==
  /\ At(t, "undo") /\ lock' = NoTask
  /\ Counter' = [Counter EXCEPT ![obj[t]] = @ - 1]
  /\ IF t \in Clients THEN Work(t, "create", NoObject) ELSE Idle(t)
  /\ polled' = IF t \in Workers THEN [polled EXCEPT ![obj[t]] = FALSE]
                                ELSE polled
  /\ UNCHANGED <<life, list, Closed, monitored, refs>>

-----------------------------------------------------------------------------
(* Client tasks: References.Binding.Bind.                                  *)

(* Get_Binding_Objects with the predicate Is_Reusable, up to the first     *)
(* match.  Closed objects that come before the match are purged; which     *)
(* they are is left open.  What Valid answers for an object that was freed *)
(* while in the list is undefined; with no profile, it never matches.      *)
Get_Binding_Objects(t) ==
  LET invalid == {b \in objects : life[b] = "freed" \/ Closed[b]}
      matches == {b \in objects \cap Outgoing : ~Closed[b]}
      purge(P) ==
        /\ objects' = objects \ P
        /\ Referenced' = [b \in Objects |-> b \notin P /\ Referenced[b]]
  IN
  /\ t \in Clients /\ At(t, "idle") /\ CanEnter
  /\ \/ \E b \in matches, P \in SUBSET invalid : purge(P) /\ Reuse_Entity(t, b)
     \/ /\ matches = {}
        /\ \E U \in SUBSET {b \in invalid : life[b] = "freed"} :
             purge(invalid \ U)
        /\ Goto(t, "create") /\ UNCHANGED <<Counter, lock>>
  /\ UNCHANGED <<life, source, refs>>

(* Bind appends the reusable object to the binding information of R.       *)
Bind_Existing(t) ==
  /\ t \in Clients /\ At(t, "reused") /\ Goto(t, "bound") /\ lock' = NoTask
  /\ UNCHANGED <<life, Counter, list, source, refs>>

(* Bind_Profile connects and sets up a new object, or fails.               *)
Bind_Profile(t) ==
  /\ At(t, "create")
  /\ \/ \E b \in Outgoing :
          /\ life[b] = "none" /\ life' = [life EXCEPT ![b] = "live"]
          /\ Inc_Usage(b) /\ Work(t, "register", b)
     \/ Idle(t) /\ UNCHANGED <<life, Counter>>
  /\ UNCHANGED <<list, source, refs, lock>>

(* Register_Binding_Object up to its last call: the session is told of the *)
(* connection, expects a message and has its source monitored.             *)
Register_Binding_Object(t) ==
  /\ At(t, "register") /\ CanEnter /\ Goto(t, "add")
  /\ monitored' = [monitored EXCEPT ![obj[t]] = TRUE]
  /\ UNCHANGED <<life, Counter, list, Closed, polled, refs, lock>>

(* The new object joins the list: a client then uses its reference, an ORB *)
(* task, which has none of its own, returns from the accept job.           *)
Add_Binding_Object(t) ==
  /\ At(t, "add") /\ CanEnter
  /\ objects' = objects \cup {obj[t]}
  /\ Referenced' = [Referenced EXCEPT ![obj[t]] = TRUE]
  /\ IF t \in Clients THEN Goto(t, "bound") ELSE Idle(t)
  /\ UNCHANGED <<life, Counter, source, refs, lock>>

(* The reference R is finalized.                                           *)
Unbind(t) ==
  /\ At(t, "bound") /\ Dec_Usage(t, obj[t])
  /\ UNCHANGED <<life, list, source, refs, lock>>

-----------------------------------------------------------------------------
(* ORB tasks.                                                              *)

(* Connected_TAP_AES_Event_Handler: the endpoint keeps the only reference  *)
(* to its binding object.                                                  *)
Accept_Connection(t) ==
  /\ t \in Workers /\ At(t, "idle")
  /\ \E b \in Incoming :
       /\ life[b] = "none" /\ life' = [life EXCEPT ![b] = "live"]
       /\ Inc_Usage(b) /\ te' = [te EXCEPT ![b] = TRUE]
       /\ Work(t, "register", b)
  /\ UNCHANGED <<list, source, handler, request, lock>>

(* Check_Sources returns an event; the source leaves the monitor.          *)
Check_Sources(t, b) ==
  /\ t \in Workers /\ At(t, "idle") /\ monitored[b]
  /\ monitored' = [monitored EXCEPT ![b] = FALSE]
  /\ polled' = [polled EXCEPT ![b] = TRUE]
  /\ Work(t, "stabilize", b)
  /\ UNCHANGED <<life, Counter, list, Closed, refs, lock>>

(* Back in the critical section, the handler takes a reference ...         *)
Stabilize(t) ==
  /\ At(t, "stabilize") /\ CanEnter /\ Reuse_Entity(t, obj[t])
  /\ UNCHANGED <<life, list, source, refs>>

(* ... and is queued as a job; End_Of_Check_Sources.                       *)
Queue_Event_Job(t) ==
  /\ t \in Workers /\ At(t, "reused") /\ lock' = NoTask /\ Idle(t)
  /\ handler' = [handler EXCEPT ![obj[t]] = TRUE]
  /\ polled' = [polled EXCEPT ![obj[t]] = FALSE]
  /\ UNCHANGED <<life, Counter, list, Closed, monitored, te, request>>

Queued(b) == handler[b] /\ ~\E t \in Workers : obj[t] = b /\ At(t, "handle")

(* Mutants: the copy of the reference is not counted.                      *)
Handle_Event_M1(t, b) ==
  /\ t \in Workers /\ At(t, "idle") /\ Queued(b) /\ Work(t, "handle", b)
  /\ UNCHANGED <<life, Counter, list, source, refs, lock>>

(* Handle_Event: the local copy of the handler's reference.                *)
Handle_Event(t, b) ==
  /\ t \in Workers /\ At(t, "idle") /\ Queued(b)
  /\ Inc_Usage(b) /\ Work(t, "handle", b)
  /\ UNCHANGED <<life, list, source, refs, lock>>

(* Mutants: the handler keeps its reference.                               *)
Release_M1(t) ==
  /\ At(t, "handle") /\ Goto(t, "emit")
  /\ UNCHANGED <<life, Counter, list, source, refs, lock>>

(* The handler releases its own: it may handle another event from now on.  *)
Release(t) ==
  /\ At(t, "handle") /\ Goto(t, "emit")
  /\ handler' = [handler EXCEPT ![obj[t]] = FALSE]
  /\ Counter' = [Counter EXCEPT ![obj[t]] = @ - 1]
  /\ UNCHANGED <<life, list, source, te, request, lock>>

(* Data_Indication: a message, which on the server side may be a request   *)
(* that refers to the binding object, or an error.                         *)
Emit(t) ==
  LET b == obj[t] IN
  /\ At(t, "emit")
  /\ \/ Goto(t, "expect") /\ UNCHANGED <<Counter, request>>
     \/ /\ b \in Incoming /\ ~request[b] /\ Goto(t, "expect")
        /\ Inc_Usage(b) /\ request' = [request EXCEPT ![b] = TRUE]
     \/ Goto(t, "close") /\ UNCHANGED <<Counter, request>>
  /\ UNCHANGED <<life, list, source, te, handler, lock>>

(* The session expects the next message: Monitor_Endpoint.                 *)
Monitor_Endpoint(t) ==
  /\ At(t, "expect") /\ CanEnter /\ Goto(t, "leave")
  /\ monitored' = [monitored EXCEPT ![obj[t]] = TRUE]
  /\ UNCHANGED <<life, Counter, list, Closed, polled, refs, lock>>

(* Mutants: the source is deleted without waiting for the polling task.    *)
Close_M1(b) ==
  /\ Closed' = [Closed EXCEPT ![b] = TRUE]
  /\ monitored' = [monitored EXCEPT ![b] = FALSE]

(* Disconnect_Indication: Unregister_Endpoint has the source deleted, for  *)
(* which no task may be polling.                                           *)
Close(b) ==
  \/ Closed[b] /\ UNCHANGED <<Closed, monitored>>
  \/ /\ ~Closed[b] /\ CanEnter /\ ~polled[b]
     /\ Closed' = [Closed EXCEPT ![b] = TRUE]
     /\ monitored' = [monitored EXCEPT ![b] = FALSE]

Disconnect(t) ==
  /\ At(t, "close") /\ Close(obj[t]) /\ Goto(t, "detach")
  /\ UNCHANGED <<life, Counter, list, polled, refs, lock>>

(* The endpoint of an accepted connection gives up its reference.          *)
Detach(t) ==
  LET b == obj[t] IN
  /\ At(t, "detach") /\ Goto(t, "leave")
  /\ IF te[b] THEN /\ te' = [te EXCEPT ![b] = FALSE]
                   /\ Counter' = [Counter EXCEPT ![b] = @ - 1]
              ELSE UNCHANGED <<te, Counter>>
  /\ UNCHANGED <<life, list, source, handler, request, lock>>

(* The local reference of Handle_Event goes out of scope.                  *)
Leave(t) ==
  /\ At(t, "leave") /\ Dec_Usage(t, obj[t])
  /\ UNCHANGED <<life, list, source, refs, lock>>

(* A request in progress is completed and destroyed.                       *)
Destroy_Request(t, b) ==
  /\ t \in Workers /\ At(t, "idle") /\ request[b]
  /\ request' = [request EXCEPT ![b] = FALSE]
  /\ Dec_Usage(t, b)
  /\ UNCHANGED <<life, list, source, te, handler, lock>>

-----------------------------------------------------------------------------
(* Binding_Objects.Finalize, by any task.                                  *)

(* Mutants: the object stays in the list.                                  *)
Unregister_Binding_Object_M1(t) ==
  /\ At(t, "unregister") /\ CanEnter /\ Goto(t, "dismantle")
  /\ UNCHANGED <<life, Counter, list, source, refs, lock>>

Unregister_Binding_Object(t) ==
  LET b == obj[t] IN
  /\ At(t, "unregister") /\ CanEnter /\ Goto(t, "dismantle")
  /\ IF Referenced[b] THEN /\ Referenced' = [Referenced EXCEPT ![b] = FALSE]
                           /\ objects' = objects \ {b}
                      ELSE UNCHANGED list
  /\ UNCHANGED <<life, Counter, source, refs, lock>>

(* The protocol stack is told, which closes the endpoint.                  *)
Dismantle(t) ==
  /\ At(t, "dismantle") /\ Close(obj[t]) /\ Goto(t, "free")
  /\ UNCHANGED <<life, Counter, list, polled, refs, lock>>

(* The endpoint, the profile and the object itself are deallocated.        *)
Free(t) ==
  /\ At(t, "free") /\ Idle(t)
  /\ life' = [life EXCEPT ![obj[t]] = "freed"]
  /\ UNCHANGED <<Counter, list, source, refs, lock>>

-----------------------------------------------------------------------------
(* A task in the middle of a subprogram goes on.                           *)
Progress(t) ==
  \/ Undo(t) \/ Bind_Existing(t) \/ Bind_Profile(t)
  \/ Register_Binding_Object(t) \/ Add_Binding_Object(t)
  \/ Stabilize(t) \/ Queue_Event_Job(t) \/ Release(t) \/ Emit(t)
  \/ Monitor_Endpoint(t) \/ Disconnect(t) \/ Detach(t) \/ Leave(t)
  \/ Unregister_Binding_Object(t) \/ Dismantle(t) \/ Free(t)

(* What starts: the application's calls, and the ORB's jobs and events.    *)
Begin(t) ==
  \/ Get_Binding_Objects(t) \/ Unbind(t) \/ Accept_Connection(t)
  \/ \E b \in Objects : \/ Check_Sources(t, b) \/ Handle_Event(t, b)
                        \/ Destroy_Request(t, b)

Next == \E t \in Tasks : Begin(t) \/ Progress(t)

(* Tasks that wait for the critical section are served in their order, so  *)
(* that one that can enter it again and again enters it.                   *)
Fairness == \A t \in Tasks : SF_vars(Progress(t))

Spec == Init /\ [][Next]_vars /\ Fairness

-----------------------------------------------------------------------------
(* Properties.                                                             *)

(* Where a task holds a reference of its own: Reuse_Entity has given it to *)
(* a client, or to the handler, once the increment is done.                *)
Holding(t) ==
  \/ t \in Clients /\ pc[t] \in {"reused", "register", "add", "bound"}
  \/ pc[t] \in {"handle", "emit", "expect", "close", "detach", "leave"}

users ==
  [b \in Objects |->
     {t \in Tasks : obj[t] = b /\ Holding(t)}
       \cup (IF te[b] THEN {"TE"} ELSE {})
       \cup (IF handler[b] \/ \E t \in Workers : obj[t] = b /\ At(t, "reused")
             THEN {"Handler"} ELSE {})
       \cup (IF request[b] THEN {"Request"} ELSE {})]

(* Tasks between the increment of Reuse_Entity and its reset.              *)
Reusing(b) == {t \in Tasks : obj[t] = b /\ At(t, "undo")}

(* Type invariant.                                                         *)
TypeOK ==
  /\ life \in [Objects -> {"none", "live", "freed"}]
  /\ Counter \in [Objects -> 0 .. Cardinality(Tasks) + 3]
  /\ objects \subseteq Objects /\ Referenced \in [Objects -> BOOLEAN]
  /\ {Closed, monitored, polled, te, handler, request}
       \subseteq [Objects -> BOOLEAN]
  /\ lock \in Tasks \cup {NoTask}
  /\ pc \in [Tasks -> {"idle", "undo", "reused", "create", "register", "add",
                       "bound", "stabilize", "handle", "emit", "expect",
                       "close", "detach", "leave", "unregister", "dismantle",
                       "free"}]
  /\ obj \in [Tasks -> Objects \cup {NoObject}]

(* The counter of an object is the number of references to it, and of the  *)
(* calls of Reuse_Entity about to be undone: no reference is lost or       *)
(* counted twice between events, requests and the references of clients.   *)
CounterExact ==
  \A b \in Objects :
    Counter[b] = Cardinality(users[b]) + Cardinality(Reusing(b))

(* Who refers to a binding object, or holds an event of its source, refers *)
(* to an object that is not freed.                                         *)
NoDanglingReference ==
  \A b \in Objects : (users[b] # {} \/ polled[b]) => life[b] = "live"

(* The assertion of Stabilize: when an event of a source is polled, the    *)
(* handler of the source has released the reference of the event before.   *)
StabilizeNil ==
  \A t \in Tasks : At(t, "stabilize") => ~handler[obj[t]]

(* Bind finds no freed object to one of its nodes in the list, and the     *)
(* object knows whether it is in the list, also where closed objects are   *)
(* purged while a task finalizes them.                                     *)
ListExact ==
  \A b \in Objects : life[b] # "freed" \/ b \in Outgoing =>
    /\ (b \in objects) <=> Referenced[b]
    /\ b \in objects => life[b] = "live"

(* Binding objects are shared as SharedObjects says: Reuse_Entity never    *)
(* revives an object whose last reference is gone, and each object is      *)
(* finalized once, when nobody refers to it, and then in the end.          *)
Shared ==
  INSTANCE SharedObjects WITH
    Users <- Tasks \cup {"TE", "Handler", "Request"},
    phase <- [b \in Objects |-> IF life[b] = "freed" THEN "dead" ELSE life[b]]

Refinement == Shared!Spec

(* "First remove the reference to this BO from its ORB so that is does not *)
(* get reused while being finalized" (polyorb-binding_objects.adb:67): no  *)
(* object in the list is freed.                                            *)
ListedAlive == \A b \in objects : life[b] = "live"
=============================================================================
