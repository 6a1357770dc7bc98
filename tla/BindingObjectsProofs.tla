------------------------ MODULE BindingObjectsProofs ------------------------
(***************************************************************************)
(* Theorems about BindingObjects, for every set of clients, ORB tasks and  *)
(* connections: reference counts are exact, and binding objects are shared *)
(* as SharedObjects says, as far as safety goes.                           *)
(***************************************************************************)
EXTENDS BindingObjects, FiniteSetTheorems, TLAPS

(* Type invariant with a counter that is any integer: that it is bounded   *)
(* follows from CounterExact.                                              *)
Shape ==
  /\ life \in [Objects -> {"none", "live", "freed"}]
  /\ Counter \in [Objects -> Int]
  /\ objects \subseteq Objects /\ Referenced \in [Objects -> BOOLEAN]
  /\ Closed \in [Objects -> BOOLEAN] /\ monitored \in [Objects -> BOOLEAN]
  /\ polled \in [Objects -> BOOLEAN] /\ te \in [Objects -> BOOLEAN]
  /\ handler \in [Objects -> BOOLEAN] /\ request \in [Objects -> BOOLEAN]
  /\ lock \in Tasks \cup {NoTask}
  /\ pc \in [Tasks -> {"idle", "undo", "reused", "create", "register", "add",
                       "bound", "stabilize", "handle", "emit", "expect",
                       "close", "detach", "leave", "unregister", "dismantle",
                       "free"}]
  /\ obj \in [Tasks -> Objects \cup {NoObject}]

(* Clients bind and ORB tasks handle events; who is in the middle of a     *)
(* subprogram works on an object.                                          *)
Roles ==
  \A t \in Tasks :
    /\ pc[t] \in {"create", "bound"} => t \in Clients
    /\ pc[t] \in {"stabilize", "handle", "emit", "expect", "close", "detach",
                  "leave"} => t \in Workers
    /\ pc[t] \in {"idle", "create"} => obj[t] = NoObject
    /\ pc[t] \notin {"idle", "create"} => obj[t] \in Objects
    /\ pc[t] \in {"register", "add"} =>
         obj[t] \in (IF t \in Clients THEN Outgoing ELSE Incoming)

(* Reuse_Entity is executed inside the critical section.                   *)
ReuseHoldsLock ==
  \A t \in Tasks : pc[t] \in {"undo", "reused"} => lock = t

(* An object that was not allocated yet is nowhere.                        *)
Unused ==
  \A b \in Objects : life[b] = "none" =>
    /\ ~monitored[b] /\ ~Closed[b] /\ ~polled[b]
    /\ ~te[b] /\ ~handler[b] /\ ~request[b]
    /\ b \notin objects /\ ~Referenced[b]
    /\ \A t \in Tasks : obj[t] # b

(* The tasks through which the event source of their object passes, from   *)
(* the set up of the connection or the poll to the next Monitor_Endpoint.  *)
InSession(t) ==
  \/ pc[t] \in {"register", "stabilize", "handle", "emit", "expect", "close"}
  \/ t \in Workers /\ pc[t] \in {"undo", "reused"}

(* The source of an object is in one place: monitored, with the task that  *)
(* polled it, in the job queue, or with the task that handles its event.   *)
OnePlace ==
  /\ \A t, u \in Tasks :
       InSession(t) /\ InSession(u) /\ obj[t] = obj[u] => t = u
  /\ \A t \in Tasks : InSession(t) =>
       /\ ~monitored[obj[t]] /\ ~Closed[obj[t]]
       /\ handler[obj[t]] <=> pc[t] = "handle"
       /\ polled[obj[t]] <=> pc[t] \in {"stabilize", "undo", "reused"}
  /\ \A b \in Objects :
       /\ handler[b] => ~monitored[b] /\ ~Closed[b] /\ ~polled[b]
       /\ monitored[b] => ~Closed[b] /\ ~polled[b]
       /\ polled[b] => \E t \in Tasks : InSession(t) /\ obj[t] = b

(* A connection that is being set up is known to nobody else.              *)
SetUp ==
  \A t \in Tasks : pc[t] = "register" =>
    /\ \A u \in Tasks : obj[u] = obj[t] => u = t
    /\ te[obj[t]] <=> t \in Workers
    /\ ~request[obj[t]] /\ obj[t] \notin objects /\ ~Referenced[obj[t]]

(* Nobody refers to the object: users[b] = {}, without sets.               *)
Unreferenced(b) ==
  /\ ~te[b] /\ ~handler[b] /\ ~request[b]
  /\ \A t \in Tasks : obj[t] = b =>
       ~Holding(t) /\ ~(t \in Workers /\ pc[t] = "reused")

(* Who uses an object, and a source that can have events, keep it alive.   *)
Kept ==
  \A b \in Objects :
    ~Unreferenced(b) \/ polled[b] \/ monitored[b] => life[b] = "live"

(* One task finalizes an object that nobody uses.                          *)
Finalizing(t) == pc[t] \in {"unregister", "dismantle", "free"}

Finalized ==
  /\ \A t, u \in Tasks :
       Finalizing(t) /\ Finalizing(u) /\ obj[t] = obj[u] => t = u
  /\ \A t \in Tasks : Finalizing(t) =>
       /\ Unreferenced(obj[t]) /\ life[obj[t]] = "live"
       /\ pc[t] = "free" => Closed[obj[t]]
       /\ pc[t] \in {"dismantle", "free"} /\ obj[t] \in Outgoing =>
            obj[t] \notin objects /\ ~Referenced[obj[t]]

(* Reuse_Entity undoes only increments of an object without users.         *)
UndoneUnused ==
  \A t \in Tasks : pc[t] = "undo" => Unreferenced(obj[t])

(* Where the source, the references and the tasks of each object are.      *)
Places ==
  /\ Shape /\ Roles /\ ReuseHoldsLock /\ Unused /\ OnePlace /\ SetUp
  /\ Kept /\ Finalized /\ UndoneUnused /\ ListExact

(* The inductive invariant.                                                *)
Inv == Places /\ CounterExact
-----------------------------------------------------------------------------
(* Users and the reference counter.                                        *)

AllUsers == Tasks \cup {"TE", "Handler", "Request"}

(* x refers to object b: x \in users[b], without sets.                     *)
Uses(x, b) ==
  \/ x \in Tasks /\ obj[x] = b /\ Holding(x)
  \/ x = "TE" /\ te[b]
  \/ x = "Handler" /\ \/ handler[b]
                      \/ \E t \in Workers : obj[t] = b /\ pc[t] = "reused"
  \/ x = "Request" /\ request[b]

(* users collects, for each object, who refers to it, before and after any *)
(* step.                                                                   *)
LEMMA UsersSet ==
  ASSUME NEW b \in Objects
  PROVE  /\ users[b] = {x \in AllUsers : Uses(x, b)}
         /\ users'[b] = {x \in AllUsers : Uses(x, b)'}
<1>1. users[b] = {x \in AllUsers : Uses(x, b)}
  BY BindingAssumption DEF users, AllUsers, Uses, At, Tasks
<1>2. users'[b] = {x \in AllUsers : Uses(x, b)'}
  BY BindingAssumption DEF users, AllUsers, Uses, At, Tasks
<1> QED BY <1>1, <1>2

(* The users of an object are finitely many, and so are the tasks that try *)
(* to reuse it.                                                            *)
LEMMA UsersFinite ==
  /\ IsFiniteSet(AllUsers)
  /\ Cardinality(AllUsers) <= Cardinality(Tasks) + 3
  /\ \A S \in SUBSET AllUsers : IsFiniteSet(S) /\ Cardinality(S) \in Nat
                                /\ Cardinality(S) <= Cardinality(AllUsers)
<1>1. IsFiniteSet(Tasks)
  BY BindingAssumption
<1>2. \A S, e : IsFiniteSet(S) =>
        /\ IsFiniteSet(S \cup {e})
        /\ Cardinality(S \cup {e}) <= Cardinality(S) + 1
        /\ Cardinality(S) \in Nat /\ Cardinality(S \cup {e}) \in Nat
  BY FS_AddElement, FS_CardinalityType
<1>3. AllUsers = ((Tasks \cup {"TE"}) \cup {"Handler"}) \cup {"Request"}
  BY DEF AllUsers
<1>4. IsFiniteSet(AllUsers) /\ Cardinality(AllUsers) <= Cardinality(Tasks) + 3
  <2>1. /\ IsFiniteSet(Tasks \cup {"TE"})
        /\ Cardinality(Tasks \cup {"TE"}) <= Cardinality(Tasks) + 1
        /\ Cardinality(Tasks) \in Nat /\ Cardinality(Tasks \cup {"TE"}) \in Nat
    BY <1>1, <1>2
  <2>2. /\ IsFiniteSet((Tasks \cup {"TE"}) \cup {"Handler"})
        /\ Cardinality((Tasks \cup {"TE"}) \cup {"Handler"})
             <= Cardinality(Tasks \cup {"TE"}) + 1
        /\ Cardinality((Tasks \cup {"TE"}) \cup {"Handler"}) \in Nat
    BY <2>1, <1>2
  <2>3. /\ IsFiniteSet(AllUsers)
        /\ Cardinality(AllUsers)
             <= Cardinality((Tasks \cup {"TE"}) \cup {"Handler"}) + 1
        /\ Cardinality(AllUsers) \in Nat
    BY <2>2, <1>2, <1>3
  <2> QED BY <2>1, <2>2, <2>3
<1> QED BY <1>4, FS_Subset, FS_CardinalityType

(* u is the only one who refers to object b.                               *)
Sole(u, b) ==
  /\ te[b] => u = "TE"
  /\ handler[b] => u = "Handler"
  /\ request[b] => u = "Request"
  /\ \A t \in Tasks : obj[t] = b =>
       /\ Holding(t) => u = t
       /\ t \in Workers /\ pc[t] = "reused" => u = "Handler"

(* The count of an object decides what a task sees: at zero nobody refers  *)
(* to it; outside Reuse_Entity, not at zero somebody does; at one, who     *)
(* refers to it is the only one.                                           *)
Counted ==
  \A b \in Objects :
    /\ Counter[b] = 0 => Unreferenced(b)
    /\ Counter[b] # 0 /\ lock = NoTask => ~Unreferenced(b)
    /\ Counter[b] = 1 => \A u \in AllUsers : Uses(u, b) => Sole(u, b)

(* Unreferenced says that the object has no users.                         *)
LEMMA NoUsers ==
  ASSUME NEW b \in Objects
  PROVE  Unreferenced(b) <=> users[b] = {}
<1>1. Unreferenced(b) <=> \A x \in AllUsers : ~Uses(x, b)
  BY BindingAssumption DEF Unreferenced, Uses, AllUsers, Tasks
<1> QED BY <1>1, UsersSet

(* Exact counters decide as Counted says.                                  *)
LEMMA ExactCounted ==
  ASSUME Places, CounterExact
  PROVE  Counted
<1> SUFFICES ASSUME NEW b \in Objects
             PROVE  /\ Counter[b] = 0 => Unreferenced(b)
                    /\ Counter[b] # 0 /\ lock = NoTask => ~Unreferenced(b)
                    /\ Counter[b] = 1 =>
                         \A u \in AllUsers : Uses(u, b) => Sole(u, b)
  BY DEF Counted
<1>1. Counter[b] = Cardinality(users[b]) + Cardinality(Reusing(b))
  BY DEF CounterExact
<1>2. users[b] \subseteq AllUsers /\ Reusing(b) \subseteq AllUsers
  BY UsersSet DEF Reusing, AllUsers
<1>3. /\ IsFiniteSet(users[b]) /\ Cardinality(users[b]) \in Nat
      /\ IsFiniteSet(Reusing(b)) /\ Cardinality(Reusing(b)) \in Nat
  BY <1>2, UsersFinite
<1>4. /\ Cardinality(users[b]) = 0 <=> users[b] = {}
      /\ Cardinality(Reusing(b)) = 0 <=> Reusing(b) = {}
  BY <1>3, FS_EmptySet
<1>5. Counter[b] = 0 => Unreferenced(b)
  BY <1>1, <1>3, <1>4, NoUsers
<1>6. lock = NoTask => Reusing(b) = {}
  BY BindingAssumption DEF Places, ReuseHoldsLock, Reusing, At
<1>7. Counter[b] # 0 /\ lock = NoTask => ~Unreferenced(b)
  BY <1>1, <1>3, <1>4, <1>6, NoUsers
<1>8. ASSUME Counter[b] = 1, NEW x \in AllUsers, NEW y \in AllUsers,
             Uses(x, b), Uses(y, b), x # y
      PROVE  FALSE
  <2>1. x \in users[b] /\ y \in users[b]
    BY <1>8, UsersSet
  <2> DEFINE R == users[b] \ {x}
  <2>2. IsFiniteSet(R) /\ Cardinality(R) = Cardinality(users[b]) - 1
    BY <2>1, <1>3, FS_RemoveElement
  <2>3. y \in R
    BY <2>1, <1>8
  <2> HIDE DEF R
  <2>4. Cardinality(R) # 0
    BY <2>2, <2>3, FS_EmptySet
  <2>5. Cardinality(R) \in Nat
    BY <2>2, FS_CardinalityType
  <2> QED BY <2>2, <2>4, <2>5, <1>1, <1>3, <1>8
<1>9. ASSUME Counter[b] = 1, NEW u \in AllUsers, Uses(u, b)
      PROVE  Sole(u, b)
  <2>1. \A x \in AllUsers : Uses(x, b) => x = u
    BY <1>8, <1>9
  <2> QED BY <2>1, BindingAssumption DEF Sole, Uses, AllUsers, Tasks
<1> QED BY <1>5, <1>7, <1>9

-----------------------------------------------------------------------------
(* What a step does to the references.                                     *)

SameUsers == \A b \in Objects, x \in AllUsers : Uses(x, b)' <=> Uses(x, b)

SameReusing == \A b \in Objects : Reusing(b)' = Reusing(b)

Gained(c, u) ==
  /\ ~Uses(u, c)
  /\ \A b \in Objects, x \in AllUsers :
       Uses(x, b)' <=> Uses(x, b) \/ (b = c /\ x = u)

(* A reference that was not there, to a new object.                        *)
Created(c, u) ==
  /\ Gained(c, u) /\ SameReusing
  /\ Counter' = [Counter EXCEPT ![c] = @ + 1]
  /\ life[c] = "none" /\ life' = [life EXCEPT ![c] = "live"]

(* Another reference to an object that has one.                            *)
Acquired(c, u) ==
  /\ Gained(c, u) /\ SameReusing
  /\ Counter' = [Counter EXCEPT ![c] = @ + 1]
  /\ life[c] = "live" /\ ~Unreferenced(c) /\ life' = life

Released(c, u) ==
  /\ Uses(u, c) /\ SameReusing
  /\ \A b \in Objects, x \in AllUsers :
       Uses(x, b)' <=> Uses(x, b) /\ ~(b = c /\ x = u)
  /\ Counter' = [Counter EXCEPT ![c] = @ - 1] /\ life' = life

Destroyed(c) ==
  /\ SameUsers /\ SameReusing /\ Counter' = Counter
  /\ life[c] = "live" /\ Unreferenced(c)
  /\ life' = [life EXCEPT ![c] = "freed"]

(* An increment of Reuse_Entity that it undoes, and the reset.             *)
Tried(c, t) ==
  /\ SameUsers /\ t \notin Reusing(c)
  /\ \A b \in Objects :
       Reusing(b)' = IF b = c THEN Reusing(b) \cup {t} ELSE Reusing(b)
  /\ Counter' = [Counter EXCEPT ![c] = @ + 1] /\ life' = life

Undone(c, t) ==
  /\ SameUsers /\ t \in Reusing(c)
  /\ \A b \in Objects :
       Reusing(b)' = IF b = c THEN Reusing(b) \ {t} ELSE Reusing(b)
  /\ Counter' = [Counter EXCEPT ![c] = @ - 1] /\ life' = life

Quiet == SameUsers /\ SameReusing /\ Counter' = Counter /\ life' = life

Effect ==
  \/ Quiet
  \/ \E c \in Objects :
       \/ Destroyed(c)
       \/ \E u \in AllUsers : Created(c, u) \/ Acquired(c, u) \/ Released(c, u)
       \/ \E t \in Tasks : Tried(c, t) \/ Undone(c, t)

-----------------------------------------------------------------------------
(* The steps: each keeps every source, reference and task in its place,    *)
(* and has one effect on the references.                                   *)

(* Get_Binding_Objects takes the closed objects of P, and those that were  *)
(* freed while in the list, out of the list, and nothing else changes but  *)
(* what the caller does.                                                   *)
Purged(P) ==
  /\ P \subseteq objects
  /\ \A b \in P : life[b] = "freed" \/ Closed[b]
  /\ objects' = objects \ P
  /\ Referenced' = [b \in Objects |-> b \notin P /\ Referenced[b]]
  /\ UNCHANGED <<life, source, refs>>

(* What Get_Binding_Objects does: a match is reused, or there is none.     *)
LEMMA GetCases ==
  ASSUME NEW t \in Tasks, Get_Binding_Objects(t)
  PROVE  /\ t \in Clients /\ pc[t] = "idle" /\ lock = NoTask
         /\ \E P \in SUBSET objects :
              /\ Purged(P)
              /\ \/ \E b \in objects \cap Outgoing :
                      ~Closed[b] /\ Reuse_Entity(t, b)
                 \/ Goto(t, "create") /\ UNCHANGED <<Counter, lock>>
<1> USE DEF Get_Binding_Objects, CanEnter, At, Purged
<1> DEFINE invalid == {b \in objects : life[b] = "freed" \/ Closed[b]}
           purge(P) ==
             /\ objects' = objects \ P
             /\ Referenced' = [b \in Objects |-> b \notin P /\ Referenced[b]]
<1>1. \A P \in SUBSET invalid : purge(P) => P \in SUBSET objects /\ Purged(P)
  OBVIOUS
<1>2. CASE \E b \in {b \in objects \cap Outgoing : ~Closed[b]},
              P \in SUBSET invalid : purge(P) /\ Reuse_Entity(t, b)
  BY <1>1, <1>2
<1>3. CASE /\ \E F \in SUBSET {b \in invalid : life[b] = "freed"} :
                purge(invalid \ F)
           /\ Goto(t, "create") /\ UNCHANGED <<Counter, lock>>
  BY <1>1, <1>3
<1> QED BY <1>2, <1>3

(* A client that finds a match reuses it, or tries to when the object has  *)
(* lost its last reference; one that finds none changes no reference.      *)
LEMMA Get_Binding_ObjectsStep ==
  ASSUME NEW t \in Tasks, Places, Counted, Get_Binding_Objects(t)
  PROVE  /\ Places'
         /\ Quiet \/ \E b \in Objects : Acquired(b, t) \/ Tried(b, t)
<1>1. t \in Clients /\ pc[t] = "idle" /\ lock = NoTask
  BY GetCases
<1>2. PICK P \in SUBSET objects :
        /\ Purged(P)
        /\ \/ \E b \in objects \cap Outgoing :
                ~Closed[b] /\ Reuse_Entity(t, b)
           \/ Goto(t, "create") /\ UNCHANGED <<Counter, lock>>
  BY GetCases
<1> USE <1>1, BindingAssumption
      DEF Places, Shape, Roles, Purged, source, refs, Tasks, Objects
<1>3. CASE Goto(t, "create") /\ UNCHANGED <<Counter, lock>>
  <2> USE <1>2, <1>3 DEF Goto
  <2>1. Shape'  OBVIOUS
  <2>2. Roles'  OBVIOUS
  <2>3. ReuseHoldsLock'  BY DEF ReuseHoldsLock
  <2>4. Unused'  BY DEF Unused
  <2>5. OnePlace'  BY DEF OnePlace, InSession
  <2>6. SetUp'  BY DEF SetUp
  <2>7. Kept'  BY DEF Kept, Unreferenced, Holding
  <2>8. Finalized'  BY DEF Finalized, Finalizing, Unreferenced, Holding
  <2>9. UndoneUnused'  BY DEF UndoneUnused, Unreferenced, Holding
  <2>10. ListExact'  BY DEF ListExact
  <2>11. Quiet
    BY DEF Quiet, SameUsers, SameReusing, Uses, Reusing, Holding, AllUsers, At
  <2> QED BY <2>1, <2>2, <2>3, <2>4, <2>5, <2>6, <2>7, <2>8, <2>9, <2>10,
             <2>11
<1>4. ASSUME NEW b \in objects \cap Outgoing, ~Closed[b], Reuse_Entity(t, b)
      PROVE  Places' /\ (Acquired(b, t) \/ Tried(b, t))
  <2> USE <1>2, <1>4 DEF Reuse_Entity, Inc_Usage, Work
  <2>1. Shape'  OBVIOUS
  <2>2. Roles'  OBVIOUS
  <2>3. ReuseHoldsLock'  BY DEF ReuseHoldsLock
  <2>4. Unused'  BY DEF Unused
  <2>5. OnePlace'  BY DEF OnePlace, InSession
  <2>6. SetUp'  BY DEF SetUp
  <2>7. Kept'  BY DEF Kept, Unreferenced, Holding, ListExact
  <2>8. Finalized'
    BY DEF Finalized, Finalizing, Counted, Unreferenced, Holding
  <2>9. UndoneUnused'
    BY DEF UndoneUnused, ReuseHoldsLock, Counted, Unreferenced, Holding
  <2>10. ListExact'  BY DEF ListExact
  <2>11. Acquired(b, t) \/ Tried(b, t)
    BY DEF Acquired, Gained, Tried, SameUsers, SameReusing, Uses, Reusing,
           Holding, AllUsers, At, Counted, ListExact
  <2> QED BY <2>1, <2>2, <2>3, <2>4, <2>5, <2>6, <2>7, <2>8, <2>9, <2>10,
             <2>11
<1> QED BY <1>2, <1>3, <1>4

(* Bind keeps the reference it reuses.                                     *)
LEMMA Bind_ExistingStep ==
  ASSUME NEW t \in Tasks, Places, Counted, Bind_Existing(t)
  PROVE  Places' /\ Quiet
<1> USE BindingAssumption DEF Places, Shape, Roles, Bind_Existing, At, Goto,
          list, source, refs, Tasks, Objects
<1>1. Shape'  OBVIOUS
<1>2. Roles'  OBVIOUS
<1>3. ReuseHoldsLock'  BY DEF ReuseHoldsLock
<1>4. Unused'  BY DEF Unused
<1>5. OnePlace'  BY DEF OnePlace, InSession
<1>6. SetUp'  BY DEF SetUp
<1>7. Kept'  BY DEF Kept, Unreferenced, Holding
<1>8. Finalized'  BY DEF Finalized, Finalizing, Unreferenced, Holding
<1>9. UndoneUnused'  BY DEF UndoneUnused, Unreferenced, Holding
<1>10. ListExact'  BY DEF ListExact
<1>11. Quiet
  BY DEF Quiet, SameUsers, SameReusing, Uses, Reusing, Holding, AllUsers
<1> QED BY <1>1, <1>2, <1>3, <1>4, <1>5, <1>6, <1>7, <1>8, <1>9, <1>10,
           <1>11

(* Bind_Profile creates an object with one reference, or fails.            *)
LEMMA Bind_ProfileStep ==
  ASSUME NEW t \in Tasks, Places, Counted, Bind_Profile(t)
  PROVE  Places' /\ (Quiet \/ \E b \in Outgoing : Created(b, t))
<1> USE BindingAssumption DEF Places, Shape, Roles, Bind_Profile, At, Idle,
          Work, Inc_Usage, list, source, refs, Tasks, Objects
<1>1. Shape'  OBVIOUS
<1>2. Roles'  OBVIOUS
<1>3. ReuseHoldsLock'  BY DEF ReuseHoldsLock
<1>4. Unused'  BY DEF Unused
<1>5. OnePlace'  BY DEF OnePlace, InSession, Unused
<1>6. SetUp'  BY DEF SetUp, Unused
<1>7. Kept'  BY DEF Kept, Unreferenced, Holding
<1>8. Finalized'  BY DEF Finalized, Finalizing, Unreferenced, Holding
<1>9. UndoneUnused'  BY DEF UndoneUnused, Unused, Unreferenced, Holding
<1>10. ListExact'  BY DEF ListExact
<1>11. Quiet \/ \E b \in Outgoing : Created(b, t)
  BY DEF Quiet, Created, Gained, SameUsers, SameReusing, Uses, Reusing,
         Holding, AllUsers, Unused
<1> QED BY <1>1, <1>2, <1>3, <1>4, <1>5, <1>6, <1>7, <1>8, <1>9, <1>10,
           <1>11

(* Register_Binding_Object starts to monitor the source.                   *)
LEMMA Register_Binding_ObjectStep ==
  ASSUME NEW t \in Tasks, Places, Counted, Register_Binding_Object(t)
  PROVE  Places' /\ Quiet
<1> USE BindingAssumption DEF Places, Shape, Roles, Register_Binding_Object,
          At, Goto, CanEnter, list, source, refs, Tasks, Objects
<1>1. Shape'  OBVIOUS
<1>2. Roles'  OBVIOUS
<1>3. ReuseHoldsLock'  BY DEF ReuseHoldsLock
<1>4. Unused'  BY DEF Unused
<1>5. OnePlace'  BY DEF OnePlace, InSession
<1>6. SetUp'  BY DEF SetUp
<1>7. Kept'
  BY DEF Shape, Roles, ReuseHoldsLock, Unused, OnePlace, SetUp, Kept,
         Finalized, UndoneUnused, ListExact, Counted, InSession, Finalizing,
         Unreferenced, Holding, Sole, Uses, AllUsers
<1>8. Finalized'  BY DEF Finalized, Finalizing, Unreferenced, Holding
<1>9. UndoneUnused'  BY DEF UndoneUnused, Unreferenced, Holding
<1>10. ListExact'  BY DEF ListExact
<1>11. Quiet
  BY DEF Quiet, SameUsers, SameReusing, Uses, Reusing, Holding, AllUsers
<1> QED BY <1>1, <1>2, <1>3, <1>4, <1>5, <1>6, <1>7, <1>8, <1>9, <1>10,
           <1>11

(* The new object joins the list.                                          *)
LEMMA Add_Binding_ObjectStep ==
  ASSUME NEW t \in Tasks, Places, Counted, Add_Binding_Object(t)
  PROVE  Places' /\ Quiet
<1> USE BindingAssumption DEF Places, Shape, Roles, Add_Binding_Object, At,
          Goto, Idle, CanEnter, list, source, refs, Tasks, Objects
<1>1. Shape'  OBVIOUS
<1>2. Roles'  OBVIOUS
<1>3. ReuseHoldsLock'  BY DEF ReuseHoldsLock
<1>4. Unused'  BY DEF Unused
<1>5. OnePlace'  BY DEF OnePlace, InSession
<1>6. SetUp'  BY DEF SetUp
<1>7. Kept'  BY DEF Kept, Unreferenced, Holding
<1>8. Finalized'  BY DEF Finalized, Finalizing, Unreferenced, Holding
<1>9. UndoneUnused'  BY DEF UndoneUnused, Unreferenced, Holding
<1>10. ListExact'
  BY DEF Shape, Roles, ReuseHoldsLock, Unused, OnePlace, SetUp, Kept,
         Finalized, UndoneUnused, ListExact, Counted, InSession, Finalizing,
         Unreferenced, Holding, Sole, Uses, AllUsers
<1>11. Quiet
  BY DEF Quiet, SameUsers, SameReusing, Uses, Reusing, Holding, AllUsers
<1> QED BY <1>1, <1>2, <1>3, <1>4, <1>5, <1>6, <1>7, <1>8, <1>9, <1>10,
           <1>11

(* A client gives up its reference, and finalizes the object if it was the *)
(* last.                                                                   *)
LEMMA UnbindStep ==
  ASSUME NEW t \in Tasks, Places, Counted, Unbind(t)
  PROVE  Places' /\ Released(obj[t], t)
<1> USE BindingAssumption DEF Places, Shape, Roles, Unbind, At, Idle, Work,
          Dec_Usage, list, source, refs, Tasks, Objects
<1>1. Shape'  OBVIOUS
<1>2. Roles'  OBVIOUS
<1>3. ReuseHoldsLock'  BY DEF ReuseHoldsLock
<1>4. Unused'  BY DEF Unused
<1>5. OnePlace'  BY DEF OnePlace, InSession
<1>6. SetUp'  BY DEF SetUp
<1>7. Kept'  BY DEF Kept, Unreferenced, Holding
<1>8. Finalized'
  BY DEF Finalized, Finalizing, Counted, Kept, Unreferenced, Holding, Sole,
         Uses, AllUsers
<1>9. UndoneUnused'  BY DEF UndoneUnused, Unreferenced, Holding
<1>10. ListExact'  BY DEF ListExact
<1>11. Released(obj[t], t)
  BY DEF Released, SameUsers, SameReusing, Uses, Reusing, Holding, AllUsers
<1> QED BY <1>1, <1>2, <1>3, <1>4, <1>5, <1>6, <1>7, <1>8, <1>9, <1>10,
           <1>11

(* An accepted connection has the reference of its endpoint.               *)
LEMMA Accept_ConnectionStep ==
  ASSUME NEW t \in Tasks, Places, Counted, Accept_Connection(t)
  PROVE  Places' /\ (\E b \in Incoming : Created(b, "TE"))
<1> USE BindingAssumption DEF Places, Shape, Roles, Accept_Connection, At,
          Work, Inc_Usage, list, source, refs, Tasks, Objects
<1>1. Shape'  OBVIOUS
<1>2. Roles'  OBVIOUS
<1>3. ReuseHoldsLock'  BY DEF ReuseHoldsLock
<1>4. Unused'  BY DEF Unused
<1>5. OnePlace'  BY DEF OnePlace, InSession, Unused
<1>6. SetUp'  BY DEF SetUp, Unused
<1>7. Kept'  BY DEF Kept, Unreferenced, Holding
<1>8. Finalized'  BY DEF Finalized, Finalizing, Unreferenced, Holding
<1>9. UndoneUnused'  BY DEF UndoneUnused, Unused, Unreferenced, Holding
<1>10. ListExact'  BY DEF ListExact
<1>11. \E b \in Incoming : Created(b, "TE")
  <2>1. PICK b \in Incoming :
          /\ life[b] = "none" /\ life' = [life EXCEPT ![b] = "live"]
          /\ Counter' = [Counter EXCEPT ![b] = @ + 1]
          /\ te' = [te EXCEPT ![b] = TRUE]
          /\ pc' = [pc EXCEPT ![t] = "register"]
          /\ obj' = [obj EXCEPT ![t] = b]
    OBVIOUS
  <2>2. Created(b, "TE")
    BY <2>1 DEF Created, Gained, SameUsers, SameReusing, Uses, Reusing,
         Holding, AllUsers, Unused
  <2> QED BY <2>2
<1> QED BY <1>1, <1>2, <1>3, <1>4, <1>5, <1>6, <1>7, <1>8, <1>9, <1>10,
           <1>11

(* A poll takes the source out of its monitor.                             *)
LEMMA Check_SourcesStep ==
  ASSUME NEW t \in Tasks, NEW b \in Objects, Places, Counted,
         Check_Sources(t, b)
  PROVE  Places' /\ Quiet
<1> USE BindingAssumption DEF Places, Shape, Roles, Check_Sources, At, Work,
          list, source, refs, Tasks, Objects
<1>1. Shape'  OBVIOUS
<1>2. Roles'  OBVIOUS
<1>3. ReuseHoldsLock'  BY DEF ReuseHoldsLock
<1>4. Unused'  BY DEF Unused
<1>5. OnePlace'  BY DEF OnePlace, InSession
<1>6. SetUp'  BY DEF SetUp, OnePlace, InSession
<1>7. Kept'  BY DEF Kept, Unreferenced, Holding
<1>8. Finalized'  BY DEF Finalized, Finalizing, Unreferenced, Holding
<1>9. UndoneUnused'  BY DEF UndoneUnused, Unreferenced, Holding
<1>10. ListExact'  BY DEF ListExact
<1>11. Quiet
  BY DEF Quiet, SameUsers, SameReusing, Uses, Reusing, Holding, AllUsers
<1> QED BY <1>1, <1>2, <1>3, <1>4, <1>5, <1>6, <1>7, <1>8, <1>9, <1>10,
           <1>11

(* The event takes a reference, or finds the object without users.         *)
LEMMA StabilizeStep ==
  ASSUME NEW t \in Tasks, Places, Counted, Stabilize(t)
  PROVE  Places' /\ (Acquired(obj[t], "Handler") \/ Tried(obj[t], t))
<1> USE BindingAssumption DEF Places, Shape, Roles, Stabilize, At, Work,
          CanEnter, Inc_Usage, Reuse_Entity, list, source, refs, Tasks,
          Objects
<1>1. Shape'  OBVIOUS
<1>2. Roles'  OBVIOUS
<1>3. ReuseHoldsLock'  BY DEF ReuseHoldsLock
<1>4. Unused'  BY DEF Unused
<1>5. OnePlace'  BY DEF OnePlace, InSession
<1>6. SetUp'  BY DEF SetUp
<1>7. Kept'
  BY DEF Kept, Counted, Unreferenced, Holding, Sole, Uses, AllUsers
<1>8. Finalized'
  BY DEF Finalized, Finalizing, Counted, Unreferenced, Holding
<1>9. UndoneUnused'  BY DEF UndoneUnused, Counted, Unreferenced, Holding
<1>10. ListExact'  BY DEF ListExact
<1>11. Acquired(obj[t], "Handler") \/ Tried(obj[t], t)
  BY DEF Acquired, Gained, Tried, SameUsers, SameReusing, Uses, Reusing,
         Holding, AllUsers, Counted, OnePlace, InSession, Kept
<1> QED BY <1>1, <1>2, <1>3, <1>4, <1>5, <1>6, <1>7, <1>8, <1>9, <1>10,
           <1>11

(* Reuse_Entity resets the counter.                                        *)
LEMMA UndoStep ==
  ASSUME NEW t \in Tasks, Places, Counted, Undo(t)
  PROVE  Places' /\ Undone(obj[t], t)
<1> USE BindingAssumption DEF Places, Shape, Roles, Undo, At, Idle, Work,
          list, source, refs, Tasks, Objects
<1>1. Shape'  OBVIOUS
<1>2. Roles'  OBVIOUS
<1>3. ReuseHoldsLock'  BY DEF ReuseHoldsLock
<1>4. Unused'  BY DEF Unused
<1>5. OnePlace'  BY DEF OnePlace, InSession
<1>6. SetUp'  BY DEF SetUp
<1>7. Kept'  BY DEF Kept, Unreferenced, Holding
<1>8. Finalized'  BY DEF Finalized, Finalizing, Unreferenced, Holding
<1>9. UndoneUnused'  BY DEF UndoneUnused, Unreferenced, Holding
<1>10. ListExact'  BY DEF ListExact
<1>11. Undone(obj[t], t)
  BY DEF Undone, SameUsers, SameReusing, Uses, Reusing, Holding, AllUsers
<1> QED BY <1>1, <1>2, <1>3, <1>4, <1>5, <1>6, <1>7, <1>8, <1>9, <1>10,
           <1>11

(* The reference passes to the queued handler.                             *)
LEMMA Queue_Event_JobStep ==
  ASSUME NEW t \in Tasks, Places, Counted, Queue_Event_Job(t)
  PROVE  Places' /\ Quiet
<1> USE BindingAssumption DEF Places, Shape, Roles, Queue_Event_Job, At,
          Idle, list, source, refs, Tasks, Objects
<1>1. Shape'  OBVIOUS
<1>2. Roles'  OBVIOUS
<1>3. ReuseHoldsLock'  BY DEF ReuseHoldsLock
<1>4. Unused'  BY DEF Unused
<1>5. OnePlace'  BY DEF OnePlace, InSession
<1>6. SetUp'  BY DEF SetUp
<1>7. Kept'  BY DEF Kept, Unreferenced, Holding
<1>8. Finalized'  BY DEF Finalized, Finalizing, Unreferenced, Holding
<1>9. UndoneUnused'  BY DEF UndoneUnused, Unreferenced, Holding
<1>10. ListExact'  BY DEF ListExact
<1>11. Quiet
  BY DEF Quiet, SameUsers, SameReusing, Uses, Reusing, Holding, AllUsers,
         OnePlace, InSession, ReuseHoldsLock
<1> QED BY <1>1, <1>2, <1>3, <1>4, <1>5, <1>6, <1>7, <1>8, <1>9, <1>10,
           <1>11

(* Handle_Event takes a reference of its own.                              *)
LEMMA Handle_EventStep ==
  ASSUME NEW t \in Tasks, NEW b \in Objects, Places, Counted,
         Handle_Event(t, b)
  PROVE  Places' /\ Acquired(b, t)
<1> USE BindingAssumption DEF Places, Shape, Roles, Handle_Event, At, Work,
          Inc_Usage, Queued, list, source, refs, Tasks, Objects
<1>1. Shape'  OBVIOUS
<1>2. Roles'  OBVIOUS
<1>3. ReuseHoldsLock'  BY DEF ReuseHoldsLock
<1>4. Unused'  BY DEF Unused
<1>5. OnePlace'  BY DEF OnePlace, InSession
<1>6. SetUp'  BY DEF SetUp, OnePlace, InSession
<1>7. Kept'  BY DEF Kept, Unreferenced, Holding
<1>8. Finalized'  BY DEF Finalized, Finalizing, Unreferenced, Holding
<1>9. UndoneUnused'  BY DEF UndoneUnused, Unreferenced, Holding
<1>10. ListExact'  BY DEF ListExact
<1>11. Acquired(b, t)
  BY DEF Acquired, Gained, SameUsers, SameReusing, Uses, Reusing, Holding,
         AllUsers, Kept, Unreferenced
<1> QED BY <1>1, <1>2, <1>3, <1>4, <1>5, <1>6, <1>7, <1>8, <1>9, <1>10,
           <1>11

(* The handler releases its reference.                                     *)
LEMMA ReleaseStep ==
  ASSUME NEW t \in Tasks, Places, Counted, Release(t)
  PROVE  Places' /\ Released(obj[t], "Handler")
<1> USE BindingAssumption DEF Places, Shape, Roles, Release, At, Goto, list,
          source, refs, Tasks, Objects
<1>1. Shape'  OBVIOUS
<1>2. Roles'  OBVIOUS
<1>3. ReuseHoldsLock'  BY DEF ReuseHoldsLock
<1>4. Unused'  BY DEF Unused
<1>5. OnePlace'  BY DEF OnePlace, InSession
<1>6. SetUp'  BY DEF SetUp
<1>7. Kept'  BY DEF Kept, Unreferenced, Holding
<1>8. Finalized'  BY DEF Finalized, Finalizing, Unreferenced, Holding
<1>9. UndoneUnused'  BY DEF UndoneUnused, Unreferenced, Holding
<1>10. ListExact'  BY DEF ListExact
<1>11. Released(obj[t], "Handler")
  BY DEF Released, SameUsers, SameReusing, Uses, Reusing, Holding, AllUsers,
         OnePlace, InSession
<1> QED BY <1>1, <1>2, <1>3, <1>4, <1>5, <1>6, <1>7, <1>8, <1>9, <1>10,
           <1>11

(* A request may take a reference.                                         *)
LEMMA EmitStep ==
  ASSUME NEW t \in Tasks, Places, Counted, Emit(t)
  PROVE  Places' /\ (Acquired(obj[t], "Request") \/ Quiet)
<1> USE BindingAssumption DEF Places, Shape, Roles, Emit, At, Goto,
          Inc_Usage, list, source, refs, Tasks, Objects
<1>1. Shape'
  <2>1. \/ request' = request /\ Counter' = Counter
        \/ /\ request' = [request EXCEPT ![obj[t]] = TRUE]
           /\ Counter' = [Counter EXCEPT ![obj[t]] = @ + 1]
    OBVIOUS
  <2>2. request' \in [Objects -> BOOLEAN]
    BY <2>1
  <2>3. Counter' \in [Objects -> Int]
    BY <2>1
  <2> QED BY <2>2, <2>3
<1>2. Roles'  OBVIOUS
<1>3. ReuseHoldsLock'  BY DEF ReuseHoldsLock
<1>4. Unused'  BY DEF Unused
<1>5. OnePlace'  BY DEF OnePlace, InSession
<1>6. SetUp'  BY DEF SetUp
<1>7. Kept'  BY DEF Kept, Unreferenced, Holding
<1>8. Finalized'  BY DEF Finalized, Finalizing, Unreferenced, Holding
<1>9. UndoneUnused'  BY DEF UndoneUnused, Unreferenced, Holding
<1>10. ListExact'  BY DEF ListExact
<1>11. Acquired(obj[t], "Request") \/ Quiet
  BY DEF Quiet, Acquired, Gained, SameUsers, SameReusing, Uses, Reusing,
         Holding, AllUsers, Kept, Unreferenced
<1> QED BY <1>1, <1>2, <1>3, <1>4, <1>5, <1>6, <1>7, <1>8, <1>9, <1>10,
           <1>11

(* The source is monitored again.                                          *)
LEMMA Monitor_EndpointStep ==
  ASSUME NEW t \in Tasks, Places, Counted, Monitor_Endpoint(t)
  PROVE  Places' /\ Quiet
<1> USE BindingAssumption DEF Places, Shape, Roles, Monitor_Endpoint, At,
          Goto, CanEnter, list, source, refs, Tasks, Objects
<1>1. Shape'  OBVIOUS
<1>2. Roles'  OBVIOUS
<1>3. ReuseHoldsLock'  BY DEF ReuseHoldsLock
<1>4. Unused'  BY DEF Unused
<1>5. OnePlace'  BY DEF OnePlace, InSession
<1>6. SetUp'  BY DEF SetUp
<1>7. Kept'  BY DEF Kept, Unreferenced, Holding
<1>8. Finalized'  BY DEF Finalized, Finalizing, Unreferenced, Holding
<1>9. UndoneUnused'  BY DEF UndoneUnused, Unreferenced, Holding
<1>10. ListExact'  BY DEF ListExact
<1>11. Quiet
  BY DEF Quiet, SameUsers, SameReusing, Uses, Reusing, Holding, AllUsers
<1> QED BY <1>1, <1>2, <1>3, <1>4, <1>5, <1>6, <1>7, <1>8, <1>9, <1>10,
           <1>11

(* The endpoint is closed.                                                 *)
LEMMA DisconnectStep ==
  ASSUME NEW t \in Tasks, Places, Counted, Disconnect(t)
  PROVE  Places' /\ Quiet
<1> USE BindingAssumption DEF Places, Shape, Roles, Disconnect, At, Goto,
          CanEnter, Close, list, source, refs, Tasks, Objects
<1>1. Shape'  OBVIOUS
<1>2. Roles'  OBVIOUS
<1>3. ReuseHoldsLock'  BY DEF ReuseHoldsLock
<1>4. Unused'  BY DEF Unused
<1>5. OnePlace'  BY DEF OnePlace, InSession
<1>6. SetUp'  BY DEF SetUp
<1>7. Kept'  BY DEF Kept, Unreferenced, Holding
<1>8. Finalized'  BY DEF Finalized, Finalizing, Unreferenced, Holding
<1>9. UndoneUnused'  BY DEF UndoneUnused, Unreferenced, Holding
<1>10. ListExact'  BY DEF ListExact
<1>11. Quiet
  BY DEF Quiet, SameUsers, SameReusing, Uses, Reusing, Holding, AllUsers
<1> QED BY <1>1, <1>2, <1>3, <1>4, <1>5, <1>6, <1>7, <1>8, <1>9, <1>10,
           <1>11

(* The closed endpoint releases its reference, if it has one.              *)
LEMMA DetachStep ==
  ASSUME NEW t \in Tasks, Places, Counted, Detach(t)
  PROVE  Places' /\ (Released(obj[t], "TE") \/ Quiet)
<1> USE BindingAssumption DEF Places, Shape, Roles, Detach, At, Goto, list,
          source, refs, Tasks, Objects
<1>1. Shape'
  <2>1. \/ te' = te /\ Counter' = Counter
        \/ /\ te' = [te EXCEPT ![obj[t]] = FALSE]
           /\ Counter' = [Counter EXCEPT ![obj[t]] = @ - 1]
    OBVIOUS
  <2>2. te' \in [Objects -> BOOLEAN]
    BY <2>1
  <2>3. Counter' \in [Objects -> Int]
    BY <2>1
  <2> QED BY <2>2, <2>3
<1>2. Roles'  OBVIOUS
<1>3. ReuseHoldsLock'  BY DEF ReuseHoldsLock
<1>4. Unused'  BY DEF Unused
<1>5. OnePlace'  BY DEF OnePlace, InSession
<1>6. SetUp'  BY DEF SetUp
<1>7. Kept'  BY DEF Kept, Unreferenced, Holding
<1>8. Finalized'  BY DEF Finalized, Finalizing, Unreferenced, Holding
<1>9. UndoneUnused'  BY DEF UndoneUnused, Unreferenced, Holding
<1>10. ListExact'  BY DEF ListExact
<1>11. Released(obj[t], "TE") \/ Quiet
  BY DEF Quiet, Released, SameUsers, SameReusing, Uses, Reusing, Holding,
         AllUsers
<1> QED BY <1>1, <1>2, <1>3, <1>4, <1>5, <1>6, <1>7, <1>8, <1>9, <1>10,
           <1>11

(* Handle_Event drops its own reference, and finalizes the object if it    *)
(* was the last.                                                           *)
LEMMA LeaveStep ==
  ASSUME NEW t \in Tasks, Places, Counted, Leave(t)
  PROVE  Places' /\ Released(obj[t], t)
<1> USE BindingAssumption DEF Places, Shape, Roles, Leave, At, Idle, Work,
          Dec_Usage, list, source, refs, Tasks, Objects
<1>1. Shape'  OBVIOUS
<1>2. Roles'  OBVIOUS
<1>3. ReuseHoldsLock'  BY DEF ReuseHoldsLock
<1>4. Unused'  BY DEF Unused
<1>5. OnePlace'  BY DEF OnePlace, InSession
<1>6. SetUp'  BY DEF SetUp
<1>7. Kept'  BY DEF Kept, Unreferenced, Holding
<1>8. Finalized'
  BY DEF Finalized, Finalizing, Counted, Kept, Unreferenced, Holding, Sole,
         Uses, AllUsers
<1>9. UndoneUnused'  BY DEF UndoneUnused, Unreferenced, Holding
<1>10. ListExact'  BY DEF ListExact
<1>11. Released(obj[t], t)
  BY DEF Released, SameUsers, SameReusing, Uses, Reusing, Holding, AllUsers
<1> QED BY <1>1, <1>2, <1>3, <1>4, <1>5, <1>6, <1>7, <1>8, <1>9, <1>10,
           <1>11

(* A request drops its reference, and its task finalizes the object if it  *)
(* was the last.                                                           *)
LEMMA Destroy_RequestStep ==
  ASSUME NEW t \in Tasks, NEW b \in Objects, Places, Counted,
         Destroy_Request(t, b)
  PROVE  Places' /\ Released(b, "Request")
<1> USE BindingAssumption DEF Places, Shape, Roles, Destroy_Request, At,
          Idle, Work, Dec_Usage, list, source, refs, Tasks, Objects
<1>1. Shape'  OBVIOUS
<1>2. Roles'  OBVIOUS
<1>3. ReuseHoldsLock'  BY DEF ReuseHoldsLock
<1>4. Unused'  BY DEF Unused
<1>5. OnePlace'  BY DEF OnePlace, InSession
<1>6. SetUp'  BY DEF SetUp
<1>7. Kept'  BY DEF Kept, Unreferenced, Holding
<1>a. Counter[b] = 1 => Sole("Request", b)
  BY DEF Counted, Uses, AllUsers
<1>8. Finalized'
  BY <1>a DEF Finalized, Finalizing, Kept, Unreferenced, Holding, Sole
<1>9. UndoneUnused'  BY DEF UndoneUnused, Unreferenced, Holding
<1>10. ListExact'  BY DEF ListExact
<1>11. Released(b, "Request")
  BY DEF Released, SameUsers, SameReusing, Uses, Reusing, Holding, AllUsers
<1> QED BY <1>1, <1>2, <1>3, <1>4, <1>5, <1>6, <1>7, <1>8, <1>9, <1>10,
           <1>11

(* Finalize takes the object out of the list.                              *)
LEMMA Unregister_Binding_ObjectStep ==
  ASSUME NEW t \in Tasks, Places, Counted, Unregister_Binding_Object(t)
  PROVE  Places' /\ Quiet
<1> USE BindingAssumption DEF Places, Shape, Roles,
          Unregister_Binding_Object, At, Goto, CanEnter, list, source, refs,
          Tasks, Objects
<1>1. Shape'  OBVIOUS
<1>2. Roles'  OBVIOUS
<1>3. ReuseHoldsLock'  BY DEF ReuseHoldsLock
<1>4. Unused'  BY DEF Unused
<1>5. OnePlace'  BY DEF OnePlace, InSession
<1>6. SetUp'  BY DEF SetUp
<1>7. Kept'  BY DEF Kept, Unreferenced, Holding
<1>8. Finalized'
  BY DEF Shape, Roles, ReuseHoldsLock, Unused, OnePlace, SetUp, Kept,
         Finalized, UndoneUnused, ListExact, Counted, InSession, Finalizing,
         Unreferenced, Holding, Sole, Uses, AllUsers
<1>9. UndoneUnused'  BY DEF UndoneUnused, Unreferenced, Holding
<1>10. ListExact'  BY DEF ListExact
<1>11. Quiet
  BY DEF Quiet, SameUsers, SameReusing, Uses, Reusing, Holding, AllUsers
<1> QED BY <1>1, <1>2, <1>3, <1>4, <1>5, <1>6, <1>7, <1>8, <1>9, <1>10,
           <1>11

(* Finalize closes the endpoint.                                           *)
LEMMA DismantleStep ==
  ASSUME NEW t \in Tasks, Places, Counted, Dismantle(t)
  PROVE  Places' /\ Quiet
<1> USE BindingAssumption DEF Places, Shape, Roles, Dismantle, At, Goto,
          CanEnter, Close, list, source, refs, Tasks, Objects
<1>1. Shape'  OBVIOUS
<1>2. Roles'  OBVIOUS
<1>3. ReuseHoldsLock'  BY DEF ReuseHoldsLock
<1>4. Unused'  BY DEF Unused
<1>5. OnePlace'
  BY DEF Shape, Roles, ReuseHoldsLock, Unused, OnePlace, SetUp, Kept,
         Finalized, UndoneUnused, ListExact, Counted, InSession, Finalizing,
         Unreferenced, Holding, Sole, Uses, AllUsers
<1>6. SetUp'  BY DEF SetUp
<1>7. Kept'  BY DEF Kept, Unreferenced, Holding
<1>8. Finalized'  BY DEF Finalized, Finalizing, Unreferenced, Holding
<1>9. UndoneUnused'  BY DEF UndoneUnused, Unreferenced, Holding
<1>10. ListExact'  BY DEF ListExact
<1>11. Quiet
  BY DEF Quiet, SameUsers, SameReusing, Uses, Reusing, Holding, AllUsers
<1> QED BY <1>1, <1>2, <1>3, <1>4, <1>5, <1>6, <1>7, <1>8, <1>9, <1>10,
           <1>11

(* The object is freed when nobody refers to it.                           *)
LEMMA FreeStep ==
  ASSUME NEW t \in Tasks, Places, Counted, Free(t)
  PROVE  Places' /\ Destroyed(obj[t])
<1> USE BindingAssumption DEF Places, Shape, Roles, Free, At, Idle, list,
          source, refs, Tasks, Objects
<1>1. Shape'  OBVIOUS
<1>2. Roles'  OBVIOUS
<1>3. ReuseHoldsLock'  BY DEF ReuseHoldsLock
<1>4. Unused'  BY DEF Unused
<1>5. OnePlace'  BY DEF OnePlace, InSession
<1>6. SetUp'  BY DEF SetUp
<1>7. Kept'
  BY DEF Kept, Finalized, Finalizing, OnePlace, InSession, Unreferenced,
         Holding
<1>8. Finalized'  BY DEF Finalized, Finalizing, Unreferenced, Holding
<1>9. UndoneUnused'  BY DEF UndoneUnused, Unreferenced, Holding
<1>10. ListExact'
  BY DEF ListExact, Finalized, Finalizing, Unreferenced, Holding
<1>11. Destroyed(obj[t])
  BY DEF Destroyed, SameUsers, SameReusing, Uses, Reusing, Holding, AllUsers,
         Finalized, Finalizing
<1> QED BY <1>1, <1>2, <1>3, <1>4, <1>5, <1>6, <1>7, <1>8, <1>9, <1>10,
           <1>11

-----------------------------------------------------------------------------
(* The inductive invariant.                                                *)

(* No binding object exists at first.                                      *)
LEMMA InitInv == Init => Inv
<1> SUFFICES ASSUME Init PROVE Inv
  OBVIOUS
<1>1. Places
  BY BindingAssumption
    DEF Init, Places, Shape, Roles, ReuseHoldsLock, Unused, OnePlace,
        InSession, SetUp, Kept, Unreferenced, Holding, Finalized, Finalizing,
        UndoneUnused, ListExact, Tasks, Objects
<1>2. ASSUME NEW b \in Objects
      PROVE  users[b] = {} /\ Reusing(b) = {} /\ Counter[b] = 0
  BY BindingAssumption, UsersSet
    DEF Init, Uses, Reusing, Holding, At, Tasks, Objects
<1>3. CounterExact
  BY <1>2, FS_EmptySet DEF CounterExact
<1> QED BY <1>1, <1>3 DEF Inv

(* Every step keeps Places and has one effect on the references.           *)
LEMMA StepEffect ==
  ASSUME Inv, [Next]_vars
  PROVE  Places' /\ Effect
<1> USE DEF Effect, AllUsers
<1>1. Places /\ Counted
  BY ExactCounted DEF Inv
<1>2. CASE UNCHANGED vars
  <2>1. Places'
    BY <1>1, <1>2
      DEF Places, Shape, Roles, ReuseHoldsLock, Unused, OnePlace, InSession,
          SetUp, Kept, Unreferenced, Holding, Finalized, Finalizing,
          UndoneUnused, ListExact, vars, list, source, refs
  <2>2. Quiet
    BY <1>2 DEF Quiet, SameUsers, SameReusing, Uses, Reusing, Holding, At,
                vars, list, source, refs
  <2> QED BY <2>1, <2>2
<1>3. ASSUME NEW t \in Tasks, Progress(t)
      PROVE  Places' /\ Effect
  <2>1. /\ t \in AllUsers
        /\ pc[t] \notin {"idle", "create"} => obj[t] \in Objects
    BY <1>1 DEF Places, Roles
  <2> USE <1>1, <2>1 DEF At
  <2>2. CASE Undo(t)  BY <2>2, UndoStep DEF Undo
  <2>3. CASE Bind_Existing(t)  BY <2>3, Bind_ExistingStep
  <2>4. CASE Bind_Profile(t)  BY <2>4, Bind_ProfileStep DEF Objects
  <2>5. CASE Register_Binding_Object(t)  BY <2>5, Register_Binding_ObjectStep
  <2>6. CASE Add_Binding_Object(t)  BY <2>6, Add_Binding_ObjectStep
  <2>7. CASE Stabilize(t)  BY <2>7, StabilizeStep DEF Stabilize
  <2>8. CASE Queue_Event_Job(t)  BY <2>8, Queue_Event_JobStep
  <2>9. CASE Release(t)  BY <2>9, ReleaseStep DEF Release
  <2>10. CASE Emit(t)  BY <2>10, EmitStep DEF Emit
  <2>11. CASE Monitor_Endpoint(t)  BY <2>11, Monitor_EndpointStep
  <2>12. CASE Disconnect(t)  BY <2>12, DisconnectStep
  <2>13. CASE Detach(t)  BY <2>13, DetachStep DEF Detach
  <2>14. CASE Leave(t)  BY <2>14, LeaveStep DEF Leave
  <2>15. CASE Unregister_Binding_Object(t)
    BY <2>15, Unregister_Binding_ObjectStep
  <2>16. CASE Dismantle(t)  BY <2>16, DismantleStep
  <2>17. CASE Free(t)  BY <2>17, FreeStep DEF Free
  <2> QED BY <1>3, <2>2, <2>3, <2>4, <2>5, <2>6, <2>7, <2>8, <2>9, <2>10,
             <2>11, <2>12, <2>13, <2>14, <2>15, <2>16, <2>17 DEF Progress
<1>4. ASSUME NEW t \in Tasks, Begin(t)
      PROVE  Places' /\ Effect
  <2>1. t \in AllUsers /\ (pc[t] = "bound" => obj[t] \in Objects)
    BY <1>1 DEF Places, Roles
  <2> USE <1>1, <2>1 DEF At
  <2>2. CASE Get_Binding_Objects(t)  BY <2>2, Get_Binding_ObjectsStep
  <2>3. CASE Unbind(t)  BY <2>3, UnbindStep DEF Unbind
  <2>4. CASE Accept_Connection(t)  BY <2>4, Accept_ConnectionStep DEF Objects
  <2>5. CASE \E b \in Objects : Check_Sources(t, b)
    BY <2>5, Check_SourcesStep
  <2>6. CASE \E b \in Objects : Handle_Event(t, b)
    BY <2>6, Handle_EventStep
  <2>7. CASE \E b \in Objects : Destroy_Request(t, b)
    BY <2>7, Destroy_RequestStep
  <2> QED BY <1>4, <2>2, <2>3, <2>4, <2>5, <2>6, <2>7 DEF Begin
<1> QED BY <1>2, <1>3, <1>4 DEF Next

(* What the effects are on the sets of users.                              *)
LEMMA UsersEffect ==
  ASSUME NEW b \in Objects
  PROVE  /\ SameUsers => users'[b] = users[b]
         /\ \A c \in Objects, u \in AllUsers : Gained(c, u) =>
              /\ u \notin users[c]
              /\ users'[b] = IF b = c THEN users[b] \cup {u} ELSE users[b]
         /\ \A c \in Objects, u \in AllUsers : Released(c, u) =>
              /\ u \in users[c]
              /\ users'[b] = IF b = c THEN users[b] \ {u} ELSE users[b]
<1> USE UsersSet
<1>1. SameUsers => users'[b] = users[b]
  BY DEF SameUsers
<1>2. ASSUME NEW c \in Objects, NEW u \in AllUsers, Gained(c, u)
      PROVE  /\ u \notin users[c]
             /\ users'[b] = IF b = c THEN users[b] \cup {u} ELSE users[b]
  BY <1>2 DEF Gained
<1>3. ASSUME NEW c \in Objects, NEW u \in AllUsers, Released(c, u)
      PROVE  /\ u \in users[c]
             /\ users'[b] = IF b = c THEN users[b] \ {u} ELSE users[b]
  BY <1>3 DEF Released
<1> QED BY <1>1, <1>2, <1>3

(* Every effect keeps the counters exact.                                  *)
LEMMA EffectExact ==
  ASSUME Shape, CounterExact, Effect
  PROVE  CounterExact'
<1> SUFFICES ASSUME NEW b \in Objects
             PROVE  Counter'[b]
                      = Cardinality(users'[b]) + Cardinality(Reusing(b)')
  BY DEF CounterExact
<1>1. Counter[b] = Cardinality(users[b]) + Cardinality(Reusing(b))
  BY DEF CounterExact
<1>2. users[b] \subseteq AllUsers /\ Reusing(b) \subseteq AllUsers
  BY UsersSet DEF Reusing, AllUsers
<1>3. /\ IsFiniteSet(users[b]) /\ Cardinality(users[b]) \in Nat
      /\ IsFiniteSet(Reusing(b)) /\ Cardinality(Reusing(b)) \in Nat
  BY <1>2, UsersFinite
<1>4. /\ \A u : u \notin users[b] =>
           Cardinality(users[b] \cup {u}) = Cardinality(users[b]) + 1
      /\ \A u : u \in users[b] =>
           Cardinality(users[b] \ {u}) = Cardinality(users[b]) - 1
  BY <1>3, FS_AddElement, FS_RemoveElement
<1>5. /\ \A t : t \notin Reusing(b) =>
           Cardinality(Reusing(b) \cup {t}) = Cardinality(Reusing(b)) + 1
      /\ \A t : t \in Reusing(b) =>
           Cardinality(Reusing(b) \ {t}) = Cardinality(Reusing(b)) - 1
  BY <1>3, FS_AddElement, FS_RemoveElement
<1> USE <1>1, <1>3 DEF Shape
<1>6. CASE Quiet \/ \E c \in Objects : Destroyed(c)
  BY <1>6, UsersEffect DEF Quiet, Destroyed, SameReusing
<1>7. ASSUME NEW c \in Objects, NEW u \in AllUsers,
             Created(c, u) \/ Acquired(c, u)
      PROVE  Counter'[b] = Cardinality(users'[b]) + Cardinality(Reusing(b)')
  <2>1. /\ Gained(c, u) /\ SameReusing
        /\ Counter' = [Counter EXCEPT ![c] = @ + 1]
    BY <1>7 DEF Created, Acquired
  <2>2. /\ u \notin users[c]
        /\ users'[b] = IF b = c THEN users[b] \cup {u} ELSE users[b]
    BY <2>1, UsersEffect
  <2> QED BY <2>1, <2>2, <1>4 DEF SameReusing
<1>8. ASSUME NEW c \in Objects, NEW u \in AllUsers, Released(c, u)
      PROVE  Counter'[b] = Cardinality(users'[b]) + Cardinality(Reusing(b)')
  <2>1. SameReusing /\ Counter' = [Counter EXCEPT ![c] = @ - 1]
    BY <1>8 DEF Released
  <2>2. /\ u \in users[c]
        /\ users'[b] = IF b = c THEN users[b] \ {u} ELSE users[b]
    BY <1>8, UsersEffect
  <2>3. Counter'[b] = IF b = c THEN Counter[b] - 1 ELSE Counter[b]
    BY <2>1
  <2>4. b = c => Cardinality(users'[b]) = Cardinality(users[b]) - 1
    BY <2>2, <1>4
  <2> QED BY <2>1, <2>2, <2>3, <2>4 DEF SameReusing
<1>9. ASSUME NEW c \in Objects, NEW t \in Tasks, Tried(c, t)
      PROVE  Counter'[b] = Cardinality(users'[b]) + Cardinality(Reusing(b)')
  <2>1. users'[b] = users[b]
    BY <1>9, UsersEffect DEF Tried
  <2> QED BY <2>1, <1>5, <1>9 DEF Tried
<1>10. ASSUME NEW c \in Objects, NEW t \in Tasks, Undone(c, t)
      PROVE  Counter'[b] = Cardinality(users'[b]) + Cardinality(Reusing(b)')
  <2>1. users'[b] = users[b]
    BY <1>10, UsersEffect DEF Undone
  <2> QED BY <2>1, <1>5, <1>10 DEF Undone
<1> QED BY <1>6, <1>7, <1>8, <1>9, <1>10 DEF Effect

(* Inv is inductive: in every behaviour it always holds.                   *)
LEMMA InvCorrect == Spec => []Inv
<1>1. Inv /\ [Next]_vars => Inv'
  BY StepEffect, EffectExact DEF Inv, Places
<1> QED BY InitInv, <1>1, PTL DEF Spec

-----------------------------------------------------------------------------
(* Theorems.                                                               *)

(* The reference counter of a binding object is the number of references   *)
(* to it, and of the calls of Reuse_Entity about to be undone, whatever    *)
(* events, requests and clients do.                                        *)
THEOREM CounterExactCorrect == Spec => []CounterExact
BY InvCorrect, PTL DEF Inv

(* The types hold; the counter stays between zero and one reference for    *)
(* each task, endpoint, handler and request, so that it cannot overflow.   *)
THEOREM TypeCorrect == Spec => []TypeOK
<1>1. Inv => TypeOK
  <2> SUFFICES ASSUME Inv PROVE TypeOK
    OBVIOUS
  <2>1. Shape /\ UndoneUnused /\ ReuseHoldsLock /\ CounterExact
    BY DEF Inv, Places
  <2>2. ASSUME NEW b \in Objects
        PROVE  Counter[b] \in 0 .. Cardinality(Tasks) + 3
    <3>1. Counter[b] = Cardinality(users[b]) + Cardinality(Reusing(b))
      BY <2>1 DEF CounterExact
    <3>2. users[b] \subseteq AllUsers /\ Reusing(b) \subseteq Tasks
      BY UsersSet DEF Reusing
    <3>3. /\ Cardinality(users[b]) \in Nat
          /\ Cardinality(users[b]) <= Cardinality(AllUsers)
      BY <3>2, UsersFinite
    <3>4. /\ Cardinality(Reusing(b)) \in Nat
          /\ Cardinality(Reusing(b)) <= Cardinality(Tasks)
          /\ Cardinality(Tasks) \in Nat
      BY <3>2, BindingAssumption, FS_Subset, FS_CardinalityType
    <3>5. /\ Cardinality(AllUsers) <= Cardinality(Tasks) + 3
          /\ Cardinality(AllUsers) \in Nat
      BY UsersFinite
    <3>6. Reusing(b) # {} => users[b] = {}
      BY <2>1, NoUsers DEF UndoneUnused, Reusing, At
    <3>7. CASE Reusing(b) = {}
      BY <3>1, <3>3, <3>4, <3>5, <3>7, FS_EmptySet
    <3>8. CASE users[b] = {}
      BY <3>1, <3>3, <3>4, <3>5, <3>8, FS_EmptySet
    <3> QED BY <3>6, <3>7, <3>8
  <2>3. Counter \in [Objects -> 0 .. Cardinality(Tasks) + 3]
    BY <2>1, <2>2 DEF Shape
  <2> QED BY <2>1, <2>3 DEF Shape, TypeOK
<1> QED BY InvCorrect, <1>1, PTL

(* Who refers to a binding object, or holds an event of its source, refers *)
(* to an object that is not freed.                                         *)
THEOREM NoDanglingReferenceCorrect == Spec => []NoDanglingReference
<1>1. Inv => NoDanglingReference
  BY NoUsers DEF Inv, Places, Kept, NoDanglingReference
<1> QED BY InvCorrect, <1>1, PTL

(* The assertion of Stabilize never fails: when an event of a source is    *)
(* polled, its handler has released the reference of the previous event.   *)
THEOREM StabilizeNilCorrect == Spec => []StabilizeNil
<1>1. Inv => StabilizeNil
  BY DEF Inv, Places, OnePlace, InSession, StabilizeNil, At
<1> QED BY InvCorrect, <1>1, PTL

(* Bind finds no freed object to one of its nodes in the list, and objects *)
(* know whether they are in it, whoever purges them or finalizes them.     *)
THEOREM ListExactCorrect == Spec => []ListExact
BY InvCorrect, PTL DEF Inv, Places

(* Binding objects are shared as SharedObjects says, but for liveness:     *)
(* each step takes a reference to a new object or to one that has a        *)
(* reference, drops one, destroys an object without references, or changes *)
(* neither references nor lives.                                           *)
THEOREM SharedCorrect == Spec => Shared!Init /\ [][Shared!Next]_Shared!vars
<1>1. Init => Shared!Init
  <2> SUFFICES ASSUME Init PROVE Shared!Init
    OBVIOUS
  <2>1. \A b \in Objects : users[b] = {}
    BY BindingAssumption, UsersSet DEF Init, Uses, Holding, Tasks, Objects
  <2>2. users = [b \in Objects |-> {}]
    BY <2>1 DEF users
  <2> QED BY <2>2 DEF Init, Shared!Init
<1>2. Inv /\ [Next]_vars => [Shared!Next]_Shared!vars
  <2> SUFFICES ASSUME Inv, [Next]_vars PROVE [Shared!Next]_Shared!vars
    OBVIOUS
  <2>1. Effect /\ Shape /\ Unused
    BY StepEffect DEF Inv, Places
  <2>2. /\ users = [b \in Objects |-> users[b]]
        /\ users' = [b \in Objects |-> users'[b]]
    BY DEF users
  <2> DEFINE phase == [b \in Objects |->
                         IF life[b] = "freed" THEN "dead" ELSE life[b]]
  <2>3. CASE Quiet
    <3>1. users' = users
      BY <2>2, <2>3, UsersEffect DEF Quiet
    <3> QED BY <2>3, <3>1 DEF Quiet, Shared!vars
  <2>4. ASSUME NEW c \in Objects, Destroyed(c)
        PROVE  Shared!Destroy(c)
    <3>1. users' = users
      BY <2>2, <2>4, UsersEffect DEF Destroyed
    <3>2. users[c] = {}
      BY <2>4, NoUsers DEF Destroyed
    <3>3. phase[c] = "live" /\ phase' = [phase EXCEPT ![c] = "dead"]
      BY <2>1, <2>4 DEF Destroyed, Shape
    <3> QED BY <3>1, <3>2, <3>3 DEF Shared!Destroy
  <2>5. ASSUME NEW c \in Objects, NEW u \in AllUsers, Created(c, u)
        PROVE  Shared!Create(c, u)
    <3>1. users[c] = {}
      BY <2>1, <2>5, NoUsers DEF Created, Unused, Unreferenced
    <3>2. users' = [users EXCEPT ![c] = {u}]
      BY <2>2, <2>5, <3>1, UsersEffect DEF Created
    <3>3. phase[c] = "none" /\ phase' = [phase EXCEPT ![c] = "live"]
      BY <2>1, <2>5 DEF Created, Shape
    <3> QED BY <3>2, <3>3 DEF Shared!Create
  <2>6. ASSUME NEW c \in Objects, NEW u \in AllUsers, Acquired(c, u)
        PROVE  Shared!Acquire(c, u)
    <3>1. u \notin users[c] /\ users' = [users EXCEPT ![c] = @ \cup {u}]
      BY <2>2, <2>6, UsersEffect DEF Acquired
    <3>2. users[c] # {}
      BY <2>6, NoUsers DEF Acquired
    <3>3. phase[c] = "live" /\ phase' = phase
      BY <2>6 DEF Acquired
    <3> QED BY <3>1, <3>2, <3>3 DEF Shared!Acquire
  <2>7. ASSUME NEW c \in Objects, NEW u \in AllUsers, Released(c, u)
        PROVE  Shared!Release(c, u)
    <3>1. u \in users[c] /\ users' = [users EXCEPT ![c] = @ \ {u}]
      BY <2>2, <2>7, UsersEffect
    <3> QED BY <3>1, <2>7 DEF Released, Shared!Release
  <2>8. ASSUME NEW c \in Objects, NEW t \in Tasks, Tried(c, t) \/ Undone(c, t)
        PROVE  UNCHANGED Shared!vars
    <3>1. users' = users
      BY <2>2, <2>8, UsersEffect DEF Tried, Undone
    <3> QED BY <2>8, <3>1 DEF Tried, Undone, Shared!vars
  <2> HIDE DEF phase
  <2> QED BY <2>1, <2>3, <2>4, <2>5, <2>6, <2>7, <2>8
          DEF Effect, AllUsers, Shared!Next
<1> QED BY InvCorrect, InitInv, <1>1, <1>2, PTL DEF Spec
=============================================================================
