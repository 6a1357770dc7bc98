---------------------------- MODULE SourceProofs ----------------------------
(***************************************************************************)
(* The way of event sources through OrbWorkers, for every set of threads,  *)
(* sources and monitors: through the list of a monitor, Check_Sources, the *)
(* queue, a job, a request, and Insert_Source or Delete_Source; none is    *)
(* lost and none is duplicated on it.                                      *)
(***************************************************************************)
EXTENDS PollingProofs

(* The locations of Insert_Source before the source is registered, of      *)
(* Delete_Source, and of both.                                             *)
Inserting == {"create", "disable", "disabling", "disabled"}
Deleting  == {"deleting", "disable", "disabling", "disabled", "added", "enabling"}
InCall    == Inserting \cup Deleting

(* Thread t is about to have s monitored; t is closing s.                  *)
Inserts(t, s) == op[t].kind = "insert" /\ op[t].arg = s /\ pc[t] \in Inserting
Deletes(t, s) == op[t].kind = "delete" /\ op[t].arg = s /\ pc[t] \in Deleting

(* Where a source may be.                                                  *)
Monitored(s) == \E m \in Monitors : s \in sources[m]
Reported(s)  == \E t \in Tasks : s \in events[t]
Queued(s)    == \E i \in 1 .. Len(queue) : queue[i] = s
Read(s)      == \E t \in Tasks : held[t] = s
Carried(s)   == \E u \in Upcalls : carried[u] = s
Called(s)    == \E t \in Threads : Inserts(t, s)

Placed(s) ==
  Monitored(s) \/ Reported(s) \/ Queued(s) \/ Read(s) \/ Carried(s) \/ Called(s)

(* A source is in places of one kind only, it is open when it is anywhere, *)
(* and nobody reads or inserts a source that is being closed.              *)
PlaceSound(s) ==
  /\ Monitored(s) => ~(Reported(s) \/ Queued(s) \/ Read(s) \/ Carried(s) \/ Called(s))
  /\ Reported(s) => ~(Queued(s) \/ Read(s) \/ Carried(s) \/ Called(s))
  /\ Queued(s) => ~(Read(s) \/ Carried(s) \/ Called(s))
  /\ Read(s) => ~(Carried(s) \/ Called(s))
  /\ Carried(s) => ~Called(s)
  /\ Placed(s) => s \in open
  /\ s \in dying => s \in open /\ ~(Queued(s) \/ Read(s) \/ Carried(s) \/ Called(s))
PlacesSound == \A s \in Sources : PlaceSound(s)

(* And in one place of that kind.                                          *)
OneReport == \A t, u \in Tasks : \A s \in events[t] : s \in events[u] => t = u
OneJob ==
  \A i, j \in 1 .. Len(queue) : queue[i] = queue[j] /\ queue[i] \in Sources => i = j
OneReader == \A t, u \in Tasks : held[t] = held[u] /\ held[t] # None => t = u
OneCarrier == \A u, v \in Upcalls : carried[u] = carried[v] /\ carried[u] # None => u = v
OneCall == \A t, u \in Threads, s \in Sources : Inserts(t, s) /\ Inserts(u, s) => t = u
OnePlace == OneReport /\ OneJob /\ OneReader /\ OneCarrier /\ OneCall

(* The monitor recorded in a source is the one that has it on its list, or *)
(* whose Check_Sources has returned it.                                    *)
Recorded ==
  /\ \A m \in Monitors : \A s \in sources[m] : sourceMonitor[s] = m
  /\ \A t \in Tasks : \A s \in events[t] :
       pc[t] \in {"polled", "queueing"} /\ sourceMonitor[s] = selector[t]

(* A thread that closes a source has disabled polling of the source's own  *)
(* monitor, and in the end no list and no event array has the source.      *)
DeleteSound(t, s) ==
  /\ s \in dying /\ pc[t] # "added"
  /\ pc[t] \in {"disable", "disabling", "disabled"} =>
       sourceMonitor[s] # None /\ aemMonitor[op[t].slot] = sourceMonitor[s]
  /\ pc[t] = "enabling" => ~Monitored(s) /\ ~Reported(s)
DeletesSound ==
  \A t \in Threads, s \in Sources : Deletes(t, s) =>
    DeleteSound(t, s) /\ \A u \in Threads : Deletes(u, s) => u = t

(* The inductive invariant of the ways of a source.  The exception of      *)
(* Create_Monitor leaves the source both registered and in the call.       *)
Orderly == PlacesSound /\ OnePlace /\ Recorded /\ DeletesSound
PlacedIsOpen == \A s \in Sources : Placed(s) => s \in open
Traced == PlacedIsOpen /\ (error = "none" => Orderly)

----------------------------------------------------------------------------
(* Steps after which sources are in the same places or in fewer            *)

(* The source s is in no place in which it was not before.                 *)
Shrinks(s) ==
  /\ Monitored(s)' => Monitored(s)
  /\ Reported(s)' => Reported(s)
  /\ Queued(s)' => Queued(s)
  /\ Read(s)' => Read(s)
  /\ Carried(s)' => Carried(s)
  /\ Called(s)' => Called(s)

(* The sources that a task has polled remain with it as it goes on.        *)
ReportsKept ==
  \A t \in Tasks : events'[t] # {} =>
    pc'[t] \in {"polled", "queueing"} /\ selector'[t] = selector[t]

(* What is to be shown of deletions when t takes a step: t's own.          *)
LEMMA DeletesStep ==
  ASSUME Typed, Orderly, NEW t \in Threads,
         \A u \in Threads : u # t => pc'[u] = pc[u] /\ op'[u] = op[u],
         \A J \in Slots : aemMonitor[J] # None => aemMonitor'[J] = aemMonitor[J],
         \A s \in dying : /\ s \in dying' => sourceMonitor'[s] = sourceMonitor[s]
                          /\ Monitored(s)' => Monitored(s)
                          /\ Reported(s)' => Monitored(s) \/ Reported(s),
         \A u \in Threads, s \in Sources : u # t /\ Deletes(u, s) => s \in dying',
         \A s \in Sources : Deletes(t, s)' =>
           DeleteSound(t, s)' /\ \A u \in Threads : Deletes(u, s) => u = t
  PROVE  DeletesSound'
<1> SUFFICES ASSUME NEW u \in Threads, NEW s \in Sources, Deletes(u, s)'
             PROVE  DeleteSound(u, s)' /\ \A v \in Threads : Deletes(v, s)' => v = u
  BY DEF DeletesSound
<1>1. ASSUME NEW v \in Threads, v # t PROVE Deletes(v, s)' = Deletes(v, s)
  BY <1>1 DEF Deletes
<1>2. CASE u = t
  BY <1>1, <1>2
<1>3. CASE u # t
  <2>1. Deletes(u, s) /\ DeleteSound(u, s) /\ \A v \in Threads : Deletes(v, s) => v = u
    BY <1>1, <1>3 DEF Orderly, DeletesSound
  <2>2. pc'[u] = pc[u] /\ op'[u] = op[u] /\ s \in dying /\ s \in dying'
    BY <1>3, <2>1 DEF DeleteSound
  <2>3. pc[u] \in {"disable", "disabling", "disabled"} => op[u].slot \in Slots
    BY DEF Typed, OpAgrees
  <2>4. DeleteSound(u, s)'
    BY <2>1, <2>2, <2>3 DEF DeleteSound
  <2>5. ~Deletes(t, s)'
    BY <1>3, <2>1
  <2>6. QED BY <1>1, <2>1, <2>4, <2>5
<1>4. QED BY <1>2, <1>3

(* A step of t that moves no source to a new place and begins no deletion. *)
Fewer(t) ==
  /\ \A m \in Monitors : sources'[m] \subseteq sources[m]
  /\ \A u \in Tasks : events'[u] \subseteq events[u] /\ held'[u] \in {held[u], None}
  /\ \A u \in Threads : u # t => pc'[u] = pc[u] /\ op'[u] = op[u]
  /\ \A s \in Sources : Inserts(t, s)' => Inserts(t, s)
  /\ \A s \in Sources : Deletes(t, s)' => Deletes(t, s) /\ DeleteSound(t, s)'
  /\ ReportsKept
  /\ UNCHANGED <<queue, carried, open, dying, sourceMonitor, aemMonitor>>

(* Such a step keeps the invariant.                                        *)
LEMMA FewerOrderly ==
  ASSUME Typed, Orderly, NEW t \in Threads, Fewer(t)
  PROVE  Orderly'
<1> USE DEF Orderly, Fewer
<1>1. ASSUME NEW u \in Threads, NEW s \in Sources PROVE Inserts(u, s)' => Inserts(u, s)
  BY DEF Inserts
<1>2. ASSUME NEW s \in Sources PROVE Shrinks(s)
  <2>1. s # None
    BY JobsAssumption DEF Jobs
  <2>2. QED BY <1>1, <2>1 DEF Shrinks, Monitored, Reported, Queued, Read, Carried, Called
<1>3. PlacesSound'
  BY <1>2 DEF PlacesSound, PlaceSound, Placed, Shrinks
<1>4. OnePlace'
  BY <1>1 DEF OnePlace, OneReport, OneJob, OneReader, OneCarrier, OneCall
<1>5. Recorded'
  BY DEF Recorded, ReportsKept
<1>6. ASSUME NEW s \in dying PROVE s \in Sources
  BY DEF Typed, TypeOK
<1>7. DeletesSound'
  <2>1. \A u \in Threads, s \in Sources : Deletes(u, s) => s \in dying
    BY DEF DeletesSound, DeleteSound
  <2>2. \A s \in Sources, u \in Threads : Deletes(t, s) /\ Deletes(u, s) => u = t
    BY DEF DeletesSound
  <2>3. \A s \in dying : /\ Monitored(s)' => Monitored(s)
                         /\ Reported(s)' => Reported(s)
    BY <1>2, <1>6 DEF Shrinks
  <2>4. QED BY <2>1, <2>2, <2>3, DeletesStep
<1>8. QED BY <1>3, <1>4, <1>5, <1>7

(* A step that touches neither sources nor calls.                          *)
Quiet ==
  /\ UNCHANGED <<sources, events, queue, held, carried, open, dying, sourceMonitor, aemMonitor>>
  /\ \A t \in Threads :
       \/ pc'[t] = pc[t] /\ op'[t] = op[t]
       \/ pc[t] \notin InCall /\ pc'[t] \notin InCall
  /\ ReportsKept

(* It keeps the invariant, too.                                            *)
LEMMA QuietOrderly ==
  ASSUME Orderly, Quiet
  PROVE  Orderly'
<1> USE DEF Orderly, Quiet
<1>1. ASSUME NEW t \in Threads, NEW s \in Sources
      PROVE  Inserts(t, s)' = Inserts(t, s) /\ Deletes(t, s)' = Deletes(t, s)
  BY DEF Inserts, Deletes, InCall, Inserting, Deleting
<1>2. ASSUME NEW s \in Sources
      PROVE  /\ Monitored(s)' = Monitored(s) /\ Reported(s)' = Reported(s)
             /\ Queued(s)' = Queued(s) /\ Read(s)' = Read(s)
             /\ Carried(s)' = Carried(s) /\ Called(s)' = Called(s)
  BY <1>1 DEF Monitored, Reported, Queued, Read, Carried, Called
<1>3. PlacesSound'
  BY <1>2 DEF PlacesSound, PlaceSound, Placed
<1>4. OnePlace'
  BY <1>1 DEF OnePlace, OneReport, OneJob, OneReader, OneCarrier, OneCall
<1>5. Recorded'
  BY DEF Recorded, ReportsKept
<1>6. ASSUME NEW t \in Threads, NEW s \in Sources, Deletes(t, s)
      PROVE  pc'[t] = pc[t] /\ op'[t] = op[t]
  BY <1>6 DEF Deletes, InCall
<1>7. DeletesSound'
  BY <1>1, <1>2, <1>6 DEF DeletesSound, DeleteSound
<1>8. QED BY <1>3, <1>4, <1>5, <1>7

(* Job_Completed and an abort drop what the job was reading.               *)
LEMMA DropOrderly ==
  ASSUME Typed, Orderly, NEW t \in Tasks, Job_Completed(t) \/ Abort_Run(t)
  PROVE  Orderly'
<1> USE DEF Typed, TypeOK
<1>1. t \in Threads
  BY DEF Threads
<1>2. /\ pc'[t] \in {"schedule", "aborting"}
      /\ \A u \in Threads : u # t => pc'[u] = pc[u] /\ op'[u] = op[u]
  BY <1>1 DEF Job_Completed, Abort_Run, Goto
<1>3. \A s \in Sources : ~Inserts(t, s)' /\ ~Deletes(t, s)'
  BY <1>2 DEF Inserts, Deletes, Inserting, Deleting
<1>4. ReportsKept
  BY <1>1 DEF ReportsKept, Job_Completed, Abort_Run, Goto, Orderly, Recorded, Threads
<1>5. Fewer(t)
  BY <1>2, <1>3, <1>4 DEF Fewer, Job_Completed, Abort_Run, aemVars
<1>6. QED BY <1>1, <1>5, FewerOrderly

(* The steps of a call up to registration, and Unregister_Source.          *)
LEMMA CallGoesOn ==
  ASSUME Typed, Tables, Orderly, NEW t \in Threads,
         \/ Disable_Polling(t) \/ Disable_Return(t) \/ Register_Unknown(t)
         \/ Delete_Source(t) \/ Event_Sources_Added(t) \/ Unregister_Source(t)
  PROVE  Orderly'
<1> USE DEF Typed, TypeOK, Goto
<1>1. /\ pc[t] \in InCall
      /\ \A u \in Threads : u # t => pc'[u] = pc[u] /\ op'[u] = op[u]
      /\ UNCHANGED <<queue, carried, open, dying, sourceMonitor, aemMonitor, events, held,
                     selector>>
      /\ op'[t].kind = op[t].kind /\ op'[t].arg = op[t].arg
  <2> USE DEF InCall, Inserting, Deleting, taskVars, sourceVars, aemVars, Operation
  <2>1. CASE Disable_Polling(t)
    BY <2>1 DEF Disable_Polling
  <2>2. CASE Disable_Return(t)
    BY <2>2 DEF Disable_Return
  <2>3. CASE Register_Unknown(t)
    BY <2>3 DEF Register_Unknown
  <2>4. CASE Delete_Source(t)
    BY <2>4 DEF Delete_Source
  <2>5. CASE Event_Sources_Added(t)
    BY <2>5 DEF Event_Sources_Added
  <2>6. CASE Unregister_Source(t)
    BY <2>6 DEF Unregister_Source
  <2>7. QED BY <2>1, <2>2, <2>3, <2>4, <2>5, <2>6
<1>2. ReportsKept
  BY <1>1 DEF ReportsKept, Orderly, Recorded, Threads, InCall, Inserting, Deleting
<1>3. \A m \in Monitors : sources'[m] \subseteq sources[m]
  <2>1. CASE UNCHANGED sources
    BY <2>1
  <2>2. CASE Unregister_Source(t)
    BY <2>2 DEF Unregister_Source
  <2>3. QED
    BY <2>1, <2>2
    DEF Disable_Polling, Disable_Return, Register_Unknown, Delete_Source, Event_Sources_Added
<1>4. ASSUME NEW s \in Sources, Inserts(t, s)' PROVE Inserts(t, s)
  <2>1. pc[t] \in Inserting
    BY <1>1, <1>4 DEF Disable_Polling, Disable_Return, Register_Unknown, Delete_Source,
         Event_Sources_Added, Unregister_Source, Inserts, Inserting, OpAgrees
  <2>2. QED BY <1>1, <1>4, <2>1 DEF Inserts
<1>5. ASSUME NEW s \in Sources, Deletes(t, s)' PROVE Deletes(t, s) /\ DeleteSound(t, s)'
  <2>1. Deletes(t, s)
    BY <1>1, <1>5 DEF Disable_Polling, Disable_Return, Register_Unknown, Delete_Source,
         Event_Sources_Added, Unregister_Source, Deletes, Deleting
  <2>2. s \in dying /\ pc[t] # "added"
        /\ (pc[t] \in {"disable", "disabling", "disabled"} =>
              sourceMonitor[s] # None /\ aemMonitor[op[t].slot] = sourceMonitor[s])
    BY <2>1 DEF Orderly, DeletesSound, DeleteSound
  <2>3. op[t].kind = "delete" /\ op[t].arg = s
    BY <2>1 DEF Deletes
  <2>4. CASE Disable_Polling(t) \/ Disable_Return(t)
    BY <1>1, <2>1, <2>2, <2>4 DEF DeleteSound, Disable_Polling, Disable_Return
  <2>5. CASE Register_Unknown(t) \/ Event_Sources_Added(t)
    BY <2>2, <2>3, <2>5 DEF Register_Unknown, Event_Sources_Added
  <2>6. CASE Delete_Source(t)
    <3>1. pc'[t] = "disable"
      BY <2>6 DEF Delete_Source
    <3>2. sourceMonitor[s] # None /\ aemMonitor[op'[t].slot] = sourceMonitor[s]
      BY <2>3, <2>6 DEF Delete_Source, Index
    <3>3. QED BY <1>1, <2>1, <2>2, <3>1, <3>2 DEF DeleteSound
  <2>7. CASE Unregister_Source(t)
    <3>1. /\ pc[t] = "disabled" /\ pc'[t] = "enabling"
          /\ sources' = [sources EXCEPT ![aemMonitor[op[t].slot]] = @ \ {s}]
      BY <2>3, <2>7 DEF Unregister_Source
    <3>2. sourceMonitor[s] \in Monitors /\ aemMonitor[op[t].slot] = sourceMonitor[s]
      BY <2>2, <3>1
    <3>3. ~Monitored(s)'
      BY <3>1, <3>2 DEF Monitored, Orderly, Recorded
    <3>4. ASSUME NEW u \in Tasks, s \in events[u] PROVE FALSE
      <4>1. pc[u] \in {"polled", "queueing"} /\ sourceMonitor[s] = selector[u]
        BY <3>4 DEF Orderly, Recorded
      <4>2. Polls(u)
        BY <4>1 DEF Tables, BlockedAgrees, Polls
      <4>3. PICK K \in Slots : aemTI[K] = u /\ Index(selector[u]) = {K}
        BY <4>2, OneSlot
      <4>4. op[t].slot \in Slots /\ aemTI[op[t].slot] = None
        BY <3>1 DEF OpAgrees, Tables, WaitersAgree
      <4>5. op[t].slot \in Index(selector[u])
        BY <3>2, <4>1, <4>4 DEF Index
      <4>6. QED BY <4>3, <4>4, <4>5, ThreadsAssumption DEF Threads
    <3>5. ~Reported(s)'
      BY <1>1, <3>4 DEF Reported
    <3>6. QED BY <1>1, <2>1, <2>2, <3>1, <3>3, <3>5 DEF DeleteSound
  <2>8. QED BY <2>4, <2>5, <2>6, <2>7
<1>6. Fewer(t)
  BY <1>1, <1>2, <1>3, <1>4, <1>5 DEF Fewer
<1>7. QED BY <1>6, FewerOrderly

----------------------------------------------------------------------------
(* Steps that move sources                                                 *)

(* A thread that is not in a call inserts and deletes nothing.             *)
LEMMA NotCalling ==
  ASSUME Typed, NEW t \in Threads, pc[t] \notin InCall, pc'[t] \notin InCall,
         \A u \in Threads : u # t => pc'[u] = pc[u] /\ op'[u] = op[u]
  PROVE  /\ \A u \in Threads, s \in Sources : Inserts(u, s)' = Inserts(u, s)
         /\ \A s \in Sources : ~Deletes(t, s) /\ ~Deletes(t, s)'
         /\ \A s \in Sources : Called(s)' = Called(s)
<1>1. \A u \in Threads, s \in Sources : Inserts(u, s)' = Inserts(u, s)
  BY DEF Inserts, InCall
<1>2. \A s \in Sources : ~Deletes(t, s) /\ ~Deletes(t, s)'
  BY DEF Deletes, InCall
<1>3. QED BY <1>1, <1>2 DEF Called

(* Check_Sources takes sources off the list of its own monitor.            *)
LEMMA CheckOrderly ==
  ASSUME Typed, Orderly, NEW t \in Tasks, Check_Sources(t)
  PROVE  Orderly'
<1> USE DEF Typed, TypeOK, Orderly
<1> DEFINE m == selector[t]
<1>1. m \in Monitors /\ t \in Threads
  BY DEF Check_Sources, PollsMonitor, Threads
<1>2. PICK ready \in SUBSET sources[m] :
             /\ events' = [events EXCEPT ![t] = ready]
             /\ sources' = [sources EXCEPT ![m] = @ \ ready]
  BY DEF Check_Sources
<1>3. /\ pc[t] = "blocked" /\ pc' = [pc EXCEPT ![t] = "polled"]
      /\ UNCHANGED <<queue, held, carried, open, dying, sourceMonitor, aemMonitor, selector, op>>
  BY DEF Check_Sources, Goto, taskVars, sourceVars, aemVars
<1>4. /\ \A u \in Threads, s \in Sources : Inserts(u, s)' = Inserts(u, s)
      /\ \A s \in Sources : ~Deletes(t, s) /\ ~Deletes(t, s)'
      /\ \A s \in Sources : Called(s)' = Called(s)
  BY <1>1, <1>3, NotCalling DEF InCall, Inserting, Deleting
<1>5. \A s \in Sources : /\ Queued(s)' = Queued(s) /\ Read(s)' = Read(s)
                         /\ Carried(s)' = Carried(s)
  BY <1>3 DEF Queued, Read, Carried
<1>6. ASSUME NEW s \in ready
      PROVE  s \in Sources /\ Monitored(s) /\ ~Monitored(s)' /\ sourceMonitor[s] = m
  BY <1>1, <1>2 DEF Monitored, Recorded
<1>7. ASSUME NEW s \in Sources, s \notin ready
      PROVE  /\ Monitored(s)' => Monitored(s)
             /\ Reported(s)' => Reported(s)
  BY <1>1, <1>2, <1>7 DEF Monitored, Reported
<1>8. PlacesSound'
  <2> SUFFICES ASSUME NEW s \in Sources PROVE PlaceSound(s)'
    BY DEF PlacesSound
  <2>1. PlaceSound(s)
    BY DEF PlacesSound
  <2>2. CASE s \in ready
    BY <1>3, <1>4, <1>5, <1>6, <2>1, <2>2 DEF PlaceSound, Placed
  <2>3. CASE s \notin ready
    BY <1>3, <1>4, <1>5, <1>7, <2>1, <2>3 DEF PlaceSound, Placed
  <2>4. QED BY <2>2, <2>3
<1>9. OnePlace'
  <2>1. \A u \in Tasks : u # t => \A s \in ready : s \notin events[u]
    BY <1>6 DEF PlacesSound, PlaceSound, Reported
  <2>2. OneReport'
    BY <1>2, <2>1 DEF OnePlace, OneReport
  <2>3. QED
    BY <1>3, <1>4, <2>2 DEF OnePlace, OneJob, OneReader, OneCarrier, OneCall
<1>10. Recorded'
  BY <1>1, <1>2, <1>3, <1>6 DEF Recorded, Threads
<1>11. DeletesSound'
  <2>1. \A s \in dying : /\ Monitored(s)' => Monitored(s)
                         /\ Reported(s)' => Monitored(s) \/ Reported(s)
    BY <1>6, <1>7
  <2>2. \A u \in Threads, s \in Sources : Deletes(u, s) => s \in dying
    BY DEF DeletesSound, DeleteSound
  <2>3. \A u \in Threads : u # t => pc'[u] = pc[u] /\ op'[u] = op[u]
    BY <1>1, <1>3
  <2>4. QED BY <1>1, <1>3, <1>4, <2>1, <2>2, <2>3, DeletesStep
<1>12. QED BY <1>8, <1>9, <1>10, <1>11

(* The deletions of other threads are not touched when a source that is    *)
(* not being closed moves.                                                 *)
LEMMA DeletesUntouched ==
  ASSUME Typed, Orderly, NEW t \in Threads,
         \A u \in Threads : u # t => pc'[u] = pc[u] /\ op'[u] = op[u],
         \A s \in dying : (Monitored(s)' => Monitored(s)) /\ (Reported(s)' => Reported(s)),
         \A s \in Sources : ~Deletes(t, s)',
         UNCHANGED <<dying, sourceMonitor, aemMonitor>>
  PROVE  DeletesSound'
<1>1. \A u \in Threads, s \in Sources : Deletes(u, s) => s \in dying
  BY DEF Orderly, DeletesSound, DeleteSound
<1>2. QED BY <1>1, DeletesStep

(* What Queue_Job does to the queue.                                       *)
LEMMA AppendJobs ==
  ASSUME queue \in Seq(Jobs), OneJob, NEW j \in Jobs, queue' = Append(queue, j)
  PROVE  /\ \A s : s # j => (Queued(s)' => Queued(s))
         /\ Queued(j)' /\ \A s : Queued(s) => Queued(s)'
         /\ ~Queued(j) \/ j \notin Sources => OneJob'
<1> DEFINE n == Len(queue)
<1>1. /\ n \in Nat /\ Len(queue') = n + 1
      /\ \A i \in 1 .. n + 1 : queue'[i] = IF i = n + 1 THEN j ELSE queue[i]
  OBVIOUS
<1> HIDE DEF n
<1>2. \A i \in 1 .. n + 1 : i = n + 1 \/ i \in 1 .. n
  BY <1>1
<1>3. \A s : s # j => (Queued(s)' => Queued(s))
  BY <1>1, <1>2 DEF Queued, n
<1>4. ASSUME ~Queued(j) \/ j \notin Sources PROVE OneJob'
  <2> SUFFICES ASSUME NEW i \in 1 .. n + 1, NEW k \in 1 .. n + 1,
                      queue'[i] = queue'[k], queue'[i] \in Sources
               PROVE  i = k
    BY <1>1 DEF OneJob
  <2>1. CASE i \in 1 .. n /\ k \in 1 .. n
    BY <1>1, <2>1 DEF OneJob, n
  <2>2. CASE i = n + 1 /\ k \in 1 .. n
    BY <1>1, <1>4, <2>2 DEF Queued, n
  <2>3. CASE k = n + 1 /\ i \in 1 .. n
    BY <1>1, <1>4, <2>3 DEF Queued, n
  <2>4. QED BY <1>2, <2>1, <2>2, <2>3
<1>5. \A s : Queued(s) => Queued(s)'
  <2>1. \A i \in 1 .. n : i \in 1 .. n + 1 /\ i # n + 1
    BY <1>1
  <2>2. QED BY <1>1, <2>1 DEF Queued, n
<1>6. Queued(j)'
  <2>1. n + 1 \in 1 .. n + 1
    BY <1>1
  <2>2. QED BY <1>1, <2>1 DEF Queued
<1>7. QED BY <1>3, <1>4, <1>5, <1>6

(* An event job is queued for a source that is not being closed.           *)
LEMMA EventOrderly ==
  ASSUME Typed, Orderly, NEW t \in Tasks, NEW z \in Sources, Queue_Event_Job(t, z)
  PROVE  Orderly'
<1> USE DEF Typed, TypeOK, Orderly
<1>1. /\ pc[t] = "queueing" /\ z \in events[t] /\ t \in Threads
      /\ events' = [events EXCEPT ![t] = @ \ {z}]
      /\ UNCHANGED <<pc, sources, held, carried, open, dying, sourceMonitor, aemMonitor,
                     selector, op>>
  BY DEF Queue_Event_Job, taskVars, sourceVars, aemVars, Threads
<1>2. /\ \A u \in Threads, s \in Sources : Inserts(u, s)' = Inserts(u, s)
      /\ \A s \in Sources : ~Deletes(t, s) /\ ~Deletes(t, s)'
      /\ \A s \in Sources : Called(s)' = Called(s)
  BY <1>1, NotCalling DEF InCall, Inserting, Deleting
<1>3. ReportsKept
  BY <1>1 DEF ReportsKept, Recorded
<1>4. CASE z \in dying
  <2>1. UNCHANGED queue
    BY <1>4 DEF Queue_Event_Job, Stabilize
  <2>2. Fewer(t)
    BY <1>1, <1>2, <1>3, <2>1 DEF Fewer
  <2>3. QED BY <1>1, <2>2, FewerOrderly
<1>5. CASE z \notin dying
  <2>1. queue' = Append(queue, z)
    BY <1>5 DEF Queue_Event_Job, Stabilize, Queue_Job
  <2>2. /\ \A s : s # z => (Queued(s)' => Queued(s))
        /\ ~Queued(z) => OneJob'
    BY <2>1, AppendJobs DEF Jobs, OnePlace
  <2>3. \A s \in Sources : /\ Monitored(s)' = Monitored(s) /\ Read(s)' = Read(s)
                           /\ Carried(s)' = Carried(s)
    BY <1>1 DEF Monitored, Read, Carried
  <2>4. Reported(z) /\ ~Reported(z)'
    BY <1>1 DEF Reported, OnePlace, OneReport
  <2>5. \A s \in Sources : s # z => (Reported(s)' => Reported(s)) /\ (Queued(s)' => Queued(s))
    BY <1>1, <2>2 DEF Reported
  <2>6. PlacesSound'
    <3> SUFFICES ASSUME NEW s \in Sources PROVE PlaceSound(s)'
      BY DEF PlacesSound
    <3>1. PlaceSound(s)
      BY DEF PlacesSound
    <3>2. CASE s = z
      BY <1>1, <1>2, <1>5, <2>3, <2>4, <3>1, <3>2 DEF PlaceSound, Placed
    <3>3. CASE s # z
      BY <1>1, <1>2, <2>3, <2>5, <3>1, <3>3 DEF PlaceSound, Placed
    <3>4. QED BY <3>2, <3>3
  <2>7. OnePlace'
    <3>1. ~Queued(z)
      BY <2>4 DEF PlacesSound, PlaceSound
    <3>2. OneJob'
      BY <2>2, <3>1
    <3>3. OneReport'
      BY <1>1 DEF OnePlace, OneReport
    <3>4. QED
      BY <1>1, <1>2, <3>2, <3>3 DEF OnePlace, OneReader, OneCarrier, OneCall
  <2>8. Recorded'
    BY <1>1, <1>3 DEF Recorded, ReportsKept
  <2>9. DeletesSound'
    BY <1>1, <1>2, <1>5, <2>3, <2>5, DeletesUntouched
  <2>10. QED BY <2>6, <2>7, <2>8, <2>9
<1>6. QED BY <1>4, <1>5

(* What Fetch_Job leaves of the queue.                                     *)
LEMMA WithoutJobs ==
  ASSUME queue \in Seq(Jobs), OneJob, NEW i \in 1 .. Len(queue), queue' = Without(queue, i)
  PROVE  /\ \A s : Queued(s)' => Queued(s)
         /\ \A s : s # queue[i] => (Queued(s) => Queued(s)')
         /\ \A s \in Sources : s = queue[i] => ~Queued(s)'
         /\ OneJob'
<1> DEFINE n == Len(queue)
           a == SubSeq(queue, 1, i - 1)
           b == SubSeq(queue, i + 1, n)
<1>1. /\ a \in Seq(Jobs) /\ Len(a) = i - 1 /\ \A k \in 1 .. i - 1 : a[k] = queue[k]
  OBVIOUS
<1>2. /\ b \in Seq(Jobs) /\ Len(b) = n - i /\ \A k \in 1 .. n - i : b[k] = queue[k + i]
  OBVIOUS
<1>3. queue' = a \o b
  BY DEF Without
<1>4. n \in Nat /\ i \in 1 .. n
  OBVIOUS
<1> HIDE DEF n, a, b
<1>5. /\ Len(queue') = n - 1
      /\ \A k \in 1 .. n - 1 : queue'[k] = queue[IF k < i THEN k ELSE k + 1]
  BY <1>1, <1>2, <1>3, <1>4
<1>6. \A k \in 1 .. n - 1 :
        (IF k < i THEN k ELSE k + 1) \in 1 .. n /\ (IF k < i THEN k ELSE k + 1) # i
  BY <1>4
<1>7. \A s : Queued(s)' => Queued(s)
  BY <1>5, <1>6 DEF Queued, n
<1>8. ASSUME NEW s \in Sources, s = queue[i] PROVE ~Queued(s)'
  <2>1. \A k \in 1 .. n : queue[k] = queue[i] => k = i
    BY <1>4, <1>8 DEF OneJob, n
  <2>2. QED BY <1>5, <1>6, <1>8, <2>1 DEF Queued
<1>9. OneJob'
  <2> SUFFICES ASSUME NEW k \in 1 .. n - 1, NEW l \in 1 .. n - 1,
                      queue'[k] = queue'[l], queue'[k] \in Sources
               PROVE  k = l
    BY <1>5 DEF OneJob
  <2>1. (IF k < i THEN k ELSE k + 1) = (IF l < i THEN l ELSE l + 1)
    BY <1>5, <1>6 DEF OneJob, n
  <2>2. QED BY <1>4, <2>1
<1>10. ASSUME NEW s, s # queue[i], Queued(s) PROVE Queued(s)'
  <2>1. PICK k \in 1 .. n : queue[k] = s /\ k # i
    BY <1>10 DEF Queued, n
  <2>2. PICK l \in 1 .. n - 1 : (IF l < i THEN l ELSE l + 1) = k
    <3>1. CASE k < i
      <4>1. k \in 1 .. n - 1
        BY <1>4, <3>1
      <4>2. QED BY <3>1, <4>1
    <3>2. CASE k > i
      <4>1. k - 1 \in 1 .. n - 1 /\ ~(k - 1 < i) /\ (k - 1) + 1 = k
        BY <1>4, <3>2
      <4>2. QED BY <4>1
    <3>3. QED BY <1>4, <2>1, <3>1, <3>2
  <2>3. QED BY <1>5, <2>1, <2>2 DEF Queued
<1>11. QED BY <1>7, <1>8, <1>9, <1>10

(* A task fetches a job, and goes on reading its source.                   *)
LEMMA FetchOrderly ==
  ASSUME Typed, Orderly, NEW t \in Tasks, Schedule_Job(t)
  PROVE  Orderly'
<1> USE DEF Typed, TypeOK, Orderly
<1>1. /\ pc[t] = "schedule" /\ pc' = [pc EXCEPT ![t] = "running"] /\ t \in Threads
      /\ UNCHANGED <<sources, events, open, dying, sourceMonitor, aemMonitor, op>>
      /\ \A u \in Tasks : u # t => selector'[u] = selector[u]
  BY DEF Schedule_Job, Scheduling, Goto, aemVars, Threads
<1>2. PICK i \in 1 .. Len(queue) :
             queue' = Without(queue, i) /\ Take_Source(t, queue[i])
  BY DEF Schedule_Job
<1>3. PICK j : j = queue[i]
  OBVIOUS
<1>4. PICK z : z = IF j \in Upcalls THEN carried[j] ELSE j
  OBVIOUS
<1>5. j \in Jobs /\ Queued(j)
  BY <1>2, <1>3 DEF Queued
<1>6. /\ \A s : Queued(s)' => Queued(s)
      /\ j \in Sources => ~Queued(j)'
      /\ OneJob'
  BY <1>2, <1>3, WithoutJobs DEF OnePlace
<1>7. /\ held' = [held EXCEPT ![t] = z]
      /\ carried' = [u \in Upcalls |-> IF u = j THEN None ELSE carried[u]]
  BY <1>2, <1>3, <1>4 DEF Take_Source
<1>8. /\ \A u \in Threads, s \in Sources : Inserts(u, s)' = Inserts(u, s)
      /\ \A s \in Sources : ~Deletes(t, s) /\ ~Deletes(t, s)'
      /\ \A s \in Sources : Called(s)' = Called(s)
  BY <1>1, NotCalling DEF InCall, Inserting, Deleting
<1>9. \A s \in Sources : Monitored(s)' = Monitored(s) /\ Reported(s)' = Reported(s)
  BY <1>1 DEF Monitored, Reported
<1>10. None \notin Sources /\ Sources \cap Upcalls = {}
  BY JobsAssumption DEF Jobs
<1>11. z \in Sources \cup {None} /\ (z \in Sources => Queued(z) \/ Carried(z))
  BY <1>4, <1>5, <1>10 DEF Jobs, Carried
<1>12. z \in Sources => ~Queued(z)' /\ ~Carried(z)'
  <2>1. CASE j \in Upcalls
    <3>1. z \in Sources => ~Queued(z)
      BY <1>4, <1>10, <2>1 DEF PlacesSound, PlaceSound, Carried
    <3>2. z \in Sources => ~Carried(z)'
      BY <1>4, <1>7, <1>10, <2>1 DEF Carried, OnePlace, OneCarrier
    <3>3. QED BY <1>6, <3>1, <3>2
  <2>2. CASE j \in Sources
    <3>1. ~Carried(j)
      BY <1>5, <2>2 DEF PlacesSound, PlaceSound
    <3>2. z = j
      BY <1>4, <1>10, <2>2
    <3>3. QED BY <1>6, <1>7, <1>10, <2>2, <3>1, <3>2 DEF Carried
  <2>3. QED BY <1>5, <2>1, <2>2 DEF Jobs
<1>13. \A s \in Sources : Carried(s)' => Carried(s)
  BY <1>7, <1>10 DEF Carried
<1>14. \A s \in Sources : s # z => (Read(s)' => Read(s))
  BY <1>7 DEF Read
<1>15. PlacesSound'
  <2> SUFFICES ASSUME NEW s \in Sources PROVE PlaceSound(s)'
    BY DEF PlacesSound
  <2>1. PlaceSound(s)
    BY DEF PlacesSound
  <2>2. CASE s = z
    BY <1>1, <1>8, <1>9, <1>11, <1>12, <2>1, <2>2 DEF PlaceSound, Placed
  <2>3. CASE s # z
    BY <1>1, <1>6, <1>8, <1>9, <1>13, <1>14, <2>1, <2>3 DEF PlaceSound, Placed
  <2>4. QED BY <2>2, <2>3
<1>16. OnePlace'
  <2>1. \A u \in Tasks : z # None => held[u] # z
    BY <1>11 DEF PlacesSound, PlaceSound, Read
  <2>2. OneReader'
    BY <1>7, <1>10, <1>11, <2>1 DEF OnePlace, OneReader
  <2>3. OneCarrier' /\ OneReport'
    BY <1>1, <1>7 DEF OnePlace, OneCarrier, OneReport
  <2>4. QED BY <1>6, <1>8, <2>2, <2>3 DEF OnePlace, OneCall
<1>17. Recorded'
  BY <1>1 DEF Recorded
<1>18. DeletesSound'
  BY <1>1, <1>8, <1>9, DeletesUntouched
<1>19. QED BY <1>15, <1>16, <1>17, <1>18

(* The event job passes its source on to the request job.                  *)
LEMMA RequestOrderly ==
  ASSUME Typed, Orderly, NEW t \in Tasks, NEW v \in Upcalls, Queue_Request_Job(t, v)
  PROVE  Orderly'
<1> USE DEF Typed, TypeOK, Orderly
<1>1. PICK z : z = held[t]
  OBVIOUS
<1>2. /\ pc[t] = "running" /\ t \in Threads
      /\ queue' = Append(queue, v)
      /\ carried' = [carried EXCEPT ![v] = z]
      /\ held' = [held EXCEPT ![t] = None]
      /\ UNCHANGED <<pc, sources, events, open, dying, sourceMonitor, aemMonitor, selector, op>>
  BY <1>1 DEF Queue_Request_Job, Queue_Job, aemVars, Threads
<1>3. /\ \A u \in Threads, s \in Sources : Inserts(u, s)' = Inserts(u, s)
      /\ \A s \in Sources : ~Deletes(t, s) /\ ~Deletes(t, s)'
      /\ \A s \in Sources : Called(s)' = Called(s)
  BY <1>2, NotCalling DEF InCall, Inserting, Deleting
<1>4. None \notin Sources /\ v \notin Sources /\ v \in Jobs
  BY JobsAssumption DEF Jobs
<1>5. /\ \A s \in Sources : Queued(s)' => Queued(s)
      /\ OneJob'
  BY <1>2, <1>4, AppendJobs DEF OnePlace
<1>6. \A s \in Sources : Monitored(s)' = Monitored(s) /\ Reported(s)' = Reported(s)
  BY <1>2 DEF Monitored, Reported
<1>7. z \in Sources \cup {None} /\ (z \in Sources => Read(z) /\ ~Read(z)')
  BY <1>1, <1>2, <1>4 DEF Read, OnePlace, OneReader
<1>8. \A s \in Sources : s # z => (Carried(s)' => Carried(s)) /\ (Read(s)' => Read(s))
  BY <1>1, <1>2, <1>4 DEF Carried, Read
<1>9. PlacesSound'
  <2> SUFFICES ASSUME NEW s \in Sources PROVE PlaceSound(s)'
    BY DEF PlacesSound
  <2>1. PlaceSound(s)
    BY DEF PlacesSound
  <2>2. CASE s = z
    BY <1>2, <1>3, <1>5, <1>6, <1>7, <2>1, <2>2 DEF PlaceSound, Placed
  <2>3. CASE s # z
    BY <1>2, <1>3, <1>5, <1>6, <1>8, <2>1, <2>3 DEF PlaceSound, Placed
  <2>4. QED BY <2>2, <2>3
<1>10. OnePlace'
  <2>1. \A u \in Upcalls : z # None => carried[u] # z
    BY <1>7 DEF PlacesSound, PlaceSound, Carried
  <2>2. OneCarrier'
    BY <1>2, <2>1 DEF OnePlace, OneCarrier
  <2>3. OneReader' /\ OneReport'
    BY <1>2 DEF OnePlace, OneReader, OneReport
  <2>4. QED BY <1>3, <1>5, <2>2, <2>3 DEF OnePlace, OneCall
<1>11. Recorded'
  BY <1>2 DEF Recorded
<1>12. DeletesSound'
  BY <1>2, <1>3, <1>6, DeletesUntouched
<1>13. QED BY <1>9, <1>10, <1>11, <1>12

(* The source of an insertion becomes monitored, its registration fails,   *)
(* or a thread inserts it: what is common to these steps.                  *)
LEMMA InsertOrderly ==
  ASSUME Typed, Orderly, NEW t \in Threads, NEW z \in Sources,
         \A u \in Threads : u # t => pc'[u] = pc[u] /\ op'[u] = op[u],
         \A s \in Sources : s # z => Shrinks(s) /\ (Inserts(t, s)' => Inserts(t, s)),
         PlaceSound(z)', Inserts(t, z)' => ~Called(z),
         z \notin dying /\ dying' = dying /\ open' \in {open, open \cup {z}},
         OneReader' /\ Recorded', \A s \in Sources : ~Deletes(t, s)',
         \A J \in Slots : aemMonitor[J] # None => aemMonitor'[J] = aemMonitor[J],
         \A s \in dying : sourceMonitor'[s] = sourceMonitor[s],
         UNCHANGED <<events, queue, carried>>
  PROVE  Orderly'
<1> USE DEF Orderly
<1>1. PlacesSound'
  <2> SUFFICES ASSUME NEW s \in Sources, s # z PROVE PlaceSound(s)'
    BY DEF PlacesSound
  <2>1. PlaceSound(s) /\ Shrinks(s)
    BY DEF PlacesSound
  <2>2. QED BY <2>1 DEF PlaceSound, Placed, Shrinks
<1>2. OnePlace'
  <2>1. ASSUME NEW u \in Threads, NEW s \in Sources, u # t PROVE Inserts(u, s)' = Inserts(u, s)
    BY <2>1 DEF Inserts
  <2>2. OneCall'
    BY <2>1 DEF OnePlace, OneCall, Called
  <2>3. QED BY <2>2 DEF OnePlace, OneReport, OneJob, OneCarrier
<1>3. DeletesSound'
  <2>1. \A u \in Threads, s \in Sources : Deletes(u, s) => s \in dying
    BY DEF DeletesSound, DeleteSound
  <2>2. \A s \in dying : /\ Monitored(s)' => Monitored(s)
                         /\ Reported(s)' => Reported(s)
    BY DEF Shrinks, Typed, TypeOK
  <2>3. QED BY <2>1, <2>2, DeletesStep
<1>4. QED BY <1>1, <1>2, <1>3

(* Register_Source: the source goes from the call to the list.             *)
LEMMA RegisterOrderly ==
  ASSUME Typed, Tables, Orderly, NEW t \in Threads, Register_Source(t)
  PROVE  Orderly'
<1> USE DEF Typed, TypeOK, Orderly
<1>1. PICK z \in Sources : z = op[t].arg
  BY DEF Register_Source, OpAgrees
<1>2. PICK m : m = aemMonitor[op[t].slot]
  OBVIOUS
<1>3. /\ pc[t] = "disabled" /\ op[t].kind = "insert"
      /\ pc' = [pc EXCEPT ![t] = "added"]
      /\ sources' = [sources EXCEPT ![m] = @ \cup {z}]
      /\ sourceMonitor' = [sourceMonitor EXCEPT ![z] = m]
      /\ UNCHANGED <<op, held, events, queue, carried, open, dying, aemMonitor, selector>>
  BY <1>1, <1>2 DEF Register_Source, Goto, taskVars, aemVars
<1>4. Inserts(t, z) /\ Called(z) /\ \A s \in Sources : ~Inserts(t, s)' /\ ~Deletes(t, s)'
  BY <1>1, <1>3 DEF Inserts, Deletes, Inserting, Called
<1>5. PlaceSound(z)
  BY DEF PlacesSound
<1>6. ASSUME NEW u \in Threads, NEW s \in Sources, Inserts(u, s)'
      PROVE  u # t /\ Inserts(u, s)
  BY <1>3, <1>4, <1>6 DEF Inserts
<1>7. ~Called(z)'
  BY <1>4, <1>6 DEF Called, OnePlace, OneCall
<1>8. \A s \in Sources : /\ Reported(s)' = Reported(s) /\ Queued(s)' = Queued(s)
                         /\ Read(s)' = Read(s) /\ Carried(s)' = Carried(s)
  BY <1>3 DEF Reported, Queued, Read, Carried
<1>9. PlaceSound(z)' /\ z \notin dying
  BY <1>3, <1>4, <1>5, <1>7, <1>8 DEF PlaceSound, Placed
<1>10. ASSUME NEW s \in Sources, s # z PROVE Shrinks(s) /\ (Inserts(t, s)' => Inserts(t, s))
  <2>1. Monitored(s)' => Monitored(s)
    BY <1>3, <1>10 DEF Monitored
  <2>2. Called(s)' => Called(s)
    BY <1>6 DEF Called
  <2>3. QED BY <1>4, <1>8, <2>1, <2>2 DEF Shrinks
<1>11. OneReader'
  BY <1>3 DEF OnePlace, OneReader
<1>12. Recorded'
  <2>1. ~Monitored(z) /\ ~Reported(z)
    BY <1>4, <1>5 DEF PlaceSound
  <2>2. ASSUME NEW n \in Monitors, NEW s \in sources'[n] PROVE sourceMonitor'[s] = n
    <3>1. CASE s = z
      BY <1>3, <2>1, <2>2, <3>1 DEF Monitored
    <3>2. CASE s # z
      BY <1>3, <2>2, <3>2 DEF Recorded
    <3>3. QED BY <3>1, <3>2
  <2>3. ASSUME NEW u \in Tasks, NEW s \in events[u]
        PROVE  pc'[u] \in {"polled", "queueing"} /\ sourceMonitor'[s] = selector[u]
    <3>1. s # z /\ s \in Sources /\ pc[u] \in {"polled", "queueing"}
      BY <2>1 DEF Reported, Recorded
    <3>2. QED BY <1>3, <3>1 DEF Recorded, Threads
  <2>4. QED BY <1>3, <2>2, <2>3 DEF Recorded
<1>13. \A s \in dying : sourceMonitor'[s] = sourceMonitor[s]
  BY <1>3, <1>9
<1>14. \A u \in Threads : u # t => pc'[u] = pc[u] /\ op'[u] = op[u]
  BY <1>3
<1>15. QED
  BY <1>3, <1>4, <1>9, <1>10, <1>11, <1>12, <1>13, <1>14, InsertOrderly

(* Register_Failure: the source is nowhere, though it is open.             *)
LEMMA FailureOrderly ==
  ASSUME Typed, Orderly, NEW t \in Threads, Register_Failure(t)
  PROVE  Orderly'
<1> USE DEF Typed, TypeOK, Orderly
<1>1. PICK z \in Sources : z = op[t].arg
  BY DEF Register_Failure, OpAgrees
<1>2. /\ pc[t] = "disabled" /\ op[t].kind = "insert"
      /\ pc' = [pc EXCEPT ![t] = "enabling"]
      /\ UNCHANGED <<sources, sourceMonitor, op, held, events, queue, carried, open, dying,
                     aemMonitor, selector>>
  BY <1>1 DEF Register_Failure, Goto, taskVars, aemVars, sourceVars
<1>3. Inserts(t, z) /\ Called(z) /\ \A s \in Sources : ~Inserts(t, s)' /\ ~Deletes(t, s)'
  BY <1>1, <1>2 DEF Inserts, Deletes, Inserting, Called
<1>4. PlaceSound(z)
  BY DEF PlacesSound
<1>5. ASSUME NEW u \in Threads, NEW s \in Sources, Inserts(u, s)'
      PROVE  u # t /\ Inserts(u, s)
  BY <1>2, <1>3, <1>5 DEF Inserts
<1>6. ~Called(z)'
  BY <1>3, <1>5 DEF Called, OnePlace, OneCall
<1>7. \A s \in Sources : /\ Reported(s)' = Reported(s) /\ Queued(s)' = Queued(s)
                         /\ Read(s)' = Read(s) /\ Carried(s)' = Carried(s)
                         /\ Monitored(s)' = Monitored(s)
  BY <1>2 DEF Reported, Queued, Read, Carried, Monitored
<1>8. PlaceSound(z)' /\ z \notin dying
  BY <1>2, <1>3, <1>4, <1>6, <1>7 DEF PlaceSound, Placed
<1>9. ASSUME NEW s \in Sources, s # z PROVE Shrinks(s) /\ (Inserts(t, s)' => Inserts(t, s))
  <2>1. Called(s)' => Called(s)
    BY <1>5 DEF Called
  <2>2. QED BY <1>3, <1>7, <2>1 DEF Shrinks
<1>10. OneReader'
  BY <1>2 DEF OnePlace, OneReader
<1>11. Recorded'
  BY <1>2 DEF Recorded, Threads
<1>12. \A u \in Threads : u # t => pc'[u] = pc[u] /\ op'[u] = op[u]
  BY <1>2
<1>13. QED
  BY <1>2, <1>3, <1>8, <1>9, <1>10, <1>11, <1>12, InsertOrderly

(* Create_Monitor: the source goes to the list of a new monitor; when all  *)
(* slots are taken, an exception is raised.                                *)
LEMMA CreateTraced ==
  ASSUME Typed, Orderly, NEW t \in Threads, Create_Monitor(t)
  PROVE  PlacedIsOpen' /\ (error' = "none" => Orderly')
<1> USE DEF Typed, TypeOK, Orderly
<1>1. PICK z \in Sources : z = op[t].arg
  BY DEF Create_Monitor, OpAgrees
<1>2. PICK m \in Monitors :
        /\ \A J \in Slots : aemMonitor[J] # m
        /\ sources' = [sources EXCEPT ![m] = {z}]
        /\ sourceMonitor' = [sourceMonitor EXCEPT ![z] = m]
        /\ \/ /\ aemMonitor' = [aemMonitor EXCEPT ![Monitor_Count + 1] = m]
              /\ op' = [op EXCEPT ![t].slot = Monitor_Count + 1]
              /\ pc' = [pc EXCEPT ![t] = "added"]
              /\ Monitor_Count < Maximum_Number_Of_Monitors
           \/ error' # "none" /\ UNCHANGED <<aemMonitor, op, pc>>
  BY <1>1 DEF Create_Monitor, Goto
<1>3. /\ pc[t] = "create" /\ op[t].kind = "insert"
      /\ UNCHANGED <<held, events, queue, carried, open, dying, selector>>
  BY DEF Create_Monitor, OpAgrees, taskVars
<1>4. Inserts(t, z) /\ Called(z)
  BY <1>1, <1>3 DEF Inserts, Inserting, Called
<1>5. PlaceSound(z)
  BY DEF PlacesSound
<1>6. z \in open /\ z \notin dying /\ ~Monitored(z) /\ ~Reported(z)
  BY <1>4, <1>5 DEF PlaceSound, Placed
<1>7. \A s \in Sources : /\ Reported(s)' = Reported(s) /\ Queued(s)' = Queued(s)
                         /\ Read(s)' = Read(s) /\ Carried(s)' = Carried(s)
  BY <1>3 DEF Reported, Queued, Read, Carried
<1>8. ASSUME NEW u \in Threads, NEW s \in Sources, Inserts(u, s)' PROVE Inserts(u, s)
  <2>1. pc'[u] \in Inserting => pc'[u] = pc[u] /\ op'[u] = op[u]
    BY <1>2 DEF Inserting
  <2>2. QED BY <1>8, <2>1 DEF Inserts
<1>9. ASSUME NEW s \in Sources, s # z PROVE Shrinks(s) /\ (Inserts(t, s)' => Inserts(t, s))
  <2>1. Monitored(s)' => Monitored(s)
    BY <1>2, <1>9 DEF Monitored
  <2>2. QED BY <1>7, <1>8, <2>1 DEF Shrinks, Called
<1>10. PlacedIsOpen'
  BY <1>3, <1>6, <1>9 DEF PlacedIsOpen, PlacesSound, PlaceSound, Placed, Shrinks
<1>11. ASSUME error' = "none" PROVE Orderly'
  <2>1. /\ aemMonitor' = [aemMonitor EXCEPT ![Monitor_Count + 1] = m]
        /\ op' = [op EXCEPT ![t].slot = Monitor_Count + 1]
        /\ pc' = [pc EXCEPT ![t] = "added"]
        /\ Monitor_Count < Maximum_Number_Of_Monitors
    BY <1>2, <1>11
  <2>2. \A s \in Sources : ~Inserts(t, s)' /\ ~Deletes(t, s)'
    BY <1>3, <2>1 DEF Inserts, Deletes, Inserting, Operation
  <2>3. ~Called(z)'
    BY <1>4, <1>8, <2>2 DEF Called, OnePlace, OneCall
  <2>4. PlaceSound(z)'
    BY <1>3, <1>4, <1>5, <1>7, <2>3 DEF PlaceSound, Placed
  <2>5. OneReader'
    BY <1>3 DEF OnePlace, OneReader
  <2>6. Recorded'
    <3>1. ASSUME NEW n \in Monitors, NEW s \in sources'[n] PROVE sourceMonitor'[s] = n
      <4>1. CASE s = z
        BY <1>2, <1>6, <3>1, <4>1 DEF Monitored
      <4>2. CASE s # z
        BY <1>2, <3>1, <4>2 DEF Recorded
      <4>3. QED BY <4>1, <4>2
    <3>2. ASSUME NEW u \in Tasks, NEW s \in events[u]
          PROVE  pc'[u] \in {"polled", "queueing"} /\ sourceMonitor'[s] = selector[u]
      <4>1. s # z /\ s \in Sources /\ pc[u] \in {"polled", "queueing"}
        BY <1>6 DEF Reported, Recorded
      <4>2. QED BY <1>2, <1>3, <2>1, <4>1 DEF Recorded, Threads
    <3>3. QED BY <1>3, <3>1, <3>2 DEF Recorded
  <2>7. \A s \in dying : sourceMonitor'[s] = sourceMonitor[s]
    BY <1>2, <1>6
  <2>8. \A J \in Slots : aemMonitor[J] # None => aemMonitor'[J] = aemMonitor[J]
    BY <2>1 DEF Monitor_Count, Maximum_Number_Of_Monitors, Slots
  <2>9. \A u \in Threads : u # t => pc'[u] = pc[u] /\ op'[u] = op[u]
    BY <2>1
  <2>10. QED
    BY <1>3, <1>6, <1>9, <2>2, <2>4, <2>5, <2>6, <2>7, <2>8, <2>9, InsertOrderly
<1>12. QED BY <1>10, <1>11

(* The call returns; a deleted source, which is nowhere, is closed.        *)
LEMMA DoneOrderly ==
  ASSUME Typed, Orderly, NEW t \in Threads, Source_Done(t)
  PROVE  Orderly'
<1> USE DEF Typed, TypeOK, Orderly
<1>1. PICK z \in Sources : z = op[t].arg
  BY DEF Source_Done, OpAgrees
<1>2. /\ pc[t] = "enabling" /\ pc' = [pc EXCEPT ![t] = op[t].ret]
      /\ op' = [op EXCEPT ![t] = NoOp]
      /\ UNCHANGED <<sources, events, queue, held, carried, aemMonitor, selector>>
      /\ \/ UNCHANGED <<open, dying, sourceMonitor>>
         \/ /\ op[t].kind = "delete"
            /\ open' = open \ {z} /\ dying' = dying \ {z}
            /\ sourceMonitor' = [sourceMonitor EXCEPT ![z] = None]
  BY <1>1 DEF Source_Done, Goto, taskVars, aemVars
<1>3. \A u \in Threads : u # t => pc'[u] = pc[u] /\ op'[u] = op[u]
  BY <1>2
<1>4. \A s \in Sources : ~Inserts(t, s)' /\ ~Deletes(t, s)'
  BY <1>2 DEF Inserts, Deletes, NoOp
<1>5. ReportsKept
  BY <1>2 DEF ReportsKept, Recorded, Threads
<1>6. CASE UNCHANGED <<open, dying, sourceMonitor>>
  <2>1. Fewer(t)
    BY <1>2, <1>3, <1>4, <1>5, <1>6 DEF Fewer
  <2>2. QED BY <2>1, FewerOrderly
<1>7. CASE /\ op[t].kind = "delete" /\ open' = open \ {z} /\ dying' = dying \ {z}
           /\ sourceMonitor' = [sourceMonitor EXCEPT ![z] = None]
  <2>1. Deletes(t, z)
    BY <1>1, <1>2, <1>7 DEF Deletes, Deleting
  <2>2. /\ z \in dying /\ ~Monitored(z) /\ ~Reported(z)
        /\ \A u \in Threads : Deletes(u, z) => u = t
    BY <1>2, <2>1 DEF DeletesSound, DeleteSound
  <2>3. ~Placed(z)
    BY <2>2 DEF PlacesSound, PlaceSound, Placed
  <2>4. \A u \in Threads, s \in Sources : Inserts(u, s)' => Inserts(u, s)
    BY <1>3, <1>4 DEF Inserts
  <2>5. \A s \in Sources : Shrinks(s)
    BY <1>2, <2>4 DEF Shrinks, Monitored, Reported, Queued, Read, Carried, Called
  <2>6. PlacesSound'
    BY <1>7, <2>3, <2>5 DEF PlacesSound, PlaceSound, Placed, Shrinks
  <2>7. OnePlace'
    BY <1>2, <2>4 DEF OnePlace, OneReport, OneJob, OneReader, OneCarrier, OneCall
  <2>8. Recorded'
    <3>1. \A s \in Sources : Monitored(s) \/ Reported(s) => sourceMonitor'[s] = sourceMonitor[s]
      BY <1>7, <2>2
    <3>2. QED BY <1>2, <1>5, <3>1 DEF Recorded, ReportsKept, Monitored, Reported
  <2>9. \A u \in Threads, s \in Sources : u # t /\ Deletes(u, s) => s \in dying'
    BY <1>7, <2>2 DEF DeletesSound, DeleteSound
  <2>10. DeletesSound'
    <3>1. \A s \in dying : s \in dying' => sourceMonitor'[s] = sourceMonitor[s]
      BY <1>7
    <3>2. QED BY <1>2, <1>3, <1>4, <2>5, <2>9, <3>1, DeletesStep DEF Shrinks
  <2>11. QED BY <2>6, <2>7, <2>8, <2>10
<1>8. QED BY <1>2, <1>6, <1>7

(* Insert_Source, of a source that is new or that the job has read.        *)
LEMMA CallInsertOrderly ==
  ASSUME Typed, Orderly, NEW t \in Threads, NEW z \in Sources, Insert_Source(t, z)
  PROVE  Orderly'
<1> USE DEF Typed, TypeOK, Orderly
<1>1. /\ pc[t] \in {"running", "out"}
      /\ \E p \in {"create", "disable"} : pc' = [pc EXCEPT ![t] = p]
      /\ open' = open \cup {z}
      /\ held' = [u \in Tasks |-> IF u = t /\ held[u] = z THEN None ELSE held[u]]
      /\ UNCHANGED <<sources, events, queue, carried, dying, sourceMonitor, aemMonitor,
                     selector>>
  BY DEF Insert_Source, Can_Call, Pass_On, Goto, taskVars, aemVars
<1>2. op' = [op EXCEPT ![t] = [kind |-> "insert", arg |-> z, slot |-> 1,
                               last |-> Monitor_Count, ret |-> pc[t]]]
  BY DEF Insert_Source
<1>3. z \notin open \/ (t \in Tasks /\ held[t] = z)
  BY DEF Insert_Source, Holds
<1>4. /\ \A u \in Threads : u # t => pc'[u] = pc[u] /\ op'[u] = op[u]
      /\ op'[t].kind = "insert" /\ op'[t].arg = z
  BY <1>1, <1>2
<1>5. /\ \A s \in Sources : ~Deletes(t, s)'
      /\ \A s \in Sources : s # z => ~Inserts(t, s)'
  BY <1>4 DEF Deletes, Inserts
<1>6. \A u \in Threads, s \in Sources : u # t => Inserts(u, s)' = Inserts(u, s)
  BY <1>4 DEF Inserts
<1>7. PlaceSound(z) /\ z # None
  BY JobsAssumption DEF PlacesSound, Jobs
<1>8. z \notin open \/ Read(z)
  BY <1>3 DEF Read
<1>9. ~Monitored(z) /\ ~Reported(z) /\ ~Queued(z) /\ ~Carried(z) /\ ~Called(z) /\ z \notin dying
  BY <1>7, <1>8 DEF PlaceSound, Placed
<1>10. ~Read(z)'
  <2>1. \A u \in Tasks : held[u] = z => u = t
    BY <1>3, <1>7 DEF PlaceSound, Placed, Read, OnePlace, OneReader
  <2>2. QED BY <1>1, <1>7, <2>1 DEF Read
<1>11. \A s \in Sources : /\ Monitored(s)' = Monitored(s) /\ Reported(s)' = Reported(s)
                          /\ Queued(s)' = Queued(s) /\ Carried(s)' = Carried(s)
                          /\ Read(s)' => Read(s)
  <2>1. None \notin Sources
    BY JobsAssumption DEF Jobs
  <2>2. QED BY <1>1, <2>1 DEF Monitored, Reported, Queued, Carried, Read
<1>12. PlaceSound(z)'
  BY <1>1, <1>9, <1>10, <1>11 DEF PlaceSound
<1>13. \A s \in Sources : s # z => Shrinks(s) /\ (Inserts(t, s)' => Inserts(t, s))
  BY <1>5, <1>6, <1>11 DEF Shrinks, Called
<1>14. OneReader'
  BY <1>1 DEF OnePlace, OneReader
<1>15. Recorded'
  BY <1>1 DEF Recorded, Threads
<1>16. QED
  BY <1>1, <1>4, <1>5, <1>9, <1>12, <1>13, <1>14, <1>15, InsertOrderly

(* The last reference to a source goes away: nobody reads it any more.     *)
LEMMA FinalizeOrderly ==
  ASSUME Typed, Orderly, NEW t \in Threads, NEW z \in Sources, Finalize_Endpoint(t, z)
  PROVE  Orderly'
<1> USE DEF Typed, TypeOK, Orderly
<1>1. /\ pc[t] \in {"running", "out"} /\ pc' = [pc EXCEPT ![t] = "deleting"]
      /\ dying' = dying \cup {z}
      /\ held' = [u \in Tasks |-> IF u = t /\ held[u] = z THEN None ELSE held[u]]
      /\ UNCHANGED <<sources, events, queue, carried, open, sourceMonitor, aemMonitor,
                     selector>>
  BY DEF Finalize_Endpoint, Can_Call, Pass_On, Goto, aemVars
<1>2. op' = [op EXCEPT ![t] = [kind |-> "delete", arg |-> z, slot |-> 0,
                               last |-> 0, ret |-> pc[t]]]
  BY DEF Finalize_Endpoint
<1>3. /\ z \in open
      /\ ~Queued(z) /\ ~Carried(z)
      /\ \A u \in Tasks : u # t => held[u] # z
      /\ \A u \in Threads : op[u].arg # z
  BY DEF Finalize_Endpoint, Last_Reference, Queued, Carried
<1>4. /\ \A u \in Threads : u # t => pc'[u] = pc[u] /\ op'[u] = op[u]
      /\ op'[t].kind = "delete" /\ op'[t].arg = z /\ pc'[t] = "deleting"
  BY <1>1, <1>2
<1>5. /\ \A u \in Threads, s \in Sources : Inserts(u, s)' => Inserts(u, s)
      /\ \A u \in Threads : ~Inserts(u, z) /\ ~Deletes(u, z)
      /\ \A s \in Sources : Deletes(t, s)' => s = z
  BY <1>3, <1>4 DEF Deletes, Inserts
<1>6. None \notin Sources
  BY JobsAssumption DEF Jobs
<1>7. \A s \in Sources : /\ Monitored(s)' = Monitored(s) /\ Reported(s)' = Reported(s)
                         /\ Queued(s)' = Queued(s) /\ Carried(s)' = Carried(s)
                         /\ Read(s)' => Read(s)
  BY <1>1, <1>6 DEF Monitored, Reported, Queued, Carried, Read
<1>8. ~Read(z)' /\ ~Called(z)' /\ \A s \in Sources : Called(s)' => Called(s)
  BY <1>1, <1>3, <1>5, <1>6 DEF Read, Called
<1>9. PlacesSound'
  <2> SUFFICES ASSUME NEW s \in Sources PROVE PlaceSound(s)'
    BY DEF PlacesSound
  <2>1. PlaceSound(s)
    BY DEF PlacesSound
  <2>2. CASE s = z
    BY <1>1, <1>3, <1>7, <1>8, <2>1, <2>2 DEF PlaceSound, Placed
  <2>3. CASE s # z
    BY <1>1, <1>7, <1>8, <2>1, <2>3 DEF PlaceSound, Placed
  <2>4. QED BY <2>2, <2>3
<1>10. OnePlace'
  BY <1>1, <1>5 DEF OnePlace, OneReport, OneJob, OneReader, OneCarrier, OneCall
<1>11. Recorded'
  BY <1>1 DEF Recorded, Threads
<1>12. DeletesSound'
  <2>1. \A u \in Threads, s \in Sources : Deletes(u, s) => s \in dying'
    BY <1>1 DEF DeletesSound, DeleteSound
  <2>2. DeleteSound(t, z)'
    BY <1>1, <1>3, <1>4 DEF DeleteSound
  <2>3. \A s \in dying : /\ Monitored(s)' => Monitored(s)
                         /\ Reported(s)' => Reported(s)
    BY <1>7
  <2>4. \A s \in Sources : Deletes(t, s)' =>
          DeleteSound(t, s)' /\ \A u \in Threads : Deletes(u, s) => u = t
    BY <1>5, <2>2
  <2>5. QED BY <1>1, <1>4, <2>1, <2>3, <2>4, DeletesStep
<1>13. QED BY <1>9, <1>10, <1>11, <1>12

----------------------------------------------------------------------------
(* Every step                                                              *)

(* No source is anywhere at first.                                         *)
LEMMA TracedInit == Init => Traced
<1> SUFFICES ASSUME Init PROVE Traced
  OBVIOUS
<1> USE DEF Init
<1>1. \A t \in Threads, s \in Sources : ~Inserts(t, s) /\ ~Deletes(t, s)
  BY DEF Inserts, Deletes, NoOp
<1>2. \A s \in Sources : s # None
  BY JobsAssumption DEF Jobs
<1>3. \A s \in Sources : ~Placed(s)
  BY <1>1, <1>2 DEF Placed, Monitored, Reported, Queued, Read, Carried, Called
<1>4. PlacedIsOpen /\ PlacesSound
  BY <1>3 DEF PlacedIsOpen, PlacesSound, PlaceSound, Placed
<1>5. OnePlace
  BY <1>1 DEF OnePlace, OneReport, OneJob, OneReader, OneCarrier, OneCall
<1>6. Recorded /\ DeletesSound
  BY <1>1 DEF Recorded, DeletesSound
<1>7. QED BY <1>4, <1>5, <1>6 DEF Traced, Orderly

(* Of the steps of a task in the main loop, all but three are quiet.       *)
LEMMA QuietTask ==
  ASSUME Typed, Orderly, NEW t \in Tasks, Task_Inside(t) \/ Task_Enter(t),
         ~Schedule_Job(t), \A s \in Sources : ~Queue_Event_Job(t, s), ~Job_Completed(t)
  PROVE  Quiet /\ UNCHANGED broken
<1> USE ThreadsAssumption
    DEF Typed, TypeOK, Orderly, Recorded, Quiet, ReportsKept, InCall, Inserting, Deleting,
        Threads, Tasks, Goto, Scheduling, taskVars, aemVars, sourceVars
<1>1. CASE Schedule_Terminated(t)
  BY <1>1 DEF Schedule_Terminated
<1>2. CASE Schedule_Exit(t)
  BY <1>2 DEF Schedule_Exit
<1>3. CASE Schedule_Poll(t)
  BY <1>3 DEF Schedule_Poll
<1>4. CASE Schedule_Idle(t)
  BY <1>4 DEF Schedule_Idle
<1>5. CASE Unregister_Task(t)
  BY <1>5 DEF Unregister_Task
<1>6. CASE Idle_Terminate(t)
  BY <1>6 DEF Idle_Terminate
<1>7. CASE Idle_Wait(t)
  BY <1>7 DEF Idle_Wait
<1>8. CASE End_Of_Check_Sources(t)
  BY <1>8 DEF End_Of_Check_Sources
<1>9. CASE Run(t)
  BY <1>9 DEF Run
<1>10. CASE Idle_Return(t)
  BY <1>10 DEF Idle_Return
<1>11. CASE Reenter(t)
  BY <1>11 DEF Reenter
<1>12. CASE Terminate_Task(t)
  BY <1>12 DEF Terminate_Task
<1>13. CASE Abort_Request_Fails(t)
  BY <1>13 DEF Abort_Request_Fails
<1>14. QED
  BY <1>1, <1>2, <1>3, <1>4, <1>5, <1>6, <1>7, <1>8, <1>9, <1>10, <1>11, <1>12, <1>13
  DEF Task_Inside, Task_Enter, Schedule_Task

(* Every step of a task in the main loop keeps the invariant.              *)
LEMMA TaskOrderly ==
  ASSUME Typed, Orderly, NEW t \in Tasks, Task_Inside(t) \/ Task_Enter(t)
  PROVE  Orderly'
BY QuietTask, QuietOrderly, FetchOrderly, EventOrderly, DropOrderly

(* The steps of Insert_Source and Delete_Source.                           *)
LEMMA CallTraced ==
  ASSUME Typed, Tables, Orderly, NEW t \in Threads,
         Call_Inside(t) \/ Call_Enter(t) \/ Source_Calls(t)
  PROVE  PlacedIsOpen' /\ (error' = "none" => Orderly')
<1>1. Orderly' => PlacedIsOpen' /\ (error' = "none" => Orderly')
  BY DEF Orderly, PlacesSound, PlaceSound, PlacedIsOpen
<1>2. CASE Create_Failure(t)
  <2>1. Quiet
    BY <1>2
    DEF Create_Failure, Quiet, ReportsKept, Orderly, Recorded, taskVars, aemVars,
        sourceVars
  <2>2. QED BY <1>1, <2>1, QuietOrderly
<1>3. CASE Delete_Unmonitored(t)
  <2>1. Quiet
    BY <1>3
    DEF Delete_Unmonitored, Quiet, ReportsKept, Orderly, Recorded, taskVars, aemVars,
        sourceVars
  <2>2. QED BY <1>1, <2>1, QuietOrderly
<1>4. QED
  BY <1>1, <1>2, <1>3, CallGoesOn, RegisterOrderly, FailureOrderly, CreateTraced, DoneOrderly,
     CallInsertOrderly, FinalizeOrderly
  DEF Call_Inside, Call_Enter, Source_Calls

(* Of the other steps, three are not quiet.                                *)
LEMMA QuietOther ==
  ASSUME Typed, Orderly,
         \/ \E t \in Tasks : \/ \E r \in Transient : Executed_Request(t, r)
                             \/ Disconnect(t) \/ Request_Result_Ready(t)
                             \/ Check_Sources_Aborted(t)
         \/ \E t \in Transient : Invoke(t)
         \/ \E a \in Closers : (\E w \in BOOLEAN : Shutdown(a, w)) \/ Completion_Return(a)
  PROVE  Quiet /\ broken \subseteq broken'
<1> USE ThreadsAssumption
    DEF Typed, TypeOK, Orderly, Recorded, Quiet, ReportsKept, InCall, Inserting, Deleting,
        Threads, Tasks, Goto, taskVars, aemVars, sourceVars
<1>1. ASSUME NEW t \in Tasks, NEW r \in Transient, Executed_Request(t, r)
      PROVE  Quiet /\ broken \subseteq broken'
  <2>1. /\ pc[t] = "running" /\ t \in Threads
        /\ pc' \in {pc, [pc EXCEPT ![t] = "notifying"]}
        /\ \A u \in Threads : u # t => op'[u] = op[u]
        /\ UNCHANGED <<sources, events, queue, selector, aemMonitor, sourceVars>>
    BY <1>1 DEF Executed_Request
  <2>2. pc'[t] \in {"running", "notifying"} /\ \A u \in Threads : u # t => pc'[u] = pc[u]
    BY <2>1
  <2>3. ReportsKept
    BY <2>1, <2>2
  <2>4. Quiet
    BY <2>1, <2>2, <2>3
  <2>5. QED BY <2>1, <2>4
<1>2. ASSUME NEW t \in Tasks, Disconnect(t)
      PROVE  Quiet /\ broken \subseteq broken'
  BY <1>2 DEF Disconnect
<1>3. ASSUME NEW t \in Tasks, Request_Result_Ready(t)
      PROVE  Quiet /\ broken \subseteq broken'
  BY <1>3 DEF Request_Result_Ready
<1>4. ASSUME NEW t \in Tasks, Check_Sources_Aborted(t)
      PROVE  Quiet /\ broken \subseteq broken'
  BY <1>4 DEF Check_Sources_Aborted
<1>5. ASSUME NEW t \in Transient, Invoke(t)
      PROVE  Quiet /\ broken \subseteq broken'
  BY <1>5 DEF Invoke
<1>6. ASSUME NEW a \in Closers, NEW w \in BOOLEAN, Shutdown(a, w)
      PROVE  Quiet /\ broken \subseteq broken'
  <2>1. /\ pc[a] = "out" /\ a \in Threads \ Tasks
        /\ pc' \in {pc, [pc EXCEPT ![a] = "completing"]}
    BY <1>6 DEF Shutdown
  <2>2. pc'[a] \in {"completing", "out"} /\ \A u \in Threads : u # a => pc'[u] = pc[u]
    BY <2>1
  <2>3. UNCHANGED <<sources, events, queue, selector, aemMonitor, sourceVars, op>>
    BY <1>6 DEF Shutdown, aemVars, taskVars
  <2>4. \A u \in Tasks : pc'[u] = pc[u]
    BY <2>1, <2>2
  <2>5. ReportsKept
    BY <2>3, <2>4
  <2>6. Quiet
    BY <2>1, <2>2, <2>3, <2>5
  <2>7. QED BY <2>3, <2>6
<1>7. ASSUME NEW a \in Closers, Completion_Return(a)
      PROVE  Quiet /\ broken \subseteq broken'
  <2>1. /\ pc[a] = "completing" /\ a \in Threads \ Tasks
        /\ pc' \in {pc, [pc EXCEPT ![a] = "out"]}
    BY <1>7 DEF Completion_Return
  <2>2. pc'[a] \in {"completing", "out"} /\ \A u \in Threads : u # a => pc'[u] = pc[u]
    BY <2>1
  <2>3. UNCHANGED <<sources, events, queue, selector, aemMonitor, sourceVars, op>>
    BY <1>7 DEF Completion_Return
  <2>4. \A u \in Tasks : pc'[u] = pc[u]
    BY <2>1, <2>2
  <2>5. ReportsKept
    BY <2>3, <2>4
  <2>6. Quiet
    BY <2>1, <2>2, <2>3, <2>5
  <2>7. QED BY <2>3, <2>6
<1> HIDE DEF Quiet
<1>8. QED
  BY <1>1, <1>2, <1>3, <1>4, <1>5, <1>6, <1>7

(* They keep the invariant.                                                *)
LEMMA OtherOrderly ==
  ASSUME Typed, Orderly,
         \/ \E t \in Tasks : \/ Job_Calls(t) \/ Request_Result_Ready(t)
                             \/ Check_Sources(t) \/ Check_Sources_Aborted(t)
         \/ \E t \in Transient : Invoke(t) \/ Abort_Run(t)
         \/ \E a \in Closers : (\E w \in BOOLEAN : Shutdown(a, w)) \/ Completion_Return(a)
  PROVE  Orderly'
<1>1. ASSUME NEW t \in Transient, Abort_Run(t) PROVE Orderly'
  BY <1>1, DropOrderly DEF Tasks
<1>2. QED
  BY <1>1, QuietOther, QuietOrderly, RequestOrderly, CheckOrderly DEF Job_Calls

(* Every step keeps the invariant.                                         *)
LEMMA TracedStep ==
  ASSUME Typed, Tables, Traced, [Next]_vars
  PROVE  Traced'
<1>1. CASE Next
  <2>1. error = "none" /\ Orderly
    BY <1>1 DEF Next, Traced
  <2>2. Orderly' => Traced'
    BY DEF Orderly, PlacesSound, PlaceSound, PlacedIsOpen, Traced
  <2>3. QED BY <1>1, <2>1, <2>2, TaskOrderly, CallTraced, OtherOrderly DEF Next, Traced
<1>2. CASE UNCHANGED vars
  <2>1. UNCHANGED <<error, open>> /\ \A s \in Sources : Placed(s)' = Placed(s)
    BY <1>2
    DEF vars, taskVars, aemVars, sourceVars, Placed, Monitored, Reported, Queued, Read,
        Carried, Called, Inserts
  <2>2. Orderly => Orderly'
    <3>1. Orderly => Quiet
      BY <1>2 DEF Quiet, ReportsKept, Orderly, Recorded, vars, taskVars, aemVars, sourceVars
    <3>2. QED BY <3>1, QuietOrderly
  <2>3. QED BY <2>1, <2>2 DEF Traced, PlacedIsOpen
<1>3. QED BY <1>1, <1>2

----------------------------------------------------------------------------
(* Known monitors                                                          *)

(* A monitor that has sources is in a slot, unless it could not be put     *)
(* into one.                                                               *)
Known ==
  \A m \in Monitors : Has_Sources(m) =>
    Index(m) # {} \/ (error # "none" /\ \E t \in Threads : pc[t] = "create")

(* Source lists get longer in two steps only.                              *)
LEMMA ListEffect ==
  ASSUME Typed, [Next]_vars
  PROVE  \/ /\ \A m \in Monitors : Has_Sources(m)' => Has_Sources(m)
            /\ UNCHANGED aemMonitor
         \/ \E t \in Threads : Register_Source(t) \/ Create_Monitor(t)
<1> USE DEF Has_Sources, aemVars
<1>1. ASSUME NEW t \in Tasks, Task_Inside(t) \/ Task_Enter(t)
      PROVE  UNCHANGED <<sources, aemMonitor>>
  BY <1>1
  DEF Task_Inside, Task_Enter, Schedule_Task, Schedule_Terminated, Schedule_Exit, Schedule_Job,
      Schedule_Poll, Schedule_Idle, Unregister_Task, Idle_Terminate, Idle_Wait,
      Queue_Event_Job, End_Of_Check_Sources, Run, Idle_Return, Reenter, Terminate_Task,
      Abort_Request_Fails, Job_Completed
<1>2. ASSUME NEW t \in Threads, Unregister_Source(t)
      PROVE  /\ \A m \in Monitors : Has_Sources(m)' => Has_Sources(m)
             /\ UNCHANGED aemMonitor
  BY <1>2 DEF Unregister_Source, Typed, TypeOK
<1>3. ASSUME NEW t \in Threads, Call_Inside(t) \/ Call_Enter(t) \/ Source_Calls(t),
             ~Register_Source(t), ~Create_Monitor(t), ~Unregister_Source(t)
      PROVE  UNCHANGED <<sources, aemMonitor>>
  BY <1>3
  DEF Call_Inside, Call_Enter, Source_Calls, Disable_Polling, Register_Unknown,
      Register_Failure, Create_Failure, Event_Sources_Added, Source_Done, Delete_Source,
      Delete_Unmonitored, Disable_Return, Insert_Source, Finalize_Endpoint
<1>4. ASSUME NEW t \in Tasks, Check_Sources(t)
      PROVE  /\ \A m \in Monitors : Has_Sources(m)' => Has_Sources(m)
             /\ UNCHANGED aemMonitor
  BY <1>4 DEF Check_Sources, Typed, TypeOK
<1>5. ASSUME NEW t \in Tasks,
             Job_Calls(t) \/ Request_Result_Ready(t) \/ Check_Sources_Aborted(t)
      PROVE  UNCHANGED <<sources, aemMonitor>>
  BY <1>5
  DEF Job_Calls, Queue_Request_Job, Executed_Request, Disconnect, Request_Result_Ready,
      Check_Sources_Aborted
<1>6. ASSUME \/ \E t \in Transient : Invoke(t) \/ Abort_Run(t)
             \/ \E a \in Closers : (\E w \in BOOLEAN : Shutdown(a, w)) \/ Completion_Return(a)
             \/ UNCHANGED vars
      PROVE  UNCHANGED <<sources, aemMonitor>>
  BY <1>6 DEF Invoke, Abort_Run, Shutdown, Completion_Return, vars
<1>7. QED BY <1>1, <1>2, <1>3, <1>4, <1>5, <1>6 DEF Next

(* Every step keeps monitors known.                                        *)
LEMMA KnownStep ==
  ASSUME Typed, Known, [Next]_vars
  PROVE  Known'
<1> USE DEF Typed, TypeOK
<1>1. CASE UNCHANGED vars
  BY <1>1 DEF Known, Has_Sources, Index, vars, aemVars
<1>2. CASE Next
  <2>1. \A m \in Monitors : Has_Sources(m) => Index(m) # {}
    BY <1>2 DEF Known, Next
  <2>2. CASE /\ \A m \in Monitors : Has_Sources(m)' => Has_Sources(m)
             /\ UNCHANGED aemMonitor
    BY <2>1, <2>2 DEF Known, Index
  <2>3. ASSUME NEW t \in Threads, Register_Source(t) PROVE Known'
    <3>1. PICK m : m = aemMonitor[op[t].slot] /\ op[t].slot \in Slots
      BY <2>3 DEF Register_Source, OpAgrees
    <3>2. /\ \A n \in Monitors : n # m => sources'[n] = sources[n]
          /\ UNCHANGED aemMonitor
      BY <2>3, <3>1 DEF Register_Source, aemVars
    <3>3. Index(m)' # {} /\ \A n \in Monitors : Index(n)' = Index(n)
      BY <3>1, <3>2 DEF Index
    <3>4. QED BY <2>1, <3>2, <3>3 DEF Known, Has_Sources
  <2>4. ASSUME NEW t \in Threads, Create_Monitor(t) PROVE Known'
    <3>1. PICK m \in Monitors :
            /\ sources' = [sources EXCEPT ![m] = {op[t].arg}]
            /\ \/ /\ aemMonitor' = [aemMonitor EXCEPT ![Monitor_Count + 1] = m]
                  /\ Monitor_Count < Maximum_Number_Of_Monitors
               \/ error' # "none" /\ UNCHANGED <<aemMonitor, pc>>
      BY <2>4 DEF Create_Monitor
    <3>2. CASE error' # "none" /\ UNCHANGED <<aemMonitor, pc>>
      BY <2>4, <3>2 DEF Known, Create_Monitor
    <3>3. CASE /\ aemMonitor' = [aemMonitor EXCEPT ![Monitor_Count + 1] = m]
               /\ Monitor_Count < Maximum_Number_Of_Monitors
      <4>1. /\ Monitor_Count + 1 \in Slots
            /\ aemMonitor[Monitor_Count + 1] = None
        BY <3>3 DEF Monitor_Count, Maximum_Number_Of_Monitors, Slots
      <4>2. Index(m)' # {}
        BY <3>3, <4>1 DEF Index
      <4>3. ASSUME NEW n \in Monitors, Index(n) # {} PROVE Index(n)' # {}
        <5>1. PICK J \in Slots : aemMonitor[J] = n
          BY <4>3 DEF Index
        <5>2. J # Monitor_Count + 1
          BY <4>1, <5>1, JobsAssumption
        <5>3. QED BY <3>3, <5>1, <5>2 DEF Index
      <4>4. QED BY <2>1, <3>1, <4>2, <4>3 DEF Known, Has_Sources
    <3>4. QED BY <3>1, <3>2, <3>3
  <2>5. QED BY <2>2, <2>3, <2>4, ListEffect
<1>3. QED BY <1>1, <1>2

----------------------------------------------------------------------------
(* Theorems                                                                *)

(* The inductive invariants hold in every state.                           *)
LEMMA TracedAlways == Spec => [](Typed /\ Sleepers /\ Tables /\ Traced /\ Known)
<1>1. Spec => []Typed
  BY TypedInit, TypedStep, PTL DEF Spec
<1>2. Spec => []Sleepers
  <2>1. Typed => TypeOK
    BY DEF Typed
  <2>2. QED BY <1>1, <2>1, SleepersInit, SleepersStep, PTL DEF Spec
<1>3. Spec => []Tables
  <2>1. Polling => Tables
    BY DEF Polling
  <2>2. QED BY <2>1, PollingAlways, PTL
<1>4. Typed /\ Tables /\ Traced /\ [Next]_vars => Traced'
  BY TracedStep
<1>5. Init => Known
  BY DEF Init, Known, Has_Sources
<1>6. Typed /\ Known /\ [Next]_vars => Known'
  BY KnownStep
<1>7. QED BY <1>1, <1>2, <1>3, <1>4, <1>5, <1>6, TracedInit, PTL DEF Spec

(* For any number of threads, sources and monitors, and also when clients  *)
(* are aborted and registrations fail: a source that a list, an event      *)
(* array, the queue, a job or a call refers to has not been destroyed.     *)
THEOREM NoDanglingCorrect == Spec => []NoDanglingSource
<1>1. Traced => NoDanglingSource
  <2> SUFFICES ASSUME Traced, NEW s \in Sources, Places(s) # {} PROVE s \in open
    BY DEF NoDanglingSource
  <2>1. Placed(s)
    BY DEF Places, Placed, Monitored, Reported, Queued, Read, Carried, Called, Inserts,
           Inserting
  <2>2. QED BY <2>1 DEF Traced, PlacedIsOpen
<1>2. QED BY <1>1, TracedAlways, PTL

(* Whenever the lock is free, a monitor that has sources has a slot, so    *)
(* that the controller can have it polled.                                 *)
THEOREM KnownCorrect == Spec => []MonitoredIsKnown
<1>1. Typed /\ Sleepers /\ Known => MonitoredIsKnown
  <2> SUFFICES ASSUME Typed, Sleepers, Known, lock = None, NEW m \in Monitors, Has_Sources(m)
               PROVE  Index(m) # {}
    BY DEF MonitoredIsKnown
  <2>1. \A t \in Threads : pc[t] # "create"
    BY ThreadsAssumption DEF Sleepers, CriticalHoldsLock, Critical
  <2>2. QED BY <2>1 DEF Known
<1>2. QED BY <1>1, TracedAlways, PTL

----------------------------------------------------------------------------
(* No source is lost                                                       *)

(* The sources that must be somewhere.                                     *)
Live == open \ (dying \cup broken \cup Failing)

(* A task that reads a source is in the job that was given it, or in a     *)
(* call of that job.                                                       *)
HeldAgrees ==
  \A t \in Tasks : held[t] # None =>
    pc[t] \in {"running", "notifying"} \/ (pc[t] \in InCall /\ op[t].ret = "running")

(* A source is left to a request only while the request's job is queued.   *)
CarriedAgrees == \A u \in Upcalls : carried[u] # None => Queued(u)

Kept == \A s \in Live : Placed(s)

Settled == HeldAgrees /\ CarriedAgrees /\ Kept

(* Quiet steps lose no source.                                             *)
LEMMA QuietKept ==
  ASSUME Settled, Quiet, broken \subseteq broken'
  PROVE  CarriedAgrees' /\ Kept'
<1> USE DEF Settled, Quiet
<1>1. ASSUME NEW t \in Threads, NEW s PROVE Inserts(t, s)' = Inserts(t, s)
  BY DEF Inserts, InCall
<1>2. ASSUME NEW s PROVE Placed(s)' = Placed(s)
  BY <1>1 DEF Placed, Monitored, Reported, Queued, Read, Carried, Called
<1>3. Live' \subseteq Live
  BY DEF Live
<1>4. QED BY <1>2, <1>3 DEF CarriedAgrees, Kept, Queued

(* A task that changes its location outside its job reads no source.       *)
LEMMA HeldTask ==
  ASSUME Typed, Settled, NEW t \in Tasks, Task_Inside(t) \/ Task_Enter(t)
  PROVE  HeldAgrees'
<1> USE DEF Typed, TypeOK, Settled, HeldAgrees, InCall, Inserting, Deleting
<1>1. CASE Schedule_Job(t)
  BY <1>1 DEF Schedule_Job, Take_Source, Goto, Threads
<1>2. CASE Job_Completed(t)
  BY <1>2 DEF Job_Completed, Goto, Threads
<1>3. CASE Idle_Return(t)
  BY <1>3 DEF Idle_Return, Threads, Tasks, sourceVars
<1>4. CASE ~Schedule_Job(t) /\ ~Job_Completed(t) /\ ~Idle_Return(t)
  <2>1. UNCHANGED <<held, op>>
    BY <1>4
    DEF Task_Inside, Task_Enter, Schedule_Task, Schedule_Terminated, Schedule_Exit,
        Schedule_Poll, Schedule_Idle, Unregister_Task, Idle_Terminate, Idle_Wait,
        Queue_Event_Job, End_Of_Check_Sources, Run, Reenter, Terminate_Task,
        Abort_Request_Fails, sourceVars
  <2>2. pc[t] \notin {"running", "notifying"} \cup InCall
    BY <1>4
    DEF Task_Inside, Task_Enter, Schedule_Task, Schedule_Terminated, Schedule_Exit,
        Schedule_Poll, Schedule_Idle, Unregister_Task, Idle_Terminate, Idle_Wait,
        Queue_Event_Job, End_Of_Check_Sources, Run, Reenter, Terminate_Task,
        Abort_Request_Fails, Scheduling
  <2>3. \A u \in Tasks : u # t => pc'[u] = pc[u]
    BY <1>4
    DEF Task_Inside, Task_Enter, Schedule_Task, Schedule_Terminated, Schedule_Exit,
        Schedule_Poll, Schedule_Idle, Unregister_Task, Idle_Terminate, Idle_Wait,
        Queue_Event_Job, End_Of_Check_Sources, Run, Reenter, Terminate_Task,
        Abort_Request_Fails, Goto, Threads
  <2>4. QED BY <2>1, <2>2, <2>3
<1>5. QED BY <1>1, <1>2, <1>3, <1>4

(* A job that calls the ORB comes back to where it was.                    *)
LEMMA HeldCall ==
  ASSUME Typed, Settled, error' = "none", NEW t \in Threads,
         Call_Inside(t) \/ Call_Enter(t) \/ Source_Calls(t)
  PROVE  HeldAgrees'
<1> USE DEF Typed, TypeOK, Settled, HeldAgrees, InCall, Inserting, Deleting
<1>1. CASE Source_Done(t)
  BY <1>1 DEF Source_Done, Goto, taskVars, Threads
<1>2. ASSUME NEW z \in Sources, Insert_Source(t, z) \/ Finalize_Endpoint(t, z)
      PROVE  HeldAgrees'
  <2>1. /\ pc[t] \in {"running", "out"}
        /\ \E p \in {"create", "disable", "deleting"} : pc' = [pc EXCEPT ![t] = p]
        /\ held' = [u \in Tasks |-> IF u = t /\ held[u] = z THEN None ELSE held[u]]
        /\ \A u \in Threads : u # t => op'[u] = op[u]
        /\ op'[t].ret = pc[t]
    BY <1>2 DEF Insert_Source, Finalize_Endpoint, Can_Call, Pass_On, Goto
  <2>2. pc'[t] \in InCall /\ \A u \in Threads : u # t => pc'[u] = pc[u]
    BY <2>1
  <2>3. QED BY <2>1, <2>2 DEF Threads
<1>3. CASE (Call_Inside(t) \/ Call_Enter(t)) /\ ~Source_Done(t)
  <2> ~Delete_Unmonitored(t)
    BY DEF Delete_Unmonitored
  <2>1. pc[t] \in InCall
    BY <1>3
    DEF Call_Inside, Call_Enter, Disable_Polling, Register_Unknown, Register_Source,
        Register_Failure, Create_Monitor, Create_Failure, Event_Sources_Added,
        Unregister_Source, Delete_Source, Disable_Return
  <2>2. UNCHANGED held /\ \E p \in InCall : pc' = [pc EXCEPT ![t] = p]
    BY <1>3
    DEF Call_Inside, Call_Enter, Disable_Polling, Register_Unknown, Register_Source,
        Register_Failure, Create_Monitor, Create_Failure, Event_Sources_Added,
        Unregister_Source, Delete_Source, Disable_Return, Goto, sourceVars
  <2>3. op'[t].ret = op[t].ret /\ \A u \in Threads : u # t => op'[u] = op[u]
    <3>1. CASE Register_Unknown(t)
      BY <3>1 DEF Register_Unknown, Operation
    <3>2. CASE Create_Monitor(t)
      BY <3>2 DEF Create_Monitor, Operation
    <3>3. CASE Delete_Source(t)
      BY <3>3 DEF Delete_Source, Operation
    <3>4. CASE UNCHANGED op
      BY <3>4
    <3>5. QED
      BY <1>3, <3>1, <3>2, <3>3, <3>4
      DEF Call_Inside, Call_Enter, Disable_Polling, Register_Source, Register_Failure,
          Create_Failure, Event_Sources_Added, Unregister_Source, Disable_Return
  <2>4. pc'[t] \in InCall /\ \A u \in Threads : u # t => pc'[u] = pc[u]
    BY <2>2
  <2>5. QED BY <2>1, <2>2, <2>3, <2>4 DEF Threads
<1>4. QED BY <1>1, <1>2, <1>3 DEF Source_Calls

(* Nor do the other steps take a source out of its job.                    *)
LEMMA HeldOther ==
  ASSUME Typed, Settled,
         \/ \E t \in Tasks : \/ Job_Calls(t) \/ Request_Result_Ready(t)
                             \/ Check_Sources(t) \/ Check_Sources_Aborted(t)
         \/ \E t \in Transient : Invoke(t)
         \/ \E a \in Closers : (\E w \in BOOLEAN : Shutdown(a, w)) \/ Completion_Return(a)
  PROVE  HeldAgrees'
<1> USE DEF Typed, TypeOK, Settled, HeldAgrees, InCall, Inserting, Deleting, Goto
<1>1. ASSUME NEW t \in Tasks, NEW u \in Upcalls, Queue_Request_Job(t, u) PROVE HeldAgrees'
  BY <1>1 DEF Queue_Request_Job
<1>2. ASSUME NEW t \in Tasks, NEW r \in Transient, Executed_Request(t, r) PROVE HeldAgrees'
  <2>1. /\ pc[t] = "running" /\ UNCHANGED held
        /\ pc' \in {pc, [pc EXCEPT ![t] = "notifying"]}
        /\ \A v \in Threads : v # t => op'[v] = op[v]
    BY <1>2 DEF Executed_Request, sourceVars
  <2>2. pc'[t] \in {"running", "notifying"} /\ \A v \in Threads : v # t => pc'[v] = pc[v]
    BY <2>1 DEF Threads
  <2>3. QED BY <2>1, <2>2 DEF Threads
<1>3. ASSUME NEW t \in Tasks, Disconnect(t) PROVE HeldAgrees'
  BY <1>3 DEF Disconnect
<1>4. ASSUME NEW t \in Tasks,
             Request_Result_Ready(t) \/ Check_Sources(t) \/ Check_Sources_Aborted(t)
      PROVE  HeldAgrees'
  BY <1>4
  DEF Request_Result_Ready, Check_Sources, Check_Sources_Aborted, Threads, sourceVars
<1>5. ASSUME NEW t \in Transient, Invoke(t) PROVE HeldAgrees'
  BY <1>5 DEF Invoke, Tasks, Threads, sourceVars
<1>6. ASSUME NEW a \in Closers,
             (\E w \in BOOLEAN : Shutdown(a, w)) \/ Completion_Return(a)
      PROVE  HeldAgrees'
  <2>1. a \in Threads \ Tasks
    BY ThreadsAssumption DEF Threads, Tasks
  <2>2. UNCHANGED <<held, op>>
    BY <1>6 DEF Shutdown, Completion_Return, sourceVars
  <2>3. \A u \in Tasks : pc'[u] = pc[u]
    BY <1>6, <2>1 DEF Shutdown, Completion_Return, Threads
  <2>4. QED BY <2>2, <2>3
<1>7. QED BY <1>1, <1>2, <1>3, <1>4, <1>5, <1>6 DEF Job_Calls

(* Insert_Source goes through the slots of the monitors that it has found. *)
Looping == {"disable", "disabling", "disabled"}
SlotFilled(t) ==
  pc[t] \in Looping /\ op[t].kind = "insert" =>
    /\ op[t].last \in Slots /\ op[t].slot <= op[t].last
    /\ \A J \in 1 .. op[t].last : aemMonitor[J] # None
SlotsFilled == \A t \in Threads : SlotFilled(t)

(* A monitor is not taken out of its slot: t's own call is to be looked at. *)
LEMMA FilledStep ==
  ASSUME SlotsFilled, NEW t \in Threads, SlotFilled(t)',
         \A u \in Threads : u # t => pc'[u] = pc[u] /\ op'[u] = op[u],
         \A J \in Slots : aemMonitor[J] # None => aemMonitor'[J] # None
  PROVE  SlotsFilled'
<1> SUFFICES ASSUME NEW u \in Threads, u # t PROVE SlotFilled(u)'
  BY DEF SlotsFilled
<1>1. SlotFilled(u) /\ pc'[u] = pc[u] /\ op'[u] = op[u]
  BY DEF SlotsFilled
<1>2. op[u].last \in Slots => \A J \in 1 .. op[u].last : J \in Slots
  BY DEF Slots, Maximum_Number_Of_Monitors
<1>3. QED BY <1>1, <1>2 DEF SlotFilled

(* Every step of a call keeps to slots that have a monitor.                *)
LEMMA FilledCall ==
  ASSUME Typed, SlotsFilled, error' = "none", NEW t \in Threads,
         Call_Inside(t) \/ Call_Enter(t) \/ Source_Calls(t)
  PROVE  SlotsFilled'
<1> USE DEF Typed, TypeOK, Goto, SlotFilled, Looping
<1>1. SlotFilled(t)
  BY DEF SlotsFilled
<1>2. CASE Register_Unknown(t)
  <2>1. /\ pc[t] = "disabled" /\ op[t].kind = "insert" /\ UNCHANGED aemMonitor
        /\ op' = [op EXCEPT ![t].slot = op[t].slot + 1]
        /\ pc' = [pc EXCEPT ![t] = IF op[t].slot < op[t].last THEN "disable" ELSE "create"]
    BY <1>2 DEF Register_Unknown, aemVars
  <2>2. op[t].slot \in Int /\ op[t].last \in Int
    BY DEF Operation
  <2>3. SlotFilled(t)'
    BY <1>1, <2>1, <2>2 DEF Operation, Slots, Maximum_Number_Of_Monitors
  <2>4. QED BY <2>1, <2>3, FilledStep
<1>3. CASE Disable_Polling(t) \/ Disable_Return(t)
  <2>1. /\ pc[t] \in Looping /\ UNCHANGED <<op, aemMonitor>>
        /\ \A u \in Threads : u # t => pc'[u] = pc[u]
    BY <1>3 DEF Disable_Polling, Disable_Return
  <2>2. QED BY <1>1, <2>1, FilledStep
<1>4. CASE Create_Monitor(t)
  <2>1. /\ pc' = [pc EXCEPT ![t] = "added"]
        /\ \A u \in Threads : u # t => op'[u] = op[u]
        /\ \E m \in Monitors : aemMonitor' = [aemMonitor EXCEPT ![Monitor_Count + 1] = m]
    BY <1>4 DEF Create_Monitor
  <2>2. \A J \in Slots : aemMonitor[J] # None => aemMonitor'[J] # None
    BY <2>1, JobsAssumption
  <2>3. QED BY <2>1, <2>2, FilledStep
<1>5. ASSUME NEW z \in Sources, Insert_Source(t, z) PROVE SlotsFilled'
  <2>1. /\ pc' = [pc EXCEPT ![t] = IF Monitor_Count = 0 THEN "create" ELSE "disable"]
        /\ op' = [op EXCEPT ![t] = [kind |-> "insert", arg |-> z, slot |-> 1,
                                    last |-> Monitor_Count, ret |-> pc[t]]]
        /\ UNCHANGED aemMonitor
    BY <1>5 DEF Insert_Source, aemVars
  <2>2. Monitor_Count # 0 =>
          Monitor_Count \in Slots /\ \A J \in 1 .. Monitor_Count : aemMonitor[J] # None
    BY DEF Monitor_Count, Slots, Maximum_Number_Of_Monitors
  <2>3. SlotFilled(t)'
    BY <2>1, <2>2 DEF Slots, Maximum_Number_Of_Monitors
  <2>4. QED BY <2>1, <2>3, FilledStep
<1>6. ASSUME NEW z \in Sources, Finalize_Endpoint(t, z) PROVE SlotsFilled'
  BY <1>6, FilledStep DEF Finalize_Endpoint, aemVars
<1>7. CASE Delete_Source(t)
  <2>1. op'[t].kind = "delete" /\ \A u \in Threads : u # t => op'[u] = op[u]
    BY <1>7 DEF Delete_Source, Operation, OpAgrees
  <2>2. QED BY <1>7, <2>1, FilledStep DEF Delete_Source, aemVars
<1>8. CASE Source_Done(t)
  BY <1>8, FilledStep DEF Source_Done, aemVars, NoOp
<1>9. CASE Register_Source(t) \/ Register_Failure(t) \/ Event_Sources_Added(t)
           \/ Unregister_Source(t)
  BY <1>9, FilledStep
  DEF Register_Source, Register_Failure, Event_Sources_Added, Unregister_Source, aemVars
<1>10. ~Create_Failure(t)
  BY DEF Create_Failure
<1>11. ~Delete_Unmonitored(t)
  BY DEF Delete_Unmonitored
<1>12. QED
  BY <1>2, <1>3, <1>4, <1>5, <1>6, <1>7, <1>8, <1>9, <1>10, <1>11
  DEF Call_Inside, Call_Enter, Source_Calls

(* Of the other steps, five are not quiet.                                 *)
LEMMA FilledQuiet ==
  ASSUME SlotsFilled, Quiet
  PROVE  SlotsFilled'
<1>1. \A t \in Threads : pc'[t] \in Looping => pc'[t] = pc[t] /\ op'[t] = op[t]
  BY DEF Quiet, InCall, Inserting, Looping
<1>2. UNCHANGED aemMonitor
  BY DEF Quiet
<1>3. QED BY <1>1, <1>2 DEF SlotsFilled, SlotFilled

(* They begin no call.                                                     *)
LEMMA FilledJob ==
  ASSUME Typed, SlotsFilled, NEW t \in Tasks,
         \/ Schedule_Job(t) \/ Job_Completed(t) \/ Check_Sources(t)
         \/ \E z \in Sources : Queue_Event_Job(t, z)
         \/ \E u \in Upcalls : Queue_Request_Job(t, u)
  PROVE  SlotsFilled'
<1> USE DEF Typed, TypeOK, Goto, aemVars
<1>1. t \in Threads /\ UNCHANGED <<op, aemMonitor>>
  BY DEF Schedule_Job, Job_Completed, Check_Sources, Queue_Event_Job, Queue_Request_Job,
         Threads
<1>2. UNCHANGED pc \/ \E p \in {"running", "schedule", "polled"} : pc' = [pc EXCEPT ![t] = p]
  BY DEF Schedule_Job, Job_Completed, Check_Sources, Queue_Event_Job, Queue_Request_Job
<1>3. \A u \in Threads : pc'[u] \in Looping => pc'[u] = pc[u]
  BY <1>1, <1>2 DEF Looping
<1>4. QED BY <1>1, <1>3 DEF SlotsFilled, SlotFilled

(* The queue keeps the jobs of requests that sources are left to.          *)
LEMMA CarriedStep ==
  ASSUME Settled, \A u \in Upcalls : carried'[u] # None => carried'[u] = carried[u],
         \A j \in Jobs : Queued(j) => Queued(j)'
  PROVE  CarriedAgrees'
BY DEF Settled, CarriedAgrees, Jobs

(* Check_Sources takes sources from the list to the event array.           *)
LEMMA CheckKept ==
  ASSUME Typed, Orderly, Settled, NEW t \in Tasks, Check_Sources(t)
  PROVE  CarriedAgrees' /\ Kept'
<1> USE DEF Typed, TypeOK, Settled
<1>1. PICK ready \in SUBSET sources[selector[t]] :
        /\ events' = [events EXCEPT ![t] = ready]
        /\ sources' = [sources EXCEPT ![selector[t]] = @ \ ready]
  BY DEF Check_Sources
<1>2. /\ pc[t] = "blocked" /\ pc' = [pc EXCEPT ![t] = "polled"] /\ t \in Threads
      /\ UNCHANGED <<queue, held, carried, open, dying, broken, op>>
  BY DEF Check_Sources, Goto, Threads, sourceVars
<1>3. ASSUME NEW s PROVE Called(s) => Called(s)'
  BY <1>2 DEF Called, Inserts, Inserting
<1>4. ASSUME NEW s
      PROVE  Queued(s)' = Queued(s) /\ Read(s)' = Read(s) /\ Carried(s)' = Carried(s)
  BY <1>2 DEF Queued, Read, Carried
<1>5. ASSUME NEW s, Monitored(s), ~Monitored(s)' PROVE Reported(s)'
  BY <1>1, <1>5 DEF Monitored, Reported
<1>6. ASSUME NEW s, Reported(s) PROVE Reported(s)'
  <2>1. events[t] = {}
    BY <1>2 DEF Orderly, Recorded
  <2>2. QED BY <1>1, <1>6, <2>1 DEF Reported
<1>7. QED BY <1>2, <1>3, <1>4, <1>5, <1>6 DEF CarriedAgrees, Kept, Live, Placed

(* An event job is queued for a source that was reported.                  *)
LEMMA EventKept ==
  ASSUME Typed, Orderly, Settled, NEW t \in Tasks, NEW z \in Sources, Queue_Event_Job(t, z)
  PROVE  CarriedAgrees' /\ Kept'
<1> USE DEF Typed, TypeOK, Settled
<1>1. /\ events' = [events EXCEPT ![t] = @ \ {z}]
      /\ UNCHANGED <<pc, sources, held, carried, open, dying, broken, op>>
  BY DEF Queue_Event_Job, sourceVars
<1>2. \/ z \in dying /\ UNCHANGED queue
      \/ queue' = Append(queue, z)
  BY DEF Queue_Event_Job, Stabilize, Queue_Job
<1>3. z \in dying \/ Queued(z)'
  BY <1>2, AppendJobs DEF Jobs, Orderly, OnePlace, Queued
<1>4. \A s : Queued(s) => Queued(s)'
  BY <1>2, AppendJobs DEF Jobs, Orderly, OnePlace, Queued
<1>5. ASSUME NEW s, s # z PROVE Reported(s) => Reported(s)'
  BY <1>1, <1>5 DEF Reported
<1>6. ASSUME NEW s
      PROVE  /\ Monitored(s)' = Monitored(s) /\ Read(s)' = Read(s)
             /\ Carried(s)' = Carried(s) /\ Called(s)' = Called(s)
  BY <1>1 DEF Monitored, Read, Carried, Called, Inserts
<1>7. Kept'
  BY <1>1, <1>3, <1>4, <1>5, <1>6 DEF Kept, Live, Placed
<1>8. QED BY <1>1, <1>4, <1>7, CarriedStep

(* A task takes a job and, with it, its source.                            *)
LEMMA FetchKept ==
  ASSUME Typed, Orderly, Settled, NEW t \in Tasks, Schedule_Job(t)
  PROVE  CarriedAgrees' /\ Kept'
<1> USE DEF Typed, TypeOK, Settled
<1>1. /\ pc[t] = "schedule" /\ pc' = [pc EXCEPT ![t] = "running"] /\ t \in Threads
      /\ UNCHANGED <<sources, events, open, dying, broken, op>>
  BY DEF Schedule_Job, Scheduling, Goto, Threads
<1>2. PICK i \in 1 .. Len(queue) : queue' = Without(queue, i) /\ Take_Source(t, queue[i])
  BY DEF Schedule_Job
<1>3. PICK j : j = queue[i]
  OBVIOUS
<1>4. PICK z : z = IF j \in Upcalls THEN carried[j] ELSE j
  OBVIOUS
<1>5. /\ held' = [held EXCEPT ![t] = z]
      /\ carried' = [u \in Upcalls |-> IF u = j THEN None ELSE carried[u]]
  BY <1>2, <1>3, <1>4 DEF Take_Source
<1>6. \A s : s # j => (Queued(s) => Queued(s)')
  BY <1>2, <1>3, WithoutJobs DEF Orderly, OnePlace
<1>7. held[t] = None
  BY <1>1 DEF HeldAgrees, InCall, Inserting, Deleting
<1>8. CarriedAgrees'
  BY <1>5, <1>6 DEF CarriedAgrees
<1>9. None \notin Sources /\ Upcalls \cap Sources = {} /\ Live \subseteq Sources
  BY JobsAssumption DEF Jobs, Live
<1>10. ASSUME NEW s \in Sources PROVE Called(s) => Called(s)'
  BY <1>1 DEF Called, Inserts, Inserting
<1>11. ASSUME NEW s \in Sources PROVE Read(s) => Read(s)'
  BY <1>5, <1>7, <1>9 DEF Read
<1>12. ASSUME NEW s \in Sources PROVE Carried(s) => Carried(s)' \/ Read(s)'
  BY <1>4, <1>5 DEF Carried, Read
<1>13. ASSUME NEW s \in Sources PROVE Queued(s) => Queued(s)' \/ Read(s)'
  BY <1>4, <1>5, <1>6, <1>9 DEF Read
<1>14. ASSUME NEW s \in Sources
       PROVE  Monitored(s)' = Monitored(s) /\ Reported(s)' = Reported(s)
  BY <1>1 DEF Monitored, Reported
<1>15. Kept'
  BY <1>1, <1>9, <1>10, <1>11, <1>12, <1>13, <1>14 DEF Kept, Live, Placed
<1>16. QED BY <1>8, <1>15

(* The event job leaves its source to the request that it queues, if it    *)
(* has not passed it on before.                                            *)
LEMMA RequestKept ==
  ASSUME Typed, Orderly, Settled, NEW t \in Tasks, NEW v \in Upcalls, Queue_Request_Job(t, v)
  PROVE  CarriedAgrees' /\ Kept'
<1> USE DEF Typed, TypeOK, Settled
<1>1. PICK z : z = held[t]
  OBVIOUS
<1>2. /\ queue' = Append(queue, v)
      /\ carried' = [carried EXCEPT ![v] = z] /\ held' = [held EXCEPT ![t] = None]
      /\ UNCHANGED <<pc, sources, events, open, dying, broken, op>>
      /\ ~Queued(v)
  BY <1>1 DEF Queue_Request_Job, Queue_Job, Queued
<1>3. Queued(v)' /\ \A s : Queued(s) => Queued(s)'
  BY <1>2, AppendJobs DEF Jobs, Orderly, OnePlace
<1>4. carried[v] = None
  BY <1>2 DEF CarriedAgrees
<1>5. CarriedAgrees'
  BY <1>2, <1>3 DEF CarriedAgrees
<1>6. None \notin Sources /\ Live \subseteq Sources
  BY JobsAssumption DEF Jobs, Live
<1>7. ASSUME NEW s \in Sources PROVE Read(s) => Read(s)' \/ Carried(s)'
  BY <1>1, <1>2 DEF Read, Carried
<1>8. ASSUME NEW s \in Sources PROVE Carried(s) => Carried(s)'
  BY <1>2, <1>4, <1>6 DEF Carried
<1>9. ASSUME NEW s \in Sources
      PROVE  /\ Monitored(s)' = Monitored(s) /\ Reported(s)' = Reported(s)
             /\ Called(s)' = Called(s)
  BY <1>2 DEF Monitored, Reported, Called, Inserts
<1>10. Kept'
  BY <1>2, <1>3, <1>6, <1>7, <1>8, <1>9 DEF Kept, Live, Placed
<1>11. QED BY <1>5, <1>10

(* A job that returns reads no source, or one that is disconnected.        *)
LEMMA DropKept ==
  ASSUME Typed, Settled, NEW t \in Tasks, Job_Completed(t)
  PROVE  CarriedAgrees' /\ Kept'
<1> USE DEF Typed, TypeOK, Settled
<1>1. /\ pc[t] = "running" /\ held[t] \in broken \cup {None} /\ t \in Threads
      /\ pc' = [pc EXCEPT ![t] = "schedule"] /\ held' = [held EXCEPT ![t] = None]
      /\ UNCHANGED <<sources, events, queue, carried, open, dying, broken, op>>
  BY DEF Job_Completed, Goto, Threads
<1>2. ASSUME NEW s
      PROVE  /\ Monitored(s)' = Monitored(s) /\ Reported(s)' = Reported(s)
             /\ Queued(s)' = Queued(s) /\ Carried(s)' = Carried(s)
  BY <1>1 DEF Monitored, Reported, Queued, Carried
<1>3. ASSUME NEW s PROVE Called(s) => Called(s)'
  BY <1>1 DEF Called, Inserts, Inserting
<1>4. ASSUME NEW s \in Live PROVE Read(s) => Read(s)'
  <2>1. s # None
    BY JobsAssumption DEF Jobs, Live
  <2>2. held[t] # s
    BY <1>1, <2>1 DEF Live
  <2>3. QED BY <1>1, <2>2 DEF Read
<1>5. QED BY <1>1, <1>2, <1>3, <1>4 DEF CarriedAgrees, Kept, Live, Placed

(* A step of a call of t that passes no job and no source around between   *)
(* tasks.                                                                  *)
LEMMA CallKept ==
  ASSUME Typed, Settled, NEW t \in Threads, NEW z \in Sources,
         \A u \in Threads : u # t => pc'[u] = pc[u] /\ op'[u] = op[u],
         \A s \in Sources : s # z => (Inserts(t, s) => Inserts(t, s)'),
         \A s \in Sources : s # z => /\ Monitored(s) => Monitored(s)'
                                     /\ Read(s) => Read(s)',
         z \in Live' => Placed(z)',
         \A s \in Live' : s # z => s \in Live,
         UNCHANGED <<events, queue, carried>>
  PROVE  CarriedAgrees' /\ Kept'
<1> USE DEF Settled
<1>1. ASSUME NEW s \in Sources, s # z PROVE Called(s) => Called(s)'
  BY <1>1 DEF Called, Inserts
<1>2. \A s : /\ Reported(s)' = Reported(s) /\ Queued(s)' = Queued(s)
             /\ Carried(s)' = Carried(s)
  BY DEF Reported, Queued, Carried
<1>3. Live \subseteq Sources
  BY DEF Live, Typed, TypeOK
<1>4. Kept'
  BY <1>1, <1>2, <1>3 DEF Kept, Placed
<1>5. QED BY <1>2, <1>4 DEF CarriedAgrees

(* The steps of a call that neither begin nor end it, nor register its     *)
(* source: the source stays with the call if it is being inserted.         *)
LEMMA CallStays ==
  ASSUME Typed, NEW t \in Threads,
         \/ Disable_Polling(t) \/ Disable_Return(t) \/ Register_Unknown(t)
         \/ Delete_Source(t) \/ Event_Sources_Added(t) \/ Unregister_Source(t)
  PROVE  /\ \A u \in Threads : u # t => pc'[u] = pc[u] /\ op'[u] = op[u]
         /\ UNCHANGED <<events, queue, carried, held, open, dying, broken, sourceMonitor>>
         /\ \A s \in Sources : Inserts(t, s) => Inserts(t, s)'
<1> USE DEF Typed, TypeOK, Goto
<1>1. /\ \A u \in Threads : u # t => pc'[u] = pc[u] /\ op'[u] = op[u]
      /\ UNCHANGED <<events, queue, carried, held, open, dying, broken, sourceMonitor>>
      /\ op'[t].kind = op[t].kind /\ op'[t].arg = op[t].arg
  <2> USE DEF sourceVars, Operation
  <2>1. CASE Disable_Polling(t)
    BY <2>1 DEF Disable_Polling
  <2>2. CASE Disable_Return(t)
    BY <2>2 DEF Disable_Return
  <2>3. CASE Register_Unknown(t)
    BY <2>3 DEF Register_Unknown
  <2>4. CASE Delete_Source(t)
    BY <2>4 DEF Delete_Source
  <2>5. CASE Event_Sources_Added(t)
    BY <2>5 DEF Event_Sources_Added
  <2>6. CASE Unregister_Source(t)
    BY <2>6 DEF Unregister_Source
  <2>7. QED BY <2>1, <2>2, <2>3, <2>4, <2>5, <2>6
<1>2. op[t].kind = "insert" /\ pc[t] \in Inserting => pc'[t] \in Inserting
  <2> USE DEF Inserting
  <2>1. CASE Disable_Polling(t) \/ Disable_Return(t) \/ Register_Unknown(t)
    BY <2>1 DEF Disable_Polling, Disable_Return, Register_Unknown
  <2>2. CASE Delete_Source(t) \/ Event_Sources_Added(t) \/ Unregister_Source(t)
    BY <2>2 DEF Delete_Source, Event_Sources_Added, Unregister_Source, OpAgrees
  <2>3. QED BY <2>1, <2>2
<1>3. QED BY <1>1, <1>2 DEF Inserts

(* A source in a call is inserted or, with its list, deleted.              *)
LEMMA CallGoesOnKept ==
  ASSUME Typed, Orderly, Settled, NEW t \in Threads,
         \/ Disable_Polling(t) \/ Disable_Return(t) \/ Register_Unknown(t)
         \/ Delete_Source(t) \/ Event_Sources_Added(t) \/ Unregister_Source(t)
  PROVE  CarriedAgrees' /\ Kept'
<1> USE DEF Typed, TypeOK, Goto
<1>1. PICK z \in Sources : z = op[t].arg
  BY DEF Disable_Polling, Disable_Return, Register_Unknown, Delete_Source,
         Event_Sources_Added, Unregister_Source, OpAgrees
<1>2. /\ \A u \in Threads : u # t => pc'[u] = pc[u] /\ op'[u] = op[u]
      /\ UNCHANGED <<events, queue, carried, held, open, dying, broken>>
  BY CallStays
<1>4. \A s \in Sources : Inserts(t, s) => Inserts(t, s)'
  BY CallStays
<1>5. \A s \in Sources : Read(s)' = Read(s)
  BY <1>2 DEF Read
<1>6. Live' = Live
  BY <1>2 DEF Live
<1>7. CASE Unregister_Source(t)
  <2>1. z \notin Live
    BY <1>1, <1>7
    DEF Unregister_Source, Deletes, Deleting, Orderly, DeletesSound, DeleteSound, Live
  <2>2. ASSUME NEW s \in Sources, s # z PROVE Monitored(s) => Monitored(s)'
    BY <1>1, <1>7, <2>2 DEF Unregister_Source, Monitored
  <2>3. QED BY <1>2, <1>4, <1>5, <1>6, <2>1, <2>2, CallKept
<1>8. CASE UNCHANGED sources
  <2>1. \A s \in Sources : Monitored(s)' = Monitored(s)
    BY <1>8 DEF Monitored
  <2>2. Called(z) => Called(z)'
    BY <1>2, <1>4 DEF Called, Inserts
  <2>3. /\ Reported(z)' = Reported(z) /\ Queued(z)' = Queued(z)
        /\ Carried(z)' = Carried(z)
    BY <1>2 DEF Reported, Queued, Carried
  <2>4. z \in Live' => Placed(z)'
    BY <1>5, <1>6, <2>1, <2>2, <2>3 DEF Settled, Kept, Placed
  <2>5. QED BY <1>2, <1>4, <1>5, <1>6, <2>1, <2>4, CallKept
<1>9. QED
  BY <1>7, <1>8
  DEF Disable_Polling, Disable_Return, Register_Unknown, Delete_Source, Event_Sources_Added

(* The source of the call is put on a list, or is not monitored and is     *)
(* given up; the end of a call gives up a source that was deleted.         *)
LEMMA RegisterKept ==
  ASSUME Typed, SlotsFilled, Settled, error' = "none", NEW t \in Threads,
         \/ Register_Source(t) \/ Create_Monitor(t) \/ Register_Failure(t) \/ Source_Done(t),
         Known, error = "none"
  PROVE  CarriedAgrees' /\ Kept'
<1> USE DEF Typed, TypeOK, Goto
<1>1. PICK z \in Sources : z = op[t].arg
  BY DEF Register_Source, Create_Monitor, Register_Failure, Source_Done, OpAgrees
<1>2. ASSUME NEW s \in Sources, s # z PROVE ~Inserts(t, s)
  BY <1>1, <1>2 DEF Inserts
<1>3. /\ \A u \in Threads : u # t => pc'[u] = pc[u] /\ op'[u] = op[u]
      /\ UNCHANGED <<events, queue, carried, held>>
  BY DEF Register_Source, Create_Monitor, Register_Failure, Source_Done, taskVars, sourceVars
<1>4. \A s \in Sources : Read(s)' = Read(s)
  BY <1>3 DEF Read
<1>5. ASSUME NEW s \in Live', s # z PROVE s \in Live
  BY <1>1, <1>5
  DEF Live, Register_Source, Create_Monitor, Register_Failure, Source_Done, sourceVars
<1>6. CASE Register_Source(t)
  <2>1. PICK m \in Monitors : sources' = [sources EXCEPT ![m] = @ \cup {z}]
    <3>1. /\ pc[t] = "disabled" /\ op[t].kind = "insert"
          /\ sources' = [sources EXCEPT ![aemMonitor[op[t].slot]] = @ \cup {z}]
      BY <1>1, <1>6 DEF Register_Source
    <3>2. op[t].slot \in Slots /\ op[t].slot \in 1 .. op[t].last
      BY <3>1 DEF OpAgrees, SlotsFilled, SlotFilled, Looping, Slots, Maximum_Number_Of_Monitors
    <3>3. aemMonitor[op[t].slot] \in Monitors
      BY <3>1, <3>2 DEF SlotsFilled, SlotFilled, Looping
    <3>4. QED BY <3>1, <3>3
  <2>2. Monitored(z)' /\ \A s \in Sources : Monitored(s) => Monitored(s)'
    BY <2>1 DEF Monitored
  <2>3. QED BY <1>2, <1>3, <1>4, <1>5, <2>2, CallKept DEF Placed
<1>7. CASE Create_Monitor(t)
  <2>1. PICK m \in Monitors : /\ \A J \in Slots : aemMonitor[J] # m
                              /\ sources' = [sources EXCEPT ![m] = {z}]
    BY <1>1, <1>7 DEF Create_Monitor
  <2>2. sources[m] = {}
    BY <2>1 DEF Known, Has_Sources, Index
  <2>3. Monitored(z)' /\ \A s \in Sources : Monitored(s) => Monitored(s)'
    BY <2>1, <2>2 DEF Monitored
  <2>4. QED BY <1>2, <1>3, <1>4, <1>5, <2>3, CallKept DEF Placed
<1>8. CASE Register_Failure(t) \/ Source_Done(t)
  <2>1. UNCHANGED sources
    BY <1>8 DEF Register_Failure, Source_Done
  <2>2. \A s \in Sources : Monitored(s)' = Monitored(s)
    BY <2>1 DEF Monitored
  <2>3. z \in Live' => Placed(z)'
    <3>1. CASE Register_Failure(t) \/ op[t].kind = "delete"
      BY <1>1, <1>8, <3>1 DEF Register_Failure, Source_Done, Live, sourceVars
    <3>2. CASE Source_Done(t) /\ op[t].kind # "delete"
      <4>1. z \in Live' => z \in Live
        BY <3>2 DEF Source_Done, Live
      <4>2. Called(z) => Called(z)'
        <5>1. pc[t] = "enabling"
          BY <3>2 DEF Source_Done
        <5>2. QED BY <1>3, <5>1 DEF Called, Inserts, Inserting
      <4>3. /\ Reported(z)' = Reported(z) /\ Queued(z)' = Queued(z)
            /\ Carried(z)' = Carried(z)
        BY <1>3 DEF Reported, Queued, Carried
      <4>4. QED BY <1>4, <2>2, <4>1, <4>2, <4>3 DEF Settled, Kept, Placed
    <3>3. QED BY <1>8, <3>1, <3>2
  <2>4. QED BY <1>2, <1>3, <1>4, <1>5, <2>2, <2>3, CallKept
<1>9. QED BY <1>6, <1>7, <1>8

(* A source is given to a call, new or by the job that read it.            *)
LEMMA BeginKept ==
  ASSUME Typed, Orderly, Settled, NEW t \in Threads, NEW z \in Sources,
         Insert_Source(t, z) \/ Finalize_Endpoint(t, z)
  PROVE  CarriedAgrees' /\ Kept'
<1> USE DEF Typed, TypeOK, Goto
<1>1. /\ pc[t] \in {"running", "out"}
      /\ held' = [u \in Tasks |-> IF u = t /\ held[u] = z THEN None ELSE held[u]]
      /\ \A u \in Threads : u # t => pc'[u] = pc[u] /\ op'[u] = op[u]
      /\ UNCHANGED <<sources, events, queue, carried, broken>>
  BY DEF Insert_Source, Finalize_Endpoint, Can_Call, Pass_On
<1>2. \A s \in Sources : ~Inserts(t, s)
  BY <1>1 DEF Inserts, Inserting
<1>3. \A s \in Sources : Monitored(s)' = Monitored(s)
  BY <1>1 DEF Monitored
<1>4. ASSUME NEW s \in Sources, s # z PROVE Read(s) => Read(s)'
  BY <1>1, <1>4 DEF Read
<1>5. ASSUME NEW s \in Live', s # z PROVE s \in Live
  BY <1>5 DEF Live, Insert_Source, Finalize_Endpoint
<1>6. CASE Finalize_Endpoint(t, z)
  <2>1. z \notin Live'
    BY <1>6 DEF Finalize_Endpoint, Live
  <2>2. QED BY <1>1, <1>2, <1>3, <1>4, <1>5, <2>1, CallKept
<1>7. CASE Insert_Source(t, z)
  <2>1. op'[t].kind = "insert" /\ op'[t].arg = z /\ pc'[t] \in {"create", "disable"}
    BY <1>7 DEF Insert_Source
  <2>2. Called(z)'
    BY <2>1 DEF Called, Inserts, Inserting
  <2>3. QED BY <1>1, <1>2, <1>3, <1>4, <1>5, <2>2, CallKept DEF Placed
<1>8. QED BY <1>6, <1>7

----------------------------------------------------------------------------
(* Delete_Source finds a monitor                                           *)

(* A source that is open has a monitor once Insert_Source has gone past    *)
(* it, unless its registration may have failed.                            *)
Registered == \A s \in open : s \in Failing \/ sourceMonitor[s] # None \/ Called(s)

(* A source that is closed without a monitor is one of these.              *)
LEMMA DeletesRegistered ==
  ASSUME Typed, Orderly, Registered, NEW t \in Threads, Delete_Unmonitored(t)
  PROVE  pc[t] = "deleting" /\ op[t].arg \in Failing
<1>1. PICK z \in Sources : z = op[t].arg
  BY DEF Delete_Unmonitored, Typed, OpAgrees
<1>2. pc[t] = "deleting" /\ Deletes(t, z) /\ sourceMonitor[z] = None
  BY <1>1 DEF Delete_Unmonitored, Typed, OpAgrees, Deletes, Deleting
<1>3. z \in open /\ ~Called(z)
  BY <1>2 DEF Orderly, DeletesSound, DeleteSound, PlacesSound, PlaceSound
<1>4. QED BY <1>1, <1>2, <1>3 DEF Registered

(* A step that goes on with no call does not matter,                       *)
LEMMA RegisteredQuiet ==
  ASSUME Registered, UNCHANGED <<open, sourceMonitor>>,
         \A t \in Threads : pc[t] \in Inserting => pc'[t] = pc[t] /\ op'[t] = op[t]
  PROVE  Registered'
<1>1. ASSUME NEW s, Called(s) PROVE Called(s)'
  BY <1>1 DEF Called, Inserts
<1>2. QED BY <1>1 DEF Registered

LEMMA QuietRegistered ==
  ASSUME Registered, Quiet
  PROVE  Registered'
BY RegisteredQuiet DEF Quiet, InCall

(* nor a step of a call of t that is about the source z, if z is accounted *)
(* for.                                                                    *)
LEMMA RegisteredKept ==
  ASSUME Typed, Registered, NEW t \in Threads, NEW z \in Sources,
         \A u \in Threads : u # t => pc'[u] = pc[u] /\ op'[u] = op[u],
         \A s \in Sources : s # z => ~Inserts(t, s),
         \A s \in Sources : s # z => sourceMonitor'[s] = sourceMonitor[s],
         open' \subseteq open \cup {z},
         z \in open' => z \in Failing \/ sourceMonitor'[z] # None \/ Called(z)'
  PROVE  Registered'
<1>1. ASSUME NEW s \in Sources, s # z, Called(s) PROVE Called(s)'
  BY <1>1 DEF Called, Inserts
<1>2. open \subseteq Sources
  BY DEF Typed, TypeOK
<1>3. ASSUME NEW s \in open', s # z PROVE s \in open /\ s \in Sources
  BY <1>2, <1>3
<1>4. ASSUME NEW s \in open' PROVE s \in Failing \/ sourceMonitor'[s] # None \/ Called(s)'
  BY <1>1, <1>3, <1>4 DEF Registered
<1>5. QED BY <1>4 DEF Registered

(* Every step of a call in which no exception is raised accounts for its   *)
(* source.                                                                 *)
LEMMA RegisteredCall ==
  ASSUME Typed, SlotsFilled, Registered, error' = "none", NEW t \in Threads,
         Call_Inside(t) \/ Call_Enter(t) \/ Source_Calls(t)
  PROVE  Registered'
<1> USE DEF Typed, TypeOK, Goto
<1>1. CASE \/ Disable_Polling(t) \/ Disable_Return(t) \/ Register_Unknown(t)
           \/ Delete_Source(t) \/ Event_Sources_Added(t) \/ Unregister_Source(t)
  <2>1. PICK z \in Sources : z = op[t].arg
    BY <1>1 DEF Disable_Polling, Disable_Return, Register_Unknown, Delete_Source,
         Event_Sources_Added, Unregister_Source, OpAgrees
  <2>2. /\ \A u \in Threads : u # t => pc'[u] = pc[u] /\ op'[u] = op[u]
        /\ UNCHANGED <<open, sourceMonitor>>
    BY <1>1, CallStays
  <2>3. \A s \in Sources : Inserts(t, s) => Inserts(t, s)'
    BY <1>1, CallStays
  <2>4. \A s \in Sources : s # z => ~Inserts(t, s)
    BY <2>1 DEF Inserts
  <2>5. Called(z) => Called(z)'
    BY <2>2, <2>3 DEF Called, Inserts
  <2>6. z \in open' => z \in Failing \/ sourceMonitor'[z] # None \/ Called(z)'
    BY <2>2, <2>5 DEF Registered
  <2>7. QED BY <2>2, <2>4, <2>6, RegisteredKept
<1>2. CASE Register_Source(t) \/ Create_Monitor(t) \/ Register_Failure(t)
  <2>1. PICK z \in Sources : z = op[t].arg
    BY <1>2 DEF Register_Source, Create_Monitor, Register_Failure, OpAgrees
  <2>2. /\ \A u \in Threads : u # t => pc'[u] = pc[u] /\ op'[u] = op[u]
        /\ UNCHANGED open
        /\ \A s \in Sources : s # z => sourceMonitor'[s] = sourceMonitor[s]
    BY <1>2, <2>1 DEF Register_Source, Create_Monitor, Register_Failure, sourceVars
  <2>3. \A s \in Sources : s # z => ~Inserts(t, s)
    BY <2>1 DEF Inserts
  <2>4. z \in Failing \/ sourceMonitor'[z] # None
    <3>1. CASE Register_Source(t)
      <4>1. pc[t] = "disabled" /\ op[t].kind = "insert"
            /\ sourceMonitor'[z] = aemMonitor[op[t].slot]
        BY <2>1, <3>1 DEF Register_Source
      <4>2. op[t].slot \in Slots /\ op[t].slot \in 1 .. op[t].last
        BY <4>1 DEF OpAgrees, SlotsFilled, SlotFilled, Looping, Slots,
                    Maximum_Number_Of_Monitors
      <4>3. QED BY <4>1, <4>2 DEF SlotsFilled, SlotFilled, Looping
    <3>2. CASE Create_Monitor(t)
      <4>1. PICK m \in Monitors : sourceMonitor' = [sourceMonitor EXCEPT ![z] = m]
        BY <2>1, <3>2 DEF Create_Monitor
      <4>2. QED BY <4>1, JobsAssumption
    <3>3. CASE Register_Failure(t)
      BY <2>1, <3>3 DEF Register_Failure
    <3>4. QED BY <1>2, <3>1, <3>2, <3>3
  <2>5. QED BY <2>2, <2>3, <2>4, RegisteredKept
<1>3. CASE Source_Done(t)
  <2>1. PICK z \in Sources : z = op[t].arg
    BY <1>3 DEF Source_Done, OpAgrees
  <2>2. /\ pc[t] = "enabling"
        /\ \A u \in Threads : u # t => pc'[u] = pc[u] /\ op'[u] = op[u]
    BY <1>3 DEF Source_Done, taskVars
  <2>3. \A s \in Sources : ~Inserts(t, s)
    BY <2>2 DEF Inserts, Inserting
  <2>4. CASE UNCHANGED <<open, sourceMonitor>>
    BY <2>2, <2>4, RegisteredQuiet DEF Inserting
  <2>5. CASE open' = open \ {z} /\ sourceMonitor' = [sourceMonitor EXCEPT ![z] = None]
    BY <2>2, <2>3, <2>5, RegisteredKept
  <2>6. QED BY <1>3, <2>1, <2>4, <2>5 DEF Source_Done
<1>4. ASSUME NEW z \in Sources, Insert_Source(t, z) PROVE Registered'
  <2>1. /\ pc[t] \in {"running", "out"} /\ pc'[t] \in {"create", "disable"}
        /\ op'[t].kind = "insert" /\ op'[t].arg = z
        /\ \A u \in Threads : u # t => pc'[u] = pc[u] /\ op'[u] = op[u]
        /\ open' = open \cup {z} /\ UNCHANGED sourceMonitor
    BY <1>4 DEF Insert_Source, Can_Call
  <2>2. Called(z)' /\ \A s \in Sources : ~Inserts(t, s)
    BY <2>1 DEF Called, Inserts, Inserting
  <2>3. QED BY <2>1, <2>2, RegisteredKept
<1>5. ASSUME NEW z \in Sources, Finalize_Endpoint(t, z) PROVE Registered'
  <2>1. /\ pc[t] \in {"running", "out"}
        /\ \A u \in Threads : u # t => pc'[u] = pc[u] /\ op'[u] = op[u]
        /\ UNCHANGED <<open, sourceMonitor>>
    BY <1>5 DEF Finalize_Endpoint, Can_Call
  <2>2. QED BY <2>1, RegisteredQuiet DEF Inserting
<1>6. ~Create_Failure(t) /\ ~Delete_Unmonitored(t)
  BY DEF Create_Failure, Delete_Unmonitored
<1>7. QED
  BY <1>1, <1>2, <1>3, <1>4, <1>5, <1>6 DEF Call_Inside, Call_Enter, Source_Calls

(* Neither do the steps that are not quiet, but belong to no call.         *)
LEMMA RegisteredOther ==
  ASSUME Typed, Registered, NEW t \in Tasks,
         \/ Schedule_Job(t) \/ Job_Completed(t) \/ \E z \in Sources : Queue_Event_Job(t, z)
         \/ Check_Sources(t) \/ \E u \in Upcalls : Queue_Request_Job(t, u)
  PROVE  Registered'
<1>1. /\ pc[t] \notin Inserting /\ UNCHANGED <<open, sourceMonitor, op>>
      /\ \A u \in Threads : u # t => pc'[u] = pc[u]
  <2> USE DEF Goto, Inserting, sourceVars, Typed, TypeOK
  <2>1. CASE Schedule_Job(t)
    BY <2>1 DEF Schedule_Job, Scheduling
  <2>2. CASE Job_Completed(t)
    BY <2>2 DEF Job_Completed
  <2>3. ASSUME NEW z \in Sources, Queue_Event_Job(t, z)
        PROVE  /\ pc[t] \notin Inserting /\ UNCHANGED <<open, sourceMonitor, op>>
               /\ \A u \in Threads : u # t => pc'[u] = pc[u]
    BY <2>3 DEF Queue_Event_Job
  <2>4. CASE Check_Sources(t)
    BY <2>4 DEF Check_Sources
  <2>5. ASSUME NEW u \in Upcalls, Queue_Request_Job(t, u)
        PROVE  pc[t] \notin Inserting /\ UNCHANGED <<open, sourceMonitor, op, pc>>
    BY <2>5 DEF Queue_Request_Job
  <2>6. QED BY <2>1, <2>2, <2>3, <2>4, <2>5
<1>2. QED BY <1>1, RegisteredQuiet

----------------------------------------------------------------------------
(* Every source is accounted for                                           *)

(* What Insert_Source establishes, also when clients are aborted.          *)
Inserted == error = "none" => SlotsFilled /\ Registered

(* Every step keeps it.                                                    *)
LEMMA InsertedStep ==
  ASSUME Typed, Traced, Inserted, [Next]_vars
  PROVE  Inserted'
<1> SUFFICES ASSUME error' = "none" PROVE SlotsFilled' /\ Registered'
  BY DEF Inserted
<1>1. CASE UNCHANGED vars
  <2>1. SlotsFilled /\ Registered
    BY <1>1 DEF Inserted, vars
  <2>2. UNCHANGED <<pc, op, open, sourceMonitor, aemMonitor>>
    BY <1>1 DEF vars, taskVars, aemVars, sourceVars
  <2>3. QED BY <2>1, <2>2, RegisteredQuiet DEF SlotsFilled, SlotFilled
<1>2. CASE Next
  <2>1. Orderly /\ SlotsFilled /\ Registered
    BY <1>2 DEF Next, Traced, Inserted
  <2>2. ASSUME NEW t \in Tasks, Task_Inside(t) \/ Task_Enter(t)
        PROVE  SlotsFilled' /\ Registered'
    <3>1. CASE \/ Schedule_Job(t) \/ Job_Completed(t)
               \/ \E z \in Sources : Queue_Event_Job(t, z)
      BY <2>1, <3>1, FilledJob, RegisteredOther
    <3>2. CASE /\ ~Schedule_Job(t) /\ ~Job_Completed(t)
               /\ \A z \in Sources : ~Queue_Event_Job(t, z)
      BY <2>1, <2>2, <3>2, QuietTask, FilledQuiet, QuietRegistered
    <3>3. QED BY <3>1, <3>2
  <2>3. ASSUME NEW t \in Threads, Call_Inside(t) \/ Call_Enter(t) \/ Source_Calls(t)
        PROVE  SlotsFilled' /\ Registered'
    BY <2>1, <2>3, FilledCall, RegisteredCall
  <2>4. ASSUME NEW t \in Tasks, Check_Sources(t) \/ \E u \in Upcalls : Queue_Request_Job(t, u)
        PROVE  SlotsFilled' /\ Registered'
    BY <2>1, <2>4, FilledJob, RegisteredOther
  <2>5. ASSUME \/ \E t \in Tasks : \/ \E r \in Transient : Executed_Request(t, r)
                                   \/ Disconnect(t) \/ Request_Result_Ready(t)
                                   \/ Check_Sources_Aborted(t)
               \/ \E t \in Transient : Invoke(t)
               \/ \E a \in Closers : \/ \E w \in BOOLEAN : Shutdown(a, w)
                                     \/ Completion_Return(a)
        PROVE  SlotsFilled' /\ Registered'
    BY <2>1, <2>5, QuietOther, FilledQuiet, QuietRegistered
  <2>6. ASSUME NEW t \in Transient, Abort_Run(t) PROVE SlotsFilled' /\ Registered'
    <3>1. /\ pc[t] \notin Inserting \cup Looping /\ pc' = [pc EXCEPT ![t] = "aborting"]
          /\ UNCHANGED <<op, open, sourceMonitor, aemMonitor>>
      BY <2>6 DEF Abort_Run, Goto, Inserting, Looping, aemVars
    <3>2. \A u \in Threads : pc'[u] \in Looping => pc'[u] = pc[u]
      BY <3>1 DEF Looping, Typed, TypeOK
    <3>3. \A u \in Threads : pc[u] \in Inserting => pc'[u] = pc[u]
      BY <3>1 DEF Typed, TypeOK
    <3>4. QED BY <2>1, <3>1, <3>2, <3>3, RegisteredQuiet DEF SlotsFilled, SlotFilled
  <2>7. QED BY <1>2, <2>2, <2>3, <2>4, <2>5, <2>6 DEF Next, Job_Calls
<1>3. QED BY <1>1, <1>2

(* In an ORB whose clients are not aborted sources are also in the places  *)
(* that they have to be in.                                                *)
Steady == Inserted /\ (Timed = {} /\ error = "none" => Settled)

(* Every step keeps that.                                                  *)
LEMMA SteadyStep ==
  ASSUME Typed, Traced, Known, Steady, [Next]_vars
  PROVE  Steady'
<1> SUFFICES ASSUME Timed = {}, error' = "none" PROVE Settled'
  BY InsertedStep DEF Steady
<1>1. CASE UNCHANGED vars
  <2>1. Orderly /\ Settled
    BY <1>1 DEF Traced, Steady, vars
  <2>2. Quiet /\ UNCHANGED <<broken, pc, op>>
    BY <1>1, <2>1
    DEF Quiet, ReportsKept, Orderly, Recorded, vars, taskVars, aemVars, sourceVars
  <2>3. HeldAgrees'
    BY <2>1, <2>2 DEF Quiet, Settled, HeldAgrees
  <2>4. QED BY <2>1, <2>2, <2>3, QuietKept DEF Settled
<1>2. CASE Next
  <2>1. error = "none" /\ Orderly /\ SlotsFilled /\ Settled
    BY <1>2 DEF Next, Traced, Steady, Inserted
  <2>2. ASSUME NEW t \in Tasks, Task_Inside(t) \/ Task_Enter(t)
        PROVE  CarriedAgrees' /\ Kept'
    <3>1. CASE Schedule_Job(t)
      BY <2>1, <3>1, FetchKept
    <3>2. CASE Job_Completed(t)
      BY <2>1, <3>2, DropKept
    <3>3. CASE \E z \in Sources : Queue_Event_Job(t, z)
      BY <2>1, <3>3, EventKept
    <3>4. CASE /\ ~Schedule_Job(t) /\ ~Job_Completed(t)
               /\ \A z \in Sources : ~Queue_Event_Job(t, z)
      BY <2>1, <2>2, <3>4, QuietTask, QuietKept
    <3>5. QED BY <3>1, <3>2, <3>3, <3>4
  <2>3. ASSUME NEW t \in Threads, Call_Inside(t) \/ Call_Enter(t) \/ Source_Calls(t)
        PROVE  CarriedAgrees' /\ Kept'
    <3>1. ~Create_Failure(t) /\ ~Delete_Unmonitored(t)
      BY DEF Create_Failure, Delete_Unmonitored
    <3>2. QED
      BY <2>1, <2>3, <3>1, CallGoesOnKept, RegisterKept, BeginKept
      DEF Call_Inside, Call_Enter, Source_Calls
  <2>4. ASSUME NEW t \in Tasks, Check_Sources(t) PROVE CarriedAgrees' /\ Kept'
    BY <2>1, <2>4, CheckKept
  <2>5. ASSUME NEW t \in Tasks, NEW u \in Upcalls, Queue_Request_Job(t, u)
        PROVE  CarriedAgrees' /\ Kept'
    BY <2>1, <2>5, RequestKept
  <2>6. ASSUME \/ \E t \in Tasks : \/ \E r \in Transient : Executed_Request(t, r)
                                   \/ Disconnect(t) \/ Request_Result_Ready(t)
                                   \/ Check_Sources_Aborted(t)
               \/ \E t \in Transient : Invoke(t)
               \/ \E a \in Closers : \/ \E w \in BOOLEAN : Shutdown(a, w)
                                     \/ Completion_Return(a)
        PROVE  CarriedAgrees' /\ Kept'
    BY <2>1, <2>6, QuietOther, QuietKept
  <2>7. ASSUME NEW t \in Transient, Abort_Run(t) PROVE FALSE
    BY <2>7 DEF Abort_Run
  <2>8. CarriedAgrees' /\ Kept'
    BY <1>2, <2>2, <2>3, <2>4, <2>5, <2>6, <2>7 DEF Next, Job_Calls
  <2>9. HeldAgrees'
    BY <1>2, <2>1, <2>7, HeldTask, HeldCall, HeldOther DEF Next
  <2>10. QED BY <2>8, <2>9 DEF Settled
<1>3. QED BY <1>1, <1>2

(* A source that is somewhere is in exactly one place.                     *)
LEMMA OnlyPlace ==
  ASSUME Orderly, NEW s \in Sources, Placed(s)
  PROVE  Cardinality(Places(s)) = 1
<1> DEFINE M == {n \in Monitors : s \in sources[n]}
           E == {u \in Tasks : s \in events[u]}
           Q == {k \in 1 .. Len(queue) : queue[k] = s}
           R == {u \in Tasks : held[u] = s}
           C == {u \in Upcalls : carried[u] = s}
           I == {u \in Threads : Inserts(u, s)}
<1> USE DEF Orderly
<1>1. s # None
  BY JobsAssumption DEF Jobs
<1>2. /\ \A m, n \in M : m = n
      /\ \A t, u \in E : t = u
      /\ \A i, k \in Q : i = k
      /\ \A t, u \in R : t = u
      /\ \A u, v \in C : u = v
      /\ \A t, u \in I : t = u
  BY <1>1 DEF Recorded, OnePlace, OneReport, OneJob, OneReader, OneCarrier, OneCall
<1>3. /\ Monitored(s) <=> M # {}
      /\ Reported(s) <=> E # {}
      /\ Queued(s) <=> Q # {}
      /\ Read(s) <=> R # {}
      /\ Carried(s) <=> C # {}
      /\ Called(s) <=> I # {}
  BY DEF Monitored, Reported, Queued, Read, Carried, Called
<1>4. PlaceSound(s)
  BY DEF PlacesSound
<1>5. Places(s) = {<<"monitor", m>> : m \in M} \cup {<<"event", t>> : t \in E}
                  \cup {<<"queue", i>> : i \in Q} \cup {<<"job", t>> : t \in R}
                  \cup {<<"request", u>> : u \in C} \cup {<<"call", t>> : t \in I}
  BY DEF Places, Inserts, Inserting
<1> HIDE DEF M, E, Q, R, C, I
<1>6. \E p : Places(s) = {p}
  <2>1. CASE Monitored(s)
    <3>1. PICK m : M = {m}
      BY <1>2, <1>3, <2>1
    <3>2. E = {} /\ Q = {} /\ R = {} /\ C = {} /\ I = {}
      BY <1>3, <1>4, <2>1 DEF PlaceSound
    <3>3. Places(s) = {<<"monitor", m>>}
      BY <1>5, <3>1, <3>2
    <3>4. QED BY <3>3
  <2>2. CASE Reported(s)
    <3>1. PICK t : E = {t}
      BY <1>2, <1>3, <2>2
    <3>2. M = {} /\ Q = {} /\ R = {} /\ C = {} /\ I = {}
      BY <1>3, <1>4, <2>2 DEF PlaceSound
    <3>3. Places(s) = {<<"event", t>>}
      BY <1>5, <3>1, <3>2
    <3>4. QED BY <3>3
  <2>3. CASE Queued(s)
    <3>1. PICK i : Q = {i}
      BY <1>2, <1>3, <2>3
    <3>2. M = {} /\ E = {} /\ R = {} /\ C = {} /\ I = {}
      BY <1>3, <1>4, <2>3 DEF PlaceSound
    <3>3. Places(s) = {<<"queue", i>>}
      BY <1>5, <3>1, <3>2
    <3>4. QED BY <3>3
  <2>4. CASE Read(s)
    <3>1. PICK t \in R : R = {t}
      <4>1. PICK t \in R : TRUE
        BY <1>3, <2>4
      <4>2. R = {t}
        BY <1>2, <4>1
      <4>3. QED BY <4>1, <4>2
    <3>2. M = {} /\ E = {} /\ Q = {} /\ C = {} /\ I = {}
      BY <1>3, <1>4, <2>4 DEF PlaceSound
    <3>3. Places(s) = {<<"job", t>>}
      BY <1>5, <3>1, <3>2
    <3>4. QED BY <3>3
  <2>5. CASE Carried(s)
    <3>1. PICK u : C = {u}
      BY <1>2, <1>3, <2>5
    <3>2. M = {} /\ E = {} /\ Q = {} /\ R = {} /\ I = {}
      BY <1>3, <1>4, <2>5 DEF PlaceSound
    <3>3. Places(s) = {<<"request", u>>}
      BY <1>5, <3>1, <3>2
    <3>4. QED BY <3>3
  <2>6. CASE Called(s)
    <3>1. PICK t : I = {t}
      BY <1>2, <1>3, <2>6
    <3>2. M = {} /\ E = {} /\ Q = {} /\ R = {} /\ C = {}
      BY <1>3, <1>4, <2>6 DEF PlaceSound
    <3>3. Places(s) = {<<"call", t>>}
      BY <1>5, <3>1, <3>2
    <3>4. QED BY <3>3
  <2>7. QED BY <2>1, <2>2, <2>3, <2>4, <2>5, <2>6 DEF Placed
<1>7. QED BY <1>6, FS_Singleton

(* For any number of threads, sources, monitors and requests: while no     *)
(* client is aborted and no exception has been raised, a source that was   *)
(* handed to the ORB is in one list, event array, queue entry, job,        *)
(* request or call, unless it is disconnected, being closed or one whose   *)
(* registration may fail.  Both conditions are needed: an abort loses the source that the client reads, *)
(* and the exception of Create_Monitor leaves it in two places.            *)
THEOREM AccountedCorrect == Spec => [](Timed = {} /\ NoException => SourceAccounted)
<1>1. Init => Steady
  BY DEF Init, Steady, Inserted, Settled, HeldAgrees, CarriedAgrees, Kept, Live, SlotsFilled, SlotFilled,
         Registered, NoOp
<1>2. Typed /\ Traced /\ Known /\ Steady /\ [Next]_vars => Steady'
  BY SteadyStep
<1>3. Typed /\ Traced /\ Steady => (Timed = {} /\ NoException => SourceAccounted)
  <2> SUFFICES ASSUME Typed, Orderly, Settled, NEW s \in open
               PROVE  \/ Cardinality(Places(s)) = 1
                      \/ s \in dying \cup broken \cup Failing /\ Places(s) = {}
    BY DEF Traced, Steady, NoException, SourceAccounted
  <2>1. s \in Sources
    BY DEF Typed, TypeOK
  <2>2. CASE Placed(s)
    BY <2>1, <2>2, OnlyPlace
  <2>3. CASE ~Placed(s)
    <3>1. s \in dying \cup broken \cup Failing
      BY <2>3 DEF Settled, Kept, Live
    <3>2. Places(s) = {}
      BY <2>3 DEF Places, Placed, Monitored, Reported, Queued, Read, Carried, Called, Inserts,
                  Inserting
    <3>3. QED BY <3>1, <3>2
  <2>4. QED BY <2>2, <2>3
<1>4. QED BY <1>1, <1>2, <1>3, TracedAlways, PTL DEF Spec
=============================================================================
