--------------------------- MODULE RunGroupProofs ---------------------------
(***************************************************************************)
(* Theorems about RunGroup, for every set of exit codes and any number of  *)
(* signals: rungroup reports the status of its command, and signals the    *)
(* group only where it was told to.                                        *)
(***************************************************************************)
EXTENDS RunGroup, TLAPS

Exits == {W_EXITCODE(code) : code \in Codes \cup {0}}

(* Types, with those of the variables that TypeOK does not mention.        *)
Shape ==
  /\ pc \in [Procs -> Aborting \cup
               {"none", "ended", "command", "setpgid", "fork", "signal_TERM",
                "signal_INT", "signal_CHLD", "while", "pause", "paused", "if"}]
  /\ sig \in [Runners -> {0, TERM, INT, CHLD}]
  /\ status \in [Runners -> Exits]
  /\ disp \in [Procs -> [{TERM, INT, CHLD} -> {"dfl", "hnd", "ign"}]]
  /\ pending \in [Procs -> SUBSET {TERM, INT, CHLD}]
  /\ handling \in [Runners -> BOOLEAN]
  /\ end \in [Procs -> Int]
  /\ caught \in [Runners -> BOOLEAN]

(* The child exists once rungroup has forked, and a process has a wait     *)
(* status once it ended: the child one of the command, or of a signal.     *)
Births ==
  /\ pc["r"] \in {"setpgid", "fork"} => pc["c"] = "none"
  /\ \A p \in Procs : pc[p] = "ended" <=> end[p] # -1
  /\ end["c"] \in Exits \cup {-1, TERM, INT, KILL, SEGV}

(* SIGCHLD is about the child that ended; the child itself gets none.      *)
ChildSignal ==
  /\ CHLD \in pending["r"] \/ handling["r"] \/ sig["r"] = CHLD \/ reaped =>
       pc["c"] = "ended"
  /\ CHLD \notin pending["c"] /\ ~handling["c"] /\ sig["c"] # CHLD

(* rungroup is the first to receive a signal from outside, and tells the   *)
(* others only after that.                                                 *)
Told ==
  /\ sig["r"] \in {TERM, INT} => caught["r"]
  /\ pending["c"] # {} \/ sig["c"] # 0 => caught["r"]
  /\ \A p \in Runners : pc[p] \in Aborting => caught["r"]

(* What hndcld has noted is the status of the command.                     *)
Noted ==
  /\ status["r"] # 0 => pc["c"] = "ended" /\ status["r"] = end["c"]
  /\ ~caught["r"] /\ (handling["r"] \/ sig["r"] = CHLD) =>
       status["r"] = IF WIFEXITED(end["c"]) THEN end["c"] ELSE 0

(* The inductive invariant.                                                *)
Inv == Shape /\ Births /\ ChildSignal /\ Told /\ Noted /\ StatusFaithful

-----------------------------------------------------------------------------
(* An exit code survives the way through the wait status and exit; the     *)
(* wait status of a signal is none of an exit, and has code 0.             *)
LEMMA Statuses ==
  /\ 0 \in Exits /\ WEXITSTATUS(0) = 0
  /\ \A x \in Exits : x \in Int /\ x # -1 /\ WIFEXITED(x)
                      /\ W_EXITCODE(WEXITSTATUS(x)) = x
  /\ \A s \in {TERM, INT, KILL, SEGV} :
       s \in Int /\ s # -1 /\ ~WIFEXITED(s) /\ WEXITSTATUS(s) = 0
  /\ W_EXITCODE(1) \in Int /\ W_EXITCODE(1) # -1
  /\ \A code \in Codes : W_EXITCODE(code) \in Exits
BY RunGroupAssumption
  DEF Exits, W_EXITCODE, WIFEXITED, WEXITSTATUS, TERM, INT, KILL, SEGV

(* A process may end: rungroup itself with an exit status only where the   *)
(* child ended, and with that of the child unless hnd has run.             *)
LEMMA EndsInv ==
  ASSUME Inv, NEW p \in Procs, NEW st \in Int \ {-1}, Alive(p), Ends(p, st),
         UNCHANGED unchangedByEnd,
         p = "c" => st \in Exits \cup {TERM, INT, KILL, SEGV},
         p = "r" /\ WIFEXITED(st) /\ pc["c"] # "none" =>
           /\ pc["c"] = "ended"
           /\ ~caught["r"] \/ st # 0 =>
                WEXITSTATUS(st) = WEXITSTATUS(end["c"])
  PROVE  Inv'
<1> USE DEF Inv, Shape, Alive, Ends, Posted, unchangedByEnd, Procs, Runners,
            Aborting, TERM, INT, CHLD, KILL, SEGV
<1>1. Shape'  BY Statuses
<1>2. Births'  BY Statuses DEF Births
<1>3. ChildSignal'  BY DEF ChildSignal
<1>4. Told'  BY DEF Told
<1>5. Noted'  BY Statuses DEF Noted, ChildSignal
<1>6. StatusFaithful'  BY Statuses DEF StatusFaithful
<1> QED BY <1>1, <1>2, <1>3, <1>4, <1>5, <1>6

(* The command may start a descendant.                                     *)
LEMMA CommandForksStep ==
  ASSUME Inv, CommandForks
  PROVE  Inv'
<1> USE DEF Inv, Shape, CommandForks, Goto, unchangedByMain, Aborting, Procs,
            Runners, TERM, INT, CHLD, KILL, SEGV
<1>1. Shape'  BY Statuses
<1>2. Births'  BY Statuses DEF Births
<1>3. ChildSignal'  BY DEF ChildSignal
<1>4. Told'  BY DEF Told
<1>5. Noted'  BY Statuses DEF Noted
<1>6. StatusFaithful'  BY Statuses DEF StatusFaithful
<1> QED BY <1>1, <1>2, <1>3, <1>4, <1>5, <1>6

(* The handlers are installed.                                             *)
LEMMA InstallHandlersStep ==
  ASSUME NEW p \in Runners, Inv, InstallHandlers(p)
  PROVE  Inv'
<1> USE DEF Inv, Shape, InstallHandlers, At, Goto, Signal, Aborting, Procs,
            Runners, TERM, INT, CHLD, KILL, SEGV
<1>1. Shape'  BY Statuses
<1>2. Births'  BY Statuses DEF Births
<1>3. ChildSignal'  BY DEF ChildSignal
<1>4. Told'  BY DEF Told
<1>5. Noted'  BY Statuses DEF Noted
<1>6. StatusFaithful'  BY Statuses DEF StatusFaithful
<1> QED BY <1>1, <1>2, <1>3, <1>4, <1>5, <1>6

(* The loop ends only at SIGTERM or SIGINT, which hnd has noted.           *)
LEMMA whileStep ==
  ASSUME NEW p \in Runners, Inv, while(p)
  PROVE  Inv'
<1> USE DEF Inv, Shape, while, At, Goto, unchangedByMain, Aborting, Procs,
            Runners, TERM, INT, CHLD, KILL, SEGV
<1>1. Shape'  BY Statuses
<1>2. Births'  BY Statuses DEF Births
<1>3. ChildSignal'  BY DEF ChildSignal
<1>4. Told'  BY DEF Told
<1>5. Noted'  BY Statuses DEF Noted
<1>6. StatusFaithful'  BY Statuses DEF StatusFaithful
<1> QED BY <1>1, <1>2, <1>3, <1>4, <1>5, <1>6

(* pause starts to wait.                                                   *)
LEMMA pauseStep ==
  ASSUME NEW p \in Runners, Inv, pause(p)
  PROVE  Inv'
<1> USE DEF Inv, Shape, pause, At, Goto, unchangedByMain, Aborting, Procs,
            Runners, TERM, INT, CHLD, KILL, SEGV
<1>1. Shape'  BY Statuses
<1>2. Births'  BY Statuses DEF Births
<1>3. ChildSignal'  BY DEF ChildSignal
<1>4. Told'  BY DEF Told
<1>5. Noted'  BY Statuses DEF Noted
<1>6. StatusFaithful'  BY Statuses DEF StatusFaithful
<1> QED BY <1>1, <1>2, <1>3, <1>4, <1>5, <1>6

(* The signals are ignored before the group is signalled.                  *)
LEMMA IgnoreSignalsStep ==
  ASSUME NEW p \in Runners, Inv, IgnoreSignals(p)
  PROVE  Inv'
<1> USE DEF Inv, Shape, IgnoreSignals, At, Goto, Signal, Aborting, Procs,
            Runners, TERM, INT, CHLD, KILL, SEGV
<1>1. Shape'  BY Statuses
<1>2. Births'  BY Statuses DEF Births
<1>3. ChildSignal'  BY DEF ChildSignal
<1>4. Told'  BY DEF Told
<1>5. Noted'  BY Statuses DEF Noted
<1>6. StatusFaithful'  BY Statuses DEF StatusFaithful
<1> QED BY <1>1, <1>2, <1>3, <1>4, <1>5, <1>6

(* SIGTERM is sent to the group only after rungroup has received a signal. *)
LEMMA killpg_TERMStep ==
  ASSUME NEW p \in Runners, Inv, killpg_TERM(p)
  PROVE  Inv'
<1> USE DEF Inv, Shape, killpg_TERM, At, Goto, Posted, Alive, Aborting,
            Procs, Runners, TERM, INT, CHLD, KILL, SEGV
<1>1. Shape'  BY Statuses
<1>2. Births'  BY Statuses DEF Births
<1>3. ChildSignal'  BY DEF ChildSignal
<1>4. Told'  BY DEF Told
<1>5. Noted'  BY Statuses DEF Noted
<1>6. StatusFaithful'  BY Statuses DEF StatusFaithful
<1> QED BY <1>1, <1>2, <1>3, <1>4, <1>5, <1>6

(* waitpid returns a child that ended.                                     *)
LEMMA sleep_and_waitStep ==
  ASSUME NEW p \in Runners, Inv, sleep_and_wait(p)
  PROVE  Inv'
<1> USE DEF Inv, Shape, sleep_and_wait, At, Goto, Aborting, Procs, Runners,
            TERM, INT, CHLD, KILL, SEGV
<1>1. Shape'  BY Statuses
<1>2. Births'  BY Statuses DEF Births
<1>3. ChildSignal'  BY DEF ChildSignal
<1>4. Told'  BY DEF Told
<1>5. Noted'  BY Statuses DEF Noted
<1>6. StatusFaithful'  BY Statuses DEF StatusFaithful
<1> QED BY <1>1, <1>2, <1>3, <1>4, <1>5, <1>6

(* SIGKILL ends the whole group, which is no exit.                         *)
LEMMA killpg_KILLStep ==
  ASSUME NEW p \in Runners, Inv, killpg_KILL(p)
  PROVE  Inv'
<1> USE DEF Inv, Shape, killpg_KILL, At, Alive, unchangedByEnd, Aborting,
            Procs, Runners, TERM, INT, CHLD, KILL, SEGV
<1>1. Shape'  BY Statuses
<1>2. Births'  BY Statuses DEF Births
<1>3. ChildSignal'  BY DEF ChildSignal
<1>4. Told'  BY DEF Told
<1>5. Noted'  BY Statuses DEF Noted
<1>6. StatusFaithful'  BY Statuses DEF StatusFaithful
<1> QED BY <1>1, <1>2, <1>3, <1>4, <1>5, <1>6

(* hnd notes the signal; in the child only after rungroup has noted one.   *)
LEMMA hndStep ==
  ASSUME NEW p \in Runners, NEW s \in {TERM, INT}, Inv, hnd(p, s)
  PROVE  Inv'
<1> USE DEF Inv, Shape, hnd, Alive, Woken, Aborting, Procs, Runners, TERM,
            INT, CHLD, KILL, SEGV
<1>1. Shape'  BY Statuses
<1>2. Births'  BY Statuses DEF Births
<1>3. ChildSignal'  BY DEF ChildSignal
<1>4. Told'  BY DEF Told
<1>5. Noted'  BY Statuses DEF Noted
<1>6. StatusFaithful'  BY Statuses DEF StatusFaithful
<1> QED BY <1>1, <1>2, <1>3, <1>4, <1>5, <1>6

(* hndcld notes the status of the child where no signal was noted before.  *)
LEMMA hndcldStep ==
  ASSUME NEW p \in Runners, Inv, hndcld(p)
  PROVE  Inv'
<1> USE DEF Inv, Shape, hndcld, Alive, Aborting, Procs, Runners, TERM, INT,
            CHLD, KILL, SEGV
<1>1. Shape'
  BY Statuses DEF Births, ChildSignal, Told, Noted, StatusFaithful
<1>2. Births'  BY Statuses DEF Births
<1>3. ChildSignal'  BY DEF ChildSignal
<1>4. Told'  BY DEF Told
<1>5. Noted'  BY Statuses DEF Noted, ChildSignal, Births, Told
<1>6. StatusFaithful'  BY Statuses DEF StatusFaithful
<1> QED BY <1>1, <1>2, <1>3, <1>4, <1>5, <1>6

(* The end of the child is noted.                                          *)
LEMMA hndcld_sigStep ==
  ASSUME NEW p \in Runners, Inv, hndcld_sig(p)
  PROVE  Inv'
<1> USE DEF Inv, Shape, hndcld_sig, Alive, Woken, Aborting, Procs, Runners,
            TERM, INT, CHLD, KILL, SEGV
<1>1. Shape'  BY Statuses
<1>2. Births'  BY Statuses DEF Births
<1>3. ChildSignal'  BY DEF ChildSignal
<1>4. Told'  BY DEF Told, ChildSignal
<1>5. Noted'  BY Statuses DEF Noted
<1>6. StatusFaithful'  BY Statuses DEF StatusFaithful
<1> QED BY <1>1, <1>2, <1>3, <1>4, <1>5, <1>6

(* A signal from outside is sent to rungroup only.                         *)
LEMMA UserStep ==
  ASSUME NEW s \in {TERM, INT}, Inv, User(s)
  PROVE  Inv'
<1> USE DEF Inv, Shape, User, Posted, Alive, Aborting, Procs, Runners, TERM,
            INT, CHLD, KILL, SEGV
<1>1. Shape'  BY Statuses
<1>2. Births'  BY Statuses DEF Births
<1>3. ChildSignal'  BY DEF ChildSignal
<1>4. Told'  BY DEF Told
<1>5. Noted'  BY Statuses DEF Noted
<1>6. StatusFaithful'  BY Statuses DEF StatusFaithful
<1> QED BY <1>1, <1>2, <1>3, <1>4, <1>5, <1>6

(* setpgid or fork fails before there is a child, or rungroup goes on.     *)
LEMMA StartStep ==
  ASSUME Inv, setpgid \/ fork
  PROVE  Inv'
<1>1. pc["r"] \in {"setpgid", "fork"} /\ pc["c"] = "none"
  BY DEF Inv, Births, setpgid, fork, At
<1>2. CASE Ends("r", W_EXITCODE(1)) /\ UNCHANGED unchangedByEnd
  <2>1. Alive("r") /\ "r" \in Procs /\ W_EXITCODE(1) \in Int \ {-1}
    BY <1>1, Statuses DEF Alive, Procs
  <2> QED BY <1>1, <1>2, <2>1, EndsInv
<1>3. CASE /\ pc' = [pc EXCEPT !["r"] = "fork"]
           /\ UNCHANGED unchangedByMain
  BY <1>1, <1>3
    DEF Inv, Shape, Births, ChildSignal, Told, Noted, StatusFaithful,
        unchangedByMain, Procs, Runners, Aborting
<1>4. CASE /\ \E child \in {"command", "signal_TERM"} :
                pc' = [pc EXCEPT !["r"] = "signal_TERM", !["c"] = child]
           /\ UNCHANGED unchangedByMain
  BY <1>1, <1>4
    DEF Inv, Shape, Births, ChildSignal, Told, Noted, StatusFaithful,
        unchangedByMain, Procs, Runners, Aborting
<1> QED BY <1>2, <1>3, <1>4
        DEF setpgid, fork, Goto, unchangedByEnd, unchangedByMain

(* rungroup exits with the status that hndcld noted, which is the status   *)
(* of the child unless hnd has run.                                        *)
LEMMA if_SIGCHLDStep ==
  ASSUME NEW p \in Runners, Inv, if_SIGCHLD(p)
  PROVE  Inv'
<1>1. CASE sig[p] # CHLD
  BY <1>1
    DEF Inv, Shape, Births, ChildSignal, Told, Noted, StatusFaithful,
        if_SIGCHLD, At, Goto, unchangedByEnd, Procs, Runners, Aborting
<1>2. CASE sig[p] = CHLD
  <2>1. p = "r" /\ p \in Procs /\ pc["c"] = "ended"
    BY <1>2 DEF Inv, ChildSignal, Runners, Procs
  <2>2. /\ Alive("r") /\ UNCHANGED unchangedByEnd
        /\ Ends("r", W_EXITCODE(WEXITSTATUS(status["r"])))
    BY <1>2, <2>1 DEF if_SIGCHLD, At, Alive
  <2>3. status["r"] \in Exits
    BY DEF Inv, Shape, Runners
  <2>4. W_EXITCODE(WEXITSTATUS(status["r"])) = status["r"]
        /\ status["r"] \in Int \ {-1}
    BY <2>3, Statuses
  <2>5. ~caught["r"] \/ status["r"] # 0 =>
          WEXITSTATUS(status["r"]) = WEXITSTATUS(end["c"])
    <3>1. CASE status["r"] # 0
      BY <3>1 DEF Inv, Noted
    <3>2. CASE ~caught["r"] /\ ~WIFEXITED(end["c"])
      <4>1. end["c"] \in {TERM, INT, KILL, SEGV}
        BY <2>1, <3>2, Statuses DEF Inv, Births, Procs
      <4>2. status["r"] = 0
        BY <1>2, <2>1, <3>2 DEF Inv, Noted
      <4> QED BY <4>1, <4>2, Statuses
    <3>3. CASE ~caught["r"] /\ WIFEXITED(end["c"])
      BY <1>2, <2>1, <3>3 DEF Inv, Noted
    <3> QED BY <3>1, <3>2, <3>3
  <2> QED BY <2>1, <2>2, <2>4, <2>5, EndsInv
<1> QED BY <1>1, <1>2

(* A process that does not catch a signal ends, which is no exit.          *)
LEMMA DeliverStep ==
  ASSUME NEW p \in Procs, NEW s \in {TERM, INT}, Inv, Deliver(p, s)
  PROVE  Inv'
<1>1. CASE Ends(p, s)
  <2>1. s \in Int \ {-1} /\ ~WIFEXITED(s)
    BY Statuses
  <2>2. Alive(p) /\ UNCHANGED unchangedByEnd
    BY DEF Deliver
  <2> QED BY <1>1, <2>1, <2>2, EndsInv
<1>2. CASE pending' = [pending EXCEPT ![p] = @ \ {s}]
           /\ UNCHANGED <<pc, end, reaped>>
  BY <1>2
    DEF Inv, Shape, Births, ChildSignal, Told, Noted, StatusFaithful,
        Deliver, unchangedByEnd, Procs, Runners, Aborting
<1> QED BY <1>1, <1>2 DEF Deliver

(* The command exits or crashes.                                           *)
LEMMA CommandEndsStep ==
  ASSUME NEW p \in {"c", "g"}, Inv, CommandEnds(p)
  PROVE  Inv'
<1>1. PICK st \in {W_EXITCODE(code) : code \in Codes} \cup {SEGV} : Ends(p, st)
  BY DEF CommandEnds
<1>2. st \in Exits \cup {SEGV} /\ st \in Int \ {-1}
  BY Statuses
<1>3. Alive(p) /\ UNCHANGED unchangedByEnd /\ p \in Procs /\ p # "r"
  BY DEF CommandEnds, Alive, Procs
<1> QED BY <1>1, <1>2, <1>3, EndsInv

(* Inv is inductive: in every behaviour it always holds.                   *)
LEMMA InvCorrect == Spec => []Inv
<1>1. Init => Inv
  BY Statuses
    DEF Init, Inv, Shape, Births, ChildSignal, Told, Noted, StatusFaithful,
        Procs, Runners, Aborting, TERM, INT, CHLD, KILL, SEGV
<1>2. Inv /\ [Next]_vars => Inv'
  <2> SUFFICES ASSUME Inv, [Next]_vars PROVE Inv'
    OBVIOUS
  <2>1. CASE UNCHANGED vars
    BY <2>1 DEF Inv, Shape, Births, ChildSignal, Told, Noted, StatusFaithful,
                vars
  <2>2. CASE setpgid \/ fork \/ CommandForks
    BY <2>2, StartStep, CommandForksStep
  <2>3. CASE \E p \in Runners : Run(p)
    BY <2>3, InstallHandlersStep, whileStep, pauseStep, if_SIGCHLDStep,
       IgnoreSignalsStep, killpg_TERMStep, sleep_and_waitStep,
       killpg_KILLStep DEF Run
  <2>4. CASE \E p \in Procs : Interrupt(p)
    BY <2>4, DeliverStep, hndStep, hndcldStep, hndcld_sigStep DEF Interrupt
  <2>5. CASE \E p \in {"c", "g"} : CommandEnds(p)
    BY <2>5, CommandEndsStep
  <2>6. CASE \E s \in {TERM, INT} : User(s)
    BY <2>6, UserStep
  <2> QED BY <2>1, <2>2, <2>3, <2>4, <2>5, <2>6 DEF Next
<1> QED BY <1>1, <1>2, PTL DEF Spec

-----------------------------------------------------------------------------
(* Theorems.                                                               *)

(* The types hold, and waitpid returns the child only once it ended.       *)
THEOREM TypeCorrect == Spec => []TypeOK
<1>1. Inv => TypeOK
  BY DEF Inv, Shape, Births, ChildSignal, TypeOK, Exits
<1> QED BY InvCorrect, <1>1, PTL

(* Where hnd did not run, rungroup exits with the status of its command;   *)
(* where it ran, an exit code other than 0 is still the command's own,     *)
(* whatever the exit codes are and however many signals come.              *)
THEOREM StatusFaithfulCorrect == Spec => []StatusFaithful
BY InvCorrect, PTL DEF Inv

(* The group is signalled only because rungroup received a signal, also by *)
(* a child whose execve failed and which runs the same code.               *)
THEOREM AbortOnSignalCorrect == Spec => []AbortOnSignal
<1>1. Inv => AbortOnSignal
  BY DEF Inv, Told, AbortOnSignal
<1> QED BY InvCorrect, <1>1, PTL
=============================================================================
