------------------------------ MODULE RunGroup ------------------------------
(***************************************************************************)
(* utils/rungroup.c: run a command in a process group of its own, report   *)
(* its exit status, and kill the group when SIGTERM or SIGINT is received. *)
(* Process "r" is rungroup, "c" its child, "g" a descendant of the command *)
(* that stays in the group.  A child whose execve fails goes on in the     *)
(* same code as its parent.  The kernel is external: signals stay pending  *)
(* until they are delivered between any two steps of their target, one     *)
(* pending signal of each kind at most.                                    *)
(***************************************************************************)
EXTENDS Integers, FiniteSets

CONSTANTS
  Codes,        (* exit codes of the command                               *)
  MaxSignals    (* signals sent to rungroup from outside                   *)

ASSUME RunGroupAssumption == Codes \subseteq 0 .. 255 /\ MaxSignals \in Nat

VARIABLES
  pc,           (* where each process is in main, or in the command        *)
  sig,          (* sig of each process that runs the code of rungroup      *)
  status,       (* status, likewise                                        *)
  disp,         (* disposition of each signal                              *)
  pending,      (* pending signals                                         *)
  handling,     (* hndcld is between the test of sig and its assignment    *)
  end,          (* wait status of a process that ended                     *)
  reaped,       (* waitpid returned the child                              *)
  sent,         (* number of signals sent from outside                     *)
  caught        (* hnd has run in the process                              *)

vars == <<pc, sig, status, disp, pending, handling, end, reaped, sent, caught>>

Procs == {"r", "c", "g"}
Runners == {"r", "c"}

TERM == 15
INT  == 2
CHLD == 17
KILL == 9
SEGV == 11

(* Wait status: of exit(code), and of a signal.                            *)
W_EXITCODE(code) == 256 * code
WIFEXITED(st)    == st % 128 = 0
WEXITSTATUS(st)  == (st \div 256) % 256

Alive(p) == pc[p] \notin {"none", "ended"}

Init ==
  /\ pc = [p \in Procs |-> IF p = "r" THEN "setpgid" ELSE "none"]
  /\ sig = [p \in Runners |-> 0] /\ status = [p \in Runners |-> 0]
  /\ disp = [p \in Procs |-> [s \in {TERM, INT, CHLD} |-> "dfl"]]
  /\ pending = [p \in Procs |-> {}]
  /\ handling = [p \in Runners |-> FALSE]
  /\ end = [p \in Procs |-> -1]
  /\ reaped = FALSE /\ sent = 0
  /\ caught = [p \in Runners |-> FALSE]

-----------------------------------------------------------------------------
(* The kernel.                                                             *)

(* Pending signals after s is sent to the processes S.                     *)
Posted(S, s) ==
  [p \in Procs |->
     IF p \in S /\ Alive(p) /\ disp[p][s] # "ign"
        /\ (s = CHLD => disp[p][s] = "hnd")
     THEN pending[p] \cup {s} ELSE pending[p]]

(* Process p ends; its parent gets SIGCHLD, or the child is reaped at once *)
(* where the parent ignores it.                                            *)
Ends(p, st) ==
  /\ pc' = [pc EXCEPT ![p] = "ended"]
  /\ end' = [end EXCEPT ![p] = st]
  /\ pending' = IF p = "c" THEN Posted({"r"}, CHLD) ELSE pending
  /\ reaped' = IF p = "c" /\ disp["r"][CHLD] = "ign" THEN TRUE ELSE reaped

unchangedByEnd == <<sig, status, disp, handling, sent, caught>>

-----------------------------------------------------------------------------
(* main.                                                                   *)

At(p, l) == pc[p] = l /\ ~handling[p]

Goto(p, l) == pc' = [pc EXCEPT ![p] = l]

setpgid ==
  /\ At("r", "setpgid")
  /\ \/ Goto("r", "fork") /\ UNCHANGED <<end, pending, reaped>>
     \/ Ends("r", W_EXITCODE(1))
  /\ UNCHANGED unchangedByEnd

(* fork, and execve in the child: where it fails the child falls through.  *)
fork ==
  /\ At("r", "fork")
  /\ \/ /\ \E child \in {"command", "signal_TERM"} :
             pc' = [pc EXCEPT !["r"] = "signal_TERM", !["c"] = child]
        /\ UNCHANGED <<end, pending, reaped>>
     \/ Ends("r", W_EXITCODE(1))
  /\ UNCHANGED unchangedByEnd

(* signal(s, how), in the two sequences of calls in main; a pending signal *)
(* that becomes ignored is discarded.                                      *)
Signal(p, l, s, how, next) ==
  /\ At(p, l) /\ Goto(p, next)
  /\ disp' = [disp EXCEPT ![p][s] = how]
  /\ pending' = IF how = "ign" THEN [pending EXCEPT ![p] = @ \ {s}] ELSE pending
  /\ UNCHANGED <<sig, status, handling, end, reaped, sent, caught>>

InstallHandlers(p) ==
  \/ Signal(p, "signal_TERM", TERM, "hnd", "signal_INT")
  \/ Signal(p, "signal_INT", INT, "hnd", "signal_CHLD")
  \/ Signal(p, "signal_CHLD", CHLD, "hnd", "while")

unchangedByMain == <<sig, status, disp, pending, handling, end, reaped, sent,
                     caught>>

(* Mutants: the loop ends at any signal.                                   *)
while_M1(p) ==
  /\ At(p, "while") /\ Goto(p, IF sig[p] # 0 THEN "ignore_TERM" ELSE "pause")
  /\ UNCHANGED unchangedByMain

(* The condition of the loop.                                              *)
while(p) ==
  /\ At(p, "while")
  /\ Goto(p, IF sig[p] \in {TERM, INT} THEN "ignore_TERM" ELSE "pause")
  /\ UNCHANGED unchangedByMain

(* The call of pause: only a signal that is caught from now on ends it.    *)
pause(p) == At(p, "pause") /\ Goto(p, "paused") /\ UNCHANGED unchangedByMain

(* Mutants: exit(status).                                                  *)
if_SIGCHLD_M1(p) ==
  /\ At(p, "if")
  /\ IF sig[p] = CHLD THEN Ends(p, W_EXITCODE(status[p] % 256))
     ELSE Goto(p, "while") /\ UNCHANGED <<end, pending, reaped>>
  /\ UNCHANGED unchangedByEnd

(* After pause: exit with the status of the child, or test the loop again. *)
if_SIGCHLD(p) ==
  /\ At(p, "if")
  /\ IF sig[p] = CHLD THEN Ends(p, W_EXITCODE(WEXITSTATUS(status[p])))
     ELSE Goto(p, "while") /\ UNCHANGED <<end, pending, reaped>>
  /\ UNCHANGED unchangedByEnd

(* Mutants: the default actions are restored instead of SIG_IGN.           *)
IgnoreSignals_M1(p) ==
  \/ Signal(p, "ignore_TERM", TERM, "dfl", "ignore_INT")
  \/ Signal(p, "ignore_INT", INT, "dfl", "ignore_CHLD")
  \/ Signal(p, "ignore_CHLD", CHLD, "dfl", "killpg_TERM")

IgnoreSignals(p) ==
  \/ Signal(p, "ignore_TERM", TERM, "ign", "ignore_INT")
  \/ Signal(p, "ignore_INT", INT, "ign", "ignore_CHLD")
  \/ Signal(p, "ignore_CHLD", CHLD, "ign", "killpg_TERM")

(* killpg (0, SIGTERM): the caller is a member of the group.               *)
killpg_TERM(p) ==
  /\ At(p, "killpg_TERM") /\ Goto(p, "sleep")
  /\ pending' = Posted(Procs, TERM)
  /\ UNCHANGED <<sig, status, disp, handling, end, reaped, sent, caught>>

(* sleep (2), then the loop of waitpid.                                    *)
sleep_and_wait(p) ==
  /\ At(p, "sleep") /\ Goto(p, "killpg_KILL")
  /\ reaped' = IF p = "r" /\ pc["c"] = "ended" THEN TRUE ELSE reaped
  /\ UNCHANGED <<sig, status, disp, pending, handling, end, sent, caught>>

(* killpg (0, SIGKILL) ends the caller with the others, before the exit    *)
(* that follows it.                                                        *)
killpg_KILL(p) ==
  /\ At(p, "killpg_KILL")
  /\ pc' = [q \in Procs |-> IF Alive(q) THEN "ended" ELSE pc[q]]
  /\ end' = [q \in Procs |-> IF Alive(q) THEN KILL ELSE end[q]]
  /\ UNCHANGED <<pending, reaped, unchangedByEnd>>

Run(p) == \/ InstallHandlers(p) \/ while(p) \/ pause(p) \/ if_SIGCHLD(p)
          \/ IgnoreSignals(p) \/ killpg_TERM(p) \/ sleep_and_wait(p)
          \/ killpg_KILL(p)

-----------------------------------------------------------------------------
(* Delivery of a signal.                                                   *)

Woken(p) == pc' = [pc EXCEPT ![p] = IF @ = "paused" THEN "if" ELSE @]

(* SIGTERM or SIGINT.  Default action in rungroup; a process of the        *)
(* command may also catch the signal and go on.                            *)
Deliver(p, s) ==
  /\ s \in pending[p] /\ Alive(p) /\ disp[p][s] = "dfl"
  /\ \/ /\ pc[p] = "command" /\ pending' = [pending EXCEPT ![p] = @ \ {s}]
        /\ UNCHANGED <<pc, end, reaped>>
     \/ Ends(p, s)
  /\ UNCHANGED unchangedByEnd

(* A handler that runs inside hndcld returns to it, and not to pause.      *)
hnd(p, s) ==
  /\ s \in pending[p] /\ Alive(p) /\ disp[p][s] = "hnd" /\ s # CHLD
  /\ sig' = [sig EXCEPT ![p] = s]
  /\ caught' = [caught EXCEPT ![p] = TRUE]
  /\ pending' = [pending EXCEPT ![p] = @ \ {s}]
  /\ IF handling[p] THEN UNCHANGED pc ELSE Woken(p)
  /\ UNCHANGED <<status, disp, handling, end, reaped, sent>>

(* Mutants: braces around the two assignments; no test of WIFEXITED.       *)
hndcld_M1(p) ==
  LET told == sig[p] = 0 /\ WIFEXITED(end["c"]) IN
  /\ CHLD \in pending[p] /\ Alive(p) /\ ~handling[p]
  /\ pending' = [pending EXCEPT ![p] = @ \ {CHLD}]
  /\ reaped' = TRUE
  /\ status' = [status EXCEPT ![p] = IF told THEN end["c"] ELSE @]
  /\ handling' = [handling EXCEPT ![p] = told]
  /\ IF told THEN UNCHANGED pc ELSE Woken(p)
  /\ UNCHANGED <<sig, disp, end, sent, caught>>

hndcld_M2(p) ==
  /\ CHLD \in pending[p] /\ Alive(p) /\ ~handling[p]
  /\ pending' = [pending EXCEPT ![p] = @ \ {CHLD}]
  /\ reaped' = TRUE
  /\ status' = [status EXCEPT ![p] = IF sig[p] = 0 THEN end["c"] ELSE @]
  /\ handling' = [handling EXCEPT ![p] = TRUE]
  /\ UNCHANGED <<pc, sig, disp, end, sent, caught>>

(* hndcld: waitpid, and status where no signal was received before.  The   *)
(* signal comes once, from the only child, which waitpid then returns.     *)
hndcld(p) ==
  /\ CHLD \in pending[p] /\ Alive(p) /\ ~handling[p]
  /\ pending' = [pending EXCEPT ![p] = @ \ {CHLD}]
  /\ reaped' = TRUE
  /\ status' = [status EXCEPT ![p] = IF sig[p] = 0 /\ WIFEXITED(end["c"])
                                     THEN end["c"] ELSE @]
  /\ handling' = [handling EXCEPT ![p] = TRUE]
  /\ UNCHANGED <<pc, sig, disp, end, sent, caught>>

(* The assignment that the condition does not guard, and the return.       *)
hndcld_sig(p) ==
  /\ handling[p] /\ Alive(p)
  /\ sig' = [sig EXCEPT ![p] = CHLD]
  /\ handling' = [handling EXCEPT ![p] = FALSE]
  /\ Woken(p)
  /\ UNCHANGED <<status, disp, pending, end, reaped, sent, caught>>

Interrupt(p) ==
  \/ \E s \in {TERM, INT} : Deliver(p, s)
  \/ p \in Runners /\ \E s \in {TERM, INT} : hnd(p, s)
  \/ p \in Runners /\ (hndcld(p) \/ hndcld_sig(p))

-----------------------------------------------------------------------------
(* The command and the user.                                               *)

(* The command and its descendant exit or crash.                           *)
CommandEnds(p) ==
  /\ pc[p] = "command"
  /\ \E st \in {W_EXITCODE(code) : code \in Codes} \cup {SEGV} : Ends(p, st)
  /\ UNCHANGED unchangedByEnd

CommandForks ==
  /\ pc["c"] = "command" /\ pc["g"] = "none" /\ Goto("g", "command")
  /\ UNCHANGED unchangedByMain

User(s) ==
  /\ sent < MaxSignals /\ Alive("r")
  /\ sent' = sent + 1 /\ pending' = Posted({"r"}, s)
  /\ UNCHANGED <<pc, sig, status, disp, handling, end, reaped, caught>>

Next ==
  \/ setpgid \/ fork \/ CommandForks
  \/ \E p \in Runners : Run(p)
  \/ \E p \in Procs : Interrupt(p)
  \/ \E p \in {"c", "g"} : CommandEnds(p)
  \/ \E s \in {TERM, INT} : User(s)

(* The processes that run rungroup's code go on, and signals are delivered;*)
(* the command may run for ever.                                           *)
Fairness ==
  /\ WF_vars(setpgid) /\ WF_vars(fork)
  /\ \A p \in Runners : WF_vars(Run(p))
  /\ \A p \in Procs : WF_vars(Interrupt(p))

Spec == Init /\ [][Next]_vars /\ Fairness

-----------------------------------------------------------------------------
(* Properties.                                                             *)

Aborting == {"ignore_TERM", "ignore_INT", "ignore_CHLD", "killpg_TERM",
             "sleep", "killpg_KILL"}

(* Type invariant; a child is reaped only once it ended.                   *)
TypeOK ==
  /\ pc \in [Procs -> Aborting \cup
               {"none", "ended", "command", "setpgid", "fork", "signal_TERM",
                "signal_INT", "signal_CHLD", "while", "pause", "paused", "if"}]
  /\ sig \in [Runners -> {0, TERM, INT, CHLD}]
  /\ status \in [Runners -> {W_EXITCODE(code) : code \in Codes \cup {0}}]
  /\ \A p \in Procs : /\ pending[p] \subseteq {TERM, INT, CHLD}
                       /\ (pc[p] = "ended") <=> (end[p] # -1)
  /\ reaped => pc["c"] = "ended"

(* Where hnd did not run, rungroup exits with the status of the command:   *)
(* its exit code if it exited, 0 if a signal killed it.  Where hnd ran the *)
(* status may be lost, but a code other than 0 is always the command's own.*)
StatusFaithful ==
  (pc["r"] = "ended" /\ WIFEXITED(end["r"]) /\ pc["c"] # "none") =>
    /\ pc["c"] = "ended"
    /\ (~caught["r"] \/ end["r"] # 0) =>
         WEXITSTATUS(end["r"]) = WEXITSTATUS(end["c"])

(* The group is signalled only because rungroup received SIGTERM or SIGINT,*)
(* also where execve failed and the child runs the same code.              *)
AbortOnSignal ==
  (\E p \in Runners : pc[p] \in Aborting) => caught["r"]

(* Once rungroup left its loop, every process of the group ends, those     *)
(* included that catch SIGTERM: rungroup outlives its own SIGTERM and      *)
(* reaches SIGKILL.                                                        *)
AbortKillsGroup ==
  pc["r"] \in Aborting ~> \A p \in Procs : ~Alive(p)

(* While pause waits, the end of the child ends rungroup, however the      *)
(* child ended, unless SIGTERM or SIGINT interfere.                        *)
WaitReturns ==
  (pc["r"] = "paused" /\ CHLD \in pending["r"]) ~>
    (pc["r"] = "ended" \/ sent > 0)

(* "kill whole process group if a signal is received" (rungroup.c:1): when *)
(* rungroup ended after hnd ran, no process of the group is left.          *)
KillsGroupOnSignal ==
  (caught["r"] /\ pc["r"] = "ended") => \A p \in Procs : ~Alive(p)
=============================================================================
