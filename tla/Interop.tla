------------------------------ MODULE Interop -------------------------------
(***************************************************************************)
(* The CORBA interoperability tests: client programs that call a servant   *)
(* through their ORB, print one line for each check and a verdict, against *)
(* one of the test servers.  The ORBs (omniORB, MICO, TAO) are external:   *)
(* they deliver calls and replies, hold the calls that arrive before the   *)
(* POA manager is active, and run upcalls on one thread or on several.     *)
(***************************************************************************)
EXTENDS AllTypes, Sequences, FiniteSets

CONSTANTS
  Clients,      (* client processes                                        *)
  Defined,      (* the sections each build of all_types_client has         *)
  Repeats,      (* calls of the dynamic client: 1000 in the source         *)
  RefRepeats,   (* calls of echoRef in a loop: 15 in the source            *)
  Others,       (* the clients that may run an unrelated program           *)
  OtherCalls,   (* calls of an unrelated client of the same servant        *)
  MayDie,       (* whether the server may end with an exception            *)
  MayBreak      (* the clients that may lose their connection              *)

ASSUME InteropAssumption ==
  /\ IsFiniteSet(Clients)
  /\ Defined \in [Clients -> SUBSET {"SIMPLE", "SEQUENCE", "ARRAY", "UNION",
                                     "ATTRIBUTE", "OBJECT", "MONEY",
                                     "EXCEPTION"}]
  /\ MayBreak \subseteq Clients /\ Others \subseteq Clients
  /\ Repeats \in Nat \ {0} /\ RefRepeats \in Nat \ {0}
  /\ OtherCalls \in Nat /\ MayDie \in BOOLEAN

VARIABLES
  server,       (* which server runs, on how many threads                  *)
  kind,         (* which program each client runs                          *)
  srv,          (* progress of the server's main                           *)
  rc,           (* reference count of the servant                          *)
  tmp,          (* attribute Counter of the servant                        *)
  tmpColor,     (* attribute myColor of the servant                        *)
  Oneway_Value, (* state of the all_functions servant                      *)
  oneway,       (* each client's oneway call                               *)
  call,         (* each client's synchronous call                          *)
  cl,           (* each client's progress, checks and verdict              *)
  disturbed     (* updates by others since the client's last first call    *)

servant == <<rc, tmp, tmpColor, Oneway_Value>>
vars == <<server, kind, srv, servant, oneway, call, cl, disturbed>>

-----------------------------------------------------------------------------
(* The programs: a check makes calls of one operation, stops at the first  *)
(* bad result, and prints a number of lines.                               *)

Test(op, calls, check, lines) ==
  [op |-> op, calls |-> calls, check |-> check, lines |-> lines]

Each(ops) == [i \in DOMAIN ops |-> Test(ops[i], 1, "echo", 1)]

SimpleTypes ==
  Each(<<"echoBoolean", "echoShort", "echoLong", "echoUShort", "echoULong",
         "echoFloat", "echoFloat", "echoDouble", "echoChar", "echoOctet",
         "echoString">>)

EnumAndSequences ==
  Each(<<"echoColor", "echoUsequence">>)
    \o <<Test("echoBsequence", 1, "echo", 2)>>

ArraysAndStructs ==
  Each(<<"echoArray", "echoMatrix", "echoBigMatrix", "echoStruct",
         "echoArrayStruct">>)

Unions == <<Test("echoUnion", 4, "echo", 1)>>

AttributeTests ==
  <<Test("set_myColor", 1, "none", 0), Test("get_myColor", 1, "green", 1),
    Test("Counter", 1, "first", 0), Test("Counter", 1, "next", 1)>>

(* X is narrowed from the reference that came back, then called through.   *)
ObjectTests ==
  LET Through(op, n) == <<Test(op, n, "none", 0),
                          Test("echoLong", 1, "echo", 1)>>
  IN Through("echoRef", 1) \o Through("echoRef", RefRepeats)
       \o Through("echoOtherAllTypes", 1)
       \o <<Test("echoRef", 1, "none", 0)>> \o Through("echoObject", 1)
       \o <<Test("echoRef", 1, "none", 0)>> \o Through("echoOtherObject", 1)

Money == Each(<<"echoMoney">>)

ExceptionTests ==
  <<Test("testException", 1, "user", 1),
    Test("testUnknownException", 1, "unknown", 1)>>

(* The sections that the macros of the client select, in their order; the  *)
(* macros BOOLEAN .. STRING are one section here, as are those of the      *)
(* sequences and those of the arrays and structures.                       *)
all_types_test ==
  [c \in Clients |->
     LET Section(macro, tests) == IF macro \in Defined[c] THEN tests ELSE <<>>
     IN Section("SIMPLE", SimpleTypes) \o Section("SEQUENCE", EnumAndSequences)
          \o Section("ARRAY", ArraysAndStructs) \o Section("UNION", Unions)
          \o Section("ATTRIBUTE", AttributeTests)
          \o Section("OBJECT", ObjectTests) \o Section("MONEY", Money)
          \o Section("EXCEPTION", ExceptionTests)]

(* All the calls are made, whatever they return.                           *)
dyn_test == <<Test("echoULong", Repeats, "all", 1)>>

all_functions_test ==
  <<Test("oneway_void_proc", 1, "oneway", 0),
    Test("oneway_checker", 1, "one", 1), Test("oneway_checker", 1, "two", 1)>>

Program(c) ==
  CASE kind[c] = "static"    -> all_types_test[c]
    [] kind[c] = "dyn"       -> dyn_test
    [] kind[c] = "functions" -> all_functions_test
    [] kind[c] = "other"     -> <<>>

-----------------------------------------------------------------------------
(* The servers.  An ORB that dispatches from orb->run in the main thread   *)
(* has one thread; omniORB has one for each connection, dynserver_mt_TAO   *)
(* four workers.                                                           *)

Workers == 4

Servers ==
  [name : {"static", "functions"}, threads : {1, Workers}]
    \cup [name : {"dyn", "dyn_TAO"}, threads : {1}]
    \cup [name : {"mt_TAO"}, threads : {Workers}]

KindsOf(s) ==
  CASE s.name = "static"    -> {"static", "other"}
    [] s.name = "functions" -> {"functions"}
    [] OTHER                -> {"static", "dyn"}

Idle == [phase |-> "idle", op |-> "none", reg |-> 0, rep |-> NoReply]

Fresh == [pc |-> "start", step |-> 1, left |-> 0, first |-> 0, failed |-> {},
          lines |-> 0, verdict |-> "none", exit |-> "running"]

Init ==
  /\ server \in Servers
  /\ kind \in [Clients -> KindsOf(server)]
  /\ \A c \in Clients : kind[c] = "other" => c \in Others
  /\ srv = "created" /\ rc = 1
  /\ tmp = 0 /\ tmpColor = "Green" /\ Oneway_Value = 0
  /\ oneway = [c \in Clients |-> "none"]
  /\ call = [c \in Clients |-> Idle]
  /\ cl = [c \in Clients |-> Fresh]
  /\ disturbed = [c \in Clients |-> {}]

unchangedByServer == <<server, kind, tmp, tmpColor, Oneway_Value, oneway,
                       call, cl, disturbed>>

(* Mutants: the object adapter does not count its own reference; the       *)
(* reference that _this() returns is never given up; the POA manager is    *)
(* not activated.                                                          *)
Activate_Object_M1 ==
  srv = "created" /\ srv' = "activated" /\ UNCHANGED <<rc, unchangedByServer>>
Print_IOR_M1 ==
  /\ srv = "activated" /\ srv' = "published" /\ rc' = rc + 1
  /\ UNCHANGED unchangedByServer
Run_M1 == srv = "released" /\ UNCHANGED vars

(* POA::activate_object: the object adapter takes a reference.             *)
Activate_Object ==
  /\ srv = "created" /\ srv' = "activated" /\ rc' = rc + 1
  /\ UNCHANGED unchangedByServer

(* The reference is printed: from now on clients can be started.           *)
Print_IOR ==
  /\ srv = "activated" /\ srv' = "published"
  /\ UNCHANGED <<rc, unchangedByServer>>

Remove_Ref ==
  /\ srv = "published" /\ srv' = "released" /\ rc' = rc - 1
  /\ UNCHANGED unchangedByServer

(* POAManager::activate, then orb->run or the worker threads.              *)
Run ==
  /\ srv = "released" /\ srv' = "running"
  /\ UNCHANGED <<rc, unchangedByServer>>

(* An exception reaches main, or the workers cannot be created.            *)
Fatal ==
  /\ MayDie /\ srv # "dead" /\ srv' = "dead"
  /\ UNCHANGED <<rc, unchangedByServer>>

Main == Activate_Object \/ Print_IOR \/ Remove_Ref \/ Run \/ Fatal

(* Threads busy with an upcall; a oneway call keeps its thread for the     *)
(* whole of its delay.                                                     *)
Busy == Cardinality({c \in Clients : call[c].phase = "upcall"})
          + Cardinality({c \in Clients : oneway[c] = "delay"})

(* Mutants: upcalls run on any number of threads.                          *)
CanDispatch_M1 == srv = "running"

CanDispatch == srv = "running" /\ Busy < server.threads

(* Upcall begins.  Of the two memory accesses of ++tmp, this is the load.  *)
(* One thread serves the calls of a connection in their order.             *)
Dispatch(c) ==
  /\ CanDispatch /\ call[c].phase = "sent"
  /\ (server.threads = 1) => (oneway[c] # "queued")
  /\ call' = [call EXCEPT ![c].phase = "upcall", ![c].reg = tmp]
  /\ UNCHANGED <<server, kind, srv, servant, oneway, cl, disturbed>>

(* Mutants: the counter is read and not incremented.                       *)
Counter_M1(c) == tmp' = call[c].reg

(* all_types_i::Counter, its second memory access, and myColor(arg).       *)
Counter(c)     == tmp' = call[c].reg + 1
SetMyColor(color) == tmpColor' = color

(* What the servant answers.                                               *)
Upcall(c, op) ==
  CASE server.name = "static"    -> all_types_i(op, tmpColor, call[c].reg + 1)
    [] server.name = "functions" ->
         IF op = "_is_a" THEN Value("TRUE") ELSE Number(Oneway_Value)
    [] server.name = "dyn"       -> invoke(op, "IDL:all_types:1.0", "other")
    [] server.name = "dyn_TAO"   -> invoke(op, "IDL:all_types:1.0", "TAO")
    [] server.name = "mt_TAO"    -> invoke_mt(op, "IDL:all_types:1.0")

(* Upcall ends and the reply is sent.  The test client sets Green; another *)
(* client sets any color.                                                  *)
Complete(c) ==
  LET op == call[c].op IN
  /\ srv = "running" /\ call[c].phase = "upcall"
  /\ call' = [call EXCEPT ![c].phase = "replied", ![c].reg = 0,
                          ![c].rep = Upcall(c, op)]
  /\ IF server.name = "static" /\ op = "Counter" THEN Counter(c)
                                                 ELSE UNCHANGED tmp
  /\ IF server.name = "static" /\ op = "set_myColor"
       THEN \E color \in (IF kind[c] = "static" THEN {"Green"}
                                                ELSE {"Green", "Blue"}) :
              SetMyColor(color)
       ELSE UNCHANGED tmpColor
  /\ disturbed' = [d \in Clients |->
                     IF /\ d # c /\ cl[d].pc = "test" /\ kind[d] = "static"
                        /\ op \in {"Counter", "set_myColor"}
                     THEN disturbed[d] \cup {op} ELSE disturbed[d]]
  /\ UNCHANGED <<server, kind, srv, rc, Oneway_Value, oneway, cl>>

(* all_functions.Impl.oneway_void_proc: value 1, a delay, value 2.         *)
Oneway_Begin(c) ==
  /\ CanDispatch /\ oneway[c] = "queued"
  /\ oneway' = [oneway EXCEPT ![c] = "delay"]
  /\ Oneway_Value' = 1
  /\ UNCHANGED <<server, kind, srv, rc, tmp, tmpColor, call, cl, disturbed>>

Oneway_End(c) ==
  /\ srv = "running" /\ oneway[c] = "delay"
  /\ oneway' = [oneway EXCEPT ![c] = "done"]
  /\ Oneway_Value' = 2
  /\ UNCHANGED <<server, kind, srv, rc, tmp, tmpColor, call, cl, disturbed>>

-----------------------------------------------------------------------------
(* The clients.                                                            *)

Request(op) == [Idle EXCEPT !.phase = "sent", !.op = op]

unchangedByClient == <<server, kind, srv, servant>>

(* main: wrong number of parameters, a nil reference, or the first call.   *)
(* all_functions_client.cc goes on without its parameter and crashes.      *)
Start(c) ==
  /\ cl[c].pc = "start" /\ srv \notin {"created", "activated"}
  /\ \/ /\ \E code \in {"abort", "failure"} :
             /\ (code = "abort") => (kind[c] = "functions")
             /\ cl' = [cl EXCEPT ![c].pc = "done", ![c].exit = code]
        /\ UNCHANGED call
     \/ /\ kind[c] \in {"static", "functions"}
        /\ cl' = [cl EXCEPT ![c].pc = "narrow"]
        /\ call' = [call EXCEPT ![c] = Request("_is_a")]
     \/ /\ kind[c] \in {"dyn", "other"}
        /\ cl' = [cl EXCEPT ![c].pc = "test",
                            ![c].left = IF kind[c] = "dyn" THEN Repeats
                                                           ELSE OtherCalls]
        /\ UNCHANGED call
  /\ UNCHANGED <<unchangedByClient, oneway, disturbed>>

(* The next call of the program.  A oneway call expects no reply.          *)
Send(c) ==
  LET t == Program(c)[cl[c].step] IN
  /\ cl[c].pc = "test" /\ kind[c] # "other" /\ call[c].phase = "idle"
  /\ IF t.check = "oneway"
     THEN /\ oneway' = [oneway EXCEPT ![c] = "queued"]
          /\ cl' = [cl EXCEPT ![c].step = @ + 1, ![c].left = 1]
          /\ UNCHANGED call
     ELSE call' = [call EXCEPT ![c] = Request(t.op)] /\ UNCHANGED <<oneway, cl>>
  /\ disturbed' = IF t.op = "set_myColor" \/ t.check = "first"
                  THEN [disturbed EXCEPT ![c] = {}] ELSE disturbed
  /\ UNCHANGED unchangedByClient

(* An unrelated client of the servant calls any operation.                 *)
Send_Other(c) ==
  /\ cl[c].pc = "test" /\ kind[c] = "other" /\ call[c].phase = "idle"
  /\ \/ \E op \in Interface : /\ cl[c].left > 0
                              /\ call' = [call EXCEPT ![c] = Request(op)]
                              /\ cl' = [cl EXCEPT ![c].left = @ - 1]
     \/ /\ cl' = [cl EXCEPT ![c].pc = "done", ![c].exit = "success"]
        /\ UNCHANGED call
  /\ UNCHANGED <<unchangedByClient, oneway, disturbed>>

(* report.cc: output folds the result of a check into passed; end_report   *)
(* prints passed once more.                                                *)
output(s, t, pass) ==
  [s EXCEPT !.lines = @ + t.lines,
            !.failed = IF pass THEN @ ELSE @ \cup {t.op}]

end_report(s) ==
  [s EXCEPT !.pc = "done", !.exit = "success",
            !.verdict = IF s.failed = {} THEN "passed" ELSE "failed"]

(* The test after the current one, or the end of the program.              *)
Advance(s, prog) ==
  IF s.step = Len(prog) THEN end_report(s)
  ELSE [s EXCEPT !.step = @ + 1, !.left = prog[s.step + 1].calls]

(* Mutants: the handlers of main report the end of the tests.              *)
Uncaught_M1(c) == end_report(cl[c])

(* An exception that test does not catch ends the program: the handlers of *)
(* main print and return 0, all_functions_client.cc has none.              *)
Uncaught(c) ==
  [cl[c] EXCEPT !.pc = "done",
                !.exit = IF kind[c] = "functions" THEN "abort" ELSE "success"]

(* The info that the client expects in my_exception.                       *)
ExpectedInfo == 2485

Good(s, t, r) ==
  CASE t.check \in {"echo", "all"} -> r.kind = "value" /\ r.val = "arg"
    [] t.check = "green"   -> r.kind = "value" /\ r.val = "Green"
    [] t.check = "next"    -> r.kind = "value" /\ r.num = s.first + 1
    [] t.check = "one"     -> r.kind = "value" /\ r.num = 1
    [] t.check = "two"     -> r.kind = "value" /\ r.num = 2
    [] t.check = "user"    -> r.num = ExpectedInfo
    [] t.check = "unknown" -> r.kind = "system" /\ r.val = "UNKNOWN"
    [] OTHER               -> TRUE

(* The catch clauses of the exception tests.                               *)
Caught_By(t, r) ==
  \/ r.kind = "value"
  \/ t.check = "user" /\ r.kind = "user"
  \/ t.check = "unknown" /\ r.kind = "system" /\ r.val = "UNKNOWN"

(* testException that returns prints nothing at all.                       *)
Printed(t, r) == ~(t.check = "user" /\ r.kind = "value")

(* What a client does with the reply r to a call of test t.                *)
After(s, t, r, prog) ==
  IF t.check \in {"one", "two"}
  THEN IF t.check = "one" /\ Good(s, t, r) THEN Advance(s, prog)
       ELSE end_report(output(s, t, Good(s, t, r)))
  ELSE IF s.left > 1 /\ (Good(s, t, r) \/ t.check = "all")
  THEN [output(s, [t EXCEPT !.lines = 0], Good(s, t, r)) EXCEPT !.left = @ - 1]
  ELSE IF t.lines > 0 /\ Printed(t, r)
       THEN Advance(output(s, t, Good(s, t, r)), prog)
       ELSE Advance([s EXCEPT !.first = IF t.check = "first" THEN r.num
                                                             ELSE @], prog)

(* The tests begin with the first of the program; a client that is built   *)
(* with no section at all has ended them.                                  *)
Narrowed(c, r) ==
  IF r.val = "TRUE"
  THEN Advance([cl[c] EXCEPT !.pc = "test", !.step = 0,
                             !.lines = IF kind[c] = "static" THEN 1 ELSE 0],
               Program(c))
  ELSE [cl[c] EXCEPT !.pc = "done", !.exit = "failure"]

Receive(c) ==
  LET r == call[c].rep
      prog == Program(c)
      t == prog[cl[c].step]
  IN
  /\ call[c].phase = "replied"
  /\ call' = [call EXCEPT ![c] = Idle]
  /\ cl' = [cl EXCEPT ![c] =
              CASE kind[c] = "other"  -> cl[c]
                [] cl[c].pc = "narrow" ->
                     IF r.kind = "value" THEN Narrowed(c, r) ELSE Uncaught(c)
                [] OTHER -> IF Caught_By(t, r) THEN After(cl[c], t, r, prog)
                                               ELSE Uncaught(c)]
  /\ UNCHANGED <<unchangedByClient, oneway, disturbed>>

(* COMM_FAILURE: the request or its reply is lost with the connection, or  *)
(* the server is gone.                                                     *)
Break(c) ==
  /\ \/ call[c].phase \in {"sent", "replied"} /\ c \in MayBreak
     \/ call[c].phase \in {"sent", "upcall", "replied"} /\ srv = "dead"
  /\ call' = [call EXCEPT ![c] = Idle]
  /\ cl' = [cl EXCEPT ![c] = Uncaught(c)]
  /\ UNCHANGED <<unchangedByClient, oneway, disturbed>>

Serve(c) == Dispatch(c) \/ Complete(c) \/ Oneway_Begin(c) \/ Oneway_End(c)

Step(c) == Send(c) \/ Send_Other(c) \/ Receive(c)

(* Every client has ended, or the server ended before it could be started. *)
Ended ==
  /\ \A c \in Clients : \/ cl[c].pc = "done"
                        \/ cl[c].pc = "start" /\ srv = "dead"
  /\ UNCHANGED vars

Next ==
  \/ Main \/ Ended
  \/ \E c \in Clients : Serve(c) \/ Start(c) \/ Step(c) \/ Break(c)

(* The server's main goes on, its ORB runs the calls it received, a client *)
(* that runs goes on running, and the connection to a dead server breaks.  *)
Fairness ==
  /\ WF_vars(Activate_Object \/ Print_IOR \/ Remove_Ref \/ Run)
  /\ \A c \in Clients : /\ WF_vars(Serve(c)) /\ WF_vars(Step(c))
                         /\ WF_vars(srv = "dead" /\ Break(c))

Spec == Init /\ [][Next]_vars /\ Fairness

-----------------------------------------------------------------------------
(* Properties.                                                             *)

ClientState ==
  [pc : {"start", "narrow", "test", "done"}, step : 0 .. 40, left : Nat,
   first : Nat, failed : SUBSET (Interface \cup {"oneway_checker"}),
   lines : Nat, verdict : {"none", "passed", "failed"},
   exit : {"running", "success", "failure", "abort"}]

(* Type invariant: the state of the server, of the servant, of the calls   *)
(* and of the clients.                                                     *)
TypeOK ==
  /\ server \in Servers /\ kind \in [Clients -> KindsOf(server)]
  /\ srv \in {"created", "activated", "published", "released", "running",
              "dead"}
  /\ rc \in 0 .. 2 /\ tmp \in Nat /\ Oneway_Value \in 0 .. 2
  /\ tmpColor \in {"Green", "Blue"}
  /\ oneway \in [Clients -> {"none", "queued", "delay", "done"}]
  /\ \A c \in Clients : /\ cl[c] \in ClientState
                         /\ call[c].phase \in {"idle", "sent", "upcall",
                                               "replied"}
                         /\ disturbed[c] \subseteq {"Counter", "set_myColor"}

(* The number of lines that the first n checks of a program print: a check *)
(* prints two lines at most.                                               *)
Lines(prog, n) ==
  Cardinality({l \in (1 .. n) \X {1, 2} : l[2] <= prog[l[1]].lines})

Printed_By(c) ==
  CASE kind[c] = "static" -> 1 + Lines(Program(c), Len(Program(c)))
    [] kind[c] = "dyn"    -> Lines(Program(c), Len(Program(c)))
    [] OTHER              -> 1

(* The servers that answer an operation they do not know as if it had been *)
(* executed, when it is void.                                              *)
DropsException == server.name \in {"dyn_TAO", "mt_TAO"}

(* The line END TESTS says PASSED only when every check of the client was  *)
(* printed and none failed.  It says FAILED when some check failed, and    *)
(* then one line at most is missing: the one of testException, which is    *)
(* not printed when the call returns, as it does against a dynamic server  *)
(* on TAO; the test of the unknown exception fails there.  No other        *)
(* exception, lost connection or dead server skips a check and ends in a   *)
(* verdict.                                                                *)
VerdictComplete ==
  \A c \in Clients : cl[c].verdict # "none" =>
    /\ (cl[c].verdict = "passed") <=> (cl[c].failed = {})
    /\ \/ cl[c].lines = Printed_By(c)
       \/ /\ DropsException /\ "testUnknownException" \in cl[c].failed
          /\ cl[c].lines = Printed_By(c) - 1

(* A check of all_types_client fails only if it is the one of the user     *)
(* exception, against all_types_server; or the one of the unknown          *)
(* exception, against a dynamic server on TAO, whose reply has none; or    *)
(* reads an attribute that another client of the servant updated since the *)
(* first of the two calls of the check.                                    *)
FailuresExplained ==
  [][\A c \in Clients :
       LET t == all_types_test[c][cl[c].step]
       IN (kind[c] = "static" /\ cl'[c].failed # cl[c].failed) =>
            \/ t.check = "user" /\ server.name = "static"
            \/ t.check = "unknown" /\ DropsException
            \/ t.check = "green" /\ "set_myColor" \in disturbed[c]
            \/ t.check = "next" /\ "Counter" \in disturbed[c]]_vars

(* An upcall runs only on a servant that the object adapter still refers   *)
(* to: the reference that main gives up after it printed the IOR is never  *)
(* the last one.                                                           *)
ServedAlive ==
  \A c \in Clients : call[c].phase = "upcall" => rc > 0

(* Where upcalls run on one thread, the attribute Counter never goes back: *)
(* the load and the store of ++tmp are not separated by another store.     *)
CounterNeverBack == [][server.threads = 1 => tmp' >= tmp]_vars

(* all_functions_client expects to see the oneway call in the middle of    *)
(* its delay: against a server with one thread it never passes.            *)
OnewayNeedsThreads ==
  (server.name = "functions" /\ server.threads = 1) =>
    \A c \in Clients : cl[c].verdict # "passed"

(* A client that has been started ends, also when its requests arrive      *)
(* before the POA manager is active, when its connection breaks and when   *)
(* the server dies.                                                        *)
ClientsEnd ==
  \A c \in Clients : cl[c].pc # "start" ~> cl[c].pc = "done"
=============================================================================
