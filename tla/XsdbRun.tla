-------------------------------- MODULE XsdbRun --------------------------------
(***************************************************************************)
(* The JTAG wrapper ps/scripts/run_xsdb_checked.py, run again and again by *)
(* the benchmark: it starts hw_server, waits until its port answers, runs  *)
(* xsdb, reads its output for error signatures, and stops both.  The       *)
(* children are processes of their own: a server opens the port some time  *)
(* after it was started and, where terminating is only a request (any      *)
(* system but Windows), keeps it open for a while after it was told to     *)
(* stop.  Only one server can have the port.                               *)
(***************************************************************************)
EXTENDS Naturals

CONSTANT
    Runs        \* bound: how often the wrapper is run

VARIABLES
    windows,    \* os.name == "nt", with DONDER_CLEAN_JTAG unset
    run,        \* the current run, or the last one
    pc,         \* what the wrapper is at; "idle" between runs
    sawError,   \* saw_error
    pipe,       \* an error line is in xsdb's pipe, not read yet
    server,     \* what has become of the hw_server of each run
    xsdb,       \* what has become of the xsdb of each run
    talks,      \* the run whose hw_server that xsdb is connected to, or 0
    bad,        \* that xsdb has printed an error line
    exit,       \* what that xsdb exited with
    result      \* how each run ended

wrapper  == <<windows, run, pc, sawError, result>>
children == <<pipe, server, xsdb, talks, bad, exit>>
vars == <<wrapper, children>>

RunIds == 1 .. Runs

Holds(s) == server[s] \in {"listening", "dying"}
PortOpen == \E s \in RunIds : Holds(s)

Init ==
    /\ windows \in BOOLEAN
    /\ run = 0
    /\ pc = "idle"
    /\ sawError = FALSE
    /\ pipe = FALSE
    /\ server = [r \in RunIds |-> "none"]
    /\ xsdb = [r \in RunIds |-> "none"]
    /\ talks = [r \in RunIds |-> 0]
    /\ bad = [r \in RunIds |-> FALSE]
    /\ exit = [r \in RunIds |-> 0]
    /\ result = [r \in RunIds |-> "none"]

----------------------------------------------------------------------------
(* The children.                                                           *)

ServerListens(s) ==
    /\ server[s] = "starting"
    /\ server' = [server EXCEPT ![s] = IF PortOpen THEN "gone" ELSE "listening"]
    /\ UNCHANGED <<wrapper, pipe, xsdb, talks, bad, exit>>

ServerDies(s) ==
    /\ server[s] = "dying"
    /\ server' = [server EXCEPT ![s] = "gone"]
    /\ UNCHANGED <<wrapper, pipe, xsdb, talks, bad, exit>>

XsdbDies(r) ==
    /\ xsdb[r] = "dying"
    /\ xsdb' = [xsdb EXCEPT ![r] = "gone"]
    /\ UNCHANGED <<wrapper, pipe, server, talks, bad, exit>>

\* connect -url: whoever has the port.
XsdbConnects ==
    /\ xsdb[run] = "running"
    /\ talks[run] = 0
    /\ \E s \in RunIds : Holds(s) /\ talks' = [talks EXCEPT ![run] = s]
    /\ UNCHANGED <<wrapper, pipe, server, xsdb, bad, exit>>

XsdbPrintsError ==
    /\ xsdb[run] = "running"
    /\ bad' = [bad EXCEPT ![run] = TRUE]
    /\ pipe' = TRUE
    /\ UNCHANGED <<wrapper, server, xsdb, talks, exit>>

\* Without a server the script cannot have succeeded.
XsdbExits ==
    /\ xsdb[run] = "running"
    /\ xsdb' = [xsdb EXCEPT ![run] = "gone"]
    /\ \E status \in {0, 1} :
          /\ talks[run] = 0 => status # 0
          /\ exit' = [exit EXCEPT ![run] = status]
    /\ UNCHANGED <<wrapper, pipe, server, talks, bad>>

----------------------------------------------------------------------------
(* The wrapper.                                                            *)

\* terminate_process_tree: a process that was not started or has ended is left
\* alone; a server that has not got the port yet is as good as gone.
Terminated(state) ==
    IF state \in {"none", "gone"} THEN state
    ELSE IF windows \/ state = "starting" THEN "gone" ELSE "dying"

\* kill_stale_jtag_processes
Killed(state) ==
    IF windows /\ state # "none" THEN "gone" ELSE state

Return(how) == result' = [result EXCEPT ![run] = how]

\* hw_server is started when it is found on the path.
StartRun ==
    /\ pc = "idle"
    /\ run < Runs
    /\ run' = run + 1
    /\ sawError' = FALSE
    /\ pipe' = FALSE
    /\ xsdb' = [r \in RunIds |-> Killed(xsdb[r])]
    /\ LET others == [r \in RunIds |-> Killed(server[r])]
       IN  \/ pc' = "probe" /\ server' = [others EXCEPT ![run'] = "starting"]
           \/ pc' = "try" /\ server' = others
    /\ UNCHANGED <<windows, talks, bad, exit, result>>

\* wait_for_port: an answer, whoever gives it ...
PortAnswers ==
    /\ pc = "probe"
    /\ PortOpen
    /\ pc' = "try"
    /\ UNCHANGED <<windows, run, sawError, result, children>>

\* ... or a return before the try statement whose finally clause cleans up,
ReturnEarly(how) ==
    /\ pc = "probe"
    /\ Return(how)
    /\ pc' = "idle"
    /\ UNCHANGED <<windows, run, sawError, children>>

\* Mutant: given up when the port answers.
PortTimesOutInverted == PortOpen /\ ReturnEarly("no port")

\* after ten seconds without an answer ...
PortTimesOut == ~PortOpen /\ ReturnEarly("no port")

\* ... or by an interrupt.
InterruptProbe == ReturnEarly("interrupted early")

StartXsdb ==
    /\ pc = "try"
    /\ xsdb' = [xsdb EXCEPT ![run] = "running"]
    /\ pc' = "read"
    /\ UNCHANGED <<windows, run, sawError, result, pipe, server, talks, bad, exit>>

XsdbNotFound ==
    /\ pc = "try"
    /\ Return("exception")
    /\ pc' = "finally"
    /\ UNCHANGED <<windows, run, sawError, children>>

ReadError ==
    /\ pc = "read"
    /\ pipe
    /\ pipe' = FALSE
    /\ sawError' = TRUE
    /\ UNCHANGED <<windows, run, pc, result, server, xsdb, talks, bad, exit>>

\* KeyboardInterrupt in the loop: xsdb is terminated at once.
InterruptRead ==
    /\ pc = "read"
    /\ xsdb' = [xsdb EXCEPT ![run] = Terminated(xsdb[run])]
    /\ Return("interrupted")
    /\ pc' = "finally"
    /\ UNCHANGED <<windows, run, sawError, pipe, server, talks, bad, exit>>

\* Mutant: the exit status alone decides.
StatusOnly ==
    /\ pc = "read"
    /\ xsdb[run] = "gone"
    /\ Return(IF exit[run] # 0 THEN "failed" ELSE "succeeded")
    /\ pc' = "finally"
    /\ UNCHANGED <<windows, run, sawError, children>>

\* The loop ends with the pipe's end: everything printed has been read.
EndOfOutput ==
    /\ pc = "read"
    /\ xsdb[run] = "gone"
    /\ ~pipe
    /\ Return(IF exit[run] # 0 \/ sawError THEN "failed" ELSE "succeeded")
    /\ pc' = "finally"
    /\ UNCHANGED <<windows, run, sawError, children>>

CleanUp ==
    /\ pc = "finally"
    /\ xsdb' = [xsdb EXCEPT ![run] = Terminated(xsdb[run])]
    /\ server' = [server EXCEPT ![run] = Terminated(server[run])]
    /\ pc' = "idle"
    /\ UNCHANGED <<windows, run, sawError, result, pipe, talks, bad, exit>>

Wrapper ==
    \/ StartRun \/ PortAnswers \/ PortTimesOut \/ StartXsdb \/ XsdbNotFound
    \/ ReadError \/ EndOfOutput \/ CleanUp

Interrupt == InterruptProbe \/ InterruptRead

Children ==
    \/ \E r \in RunIds : ServerListens(r) \/ ServerDies(r) \/ XsdbDies(r)
    \/ run > 0 /\ (XsdbConnects \/ XsdbPrintsError \/ XsdbExits)

AllRun == pc = "idle" /\ run = Runs /\ UNCHANGED vars

Next == Wrapper \/ Interrupt \/ Children \/ AllRun

\* It reads what an xsdb prints that has not ended, without a limit.
WaitsForXsdb == pc = "read" /\ xsdb[run] = "running"

\* The wrapper runs, its deadline among its steps. Nobody has to interrupt it,
\* and xsdb need not end.
Fairness == WF_vars(Wrapper)

Spec == Init /\ [][Next]_vars /\ Fairness

----------------------------------------------------------------------------
(* Properties.                                                             *)

\* Every variable stays in its type, and one server has the port.
TypeOK ==
    /\ windows \in BOOLEAN
    /\ run \in 0 .. Runs
    /\ pc \in {"idle", "probe", "try", "read", "finally"}
    /\ sawError \in BOOLEAN
    /\ pipe \in BOOLEAN
    /\ server \in [RunIds -> {"none", "starting", "listening", "dying", "gone"}]
    /\ xsdb \in [RunIds -> {"none", "running", "dying", "gone"}]
    /\ talks \in [RunIds -> 0 .. Runs]
    /\ bad \in [RunIds -> BOOLEAN]
    /\ exit \in [RunIds -> {0, 1}]
    /\ result \in [RunIds -> {"none", "no port", "interrupted early",
                              "exception", "interrupted", "failed",
                              "succeeded"}]
    /\ \A s, t \in RunIds : Holds(s) /\ Holds(t) => s = t

\* A run that reports success had an xsdb that was connected, exited with
\* status 0 and printed no error line at any time, "fails if XSDB output
\* contains common error signatures" (docs/developer-notes.md:134).
SuccessMeansClean ==
    \A r \in RunIds : result[r] = "succeeded" =>
        talks[r] # 0 /\ exit[r] = 0 /\ ~bad[r]

\* Between runs no child is left running, except the server of a run that
\* returned while it still waited for the port, before its try statement.
LeavesNothing ==
    pc = "idle" => \A r \in RunIds :
        /\ xsdb[r] # "running"
        /\ server[r] \in {"starting", "listening"} =>
               result[r] \in {"no port", "interrupted early"}

\* On Windows, where stale processes are killed first, xsdb never talks to a
\* server another run has left.
TalksToOwnServer ==
    windows => \A r \in RunIds : talks[r] \in {0, r}

\* Success means a clean xsdb of the run's own, and a run leaves no child but
\* the server it returned early from.
JtagRunIsClean == TypeOK /\ SuccessMeansClean /\ LeavesNothing /\ TalksToOwnServer
================================================================================
