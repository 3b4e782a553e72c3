---------------------------- MODULE BenchToolsProofs ----------------------------
(***************************************************************************)
(* Proofs about BenchTools: for any command line, board, number of runs of *)
(* the JTAG wrapper, ports and measured cells,                             *)
(*   - however often the wrapper is run, and whenever its children print,  *)
(*     exit, listen or die, a run that reports success was clean;          *)
(*   - a tool reads the port it was told to or the likeliest that opens;   *)
(*   - the verdicts on a cell agree with one another;                      *)
(*   - a row of the benchmark is of its own cell, although the board, the  *)
(*     UART, the reader thread and the main thread each go at their own    *)
(*     pace and lines of the run before are still on their way.            *)
(***************************************************************************)
EXTENDS BenchTools, SequenceTheorems, FiniteSetTheorems, WellFoundedInduction, TLAPS

\* A step of the tools is a step, or a rest, of each of them.
LEMMA StepsOfTools == [ToolsNext]_all => [Next]_vars /\ [Xsdb!Next]_jtagVars /\ [Serial!Next]_portVars
<1> SUFFICES ASSUME [ToolsNext]_all PROVE [Next]_vars /\ [Xsdb!Next]_jtagVars /\ [Serial!Next]_portVars
    OBVIOUS
<1>1. CASE CellsStep
    BY <1>1, Zenon DEF CellsStep
<1>2. CASE JtagStep
    BY <1>2, Zenon DEF JtagStep
<1>3. CASE PortStep
    BY <1>3, Zenon DEF PortStep
<1>4. CASE VerdictStep
    BY <1>4, Zenon DEF VerdictStep
<1>5. CASE UNCHANGED all
    <2>1. UNCHANGED vars /\ UNCHANGED jtagVars /\ UNCHANGED portVars
        BY <1>5 DEF all
    <2> QED
        BY <2>1, Zenon
<1> QED
    BY <1>1, <1>2, <1>3, <1>4, <1>5, Zenon DEF ToolsNext

\* The instances have the library's cardinality.
LEMMA SameCardinality == \A S : Verdict!Cardinality(S) = Cardinality(S) /\ Serial!Cardinality(S) = Cardinality(S)
    BY DEF Verdict!Cardinality, Serial!Cardinality, Cardinality

-----------------------------------------------------------------------------
(* XsdbRun.                                                                *)

\* The parts of Xsdb!TypeOK: indices, names of states, truth values, one port.
Indices == run \in 0 .. Runs /\ talks \in [Xsdb!RunIds -> 0 .. Runs] /\ exit \in [Xsdb!RunIds -> {0, 1}]

States ==
    /\ step \in {"idle", "probe", "try", "read", "finally"}
    /\ server \in [Xsdb!RunIds -> {"none", "starting", "listening", "dying", "gone"}]
    /\ xsdb \in [Xsdb!RunIds -> {"none", "running", "dying", "gone"}]
    /\ result \in [Xsdb!RunIds -> {"none", "no port", "interrupted early",
                              "exception", "interrupted", "failed",
                              "succeeded"}]

Flags ==
    /\ windows \in BOOLEAN /\ sawError \in BOOLEAN /\ pipe \in BOOLEAN
    /\ bad \in [Xsdb!RunIds -> BOOLEAN]

OnePort == \A s, t \in Xsdb!RunIds : Xsdb!Holds(s) /\ Xsdb!Holds(t) => s = t

\* xsdb only runs while its output is read.
RunsWhileRead == \A r \in Xsdb!RunIds : xsdb[r] = "running" => r = run /\ step = "read"

\* Later runs have not begun.
Later == \A r \in Xsdb!RunIds : r > run =>
            server[r] = "none" /\ xsdb[r] = "none" /\ talks[r] = 0 /\ result[r] = "none"

\* The current run has no result until its output is read or it is given up.
Unfinished ==
    /\ step # "idle" => run \in Xsdb!RunIds
    /\ step \in {"probe", "try", "read"} => result[run] = "none"
    /\ step \in {"probe", "try"} => xsdb[run] = "none" /\ talks[run] = 0

\* Only an xsdb that was started has printed an error.
Bad == \A r \in Xsdb!RunIds : bad[r] => r <= run /\ (r = run => step \notin {"probe", "try"})

\* Nothing that the current xsdb did has been missed.
Noticed ==
    step = "read" =>
        /\ xsdb[run] \in {"running", "gone"}
        /\ xsdb[run] = "gone" /\ exit[run] = 0 => talks[run] # 0
        /\ bad[run] => pipe \/ sawError

\* A server is left only by a run that returned early, and on Windows not
\* beyond the start of the next run.
Servers ==
    \A r \in Xsdb!RunIds :
        /\ server[r] \in {"starting", "listening"} =>
               \/ result[r] \in {"no port", "interrupted early"}
               \/ r = run /\ step # "idle"
        /\ windows /\ server[r] \in {"starting", "listening", "dying"} => r = run

JtagInv ==
    /\ Indices /\ States /\ Flags /\ OnePort
    /\ RunsWhileRead /\ Later /\ Unfinished /\ Bad /\ Noticed /\ Servers
    /\ Xsdb!SuccessMeansClean /\ Xsdb!TalksToOwnServer

-----------------------------------------------------------------------------
LEMMA JtagStarts == Runs \in Nat /\ Xsdb!Init => JtagInv
<1> SUFFICES ASSUME Runs \in Nat, Xsdb!Init PROVE JtagInv
    OBVIOUS
<1>1. Indices
    BY DEF Xsdb!Init, Indices
<1>2. States
    BY DEF Xsdb!Init, States
<1>3. Flags
    BY DEF Xsdb!Init, Flags
<1>4. OnePort /\ RunsWhileRead /\ Later /\ Unfinished
    BY DEF Xsdb!Init, Xsdb!Holds, OnePort, RunsWhileRead, Later, Unfinished
<1>5. Bad /\ Noticed /\ Xsdb!SuccessMeansClean
    BY DEF Xsdb!Init, Bad, Noticed, Xsdb!SuccessMeansClean
<1>6. Servers /\ Xsdb!TalksToOwnServer
    BY DEF Xsdb!Init, Servers, Xsdb!TalksToOwnServer
<1> QED
    BY <1>1, <1>2, <1>3, <1>4, <1>5, <1>6 DEF JtagInv

LEMMA JtagSteps == Runs \in Nat /\ JtagInv /\ [Xsdb!Next]_jtagVars => JtagInv'
<1> SUFFICES ASSUME Runs \in Nat, JtagInv, [Xsdb!Next]_jtagVars PROVE JtagInv'
    OBVIOUS
<1> USE DEF JtagInv, Xsdb!RunIds, Xsdb!wrapper, Xsdb!children
<1>0. \A r \in Xsdb!RunIds : r > run => r # run
    BY DEF Indices
<1>1. ASSUME Xsdb!StartRun PROVE JtagInv'
    <2>1. Indices'
        BY <1>1 DEF Indices, Xsdb!StartRun, Xsdb!Killed
    <2>2. States'
        BY <1>1 DEF States, Indices, Xsdb!StartRun, Xsdb!Killed
    <2>3. Flags'
        BY <1>1 DEF Flags, Indices, Xsdb!StartRun, Xsdb!Killed
    <2>4. OnePort'
        BY <1>1 DEF Indices, States, OnePort, Later, Xsdb!Holds, Xsdb!StartRun, Xsdb!Killed
    <2>5. RunsWhileRead'
        BY <1>1 DEF Indices, States, RunsWhileRead, Unfinished, Xsdb!StartRun, Xsdb!Killed
    <2>6. Later'
        <3>1. run' = run + 1 /\ result' = result /\ talks' = talks
            BY <1>1 DEF Xsdb!StartRun
        <3>2. ASSUME NEW r \in Xsdb!RunIds, r > run + 1 PROVE r > run /\ r # run + 1
            BY <3>2 DEF Indices
        <3>3. ASSUME NEW r \in Xsdb!RunIds, r # run + 1
              PROVE  xsdb'[r] = Xsdb!Killed(xsdb[r]) /\ server'[r] = Xsdb!Killed(server[r])
            BY <1>1, <3>1, <3>3 DEF Xsdb!StartRun
        <3> QED
            BY <3>1, <3>2, <3>3 DEF Later, Xsdb!Killed
    <2>7. Unfinished'
        <3>1. run' = run + 1 /\ run + 1 \in Xsdb!RunIds /\ run + 1 > run /\ step' \in {"probe", "try"}
            BY <1>1 DEF Xsdb!StartRun, Indices
        <3>2. talks' = talks /\ result' = result /\ xsdb'[run + 1] = Xsdb!Killed(xsdb[run + 1])
            BY <1>1, <3>1 DEF Xsdb!StartRun
        <3> QED
            BY <3>1, <3>2 DEF Later, Unfinished, Xsdb!Killed
    <2>8. Bad'
        BY <1>1 DEF Indices, Flags, Bad, RunsWhileRead, Unfinished, Xsdb!StartRun, Xsdb!Killed
    <2>9. Noticed'
        BY <1>1 DEF Indices, States, Flags, RunsWhileRead, Unfinished, Bad, Noticed, Xsdb!StartRun, Xsdb!Killed
    <2>10. Servers'
        BY <1>1 DEF Indices, States, Unfinished, Servers, Xsdb!StartRun, Xsdb!Killed
    <2>11. Xsdb!SuccessMeansClean'
        BY <1>1 DEF Indices, States, RunsWhileRead, Later, Unfinished, Noticed, Xsdb!SuccessMeansClean,
           Xsdb!StartRun, Xsdb!Killed
    <2>12. Xsdb!TalksToOwnServer'
        BY <1>1 DEF Indices, States, RunsWhileRead, Unfinished, Servers, Xsdb!TalksToOwnServer, Xsdb!Holds,
           Xsdb!StartRun, Xsdb!Killed
    <2> QED
        BY <2>1, <2>2, <2>3, <2>4, <2>5, <2>6, <2>7, <2>8, <2>9, <2>10, <2>11, <2>12
<1>2. ASSUME Xsdb!PortAnswers PROVE JtagInv'
    <2>1. Indices'
        BY <1>2 DEF Indices, Xsdb!PortAnswers
    <2>2. States'
        BY <1>2 DEF States, Indices, Xsdb!PortAnswers
    <2>3. Flags'
        BY <1>2 DEF Flags, Indices, Xsdb!PortAnswers
    <2>4. OnePort'
        BY <1>2 DEF Indices, States, OnePort, Later, Xsdb!Holds, Xsdb!PortAnswers
    <2>5. RunsWhileRead'
        BY <1>2 DEF Indices, States, RunsWhileRead, Unfinished, Xsdb!PortAnswers
    <2>6. Later'
        BY <1>2 DEF Indices, States, Later, Unfinished, Xsdb!PortAnswers
    <2>7. Unfinished'
        BY <1>2 DEF Indices, States, RunsWhileRead, Later, Unfinished, Xsdb!PortAnswers
    <2>8. Bad'
        BY <1>2 DEF Indices, Flags, Bad, RunsWhileRead, Unfinished, Xsdb!PortAnswers
    <2>9. Noticed'
        BY <1>2 DEF Indices, States, Flags, RunsWhileRead, Unfinished, Bad, Noticed, Xsdb!PortAnswers
    <2>10. Servers'
        BY <1>2 DEF Indices, States, Unfinished, Servers, Xsdb!PortAnswers
    <2>11. Xsdb!SuccessMeansClean'
        BY <1>2 DEF Indices, States, RunsWhileRead, Later, Unfinished, Noticed, Xsdb!SuccessMeansClean,
           Xsdb!PortAnswers
    <2>12. Xsdb!TalksToOwnServer'
        BY <1>2 DEF Indices, States, RunsWhileRead, Unfinished, Servers, Xsdb!TalksToOwnServer, Xsdb!Holds,
           Xsdb!PortAnswers
    <2> QED
        BY <2>1, <2>2, <2>3, <2>4, <2>5, <2>6, <2>7, <2>8, <2>9, <2>10, <2>11, <2>12
<1>3. ASSUME NEW how \in {"no port", "interrupted early"}, Xsdb!ReturnEarly(how) PROVE JtagInv'
    <2>1. Indices'
        BY <1>3 DEF Indices, Xsdb!ReturnEarly, Xsdb!Return
    <2>2. States'
        BY <1>3 DEF States, Indices, Xsdb!ReturnEarly, Xsdb!Return
    <2>3. Flags'
        BY <1>3 DEF Flags, Indices, Xsdb!ReturnEarly, Xsdb!Return
    <2>4. OnePort'
        BY <1>3 DEF Indices, States, OnePort, Later, Xsdb!Holds, Xsdb!ReturnEarly, Xsdb!Return
    <2>5. RunsWhileRead'
        BY <1>3 DEF Indices, States, RunsWhileRead, Unfinished, Xsdb!ReturnEarly, Xsdb!Return
    <2>6. Later'
        <3>1. ASSUME NEW r \in Xsdb!RunIds, r # run
              PROVE  server'[r] = server[r] /\ xsdb'[r] = xsdb[r] /\ talks'[r] = talks[r] /\ result'[r] = result[r]
            BY <1>3, <3>1 DEF States, Xsdb!ReturnEarly, Xsdb!Return
        <3>2. run' = run
            BY <1>3 DEF Xsdb!ReturnEarly, Xsdb!Return
        <3> QED
            BY <1>0, <3>1, <3>2 DEF Later
    <2>7. Unfinished'
        BY <1>3 DEF Indices, States, RunsWhileRead, Later, Unfinished, Xsdb!ReturnEarly, Xsdb!Return
    <2>8. Bad'
        BY <1>3 DEF Indices, Flags, Bad, RunsWhileRead, Unfinished, Xsdb!ReturnEarly, Xsdb!Return
    <2>9. Noticed'
        BY <1>3 DEF Indices, States, Flags, RunsWhileRead, Unfinished, Bad, Noticed, Xsdb!ReturnEarly, Xsdb!Return
    <2>10. Servers'
        BY <1>3 DEF Indices, States, Unfinished, Servers, Xsdb!ReturnEarly, Xsdb!Return
    <2>11. Xsdb!SuccessMeansClean'
        BY <1>3 DEF Indices, States, RunsWhileRead, Later, Unfinished, Noticed, Xsdb!SuccessMeansClean,
           Xsdb!ReturnEarly, Xsdb!Return
    <2>12. Xsdb!TalksToOwnServer'
        BY <1>3 DEF Indices, States, RunsWhileRead, Unfinished, Servers, Xsdb!TalksToOwnServer, Xsdb!Holds,
           Xsdb!ReturnEarly, Xsdb!Return
    <2> QED
        BY <2>1, <2>2, <2>3, <2>4, <2>5, <2>6, <2>7, <2>8, <2>9, <2>10, <2>11, <2>12
<1>4. ASSUME Xsdb!StartXsdb PROVE JtagInv'
    <2>1. Indices'
        BY <1>4 DEF Indices, Xsdb!StartXsdb
    <2>2. States'
        BY <1>4 DEF States, Indices, Xsdb!StartXsdb
    <2>3. Flags'
        BY <1>4 DEF Flags, Indices, Xsdb!StartXsdb
    <2>4. OnePort'
        BY <1>4 DEF Indices, States, OnePort, Later, Xsdb!Holds, Xsdb!StartXsdb
    <2>5. RunsWhileRead'
        BY <1>4 DEF Indices, States, RunsWhileRead, Unfinished, Xsdb!StartXsdb
    <2>6. Later'
        <3>1. ASSUME NEW r \in Xsdb!RunIds, r # run
              PROVE  server'[r] = server[r] /\ xsdb'[r] = xsdb[r] /\ talks'[r] = talks[r] /\ result'[r] = result[r]
            BY <1>4, <3>1 DEF States, Xsdb!StartXsdb
        <3>2. run' = run
            BY <1>4 DEF Xsdb!StartXsdb
        <3> QED
            BY <1>0, <3>1, <3>2 DEF Later
    <2>7. Unfinished'
        BY <1>4 DEF Indices, States, RunsWhileRead, Later, Unfinished, Xsdb!StartXsdb
    <2>8. Bad'
        BY <1>4 DEF Indices, Flags, Bad, RunsWhileRead, Unfinished, Xsdb!StartXsdb
    <2>9. Noticed'
        BY <1>4 DEF Indices, States, Flags, RunsWhileRead, Unfinished, Bad, Noticed, Xsdb!StartXsdb
    <2>10. Servers'
        BY <1>4 DEF Indices, States, Unfinished, Servers, Xsdb!StartXsdb
    <2>11. Xsdb!SuccessMeansClean'
        BY <1>4 DEF Indices, States, RunsWhileRead, Later, Unfinished, Noticed, Xsdb!SuccessMeansClean, Xsdb!StartXsdb
    <2>12. Xsdb!TalksToOwnServer'
        BY <1>4 DEF Indices, States, RunsWhileRead, Unfinished, Servers, Xsdb!TalksToOwnServer, Xsdb!Holds,
           Xsdb!StartXsdb
    <2> QED
        BY <2>1, <2>2, <2>3, <2>4, <2>5, <2>6, <2>7, <2>8, <2>9, <2>10, <2>11, <2>12
<1>5. ASSUME Xsdb!XsdbNotFound PROVE JtagInv'
    <2>1. Indices'
        BY <1>5 DEF Indices, Xsdb!XsdbNotFound, Xsdb!Return
    <2>2. States'
        BY <1>5 DEF States, Indices, Xsdb!XsdbNotFound, Xsdb!Return
    <2>3. Flags'
        BY <1>5 DEF Flags, Indices, Xsdb!XsdbNotFound, Xsdb!Return
    <2>4. OnePort'
        BY <1>5 DEF Indices, States, OnePort, Later, Xsdb!Holds, Xsdb!XsdbNotFound, Xsdb!Return
    <2>5. RunsWhileRead'
        BY <1>5 DEF Indices, States, RunsWhileRead, Unfinished, Xsdb!XsdbNotFound, Xsdb!Return
    <2>6. Later'
        <3>1. ASSUME NEW r \in Xsdb!RunIds, r # run
              PROVE  server'[r] = server[r] /\ xsdb'[r] = xsdb[r] /\ talks'[r] = talks[r] /\ result'[r] = result[r]
            BY <1>5, <3>1 DEF States, Xsdb!XsdbNotFound, Xsdb!Return
        <3>2. run' = run
            BY <1>5 DEF Xsdb!XsdbNotFound, Xsdb!Return
        <3> QED
            BY <1>0, <3>1, <3>2 DEF Later
    <2>7. Unfinished'
        BY <1>5 DEF Indices, States, RunsWhileRead, Later, Unfinished, Xsdb!XsdbNotFound, Xsdb!Return
    <2>8. Bad'
        BY <1>5 DEF Indices, Flags, Bad, RunsWhileRead, Unfinished, Xsdb!XsdbNotFound, Xsdb!Return
    <2>9. Noticed'
        BY <1>5 DEF Indices, States, Flags, RunsWhileRead, Unfinished, Bad, Noticed, Xsdb!XsdbNotFound, Xsdb!Return
    <2>10. Servers'
        BY <1>5 DEF Indices, States, Unfinished, Servers, Xsdb!XsdbNotFound, Xsdb!Return
    <2>11. Xsdb!SuccessMeansClean'
        BY <1>5 DEF Indices, States, RunsWhileRead, Later, Unfinished, Noticed, Xsdb!SuccessMeansClean,
           Xsdb!XsdbNotFound, Xsdb!Return
    <2>12. Xsdb!TalksToOwnServer'
        BY <1>5 DEF Indices, States, RunsWhileRead, Unfinished, Servers, Xsdb!TalksToOwnServer, Xsdb!Holds,
           Xsdb!XsdbNotFound, Xsdb!Return
    <2> QED
        BY <2>1, <2>2, <2>3, <2>4, <2>5, <2>6, <2>7, <2>8, <2>9, <2>10, <2>11, <2>12
<1>6. ASSUME Xsdb!ReadError PROVE JtagInv'
    <2>1. Indices'
        BY <1>6 DEF Indices, Xsdb!ReadError
    <2>2. States'
        BY <1>6 DEF States, Indices, Xsdb!ReadError
    <2>3. Flags'
        BY <1>6 DEF Flags, Indices, Xsdb!ReadError
    <2>4. OnePort'
        BY <1>6 DEF Indices, States, OnePort, Later, Xsdb!Holds, Xsdb!ReadError
    <2>5. RunsWhileRead'
        BY <1>6 DEF Indices, States, RunsWhileRead, Unfinished, Xsdb!ReadError
    <2>6. Later'
        BY <1>6 DEF Indices, States, Later, Unfinished, Xsdb!ReadError
    <2>7. Unfinished'
        BY <1>6 DEF Indices, States, RunsWhileRead, Later, Unfinished, Xsdb!ReadError
    <2>8. Bad'
        BY <1>6 DEF Indices, Flags, Bad, RunsWhileRead, Unfinished, Xsdb!ReadError
    <2>9. Noticed'
        BY <1>6 DEF Indices, States, Flags, RunsWhileRead, Unfinished, Bad, Noticed, Xsdb!ReadError
    <2>10. Servers'
        BY <1>6 DEF Indices, States, Unfinished, Servers, Xsdb!ReadError
    <2>11. Xsdb!SuccessMeansClean'
        BY <1>6 DEF Indices, States, RunsWhileRead, Later, Unfinished, Noticed, Xsdb!SuccessMeansClean, Xsdb!ReadError
    <2>12. Xsdb!TalksToOwnServer'
        BY <1>6 DEF Indices, States, RunsWhileRead, Unfinished, Servers, Xsdb!TalksToOwnServer, Xsdb!Holds,
           Xsdb!ReadError
    <2> QED
        BY <2>1, <2>2, <2>3, <2>4, <2>5, <2>6, <2>7, <2>8, <2>9, <2>10, <2>11, <2>12
<1>7. ASSUME Xsdb!InterruptRead PROVE JtagInv'
    <2>1. Indices'
        BY <1>7 DEF Indices, Xsdb!InterruptRead, Xsdb!Return, Xsdb!Terminated
    <2>2. States'
        BY <1>7 DEF States, Indices, Xsdb!InterruptRead, Xsdb!Return, Xsdb!Terminated
    <2>3. Flags'
        BY <1>7 DEF Flags, Indices, Xsdb!InterruptRead, Xsdb!Return, Xsdb!Terminated
    <2>4. OnePort'
        BY <1>7 DEF Indices, States, OnePort, Later, Xsdb!Holds, Xsdb!InterruptRead, Xsdb!Return, Xsdb!Terminated
    <2>5. RunsWhileRead'
        BY <1>7 DEF Indices, States, RunsWhileRead, Unfinished, Xsdb!InterruptRead, Xsdb!Return, Xsdb!Terminated
    <2>6. Later'
        <3>1. ASSUME NEW r \in Xsdb!RunIds, r # run
              PROVE  server'[r] = server[r] /\ xsdb'[r] = xsdb[r] /\ talks'[r] = talks[r] /\ result'[r] = result[r]
            BY <1>7, <3>1 DEF States, Xsdb!InterruptRead, Xsdb!Return
        <3>2. run' = run
            BY <1>7 DEF Xsdb!InterruptRead, Xsdb!Return
        <3> QED
            BY <1>0, <3>1, <3>2 DEF Later
    <2>7. Unfinished'
        BY <1>7 DEF Indices, States, RunsWhileRead, Later, Unfinished, Xsdb!InterruptRead, Xsdb!Return,
           Xsdb!Terminated
    <2>8. Bad'
        BY <1>7 DEF Indices, Flags, Bad, RunsWhileRead, Unfinished, Xsdb!InterruptRead, Xsdb!Return, Xsdb!Terminated
    <2>9. Noticed'
        BY <1>7 DEF Indices, States, Flags, RunsWhileRead, Unfinished, Bad, Noticed, Xsdb!InterruptRead,
           Xsdb!Return, Xsdb!Terminated
    <2>10. Servers'
        BY <1>7 DEF Indices, States, Unfinished, Servers, Xsdb!InterruptRead, Xsdb!Return, Xsdb!Terminated
    <2>11. Xsdb!SuccessMeansClean'
        BY <1>7 DEF Indices, States, RunsWhileRead, Later, Unfinished, Noticed, Xsdb!SuccessMeansClean,
           Xsdb!InterruptRead, Xsdb!Return, Xsdb!Terminated
    <2>12. Xsdb!TalksToOwnServer'
        BY <1>7 DEF Indices, States, RunsWhileRead, Unfinished, Servers, Xsdb!TalksToOwnServer, Xsdb!Holds,
           Xsdb!InterruptRead, Xsdb!Return, Xsdb!Terminated
    <2> QED
        BY <2>1, <2>2, <2>3, <2>4, <2>5, <2>6, <2>7, <2>8, <2>9, <2>10, <2>11, <2>12
<1>8. ASSUME Xsdb!EndOfOutput PROVE JtagInv'
    <2>1. Indices'
        BY <1>8 DEF Indices, Xsdb!EndOfOutput, Xsdb!Return
    <2>2. States'
        BY <1>8 DEF States, Indices, Xsdb!EndOfOutput, Xsdb!Return
    <2>3. Flags'
        BY <1>8 DEF Flags, Indices, Xsdb!EndOfOutput, Xsdb!Return
    <2>4. OnePort'
        BY <1>8 DEF Indices, States, OnePort, Later, Xsdb!Holds, Xsdb!EndOfOutput, Xsdb!Return
    <2>5. RunsWhileRead'
        BY <1>8 DEF Indices, States, RunsWhileRead, Unfinished, Xsdb!EndOfOutput, Xsdb!Return
    <2>6. Later'
        BY <1>8 DEF Indices, States, Later, Unfinished, Xsdb!EndOfOutput, Xsdb!Return
    <2>7. Unfinished'
        BY <1>8 DEF Indices, States, RunsWhileRead, Later, Unfinished, Xsdb!EndOfOutput, Xsdb!Return
    <2>8. Bad'
        BY <1>8 DEF Indices, Flags, Bad, RunsWhileRead, Unfinished, Xsdb!EndOfOutput, Xsdb!Return
    <2>9. Noticed'
        BY <1>8 DEF Indices, States, Flags, RunsWhileRead, Unfinished, Bad, Noticed, Xsdb!EndOfOutput, Xsdb!Return
    <2>10. Servers'
        BY <1>8 DEF Indices, States, Unfinished, Servers, Xsdb!EndOfOutput, Xsdb!Return
    <2>11. Xsdb!SuccessMeansClean'
        <3>1. /\ UNCHANGED <<talks, exit, bad>> /\ step = "read" /\ xsdb[run] = "gone" /\ ~pipe
              /\ result' = [result EXCEPT ![run] = IF exit[run] # 0 \/ sawError THEN "failed" ELSE "succeeded"]
            BY <1>8 DEF Xsdb!EndOfOutput, Xsdb!Return
        <3>2. ASSUME NEW r \in Xsdb!RunIds, r # run
              PROVE  result'[r] = "succeeded" => talks[r] # 0 /\ exit[r] = 0 /\ ~bad[r]
            BY <3>1, <3>2 DEF States, Xsdb!SuccessMeansClean
        <3>3. result'[run] = "succeeded" => talks[run] # 0 /\ exit[run] = 0 /\ ~bad[run]
            <4>1. run \in Xsdb!RunIds /\ result'[run] = IF exit[run] # 0 \/ sawError THEN "failed" ELSE "succeeded"
                BY <3>1 DEF States, Unfinished
            <4>2. /\ exit[run] = 0 => talks[run] # 0
                  /\ bad[run] => pipe \/ sawError
                BY <3>1 DEF Noticed
            <4>3. exit[run] # 0 \/ sawError => result'[run] = "failed"
                BY <4>1
            <4> QED
                BY <3>1, <4>2, <4>3
        <3> QED
            BY <3>1, <3>2, <3>3 DEF Xsdb!SuccessMeansClean
    <2>12. Xsdb!TalksToOwnServer'
        BY <1>8 DEF Indices, States, RunsWhileRead, Unfinished, Servers, Xsdb!TalksToOwnServer, Xsdb!Holds,
           Xsdb!EndOfOutput, Xsdb!Return
    <2> QED
        BY <2>1, <2>2, <2>3, <2>4, <2>5, <2>6, <2>7, <2>8, <2>9, <2>10, <2>11, <2>12
<1>9. ASSUME Xsdb!CleanUp PROVE JtagInv'
    <2>1. Indices'
        BY <1>9 DEF Indices, Xsdb!CleanUp, Xsdb!Terminated
    <2>2. States'
        BY <1>9 DEF States, Indices, Xsdb!CleanUp, Xsdb!Terminated
    <2>3. Flags'
        BY <1>9 DEF Flags, Indices, Xsdb!CleanUp, Xsdb!Terminated
    <2>4. OnePort'
        <3>1. ASSUME NEW r \in Xsdb!RunIds, Xsdb!Holds(r)' PROVE Xsdb!Holds(r)
            <4>1. CASE r = run
                <5>1. server'[r] = Xsdb!Terminated(server[r])
                    BY <1>9, <4>1 DEF Xsdb!CleanUp, States
                <5> QED
                    BY <3>1, <5>1 DEF Xsdb!Holds, Xsdb!Terminated, States
            <4>2. CASE r # run
                BY <1>9, <3>1, <4>2 DEF Xsdb!CleanUp, States, Xsdb!Holds
            <4> QED
                BY <4>1, <4>2
        <3> QED
            BY <3>1 DEF OnePort
    <2>5. RunsWhileRead'
        BY <1>9 DEF Indices, States, RunsWhileRead, Unfinished, Xsdb!CleanUp, Xsdb!Terminated
    <2>6. Later'
        BY <1>9 DEF Indices, States, Later, Unfinished, Xsdb!CleanUp, Xsdb!Terminated
    <2>7. Unfinished'
        BY <1>9 DEF Indices, States, RunsWhileRead, Later, Unfinished, Xsdb!CleanUp, Xsdb!Terminated
    <2>8. Bad'
        BY <1>9 DEF Indices, Flags, Bad, RunsWhileRead, Unfinished, Xsdb!CleanUp, Xsdb!Terminated
    <2>9. Noticed'
        BY <1>9 DEF Indices, States, Flags, RunsWhileRead, Unfinished, Bad, Noticed, Xsdb!CleanUp, Xsdb!Terminated
    <2>10. Servers'
        BY <1>9 DEF Indices, States, Unfinished, Servers, Xsdb!CleanUp, Xsdb!Terminated
    <2>11. Xsdb!SuccessMeansClean'
        BY <1>9 DEF Indices, States, RunsWhileRead, Later, Unfinished, Noticed, Xsdb!SuccessMeansClean,
           Xsdb!CleanUp, Xsdb!Terminated
    <2>12. Xsdb!TalksToOwnServer'
        BY <1>9 DEF Indices, States, RunsWhileRead, Unfinished, Servers, Xsdb!TalksToOwnServer, Xsdb!Holds,
           Xsdb!CleanUp, Xsdb!Terminated
    <2> QED
        BY <2>1, <2>2, <2>3, <2>4, <2>5, <2>6, <2>7, <2>8, <2>9, <2>10, <2>11, <2>12
<1>10. ASSUME NEW s \in Xsdb!RunIds, Xsdb!ServerListens(s) PROVE JtagInv'
    <2>1. Indices'
        BY <1>10 DEF Indices, Xsdb!ServerListens, Xsdb!PortOpen
    <2>2. States'
        BY <1>10 DEF States, Indices, Xsdb!ServerListens, Xsdb!PortOpen
    <2>3. Flags'
        BY <1>10 DEF Flags, Indices, Xsdb!ServerListens, Xsdb!PortOpen
    <2>4. OnePort'
        BY <1>10 DEF Indices, States, OnePort, Later, Xsdb!Holds, Xsdb!ServerListens, Xsdb!PortOpen
    <2>5. RunsWhileRead'
        BY <1>10 DEF Indices, States, RunsWhileRead, Unfinished, Xsdb!ServerListens, Xsdb!PortOpen
    <2>6. Later'
        BY <1>10 DEF Indices, States, Later, Unfinished, Xsdb!ServerListens, Xsdb!PortOpen
    <2>7. Unfinished'
        BY <1>10 DEF Indices, States, RunsWhileRead, Later, Unfinished, Xsdb!ServerListens, Xsdb!PortOpen
    <2>8. Bad'
        BY <1>10 DEF Indices, Flags, Bad, RunsWhileRead, Unfinished, Xsdb!ServerListens, Xsdb!PortOpen
    <2>9. Noticed'
        BY <1>10 DEF Indices, States, Flags, RunsWhileRead, Unfinished, Bad, Noticed, Xsdb!ServerListens,
           Xsdb!PortOpen
    <2>10. Servers'
        BY <1>10 DEF Indices, States, Unfinished, Servers, Xsdb!ServerListens, Xsdb!PortOpen
    <2>11. Xsdb!SuccessMeansClean'
        BY <1>10 DEF Indices, States, RunsWhileRead, Later, Unfinished, Noticed, Xsdb!SuccessMeansClean,
           Xsdb!ServerListens, Xsdb!PortOpen
    <2>12. Xsdb!TalksToOwnServer'
        BY <1>10 DEF Indices, States, RunsWhileRead, Unfinished, Servers, Xsdb!TalksToOwnServer, Xsdb!Holds,
           Xsdb!ServerListens, Xsdb!PortOpen
    <2> QED
        BY <2>1, <2>2, <2>3, <2>4, <2>5, <2>6, <2>7, <2>8, <2>9, <2>10, <2>11, <2>12
<1>11. ASSUME NEW s \in Xsdb!RunIds, Xsdb!ServerDies(s) PROVE JtagInv'
    <2>1. Indices'
        BY <1>11 DEF Indices, Xsdb!ServerDies
    <2>2. States'
        BY <1>11 DEF States, Indices, Xsdb!ServerDies
    <2>3. Flags'
        BY <1>11 DEF Flags, Indices, Xsdb!ServerDies
    <2>4. OnePort'
        BY <1>11 DEF Indices, States, OnePort, Later, Xsdb!Holds, Xsdb!ServerDies
    <2>5. RunsWhileRead'
        BY <1>11 DEF Indices, States, RunsWhileRead, Unfinished, Xsdb!ServerDies
    <2>6. Later'
        BY <1>11 DEF Indices, States, Later, Unfinished, Xsdb!ServerDies
    <2>7. Unfinished'
        BY <1>11 DEF Indices, States, RunsWhileRead, Later, Unfinished, Xsdb!ServerDies
    <2>8. Bad'
        BY <1>11 DEF Indices, Flags, Bad, RunsWhileRead, Unfinished, Xsdb!ServerDies
    <2>9. Noticed'
        BY <1>11 DEF Indices, States, Flags, RunsWhileRead, Unfinished, Bad, Noticed, Xsdb!ServerDies
    <2>10. Servers'
        BY <1>11 DEF Indices, States, Unfinished, Servers, Xsdb!ServerDies
    <2>11. Xsdb!SuccessMeansClean'
        BY <1>11 DEF Indices, States, RunsWhileRead, Later, Unfinished, Noticed, Xsdb!SuccessMeansClean,
           Xsdb!ServerDies
    <2>12. Xsdb!TalksToOwnServer'
        BY <1>11 DEF Indices, States, RunsWhileRead, Unfinished, Servers, Xsdb!TalksToOwnServer, Xsdb!Holds,
           Xsdb!ServerDies
    <2> QED
        BY <2>1, <2>2, <2>3, <2>4, <2>5, <2>6, <2>7, <2>8, <2>9, <2>10, <2>11, <2>12
<1>12. ASSUME NEW r \in Xsdb!RunIds, Xsdb!XsdbDies(r) PROVE JtagInv'
    <2>1. Indices'
        BY <1>12 DEF Indices, Xsdb!XsdbDies
    <2>2. States'
        BY <1>12 DEF States, Indices, Xsdb!XsdbDies
    <2>3. Flags'
        BY <1>12 DEF Flags, Indices, Xsdb!XsdbDies
    <2>4. OnePort'
        BY <1>12 DEF Indices, States, OnePort, Later, Xsdb!Holds, Xsdb!XsdbDies
    <2>5. RunsWhileRead'
        BY <1>12 DEF Indices, States, RunsWhileRead, Unfinished, Xsdb!XsdbDies
    <2>6. Later'
        BY <1>12 DEF Indices, States, Later, Unfinished, Xsdb!XsdbDies
    <2>7. Unfinished'
        BY <1>12 DEF Indices, States, RunsWhileRead, Later, Unfinished, Xsdb!XsdbDies
    <2>8. Bad'
        BY <1>12 DEF Indices, Flags, Bad, RunsWhileRead, Unfinished, Xsdb!XsdbDies
    <2>9. Noticed'
        <3>1. /\ UNCHANGED <<step, run, exit, talks, bad, pipe, sawError>>
              /\ xsdb' = [xsdb EXCEPT ![r] = "gone"] /\ xsdb[r] = "dying"
            BY <1>12 DEF Xsdb!XsdbDies
        <3>2. step = "read" => run \in Xsdb!RunIds /\ xsdb[run] # "dying"
            BY DEF Unfinished, Noticed
        <3>3. step = "read" => xsdb'[run] = xsdb[run]
            BY <3>1, <3>2 DEF States
        <3> QED
            BY <3>1, <3>3 DEF Noticed
    <2>10. Servers'
        BY <1>12 DEF Indices, States, Unfinished, Servers, Xsdb!XsdbDies
    <2>11. Xsdb!SuccessMeansClean'
        BY <1>12 DEF Indices, States, RunsWhileRead, Later, Unfinished, Noticed, Xsdb!SuccessMeansClean, Xsdb!XsdbDies
    <2>12. Xsdb!TalksToOwnServer'
        BY <1>12 DEF Indices, States, RunsWhileRead, Unfinished, Servers, Xsdb!TalksToOwnServer, Xsdb!Holds,
           Xsdb!XsdbDies
    <2> QED
        BY <2>1, <2>2, <2>3, <2>4, <2>5, <2>6, <2>7, <2>8, <2>9, <2>10, <2>11, <2>12
<1>13. ASSUME run > 0, Xsdb!XsdbConnects PROVE JtagInv'
    <2>1. Indices'
        BY <1>13 DEF Indices, Xsdb!XsdbConnects
    <2>2. States'
        BY <1>13 DEF States, Indices, Xsdb!XsdbConnects
    <2>3. Flags'
        BY <1>13 DEF Flags, Indices, Xsdb!XsdbConnects
    <2>4. OnePort'
        BY <1>13 DEF Indices, States, OnePort, Later, Xsdb!Holds, Xsdb!XsdbConnects
    <2>5. RunsWhileRead'
        BY <1>13 DEF Indices, States, RunsWhileRead, Unfinished, Xsdb!XsdbConnects
    <2>6. Later'
        BY <1>13 DEF Indices, States, Later, Unfinished, Xsdb!XsdbConnects
    <2>7. Unfinished'
        BY <1>13 DEF Indices, States, RunsWhileRead, Later, Unfinished, Xsdb!XsdbConnects
    <2>8. Bad'
        BY <1>13 DEF Indices, Flags, Bad, RunsWhileRead, Unfinished, Xsdb!XsdbConnects
    <2>9. Noticed'
        BY <1>13 DEF Indices, States, Flags, RunsWhileRead, Unfinished, Bad, Noticed, Xsdb!XsdbConnects
    <2>10. Servers'
        BY <1>13 DEF Indices, States, Unfinished, Servers, Xsdb!XsdbConnects
    <2>11. Xsdb!SuccessMeansClean'
        BY <1>13 DEF Indices, States, RunsWhileRead, Later, Unfinished, Noticed, Xsdb!SuccessMeansClean,
           Xsdb!XsdbConnects
    <2>12. Xsdb!TalksToOwnServer'
        <3>1. PICK s \in Xsdb!RunIds : Xsdb!Holds(s) /\ talks' = [talks EXCEPT ![run] = s]
            BY <1>13 DEF Xsdb!XsdbConnects
        <3>2. windows => s = run
            BY <3>1 DEF Servers, Xsdb!Holds
        <3>3. windows' = windows
            BY <1>13 DEF Xsdb!XsdbConnects
        <3>4. ASSUME NEW r \in Xsdb!RunIds, windows PROVE talks'[r] \in {0, r}
            BY <3>1, <3>2, <3>4 DEF Xsdb!TalksToOwnServer, Indices
        <3> QED
            BY <3>3, <3>4 DEF Xsdb!TalksToOwnServer
    <2> QED
        BY <2>1, <2>2, <2>3, <2>4, <2>5, <2>6, <2>7, <2>8, <2>9, <2>10, <2>11, <2>12
<1>14. ASSUME run > 0, Xsdb!XsdbPrintsError PROVE JtagInv'
    <2>1. Indices'
        BY <1>14 DEF Indices, Xsdb!XsdbPrintsError
    <2>2. States'
        BY <1>14 DEF States, Indices, Xsdb!XsdbPrintsError
    <2>3. Flags'
        BY <1>14 DEF Flags, Indices, Xsdb!XsdbPrintsError
    <2>4. OnePort'
        BY <1>14 DEF Indices, States, OnePort, Later, Xsdb!Holds, Xsdb!XsdbPrintsError
    <2>5. RunsWhileRead'
        BY <1>14 DEF Indices, States, RunsWhileRead, Unfinished, Xsdb!XsdbPrintsError
    <2>6. Later'
        BY <1>14 DEF Indices, States, Later, Unfinished, Xsdb!XsdbPrintsError
    <2>7. Unfinished'
        BY <1>14 DEF Indices, States, RunsWhileRead, Later, Unfinished, Xsdb!XsdbPrintsError
    <2>8. Bad'
        BY <1>14 DEF Indices, Flags, Bad, RunsWhileRead, Unfinished, Xsdb!XsdbPrintsError
    <2>9. Noticed'
        BY <1>14 DEF Indices, States, Flags, RunsWhileRead, Unfinished, Bad, Noticed, Xsdb!XsdbPrintsError
    <2>10. Servers'
        BY <1>14 DEF Indices, States, Unfinished, Servers, Xsdb!XsdbPrintsError
    <2>11. Xsdb!SuccessMeansClean'
        <3>1. UNCHANGED <<result, talks, exit>> /\ run \in Xsdb!RunIds /\ result[run] = "none"
            BY <1>14 DEF Xsdb!XsdbPrintsError, RunsWhileRead, Unfinished, Indices
        <3>2. \A r \in Xsdb!RunIds : r # run => bad'[r] = bad[r]
            BY <1>14 DEF Xsdb!XsdbPrintsError, Flags
        <3> QED
            BY <3>1, <3>2 DEF Xsdb!SuccessMeansClean
    <2>12. Xsdb!TalksToOwnServer'
        BY <1>14 DEF Indices, States, RunsWhileRead, Unfinished, Servers, Xsdb!TalksToOwnServer, Xsdb!Holds,
           Xsdb!XsdbPrintsError
    <2> QED
        BY <2>1, <2>2, <2>3, <2>4, <2>5, <2>6, <2>7, <2>8, <2>9, <2>10, <2>11, <2>12
<1>15. ASSUME run > 0, Xsdb!XsdbExits PROVE JtagInv'
    <2>1. Indices'
        BY <1>15 DEF Indices, Xsdb!XsdbExits
    <2>2. States'
        BY <1>15 DEF States, Indices, Xsdb!XsdbExits
    <2>3. Flags'
        BY <1>15 DEF Flags, Indices, Xsdb!XsdbExits
    <2>4. OnePort'
        BY <1>15 DEF Indices, States, OnePort, Later, Xsdb!Holds, Xsdb!XsdbExits
    <2>5. RunsWhileRead'
        BY <1>15 DEF Indices, States, RunsWhileRead, Unfinished, Xsdb!XsdbExits
    <2>6. Later'
        BY <1>15 DEF Indices, States, Later, Unfinished, Xsdb!XsdbExits
    <2>7. Unfinished'
        BY <1>15 DEF Indices, States, RunsWhileRead, Later, Unfinished, Xsdb!XsdbExits
    <2>8. Bad'
        BY <1>15 DEF Indices, Flags, Bad, RunsWhileRead, Unfinished, Xsdb!XsdbExits
    <2>9. Noticed'
        <3>1. /\ UNCHANGED <<step, run, talks, bad, pipe, sawError>> /\ xsdb' = [xsdb EXCEPT ![run] = "gone"]
            BY <1>15 DEF Xsdb!XsdbExits
        <3>2. PICK status \in {0, 1} : (talks[run] = 0 => status # 0) /\ exit' = [exit EXCEPT ![run] = status]
            BY <1>15 DEF Xsdb!XsdbExits
        <3>3. ASSUME step = "read"
              PROVE  run \in Xsdb!RunIds /\ xsdb'[run] = "gone" /\ exit'[run] = status
            BY <3>1, <3>2, <3>3 DEF Indices, States, Unfinished
        <3>4. step = "read" => (bad[run] => pipe \/ sawError)
            BY DEF Noticed
        <3> QED
            BY <3>1, <3>2, <3>3, <3>4 DEF Noticed
    <2>10. Servers'
        BY <1>15 DEF Indices, States, Unfinished, Servers, Xsdb!XsdbExits
    <2>11. Xsdb!SuccessMeansClean'
        BY <1>15 DEF Indices, States, RunsWhileRead, Later, Unfinished, Noticed, Xsdb!SuccessMeansClean,
           Xsdb!XsdbExits
    <2>12. Xsdb!TalksToOwnServer'
        BY <1>15 DEF Indices, States, RunsWhileRead, Unfinished, Servers, Xsdb!TalksToOwnServer, Xsdb!Holds,
           Xsdb!XsdbExits
    <2> QED
        BY <2>1, <2>2, <2>3, <2>4, <2>5, <2>6, <2>7, <2>8, <2>9, <2>10, <2>11, <2>12
<1>16. ASSUME UNCHANGED jtagVars PROVE JtagInv'
    <2>1. Indices'
        BY <1>16 DEF Indices, jtagVars
    <2>2. States'
        BY <1>16 DEF States, Indices, jtagVars
    <2>3. Flags'
        BY <1>16 DEF Flags, Indices, jtagVars
    <2>4. OnePort'
        BY <1>16 DEF Indices, States, OnePort, Later, Xsdb!Holds, jtagVars
    <2>5. RunsWhileRead'
        BY <1>16 DEF Indices, States, RunsWhileRead, Unfinished, jtagVars
    <2>6. Later'
        BY <1>16 DEF Indices, States, Later, Unfinished, jtagVars
    <2>7. Unfinished'
        BY <1>16 DEF Indices, States, RunsWhileRead, Later, Unfinished, jtagVars
    <2>8. Bad'
        BY <1>16 DEF Indices, Flags, Bad, RunsWhileRead, Unfinished, jtagVars
    <2>9. Noticed'
        BY <1>16 DEF Indices, States, Flags, RunsWhileRead, Unfinished, Bad, Noticed, jtagVars
    <2>10. Servers'
        BY <1>16 DEF Indices, States, Unfinished, Servers, jtagVars
    <2>11. Xsdb!SuccessMeansClean'
        BY <1>16 DEF Indices, States, RunsWhileRead, Later, Unfinished, Noticed, Xsdb!SuccessMeansClean, jtagVars
    <2>12. Xsdb!TalksToOwnServer'
        BY <1>16 DEF Indices, States, RunsWhileRead, Unfinished, Servers, Xsdb!TalksToOwnServer, Xsdb!Holds, jtagVars
    <2> QED
        BY <2>1, <2>2, <2>3, <2>4, <2>5, <2>6, <2>7, <2>8, <2>9, <2>10, <2>11, <2>12
<1> QED
    BY <1>1, <1>2, <1>3, <1>4, <1>5, <1>6, <1>7, <1>8, <1>9, <1>10, <1>11, <1>12, <1>13, <1>14, <1>15, <1>16
       DEF Xsdb!Next, Xsdb!Wrapper, Xsdb!Interrupt, Xsdb!Children, Xsdb!AllRun, Xsdb!vars, jtagVars,
          Xsdb!PortTimesOut, Xsdb!InterruptProbe

LEMMA JtagIsClean == JtagInv => JtagRunIsClean
<1> SUFFICES ASSUME JtagInv PROVE JtagRunIsClean
    OBVIOUS
<1>1. Xsdb!LeavesNothing
    BY DEF JtagInv, RunsWhileRead, Servers, Xsdb!LeavesNothing
<1>2. Xsdb!TypeOK
    BY DEF JtagInv, Indices, States, Flags, OnePort, Xsdb!TypeOK
<1> QED
    BY <1>1, <1>2 DEF JtagInv, JtagRunIsClean, Xsdb!JtagRunIsClean

\* JtagRunIsClean (run_xsdb_checked.py): whatever the children do and whenever, a run
\* that reports success had a clean xsdb of its own, and none leaves a child
\* but the server of a run that returned early.
THEOREM JtagRunIsCleanHolds == ToolsSpec => []JtagRunIsClean
<1>1. ToolsInit => JtagInv
    BY JtagStarts, RunsAssumption DEF ToolsInit
<1>2. JtagInv /\ [ToolsNext]_all => JtagInv'
    BY JtagSteps, StepsOfTools, RunsAssumption
<1> QED
    BY <1>1, <1>2, JtagIsClean, PTL DEF ToolsSpec

-----------------------------------------------------------------------------
(* SerialPorts.                                                            *)

PortTypes ==
    /\ taken \subseteq plugged /\ plugged \subseteq Ports /\ changes \in 0 .. MaxChanges
    /\ at \in [Users -> {"idle", "asked", "trying", "streaming", "failed", "ended"}]
    /\ explicit \in [Users -> Ports \cup {0}] /\ ser \in [Users -> Ports \cup {0}]
    /\ listed \in [Users -> SUBSET Ports] /\ failures \in [Users -> SUBSET Ports]
    /\ hindered \in [Users -> SUBSET Ports] /\ candidates \in [Users -> Seq(Ports)]
    /\ lost \in [Users -> BOOLEAN]

\* A port is open only while it is read, and it is the first that is left.
Reading(u) ==
    /\ at[u] \in {"idle", "asked"} => listed[u] = {} /\ candidates[u] = <<>> /\ failures[u] = {}
    /\ at[u] \in {"trying", "streaming"} => candidates[u] # <<>>
    /\ at[u] = "streaming" => ser[u] = candidates[u][1]
    /\ at[u] # "streaming" => ser[u] = 0

\* Only the named port is tried.
Named(u) ==
    explicit[u] # 0 =>
        /\ failures[u] \subseteq {explicit[u]}
        /\ \A i \in DOMAIN candidates[u] : candidates[u][i] = explicit[u]
        /\ at[u] = "failed" => explicit[u] \in failures[u]

\* The ports a tool may choose from, of those it listed.
Eligible(S, p) == p \in S /\ (Score[p] > 0 \/ S = {p})

\* The ports left to try are eligible, the likeliest first, and every other
\* eligible one would not open.
Chosen(u) ==
    explicit[u] = 0 =>
        /\ \A i \in DOMAIN candidates[u] : Eligible(listed[u], candidates[u][i])
        /\ \A i, j \in DOMAIN candidates[u] : i < j => Serial!Before(candidates[u][i], candidates[u][j])
        /\ \A p \in Ports : at[u] \in {"trying", "streaming", "failed"} /\ Eligible(listed[u], p) =>
              p \in failures[u] \/ (at[u] # "failed" /\ \E i \in DOMAIN candidates[u] : candidates[u][i] = p)

\* As long as nothing has kept the board's port from a tool, it is there, the
\* tool has listed it and has not failed to open it.
Unhindered(u) ==
    explicit[u] = 0 /\ BoardPort \notin hindered[u] /\ at[u] # "idle" =>
        /\ BoardPort \in plugged \ taken /\ \A v \in Users : v # u => ser[v] # BoardPort
        /\ at[u] \in {"trying", "streaming", "failed"} => BoardPort \in listed[u]
        /\ BoardPort \notin failures[u]

PortInv == PortTypes /\ \A u \in Users : Reading(u) /\ Named(u) /\ Chosen(u) /\ Unhindered(u)

\* The sequences of the ports of a set in order.
LEMMA SortedPorts ==
    ASSUME NEW S \in SUBSET Ports, NEW s \in Serial!Sorted(S)
    PROVE  /\ s \in Seq(Ports) /\ \A i \in DOMAIN s : s[i] \in S
           /\ \A p \in S : \E i \in DOMAIN s : s[i] = p
           /\ \A i, j \in DOMAIN s : i < j => Serial!Before(s[i], s[j])
<1>1. IsFiniteSet(S)
    BY PortsAssumption, FS_Subset
<1>2. PICK n \in Nat : n = Cardinality(S)
    BY <1>1, FS_CardinalityType
<1>3. s \in [1 .. n -> S]
    BY <1>2, SameCardinality DEF Serial!Sorted
<1>4. s \in Seq(Ports) /\ DOMAIN s = 1 .. n
    BY <1>3
<1> QED
    BY <1>3, <1>4 DEF Serial!Sorted

\* What a tool that was not told a port finds.
LEMMA FoundPorts ==
    ASSUME NEW S \in SUBSET Ports, NEW s \in Serial!CandidatePorts(0, S)
    PROVE  /\ s \in Seq(Ports) /\ \A i \in DOMAIN s : Eligible(S, s[i])
           /\ \A p \in Ports : Eligible(S, p) => \E i \in DOMAIN s : s[i] = p
           /\ \A i, j \in DOMAIN s : i < j => Serial!Before(s[i], s[j])
<1>1. IsFiniteSet(S)
    BY PortsAssumption, FS_Subset
<1>2. CASE Cardinality(S) = 1
    <2>1. PICK p \in S : S = {p}
        BY <1>1, <1>2, FS_Singleton
    <2>2. s \in Serial!Sorted(S)
        BY <1>2, SameCardinality DEF Serial!CandidatePorts, Serial!None
    <2>3. \A q : Eligible(S, q) <=> q = p
        BY <2>1 DEF Eligible
    <2>4. \A q \in S : q = p
        BY <2>1
    <2> QED
        BY <2>1, <2>2, <2>3, <2>4, SortedPorts
<1>3. CASE Cardinality(S) # 1
    <2>1. \A p : S # {p}
        BY <1>3, FS_Singleton
    <2>2. s \in Serial!Sorted(Serial!Likely(S)) /\ Serial!Likely(S) \subseteq Ports
        BY <1>3, SameCardinality DEF Serial!CandidatePorts, Serial!None, Serial!Likely
    <2>3. \A p : Eligible(S, p) <=> p \in Serial!Likely(S)
        BY <2>1 DEF Eligible, Serial!Likely
    <2> QED
        BY <2>2, <2>3, SortedPorts
<1> QED
    BY <1>2, <1>3

LEMMA PortsStart == Serial!Init => PortInv
<1> SUFFICES ASSUME Serial!Init PROVE PortInv
    OBVIOUS
<1>1. PortTypes
    BY PortsAssumption DEF Serial!Init, PortTypes, Serial!None
<1>2. ASSUME NEW u \in Users PROVE Reading(u) /\ Named(u) /\ Chosen(u) /\ Unhindered(u)
    BY <1>2 DEF Serial!Init, Serial!None, Reading, Named, Chosen, Unhindered
<1> QED
    BY <1>1, <1>2 DEF PortInv

\* A tool of which nothing changed keeps its part of the invariant.
LEMMA OthersRest ==
    ASSUME NEW u \in Users, Reading(u) /\ Named(u) /\ Chosen(u), at'[u] = at[u], explicit'[u] = explicit[u],
           listed'[u] = listed[u], candidates'[u] = candidates[u], failures'[u] = failures[u], ser'[u] = ser[u]
    PROVE  (Reading(u) /\ Named(u) /\ Chosen(u))'
    BY DEF Reading, Named, Chosen, Eligible, Serial!Before

\* Nor does its view of the board's port change while no port is touched.
LEMMA BoardRests ==
    ASSUME NEW u \in Users, Unhindered(u), at'[u] = at[u], explicit'[u] = explicit[u],
           listed'[u] = listed[u], failures'[u] = failures[u],
           hindered'[u] = hindered[u], plugged' = plugged, taken' = taken,
           \A v \in Users : ser'[v] \in {ser[v], 0}
    PROVE  Unhindered(u)'
    BY PortsAssumption DEF Unhindered

LEMMA FirstAndRest ==
    ASSUME NEW s \in Seq(Ports), s # <<>>
    PROVE  /\ Len(s) \in Nat /\ 1 \in DOMAIN s /\ Head(s) = s[1] /\ s[1] \in Ports
           /\ DOMAIN s = 1 .. Len(s)
           /\ Tail(s) \in Seq(Ports) /\ DOMAIN Tail(s) = 1 .. Len(s) - 1
           /\ Len(s) # 1 => Tail(s) # <<>>
           /\ \A i \in DOMAIN Tail(s) : i + 1 \in DOMAIN s /\ Tail(s)[i] = s[i + 1]
           /\ \A i \in DOMAIN s : i = 1 \/ (i - 1 \in DOMAIN Tail(s) /\ Tail(s)[i - 1] = s[i])
<1>1. /\ Len(s) \in Nat /\ 1 \in DOMAIN s /\ Head(s) = s[1] /\ s[1] \in Ports
      /\ DOMAIN s = 1 .. Len(s)
      /\ Tail(s) \in Seq(Ports) /\ DOMAIN Tail(s) = 1 .. Len(s) - 1
    OBVIOUS
<1>2. Len(Tail(s)) = Len(s) - 1 /\ Len(<<>>) = 0
    OBVIOUS
<1>3. Len(s) # 1 => Tail(s) # <<>>
    <2>1. ASSUME Tail(s) = <<>> PROVE Len(s) = 1
        <3>1. Len(Tail(s)) = 0
            BY <1>2, <2>1, Zenon
        <3>2. Len(s) - 1 = 0 /\ Len(s) \in Nat
            BY <1>1, <1>2, <3>1, Zenon
        <3> QED
            BY <3>2
    <2> QED
        BY <2>1
<1>4. /\ \A i \in DOMAIN Tail(s) : i + 1 \in DOMAIN s /\ Tail(s)[i] = s[i + 1]
      /\ \A i \in DOMAIN s : i = 1 \/ (i - 1 \in DOMAIN Tail(s) /\ Tail(s)[i - 1] = s[i])
    OBVIOUS
<1> QED
    BY <1>1, <1>3, <1>4

LEMMA PortSteps == PortInv /\ [Serial!Next]_portVars => PortInv'
<1> SUFFICES ASSUME PortInv, [Serial!Next]_portVars PROVE PortInv'
    OBVIOUS
<1> USE DEF Serial!None
<1>0. PortTypes /\ \A u \in Users : Reading(u) /\ Named(u) /\ Chosen(u) /\ Unhindered(u)
    BY DEF PortInv
<1>1. ASSUME NEW t \in Users, NEW port \in Ports \cup {0}, Serial!Start(t, port) PROVE PortInv'
    <2>1. /\ at[t] = "idle" /\ at' = [at EXCEPT ![t] = "asked"] /\ explicit' = [explicit EXCEPT ![t] = port]
          /\ hindered' = [hindered EXCEPT ![t] = (Ports \ plugged) \cup Serial!InUse(t)]
          /\ UNCHANGED <<plugged, taken, changes, listed, candidates, failures, ser, lost>>
        BY <1>1 DEF Serial!Start, Serial!ports
    <2>2. PICK away \in SUBSET Ports :
            away = (Ports \ plugged) \cup ((taken \cup {ser[v] : v \in Users \ {t}}) \ {0})
        BY <1>0 DEF PortTypes
    <2>3. hindered' = [hindered EXCEPT ![t] = away]
        BY <2>1, <2>2 DEF Serial!InUse
    <2>4. PortTypes'
        BY <1>0, <2>1, <2>3 DEF PortTypes
    <2>5. ASSUME NEW u \in Users, u # t PROVE (Reading(u) /\ Named(u) /\ Chosen(u) /\ Unhindered(u))'
        <3>1. at'[u] = at[u] /\ explicit'[u] = explicit[u] /\ hindered'[u] = hindered[u]
            BY <1>0, <2>1, <2>3, <2>5 DEF PortTypes
        <3> QED
            BY <1>0, <2>1, <3>1, OthersRest, BoardRests
    <2>6. at'[t] = "asked" /\ hindered'[t] = away
        BY <1>0, <2>1, <2>3 DEF PortTypes
    <2>7. listed'[t] = {} /\ candidates'[t] = <<>> /\ failures'[t] = {} /\ ser'[t] = 0
        BY <1>0, <2>1 DEF Reading
    <2>8. Reading(t)' /\ Named(t)' /\ Chosen(t)'
        BY <2>6, <2>7 DEF Reading, Named, Chosen
    <2>9. Unhindered(t)'
        <3>1. ASSUME BoardPort \notin away
              PROVE  BoardPort \in plugged \ taken /\ \A v \in Users : v # t => ser[v] # BoardPort
            BY <2>2, <3>1, PortsAssumption
        <3> QED
            BY <2>1, <2>6, <2>7, <3>1 DEF Unhindered
    <2> QED
        BY <2>4, <2>5, <2>8, <2>9 DEF PortInv
<1>2. ASSUME NEW t \in Users, Serial!LookForPorts(t) PROVE PortInv'
    <2>1. /\ at[t] = "asked"
          /\ UNCHANGED <<plugged, taken, changes, explicit, failures, ser, lost, hindered>>
        BY <1>2 DEF Serial!LookForPorts, Serial!ports
    <2>2. PICK S \in SUBSET Ports : S = IF explicit[t] = 0 THEN plugged ELSE {}
        BY <1>0 DEF PortTypes
    <2>3. CASE at' = [at EXCEPT ![t] = "ended"] /\ UNCHANGED <<candidates, listed>>
        <3>1. PortTypes'
            BY <1>0, <2>1, <2>3 DEF PortTypes
        <3>2. ASSUME NEW u \in Users, u # t PROVE (Reading(u) /\ Named(u) /\ Chosen(u) /\ Unhindered(u))'
            <4>1. at'[u] = at[u]
                BY <1>0, <2>3, <3>2 DEF PortTypes
            <4> QED
                BY <1>0, <2>1, <2>3, <4>1, OthersRest, BoardRests
        <3>3. at'[t] = "ended"
            BY <1>0, <2>3 DEF PortTypes
        <3>4. listed'[t] = {} /\ candidates'[t] = <<>> /\ failures'[t] = {} /\ ser'[t] = 0
            BY <1>0, <2>1, <2>3 DEF Reading
        <3>5. (Reading(t) /\ Named(t) /\ Chosen(t))'
            BY <3>3, <3>4 DEF Reading, Named, Chosen
        <3>6. Unhindered(t)'
            BY <1>0, <2>1, <3>3, <3>4 DEF Unhindered
        <3> QED
            BY <3>1, <3>2, <3>5, <3>6 DEF PortInv
    <2>4. ASSUME NEW found \in Serial!CandidatePorts(explicit[t], S),
                 candidates' = [candidates EXCEPT ![t] = found], listed' = [listed EXCEPT ![t] = S],
                 at' = [at EXCEPT ![t] = IF found = <<>> THEN "failed" ELSE "trying"]
          PROVE  PortInv'
        <3>1. explicit[t] # 0 => found = <<explicit[t]>> /\ explicit[t] \in Ports
            BY <1>0, <2>4 DEF Serial!CandidatePorts, PortTypes
        <3>2. explicit[t] = 0 =>
                /\ found \in Seq(Ports) /\ \A i \in DOMAIN found : Eligible(S, found[i])
                /\ \A p \in Ports : Eligible(S, p) => \E i \in DOMAIN found : found[i] = p
                /\ \A i, j \in DOMAIN found : i < j => Serial!Before(found[i], found[j])
            BY <2>4, FoundPorts
        <3>11. \A e \in Ports : <<e>> \in Seq(Ports) /\ <<e>> # <<>> /\ \A i \in DOMAIN <<e>> : <<e>>[i] = e
            OBVIOUS
        <3>3. found \in Seq(Ports)
            BY <3>1, <3>2, <3>11
        <3>4. PortTypes'
            BY <1>0, <2>1, <2>4, <3>3 DEF PortTypes
        <3>5. ASSUME NEW u \in Users, u # t PROVE (Reading(u) /\ Named(u) /\ Chosen(u) /\ Unhindered(u))'
            <4>1. at'[u] = at[u] /\ candidates'[u] = candidates[u] /\ listed'[u] = listed[u]
                BY <1>0, <2>4, <3>5 DEF PortTypes
            <4> QED
                BY <1>0, <2>1, <4>1, OthersRest, BoardRests
        <3>6. /\ at'[t] = (IF found = <<>> THEN "failed" ELSE "trying")
              /\ candidates'[t] = found /\ listed'[t] = S /\ failures'[t] = {} /\ ser'[t] = 0
              /\ explicit'[t] = explicit[t] /\ hindered'[t] = hindered[t]
            BY <1>0, <2>1, <2>4 DEF PortTypes, Reading
        <3>7. Reading(t)'
            BY <3>6 DEF Reading
        <3>8. Named(t)'
            BY <3>1, <3>6, <3>11 DEF Named
        <3>9. Chosen(t)'
            <4>1. found = <<>> => DOMAIN found = {}
                OBVIOUS
            <4> QED
                BY <3>2, <3>6, <4>1 DEF Chosen
        <3>10. Unhindered(t)'
            BY <1>0, <2>1, <2>2, <3>6 DEF Unhindered
        <3> QED
            BY <3>4, <3>5, <3>7, <3>8, <3>9, <3>10 DEF PortInv
    <2> QED
        BY <1>2, <2>2, <2>3, <2>4 DEF Serial!LookForPorts
<1>3. ASSUME NEW t \in Users, Serial!Open(t) PROVE PortInv'
    <2>1. PICK p \in Ports : p = candidates[t][1]
        BY <1>0, <1>3, FirstAndRest DEF Serial!Open, Reading, PortTypes
    <2>2. Serial!Current(t) = p
        BY <1>0, <1>3, <2>1, FirstAndRest DEF Serial!Open, Serial!Current, Reading, PortTypes
    <2>3. /\ at[t] = "trying" /\ p \in plugged /\ ser' = [ser EXCEPT ![t] = p]
          /\ lost' = [lost EXCEPT ![t] = FALSE] /\ at' = [at EXCEPT ![t] = "streaming"]
          /\ hindered' = [u \in Users |-> IF u = t THEN hindered[u] ELSE hindered[u] \cup {p}]
          /\ UNCHANGED <<plugged, taken, changes, explicit, listed, candidates, failures>>
        BY <1>3, <2>2 DEF Serial!Open, Serial!ports
    <2>4. PortTypes'
        <3>1. hindered' \in [Users -> SUBSET Ports]
            BY <1>0, <2>3 DEF PortTypes
        <3> QED
            BY <1>0, <2>1, <2>3, <3>1 DEF PortTypes
    <2>5. ASSUME NEW u \in Users, u # t PROVE (Reading(u) /\ Named(u) /\ Chosen(u) /\ Unhindered(u))'
        <3>1. at'[u] = at[u] /\ ser'[u] = ser[u] /\ hindered'[u] = hindered[u] \cup {p}
            BY <1>0, <2>3, <2>5 DEF PortTypes
        <3>2. (Reading(u) /\ Named(u) /\ Chosen(u))'
            BY <1>0, <2>3, <3>1, OthersRest
        <3>3. \A v \in Users : ser'[v] \in {ser[v], p}
            BY <1>0, <2>3 DEF PortTypes
        <3>4. Unhindered(u)'
            BY <1>0, <2>3, <3>1, <3>3 DEF Unhindered
        <3> QED
            BY <3>2, <3>4
    <2>6. at'[t] = "streaming" /\ ser'[t] = p /\ hindered'[t] = hindered[t] /\ \A v \in Users : v # t => ser'[v] = ser[v]
        BY <1>0, <2>3 DEF PortTypes
    <2>7. Reading(t)'
        BY <1>0, <2>1, <2>3, <2>6 DEF Reading
    <2>8. Named(t)'
        BY <1>0, <2>3, <2>6 DEF Named
    <2>9. Chosen(t)'
        BY <1>0, <2>3, <2>6 DEF Chosen, Eligible, Serial!Before
    <2>10. Unhindered(t)'
        BY <1>0, <2>3, <2>6 DEF Unhindered
    <2> QED
        BY <2>4, <2>5, <2>7, <2>8, <2>9, <2>10 DEF PortInv
<1>4. ASSUME NEW t \in Users, Serial!CannotOpen(t) PROVE PortInv'
    <2>1. PICK p \in Ports : p = candidates[t][1]
        BY <1>0, <1>4, FirstAndRest DEF Serial!CannotOpen, Reading, PortTypes
    <2>2. Serial!Current(t) = p
        BY <1>0, <1>4, <2>1, FirstAndRest DEF Serial!CannotOpen, Serial!Current, Reading, PortTypes
    <2>3. /\ at[t] = "trying" /\ failures' = [failures EXCEPT ![t] = @ \cup {p}]
          /\ p \notin plugged \/ p \in taken \/ \E v \in Users \ {t} : ser[v] = p
          /\ UNCHANGED <<plugged, taken, changes, explicit, listed, ser, lost, hindered>>
        BY <1>4, <2>2 DEF Serial!CannotOpen, Serial!ports, Serial!InUse
    <2>4. PICK s \in Seq(Ports) : s = candidates[t] /\ s # <<>>
        BY <1>0, <2>3 DEF PortTypes, Reading
    <2>5. p = s[1] /\ 1 \in DOMAIN s
        BY <2>1, <2>4, FirstAndRest
    <2>6. /\ at'[t] \in {"trying", "failed"} /\ candidates'[t] \in {s, Tail(s)}
          /\ explicit[t] # 0 => at'[t] = "failed"
          /\ at'[t] = "failed" => (explicit[t] # 0 \/ Len(s) = 1) /\ candidates'[t] = s
          /\ at'[t] = "trying" => Len(s) # 1 /\ candidates'[t] = Tail(s)
          /\ \A u \in Users : u # t => at'[u] = at[u] /\ candidates'[u] = candidates[u]
          /\ at' \in [Users -> {"idle", "asked", "trying", "streaming", "failed", "ended"}]
          /\ candidates' \in [Users -> Seq(Ports)]
        <3>1. CASE (explicit[t] # 0 \/ Len(s) = 1) /\ at' = [at EXCEPT ![t] = "failed"] /\ UNCHANGED candidates
            BY <1>0, <2>4, <3>1 DEF PortTypes
        <3>2. CASE ~ (explicit[t] # 0 \/ Len(s) = 1) /\ at' = at /\ candidates' = [candidates EXCEPT ![t] = Tail(@)]
            <4>1. Tail(s) \in Seq(Ports)
                BY <2>4, FirstAndRest
            <4> QED
                BY <1>0, <2>3, <2>4, <3>2, <4>1 DEF PortTypes
        <3> QED
            BY <1>4, <2>4, <3>1, <3>2 DEF Serial!CannotOpen
    <2>7. failures'[t] = failures[t] \cup {p} /\ \A u \in Users : u # t => failures'[u] = failures[u]
        BY <1>0, <2>3 DEF PortTypes
    <2>8. PortTypes'
        <3>1. failures' \in [Users -> SUBSET Ports]
            BY <1>0, <2>3 DEF PortTypes
        <3> QED
            BY <1>0, <2>3, <2>6, <3>1 DEF PortTypes
    <2>9. ASSUME NEW u \in Users, u # t PROVE (Reading(u) /\ Named(u) /\ Chosen(u) /\ Unhindered(u))'
        <3>1. at'[u] = at[u] /\ candidates'[u] = candidates[u] /\ failures'[u] = failures[u]
            BY <2>6, <2>7, <2>9
        <3> QED
            BY <1>0, <2>3, <3>1, OthersRest, BoardRests
    <2>10. Reading(t)'
        <3>1. at'[t] = "trying" => candidates'[t] # <<>>
            BY <2>4, <2>6, FirstAndRest
        <3> QED
            BY <1>0, <2>3, <2>6, <3>1 DEF Reading
    <2>11. Named(t)'
        <3>1. explicit[t] # 0 => p = explicit[t]
            BY <1>0, <2>4, <2>5 DEF Named
        <3> QED
            BY <1>0, <2>3, <2>4, <2>6, <2>7, <3>1 DEF Named
    <2>12. Chosen(t)'
        <3> SUFFICES ASSUME explicit[t] = 0 PROVE Chosen(t)'
            BY <2>3 DEF Chosen
        <3>1. /\ \A i \in DOMAIN s : Eligible(listed[t], s[i])
              /\ \A i, j \in DOMAIN s : i < j => Serial!Before(s[i], s[j])
              /\ \A q \in Ports : Eligible(listed[t], q) => q \in failures[t] \/ \E i \in DOMAIN s : s[i] = q
            BY <1>0, <2>3, <2>4 DEF Chosen
        <3>2. CASE at'[t] = "failed"
            <4>1. \A i \in DOMAIN s : s[i] = p
                BY <2>4, <2>5, <2>6, <3>2, FirstAndRest
            <4>2. candidates'[t] = s
                BY <2>6, <3>2
            <4>3. \A q \in Ports : Eligible(listed[t], q) => q \in failures'[t]
                BY <2>7, <3>1, <4>1
            <4> QED
                BY <2>3, <3>1, <3>2, <4>2, <4>3 DEF Chosen, Eligible, Serial!Before
        <3>3. CASE at'[t] = "trying"
            <4>1. PICK r \in Seq(Ports) : r = Tail(s) /\ candidates'[t] = r
                BY <2>4, <2>6, <3>3, FirstAndRest
            <4>2. /\ DOMAIN r = 1 .. Len(s) - 1 /\ \A i \in DOMAIN r : i + 1 \in DOMAIN s /\ r[i] = s[i + 1]
                  /\ \A i \in DOMAIN s : i = 1 \/ (i - 1 \in DOMAIN r /\ r[i - 1] = s[i])
                  /\ Len(s) \in Nat
                BY <2>4, <4>1, FirstAndRest
            <4>3. \A i \in DOMAIN r : Eligible(listed[t], r[i])
                BY <3>1, <4>2
            <4>4. ASSUME NEW i \in DOMAIN r, NEW j \in DOMAIN r, i < j PROVE Serial!Before(r[i], r[j])
                <5>1. i + 1 < j + 1
                    BY <4>2, <4>4
                <5> QED
                    BY <3>1, <4>2, <5>1
            <4>5. ASSUME NEW q \in Ports, Eligible(listed[t], q) PROVE q \in failures'[t] \/ \E i \in DOMAIN r : r[i] = q
                <5>1. CASE q \in failures[t]
                    BY <2>7, <5>1
                <5>2. CASE \E i \in DOMAIN s : s[i] = q
                    <6>1. PICK i \in DOMAIN s : s[i] = q
                        BY <5>2
                    <6>2. CASE i = 1
                        BY <2>5, <2>7, <6>1, <6>2
                    <6>3. CASE i # 1
                        BY <4>2, <6>1, <6>3
                    <6> QED
                        BY <6>2, <6>3
                <5> QED
                    BY <3>1, <4>5, <5>1, <5>2
            <4> QED
                BY <2>3, <3>3, <4>1, <4>3, <4>4, <4>5 DEF Chosen, Eligible, Serial!Before
        <3> QED
            BY <2>6, <3>2, <3>3
    <2>13. Unhindered(t)'
        <3>1. explicit[t] = 0 /\ BoardPort \notin hindered[t] => p # BoardPort
            BY <1>0, <2>3 DEF Unhindered
        <3> QED
            BY <1>0, <2>3, <2>6, <2>7, <3>1 DEF Unhindered
    <2> QED
        BY <2>8, <2>9, <2>10, <2>11, <2>12, <2>13 DEF PortInv
<1>5. ASSUME NEW t \in Users, Serial!Close(t) PROVE PortInv'
    <2>1. /\ at[t] = "streaming" /\ at' = [at EXCEPT ![t] = "ended"] /\ ser' = [ser EXCEPT ![t] = 0]
          /\ UNCHANGED <<plugged, taken, changes, explicit, listed, candidates, failures, lost, hindered>>
        BY <1>5 DEF Serial!Close, Serial!ports
    <2>2. PortTypes'
        BY <1>0, <2>1 DEF PortTypes
    <2>3. \A u \in Users : ser'[u] \in {ser[u], 0}
        BY <1>0, <2>1 DEF PortTypes
    <2>4. ASSUME NEW u \in Users, u # t PROVE (Reading(u) /\ Named(u) /\ Chosen(u) /\ Unhindered(u))'
        <3>1. at'[u] = at[u] /\ ser'[u] = ser[u]
            BY <1>0, <2>1, <2>4 DEF PortTypes
        <3> QED
            BY <1>0, <2>1, <2>3, <3>1, OthersRest, BoardRests
    <2>5. at'[t] = "ended" /\ ser'[t] = 0
        BY <1>0, <2>1 DEF PortTypes
    <2>6. (Reading(t) /\ Named(t) /\ Chosen(t))'
        BY <1>0, <2>1, <2>5 DEF Reading, Named, Chosen, Eligible, Serial!Before
    <2>7. Unhindered(t)'
        BY <1>0, <2>1, <2>3, <2>5, PortsAssumption DEF Unhindered
    <2> QED
        BY <2>2, <2>4, <2>6, <2>7 DEF PortInv
<1>6. ASSUME NEW t \in Users, Serial!Return(t) PROVE PortInv'
    <2>1. /\ at[t] \in {"failed", "ended"} /\ at' = [at EXCEPT ![t] = "idle"]
          /\ listed' = [listed EXCEPT ![t] = {}] /\ candidates' = [candidates EXCEPT ![t] = <<>>]
          /\ failures' = [failures EXCEPT ![t] = {}] /\ lost' = [lost EXCEPT ![t] = FALSE]
          /\ explicit' = [explicit EXCEPT ![t] = 0] /\ hindered' = [hindered EXCEPT ![t] = {}]
          /\ UNCHANGED <<plugged, taken, changes, ser>>
        BY <1>6 DEF Serial!Return, Serial!ports
    <2>2. PortTypes'
        BY <1>0, <2>1 DEF PortTypes
    <2>3. ASSUME NEW u \in Users, u # t PROVE (Reading(u) /\ Named(u) /\ Chosen(u) /\ Unhindered(u))'
        <3>1. /\ at'[u] = at[u] /\ listed'[u] = listed[u] /\ candidates'[u] = candidates[u]
              /\ failures'[u] = failures[u] /\ explicit'[u] = explicit[u] /\ hindered'[u] = hindered[u]
            BY <1>0, <2>1, <2>3 DEF PortTypes
        <3> QED
            BY <1>0, <2>1, <3>1, OthersRest, BoardRests
    <2>4. /\ at'[t] = "idle" /\ listed'[t] = {} /\ candidates'[t] = <<>> /\ failures'[t] = {}
          /\ explicit'[t] = 0 /\ ser'[t] = 0
        BY <1>0, <2>1 DEF PortTypes, Reading
    <2>5. (Reading(t) /\ Named(t) /\ Chosen(t) /\ Unhindered(t))'
        BY <2>4 DEF Reading, Named, Chosen, Unhindered
    <2> QED
        BY <2>2, <2>3, <2>5 DEF PortInv
<1>7. ASSUME NEW p \in Ports, Serial!Change(p) PROVE PortInv'
    <2>1. /\ changes < MaxChanges /\ changes' = changes + 1
          /\ hindered' = [u \in Users |-> hindered[u] \cup {p}]
          /\ UNCHANGED <<at, explicit, listed, candidates, failures, ser>>
        BY <1>7 DEF Serial!Change
    <2>2. /\ taken' \subseteq plugged' /\ plugged' \subseteq Ports /\ lost' \in [Users -> BOOLEAN]
          /\ \A q : q # p => (q \in plugged' <=> q \in plugged) /\ (q \in taken' <=> q \in taken)
        <3>1. CASE p \notin plugged /\ plugged' = plugged \cup {p} /\ UNCHANGED <<taken, lost>>
            BY <1>0, <3>1 DEF PortTypes
        <3>2. CASE /\ p \in plugged /\ plugged' = plugged \ {p} /\ taken' = taken \ {p}
                   /\ lost' = [u \in Users |-> lost[u] \/ ser[u] = p]
            <4>1. lost' \in [Users -> BOOLEAN]
                BY <1>0, <3>2, Zenon DEF PortTypes
            <4> QED
                BY <1>0, <3>2, <4>1 DEF PortTypes
        <3>3. CASE p \in plugged \ taken /\ taken' = taken \cup {p} /\ UNCHANGED <<plugged, lost>>
            BY <1>0, <3>3 DEF PortTypes
        <3>4. CASE p \in taken /\ taken' = taken \ {p} /\ UNCHANGED <<plugged, lost>>
            BY <1>0, <3>4 DEF PortTypes
        <3> QED
            BY <1>7, <3>1, <3>2, <3>3, <3>4 DEF Serial!Change
    <2>3. PortTypes'
        <3>1. hindered' \in [Users -> SUBSET Ports]
            BY <1>0, <2>1 DEF PortTypes
        <3>2. changes' \in 0 .. MaxChanges
            BY <1>0, <2>1, PortsAssumption DEF PortTypes
        <3> QED
            BY <1>0, <2>1, <2>2, <3>1, <3>2 DEF PortTypes
    <2>4. ASSUME NEW u \in Users PROVE (Reading(u) /\ Named(u) /\ Chosen(u) /\ Unhindered(u))'
        <3>1. (Reading(u) /\ Named(u) /\ Chosen(u))'
            BY <1>0, <2>1, OthersRest
        <3>2. hindered'[u] = hindered[u] \cup {p}
            BY <2>1
        <3>3. Unhindered(u)'
            BY <1>0, <2>1, <2>2, <3>2 DEF Unhindered
        <3> QED
            BY <3>1, <3>3
    <2> QED
        BY <2>3, <2>4 DEF PortInv
<1>8. ASSUME UNCHANGED portVars PROVE PortInv'
    <2>1. UNCHANGED <<plugged, taken, at, explicit, listed, candidates, failures, ser, lost, hindered, changes>>
        BY <1>8 DEF portVars
    <2>2. PortTypes'
        BY <1>0, <2>1 DEF PortTypes
    <2>3. ASSUME NEW u \in Users PROVE (Reading(u) /\ Named(u) /\ Chosen(u) /\ Unhindered(u))'
        BY <1>0, <2>1, OthersRest, BoardRests
    <2> QED
        BY <2>2, <2>3 DEF PortInv
<1> QED
    BY <1>1, <1>2, <1>3, <1>4, <1>5, <1>6, <1>7, <1>8
       DEF Serial!Next, Serial!ToolStep, Serial!End, Serial!EndLogs, Serial!StopCapture

LEMMA PortIsRight == PortInv => RightPort
<1> SUFFICES ASSUME PortInv PROVE RightPort
    OBVIOUS
<1> USE DEF Serial!None
<1>0. PortTypes /\ \A u \in Users : Reading(u) /\ Named(u) /\ Chosen(u) /\ Unhindered(u)
    BY DEF PortInv
<1>1. Serial!TypeOK
    <2>1. \A u \in Users : listed[u] \cup failures[u] \cup hindered[u] \subseteq Ports
        BY <1>0 DEF PortTypes
    <2>2. \A u \in Users : at[u] = "trying" => candidates[u] # <<>> /\ ser[u] = 0
        BY <1>0 DEF Reading
    <2> QED
        BY <1>0, <2>1, <2>2 DEF PortTypes, Serial!TypeOK
<1>2. ASSUME NEW u \in Users, at[u] = "streaming"
      PROVE  candidates[u] \in Seq(Ports) /\ 1 \in DOMAIN candidates[u] /\ ser[u] = candidates[u][1] /\ ser[u] \in Ports
    BY <1>0, <1>2, FirstAndRest DEF Reading, PortTypes
<1>3. \A u \in Users : ser[u] # 0 => at[u] = "streaming"
    BY <1>0 DEF Reading
<1>4. Serial!ExplicitIsObeyed
    <2>1. ASSUME NEW u \in Users, explicit[u] # 0 PROVE ser[u] \in {0, explicit[u]} /\ failures[u] \subseteq {explicit[u]}
        BY <1>0, <1>2, <1>3, <2>1 DEF Named
    <2> QED
        BY <2>1 DEF Serial!ExplicitIsObeyed
<1>5. ASSUME NEW u \in Users, at[u] = "streaming", explicit[u] = 0, NEW p \in Ports,
             Eligible(listed[u], p), p \notin failures[u], p # ser[u]
      PROVE  Serial!Before(ser[u], p)
    <2>1. PICK i \in DOMAIN candidates[u] : candidates[u][i] = p
        BY <1>0, <1>5 DEF Chosen
    <2>2. 1 < i
        BY <1>2, <1>5, <2>1
    <2> QED
        BY <1>0, <1>2, <1>5, <2>1, <2>2 DEF Chosen
<1>6. \A p \in Ports : Score[p] \in Nat /\ p \in Nat
    BY PortsAssumption
<1>7. Serial!BestFirst
    <2>1. ASSUME NEW u \in Users, explicit[u] = 0, ser[u] # 0
          PROVE  /\ Score[ser[u]] > 0 \/ listed[u] = {ser[u]}
                 /\ \A p \in listed[u] : Score[p] > Score[ser[u]] => p \in failures[u]
        <3>1. at[u] = "streaming" /\ ser[u] \in Ports
            BY <1>2, <1>3, <2>1
        <3>2. Eligible(listed[u], ser[u])
            BY <1>0, <1>2, <2>1, <3>1 DEF Chosen
        <3>3. ASSUME NEW p \in listed[u], Score[p] > Score[ser[u]] PROVE p \in failures[u]
            <4>1. p \in Ports /\ Eligible(listed[u], p) /\ p # ser[u]
                BY <1>0, <1>6, <3>1, <3>3 DEF PortTypes, Eligible
            <4>2. ~ Serial!Before(ser[u], p)
                BY <1>6, <3>1, <3>3, <4>1 DEF Serial!Before
            <4> QED
                BY <1>5, <2>1, <3>1, <4>1, <4>2
        <3> QED
            BY <3>2, <3>3 DEF Eligible
    <2> QED
        BY <2>1 DEF Serial!BestFirst
<1>8. Serial!GivesUpLast
    <2>1. ASSUME NEW u \in Users, at[u] = "failed", explicit[u] = 0
          PROVE  Serial!Likely(listed[u]) \subseteq failures[u]
                 /\ (Serial!Cardinality(listed[u]) = 1 => listed[u] \subseteq failures[u])
        <3>1. listed[u] \in SUBSET Ports
            BY <1>0 DEF PortTypes
        <3>2. \A p \in Ports : Eligible(listed[u], p) => p \in failures[u]
            BY <1>0, <2>1 DEF Chosen
        <3>3. Serial!Likely(listed[u]) \subseteq failures[u]
            BY <3>1, <3>2 DEF Serial!Likely, Eligible
        <3>4. ASSUME Cardinality(listed[u]) = 1 PROVE listed[u] \subseteq failures[u]
            <4>1. IsFiniteSet(listed[u])
                BY <3>1, PortsAssumption, FS_Subset
            <4>2. PICK p : listed[u] = {p}
                BY <3>4, <4>1, FS_Singleton
            <4> QED
                BY <3>1, <3>2, <4>2 DEF Eligible
        <3> QED
            BY <3>3, <3>4, SameCardinality
    <2> QED
        BY <1>0, <2>1 DEF Serial!GivesUpLast, Named
<1>9. Serial!BoardIsFound
    <2>1. ASSUME \A p \in Ports \ {BoardPort} : Score[p] < Score[BoardPort],
                 NEW u \in Users, explicit[u] = 0, BoardPort \notin hindered[u],
                 at[u] \in {"streaming", "failed"}
          PROVE  at[u] = "streaming" /\ ser[u] = BoardPort
        <3>1. BoardPort \in Ports /\ BoardPort \in listed[u] /\ BoardPort \notin failures[u]
            BY <1>0, <2>1, PortsAssumption DEF Unhindered
        <3>2. Eligible(listed[u], BoardPort)
            <4>1. CASE \E p \in listed[u] : p # BoardPort
                <5>1. PICK p \in Ports : p # BoardPort
                    BY <1>0, <4>1 DEF PortTypes
                <5>2. Score[p] < Score[BoardPort] /\ Score[p] \in Nat /\ Score[BoardPort] \in Nat
                    BY <1>6, <2>1, <3>1, <5>1
                <5> QED
                    BY <3>1, <5>2 DEF Eligible
            <4>2. CASE \A p \in listed[u] : p = BoardPort
                BY <3>1, <4>2 DEF Eligible
            <4> QED
                BY <4>1, <4>2
        <3>3. at[u] = "streaming"
            BY <1>0, <2>1, <3>1, <3>2 DEF Chosen
        <3>4. ASSUME ser[u] # BoardPort PROVE FALSE
            <4>1. Serial!Before(ser[u], BoardPort) /\ ser[u] \in Ports \ {BoardPort}
                BY <1>2, <1>5, <2>1, <3>1, <3>2, <3>3, <3>4
            <4> QED
                BY <1>6, <2>1, <3>1, <4>1 DEF Serial!Before
        <3> QED
            BY <3>3, <3>4
    <2> QED
        BY <2>1 DEF Serial!BoardIsFound
<1>10. Serial!PortIsClosed
    BY <1>0 DEF Reading, Serial!PortIsClosed
<1> QED
    BY <1>1, <1>4, <1>7, <1>8, <1>9, <1>10 DEF RightPort

\* RightPort (make_helpers.py): whatever is plugged in, pulled out or taken
\* between a tool's look at the ports and its attempts to open them, it reads
\* the port it was told to or the likeliest one that opens.
THEOREM RightPortHolds == ToolsSpec => []RightPort
<1>1. ToolsInit => PortInv
    BY PortsStart DEF ToolsInit
<1>2. PortInv /\ [ToolsNext]_all => PortInv'
    BY PortSteps, StepsOfTools
<1> QED
    BY <1>1, <1>2, PortIsRight, PTL DEF ToolsSpec

-----------------------------------------------------------------------------
(* CellVerdict.                                                            *)

\* The cells of the model, with their counters.
LEMMA MeasuredCell ==
    ASSUME NEW m \in Verdict!Cells
    PROVE  /\ m.target \in Nat /\ m.pixels \in Nat /\ m.missed \in Int
           /\ m.delta \in [Verdict!HardErrors -> 0 .. 2]
           /\ Verdict!Showable(m.target, m.pixels, (m.target * Duration) - m.missed, m.delta["pl_dropped"])
<1>1. /\ m.target \in Targets /\ m.pixels \in Lengths /\ m.missed \in Slack /\ m.delta \in Verdict!Increments
      /\ Verdict!Showable(m.target, m.pixels, (m.target * Duration) - m.missed, m.delta["pl_dropped"])
    BY DEF Verdict!Cells
<1>2. m.delta \in [Verdict!HardErrors -> 0 .. 2]
    BY <1>1 DEF Verdict!Increments
<1> QED
    BY <1>1, <1>2, MeasureAssumption

LEMMA HardErrorsFinite == IsFiniteSet(Verdict!HardErrors) /\ Verdict!ZeroDelta \subseteq Verdict!HardErrors
<1>1. \A S, a : IsFiniteSet(S) => IsFiniteSet(S \cup {a})
    BY FS_AddElement
<1>0. IsFiniteSet({})
    BY FS_EmptySet
<1>2. IsFiniteSet({"rx_pbuf_alloc_failures", "rx_ring_dropped", "e131_rejected"})
    <2>1. {"rx_pbuf_alloc_failures", "rx_ring_dropped", "e131_rejected"} =
            (({} \cup {"rx_pbuf_alloc_failures"}) \cup {"rx_ring_dropped"}) \cup {"e131_rejected"}
        OBVIOUS
    <2> QED
        <3>1. IsFiniteSet({} \cup {"rx_pbuf_alloc_failures"})
            BY <1>0, <1>1
        <3>2. IsFiniteSet(({} \cup {"rx_pbuf_alloc_failures"}) \cup {"rx_ring_dropped"})
            BY <1>1, <3>1
        <3>3. IsFiniteSet((({} \cup {"rx_pbuf_alloc_failures"}) \cup {"rx_ring_dropped"}) \cup {"e131_rejected"})
            BY <1>1, <3>2
        <3> QED
            BY <2>1, <3>3
<1>3. IsFiniteSet(Verdict!Listed)
    <2>1. Verdict!Listed =
            ((({"rx_pbuf_alloc_failures", "rx_ring_dropped", "e131_rejected"} \cup {"sequence_anomalies"})
                \cup {"pl_dropped"}) \cup {"pl_rejected"}) \cup {"consumer_errors"}
        BY DEF Verdict!Listed
    <2> QED
        BY <1>1, <1>2, <2>1
<1>4. Verdict!HardErrors = ((Verdict!Listed \cup {"frames_dropped"}) \cup {"incomplete_sweeps"}) \cup {"rx_oversized"}
    BY DEF Verdict!HardErrors, Verdict!ZeroDelta
<1> QED
    BY <1>1, <1>3, <1>4 DEF Verdict!HardErrors

\* No errors means that no counter of the set moved.
LEMMA NoErrors ==
    ASSUME measured.delta \in [Verdict!HardErrors -> 0 .. 2], NEW keys \in SUBSET Verdict!HardErrors
    PROVE  Verdict!Errors(keys) = 0 <=> \A k \in keys : measured.delta[k] = 0
<1> DEFINE moved == {k \in keys : measured.delta[k] >= 1}
           twice == {k \in keys : measured.delta[k] = 2}
<1>1. /\ IsFiniteSet(moved) /\ IsFiniteSet(twice)
    BY HardErrorsFinite, FS_Subset
<1>2. Cardinality(moved) \in Nat /\ Cardinality(twice) \in Nat
    BY <1>1, FS_CardinalityType
<1>3. (Cardinality(moved) = 0 <=> moved = {}) /\ (Cardinality(twice) = 0 <=> twice = {})
    BY <1>1, FS_EmptySet
<1>4. moved = {} <=> \A k \in keys : measured.delta[k] = 0
    <2>1. \A k \in keys : measured.delta[k] \in 0 .. 2
        OBVIOUS
    <2>2. \A n \in 0 .. 2 : n >= 1 <=> n # 0
        OBVIOUS
    <2> QED
        BY <2>1, <2>2
<1>5. twice \subseteq moved
    BY SMT
<1>6. Verdict!Errors(keys) = Cardinality(moved) + Cardinality(twice)
    <2>1. Verdict!Errors(keys) = Cardinality({k \in keys : measured.delta[k] >= 1})
                                   + Cardinality({k \in keys : measured.delta[k] = 2})
        BY SameCardinality DEF Verdict!Errors
    <2> QED
        BY <2>1
<1> HIDE DEF moved, twice
<1>7. Verdict!Errors(keys) = 0 <=> Cardinality(moved) = 0 /\ Cardinality(twice) = 0
    BY <1>2, <1>6
<1> QED
    BY <1>3, <1>4, <1>5, <1>7

\* The frames a stable cell committed were on the strands.
LEMMA ReachedIsShown ==
    ASSUME NEW t \in Nat, NEW p \in Nat, NEW missed \in Int, Verdict!Showable(t, p, (t * Duration) - missed, 0),
           100 * ((t * Duration) - missed) >= 99 * t * Duration
    PROVE  ((99 * t * Duration) - 200) * Verdict!FrameTime(p) <= 100 * Duration * 1000000
<1>1. PICK f \in Nat : f = Verdict!FrameTime(p)
    BY DEF Verdict!FrameTime
<1>2. PICK a \in Int : a = 99 * t * Duration
    BY MeasureAssumption
<1>3. PICK c \in Int : c = (t * Duration) - missed
    BY MeasureAssumption
<1>4. (c - 2) * f <= Duration * 1000000
    BY <1>1, <1>3 DEF Verdict!Showable
<1>5. a - 200 <= 100 * (c - 2)
    BY <1>2, <1>3
<1>6. (a - 200) * f <= (100 * (c - 2)) * f
    BY <1>1, <1>2, <1>3, <1>5
<1>7. (100 * (c - 2)) * f = 100 * ((c - 2) * f)
    BY <1>1, <1>3
<1>8. 100 * ((c - 2) * f) <= 100 * Duration * 1000000
    BY <1>1, <1>3, <1>4, MeasureAssumption
<1>9. (a - 200) * f \in Int /\ 100 * ((c - 2) * f) \in Int /\ 100 * Duration * 1000000 \in Int
    BY <1>1, <1>2, <1>3, MeasureAssumption
<1> QED
    BY <1>1, <1>2, <1>6, <1>7, <1>8, <1>9

LEMMA JudgeIsSound ==
    ASSUME Verdict!TypeOK, Verdict!Judge
    PROVE  (Verdict!TypeOK /\ Verdict!VerdictsAgree /\ Verdict!NotStableAboveLimit /\ Verdict!LimitFirst)'
<1>1. measured' = measured /\ strict' = Verdict!StrictClassify /\ class' = Verdict!Classify
    BY DEF Verdict!Judge
<1>2. PICK m \in Verdict!Cells : m = measured
    BY DEF Verdict!TypeOK
<1>3. /\ m.target \in Nat /\ m.pixels \in Nat /\ m.missed \in Int
      /\ measured.delta \in [Verdict!HardErrors -> 0 .. 2]
      /\ Verdict!Showable(m.target, m.pixels, (m.target * Duration) - m.missed, m.delta["pl_dropped"])
    BY <1>2, MeasuredCell
<1>4. /\ Verdict!Errors(Verdict!HardErrors) = 0 <=> \A k \in Verdict!HardErrors : measured.delta[k] = 0
      /\ Verdict!Errors(Verdict!ZeroDelta) = 0 <=> \A k \in Verdict!ZeroDelta : measured.delta[k] = 0
    BY <1>3, NoErrors, HardErrorsFinite
<1>5. strict' \in {"pass", "fail"} /\ class' \in {"stable", "marginal", "broken"}
    BY <1>1 DEF Verdict!StrictClassify, Verdict!Classify
<1>6. bottleneck' \in {"none_observed", "dma_likely_needed", "not_dma_limited", "undetermined"}
    BY DEF Verdict!Judge, Verdict!InferBottleneck
<1>7. /\ class' = "stable" => Verdict!Errors(Verdict!HardErrors) = 0 /\ Verdict!Reaches(99)
      /\ strict' = "pass" => Verdict!Errors(Verdict!ZeroDelta) = 0 /\ Verdict!Reaches(99)
    BY <1>1 DEF Verdict!StrictClassify, Verdict!Classify
<1>8. Verdict!TypeOK'
    BY <1>1, <1>5, <1>6 DEF Verdict!TypeOK
<1>9. Verdict!VerdictsAgree'
    <2>1. ASSUME class' = "stable" PROVE strict' = "pass"
        BY <1>1, <1>4, <1>7, <2>1, HardErrorsFinite DEF Verdict!StrictClassify
    <2>2. ASSUME strict' = "pass", ~ (measured.delta["rx_oversized"] > 0) PROVE class' = "stable"
        <3>1. "rx_oversized" \in Verdict!HardErrors /\ Verdict!HardErrors = Verdict!ZeroDelta \cup {"rx_oversized"}
            BY DEF Verdict!HardErrors
        <3>2. measured.delta["rx_oversized"] = 0
            BY <1>3, <2>2, <3>1
        <3>3. \A k \in Verdict!HardErrors : measured.delta[k] = 0
            BY <1>4, <1>7, <2>2, <3>1, <3>2
        <3> QED
            BY <1>1, <1>4, <1>7, <2>2, <3>3 DEF Verdict!Classify
    <2> QED
        BY <1>1, <2>1, <2>2 DEF Verdict!VerdictsAgree
<1>10. Verdict!NotStableAboveLimit'
    <2>1. ASSUME class' = "stable" \/ strict' = "pass"
          PROVE  ((99 * m.target * Duration) - 200) * Verdict!FrameTime(m.pixels) <= 100 * Duration * 1000000
        <3>1. Verdict!Reaches(99) /\ \A k \in Verdict!ZeroDelta : measured.delta[k] = 0
            BY <1>4, <1>7, <2>1, HardErrorsFinite
        <3>2. "pl_dropped" \in Verdict!ZeroDelta
            BY DEF Verdict!ZeroDelta, Verdict!Listed
        <3>3. m.delta["pl_dropped"] = 0
            BY <1>2, <3>1, <3>2
        <3>4. 100 * ((m.target * Duration) - m.missed) >= 99 * m.target * Duration
            BY <1>2, <3>1 DEF Verdict!Reaches, Verdict!Committed
        <3> QED
            BY <1>3, <3>3, <3>4, ReachedIsShown
    <2>2. measured' = m
        BY <1>1, <1>2
    <2> QED
        BY <2>1, <2>2 DEF Verdict!NotStableAboveLimit, Verdict!FrameTime
<1>11. Verdict!LimitFirst'
    <2>1. bottleneck' = Verdict!InferBottleneck(class')
        BY DEF Verdict!Judge
    <2>2. /\ bottleneck' = "dma_likely_needed" => Verdict!WithinLimit(m.target, m.pixels)
          /\ class' = "broken" /\ ~Verdict!WithinLimit(m.target, m.pixels) => bottleneck' = "not_dma_limited"
        BY <1>2, <2>1 DEF Verdict!InferBottleneck
    <2>3. measured' = m
        BY <1>1, <1>2
    <2> QED
        BY <2>2, <2>3 DEF Verdict!LimitFirst, Verdict!WithinLimit, Verdict!FrameTime
<1> QED
    BY <1>8, <1>9, <1>10, <1>11

LEMMA VerdictStarts == ToolsInit => VerdictIsSound
<1> SUFFICES ASSUME ToolsInit PROVE VerdictIsSound
    OBVIOUS
<1>1. strict = "none" /\ class = "none" /\ bottleneck = "none" /\ (tool = "verdict" => measured \in Verdict!Cells)
    BY DEF ToolsInit, Verdict!Init
<1> QED
    BY <1>1 DEF VerdictIsSound, Verdict!TypeOK, Verdict!VerdictsAgree, Verdict!NotStableAboveLimit, Verdict!LimitFirst

LEMMA VerdictSteps == VerdictIsSound /\ [ToolsNext]_all => VerdictIsSound'
<1> SUFFICES ASSUME VerdictIsSound, [ToolsNext]_all PROVE VerdictIsSound'
    OBVIOUS
<1>1. CASE VerdictStep
    <2>1. tool' = tool /\ Verdict!TypeOK /\ Verdict!Judge
        BY <1>1 DEF VerdictStep, Verdict!Next, VerdictIsSound
    <2> QED
        BY <2>1, JudgeIsSound DEF VerdictIsSound
<1>2. CASE UNCHANGED <<tool, verdictVars>>
    BY <1>2 DEF VerdictIsSound, verdictVars, Verdict!TypeOK, Verdict!VerdictsAgree,
                Verdict!NotStableAboveLimit, Verdict!LimitFirst, Verdict!FrameTime, Verdict!WithinLimit
<1> QED
    BY <1>1, <1>2 DEF ToolsNext, CellsStep, JtagStep, PortStep, all

\* VerdictIsSound (e131_benchmark.py, e131_profile_report.py): for every cell,
\* the verdicts of the two tools agree but for oversized packets, and a good one
\* means that the strands can show 99 % of the target, less two frames.
THEOREM VerdictIsSoundHolds == ToolsSpec => []VerdictIsSound
<1> QED
    BY VerdictStarts, VerdictSteps, PTL DEF ToolsSpec

-----------------------------------------------------------------------------
(* BenchCell.                                                              *)

\* Where the main thread is: outside a cell or at its beginning, with the
\* board still running what it ran before; at a step of the cell after its
\* application was started; or out of the loop.
OldBoard == {"next", "drain", "program", "download"}
Waiting == {"config", "configQueue"}
Baselining == {"mark", "baseline", "baselineQueue", "drainBaseline"}
Measuring == {"send", "after", "snapshot"}
Begun == Waiting \cup Baselining \cup Measuring
NewBoard == {"running"} \cup Begun
Left == {"stop", "done"}

\* The lines the cell has read, those on their way, and those queued.
Read == {lines[i] : i \in DOMAIN lines}
Coming == {wire[i] : i \in DOMAIN wire} \cup (IF reader = "put" THEN {hand} ELSE {})
Queued == {queue[i] : i \in DOMAIN queue}
\* The lines that the reader has in its hand or in the queue: it has appended
\* them to the lines read.
Passed == Queued \cup (IF reader = "put" THEN {hand} ELSE {})
Known == Read \cup Coming \cup Queued \cup {hand, cell.before, cell.after, cell.latest}

CellTypes ==
    /\ args \in CommandLines
    /\ pc \in OldBoard \cup NewBoard \cup Left
    /\ cell \in [statusStart : Nat, before : Lines, after : Lines, latest : Lines, sent : 0 .. MaxSent]
    /\ rows \in Seq(Int \X Int)
    /\ app \in Nat /\ rx \in Nat /\ errors \in Nat /\ net \in Nat /\ printed \in Nat
    /\ boardPixels \in Int /\ board \in {"off", "boot", "run", "dead"}
    /\ lines \in Seq(Lines) /\ queue \in Seq(Lines) /\ wire \in Seq(Lines) /\ hand \in Lines
    /\ Len(wire) <= WireCap
    /\ reader \in {"read", "put", "ended"} /\ failed \in BOOLEAN /\ stopping \in BOOLEAN

\* A line tells what the counters were: none is ahead of them, and an error
\* that a line does not show yet is of a packet that it does not show either.
TrueLine(l) ==
    /\ l.app <= app /\ l.errors <= l.rx
    /\ l.app = app => l.rx <= rx /\ l.errors <= errors /\ errors - l.errors <= rx - l.rx

LinesAreTrue ==
    /\ errors <= rx
    /\ \A l \in Known : TrueLine(l)
    /\ board = "boot" => rx = 0 /\ \A l \in Read \cup Coming \cup Queued : l.app # app

\* Line m was printed after line l.
Earlier(l, m) == l.app < m.app \/ (l.app = m.app /\ l.rx <= m.rx /\ m.kind # "config")

LinesInOrder ==
    /\ \A i, j \in DOMAIN lines : i < j => Earlier(lines[i], lines[j])
    /\ \A i, j \in DOMAIN wire : i < j => Earlier(wire[i], wire[j])
    /\ \A i \in DOMAIN lines, j \in DOMAIN wire : Earlier(lines[i], wire[j])
    /\ reader = "put" => lines = <<>> \/ lines[Len(lines)] = hand
    /\ reader = "put" => \A j \in DOMAIN wire : Earlier(hand, wire[j])

\* The lines a cell may still read of the run before: either no configuration
\* line is among them, or no packet has been counted in any of them.
OldLines ==
    pc \in OldBoard =>
        /\ net = 0
        /\ \A l \in Coming : l.app = app
        /\ pc # "next" => \A l \in Read : l.app = app
        /\ pc \in {"program", "download"} => \A l \in Queued : l.app = app
        /\ \/ rx = 0
           \/ /\ board # "boot"
              /\ \A l \in Coming : l.kind # "config"
              /\ pc # "next" => \A l \in Read : l.kind # "config"
              /\ pc \in {"program", "download"} => \A l \in Queued : l.kind # "config"
        /\ pc # "next" => cell = NoCell
        /\ pc = "download" => board = "off"

\* So of the configuration line it waits for, a cell finds its own board's, or
\* it may go on without - with a board that died before it printed one, and
\* statuses of the run before that count nothing.
FoundConfig ==
    /\ pc \in NewBoard =>
        \A l \in Passed : l.app = app => \E i \in DOMAIN lines : lines[i].app = app
    /\ pc \in {"running"} \cup Waiting =>
        \/ \A l \in Read \cup Queued \cup Coming : l.app < app => l.kind # "config"
        \/ \A l \in Read \cup Queued \cup Coming : l.app < app => l.rx = 0
    /\ pc = "mark" => \/ \E i \in DOMAIN lines : lines[i].app = app
                      \/ \A i \in DOMAIN lines : lines[i].rx = 0
    /\ pc \in (Baselining \ {"mark"}) \cup Measuring =>
        /\ cell.statusStart <= Len(lines)
        /\ \A i \in DOMAIN lines : i > cell.statusStart => lines[i].app = app \/ lines[i].rx = 0
        /\ board = "run" => \A i \in DOMAIN lines : i > cell.statusStart => lines[i].app = app

\* Once the application runs, everything on its way is of it; a board that
\* lives has been heard of, and one that was not heard of counts nothing.
OwnBoard ==
    /\ pc \in {"running"} \cup Waiting \cup Baselining => rx = 0 /\ net = 0 /\ cell.sent = 0
    /\ pc \in Begun =>
        /\ \A l \in Coming : l.app = app
        /\ board \in {"run", "dead"}
        /\ board = "run" => \E i \in DOMAIN lines : lines[i].app = app
        /\ (rx = 0 /\ board = "dead") \/ \A l \in Coming : l.kind # "config"
    /\ pc = "running" => board \in {"boot", "run", "dead"}

\* The sender's packets are counted, on their way or lost.
Counts ==
    /\ pc \in Measuring =>
        /\ rx + net <= cell.sent
        /\ cell.before.rx = 0 /\ cell.before.errors = 0
        /\ \A l \in Queued : l.app = app
    /\ pc = "drainBaseline" => cell.before.rx = 0 /\ cell.before.errors = 0

\* A fresh status is of a board that has received all it will.
FreshLines ==
    /\ pc \in NewBoard \ {"after", "snapshot"} =>
        \A l \in Read \cup Queued \cup Coming : l.app = app => ~l.fresh
    /\ pc \in {"after", "snapshot"} =>
        /\ cell.sent > 0
        /\ \A l \in Read \cup Coming : l.app = app /\ l.fresh => net = 0 /\ l.rx = rx /\ l.kind = "status"
        /\ \A i \in DOMAIN lines : lines[i].app = app /\ lines[i].fresh => i > cell.statusStart
    /\ pc = "after" => /\ cell.latest.kind = "status" => cell.latest.app = app \/ cell.latest.rx = 0
                       /\ cell.latest.kind = "status" /\ board = "run" => cell.latest.app = app
                       /\ cell.latest.kind # "status" => cell.latest = None

\* The status a cell ends with.
AfterStatus ==
    pc = "snapshot" =>
        /\ net = 0
        /\ cell.after.app = app \/ cell.after.rx = 0
        /\ board = "run" => cell.after.app = app /\ cell.after.rx = rx

RowsSoFar ==
    \A a \in CommandLines : a = args =>
        /\ index \in 0 .. Len(Cells(a)) /\ Len(rows) <= index
        /\ \A i \in DOMAIN rows : rows[i] = Cells(a)[i]
        /\ pc = "next" => Len(rows) = index
        /\ pc \in (OldBoard \ {"next"}) \cup NewBoard => Len(rows) + 1 = index
        /\ pc \in Left /\ ~failed => Len(rows) = Len(Cells(a))
        /\ failed => pc \in Left

\* What the files say already.
RowFacts == RowCountsCell /\ StableMeansClean

CellInv ==
    /\ CellTypes /\ LinesAreTrue /\ LinesInOrder /\ OldLines /\ FoundConfig /\ OwnBoard
    /\ Counts /\ FreshLines /\ AfterStatus /\ RowsSoFar
    /\ RowFacts

Below == {ss \in Nat \X Nat : ss[1] < ss[2]}

\* Every set of natural numbers has a least one, and a bounded one a greatest.
LEMMA LeastNumber == ASSUME NEW T \in SUBSET Nat, T # {} PROVE \E x \in T : \A y \in T : x <= y
<1>1. IsWellFoundedOn(Below, Nat)
    BY NatLessThanWellFounded DEF OpToRel, Below
<1>2. PICK x \in T : \A y \in T : ~(<<y, x>> \in Below)
    BY <1>1, WFMin
<1>3. ASSUME NEW y \in T PROVE x <= y
    <2>1. <<y, x>> \in Nat \X Nat /\ <<y, x>>[1] = y /\ <<y, x>>[2] = x
        OBVIOUS
    <2> QED
        BY <1>2, <2>1 DEF Below
<1> QED
    BY <1>3

LEMMA GreatestNumber ==
    ASSUME NEW n \in Nat, NEW S \in SUBSET (1 .. n), S # {}
    PROVE  Max(S) \in S /\ \A y \in S : y <= Max(S)
<1> DEFINE T == {n - x : x \in S}
<1>1. T \in SUBSET Nat /\ T # {}
    <2>1. \A x \in S : n - x \in Nat
        OBVIOUS
    <2> QED
        BY <2>1
<1>2. PICK t \in T : \A y \in T : t <= y
    BY <1>1, LeastNumber
<1>3. PICK x \in S : t = n - x
    BY <1>2
<1>4. ASSUME NEW y \in S PROVE x >= y
    <2>1. n - y \in T /\ x \in Int /\ y \in Int
        OBVIOUS
    <2>2. n - x <= n - y
        BY <1>2, <1>3, <2>1
    <2> QED
        BY <2>1, <2>2
<1>5. \E z \in S : \A y \in S : z >= y
    BY <1>4
<1>6. Max(S) \in S /\ \A y \in S : Max(S) >= y
    BY <1>5 DEF Max
<1> QED
    BY <1>6

LEMMA AppendedLine ==
    ASSUME NEW w \in Seq(Lines), NEW l \in Lines, NEW v, v = Append(w, l)
    PROVE  /\ v \in Seq(Lines) /\ Len(w) \in Nat /\ Len(v) = Len(w) + 1
           /\ DOMAIN w = 1 .. Len(w) /\ DOMAIN v = 1 .. Len(w) + 1
           /\ \A i \in DOMAIN w : i \in DOMAIN v /\ v[i] = w[i]
           /\ \A i \in DOMAIN v : i \in DOMAIN w \/ (i = Len(w) + 1 /\ v[i] = l)
           /\ v[Len(w) + 1] = l
           /\ \A i \in DOMAIN v : (i \in DOMAIN w /\ v[i] = w[i]) \/ v[i] = l
           /\ \E i \in DOMAIN v : v[i] = l
<1>1. /\ v \in Seq(Lines) /\ Len(w) \in Nat /\ Len(v) = Len(w) + 1
      /\ DOMAIN w = 1 .. Len(w) /\ DOMAIN v = 1 .. Len(w) + 1
    OBVIOUS
<1>2. /\ \A i \in DOMAIN w : i \in DOMAIN v /\ v[i] = w[i]
      /\ v[Len(w) + 1] = l
    OBVIOUS
<1>3. \A i \in DOMAIN v : i \in DOMAIN w \/ (i = Len(w) + 1 /\ v[i] = l)
    BY <1>1, <1>2
<1>4. Len(w) + 1 \in DOMAIN v
    BY <1>1
<1> QED
    BY <1>1, <1>2, <1>3, <1>4

LEMMA FirstLine ==
    ASSUME NEW w \in Seq(Lines), w # <<>>, NEW v, v = Tail(w)
    PROVE  /\ v \in Seq(Lines) /\ Len(w) \in Nat \ {0} /\ Len(v) = Len(w) - 1
           /\ DOMAIN w = 1 .. Len(w) /\ DOMAIN v = 1 .. Len(w) - 1
           /\ 1 \in DOMAIN w /\ Head(w) = w[1] /\ w[1] \in Lines
           /\ \A i \in DOMAIN v : i + 1 \in DOMAIN w /\ v[i] = w[i + 1]
           /\ \A i \in DOMAIN w : i = 1 \/ (i - 1 \in DOMAIN v /\ v[i - 1] = w[i])
           /\ \A i \in DOMAIN w : w[i] = w[1] \/ \E j \in DOMAIN v : v[j] = w[i]
           /\ \A j \in DOMAIN v : \E i \in DOMAIN w : v[j] = w[i]
<1>1. /\ v \in Seq(Lines) /\ Len(w) \in Nat \ {0} /\ Len(v) = Len(w) - 1
      /\ DOMAIN w = 1 .. Len(w) /\ DOMAIN v = 1 .. Len(w) - 1
      /\ 1 \in DOMAIN w /\ Head(w) = w[1] /\ w[1] \in Lines
    OBVIOUS
<1>2. \A i \in DOMAIN v : i + 1 \in DOMAIN w /\ v[i] = w[i + 1]
    OBVIOUS
<1>3. \A i \in DOMAIN w : i = 1 \/ (i - 1 \in DOMAIN v /\ v[i - 1] = w[i])
    OBVIOUS
<1> QED
    BY <1>1, <1>2, <1>3

LEMMA NoLine == None \in Lines /\ None.kind = "none" /\ None.app = 0 /\ None.rx = 0 /\ None.errors = 0
    BY DEF None, Lines

LEMMA LineFields ==
    ASSUME NEW l \in Lines
    PROVE  /\ l.kind \in {"none", "config", "status"} /\ l.app \in Nat /\ l.pixels \in Int
           /\ l.rx \in Nat /\ l.errors \in Nat /\ l.fresh \in BOOLEAN
    BY DEF Lines

LEMMA PrintedLines ==
    ASSUME CellTypes
    PROVE  /\ ConfigLine \in Lines /\ ConfigLine.kind = "config" /\ ConfigLine.app = app
           /\ ConfigLine.rx = 0 /\ ConfigLine.errors = 0 /\ ~ConfigLine.fresh
           /\ StatusLine \in Lines /\ StatusLine.kind = "status" /\ StatusLine.app = app
           /\ StatusLine.rx = rx /\ StatusLine.errors = errors
           /\ StatusLine.fresh <=> (pc = "after" /\ net = 0)
<1>1. /\ ConfigLine \in Lines /\ ConfigLine.kind = "config" /\ ConfigLine.app = app
      /\ ConfigLine.rx = 0 /\ ConfigLine.errors = 0 /\ ~ConfigLine.fresh
    BY DEF CellTypes, ConfigLine, None, Lines
<1>2. PICK b \in BOOLEAN : b = (pc = "after" /\ net = 0)
    OBVIOUS
<1>3. StatusLine = [None EXCEPT !.kind = "status", !.app = app, !.rx = rx, !.errors = errors, !.fresh = b]
    <2>1. StatusLine = [None EXCEPT !.kind = "status", !.app = app, !.rx = rx, !.errors = errors,
                                    !.fresh = (pc = "after" /\ net = 0)]
        BY Zenon DEF StatusLine
    <2> QED
        BY <1>2, <2>1, Zenon
<1>4. StatusLine = [kind |-> "status", app |-> app, pixels |-> 0, rx |-> rx, errors |-> errors, fresh |-> b]
    BY <1>3 DEF None
<1>5. StatusLine.fresh <=> (pc = "after" /\ net = 0)
    BY <1>2, <1>4
<1> QED
    BY <1>1, <1>4, <1>5 DEF CellTypes, Lines

CellRecords == [statusStart : Nat, before : Lines, after : Lines, latest : Lines, sent : 0 .. MaxSent]

LEMMA CellUpdates ==
    ASSUME NEW c \in CellRecords, NEW n \in Nat, NEW l \in Lines, NEW k \in 0 .. MaxSent
    PROVE  /\ c.statusStart \in Nat /\ c.before \in Lines /\ c.after \in Lines /\ c.latest \in Lines
           /\ c.sent \in 0 .. MaxSent /\ c.sent \in Nat
           /\ \A d : d = [c EXCEPT !.statusStart = n] =>
                d \in CellRecords /\ d.statusStart = n /\ d.before = c.before /\ d.after = c.after
                /\ d.latest = c.latest /\ d.sent = c.sent
           /\ \A d : d = [c EXCEPT !.before = l] =>
                d \in CellRecords /\ d.statusStart = c.statusStart /\ d.before = l /\ d.after = c.after
                /\ d.latest = c.latest /\ d.sent = c.sent
           /\ \A d : d = [c EXCEPT !.after = l] =>
                d \in CellRecords /\ d.statusStart = c.statusStart /\ d.before = c.before /\ d.after = l
                /\ d.latest = c.latest /\ d.sent = c.sent
           /\ \A d : d = [c EXCEPT !.latest = l] =>
                d \in CellRecords /\ d.statusStart = c.statusStart /\ d.before = c.before /\ d.after = c.after
                /\ d.latest = l /\ d.sent = c.sent
           /\ \A d : d = [c EXCEPT !.sent = k] =>
                d \in CellRecords /\ d.statusStart = c.statusStart /\ d.before = c.before /\ d.after = c.after
                /\ d.latest = c.latest /\ d.sent = k
    BY BenchAssumption DEF CellRecords

LEMMA EmptyCell == NoCell \in CellRecords /\ NoCell.before = None /\ NoCell.after = None
                   /\ NoCell.latest = None /\ NoCell.sent = 0
    BY NoLine, BenchAssumption DEF NoCell, CellRecords

LEMMA CellTyped == CellTypes => cell \in CellRecords
    BY DEF CellTypes, CellRecords

\* The lines the invariant speaks of are lines.
LEMMA KnownLines ==
    ASSUME CellTypes
    PROVE  /\ \A l \in Known : l.app \in Nat /\ l.rx \in Nat /\ l.errors \in Nat /\ l.fresh \in BOOLEAN
           /\ Known \subseteq Lines /\ Read \cup Coming \cup Queued \subseteq Known
           /\ cell.before \in Known /\ cell.after \in Known /\ cell.latest \in Known
           /\ \A i \in DOMAIN lines : lines[i] \in Read
           /\ \A i \in DOMAIN wire : wire[i] \in Coming
           /\ \A i \in DOMAIN queue : queue[i] \in Queued
           /\ reader = "put" => hand \in Coming
           /\ \A l \in Read : \E i \in DOMAIN lines : l = lines[i]
<1>1. Read \subseteq Lines /\ Coming \subseteq Lines /\ Queued \subseteq Lines
    BY DEF CellTypes, Read, Coming, Queued
<1>2. Known \subseteq Lines
    BY <1>1, CellTyped, CellUpdates, NoLine DEF CellTypes, Known, CellRecords
<1>3. \A l \in Known : l.app \in Nat /\ l.rx \in Nat /\ l.errors \in Nat /\ l.fresh \in BOOLEAN
    BY <1>2, LineFields
<1> QED
    BY <1>2, <1>3 DEF Known, Read, Coming, Queued

LEMMA QueuedLines ==
    ASSUME queue \in Seq(Lines), queue' = queue \/ (queue # <<>> /\ queue' = Tail(queue))
    PROVE  queue' \in Seq(Lines) /\ Queued' \subseteq Queued /\ (queue # <<>> => Head(queue) \in Queued)
    BY FirstLine DEF Queued

\* latest_status returns the last status line from the cell's start on.
LEMMA Latest ==
    ASSUME CellTypes
    PROVE  /\ LatestStatus \in Lines
           /\ \/ /\ LatestStatus = None
                 /\ \A j \in DOMAIN lines : j > cell.statusStart => lines[j].kind # "status"
              \/ \E i \in DOMAIN lines :
                    /\ i > cell.statusStart /\ lines[i].kind = "status" /\ LatestStatus = lines[i]
                    /\ \A j \in DOMAIN lines : j > cell.statusStart /\ lines[j].kind = "status" => j <= i
<1>1. cell.statusStart \in Nat /\ lines \in Seq(Lines) /\ Len(lines) \in Nat /\ DOMAIN lines = 1 .. Len(lines)
    BY DEF CellTypes
<1>2. PICK found \in SUBSET (1 .. Len(lines)) :
        found = {i \in cell.statusStart + 1 .. Len(lines) : lines[i].kind = "status"}
    <2>1. \A i \in cell.statusStart + 1 .. Len(lines) : i \in 1 .. Len(lines)
        BY <1>1
    <2> QED
        BY <2>1
<1>3. LatestStatus = IF found = {} THEN None ELSE lines[Max(found)]
    BY <1>2 DEF LatestStatus, IsStatus
<1>4. \A j \in DOMAIN lines : j \in found <=> j > cell.statusStart /\ lines[j].kind = "status"
    BY <1>1, <1>2
<1>5. CASE found = {}
    BY <1>3, <1>4, <1>5, NoLine
<1>6. CASE found # {}
    <2>1. PICK i \in found : i = Max(found) /\ \A y \in found : y <= i
        BY <1>1, <1>6, GreatestNumber
    <2>2. i \in DOMAIN lines /\ lines[i] \in Lines /\ LatestStatus = lines[i]
        BY <1>1, <1>3, <1>6, <2>1
    <2> QED
        BY <1>4, <2>1, <2>2
<1> QED
    BY <1>5, <1>6

-----------------------------------------------------------------------------
(* One lemma for each action: it keeps the invariant.                       *)

\* The configuration line is the first of its run of the application, so it comes
\* after every line there is.
LEMMA BoardPrintsConfigKeeps ==
    ASSUME CellInv, BoardPrintsConfig
    PROVE  CellInv'
<1>0. /\ CellTypes /\ LinesAreTrue /\ LinesInOrder /\ OldLines /\ FoundConfig /\ OwnBoard
      /\ Counts /\ FreshLines /\ AfterStatus /\ RowsSoFar /\ RowFacts
    BY DEF CellInv
<1>1. /\ board = "boot" /\ board' = "run" /\ Len(wire) < WireCap /\ wire' = Append(wire, ConfigLine)
      /\ UNCHANGED <<args, pc, index, cell, rows, row, failed, app, boardPixels, rx, errors, net, printed,
                     lines, queue, hand, reader, stopping>>
    BY DEF runVars, mainVars, boardVars, threadVars, uartVars, outside, Prints, BoardPrintsConfig
<1> USE DEF OldBoard, NewBoard, Begun, Waiting, Baselining, Measuring, Left
<1>20. PICK l \in Lines : /\ wire' = Append(wire, l) /\ l.app = app /\ l.kind = "config" /\ l.rx = 0 /\ l.errors = 0 /\ ~l.fresh
    BY <1>0, <1>1, PrintedLines
<1>21. /\ wire' \in Seq(Lines) /\ Len(wire) \in Nat /\ Len(wire') = Len(wire) + 1
       /\ DOMAIN wire = 1 .. Len(wire) /\ DOMAIN wire' = 1 .. Len(wire) + 1
       /\ \A i \in DOMAIN wire : i \in DOMAIN wire' /\ wire'[i] = wire[i]
       /\ \A i \in DOMAIN wire' : i \in DOMAIN wire \/ (i = Len(wire) + 1 /\ wire'[i] = l)
       /\ wire'[Len(wire) + 1] = l
    BY <1>0, <1>20, AppendedLine DEF CellTypes
<1>24. /\ \A i \in DOMAIN wire : i \in DOMAIN wire' /\ wire'[i] = wire[i]
       /\ \A i \in DOMAIN wire' : (i \in DOMAIN wire /\ wire'[i] = wire[i]) \/ wire'[i] = l
       /\ \E i \in DOMAIN wire' : wire'[i] = l
    <2>1. Len(wire) + 1 \in DOMAIN wire'
        BY <1>21
    <2> QED
        BY <1>21, <2>1
<1>22. Read' = Read /\ Queued' = Queued /\ Passed' = Passed /\ Coming' = Coming \cup {l} /\ Known' = Known \cup {l}
    <2>1. {wire'[i] : i \in DOMAIN wire'} = {wire[i] : i \in DOMAIN wire} \cup {l}
        <3>1. \A x \in {wire'[i] : i \in DOMAIN wire'} : x \in {wire[i] : i \in DOMAIN wire} \cup {l}
            BY <1>24
        <3>2. \A x \in {wire[i] : i \in DOMAIN wire} : x \in {wire'[i] : i \in DOMAIN wire'}
            BY <1>24
        <3>3. l \in {wire'[i] : i \in DOMAIN wire'}
            BY <1>24
        <3> QED
            BY <3>1, <3>2, <3>3
    <2>2. Read' = Read /\ Queued' = Queued /\ Passed' = Passed /\ Coming' = Coming \cup {l}
        BY <1>1, <2>1 DEF Read, Queued, Passed, Coming
    <2> QED
        BY <1>1, <2>2 DEF Known
<1>23. \A m \in Known : m.app \in Nat /\ m.rx \in Nat /\ m.errors \in Nat
    BY <1>0, KnownLines
<1>2. CellTypes'
    BY <1>0, <1>1, <1>21, BenchAssumption DEF CellTypes
<1>3. LinesAreTrue'
    <2>1. TrueLine(l)
        BY <1>0, <1>1, <1>20 DEF CellTypes, LinesAreTrue, TrueLine
    <2>2. \A m \in Known' : TrueLine(m)
        BY <1>0, <1>22, <2>1 DEF LinesAreTrue
    <2>3. \A m \in Known' : TrueLine(m)'
        BY <1>1, <2>2 DEF TrueLine
    <2> QED
        BY <1>0, <1>1, <1>22, <2>3 DEF LinesAreTrue
<1>4. LinesInOrder'
    <2>1. ASSUME NEW m \in Known, m \in Read \cup Coming PROVE Earlier(m, l)
        <3>1. /\ TrueLine(m) /\ (board = "boot" => m.app # app)
              /\ m.app \in Nat /\ m.rx \in Nat /\ app \in Nat /\ rx \in Nat
            BY <1>0, <1>23, <2>1 DEF LinesAreTrue, CellTypes
        <3> QED
            BY <1>1, <1>20, <3>1 DEF TrueLine, Earlier
    <2>2. /\ \A i \in DOMAIN lines : Earlier(lines[i], l)
          /\ \A i \in DOMAIN wire : Earlier(wire[i], l)
          /\ reader = "put" => Earlier(hand, l)
        BY <1>0, <2>1, KnownLines
    <2>3. \A i, j \in DOMAIN wire' : i < j => Earlier(wire'[i], wire'[j])
        <3> SUFFICES ASSUME NEW i \in DOMAIN wire', NEW j \in DOMAIN wire', i < j PROVE Earlier(wire'[i], wire'[j])
            OBVIOUS
        <3>1. i \in DOMAIN wire
            BY <1>21
        <3>2. CASE j \in DOMAIN wire
            BY <1>0, <1>21, <3>1, <3>2 DEF LinesInOrder
        <3>3. CASE wire'[j] = l
            BY <1>21, <2>2, <3>1, <3>3
        <3> QED
            BY <1>21, <3>2, <3>3
    <2>4. ASSUME NEW i \in DOMAIN lines, NEW j \in DOMAIN wire' PROVE Earlier(lines[i], wire'[j])
        <3>1. CASE wire'[j] = l
            BY <2>2, <3>1
        <3>2. CASE j \in DOMAIN wire /\ wire'[j] = wire[j]
            BY <1>0, <3>2 DEF LinesInOrder
        <3> QED
            BY <1>24, <3>1, <3>2
    <2>5. ASSUME reader = "put", NEW j \in DOMAIN wire' PROVE Earlier(hand, wire'[j])
        <3>1. CASE wire'[j] = l
            BY <2>2, <2>5, <3>1
        <3>2. CASE j \in DOMAIN wire /\ wire'[j] = wire[j]
            BY <1>0, <2>5, <3>2 DEF LinesInOrder
        <3> QED
            BY <1>24, <3>1, <3>2
    <2> QED
        BY <1>0, <1>1, <2>3, <2>4, <2>5 DEF LinesInOrder, Earlier
<1>5. OldLines'
    BY <1>0, <1>1, <1>20, <1>22 DEF OldLines, LinesAreTrue
<1>6. FoundConfig'
    <2>1. pc \notin Begun /\ app \in Nat
        BY <1>0, <1>1 DEF OwnBoard, CellTypes
    <2> QED
        BY <1>0, <1>1, <1>20, <1>22, <2>1 DEF FoundConfig
<1>7. OwnBoard'
    BY <1>0, <1>1, <1>20, <1>22 DEF OwnBoard, LinesAreTrue
<1>8. Counts'
    BY <1>0, <1>1, <1>22 DEF Counts
<1>9. FreshLines'
    BY <1>0, <1>1, <1>20, <1>22 DEF FreshLines, OwnBoard
<1>10. AfterStatus'
    BY <1>0, <1>1 DEF AfterStatus, OwnBoard
<1>11. RowsSoFar'
    BY <1>0, <1>1 DEF RowsSoFar
<1>12. RowFacts'
    BY <1>0, <1>1 DEF RowFacts, RowCountsCell, StableMeansClean
<1> QED
    BY <1>2, <1>3, <1>4, <1>5, <1>6, <1>7, <1>8, <1>9, <1>10, <1>11, <1>12 DEF CellInv

\* A status line shows the counters as they are.
LEMMA BoardPrintsStatusKeeps ==
    ASSUME CellInv, BoardPrintsStatus
    PROVE  CellInv'
<1>0. /\ CellTypes /\ LinesAreTrue /\ LinesInOrder /\ OldLines /\ FoundConfig /\ OwnBoard
      /\ Counts /\ FreshLines /\ AfterStatus /\ RowsSoFar /\ RowFacts
    BY DEF CellInv
<1>1. /\ board = "run" /\ printed' = printed + 1 /\ Len(wire) < WireCap /\ wire' = Append(wire, StatusLine)
      /\ UNCHANGED <<args, pc, index, cell, rows, row, failed, app, board, boardPixels, rx, errors, net, lines,
                     queue, hand, reader, stopping>>
    BY DEF runVars, mainVars, boardVars, threadVars, uartVars, outside, Prints, BoardPrintsStatus
<1> USE DEF OldBoard, NewBoard, Begun, Waiting, Baselining, Measuring, Left
<1>20. PICK l \in Lines : /\ wire' = Append(wire, l) /\ l.app = app /\ l.kind = "status" /\ l.rx = rx /\ l.errors = errors
                        /\ (l.fresh <=> pc = "after" /\ net = 0)
    BY <1>0, <1>1, PrintedLines
<1>21. /\ wire' \in Seq(Lines) /\ Len(wire) \in Nat /\ Len(wire') = Len(wire) + 1
       /\ DOMAIN wire = 1 .. Len(wire) /\ DOMAIN wire' = 1 .. Len(wire) + 1
       /\ \A i \in DOMAIN wire : i \in DOMAIN wire' /\ wire'[i] = wire[i]
       /\ \A i \in DOMAIN wire' : i \in DOMAIN wire \/ (i = Len(wire) + 1 /\ wire'[i] = l)
       /\ wire'[Len(wire) + 1] = l
    BY <1>0, <1>20, AppendedLine DEF CellTypes
<1>24. /\ \A i \in DOMAIN wire : i \in DOMAIN wire' /\ wire'[i] = wire[i]
       /\ \A i \in DOMAIN wire' : (i \in DOMAIN wire /\ wire'[i] = wire[i]) \/ wire'[i] = l
       /\ \E i \in DOMAIN wire' : wire'[i] = l
    <2>1. Len(wire) + 1 \in DOMAIN wire'
        BY <1>21
    <2> QED
        BY <1>21, <2>1
<1>22. Read' = Read /\ Queued' = Queued /\ Passed' = Passed /\ Coming' = Coming \cup {l} /\ Known' = Known \cup {l}
    <2>1. {wire'[i] : i \in DOMAIN wire'} = {wire[i] : i \in DOMAIN wire} \cup {l}
        <3>1. \A x \in {wire'[i] : i \in DOMAIN wire'} : x \in {wire[i] : i \in DOMAIN wire} \cup {l}
            BY <1>24
        <3>2. \A x \in {wire[i] : i \in DOMAIN wire} : x \in {wire'[i] : i \in DOMAIN wire'}
            BY <1>24
        <3>3. l \in {wire'[i] : i \in DOMAIN wire'}
            BY <1>24
        <3> QED
            BY <3>1, <3>2, <3>3
    <2>2. Read' = Read /\ Queued' = Queued /\ Passed' = Passed /\ Coming' = Coming \cup {l}
        BY <1>1, <2>1 DEF Read, Queued, Passed, Coming
    <2> QED
        BY <1>1, <2>2 DEF Known
<1>23. \A m \in Known : m.app \in Nat /\ m.rx \in Nat /\ m.errors \in Nat
    BY <1>0, KnownLines
<1>2. CellTypes'
    BY <1>0, <1>1, <1>21, BenchAssumption DEF CellTypes
<1>3. LinesAreTrue'
    <2>1. TrueLine(l)
        BY <1>0, <1>1, <1>20 DEF CellTypes, LinesAreTrue, TrueLine
    <2>2. \A m \in Known' : TrueLine(m)
        BY <1>0, <1>22, <2>1 DEF LinesAreTrue
    <2>3. \A m \in Known' : TrueLine(m)'
        BY <1>1, <2>2 DEF TrueLine
    <2> QED
        BY <1>0, <1>1, <1>22, <2>3 DEF LinesAreTrue
<1>4. LinesInOrder'
    <2>1. ASSUME NEW m \in Known, m \in Read \cup Coming PROVE Earlier(m, l)
        <3>1. /\ TrueLine(m) /\ (board = "boot" => m.app # app)
              /\ m.app \in Nat /\ m.rx \in Nat /\ app \in Nat /\ rx \in Nat
            BY <1>0, <1>23, <2>1 DEF LinesAreTrue, CellTypes
        <3> QED
            BY <1>1, <1>20, <3>1 DEF TrueLine, Earlier
    <2>2. /\ \A i \in DOMAIN lines : Earlier(lines[i], l)
          /\ \A i \in DOMAIN wire : Earlier(wire[i], l)
          /\ reader = "put" => Earlier(hand, l)
        BY <1>0, <2>1, KnownLines
    <2>3. \A i, j \in DOMAIN wire' : i < j => Earlier(wire'[i], wire'[j])
        <3> SUFFICES ASSUME NEW i \in DOMAIN wire', NEW j \in DOMAIN wire', i < j PROVE Earlier(wire'[i], wire'[j])
            OBVIOUS
        <3>1. i \in DOMAIN wire
            BY <1>21
        <3>2. CASE j \in DOMAIN wire
            BY <1>0, <1>21, <3>1, <3>2 DEF LinesInOrder
        <3>3. CASE wire'[j] = l
            BY <1>21, <2>2, <3>1, <3>3
        <3> QED
            BY <1>21, <3>2, <3>3
    <2>4. ASSUME NEW i \in DOMAIN lines, NEW j \in DOMAIN wire' PROVE Earlier(lines[i], wire'[j])
        <3>1. CASE wire'[j] = l
            BY <2>2, <3>1
        <3>2. CASE j \in DOMAIN wire /\ wire'[j] = wire[j]
            BY <1>0, <3>2 DEF LinesInOrder
        <3> QED
            BY <1>24, <3>1, <3>2
    <2>5. ASSUME reader = "put", NEW j \in DOMAIN wire' PROVE Earlier(hand, wire'[j])
        <3>1. CASE wire'[j] = l
            BY <2>2, <2>5, <3>1
        <3>2. CASE j \in DOMAIN wire /\ wire'[j] = wire[j]
            BY <1>0, <2>5, <3>2 DEF LinesInOrder
        <3> QED
            BY <1>24, <3>1, <3>2
    <2> QED
        BY <1>0, <1>1, <2>3, <2>4, <2>5 DEF LinesInOrder, Earlier
<1>5. OldLines'
    BY <1>0, <1>1, <1>20, <1>22 DEF OldLines, LinesAreTrue
<1>6. FoundConfig'
    BY <1>0, <1>1, <1>20, <1>22 DEF FoundConfig, OwnBoard, LinesAreTrue
<1>7. OwnBoard'
    BY <1>0, <1>1, <1>20, <1>22 DEF OwnBoard, LinesAreTrue
<1>8. Counts'
    BY <1>0, <1>1, <1>22 DEF Counts
<1>9. FreshLines'
    BY <1>0, <1>1, <1>20, <1>22 DEF FreshLines, OwnBoard
<1>10. AfterStatus'
    BY <1>0, <1>1 DEF AfterStatus, OwnBoard
<1>11. RowsSoFar'
    BY <1>0, <1>1 DEF RowsSoFar
<1>12. RowFacts'
    BY <1>0, <1>1 DEF RowFacts, RowCountsCell, StableMeansClean
<1> QED
    BY <1>2, <1>3, <1>4, <1>5, <1>6, <1>7, <1>8, <1>9, <1>10, <1>11, <1>12 DEF CellInv

\* A board that stops leaves its lines and counters as they are.
LEMMA BoardStopsKeeps ==
    ASSUME CellInv, BoardStops
    PROVE  CellInv'
<1>0. /\ CellTypes /\ LinesAreTrue /\ LinesInOrder /\ OldLines /\ FoundConfig /\ OwnBoard
      /\ Counts /\ FreshLines /\ AfterStatus /\ RowsSoFar /\ RowFacts
    BY DEF CellInv
<1>1. /\ board \in {"boot", "run"} /\ board' = "dead"
      /\ UNCHANGED <<args, pc, index, cell, rows, row, failed, app, boardPixels, rx, errors, net, printed,
                     wire, lines, queue, hand, reader, stopping>>
    BY DEF runVars, mainVars, boardVars, threadVars, uartVars, outside, BoardStops
<1> USE DEF OldBoard, NewBoard, Begun, Waiting, Baselining, Measuring, Left
<1>2. CellTypes'
    BY <1>0, <1>1 DEF CellTypes
<1>3. LinesAreTrue'
    BY <1>0, <1>1 DEF LinesAreTrue, TrueLine, Known, Read, Coming, Queued
<1>4. LinesInOrder'
    BY <1>0, <1>1 DEF LinesInOrder, Earlier
<1>5. OldLines'
    BY <1>0, <1>1 DEF OldLines, Coming, Read, Queued
<1>6. FoundConfig'
    BY <1>0, <1>1 DEF FoundConfig, Passed, Coming, Read, Queued
<1>7. OwnBoard'
    BY <1>0, <1>1 DEF OwnBoard, Coming
<1>8. Counts'
    BY <1>0, <1>1 DEF Counts, Queued
<1>9. FreshLines'
    BY <1>0, <1>1 DEF FreshLines, Read, Coming, Queued
<1>10. AfterStatus'
    BY <1>0, <1>1 DEF AfterStatus
<1>11. RowsSoFar'
    BY <1>0, <1>1 DEF RowsSoFar
<1>12. RowFacts'
    BY <1>0, <1>1 DEF RowFacts, RowCountsCell, StableMeansClean
<1> QED
    BY <1>2, <1>3, <1>4, <1>5, <1>6, <1>7, <1>8, <1>9, <1>10, <1>11, <1>12 DEF CellInv

\* A packet received was on its way, and counts at most one error.
LEMMA BoardReceivesKeeps ==
    ASSUME CellInv, BoardReceives
    PROVE  CellInv'
<1>0. /\ CellTypes /\ LinesAreTrue /\ LinesInOrder /\ OldLines /\ FoundConfig /\ OwnBoard
      /\ Counts /\ FreshLines /\ AfterStatus /\ RowsSoFar /\ RowFacts
    BY DEF CellInv
<1>1. /\ net > 0 /\ board = "run" /\ net' = net - 1 /\ rx' = rx + 1 /\ errors' \in {errors, errors + 1}
      /\ UNCHANGED <<args, pc, index, cell, rows, row, failed, app, board, boardPixels, printed, wire, lines,
                     queue, hand, reader, stopping>>
    BY <1>0 DEF runVars, mainVars, boardVars, threadVars, uartVars, outside, BoardReceives, CellTypes
<1> USE DEF OldBoard, NewBoard, Begun, Waiting, Baselining, Measuring, Left
<1>2. CellTypes'
    BY <1>0, <1>1 DEF CellTypes
<1>3. LinesAreTrue'
    <2>1. Known' = Known /\ Read' = Read /\ Coming' = Coming /\ Queued' = Queued
        BY <1>1 DEF Known, Read, Coming, Queued
    <2>2. rx \in Nat /\ errors \in Nat /\ app \in Nat
        BY <1>0 DEF CellTypes
    <2>3. ASSUME NEW l \in Known PROVE TrueLine(l)'
        <3>1. TrueLine(l) /\ l.app \in Nat /\ l.rx \in Nat /\ l.errors \in Nat
            BY <1>0, KnownLines DEF LinesAreTrue
        <3> QED
            BY <1>1, <2>2, <3>1 DEF TrueLine
    <2>4. errors' <= rx'
        BY <1>0, <1>1, <2>2 DEF LinesAreTrue
    <2> QED
        BY <1>1, <2>1, <2>3, <2>4 DEF LinesAreTrue
<1>4. LinesInOrder'
    BY <1>0, <1>1 DEF LinesInOrder, Earlier
<1>5. OldLines'
    BY <1>0, <1>1 DEF OldLines, Coming, Read, Queued
<1>6. FoundConfig'
    BY <1>0, <1>1 DEF FoundConfig, Passed, Coming, Read, Queued
<1>7. OwnBoard'
    BY <1>0, <1>1 DEF OwnBoard, Coming
<1>8. Counts'
    <2>1. rx' + net' = rx + net
        BY <1>0, <1>1 DEF CellTypes
    <2> QED
        BY <1>0, <1>1, <2>1 DEF Counts, Queued
<1>9. FreshLines'
    BY <1>0, <1>1 DEF FreshLines, Read, Coming, Queued
<1>10. AfterStatus'
    BY <1>0, <1>1 DEF AfterStatus
<1>11. RowsSoFar'
    BY <1>0, <1>1 DEF RowsSoFar
<1>12. RowFacts'
    BY <1>0, <1>1 DEF RowFacts, RowCountsCell, StableMeansClean
<1> QED
    BY <1>2, <1>3, <1>4, <1>5, <1>6, <1>7, <1>8, <1>9, <1>10, <1>11, <1>12 DEF CellInv

\* A packet lost was on its way.
LEMMA PacketLostKeeps ==
    ASSUME CellInv, PacketLost
    PROVE  CellInv'
<1>0. /\ CellTypes /\ LinesAreTrue /\ LinesInOrder /\ OldLines /\ FoundConfig /\ OwnBoard
      /\ Counts /\ FreshLines /\ AfterStatus /\ RowsSoFar /\ RowFacts
    BY DEF CellInv
<1>1. /\ net > 0 /\ net' = net - 1
      /\ UNCHANGED <<args, pc, index, cell, rows, row, failed, app, board, boardPixels, rx, errors, printed,
                     wire, lines, queue, hand, reader, stopping>>
    BY DEF runVars, mainVars, boardVars, threadVars, uartVars, outside, PacketLost
<1> USE DEF OldBoard, NewBoard, Begun, Waiting, Baselining, Measuring, Left
<1>2. CellTypes'
    BY <1>0, <1>1 DEF CellTypes
<1>3. LinesAreTrue'
    BY <1>0, <1>1 DEF LinesAreTrue, TrueLine, Known, Read, Coming, Queued
<1>4. LinesInOrder'
    BY <1>0, <1>1 DEF LinesInOrder, Earlier
<1>5. OldLines'
    BY <1>0, <1>1 DEF OldLines, Coming, Read, Queued
<1>6. FoundConfig'
    BY <1>0, <1>1 DEF FoundConfig, Passed, Coming, Read, Queued
<1>7. OwnBoard'
    BY <1>0, <1>1 DEF OwnBoard, Coming
<1>8. Counts'
    <2>1. rx + net' <= rx + net
        BY <1>0, <1>1 DEF CellTypes
    <2>2. pc \in Measuring => rx + net' <= cell.sent
        <3>1. cell.sent \in Nat /\ rx + net \in Nat /\ rx + net' \in Int
            BY <1>0, <1>1, CellTyped, CellUpdates, NoLine DEF CellTypes, CellRecords
        <3> QED
            BY <1>0, <2>1, <3>1 DEF Counts
    <2> QED
        BY <1>0, <1>1, <2>2 DEF Counts, Queued
<1>9. FreshLines'
    BY <1>0, <1>1 DEF FreshLines, Read, Coming, Queued
<1>10. AfterStatus'
    BY <1>0, <1>1 DEF AfterStatus
<1>11. RowsSoFar'
    BY <1>0, <1>1 DEF RowsSoFar
<1>12. RowFacts'
    BY <1>0, <1>1 DEF RowFacts, RowCountsCell, StableMeansClean
<1> QED
    BY <1>2, <1>3, <1>4, <1>5, <1>6, <1>7, <1>8, <1>9, <1>10, <1>11, <1>12 DEF CellInv

\* A line that is read came next, so the order of the lines stays.
LEMMA ReadLineKeeps ==
    ASSUME CellInv, ReadLine
    PROVE  CellInv'
<1>0. /\ CellTypes /\ LinesAreTrue /\ LinesInOrder /\ OldLines /\ FoundConfig /\ OwnBoard
      /\ Counts /\ FreshLines /\ AfterStatus /\ RowsSoFar /\ RowFacts
    BY DEF CellInv
<1>1. /\ reader = "read" /\ wire # <<>> /\ hand' = Head(wire) /\ lines' = Append(lines, Head(wire))
      /\ wire' = Tail(wire) /\ reader' = "put"
      /\ UNCHANGED <<args, pc, index, cell, rows, row, failed, app, board, boardPixels, rx, errors, net,
                     printed, queue, stopping>>
    BY DEF runVars, mainVars, boardVars, threadVars, uartVars, outside, ReadLine
<1> USE DEF OldBoard, NewBoard, Begun, Waiting, Baselining, Measuring, Left
<1>20. PICK l \in Lines : l = wire[1] /\ Head(wire) = l /\ hand' = l /\ 1 \in DOMAIN wire
    BY <1>0, <1>1, FirstLine DEF CellTypes
<1>21. /\ wire' \in Seq(Lines) /\ Len(wire) \in Nat \ {0} /\ Len(wire') = Len(wire) - 1
       /\ DOMAIN wire = 1 .. Len(wire) /\ DOMAIN wire' = 1 .. Len(wire) - 1
       /\ \A i \in DOMAIN wire' : i + 1 \in DOMAIN wire /\ wire'[i] = wire[i + 1]
    BY <1>0, <1>1, FirstLine DEF CellTypes
<1>22. /\ lines' \in Seq(Lines) /\ Len(lines) \in Nat /\ Len(lines') = Len(lines) + 1
       /\ DOMAIN lines = 1 .. Len(lines) /\ DOMAIN lines' = 1 .. Len(lines) + 1
       /\ \A i \in DOMAIN lines : i \in DOMAIN lines' /\ lines'[i] = lines[i]
       /\ \A i \in DOMAIN lines' : i \in DOMAIN lines \/ (i = Len(lines) + 1 /\ lines'[i] = l)
       /\ lines'[Len(lines) + 1] = l
    BY <1>0, <1>1, <1>20, AppendedLine DEF CellTypes
<1>24. /\ \A i \in DOMAIN lines : i \in DOMAIN lines' /\ lines'[i] = lines[i]
       /\ \A i \in DOMAIN lines' : (i \in DOMAIN lines /\ lines'[i] = lines[i]) \/ lines'[i] = l
       /\ \E i \in DOMAIN lines' : lines'[i] = l
    <2>1. Len(lines) + 1 \in DOMAIN lines'
        BY <1>22
    <2> QED
        BY <1>22, <2>1
<1>25. /\ \A i \in DOMAIN wire : wire[i] = l \/ \E j \in DOMAIN wire' : wire'[j] = wire[i]
       /\ \A j \in DOMAIN wire' : \E i \in DOMAIN wire : wire'[j] = wire[i]
       /\ \E i \in DOMAIN wire : wire[i] = l
    <2>1. wire \in Seq(Lines) /\ l = wire[1] /\ 1 \in DOMAIN wire /\ wire' = Tail(wire) /\ wire # <<>>
        BY <1>0, <1>1, <1>20 DEF CellTypes
    <2>2. ASSUME NEW i \in DOMAIN wire PROVE wire[i] = l \/ \E j \in DOMAIN wire' : wire'[j] = wire[i]
        <3>1. i = 1 \/ (i - 1 \in DOMAIN wire' /\ wire'[i - 1] = wire[i])
            BY <2>1, FirstLine
        <3> QED
            BY <2>1, <3>1
    <2>3. \A j \in DOMAIN wire' : \E i \in DOMAIN wire : wire'[j] = wire[i]
        BY <2>1, FirstLine
    <2> QED
        BY <2>1, <2>2, <2>3
<1>23. Read' = Read \cup {l} /\ Queued' = Queued /\ Coming' = Coming /\ l \in Coming /\ Known' \subseteq Known
      /\ Passed' = Passed \cup {l}
    <2>1. {wire[i] : i \in DOMAIN wire} = {wire'[i] : i \in DOMAIN wire'} \cup {l}
        <3>1. \A x \in {wire[i] : i \in DOMAIN wire} : x \in {wire'[i] : i \in DOMAIN wire'} \cup {l}
            BY <1>25
        <3>2. \A x \in {wire'[i] : i \in DOMAIN wire'} : x \in {wire[i] : i \in DOMAIN wire}
            BY <1>25
        <3>3. l \in {wire[i] : i \in DOMAIN wire}
            BY <1>25
        <3> QED
            BY <3>1, <3>2, <3>3
    <2>2. {lines'[i] : i \in DOMAIN lines'} = {lines[i] : i \in DOMAIN lines} \cup {l}
        <3>1. \A x \in {lines'[i] : i \in DOMAIN lines'} : x \in {lines[i] : i \in DOMAIN lines} \cup {l}
            BY <1>24
        <3>2. \A x \in {lines[i] : i \in DOMAIN lines} : x \in {lines'[i] : i \in DOMAIN lines'}
            BY <1>24
        <3>3. l \in {lines'[i] : i \in DOMAIN lines'}
            BY <1>24
        <3> QED
            BY <3>1, <3>2, <3>3
    <2>3. Coming = {wire[i] : i \in DOMAIN wire} /\ Coming' = {wire'[i] : i \in DOMAIN wire'} \cup {l}
        BY <1>1, <1>20 DEF Coming
    <2>4. Read' = Read \cup {l} /\ Queued' = Queued /\ Passed' = Passed \cup {l}
        BY <1>1, <1>20, <2>2 DEF Read, Queued, Passed
    <2> QED
        BY <1>1, <1>20, <2>1, <2>3, <2>4 DEF Known
<1>2. CellTypes'
    BY <1>0, <1>1, <1>20, <1>21, <1>22, BenchAssumption DEF CellTypes
<1>3. LinesAreTrue'
    <2>1. \A m \in Known : TrueLine(m)'
        BY <1>0, <1>1 DEF LinesAreTrue, TrueLine
    <2> QED
        BY <1>0, <1>1, <1>23, <2>1 DEF LinesAreTrue
<1>4. LinesInOrder'
    <2>1. \A i \in DOMAIN lines : Earlier(lines[i], l)
        BY <1>0, <1>20 DEF LinesInOrder
    <2>2. \A i, j \in DOMAIN lines' : i < j => Earlier(lines'[i], lines'[j])
        <3> SUFFICES ASSUME NEW i \in DOMAIN lines', NEW j \in DOMAIN lines', i < j PROVE Earlier(lines'[i], lines'[j])
            OBVIOUS
        <3>1. i \in DOMAIN lines
            BY <1>22
        <3>2. CASE j \in DOMAIN lines
            BY <1>0, <1>22, <3>1, <3>2 DEF LinesInOrder
        <3>3. CASE lines'[j] = l
            BY <1>22, <2>1, <3>1, <3>3
        <3> QED
            BY <1>22, <3>2, <3>3
    <2>3. \A j \in DOMAIN wire' : /\ j + 1 \in DOMAIN wire /\ 1 < j + 1 /\ wire'[j] = wire[j + 1]
                                  /\ Earlier(l, wire'[j]) /\ \A i \in DOMAIN lines : Earlier(lines[i], wire'[j])
        BY <1>0, <1>20, <1>21 DEF LinesInOrder
    <2>4. \A i, j \in DOMAIN wire' : i < j => Earlier(wire'[i], wire'[j])
        <3> SUFFICES ASSUME NEW i \in DOMAIN wire', NEW j \in DOMAIN wire', i < j PROVE Earlier(wire'[i], wire'[j])
            OBVIOUS
        <3>1. i + 1 < j + 1
            BY <1>21
        <3> QED
            BY <1>0, <2>3, <3>1 DEF LinesInOrder
    <2>5. ASSUME NEW i \in DOMAIN lines', NEW j \in DOMAIN wire' PROVE Earlier(lines'[i], wire'[j])
        <3>1. CASE i \in DOMAIN lines /\ lines'[i] = lines[i]
            BY <2>3, <3>1
        <3>2. CASE lines'[i] = l
            BY <2>3, <3>2
        <3> QED
            BY <1>24, <3>1, <3>2
    <2>6. lines'[Len(lines')] = hand'
        <3>1. lines'[Len(lines) + 1] = l /\ Len(lines') = Len(lines) + 1
            BY <1>22
        <3> QED
            BY <1>20, <3>1
    <2>7. \A j \in DOMAIN wire' : Earlier(hand', wire'[j])
        BY <1>20, <2>3
    <2> QED
        BY <2>2, <2>4, <2>5, <2>6, <2>7 DEF LinesInOrder, Earlier
<1>5. OldLines'
    BY <1>0, <1>1, <1>23 DEF OldLines
<1>6. FoundConfig'
    <2>1. \A i \in DOMAIN lines : lines'[i] = lines[i] /\ i \in DOMAIN lines'
        BY <1>22
    <2>2. pc \in NewBoard => \A m \in Passed' : m.app = app => \E i \in DOMAIN lines' : lines'[i].app = app
        BY <1>0, <1>23, <1>24 DEF FoundConfig
    <2>3. pc \in {"running"} \cup Waiting =>
            \/ \A m \in Read' \cup Queued' \cup Coming' : m.app < app => m.kind # "config"
            \/ \A m \in Read' \cup Queued' \cup Coming' : m.app < app => m.rx = 0
        BY <1>0, <1>23 DEF FoundConfig
    <2>4. pc \in Baselining \cup Measuring => l.app = app
        BY <1>0, <1>23 DEF OwnBoard
    <2>5. pc = "mark" => (\E i \in DOMAIN lines' : lines'[i].app = app) \/ \A i \in DOMAIN lines' : lines'[i].rx = 0
        BY <1>24, <2>4
    <2>6. ASSUME pc \in (Baselining \ {"mark"}) \cup Measuring
          PROVE  /\ cell.statusStart <= Len(lines')
                 /\ \A i \in DOMAIN lines' : i > cell.statusStart => lines'[i].app = app \/ lines'[i].rx = 0
                 /\ board = "run" => \A i \in DOMAIN lines' : i > cell.statusStart => lines'[i].app = app
        <3>1. cell.statusStart \in Nat /\ cell.statusStart <= Len(lines)
            BY <1>0, <2>6, CellTyped DEF CellRecords, FoundConfig
        <3>2. cell.statusStart <= Len(lines')
            BY <1>22, <3>1
        <3> QED
            BY <1>0, <1>24, <2>4, <2>6, <3>2 DEF FoundConfig
    <2> QED
        BY <1>1, <2>2, <2>3, <2>5, <2>6 DEF FoundConfig
<1>7. OwnBoard'
    <2>1. \A i \in DOMAIN lines : lines'[i] = lines[i] /\ i \in DOMAIN lines'
        BY <1>22
    <2> QED
        BY <1>0, <1>1, <1>23, <2>1 DEF OwnBoard
<1>8. Counts'
    BY <1>0, <1>1, <1>23 DEF Counts
<1>9. FreshLines'
    <2>1. cell.statusStart \in Nat
        BY <1>0, CellTyped DEF CellRecords
    <2>2. pc \in {"after", "snapshot"} => \A i \in DOMAIN lines' : lines'[i].app = app /\ lines'[i].fresh => i > cell.statusStart
        BY <1>0, <1>22, <2>1 DEF FreshLines, FoundConfig
    <2>3. pc \in {"after", "snapshot"} =>
            \A m \in Read' \cup Coming' : m.app = app /\ m.fresh => net = 0 /\ m.rx = rx /\ m.kind = "status"
        BY <1>0, <1>23 DEF FreshLines
    <2>4. pc \in NewBoard \ {"after", "snapshot"} =>
            \A m \in Read' \cup Queued' \cup Coming' : m.app = app => ~m.fresh
        BY <1>0, <1>23 DEF FreshLines
    <2> QED
        BY <1>0, <1>1, <2>2, <2>3, <2>4 DEF FreshLines
<1>10. AfterStatus'
    BY <1>0, <1>1 DEF AfterStatus
<1>11. RowsSoFar'
    BY <1>0, <1>1 DEF RowsSoFar
<1>12. RowFacts'
    BY <1>0, <1>1 DEF RowFacts, RowCountsCell, StableMeansClean
<1> QED
    BY <1>2, <1>3, <1>4, <1>5, <1>6, <1>7, <1>8, <1>9, <1>10, <1>11, <1>12 DEF CellInv

\* A line that is queued has been read.
LEMMA PutLineKeeps ==
    ASSUME CellInv, PutLine
    PROVE  CellInv'
<1>0. /\ CellTypes /\ LinesAreTrue /\ LinesInOrder /\ OldLines /\ FoundConfig /\ OwnBoard
      /\ Counts /\ FreshLines /\ AfterStatus /\ RowsSoFar /\ RowFacts
    BY DEF CellInv
<1>1. /\ reader = "put" /\ queue' = Append(queue, hand) /\ hand' = None /\ reader' = "read"
      /\ UNCHANGED <<args, pc, index, cell, rows, row, failed, app, board, boardPixels, rx, errors, net,
                     printed, wire, lines, stopping>>
    BY DEF runVars, mainVars, boardVars, threadVars, uartVars, outside, PutLine
<1> USE DEF OldBoard, NewBoard, Begun, Waiting, Baselining, Measuring, Left
<1>20. hand \in Lines /\ hand \in Coming
    BY <1>0, <1>1, KnownLines DEF CellTypes
<1>21. queue' \in Seq(Lines) /\ {queue'[i] : i \in DOMAIN queue'} = {queue[i] : i \in DOMAIN queue} \cup {hand}
    <2>1. queue \in Seq(Lines) /\ hand \in Lines /\ queue' = Append(queue, hand)
        BY <1>0, <1>1, <1>20 DEF CellTypes
    <2>2. /\ queue' \in Seq(Lines) /\ Len(queue) \in Nat /\ DOMAIN queue' = 1 .. Len(queue) + 1
          /\ queue'[Len(queue) + 1] = hand
          /\ \A i \in DOMAIN queue : i \in DOMAIN queue' /\ queue'[i] = queue[i]
          /\ \A i \in DOMAIN queue' : (i \in DOMAIN queue /\ queue'[i] = queue[i]) \/ queue'[i] = hand
        BY <2>1, AppendedLine
    <2>3. Len(queue) + 1 \in DOMAIN queue'
        BY <2>2
    <2>4. \A x \in {queue'[i] : i \in DOMAIN queue'} : x \in {queue[i] : i \in DOMAIN queue} \cup {hand}
        BY <2>2
    <2>5. \A x \in {queue[i] : i \in DOMAIN queue} : x \in {queue'[i] : i \in DOMAIN queue'}
        BY <2>2
    <2>6. hand \in {queue'[i] : i \in DOMAIN queue'}
        BY <2>2, <2>3
    <2> QED
        BY <2>2, <2>4, <2>5, <2>6
<1>22. /\ Read' = Read /\ Queued' = Queued \cup {hand} /\ Coming' \subseteq Coming /\ Known' \subseteq Known \cup {None}
       /\ Passed' = Passed
    <2>1. Read' = Read /\ Queued' = Queued \cup {hand} /\ Coming' \subseteq Coming /\ Passed' = Passed
        BY <1>1, <1>21 DEF Read, Queued, Coming, Passed
    <2> QED
        BY <1>1, <2>1 DEF Known
<1>2. CellTypes'
    BY <1>0, <1>1, <1>21, NoLine DEF CellTypes
<1>3. LinesAreTrue'
    <2>1. TrueLine(None)
        BY <1>0, NoLine DEF CellTypes, LinesAreTrue, TrueLine
    <2>2. \A m \in Known' : TrueLine(m)'
        BY <1>0, <1>1, <1>22, <2>1 DEF LinesAreTrue, TrueLine
    <2> QED
        BY <1>0, <1>1, <1>20, <1>22, <2>2 DEF LinesAreTrue
<1>4. LinesInOrder'
    BY <1>0, <1>1 DEF LinesInOrder, Earlier
<1>5. OldLines'
    BY <1>0, <1>1, <1>20, <1>22 DEF OldLines
<1>6. FoundConfig'
    BY <1>0, <1>1, <1>20, <1>22 DEF FoundConfig
<1>7. OwnBoard'
    BY <1>0, <1>1 DEF OwnBoard, Coming
<1>8. Counts'
    <2>1. pc \in Measuring => hand.app = app
        BY <1>0, <1>20 DEF OwnBoard
    <2> QED
        BY <1>0, <1>1, <1>22, <2>1 DEF Counts
<1>9. FreshLines'
    BY <1>0, <1>1, <1>20, <1>22 DEF FreshLines
<1>10. AfterStatus'
    BY <1>0, <1>1 DEF AfterStatus
<1>11. RowsSoFar'
    BY <1>0, <1>1 DEF RowsSoFar
<1>12. RowFacts'
    BY <1>0, <1>1 DEF RowFacts, RowCountsCell, StableMeansClean
<1> QED
    BY <1>2, <1>3, <1>4, <1>5, <1>6, <1>7, <1>8, <1>9, <1>10, <1>11, <1>12 DEF CellInv

\* The reader thread ends with nothing in its hand.
LEMMA ReaderEndsKeeps ==
    ASSUME CellInv, ReaderEnds
    PROVE  CellInv'
<1>0. /\ CellTypes /\ LinesAreTrue /\ LinesInOrder /\ OldLines /\ FoundConfig /\ OwnBoard
      /\ Counts /\ FreshLines /\ AfterStatus /\ RowsSoFar /\ RowFacts
    BY DEF CellInv
<1>1. /\ reader = "read" /\ reader' = "ended"
      /\ UNCHANGED <<args, pc, index, cell, rows, row, failed, app, board, boardPixels, rx, errors, net,
                     printed, wire, lines, queue, hand, stopping>>
    BY DEF runVars, mainVars, boardVars, threadVars, uartVars, outside, ReaderEnds
<1> USE DEF OldBoard, NewBoard, Begun, Waiting, Baselining, Measuring, Left
<1>2. CellTypes'
    BY <1>0, <1>1 DEF CellTypes
<1>3. LinesAreTrue'
    BY <1>0, <1>1 DEF LinesAreTrue, TrueLine, Known, Read, Coming, Queued
<1>4. LinesInOrder'
    BY <1>0, <1>1 DEF LinesInOrder, Earlier
<1>5. OldLines'
    BY <1>0, <1>1 DEF OldLines, Coming, Read, Queued
<1>6. FoundConfig'
    BY <1>0, <1>1 DEF FoundConfig, Passed, Coming, Read, Queued
<1>7. OwnBoard'
    BY <1>0, <1>1 DEF OwnBoard, Coming
<1>8. Counts'
    BY <1>0, <1>1 DEF Counts, Queued
<1>9. FreshLines'
    BY <1>0, <1>1 DEF FreshLines, Read, Coming, Queued
<1>10. AfterStatus'
    BY <1>0, <1>1 DEF AfterStatus
<1>11. RowsSoFar'
    BY <1>0, <1>1 DEF RowsSoFar
<1>12. RowFacts'
    BY <1>0, <1>1 DEF RowFacts, RowCountsCell, StableMeansClean
<1> QED
    BY <1>2, <1>3, <1>4, <1>5, <1>6, <1>7, <1>8, <1>9, <1>10, <1>11, <1>12 DEF CellInv

\* A new cell looks at no line that was read before.
LEMMA StartCellKeeps ==
    ASSUME CellInv, StartCell
    PROVE  CellInv'
<1>0. /\ CellTypes /\ LinesAreTrue /\ LinesInOrder /\ OldLines /\ FoundConfig /\ OwnBoard
      /\ Counts /\ FreshLines /\ AfterStatus /\ RowsSoFar /\ RowFacts
    BY DEF CellInv
<1>1. /\ pc = "next" /\ index < Len(Cells(args)) /\ index' = index + 1 /\ cell' = NoCell
      /\ lines' = <<>> /\ pc' = "drain"
      /\ UNCHANGED <<args, rows, row, failed, app, board, boardPixels, rx, errors, net, printed, wire, queue,
                     hand, reader, stopping>>
    BY DEF runVars, mainVars, boardVars, threadVars, uartVars, outside, StartCell
<1> USE DEF OldBoard, NewBoard, Begun, Waiting, Baselining, Measuring, Left
<1>20. cell' \in CellRecords /\ {cell'.before, cell'.after, cell'.latest} = {None} /\ cell'.sent = 0
    BY <1>1, EmptyCell
<1>21. Read' = {} /\ Queued' = Queued /\ Coming' = Coming /\ Known' \subseteq Known \cup {None}
    <2>1. Read' = {} /\ Queued' = Queued /\ Coming' = Coming
        BY <1>1 DEF Read, Queued, Coming
    <2> QED
        BY <1>1, <1>20, <2>1 DEF Known
<1>2. CellTypes'
    BY <1>0, <1>1, <1>20 DEF CellTypes, CellRecords
<1>3. LinesAreTrue'
    <2>1. TrueLine(None)
        BY <1>0, NoLine DEF CellTypes, LinesAreTrue, TrueLine
    <2>2. \A m \in Known' : TrueLine(m)'
        BY <1>0, <1>1, <1>21, <2>1 DEF LinesAreTrue, TrueLine
    <2> QED
        BY <1>0, <1>1, <1>21, <2>2 DEF LinesAreTrue
<1>4. LinesInOrder'
    BY <1>0, <1>1 DEF LinesInOrder, Earlier
<1>5. OldLines'
    BY <1>0, <1>1 DEF OldLines, Coming, Read, Queued, NoCell
<1>6. FoundConfig'
    BY <1>0, <1>1 DEF FoundConfig, Passed, Coming, Read, Queued
<1>7. OwnBoard'
    BY <1>0, <1>1 DEF OwnBoard, Coming, NoCell
<1>8. Counts'
    BY <1>0, <1>1 DEF Counts, Queued
<1>9. FreshLines'
    BY <1>0, <1>1 DEF FreshLines, Read, Coming, Queued
<1>10. AfterStatus'
    BY <1>0, <1>1 DEF AfterStatus
<1>11. RowsSoFar'
    BY <1>0, <1>1 DEF RowsSoFar
<1>12. RowFacts'
    BY <1>0, <1>1 DEF RowFacts, RowCountsCell, StableMeansClean
<1> QED
    BY <1>2, <1>3, <1>4, <1>5, <1>6, <1>7, <1>8, <1>9, <1>10, <1>11, <1>12 DEF CellInv

\* What drain_pending takes from the queue is of the run before.
LEMMA DrainOldKeeps ==
    ASSUME CellInv, DrainOld
    PROVE  CellInv'
<1>0. /\ CellTypes /\ LinesAreTrue /\ LinesInOrder /\ OldLines /\ FoundConfig /\ OwnBoard
      /\ Counts /\ FreshLines /\ AfterStatus /\ RowsSoFar /\ RowFacts
    BY DEF CellInv
<1>1. /\ pc = "drain" /\ pc' = IF queue = <<>> THEN "program" ELSE "drain"
      /\ queue' = IF queue = <<>> THEN queue ELSE Tail(queue)
      /\ UNCHANGED <<args, index, cell, rows, row, failed, app, board, boardPixels, rx, errors, net, printed,
                     wire, lines, hand, reader, stopping>>
    BY DEF runVars, mainVars, boardVars, threadVars, uartVars, outside, Drain, DrainOld
<1> USE DEF OldBoard, NewBoard, Begun, Waiting, Baselining, Measuring, Left
<1>2. CellTypes'
    BY <1>0, <1>1 DEF CellTypes
<1>3. LinesAreTrue'
    BY <1>0, <1>1 DEF LinesAreTrue, TrueLine, Known, Read, Coming, Queued
<1>4. LinesInOrder'
    BY <1>0, <1>1 DEF LinesInOrder, Earlier
<1>5. OldLines'
    BY <1>0, <1>1 DEF OldLines, Coming, Read, Queued
<1>6. FoundConfig'
    BY <1>0, <1>1 DEF FoundConfig, Passed, Coming, Read, Queued
<1>7. OwnBoard'
    BY <1>0, <1>1 DEF OwnBoard, Coming
<1>8. Counts'
    BY <1>0, <1>1 DEF Counts, Queued
<1>9. FreshLines'
    BY <1>0, <1>1 DEF FreshLines, Read, Coming, Queued
<1>10. AfterStatus'
    BY <1>0, <1>1 DEF AfterStatus
<1>11. RowsSoFar'
    BY <1>0, <1>1 DEF RowsSoFar
<1>12. RowFacts'
    BY <1>0, <1>1 DEF RowFacts, RowCountsCell, StableMeansClean
<1> QED
    BY <1>2, <1>3, <1>4, <1>5, <1>6, <1>7, <1>8, <1>9, <1>10, <1>11, <1>12 DEF CellInv

\* The board stops printing; what it printed is still on its way.
LEMMA ResetBoardKeeps ==
    ASSUME CellInv, ResetBoard
    PROVE  CellInv'
<1>0. /\ CellTypes /\ LinesAreTrue /\ LinesInOrder /\ OldLines /\ FoundConfig /\ OwnBoard
      /\ Counts /\ FreshLines /\ AfterStatus /\ RowsSoFar /\ RowFacts
    BY DEF CellInv
<1>1. /\ pc = "program" /\ board' = "off" /\ pc' = "download"
      /\ UNCHANGED <<args, index, cell, rows, row, failed, app, boardPixels, rx, errors, net, printed, wire,
                     lines, queue, hand, reader, stopping>>
    BY DEF runVars, mainVars, boardVars, threadVars, uartVars, outside, ResetBoard
<1> USE DEF OldBoard, NewBoard, Begun, Waiting, Baselining, Measuring, Left
<1>2. CellTypes'
    BY <1>0, <1>1 DEF CellTypes
<1>3. LinesAreTrue'
    BY <1>0, <1>1 DEF LinesAreTrue, TrueLine, Known, Read, Coming, Queued
<1>4. LinesInOrder'
    BY <1>0, <1>1 DEF LinesInOrder, Earlier
<1>5. OldLines'
    BY <1>0, <1>1 DEF OldLines, Coming, Read, Queued
<1>6. FoundConfig'
    BY <1>0, <1>1 DEF FoundConfig, Passed, Coming, Read, Queued
<1>7. OwnBoard'
    BY <1>0, <1>1 DEF OwnBoard, Coming
<1>8. Counts'
    BY <1>0, <1>1 DEF Counts, Queued
<1>9. FreshLines'
    BY <1>0, <1>1 DEF FreshLines, Read, Coming, Queued
<1>10. AfterStatus'
    BY <1>0, <1>1 DEF AfterStatus
<1>11. RowsSoFar'
    BY <1>0, <1>1 DEF RowsSoFar
<1>12. RowFacts'
    BY <1>0, <1>1 DEF RowFacts, RowCountsCell, StableMeansClean
<1> QED
    BY <1>2, <1>3, <1>4, <1>5, <1>6, <1>7, <1>8, <1>9, <1>10, <1>11, <1>12 DEF CellInv

\* The new run of the application has counted nothing, and every line there is
\* was printed before it.
LEMMA StartAppKeeps ==
    ASSUME CellInv, StartApp
    PROVE  CellInv'
<1>0. /\ CellTypes /\ LinesAreTrue /\ LinesInOrder /\ OldLines /\ FoundConfig /\ OwnBoard
      /\ Counts /\ FreshLines /\ AfterStatus /\ RowsSoFar /\ RowFacts
    BY DEF CellInv
<1>1. /\ pc = "download" /\ app' = app + 1 /\ board' = "boot" /\ boardPixels' = Pixels /\ rx' = 0 /\ errors' = 0
      /\ printed' = 0 /\ pc' = "running"
      /\ UNCHANGED <<args, index, cell, rows, row, failed, net, wire, lines, queue, hand, reader, stopping>>
    BY DEF runVars, mainVars, boardVars, threadVars, uartVars, outside, StartApp
<1> USE DEF OldBoard, NewBoard, Begun, Waiting, Baselining, Measuring, Left
<1>20. Read' = Read /\ Queued' = Queued /\ Coming' = Coming /\ Known' = Known
    <2>1. Read' = Read /\ Queued' = Queued /\ Coming' = Coming
        BY <1>1 DEF Read, Queued, Coming
    <2> QED
        BY <1>1, <2>1 DEF Known
<1>21. ASSUME NEW l \in Known PROVE l.app < app' /\ l.app # app' /\ l.errors <= l.rx /\ l.rx \in Nat /\ (l.app = app /\ rx = 0 => l.rx = 0)
    <2>1. TrueLine(l) /\ l.app \in Nat /\ l.rx \in Nat /\ l.errors \in Nat
        BY <1>0, KnownLines DEF LinesAreTrue
    <2> QED
        BY <1>0, <1>1, <2>1 DEF CellTypes, TrueLine
<1>22. Read \cup Coming \cup Queued \subseteq Known /\ Passed \subseteq Known /\ Passed' = Passed
    BY <1>0, <1>1, KnownLines DEF Passed, Known, Queued
<1>2. CellTypes'
    <2>1. Pixels \in Int
        <3>1. PICK a \in CommandLines : a = args
            BY <1>0 DEF CellTypes
        <3>2. index \in 1 .. Len(Cells(a)) /\ Cells(a) \in Seq(Int \X Int)
            BY <1>0, <1>1, <3>1, CellsAssumption DEF RowsSoFar, CellTypes
        <3>3. Cells(a)[index] \in Int \X Int
            BY <3>2
        <3> QED
            BY <3>1, <3>3 DEF Pixels
    <2> QED
        BY <1>0, <1>1, <2>1 DEF CellTypes
<1>3. LinesAreTrue'
    <2>1. ASSUME NEW l \in Known PROVE TrueLine(l)'
        <3>1. l.app \in Nat /\ app' \in Nat
            BY <1>0, <1>1, KnownLines DEF CellTypes
        <3> QED
            BY <1>21, <3>1 DEF TrueLine
    <2> QED
        BY <1>1, <1>20, <1>21, <1>22, <2>1 DEF LinesAreTrue
<1>4. LinesInOrder'
    BY <1>0, <1>1 DEF LinesInOrder, Earlier
<1>5. OldLines'
    BY <1>0, <1>1 DEF OldLines, Coming, Read, Queued, NoCell
<1>6. FoundConfig'
    <2>1. \/ \A l \in Read \cup Queued \cup Coming : l.kind # "config"
          \/ \A l \in Read \cup Queued \cup Coming : l.rx = 0
        BY <1>0, <1>1, <1>21, <1>22 DEF OldLines
    <2> QED
        BY <1>1, <1>20, <1>21, <1>22, <2>1 DEF FoundConfig
<1>7. OwnBoard'
    <2>1. cell.sent = 0 /\ net = 0
        BY <1>0, <1>1, EmptyCell DEF OldLines
    <2> QED
        BY <1>1, <2>1 DEF OwnBoard
<1>8. Counts'
    BY <1>0, <1>1 DEF Counts, Queued
<1>9. FreshLines'
    BY <1>1, <1>20, <1>21, <1>22 DEF FreshLines
<1>10. AfterStatus'
    BY <1>0, <1>1 DEF AfterStatus
<1>11. RowsSoFar'
    BY <1>0, <1>1 DEF RowsSoFar
<1>12. RowFacts'
    BY <1>0, <1>1 DEF RowFacts, RowCountsCell, StableMeansClean
<1> QED
    BY <1>2, <1>3, <1>4, <1>5, <1>6, <1>7, <1>8, <1>9, <1>10, <1>11, <1>12 DEF CellInv

\* After five seconds all that is on its way is of the cell's own run.
LEMMA JtagRunEndsKeeps ==
    ASSUME CellInv, JtagRunEnds
    PROVE  CellInv'
<1>0. /\ CellTypes /\ LinesAreTrue /\ LinesInOrder /\ OldLines /\ FoundConfig /\ OwnBoard
      /\ Counts /\ FreshLines /\ AfterStatus /\ RowsSoFar /\ RowFacts
    BY DEF CellInv
<1>1. /\ pc = "running" /\ pc' = "config" /\ FiveSecondsLater
      /\ UNCHANGED <<args, index, cell, rows, row, failed, app, board, boardPixels, rx, errors, net, printed,
                     wire, lines, queue, hand, reader, stopping>>
    BY DEF runVars, mainVars, boardVars, threadVars, uartVars, outside, JtagRunEnds
<1> USE DEF OldBoard, NewBoard, Begun, Waiting, Baselining, Measuring, Left
<1>20. /\ board # "boot" /\ reader = "read" /\ \A i \in DOMAIN wire : wire[i].app = app
       /\ board = "dead" \/ \E i \in DOMAIN lines : lines[i].app = app
       /\ board = "dead" \/ \A i \in DOMAIN wire : wire[i].kind # "config"
    <2>1. /\ board # "boot" /\ reader = "read" /\ \A i \in DOMAIN wire : wire[i].app = app
          /\ board = "dead" \/ \E i \in DOMAIN lines : lines[i].app = app
        BY <1>1 DEF FiveSecondsLater
    <2>2. ASSUME NEW i \in DOMAIN lines, lines[i].app = app, NEW j \in DOMAIN wire PROVE wire[j].kind # "config"
        <3>1. wire[j].app = app /\ app \in Nat
            BY <1>0, <2>1 DEF CellTypes
        <3>2. Earlier(lines[i], wire[j])
            BY <1>0 DEF LinesInOrder
        <3> QED
            BY <2>2, <3>1, <3>2 DEF Earlier
    <2> QED
        BY <2>1, <2>2
<1>2. CellTypes'
    BY <1>0, <1>1 DEF CellTypes
<1>3. LinesAreTrue'
    BY <1>0, <1>1 DEF LinesAreTrue, TrueLine, Known, Read, Coming, Queued
<1>4. LinesInOrder'
    BY <1>0, <1>1 DEF LinesInOrder, Earlier
<1>5. OldLines'
    BY <1>0, <1>1 DEF OldLines, Coming, Read, Queued
<1>6. FoundConfig'
    BY <1>0, <1>1 DEF FoundConfig, Passed, Coming, Read, Queued
<1>7. OwnBoard'
    <2>1. \A l \in Coming : \E i \in DOMAIN wire : l = wire[i]
        BY <1>20 DEF Coming
    <2> QED
        BY <1>0, <1>1, <1>20, <2>1 DEF OwnBoard, Coming
<1>8. Counts'
    BY <1>0, <1>1 DEF Counts, Queued
<1>9. FreshLines'
    BY <1>0, <1>1 DEF FreshLines, Read, Coming, Queued
<1>10. AfterStatus'
    BY <1>0, <1>1 DEF AfterStatus
<1>11. RowsSoFar'
    BY <1>0, <1>1 DEF RowsSoFar
<1>12. RowFacts'
    BY <1>0, <1>1 DEF RowFacts, RowCountsCell, StableMeansClean
<1> QED
    BY <1>2, <1>3, <1>4, <1>5, <1>6, <1>7, <1>8, <1>9, <1>10, <1>11, <1>12 DEF CellInv

\* A command that fails ends the loop.
LEMMA CommandFailsKeeps ==
    ASSUME CellInv, CommandFails
    PROVE  CellInv'
<1>0. /\ CellTypes /\ LinesAreTrue /\ LinesInOrder /\ OldLines /\ FoundConfig /\ OwnBoard
      /\ Counts /\ FreshLines /\ AfterStatus /\ RowsSoFar /\ RowFacts
    BY DEF CellInv
<1>1. /\ pc \in {"program", "download", "running", "send", "snapshot"} /\ failed' = TRUE /\ pc' = "stop"
      /\ UNCHANGED <<args, index, cell, rows, row, app, board, boardPixels, rx, errors, net, printed, wire,
                     lines, queue, hand, reader, stopping>>
    BY DEF runVars, mainVars, boardVars, threadVars, uartVars, outside, Fail, CommandFails, WaitsForCommand
<1> USE DEF OldBoard, NewBoard, Begun, Waiting, Baselining, Measuring, Left
<1>2. CellTypes'
    BY <1>0, <1>1 DEF CellTypes
<1>3. LinesAreTrue'
    BY <1>0, <1>1 DEF LinesAreTrue, TrueLine, Known, Read, Coming, Queued
<1>4. LinesInOrder'
    BY <1>0, <1>1 DEF LinesInOrder, Earlier
<1>5. OldLines'
    BY <1>0, <1>1 DEF OldLines, Coming, Read, Queued
<1>6. FoundConfig'
    BY <1>0, <1>1 DEF FoundConfig, Passed, Coming, Read, Queued
<1>7. OwnBoard'
    BY <1>0, <1>1 DEF OwnBoard, Coming
<1>8. Counts'
    BY <1>0, <1>1 DEF Counts, Queued
<1>9. FreshLines'
    BY <1>0, <1>1 DEF FreshLines, Read, Coming, Queued
<1>10. AfterStatus'
    BY <1>0, <1>1 DEF AfterStatus
<1>11. RowsSoFar'
    BY <1>0, <1>1 DEF RowsSoFar
<1>12. RowFacts'
    BY <1>0, <1>1 DEF RowFacts, RowCountsCell, StableMeansClean
<1> QED
    BY <1>2, <1>3, <1>4, <1>5, <1>6, <1>7, <1>8, <1>9, <1>10, <1>11, <1>12 DEF CellInv

\* A configuration line of the cell's own run, or one of a run that has counted
\* nothing, ends the wait.
LEMMA WaitConfigKeeps ==
    ASSUME CellInv, WaitConfig
    PROVE  CellInv'
<1>0. /\ CellTypes /\ LinesAreTrue /\ LinesInOrder /\ OldLines /\ FoundConfig /\ OwnBoard
      /\ Counts /\ FreshLines /\ AfterStatus /\ RowsSoFar /\ RowFacts
    BY DEF CellInv
<1>1. /\ pc \in {"config", "configQueue"} /\ pc' \in {"configQueue", "mark"} /\ cell' = cell
      /\ queue' = queue \/ (queue # <<>> /\ queue' = Tail(queue))
      /\ pc' = "mark" => \E l \in Read \cup Queued : l.kind = "config"
      /\ UNCHANGED <<args, index, rows, row, failed, app, board, boardPixels, rx, errors, net, printed, wire,
                     lines, hand, reader, stopping>>
    <2>1. queue # <<>> => Head(queue) \in Queued
        BY <1>0, FirstLine DEF CellTypes, Queued
    <2>2. \A i \in 0 + 1 .. Len(lines) : lines[i] \in Read
        BY <1>0 DEF CellTypes, Read
    <2> QED
        BY <2>1, <2>2 DEF runVars, mainVars, boardVars, threadVars, uartVars, outside, WaitFor, IsConfig, WaitConfig
<1> USE DEF OldBoard, NewBoard, Begun, Waiting, Baselining, Measuring, Left
<1>20. /\ queue' \in Seq(Lines) /\ Queued' \subseteq Queued /\ Read' = Read /\ Coming' = Coming
       /\ Passed' \subseteq Passed /\ Passed \subseteq Queued \cup Coming
       /\ queue # <<>> => Head(queue) \in Queued
    BY <1>0, <1>1, QueuedLines DEF CellTypes, Read, Coming, Passed
<1>2. CellTypes'
    BY <1>0, <1>1, <1>20 DEF CellTypes
<1>3. LinesAreTrue'
    BY <1>0, <1>1 DEF LinesAreTrue, TrueLine, Known, Read, Coming, Queued
<1>4. LinesInOrder'
    BY <1>0, <1>1 DEF LinesInOrder, Earlier
<1>5. OldLines'
    BY <1>1 DEF OldLines
<1>6. FoundConfig'
    <2>1. \A m \in Passed' : m.app = app => \E i \in DOMAIN lines : lines[i].app = app
        BY <1>0, <1>1, <1>20 DEF FoundConfig
    <2>2. ASSUME pc' = "mark"
          PROVE  (\E i \in DOMAIN lines : lines[i].app = app) \/ \A i \in DOMAIN lines : lines[i].rx = 0
        <3>1. PICK c \in Read \cup Queued : c.kind = "config"
            BY <1>1, <2>2
        <3>2. \A l \in Known : l.app \in Nat /\ l.app <= app
            BY <1>0, KnownLines DEF LinesAreTrue, TrueLine
        <3>3. CASE c.app = app
            <4>1. c \in Read \/ c \in Passed
                BY <3>1 DEF Passed
            <4> QED
                BY <1>0, <1>1, <3>3, <4>1, KnownLines DEF FoundConfig
        <3>4. CASE c.app # app
            <4>1. c.app < app
                BY <1>0, <3>1, <3>2, <3>4, KnownLines DEF CellTypes
            <4>2. \A l \in Read : l.app < app => l.rx = 0
                BY <1>0, <1>1, <3>1, <4>1 DEF FoundConfig
            <4>3. \A i \in DOMAIN lines : lines[i].app = app \/ lines[i].app < app
                BY <1>0, <3>2, KnownLines DEF CellTypes
            <4> QED
                BY <1>0, <4>2, <4>3, KnownLines
        <3> QED
            BY <3>3, <3>4
    <2>3. pc' = "configQueue" => \/ \A l \in Read \cup Queued \cup Coming : l.app < app => l.kind # "config"
                                 \/ \A l \in Read \cup Queued \cup Coming : l.app < app => l.rx = 0
        BY <1>0, <1>1 DEF FoundConfig
    <2> QED
        BY <1>1, <1>20, <2>1, <2>2, <2>3 DEF FoundConfig
<1>7. OwnBoard'
    BY <1>0, <1>1 DEF OwnBoard, Coming
<1>8. Counts'
    BY <1>1 DEF Counts
<1>9. FreshLines'
    BY <1>0, <1>1, <1>20 DEF FreshLines
<1>10. AfterStatus'
    BY <1>0, <1>1 DEF AfterStatus
<1>11. RowsSoFar'
    BY <1>0, <1>1 DEF RowsSoFar
<1>12. RowFacts'
    BY <1>0, <1>1 DEF RowFacts, RowCountsCell, StableMeansClean
<1> QED
    BY <1>2, <1>3, <1>4, <1>5, <1>6, <1>7, <1>8, <1>9, <1>10, <1>11, <1>12 DEF CellInv

\* The status lines are looked for from the last line read on.
LEMMA MarkStatusStartKeeps ==
    ASSUME CellInv, MarkStatusStart
    PROVE  CellInv'
<1>0. /\ CellTypes /\ LinesAreTrue /\ LinesInOrder /\ OldLines /\ FoundConfig /\ OwnBoard
      /\ Counts /\ FreshLines /\ AfterStatus /\ RowsSoFar /\ RowFacts
    BY DEF CellInv
<1>1. /\ pc = "mark" /\ pc' = "baseline"
      /\ cell' = [cell EXCEPT !.statusStart = IF lines = <<>> THEN 0 ELSE Len(lines) - 1]
      /\ UNCHANGED <<args, index, rows, row, failed, app, board, boardPixels, rx, errors, net, printed, wire,
                     lines, queue, hand, reader, stopping>>
    BY DEF runVars, mainVars, boardVars, threadVars, uartVars, outside, MarkStatusStart
<1> USE DEF OldBoard, NewBoard, Begun, Waiting, Baselining, Measuring, Left
<1>20. PICK n \in Nat : /\ n = (IF lines = <<>> THEN 0 ELSE Len(lines) - 1)
                        /\ n <= Len(lines) /\ \A i \in DOMAIN lines : i > n => i = Len(lines)
    <2>1. CASE lines = <<>>
        BY <2>1
    <2>2. CASE lines # <<>>
        <3>1. PICK k \in Nat \ {0} : k = Len(lines) /\ DOMAIN lines = 1 .. k
            BY <1>0, <2>2, FirstLine DEF CellTypes
        <3>2. k - 1 \in Nat /\ k - 1 <= k /\ \A i \in 1 .. k : i > k - 1 => i = k
            OBVIOUS
        <3> QED
            BY <2>2, <3>1, <3>2
    <2> QED
        BY <2>1, <2>2
<1>21. /\ cell' \in CellRecords /\ cell'.statusStart = n /\ cell'.before = cell.before /\ cell'.after = cell.after
       /\ cell'.latest = cell.latest /\ cell'.sent = cell.sent
    BY <1>0, <1>1, <1>20, CellTyped, CellUpdates, NoLine DEF CellRecords
<1>2. CellTypes'
    BY <1>0, <1>1, <1>21 DEF CellTypes, CellRecords
<1>3. LinesAreTrue'
    <2>1. Known' = Known /\ Read' = Read /\ Coming' = Coming /\ Queued' = Queued
        BY <1>1, <1>21 DEF Known, Read, Coming, Queued
    <2> QED
        BY <1>0, <1>1, <2>1 DEF LinesAreTrue, TrueLine
<1>4. LinesInOrder'
    BY <1>0, <1>1 DEF LinesInOrder, Earlier
<1>5. OldLines'
    BY <1>0, <1>1 DEF OldLines, Coming, Read, Queued
<1>6. FoundConfig'
    <2>1. n <= Len(lines) /\ \A i \in DOMAIN lines : i > n => i = Len(lines)
        BY <1>20
    <2>2. ASSUME NEW i \in DOMAIN lines, lines[i].app = app PROVE lines[Len(lines)].app = app
        <3>1. lines \in Seq(Lines) /\ Len(lines) \in Nat /\ i \in 1 .. Len(lines) /\ Len(lines) \in DOMAIN lines
            BY <1>0 DEF CellTypes
        <3>2. i = Len(lines) \/ Earlier(lines[i], lines[Len(lines)])
            BY <1>0, <3>1 DEF LinesInOrder
        <3>3. lines[Len(lines)].app \in Nat /\ lines[Len(lines)].app <= app /\ app \in Nat
            BY <1>0, <3>1, KnownLines DEF LinesAreTrue, TrueLine, CellTypes
        <3> QED
            BY <2>2, <3>2, <3>3 DEF Earlier
    <2>3. board = "run" => \E i \in DOMAIN lines : lines[i].app = app
        BY <1>0, <1>1 DEF OwnBoard
    <2>4. /\ \A i \in DOMAIN lines : i > n => lines[i].app = app \/ lines[i].rx = 0
          /\ board = "run" => \A i \in DOMAIN lines : i > n => lines[i].app = app
        BY <1>0, <1>1, <2>1, <2>2, <2>3 DEF FoundConfig
    <2>5. Passed' = Passed
        BY <1>1 DEF Queued, Passed
    <2> QED
        BY <1>0, <1>1, <1>21, <2>1, <2>4, <2>5 DEF FoundConfig
<1>7. OwnBoard'
    BY <1>0, <1>1, <1>21 DEF OwnBoard, Coming
<1>8. Counts'
    BY <1>0, <1>1 DEF Counts, Queued
<1>9. FreshLines'
    BY <1>0, <1>1 DEF FreshLines, Read, Coming, Queued
<1>10. AfterStatus'
    BY <1>0, <1>1 DEF AfterStatus
<1>11. RowsSoFar'
    BY <1>0, <1>1 DEF RowsSoFar
<1>12. RowFacts'
    BY <1>0, <1>1 DEF RowFacts, RowCountsCell, StableMeansClean
<1> QED
    BY <1>2, <1>3, <1>4, <1>5, <1>6, <1>7, <1>8, <1>9, <1>10, <1>11, <1>12 DEF CellInv

\* The baseline counts no packet and no error.
LEMMA WaitBaselineKeeps ==
    ASSUME CellInv, WaitBaseline
    PROVE  CellInv'
<1>0. /\ CellTypes /\ LinesAreTrue /\ LinesInOrder /\ OldLines /\ FoundConfig /\ OwnBoard
      /\ Counts /\ FreshLines /\ AfterStatus /\ RowsSoFar /\ RowFacts
    BY DEF CellInv
<1>1. /\ pc \in {"baseline", "baselineQueue"} /\ pc' \in {"baselineQueue", "drainBaseline"}
      /\ queue' = queue \/ (queue # <<>> /\ queue' = Tail(queue))
      /\ \/ pc' = "baselineQueue" /\ cell' = cell
         \/ /\ pc' = "drainBaseline"
            /\ \E l \in Read \cup Queued : l.kind = "status" /\ l.rx = 0 /\ cell' = [cell EXCEPT !.before = l]
      /\ UNCHANGED <<args, index, rows, row, failed, app, board, boardPixels, rx, errors, net, printed, wire,
                     lines, hand, reader, stopping>>
    <2>1. queue # <<>> => Head(queue) \in Queued
        BY <1>0, FirstLine DEF CellTypes, Queued
    <2>2. \A i \in cell.statusStart + 1 .. Len(lines) : lines[i] \in Read
        <3>1. cell.statusStart \in Nat /\ Len(lines) \in Nat /\ DOMAIN lines = 1 .. Len(lines)
            BY <1>0, CellTyped DEF CellTypes, CellRecords
        <3> QED
            BY <3>1 DEF Read
    <2> QED
        BY <2>1, <2>2 DEF runVars, mainVars, boardVars, threadVars, uartVars, outside, WaitFor, IsBaseline,
           IsStatus, WaitBaseline
<1> USE DEF OldBoard, NewBoard, Begun, Waiting, Baselining, Measuring, Left
<1>20. /\ queue' \in Seq(Lines) /\ Queued' \subseteq Queued /\ Read' = Read /\ Coming' = Coming
       /\ Passed' \subseteq Passed /\ Passed \subseteq Queued \cup Coming
       /\ queue # <<>> => Head(queue) \in Queued
    BY <1>0, <1>1, QueuedLines DEF CellTypes, Read, Coming, Passed
<1>21. \/ pc' = "baselineQueue" /\ cell' = cell
       \/ /\ pc' = "drainBaseline"
          /\ \E l \in Read \cup Queued : /\ l.rx = 0 /\ cell' \in CellRecords /\ cell'.before = l
                                       /\ cell'.statusStart = cell.statusStart /\ cell'.after = cell.after
                                       /\ cell'.latest = cell.latest /\ cell'.sent = cell.sent
    BY <1>0, <1>1, CellTyped, CellUpdates, KnownLines, BenchAssumption DEF CellRecords
<1>22. /\ cell' \in CellRecords /\ cell'.statusStart = cell.statusStart /\ cell'.latest = cell.latest /\ cell'.sent = cell.sent
       /\ Known' \subseteq Known
    <2>1. cell' \in CellRecords /\ cell'.statusStart = cell.statusStart /\ cell'.latest = cell.latest /\ cell'.sent = cell.sent
          /\ cell'.after = cell.after /\ cell'.before \in Known
        BY <1>0, <1>21, CellTyped, KnownLines
    <2> QED
        BY <1>1, <1>20, <2>1 DEF Known
<1>2. CellTypes'
    BY <1>0, <1>1, <1>20, <1>22 DEF CellTypes, CellRecords
<1>3. LinesAreTrue'
    BY <1>0, <1>1, <1>20, <1>22 DEF LinesAreTrue, TrueLine
<1>4. LinesInOrder'
    BY <1>0, <1>1 DEF LinesInOrder, Earlier
<1>5. OldLines'
    BY <1>1 DEF OldLines
<1>6. FoundConfig'
    BY <1>0, <1>1, <1>20, <1>22 DEF FoundConfig
<1>7. OwnBoard'
    BY <1>0, <1>1, <1>20, <1>22 DEF OwnBoard
<1>8. Counts'
    <2>1. \A l \in Read \cup Queued : l.rx = 0 => l.errors = 0
        <3>1. \A l \in Known : l.errors \in Nat /\ l.rx \in Nat /\ l.errors <= l.rx
            BY <1>0, KnownLines DEF LinesAreTrue, TrueLine
        <3> QED
            BY <1>0, <3>1, KnownLines
    <2> QED
        BY <1>0, <1>1, <1>21, <2>1 DEF Counts
<1>9. FreshLines'
    BY <1>0, <1>1, <1>20 DEF FreshLines
<1>10. AfterStatus'
    BY <1>0, <1>1 DEF AfterStatus
<1>11. RowsSoFar'
    BY <1>0, <1>1 DEF RowsSoFar
<1>12. RowFacts'
    BY <1>0, <1>1 DEF RowFacts, RowCountsCell, StableMeansClean
<1> QED
    BY <1>2, <1>3, <1>4, <1>5, <1>6, <1>7, <1>8, <1>9, <1>10, <1>11, <1>12 DEF CellInv

\* A wait that times out ends the loop.
LEMMA WaitTimesOutKeeps ==
    ASSUME CellInv, WaitTimesOut
    PROVE  CellInv'
<1>0. /\ CellTypes /\ LinesAreTrue /\ LinesInOrder /\ OldLines /\ FoundConfig /\ OwnBoard
      /\ Counts /\ FreshLines /\ AfterStatus /\ RowsSoFar /\ RowFacts
    BY DEF CellInv
<1>1. /\ pc \in {"configQueue", "baselineQueue"} /\ failed' = TRUE /\ pc' = "stop"
      /\ UNCHANGED <<args, index, cell, rows, row, app, board, boardPixels, rx, errors, net, printed, wire,
                     lines, queue, hand, reader, stopping>>
    BY DEF runVars, mainVars, boardVars, threadVars, uartVars, outside, Fail, WaitTimesOut
<1> USE DEF OldBoard, NewBoard, Begun, Waiting, Baselining, Measuring, Left
<1>2. CellTypes'
    BY <1>0, <1>1 DEF CellTypes
<1>3. LinesAreTrue'
    BY <1>0, <1>1 DEF LinesAreTrue, TrueLine, Known, Read, Coming, Queued
<1>4. LinesInOrder'
    BY <1>0, <1>1 DEF LinesInOrder, Earlier
<1>5. OldLines'
    BY <1>0, <1>1 DEF OldLines, Coming, Read, Queued
<1>6. FoundConfig'
    BY <1>0, <1>1 DEF FoundConfig, Passed, Coming, Read, Queued
<1>7. OwnBoard'
    BY <1>0, <1>1 DEF OwnBoard, Coming
<1>8. Counts'
    BY <1>0, <1>1 DEF Counts, Queued
<1>9. FreshLines'
    BY <1>0, <1>1 DEF FreshLines, Read, Coming, Queued
<1>10. AfterStatus'
    BY <1>0, <1>1 DEF AfterStatus
<1>11. RowsSoFar'
    BY <1>0, <1>1 DEF RowsSoFar
<1>12. RowFacts'
    BY <1>0, <1>1 DEF RowFacts, RowCountsCell, StableMeansClean
<1> QED
    BY <1>2, <1>3, <1>4, <1>5, <1>6, <1>7, <1>8, <1>9, <1>10, <1>11, <1>12 DEF CellInv

\* Once the queue is empty, what is queued later is of the cell's own run.
LEMMA DrainBaselineKeeps ==
    ASSUME CellInv, DrainBaseline
    PROVE  CellInv'
<1>0. /\ CellTypes /\ LinesAreTrue /\ LinesInOrder /\ OldLines /\ FoundConfig /\ OwnBoard
      /\ Counts /\ FreshLines /\ AfterStatus /\ RowsSoFar /\ RowFacts
    BY DEF CellInv
<1>1. /\ pc = "drainBaseline" /\ pc' = IF queue = <<>> THEN "send" ELSE "drainBaseline"
      /\ queue' = IF queue = <<>> THEN queue ELSE Tail(queue)
      /\ UNCHANGED <<args, index, cell, rows, row, failed, app, board, boardPixels, rx, errors, net, printed,
                     wire, lines, hand, reader, stopping>>
    BY DEF runVars, mainVars, boardVars, threadVars, uartVars, outside, Drain, DrainBaseline
<1> USE DEF OldBoard, NewBoard, Begun, Waiting, Baselining, Measuring, Left
<1>20. /\ queue' \in Seq(Lines) /\ Queued' \subseteq Queued /\ Read' = Read /\ Coming' = Coming
       /\ Passed' \subseteq Passed
       /\ pc' = "send" => Queued' = {}
    <2>1. queue = <<>> => DOMAIN queue = {}
        OBVIOUS
    <2> QED
        BY <1>0, <1>1, <2>1, QueuedLines DEF CellTypes, Read, Coming, Queued, Passed
<1>2. CellTypes'
    BY <1>0, <1>1 DEF CellTypes
<1>3. LinesAreTrue'
    BY <1>0, <1>1 DEF LinesAreTrue, TrueLine, Known, Read, Coming, Queued
<1>4. LinesInOrder'
    BY <1>0, <1>1 DEF LinesInOrder, Earlier
<1>5. OldLines'
    BY <1>0, <1>1 DEF OldLines, Coming, Read, Queued
<1>6. FoundConfig'
    BY <1>0, <1>1, <1>20 DEF FoundConfig
<1>7. OwnBoard'
    BY <1>0, <1>1 DEF OwnBoard, Coming
<1>8. Counts'
    <2>1. rx + net <= cell.sent
        BY <1>0, <1>1 DEF OwnBoard
    <2> QED
        BY <1>0, <1>1, <1>20, <2>1 DEF Counts
<1>9. FreshLines'
    BY <1>0, <1>1, <1>20 DEF FreshLines
<1>10. AfterStatus'
    BY <1>0, <1>1 DEF AfterStatus
<1>11. RowsSoFar'
    BY <1>0, <1>1 DEF RowsSoFar
<1>12. RowFacts'
    BY <1>0, <1>1 DEF RowFacts, RowCountsCell, StableMeansClean
<1> QED
    BY <1>2, <1>3, <1>4, <1>5, <1>6, <1>7, <1>8, <1>9, <1>10, <1>11, <1>12 DEF CellInv

\* A packet sent is on its way.
LEMMA SendPacketKeeps ==
    ASSUME CellInv, SendPacket
    PROVE  CellInv'
<1>0. /\ CellTypes /\ LinesAreTrue /\ LinesInOrder /\ OldLines /\ FoundConfig /\ OwnBoard
      /\ Counts /\ FreshLines /\ AfterStatus /\ RowsSoFar /\ RowFacts
    BY DEF CellInv
<1>1. /\ pc = "send" /\ cell.sent < MaxSent /\ cell' = [cell EXCEPT !.sent = cell.sent + 1] /\ net' = net + 1
      /\ UNCHANGED <<args, pc, index, rows, row, failed, app, board, boardPixels, rx, errors, printed, wire,
                     lines, queue, hand, reader, stopping>>
    BY DEF runVars, mainVars, boardVars, threadVars, uartVars, outside, SendPacket
<1> USE DEF OldBoard, NewBoard, Begun, Waiting, Baselining, Measuring, Left
<1>20. /\ cell.sent \in Nat /\ cell'.sent = cell.sent + 1 /\ cell' \in CellRecords /\ cell'.before = cell.before
       /\ cell'.after = cell.after /\ cell'.latest = cell.latest /\ cell'.statusStart = cell.statusStart
    <2>1. cell.sent \in Nat /\ cell.sent + 1 \in 0 .. MaxSent
        BY <1>0, <1>1, CellTyped, BenchAssumption DEF CellRecords
    <2> QED
        BY <1>0, <1>1, <2>1, CellTyped, CellUpdates, NoLine
<1>2. CellTypes'
    BY <1>0, <1>1, <1>20 DEF CellTypes, CellRecords
<1>3. LinesAreTrue'
    BY <1>0, <1>1 DEF LinesAreTrue, TrueLine, Known, Read, Coming, Queued
<1>4. LinesInOrder'
    BY <1>0, <1>1 DEF LinesInOrder, Earlier
<1>5. OldLines'
    BY <1>0, <1>1 DEF OldLines, Coming, Read, Queued
<1>6. FoundConfig'
    BY <1>0, <1>1 DEF FoundConfig, Passed, Coming, Read, Queued
<1>7. OwnBoard'
    BY <1>0, <1>1 DEF OwnBoard, Coming
<1>8. Counts'
    <2>1. rx + net' <= cell'.sent
        BY <1>0, <1>1, <1>20 DEF Counts, CellTypes
    <2> QED
        BY <1>0, <1>1, <1>20, <2>1 DEF Counts, Queued
<1>9. FreshLines'
    BY <1>0, <1>1 DEF FreshLines, Read, Coming, Queued
<1>10. AfterStatus'
    BY <1>0, <1>1 DEF AfterStatus
<1>11. RowsSoFar'
    BY <1>0, <1>1 DEF RowsSoFar
<1>12. RowFacts'
    BY <1>0, <1>1 DEF RowFacts, RowCountsCell, StableMeansClean
<1> QED
    BY <1>2, <1>3, <1>4, <1>5, <1>6, <1>7, <1>8, <1>9, <1>10, <1>11, <1>12 DEF CellInv

\* The latest status when the sender ends is of the cell's own run or counts nothing.
LEMMA SenderEndsKeeps ==
    ASSUME CellInv, SenderEnds
    PROVE  CellInv'
<1>0. /\ CellTypes /\ LinesAreTrue /\ LinesInOrder /\ OldLines /\ FoundConfig /\ OwnBoard
      /\ Counts /\ FreshLines /\ AfterStatus /\ RowsSoFar /\ RowFacts
    BY DEF CellInv
<1>1. /\ pc = "send" /\ cell.sent > 0 /\ cell' = [cell EXCEPT !.latest = LatestStatus] /\ printed' = 0 /\ pc' = "after"
      /\ UNCHANGED <<args, index, rows, row, failed, app, board, boardPixels, rx, errors, net, wire, lines,
                     queue, hand, reader, stopping>>
    BY DEF runVars, mainVars, boardVars, threadVars, uartVars, outside, SenderEnds
<1> USE DEF OldBoard, NewBoard, Begun, Waiting, Baselining, Measuring, Left
<1>20. PICK l \in Lines : /\ l = LatestStatus /\ l \in Known \cup {None}
                        /\ \/ l = None
                           \/ /\ l.kind = "status" /\ (l.app = app \/ l.rx = 0)
                              /\ board = "run" => l.app = app
    <2>1. \A i \in DOMAIN lines : i > cell.statusStart => (lines[i].app = app \/ lines[i].rx = 0) /\ (board = "run" => lines[i].app = app)
        BY <1>0, <1>1 DEF FoundConfig
    <2>2. \A i \in DOMAIN lines : lines[i] \in Known
        BY <1>0, KnownLines
    <2> QED
        BY <1>0, <2>1, <2>2, Latest
<1>21. /\ cell' \in CellRecords /\ cell'.sent = cell.sent /\ cell'.statusStart = cell.statusStart /\ cell'.before = cell.before
       /\ cell'.after = cell.after /\ cell'.latest = l
    BY <1>0, <1>1, <1>20, CellTyped, CellUpdates, BenchAssumption DEF CellRecords
<1>22. Read' = Read /\ Queued' = Queued /\ Coming' = Coming /\ Known' \subseteq Known \cup {None}
    <2>1. Read' = Read /\ Queued' = Queued /\ Coming' = Coming
        BY <1>1 DEF Read, Queued, Coming
    <2> QED
        BY <1>1, <1>20, <1>21, <2>1 DEF Known
<1>2. CellTypes'
    BY <1>0, <1>1, <1>21 DEF CellTypes, CellRecords
<1>3. LinesAreTrue'
    <2>1. TrueLine(None)
        BY <1>0, NoLine DEF CellTypes, LinesAreTrue, TrueLine
    <2>2. \A m \in Known' : TrueLine(m)'
        BY <1>0, <1>1, <1>22, <2>1 DEF LinesAreTrue, TrueLine
    <2> QED
        BY <1>0, <1>1, <1>22, <2>2 DEF LinesAreTrue
<1>4. LinesInOrder'
    BY <1>0, <1>1 DEF LinesInOrder, Earlier
<1>5. OldLines'
    BY <1>0, <1>1 DEF OldLines, Coming, Read, Queued
<1>6. FoundConfig'
    <2>1. Passed' \subseteq Passed
        BY <1>1, <1>22 DEF Passed
    <2> QED
        BY <1>0, <1>1, <1>21, <1>22, <2>1 DEF FoundConfig
<1>7. OwnBoard'
    BY <1>0, <1>1, <1>21, <1>22 DEF OwnBoard
<1>8. Counts'
    BY <1>0, <1>1, <1>21, <1>22 DEF Counts
<1>9. FreshLines'
    <2>1. cell'.sent > 0 /\ \A m \in Read' \cup Queued' \cup Coming' : m.app = app => ~m.fresh
        BY <1>0, <1>1, <1>21, <1>22 DEF FreshLines
    <2>2. \A i \in DOMAIN lines : lines[i].app = app => ~lines[i].fresh
        BY <1>0, <1>22, <2>1, KnownLines
    <2> QED
        BY <1>1, <1>20, <1>21, <2>1, <2>2, NoLine DEF FreshLines
<1>10. AfterStatus'
    BY <1>0, <1>1 DEF AfterStatus
<1>11. RowsSoFar'
    BY <1>0, <1>1 DEF RowsSoFar
<1>12. RowFacts'
    BY <1>0, <1>1 DEF RowFacts, RowCountsCell, StableMeansClean
<1> QED
    BY <1>2, <1>3, <1>4, <1>5, <1>6, <1>7, <1>8, <1>9, <1>10, <1>11, <1>12 DEF CellInv

\* A status that counts all that was sent leaves nothing on its way.
LEMMA AfterCountedKeeps ==
    ASSUME CellInv, AfterCounted
    PROVE  CellInv'
<1>0. /\ CellTypes /\ LinesAreTrue /\ LinesInOrder /\ OldLines /\ FoundConfig /\ OwnBoard
      /\ Counts /\ FreshLines /\ AfterStatus /\ RowsSoFar /\ RowFacts
    BY DEF CellInv
<1>1. /\ pc = "after" /\ cell.latest.kind = "status" /\ cell.latest.rx >= cell.before.rx + cell.sent
      /\ cell' = [cell EXCEPT !.after = cell.latest] /\ pc' = "snapshot"
      /\ UNCHANGED <<args, index, rows, row, failed, app, board, boardPixels, rx, errors, net, printed, wire,
                     lines, queue, hand, reader, stopping>>
    BY DEF runVars, mainVars, boardVars, threadVars, uartVars, outside, GotAfter, Counted, IsStatus, AfterCounted
<1> USE DEF OldBoard, NewBoard, Begun, Waiting, Baselining, Measuring, Left
<1>20. cell.latest \in Lines /\ cell.latest \in Known
    BY <1>0, CellTyped, KnownLines DEF CellRecords
<1>21. /\ cell' \in CellRecords /\ cell'.sent = cell.sent /\ cell'.statusStart = cell.statusStart /\ cell'.before = cell.before
       /\ cell'.after = cell.latest /\ cell'.latest = cell.latest
    BY <1>0, <1>1, <1>20, CellTyped, CellUpdates, BenchAssumption DEF CellRecords
<1>2. CellTypes'
    BY <1>0, <1>1 DEF CellTypes
<1>3. LinesAreTrue'
    BY <1>0, <1>1 DEF LinesAreTrue, TrueLine, Known, Read, Coming, Queued
<1>4. LinesInOrder'
    BY <1>0, <1>1 DEF LinesInOrder, Earlier
<1>5. OldLines'
    BY <1>0, <1>1 DEF OldLines, Coming, Read, Queued
<1>6. FoundConfig'
    BY <1>0, <1>1 DEF FoundConfig, Passed, Coming, Read, Queued
<1>7. OwnBoard'
    BY <1>0, <1>1 DEF OwnBoard, Coming
<1>8. Counts'
    BY <1>0, <1>1 DEF Counts, Queued
<1>9. FreshLines'
    BY <1>0, <1>1, <1>21 DEF FreshLines, Read, Coming, Queued
<1>10. AfterStatus'
    <2>1. /\ cell.latest.app = app \/ cell.latest.rx = 0
          /\ board = "run" => cell.latest.app = app
          /\ cell.sent > 0
        BY <1>0, <1>1 DEF FreshLines
    <2>2. /\ cell.before.rx = 0 /\ rx + net <= cell.sent /\ rx \in Nat /\ net \in Nat /\ cell.sent \in Nat
          /\ cell.latest.rx \in Nat /\ (cell.latest.app = app => cell.latest.rx <= rx)
        BY <1>0, <1>1, <1>20, CellTyped, KnownLines DEF Counts, CellTypes, LinesAreTrue, TrueLine, CellRecords
    <2>3. cell.latest.rx >= cell.sent
        BY <1>1, <2>2
    <2>4. cell.latest.app = app /\ net = 0 /\ cell.latest.rx = rx
        BY <2>1, <2>2, <2>3
    <2> QED
        BY <1>1, <1>21, <2>1, <2>4 DEF AfterStatus
<1>11. RowsSoFar'
    BY <1>0, <1>1 DEF RowsSoFar
<1>12. RowFacts'
    BY <1>0, <1>1 DEF RowFacts, RowCountsCell, StableMeansClean
<1> QED
    BY <1>2, <1>3, <1>4, <1>5, <1>6, <1>7, <1>8, <1>9, <1>10, <1>11, <1>12 DEF CellInv

\* What is taken while waiting is of the cell's own run or counts nothing.
LEMMA WaitAfterKeeps ==
    ASSUME CellInv, WaitAfter
    PROVE  CellInv'
<1>0. /\ CellTypes /\ LinesAreTrue /\ LinesInOrder /\ OldLines /\ FoundConfig /\ OwnBoard
      /\ Counts /\ FreshLines /\ AfterStatus /\ RowsSoFar /\ RowFacts
    BY DEF CellInv
<1>1. /\ pc = "after" /\ (queue' = queue \/ (queue # <<>> /\ queue' = Tail(queue)))
      /\ \/ cell' = cell
         \/ cell' = [cell EXCEPT !.latest = LatestStatus]
         \/ \E l \in Queued : l.kind = "status" /\ cell' = [cell EXCEPT !.latest = l]
      /\ UNCHANGED <<args, pc, index, rows, row, failed, app, board, boardPixels, rx, errors, net, printed,
                     wire, lines, hand, reader, stopping>>
    <2>1. queue # <<>> => Head(queue) \in Queued
        BY <1>0, FirstLine DEF CellTypes, Queued
    <2> QED
        BY <2>1 DEF runVars, mainVars, boardVars, threadVars, uartVars, outside, WaitAfter, IsStatus
<1> USE DEF OldBoard, NewBoard, Begun, Waiting, Baselining, Measuring, Left
<1>20. PICK l \in Lines : /\ l \in Known \cup {None} /\ (cell' = cell \/ cell' = [cell EXCEPT !.latest = l])
                        /\ \/ cell' = cell \/ l = None
                           \/ /\ l.kind = "status" /\ (l.app = app \/ l.rx = 0)
                              /\ board = "run" => l.app = app
    <2>1. \A i \in DOMAIN lines : i > cell.statusStart => (lines[i].app = app \/ lines[i].rx = 0) /\ (board = "run" => lines[i].app = app)
        BY <1>0, <1>1 DEF FoundConfig
    <2>2. \A i \in DOMAIN lines : lines[i] \in Known
        BY <1>0, KnownLines
    <2>3. CASE cell' = cell
        BY <2>3, NoLine
    <2>4. CASE cell' = [cell EXCEPT !.latest = LatestStatus]
        BY <1>0, <2>1, <2>2, <2>4, Latest
    <2>5. CASE \E m \in Queued : m.kind = "status" /\ cell' = [cell EXCEPT !.latest = m]
        BY <1>0, <1>1, <2>5, KnownLines DEF Counts
    <2> QED
        BY <1>1, <2>3, <2>4, <2>5
<1>21. /\ cell' \in CellRecords /\ cell'.sent = cell.sent /\ cell'.statusStart = cell.statusStart /\ cell'.before = cell.before
       /\ cell'.after = cell.after /\ ((cell' = cell /\ cell'.latest = cell.latest) \/ cell'.latest = l)
    BY <1>0, <1>1, <1>20, CellTyped, CellUpdates, BenchAssumption DEF CellRecords
<1>22. /\ queue' \in Seq(Lines) /\ Queued' \subseteq Queued /\ Read' = Read /\ Coming' = Coming
       /\ Known' \subseteq Known \cup {None}
    <2>1. queue' \in Seq(Lines) /\ Queued' \subseteq Queued /\ Read' = Read /\ Coming' = Coming
        BY <1>0, <1>1, QueuedLines DEF CellTypes, Read, Coming
    <2> QED
        BY <1>1, <1>20, <1>21, <2>1 DEF Known
<1>2. CellTypes'
    BY <1>0, <1>1, <1>21, <1>22 DEF CellTypes, CellRecords
<1>3. LinesAreTrue'
    <2>1. TrueLine(None)
        BY <1>0, NoLine DEF CellTypes, LinesAreTrue, TrueLine
    <2>2. \A m \in Known' : TrueLine(m)'
        BY <1>0, <1>1, <1>22, <2>1 DEF LinesAreTrue, TrueLine
    <2> QED
        BY <1>0, <1>1, <1>22, <2>2 DEF LinesAreTrue
<1>4. LinesInOrder'
    BY <1>0, <1>1 DEF LinesInOrder, Earlier
<1>5. OldLines'
    BY <1>0, <1>1 DEF OldLines, Coming, Read, Queued
<1>6. FoundConfig'
    <2>1. Passed' \subseteq Passed
        BY <1>1, <1>22 DEF Passed
    <2> QED
        BY <1>0, <1>1, <1>21, <1>22, <2>1 DEF FoundConfig
<1>7. OwnBoard'
    BY <1>0, <1>1, <1>21, <1>22 DEF OwnBoard
<1>8. Counts'
    BY <1>0, <1>1, <1>21, <1>22 DEF Counts
<1>9. FreshLines'
    <2>1. /\ cell'.latest.kind = "status" => cell'.latest.app = app \/ cell'.latest.rx = 0
          /\ cell'.latest.kind = "status" /\ board = "run" => cell'.latest.app = app
          /\ cell'.latest.kind # "status" => cell'.latest = None
        BY <1>0, <1>1, <1>20, <1>21, NoLine DEF FreshLines
    <2> QED
        BY <1>0, <1>1, <1>21, <1>22, <2>1 DEF FreshLines
<1>10. AfterStatus'
    BY <1>0, <1>1 DEF AfterStatus
<1>11. RowsSoFar'
    BY <1>0, <1>1 DEF RowsSoFar
<1>12. RowFacts'
    BY <1>0, <1>1 DEF RowFacts, RowCountsCell, StableMeansClean
<1> QED
    BY <1>2, <1>3, <1>4, <1>5, <1>6, <1>7, <1>8, <1>9, <1>10, <1>11, <1>12 DEF CellInv

\* After two periods the last status of a board that lives is fresh.
LEMMA AfterTimesOutKeeps ==
    ASSUME CellInv, AfterTimesOut
    PROVE  CellInv'
<1>0. /\ CellTypes /\ LinesAreTrue /\ LinesInOrder /\ OldLines /\ FoundConfig /\ OwnBoard
      /\ Counts /\ FreshLines /\ AfterStatus /\ RowsSoFar /\ RowFacts
    BY DEF CellInv
<1>1. /\ pc = "after" /\ TwoPeriodsLater /\ pc' = "snapshot"
      /\ cell' = [cell EXCEPT !.after = IF LatestStatus # None THEN LatestStatus ELSE cell.latest]
      /\ UNCHANGED <<args, index, rows, row, failed, app, board, boardPixels, rx, errors, net, printed, wire,
                     lines, queue, hand, reader, stopping>>
    BY DEF runVars, mainVars, boardVars, threadVars, uartVars, outside, GotAfter, Counted, IsStatus, AfterTimesOut
<1> USE DEF OldBoard, NewBoard, Begun, Waiting, Baselining, Measuring, Left
<1>20. PICK l \in Lines : /\ l = LatestStatus /\ l \in Known \cup {None}
                        /\ \/ l = None
                           \/ /\ l.kind = "status" /\ (l.app = app \/ l.rx = 0)
                              /\ board = "run" => l.app = app
    <2>1. \A i \in DOMAIN lines : i > cell.statusStart => (lines[i].app = app \/ lines[i].rx = 0) /\ (board = "run" => lines[i].app = app)
        BY <1>0, <1>1 DEF FoundConfig
    <2>2. \A i \in DOMAIN lines : lines[i] \in Known
        BY <1>0, KnownLines
    <2> QED
        BY <1>0, <2>1, <2>2, Latest
<1>23. PICK m \in Lines : m = (IF l # None THEN l ELSE cell.latest) /\ m \in Known \cup {None}
    BY <1>0, <1>20, CellTyped, KnownLines DEF CellRecords
<1>21. /\ cell' \in CellRecords /\ cell'.sent = cell.sent /\ cell'.statusStart = cell.statusStart /\ cell'.before = cell.before
       /\ cell'.after = m /\ cell'.latest = cell.latest
    BY <1>0, <1>1, <1>20, <1>23, CellTyped, CellUpdates, BenchAssumption DEF CellRecords
<1>22. Read' = Read /\ Queued' = Queued /\ Coming' = Coming /\ Known' \subseteq Known \cup {None}
    <2>1. Read' = Read /\ Queued' = Queued /\ Coming' = Coming
        BY <1>1 DEF Read, Queued, Coming
    <2> QED
        BY <1>1, <1>23, <1>21, <2>1 DEF Known
<1>2. CellTypes'
    BY <1>0, <1>1, <1>21 DEF CellTypes, CellRecords
<1>3. LinesAreTrue'
    <2>1. TrueLine(None)
        BY <1>0, NoLine DEF CellTypes, LinesAreTrue, TrueLine
    <2>2. \A k \in Known' : TrueLine(k)'
        BY <1>0, <1>1, <1>22, <2>1 DEF LinesAreTrue, TrueLine
    <2> QED
        BY <1>0, <1>1, <1>22, <2>2 DEF LinesAreTrue
<1>4. LinesInOrder'
    BY <1>0, <1>1 DEF LinesInOrder, Earlier
<1>5. OldLines'
    BY <1>0, <1>1 DEF OldLines, Coming, Read, Queued
<1>6. FoundConfig'
    <2>1. Passed' \subseteq Passed
        BY <1>1, <1>22 DEF Passed
    <2> QED
        BY <1>0, <1>1, <1>21, <1>22, <2>1 DEF FoundConfig
<1>7. OwnBoard'
    BY <1>0, <1>1, <1>21, <1>22 DEF OwnBoard
<1>8. Counts'
    BY <1>0, <1>1, <1>21, <1>22 DEF Counts
<1>9. FreshLines'
    BY <1>0, <1>1, <1>21, <1>22 DEF FreshLines
<1>10. AfterStatus'
    <2>1. net = 0 /\ (board = "dead" \/ \E i \in DOMAIN lines : lines[i].app = app /\ lines[i].fresh)
        BY <1>1 DEF TwoPeriodsLater
    <2>2. m.app = app \/ m.rx = 0
        BY <1>0, <1>1, <1>20, <1>23, NoLine DEF FreshLines
    <2>3. ASSUME board = "run" PROVE m.app = app /\ m.rx = rx
        <3>1. PICK i \in DOMAIN lines : lines[i].app = app /\ lines[i].fresh
            BY <2>1, <2>3
        <3>2. i > cell.statusStart /\ lines[i].kind = "status" /\ lines[i].rx = rx
            BY <1>0, <1>1, <3>1, KnownLines DEF FreshLines
        <3>3. PICK j \in DOMAIN lines : /\ j > cell.statusStart /\ lines[j].kind = "status" /\ LatestStatus = lines[j]
                                       /\ i <= j
            BY <1>0, <3>2, Latest
        <3>4. l = lines[j] /\ l # None
            BY <1>20, <3>3, NoLine
        <3>5. lines[j].app = app
            BY <1>0, <1>1, <2>3, <3>3 DEF FoundConfig
        <3>6. i = j \/ Earlier(lines[i], lines[j])
            <4>1. i \in Nat /\ j \in Nat
                BY <1>0 DEF CellTypes
            <4> QED
                BY <1>0, <3>3, <4>1 DEF LinesInOrder
        <3>7. lines[j].rx \in Nat /\ lines[j].rx <= rx /\ rx \in Nat /\ app \in Nat
            BY <1>0, <3>5, KnownLines DEF LinesAreTrue, TrueLine, CellTypes
        <3>8. rx <= lines[j].rx
            BY <3>1, <3>2, <3>5, <3>6, <3>7 DEF Earlier
        <3> QED
            BY <1>23, <3>4, <3>5, <3>7, <3>8
    <2> QED
        BY <1>1, <1>21, <2>1, <2>2, <2>3 DEF AfterStatus
<1>11. RowsSoFar'
    BY <1>0, <1>1 DEF RowsSoFar
<1>12. RowFacts'
    BY <1>0, <1>1 DEF RowFacts, RowCountsCell, StableMeansClean
<1> QED
    BY <1>2, <1>3, <1>4, <1>5, <1>6, <1>7, <1>8, <1>9, <1>10, <1>11, <1>12 DEF CellInv

\* The row is of this cell, and is stable only if it was received cleanly.
LEMMA WriteRowKeeps ==
    ASSUME CellInv, WriteRow
    PROVE  CellInv'
<1>0. /\ CellTypes /\ LinesAreTrue /\ LinesInOrder /\ OldLines /\ FoundConfig /\ OwnBoard
      /\ Counts /\ FreshLines /\ AfterStatus /\ RowsSoFar /\ RowFacts
    BY DEF CellInv
<1>1. /\ pc = "snapshot" /\ pc' = "next" /\ rows' = Append(rows, Cells(args)[index])
      /\ row' = [sent |-> cell.sent, delta |-> DiffStatus(cell.before, cell.after),
                  class |-> Classify(cell.sent, DiffStatus(cell.before, cell.after)),
                  got |-> rx, bad |-> errors, alive |-> board = "run"]
      /\ UNCHANGED <<args, index, cell, failed, app, board, boardPixels, rx, errors, net, printed, wire, lines,
                     queue, hand, reader, stopping>>
    BY DEF runVars, mainVars, boardVars, threadVars, uartVars, outside, WriteRow
<1> USE DEF OldBoard, NewBoard, Begun, Waiting, Baselining, Measuring, Left
<1>20. PICK a \in CommandLines : a = args /\ Cells(a) \in Seq(Int \X Int) /\ Len(rows) + 1 = index /\ index \in 0 .. Len(Cells(a))
    BY <1>0, <1>1, CellsAssumption DEF CellTypes, RowsSoFar
<1>21. rows \in Seq(Int \X Int) /\ Cells(a)[index] \in Int \X Int /\ index \in 1 .. Len(Cells(a)) /\ rows' = Append(rows, Cells(a)[index])
    BY <1>0, <1>1, <1>20 DEF CellTypes
<1>2. CellTypes'
    <2>1. rows' \in Seq(Int \X Int)
        BY <1>21
    <2> QED
        BY <1>0, <1>1, <2>1 DEF CellTypes
<1>3. LinesAreTrue'
    BY <1>0, <1>1 DEF LinesAreTrue, TrueLine, Known, Read, Coming, Queued
<1>4. LinesInOrder'
    BY <1>0, <1>1 DEF LinesInOrder, Earlier
<1>5. OldLines'
    <2>1. net = 0 /\ \A l \in Coming : l.app = app
        BY <1>0, <1>1 DEF AfterStatus, OwnBoard
    <2>2. rx = 0 \/ (board # "boot" /\ \A l \in Coming : l.kind # "config")
        BY <1>0, <1>1 DEF OwnBoard
    <2> QED
        BY <1>1, <2>1, <2>2 DEF OldLines, Coming
<1>6. FoundConfig'
    BY <1>0, <1>1 DEF FoundConfig, Passed, Coming, Read, Queued
<1>7. OwnBoard'
    BY <1>0, <1>1 DEF OwnBoard, Coming
<1>8. Counts'
    BY <1>0, <1>1 DEF Counts, Queued
<1>9. FreshLines'
    BY <1>0, <1>1 DEF FreshLines, Read, Coming, Queued
<1>10. AfterStatus'
    BY <1>0, <1>1 DEF AfterStatus
<1>11. RowsSoFar'
    BY <1>0, <1>1 DEF RowsSoFar
<1>12. RowFacts'
    <2>1. PICK s \in Nat, g \in Nat, e \in Nat, x \in Nat, y \in Nat :
            /\ s = cell.sent /\ g = rx /\ e = errors /\ x = cell.after.rx /\ y = cell.after.errors
        <3>1. cell.sent \in Nat
            BY <1>0, CellTyped, CellUpdates, NoLine DEF CellRecords
        <3>2. cell.after.rx \in Nat /\ cell.after.errors \in Nat
            BY <1>0, KnownLines
        <3>3. rx \in Nat /\ errors \in Nat
            BY <1>0 DEF CellTypes
        <3> QED
            BY <3>1, <3>2, <3>3
    <2>2. DiffStatus(cell.before, cell.after) = [rx |-> x, errors |-> y]
        BY <1>0, <1>1, <2>1 DEF DiffStatus, Counts
    <2>3. /\ y <= x /\ g <= s /\ s > 0 /\ e <= g
          /\ (x <= g /\ y <= e /\ e - y <= g - x) \/ x = 0
          /\ board = "run" => x = g /\ e - y <= g - x /\ y <= e
        <3>1. TrueLine(cell.after)
            BY <1>0, KnownLines DEF LinesAreTrue
        <3>2. cell.after.app = app \/ cell.after.rx = 0
            BY <1>0, <1>1 DEF AfterStatus
        <3>3. board = "run" => cell.after.app = app /\ cell.after.rx = rx
            BY <1>0, <1>1 DEF AfterStatus
        <3>4. rx + net <= cell.sent /\ net = 0 /\ cell.sent > 0 /\ errors <= rx
            BY <1>0, <1>1 DEF Counts, AfterStatus, FreshLines, LinesAreTrue
        <3> QED
            BY <2>1, <3>1, <3>2, <3>3, <3>4 DEF TrueLine
    <2>4. PICK c : c = Classify(s, [rx |-> x, errors |-> y])
        OBVIOUS
    <2>5. PICK b \in BOOLEAN : b = (board = "run")
        OBVIOUS
    <2>6. row' = [sent |-> s, delta |-> [rx |-> x, errors |-> y], class |-> c, got |-> g, bad |-> e, alive |-> b]
        <3>1. row' = [sent |-> cell.sent, delta |-> DiffStatus(cell.before, cell.after),
                      class |-> Classify(cell.sent, DiffStatus(cell.before, cell.after)),
                      got |-> rx, bad |-> errors, alive |-> board = "run"]
            BY <1>1
        <3> QED
            BY <2>1, <2>2, <2>4, <2>5, <3>1, Zenon
    <2>7. c = "stable" => y = 0 /\ (x - y) * 100 >= s * 99
        BY <2>4 DEF Classify
    <2>8. RowCountsCell'
        <3>1. x \in 0 .. g
            BY <2>3
        <3>2. b => x = g
            BY <2>3, <2>5
        <3> QED
            BY <2>6, <3>1, <3>2 DEF RowCountsCell
    <2>9. StableMeansClean'
        <3>1. ASSUME y = 0, (x - y) * 100 >= s * 99 PROVE g * 100 >= s * 99 /\ e * 100 <= s /\ (b => e = 0)
            <4>1. s * 99 <= x * 100 /\ 0 < s
                BY <2>3, <3>1
            <4>2. x <= g /\ e <= g - x
                BY <2>3, <3>1, <4>1
            <4>3. g * 100 >= s * 99 /\ e * 100 <= s
                BY <2>3, <4>1, <4>2
            <4>4. b => e = 0
                <5>1. x = g => e = 0
                    BY <4>2
                <5> QED
                    BY <2>3, <2>5, <5>1
            <4> QED
                BY <4>3, <4>4
        <3> QED
            BY <2>6, <2>7, <3>1 DEF StableMeansClean
    <2> QED
        BY <2>8, <2>9 DEF RowFacts
<1> QED
    BY <1>2, <1>3, <1>4, <1>5, <1>6, <1>7, <1>8, <1>9, <1>10, <1>11, <1>12 DEF CellInv

\* The loop ends with a row for each cell.
LEMMA CellsDoneKeeps ==
    ASSUME CellInv, CellsDone
    PROVE  CellInv'
<1>0. /\ CellTypes /\ LinesAreTrue /\ LinesInOrder /\ OldLines /\ FoundConfig /\ OwnBoard
      /\ Counts /\ FreshLines /\ AfterStatus /\ RowsSoFar /\ RowFacts
    BY DEF CellInv
<1>1. /\ pc = "next" /\ pc' = "stop" /\ index = Len(Cells(args))
      /\ UNCHANGED <<args, index, cell, rows, row, failed, app, board, boardPixels, rx, errors, net, printed,
                     wire, lines, queue, hand, reader, stopping>>
    BY DEF runVars, mainVars, boardVars, threadVars, uartVars, outside, CellsDone
<1> USE DEF OldBoard, NewBoard, Begun, Waiting, Baselining, Measuring, Left
<1>2. CellTypes'
    BY <1>0, <1>1 DEF CellTypes
<1>3. LinesAreTrue'
    BY <1>0, <1>1 DEF LinesAreTrue, TrueLine, Known, Read, Coming, Queued
<1>4. LinesInOrder'
    BY <1>0, <1>1 DEF LinesInOrder, Earlier
<1>5. OldLines'
    BY <1>0, <1>1 DEF OldLines, Coming, Read, Queued
<1>6. FoundConfig'
    BY <1>0, <1>1 DEF FoundConfig, Passed, Coming, Read, Queued
<1>7. OwnBoard'
    BY <1>0, <1>1 DEF OwnBoard, Coming
<1>8. Counts'
    BY <1>0, <1>1 DEF Counts, Queued
<1>9. FreshLines'
    BY <1>0, <1>1 DEF FreshLines, Read, Coming, Queued
<1>10. AfterStatus'
    BY <1>0, <1>1 DEF AfterStatus
<1>11. RowsSoFar'
    BY <1>0, <1>1 DEF RowsSoFar
<1>12. RowFacts'
    BY <1>0, <1>1 DEF RowFacts, RowCountsCell, StableMeansClean
<1> QED
    BY <1>2, <1>3, <1>4, <1>5, <1>6, <1>7, <1>8, <1>9, <1>10, <1>11, <1>12 DEF CellInv

\* Stopping the capture changes no row.
LEMMA StopCaptureKeeps ==
    ASSUME CellInv, StopCapture
    PROVE  CellInv'
<1>0. /\ CellTypes /\ LinesAreTrue /\ LinesInOrder /\ OldLines /\ FoundConfig /\ OwnBoard
      /\ Counts /\ FreshLines /\ AfterStatus /\ RowsSoFar /\ RowFacts
    BY DEF CellInv
<1>1. /\ pc = "stop" /\ stopping' = TRUE /\ pc' = "done"
      /\ UNCHANGED <<args, index, cell, rows, row, failed, app, board, boardPixels, rx, errors, net, printed,
                     wire, lines, queue, hand, reader>>
    BY DEF runVars, mainVars, boardVars, threadVars, uartVars, outside, StopCapture
<1> USE DEF OldBoard, NewBoard, Begun, Waiting, Baselining, Measuring, Left
<1>2. CellTypes'
    BY <1>0, <1>1 DEF CellTypes
<1>3. LinesAreTrue'
    BY <1>0, <1>1 DEF LinesAreTrue, TrueLine, Known, Read, Coming, Queued
<1>4. LinesInOrder'
    BY <1>0, <1>1 DEF LinesInOrder, Earlier
<1>5. OldLines'
    BY <1>0, <1>1 DEF OldLines, Coming, Read, Queued
<1>6. FoundConfig'
    BY <1>0, <1>1 DEF FoundConfig, Passed, Coming, Read, Queued
<1>7. OwnBoard'
    BY <1>0, <1>1 DEF OwnBoard, Coming
<1>8. Counts'
    BY <1>0, <1>1 DEF Counts, Queued
<1>9. FreshLines'
    BY <1>0, <1>1 DEF FreshLines, Read, Coming, Queued
<1>10. AfterStatus'
    BY <1>0, <1>1 DEF AfterStatus
<1>11. RowsSoFar'
    BY <1>0, <1>1 DEF RowsSoFar
<1>12. RowFacts'
    BY <1>0, <1>1 DEF RowFacts, RowCountsCell, StableMeansClean
<1> QED
    BY <1>2, <1>3, <1>4, <1>5, <1>6, <1>7, <1>8, <1>9, <1>10, <1>11, <1>12 DEF CellInv

\* The initial states satisfy the invariant.
LEMMA CellStarts == Init => CellInv
<1> SUFFICES ASSUME Init PROVE CellInv
    OBVIOUS
<1> USE DEF OldBoard, NewBoard, Begun, Waiting, Baselining, Measuring, Left
<1>1. /\ args \in CommandLines /\ pc = "next" /\ index = 0 /\ cell = NoCell /\ rows = <<>> /\ row = NoRow
      /\ failed = FALSE /\ app = 0 /\ board \in {"boot", "run"} /\ boardPixels \in Int /\ rx \in Nat
      /\ (board = "boot" => rx = 0) /\ errors = 0 /\ net = 0 /\ printed = 0 /\ wire = <<>> /\ lines = <<>>
      /\ queue = <<>> /\ hand = None /\ reader = "read" /\ stopping = FALSE
    BY BenchAssumption DEF Init
<1>2. cell \in CellRecords /\ cell.before = None /\ cell.after = None /\ cell.latest = None
    BY <1>1, EmptyCell
<1>3. Read = {} /\ Coming = {} /\ Queued = {} /\ Known = {None}
    <2>1. Read = {} /\ Coming = {} /\ Queued = {}
        BY <1>1 DEF Read, Coming, Queued
    <2> QED
        BY <1>1, <1>2, <2>1 DEF Known
<1>4. CellTypes
    <2>1. <<>> \in Seq(Lines) /\ <<>> \in Seq(Int \X Int) /\ Len(<<>>) = 0 /\ 0 <= WireCap
        BY BenchAssumption
    <2>2. cell \in [statusStart : Nat, before : Lines, after : Lines, latest : Lines, sent : 0 .. MaxSent]
        BY <1>2 DEF CellRecords
    <2>3. failed \in BOOLEAN /\ stopping \in BOOLEAN
        BY <1>1, Zenon
    <2> QED
        BY <1>1, <2>1, <2>2, <2>3, NoLine DEF CellTypes
<1>5. LinesAreTrue
    BY <1>1, <1>3, NoLine DEF LinesAreTrue, TrueLine
<1>6. LinesInOrder
    BY <1>1 DEF LinesInOrder
<1>7. OldLines
    BY <1>1, <1>3 DEF OldLines
<1>8. FoundConfig /\ OwnBoard /\ Counts /\ FreshLines /\ AfterStatus
    BY <1>1 DEF FoundConfig, OwnBoard, Counts, FreshLines, AfterStatus
<1>9. RowsSoFar
    <2>1. ASSUME NEW a \in CommandLines PROVE Len(Cells(a)) \in Nat
        BY CellsAssumption
    <2> QED
        BY <1>1, <2>1 DEF RowsSoFar
<1>10. RowFacts
    BY <1>1, NoLine DEF RowFacts, RowCountsCell, StableMeansClean, NoRow, DiffStatus
<1> QED
    BY <1>4, <1>5, <1>6, <1>7, <1>8, <1>9, <1>10 DEF CellInv

\* A step that leaves the variables alone keeps it.
LEMMA RestKeeps ==
    ASSUME CellInv, UNCHANGED vars
    PROVE  CellInv'
<1>1. UNCHANGED <<args, pc, index, cell, rows, row, failed, app, board, boardPixels, rx, errors, net, printed,
                  wire, lines, queue, hand, reader, stopping>>
    BY DEF vars, runVars, mainVars, boardVars, threadVars, uartVars, outside
<1>2. CellTypes' /\ LinesInOrder' /\ RowsSoFar' /\ AfterStatus' /\ RowFacts'
    BY <1>1 DEF CellInv, CellTypes, LinesInOrder, Earlier, RowsSoFar, AfterStatus, RowFacts, RowCountsCell,
                StableMeansClean
<1>3. Read' = Read /\ Coming' = Coming /\ Queued' = Queued /\ Passed' = Passed /\ Known' = Known
    <2>1. Read' = Read /\ Coming' = Coming /\ Queued' = Queued /\ Passed' = Passed
        BY <1>1 DEF Read, Coming, Queued, Passed
    <2> QED
        BY <1>1, <2>1 DEF Known
<1>4. LinesAreTrue' /\ OldLines' /\ OwnBoard' /\ Counts'
    BY <1>1, <1>3 DEF CellInv, LinesAreTrue, TrueLine, OldLines, OwnBoard, Counts
<1>5. FoundConfig' /\ FreshLines'
    BY <1>1, <1>3 DEF CellInv, FoundConfig, FreshLines
<1> QED
    BY <1>2, <1>4, <1>5 DEF CellInv

\* Every step of a benchmark keeps the invariant.
LEMMA CellSteps == CellInv /\ [Next]_vars => CellInv'
<1> SUFFICES ASSUME CellInv, [Next]_vars PROVE CellInv'
    OBVIOUS
<1>1. CASE Main
    BY <1>1, StartCellKeeps, DrainOldKeeps, ResetBoardKeeps, StartAppKeeps, JtagRunEndsKeeps, CommandFailsKeeps,
       WaitConfigKeeps, MarkStatusStartKeeps, WaitBaselineKeeps, WaitTimesOutKeeps, DrainBaselineKeeps,
       SendPacketKeeps, SenderEndsKeeps, AfterCountedKeeps, WaitAfterKeeps, AfterTimesOutKeeps, WriteRowKeeps,
       CellsDoneKeeps, StopCaptureKeeps, Zenon
       DEF Main
<1>2. CASE Reader
    BY <1>2, ReadLineKeeps, PutLineKeeps, ReaderEndsKeeps, Zenon DEF Reader
<1>3. CASE Board
    BY <1>3, BoardPrintsConfigKeeps, BoardPrintsStatusKeeps, BoardStopsKeeps, BoardReceivesKeeps,
       PacketLostKeeps, Zenon
       DEF Board
<1>4. CASE Done
    BY <1>4, RestKeeps, Zenon DEF Done
<1>5. CASE UNCHANGED vars
    BY <1>5, RestKeeps, Zenon
<1> QED
    BY <1>1, <1>2, <1>3, <1>4, <1>5, Zenon DEF Next

\* What the invariant says of the rows and the files.
LEMMA CellIsRow == CellInv => RowIsOfItsCell
<1> SUFFICES ASSUME CellInv PROVE RowIsOfItsCell
    OBVIOUS
<1> USE DEF OldBoard, NewBoard, Begun, Waiting, Baselining, Measuring, Left
<1>1. CellTypes /\ AfterStatus /\ RowsSoFar /\ RowFacts
    BY DEF CellInv
<1>2. PICK a \in CommandLines : a = args
    BY <1>1 DEF CellTypes
<1>3. /\ index \in 0 .. Len(Cells(a)) /\ Len(rows) <= index
      /\ \A i \in DOMAIN rows : rows[i] = Cells(a)[i]
      /\ pc \in Left /\ ~failed => Len(rows) = Len(Cells(a))
    BY <1>1, <1>2 DEF RowsSoFar
<1>4. Cells(a) \in Seq(Int \X Int) /\ rows \in Seq(Int \X Int)
    BY <1>1, CellsAssumption DEF CellTypes
<1>5. TypeOK
    <2>1. ToSet(lines) \cup ToSet(queue) \cup ToSet(wire) \cup {hand} \subseteq Lines
        BY <1>1 DEF CellTypes, ToSet
    <2>2. {failed, stopping} \subseteq BOOLEAN
        BY <1>1, Zenon DEF CellTypes
    <2>3. index \in 0 .. Len(Cells(args))
        BY <1>2, <1>3
    <2> QED
        BY <1>1, <1>3, <2>1, <2>2, <2>3 DEF TypeOK, CellTypes
<1>6. AfterIsThisCells
    BY <1>1 DEF AfterStatus, AfterIsThisCells
<1>7. RowsFollowCells
    <2>1. PICK c \in Seq(Int \X Int) : c = Cells(a)
        BY <1>4
    <2>5. PICK n \in Nat : n = Len(rows) /\ DOMAIN rows = 1 .. n
        BY <1>4
    <2>6. Len(c) \in Nat /\ n <= Len(c) /\ \A i \in 1 .. n : i \in 1 .. Len(c)
        BY <1>3, <2>1, <2>5
    <2>7. ASSUME NEW i \in 1 .. n PROVE rows[i] = c[i] /\ c[i] \in Int \X Int
        <3>1. i \in DOMAIN rows
            BY <2>5
        <3>2. rows[i] = c[i]
            BY <1>3, <2>1, <3>1
        <3>3. c[i] \in Int \X Int
            BY <2>6
        <3> QED
            BY <3>2, <3>3
    <2>2. /\ SubSeq(c, 1, n) \in Seq(Int \X Int) /\ Len(SubSeq(c, 1, n)) = n
          /\ \A i \in 1 .. n : SubSeq(c, 1, n)[i] = c[i]
        <3>1. /\ SubSeq(c, 1, n) \in Seq(Int \X Int)
              /\ Len(SubSeq(c, 1, n)) = IF 1 <= n THEN n - 1 + 1 ELSE 0
              /\ \A i \in 1 .. n - 1 + 1 : SubSeq(c, 1, n)[i] = c[1 + i - 1]
            BY <2>7, SubSeqProperties
        <3>2. (IF 1 <= n THEN n - 1 + 1 ELSE 0) = n /\ n - 1 + 1 = n /\ \A i \in 1 .. n : 1 + i - 1 = i
            OBVIOUS
        <3> QED
            BY <3>1, <3>2
    <2>3. rows = SubSeq(c, 1, n)
        <3>1. Len(rows) = Len(SubSeq(c, 1, n)) /\ \A i \in 1 .. Len(rows) : rows[i] = SubSeq(c, 1, n)[i]
            BY <2>2, <2>5, <2>7
        <3> QED
            BY <1>4, <2>2, <3>1, SeqEqual
    <2>4. n = Len(c) => rows = c
        BY <1>4, <2>5, <2>7, SeqEqual
    <2> QED
        BY <1>2, <1>3, <2>1, <2>3, <2>4, <2>5 DEF RowsFollowCells
<1> QED
    BY <1>1, <1>5, <1>6, <1>7 DEF RowIsOfItsCell, RowFacts

\* RowIsOfItsCell (e131_benchmark.py): in every interleaving of the board, the
\* UART, the reader thread and the main thread, for every command line and any
\* number of cells, packets and status lines, a row claims no packet its cell's
\* board did not count and, while the board runs, all of them, by a last status
\* of the cell's own application; stable means 99 % received and, unless the
\* board died, no error; and the row follows that of the cell before.
THEOREM RowIsOfItsCellHolds == ToolsSpec => []RowIsOfItsCell
<1>1. ToolsInit => CellInv
    BY CellStarts DEF ToolsInit
<1>2. CellInv /\ [ToolsNext]_all => CellInv'
    BY CellSteps, StepsOfTools
<1> QED
    BY <1>1, <1>2, CellIsRow, PTL DEF ToolsSpec
================================================================================
