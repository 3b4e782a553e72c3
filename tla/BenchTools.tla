------------------------------- MODULE BenchTools -------------------------------
(***************************************************************************)
(* The tools a benchmark on the host consists of: the cells with a live    *)
(* board (BenchCell), the JTAG wrapper (XsdbRun), the search for the       *)
(* serial port (SerialPorts) and the verdict on a measured cell            *)
(* (CellVerdict).  They only meet through what BenchCell already holds:    *)
(* that the JTAG commands and the capture succeed or fail.  So a behaviour *)
(* is of one of them, and the variables of the others rest.                *)
(***************************************************************************)
EXTENDS BenchCell

CONSTANTS
    Runs,                                     \* of XsdbRun
    Ports, Score, BoardPort, Users, MaxChanges,   \* of SerialPorts
    Targets, Lengths, Duration, Slack, Writes     \* of CellVerdict

ASSUME RunsAssumption == Runs \in Nat

\* Ports are numbered from 1; score_port only adds.
ASSUME PortsAssumption ==
    Ports \subseteq Nat \ {0} /\ IsFiniteSet(Ports) /\ BoardPort \in Ports /\ Score \in [Ports -> Nat] /\ MaxChanges \in Nat

ASSUME MeasureAssumption ==
    Targets \subseteq Nat /\ Lengths \subseteq Nat /\ Duration \in Nat /\ Slack \subseteq Int /\ Writes \subseteq Nat

\* The cells of a command line are a list.
ASSUME CellsAssumption == \A a \in CommandLines : Cells(a) \in Seq(Int \X Int)

VARIABLES
    tool,
    windows, run, step, sawError, pipe, server, xsdb, talks, bad, exit, result,
    plugged, taken, at, explicit, listed, candidates, failures, ser, lost, hindered, changes,
    measured, strict, class, bottleneck

Xsdb == INSTANCE XsdbRun WITH pc <- step
Serial == INSTANCE SerialPorts WITH
            pc <- at, errors <- failures, Board <- BoardPort, Tools <- Users
Verdict == INSTANCE CellVerdict WITH cell <- measured

jtagVars == <<windows, run, step, sawError, pipe, server, xsdb, talks, bad, exit, result>>
portVars == <<plugged, taken, at, explicit, listed, candidates, failures, ser, lost,
              hindered, changes>>
verdictVars == <<measured, strict, class, bottleneck>>
all == <<tool, vars, jtagVars, portVars, verdictVars>>

ToolsInit ==
    /\ tool \in {"cells", "jtag", "port", "verdict"}
    /\ Init /\ Xsdb!Init /\ Serial!Init
    /\ IF tool = "verdict" THEN Verdict!Init
       ELSE measured = {} /\ strict = "none" /\ class = "none" /\ bottleneck = "none"

CellsStep == tool = "cells" /\ Next /\ UNCHANGED <<tool, jtagVars, portVars, verdictVars>>
JtagStep == tool = "jtag" /\ Xsdb!Next /\ UNCHANGED <<tool, vars, portVars, verdictVars>>
PortStep == tool = "port" /\ Serial!Next /\ UNCHANGED <<tool, vars, jtagVars, verdictVars>>
VerdictStep == tool = "verdict" /\ Verdict!Next /\ UNCHANGED <<tool, vars, jtagVars, portVars>>

ToolsNext == CellsStep \/ JtagStep \/ PortStep \/ VerdictStep

\* The fairness of the modules, each for its own behaviours.
ToolsFairness ==
    /\ WF_all(tool = "cells" /\ ~WaitsForCommand /\ Main
                /\ UNCHANGED <<tool, jtagVars, portVars, verdictVars>>)
    /\ WF_all(tool = "cells" /\ AfterTimesOut /\ UNCHANGED <<tool, jtagVars, portVars, verdictVars>>)
    /\ WF_all(tool = "cells" /\ WaitTimesOut /\ UNCHANGED <<tool, jtagVars, portVars, verdictVars>>)
    /\ WF_all(tool = "cells" /\ Reader /\ UNCHANGED <<tool, jtagVars, portVars, verdictVars>>)
    /\ WF_all(tool = "cells" /\ (BoardPrintsConfig \/ BoardPrintsStatus)
                /\ UNCHANGED <<tool, jtagVars, portVars, verdictVars>>)
    /\ WF_all(tool = "cells" /\ (BoardReceives \/ PacketLost)
                /\ UNCHANGED <<tool, jtagVars, portVars, verdictVars>>)
    /\ WF_all(tool = "jtag" /\ Xsdb!Wrapper /\ UNCHANGED <<tool, vars, portVars, verdictVars>>)
    /\ \A u \in Users :
        /\ WF_all(tool = "port" /\ Serial!ToolStep(u) /\ UNCHANGED <<tool, vars, jtagVars, verdictVars>>)
        /\ WF_all(tool = "port" /\ lost[u] /\ Serial!End(u) /\ UNCHANGED <<tool, vars, jtagVars, verdictVars>>)

ToolsSpec == ToolsInit /\ [][ToolsNext]_all /\ ToolsFairness

----------------------------------------------------------------------------
\* BenchCell: a row claims no packet the board did not count in its cell, and
\* while the board runs it claims all of them and ends with a status line of
\* that cell's application; a cell is called stable when 99 % of its packets
\* came without a hard error (or with one in a hundred, which a board that died
\* did not report); there is one row for each cell, in order.
RowIsOfItsCell ==
    TypeOK /\ AfterIsThisCells /\ RowCountsCell /\ StableMeansClean /\ RowsFollowCells

\* XsdbRun: success means a clean xsdb of the run's own, and a run leaves no
\* child but the server it returned early from.
JtagRunIsClean == Xsdb!JtagRunIsClean

\* SerialPorts: a tool reads the port it was told to or the likeliest that
\* opens, gives up only when none does, and closes what it opened.
RightPort ==
    /\ Serial!TypeOK
    /\ Serial!ExplicitIsObeyed /\ Serial!BestFirst /\ Serial!GivesUpLast
    /\ Serial!BoardIsFound /\ Serial!PortIsClosed

\* CellVerdict: the tools' verdicts on the same cell agree but for oversized
\* packets; a good one means that the strands can show 99 % of the target, less
\* two frames; a bottleneck named is on the right side of their limit.
VerdictIsSound ==
    /\ tool = "verdict" => Verdict!TypeOK
    /\ Verdict!VerdictsAgree /\ Verdict!NotStableAboveLimit /\ Verdict!LimitFirst

\* What is under way and must come to an end: the benchmark with its reader
\* thread, a run of the JTAG wrapper, and for each user of a port its search,
\* or its reading from a port that was pulled out.
Busy(user) ==
    \/ tool = "cells" /\ ~(pc = "done" /\ reader = "ended")
    \/ tool = "jtag" /\ step # "idle"
    \/ at[user] \in {"asked", "trying"}
    \/ at[user] = "streaming" /\ lost[user]

\* Neither the benchmark nor the wrapper has a limit for the commands it runs.
WaitsForChild ==
    \/ tool = "cells" /\ WaitsForCommand
    \/ tool = "jtag" /\ Xsdb!WaitsForXsdb

\* A benchmark, run of the JTAG wrapper or search for a port that never ends
\* waits for ever for a command it has started: nothing the board, the servers
\* and the users of the ports do holds it up.
ToolsEnd == \A user \in Users : <>[]Busy(user) => <>[]WaitsForChild
=============================================================================
