-------------------------- MODULE ProfileCampaign ---------------------------
(***************************************************************************)
(* The profile of ps/tools/e131_profile_report.py: host tests, the ingress *)
(* profile of ps/tools/e131_ingress_profile.py over several candidate      *)
(* settings of lwIP, each built and measured in turn, a rebuild with the   *)
(* defaults, the ceiling sweep of e131_benchmark.py, and the report.       *)
(*                                                                         *)
(* A build is what VitisBuild shows of it: without a stamp make ps builds  *)
(* with the variables of its environment or fails, and what is put on the  *)
(* board is the newest application.  Every command may fail and the        *)
(* campaign may be interrupted at any time; what a cell measures is any    *)
(* verdict and any rate.  A bench directory is known by whose it is: other *)
(* runs leave directories of the same names.                               *)
(***************************************************************************)
EXTENDS Naturals, Sequences

CONSTANTS
    Known,       \* CANDIDATES: names of settings
    Cells,       \* PROFILE_CELLS
    GuardCell,   \* GUARD_CELL
    Ceiling,     \* cells of the ceiling sweep
    Orders,      \* lists of candidates a user may ask for
    SweepVerdicts,  \* of e131_benchmark.py: "stable" and others
    MaxRate,
    MaxCampaigns

VARIABLES
    candidates,  \* of the running campaign
    alone,       \* the ingress profile was started without the report
    leaked,      \* the caller's environment sets lwIP variables of its own
    pc,
    cand,        \* number of the candidate at hand
    queue,       \* its cells still to be measured
    guardDone,
    app, stamp,  \* settings of the newest application; is there a stamp
    rows, ceiling,   \* measured rows of both tools
    csv,         \* rows in the results.csv of the ingress profile
    report,      \* the report: the rows it lists and the one it calls best
    campaigns

vars == <<candidates, alone, leaked, pc, cand, queue, guardDone, app, stamp, rows, ceiling,
          csv, report, campaigns>>
call == <<candidates, alone, leaked, campaigns>>
build == <<app, stamp>>
data == <<rows, ceiling, csv, report>>

NoReport == [rows |-> <<>>, best |-> <<>>]

\* The workspaces of earlier builds are still there.
Init ==
    /\ candidates = <<>> /\ alone = TRUE /\ leaked = FALSE
    /\ pc = "idle" /\ cand = 0 /\ queue = <<>> /\ guardDone = FALSE
    /\ app \in Known \cup {"none", "defaults"} /\ stamp \in {FALSE, app # "none"}
    /\ rows = <<>> /\ ceiling = <<>> /\ csv = <<>> /\ report = NoReport
    /\ campaigns = 0

\* The report runs the host tests first; both tools make new directories.
Start ==
    /\ pc = "idle" /\ campaigns < MaxCampaigns
    /\ candidates' \in Orders /\ alone' \in BOOLEAN /\ leaked' \in BOOLEAN
    /\ campaigns' = campaigns + 1
    /\ pc' = IF alone' THEN "next" ELSE "tests"
    /\ cand' = 0 /\ queue' = <<>> /\ guardDone' = FALSE
    /\ rows' = <<>> /\ ceiling' = <<>> /\ csv' = <<>>
    /\ UNCHANGED <<build, report>>

RunTests ==
    /\ pc = "tests" /\ pc' = "next"
    /\ UNCHANGED <<call, cand, queue, guardDone, build, data>>

\* Mutant: the stamp is left in place, so that make has nothing to do.
NextCandidateKeepingStamp ==
    /\ pc = "next" /\ cand < Len(candidates)
    /\ cand' = cand + 1 /\ UNCHANGED stamp
    /\ pc' = IF candidates[cand + 1] \in Known THEN "build" ELSE "idle"
    /\ UNCHANGED <<call, queue, guardDone, app, data>>

\* The next candidate; a name that is not known ends the run only now.
NextCandidate ==
    /\ pc = "next" /\ cand < Len(candidates)
    /\ cand' = cand + 1
    /\ IF candidates[cand + 1] \in Known
       THEN pc' = "build" /\ stamp' = FALSE
       ELSE pc' = "idle" /\ UNCHANGED stamp
    /\ UNCHANGED <<call, queue, guardDone, app, data>>

Candidate == candidates[cand]

\* make ps does nothing when there is a stamp.
MakePs(settings) == stamp' = TRUE /\ app' = IF stamp THEN app ELSE settings

\* make ps with the candidate's settings on top of the caller's environment.
BuildCandidate ==
    /\ pc = "build"
    /\ MakePs(Candidate)
    /\ queue' = IF guardDone THEN Cells ELSE <<GuardCell>> \o Cells
    /\ guardDone' = TRUE /\ pc' = "cells"
    /\ UNCHANGED <<call, cand, data>>

\* A build that fails makes a row of its own and the next candidate follows;
\* an application may have been built before it failed.
BuildFails ==
    /\ pc = "build"
    /\ rows' = Append(rows, [candidate |-> Candidate, cell |-> "build", on |-> "none",
                             class |-> "unsupported", rate |-> 0])
    /\ csv' = rows' /\ pc' = "next" /\ app' \in {app, Candidate}
    /\ UNCHANGED <<call, cand, queue, guardDone, stamp, ceiling, report>>

\* run_cell puts the newest application on the board, sends and compares.
Measured(c, verdicts) ==
    {[candidate |-> c, cell |-> Head(queue), on |-> app, class |-> v, rate |-> r] :
        v \in verdicts, r \in 0..MaxRate}

\* The rows are kept in memory; the whole file is written after each of them.
RunCell ==
    /\ pc = "cells" /\ queue # <<>>
    /\ \E row \in Measured(Candidate, {"pass", "fail"}) : rows' = Append(rows, row)
    /\ csv' = rows' /\ queue' = Tail(queue)
    /\ UNCHANGED <<call, pc, cand, guardDone, build, ceiling, report>>

EndCells ==
    /\ pc = "cells" /\ queue = <<>> /\ pc' = "next"
    /\ UNCHANGED <<call, cand, queue, guardDone, build, data>>

\* The ingress profile ends; the report removes the stamp.
EndIngress ==
    /\ pc = "next" /\ cand = Len(candidates)
    /\ IF alone THEN pc' = "idle" /\ UNCHANGED stamp ELSE pc' = "defaults" /\ stamp' = FALSE
    /\ UNCHANGED <<call, cand, queue, guardDone, app, data>>

BuildDefaults ==
    /\ pc = "defaults"
    /\ MakePs(IF leaked THEN "leaked" ELSE "defaults")
    /\ queue' = Ceiling /\ pc' = "sweep"
    /\ UNCHANGED <<call, cand, guardDone, data>>

\* e131_benchmark --skip-build --skip-sanity-cell --pixels 500 --rates ...
SweepCell ==
    /\ pc = "sweep" /\ queue # <<>>
    /\ \E row \in Measured("sweep", SweepVerdicts) : ceiling' = Append(ceiling, row)
    /\ queue' = Tail(queue)
    /\ UNCHANGED <<call, pc, cand, guardDone, build, rows, csv, report>>

Stable(row) == row.class \in {"pass", "stable"}

\* max returns the first of the stable rows with the highest rate.
Best(all) ==
    LET stable == {i \in DOMAIN all : Stable(all[i])}
        Wins(i) == \A j \in stable : /\ all[j].rate <= all[i].rate
                                     /\ all[j].rate = all[i].rate => i <= j
    IN  {<<all[i]>> : i \in {j \in stable : Wins(j)}} \cup {e \in {<<>>} : stable = {}}

WriteReport ==
    /\ pc = "sweep" /\ queue = <<>>
    /\ \E best \in Best(csv \o ceiling) : report' = [rows |-> csv \o ceiling, best |-> best]
    /\ pc' = "idle"
    /\ UNCHANGED <<call, cand, queue, guardDone, build, rows, ceiling, csv>>

\* A command fails, a line of the board does not come in time, or the user
\* interrupts: the exception ends the tool and with it the report.
Raise ==
    /\ pc # "idle" /\ pc' = "idle"
    /\ UNCHANGED <<call, cand, queue, guardDone, build, data>>

Next ==
    \/ Start \/ RunTests \/ NextCandidate \/ BuildCandidate \/ BuildFails \/ RunCell \/ EndCells
    \/ EndIngress \/ BuildDefaults \/ SweepCell \/ WriteReport \/ Raise

Spec == Init /\ [][Next]_vars

-----------------------------------------------------------------------------
(* Properties.                                                            *)

Applications == Known \cup {"none", "defaults", "leaked"}
CellNames == {"build", GuardCell} \cup {Cells[i] : i \in DOMAIN Cells} \cup {Ceiling[i] : i \in DOMAIN Ceiling}

Rows == [candidate : Known \cup {"sweep"}, cell : CellNames, on : Applications,
         class : {"pass", "fail", "unsupported"} \cup SweepVerdicts, rate : 0..MaxRate]

\* The state's shape: results.csv holds every row measured so far, so that an
\* interrupted campaign loses none.
TypeOK ==
    /\ rows \in Seq(Rows) /\ ceiling \in Seq(Rows) /\ csv = rows
    /\ cand \in 0..Len(candidates) /\ (pc \in {"build", "cells"} => Candidate \in Known)
    /\ app \in Applications /\ stamp \in BOOLEAN
    /\ stamp => app # "none"

\* Every row was measured on the application its line names: a candidate's on
\* its own build, the ceiling sweep on the defaults, unless the caller's
\* environment already sets other ones; never on what an earlier candidate, a
\* failed build or an earlier campaign left as the newest application.
MeasuredOnItsBuild ==
    /\ \A i \in DOMAIN rows : rows[i].class # "unsupported" => rows[i].on = rows[i].candidate
    /\ \A i \in DOMAIN ceiling : ceiling[i].on = IF leaked THEN "leaked" ELSE "defaults"

\* Candidates can be compared: a candidate that is done with was built and has
\* rows for all cells in order, or a row that says it could not be built, and
\* the guard cell is measured once, before anything else that is measured,
\* whichever candidates fail to build.
CellsOfEveryCandidate ==
    LET measured == {i \in DOMAIN rows : rows[i].class # "unsupported"}
    IN  /\ \A i \in measured : rows[i].cell = GuardCell <=> \A j \in measured : i <= j
        /\ \A n \in 1..Len(candidates) : n < cand =>
             \/ \E i \in DOMAIN rows : rows[i].candidate = candidates[n] /\ rows[i].class = "unsupported"
             \/ \E i \in 0..Len(rows) :
                  /\ i + Len(Cells) <= Len(rows)
                  /\ \A k \in 1..Len(Cells) :
                       rows[i + k].candidate = candidates[n] /\ rows[i + k].cell = Cells[k]

\* The report names as best a stable row it lists, no stable row is faster,
\* and there is one whenever a row is stable; and a report is of a campaign
\* whose ceiling sweep measured every cell, after all candidates.
ReportIsSound ==
    report # NoReport =>
        LET stable == {i \in DOMAIN report.rows : Stable(report.rows[i])}
            measured == Len(report.rows) - Len(Ceiling)
        IN  /\ report.best = <<>> <=> stable = {}
            /\ \A i \in DOMAIN report.best :
                 /\ \E j \in stable : report.rows[j] = report.best[i]
                 /\ \A j \in stable : report.rows[j].rate <= report.best[i].rate
            /\ measured >= 0
            /\ \A i \in DOMAIN report.rows : report.rows[i].candidate = "sweep" <=> i > measured
            /\ \A i \in DOMAIN Ceiling : report.rows[measured + i].cell = Ceiling[i]

\* A new report is written only when the default settings are installed again,
\* as far as the caller's environment lets them.
DefaultsAreBack ==
    [][report' # report => stamp /\ app = IF leaked THEN "leaked" ELSE "defaults"]_vars
=============================================================================
