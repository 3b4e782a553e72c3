---------------------------- MODULE CellVerdict -----------------------------
(***************************************************************************)
(* What the tools say of a measured cell: classify and infer_bottleneck of *)
(* ps/tools/e131_benchmark.py, which judge the benchmark and the ceiling   *)
(* sweep, and strict_classify of ps/tools/e131_ingress_profile.py, which   *)
(* judges the coarse profile.  Both end up in the same report.             *)
(*                                                                         *)
(* A cell is a target rate, a strand length, the frames the board counted  *)
(* as committed and dropped by the PL, and the increments of the other     *)
(* counters between the two status lines.  Rates are per second, times in  *)
(* microseconds; fractions are compared by multiplying out.                *)
(***************************************************************************)
EXTENDS Integers, FiniteSets

CONSTANTS
    Targets, Lengths,  \* target rates and pixels per output
    Duration,          \* of a cell in seconds
    Slack,             \* frames by which a committed count may miss the target
    Writes             \* longest write of a frame to the PL so far, in microseconds

\* The counters both tools look at, and one more of the benchmark's.
Listed == {"rx_pbuf_alloc_failures", "rx_ring_dropped", "e131_rejected", "sequence_anomalies",
           "pl_dropped", "pl_rejected", "consumer_errors"}
ZeroDelta == Listed \cup {"frames_dropped", "incomplete_sweeps"}

HardErrors == ZeroDelta \cup {"rx_oversized"}

\* 24 bits of 1250 ns for every pixel of a strand and 50 us of reset.
FrameTime(pixels) == (pixels * 30) + 50
WithinLimit(target, pixels) == target * FrameTime(pixels) <= 1000000

VARIABLES
    cell,        \* the measured cell
    strict,      \* verdict of the ingress profile
    class,       \* verdict of the benchmark
    bottleneck   \* its explanation

vars == <<cell, strict, class, bottleneck>>

\* Counters that moved at all: at most two of them, by one or two.
Increments ==
    {[k \in HardErrors |-> IF k \in moved THEN n ELSE 0] :
        moved \in {S \in SUBSET HardErrors : Cardinality(S) <= 2}, n \in 1..2}

\* A board commits what arrives, and the PL drops what it cannot show: the
\* frames that were committed and not dropped were on the strands, except for
\* those in the two banks at either end.
Showable(t, p, committed, dropped) ==
    (committed - dropped - 2) * FrameTime(p) <= Duration * 1000000

Cells ==
    {c \in [target : Targets, pixels : Lengths, missed : Slack, delta : Increments,
               before : Writes, write : Writes] :
        /\ c.before <= c.write
        /\ Showable(c.target, c.pixels, (c.target * Duration) - c.missed, c.delta["pl_dropped"])}

Init == cell \in Cells /\ strict = "none" /\ class = "none" /\ bottleneck = "none"

Committed == (cell.target * Duration) - cell.missed

\* The sum over the counters of a set.
Errors(keys) ==
    Cardinality({k \in keys : cell.delta[k] >= 1}) + Cardinality({k \in keys : cell.delta[k] = 2})

Reaches(percent) == 100 * Committed >= percent * cell.target * Duration

StrictClassify == IF Errors(ZeroDelta) = 0 /\ Reaches(99) THEN "pass" ELSE "fail"

\* Mutant: a single error is forgiven before the rate is looked at.
ClassifyForgiving ==
    IF Errors(HardErrors) <= 1 /\ Reaches(99) THEN "stable"
    ELSE IF Reaches(95) THEN "marginal" ELSE "broken"

Classify ==
    IF Errors(HardErrors) = 0 /\ Reaches(99) THEN "stable"
    ELSE IF Reaches(95) /\ Errors(HardErrors) <= 1 THEN "marginal" ELSE "broken"

\* The longest write is a maximum, of which the tool takes the increase, and
\* the value after the cell only when it did not increase.
Write == IF cell.write > cell.before THEN cell.write - cell.before ELSE cell.write

\* A write is slow when it takes more than a quarter of the frame's time.
SlowWrite == 4 * Write * cell.target > 1000000
Torn == cell.delta["incomplete_sweeps"] > 0 \/ cell.delta["sequence_anomalies"] > 0

InferBottleneck(c) ==
    IF c # "broken" THEN "none_observed"
    ELSE IF WithinLimit(cell.target, cell.pixels) /\ (SlowWrite \/ Torn) THEN "dma_likely_needed"
    ELSE IF ~WithinLimit(cell.target, cell.pixels) \/ cell.delta["pl_dropped"] > 0 THEN "not_dma_limited"
    ELSE "undetermined"

Judge ==
    /\ strict = "none"
    /\ strict' = StrictClassify /\ class' = Classify /\ bottleneck' = InferBottleneck(class')
    /\ UNCHANGED cell

Next == Judge
Spec == Init /\ [][Next]_vars

-----------------------------------------------------------------------------
(* Properties.                                                            *)

\* The state's shape.
TypeOK ==
    /\ cell \in Cells /\ strict \in {"none", "pass", "fail"}
    /\ class \in {"none", "stable", "marginal", "broken"}
    /\ bottleneck \in {"none", "none_observed", "dma_likely_needed", "not_dma_limited", "undetermined"}

\* The report puts rows of both tools side by side: what the benchmark calls
\* stable passes the profile, and what passes the profile is stable or only
\* received oversized packets.
VerdictsAgree ==
    /\ class = "stable" => strict = "pass"
    /\ strict = "pass" => class = "stable" \/ cell.delta["rx_oversized"] > 0

\* Above the WS281x limit failure is expected (docs/performance.md:99): a
\* target that the strands cannot follow is not called stable, but for the
\* hundredth of the frames and the two banks that a short cell hides.
NotStableAboveLimit ==
    class = "stable" \/ strict = "pass" =>
        ((99 * cell.target * Duration) - 200) * FrameTime(cell.pixels) <= 100 * Duration * 1000000

\* A DMA is suggested only for a target that the strands could follow, and a
\* broken cell above the limit is explained by the limit.
LimitFirst ==
    /\ bottleneck = "dma_likely_needed" => WithinLimit(cell.target, cell.pixels)
    /\ class = "broken" /\ ~WithinLimit(cell.target, cell.pixels) => bottleneck = "not_dma_limited"
=============================================================================
