------------------------------ MODULE MCBenchTools ------------------------------
(***************************************************************************)
(* Small instances of BenchTools.                                          *)
(***************************************************************************)
EXTENDS BenchTools, TLC

\* Two cells of the same pixels: the configuration lines of two runs of the
\* application look alike.
MCMatrix == 50 :> <<30, 60>> @@ 100 :> <<30>>
MCMatrixKeys == <<50, 100>>
MCSanity == <<50, 30>>
MCCommandLines ==
    {[sanityOnly |-> FALSE, skipSanityCell |-> FALSE, pixels |-> <<50>>, rates |-> <<60>>]}

\* The board's port, another adapter of the same maker and an unrelated one,
\* which is there at first; none is in use yet.
MCScore == 1 :> 120 @@ 2 :> 50 @@ 3 :> 0

\* What rests starts in one way only.
MCInit ==
    /\ ToolsInit
    /\ tool # "cells" => board = "run" /\ rx = 0
    /\ tool # "jtag" => windows
    /\ IF tool = "port" THEN 3 \in plugged /\ taken = {} ELSE plugged = {}

MCSpec == MCInit /\ [][ToolsNext]_all /\ ToolsFairness
=============================================================================
