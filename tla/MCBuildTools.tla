------------------------------ MODULE MCBuildTools ------------------------------
(***************************************************************************)
(* A small instance of BuildTools.                                         *)
(***************************************************************************)
EXTENDS BuildTools, TLC

\* Two names, of which FRAME_WORDS is defined by an expression and E131_PORT
\* by a literal; an older description knows E131_PORT only, with another value.
MCConfigs == {[n \in {"E131_PORT", "FRAME_WORDS"} |-> 1], [n \in {"E131_PORT"} |-> 2]}

\* Two candidates in either order, one alone, and one that does not exist
\* after one that does.
MCCells == <<"500@60", "1024@30">>
MCCeiling == <<"500@61", "500@65">>
MCOrders == {<<"current", "pool2048">>, <<"pool2048", "current">>, <<"pool2048">>,
             <<"current", "typo">>}

\* What rests starts in one way only.
MCInit ==
    /\ ToolsInit
    /\ tool # "registers" => rdl = Unread
    /\ tool # "campaign" => app = "none" /\ ~built

MCSpec == MCInit /\ [][ToolsNext]_all
=============================================================================
