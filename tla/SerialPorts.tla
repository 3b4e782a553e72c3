---------------------------- MODULE SerialPorts ----------------------------
(***************************************************************************)
(* How make logs and the benchmark find and open the board's serial port:  *)
(* candidate_ports and logs of make_helpers.py, and SerialCapture.start    *)
(* and stop of ps/tools/e131_benchmark.py.                                 *)
(*                                                                         *)
(* A port is a number, in the order of the device names; its score is what *)
(* score_port makes of its description.  Ports are plugged in and out, and *)
(* taken and released by other programs, between any two steps of a tool.  *)
(* Whether a second opening of a port fails depends on the platform, so    *)
(* either may happen.                                                      *)
(***************************************************************************)
EXTENDS Integers, FiniteSets, Sequences, SequencesExt

CONSTANTS
    Ports,       \* serial ports, by the order of their device names
    Score,       \* of every port
    Board,       \* the port of the board
    Tools,       \* programs, "logs" or "capture", that look for a port
    MaxChanges   \* bound on what happens to the ports

\* No port: an empty --port, or nothing opened yet.
None == 0

VARIABLES
    plugged, taken,  \* ports that exist, and those another program has open
    pc,              \* of every tool: "idle", "asked", "trying", "streaming", "failed", "ended"
    explicit,        \* the port the user named, or None
    listed,          \* the ports a tool found when it looked
    candidates,      \* the ports it may try, in order
    errors,          \* the ports it could not open
    ser,             \* the port it has open, or None
    lost,            \* whether that port was pulled out since
    hindered,        \* ports that were away or in use since the tool was started
    changes

vars == <<plugged, taken, pc, explicit, listed, candidates, errors, ser, lost, hindered, changes>>
ports == <<plugged, taken, changes>>

Likely(S) == {p \in S : Score[p] > 0}

\* By falling score, and by falling device name between equals.
Before(p, q) == Score[p] > Score[q] \/ (Score[p] = Score[q] /\ p > q)

Init ==
    /\ plugged \in SUBSET Ports /\ taken \in SUBSET plugged /\ changes = 0
    /\ pc = [t \in Tools |-> "idle"] /\ explicit = [t \in Tools |-> None]
    /\ listed = [t \in Tools |-> {}] /\ candidates = [t \in Tools |-> <<>>]
    /\ errors = [t \in Tools |-> {}] /\ ser = [t \in Tools |-> None]
    /\ lost = [t \in Tools |-> FALSE] /\ hindered = [t \in Tools |-> {}]

InUse(t) == (taken \cup {ser[u] : u \in Tools \ {t}}) \ {None}

Start(t, port) ==
    /\ pc[t] = "idle"
    /\ pc' = [pc EXCEPT ![t] = "asked"] /\ explicit' = [explicit EXCEPT ![t] = port]
    /\ hindered' = [hindered EXCEPT ![t] = (Ports \ plugged) \cup InUse(t)]
    /\ UNCHANGED <<ports, listed, candidates, errors, ser, lost>>

\* The one sequence of the ports of a set in that order.
Sorted(S) ==
    {s \in [1 .. Cardinality(S) -> S] :
        /\ \A p \in S : \E i \in DOMAIN s : s[i] = p
        /\ \A i, j \in DOMAIN s : i < j => Before(s[i], s[j])}

\* The port the user named, or the only one there is, or the likely ones.
CandidatePorts(port, S) ==
    IF port # None THEN {<<port>>} ELSE Sorted(IF Cardinality(S) = 1 THEN S ELSE Likely(S))

\* Without pyserial or without a candidate the tool gives up.
LookForPorts(t) ==
    LET S == IF explicit[t] = None THEN plugged ELSE {}
    IN  /\ pc[t] = "asked"
        /\ \/ \E found \in CandidatePorts(explicit[t], S) :
                 /\ candidates' = [candidates EXCEPT ![t] = found]
                 /\ listed' = [listed EXCEPT ![t] = S]
                 /\ pc' = [pc EXCEPT ![t] = IF found = <<>> THEN "failed" ELSE "trying"]
           \/ pc' = [pc EXCEPT ![t] = "ended"] /\ UNCHANGED <<candidates, listed>>
        /\ UNCHANGED <<ports, explicit, errors, ser, lost, hindered>>

Current(t) == Head(candidates[t])

Open(t) ==
    /\ pc[t] = "trying" /\ Current(t) \in plugged
    /\ ser' = [ser EXCEPT ![t] = Current(t)] /\ lost' = [lost EXCEPT ![t] = FALSE]
    /\ pc' = [pc EXCEPT ![t] = "streaming"]
    /\ hindered' = [u \in Tools |-> IF u = t THEN hindered[u] ELSE hindered[u] \cup {Current(t)}]
    /\ UNCHANGED <<ports, explicit, listed, candidates, errors>>

\* Mutant: the other ports are tried after the one the user named.
CannotOpenFallBack(t) ==
    /\ pc[t] = "trying" /\ (Current(t) \notin plugged \/ Current(t) \in InUse(t))
    /\ errors' = [errors EXCEPT ![t] = @ \cup {Current(t)}]
    /\ LET rest == (IF explicit[t] # None THEN Likely(plugged) ELSE ToSet(Tail(candidates[t]))) \ errors'[t]
       IN  IF rest = {} THEN pc' = [pc EXCEPT ![t] = "failed"] /\ UNCHANGED candidates
           ELSE (\E s \in Sorted(rest) : candidates' = [candidates EXCEPT ![t] = s]) /\ UNCHANGED pc
    /\ UNCHANGED <<ports, explicit, listed, ser, lost, hindered>>

\* A port that the user named is the only one tried.
CannotOpen(t) ==
    /\ pc[t] = "trying" /\ (Current(t) \notin plugged \/ Current(t) \in InUse(t))
    /\ errors' = [errors EXCEPT ![t] = @ \cup {Current(t)}]
    /\ IF explicit[t] # None \/ Len(candidates[t]) = 1
       THEN pc' = [pc EXCEPT ![t] = "failed"] /\ UNCHANGED candidates
       ELSE candidates' = [candidates EXCEPT ![t] = Tail(@)] /\ UNCHANGED pc
    /\ UNCHANGED <<ports, explicit, listed, ser, lost, hindered>>

\* The reading ends and the port is closed.
Close(t) ==
    /\ pc[t] = "streaming"
    /\ pc' = [pc EXCEPT ![t] = "ended"] /\ ser' = [ser EXCEPT ![t] = None]
    /\ UNCHANGED <<ports, explicit, listed, candidates, errors, lost, hindered>>

\* logs ends by the user's interrupt or because reading a lost port raises.
EndLogs(t) == t = "logs" /\ Close(t)

\* The capture's reader thread dies of a lost port; the benchmark stops after
\* its last cell or when it has waited in vain for a line.
StopCapture(t) == t = "capture" /\ Close(t)

End(t) == EndLogs(t) \/ StopCapture(t)

\* A tool that ended may be started again.
Return(t) ==
    /\ pc[t] \in {"failed", "ended"} /\ pc' = [pc EXCEPT ![t] = "idle"]
    /\ listed' = [listed EXCEPT ![t] = {}] /\ candidates' = [candidates EXCEPT ![t] = <<>>]
    /\ errors' = [errors EXCEPT ![t] = {}] /\ lost' = [lost EXCEPT ![t] = FALSE]
    /\ explicit' = [explicit EXCEPT ![t] = None] /\ hindered' = [hindered EXCEPT ![t] = {}]
    /\ UNCHANGED <<ports, ser>>

\* A port is plugged in or out, or another program opens or closes it.
Change(p) ==
    /\ changes < MaxChanges /\ changes' = changes + 1
    /\ \/ p \notin plugged /\ plugged' = plugged \cup {p} /\ UNCHANGED <<taken, lost>>
       \/ /\ p \in plugged /\ plugged' = plugged \ {p} /\ taken' = taken \ {p}
          /\ lost' = [t \in Tools |-> lost[t] \/ ser[t] = p]
       \/ p \in plugged \ taken /\ taken' = taken \cup {p} /\ UNCHANGED <<plugged, lost>>
       \/ p \in taken /\ taken' = taken \ {p} /\ UNCHANGED <<plugged, lost>>
    /\ hindered' = [t \in Tools |-> hindered[t] \cup {p}]
    /\ UNCHANGED <<pc, explicit, listed, candidates, errors, ser>>

ToolStep(t) == LookForPorts(t) \/ Open(t) \/ CannotOpen(t)

Next ==
    \/ \E t \in Tools :
        \/ \E port \in Ports \cup {None} : Start(t, port)
        \/ ToolStep(t) \/ End(t) \/ Return(t)
    \/ \E p \in Ports : Change(p)

\* A tool runs on, and one that lost its port ends.
Fairness == \A t \in Tools : WF_vars(ToolStep(t)) /\ WF_vars(lost[t] /\ End(t))

Spec == Init /\ [][Next]_vars /\ Fairness

-----------------------------------------------------------------------------
(* Properties.                                                            *)

\* The state's shape.
TypeOK ==
    /\ taken \subseteq plugged /\ plugged \subseteq Ports /\ changes \in 0..MaxChanges
    /\ pc \in [Tools -> {"idle", "asked", "trying", "streaming", "failed", "ended"}]
    /\ explicit \in [Tools -> Ports \cup {None}] /\ ser \in [Tools -> Ports \cup {None}]
    /\ \A t \in Tools : pc[t] = "trying" => candidates[t] # <<>> /\ ser[t] = None
    /\ \A t \in Tools : listed[t] \cup errors[t] \cup hindered[t] \subseteq Ports

\* A port the user names is the only one a tool ever touches: it does not fall
\* back to another (make_helpers.py:240, e131_benchmark.py:192).
ExplicitIsObeyed ==
    \A t \in Tools : explicit[t] # None =>
        errors[t] \cup ({ser[t]} \ {None}) \subseteq {explicit[t]}

\* A tool that chose by itself reads a port that looks like the board's, or the
\* only one there was, and every likelier one that it listed would not open.
BestFirst ==
    \A t \in Tools : explicit[t] = None /\ ser[t] # None =>
        /\ Score[ser[t]] > 0 \/ listed[t] = {ser[t]}
        /\ \A p \in listed[t] : Score[p] > Score[ser[t]] => p \in errors[t]

\* A tool reports failure only when no port it listed looked right or each of
\* those that did, and the named one if there was one, would not open.
GivesUpLast ==
    \A t \in Tools : pc[t] = "failed" =>
        IF explicit[t] # None THEN explicit[t] \in errors[t]
        ELSE /\ Likely(listed[t]) \subseteq errors[t]
             /\ Cardinality(listed[t]) = 1 => listed[t] \subseteq errors[t]

\* A board that looks more like one than any other port, and stays plugged and
\* unused by others, is the one a tool finds by itself.
BoardIsFound ==
    (\A p \in Ports \ {Board} : Score[p] < Score[Board]) =>
        \A t \in Tools : explicit[t] = None /\ Board \notin hindered[t] =>
            pc[t] # "failed" /\ (pc[t] = "streaming" => ser[t] = Board)

\* A tool that ended has no port open, however it ended.
PortIsClosed == \A t \in Tools : pc[t] \in {"idle", "failed", "ended"} => ser[t] = None
=============================================================================
