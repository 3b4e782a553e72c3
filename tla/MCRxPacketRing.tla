---- MODULE MCRxPacketRing ----
(***************************************************************************)
(* The poll loop with a ring of four slots, two rounds of one packet, and  *)
(* a clock that wraps; and the ring alone, with any order of its calls, as *)
(* a state of the loop that is never left.                                 *)
(***************************************************************************)
EXTENDS EthernetPoll

MCPacket == 0 .. ClockMod - 1

MCInit == \/ PollInit
          \/ Init /\ pc = "alone" /\ now = 0 /\ round = 0 /\ arrived = 0 /\ drained = 0
             /\ locked = FALSE /\ lastDisplay = 0 /\ silence = 0

(* Two different datagrams.                                                *)
Alone == /\ pc = "alone"
         /\ \/ Reserve \/ CommitReserved \/ Dequeue
            \/ \E p \in {0, 1} : Fill(p) \/ Enqueue(p)
         /\ UNCHANGED <<loopVars, showVars>>

MCSpec == MCInit /\ [][PollNext \/ Alone]_pollVars
====
