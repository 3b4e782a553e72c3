---- MODULE BoundedFifo ----
(***************************************************************************)
(* What the receive ring promises its two users: the Ethernet input        *)
(* callback that puts datagrams in and the poll loop that takes them out.  *)
(* Datagrams come out once each, whole and in arrival order; one is lost   *)
(* only when Capacity datagrams are already waiting, and every loss is     *)
(* counted.                                                                *)
(***************************************************************************)
EXTENDS Naturals, Sequences

CONSTANTS Packet,      \* what can be queued
          NoPacket,    \* the content of the caller's buffer before the first take
          Capacity,    \* how many can wait
          CounterMod   \* the loss counter counts modulo this

VARIABLES queue,       \* the waiting packets, oldest first
          out,         \* the packet handed to the consumer last
          lost         \* how many were refused for want of room

fifoVars == <<queue, out, lost>>

Init == queue = <<>> /\ out = NoPacket /\ lost = 0

Put(p) == /\ Len(queue) < Capacity
          /\ queue' = Append(queue, p)
          /\ UNCHANGED <<out, lost>>

Lose == /\ Len(queue) = Capacity
        /\ lost' = (lost + 1) % CounterMod
        /\ UNCHANGED <<queue, out>>

Take == /\ queue # <<>>
        /\ out' = Head(queue)
        /\ queue' = Tail(queue)
        /\ UNCHANGED lost

Next == Lose \/ Take \/ \E p \in Packet : Put(p)

Spec == Init /\ [][Next]_fifoVars
====
