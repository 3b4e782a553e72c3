---- MODULE RxPacketRing ----
(***************************************************************************)
(* ps/app/rx_packet_ring.c: the ring of datagram slots between the lwIP    *)
(* receive callback and ethernet_receiver_poll.  The callback does not     *)
(* enqueue in one call: it reserves the head slot, copies the datagram     *)
(* into it and then commits it, so a slot is written before it is queued.  *)
(* A packet here stands for payload, length, source address and time       *)
(* stamp together.  In the program callback and poll loop share one thread;*)
(* here a Dequeue may also come between the steps of the callback, so that *)
(* what is checked does not hang on that.                                  *)
(***************************************************************************)
EXTENDS Naturals, Sequences

CONSTANTS Packet,      \* datagrams of at most RX_PACKET_RING_PAYLOAD_BYTES bytes
          NoPacket,    \* a slot or buffer nothing was written to yet
          Depth,       \* RX_PACKET_RING_DEPTH
          CounterMod   \* the counters are uint32_t: 2^32 in the program

ASSUME DepthAssumption == Depth \in Nat \ {0}
ASSUME CounterAssumption == CounterMod \in Nat \ {0} /\ Depth < CounterMod
ASSUME NoPacketAssumption == NoPacket \notin Packet

VARIABLES slots,       \* g_slots
          head,        \* g_head
          tail,        \* g_tail
          depth,       \* g_depth
          highWater,   \* g_high_water
          dropped,     \* g_dropped
          processed,   \* g_processed
          reserved,    \* the slot pointer the callback holds, NoSlot if none
          filled,      \* whether the callback has copied the datagram into it
          out          \* the poll loop's packet buffer

vars == <<slots, head, tail, depth, highWater, dropped, processed, reserved, filled, out>>

Index == 0 .. Depth - 1
NoSlot == Depth
Slots == Packet \cup {NoPacket}

Bump(counter) == (counter + 1) % CounterMod
Advance(i) == (i + 1) % Depth

Init == /\ slots = [i \in Index |-> NoPacket]
        /\ head = 0 /\ tail = 0 /\ depth = 0
        /\ highWater = 0 /\ dropped = 0 /\ processed = 0
        /\ reserved = NoSlot /\ filled = FALSE
        /\ out = NoPacket

----
(* reserve: the head slot, or a counted drop when the ring is full.        *)

DropFull == /\ depth = Depth
            /\ dropped' = Bump(dropped)
            /\ UNCHANGED <<slots, head, tail, depth, highWater, processed, reserved, filled, out>>

(* Defective variant: the full check is lost.                              *)
BadReserveSlot == /\ reserved' = head
                  /\ filled' = FALSE
                  /\ UNCHANGED <<slots, head, tail, depth, highWater, dropped, processed, out>>

ReserveSlot == /\ depth # Depth
               /\ reserved' = head
               /\ filled' = FALSE
               /\ UNCHANGED <<slots, head, tail, depth, highWater, dropped, processed, out>>

Reserve == /\ reserved = NoSlot
           /\ DropFull \/ ReserveSlot

(* The callback's copy into the reserved slot.                             *)
Fill(p) == /\ reserved # NoSlot
           /\ ~filled
           /\ slots' = [slots EXCEPT ![reserved] = p]
           /\ filled' = TRUE
           /\ UNCHANGED <<head, tail, depth, highWater, dropped, processed, reserved, out>>

----
(* commit_reserved: queue the slot that was filled.                        *)

Push == /\ head' = Advance(head)
        /\ depth' = depth + 1
        /\ highWater' = IF depth + 1 > highWater THEN depth + 1 ELSE highWater

CommitReserved == /\ filled
                  /\ reserved = head
                  /\ Push
                  /\ reserved' = NoSlot
                  /\ filled' = FALSE
                  /\ UNCHANGED <<slots, tail, dropped, processed, out>>

(* enqueue: reserve, copy and commit in one call.  Its call of reserve on a*)
(* full ring is DropFull, like the callback's.                             *)
Enqueue(p) == /\ reserved = NoSlot
              /\ depth # Depth
              /\ slots' = [slots EXCEPT ![head] = p]
              /\ Push
              /\ UNCHANGED <<tail, dropped, processed, reserved, filled, out>>

(* Defective variant: the slot is read behind the head, not at the tail.   *)
BadDequeue == /\ depth # 0
              /\ out' = slots[(head + Depth - 1) % Depth]
              /\ tail' = Advance(tail)
              /\ depth' = depth - 1
              /\ processed' = Bump(processed)
              /\ UNCHANGED <<slots, head, highWater, dropped, reserved, filled>>

(* dequeue: the oldest packet is copied out of its slot; an empty ring     *)
(* returns 0 and changes nothing.                                          *)
Dequeue == /\ depth # 0
           /\ out' = slots[tail]
           /\ tail' = Advance(tail)
           /\ depth' = depth - 1
           /\ processed' = Bump(processed)
           /\ UNCHANGED <<slots, head, highWater, dropped, reserved, filled>>

Next == \/ Reserve
        \/ CommitReserved
        \/ Dequeue
        \/ \E p \in Packet : Fill(p) \/ Enqueue(p)

Spec == Init /\ [][Next]_vars

----
(* The type invariant of the ring's static variables.                      *)
TypeOK == /\ slots \in [Index -> Slots]
          /\ head \in Index /\ tail \in Index /\ depth \in 0 .. Depth
          /\ highWater \in 0 .. Depth
          /\ dropped \in 0 .. CounterMod - 1
          /\ processed \in 0 .. CounterMod - 1
          /\ reserved \in Index \cup {NoSlot}
          /\ filled \in BOOLEAN
          /\ out \in Slots

(* The slot of the n-th waiting packet (n from 1), wrap-around included.   *)
SlotOf(n) == IF tail + n - 1 < Depth THEN tail + n - 1 ELSE tail + n - 1 - Depth

(* Every queued slot holds a datagram, head is where the next one goes,    *)
(* and the high-water mark has seen the current depth.  g_head, g_tail and *)
(* g_depth are three variables kept in step by hand, and a full ring and   *)
(* an empty one have the same head and tail.                               *)
RingShape == /\ head = (IF tail + depth < Depth THEN tail + depth ELSE tail + depth - Depth)
             /\ \A n \in 1 .. depth : slots[SlotOf(n)] \in Packet
             /\ depth <= highWater

(* The slot the callback is copying into is the one commit_reserved will   *)
(* accept and is not queued, even when the poll loop dequeues in between:  *)
(* no waiting datagram is overwritten and no commit is refused.            *)
ReservationSafe == reserved # NoSlot =>
                      /\ reserved = head
                      /\ depth < Depth
                      /\ \A n \in 1 .. depth : SlotOf(n) # reserved
                      /\ filled => slots[reserved] \in Packet

(* The packets waiting, oldest first.                                      *)
Waiting == [n \in 1 .. depth |-> slots[SlotOf(n)]]

Fifo == INSTANCE BoundedFifo WITH Capacity <- Depth, queue <- Waiting, lost <- dropped

(* The ring implements the bounded FIFO: arrival order, each datagram once,*)
(* losses only when full, and all of them counted.                         *)
FifoSpec == Fifo!Spec
====
