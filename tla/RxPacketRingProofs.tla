---- MODULE RxPacketRingProofs ----
(***************************************************************************)
(* Proofs about the receive ring for every depth and every set of packets, *)
(* and about the poll loop that uses it for every budget.  The inductive   *)
(* invariant of the ring is the conjunction of the three invariants of     *)
(* RxPacketRing: the bound on depth needs the reservation to be counted    *)
(* against it, and the reservation's safety needs head, tail and depth to  *)
(* agree.  That of the poll loop bounds the place of each waiting packet   *)
(* by its age: what is older than a polls had the budgets of a polls spent *)
(* on the packets in front of it.                                          *)
(***************************************************************************)
EXTENDS EthernetPoll, SequenceTheorems, TLAPS

IInv == TypeOK /\ RingShape /\ ReservationSafe

(* The program's increment modulo the depth, without the division.         *)
LEMMA AdvanceIsSuccessor ==
  ASSUME NEW i \in Index
  PROVE  Advance(i) = IF i + 1 < Depth THEN i + 1 ELSE 0
<1>1. CASE i + 1 < Depth
  BY <1>1, DepthAssumption DEF Advance, Index
<1>2. CASE i + 1 = Depth
  BY <1>2, DepthAssumption DEF Advance, Index
<1>3. QED
  BY <1>1, <1>2, DepthAssumption DEF Index

(* A wrapped counter stays a counter.                                      *)
LEMMA BumpInRange ==
  ASSUME NEW c \in 0 .. CounterMod - 1
  PROVE  Bump(c) \in 0 .. CounterMod - 1
BY CounterAssumption DEF Bump

LEMMA InitEstablishes == Init => IInv
<1> SUFFICES ASSUME Init PROVE IInv
  OBVIOUS
<1> USE DepthAssumption, CounterAssumption DEF Init, Index, NoSlot
<1>1. TypeOK
  <2>1. slots \in [Index -> Slots] /\ out \in Slots
    BY DEF Slots
  <2>2. head \in Index /\ tail \in Index /\ depth \in 0 .. Depth /\ highWater \in 0 .. Depth
    OBVIOUS
  <2>3. dropped \in 0 .. CounterMod - 1 /\ processed \in 0 .. CounterMod - 1
    OBVIOUS
  <2>4. QED
    BY <2>1, <2>2, <2>3 DEF TypeOK
<1>2. RingShape
  <2>1. 1 .. depth = {}
    OBVIOUS
  <2>2. QED
    BY <2>1 DEF RingShape
<1>3. ReservationSafe
  BY DEF ReservationSafe
<1>4. QED
  BY <1>1, <1>2, <1>3 DEF IInv

(* What queueing one more packet does to the three indices.                *)
LEMMA PushKeepsShape ==
  ASSUME IInv, Push, depth < Depth, UNCHANGED tail,
         slots' \in [Index -> Slots], slots'[head] \in Packet,
         \A i \in Index : i # head => slots'[i] = slots[i]
  PROVE  /\ head' \in Index /\ depth' \in 0 .. Depth /\ highWater' \in 0 .. Depth
         /\ RingShape'
<1> USE DepthAssumption DEF IInv, TypeOK, Index
<1>1. head' = IF head + 1 < Depth THEN head + 1 ELSE 0
  BY AdvanceIsSuccessor DEF Push
<1>2. /\ head' \in Index /\ depth' = depth + 1 /\ depth' \in 0 .. Depth
      /\ highWater' \in 0 .. Depth /\ depth' <= highWater'
  BY <1>1 DEF Push
<1>3. head' = (IF tail' + depth' < Depth THEN tail' + depth' ELSE tail' + depth' - Depth)
  BY <1>1, <1>2 DEF RingShape
<1>4. ASSUME NEW n \in 1 .. depth'
      PROVE  slots'[SlotOf(n)'] \in Packet
  <2>1. SlotOf(n)' = SlotOf(n) /\ SlotOf(n) \in Index
    BY <1>2 DEF SlotOf
  <2>2. CASE n \in 1 .. depth
    <3>1. SlotOf(n) # head /\ slots[SlotOf(n)] \in Packet
      BY <2>2 DEF SlotOf, RingShape
    <3>2. QED
      BY <2>1, <3>1
  <2>3. CASE n = depth + 1
    BY <2>1, <2>3 DEF SlotOf, RingShape
  <2>4. QED
    BY <1>2, <2>2, <2>3
<1>5. QED
  BY <1>2, <1>3, <1>4 DEF RingShape

LEMMA ReserveStep == IInv /\ Reserve => IInv'
<1> SUFFICES ASSUME IInv, Reserve PROVE IInv'
  OBVIOUS
<1> USE DepthAssumption, CounterAssumption DEF IInv, Index, NoSlot
<1>1. CASE DropFull
  BY <1>1, BumpInRange DEF DropFull, TypeOK, RingShape, ReservationSafe, SlotOf
<1>2. CASE ReserveSlot
  <2>1. TypeOK'
    BY <1>2 DEF ReserveSlot, TypeOK
  <2>2. RingShape'
    BY <1>2 DEF ReserveSlot, RingShape, SlotOf
  <2>3. \A n \in 1 .. depth : SlotOf(n) # head
    BY <1>2 DEF ReserveSlot, TypeOK, RingShape, SlotOf
  <2>4. ReservationSafe'
    BY <1>2, <2>3 DEF ReserveSlot, TypeOK, ReservationSafe, SlotOf
  <2>5. QED
    BY <2>1, <2>2, <2>4
<1>3. QED
  BY <1>1, <1>2 DEF Reserve

LEMMA FillStep ==
  ASSUME IInv, NEW p \in Packet, Fill(p)
  PROVE  IInv'
<1> USE DepthAssumption DEF IInv, Index, NoSlot, Fill
<1>1. TypeOK'
  BY DEF TypeOK, Slots
<1>2. RingShape'
  <2>1. \A n \in 1 .. depth : SlotOf(n) \in Index /\ SlotOf(n) # reserved
    BY DEF TypeOK, RingShape, ReservationSafe, SlotOf
  <2>2. \A n \in 1 .. depth' : SlotOf(n)' = SlotOf(n) /\ slots'[SlotOf(n)] \in Packet
    BY <2>1 DEF TypeOK, RingShape, SlotOf
  <2>3. QED
    BY <2>2 DEF RingShape
<1>3. ReservationSafe'
  BY DEF TypeOK, ReservationSafe, SlotOf
<1>4. QED
  BY <1>1, <1>2, <1>3

LEMMA CommitStep == IInv /\ CommitReserved => IInv'
<1> SUFFICES ASSUME IInv, CommitReserved PROVE IInv'
  OBVIOUS
<1> USE DepthAssumption DEF IInv, Index, NoSlot
<1>1. depth < Depth /\ slots[head] \in Packet
  BY DEF CommitReserved, ReservationSafe, TypeOK
<1>2. /\ head' \in Index /\ depth' \in 0 .. Depth /\ highWater' \in 0 .. Depth
      /\ RingShape'
  BY <1>1, PushKeepsShape DEF CommitReserved, TypeOK
<1>3. TypeOK'
  BY <1>2 DEF CommitReserved, TypeOK
<1>4. ReservationSafe'
  BY DEF CommitReserved, ReservationSafe
<1>5. QED
  BY <1>2, <1>3, <1>4

LEMMA EnqueueStep ==
  ASSUME IInv, NEW p \in Packet, Enqueue(p)
  PROVE  IInv'
<1> USE DepthAssumption DEF IInv, Index, NoSlot
<1>1. depth < Depth
  BY DEF Enqueue, TypeOK
<1>2. /\ slots' \in [Index -> Slots] /\ slots'[head] \in Packet
      /\ \A i \in Index : i # head => slots'[i] = slots[i]
  BY DEF Enqueue, TypeOK, Slots
<1>3. /\ head' \in Index /\ depth' \in 0 .. Depth /\ highWater' \in 0 .. Depth
      /\ RingShape'
  BY <1>1, <1>2, PushKeepsShape DEF Enqueue
<1>4. TypeOK'
  BY <1>2, <1>3 DEF Enqueue, TypeOK
<1>5. ReservationSafe'
  BY DEF Enqueue, ReservationSafe
<1>6. QED
  BY <1>3, <1>4, <1>5

LEMMA DequeueStep == IInv /\ Dequeue => IInv'
<1> SUFFICES ASSUME IInv, Dequeue PROVE IInv'
  OBVIOUS
<1> USE DepthAssumption DEF IInv, Index, NoSlot
<1>1. tail' = IF tail + 1 < Depth THEN tail + 1 ELSE 0
  BY AdvanceIsSuccessor DEF Dequeue, TypeOK
<1>2. TypeOK'
  BY <1>1, BumpInRange DEF Dequeue, TypeOK
<1>3. \A n \in 1 .. depth' : SlotOf(n)' = SlotOf(n + 1) /\ n + 1 \in 1 .. depth
  BY <1>1 DEF Dequeue, TypeOK, SlotOf
<1>4. RingShape'
  <2>1. head' = (IF tail' + depth' < Depth THEN tail' + depth' ELSE tail' + depth' - Depth)
    BY <1>1 DEF Dequeue, TypeOK, RingShape
  <2>2. \A n \in 1 .. depth' : slots'[SlotOf(n)'] \in Packet
    BY <1>3 DEF Dequeue, RingShape
  <2>3. depth' <= highWater'
    BY DEF Dequeue, TypeOK, RingShape
  <2>4. QED
    BY <2>1, <2>2, <2>3 DEF RingShape
<1>5. ReservationSafe'
  BY <1>3 DEF Dequeue, TypeOK, ReservationSafe
<1>6. QED
  BY <1>2, <1>4, <1>5

LEMMA NextPreserves == IInv /\ [Next]_vars => IInv'
<1> SUFFICES ASSUME IInv, [Next]_vars PROVE IInv'
  OBVIOUS
<1>1. CASE Reserve
  BY <1>1, ReserveStep
<1>2. CASE CommitReserved
  BY <1>2, CommitStep
<1>3. CASE Dequeue
  BY <1>3, DequeueStep
<1>4. CASE \E p \in Packet : Fill(p) \/ Enqueue(p)
  BY <1>4, FillStep, EnqueueStep
<1>5. CASE UNCHANGED vars
  BY <1>5 DEF vars, IInv, TypeOK, RingShape, ReservationSafe, SlotOf
<1>6. QED
  BY <1>1, <1>2, <1>3, <1>4, <1>5 DEF Next

(* The ring's indices, depth and reservation are consistent in every state *)
(* for every depth.                                                        *)
THEOREM Invariant == Spec => []IInv
BY InitEstablishes, NextPreserves, PTL DEF Spec

(* The static variables of rx_packet_ring.c keep their ranges: no index    *)
(* leaves the array and the depth never passes RX_PACKET_RING_DEPTH.       *)
THEOREM TypeCorrect == Spec => []TypeOK
BY Invariant, PTL DEF IInv

(* head, tail and depth describe the same run of queued slots.             *)
THEOREM RingShapeHolds == Spec => []RingShape
BY Invariant, PTL DEF IInv

(* A reserved slot is never one of the queued ones.                        *)
THEOREM ReservationSafeHolds == Spec => []ReservationSafe
BY Invariant, PTL DEF IInv

----
(* Refinement of the bounded FIFO.                                         *)

(* Append and Tail as functions, for sequences of any length.              *)
LEMMA AppendAsFunction ==
  ASSUME NEW S, NEW s \in Seq(S), NEW e \in S
  PROVE  Append(s, e) = [n \in 1 .. Len(s) + 1 |-> IF n <= Len(s) THEN s[n] ELSE e]
<1>1. /\ Append(s, e) \in Seq(S)
      /\ Len(Append(s, e)) = Len(s) + 1
      /\ \A n \in 1 .. Len(s) : Append(s, e)[n] = s[n]
      /\ Append(s, e)[Len(s) + 1] = e
  BY AppendProperties
<1>2. Len(s) \in Nat
  BY LenProperties
<1>3. Append(s, e) = [n \in 1 .. Len(s) + 1 |-> Append(s, e)[n]]
  BY <1>1, LenProperties
<1>4. \A n \in 1 .. Len(s) + 1 : Append(s, e)[n] = IF n <= Len(s) THEN s[n] ELSE e
  BY <1>1, <1>2
<1>5. QED
  BY <1>3, <1>4

LEMMA TailAsFunction ==
  ASSUME NEW S, NEW s \in Seq(S), Len(s) > 0
  PROVE  /\ s # <<>>
         /\ Tail(s) = [n \in 1 .. Len(s) - 1 |-> s[n + 1]]
<1>1. s # <<>>
  BY EmptySeq
<1>2. /\ Tail(s) \in Seq(S)
      /\ Len(Tail(s)) = Len(s) - 1
      /\ \A n \in 1 .. Len(Tail(s)) : Tail(s)[n] = s[n + 1]
  BY <1>1, HeadTailProperties
<1>3. Tail(s) = [n \in 1 .. Len(s) - 1 |-> Tail(s)[n]]
  BY <1>2, LenProperties
<1>4. QED
  BY <1>1, <1>2, <1>3

LEMMA WaitingIsSeq ==
  ASSUME IInv
  PROVE  /\ Waiting \in Seq(Packet)
         /\ Len(Waiting) = depth
         /\ \A n \in 1 .. depth : Waiting[n] = slots[SlotOf(n)]
<1>1. depth \in Nat
  BY DepthAssumption DEF IInv, TypeOK
<1>2. \A n \in 1 .. depth : slots[SlotOf(n)] \in Packet
  BY DEF IInv, RingShape
<1>3. QED
  BY <1>1, <1>2 DEF Waiting

(* A ring whose first depth slots are untouched and that has one more      *)
(* packet in the head slot waits with that packet appended.                *)
LEMMA PushAppends ==
  ASSUME IInv, IInv', Push, depth < Depth, UNCHANGED tail,
         NEW p \in Packet, slots'[head] = p,
         \A i \in Index : i # head => slots'[i] = slots[i]
  PROVE  Waiting' = Append(Waiting, p)
<1>1. depth \in Nat /\ depth' = depth + 1
  BY DepthAssumption DEF IInv, TypeOK, Push
<1>2. Waiting' = [n \in 1 .. depth + 1 |-> slots'[SlotOf(n)]]
  BY <1>1 DEF Waiting, SlotOf
<1>3. \A n \in 1 .. depth : slots'[SlotOf(n)] = Waiting[n]
  <2> SUFFICES ASSUME NEW n \in 1 .. depth
               PROVE  slots'[SlotOf(n)] = slots[SlotOf(n)]
    BY DEF Waiting
  <2>1. SlotOf(n) \in Index /\ SlotOf(n) # head
    BY DepthAssumption DEF IInv, TypeOK, RingShape, SlotOf, Index
  <2>2. QED
    BY <2>1
<1>4. slots'[SlotOf(depth + 1)] = p
  BY DepthAssumption DEF IInv, TypeOK, RingShape, SlotOf, Index
<1>5. Append(Waiting, p) = [n \in 1 .. depth + 1 |-> IF n <= depth THEN Waiting[n] ELSE p]
  BY <1>1, WaitingIsSeq, AppendAsFunction
<1>6. \A n \in 1 .. depth + 1 :
        slots'[SlotOf(n)] = IF n <= depth THEN Waiting[n] ELSE p
  BY <1>1, <1>3, <1>4
<1>7. QED
  BY <1>2, <1>5, <1>6

(* Steps that leave every queued slot and its position alone.              *)
LEMMA SameWaiting ==
  ASSUME IInv, UNCHANGED <<tail, depth>>,
         \A n \in 1 .. depth : slots'[SlotOf(n)] = slots[SlotOf(n)]
  PROVE  Waiting' = Waiting
BY DEF Waiting, SlotOf

LEMMA StepRefines == IInv /\ IInv' /\ [Next]_vars => [Fifo!Next]_(Fifo!fifoVars)
<1> SUFFICES ASSUME IInv, IInv', [Next]_vars
             PROVE  Fifo!Next \/ UNCHANGED Fifo!fifoVars
  OBVIOUS
<1> USE DEF Fifo!Next, Fifo!fifoVars
<1>1. CASE DropFull
  <2>1. Waiting' = Waiting
    BY <1>1, SameWaiting DEF DropFull
  <2>2. Fifo!Lose
    BY <1>1, <2>1, WaitingIsSeq DEF DropFull, Fifo!Lose, Bump
  <2>3. QED
    BY <2>2
<1>2. CASE ReserveSlot
  <2>1. Waiting' = Waiting
    BY <1>2, SameWaiting DEF ReserveSlot
  <2>2. QED
    BY <1>2, <2>1 DEF ReserveSlot
<1>3. ASSUME NEW p \in Packet, Fill(p)
      PROVE  UNCHANGED Fifo!fifoVars
  <2>1. \A n \in 1 .. depth : slots'[SlotOf(n)] = slots[SlotOf(n)]
    BY <1>3, DepthAssumption DEF Fill, IInv, TypeOK, RingShape, ReservationSafe, SlotOf, Index
  <2>2. QED
    BY <1>3, <2>1, SameWaiting DEF Fill
<1>4. CASE CommitReserved
  <2>1. depth < Depth /\ slots[head] \in Packet
    BY <1>4, DepthAssumption DEF CommitReserved, IInv, TypeOK, ReservationSafe, NoSlot, Index
  <2>2. Waiting' = Append(Waiting, slots[head])
    BY <1>4, <2>1, PushAppends DEF CommitReserved
  <2>3. Fifo!Put(slots[head])
    BY <1>4, <2>1, <2>2, WaitingIsSeq DEF CommitReserved, Fifo!Put
  <2>4. QED
    BY <2>1, <2>3
<1>5. ASSUME NEW p \in Packet, Enqueue(p)
      PROVE  Fifo!Next
  <2>1. depth < Depth /\ slots'[head] = p /\ \A i \in Index : i # head => slots'[i] = slots[i]
    BY <1>5, DepthAssumption DEF Enqueue, IInv, TypeOK, Index
  <2>2. Waiting' = Append(Waiting, p)
    BY <1>5, <2>1, PushAppends DEF Enqueue
  <2>3. Fifo!Put(p)
    BY <1>5, <2>1, <2>2, WaitingIsSeq DEF Enqueue, Fifo!Put
  <2>4. QED
    BY <2>3
<1>6. CASE Dequeue
  <2>1. depth \in Nat /\ depth > 0 /\ depth' = depth - 1
    BY <1>6, DepthAssumption DEF Dequeue, IInv, TypeOK
  <2>2. tail' = IF tail + 1 < Depth THEN tail + 1 ELSE 0
    BY <1>6, AdvanceIsSuccessor DEF Dequeue, IInv, TypeOK
  <2>3. \A n \in 1 .. depth - 1 : SlotOf(n)' = SlotOf(n + 1)
    BY <2>1, <2>2, DepthAssumption DEF IInv, TypeOK, SlotOf, Index
  <2>4. Waiting' = [n \in 1 .. depth - 1 |-> Waiting[n + 1]]
    BY <1>6, <2>1, <2>3 DEF Waiting, Dequeue
  <2>5. Waiting # <<>> /\ Tail(Waiting) = [n \in 1 .. depth - 1 |-> Waiting[n + 1]]
    BY <2>1, WaitingIsSeq, TailAsFunction
  <2>6. Head(Waiting) = slots[tail]
    BY <2>1, WaitingIsSeq, DepthAssumption DEF SlotOf, IInv, TypeOK, Index
  <2>7. Fifo!Take
    BY <1>6, <2>4, <2>5, <2>6 DEF Dequeue, Fifo!Take
  <2>8. QED
    BY <2>7
<1>7. CASE UNCHANGED vars
  BY <1>7, SameWaiting DEF vars
<1>8. QED
  BY <1>1, <1>2, <1>3, <1>4, <1>5, <1>6, <1>7 DEF Next, Reserve

(* The ring is a bounded FIFO: what the poll loop takes out is what the    *)
(* callback put in, in order and once, and a datagram is lost only when    *)
(* Depth others are waiting.                                               *)
THEOREM RingImplementsFifo == Spec => FifoSpec
<1>1. Init => Fifo!Init
  <2> SUFFICES ASSUME Init PROVE Fifo!Init
    OBVIOUS
  <2>1. IInv /\ depth = 0
    BY InitEstablishes DEF Init
  <2>2. Waiting = <<>>
    BY <2>1, WaitingIsSeq
  <2>3. QED
    BY <2>2 DEF Init, Fifo!Init
<1>2. QED
  BY <1>1, Invariant, StepRefines, PTL DEF Spec, FifoSpec, Fifo!Spec

----
(* The poll's time is a time stamp.                                        *)
LEMMA ClockAdvances ==
  /\ PollInit => now \in Packet
  /\ now \in Packet /\ [PollNext]_pollVars => (now \in Packet)'
<1>1. ClockMod \in Nat \ {0}
  BY PollClockAssumption
<1>2. PollInit => now \in Packet
  BY <1>1, StampAssumption DEF PollInit
<1>3. ASSUME now \in Packet, [PollNext]_pollVars
      PROVE  now' \in Packet
  <2>1. CASE PollStart
    <3>1. PICK gap \in 0 .. MaxGap : now' = (now + gap) % ClockMod
      BY <2>1 DEF PollStart
    <3>2. now + gap \in Nat
      BY <1>3, PollClockAssumption, StampAssumption
    <3>3. \A t \in Nat : t % ClockMod \in 0 .. ClockMod - 1
      BY <1>1
    <3>4. QED
      BY <3>1, <3>2, <3>3, StampAssumption
  <2>2. CASE ~PollStart
    <3>1. now' = now
      BY <1>3, <2>2 DEF PollNext, ReceiveUdp, Oversized, CopyPayload, CommitPacket, InputEnds,
                        DrainPacket, RoundEnds, PollEnd, pollVars, loopVars, Arrives
    <3>2. QED
      BY <1>3, <3>1
  <2>3. QED
    BY <2>1, <2>2
<1>4. QED
  BY <1>2, <1>3

(* What is proved of the ring holds in the poll loop, which is one of the  *)
(* ways to use it: receive_udp and the drain loop call it in an order in   *)
(* which it allows them.                                                   *)
THEOREM PollUsesRing == PollSpec => Spec
<1>1. PollInit => Init
  BY DEF PollInit
<1>2. now \in Packet /\ [PollNext]_pollVars => [Next]_vars
  <2> SUFFICES ASSUME now \in Packet, [PollNext]_pollVars PROVE Next \/ UNCHANGED vars
    OBVIOUS
  <2> USE DEF loopVars, showVars
  <2>1. CASE PollStart
    BY <2>1 DEF PollStart
  <2>2. CASE ReceiveUdp
    BY <2>2 DEF ReceiveUdp, Next
  <2>3. CASE Oversized
    BY <2>3 DEF Oversized
  <2>4. CASE CopyPayload
    <3>1. Fill(now)
      BY <2>4 DEF CopyPayload
    <3>2. QED
      BY <3>1 DEF Next
  <2>5. CASE CommitPacket
    BY <2>5 DEF CommitPacket, Next
  <2>6. CASE InputEnds
    BY <2>6 DEF InputEnds
  <2>7. CASE DrainPacket
    BY <2>7 DEF DrainPacket, Next
  <2>8. CASE RoundEnds
    BY <2>8 DEF RoundEnds
  <2>9. CASE PollEnd
    BY <2>9 DEF PollEnd
  <2>10. CASE UNCHANGED pollVars
    BY <2>10 DEF pollVars
  <2>11. QED
    BY <2>1, <2>2, <2>3, <2>4, <2>5, <2>6, <2>7, <2>8, <2>9, <2>10 DEF PollNext
<1>3. QED
  BY <1>1, <1>2, ClockAdvances, PTL DEF PollSpec, Spec

----
(* The inductive invariant of the poll loop, beside that of the ring.      *)
(* The number of packets the poll has been able to take out so far; after  *)
(* its last round, the whole budget.                                       *)
Done == IF pc \in {"idle", "end"} THEN Budget ELSE round * DrainPerRound + drained

(* Packets that were certainly taken out since the ring may last have been *)
(* full.                                                                   *)
Freed == IF pc \in {"idle", "end"} THEN DrainPerRound ELSE drained

LoopReset == /\ pc # "drain" => drained = 0
             /\ pc \in {"idle", "end"} => round = 0

(* What is about to be queued has the present time.                        *)
FillIsFresh == filled => pc = "input" /\ reserved # NoSlot /\ slots[reserved] = now

RoomLeft == depth + Freed <= Depth

(* A packet older than a polls was queued before the budgets of a polls    *)
(* were spent on those in front of it.                                     *)
AgesBounded == \A n \in 1 .. depth : \A a \in Nat :
                  Elapsed(slots[SlotOf(n)]) > a * MaxGap
                     => n + DrainPerRound + a * Budget + Done <= Depth

(* The time that the code measures since the last frame and the real one.  *)
ShowInTime == locked => /\ silence <= Elapsed(lastDisplay)
                        /\ silence < Timeout => Elapsed(lastDisplay) <= silence + Backlog * MaxGap
                        /\ pc = "idle" => Elapsed(lastDisplay) < Timeout

PollInv == PollTypeOK /\ LoopReset /\ FillIsFresh /\ RoomLeft /\ AgesBounded /\ ShowInTime

LEMMA BudgetFacts ==
  /\ Budget \in Nat \ {0} /\ Backlog \in Nat /\ Backlog * MaxGap \in Nat
  /\ Depth <= DrainPerRound + Backlog * Budget
  /\ \A r \in 0 .. Rounds - 1 : /\ r * DrainPerRound \in Nat
                                /\ (r + 1) * DrainPerRound = r * DrainPerRound + DrainPerRound
<1>1. Rounds \in Nat \ {0} /\ DrainPerRound \in Nat \ {0} /\ DrainPerRound <= Depth
  BY BudgetAssumption, DepthAssumption
<1>2. \A x, y \in Nat \ {0} : x * y \in Nat \ {0}
  OBVIOUS
<1>3. Budget \in Nat \ {0}
  BY <1>1, <1>2 DEF Budget
<1>4. \A x \in Nat, b \in Nat \ {0} : x \div b \in Nat /\ x < (x \div b) * b + b
  OBVIOUS
<1>5. Depth - DrainPerRound + Budget - 1 \in Nat
  BY <1>1, <1>3, DepthAssumption
<1>6. Backlog \in Nat /\ Depth - DrainPerRound + Budget - 1 < Backlog * Budget + Budget
  BY <1>3, <1>4, <1>5 DEF Backlog
<1>7. \A x, y \in Nat : x * y \in Nat /\ (x + 1) * y = x * y + y
  OBVIOUS
<1>8. Backlog * Budget \in Nat /\ Backlog * MaxGap \in Nat
  BY <1>3, <1>6, <1>7, PollClockAssumption
<1>9. Depth <= DrainPerRound + Backlog * Budget
  BY <1>1, <1>3, <1>6, <1>8, DepthAssumption
<1>10. \A r \in 0 .. Rounds - 1 : r \in Nat
  OBVIOUS
<1>11. QED
  BY <1>1, <1>3, <1>6, <1>7, <1>8, <1>9, <1>10

(* Elapsed without the division, at any reading of the clock.              *)
LEMMA ElapsedFacts ==
  \A clock, s \in Packet :
     (clock + ClockMod - s) % ClockMod = IF s <= clock THEN clock - s ELSE clock + ClockMod - s
<1>1. ClockMod \in Nat \ {0}
  BY PollClockAssumption
<1>2. \A t \in Nat : t < ClockMod => t % ClockMod = t
  BY <1>1
<1>3. \A t \in Nat : ClockMod <= t /\ t < 2 * ClockMod => t % ClockMod = t - ClockMod
  BY <1>1
<1>4. TAKE clock \in Packet, s \in Packet
<1>5. clock \in Nat /\ s \in Nat /\ clock < ClockMod /\ s < ClockMod
  BY <1>1, StampAssumption
<1>6. CASE s <= clock
  <2> DEFINE t == clock + ClockMod - s
  <2>1. t \in Nat /\ ClockMod <= t /\ t < 2 * ClockMod /\ t - ClockMod = clock - s
    BY <1>1, <1>5, <1>6
  <2>2. SUFFICES t % ClockMod = clock - s
    BY <1>6
  <2> HIDE DEF t
  <2>3. QED
    BY <1>3, <2>1
<1>7. CASE clock < s
  <2>1. clock + ClockMod - s \in Nat /\ clock + ClockMod - s < ClockMod
    BY <1>1, <1>5, <1>7
  <2>2. QED
    BY <1>2, <1>5, <1>7, <2>1
<1>8. QED
  BY <1>5, <1>6, <1>7

LEMMA ElapsedInRange ==
  ASSUME now \in Packet
  PROVE  /\ \A s \in Packet : Elapsed(s) \in Nat
         /\ Elapsed(now) = 0
<1>1. \A s \in Packet : s \in Nat /\ s < ClockMod
  BY StampAssumption, PollClockAssumption
<1>2. QED
  BY <1>1, ElapsedFacts, PollClockAssumption DEF Elapsed

(* The start of a poll makes every stamp older by the gap.                 *)
LEMMA AgesGrow ==
  ASSUME now \in Packet, NEW gap \in 0 .. MaxGap, now' = (now + gap) % ClockMod
  PROVE  /\ now' \in Packet
         /\ \A s \in Packet : Elapsed(s) + gap < ClockMod
               => (now' + ClockMod - s) % ClockMod = Elapsed(s) + gap
<1>1. ClockMod \in Nat \ {0} /\ MaxGap \in Nat /\ MaxGap < ClockMod /\ gap \in Nat /\ gap <= MaxGap
  BY PollClockAssumption
<1>2. now \in Nat /\ now < ClockMod
  BY <1>1, StampAssumption
<1>3. \A t \in Nat : t % ClockMod \in 0 .. ClockMod - 1
  BY <1>1
<1>4. now' = IF now + gap < ClockMod THEN now + gap ELSE now + gap - ClockMod
  <2>1. \A t \in Nat : t < ClockMod => t % ClockMod = t
    BY <1>1
  <2>2. \A t \in Nat : ClockMod <= t /\ t < 2 * ClockMod => t % ClockMod = t - ClockMod
    BY <1>1
  <2>3. CASE now + gap < ClockMod
    BY <1>1, <1>2, <2>1, <2>3
  <2>4. CASE ClockMod <= now + gap
    <3> DEFINE t == now + gap
    <3>1. t \in Nat /\ t < 2 * ClockMod /\ ClockMod <= t /\ now' = t % ClockMod
      BY <1>1, <1>2, <2>4
    <3> HIDE DEF t
    <3>2. now' = t - ClockMod
      BY <2>2, <3>1
    <3>3. QED
      BY <1>1, <1>2, <2>4, <3>2 DEF t
  <2>5. QED
    BY <1>1, <1>2, <2>3, <2>4
<1>5. now' \in Packet
  BY <1>1, <1>2, <1>4, StampAssumption
<1>6. ASSUME NEW s \in Packet, Elapsed(s) + gap < ClockMod
      PROVE  (now' + ClockMod - s) % ClockMod = Elapsed(s) + gap
  <2>1. s \in Nat /\ s < ClockMod
    BY <1>1, StampAssumption
  <2>2. Elapsed(s) = IF s <= now THEN now - s ELSE now + ClockMod - s
    BY ElapsedFacts DEF Elapsed
  <2>3. (now' + ClockMod - s) % ClockMod
           = IF s <= now' THEN now' - s ELSE now' + ClockMod - s
    BY <1>5, ElapsedFacts
  <2>4. QED
    BY <1>1, <1>2, <1>4, <1>6, <2>1, <2>2, <2>3
<1>7. QED
  BY <1>5, <1>6

LEMMA DoneIsNat == PollInv => Done \in Nat /\ Freed \in Nat
<1> SUFFICES ASSUME PollInv PROVE Done \in Nat /\ Freed \in Nat
  OBVIOUS
<1>1. drained \in Nat /\ round \in 0 .. Rounds - 1
  BY BudgetAssumption DEF PollInv, PollTypeOK
<1>2. round * DrainPerRound \in Nat /\ Budget \in Nat /\ DrainPerRound \in Nat
  BY <1>1, BudgetFacts, BudgetAssumption, DepthAssumption
<1>3. QED
  BY <1>1, <1>2 DEF Done, Freed

(* Every waiting packet is a stamp, of at most Backlog polls.              *)
LEMMA WaitingIsFresh ==
  ASSUME IInv, PollInv, NEW n \in 1 .. depth
  PROVE  /\ SlotOf(n) \in Index /\ slots[SlotOf(n)] \in Packet
         /\ Elapsed(slots[SlotOf(n)]) \in Nat
         /\ Elapsed(slots[SlotOf(n)]) <= Backlog * MaxGap
<1>1. slots[SlotOf(n)] \in Packet
  BY DEF IInv, RingShape
<1>2. SlotOf(n) \in Index
  BY DepthAssumption DEF IInv, TypeOK, SlotOf, Index
<1>3. Elapsed(slots[SlotOf(n)]) \in Nat
  BY <1>1, ElapsedInRange DEF PollInv, PollTypeOK
<1>4. Done \in Nat /\ DrainPerRound \in Nat /\ n \in Nat /\ n > 0
  BY DoneIsNat, BudgetAssumption, DepthAssumption DEF IInv, TypeOK
<1>5. Elapsed(slots[SlotOf(n)]) > Backlog * MaxGap
         => n + DrainPerRound + Backlog * Budget + Done <= Depth
  BY BudgetFacts DEF PollInv, AgesBounded
<1>6. Backlog * Budget \in Nat
  <2>1. \A x, y \in Nat : x * y \in Nat
    OBVIOUS
  <2>2. QED
    BY <2>1, BudgetFacts
<1>7. QED
  BY <1>1, <1>2, <1>3, <1>4, <1>5, <1>6, BudgetFacts, DepthAssumption

(* Steps that leave the waiting packets, the time and what was taken out.  *)
LEMMA SameAges ==
  ASSUME IInv, PollInv, UNCHANGED <<tail, depth, now, Done>>,
         \A n \in 1 .. depth : slots'[SlotOf(n)] = slots[SlotOf(n)]
  PROVE  AgesBounded'
BY DEF PollInv, AgesBounded, SlotOf, Elapsed

----
LEMMA PollInitEstablishes == PollInit => IInv /\ PollInv
<1> SUFFICES ASSUME PollInit PROVE IInv /\ PollInv
  OBVIOUS
<1> USE DEF PollInit, Init
<1>1. IInv
  BY InitEstablishes
<1>2. now \in Packet /\ lastDisplay \in Packet
  BY StampAssumption, PollClockAssumption
<1>3. PollTypeOK
  <2>1. round \in 0 .. Rounds - 1 /\ drained \in 0 .. DrainPerRound /\ arrived \in 0 .. MaxInput
    BY BudgetAssumption, DepthAssumption
  <2>2. silence \in 0 .. Timeout
    BY PollClockAssumption
  <2>3. QED
    BY <1>2, <2>1, <2>2 DEF PollTypeOK
<1>4. RoomLeft
  BY BudgetAssumption, DepthAssumption DEF RoomLeft, Freed
<1>5. 1 .. depth = {}
  OBVIOUS
<1>6. QED
  BY <1>1, <1>3, <1>4, <1>5 DEF PollInv, LoopReset, FillIsFresh, AgesBounded, ShowInTime

LEMMA PollStartStep == IInv /\ PollInv /\ PollStart => PollInv'
<1> SUFFICES ASSUME IInv, PollInv, PollStart PROVE PollInv'
  OBVIOUS
<1>1. PICK gap \in 0 .. MaxGap :
         /\ now' = (now + gap) % ClockMod
         /\ silence' = IF locked THEN AtMostTimeout(silence + gap) ELSE 0
  BY DEF PollStart
<1>2. /\ pc = "idle" /\ pc' = "input"
      /\ UNCHANGED <<vars, round, arrived, drained, locked, lastDisplay>>
  BY DEF PollStart
<1>3. now \in Packet /\ gap \in Nat /\ gap <= MaxGap /\ MaxGap \in Nat /\ ClockMod \in Nat
      /\ Timeout \in Nat /\ Timeout + MaxGap < ClockMod /\ Backlog * MaxGap < Timeout
  BY PollClockAssumption DEF PollInv, PollTypeOK
<1>4. now' \in Packet /\ \A s \in Packet : Elapsed(s) + gap < ClockMod
                            => (now' + ClockMod - s) % ClockMod = Elapsed(s) + gap
  BY <1>1, <1>3, AgesGrow
<1>5. PollTypeOK'
  BY <1>1, <1>2, <1>3, <1>4 DEF PollInv, PollTypeOK, AtMostTimeout
<1>6. LoopReset' /\ FillIsFresh' /\ round = 0 /\ drained = 0
  BY <1>2 DEF PollInv, LoopReset, FillIsFresh, vars
<1>7. Done = Budget /\ Done' = 0 /\ RoomLeft'
  <2>1. DrainPerRound \in Nat /\ 0 * DrainPerRound = 0 /\ depth \in Nat
    BY BudgetAssumption, DepthAssumption DEF IInv, TypeOK
  <2>2. Done = Budget /\ Done' = 0
    BY <1>2, <1>6, <2>1 DEF Done
  <2>3. depth + DrainPerRound <= Depth
    BY <1>2 DEF PollInv, RoomLeft, Freed
  <2>4. RoomLeft'
    BY <1>2, <1>6, <2>1, <2>3, DepthAssumption DEF RoomLeft, Freed, vars
  <2>5. QED
    BY <2>2, <2>4
<1>8. AgesBounded'
  <2>1. depth' = depth /\ \A n \in 1 .. depth : slots'[SlotOf(n)'] = slots[SlotOf(n)]
    BY <1>2 DEF vars, SlotOf
  <2>2. SUFFICES ASSUME NEW n \in 1 .. depth, NEW a \in Nat,
                        (now' + ClockMod - slots[SlotOf(n)]) % ClockMod > a * MaxGap
                 PROVE  n + DrainPerRound + a * Budget <= Depth
    <3>1. \A n \in 1 .. depth, a \in Nat :
             n + DrainPerRound + a * Budget \in Int
      <4>1. \A a \in Nat : a * Budget \in Nat
        BY BudgetFacts
      <4>2. \A n \in 1 .. depth : n \in Nat
        BY DepthAssumption DEF IInv, TypeOK
      <4>3. QED
        BY <4>1, <4>2, BudgetAssumption, DepthAssumption
    <3>2. QED
      BY <1>7, <2>1, <2>2, <3>1 DEF AgesBounded, Elapsed
  <2> DEFINE age == Elapsed(slots[SlotOf(n)])
  <2>3. age \in Nat /\ age <= Backlog * MaxGap /\ slots[SlotOf(n)] \in Packet
    BY WaitingIsFresh
  <2>4. age + gap > a * MaxGap
    BY <1>3, <1>4, <2>2, <2>3, BudgetFacts
  <2>5. n \in Nat /\ n <= depth /\ depth \in Nat /\ DrainPerRound \in Nat /\ Budget \in Nat
    BY DepthAssumption, BudgetAssumption, BudgetFacts DEF IInv, TypeOK
  <2>6. CASE a = 0
    <3>1. depth + DrainPerRound <= Depth
      BY <1>2 DEF PollInv, RoomLeft, Freed
    <3>2. a * Budget = 0
      BY <2>5, <2>6
    <3>3. QED
      BY <2>5, <3>1, <3>2, DepthAssumption
  <2>7. CASE a # 0
    <3>1. \A x \in Nat : a * x \in Nat /\ (a - 1) * x \in Nat /\ a * x = (a - 1) * x + x
      BY <2>7
    <3>2. a - 1 \in Nat
      BY <2>7
    <3>3. age > (a - 1) * MaxGap
      BY <1>3, <2>3, <2>4, <3>1
    <3>4. n + DrainPerRound + (a - 1) * Budget + Done <= Depth
      BY <3>2, <3>3 DEF PollInv, AgesBounded
    <3>5. QED
      BY <1>7, <2>5, <3>1, <3>4, DepthAssumption
  <2>8. QED
    BY <2>6, <2>7
<1>9. ShowInTime'
  <2> SUFFICES ASSUME locked
               PROVE  /\ silence' <= Elapsed(lastDisplay)'
                      /\ silence' < Timeout => Elapsed(lastDisplay)' <= silence' + Backlog * MaxGap
    BY <1>2 DEF ShowInTime
  <2> DEFINE age == Elapsed(lastDisplay)
  <2>1. lastDisplay \in Packet /\ age \in Nat
    BY <1>3, ElapsedInRange DEF PollInv, PollTypeOK
  <2>2. /\ silence \in Nat /\ silence <= Timeout /\ silence <= age /\ age < Timeout
        /\ silence < Timeout => age <= silence + Backlog * MaxGap
    BY <1>2, <1>3 DEF PollInv, PollTypeOK, ShowInTime
  <2>3. Elapsed(lastDisplay)' = age + gap
    <3>1. (now' + ClockMod - lastDisplay) % ClockMod = age + gap
      BY <1>3, <1>4, <2>1, <2>2
    <3>2. QED
      BY <1>2, <3>1 DEF Elapsed
  <2>4. silence' = IF silence + gap > Timeout THEN Timeout ELSE silence + gap
    BY <1>1 DEF AtMostTimeout
  <2> HIDE DEF age
  <2>5. QED
    BY <1>3, <2>1, <2>2, <2>3, <2>4, BudgetFacts
<1>10. QED
  BY <1>5, <1>6, <1>7, <1>8, <1>9 DEF PollInv

(* Steps that neither tell the time nor show a frame.                      *)
LEMMA SameShow ==
  ASSUME PollInv, UNCHANGED <<now, showVars>>, pc' # "idle"
  PROVE  ShowInTime'
BY DEF PollInv, ShowInTime, showVars, Elapsed

LEMMA ReceiveUdpStep == IInv /\ PollInv /\ ReceiveUdp => PollInv'
<1> SUFFICES ASSUME IInv, PollInv, ReceiveUdp PROVE PollInv'
  OBVIOUS
<1>1. /\ pc = "input" /\ UNCHANGED <<pc, now, round, drained, showVars>>
      /\ arrived < MaxInput /\ arrived' = arrived + 1
  BY DEF ReceiveUdp, Arrives
<1>2. /\ UNCHANGED <<slots, tail, depth>>
      /\ filled' => filled /\ reserved' = reserved
  BY DEF ReceiveUdp, Reserve, DropFull, ReserveSlot
<1>3. PollTypeOK'
  BY <1>1, BudgetAssumption DEF PollInv, PollTypeOK, showVars
<1>4. LoopReset' /\ FillIsFresh' /\ RoomLeft'
  BY <1>1, <1>2 DEF PollInv, LoopReset, FillIsFresh, RoomLeft, Freed
<1>5. AgesBounded'
  BY <1>1, <1>2, SameAges DEF Done
<1>6. ShowInTime'
  BY <1>1, SameShow
<1>7. QED
  BY <1>3, <1>4, <1>5, <1>6 DEF PollInv

LEMMA OversizedStep == IInv /\ PollInv /\ Oversized => PollInv'
<1> SUFFICES ASSUME IInv, PollInv, Oversized PROVE PollInv'
  OBVIOUS
<1>1. /\ pc = "input" /\ UNCHANGED <<vars, pc, now, round, drained, showVars>>
      /\ arrived < MaxInput /\ arrived' = arrived + 1
  BY DEF Oversized, Arrives
<1>2. PollTypeOK'
  BY <1>1, BudgetAssumption DEF PollInv, PollTypeOK, showVars
<1>3. LoopReset' /\ FillIsFresh' /\ RoomLeft'
  BY <1>1 DEF PollInv, LoopReset, FillIsFresh, RoomLeft, Freed, vars
<1>4. AgesBounded'
  BY <1>1, SameAges DEF Done, vars
<1>5. ShowInTime'
  BY <1>1, SameShow
<1>6. QED
  BY <1>2, <1>3, <1>4, <1>5 DEF PollInv

(* The copy goes where nothing waits.                                      *)
LEMMA CopyPayloadStep == IInv /\ PollInv /\ CopyPayload => PollInv'
<1> SUFFICES ASSUME IInv, PollInv, CopyPayload PROVE PollInv'
  OBVIOUS
<1>1. pc = "input" /\ Fill(now) /\ UNCHANGED <<loopVars, showVars>>
  BY DEF CopyPayload
<1>2. /\ UNCHANGED <<tail, depth, pc, now, round, arrived, drained, reserved>>
      /\ reserved # NoSlot /\ slots' = [slots EXCEPT ![reserved] = now]
  BY <1>1 DEF Fill, loopVars
<1>3. reserved \in Index
  BY <1>2 DEF IInv, TypeOK
<1>4. slots'[reserved] = now
  BY <1>2, <1>3 DEF IInv, TypeOK
<1>5. \A n \in 1 .. depth : slots'[SlotOf(n)] = slots[SlotOf(n)]
  BY <1>2, DepthAssumption DEF IInv, TypeOK, RingShape, ReservationSafe, SlotOf, Index
<1>6. PollTypeOK'
  BY <1>1, <1>2 DEF PollInv, PollTypeOK, showVars
<1>7. LoopReset' /\ FillIsFresh' /\ RoomLeft'
  BY <1>1, <1>2, <1>4 DEF PollInv, LoopReset, FillIsFresh, RoomLeft, Freed
<1>8. AgesBounded'
  BY <1>2, <1>5, SameAges DEF Done
<1>9. ShowInTime'
  BY <1>1, <1>2, SameShow
<1>10. QED
  BY <1>6, <1>7, <1>8, <1>9 DEF PollInv

(* The packet that is queued has the age 0.                                *)
LEMMA CommitPacketStep == IInv /\ PollInv /\ CommitPacket => PollInv'
<1> SUFFICES ASSUME IInv, PollInv, CommitPacket PROVE PollInv'
  OBVIOUS
<1>1. pc = "input" /\ UNCHANGED <<pc, now, round, arrived, drained, showVars>>
  BY DEF CommitPacket, loopVars
<1>2. /\ filled /\ reserved = head /\ UNCHANGED <<slots, tail>>
      /\ depth' = depth + 1 /\ filled' = FALSE
  BY DEF CommitPacket, CommitReserved, Push
<1>3. reserved # NoSlot /\ slots[head] = now /\ drained = 0
  BY <1>1, <1>2 DEF PollInv, FillIsFresh, LoopReset
<1>4. depth < Depth /\ depth \in Nat
  BY <1>3, DepthAssumption DEF IInv, ReservationSafe, TypeOK
<1>5. PollTypeOK'
  BY <1>1 DEF PollInv, PollTypeOK, showVars
<1>6. LoopReset' /\ FillIsFresh'
  BY <1>1, <1>2 DEF PollInv, LoopReset, FillIsFresh
<1>7. RoomLeft'
  BY <1>1, <1>2, <1>3, <1>4, DepthAssumption DEF RoomLeft, Freed
<1>8. AgesBounded'
  <2> SUFFICES ASSUME NEW n \in 1 .. depth + 1, NEW a \in Nat,
                      Elapsed(slots[SlotOf(n)]) > a * MaxGap
               PROVE  n + DrainPerRound + a * Budget + Done <= Depth
    BY <1>1, <1>2 DEF AgesBounded, Elapsed, SlotOf, Done
  <2>1. CASE n \in 1 .. depth
    BY <2>1 DEF PollInv, AgesBounded
  <2>2. CASE n = depth + 1
    <3>1. SlotOf(n) = head
      BY <1>4, <2>2, DepthAssumption DEF SlotOf, IInv, RingShape, TypeOK, Index
    <3>2. Elapsed(slots[SlotOf(n)]) = 0
      BY <1>3, <3>1, ElapsedInRange DEF PollInv, PollTypeOK
    <3>3. \A x \in Nat : a * x \in Nat
      OBVIOUS
    <3>4. a * MaxGap \in Nat
      BY <3>3, PollClockAssumption
    <3>5. QED
      BY <3>2, <3>4
  <2>3. QED
    BY <1>4, <2>1, <2>2
<1>9. ShowInTime'
  BY <1>1, SameShow
<1>10. QED
  BY <1>5, <1>6, <1>7, <1>8, <1>9 DEF PollInv

LEMMA InputEndsStep == IInv /\ PollInv /\ InputEnds => PollInv'
<1> SUFFICES ASSUME IInv, PollInv, InputEnds PROVE PollInv'
  OBVIOUS
<1>1. /\ pc = "input" /\ reserved = NoSlot /\ pc' = "drain"
      /\ UNCHANGED <<vars, now, round, arrived, drained, showVars>>
  BY DEF InputEnds
<1>2. PollTypeOK'
  BY <1>1 DEF PollInv, PollTypeOK, showVars
<1>3. LoopReset' /\ FillIsFresh' /\ RoomLeft'
  BY <1>1 DEF PollInv, LoopReset, FillIsFresh, RoomLeft, Freed, vars
<1>4. AgesBounded'
  BY <1>1, SameAges DEF Done, vars
<1>5. ShowInTime'
  BY <1>1, SameShow
<1>6. QED
  BY <1>2, <1>3, <1>4, <1>5 DEF PollInv

(* Everyone behind the packet taken out moves up by one, and one more is   *)
(* done.                                                                   *)
LEMMA DrainPacketStep == IInv /\ PollInv /\ DrainPacket => PollInv'
<1> SUFFICES ASSUME IInv, PollInv, DrainPacket PROVE PollInv'
  OBVIOUS
<1>1. /\ pc = "drain" /\ drained < DrainPerRound /\ drained' = drained + 1
      /\ UNCHANGED <<pc, now, round, arrived>>
  BY DEF DrainPacket, More
<1>2. /\ depth \in Nat /\ depth > 0 /\ depth' = depth - 1
      /\ UNCHANGED <<slots, filled, reserved>> /\ out' = slots[tail]
      /\ tail' = Advance(tail)
  BY DepthAssumption DEF DrainPacket, Dequeue, IInv, TypeOK
<1>3. tail' = IF tail + 1 < Depth THEN tail + 1 ELSE 0
  BY <1>2, AdvanceIsSuccessor DEF IInv, TypeOK
<1>4. \A n \in 1 .. depth - 1 : SlotOf(n)' = SlotOf(n + 1)
  BY <1>2, <1>3, DepthAssumption DEF IInv, TypeOK, SlotOf, Index
<1>5. SlotOf(1) = tail /\ 1 \in 1 .. depth
  BY <1>2, DepthAssumption DEF SlotOf, IInv, TypeOK, Index
<1>6. /\ out' \in Packet /\ Elapsed(out') \in Nat
      /\ Elapsed(out') <= Backlog * MaxGap
  BY <1>2, <1>5, WaitingIsFresh
<1>7. drained \in Nat /\ DrainPerRound \in Nat /\ round \in 0 .. Rounds - 1
  BY BudgetAssumption DEF PollInv, PollTypeOK
<1>8. 0 \in Packet /\ 0 \in 0 .. Timeout
  BY StampAssumption, PollClockAssumption
<1>9. Handled(out')
  BY DEF DrainPacket
<1>10. PollTypeOK'
  <2>1. drained' \in 0 .. DrainPerRound
    BY <1>1, <1>7
  <2>2. locked' \in BOOLEAN /\ lastDisplay' \in Packet /\ silence' \in 0 .. Timeout
    BY <1>6, <1>8, <1>9 DEF PollInv, PollTypeOK, Handled, Unlock, showVars
  <2>3. QED
    BY <1>1, <2>1, <2>2 DEF PollInv, PollTypeOK
<1>11. LoopReset' /\ FillIsFresh'
  BY <1>1, <1>2 DEF PollInv, LoopReset, FillIsFresh
<1>12. RoomLeft'
  BY <1>1, <1>2, <1>7, DepthAssumption DEF PollInv, RoomLeft, Freed
<1>13. AgesBounded'
  <2>1. Done \in Nat /\ Done' = Done + 1
    <3>1. round * DrainPerRound \in Nat
      BY <1>7, BudgetFacts
    <3>2. QED
      BY <1>1, <1>7, <3>1 DEF Done
  <2> SUFFICES ASSUME NEW n \in 1 .. depth - 1, NEW a \in Nat,
                      Elapsed(slots[SlotOf(n + 1)]) > a * MaxGap
               PROVE  n + DrainPerRound + a * Budget + Done' <= Depth
    BY <1>1, <1>2, <1>4 DEF AgesBounded, Elapsed
  <2>2. n + 1 \in 1 .. depth
    BY <1>2
  <2>3. n + 1 + DrainPerRound + a * Budget + Done <= Depth
    BY <2>2 DEF PollInv, AgesBounded
  <2>4. \A x \in Nat : a * x \in Nat
    OBVIOUS
  <2>5. a * Budget \in Nat
    BY <2>4, BudgetFacts
  <2>6. QED
    BY <1>2, <1>7, <2>1, <2>3, <2>5, DepthAssumption
<1>14. ShowInTime'
  <2>1. CASE locked' = TRUE /\ lastDisplay' = out' /\ silence' = 0
    <3>1. Elapsed(lastDisplay)' = Elapsed(out')
      BY <1>1, <2>1 DEF Elapsed
    <3>2. QED
      BY <1>1, <1>6, <2>1, <3>1, BudgetFacts, PollClockAssumption DEF ShowInTime
  <2>2. CASE Unlock
    BY <2>2 DEF Unlock, ShowInTime
  <2>3. CASE UNCHANGED showVars
    BY <1>1, <2>3, SameShow
  <2>4. QED
    BY <1>9, <2>1, <2>2, <2>3 DEF Handled
<1>15. QED
  BY <1>10, <1>11, <1>12, <1>13, <1>14 DEF PollInv

(* Either the round spent its share of the budget or the ring is empty.    *)
LEMMA RoundEndsStep == IInv /\ PollInv /\ RoundEnds => PollInv'
<1> SUFFICES ASSUME IInv, PollInv, RoundEnds PROVE PollInv'
  OBVIOUS
<1>1. /\ pc = "drain" /\ arrived' = 0 /\ drained' = 0
      /\ UNCHANGED <<vars, now, showVars>>
      /\ drained >= DrainPerRound \/ depth = 0
  BY BudgetAssumption DEF RoundEnds, More, PollInv, PollTypeOK
<1>2. \/ LastRound /\ pc' = "end" /\ round' = 0
      \/ ~LastRound /\ pc' = "input" /\ round' = round + 1
  BY DEF RoundEnds
<1>3. drained \in 0 .. DrainPerRound /\ DrainPerRound \in Nat /\ DrainPerRound <= Depth
      /\ round \in 0 .. Rounds - 1 /\ depth \in Nat /\ depth <= Depth /\ MaxInput \in Nat
  BY BudgetAssumption, DepthAssumption DEF PollInv, PollTypeOK, IInv, TypeOK
<1>4. PollTypeOK'
  <2>1. round' \in 0 .. Rounds - 1
    BY <1>2, <1>3, BudgetAssumption DEF LastRound
  <2>2. QED
    BY <1>1, <1>2, <1>3, <2>1 DEF PollInv, PollTypeOK, showVars
<1>5. LoopReset' /\ FillIsFresh'
  BY <1>1, <1>2 DEF PollInv, LoopReset, FillIsFresh, vars
<1>6. RoomLeft'
  BY <1>1, <1>2, <1>3, DepthAssumption DEF PollInv, RoomLeft, Freed, vars
<1>7. AgesBounded'
  <2>1. CASE depth = 0
    <3>1. 1 .. depth' = {}
      BY <1>1, <2>1 DEF vars
    <3>2. QED
      BY <3>1 DEF AgesBounded
  <2>2. CASE depth # 0
    <3>1. drained = DrainPerRound
      BY <1>1, <1>3, <2>2
    <3>2. /\ round * DrainPerRound \in Nat
          /\ (round + 1) * DrainPerRound = round * DrainPerRound + DrainPerRound
      BY <1>3, BudgetFacts
    <3>3. Done = round * DrainPerRound + DrainPerRound
      BY <1>1, <3>1 DEF Done
    <3>4. Done' = Done
      <4>1. CASE LastRound
        <5>1. round + 1 = Rounds
          BY <2>2, <4>1 DEF LastRound
        <5>2. Done' = Budget
          BY <1>2, <4>1 DEF Done
        <5>3. QED
          BY <3>2, <3>3, <5>1, <5>2 DEF Budget
      <4>2. CASE ~LastRound
        <5>1. Done' = (round + 1) * DrainPerRound + 0
          BY <1>1, <1>2, <4>2 DEF Done
        <5>2. QED
          BY <1>3, <3>2, <3>3, <5>1
      <4>3. QED
        BY <4>1, <4>2
    <3>5. QED
      BY <1>1, <3>4, SameAges DEF vars
  <2>3. QED
    BY <2>1, <2>2
<1>8. ShowInTime'
  BY <1>1, <1>2, SameShow
<1>9. QED
  BY <1>4, <1>5, <1>6, <1>7, <1>8 DEF PollInv

LEMMA PollEndStep == IInv /\ PollInv /\ PollEnd => PollInv'
<1> SUFFICES ASSUME IInv, PollInv, PollEnd PROVE PollInv'
  OBVIOUS
<1>1. /\ pc = "end" /\ pc' = "idle"
      /\ UNCHANGED <<vars, now, round, arrived, drained>>
      /\ IF locked /\ Elapsed(lastDisplay) >= Timeout THEN Unlock ELSE UNCHANGED showVars
  BY DEF PollEnd
<1>2. 0 \in Packet /\ 0 \in 0 .. Timeout
  BY StampAssumption, PollClockAssumption
<1>3. PollTypeOK'
  BY <1>1, <1>2 DEF PollInv, PollTypeOK, Unlock, showVars
<1>4. LoopReset' /\ FillIsFresh' /\ RoomLeft'
  BY <1>1 DEF PollInv, LoopReset, FillIsFresh, RoomLeft, Freed, vars
<1>5. AgesBounded'
  BY <1>1, SameAges DEF Done, vars
<1>6. ShowInTime'
  <2>1. CASE locked /\ Elapsed(lastDisplay) >= Timeout
    BY <1>1, <2>1 DEF Unlock, ShowInTime
  <2>2. CASE locked /\ ~(Elapsed(lastDisplay) >= Timeout)
    <3>1. Elapsed(lastDisplay) \in Nat /\ Timeout \in Nat
      BY ElapsedInRange, PollClockAssumption DEF PollInv, PollTypeOK
    <3>2. Elapsed(lastDisplay)' = Elapsed(lastDisplay)
      BY <1>1, <2>2 DEF showVars, Elapsed
    <3>3. QED
      BY <1>1, <2>2, <3>1, <3>2 DEF PollInv, ShowInTime, showVars
  <2>3. CASE ~locked
    BY <1>1, <2>3 DEF ShowInTime, showVars
  <2>4. QED
    BY <2>1, <2>2, <2>3
<1>7. QED
  BY <1>3, <1>4, <1>5, <1>6 DEF PollInv

LEMMA PollNextPreserves == IInv /\ PollInv /\ [PollNext]_pollVars => PollInv'
<1> SUFFICES ASSUME IInv, PollInv, [PollNext]_pollVars PROVE PollInv'
  OBVIOUS
<1>1. CASE UNCHANGED pollVars
  BY <1>1 DEF pollVars, vars, loopVars, showVars, PollInv, PollTypeOK, LoopReset, FillIsFresh,
              RoomLeft, Freed, AgesBounded, ShowInTime, Elapsed, SlotOf, Done
<1>2. QED
  BY <1>1, PollStartStep, ReceiveUdpStep, OversizedStep, CopyPayloadStep, CommitPacketStep,
     InputEndsStep, DrainPacketStep, RoundEndsStep, PollEndStep DEF PollNext

THEOREM PollInvariant == PollSpec => [](IInv /\ PollInv)
BY PollUsesRing, Invariant, PollInitEstablishes, PollNextPreserves, PTL DEF PollSpec

(* The variables of the poll loop keep their types.                        *)
THEOREM PollTypeCorrect == PollSpec => []PollTypeOK
<1>1. PollInv => PollTypeOK
  BY DEF PollInv
<1>2. QED
  BY <1>1, PollInvariant, PTL

(* A datagram is handled within Backlog polls of its arrival, and a        *)
(* blackout is late or early by no more than that.                         *)
THEOREM BacklogIsTimelyHolds == PollSpec => BacklogIsTimely
<1>1. ASSUME IInv, PollInv, PollNext
      PROVE  StampIsFresh
  <2> SUFFICES ASSUME pc = "drain", pc' = "drain"
               PROVE  Elapsed(out') <= Backlog * MaxGap
    BY DEF StampIsFresh
  <2>1. DrainPacket
    BY <1>1 DEF PollNext, PollStart, ReceiveUdp, Oversized, CopyPayload, CommitPacket, Arrives,
                InputEnds, RoundEnds, PollEnd
  <2>2. depth \in Nat /\ depth # 0 /\ out' = slots[tail]
    BY <1>1, <2>1, DepthAssumption DEF DrainPacket, Dequeue, IInv, TypeOK
  <2>3. SlotOf(1) = tail /\ 1 \in 1 .. depth
    BY <1>1, <2>2, DepthAssumption DEF SlotOf, IInv, TypeOK, Index
  <2>4. QED
    BY <1>1, <2>2, <2>3, WaitingIsFresh
<1>2. ASSUME IInv, PollInv, PollNext
      PROVE  BlackoutNearTimeout
  <2> SUFFICES ASSUME pc = "end"
               PROVE  /\ locked' => silence < Timeout
                      /\ locked /\ ~locked' => silence >= Timeout - Backlog * MaxGap
    BY DEF BlackoutNearTimeout
  <2>1. PollEnd
    BY <1>2 DEF PollNext, PollStart, ReceiveUdp, Oversized, CopyPayload, CommitPacket, Arrives,
                InputEnds, DrainPacket, RoundEnds
  <2>2. /\ silence \in Nat /\ silence <= Timeout /\ Timeout \in Nat /\ Elapsed(lastDisplay) \in Nat
        /\ Backlog * MaxGap \in Nat
    BY <1>2, PollClockAssumption, BudgetFacts, ElapsedInRange DEF PollInv, PollTypeOK
  <2>3. locked => /\ silence <= Elapsed(lastDisplay)
                  /\ silence < Timeout => Elapsed(lastDisplay) <= silence + Backlog * MaxGap
    BY <1>2 DEF PollInv, ShowInTime
  <2>4. CASE locked /\ Elapsed(lastDisplay) >= Timeout
    <3>1. ~locked'
      BY <2>1, <2>4 DEF PollEnd, Unlock
    <3>2. silence >= Timeout - Backlog * MaxGap
      BY <2>2, <2>3, <2>4
    <3>3. QED
      BY <3>1, <3>2
  <2>5. CASE ~(locked /\ Elapsed(lastDisplay) >= Timeout)
    <3>1. locked' = locked
      BY <2>1, <2>5 DEF PollEnd, showVars
    <3>2. locked => silence < Timeout
      BY <2>2, <2>3, <2>5
    <3>3. QED
      BY <3>1, <3>2
  <2>6. QED
    BY <2>4, <2>5
<1>3. IInv /\ PollInv /\ [PollNext]_pollVars => [StampIsFresh /\ BlackoutNearTimeout]_pollVars
  BY <1>1, <1>2
<1>4. QED
  BY <1>3, PollInvariant, PTL DEF PollSpec, BacklogIsTimely

====
