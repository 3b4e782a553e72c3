---------------------------- MODULE EthernetPoll ----------------------------
(***************************************************************************)
(* ethernet_receiver_poll of ps/app/ethernet_receiver.c: each poll reads   *)
(* the clock once and goes through a few rounds, in each of which lwIP     *)
(* hands over datagrams, which the receive callback stamps with the poll's *)
(* time and puts into the ring, and a limited number is taken out and      *)
(* handled.  What the budget leaves in the ring is handled in a later poll *)
(* with the stamp it has.                                                  *)
(*                                                                         *)
(* Of e131_receiver.c only its timing is here: the time stamp of the last  *)
(* packet that showed a frame or took the lock, and the blackout at the    *)
(* end of the poll.  E131Receiver has the rest, with fresh stamps.         *)
(***************************************************************************)
EXTENDS RxPacketRing

CONSTANTS Rounds,        \* RX_INPUT_ROUNDS_PER_POLL
          DrainPerRound, \* RX_DRAIN_PER_INPUT_ROUND
          Timeout,       \* DONDER_E131_BLACKOUT_TIMEOUT_MS
          MaxGap,        \* longest time between the starts of two polls
          ClockMod,      \* the millisecond clock is a uint32_t
          MaxInput       \* bound: datagrams one call of xemacif_input hands over

(* The least number of polls whose budgets, after the round in which a     *)
(* datagram came in, take a full ring out.                                 *)
Budget == Rounds * DrainPerRound
Backlog == (Depth - DrainPerRound + Budget - 1) \div Budget

(* A datagram is its time stamp.                                           *)
ASSUME StampAssumption == Packet = 0 .. ClockMod - 1
ASSUME BudgetAssumption == /\ Rounds \in Nat \ {0} /\ DrainPerRound \in 1 .. Depth
                           /\ MaxInput \in Nat
ASSUME PollClockAssumption == /\ Timeout \in Nat /\ MaxGap \in Nat /\ ClockMod \in Nat
                              /\ Timeout + MaxGap < ClockMod /\ Backlog * MaxGap < Timeout

(* The loop's locals are reset where their scope ends.                     *)
VARIABLES pc,           \* where the poll is
          now,          \* g_poll_now_ms
          round,        \* round
          arrived,      \* g_input_packets_this_call
          drained,      \* round_drained
          locked,       \* g_status.source_locked
          lastDisplay,  \* g_last_display_ms
          silence       \* history: time since a frame was shown or the lock taken, up to
                        \* Timeout; 0 without a lock

loopVars == <<pc, now, round, arrived, drained>>
showVars == <<locked, lastDisplay, silence>>
pollVars == <<vars, loopVars, showVars>>

Elapsed(then) == (now + ClockMod - then) % ClockMod
AtMostTimeout(age) == IF age > Timeout THEN Timeout ELSE age

PollInit == /\ Init
            /\ pc = "idle" /\ now = 0 /\ round = 0 /\ arrived = 0 /\ drained = 0
            /\ locked = FALSE /\ lastDisplay = 0 /\ silence = 0

PollStart == /\ pc = "idle"
             /\ \E gap \in 0 .. MaxGap :
                   /\ now' = (now + gap) % ClockMod
                   /\ silence' = IF locked THEN AtMostTimeout(silence + gap) ELSE 0
             /\ pc' = "input"
             /\ UNCHANGED <<vars, round, arrived, drained, locked, lastDisplay>>

----
(* receive_udp, called from xemacif_input for each datagram: a slot or a   *)
(* counted drop, the copy, the commit.                                     *)
Arrives == pc = "input" /\ reserved = NoSlot /\ arrived < MaxInput /\ arrived' = arrived + 1

ReceiveUdp == Arrives /\ Reserve /\ UNCHANGED <<pc, now, round, drained, showVars>>

Oversized == Arrives /\ UNCHANGED <<vars, pc, now, round, drained, showVars>>

CopyPayload == pc = "input" /\ Fill(now) /\ UNCHANGED <<loopVars, showVars>>

CommitPacket == pc = "input" /\ CommitReserved /\ UNCHANGED <<loopVars, showVars>>

(* xemacif_input returns, which it does at any time.                       *)
InputEnds == /\ pc = "input" /\ reserved = NoSlot
             /\ pc' = "drain"
             /\ UNCHANGED <<vars, now, round, arrived, drained, showVars>>

----
(* e131_receiver_handle_packet with the packet's own time stamp: a frame   *)
(* is shown or the lock taken, the stream ends, or nothing happens that    *)
(* concerns the time.  Without a lock nobody reads lastDisplay, and the    *)
(* next lock sets it.                                                      *)
Unlock == locked' = FALSE /\ silence' = 0 /\ lastDisplay' = 0

Handled(stamp) == \/ locked' = TRUE /\ lastDisplay' = stamp /\ silence' = 0
                  \/ Unlock
                  \/ UNCHANGED showVars

More == drained < DrainPerRound /\ depth # 0

DrainPacket == /\ pc = "drain" /\ More
               /\ Dequeue
               /\ Handled(out')
               /\ drained' = drained + 1
               /\ UNCHANGED <<pc, now, round, arrived>>

(* Defective variant: the poll is over as soon as nothing new arrives.     *)
BadLastRound == arrived = 0 \/ round + 1 = Rounds

LastRound == (arrived = 0 /\ depth = 0) \/ round + 1 = Rounds

RoundEnds == /\ pc = "drain" /\ ~More
             /\ IF LastRound THEN pc' = "end" /\ round' = 0
                             ELSE pc' = "input" /\ round' = round + 1
             /\ arrived' = 0 /\ drained' = 0
             /\ UNCHANGED <<vars, now, showVars>>

(* e131_receiver_poll with the poll's time.                                *)
PollEnd == /\ pc = "end"
           /\ pc' = "idle"
           /\ IF locked /\ Elapsed(lastDisplay) >= Timeout THEN Unlock ELSE UNCHANGED showVars
           /\ UNCHANGED <<vars, now, round, arrived, drained>>

PollNext == \/ PollStart \/ ReceiveUdp \/ Oversized \/ CopyPayload \/ CommitPacket \/ InputEnds
            \/ DrainPacket \/ RoundEnds \/ PollEnd

PollSpec == PollInit /\ [][PollNext]_pollVars

----
(* The type invariant of the poll's variables.                             *)
PollTypeOK == /\ pc \in {"idle", "input", "drain", "end"}
              /\ now \in Packet /\ round \in 0 .. Rounds - 1
              /\ arrived \in 0 .. MaxInput /\ drained \in 0 .. DrainPerRound
              /\ locked \in BOOLEAN /\ lastDisplay \in Packet /\ silence \in 0 .. Timeout

(* The ring may be full and the network keep it so: the datagram handled   *)
(* next is not older than Backlog polls.                                   *)
StampIsFresh == pc = "drain" /\ pc' = "drain" => Elapsed(out') <= Backlog * MaxGap

(* A blackout comes no later than the timeout, because stamps are never    *)
(* late, and earlier by no more than the age of a stamp.                   *)
BlackoutNearTimeout ==
    pc = "end" => /\ locked' => silence < Timeout
                  /\ locked /\ ~locked' => silence >= Timeout - Backlog * MaxGap

(* What a backlog in the ring means for time: however the network fills    *)
(* the ring, a datagram is handled within Backlog polls (2 in the program) *)
(* and a frame that was shown with an old stamp is not blacked out earlier *)
(* than its age explains, nor silence left lit longer.                     *)
BacklogIsTimely == [][StampIsFresh /\ BlackoutNearTimeout]_pollVars
=============================================================================
