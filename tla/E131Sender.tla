---- MODULE E131Sender ----
(***************************************************************************)
(* ps/tools/e131_send.py: the host program that sends sweeps of E1.31      *)
(* packets to the board at a given rate.  One sweep carries every pixel of *)
(* a frame, one universe per packet, and may end with a sync packet.       *)
(*                                                                         *)
(* The command line is the variable args, chosen once; the clock moves in  *)
(* whole ticks and may move between any two statements.  A packet is kept  *)
(* with the fields the board looks at and, in place of its colours, the    *)
(* pixels it carries and the number of its frame.  The packet's constant   *)
(* bytes are its kind.  The wire only takes packets away here; what the    *)
(* board makes of them is SenderToBoard's.                                 *)
(***************************************************************************)
EXTENDS Integers, Sequences

CONSTANTS Args,          \* the command lines: records of CommandLine
          Slots,         \* pl_config.E131_SLOTS_PER_UNIVERSE
          FirstUniverse, \* --first-universe, as the board is configured
          DefaultSync,   \* pl_config.E131_DEFAULT_SYNC_ADDRESS
          SequenceMod,   \* sequence numbers are one byte: 256
          MaxTime,       \* bound: last tick of the clock
          MaxFrames      \* bound: frames of a run that has no end of its own

(* outputs, pixels_per_output: the strands; universe_count, packet_count,  *)
(* duration and sync_address are 0 when not given; delay is 1 / --rate in  *)
(* ticks, 0 for no pacing.                                                 *)
CommandLine == [outputs : Nat, pixels_per_output : Nat, universe_count : Nat,
                packet_count : Nat, duration : Nat, delay : Nat,
                send_sync : BOOLEAN, sync_address : Nat,
                preview : BOOLEAN, stream_terminate : BOOLEAN]

ASSUME ArgsAssumption == Args \subseteq CommandLine
ASSUME SlotsAssumption == Slots \in Nat \ {0} /\ Slots % 3 = 0
ASSUME UniverseAssumption == FirstUniverse \in Nat
ASSUME SyncAssumption == DefaultSync \in Nat \ {0}
ASSUME SeqAssumption == SequenceMod \in Nat \ {0}
ASSUME BoundAssumption == MaxTime \in Nat /\ MaxFrames \in Nat

VARIABLES args,          \* the command line
          pc,            \* where main is
          now,           \* time.monotonic() - start
          next_frame_time,
          wake,          \* when the current sleep ends
          frame, offset, sequence, sync_sequence, packets_sent,
          wire,          \* packets sent and not yet arrived or lost
          onWire,        \* history: packets given to the socket
          covered        \* history: pixels sent in the current sweep, in order

counters == <<sequence, sync_sequence, packets_sent>>
timeVars == <<next_frame_time, wake>>
senderVars == <<args, pc, now, timeVars, frame, offset, counters, onWire, covered>>
vars == <<senderVars, wire>>

Steps == {"check", "sweep", "count", "sync", "countSync", "pace", "sleep", "done"}

----
(* What main computes from the command line.                               *)
TotalPixels == args.outputs * args.pixels_per_output
TotalSlots == TotalPixels * 3
CeilDiv(a, b) == (a + b - 1) \div b

UniverseCount == IF args.universe_count = 0 THEN CeilDiv(TotalSlots, Slots)
                                            ELSE args.universe_count

SyncAddress == IF args.send_sync /\ args.sync_address = 0 THEN DefaultSync
                                                          ELSE args.sync_address

FirstSlot(o) == o * Slots
Smaller(a, b) == IF a < b THEN a ELSE b
Larger(a, b) == IF a > b THEN a ELSE b

(* Defective variant: the last universe is sent full.                      *)
BadSlotCount(o) == IF FirstSlot(o) < TotalSlots THEN Slots ELSE 0

SlotCount(o) == Smaller(Slots, Larger(0, TotalSlots - FirstSlot(o)))

(* build_slots: every third slot starts a pixel.                           *)
PixelsFrom(first, count) == [i \in 1 .. CeilDiv(count, 3) |-> (first + 3 * (i - 1)) \div 3]

(* build_packet and build_sync_packet.                                     *)
DataPacket(o) == [kind |-> "data", length |-> 126 + SlotCount(o),
                  prop_count |-> SlotCount(o) + 1, universe |-> FirstUniverse + o,
                  sequence |-> sequence, sync_address |-> SyncAddress,
                  preview |-> args.preview, terminated |-> args.stream_terminate,
                  frame |-> frame]

SyncPacket == [kind |-> "sync", length |-> 49, sequence |-> sync_sequence,
               sync_address |-> SyncAddress, frame |-> frame]

(* rgb_for_pixel; the 64-grey of a bar or of white is as good as any.      *)
Patterns == {"red", "green", "blue", "white", "bars", "chase", "gradient"}
Bars == << <<255, 0, 0>>, <<0, 255, 0>>, <<0, 0, 255>>, <<64, 64, 64>> >>

Phase(index, output, f) == (index + f + output * 64) % 256

Chase(index, output, f) == IF (index + f * 4 + output * 32) % 128 < 16
                           THEN <<255, 128, 16>> ELSE <<0, 0, 0>>

Gradient(index, output, f) == <<Phase(index, output, f), 255 - Phase(index, output, f),
                                (f + output * 32) % 256>>

RgbForPixel(pattern, pixel, f) ==
    LET output == pixel \div args.pixels_per_output
        index == pixel % args.pixels_per_output
    IN  [red |-> Bars[1], green |-> Bars[2], blue |-> Bars[3], white |-> Bars[4],
         bars |-> Bars[(output % 4) + 1], chase |-> Chase(index, output, f),
         gradient |-> Gradient(index, output, f)][pattern]

----
(* e131_parser.c and the slot-count test of e131_receiver.c, on a board    *)
(* configured for the same pixels.                                         *)
ExpectedUniverses == (TotalSlots + Slots - 1) \div Slots
ExpectedSlots(o) == LET remaining == TotalSlots - o * Slots
                    IN  IF remaining > Slots THEN Slots ELSE remaining

ParsesAsData(p) == /\ p.kind = "data"
                   /\ p.length >= 126
                   /\ p.prop_count >= 1 /\ p.prop_count <= Slots + 1
                   /\ 126 + p.prop_count - 1 <= p.length
                   /\ p.universe >= FirstUniverse
                   /\ (p.universe - FirstUniverse) * Slots < TotalSlots
                   /\ (p.prop_count - 1) % 3 = 0

ParsesAsSync(p) == p.kind = "sync" /\ p.length >= 49

SlotsExpected(p) == /\ p.universe - FirstUniverse < ExpectedUniverses
                    /\ p.prop_count - 1 = ExpectedSlots(p.universe - FirstUniverse)

----
NextNumber(n) == (n + 1) % SequenceMod

Init == /\ args \in Args
        /\ pc = "check" /\ now = 0 /\ next_frame_time = 0 /\ wake = 0
        /\ frame = 0 /\ offset = 0
        /\ sequence = 0 /\ sync_sequence = 0 /\ packets_sent = 0
        /\ wire = <<>> /\ onWire = 0 /\ covered = <<>>

MoreFrames(f) == args.packet_count = 0 \/ f < args.packet_count
(* Defective variant: the schedule is compared in place of the clock.      *)
BadMoreTime == args.duration = 0 \/ next_frame_time < args.duration

MoreTime == args.duration = 0 \/ now < args.duration

(* The while condition.                                                    *)
StartSweep == /\ pc = "check"
              /\ frame < MaxFrames
              /\ MoreFrames(frame) /\ MoreTime
              /\ pc' = "sweep" /\ offset' = 0 /\ covered' = <<>>
              /\ UNCHANGED <<args, now, timeVars, frame, counters, wire, onWire>>

Finish == /\ pc = "check"
          /\ ~(MoreFrames(frame) /\ MoreTime)
          /\ pc' = "done"
          /\ UNCHANGED <<args, now, timeVars, frame, offset, counters, wire, onWire, covered>>

InSweep == offset < UniverseCount /\ SlotCount(offset) > 0

(* sendto of one universe; the counters follow in statements of their own. *)
SendData == /\ pc = "sweep" /\ InSweep
            /\ wire' = Append(wire, DataPacket(offset))
            /\ onWire' = onWire + 1
            /\ covered' = covered \o PixelsFrom(FirstSlot(offset), SlotCount(offset))
            /\ pc' = "count"
            /\ UNCHANGED <<args, now, timeVars, frame, offset, counters>>

CountData == /\ pc = "count"
             /\ packets_sent' = packets_sent + 1
             /\ sequence' = NextNumber(sequence)
             /\ offset' = offset + 1
             /\ pc' = "sweep"
             /\ UNCHANGED <<args, now, timeVars, frame, sync_sequence, wire, onWire, covered>>

(* The for loop runs out of universes or breaks for want of slots.         *)
EndSweep == /\ pc = "sweep" /\ ~InSweep
            /\ pc' = IF args.send_sync THEN "sync" ELSE "pace"
            /\ UNCHANGED <<args, now, timeVars, frame, offset, counters, wire, onWire, covered>>

SendSync == /\ pc = "sync"
            /\ wire' = Append(wire, SyncPacket)
            /\ onWire' = onWire + 1
            /\ pc' = "countSync"
            /\ UNCHANGED <<args, now, timeVars, frame, offset, counters, covered>>

CountSync == /\ pc = "countSync"
             /\ packets_sent' = packets_sent + 1
             /\ sync_sequence' = NextNumber(sync_sequence)
             /\ pc' = "pace"
             /\ UNCHANGED <<args, now, timeVars, frame, offset, sequence, wire, onWire, covered>>

(* Frames are due at fixed times, however late this one was.               *)
NextDue == next_frame_time

SleepUntil(due) == IF args.duration > 0 /\ args.duration < due THEN args.duration ELSE due

(* The frame is counted; with a rate, main sleeps until the next is due or *)
(* the run is over.                                                        *)
Pace == /\ pc = "pace"
        /\ frame' = frame + 1
        /\ IF args.delay > 0 /\ MoreFrames(frame + 1) /\ MoreTime
           THEN /\ next_frame_time' = NextDue + args.delay
                /\ wake' = SleepUntil(NextDue + args.delay)
                /\ pc' = IF wake' > now THEN "sleep" ELSE "check"
           ELSE pc' = "check" /\ UNCHANGED timeVars
        /\ UNCHANGED <<args, now, offset, counters, wire, onWire, covered>>

Wake == /\ pc = "sleep" /\ now >= wake
        /\ pc' = "check"
        /\ UNCHANGED <<args, now, timeVars, frame, offset, counters, wire, onWire, covered>>

(* Ctrl+C: the result is printed from the counters as they are.            *)
Interrupt == /\ pc # "done"
             /\ pc' = "done"
             /\ UNCHANGED <<args, now, timeVars, frame, offset, counters, wire, onWire, covered>>

Tick == /\ now < MaxTime
        /\ now' = now + 1
        /\ UNCHANGED <<args, pc, timeVars, frame, offset, counters, wire, onWire, covered>>

(* A packet leaves the wire; SenderToBoard says what else may happen to it. *)
Carry == /\ wire # <<>> /\ wire' = Tail(wire)
         /\ UNCHANGED senderVars

Main == StartSweep \/ Finish \/ SendData \/ CountData \/ EndSweep
           \/ SendSync \/ CountSync \/ Pace \/ Wake

Next == Main \/ Interrupt \/ Tick \/ Carry

(* The interpreter runs main and time passes.                              *)
Fairness == WF_vars(Main) /\ WF_vars(Tick)

Spec == Init /\ [][Next]_vars /\ Fairness

----
DataPackets == [kind : {"data"}, length : Nat, prop_count : Nat, universe : Nat,
                sequence : 0 .. SequenceMod - 1, sync_address : Nat,
                preview : BOOLEAN, terminated : BOOLEAN, frame : Nat]
SyncPackets == [kind : {"sync"}, length : {49}, sequence : 0 .. SequenceMod - 1,
                sync_address : Nat, frame : Nat]

(* The type invariant of main's local variables.                           *)
TypeOK == /\ args \in Args
          /\ pc \in Steps
          /\ now \in Nat /\ next_frame_time \in Nat /\ wake \in Nat
          /\ frame \in Nat /\ offset \in Nat
          /\ sequence \in 0 .. SequenceMod - 1 /\ sync_sequence \in 0 .. SequenceMod - 1
          /\ packets_sent \in Nat /\ onWire \in Nat
          /\ wire \in Seq(DataPackets \cup SyncPackets)

(* Whatever the strands, the universe count and the options, every packet  *)
(* passes the parser of a board configured for the same pixels, and every  *)
(* data packet has the slot count the board expects of its universe: the   *)
(* sender's ceil and min agree with the board's integer arithmetic.        *)
PacketsAccepted == \A i \in DOMAIN wire :
                      \/ ParsesAsSync(wire[i])
                      \/ ParsesAsData(wire[i]) /\ SlotsExpected(wire[i])

(* A sweep whose universe count was derived carries every pixel of the     *)
(* frame exactly once, in order, when its sync packet or its pause comes.  *)
SweepCoversFrame == pc \in {"sync", "countSync", "pace"} /\ args.universe_count = 0
                       => covered = [i \in 1 .. TotalPixels |-> i - 1]

(* Every colour is three bytes: bytearray refuses anything else and the    *)
(* sender would stop in the middle of a sweep, at a pixel or frame number  *)
(* nobody tried.                                                           *)
ColoursAreBytes == \A pattern \in Patterns, pixel \in 0 .. TotalPixels - 1 :
                      RgbForPixel(pattern, pixel, frame) \in (0 .. 255) \X (0 .. 255) \X (0 .. 255)

(* The printed packets_sent is what was sent; only an interrupt between    *)
(* sendto and the count leaves one packet out.                             *)
CountsPackets == /\ packets_sent <= onWire /\ onWire <= packets_sent + 1
                 /\ pc \in Steps \ {"count", "countSync", "done"} => packets_sent = onWire

(* What goes out is what a board of the same size accepts, one sweep is    *)
(* one frame, colours are bytes, and the printed count is right.           *)
PacketsAreRight == TypeOK /\ PacketsAccepted /\ SweepCoversFrame /\ ColoursAreBytes /\ CountsPackets

(* No sweep starts before its time: frame n is never sent earlier than n   *)
(* delays after the start, however long the sweeps before it took.         *)
NeverEarly == [][pc = "check" /\ pc' = "sweep" => now >= frame * args.delay]_vars

(* Time lost is made up: when main goes to sleep the schedule of the start *)
(* still holds, it sleeps to the frame's own due time or to the end.       *)
KeepsSchedule ==
    pc = "sleep" => \/ wake = frame * args.delay
                    \/ wake = args.duration /\ args.duration > 0

(* A run with a number of frames or a duration ends.                       *)
Finishes == args.packet_count > 0 \/ args.duration > 0 ~> pc = "done"
====
