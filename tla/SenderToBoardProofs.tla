---- MODULE SenderToBoardProofs ----
(***************************************************************************)
(* Proofs about E131Sender and SenderToBoard.  The sender alone: for every *)
(* command line, size of a universe and length of a run the packets are    *)
(* what a board of the same size accepts, a sweep is the whole frame, and  *)
(* the schedule does not drift.  With the network and the board, for every *)
(* number of faults: nothing is shown that was not received for it, a      *)
(* healthy network shows whole sweeps, and sync packets confine a loss to  *)
(* the sweep it happened in.                                               *)
(***************************************************************************)
EXTENDS SenderToBoard, SequenceTheorems, FiniteSetTheorems, TLAPS

Assumptions == Slots \in Nat \ {0} /\ Slots % 3 = 0 /\ FirstUniverse \in Nat
                  /\ DefaultSync \in Nat /\ SequenceMod \in Nat \ {0} /\ Args \subseteq CommandLine

LEMMA Constants == Assumptions
BY ArgsAssumption, SlotsAssumption, UniverseAssumption, SyncAssumption, SeqAssumption DEF Assumptions

(* Universes are whole pixels, and so is the frame.                        *)
PerUniverse == Slots \div 3
From(o) == o * PerUniverse
Carried(o) == Smaller(PerUniverse, Larger(0, TotalPixels - From(o)))

LEMMA PerUniverseType == PerUniverse \in Nat \ {0} /\ Slots = 3 * PerUniverse
<1>1. Slots \in Nat \ {0} /\ Slots % 3 = 0
    BY SlotsAssumption
<1>2. \A s \in Nat \ {0} : s % 3 = 0 => s \div 3 \in Nat \ {0} /\ s = 3 * (s \div 3)
    OBVIOUS
<1> QED
    BY <1>1, <1>2 DEF PerUniverse

LEMMA Commands ==
    ASSUME args \in Args
    PROVE  /\ args.outputs \in Nat /\ args.pixels_per_output \in Nat /\ args.universe_count \in Nat
           /\ args.packet_count \in Nat /\ args.duration \in Nat /\ args.delay \in Nat
           /\ args.send_sync \in BOOLEAN /\ args.sync_address \in Nat
           /\ args.preview \in BOOLEAN /\ args.stream_terminate \in BOOLEAN
           /\ TotalPixels \in Nat /\ TotalSlots = 3 * TotalPixels /\ SyncAddress \in Nat
<1>1. args \in CommandLine
    BY ArgsAssumption
<1>2. args.outputs \in Nat /\ args.pixels_per_output \in Nat
    BY <1>1 DEF CommandLine
<1>3. TotalPixels \in Nat
    BY <1>2 DEF TotalPixels
<1>4. TotalSlots = 3 * TotalPixels
    BY <1>3 DEF TotalSlots
<1>5. SyncAddress \in Nat
    BY <1>1, SyncAssumption DEF SyncAddress, CommandLine
<1> QED
    BY <1>1, <1>3, <1>4, <1>5 DEF CommandLine

(* The slots of a universe are those of its pixels.                        *)
LEMMA SlotsOfPixels ==
    ASSUME args \in Args, NEW o \in Nat
    PROVE  /\ From(o) \in Nat /\ From(o + 1) = From(o) + PerUniverse
           /\ Carried(o) \in 0 .. PerUniverse
           /\ FirstSlot(o) = 3 * From(o) /\ SlotCount(o) = 3 * Carried(o)
           /\ Carried(o) > 0 <=> From(o) < TotalPixels
           /\ Carried(o) = PerUniverse \/ From(o) + Carried(o) = TotalPixels \/ Carried(o) = 0
           /\ Carried(o) > 0 => From(o) + Carried(o) <= TotalPixels
<1> DEFINE n == PerUniverse
           x == From(o)
           p == TotalPixels
<1>1. n \in Nat \ {0} /\ Slots = 3 * n /\ p \in Nat /\ TotalSlots = 3 * p
    BY PerUniverseType, Commands
<1>2. x \in Nat /\ From(o + 1) = x + n
    <2>1. \A m \in Nat : o * m \in Nat /\ (o + 1) * m = o * m + m
        OBVIOUS
    <2> QED
        BY <1>1, <2>1 DEF From
<1>3. FirstSlot(o) = 3 * x
    <2>1. \A m \in Nat : o * (3 * m) = 3 * (o * m)
        OBVIOUS
    <2> QED
        BY <1>1, <2>1 DEF FirstSlot, From
<1>4. Carried(o) = Smaller(n, Larger(0, p - x))
    BY DEF Carried
<1>5. SlotCount(o) = Smaller(3 * n, Larger(0, 3 * p - 3 * x))
    BY <1>1, <1>3 DEF SlotCount
<1> HIDE DEF n, x, p
<1>6. Carried(o) \in 0 .. n /\ SlotCount(o) = 3 * Carried(o)
    BY <1>1, <1>2, <1>4, <1>5 DEF Smaller, Larger
<1>7. /\ Carried(o) > 0 <=> x < p
      /\ Carried(o) = n \/ x + Carried(o) = p \/ Carried(o) = 0
      /\ Carried(o) > 0 => x + Carried(o) <= p
    BY <1>1, <1>2, <1>4 DEF Smaller, Larger
<1> QED
    BY <1>2, <1>3, <1>6, <1>7 DEF n, x, p

(* The universes that ceil counts cover the frame, and no fewer do.        *)
LEMMA Ceiling ==
    ASSUME NEW a \in Nat, NEW b \in Nat \ {0}, NEW o \in Nat
    PROVE  CeilDiv(a, b) \in Nat /\ (o < CeilDiv(a, b) <=> o * b < a)
<1> DEFINE q == (a + b - 1) \div b
<1>1. q \in Nat /\ q * b <= a + b - 1 /\ a + b - 1 < (q + 1) * b
    <2>1. a + b - 1 \in Nat
        OBVIOUS
    <2>2. \A c \in Nat : c \div b \in Nat /\ (c \div b) * b <= c /\ c < ((c \div b) + 1) * b
        OBVIOUS
    <2> QED
        BY <2>1, <2>2
<1> HIDE DEF q
<1>2. ASSUME o < q PROVE o * b < a
    <2>1. \A k \in Nat : k + 1 <= q => (k + 1) * b <= q * b
        BY <1>1
    <2>2. (o + 1) * b = o * b + b /\ o * b \in Nat /\ q * b \in Nat
        BY <1>1
    <2> QED
        BY <1>1, <1>2, <2>1, <2>2
<1>3. ASSUME o * b < a PROVE o < q
    <2>1. q <= o => q * b <= o * b
        BY <1>1
    <2>2. (q + 1) * b = q * b + b /\ o * b \in Nat /\ q * b \in Nat
        BY <1>1
    <2> QED
        BY <1>1, <1>3, <2>1, <2>2
<1> QED
    BY <1>1, <1>2, <1>3 DEF q, CeilDiv

----
(* A packet that a board of the same size accepts.                         *)
Accepted(p) == \/ ParsesAsSync(p)
               \/ ParsesAsData(p) /\ SlotsExpected(p)

LEMMA DataAccepted ==
    ASSUME args \in Args, offset \in Nat, InSweep PROVE Accepted(DataPacket(offset))
<1> DEFINE c == Carried(offset)
           x == From(offset)
           n == PerUniverse
           p == TotalPixels
           d == DataPacket(offset)
<1>1. /\ n \in Nat \ {0} /\ Slots = 3 * n /\ p \in Nat /\ TotalSlots = 3 * p
      /\ x \in Nat /\ c \in 0 .. n /\ FirstUniverse \in Nat
    BY PerUniverseType, Commands, SlotsOfPixels, UniverseAssumption
<1>2. FirstSlot(offset) = 3 * x /\ SlotCount(offset) = 3 * c /\ offset * Slots = 3 * x
    BY SlotsOfPixels DEF FirstSlot
<1>3. (c > 0 <=> x < p) /\ (c = n \/ x + c = p \/ c = 0)
    BY SlotsOfPixels
<1>4. /\ d.kind = "data" /\ d.length = 126 + 3 * c /\ d.prop_count = 3 * c + 1
      /\ d.universe = FirstUniverse + offset
    BY <1>2 DEF DataPacket
<1>5. d.universe - FirstUniverse = offset /\ d.universe >= FirstUniverse
    BY <1>1, <1>4
<1>6. SlotCount(offset) > 0
    BY DEF InSweep
<1>7. ExpectedSlots(offset) = (IF 3 * p - 3 * x > 3 * n THEN 3 * n ELSE 3 * p - 3 * x)
    BY <1>1, <1>2 DEF ExpectedSlots
<1>8. offset < ExpectedUniverses <=> 3 * x < 3 * p
    <2>1. ExpectedUniverses = CeilDiv(TotalSlots, Slots)
        BY DEF ExpectedUniverses, CeilDiv
    <2>2. TotalSlots \in Nat /\ Slots \in Nat \ {0}
        BY <1>1
    <2> QED
        BY <1>1, <1>2, <2>1, <2>2, Ceiling
<1>9. c \in Nat \ {0} /\ x < p
    BY <1>1, <1>2, <1>3, <1>6
<1> HIDE DEF c, x, n, p, d
<1>10. SlotsExpected(d)
    <2>1. 3 * c = (IF 3 * p - 3 * x > 3 * n THEN 3 * n ELSE 3 * p - 3 * x)
        <3>1. c = n \/ x + c = p
            BY <1>3, <1>9
        <3>2. c <= n /\ x + c <= p
            BY <1>1, <1>9, SlotsOfPixels DEF c, x, p
        <3> QED
            BY <1>1, <1>9, <3>1, <3>2
    <2>2. d.prop_count - 1 = 3 * c
        BY <1>4, <1>9
    <2> QED
        BY <1>1, <1>5, <1>7, <1>8, <1>9, <2>1, <2>2 DEF SlotsExpected
<1>11. ParsesAsData(d)
    <2>1. d.length >= 126 /\ d.prop_count >= 1 /\ 126 + d.prop_count - 1 <= d.length
        BY <1>4, <1>9
    <2>2. d.prop_count <= Slots + 1
        BY <1>1, <1>4
    <2>3. (d.universe - FirstUniverse) * Slots < TotalSlots
        BY <1>1, <1>2, <1>5, <1>9
    <2>4. (d.prop_count - 1) % 3 = 0
        <3>1. \A k \in Nat : (3 * k) % 3 = 0
            OBVIOUS
        <3>2. d.prop_count - 1 = 3 * c
            BY <1>4, <1>9
        <3> QED
            BY <1>9, <3>1, <3>2
    <2> QED
        BY <1>4, <1>5, <2>1, <2>2, <2>3, <2>4 DEF ParsesAsData
<1> QED
    BY <1>10, <1>11 DEF Accepted, d

LEMMA SyncAccepted == Accepted(SyncPacket)
BY DEF Accepted, SyncPacket, ParsesAsSync

----
(* The first k pixels, in order; and those the first o universes carry.    *)
Prefix(k) == [i \in 1 .. k |-> i - 1]
Progress(o) == Smaller(TotalPixels, From(o))

LEMMA UniverseCarries ==
    ASSUME args \in Args, NEW o \in Nat, SlotCount(o) > 0
    PROVE  /\ PixelsFrom(FirstSlot(o), SlotCount(o)) = [i \in 1 .. Carried(o) |-> From(o) + i - 1]
           /\ Progress(o) = From(o) /\ Progress(o + 1) = From(o) + Carried(o)
           /\ From(o) \in Nat /\ Carried(o) \in Nat
<1>1. /\ From(o) \in Nat /\ Carried(o) \in 0 .. PerUniverse /\ PerUniverse \in Nat
      /\ FirstSlot(o) = 3 * From(o) /\ SlotCount(o) = 3 * Carried(o) /\ TotalPixels \in Nat
    BY SlotsOfPixels, PerUniverseType, Commands
<1>2. Carried(o) > 0
    BY <1>1
<1>3. /\ From(o) < TotalPixels /\ From(o + 1) = From(o) + PerUniverse
      /\ From(o) + Carried(o) <= TotalPixels
      /\ Carried(o) = PerUniverse \/ From(o) + Carried(o) = TotalPixels
    BY <1>2, SlotsOfPixels
<1>4. Progress(o) = From(o) /\ Progress(o + 1) = From(o) + Carried(o)
    BY <1>1, <1>3 DEF Progress, Smaller
<1>5. CeilDiv(3 * Carried(o), 3) = Carried(o)
    <2>1. \A k \in Nat : (3 * k + 3 - 1) \div 3 = k
        OBVIOUS
    <2> QED
        BY <1>1, <2>1 DEF CeilDiv
<1>6. \A i \in 1 .. Carried(o) : (3 * From(o) + 3 * (i - 1)) \div 3 = From(o) + i - 1
    <2>1. \A k \in Nat : (3 * k) \div 3 = k
        OBVIOUS
    <2>2. \A i \in 1 .. Carried(o) : From(o) + i - 1 \in Nat
              /\ 3 * From(o) + 3 * (i - 1) = 3 * (From(o) + i - 1)
        BY <1>1
    <2> QED
        BY <2>1, <2>2
<1>7. PixelsFrom(FirstSlot(o), SlotCount(o)) = [i \in 1 .. Carried(o) |-> From(o) + i - 1]
    BY <1>1, <1>5, <1>6 DEF PixelsFrom
<1> QED
    BY <1>1, <1>4, <1>7

LEMMA PrefixGrows ==
    ASSUME NEW k \in Nat, NEW c \in Nat
    PROVE  Prefix(k) \o [i \in 1 .. c |-> k + i - 1] = Prefix(k + c)
<1> DEFINE b == [i \in 1 .. c |-> k + i - 1]
<1>1. Prefix(k) \in Seq(Int) /\ Len(Prefix(k)) = k
    BY DEF Prefix
<1>2. b \in Seq(Int) /\ Len(b) = c
    OBVIOUS
<1>3. Prefix(k) \o b \in Seq(Int) /\ Len(Prefix(k) \o b) = k + c
    BY <1>1, <1>2
<1>4. Prefix(k + c) \in Seq(Int) /\ Len(Prefix(k + c)) = k + c
    BY DEF Prefix
<1>5. \A i \in 1 .. k + c : (Prefix(k) \o b)[i] = i - 1
    <2> TAKE i \in 1 .. k + c
    <2>1. (Prefix(k) \o b)[i] = IF i <= k THEN Prefix(k)[i] ELSE b[i - k]
        BY <1>1, <1>2
    <2>2. CASE i <= k
        BY <2>1, <2>2 DEF Prefix
    <2>3. CASE i > k
        <3>1. i - k \in 1 .. c /\ k + (i - k) - 1 = i - 1
            BY <2>3
        <3>2. b[i - k] = k + (i - k) - 1
            BY <3>1
        <3>3. ~(i <= k)
            BY <2>3
        <3> QED
            BY <2>1, <3>1, <3>2, <3>3
    <2>4. i <= k \/ i > k
        OBVIOUS
    <2> QED
        BY <2>2, <2>3, <2>4
<1>6. \A i \in 1 .. k + c : Prefix(k + c)[i] = i - 1
    BY DEF Prefix
<1> HIDE DEF b
<1>7. Prefix(k) \o b = Prefix(k + c)
    BY <1>3, <1>4, <1>5, <1>6, SeqEqual
<1> QED
    BY <1>7 DEF b

----
(* The types of the variables, the wire apart.                             *)
Locals == /\ args \in Args /\ pc \in Steps
          /\ now \in Nat /\ next_frame_time \in Nat /\ wake \in Nat
          /\ frame \in Nat /\ offset \in Nat
          /\ sequence \in 0 .. SequenceMod - 1 /\ sync_sequence \in 0 .. SequenceMod - 1
          /\ packets_sent \in Nat /\ onWire \in Nat

Packets == DataPackets \cup SyncPackets
WireOK == wire \in Seq(Packets) /\ \A i \in 1 .. Len(wire) : Accepted(wire[i])

(* The pixels of the universes sent so far.                                *)
Swept == /\ pc = "sweep" => covered = Prefix(Progress(offset))
         /\ pc = "count" => covered = Prefix(Progress(offset + 1))
         /\ SweepCoversFrame

(* The count is one behind between the two statements.                     *)
Counted == /\ pc \in {"count", "countSync"} => onWire = packets_sent + 1
           /\ CountsPackets

(* The schedule is kept until the run is over.                             *)
Due == frame * args.delay
Over == ~(MoreFrames(frame) /\ MoreTime)
Scheduled == /\ pc # "done" => next_frame_time = Due \/ (pc = "check" /\ Over)
             /\ pc = "sleep" => wake = Due \/ (wake = args.duration /\ args.duration > 0)
             /\ pc = "check" => now >= Due \/ Over

IInv == Locals /\ WireOK /\ Swept /\ Counted /\ Scheduled

LEMMA InitInv == Init => IInv
<1> SUFFICES ASSUME Init PROVE IInv
    OBVIOUS
<1>1. Locals
    BY Constants DEF Init, Locals, Steps, Assumptions
<1>2. WireOK
    BY DEF Init, WireOK
<1>3. Swept /\ Counted
    BY DEF Init, Swept, SweepCoversFrame, Counted, CountsPackets, Steps
<1>4. Scheduled
    <2>1. args.delay \in Nat
        BY Commands DEF Init
    <2>2. Due = 0
        BY <2>1 DEF Init, Due
    <2> QED
        BY <2>2 DEF Init, Scheduled
<1> QED
    BY <1>1, <1>2, <1>3, <1>4 DEF IInv

(* The command line does not change, nor what is computed from it.         *)
LEMMA ArgsKept ==
    ASSUME args' = args
    PROVE  /\ \A p : Accepted(p)' <=> Accepted(p)
           /\ TotalPixels' = TotalPixels
           /\ \A o : Progress(o)' = Progress(o)
<1>1. TotalPixels' = TotalPixels /\ TotalSlots' = TotalSlots
    BY DEF TotalPixels, TotalSlots
<1> QED
    BY <1>1 DEF Accepted, ParsesAsSync, ParsesAsData, SlotsExpected, ExpectedUniverses,
                ExpectedSlots, Progress

(* The wire holds acceptable packets whatever happens to it.               *)
LEMMA WireGrows ==
    ASSUME WireOK, args' = args, NEW p \in Packets, Accepted(p), wire' = Append(wire, p)
    PROVE  WireOK'
<1>1. wire' \in Seq(Packets) /\ Len(wire') = Len(wire) + 1 /\ Len(wire) \in Nat
    BY DEF WireOK
<1>2. \A i \in 1 .. Len(wire') : wire'[i] = IF i <= Len(wire) THEN wire[i] ELSE p
    BY <1>1 DEF WireOK
<1>3. \A i \in 1 .. Len(wire') : Accepted(wire'[i])
    <2> TAKE i \in 1 .. Len(wire')
    <2>1. CASE i \in 1 .. Len(wire)
        BY <1>2, <2>1 DEF WireOK
    <2>2. CASE i \notin 1 .. Len(wire)
        BY <1>1, <1>2, <2>2
    <2> QED
        BY <2>1, <2>2
<1> QED
    BY <1>1, <1>3, ArgsKept DEF WireOK

LEMMA WireShrinks ==
    ASSUME WireOK, args' = args, wire # <<>>, wire' = Tail(wire)
    PROVE  WireOK'
<1>1. wire' \in Seq(Packets) /\ Len(wire') = Len(wire) - 1 /\ Len(wire) \in Nat
    BY HeadTailProperties DEF WireOK
<1>2. \A i \in 1 .. Len(wire') : wire'[i] = wire[i + 1] /\ i + 1 \in 1 .. Len(wire)
    BY <1>1, HeadTailProperties DEF WireOK
<1> QED
    BY <1>1, <1>2, ArgsKept DEF WireOK

(* A sequence number is a byte.                                            *)
LEMMA NumberType == \A k \in Nat : NextNumber(k) \in 0 .. SequenceMod - 1
<1>1. \A k \in Nat, m \in Nat \ {0} : (k + 1) % m \in 0 .. m - 1
    OBVIOUS
<1> QED
    BY <1>1, SeqAssumption DEF NextNumber

LEMMA WireKept ==
    ASSUME WireOK, args' = args, wire' = wire PROVE WireOK'
BY ArgsKept DEF WireOK

(* What main puts on the wire.                                             *)
LEMMA DataTyped == ASSUME Locals PROVE DataPacket(offset) \in Packets
<1>1. args \in Args /\ offset \in Nat
    BY DEF Locals
<1>2. SlotCount(offset) \in Nat
    <2>1. /\ Carried(offset) \in 0 .. PerUniverse /\ PerUniverse \in Nat
          /\ SlotCount(offset) = 3 * Carried(offset)
        BY <1>1, SlotsOfPixels, PerUniverseType
    <2>2. Carried(offset) \in Nat /\ SlotCount(offset) = 3 * Carried(offset)
        BY <2>1
    <2>3. \A k \in Nat : 3 * k \in Nat
        OBVIOUS
    <2> QED
        BY <2>2, <2>3
<1>3. 126 + SlotCount(offset) \in Nat /\ SlotCount(offset) + 1 \in Nat
    BY <1>2
<1>4. FirstUniverse + offset \in Nat
    BY <1>1, UniverseAssumption
<1>5. /\ SyncAddress \in Nat /\ args.preview \in BOOLEAN
      /\ args.stream_terminate \in BOOLEAN
    BY <1>1, Commands
<1> QED
    BY <1>3, <1>4, <1>5 DEF Locals, Packets, DataPackets, DataPacket

LEMMA SyncTyped == ASSUME Locals PROVE SyncPacket \in Packets
<1>1. SyncAddress \in Nat
    BY Commands DEF Locals
<1> QED
    BY <1>1 DEF Locals, Packets, SyncPackets, SyncPacket

LEMMA StepInv == IInv /\ [Next]_vars => IInv'
<1> SUFFICES ASSUME IInv, [Next]_vars PROVE IInv'
    OBVIOUS
<1> USE Constants DEF IInv, vars, senderVars, counters, timeVars
<1>0. args' = args
    BY DEF Next, Main, StartSweep, Finish, SendData, CountData, EndSweep, SendSync, CountSync,
           Pace, Wake, Interrupt, Tick, Carry
<1>1. ASSUME StartSweep PROVE IInv'
    <2>1. Locals'
        BY <1>1 DEF Locals, Steps, Assumptions, StartSweep
    <2>2. WireOK'
        BY <1>0, <1>1, WireKept DEF StartSweep
    <2>3. Swept'
        <3>1. From(0) = 0
            BY PerUniverseType DEF From
        <3>2. Progress(0) = 0
            BY <3>1, Commands DEF Progress, Smaller, Locals
        <3>3. Prefix(0) = <<>>
            BY DEF Prefix
        <3>4. covered' = <<>> /\ pc' = "sweep" /\ offset' = 0
            BY <1>1 DEF StartSweep
        <3>5. \A o : Progress(o)' = Progress(o)
            BY <1>0, ArgsKept
        <3>6. Progress(offset)' = Progress(offset')
            BY <3>5
        <3>7. covered' = Prefix(Progress(offset)')
            BY <3>2, <3>3, <3>4, <3>6
        <3> QED
            BY <3>4, <3>7 DEF Swept, SweepCoversFrame, Prefix
    <2>4. Counted'
        BY <1>1 DEF Locals, Counted, CountsPackets, Steps, StartSweep
    <2>5. Scheduled'
        BY <1>0, <1>1 DEF Locals, Scheduled, Due, Over, MoreFrames, MoreTime, StartSweep
    <2> QED
        BY <2>1, <2>2, <2>3, <2>4, <2>5
<1>2. ASSUME Finish PROVE IInv'
    <2>1. Locals'
        BY <1>2 DEF Locals, Steps, Assumptions, Finish
    <2>2. WireOK'
        BY <1>0, <1>2, WireKept DEF Finish
    <2>3. Swept'
        BY <1>0, <1>2, ArgsKept DEF Locals, Swept, SweepCoversFrame, Finish
    <2>4. Counted'
        BY <1>2 DEF Locals, Counted, CountsPackets, Steps, Finish
    <2>5. Scheduled'
        BY <1>0, <1>2 DEF Locals, Scheduled, Due, Over, MoreFrames, MoreTime, Finish
    <2> QED
        BY <2>1, <2>2, <2>3, <2>4, <2>5
<1>3. ASSUME SendData PROVE IInv'
    <2>1. Locals'
        BY <1>3 DEF Locals, Steps, Assumptions, SendData
    <2>2. WireOK'
        <3>1. /\ pc = "sweep" /\ InSweep /\ wire' = Append(wire, DataPacket(offset))
              /\ args \in Args /\ offset \in Nat
            BY <1>3 DEF SendData, Locals
        <3>2. DataPacket(offset) \in Packets
            BY DataTyped
        <3> QED
            BY <1>0, <3>1, <3>2, DataAccepted, WireGrows
    <2>3. Swept'
        <3>1. /\ pc = "sweep" /\ pc' = "count" /\ SlotCount(offset) > 0 /\ offset' = offset
              /\ covered' = covered \o PixelsFrom(FirstSlot(offset), SlotCount(offset))
              /\ args \in Args /\ offset \in Nat
            BY <1>3 DEF SendData, InSweep, Locals
        <3>2. covered = Prefix(Progress(offset))
            BY <3>1 DEF Swept
        <3>3. covered' = Prefix(From(offset) + Carried(offset))
            BY <3>1, <3>2, UniverseCarries, PrefixGrows
        <3>4. covered' = Prefix(Progress(offset + 1))
            BY <3>1, <3>3, UniverseCarries
        <3>5. \A o : Progress(o)' = Progress(o)
            BY <1>0, ArgsKept
        <3>6. Progress(offset + 1)' = Progress(offset' + 1)
            BY <3>5
        <3>7. covered' = Prefix(Progress(offset + 1)')
            BY <3>1, <3>4, <3>6
        <3> QED
            BY <3>1, <3>7 DEF Swept, SweepCoversFrame, Prefix
    <2>4. Counted'
        BY <1>3 DEF Locals, Counted, CountsPackets, Steps, SendData
    <2>5. Scheduled'
        BY <1>0, <1>3 DEF Locals, Scheduled, Due, Over, MoreFrames, MoreTime, SendData
    <2> QED
        BY <2>1, <2>2, <2>3, <2>4, <2>5
<1>4. ASSUME CountData PROVE IInv'
    <2>1. Locals'
        <3>1. NextNumber(sequence) \in 0 .. SequenceMod - 1
            BY NumberType DEF Locals
        <3> QED
            BY <1>4, <3>1 DEF Locals, Steps, CountData
    <2>2. WireOK'
        BY <1>0, <1>4, WireKept DEF CountData
    <2>3. Swept'
        BY <1>0, <1>4, ArgsKept DEF Locals, Swept, SweepCoversFrame, CountData
    <2>4. Counted'
        BY <1>4 DEF Locals, Counted, CountsPackets, Steps, CountData
    <2>5. Scheduled'
        BY <1>0, <1>4 DEF Locals, Scheduled, Due, Over, MoreFrames, MoreTime, CountData
    <2> QED
        BY <2>1, <2>2, <2>3, <2>4, <2>5
<1>5. ASSUME EndSweep PROVE IInv'
    <2>1. Locals'
        BY <1>5 DEF Locals, Steps, Assumptions, EndSweep
    <2>2. WireOK'
        BY <1>0, <1>5, WireKept DEF EndSweep
    <2>3. Swept'
        <3>1. /\ pc = "sweep" /\ ~InSweep /\ pc' \in {"sync", "pace"}
              /\ offset' = offset /\ covered' = covered
              /\ args \in Args /\ offset \in Nat
            BY <1>5 DEF EndSweep, Locals
        <3>2. covered = Prefix(Progress(offset))
            BY <3>1 DEF Swept
        <3>3. ASSUME args.universe_count = 0 PROVE From(offset) >= TotalPixels
            <4>1. /\ TotalPixels \in Nat /\ TotalSlots = 3 * TotalPixels /\ Slots \in Nat \ {0}
                  /\ From(offset) \in Nat /\ offset * Slots = 3 * From(offset)
                  /\ SlotCount(offset) = 3 * Carried(offset) /\ Carried(offset) \in Nat
                  /\ (Carried(offset) > 0 <=> From(offset) < TotalPixels)
                <5>1. FirstSlot(offset) = offset * Slots
                    BY DEF FirstSlot
                <5>2. \A k, m \in Nat : k \in 0 .. m => k \in Nat
                    OBVIOUS
                <5>3. Carried(offset) \in 0 .. PerUniverse /\ PerUniverse \in Nat
                    BY <3>1, SlotsOfPixels, PerUniverseType
                <5>4. Carried(offset) \in Nat
                    BY <5>3
                <5>5. /\ From(offset) \in Nat /\ FirstSlot(offset) = 3 * From(offset)
                      /\ SlotCount(offset) = 3 * Carried(offset)
                      /\ (Carried(offset) > 0 <=> From(offset) < TotalPixels)
                    BY <3>1, SlotsOfPixels
                <5>6. TotalPixels \in Nat /\ TotalSlots = 3 * TotalPixels
                    BY <3>1, Commands
                <5> QED
                    BY <5>1, <5>4, <5>5, <5>6, SlotsAssumption
            <4>2. offset < UniverseCount <=> offset * Slots < TotalSlots
                <5>1. TotalSlots \in Nat
                    BY <4>1
                <5>2. UniverseCount = CeilDiv(TotalSlots, Slots)
                    BY <3>3 DEF UniverseCount
                <5> QED
                    BY <3>1, <4>1, <5>1, <5>2, Ceiling
            <4> QED
                BY <3>1, <4>1, <4>2 DEF InSweep
        <3>4. args.universe_count = 0 => Progress(offset) = TotalPixels
            <4>1. TotalPixels \in Nat /\ From(offset) \in Nat
                BY <3>1, Commands, SlotsOfPixels
            <4>2. From(offset) >= TotalPixels => Progress(offset) = TotalPixels
                BY <4>1 DEF Progress, Smaller
            <4> QED
                BY <3>3, <4>2
        <3>5. args.universe_count = 0 => covered = Prefix(TotalPixels)
            BY <3>2, <3>4
        <3> QED
            BY <1>0, <3>1, <3>5, ArgsKept DEF Swept, SweepCoversFrame, Prefix
    <2>4. Counted'
        BY <1>5 DEF Locals, Counted, CountsPackets, Steps, EndSweep
    <2>5. Scheduled'
        BY <1>0, <1>5 DEF Locals, Scheduled, Due, Over, MoreFrames, MoreTime, EndSweep
    <2> QED
        BY <2>1, <2>2, <2>3, <2>4, <2>5
<1>6. ASSUME SendSync PROVE IInv'
    <2>1. Locals'
        BY <1>6 DEF Locals, Steps, Assumptions, SendSync
    <2>2. WireOK'
        <3>1. wire' = Append(wire, SyncPacket) /\ args \in Args
            BY <1>6 DEF SendSync, Locals
        <3>2. SyncPacket \in Packets
            BY SyncTyped
        <3> QED
            BY <1>0, <3>1, <3>2, SyncAccepted, WireGrows
    <2>3. Swept'
        BY <1>0, <1>6, ArgsKept DEF Locals, Swept, SweepCoversFrame, SendSync
    <2>4. Counted'
        BY <1>6 DEF Locals, Counted, CountsPackets, Steps, SendSync
    <2>5. Scheduled'
        BY <1>0, <1>6 DEF Locals, Scheduled, Due, Over, MoreFrames, MoreTime, SendSync
    <2> QED
        BY <2>1, <2>2, <2>3, <2>4, <2>5
<1>7. ASSUME CountSync PROVE IInv'
    <2>1. Locals'
        <3>1. NextNumber(sync_sequence) \in 0 .. SequenceMod - 1
            BY NumberType DEF Locals
        <3> QED
            BY <1>7, <3>1 DEF Locals, Steps, CountSync
    <2>2. WireOK'
        BY <1>0, <1>7, WireKept DEF CountSync
    <2>3. Swept'
        BY <1>0, <1>7, ArgsKept DEF Locals, Swept, SweepCoversFrame, CountSync
    <2>4. Counted'
        BY <1>7 DEF Locals, Counted, CountsPackets, Steps, CountSync
    <2>5. Scheduled'
        BY <1>0, <1>7 DEF Locals, Scheduled, Due, Over, MoreFrames, MoreTime, CountSync
    <2> QED
        BY <2>1, <2>2, <2>3, <2>4, <2>5
<1>8. ASSUME Pace PROVE IInv'
    <2>1. Locals'
        <3>1. args.delay \in Nat /\ args.duration \in Nat
            BY Commands DEF Locals
        <3>2. next_frame_time' \in Nat /\ wake' \in Nat /\ pc' \in Steps
            BY <1>8, <3>1 DEF Locals, Steps, Pace, NextDue, SleepUntil
        <3> QED
            BY <1>8, <3>2 DEF Locals, Pace
    <2>2. WireOK'
        BY <1>0, <1>8, WireKept DEF Pace
    <2>3. Swept'
        BY <1>0, <1>8, ArgsKept DEF Locals, Swept, SweepCoversFrame, Pace
    <2>4. Counted'
        BY <1>8 DEF Locals, Counted, CountsPackets, Steps, Pace
    <2>5. Scheduled'
        <3>1. args.delay \in Nat /\ args.duration \in Nat /\ frame \in Nat /\ now \in Nat
            BY Commands DEF Locals
        <3>2. Due' = Due + args.delay /\ Due \in Nat
            <4>1. \A k \in Nat : k * args.delay \in Nat
                      /\ (k + 1) * args.delay = k * args.delay + args.delay
                <5>1. \A k, d \in Nat : k * d \in Nat /\ (k + 1) * d = k * d + d
                    OBVIOUS
                <5> QED
                    BY <3>1, <5>1
            <4> QED
                BY <1>0, <1>8, <3>1, <4>1 DEF Pace, Due
        <3>3. next_frame_time = Due /\ pc = "pace"
            BY <1>8 DEF Scheduled, Pace
        <3>4. Over' <=> ~(MoreFrames(frame + 1) /\ MoreTime)
            BY <1>0, <1>8 DEF Pace, Over, MoreFrames, MoreTime
        <3>5. CASE args.delay > 0 /\ MoreFrames(frame + 1) /\ MoreTime
            <4>1. /\ next_frame_time' = Due' /\ wake' = SleepUntil(Due')
                  /\ pc' = IF wake' > now THEN "sleep" ELSE "check"
                  /\ now' = now
                BY <1>8, <3>2, <3>3, <3>5 DEF Pace, NextDue
            <4>2. /\ wake' \in {Due', args.duration} /\ (wake' # Due' => args.duration > 0)
                  /\ (wake' = args.duration => wake' = Due' \/ args.duration > 0)
                BY <4>1 DEF SleepUntil
            <4>3. pc' = "check" => now' >= Due'
                <5>1. MoreTime => args.duration = 0 \/ now < args.duration
                    BY DEF MoreTime
                <5> QED
                    BY <3>1, <3>2, <3>5, <4>1, <4>2, <5>1
            <4> QED
                BY <1>0, <4>1, <4>2, <4>3 DEF Scheduled
        <3>6. CASE ~(args.delay > 0 /\ MoreFrames(frame + 1) /\ MoreTime)
            <4>1. next_frame_time' = next_frame_time /\ pc' = "check" /\ now' = now
                BY <1>8, <3>6 DEF Pace
            <4>2. CASE args.delay > 0
                <5>1. Over'
                    BY <3>4, <3>6, <4>2
                <5> QED
                    BY <4>1, <5>1 DEF Scheduled
            <4>3. CASE ~(args.delay > 0)
                <5>1. args.delay = 0
                    BY <3>1, <4>3
                <5>2. Due = 0
                    BY <3>1, <5>1 DEF Due
                <5>3. Due' = 0 /\ next_frame_time' = 0 /\ now' >= 0
                    BY <3>1, <3>2, <3>3, <4>1, <5>1, <5>2
                <5> QED
                    BY <4>1, <5>3 DEF Scheduled
            <4> QED
                BY <4>2, <4>3
        <3> QED
            BY <3>5, <3>6
    <2> QED
        BY <2>1, <2>2, <2>3, <2>4, <2>5
<1>9. ASSUME Wake PROVE IInv'
    <2>1. Locals'
        BY <1>9 DEF Locals, Steps, Assumptions, Wake
    <2>2. WireOK'
        BY <1>0, <1>9, WireKept DEF Wake
    <2>3. Swept'
        BY <1>0, <1>9, ArgsKept DEF Locals, Swept, SweepCoversFrame, Wake
    <2>4. Counted'
        BY <1>9 DEF Locals, Counted, CountsPackets, Steps, Wake
    <2>5. Scheduled'
        BY <1>0, <1>9 DEF Locals, Scheduled, Due, Over, MoreFrames, MoreTime, Wake
    <2> QED
        BY <2>1, <2>2, <2>3, <2>4, <2>5
<1>10. ASSUME Interrupt PROVE IInv'
    <2>1. Locals'
        BY <1>10 DEF Locals, Steps, Assumptions, Interrupt
    <2>2. WireOK'
        BY <1>0, <1>10, WireKept DEF Interrupt
    <2>3. Swept'
        BY <1>0, <1>10, ArgsKept DEF Locals, Swept, SweepCoversFrame, Interrupt
    <2>4. Counted'
        BY <1>10 DEF Locals, Counted, CountsPackets, Steps, Interrupt
    <2>5. Scheduled'
        BY <1>0, <1>10 DEF Locals, Scheduled, Due, Over, MoreFrames, MoreTime, Interrupt
    <2> QED
        BY <2>1, <2>2, <2>3, <2>4, <2>5
<1>11. ASSUME Tick PROVE IInv'
    <2>1. Locals'
        BY <1>11 DEF Locals, Steps, Assumptions, Tick
    <2>2. WireOK'
        BY <1>0, <1>11, WireKept DEF Tick
    <2>3. Swept'
        BY <1>0, <1>11, ArgsKept DEF Locals, Swept, SweepCoversFrame, Tick
    <2>4. Counted'
        BY <1>11 DEF Locals, Counted, CountsPackets, Steps, Tick
    <2>5. Scheduled'
        <3>1. args.delay \in Nat /\ args.duration \in Nat /\ frame \in Nat /\ now \in Nat
            BY Commands DEF Locals
        <3>2. /\ now' = now + 1 /\ pc' = pc /\ Due' = Due /\ wake' = wake
              /\ next_frame_time' = next_frame_time
            BY <1>0, <1>11 DEF Tick, Due
        <3>3. Due \in Nat
            <4>1. \A k, d \in Nat : k * d \in Nat
                OBVIOUS
            <4> QED
                BY <3>1, <4>1 DEF Due
        <3>4. Over => Over'
            <4>1. MoreTime' => MoreTime
                BY <1>0, <3>1, <3>2 DEF MoreTime
            <4>2. MoreFrames(frame)' <=> MoreFrames(frame)
                BY <1>0, <1>11 DEF Tick, MoreFrames
            <4> QED
                BY <4>1, <4>2 DEF Over
        <3>5. now >= Due => now' >= Due'
            BY <3>1, <3>2, <3>3
        <3> QED
            BY <1>0, <3>2, <3>4, <3>5 DEF Scheduled
    <2> QED
        BY <2>1, <2>2, <2>3, <2>4, <2>5
<1>12. ASSUME Carry PROVE IInv'
    <2>1. Locals'
        BY <1>12 DEF Locals, Steps, Assumptions, Carry
    <2>2. WireOK'
        BY <1>0, <1>12, WireShrinks DEF Carry
    <2>3. Swept'
        BY <1>0, <1>12, ArgsKept DEF Locals, Swept, SweepCoversFrame, Carry
    <2>4. Counted'
        BY <1>12 DEF Locals, Counted, CountsPackets, Steps, Carry
    <2>5. Scheduled'
        BY <1>0, <1>12 DEF Locals, Scheduled, Due, Over, MoreFrames, MoreTime, Carry
    <2> QED
        BY <2>1, <2>2, <2>3, <2>4, <2>5
<1>13. ASSUME UNCHANGED vars PROVE IInv'
    <2>1. Locals'
        BY <1>13 DEF Locals, Steps, Assumptions, vars
    <2>2. WireOK'
        BY <1>0, <1>13, WireKept DEF vars
    <2>3. Swept'
        BY <1>0, <1>13, ArgsKept DEF Locals, Swept, SweepCoversFrame, vars
    <2>4. Counted'
        BY <1>13 DEF Locals, Counted, CountsPackets, Steps, vars
    <2>5. Scheduled'
        BY <1>0, <1>13 DEF Locals, Scheduled, Due, Over, MoreFrames, MoreTime, vars
    <2> QED
        BY <2>1, <2>2, <2>3, <2>4, <2>5
<1> QED
    BY <1>1, <1>2, <1>3, <1>4, <1>5, <1>6, <1>7, <1>8, <1>9, <1>10, <1>11, <1>12, <1>13 DEF Next, Main

(* The invariant of the sender.                                            *)
THEOREM Invariance == Spec => []IInv
BY InitInv, StepInv, PTL DEF Spec

----
(* Every pattern's arithmetic stays within a byte.                         *)
LEMMA ColoursHold == Locals => ColoursAreBytes
<1> SUFFICES ASSUME Locals, NEW pattern \in Patterns, NEW pixel \in 0 .. TotalPixels - 1
             PROVE  RgbForPixel(pattern, pixel, frame) \in (0 .. 255) \X (0 .. 255) \X (0 .. 255)
    BY DEF ColoursAreBytes
<1> DEFINE output == pixel \div args.pixels_per_output
           index == pixel % args.pixels_per_output
<1>1. /\ args.outputs \in Nat /\ args.pixels_per_output \in Nat /\ TotalPixels \in Nat
      /\ frame \in Nat
    BY Commands DEF Locals
<1>2. args.pixels_per_output \in Nat \ {0} /\ pixel \in Nat
    <2>1. TotalPixels > 0
        BY <1>1
    <2>2. args.pixels_per_output # 0
        BY <1>1, <2>1 DEF TotalPixels
    <2> QED
        BY <1>1, <2>2
<1>3. output \in Nat /\ index \in Nat
    <2>1. \A k \in Nat, m \in Nat \ {0} : k \div m \in Nat /\ k % m \in Nat
        OBVIOUS
    <2> QED
        BY <1>2, <2>1
<1> HIDE DEF output, index
<1>4. \A k \in Nat : k % 256 \in 0 .. 255 /\ 255 - (k % 256) \in 0 .. 255
    OBVIOUS
<1>5. Phase(index, output, frame) \in 0 .. 255 /\ 255 - Phase(index, output, frame) \in 0 .. 255
    BY <1>1, <1>3, <1>4 DEF Phase
<1>6. (frame + output * 32) % 256 \in 0 .. 255
    BY <1>1, <1>3, <1>4
<1>7. Gradient(index, output, frame) \in (0 .. 255) \X (0 .. 255) \X (0 .. 255)
    BY <1>5, <1>6 DEF Gradient
<1>8. Chase(index, output, frame) \in (0 .. 255) \X (0 .. 255) \X (0 .. 255)
    BY DEF Chase
<1>9. \A k \in 1 .. 4 : Bars[k] \in (0 .. 255) \X (0 .. 255) \X (0 .. 255)
    BY DEF Bars
<1>10. (output % 4) + 1 \in 1 .. 4
    <2>1. \A k \in Nat : (k % 4) + 1 \in 1 .. 4
        OBVIOUS
    <2> QED
        BY <1>3, <2>1
<1>11. RgbForPixel(pattern, pixel, frame)
          \in {Bars[1], Bars[2], Bars[3], Bars[4], Bars[(output % 4) + 1],
               Chase(index, output, frame), Gradient(index, output, frame)}
    BY DEF RgbForPixel, Patterns, output, index
<1> QED
    BY <1>7, <1>8, <1>9, <1>10, <1>11

LEMMA RightInIInv == IInv => PacketsAreRight
<1> SUFFICES ASSUME IInv PROVE PacketsAreRight
    OBVIOUS
<1>1. TypeOK
    BY DEF IInv, Locals, WireOK, Packets, TypeOK
<1>2. PacketsAccepted
    <2>1. DOMAIN wire = 1 .. Len(wire)
        BY DEF IInv, WireOK
    <2> QED
        BY <2>1 DEF IInv, WireOK, Accepted, PacketsAccepted
<1>3. SweepCoversFrame /\ CountsPackets
    BY DEF IInv, Swept, Counted
<1>4. ColoursAreBytes
    BY ColoursHold DEF IInv
<1> QED
    BY <1>1, <1>2, <1>3, <1>4 DEF PacketsAreRight

(* For every command line and size of a universe, every packet on the wire *)
(* is one a board of the same size accepts, a sweep is the whole frame in  *)
(* order, colours are bytes and the printed count is right.                *)
THEOREM PacketsAreRightHolds == Spec => []PacketsAreRight
BY Invariance, RightInIInv, PTL

(* For every rate, duration and number of frames, main sleeps to the due   *)
(* time counted from the start, or to the end of the run.                  *)
THEOREM KeepsScheduleHolds == Spec => []KeepsSchedule
<1>1. IInv => KeepsSchedule
    BY DEF IInv, Scheduled, KeepsSchedule, Due
<1> QED
    BY <1>1, Invariance, PTL

(* No frame is sent before its due time, however long the sweeps took.     *)
THEOREM NeverEarlyHolds == Spec => NeverEarly
<1>1. IInv /\ [Next]_vars => [pc = "check" /\ pc' = "sweep" => now >= frame * args.delay]_vars
    <2> SUFFICES ASSUME IInv, Next, pc = "check", pc' = "sweep"
                 PROVE  now >= frame * args.delay
        OBVIOUS
    <2>1. StartSweep
        BY DEF Next, Main, StartSweep, Finish, SendData, CountData, EndSweep, SendSync,
               CountSync, Pace, Wake, Interrupt, Tick, Carry, senderVars
    <2>2. ~Over
        BY <2>1 DEF StartSweep, Over
    <2> QED
        BY <2>2 DEF IInv, Scheduled, Due
<1> QED
    BY <1>1, Invariance, PTL DEF Spec, NeverEarly

----
(* What the network does to the wire, by positions.                        *)
LEMMA TailOfWire ==
    ASSUME wire \in Seq(Packets), wire # <<>>, wire' = Tail(wire)
    PROVE  /\ Len(wire) \in Nat \ {0} /\ Head(wire) = wire[1] /\ wire[1] \in Packets
           /\ wire' \in Seq(Packets) /\ Len(wire') = Len(wire) - 1
           /\ \A i \in 1 .. Len(wire') : wire'[i] = wire[i + 1]
BY HeadTailProperties, EmptySeq

LEMMA DoubledWire ==
    ASSUME wire \in Seq(Packets), wire # <<>>, wire' = <<Head(wire)>> \o wire
    PROVE  /\ Len(wire) \in Nat \ {0}
           /\ wire' \in Seq(Packets) /\ Len(wire') = Len(wire) + 1
           /\ \A i \in 1 .. Len(wire') : wire'[i] = IF i = 1 THEN wire[1] ELSE wire[i - 1]
<1>1. Len(wire) \in Nat \ {0} /\ Head(wire) = wire[1] /\ Head(wire) \in Packets
    BY HeadTailProperties, EmptySeq
<1>2. <<Head(wire)>> \in Seq(Packets) /\ Len(<<Head(wire)>>) = 1 /\ <<Head(wire)>>[1] = wire[1]
    BY <1>1
<1>3. /\ wire' \in Seq(Packets) /\ Len(wire') = 1 + Len(wire)
      /\ \A i \in 1 .. 1 + Len(wire) :
            wire'[i] = IF i <= 1 THEN <<Head(wire)>>[i] ELSE wire[i - 1]
    BY <1>2, ConcatProperties
<1>4. \A i \in 1 .. Len(wire') : wire'[i] = IF i = 1 THEN wire[1] ELSE wire[i - 1]
    BY <1>1, <1>2, <1>3
<1> QED
    BY <1>1, <1>3, <1>4

LEMMA JoinedByPosition ==
    ASSUME NEW a \in Seq(Packets), NEW b \in Seq(Packets)
    PROVE  /\ a \o b \in Seq(Packets) /\ Len(a \o b) = Len(a) + Len(b)
           /\ \A i \in 1 .. Len(a) + Len(b) : (a \o b)[i] = IF i <= Len(a) THEN a[i] ELSE b[i - Len(a)]
BY ConcatProperties

LEMMA SwappedWire ==
    ASSUME wire \in Seq(Packets), Len(wire) >= 2,
           wire' = <<wire[2], wire[1]>> \o SubSeq(wire, 3, Len(wire))
    PROVE  /\ wire' \in Seq(Packets) /\ Len(wire') = Len(wire)
           /\ \A i \in 1 .. Len(wire') : \E j \in 1 .. Len(wire) : wire'[i] = wire[j]
<1> DEFINE a == <<wire[2], wire[1]>>
           b == SubSeq(wire, 3, Len(wire))
<1>1. Len(wire) \in Nat /\ 1 \in 1 .. Len(wire) /\ 2 \in 1 .. Len(wire)
    OBVIOUS
<1>2. wire[1] \in Packets /\ wire[2] \in Packets
    BY <1>1, ElementOfSeq
<1>3. a \in Seq(Packets) /\ Len(a) = 2 /\ a[1] = wire[2] /\ a[2] = wire[1]
    BY <1>2
<1>4. \A i \in 3 .. Len(wire) : wire[i] \in Packets
    BY <1>1, ElementOfSeq
<1>5. /\ b \in Seq(Packets) /\ Len(b) = Len(wire) - 2
      /\ \A i \in 1 .. Len(wire) - 2 : b[i] = wire[i + 2]
    BY <1>1, <1>4, SubSeqProperties
<1> HIDE DEF a, b
<1>6. wire' = a \o b
    BY DEF a, b
<1>7. /\ a \o b \in Seq(Packets) /\ Len(a \o b) = Len(a) + Len(b)
      /\ \A i \in 1 .. Len(a) + Len(b) : (a \o b)[i] = IF i <= Len(a) THEN a[i] ELSE b[i - Len(a)]
    BY <1>3, <1>5, JoinedByPosition
<1>8. /\ wire' \in Seq(Packets) /\ Len(wire') = Len(wire)
      /\ \A i \in 1 .. Len(wire) : wire'[i] = IF i <= 2 THEN a[i] ELSE b[i - 2]
    <2>1. Len(a) = 2 /\ Len(a) + Len(b) = Len(wire)
        BY <1>1, <1>3, <1>5
    <2>2. wire' \in Seq(Packets) /\ Len(wire') = Len(wire)
        BY <1>6, <1>7, <2>1
    <2>3. ASSUME NEW i \in 1 .. Len(wire) PROVE wire'[i] = IF i <= 2 THEN a[i] ELSE b[i - 2]
        <3>1. (a \o b)[i] = IF i <= 2 THEN a[i] ELSE b[i - 2]
            BY <1>7, <2>1
        <3>2. wire'[i] = (a \o b)[i]
            BY <1>6
        <3> QED
            BY <3>1, <3>2
    <2> QED
        BY <2>2, <2>3
<1>9. \A i \in 1 .. Len(wire') : \E j \in 1 .. Len(wire) : wire'[i] = wire[j]
    <2> TAKE i \in 1 .. Len(wire')
    <2>1. CASE i = 1
        BY <1>1, <1>3, <1>8, <2>1
    <2>2. CASE i = 2
        BY <1>1, <1>3, <1>8, <2>2
    <2>3. CASE i > 2
        <3>1. i - 2 \in 1 .. Len(wire) - 2 /\ i \in 1 .. Len(wire) /\ (i - 2) + 2 = i
            BY <1>1, <1>8, <2>3
        <3>2. wire'[i] = b[i - 2] /\ b[i - 2] = wire[(i - 2) + 2]
            BY <1>5, <1>8, <2>3, <3>1
        <3> QED
            BY <3>1, <3>2
    <2> QED
        BY <2>1, <2>2, <2>3
<1> QED
    BY <1>8, <1>9

----
(* The sender among the other activities: its invariant does not mind what *)
(* the network does.                                                       *)
LEMMA SenderRests ==
    ASSUME IInv, UNCHANGED senderVars, WireOK' PROVE IInv'
<1> USE DEF IInv, senderVars, counters, timeVars
<1>1. Locals'
    BY DEF Locals
<1>2. Swept'
    BY ArgsKept DEF Locals, Swept, SweepCoversFrame
<1>3. Counted' /\ Scheduled'
    BY DEF Counted, CountsPackets, Scheduled, Due, Over, MoreFrames, MoreTime
<1> QED
    BY <1>1, <1>2, <1>3

LEMMA SystemStepIInv == IInv /\ [SystemNext]_allVars => IInv'
<1> SUFFICES ASSUME IInv, [SystemNext]_allVars PROVE IInv'
    OBVIOUS
<1>1. WireOK /\ wire \in Seq(Packets)
    BY DEF IInv, WireOK
<1>2. ASSUME Send PROVE IInv'
    BY <1>2, StepInv DEF Send, Next
<1>3. ASSUME Deliver PROVE IInv'
    BY <1>3, StepInv DEF Deliver, Next, Carry
<1>4. ASSUME Lose PROVE IInv'
    BY <1>4, StepInv DEF Lose, Next, Carry
<1>5. ASSUME Duplicate PROVE IInv'
    <2>1. wire # <<>> /\ wire' = <<Head(wire)>> \o wire /\ UNCHANGED senderVars
        BY <1>5 DEF Duplicate
    <2>2. args' = args
        BY <2>1 DEF senderVars
    <2>3. WireOK'
        BY <1>1, <2>1, <2>2, DoubledWire, ArgsKept DEF WireOK
    <2> QED
        BY <2>1, <2>3, SenderRests
<1>6. ASSUME Delay PROVE IInv'
    <2>1. /\ Len(wire) >= 2 /\ wire' = <<wire[2], wire[1]>> \o SubSeq(wire, 3, Len(wire))
          /\ UNCHANGED senderVars
        BY <1>6 DEF Delay
    <2>2. args' = args
        BY <2>1 DEF senderVars
    <2>3. WireOK'
        BY <1>1, <2>1, <2>2, SwappedWire, ArgsKept DEF WireOK
    <2> QED
        BY <2>1, <2>3, SenderRests
<1>7. ASSUME UNCHANGED vars PROVE IInv'
    BY <1>7, StepInv
<1> QED
    BY <1>2, <1>3, <1>4, <1>5, <1>6, <1>7 DEF SystemNext, Blackout, allVars

(* What every step of the whole system leaves alone.                       *)
LEMMA SystemKeepsArgs ==
    ASSUME [SystemNext]_allVars
    PROVE  /\ args' = args
           /\ UniverseCount' = UniverseCount /\ ExpectedUniverses' = ExpectedUniverses
           /\ Offsets' = Offsets /\ SyncAddress' = SyncAddress
           /\ SyncsItself' = SyncsItself /\ SendsEveryUniverse' = SendsEveryUniverse
           /\ NoWords' = NoWords /\ NoSequences' = NoSequences
           /\ \A o : SlotCount(o)' = SlotCount(o)
<1>1. args' = args
    BY DEF SystemNext, Send, Deliver, Lose, Duplicate, Delay, Blackout, allVars, vars, senderVars,
           Main, StartSweep, Finish, SendData, CountData, EndSweep, SendSync, CountSync,
           Pace, Wake, Interrupt, Tick
<1>2. TotalSlots' = TotalSlots
    BY <1>1 DEF TotalSlots, TotalPixels
<1>3. UniverseCount' = UniverseCount /\ ExpectedUniverses' = ExpectedUniverses
    BY <1>1, <1>2 DEF UniverseCount, ExpectedUniverses
<1>4. Offsets' = Offsets /\ SyncAddress' = SyncAddress
    BY <1>1, <1>3 DEF Offsets, SyncAddress
<1> QED
    BY <1>1, <1>2, <1>3, <1>4 DEF SyncsItself, SendsEveryUniverse, NoWords, NoSequences, SlotCount

(* The universes that carry pixels are those the board expects.            *)
LEMMA UniverseSent ==
    ASSUME args \in Args
    PROVE  /\ ExpectedUniverses \in Nat /\ UniverseCount \in Nat
           /\ \A o \in Nat : SlotCount(o) > 0 <=> o < ExpectedUniverses
<1>1. TotalSlots \in Nat /\ TotalPixels \in Nat /\ TotalSlots = 3 * TotalPixels
      /\ args.universe_count \in Nat
    BY Commands
<1>2. Slots \in Nat \ {0}
    BY SlotsAssumption
<1>3. ExpectedUniverses = CeilDiv(TotalSlots, Slots)
    BY DEF ExpectedUniverses, CeilDiv
<1>4. ExpectedUniverses \in Nat /\ \A o \in Nat : o < ExpectedUniverses <=> o * Slots < TotalSlots
    BY <1>1, <1>2, <1>3, Ceiling
<1>5. UniverseCount \in Nat
    BY <1>1, <1>2, Ceiling DEF UniverseCount
<1>6. \A o \in Nat : SlotCount(o) > 0 <=> o < ExpectedUniverses
    <2> TAKE o \in Nat
    <2>1. /\ From(o) \in Nat /\ Carried(o) \in Nat /\ SlotCount(o) = 3 * Carried(o)
          /\ FirstSlot(o) = 3 * From(o) /\ (Carried(o) > 0 <=> From(o) < TotalPixels)
        <3>1. PerUniverse \in Nat
            BY PerUniverseType
        <3> QED
            BY <3>1, SlotsOfPixels
    <2>2. o * Slots = 3 * From(o)
        BY <2>1 DEF FirstSlot
    <2>3. o < ExpectedUniverses <=> 3 * From(o) < 3 * TotalPixels
        BY <1>1, <1>4, <2>2
    <2> QED
        BY <1>1, <2>1, <2>3
<1> QED
    BY <1>4, <1>5, <1>6

----
(* What the board relies on of the packets on the wire.                    *)
Offset(p) == p.universe - FirstUniverse

OfThisRun(p) ==
    /\ p.frame \in 0 .. frame /\ p.sync_address = SyncAddress
    /\ p.kind = "data" => /\ p.preview = args.preview /\ p.terminated = args.stream_terminate
                          /\ Offset(p) \in Offsets /\ Offset(p) < UniverseCount
    /\ p.kind = "sync" => args.send_sync

WireOfThisRun == \A i \in 1 .. Len(wire) : OfThisRun(wire[i])

(* Where main is in a sweep.                                               *)
InPlace == /\ pc = "sweep" => offset <= ExpectedUniverses
           /\ pc = "count" => InSweep
           /\ pc = "sync" => ~InSweep /\ args.send_sync

(* What is on the wire in any order comes from the sweeps so far.          *)
WireInv == WireOfThisRun /\ InPlace

LEMMA RunGrows ==
    ASSUME [SystemNext]_allVars, frame \in Nat, frame' \in Nat, frame' >= frame, NEW p, OfThisRun(p)
    PROVE  OfThisRun(p)'
BY SystemKeepsArgs DEF OfThisRun, Offset

LEMMA FrameGrows ==
    ASSUME IInv, [SystemNext]_allVars PROVE frame \in Nat /\ frame' \in Nat /\ frame' >= frame
<1>1. frame \in Nat /\ (frame' = frame \/ frame' = frame + 1)
    BY DEF IInv, Locals, SystemNext, Send, Deliver, Lose, Duplicate, Delay, Blackout, allVars, vars,
           senderVars, Main, StartSweep, Finish, SendData, CountData, EndSweep, SendSync, CountSync,
           Pace, Wake, Interrupt, Tick
<1> QED
    BY <1>1

LEMMA InitWireInv == SystemInit => WireInv
BY DEF SystemInit, Init, WireInv, WireOfThisRun, InPlace

LEMMA SentOfThisRun ==
    ASSUME IInv, WireInv
    PROVE  /\ pc = "sync" => OfThisRun(SyncPacket)
           /\ offset < UniverseCount /\ SlotCount(offset) > 0 => OfThisRun(DataPacket(offset))
<1>1. frame \in Nat /\ offset \in Nat /\ args \in Args /\ FirstUniverse \in Nat
    BY UniverseAssumption DEF IInv, Locals
<1>2. pc = "sync" => OfThisRun(SyncPacket)
    BY <1>1 DEF OfThisRun, SyncPacket, WireInv, InPlace
<1>3. ASSUME offset < UniverseCount, SlotCount(offset) > 0 PROVE OfThisRun(DataPacket(offset))
    <2> DEFINE p == DataPacket(offset)
    <2>1. /\ p.frame = frame /\ p.sync_address = SyncAddress /\ p.preview = args.preview
          /\ p.terminated = args.stream_terminate /\ p.universe = FirstUniverse + offset
          /\ p.kind = "data"
        BY DEF DataPacket
    <2>2. Offset(p) = offset
        BY <1>1, <2>1 DEF Offset
    <2>3. offset < ExpectedUniverses /\ ExpectedUniverses \in Nat
        BY <1>1, <1>3, UniverseSent
    <2>4. Offset(p) \in Offsets /\ Offset(p) < UniverseCount
        BY <1>1, <1>3, <2>2, <2>3 DEF Offsets
    <2> QED
        BY <1>1, <2>1, <2>4 DEF OfThisRun
<1> QED
    BY <1>2, <1>3

LEMMA WireInvStep == IInv /\ WireInv /\ [SystemNext]_allVars => WireInv'
<1> SUFFICES ASSUME IInv, WireInv, [SystemNext]_allVars PROVE WireInv'
    OBVIOUS
<1>0. /\ wire \in Seq(Packets) /\ Len(wire) \in Nat /\ args \in Args /\ offset \in Nat
      /\ ExpectedUniverses \in Nat /\ UniverseCount \in Nat
    BY UniverseSent DEF IInv, WireOK, Locals
<1>1. \A p : OfThisRun(p) => OfThisRun(p)'
    BY FrameGrows, RunGrows
<1>2. ASSUME wire' = wire PROVE WireOfThisRun'
    BY <1>1, <1>2 DEF WireInv, WireOfThisRun
<1>3. ASSUME NEW p \in Packets, wire' = Append(wire, p), OfThisRun(p) PROVE WireOfThisRun'
    <2>1. Len(wire') = Len(wire) + 1 /\ \A i \in 1 .. Len(wire') : wire'[i] = IF i <= Len(wire) THEN wire[i] ELSE p
        BY <1>0, <1>3
    <2>2. \A i \in 1 .. Len(wire') : OfThisRun(wire'[i])
        BY <1>0, <1>3, <2>1 DEF WireInv, WireOfThisRun
    <2> QED
        BY <1>1, <2>2 DEF WireOfThisRun
<1>4. ASSUME \A i \in 1 .. Len(wire') : \E j \in 1 .. Len(wire) : wire'[i] = wire[j] PROVE WireOfThisRun'
    BY <1>1, <1>4 DEF WireInv, WireOfThisRun
<1>5. WireOfThisRun'
    <2>1. CASE wire' = wire
        BY <1>2, <2>1
    <2>2. CASE SendData
        <3>1. wire' = Append(wire, DataPacket(offset)) /\ OfThisRun(DataPacket(offset))
            BY <2>2, SentOfThisRun DEF SendData, InSweep
        <3>2. DataPacket(offset) \in Packets
            BY DataTyped DEF IInv
        <3> QED
            BY <1>3, <3>1, <3>2
    <2>3. CASE SendSync
        <3>1. wire' = Append(wire, SyncPacket) /\ OfThisRun(SyncPacket)
            BY <2>3, SentOfThisRun DEF SendSync
        <3> QED
            BY <1>3, <3>1, SyncTyped DEF IInv
    <2>4. CASE Deliver \/ Lose
        <3>1. wire # <<>> /\ wire' = Tail(wire)
            BY <2>4 DEF Deliver, Lose
        <3>2. \A i \in 1 .. Len(wire') : wire'[i] = wire[i + 1] /\ i + 1 \in 1 .. Len(wire)
            BY <1>0, <3>1, TailOfWire
        <3> QED
            BY <1>4, <3>2
    <2>5. CASE Duplicate
        <3>1. wire # <<>> /\ wire' = <<Head(wire)>> \o wire
            BY <2>5 DEF Duplicate
        <3>2. \A i \in 1 .. Len(wire') : \E j \in 1 .. Len(wire) : wire'[i] = wire[j]
            <4> TAKE i \in 1 .. Len(wire')
            <4>1. wire'[i] = wire[IF i = 1 THEN 1 ELSE i - 1] /\ (IF i = 1 THEN 1 ELSE i - 1) \in 1 .. Len(wire)
                BY <1>0, <3>1, DoubledWire
            <4> QED
                BY <4>1
        <3> QED
            BY <1>4, <3>2
    <2>6. CASE Delay
        BY <1>0, <1>4, <2>6, SwappedWire DEF Delay
    <2> QED
        BY <2>1, <2>2, <2>3, <2>4, <2>5, <2>6
        DEF SystemNext, Send, Blackout, allVars, vars, Main, StartSweep, Finish, CountData, EndSweep,
            CountSync, Pace, Wake, Interrupt, Tick
<1>6. InPlace'
    <2>1. UNCHANGED <<args, pc, offset>> => InPlace'
        BY SystemKeepsArgs DEF WireInv, InPlace, InSweep
    <2>2. ASSUME Main PROVE InPlace'
        <3>1. CASE StartSweep
            BY <1>0, <3>1, SystemKeepsArgs DEF StartSweep, InPlace
        <3>2. CASE SendData
            BY <3>2, SystemKeepsArgs DEF SendData, InPlace, InSweep
        <3>3. CASE CountData
            <4>1. offset < ExpectedUniverses
                BY <1>0, <3>3, UniverseSent DEF CountData, WireInv, InPlace, InSweep
            <4> QED
                BY <1>0, <3>3, <4>1, SystemKeepsArgs DEF CountData, InPlace
        <3>4. CASE EndSweep
            BY <3>4, SystemKeepsArgs DEF EndSweep, InPlace, InSweep
        <3>5. CASE SendSync \/ CountSync \/ Pace \/ Wake \/ Finish
            BY <3>5 DEF SendSync, CountSync, Pace, Wake, Finish, InPlace
        <3> QED
            BY <2>2, <3>1, <3>2, <3>3, <3>4, <3>5 DEF Main
    <2>3. CASE Interrupt
        BY <2>3 DEF Interrupt, InPlace
    <2> QED
        BY <2>1, <2>2, <2>3 DEF SystemNext, Send, Deliver, Lose, Duplicate, Delay, Blackout, allVars,
                                vars, senderVars, Tick
<1> QED
    BY <1>5, <1>6 DEF WireInv

----
(* The board.                                                              *)
Words == [Offsets -> Nat \cup {Old}]
Sequences == [Offsets -> (0 .. SequenceMod - 1) \cup {None}]

BoardTypes == /\ received \subseteq Offsets /\ lastSequence \in Sequences /\ pending \in BOOLEAN
              /\ staging \in Words /\ shown \in Words
              /\ anomalies \in Nat /\ committed \in Nat
              /\ hurt \subseteq Nat /\ faults \in [FaultKinds -> Nat]

(* A universe that is marked was received, one that was not sent is not,   *)
(* and a sync packet is awaited only for a whole frame.                    *)
Staged == /\ \A u \in received : staging[u] \in Nat /\ u < UniverseCount
          /\ pending => received = Offsets
          /\ NothingOldShown

BoardInv == BoardTypes /\ Staged

LEMMA InitBoardInv == SystemInit => BoardInv
<1> SUFFICES ASSUME SystemInit PROVE BoardInv
    OBVIOUS
<1>1. BoardTypes
    BY DEF SystemInit, BoardInit, BoardTypes, Words, Sequences, NoWords, NoSequences
<1>2. Staged
    BY DEF SystemInit, BoardInit, Staged, NothingOldShown
<1> QED
    BY <1>1, <1>2 DEF BoardInv

(* The board counts universes: it has them all when none is missing.       *)
LEMMA CompleteIsAll ==
    ASSUME args \in Args, NEW asm \in SUBSET Offsets
    PROVE  Complete(asm) <=> asm = Offsets
<1>1. ExpectedUniverses \in Nat
    BY UniverseSent
<1>2. IsFiniteSet(Offsets) /\ Cardinality(Offsets) = ExpectedUniverses
    <2>1. /\ IsFiniteSet(0 .. ExpectedUniverses - 1)
          /\ Cardinality(0 .. ExpectedUniverses - 1)
                = IF 0 > ExpectedUniverses - 1 THEN 0 ELSE (ExpectedUniverses - 1) - 0 + 1
        BY <1>1, FS_Interval
    <2> QED
        BY <1>1, <2>1 DEF Offsets
<1>3. Cardinality(Offsets) = Cardinality(asm) => Offsets = asm
    BY <1>2, FS_Subset
<1> QED
    BY <1>2, <1>3 DEF Complete

(* What handling a packet may do to the board.                             *)
Takes(p, asm, seen, words) ==
    /\ p.kind = "data" /\ Offset(p) \in Offsets /\ ~args.preview /\ ~args.stream_terminate
    /\ asm = received \cup {Offset(p)}
    /\ seen = [lastSequence EXCEPT ![Offset(p)] = p.sequence]
    /\ words = [staging EXCEPT ![Offset(p)] = p.frame]

Keeps(asm, seen, words) ==
    /\ received' = asm /\ lastSequence' = seen /\ staging' = words
    /\ pending' = (pending \/ Complete(asm))
    /\ UNCHANGED <<shown, committed, faults>>

Clears == /\ ClearAssembly /\ staging' = NoWords /\ shown' = NoWords
          /\ UNCHANGED <<anomalies, committed, faults>>

LEMMA HandleCases ==
    ASSUME NEW p, OfThisRun(p), Accepted(p), Handle(p)
    PROVE  \/ UNCHANGED <<boardVars, faults>> /\ (p.kind = "data" => args.preview) /\ (p.kind = "sync" => ~pending)
           \/ p.kind = "data" /\ args.stream_terminate /\ Clears
           \/ /\ p.kind = "sync" /\ pending /\ UNCHANGED anomalies
              /\ Commit(received, lastSequence, staging)
           \/ \E asm, seen, words :
                 /\ Takes(p, asm, seen, words)
                 /\ anomalies' = IF lastSequence[Offset(p)] # None /\ p.sequence # Expected(Offset(p))
                                 THEN anomalies + 1 ELSE anomalies
                 /\ IF Complete(asm) /\ ~WaitsForSync(p) THEN Commit(asm, seen, words)
                    ELSE Keeps(asm, seen, words)
<1>1. CASE HandleSync(p)
    BY <1>1 DEF HandleSync, Ready, boardVars
<1>2. CASE HandleData(p) /\ Rejected(p)
    <2>1. p.kind = "data" /\ UNCHANGED <<boardVars, faults>>
        BY <1>2 DEF HandleData
    <2>2. p.preview = args.preview /\ ~ParsesAsSync(p)
        BY <2>1 DEF OfThisRun, ParsesAsSync
    <2>3. args.preview
        BY <1>2, <2>2 DEF Rejected, Accepted
    <2> QED
        BY <2>1, <2>3
<1>3. CASE HandleData(p) /\ ~Rejected(p) /\ p.terminated
    BY <1>3 DEF HandleData, Clears, OfThisRun
<1>4. CASE HandleData(p) /\ ~Rejected(p) /\ ~p.terminated
    <2> DEFINE asm == Marked(Offset(p))
               seen == [lastSequence EXCEPT ![Offset(p)] = p.sequence]
               words == Written(Offset(p), p.frame)
    <2>1. /\ p.kind = "data" /\ ~p.preview /\ Offset(p) = p.universe - FirstUniverse
          /\ Offset(p) \in Offsets /\ args.preview = p.preview /\ args.stream_terminate = p.terminated
        BY <1>4 DEF HandleData, Rejected, OfThisRun, Offset
    <2>2. Takes(p, asm, seen, words)
        BY <1>4, <2>1 DEF Takes, Marked, Written
    <2>3. /\ anomalies' = IF lastSequence[Offset(p)] # None /\ p.sequence # Expected(Offset(p))
                          THEN anomalies + 1 ELSE anomalies
          /\ IF Complete(asm) /\ ~WaitsForSync(p) THEN Commit(asm, seen, words)
             ELSE Keeps(asm, seen, words)
        BY <1>4, <2>1 DEF HandleData, Keeps
    <2> QED
        BY <2>2, <2>3
<1> QED
    BY <1>1, <1>2, <1>3, <1>4 DEF Handle

LEMMA TakesTyped ==
    ASSUME BoardInv, NEW p \in Packets, OfThisRun(p), NEW asm, NEW seen, NEW words,
           Takes(p, asm, seen, words)
    PROVE  /\ asm \subseteq Offsets /\ seen \in Sequences /\ words \in Words
           /\ \A u \in asm : words[u] \in Nat /\ u < UniverseCount
           /\ pending => asm = Offsets
<1>1. p.frame \in Nat /\ Offset(p) \in Offsets /\ Offset(p) < UniverseCount
    BY DEF Packets, DataPackets, SyncPackets, OfThisRun, Takes
<1>2. p.sequence \in 0 .. SequenceMod - 1
    BY DEF Packets, DataPackets, SyncPackets
<1>3. /\ asm = received \cup {Offset(p)} /\ words = [staging EXCEPT ![Offset(p)] = p.frame]
      /\ seen = [lastSequence EXCEPT ![Offset(p)] = p.sequence]
    BY DEF Takes
<1>4. /\ received \subseteq Offsets /\ lastSequence \in Sequences /\ staging \in Words
      /\ pending => received = Offsets
      /\ \A u \in received : staging[u] \in Nat /\ u < UniverseCount
    BY DEF BoardInv, BoardTypes, Staged
<1>5. seen \in Sequences
    BY <1>1, <1>2, <1>3, <1>4 DEF Sequences
<1>6. words \in Words
    BY <1>1, <1>3, <1>4 DEF Words
<1>7. \A u \in asm : words[u] \in Nat /\ u < UniverseCount
    <2> TAKE u \in asm
    <2>1. u \in Offsets /\ words[u] = IF u = Offset(p) THEN p.frame ELSE staging[u]
        BY <1>1, <1>3, <1>4 DEF Words
    <2> QED
        BY <1>1, <1>3, <1>4, <2>1
<1> QED
    BY <1>1, <1>3, <1>4, <1>5, <1>6, <1>7

(* A commit of a whole frame keeps the invariant, whatever comes of it.    *)
LEMMA CommitInv ==
    ASSUME BoardInv, [SystemNext]_allVars, args \in Args,
           NEW seen \in Sequences, NEW words \in Words,
           \A u \in Offsets : words[u] \in Nat /\ u < UniverseCount,
           Commit(Offsets, seen, words), anomalies' \in Nat, hurt' \subseteq Nat
    PROVE  BoardInv'
<1> USE DEF BoardInv, BoardTypes
<1>0. /\ Offsets' = Offsets /\ UniverseCount' = UniverseCount /\ NoWords' = NoWords
      /\ NoWords \in Words /\ NoSequences \in Sequences /\ Words' = Words /\ Sequences' = Sequences
    BY SystemKeepsArgs DEF NoWords, NoSequences, Words, Sequences
<1>1. faults' \in [FaultKinds -> Nat]
    BY DEF Commit, Happens, FaultKinds
<1>2. /\ received' \subseteq Offsets /\ lastSequence' \in Sequences /\ pending' \in BOOLEAN
      /\ staging' \in Words /\ shown' \in Words
    BY <1>0 DEF Commit, ClearAssembly
<1>3. committed' \in Nat
    BY DEF Commit
<1>4. \A u \in received' : staging'[u] \in Nat /\ u < UniverseCount
    BY DEF Commit, ClearAssembly
<1>5. pending' => received' = Offsets
    BY DEF Commit, ClearAssembly
<1>6. NothingOldShown'
    <2>1. CASE shown' = shown
        BY <1>0, <2>1 DEF Staged, NothingOldShown, Frames
    <2>2. CASE shown' = words
        BY <1>0, <2>2, OldAssumption DEF NothingOldShown, Frames
    <2> QED
        BY <2>1, <2>2 DEF Commit
<1>7. BoardTypes'
    BY <1>0, <1>1, <1>2, <1>3
<1>8. Staged'
    BY <1>0, <1>4, <1>5, <1>6 DEF Staged
<1> QED
    BY <1>7, <1>8

LEMMA BoardInvStep == IInv /\ WireInv /\ BoardInv /\ [SystemNext]_allVars => BoardInv'
<1> SUFFICES ASSUME IInv, WireInv, BoardInv, [SystemNext]_allVars PROVE BoardInv'
    OBVIOUS
<1>0. /\ Offsets' = Offsets /\ UniverseCount' = UniverseCount /\ NoWords' = NoWords
      /\ NoWords \in Words /\ NoSequences \in Sequences /\ Words' = Words /\ Sequences' = Sequences
    BY SystemKeepsArgs DEF NoWords, NoSequences, Words, Sequences
<1>1. args \in Args /\ wire \in Seq(Packets) /\ frame \in Nat
    BY DEF IInv, Locals, WireOK
<1>2. ASSUME UNCHANGED boardVars, hurt' \subseteq Nat, faults' \in [FaultKinds -> Nat] PROVE BoardInv'
    BY <1>0, <1>2 DEF boardVars, BoardInv, BoardTypes, Staged, NothingOldShown, Frames
<1>3. ASSUME Clears \/ Blackout, hurt' = hurt PROVE BoardInv'
    <2>1. /\ received' = {} /\ lastSequence' = NoSequences /\ pending' = FALSE /\ staging' = NoWords
          /\ shown' = NoWords /\ UNCHANGED <<anomalies, committed>> /\ hurt' \subseteq Nat
          /\ faults' \in [FaultKinds -> Nat]
        BY <1>3 DEF Clears, Blackout, ClearAssembly, Happens, FaultKinds, BoardInv, BoardTypes
    <2>2. BoardTypes'
        BY <1>0, <2>1 DEF BoardInv, BoardTypes
    <2>3. Staged'
        BY <1>0, <2>1 DEF Staged, NothingOldShown
    <2> QED
        BY <2>2, <2>3 DEF BoardInv
<1>4. ASSUME Deliver PROVE BoardInv'
    <2> DEFINE p == Head(wire)
    <2>1. wire # <<>> /\ Handle(p) /\ hurt' = hurt
        BY <1>4 DEF Deliver
    <2>2. 1 \in 1 .. Len(wire) /\ p = wire[1] /\ p \in Packets
        BY <1>1, <2>1, HeadTailProperties, EmptySeq
    <2>3. OfThisRun(p) /\ Accepted(p)
        BY <2>2 DEF WireInv, WireOfThisRun, IInv, WireOK
    <2> HIDE DEF p
    <2>4. CASE UNCHANGED <<boardVars, faults>>
        BY <1>2, <2>1, <2>4 DEF BoardInv, BoardTypes
    <2>5. CASE Clears
        BY <1>3, <2>1, <2>5
    <2>6. CASE pending /\ UNCHANGED anomalies /\ Commit(received, lastSequence, staging)
        <3>1. received = Offsets /\ anomalies' \in Nat /\ hurt' \subseteq Nat
            BY <2>1, <2>6 DEF BoardInv, BoardTypes, Staged
        <3>2. /\ lastSequence \in Sequences /\ staging \in Words
              /\ \A u \in Offsets : staging[u] \in Nat /\ u < UniverseCount
            BY <3>1 DEF BoardInv, BoardTypes, Staged
        <3> QED
            BY <1>1, <2>6, <3>1, <3>2, CommitInv
    <2>7. ASSUME NEW asm, NEW seen, NEW words, Takes(p, asm, seen, words),
                 anomalies' = IF lastSequence[Offset(p)] # None /\ p.sequence # Expected(Offset(p))
                              THEN anomalies + 1 ELSE anomalies,
                 IF Complete(asm) /\ ~WaitsForSync(p) THEN Commit(asm, seen, words)
                 ELSE Keeps(asm, seen, words)
          PROVE  BoardInv'
        <3>1. /\ asm \subseteq Offsets /\ seen \in Sequences /\ words \in Words
              /\ \A u \in asm : words[u] \in Nat /\ u < UniverseCount
              /\ pending => asm = Offsets
            BY <2>2, <2>3, <2>7, TakesTyped
        <3>2. anomalies' \in Nat /\ hurt' \subseteq Nat
            BY <2>1, <2>7 DEF BoardInv, BoardTypes
        <3>3. Complete(asm) <=> asm = Offsets
            BY <1>1, <3>1, CompleteIsAll
        <3>4. CASE Commit(asm, seen, words) /\ asm = Offsets
            BY <1>1, <3>1, <3>2, <3>4, CommitInv
        <3>5. CASE Keeps(asm, seen, words)
            <4>1. /\ received' = asm /\ lastSequence' = seen /\ staging' = words
                  /\ UNCHANGED <<shown, committed, faults>> /\ pending' = (pending \/ asm = Offsets)
                BY <3>3, <3>5 DEF Keeps
            <4>2. BoardTypes'
                BY <1>0, <3>1, <3>2, <4>1 DEF BoardInv, BoardTypes
            <4>3. NothingOldShown'
                BY <1>0, <4>1 DEF BoardInv, Staged, NothingOldShown, Frames
            <4>4. Staged'
                BY <1>0, <3>1, <4>1, <4>3 DEF Staged
            <4> QED
                BY <4>2, <4>4 DEF BoardInv
        <3> QED
            BY <2>7, <3>3, <3>4, <3>5
    <2> QED
        BY <2>1, <2>3, <2>4, <2>5, <2>6, <2>7, HandleCases
<1>5. ASSUME Lose \/ Duplicate \/ Delay PROVE BoardInv'
    <2>1. UNCHANGED boardVars /\ faults' \in [FaultKinds -> Nat]
        BY <1>5 DEF Lose, Duplicate, Delay, Happens, FaultKinds, BoardInv, BoardTypes
    <2>2. hurt' \subseteq Nat
        <3>1. CASE Lose
            <4>1. wire # <<>> => Head(wire) \in Packets
                BY <1>1, HeadTailProperties
            <4>2. wire # <<>> => Head(wire).frame \in Nat
                BY <4>1 DEF Packets, DataPackets, SyncPackets
            <4> QED
                BY <3>1, <4>2 DEF Lose, BoardInv, BoardTypes
        <3> QED
            BY <1>5, <3>1 DEF Duplicate, Delay, BoardInv, BoardTypes
    <2> QED
        BY <1>2, <2>1, <2>2
<1>6. ASSUME Send \/ UNCHANGED allVars PROVE BoardInv'
    BY <1>2, <1>6 DEF Send, allVars, BoardInv, BoardTypes
<1>7. ASSUME Blackout PROVE BoardInv'
    BY <1>3, <1>7 DEF Blackout
<1> QED
    BY <1>4, <1>5, <1>6, <1>7 DEF SystemNext

----
(* A preview or a terminated stream, or a board without pixels, never      *)
(* shows anything.                                                         *)
NothingTaken == received = {} /\ shown = NoWords /\ lastSequence = NoSequences
                   /\ ~pending /\ anomalies = 0

Silent == args.preview \/ args.stream_terminate \/ Offsets = {} => NothingTaken

LEMMA InitSilent == SystemInit => Silent
BY DEF SystemInit, BoardInit, Silent, NothingTaken

LEMMA SilentStep ==
    IInv /\ WireInv /\ Silent /\ [SystemNext]_allVars => Silent'
<1> SUFFICES ASSUME IInv, WireInv, Silent, [SystemNext]_allVars,
                    (args.preview \/ args.stream_terminate \/ Offsets = {})'
             PROVE  NothingTaken'
    BY DEF Silent
<1>1. /\ args' = args /\ Offsets' = Offsets /\ NoWords' = NoWords /\ NoSequences' = NoSequences
      /\ wire \in Seq(Packets)
    BY SystemKeepsArgs DEF IInv, WireOK
<1>2. NothingTaken /\ (args.preview \/ args.stream_terminate \/ Offsets = {})
    BY <1>1 DEF Silent
<1>3. UNCHANGED boardVars => NothingTaken'
    BY <1>1, <1>2 DEF boardVars, NothingTaken
<1>4. Clears \/ Blackout => NothingTaken'
    BY <1>1, <1>2 DEF Clears, Blackout, ClearAssembly, NothingTaken
<1>5. ASSUME Deliver PROVE NothingTaken'
    <2> DEFINE p == Head(wire)
    <2>1. wire # <<>> /\ Handle(p)
        BY <1>5 DEF Deliver
    <2>2. 1 \in 1 .. Len(wire) /\ p = wire[1]
        BY <1>1, <2>1, HeadTailProperties, EmptySeq
    <2>3. OfThisRun(p) /\ Accepted(p)
        BY <2>2 DEF WireInv, WireOfThisRun, IInv, WireOK
    <2>4. ~pending
        BY <1>2 DEF NothingTaken
    <2>5. \A asm, seen, words : ~Takes(p, asm, seen, words)
        BY <1>2 DEF Takes
    <2> HIDE DEF p
    <2> QED
        BY <1>3, <1>4, <2>1, <2>3, <2>4, <2>5, HandleCases
<1> QED
    BY <1>3, <1>4, <1>5 DEF SystemNext, Send, Lose, Duplicate, Delay, allVars

----
(* While no packet is overtaken, each universe of a frame whose sync       *)
(* packet is still to come is either on the wire before it or, if marked,  *)
(* marked by that frame; frames that lost a data packet apart.             *)
SentBefore(w, f, u, j) ==
    \E i \in 1 .. j - 1 : w[i].kind = "data" /\ w[i].frame = f /\ Offset(w[i]) = u

Arrived(w, r, s, f, u) == (u \in r => s[u] = f) /\ \A i \in 1 .. Len(w) : w[i].frame >= f

SettledIn(w, r, s, f, u, j) == SentBefore(w, f, u, j) \/ Arrived(w, r, s, f, u)

Settled(f, u, j) == SettledIn(wire, received, staging, f, u, j)

(* The same after a step.                                                  *)
StillSettled(f, u, j) == SettledIn(wire', received', staging', f, u, j)

InOrder == \A i, j \in 1 .. Len(wire) : i < j => wire[i].frame <= wire[j].frame

SyncsSettle ==
    \A j \in 1 .. Len(wire) : wire[j].kind = "sync" /\ wire[j].frame \notin hurt =>
        \A u \in Offsets : u < UniverseCount => Settled(wire[j].frame, u, j)

(* The same of the sweep under way, whose sync packet is not sent yet.     *)
Sent == IF pc = "count" THEN offset + 1 ELSE offset

SweepSettles ==
    pc \in {"sweep", "count", "sync"} /\ frame \notin hurt =>
        \A u \in Offsets : u < Sent => Settled(frame, u, Len(wire) + 1)

Ordered == InOrder /\ SyncsSettle /\ SweepSettles
SyncInv == faults.late = 0 => Ordered

LEMMA InitSyncInv == SystemInit => SyncInv
<1> SUFFICES ASSUME SystemInit PROVE Ordered
    BY DEF SyncInv
<1>1. wire = <<>> /\ pc = "check"
    BY DEF SystemInit, Init
<1> QED
    BY <1>1 DEF Ordered, InOrder, SyncsSettle, SweepSettles

(* What a packet leaves in staging.                                        *)
LEMMA HandleStaging ==
    ASSUME BoardInv, Silent, NEW p \in Packets, OfThisRun(p), Accepted(p), Handle(p)
    PROVE  \A w \in received' : IF p.kind = "data" /\ w = Offset(p) THEN staging'[w] = p.frame
                                ELSE w \in received /\ staging'[w] = staging[w]
<1>1. CASE UNCHANGED <<boardVars, faults>> /\ (p.kind = "data" => args.preview) /\ (p.kind = "sync" => ~pending)
    BY <1>1 DEF boardVars, Silent, NothingTaken
<1>2. CASE Clears
    BY <1>2 DEF Clears, ClearAssembly
<1>3. CASE p.kind = "sync" /\ Commit(received, lastSequence, staging)
    BY <1>3 DEF Commit, ClearAssembly
<1>4. ASSUME NEW asm, NEW seen, NEW words, Takes(p, asm, seen, words),
             Commit(asm, seen, words) \/ Keeps(asm, seen, words)
      PROVE  \A w \in received' : IF p.kind = "data" /\ w = Offset(p) THEN staging'[w] = p.frame
                                  ELSE w \in received /\ staging'[w] = staging[w]
    <2>1. received' = {} \/ (received' = asm /\ staging' = words)
        BY <1>4 DEF Commit, Keeps, ClearAssembly
    <2>2. /\ received \subseteq Offsets /\ staging \in Words /\ Offset(p) \in Offsets
          /\ asm = received \cup {Offset(p)} /\ words = [staging EXCEPT ![Offset(p)] = p.frame]
          /\ p.kind = "data"
        BY <1>4 DEF Takes, BoardInv, BoardTypes
    <2>3. \A w \in asm : words[w] = IF w = Offset(p) THEN p.frame ELSE staging[w]
        BY <2>2 DEF Words
    <2> QED
        BY <2>1, <2>2, <2>3
<1> QED
    BY <1>1, <1>2, <1>3, <1>4, HandleCases

(* Taking the first packet off the wire.                                   *)
LEMMA HeadSettles ==
    ASSUME IInv, wire # <<>>, wire' = Tail(wire), InOrder,
           \/ /\ wire[1].kind = "data" => wire[1].frame \in hurt'
              /\ received' = received /\ staging' = staging
           \/ \A w \in received' : IF wire[1].kind = "data" /\ w = Offset(wire[1])
                                   THEN staging'[w] = wire[1].frame
                                   ELSE w \in received /\ staging'[w] = staging[w],
           NEW f \in Nat, f \notin hurt', wire[1].frame \in Nat, wire[1].frame <= f,
           NEW u, NEW j \in 2 .. Len(wire) + 1, Settled(f, u, j)
    PROVE  StillSettled(f, u, j - 1)
<1>0. wire \in Seq(Packets)
    BY DEF IInv, WireOK
<1>1. /\ Len(wire) \in Nat \ {0} /\ Len(wire') = Len(wire) - 1
      /\ \A i \in 1 .. Len(wire') : wire'[i] = wire[i + 1]
    BY <1>0, TailOfWire
<1>2. ASSUME NEW i \in 2 .. j - 1, wire[i].kind = "data", wire[i].frame = f, Offset(wire[i]) = u
      PROVE  SentBefore(wire', f, u, j - 1)
    <2>1. i - 1 \in 1 .. (j - 1) - 1 /\ wire'[i - 1] = wire[i]
        BY <1>1, <1>2
    <2> QED
        BY <1>2, <2>1 DEF SentBefore, Offset
<1>3. ASSUME \A i \in 1 .. Len(wire) : wire[i].frame >= f, u \in received' => staging'[u] = f
      PROVE  Arrived(wire', received', staging', f, u)
    BY <1>1, <1>3 DEF Arrived
<1>4. CASE wire[1].kind = "data" /\ wire[1].frame = f /\ Offset(wire[1]) = u
    <2>1. \A i \in 1 .. Len(wire) : wire[i].frame >= f
        <3>1. \A i \in 1 .. Len(wire) : i # 1 => wire[1].frame <= wire[i].frame
            BY <1>1 DEF InOrder
        <3>2. \A i \in 1 .. Len(wire) : wire[i].frame \in Nat
            BY <1>0 DEF Packets, DataPackets, SyncPackets
        <3> QED
            BY <1>4, <3>1, <3>2
    <2>2. u \in received' => staging'[u] = f
        BY <1>4
    <2> QED
        BY <1>3, <2>1, <2>2 DEF Settled, StillSettled, SettledIn
<1>5. CASE Arrived(wire, received, staging, f, u)
    <2>1. \A i \in 1 .. Len(wire) : wire[i].frame >= f
        BY <1>5 DEF Arrived
    <2>2. wire[1].frame = f
        BY <1>1, <2>1
    <2>3. u \in received' => staging'[u] = f
        BY <1>5, <2>2 DEF Arrived
    <2> QED
        BY <1>3, <2>1, <2>3 DEF Settled, StillSettled, SettledIn
<1> QED
    <2>1. CASE SentBefore(wire, f, u, j)
        <3>1. PICK i \in 1 .. j - 1 : wire[i].kind = "data" /\ wire[i].frame = f /\ Offset(wire[i]) = u
            BY <2>1 DEF SentBefore
        <3>2. i = 1 \/ i \in 2 .. j - 1
            BY <3>1
        <3> QED
            BY <1>2, <1>4, <3>1, <3>2 DEF Settled, StillSettled, SettledIn
    <2> QED
        BY <1>5, <2>1 DEF Settled, StillSettled, SettledIn

(* A packet at the end of the wire leaves what is settled settled.         *)
LEMMA TailSettles ==
    ASSUME IInv, NEW p \in Packets, wire' = Append(wire, p),
           received' = received, staging' = staging,
           NEW f \in Nat, p.frame >= f, NEW u, NEW j \in 1 .. Len(wire) + 1, Settled(f, u, j)
    PROVE  StillSettled(f, u, j)
<1>1. wire \in Seq(Packets)
    BY DEF IInv, WireOK
<1>2. /\ Len(wire) \in Nat /\ Len(wire') = Len(wire) + 1
      /\ \A i \in 1 .. Len(wire') : wire'[i] = IF i <= Len(wire) THEN wire[i] ELSE p
    BY <1>1
<1>3. CASE SentBefore(wire, f, u, j)
    <2>1. PICK i \in 1 .. j - 1 : wire[i].kind = "data" /\ wire[i].frame = f /\ Offset(wire[i]) = u
        BY <1>3 DEF SentBefore
    <2>2. wire'[i] = wire[i]
        BY <1>2, <2>1
    <2>3. SentBefore(wire', f, u, j)
        BY <2>1, <2>2 DEF SentBefore, Offset
    <2> QED
        BY <2>3 DEF Settled, StillSettled, SettledIn
<1>4. CASE Arrived(wire, received, staging, f, u)
    <2>1. \A i \in 1 .. Len(wire') : wire'[i].frame >= f
        BY <1>2, <1>4 DEF Arrived
    <2> QED
        BY <1>4, <2>1 DEF Arrived, Settled, StillSettled, SettledIn
<1> QED
    BY <1>3, <1>4 DEF Settled, StillSettled, SettledIn

LEMMA AppendInOrder ==
    ASSUME IInv, WireInv, InOrder, NEW p \in Packets, wire' = Append(wire, p), p.frame = frame
    PROVE  InOrder'
<1>1. wire \in Seq(Packets)
    BY DEF IInv, WireOK
<1>2. /\ Len(wire) \in Nat /\ Len(wire') = Len(wire) + 1
      /\ \A i \in 1 .. Len(wire') : wire'[i] = IF i <= Len(wire) THEN wire[i] ELSE p
    BY <1>1
<1>3. \A i \in 1 .. Len(wire) : wire[i].frame <= p.frame
    BY DEF WireInv, WireOfThisRun, OfThisRun
<1> SUFFICES ASSUME NEW i \in 1 .. Len(wire'), NEW j \in 1 .. Len(wire'), i < j
             PROVE  wire'[i].frame <= wire'[j].frame
    BY DEF InOrder
<1>4. wire'[i] = wire[i] /\ i \in 1 .. Len(wire)
    BY <1>2
<1>5. CASE j \in 1 .. Len(wire)
    <2>1. wire'[j] = wire[j]
        BY <1>2, <1>5
    <2> QED
        BY <1>4, <1>5, <2>1 DEF InOrder
<1>6. CASE j \notin 1 .. Len(wire)
    <2>1. wire'[j] = p
        BY <1>2, <1>6
    <2> QED
        BY <1>3, <1>4, <2>1
<1> QED
    BY <1>5, <1>6

(* The first packet leaves the wire: it is delivered or lost.              *)
LEMMA OrderedShrinks ==
    ASSUME IInv, WireInv, BoardInv, Silent, Ordered, Deliver \/ Lose, [SystemNext]_allVars
    PROVE  Ordered'
<1>0. /\ wire \in Seq(Packets) /\ wire # <<>> /\ wire' = Tail(wire)
      /\ UNCHANGED <<pc, offset, frame>>
      /\ Offsets' = Offsets /\ UniverseCount' = UniverseCount /\ frame \in Nat
    BY SystemKeepsArgs DEF IInv, WireOK, Locals, Deliver, Lose, senderVars
<1>1. /\ Len(wire) \in Nat \ {0} /\ Len(wire') = Len(wire) - 1
      /\ \A i \in 1 .. Len(wire') : wire'[i] = wire[i + 1]
      /\ Head(wire) = wire[1] /\ wire[1] \in Packets /\ wire[1].frame \in Nat
    BY <1>0, TailOfWire DEF Packets, DataPackets, SyncPackets
<1>2. OfThisRun(wire[1]) /\ Accepted(wire[1])
    BY <1>1 DEF WireInv, WireOfThisRun, IInv, WireOK
<1>3. hurt \subseteq hurt'
    BY DEF Deliver, Lose
<1>4. \/ /\ wire[1].kind = "data" => wire[1].frame \in hurt'
         /\ received' = received /\ staging' = staging
      \/ \A w \in received' : IF wire[1].kind = "data" /\ w = Offset(wire[1])
                              THEN staging'[w] = wire[1].frame
                              ELSE w \in received /\ staging'[w] = staging[w]
    <2>1. CASE Deliver
        BY <1>1, <1>2, <2>1, HandleStaging DEF Deliver
    <2>2. CASE Lose
        BY <1>1, <2>2 DEF Lose, boardVars
    <2> QED
        BY <2>1, <2>2
<1>5. InOrder'
    BY <1>1 DEF Ordered, InOrder
<1>6. ASSUME NEW f \in Nat, f \notin hurt', wire[1].frame <= f, NEW u, NEW j \in 2 .. Len(wire) + 1,
             Settled(f, u, j)
      PROVE  StillSettled(f, u, j - 1)
    BY <1>0, <1>1, <1>4, <1>6, HeadSettles DEF Ordered
<1>7. SyncsSettle'
    <2> SUFFICES ASSUME NEW j \in 1 .. Len(wire'), wire'[j].kind = "sync", wire'[j].frame \notin hurt',
                        NEW u \in Offsets, u < UniverseCount
                 PROVE  StillSettled(wire'[j].frame, u, j)
        BY <1>0 DEF SyncsSettle, Settled, StillSettled
    <2> DEFINE f == wire[j + 1].frame
    <2>1. wire'[j] = wire[j + 1] /\ j + 1 \in 2 .. Len(wire) + 1 /\ j + 1 \in 1 .. Len(wire)
        BY <1>1
    <2>2. f \in Nat /\ wire[1].frame <= f
        <3>1. wire[j + 1] \in Packets
            BY <1>0, <2>1, ElementOfSeq
        <3>2. f \in Nat
            BY <3>1 DEF Packets, DataPackets, SyncPackets
        <3>3. 1 \in 1 .. Len(wire) /\ 1 < j + 1
            BY <1>1
        <3> QED
            BY <2>1, <3>2, <3>3 DEF Ordered, InOrder
    <2>3. Settled(f, u, j + 1)
        BY <1>3, <2>1 DEF Ordered, SyncsSettle
    <2> HIDE DEF f
    <2>4. StillSettled(f, u, (j + 1) - 1)
        BY <1>6, <2>1, <2>2, <2>3 DEF f
    <2>5. (j + 1) - 1 = j
        OBVIOUS
    <2> QED
        BY <2>1, <2>4, <2>5 DEF f
<1>8. SweepSettles'
    <2> SUFFICES ASSUME pc \in {"sweep", "count", "sync"}, frame \notin hurt', NEW u \in Offsets, u < Sent
                 PROVE  StillSettled(frame, u, Len(wire) + 1 - 1)
        BY <1>0, <1>1 DEF SweepSettles, Sent, Settled, StillSettled
    <2>1. Settled(frame, u, Len(wire) + 1)
        BY <1>3 DEF Ordered, SweepSettles
    <2>2. wire[1].frame <= frame
        BY <1>0, <1>1, <1>2 DEF OfThisRun
    <2> QED
        BY <1>0, <1>1, <1>6, <2>1, <2>2
<1> QED
    BY <1>5, <1>7, <1>8 DEF Ordered

(* The first packet is doubled.                                            *)
LEMMA OrderedDoubles ==
    ASSUME IInv, WireInv, Ordered, Duplicate, [SystemNext]_allVars
    PROVE  Ordered'
<1>0. /\ wire \in Seq(Packets) /\ wire # <<>> /\ wire' = <<Head(wire)>> \o wire
      /\ UNCHANGED <<pc, offset, frame, received, staging, hurt>>
      /\ Offsets' = Offsets /\ UniverseCount' = UniverseCount
    BY SystemKeepsArgs DEF IInv, WireOK, Duplicate, senderVars, boardVars
<1>1. /\ Len(wire) \in Nat \ {0} /\ Len(wire') = Len(wire) + 1
      /\ \A i \in 1 .. Len(wire') : wire'[i] = IF i = 1 THEN wire[1] ELSE wire[i - 1]
    BY <1>0, DoubledWire
<1>2. \A i \in 1 .. Len(wire) : wire[i].frame \in Nat
    BY <1>0, ElementOfSeq DEF Packets, DataPackets, SyncPackets
<1>3. InOrder'
    <2> SUFFICES ASSUME NEW i \in 1 .. Len(wire'), NEW j \in 1 .. Len(wire'), i < j
                 PROVE  wire'[i].frame <= wire'[j].frame
        BY DEF InOrder
    <2>1. j - 1 \in 1 .. Len(wire) /\ wire'[j] = wire[j - 1]
        BY <1>1
    <2>2. CASE i = 1
        BY <1>1, <1>2, <2>1, <2>2 DEF Ordered, InOrder
    <2>3. CASE i # 1
        BY <1>1, <2>1, <2>3 DEF Ordered, InOrder
    <2> QED
        BY <2>2, <2>3
<1>4. ASSUME NEW f, NEW u, NEW j \in 1 .. Len(wire) + 1, Settled(f, u, j)
      PROVE  StillSettled(f, u, j + 1)
    <2>1. CASE SentBefore(wire, f, u, j)
        <3>1. PICK i \in 1 .. j - 1 : wire[i].kind = "data" /\ wire[i].frame = f /\ Offset(wire[i]) = u
            BY <2>1 DEF SentBefore
        <3>2. wire'[i + 1] = wire[i] /\ i + 1 \in 1 .. (j + 1) - 1
            BY <1>1, <3>1
        <3>3. SentBefore(wire', f, u, j + 1)
            BY <3>1, <3>2 DEF SentBefore, Offset
        <3> QED
            BY <3>3 DEF Settled, StillSettled, SettledIn
    <2>2. CASE Arrived(wire, received, staging, f, u)
        <3>1. \A i \in 1 .. Len(wire') : wire'[i].frame >= f
            BY <1>1, <2>2 DEF Arrived
        <3> QED
            BY <1>0, <2>2, <3>1 DEF Arrived, Settled, StillSettled, SettledIn
    <2> QED
        BY <1>4, <2>1, <2>2 DEF Settled, StillSettled, SettledIn
<1>5. SyncsSettle'
    <2> SUFFICES ASSUME NEW j \in 1 .. Len(wire'), wire'[j].kind = "sync", wire'[j].frame \notin hurt,
                        NEW u \in Offsets, u < UniverseCount
                 PROVE  StillSettled(wire'[j].frame, u, j)
        BY <1>0 DEF SyncsSettle, Settled, StillSettled
    <2>1. CASE j = 1
        <3>1. wire'[j] = wire[1] /\ 1 \in 1 .. Len(wire)
            BY <1>1, <2>1
        <3>2. Settled(wire[1].frame, u, 1)
            BY <3>1 DEF Ordered, SyncsSettle
        <3>3. Arrived(wire, received, staging, wire[1].frame, u)
            BY <3>2 DEF Settled, StillSettled, SettledIn, SentBefore
        <3>4. \A i \in 1 .. Len(wire') : wire'[i].frame >= wire[1].frame
            BY <1>1, <3>3 DEF Arrived
        <3> QED
            BY <1>0, <3>1, <3>3, <3>4 DEF Arrived, Settled, StillSettled, SettledIn
    <2>2. CASE j # 1
        <3>1. wire'[j] = wire[j - 1] /\ j - 1 \in 1 .. Len(wire) /\ j - 1 \in 1 .. Len(wire) + 1 /\ (j - 1) + 1 = j
            BY <1>1, <2>2
        <3>2. Settled(wire[j - 1].frame, u, j - 1)
            BY <3>1 DEF Ordered, SyncsSettle
        <3>3. StillSettled(wire[j - 1].frame, u, (j - 1) + 1)
            <4> DEFINE f == wire[j - 1].frame
            <4>1. Settled(f, u, j - 1)
                BY <3>2
            <4> HIDE DEF f
            <4>2. StillSettled(f, u, (j - 1) + 1)
                BY <1>4, <3>1, <4>1 DEF f
            <4> QED
                BY <4>2 DEF f
        <3> QED
            BY <3>1, <3>3
    <2> QED
        BY <2>1, <2>2
<1>6. SweepSettles'
    <2> SUFFICES ASSUME pc \in {"sweep", "count", "sync"}, frame \notin hurt, NEW u \in Offsets, u < Sent
                 PROVE  StillSettled(frame, u, (Len(wire) + 1) + 1)
        BY <1>0, <1>1 DEF SweepSettles, Sent, Settled, StillSettled
    <2>1. Settled(frame, u, Len(wire) + 1)
        BY DEF Ordered, SweepSettles
    <2> QED
        BY <1>0, <1>1, <1>4, <2>1
<1> QED
    BY <1>3, <1>5, <1>6 DEF Ordered

(* Nothing is sent and nothing is marked.                                  *)
LEMMA OrderedRests ==
    ASSUME Ordered, wire' = wire, hurt' = hurt, [SystemNext]_allVars,
           received' = {} \/ (received' = received /\ staging' = staging)
    PROVE  /\ InOrder' /\ SyncsSettle'
           /\ \A f, u, j : Settled(f, u, j) => StillSettled(f, u, j)
<1>1. \A f, u, j : Settled(f, u, j) => StillSettled(f, u, j)
    BY DEF Settled, StillSettled, SettledIn, SentBefore, Arrived, Offset
<1>2. Offsets' = Offsets /\ UniverseCount' = UniverseCount
    BY SystemKeepsArgs
<1> QED
    BY <1>1, <1>2 DEF Ordered, InOrder, SyncsSettle, Settled, StillSettled

(* The steps of the sender.                                                *)
LEMMA OrderedSends ==
    ASSUME IInv, WireInv, Ordered, Send, [SystemNext]_allVars
    PROVE  Ordered'
<1>0. /\ received' = received /\ staging' = staging /\ hurt' = hurt /\ Offsets' = Offsets
      /\ UniverseCount' = UniverseCount /\ offset \in Nat /\ frame \in Nat /\ args \in Args
      /\ wire \in Seq(Packets) /\ Len(wire) \in Nat
    BY SystemKeepsArgs DEF IInv, WireOK, Locals, Send, boardVars
<1>1. ASSUME wire' = wire,
             \/ pc' \notin {"sweep", "count", "sync"}
             \/ offset' = 0 /\ pc' # "count"
             \/ Sent' = Sent /\ frame' = frame /\ pc \in {"sweep", "count", "sync"}
      PROVE  Ordered'
    <2>1. InOrder' /\ SyncsSettle' /\ \A f, u, j : Settled(f, u, j) => StillSettled(f, u, j)
        BY <1>0, <1>1, OrderedRests
    <2>2. SweepSettles'
        <3>1. CASE pc' \notin {"sweep", "count", "sync"}
            BY <3>1 DEF SweepSettles
        <3>2. CASE offset' = 0 /\ pc' # "count"
            <4>1. Sent' = 0
                BY <3>2 DEF Sent
            <4>2. \A u \in Offsets' : ~(u < 0)
                BY <1>0, UniverseSent DEF Offsets
            <4> QED
                BY <4>1, <4>2 DEF SweepSettles
        <3>3. CASE Sent' = Sent /\ frame' = frame /\ pc \in {"sweep", "count", "sync"}
            <4> SUFFICES ASSUME frame \notin hurt, NEW u \in Offsets, u < Sent
                         PROVE  StillSettled(frame, u, Len(wire) + 1)
                BY <1>0, <1>1, <3>3 DEF SweepSettles, Settled, StillSettled
            <4>1. Settled(frame, u, Len(wire) + 1)
                BY <3>3 DEF Ordered, SweepSettles
            <4> QED
                BY <2>1, <4>1
        <3> QED
            BY <1>1, <3>1, <3>2, <3>3
    <2> QED
        BY <2>1, <2>2 DEF Ordered
<1>2. CASE SendData
    <2> DEFINE p == DataPacket(offset)
    <2>1. /\ pc = "sweep" /\ wire' = Append(wire, p) /\ pc' = "count" /\ UNCHANGED <<offset, frame>>
          /\ p \in Packets
        BY <1>2, DataTyped DEF SendData, IInv
    <2>2. p.frame = frame /\ p.kind = "data" /\ Offset(p) = offset
        BY <1>0, UniverseAssumption DEF DataPacket, Offset
    <2> HIDE DEF p
    <2>3. InOrder'
        BY <2>1, <2>2, AppendInOrder DEF Ordered
    <2>4. /\ Len(wire') = Len(wire) + 1
          /\ \A i \in 1 .. Len(wire') : wire'[i] = IF i <= Len(wire) THEN wire[i] ELSE p
        BY <1>0, <2>1
    <2>5. SyncsSettle'
        <3> SUFFICES ASSUME NEW j \in 1 .. Len(wire'), wire'[j].kind = "sync", wire'[j].frame \notin hurt,
                            NEW u \in Offsets, u < UniverseCount
                     PROVE  StillSettled(wire'[j].frame, u, j)
            BY <1>0 DEF SyncsSettle, Settled, StillSettled
        <3>1. j \in 1 .. Len(wire) /\ wire'[j] = wire[j] /\ j \in 1 .. Len(wire) + 1
            BY <1>0, <2>2, <2>4
        <3>2. Settled(wire[j].frame, u, j)
            BY <3>1 DEF Ordered, SyncsSettle
        <3>3. wire[j].frame \in Nat /\ wire[j].frame <= p.frame
            BY <1>0, <2>2, <3>1 DEF WireInv, WireOfThisRun, OfThisRun
        <3> DEFINE f == wire[j].frame
        <3>4. f \in Nat /\ p.frame >= f /\ Settled(f, u, j)
            BY <1>0, <2>2, <3>2, <3>3
        <3> HIDE DEF f
        <3>5. StillSettled(f, u, j)
            BY <1>0, <2>1, <3>1, <3>4, TailSettles
        <3> QED
            BY <3>1, <3>5 DEF f
    <2>6. SweepSettles'
        <3> SUFFICES ASSUME frame \notin hurt, NEW u \in Offsets, u < offset + 1
                     PROVE  StillSettled(frame, u, Len(wire) + 2)
            BY <1>0, <2>1, <2>4 DEF SweepSettles, Sent, Settled, StillSettled
        <3>1. CASE u < offset
            <4>1. Settled(frame, u, Len(wire) + 1)
                BY <2>1, <3>1 DEF Ordered, SweepSettles, Sent, Settled, StillSettled
            <4>2. StillSettled(frame, u, Len(wire) + 1)
                BY <1>0, <2>1, <2>2, <4>1, TailSettles
            <4>3. SentBefore(wire', frame, u, Len(wire) + 1) => SentBefore(wire', frame, u, Len(wire) + 2)
                BY <1>0, <2>1, <2>4 DEF SentBefore
            <4> QED
                BY <4>2, <4>3 DEF Settled, StillSettled, SettledIn
        <3>2. CASE u = offset
            <4>1. Len(wire) + 1 \in 1 .. (Len(wire) + 2) - 1 /\ wire'[Len(wire) + 1] = p
                BY <1>0, <2>4
            <4>2. SentBefore(wire', frame, u, Len(wire) + 2)
                BY <2>1, <2>2, <2>4, <3>2, <4>1 DEF SentBefore, Offset
            <4> QED
                BY <4>2 DEF Settled, StillSettled, SettledIn
        <3>3. u \in Int
            BY <1>0, UniverseSent DEF Offsets
        <3> QED
            BY <1>0, <3>1, <3>2, <3>3
    <2> QED
        BY <2>3, <2>5, <2>6 DEF Ordered
<1>3. CASE SendSync
    <2> DEFINE p == SyncPacket
    <2>1. /\ pc = "sync" /\ wire' = Append(wire, p) /\ pc' = "countSync" /\ UNCHANGED <<offset, frame>>
          /\ p \in Packets
        BY <1>3, SyncTyped DEF SendSync, IInv
    <2>2. p.frame = frame
        BY DEF SyncPacket
    <2> HIDE DEF p
    <2>3. InOrder'
        BY <2>1, <2>2, AppendInOrder DEF Ordered
    <2>4. /\ Len(wire') = Len(wire) + 1
          /\ \A i \in 1 .. Len(wire') : wire'[i] = IF i <= Len(wire) THEN wire[i] ELSE p
        BY <1>0, <2>1
    <2>5. SyncsSettle'
        <3> SUFFICES ASSUME NEW j \in 1 .. Len(wire'), wire'[j].kind = "sync", wire'[j].frame \notin hurt,
                            NEW u \in Offsets, u < UniverseCount
                     PROVE  StillSettled(wire'[j].frame, u, j)
            BY <1>0 DEF SyncsSettle, Settled, StillSettled
        <3> DEFINE f == wire'[j].frame
        <3>1. f \in Nat /\ p.frame >= f /\ Settled(f, u, j) /\ j \in 1 .. Len(wire) + 1
            <4>1. CASE j \in 1 .. Len(wire)
                <5>1. wire'[j] = wire[j]
                    BY <1>0, <2>4, <4>1
                <5>2. Settled(wire[j].frame, u, j)
                    BY <4>1, <5>1 DEF Ordered, SyncsSettle
                <5>3. wire[j].frame \in Nat /\ wire[j].frame <= p.frame
                    BY <1>0, <2>2, <4>1 DEF WireInv, WireOfThisRun, OfThisRun
                <5> QED
                    BY <1>0, <2>2, <4>1, <5>1, <5>2, <5>3
            <4>2. CASE j = Len(wire) + 1
                <5>1. wire'[j] = p
                    BY <1>0, <2>4, <4>2
                <5>2. u < offset
                    <6>1. ~InSweep
                        BY <2>1 DEF WireInv, InPlace
                    <6>2. offset >= UniverseCount \/ offset >= ExpectedUniverses
                        BY <1>0, <6>1, UniverseSent DEF InSweep
                    <6> QED
                        BY <1>0, <6>2, UniverseSent DEF Offsets
                <5>3. Settled(frame, u, Len(wire) + 1)
                    BY <1>0, <2>1, <2>2, <5>1, <5>2 DEF Ordered, SweepSettles, Sent, Settled, StillSettled
                <5> QED
                    BY <1>0, <2>2, <4>2, <5>1, <5>3
            <4> QED
                BY <1>0, <2>4, <4>1, <4>2
        <3>2. StillSettled(f, u, j)
            <4> DEFINE g == f
            <4>1. g \in Nat /\ p.frame >= g /\ Settled(g, u, j)
                BY <3>1
            <4> HIDE DEF f, g
            <4>2. StillSettled(g, u, j)
                BY <1>0, <2>1, <3>1, <4>1, TailSettles
            <4> QED
                BY <4>2 DEF g
        <3> QED
            BY <3>2
    <2>6. SweepSettles'
        BY <2>1 DEF SweepSettles
    <2> QED
        BY <2>3, <2>5, <2>6 DEF Ordered
<1>4. CASE StartSweep
    BY <1>1, <1>4 DEF StartSweep
<1>5. CASE CountData
    BY <1>1, <1>5 DEF CountData, Sent
<1>6. CASE EndSweep
    BY <1>1, <1>6 DEF EndSweep, Sent
<1>7. CASE CountSync \/ Pace \/ Wake \/ Finish \/ Interrupt
    BY <1>1, <1>7 DEF CountSync, Pace, Wake, Finish, Interrupt
<1>8. CASE Tick
    BY <1>1, <1>8 DEF Tick, Sent
<1> QED
    BY <1>2, <1>3, <1>4, <1>5, <1>6, <1>7, <1>8 DEF Send, Main

LEMMA SyncInvStep ==
    IInv /\ WireInv /\ BoardInv /\ Silent /\ SyncInv /\ [SystemNext]_allVars => SyncInv'
<1> SUFFICES ASSUME IInv, WireInv, BoardInv, Silent, SyncInv, [SystemNext]_allVars, faults'.late = 0
             PROVE  Ordered'
    BY DEF SyncInv
<1>1. faults \in [FaultKinds -> Nat]
    BY DEF BoardInv, BoardTypes
<1>2. ASSUME NEW k \in FaultKinds, Happens(k) PROVE faults.late = 0 /\ k # "late"
    <2>1. faults'["late"] = IF k = "late" THEN faults["late"] + 1 ELSE faults["late"]
        BY <1>1, <1>2 DEF Happens, FaultKinds
    <2> QED
        BY <1>1, <2>1 DEF FaultKinds
<1>3. ASSUME faults.late = 0 PROVE Ordered
    BY <1>3 DEF SyncInv
<1>4. CASE Send
    BY <1>3, <1>4, OrderedSends DEF Send
<1>5. CASE Deliver
    <2>1. faults' = faults \/ Happens("refused")
        BY <1>5 DEF Deliver, Handle, HandleData, HandleSync, Commit
    <2>2. faults.late = 0
        BY <1>2, <2>1 DEF FaultKinds
    <2> QED
        BY <1>3, <1>5, <2>2, OrderedShrinks
<1>6. CASE Lose
    BY <1>2, <1>3, <1>6, OrderedShrinks DEF Lose, FaultKinds
<1>7. CASE Duplicate
    BY <1>2, <1>3, <1>7, OrderedDoubles DEF Duplicate, FaultKinds
<1>8. ~Delay
    BY <1>2 DEF Delay, FaultKinds
<1>9. CASE Blackout \/ UNCHANGED allVars
    <2>1. /\ faults.late = 0 /\ wire' = wire /\ hurt' = hurt /\ UNCHANGED <<pc, offset, frame>>
          /\ received' = {} \/ (received' = received /\ staging' = staging)
        BY <1>2, <1>9 DEF Blackout, ClearAssembly, FaultKinds, allVars, vars, senderVars, boardVars
    <2>2. InOrder' /\ SyncsSettle' /\ \A f, u, j : Settled(f, u, j) => StillSettled(f, u, j)
        BY <1>3, <2>1, OrderedRests
    <2>3. SweepSettles'
        BY <1>3, <2>1, <2>2, SystemKeepsArgs DEF Ordered, SweepSettles, Sent, Settled, StillSettled
    <2> QED
        BY <2>2, <2>3 DEF Ordered
<1> QED
    BY <1>4, <1>5, <1>6, <1>7, <1>8, <1>9 DEF SystemNext

----
(* A run by count never starts a frame too many.                           *)
FrameCounted ==
    args.packet_count > 0 => /\ frame <= args.packet_count
                             /\ pc \in Steps \ {"check", "done"} => frame < args.packet_count

LEMMA InitFrameCounted == SystemInit => FrameCounted
<1> SUFFICES ASSUME SystemInit PROVE FrameCounted
    OBVIOUS
<1>1. args.packet_count \in Nat
    BY Commands DEF SystemInit, Init
<1> QED
    BY <1>1 DEF SystemInit, Init, FrameCounted

LEMMA FrameCountedStep == IInv /\ FrameCounted /\ [SystemNext]_allVars => FrameCounted'
<1> SUFFICES ASSUME IInv, FrameCounted, [SystemNext]_allVars, args.packet_count > 0
             PROVE  /\ frame' <= args.packet_count
                    /\ pc' \in Steps \ {"check", "done"} => frame' < args.packet_count
    BY SystemKeepsArgs DEF FrameCounted
<1>1. args.packet_count \in Nat /\ frame \in Nat /\ pc \in Steps
    BY Commands DEF IInv, Locals
<1>2. /\ frame <= args.packet_count
      /\ pc \in Steps \ {"check", "done"} => frame < args.packet_count
    BY <1>1 DEF FrameCounted
<1>3. CASE UNCHANGED <<frame, pc>>
    BY <1>1, <1>2, <1>3
<1>4. CASE StartSweep
    BY <1>1, <1>2, <1>4 DEF StartSweep, MoreFrames
<1>5. CASE Pace
    BY <1>1, <1>2, <1>5 DEF Pace, MoreFrames, Steps
<1>6. CASE SendData \/ CountData \/ EndSweep \/ SendSync \/ CountSync
    BY <1>1, <1>2, <1>6 DEF SendData, CountData, EndSweep, SendSync, CountSync, Steps
<1>7. CASE Finish \/ Wake \/ Interrupt
    BY <1>1, <1>2, <1>7 DEF Finish, Wake, Interrupt
<1> QED
    BY <1>3, <1>4, <1>5, <1>6, <1>7
    DEF SystemNext, Send, Main, Tick, Deliver, Lose, Duplicate, Delay, Blackout, allVars, vars, senderVars

----
(* A healthy network and a run that shows frames.                          *)
ShowsFrames == SyncsItself /\ SendsEveryUniverse /\ ~args.preview /\ ~args.stream_terminate
                  /\ Offsets # {}
Healthy == Trouble = 0 /\ ShowsFrames

(* The packets in the order they are sent: their frame and position in it. *)
LastPos == IF args.send_sync THEN ExpectedUniverses ELSE ExpectedUniverses - 1
Pos(p) == IF p.kind = "data" THEN Offset(p) ELSE ExpectedUniverses
Comes(g, q, f, o) == IF q <= LastPos THEN f = g /\ o = q ELSE f = g + 1 /\ o = 0
Follows(p, f, o) == Comes(p.frame, Pos(p) + 1, f, o)

ChainOn(w) == \A i \in 1 .. Len(w) - 1 : Follows(w[i], w[i + 1].frame, Pos(w[i + 1]))
Chain == ChainOn(wire)

(* The sender sends packet f, o next.                                      *)
SenderAt(f, o) ==
    /\ pc = "sweep" => Comes(frame, offset, f, o)
    /\ pc = "count" => Comes(frame, offset + 1, f, o)
    /\ pc = "sync" => f = frame /\ o = ExpectedUniverses
    /\ pc \in {"countSync", "pace"} => f = frame + 1 /\ o = 0
    /\ pc \in {"check", "sleep"} => f = frame /\ o = 0
    /\ pc = "done" /\ frame = args.packet_count /\ frame > 0 => f = frame /\ o = 0

(* The board has everything before packet g, q.                            *)
BoardAt(g, q) ==
    /\ received = 0 .. q - 1
    /\ \A u \in received : staging[u] = g
    /\ \A u \in Offsets \ received : lastSequence[u] = None
    /\ pending <=> received = Offsets
    /\ shown = IF g = 0 THEN NoWords ELSE [u \in Offsets |-> g - 1]
    /\ anomalies = 0

BetweenOn(w, f, o, g, q) ==
    IF w = <<>> THEN g = f /\ q = o
    ELSE g = w[1].frame /\ q = Pos(w[1]) /\ Follows(w[Len(w)], f, o)
Between(f, o, g, q) == BetweenOn(wire, f, o, g, q)

(* Board, wire and sender follow one another without a gap.                *)
InStep == Healthy => Chain /\ \E f, o, g, q \in Nat : SenderAt(f, o) /\ BoardAt(g, q) /\ Between(f, o, g, q)

LEMMA InitInStep == SystemInit => InStep
<1> SUFFICES ASSUME SystemInit, Healthy PROVE Chain /\ \E f, o, g, q \in Nat : SenderAt(f, o) /\ BoardAt(g, q) /\ Between(f, o, g, q)
    BY DEF InStep
<1>1. /\ wire = <<>> /\ pc = "check" /\ frame = 0 /\ received = {} /\ pending = FALSE /\ shown = NoWords
      /\ lastSequence = NoSequences /\ anomalies = 0
    BY DEF SystemInit, Init, BoardInit
<1>2. Chain
    BY <1>1 DEF Chain, ChainOn
<1>3. SenderAt(0, 0)
    BY <1>1 DEF SenderAt
<1>4. BoardAt(0, 0)
    BY <1>1 DEF BoardAt, NoSequences, Healthy, ShowsFrames
<1>5. Between(0, 0, 0, 0)
    BY <1>1 DEF Between, BetweenOn
<1> QED
    BY <1>2, <1>3, <1>4, <1>5

(* A step after which there was no trouble is none of the network's.       *)
LEMMA TroubleFree ==
    ASSUME BoardInv, [SystemNext]_allVars, Healthy'
    PROVE  /\ Healthy /\ faults' = faults
           /\ Send \/ Deliver \/ UNCHANGED allVars
<1>1. faults \in [FaultKinds -> Nat]
    BY DEF BoardInv, BoardTypes
<1>2. /\ faults["lost"] \in Nat /\ faults["duplicated"] \in Nat /\ faults["late"] \in Nat
      /\ faults["blackouts"] \in Nat /\ faults["refused"] \in Nat
    BY <1>1 DEF FaultKinds
<1>3. Trouble' = 0
    BY DEF Healthy
<1>4. ASSUME NEW k \in FaultKinds, Happens(k) PROVE FALSE
    <2>1. /\ faults'["lost"] = IF k = "lost" THEN faults["lost"] + 1 ELSE faults["lost"]
          /\ faults'["duplicated"] = IF k = "duplicated" THEN faults["duplicated"] + 1 ELSE faults["duplicated"]
          /\ faults'["late"] = IF k = "late" THEN faults["late"] + 1 ELSE faults["late"]
          /\ faults'["blackouts"] = IF k = "blackouts" THEN faults["blackouts"] + 1 ELSE faults["blackouts"]
          /\ faults'["refused"] = IF k = "refused" THEN faults["refused"] + 1 ELSE faults["refused"]
        BY <1>1, <1>4 DEF Happens, FaultKinds
    <2>2. faults'["lost"] + faults'["duplicated"] + faults'["late"] + faults'["blackouts"] + faults'["refused"] = 0
        BY <1>3 DEF Trouble
    <2>3. k \in {"lost", "duplicated", "late", "blackouts", "refused"}
        BY DEF FaultKinds
    <2> QED
        BY <1>2, <2>1, <2>2, <2>3
<1>5. ~Lose /\ ~Duplicate /\ ~Delay /\ ~Blackout
    BY <1>4 DEF Lose, Duplicate, Delay, Blackout, FaultKinds
<1>6. Send \/ Deliver \/ UNCHANGED allVars
    BY <1>5 DEF SystemNext
<1>7. faults' = faults
    <2>1. ~Happens("refused")
        BY <1>4 DEF FaultKinds
    <2> QED
        BY <1>6, <2>1 DEF Send, Deliver, Handle, HandleData, HandleSync, Commit, allVars
<1>8. Healthy
    BY <1>7, SystemKeepsArgs DEF Healthy, ShowsFrames, Trouble
<1> QED
    BY <1>6, <1>7, <1>8

(* One more packet, and the board is one packet further.                   *)
LEMMA HandleInStep ==
    ASSUME IInv, BoardInv, Healthy, [SystemNext]_allVars, faults' = faults,
           NEW p \in Packets, OfThisRun(p), Accepted(p), Handle(p),
           NEW g \in Nat, NEW q \in Nat, g = p.frame, q = Pos(p), BoardAt(g, q),
           NEW f \in Nat, NEW o \in Nat, Follows(p, f, o)
    PROVE  BoardAt(f, o)'
<1>0. /\ args' = args /\ Offsets' = Offsets /\ NoWords' = NoWords /\ args \in Args
      /\ faults \in [FaultKinds -> Nat] /\ received \subseteq Offsets /\ staging \in Words
      /\ ExpectedUniverses \in Nat
    BY SystemKeepsArgs, UniverseSent DEF IInv, Locals, BoardInv, BoardTypes
<1>1. /\ ~args.preview /\ ~args.stream_terminate /\ Offsets # {} /\ Offsets = 0 .. ExpectedUniverses - 1
      /\ ExpectedUniverses > 0
    BY <1>0 DEF Healthy, ShowsFrames, Offsets
<1>2. ~Happens("refused")
    <2>1. ASSUME Happens("refused") PROVE FALSE
        <3>1. faults'["refused"] = faults["refused"] + 1 /\ faults["refused"] \in Nat
            BY <1>0, <2>1 DEF Happens, FaultKinds
        <3> QED
            BY <3>1
    <2> QED
        BY <2>1
<1>3. ASSUME NEW asm, NEW seen, NEW words, Commit(asm, seen, words), words \in Words,
             \A u \in Offsets : words[u] = g, UNCHANGED anomalies \/ anomalies' = 0,
             LastPos < q + 1
      PROVE  BoardAt(f, o)'
    <2>1. /\ shown' = words /\ received' = {} /\ lastSequence' = NoSequences /\ pending' = FALSE
        BY <1>2, <1>3 DEF Commit, ClearAssembly
    <2>2. f = g + 1 /\ o = 0
        <3>1. LastPos \in Int
            BY <1>0 DEF LastPos
        <3> QED
            BY <1>3, <3>1 DEF Follows, Comes
    <2>3. words = [u \in Offsets |-> f - 1]
        <3>1. \A u \in Offsets : words[u] = f - 1
            BY <1>3, <2>2
        <3> QED
            BY <1>3, <3>1 DEF Words
    <2>4. anomalies' = 0
        BY <1>3 DEF BoardAt
    <2>5. f # 0 /\ 0 .. o - 1 = {}
        BY <2>2
    <2>6. \A u \in Offsets : NoSequences[u] = None
        BY DEF NoSequences
    <2> QED
        BY <1>0, <1>1, <2>1, <2>3, <2>4, <2>5, <2>6 DEF BoardAt
<1>4. CASE p.kind = "sync" /\ pending /\ UNCHANGED anomalies /\ Commit(received, lastSequence, staging)
    <2>1. q = ExpectedUniverses
        BY <1>4 DEF Pos
    <2>2. received = Offsets /\ \A u \in Offsets : staging[u] = g
        BY <1>4 DEF BoardAt
    <2>3. LastPos < q + 1
        BY <1>0, <2>1 DEF LastPos
    <2> QED
        BY <1>0, <1>3, <1>4, <2>2, <2>3
<1>5. CASE p.kind = "sync" /\ ~pending
    <2>1. q = ExpectedUniverses
        BY <1>5 DEF Pos
    <2>2. received = Offsets
        BY <1>1, <2>1 DEF BoardAt
    <2> QED
        BY <1>5, <2>2 DEF BoardAt
<1>6. ASSUME NEW asm, NEW seen, NEW words, Takes(p, asm, seen, words),
             anomalies' = IF lastSequence[Offset(p)] # None /\ p.sequence # Expected(Offset(p))
                          THEN anomalies + 1 ELSE anomalies,
             IF Complete(asm) /\ ~WaitsForSync(p) THEN Commit(asm, seen, words)
             ELSE Keeps(asm, seen, words)
      PROVE  BoardAt(f, o)'
    <2>0. /\ q = Offset(p) /\ q \in Offsets
        <3>1. p.kind = "data" /\ Offset(p) \in Offsets
            BY <1>6 DEF Takes, OfThisRun
        <3> QED
            BY <3>1 DEF Pos
    <2>9. q < ExpectedUniverses
        BY <1>0, <1>1, <2>0
    <2>1. /\ asm = received \cup {q} /\ received = 0 .. q - 1
          /\ seen = [lastSequence EXCEPT ![q] = p.sequence] /\ words = [staging EXCEPT ![q] = g]
          /\ q < ExpectedUniverses /\ q \in Offsets /\ q = Offset(p)
        BY <1>6, <2>0, <2>9 DEF Takes, BoardAt
    <2>2. asm = 0 .. q
        BY <2>1
    <2>3. anomalies' = 0
        <3>1. q \in Offsets \ received
            BY <2>1
        <3>2. lastSequence[Offset(p)] = None /\ anomalies = 0
            BY <2>1, <3>1 DEF BoardAt
        <3> QED
            BY <1>6, <3>2
    <2>4. words \in Words /\ \A u \in asm : words[u] = g
        <3>1. words \in Words
            BY <1>0, <2>1 DEF Words
        <3>2. \A u \in asm : words[u] = IF u = q THEN g ELSE staging[u]
            BY <1>0, <2>1 DEF Words
        <3>3. \A u \in received : staging[u] = g
            BY DEF BoardAt
        <3> QED
            BY <2>1, <3>1, <3>2, <3>3
    <2>5. Complete(asm) <=> q + 1 = ExpectedUniverses
        <3>1. asm \in SUBSET Offsets
            BY <1>0, <2>1
        <3>2. Complete(asm) <=> asm = Offsets
            BY <1>0, <3>1, CompleteIsAll
        <3>3. asm = Offsets <=> q + 1 = ExpectedUniverses
            <4>1. q \in Nat /\ ExpectedUniverses \in Nat /\ q < ExpectedUniverses
                BY <1>0, <2>1
            <4>2. q + 1 # ExpectedUniverses => q + 1 \in 0 .. ExpectedUniverses - 1 /\ q + 1 \notin 0 .. q
                BY <4>1
            <4>3. q + 1 = ExpectedUniverses => 0 .. q = 0 .. ExpectedUniverses - 1
                BY <4>1
            <4> QED
                BY <1>1, <2>2, <4>2, <4>3
        <3> QED
            BY <3>2, <3>3
    <2>6. WaitsForSync(p) <=> args.send_sync
        <3>1. p.sync_address = SyncAddress
            BY DEF OfThisRun
        <3>2. SyncAddress # 0 => args.send_sync
            BY DEF Healthy, ShowsFrames, SyncsItself
        <3>3. args.send_sync => SyncAddress # 0
            BY SyncAssumption DEF SyncAddress
        <3> QED
            BY <3>1, <3>2, <3>3 DEF WaitsForSync
    <2>7. CASE q + 1 = ExpectedUniverses /\ ~args.send_sync
        <3>1. Commit(asm, seen, words)
            BY <1>6, <2>5, <2>6, <2>7
        <3>2. LastPos < q + 1
            BY <1>0, <2>7 DEF LastPos
        <3>3. asm = Offsets
            BY <1>1, <2>2, <2>7
        <3> QED
            BY <1>3, <2>3, <2>4, <3>1, <3>2, <3>3
    <2>8. CASE ~(q + 1 = ExpectedUniverses /\ ~args.send_sync)
        <3>1. Keeps(asm, seen, words)
            BY <1>6, <2>5, <2>6, <2>8
        <3>2. q + 1 <= LastPos
            BY <1>0, <2>1, <2>8 DEF LastPos
        <3>3. f = g /\ o = q + 1
            BY <3>2 DEF Follows, Comes
        <3>4. /\ received' = asm /\ lastSequence' = seen /\ staging' = words /\ shown' = shown
              /\ pending' = (pending \/ Complete(asm))
            BY <3>1 DEF Keeps
        <3>5. received' = 0 .. o - 1 /\ \A u \in received' : staging'[u] = f
            BY <2>2, <2>4, <3>3, <3>4
        <3>6. \A u \in Offsets \ received' : lastSequence'[u] = None
            <4>1. \A u \in Offsets \ asm : u \in Offsets \ received /\ u # q
                BY <2>1
            <4>2. lastSequence \in Sequences
                BY DEF BoardInv, BoardTypes
            <4>3. \A u \in Offsets \ asm : seen[u] = lastSequence[u]
                BY <2>1, <4>1, <4>2 DEF Sequences
            <4> QED
                BY <3>4, <4>1, <4>3 DEF BoardAt
        <3>7. pending' <=> received' = Offsets
            <4>1. ~pending
                BY <1>0, <2>1 DEF BoardAt
            <4>2. Complete(asm) <=> asm = Offsets
                <5>1. asm \in SUBSET Offsets
                    BY <1>0, <2>1
                <5> QED
                    BY <1>0, <5>1, CompleteIsAll
            <4> QED
                BY <3>4, <4>1, <4>2
        <3> QED
            BY <1>0, <2>3, <3>3, <3>4, <3>5, <3>6, <3>7 DEF BoardAt
    <2> QED
        BY <2>7, <2>8
<1>7. p.kind \in {"data", "sync"}
    BY DEF Packets, DataPackets, SyncPackets
<1> QED
    BY <1>1, <1>4, <1>5, <1>6, <1>7, HandleCases

----
(* The chain after a step, in terms of the packets then on the wire.       *)
LEMMA StepKeepsChain ==
    ASSUME [SystemNext]_allVars
    PROVE  /\ ChainOn(wire') => Chain'
           /\ \A f, o, g, q : BetweenOn(wire', f, o, g, q) => Between(f, o, g, q)'
           /\ LastPos' = LastPos
BY SystemKeepsArgs DEF Chain, ChainOn, Between, BetweenOn, Follows, Comes, LastPos, Pos, Offset

LEMMA BoardRests ==
    ASSUME [SystemNext]_allVars, UNCHANGED boardVars, NEW g, NEW q, BoardAt(g, q)
    PROVE  BoardAt(g, q)'
BY SystemKeepsArgs DEF BoardAt, boardVars

(* What the position of the sender in a healthy run rests on.              *)
LEMMA Positions ==
    ASSUME IInv, ShowsFrames
    PROVE  /\ ExpectedUniverses \in Nat \ {0} /\ UniverseCount \in Nat /\ UniverseCount >= ExpectedUniverses
           /\ args.send_sync \in BOOLEAN
           /\ LastPos = (IF args.send_sync THEN ExpectedUniverses ELSE ExpectedUniverses - 1)
           /\ LastPos \in Nat /\ frame \in Nat /\ offset \in Nat
<1>1. args \in Args /\ frame \in Nat /\ offset \in Nat
    BY DEF IInv, Locals
<1>2. ExpectedUniverses \in Nat /\ UniverseCount \in Nat /\ args.send_sync \in BOOLEAN
    BY <1>1, UniverseSent, Commands
<1>3. ExpectedUniverses # 0
    BY <1>2 DEF ShowsFrames, Offsets
<1> QED
    BY <1>1, <1>2, <1>3 DEF ShowsFrames, SendsEveryUniverse, LastPos

(* The next packet of the sender stays the same when it sends none.        *)
LEMMA SenderAdvances ==
    ASSUME IInv, WireInv, FrameCounted, ShowsFrames, Send, wire' = wire,
           NEW f \in Nat, NEW o \in Nat, SenderAt(f, o)
    PROVE  SenderAt(f, o)'
<1>0. [SystemNext]_allVars
    BY DEF SystemNext
<1>1. /\ args' = args /\ ExpectedUniverses' = ExpectedUniverses /\ LastPos' = LastPos
    BY <1>0, SystemKeepsArgs, StepKeepsChain
<1>2. /\ ExpectedUniverses \in Nat \ {0} /\ UniverseCount \in Nat /\ UniverseCount >= ExpectedUniverses
      /\ args.send_sync \in BOOLEAN
      /\ LastPos = (IF args.send_sync THEN ExpectedUniverses ELSE ExpectedUniverses - 1)
      /\ LastPos \in Nat /\ frame \in Nat /\ offset \in Nat /\ pc \in Steps
    BY Positions DEF IInv, Locals
<1>3. CASE Tick
    BY <1>1, <1>3 DEF Tick, SenderAt, Comes
<1>4. CASE Interrupt
    <2>1. pc # "done" /\ pc' = "done" /\ frame' = frame
        BY <1>4 DEF Interrupt
    <2>2. ASSUME frame = args.packet_count, frame > 0 PROVE f = frame /\ o = 0
        <3>1. pc = "check"
            BY <1>2, <2>1, <2>2 DEF FrameCounted, Steps
        <3> QED
            BY <3>1 DEF SenderAt
    <2> QED
        BY <1>1, <2>1, <2>2 DEF SenderAt
<1>5. CASE StartSweep
    BY <1>1, <1>2, <1>5 DEF StartSweep, SenderAt, Comes
<1>6. CASE Finish
    BY <1>1, <1>2, <1>6 DEF Finish, SenderAt
<1>7. CASE CountData
    BY <1>1, <1>2, <1>7 DEF CountData, SenderAt, Comes
<1>8. CASE EndSweep
    <2>1. offset = ExpectedUniverses
        <3>1. offset <= ExpectedUniverses /\ ~InSweep
            BY <1>8 DEF EndSweep, WireInv, InPlace
        <3>2. offset < ExpectedUniverses => InSweep
            BY <1>2, UniverseSent DEF InSweep, IInv, Locals
        <3> QED
            BY <1>2, <3>1, <3>2
    <2>2. /\ pc = "sweep" /\ frame' = frame
          /\ pc' = IF args.send_sync THEN "sync" ELSE "pace"
        BY <1>8 DEF EndSweep
    <2>3. Comes(frame, ExpectedUniverses, f, o)
        BY <2>1, <2>2 DEF SenderAt
    <2>4. IF args.send_sync THEN f = frame /\ o = ExpectedUniverses ELSE f = frame + 1 /\ o = 0
        BY <1>2, <2>3 DEF Comes
    <2> QED
        BY <1>1, <1>2, <2>2, <2>4 DEF SenderAt
<1>9. CASE CountSync
    BY <1>1, <1>2, <1>9 DEF CountSync, SenderAt
<1>10. CASE Pace
    <2>1. pc = "pace" /\ frame' = frame + 1 /\ pc' \in {"check", "sleep"}
        BY <1>10 DEF Pace
    <2> QED
        BY <1>1, <1>2, <2>1 DEF SenderAt
<1>11. CASE Wake
    BY <1>1, <1>2, <1>11 DEF Wake, SenderAt
<1>12. ~SendData /\ ~SendSync
    <2>1. wire \in Seq(Packets)
        BY DEF IInv, WireOK
    <2>2. \A p : Len(Append(wire, p)) # Len(wire)
        BY <2>1
    <2> QED
        BY <2>2 DEF SendData, SendSync
<1> QED
    BY <1>3, <1>4, <1>5, <1>6, <1>7, <1>8, <1>9, <1>10, <1>11, <1>12 DEF Send, Main

(* A packet more at the end, and a packet less at the front.               *)
LEMMA ChainGrows ==
    ASSUME wire \in Seq(Packets), Chain, NEW p \in Packets, wire' = Append(wire, p),
           NEW g, NEW q, Between(p.frame, Pos(p), g, q), NEW f, NEW o, Follows(p, f, o)
    PROVE  ChainOn(wire') /\ BetweenOn(wire', f, o, g, q)
<1>1. /\ Len(wire) \in Nat /\ Len(wire') = Len(wire) + 1 /\ wire' # <<>>
      /\ \A i \in 1 .. Len(wire') : wire'[i] = IF i <= Len(wire) THEN wire[i] ELSE p
    OBVIOUS
<1>2. wire'[Len(wire')] = p
    BY <1>1
<1>3. CASE wire = <<>>
    <2>1. Len(wire) = 0 /\ wire'[1] = p
        BY <1>1, <1>3
    <2>2. g = p.frame /\ q = Pos(p)
        BY <1>3 DEF Between, BetweenOn
    <2> QED
        BY <1>1, <1>2, <2>1, <2>2 DEF ChainOn, BetweenOn
<1>4. CASE wire # <<>>
    <2>1. Len(wire) > 0
        BY <1>1, <1>4, EmptySeq
    <2>2. g = wire[1].frame /\ q = Pos(wire[1]) /\ Follows(wire[Len(wire)], p.frame, Pos(p))
        BY <1>4 DEF Between, BetweenOn
    <2>3. wire'[1] = wire[1]
        BY <1>1, <2>1
    <2>4. ASSUME NEW i \in 1 .. Len(wire') - 1
          PROVE  Follows(wire'[i], wire'[i + 1].frame, Pos(wire'[i + 1]))
        <3>1. CASE i = Len(wire)
            <4>1. wire'[i] = wire[Len(wire)] /\ wire'[i + 1] = p
                BY <1>1, <2>1, <3>1
            <4> QED
                BY <2>2, <4>1
        <3>2. CASE i # Len(wire)
            <4>1. i \in 1 .. Len(wire) - 1 /\ wire'[i] = wire[i] /\ wire'[i + 1] = wire[i + 1]
                BY <1>1, <2>4, <3>2
            <4> QED
                BY <4>1 DEF Chain, ChainOn
        <3> QED
            BY <3>1, <3>2
    <2> QED
        BY <1>1, <1>2, <2>2, <2>3, <2>4 DEF ChainOn, BetweenOn
<1> QED
    BY <1>3, <1>4

LEMMA ChainShrinks ==
    ASSUME wire \in Seq(Packets), Chain, wire # <<>>, wire' = Tail(wire),
           NEW f \in Nat, NEW o \in Nat, NEW g, NEW q, Between(f, o, g, q),
           \A i \in 1 .. Len(wire) : wire[i].frame \in Nat /\ Pos(wire[i]) \in Nat
    PROVE  /\ g = wire[1].frame /\ q = Pos(wire[1])
           /\ ChainOn(wire')
           /\ \E g2, q2 \in Nat : Follows(wire[1], g2, q2) /\ BetweenOn(wire', f, o, g2, q2)
<1>1. /\ Len(wire) \in Nat \ {0} /\ wire' \in Seq(Packets) /\ Len(wire') = Len(wire) - 1
      /\ \A i \in 1 .. Len(wire') : wire'[i] = wire[i + 1]
    BY TailOfWire
<1>2. g = wire[1].frame /\ q = Pos(wire[1]) /\ Follows(wire[Len(wire)], f, o)
    BY DEF Between, BetweenOn
<1>3. ChainOn(wire')
    <2> SUFFICES ASSUME NEW i \in 1 .. Len(wire') - 1
                 PROVE  Follows(wire'[i], wire'[i + 1].frame, Pos(wire'[i + 1]))
        BY DEF ChainOn
    <2>1. i + 1 \in 1 .. Len(wire) - 1 /\ wire'[i] = wire[i + 1] /\ wire'[i + 1] = wire[(i + 1) + 1]
        BY <1>1
    <2> QED
        BY <2>1 DEF Chain, ChainOn
<1>4. CASE Len(wire) = 1
    <2>1. wire' = <<>>
        BY <1>1, <1>4, EmptySeq
    <2> QED
        BY <1>2, <1>3, <1>4, <2>1 DEF BetweenOn
<1>5. CASE Len(wire) # 1
    <2> DEFINE g2 == wire[2].frame
               q2 == Pos(wire[2])
    <2>1. /\ wire' # <<>> /\ wire'[1] = wire[2] /\ wire'[Len(wire')] = wire[Len(wire)]
          /\ 1 \in 1 .. Len(wire) - 1 /\ 2 \in 1 .. Len(wire) /\ 1 + 1 = 2
        BY <1>1, <1>5, EmptySeq
    <2>2. g2 \in Nat /\ q2 \in Nat
        BY <2>1
    <2>3. Follows(wire[1], g2, q2)
        BY <2>1 DEF Chain, ChainOn
    <2>4. BetweenOn(wire', f, o, g2, q2)
        BY <1>2, <2>1 DEF BetweenOn
    <2> QED
        BY <1>2, <1>3, <2>2, <2>3, <2>4
<1> QED
    BY <1>4, <1>5

LEMMA InStepStep ==
    IInv /\ WireInv /\ BoardInv /\ FrameCounted /\ InStep /\ [SystemNext]_allVars => InStep'
<1> SUFFICES ASSUME IInv, WireInv, BoardInv, FrameCounted, InStep, [SystemNext]_allVars, Healthy'
             PROVE  Chain' /\ \E f, o, g, q \in Nat : SenderAt(f, o)' /\ BoardAt(g, q)' /\ Between(f, o, g, q)'
    BY DEF InStep
<1>1. Healthy /\ faults' = faults /\ (Send \/ Deliver \/ UNCHANGED allVars)
    BY TroubleFree
<1>2. PICK f, o, g, q \in Nat : SenderAt(f, o) /\ BoardAt(g, q) /\ Between(f, o, g, q)
    BY <1>1 DEF InStep
<1>3. Chain /\ wire \in Seq(Packets) /\ Locals
    BY <1>1 DEF InStep, IInv, WireOK
<1>4. /\ ExpectedUniverses \in Nat \ {0} /\ args.send_sync \in BOOLEAN
      /\ LastPos = (IF args.send_sync THEN ExpectedUniverses ELSE ExpectedUniverses - 1)
      /\ LastPos \in Nat /\ frame \in Nat /\ offset \in Nat
      /\ ExpectedUniverses' = ExpectedUniverses /\ LastPos' = LastPos /\ args' = args
    BY <1>1, Positions, SystemKeepsArgs, StepKeepsChain DEF Healthy
<1>5. CASE Send /\ wire' = wire
    <2>1. SenderAt(f, o)'
        BY <1>1, <1>2, <1>5, SenderAdvances DEF Healthy
    <2>2. BoardAt(g, q)'
        BY <1>2, <1>5, BoardRests DEF Send
    <2>3. Chain' /\ Between(f, o, g, q)'
        BY <1>2, <1>3, <1>5, StepKeepsChain DEF Chain, Between
    <2> QED
        BY <2>1, <2>2, <2>3
<1>6. ASSUME NEW p \in Packets, wire' = Append(wire, p), p.frame = f, Pos(p) = o,
             NEW f2 \in Nat, NEW o2 \in Nat, Follows(p, f2, o2), SenderAt(f2, o2)', UNCHANGED boardVars
      PROVE  Chain' /\ \E a, b, c, d \in Nat : SenderAt(a, b)' /\ BoardAt(c, d)' /\ Between(a, b, c, d)'
    <2>1. ChainOn(wire') /\ BetweenOn(wire', f2, o2, g, q)
        BY <1>2, <1>3, <1>6, ChainGrows
    <2>2. BoardAt(g, q)'
        BY <1>2, <1>6, BoardRests
    <2>3. Chain' /\ Between(f2, o2, g, q)'
        BY <2>1, StepKeepsChain
    <2> QED
        BY <1>6, <2>2, <2>3
<1>7. CASE Send /\ SendData
    <2> DEFINE p == DataPacket(offset)
    <2>1. /\ pc = "sweep" /\ InSweep /\ wire' = Append(wire, p) /\ pc' = "count" /\ UNCHANGED boardVars
          /\ frame' = frame /\ offset' = offset
        BY <1>7 DEF Send, SendData
    <2>2. offset < ExpectedUniverses
        BY <1>3, <1>4, <2>1, UniverseSent DEF Locals, InSweep
    <2>3. f = frame /\ o = offset
        BY <1>2, <1>4, <2>1, <2>2 DEF SenderAt, Comes
    <2>4. p \in Packets
        BY <1>3, DataTyped
    <2>5. p.frame = frame /\ Pos(p) = offset
        BY <1>4, UniverseAssumption DEF DataPacket, Pos, Offset
    <2> HIDE DEF p
    <2>6. PICK f2, o2 \in Nat : Comes(frame, offset + 1, f2, o2)
        BY <1>4 DEF Comes
    <2>7. Follows(p, f2, o2)
        BY <2>5, <2>6 DEF Follows
    <2>8. SenderAt(f2, o2)'
        BY <1>4, <2>1, <2>6 DEF SenderAt, Comes
    <2> QED
        BY <1>6, <2>1, <2>3, <2>4, <2>5, <2>6, <2>7, <2>8
<1>8. CASE Send /\ SendSync
    <2> DEFINE p == SyncPacket
    <2>1. /\ pc = "sync" /\ wire' = Append(wire, p) /\ pc' = "countSync" /\ UNCHANGED boardVars
          /\ frame' = frame
        BY <1>8 DEF Send, SendSync
    <2>2. f = frame /\ o = ExpectedUniverses /\ args.send_sync
        BY <1>2, <2>1 DEF SenderAt, WireInv, InPlace
    <2>3. p \in Packets
        BY <1>3, SyncTyped
    <2>4. p.frame = frame /\ Pos(p) = ExpectedUniverses
        BY DEF SyncPacket, Pos
    <2> HIDE DEF p
    <2>5. PICK f2 \in Nat : f2 = frame + 1
        BY <1>4
    <2>6. Follows(p, f2, 0)
        BY <1>4, <2>2, <2>4, <2>5 DEF Follows, Comes
    <2>7. SenderAt(f2, 0)'
        BY <2>1, <2>5 DEF SenderAt
    <2> QED
        BY <1>6, <2>1, <2>2, <2>3, <2>4, <2>6, <2>7
<1>9. CASE Deliver
    <2>1. wire # <<>> /\ wire' = Tail(wire) /\ Handle(Head(wire)) /\ UNCHANGED senderVars
        BY <1>9 DEF Deliver
    <2>2. Head(wire) = wire[1] /\ wire[1] \in Packets /\ 1 \in 1 .. Len(wire)
        BY <1>3, <2>1, TailOfWire
    <2>3. OfThisRun(wire[1]) /\ Accepted(wire[1])
        BY <2>2 DEF WireInv, WireOfThisRun, IInv, WireOK
    <2>4. \A i \in 1 .. Len(wire) : wire[i].frame \in Nat /\ Pos(wire[i]) \in Nat
        <3> TAKE i \in 1 .. Len(wire)
        <3>1. OfThisRun(wire[i])
            BY DEF WireInv, WireOfThisRun
        <3>2. wire[i].frame \in Nat
            BY <1>4, <3>1 DEF OfThisRun
        <3>3. Pos(wire[i]) \in Nat
            <4>1. wire[i] \in Packets
                BY <1>3, ElementOfSeq
            <4>2. wire[i].kind = "data" => Offset(wire[i]) \in Nat
                BY <1>4, <3>1 DEF OfThisRun, Offsets
            <4> QED
                BY <1>4, <4>2 DEF Pos
        <3> QED
            BY <3>2, <3>3
    <2>10. wire # <<>> /\ wire' = Tail(wire) /\ wire \in Seq(Packets) /\ Chain /\ Between(f, o, g, q)
        BY <1>2, <1>3, <2>1
    <2>5. /\ g = wire[1].frame /\ q = Pos(wire[1])
          /\ ChainOn(wire')
          /\ \E g2, q2 \in Nat : Follows(wire[1], g2, q2) /\ BetweenOn(wire', f, o, g2, q2)
        BY <2>4, <2>10, ChainShrinks
    <2> DEFINE p == wire[1]
    <2>6. PICK g2, q2 \in Nat : Follows(p, g2, q2) /\ BetweenOn(wire', f, o, g2, q2)
        BY <2>5
    <2>7. Handle(p) /\ p \in Packets /\ OfThisRun(p) /\ Accepted(p) /\ g = p.frame /\ q = Pos(p)
        BY <2>1, <2>2, <2>3, <2>5
    <2> HIDE DEF p
    <2>8. BoardAt(g2, q2)'
        BY <1>1, <1>2, <2>6, <2>7, HandleInStep
    <2>9. SenderAt(f, o)'
        BY <1>2, <1>4, <2>1 DEF SenderAt, Comes, senderVars, counters
    <2> QED
        BY <2>5, <2>6, <2>8, <2>9, StepKeepsChain
<1>10. CASE UNCHANGED allVars
    <2>1. UNCHANGED <<boardVars, wire, pc, frame, offset>>
        BY <1>10 DEF allVars, vars, senderVars
    <2>2. SenderAt(f, o)'
        BY <1>2, <1>4, <2>1 DEF SenderAt, Comes
    <2>3. Chain' /\ Between(f, o, g, q)' /\ BoardAt(g, q)'
        BY <1>2, <1>3, <2>1, StepKeepsChain, BoardRests DEF Chain, Between
    <2> QED
        BY <2>2, <2>3
<1> QED
    BY <1>1, <1>5, <1>7, <1>8, <1>9, <1>10
    DEF Send, Main, StartSweep, Finish, CountData, EndSweep, CountSync, Pace, Wake, Interrupt, Tick

----
(* Torn frames.  While no packet is late, the board has handled or missed  *)
(* everything before a place g, q in the order of sending.                 *)
Follow(f, o, g, q) == Comes(f, o + 1, g, q)

(* What the board waits for: a universe that is missing; with all of them, *)
(* the sync packet, or after a refused commit any universe.                *)
Missing(r) == IF r # Offsets THEN Offsets \ r
              ELSE IF SyncAddress = 0 THEN Offsets ELSE {ExpectedUniverses}

(* A word of frame s is still there and u has not come: so many of the     *)
(* packets v and u between frame s and the place g, q were missed, and one *)
(* fault put u before v.                                                   *)
Passed(x, q) == IF x < q THEN 1 ELSE 0
Debt(s, v, u, g, q) == 2 * (g - s) - 1 + Passed(v, q) + Passed(u, q)

(* No more was missed than went wrong.                                     *)
Owed(r, s, t, g, q) ==
    /\ \A v \in r : s[v] < g \/ (s[v] = g /\ v < q)
    /\ \A v \in r, u \in Missing(r) : u # v => Debt(s[v], v, u, g, q) <= t
    /\ r = {} => q = 0 \/ t >= 1

FewSweeps(words, t) ==
    \A a, b \in Offsets : words[a] \in Nat /\ words[b] \in Nat => 2 * (words[a] - words[b]) <= 1 + t

(* A packet at f, w is the next one or, after a duplication, again the     *)
(* last.                                                                   *)
DueOrAgain(f, w, t, g, q) == (f = g /\ w = q) \/ (t >= 1 /\ Follow(f, w, g, q))

Sizes == /\ ExpectedUniverses \in Nat \ {0} /\ Offsets = 0 .. ExpectedUniverses - 1
         /\ LastPos \in {ExpectedUniverses - 1, ExpectedUniverses}
         /\ SyncAddress = 0 => LastPos = ExpectedUniverses - 1
         /\ SyncAddress # 0 => LastPos = ExpectedUniverses

(* Passing a packet raises the debt of its own universe by one.            *)
LEMMA DebtMoves ==
    ASSUME LastPos \in Nat, NEW s \in Nat, NEW v \in 0 .. LastPos, NEW u \in 0 .. LastPos,
           NEW f \in Nat, NEW w \in 0 .. LastPos, NEW g \in Nat, NEW q \in Nat,
           Follow(f, w, g, q)
    PROVE  Debt(s, v, u, g, q) = Debt(s, v, u, f, w) + (IF v = w THEN 1 ELSE 0)
                                                      + (IF u = w THEN 1 ELSE 0)
<1>0. IF w + 1 <= LastPos THEN g = f /\ q = w + 1 ELSE g = f + 1 /\ q = 0
    BY DEF Follow, Comes
<1>1. CASE w + 1 <= LastPos
    BY <1>0, <1>1 DEF Debt, Passed
<1>2. CASE ~(w + 1 <= LastPos)
    <2>1. v <= w /\ u <= w /\ w = LastPos /\ g = f + 1 /\ q = 0
        BY <1>0, <1>2
    <2> QED
        BY <2>1 DEF Debt, Passed
<1> QED
    BY <1>1, <1>2

LEMMA MissingType ==
    ASSUME Sizes, NEW r \in SUBSET Offsets
    PROVE  Missing(r) \subseteq 0 .. LastPos /\ r \subseteq 0 .. LastPos
<1>1. CASE r # Offsets
    BY <1>1 DEF Sizes, Missing
<1>2. CASE r = Offsets
    BY <1>2 DEF Sizes, Missing
<1> QED
    BY <1>1, <1>2

(* The board before a packet at f, w and the place after it.               *)
At(r, s, t, f, w, g, q, g2, q2) ==
    /\ Sizes
    /\ r \subseteq Offsets /\ (\A v \in r : s[v] \in Nat) /\ t \in Nat
    /\ f \in Nat /\ w \in 0 .. LastPos /\ g \in Nat /\ q \in Nat /\ g2 \in Nat /\ q2 \in Nat
    /\ Owed(r, s, t, g, q)
    /\ DueOrAgain(f, w, t, g, q) /\ Follow(f, w, g2, q2)

(* The words after the packet put f into universe w.                       *)
Overwrites(s2, r, s, f, w) == s2[w] = f /\ \A v \in r : v # w => s2[v] = s[v]

(* Of what was owed before the packet, in terms of its own place and the   *)
(* place after it: a repeated packet owes no more than the first.          *)
LEMMA AfterPacket ==
    ASSUME NEW r, NEW s, NEW t, NEW f, NEW w, NEW g, NEW q, NEW g2, NEW q2,
           At(r, s, t, f, w, g, q, g2, q2)
    PROVE  /\ \A v \in r : s[v] <= f /\ (s[v] < g2 \/ (s[v] = g2 /\ v < q2))
           /\ \A v \in r, u \in Missing(r) : u # v =>
                 /\ Debt(s[v], v, u, f, w) <= t
                 /\ Debt(s[v], v, u, g2, q2) <= t + (IF v = w THEN 1 ELSE 0) + (IF u = w THEN 1 ELSE 0)
                 /\ t = 0 => v < w /\ w <= u
           /\ r = {} => w = 0 \/ t >= 1
<1>1. /\ LastPos \in Nat /\ t \in Nat /\ f \in Nat /\ w \in 0 .. LastPos
      /\ g \in Nat /\ q \in Nat /\ g2 \in Nat /\ q2 \in Nat
      /\ r \in SUBSET Offsets /\ \A v \in r : s[v] \in Nat
    BY DEF At, Sizes
<1>2. Missing(r) \subseteq 0 .. LastPos /\ r \subseteq 0 .. LastPos
    BY <1>1, MissingType DEF At
<1>3. IF w + 1 <= LastPos THEN g2 = f /\ q2 = w + 1 ELSE g2 = f + 1 /\ q2 = 0
    BY DEF At, Follow, Comes
<1>31. Follow(f, w, g2, q2)
    BY DEF At
<1>4. (f = g /\ w = q) \/ (t >= 1 /\ g2 = g /\ q2 = q)
    BY DEF At, DueOrAgain, Follow, Comes
<1>5. /\ \A v \in r : s[v] < g \/ (s[v] = g /\ v < q)
      /\ \A v \in r, u \in Missing(r) : u # v => Debt(s[v], v, u, g, q) <= t
      /\ r = {} => q = 0 \/ t >= 1
    BY DEF At, Owed
<1>6. ASSUME NEW v \in r PROVE s[v] <= f /\ (s[v] < g2 \/ (s[v] = g2 /\ v < q2))
    <2>1. v \in 0 .. LastPos /\ s[v] \in Nat
        BY <1>1, <1>2
    <2> QED
        BY <1>1, <1>3, <1>4, <1>5, <2>1
<1>7. ASSUME NEW v \in r, NEW u \in Missing(r), u # v
      PROVE  /\ Debt(s[v], v, u, f, w) <= t
             /\ Debt(s[v], v, u, g2, q2) <= t + (IF v = w THEN 1 ELSE 0) + (IF u = w THEN 1 ELSE 0)
             /\ t = 0 => v < w /\ w <= u
    <2>1. v \in 0 .. LastPos /\ u \in 0 .. LastPos /\ s[v] \in Nat
        BY <1>1, <1>2
    <2>11. Debt(s[v], v, u, g2, q2) = Debt(s[v], v, u, f, w) + (IF v = w THEN 1 ELSE 0)
                                                          + (IF u = w THEN 1 ELSE 0)
        <3>1. \A x \in Nat : Debt(x, v, u, g2, q2) = Debt(x, v, u, f, w) + (IF v = w THEN 1 ELSE 0)
                                                                        + (IF u = w THEN 1 ELSE 0)
            <4> TAKE x \in Nat
            <4>1. /\ LastPos \in Nat /\ v \in 0 .. LastPos /\ u \in 0 .. LastPos
                  /\ f \in Nat /\ w \in 0 .. LastPos /\ g2 \in Nat /\ q2 \in Nat
                BY <1>1, <2>1
            <4> QED
                BY <1>31, <4>1, DebtMoves
        <3> QED
            BY <2>1, <3>1, Zenon
    <2> DEFINE d == Debt(s[v], v, u, f, w)
               d2 == Debt(s[v], v, u, g2, q2)
    <2>2. d2 = d + (IF v = w THEN 1 ELSE 0) + (IF u = w THEN 1 ELSE 0)
        BY <2>11
    <2>3. d \in Int /\ d2 \in Int
        BY <1>1, <2>1 DEF Debt, Passed
    <2>4. Debt(s[v], v, u, g, q) <= t
        BY <1>5, <1>7
    <2>5. CASE f = g /\ w = q
        <3>1. d <= t
            BY <2>4, <2>5
        <3>2. t = 0 => v < w /\ w <= u
            BY <1>1, <1>5, <2>1, <2>4, <2>5 DEF Debt, Passed
        <3> HIDE DEF d, d2
        <3> QED
            BY <1>1, <2>2, <2>3, <3>1, <3>2 DEF d, d2
    <2>6. CASE t >= 1 /\ g2 = g /\ q2 = q
        <3>1. d2 <= t
            BY <2>4, <2>6
        <3> HIDE DEF d, d2
        <3>2. d <= d2 /\ ~(t = 0)
            BY <1>1, <2>2, <2>3, <2>6
        <3> QED
            BY <1>1, <2>3, <2>2, <3>1, <3>2 DEF d, d2
    <2> QED
        BY <1>4, <2>5, <2>6
<1>8. r = {} => w = 0 \/ t >= 1
    BY <1>4, <1>5
<1> QED
    BY <1>6, <1>7, <1>8

(* A lost packet, and a sync packet that finds a universe missing.         *)
LEMMA PacketMissed ==
    ASSUME NEW r, NEW s, NEW t, NEW f, NEW w, NEW g, NEW q, NEW g2, NEW q2,
           At(r, s, t, f, w, g, q, g2, q2)
    PROVE  /\ Owed(r, s, t + 1, g2, q2)
           /\ w = ExpectedUniverses /\ r # Offsets => Owed(r, s, t, g2, q2)
<1>1. t \in Nat /\ w \in 0 .. LastPos /\ r \subseteq Offsets
    BY DEF At
<1>2. /\ \A v \in r : s[v] < g2 \/ (s[v] = g2 /\ v < q2)
      /\ \A v \in r, u \in Missing(r) : u # v =>
            Debt(s[v], v, u, g2, q2) <= t + (IF v = w THEN 1 ELSE 0) + (IF u = w THEN 1 ELSE 0)
    BY AfterPacket
<1>3. \A v \in r, u \in Missing(r) : Debt(s[v], v, u, g2, q2) \in Int
    <2> TAKE v \in r, u \in Missing(r)
    <2>1. r \in SUBSET Offsets /\ s[v] \in Nat /\ g2 \in Nat /\ q2 \in Nat
        BY DEF At
    <2> QED
        BY <2>1 DEF Debt, Passed
<1>4. Owed(r, s, t + 1, g2, q2)
    <2>1. \A v \in r, u \in Missing(r) : u # v => Debt(s[v], v, u, g2, q2) <= t + 1
        BY <1>1, <1>2, <1>3
    <2> QED
        BY <1>1, <1>2, <2>1 DEF Owed
<1>5. ASSUME w = ExpectedUniverses, r # Offsets PROVE Owed(r, s, t, g2, q2)
    <2>1. \A v \in r, u \in Missing(r) : v # w /\ u # w
        BY <1>1, <1>5 DEF At, Sizes, Missing
    <2>2. \A v \in r, u \in Missing(r) : u # v => Debt(s[v], v, u, g2, q2) <= t
        BY <1>1, <1>2, <1>3, <2>1
    <2>3. q2 = 0
        BY <1>5 DEF At, Sizes, Follow, Comes
    <2> QED
        BY <1>2, <2>2, <2>3 DEF Owed
<1> QED
    BY <1>4, <1>5

(* A universe that completes no frame, or one that waits for sync.         *)
LEMMA UniverseTaken ==
    ASSUME NEW r, NEW s, NEW t, NEW f, NEW w, NEW g, NEW q, NEW g2, NEW q2,
           At(r, s, t, f, w, g, q, g2, q2), w \in Offsets,
           r \cup {w} # Offsets \/ SyncAddress # 0, NEW s2, Overwrites(s2, r, s, f, w)
    PROVE  Owed(r \cup {w}, s2, t, g2, q2)
<1>11. PICK r2 : r2 = r \cup {w}
    OBVIOUS
<1>12. (r2 # Offsets \/ SyncAddress # 0) /\ s2[w] = f /\ \A v \in r : v # w => s2[v] = s[v]
    BY <1>11 DEF Overwrites
<1>1. /\ LastPos \in Nat /\ t \in Nat /\ f \in Nat /\ w \in 0 .. LastPos /\ g2 \in Nat /\ q2 \in Nat
      /\ r \in SUBSET Offsets /\ \A v \in r : s[v] \in Nat
    BY DEF At, Sizes
<1>2. IF w + 1 <= LastPos THEN g2 = f /\ q2 = w + 1 ELSE g2 = f + 1 /\ q2 = 0
    BY DEF At, Follow, Comes
<1>21. Follow(f, w, g2, q2)
    BY DEF At
<1>3. /\ \A v \in r : s[v] < g2 \/ (s[v] = g2 /\ v < q2)
      /\ \A v \in r, u \in Missing(r) : u # v =>
            /\ Debt(s[v], v, u, f, w) <= t
            /\ Debt(s[v], v, u, g2, q2) <= t + (IF v = w THEN 1 ELSE 0) + (IF u = w THEN 1 ELSE 0)
            /\ t = 0 => v < w /\ w <= u
      /\ r = {} => w = 0 \/ t >= 1
    BY AfterPacket
<1>4. Sizes /\ r2 \in SUBSET Offsets /\ Missing(r2) \subseteq 0 .. LastPos /\ r2 \subseteq 0 .. LastPos
    BY <1>1, <1>11, MissingType DEF At
<1>5. \A v \in r2 : s2[v] < g2 \/ (s2[v] = g2 /\ v < q2)
    BY <1>1, <1>2, <1>3, <1>11, <1>12
<1>6. ASSUME NEW u \in Missing(r2), u # w PROVE Debt(f, w, u, g2, q2) <= t
    <2>1. u \in 0 .. LastPos
        BY <1>4
    <2>2. Debt(f, w, u, g2, q2) = Debt(f, w, u, f, w) + 1
        <3>1. Debt(f, w, u, g2, q2) = Debt(f, w, u, f, w) + (IF w = w THEN 1 ELSE 0)
                                                           + (IF u = w THEN 1 ELSE 0)
            BY <1>1, <1>21, <2>1, DebtMoves
        <3>2. Debt(f, w, u, f, w) \in Int
            BY <1>1, <2>1 DEF Debt, Passed
        <3> HIDE DEF Debt
        <3> QED
            BY <1>6, <3>1, <3>2
    <2>3. Debt(f, w, u, g2, q2) = Passed(u, w)
        BY <1>1, <2>1, <2>2 DEF Debt, Passed
    <2>4. ASSUME u < w, t = 0 PROVE FALSE
        <3>1. u \in Missing(r)
            BY <1>4, <1>6, <1>11, <1>12, <2>1, <2>4 DEF Missing, Sizes
        <3>2. r # {}
            BY <1>3, <2>1, <2>4
        <3>3. PICK v \in r : TRUE
            BY <3>2
        <3>4. u # v
            BY <1>4, <1>6, <1>11, <1>12, <2>1, <2>4 DEF Missing, Sizes
        <3> QED
            BY <1>1, <1>3, <2>1, <2>4, <3>1, <3>3, <3>4
    <2> QED
        BY <1>1, <2>1, <2>3, <2>4 DEF Passed
<1>7. ASSUME NEW v \in r, v # w, NEW u \in Missing(r2), u # v PROVE Debt(s[v], v, u, g2, q2) <= t
    <2>0. u \in 0 .. LastPos /\ v \in 0 .. LastPos /\ s[v] \in Nat
        BY <1>1, <1>4, <1>11
    <2>1. CASE r2 # Offsets
        <3>1. u \in Missing(r) /\ u # w
            BY <1>11, <2>1 DEF Missing
        <3> QED
            BY <1>1, <1>3, <1>7, <2>0, <3>1 DEF Debt, Passed
    <2>2. CASE r2 = Offsets
        <3>1. u = ExpectedUniverses /\ u # w /\ ~(u < w)
            BY <1>1, <1>4, <1>11, <1>12, <2>2 DEF Missing, Sizes
        <3>2. CASE r = Offsets
            <4>1. u \in Missing(r)
                BY <2>2, <3>2
            <4> QED
                BY <1>1, <1>3, <1>7, <2>0, <3>1, <4>1 DEF Debt, Passed
        <3>3. CASE r # Offsets
            <4>1. w \in Missing(r)
                BY <1>11, <2>2, <3>3 DEF Missing
            <4>2. Debt(s[v], v, w, f, w) <= t
                BY <1>3, <1>7, <4>1
            <4>3. Debt(s[v], v, u, g2, q2) = Debt(s[v], v, u, f, w)
                <5>0. \A x \in Nat : Debt(x, v, u, g2, q2) = Debt(x, v, u, f, w) + (IF v = w THEN 1 ELSE 0)
                                                                                + (IF u = w THEN 1 ELSE 0)
                    BY <1>1, <1>21, <2>0, DebtMoves
                <5>1. Debt(s[v], v, u, g2, q2) = Debt(s[v], v, u, f, w) + (IF v = w THEN 1 ELSE 0)
                                                                         + (IF u = w THEN 1 ELSE 0)
                    BY <2>0, <5>0, Zenon
                <5>2. Debt(s[v], v, u, f, w) \in Int
                    BY <1>1, <2>0 DEF Debt, Passed
                <5> HIDE DEF Debt
                <5> QED
                    BY <1>7, <3>1, <5>1, <5>2
            <4> QED
                BY <1>1, <2>0, <3>1, <4>2, <4>3 DEF Debt, Passed
        <3> QED
            BY <3>2, <3>3
    <2> QED
        BY <2>1, <2>2
<1>8. \A v \in r2, u \in Missing(r2) : u # v => Debt(s2[v], v, u, g2, q2) <= t
    BY <1>6, <1>7, <1>11, <1>12
<1>9. r2 # {}
    BY <1>11
<1> QED
    BY <1>5, <1>8, <1>9, <1>11 DEF Owed

(* The universe that completes a frame, and what may come of the commit.   *)
LEMMA FrameCompleted ==
    ASSUME NEW r, NEW s, NEW t, NEW f, NEW w, NEW g, NEW q, NEW g2, NEW q2,
           At(r, s, t, f, w, g, q, g2, q2), w \in Offsets, r \cup {w} = Offsets, SyncAddress = 0,
           NEW s2, Overwrites(s2, r, s, f, w)
    PROVE  /\ FewSweeps(s2, t)
           /\ q2 = 0 \/ t >= 1
           /\ Owed(Offsets, s2, t + 1, g2, q2)
<1>12. s2[w] = f /\ \A v \in r : v # w => s2[v] = s[v]
    BY DEF Overwrites
<1>1. /\ LastPos \in Nat /\ t \in Nat /\ f \in Nat /\ w \in 0 .. LastPos /\ g2 \in Nat /\ q2 \in Nat
      /\ r \in SUBSET Offsets /\ \A v \in r : s[v] \in Nat
    BY DEF At, Sizes
<1>2. IF w + 1 <= LastPos THEN g2 = f /\ q2 = w + 1 ELSE g2 = f + 1 /\ q2 = 0
    BY DEF At, Follow, Comes
<1>21. Follow(f, w, g2, q2)
    BY DEF At
<1>3. /\ \A v \in r : s[v] <= f /\ (s[v] < g2 \/ (s[v] = g2 /\ v < q2))
      /\ \A v \in r, u \in Missing(r) : u # v =>
            /\ Debt(s[v], v, u, f, w) <= t
            /\ t = 0 => v < w /\ w <= u
    BY AfterPacket
<1>4. Sizes /\ LastPos = ExpectedUniverses - 1 /\ Offsets = 0 .. LastPos
    BY DEF At, Sizes
<1>5. w \in Missing(r)
    BY DEF Missing
<1>6. \A v \in Offsets : v # w => v \in r /\ s2[v] = s[v] /\ s[v] \in Nat /\ v \in 0 .. LastPos
    BY <1>1, <1>4, <1>12
<1>7. \A v \in Offsets : v # w => 2 * (f - s[v]) - 1 + Passed(v, w) <= t
    <2> TAKE v \in Offsets
    <2> HAVE v # w
    <2>1. Debt(s[v], v, w, f, w) <= t
        BY <1>3, <1>5, <1>6
    <2> QED
        BY <1>1, <1>6, <2>1 DEF Debt, Passed
<1>8. FewSweeps(s2, t)
    <2> SUFFICES ASSUME NEW a \in Offsets, NEW b \in Offsets
                 PROVE  2 * (s2[a] - s2[b]) <= 1 + t
        BY DEF FewSweeps
    <2>1. s2[a] \in Nat /\ s2[a] <= f
        BY <1>1, <1>3, <1>6, <1>12
    <2>2. CASE b = w
        BY <1>1, <1>12, <2>1, <2>2
    <2>3. CASE b # w
        <3>1. s2[b] = s[b] /\ s[b] \in Nat /\ 2 * (f - s[b]) - 1 + Passed(b, w) <= t
            BY <1>6, <1>7, <2>3
        <3>2. Passed(b, w) \in {0, 1}
            BY DEF Passed
        <3> QED
            BY <1>1, <2>1, <3>1, <3>2
    <2> QED
        BY <2>2, <2>3
<1>9. ASSUME t = 0, q2 # 0 PROVE FALSE
    <2>1. w < LastPos /\ LastPos \in Offsets /\ LastPos # w
        BY <1>1, <1>2, <1>4, <1>9
    <2>2. LastPos \in r
        BY <1>6, <2>1
    <2>3. LastPos < w
        BY <1>3, <1>5, <1>9, <2>1, <2>2
    <2> QED
        BY <1>1, <2>1, <2>3
<1>10. Owed(Offsets, s2, t + 1, g2, q2)
    <2>1. \A v \in Offsets : s2[v] < g2 \/ (s2[v] = g2 /\ v < q2)
        BY <1>1, <1>2, <1>3, <1>6, <1>12
    <2>2. ASSUME NEW v \in Offsets, NEW u \in Offsets, u # v PROVE Debt(s2[v], v, u, g2, q2) <= t + 1
        <3>1. v \in 0 .. LastPos /\ u \in 0 .. LastPos /\ s2[v] \in Nat
            BY <1>1, <1>4, <1>6, <1>12
        <3>0. \A x \in Nat : Debt(x, v, u, g2, q2) = Debt(x, v, u, f, w) + (IF v = w THEN 1 ELSE 0)
                                                                        + (IF u = w THEN 1 ELSE 0)
            BY <1>1, <1>21, <3>1, DebtMoves
        <3>2. Debt(s2[v], v, u, g2, q2) = Debt(s2[v], v, u, f, w) + (IF v = w THEN 1 ELSE 0)
                                                                   + (IF u = w THEN 1 ELSE 0)
            BY <3>0, <3>1, Zenon
        <3>3. CASE v = w
            <4>1. s2[v] = f
                BY <1>12, <3>3
            <4> QED
                BY <1>1, <2>2, <3>1, <3>2, <3>3, <4>1 DEF Debt, Passed
        <3>4. CASE v # w
            <4>1. s2[v] = s[v] /\ 2 * (f - s[v]) - 1 + Passed(v, w) <= t
                BY <1>6, <1>7, <3>4
            <4> QED
                BY <1>1, <2>2, <3>1, <3>2, <3>4, <4>1 DEF Debt, Passed
        <3> QED
            BY <3>3, <3>4
    <2>3. Missing(Offsets) = Offsets /\ Offsets # {}
        BY <1>4 DEF Missing
    <2> QED
        BY <2>1, <2>2, <2>3 DEF Owed
<1> QED
    BY <1>1, <1>8, <1>9, <1>10

(* The sync packet of a frame that is complete.                            *)
LEMMA FrameSynced ==
    ASSUME NEW s, NEW t, NEW f, NEW w, NEW g, NEW q, NEW g2, NEW q2,
           At(Offsets, s, t, f, w, g, q, g2, q2), w = ExpectedUniverses
    PROVE  FewSweeps(s, t) /\ q2 = 0
<1>1. /\ t \in Nat /\ f \in Nat /\ w \in Nat /\ LastPos = w /\ Offsets = 0 .. w - 1
      /\ SyncAddress # 0 /\ \A v \in Offsets : s[v] \in Nat
    BY DEF At, Sizes
<1>2. q2 = 0
    BY <1>1 DEF At, Follow, Comes
<1>3. Missing(Offsets) = {w}
    BY <1>1 DEF Missing
<1>4. \A v \in Offsets : s[v] <= f /\ Debt(s[v], v, w, f, w) <= t
    <2>1. \A v \in Offsets : v # w
        BY <1>1
    <2> QED
        BY <1>3, <2>1, AfterPacket
<1>5. ASSUME NEW a \in Offsets, NEW b \in Offsets PROVE 2 * (s[a] - s[b]) <= 1 + t
    <2>1. /\ s[a] \in Nat /\ s[b] \in Nat /\ s[a] <= f /\ Debt(s[b], b, w, f, w) <= t
          /\ b \in Nat /\ b < w
        BY <1>1, <1>4
    <2> QED
        BY <1>1, <2>1 DEF Debt, Passed
<1> QED
    BY <1>2, <1>5 DEF FewSweeps

----
(* The wire of a run in which packets are lost and doubled but never late. *)
LooseOn(w, t) ==
    \A i \in 1 .. Len(w) - 1 :
        \/ Follows(w[i], w[i + 1].frame, Pos(w[i + 1]))
        \/ t >= 1 /\ w[i + 1].frame = w[i].frame /\ Pos(w[i + 1]) = Pos(w[i])

LooseBetween(w, t, f, o, g, q) ==
    IF w = <<>> THEN g = f /\ q = o
    ELSE DueOrAgain(w[1].frame, Pos(w[1]), t, g, q) /\ Follows(w[Len(w)], f, o)

LEMMA LooseGrows ==
    ASSUME wire \in Seq(Packets), NEW t, LooseOn(wire, t), NEW p \in Packets, wire' = Append(wire, p),
           NEW g, NEW q, LooseBetween(wire, t, p.frame, Pos(p), g, q), NEW f, NEW o, Follows(p, f, o)
    PROVE  LooseOn(wire', t) /\ LooseBetween(wire', t, f, o, g, q)
<1>1. /\ Len(wire) \in Nat /\ Len(wire') = Len(wire) + 1 /\ wire' # <<>>
      /\ \A i \in 1 .. Len(wire') : wire'[i] = IF i <= Len(wire) THEN wire[i] ELSE p
    OBVIOUS
<1>2. wire'[Len(wire')] = p
    BY <1>1
<1>3. CASE wire = <<>>
    <2>1. Len(wire) = 0 /\ wire'[1] = p
        BY <1>1, <1>3
    <2>2. g = p.frame /\ q = Pos(p)
        BY <1>3 DEF LooseBetween
    <2> QED
        BY <1>1, <1>2, <2>1, <2>2 DEF LooseOn, LooseBetween, DueOrAgain
<1>4. CASE wire # <<>>
    <2>1. Len(wire) > 0
        BY <1>1, <1>4, EmptySeq
    <2>2. DueOrAgain(wire[1].frame, Pos(wire[1]), t, g, q) /\ Follows(wire[Len(wire)], p.frame, Pos(p))
        BY <1>4 DEF LooseBetween
    <2>3. wire'[1] = wire[1]
        BY <1>1, <2>1
    <2>4. ASSUME NEW i \in 1 .. Len(wire') - 1
          PROVE  \/ Follows(wire'[i], wire'[i + 1].frame, Pos(wire'[i + 1]))
                 \/ t >= 1 /\ wire'[i + 1].frame = wire'[i].frame /\ Pos(wire'[i + 1]) = Pos(wire'[i])
        <3>1. CASE i = Len(wire)
            <4>1. wire'[i] = wire[Len(wire)] /\ wire'[i + 1] = p
                BY <1>1, <2>1, <3>1
            <4> QED
                BY <2>2, <4>1
        <3>2. CASE i # Len(wire)
            <4>1. i \in 1 .. Len(wire) - 1 /\ wire'[i] = wire[i] /\ wire'[i + 1] = wire[i + 1]
                BY <1>1, <2>4, <3>2
            <4> QED
                BY <4>1 DEF LooseOn
        <3> QED
            BY <3>1, <3>2
    <2> QED
        BY <1>1, <1>2, <2>2, <2>3, <2>4 DEF LooseOn, LooseBetween
<1> QED
    BY <1>3, <1>4

LEMMA LooseShrinks ==
    ASSUME wire \in Seq(Packets), NEW t, LooseOn(wire, t), wire # <<>>, wire' = Tail(wire), LastPos \in Nat,
           NEW f \in Nat, NEW o \in Nat, NEW g, NEW q, LooseBetween(wire, t, f, o, g, q),
           \A i \in 1 .. Len(wire) : wire[i].frame \in Nat /\ Pos(wire[i]) \in Nat
    PROVE  /\ DueOrAgain(wire[1].frame, Pos(wire[1]), t, g, q)
           /\ LooseOn(wire', t)
           /\ \E g2, q2 \in Nat : Follows(wire[1], g2, q2) /\ LooseBetween(wire', t, f, o, g2, q2)
<1>1. /\ Len(wire) \in Nat \ {0} /\ wire' \in Seq(Packets) /\ Len(wire') = Len(wire) - 1
      /\ \A i \in 1 .. Len(wire') : wire'[i] = wire[i + 1]
    BY TailOfWire
<1>2. DueOrAgain(wire[1].frame, Pos(wire[1]), t, g, q) /\ Follows(wire[Len(wire)], f, o)
    BY DEF LooseBetween
<1>3. LooseOn(wire', t)
    <2> SUFFICES ASSUME NEW i \in 1 .. Len(wire') - 1
                 PROVE  \/ Follows(wire'[i], wire'[i + 1].frame, Pos(wire'[i + 1]))
                        \/ t >= 1 /\ wire'[i + 1].frame = wire'[i].frame /\ Pos(wire'[i + 1]) = Pos(wire'[i])
        BY DEF LooseOn
    <2>1. i + 1 \in 1 .. Len(wire) - 1 /\ wire'[i] = wire[i + 1] /\ wire'[i + 1] = wire[(i + 1) + 1]
        BY <1>1
    <2> QED
        BY <2>1 DEF LooseOn
<1>4. CASE Len(wire) = 1
    <2>1. wire' = <<>>
        BY <1>1, <1>4, EmptySeq
    <2> QED
        BY <1>2, <1>3, <1>4, <2>1 DEF LooseBetween
<1>5. CASE Len(wire) # 1
    <2>0. /\ 1 \in 1 .. Len(wire) - 1 /\ 1 \in 1 .. Len(wire) /\ 2 \in 1 .. Len(wire) /\ 1 + 1 = 2
          /\ 1 \in 1 .. Len(wire') /\ Len(wire') \in 1 .. Len(wire') /\ Len(wire') + 1 = Len(wire)
        BY <1>1, <1>5
    <2>1. wire' # <<>> /\ wire'[1] = wire[2] /\ wire'[Len(wire')] = wire[Len(wire)]
        <3>1. wire'[1] = wire[1 + 1] /\ wire'[Len(wire')] = wire[Len(wire') + 1]
            BY <1>1, <2>0
        <3>2. Len(wire') # 0
            BY <1>1, <1>5
        <3> QED
            BY <1>1, <2>0, <3>1, <3>2, EmptySeq
    <2>2. /\ wire[1].frame \in Nat /\ Pos(wire[1]) \in Nat
          /\ wire[2].frame \in Nat /\ Pos(wire[2]) \in Nat
        BY <2>0
    <2>3. CASE Follows(wire[1], wire[2].frame, Pos(wire[2]))
        <3>1. DueOrAgain(wire[2].frame, Pos(wire[2]), t, wire[2].frame, Pos(wire[2]))
            BY DEF DueOrAgain
        <3>2. LooseBetween(wire', t, f, o, wire[2].frame, Pos(wire[2]))
            BY <1>2, <2>1, <3>1 DEF LooseBetween
        <3> QED
            BY <1>2, <1>3, <2>2, <2>3, <3>2
    <2>4. CASE t >= 1 /\ wire[2].frame = wire[1].frame /\ Pos(wire[2]) = Pos(wire[1])
        <3>1. PICK g2, q2 \in Nat : Follows(wire[1], g2, q2)
            BY <2>2 DEF Follows, Comes
        <3>2. DueOrAgain(wire[2].frame, Pos(wire[2]), t, g2, q2)
            BY <2>4, <3>1 DEF DueOrAgain, Follow, Follows
        <3>3. LooseBetween(wire', t, f, o, g2, q2)
            BY <1>2, <2>1, <3>2 DEF LooseBetween
        <3> QED
            BY <1>2, <1>3, <3>1, <3>3
    <2> QED
        BY <2>0, <2>3, <2>4 DEF LooseOn
<1> QED
    BY <1>4, <1>5

LEMMA LooseDoubles ==
    ASSUME wire \in Seq(Packets), NEW t \in Nat, LooseOn(wire, t), wire # <<>>, wire' = <<Head(wire)>> \o wire,
           NEW f, NEW o, NEW g, NEW q, LooseBetween(wire, t, f, o, g, q)
    PROVE  LooseOn(wire', t + 1) /\ LooseBetween(wire', t + 1, f, o, g, q)
<1>1. /\ Len(wire) \in Nat \ {0} /\ wire' \in Seq(Packets) /\ Len(wire') = Len(wire) + 1
      /\ \A i \in 1 .. Len(wire') : wire'[i] = IF i = 1 THEN wire[1] ELSE wire[i - 1]
    BY DoubledWire
<1>2. DueOrAgain(wire[1].frame, Pos(wire[1]), t, g, q) /\ Follows(wire[Len(wire)], f, o)
    BY DEF LooseBetween
<1>3. wire' # <<>> /\ wire'[1] = wire[1] /\ wire'[Len(wire')] = wire[Len(wire)]
    BY <1>1, EmptySeq
<1>4. ASSUME NEW i \in 1 .. Len(wire') - 1
      PROVE  \/ Follows(wire'[i], wire'[i + 1].frame, Pos(wire'[i + 1]))
             \/ t + 1 >= 1 /\ wire'[i + 1].frame = wire'[i].frame /\ Pos(wire'[i + 1]) = Pos(wire'[i])
    <2>1. CASE i = 1
        <3>1. wire'[i] = wire[1] /\ wire'[i + 1] = wire[1] /\ t + 1 >= 1
            BY <1>1, <2>1
        <3> QED
            BY <3>1
    <2>2. CASE i # 1
        <3>1. /\ i - 1 \in 1 .. Len(wire) - 1 /\ (i - 1) + 1 = i
              /\ wire'[i] = wire[i - 1] /\ wire'[i + 1] = wire[i]
            BY <1>1, <2>2
        <3>2. t >= 1 => t + 1 >= 1
            OBVIOUS
        <3>3. \/ Follows(wire[i - 1], wire[(i - 1) + 1].frame, Pos(wire[(i - 1) + 1]))
              \/ t >= 1 /\ wire[(i - 1) + 1].frame = wire[i - 1].frame /\ Pos(wire[(i - 1) + 1]) = Pos(wire[i - 1])
            BY <3>1 DEF LooseOn
        <3> QED
            BY <3>1, <3>2, <3>3
    <2> QED
        BY <2>1, <2>2
<1>5. DueOrAgain(wire[1].frame, Pos(wire[1]), t + 1, g, q)
    BY <1>2 DEF DueOrAgain
<1> QED
    BY <1>2, <1>3, <1>4, <1>5 DEF LooseOn, LooseBetween

(* One more fault allows no less.                                          *)
LEMMA MoreTrouble ==
    ASSUME NEW t \in Nat, Sizes
    PROVE  /\ \A w : LooseOn(w, t) => LooseOn(w, t + 1)
           /\ \A w, f, o, g, q : LooseBetween(w, t, f, o, g, q) => LooseBetween(w, t + 1, f, o, g, q)
           /\ \A words : FewSweeps(words, t) => FewSweeps(words, t + 1)
           /\ \A s : \A r \in SUBSET Offsets, g, q \in Nat :
                 (\A v \in r : s[v] \in Nat) /\ Owed(r, s, t, g, q) => Owed(r, s, t + 1, g, q)
<1>1. t >= 1 => t + 1 >= 1
    OBVIOUS
<1>2. \A w : LooseOn(w, t) => LooseOn(w, t + 1)
    BY <1>1 DEF LooseOn
<1>3. \A w, f, o, g, q : LooseBetween(w, t, f, o, g, q) => LooseBetween(w, t + 1, f, o, g, q)
    BY <1>1 DEF LooseBetween, DueOrAgain
<1>4. ASSUME NEW words, FewSweeps(words, t) PROVE FewSweeps(words, t + 1)
    <2> SUFFICES ASSUME NEW a \in Offsets, NEW b \in Offsets, words[a] \in Nat, words[b] \in Nat
                 PROVE  2 * (words[a] - words[b]) <= 1 + (t + 1)
        BY DEF FewSweeps
    <2>1. 2 * (words[a] - words[b]) <= 1 + t
        BY <1>4 DEF FewSweeps
    <2> QED
        BY <2>1
<1>5. ASSUME NEW r \in SUBSET Offsets, NEW s, NEW g \in Nat, NEW q \in Nat,
             \A v \in r : s[v] \in Nat, Owed(r, s, t, g, q)
      PROVE  Owed(r, s, t + 1, g, q)
    <2>1. ASSUME NEW v \in r, NEW u \in Missing(r), u # v PROVE Debt(s[v], v, u, g, q) <= t + 1
        <3>1. s[v] \in Nat
            BY <1>5
        <3>2. Debt(s[v], v, u, g, q) \in Int
            BY <3>1 DEF Debt, Passed
        <3>3. Debt(s[v], v, u, g, q) <= t
            BY <1>5, <2>1 DEF Owed
        <3> HIDE DEF Debt
        <3> QED
            BY <3>2, <3>3
    <2> QED
        BY <1>1, <1>5, <2>1 DEF Owed
<1> QED
    BY <1>2, <1>3, <1>4, <1>5

(* A step counts at most one fault.                                        *)
LEMMA TroubleCounts ==
    ASSUME BoardInv, [SystemNext]_allVars
    PROVE  /\ Trouble \in Nat /\ Trouble' \in Nat
           /\ (faults' = faults => Trouble' = Trouble)
           /\ \A k \in FaultKinds : Happens(k) => Trouble' = Trouble + 1
           /\ faults'.late = 0 => faults.late = 0 /\ ~Delay
<1>1. faults \in [FaultKinds -> Nat]
    BY DEF BoardInv, BoardTypes
<1>2. /\ faults["lost"] \in Nat /\ faults["duplicated"] \in Nat /\ faults["late"] \in Nat
      /\ faults["blackouts"] \in Nat /\ faults["refused"] \in Nat
    BY <1>1 DEF FaultKinds
<1>3. Trouble \in Nat
    BY <1>2 DEF Trouble
<1>4. faults' = faults => Trouble' = Trouble
    BY DEF Trouble
<1>5. ASSUME NEW k \in FaultKinds, Happens(k)
      PROVE  Trouble' = Trouble + 1 /\ faults'["late"] \in Nat /\ faults'["late"] >= faults["late"]
             /\ (k = "late" => faults'["late"] # 0)
    <2>1. /\ faults'["lost"] = IF k = "lost" THEN faults["lost"] + 1 ELSE faults["lost"]
          /\ faults'["duplicated"] = IF k = "duplicated" THEN faults["duplicated"] + 1 ELSE faults["duplicated"]
          /\ faults'["late"] = IF k = "late" THEN faults["late"] + 1 ELSE faults["late"]
          /\ faults'["blackouts"] = IF k = "blackouts" THEN faults["blackouts"] + 1 ELSE faults["blackouts"]
          /\ faults'["refused"] = IF k = "refused" THEN faults["refused"] + 1 ELSE faults["refused"]
        BY <1>1, <1>5 DEF Happens, FaultKinds
    <2>2. k \in {"lost", "duplicated", "late", "blackouts", "refused"}
        BY DEF FaultKinds
    <2>3. Trouble' = faults'["lost"] + faults'["duplicated"] + faults'["late"]
                        + faults'["blackouts"] + faults'["refused"]
        BY DEF Trouble
    <2>4. Trouble = faults["lost"] + faults["duplicated"] + faults["late"]
                        + faults["blackouts"] + faults["refused"]
        BY DEF Trouble
    <2> QED
        BY <1>2, <2>1, <2>2, <2>3, <2>4
<1>6. {"lost", "duplicated", "late", "blackouts", "refused"} = FaultKinds
    BY DEF FaultKinds
<1>7. faults' = faults \/ \E k \in FaultKinds : Happens(k)
    BY <1>6 DEF SystemNext, Send, Deliver, Lose, Duplicate, Delay, Blackout, allVars,
                Handle, HandleData, HandleSync, Commit
<1>8. Delay => faults'["late"] # 0
    BY <1>5, <1>6 DEF Delay
<1>9. faults'.late = 0 => faults["late"] = 0
    BY <1>2, <1>5, <1>7
<1> QED
    BY <1>3, <1>4, <1>5, <1>7, <1>8, <1>9

----
(* With all universes of a synced frame the board waits for the sync.      *)
WaitsWhole(r, waits) == SyncAddress # 0 /\ r = Offsets => waits

SweepInv == /\ FewSweeps(shown, Trouble)
            /\ WaitsWhole(received, pending)
            /\ LooseOn(wire, Trouble)
            /\ \E f, o, g, q \in Nat : /\ SenderAt(f, o) /\ Owed(received, staging, Trouble, g, q)
                                       /\ LooseBetween(wire, Trouble, f, o, g, q)

Torn == faults.late = 0 => /\ ShowsFrames => SweepInv
                           /\ ~ShowsFrames => shown = NoWords

LEMMA InitTorn == SystemInit => Torn
<1> SUFFICES ASSUME SystemInit PROVE Torn
    OBVIOUS
<1>1. /\ wire = <<>> /\ pc = "check" /\ frame = 0 /\ received = {} /\ shown = NoWords
    BY DEF SystemInit, Init, BoardInit
<1>2. ASSUME ShowsFrames PROVE SweepInv
    <2>1. FewSweeps(shown, Trouble)
        BY <1>1, OldAssumption DEF FewSweeps, NoWords
    <2>2. WaitsWhole(received, pending)
        BY <1>1, <1>2 DEF WaitsWhole, ShowsFrames
    <2>3. LooseOn(wire, Trouble)
        BY <1>1 DEF LooseOn
    <2>4. SenderAt(0, 0)
        BY <1>1 DEF SenderAt
    <2>5. Owed(received, staging, Trouble, 0, 0)
        BY <1>1 DEF Owed
    <2>6. LooseBetween(wire, Trouble, 0, 0, 0, 0)
        BY <1>1 DEF LooseBetween
    <2> QED
        BY <2>1, <2>2, <2>3, <2>4, <2>5, <2>6 DEF SweepInv
<1> QED
    BY <1>1, <1>2 DEF Torn

LEMMA SizesHold ==
    ASSUME IInv, ShowsFrames PROVE Sizes /\ (SyncAddress # 0 <=> args.send_sync)
<1>1. /\ ExpectedUniverses \in Nat \ {0} /\ args.send_sync \in BOOLEAN
      /\ LastPos = (IF args.send_sync THEN ExpectedUniverses ELSE ExpectedUniverses - 1)
    BY Positions
<1>2. SyncAddress # 0 => args.send_sync
    BY DEF ShowsFrames, SyncsItself
<1>3. args.send_sync => SyncAddress # 0
    BY SyncAssumption DEF SyncAddress
<1> QED
    BY <1>1, <1>2, <1>3 DEF Sizes, Offsets

LEMMA PlaceOfPacket ==
    ASSUME IInv, ShowsFrames, NEW p \in Packets, OfThisRun(p)
    PROVE  /\ p.frame \in Nat /\ Pos(p) \in 0 .. LastPos
           /\ p.kind = "sync" => SyncAddress # 0 /\ Pos(p) = ExpectedUniverses
           /\ p.kind = "data" => Pos(p) = Offset(p) /\ Offset(p) \in Offsets
           /\ p.kind \in {"data", "sync"}
<1>1. /\ ExpectedUniverses \in Nat \ {0} /\ args.send_sync \in BOOLEAN /\ frame \in Nat
      /\ LastPos = (IF args.send_sync THEN ExpectedUniverses ELSE ExpectedUniverses - 1)
    BY Positions
<1>2. SyncAddress # 0 <=> args.send_sync
    BY SizesHold
<1>3. p.kind \in {"data", "sync"}
    BY DEF Packets, DataPackets, SyncPackets
<1>4. p.frame \in Nat
    BY <1>1 DEF OfThisRun
<1>5. p.kind = "sync" => SyncAddress # 0 /\ Pos(p) = ExpectedUniverses /\ Pos(p) \in 0 .. LastPos
    BY <1>1, <1>2 DEF OfThisRun, Pos
<1>6. p.kind = "data" => Pos(p) = Offset(p) /\ Offset(p) \in Offsets /\ Pos(p) \in 0 .. LastPos
    BY <1>1 DEF OfThisRun, Pos, Offsets
<1> QED
    BY <1>3, <1>4, <1>5, <1>6

(* The three outcomes of a commit.                                         *)
LEMMA CommitTorn ==
    ASSUME BoardInv, [SystemNext]_allVars, Sizes, NEW seen, NEW words, Commit(Offsets, seen, words),
           FewSweeps(shown, Trouble), FewSweeps(words, Trouble), SyncAddress # 0 => pending,
           NEW g \in Nat, NEW q \in Nat, q = 0 \/ Trouble >= 1, Owed(Offsets, words, Trouble + 1, g, q)
    PROVE  /\ FewSweeps(shown', Trouble') /\ WaitsWhole(received', pending')
           /\ Owed(received', staging', Trouble', g, q)
<1>1. /\ Trouble \in Nat /\ (faults' = faults => Trouble' = Trouble)
      /\ (Happens("refused") => Trouble' = Trouble + 1)
    BY TroubleCounts DEF FaultKinds
<1>2. Offsets # {}
    <2>1. 0 \in Offsets
        BY DEF Sizes
    <2> QED
        BY <2>1
<1>3. FewSweeps(shown, Trouble + 1)
    BY <1>1, MoreTrouble
<1>4. CASE faults' = faults /\ shown' = words /\ ClearAssembly
    <2>1. received' = {} /\ Trouble' = Trouble
        BY <1>1, <1>4 DEF ClearAssembly
    <2> QED
        BY <1>2, <1>4, <2>1 DEF WaitsWhole, Owed
<1>5. CASE Happens("refused") /\ shown' = shown /\ ClearAssembly
    <2>1. received' = {} /\ Trouble' = Trouble + 1 /\ Trouble + 1 >= 1
        BY <1>1, <1>5 DEF ClearAssembly
    <2> QED
        BY <1>2, <1>3, <1>5, <2>1 DEF WaitsWhole, Owed
<1>6. CASE /\ Happens("refused") /\ shown' = shown
           /\ staging' = words /\ received' = Offsets /\ UNCHANGED pending
    <2>1. Trouble' = Trouble + 1
        BY <1>1, <1>6
    <2> QED
        BY <1>3, <1>6, <2>1 DEF WaitsWhole
<1> QED
    BY <1>4, <1>5, <1>6 DEF Commit

LEMMA HandleTorn ==
    ASSUME IInv, WireInv, BoardInv, ShowsFrames, [SystemNext]_allVars,
           NEW p \in Packets, OfThisRun(p), Accepted(p), Handle(p),
           FewSweeps(shown, Trouble), WaitsWhole(received, pending),
           NEW g, NEW q, NEW g2, NEW q2,
           At(received, staging, Trouble, p.frame, Pos(p), g, q, g2, q2)
    PROVE  /\ FewSweeps(shown', Trouble') /\ WaitsWhole(received', pending')
           /\ Owed(received', staging', Trouble', g2, q2)
<1>0. /\ Sizes /\ g2 \in Nat /\ q2 \in Nat /\ \A v \in received : staging[v] \in Nat
      /\ ~args.preview /\ ~args.stream_terminate /\ args \in Args
      /\ received \subseteq Offsets /\ staging \in Words /\ (pending => received = Offsets)
    BY DEF At, ShowsFrames, BoardInv, BoardTypes, Staged, IInv, Locals
<1>1. /\ Trouble \in Nat /\ (faults' = faults => Trouble' = Trouble)
    BY TroubleCounts
<1>2. /\ p.frame \in Nat /\ Pos(p) \in 0 .. LastPos
      /\ p.kind = "sync" => SyncAddress # 0 /\ Pos(p) = ExpectedUniverses
      /\ p.kind = "data" => Pos(p) = Offset(p) /\ Offset(p) \in Offsets
      /\ p.kind \in {"data", "sync"}
    BY PlaceOfPacket
<1>3. CASE p.kind = "sync" /\ ~pending /\ UNCHANGED <<boardVars, faults>>
    <2>1. received # Offsets
        BY <1>2, <1>3 DEF WaitsWhole
    <2>2. Owed(received, staging, Trouble, g2, q2)
        BY <1>2, <1>3, <2>1, PacketMissed
    <2> QED
        BY <1>1, <1>3, <2>2 DEF boardVars
<1>4. CASE p.kind = "sync" /\ pending /\ Commit(received, lastSequence, staging)
    <2>1. received = Offsets
        BY <1>0, <1>4
    <2>2. At(Offsets, staging, Trouble, p.frame, Pos(p), g, q, g2, q2) /\ Pos(p) = ExpectedUniverses
        BY <1>2, <1>4, <2>1
    <2>3. FewSweeps(staging, Trouble) /\ q2 = 0
        BY <2>2, FrameSynced
    <2>4. Owed(Offsets, staging, Trouble + 1, g2, q2)
        BY <2>2, PacketMissed
    <2> QED
        BY <1>0, <1>4, <2>1, <2>3, <2>4, CommitTorn
<1>5. ASSUME NEW asm, NEW seen, NEW words, Takes(p, asm, seen, words),
             IF Complete(asm) /\ ~WaitsForSync(p) THEN Commit(asm, seen, words) ELSE Keeps(asm, seen, words)
      PROVE  /\ FewSweeps(shown', Trouble') /\ WaitsWhole(received', pending')
             /\ Owed(received', staging', Trouble', g2, q2)
    <2> DEFINE w == Pos(p)
    <2>1. /\ w = Offset(p) /\ w \in Offsets /\ asm = received \cup {w}
          /\ words = [staging EXCEPT ![w] = p.frame]
        BY <1>2, <1>5 DEF Takes
    <2>2. words[w] = p.frame /\ \A v \in received : v # w => words[v] = staging[v]
        BY <1>0, <2>1 DEF Words
    <2> DEFINE f == p.frame
    <2>3. At(received, staging, Trouble, f, w, g, q, g2, q2)
        OBVIOUS
    <2>30. Overwrites(words, received, staging, f, w)
        BY <2>2 DEF Overwrites
    <2> HIDE DEF w, f
    <2>4. Complete(asm) <=> asm = Offsets
        <3>1. asm \in SUBSET Offsets
            BY <1>0, <2>1
        <3> QED
            BY <1>0, <3>1, CompleteIsAll
    <2>5. WaitsForSync(p) <=> SyncAddress # 0
        BY DEF WaitsForSync, OfThisRun
    <2>6. CASE asm = Offsets /\ SyncAddress = 0
        <3>1. Commit(Offsets, seen, words)
            BY <1>5, <2>4, <2>5, <2>6
        <3>2. /\ FewSweeps(words, Trouble)
              /\ q2 = 0 \/ Trouble >= 1
              /\ Owed(Offsets, words, Trouble + 1, g2, q2)
            <4>1. received \cup {w} = Offsets
                BY <2>1, <2>6
            <4> QED
                BY <2>1, <2>3, <2>30, <2>6, <4>1, FrameCompleted
        <3> QED
            BY <1>0, <2>6, <3>1, <3>2, CommitTorn
    <2>7. CASE ~(asm = Offsets /\ SyncAddress = 0)
        <3>1. /\ received' = asm /\ staging' = words /\ shown' = shown /\ faults' = faults
              /\ pending' = (pending \/ Complete(asm))
            BY <1>5, <2>4, <2>5, <2>7 DEF Keeps
        <3>2. Owed(asm, words, Trouble, g2, q2)
            <4>1. received \cup {w} # Offsets \/ SyncAddress # 0
                BY <2>1, <2>7
            <4> QED
                BY <2>1, <2>3, <2>30, <4>1, UniverseTaken
        <3> QED
            BY <1>1, <2>4, <3>1, <3>2 DEF WaitsWhole
    <2> QED
        BY <2>6, <2>7
<1> QED
    BY <1>0, <1>2, <1>3, <1>4, <1>5, HandleCases

(* A run that is not meant to show frames.                                 *)
LEMMA NeverShown ==
    ASSUME IInv, WireInv, BoardInv, Silent', [SystemNext]_allVars, ~ShowsFrames, shown = NoWords
    PROVE  shown' = NoWords
<1>1. /\ args' = args /\ Offsets' = Offsets /\ NoWords' = NoWords /\ args \in Args
      /\ wire \in Seq(Packets)
    BY SystemKeepsArgs DEF IInv, Locals, WireOK
<1>2. CASE args.preview \/ args.stream_terminate \/ Offsets = {}
    BY <1>1, <1>2 DEF Silent, NothingTaken
<1>3. CASE ~args.preview /\ ~args.stream_terminate /\ Offsets # {}
    <2>1. ~SyncsItself \/ ~SendsEveryUniverse
        BY <1>3 DEF ShowsFrames
    <2>2. ASSUME ~SendsEveryUniverse, NEW asm \in SUBSET Offsets, \A u \in asm : u < UniverseCount
          PROVE  asm # Offsets
        <3>1. ExpectedUniverses \in Nat /\ UniverseCount \in Nat
            BY <1>1, UniverseSent
        <3>2. ExpectedUniverses - 1 \in Offsets /\ UniverseCount <= ExpectedUniverses - 1
            BY <1>3, <2>2, <3>1 DEF Offsets, SendsEveryUniverse
        <3> QED
            BY <2>2, <3>1, <3>2
    <2>3. ASSUME Deliver PROVE shown' = NoWords
        <3> DEFINE p == Head(wire)
        <3>1. wire # <<>> /\ Handle(p)
            BY <2>3 DEF Deliver
        <3>2. 1 \in 1 .. Len(wire) /\ p = wire[1] /\ p \in Packets
            BY <1>1, <3>1, HeadTailProperties, EmptySeq
        <3>3. OfThisRun(p) /\ Accepted(p)
            BY <3>2 DEF WireInv, WireOfThisRun, IInv, WireOK
        <3> HIDE DEF p
        <3>4. CASE p.kind = "sync" /\ pending
            <4>1. args.send_sync /\ received = Offsets /\ \A u \in received : u < UniverseCount
                BY <3>3, <3>4 DEF OfThisRun, BoardInv, Staged
            <4>2. SyncsItself
                BY <4>1 DEF SyncsItself
            <4>3. FALSE
                BY <2>1, <2>2, <4>1, <4>2
            <4> QED
                BY <4>3
        <3>5. ASSUME NEW asm, NEW seen, NEW words, Takes(p, asm, seen, words), Complete(asm), ~WaitsForSync(p)
              PROVE  FALSE
            <4>1. asm \in SUBSET Offsets /\ \A u \in asm : u < UniverseCount
                BY <3>2, <3>3, <3>5, TakesTyped
            <4>2. asm = Offsets
                BY <1>1, <3>5, <4>1, CompleteIsAll
            <4>3. SyncsItself
                BY <3>3, <3>5 DEF WaitsForSync, OfThisRun, SyncsItself
            <4> QED
                BY <2>1, <2>2, <4>1, <4>2, <4>3
        <3> QED
            BY <1>3, <3>1, <3>3, <3>4, <3>5, HandleCases DEF boardVars, Keeps
    <2> QED
        BY <1>1, <2>3 DEF SystemNext, Send, Lose, Duplicate, Delay, Blackout, boardVars, allVars
<1> QED
    BY <1>2, <1>3

----
LEMMA SweepInvAfter ==
    ASSUME [SystemNext]_allVars, FewSweeps(shown', Trouble'), WaitsWhole(received', pending'),
           LooseOn(wire', Trouble'), NEW f \in Nat, NEW o \in Nat, NEW g \in Nat, NEW q \in Nat,
           SenderAt(f, o)', Owed(received', staging', Trouble', g, q), LooseBetween(wire', Trouble', f, o, g, q)
    PROVE  SweepInv'
<1>1. /\ Offsets' = Offsets /\ SyncAddress' = SyncAddress /\ ExpectedUniverses' = ExpectedUniverses
      /\ LastPos' = LastPos
    BY SystemKeepsArgs, StepKeepsChain
<1>2. FewSweeps(shown, Trouble)'
    BY <1>1 DEF FewSweeps
<1>3. WaitsWhole(received, pending)'
    BY <1>1 DEF WaitsWhole
<1>4. LooseOn(wire, Trouble)'
    BY <1>1 DEF LooseOn, Follows, Comes, Pos, Offset
<1>5. Owed(received, staging, Trouble, g, q)'
    BY <1>1 DEF Owed, Missing, Debt, Passed
<1>6. LooseBetween(wire, Trouble, f, o, g, q)'
    BY <1>1 DEF LooseBetween, DueOrAgain, Follow, Follows, Comes, Pos, Offset
<1> QED
    BY <1>2, <1>3, <1>4, <1>5, <1>6 DEF SweepInv

LEMMA SenderWaits ==
    ASSUME [SystemNext]_allVars, UNCHANGED <<pc, frame, offset>>, NEW f, NEW o, SenderAt(f, o)
    PROVE  SenderAt(f, o)'
BY SystemKeepsArgs, StepKeepsChain DEF SenderAt, Comes

LEMMA SweepInvStep ==
    ASSUME IInv, WireInv, BoardInv, FrameCounted, ShowsFrames, SweepInv, [SystemNext]_allVars, ~Delay
    PROVE  SweepInv'
<1>1. Sizes /\ (SyncAddress # 0 <=> args.send_sync)
    BY SizesHold
<1>2. PICK f, o, g, q \in Nat : /\ SenderAt(f, o) /\ Owed(received, staging, Trouble, g, q)
                                /\ LooseBetween(wire, Trouble, f, o, g, q)
    BY DEF SweepInv
<1>3. /\ FewSweeps(shown, Trouble) /\ WaitsWhole(received, pending) /\ LooseOn(wire, Trouble)
      /\ wire \in Seq(Packets) /\ Locals
    BY DEF SweepInv, IInv, WireOK
<1>4. /\ ExpectedUniverses \in Nat \ {0} /\ args.send_sync \in BOOLEAN
      /\ LastPos = (IF args.send_sync THEN ExpectedUniverses ELSE ExpectedUniverses - 1)
      /\ LastPos \in Nat /\ frame \in Nat /\ offset \in Nat
      /\ ExpectedUniverses' = ExpectedUniverses /\ LastPos' = LastPos /\ args' = args
    BY Positions, SystemKeepsArgs, StepKeepsChain
<1>5. /\ Trouble \in Nat /\ (faults' = faults => Trouble' = Trouble)
      /\ \A k \in FaultKinds : Happens(k) => Trouble' = Trouble + 1
    BY TroubleCounts
<1>6. received \subseteq Offsets /\ \A v \in received : staging[v] \in Nat
    BY DEF BoardInv, BoardTypes, Staged
<1>7. Owed(received, staging, Trouble + 1, g, q) /\ FewSweeps(shown, Trouble + 1)
    BY <1>1, <1>2, <1>3, <1>5, <1>6, MoreTrouble
<1>8. ASSUME UNCHANGED boardVars, UNCHANGED faults
      PROVE  /\ FewSweeps(shown', Trouble') /\ WaitsWhole(received', pending') /\ Trouble' = Trouble
             /\ Owed(received', staging', Trouble', g, q)
    BY <1>2, <1>3, <1>5, <1>8 DEF boardVars
<1>9. CASE Send /\ wire' = wire
    <2>1. SenderAt(f, o)' /\ UNCHANGED boardVars /\ UNCHANGED faults
        BY <1>2, <1>9, SenderAdvances DEF Send
    <2>2. LooseOn(wire', Trouble') /\ LooseBetween(wire', Trouble', f, o, g, q)
        BY <1>2, <1>3, <1>8, <1>9, <2>1
    <2> QED
        BY <1>2, <1>8, <2>1, <2>2, SweepInvAfter
<1>10. ASSUME NEW p \in Packets, wire' = Append(wire, p), p.frame = f, Pos(p) = o,
              NEW f2 \in Nat, NEW o2 \in Nat, Follows(p, f2, o2), SenderAt(f2, o2)', UNCHANGED boardVars,
              UNCHANGED faults
       PROVE  SweepInv'
    <2>1. LooseOn(wire', Trouble) /\ LooseBetween(wire', Trouble, f2, o2, g, q)
        BY <1>2, <1>3, <1>10, LooseGrows
    <2>2. LooseOn(wire', Trouble') /\ LooseBetween(wire', Trouble', f2, o2, g, q)
        BY <1>8, <1>10, <2>1
    <2> QED
        BY <1>2, <1>8, <1>10, <2>2, SweepInvAfter
<1>11. CASE Send /\ SendData
    <2> DEFINE p == DataPacket(offset)
    <2>1. /\ pc = "sweep" /\ InSweep /\ wire' = Append(wire, p) /\ pc' = "count" /\ UNCHANGED boardVars
          /\ frame' = frame /\ offset' = offset /\ UNCHANGED faults
        BY <1>11 DEF Send, SendData
    <2>2. offset < ExpectedUniverses
        BY <1>3, <1>4, <2>1, UniverseSent DEF Locals, InSweep
    <2>3. f = frame /\ o = offset
        BY <1>2, <1>4, <2>1, <2>2 DEF SenderAt, Comes
    <2>4. p \in Packets
        BY <1>3, DataTyped
    <2>5. p.frame = frame /\ Pos(p) = offset
        BY <1>4, UniverseAssumption DEF DataPacket, Pos, Offset
    <2> HIDE DEF p
    <2>6. PICK f2, o2 \in Nat : Comes(frame, offset + 1, f2, o2)
        BY <1>4 DEF Comes
    <2>7. Follows(p, f2, o2)
        BY <2>5, <2>6 DEF Follows
    <2>8. SenderAt(f2, o2)'
        BY <1>4, <2>1, <2>6 DEF SenderAt, Comes
    <2> QED
        BY <1>10, <2>1, <2>3, <2>4, <2>5, <2>6, <2>7, <2>8
<1>12. CASE Send /\ SendSync
    <2> DEFINE p == SyncPacket
    <2>1. /\ pc = "sync" /\ wire' = Append(wire, p) /\ pc' = "countSync" /\ UNCHANGED boardVars
          /\ frame' = frame /\ UNCHANGED faults
        BY <1>12 DEF Send, SendSync
    <2>2. f = frame /\ o = ExpectedUniverses /\ args.send_sync
        BY <1>2, <2>1 DEF SenderAt, WireInv, InPlace
    <2>3. p \in Packets
        BY <1>3, SyncTyped
    <2>4. p.frame = frame /\ Pos(p) = ExpectedUniverses
        BY DEF SyncPacket, Pos
    <2> HIDE DEF p
    <2>5. PICK f2 \in Nat : f2 = frame + 1
        BY <1>4
    <2>6. Follows(p, f2, 0)
        BY <1>4, <2>2, <2>4, <2>5 DEF Follows, Comes
    <2>7. SenderAt(f2, 0)'
        BY <2>1, <2>5 DEF SenderAt
    <2> QED
        BY <1>10, <2>1, <2>2, <2>3, <2>4, <2>5, <2>6, <2>7
<1>13. ASSUME wire # <<>>, wire' = Tail(wire), UNCHANGED senderVars,
              ASSUME NEW p \in Packets, OfThisRun(p), Accepted(p), p = Head(wire), NEW g2, NEW q2,
                     At(received, staging, Trouble, p.frame, Pos(p), g, q, g2, q2)
              PROVE  /\ FewSweeps(shown', Trouble') /\ WaitsWhole(received', pending')
                     /\ Owed(received', staging', Trouble', g2, q2)
                     /\ Trouble' = Trouble \/ Trouble' = Trouble + 1
       PROVE  SweepInv'
    <2> DEFINE p == wire[1]
    <2>1. Head(wire) = p /\ p \in Packets /\ 1 \in 1 .. Len(wire)
        BY <1>3, <1>13, TailOfWire
    <2>2. OfThisRun(p) /\ Accepted(p)
        BY <2>1 DEF WireInv, WireOfThisRun, IInv, WireOK
    <2>3. \A i \in 1 .. Len(wire) : wire[i].frame \in Nat /\ Pos(wire[i]) \in Nat
        <3> TAKE i \in 1 .. Len(wire)
        <3>1. OfThisRun(wire[i]) /\ wire[i] \in Packets
            BY <1>3, ElementOfSeq DEF WireInv, WireOfThisRun
        <3>2. wire[i].frame \in Nat /\ Pos(wire[i]) \in 0 .. LastPos
            BY <3>1, PlaceOfPacket
        <3> QED
            BY <1>4, <3>2
    <2>4. /\ DueOrAgain(wire[1].frame, Pos(wire[1]), Trouble, g, q)
          /\ LooseOn(wire', Trouble)
          /\ \E g2, q2 \in Nat : Follows(wire[1], g2, q2) /\ LooseBetween(wire', Trouble, f, o, g2, q2)
        BY <1>2, <1>3, <1>4, <1>13, <2>3, LooseShrinks
    <2>5. PICK g2, q2 \in Nat : Follows(p, g2, q2) /\ LooseBetween(wire', Trouble, f, o, g2, q2)
        BY <2>4
    <2>6. p.frame \in Nat /\ Pos(p) \in 0 .. LastPos
        BY <2>1, <2>2, PlaceOfPacket
    <2>7. At(received, staging, Trouble, p.frame, Pos(p), g, q, g2, q2)
        BY <1>1, <1>2, <1>5, <1>6, <2>4, <2>5, <2>6 DEF At, Follow, Follows
    <2> HIDE DEF p
    <2>8. /\ FewSweeps(shown', Trouble') /\ WaitsWhole(received', pending')
          /\ Owed(received', staging', Trouble', g2, q2)
          /\ Trouble' = Trouble \/ Trouble' = Trouble + 1
        BY <1>13, <2>1, <2>2, <2>7
    <2>9. LooseOn(wire', Trouble') /\ LooseBetween(wire', Trouble', f, o, g2, q2)
        <3>1. LooseOn(wire', Trouble + 1) /\ LooseBetween(wire', Trouble + 1, f, o, g2, q2)
            BY <1>1, <1>5, <2>4, <2>5, MoreTrouble
        <3> QED
            BY <2>4, <2>5, <2>8, <3>1
    <2>10. SenderAt(f, o)'
        BY <1>2, <1>13, SenderWaits DEF senderVars
    <2> QED
        BY <1>2, <2>5, <2>8, <2>9, <2>10, SweepInvAfter
<1>14. CASE Deliver
    <2>1. wire # <<>> /\ wire' = Tail(wire) /\ UNCHANGED senderVars /\ Handle(Head(wire))
        BY <1>14 DEF Deliver
    <2>2. Trouble' = Trouble \/ Trouble' = Trouble + 1
        <3>1. faults' = faults \/ Happens("refused")
            BY <2>1 DEF Handle, HandleData, HandleSync, Commit
        <3> QED
            BY <1>5, <3>1 DEF FaultKinds
    <2>3. ASSUME NEW p \in Packets, OfThisRun(p), Accepted(p), p = Head(wire), NEW g2, NEW q2,
                 At(received, staging, Trouble, p.frame, Pos(p), g, q, g2, q2)
          PROVE  /\ FewSweeps(shown', Trouble') /\ WaitsWhole(received', pending')
                 /\ Owed(received', staging', Trouble', g2, q2)
                 /\ Trouble' = Trouble \/ Trouble' = Trouble + 1
        <3>1. Handle(p)
            BY <2>1, <2>3
        <3> QED
            BY <1>3, <2>2, <2>3, <3>1, HandleTorn
    <2> QED
        BY <1>13, <2>1, <2>3
<1>15. CASE Lose
    <2>1. /\ wire # <<>> /\ wire' = Tail(wire) /\ UNCHANGED senderVars /\ UNCHANGED boardVars
          /\ Trouble' = Trouble + 1
        BY <1>5, <1>15 DEF Lose, FaultKinds
    <2>2. ASSUME NEW p \in Packets, OfThisRun(p), Accepted(p), p = Head(wire), NEW g2, NEW q2,
                 At(received, staging, Trouble, p.frame, Pos(p), g, q, g2, q2)
          PROVE  /\ FewSweeps(shown', Trouble') /\ WaitsWhole(received', pending')
                 /\ Owed(received', staging', Trouble', g2, q2)
                 /\ Trouble' = Trouble \/ Trouble' = Trouble + 1
        <3>1. Owed(received, staging, Trouble + 1, g2, q2)
            BY <2>2, PacketMissed
        <3> QED
            BY <1>3, <1>7, <2>1, <3>1 DEF boardVars
    <2> QED
        BY <1>13, <2>1, <2>2
<1>16. CASE Duplicate
    <2>1. /\ wire # <<>> /\ wire' = <<Head(wire)>> \o wire /\ UNCHANGED senderVars /\ UNCHANGED boardVars
          /\ Trouble' = Trouble + 1
        BY <1>5, <1>16 DEF Duplicate, FaultKinds
    <2>2. LooseOn(wire', Trouble') /\ LooseBetween(wire', Trouble', f, o, g, q)
        BY <1>2, <1>3, <1>5, <2>1, LooseDoubles
    <2>3. SenderAt(f, o)'
        BY <1>2, <2>1, SenderWaits DEF senderVars
    <2>4. /\ FewSweeps(shown', Trouble') /\ WaitsWhole(received', pending')
          /\ Owed(received', staging', Trouble', g, q)
        BY <1>3, <1>7, <2>1 DEF boardVars
    <2> QED
        BY <1>2, <2>2, <2>3, <2>4, SweepInvAfter
<1>17. CASE Blackout
    <2>1. /\ received' = {} /\ shown' = NoWords /\ UNCHANGED vars /\ Trouble' = Trouble + 1
        BY <1>5, <1>17 DEF Blackout, ClearAssembly, FaultKinds
    <2>2. LooseOn(wire', Trouble') /\ LooseBetween(wire', Trouble', f, o, g, q)
        BY <1>1, <1>2, <1>3, <1>5, <2>1, MoreTrouble DEF vars
    <2>3. SenderAt(f, o)'
        BY <1>2, <2>1, SenderWaits DEF vars, senderVars
    <2>4. FewSweeps(shown', Trouble')
        BY <2>1, OldAssumption DEF FewSweeps, NoWords
    <2>5. WaitsWhole(received', pending')
        BY <2>1 DEF WaitsWhole, ShowsFrames
    <2>6. Owed(received', staging', Trouble', g, q)
        BY <1>5, <2>1 DEF Owed
    <2> QED
        BY <1>2, <2>2, <2>3, <2>4, <2>5, <2>6, SweepInvAfter
<1>18. CASE UNCHANGED allVars
    <2>1. UNCHANGED <<boardVars, wire, pc, frame, offset, faults>>
        BY <1>18 DEF allVars, vars, senderVars
    <2>2. SenderAt(f, o)'
        BY <1>2, <2>1, SenderWaits
    <2>3. LooseOn(wire', Trouble') /\ LooseBetween(wire', Trouble', f, o, g, q)
        BY <1>2, <1>3, <1>8, <2>1
    <2> QED
        BY <1>2, <1>8, <2>1, <2>2, <2>3, SweepInvAfter
<1>19. Send => wire' = wire \/ SendData \/ SendSync
    BY DEF Send, Main, StartSweep, Finish, CountData, EndSweep, CountSync, Pace, Wake, Interrupt, Tick
<1> QED
    BY <1>9, <1>11, <1>12, <1>14, <1>15, <1>16, <1>17, <1>18, <1>19 DEF SystemNext

LEMMA TornStep ==
    IInv /\ WireInv /\ BoardInv /\ FrameCounted /\ Silent' /\ Torn /\ [SystemNext]_allVars => Torn'
<1> SUFFICES ASSUME IInv, WireInv, BoardInv, FrameCounted, Silent', Torn, [SystemNext]_allVars,
                    faults'.late = 0
             PROVE  (ShowsFrames => SweepInv)' /\ (~ShowsFrames => shown = NoWords)'
    BY DEF Torn
<1>1. faults.late = 0 /\ ~Delay
    BY TroubleCounts
<1>2. ShowsFrames' = ShowsFrames /\ NoWords' = NoWords
    BY SystemKeepsArgs DEF ShowsFrames
<1>3. ShowsFrames => SweepInv'
    BY <1>1, SweepInvStep DEF Torn
<1>4. ~ShowsFrames => shown' = NoWords
    BY <1>1, NeverShown DEF Torn
<1> QED
    BY <1>2, <1>3, <1>4

----
(* Everything the proofs know of a run.                                    *)
SystemInv == IInv /\ WireInv /\ BoardInv /\ Silent /\ SyncInv /\ FrameCounted /\ InStep
             /\ Torn

THEOREM SystemInvariance == SystemSpec => []SystemInv
<1>1. SystemInit => SystemInv
    BY InitInv, InitWireInv, InitBoardInv, InitSilent, InitSyncInv, InitFrameCounted, InitInStep,
       InitTorn
    DEF SystemInit, SystemInv
<1>2. SystemInv /\ [SystemNext]_allVars => SystemInv'
    BY SystemStepIInv, WireInvStep, BoardInvStep, SilentStep, SyncInvStep, FrameCountedStep, InStepStep,
       TornStep
    DEF SystemInv
<1> QED
    BY <1>1, <1>2, PTL DEF SystemSpec

(* The network changes nothing about the packets it carries: whatever is   *)
(* lost, doubled or late, every packet on the wire passes the board's      *)
(* parser and the sender's counts and sweeps are right.                    *)
THEOREM PacketsAreRightOnAnyNetwork == SystemSpec => []PacketsAreRight
<1>1. SystemInv => PacketsAreRight
    BY RightInIInv DEF SystemInv
<1> QED
    BY <1>1, SystemInvariance, PTL

LEMMA OneFrame ==
    ASSUME NEW words, NEW v, \A u \in Offsets : words[u] = v
    PROVE  Cardinality(Frames(words)) <= 1
<1>1. Frames(words) \subseteq {v}
    BY DEF Frames
<1>2. IsFiniteSet({v}) /\ Cardinality({v}) = 1
    BY FS_Singleton
<1>3. Cardinality(Frames(words)) <= Cardinality({v})
    BY <1>1, <1>2, FS_Subset
<1>4. Cardinality(Frames(words)) \in Nat
    BY <1>1, <1>2, FS_Subset, FS_CardinalityType
<1> QED
    BY <1>2, <1>3, <1>4

LEMMA SystemInvIsShown == SystemInv => ReceivedIsShown
<1> SUFFICES ASSUME SystemInv PROVE ReceivedIsShown
    OBVIOUS
<1> USE DEF SystemInv
<1>1. BoardTypeOK
    <2>1. TypeOK
        BY RightInIInv DEF PacketsAreRight
    <2> QED
        BY <2>1 DEF BoardTypeOK, BoardInv, BoardTypes, Words, Sequences
<1>2. NothingOldShown
    BY DEF BoardInv, Staged
<1>3. ASSUME Trouble = 0, SyncsItself, SendsEveryUniverse
      PROVE  anomalies = 0 /\ Cardinality(Frames(shown)) <= 1
    <2>1. CASE Healthy
        <3>1. PICK g, q \in Nat : BoardAt(g, q)
            BY <2>1 DEF InStep
        <3>2. \A u \in Offsets : shown[u] = IF g = 0 THEN Old ELSE g - 1
            BY <3>1 DEF BoardAt, NoWords
        <3> QED
            BY <3>1, <3>2, OneFrame DEF BoardAt
    <2>2. CASE ~Healthy
        <3>1. NothingTaken
            BY <1>3, <2>2 DEF Healthy, ShowsFrames, Silent
        <3>2. \A u \in Offsets : shown[u] = Old
            BY <3>1 DEF NothingTaken, NoWords
        <3> QED
            BY <3>1, <3>2, OneFrame DEF NothingTaken
    <2> QED
        BY <2>1, <2>2
<1>4. ASSUME pc = "done", frame = args.packet_count, frame > 0, wire = <<>>, Trouble = 0,
             SendsEveryUniverse, ~args.preview, ~args.stream_terminate, SyncsItself
      PROVE  shown = [u \in Offsets |-> args.packet_count - 1]
    <2>1. CASE Offsets # {}
        <3>1. PICK f, o, g, q \in Nat : SenderAt(f, o) /\ BoardAt(g, q) /\ Between(f, o, g, q)
            BY <1>4, <2>1 DEF InStep, Healthy, ShowsFrames
        <3>2. f = frame /\ g = f
            BY <1>4, <3>1 DEF SenderAt, Between, BetweenOn
        <3>3. g > 0
            BY <1>4, <3>2
        <3> QED
            BY <1>4, <3>1, <3>2, <3>3 DEF BoardAt
    <2>2. CASE Offsets = {}
        BY <2>2 DEF Silent, NothingTaken, NoWords
    <2> QED
        BY <2>1, <2>2
<1> QED
    BY <1>1, <1>2, <1>3, <1>4 DEF ReceivedIsShown, CleanNetwork, LastFrameShown

(* For every number of universes, every fault bound and every command      *)
(* line: nothing is shown that was not received for it, and while no       *)
(* packet is lost, doubled or late the strands show whole sweeps, without  *)
(* a sequence anomaly, and in the end the last one.                        *)
THEOREM ReceivedIsShownHolds == SystemSpec => []ReceivedIsShown
BY SystemInvIsShown, SystemInvariance, PTL

(* Whatever was lost before it, a sweep that lost nothing and ends with a  *)
(* sync packet is shown whole or not at all.                               *)
THEOREM SyncShowsWholeSweepHolds == SystemSpec => SyncShowsWholeSweep
<1> DEFINE Shows == /\ shown' # shown /\ shown' # NoWords /\ wire # <<>> /\ Head(wire).kind = "sync"
                    /\ faults.late = 0 /\ Head(wire).frame \notin hurt
<1>1. SystemInv /\ [SystemNext]_allVars
         => [Shows => Frames(shown') = {Head(wire).frame}]_allVars
    <2> SUFFICES ASSUME SystemInv, SystemNext, Shows
                 PROVE  \E v : v = Head(wire).frame /\ Frames(shown') = {v}
        OBVIOUS
    <2> USE DEF SystemInv
    <2>1. Deliver
        BY DEF SystemNext, Send, Lose, Duplicate, Delay, Blackout, boardVars
    <2> DEFINE p == wire[1]
    <2>2. wire \in Seq(Packets) /\ wire # <<>> /\ wire' = Tail(wire) /\ Handle(Head(wire))
        BY <2>1 DEF Deliver, IInv, WireOK
    <2>3. Head(wire) = p /\ p \in Packets /\ 1 \in 1 .. Len(wire)
        BY <2>2, TailOfWire
    <2>4. OfThisRun(p) /\ Accepted(p) /\ p.kind = "sync" /\ p.frame \notin hurt
        BY <2>3 DEF WireInv, WireOfThisRun, IInv, WireOK
    <2>5. \A u \in Offsets : u < UniverseCount => Settled(p.frame, u, 1)
        BY <2>3, <2>4 DEF SyncInv, Ordered, SyncsSettle
    <2>6. \A u \in Offsets : u < UniverseCount /\ u \in received => staging[u] = p.frame
        BY <2>5 DEF Settled, SettledIn, SentBefore, Arrived
    <2> HIDE DEF p
    <2>7. Commit(received, lastSequence, staging) /\ pending
        BY <2>2, <2>3, <2>4, HandleCases DEF boardVars, Takes
    <2>8. shown' = staging
        BY <2>7 DEF Commit
    <2>9. \A u \in Offsets : staging[u] = p.frame
        BY <2>6, <2>7 DEF BoardInv, Staged
    <2>10. Offsets # {}
        <3>1. staging \in Words /\ NoWords \in Words
            BY DEF BoardInv, BoardTypes, NoWords, Words
        <3> QED
            BY <2>8, <3>1 DEF Words
    <2>11. Frames(staging) = {p.frame}
        BY <2>9, <2>10 DEF Frames
    <2>12. Frames(shown') = Frames(staging)
        BY <2>8
    <2> QED
        BY <2>3, <2>11, <2>12
<1> QED
    BY <1>1, SystemInvariance, PTL DEF SystemSpec, SyncShowsWholeSweep

(* While no packet has overtaken another, for any number of universes and  *)
(* of packets lost or doubled, of refused commits and of blackouts:        *)
(* one fault mixes the words of neighbouring sweeps at most, and it takes  *)
(* two more for each further sweep.                                        *)
THEOREM TornByFewSweepsHolds == SystemSpec => [](faults.late = 0 => TornByFewSweeps)
<1>1. ASSUME SystemInv, faults.late = 0 PROVE TornByFewSweeps
    <2>1. BoardInv /\ Torn /\ Trouble \in Nat
        <3>1. BoardInv /\ Torn
            BY <1>1 DEF SystemInv
        <3>2. faults \in [FaultKinds -> Nat]
            BY <3>1 DEF BoardInv, BoardTypes
        <3>3. /\ faults.lost \in Nat /\ faults.duplicated \in Nat /\ faults.late \in Nat
              /\ faults.blackouts \in Nat /\ faults.refused \in Nat
            BY <3>2 DEF FaultKinds
        <3> QED
            BY <3>1, <3>3 DEF Trouble
    <2>2. \A a \in Offsets : shown[a] \in Nat \cup {Old}
        BY <2>1 DEF BoardInv, BoardTypes, Words
    <2>3. CASE ShowsFrames
        <3>1. FewSweeps(shown, Trouble)
            BY <1>1, <2>1, <2>3 DEF Torn, SweepInv
        <3> QED
            BY <2>2, <3>1 DEF TornByFewSweeps, Frames, FewSweeps
    <2>4. CASE ~ShowsFrames
        BY <1>1, <2>1, <2>4 DEF Torn, TornByFewSweeps, Frames, NoWords
    <2> QED
        BY <2>3, <2>4
<1>2. SystemInv => (faults.late = 0 => TornByFewSweeps)
    BY <1>1
<1> QED
    BY <1>2, SystemInvariance, PTL
====
