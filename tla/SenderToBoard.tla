---- MODULE SenderToBoard ----
(***************************************************************************)
(* e131_send.py, the network and the frame assembler of e131_receiver.c    *)
(* together: what the loss, duplication and delay of packets do to the     *)
(* frames on the strands.  The board is configured for the sender's        *)
(* pixels and hears no other source; staging and strands hold, for each    *)
(* universe, the number of the frame its words came from.                  *)
(*                                                                         *)
(* The sender numbers all its packets with one counter; the board expects  *)
(* consecutive numbers within a universe, and forgets them whenever the    *)
(* assembly is cleared.                                                    *)
(***************************************************************************)
EXTENDS E131Sender, FiniteSets

CONSTANTS Old,         \* words of a universe left from an earlier frame or black
          None,        \* no sequence number seen
          MaxLost, MaxDuplicated, MaxLate, MaxBlackouts, MaxRefused  \* bounds of the faults

ASSUME OldAssumption == Old \notin Nat /\ None \notin Nat

VARIABLES received,    \* g_received_bitmap
          lastSequence,\* g_last_sequence, None where g_sequence_seen is 0
          pending,     \* g_pending_synced_complete
          staging, shown,
          anomalies,   \* g_status.sequence_anomalies
          committed,   \* history: frames_committed, without black ones
          hurt,        \* history: frames that lost a data packet
          faults       \* history: how often each fault happened

boardVars == <<received, lastSequence, pending, staging, shown, anomalies, committed>>
allVars == <<vars, boardVars, hurt, faults>>

Offsets == 0 .. ExpectedUniverses - 1
NoWords == [u \in Offsets |-> Old]
NoSequences == [u \in Offsets |-> None]
FaultKinds == {"lost", "duplicated", "late", "blackouts", "refused"}

BoardInit == /\ received = {} /\ lastSequence = NoSequences /\ pending = FALSE
             /\ staging = NoWords /\ shown = NoWords
             /\ anomalies = 0 /\ committed = 0
             /\ hurt = {} /\ faults = [k \in FaultKinds |-> 0]

SystemInit == Init /\ BoardInit

Happens(k) == faults' = [faults EXCEPT ![k] = @ + 1]

----
(* The receiver.                                                           *)
(* Defective variant: the sequence numbers survive the sweep.              *)
BadClearAssembly == received' = {} /\ pending' = FALSE /\ UNCHANGED lastSequence

ClearAssembly == received' = {} /\ lastSequence' = NoSequences /\ pending' = FALSE

(* commit_current: the frame is shown; dropped for want of a bank; or kept *)
(* after an error.                                                         *)
Commit(asm, seen, words) ==
    \/ /\ shown' = words /\ staging' = NoWords /\ ClearAssembly
       /\ committed' = committed + 1
       /\ UNCHANGED faults
    \/ /\ faults.refused < MaxRefused /\ Happens("refused")
       /\ \/ staging' = NoWords /\ ClearAssembly
          \/ staging' = words /\ received' = asm /\ lastSequence' = seen /\ UNCHANGED pending
       /\ UNCHANGED <<shown, committed>>

(* The number after the last one of the same universe.                     *)
Expected(u) == (lastSequence[u] + 1) % SequenceMod

Rejected(p) == p.preview \/ ~ParsesAsData(p) \/ ~SlotsExpected(p)

WaitsForSync(p) == p.sync_address # 0

Complete(asm) == Cardinality(asm) = ExpectedUniverses

(* Defective variant: a sync packet shows whatever was received.           *)
BadReady == received # {}

Ready == pending

(* Defective variant: the next universe is marked too.                     *)
BadMarked(u) == received \cup ({u, u + 1} \cap Offsets)

Marked(u) == received \cup {u}

Written(u, f) == [staging EXCEPT ![u] = f]

HandleData(p) ==
    /\ p.kind = "data"
    /\ IF Rejected(p) THEN UNCHANGED <<boardVars, faults>>
       ELSE IF p.terminated
            THEN /\ ClearAssembly /\ staging' = NoWords /\ shown' = NoWords
                 /\ UNCHANGED <<anomalies, committed, faults>>
            ELSE LET u == p.universe - FirstUniverse
                     asm == Marked(u)
                     seen == [lastSequence EXCEPT ![u] = p.sequence]
                     words == Written(u, p.frame)
                 IN  /\ anomalies' = IF lastSequence[u] # None /\ p.sequence # Expected(u)
                                     THEN anomalies + 1 ELSE anomalies
                     /\ IF Complete(asm) /\ ~WaitsForSync(p)
                        THEN Commit(asm, seen, words)
                        ELSE /\ received' = asm /\ lastSequence' = seen /\ staging' = words
                             /\ pending' = (pending \/ Complete(asm))
                             /\ UNCHANGED <<shown, committed, faults>>

HandleSync(p) == /\ p.kind = "sync" /\ ParsesAsSync(p)
                 /\ IF Ready THEN Commit(received, lastSequence, staging)
                    ELSE UNCHANGED <<boardVars, faults>>
                 /\ UNCHANGED anomalies

Handle(p) == HandleData(p) \/ HandleSync(p)

----
(* The network.                                                            *)
Deliver == /\ wire # <<>> /\ wire' = Tail(wire)
           /\ Handle(Head(wire))
           /\ UNCHANGED <<senderVars, hurt>>

Lose == /\ wire # <<>> /\ faults.lost < MaxLost
        /\ wire' = Tail(wire)
        /\ hurt' = IF Head(wire).kind = "data" THEN hurt \cup {Head(wire).frame} ELSE hurt
        /\ Happens("lost")
        /\ UNCHANGED <<senderVars, boardVars>>

Duplicate == /\ wire # <<>> /\ faults.duplicated < MaxDuplicated
             /\ wire' = <<Head(wire)>> \o wire
             /\ Happens("duplicated")
             /\ UNCHANGED <<senderVars, boardVars, hurt>>

(* A packet is overtaken by the one behind it.                             *)
Delay == /\ Len(wire) >= 2 /\ faults.late < MaxLate
         /\ wire' = <<wire[2], wire[1]>> \o SubSeq(wire, 3, Len(wire))
         /\ Happens("late")
         /\ UNCHANGED <<senderVars, boardVars, hurt>>

(* The poll finds nothing shown for the blackout timeout.                  *)
Blackout == /\ faults.blackouts < MaxBlackouts
            /\ ClearAssembly /\ staging' = NoWords /\ shown' = NoWords
            /\ Happens("blackouts")
            /\ UNCHANGED <<vars, anomalies, committed, hurt>>

Send == (Main \/ Interrupt \/ Tick) /\ UNCHANGED <<boardVars, hurt, faults>>

SystemNext == Send \/ Deliver \/ Lose \/ Duplicate \/ Delay \/ Blackout

SystemFairness == WF_allVars(Main /\ UNCHANGED <<boardVars, hurt, faults>>) /\ WF_allVars(Deliver)

SystemSpec == SystemInit /\ [][SystemNext]_allVars /\ SystemFairness

----
BoardTypeOK == /\ TypeOK
               /\ received \subseteq Offsets
               /\ lastSequence \in [Offsets -> (0 .. SequenceMod - 1) \cup {None}]
               /\ pending \in BOOLEAN
               /\ staging \in [Offsets -> Nat \cup {Old}] /\ shown \in [Offsets -> Nat \cup {Old}]
               /\ anomalies \in Nat /\ committed \in Nat
               /\ hurt \subseteq Nat /\ faults \in [FaultKinds -> Nat]

Trouble == faults.lost + faults.duplicated + faults.late + faults.blackouts + faults.refused
Frames(words) == {words[u] : u \in Offsets}

(* --sync-address without --send-sync leaves the board waiting for sync    *)
(* packets that nobody sends.                                              *)
SyncsItself == SyncAddress # 0 => args.send_sync

(* A universe count given by hand may be too small for the strands.        *)
SendsEveryUniverse == UniverseCount >= ExpectedUniverses

(* On a healthy network the board counts no sequence anomaly, although the *)
(* sender counts across universes and the board within one, and every      *)
(* frame it shows is one sweep of the sender.                              *)
CleanNetwork == Trouble = 0 /\ SyncsItself /\ SendsEveryUniverse
                   => anomalies = 0 /\ Cardinality(Frames(shown)) <= 1

(* A sweep that ends with a sync packet and loses nothing is shown whole   *)
(* or not at all, whatever was lost, doubled, refused or blacked out       *)
(* before it: sync packets stop a loss from spreading to later frames.     *)
SyncShowsWholeSweep ==
    [][ shown' # shown /\ shown' # NoWords /\ wire # <<>> /\ Head(wire).kind = "sync"
            /\ faults.late = 0 /\ Head(wire).frame \notin hurt
        => Frames(shown') = {Head(wire).frame} ]_allVars

(* Without sync a loss tears frames: universes of two sweeps are shown     *)
(* together, and every later frame stays torn.  One fault mixes adjacent   *)
(* sweeps; each further sweep between the oldest and the newest words      *)
(* takes two more faults.                                                  *)
TornByFewSweeps == \A f, g \in Frames(shown) \ {Old} : 2 * (f - g) <= 1 + Trouble

(* A frame is never shown with a universe that was not received for it.    *)
NothingOldShown == shown = NoWords \/ Old \notin Frames(shown)

(* On a healthy network the last frame of a run by count reaches the       *)
(* strands and stays.                                                      *)
LastFrameShown ==
    pc = "done" /\ frame = args.packet_count /\ frame > 0 /\ wire = <<>> /\ Trouble = 0
        /\ SendsEveryUniverse /\ ~args.preview /\ ~args.stream_terminate
        /\ SyncsItself
    => shown = [u \in Offsets |-> args.packet_count - 1]

(* What is shown was received for it; on a healthy network it is whole     *)
(* sweeps without an anomaly, and the last one stays.                      *)
ReceivedIsShown == BoardTypeOK /\ NothingOldShown /\ CleanNetwork /\ LastFrameShown
====
