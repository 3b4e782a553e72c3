---- MODULE E131Receiver ----
(***************************************************************************)
(* ps/app/e131_receiver.c: the frame assembler.  Data packets of one       *)
(* universe each arrive in any order, from several sources, with or        *)
(* without a synchronization address; the assembler follows one source,    *)
(* collects a sweep of all universes in the staging buffer of              *)
(* frame_pipeline.c and hands it to the PL.  ethernet_receiver_poll drives *)
(* it: a poll reads the clock once, hands over the packets of that poll    *)
(* and ends with e131_receiver_poll, which blacks the strands out when the *)
(* source has shown nothing for BLACKOUT_TIMEOUT_MS.                       *)
(*                                                                         *)
(* Packets that fail the parser and preview packets only count and are no  *)
(* step here; so are the counters, gap statistics and sequence anomalies   *)
(* of g_status, which nothing in the program reads back.  sync_mode and    *)
(* sync_address change together and are one variable.                      *)
(***************************************************************************)
EXTENDS Integers, FiniteSets

CONSTANTS Source,       \* component identifiers (CIDs) of the senders
          NoSource,     \* g_locked_cid while source_locked is 0
          Priority,     \* E1.31 priorities
          SyncAddress,  \* the non-zero synchronization addresses
          NoSync,       \* synchronization address 0
          Universe,     \* offsets of the universes the active pixels need
          Black,        \* words of a universe that are zero
          Old,          \* words of a universe left from an earlier frame
          Timeout,      \* DONDER_E131_BLACKOUT_TIMEOUT_MS
          MaxGap,       \* longest time between two polls
          ClockMod      \* the millisecond clock is a uint32_t

(* A packet's pixels are named by who sent them and how.                   *)
Payload == [cid : Source, sync : SyncAddress \cup {NoSync}]

ASSUME SourceAssumption == NoSource \notin Source
ASSUME PriorityAssumption == Priority \subseteq Nat
ASSUME SyncAssumption == NoSync \notin SyncAddress
ASSUME WordsAssumption == Black # Old /\ {Black, Old} \cap Payload = {}
ASSUME UniverseAssumption == IsFiniteSet(Universe) /\ Universe # {}
ASSUME ClockAssumption == /\ Timeout \in Nat \ {0} /\ MaxGap \in Nat \ {0}
                          /\ ClockMod \in Nat /\ Timeout + MaxGap < ClockMod

VARIABLES source,       \* g_locked_cid, NoSource when unlocked
          priority,     \* g_status.active_priority
          sync,         \* g_status.sync_mode and sync_address
          assembly,     \* g_received_bitmap, g_received_count, g_pending_synced_complete
          staging,      \* the staging words, one value per universe
          shown,        \* the words of the last frame the PL accepted
          now,          \* g_poll_now_ms
          lastDisplay,  \* g_last_display_ms
          hasDisplay,   \* g_has_display_time
          draining,     \* a poll is handing over packets
          refused,      \* history: the lock was released by a black frame the PL did not take
          silence       \* history: time since the source was locked or a frame shown, up to Timeout

lockVars == <<source, priority, sync, refused>>
frameVars == <<assembly, staging, shown>>
timeVars == <<now, lastDisplay, hasDisplay, draining, silence>>
vars == <<lockVars, frameVars, timeVars>>

(* What the words of a universe hold: a packet's payload; zeros; or what   *)
(* some earlier frame left in the staging buffer it starts from.           *)
Words == [Universe -> Payload \cup {Black, Old}]
AllOld == [u \in Universe |-> Old]
AllBlack == [u \in Universe |-> Black]

Clock == 0 .. ClockMod - 1
Elapsed(then) == (now - then) % ClockMod
AtLeastTimeout(age) == IF age > Timeout THEN Timeout ELSE age

EmptyAssembly == [received |-> {}, count |-> 0, pending |-> FALSE]
Complete(asm) == asm.count = Cardinality(Universe)

(* main has committed a black frame before ethernet_receiver_init.         *)
Init == /\ source = NoSource /\ priority = 0 /\ sync = NoSync
        /\ assembly = EmptyAssembly
        /\ staging = AllOld /\ shown = AllBlack
        /\ now \in Clock
        /\ lastDisplay = 0 /\ hasDisplay = FALSE
        /\ draining = FALSE /\ refused = FALSE
        /\ silence = 0

----
(* The parts of the handlers.                                              *)

(* g_last_display_ms is set: a frame was shown or a source was locked.     *)
Displayed == /\ lastDisplay' = now
             /\ hasDisplay' = TRUE
             /\ silence' = 0

NotDisplayed == UNCHANGED <<lastDisplay, hasDisplay, silence>>

(* accept_source: the first source is locked, a source of a higher priority*)
(* takes over, any other is ignored.                                       *)
Accepts(s, p) == source \in {NoSource, s} \/ p > priority

LockSource(s, p) == /\ Accepts(s, p)
                    /\ source' = s
                    /\ priority' = p
                    /\ refused' = FALSE

Preempts(s) == source \notin {NoSource, s}

(* Defective variant: a new lock keeps the display time of the old one.    *)
BadLockTime(s) == IF source = s
                  THEN NotDisplayed
                  ELSE hasDisplay' = TRUE /\ silence' = 0 /\ UNCHANGED lastDisplay

(* The display time when nothing is shown: it still restarts with a lock.  *)
LockTime(s) == IF source = s THEN NotDisplayed ELSE Displayed

(* Defective variant: taking over from another source keeps its sweep.     *)
BadAssemblyKept(s, a) == IF a # sync THEN EmptyAssembly ELSE assembly

(* What is left of the sweep when s sends with synchronization address a.  *)
AssemblyKept(s, a) == IF Preempts(s) \/ a # sync THEN EmptyAssembly ELSE assembly

MarkUniverse(asm, u) ==
    [asm EXCEPT !.received = @ \cup {u},
                !.count = IF u \in asm.received THEN @ ELSE @ + 1]

(* The three answers of frame_pipeline_commit: the PL takes the frame, has *)
(* no free bank, or reports an error.  Accepted frames swap the staging    *)
(* buffers.  A frame without a bank is dropped and its sweep forgotten;    *)
(* after an error the sweep is kept and retried by the next packet.        *)
CommitCurrent(s, asm, words) ==
    \/ /\ shown' = words
       /\ staging' = AllOld
       /\ assembly' = EmptyAssembly
       /\ Displayed
    \/ /\ staging' = AllOld
       /\ assembly' = EmptyAssembly
       /\ UNCHANGED shown
       /\ LockTime(s)
    \/ /\ staging' = words
       /\ assembly' = asm
       /\ UNCHANGED shown
       /\ LockTime(s)

(* Defective variant: the black frame is staged but never committed.       *)
BadCommitBlack(s) ==
    /\ staging' = AllBlack
    /\ UNCHANGED shown
    /\ Displayed
    /\ assembly' = EmptyAssembly
    /\ source' = NoSource /\ priority' = 0 /\ sync' = NoSync /\ refused' = FALSE

(* commit_black: a failed black frame is not tried again, the source is    *)
(* forgotten either way.                                                   *)
CommitBlack(s) ==
    /\ \/ /\ shown' = AllBlack
          /\ staging' = AllOld
          /\ Displayed
          /\ refused' = FALSE
       \/ /\ staging' = AllBlack
          /\ UNCHANGED shown
          /\ LockTime(s)
          /\ refused' = TRUE
    /\ assembly' = EmptyAssembly
    /\ source' = NoSource /\ priority' = 0 /\ sync' = NoSync

----
(* e131_receiver_handle_packet.                                            *)

(* A packet of a source that may not take the lock changes nothing.        *)
IgnoredSource(s, p) == /\ draining
                       /\ ~Accepts(s, p)
                       /\ UNCHANGED vars

(* The stream-terminated option: the universe does not matter, and a       *)
(* source that was never locked blacks the strands out too.                *)
StreamTerminated(s, p) == /\ draining
                          /\ Accepts(s, p)
                          /\ CommitBlack(s)
                          /\ UNCHANGED <<now, draining>>

(* The universe is outside the frame or the slot count is not the expected *)
(* one: the packet is rejected after the lock was taken.                   *)
SlotCountRejected(s, p) == /\ draining
                           /\ LockSource(s, p)
                           /\ assembly' = AssemblyKept(s, sync)
                           /\ LockTime(s)
                           /\ UNCHANGED <<sync, staging, shown, now, draining>>

(* Defective variant: a complete frame does not wait for its sync packet.  *)
BadShowsNow(asm, a) == Complete(asm)

(* A complete frame is committed at once unless a sync packet is to follow.*)
ShowsNow(asm, a) == Complete(asm) /\ a = NoSync

(* One universe of pixels with synchronization address a (or none).        *)
UniverseData(s, p, a, u) ==
    /\ draining
    /\ LockSource(s, p)
    /\ sync' = a
    /\ LET asm == MarkUniverse(AssemblyKept(s, a), u)
           words == [staging EXCEPT ![u] = [cid |-> s, sync |-> a]]
       IN  \/ /\ ShowsNow(asm, a)
              /\ CommitCurrent(s, asm, words)
           \/ /\ ~ShowsNow(asm, a)
              /\ assembly' = [asm EXCEPT !.pending = @ \/ Complete(asm)]
              /\ staging' = words
              /\ UNCHANGED shown
              /\ LockTime(s)
    /\ UNCHANGED <<now, draining>>

(* process_sync_packet: only the locked source's own address counts.       *)
MatchesSync(s, a) == s = source /\ a = sync

SyncPacket(s, a) ==
    /\ draining
    /\ IF MatchesSync(s, a) /\ assembly.pending
       THEN CommitCurrent(s, assembly, staging)
       ELSE UNCHANGED frameVars /\ NotDisplayed
    /\ UNCHANGED <<lockVars, now, draining>>

----
(* ethernet_receiver_poll: the clock is read once, at the start.           *)
PollStart == /\ ~draining
             /\ draining' = TRUE
             /\ \E gap \in 1 .. MaxGap :
                   /\ now' = (now + gap) % ClockMod
                   /\ silence' = AtLeastTimeout(silence + gap)
             /\ UNCHANGED <<lockVars, frameVars, lastDisplay, hasDisplay>>

(* Defective variant: the limit is compared with the clock itself.         *)
BadTimedOut == source # NoSource /\ hasDisplay /\ now >= lastDisplay + Timeout

TimedOut == source # NoSource /\ hasDisplay /\ Elapsed(lastDisplay) >= Timeout

(* The end of the poll, with e131_receiver_poll.                           *)
PollEnd == /\ draining
           /\ draining' = FALSE
           /\ UNCHANGED now
           /\ IF TimedOut
              THEN CommitBlack(source)
              ELSE UNCHANGED <<lockVars, frameVars>> /\ NotDisplayed

Receive == \E s \in Source :
              \/ \E p \in Priority :
                    \/ IgnoredSource(s, p)
                    \/ StreamTerminated(s, p)
                    \/ SlotCountRejected(s, p)
                    \/ \E a \in SyncAddress \cup {NoSync}, u \in Universe : UniverseData(s, p, a, u)
              \/ \E a \in SyncAddress : SyncPacket(s, a)

Next == PollStart \/ Receive \/ PollEnd

(* The main loop polls for ever and the drain budget ends every poll.      *)
Fairness == WF_vars(PollStart) /\ WF_vars(PollEnd)

Spec == Init /\ [][Next]_vars /\ Fairness

----
(* The type invariant of the receiver's static variables.                  *)
TypeOK == /\ source \in Source \cup {NoSource}
          /\ priority \in Priority \cup {0}
          /\ sync \in SyncAddress \cup {NoSync}
          /\ assembly \in [received : SUBSET Universe,
                            count : 0 .. Cardinality(Universe), pending : BOOLEAN]
          /\ staging \in Words /\ shown \in Words
          /\ now \in Clock /\ lastDisplay \in Clock
          /\ hasDisplay \in BOOLEAN /\ draining \in BOOLEAN /\ refused \in BOOLEAN
          /\ silence \in 0 .. Timeout

(* Every universe marked in the sweep was sent by the source that holds the*)
(* lock, with the synchronization address in force; the count kept beside  *)
(* the bitmap is its size; a frame waits for a sync packet only when it is *)
(* complete; and nothing is collected without a lock.                      *)
SweepOwned == /\ \A u \in assembly.received : staging[u] = [cid |-> source, sync |-> sync]
              /\ assembly.count = Cardinality(assembly.received)
              /\ assembly.pending => Complete(assembly) /\ sync # NoSync
              /\ source = NoSource => assembly = EmptyAssembly /\ sync = NoSync

(* A frame on the strands is black, or all its universes were received     *)
(* after the frame before it, from one source, with one synchronization    *)
(* address: no order of losses, take-overs, mode changes, refused and      *)
(* failed commits shows a mixed or partly old frame.                       *)
WholeFrames == shown = AllBlack \/ \E c \in Payload : shown = [u \in Universe |-> c]

(* The lock is free and the strands are black, or the one black frame that *)
(* was to make them so was refused by the PL and they stay as they are.    *)
BlackedOut == source = NoSource /\ (shown = AllBlack \/ refused)

(* Between polls, once no frame was shown and no source took the lock for  *)
(* the blackout timeout, nobody holds the lock and the strands are black   *)
(* (but for a refused black frame), whatever the sources still send and    *)
(* wherever the 32-bit clock wraps.                                        *)
BlackoutInTime == ~draining /\ silence >= Timeout => BlackedOut

(* A poll never blacks out a source that showed a frame, or took the lock, *)
(* within the timeout.                                                     *)
NoEarlyBlackout == [][PollEnd /\ source' # source => silence = Timeout]_vars

(* A frame sent for synchronized display is not shown by its own data: it  *)
(* was complete and waiting, from the locked source with the address in    *)
(* force, before the packet that shows it.                                 *)
SyncedOnSync ==
    [][ \A s \in Source, a \in SyncAddress :
            shown' # shown /\ shown' = [u \in Universe |-> [cid |-> s, sync |-> a]]
                => assembly.pending /\ staging = shown' /\ source = s /\ sync = a ]_vars

(* Silence does not last on lit strands: again a frame is shown or a       *)
(* source takes the lock, or the strands end up black and the lock free    *)
(* (but for a refused black frame, which nobody tries again).              *)
LockExpires == silence > 0 ~> silence = 0 \/ BlackedOut
====
