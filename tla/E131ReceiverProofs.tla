---- MODULE E131ReceiverProofs ----
(***************************************************************************)
(* Proofs about the frame assembler for any number of sources, priorities, *)
(* synchronization addresses and universes, and for any timeout and clock  *)
(* width.  That shown frames are whole, and synchronized ones are shown on *)
(* sync only, follows from what the sweep holds (SweepOwned); the two      *)
(* timing properties from TimeInv, which ties the wrapping clock's         *)
(* difference to the real time since the last frame, and FreeIsDark, which *)
(* says how a lock is released.                                            *)
(***************************************************************************)
EXTENDS E131Receiver, FiniteSetTheorems, TLAPS

Asm == [received : SUBSET Universe, count : 0 .. Cardinality(Universe), pending : BOOLEAN]

(* A complete count means that every universe is in the bitmap.            *)
LEMMA CompleteIsAll ==
  ASSUME NEW R \in SUBSET Universe, Cardinality(R) = Cardinality(Universe)
  PROVE  R = Universe
BY UniverseAssumption, FS_Subset

LEMMA MarkCounts ==
  ASSUME NEW asm \in Asm,
         asm.count = Cardinality(asm.received), NEW u \in Universe
  PROVE  /\ MarkUniverse(asm, u).received = asm.received \cup {u}
         /\ MarkUniverse(asm, u).count = Cardinality(asm.received \cup {u})
         /\ MarkUniverse(asm, u).pending = asm.pending
         /\ MarkUniverse(asm, u) \in Asm
<1>1. asm.received \subseteq Universe /\ IsFiniteSet(asm.received)
  BY UniverseAssumption, FS_Subset DEF Asm
<1>2. Cardinality(asm.received \cup {u}) =
        IF u \in asm.received THEN asm.count ELSE asm.count + 1
  <2>1. CASE u \in asm.received
    <3>1. asm.received \cup {u} = asm.received
      BY <2>1
    <3>2. QED
      BY <2>1, <3>1
  <2>2. CASE u \notin asm.received
    BY <2>2, <1>1, FS_AddElement
  <2>3. QED
    BY <2>1, <2>2
<1>3. Cardinality(asm.received \cup {u}) \in 0 .. Cardinality(Universe)
  BY <1>1, UniverseAssumption, FS_Subset, FS_CardinalityType
<1>4. QED
  BY <1>1, <1>2, <1>3 DEF MarkUniverse, Asm

(* The sweep invariant, for the values a step is about to assign.          *)
Owned(asm, words, s, a) == /\ asm \in Asm
                           /\ \A u \in asm.received : words[u] = [cid |-> s, sync |-> a]
                           /\ asm.count = Cardinality(asm.received)
                           /\ asm.pending => Complete(asm) /\ a # NoSync

LEMMA OwnedComplete ==
  ASSUME NEW asm,
         NEW words \in Words, NEW s \in Source, NEW a \in SyncAddress \cup {NoSync},
         Owned(asm, words, s, a), Complete(asm)
  PROVE  words = [u \in Universe |-> [cid |-> s, sync |-> a]]
<1>1. asm.received = Universe
  BY CompleteIsAll DEF Owned, Complete, Asm
<1>2. \A u \in Universe : words[u] = [cid |-> s, sync |-> a]
  BY <1>1 DEF Owned
<1>3. words = [u \in Universe |-> words[u]]
  BY DEF Words
<1>4. QED
  BY <1>2, <1>3

LEMMA EmptyOwned ==
  ASSUME NEW words, NEW s, NEW a
  PROVE  Owned(EmptyAssembly, words, s, a)
BY UniverseAssumption, FS_EmptySet, FS_CardinalityType DEF Owned, EmptyAssembly, Asm

IInv == TypeOK /\ SweepOwned /\ WholeFrames

(* What accept_source and the mode switch leave of the sweep belongs to    *)
(* the sender of the packet at hand.                                       *)
LEMMA KeptOwned ==
  ASSUME IInv, NEW s \in Source, NEW a \in SyncAddress \cup {NoSync}
  PROVE  Owned(AssemblyKept(s, a), staging, s, a)
<1>1. CASE Preempts(s) \/ a # sync
  BY <1>1, EmptyOwned DEF AssemblyKept
<1>2. CASE ~Preempts(s) /\ a = sync
  <2>1. AssemblyKept(s, a) = assembly
    BY <1>2 DEF AssemblyKept
  <2>2. CASE source = NoSource
    BY <2>1, <2>2, EmptyOwned DEF IInv, SweepOwned
  <2>3. CASE source = s
    BY <2>1, <2>3, <1>2 DEF IInv, SweepOwned, TypeOK, Owned, Asm
  <2>4. QED
    BY <2>2, <2>3, <1>2 DEF Preempts
<1>3. QED
  BY <1>1, <1>2

LEMMA MarkOwned ==
  ASSUME NEW asm, NEW words \in Words, NEW s \in Source,
         NEW a \in SyncAddress \cup {NoSync}, NEW u \in Universe,
         Owned(asm, words, s, a)
  PROVE  LET more == [words EXCEPT ![u] = [cid |-> s, sync |-> a]]
         IN  /\ more \in Words
             /\ \A v \in MarkUniverse(asm, u).received : more[v] = [cid |-> s, sync |-> a]
<1>1. MarkUniverse(asm, u).received = asm.received \cup {u}
  BY MarkCounts DEF Owned
<1>2. [cid |-> s, sync |-> a] \in Payload
  BY DEF Payload
<1>3. QED
  BY <1>1, <1>2 DEF Owned, Words, Asm

TimeType == lastDisplay \in Clock /\ hasDisplay \in BOOLEAN /\ silence \in 0 .. Timeout

LEMMA DisplayTyped ==
  ASSUME TypeOK, Displayed \/ NotDisplayed
  PROVE  TimeType'
<1>1. CASE Displayed
  BY <1>1, ClockAssumption DEF Displayed, TypeOK, TimeType
<1>2. CASE NotDisplayed
  BY <1>2 DEF NotDisplayed, TypeOK, TimeType
<1>3. QED
  BY <1>1, <1>2

(* Whatever frame_pipeline_commit answers to a complete sweep, the         *)
(* invariant holds again.                                                  *)
LEMMA CommitPreserves ==
  ASSUME IInv, NEW s \in Source, NEW a \in SyncAddress \cup {NoSync}, NEW asm,
         NEW words \in Words, Owned(asm, words, s, a), Complete(asm),
         CommitCurrent(s, asm, words), source' = s, sync' = a,
         priority' \in Priority \cup {0}, refused' \in BOOLEAN, UNCHANGED <<now, draining>>
  PROVE  IInv'
<1>1. AllOld \in Words
  BY DEF AllOld, Words
<1>2. TimeType'
  BY DisplayTyped DEF CommitCurrent, LockTime, IInv
<1>3. s # NoSource
  BY SourceAssumption
<1>4. \/ /\ staging' \in Words /\ Owned(assembly', staging', s, a)
         /\ shown' = words
      \/ /\ staging' \in Words /\ Owned(assembly', staging', s, a)
         /\ shown' = shown
  BY <1>1, EmptyOwned DEF CommitCurrent
<1>5. words = [u \in Universe |-> [cid |-> s, sync |-> a]] /\ [cid |-> s, sync |-> a] \in Payload
  BY OwnedComplete DEF Payload
<1>6. WholeFrames'
  BY <1>4, <1>5 DEF IInv, WholeFrames, AllBlack
<1>7. SweepOwned'
  BY <1>3, <1>4 DEF SweepOwned, Owned, Complete
<1>8. TypeOK'
  BY <1>2, <1>4 DEF IInv, TypeOK, TimeType, Owned, Asm
<1>9. QED
  BY <1>6, <1>7, <1>8 DEF IInv

LEMMA BlackPreserves ==
  ASSUME IInv, NEW s, CommitBlack(s), UNCHANGED now, draining' \in BOOLEAN
  PROVE  IInv'
<1>1. AllOld \in Words /\ AllBlack \in Words
  BY DEF AllOld, AllBlack, Words
<1>2. TimeType'
  BY DisplayTyped DEF CommitBlack, LockTime, IInv
<1>3. Owned(assembly', staging', source', sync')
  BY EmptyOwned DEF CommitBlack
<1>4. WholeFrames'
  BY DEF IInv, WholeFrames, CommitBlack, AllBlack
<1>5. SweepOwned'
  BY <1>3 DEF CommitBlack, SweepOwned, Owned, Complete
<1>6. TypeOK'
  BY <1>1, <1>2, <1>3 DEF CommitBlack, IInv, TypeOK, TimeType, Owned, Asm
<1>7. QED
  BY <1>4, <1>5, <1>6 DEF IInv

LEMMA InitEstablishes == Init => IInv
<1> SUFFICES ASSUME Init PROVE IInv
  OBVIOUS
<1>1. Owned(assembly, staging, source, sync)
  BY EmptyOwned DEF Init
<1>2. staging \in Words /\ shown \in Words
  BY DEF Init, Words, AllOld, AllBlack
<1>3. TypeOK
  <2>1. 0 \in Clock /\ 0 \in 0 .. Timeout
    BY ClockAssumption DEF Clock
  <2>2. assembly \in Asm
    BY <1>1 DEF Owned
  <2>3. QED
    BY <1>2, <2>1, <2>2 DEF Init, TypeOK, Asm
<1>4. SweepOwned
  BY <1>1 DEF Init, SweepOwned, Owned
<1>5. WholeFrames
  BY DEF Init, WholeFrames
<1>6. QED
  BY <1>3, <1>4, <1>5 DEF IInv

LEMMA UniversePreserves ==
  ASSUME IInv, NEW s \in Source, NEW p \in Priority,
         NEW a \in SyncAddress \cup {NoSync}, NEW u \in Universe, UniverseData(s, p, a, u)
  PROVE  IInv'
<1> DEFINE asm == MarkUniverse(AssemblyKept(s, a), u)
<1> DEFINE words == [staging EXCEPT ![u] = [cid |-> s, sync |-> a]]
<1>1. /\ source' = s /\ sync' = a /\ priority' \in Priority \cup {0}
      /\ refused' \in BOOLEAN /\ UNCHANGED <<now, draining>>
  BY DEF UniverseData, LockSource
<1>2. Owned(AssemblyKept(s, a), staging, s, a) /\ staging \in Words
  BY KeptOwned DEF IInv, TypeOK
<1>3. /\ words \in Words
      /\ \A v \in asm.received : words[v] = [cid |-> s, sync |-> a]
  BY <1>2, MarkOwned
<1>4. /\ asm \in Asm /\ asm.count = Cardinality(asm.received)
      /\ asm.pending => Complete(asm) /\ a # NoSync
  <2>1. /\ asm \in Asm /\ asm.count = Cardinality(asm.received)
        /\ asm.pending = AssemblyKept(s, a).pending
        /\ AssemblyKept(s, a).received \subseteq asm.received
    BY <1>2, MarkCounts DEF Owned
  <2>2. ASSUME asm.pending PROVE Complete(asm) /\ a # NoSync
    <3>1. Complete(AssemblyKept(s, a)) /\ a # NoSync
      BY <1>2, <2>1, <2>2 DEF Owned
    <3>2. AssemblyKept(s, a).received = Universe
      BY <1>2, <3>1, CompleteIsAll DEF Owned, Complete, Asm
    <3>3. asm.received = Universe
      BY <2>1, <3>2 DEF Asm
    <3>4. QED
      BY <2>1, <3>1, <3>3 DEF Complete
  <2>3. QED
    BY <2>1, <2>2
<1>5. Owned(asm, words, s, a)
  BY <1>3, <1>4 DEF Owned
<1>6. CASE Complete(asm) /\ a = NoSync /\ CommitCurrent(s, asm, words)
  BY <1>1, <1>3, <1>5, <1>6, CommitPreserves
<1>7. CASE /\ Complete(asm) => a # NoSync
           /\ assembly' = [asm EXCEPT !.pending = @ \/ Complete(asm)]
           /\ staging' = words
           /\ UNCHANGED shown
           /\ LockTime(s)
  <2>1. TimeType'
    BY <1>7, DisplayTyped DEF LockTime, IInv
  <2>2. /\ assembly' \in Asm
        /\ assembly'.received = asm.received
        /\ assembly'.count = asm.count
        /\ assembly'.pending => asm.pending \/ Complete(asm)
    BY <1>4, <1>7 DEF Asm, Complete
  <2>3. SweepOwned'
    <3>1. s # NoSource
      BY SourceAssumption
    <3>2. assembly'.pending => Complete(assembly') /\ a # NoSync
      BY <1>4, <1>7, <2>2 DEF Complete
    <3>3. QED
      BY <1>1, <1>3, <1>4, <1>7, <2>2, <3>1, <3>2 DEF SweepOwned, Complete
  <2>4. TypeOK'
    BY <1>1, <1>3, <1>7, <2>1, <2>2 DEF IInv, TypeOK, TimeType, Asm
  <2>5. WholeFrames'
    BY <1>7 DEF IInv, WholeFrames, AllBlack
  <2>6. QED
    BY <2>3, <2>4, <2>5 DEF IInv
<1>8. QED
  BY <1>6, <1>7 DEF UniverseData, ShowsNow

LEMMA SyncPreserves ==
  ASSUME IInv, NEW s \in Source, NEW a \in SyncAddress, SyncPacket(s, a)
  PROVE  IInv'
<1>1. CASE MatchesSync(s, a) /\ assembly.pending
  <2>1. /\ Owned(assembly, staging, s, a) /\ Complete(assembly)
        /\ source = s /\ sync = a /\ staging \in Words
    BY <1>1 DEF MatchesSync, IInv, SweepOwned, TypeOK, Owned, Asm
  <2>2. /\ CommitCurrent(s, assembly, staging) /\ UNCHANGED <<source, priority, sync, refused>>
        /\ UNCHANGED <<now, draining>>
    BY <1>1 DEF SyncPacket, lockVars
  <2>3. QED
    BY <2>1, <2>2, CommitPreserves DEF IInv, TypeOK
<1>2. CASE ~(MatchesSync(s, a) /\ assembly.pending)
  BY <1>2 DEF SyncPacket, NotDisplayed, lockVars, frameVars, IInv, TypeOK, SweepOwned,
              WholeFrames, Complete
<1>3. QED
  BY <1>1, <1>2

LEMMA RejectPreserves ==
  ASSUME IInv, NEW s \in Source, NEW p \in Priority, SlotCountRejected(s, p)
  PROVE  IInv'
<1>1. Owned(assembly', staging, s, sync)
  BY KeptOwned DEF SlotCountRejected, IInv, TypeOK
<1>2. TimeType'
  BY DisplayTyped DEF SlotCountRejected, LockTime, IInv
<1>3. s # NoSource
  BY SourceAssumption
<1>4. SweepOwned'
  BY <1>1, <1>3 DEF SlotCountRejected, LockSource, SweepOwned, Owned, Complete
<1>5. TypeOK'
  BY <1>1, <1>2 DEF SlotCountRejected, LockSource, IInv, TypeOK, TimeType, Owned, Asm
<1>6. WholeFrames'
  BY DEF SlotCountRejected, IInv, WholeFrames, AllBlack
<1>7. QED
  BY <1>4, <1>5, <1>6 DEF IInv

LEMMA PollStartPreserves == IInv /\ PollStart => IInv'
<1> SUFFICES ASSUME IInv, PollStart PROVE IInv'
  OBVIOUS
<1>1. PICK gap \in 1 .. MaxGap : /\ now' = (now + gap) % ClockMod
                                /\ silence' = AtLeastTimeout(silence + gap)
  BY DEF PollStart
<1>2. now' \in Clock
  BY <1>1, ClockAssumption DEF IInv, TypeOK, Clock
<1>3. silence' \in 0 .. Timeout
  BY <1>1, ClockAssumption DEF IInv, TypeOK, AtLeastTimeout
<1>4. TypeOK'
  BY <1>2, <1>3 DEF PollStart, lockVars, frameVars, IInv, TypeOK
<1>5. SweepOwned' /\ WholeFrames'
  BY DEF PollStart, lockVars, frameVars, IInv, SweepOwned, WholeFrames, Complete
<1>6. QED
  BY <1>4, <1>5 DEF IInv

LEMMA PollEndPreserves == IInv /\ PollEnd => IInv'
<1> SUFFICES ASSUME IInv, PollEnd PROVE IInv'
  OBVIOUS
<1>1. CASE TimedOut
  BY <1>1, BlackPreserves DEF PollEnd
<1>2. CASE ~TimedOut
  BY <1>2 DEF PollEnd, NotDisplayed, lockVars, frameVars, IInv, TypeOK, SweepOwned,
              WholeFrames, Complete
<1>3. QED
  BY <1>1, <1>2

LEMMA NextPreserves == IInv /\ [Next]_vars => IInv'
<1> SUFFICES ASSUME IInv, [Next]_vars PROVE IInv'
  OBVIOUS
<1>1. CASE PollStart
  BY <1>1, PollStartPreserves
<1>2. CASE PollEnd
  BY <1>2, PollEndPreserves
<1>3. CASE UNCHANGED vars
  BY <1>3 DEF vars, lockVars, frameVars, timeVars, IInv, TypeOK, SweepOwned, WholeFrames, Complete
<1>4. CASE Receive
  <2>1. ASSUME NEW s \in Source, NEW p \in Priority, IgnoredSource(s, p) PROVE IInv'
    BY <2>1, <1>3 DEF IgnoredSource
  <2>2. ASSUME NEW s \in Source, NEW p \in Priority, StreamTerminated(s, p) PROVE IInv'
    BY <2>2, BlackPreserves DEF StreamTerminated, IInv, TypeOK
  <2>3. ASSUME NEW s \in Source, NEW p \in Priority, SlotCountRejected(s, p) PROVE IInv'
    BY <2>3, RejectPreserves
  <2>4. ASSUME NEW s \in Source, NEW p \in Priority, NEW a \in SyncAddress \cup {NoSync},
               NEW u \in Universe, UniverseData(s, p, a, u)
        PROVE  IInv'
    BY <2>4, UniversePreserves
  <2>5. ASSUME NEW s \in Source, NEW a \in SyncAddress, SyncPacket(s, a) PROVE IInv'
    BY <2>5, SyncPreserves
  <2>6. QED
    BY <1>4, <2>1, <2>2, <2>3, <2>4, <2>5 DEF Receive
<1>5. QED
  BY <1>1, <1>2, <1>3, <1>4 DEF Next

THEOREM Invariant == Spec => []IInv
BY InitEstablishes, NextPreserves, PTL DEF Spec

(* The static variables of e131_receiver.c keep their types; the count of  *)
(* received universes never passes the number of universes.                *)
THEOREM TypeCorrect == Spec => []TypeOK
BY Invariant, PTL DEF IInv

(* The sweep being collected belongs to the locked source and its mode.    *)
THEOREM SweepOwnedHolds == Spec => []SweepOwned
BY Invariant, PTL DEF IInv

(* No shown frame mixes sources, synchronization addresses or old words,   *)
(* however many universes and sources there are.                           *)
THEOREM WholeFramesHolds == Spec => []WholeFrames
BY Invariant, PTL DEF IInv

----
(* Synchronized display.                                                   *)

(* The only steps that show a frame commit a sweep that is complete.       *)
LEMMA ShowSteps ==
  ASSUME IInv, [Next]_vars, shown' # shown, NEW c \in Payload,
         shown' = [u \in Universe |-> c], c.sync \in SyncAddress
  PROVE  assembly.pending /\ staging = shown' /\ source = c.cid /\ sync = c.sync
<1>1. shown' # AllBlack
  BY UniverseAssumption, WordsAssumption DEF AllBlack
<1>2. ASSUME NEW s \in Source, NEW p \in Priority, NEW a \in SyncAddress \cup {NoSync},
             NEW u \in Universe, UniverseData(s, p, a, u)
      PROVE  FALSE
  <2> DEFINE asm == MarkUniverse(AssemblyKept(s, a), u)
  <2> DEFINE words == [staging EXCEPT ![u] = [cid |-> s, sync |-> a]]
  <2>1. a = NoSync /\ CommitCurrent(s, asm, words)
    BY <1>2 DEF UniverseData, ShowsNow
  <2>2. words[u] = [cid |-> s, sync |-> NoSync]
    BY <2>1 DEF IInv, TypeOK, Words
  <2>3. shown' = words
    BY <2>1 DEF CommitCurrent
  <2>4. c.sync = NoSync
    BY <2>2, <2>3
  <2>5. QED
    BY <2>4, SyncAssumption
<1>3. ASSUME NEW s \in Source, NEW a \in SyncAddress, SyncPacket(s, a)
      PROVE  assembly.pending /\ staging = shown' /\ source = c.cid /\ sync = c.sync
  <2>1. /\ MatchesSync(s, a) /\ assembly.pending
        /\ CommitCurrent(s, assembly, staging)
    BY <1>3 DEF SyncPacket, frameVars
  <2>2. shown' = staging
    BY <2>1 DEF CommitCurrent
  <2>3. /\ Owned(assembly, staging, s, a) /\ Complete(assembly)
        /\ source = s /\ sync = a
    BY <2>1 DEF MatchesSync, IInv, SweepOwned, TypeOK, Owned, Asm
  <2>4. staging = [u \in Universe |-> [cid |-> s, sync |-> a]]
    BY <2>3, OwnedComplete DEF IInv, TypeOK
  <2>5. c = [cid |-> s, sync |-> a]
    BY <2>2, <2>4, UniverseAssumption
  <2>6. QED
    BY <2>1, <2>2, <2>3, <2>5
<1>4. ASSUME NEW s, CommitBlack(s) PROVE FALSE
  BY <1>1, <1>4 DEF CommitBlack
<1>5. CASE Receive
  <2>1. ASSUME NEW s \in Source, NEW p \in Priority, IgnoredSource(s, p) PROVE FALSE
    BY <2>1 DEF IgnoredSource, vars, frameVars
  <2>2. ASSUME NEW s \in Source, NEW p \in Priority, StreamTerminated(s, p) PROVE FALSE
    BY <2>2, <1>4 DEF StreamTerminated
  <2>3. ASSUME NEW s \in Source, NEW p \in Priority, SlotCountRejected(s, p) PROVE FALSE
    BY <2>3 DEF SlotCountRejected
  <2>4. QED
    BY <1>2, <1>3, <1>5, <2>1, <2>2, <2>3 DEF Receive
<1>6. CASE PollStart
  BY <1>6 DEF PollStart, frameVars
<1>7. CASE PollEnd
  BY <1>4, <1>7 DEF PollEnd, frameVars
<1>8. CASE UNCHANGED vars
  BY <1>8 DEF vars, frameVars
<1>9. QED
  BY <1>5, <1>6, <1>7, <1>8 DEF Next

(* A frame sent for synchronized display is shown by a sync packet only,   *)
(* after it was complete and while its source and address are in force.    *)
THEOREM SyncedOnSyncHolds == Spec => SyncedOnSync
<1> DEFINE Step(s, a) == shown' # shown /\ shown' = [u \in Universe |-> [cid |-> s, sync |-> a]]
                            => assembly.pending /\ staging = shown' /\ source = s /\ sync = a
<1>1. ASSUME IInv, [Next]_vars, NEW s \in Source, NEW a \in SyncAddress
      PROVE  Step(s, a)
  <2>1. [cid |-> s, sync |-> a] \in Payload
    BY DEF Payload
  <2>2. QED
    BY <1>1, <2>1, ShowSteps
<1>2. IInv /\ [Next]_vars => [\A s \in Source, a \in SyncAddress : Step(s, a)]_vars
  BY <1>1
<1>3. QED
  BY <1>2, Invariant, PTL DEF Spec, SyncedOnSync

----
(* The 32-bit clock.                                                       *)

(* Division leaves nothing to choose once the result is in range.          *)
LEMMA ModOnce ==
  ASSUME NEW m \in Nat \ {0}, NEW x \in Int, NEW y \in 0 .. m - 1,
         x = y \/ x = y + m \/ x = y - m
  PROVE  x % m = y
OBVIOUS

LEMMA ElapsedZero ==
  ASSUME now \in Clock PROVE (now - now) % ClockMod = 0
BY ModOnce, ClockAssumption DEF Clock

(* While less than the clock's range has passed, the difference of two     *)
(* readings grows with the time, across a wrap too.                        *)
LEMMA ElapsedGrows ==
  ASSUME now \in Clock, NEW then \in Clock, NEW gap \in 1 .. MaxGap,
         Elapsed(then) < Timeout, now' = (now + gap) % ClockMod
  PROVE  (now' - then) % ClockMod = Elapsed(then) + gap
<1>1. ClockMod \in Nat \ {0} /\ gap < ClockMod /\ gap \in Nat
  BY ClockAssumption
<1>2. now' = IF now + gap < ClockMod THEN now + gap ELSE now + gap - ClockMod
  BY <1>1, ModOnce DEF Clock
<1>3. Elapsed(then) = IF then <= now THEN now - then ELSE now - then + ClockMod
  BY <1>1, ModOnce DEF Clock, Elapsed
<1>4. Elapsed(then) + gap \in 0 .. ClockMod - 1
  BY <1>1, <1>3, ClockAssumption DEF Clock
<1>5. now \in Int /\ then \in Int /\ now' \in Int /\ Elapsed(then) \in Int
  BY <1>1, <1>2, <1>3 DEF Clock
<1>6. \/ now' - then = Elapsed(then) + gap
      \/ now' - then = Elapsed(then) + gap - ClockMod
  BY <1>1, <1>2, <1>3, <1>4, <1>5 DEF Clock
<1> DEFINE difference == now' - then
<1> DEFINE age == Elapsed(then) + gap
<1>7. /\ difference \in Int /\ age \in 0 .. ClockMod - 1
      /\ difference = age \/ difference = age - ClockMod
  BY <1>1, <1>4, <1>5, <1>6
<1>8. difference % ClockMod = age
  <2> HIDE DEF difference, age
  <2> QED
    BY <1>1, <1>7, ModOnce
<1>9. QED
  BY <1>8

(* The clock's difference is the real silence, up to the next poll's end.  *)
TimeInv == source # NoSource =>
             /\ hasDisplay
             /\ Elapsed(lastDisplay) < Timeout + MaxGap
             /\ ~draining => Elapsed(lastDisplay) < Timeout
             /\ silence = AtLeastTimeout(Elapsed(lastDisplay))

(* How every step treats the display time.                                 *)
LEMMA ReceiveTimes ==
  ASSUME Receive
  PROVE  /\ UNCHANGED <<now, draining>>
         /\ \/ Displayed
            \/ NotDisplayed /\ source' \in {source, NoSource}
<1>1. ASSUME NEW s \in Source, NEW p \in Priority, IgnoredSource(s, p)
      PROVE  UNCHANGED <<now, draining>> /\ NotDisplayed /\ source' = source
  BY <1>1 DEF IgnoredSource, vars, lockVars, timeVars, NotDisplayed
<1>2. ASSUME NEW s \in Source, NEW p \in Priority, StreamTerminated(s, p)
      PROVE  /\ UNCHANGED <<now, draining>>
             /\ Displayed \/ (NotDisplayed /\ source' = NoSource)
  BY <1>2 DEF StreamTerminated, CommitBlack, LockTime
<1>3. ASSUME NEW s \in Source, NEW p \in Priority, SlotCountRejected(s, p)
      PROVE  /\ UNCHANGED <<now, draining>>
             /\ Displayed \/ (NotDisplayed /\ source' = source)
  BY <1>3 DEF SlotCountRejected, LockSource, LockTime
<1>4. ASSUME NEW s \in Source, NEW p \in Priority, NEW a \in SyncAddress \cup {NoSync},
             NEW u \in Universe, UniverseData(s, p, a, u)
      PROVE  /\ UNCHANGED <<now, draining>>
             /\ Displayed \/ (NotDisplayed /\ source' = source)
  BY <1>4 DEF UniverseData, CommitCurrent, LockSource, LockTime
<1>5. ASSUME NEW s \in Source, NEW a \in SyncAddress, SyncPacket(s, a)
      PROVE  /\ UNCHANGED <<now, draining>>
             /\ Displayed \/ (NotDisplayed /\ source' = source)
  BY <1>5 DEF SyncPacket, MatchesSync, CommitCurrent, LockTime, lockVars
<1>6. QED
  BY <1>1, <1>2, <1>3, <1>4, <1>5 DEF Receive

LEMMA TimePreserved == IInv /\ TimeInv /\ [Next]_vars => TimeInv'
<1> SUFFICES ASSUME IInv, TimeInv, [Next]_vars, source' # NoSource PROVE TimeInv'
  BY DEF TimeInv
<1>1. ASSUME Displayed, UNCHANGED now PROVE TimeInv'
  <2>1. Elapsed(lastDisplay)' = 0
    BY <1>1, ElapsedZero DEF Displayed, Elapsed, IInv, TypeOK
  <2>2. QED
    BY <1>1, <2>1, ClockAssumption DEF Displayed, TimeInv, AtLeastTimeout
<1>2. ASSUME NotDisplayed, source' = source, UNCHANGED <<now, draining>> PROVE TimeInv'
  BY <1>2 DEF NotDisplayed, TimeInv, Elapsed
<1>3. CASE Receive
  BY <1>1, <1>2, <1>3, ReceiveTimes
<1>4. CASE PollStart
  <2>1. PICK gap \in 1 .. MaxGap : /\ now' = (now + gap) % ClockMod
                                  /\ silence' = AtLeastTimeout(silence + gap)
    BY <1>4 DEF PollStart
  <2>2. /\ hasDisplay /\ Elapsed(lastDisplay) < Timeout
        /\ silence = AtLeastTimeout(Elapsed(lastDisplay))
        /\ UNCHANGED <<lastDisplay, hasDisplay>> /\ draining'
    BY <1>4 DEF PollStart, lockVars, TimeInv
  <2>3. Elapsed(lastDisplay)' = Elapsed(lastDisplay) + gap
    BY <2>1, <2>2, ElapsedGrows DEF IInv, TypeOK, Elapsed
  <2>4. Elapsed(lastDisplay) \in Nat /\ gap \in Nat /\ gap <= MaxGap
    BY ClockAssumption DEF IInv, TypeOK, Clock, Elapsed
  <2>5. QED
    BY <2>1, <2>2, <2>3, <2>4, ClockAssumption DEF TimeInv, AtLeastTimeout
<1>5. CASE PollEnd
  <2>1. ~TimedOut /\ NotDisplayed /\ UNCHANGED now /\ source' = source
    BY <1>5 DEF PollEnd, CommitBlack, lockVars
  <2>2. hasDisplay /\ source # NoSource
    BY <2>1 DEF TimeInv
  <2>3. Elapsed(lastDisplay) < Timeout
    BY <2>1, <2>2, ClockAssumption DEF TimedOut, Elapsed, IInv, TypeOK, Clock
  <2>4. QED
    BY <2>1, <2>2, <2>3 DEF TimeInv, NotDisplayed, Elapsed
<1>6. CASE UNCHANGED vars
  BY <1>2, <1>6 DEF vars, lockVars, timeVars, NotDisplayed
<1>7. QED
  BY <1>3, <1>4, <1>5, <1>6 DEF Next

LEMMA TimeInvHolds == Spec => []TimeInv
<1>1. Init => TimeInv
  BY DEF Init, TimeInv
<1>2. QED
  BY <1>1, Invariant, TimePreserved, PTL DEF Spec

(* Whoever releases the lock shows black or is refused.                    *)
FreeIsDark == source = NoSource => BlackedOut

LEMMA FreeIsDarkPreserved == FreeIsDark /\ [Next]_vars => FreeIsDark'
<1> SUFFICES ASSUME FreeIsDark, [Next]_vars, source' = NoSource PROVE BlackedOut'
  BY DEF FreeIsDark
<1>1. ASSUME UNCHANGED <<source, shown, refused>> PROVE BlackedOut'
  BY <1>1 DEF FreeIsDark, BlackedOut, AllBlack
<1>2. ASSUME NEW s, CommitBlack(s) PROVE BlackedOut'
  BY <1>2 DEF CommitBlack, BlackedOut, AllBlack
<1>3. ASSUME NEW s \in Source, source' = s PROVE FALSE
  BY <1>3, SourceAssumption
<1>4. CASE Receive
  <2>1. ASSUME NEW s \in Source, NEW p \in Priority, IgnoredSource(s, p) PROVE BlackedOut'
    BY <2>1, <1>1 DEF IgnoredSource, vars, lockVars, frameVars
  <2>2. ASSUME NEW s \in Source, NEW p \in Priority, StreamTerminated(s, p) PROVE BlackedOut'
    BY <2>2, <1>2 DEF StreamTerminated
  <2>3. ASSUME NEW s \in Source, NEW p \in Priority, SlotCountRejected(s, p) PROVE FALSE
    BY <2>3, <1>3 DEF SlotCountRejected, LockSource
  <2>4. ASSUME NEW s \in Source, NEW p \in Priority, NEW a \in SyncAddress \cup {NoSync},
               NEW u \in Universe, UniverseData(s, p, a, u)
        PROVE  FALSE
    BY <2>4, <1>3 DEF UniverseData, LockSource
  <2>5. ASSUME NEW s \in Source, NEW a \in SyncAddress, SyncPacket(s, a) PROVE BlackedOut'
    <3>1. UNCHANGED <<source, refused>>
      BY <2>5 DEF SyncPacket, lockVars
    <3>2. s # source
      BY <3>1, SourceAssumption
    <3>3. UNCHANGED shown
      BY <2>5, <3>2 DEF SyncPacket, MatchesSync, frameVars
    <3>4. QED
      BY <3>1, <3>3, <1>1
  <2>6. QED
    BY <1>4, <2>1, <2>2, <2>3, <2>4, <2>5 DEF Receive
<1>5. CASE PollStart
  BY <1>5, <1>1 DEF PollStart, lockVars, frameVars
<1>6. CASE PollEnd
  BY <1>6, <1>1, <1>2 DEF PollEnd, lockVars, frameVars
<1>7. CASE UNCHANGED vars
  BY <1>7, <1>1 DEF vars, lockVars, frameVars
<1>8. QED
  BY <1>4, <1>5, <1>6, <1>7 DEF Next

LEMMA FreeIsDarkHolds == Spec => []FreeIsDark
<1>1. Init => FreeIsDark
  BY DEF Init, FreeIsDark, BlackedOut
<1>2. QED
  BY <1>1, FreeIsDarkPreserved, PTL DEF Spec

(* Between polls a silence of the blackout timeout finds the lock free and *)
(* the strands black, unless the black frame was refused, for every        *)
(* timeout, poll gap and clock width with room for both.                   *)
THEOREM BlackoutInTimeHolds == Spec => []BlackoutInTime
<1>1. IInv /\ TimeInv /\ FreeIsDark => BlackoutInTime
  <2> SUFFICES ASSUME IInv, TimeInv, FreeIsDark, ~draining, silence >= Timeout PROVE BlackedOut
    BY DEF BlackoutInTime
  <2>1. CASE source = NoSource
    BY <2>1 DEF FreeIsDark
  <2>2. CASE source # NoSource
    <3>1. Elapsed(lastDisplay) < Timeout /\ silence = AtLeastTimeout(Elapsed(lastDisplay))
      BY <2>2 DEF TimeInv
    <3>2. Elapsed(lastDisplay) \in Nat
      BY ClockAssumption DEF IInv, TypeOK, Clock, Elapsed
    <3>3. QED
      BY <3>1, <3>2, ClockAssumption DEF AtLeastTimeout
  <2>3. QED
    BY <2>1, <2>2
<1>2. QED
  BY <1>1, Invariant, TimeInvHolds, FreeIsDarkHolds, PTL

(* No poll blacks out a source that is younger than the timeout.           *)
THEOREM NoEarlyBlackoutHolds == Spec => NoEarlyBlackout
<1>1. IInv /\ TimeInv /\ [Next]_vars => [PollEnd /\ source' # source => silence = Timeout]_vars
  <2> SUFFICES ASSUME IInv, TimeInv, PollEnd, source' # source PROVE silence = Timeout
    OBVIOUS
  <2>1. TimedOut
    BY DEF PollEnd, lockVars
  <2>2. silence = AtLeastTimeout(Elapsed(lastDisplay)) /\ Elapsed(lastDisplay) >= Timeout
    BY <2>1 DEF TimedOut, TimeInv
  <2>3. Elapsed(lastDisplay) \in Nat
    BY ClockAssumption DEF IInv, TypeOK, Clock, Elapsed
  <2>4. QED
    BY <2>2, <2>3, ClockAssumption DEF AtLeastTimeout
<1>2. QED
  BY <1>1, Invariant, TimeInvHolds, PTL DEF Spec, NoEarlyBlackout
====
