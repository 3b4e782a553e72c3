---- MODULE FrameHandoffProofs ----
(***************************************************************************)
(* Proofs about the handing over of frames, for any number and length of   *)
(* strands, any configurations and any width of the sequence numbers, as   *)
(* long as a snapshot takes longer than the scan of the configuration      *)
(* (TimingAssumption).  Handing is the strengthening: it relates the bank  *)
(* the consumer has captured but does not show yet to the time since the   *)
(* last commit.                                                            *)
(***************************************************************************)
EXTENDS FrameHandoff, FiniteSetTheorems, WellFoundedInduction, TLAPS

(* A set of output numbers has a greatest element.  Of the sets of elements*)
(* at least x, one is smallest under inclusion.                            *)
LEMMA GreatestOutput ==
  ASSUME NEW S \in SUBSET Output, S # {}
  PROVE  \E x \in S : \A y \in S : y <= x
<1> DEFINE Above(x) == {y \in S : x <= y}
           T == {Above(x) : x \in S}
<1>1. Output \subseteq Nat /\ IsFiniteSet(Output)
  BY SizeAssumption, FS_Interval DEF Output
<1>2. IsFiniteSet(S)
  BY <1>1, FS_Subset
<1>3. T \subseteq FiniteSubsetsOf(S)
  BY <1>2, FS_Subset DEF FiniteSubsetsOf
<1>4. T # {}
  OBVIOUS
<1>5. PICK U \in T : \A V \in T : ~ (<<V, U>> \in StrictSubsetOrdering(S))
  <2> HIDE DEF T
  <2>1. IsWellFoundedOn(StrictSubsetOrdering(S), FiniteSubsetsOf(S))
    BY FS_StrictSubsetOrderingWellFounded
  <2>2. QED
    BY <2>1, <1>3, <1>4, WFMin
<1>6. PICK x \in S : U = Above(x)
  BY <1>5
<1>7. ASSUME NEW y \in S PROVE y <= x
  <2>1. SUFFICES ASSUME ~ (y <= x) PROVE FALSE
    OBVIOUS
  <2>2. x \in Nat /\ y \in Nat /\ x < y /\ x <= x /\ ~ (y <= x)
    BY <2>1, <1>1
  <2>3. \A z \in S : y <= z => x <= z
    <3>1. \A z \in S : z \in Nat
      BY <1>1
    <3>2. QED
      BY <2>2, <3>1
  <2>4. Above(y) \subseteq Above(x) /\ x \in Above(x) /\ x \notin Above(y)
    BY <2>2, <2>3
  <2>5. <<Above(y), Above(x)>> \in StrictSubsetOrdering(S)
    BY <2>4 DEF StrictSubsetOrdering
  <2>6. QED
    BY <2>5, <1>5, <1>6
<1>8. QED
  BY <1>7

LEMMA ProductMonotone ==
  ASSUME NEW a \in Nat, NEW b \in Nat, NEW c \in Nat, a < b
  PROVE  a * c + c <= b * c
<1>1. b = a + 1 + (b - a - 1) /\ b - a - 1 \in Nat
  OBVIOUS
<1>2. b * c = a * c + c + (b - a - 1) * c
  BY <1>1
<1>3. (b - a - 1) * c \in Nat
  BY <1>1
<1>4. QED
  BY <1>2, <1>3

(* A frame needs no more words than a bank has.                            *)
LEMMA RequiredWordsType ==
  ASSUME NEW lengths \in Lengths
  PROVE  RequiredWords(lengths) \in 0 .. OutputCount * PixelsPerOutput
<1> DEFINE lit == {o \in Output : lengths[o] > 0}
           last == CHOOSE o \in lit : \A other \in lit : other <= o
<1>1. OutputCount * PixelsPerOutput \in Nat
  BY SizeAssumption
<1>2. CASE lit = {}
  BY <1>1, <1>2 DEF RequiredWords
<1>3. CASE lit # {}
  <2>1. last \in lit
    BY <1>3, GreatestOutput
  <2>2. last \in Output /\ lengths[last] \in 0 .. PixelsPerOutput
    BY <2>1 DEF Lengths
  <2>3. (last - 1) * PixelsPerOutput + PixelsPerOutput <= OutputCount * PixelsPerOutput
    BY <2>2, ProductMonotone, SizeAssumption DEF Output
  <2>4. (last - 1) * PixelsPerOutput \in Nat
    BY <2>2, SizeAssumption DEF Output
  <2>5. (last - 1) * PixelsPerOutput + lengths[last] \in 0 .. OutputCount * PixelsPerOutput
    <3> HIDE DEF last
    <3>1. lengths[last] \in Int /\ 0 <= lengths[last] /\ lengths[last] <= PixelsPerOutput
      BY <2>2, SizeAssumption
    <3>2. QED
      BY <3>1, <2>3, <2>4, <1>1, SizeAssumption
  <2>6. RequiredWords(lengths) = (last - 1) * PixelsPerOutput + lengths[last]
    BY <1>3 DEF RequiredWords
  <2>7. QED
    BY <2>5, <2>6
<1>4. QED
  BY <1>2, <1>3

LEMMA NextSeqType ==
  ASSUME NEW n \in Seq32
  PROVE  NextSeq(n) \in Seq32
BY SeqAssumption DEF Seq32, NextSeq

----
(* Type correctness.                                                       *)

USE DEF vars, control, consumer, processor

LEMMA TypeInit == Init => TypeOK
<1>1. 0 \in 0 .. OutputCount * PixelsPerOutput
  <2>1. OutputCount * PixelsPerOutput \in Nat
    BY SizeAssumption
  <2>2. QED
    BY <2>1
<1>2. 0 \in Seq32 /\ 0 \in 0 .. WaitTries /\ PsGap \in 0 .. PsGap /\ 1 \in Output
  BY SizeAssumption, SeqAssumption, WaitAssumption, TimingAssumption DEF Seq32, Output
<1>3. [b \in Bank |-> [w \in Word |-> 0]] \in [Bank -> [Word -> Seq32]]
  BY <1>2
<1>4. [seq |-> 0, bank |-> 0] \in [seq : Seq32, bank : Bank] /\ 0 \in Bank
  BY <1>2 DEF Bank
<1>5. QED
  BY <1>1, <1>2, <1>3, <1>4, ConfigAssumption DEF Init, TypeOK

LEMMA TypeStep == TypeOK /\ [Next]_vars => TypeOK'
<1> SUFFICES ASSUME TypeOK, [Next]_vars PROVE TypeOK'
  OBVIOUS
<1> USE DEF TypeOK
<1>1. CASE StartFrame
  BY <1>1 DEF StartFrame
<1>2. CASE ReadStatus
  BY <1>2, WaitAssumption DEF ReadStatus, Return, WriteBank, Bank
<1>3. CASE ReadWriteBank
  <2>1. ActiveWords(psConfig) \subseteq Word
    BY DEF ActiveWords
  <2>2. WriteBank \in Bank
    BY DEF WriteBank, Bank
  <2>3. 0 \in 0 .. PsGap
    BY TimingAssumption
  <2>4. tries > 0 => tries - 1 \in 0 .. WaitTries
    BY WaitAssumption
  <2>5. [before EXCEPT !.bank = WriteBank] \in [seq : Seq32, bank : Bank]
    BY <2>2
  <2>6. QED
    BY <1>3, <2>1, <2>3, <2>4, <2>5 DEF ReadWriteBank, Return
<1>4. CASE CommitFrame
  <2>1. RequiredWords(psConfig) \in 0 .. OutputCount * PixelsPerOutput
    BY RequiredWordsType
  <2>2. NextSeq(frameSeq) \in Seq32
    BY NextSeqType
  <2>3. 0 \in 0 .. PsGap
    BY TimingAssumption
  <2>4. QED
    BY <1>4, <2>1, <2>2, <2>3 DEF CommitFrame
<1>5. CASE Verify
  BY <1>5 DEF Verify, Return
<1>6. CASE ConfigureStrand
  <2>1. [hwConfig EXCEPT ![strand] = target[strand]] \in Lengths
    BY DEF Lengths
  <2>2. strand < OutputCount => strand + 1 \in Output
    BY SizeAssumption DEF Output
  <2>3. 1 \in Output
    BY SizeAssumption DEF Output
  <2>4. QED
    BY <1>6, <2>1, <2>2, <2>3 DEF ConfigureStrand
<1>7. CASE EnableConsumer
  BY <1>7, TimingAssumption DEF EnableConsumer
<1>8. ASSUME NEW w \in Word, WriteWord(w) PROVE TypeOK'
  <2>1. NextSeq(before.seq) \in Seq32
    BY NextSeqType
  <2>2. [memory EXCEPT ![before.bank][w] = NextSeq(before.seq)] \in [Bank -> [Word -> Seq32]]
    BY <2>1
  <2>3. QED
    BY <1>8, <2>2 DEF WriteWord
<1>9. ASSUME NEW lengths \in Configs, StartConfigure(lengths) PROVE TypeOK'
  BY <1>9, ConfigAssumption, SizeAssumption DEF StartConfigure, Output
<1>10. CASE Tick
  <2>1. (IF since < PsGap THEN since + 1 ELSE since) \in 0 .. PsGap
    BY TimingAssumption
  <2>2. scan # OutputCount => scan + 1 \in Output
    BY SizeAssumption DEF Output
  <2>3. 1 \in Output
    BY SizeAssumption DEF Output
  <2>4. CASE Capture
    BY <1>10, <2>1, <2>3, <2>4 DEF Tick, Capture
  <2>5. CASE ScanOutput
    BY <1>10, <2>1, <2>2, <2>5 DEF Tick, ScanOutput
  <2>6. CASE Validate
    BY <1>10, <2>1, <2>6 DEF Tick, Validate
  <2>7. CASE Recover
    BY <1>10, <2>1, <2>7 DEF Tick, Recover
  <2>8. CASE UNCHANGED <<status, consumer>>
    BY <1>10, <2>1, <2>8 DEF Tick
  <2>9. QED
    BY <1>10, <2>4, <2>5, <2>6, <2>7, <2>8 DEF Tick
<1>11. CASE SendDone
  BY <1>11 DEF SendDone
<1>12. CASE ReadFault
  BY <1>12 DEF ReadFault
<1>13. CASE UNCHANGED vars
  BY <1>13
<1>14. QED
  BY <1>1, <1>2, <1>3, <1>4, <1>5, <1>6, <1>7, <1>8, <1>9, <1>10, <1>11, <1>12, <1>13
  DEF Next, Processor, Consumer

(* The registers, counters and locals keep their types.                    *)
THEOREM TypeCorrect == Spec => []TypeOK
BY TypeInit, TypeStep, PTL DEF Spec

----
(* Handing over.                                                           *)

(* BUSY_BANK shows the captured bank from the end of TX_VALIDATE on.       *)
BusyShown == busyBank = IF tx \in {"send", "error"} THEN txBank ELSE NoBusyBank

(* At most one frame was committed since the capture, and only then is the *)
(* captured bank not the active one.                                       *)
Captured == tx # "idle" =>
                IF txBank = active THEN txSeq = frameSeq ELSE frameSeq = NextSeq(txSeq)

(* While the captured bank is not shown yet, that commit is not longer ago *)
(* than the scan has taken.                                                *)
ScanTime == /\ tx = "scan" /\ txBank # active => since < scan
            /\ tx = "validate" /\ txBank # active => since <= OutputCount

(* The bank being written is the one the consumer has not captured.        *)
Writing == /\ pc \in {"bank", "write"} => before.seq = frameSeq
           /\ pc = "write" => before.bank = WriteBank /\ (tx # "idle" => txBank = active)

Handing == BusyShown /\ Captured /\ ScanTime /\ Writing

LEMMA HandingInit == Init => Handing
BY DEF Init, Handing, BusyShown, Captured, ScanTime, Writing

(* A cycle of the clock: the capture takes the active bank, the scan ages  *)
(* as fast as the commit does, and TX_VALIDATE shows the bank.             *)
LEMMA HandingTick ==
  ASSUME TypeOK, Handing, Tick
  PROVE  Handing'
<1> USE DEF Handing, BusyShown, Captured, ScanTime, Writing
<1>1. /\ UNCHANGED <<active, frameSeq, pc, before>>
      /\ since' <= since + 1 /\ since \in Nat /\ since' \in Nat
      /\ WriteBank' = WriteBank
  BY TimingAssumption DEF Tick, TypeOK, WriteBank
<1>2. CASE Capture
  BY <1>1, <1>2 DEF Capture
<1>3. CASE ScanOutput
  <2>1. scan \in Nat /\ OutputCount \in Nat
    BY SizeAssumption DEF TypeOK, Output
  <2>2. UNCHANGED <<txSeq, txBank, busyBank>> /\ tx = "scan" /\ tx' \in {"scan", "validate"}
    BY <1>3 DEF ScanOutput
  <2>3. BusyShown' /\ Captured' /\ Writing'
    BY <1>1, <2>2
  <2>4. ScanTime'
    BY <1>1, <1>3, <2>1 DEF ScanOutput
  <2>5. QED
    BY <2>3, <2>4
<1>4. CASE Validate
  BY <1>1, <1>4 DEF Validate
<1>5. CASE Recover
  BY <1>1, <1>5 DEF Recover
<1>6. CASE (tx = "send" \/ (tx = "idle" /\ ~NewFrame)) /\ UNCHANGED <<status, consumer>>
  BY <1>1, <1>6
<1>7. QED
  BY <1>2, <1>3, <1>4, <1>5, <1>6 DEF Tick

(* The look at WRITE_BANK_VALID: a bank shown as free was not captured     *)
(* since the last commit either, because that commit is too long ago.      *)
LEMMA FreeBank ==
  ASSUME TypeOK, Handing, SnapshotTime, WriteBankValid, tx # "idle"
  PROVE  txBank = active
<1>1. CASE tx \in {"send", "error"}
  <2>1. busyBank = txBank
    BY <1>1 DEF Handing, BusyShown
  <2>2. QED
    BY <2>1 DEF WriteBankValid, WriteBank, TypeOK, Bank
<1>2. CASE tx \in {"scan", "validate"}
  <2>1. since \in Nat /\ scan \in Nat /\ scan <= OutputCount /\ OutputCount < PsGap
        /\ OutputCount \in Nat /\ PsGap \in Nat /\ since >= PsGap
    BY SizeAssumption, TimingAssumption DEF TypeOK, Output, SnapshotTime
  <2>2. ~ (since < scan) /\ ~ (since <= OutputCount)
    BY <2>1
  <2>3. QED
    BY <1>2, <2>2 DEF Handing, ScanTime
<1>3. QED
  BY <1>1, <1>2 DEF TypeOK

(* A commit by a processor that writes the free bank is accepted.          *)
LEMMA CommitAccepted ==
  ASSUME TypeOK, Handing, pc = "write"
  PROVE  before.bank = WriteBank /\ WriteBankValid
<1>1. before.bank = WriteBank /\ (tx # "idle" => txBank = active)
  BY DEF Handing, Writing
<1>2. CASE tx \in {"send", "error"}
  BY <1>1, <1>2 DEF Handing, BusyShown, WriteBankValid, WriteBank, TypeOK, Bank
<1>3. CASE tx \notin {"send", "error"}
  BY <1>1, <1>3 DEF Handing, BusyShown, WriteBankValid, WriteBank, NoBusyBank, TypeOK, Bank
<1>4. QED
  BY <1>1, <1>2, <1>3

LEMMA HandingCommit ==
  ASSUME TypeOK, Handing, CommitFrame
  PROVE  Handing'
<1>1. /\ frameSeq' = NextSeq(frameSeq) /\ active' = 1 - active
      /\ since' = 0 /\ pc' = "verify"
      /\ UNCHANGED consumer
  BY CommitAccepted DEF CommitFrame, WriteBank
<1>2. tx # "idle" => txBank = active /\ txSeq = frameSeq /\ txBank # active'
  BY <1>1 DEF Handing, Writing, Captured, CommitFrame, TypeOK, Bank
<1>3. scan \in Nat /\ scan > 0 /\ OutputCount \in Nat
  BY SizeAssumption DEF TypeOK, Output
<1>4. BusyShown'
  BY <1>1 DEF Handing, BusyShown
<1>5. Captured'
  BY <1>1, <1>2 DEF Captured
<1>6. ScanTime'
  BY <1>1, <1>3 DEF ScanTime
<1>7. Writing'
  BY <1>1 DEF Writing
<1>8. QED
  BY <1>4, <1>5, <1>6, <1>7 DEF Handing

LEMMA HandingStep == TypeOK /\ Handing /\ [Next]_vars => Handing'
<1> SUFFICES ASSUME TypeOK, Handing, [Next]_vars PROVE Handing'
  OBVIOUS
<1>0. ASSUME UNCHANGED <<active, frameSeq, since, tx, scan, txSeq, txBank, busyBank>>,
             pc' \notin {"bank", "write"} \/ (before' = before /\ pc' = pc)
      PROVE  Handing'
  BY <1>0 DEF Handing, BusyShown, Captured, ScanTime, Writing, WriteBank
<1>1. CASE StartFrame
  BY <1>0, <1>1 DEF StartFrame
<1>2. CASE ReadStatus
  BY <1>2 DEF ReadStatus, Return, Handing, BusyShown, Captured, ScanTime, Writing, TypeOK
<1>3. CASE ReadWriteBank
  <2>1. CASE WriteBankValid /\ pc' = "write"
    <3>1. /\ before' = [before EXCEPT !.bank = WriteBank] /\ since' = 0
          /\ pc = "bank" /\ SnapshotTime
          /\ UNCHANGED <<active, frameSeq, consumer>>
      BY <1>3, <2>1 DEF ReadWriteBank, Return
    <3>2. before'.bank = WriteBank' /\ before'.seq = frameSeq'
      BY <3>1 DEF TypeOK, Handing, Writing, WriteBank
    <3>3. tx # "idle" => txBank = active
      BY <2>1, <3>1, FreeBank
    <3>4. ScanTime'
      BY <3>1, SizeAssumption DEF ScanTime, TypeOK, Output
    <3>5. QED
      BY <3>1, <3>2, <3>3, <3>4 DEF Handing, BusyShown, Captured, Writing
  <2>2. CASE ~ (WriteBankValid /\ pc' = "write")
    BY <1>3, <2>2 DEF ReadWriteBank, Return, Handing, BusyShown, Captured, ScanTime, Writing,
                      WriteBank
  <2>3. QED
    BY <2>1, <2>2
<1>4. CASE CommitFrame
  BY <1>4, HandingCommit
<1>5. CASE Verify
  BY <1>0, <1>5 DEF Verify, Return
<1>6. CASE ConfigureStrand
  BY <1>0, <1>6 DEF ConfigureStrand
<1>7. CASE EnableConsumer
  BY <1>7 DEF EnableConsumer, Handing, BusyShown, Captured, ScanTime, Writing
<1>8. ASSUME NEW w \in Word, WriteWord(w) PROVE Handing'
  BY <1>0, <1>8 DEF WriteWord
<1>9. ASSUME NEW lengths \in Configs, StartConfigure(lengths) PROVE Handing'
  BY <1>0, <1>9 DEF StartConfigure
<1>10. CASE Tick
  BY <1>10, HandingTick
<1>11. CASE SendDone
  BY <1>11 DEF SendDone, Handing, BusyShown, Captured, ScanTime, Writing, WriteBank
<1>12. CASE ReadFault
  BY <1>12 DEF ReadFault, Handing, BusyShown, Captured, ScanTime, Writing, WriteBank
<1>13. CASE UNCHANGED vars
  BY <1>0, <1>13
<1>14. QED
  BY <1>1, <1>2, <1>3, <1>4, <1>5, <1>6, <1>7, <1>8, <1>9, <1>10, <1>11, <1>12, <1>13
  DEF Next, Processor, Consumer

THEOREM Invariant == Spec => [](TypeOK /\ Handing)
<1>1. Init => TypeOK /\ Handing
  BY TypeInit, HandingInit
<1>2. TypeOK /\ Handing /\ [Next]_vars => (TypeOK /\ Handing)'
  BY TypeStep, HandingStep
<1>3. QED
  BY <1>1, <1>2, PTL DEF Spec

(* The processor never writes a bank the consumer has captured, although   *)
(* nothing locks the banks and BUSY_BANK comes late.                       *)
THEOREM NoOverlapHolds == Spec => []NoOverlap
<1>1. TypeOK /\ Handing => NoOverlap
  BY DEF Handing, Writing, NoOverlap, Transmitting, WriteBank, TypeOK, Bank
<1>2. QED
  BY <1>1, Invariant, PTL

(* pl_frame_control never rejects a commit of this processor.              *)
THEOREM NeverRejectedHolds == Spec => []NeverRejected
<1>1. Init => NeverRejected
  BY DEF Init, NeverRejected
<1>2. TypeOK /\ Handing /\ NeverRejected /\ [Next]_vars => NeverRejected'
  <2> SUFFICES ASSUME TypeOK, Handing, NeverRejected, [Next]_vars PROVE NeverRejected'
    OBVIOUS
  <2>1. CASE CommitFrame
    BY <2>1, CommitAccepted DEF CommitFrame, NeverRejected
  <2>2. CASE Tick
    BY <2>2 DEF Tick, Capture, ScanOutput, Validate, Recover, NeverRejected
  <2>3. CASE Processor /\ ~CommitFrame
    BY <2>3 DEF Processor, StartFrame, ReadStatus, ReadWriteBank, Verify, ConfigureStrand,
                EnableConsumer, WriteWord, StartConfigure, NeverRejected
  <2>4. CASE SendDone \/ ReadFault
    BY <2>4 DEF SendDone, ReadFault, NeverRejected
  <2>5. CASE UNCHANGED vars
    BY <2>5 DEF NeverRejected
  <2>6. QED
    BY <2>1, <2>2, <2>3, <2>4, <2>5 DEF Next, Consumer
<1>3. QED
  BY <1>1, <1>2, Invariant, PTL DEF Spec

----
(* No frame is skipped while frame memory answers.                         *)

(* In TX_IDLE the consumer is at most one frame behind, and that one only  *)
(* until the next cycle: a processor about to commit finds it captured.    *)
Following ==
    /\ tx # "error"
    /\ ~enabled => conSeq = 0 /\ tx = "idle"
    /\ enabled /\ tx = "idle" => conSeq = 0 \/ frameSeq \in {conSeq, NextSeq(conSeq)}
    /\ enabled /\ tx = "idle" /\ pc = "write" /\ since > 0 => frameSeq = conSeq

LEMMA FollowingInit == Init => Following
BY DEF Init, Following

LEMMA FollowingStep ==
  ASSUME ~ReadFaults, TypeOK, Handing, Following, [Next]_vars
  PROVE  Following'
<1> USE DEF Following
<1>0. ASSUME UNCHANGED <<enabled, frameSeq, since, tx, conSeq>>,
             pc' # "write" \/ pc' = pc
      PROVE  Following'
  BY <1>0
<1>1. CASE StartFrame
  BY <1>0, <1>1 DEF StartFrame
<1>2. CASE ReadStatus
  BY <1>0, <1>2 DEF ReadStatus, Return
<1>3. CASE ReadWriteBank
  BY <1>3 DEF ReadWriteBank, Return
<1>4. CASE CommitFrame
  <2>1. /\ frameSeq' = NextSeq(frameSeq) /\ pc' = "verify"
        /\ UNCHANGED <<enabled, tx, conSeq>>
    BY <1>4, CommitAccepted DEF CommitFrame
  <2>2. enabled /\ tx = "idle" => frameSeq = conSeq
    BY <1>4, TimingAssumption, SizeAssumption DEF CommitFrame, SnapshotTime, TypeOK
  <2>3. QED
    BY <2>1, <2>2
<1>5. CASE Verify
  BY <1>0, <1>5 DEF Verify, Return
<1>6. CASE ConfigureStrand
  BY <1>0, <1>6 DEF ConfigureStrand
<1>7. CASE EnableConsumer
  BY <1>7 DEF EnableConsumer
<1>8. ASSUME NEW w \in Word, WriteWord(w) PROVE Following'
  BY <1>0, <1>8 DEF WriteWord
<1>9. ASSUME NEW lengths \in Configs, StartConfigure(lengths) PROVE Following'
  BY <1>0, <1>9 DEF StartConfigure
<1>10. CASE Tick
  <2>1. UNCHANGED <<enabled, frameSeq, pc>>
    BY <1>10 DEF Tick
  <2>2. CASE Capture
    BY <2>1, <2>2 DEF Capture, NewFrame
  <2>3. CASE ScanOutput
    BY <2>1, <2>3 DEF ScanOutput
  <2>4. CASE Validate
    BY <2>1, <2>4 DEF Validate, Handing, Captured, Writing
  <2>5. CASE Recover
    BY <2>5 DEF Recover
  <2>6. CASE (tx = "send" \/ (tx = "idle" /\ ~NewFrame)) /\ UNCHANGED <<status, consumer>>
    BY <2>1, <2>6 DEF NewFrame
  <2>7. QED
    BY <1>10, <2>2, <2>3, <2>4, <2>5, <2>6 DEF Tick
<1>11. CASE SendDone
  BY <1>11 DEF SendDone, Handing, Captured, Writing
<1>12. CASE ReadFault
  BY <1>12 DEF ReadFault
<1>13. CASE UNCHANGED vars
  BY <1>0, <1>13
<1>14. QED
  BY <1>1, <1>2, <1>3, <1>4, <1>5, <1>6, <1>7, <1>8, <1>9, <1>10, <1>11, <1>12, <1>13
  DEF Next, Processor, Consumer

(* Two banks are enough for every committed frame to be taken in order.    *)
THEOREM NoFrameSkippedHolds == ~ReadFaults => (Spec => NoFrameSkipped)
<1> SUFFICES ASSUME ~ReadFaults PROVE Spec => NoFrameSkipped
  OBVIOUS
<1>1. TypeOK /\ Handing /\ Following /\ [Next]_vars => Following'
  BY FollowingStep
<1>2. TypeOK /\ Following /\ [Next]_vars =>
          [tx = "idle" /\ tx' = "scan" /\ conSeq # 0 => txSeq' = NextSeq(conSeq)]_vars
  <2> SUFFICES ASSUME Following, Next, tx = "idle", tx' = "scan", conSeq # 0
               PROVE  txSeq' = NextSeq(conSeq)
    OBVIOUS
  <2>1. CASE Tick
    BY <2>1 DEF Tick, Capture, ScanOutput, Validate, Recover, NewFrame, Following
  <2>2. CASE SendDone \/ ReadFault
    BY <2>2 DEF SendDone, ReadFault
  <2>3. CASE Processor
    BY <2>3 DEF Processor, StartFrame, ReadStatus, ReadWriteBank, CommitFrame, Verify,
                ConfigureStrand, EnableConsumer, WriteWord, StartConfigure
  <2>4. QED
    BY <2>1, <2>2, <2>3 DEF Next, Consumer
<1>3. QED
  BY <1>1, <1>2, FollowingInit, Invariant, PTL DEF Spec, NoFrameSkipped

(* After an error bit is set, no call that starts later commits a frame.   *)
THEOREM ErrorStopsFramesHolds == Spec => ErrorStopsFrames
<1>1. ASSUME [Next]_vars
      PROVE  [ enabled /\ status # {} /\ pc \in {"idle", "status"} =>
                   /\ status' # {}
                   /\ pc' \in {"idle", "status", "configure"}
                   /\ UNCHANGED frameSeq ]_vars
  <2> SUFFICES ASSUME Next, enabled, status # {}, pc \in {"idle", "status"}
               PROVE  /\ status' # {}
                      /\ pc' \in {"idle", "status", "configure"}
                      /\ UNCHANGED frameSeq
    BY <1>1
  <2>1. CASE Consumer
    <3>1. UNCHANGED <<pc, frameSeq>>
      BY <2>1 DEF Consumer, Tick, SendDone, ReadFault
    <3>2. status' # {}
      BY <2>1 DEF Consumer, Tick, Capture, ScanOutput, Validate, Recover, SendDone, ReadFault
    <3>3. QED
      BY <3>1, <3>2
  <2>2. CASE Processor
    BY <2>2 DEF Processor, StartFrame, ReadStatus, Return, ReadWriteBank, CommitFrame, Verify,
                ConfigureStrand, EnableConsumer, WriteWord, StartConfigure
  <2>3. QED
    BY <2>1, <2>2 DEF Next
<1>2. QED
  BY <1>1, PTL DEF Spec, ErrorStopsFrames

----
(* Whole frames and successful commits, as long as nobody reconfigures.    *)

OneConfig == Configs = {Config0}
Lit == ActiveWords(Config0)

(* The lengths never change, so no configuration is ever under way.        *)
Configured == /\ psConfig = Config0 /\ txConfig = Config0
              /\ hwConfig = Config0 /\ target = Config0
              /\ pc # "configure"

(* The active bank holds the frame last committed, the captured bank the   *)
(* one captured, and the bank being written the words written so far.      *)
Contents == /\ \A w \in Lit : memory[active][w] = frameSeq
            /\ tx # "idle" => \A w \in Lit : memory[txBank][w] = txSeq
            /\ pc = "write" =>
                  \A w \in Lit \ toWrite : memory[before.bank][w] = NextSeq(before.seq)

LEMMA ConfiguredStep ==
  ASSUME OneConfig, TypeOK, Configured, [Next]_vars
  PROVE  Configured'
<1> USE DEF Configured
<1>1. CASE Processor
  <2>1. ASSUME NEW lengths \in Configs, StartConfigure(lengths) PROVE FALSE
    BY <2>1 DEF StartConfigure, OneConfig
  <2>2. QED
    BY <1>1, <2>1 DEF Processor, StartFrame, ReadStatus, Return, ReadWriteBank, CommitFrame,
                      Verify, ConfigureStrand, EnableConsumer, WriteWord
<1>2. CASE Consumer
  BY <1>2 DEF Consumer, Tick, Capture, ScanOutput, Validate, Recover, SendDone, ReadFault
<1>3. CASE UNCHANGED vars
  BY <1>3
<1>4. QED
  BY <1>1, <1>2, <1>3 DEF Next

LEMMA ContentsStep ==
  ASSUME OneConfig, TypeOK, Handing, Configured, Contents, [Next]_vars
  PROVE  Contents'
<1> USE DEF Contents
<1>0. ASSUME UNCHANGED <<active, frameSeq, memory, tx, txBank, txSeq>>,
             pc' # "write" \/ UNCHANGED <<pc, before, toWrite>>
      PROVE  Contents'
  BY <1>0 DEF Lit
<1>1. CASE StartFrame
  BY <1>0, <1>1 DEF StartFrame
<1>2. CASE ReadStatus
  BY <1>0, <1>2 DEF ReadStatus, Return
<1>3. CASE ReadWriteBank
  <2>1. CASE pc' = "write"
    <3>1. toWrite' = Lit /\ UNCHANGED <<active, frameSeq, memory, tx, txBank, txSeq>>
      BY <1>3, <2>1 DEF ReadWriteBank, Return, Configured, Lit
    <3>2. QED
      BY <3>1 DEF Lit
  <2>2. CASE pc' # "write"
    BY <1>0, <1>3, <2>2 DEF ReadWriteBank, Return
  <2>3. QED
    BY <2>1, <2>2
<1>4. CASE CommitFrame
  <2>1. /\ frameSeq' = NextSeq(frameSeq) /\ active' = before.bank /\ pc' = "verify"
        /\ UNCHANGED <<memory, tx, txBank, txSeq>>
        /\ before.seq = frameSeq /\ pc = "write" /\ toWrite = {}
    BY <1>4, CommitAccepted DEF CommitFrame, Handing, Writing
  <2>2. QED
    BY <2>1 DEF Lit
<1>5. CASE Verify
  BY <1>0, <1>5 DEF Verify, Return
<1>6. CASE ConfigureStrand
  BY <1>6 DEF ConfigureStrand, Configured
<1>7. CASE EnableConsumer
  BY <1>7 DEF EnableConsumer, Lit
<1>8. ASSUME NEW w \in Word, WriteWord(w) PROVE Contents'
  <2>1. before.bank \in Bank /\ before.bank # active /\ (tx # "idle" => before.bank # txBank)
    BY <1>8 DEF WriteWord, Handing, Writing, WriteBank, TypeOK, Bank
  <2>2. /\ memory'[active] = memory[active]
        /\ tx # "idle" => memory'[txBank] = memory[txBank]
    BY <1>8, <2>1 DEF WriteWord, TypeOK
  <2>3. \A v \in Lit \ toWrite' : memory'[before.bank][v] = NextSeq(before.seq)
    <3>1. Lit \subseteq Word
      BY DEF Lit, ActiveWords
    <3>2. QED
      BY <1>8, <2>1, <3>1 DEF WriteWord, TypeOK
  <2>4. UNCHANGED <<active, frameSeq, tx, txBank, txSeq, before, pc>>
    BY <1>8 DEF WriteWord
  <2>5. QED
    BY <2>2, <2>3, <2>4 DEF Lit
<1>9. ASSUME NEW lengths \in Configs, StartConfigure(lengths) PROVE Contents'
  BY <1>0, <1>9 DEF StartConfigure
<1>10. CASE Tick
  <2>1. UNCHANGED <<active, frameSeq, memory, pc, before, toWrite>>
    BY <1>10 DEF Tick
  <2>2. tx' # "idle" => \/ tx # "idle" /\ UNCHANGED <<txBank, txSeq>>
                        \/ txBank' = active /\ txSeq' = frameSeq
    BY <1>10 DEF Tick, Capture, ScanOutput, Validate, Recover
  <2>3. QED
    BY <2>1, <2>2 DEF Lit
<1>11. CASE SendDone
  BY <1>11 DEF SendDone, Lit
<1>12. CASE ReadFault
  BY <1>12 DEF ReadFault, Lit
<1>13. CASE UNCHANGED vars
  BY <1>0, <1>13
<1>14. QED
  BY <1>1, <1>2, <1>3, <1>4, <1>5, <1>6, <1>7, <1>8, <1>9, <1>10, <1>11, <1>12, <1>13
  DEF Next, Processor, Consumer

LEMMA WholeInv == OneConfig => (Spec => [](TypeOK /\ Handing /\ Configured /\ Contents))
<1> SUFFICES ASSUME OneConfig PROVE Spec => [](TypeOK /\ Handing /\ Configured /\ Contents)
  OBVIOUS
<1>1. Init => Configured /\ Contents
  BY DEF Init, Configured, Contents, Lit, ActiveWords, Bank
<1>2. TypeOK /\ Handing /\ Configured /\ Contents /\ [Next]_vars => (Configured /\ Contents)'
  BY ConfiguredStep, ContentsStep
<1>3. QED
  BY <1>1, <1>2, Invariant, PTL DEF Spec

(* Without reconfiguration, what is sent is one whole frame, whatever the  *)
(* number of strands and pixels.                                           *)
THEOREM WholeFramesHolds == OneConfig => (Spec => []WholeFrames)
<1> SUFFICES ASSUME OneConfig PROVE Spec => []WholeFrames
  OBVIOUS
<1>1. TypeOK /\ Handing /\ Configured /\ Contents => WholeFrames
  BY DEF Configured, Contents, Lit, WholeFrames, Transmitting
<1>2. QED
  BY <1>1, WholeInv, PTL

(* Between a good commit and its check nothing changes, and the committed  *)
(* words cover the configuration the consumer captures.                    *)
Good == /\ status = {} /\ result # "failed" /\ tx # "error"
        /\ ~enabled => tx = "idle"
        /\ enabled \/ frameSeq # 0 => committed = RequiredWords(Config0)
        /\ pc = "verify" => /\ frameSeq = NextSeq(before.seq)
                            /\ active = before.bank
                            /\ committed = RequiredWords(Config0)

LEMMA GoodStep ==
  ASSUME ~ReadFaults, TypeOK, Handing, Configured, Good, [Next]_vars
  PROVE  Good'
<1> USE DEF Good
<1>0. ASSUME UNCHANGED <<status, tx, enabled, frameSeq, committed, active>>,
             result' # "failed", pc' # "verify" \/ UNCHANGED <<pc, before>>
      PROVE  Good'
  BY <1>0
<1>1. CASE StartFrame
  BY <1>0, <1>1 DEF StartFrame
<1>2. CASE ReadStatus
  BY <1>0, <1>2 DEF ReadStatus, Return
<1>3. CASE ReadWriteBank
  BY <1>0, <1>3 DEF ReadWriteBank, Return
<1>4. CASE CommitFrame
  <2>1. before.seq = frameSeq
    BY <1>4 DEF CommitFrame, Handing, Writing
  <2>2. QED
    BY <1>4, <2>1, CommitAccepted DEF CommitFrame, Configured
<1>5. CASE Verify
  BY <1>0, <1>5 DEF Verify, Return, Configured
<1>6. CASE ConfigureStrand
  BY <1>6 DEF ConfigureStrand, Configured
<1>7. CASE EnableConsumer
  <2>1. frameSeq # 0
    BY <1>7, SeqAssumption DEF EnableConsumer
  <2>2. QED
    BY <1>7, <2>1 DEF EnableConsumer
<1>8. ASSUME NEW w \in Word, WriteWord(w) PROVE Good'
  BY <1>0, <1>8 DEF WriteWord
<1>9. ASSUME NEW lengths \in Configs, StartConfigure(lengths) PROVE Good'
  BY <1>0, <1>9 DEF StartConfigure
<1>10. CASE Tick
  <2>1. UNCHANGED <<enabled, frameSeq, committed, active, result, pc, before>>
    BY <1>10 DEF Tick
  <2>2. CASE Capture
    BY <2>1, <2>2 DEF Capture, NewFrame
  <2>3. CASE ScanOutput
    BY <2>1, <2>3 DEF ScanOutput
  <2>4. CASE Validate
    <3>1. committed = RequiredWords(txConfig)
      BY <2>4 DEF Validate, Configured
    <3>2. committed \in Int
      BY SizeAssumption, RequiredWordsType, <3>1 DEF TypeOK
    <3>3. tx' = "send" /\ UNCHANGED status
      BY <2>4, <3>1, <3>2 DEF Validate
    <3>4. QED
      BY <2>1, <2>4, <3>3 DEF Validate
  <2>5. CASE Recover
    BY <2>5 DEF Recover
  <2>6. CASE (tx = "send" \/ (tx = "idle" /\ ~NewFrame)) /\ UNCHANGED <<status, consumer>>
    BY <2>1, <2>6
  <2>7. QED
    BY <1>10, <2>2, <2>3, <2>4, <2>5, <2>6 DEF Tick
<1>11. CASE SendDone
  BY <1>11 DEF SendDone
<1>12. CASE ReadFault
  BY <1>12 DEF ReadFault
<1>13. CASE UNCHANGED vars
  BY <1>0, <1>13
<1>14. QED
  BY <1>1, <1>2, <1>3, <1>4, <1>5, <1>6, <1>7, <1>8, <1>9, <1>10, <1>11, <1>12, <1>13
  DEF Next, Processor, Consumer

(* Without reconfiguration and read errors, no frame commit fails.         *)
THEOREM NeverFailsHolds == OneConfig /\ ~ReadFaults => (Spec => []NeverFails)
<1> SUFFICES ASSUME OneConfig, ~ReadFaults PROVE Spec => []NeverFails
  OBVIOUS
<1>1. Init => Good
  BY DEF Init, Good
<1>2. TypeOK /\ Handing /\ Configured /\ Good /\ [Next]_vars => Good'
  BY GoodStep
<1>3. Good => NeverFails
  BY DEF Good, NeverFails
<1>4. QED
  BY <1>1, <1>2, <1>3, WholeInv, PTL DEF Spec
====
