---- MODULE FrameHandoff ----
(***************************************************************************)
(* The handing over of frames from the processor to the programmable       *)
(* logic: pl_ingest_write_frame_strands and frame_pipeline_configure on one*)
(* side, the control registers of pl_frame_control.sv between, and the     *)
(* transmit state machine of ws281x_frame_consumer.sv on the other.        *)
(*                                                                         *)
(* Two banks of frame memory are written and read without a lock.  The     *)
(* processor writes the bank that is not active, after WRITE_BANK_VALID    *)
(* said that the consumer is not reading it; a commit makes it the active  *)
(* one.  The consumer takes the active bank in TX_IDLE but shows it in     *)
(* BUSY_BANK only after the scan of its configuration, OutputCount cycles  *)
(* later: what covers the gap is time.  A snapshot of the control block is *)
(* over fifty register reads; one lies between a commit and the next look  *)
(* at WRITE_BANK_VALID, and between that look and the commit, and takes    *)
(* PsGap cycles or more.                                                   *)
(*                                                                         *)
(* A register write takes effect at once here, and the words' values are   *)
(* replaced by the sequence number of the frame they were written for.     *)
(***************************************************************************)
EXTENDS Integers, FiniteSets

CONSTANTS OutputCount,       \* OUTPUT_COUNT
          PixelsPerOutput,   \* PIXELS_PER_OUTPUT
          Configs,           \* strand lengths frame_pipeline_configure may be called with
          Config0,           \* the lengths after reset
          WaitTries,         \* PL_INGEST_BANK_WAIT_TRIES
          PsGap,             \* least cycles the reads of a snapshot take
          BootFrames,        \* frames main commits before it enables the consumer
          SeqMod,            \* sequence numbers have 32 bits
          ReadFaults         \* whether a read of frame memory may fail or come too late

Output == 1 .. OutputCount
Bank == {0, 1}
NoBusyBank == 2
Seq32 == 0 .. SeqMod - 1
Lengths == [Output -> 0 .. PixelsPerOutput]
Word == Output \X (1 .. PixelsPerOutput)

ASSUME SizeAssumption == OutputCount \in Nat \ {0} /\ PixelsPerOutput \in Nat \ {0}
ASSUME ConfigAssumption == Configs \subseteq Lengths /\ Config0 \in Configs
(* The read-back before a commit reads word 0, which only a lit first      *)
(* strand has written.                                                     *)
ASSUME FirstStrandAssumption ==
    \A lengths \in Configs : (\E o \in Output : lengths[o] > 0) => lengths[1] > 0
ASSUME SeqAssumption == SeqMod \in Nat /\ SeqMod > 3 /\ BootFrames \in 1 .. SeqMod - 1
ASSUME WaitAssumption == WaitTries \in Nat \ {0}
ASSUME TimingAssumption == PsGap \in Nat /\ PsGap > OutputCount
ASSUME FaultAssumption == ReadFaults \in BOOLEAN

VARIABLES active,      \* active_bank_reg
          frameSeq,    \* frame_sequence_reg
          committed,   \* committed_words_reg
          status,      \* the error bits of status_reg
          enabled,     \* CONSUMER_CONTROL.enable
          hwConfig,    \* the STRAND_PIXEL_COUNT registers
          memory,      \* frame memory: for which frame each word was written
          tx,          \* tx_state_reg; LOAD_FIRST, SEND and RESET are "send"
          scan,        \* config_scan_output_reg
          txSeq,       \* tx_sequence_reg
          txBank,      \* tx_active_bank_reg
          txConfig,    \* frame_strand_pixel_count_reg
          busyBank,    \* consumer_active_bank
          conSeq,      \* consumer_sequence
          pc,          \* where the processor's call stands
          before,      \* before.frame_sequence and before.write_bank
          tries,       \* looks at WRITE_BANK_VALID left
          toWrite,     \* words of the frame still to be written
          result,      \* what the last call of frame_pipeline_commit returned
          psConfig,    \* g_strand_pixel_count
          target,      \* lengths of a pending frame_pipeline_configure
          strand,      \* its next STRAND_PIXEL_COUNT register
          since        \* cycles since the last commit, look or enabling, up to PsGap

control == <<active, frameSeq, committed>>
consumer == <<tx, scan, txSeq, txBank, txConfig, busyBank, conSeq>>
processor == <<pc, before, tries, toWrite, result, psConfig, target, strand>>
vars == <<control, status, enabled, hwConfig, memory, consumer, processor, since>>

(* The words of the lit pixels, and how many words a frame must have for   *)
(* them: both sides compute the latter from the last strand with pixels.   *)
ActiveWords(lengths) == {w \in Word : w[2] <= lengths[w[1]]}

RequiredWords(lengths) ==
    LET lit == {o \in Output : lengths[o] > 0}
    IN  IF lit = {} THEN 0
        ELSE LET last == CHOOSE o \in lit : \A other \in lit : other <= o
             IN  (last - 1) * PixelsPerOutput + lengths[last]

NextSeq(n) == (n + 1) % SeqMod
WriteBank == 1 - active

(* Defective variant: a bank counts as free whatever the consumer reads.   *)
BadWriteBankValid == active \in Bank

WriteBankValid == busyBank # WriteBank

Init == /\ active = 0 /\ frameSeq = 0 /\ committed = 0 /\ status = {}
        /\ enabled = FALSE
        /\ hwConfig = Config0 /\ psConfig = Config0 /\ txConfig = Config0
        /\ target = Config0 /\ strand = 1
        /\ memory = [b \in Bank |-> [w \in Word |-> 0]]
        /\ tx = "idle" /\ scan = 1 /\ txSeq = 0 /\ txBank = 0
        /\ busyBank = NoBusyBank /\ conSeq = 0
        /\ pc = "idle" /\ before = [seq |-> 0, bank |-> 0]
        /\ tries = 0 /\ toWrite = {} /\ result = "none"
        /\ since = PsGap

----
(* The processor.                                                          *)

(* frame_pipeline_commit is called: by the boot code before the consumer is*)
(* enabled, then by the receiver, as often as it likes.                    *)
StartFrame == /\ pc = "idle"
              /\ enabled \/ frameSeq < BootFrames
              /\ pc' = "status"
              /\ UNCHANGED <<control, status, enabled, hwConfig, memory, consumer, before, tries,
                             toWrite, result, psConfig, target, strand, since>>

(* frame_pipeline_configure: a black frame goes first when a pixel is given*)
(* up.                                                                     *)
StartConfigure(lengths) ==
    /\ pc = "idle" /\ enabled
    /\ lengths # psConfig
    /\ target' = lengths
    /\ strand' = 1
    /\ pc' = IF \E o \in Output : lengths[o] < psConfig[o] THEN "status" ELSE "configure"
    /\ UNCHANGED <<control, status, enabled, hwConfig, memory, consumer, before, tries,
                   toWrite, result, psConfig, since>>

Return(value) == /\ result' = value
                 /\ target' = psConfig
                 /\ pc' = "idle"

(* Defective variant: errors are not looked at.                            *)
BadReadStatus ==
    /\ pc = "status"
    /\ pc' = "bank"
    /\ before' = [seq |-> frameSeq, bank |-> WriteBank]
    /\ tries' = WaitTries
    /\ UNCHANGED <<control, status, enabled, hwConfig, memory, consumer, toWrite, result, psConfig,
                   target, strand, since>>

(* The first snapshot's STATUS: no frame is written while an error is set. *)
ReadStatus ==
    /\ pc = "status"
    /\ IF status # {}
       THEN Return("failed") /\ UNCHANGED <<before, tries>>
       ELSE /\ pc' = "bank"
            /\ before' = [seq |-> frameSeq, bank |-> WriteBank]
            /\ tries' = WaitTries
            /\ UNCHANGED <<result, target>>
    /\ UNCHANGED <<control, status, enabled, hwConfig, memory, consumer, toWrite, psConfig,
                   strand, since>>

(* Defective variant: the snapshot is as fast as a single read.            *)
BadSnapshotTime == TRUE

(* A snapshot was taken since the last commit or look at WRITE_BANK_VALID. *)
SnapshotTime == since >= PsGap

(* WRITE_BANK and WRITE_BANK_VALID, then the wait loop, which looks again  *)
(* after a pause and does not look at STATUS.                              *)
ReadWriteBank ==
    /\ pc = "bank"
    /\ SnapshotTime
    /\ \/ /\ WriteBankValid
          /\ before' = [before EXCEPT !.bank = WriteBank]
          /\ toWrite' = ActiveWords(psConfig)
          /\ pc' = "write"
          /\ since' = 0
          /\ UNCHANGED <<tries, result, target>>
       \/ /\ ~WriteBankValid /\ tries > 0
          /\ tries' = tries - 1
          /\ UNCHANGED <<before, toWrite, pc, result, target, since>>
       \/ /\ ~WriteBankValid /\ tries = 0
          /\ Return("busy")
          /\ UNCHANGED <<before, toWrite, tries, since>>
    /\ UNCHANGED <<control, status, enabled, hwConfig, memory, consumer, psConfig, strand>>

(* One word of the frame goes into the bank that was free.                 *)
WriteWord(w) ==
    /\ pc = "write"
    /\ w \in toWrite
    /\ memory' = [memory EXCEPT ![before.bank][w] = NextSeq(before.seq)]
    /\ toWrite' = toWrite \ {w}
    /\ UNCHANGED <<control, status, enabled, hwConfig, consumer, pc, before, tries, result,
                   psConfig, target, strand, since>>

(* The write of FRAME_COMMIT and what pl_frame_control makes of it.        *)
CommitFrame ==
    /\ pc = "write" /\ toWrite = {}
    /\ SnapshotTime
    /\ IF before.bank = WriteBank /\ WriteBankValid
       THEN /\ frameSeq' = NextSeq(frameSeq)
            /\ active' = before.bank
            /\ committed' = RequiredWords(psConfig)
            /\ UNCHANGED status
       ELSE /\ status' = {"commit_rejected"}
            /\ UNCHANGED control
    /\ since' = 0
    /\ pc' = "verify"
    /\ UNCHANGED <<enabled, hwConfig, memory, consumer, before, tries, toWrite, result, psConfig,
                   target, strand>>

(* The second snapshot decides what is reported; a configuration that was  *)
(* waiting for its black frame goes on only after a good one.              *)
Verify ==
    /\ pc = "verify"
    /\ LET good == /\ frameSeq = NextSeq(before.seq)
                   /\ active = before.bank
                   /\ committed = RequiredWords(psConfig)
                   /\ status = {}
       IN  IF good /\ target # psConfig
           THEN pc' = "configure" /\ result' = "ok" /\ UNCHANGED target
           ELSE Return(IF good THEN "ok" ELSE "failed")
    /\ UNCHANGED <<control, status, enabled, hwConfig, memory, consumer, before, tries, toWrite,
                   psConfig, strand, since>>

(* pl_ingest_configure_strands writes one length register after the other, *)
(* whatever the consumer is doing; the local lengths follow at the end.    *)
ConfigureStrand ==
    /\ pc = "configure"
    /\ SnapshotTime
    /\ hwConfig' = [hwConfig EXCEPT ![strand] = target[strand]]
    /\ IF strand < OutputCount
       THEN strand' = strand + 1 /\ UNCHANGED <<pc, psConfig>>
       ELSE strand' = 1 /\ pc' = "idle" /\ psConfig' = target
    /\ UNCHANGED <<control, status, enabled, memory, consumer, before, tries, toWrite, result,
                   target, since>>

(* pl_ingest_enable_consumer, after the initial frame: reset the state     *)
(* machine, clear the errors, enable.                                      *)
EnableConsumer ==
    /\ pc = "idle" /\ ~enabled
    /\ frameSeq = BootFrames
    /\ enabled' = TRUE
    /\ status' = {}
    /\ tx' = "idle" /\ busyBank' = NoBusyBank
    /\ since' = 0
    /\ UNCHANGED <<control, hwConfig, memory, scan, txSeq, txBank, txConfig, conSeq, processor>>

----
(* The consumer, cycle by cycle until it shows its bank in BUSY_BANK.      *)

(* Defective variant: sequence numbers are compared by size.               *)
BadNewFrame == enabled /\ frameSeq > conSeq

NewFrame == enabled /\ frameSeq # conSeq

(* TX_IDLE: a new sequence number starts a frame.                          *)
Capture == /\ tx = "idle" /\ NewFrame
           /\ tx' = "scan"
           /\ scan' = 1
           /\ txSeq' = frameSeq
           /\ txBank' = active
           /\ txConfig' = hwConfig
           /\ UNCHANGED <<status, busyBank, conSeq>>

(* TX_COMPUTE_CONFIG: one output a cycle.                                  *)
ScanOutput == /\ tx = "scan"
              /\ IF scan = OutputCount
                 THEN tx' = "validate" /\ UNCHANGED scan
                 ELSE scan' = scan + 1 /\ UNCHANGED tx
              /\ UNCHANGED <<status, txSeq, txBank, txConfig, busyBank, conSeq>>

(* TX_VALIDATE: the committed word count, as it is by now, must cover the  *)
(* configuration that was captured.                                        *)
Validate == /\ tx = "validate"
            /\ IF committed >= RequiredWords(txConfig)
               THEN /\ tx' = "send"
                    /\ busyBank' = txBank
                    /\ UNCHANGED <<status, conSeq>>
               ELSE /\ tx' = "idle"
                    /\ conSeq' = txSeq
                    /\ status' = {"consumer_error"}
                    /\ UNCHANGED busyBank
            /\ UNCHANGED <<scan, txSeq, txBank, txConfig>>

(* TX_ERROR: the bank is given up and the frame is not marked consumed, so *)
(* TX_IDLE takes it again.                                                 *)
Recover == /\ tx = "error"
           /\ tx' = "idle"
           /\ busyBank' = NoBusyBank
           /\ UNCHANGED <<status, scan, txSeq, txBank, txConfig, conSeq>>

(* A clock cycle that does not end a transmission.                         *)
Tick == /\ \/ Capture \/ ScanOutput \/ Validate \/ Recover
           \/ /\ tx = "send" \/ (tx = "idle" /\ ~NewFrame)
              /\ UNCHANGED <<status, consumer>>
        /\ since' = IF since < PsGap THEN since + 1 ELSE since
        /\ UNCHANGED <<control, enabled, hwConfig, memory, processor>>

(* The end of TX_RESET: all words were read and sent, the bank is free.    *)
SendDone == /\ tx = "send"
            /\ tx' = "idle"
            /\ conSeq' = txSeq
            /\ busyBank' = NoBusyBank
            /\ UNCHANGED <<control, status, enabled, hwConfig, memory, scan, txSeq, txBank,
                           txConfig, processor, since>>

(* A read is answered with an error, or the next pixel is not there in     *)
(* time: TX_ERROR and the sticky status bit.                               *)
ReadFault == /\ ReadFaults
             /\ tx = "send"
             /\ tx' = "error"
             /\ status' = {"consumer_error"}
             /\ UNCHANGED <<control, enabled, hwConfig, memory, scan, txSeq, txBank, txConfig,
                            busyBank, conSeq, processor, since>>

Processor == \/ StartFrame \/ ReadStatus \/ ReadWriteBank \/ CommitFrame \/ Verify
             \/ ConfigureStrand \/ EnableConsumer
             \/ \E w \in Word : WriteWord(w)
             \/ \E lengths \in Configs : StartConfigure(lengths)

Consumer == Tick \/ SendDone \/ ReadFault

Next == Processor \/ Consumer

(* The clock never stops and a transmission has a fixed length.  Nothing is*)
(* asked of the processor: it may never start another frame.               *)
Fairness == WF_vars(Tick) /\ WF_vars(SendDone)

Spec == Init /\ [][Next]_vars /\ Fairness

----
(* The type invariant of registers and of the processor's locals.          *)
TypeOK == /\ active \in Bank /\ frameSeq \in Seq32
          /\ committed \in 0 .. OutputCount * PixelsPerOutput
          /\ status \subseteq {"commit_rejected", "consumer_error"}
          /\ enabled \in BOOLEAN
          /\ hwConfig \in Lengths /\ psConfig \in Lengths
          /\ txConfig \in Lengths /\ target \in Lengths
          /\ memory \in [Bank -> [Word -> Seq32]]
          /\ tx \in {"idle", "scan", "validate", "send", "error"}
          /\ scan \in Output /\ strand \in Output
          /\ txSeq \in Seq32 /\ txBank \in Bank
          /\ busyBank \in Bank \cup {NoBusyBank}
          /\ conSeq \in Seq32
          /\ pc \in {"idle", "status", "bank", "write", "verify", "configure"}
          /\ before \in [seq : Seq32, bank : Bank]
          /\ tries \in 0 .. WaitTries
          /\ toWrite \subseteq Word
          /\ result \in {"none", "ok", "busy", "failed"}
          /\ since \in 0 .. PsGap

(* The consumer works on a captured frame.                                 *)
Transmitting == tx \in {"scan", "validate", "send"}

(* The processor never writes a bank the consumer has taken, although the  *)
(* consumer takes it before it says so.                                    *)
NoOverlap == pc = "write" /\ Transmitting => txBank # before.bank

(* Every word the consumer will send was written for the very frame it has *)
(* captured: frames are neither torn nor partly old.                       *)
WholeFrames == Transmitting => \A w \in ActiveWords(txConfig) : memory[txBank][w] = txSeq

(* The bank found free is still free at the commit: pl_frame_control never *)
(* rejects a commit of this processor.                                     *)
NeverRejected == "commit_rejected" \notin status

(* While frame memory answers and the configuration stays, frame commits   *)
(* succeed or find no free bank.                                           *)
NeverFails == result # "failed"

(* Once frames are consumed, each committed one is taken, in order: the    *)
(* two banks never let a newer commit replace one not taken yet.           *)
NoFrameSkipped == [][tx = "idle" /\ tx' = "scan" /\ conSeq # 0 => txSeq' = NextSeq(conSeq)]_vars

(* An error bit is sticky, and no call that starts after it commits a      *)
(* frame: the strands keep what they show until the next boot.             *)
ErrorStopsFrames == [][ enabled /\ status # {} /\ pc \in {"idle", "status"} =>
                           /\ status' # {}
                           /\ pc' \in {"idle", "status", "configure"}
                           /\ UNCHANGED frameSeq ]_vars

(* A committed frame is sent, and the consumer says so.                    *)
FrameEventuallySent == \A n \in Seq32 : enabled /\ frameSeq = n ~> conSeq = n
====
