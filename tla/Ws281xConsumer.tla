---- MODULE Ws281xConsumer ----
(***************************************************************************)
(* hw/rtl/ws281x_frame_consumer.sv, clock cycle by clock cycle: the        *)
(* transmit machine (tx) with the read machine (rd) that fetches a pixel of*)
(* every strand, one word after the other, while the pixel before it is    *)
(* sent.  The read port of axil_frame_ram.v answers each address in the    *)
(* next cycle.  Where both machines assign in one cycle the action below   *)
(* has both assignments, the later one of the source winning.              *)
(*                                                                         *)
(* The two bit counters are one counter of the cycles of a pixel; a        *)
(* register and its bit in the active mask are one value, Quiet when the   *)
(* bit is clear; outputs from the active count on have length 0.  Which    *)
(* frame is captured and how many words were committed are inputs here and *)
(* the subject of FrameHandoff, which also has the reset pulse.            *)
(***************************************************************************)
EXTENDS Integers

CONSTANTS OutputCount,       \* OUTPUT_COUNT
          PixelsPerOutput,   \* PIXELS_PER_OUTPUT
          Configs,           \* strand lengths the registers may hold
          PixelCycles,       \* 24 * WS_BIT_CYCLES
          ResetCycles,       \* WS_RESET_CYCLES
          ReadErrors,        \* whether m_frame_rresp may report an error
          Quiet,             \* no pixel on a strand
          Failure            \* m_frame_rresp # 0

Output == 0 .. OutputCount - 1
BankWords == OutputCount * PixelsPerOutput
Address(b, o, p) == b * BankWords + o * PixelsPerOutput + p

ASSUME SizeAssumption == OutputCount \in Nat \ {0} /\ PixelsPerOutput \in Nat \ {0}
ASSUME ConfigAssumption == Configs \subseteq [Output -> 0 .. PixelsPerOutput]
ASSUME CycleAssumption == PixelCycles \in Nat \ {0} /\ ResetCycles \in Nat \ {0}
ASSUME ValueAssumption == ReadErrors \in BOOLEAN /\ Quiet \notin Int /\ Failure \notin Int

VARIABLES tx,            \* tx_state_reg
          bank,          \* frame_bank_base_words_reg
          lengths,       \* frame_strand_pixel_count_reg
          configScan,    \* config_scan_output_reg
          maxPixels,     \* frame_max_pixels_reg
          required,      \* frame_required_words_reg
          pixel,         \* pixel_index_reg
          cycle,         \* bit_index_reg and bit_cycle_reg
          resetCycle,    \* reset_cycle_reg
          current,       \* current_pixel_reg and current_active_mask_reg
          rd,            \* rd_state_reg
          readActive,    \* read_active_reg: the read fills current, not next
          readPixel,     \* read_pixel_index_reg
          scan,          \* scan_output_reg
          scanBase,      \* scan_base_word_reg
          readOutput,    \* read_output_reg
          readBase,      \* selected_output_base_word_reg
          next,          \* next_pixel_reg and next_active_mask_reg
          nextValid,     \* next_pixel_valid_reg
          address,       \* m_frame_araddr, in words
          arvalid,       \* m_frame_arvalid
          answering,     \* m_frame_arready and m_frame_rvalid
          answer         \* m_frame_rdata or an error

frameVars == <<bank, lengths, configScan, maxPixels, required>>
sendVars == <<pixel, cycle, resetCycle>>
readVars == <<rd, readActive, readPixel, scan, scanBase, readOutput, readBase, next, nextValid,
              address, arvalid>>
ramVars == <<answering, answer>>
vars == <<tx, frameVars, sendVars, current, readVars, ramVars>>

AllQuiet == [o \in Output |-> Quiet]

Init == /\ tx = "idle" /\ bank = 0 /\ lengths = [o \in Output |-> 0]
        /\ configScan = 0 /\ maxPixels = 0 /\ required = 0
        /\ pixel = 0 /\ cycle = 0 /\ resetCycle = 0
        /\ current = AllQuiet /\ next = AllQuiet
        /\ rd = "idle" /\ readActive = FALSE /\ readPixel = 0
        /\ scan = 0 /\ scanBase = 0 /\ readOutput = 0 /\ readBase = 0
        /\ nextValid = FALSE
        /\ address = 0 /\ arvalid = FALSE /\ answering = FALSE /\ answer = 0

----
(* The read port of the frame memory: an address is accepted and answered  *)
(* in the next cycle.                                                      *)
ReadPort == /\ answering' = (arvalid /\ ~answering)
            /\ answer' \in IF arvalid /\ ~answering
                           THEN {address} \cup (IF ReadErrors THEN {Failure} ELSE {})
                           ELSE {answer}

----
(* The read machine, one cycle in each of its states.                      *)

(* Defective variant: a strand is read one pixel too far.                  *)
BadWanted == readPixel <= lengths[scan]

(* The strand at the scan has the pixel.                                   *)
Wanted == readPixel < lengths[scan]

(* Defective variant: the end of the scan is not reported.                 *)
BadScanEnd == /\ rd = "scan" /\ scan = OutputCount
              /\ rd' = "idle"
              /\ readActive' = FALSE
              /\ UNCHANGED <<readPixel, scan, scanBase, readOutput, readBase, next, nextValid,
                             address, arvalid, current>>

ScanEnd == /\ rd = "scan" /\ scan = OutputCount
           /\ rd' = "idle"
           /\ readActive' = FALSE
           /\ nextValid' = (nextValid \/ ~readActive)
           /\ UNCHANGED <<readPixel, scan, scanBase, readOutput, readBase, next, address, arvalid,
                          current>>

ScanStep == /\ rd = "scan" /\ scan < OutputCount
            /\ scan' = scan + 1
            /\ scanBase' = scanBase + PixelsPerOutput
            /\ IF Wanted
               THEN readOutput' = scan /\ readBase' = scanBase /\ rd' = "prepare"
               ELSE UNCHANGED <<readOutput, readBase, rd>>
            /\ UNCHANGED <<readActive, readPixel, next, nextValid, address, arvalid, current>>

PrepareAddress == /\ rd = "prepare"
                  /\ address' = bank * BankWords + readBase + readPixel
                  /\ arvalid' = TRUE
                  /\ rd' = "address"
                  /\ UNCHANGED <<readActive, readPixel, scan, scanBase, readOutput, readBase, next,
                                 nextValid, current>>

(* Address and data are taken in the same cycle.                           *)
ReceiveWord == /\ rd = "address" /\ answering /\ answer # Failure
               /\ arvalid' = FALSE
               /\ rd' = "scan"
               /\ IF readActive
                  THEN current' = [current EXCEPT ![readOutput] = answer] /\ UNCHANGED next
                  ELSE next' = [next EXCEPT ![readOutput] = answer] /\ UNCHANGED current
               /\ UNCHANGED <<readActive, readPixel, scan, scanBase, readOutput, readBase,
                              nextValid, address>>

ReadWaits == /\ rd = "idle" \/ (rd = "address" /\ ~answering)
             /\ UNCHANGED <<readVars, current>>

Read == ScanEnd \/ ScanStep \/ PrepareAddress \/ ReceiveWord \/ ReadWaits

(* Defective variant: the base of the scan is not reset.                   *)
BadStartScan(p) == /\ rd' = "scan"
                   /\ readPixel' = p
                   /\ scan' = 0 /\ UNCHANGED scanBase

(* The transmit machine sets the read machine going.                       *)
StartScan(p) == /\ rd' = "scan"
                /\ readPixel' = p
                /\ scan' = 0 /\ scanBase' = 0

Prefetch(p) == /\ StartScan(p)
               /\ nextValid' = FALSE
               /\ next' = AllQuiet
               /\ UNCHANGED <<readActive, readOutput, readBase, address, arvalid>>

----
(* The transmit machine, one cycle in each of its states.                  *)

(* TX_IDLE: a new frame is captured with the configuration of the moment.  *)
Capture == /\ tx = "idle" /\ tx' = "config"
           /\ bank' \in {0, 1} /\ lengths' \in Configs
           /\ configScan' = 0 /\ maxPixels' = 0 /\ required' = 0
           /\ pixel' = 0
           /\ current' = AllQuiet /\ next' = AllQuiet
           /\ rd' = "idle" /\ readActive' = FALSE /\ readPixel' = 0
           /\ scan' = 0 /\ scanBase' = 0 /\ readOutput' = 0 /\ readBase' = 0
           /\ nextValid' = FALSE /\ arvalid' = FALSE
           /\ UNCHANGED <<cycle, resetCycle, address>>

Idle == tx = "idle" /\ UNCHANGED <<tx, frameVars, sendVars, current, readVars>>

ScanLength == /\ maxPixels' = IF lengths[configScan] > maxPixels
                              THEN lengths[configScan] ELSE maxPixels
              /\ required' = IF lengths[configScan] # 0
                             THEN configScan * PixelsPerOutput + lengths[configScan]
                             ELSE required

(* TX_COMPUTE_CONFIG, one output a cycle.                                  *)
ConfigScan == /\ tx = "config"
              /\ ScanLength
              /\ IF configScan = OutputCount - 1
                 THEN tx' = "validate" /\ UNCHANGED configScan
                 ELSE configScan' = configScan + 1 /\ UNCHANGED tx
              /\ UNCHANGED <<bank, lengths, sendVars, current, readVars>>

(* TX_VALIDATE: any number of words of a bank may have been committed.     *)
Validate == /\ tx = "validate"
            /\ \E committed \in 0 .. BankWords :
                  \/ /\ committed < required
                     /\ tx' = "idle"
                     /\ UNCHANGED <<resetCycle, readActive, rd, arvalid>>
                  \/ /\ committed >= required /\ maxPixels = 0
                     /\ tx' = "reset" /\ resetCycle' = 0
                     /\ rd' = "idle" /\ arvalid' = FALSE /\ readActive' = FALSE
                  \/ /\ committed >= required /\ maxPixels # 0
                     /\ tx' = "load" /\ readActive' = TRUE
                     /\ UNCHANGED <<resetCycle, rd, arvalid>>
            /\ UNCHANGED <<frameVars, pixel, cycle, current, readPixel, scan, scanBase, readOutput,
                           readBase, next, nextValid, address>>

(* TX_LOAD_FIRST: start the read of the first pixel, wait for its end, then*)
(* send it and read the second.                                            *)
LoadFirst ==
    /\ tx = "load"
    /\ \/ /\ rd = "idle" /\ readActive /\ ~arvalid
          /\ StartScan(0)
          /\ current' = AllQuiet
          /\ UNCHANGED <<tx, sendVars, readActive, readOutput, readBase, next, nextValid, address,
                         arvalid>>
       \/ /\ rd # "idle" /\ Read
          /\ UNCHANGED <<tx, sendVars>>
       \/ /\ rd = "idle" /\ ~readActive
          /\ tx' = "send"
          /\ pixel' = 0 /\ cycle' = 0
          /\ IF maxPixels > 1 THEN Prefetch(1) ELSE UNCHANGED readVars
          /\ UNCHANGED <<resetCycle, current>>
    /\ UNCHANGED frameVars

(* TX_SEND within a pixel.                                                 *)
SendCycle == /\ tx = "send" /\ cycle < PixelCycles - 1
             /\ cycle' = cycle + 1
             /\ Read
             /\ UNCHANGED <<tx, frameVars, pixel, resetCycle>>

(* TX_SEND at the end of the last pixel, of another one whose successor is *)
(* there, and of one whose successor is late.                              *)
LastPixel == /\ tx = "send" /\ cycle = PixelCycles - 1
             /\ pixel = maxPixels - 1
             /\ tx' = "reset"
             /\ cycle' = 0 /\ resetCycle' = 0
             /\ Read
             /\ UNCHANGED <<frameVars, pixel>>

NextPixel == /\ tx = "send" /\ cycle = PixelCycles - 1
             /\ pixel # maxPixels - 1 /\ nextValid
             /\ cycle' = 0
             /\ current' = next
             /\ pixel' = pixel + 1
             /\ IF pixel + 2 < maxPixels
                THEN Prefetch(pixel + 2)
                ELSE /\ nextValid' = FALSE
                     /\ UNCHANGED <<rd, readActive, readPixel, scan, scanBase, readOutput,
                                    readBase, next, address, arvalid>>
             /\ UNCHANGED <<tx, frameVars, resetCycle>>

(* Defective variant: only the read machine gives the frame up.            *)
BadNextPixelLate == /\ tx = "send" /\ cycle = PixelCycles - 1
                    /\ pixel # maxPixels - 1 /\ ~nextValid
                    /\ rd' = "idle" /\ arvalid' = FALSE
                    /\ cycle' = 0
                    /\ UNCHANGED <<tx, frameVars, pixel, resetCycle, current, readActive, readPixel,
                                   scan, scanBase, readOutput, readBase, next, nextValid, address>>

NextPixelLate == /\ tx = "send" /\ cycle = PixelCycles - 1
                 /\ pixel # maxPixels - 1 /\ ~nextValid
                 /\ tx' = "error"
                 /\ cycle' = 0
                 /\ Read
                 /\ UNCHANGED <<frameVars, pixel, resetCycle>>

(* A read is answered with an error.                                       *)
ReadFails == /\ tx \in {"load", "send"}
             /\ rd = "address" /\ answering /\ answer = Failure
             /\ tx' = "error"
             /\ rd' = "idle" /\ arvalid' = FALSE
             /\ UNCHANGED <<frameVars, sendVars, current, readActive, readPixel, scan, scanBase,
                            readOutput, readBase, next, nextValid, address>>

(* TX_RESET: the latch gap.                                                *)
LatchGap == /\ tx = "reset"
            /\ IF resetCycle = ResetCycles - 1
               THEN tx' = "idle" /\ UNCHANGED resetCycle
               ELSE resetCycle' = resetCycle + 1 /\ UNCHANGED tx
            /\ Read
            /\ UNCHANGED <<frameVars, pixel, cycle>>

(* TX_ERROR stops the read machine; what else its last cycle may change,   *)
(* Capture sets anew.                                                      *)
Recover == /\ tx = "error" /\ tx' = "idle"
           /\ rd' = "idle" /\ arvalid' = FALSE
           /\ UNCHANGED <<frameVars, sendVars, current, readActive, readPixel, scan, scanBase,
                          readOutput, readBase, next, nextValid, address>>

Busy == /\ \/ ConfigScan \/ Validate \/ LoadFirst \/ SendCycle \/ LastPixel \/ NextPixel
           \/ NextPixelLate \/ ReadFails \/ LatchGap \/ Recover
        /\ ReadPort

Next == Busy \/ ((Capture \/ Idle) /\ ReadPort)

(* The clock does not stop; frames need not come.                          *)
Spec == Init /\ [][Next]_vars /\ WF_vars(Busy)

----
(* The type invariant of the registers.                                    *)
TypeOK == /\ tx \in {"idle", "config", "validate", "load", "send", "reset", "error"}
          /\ rd \in {"idle", "scan", "prepare", "address"}
          /\ bank \in {0, 1} /\ lengths \in [Output -> 0 .. PixelsPerOutput]
          /\ configScan \in Output
          /\ maxPixels \in 0 .. PixelsPerOutput /\ required \in 0 .. BankWords
          /\ pixel \in 0 .. PixelsPerOutput /\ readPixel \in 0 .. PixelsPerOutput
          /\ cycle \in 0 .. PixelCycles - 1 /\ resetCycle \in 0 .. ResetCycles - 1
          /\ current \in [Output -> Int \cup {Quiet}] /\ next \in [Output -> Int \cup {Quiet}]
          /\ scan \in 0 .. OutputCount /\ readOutput \in Output
          /\ scanBase \in 0 .. BankWords /\ readBase \in 0 .. BankWords
          /\ address \in 0 .. 2 * BankWords - 1
          /\ answer \in 0 .. 2 * BankWords - 1 \cup {Failure}
          /\ readActive \in BOOLEAN /\ nextValid \in BOOLEAN
          /\ arvalid \in BOOLEAN /\ answering \in BOOLEAN

PixelAt(p) == [o \in Output |-> IF p < lengths[o] THEN Address(bank, o, p) ELSE Quiet]

(* Whatever pixel is on the strands, every strand sends its own word of    *)
(* that position and of the captured bank, or is quiet because it has no   *)
(* such pixel: no word of the pixel before or after, no other strand's,    *)
(* however reads, skips of short strands and read errors interleave.       *)
LineRight == tx = "send" => current = PixelAt(pixel)

(* The reads of one pixel on all strands end before the pixel before it    *)
(* has been sent.                                                          *)
InTime == PixelCycles >= 4 * OutputCount + 2

(* The next pixel is never late and no frame is given up, if the memory    *)
(* does not fail and a pixel lasts long enough.                            *)
NeverGivenUp == tx # "error"

(* The scan of TX_COMPUTE_CONFIG finds the longest strand and the end of   *)
(* the last lit one, which the processor computes in its own way.          *)
Longest == tx \in {"validate", "load", "send"} =>
             /\ \A o \in Output : lengths[o] <= maxPixels
             /\ maxPixels = 0 \/ \E o \in Output : lengths[o] = maxPixels
             /\ \A o \in Output : lengths[o] > 0 => o * PixelsPerOutput + lengths[o] <= required
             /\ \/ required = 0 /\ maxPixels = 0
                \/ \E o \in Output : /\ lengths[o] > 0
                                      /\ required = o * PixelsPerOutput + lengths[o]

(* Frame memory is read only for a lit pixel of the captured frame, at the *)
(* pixel being fetched, and by no state but the two that show pixels.      *)
ReadsLit == rd = "address" =>
              /\ tx \in {"load", "send", "error"}
              /\ readPixel < lengths[readOutput]
              /\ address = Address(bank, readOutput, readPixel)

(* A frame on its way ends, sent, refused or given up, and the consumer    *)
(* can take the next one.                                                  *)
FrameEnds == tx # "idle" ~> tx = "idle"

----
(* The strands' view.                                                      *)
Phase == IF tx \in {"config", "validate", "load"} THEN "taken"
         ELSE IF tx = "send" THEN "sending"
         ELSE IF tx = "reset" THEN "latching"
         ELSE "idle"

Line == IF tx = "send" THEN current ELSE AllQuiet

Strands == INSTANCE StrandFrame WITH phase <- Phase, position <- pixel, line <- Line

(* The consumer sends every frame it does not refuse whole, in order and on*)
(* all strands at once.                                                    *)
StrandSpec == Strands!Spec
====
