---- MODULE Ws281xConsumerProofs ----
(***************************************************************************)
(* Proofs about the consumer for any number of outputs, any strand lengths *)
(* and any durations.  The invariant follows the read machine: Reading says*)
(* what it has collected so far, Loading and Sending what the transmit     *)
(* machine knows of it, and Deadline how far it has got by which cycle of  *)
(* the pixel being sent.                                                   *)
(***************************************************************************)
EXTENDS Ws281xConsumer, TLAPS

(* Arithmetic of the output-major memory.                                  *)

LEMMA ProductSteps ==
  ASSUME NEW a \in Nat, NEW b \in Nat, NEW c \in Nat, a < b
  PROVE  /\ a * c \in Nat
         /\ (a + 1) * c = a * c + c
         /\ a * c + c <= b * c
<1>1. b - a - 1 \in Nat /\ b = a + 1 + (b - a - 1)
  OBVIOUS
<1>2. b * c = a * c + c + (b - a - 1) * c
  BY <1>1
<1>3. (b - a - 1) * c \in Nat
  BY <1>1
<1>4. QED
  BY <1>2, <1>3

LEMMA BankWordsType == BankWords \in Nat /\ BankWords >= PixelsPerOutput
<1>1. 0 * PixelsPerOutput + PixelsPerOutput <= OutputCount * PixelsPerOutput
  BY ProductSteps, SizeAssumption
<1>2. QED
  BY <1>1, SizeAssumption DEF BankWords

(* The words of an output lie within a bank.                               *)
LEMMA OutputBase ==
  ASSUME NEW o \in Output
  PROVE  /\ o * PixelsPerOutput \in Nat
         /\ (o + 1) * PixelsPerOutput = o * PixelsPerOutput + PixelsPerOutput
         /\ o * PixelsPerOutput + PixelsPerOutput <= BankWords
BY ProductSteps, SizeAssumption DEF Output, BankWords

LEMMA AddressType ==
  ASSUME NEW b \in {0, 1}, NEW o \in Output, NEW p \in 0 .. PixelsPerOutput - 1
  PROVE  Address(b, o, p) \in 0 .. 2 * BankWords - 1
<1> DEFINE base == o * PixelsPerOutput
<1>1. base \in Nat /\ base + PixelsPerOutput <= BankWords
  BY OutputBase
<1>2. Address(b, o, p) = b * BankWords + base + p
  BY DEF Address
<1>3. CASE b = 0
  BY <1>1, <1>2, <1>3, BankWordsType, SizeAssumption
<1>4. CASE b = 1
  BY <1>1, <1>2, <1>4, BankWordsType, SizeAssumption
<1>5. QED
  BY <1>3, <1>4

----
(* The invariant.                                                          *)

(* The read port answers the address that is waiting.                      *)
Port == /\ arvalid <=> rd = "address"
        /\ rd = "address" /\ answering => answer \in {address, Failure}

(* A buffer that has the pixel being read of all outputs below done.       *)
Collected(buffer, done) ==
    buffer = [o \in Output |-> IF o < done THEN PixelAt(readPixel)[o] ELSE Quiet]

Reading == rd # "idle" =>
             /\ tx \in {"load", "send", "error"}
             /\ scanBase = scan * PixelsPerOutput
             /\ rd # "scan" => /\ scan = readOutput + 1
                               /\ readBase = readOutput * PixelsPerOutput
                               /\ readPixel < lengths[readOutput]
             /\ rd = "address" => address = Address(bank, readOutput, readPixel)
             /\ Collected(IF readActive THEN current ELSE next,
                          IF rd = "scan" THEN scan ELSE readOutput)

Waiting == /\ tx \in {"config", "validate"} => ~readActive /\ ~nextValid
           /\ tx \in {"config", "validate", "load"} => pixel = 0

Loading == tx = "load" => /\ ~nextValid
                          /\ maxPixels > 0
                          /\ rd # "idle" => readActive /\ readPixel = 0
                          /\ rd = "idle" /\ ~readActive => current = PixelAt(0)

Sending == tx = "send" => /\ ~readActive
                          /\ current = PixelAt(pixel)
                          /\ pixel < maxPixels
                          /\ nextValid => /\ rd = "idle"
                                          /\ next = PixelAt(pixel + 1)
                                          /\ pixel + 1 < maxPixels
                          /\ rd # "idle" => readPixel = pixel + 1 /\ pixel + 1 < maxPixels
                          /\ rd = "idle" /\ ~nextValid => pixel = maxPixels - 1

(* The longest strand and the last lit one among the outputs scanned.      *)
ScannedTo(n) ==
    /\ \A o \in Output : o < n => lengths[o] <= maxPixels
    /\ maxPixels = 0 \/ \E o \in Output : lengths[o] = maxPixels
    /\ \A o \in Output : o < n /\ lengths[o] > 0 => o * PixelsPerOutput + lengths[o] <= required
    /\ \/ required = 0 /\ maxPixels = 0
       \/ \E o \in Output : /\ o < n
                            /\ lengths[o] > 0
                            /\ required = o * PixelsPerOutput + lengths[o]

Scanned == /\ tx = "config" => ScannedTo(configScan)
           /\ tx \in {"validate", "load", "send"} => ScannedTo(OutputCount)

IInv == TypeOK /\ Port /\ Reading /\ Waiting /\ Loading /\ Sending /\ Scanned

USE DEF vars, frameVars, sendVars, readVars, ramVars

LEMMA InitEstablishes == Init => IInv
<1> SUFFICES ASSUME Init PROVE IInv
  OBVIOUS
<1>1. 0 \in Output /\ 0 \in 0 .. PixelsPerOutput /\ 0 \in 0 .. BankWords
      /\ 0 \in 0 .. 2 * BankWords - 1 /\ 0 \in 0 .. OutputCount
      /\ 0 \in 0 .. PixelCycles - 1 /\ 0 \in 0 .. ResetCycles - 1
  BY BankWordsType, SizeAssumption, CycleAssumption DEF Output
<1>2. TypeOK
  BY <1>1 DEF Init, TypeOK, AllQuiet
<1>3. QED
  BY <1>2 DEF Init, IInv, Port, Reading, Waiting, Loading, Sending, Scanned

(* The read port's part of a step.                                         *)
LEMMA PortStep ==
  ASSUME TypeOK, Port, ReadPort
  PROVE  /\ answering' \in BOOLEAN
         /\ answer' \in 0 .. 2 * BankWords - 1 \cup {Failure}
         /\ answering' => rd = "address" /\ ~answering /\ answer' \in {address, Failure}
BY DEF ReadPort, TypeOK, Port

(* What the read machine's own steps keep, in whatever state the transmit  *)
(* machine is.                                                             *)
ReadType == /\ rd \in {"idle", "scan", "prepare", "address"}
            /\ readPixel \in 0 .. PixelsPerOutput
            /\ current \in [Output -> Int \cup {Quiet}] /\ next \in [Output -> Int \cup {Quiet}]
            /\ scan \in 0 .. OutputCount /\ readOutput \in Output
            /\ scanBase \in 0 .. BankWords /\ readBase \in 0 .. BankWords
            /\ address \in 0 .. 2 * BankWords - 1
            /\ readActive \in BOOLEAN /\ nextValid \in BOOLEAN /\ arvalid \in BOOLEAN

LEMMA ReadKeepsType ==
  ASSUME TypeOK, Port, Reading, Read
  PROVE  ReadType'
<1>1. CASE ScanEnd
  BY <1>1 DEF ScanEnd, TypeOK, ReadType
<1>2. CASE ScanStep
  <2>1. scan \in Output /\ scan' = scan + 1 /\ scan' \in 0 .. OutputCount
    BY <1>2, SizeAssumption DEF ScanStep, TypeOK, Output
  <2>2. scanBase = scan * PixelsPerOutput
    BY <1>2 DEF ScanStep, Reading
  <2>3. scanBase' \in 0 .. BankWords
    BY <1>2, <2>1, <2>2, OutputBase, BankWordsType, SizeAssumption DEF ScanStep
  <2>4. QED
    BY <1>2, <2>1, <2>3 DEF ScanStep, TypeOK, ReadType
<1>3. CASE PrepareAddress
  <2>1. readBase = readOutput * PixelsPerOutput /\ readPixel < lengths[readOutput]
    BY <1>3 DEF PrepareAddress, Reading
  <2>2. readPixel \in 0 .. PixelsPerOutput - 1
    BY <2>1, SizeAssumption DEF TypeOK
  <2>3. address' = Address(bank, readOutput, readPixel)
    BY <1>3, <2>1 DEF PrepareAddress, Address
  <2>4. address' \in 0 .. 2 * BankWords - 1
    BY <2>2, <2>3, AddressType DEF TypeOK
  <2>5. QED
    BY <1>3, <2>4 DEF PrepareAddress, TypeOK, ReadType
<1>4. CASE ReceiveWord
  <2>1. answer \in Int
    BY <1>4, BankWordsType DEF ReceiveWord, TypeOK
  <2>2. QED
    BY <1>4, <2>1 DEF ReceiveWord, TypeOK, ReadType
<1>5. CASE ReadWaits
  BY <1>5 DEF ReadWaits, TypeOK, ReadType
<1>6. QED
  BY <1>1, <1>2, <1>3, <1>4, <1>5 DEF Read

LEMMA ReadKeeps ==
  ASSUME TypeOK, Port, Reading, Read, ReadPort, UNCHANGED <<bank, lengths>>,
         tx' \in {"load", "send", "error"} \/ rd = "idle"
  PROVE  Port' /\ Reading'
<1>1. CASE ScanEnd
  BY <1>1, PortStep DEF ScanEnd, Port, Reading
<1>2. CASE ScanStep
  <2>1. scan \in Output
    BY <1>2, SizeAssumption DEF ScanStep, TypeOK, Output
  <2>2. /\ scanBase = scan * PixelsPerOutput
        /\ Collected(IF readActive THEN current ELSE next, scan)
    BY <1>2 DEF ScanStep, Reading
  <2>3. scanBase' = scan' * PixelsPerOutput
    BY <1>2, <2>1, <2>2, OutputBase DEF ScanStep
  <2>4. Port'
    BY <1>2, PortStep DEF ScanStep, Port
  <2>5. CASE Wanted
    BY <1>2, <2>1, <2>2, <2>3, <2>4, <2>5
       DEF ScanStep, Reading, Wanted, Collected, PixelAt
  <2>6. CASE ~Wanted
    <3>1. PixelAt(readPixel)[scan] = Quiet
      BY <2>1, <2>6 DEF Wanted, PixelAt, TypeOK
    <3>2. \A o \in Output : o < scan + 1 <=> o < scan \/ o = scan
      BY <2>1 DEF Output
    <3>3. Collected(IF readActive THEN current ELSE next, scan + 1)
      BY <2>2, <3>1, <3>2 DEF Collected
    <3>4. QED
      BY <1>2, <2>3, <2>4, <2>6, <3>3 DEF ScanStep, Reading, Collected, PixelAt
  <2>7. QED
    BY <2>5, <2>6
<1>3. CASE PrepareAddress
  <2>1. readBase = readOutput * PixelsPerOutput
    BY <1>3 DEF PrepareAddress, Reading
  <2>2. address' = Address(bank, readOutput, readPixel)
    BY <1>3, <2>1 DEF PrepareAddress, Address
  <2>3. ~answering'
    BY <1>3, PortStep DEF PrepareAddress
  <2>4. QED
    BY <1>3, <2>2, <2>3 DEF PrepareAddress, Port, Reading, Collected, PixelAt
<1>4. CASE ReceiveWord
  <2>1. /\ answer = Address(bank, readOutput, readPixel)
        /\ readPixel < lengths[readOutput]
        /\ scan = readOutput + 1 /\ readOutput \in Output
        /\ Collected(IF readActive THEN current ELSE next, readOutput)
    BY <1>4 DEF ReceiveWord, Port, Reading, TypeOK
  <2>2. answer = PixelAt(readPixel)[readOutput]
    BY <2>1 DEF PixelAt
  <2>3. \A o \in Output : o < scan <=> o < readOutput \/ o = readOutput
    BY <2>1 DEF Output
  <2>4. Collected([IF readActive THEN current ELSE next EXCEPT ![readOutput] = answer], scan)
    BY <2>1, <2>2, <2>3 DEF Collected
  <2>5. Collected(IF readActive THEN current ELSE next, scan)'
    BY <1>4, <2>4 DEF ReceiveWord, Collected, PixelAt
  <2>6. Port'
    BY <1>4 DEF ReceiveWord, Port
  <2>7. QED
    BY <1>4, <2>5, <2>6 DEF ReceiveWord, Reading
<1>5. CASE ReadWaits
  BY <1>5, PortStep DEF ReadWaits, Port, Reading, Collected, PixelAt
<1>6. QED
  BY <1>1, <1>2, <1>3, <1>4, <1>5 DEF Read

(* A finished scan has the whole pixel.                                    *)
LEMMA CollectedAll ==
  ASSUME NEW buffer, Collected(buffer, OutputCount)
  PROVE  buffer = PixelAt(readPixel)
<1>1. \A o \in Output : o < OutputCount
  BY SizeAssumption DEF Output
<1>2. QED
  BY <1>1 DEF Collected, PixelAt

(* A scan that starts has nothing yet.                                     *)
LEMMA ScanStarts ==
  ASSUME Port, rd = "idle", NEW p, StartScan(p), tx' \in {"load", "send"},
         UNCHANGED arvalid, (IF readActive THEN current ELSE next)' = AllQuiet
  PROVE  Port' /\ Reading'
<1>1. \A o \in Output : ~(o < 0)
  BY SizeAssumption DEF Output
<1>2. Collected(IF readActive THEN current ELSE next, 0)'
  BY <1>1 DEF Collected, AllQuiet
<1>3. 0 = 0 * PixelsPerOutput
  BY SizeAssumption
<1>4. QED
  BY <1>2, <1>3 DEF StartScan, Port, Reading

(* What the transmit machine knows of the read machine survives a step of  *)
(* the latter alone.                                                       *)
LEMMA SendingKept ==
  ASSUME TypeOK, Reading, Sending, tx = "send", Read, tx' = "send",
         UNCHANGED <<bank, lengths, maxPixels, pixel>>
  PROVE  Sending'
<1>1. /\ ~readActive /\ current = PixelAt(pixel) /\ pixel < maxPixels
      /\ rd # "idle" => ~nextValid /\ readPixel = pixel + 1 /\ pixel + 1 < maxPixels
  BY DEF Sending
<1>2. PixelAt(pixel)' = PixelAt(pixel) /\ PixelAt(pixel + 1)' = PixelAt(pixel + 1)
  BY DEF PixelAt
<1>3. CASE ScanEnd
  <2>1. next = PixelAt(readPixel)
    BY <1>1, <1>3, CollectedAll DEF ScanEnd, Reading
  <2>2. next' = PixelAt(pixel + 1)'
    BY <1>1, <1>2, <1>3, <2>1 DEF ScanEnd
  <2>3. QED
    BY <1>1, <1>2, <1>3, <2>2 DEF ScanEnd, Sending
<1>4. CASE ScanStep
  BY <1>1, <1>2, <1>4 DEF ScanStep, Sending
<1>5. CASE PrepareAddress
  BY <1>1, <1>2, <1>5 DEF PrepareAddress, Sending
<1>6. CASE ReceiveWord
  BY <1>1, <1>2, <1>6 DEF ReceiveWord, Sending
<1>7. CASE ReadWaits
  BY <1>1, <1>2, <1>7 DEF ReadWaits, Sending
<1>8. QED
  BY <1>3, <1>4, <1>5, <1>6, <1>7 DEF Read

LEMMA LoadingKept ==
  ASSUME TypeOK, Reading, Loading, tx = "load", rd # "idle", Read, tx' = "load",
         UNCHANGED <<bank, lengths, maxPixels>>
  PROVE  Loading'
<1>1. ~nextValid /\ maxPixels > 0 /\ readActive /\ readPixel = 0
  BY DEF Loading
<1>2. PixelAt(0)' = PixelAt(0)
  BY DEF PixelAt
<1>3. CASE ScanEnd
  <2>1. current = PixelAt(0)
    BY <1>1, <1>3, CollectedAll DEF ScanEnd, Reading
  <2>2. QED
    BY <1>1, <1>2, <1>3, <2>1 DEF ScanEnd, Loading
<1>4. CASE ScanStep
  BY <1>1, <1>2, <1>4 DEF ScanStep, Loading
<1>5. CASE PrepareAddress
  BY <1>1, <1>2, <1>5 DEF PrepareAddress, Loading
<1>6. CASE ReceiveWord
  BY <1>1, <1>2, <1>6 DEF ReceiveWord, Loading
<1>7. CASE ReadWaits
  BY <1>1, <1>2, <1>7 DEF ReadWaits, Loading
<1>8. QED
  BY <1>3, <1>4, <1>5, <1>6, <1>7 DEF Read

(* The registers of the transmit machine and of the captured frame.        *)
FrameType == /\ bank \in {0, 1} /\ lengths \in [Output -> 0 .. PixelsPerOutput]
             /\ configScan \in Output
             /\ maxPixels \in 0 .. PixelsPerOutput /\ required \in 0 .. BankWords
SendType == /\ tx \in {"idle", "config", "validate", "load", "send", "reset", "error"}
            /\ pixel \in 0 .. PixelsPerOutput
            /\ cycle \in 0 .. PixelCycles - 1 /\ resetCycle \in 0 .. ResetCycles - 1

LEMMA TypeParts ==
  ASSUME TypeOK, Port, ReadPort, FrameType', SendType', ReadType'
  PROVE  TypeOK'
BY PortStep DEF TypeOK, FrameType, SendType, ReadType

----
(* The transmit machine's steps, one lemma each.                           *)

LEMMA CaptureKeeps == IInv /\ Capture /\ ReadPort => IInv'
<1> SUFFICES ASSUME IInv, Capture, ReadPort PROVE IInv'
  OBVIOUS
<1>1. 0 \in Output /\ 0 \in 0 .. PixelsPerOutput /\ 0 \in 0 .. BankWords /\ 0 \in 0 .. OutputCount
  BY BankWordsType, SizeAssumption DEF Output
<1>2. FrameType' /\ SendType' /\ ReadType'
  BY <1>1, ConfigAssumption DEF Capture, IInv, TypeOK, FrameType, SendType, ReadType, AllQuiet
<1>3. TypeOK'
  BY <1>2, TypeParts DEF IInv
<1>4. ScannedTo(0)'
  BY <1>2, SizeAssumption DEF Capture, ScannedTo, Output, FrameType
<1>5. QED
  BY <1>3, <1>4 DEF Capture, IInv, Port, Reading, Waiting, Loading, Sending, Scanned

LEMMA IdleKeeps == IInv /\ Idle /\ ReadPort => IInv'
<1> SUFFICES ASSUME IInv, Idle, ReadPort PROVE IInv'
  OBVIOUS
<1>1. rd = "idle"
  BY DEF Idle, IInv, Reading
<1>2. FrameType' /\ SendType' /\ ReadType'
  BY DEF Idle, IInv, TypeOK, FrameType, SendType, ReadType
<1>3. TypeOK'
  BY <1>2, TypeParts DEF IInv
<1>4. QED
  BY <1>1, <1>3 DEF Idle, IInv, Port, Reading, Waiting, Loading, Sending, Scanned

LEMMA ConfigScanKeeps == IInv /\ ConfigScan /\ ReadPort => IInv'
<1> SUFFICES ASSUME IInv, ConfigScan, ReadPort PROVE IInv'
  OBVIOUS
<1>1. rd = "idle" /\ rd' = "idle" /\ tx = "config" /\ tx' \in {"config", "validate"}
  BY DEF ConfigScan, IInv, Reading
<1>0. PICK n \in Output : n = configScan
  BY DEF IInv, TypeOK
<1>2. n \in Nat /\ n < OutputCount /\ lengths[n] \in 0 .. PixelsPerOutput
  BY SizeAssumption DEF IInv, TypeOK, Output
<1>3. /\ n * PixelsPerOutput \in Nat
      /\ n * PixelsPerOutput + PixelsPerOutput <= BankWords
  BY <1>2, OutputBase
<1>4. required' \in 0 .. BankWords /\ maxPixels' \in 0 .. PixelsPerOutput
  BY <1>0, <1>2, <1>3, BankWordsType, SizeAssumption DEF ConfigScan, ScanLength, IInv, TypeOK
<1>5. FrameType' /\ SendType' /\ ReadType'
  <2>1. configScan' \in Output
    BY <1>0, <1>2, SizeAssumption DEF ConfigScan, Output
  <2>2. FrameType'
    BY <1>4, <2>1 DEF ConfigScan, IInv, TypeOK, FrameType
  <2>3. SendType' /\ ReadType'
    BY <1>1 DEF ConfigScan, IInv, TypeOK, SendType, ReadType
  <2>4. QED
    BY <2>2, <2>3
<1>6. TypeOK'
  BY <1>5, TypeParts DEF IInv
<1>7. ScannedTo(n)
  BY <1>0, <1>1 DEF IInv, Scanned
<1>8. /\ \A o \in Output : o < n + 1 => lengths[o] <= maxPixels'
      /\ maxPixels' = 0 \/ \E o \in Output : lengths[o] = maxPixels'
  <2>1. \A o \in Output : o < n + 1 => o < n \/ o = n
    BY <1>2 DEF Output
  <2>2. QED
    BY <1>0, <1>2, <1>7, <2>1 DEF ConfigScan, ScanLength, ScannedTo, IInv, TypeOK
<1>9. \A o \in Output : o < n + 1 /\ lengths[o] > 0 => o * PixelsPerOutput + lengths[o] <= required'
  <2> SUFFICES ASSUME NEW o \in Output, o < n + 1, lengths[o] > 0
               PROVE  o * PixelsPerOutput + lengths[o] <= required'
    OBVIOUS
  <2>1. o \in Nat /\ lengths[o] \in 0 .. PixelsPerOutput
    BY SizeAssumption DEF Output, IInv, TypeOK
  <2>2. CASE o = n
    BY <1>0, <1>2, <1>3, <2>1, <2>2, SizeAssumption DEF ConfigScan, ScanLength
  <2>3. CASE o < n
    <3>1. o * PixelsPerOutput \in Nat /\ o * PixelsPerOutput + PixelsPerOutput <= n * PixelsPerOutput
      BY <1>2, <2>1, <2>3, ProductSteps, SizeAssumption
    <3>2. o * PixelsPerOutput + lengths[o] <= required
      BY <1>7, <2>3 DEF ScannedTo
    <3>3. QED
      BY <1>0, <1>2, <1>3, <2>1, <3>1, <3>2, SizeAssumption DEF ConfigScan, ScanLength, IInv, TypeOK
  <2>4. QED
    BY <1>2, <2>1, <2>2, <2>3
<1>10. \/ required' = 0 /\ maxPixels' = 0
       \/ \E o \in Output : /\ o < n + 1
                             /\ lengths[o] > 0
                             /\ required' = o * PixelsPerOutput + lengths[o]
  <2>1. CASE lengths[n] # 0
    BY <1>0, <1>2, <2>1 DEF ConfigScan, ScanLength
  <2>2. CASE lengths[n] = 0
    <3>1. required' = required /\ maxPixels' = maxPixels
      BY <1>0, <1>2, <2>2 DEF ConfigScan, ScanLength, IInv, TypeOK
    <3>2. \A o \in Output : o < n => o < n + 1
      BY <1>2 DEF Output
    <3>3. QED
      BY <1>7, <3>1, <3>2 DEF ScannedTo
  <2>3. QED
    BY <2>1, <2>2
<1>11. ScannedTo(n + 1)'
  BY <1>8, <1>9, <1>10 DEF ConfigScan, ScannedTo
<1>12. Scanned'
  BY <1>0, <1>1, <1>2, <1>11, SizeAssumption DEF ConfigScan, Scanned, Output
<1>13. Port' /\ Reading' /\ Waiting' /\ Loading' /\ Sending'
  BY <1>1 DEF ConfigScan, IInv, Port, Reading, Waiting, Loading, Sending
<1>14. QED
  BY <1>6, <1>12, <1>13 DEF IInv

LEMMA ValidateKeeps == IInv /\ Validate /\ ReadPort => IInv'
<1> SUFFICES ASSUME IInv, Validate, ReadPort PROVE IInv'
  OBVIOUS
<1>1. rd = "idle" /\ rd' = "idle" /\ ~arvalid /\ ~arvalid' /\ ~nextValid /\ ~nextValid'
  BY DEF Validate, IInv, Reading, Port, Waiting
<1>2. FrameType' /\ ReadType'
  BY <1>1 DEF Validate, IInv, TypeOK, FrameType, ReadType
<1>3. SendType'
  BY CycleAssumption DEF Validate, IInv, TypeOK, SendType
<1>4. TypeOK'
  BY <1>2, <1>3, TypeParts DEF IInv
<1>5. Scanned'
  BY DEF Validate, IInv, Scanned, ScannedTo
<1>6. Loading'
  <2>1. ASSUME tx' = "load" PROVE maxPixels' > 0 /\ readActive'
    BY <2>1, <1>2 DEF Validate, FrameType
  <2>2. QED
    BY <1>1, <2>1 DEF Loading
<1>7. Port' /\ Reading' /\ Waiting' /\ Sending'
  BY <1>1 DEF Validate, IInv, Port, Reading, Waiting, Sending
<1>8. QED
  BY <1>4, <1>5, <1>6, <1>7 DEF IInv

(* A prefetch of a pixel that exists.                                      *)
LEMMA PrefetchType ==
  ASSUME TypeOK, NEW p \in 0 .. PixelsPerOutput, Prefetch(p),
         current' \in [Output -> Int \cup {Quiet}]
  PROVE  ReadType'
<1>1. AllQuiet \in [Output -> Int \cup {Quiet}]
  BY DEF AllQuiet
<1>2. 0 \in 0 .. OutputCount /\ 0 \in 0 .. BankWords
  BY BankWordsType, SizeAssumption
<1>3. rd' = "scan" /\ readPixel' = p /\ next' = AllQuiet /\ scan' = 0 /\ scanBase' = 0
      /\ nextValid' = FALSE /\ UNCHANGED <<readActive, readOutput, readBase, address, arvalid>>
  BY DEF Prefetch, StartScan
<1>4. readOutput \in Output /\ readBase \in 0 .. BankWords /\ address \in 0 .. 2 * BankWords - 1
      /\ readActive \in BOOLEAN /\ arvalid \in BOOLEAN
  BY DEF TypeOK
<1>5. QED
  BY <1>1, <1>2, <1>3, <1>4 DEF ReadType

LEMMA LoadFirstKeeps == IInv /\ LoadFirst /\ ReadPort => IInv'
<1> SUFFICES ASSUME IInv, LoadFirst, ReadPort PROVE IInv'
  OBVIOUS
<1>1. tx = "load" /\ UNCHANGED frameVars /\ FrameType' /\ ~nextValid /\ maxPixels > 0
  BY DEF LoadFirst, IInv, TypeOK, FrameType, Loading
<1>2. CASE /\ rd = "idle" /\ readActive /\ ~arvalid
           /\ StartScan(0)
           /\ current' = AllQuiet
           /\ UNCHANGED <<tx, sendVars, readActive, readOutput, readBase, next, nextValid, address,
                          arvalid>>
  <2>1. Port' /\ Reading'
    BY <1>1, <1>2, ScanStarts DEF IInv
  <2>2. ReadType' /\ SendType'
    BY <1>2, BankWordsType, SizeAssumption
       DEF StartScan, IInv, TypeOK, ReadType, SendType, AllQuiet
  <2>3. TypeOK'
    BY <1>1, <2>2, TypeParts DEF IInv
  <2>4. QED
    BY <1>1, <1>2, <2>1, <2>3
       DEF StartScan, IInv, Waiting, Loading, Sending, Scanned, ScannedTo
<1>3. CASE rd # "idle" /\ Read /\ UNCHANGED <<tx, sendVars>>
  <2>1. Port' /\ Reading' /\ ReadType'
    BY <1>1, <1>3, ReadKeeps, ReadKeepsType DEF IInv
  <2>2. SendType'
    BY <1>3 DEF IInv, TypeOK, SendType
  <2>3. TypeOK'
    BY <1>1, <2>1, <2>2, TypeParts DEF IInv
  <2>4. Loading'
    BY <1>1, <1>3, LoadingKept DEF IInv
  <2>5. QED
    BY <1>1, <1>3, <2>1, <2>3, <2>4 DEF IInv, Waiting, Sending, Scanned, ScannedTo
<1>4. CASE /\ rd = "idle" /\ ~readActive
           /\ tx' = "send"
           /\ pixel' = 0 /\ cycle' = 0
           /\ IF maxPixels > 1 THEN Prefetch(1) ELSE UNCHANGED readVars
           /\ UNCHANGED <<resetCycle, current>>
  <2>1. current = PixelAt(0) /\ PixelAt(0)' = PixelAt(0)
    BY <1>1, <1>4 DEF IInv, Loading, PixelAt
  <2>2. SendType' /\ maxPixels \in 0 .. PixelsPerOutput
    BY <1>4, CycleAssumption, SizeAssumption DEF IInv, TypeOK, SendType
  <2>3. Waiting' /\ Loading' /\ Scanned'
    BY <1>1, <1>4 DEF IInv, Waiting, Loading, Scanned, ScannedTo
  <2>4. CASE maxPixels > 1
    <3>1. Port' /\ Reading'
      BY <1>4, <2>4, ScanStarts DEF Prefetch, IInv
    <3>2. ReadType'
      <4>1. 1 \in 0 .. PixelsPerOutput
        BY <2>2, <2>4, SizeAssumption
      <4>2. current' \in [Output -> Int \cup {Quiet}]
        BY <1>4 DEF IInv, TypeOK
      <4>3. QED
        BY <1>4, <2>4, <4>1, <4>2, PrefetchType DEF IInv
    <3>3. TypeOK'
      BY <1>1, <2>2, <3>2, TypeParts DEF IInv
    <3>4. Sending'
      BY <1>1, <1>4, <2>1, <2>4 DEF Prefetch, StartScan, Sending
    <3>5. QED
      BY <2>3, <3>1, <3>3, <3>4 DEF IInv
  <2>5. CASE ~(maxPixels > 1)
    <3>1. ReadType'
      BY <1>4, <2>5 DEF IInv, TypeOK, ReadType
    <3>2. TypeOK'
      BY <1>1, <2>2, <3>1, TypeParts DEF IInv
    <3>3. pixel' = maxPixels' - 1 /\ pixel' < maxPixels'
      BY <1>1, <1>4, <2>2, <2>5, SizeAssumption
    <3>4. Sending'
      BY <1>1, <1>4, <2>1, <2>5, <3>3 DEF Sending
    <3>5. Port' /\ Reading'
      BY <1>4, <2>5 DEF IInv, Port, Reading
    <3>6. QED
      BY <2>3, <3>2, <3>4, <3>5 DEF IInv
  <2>6. QED
    BY <2>4, <2>5
<1>5. QED
  BY <1>2, <1>3, <1>4 DEF LoadFirst

(* The steps in which both machines move.                                  *)
LEMMA BothKeep ==
  ASSUME IInv, tx \in {"send", "reset"}, Read, ReadPort, UNCHANGED frameVars, SendType',
         \/ tx = "send" /\ tx' \in {"send", "error"} /\ UNCHANGED pixel
         \/ rd = "idle" /\ tx' \in {"reset", "idle"}
  PROVE  IInv'
<1>1. Port' /\ Reading' /\ ReadType'
  BY ReadKeeps, ReadKeepsType DEF IInv
<1>2. FrameType'
  BY DEF IInv, TypeOK, FrameType
<1>3. TypeOK'
  BY <1>1, <1>2, TypeParts DEF IInv
<1>4. Sending'
  <2>1. CASE tx' = "send"
    BY <2>1, SendingKept DEF IInv
  <2>2. CASE tx' # "send"
    BY <2>2 DEF Sending
  <2>3. QED
    BY <2>1, <2>2
<1>5. Waiting' /\ Loading' /\ Scanned'
  BY DEF IInv, Waiting, Loading, Scanned, ScannedTo
<1>6. QED
  BY <1>1, <1>3, <1>4, <1>5 DEF IInv

LEMMA SendCycleKeeps == IInv /\ SendCycle /\ ReadPort => IInv'
<1> SUFFICES ASSUME IInv, SendCycle, ReadPort PROVE IInv'
  OBVIOUS
<1>1. SendType'
  BY CycleAssumption DEF SendCycle, IInv, TypeOK, SendType
<1>2. QED
  BY <1>1, BothKeep DEF SendCycle

LEMMA LastPixelKeeps == IInv /\ LastPixel /\ ReadPort => IInv'
<1> SUFFICES ASSUME IInv, LastPixel, ReadPort PROVE IInv'
  OBVIOUS
<1>1. SendType'
  BY CycleAssumption DEF LastPixel, IInv, TypeOK, SendType
<1>2. rd = "idle"
  BY SizeAssumption DEF LastPixel, IInv, Sending, TypeOK
<1>3. QED
  BY <1>1, <1>2, BothKeep DEF LastPixel

LEMMA NextPixelLateKeeps == IInv /\ NextPixelLate /\ ReadPort => IInv'
<1> SUFFICES ASSUME IInv, NextPixelLate, ReadPort PROVE IInv'
  OBVIOUS
<1>1. SendType'
  BY CycleAssumption DEF NextPixelLate, IInv, TypeOK, SendType
<1>2. QED
  BY <1>1, BothKeep DEF NextPixelLate

LEMMA LatchGapKeeps == IInv /\ LatchGap /\ ReadPort => IInv'
<1> SUFFICES ASSUME IInv, LatchGap, ReadPort PROVE IInv'
  OBVIOUS
<1>1. SendType'
  BY CycleAssumption DEF LatchGap, IInv, TypeOK, SendType
<1>2. rd = "idle"
  BY DEF LatchGap, IInv, Reading
<1>3. QED
  BY <1>1, <1>2, BothKeep DEF LatchGap

LEMMA NextPixelKeeps == IInv /\ NextPixel /\ ReadPort => IInv'
<1> SUFFICES ASSUME IInv, NextPixel, ReadPort PROVE IInv'
  OBVIOUS
<1>1. /\ tx = "send" /\ tx' = "send" /\ rd = "idle" /\ ~readActive
      /\ next = PixelAt(pixel + 1) /\ pixel + 1 < maxPixels
      /\ pixel \in Nat /\ maxPixels \in 0 .. PixelsPerOutput
  BY SizeAssumption DEF NextPixel, IInv, Sending, TypeOK
<1>2. current' = PixelAt(pixel)' /\ pixel' < maxPixels' /\ pixel' = pixel + 1
  <2>1. pixel' = pixel + 1 /\ current' = next /\ UNCHANGED <<bank, lengths, maxPixels>>
    BY DEF NextPixel
  <2>2. QED
    BY <1>1, <2>1 DEF PixelAt
<1>3. FrameType' /\ SendType'
  BY <1>1, CycleAssumption, SizeAssumption DEF NextPixel, IInv, TypeOK, FrameType, SendType
<1>4. Waiting' /\ Loading' /\ Scanned'
  BY <1>1 DEF NextPixel, IInv, Waiting, Loading, Scanned, ScannedTo
<1>5. CASE pixel + 2 < maxPixels
  <2>1. Prefetch(pixel + 2)
    BY <1>5 DEF NextPixel
  <2>2. Port' /\ Reading'
    BY <1>1, <2>1, ScanStarts DEF Prefetch, IInv
  <2>3. ReadType'
    <3>1. pixel + 2 \in 0 .. PixelsPerOutput
      BY <1>1, <1>5, SizeAssumption
    <3>2. current' \in [Output -> Int \cup {Quiet}]
      BY DEF NextPixel, IInv, TypeOK
    <3>3. QED
      BY <2>1, <3>1, <3>2, PrefetchType DEF IInv
  <2>4. TypeOK'
    BY <1>3, <2>3, TypeParts DEF IInv
  <2>5. Sending'
    <3>1. rd' = "scan" /\ readPixel' = pixel + 2 /\ ~nextValid' /\ ~readActive'
      BY <1>1, <2>1 DEF Prefetch, StartScan
    <3>2. pixel + 2 = pixel' + 1 /\ pixel' + 1 < maxPixels'
      BY <1>1, <1>2, <1>5 DEF NextPixel
    <3>3. QED
      BY <1>1, <1>2, <3>1, <3>2 DEF Sending
  <2>6. QED
    BY <1>4, <2>2, <2>4, <2>5 DEF IInv
<1>6. CASE ~(pixel + 2 < maxPixels)
  <2>1. /\ nextValid' = FALSE
        /\ UNCHANGED <<rd, readActive, readPixel, scan, scanBase, readOutput, readBase, next,
                       address, arvalid>>
    BY <1>6 DEF NextPixel
  <2>2. ReadType'
    <3>1. current' \in [Output -> Int \cup {Quiet}]
      BY DEF NextPixel, IInv, TypeOK
    <3>2. QED
      BY <2>1, <3>1 DEF IInv, TypeOK, ReadType
  <2>3. TypeOK'
    BY <1>3, <2>2, TypeParts DEF IInv
  <2>4. pixel' = maxPixels' - 1
    BY <1>1, <1>2, <1>6, SizeAssumption DEF NextPixel
  <2>5. Sending'
    <3>1. rd' = "idle" /\ ~readActive'
      BY <1>1, <2>1
    <3>2. QED
      BY <1>1, <1>2, <2>1, <2>4, <3>1 DEF Sending
  <2>6. Port' /\ Reading'
    BY <1>1, <2>1 DEF IInv, Port, Reading
  <2>7. QED
    BY <1>4, <2>3, <2>5, <2>6 DEF IInv
<1>7. QED
  BY <1>5, <1>6

(* TX_ERROR and the way into it on a failed read.                          *)
LEMMA StopKeeps == IInv /\ (ReadFails \/ Recover) /\ ReadPort => IInv'
<1> SUFFICES ASSUME IInv, ReadFails \/ Recover, ReadPort PROVE IInv'
  OBVIOUS
<1>1. FrameType' /\ SendType' /\ ReadType'
  BY DEF ReadFails, Recover, IInv, TypeOK, FrameType, SendType, ReadType
<1>2. TypeOK'
  BY <1>1, TypeParts DEF IInv
<1>3. Port' /\ Reading' /\ Waiting' /\ Loading' /\ Sending' /\ Scanned'
  BY DEF ReadFails, Recover, IInv, Port, Reading, Waiting, Loading, Sending, Scanned
<1>4. QED
  BY <1>2, <1>3 DEF IInv

LEMMA NextPreserves == IInv /\ [Next]_vars => IInv'
<1>1. IInv /\ UNCHANGED vars => IInv'
  BY DEF IInv, TypeOK, Port, Reading, Collected, PixelAt, Waiting, Loading, Sending, Scanned,
         ScannedTo
<1>2. QED
  BY <1>1, CaptureKeeps, IdleKeeps, ConfigScanKeeps, ValidateKeeps, LoadFirstKeeps,
     SendCycleKeeps, LastPixelKeeps, NextPixelKeeps, NextPixelLateKeeps, LatchGapKeeps, StopKeeps
     DEF Next, Busy

THEOREM Invariant == Spec => []IInv
BY InitEstablishes, NextPreserves, PTL DEF Spec

(* The registers keep their types: no index leaves its array, no address   *)
(* leaves frame memory.                                                    *)
THEOREM TypeCorrect == Spec => []TypeOK
BY Invariant, PTL DEF IInv

(* The strands never show a word that is not theirs at that position, for  *)
(* any number of strands, any lengths, any durations, and read errors.     *)
THEOREM LineRightHolds == Spec => []LineRight
<1>1. IInv => LineRight
  BY DEF IInv, Sending, LineRight
<1>2. QED
  BY <1>1, Invariant, PTL

(* No address is put on the read port that is not a lit pixel's.           *)
THEOREM ReadsLitHolds == Spec => []ReadsLit
<1>1. IInv => ReadsLit
  BY DEF IInv, Reading, ReadsLit
<1>2. QED
  BY <1>1, Invariant, PTL

(* The configuration scan finds the longest and the last lit strand.       *)
THEOREM LongestHolds == Spec => []Longest
<1>1. IInv => Longest
  <2>1. \A o \in Output : o < OutputCount
    BY SizeAssumption DEF Output
  <2>2. QED
    BY <2>1 DEF IInv, Scanned, ScannedTo, Longest
<1>2. QED
  BY <1>1, Invariant, PTL

----
(* No pixel is late.  Each output costs the read machine at most four      *)
(* cycles: the scan, the address, the wait and the answer.                 *)

Deadline == tx = "send" => /\ rd = "scan" => cycle <= 4 * scan
                           /\ rd = "prepare" => cycle <= 4 * scan - 3
                           /\ rd = "address" /\ ~answering => cycle <= 4 * scan - 2
                           /\ rd = "address" /\ answering => cycle <= 4 * scan - 1

NoFailure == tx # "error" /\ answer # Failure

LEMMA ReadInTime ==
  ASSUME IInv, Deadline, answer # Failure, tx = "send", Read, ReadPort, cycle' = cycle + 1
  PROVE  Deadline'
<1>1. cycle \in Nat /\ scan \in 0 .. OutputCount /\ OutputCount \in Nat
  BY CycleAssumption, SizeAssumption DEF IInv, TypeOK
<1>2. CASE ScanEnd
  BY <1>2 DEF ScanEnd, Deadline
<1>3. CASE ScanStep
  <2>1. cycle <= 4 * scan /\ scan' = scan + 1 /\ rd' \in {"scan", "prepare"}
    BY <1>1, <1>3 DEF ScanStep, Deadline
  <2>2. QED
    BY <1>1, <2>1 DEF Deadline
<1>4. CASE PrepareAddress
  <2>1. cycle <= 4 * scan - 3 /\ scan' = scan /\ rd' = "address"
    BY <1>4 DEF PrepareAddress, Deadline
  <2>2. ~answering'
    BY <1>4, PortStep DEF PrepareAddress, IInv
  <2>3. QED
    BY <1>1, <2>1, <2>2 DEF Deadline
<1>5. CASE ReceiveWord
  <2>1. cycle <= 4 * scan - 1 /\ scan' = scan /\ rd' = "scan"
    BY <1>5 DEF ReceiveWord, Deadline
  <2>2. QED
    BY <1>1, <2>1 DEF Deadline
<1>6. CASE ReadWaits /\ rd = "address"
  <2>1. ~answering /\ arvalid /\ rd' = "address" /\ scan' = scan
    BY <1>6 DEF ReadWaits, IInv, Port
  <2>2. answering' /\ cycle <= 4 * scan - 2
    BY <1>6, <2>1 DEF ReadPort, Deadline
  <2>3. QED
    BY <1>1, <2>1, <2>2 DEF Deadline
<1>7. CASE ReadWaits /\ rd = "idle"
  BY <1>7 DEF ReadWaits, Deadline
<1>8. QED
  BY <1>2, <1>3, <1>4, <1>5, <1>6, <1>7 DEF Read, ReadWaits

(* At the end of a pixel the read machine is done with the next one.       *)
LEMMA NotLate ==
  ASSUME InTime, IInv, Deadline
  PROVE  ~NextPixelLate
<1> SUFFICES ASSUME NextPixelLate PROVE FALSE
  OBVIOUS
<1>1. tx = "send" /\ cycle = PixelCycles - 1 /\ pixel # maxPixels - 1 /\ ~nextValid
  BY DEF NextPixelLate
<1>2. rd # "idle"
  BY <1>1 DEF IInv, Sending
<1>3. scan \in 0 .. OutputCount /\ rd \in {"scan", "prepare", "address"}
  BY <1>2 DEF IInv, TypeOK
<1>4. cycle <= 4 * scan
  BY <1>1, <1>2, <1>3, CycleAssumption, SizeAssumption DEF Deadline, IInv, TypeOK
<1>5. QED
  BY <1>1, <1>3, <1>4, CycleAssumption, SizeAssumption DEF InTime

LEMMA TimelyStep ==
  ASSUME InTime, ~ReadErrors, IInv, Deadline, NoFailure, [Next]_vars
  PROVE  Deadline' /\ NoFailure'
<1>1. CASE UNCHANGED vars
  BY <1>1 DEF Deadline, NoFailure
<1>2. CASE Next
  <2>1. ReadPort
    BY <1>2 DEF Next, Busy
  <2>2. answer' # Failure
    BY <2>1, BankWordsType, ValueAssumption DEF ReadPort, NoFailure, IInv, TypeOK
  <2>3. ASSUME StartScan(0) \/ StartScan(1) \/ StartScan(pixel + 2), cycle' = 0
        PROVE  Deadline'
    BY <2>3 DEF StartScan, Deadline
  <2>4. CASE Capture \/ Idle \/ ConfigScan \/ Validate \/ Recover
    BY <2>2, <2>4 DEF Capture, Idle, ConfigScan, Validate, Recover, Deadline, NoFailure
  <2>5. CASE LoadFirst
    <3>1. tx' # "error"
      BY <2>5 DEF LoadFirst
    <3>2. Deadline'
      <4>1. CASE tx' = "send"
        <5>1. rd = "idle" /\ cycle' = 0 /\ IF maxPixels > 1 THEN Prefetch(1) ELSE UNCHANGED rd
          BY <2>5, <4>1 DEF LoadFirst
        <5>2. QED
          BY <2>3, <5>1 DEF Prefetch, Deadline
      <4>2. CASE tx' # "send"
        BY <4>2 DEF Deadline
      <4>3. QED
        BY <4>1, <4>2
    <3>3. QED
      BY <2>2, <3>1, <3>2 DEF NoFailure
  <2>6. CASE SendCycle
    BY <2>1, <2>2, <2>6, ReadInTime DEF SendCycle, NoFailure
  <2>7. CASE LastPixel \/ LatchGap
    BY <2>2, <2>7 DEF LastPixel, LatchGap, Deadline, NoFailure
  <2>8. CASE NextPixel
    <3>1. tx' = "send" /\ cycle' = 0 /\ rd = "idle"
      BY <2>8 DEF NextPixel, IInv, Sending
    <3>2. Prefetch(pixel + 2) \/ UNCHANGED rd
      BY <2>8 DEF NextPixel
    <3>3. Deadline'
      BY <2>3, <3>1, <3>2 DEF Prefetch, Deadline
    <3>4. QED
      BY <2>2, <3>1, <3>3 DEF NoFailure
  <2>9. ~ReadFails /\ ~NextPixelLate
    BY NotLate DEF ReadFails, NoFailure
  <2>10. QED
    BY <1>2, <2>4, <2>5, <2>6, <2>7, <2>8, <2>9 DEF Next, Busy
<1>3. QED
  BY <1>1, <1>2

LEMMA Timely ==
  ASSUME InTime, ~ReadErrors
  PROVE  Spec => [](Deadline /\ NoFailure)
<1>1. Init => Deadline /\ NoFailure
  BY ValueAssumption DEF Init, Deadline, NoFailure
<1>2. IInv /\ (Deadline /\ NoFailure) /\ [Next]_vars => (Deadline /\ NoFailure)'
  BY TimelyStep
<1>3. QED
  BY <1>1, <1>2, Invariant, PTL DEF Spec

(* If a pixel lasts four cycles for every output and two more, no frame is *)
(* given up: 3000 cycles and 30 outputs in this hardware.                  *)
THEOREM NeverGivenUpHolds ==
  ASSUME InTime, ~ReadErrors
  PROVE  Spec => []NeverGivenUp
<1>1. NoFailure => NeverGivenUp
  BY DEF NoFailure, NeverGivenUp
<1>2. QED
  BY <1>1, Timely, PTL

----
(* The consumer implements the strands' view.                              *)

LEMMA StrandNames ==
  /\ Strands!AllQuiet = AllQuiet /\ Strands!Output = Output
  /\ \A p : Strands!PixelAt(bank, lengths, p) = PixelAt(p)
BY DEF Strands!AllQuiet, Strands!Output, Strands!PixelAt, Strands!Address, AllQuiet, Output,
       PixelAt, Address, BankWords

LEMMA StrandInit == Init => Strands!Init
BY StrandNames DEF Init, Strands!Init, Phase, Line, Output, Strands!Output

LEMMA StrandStep ==
  ASSUME InTime, IInv, IInv', Deadline, NoFailure, Next
  PROVE  Strands!Next \/ UNCHANGED Strands!vars
<1> USE DEF Strands!vars
<1>1. CASE Capture
  <2>1. Strands!Take
    BY <1>1 DEF Capture, Strands!Take, Phase, Line, AllQuiet
  <2>2. QED
    BY <2>1 DEF Strands!Next
<1>2. CASE Idle \/ ConfigScan
  BY <1>2 DEF Idle, ConfigScan, Phase, Line
<1>3. CASE Validate
  <2>1. tx = "validate" /\ UNCHANGED <<bank, lengths, pixel>>
    BY <1>3 DEF Validate
  <2>2. CASE tx' = "idle"
    BY <2>1, <2>2 DEF Strands!Next, Strands!Refuse, Phase, Line
  <2>3. CASE tx' = "load"
    BY <2>1, <2>3 DEF Phase, Line
  <2>4. CASE tx' = "reset" /\ maxPixels = 0
    <3>1. \A o \in Output : o < OutputCount
      BY SizeAssumption DEF Output
    <3>2. \A o \in Output : lengths[o] = 0
      BY <2>1, <2>4, <3>1, SizeAssumption DEF IInv, TypeOK, Scanned, ScannedTo
    <3>3. Strands!Finish
      BY <2>1, <2>4, <3>2, StrandNames DEF Strands!Finish, Phase, Line
    <3>4. QED
      BY <3>3 DEF Strands!Next
  <2>5. QED
    BY <1>3, <2>2, <2>3, <2>4 DEF Validate
<1>4. CASE LoadFirst
  <2>1. tx = "load" /\ UNCHANGED frameVars
    BY <1>4 DEF LoadFirst
  <2>2. CASE tx' = "load"
    <3>1. UNCHANGED pixel
      BY <1>4, <2>2 DEF LoadFirst
    <3>2. QED
      BY <2>1, <2>2, <3>1 DEF Phase, Line
  <2>3. CASE tx' = "send" /\ pixel' = 0
    <3>1. pixel = 0
      BY <2>1 DEF IInv, Waiting
    <3>2. \E o \in Output : 0 < lengths[o]
      BY <2>1 DEF IInv, Loading, Scanned, ScannedTo
    <3>3. Line' = PixelAt(0)
      BY <2>1, <2>3 DEF IInv, Sending, Line, PixelAt
    <3>4. Strands!Start
      BY <2>1, <2>3, <3>1, <3>2, <3>3, StrandNames DEF Strands!Start, Phase
    <3>5. QED
      BY <3>4 DEF Strands!Next
  <2>4. QED
    BY <1>4, <2>1, <2>2, <2>3 DEF LoadFirst
<1>5. CASE SendCycle
  <2>1. tx = "send" /\ tx' = "send" /\ UNCHANGED <<bank, lengths, pixel>>
    BY <1>5 DEF SendCycle
  <2>2. current' = current
    BY <2>1 DEF IInv, Sending, PixelAt
  <2>3. QED
    BY <2>1, <2>2 DEF Phase, Line
<1>6. CASE LastPixel
  <2>1. /\ tx = "send" /\ tx' = "reset" /\ pixel = maxPixels - 1
        /\ UNCHANGED <<bank, lengths, pixel>>
    BY <1>6 DEF LastPixel
  <2>2. \A o \in Output : o < OutputCount
    BY SizeAssumption DEF Output
  <2>3. \A o \in Output : lengths[o] <= pixel + 1
    BY <2>1, <2>2, SizeAssumption DEF IInv, TypeOK, Scanned, ScannedTo
  <2>4. Strands!Finish
    BY <2>1, <2>3, StrandNames DEF Strands!Finish, Phase, Line
  <2>5. QED
    BY <2>4 DEF Strands!Next
<1>7. CASE NextPixel
  <2>1. /\ tx = "send" /\ tx' = "send" /\ nextValid /\ pixel' = pixel + 1
        /\ current' = next /\ UNCHANGED <<bank, lengths>>
    BY <1>7 DEF NextPixel
  <2>2. next = PixelAt(pixel + 1) /\ pixel + 1 < maxPixels
    BY <2>1 DEF IInv, Sending
  <2>3. maxPixels # 0
    BY <2>2, SizeAssumption DEF IInv, TypeOK
  <2>4. \E o \in Output : pixel + 1 < lengths[o]
    BY <2>1, <2>2, <2>3 DEF IInv, Scanned, ScannedTo
  <2>5. Strands!Advance
    BY <2>1, <2>2, <2>4, StrandNames DEF Strands!Advance, Phase, Line
  <2>6. QED
    BY <2>5 DEF Strands!Next
<1>8. CASE LatchGap
  <2>1. tx = "reset" /\ tx' \in {"reset", "idle"} /\ UNCHANGED <<bank, lengths, pixel>>
    BY <1>8 DEF LatchGap
  <2>2. CASE tx' = "idle"
    BY <2>1, <2>2 DEF Strands!Next, Strands!Done, Phase, Line
  <2>3. CASE tx' = "reset"
    BY <2>1, <2>3 DEF Phase, Line
  <2>4. QED
    BY <2>1, <2>2, <2>3
<1>9. ~ReadFails /\ ~NextPixelLate /\ ~Recover
  BY NotLate DEF ReadFails, Recover, NoFailure
<1>10. QED
  BY <1>1, <1>2, <1>3, <1>4, <1>5, <1>6, <1>7, <1>8, <1>9 DEF Next, Busy

(* Every frame the consumer does not refuse is sent whole and in order on  *)
(* all strands at once, for any number of outputs and any lengths.         *)
THEOREM StrandRefinement ==
  ASSUME InTime, ~ReadErrors
  PROVE  Spec => StrandSpec
<1>1. IInv /\ IInv' /\ Deadline /\ NoFailure /\ [Next]_vars => [Strands!Next]_(Strands!vars)
  <2>1. UNCHANGED vars => UNCHANGED Strands!vars
    BY DEF Strands!vars, Phase, Line
  <2>2. QED
    BY <2>1, StrandStep
<1>2. QED
  BY <1>1, StrandInit, Invariant, Timely, PTL DEF Spec, StrandSpec, Strands!Spec
====
