---- MODULE FramePipeline ----
(***************************************************************************)
(* From universes to words: where the slots of a data packet go.           *)
(* e131_parser.c turns the number of a universe into a first pixel, the    *)
(* linear map of frame_pipeline.c turns pixels into words of one of two    *)
(* staging buffers, e131_receiver.c counts the universes of a sweep, and   *)
(* pl_ingest_write_frame_strands copies the words of the lit pixels to the *)
(* free bank of frame memory, reads two of them back and commits.          *)
(*                                                                         *)
(* The program side is single threaded: a handler with all its calls is    *)
(* one step.  What the PL answers is a choice: no free bank, an error of   *)
(* the consumer before or during the call, or success; when and why is the *)
(* subject of FrameHandoff.  Which source is followed and when silence     *)
(* blacks the strands out is the subject of E131Receiver, from which only  *)
(* the life of a sweep is repeated here.                                   *)
(***************************************************************************)
EXTENDS Integers, FiniteSets

CONSTANTS OutputCount,       \* DONDER_OUTPUT_COUNT
          PixelsPerOutput,   \* DONDER_PIXELS_PER_OUTPUT
          SlotsPerUniverse,  \* DONDER_SLOTS_PER_UNIVERSE
          Configs,           \* active counts and strand lengths, as written to the registers
          Sender,            \* tells the pixels of different packets apart
          Black,             \* a word that is zero
          Junk,              \* a word the self test or an earlier run left in frame memory
          Reconfigures       \* whether frame_pipeline_configure is called

Output == 0 .. OutputCount - 1
Word == 0 .. OutputCount * PixelsPerOutput - 1
Bank == {0, 1}
Config == [active : 0 .. OutputCount, lengths : [Output -> 0 .. PixelsPerOutput]]

ASSUME SizeAssumption == OutputCount \in Nat \ {0} /\ PixelsPerOutput \in Nat \ {0}
ASSUME ConfigsAssumption == Configs # {} /\ Configs \subseteq [active : Nat, lengths : [Output -> Nat]]
(* Three slots are a pixel, and no pixel straddles two universes.          *)
ASSUME SlotsAssumption == SlotsPerUniverse \in Nat \ {0} /\ SlotsPerUniverse % 3 = 0
ASSUME ReconfiguresAssumption == Reconfigures \in BOOLEAN

(* Otherwise a word of a staging buffer or of frame memory holds the slots *)
(* of a pixel: by sender, universe and place in the universe.              *)
Pixel == [sender : Sender, universe : Nat, index : Nat]

ASSUME WordsAssumption == Black # Junk /\ {Black, Junk} \cap Pixel = {}

VARIABLES config,     \* g_active_output_count and g_strand_pixel_count
          staging,    \* g_frame_words
          writeBank,  \* g_write_bank
          synced,     \* g_status.sync_mode
          assembly,   \* g_received_bitmap, g_received_count, g_pending_synced_complete
          memory,     \* the two banks of frame memory
          active,     \* active_bank_reg
          error,      \* an error bit of STATUS is set
          result,     \* what the last frame_pipeline_commit returned
          shown,      \* history: the configuration of the frame in the active bank
          fresh       \* history: words staged since the sweep began

receiver == <<synced, assembly>>
pl == <<memory, active>>
vars == <<config, staging, writeBank, receiver, pl, error, result, shown, fresh>>

----
(* The configuration.                                                      *)

Clamp(value, limit) == IF value < limit THEN value ELSE limit

(* The part of a register setting that takes effect.                       *)
Effective(c) == [active  |-> Clamp(c.active, OutputCount),
                 lengths |-> [o \in Output |-> Clamp(c.lengths[o], PixelsPerOutput)]]

(* frame_pipeline_configure also forgets the lengths of inactive outputs.  *)
NewConfig(c) == [Effective(c) EXCEPT
                    !.lengths = [o \in Output |-> IF o < Effective(c).active THEN @[o] ELSE 0]]

Base(o) == o * PixelsPerOutput
OutputOf(w) == w \div PixelsPerOutput

(* The words of the lit pixels.                                            *)
Lit(c) == {w \in Word : /\ OutputOf(w) < c.active
                        /\ w - Base(OutputOf(w)) < c.lengths[OutputOf(w)]}

TotalPixels(c) == Cardinality(Lit(c))

(* Up to the end of the last strand with a lit pixel.                      *)
RequiredWords(c) ==
    IF Lit(c) = {} THEN 0
    ELSE 1 + CHOOSE w \in Lit(c) : \A v \in Lit(c) : v <= w

(* g_linear_pixel_word_index lists the lit words output by output, and so  *)
(* in ascending order: the place of a word in it.                          *)
LinearIndex(c, w) == Cardinality({v \in Lit(c) : v < w})

----
(* The universes.                                                          *)

TotalSlots(c) == 3 * TotalPixels(c)
Universes(c) == (TotalSlots(c) + SlotsPerUniverse - 1) \div SlotsPerUniverse
FirstSlot(u) == u * SlotsPerUniverse

(* expected_slots_for_offset: the last universe may be shorter.            *)
ExpectedSlots(c, u) == Clamp(TotalSlots(c) - FirstSlot(u), SlotsPerUniverse)

(* Defective variant: a short packet counts as its universe.               *)
BadAccepted(c, u, slots) == u < Universes(c) /\ slots % 3 = 0 /\ slots <= ExpectedSlots(c, u)

(* A data packet passes the parser (its universe begins within the frame,  *)
(* its slots are whole pixels) and has all slots the receiver expects.     *)
Accepted(c, u, slots) == /\ FirstSlot(u) < TotalSlots(c)
                         /\ slots % 3 = 0
                         /\ u < Universes(c) /\ slots = ExpectedSlots(c, u)

(* Defective variant: every universe starts one pixel early.               *)
BadFirstPixel(u) == IF u = 0 THEN 0 ELSE FirstSlot(u) \div 3 - 1

FirstPixel(u) == FirstSlot(u) \div 3

(* The words a packet overwrites.                                          *)
Covered(c, u, slots) ==
    {w \in Lit(c) : LinearIndex(c, w) - FirstPixel(u) \in 0 .. (slots \div 3) - 1}

EmptyAssembly == [received |-> {}, count |-> 0, pending |-> FALSE]
Complete(asm) == asm.count = Universes(config)

MarkUniverse(asm, u) ==
    [asm EXCEPT !.received = @ \cup {u},
                !.count = IF u \in asm.received THEN @ ELSE @ + 1]

----
(* frame_pipeline_commit.                                                  *)

(* Defective variant: only the words of the first strand are written.      *)
BadWritten(words) == [w \in Word |-> IF w \in Lit(config) /\ OutputOf(w) = 0
                                     THEN words[w] ELSE memory[1 - active][w]]

(* The free bank with the words of the lit pixels.                         *)
Written(words) == [w \in Word |-> IF w \in Lit(config) THEN words[w] ELSE memory[1 - active][w]]

(* The first and the last word are compared with the staging buffer; the   *)
(* first one even if no lit pixel wrote it.                                *)
ReadBackGood(words) ==
    RequiredWords(config) > 0 =>
        /\ Written(words)[0] = words[0]
        /\ Written(words)[RequiredWords(config) - 1] = words[RequiredWords(config) - 1]

(* Defective variant: the other staging buffer is used after any commit.   *)
BadSwap(r) == writeBank' = 1 - writeBank

(* The buffers are swapped when the commit succeeded.                      *)
Swap(r) == writeBank' = IF r = "ok" THEN 1 - writeBank ELSE writeBank

(* The current staging buffer, with the given words, is committed.         *)
Commit(words, r) ==
    /\ staging' = [staging EXCEPT ![writeBank] = words]
    /\ result' = r
    /\ Swap(r)
    /\ \/ /\ r = "busy" /\ ~error
          /\ UNCHANGED <<pl, error, shown>>
       \/ /\ r = "failed" /\ error
          /\ UNCHANGED <<pl, error, shown>>
       \/ /\ r = "failed" /\ ~error
          /\ ~ReadBackGood(words)
          /\ memory' = [memory EXCEPT ![1 - active] = Written(words)]
          /\ UNCHANGED <<active, error, shown>>
       \/ /\ ~error
          /\ ReadBackGood(words)
          /\ memory' = [memory EXCEPT ![1 - active] = Written(words)]
          /\ active' = 1 - active
          /\ shown' = config
          /\ error' = (r = "failed")     \* raised before the second snapshot
          /\ r \in {"ok", "failed"}

AllBlack == [w \in Word |-> Black]

----
(* main has run the self test on bank 1, cleared the staging buffers and   *)
(* committed a black frame from the first to bank 0.  It stops when that   *)
(* fails: with an empty first strand the word read back must be black by   *)
(* chance, see ReadBackGood.                                               *)
Init == /\ \E c \in Configs : config = Effective(c)
        /\ staging = [b \in Bank |-> AllBlack]
        /\ writeBank = 1
        /\ synced = FALSE /\ assembly = EmptyAssembly
        /\ \E left \in {Black, Junk} :
               /\ Lit(config) = {} \/ 0 \in Lit(config) \/ left = Black
               /\ memory = [b \in Bank |-> IF b = 1 THEN [w \in Word |-> Junk]
                                 ELSE [w \in Word |-> IF w \in Lit(config) THEN Black ELSE left]]
        /\ active = 0 /\ error = FALSE /\ result = "ok"
        /\ shown = config /\ fresh = {}

(* clear_assembly before the packet is looked at: another source takes the *)
(* lock, or the source changes its mode of synchronization.                *)
Kept(restart) == IF restart THEN EmptyAssembly ELSE assembly
FreshKept(restart) == IF restart THEN {} ELSE fresh

(* commit_current: the sweep ends unless the commit fails with an error.   *)
CommitCurrent(words, asm, staged) ==
    \E r \in {"ok", "busy", "failed"} :
        /\ Commit(words, r)
        /\ assembly' = IF r = "failed" THEN asm ELSE EmptyAssembly
        /\ fresh' = IF r = "failed" THEN staged ELSE {}

(* frame_pipeline_write_linear_rgb: the staging buffer after a packet.     *)
Staged(u, slots, s) ==
    [w \in Word |->
        IF w \in Covered(config, u, slots)
        THEN [sender |-> s, universe |-> u, index |-> LinearIndex(config, w) - FirstPixel(u)]
        ELSE staging[writeBank][w]]

(* e131_receiver_handle_packet with a data packet.                         *)
DataPacket(u, slots, s, sync, takeOver) ==
    LET restart == takeOver \/ sync # synced
        words == Staged(u, slots, s)
        asm == MarkUniverse(Kept(restart), u)
        staged == FreshKept(restart) \cup Covered(config, u, slots)
    IN  /\ Accepted(config, u, slots)
        /\ synced' = sync
        /\ \/ /\ Complete(asm) /\ ~sync
              /\ CommitCurrent(words, asm, staged)
           \/ /\ ~Complete(asm) \/ sync
              /\ staging' = [staging EXCEPT ![writeBank] = words]
              /\ assembly' = [asm EXCEPT !.pending = @ \/ Complete(asm)]
              /\ fresh' = staged
              /\ UNCHANGED <<writeBank, pl, error, result, shown>>
        /\ UNCHANGED config

(* A packet that takes the lock over and is then rejected.                 *)
RejectedTakeOver == /\ assembly' = EmptyAssembly
                    /\ fresh' = {}
                    /\ UNCHANGED <<config, staging, writeBank, synced, pl, error, result, shown>>

(* The sync packet of the locked source.                                   *)
SyncPacket == /\ synced /\ assembly.pending
              /\ CommitCurrent(staging[writeBank], assembly, fresh)
              /\ UNCHANGED <<config, synced>>

(* commit_black: the end of a stream, or silence.                          *)
BlackOut == /\ \E r \in {"ok", "busy", "failed"} : Commit(AllBlack, r)
            /\ assembly' = EmptyAssembly /\ synced' = FALSE
            /\ fresh' = {}
            /\ UNCHANGED config

(* Defective variant: outputs that become inactive are forgotten.          *)
BadNeedsBlack(new) ==
    \E o \in Output : o < config.active /\ o < new.active /\ new.lengths[o] < config.lengths[o]

(* A pixel or an active output is given up.                                *)
NeedsBlack(new) ==
    \E o \in Output : /\ o < config.active
                      /\ o >= new.active \/ new.lengths[o] < config.lengths[o]

(* frame_pipeline_configure: a black frame of the old shape first; without *)
(* it there is no change.  The sweep of the receiver goes on.              *)
Configure(c) ==
    LET new == NewConfig(c)
    IN  /\ Reconfigures
        /\ IF NeedsBlack(new)
           THEN \E r \in {"ok", "busy", "failed"} :
                    /\ Commit(AllBlack, r)
                    /\ config' = IF r = "ok" THEN new ELSE config
                    /\ fresh' = {}
           ELSE /\ config' = new
                /\ UNCHANGED <<staging, writeBank, pl, error, result, shown, fresh>>
        /\ UNCHANGED receiver

(* The consumer raises an error between two calls.                         *)
ConsumerError == /\ ~error
                 /\ error' = TRUE
                 /\ UNCHANGED <<config, staging, writeBank, receiver, pl, result, shown, fresh>>

Next == \/ \E u \in Word, slots \in 0 .. SlotsPerUniverse, s \in Sender,
              sync \in BOOLEAN, takeOver \in BOOLEAN : DataPacket(u, slots, s, sync, takeOver)
        \/ RejectedTakeOver \/ SyncPacket \/ BlackOut
        \/ \E c \in Configs : Configure(c)
        \/ ConsumerError

Spec == Init /\ [][Next]_vars

----
(* The type invariant of statics, buffers and banks.                       *)
TypeOK == /\ config \in Config /\ shown \in Config
          /\ staging \in [Bank -> [Word -> Pixel \cup {Black}]]
          /\ memory \in [Bank -> [Word -> Pixel \cup {Black, Junk}]]
          /\ writeBank \in Bank /\ active \in Bank
          /\ synced \in BOOLEAN /\ error \in BOOLEAN
          /\ assembly \in [received : SUBSET Word, count : Nat, pending : BOOLEAN]
          /\ result \in {"ok", "busy", "failed"}
          /\ fresh \subseteq Word

(* A sweep that counts as complete has overwritten every lit word of the   *)
(* staging buffer, which held a frame older than the one on the strands:   *)
(* universes, their slots and the linear map leave no gap.                 *)
SweepCovers == Complete(assembly) => Lit(config) \subseteq fresh

(* Pixels of the outputs before o.                                         *)
PixelsBefore(c, o) ==
    LET before[n \in 0 .. OutputCount] ==
            IF n = 0 THEN 0
            ELSE before[n - 1] + (IF n - 1 < c.active THEN c.lengths[n - 1] ELSE 0)
    IN  before[o]

(* docs/wiring.md: the first configured pixels drive output 0, the next    *)
(* drive output 1, and so on.  A frame in the active bank is black, or     *)
(* each lit pixel has the slots whose place in the source's stream, over   *)
(* all its universes, is the place of the pixel.                           *)
PixelsInPlace ==
    \/ \A w \in Lit(shown) : memory[active][w] = Black
    \/ \A w \in Lit(shown) :
           LET word == memory[active][w]
               o == OutputOf(w)
           IN  /\ word \notin {Black, Junk}
               /\ word.universe * SlotsPerUniverse + 3 * word.index
                    = 3 * (PixelsBefore(shown, o) + w - Base(o))

(* The staging buffer that is not being filled is the frame on the strands:*)
(* the processor's two buffers and the PL's two banks are swapped together,*)
(* whatever fails, until an error stops all frames.                        *)
BuffersFollowBanks ==
    ~error => /\ active = 1 - writeBank
              /\ \A w \in Lit(shown) : memory[active][w] = staging[1 - writeBank][w]

(* README.md: strands are sized at run time.  A commit fails only when the *)
(* PL reports an error.                                                    *)
FailsOnlyOnError == result = "failed" => error

(* A pixel given up by a new configuration is black in the frame that is   *)
(* committed when the lengths change.                                      *)
GivenUpDark ==
    [][\A w \in Lit(config) \ Lit(config') : memory'[active'][w] = Black]_vars
====
