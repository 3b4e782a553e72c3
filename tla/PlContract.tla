----------------------------- MODULE PlContract -----------------------------
(***************************************************************************)
(* What hw/regs/generate_regs.py makes of an elaborated register           *)
(* description: read_config_and_regs derives sizes and widths from the     *)
(* parameters, requires that they fit the apertures and the registers, and *)
(* refuses the description otherwise.  The derived numbers are those the   *)
(* RTL sizes its counters, addresses and masks with.                       *)
(*                                                                         *)
(* A description is known by the parameters and registers the requirements *)
(* or the derived numbers depend on; the other parameters are copied.      *)
(***************************************************************************)
EXTENDS Integers

CONSTANTS
    Outputs, Pixels, Banks,   \* values of P_OUTPUT_COUNT, P_PIXELS_PER_OUTPUT, P_FRAME_BANKS
    ControlRanges,            \* values of P_CONTROL_RANGE_BYTES
    RamEntries, RamWidths,    \* mementries and memwidth of frame_ram
    Rooms,                    \* registers between STRAND_PIXEL_COUNT and CONFIG_STATUS
    Strides,                  \* of STRAND_PIXEL_COUNT
    MaxWidth                  \* bound on the widths, above those of all these values

\* The required registers the numbers depend on, and one that stands for all
\* the others.
RequiredRegs == {"STRAND_PIXEL_COUNT", "STRAND_LENGTH_CLAMPED", "OUTPUT_INVERT_MASK", "OTHER_REGISTER"}

VARIABLES
    rdl,      \* the elaborated description
    step,     \* the next part of read_config_and_regs, or its outcome
    config    \* the numbers derived so far

vars == <<rdl, step, config>>

\* Where the registers end: STRAND_PIXEL_COUNT starts at 0x84, CONFIG_STATUS
\* follows the room left for it, then the two arrays of mask words.
StrandBase == 132
ControlSize(d) == StrandBase + (4 * (d.room + 1 + d.clampWords + d.invertWords))

\* The compiler itself refuses registers that overlap.
Elaborates(d) == d.strands > 0 /\ d.stride * (d.strands - 1) + 4 <= 4 * d.room

\* The bytes of the memory: its entries, each of the next power of two of bits.
RamSize(d) == d.entries * (d.memwidth \div 8)

Descriptions ==
    {d \in [outputs : Outputs, pixels : Pixels, banks : Banks, range : ControlRanges,
            entries : RamEntries, memwidth : RamWidths, room : Rooms, stride : Strides,
            strands : Outputs, clampWords : 1..2, invertWords : 1..2,
            without : {"nothing", "OUTPUT_COUNT", "OTHER_PARAMETER", "OUTPUT_INVERT_MASK", "OTHER_REGISTER"}] :
        /\ d.strands \in {d.outputs, d.outputs - 1}
        /\ Elaborates(d)}

Init == rdl \in Descriptions /\ step = "parameters" /\ config = <<>>

\* The loop of ceil_log2 ends at the first power that is no less than value.
CeilLog2(value) ==
    CHOOSE w \in 0..MaxWidth : value <= 2^w /\ \A v \in 0..MaxWidth : v < w => 2^v < value

\* Go on with the next part when the requirement holds.
Require(condition, next) == step' = IF condition THEN next ELSE "refused"

\* The values of the parameters.
Given == [OUTPUT_COUNT |-> rdl.outputs, PIXELS_PER_OUTPUT |-> rdl.pixels, FRAME_BANKS |-> rdl.banks,
          CONTROL_RANGE_BYTES |-> rdl.range, OTHER_PARAMETER |-> 0]

ReadParameters ==
    /\ step = "parameters" /\ Require(rdl.without \notin DOMAIN Given, "derive")
    /\ config' = Given
    /\ UNCHANGED rdl

MaskWords(outputs) == (outputs + 31) \div 32

\* The numbers computed from the parameters.
Derived(c) ==
    LET bank == c["OUTPUT_COUNT"] * c["PIXELS_PER_OUTPUT"] IN
    [FRAME_WORDS_PER_BANK |-> bank,
     FRAME_BYTES |-> c["FRAME_BANKS"] * bank * 4,
     FRAME_RAM_RANGE_BYTES |-> RamSize(rdl),
     CONTROL_ADDR_WIDTH |-> CeilLog2(c["CONTROL_RANGE_BYTES"]),
     FRAME_ADDR_WIDTH |-> CeilLog2(RamSize(rdl)),
     MASK_WORD_COUNT |-> MaskWords(c["OUTPUT_COUNT"]),
     OUTPUT_INDEX_WIDTH |-> CeilLog2(c["OUTPUT_COUNT"]),
     ACTIVE_OUTPUT_WIDTH |-> CeilLog2(c["OUTPUT_COUNT"] + 1),
     PIXEL_COUNT_WIDTH |-> CeilLog2(c["PIXELS_PER_OUTPUT"] + 1)]

Derive ==
    /\ step = "derive" /\ step' = "apertures"
    /\ LET D == Derived(config) IN
       config' = [n \in DOMAIN config \cup DOMAIN D |-> IF n \in DOMAIN D THEN D[n] ELSE config[n]]
    /\ UNCHANGED rdl

\* Mutant: the memory must hold one bank instead of all of them.
RequireAperturesOneBank ==
    /\ step = "apertures"
    /\ Require(/\ ControlSize(rdl) <= config["CONTROL_RANGE_BYTES"]
               /\ config["FRAME_RAM_RANGE_BYTES"] >= 4 * config["FRAME_WORDS_PER_BANK"]
               /\ rdl.memwidth = 32, "registers")
    /\ UNCHANGED <<rdl, config>>

RequireApertures ==
    /\ step = "apertures"
    /\ Require(/\ config["CONTROL_RANGE_BYTES"] > 0
               /\ ControlSize(rdl) <= config["CONTROL_RANGE_BYTES"]
               /\ config["FRAME_RAM_RANGE_BYTES"] >= config["FRAME_BYTES"]
               /\ rdl.memwidth = 32
               /\ rdl.entries * 4 = config["FRAME_RAM_RANGE_BYTES"], "registers")
    /\ UNCHANGED <<rdl, config>>

RequireRegs ==
    /\ step = "registers"
    /\ Require(/\ rdl.without \notin RequiredRegs
               /\ rdl.strands = config["OUTPUT_COUNT"] /\ rdl.stride = 4
               /\ rdl.invertWords = config["MASK_WORD_COUNT"]
               /\ rdl.clampWords = config["MASK_WORD_COUNT"], "accepted")
    /\ UNCHANGED <<rdl, config>>

Next == ReadParameters \/ Derive \/ RequireApertures \/ RequireRegs
Spec == Init /\ [][Next]_vars

-----------------------------------------------------------------------------
(* Properties.                                                            *)

Accepted == step = "accepted"

\* The state's shape; an accepted contract lacks no parameter or register.
TypeOK ==
    /\ rdl \in Descriptions
    /\ step \in {"parameters", "derive", "apertures", "registers", "accepted", "refused"}
    /\ Accepted => rdl.without = "nothing" /\ DOMAIN Given \subseteq DOMAIN config

\* The consumer reads word base + w of the bank in use, with the base 0 or
\* FRAME_WORDS_PER_BANK (hw/rtl/ws281x_frame_consumer.sv:185), and drives
\* FRAME_ADDR_WIDTH bits of its byte address (:276).  With a contract of two
\* banks or more, no address is cut short or outside the memory.
BanksAddressable ==
    Accepted /\ config["FRAME_BANKS"] >= 2 =>
        \A bank \in 0..1 :
            LET W == config["FRAME_WORDS_PER_BANK"]
                last == 4 * ((bank * W) + W - 1)
            IN  W > 0 => last < 4 * rdl.entries /\ last < 2^config["FRAME_ADDR_WIDTH"]

\* A count of outputs or pixels up to the synthesized one, and the index of an
\* output, fit the widths of the RTL's counters, and no width is too large.
WidthsExact ==
    LET Fits(n, w) == n <= 2^w /\ (w > 0 => n > 2^(w - 1))
    IN  Accepted =>
            /\ Fits(config["OUTPUT_COUNT"] + 1, config["ACTIVE_OUTPUT_WIDTH"])
            /\ Fits(config["PIXELS_PER_OUTPUT"] + 1, config["PIXEL_COUNT_WIDTH"])
            /\ Fits(config["OUTPUT_COUNT"], config["OUTPUT_INDEX_WIDTH"])

\* Every output of an accepted contract has its length register inside the
\* control aperture, before CONFIG_STATUS, and a bit in words of both mask
\* arrays that lie inside the aperture too.
EveryOutputHasItsRegisters ==
    Accepted =>
        \A output \in 0..(config["OUTPUT_COUNT"] - 1) :
            /\ output < rdl.strands
            /\ StrandBase + (4 * output) < StrandBase + (4 * rdl.room)
            /\ output \div 32 < rdl.clampWords /\ output \div 32 < rdl.invertWords
            /\ ControlSize(rdl) <= 2^config["CONTROL_ADDR_WIDTH"]
=============================================================================
