---- MODULE StrandFrame ----
(***************************************************************************)
(* What ws281x_frame_consumer.sv promises the strands: a frame that was    *)
(* taken is refused, or sent pixel by pixel on all strands at once, each   *)
(* strand quiet after its own last pixel, and ended by the latch gap.      *)
(* Words of frame memory are named by their addresses.                     *)
(***************************************************************************)
EXTENDS Integers

CONSTANTS OutputCount,       \* OUTPUT_COUNT
          PixelsPerOutput,   \* PIXELS_PER_OUTPUT
          Configs,           \* strand lengths a frame may be captured with
          Quiet              \* no pixel on a strand

VARIABLES phase,     \* "idle", "taken", "sending" or "latching"
          bank,      \* bank of the frame
          lengths,   \* its strand lengths
          position,  \* the pixel on the strands
          line       \* the word each strand is sending, or Quiet

vars == <<phase, bank, lengths, position, line>>

Output == 0 .. OutputCount - 1

(* Frame memory is output-major, one bank after the other.                 *)
Address(b, o, p) == b * (OutputCount * PixelsPerOutput) + o * PixelsPerOutput + p

(* What the strands of a frame send at one position.                       *)
PixelAt(b, l, p) == [o \in Output |-> IF p < l[o] THEN Address(b, o, p) ELSE Quiet]
AllQuiet == [o \in Output |-> Quiet]

Init == /\ phase = "idle" /\ bank = 0
        /\ lengths = [o \in Output |-> 0]
        /\ position = 0 /\ line = AllQuiet

Take == /\ phase = "idle" /\ phase' = "taken"
        /\ bank' \in {0, 1} /\ lengths' \in Configs
        /\ position' = 0
        /\ UNCHANGED line

Refuse == /\ phase = "taken" /\ phase' = "idle"
          /\ UNCHANGED <<bank, lengths, position, line>>

Start == /\ phase = "taken"
         /\ \E o \in Output : 0 < lengths[o]
         /\ phase' = "sending"
         /\ line' = PixelAt(bank, lengths, 0)
         /\ UNCHANGED <<bank, lengths, position>>

Advance == /\ phase = "sending"
           /\ \E o \in Output : position + 1 < lengths[o]
           /\ position' = position + 1
           /\ line' = PixelAt(bank, lengths, position + 1)
           /\ UNCHANGED <<phase, bank, lengths>>

(* No strand has another pixel: a frame is never cut short.                *)
Finish == /\ \/ phase = "sending" /\ \A o \in Output : lengths[o] <= position + 1
             \/ phase = "taken" /\ \A o \in Output : lengths[o] = 0
          /\ phase' = "latching"
          /\ line' = AllQuiet
          /\ UNCHANGED <<bank, lengths, position>>

Done == /\ phase = "latching" /\ phase' = "idle"
        /\ UNCHANGED <<bank, lengths, position, line>>

Next == Take \/ Refuse \/ Start \/ Advance \/ Finish \/ Done

Spec == Init /\ [][Next]_vars
====
