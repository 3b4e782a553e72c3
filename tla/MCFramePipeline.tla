---- MODULE MCFramePipeline ----
EXTENDS FramePipeline

(* A setting of the registers for up to three outputs.                     *)
Setting(n, a, b, c) == [active |-> n, lengths |-> [o \in Output |-> <<a, b, c>>[o + 1]]]

(* Lengths beyond the maximum, an active count beyond it, an empty strand  *)
(* before lit ones, and none at all.                                       *)
AnyShape == {Setting(3, 2, 1, 2), Setting(2, 3, 2, 2), Setting(4, 2, 2, 0),
             Setting(3, 1, 0, 1), Setting(3, 0, 2, 1), Setting(0, 1, 1, 1)}

(* Shapes of two outputs whose first strand is lit.  From each to each: an *)
(* output is given up, a strand is shortened, or nothing is given up.      *)
FirstLit == {Setting(2, 1, 1, 0), Setting(1, 1, 1, 0), Setting(2, 1, 0, 0)}

(* A shape whose first strand is empty, and one where it is lit.           *)
FirstEmpty == {Setting(2, 1, 1, 0), Setting(2, 0, 2, 0)}
====
