---- MODULE MCFrameHandoff ----
(* Two outputs of up to two pixels.  The configurations differ in the      *)
(* pixels of the first strand only, or give up a strand.                   *)
EXTENDS FrameHandoff

OneOne == <<1, 1>>
TwoOne == <<2, 1>>
OneNone == <<1, 0>>

JustOneOne == {OneOne}
AllConfigs == {OneOne, TwoOne, OneNone}
====
