---- MODULE MCE131Receiver ----
(* Two senders of two priorities, two synchronization addresses and none,  *)
(* frames of two universes, and a clock that wraps every few polls.        *)
EXTENDS E131Receiver
====
