---- MODULE MCSenderToBoard ----
(***************************************************************************)
(* The sender alone with command lines of every kind, its packets carried  *)
(* off in any order while time passes; and sender, network and board       *)
(* together with a few command lines that do not pace, so that time need   *)
(* not pass there.                                                         *)
(***************************************************************************)
EXTENDS SenderToBoard

Line(o, u, n, d, r, s, a, v, t) ==
    [outputs |-> o, pixels_per_output |-> 1, universe_count |-> u, packet_count |-> n,
     duration |-> d, delay |-> r, send_sync |-> s, sync_address |-> a,
     preview |-> v, stream_terminate |-> t]

(* Exactly two universes and two and a half; a universe count that is      *)
(* derived, too small and too large; runs that end by count, by time and   *)
(* only by an interrupt.                                                   *)
Alone == { Line(o, u, n, d, r, s, 0, FALSE, FALSE) :
             o \in {4, 5}, u \in {0, 1, 4}, n \in {0, 2}, d \in {0, 3},
             r \in {0, 2}, s \in BOOLEAN }

(* Two universes, with and without sync packets, and a synchronization     *)
(* address without sync packets; preview and terminated streams.           *)
Together == { Line(3, 0, 3, 0, 0, FALSE, a, FALSE, FALSE) : a \in {0, 9} }
               \cup { Line(3, 0, 3, 0, 0, TRUE, 9, FALSE, FALSE) }
               \cup { Line(3, 0, 1, 0, 0, FALSE, 0, v, ~v) : v \in BOOLEAN }

MCArgs == Alone \cup Together

(* Nobody listens to the sender alone: its packets are lost.               *)
MCNext == \/ args \in Alone /\ (Main \/ Interrupt \/ Tick) /\ UNCHANGED <<boardVars, hurt, faults>>
          \/ args \in Alone /\ Carry /\ Happens("lost") /\ UNCHANGED <<boardVars, hurt>>
          \/ args \in Together /\ SystemNext /\ UNCHANGED now

MCFairness == /\ WF_allVars(Main /\ UNCHANGED <<boardVars, hurt, faults>>)
              /\ WF_allVars(args \in Alone /\ Tick /\ UNCHANGED <<boardVars, hurt, faults>>)

MCSpec == SystemInit /\ [][MCNext]_allVars /\ MCFairness

----
(* The schedule is kept without drift and never early, and runs with an    *)
(* end end.                                                                *)
Punctual == []KeepsSchedule /\ NeverEarly /\ Finishes
====
