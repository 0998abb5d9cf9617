------------------------------- MODULE MCRelay -------------------------------
(* A small instance of Relay for TLC: a desktop that captures and faults once, a
   desktop that only pulls, and a phone that captures twice. *)
EXTENDS Relay

MCDesktops == {1, 2}
MCPhones == {3}
MCCids == {1}
MCCaptures == [d \in {1, 2, 3} |-> CASE d = 1 -> 1 [] d = 2 -> 0 [] d = 3 -> 2]
MCOneFault == [d \in {1, 2} |-> IF d = 1 THEN 1 ELSE 0]
=============================================================================
