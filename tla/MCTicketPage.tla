---------------------------- MODULE MCTicketPage ----------------------------
(* Two tickets, and two notifications, one of each ticket.                   *)
EXTENDS TicketPage, TLC

CONSTANTS A, B, ana, bob, s1, s2

OnePerTicket == [n \in Notes |-> IF n = 1 THEN A ELSE B]
TwoNotes == 1..2
SlotSymmetry == Permutations({s1, s2})
=============================================================================
