---------------------------- MODULE MCTicketGate ----------------------------
(* Instances of TicketGate for TLC.                                         *)
EXTENDS TicketGate, TLC

\* Tickets differ only by their expiry, which Init chooses freely.
GateSymmetry == Permutations(Gateway) \cup Permutations(Request) \cup Permutations(Ticket)
=============================================================================
