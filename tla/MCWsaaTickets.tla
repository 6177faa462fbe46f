---------------------------- MODULE MCWsaaTickets ----------------------------
(* Small instances of WsaaTickets for TLC. *)
EXTENDS WsaaTickets, TLC

Symmetry == Permutations(Callers) \cup Permutations(Keys)
=============================================================================
