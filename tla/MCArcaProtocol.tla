--------------------------- MODULE MCArcaProtocol ---------------------------
(* Small instances of ArcaProtocol for TLC. *)
EXTENDS ArcaProtocol, TLC

CONSTANTS m1, m2, s1, c1

\* Consecutive invoices of one sequence of one company.
MCSeqOf     == [m \in Moves |-> s1]
MCNumberOf  == [m \in Moves |-> IF m = m1 THEN 1 ELSE 2]
MCCompanyOf == [m \in Moves |-> c1]

Symmetry == Permutations(Workers) \cup Permutations(Attempts)
=============================================================================
