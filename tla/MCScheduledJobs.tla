--------------------------- MODULE MCScheduledJobs ---------------------------
(* Small instances of ScheduledJobs for TLC. *)
EXTENDS ScheduledJobs, TLC

CONSTANTS m1, m2, m3, s1, s2

\* Two consecutive invoices of one sequence, and a younger one of another.
MCSeqOf    == [m \in Moves |-> IF m = m3 THEN s2 ELSE s1]
MCNumberOf == [m \in Moves |-> IF m = m2 THEN 2 ELSE 1]
MCRankOf   == [m \in Moves |-> IF m = m1 THEN 1 ELSE IF m = m2 THEN 2 ELSE 3]
=============================================================================
