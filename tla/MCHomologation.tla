--------------------------- MODULE MCHomologation ---------------------------
(* Small instances of Homologation for TLC. *)
EXTENDS Homologation, TLC

\* Certificates, companies, keys and runs are interchangeable.
MCSymmetry == Permutations(Certs) \cup Permutations(Companies)
              \cup Permutations(Keys) \cup Permutations(Runs)
=============================================================================
