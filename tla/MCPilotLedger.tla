--------------------------- MODULE MCPilotLedger ---------------------------
(* A pilot ledger: request caps and a global liability cap, no route caps. *)
EXTENDS AdmissionLedger, TLC

CONSTANTS p1, p2, r1, r2, t1

MCRouteLiability == << >>
MCSymmetry == Permutations(Procs) \cup Permutations(Routes)
=============================================================================
