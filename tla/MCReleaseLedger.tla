-------------------------- MODULE MCReleaseLedger --------------------------
(* A release ledger: a liability cap for all routes and one for its route.  *)
EXTENDS AdmissionLedger, TLC

CONSTANTS p1, p2, r1, r2, t1

MCRouteLiability == r1 :> 2
MCSymmetry == Permutations(Procs)
=============================================================================
