---------------------------- MODULE RequestBudget ----------------------------
(***************************************************************************)
(* What the ledger is for, without files, locks or lines: a budget of      *)
(* requests that is reserved before it is spent.  internal/admission's     *)
(* package comment: "An admission reserves its requests before any is sent *)
(* and counts at the reservation until settled".                           *)
(***************************************************************************)
EXTENDS Integers

CONSTANT Cap          \* the request cap

VARIABLES charged,    \* requests sent or reserved, as the ledger counts
          spent       \* requests really sent

budgetVars == <<charged, spent>>

Init == charged = 0 /\ spent = 0

\* An admission, or a power loss that takes an unsynced settlement back.
Reserve == charged' \in (charged + 1)..Cap /\ UNCHANGED spent

Spend == spent < charged /\ spent' = spent + 1 /\ UNCHANGED charged

\* A settlement below the reservation, or a power loss that takes an unsynced
\* admission back; never below what was sent.
Release == charged' \in spent..(charged - 1) /\ UNCHANGED spent

Next == Reserve \/ Spend \/ Release

Spec == Init /\ [][Next]_budgetVars
=============================================================================
