--------------------------- MODULE MC_BillingLedger ---------------------------
(***************************************************************************)
(* Instances of BillingLedger for TLC.                                     *)
(***************************************************************************)
EXTENDS BillingLedger, TLC

\* One account of each level.
MCAccounts == {"enterprise", "department", "employee"}

MCLevel == [a \in MCAccounts |-> CASE a = "enterprise" -> 1 [] a = "department" -> 2 [] a = "employee" -> 3]

Symmetry == Permutations(Workers)
=============================================================================
