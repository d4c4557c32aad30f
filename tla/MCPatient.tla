------------------------------ MODULE MCPatient ------------------------------
(***************************************************************************)
(* The instance of MCReconciler whose user is as careful as the theorems   *)
(* ask: TLC evaluates their hypotheses, and explores what follows.         *)
(***************************************************************************)
EXTENDS MCReconciler

ASSUME PatientUser == Careful /\ Announcing
=============================================================================
