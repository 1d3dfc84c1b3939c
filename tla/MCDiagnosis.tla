---------------------------- MODULE MCDiagnosis ----------------------------
(***************************************************************************)
(* Values of the constants of Diagnosis for TLC.                           *)
(***************************************************************************)
EXTENDS Diagnosis, TLC

\* Web processes are interchangeable.
ProcSymmetry == Permutations(Procs)
=============================================================================
