---------------------------- MODULE MCRendezvous ----------------------------
(***************************************************************************)
(* Instances of Rendezvous for TLC.                                        *)
(***************************************************************************)
EXTENDS Rendezvous, TLC

\* Workers and session identifiers are interchangeable in the safety
\* runs.
Symmetry == Permutations(Worker) \cup Permutations(SID)
=============================================================================
