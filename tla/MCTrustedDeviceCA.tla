------------------------- MODULE MCTrustedDeviceCA -------------------------
(***************************************************************************)
(* Instances of TrustedDeviceCA for TLC.                                   *)
(***************************************************************************)
EXTENDS TrustedDeviceCA, TLC

\* Handlers and certificates are interchangeable in the safety runs.
Symmetry == Permutations(Handler) \cup Permutations(Cert)
=============================================================================
