------------------------- MODULE MCRendezvousServer -------------------------
(***************************************************************************)
(* The instance of RendezvousServer for TLC: every device has the same CA. *)
(***************************************************************************)
EXTENDS RendezvousServer

CONSTANT TheCert

OneIssuer == [g \in Guid |-> TheCert]
=============================================================================
