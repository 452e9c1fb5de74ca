-------------------------- MODULE MCManufacturing --------------------------
(***************************************************************************)
(* The instance of Manufacturing for TLC: the first device asks for the    *)
(* manufacturer's key as it is, the others for a chain that there is not.  *)
(***************************************************************************)
EXTENDS Manufacturing

CONSTANT First

Keys == [d \in Device |-> [type |-> "ec", enc |-> IF d = First THEN "x509" ELSE "x5chain"]]
=============================================================================
