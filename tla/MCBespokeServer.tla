--------------------------- MODULE MCBespokeServer ---------------------------
(* Bounds for BespokeServer: two descriptors for connections. *)
EXTENDS BespokeServer

MCConnFds2 == 5 .. 6
=============================================================================
