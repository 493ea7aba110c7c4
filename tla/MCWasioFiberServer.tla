------------------------- MODULE MCWasioFiberServer -------------------------
(* Bounds for WasioFiberServer: as many connections as the array has room for. *)
EXTENDS WasioFiberServer

MCConnFds == 5 .. 6
=============================================================================
