---------------------------- MODULE MCFiberServer ----------------------------
(* Bounds for FiberServer: two descriptors for connections. *)
EXTENDS FiberServer

MCConnFds2 == 5 .. 6
=============================================================================
