---------------------------- MODULE MCEchoServer ----------------------------
(* Bounds for EchoServer: one host descriptor more than the table holds. *)
EXTENDS EchoServer

MCHostFds == 5 .. 9
=============================================================================
