---------------------------- MODULE MCHttpServer ----------------------------
(* Bounds for HttpServer: one host descriptor more than the table holds. *)
EXTENDS HttpServer

MCHostFds == 5 .. 9
=============================================================================
