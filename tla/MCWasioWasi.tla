---------------------------- MODULE MCWasioWasi ----------------------------
(* Bounds for WasioWasi: two preopened sockets, two words of entries. *)
EXTENDS WasioWasi

MCHostFds == 3 .. 7
MCPreopened == 3 .. 4
=============================================================================
