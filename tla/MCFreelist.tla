----------------------------- MODULE MCFreelist -----------------------------
(* Bounds for Freelist: words of two bits, at most three words. *)
EXTENDS Freelist

MCSizes == 0 .. 6
MCEntries == 0 .. 6
=============================================================================
