---------------------------- MODULE MCWasioHost ----------------------------
(* Bounds for WasioHost; the host descriptors are interchangeable. *)
EXTENDS WasioHost, TLC

\* Bound: only the first two virtual descriptors, of one word, are armed.
FewArmed == \A v \in Vfds : v > 1 => wants[v] = {}

HostFdSymmetry == Permutations(HostFds)
=============================================================================
