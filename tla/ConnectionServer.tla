-------------------------- MODULE ConnectionServer --------------------------
(***************************************************************************)
(* What the HTTP and echo servers of src/examples do with connections,      *)
(* seen from outside: a connection is accepted into a free place, watched   *)
(* and closed.  A server that MayForget may also stop watching one that it  *)
(* keeps open; it can never get it back, nor reuse its descriptor.  One     *)
(* that may not stops only when it watches nothing any more.                *)
(***************************************************************************)
EXTENDS Integers, FiniteSets

CONSTANTS Conns,      \* the descriptors of connections
          Places,     \* how many connections fit beside the listener
          MayForget

VARIABLES watched,    \* the open connections the server polls
          lost,       \* the open connections it does not
          ending,     \* it accepts nothing any more
          stopped

vars == <<watched, lost, ending, stopped>>

Init == watched = {} /\ lost = {} /\ ending = FALSE /\ stopped = FALSE

Accept(c) == /\ ~ending /\ ending' = FALSE
             /\ c \notin watched \union lost
             /\ Cardinality(watched) < Places
             /\ watched' = watched \union {c}
             /\ UNCHANGED <<lost, stopped>>

\* One connection at a time, and the server may take it as a sign to end.
Close(c) == /\ c \in watched /\ watched' = watched \ {c}
            /\ ending => ending'
            /\ UNCHANGED <<lost, stopped>>

Forget(S) == /\ MayForget /\ S # {} /\ S \subseteq watched
             /\ watched' = watched \ S /\ lost' = lost \union S
             /\ UNCHANGED <<ending, stopped>>

Finish == ~ending /\ ending' = TRUE /\ UNCHANGED <<watched, lost, stopped>>

Stop == /\ ending /\ ~stopped /\ stopped' = TRUE
        /\ MayForget \/ watched \union lost = {}
        /\ UNCHANGED <<watched, lost, ending>>

Next == \/ \E c \in Conns : Accept(c) \/ Close(c)
        \/ \E S \in SUBSET Conns : Forget(S)
        \/ Finish \/ Stop

Spec == Init /\ [][Next]_vars
=============================================================================
