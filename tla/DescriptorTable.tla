-------------------------- MODULE DescriptorTable --------------------------
(***************************************************************************)
(* What a table of virtual descriptors promises: a host descriptor gets the *)
(* least virtual one that is free, the binding lasts until it is released,   *)
(* and then the host descriptor is closed.  Only a full table lets a host    *)
(* descriptor go unbound.                                                   *)
(***************************************************************************)
EXTENDS Integers

CONSTANTS Vfds, HostFds

VARIABLES up,      \* whether there is a table
          bound,   \* the host descriptor of each virtual one in use
          open     \* the host descriptors that are open

vars == <<up, bound, open>>

Empty == [v \in {} |-> 0]

Init == up = FALSE /\ bound = Empty /\ open = {}

Start == ~up /\ up' = TRUE /\ bound' = Empty /\ UNCHANGED open
Stop  == up /\ up' = FALSE /\ bound' = Empty /\ UNCHANGED open

\* The host opens h.
Bind(h) ==
  /\ up /\ h \notin open
  /\ open' = open \union {h}
  /\ \E v \in Vfds \ DOMAIN bound :
       /\ \A u \in Vfds \ DOMAIN bound : v <= u
       /\ bound' = [u \in DOMAIN bound \union {v} |-> IF u = v THEN h ELSE bound[u]]
  /\ UNCHANGED up

Lose(h) ==
  /\ up /\ h \notin open /\ DOMAIN bound = Vfds
  /\ open' = open \union {h}
  /\ UNCHANGED <<up, bound>>

Release(v) ==
  /\ up /\ open' = open \ {bound[v]}
  /\ bound' = [u \in DOMAIN bound \ {v} |-> bound[u]]
  /\ UNCHANGED up

Next == \/ Start \/ Stop
        \/ \E h \in HostFds : Bind(h) \/ Lose(h)
        \/ \E v \in DOMAIN bound : Release(v)

Spec == Init /\ [][Next]_vars
=============================================================================
