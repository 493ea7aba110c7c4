---------------------------- MODULE SocketTable ----------------------------
(***************************************************************************)
(* What the table of wasio_wasi.c promises, which is less than what a        *)
(* DescriptorTable does: an entry may be taken for nothing, may have two     *)
(* sockets and may lose one that stays open.  What is kept of a table of     *)
(* descriptors is that the least free entry is taken, for a socket no other  *)
(* entry has, and that only a release frees it and closes a socket, of its   *)
(* own.                                                                    *)
(***************************************************************************)
EXTENDS Integers

CONSTANTS Vfds, HostFds,
          Preopened      \* the sockets that are open from the start

VARIABLES up,      \* whether there is a table
          behind,  \* the sockets of each entry in use
          open     \* the host descriptors that are open

vars == <<up, behind, open>>

Empty == [v \in {} |-> {}]
Used == DOMAIN behind
HasEntry(h) == \E v \in Used : h \in behind[v]

Init == up = FALSE /\ behind = Empty /\ open = Preopened

Start == ~up /\ up' = TRUE /\ behind' = Empty /\ UNCHANGED open
Stop  == up /\ up' = FALSE /\ behind' = Empty /\ UNCHANGED open

\* The least free entry is taken for the sockets in S.
Take(S) ==
  /\ up /\ UNCHANGED up
  /\ \E v \in Vfds \ Used :
       /\ \A u \in Vfds \ Used : v <= u
       /\ behind' = [u \in Used \union {v} |-> IF u = v THEN S ELSE behind[u]]

Bind(h) == h \in open /\ ~HasEntry(h) /\ Take({h}) /\ UNCHANGED open

\* The host opens h, or fails to.
Accept(h) == h \notin open /\ Take({h}) /\ open' = open \union {h}
Waste == Take({}) /\ UNCHANGED open

\* On a full table a new socket comes to one that is in the entry already, or
\* into its place.
Crowd(v, h) ==
  /\ up /\ Used = Vfds /\ h \notin open /\ open' = open \union {h}
  /\ \E S \in {{}} \union {{g} : g \in behind[v]} :
       behind' = [behind EXCEPT ![v] = S \union {h}]
  /\ UNCHANGED up

\* The entry goes without a socket of its own, which stays open.
Drop(v, h) == /\ up /\ h \in behind[v] /\ behind' = [behind EXCEPT ![v] = @ \ {h}]
              /\ UNCHANGED <<up, open>>

Release(v, h) == /\ up /\ h \in behind[v] /\ open' = open \ {h}
                 /\ behind' = [u \in Used \ {v} |-> behind[u]]
                 /\ UNCHANGED up

Next == \/ Start \/ Stop \/ Waste
        \/ \E h \in HostFds : Bind(h) \/ Accept(h)
        \/ \E v \in Used, h \in HostFds : Crowd(v, h) \/ Drop(v, h) \/ Release(v, h)

Spec == Init /\ [][Next]_vars
=============================================================================
