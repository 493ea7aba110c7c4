--------------------------- MODULE WasioProgram ---------------------------
(***************************************************************************)
(* What the programs on the virtual descriptors of wasio_host.c have in     *)
(* common: one thread, for which each call into WASIO (WasioHost) is a      *)
(* step; a listening socket behind the first virtual descriptor; and a scan *)
(* of the events in the table's own array.                                  *)
(***************************************************************************)
EXTENDS WasioHost

ASSUME HostFdsAreNumbers == HostFds \subseteq Nat

VARIABLES pc,     \* where the thread is
          i,      \* the index of the loop that it is in
          cur,    \* whose code runs, or whose event is handled
          conn,   \* the connection wasio_accept has just returned
          how     \* how the program ended

wasio == vars

ServFd == 0   \* what the first wasio_listen returns, as the callers assert

\* After wasio_init and wasio_listen, with the socket armed for events.
Listens(events, wanted) ==
  /\ up = TRUE /\ fl = AfterNext(NewFreelist(Capacity)) /\ length = 1
  /\ \E h \in HostFds :
       /\ \A g \in HostFds : h <= g
       /\ open = {h}
       /\ vfds = [v \in Vfds |->
                    IF v = ServFd THEN [fd |-> h, events |-> events, revents |-> {}]
                                  ELSE Unused]
       /\ fds = [v \in Vfds |-> IF v = ServFd THEN h ELSE NoFd]
  /\ wants = [v \in Vfds |-> IF v = ServFd THEN wanted ELSE {}] /\ ret = "WASIO_OK"

\* The kernel hands out the lowest descriptor that is free.
LowestFd == \A h \in open' \ open, g \in HostFds \ open : h <= g

\* The rest of the scan.  Its bound is wfd->length, a count; a descriptor at or
\* above it is passed over.
Ready == {v \in i .. length - 1 : v \in Vfds /\ vfds[v].fd # NoFd /\ vfds[v].revents # {}}

\* The next event is taken.
TakesEvent(v) ==
  /\ v \in Ready /\ \A u \in Ready : v <= u
  /\ vfds' = [vfds EXCEPT ![v].revents = {}]
  /\ UNCHANGED <<up, fl, length, fds, open, wants, ret>>

Ended == pc = "ended"
Ends(why) == pc' = "ended" /\ how' = why
GoesTo(place) == pc' = place /\ UNCHANGED how

Connections == Allocated \ {ServFd}
=============================================================================
