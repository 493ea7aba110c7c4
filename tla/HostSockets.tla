---------------------------- MODULE HostSockets ----------------------------
(***************************************************************************)
(* The sockets a guest reaches through the host bindings of                 *)
(* src/src/host/driver/socket.c and poll.c: one listening socket, the       *)
(* connections waiting in its backlog and the accepted ones.  Each binding  *)
(* makes one non-blocking system call, writes errno on failure and returns  *)
(* the call's answer, so an operator gives the answer as errno names it.    *)
(* The kernel and the clients are not in src/: they are modelled from how   *)
(* the bindings and the servers use them.                                   *)
(***************************************************************************)
EXTENDS Integers, Sequences, FiniteSets

CONSTANTS ConnFds,     \* descriptors accept may return
          Requests,    \* what a received buffer makes a server do
          PeerEvents,  \* what may befall an open connection: fin, rst, err
          MaxBacklog,  \* bound on the connections waiting to be accepted
          MaxRx        \* bound on the segments waiting in one socket

ListenFd == 4  \* the servers assert that the listener got descriptor 4

\* A process has a limit on its descriptors.
ASSUME ConnFdsAssumption ==
  /\ ConnFds \subseteq Nat /\ IsFiniteSet(ConnFds)
  /\ \A f \in ConnFds : f > ListenFd
ASSUME PeerEventsAssumption == PeerEvents \subseteq {"fin", "rst", "err"}
ASSUME BoundsAssumption == MaxBacklog \in Nat /\ MaxRx \in Nat

VARIABLES sock,     \* per descriptor: Closed, or the peer's state and the queue
          backlog   \* the number of connections waiting to be accepted

sockVars == <<sock, backlog>>

Fds == ConnFds \union {ListenFd}

Closed == [peer |-> "closed", rx |-> <<>>]
NewConn == [peer |-> "open", rx |-> <<>>]

\* open: the peer may send; fin: it has closed; rst: it has reset the
\* connection; err: an error is pending on the socket, without a hangup.
PeerStates == {"closed", "open", "fin", "rst", "err"}

IsOpen(f) == f \in Fds /\ sock[f].peer # "closed"

OpenConns == {f \in ConnFds : IsOpen(f)}

SocketsTypeOK ==
  /\ sock \in [Fds -> [peer : PeerStates, rx : Seq(Requests)]]
  /\ backlog \in 0 .. MaxBacklog

SocketsInit ==
  /\ sock = [f \in Fds |-> IF f = ListenFd THEN NewConn ELSE Closed]
  /\ backlog = 0

----------------------------------------------------------------------------
(* The bindings.                                                            *)

\* POSIX: the lowest descriptor that is not open.
IsLowestFree(f) == /\ f \in ConnFds \ OpenConns
                   /\ \A g \in ConnFds \ OpenConns : f <= g

\* host_accept, when a connection is waiting and a descriptor is free.
HostAccept(f) == /\ backlog > 0
                 /\ IsLowestFree(f)
                 /\ sock' = [sock EXCEPT ![f] = NewConn]
                 /\ backlog' = backlog - 1

\* host_accept answers EAGAIN.
NoneWaiting == backlog = 0

\* host_accept, when the connection was aborted or no descriptor is left; the
\* kernel looks for a descriptor before it looks at the backlog.
HostAcceptError ==
  \/ backlog > 0 /\ backlog' = backlog - 1 /\ UNCHANGED sock   \* ECONNABORTED
  \/ ConnFds = OpenConns /\ UNCHANGED sockVars                 \* EMFILE

\* The answer of host_recv: queued data first, then the state of the peer.
RecvAnswer(f) ==
  IF ~IsOpen(f) THEN "EBADF"
  ELSE IF sock[f].rx # <<>> THEN "data"
  ELSE CASE sock[f].peer = "open" -> "EAGAIN"
         [] sock[f].peer = "fin"  -> "eof"
         [] OTHER                 -> "ECONNRESET"

\* One recv takes everything that is queued.
HostRecvData(f) == sock' = [sock EXCEPT ![f].rx = <<>>] /\ UNCHANGED backlog

HostClose(f) == sock' = [sock EXCEPT ![f] = Closed] /\ UNCHANGED backlog

\* What host_poll reports for a descriptor polled for POLLIN.
Revents(f) ==
  IF f = -1 THEN {}
  ELSE IF f = ListenFd /\ IsOpen(f) THEN IF backlog > 0 THEN {"POLLIN"} ELSE {}
  ELSE CASE ~IsOpen(f)            -> {"POLLNVAL"}
         [] sock[f].peer = "rst"  -> {"POLLIN", "POLLHUP"}
         [] sock[f].peer = "fin"  -> {"POLLIN"}
         [] OTHER -> (IF sock[f].rx # <<>> THEN {"POLLIN"} ELSE {})
                     \union (IF sock[f].peer = "err" THEN {"POLLERR"} ELSE {})

----------------------------------------------------------------------------
(* The clients and the network.                                             *)

ClientConnect == backlog < MaxBacklog /\ backlog' = backlog + 1 /\ UNCHANGED sock

ClientSend(f, r) == /\ sock[f].peer = "open"
                    /\ Len(sock[f].rx) < MaxRx
                    /\ sock' = [sock EXCEPT ![f].rx = Append(@, r)]
                    /\ UNCHANGED backlog

\* The client closes, the connection is reset (also after a close), or an
\* error is reported on it.
PeerEvent(f, e) == /\ sock[f].peer = "open" \/ (sock[f].peer = "fin" /\ e = "rst")
                   /\ sock' = [sock EXCEPT ![f].peer = e]
                   /\ UNCHANGED backlog

NetworkNext == \/ ClientConnect
               \/ \E f \in ConnFds, r \in Requests : ClientSend(f, r)
               \/ \E f \in ConnFds, e \in PeerEvents : PeerEvent(f, e)
=============================================================================
