----------------------------- MODULE WasioWasi -----------------------------
(***************************************************************************)
(* The WASI backend of WASIO, src/src/wasio_wasi.c: preopened sockets and    *)
(* accepted connections behind virtual descriptors.  Here the two arrays     *)
(* have different contents: accept, recv and mark_ready read fds, send,      *)
(* close and poll read vfds.  An action is one call, with any virtual        *)
(* descriptor; which call succeeds on the host is the host's choice.         *)
(*                                                                         *)
(* The caller keeps the descriptor it got last in one variable and passes    *)
(* its address, as echoserver.c does with clientfd.                          *)
(***************************************************************************)
EXTENDS FreelistOps, FiniteSets

CONSTANTS Capacity,   \* wfd->capacity
          HostFds,    \* the descriptors the host may hand out
          Preopened   \* those it opened before the program started

NoFd == -1

ASSUME WasiCapacityAssumption ==
  /\ Capacity \in Nat \ {0}
  /\ Capacity <= IntWidth \/ Capacity % IntWidth = 0
ASSUME PreopenedAssumption == NoFd \notin HostFds /\ Preopened \subseteq HostFds

VARIABLES up,       \* between wasio_init and wasio_finalize
          fl,       \* wfd->fl
          length,   \* wfd->length
          polled,   \* the fd of each wfd->vfds
          fds,      \* wfd->fds
          open,     \* the host descriptors that are open
          vfd,      \* the caller's variable
          ret       \* what the last call returned

vars == <<up, fl, length, polled, fds, open, vfd, ret>>

Vfds == 0 .. Capacity - 1
Sockets(v) == {polled[v], fds[v]} \ {NoFd}
Known == UNION {Sockets(v) : v \in Vfds}

Init == /\ up = FALSE /\ fl = NewFreelist(Capacity) /\ length = 0
        /\ polled = [v \in Vfds |-> NoFd] /\ fds = [v \in Vfds |-> NoFd]
        /\ open = Preopened /\ vfd = NoFd /\ ret = "WASIO_OK"

WasioInit ==
  /\ ~up
  /\ \/ ret' = "WASIO_EFULL" /\ UNCHANGED <<up, fl, length, polled, fds>>
     \/ /\ up' = TRUE /\ fl' = NewFreelist(Capacity) /\ length' = 0
        /\ polled' = [v \in Vfds |-> NoFd] /\ fds' = [v \in Vfds |-> NoFd]
        /\ ret' = "WASIO_OK"
  /\ UNCHANGED <<open, vfd>>

\* The descriptors stay open.
Finalize == /\ up /\ up' = FALSE /\ length' = 0
            /\ UNCHANGED <<fl, polled, fds, open, vfd, ret>>

\* What it reports is for the caller to read in wfd->vfds.
Poll ==
  /\ up
  /\ ret' \in {"WASIO_OK", "WASIO_ERROR"}
  /\ UNCHANGED <<up, fl, length, polled, fds, open, vfd>>

\* Lines 14-22, for an entry that is then polled as connfd.
TakeEntry(preopened, connfd) ==
  /\ fl' = AfterNext(fl) /\ length' = length + 1
  /\ vfd' = NextEntry(fl)
  /\ polled' = [polled EXCEPT ![NextEntry(fl)] = connfd]
  /\ fds' = [fds EXCEPT ![NextEntry(fl)] = preopened]

\* A socket that is open is wrapped once.
Wrap(preopened) ==
  /\ up /\ preopened \in open /\ preopened \notin Known
  /\ \/ IsFull(fl) /\ ret' = "WASIO_EFULL" /\ UNCHANGED <<fl, length, polled, fds, vfd>>
     \/ ~IsFull(fl) /\ TakeEntry(preopened, NoFd) /\ ret' = "WASIO_OK"
  /\ UNCHANGED <<up, open>>

\* The kernel hands out the lowest descriptor that is free.
LowestFree(h) == h \in HostFds \ open /\ \A g \in HostFds \ open : h <= g

\* Lines 58-65.  wasio_wrap's answers are not negative: on a full table the
\* entry is the one that the caller's variable happens to name.  A failed
\* accept keeps its entry, and is not reported.
Accept(v) ==
  /\ up /\ ret' = "WASIO_OK"
  /\ \/ /\ IF IsFull(fl) THEN UNCHANGED <<fl, length, polled, fds, vfd>>
                         ELSE TakeEntry(NoFd, NoFd)
        /\ UNCHANGED open
     \/ /\ fds[v] \in open
        /\ \E h \in HostFds :
             /\ LowestFree(h) /\ open' = open \union {h}
             /\ IF IsFull(fl) THEN /\ vfd # NoFd /\ polled' = [polled EXCEPT ![vfd] = h]
                                   /\ UNCHANGED <<fl, length, fds, vfd>>
                              ELSE TakeEntry(NoFd, h)
  /\ UNCHANGED up

\* wasio_recv reads fds, wasio_send reads vfds.
Transfer(fd) ==
  /\ up
  /\ ret' = "WASIO_ERROR" \/ (fd \in open /\ ret' = "WASIO_OK")
  /\ UNCHANGED <<up, fl, length, polled, fds, open, vfd>>
Recv(v) == Transfer(fds[v])
Send(v) == Transfer(polled[v])

\* Mutants of Close: the host's answer is not looked at; fds is kept.
CloseUnchecked(v) ==
  /\ up
  /\ open' = open \ {polled[v]}
  /\ polled' = [polled EXCEPT ![v] = NoFd] /\ fds' = [fds EXCEPT ![v] = NoFd]
  /\ length' = length - 1 /\ fl' = AfterReclaim(fl, v)
  /\ ret' = "WASIO_OK"
  /\ UNCHANGED <<up, vfd>>
CloseKeepingFds(v) ==
  /\ up /\ polled[v] \in open
  /\ open' = open \ {polled[v]}
  /\ polled' = [polled EXCEPT ![v] = NoFd]
  /\ length' = length - 1 /\ fl' = AfterReclaim(fl, v)
  /\ ret' = "WASIO_OK"
  /\ UNCHANGED <<up, fds, vfd>>

\* Lines 85-90.
Close(v) ==
  /\ up
  /\ \/ polled[v] \notin open /\ ret' = "WASIO_ERROR"
        /\ UNCHANGED <<fl, length, polled, fds, open>>
     \/ /\ polled[v] \in open
        /\ open' = open \ {polled[v]}
        /\ polled' = [polled EXCEPT ![v] = NoFd] /\ fds' = [fds EXCEPT ![v] = NoFd]
        /\ length' = length - 1 /\ fl' = AfterReclaim(fl, v)
        /\ ret' = "WASIO_OK"
  /\ UNCHANGED <<up, vfd>>

\* Mutant of MarkReady: the assignment goes the other way.
MarkReadySwapped(v) ==
  /\ up /\ fds' = [fds EXCEPT ![v] = polled[v]] /\ ret' = "WASIO_OK"
  /\ UNCHANGED <<up, fl, length, polled, open, vfd>>

MarkReady(v) ==
  /\ up /\ polled' = [polled EXCEPT ![v] = fds[v]] /\ ret' = "WASIO_OK"
  /\ UNCHANGED <<up, fl, length, fds, open, vfd>>

Next == \/ WasioInit \/ Finalize \/ Poll
        \/ \E h \in Preopened : Wrap(h)
        \/ \E v \in Vfds : Accept(v) \/ Recv(v) \/ Send(v) \/ Close(v) \/ MarkReady(v)

Spec == Init /\ [][Next]_vars

----------------------------------------------------------------------------
Free == {v \in Vfds : v % IntWidth \in fl.vector[v \div IntWidth]}
TypeOK ==
  /\ up \in BOOLEAN /\ length \in Nat
  /\ fl.vector \in [0 .. fl.len - 1 -> SUBSET Bits]
  /\ polled \in [Vfds -> HostFds \union {NoFd}] /\ fds \in [Vfds -> Preopened \union {NoFd}]
  /\ open \subseteq HostFds
  /\ vfd \in Vfds \union {NoFd} /\ ret \in {"WASIO_OK", "WASIO_ERROR", "WASIO_EFULL"}

\* An entry that can be handed out names no socket in either array, even where
\* an accept into a full table wrote to an entry of the caller's; length counts
\* the others (13-22, 57-66, 84-91).
FreeEntriesEmpty ==
  /\ TypeOK
  /\ up => /\ \A v \in Free : Sockets(v) = {}
           /\ length = Cardinality(Vfds \ Free)

\* No socket is behind two entries, so a close cannot take the connection of
\* another entry away, though the arrays are written at different times and an
\* entry may be wrapped, marked, closed and accepted into again.
OneEntryPerSocket ==
  up => \A u, v \in Vfds : Sockets(u) \intersect Sockets(v) # {} => u = v

\* An open socket leaves the table in three ways only: the table is full and a
\* connection is accepted; an accepted connection is marked ready, which puts
\* fds, where it is not, over it; an entry is closed that such an accept had
\* given a second socket (61-65, 84-96).
SocketsLost ==
  [][up /\ up' => \A h \in (Known \ Known') \intersect open' :
       \/ IsFull(fl) /\ open' \ open # {}
       \/ \E v \in Vfds : polled[v] = h /\ fds[v] # h /\ fl' = fl /\ open' = open
       \/ \E v \in Vfds : fds[v] = h /\ polled[v] \in open \ open']_vars

\* Through every call, full tables and failed accepts included, the freelist and
\* the two arrays implement a table of sockets.
Behind == [v \in {u \in Vfds \ Free : up} |-> Sockets(v)]
Table == INSTANCE SocketTable WITH behind <- Behind
ImplementsSocketTable == Table!Spec
=============================================================================
