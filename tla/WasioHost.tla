----------------------------- MODULE WasioHost -----------------------------
(***************************************************************************)
(* The virtual-descriptor backend of WASIO, src/src/wasio_host.c: a         *)
(* freelist hands out virtual descriptors, and two arrays give each of them *)
(* its host descriptor and its poll interest.  An action is one call of the *)
(* API, with any virtual descriptor below the capacity.  Which call         *)
(* succeeds on the host is the host's choice.                               *)
(***************************************************************************)
EXTENDS FreelistOps, FiniteSets

NoFd == -1

CONSTANTS Capacity,   \* wfd->capacity
          HostFds     \* the descriptors the host may hand out

\* The capacities src/ asks for, 512 and 1024, fill the freelist's words.
ASSUME CapacityAssumption ==
  /\ Capacity \in Nat \ {0}
  /\ Capacity <= IntWidth \/ Capacity % IntWidth = 0
ASSUME HostFdsAssumption == NoFd \notin HostFds

VARIABLES up,       \* between wasio_init and wasio_finalize
          fl,       \* wfd->fl
          length,   \* wfd->length
          vfds,     \* wfd->vfds, an array of struct pollfd
          fds,      \* wfd->fds, an array of host descriptors
          open,     \* the host descriptors that are open
          wants,    \* history: what the caller asked to be notified of
          ret       \* what the last call returned

table == <<up, fl, length, vfds, fds, wants>>
vars == <<up, fl, length, vfds, fds, open, wants, ret>>

Vfds == 0 .. Capacity - 1
Unused == [fd |-> NoFd, events |-> {}, revents |-> {}]

Events == {"POLLIN", "POLLOUT", "POLLHUP"}   \* POLLHUP for errors as well
Results == {"WASIO_OK", "WASIO_ERROR", "WASIO_EFULL", "WASIO_EAGAIN"}

\* wasio_init reads the poll flags from the host; the declaration of
\* host_pollout imports the host's pollin.
pollin == "POLLIN"
pollout == "POLLIN"

TranslateError(errno) == IF errno = "EAGAIN" THEN "WASIO_EAGAIN" ELSE "WASIO_ERROR"

\* A host call failed.
Fails == /\ \E errno \in {"EAGAIN", "other"} : ret' = TranslateError(errno)
         /\ UNCHANGED <<table, open>>

\* wasio_wrap of a host descriptor that is open afterwards; a full table
\* leaves the descriptor open and unknown.
Wrap(hostfd) ==
  /\ open' = open \union {hostfd}
  /\ \/ IsFull(fl) /\ ret' = "WASIO_EFULL" /\ UNCHANGED table
     \/ /\ ~IsFull(fl)
        /\ fl' = AfterNext(fl)
        /\ LET vfd == NextEntry(fl)
           IN  /\ vfds' = [vfds EXCEPT ![vfd].fd = hostfd]
               /\ fds' = [fds EXCEPT ![vfd] = hostfd]
        /\ length' = length + 1
        /\ ret' = "WASIO_OK"
        /\ UNCHANGED <<up, wants>>

----------------------------------------------------------------------------
Init == /\ up = FALSE /\ fl = NewFreelist(Capacity) /\ length = 0
        /\ vfds = [v \in Vfds |-> Unused] /\ fds = [v \in Vfds |-> NoFd]
        /\ open = {} /\ wants = [v \in Vfds |-> {}] /\ ret = "WASIO_OK"

WasioInit == /\ ~up
             /\ \/ ret' = "WASIO_EFULL" /\ UNCHANGED table   \* no memory for the freelist
                \/ /\ up' = TRUE
                   /\ fl' = NewFreelist(Capacity)
                   /\ length' = 0
                   /\ vfds' = [v \in Vfds |-> Unused]
                   /\ fds' = [v \in Vfds |-> NoFd]
                   /\ wants' = [v \in Vfds |-> {}]
                   /\ ret' = "WASIO_OK"
             /\ UNCHANGED open

\* The descriptors stay open; what is left of the arrays is not read again.
Finalize == /\ up /\ up' = FALSE
            /\ length' = 0
            /\ UNCHANGED <<fl, vfds, fds, open, wants, ret>>

\* wasio_listen makes a new host descriptor.
Listen == up /\ (Fails \/ \E h \in HostFds \ open : Wrap(h))

\* wasio_accept: a descriptor that is not open is EBADF.
Accept(v) == up /\ (Fails \/ (fds[v] \in open /\ \E h \in HostFds \ open : Wrap(h)))

\* wasio_recv and wasio_send change nothing here.
Transfer(v) == up /\ (Fails \/ (fds[v] \in open /\ ret' = "WASIO_OK" /\ UNCHANGED <<table, open>>))

\* Mutants of Close: the freelist does not get the entry back; the events stay.
CloseWith(v, freelist, revents) ==
  /\ up /\ vfds[v].fd \in open
  /\ open' = open \ {vfds[v].fd}
  /\ vfds' = [vfds EXCEPT ![v].fd = NoFd, ![v].revents = revents]
  /\ fds' = [fds EXCEPT ![v] = NoFd]
  /\ length' = length - 1
  /\ fl' = freelist
  /\ wants' = [wants EXCEPT ![v] = {}]
  /\ ret' = "WASIO_OK"
  /\ UNCHANGED up

CloseUnreclaimed(v) == CloseWith(v, fl, {})
CloseWithEvents(v)  == CloseWith(v, AfterReclaim(fl, v), vfds[v].revents)

\* wasio_close: the host refuses a descriptor that is not open, so a second
\* close of the same virtual descriptor does no harm.
Close(v) ==
  /\ up
  /\ \/ /\ vfds[v].fd \notin open
        /\ ret' = TranslateError("EBADF")
        /\ UNCHANGED <<table, open>>
     \/ /\ vfds[v].fd \in open
        /\ open' = open \ {vfds[v].fd}
        /\ vfds' = [vfds EXCEPT ![v].fd = NoFd, ![v].revents = {}]
        /\ fds' = [fds EXCEPT ![v] = NoFd]
        /\ length' = length - 1
        /\ fl' = AfterReclaim(fl, v)
        /\ wants' = [wants EXCEPT ![v] = {}]
        /\ ret' = "WASIO_OK"
        /\ UNCHANGED up

\* wasio_notify_recv and wasio_notify_send; nothing disarms a descriptor.
Notify(v, flag, want) ==
  /\ up
  /\ vfds' = [vfds EXCEPT ![v] = [vfds[v] EXCEPT !.fd = fds[v], !.events = @ \union {flag}]]
  /\ wants' = [wants EXCEPT ![v] = @ \union {want}]
  /\ ret' = "WASIO_OK"
  /\ UNCHANGED <<up, fl, length, fds, open>>

NotifyRecv(v) == Notify(v, pollin, "recv")
NotifySend(v) == Notify(v, pollout, "send")

\* wasio_poll over the whole capacity: a slot without a descriptor reports
\* nothing, the others some of what they are armed for and hangups.
Reports(v, e) == vfds[v].fd # NoFd /\ e \in vfds[v].events \union {"POLLHUP"}
Reportable == {p \in Vfds \X Events : Reports(p[1], p[2])}

Poll ==
  /\ up
  /\ \/ Fails
     \/ /\ \E R \in SUBSET Reportable :
             vfds' = [v \in Vfds |-> [vfds[v] EXCEPT !.revents = {e \in Events : <<v, e>> \in R}]]
        /\ ret' = "WASIO_OK"
        /\ UNCHANGED <<up, fl, length, fds, open, wants>>

Next == \/ WasioInit \/ Finalize \/ Listen \/ Poll
        \/ \E v \in Vfds : \/ Accept(v) \/ Transfer(v) \/ Close(v)
                           \/ NotifyRecv(v) \/ NotifySend(v)

Spec == Init /\ [][Next]_vars

----------------------------------------------------------------------------
Allocated == {v \in Vfds : fds[v] # NoFd}

TypeOK ==
  /\ up \in BOOLEAN /\ length \in Nat
  /\ fl.size = Capacity /\ fl.len = CalcVectorLen(Capacity)
  /\ fl = [size |-> fl.size, len |-> fl.len, vector |-> fl.vector]
  /\ fl.vector \in [0 .. fl.len - 1 -> SUBSET Bits]
  /\ vfds \in [Vfds -> [fd : HostFds \union {NoFd}, events : SUBSET Events,
                        revents : SUBSET Events]]
  /\ fds \in [Vfds -> HostFds \union {NoFd}]
  /\ open \subseteq HostFds
  /\ wants \in [Vfds -> SUBSET {"recv", "send"}]
  /\ ret \in Results

\* The freelist, the two arrays and the host agree on every virtual
\* descriptor: it is free in the bitmap exactly when it has no host
\* descriptor, both arrays name the same one, and that one is open and behind no
\* other.  wfd->length counts those in use.
Agrees(v) ==
  /\ v % IntWidth \in fl.vector[v \div IntWidth] <=> v \notin Allocated
  /\ vfds[v].fd = fds[v]
  /\ v \in Allocated => /\ fds[v] \in open
                         /\ \A u \in Allocated : fds[u] = fds[v] => u = v

TableConsistent ==
  /\ TypeOK
  /\ up => (\A v \in Vfds : Agrees(v)) /\ length = Cardinality(Allocated)

\* A virtual descriptor that was closed reports no event until it is wrapped
\* and polled again, so an event loop in the middle of its scan never sees the
\* readiness of a connection that is gone.
NoStaleEvents == up => \A v \in Vfds \ Allocated : vfds[v].revents = {}

\* Through every call, and with every answer of the host, the freelist and the
\* arrays implement a table of virtual descriptors.
Bound == [v \in {u \in Allocated : up} |-> fds[v]]
Table == INSTANCE DescriptorTable WITH bound <- Bound
ImplementsDescriptorTable == Table!Spec
=============================================================================
