--------------------------- MODULE WasioHostPoll ---------------------------
(***************************************************************************)
(* The poll backend of WASIO, src/src/wasio/host_poll.c, over the host      *)
(* bindings: an array of pollfds with a length and a capacity.  accept      *)
(* writes the slot at length; close leaves the array alone, and the server  *)
(* that uses the backend edits slots and length itself.                     *)
(***************************************************************************)
EXTENDS PollArray

CONSTANT Capacity   \* wfd.capacity, MAX_CONNECTIONS

ASSUME CapacityAssumption == Capacity \in Nat \ {0}

VARIABLE wfd        \* struct wasio_pollfd: its length and its slots

\* wasio_listen after the static initialiser.
WfdInit == wfd = WithSlot([length |-> 0, fds |-> <<>>], ListenFd)

TranslateError(errno) == IF errno = "EAGAIN" THEN "WASIO_EAGAIN" ELSE "WASIO_ERROR"

\* wasio_recv: 0 bytes is a closed connection.
WasioRecv(f) == CASE RecvAnswer(f) = "data" -> "WASIO_OK"
                  [] RecvAnswer(f) = "eof"  -> "WASIO_ECONN"
                  [] OTHER -> TranslateError(RecvAnswer(f))

\* wasio_accept, when host_accept returns a descriptor.
WasioAccept(f) == HostAccept(f) /\ wfd' = WithSlot(wfd, f)

\* wasio_poll, when at least one slot is ready.
WasioPoll == ReadySlots(wfd) # {} /\ wfd' = Polled(wfd)

WfdTypeOK == ArrayTypeOK(wfd)
=============================================================================
