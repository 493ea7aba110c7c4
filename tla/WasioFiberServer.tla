-------------------------- MODULE WasioFiberServer --------------------------
(***************************************************************************)
(* The HTTP server of src/examples/httpserver/httpserver_wasio_fiber.c: one *)
(* fiber accepts connections, one fiber serves each connection, and main    *)
(* polls, resumes the fibers of the ready slots in order and then closes    *)
(* the gaps of its two parallel arrays, wfd.fds and fibers.  A fiber runs   *)
(* until it would block; every system call in it is a step of its own, so   *)
(* the clients act between any two of them.                                 *)
(***************************************************************************)
EXTENDS WasioHostPoll

CONSTANT Debug   \* a build with -DDEBUG, in which wassert is assert

ASSUME DebugAssumption == Debug \in BOOLEAN

VARIABLES
  fibers,       \* the closures: the fiber and the descriptor of each slot
  fiber,        \* per fiber, named by the descriptor it was allocated for:
                \* "none", "fresh" (never resumed) or "suspended"
  pc,           \* where main is: poll, scan, compress, cleanup, or inside the
                \* resumed fiber: listener, recv, send
  i,            \* main's loop index
  pollfd_size,  \* wfd.length when the scan began
  end_server, compress_pollfd,
  fd,           \* the global through which main tells a fiber its descriptor
  failed        \* the source line of the assertion that failed, or 0

serverVars == <<fibers, fiber, pc, i, pollfd_size, end_server, compress_pollfd, fd, failed>>
vars == <<sockVars, wfd, serverVars>>

FIBER_KILL_SIGNAL == -2   \* INT32_MIN: no descriptor

\* exited and aborted end the program; so does a SIGPIPE, which the driver
\* does not handle.
Stopped == {"exited", "aborted", "killed"}

Abort(line) == /\ pc' = "aborted" /\ failed' = line
               /\ UNCHANGED <<sockVars, wfd, fibers, fiber, i, pollfd_size, end_server,
                              compress_pollfd, fd>>

Init == /\ SocketsInit
        /\ WfdInit
        /\ fibers = <<[fiber |-> ListenFd, fd |-> ListenFd]>>
        /\ fiber = [f \in Fds |-> IF f = ListenFd THEN "fresh" ELSE "none"]
        /\ pc = "poll" /\ i = 0 /\ pollfd_size = 0
        /\ end_server = FALSE /\ compress_pollfd = FALSE
        /\ fd = NoFd /\ failed = 0

----------------------------------------------------------------------------
(* The head of the request loop.                                            *)

Poll ==
  /\ pc = "poll" /\ ~end_server
  /\ compress_pollfd' = FALSE
  /\ \/ \* at least one slot is ready
        /\ WasioPoll
        /\ pc' = "scan" /\ i' = 0 /\ pollfd_size' = wfd.length
        /\ UNCHANGED end_server
     \/ \* the timeout ran out
        /\ ReadySlots(wfd) = {}
        /\ end_server' = TRUE
        /\ UNCHANGED <<wfd, pc, i, pollfd_size>>
  /\ UNCHANGED <<sockVars, fibers, fiber, fd, failed>>

\* poll() failed: main only tries again.
PollFails ==
  /\ pc = "poll" /\ ~end_server
  /\ compress_pollfd' = FALSE
  /\ UNCHANGED <<sockVars, wfd, fibers, fiber, pc, i, pollfd_size, end_server, fd, failed>>

LeaveLoop ==
  /\ pc = "poll" /\ end_server
  /\ IF Debug /\ ~(0 < wfd.length /\ wfd.length <= Capacity)
       THEN Abort(320)
       ELSE /\ pc' = "cleanup" /\ i' = 0
            /\ UNCHANGED <<sockVars, wfd, fibers, fiber, pollfd_size, end_server,
                           compress_pollfd, fd, failed>>

----------------------------------------------------------------------------
(* The scan over the slots that poll looked at.                             *)

\* Mutant of NextSlot: the scan stops one slot early.
NextSlotButLast == /\ i' = i + 1
                   /\ pc' = IF i + 2 < pollfd_size THEN "scan" ELSE "compress"

NextSlot == /\ i' = i + 1
            /\ pc' = IF i + 1 < pollfd_size THEN "scan" ELSE "compress"

Current == wfd.fds[i + 1]
Closure == fibers[i + 1]

SkipSlot == /\ pc = "scan" /\ Current.revents = {}
            /\ NextSlot
            /\ UNCHANGED <<sockVars, wfd, fibers, fiber, pollfd_size, end_server,
                           compress_pollfd, fd, failed>>

\* Mutants of HangUp: the slot is counted twice; no compaction is asked for.
HangUpWith(count, mark) ==
  /\ pc = "scan" /\ "POLLHUP" \in Current.revents
  /\ fiber' = [fiber EXCEPT ![Closure.fiber] = "none"]
  /\ fibers' = [fibers EXCEPT ![i + 1].fd = NoFd]
  /\ wfd' = [wfd EXCEPT !.fds[i + 1].fd = NoFd, !.length = @ - count]
  /\ compress_pollfd' = mark
  /\ NextSlot
  /\ UNCHANGED <<sockVars, pollfd_size, end_server, fd, failed>>

HangUpUnmarked == HangUpWith(1, compress_pollfd)

\* The fiber is freed; the descriptor is forgotten, not closed.
HangUp == /\ pc = "scan" /\ "POLLHUP" \in Current.revents
          /\ fiber' = [fiber EXCEPT ![Closure.fiber] = "none"]
          /\ fibers' = [fibers EXCEPT ![i + 1].fd = NoFd]
          /\ wfd' = [wfd EXCEPT !.fds[i + 1].fd = NoFd, !.length = @ - 1]
          /\ compress_pollfd' = TRUE
          /\ NextSlot
          /\ UNCHANGED <<sockVars, pollfd_size, end_server, fd, failed>>

\* Neither readable nor hung up: the server gives up and leaves the scan.
BadEvent == /\ pc = "scan"
            /\ Current.revents # {} /\ Current.revents \intersect {"POLLIN", "POLLHUP"} = {}
            /\ end_server' = TRUE
            /\ pc' = "compress"
            /\ UNCHANGED <<sockVars, wfd, fibers, fiber, i, pollfd_size, compress_pollfd,
                           fd, failed>>

\* The assertions a fiber makes about fd when it is entered or continued.
FiberAccepts(f) == IF Closure.fiber = ListenFd THEN f = ListenFd ELSE f > ListenFd

\* Mutant of Resume: the global fd is not set.
ResumeWithOldFd ==
  /\ pc = "scan" /\ "POLLIN" \in Current.revents /\ "POLLHUP" \notin Current.revents
  /\ pc' = IF Closure.fiber = ListenFd THEN "listener" ELSE "recv"
  /\ UNCHANGED <<sockVars, wfd, fibers, fiber, i, pollfd_size, end_server,
                 compress_pollfd, fd, failed>>

Resume ==
  /\ pc = "scan" /\ "POLLIN" \in Current.revents /\ "POLLHUP" \notin Current.revents
  /\ IF Current.fd < 4 THEN Abort(292)
     ELSE IF Debug /\ ~FiberAccepts(Current.fd)
       THEN Abort(IF Closure.fiber = ListenFd THEN 150 ELSE 56)
       ELSE /\ fd' = Current.fd
            /\ pc' = IF Closure.fiber = ListenFd THEN "listener" ELSE "recv"
            /\ UNCHANGED <<sockVars, wfd, fibers, fiber, i, pollfd_size, end_server,
                           compress_pollfd, failed>>

----------------------------------------------------------------------------
(* handle_command, the rest of the loop body once the fiber is back.        *)

\* The fiber has returned (FIBER_OK), or resuming it failed (FIBER_ERROR).
Finished(ends) ==
  IF ~IsOpen(Closure.fd) THEN Abort(205)
  ELSE /\ fiber' = [fiber EXCEPT ![Closure.fiber] = "none"]
       /\ HostClose(Closure.fd)
       /\ wfd' = [wfd EXCEPT !.fds[i + 1].fd = NoFd, !.length = @ - 1]
       /\ compress_pollfd' = TRUE
       /\ end_server' = ends
       /\ NextSlot
       /\ UNCHANGED <<fibers, pollfd_size, fd, failed>>

\* The fiber has yielded.  Once an earlier slot was given up the slot is
\* cleared all the same.
Yielded ==
  /\ fiber' = [fiber EXCEPT ![Closure.fiber] = "suspended"]
  /\ wfd' = IF compress_pollfd THEN [wfd EXCEPT !.fds[i + 1].fd = NoFd] ELSE wfd
  /\ NextSlot
  /\ UNCHANGED <<sockVars, fibers, pollfd_size, end_server, compress_pollfd, fd, failed>>

\* The library reports FIBER_ERROR instead of running the fiber on.
FiberError == pc \in {"listener", "recv"} /\ Finished(TRUE)

----------------------------------------------------------------------------
(* The fibers.                                                              *)

\* Mutant of ListenerYields: one slot short of the capacity counts as full.
ListenerYieldsEarly == /\ pc = "listener"
                       /\ wfd.length + 1 >= Capacity \/ NoneWaiting
                       /\ Yielded

\* listener: accept until the backlog is empty or the array is full.
ListenerYields == /\ pc = "listener"
                  /\ wfd.length = Capacity \/ NoneWaiting
                  /\ Yielded

ListenerFails == /\ pc = "listener" /\ wfd.length # Capacity
                 /\ HostAcceptError
                 /\ end_server' = TRUE
                 /\ pc' = "return"
                 /\ UNCHANGED <<wfd, fibers, fiber, i, pollfd_size, compress_pollfd, fd, failed>>

\* Mutant of ListenerAccepts: accepts into a full array, too.
ListenerAcceptsWhenFull ==
  /\ pc = "listener"
  /\ IF ~(wfd.length < Capacity) THEN Abort(52)
     ELSE \E f \in ConnFds :
            /\ WasioAccept(f)
            /\ fibers' = PutAt(fibers, wfd.length, [fiber |-> f, fd |-> f])
            /\ fiber' = [fiber EXCEPT ![f] = "fresh"]
            /\ UNCHANGED <<pc, i, pollfd_size, end_server, compress_pollfd, fd, failed>>

ListenerAccepts ==
  /\ pc = "listener" /\ wfd.length # Capacity
  /\ IF ~(wfd.length < Capacity) THEN Abort(52)
     ELSE \E f \in ConnFds :
            /\ WasioAccept(f)
            /\ fibers' = PutAt(fibers, wfd.length, [fiber |-> f, fd |-> f])
            /\ fiber' = [fiber EXCEPT ![f] = "fresh"]
            /\ UNCHANGED <<pc, i, pollfd_size, end_server, compress_pollfd, fd, failed>>

\* handle_connection: receive, answer, and again until recv would block.
HandlerYields == pc = "recv" /\ WasioRecv(fd) = "WASIO_EAGAIN" /\ Yielded

HandlerLosesPeer == /\ pc = "recv" /\ WasioRecv(fd) \in {"WASIO_ECONN", "WASIO_ERROR"}
                    /\ pc' = "return"
                    /\ UNCHANGED <<sockVars, wfd, fibers, fiber, i, pollfd_size, end_server,
                                   compress_pollfd, fd, failed>>

\* Only the first request of the buffer is looked at.  "drop": a buffer with
\* no headers, not answered.  "quit": GET /quit.  "get": any other answer.
HandlerReceives ==
  /\ pc = "recv" /\ WasioRecv(fd) = "WASIO_OK"
  /\ HostRecvData(fd)
  /\ LET request == Head(sock[fd].rx)
     IN  /\ pc' = IF request = "drop" THEN "return" ELSE "send"
         /\ end_server' = (end_server \/ request = "quit")
  /\ UNCHANGED <<wfd, fibers, fiber, i, pollfd_size, compress_pollfd, fd, failed>>

\* Mutant of HandlerSends: end_server is not looked at.
HandlerSendsOn == /\ pc = "send" /\ pc' = "recv"
                  /\ UNCHANGED <<sockVars, wfd, fibers, fiber, i, pollfd_size, end_server,
                                 compress_pollfd, fd, failed>>

\* Whatever wasio_send returns is only logged.
HandlerSends == /\ pc = "send"
                /\ pc' = IF end_server THEN "return" ELSE "recv"
                /\ UNCHANGED <<sockVars, wfd, fibers, fiber, i, pollfd_size, end_server,
                               compress_pollfd, fd, failed>>

\* Sending to a connection that was reset may raise SIGPIPE in the driver.
SendKills == /\ pc = "send" /\ sock[fd].peer = "rst"
             /\ pc' = "killed"
             /\ UNCHANGED <<sockVars, wfd, fibers, fiber, i, pollfd_size, end_server,
                            compress_pollfd, fd, failed>>

FiberReturns == pc = "return" /\ Finished(end_server)

----------------------------------------------------------------------------
(* Closing the gaps of both arrays.                                         *)

\* Mutant of Compress: the fibers are not shifted with the slots.
CompressSlotsOnly ==
  /\ pc = "compress"
  /\ pc' = "poll" /\ i' = 0 /\ pollfd_size' = 0 /\ fd' = NoFd
  /\ wfd' = Compacted(wfd)
  /\ fibers' = SubSeq(fibers, 1, Cardinality(Kept(wfd)))
  /\ UNCHANGED <<sockVars, fiber, end_server, compress_pollfd, failed>>

Compress ==
  /\ pc = "compress"
  /\ pc' = "poll" /\ i' = 0 /\ pollfd_size' = 0 /\ fd' = NoFd
  /\ IF compress_pollfd
       THEN /\ wfd' = Compacted(wfd)
            /\ fibers' = [n \in 1 .. Cardinality(Kept(wfd)) |-> fibers[KeptAt(wfd, n)]]
       ELSE wfd' = Unpolled(wfd) /\ UNCHANGED fibers
  /\ UNCHANGED <<sockVars, fiber, end_server, compress_pollfd, failed>>

----------------------------------------------------------------------------
(* After the loop: every remaining fiber is resumed with the kill signal,   *)
(* returns and has its descriptor closed, while length counts down and i up. *)

\* In a debug build a fiber that was never resumed enters its function with
\* the kill signal and fails the function's first assertion, and main fails
\* one when the library reports FIBER_ERROR.
KillFails == /\ pc = "cleanup" /\ i < wfd.length /\ Current.fd # NoFd /\ Debug
             /\ IF fiber[Closure.fiber] = "fresh"
                  THEN Abort(IF Closure.fiber = ListenFd THEN 150 ELSE 56)
                  ELSE Abort(328)

Kill == /\ pc = "cleanup" /\ i < wfd.length
        /\ Current.fd # NoFd => ~(Debug /\ fiber[Closure.fiber] = "fresh")
        /\ IF Debug /\ Current.fd # NoFd /\ ~IsOpen(Current.fd) THEN Abort(330)
           ELSE /\ IF Current.fd = NoFd THEN UNCHANGED <<sockVars, wfd, fiber, fd>>
                   ELSE /\ fd' = FIBER_KILL_SIGNAL
                        /\ fiber' = [fiber EXCEPT ![Closure.fiber] = "none"]
                        /\ HostClose(Current.fd)
                        /\ wfd' = [wfd EXCEPT !.length = @ - 1]
                /\ i' = i + 1
                /\ UNCHANGED <<fibers, pc, pollfd_size, end_server, compress_pollfd, failed>>

Exit == /\ pc = "cleanup" /\ i >= wfd.length
        /\ IF Debug /\ wfd.length # 0 THEN Abort(334)
           ELSE /\ pc' = "exited"
                /\ UNCHANGED <<sockVars, wfd, fibers, fiber, i, pollfd_size, end_server,
                               compress_pollfd, fd, failed>>

----------------------------------------------------------------------------
MainNext == \/ Poll \/ LeaveLoop
            \/ SkipSlot \/ HangUp \/ BadEvent \/ Resume
            \/ FiberError \/ FiberReturns
            \/ ListenerYields \/ ListenerFails \/ ListenerAccepts
            \/ HandlerYields \/ HandlerLosesPeer \/ HandlerReceives
            \/ HandlerSends \/ SendKills
            \/ Compress \/ KillFails \/ Kill \/ Exit

Running == pc \notin Stopped

EnvNext == Running /\ NetworkNext /\ UNCHANGED <<wfd, serverVars>>

Next == MainNext \/ PollFails \/ EnvNext

Spec == Init /\ [][Next]_vars

\* The server's single thread is scheduled again and again; nothing is
\* assumed of the clients, and poll may fail now and then but not forever.
FairSpec == Spec /\ WF_vars(MainNext)

----------------------------------------------------------------------------
TypeOK ==
  /\ SocketsTypeOK /\ WfdTypeOK
  /\ fibers \in Seq([fiber : Fds, fd : Fds \union {NoFd}])
  /\ fiber \in [Fds -> {"none", "fresh", "suspended"}]
  /\ pc \in {"poll", "scan", "listener", "recv", "send", "return", "compress",
             "cleanup"} \union Stopped
  /\ i \in Nat /\ pollfd_size \in Nat
  /\ end_server \in BOOLEAN /\ compress_pollfd \in BOOLEAN
  /\ fd \in Fds \union {NoFd, FIBER_KILL_SIGNAL}
  /\ failed \in {0, 52, 56, 150, 205, 292, 320, 328, 330, 334}

InLoop == pc \in {"poll", "scan", "listener", "recv", "send", "return", "compress"}

\* The slots with a descriptor.
LiveSlots == {k \in DOMAIN wfd.fds : wfd.fds[k].fd # NoFd}

\* Until the server is to end, slot 0 is the listener's.
ListenerKeepsSlot0 ==
  InLoop /\ ~end_server => /\ wfd.length > 0
                           /\ wfd.fds[1].fd = ListenFd
                           /\ fiber[ListenFd] # "none"

\* Through every accept, hangup, close and compaction the two arrays stay
\* parallel: a slot's descriptor is open, in one slot only, and its closure
\* holds the live fiber that was allocated for this descriptor.  When main
\* polls there is no gap and no more than the array can hold.
ArraysInSync ==
  /\ TypeOK
  /\ ListenerKeepsSlot0
  /\ pc = "poll" => /\ LiveSlots = 1 .. wfd.length
                    /\ Len(wfd.fds) = wfd.length
                    /\ wfd.length <= Capacity
  /\ InLoop =>
    /\ Len(fibers) = Len(wfd.fds)
    /\ \A k \in LiveSlots :
         LET f == wfd.fds[k].fd
         IN  /\ IsOpen(f)
             /\ fibers[k] = [fiber |-> f, fd |-> f]
             /\ fiber[f] # "none" \/ (pc = "return" /\ k = i + 1)
             /\ \A j \in LiveSlots : wfd.fds[j].fd = f => j = k

\* A fiber that runs sees its own descriptor in the global fd, never that of
\* another connection, and the descriptor is open.
FiberSeesOwnFd ==
  pc \in {"listener", "recv", "send", "return"} =>
    fd = Closure.fiber /\ fd = Current.fd /\ IsOpen(fd)

\* No assertion of the request loop or of WASIO fails, and every close of the
\* shutdown succeeds (330); only its other assertions fail, in a debug build.
OnlyShutdownAsserts == failed \in (IF Debug THEN {0, 56, 150, 320, 328, 334} ELSE {0})

\* A connection that is open and in no slot: never polled, served or closed.
InSlot(f) == \E k \in LiveSlots : wfd.fds[k].fd = f
Orphans == IF InLoop THEN {f \in OpenConns : ~InSlot(f)} ELSE {}

\* A connection is forgotten only in a round in which some connection ended,
\* and then for good: its descriptor is never given to another connection.
OrphansByCompactionOnly ==
  [][InLoop /\ InLoop' => /\ Orphans \subseteq Orphans'
                          /\ Orphans' # Orphans => compress_pollfd']_vars

\* wassert(wfd.length == 0) at the end of main (line 334).
LengthZeroAtEnd == failed # 334

\* Once the server is to end it ends, whatever the clients do.
ShutdownCompletes == end_server ~> ~Running

\* As long as main keeps coming back to poll, a request in the queue of a
\* connection in the array is received, or the connection is closed, or the
\* server ends, or the connection is forgotten: it stays open, in no slot, and
\* its request is never received.  That happens only in a round in which some
\* connection ended, because the slot of an ended fiber is counted twice, at
\* 207, 219 or 277 and again at 306, and line 295 clears the slots after it.
Waiting(f) == InLoop /\ ~end_server /\ InSlot(f) /\ sock[f].rx # <<>>
Received(f) == IsOpen(f) /\ sock[f].rx = <<>>
Forgotten(f) == f \in Orphans /\ compress_pollfd
RequestsReceived ==
  []<>(pc = "poll") =>
    \A f \in ConnFds :
      Waiting(f) ~> Received(f) \/ ~IsOpen(f) \/ end_server \/ ~InLoop \/ Forgotten(f)

\* As long as main keeps coming back to poll, a connection in the backlog is
\* accepted unless the array is full or the server ends.
Pending == InLoop /\ ~end_server /\ backlog > 0
ConnectsAccepted ==
  []<>(pc = "poll") => (Pending ~> ~Pending \/ wfd.length = Capacity)

\* Seen from outside the server accepts into free places only, closes one
\* connection at a time and none that is in no slot, and accepts nothing once it
\* is to end; it forgets connections, and leaves some open when it stops.
Watched == {f \in OpenConns : InSlot(f)}
Abstract == INSTANCE ConnectionServer
  WITH Conns <- ConnFds, Places <- Capacity - 1, MayForget <- TRUE,
       watched <- Watched, lost <- OpenConns \ Watched,
       ending <- end_server \/ ~InLoop, stopped <- pc = "exited"
ImplementsConnectionServer == Abstract!Spec
=============================================================================
