---------------------------- MODULE FiberServer ----------------------------
(***************************************************************************)
(* The HTTP server of src/examples/httpserver/httpserver_fiber.c, which     *)
(* uses the host bindings without WASIO.  A fiber has its descriptor in a   *)
(* local, which main sets through the argument of every resume: it polls    *)
(* fds[i].fd and passes fibers[i].fd.  A poll that fails or times out ends  *)
(* the server.  Every system call is a step of its own.                     *)
(***************************************************************************)
EXTENDS PollArray

CONSTANTS Capacity,   \* MAX_CONNECTIONS
          Debug       \* a build with -DDEBUG, in which wassert is assert

ASSUME CapacityAssumption == Capacity \in Nat \ {0} /\ Debug \in BOOLEAN

VARIABLES
  arr,              \* fds, with nfds as its length
  fibers,           \* the closures: the fiber and the descriptor of each slot
  fiber,            \* per fiber: "none", "fresh" (never resumed) or "suspended"
  pc,               \* poll, scan, compress, leave, cleanup, or inside the
                    \* resumed fiber: listener, recv, send, return
  i,                \* main's loop index
  pollfd_size,      \* nfds when the scan began
  end_server, compress_pollfd,
  fd,               \* the local fd of the fiber that runs
  failed            \* the source line of the assertion that failed, or 0

fiberVars == <<fibers, fiber>>
flags == <<end_server, compress_pollfd>>
vars == <<sockVars, arr, fiberVars, pc, i, pollfd_size, flags, fd, failed>>

Stopped == {"exited", "aborted", "killed"}
Running == pc \notin Stopped
InFiber == {"listener", "recv", "send", "return"}

\* Main goes to l, or stays in its fiber, without a look at the next slot.
Goto(l) == pc' = l /\ UNCHANGED <<i, pollfd_size, fd, failed>>

Abort(line) == /\ pc' = "aborted" /\ failed' = line
               /\ UNCHANGED <<sockVars, arr, fiberVars, i, pollfd_size, flags, fd>>

Init == /\ SocketsInit
        /\ arr = WithSlot([length |-> 0, fds |-> <<>>], ListenFd)
        /\ fibers = <<[fiber |-> ListenFd, fd |-> ListenFd]>>
        /\ fiber = [f \in Fds |-> IF f = ListenFd THEN "fresh" ELSE "none"]
        /\ pc = "poll" /\ i = 0 /\ pollfd_size = 0
        /\ end_server = FALSE /\ compress_pollfd = FALSE
        /\ fd = NoFd /\ failed = 0

----------------------------------------------------------------------------
(* Main: poll, and the scan over the slots that poll looked at.             *)

Poll == /\ pc = "poll" /\ ReadySlots(arr) # {}
        /\ arr' = Polled(arr)
        /\ pc' = "scan" /\ i' = 0 /\ pollfd_size' = arr.length
        /\ compress_pollfd' = FALSE
        /\ UNCHANGED <<sockVars, fiberVars, end_server, fd, failed>>

PollGivesUp == /\ pc = "poll"
               /\ \/ ReadySlots(arr) = {} /\ end_server' = TRUE   \* the timeout ran out
                  \/ UNCHANGED end_server                         \* poll() failed
               /\ Goto("leave")
               /\ UNCHANGED <<sockVars, arr, fiberVars, compress_pollfd>>

Current == arr.fds[i + 1]
Closure == fibers[i + 1]

\* Mutant of NextSlot: the scan stops one slot early.
NextSlotButLast == /\ i' = i + 1 /\ fd' = NoFd
                   /\ pc' = IF i + 2 < pollfd_size THEN "scan" ELSE "compress"
                   /\ UNCHANGED <<pollfd_size, failed>>

NextSlot == /\ i' = i + 1 /\ fd' = NoFd
            /\ pc' = IF i + 1 < pollfd_size THEN "scan" ELSE "compress"
            /\ UNCHANGED <<pollfd_size, failed>>

SkipSlot == /\ pc = "scan" /\ Current.revents = {}
            /\ NextSlot
            /\ UNCHANGED <<sockVars, arr, fiberVars, flags>>

\* The fiber is freed; the descriptor is forgotten, not closed.
HangUp == /\ pc = "scan" /\ "POLLHUP" \in Current.revents
          /\ fiber' = [fiber EXCEPT ![Closure.fiber] = "none"]
          /\ fibers' = [fibers EXCEPT ![i + 1].fd = NoFd]
          /\ arr' = [arr EXCEPT !.fds[i + 1].fd = NoFd, !.length = @ - 1]
          /\ compress_pollfd' = TRUE
          /\ NextSlot
          /\ UNCHANGED <<sockVars, end_server>>

BadEvent == /\ pc = "scan"
            /\ Current.revents # {} /\ Current.revents \intersect {"POLLIN", "POLLHUP"} = {}
            /\ end_server' = TRUE
            /\ Goto("compress")
            /\ UNCHANGED <<sockVars, arr, fiberVars, compress_pollfd>>

Resume == /\ pc = "scan" /\ "POLLIN" \in Current.revents /\ "POLLHUP" \notin Current.revents
          /\ fd' = Closure.fd
          /\ pc' = IF Closure.fiber = ListenFd THEN "listener" ELSE "recv"
          /\ UNCHANGED <<sockVars, arr, fiberVars, i, pollfd_size, flags, failed>>

\* Mutant of Finished: the fiber is not freed.
FinishedUnfreed(ends) ==
  /\ IF IsOpen(Closure.fd) THEN HostClose(Closure.fd) ELSE UNCHANGED sockVars
  /\ arr' = [arr EXCEPT !.fds[i + 1].fd = NoFd, !.length = @ - 1]
  /\ compress_pollfd' = TRUE
  /\ end_server' = ends
  /\ NextSlot
  /\ UNCHANGED fiberVars

\* handle_command, when the fiber has returned (FIBER_OK) or resuming it
\* failed (FIBER_ERROR); the answer of host_close is not looked at.
Finished(ends) ==
  /\ fiber' = [fiber EXCEPT ![Closure.fiber] = "none"]
  /\ IF IsOpen(Closure.fd) THEN HostClose(Closure.fd) ELSE UNCHANGED sockVars
  /\ arr' = [arr EXCEPT !.fds[i + 1].fd = NoFd, !.length = @ - 1]
  /\ compress_pollfd' = TRUE
  /\ end_server' = ends
  /\ NextSlot
  /\ UNCHANGED fibers

\* handle_command, when the fiber has yielded, with the line after it: once
\* an earlier slot was given up the slot is cleared all the same.
Yielded == /\ fiber' = [fiber EXCEPT ![Closure.fiber] = "suspended"]
           /\ arr' = IF compress_pollfd THEN [arr EXCEPT !.fds[i + 1].fd = NoFd] ELSE arr
           /\ NextSlot
           /\ UNCHANGED <<sockVars, fibers, flags>>

FiberError == pc \in {"listener", "recv"} /\ Finished(TRUE)
FiberReturns == pc = "return" /\ Finished(end_server)

----------------------------------------------------------------------------
(* The listener: accept until the backlog is empty or the array is full.    *)

ListenerYields == /\ pc = "listener"
                  /\ arr.length = Capacity \/ NoneWaiting
                  /\ Yielded

\* Mutant of ListenerFails: the listener goes on after a failed accept.
ListenerFailsAndGoesOn ==
  /\ pc = "listener" /\ arr.length # Capacity
  /\ HostAcceptError
  /\ end_server' = TRUE
  /\ Goto("listener")
  /\ UNCHANGED <<arr, fiberVars, compress_pollfd>>

ListenerFails == /\ pc = "listener" /\ arr.length # Capacity
                 /\ HostAcceptError
                 /\ end_server' = TRUE
                 /\ Goto("return")
                 /\ UNCHANGED <<arr, fiberVars, compress_pollfd>>

\* Mutant of ListenerAccepts: the closure goes to the slot after the descriptor's.
ListenerAcceptsAside ==
  /\ pc = "listener" /\ arr.length # Capacity
  /\ \E f \in ConnFds :
       /\ HostAccept(f)
       /\ arr' = WithSlot(arr, f)
       /\ fibers' = PutAt(fibers, arr.length - 1, [fiber |-> f, fd |-> f])
       /\ fiber' = [fiber EXCEPT ![f] = "fresh"]
  /\ Goto("listener")
  /\ UNCHANGED flags

ListenerAccepts == /\ pc = "listener" /\ arr.length # Capacity
                   /\ \E f \in ConnFds :
                        /\ HostAccept(f)
                        /\ arr' = WithSlot(arr, f)
                        /\ fibers' = PutAt(fibers, arr.length, [fiber |-> f, fd |-> f])
                        /\ fiber' = [fiber EXCEPT ![f] = "fresh"]
                   /\ Goto("listener")
                   /\ UNCHANGED flags

----------------------------------------------------------------------------
(* A connection's handler: receive, answer, and again until recv would      *)
(* block.                                                                   *)

HandlerYields == pc = "recv" /\ RecvAnswer(fd) = "EAGAIN" /\ Yielded

HandlerLosesPeer == /\ pc = "recv" /\ RecvAnswer(fd) \in {"eof", "ECONNRESET", "EBADF"}
                    /\ Goto("return")
                    /\ UNCHANGED <<sockVars, arr, fiberVars, flags>>

\* "drop": no headers, not answered; "quit": GET /quit; "get": any other answer.
HandlerReceives ==
  /\ pc = "recv" /\ RecvAnswer(fd) = "data"
  /\ HostRecvData(fd)
  /\ LET request == Head(sock[fd].rx)
     IN  /\ Goto(IF request = "drop" THEN "return" ELSE "send")
         /\ end_server' = (end_server \/ request = "quit")
  /\ UNCHANGED <<arr, fiberVars, compress_pollfd>>

\* Mutant of HandlerSends: end_server is not looked at.
HandlerSendsOn == /\ pc = "send" /\ Goto("recv")
                  /\ UNCHANGED <<sockVars, arr, fiberVars, flags>>

\* The answer of host_send is only logged.
HandlerSends == /\ pc = "send"
                /\ Goto(IF end_server THEN "return" ELSE "recv")
                /\ UNCHANGED <<sockVars, arr, fiberVars, flags>>

\* Sending to a connection that was reset may raise SIGPIPE in the driver.
SendKills == /\ pc = "send" /\ sock[fd].peer = "rst"
             /\ Goto("killed")
             /\ UNCHANGED <<sockVars, arr, fiberVars, flags>>

----------------------------------------------------------------------------
(* Closing the gaps, and the clean-up after the loop.                       *)

CompressWith(closures) ==
  /\ pc = "compress"
  /\ pc' = IF end_server THEN "leave" ELSE "poll"
  /\ i' = 0 /\ pollfd_size' = 0
  /\ arr' = IF compress_pollfd THEN Compacted(arr) ELSE Unpolled(arr)
  /\ fibers' = IF compress_pollfd THEN closures ELSE fibers
  /\ UNCHANGED <<sockVars, fiber, flags, fd, failed>>

\* Mutant of Compress: the fibers are not shifted with the slots.
CompressSlotsOnly == CompressWith(SubSeq(fibers, 1, Cardinality(Kept(arr))))

Compress == CompressWith([n \in 1 .. Cardinality(Kept(arr)) |-> fibers[KeptAt(arr, n)]])

LeaveLoop == /\ pc = "leave"
             /\ IF Debug /\ ~(0 < arr.length /\ arr.length <= Capacity)
                  THEN Abort(293)
                  ELSE /\ pc' = "cleanup" /\ i' = 0
                       /\ UNCHANGED <<sockVars, arr, fiberVars, pollfd_size, flags, fd, failed>>

\* Resuming the fiber with the kill signal makes it return, also one that was
\* never resumed: the listener's loop is not entered, and a receive from the
\* kill signal fails.  length counts down while i counts up.
Kill == /\ pc = "cleanup" /\ i < arr.length
        /\ IF Current.fd = NoFd THEN UNCHANGED <<sockVars, arr, fiber>>
           ELSE /\ fiber' = [fiber EXCEPT ![Closure.fiber] = "none"]
                /\ HostClose(Current.fd)
                /\ arr' = [arr EXCEPT !.length = @ - 1]
        /\ i' = i + 1
        /\ UNCHANGED <<fibers, pc, pollfd_size, flags, fd, failed>>

\* The library reports FIBER_ERROR.
KillFails == /\ pc = "cleanup" /\ i < arr.length /\ Current.fd # NoFd /\ Debug
             /\ Abort(300)

Exit == /\ pc = "cleanup" /\ i >= arr.length
        /\ IF Debug /\ arr.length # 0 THEN Abort(304)
           ELSE Goto("exited") /\ UNCHANGED <<sockVars, arr, fiberVars, flags>>

----------------------------------------------------------------------------
MainNext == \/ Poll \/ PollGivesUp \/ SkipSlot \/ HangUp \/ BadEvent \/ Resume
            \/ FiberError \/ FiberReturns
            \/ ListenerYields \/ ListenerFails \/ ListenerAccepts
            \/ HandlerYields \/ HandlerLosesPeer \/ HandlerReceives
            \/ HandlerSends \/ SendKills
            \/ Compress \/ LeaveLoop \/ Kill \/ KillFails \/ Exit

EnvNext == /\ Running /\ NetworkNext
           /\ UNCHANGED <<arr, fiberVars, pc, i, pollfd_size, flags, fd, failed>>

Next == MainNext \/ EnvNext

Spec == Init /\ [][Next]_vars

\* The server's single thread is scheduled again and again.
FairSpec == Spec /\ WF_vars(MainNext)

----------------------------------------------------------------------------
InLoop == pc \in {"poll", "scan", "compress", "leave"} \union InFiber

TypeOK ==
  /\ SocketsTypeOK /\ ArrayTypeOK(arr)
  /\ fibers \in Seq([fiber : Fds, fd : Fds \union {NoFd}])
  /\ fiber \in [Fds -> {"none", "fresh", "suspended"}]
  /\ pc \in {"poll", "scan", "compress", "leave", "cleanup"} \union InFiber \union Stopped
  /\ i \in Nat /\ pollfd_size \in 0 .. Len(arr.fds)
  /\ pc \in {"scan"} \union InFiber => i < pollfd_size
  /\ end_server \in BOOLEAN /\ compress_pollfd \in BOOLEAN
  /\ fd \in Fds \union {NoFd}
  /\ failed \in {0, 293, 300, 304}

LiveSlots == {k \in DOMAIN arr.fds : arr.fds[k].fd # NoFd}
Watched == {arr.fds[k].fd : k \in LiveSlots} \intersect OpenConns

\* The descriptor polled in a slot is the one its fiber gets when it is
\* resumed, through every accept, hang-up, completion and compaction; it is
\* open, its fiber is alive, and no other slot has it.
SlotsMatchFibers ==
  /\ TypeOK
  /\ InLoop =>
    /\ Len(fibers) = Len(arr.fds)
    /\ \A k \in LiveSlots :
         LET f == arr.fds[k].fd
         IN  /\ IsOpen(f)
             /\ fibers[k] = [fiber |-> f, fd |-> f]
             /\ fiber[f] # "none"
             /\ \A j \in LiveSlots : arr.fds[j].fd = f => j = k

\* A fiber that runs works on its own descriptor and not on one that was
\* closed meanwhile.
RunsOnOwnFd == pc \in InFiber => fd = Closure.fiber /\ fd = Current.fd /\ IsOpen(fd)

\* A fiber that is suspended in recv or accept is in a slot that will be
\* polled, or its connection was forgotten; none waits for a closed one.
SuspendedFibersAreOpen ==
  InLoop => \A f \in Fds : fiber[f] # "none" => IsOpen(f)

\* Seen from outside the server accepts into free places only, closes one
\* connection at a time and accepts nothing once it is to end; but it forgets
\* connections, and leaves some open when it stops.
Abstract == INSTANCE ConnectionServer
  WITH Conns <- ConnFds, Places <- Capacity - 1, MayForget <- TRUE,
       watched <- Watched, lost <- OpenConns \ Watched,
       ending <- end_server \/ ~InLoop \/ pc = "leave", stopped <- pc = "exited"
ImplementsConnectionServer == Abstract!Spec

\* Once the server is to end it ends, whatever the clients do.
ShutdownCompletes == end_server ~> ~Running

\* As long as main keeps coming back to poll, a request waiting on a
\* connection that is watched is received, or the connection is closed, or the
\* server ends, or the connection is forgotten: it stays open, in no slot, and
\* its request is never received.  That happens only in a round in which some
\* connection ended, because the slot of an ended fiber is counted twice, at
\* 190, 202 or 259 and again at 285, and line 274 clears the slots after it.
Waiting(f) == InLoop /\ ~end_server /\ f \in Watched /\ sock[f].rx # <<>>
Received(f) == IsOpen(f) /\ sock[f].rx = <<>>
Forgotten(f) == f \in OpenConns \ Watched /\ compress_pollfd
RequestsReceived ==
  []<>(pc = "poll") =>
    \A f \in ConnFds :
      Waiting(f) ~> Received(f) \/ ~IsOpen(f) \/ end_server \/ ~InLoop \/ Forgotten(f)
=============================================================================
