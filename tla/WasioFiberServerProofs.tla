----------------------- MODULE WasioFiberServerProofs -----------------------
(***************************************************************************)
(* WasioFiberServer.tla for every capacity, every set of descriptors and    *)
(* every bound on what waits in the sockets, with and without DEBUG: the     *)
(* inductive invariant of wfd.fds and fibers, and what follows from it.  The *)
(* listener keeps the first slot as long as the server is not to end, which  *)
(* is why main polls something and why nothing is accepted behind a gap.     *)
(***************************************************************************)
EXTENDS WasioFiberServer, PollArrayProofs

Slots == 1 .. Len(wfd.fds)
InFiber == {"listener", "recv", "send", "return"}
InScan == {"scan"} \union InFiber

\* During a scan wfd.length is at most one too small for each slot that was
\* scanned, and for one slot less as long as the listener has its own.
LengthBounds ==
  /\ wfd.length <= Len(wfd.fds) /\ Len(wfd.fds) <= Capacity
  /\ InLoop => Len(fibers) = Len(wfd.fds)
  /\ pc \in InScan => /\ i < pollfd_size /\ pollfd_size <= Len(wfd.fds)
                      /\ wfd.length + i >= pollfd_size
                      /\ i > 0 /\ ~end_server => wfd.length + i > pollfd_size

\* What ArraysInSync says of a slot, that the listener is in the first, and
\* that no event of its socket is taken for a hang-up.
SlotsMatch ==
  InLoop => \A k \in Slots : wfd.fds[k].fd # NoFd =>
    LET f == wfd.fds[k].fd
    IN  /\ f \in OpenFds
        /\ fibers[k] = [fiber |-> f, fd |-> f]
        /\ fiber[f] # "none"
        /\ f = ListenFd => /\ k = 1
                           /\ pc \in InScan => "POLLHUP" \notin wfd.fds[k].revents
        /\ \A j \in Slots : wfd.fds[j].fd = f => j = k

\* A gap is behind the scan, and never without the flag that asks for the
\* compaction.
GapsMarked ==
  /\ pc \in InScan => \A k \in Slots : k > i => wfd.fds[k].fd # NoFd
  /\ InLoop /\ (~compress_pollfd \/ pc = "poll") =>
       wfd.length = Len(wfd.fds) /\ \A k \in Slots : wfd.fds[k].fd # NoFd

\* Nothing was closed or ended before the first slot was scanned.
RoundBegins == pc \in {"scan", "listener"} /\ i = 0 => ~compress_pollfd /\ ~end_server

\* The listener returns only when it has given up.
Roles == /\ pc = "listener" => fd = ListenFd
         /\ pc \in {"recv", "send"} => fd # ListenFd
         /\ pc = "return" /\ fd = ListenFd => end_server

\* What the clean-up has not closed yet is open, and in one slot only.
LeftToClose ==
  pc = "cleanup" => \A k \in Slots : k > i /\ wfd.fds[k].fd # NoFd =>
    /\ wfd.fds[k].fd \in OpenFds
    /\ \A j \in Slots : wfd.fds[j].fd = wfd.fds[k].fd => j = k

IInv == /\ TypeOK /\ LengthBounds /\ SlotsMatch /\ GapsMarked /\ RoundBegins /\ Roles
        /\ LeftToClose /\ ListenerKeepsSlot0 /\ FiberSeesOwnFd /\ OnlyShutdownAsserts

FiberStates == {"none", "fresh", "suspended"}
Closures == [fiber : Fds, fd : Fds \union {NoFd}]

----------------------------------------------------------------------------
\* What the invariant says about the two arrays.
LEMMA SlotsTyped ==
  ASSUME IInv
  PROVE  /\ SocketsTypeOK /\ ArrayTypeOK(wfd)
         /\ wfd.length \in Nat /\ Len(wfd.fds) \in Nat /\ wfd.length <= Len(wfd.fds)
         /\ wfd = [length |-> wfd.length, fds |-> wfd.fds]
         /\ DOMAIN wfd.fds = Slots /\ i \in Nat /\ pollfd_size \in Nat
         /\ fibers \in Seq(Closures) /\ fiber \in [Fds -> FiberStates]
         /\ end_server \in BOOLEAN /\ compress_pollfd \in BOOLEAN
         /\ pc \in InScan => i + 1 \in Slots /\ InLoop /\ i < pollfd_size
PROOF
<1>1. /\ ArrayTypeOK(wfd) /\ SocketsTypeOK /\ i \in Nat /\ pollfd_size \in Nat
      /\ fibers \in Seq(Closures) /\ fiber \in [Fds -> FiberStates]
      /\ end_server \in BOOLEAN /\ compress_pollfd \in BOOLEAN
      /\ pc \in InScan => i < pollfd_size /\ pollfd_size <= Len(wfd.fds)
      /\ wfd.length <= Len(wfd.fds)
  BY DEF IInv, TypeOK, WfdTypeOK, LengthBounds, FiberStates, Closures
<1>2. /\ wfd.length \in Nat /\ Len(wfd.fds) \in Nat /\ DOMAIN wfd.fds = 1 .. Len(wfd.fds)
      /\ wfd = [length |-> wfd.length, fds |-> wfd.fds]
  BY <1>1, ArrayFacts
<1>3. pc \in InScan => InLoop
  BY DEF InScan, InFiber, InLoop
<1> QED BY <1>1, <1>2, <1>3 DEF Slots

\* The slot that is scanned has a live fiber and an open descriptor.
LEMMA CurrentIsLive ==
  ASSUME IInv, pc \in InScan
  PROVE  /\ i + 1 \in Slots /\ Current = wfd.fds[i + 1] /\ Closure = fibers[i + 1]
         /\ Current.fd \in OpenFds /\ Current.fd \in Fds /\ Current.fd # NoFd
         /\ Closure = [fiber |-> Current.fd, fd |-> Current.fd]
         /\ Closure.fiber = Current.fd /\ Closure.fd = Current.fd
         /\ fiber[Current.fd] # "none"
         /\ Current.fd = ListenFd => i = 0 /\ "POLLHUP" \notin Current.revents
PROOF
<1>1. i + 1 \in Slots /\ i \in Nat /\ InLoop
  BY SlotsTyped
<1>2. wfd.fds[i + 1].fd # NoFd
  BY <1>1 DEF IInv, GapsMarked
<1>3. LET f == wfd.fds[i + 1].fd
      IN  /\ f \in OpenFds /\ fibers[i + 1] = [fiber |-> f, fd |-> f] /\ fiber[f] # "none"
          /\ f = ListenFd => i + 1 = 1 /\ "POLLHUP" \notin wfd.fds[i + 1].revents
  BY <1>1, <1>2 DEF IInv, SlotsMatch
<1> QED BY <1>1, <1>2, <1>3, DescriptorFacts DEF Current, Closure

\* The slot of the listener is the first, or its fiber is about to end.
LEMMA ListenerIsFirst ==
  ASSUME IInv, pc \in InScan, ~end_server
  PROVE  /\ 1 \in Slots /\ wfd.fds[1].fd = ListenFd /\ fiber[ListenFd] # "none"
         /\ Current.fd = ListenFd <=> i = 0
PROOF
<1>1. i + 1 \in Slots /\ i \in Nat /\ InLoop /\ Len(wfd.fds) \in Nat
  BY SlotsTyped
<1>2. 1 \in Slots /\ wfd.fds[1].fd = ListenFd /\ fiber[ListenFd] # "none"
  BY <1>1 DEF IInv, ListenerKeepsSlot0, Slots
<1> QED BY <1>1, <1>2, CurrentIsLive DEF Current

\* Main is in poll and stays there: nothing happened or poll() failed.
PollsAgain ==
  /\ pc = "poll" /\ pc' = "poll" /\ compress_pollfd' = FALSE
  /\ end_server' \in {TRUE, end_server}
  /\ UNCHANGED <<sock, backlog, wfd, fibers, fiber, i, pollfd_size, fd, failed>>

\* The steps that write neither array, free no fiber and open and close nothing.
Quiet == \/ PollsAgain \/ LeaveLoop \/ SkipSlot \/ BadEvent \/ Resume \/ ListenerFails
         \/ HandlerLosesPeer \/ HandlerReceives \/ HandlerSends \/ SendKills
         \/ KillFails \/ Exit \/ EnvNext \/ UNCHANGED vars

LEMMA QuietPreserves ==
  ASSUME IInv, Quiet
  PROVE  IInv'
PROOF
<1>1. /\ SocketsTypeOK /\ ArrayTypeOK(wfd) /\ Len(wfd.fds) \in Nat /\ wfd.length \in Nat
      /\ i \in Nat /\ pollfd_size \in Nat /\ DOMAIN wfd.fds = Slots
      /\ end_server \in BOOLEAN /\ compress_pollfd \in BOOLEAN
      /\ pc \in InScan => InLoop /\ i < pollfd_size
  BY SlotsTyped
<1>2. /\ UNCHANGED <<wfd, fibers, fiber, pollfd_size>>
      /\ compress_pollfd' = compress_pollfd \/ (pc = "poll" /\ pc' = "poll" /\ compress_pollfd' = FALSE)
  BY DEF Quiet, PollsAgain, LeaveLoop, SkipSlot, BadEvent, Resume, ListenerFails, HandlerLosesPeer,
         HandlerReceives, HandlerSends, SendKills, KillFails, Exit, EnvNext, vars, serverVars, Abort
<1>3. SocketsTypeOK' /\ OpenFds' = OpenFds
  <2>1. CASE UNCHANGED sockVars
    BY <1>1, <2>1 DEF sockVars, SocketsTypeOK, OpenFds, IsOpen
  <2>2. CASE ListenerFails
    BY <1>1, <2>2, HostAcceptErrorFacts DEF ListenerFails
  <2>3. CASE HandlerReceives
    BY <1>1, <2>3, HostRecvFacts DEF HandlerReceives
  <2>4. CASE EnvNext
    BY <1>1, <2>4, NetworkFacts DEF EnvNext
  <2> QED BY <2>1, <2>2, <2>3, <2>4
          DEF Quiet, PollsAgain, LeaveLoop, SkipSlot, BadEvent, Resume, HandlerLosesPeer,
              HandlerSends, SendKills, KillFails, Exit, Abort, vars, sockVars
<1>4. /\ InLoop' => InLoop
      /\ pc' \in InScan => pc \in InScan
      /\ pc' \in InScan /\ i' # i => pc' = "scan" /\ i' = i + 1 /\ i' < pollfd_size
      /\ pc' = "poll" => pc = "poll"
      /\ pc' \in InFiber /\ ~Resume => pc \in InFiber /\ i' = i
      /\ fd' = fd \/ Resume
  <2>1. CASE Resume
    BY <2>1 DEF Resume, Abort, InLoop, InScan, InFiber
  <2>2. CASE SkipSlot
    BY <2>2 DEF SkipSlot, NextSlot, InLoop, InScan, InFiber
  <2>3. CASE PollsAgain \/ LeaveLoop \/ BadEvent \/ KillFails \/ Exit
    <3>1. CASE PollsAgain \/ BadEvent
      BY <3>1 DEF PollsAgain, BadEvent, InLoop, InScan, InFiber
    <3>2. CASE LeaveLoop \/ KillFails \/ Exit
      <4>1. pc' \in {"aborted", "cleanup", "exited"} /\ fd' = fd
        BY <3>2 DEF LeaveLoop, KillFails, Exit, Abort
      <4> QED BY <4>1 DEF InLoop, InScan, InFiber
    <3> QED BY <2>3, <3>1, <3>2
  <2>4. CASE ListenerFails \/ HandlerLosesPeer \/ HandlerReceives \/ HandlerSends \/ SendKills
    BY <2>4 DEF ListenerFails, HandlerLosesPeer, HandlerReceives, HandlerSends, SendKills,
                InLoop, InScan, InFiber
  <2>5. CASE EnvNext \/ UNCHANGED vars
    <3>1. UNCHANGED <<pc, i, fd>>
      BY <2>5 DEF EnvNext, vars, serverVars
    <3> QED BY <3>1 DEF InLoop, InScan, InFiber
  <2> QED BY <2>1, <2>2, <2>3, <2>4, <2>5 DEF Quiet
<1>5. end_server' \in BOOLEAN /\ compress_pollfd' \in BOOLEAN /\ (end_server => end_server')
  <2>1. CASE HandlerReceives
    BY <1>1, <2>1 DEF HandlerReceives
  <2>2. CASE ~HandlerReceives
    <3>1. end_server' \in {TRUE, end_server}
      BY <2>2 DEF Quiet, PollsAgain, LeaveLoop, SkipSlot, BadEvent, Resume, ListenerFails,
             HandlerLosesPeer, HandlerSends, SendKills, KillFails, Exit, EnvNext, vars, serverVars,
             Abort
    <3> QED BY <1>1, <1>2, <3>1
  <2> QED BY <1>1, <1>2, <2>1, <2>2
<1>6. OnlyShutdownAsserts' /\ failed' \in {0, 52, 56, 150, 205, 292, 320, 328, 330, 334}
  <2>1. failed \in {0, 52, 56, 150, 205, 292, 320, 328, 330, 334} /\ OnlyShutdownAsserts
    BY DEF IInv, TypeOK
  <2>2. CASE Resume
    <3>1. ~(Current.fd < 4)
      <4>1. pc \in InScan
        BY <2>2 DEF Resume, InScan
      <4>2. \A f \in Fds : ~(f < 4)
        BY ConnFdsAssumption DEF Fds, ListenFd
      <4> QED BY <4>1, <4>2, CurrentIsLive
    <3>2. failed' = failed \/ (Debug /\ failed' \in {56, 150})
      BY <2>2, <3>1 DEF Resume, Abort
    <3> QED BY <2>1, <3>2 DEF OnlyShutdownAsserts
  <2>3. CASE LeaveLoop \/ KillFails \/ Exit
    <3>1. failed' = failed \/ (Debug /\ failed' \in {56, 150, 320, 328, 334})
      BY <2>3 DEF LeaveLoop, KillFails, Exit, Abort
    <3> QED BY <2>1, <3>1 DEF OnlyShutdownAsserts
  <2>4. CASE failed' = failed
    BY <2>1, <2>4 DEF OnlyShutdownAsserts
  <2> QED BY <2>2, <2>3, <2>4 DEF Quiet, PollsAgain, SkipSlot, BadEvent, ListenerFails,
             HandlerLosesPeer, HandlerReceives, HandlerSends, SendKills, EnvNext, vars, serverVars
<1>7. /\ pc' \in {"poll", "scan", "listener", "recv", "send", "return", "compress",
                  "cleanup"} \union Stopped
      /\ i' \in Nat
  <2>1. i' \in {i, i + 1, 0}
    BY DEF Quiet, PollsAgain, LeaveLoop, SkipSlot, BadEvent, Resume, ListenerFails,
           HandlerLosesPeer, HandlerReceives, HandlerSends, SendKills, KillFails, Exit, EnvNext,
           vars, serverVars, Abort, NextSlot
  <2>2. \/ pc' = pc
        \/ pc' \in {"poll", "scan", "listener", "recv", "send", "return", "compress", "cleanup",
                    "exited", "aborted", "killed"}
    BY DEF Quiet, PollsAgain, LeaveLoop, SkipSlot, BadEvent, Resume, ListenerFails,
           HandlerLosesPeer, HandlerReceives, HandlerSends, SendKills, KillFails, Exit, EnvNext,
           vars, serverVars, Abort, NextSlot
  <2> QED BY <1>1, <2>1, <2>2 DEF IInv, TypeOK, Stopped
<1>8. fd' \in Fds \union {NoFd, FIBER_KILL_SIGNAL} /\ Roles' /\ FiberSeesOwnFd'
  <2>1. CASE Resume /\ pc' \in InFiber
    <3>1. /\ pc \in InScan /\ i' = i /\ fd' = Current.fd /\ fibers' = fibers /\ wfd' = wfd
          /\ pc' = IF Closure.fiber = ListenFd THEN "listener" ELSE "recv"
      BY <2>1 DEF Resume, InScan, InFiber, Abort
    <3>2. Current' = Current /\ Closure' = Closure
      BY <3>1 DEF Current, Closure
    <3>3. Closure.fiber = Current.fd /\ fd' \in OpenFds /\ fd' \in Fds
      BY <3>1, CurrentIsLive
    <3>4. IsOpen(fd)'
      BY <1>3, <3>3, DescriptorFacts DEF OpenFds, IsOpen
    <3> QED BY <3>1, <3>2, <3>3, <3>4 DEF Roles, FiberSeesOwnFd
  <2>2. CASE Resume /\ pc' \notin InFiber
    <3>1. fd' = fd
      BY <2>2 DEF Resume, InFiber, Abort
    <3> QED BY <2>2, <3>1 DEF IInv, TypeOK, Roles, FiberSeesOwnFd, InFiber
  <2>3. CASE ~Resume
    <3>1. fd' = fd /\ (pc' \in InFiber => pc \in InFiber /\ i' = i)
      BY <1>4, <2>3
    <3>2. fd' \in Fds \union {NoFd, FIBER_KILL_SIGNAL}
      BY <3>1 DEF IInv, TypeOK
    <3>3. Roles'
      <4>1. /\ pc' = "listener" => pc = "listener"
            /\ pc' \in {"recv", "send"} => pc \in {"recv", "send"}
            /\ pc' = "return" => pc \in {"recv", "send", "return"} \/ end_server'
        BY <2>3 DEF Quiet, PollsAgain, LeaveLoop, SkipSlot, BadEvent, ListenerFails,
               HandlerLosesPeer, HandlerReceives, HandlerSends, SendKills, KillFails, Exit, EnvNext,
               vars, serverVars, Abort, NextSlot
      <4> QED BY <1>5, <3>1, <4>1 DEF IInv, Roles
    <3>4. ASSUME pc' \in InFiber
          PROVE  fd' = Closure'.fiber /\ fd' = Current'.fd /\ IsOpen(fd)'
      <4>1. fd = Closure.fiber /\ fd = Current.fd /\ fd \in OpenFds
        BY <3>1, <3>4, DescriptorFacts DEF IInv, FiberSeesOwnFd, InFiber
      <4>2. Closure' = Closure /\ Current' = Current
        BY <1>2, <3>1, <3>4 DEF Closure, Current
      <4>3. fd' \in OpenFds'
        BY <1>3, <3>1, <4>1
      <4> QED BY <3>1, <4>1, <4>2, <4>3 DEF OpenFds
    <3> QED BY <3>2, <3>3, <3>4 DEF FiberSeesOwnFd, InFiber
  <2> QED BY <2>1, <2>2, <2>3
<1>9. TypeOK'
  BY <1>1, <1>2, <1>3, <1>5, <1>6, <1>7, <1>8 DEF IInv, TypeOK, WfdTypeOK
<1>10. LengthBounds'
  BY <1>1, <1>2, <1>4, <1>5 DEF IInv, LengthBounds
<1>11. SlotsMatch'
  BY <1>2, <1>3, <1>4 DEF IInv, SlotsMatch, Slots
<1>12. GapsMarked'
  BY <1>1, <1>2, <1>4 DEF IInv, GapsMarked, Slots
<1>13. ListenerKeepsSlot0'
  BY <1>2, <1>4, <1>5 DEF IInv, ListenerKeepsSlot0
<1>14. RoundBegins'
  <2>1. pc' \in {"scan", "listener"} =>
          /\ pc \in {"scan", "listener"} /\ i' \in {i, i + 1}
          /\ end_server' = end_server /\ compress_pollfd' = compress_pollfd
    BY DEF Quiet, PollsAgain, LeaveLoop, SkipSlot, BadEvent, Resume, ListenerFails,
           HandlerLosesPeer, HandlerReceives, HandlerSends, SendKills, KillFails, Exit, EnvNext,
           vars, serverVars, Abort, NextSlot
  <2> QED BY <1>1, <2>1 DEF IInv, RoundBegins
<1>15. LeftToClose'
  <2>1. pc' = "cleanup" => InLoop \/ (pc = "cleanup" /\ i' = i)
    BY DEF Quiet, PollsAgain, LeaveLoop, SkipSlot, BadEvent, Resume, ListenerFails,
           HandlerLosesPeer, HandlerReceives, HandlerSends, SendKills, KillFails, Exit, EnvNext,
           vars, serverVars, Abort, NextSlot, InLoop
  <2>2. CASE InLoop
    BY <1>2, <1>3, <2>2 DEF IInv, SlotsMatch, LeftToClose, Slots
  <2>3. CASE pc = "cleanup" /\ i' = i
    BY <1>2, <1>3, <2>3 DEF IInv, LeftToClose, Slots
  <2> QED BY <2>1, <2>2, <2>3 DEF LeftToClose
<1> QED BY <1>6, <1>8, <1>9, <1>10, <1>11, <1>12, <1>13, <1>14, <1>15 DEF IInv

\* poll() found something: the scan begins, with every slot in use and no
\* event of the listener's but POLLIN.
LEMMA PollPreserves ==
  ASSUME IInv, Poll \/ PollFails
  PROVE  IInv'
PROOF
<1>1. CASE PollsAgain
  BY <1>1, QuietPreserves DEF Quiet
<1>2. CASE /\ pc = "poll" /\ ~end_server /\ compress_pollfd' = FALSE /\ WasioPoll
           /\ pc' = "scan" /\ i' = 0 /\ pollfd_size' = wfd.length
           /\ UNCHANGED <<sock, backlog, fibers, fiber, end_server, fd, failed>>
  <2>1. /\ SocketsTypeOK /\ ArrayTypeOK(wfd) /\ Len(wfd.fds) \in Nat /\ DOMAIN wfd.fds = Slots
        /\ wfd.length \in Nat /\ end_server \in BOOLEAN
    BY SlotsTyped
  <2>2. /\ InLoop /\ wfd.length = Len(wfd.fds) /\ \A k \in Slots : wfd.fds[k].fd # NoFd
    BY <1>2 DEF IInv, GapsMarked, InLoop
  <2>3. wfd.length > 0
    <3>1. PICK k \in ReadySlots(wfd) : TRUE
      BY <1>2 DEF WasioPoll
    <3> QED BY <2>1, <3>1 DEF ReadySlots, Slots
  <2>4. /\ ArrayTypeOK(wfd') /\ wfd'.length = wfd.length /\ Len(wfd'.fds) = Len(wfd.fds)
        /\ Slots' = Slots /\ \A k \in Slots : /\ wfd'.fds[k].fd = wfd.fds[k].fd
                                              /\ wfd'.fds[k].revents = Revents(wfd.fds[k].fd)
    <3>1. wfd' = Polled(wfd) /\ \A k \in Slots : k <= wfd.length
      BY <1>2, <2>1, <2>2 DEF WasioPoll, Slots
    <3> QED BY <2>1, <3>1, PolledFacts DEF Slots
  <2>5. SocketsTypeOK' /\ OpenFds' = OpenFds
    BY <1>2, <2>1 DEF SocketsTypeOK, OpenFds, IsOpen
  <2>6. TypeOK'
    <3>1. TypeOK /\ compress_pollfd' \in BOOLEAN /\ i' \in Nat /\ pollfd_size' \in Nat
      BY <1>2, <2>1 DEF IInv
    <3> QED BY <1>2, <2>4, <2>5, <3>1 DEF TypeOK, WfdTypeOK
  <2>7. LengthBounds' /\ GapsMarked'
    BY <1>2, <2>1, <2>2, <2>3, <2>4 DEF IInv, LengthBounds, GapsMarked
  <2>8. SlotsMatch'
    <3>1. IsOpen(ListenFd) => "POLLHUP" \notin Revents(ListenFd)
      BY DEF Revents, ListenFd
    <3>2. ASSUME NEW k \in Slots
          PROVE  LET f == wfd.fds[k].fd
                 IN  /\ f \in OpenFds /\ fibers[k] = [fiber |-> f, fd |-> f] /\ fiber[f] # "none"
                     /\ f = ListenFd => k = 1
                     /\ \A j \in Slots : wfd.fds[j].fd = f => j = k
      BY <2>2 DEF IInv, SlotsMatch
    <3>3. ASSUME NEW k \in Slots, wfd.fds[k].fd = ListenFd
          PROVE  "POLLHUP" \notin wfd'.fds[k].revents
      BY <2>4, <3>1, <3>2, <3>3, DescriptorFacts
    <3> QED BY <1>2, <2>4, <2>5, <3>2, <3>3 DEF SlotsMatch
  <2>9. ListenerKeepsSlot0'
    BY <1>2, <2>1, <2>2, <2>3, <2>4 DEF IInv, ListenerKeepsSlot0, Slots
  <2>10. RoundBegins' /\ Roles' /\ LeftToClose' /\ FiberSeesOwnFd' /\ OnlyShutdownAsserts'
    BY <1>2 DEF IInv, RoundBegins, Roles, LeftToClose, FiberSeesOwnFd, OnlyShutdownAsserts
  <2> QED BY <2>6, <2>7, <2>8, <2>9, <2>10 DEF IInv
<1> QED BY <1>1, <1>2 DEF Poll, PollFails, PollsAgain, sockVars

\* What happens to the slots when the one that is scanned is given up.
SlotGoes ==
  /\ ArrayTypeOK(wfd') /\ Len(wfd'.fds) = Len(wfd.fds)
  /\ wfd'.length \in {wfd.length - 1, wfd.length}
  /\ wfd'.fds[i + 1].fd = NoFd
  /\ \A k \in Slots : k # i + 1 => wfd'.fds[k] = wfd.fds[k]

\* The slot that is scanned loses its descriptor, length being counted down
\* or not.
LEMMA ClearingWithLength ==
  ASSUME IInv, pc \in InScan, NEW m \in Nat, m \in {wfd.length - 1, wfd.length},
         wfd' = [length |-> m, fds |-> [wfd.fds EXCEPT ![i + 1].fd = NoFd]]
  PROVE  SlotGoes
PROOF
<1>1. ArrayTypeOK(wfd) /\ i + 1 \in 1 .. Len(wfd.fds)
  BY SlotsTyped DEF Slots
<1>2. /\ ArrayTypeOK(wfd') /\ wfd'.length = m /\ Len(wfd'.fds) = Len(wfd.fds)
      /\ wfd'.fds[i + 1].fd = NoFd
      /\ \A k \in 1 .. Len(wfd.fds) : k # i + 1 => wfd'.fds[k] = wfd.fds[k]
  BY <1>1, ClearedFacts
<1> QED BY <1>2 DEF SlotGoes, Slots

\* There is a slot left for length to be counted down.
LEMMA CountingDown ==
  ASSUME IInv, pc \in InScan, wfd' = [wfd EXCEPT !.fds[i + 1].fd = NoFd, !.length = @ - 1]
  PROVE  SlotGoes
PROOF
<1>1. /\ i \in Nat /\ i < pollfd_size /\ pollfd_size \in Nat /\ wfd.length \in Nat
      /\ wfd = [length |-> wfd.length, fds |-> wfd.fds]
  BY SlotsTyped
<1>2. PICK m \in Nat : m = wfd.length - 1
  BY <1>1 DEF IInv, LengthBounds
<1>3. wfd' = [length |-> m, fds |-> [wfd.fds EXCEPT ![i + 1].fd = NoFd]]
  BY <1>1, <1>2
<1> QED BY <1>2, <1>3, ClearingWithLength

\* A slot that is cleared without that leaves length too large.
LEMMA ClearingOnly ==
  ASSUME IInv, pc \in InScan, wfd' = [wfd EXCEPT !.fds[i + 1].fd = NoFd]
  PROVE  SlotGoes
PROOF
<1>1. /\ wfd.length \in Nat /\ wfd = [length |-> wfd.length, fds |-> wfd.fds]
  BY SlotsTyped
<1>2. wfd' = [length |-> wfd.length, fds |-> [wfd.fds EXCEPT ![i + 1].fd = NoFd]]
  BY <1>1
<1> QED BY <1>1, <1>2, ClearingWithLength

\* The slot that is scanned is given up: its fiber is freed and its descriptor
\* closed, or one of them is only forgotten.  The listener's slot goes only
\* when the server is to end.
LEMMA GivenUpPreserves ==
  ASSUME IInv, pc \in InScan, SlotGoes, NEW f, f = Current.fd,
         f # ListenFd \/ end_server', end_server => end_server', end_server' \in BOOLEAN,
         Len(fibers') = Len(fibers), fibers' \in Seq(Closures),
         \A k \in Slots : k # i + 1 => fibers'[k] = fibers[k],
         fiber' \in [Fds -> FiberStates], \A g \in Fds : g # f => fiber'[g] = fiber[g],
         SocketsTypeOK', OpenFds' = OpenFds \/ OpenFds' = OpenFds \ {f},
         compress_pollfd' = TRUE, NextSlot, UNCHANGED <<pollfd_size, fd, failed>>
  PROVE  IInv'
PROOF
<1>1. /\ ArrayTypeOK(wfd) /\ Len(wfd.fds) \in Nat /\ DOMAIN wfd.fds = Slots /\ wfd.length \in Nat
      /\ i \in Nat /\ pollfd_size \in Nat /\ wfd.length <= Len(wfd.fds)
      /\ i + 1 \in Slots /\ InLoop /\ i < pollfd_size
  BY SlotsTyped
<1>2. /\ i' = i + 1 /\ pc' \in {"scan", "compress"} /\ (pc' = "scan" => i' < pollfd_size)
  BY DEF NextSlot
<1>3. InLoop' /\ pc' \notin InFiber /\ (pc' \in InScan => pc' = "scan")
  BY <1>2 DEF InLoop, InFiber, InScan
<1>4. /\ ArrayTypeOK(wfd') /\ Len(wfd'.fds) = Len(wfd.fds) /\ Slots' = Slots
      /\ wfd'.length \in {wfd.length - 1, wfd.length}
      /\ wfd'.fds[i + 1].fd = NoFd
      /\ \A k \in Slots : k # i + 1 => wfd'.fds[k] = wfd.fds[k]
  BY DEF SlotGoes, Slots
<1>5. Len(fibers') = Len(wfd'.fds) /\ Len(fibers) = Len(wfd.fds)
  BY <1>1, <1>4 DEF IInv, LengthBounds
<1>6. TypeOK'
  BY <1>1, <1>2, <1>4 DEF IInv, TypeOK, WfdTypeOK, FiberStates, Closures
<1>7. wfd'.length + i' >= pollfd_size /\ wfd'.length \in Nat
  <2>1. wfd.length + i >= pollfd_size
    BY DEF IInv, LengthBounds
  <2> QED BY <1>1, <1>2, <1>4, <2>1, ArrayFacts
<1>8. ~end_server' => /\ wfd'.length + i' > pollfd_size /\ wfd'.length > 0
                      /\ 1 \in Slots /\ i # 0 /\ f # ListenFd
                      /\ wfd.fds[1].fd = ListenFd /\ fiber[ListenFd] # "none"
  <2> SUFFICES ASSUME ~end_server'
               PROVE  /\ wfd'.length + i' > pollfd_size /\ wfd'.length > 0
                      /\ 1 \in Slots /\ i # 0 /\ f # ListenFd
                      /\ wfd.fds[1].fd = ListenFd /\ fiber[ListenFd] # "none"
    OBVIOUS
  <2>1. ~end_server /\ f # ListenFd
    OBVIOUS
  <2>2. 1 \in Slots /\ i # 0 /\ wfd.fds[1].fd = ListenFd /\ fiber[ListenFd] # "none"
    BY <2>1, ListenerIsFirst
  <2>3. wfd.length + i > pollfd_size
    BY <1>1, <2>1, <2>2 DEF IInv, LengthBounds
  <2>4. wfd'.length + i' > pollfd_size
    BY <1>1, <1>2, <1>4, <2>3
  <2>5. wfd'.length > 0
    BY <1>1, <1>2, <1>7, <2>4
  <2> QED BY <2>1, <2>2, <2>4, <2>5
<1>9. LengthBounds' /\ GapsMarked'
  <2>1. LengthBounds'
    <3>1. wfd'.length <= Len(wfd'.fds)
      BY <1>1, <1>4
    <3>2. pc' \in InScan => i' < pollfd_size /\ pollfd_size <= Len(wfd'.fds)
      BY <1>2, <1>3, <1>4 DEF IInv, LengthBounds
    <3> QED BY <1>4, <1>5, <1>7, <1>8, <3>1, <3>2 DEF IInv, LengthBounds
  <2>2. GapsMarked'
    BY <1>1, <1>2, <1>3, <1>4 DEF IInv, GapsMarked, Slots
  <2> QED BY <2>1, <2>2
<1>10. SlotsMatch'
  <2> SUFFICES ASSUME NEW k \in Slots, wfd'.fds[k].fd # NoFd
               PROVE  LET g == wfd'.fds[k].fd
                      IN  /\ g \in OpenFds' /\ fibers'[k] = [fiber |-> g, fd |-> g]
                          /\ fiber'[g] # "none"
                          /\ g = ListenFd => k = 1 /\ "POLLHUP" \notin wfd'.fds[k].revents
                          /\ \A j \in Slots : wfd'.fds[j].fd = g => j = k
    BY <1>4 DEF SlotsMatch
  <2>1. k # i + 1 /\ wfd'.fds[k] = wfd.fds[k] /\ fibers'[k] = fibers[k]
    BY <1>4
  <2>2. LET g == wfd.fds[k].fd
        IN  /\ g \in OpenFds /\ fibers[k] = [fiber |-> g, fd |-> g] /\ fiber[g] # "none"
            /\ g = ListenFd => k = 1 /\ "POLLHUP" \notin wfd.fds[k].revents
            /\ \A j \in Slots : wfd.fds[j].fd = g => j = k
    BY <1>1, <2>1 DEF IInv, SlotsMatch
  <2>3. wfd.fds[k].fd # f /\ f = wfd.fds[i + 1].fd
    BY <1>1, <2>1, <2>2 DEF Current
  <2>4. wfd.fds[k].fd \in OpenFds' /\ wfd.fds[k].fd \in Fds
    BY <2>2, <2>3, DescriptorFacts
  <2>5. \A j \in Slots : wfd'.fds[j].fd = wfd.fds[k].fd => j = k
    BY <1>4, <2>1, <2>2
  <2> QED BY <2>1, <2>2, <2>3, <2>4, <2>5
<1>11. RoundBegins' /\ Roles' /\ LeftToClose' /\ FiberSeesOwnFd'
  BY <1>1, <1>2, <1>3 DEF RoundBegins, Roles, LeftToClose, FiberSeesOwnFd, InFiber
<1>12. ListenerKeepsSlot0'
  BY <1>1, <1>4, <1>8, DescriptorFacts DEF ListenerKeepsSlot0
<1>13. OnlyShutdownAsserts'
  BY DEF IInv, OnlyShutdownAsserts
<1> QED BY <1>6, <1>9, <1>10, <1>11, <1>12, <1>13 DEF IInv

\* A hang-up: the fiber is freed, the descriptor only forgotten; it is never
\* the listener's.
LEMMA HangUpPreserves ==
  ASSUME IInv, HangUp
  PROVE  IInv'
PROOF
<1>1. /\ pc \in InScan /\ NextSlot /\ compress_pollfd' = TRUE /\ end_server' = end_server
      /\ UNCHANGED <<sock, backlog, pollfd_size, fd, failed>>
      /\ "POLLHUP" \in Current.revents
      /\ fiber' = [fiber EXCEPT ![Closure.fiber] = "none"]
      /\ fibers' = [fibers EXCEPT ![i + 1].fd = NoFd]
      /\ wfd' = [wfd EXCEPT !.fds[i + 1].fd = NoFd, !.length = @ - 1]
  BY DEF HangUp, InScan, sockVars
<1>2. /\ fibers \in Seq(Closures) /\ fiber \in [Fds -> FiberStates]
      /\ SocketsTypeOK /\ Len(fibers) = Len(wfd.fds) /\ end_server \in BOOLEAN
  BY <1>1, SlotsTyped DEF IInv, LengthBounds
<1>3. /\ i + 1 \in Slots /\ Closure.fiber = Current.fd /\ Current.fd \in Fds
      /\ Current.fd # ListenFd
  BY <1>1, CurrentIsLive
<1>4. SlotGoes
  BY <1>1, CountingDown
<1>5. /\ fibers' \in Seq(Closures) /\ Len(fibers') = Len(fibers)
      /\ \A k \in Slots : k # i + 1 => fibers'[k] = fibers[k]
  <2>1. \A x \in Closures : [x EXCEPT !.fd = NoFd] \in Closures
    BY DEF Closures
  <2>2. Len(fibers) \in Nat /\ fibers \in [1 .. Len(fibers) -> Closures]
    BY <1>2, LenProperties
  <2>3. /\ fibers' \in [1 .. Len(fibers) -> Closures]
        /\ \A k \in 1 .. Len(fibers) : k # i + 1 => fibers'[k] = fibers[k]
    BY <1>1, <2>1, <2>2
  <2>4. fibers' \in Seq(Closures) /\ Len(fibers') = Len(fibers)
    BY <2>2, <2>3, FunctionIsSeq
  <2> QED BY <1>2, <2>3, <2>4 DEF Slots
<1>6. /\ fiber' \in [Fds -> FiberStates]
      /\ \A g \in Fds : g # Current.fd => fiber'[g] = fiber[g]
  BY <1>1, <1>2, <1>3 DEF FiberStates
<1>7. SocketsTypeOK' /\ OpenFds' = OpenFds
  BY <1>1, <1>2 DEF SocketsTypeOK, OpenFds, IsOpen
<1> QED BY <1>1, <1>2, <1>3, <1>4, <1>5, <1>6, <1>7, GivenUpPreserves

\* What a fiber that returned or failed leaves behind: its descriptor was open,
\* and it was the listener only if the server is to end.
LEMMA FinishedFacts ==
  ASSUME IInv, FiberError \/ FiberReturns
  PROVE  /\ pc \in InFiber /\ pc \in InScan /\ NextSlot /\ compress_pollfd' = TRUE
         /\ end_server' \in BOOLEAN /\ (end_server => end_server')
         /\ Current.fd # ListenFd \/ end_server'
         /\ HostClose(Current.fd)
         /\ UNCHANGED <<fibers, pollfd_size, fd, failed>>
         /\ fiber' = [fiber EXCEPT ![Current.fd] = "none"]
         /\ wfd' = [wfd EXCEPT !.fds[i + 1].fd = NoFd, !.length = @ - 1]
PROOF
<1>1. pc \in InFiber /\ pc \in InScan
  BY DEF FiberError, FiberReturns, InScan, InFiber
<1>2. Closure.fiber = Current.fd /\ Closure.fd = Current.fd /\ IsOpen(Closure.fd)
  BY <1>1, CurrentIsLive, DescriptorFacts
<1>3. end_server \in BOOLEAN
  BY SlotsTyped
<1>4. CASE FiberError
  BY <1>1, <1>2, <1>4 DEF FiberError, Finished
<1>5. CASE FiberReturns
  <2>1. Current.fd # ListenFd \/ end_server
    BY <1>1, <1>5 DEF FiberReturns, IInv, Roles, FiberSeesOwnFd, InFiber
  <2> QED BY <1>1, <1>2, <1>3, <1>5, <2>1 DEF FiberReturns, Finished
<1> QED BY <1>4, <1>5

\* So the invariant is kept when a fiber returned or failed.
LEMMA FinishedPreserves ==
  ASSUME IInv, FiberError \/ FiberReturns
  PROVE  IInv'
PROOF
<1>1. pc \in InScan /\ HostClose(Current.fd) /\ UNCHANGED fibers
  BY FinishedFacts
<1>2. fibers \in Seq(Closures) /\ fiber \in [Fds -> FiberStates] /\ SocketsTypeOK
  BY SlotsTyped
<1>3. Current.fd \in Fds
  BY <1>1, CurrentIsLive
<1>4. SlotGoes
  BY FinishedFacts, CountingDown
<1>5. /\ fiber' \in [Fds -> FiberStates]
      /\ \A g \in Fds : g # Current.fd => fiber'[g] = fiber[g]
  BY <1>2, <1>3, FinishedFacts DEF FiberStates
<1>6. SocketsTypeOK' /\ OpenFds' = OpenFds \ {Current.fd}
  BY <1>1, <1>2, HostCloseFacts
<1> QED BY <1>1, <1>2, <1>4, <1>5, <1>6, FinishedFacts, GivenUpPreserves

\* What a fiber that yielded leaves behind; the listener yields before a slot
\* was given up, so it keeps its own.
LEMMA YieldedFacts ==
  ASSUME IInv, ListenerYields \/ HandlerYields
  PROVE  /\ pc \in InFiber /\ pc \in InScan /\ NextSlot
         /\ UNCHANGED <<sock, backlog, fibers, pollfd_size, end_server, compress_pollfd, fd, failed>>
         /\ fiber' = [fiber EXCEPT ![Current.fd] = "suspended"]
         /\ wfd' = IF compress_pollfd THEN [wfd EXCEPT !.fds[i + 1].fd = NoFd] ELSE wfd
         /\ compress_pollfd => Current.fd # ListenFd
PROOF
<1>1. pc \in InFiber /\ pc \in InScan /\ pc \in {"listener", "recv"} /\ Yielded
  BY DEF ListenerYields, HandlerYields, InScan, InFiber
<1>2. Closure.fiber = Current.fd /\ (Current.fd = ListenFd => i = 0)
  BY <1>1, CurrentIsLive
<1>3. fd = Current.fd
  BY <1>1 DEF IInv, FiberSeesOwnFd
<1>4. compress_pollfd => Current.fd # ListenFd
  BY <1>1, <1>2, <1>3 DEF IInv, Roles, RoundBegins
<1> QED BY <1>1, <1>2, <1>4 DEF Yielded, sockVars

\* A fiber has yielded; once a slot was given up its slot goes too, with the
\* descriptor open and the fiber alive.
LEMMA YieldedPreserves ==
  ASSUME IInv, ListenerYields \/ HandlerYields
  PROVE  IInv'
PROOF
<1>1. /\ pc \in InScan /\ NextSlot
      /\ UNCHANGED <<sock, backlog, fibers, pollfd_size, end_server, compress_pollfd, fd, failed>>
      /\ fiber' = [fiber EXCEPT ![Current.fd] = "suspended"]
      /\ wfd' = IF compress_pollfd THEN [wfd EXCEPT !.fds[i + 1].fd = NoFd] ELSE wfd
      /\ compress_pollfd => Current.fd # ListenFd
  BY YieldedFacts
<1>2. /\ fibers \in Seq(Closures) /\ fiber \in [Fds -> FiberStates]
      /\ SocketsTypeOK /\ ArrayTypeOK(wfd) /\ Len(wfd.fds) \in Nat /\ wfd.length \in Nat
      /\ i \in Nat /\ pollfd_size \in Nat /\ InLoop /\ i < pollfd_size
      /\ end_server \in BOOLEAN /\ compress_pollfd \in BOOLEAN
  BY <1>1, SlotsTyped
<1>3. Current.fd \in Fds
  BY <1>1, CurrentIsLive
<1>4. /\ fiber' \in [Fds -> FiberStates] /\ fiber'[Current.fd] = "suspended"
      /\ \A g \in Fds : g # Current.fd => fiber'[g] = fiber[g]
  BY <1>1, <1>2, <1>3 DEF FiberStates
<1>5. SocketsTypeOK' /\ OpenFds' = OpenFds
  BY <1>1, <1>2 DEF SocketsTypeOK, OpenFds, IsOpen
<1>6. CASE compress_pollfd
  <2>1. SlotGoes
    BY <1>1, <1>6, ClearingOnly
  <2> QED BY <1>1, <1>2, <1>4, <1>5, <1>6, <2>1, GivenUpPreserves
<1>7. CASE ~compress_pollfd
  <2>1. wfd' = wfd /\ Slots' = Slots
    BY <1>1, <1>7 DEF Slots
  <2>2. i' = i + 1 /\ pc' \in {"scan", "compress"} /\ (pc' = "scan" => i' < pollfd_size)
    BY <1>1 DEF NextSlot
  <2>3. InLoop' /\ pc' \notin InFiber /\ (pc' \in InScan => pc' = "scan")
    BY <2>2 DEF InLoop, InFiber, InScan
  <2>4. TypeOK'
    <3>1. i' \in Nat
      BY <1>2, <2>2
    <3>2. TypeOK /\ UNCHANGED <<wfd, fibers, pollfd_size, end_server, compress_pollfd, fd, failed>>
      BY <1>1, <2>1 DEF IInv
    <3> QED BY <1>4, <1>5, <2>2, <3>1, <3>2 DEF TypeOK, WfdTypeOK, FiberStates
  <2>5. LengthBounds' /\ GapsMarked'
    <3>1. wfd.length = Len(wfd.fds) /\ \A k \in Slots : wfd.fds[k].fd # NoFd
      BY <1>2, <1>7 DEF IInv, GapsMarked
    <3>2. pollfd_size <= Len(wfd.fds)
      BY <1>1 DEF IInv, LengthBounds
    <3>3. wfd.length + i' > pollfd_size
      <4>1. i' \in Nat /\ i' > 0
        BY <1>2, <2>2
      <4>2. wfd.length \in Nat /\ pollfd_size \in Nat /\ pollfd_size <= wfd.length
        BY <1>2, <3>1, <3>2
      <4> QED BY <4>1, <4>2
    <3>4. LengthBounds'
      BY <1>1, <1>2, <2>1, <2>2, <2>3, <3>2, <3>3 DEF IInv, LengthBounds
    <3>5. GapsMarked'
      BY <2>1, <3>1 DEF GapsMarked
    <3> QED BY <3>4, <3>5
  <2>6. SlotsMatch'
    <3>1. \A k \in Slots : wfd.fds[k].fd # NoFd =>
            /\ wfd.fds[k].fd \in Fds /\ fiber'[wfd.fds[k].fd] # "none"
      BY <1>2, <1>4, DescriptorFacts DEF IInv, SlotsMatch
    <3>2. SlotsMatch
      BY DEF IInv
    <3>3. UNCHANGED <<wfd, fibers>> /\ OpenFds' = OpenFds /\ InLoop /\ pc \in InScan
      BY <1>1, <1>2, <1>5, <2>1
    <3>4. ASSUME NEW k \in Slots, wfd.fds[k].fd # NoFd
          PROVE  LET f == wfd.fds[k].fd
                 IN  /\ f \in OpenFds /\ fibers[k] = [fiber |-> f, fd |-> f]
                     /\ f = ListenFd => k = 1 /\ "POLLHUP" \notin wfd.fds[k].revents
                     /\ \A j \in Slots : wfd.fds[j].fd = f => j = k
      BY <3>2, <3>3, <3>4 DEF SlotsMatch
    <3> QED BY <2>1, <3>1, <3>3, <3>4 DEF SlotsMatch
  <2>7. RoundBegins' /\ Roles' /\ LeftToClose' /\ FiberSeesOwnFd'
    BY <1>2, <2>2, <2>3 DEF RoundBegins, Roles, LeftToClose, FiberSeesOwnFd
  <2>8. ListenerKeepsSlot0' /\ OnlyShutdownAsserts'
    BY <1>1, <1>2, <1>4, <2>1, DescriptorFacts DEF IInv, ListenerKeepsSlot0, OnlyShutdownAsserts
  <2> QED BY <2>4, <2>5, <2>6, <2>7, <2>8 DEF IInv
<1> QED BY <1>2, <1>6, <1>7

\* The listener runs in the first slot, so nothing was given up in this round
\* and the descriptor and its closure get the same new slot; the assertion
\* in wasio_accept holds.
LEMMA AcceptFacts ==
  ASSUME IInv, ListenerAccepts
  PROVE  /\ pc = "listener" /\ pc \in InScan /\ i = 0 /\ ~compress_pollfd /\ ~end_server
         /\ wfd.length = Len(wfd.fds) /\ Len(fibers) = Len(wfd.fds) /\ wfd.length < Capacity
         /\ \A k \in Slots : wfd.fds[k].fd # NoFd
         /\ UNCHANGED <<pc, i, pollfd_size, end_server, compress_pollfd, fd, failed>>
         /\ \E f \in ConnFds :
              /\ HostAccept(f)
              /\ wfd' = WithSlot(wfd, f)
              /\ fibers' = PutAt(fibers, wfd.length, [fiber |-> f, fd |-> f])
              /\ fiber' = [fiber EXCEPT ![f] = "fresh"]
PROOF
<1>1. pc = "listener" /\ wfd.length # Capacity /\ pc \in InScan
  BY DEF ListenerAccepts, InScan, InFiber
<1>2. InLoop /\ Len(wfd.fds) \in Nat
  BY <1>1, SlotsTyped
<1>3. i = 0
  <2>1. fd = Current.fd /\ fd = ListenFd
    BY <1>1 DEF IInv, FiberSeesOwnFd, Roles
  <2> QED BY <1>1, <2>1, CurrentIsLive
<1>4. /\ ~compress_pollfd /\ ~end_server /\ wfd.length = Len(wfd.fds) /\ Len(fibers) = Len(wfd.fds)
      /\ \A k \in Slots : wfd.fds[k].fd # NoFd
  BY <1>1, <1>2, <1>3 DEF IInv, RoundBegins, GapsMarked, LengthBounds
<1>5. wfd.length < Capacity
  BY <1>1, <1>2, <1>4, CapacityAssumption DEF IInv, LengthBounds
<1> QED BY <1>1, <1>3, <1>4, <1>5 DEF ListenerAccepts, WasioAccept

\* A connection is accepted into both arrays at once.
LEMMA ListenerAcceptsPreserves ==
  ASSUME IInv, ListenerAccepts
  PROVE  IInv'
PROOF
<1>1. /\ pc = "listener" /\ pc' = "listener" /\ pc \in InScan /\ i = 0
      /\ ~compress_pollfd /\ ~end_server
      /\ wfd.length = Len(wfd.fds) /\ Len(fibers) = Len(wfd.fds) /\ wfd.length < Capacity
      /\ \A k \in Slots : wfd.fds[k].fd # NoFd
      /\ UNCHANGED <<i, pollfd_size, fd, failed, end_server, compress_pollfd>>
  BY AcceptFacts
<1>2. PICK f \in ConnFds :
        /\ HostAccept(f)
        /\ wfd' = WithSlot(wfd, f)
        /\ fibers' = PutAt(fibers, wfd.length, [fiber |-> f, fd |-> f])
        /\ fiber' = [fiber EXCEPT ![f] = "fresh"]
  BY AcceptFacts
<1>3. /\ SocketsTypeOK /\ ArrayTypeOK(wfd) /\ Len(wfd.fds) \in Nat /\ DOMAIN wfd.fds = Slots
      /\ i \in Nat /\ pollfd_size \in Nat /\ i < pollfd_size /\ InLoop
      /\ fibers \in Seq(Closures) /\ fiber \in [Fds -> FiberStates]
      /\ pollfd_size <= Len(wfd.fds)
  BY <1>1, SlotsTyped DEF IInv, LengthBounds
<1>4. /\ SocketsTypeOK' /\ f \in Fds \ OpenFds /\ OpenFds' = OpenFds \union {f}
      /\ f # NoFd /\ f # ListenFd
  BY <1>2, <1>3, HostAcceptFacts, DescriptorFacts
<1>5. PICK n \in Nat : n = Len(wfd.fds)
  BY <1>3
<1>6. /\ ArrayTypeOK(wfd') /\ wfd'.length = n + 1 /\ Len(wfd'.fds) = n + 1
      /\ \A k \in Slots : wfd'.fds[k] = wfd.fds[k]
      /\ wfd'.fds[n + 1].fd = f
  <2>1. ArrayTypeOK(wfd) /\ wfd.length = Len(wfd.fds) /\ f \in Fds /\ wfd' = WithSlot(wfd, f)
    BY <1>1, <1>2, <1>3, <1>4
  <2>2. /\ ArrayTypeOK(wfd') /\ wfd'.length = Len(wfd.fds) + 1
        /\ Len(wfd'.fds) = Len(wfd.fds) + 1
        /\ \A k \in 1 .. Len(wfd.fds) : wfd'.fds[k] = wfd.fds[k]
        /\ wfd'.fds[Len(wfd.fds) + 1].fd = f
    BY <2>1, WithSlotFacts
  <2> QED BY <1>5, <2>2 DEF Slots
<1>7. /\ fibers' \in Seq(Closures) /\ Len(fibers') = n + 1
      /\ \A k \in Slots : fibers'[k] = fibers[k]
      /\ fibers'[n + 1] = [fiber |-> f, fd |-> f]
  <2>1. [fiber |-> f, fd |-> f] \in Closures
    BY <1>4 DEF Closures
  <2>2. fibers' = Append(fibers, [fiber |-> f, fd |-> f])
    BY <1>1, <1>2, <1>3 DEF PutAt
  <2> QED BY <1>1, <1>3, <1>5, <2>1, <2>2, AppendProperties DEF Slots
<1>8. /\ fiber' \in [Fds -> FiberStates] /\ fiber'[f] = "fresh"
      /\ \A g \in Fds : g # f => fiber'[g] = fiber[g]
  BY <1>2, <1>3, <1>4 DEF FiberStates
<1>9. /\ Slots' = Slots \union {n + 1} /\ n + 1 \notin Slots /\ i + 1 \in Slots /\ InLoop'
      /\ \A k \in Slots : wfd.fds[k].fd # f
  <2>1. \A k \in Slots : wfd.fds[k].fd \in OpenFds
    BY <1>1, <1>3 DEF IInv, SlotsMatch
  <2> QED BY <1>1, <1>3, <1>4, <1>5, <1>6, <2>1 DEF Slots, InLoop
<1>10. TypeOK'
  BY <1>1, <1>3, <1>4, <1>6, <1>7, <1>8 DEF IInv, TypeOK, WfdTypeOK, FiberStates, Closures
<1>11. LengthBounds'
  <2>1. n + 1 <= Capacity /\ n + 1 + i >= pollfd_size /\ pollfd_size <= n + 1
    BY <1>1, <1>3, <1>5, CapacityAssumption
  <2>2. i' = i /\ pollfd_size' = pollfd_size /\ i < pollfd_size
    BY <1>1, <1>3
  <2> QED BY <1>1, <1>6, <1>7, <2>1, <2>2 DEF LengthBounds
<1>12. GapsMarked'
  BY <1>1, <1>4, <1>6, <1>9 DEF GapsMarked
<1>13. SlotsMatch'
  <2> SUFFICES ASSUME NEW k \in Slots', wfd'.fds[k].fd # NoFd
               PROVE  LET g == wfd'.fds[k].fd
                      IN  /\ g \in OpenFds' /\ fibers'[k] = [fiber |-> g, fd |-> g]
                          /\ fiber'[g] # "none"
                          /\ g = ListenFd => k = 1 /\ "POLLHUP" \notin wfd'.fds[k].revents
                          /\ \A j \in Slots' : wfd'.fds[j].fd = g => j = k
    BY DEF SlotsMatch
  <2>1. CASE k = n + 1
    BY <1>4, <1>6, <1>7, <1>8, <1>9, <2>1
  <2>2. CASE k \in Slots
    <3>1. LET g == wfd.fds[k].fd
          IN  /\ g \in OpenFds /\ fibers[k] = [fiber |-> g, fd |-> g] /\ fiber[g] # "none"
              /\ g = ListenFd => k = 1 /\ "POLLHUP" \notin wfd.fds[k].revents
              /\ \A j \in Slots : wfd.fds[j].fd = g => j = k
      BY <1>1, <1>3, <2>2 DEF IInv, SlotsMatch
    <3>2. wfd.fds[k].fd \in Fds /\ wfd.fds[k].fd # f
      BY <1>9, <2>2, <3>1, DescriptorFacts
    <3> QED BY <1>4, <1>6, <1>7, <1>8, <1>9, <2>2, <3>1, <3>2
  <2> QED BY <1>9, <2>1, <2>2
<1>14. RoundBegins' /\ Roles' /\ LeftToClose' /\ OnlyShutdownAsserts'
  BY <1>1 DEF IInv, RoundBegins, Roles, LeftToClose, OnlyShutdownAsserts
<1>15. FiberSeesOwnFd'
  <2>1. fd = Closure.fiber /\ fd = Current.fd /\ fd \in OpenFds
    BY <1>1, DescriptorFacts DEF IInv, FiberSeesOwnFd
  <2>2. Closure' = Closure /\ Current' = Current
    BY <1>1, <1>6, <1>7, <1>9 DEF Closure, Current
  <2>3. fd' \in OpenFds'
    BY <1>1, <1>4, <2>1
  <2> QED BY <1>1, <2>1, <2>2, <2>3 DEF FiberSeesOwnFd, OpenFds
<1>16. ListenerKeepsSlot0'
  <2>1. 1 \in Slots /\ wfd.fds[1].fd = ListenFd /\ fiber[ListenFd] # "none"
    BY <1>1, ListenerIsFirst
  <2> QED BY <1>4, <1>6, <1>8, <2>1, DescriptorFacts DEF ListenerKeepsSlot0
<1> QED BY <1>10, <1>11, <1>12, <1>13, <1>14, <1>15, <1>16 DEF IInv

\* The compaction moves the slots and their closures alike, and the listener's
\* not at all.
LEMMA CompressPreserves ==
  ASSUME IInv, Compress
  PROVE  IInv'
PROOF
<1>1. /\ pc = "compress" /\ InLoop /\ i' = 0 /\ pollfd_size' = 0 /\ pc' = "poll" /\ fd' = NoFd
      /\ UNCHANGED <<sock, backlog, fiber, end_server, compress_pollfd, failed>>
  BY DEF Compress, InLoop, sockVars
<1>2. /\ SocketsTypeOK /\ ArrayTypeOK(wfd) /\ Len(wfd.fds) \in Nat /\ wfd.length \in Nat
      /\ wfd.length <= Len(wfd.fds) /\ Len(wfd.fds) <= Capacity /\ Len(fibers) = Len(wfd.fds)
      /\ fibers \in Seq(Closures)
  BY <1>1, SlotsTyped DEF IInv, LengthBounds
<1>3. SocketsTypeOK' /\ OpenFds' = OpenFds
  BY <1>1, <1>2 DEF SocketsTypeOK, OpenFds, IsOpen
<1>4. InLoop' /\ pc' \notin InScan
  BY <1>1 DEF InLoop, InScan, InFiber
<1>5. ~end_server => /\ wfd.length > 0 /\ wfd.fds[1].fd = ListenFd /\ fiber[ListenFd] # "none"
                     /\ ListenFd # NoFd
  BY <1>1, DescriptorFacts DEF IInv, ListenerKeepsSlot0
\* Whichever way the arrays go, this is what the next round gets.
<1>6. /\ ArrayTypeOK(wfd') /\ wfd'.length <= Len(wfd'.fds) /\ Len(wfd'.fds) <= Capacity
      /\ fibers' \in Seq(Closures) /\ Len(fibers') = Len(wfd'.fds)
      /\ SlotsMatch'
      /\ wfd'.length = Len(wfd'.fds) /\ \A k \in Slots' : wfd'.fds[k].fd # NoFd
      /\ ~end_server => wfd'.length > 0 /\ wfd'.fds[1].fd = ListenFd
  <2>1. CASE compress_pollfd
    <3>1. wfd' = Compacted(wfd)
      BY <2>1 DEF Compress
    <3>2. PICK m \in Nat : m = Cardinality(Kept(wfd))
      BY <1>2, KeptFinite
    <3>3. fibers' = [n \in 1 .. m |-> fibers[KeptAt(wfd, n)]]
      BY <2>1, <3>2 DEF Compress
    <3>4. /\ ArrayTypeOK(wfd') /\ wfd'.length = m /\ Len(wfd'.fds) = m /\ m <= wfd.length
          /\ \A n \in 1 .. m : /\ KeptAt(wfd, n) \in Slots
                               /\ wfd'.fds[n].fd = wfd.fds[KeptAt(wfd, n)].fd /\ wfd'.fds[n].fd # NoFd
          /\ 1 \in Kept(wfd) => m > 0 /\ KeptAt(wfd, 1) = 1
      BY <1>2, <3>1, <3>2, CompactedFacts DEF Slots
    <3>5. /\ \A n \in 1 .. m : n <= KeptAt(wfd, n) /\ Rank(wfd, KeptAt(wfd, n)) = n
          /\ Slots' = 1 .. m
      BY <1>2, <3>2, <3>4, KeptAtFacts DEF Slots
    <3>6. /\ fibers' \in Seq(Closures) /\ Len(fibers') = m
          /\ \A n \in 1 .. m : fibers'[n] = fibers[KeptAt(wfd, n)]
      <4>1. \A k \in Slots : fibers[k] \in Closures
        <5>1. fibers \in [1 .. Len(fibers) -> Closures]
          BY <1>2, LenProperties
        <5> QED BY <1>2, <5>1 DEF Slots
      <4>2. fibers' \in [1 .. m -> Closures]
        BY <3>3, <3>4, <4>1
      <4>3. fibers' \in Seq(Closures) /\ Len(fibers') = m
        BY <4>2, FunctionIsSeq
      <4> QED BY <3>3, <4>3
    <3>7. SlotsMatch'
      <4> SUFFICES ASSUME NEW k \in Slots'
                   PROVE  LET g == wfd'.fds[k].fd
                          IN  /\ g \in OpenFds' /\ fibers'[k] = [fiber |-> g, fd |-> g]
                              /\ fiber'[g] # "none"
                              /\ g = ListenFd => k = 1
                              /\ \A j \in Slots' : wfd'.fds[j].fd = g => j = k
        BY <1>4 DEF SlotsMatch
      <4>1. /\ KeptAt(wfd, k) \in Slots /\ k <= KeptAt(wfd, k) /\ k \in 1 .. m
            /\ wfd'.fds[k].fd = wfd.fds[KeptAt(wfd, k)].fd /\ wfd'.fds[k].fd # NoFd
            /\ fibers'[k] = fibers[KeptAt(wfd, k)]
        BY <3>4, <3>5, <3>6
      <4>2. LET g == wfd'.fds[k].fd
            IN  /\ g \in OpenFds /\ fibers[KeptAt(wfd, k)] = [fiber |-> g, fd |-> g]
                /\ fiber[g] # "none"
                /\ g = ListenFd => KeptAt(wfd, k) = 1
                /\ \A j \in Slots : wfd.fds[j].fd = g => j = KeptAt(wfd, k)
        BY <1>1, <4>1 DEF IInv, SlotsMatch
      <4>3. wfd'.fds[k].fd = ListenFd => k = 1
        BY <4>1, <4>2
      <4>4. ASSUME NEW j \in Slots', wfd'.fds[j].fd = wfd'.fds[k].fd
            PROVE  j = k
        <5>1. KeptAt(wfd, j) = KeptAt(wfd, k)
          BY <3>4, <3>5, <4>2, <4>4
        <5> QED BY <3>5, <5>1
      <4> QED BY <1>1, <1>3, <4>1, <4>2, <4>3, <4>4
    <3>8. m <= Capacity
      BY <1>2, <3>4, CapacityAssumption
    <3>9. ~end_server => wfd'.length > 0 /\ wfd'.fds[1].fd = ListenFd
      <4>1. ~end_server => 1 \in Kept(wfd)
        BY <1>2, <1>5 DEF Kept
      <4> QED BY <1>5, <3>4, <4>1
    <3> QED BY <3>4, <3>5, <3>6, <3>7, <3>8, <3>9
  <2>2. CASE ~compress_pollfd
    <3>1. wfd' = Unpolled(wfd) /\ fibers' = fibers
      BY <2>2 DEF Compress
    <3>2. /\ ArrayTypeOK(wfd') /\ wfd'.length = wfd.length /\ Len(wfd'.fds) = Len(wfd.fds)
          /\ Slots' = Slots /\ \A k \in Slots : wfd'.fds[k].fd = wfd.fds[k].fd
      BY <1>2, <3>1, UnpolledFacts DEF Slots
    <3>3. wfd.length = Len(wfd.fds) /\ \A k \in Slots : wfd.fds[k].fd # NoFd
      BY <1>1, <2>2 DEF IInv, GapsMarked
    <3>4. SlotsMatch'
      BY <1>1, <1>3, <1>4, <3>1, <3>2 DEF IInv, SlotsMatch
    <3>5. ~end_server => wfd'.length > 0 /\ wfd'.fds[1].fd = ListenFd
      BY <1>2, <1>5, <3>2 DEF Slots
    <3> QED BY <1>2, <3>1, <3>2, <3>3, <3>4, <3>5
  <2> QED BY <2>1, <2>2
<1>7. TypeOK'
  BY <1>1, <1>3, <1>6 DEF IInv, TypeOK, WfdTypeOK, Closures
<1>8. LengthBounds' /\ GapsMarked'
  BY <1>4, <1>6 DEF LengthBounds, GapsMarked
<1>9. RoundBegins' /\ Roles' /\ LeftToClose' /\ FiberSeesOwnFd' /\ OnlyShutdownAsserts'
  BY <1>1 DEF IInv, RoundBegins, Roles, LeftToClose, FiberSeesOwnFd, OnlyShutdownAsserts
<1>10. ListenerKeepsSlot0'
  BY <1>1, <1>5, <1>6 DEF ListenerKeepsSlot0
<1> QED BY <1>6, <1>7, <1>8, <1>9, <1>10 DEF IInv

\* Every close of the clean-up succeeds.
LEMMA KillCloses ==
  ASSUME IInv, Kill
  PROVE  /\ pc = "cleanup" /\ pc' = "cleanup" /\ i < wfd.length /\ i' = i + 1
         /\ i + 1 \in Slots
         /\ fd' \in {fd, FIBER_KILL_SIGNAL}
         /\ UNCHANGED <<fibers, pollfd_size, end_server, compress_pollfd, failed>>
         /\ Current.fd = NoFd => UNCHANGED <<sockVars, wfd, fiber>>
         /\ Current.fd # NoFd => /\ fiber' = [fiber EXCEPT ![Closure.fiber] = "none"]
                                 /\ HostClose(Current.fd)
                                 /\ wfd' = [wfd EXCEPT !.length = @ - 1]
PROOF
<1>1. /\ pc = "cleanup" /\ i < wfd.length /\ i \in Nat /\ wfd.length \in Nat
      /\ Len(wfd.fds) \in Nat /\ wfd.length <= Len(wfd.fds)
  BY SlotsTyped DEF Kill
<1>2. i + 1 \in Slots /\ i + 1 > i
  BY <1>1 DEF Slots
<1>3. Current.fd # NoFd => IsOpen(Current.fd)
  BY <1>1, <1>2 DEF IInv, LeftToClose, Current, OpenFds
<1> QED BY <1>1, <1>2, <1>3 DEF Kill

\* The clean-up counts length down, which no scan will look at any more.
LEMMA KillPreserves ==
  ASSUME IInv, Kill
  PROVE  IInv'
PROOF
<1>1. /\ pc = "cleanup" /\ pc' = "cleanup" /\ i < wfd.length /\ i' = i + 1
      /\ fd' \in {fd, FIBER_KILL_SIGNAL}
      /\ UNCHANGED <<fibers, pollfd_size, end_server, compress_pollfd, failed>>
  BY KillCloses
<1>2. /\ SocketsTypeOK /\ ArrayTypeOK(wfd) /\ Len(wfd.fds) \in Nat /\ wfd.length \in Nat
      /\ wfd = [length |-> wfd.length, fds |-> wfd.fds]
      /\ i \in Nat /\ wfd.length <= Len(wfd.fds) /\ fiber \in [Fds -> FiberStates]
  BY SlotsTyped
<1>3. /\ wfd'.fds = wfd.fds /\ ArrayTypeOK(wfd') /\ wfd'.length <= wfd.length /\ wfd'.length \in Nat
      /\ fiber' \in [Fds -> FiberStates] /\ SocketsTypeOK'
      /\ OpenFds' = IF Current.fd = NoFd THEN OpenFds ELSE OpenFds \ {Current.fd}
  <2>1. CASE Current.fd = NoFd
    BY <1>2, <2>1, KillCloses DEF sockVars, SocketsTypeOK, OpenFds, IsOpen
  <2>2. CASE Current.fd # NoFd
    <3>1. HostClose(Current.fd) /\ fiber' = [fiber EXCEPT ![Closure.fiber] = "none"]
      BY <2>2, KillCloses
    <3>2. PICK m \in Nat : m = wfd.length - 1
      BY <1>1, <1>2
    <3>3. wfd' = [length |-> m, fds |-> wfd.fds]
      BY <1>2, <2>2, <3>2, KillCloses
    <3>4. SocketsTypeOK' /\ OpenFds' = OpenFds \ {Current.fd}
      BY <1>2, <3>1, HostCloseFacts
    <3>5. ArrayTypeOK(wfd') /\ wfd'.fds = wfd.fds /\ wfd'.length = m
      BY <1>2, <3>3 DEF ArrayTypeOK
    <3>6. fiber' \in [Fds -> FiberStates]
      BY <1>2, <3>1 DEF FiberStates
    <3> QED BY <1>2, <2>2, <3>2, <3>4, <3>5, <3>6
  <2> QED BY <2>1, <2>2
<1>4. ~InLoop' /\ pc' \notin InScan /\ pc' \notin InFiber
  BY <1>1 DEF InLoop, InScan, InFiber
<1>5. TypeOK'
  <2>1. i' \in Nat
    BY <1>1, <1>2
  <2> QED BY <1>1, <1>3, <2>1 DEF IInv, TypeOK, WfdTypeOK, FiberStates
<1>6. LengthBounds'
  BY <1>2, <1>3, <1>4 DEF IInv, LengthBounds
<1>7. SlotsMatch' /\ GapsMarked' /\ ListenerKeepsSlot0'
  BY <1>4 DEF SlotsMatch, GapsMarked, ListenerKeepsSlot0
<1>8. RoundBegins' /\ Roles' /\ FiberSeesOwnFd' /\ OnlyShutdownAsserts'
  BY <1>1 DEF IInv, RoundBegins, Roles, FiberSeesOwnFd, OnlyShutdownAsserts
<1>9. LeftToClose'
  <2> SUFFICES ASSUME NEW k \in Slots, k > i + 1, wfd.fds[k].fd # NoFd
               PROVE  /\ wfd.fds[k].fd \in OpenFds'
                      /\ \A j \in Slots : wfd.fds[j].fd = wfd.fds[k].fd => j = k
    BY <1>1, <1>3 DEF LeftToClose, Slots
  <2>1. k \in Nat /\ k > i /\ k # i + 1
    BY <1>2 DEF Slots
  <2>2. /\ wfd.fds[k].fd \in OpenFds
        /\ \A j \in Slots : wfd.fds[j].fd = wfd.fds[k].fd => j = k
    BY <1>1, <2>1 DEF IInv, LeftToClose
  <2>3. Current.fd # wfd.fds[k].fd
    BY <2>1, <2>2, KillCloses DEF Current
  <2> QED BY <1>3, <2>2, <2>3
<1> QED BY <1>5, <1>6, <1>7, <1>8, <1>9 DEF IInv

----------------------------------------------------------------------------
\* The arrays hold the listener alone at the start.
LEMMA InitEstablishes == Init => IInv
PROOF
<1> SUFFICES ASSUME Init PROVE IInv
  OBVIOUS
<1>1. SocketsTypeOK /\ OpenFds = {ListenFd} /\ ListenFd \in Fds /\ ListenFd # NoFd
  BY SocketsInitFacts, DescriptorFacts DEF Init, ListenFd, NoFd
<1>2. PICK w : w = [length |-> 0, fds |-> <<>>]
  OBVIOUS
<1>3. ArrayTypeOK(wfd) /\ wfd.length = 1 /\ Len(wfd.fds) = 1 /\ wfd.fds[1].fd = ListenFd
  <2>1. ArrayTypeOK(w) /\ w.length = 0 /\ Len(w.fds) = 0
    BY <1>2, EmptySeq DEF ArrayTypeOK
  <2>2. wfd = WithSlot(w, ListenFd)
    BY <1>2 DEF Init, WfdInit
  <2>3. /\ ArrayTypeOK(wfd) /\ wfd.length = w.length + 1 /\ Len(wfd.fds) = Len(w.fds) + 1
        /\ wfd.fds[Len(w.fds) + 1].fd = ListenFd
    BY <1>1, <2>1, <2>2, WithSlotFacts
  <2> QED BY <2>1, <2>3
<1>4. /\ pc = "poll" /\ i = 0 /\ pollfd_size = 0 /\ ~end_server /\ end_server \in BOOLEAN
      /\ compress_pollfd \in BOOLEAN /\ fd = NoFd /\ failed = 0
      /\ fibers = <<[fiber |-> ListenFd, fd |-> ListenFd]>>
      /\ fiber = [f \in Fds |-> IF f = ListenFd THEN "fresh" ELSE "none"]
  BY DEF Init
<1>5. Len(fibers) = 1 /\ fibers \in Seq(Closures)
      /\ fibers[1] = [fiber |-> ListenFd, fd |-> ListenFd]
  BY <1>1, <1>4 DEF Closures
<1>6. Slots = {1} /\ pc \notin InScan
  BY <1>3, <1>4 DEF Slots, InScan, InFiber
<1>7. TypeOK
  BY <1>1, <1>3, <1>4, <1>5 DEF TypeOK, WfdTypeOK, Closures
<1>8. LengthBounds
  BY <1>3, <1>5, <1>6, CapacityAssumption DEF LengthBounds
<1>9. SlotsMatch
  BY <1>1, <1>3, <1>4, <1>5, <1>6 DEF SlotsMatch
<1>10. GapsMarked
  BY <1>1, <1>3, <1>6 DEF GapsMarked
<1>11. RoundBegins /\ Roles /\ LeftToClose /\ FiberSeesOwnFd /\ OnlyShutdownAsserts
  BY <1>4 DEF RoundBegins, Roles, LeftToClose, FiberSeesOwnFd, OnlyShutdownAsserts
<1>12. ListenerKeepsSlot0
  BY <1>1, <1>3, <1>4 DEF ListenerKeepsSlot0
<1> QED BY <1>7, <1>8, <1>9, <1>10, <1>11, <1>12 DEF IInv

\* Every step keeps the invariant.
LEMMA StepPreserves == IInv /\ [Next]_vars => IInv'
PROOF BY QuietPreserves, PollPreserves, HangUpPreserves, FinishedPreserves, YieldedPreserves,
         ListenerAcceptsPreserves, CompressPreserves, KillPreserves
      DEF Next, MainNext, Quiet

\* The invariant holds for every capacity, every set of descriptors and every
\* bound on what waits in the sockets.
THEOREM Invariance == Spec => []IInv
PROOF
<1>1. Init => IInv
  BY InitEstablishes
<1>2. IInv /\ [Next]_vars => IInv'
  BY StepPreserves
<1> QED BY <1>1, <1>2, PTL DEF Spec

\* wfd.fds and fibers stay parallel: each polled descriptor is open, is in no
\* other slot and is the one its slot's live fiber was allocated for, and main
\* polls the listener and no gap, whatever was accepted, given up and compacted.
THEOREM ArraysInSyncCorrect == Spec => []ArraysInSync
PROOF
<1>1. IInv => ArraysInSync
  <2> SUFFICES ASSUME IInv PROVE ArraysInSync
    OBVIOUS
  <2>1. LiveSlots = {k \in Slots : wfd.fds[k].fd # NoFd} /\ wfd.length \in Nat
        /\ Len(wfd.fds) \in Nat
    BY SlotsTyped DEF LiveSlots
  <2>2. pc = "poll" => /\ LiveSlots = 1 .. wfd.length
                       /\ Len(wfd.fds) = wfd.length
                       /\ wfd.length <= Capacity
    <3> SUFFICES ASSUME pc = "poll"
                 PROVE  /\ LiveSlots = 1 .. wfd.length
                        /\ Len(wfd.fds) = wfd.length
                        /\ wfd.length <= Capacity
      OBVIOUS
    <3>1. wfd.length = Len(wfd.fds) /\ \A k \in Slots : wfd.fds[k].fd # NoFd
      BY DEF IInv, GapsMarked, InLoop
    <3>2. LiveSlots = 1 .. wfd.length
      BY <2>1, <3>1 DEF Slots
    <3> QED BY <3>1, <3>2 DEF IInv, LengthBounds
  <2>3. InLoop => /\ Len(fibers) = Len(wfd.fds)
                  /\ \A k \in LiveSlots :
                       LET f == wfd.fds[k].fd
                       IN  /\ IsOpen(f) /\ fibers[k] = [fiber |-> f, fd |-> f]
                           /\ fiber[f] # "none"
                           /\ \A j \in LiveSlots : wfd.fds[j].fd = f => j = k
    BY <2>1, DescriptorFacts DEF IInv, SlotsMatch, LengthBounds
  <2> QED BY <2>2, <2>3 DEF IInv, ArraysInSync
<1> QED BY <1>1, Invariance, PTL

\* A fiber that runs has its own open descriptor in the global fd.
THEOREM FiberSeesOwnFdCorrect == Spec => []FiberSeesOwnFd
PROOF
<1>1. IInv => FiberSeesOwnFd
  BY DEF IInv
<1> QED BY <1>1, Invariance, PTL

\* No assertion of the request loop or of WASIO fails, in either build, nor the
\* one that each close of the clean-up succeeds.
THEOREM OnlyShutdownAssertsCorrect == Spec => []OnlyShutdownAsserts
PROOF
<1>1. IInv => OnlyShutdownAsserts
  BY DEF IInv
<1> QED BY <1>1, Invariance, PTL

----------------------------------------------------------------------------
(* The connections that are forgotten.                                      *)

\* Orphans in terms of the slots.
LEMMA OrphansInSlots ==
  IInv /\ InLoop =>
    \A f : f \in Orphans <=> f \in OpenConns /\ \A k \in Slots : wfd.fds[k].fd # f
PROOF
<1> SUFFICES ASSUME IInv, InLoop, NEW f
             PROVE  f \in Orphans <=> f \in OpenConns /\ \A k \in Slots : wfd.fds[k].fd # f
  OBVIOUS
<1>1. LiveSlots = {k \in Slots : wfd.fds[k].fd # NoFd}
  BY SlotsTyped DEF LiveSlots
<1>2. f \in OpenConns => f # NoFd
  BY DescriptorFacts DEF OpenConns
<1> QED BY <1>1, <1>2 DEF Orphans, InSlot

\* What the action property says of one step.
Forgets == /\ Orphans \subseteq Orphans'
           /\ Orphans' # Orphans => compress_pollfd'

\* A connection is forgotten only in a round in which some connection ended,
\* and then for good: a close is the close of a descriptor in a slot, and an
\* accept takes a descriptor that is not open.
THEOREM OrphansByCompactionOnlyCorrect == Spec => OrphansByCompactionOnly
PROOF
<1>1. IInv /\ InLoop =>
        \A f : f \in Orphans <=> f \in OpenConns /\ \A k \in Slots : wfd.fds[k].fd # f
  BY OrphansInSlots
<1>2. (IInv /\ InLoop =>
        \A f : f \in Orphans <=> f \in OpenConns /\ \A k \in Slots : wfd.fds[k].fd # f)'
  BY <1>1, PTL
<1>3. IInv /\ IInv' /\ [Next]_vars => [InLoop /\ InLoop' => Forgets]_vars
  <2> SUFFICES ASSUME IInv, IInv', [Next]_vars, InLoop, InLoop' PROVE Forgets
    OBVIOUS
  <2>1. /\ SocketsTypeOK /\ ArrayTypeOK(wfd) /\ Len(wfd.fds) \in Nat /\ wfd.length \in Nat
        /\ wfd.length <= Len(wfd.fds) /\ i \in Nat
    BY SlotsTyped
  <2>2. \A f : f \in Orphans <=> f \in OpenConns /\ \A k \in Slots : wfd.fds[k].fd # f
    BY <1>1
  <2>3. \A f : f \in Orphans' <=> f \in OpenConns' /\ \A k \in Slots' : wfd'.fds[k].fd # f
    BY <1>2
  <2>4. \A f \in OpenConns : f # NoFd
    BY DescriptorFacts DEF OpenConns
  <2>5. ASSUME OpenConns' = OpenConns, Slots' = Slots,
               \A k \in Slots : wfd'.fds[k].fd = wfd.fds[k].fd
        PROVE  Forgets
    BY <2>2, <2>3, <2>5 DEF Forgets
  <2>6. CASE ListenerAccepts
    <3>1. PICK f \in ConnFds : HostAccept(f) /\ wfd' = WithSlot(wfd, f)
      BY <2>6, AcceptFacts
    <3>2. f \notin OpenConns /\ OpenConns' = OpenConns \union {f} /\ f \in Fds
      BY <2>1, <3>1, HostAcceptFacts
    <3>3. PICK n \in Nat : n = Len(wfd.fds)
      BY <2>1
    <3>4. /\ Len(wfd'.fds) = n + 1 /\ wfd'.fds[n + 1].fd = f
          /\ \A k \in Slots : wfd'.fds[k] = wfd.fds[k]
      BY <2>1, <2>6, <3>1, <3>2, <3>3, AcceptFacts, WithSlotFacts DEF Slots
    <3>5. Slots' = Slots \union {n + 1}
      BY <3>3, <3>4 DEF Slots
    <3>6. Orphans' = Orphans
      <4>1. ASSUME NEW g \in Orphans PROVE g \in Orphans'
        <5>1. g \in OpenConns /\ g # f /\ \A k \in Slots : wfd.fds[k].fd # g
          BY <2>2, <3>2
        <5>2. \A k \in Slots' : wfd'.fds[k].fd # g
          BY <3>4, <3>5, <5>1
        <5> QED BY <2>3, <3>2, <5>1, <5>2
      <4>2. ASSUME NEW g \in Orphans' PROVE g \in Orphans
        <5>1. g \in OpenConns' /\ \A k \in Slots' : wfd'.fds[k].fd # g
          BY <2>3
        <5>2. g # f /\ \A k \in Slots : wfd.fds[k].fd # g
          BY <3>4, <3>5, <5>1
        <5> QED BY <2>2, <3>2, <5>1, <5>2
      <4> QED BY <4>1, <4>2
    <3> QED BY <3>6 DEF Forgets
  <2>7. CASE HangUp
    <3>1. /\ pc \in InScan /\ sock' = sock /\ compress_pollfd' = TRUE
          /\ wfd' = [wfd EXCEPT !.fds[i + 1].fd = NoFd, !.length = @ - 1]
      BY <2>7 DEF HangUp, InScan, sockVars
    <3>2. SlotGoes /\ OpenConns' = OpenConns
      BY <3>1, CountingDown DEF OpenConns, IsOpen
    <3> QED BY <2>2, <2>3, <2>4, <3>1, <3>2 DEF Forgets, SlotGoes, Slots
  <2>8. CASE FiberError \/ FiberReturns
    <3>1. SlotGoes /\ HostClose(Current.fd) /\ compress_pollfd' = TRUE /\ pc \in InScan
      BY <2>8, FinishedFacts, CountingDown
    <3>2. OpenConns' = OpenConns \ {Current.fd} /\ i + 1 \in Slots /\ Current = wfd.fds[i + 1]
      BY <2>1, <3>1, HostCloseFacts, CurrentIsLive
    <3> QED BY <2>2, <2>3, <2>4, <3>1, <3>2 DEF Forgets, SlotGoes, Slots
  <2>9. CASE ListenerYields \/ HandlerYields
    <3>1. /\ pc \in InScan /\ sock' = sock /\ compress_pollfd' = compress_pollfd
          /\ wfd' = IF compress_pollfd THEN [wfd EXCEPT !.fds[i + 1].fd = NoFd] ELSE wfd
      BY <2>9, YieldedFacts
    <3>2. OpenConns' = OpenConns
      BY <3>1 DEF OpenConns, IsOpen
    <3>3. CASE compress_pollfd
      <4>1. SlotGoes
        BY <3>1, <3>3, ClearingOnly
      <4> QED BY <2>2, <2>3, <2>4, <3>1, <3>2, <3>3, <4>1 DEF Forgets, SlotGoes, Slots
    <3>4. CASE ~compress_pollfd
      BY <2>5, <3>1, <3>2, <3>4 DEF Slots
    <3> QED BY <3>3, <3>4
  <2>10. CASE Compress
    <3>1. sock' = sock /\ compress_pollfd' = compress_pollfd
      BY <2>10 DEF Compress, sockVars
    <3>2. OpenConns' = OpenConns
      BY <3>1 DEF OpenConns, IsOpen
    <3>3. CASE compress_pollfd
      <4>1. wfd' = Compacted(wfd)
        BY <2>10, <3>3 DEF Compress
      <4>2. \A k \in Slots' : \E j \in Slots : wfd'.fds[k].fd = wfd.fds[j].fd
        <5>1. /\ Len(wfd'.fds) = wfd'.length
              /\ \A n \in 1 .. wfd'.length : /\ KeptAt(wfd, n) \in 1 .. Len(wfd.fds)
                                             /\ wfd'.fds[n].fd = wfd.fds[KeptAt(wfd, n)].fd
          BY <2>1, <4>1, CompactedFacts
        <5> QED BY <5>1 DEF Slots
      <4>3. Orphans \subseteq Orphans'
        BY <2>2, <2>3, <3>2, <4>2
      <4>4. compress_pollfd' = TRUE
        BY <3>1, <3>3, SlotsTyped
      <4> QED BY <4>3, <4>4 DEF Forgets
    <3>4. CASE ~compress_pollfd
      <4>1. wfd' = Unpolled(wfd)
        BY <2>10, <3>4 DEF Compress
      <4>2. Slots' = Slots /\ \A k \in Slots : wfd'.fds[k].fd = wfd.fds[k].fd
        BY <2>1, <4>1, UnpolledFacts DEF Slots
      <4> QED BY <2>5, <3>2, <4>2
    <3> QED BY <3>3, <3>4
  <2>11. CASE Poll
    <3>1. sock' = sock /\ (wfd' = Polled(wfd) \/ wfd' = wfd)
      BY <2>11 DEF Poll, WasioPoll, sockVars
    <3>2. Slots' = Slots /\ \A k \in Slots : wfd'.fds[k].fd = wfd.fds[k].fd
      BY <2>1, <3>1, PolledFacts DEF Slots
    <3> QED BY <2>5, <3>1, <3>2 DEF OpenConns, IsOpen
  <2>12. CASE ListenerFails \/ HandlerReceives \/ EnvNext
    <3>1. OpenConns' = OpenConns /\ wfd' = wfd
      BY <2>1, <2>12, HostAcceptErrorFacts, HostRecvFacts, NetworkFacts
         DEF ListenerFails, HandlerReceives, EnvNext
    <3> QED BY <2>5, <3>1 DEF Slots
  <2>13. CASE Kill \/ LeaveLoop
    BY <2>13 DEF Kill, LeaveLoop, Abort, InLoop
  <2>14. CASE \/ PollFails \/ SkipSlot \/ BadEvent \/ Resume \/ HandlerLosesPeer \/ HandlerSends
              \/ SendKills \/ KillFails \/ Exit \/ UNCHANGED vars
    <3>1. UNCHANGED <<sock, wfd>>
      BY <2>14 DEF PollFails, SkipSlot, BadEvent, Resume, HandlerLosesPeer, HandlerSends,
             SendKills, KillFails, Exit, vars, sockVars, Abort
    <3> QED BY <2>5, <3>1 DEF Slots, OpenConns, IsOpen
  <2> QED BY <2>6, <2>7, <2>8, <2>9, <2>10, <2>11, <2>12, <2>13, <2>14 DEF Next, MainNext
<1>4. IInv /\ IInv' /\ [Next]_vars =>
        [InLoop /\ InLoop' => /\ Orphans \subseteq Orphans'
                              /\ Orphans' # Orphans => compress_pollfd']_vars
  BY <1>3 DEF Forgets
<1> QED BY <1>4, Invariance, PTL DEF Spec, OrphansByCompactionOnly

----------------------------------------------------------------------------
(* The refinement.                                                          *)

Ending == end_server \/ ~InLoop

\* What is watched, and that the descriptors of the slots are.
LEMMA WatchedInSlots ==
  ASSUME IInv
  PROVE  /\ \A f : f \in Watched <=> f \in OpenConns /\ \E k \in Slots : wfd.fds[k].fd = f
         /\ Watched \subseteq OpenConns /\ OpenConns \subseteq ConnFds
PROOF
<1>1. DOMAIN wfd.fds = Slots
  BY SlotsTyped
<1>2. \A f \in OpenConns : f # NoFd
  BY DescriptorFacts DEF OpenConns
<1> QED BY <1>1, <1>2 DEF Watched, InSlot, LiveSlots, OpenConns

\* When the listener runs the first slot is its own, and the others hold no
\* more than the server watches.
LEMMA WatchedFits ==
  ASSUME IInv, pc = "listener", wfd.length # Capacity
  PROVE  Cardinality(Watched) < Capacity - 1
PROOF
<1>1. /\ pc \in InScan /\ i \in Nat /\ InLoop /\ i + 1 \in Slots /\ Len(wfd.fds) \in Nat
      /\ wfd.length \in Nat /\ DOMAIN wfd.fds = Slots
  <2>1. pc \in InScan
    BY DEF InScan, InFiber
  <2> QED BY <2>1, SlotsTyped
<1>2. Current.fd = ListenFd
  BY DEF IInv, FiberSeesOwnFd, Roles
<1>3. i = 0 /\ Current = wfd.fds[i + 1]
  BY <1>1, <1>2, CurrentIsLive
<1>4. /\ wfd.length = Len(wfd.fds) /\ wfd.length < Capacity
      /\ \A k \in Slots : wfd.fds[k].fd # NoFd
  BY <1>1, <1>3, CapacityAssumption DEF IInv, RoundBegins, GapsMarked, LengthBounds
<1>5. PICK n \in Nat : n = Len(wfd.fds)
  BY <1>1
<1>6. \A k \in Slots : wfd.fds[k].fd \in OpenFds /\ (wfd.fds[k].fd = ListenFd => k = 1)
  BY <1>1, <1>4 DEF IInv, SlotsMatch
<1>7. \A f : f \in Watched <=> f \in OpenConns /\ \E k \in Slots : wfd.fds[k].fd = f
  BY WatchedInSlots
<1> DEFINE descriptor == [k \in 2 .. n |-> wfd.fds[k].fd]
<1>8. n > 0 /\ Slots = 1 .. n /\ wfd.fds[1].fd = ListenFd
  BY <1>1, <1>2, <1>3, <1>5 DEF Slots
<1>9. \A k \in 2 .. n : wfd.fds[k].fd \in Watched
  <2> SUFFICES ASSUME NEW k \in 2 .. n PROVE wfd.fds[k].fd \in Watched
    OBVIOUS
  <2>1. k \in Slots /\ k # 1
    BY <1>8
  <2>2. wfd.fds[k].fd \in OpenFds \ {ListenFd}
    BY <1>6, <2>1
  <2> QED BY <1>7, <2>1, <2>2, DescriptorFacts
<1>10. \A f \in Watched : \E k \in 2 .. n : wfd.fds[k].fd = f
  <2> SUFFICES ASSUME NEW f \in Watched PROVE \E k \in 2 .. n : wfd.fds[k].fd = f
    OBVIOUS
  <2>1. f \in OpenConns /\ f # ListenFd
    BY <1>7, DescriptorFacts
  <2>2. PICK k \in Slots : wfd.fds[k].fd = f
    BY <1>7
  <2>3. k \in 2 .. n
    BY <1>8, <2>1, <2>2
  <2> QED BY <2>2, <2>3
<1>11. descriptor \in Surjection(2 .. n, Watched)
  BY <1>9, <1>10 DEF Surjection
<1>12. IsFiniteSet(2 .. n) /\ Cardinality(2 .. n) = n - 1
  BY <1>8, FS_Interval
<1>13. Cardinality(Watched) <= Cardinality(2 .. n) /\ IsFiniteSet(Watched)
  BY <1>11, <1>12, FS_Surjection
<1>14. Cardinality(Watched) \in Nat
  BY <1>13, FS_CardinalityType
<1> QED BY <1>4, <1>5, <1>12, <1>13, <1>14, CapacityAssumption

\* A step that keeps what is watched and open is at most the end of accepting.
LEMMA QuietRefines ==
  ASSUME Watched' = Watched, OpenConns' = OpenConns, (pc' = "exited" <=> pc = "exited"),
         Ending => Ending'
  PROVE  [Abstract!Next]_Abstract!vars
PROOF
<1>1. CASE ~Ending /\ Ending'
  BY <1>1 DEF Abstract!Next, Abstract!Finish, Ending
<1>2. CASE Ending <=> Ending'
  BY <1>2 DEF Abstract!vars, Ending
<1> QED BY <1>1, <1>2

\* A step that watches less and closes nothing forgets what it watched.
LEMMA LessRefines ==
  ASSUME IInv, Watched' \subseteq Watched, OpenConns' = OpenConns,
         (pc' = "exited" <=> pc = "exited"), Ending <=> Ending'
  PROVE  [Abstract!Next]_Abstract!vars
PROOF
<1>1. CASE Watched' = Watched
  BY <1>1, QuietRefines
<1>2. CASE Watched' # Watched
  <2>1. PICK S : S = Watched \ Watched'
    OBVIOUS
  <2>2. S # {} /\ S \subseteq Watched /\ S \in SUBSET ConnFds
    BY <1>2, <2>1, WatchedInSlots
  <2>3. Watched' = Watched \ S /\ OpenConns' \ Watched' = (OpenConns \ Watched) \union S
    BY <2>1, WatchedInSlots
  <2>4. Abstract!Forget(S)
    BY <2>2, <2>3 DEF Abstract!Forget, Ending
  <2> QED BY <2>2, <2>4 DEF Abstract!Next
<1> QED BY <1>1, <1>2

\* A close of one descriptor that is in a slot is the close of a connection
\* that is watched, or of none.
LEMMA CloseRefines ==
  ASSUME IInv, NEW k \in Slots, NEW f, f = wfd.fds[k].fd,
         Watched' = Watched \ {f}, OpenConns' = OpenConns \ {f},
         (pc' = "exited" <=> pc = "exited"), Ending => Ending'
  PROVE  [Abstract!Next]_Abstract!vars
PROOF
<1>1. CASE f \in OpenConns
  <2>1. f \in Watched /\ f \in ConnFds
    BY <1>1, WatchedInSlots
  <2>2. OpenConns' \ Watched' = OpenConns \ Watched
    BY <2>1
  <2>3. Abstract!Close(f)
    BY <2>1, <2>2 DEF Abstract!Close, Ending
  <2> QED BY <2>1, <2>3 DEF Abstract!Next
<1>2. CASE f \notin OpenConns
  <2>1. Watched' = Watched /\ OpenConns' = OpenConns
    BY <1>2, WatchedInSlots
  <2> QED BY <2>1, QuietRefines
<1> QED BY <1>1, <1>2

\* A gap is no connection.
LEMMA ConnsAreNotGaps == \A f \in OpenConns : f # NoFd
PROOF BY DescriptorFacts DEF OpenConns

\* When the slot that is scanned is given up no other slot's descriptor changes.
LEMMA SlotGoesKeepsRest ==
  ASSUME SlotGoes, NEW f, f # NoFd
  PROVE  /\ (\E k \in Slots' : wfd'.fds[k].fd = f) => \E k \in Slots : wfd.fds[k].fd = f
         /\ f # wfd.fds[i + 1].fd =>
              ((\E k \in Slots : wfd.fds[k].fd = f) => \E k \in Slots' : wfd'.fds[k].fd = f)
PROOF
<1>1. Slots' = Slots
  BY DEF SlotGoes, Slots
<1> QED BY <1>1 DEF SlotGoes

\* Whatever the capacity, the server does what ConnectionServer says: it accepts
\* into free places only, closes one connection at a time, forgets some without
\* closing them and accepts nothing once it is to end.
THEOREM Refinement == Spec => ImplementsConnectionServer
PROOF
<1>1. Init => Abstract!Init
  <2> SUFFICES ASSUME Init PROVE Abstract!Init
    OBVIOUS
  <2>1. OpenConns = {}
    BY SocketsInitFacts, DescriptorFacts DEF Init
  <2>2. Watched = {}
    BY <2>1 DEF Watched
  <2> QED BY <2>1, <2>2 DEF Init, Abstract!Init, InLoop
<1>2. IInv => \A f : f \in Watched <=> f \in OpenConns /\ \E k \in Slots : wfd.fds[k].fd = f
  BY WatchedInSlots
<1>3. (IInv => \A f : f \in Watched <=> f \in OpenConns /\ \E k \in Slots : wfd.fds[k].fd = f)'
  BY <1>2, PTL
<1>4. IInv /\ IInv' /\ [Next]_vars => [Abstract!Next]_Abstract!vars
  <2> SUFFICES ASSUME IInv, IInv', [Next]_vars PROVE [Abstract!Next]_Abstract!vars
    OBVIOUS
  <2>1. /\ SocketsTypeOK /\ ArrayTypeOK(wfd) /\ Len(wfd.fds) \in Nat /\ wfd.length \in Nat
        /\ DOMAIN wfd.fds = Slots /\ i \in Nat
    BY SlotsTyped
  <2>2. \A f : f \in Watched <=> f \in OpenConns /\ \E k \in Slots : wfd.fds[k].fd = f
    BY <1>2
  <2>3. \A f : f \in Watched' <=> f \in OpenConns' /\ \E k \in Slots' : wfd'.fds[k].fd = f
    BY <1>3
  <2>4. CASE ListenerAccepts
    <3>1. /\ pc = "listener" /\ pc' = "listener" /\ end_server' = end_server /\ ~end_server
          /\ wfd.length = Len(wfd.fds) /\ wfd.length # Capacity
      BY <2>1, <2>4, AcceptFacts, CapacityAssumption
    <3>2. PICK f \in ConnFds : HostAccept(f) /\ wfd' = WithSlot(wfd, f)
      BY <2>4, AcceptFacts
    <3>3. /\ f \notin OpenConns /\ OpenConns' = OpenConns \union {f} /\ f \in Fds
      BY <2>1, <3>2, HostAcceptFacts
    <3>4. Watched' = Watched \union {f}
      <4>1. PICK n \in Nat : n = Len(wfd.fds)
        BY <2>1
      <4>2. /\ Len(wfd'.fds) = n + 1 /\ wfd'.fds[n + 1].fd = f
            /\ \A k \in Slots : wfd'.fds[k] = wfd.fds[k]
        BY <2>1, <3>1, <3>2, <3>3, <4>1, WithSlotFacts DEF Slots
      <4>3. Slots' = Slots \union {n + 1}
        BY <4>1, <4>2 DEF Slots
      <4> QED BY <2>2, <2>3, <3>3, <4>2, <4>3
    <3>5. /\ f \notin Watched \union (OpenConns \ Watched)
          /\ OpenConns' \ Watched' = OpenConns \ Watched
      BY <2>2, <3>3, <3>4
    <3>6. /\ (end_server \/ ~InLoop) = FALSE /\ (end_server' \/ ~InLoop') = FALSE
          /\ (pc = "exited") = FALSE /\ (pc' = "exited") = FALSE
      BY <3>1 DEF InLoop
    <3>7. Abstract!Cardinality(Watched) = Cardinality(Watched)
      BY DEF Abstract!Cardinality, Cardinality
    <3>8. Cardinality(Watched) < Capacity - 1
      BY <3>1, WatchedFits
    <3>9. Abstract!Accept(f)
      BY <3>4, <3>5, <3>6, <3>7, <3>8 DEF Abstract!Accept
    <3> QED BY <3>9 DEF Abstract!Next
  <2>5. CASE HangUp
    <3>1. /\ pc = "scan" /\ pc' \in {"scan", "compress"} /\ pc \in InScan
          /\ UNCHANGED <<sock, end_server>>
          /\ wfd' = [wfd EXCEPT !.fds[i + 1].fd = NoFd, !.length = @ - 1]
      BY <2>5 DEF HangUp, NextSlot, InScan, sockVars
    <3>2. OpenConns' = OpenConns /\ (Ending <=> Ending')
      BY <3>1 DEF OpenConns, IsOpen, Ending, InLoop, InFiber
    <3>3. SlotGoes
      BY <3>1, CountingDown
    <3>4. Watched' \subseteq Watched
      BY <2>2, <2>3, <3>2, <3>3, SlotGoesKeepsRest, ConnsAreNotGaps
    <3> QED BY <3>1, <3>2, <3>4, LessRefines
  <2>6. CASE ListenerYields \/ HandlerYields
    <3>1. /\ pc \in InFiber /\ pc' \in {"scan", "compress"} /\ pc \in InScan
          /\ UNCHANGED <<sock, end_server>>
          /\ wfd' = IF compress_pollfd THEN [wfd EXCEPT !.fds[i + 1].fd = NoFd] ELSE wfd
      BY <2>6, YieldedFacts DEF NextSlot
    <3>2. OpenConns' = OpenConns /\ (Ending <=> Ending')
      BY <3>1 DEF OpenConns, IsOpen, Ending, InLoop, InFiber
    <3>3. Watched' \subseteq Watched
      <4>1. CASE compress_pollfd
        <5>1. SlotGoes
          BY <3>1, <4>1, ClearingOnly
        <5> QED BY <2>2, <2>3, <3>2, <5>1, SlotGoesKeepsRest, ConnsAreNotGaps
      <4>2. CASE ~compress_pollfd
        <5>1. wfd' = wfd /\ Slots' = Slots
          BY <3>1, <4>2 DEF Slots
        <5> QED BY <2>2, <2>3, <3>2, <5>1
      <4> QED BY <4>1, <4>2
    <3>4. pc # "exited" /\ pc' # "exited"
      BY <3>1 DEF InFiber
    <3> QED BY <3>2, <3>3, <3>4, LessRefines
  <2>7. CASE FiberError \/ FiberReturns
    <3>1. /\ pc \in InFiber /\ pc' \in {"scan", "compress"} /\ pc \in InScan
          /\ end_server => end_server'
          /\ HostClose(Current.fd) /\ SlotGoes
      BY <2>7, FinishedFacts, CountingDown DEF NextSlot
    <3>2. /\ i + 1 \in Slots /\ Current = wfd.fds[i + 1] /\ Current.fd # NoFd
      BY <3>1, CurrentIsLive
    <3>3. PICK f : f = wfd.fds[i + 1].fd
      OBVIOUS
    <3>4. OpenConns' = OpenConns \ {f}
      BY <2>1, <3>1, <3>2, <3>3, HostCloseFacts
    <3>5. Watched' = Watched \ {f}
      <4>1. \A g \in Watched' : g \in Watched \ {f}
        BY <2>2, <2>3, <3>1, <3>4, SlotGoesKeepsRest, ConnsAreNotGaps
      <4>2. \A g \in Watched \ {f} : g \in Watched'
        BY <2>2, <2>3, <3>1, <3>3, <3>4, SlotGoesKeepsRest, ConnsAreNotGaps
      <4> QED BY <4>1, <4>2
    <3>6. (Ending => Ending') /\ pc # "exited" /\ pc' # "exited"
      BY <3>1 DEF Ending, InLoop, InFiber
    <3> QED BY <3>2, <3>3, <3>4, <3>5, <3>6, CloseRefines
  <2>8. CASE Compress
    <3>1. pc = "compress" /\ pc' = "poll" /\ UNCHANGED <<sock, end_server>>
      BY <2>8 DEF Compress, sockVars
    <3>2. OpenConns' = OpenConns /\ (Ending <=> Ending')
      BY <3>1 DEF OpenConns, IsOpen, Ending, InLoop
    <3>3. \A k \in Slots' : \E j \in Slots : wfd'.fds[k].fd = wfd.fds[j].fd
      <4>1. CASE compress_pollfd
        <5>1. wfd' = Compacted(wfd) /\ wfd.length <= Len(wfd.fds)
          BY <2>8, <4>1, SlotsTyped DEF Compress
        <5>2. /\ Len(wfd'.fds) = wfd'.length
              /\ \A n \in 1 .. wfd'.length : /\ KeptAt(wfd, n) \in 1 .. Len(wfd.fds)
                                             /\ wfd'.fds[n].fd = wfd.fds[KeptAt(wfd, n)].fd
          BY <2>1, <5>1, CompactedFacts
        <5> QED BY <5>2 DEF Slots
      <4>2. CASE ~compress_pollfd
        <5>1. wfd' = Unpolled(wfd)
          BY <2>8, <4>2 DEF Compress
        <5>2. /\ Len(wfd'.fds) = Len(wfd.fds)
              /\ \A k \in 1 .. Len(wfd.fds) : wfd'.fds[k].fd = wfd.fds[k].fd
          BY <2>1, <5>1, UnpolledFacts
        <5> QED BY <5>2 DEF Slots
      <4> QED BY <4>1, <4>2
    <3>4. Watched' \subseteq Watched
      BY <2>2, <2>3, <3>2, <3>3
    <3> QED BY <3>1, <3>2, <3>4, LessRefines
  <2>9. CASE Kill
    <3>1. pc = "cleanup" /\ pc' = "cleanup" /\ i < wfd.length /\ Ending'
      BY <2>2, <2>9, KillCloses DEF Ending, InLoop, InFiber
    <3>2. CASE Current.fd = NoFd
      <4>1. wfd' = wfd /\ sock' = sock
        BY <2>9, <3>2, KillCloses DEF sockVars
      <4>2. Watched' = Watched /\ OpenConns' = OpenConns
        BY <4>1 DEF Watched, InSlot, LiveSlots, OpenConns, IsOpen
      <4> QED BY <3>1, <4>2, QuietRefines
    <3>3. CASE Current.fd # NoFd
      <4>1. i + 1 \in Slots
        BY <2>1, <3>1, SlotsTyped DEF Slots
      <4>2. PICK f : f = wfd.fds[i + 1].fd
        OBVIOUS
      <4>3. OpenConns' = OpenConns \ {f} /\ wfd'.fds = wfd.fds
        <5>1. HostClose(f) /\ wfd' = [wfd EXCEPT !.length = @ - 1]
          BY <2>9, <3>3, <4>2, KillCloses DEF Current
        <5>2. wfd = [length |-> wfd.length, fds |-> wfd.fds]
          BY SlotsTyped
        <5> QED BY <2>1, <5>1, <5>2, HostCloseFacts
      <4>4. Watched' = Watched \ {f}
        BY <2>2, <2>3, <4>3 DEF Slots
      <4> QED BY <3>1, <4>1, <4>2, <4>3, <4>4, CloseRefines
    <3> QED BY <3>2, <3>3
  <2>10. CASE Exit
    <3>1. /\ pc = "cleanup" /\ pc' \in {"exited", "aborted"} /\ UNCHANGED <<sock, wfd>>
      BY <2>10 DEF Exit, Abort, sockVars
    <3>2. Watched' = Watched /\ OpenConns' = OpenConns /\ Ending /\ Ending'
      BY <3>1 DEF Watched, InSlot, LiveSlots, OpenConns, IsOpen, Ending, InLoop
    <3>3. CASE pc' = "exited"
      <4>1. /\ (end_server \/ ~InLoop) = TRUE /\ (end_server' \/ ~InLoop') = TRUE
            /\ (pc = "exited") = FALSE /\ (pc' = "exited") = TRUE
        BY <3>1, <3>2, <3>3 DEF Ending
      <4>2. Abstract!Stop
        BY <3>2, <4>1 DEF Abstract!Stop
      <4> QED BY <4>2 DEF Abstract!Next
    <3>4. CASE pc' # "exited"
      BY <3>1, <3>2, <3>4, QuietRefines
    <3> QED BY <3>3, <3>4
  <2>11. CASE Poll \/ PollFails
    <3>1. /\ pc = "poll" /\ pc' \in {"poll", "scan"} /\ sock' = sock /\ (end_server => end_server')
          /\ wfd' = Polled(wfd) \/ wfd' = wfd
      BY <2>11 DEF Poll, PollFails, WasioPoll, sockVars
    <3>2. OpenConns' = OpenConns /\ (Ending => Ending')
      BY <3>1 DEF OpenConns, IsOpen, Ending, InLoop
    <3>3. Slots' = Slots /\ \A k \in Slots : wfd'.fds[k].fd = wfd.fds[k].fd
      BY <2>1, <3>1, PolledFacts DEF Slots
    <3>4. Watched' = Watched
      BY <2>2, <2>3, <3>2, <3>3
    <3> QED BY <3>1, <3>2, <3>4, QuietRefines
  <2>12. CASE ListenerFails \/ HandlerReceives \/ EnvNext
    <3>1. OpenConns' = OpenConns
      BY <2>1, <2>12, HostAcceptErrorFacts, HostRecvFacts, NetworkFacts
         DEF ListenerFails, HandlerReceives, EnvNext
    <3>2. wfd' = wfd /\ (pc' = "exited" <=> pc = "exited")
      BY <2>12 DEF ListenerFails, HandlerReceives, EnvNext, serverVars
    <3>3. Ending => Ending'
      BY <2>12 DEF ListenerFails, HandlerReceives, EnvNext, serverVars, Ending, InLoop
    <3> QED BY <3>1, <3>2, <3>3, QuietRefines DEF Watched, InSlot, LiveSlots
  <2>13. CASE LeaveLoop \/ KillFails \/ Resume
    <3>1. /\ UNCHANGED <<sock, wfd, end_server>> /\ pc # "exited" /\ pc' # "exited"
      BY <2>13 DEF LeaveLoop, KillFails, Resume, Abort, sockVars
    <3>2. Ending => Ending'
      BY <2>13 DEF LeaveLoop, KillFails, Resume, Abort, Ending, InLoop
    <3> QED BY <3>1, <3>2, QuietRefines DEF Watched, InSlot, LiveSlots, OpenConns, IsOpen
  <2>14. CASE \/ SkipSlot \/ BadEvent \/ HandlerLosesPeer \/ HandlerSends \/ SendKills
              \/ UNCHANGED vars
    <3>1. /\ UNCHANGED <<sock, wfd>> /\ (pc' = "exited" <=> pc = "exited")
          /\ Ending => Ending'
      BY <2>14 DEF SkipSlot, BadEvent, HandlerLosesPeer, HandlerSends, SendKills, vars, sockVars,
                   serverVars, NextSlot, Ending, InLoop
    <3> QED BY <3>1, QuietRefines DEF Watched, InSlot, LiveSlots, OpenConns, IsOpen
  <2> QED BY <2>4, <2>5, <2>6, <2>7, <2>8, <2>9, <2>10, <2>11, <2>12, <2>13, <2>14
          DEF Next, MainNext
<1> QED BY <1>1, <1>4, Invariance, PTL DEF Spec, ImplementsConnectionServer, Abstract!Spec
=============================================================================
