------------------------- MODULE FiberServerProofs -------------------------
(***************************************************************************)
(* FiberServer.tla for every capacity, every set of descriptors and every   *)
(* bound on what waits in the sockets, with and without DEBUG: the inductive *)
(* invariant of its two arrays and what follows from it.  fds, fibers and    *)
(* nfds part during a scan, where nfds counts down and slots are cleared;    *)
(* the listener, which adds to both arrays at nfds, runs before that.       *)
(***************************************************************************)
EXTENDS FiberServer, PollArrayProofs

Slots == 1 .. Len(arr.fds)
InScan == {"scan"} \union InFiber

\* During a scan nfds is at most one too small for each slot that was scanned.
LengthBounds ==
  /\ arr.length <= Len(arr.fds) /\ Len(arr.fds) <= Capacity
  /\ InLoop => Len(fibers) = Len(arr.fds)
  /\ pc \in InScan => arr.length + i >= pollfd_size

\* What SlotsMatchFibers says of a slot, and that the listener is the first.
SlotsMatch ==
  InLoop => \A k \in Slots : arr.fds[k].fd # NoFd =>
    LET f == arr.fds[k].fd
    IN  /\ f \in OpenFds
        /\ fibers[k] = [fiber |-> f, fd |-> f]
        /\ fiber[f] # "none"
        /\ f = ListenFd => k = 1
        /\ \A j \in Slots : arr.fds[j].fd = f => j = k

\* A gap is behind the scan, and never without the flag that asks for the
\* compaction.
GapsMarked ==
  /\ pc \in InScan => \A k \in Slots : k > i => arr.fds[k].fd # NoFd
  /\ InLoop /\ (~compress_pollfd \/ pc = "poll") =>
       arr.length = Len(arr.fds) /\ \A k \in Slots : arr.fds[k].fd # NoFd

\* Nothing was closed or ended before the first slot was scanned.
RoundBegins ==
  /\ pc = "poll" => ~end_server
  /\ pc \in {"scan", "listener"} /\ i = 0 => ~compress_pollfd /\ ~end_server

ListenerRuns == pc = "listener" => fd = ListenFd

IInv == /\ TypeOK /\ LengthBounds /\ SlotsMatch /\ GapsMarked /\ RoundBegins
        /\ ListenerRuns /\ RunsOnOwnFd /\ SuspendedFibersAreOpen

FiberStates == {"none", "fresh", "suspended"}

----------------------------------------------------------------------------
\* What the invariant says about the two arrays.
LEMMA SlotsTyped ==
  ASSUME IInv
  PROVE  /\ SocketsTypeOK /\ ArrayTypeOK(arr)
         /\ arr.length \in Nat /\ Len(arr.fds) \in Nat /\ arr.length <= Len(arr.fds)
         /\ arr = [length |-> arr.length, fds |-> arr.fds]
         /\ DOMAIN arr.fds = Slots /\ i \in Nat /\ pollfd_size \in 0 .. Len(arr.fds)
         /\ fibers \in Seq([fiber : Fds, fd : Fds \union {NoFd}]) /\ fiber \in [Fds -> FiberStates]
         /\ pc \in InScan => i + 1 \in Slots /\ InLoop /\ i < pollfd_size
PROOF
<1>1. /\ ArrayTypeOK(arr) /\ SocketsTypeOK /\ i \in Nat /\ pollfd_size \in 0 .. Len(arr.fds)
      /\ fibers \in Seq([fiber : Fds, fd : Fds \union {NoFd}]) /\ fiber \in [Fds -> FiberStates]
      /\ pc \in InScan => i < pollfd_size
      /\ arr.length <= Len(arr.fds)
  BY DEF IInv, TypeOK, LengthBounds, InScan, FiberStates
<1>2. /\ arr.length \in Nat /\ Len(arr.fds) \in Nat /\ DOMAIN arr.fds = 1 .. Len(arr.fds)
      /\ arr = [length |-> arr.length, fds |-> arr.fds]
  BY <1>1, ArrayFacts
<1>3. pc \in InScan => InLoop
  BY DEF InScan, InLoop
<1> QED BY <1>1, <1>2, <1>3 DEF Slots

\* The slot that is scanned has a live fiber and an open descriptor.
LEMMA CurrentIsLive ==
  ASSUME IInv, pc \in InScan
  PROVE  /\ i + 1 \in Slots /\ Current = arr.fds[i + 1] /\ Closure = fibers[i + 1]
         /\ Current.fd \in OpenFds /\ Current.fd \in Fds /\ Current.fd # NoFd
         /\ Closure = [fiber |-> Current.fd, fd |-> Current.fd]
         /\ Closure.fiber = Current.fd /\ Closure.fd = Current.fd
         /\ fiber[Current.fd] # "none"
         /\ Current.fd = ListenFd => i = 0
PROOF
<1>1. i + 1 \in Slots /\ i \in Nat /\ InLoop
  BY SlotsTyped
<1>2. arr.fds[i + 1].fd # NoFd
  BY <1>1 DEF IInv, GapsMarked
<1>3. LET f == arr.fds[i + 1].fd
      IN  /\ f \in OpenFds /\ fibers[i + 1] = [fiber |-> f, fd |-> f] /\ fiber[f] # "none"
          /\ f = ListenFd => i + 1 = 1
  BY <1>1, <1>2 DEF IInv, SlotsMatch
<1> QED BY <1>1, <1>2, <1>3, DescriptorFacts DEF Current, Closure

\* The steps that write neither array, free no fiber and open and close nothing.
LEMMA QuietPreserves ==
  ASSUME IInv,
         \/ PollGivesUp \/ SkipSlot \/ BadEvent \/ Resume \/ ListenerFails
         \/ HandlerLosesPeer \/ HandlerReceives \/ HandlerSends \/ SendKills
         \/ LeaveLoop \/ KillFails \/ Exit \/ EnvNext \/ UNCHANGED vars
  PROVE  IInv'
PROOF
<1>1. /\ SocketsTypeOK /\ ArrayTypeOK(arr) /\ Len(arr.fds) \in Nat /\ arr.length \in Nat
      /\ i \in Nat /\ pollfd_size \in 0 .. Len(arr.fds)
      /\ pc \in InScan => InLoop /\ i < pollfd_size
  BY SlotsTyped
<1>2. /\ UNCHANGED <<arr, fibers, fiber, pollfd_size, compress_pollfd>>
      /\ i' \in {i, i + 1} \/ ~InLoop'
  BY DEF PollGivesUp, SkipSlot, BadEvent, Resume, ListenerFails, HandlerLosesPeer, HandlerReceives,
         HandlerSends, SendKills, LeaveLoop, KillFails, Exit, EnvNext, vars, fiberVars, flags,
         NextSlot, Goto, Abort, InLoop, InFiber
<1>3. SocketsTypeOK' /\ OpenFds' = OpenFds
  <2>1. CASE UNCHANGED sockVars
    BY <1>1, <2>1 DEF sockVars, SocketsTypeOK, OpenFds, IsOpen
  <2>2. CASE ListenerFails
    BY <1>1, <2>2, HostAcceptErrorFacts DEF ListenerFails
  <2>3. CASE HandlerReceives
    BY <1>1, <2>3, HostRecvFacts DEF HandlerReceives
  <2>4. CASE EnvNext
    BY <1>1, <2>4, NetworkFacts DEF EnvNext
  <2> QED BY <2>1, <2>2, <2>3, <2>4
          DEF PollGivesUp, SkipSlot, BadEvent, Resume, HandlerLosesPeer, HandlerSends, SendKills,
              LeaveLoop, KillFails, Exit, Abort, vars
<1>4. InLoop' => InLoop
  BY DEF InLoop, InFiber, PollGivesUp, SkipSlot, BadEvent, Resume, ListenerFails, HandlerLosesPeer,
         HandlerReceives, HandlerSends, SendKills, LeaveLoop, KillFails, Exit, EnvNext, vars,
         NextSlot, Goto, Abort
<1>5. end_server' \in BOOLEAN /\ compress_pollfd' \in BOOLEAN /\ failed' \in {0, 293, 300, 304}
  <2>1. end_server \in BOOLEAN /\ compress_pollfd \in BOOLEAN /\ failed \in {0, 293, 300, 304}
    BY DEF IInv, TypeOK
  <2>2. CASE HandlerReceives
    BY <2>1, <2>2 DEF HandlerReceives, Goto
  <2>3. CASE ListenerFails \/ PollGivesUp \/ BadEvent
    <3>1. failed' = failed /\ end_server' \in {TRUE, end_server}
      BY <2>3 DEF ListenerFails, PollGivesUp, BadEvent, Goto
    <3> QED BY <1>2, <2>1, <3>1
  <2>4. CASE UNCHANGED flags
    <3>1. failed' \in {failed, 293, 300, 304}
      BY DEF PollGivesUp, SkipSlot, BadEvent, Resume, ListenerFails, HandlerLosesPeer,
             HandlerReceives, HandlerSends, SendKills, LeaveLoop, KillFails, Exit, EnvNext, vars,
             NextSlot, Goto, Abort
    <3> QED BY <2>1, <2>4, <3>1 DEF flags
  <2> QED BY <2>2, <2>3, <2>4
          DEF SkipSlot, Resume, HandlerLosesPeer, HandlerSends, SendKills, LeaveLoop, KillFails,
              Exit, EnvNext, vars, Abort
<1>6. /\ pc' \in {"poll", "scan", "compress", "leave", "cleanup"} \union InFiber \union Stopped
      /\ i' \in Nat
      /\ pc' \in {"scan"} \union InFiber => i' < pollfd_size
  BY <1>1 DEF IInv, TypeOK, PollGivesUp, SkipSlot, BadEvent, Resume, ListenerFails, HandlerLosesPeer,
         HandlerReceives, HandlerSends, SendKills, LeaveLoop, KillFails, Exit, EnvNext, vars,
         NextSlot, Goto, Abort, InFiber, Stopped
<1>7. fd' \in Fds \union {NoFd} /\ ListenerRuns' /\ RunsOnOwnFd'
  <2>1. CASE Resume
    <3>1. /\ pc \in InScan /\ i' = i /\ fd' = Closure.fd /\ fibers' = fibers /\ arr' = arr
          /\ pc' = IF Closure.fiber = ListenFd THEN "listener" ELSE "recv"
      BY <2>1 DEF Resume, InScan, fiberVars
    <3>2. Current' = Current /\ Closure' = Closure
      BY <3>1 DEF Current, Closure
    <3>3. fd' = Current.fd /\ fd' = Closure.fiber /\ fd' \in OpenFds /\ fd' \in Fds
      BY <3>1, CurrentIsLive
    <3>4. IsOpen(fd)'
      BY <1>3, <3>3, DescriptorFacts DEF OpenFds, IsOpen
    <3> QED BY <3>1, <3>2, <3>3, <3>4 DEF ListenerRuns, RunsOnOwnFd
  <2>2. CASE ~Resume
    <3>1. /\ fd' \in {fd, NoFd}
          /\ pc' \in InFiber => /\ pc \in InFiber /\ fd' = fd /\ i' = i
                                /\ pc' = "listener" => pc = "listener"
      BY <2>2 DEF PollGivesUp, SkipSlot, BadEvent, ListenerFails, HandlerLosesPeer, HandlerReceives,
             HandlerSends, SendKills, LeaveLoop, KillFails, Exit, EnvNext, vars, NextSlot, Goto,
             Abort, InFiber
    <3>2. fd' \in Fds \union {NoFd}
      BY <3>1 DEF IInv, TypeOK
    <3>3. ListenerRuns'
      BY <3>1 DEF IInv, ListenerRuns, InFiber
    <3>4. ASSUME pc' \in InFiber
          PROVE  fd' = Closure'.fiber /\ fd' = Current'.fd /\ IsOpen(fd)'
      <4>1. fd = Closure.fiber /\ fd = Current.fd /\ fd \in OpenFds
        BY <3>1, <3>4, DescriptorFacts DEF IInv, RunsOnOwnFd
      <4>2. Closure' = Closure /\ Current' = Current
        BY <1>2, <3>1, <3>4 DEF Closure, Current
      <4>3. fd' \in OpenFds'
        BY <1>3, <3>1, <3>4, <4>1
      <4> QED BY <3>1, <3>4, <4>1, <4>2, <4>3 DEF OpenFds
    <3> QED BY <3>2, <3>3, <3>4 DEF RunsOnOwnFd
  <2> QED BY <2>1, <2>2
<1>8. TypeOK'
  BY <1>1, <1>2, <1>3, <1>5, <1>6, <1>7 DEF IInv, TypeOK
<1>9. /\ pc' \in InScan => pc \in InScan
      /\ pc' \in InScan /\ i' # i => pc' = "scan" /\ i' = i + 1
      /\ pc' = "poll" => pc = "poll"
  BY DEF InScan, PollGivesUp, SkipSlot, BadEvent, Resume, ListenerFails, HandlerLosesPeer,
         HandlerReceives, HandlerSends, SendKills, LeaveLoop, KillFails, Exit, EnvNext, vars,
         NextSlot, Goto, Abort, InFiber
<1>10. LengthBounds' /\ SlotsMatch' /\ GapsMarked'
  <2>1. LengthBounds'
    BY <1>1, <1>2, <1>4, <1>9 DEF IInv, LengthBounds
  <2>2. SlotsMatch'
    BY <1>2, <1>3, <1>4 DEF IInv, SlotsMatch, Slots
  <2>3. GapsMarked'
    BY <1>1, <1>2, <1>4, <1>9 DEF IInv, GapsMarked, Slots
  <2> QED BY <2>1, <2>2, <2>3
<1>11. RoundBegins'
  BY <1>1, <1>2 DEF IInv, RoundBegins, PollGivesUp, SkipSlot, BadEvent, Resume, ListenerFails,
         HandlerLosesPeer, HandlerReceives, HandlerSends, SendKills, LeaveLoop, KillFails, Exit,
         EnvNext, vars, flags, NextSlot, Goto, Abort
<1>12. SuspendedFibersAreOpen'
  BY <1>2, <1>3, <1>4, DescriptorFacts DEF IInv, SuspendedFibersAreOpen, OpenFds, IsOpen
<1> QED BY <1>7, <1>8, <1>10, <1>11, <1>12 DEF IInv

\* poll() found something: the scan begins, with every slot in use.
LEMMA PollPreserves ==
  ASSUME IInv, Poll
  PROVE  IInv'
PROOF
<1>1. /\ SocketsTypeOK /\ ArrayTypeOK(arr) /\ Len(arr.fds) \in Nat /\ DOMAIN arr.fds = Slots
      /\ arr.length \in Nat
  BY SlotsTyped
<1>2. /\ pc = "poll" /\ arr' = Polled(arr) /\ pollfd_size' = arr.length /\ pc' = "scan" /\ i' = 0
      /\ compress_pollfd' = FALSE
      /\ UNCHANGED <<sock, backlog, fibers, fiber, end_server, fd, failed>>
  BY DEF Poll, sockVars, fiberVars
<1>3. /\ InLoop /\ arr.length = Len(arr.fds) /\ \A k \in Slots : arr.fds[k].fd # NoFd
  BY <1>2 DEF IInv, GapsMarked, InLoop
<1>4. arr.length > 0
  <2>1. PICK k \in ReadySlots(arr) : TRUE
    BY DEF Poll
  <2> QED BY <1>1, <2>1 DEF ReadySlots, Slots
<1>5. /\ ArrayTypeOK(arr') /\ arr'.length = arr.length /\ Len(arr'.fds) = Len(arr.fds)
      /\ Slots' = Slots /\ \A k \in Slots : arr'.fds[k].fd = arr.fds[k].fd
  BY <1>1, <1>2, PolledFacts DEF Slots
<1>6. SocketsTypeOK' /\ OpenFds' = OpenFds
  BY <1>1, <1>2 DEF SocketsTypeOK, OpenFds, IsOpen
<1>7. TypeOK'
  <2>1. pollfd_size' \in 0 .. Len(arr'.fds) /\ i' < pollfd_size'
    <3>1. pollfd_size' = Len(arr.fds) /\ Len(arr'.fds) = Len(arr.fds)
      BY <1>2, <1>3, <1>5
    <3>2. Len(arr.fds) \in Nat /\ Len(arr.fds) > 0 /\ i' = 0
      BY <1>1, <1>2, <1>3, <1>4
    <3> QED BY <3>1, <3>2
  <2>2. TypeOK
    BY DEF IInv
  <2>3. /\ fibers' \in Seq([fiber : Fds, fd : Fds \union {NoFd}])
        /\ fiber' \in [Fds -> {"none", "fresh", "suspended"}]
        /\ end_server' \in BOOLEAN /\ compress_pollfd' \in BOOLEAN
        /\ fd' \in Fds \union {NoFd} /\ failed' \in {0, 293, 300, 304}
    BY <1>2, <2>2 DEF TypeOK
  <2> QED BY <1>2, <1>5, <1>6, <2>1, <2>3 DEF TypeOK
<1>8. LengthBounds' /\ GapsMarked'
  BY <1>1, <1>2, <1>3, <1>5 DEF IInv, LengthBounds, GapsMarked
<1>9. SlotsMatch'
  BY <1>2, <1>3, <1>5, <1>6 DEF IInv, SlotsMatch
<1>10. RoundBegins' /\ ListenerRuns' /\ RunsOnOwnFd'
  BY <1>2 DEF IInv, RoundBegins, ListenerRuns, RunsOnOwnFd, InFiber
<1>11. SuspendedFibersAreOpen'
  BY <1>2, <1>3 DEF IInv, SuspendedFibersAreOpen, IsOpen
<1> QED BY <1>7, <1>8, <1>9, <1>10, <1>11 DEF IInv

\* What happens to fds when the slot that is scanned is given up.
SlotGoes ==
  /\ ArrayTypeOK(arr') /\ Len(arr'.fds) = Len(arr.fds)
  /\ arr'.length \in {arr.length - 1, arr.length}
  /\ arr'.fds[i + 1].fd = NoFd
  /\ \A k \in Slots : k # i + 1 => arr'.fds[k] = arr.fds[k]

\* The slot that is scanned loses its descriptor, nfds being counted down or not.
LEMMA ClearingWithLength ==
  ASSUME IInv, pc \in InScan, NEW m \in Nat, m \in {arr.length - 1, arr.length},
         arr' = [length |-> m, fds |-> [arr.fds EXCEPT ![i + 1].fd = NoFd]]
  PROVE  SlotGoes
PROOF
<1>1. ArrayTypeOK(arr) /\ i + 1 \in 1 .. Len(arr.fds)
  BY SlotsTyped DEF Slots
<1>2. /\ ArrayTypeOK(arr') /\ arr'.length = m /\ Len(arr'.fds) = Len(arr.fds)
      /\ arr'.fds[i + 1].fd = NoFd
      /\ \A k \in 1 .. Len(arr.fds) : k # i + 1 => arr'.fds[k] = arr.fds[k]
  BY <1>1, ClearedFacts
<1> QED BY <1>2 DEF SlotGoes, Slots

\* There is a slot left for nfds to be counted down.
LEMMA CountingDown ==
  ASSUME IInv, pc \in InScan, arr' = [arr EXCEPT !.fds[i + 1].fd = NoFd, !.length = @ - 1]
  PROVE  SlotGoes
PROOF
<1>1. /\ i \in Nat /\ i < pollfd_size /\ pollfd_size \in Nat /\ arr.length \in Nat
      /\ arr = [length |-> arr.length, fds |-> arr.fds]
  BY SlotsTyped
<1>2. PICK m \in Nat : m = arr.length - 1
  BY <1>1 DEF IInv, LengthBounds
<1>3. arr' = [length |-> m, fds |-> [arr.fds EXCEPT ![i + 1].fd = NoFd]]
  BY <1>1, <1>2
<1> QED BY <1>2, <1>3, ClearingWithLength

\* A slot that is cleared without that keeps nfds too large.
LEMMA ClearingOnly ==
  ASSUME IInv, pc \in InScan, arr' = [arr EXCEPT !.fds[i + 1].fd = NoFd]
  PROVE  SlotGoes
PROOF
<1>1. /\ arr.length \in Nat /\ arr = [length |-> arr.length, fds |-> arr.fds]
  BY SlotsTyped
<1>2. arr' = [length |-> arr.length, fds |-> [arr.fds EXCEPT ![i + 1].fd = NoFd]]
  BY <1>1
<1> QED BY <1>1, <1>2, ClearingWithLength

\* The slot that is scanned is given up: its fiber is freed and its descriptor
\* closed, or one of them is only forgotten.
LEMMA GivenUpPreserves ==
  ASSUME IInv, pc \in InScan, SlotGoes, NEW f, f = Current.fd,
         Len(fibers') = Len(fibers), fibers' \in Seq([fiber : Fds, fd : Fds \union {NoFd}]),
         \A k \in Slots : k # i + 1 => fibers'[k] = fibers[k],
         fiber' \in [Fds -> FiberStates], \A g \in Fds : g # f => fiber'[g] = fiber[g],
         SocketsTypeOK', OpenFds' = OpenFds \/ OpenFds' = OpenFds \ {f},
         fiber'[f] # "none" => f \in OpenFds',
         compress_pollfd' = TRUE, end_server' \in BOOLEAN, NextSlot
  PROVE  IInv'
PROOF
<1>1. /\ ArrayTypeOK(arr) /\ Len(arr.fds) \in Nat /\ DOMAIN arr.fds = Slots /\ arr.length \in Nat
      /\ i \in Nat /\ pollfd_size \in 0 .. Len(arr.fds) /\ arr.length <= Len(arr.fds)
      /\ fibers \in Seq([fiber : Fds, fd : Fds \union {NoFd}])
      /\ i + 1 \in Slots /\ InLoop /\ i < pollfd_size
  BY SlotsTyped
<1>2. /\ i' = i + 1 /\ fd' = NoFd /\ pollfd_size' = pollfd_size /\ failed' = failed
      /\ pc' \in {"scan", "compress"} /\ (pc' = "scan" => i' < pollfd_size)
  BY DEF NextSlot
<1>3. InLoop' /\ pc' \notin InFiber /\ (pc' \in InScan => pc' = "scan")
  BY <1>2 DEF InLoop, InFiber, InScan
<1>4. /\ ArrayTypeOK(arr') /\ Len(arr'.fds) = Len(arr.fds) /\ Slots' = Slots
      /\ arr'.length \in {arr.length - 1, arr.length}
      /\ arr'.fds[i + 1].fd = NoFd
      /\ \A k \in Slots : k # i + 1 => arr'.fds[k] = arr.fds[k]
  BY DEF SlotGoes, Slots
<1>5. Len(fibers') = Len(arr'.fds) /\ Len(fibers) = Len(arr.fds)
  BY <1>1, <1>4 DEF IInv, LengthBounds
<1>6. TypeOK'
  BY <1>1, <1>2, <1>3, <1>4, <1>5 DEF IInv, TypeOK, FiberStates, InFiber
<1>7. LengthBounds' /\ GapsMarked'
  <2>1. arr.length + i >= pollfd_size
    BY DEF IInv, LengthBounds
  <2>2. arr'.length + i' >= pollfd_size' /\ arr'.length <= Len(arr'.fds)
    BY <1>1, <1>2, <1>4, <2>1
  <2>3. LengthBounds'
    BY <1>4, <1>5, <2>2 DEF IInv, LengthBounds
  <2>4. GapsMarked'
    BY <1>1, <1>2, <1>3, <1>4 DEF IInv, GapsMarked, Slots
  <2> QED BY <2>3, <2>4
<1>8. SlotsMatch'
  <2> SUFFICES ASSUME NEW k \in Slots, arr'.fds[k].fd # NoFd
               PROVE  LET g == arr'.fds[k].fd
                      IN  /\ g \in OpenFds' /\ fibers'[k] = [fiber |-> g, fd |-> g]
                          /\ fiber'[g] # "none"
                          /\ g = ListenFd => k = 1
                          /\ \A j \in Slots : arr'.fds[j].fd = g => j = k
    BY <1>4 DEF SlotsMatch
  <2>1. k # i + 1 /\ arr'.fds[k] = arr.fds[k] /\ fibers'[k] = fibers[k]
    BY <1>4
  <2>2. LET g == arr.fds[k].fd
        IN  /\ g \in OpenFds /\ fibers[k] = [fiber |-> g, fd |-> g] /\ fiber[g] # "none"
            /\ g = ListenFd => k = 1
            /\ \A j \in Slots : arr.fds[j].fd = g => j = k
    BY <1>1, <2>1 DEF IInv, SlotsMatch
  <2>3. arr.fds[k].fd # f /\ f = arr.fds[i + 1].fd
    BY <1>1, <2>1, <2>2 DEF Current
  <2>4. arr.fds[k].fd \in OpenFds' /\ arr.fds[k].fd \in Fds
    BY <2>2, <2>3, DescriptorFacts
  <2>5. \A j \in Slots : arr'.fds[j].fd = arr.fds[k].fd => j = k
    BY <1>4, <2>1, <2>2
  <2> QED BY <2>1, <2>2, <2>3, <2>4, <2>5
<1>9. RoundBegins' /\ ListenerRuns' /\ RunsOnOwnFd'
  BY <1>1, <1>2, <1>3 DEF RoundBegins, ListenerRuns, RunsOnOwnFd
<1>10. SuspendedFibersAreOpen'
  <2> SUFFICES ASSUME NEW g \in Fds, fiber'[g] # "none" PROVE g \in OpenFds'
    BY <1>3 DEF SuspendedFibersAreOpen, OpenFds
  <2>1. g # f => fiber[g] # "none"
    OBVIOUS
  <2>2. g # f => g \in OpenFds
    BY <1>1, <2>1, DescriptorFacts DEF IInv, SuspendedFibersAreOpen
  <2> QED BY <2>2
<1> QED BY <1>6, <1>7, <1>8, <1>9, <1>10 DEF IInv

\* A hang-up: the fiber is freed, the descriptor only forgotten.
LEMMA HangUpPreserves ==
  ASSUME IInv, HangUp
  PROVE  IInv'
PROOF
<1>1. /\ pc \in InScan /\ NextSlot /\ compress_pollfd' = TRUE /\ end_server' = end_server
      /\ UNCHANGED <<sock, backlog>>
      /\ fiber' = [fiber EXCEPT ![Closure.fiber] = "none"]
      /\ fibers' = [fibers EXCEPT ![i + 1].fd = NoFd]
      /\ arr' = [arr EXCEPT !.fds[i + 1].fd = NoFd, !.length = @ - 1]
  BY DEF HangUp, InScan, sockVars
<1>2. /\ fibers \in Seq([fiber : Fds, fd : Fds \union {NoFd}]) /\ fiber \in [Fds -> FiberStates]
      /\ SocketsTypeOK /\ Len(fibers) = Len(arr.fds) /\ end_server \in BOOLEAN
  BY <1>1, SlotsTyped DEF IInv, TypeOK, LengthBounds
<1>3. /\ i + 1 \in Slots /\ Closure.fiber = Current.fd /\ Current.fd \in Fds
  BY <1>1, CurrentIsLive
<1>4. SlotGoes
  BY <1>1, CountingDown
<1>5. /\ fibers' \in Seq([fiber : Fds, fd : Fds \union {NoFd}]) /\ Len(fibers') = Len(fibers)
      /\ \A k \in Slots : k # i + 1 => fibers'[k] = fibers[k]
  <2> DEFINE S == [fiber : Fds, fd : Fds \union {NoFd}]
  <2>1. \A x \in S : [x EXCEPT !.fd = NoFd] \in S
    OBVIOUS
  <2>2. Len(fibers) \in Nat /\ fibers \in [1 .. Len(fibers) -> S]
    BY <1>2, LenProperties
  <2>3. /\ fibers' \in [1 .. Len(fibers) -> S]
        /\ \A k \in 1 .. Len(fibers) : k # i + 1 => fibers'[k] = fibers[k]
    BY <1>1, <2>1, <2>2
  <2> HIDE DEF S
  <2>4. fibers' \in Seq(S) /\ Len(fibers') = Len(fibers)
    BY <2>2, <2>3, FunctionIsSeq
  <2> QED BY <1>2, <2>3, <2>4 DEF S, Slots
<1>6. /\ fiber' \in [Fds -> FiberStates] /\ fiber'[Current.fd] = "none"
      /\ \A g \in Fds : g # Current.fd => fiber'[g] = fiber[g]
  BY <1>1, <1>2, <1>3 DEF FiberStates
<1>7. SocketsTypeOK' /\ OpenFds' = OpenFds
  BY <1>1, <1>2 DEF SocketsTypeOK, OpenFds, IsOpen
<1> QED BY <1>1, <1>2, <1>4, <1>5, <1>6, <1>7, GivenUpPreserves

\* A fiber has returned or failed.
LEMMA FinishedPreserves ==
  ASSUME IInv, FiberError \/ FiberReturns
  PROVE  IInv'
PROOF
<1>1. /\ pc \in InScan /\ NextSlot /\ compress_pollfd' = TRUE /\ end_server' \in {TRUE, end_server}
      /\ UNCHANGED fibers
      /\ fiber' = [fiber EXCEPT ![Closure.fiber] = "none"]
      /\ IF IsOpen(Closure.fd) THEN HostClose(Closure.fd) ELSE UNCHANGED sockVars
      /\ arr' = [arr EXCEPT !.fds[i + 1].fd = NoFd, !.length = @ - 1]
  BY DEF FiberError, FiberReturns, Finished, InScan, InFiber
<1>2. /\ fibers \in Seq([fiber : Fds, fd : Fds \union {NoFd}]) /\ fiber \in [Fds -> FiberStates]
      /\ SocketsTypeOK /\ end_server \in BOOLEAN
  BY SlotsTyped DEF IInv, TypeOK
<1>3. /\ Closure.fiber = Current.fd /\ Closure.fd = Current.fd /\ Current.fd \in Fds
      /\ IsOpen(Current.fd)
  BY <1>1, CurrentIsLive, DescriptorFacts
<1>4. SlotGoes
  BY <1>1, CountingDown
<1>5. /\ fiber' \in [Fds -> FiberStates] /\ fiber'[Current.fd] = "none"
      /\ \A g \in Fds : g # Current.fd => fiber'[g] = fiber[g]
  BY <1>1, <1>2, <1>3 DEF FiberStates
<1>6. SocketsTypeOK' /\ OpenFds' = OpenFds \ {Current.fd}
  BY <1>1, <1>2, <1>3, HostCloseFacts
<1>7. end_server' \in BOOLEAN
  BY <1>1, <1>2
<1> QED BY <1>1, <1>2, <1>4, <1>5, <1>6, <1>7, GivenUpPreserves

\* A fiber has yielded; once a slot was given up its slot goes too, with the
\* descriptor open and the fiber alive.
LEMMA YieldedPreserves ==
  ASSUME IInv, ListenerYields \/ HandlerYields
  PROVE  IInv'
PROOF
<1>1. /\ pc \in InScan /\ NextSlot /\ UNCHANGED <<sock, backlog, fibers, compress_pollfd, end_server>>
      /\ fiber' = [fiber EXCEPT ![Closure.fiber] = "suspended"]
      /\ arr' = IF compress_pollfd THEN [arr EXCEPT !.fds[i + 1].fd = NoFd] ELSE arr
  BY DEF ListenerYields, HandlerYields, Yielded, InScan, InFiber, sockVars, flags
<1>2. /\ fibers \in Seq([fiber : Fds, fd : Fds \union {NoFd}]) /\ fiber \in [Fds -> FiberStates]
      /\ SocketsTypeOK /\ ArrayTypeOK(arr) /\ Len(arr.fds) \in Nat /\ arr.length \in Nat
      /\ i \in Nat /\ pollfd_size \in 0 .. Len(arr.fds) /\ InLoop /\ i < pollfd_size
      /\ end_server \in BOOLEAN /\ compress_pollfd \in BOOLEAN
  BY <1>1, SlotsTyped DEF IInv, TypeOK
<1>3. /\ Closure.fiber = Current.fd /\ Current.fd \in Fds /\ Current.fd \in OpenFds
      /\ Current = arr.fds[i + 1]
  BY <1>1, CurrentIsLive
<1>4. /\ fiber' \in [Fds -> FiberStates] /\ fiber'[Current.fd] = "suspended"
      /\ \A g \in Fds : g # Current.fd => fiber'[g] = fiber[g]
  BY <1>1, <1>2, <1>3 DEF FiberStates
<1>5. SocketsTypeOK' /\ OpenFds' = OpenFds
  BY <1>1, <1>2 DEF SocketsTypeOK, OpenFds, IsOpen
<1>6. CASE compress_pollfd
  <2>1. SlotGoes
    BY <1>1, <1>6, ClearingOnly
  <2> QED BY <1>1, <1>2, <1>3, <1>4, <1>5, <1>6, <2>1, GivenUpPreserves
<1>7. CASE ~compress_pollfd
  <2>1. arr' = arr /\ Slots' = Slots
    BY <1>1, <1>7 DEF Slots
  <2>2. /\ i' = i + 1 /\ fd' = NoFd /\ pollfd_size' = pollfd_size /\ failed' = failed
        /\ pc' \in {"scan", "compress"} /\ (pc' = "scan" => i' < pollfd_size)
    BY <1>1 DEF NextSlot
  <2>3. InLoop' /\ pc' \notin InFiber /\ (pc' \in InScan => pc' = "scan")
    BY <2>2 DEF InLoop, InFiber, InScan
  <2>4. TypeOK'
    <3>1. i' \in Nat /\ pollfd_size' \in 0 .. Len(arr'.fds)
      BY <1>2, <2>1, <2>2
    <3>2. pc' \in {"scan"} \union InFiber => i' < pollfd_size'
      BY <2>2, <2>3
    <3>3. TypeOK /\ UNCHANGED <<arr, fibers, compress_pollfd, end_server, failed>>
      BY <1>1, <2>1, <2>2 DEF IInv
    <3> QED BY <1>4, <1>5, <2>2, <3>1, <3>2, <3>3 DEF TypeOK, FiberStates
  <2>5. LengthBounds' /\ GapsMarked'
    BY <1>1, <1>2, <1>7, <2>1, <2>2, <2>3 DEF IInv, LengthBounds, GapsMarked, Slots
  <2>6. SlotsMatch'
    <3>1. \A k \in Slots : arr.fds[k].fd # NoFd =>
            /\ arr.fds[k].fd \in Fds /\ fiber'[arr.fds[k].fd] # "none"
      BY <1>2, <1>4, DescriptorFacts DEF IInv, SlotsMatch
    <3>2. UNCHANGED <<arr, fibers>> /\ OpenFds' = OpenFds /\ InLoop /\ SlotsMatch
      BY <1>1, <1>2, <1>5, <2>1 DEF IInv
    <3>3. ASSUME NEW k \in Slots, arr.fds[k].fd # NoFd
          PROVE  LET f == arr.fds[k].fd
                 IN  /\ f \in OpenFds /\ fibers[k] = [fiber |-> f, fd |-> f]
                     /\ f = ListenFd => k = 1
                     /\ \A j \in Slots : arr.fds[j].fd = f => j = k
      BY <3>2, <3>3 DEF SlotsMatch
    <3> QED BY <2>1, <3>1, <3>2, <3>3 DEF SlotsMatch
  <2>7. RoundBegins' /\ ListenerRuns' /\ RunsOnOwnFd'
    BY <1>2, <2>2, <2>3 DEF RoundBegins, ListenerRuns, RunsOnOwnFd
  <2>8. SuspendedFibersAreOpen'
    <3> SUFFICES ASSUME NEW g \in Fds, fiber'[g] # "none" PROVE g \in OpenFds'
      BY <2>3 DEF SuspendedFibersAreOpen, OpenFds
    <3>1. g # Current.fd => g \in OpenFds
      BY <1>2, <1>4, DescriptorFacts DEF IInv, SuspendedFibersAreOpen
    <3> QED BY <1>3, <1>5, <3>1
  <2> QED BY <2>4, <2>5, <2>6, <2>7, <2>8 DEF IInv
<1> QED BY <1>2, <1>6, <1>7

\* The listener runs in the first slot, so nothing was given up in this round
\* and the descriptor and its closure get the same new slot.
LEMMA ListenerAcceptsPreserves ==
  ASSUME IInv, ListenerAccepts
  PROVE  IInv'
PROOF
<1>1. /\ pc = "listener" /\ pc' = "listener" /\ arr.length # Capacity /\ pc \in InScan
      /\ UNCHANGED <<i, pollfd_size, fd, failed, end_server, compress_pollfd>>
  BY DEF ListenerAccepts, Goto, InScan, InFiber, flags
<1>2. PICK f \in ConnFds :
        /\ HostAccept(f)
        /\ arr' = WithSlot(arr, f)
        /\ fibers' = PutAt(fibers, arr.length, [fiber |-> f, fd |-> f])
        /\ fiber' = [fiber EXCEPT ![f] = "fresh"]
  BY DEF ListenerAccepts
<1>3. /\ SocketsTypeOK /\ ArrayTypeOK(arr) /\ Len(arr.fds) \in Nat /\ DOMAIN arr.fds = Slots
      /\ i \in Nat /\ pollfd_size \in 0 .. Len(arr.fds) /\ i < pollfd_size /\ InLoop
      /\ fibers \in Seq([fiber : Fds, fd : Fds \union {NoFd}]) /\ fiber \in [Fds -> FiberStates]
  BY <1>1, SlotsTyped
<1>4. i = 0
  <2>1. fd = Current.fd /\ fd = ListenFd
    BY <1>1 DEF IInv, RunsOnOwnFd, ListenerRuns, InFiber
  <2> QED BY <1>1, <2>1, CurrentIsLive
<1>5. /\ ~compress_pollfd /\ ~end_server /\ arr.length = Len(arr.fds) /\ Len(fibers) = Len(arr.fds)
      /\ arr.length < Capacity
      /\ \A k \in Slots : arr.fds[k].fd # NoFd
  BY <1>1, <1>3, <1>4, CapacityAssumption DEF IInv, RoundBegins, GapsMarked, LengthBounds
<1>6. /\ SocketsTypeOK' /\ f \in Fds \ OpenFds /\ OpenFds' = OpenFds \union {f}
      /\ f # NoFd /\ f # ListenFd
  BY <1>2, <1>3, HostAcceptFacts, DescriptorFacts
<1>7. PICK n \in Nat : n = Len(arr.fds)
  BY <1>3
<1>8. /\ ArrayTypeOK(arr') /\ arr'.length = n + 1 /\ Len(arr'.fds) = n + 1
      /\ \A k \in Slots : arr'.fds[k] = arr.fds[k]
      /\ arr'.fds[n + 1].fd = f
  BY <1>2, <1>3, <1>5, <1>6, <1>7, WithSlotFacts DEF Slots
<1>9. /\ fibers' \in Seq([fiber : Fds, fd : Fds \union {NoFd}]) /\ Len(fibers') = n + 1
      /\ \A k \in Slots : fibers'[k] = fibers[k]
      /\ fibers'[n + 1] = [fiber |-> f, fd |-> f]
  <2>1. [fiber |-> f, fd |-> f] \in [fiber : Fds, fd : Fds \union {NoFd}]
    BY <1>6
  <2>2. fibers' = Append(fibers, [fiber |-> f, fd |-> f])
    BY <1>2, <1>3, <1>5 DEF PutAt
  <2> QED BY <1>3, <1>5, <1>7, <2>1, <2>2, AppendProperties DEF Slots
<1>10. /\ fiber' \in [Fds -> FiberStates] /\ fiber'[f] = "fresh"
       /\ \A g \in Fds : g # f => fiber'[g] = fiber[g]
  BY <1>2, <1>3, <1>6 DEF FiberStates
<1>11. /\ Slots' = Slots \union {n + 1} /\ n + 1 \notin Slots /\ i + 1 \in Slots /\ InLoop'
       /\ \A k \in Slots : arr.fds[k].fd # f
  <2>1. \A k \in Slots : arr.fds[k].fd \in OpenFds
    BY <1>3, <1>5 DEF IInv, SlotsMatch
  <2> QED BY <1>1, <1>3, <1>6, <1>7, <1>8, <2>1 DEF Slots, InLoop, InFiber
<1>12. TypeOK'
  <2>1. pollfd_size' \in 0 .. Len(arr'.fds) /\ i' < pollfd_size' /\ i' \in Nat
    BY <1>1, <1>3, <1>7, <1>8
  <2> QED BY <1>1, <1>6, <1>8, <1>9, <1>10, <2>1 DEF IInv, TypeOK, FiberStates
<1>13. LengthBounds'
  <2>1. n + 1 <= Capacity /\ n + 1 + i >= pollfd_size
    BY <1>3, <1>5, <1>7, CapacityAssumption
  <2> QED BY <1>1, <1>8, <1>9, <2>1 DEF LengthBounds
<1>14. GapsMarked'
  BY <1>5, <1>6, <1>8, <1>11 DEF GapsMarked
<1>15. SlotsMatch'
  <2> SUFFICES ASSUME NEW k \in Slots', arr'.fds[k].fd # NoFd
               PROVE  LET g == arr'.fds[k].fd
                      IN  /\ g \in OpenFds' /\ fibers'[k] = [fiber |-> g, fd |-> g]
                          /\ fiber'[g] # "none"
                          /\ g = ListenFd => k = 1
                          /\ \A j \in Slots' : arr'.fds[j].fd = g => j = k
    BY DEF SlotsMatch
  <2>1. CASE k = n + 1
    BY <1>6, <1>8, <1>9, <1>10, <1>11, <2>1
  <2>2. CASE k \in Slots
    <3>1. LET g == arr.fds[k].fd
          IN  /\ g \in OpenFds /\ fibers[k] = [fiber |-> g, fd |-> g] /\ fiber[g] # "none"
              /\ g = ListenFd => k = 1
              /\ \A j \in Slots : arr.fds[j].fd = g => j = k
      BY <1>3, <1>5, <2>2 DEF IInv, SlotsMatch
    <3>2. arr.fds[k].fd \in Fds /\ arr.fds[k].fd # f
      BY <1>11, <2>2, <3>1, DescriptorFacts
    <3> QED BY <1>6, <1>8, <1>9, <1>10, <1>11, <2>2, <3>1, <3>2
  <2> QED BY <1>11, <2>1, <2>2
<1>16. RoundBegins' /\ ListenerRuns'
  BY <1>1, <1>5 DEF IInv, RoundBegins, ListenerRuns
<1>17. RunsOnOwnFd'
  <2>1. fd = Closure.fiber /\ fd = Current.fd /\ fd \in OpenFds
    BY <1>1, DescriptorFacts DEF IInv, RunsOnOwnFd, InFiber
  <2>2. Closure' = Closure /\ Current' = Current
    BY <1>1, <1>8, <1>9, <1>11 DEF Closure, Current
  <2>3. fd' \in OpenFds'
    BY <1>1, <1>6, <2>1
  <2> QED BY <1>1, <2>1, <2>2, <2>3 DEF RunsOnOwnFd, OpenFds
<1>18. SuspendedFibersAreOpen'
  <2> SUFFICES ASSUME NEW g \in Fds, fiber'[g] # "none" PROVE g \in OpenFds'
    BY <1>11 DEF SuspendedFibersAreOpen, OpenFds
  <2>1. g # f => g \in OpenFds
    BY <1>3, <1>10, DescriptorFacts DEF IInv, SuspendedFibersAreOpen
  <2> QED BY <1>6, <2>1
<1> QED BY <1>12, <1>13, <1>14, <1>15, <1>16, <1>17, <1>18 DEF IInv

\* The compaction moves the slots and their closures alike.
LEMMA CompressPreserves ==
  ASSUME IInv, Compress
  PROVE  IInv'
PROOF
<1>1. /\ pc = "compress" /\ InLoop /\ i' = 0 /\ pollfd_size' = 0
      /\ pc' = (IF end_server THEN "leave" ELSE "poll")
      /\ UNCHANGED <<sock, backlog, fiber, end_server, compress_pollfd, fd, failed>>
  BY DEF Compress, CompressWith, InLoop, sockVars, flags
<1>2. /\ SocketsTypeOK /\ ArrayTypeOK(arr) /\ Len(arr.fds) \in Nat /\ arr.length \in Nat
      /\ arr.length <= Len(arr.fds) /\ Len(arr.fds) <= Capacity /\ Len(fibers) = Len(arr.fds)
      /\ fibers \in Seq([fiber : Fds, fd : Fds \union {NoFd}])
  BY <1>1, SlotsTyped DEF IInv, LengthBounds
<1>3. SocketsTypeOK' /\ OpenFds' = OpenFds
  BY <1>1, <1>2 DEF SocketsTypeOK, OpenFds, IsOpen
<1>4. /\ InLoop' /\ pc' \in {"leave", "poll"} /\ pc' \notin InScan /\ pc' \notin InFiber
      /\ pc' = "poll" => ~end_server
  BY <1>1 DEF InLoop, InScan, InFiber
\* Whichever way the arrays go, this is what the next round gets.
<1>5. /\ ArrayTypeOK(arr') /\ arr'.length <= Len(arr'.fds) /\ Len(arr'.fds) <= Capacity
      /\ fibers' \in Seq([fiber : Fds, fd : Fds \union {NoFd}]) /\ Len(fibers') = Len(arr'.fds)
      /\ SlotsMatch'
      /\ arr'.length = Len(arr'.fds) /\ \A k \in Slots' : arr'.fds[k].fd # NoFd
  <2>1. CASE compress_pollfd
    <3>1. arr' = Compacted(arr)
      BY <2>1 DEF Compress, CompressWith
    <3>2. PICK m \in Nat : m = Cardinality(Kept(arr))
      BY <1>2, KeptFinite
    <3>3. fibers' = [n \in 1 .. m |-> fibers[KeptAt(arr, n)]]
      BY <2>1, <3>2 DEF Compress, CompressWith
    <3>4. /\ ArrayTypeOK(arr') /\ arr'.length = m /\ Len(arr'.fds) = m /\ m <= arr.length
          /\ \A n \in 1 .. m : /\ KeptAt(arr, n) \in Slots
                               /\ arr'.fds[n].fd = arr.fds[KeptAt(arr, n)].fd /\ arr'.fds[n].fd # NoFd
      BY <1>2, <3>1, <3>2, CompactedFacts DEF Slots
    <3>5. /\ \A n \in 1 .. m : n <= KeptAt(arr, n) /\ Rank(arr, KeptAt(arr, n)) = n
          /\ Slots' = 1 .. m
      BY <1>2, <3>2, <3>4, KeptAtFacts DEF Slots
    <3>6. /\ fibers' \in Seq([fiber : Fds, fd : Fds \union {NoFd}]) /\ Len(fibers') = m
          /\ \A n \in 1 .. m : fibers'[n] = fibers[KeptAt(arr, n)]
      <4> DEFINE S == [fiber : Fds, fd : Fds \union {NoFd}]
      <4> HIDE DEF S
      <4>1. \A k \in Slots : fibers[k] \in S
        <5>1. fibers \in [1 .. Len(fibers) -> S]
          BY <1>2, LenProperties DEF S
        <5> QED BY <1>2, <5>1 DEF Slots
      <4>2. fibers' \in [1 .. m -> S]
        BY <3>3, <3>4, <4>1
      <4>3. fibers' \in Seq(S) /\ Len(fibers') = m
        BY <4>2, FunctionIsSeq
      <4> QED BY <3>3, <4>3 DEF S
    <3>7. SlotsMatch'
      <4> SUFFICES ASSUME NEW k \in Slots'
                   PROVE  LET g == arr'.fds[k].fd
                          IN  /\ g \in OpenFds' /\ fibers'[k] = [fiber |-> g, fd |-> g]
                              /\ fiber'[g] # "none"
                              /\ g = ListenFd => k = 1
                              /\ \A j \in Slots' : arr'.fds[j].fd = g => j = k
        BY DEF SlotsMatch
      <4>1. /\ KeptAt(arr, k) \in Slots /\ k <= KeptAt(arr, k) /\ k \in 1 .. m
            /\ arr'.fds[k].fd = arr.fds[KeptAt(arr, k)].fd /\ arr'.fds[k].fd # NoFd
            /\ fibers'[k] = fibers[KeptAt(arr, k)]
        BY <3>4, <3>5, <3>6
      <4>2. LET g == arr'.fds[k].fd
            IN  /\ g \in OpenFds /\ fibers[KeptAt(arr, k)] = [fiber |-> g, fd |-> g]
                /\ fiber[g] # "none"
                /\ g = ListenFd => KeptAt(arr, k) = 1
                /\ \A j \in Slots : arr.fds[j].fd = g => j = KeptAt(arr, k)
        BY <1>1, <4>1 DEF IInv, SlotsMatch
      <4>3. arr'.fds[k].fd = ListenFd => k = 1
        BY <4>1, <4>2
      <4>4. ASSUME NEW j \in Slots', arr'.fds[j].fd = arr'.fds[k].fd
            PROVE  j = k
        <5>1. KeptAt(arr, j) = KeptAt(arr, k)
          BY <3>4, <3>5, <4>2, <4>4
        <5> QED BY <3>5, <5>1
      <4> QED BY <1>1, <1>3, <4>1, <4>2, <4>3, <4>4
    <3>8. m <= Capacity
      BY <1>2, <3>4, CapacityAssumption
    <3> QED BY <3>4, <3>5, <3>6, <3>7, <3>8
  <2>2. CASE ~compress_pollfd
    <3>1. arr' = Unpolled(arr) /\ fibers' = fibers
      BY <2>2 DEF Compress, CompressWith
    <3>2. /\ ArrayTypeOK(arr') /\ arr'.length = arr.length /\ Len(arr'.fds) = Len(arr.fds)
          /\ Slots' = Slots /\ \A k \in Slots : arr'.fds[k].fd = arr.fds[k].fd
      BY <1>2, <3>1, UnpolledFacts DEF Slots
    <3>3. arr.length = Len(arr.fds) /\ \A k \in Slots : arr.fds[k].fd # NoFd
      BY <1>1, <2>2 DEF IInv, GapsMarked
    <3>4. SlotsMatch'
      BY <1>1, <1>3, <3>1, <3>2 DEF IInv, SlotsMatch
    <3> QED BY <1>2, <3>1, <3>2, <3>3, <3>4
  <2> QED BY <2>1, <2>2
<1>6. TypeOK'
  <2>1. Len(arr'.fds) \in Nat
    BY <1>5, ArrayFacts
  <2>2. pollfd_size' \in 0 .. Len(arr'.fds) /\ i' \in Nat
    BY <1>1, <2>1
  <2> QED BY <1>1, <1>3, <1>4, <1>5, <2>2 DEF IInv, TypeOK, InFiber
<1>7. LengthBounds' /\ GapsMarked'
  BY <1>4, <1>5 DEF LengthBounds, GapsMarked
<1>8. RoundBegins' /\ ListenerRuns' /\ RunsOnOwnFd'
  BY <1>1, <1>4 DEF RoundBegins, ListenerRuns, RunsOnOwnFd
<1>9. SuspendedFibersAreOpen'
  BY <1>1, <1>3, DescriptorFacts DEF IInv, SuspendedFibersAreOpen, OpenFds, IsOpen
<1> QED BY <1>5, <1>6, <1>7, <1>8, <1>9 DEF IInv

\* The clean-up counts nfds down, which no scan will look at any more.
LEMMA KillPreserves ==
  ASSUME IInv, Kill
  PROVE  IInv'
PROOF
<1>1. /\ pc = "cleanup" /\ pc' = "cleanup" /\ i < arr.length /\ i' = i + 1
      /\ UNCHANGED <<fibers, pollfd_size, end_server, compress_pollfd, fd, failed>>
  BY DEF Kill, flags
<1>2. /\ SocketsTypeOK /\ ArrayTypeOK(arr) /\ Len(arr.fds) \in Nat /\ arr.length \in Nat
      /\ arr = [length |-> arr.length, fds |-> arr.fds]
      /\ i \in Nat /\ arr.length <= Len(arr.fds) /\ fiber \in [Fds -> FiberStates]
  BY SlotsTyped
<1>3. /\ arr'.fds = arr.fds /\ ArrayTypeOK(arr') /\ arr'.length <= arr.length /\ arr'.length \in Nat
      /\ fiber' \in [Fds -> FiberStates] /\ SocketsTypeOK'
  <2>1. CASE Current.fd = NoFd
    BY <1>2, <2>1 DEF Kill, sockVars, SocketsTypeOK
  <2>2. CASE Current.fd # NoFd
    <3>1. HostClose(Current.fd) /\ fiber' = [fiber EXCEPT ![Closure.fiber] = "none"]
      BY <2>2 DEF Kill
    <3>2. PICK m \in Nat : m = arr.length - 1
      BY <1>1, <1>2
    <3>3. arr' = [length |-> m, fds |-> arr.fds]
      BY <1>2, <2>2, <3>2 DEF Kill
    <3>4. SocketsTypeOK'
      BY <1>2, <3>1, HostCloseFacts
    <3>5. ArrayTypeOK(arr') /\ arr'.fds = arr.fds /\ arr'.length = m
      BY <1>2, <3>3 DEF ArrayTypeOK
    <3>6. fiber' \in [Fds -> FiberStates]
      BY <1>2, <3>1 DEF FiberStates
    <3> QED BY <1>2, <3>2, <3>4, <3>5, <3>6
  <2> QED BY <2>1, <2>2
<1>4. ~InLoop' /\ pc' \notin InScan /\ pc' \notin InFiber
  BY <1>1 DEF InLoop, InScan, InFiber
<1>5. TypeOK'
  BY <1>1, <1>2, <1>3, <1>4 DEF IInv, TypeOK, FiberStates, InFiber
<1>6. LengthBounds'
  BY <1>2, <1>3, <1>4 DEF IInv, LengthBounds
<1>7. SlotsMatch' /\ GapsMarked' /\ SuspendedFibersAreOpen'
  BY <1>1, <1>4 DEF SlotsMatch, GapsMarked, SuspendedFibersAreOpen
<1>8. RoundBegins' /\ ListenerRuns' /\ RunsOnOwnFd'
  BY <1>1, <1>4 DEF RoundBegins, ListenerRuns, RunsOnOwnFd
<1> QED BY <1>5, <1>6, <1>7, <1>8 DEF IInv

----------------------------------------------------------------------------
\* The arrays hold the listener alone at the start.
LEMMA InitEstablishes == Init => IInv
PROOF
<1> SUFFICES ASSUME Init PROVE IInv
  OBVIOUS
<1>1. SocketsTypeOK /\ OpenFds = {ListenFd} /\ ListenFd \in Fds /\ ListenFd # NoFd
  BY SocketsInitFacts, DescriptorFacts DEF Init, ListenFd, NoFd
<1>2. PICK w : w = [length |-> 0, fds |-> <<>>]
  OBVIOUS
<1>3. ArrayTypeOK(arr) /\ arr.length = 1 /\ Len(arr.fds) = 1 /\ arr.fds[1].fd = ListenFd
  <2>1. ArrayTypeOK(w) /\ w.length = 0 /\ Len(w.fds) = 0
    BY <1>2, EmptySeq DEF ArrayTypeOK
  <2>2. arr = WithSlot(w, ListenFd)
    BY <1>2 DEF Init
  <2>3. /\ ArrayTypeOK(arr) /\ arr.length = w.length + 1 /\ Len(arr.fds) = Len(w.fds) + 1
        /\ arr.fds[Len(w.fds) + 1].fd = ListenFd
    BY <1>1, <2>1, <2>2, WithSlotFacts
  <2> QED BY <2>1, <2>3
<1>4. /\ pc = "poll" /\ i = 0 /\ pollfd_size = 0 /\ ~end_server /\ end_server \in BOOLEAN
      /\ compress_pollfd \in BOOLEAN /\ fd = NoFd /\ failed = 0
      /\ fibers = <<[fiber |-> ListenFd, fd |-> ListenFd]>>
      /\ fiber = [f \in Fds |-> IF f = ListenFd THEN "fresh" ELSE "none"]
  BY DEF Init
<1>5. Len(fibers) = 1 /\ fibers \in Seq([fiber : Fds, fd : Fds \union {NoFd}])
      /\ fibers[1] = [fiber |-> ListenFd, fd |-> ListenFd]
  BY <1>1, <1>4
<1>6. Slots = {1} /\ pc \notin InScan /\ pc \notin InFiber
  BY <1>3, <1>4 DEF Slots, InScan, InFiber
<1>7. TypeOK
  <2>1. pollfd_size \in 0 .. Len(arr.fds) /\ i \in Nat
    BY <1>3, <1>4
  <2> QED BY <1>1, <1>3, <1>4, <1>5, <1>6, <2>1 DEF TypeOK, InFiber
<1>8. LengthBounds
  BY <1>3, <1>5, <1>6, CapacityAssumption DEF LengthBounds
<1>9. SlotsMatch
  BY <1>1, <1>3, <1>4, <1>5, <1>6 DEF SlotsMatch
<1>10. GapsMarked
  BY <1>1, <1>3, <1>6 DEF GapsMarked
<1>11. RoundBegins /\ ListenerRuns /\ RunsOnOwnFd
  BY <1>4, <1>6 DEF RoundBegins, ListenerRuns, RunsOnOwnFd
<1>12. SuspendedFibersAreOpen
  BY <1>1, <1>4, DescriptorFacts DEF SuspendedFibersAreOpen
<1> QED BY <1>7, <1>8, <1>9, <1>10, <1>11, <1>12 DEF IInv

\* Every step keeps the invariant.
LEMMA StepPreserves == IInv /\ [Next]_vars => IInv'
PROOF BY QuietPreserves, PollPreserves, HangUpPreserves, FinishedPreserves, YieldedPreserves,
         ListenerAcceptsPreserves, CompressPreserves, KillPreserves
      DEF Next, MainNext

\* The invariant holds for every capacity, every set of descriptors and every
\* bound on what waits in the sockets.
THEOREM Invariance == Spec => []IInv
PROOF
<1>1. Init => IInv
  BY InitEstablishes
<1>2. IInv /\ [Next]_vars => IInv'
  BY StepPreserves
<1> QED BY <1>1, <1>2, PTL DEF Spec

\* The two arrays stay in step: each polled descriptor is open and is the one
\* its slot's live fiber gets, whatever was accepted, given up and compacted.
THEOREM SlotsMatchFibersCorrect == Spec => []SlotsMatchFibers
PROOF
<1>1. IInv => SlotsMatchFibers
  <2> SUFFICES ASSUME IInv PROVE SlotsMatchFibers
    OBVIOUS
  <2>1. LiveSlots = {k \in Slots : arr.fds[k].fd # NoFd}
    BY SlotsTyped DEF LiveSlots
  <2> QED BY <2>1, DescriptorFacts DEF IInv, SlotsMatchFibers, SlotsMatch, LengthBounds
<1> QED BY <1>1, Invariance, PTL

\* A fiber works on its own open descriptor.
THEOREM RunsOnOwnFdCorrect == Spec => []RunsOnOwnFd
PROOF
<1>1. IInv => RunsOnOwnFd
  BY DEF IInv
<1> QED BY <1>1, Invariance, PTL

\* No fiber is left suspended on a descriptor that was closed.
THEOREM SuspendedFibersAreOpenCorrect == Spec => []SuspendedFibersAreOpen
PROOF
<1>1. IInv => SuspendedFibersAreOpen
  BY DEF IInv
<1> QED BY <1>1, Invariance, PTL

----------------------------------------------------------------------------
(* The refinement.                                                          *)

Ending == end_server \/ ~InLoop \/ pc = "leave"

\* What is watched, and that the descriptors of the slots are.
LEMMA WatchedInSlots ==
  ASSUME IInv
  PROVE  /\ \A f : f \in Watched <=> f \in OpenConns /\ \E k \in Slots : arr.fds[k].fd = f
         /\ Watched \subseteq OpenConns /\ OpenConns \subseteq ConnFds
PROOF
<1>1. DOMAIN arr.fds = Slots
  BY SlotsTyped
<1>2. \A f \in OpenConns : f # NoFd
  BY DescriptorFacts DEF OpenConns
<1> QED BY <1>1, <1>2 DEF Watched, LiveSlots, OpenConns

\* When the listener runs the first slot is its own, and the others hold no
\* more than the server watches.
LEMMA WatchedFits ==
  ASSUME IInv, pc = "listener", arr.length # Capacity
  PROVE  Cardinality(Watched) < Capacity - 1
PROOF
<1>1. /\ pc \in InScan /\ i \in Nat /\ InLoop /\ i + 1 \in Slots /\ Len(arr.fds) \in Nat
      /\ arr.length \in Nat /\ DOMAIN arr.fds = Slots
  <2>1. pc \in InScan
    BY DEF InScan, InFiber
  <2> QED BY <2>1, SlotsTyped
<1>2. Current.fd = ListenFd
  BY DEF IInv, RunsOnOwnFd, ListenerRuns, InFiber
<1>3. i = 0 /\ Current = arr.fds[i + 1]
  BY <1>1, <1>2, CurrentIsLive
<1>4. /\ arr.length = Len(arr.fds) /\ arr.length < Capacity
      /\ \A k \in Slots : arr.fds[k].fd # NoFd
  BY <1>1, <1>3, CapacityAssumption DEF IInv, RoundBegins, GapsMarked, LengthBounds
<1>5. PICK n \in Nat : n = Len(arr.fds)
  BY <1>1
<1>6. \A k \in Slots : arr.fds[k].fd \in OpenFds /\ (arr.fds[k].fd = ListenFd => k = 1)
  BY <1>1, <1>4 DEF IInv, SlotsMatch
<1>7. \A f : f \in Watched <=> f \in OpenConns /\ \E k \in Slots : arr.fds[k].fd = f
  BY WatchedInSlots
<1> DEFINE descriptor == [k \in 2 .. n |-> arr.fds[k].fd]
<1>8. n > 0 /\ Slots = 1 .. n /\ arr.fds[1].fd = ListenFd
  BY <1>1, <1>2, <1>3, <1>5 DEF Slots
<1>9. \A k \in 2 .. n : arr.fds[k].fd \in Watched
  <2> SUFFICES ASSUME NEW k \in 2 .. n PROVE arr.fds[k].fd \in Watched
    OBVIOUS
  <2>1. k \in Slots /\ k # 1
    BY <1>8
  <2>2. arr.fds[k].fd \in OpenFds \ {ListenFd}
    BY <1>6, <2>1
  <2> QED BY <1>7, <2>1, <2>2, DescriptorFacts
<1>10. \A f \in Watched : \E k \in 2 .. n : arr.fds[k].fd = f
  <2> SUFFICES ASSUME NEW f \in Watched PROVE \E k \in 2 .. n : arr.fds[k].fd = f
    OBVIOUS
  <2>1. f \in OpenConns /\ f # ListenFd
    BY <1>7, DescriptorFacts
  <2>2. PICK k \in Slots : arr.fds[k].fd = f
    BY <1>7
  <2>3. k \in 2 .. n
    BY <1>8, <2>1, <2>2
  <2> QED BY <2>2, <2>3
<1>11. descriptor \in Surjection(2 .. n, Watched)
  BY <1>9, <1>10 DEF Surjection
<1>12. IsFiniteSet(2 .. n) /\ Cardinality(2 .. n) = n - 1
  BY <1>8, FS_Interval
<1>13. Cardinality(Watched) <= Cardinality(2 .. n) /\ IsFiniteSet(Watched)
  BY <1>11, <1>12, FS_Surjection
<1>14. Cardinality(Watched) \in Nat
  BY <1>13, FS_CardinalityType
<1> QED BY <1>4, <1>5, <1>12, <1>13, <1>14, CapacityAssumption

\* A step that keeps what is watched and open is at most the end of accepting.
LEMMA QuietRefines ==
  ASSUME Watched' = Watched, OpenConns' = OpenConns, (pc' = "exited" <=> pc = "exited"),
         Ending => Ending'
  PROVE  [Abstract!Next]_Abstract!vars
PROOF
<1>1. CASE ~Ending /\ Ending'
  BY <1>1 DEF Abstract!Next, Abstract!Finish, Ending
<1>2. CASE Ending <=> Ending'
  BY <1>2 DEF Abstract!vars, Ending
<1> QED BY <1>1, <1>2

\* A step that watches less and closes nothing forgets what it watched.
LEMMA LessRefines ==
  ASSUME IInv, Watched' \subseteq Watched, OpenConns' = OpenConns,
         (pc' = "exited" <=> pc = "exited"), Ending <=> Ending'
  PROVE  [Abstract!Next]_Abstract!vars
PROOF
<1>1. CASE Watched' = Watched
  BY <1>1, QuietRefines
<1>2. CASE Watched' # Watched
  <2>1. PICK S : S = Watched \ Watched'
    OBVIOUS
  <2>2. S # {} /\ S \subseteq Watched /\ S \in SUBSET ConnFds
    BY <1>2, <2>1, WatchedInSlots
  <2>3. Watched' = Watched \ S /\ OpenConns' \ Watched' = (OpenConns \ Watched) \union S
    BY <2>1, WatchedInSlots
  <2>4. Abstract!Forget(S)
    BY <2>2, <2>3 DEF Abstract!Forget, Ending
  <2> QED BY <2>2, <2>4 DEF Abstract!Next
<1> QED BY <1>1, <1>2

\* A close of one descriptor that is in a slot is the close of a connection
\* that is watched, or of none.
LEMMA CloseRefines ==
  ASSUME IInv, NEW k \in Slots, NEW f, f = arr.fds[k].fd,
         Watched' = Watched \ {f}, OpenConns' = OpenConns \ {f},
         (pc' = "exited" <=> pc = "exited"), Ending => Ending'
  PROVE  [Abstract!Next]_Abstract!vars
PROOF
<1>1. CASE f \in OpenConns
  <2>1. f \in Watched /\ f \in ConnFds
    BY <1>1, WatchedInSlots
  <2>2. OpenConns' \ Watched' = OpenConns \ Watched
    BY <2>1
  <2>3. Abstract!Close(f)
    BY <2>1, <2>2 DEF Abstract!Close, Ending
  <2> QED BY <2>1, <2>3 DEF Abstract!Next
<1>2. CASE f \notin OpenConns
  <2>1. Watched' = Watched /\ OpenConns' = OpenConns
    BY <1>2, WatchedInSlots
  <2> QED BY <2>1, QuietRefines
<1> QED BY <1>1, <1>2

\* A gap is no connection.
LEMMA ConnsAreNotGaps == \A f \in OpenConns : f # NoFd
PROOF BY DescriptorFacts DEF OpenConns

\* When the slot that is scanned is given up no other slot's descriptor changes.
LEMMA SlotGoesKeepsRest ==
  ASSUME SlotGoes, NEW f, f # NoFd
  PROVE  /\ (\E k \in Slots' : arr'.fds[k].fd = f) => \E k \in Slots : arr.fds[k].fd = f
         /\ f # arr.fds[i + 1].fd =>
              ((\E k \in Slots : arr.fds[k].fd = f) => \E k \in Slots' : arr'.fds[k].fd = f)
PROOF
<1>1. Slots' = Slots
  BY DEF SlotGoes, Slots
<1> QED BY <1>1 DEF SlotGoes

\* Whatever the capacity, the server does what ConnectionServer says: it accepts
\* into free places only, closes one connection at a time, forgets some without
\* closing them and accepts nothing once it is to end.
THEOREM Refinement == Spec => ImplementsConnectionServer
PROOF
<1>1. Init => Abstract!Init
  <2> SUFFICES ASSUME Init PROVE Abstract!Init
    OBVIOUS
  <2>1. OpenConns = {}
    BY SocketsInitFacts, DescriptorFacts DEF Init
  <2>2. Watched = {}
    BY <2>1 DEF Watched
  <2> QED BY <2>1, <2>2 DEF Init, Abstract!Init, InLoop
<1>2. IInv => \A f : f \in Watched <=> f \in OpenConns /\ \E k \in Slots : arr.fds[k].fd = f
  BY WatchedInSlots
<1>3. (IInv => \A f : f \in Watched <=> f \in OpenConns /\ \E k \in Slots : arr.fds[k].fd = f)'
  BY <1>2, PTL
<1>4. IInv /\ IInv' /\ [Next]_vars => [Abstract!Next]_Abstract!vars
  <2> SUFFICES ASSUME IInv, IInv', [Next]_vars PROVE [Abstract!Next]_Abstract!vars
    OBVIOUS
  <2>1. /\ SocketsTypeOK /\ ArrayTypeOK(arr) /\ Len(arr.fds) \in Nat /\ arr.length \in Nat
        /\ DOMAIN arr.fds = Slots /\ i \in Nat
    BY SlotsTyped
  <2>2. \A f : f \in Watched <=> f \in OpenConns /\ \E k \in Slots : arr.fds[k].fd = f
    BY <1>2
  <2>3. \A f : f \in Watched' <=> f \in OpenConns' /\ \E k \in Slots' : arr'.fds[k].fd = f
    BY <1>3
  <2>4. CASE ListenerAccepts
    <3>1. /\ pc = "listener" /\ pc' = "listener" /\ end_server' = end_server
          /\ arr.length # Capacity /\ pc \in InScan
      BY <2>4 DEF ListenerAccepts, Goto, flags, InScan, InFiber
    <3>2. PICK f \in ConnFds : HostAccept(f) /\ arr' = WithSlot(arr, f)
      BY <2>4 DEF ListenerAccepts
    <3>3. /\ f \notin OpenConns /\ OpenConns' = OpenConns \union {f} /\ f \in Fds
      BY <2>1, <3>2, HostAcceptFacts
    <3>4. i = 0 /\ ~end_server /\ arr.length = Len(arr.fds)
      <4>1. fd = Current.fd /\ fd = ListenFd /\ InLoop
        BY <3>1 DEF IInv, RunsOnOwnFd, ListenerRuns, InFiber, InLoop
      <4>2. i = 0
        BY <3>1, <4>1, CurrentIsLive
      <4> QED BY <3>1, <4>1, <4>2 DEF IInv, RoundBegins, GapsMarked
    <3>5. Watched' = Watched \union {f}
      <4>1. PICK n \in Nat : n = Len(arr.fds)
        BY <2>1
      <4>2. /\ Len(arr'.fds) = n + 1 /\ arr'.fds[n + 1].fd = f
            /\ \A k \in Slots : arr'.fds[k] = arr.fds[k]
        BY <2>1, <3>2, <3>3, <3>4, <4>1, WithSlotFacts DEF Slots
      <4>3. Slots' = Slots \union {n + 1}
        BY <4>1, <4>2 DEF Slots
      <4> QED BY <2>2, <2>3, <3>3, <4>2, <4>3
    <3>6. f \notin Watched \union (OpenConns \ Watched) /\ OpenConns' \ Watched' = OpenConns \ Watched
      BY <2>2, <3>3, <3>5
    <3>7. /\ (end_server \/ ~InLoop \/ pc = "leave") = FALSE
          /\ (end_server' \/ ~InLoop' \/ pc' = "leave") = FALSE
          /\ (pc = "exited") = FALSE /\ (pc' = "exited") = FALSE
      BY <3>1, <3>4 DEF InLoop, InFiber
    <3>8. Abstract!Cardinality(Watched) = Cardinality(Watched)
      BY DEF Abstract!Cardinality, Cardinality
    <3>9. Cardinality(Watched) < Capacity - 1
      BY <3>1, WatchedFits
    <3>10. Abstract!Accept(f)
      BY <3>5, <3>6, <3>7, <3>8, <3>9 DEF Abstract!Accept
    <3> QED BY <3>10 DEF Abstract!Next
  <2>5. CASE HangUp
    <3>1. /\ pc = "scan" /\ pc' \in {"scan", "compress"} /\ pc \in InScan
          /\ UNCHANGED <<sock, end_server>>
          /\ arr' = [arr EXCEPT !.fds[i + 1].fd = NoFd, !.length = @ - 1]
      BY <2>5 DEF HangUp, NextSlot, InScan, sockVars
    <3>2. OpenConns' = OpenConns /\ (Ending <=> Ending')
      BY <3>1 DEF OpenConns, IsOpen, Ending, InLoop, InFiber
    <3>3. SlotGoes
      BY <3>1, CountingDown
    <3>4. Watched' \subseteq Watched
      BY <2>2, <2>3, <3>2, <3>3, SlotGoesKeepsRest, ConnsAreNotGaps
    <3> QED BY <3>1, <3>2, <3>4, LessRefines
  <2>6. CASE ListenerYields \/ HandlerYields
    <3>1. /\ pc \in InFiber /\ pc' \in {"scan", "compress"} /\ pc \in InScan
          /\ UNCHANGED <<sock, end_server>>
          /\ arr' = IF compress_pollfd THEN [arr EXCEPT !.fds[i + 1].fd = NoFd] ELSE arr
      BY <2>6 DEF ListenerYields, HandlerYields, Yielded, NextSlot, InScan, InFiber, sockVars, flags
    <3>2. OpenConns' = OpenConns /\ (Ending <=> Ending')
      BY <3>1 DEF OpenConns, IsOpen, Ending, InLoop, InFiber
    <3>3. Watched' \subseteq Watched
      <4>1. CASE compress_pollfd
        <5>1. SlotGoes
          BY <3>1, <4>1, ClearingOnly
        <5> QED BY <2>2, <2>3, <3>2, <5>1, SlotGoesKeepsRest, ConnsAreNotGaps
      <4>2. CASE ~compress_pollfd
        BY <3>1, <3>2, <4>2 DEF Watched, LiveSlots
      <4> QED BY <4>1, <4>2
    <3>4. pc # "exited" /\ pc' # "exited"
      BY <3>1 DEF InFiber
    <3> QED BY <3>2, <3>3, <3>4, LessRefines
  <2>7. CASE FiberError \/ FiberReturns
    <3>1. /\ pc \in InFiber /\ pc' \in {"scan", "compress"} /\ pc \in InScan
          /\ end_server => end_server'
          /\ IF IsOpen(Closure.fd) THEN HostClose(Closure.fd) ELSE UNCHANGED sockVars
          /\ arr' = [arr EXCEPT !.fds[i + 1].fd = NoFd, !.length = @ - 1]
      BY <2>7 DEF FiberError, FiberReturns, Finished, NextSlot, InScan, InFiber
    <3>2. /\ i + 1 \in Slots /\ Current = arr.fds[i + 1] /\ Closure.fd = Current.fd
          /\ IsOpen(Closure.fd) /\ Current.fd # NoFd
      BY <3>1, CurrentIsLive, DescriptorFacts
    <3>3. PICK f : f = arr.fds[i + 1].fd
      OBVIOUS
    <3>4. OpenConns' = OpenConns \ {f}
      BY <2>1, <3>1, <3>2, <3>3, HostCloseFacts
    <3>5. SlotGoes
      BY <3>1, CountingDown
    <3>6. Watched' = Watched \ {f}
      <4>1. \A g \in Watched' : g \in Watched \ {f}
        BY <2>2, <2>3, <3>4, <3>5, SlotGoesKeepsRest, ConnsAreNotGaps
      <4>2. \A g \in Watched \ {f} : g \in Watched'
        BY <2>2, <2>3, <3>3, <3>4, <3>5, SlotGoesKeepsRest, ConnsAreNotGaps
      <4> QED BY <4>1, <4>2
    <3>7. (Ending => Ending') /\ pc # "exited" /\ pc' # "exited"
      BY <3>1 DEF Ending, InLoop, InFiber
    <3> QED BY <3>2, <3>3, <3>4, <3>6, <3>7, CloseRefines
  <2>8. CASE Compress
    <3>1. /\ pc = "compress" /\ pc' \in {"leave", "poll"} /\ (pc' = "leave" <=> end_server)
          /\ UNCHANGED <<sock, end_server>>
      BY <2>8 DEF Compress, CompressWith, flags, sockVars, IInv, TypeOK
    <3>2. OpenConns' = OpenConns /\ (Ending <=> Ending')
      BY <3>1 DEF OpenConns, IsOpen, Ending, InLoop, InFiber
    <3>3. \A k \in Slots' : \E j \in Slots : arr'.fds[k].fd = arr.fds[j].fd
      <4>1. CASE compress_pollfd
        <5>1. arr' = Compacted(arr) /\ arr.length <= Len(arr.fds)
          BY <2>8, <4>1 DEF Compress, CompressWith, IInv, LengthBounds
        <5>2. /\ Len(arr'.fds) = arr'.length
              /\ \A n \in 1 .. arr'.length : /\ KeptAt(arr, n) \in 1 .. Len(arr.fds)
                                             /\ arr'.fds[n].fd = arr.fds[KeptAt(arr, n)].fd
          BY <2>1, <5>1, CompactedFacts
        <5> QED BY <5>2 DEF Slots
      <4>2. CASE ~compress_pollfd
        <5>1. arr' = Unpolled(arr)
          BY <2>8, <4>2 DEF Compress, CompressWith
        <5>2. /\ Len(arr'.fds) = Len(arr.fds)
              /\ \A k \in 1 .. Len(arr.fds) : arr'.fds[k].fd = arr.fds[k].fd
          BY <2>1, <5>1, UnpolledFacts
        <5> QED BY <5>2 DEF Slots
      <4> QED BY <4>1, <4>2
    <3>4. Watched' \subseteq Watched
      BY <2>2, <2>3, <3>2, <3>3
    <3> QED BY <3>1, <3>2, <3>4, LessRefines
  <2>9. CASE Kill
    <3>1. pc = "cleanup" /\ pc' = "cleanup" /\ i < arr.length /\ Ending'
      BY <2>9 DEF Kill, Ending, InLoop, InFiber
    <3>2. CASE Current.fd = NoFd
      <4>1. arr' = arr /\ sock' = sock
        BY <2>9, <3>2 DEF Kill, sockVars
      <4>2. Watched' = Watched /\ OpenConns' = OpenConns
        BY <4>1 DEF Watched, LiveSlots, OpenConns, IsOpen
      <4> QED BY <3>1, <4>2, QuietRefines
    <3>3. CASE Current.fd # NoFd
      <4>1. i + 1 \in Slots
        BY <2>1, <3>1, SlotsTyped DEF Slots
      <4>2. PICK f : f = arr.fds[i + 1].fd
        OBVIOUS
      <4>3. OpenConns' = OpenConns \ {f} /\ arr'.fds = arr.fds
        <5>1. HostClose(f) /\ arr' = [arr EXCEPT !.length = @ - 1]
          BY <2>9, <3>3, <4>2 DEF Kill, Current
        <5>2. arr = [length |-> arr.length, fds |-> arr.fds]
          BY SlotsTyped
        <5> QED BY <2>1, <5>1, <5>2, HostCloseFacts
      <4>4. Watched' = Watched \ {f}
        BY <2>2, <2>3, <4>3 DEF Slots
      <4> QED BY <3>1, <4>1, <4>2, <4>3, <4>4, CloseRefines
    <3> QED BY <3>2, <3>3
  <2>10. CASE Exit
    <3>1. /\ pc = "cleanup" /\ pc' \in {"exited", "aborted"} /\ UNCHANGED <<sock, arr>>
      BY <2>10 DEF Exit, Goto, Abort, sockVars
    <3>2. Watched' = Watched /\ OpenConns' = OpenConns /\ Ending /\ Ending'
      BY <3>1 DEF Watched, LiveSlots, OpenConns, IsOpen, Ending, InLoop, InFiber
    <3>3. CASE pc' = "exited"
      <4>1. /\ (end_server \/ ~InLoop \/ pc = "leave") = TRUE
            /\ (end_server' \/ ~InLoop' \/ pc' = "leave") = TRUE
            /\ (pc = "exited") = FALSE /\ (pc' = "exited") = TRUE
        BY <3>1, <3>2, <3>3 DEF Ending
      <4>2. Abstract!Stop
        BY <3>2, <4>1 DEF Abstract!Stop
      <4> QED BY <4>2 DEF Abstract!Next
    <3>4. CASE pc' # "exited"
      BY <3>1, <3>2, <3>4, QuietRefines
    <3> QED BY <3>3, <3>4
  <2>11. CASE Poll
    <3>1. /\ pc = "poll" /\ pc' = "scan" /\ UNCHANGED <<sock, end_server>> /\ arr' = Polled(arr)
      BY <2>11 DEF Poll, sockVars
    <3>2. OpenConns' = OpenConns /\ (Ending => Ending')
      BY <3>1 DEF OpenConns, IsOpen, Ending, InLoop, InFiber
    <3>3. Slots' = Slots /\ \A k \in Slots : arr'.fds[k].fd = arr.fds[k].fd
      BY <2>1, <3>1, PolledFacts DEF Slots
    <3>4. Watched' = Watched
      BY <2>2, <2>3, <3>2, <3>3
    <3> QED BY <3>1, <3>2, <3>4, QuietRefines
  <2>12. CASE ListenerFails \/ HandlerReceives \/ EnvNext
    <3>1. OpenConns' = OpenConns
      BY <2>1, <2>12, HostAcceptErrorFacts, HostRecvFacts, NetworkFacts
         DEF ListenerFails, HandlerReceives, EnvNext
    <3>2. arr' = arr /\ (pc' = "exited" <=> pc = "exited")
      BY <2>12 DEF ListenerFails, HandlerReceives, EnvNext, Goto, fiberVars
    <3>3. Ending => Ending'
      BY <2>12 DEF ListenerFails, HandlerReceives, EnvNext, Goto, flags, Ending, InLoop, InFiber
    <3> QED BY <3>1, <3>2, <3>3, QuietRefines DEF Watched, LiveSlots
  <2>13. CASE \/ PollGivesUp \/ SkipSlot \/ BadEvent \/ Resume \/ HandlerLosesPeer \/ HandlerSends
              \/ SendKills \/ LeaveLoop \/ KillFails \/ UNCHANGED vars
    <3>1. /\ UNCHANGED <<sock, arr>> /\ (pc' = "exited" <=> pc = "exited")
          /\ Ending => Ending'
      BY <2>13 DEF PollGivesUp, SkipSlot, BadEvent, Resume, HandlerLosesPeer, HandlerSends,
             SendKills, LeaveLoop, KillFails, vars, sockVars, flags, NextSlot, Goto, Abort,
             Ending, InLoop, InFiber
    <3> QED BY <3>1, QuietRefines DEF Watched, LiveSlots, OpenConns, IsOpen
  <2> QED BY <2>4, <2>5, <2>6, <2>7, <2>8, <2>9, <2>10, <2>11, <2>12, <2>13 DEF Next, MainNext
<1> QED BY <1>1, <1>4, Invariance, PTL DEF Spec, ImplementsConnectionServer, Abstract!Spec
=============================================================================
