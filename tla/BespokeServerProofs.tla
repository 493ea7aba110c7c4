------------------------ MODULE BespokeServerProofs ------------------------
(***************************************************************************)
(* BespokeServer.tla for every capacity, every set of descriptors and every *)
(* bound on what waits in the sockets: the inductive invariant of its array *)
(* and what follows from it.  The listener is always scanned first; that is *)
(* why an accept, which does not look at the capacity, never meets a gap.   *)
(***************************************************************************)
EXTENDS BespokeServer, PollArrayProofs

Slots == 1 .. Len(arr.fds)

\* nfds counts every slot, the gaps too.
LengthIsLen == arr.length = Len(arr.fds)

\* Every open descriptor is in one slot, and there is no other in the array.
OpenInOneSlot ==
  InLoop =>
    /\ \A k \in Slots : arr.fds[k].fd = NoFd \/ arr.fds[k].fd \in OpenFds
    /\ \A f \in OpenFds : \E k \in Slots : arr.fds[k].fd = f
    /\ \A j, k \in Slots : arr.fds[j].fd = arr.fds[k].fd /\ j # k => arr.fds[j].fd = NoFd

\* A gap is never without the flag that asks for the compaction.
GapsMarked == InLoop /\ ~compress_array => \A k \in Slots : arr.fds[k].fd # NoFd

\* The listener keeps the first slot, so accepts come before receives.
ListenerFirst ==
  /\ InLoop => 1 \in Slots /\ arr.fds[1].fd = ListenFd
  /\ pc = "accept" => i = 0
  /\ pc \in {"recv", "send", "close"} => i > 0

\* Nothing was closed or ended before the first slot was scanned.
RoundBegins ==
  pc = "poll" \/ (pc \in {"scan", "accept"} /\ i = 0) => ~compress_array /\ ~end_server

\* What is still open is in a slot that the clean-up has yet to come to.
CleanupCovers ==
  /\ pc = "cleanup" => \A f \in OpenConns : \E k \in Slots : k > i /\ arr.fds[k].fd = f
  /\ pc = "exited" => OpenConns = {}

IInv == /\ TypeOK /\ LengthIsLen
        /\ OpenInOneSlot /\ GapsMarked /\ ListenerFirst /\ RoundBegins /\ CleanupCovers

----------------------------------------------------------------------------
\* What the invariant says about the array.
LEMMA SlotsTyped ==
  ASSUME IInv
  PROVE  /\ SocketsTypeOK /\ ArrayTypeOK(arr)
         /\ arr.length \in Nat /\ arr.length = Len(arr.fds) /\ Len(arr.fds) \in Nat
         /\ DOMAIN arr.fds = Slots /\ i \in Nat /\ current_size \in 0 .. Len(arr.fds)
         /\ pc \in {"scan", "accept", "recv", "send", "close"} => i + 1 \in Slots
PROOF
<1>1. /\ ArrayTypeOK(arr) /\ SocketsTypeOK /\ arr.length = Len(arr.fds) /\ i \in Nat
      /\ current_size \in 0 .. Len(arr.fds)
      /\ pc \in {"scan", "accept", "recv", "send", "close"} => i < current_size
  BY DEF IInv, TypeOK, LengthIsLen
<1>2. arr.length \in Nat /\ Len(arr.fds) \in Nat /\ DOMAIN arr.fds = 1 .. Len(arr.fds)
  BY <1>1, ArrayFacts
<1> QED BY <1>1, <1>2 DEF Slots

\* A step that touches neither the array nor what is open, and does not go back
\* into the loop, keeps what the array is about.
LEMMA SameArrayPreserves ==
  ASSUME IInv, arr' = arr, OpenFds' = OpenFds, InLoop' => InLoop,
         compress_array' = compress_array
  PROVE  LengthIsLen' /\ OpenInOneSlot' /\ GapsMarked' /\ (InLoop' => 1 \in Slots' /\ arr'.fds[1].fd = ListenFd)
PROOF BY DEF IInv, LengthIsLen, OpenInOneSlot, GapsMarked, ListenerFirst, Slots

\* The steps that write no slot and open and close nothing.
LEMMA QuietPreserves ==
  ASSUME IInv,
         \/ PollGivesUp \/ SkipSlot \/ BadEvent \/ Readable \/ AcceptsDone \/ AcceptFails
         \/ Drained \/ LosesPeer \/ Receives \/ Sends \/ SendFails \/ SendKills \/ Exit
         \/ EnvNext \/ UNCHANGED vars
  PROVE  IInv'
PROOF
<1>1. /\ SocketsTypeOK /\ ArrayTypeOK(arr) /\ Len(arr.fds) \in Nat /\ i \in Nat
      /\ arr.length = Len(arr.fds) /\ current_size \in 0 .. Len(arr.fds)
  BY SlotsTyped
<1>2. arr' = arr /\ current_size' = current_size /\ compress_array' = compress_array
  BY DEF PollGivesUp, SkipSlot, BadEvent, Readable, AcceptsDone, AcceptFails, Drained, LosesPeer,
         Receives, Sends, SendFails, SendKills, Exit, EnvNext, vars, serverVars
<1>3. SocketsTypeOK' /\ OpenFds' = OpenFds
  <2>1. CASE UNCHANGED sockVars
    BY <1>1, <2>1 DEF sockVars, SocketsTypeOK, OpenFds, IsOpen
  <2>2. CASE AcceptFails
    BY <1>1, <2>2, HostAcceptErrorFacts DEF AcceptFails
  <2>3. CASE Receives
    BY <1>1, <2>3, HostRecvFacts DEF Receives
  <2>4. CASE EnvNext
    BY <1>1, <2>4, NetworkFacts DEF EnvNext
  <2> QED BY <2>1, <2>2, <2>3, <2>4
          DEF PollGivesUp, SkipSlot, BadEvent, Readable, AcceptsDone, Drained, LosesPeer,
              Sends, SendFails, SendKills, Exit, vars
<1>4. InLoop' => InLoop
  BY DEF InLoop, PollGivesUp, SkipSlot, BadEvent, Readable, AcceptsDone, AcceptFails, Drained,
         LosesPeer, Receives, Sends, SendFails, SendKills, Exit, EnvNext, vars, serverVars,
         NextSlot, Goto
<1>5. end_server' \in BOOLEAN /\ close_conn' \in BOOLEAN /\ compress_array' \in BOOLEAN
  BY <1>2 DEF IInv, TypeOK, PollGivesUp, SkipSlot, BadEvent, Readable, AcceptsDone, AcceptFails,
         Drained, LosesPeer, Receives, Sends, SendFails, SendKills, Exit, EnvNext, vars, serverVars
<1>6. /\ pc' \in {"poll", "scan", "accept", "recv", "send", "close", "compress", "cleanup"} \union Stopped
      /\ i' \in Nat
      /\ pc' \in {"scan", "accept", "recv", "send", "close"} => i' < current_size
  BY <1>1 DEF IInv, TypeOK, PollGivesUp, SkipSlot, BadEvent, Readable, AcceptsDone, AcceptFails,
         Drained, LosesPeer, Receives, Sends, SendFails, SendKills, Exit, EnvNext, vars, serverVars,
         NextSlot, Goto, Stopped
<1>7. TypeOK'
  BY <1>1, <1>2, <1>3, <1>5, <1>6 DEF TypeOK
<1>8. (pc' = "accept" => i' = 0) /\ (pc' \in {"recv", "send", "close"} => i' > 0)
  <2>1. CASE Readable
    <3>1. i' = i /\ pc' \in {"accept", "recv"} /\ (pc' = "accept" <=> arr.fds[i + 1].fd = ListenFd)
      BY <2>1 DEF Readable, Goto, Current
    <3>2. 1 \in Slots /\ i + 1 \in Slots /\ arr.fds[1].fd = ListenFd /\ ListenFd # NoFd
      BY <2>1, SlotsTyped DEF IInv, ListenerFirst, InLoop, Readable, NoFd, ListenFd
    <3>3. arr.fds[i + 1].fd = ListenFd <=> i = 0
      BY <1>1, <2>1, <3>2 DEF IInv, OpenInOneSlot, InLoop, Readable
    <3> QED BY <1>1, <3>1, <3>3
  <2> QED BY <1>1, <2>1 DEF IInv, ListenerFirst, PollGivesUp, SkipSlot, BadEvent, AcceptsDone,
              AcceptFails, Drained, LosesPeer, Receives, Sends, SendFails, SendKills, Exit, EnvNext,
              vars, serverVars, NextSlot, Goto
<1>9. RoundBegins'
  BY <1>1, <1>2 DEF IInv, RoundBegins, ListenerFirst, PollGivesUp, SkipSlot, BadEvent, Readable,
         AcceptsDone, AcceptFails, Drained, LosesPeer, Receives, Sends, SendFails, SendKills, Exit,
         EnvNext, vars, serverVars, NextSlot, Goto
<1>10. CleanupCovers'
  <2>1. OpenConns' = OpenConns /\ Slots' = Slots
    BY <1>2, <1>3, DescriptorFacts DEF Slots, OpenConns, OpenFds, IsOpen
  <2>2. CASE PollGivesUp
    <3>1. pc' = "cleanup" /\ i' = 0 /\ InLoop
      BY <2>2 DEF PollGivesUp, InLoop
    <3> QED BY <1>2, <2>1, <3>1, DescriptorFacts DEF IInv, OpenInOneSlot, CleanupCovers, Slots
  <2>3. CASE Exit
    <3>1. pc = "cleanup" /\ pc' = "exited" /\ i >= Len(arr.fds)
      BY <1>1, <2>3 DEF Exit, Goto
    <3> QED BY <1>1, <2>1, <3>1 DEF IInv, CleanupCovers, Slots
  <2>4. CASE ~PollGivesUp /\ ~Exit
    <3>1. (pc' = "cleanup" => pc = "cleanup" /\ i' = i) /\ (pc' = "exited" => pc = "exited")
      BY <2>4 DEF SkipSlot, BadEvent, Readable, AcceptsDone, AcceptFails, Drained,
             LosesPeer, Receives, Sends, SendFails, SendKills, EnvNext, vars, serverVars,
             NextSlot, Goto
    <3> QED BY <1>2, <2>1, <3>1 DEF IInv, CleanupCovers
  <2> QED BY <2>2, <2>3, <2>4
<1> QED BY <1>2, <1>3, <1>4, <1>7, <1>8, <1>9, <1>10, SameArrayPreserves DEF IInv, ListenerFirst

\* poll() found something: the scan begins at the listener.
LEMMA PollPreserves ==
  ASSUME IInv, Poll
  PROVE  IInv'
PROOF
<1>1. /\ SocketsTypeOK /\ ArrayTypeOK(arr) /\ Len(arr.fds) \in Nat /\ arr.length = Len(arr.fds)
  BY SlotsTyped
<1>2. /\ pc = "poll" /\ arr' = Polled(arr) /\ current_size' = arr.length /\ pc' = "scan" /\ i' = 0
      /\ UNCHANGED <<sock, backlog, end_server, compress_array, close_conn>>
  BY DEF Poll, sockVars
<1>3. /\ ArrayTypeOK(arr') /\ arr'.length = Len(arr'.fds) /\ Len(arr'.fds) = Len(arr.fds)
      /\ \A k \in Slots : arr'.fds[k].fd = arr.fds[k].fd
  BY <1>1, <1>2, PolledFacts DEF Slots
<1>4. InLoop /\ 1 \in Slots /\ Slots' = Slots /\ OpenFds' = OpenFds
  BY <1>2, <1>3 DEF IInv, ListenerFirst, InLoop, Slots, OpenFds, IsOpen
<1>5. TypeOK'
  BY <1>1, <1>2, <1>3, <1>4 DEF IInv, TypeOK, Slots, SocketsTypeOK
<1>6. LengthIsLen' /\ OpenInOneSlot' /\ GapsMarked'
  BY <1>2, <1>3, <1>4 DEF IInv, LengthIsLen, OpenInOneSlot, GapsMarked
<1>7. ListenerFirst' /\ RoundBegins' /\ CleanupCovers'
  BY <1>2, <1>3, <1>4 DEF IInv, ListenerFirst, RoundBegins, CleanupCovers
<1> QED BY <1>5, <1>6, <1>7 DEF IInv

\* An accept: the array has no gap, and the new descriptor is in no slot.
LEMMA AcceptPreserves ==
  ASSUME IInv, Accept
  PROVE  IInv'
PROOF
<1>1. /\ SocketsTypeOK /\ ArrayTypeOK(arr) /\ Len(arr.fds) \in Nat /\ arr.length = Len(arr.fds)
      /\ DOMAIN arr.fds = Slots /\ i \in Nat /\ current_size \in 0 .. Len(arr.fds)
  BY SlotsTyped
<1>2. /\ pc = "accept" /\ i = 0 /\ i' = i /\ i < current_size /\ ~compress_array /\ ~end_server
      /\ UNCHANGED <<current_size, end_server, compress_array, close_conn>>
  BY DEF IInv, TypeOK, ListenerFirst, RoundBegins, Accept, Goto
<1>3. PICK f \in ConnFds :
        /\ HostAccept(f)
        /\ IF arr.length < Capacity THEN arr' = WithSlot(arr, f) /\ Goto("accept")
                                    ELSE UNCHANGED arr /\ Goto("overrun")
  BY DEF Accept
<1>4. SocketsTypeOK' /\ f \in Fds \ OpenFds /\ OpenFds' = OpenFds \union {f}
  BY <1>1, <1>3, HostAcceptFacts
<1>5. CASE arr.length < Capacity
  <2>1. pc' = "accept" /\ arr' = WithSlot(arr, f)
    BY <1>3, <1>5 DEF Goto
  <2>2. /\ ArrayTypeOK(arr') /\ arr'.length = arr.length + 1 /\ Len(arr'.fds) = Len(arr.fds) + 1
        /\ \A k \in Slots : arr'.fds[k] = arr.fds[k]
        /\ arr'.fds[Len(arr.fds) + 1].fd = f
    BY <1>1, <1>4, <2>1, WithSlotFacts DEF Slots
  <2>3. Slots' = Slots \union {Len(arr.fds) + 1} /\ Len(arr.fds) + 1 \notin Slots
    BY <1>1, <2>2 DEF Slots
  <2>4. f # NoFd /\ InLoop /\ InLoop'
    BY <1>2, <1>4, <2>1, DescriptorFacts DEF InLoop
  <2>5. TypeOK'
    BY <1>1, <1>2, <1>4, <2>1, <2>2 DEF IInv, TypeOK
  <2>6. LengthIsLen' /\ GapsMarked'
    BY <1>1, <1>2, <2>2, <2>3, <2>4 DEF IInv, LengthIsLen, GapsMarked
  <2>7. OpenInOneSlot'
    <3>1. /\ \A k \in Slots : arr.fds[k].fd \in OpenFds
          /\ \A g \in OpenFds : \E k \in Slots : arr.fds[k].fd = g
          /\ \A j, k \in Slots : arr.fds[j].fd = arr.fds[k].fd => j = k
      BY <1>2, <2>4 DEF IInv, OpenInOneSlot, GapsMarked
    <3>2. \A k \in Slots' : arr'.fds[k].fd \in OpenFds'
      BY <1>4, <2>2, <2>3, <3>1
    <3>3. \A g \in OpenFds' : \E k \in Slots' : arr'.fds[k].fd = g
      BY <1>4, <2>2, <2>3, <3>1
    <3>4. \A j, k \in Slots' : arr'.fds[j].fd = arr'.fds[k].fd => j = k
      <4> DEFINE new == Len(arr.fds) + 1
      <4>1. \A k \in Slots : arr'.fds[k].fd = arr.fds[k].fd /\ arr'.fds[k].fd # f
        BY <1>4, <2>2, <3>1
      <4>2. Slots' = Slots \union {new} /\ arr'.fds[new].fd = f
        BY <2>2, <2>3
      <4> HIDE DEF new
      <4> QED BY <3>1, <4>1, <4>2
    <3> QED BY <3>2, <3>3, <3>4 DEF OpenInOneSlot
  <2>8. ListenerFirst' /\ RoundBegins' /\ CleanupCovers'
    BY <1>2, <2>1, <2>2, <2>3, <2>4 DEF IInv, ListenerFirst, RoundBegins, CleanupCovers
  <2> QED BY <2>5, <2>6, <2>7, <2>8 DEF IInv
<1>6. CASE ~(arr.length < Capacity)
  <2>1. pc' = "overrun" /\ arr' = arr /\ ~InLoop'
    BY <1>3, <1>6 DEF Goto, InLoop
  <2>2. TypeOK'
    BY <1>1, <1>2, <1>4, <2>1 DEF IInv, TypeOK, Stopped
  <2> QED BY <1>2, <2>1, <2>2 DEF IInv, LengthIsLen, OpenInOneSlot, GapsMarked, ListenerFirst, RoundBegins,
                             CleanupCovers
<1> QED BY <1>5, <1>6

\* A connection that was served is closed, or left open: a closed one leaves a
\* marked gap.
LEMMA CloseConnPreserves ==
  ASSUME IInv, CloseConn
  PROVE  IInv'
PROOF
<1>1. /\ SocketsTypeOK /\ ArrayTypeOK(arr) /\ Len(arr.fds) \in Nat /\ arr.length = Len(arr.fds)
      /\ DOMAIN arr.fds = Slots /\ i \in Nat /\ current_size \in 0 .. Len(arr.fds)
      /\ arr.length \in Nat /\ arr = [length |-> arr.length, fds |-> arr.fds]
  BY SlotsTyped, ArrayFacts
<1>2. /\ pc = "close" /\ i > 0 /\ i + 1 \in Slots /\ i' = i + 1 /\ InLoop
      /\ pc' \in {"scan", "compress"} /\ (pc' = "scan" => i' < current_size)
      /\ UNCHANGED <<current_size, end_server, close_conn>>
  BY SlotsTyped DEF IInv, ListenerFirst, CloseConn, NextSlot, InLoop
<1>3. CASE ~close_conn
  <2>1. arr' = arr /\ compress_array' = compress_array /\ UNCHANGED <<sock, backlog>>
    BY <1>3 DEF CloseConn, sockVars
  <2>2. OpenFds' = OpenFds /\ InLoop'
    BY <1>2, <2>1 DEF OpenFds, IsOpen, InLoop
  <2>3. TypeOK'
    BY <1>1, <1>2, <2>1 DEF IInv, TypeOK, SocketsTypeOK
  <2>4. RoundBegins' /\ CleanupCovers'
    BY <1>1, <1>2 DEF RoundBegins, CleanupCovers
  <2> QED BY <1>2, <2>1, <2>2, <2>3, <2>4, SameArrayPreserves DEF IInv, ListenerFirst
<1>4. CASE close_conn
  <2>1. HostClose(Current.fd) /\ compress_array' = TRUE /\ arr' = [arr EXCEPT !.fds[i + 1].fd = NoFd]
    BY <1>4 DEF CloseConn
  <2>2. arr' = [length |-> arr.length, fds |-> [arr.fds EXCEPT ![i + 1].fd = NoFd]]
    <3>1. arr = [length |-> arr.length, fds |-> arr.fds]
      BY <1>1
    <3> QED BY <2>1, <3>1
  <2>3. /\ ArrayTypeOK(arr') /\ arr'.length = arr.length /\ Len(arr'.fds) = Len(arr.fds)
        /\ arr'.fds[i + 1].fd = NoFd
        /\ \A k \in Slots : k # i + 1 => arr'.fds[k] = arr.fds[k]
    <3>1. ArrayTypeOK(arr) /\ i + 1 \in 1 .. Len(arr.fds) /\ arr.length \in Nat
      BY <1>1, <1>2 DEF Slots
    <3> QED BY <2>2, <3>1, ClearedFacts DEF Slots
  <2>4. SocketsTypeOK' /\ OpenFds' = OpenFds \ {arr.fds[i + 1].fd}
    BY <1>1, <2>1, HostCloseFacts DEF Current
  <2>5. Slots' = Slots /\ InLoop'
    BY <1>2, <2>3 DEF Slots, InLoop
  <2>6. TypeOK'
    BY <1>1, <1>2, <2>1, <2>3, <2>4 DEF IInv, TypeOK
  <2>7. OpenInOneSlot'
    BY <1>2, <2>3, <2>4, <2>5, DescriptorFacts DEF IInv, OpenInOneSlot
  <2>8. LengthIsLen' /\ GapsMarked' /\ ListenerFirst' /\ RoundBegins' /\ CleanupCovers'
    BY <1>1, <1>2, <2>1, <2>3, <2>5
       DEF IInv, LengthIsLen, GapsMarked, ListenerFirst, RoundBegins, CleanupCovers
  <2> QED BY <2>6, <2>7, <2>8 DEF IInv
<1> QED BY <1>3, <1>4

\* The compaction drops the gaps and nothing else.
LEMMA CompressPreserves ==
  ASSUME IInv, Compress
  PROVE  IInv'
PROOF
<1>1. /\ SocketsTypeOK /\ ArrayTypeOK(arr) /\ Len(arr.fds) \in Nat /\ arr.length = Len(arr.fds)
      /\ arr.length \in Nat
  BY SlotsTyped
<1>2. /\ pc = "compress" /\ InLoop /\ compress_array' = FALSE /\ i' = 0 /\ current_size' = 0
      /\ pc' = (IF end_server THEN "cleanup" ELSE "poll")
      /\ UNCHANGED <<sock, backlog, end_server, close_conn>>
  BY DEF Compress, InLoop, sockVars
<1>3. SocketsTypeOK' /\ OpenFds' = OpenFds
  BY <1>1, <1>2 DEF SocketsTypeOK, OpenFds, IsOpen
<1>4. /\ \A k \in Slots : arr.fds[k].fd = NoFd \/ arr.fds[k].fd \in OpenFds
      /\ \A f \in OpenFds : \E k \in Slots : arr.fds[k].fd = f
      /\ \A j, k \in Slots : arr.fds[j].fd = arr.fds[k].fd /\ j # k => arr.fds[j].fd = NoFd
      /\ 1 \in Slots /\ arr.fds[1].fd = ListenFd
  BY <1>2 DEF IInv, OpenInOneSlot, ListenerFirst
\* Whichever way the array goes, this is what the next round gets.
<1>5. /\ ArrayTypeOK(arr') /\ arr'.length = Len(arr'.fds)
      /\ \A k \in Slots' : arr'.fds[k].fd \in OpenFds
      /\ \A f \in OpenFds : \E k \in Slots' : arr'.fds[k].fd = f
      /\ \A j, k \in Slots' : arr'.fds[j].fd = arr'.fds[k].fd => j = k
      /\ 1 \in Slots' /\ arr'.fds[1].fd = ListenFd
  <2>1. CASE compress_array
    <3>1. arr' = Compacted(arr)
      BY <2>1 DEF Compress
    <3>2. Kept(arr) = {k \in Slots : arr.fds[k].fd # NoFd}
      BY <1>1 DEF Kept, Slots
    <3>3. /\ ArrayTypeOK(arr') /\ arr'.length = Len(arr'.fds) /\ Slots' = 1 .. arr'.length
          /\ \A n \in Slots' : KeptAt(arr, n) \in Kept(arr) /\ arr'.fds[n].fd = arr.fds[KeptAt(arr, n)].fd
          /\ \A k \in Kept(arr) : Rank(arr, k) \in Slots' /\ KeptAt(arr, Rank(arr, k)) = k
          /\ 1 \in Kept(arr) => arr'.length > 0 /\ KeptAt(arr, 1) = 1
      BY <1>1, <3>1, CompactedFacts DEF Slots
    <3>4. \A m, n \in Slots' : KeptAt(arr, m) = KeptAt(arr, n) => m = n
      <4> SUFFICES ASSUME NEW m \in Slots', NEW n \in Slots', KeptAt(arr, m) = KeptAt(arr, n)
                   PROVE  m = n
        OBVIOUS
      <4>1. m \in 1 .. Cardinality(Kept(arr)) /\ n \in 1 .. Cardinality(Kept(arr))
        BY <1>1, <3>1, CompactedFacts DEF Slots
      <4> QED BY <1>1, <4>1, KeptAtFacts
    <3>5. 1 \in Kept(arr) /\ 1 \in Slots' /\ arr'.fds[1].fd = ListenFd
      <4>1. 1 \in Kept(arr)
        BY <1>4, <3>2 DEF ListenFd, NoFd
      <4>2. arr'.length \in Nat
        BY <3>3, ArrayFacts
      <4> QED BY <1>4, <3>3, <4>1, <4>2
    <3>6. \A k \in Slots' : arr'.fds[k].fd \in OpenFds
      BY <1>4, <3>2, <3>3
    <3>7. \A f \in OpenFds : \E k \in Slots' : arr'.fds[k].fd = f
      <4> SUFFICES ASSUME NEW f \in OpenFds PROVE \E n \in Slots' : arr'.fds[n].fd = f
        OBVIOUS
      <4>1. PICK k \in Kept(arr) : arr.fds[k].fd = f
        BY <1>4, <3>2, DescriptorFacts
      <4> QED BY <3>3, <4>1
    <3>8. \A j, k \in Slots' : arr'.fds[j].fd = arr'.fds[k].fd => j = k
      BY <1>4, <3>2, <3>3, <3>4
    <3> QED BY <3>3, <3>5, <3>6, <3>7, <3>8
  <2>2. CASE ~compress_array
    <3>1. arr' = Unpolled(arr)
      BY <2>2 DEF Compress
    <3>2. /\ ArrayTypeOK(arr') /\ arr'.length = Len(arr'.fds) /\ Slots' = Slots
          /\ \A k \in Slots : arr'.fds[k].fd = arr.fds[k].fd
      BY <1>1, <3>1, UnpolledFacts DEF Slots
    <3>3. \A k \in Slots : arr.fds[k].fd # NoFd
      BY <1>2, <2>2 DEF IInv, GapsMarked
    <3> QED BY <1>4, <3>2, <3>3
  <2> QED BY <2>1, <2>2
<1>6. Len(arr'.fds) \in Nat
  BY <1>5, ArrayFacts
<1>7. TypeOK'
  <2>1. pc' \in {"cleanup", "poll"} /\ current_size' \in 0 .. Len(arr'.fds)
    BY <1>2, <1>6
  <2> QED BY <1>2, <1>3, <1>5, <2>1 DEF IInv, TypeOK
<1>8. LengthIsLen' /\ OpenInOneSlot' /\ GapsMarked'
  BY <1>3, <1>5, DescriptorFacts DEF LengthIsLen, OpenInOneSlot, GapsMarked
<1>9. ListenerFirst' /\ RoundBegins'
  BY <1>2, <1>5 DEF ListenerFirst, RoundBegins, IInv, TypeOK
<1>10. CleanupCovers'
  <2>1. OpenConns' \subseteq OpenFds /\ \A k \in Slots' : k > i'
    BY <1>2, <1>3, <1>6 DEF OpenConns, OpenFds, IsOpen, Fds, Slots
  <2> QED BY <1>2, <1>5, <2>1 DEF CleanupCovers
<1> QED BY <1>7, <1>8, <1>9, <1>10 DEF IInv

\* The clean-up closes the slots one after the other.
LEMMA CleanupPreserves ==
  ASSUME IInv, Cleanup
  PROVE  IInv'
PROOF
<1>1. /\ SocketsTypeOK /\ ArrayTypeOK(arr) /\ Len(arr.fds) \in Nat /\ arr.length = Len(arr.fds)
      /\ i \in Nat
  BY SlotsTyped
<1>2. /\ pc = "cleanup" /\ pc' = "cleanup" /\ i < Len(arr.fds) /\ i' = i + 1 /\ arr' = arr
      /\ UNCHANGED <<current_size, end_server, compress_array, close_conn>>
  BY <1>1 DEF Cleanup
<1>3. i + 1 \in Slots /\ arr.fds[i + 1].fd \in Fds \union {NoFd}
  <2>1. i + 1 \in 1 .. Len(arr.fds)
    BY <1>1, <1>2
  <2> QED BY <1>1, <2>1, ArrayFacts DEF Slots
<1>4. SocketsTypeOK' /\ OpenFds' = OpenFds \ {arr.fds[i + 1].fd}
  <2>1. CASE arr.fds[i + 1].fd >= 0
    BY <1>1, <2>1, HostCloseFacts DEF Cleanup, Current
  <2>2. CASE ~(arr.fds[i + 1].fd >= 0)
    <3>1. UNCHANGED <<sock, backlog>>
      BY <2>2 DEF Cleanup, Current, sockVars
    <3>2. arr.fds[i + 1].fd \notin OpenFds
      BY <1>3, <2>2, DescriptorFacts
    <3> QED BY <1>1, <3>1, <3>2 DEF SocketsTypeOK, OpenFds, IsOpen
  <2> QED BY <2>1, <2>2
<1>5. TypeOK'
  BY <1>1, <1>2, <1>4 DEF IInv, TypeOK
<1>6. CleanupCovers'
  <2>1. OpenConns' = OpenConns \ {arr.fds[i + 1].fd} /\ Slots' = Slots /\ \A k \in Slots : k \in Nat
    BY <1>1, <1>2, <1>4, DescriptorFacts DEF Slots, OpenConns, OpenFds, IsOpen
  <2>2. \A f \in OpenConns' : \E k \in Slots : k > i + 1 /\ arr.fds[k].fd = f
    <3> SUFFICES ASSUME NEW f \in OpenConns, f # arr.fds[i + 1].fd
                 PROVE  \E k \in Slots : k > i + 1 /\ arr.fds[k].fd = f
      BY <2>1
    <3>1. PICK k \in Slots : k > i /\ arr.fds[k].fd = f
      BY <1>2 DEF IInv, CleanupCovers
    <3>2. k > i + 1
      BY <1>1, <2>1, <3>1
    <3> QED BY <3>1, <3>2
  <2> QED BY <1>2, <2>1, <2>2 DEF CleanupCovers
<1>7. LengthIsLen' /\ OpenInOneSlot' /\ GapsMarked' /\ ListenerFirst' /\ RoundBegins'
  BY <1>2 DEF IInv, LengthIsLen, OpenInOneSlot, GapsMarked, ListenerFirst, RoundBegins, InLoop
<1> QED BY <1>5, <1>6, <1>7 DEF IInv

----------------------------------------------------------------------------
\* The array holds the listener alone at the start.
LEMMA InitEstablishes == Init => IInv
PROOF
<1> SUFFICES ASSUME Init PROVE IInv
  OBVIOUS
<1>1. /\ SocketsTypeOK /\ OpenFds = {ListenFd} /\ ListenFd \in Fds
  BY SocketsInitFacts, DescriptorFacts DEF Init
<1>2. PICK w : w = [length |-> 0, fds |-> <<>>]
  OBVIOUS
<1>3. /\ ArrayTypeOK(arr) /\ arr.length = 1 /\ Len(arr.fds) = 1 /\ arr.fds[1].fd = ListenFd
  <2>1. ArrayTypeOK(w) /\ w.length = 0 /\ Len(w.fds) = 0
    BY <1>2, EmptySeq DEF ArrayTypeOK
  <2>2. arr = WithSlot(w, ListenFd)
    BY <1>2 DEF Init
  <2>3. /\ ArrayTypeOK(arr) /\ arr.length = w.length + 1 /\ Len(arr.fds) = Len(w.fds) + 1
        /\ arr.fds[Len(w.fds) + 1].fd = ListenFd
    BY <1>1, <2>1, <2>2, WithSlotFacts
  <2> QED BY <2>1, <2>3
<1>4. Slots = {1} /\ ListenFd # NoFd
  BY <1>3 DEF Slots, ListenFd, NoFd
<1>5. TypeOK
  <2>1. /\ pc = "poll" /\ i = 0 /\ current_size = 0
        /\ end_server = FALSE /\ compress_array = FALSE /\ close_conn = FALSE
    BY DEF Init
  <2>2. current_size \in 0 .. Len(arr.fds)
    BY <1>3, <2>1
  <2> QED BY <1>1, <1>3, <2>1, <2>2 DEF TypeOK
<1>6. LengthIsLen /\ OpenInOneSlot /\ GapsMarked
  BY <1>1, <1>3, <1>4 DEF LengthIsLen, OpenInOneSlot, GapsMarked
<1>7. ListenerFirst /\ RoundBegins /\ CleanupCovers
  BY <1>3, <1>4 DEF Init, ListenerFirst, RoundBegins, CleanupCovers
<1> QED BY <1>5, <1>6, <1>7 DEF IInv

\* Every step of the server and of the clients preserves the invariant.
LEMMA StepPreserves == IInv /\ [Next]_vars => IInv'
PROOF
<1> SUFFICES ASSUME IInv, [Next]_vars PROVE IInv'
  OBVIOUS
<1>1. CASE Poll
  BY <1>1, PollPreserves
<1>2. CASE Accept
  BY <1>2, AcceptPreserves
<1>3. CASE CloseConn
  BY <1>3, CloseConnPreserves
<1>4. CASE Compress
  BY <1>4, CompressPreserves
<1>5. CASE Cleanup
  BY <1>5, CleanupPreserves
<1>6. CASE UNCHANGED vars
  BY <1>6, QuietPreserves
<1> QED BY <1>1, <1>2, <1>3, <1>4, <1>5, <1>6, QuietPreserves DEF Next, MainNext

\* The inductive invariant of httpserver_bespoke.c.
THEOREM Invariance == Spec => []IInv
PROOF BY InitEstablishes, StepPreserves, PTL DEF Spec

\* Through accepts, closes and compactions the descriptors in the array are
\* exactly the open ones, each in one slot.
THEOREM ArrayIsOpenSetCorrect == Spec => []ArrayIsOpenSet
PROOF
<1>1. IInv => ArrayIsOpenSet
  <2> SUFFICES ASSUME IInv PROVE ArrayIsOpenSet
    OBVIOUS
  <2>1. DOMAIN arr.fds = Slots /\ TypeOK /\ arr.length = Len(arr.fds)
    BY SlotsTyped DEF IInv
  <2>2. pc = "poll" => \A k \in Slots : arr.fds[k].fd # NoFd
    BY DEF IInv, RoundBegins, GapsMarked, InLoop
  <2>3. OpenFds = {f \in Fds : IsOpen(f)} /\ NoFd \notin OpenFds
    BY DescriptorFacts DEF OpenFds
  <2> QED BY <2>1, <2>2, <2>3 DEF ArrayIsOpenSet, IInv, OpenInOneSlot
<1> QED BY <1>1, Invariance, PTL

----------------------------------------------------------------------------
\* Without a gap there is one slot for each open connection and one for the
\* listener.
LEMMA SlotsAreCounted ==
  ASSUME IInv, InLoop, ~compress_array
  PROVE  Cardinality(OpenConns) \in Nat /\ Len(arr.fds) = Cardinality(OpenConns) + 1
PROOF
<1> DEFINE descriptor == [k \in Slots |-> arr.fds[k].fd]
<1>1. Len(arr.fds) \in Nat /\ IsFiniteSet(Slots) /\ Cardinality(Slots) = Len(arr.fds)
  <2>1. Len(arr.fds) \in Nat
    BY SlotsTyped
  <2> QED BY <2>1, FS_Interval DEF Slots
<1>2. /\ \A k \in Slots : arr.fds[k].fd \in OpenFds
      /\ \A f \in OpenFds : \E k \in Slots : arr.fds[k].fd = f
      /\ \A j, k \in Slots : arr.fds[j].fd = arr.fds[k].fd => j = k
      /\ ListenFd \in OpenFds
  BY DEF IInv, OpenInOneSlot, GapsMarked, ListenerFirst, ListenFd, NoFd
<1>3. descriptor \in Bijection(Slots, OpenFds)
  BY <1>2 DEF Bijection, Injection, Surjection, IsInjective
<1>4. ExistsBijection(Slots, OpenFds)
  BY <1>3 DEF ExistsBijection
<1>5. Cardinality(OpenFds) = Len(arr.fds)
  BY <1>1, <1>4, FS_Bijection
<1>6. OpenFds = OpenConns \union {ListenFd} /\ ListenFd \notin OpenConns
  BY <1>2, DescriptorFacts
<1>7. IsFiniteSet(OpenConns) /\ Cardinality(OpenConns) \in Nat
  BY OpenConnsFinite
<1>8. Cardinality(OpenFds) = Cardinality(OpenConns) + 1
  BY <1>6, <1>7, FS_AddElement
<1> QED BY <1>5, <1>7, <1>8

\* An accept finds room when there are fewer descriptors than slots.
LEMMA AcceptHasRoom ==
  ASSUME IInv, Cardinality(ConnFds) < Capacity, pc = "accept", NEW f \in ConnFds, f \notin OpenConns
  PROVE  arr.length < Capacity
PROOF
<1>1. InLoop /\ ~compress_array
  BY DEF IInv, ListenerFirst, RoundBegins, InLoop
<1>2. arr.length = Cardinality(OpenConns) + 1 /\ Cardinality(OpenConns) \in Nat
  BY <1>1, SlotsAreCounted, SlotsTyped
<1>3. Cardinality(OpenConns) <= Cardinality(ConnFds) /\ Cardinality(OpenConns) # Cardinality(ConnFds)
  BY OpenConnsFinite, FS_Subset
<1> QED BY <1>2, <1>3, OpenConnsFinite, CapacityAssumption

\* The accepts, which do not look at the capacity, never write past the array
\* as long as the limit on descriptors is below it.
THEOREM NeverOverrunsCorrect == Spec => []NeverOverruns
PROOF
<1>1. Init => NeverOverruns
  BY DEF Init, NeverOverruns
<1>2. IInv /\ NeverOverruns /\ [Next]_vars => NeverOverruns'
  <2> SUFFICES ASSUME IInv, pc # "overrun", [Next]_vars, Cardinality(ConnFds) < Capacity
               PROVE  pc' # "overrun"
    BY DEF NeverOverruns
  <2>1. CASE Accept
    <3>1. PICK f \in ConnFds :
            /\ HostAccept(f)
            /\ arr.length < Capacity => Goto("accept")
      BY <2>1 DEF Accept
    <3>2. arr.length < Capacity
      BY <2>1, <3>1, AcceptHasRoom, HostAcceptFacts, SlotsTyped DEF Accept
    <3> QED BY <3>1, <3>2 DEF Goto
  <2>2. CASE ~Accept
    BY <2>2 DEF Next, MainNext, Poll, PollGivesUp, SkipSlot, BadEvent, Readable, AcceptsDone,
           AcceptFails, Drained, LosesPeer, Receives, Sends, SendFails, SendKills, CloseConn,
           Compress, Cleanup, Exit, EnvNext, vars, serverVars, NextSlot, Goto
  <2> QED BY <2>1, <2>2
<1> QED BY <1>1, <1>2, Invariance, PTL DEF Spec

----------------------------------------------------------------------------
(* The refinement.                                                          *)

\* While the server runs it watches every open connection.
LEMMA WatchesAll ==
  ASSUME IInv, InLoop \/ pc = "cleanup"
  PROVE  Watched = OpenConns
PROOF
<1>1. DOMAIN arr.fds = Slots
  BY SlotsTyped
<1>2. \A f \in OpenConns : \E k \in Slots : arr.fds[k].fd = f
  BY DescriptorFacts DEF IInv, OpenInOneSlot, CleanupCovers
<1> QED BY <1>1, <1>2 DEF Watched

\* A step that keeps the array and what is open is at most the end of accepting.
LEMMA QuietRefines ==
  ASSUME Watched' = Watched, OpenConns' = OpenConns, (pc' = "exited" <=> pc = "exited"),
         end_server \/ ~InLoop => end_server' \/ ~InLoop'
  PROVE  [Abstract!Next]_Abstract!vars
PROOF
<1>1. CASE ~(end_server \/ ~InLoop) /\ (end_server' \/ ~InLoop')
  BY <1>1 DEF Abstract!Next, Abstract!Finish
<1>2. CASE (end_server \/ ~InLoop <=> end_server' \/ ~InLoop')
  BY <1>2 DEF Abstract!vars
<1> QED BY <1>1, <1>2

\* A close of one descriptor is the close of one connection, or of none.
LEMMA CloseRefines ==
  ASSUME Watched = OpenConns, Watched' = OpenConns', NEW f, OpenConns' = OpenConns \ {f},
         (pc' = "exited" <=> pc = "exited"),
         (end_server \/ ~InLoop) <=> (end_server' \/ ~InLoop')
  PROVE  [Abstract!Next]_Abstract!vars
PROOF
<1>1. CASE f \in OpenConns
  <2>1. Abstract!Close(f) /\ f \in ConnFds
    BY <1>1 DEF Abstract!Close, OpenConns
  <2> QED BY <2>1 DEF Abstract!Next
<1>2. CASE f \notin OpenConns
  BY <1>2 DEF Abstract!vars
<1> QED BY <1>1, <1>2

\* With more slots than descriptors the server does what ConnectionServer says:
\* it accepts into free places, closes one connection at a time, forgets none,
\* accepts nothing once it is to end and exits when every one is closed.
THEOREM Refinement ==
  ASSUME Cardinality(ConnFds) < Capacity
  PROVE  Spec => ImplementsConnectionServer
PROOF
<1>1. Init => Abstract!Init
  <2> SUFFICES ASSUME Init PROVE Abstract!Init
    OBVIOUS
  <2>1. OpenConns = {}
    BY SocketsInitFacts, DescriptorFacts DEF Init
  <2> QED BY <2>1 DEF Init, Watched, Abstract!Init, InLoop
<1>2. IInv /\ (InLoop \/ pc = "cleanup") => Watched = OpenConns
  BY WatchesAll
<1>3. (IInv /\ (InLoop \/ pc = "cleanup") => Watched = OpenConns)'
  BY <1>2, PTL
<1>4. IInv /\ IInv' /\ [Next]_vars => [Abstract!Next]_Abstract!vars
  <2> SUFFICES ASSUME IInv, IInv', [Next]_vars PROVE [Abstract!Next]_Abstract!vars
    OBVIOUS
  <2>1. /\ SocketsTypeOK /\ ArrayTypeOK(arr) /\ Len(arr.fds) \in Nat /\ arr.length = Len(arr.fds)
        /\ DOMAIN arr.fds = Slots /\ i \in Nat
    BY SlotsTyped
  <2>2. InLoop \/ pc = "cleanup" => Watched = OpenConns
    BY <1>2
  <2>3. InLoop' \/ pc' = "cleanup" => Watched' = OpenConns'
    BY <1>3
  <2>4. CASE Accept
    <3>1. PICK f \in ConnFds :
            /\ HostAccept(f)
            /\ arr.length < Capacity => Goto("accept")
      BY <2>4 DEF Accept
    <3>2. /\ f \notin OpenConns /\ OpenConns' = OpenConns \union {f}
      BY <2>1, <3>1, HostAcceptFacts
    <3>3. /\ pc = "accept" /\ pc' = "accept" /\ end_server' = end_server
          /\ ~end_server /\ ~compress_array /\ arr.length < Capacity
      BY <2>4, <3>1, <3>2, AcceptHasRoom DEF Accept, Goto, IInv, ListenerFirst, RoundBegins
    <3>4. InLoop /\ InLoop' /\ Watched = OpenConns /\ Watched' = OpenConns'
      BY <2>2, <2>3, <3>3 DEF InLoop
    <3>5. Cardinality(Watched) < Capacity - 1
      <4>1. arr.length = Cardinality(OpenConns) + 1 /\ Cardinality(OpenConns) \in Nat
        BY <2>1, <3>3, <3>4, SlotsAreCounted
      <4> QED BY <3>3, <3>4, <4>1, CapacityAssumption
    <3>6. f \notin Watched \union (OpenConns \ Watched) /\ Watched' = Watched \union {f}
          /\ OpenConns' \ Watched' = OpenConns \ Watched
      BY <3>2, <3>4
    <3>7. /\ (end_server \/ ~InLoop) = FALSE /\ (end_server' \/ ~InLoop') = FALSE
          /\ (pc = "exited") = FALSE /\ (pc' = "exited") = FALSE
      BY <3>3, <3>4
    <3>8. Abstract!Cardinality(Watched) = Cardinality(Watched)
      BY DEF Abstract!Cardinality, Cardinality
    <3>9. Abstract!Accept(f)
      BY <3>5, <3>6, <3>7, <3>8 DEF Abstract!Accept
    <3> QED BY <3>9 DEF Abstract!Next
  <2>5. CASE CloseConn
    <3>1. /\ pc = "close" /\ pc' \in {"scan", "compress"} /\ end_server' = end_server
      BY <2>5 DEF CloseConn, NextSlot
    <3>2. InLoop /\ InLoop' /\ Watched = OpenConns /\ Watched' = OpenConns'
      BY <2>2, <2>3, <3>1 DEF InLoop
    <3>3. CASE close_conn
      <4>1. OpenConns' = OpenConns \ {Current.fd}
        BY <2>1, <2>5, <3>3, HostCloseFacts DEF CloseConn
      <4> QED BY <3>1, <3>2, <4>1, CloseRefines
    <3>4. CASE ~close_conn
      <4>1. OpenConns' = OpenConns
        BY <2>5, <3>4 DEF CloseConn, sockVars, OpenConns, IsOpen
      <4> QED BY <3>1, <3>2, <4>1, QuietRefines
    <3> QED BY <3>3, <3>4
  <2>6. CASE Compress
    <3>1. /\ pc = "compress" /\ pc' \in {"poll", "cleanup"} /\ end_server' = end_server
          /\ (end_server \/ ~InLoop) <=> (end_server' \/ ~InLoop')
      BY <2>6 DEF Compress, InLoop
    <3>2. InLoop /\ Watched = OpenConns /\ Watched' = OpenConns' /\ OpenConns' = OpenConns
      BY <2>2, <2>3, <2>6, <3>1 DEF Compress, InLoop, sockVars, OpenConns, IsOpen
    <3> QED BY <3>1, <3>2, QuietRefines
  <2>7. CASE Cleanup
    <3>1. pc = "cleanup" /\ pc' = "cleanup" /\ ~InLoop /\ ~InLoop'
      BY <2>7 DEF Cleanup, InLoop
    <3>2. Watched = OpenConns /\ Watched' = OpenConns'
      BY <2>2, <2>3, <3>1
    <3>3. CASE Current.fd >= 0
      <4>1. OpenConns' = OpenConns \ {Current.fd}
        BY <2>1, <2>7, <3>3, HostCloseFacts DEF Cleanup
      <4> QED BY <3>1, <3>2, <4>1, CloseRefines
    <3>4. CASE ~(Current.fd >= 0)
      <4>1. OpenConns' = OpenConns
        BY <2>7, <3>4 DEF Cleanup, sockVars, OpenConns, IsOpen
      <4> QED BY <3>1, <3>2, <4>1, QuietRefines
    <3> QED BY <3>3, <3>4
  <2>8. CASE Exit
    <3>1. /\ pc = "cleanup" /\ pc' = "exited" /\ ~InLoop /\ ~InLoop' /\ OpenConns' = {}
      BY <2>8 DEF Exit, Goto, InLoop, IInv, CleanupCovers
    <3>2. Watched' = Watched /\ OpenConns' = OpenConns
      BY <2>8 DEF Exit, sockVars, Watched, OpenConns, IsOpen
    <3>3. Abstract!Stop
      BY <3>1, <3>2 DEF Abstract!Stop, Watched
    <3> QED BY <3>3 DEF Abstract!Next
  <2>9. CASE Poll
    <3>1. /\ pc = "poll" /\ pc' = "scan" /\ UNCHANGED <<sock, end_server>>
      BY <2>9 DEF Poll, sockVars
    <3>2. InLoop /\ InLoop' /\ OpenConns' = OpenConns
      BY <3>1 DEF InLoop, OpenConns, IsOpen
    <3> QED BY <2>2, <2>3, <3>1, <3>2, QuietRefines
  <2>10. CASE AcceptFails \/ Receives \/ EnvNext
    <3>1. OpenConns' = OpenConns
      BY <2>1, <2>10, HostAcceptErrorFacts, HostRecvFacts, NetworkFacts
         DEF AcceptFails, Receives, EnvNext
    <3>2. arr' = arr /\ (pc' = "exited" <=> pc = "exited")
      BY <2>10 DEF AcceptFails, Receives, EnvNext, NextSlot, Goto, serverVars
    <3>3. end_server \/ ~InLoop => end_server' \/ ~InLoop'
      BY <2>10 DEF AcceptFails, Receives, EnvNext, NextSlot, Goto, serverVars, InLoop
    <3> QED BY <3>1, <3>2, <3>3, QuietRefines DEF Watched
  <2>11. CASE \/ PollGivesUp \/ SkipSlot \/ BadEvent \/ Readable \/ AcceptsDone \/ Drained
              \/ LosesPeer \/ Sends \/ SendFails \/ SendKills \/ UNCHANGED vars
    <3>1. /\ UNCHANGED <<sock, arr>> /\ (pc' = "exited" <=> pc = "exited")
          /\ (end_server \/ ~InLoop) => (end_server' \/ ~InLoop')
      BY <2>11 DEF PollGivesUp, SkipSlot, BadEvent, Readable, AcceptsDone, Drained, LosesPeer,
             Sends, SendFails, SendKills, vars, serverVars, sockVars, NextSlot, Goto, InLoop
    <3> QED BY <3>1, QuietRefines DEF Watched, OpenConns, IsOpen
  <2> QED BY <2>4, <2>5, <2>6, <2>7, <2>8, <2>9, <2>10, <2>11 DEF Next, MainNext
<1> QED BY <1>1, <1>4, Invariance, PTL DEF Spec, ImplementsConnectionServer, Abstract!Spec
=============================================================================
