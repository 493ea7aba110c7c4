-------------------------- MODULE PollArrayProofs --------------------------
(***************************************************************************)
(* What the operations on an array of struct pollfd do, and what the        *)
(* bindings do to the sockets, for arrays and sets of descriptors of every  *)
(* size.  The compaction is a bijection in rising order from the new slots  *)
(* to the slots that are kept.                                              *)
(***************************************************************************)
EXTENDS PollArray, FiniteSetTheorems, SequenceTheorems, TLAPS

EventNames == {"POLLIN", "POLLHUP", "POLLERR", "POLLNVAL"}

\* The descriptors that are open, the listener's among them.
OpenFds == {f \in Fds : IsOpen(f)}

\* Where the compaction puts a slot that is kept.
Rank(w, k) == Cardinality({j \in Kept(w) : j <= k})

----------------------------------------------------------------------------
\* A function on 1..n is a sequence.
LEMMA FunctionIsSeq ==
  ASSUME NEW n \in Nat, NEW S, NEW f \in [1 .. n -> S]
  PROVE  f \in Seq(S) /\ Len(f) = n /\ DOMAIN f = 1 .. n
PROOF
<1>1. f \in Seq(S)
  BY SeqDef
<1>2. DOMAIN f = 1 .. n
  OBVIOUS
<1>3. Len(f) \in Nat /\ DOMAIN f = 1 .. Len(f)
  BY <1>1, LenProperties
<1> QED BY <1>1, <1>2, <1>3

\* The slots of an array and what is in them.
LEMMA ArrayFacts ==
  ASSUME NEW w, ArrayTypeOK(w)
  PROVE  /\ w.length \in Nat /\ w = [length |-> w.length, fds |-> w.fds]
         /\ Len(w.fds) \in Nat /\ DOMAIN w.fds = 1 .. Len(w.fds)
         /\ w.fds \in [1 .. Len(w.fds) -> SlotType]
         /\ \A k \in 1 .. Len(w.fds) : /\ w.fds[k].fd \in Fds \union {NoFd}
                                       /\ w.fds[k] = [fd |-> w.fds[k].fd, revents |-> w.fds[k].revents]
                                       /\ w.fds[k].revents \subseteq EventNames
PROOF
<1>1. w.fds \in Seq(SlotType)
  BY DEF ArrayTypeOK
<1>2. Len(w.fds) \in Nat /\ DOMAIN w.fds = 1 .. Len(w.fds) /\ w.fds \in [1 .. Len(w.fds) -> SlotType]
  BY <1>1, LenProperties
<1>3. \A x \in SlotType : /\ x.fd \in Fds \union {NoFd} /\ x.revents \subseteq EventNames
                          /\ x = [fd |-> x.fd, revents |-> x.revents]
  BY DEF SlotType, EventNames
<1> QED BY <1>2, <1>3 DEF ArrayTypeOK

\* A record of a length and slots is an array.
LEMMA ArrayOfSlots ==
  ASSUME NEW n \in Nat, NEW m \in Nat, NEW f \in [1 .. n -> SlotType]
  PROVE  LET w == [length |-> m, fds |-> f]
         IN  ArrayTypeOK(w) /\ w.length = m /\ w.fds = f /\ Len(w.fds) = n
PROOF BY FunctionIsSeq DEF ArrayTypeOK

\* A slot that was just written, and one that the next poll will look at.
LEMMA SlotFacts ==
  ASSUME NEW f \in Fds \union {NoFd}
  PROVE  Slot(f) \in SlotType /\ Slot(f).fd = f
PROOF BY DEF Slot, SlotType

\* The kernel reports nothing but what poll knows.
LEMMA ReventsFacts ==
  ASSUME NEW f
  PROVE  Revents(f) \subseteq EventNames
PROOF
<1>1. ("POLLIN" \in EventNames /\ "POLLHUP" \in EventNames
       /\ "POLLERR" \in EventNames /\ "POLLNVAL" \in EventNames)
  BY DEF EventNames
<1>2. \A A, B : A \subseteq EventNames /\ B \subseteq EventNames => A \union B \subseteq EventNames
  OBVIOUS
<1> QED BY <1>1, <1>2 DEF Revents

----------------------------------------------------------------------------
(* The operations on the array.                                             *)

\* A descriptor that is added goes behind the slots, which keep theirs.
LEMMA WithSlotFacts ==
  ASSUME NEW w, ArrayTypeOK(w), w.length = Len(w.fds), NEW f \in Fds
  PROVE  LET v == WithSlot(w, f)
         IN  /\ ArrayTypeOK(v)
             /\ v.length = w.length + 1 /\ Len(v.fds) = Len(w.fds) + 1
             /\ \A k \in 1 .. Len(w.fds) : v.fds[k] = w.fds[k]
             /\ v.fds[Len(w.fds) + 1] = Slot(f)
             /\ v.fds[Len(w.fds) + 1].fd = f
PROOF
<1>1. w.fds \in Seq(SlotType) /\ Len(w.fds) \in Nat
  BY ArrayFacts DEF ArrayTypeOK
<1>2. Slot(f) \in SlotType /\ Slot(f).fd = f
  BY SlotFacts
<1>3. PutAt(w.fds, w.length, Slot(f)) = Append(w.fds, Slot(f))
  BY <1>1 DEF PutAt
<1>4. /\ Append(w.fds, Slot(f)) \in Seq(SlotType)
      /\ Len(Append(w.fds, Slot(f))) = Len(w.fds) + 1
      /\ \A k \in 1 .. Len(w.fds) : Append(w.fds, Slot(f))[k] = w.fds[k]
      /\ Append(w.fds, Slot(f))[Len(w.fds) + 1] = Slot(f)
  BY <1>1, <1>2, AppendProperties
<1> QED BY <1>1, <1>2, <1>3, <1>4 DEF WithSlot, ArrayTypeOK

\* poll writes events and nothing else.
LEMMA PolledFacts ==
  ASSUME NEW w, ArrayTypeOK(w)
  PROVE  LET v == Polled(w)
         IN  /\ ArrayTypeOK(v) /\ v.length = w.length /\ Len(v.fds) = Len(w.fds)
             /\ \A k \in 1 .. Len(w.fds) :
                  /\ v.fds[k].fd = w.fds[k].fd
                  /\ k <= w.length => v.fds[k].revents = Revents(w.fds[k].fd)
PROOF
<1> DEFINE s == [k \in DOMAIN w.fds |->
                  IF k <= w.length THEN [w.fds[k] EXCEPT !.revents = Revents(w.fds[k].fd)]
                                   ELSE w.fds[k]]
<1>1. /\ w.length \in Nat /\ Len(w.fds) \in Nat /\ DOMAIN w.fds = 1 .. Len(w.fds)
      /\ w.fds \in [1 .. Len(w.fds) -> SlotType]
      /\ w = [length |-> w.length, fds |-> w.fds]
  BY ArrayFacts
<1>2. ASSUME NEW x \in SlotType, NEW e, e \subseteq EventNames
      PROVE  /\ [x EXCEPT !.revents = e] \in SlotType
             /\ [x EXCEPT !.revents = e].fd = x.fd /\ [x EXCEPT !.revents = e].revents = e
  <2>1. [x EXCEPT !.revents = e] = [fd |-> x.fd, revents |-> e] /\ x.fd \in Fds \union {NoFd}
    BY DEF SlotType
  <2> QED BY <1>2, <2>1 DEF SlotType, EventNames
<1>3. s \in [1 .. Len(w.fds) -> SlotType]
  BY <1>1, <1>2, ReventsFacts
<1>4. Polled(w) = [length |-> w.length, fds |-> s]
  <2>1. \A t : [w EXCEPT !.fds = t] = [length |-> w.length, fds |-> t]
    BY <1>1
  <2>2. Polled(w) = [w EXCEPT !.fds = s]
    BY DEF Polled
  <2> HIDE DEF s
  <2> QED BY <2>1, <2>2
<1>5. \A k \in 1 .. Len(w.fds) : /\ s[k].fd = w.fds[k].fd
                                 /\ k <= w.length => s[k].revents = Revents(w.fds[k].fd)
  BY <1>1, <1>2, ReventsFacts
<1> HIDE DEF s
<1> QED BY <1>1, <1>3, <1>4, <1>5, ArrayOfSlots

\* A round without a compaction leaves the descriptors where they are.
LEMMA UnpolledFacts ==
  ASSUME NEW w, ArrayTypeOK(w)
  PROVE  LET v == Unpolled(w)
         IN  /\ ArrayTypeOK(v) /\ v.length = w.length /\ Len(v.fds) = Len(w.fds)
             /\ \A k \in 1 .. Len(w.fds) : v.fds[k].fd = w.fds[k].fd
PROOF
<1> DEFINE s == [k \in DOMAIN w.fds |-> Slot(w.fds[k].fd)]
<1>1. /\ w.length \in Nat /\ Len(w.fds) \in Nat /\ DOMAIN w.fds = 1 .. Len(w.fds)
      /\ w = [length |-> w.length, fds |-> w.fds]
      /\ \A k \in 1 .. Len(w.fds) : w.fds[k].fd \in Fds \union {NoFd}
  BY ArrayFacts
<1>2. s \in [1 .. Len(w.fds) -> SlotType]
  BY <1>1, SlotFacts
<1>3. Unpolled(w) = [length |-> w.length, fds |-> s]
  <2>1. \A t : [w EXCEPT !.fds = t] = [length |-> w.length, fds |-> t]
    BY <1>1
  <2>2. Unpolled(w) = [w EXCEPT !.fds = s]
    BY DEF Unpolled
  <2> HIDE DEF s
  <2> QED BY <2>1, <2>2
<1>4. \A k \in 1 .. Len(w.fds) : s[k].fd = w.fds[k].fd
  BY <1>1, SlotFacts
<1> HIDE DEF s
<1> QED BY <1>1, <1>2, <1>3, <1>4, ArrayOfSlots

\* A slot is given up, and length is counted down or not.
LEMMA ClearedFacts ==
  ASSUME NEW w, ArrayTypeOK(w), NEW n \in 1 .. Len(w.fds), NEW m \in Nat, NEW v,
         v = [length |-> m, fds |-> [w.fds EXCEPT ![n].fd = NoFd]]
  PROVE  /\ ArrayTypeOK(v) /\ v.length = m /\ Len(v.fds) = Len(w.fds)
         /\ v.fds[n].fd = NoFd
         /\ \A k \in 1 .. Len(w.fds) : k # n => v.fds[k] = w.fds[k]
PROOF
<1> DEFINE s == [w.fds EXCEPT ![n].fd = NoFd]
<1>1. Len(w.fds) \in Nat /\ w.fds \in [1 .. Len(w.fds) -> SlotType]
  BY ArrayFacts
<1>2. ASSUME NEW x \in SlotType
      PROVE  [x EXCEPT !.fd = NoFd] \in SlotType /\ [x EXCEPT !.fd = NoFd].fd = NoFd
  BY DEF SlotType
<1>3. /\ s \in [1 .. Len(w.fds) -> SlotType] /\ s[n].fd = NoFd
      /\ \A k \in 1 .. Len(w.fds) : k # n => s[k] = w.fds[k]
  BY <1>1, <1>2
<1> HIDE DEF s
<1> QED BY <1>1, <1>3, ArrayOfSlots DEF s

----------------------------------------------------------------------------
(* The compaction.                                                          *)

\* The kept slots are finitely many natural numbers.
LEMMA KeptFinite ==
  ASSUME NEW w, w.length \in Nat
  PROVE  /\ Kept(w) \subseteq 1 .. w.length
         /\ IsFiniteSet(Kept(w)) /\ Cardinality(Kept(w)) \in Nat /\ Cardinality(Kept(w)) <= w.length
PROOF
<1>1. Kept(w) \in SUBSET (1 .. w.length)
  BY DEF Kept
<1>2. IsFiniteSet(1 .. w.length) /\ Cardinality(1 .. w.length) = w.length
  BY FS_Interval
<1> QED BY <1>1, <1>2, FS_Subset, FS_CardinalityType

\* The ranks of the kept slots rise with the slots, from 1 to their number.
LEMMA RankRises ==
  ASSUME NEW w, w.length \in Nat
  PROVE  /\ \A k \in Kept(w) : Rank(w, k) \in 1 .. Cardinality(Kept(w)) /\ Rank(w, k) <= k
         /\ \A j, k \in Kept(w) : j < k => Rank(w, j) < Rank(w, k)
PROOF
<1> DEFINE Below(k) == {j \in Kept(w) : j <= k}
<1>1. Kept(w) \subseteq 1 .. w.length /\ IsFiniteSet(Kept(w)) /\ Cardinality(Kept(w)) \in Nat
  BY KeptFinite
<1>2. \A k \in Kept(w) : IsFiniteSet(Below(k)) /\ Cardinality(Below(k)) \in Nat
  <2> SUFFICES ASSUME NEW k \in Kept(w)
               PROVE  IsFiniteSet(Below(k)) /\ Cardinality(Below(k)) \in Nat
    OBVIOUS
  <2> QED BY <1>1, FS_Subset, FS_CardinalityType
<1>3. \A k : Rank(w, k) = Cardinality(Below(k))
  BY DEF Rank
<1>4. ASSUME NEW k \in Kept(w)
      PROVE  Rank(w, k) \in 1 .. Cardinality(Kept(w)) /\ Rank(w, k) <= k
  <2>1. Below(k) \in SUBSET Kept(w) /\ Below(k) # {} /\ Below(k) \in SUBSET (1 .. k) /\ k \in Nat
    BY <1>1
  <2>2. Cardinality(Below(k)) <= Cardinality(Kept(w))
    BY <1>1, <2>1, FS_Subset
  <2>3. Cardinality(Below(k)) # 0
    BY <1>2, <2>1, FS_EmptySet
  <2>4. Cardinality(Below(k)) <= Cardinality(1 .. k)
    BY <2>1, FS_Interval, FS_Subset
  <2>5. Cardinality(1 .. k) = k
    BY <1>1, FS_Interval
  <2> HIDE DEF Below
  <2> QED BY <1>3, <1>1, <1>2, <2>2, <2>3, <2>4, <2>5
<1>5. ASSUME NEW j \in Kept(w), NEW k \in Kept(w), j < k
      PROVE  Rank(w, j) < Rank(w, k)
  <2>1. Below(j) \in SUBSET Below(k) /\ k \in Below(k) /\ k \notin Below(j)
    BY <1>1, <1>5
  <2>2. Cardinality(Below(j)) <= Cardinality(Below(k)) /\ Cardinality(Below(j)) # Cardinality(Below(k))
    BY <1>2, <2>1, FS_Subset
  <2> HIDE DEF Below
  <2> QED BY <1>3, <1>2, <2>2
<1> QED BY <1>4, <1>5

\* Every new slot gets exactly one kept slot, in the old order; no kept slot
\* is left out.
LEMMA KeptAtFacts ==
  ASSUME NEW w, w.length \in Nat
  PROVE  /\ \A n \in 1 .. Cardinality(Kept(w)) :
              KeptAt(w, n) \in Kept(w) /\ Rank(w, KeptAt(w, n)) = n /\ n <= KeptAt(w, n)
         /\ \A k \in Kept(w) : KeptAt(w, Rank(w, k)) = k
         /\ \A m, n \in 1 .. Cardinality(Kept(w)) : m < n => KeptAt(w, m) < KeptAt(w, n)
PROOF
<1> DEFINE size == Cardinality(Kept(w))
           rank == [k \in Kept(w) |-> Rank(w, k)]
<1>1. Kept(w) \subseteq 1 .. w.length /\ IsFiniteSet(Kept(w)) /\ size \in Nat
  BY KeptFinite
<1>2. \A j, k \in Kept(w) : Rank(w, j) = Rank(w, k) => j = k
  <2> SUFFICES ASSUME NEW j \in Kept(w), NEW k \in Kept(w), j # k
               PROVE  Rank(w, j) # Rank(w, k)
    OBVIOUS
  <2>1. j \in Nat /\ k \in Nat /\ Rank(w, j) \in Nat /\ Rank(w, k) \in Nat
    BY <1>1, RankRises
  <2>2. CASE j < k
    BY <2>1, <2>2, RankRises
  <2>3. CASE k < j
    BY <2>1, <2>3, RankRises
  <2> QED BY <2>1, <2>2, <2>3
<1>3. rank \in Injection(Kept(w), 1 .. size)
  BY <1>2, RankRises DEF Injection, IsInjective
<1>4. IsFiniteSet(1 .. size) /\ Cardinality(1 .. size) = size
  BY <1>1, FS_Interval
<1>5. rank \in Surjection(Kept(w), 1 .. size)
  BY <1>1, <1>3, <1>4, FS_Injection
<1>6. \A n \in 1 .. size : \E k \in Kept(w) : Rank(w, k) = n
  BY <1>5 DEF Surjection
<1>7. \A n : KeptAt(w, n) = CHOOSE k \in Kept(w) : Rank(w, k) = n
  BY DEF KeptAt, Rank
<1>8. \A n \in 1 .. size : KeptAt(w, n) \in Kept(w) /\ Rank(w, KeptAt(w, n)) = n
  BY <1>6, <1>7
<1>9. \A n \in 1 .. size : n <= KeptAt(w, n)
  BY <1>8, RankRises
<1>10. \A k \in Kept(w) : KeptAt(w, Rank(w, k)) = k
  BY <1>2, <1>8, RankRises
<1>11. ASSUME NEW m \in 1 .. size, NEW n \in 1 .. size, m < n
       PROVE  KeptAt(w, m) < KeptAt(w, n)
  <2>1. KeptAt(w, m) \in Kept(w) /\ KeptAt(w, n) \in Kept(w)
        /\ KeptAt(w, m) \in Nat /\ KeptAt(w, n) \in Nat
        /\ Rank(w, KeptAt(w, m)) = m /\ Rank(w, KeptAt(w, n)) = n
    BY <1>1, <1>8
  <2>2. KeptAt(w, m) # KeptAt(w, n)
    BY <1>11, <2>1
  <2>3. ~(KeptAt(w, n) < KeptAt(w, m))
    BY <1>11, <2>1, RankRises
  <2> QED BY <2>1, <2>2, <2>3
<1> QED BY <1>8, <1>9, <1>10, <1>11

\* The compaction keeps the descriptors of the first length slots, and no gap.
LEMMA CompactedFacts ==
  ASSUME NEW w, ArrayTypeOK(w), w.length <= Len(w.fds)
  PROVE  LET v == Compacted(w)
         IN  /\ ArrayTypeOK(v)
             /\ v.length = Cardinality(Kept(w)) /\ Len(v.fds) = v.length /\ v.length <= w.length
             /\ \A n \in 1 .. v.length :
                  /\ KeptAt(w, n) \in Kept(w) /\ KeptAt(w, n) \in 1 .. Len(w.fds)
                  /\ v.fds[n].fd = w.fds[KeptAt(w, n)].fd /\ v.fds[n].fd # NoFd
             /\ \A k \in Kept(w) : Rank(w, k) \in 1 .. v.length /\ KeptAt(w, Rank(w, k)) = k
             /\ 1 \in Kept(w) => v.length > 0 /\ KeptAt(w, 1) = 1
PROOF
<1> DEFINE size == Cardinality(Kept(w))
           s == [n \in 1 .. size |-> Slot(w.fds[KeptAt(w, n)].fd)]
<1>1. /\ w.length \in Nat /\ Len(w.fds) \in Nat
      /\ \A k \in 1 .. Len(w.fds) : w.fds[k].fd \in Fds \union {NoFd}
  BY ArrayFacts
<1>2. size \in Nat /\ size <= w.length /\ Kept(w) \subseteq 1 .. Len(w.fds)
  BY <1>1, KeptFinite
<1>3. \A n \in 1 .. size : KeptAt(w, n) \in Kept(w) /\ KeptAt(w, n) \in 1 .. Len(w.fds)
  BY <1>1, <1>2, KeptAtFacts
<1>4. \A n \in 1 .. size : s[n] \in SlotType /\ s[n].fd = w.fds[KeptAt(w, n)].fd /\ s[n].fd # NoFd
  BY <1>1, <1>3, SlotFacts DEF Kept
<1>5. s \in [1 .. size -> SlotType]
  BY <1>4
<1>6. Compacted(w) = [length |-> size, fds |-> s]
  BY DEF Compacted
<1>7. \A k \in Kept(w) : Rank(w, k) \in 1 .. size /\ KeptAt(w, Rank(w, k)) = k
  BY <1>1, RankRises, KeptAtFacts
<1>8. 1 \in Kept(w) => size > 0 /\ KeptAt(w, 1) = 1
  <2> SUFFICES ASSUME 1 \in Kept(w) PROVE size > 0 /\ KeptAt(w, 1) = 1
    OBVIOUS
  <2>1. Rank(w, 1) \in 1 .. size /\ Rank(w, 1) <= 1
    BY <1>1, RankRises
  <2> QED BY <1>2, <1>7, <2>1
<1> HIDE DEF s, size
<1>9. ArrayTypeOK(Compacted(w)) /\ Compacted(w).length = size /\ Compacted(w).fds = s
      /\ Len(Compacted(w).fds) = size
  BY <1>2, <1>5, <1>6, ArrayOfSlots
<1> QED BY <1>2, <1>3, <1>4, <1>7, <1>8, <1>9 DEF size

----------------------------------------------------------------------------
(* The bindings.                                                            *)

\* The listener is not among the descriptors of connections.
LEMMA DescriptorFacts ==
  /\ ListenFd \in Fds /\ ListenFd \notin ConnFds /\ ConnFds \subseteq Fds
  /\ Fds = ConnFds \union {ListenFd}
  /\ NoFd \notin Fds /\ \A f \in Fds : f \in Nat
  /\ OpenConns = OpenFds \ {ListenFd} /\ OpenFds \subseteq Fds
  /\ \A f : IsOpen(f) <=> f \in OpenFds
PROOF BY ConnFdsAssumption DEF Fds, ListenFd, NoFd, OpenConns, OpenFds, IsOpen

\* What is open is as finite as the limit on descriptors makes it.
LEMMA OpenConnsFinite ==
  /\ IsFiniteSet(ConnFds) /\ Cardinality(ConnFds) \in Nat
  /\ OpenConns \in SUBSET ConnFds
  /\ \A S \in SUBSET OpenConns :
       /\ IsFiniteSet(S) /\ Cardinality(S) \in Nat
       /\ Cardinality(S) <= Cardinality(OpenConns) /\ Cardinality(S) <= Cardinality(ConnFds)
PROOF
<1>1. IsFiniteSet(ConnFds) /\ Cardinality(ConnFds) \in Nat
  BY ConnFdsAssumption, FS_CardinalityType
<1>2. OpenConns \in SUBSET ConnFds
  BY DEF OpenConns
<1>3. IsFiniteSet(OpenConns)
  BY <1>1, <1>2, FS_Subset
<1>4. ASSUME NEW S \in SUBSET OpenConns
      PROVE  /\ IsFiniteSet(S) /\ Cardinality(S) \in Nat
             /\ Cardinality(S) <= Cardinality(OpenConns) /\ Cardinality(S) <= Cardinality(ConnFds)
  <2>1. S \in SUBSET ConnFds
    BY <1>2
  <2> QED BY <1>1, <1>3, <2>1, FS_Subset, FS_CardinalityType
<1> QED BY <1>1, <1>2, <1>4

\* Only the listener is open at the start.
LEMMA SocketsInitFacts ==
  ASSUME SocketsInit
  PROVE  SocketsTypeOK /\ OpenFds = {ListenFd} /\ OpenConns = {}
PROOF
<1>1. NewConn \in [peer : PeerStates, rx : Seq(Requests)] /\ Closed \in [peer : PeerStates, rx : Seq(Requests)]
  BY EmptySeq DEF NewConn, Closed, PeerStates
<1>2. SocketsTypeOK
  BY <1>1, BoundsAssumption DEF SocketsInit, SocketsTypeOK
<1>3. \A f \in Fds : sock[f].peer # "closed" <=> f = ListenFd
  BY DEF SocketsInit, NewConn, Closed
<1> QED BY <1>2, <1>3, DescriptorFacts DEF OpenFds, IsOpen

\* accept opens a descriptor that was not open.
LEMMA HostAcceptFacts ==
  ASSUME SocketsTypeOK, NEW f \in ConnFds, HostAccept(f)
  PROVE  /\ SocketsTypeOK' /\ backlog > 0
         /\ f \in Fds \ OpenFds /\ OpenFds' = OpenFds \union {f}
         /\ f \notin OpenConns /\ OpenConns' = OpenConns \union {f}
PROOF
<1>1. sock' = [sock EXCEPT ![f] = NewConn] /\ backlog' = backlog - 1 /\ backlog > 0 /\ ~IsOpen(f)
  BY DEF HostAccept, IsLowestFree, OpenConns
<1>2. NewConn \in [peer : PeerStates, rx : Seq(Requests)] /\ NewConn.peer = "open"
  BY EmptySeq DEF NewConn, PeerStates
<1>3. SocketsTypeOK'
  <2>1. backlog' \in 0 .. MaxBacklog
    BY <1>1, BoundsAssumption DEF SocketsTypeOK
  <2> QED BY <1>1, <1>2, <2>1 DEF SocketsTypeOK
<1>4. f \in Fds
  BY DescriptorFacts
<1>5. \A g \in Fds : IsOpen(g)' <=> IsOpen(g) \/ g = f
  BY <1>1, <1>2, <1>4 DEF IsOpen, SocketsTypeOK
<1> QED BY <1>1, <1>3, <1>4, <1>5, DescriptorFacts DEF OpenFds, OpenConns

\* close closes one descriptor; a descriptor that is not open stays as it is.
LEMMA HostCloseFacts ==
  ASSUME SocketsTypeOK, NEW f, HostClose(f)
  PROVE  SocketsTypeOK' /\ OpenFds' = OpenFds \ {f} /\ OpenConns' = OpenConns \ {f}
PROOF
<1>1. sock' = [sock EXCEPT ![f] = Closed] /\ backlog' = backlog
  BY DEF HostClose
<1>2. Closed \in [peer : PeerStates, rx : Seq(Requests)] /\ Closed.peer = "closed"
  BY EmptySeq DEF Closed, PeerStates
<1>3. SocketsTypeOK'
  BY <1>1, <1>2 DEF SocketsTypeOK
<1>4. \A g \in Fds : IsOpen(g)' <=> IsOpen(g) /\ g # f
  BY <1>1, <1>2 DEF IsOpen, SocketsTypeOK
<1> QED BY <1>3, <1>4, DescriptorFacts DEF OpenFds, OpenConns

\* recv empties a queue.
LEMMA HostRecvFacts ==
  ASSUME SocketsTypeOK, NEW f, HostRecvData(f)
  PROVE  SocketsTypeOK' /\ OpenFds' = OpenFds /\ OpenConns' = OpenConns
PROOF
<1>1. sock' = [sock EXCEPT ![f].rx = <<>>] /\ backlog' = backlog /\ <<>> \in Seq(Requests)
  BY EmptySeq DEF HostRecvData
<1>2. \A x \in [peer : PeerStates, rx : Seq(Requests)] :
        /\ [x EXCEPT !.rx = <<>>] \in [peer : PeerStates, rx : Seq(Requests)]
        /\ [x EXCEPT !.rx = <<>>].peer = x.peer
  BY <1>1
<1>3. \A g \in Fds : sock'[g] \in [peer : PeerStates, rx : Seq(Requests)] /\ sock'[g].peer = sock[g].peer
  BY <1>1, <1>2 DEF SocketsTypeOK
<1>4. SocketsTypeOK'
  BY <1>1, <1>2 DEF SocketsTypeOK
<1> QED BY <1>3, <1>4, DescriptorFacts DEF OpenFds, OpenConns, IsOpen

\* A failed accept opens nothing.
LEMMA HostAcceptErrorFacts ==
  ASSUME SocketsTypeOK, HostAcceptError
  PROVE  SocketsTypeOK' /\ OpenFds' = OpenFds /\ OpenConns' = OpenConns
PROOF BY BoundsAssumption DEF SocketsTypeOK, HostAcceptError, sockVars, OpenFds, OpenConns, IsOpen

\* The clients open and close nothing on the server's side.
LEMMA NetworkFacts ==
  ASSUME SocketsTypeOK, NetworkNext
  PROVE  SocketsTypeOK' /\ OpenFds' = OpenFds /\ OpenConns' = OpenConns
PROOF
<1> DEFINE Sock == [peer : PeerStates, rx : Seq(Requests)]
<1>1. sock \in [Fds -> Sock] /\ backlog \in 0 .. MaxBacklog
  BY DEF SocketsTypeOK
<1>2. CASE ClientConnect
  BY <1>2, BoundsAssumption DEF ClientConnect, SocketsTypeOK, OpenFds, OpenConns, IsOpen
<1>3. ASSUME NEW f \in ConnFds, NEW r \in Requests, ClientSend(f, r)
      PROVE  SocketsTypeOK' /\ OpenFds' = OpenFds /\ OpenConns' = OpenConns
  <2>1. f \in Fds
    BY DescriptorFacts
  <2>2. Append(sock[f].rx, r) \in Seq(Requests)
    BY <1>1, <2>1, AppendProperties
  <2>3. \A x \in Sock, t \in Seq(Requests) : [x EXCEPT !.rx = t] \in Sock /\ [x EXCEPT !.rx = t].peer = x.peer
    OBVIOUS
  <2>4. sock' = [sock EXCEPT ![f] = [sock[f] EXCEPT !.rx = Append(sock[f].rx, r)]] /\ backlog' = backlog
    BY <1>1, <1>3, <2>1 DEF ClientSend
  <2>5. sock' \in [Fds -> Sock] /\ \A g \in Fds : sock'[g].peer = sock[g].peer
    BY <1>1, <2>1, <2>2, <2>3, <2>4
  <2> QED BY <1>1, <2>4, <2>5 DEF SocketsTypeOK, OpenFds, OpenConns, IsOpen
<1>4. ASSUME NEW f \in ConnFds, NEW e \in PeerEvents, PeerEvent(f, e)
      PROVE  SocketsTypeOK' /\ OpenFds' = OpenFds /\ OpenConns' = OpenConns
  <2>1. f \in Fds /\ e \in PeerStates /\ e # "closed" /\ sock[f].peer # "closed"
    BY <1>4, DescriptorFacts, PeerEventsAssumption DEF PeerEvent, PeerStates
  <2>2. \A x \in Sock : [x EXCEPT !.peer = e] \in Sock /\ [x EXCEPT !.peer = e].peer = e
    BY <2>1
  <2>3. sock' = [sock EXCEPT ![f] = [sock[f] EXCEPT !.peer = e]] /\ backlog' = backlog
    BY <1>1, <1>4, <2>1 DEF PeerEvent
  <2>4. /\ sock' \in [Fds -> Sock]
        /\ \A g \in Fds : sock'[g].peer # "closed" <=> sock[g].peer # "closed"
    BY <1>1, <2>1, <2>2, <2>3
  <2> QED BY <1>1, <2>3, <2>4 DEF SocketsTypeOK, OpenFds, OpenConns, IsOpen
<1> QED BY <1>2, <1>3, <1>4 DEF NetworkNext
=============================================================================
