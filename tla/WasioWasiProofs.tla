--------------------------- MODULE WasioWasiProofs ---------------------------
(***************************************************************************)
(* WasioWasi.tla for every capacity that fills its words, every set of host *)
(* and preopened descriptors and every word width: the inductive invariant   *)
(* of its two arrays and what follows from it.                              *)
(***************************************************************************)
EXTENDS WasioWasi, FreelistOpsProofs, FiniteSetTheorems

TableIsFreelist == IsFreelist(fl) /\ fl.size = Capacity

\* The bits past the capacity, of which Free says nothing, are set as well.
BitmapIsWhole == up => BitmapMatches(fl, Vfds \ Free)

FreeIsEmpty == up => \A v \in Free : polled[v] = NoFd /\ fds[v] = NoFd

LengthCounts == up => length = Cardinality(Vfds \ Free)

\* What the table names has not been closed.
KnownAreOpen == up => \A v \in Vfds : Sockets(v) \subseteq open

IInv == /\ TypeOK /\ TableIsFreelist
        /\ BitmapIsWhole /\ FreeIsEmpty /\ LengthCounts
        /\ KnownAreOpen /\ OneEntryPerSocket

----------------------------------------------------------------------------
\* The capacity is one that NextEntryFacts is about.
LEMMA CapacityFacts ==
  /\ Capacity \in Nat \ {0} /\ WholeSize(Capacity)
  /\ Vfds = 0 .. Capacity - 1 /\ Vfds \subseteq Nat
PROOF BY WasiCapacityAssumption DEF WholeSize, Vfds

\* A socket is known when some entry has it.
LEMMA KnownFacts ==
  ASSUME NEW h
  PROVE  h \in Known <=> \E v \in Vfds : h \in Sockets(v)
PROOF BY DEF Known

\* Every freelist is well typed.
LEMMA FreelistIsTyped ==
  ASSUME NEW g, IsFreelist(g)
  PROVE  g.vector \in [0 .. g.len - 1 -> SUBSET Bits]
PROOF BY DEF IsFreelist

\* The free entries of a bitmap are the ones that are not held.
LEMMA FreeOfBitmap ==
  ASSUME NEW g, IsFreelist(g), g.size = Capacity, NEW held, BitmapMatches(g, held)
  PROVE  {v \in Vfds : v % IntWidth \in g.vector[v \div IntWidth]} = Vfds \ held
PROOF
<1> SUFFICES ASSUME NEW v \in Vfds
             PROVE  v % IntWidth \in g.vector[v \div IntWidth] <=> v \notin held
  OBVIOUS
<1>1. /\ v \div IntWidth \in 0 .. g.len - 1 /\ v % IntWidth \in Bits
      /\ v = (v % IntWidth) + IntWidth * (v \div IntWidth)
  BY CapacityFacts, FreelistShape, VectorLen, DivMod
<1> QED BY <1>1 DEF BitmapMatches

\* The entries are finitely many.
LEMMA HeldFinite ==
  ASSUME NEW S \in SUBSET Vfds
  PROVE  IsFiniteSet(S) /\ Cardinality(S) \in Nat
PROOF
<1>1. IsFiniteSet(Vfds)
  BY CapacityFacts, FS_Interval
<1> QED BY <1>1, FS_Subset, FS_CardinalityType

\* On a table with room the next entry is free, and taking it leaves the rest.
LEMMA TakesFree ==
  ASSUME IInv, up, ~IsFull(fl)
  PROVE  /\ NextEntry(fl) \in Free /\ Free \subseteq Vfds
         /\ IsFreelist(AfterNext(fl)) /\ AfterNext(fl).size = Capacity
         /\ BitmapMatches(AfterNext(fl), (Vfds \ Free) \union {NextEntry(fl)})
PROOF
<1>1. IsFreelist(fl) /\ fl.size = Capacity /\ BitmapMatches(fl, Vfds \ Free)
  BY DEF IInv, TableIsFreelist, BitmapIsWhole
<1>2. NextEntry(fl) \in Vfds /\ NextEntry(fl) \notin Vfds \ Free
  BY <1>1, CapacityFacts, NextEntryFacts
<1> QED BY <1>1, <1>2, AfterNextFacts DEF Free

\* On a full table no entry is free.
LEMMA FullHasNoFree ==
  ASSUME IInv, up, IsFull(fl)
  PROVE  Free = {}
PROOF
<1>1. IsFreelist(fl) /\ fl.size = Capacity /\ BitmapMatches(fl, Vfds \ Free)
  BY DEF IInv, TableIsFreelist, BitmapIsWhole
<1> QED BY <1>1, CapacityFacts, FullFacts DEF Free

----------------------------------------------------------------------------
(* One lemma per way in which the table changes.                            *)

\* An answer, a failed call, and a call that changes neither table nor host.
LEMMA NoEffectPreserves ==
  ASSUME IInv, UNCHANGED <<up, fl, length, polled, fds, open, vfd>>,
         ret' \in {"WASIO_OK", "WASIO_ERROR", "WASIO_EFULL"}
  PROVE  IInv'
PROOF BY DEF IInv, TypeOK, TableIsFreelist, BitmapIsWhole, FreeIsEmpty, LengthCounts,
             KnownAreOpen, OneEntryPerSocket, Free, Sockets

\* wasio_init makes an empty table.
LEMMA InitPreserves ==
  ASSUME IInv, WasioInit
  PROVE  IInv'
PROOF
<1>1. CASE ret' = "WASIO_EFULL" /\ UNCHANGED <<up, fl, length, polled, fds>>
  BY <1>1, NoEffectPreserves DEF WasioInit
<1>2. CASE /\ up' = TRUE /\ fl' = NewFreelist(Capacity) /\ length' = 0
           /\ polled' = [v \in Vfds |-> NoFd] /\ fds' = [v \in Vfds |-> NoFd]
           /\ ret' = "WASIO_OK"
  <2>1. IsFreelist(fl') /\ fl'.size = Capacity /\ BitmapMatches(fl', {})
    BY <1>2, CapacityFacts, NewFreelistFacts
  <2>2. Free' = Vfds
    BY <2>1, FreeOfBitmap DEF Free
  <2>3. UNCHANGED <<open, vfd>>
    BY DEF WasioInit
  <2>4. TypeOK' /\ TableIsFreelist'
    BY <1>2, <2>1, <2>3, FreelistIsTyped DEF IInv, TypeOK, TableIsFreelist
  <2>5. BitmapIsWhole' /\ FreeIsEmpty' /\ LengthCounts'
    BY <1>2, <2>1, <2>2, FS_EmptySet DEF BitmapIsWhole, FreeIsEmpty, LengthCounts
  <2>6. KnownAreOpen' /\ OneEntryPerSocket'
    BY <1>2 DEF KnownAreOpen, OneEntryPerSocket, Sockets
  <2> QED BY <2>4, <2>5, <2>6 DEF IInv
<1> QED BY <1>1, <1>2 DEF WasioInit

\* After wasio_finalize nothing is promised but the types.
LEMMA FinalizePreserves ==
  ASSUME IInv, Finalize
  PROVE  IInv'
PROOF BY DEF IInv, Finalize, TypeOK, TableIsFreelist, BitmapIsWhole, FreeIsEmpty, LengthCounts,
             KnownAreOpen, OneEntryPerSocket

\* Taking an entry takes the least free one, for the sockets it is given.
LEMMA TakeEntryFacts ==
  ASSUME IInv, up, ~IsFull(fl), NEW p \in Preopened \union {NoFd}, NEW c \in HostFds \union {NoFd},
         TakeEntry(p, c)
  PROVE  \E e \in Free :
           /\ e = NextEntry(fl) /\ (\A v \in Free : e <= v)
           /\ IsFreelist(fl') /\ fl'.size = Capacity
           /\ BitmapMatches(fl', (Vfds \ Free) \union {e})
           /\ Free' = Free \ {e}
           /\ Sockets(e)' = {p, c} \ {NoFd}
           /\ \A v \in Vfds \ {e} : Sockets(v)' = Sockets(v)
PROOF
<1>1. PICK e \in Free :
        /\ e = NextEntry(fl)
        /\ IsFreelist(fl') /\ fl'.size = Capacity
        /\ BitmapMatches(fl', (Vfds \ Free) \union {e})
  BY TakesFree DEF TakeEntry
<1>2. \A v \in Free : e <= v
  BY <1>1, CapacityFacts, NextEntryFacts DEF IInv, TableIsFreelist, BitmapIsWhole, Free
<1>3. /\ polled' = [polled EXCEPT ![e] = c] /\ fds' = [fds EXCEPT ![e] = p]
      /\ polled \in [Vfds -> HostFds \union {NoFd}] /\ fds \in [Vfds -> Preopened \union {NoFd}]
      /\ e \in Vfds
  BY <1>1 DEF TakeEntry, IInv, TypeOK, Free
<1>4. Free' = Free \ {e}
  <2>1. Free' = Vfds \ ((Vfds \ Free) \union {e})
    BY <1>1, FreeOfBitmap DEF Free
  <2> QED BY <2>1 DEF Free
<1>5. Sockets(e)' = {p, c} \ {NoFd} /\ \A v \in Vfds \ {e} : Sockets(v)' = Sockets(v)
  BY <1>3 DEF Sockets
<1> QED BY <1>1, <1>2, <1>4, <1>5

\* A free entry is taken for sockets that the table does not know: the wrap of
\* a preopened one, an accept, an accept that failed.
LEMMA TakeEntryPreserves ==
  ASSUME IInv, up, ~IsFull(fl), NEW p \in Preopened \union {NoFd}, NEW c \in HostFds \union {NoFd},
         TakeEntry(p, c), p = NoFd \/ c = NoFd,
         \A h \in {p, c} \ {NoFd} : h \in open' /\ h \notin Known,
         open \subseteq open', open' \subseteq HostFds,
         ret' = "WASIO_OK", up' = up
  PROVE  IInv'
PROOF
<1>1. PICK e \in Free :
        /\ e = NextEntry(fl)
        /\ IsFreelist(fl') /\ fl'.size = Capacity
        /\ BitmapMatches(fl', (Vfds \ Free) \union {e})
        /\ Free' = Free \ {e}
        /\ Sockets(e)' = {p, c} \ {NoFd}
        /\ \A v \in Vfds \ {e} : Sockets(v)' = Sockets(v)
  BY TakeEntryFacts
<1>2. /\ polled' = [polled EXCEPT ![e] = c] /\ fds' = [fds EXCEPT ![e] = p]
      /\ length' = length + 1 /\ vfd' = e
      /\ polled \in [Vfds -> HostFds \union {NoFd}] /\ fds \in [Vfds -> Preopened \union {NoFd}]
      /\ Free \subseteq Vfds
  BY <1>1 DEF TakeEntry, IInv, TypeOK, Free
<1>3. TypeOK' /\ TableIsFreelist'
  BY <1>1, <1>2, FreelistIsTyped DEF IInv, TypeOK, TableIsFreelist
<1>4. Vfds \ Free' = (Vfds \ Free) \union {e}
  BY <1>1, <1>2
<1>5. BitmapIsWhole' /\ FreeIsEmpty'
  BY <1>1, <1>2, <1>4 DEF IInv, BitmapIsWhole, FreeIsEmpty
<1>6. LengthCounts'
  <2>1. Cardinality((Vfds \ Free) \union {e}) = Cardinality(Vfds \ Free) + 1
    BY <1>1, HeldFinite, FS_AddElement
  <2> QED BY <1>2, <1>4, <2>1 DEF IInv, LengthCounts
<1>7. KnownAreOpen'
  BY <1>1 DEF IInv, KnownAreOpen
<1>8. OneEntryPerSocket'
  <2>1. \A v \in Vfds : Sockets(v) \intersect ({p, c} \ {NoFd}) = {}
    BY KnownFacts
  <2> QED BY <1>1, <2>1 DEF IInv, OneEntryPerSocket
<1> QED BY <1>3, <1>5, <1>6, <1>7, <1>8 DEF IInv

\* wasio_wrap of a preopened socket.
LEMMA WrapPreserves ==
  ASSUME IInv, NEW h \in Preopened, Wrap(h)
  PROVE  IInv'
PROOF
<1>1. CASE IsFull(fl) /\ ret' = "WASIO_EFULL" /\ UNCHANGED <<fl, length, polled, fds, vfd>>
  BY <1>1, NoEffectPreserves DEF Wrap
<1>2. CASE ~IsFull(fl) /\ TakeEntry(h, NoFd) /\ ret' = "WASIO_OK"
  <2>1. up /\ UNCHANGED <<up, open>> /\ h \in open /\ h \notin Known /\ open \subseteq HostFds
    BY DEF Wrap, IInv, TypeOK
  <2> QED BY <1>2, <2>1, TakeEntryPreserves
<1> QED BY <1>1, <1>2 DEF Wrap

\* An accept into a full table gives the entry that the caller's variable names
\* a second socket, a new one.
LEMMA AcceptIntoFullPreserves ==
  ASSUME IInv, up, IsFull(fl), vfd # NoFd, NEW h \in HostFds \ open,
         open' = open \union {h}, polled' = [polled EXCEPT ![vfd] = h],
         ret' = "WASIO_OK", UNCHANGED <<up, fl, length, fds, vfd>>
  PROVE  IInv'
PROOF
<1>1. vfd \in Vfds /\ h # NoFd /\ polled \in [Vfds -> HostFds \union {NoFd}]
  BY PreopenedAssumption DEF IInv, TypeOK
<1>2. Free' = Free /\ Free = {}
  BY FullHasNoFree DEF Free
<1>3. TypeOK' /\ TableIsFreelist'
  BY <1>1 DEF IInv, TypeOK, TableIsFreelist
<1>4. BitmapIsWhole' /\ FreeIsEmpty' /\ LengthCounts'
  BY <1>2 DEF IInv, BitmapIsWhole, FreeIsEmpty, LengthCounts
<1>5. /\ Sockets(vfd)' \subseteq Sockets(vfd) \union {h}
      /\ \A v \in Vfds \ {vfd} : Sockets(v)' = Sockets(v)
  BY <1>1 DEF Sockets
<1>6. \A v \in Vfds : Sockets(v) \subseteq open
  BY DEF IInv, KnownAreOpen
<1>7. KnownAreOpen'
  BY <1>5, <1>6 DEF KnownAreOpen
<1>8. OneEntryPerSocket'
  BY <1>1, <1>5, <1>6 DEF IInv, OneEntryPerSocket
<1> QED BY <1>3, <1>4, <1>7, <1>8 DEF IInv

\* wasio_accept, with room and without, with a connection and without.
LEMMA AcceptPreserves ==
  ASSUME IInv, NEW v \in Vfds, Accept(v)
  PROVE  IInv'
PROOF
<1>1. up /\ UNCHANGED up /\ ret' = "WASIO_OK" /\ open \subseteq HostFds
  BY DEF Accept, IInv, TypeOK
<1>2. CASE IsFull(fl) /\ UNCHANGED <<fl, length, polled, fds, vfd, open>>
  BY <1>1, <1>2, NoEffectPreserves
<1>3. CASE ~IsFull(fl) /\ TakeEntry(NoFd, NoFd) /\ UNCHANGED open
  BY <1>1, <1>3, TakeEntryPreserves
<1>4. ASSUME NEW h \in HostFds, LowestFree(h), open' = open \union {h},
             IF IsFull(fl) THEN /\ vfd # NoFd /\ polled' = [polled EXCEPT ![vfd] = h]
                                /\ UNCHANGED <<fl, length, fds, vfd>>
                           ELSE TakeEntry(NoFd, h)
      PROVE  IInv'
  <2>1. h \notin open
    BY <1>4 DEF LowestFree
  <2>2. h \notin Known
    BY <1>1, <2>1, KnownFacts DEF IInv, KnownAreOpen
  <2>3. CASE IsFull(fl)
    BY <1>1, <1>4, <2>1, <2>3, AcceptIntoFullPreserves
  <2>4. CASE ~IsFull(fl)
    BY <1>1, <1>4, <2>2, <2>4, TakeEntryPreserves
  <2> QED BY <2>3, <2>4
<1> QED BY <1>2, <1>3, <1>4 DEF Accept

\* A close that succeeds frees its entry, which has the socket it closes.
LEMMA CloseFacts ==
  ASSUME IInv, NEW v \in Vfds, Close(v), ret' = "WASIO_OK"
  PROVE  /\ up /\ open' = open \ {polled[v]} /\ polled[v] \in Sockets(v) /\ v \in Vfds \ Free
         /\ IsFreelist(fl') /\ fl'.size = Capacity
         /\ BitmapMatches(fl', (Vfds \ Free) \ {v})
         /\ Free' = Free \union {v}
         /\ Sockets(v)' = {} /\ \A u \in Vfds \ {v} : Sockets(u)' = Sockets(u)
PROOF
<1>1. /\ polled[v] \in open
      /\ open' = open \ {polled[v]}
      /\ polled' = [polled EXCEPT ![v] = NoFd] /\ fds' = [fds EXCEPT ![v] = NoFd]
      /\ fl' = AfterReclaim(fl, v)
      /\ up /\ open \subseteq HostFds
      /\ polled \in [Vfds -> HostFds \union {NoFd}] /\ fds \in [Vfds -> Preopened \union {NoFd}]
  BY DEF Close, IInv, TypeOK
<1>2. polled[v] # NoFd /\ polled[v] \in Sockets(v)
  BY <1>1, PreopenedAssumption DEF Sockets
<1>3. v \in Vfds \ Free
  BY <1>1, <1>2 DEF IInv, FreeIsEmpty
<1>4. /\ IsFreelist(fl') /\ fl'.size = Capacity
      /\ BitmapMatches(fl', (Vfds \ Free) \ {v})
  BY <1>1, CapacityFacts, AfterReclaimFacts DEF IInv, TableIsFreelist, BitmapIsWhole
<1>5. Free' = Free \union {v}
  <2>1. Free' = Vfds \ ((Vfds \ Free) \ {v})
    BY <1>4, FreeOfBitmap DEF Free
  <2> QED BY <2>1 DEF Free
<1>6. Sockets(v)' = {} /\ \A u \in Vfds \ {v} : Sockets(u)' = Sockets(u)
  BY <1>1 DEF Sockets
<1> QED BY <1>1, <1>2, <1>3, <1>4, <1>5, <1>6

\* wasio_close: no other entry has the socket that is closed.
LEMMA ClosePreserves ==
  ASSUME IInv, NEW v \in Vfds, Close(v)
  PROVE  IInv'
PROOF
<1>1. CASE ret' = "WASIO_ERROR" /\ UNCHANGED <<fl, length, polled, fds, open>>
  BY <1>1, NoEffectPreserves DEF Close
<1>2. CASE ret' = "WASIO_OK"
  <2>1. /\ polled' = [polled EXCEPT ![v] = NoFd] /\ fds' = [fds EXCEPT ![v] = NoFd]
        /\ length' = length - 1 /\ up /\ UNCHANGED <<up, vfd>> /\ open \subseteq HostFds
        /\ polled \in [Vfds -> HostFds \union {NoFd}] /\ fds \in [Vfds -> Preopened \union {NoFd}]
    BY <1>2 DEF Close, IInv, TypeOK
  <2>2. /\ open' = open \ {polled[v]} /\ polled[v] \in Sockets(v) /\ v \in Vfds \ Free
        /\ IsFreelist(fl') /\ fl'.size = Capacity
        /\ BitmapMatches(fl', (Vfds \ Free) \ {v})
        /\ Free' = Free \union {v}
        /\ Sockets(v)' = {} /\ \A u \in Vfds \ {v} : Sockets(u)' = Sockets(u)
    BY <1>2, CloseFacts
  <2>3. Vfds \ Free' = (Vfds \ Free) \ {v}
    BY <2>2
  <2>4. LengthCounts' /\ length' \in Nat
    <3>1. /\ Cardinality((Vfds \ Free) \ {v}) = Cardinality(Vfds \ Free) - 1
          /\ Cardinality((Vfds \ Free) \ {v}) \in Nat
      BY <2>2, HeldFinite, FS_RemoveElement
    <3> QED BY <2>1, <2>3, <3>1 DEF IInv, LengthCounts
  <2>5. TypeOK' /\ TableIsFreelist'
    BY <1>2, <2>1, <2>2, <2>4, FreelistIsTyped DEF IInv, TypeOK, TableIsFreelist
  <2>6. BitmapIsWhole' /\ FreeIsEmpty'
    BY <2>1, <2>2, <2>3 DEF IInv, BitmapIsWhole, FreeIsEmpty, Free
  <2>7. KnownAreOpen'
    <3>1. \A u \in Vfds \ {v} : polled[v] \notin Sockets(u)
      BY <2>1, <2>2 DEF IInv, OneEntryPerSocket
    <3> QED BY <2>1, <2>2, <3>1 DEF IInv, KnownAreOpen
  <2>8. OneEntryPerSocket'
    BY <2>1, <2>2 DEF IInv, OneEntryPerSocket
  <2> QED BY <2>4, <2>5, <2>6, <2>7, <2>8 DEF IInv
<1> QED BY <1>1, <1>2 DEF Close

\* wasio_mark_ready copies an entry of one array to the other.
LEMMA MarkReadyPreserves ==
  ASSUME IInv, NEW v \in Vfds, MarkReady(v)
  PROVE  IInv'
PROOF
<1>1. /\ polled' = [polled EXCEPT ![v] = fds[v]] /\ ret' = "WASIO_OK"
      /\ UNCHANGED <<up, fl, length, fds, open, vfd>>
      /\ polled \in [Vfds -> HostFds \union {NoFd}] /\ fds \in [Vfds -> Preopened \union {NoFd}]
  BY DEF MarkReady, IInv, TypeOK
<1>2. Free' = Free
  BY <1>1 DEF Free
<1>3. TypeOK' /\ TableIsFreelist'
  BY <1>1, PreopenedAssumption DEF IInv, TypeOK, TableIsFreelist
<1>4. BitmapIsWhole' /\ FreeIsEmpty' /\ LengthCounts'
  BY <1>1, <1>2 DEF IInv, BitmapIsWhole, FreeIsEmpty, LengthCounts, Free
<1>5. \A u \in Vfds : Sockets(u)' \subseteq Sockets(u)
  BY <1>1 DEF Sockets
<1>6. KnownAreOpen' /\ OneEntryPerSocket'
  BY <1>1, <1>5 DEF IInv, KnownAreOpen, OneEntryPerSocket
<1> QED BY <1>3, <1>4, <1>6 DEF IInv

----------------------------------------------------------------------------
\* Before wasio_init there is no table.
LEMMA InitEstablishes == Init => IInv
PROOF
<1> SUFFICES ASSUME Init PROVE IInv
  OBVIOUS
<1>1. IsFreelist(fl) /\ fl.size = Capacity
  BY CapacityFacts, NewFreelistFacts DEF Init
<1>2. fl.vector \in [0 .. fl.len - 1 -> SUBSET Bits]
  BY <1>1, FreelistIsTyped
<1>3. TypeOK
  BY <1>2, PreopenedAssumption DEF Init, TypeOK
<1> QED BY <1>1, <1>3 DEF Init, IInv, TableIsFreelist, BitmapIsWhole, FreeIsEmpty, LengthCounts,
                          KnownAreOpen, OneEntryPerSocket

\* Every call preserves the invariant, whatever the host answers.
LEMMA StepPreserves == IInv /\ [Next]_vars => IInv'
PROOF
<1> SUFFICES ASSUME IInv, [Next]_vars PROVE IInv'
  OBVIOUS
<1>1. CASE UNCHANGED vars
  BY <1>1, NoEffectPreserves DEF vars, IInv, TypeOK
<1>2. CASE WasioInit
  BY <1>2, InitPreserves
<1>3. CASE Finalize
  BY <1>3, FinalizePreserves
<1>4. CASE Poll
  BY <1>4, NoEffectPreserves DEF Poll
<1>5. ASSUME NEW h \in Preopened, Wrap(h) PROVE IInv'
  BY <1>5, WrapPreserves
<1>6. ASSUME NEW v \in Vfds, Accept(v) PROVE IInv'
  BY <1>6, AcceptPreserves
<1>7. ASSUME NEW v \in Vfds, Recv(v) \/ Send(v) PROVE IInv'
  BY <1>7, NoEffectPreserves DEF Recv, Send, Transfer
<1>8. ASSUME NEW v \in Vfds, Close(v) PROVE IInv'
  BY <1>8, ClosePreserves
<1>9. ASSUME NEW v \in Vfds, MarkReady(v) PROVE IInv'
  BY <1>9, MarkReadyPreserves
<1> QED BY <1>1, <1>2, <1>3, <1>4, <1>5, <1>6, <1>7, <1>8, <1>9 DEF Next

\* The inductive invariant of wasio_wasi.c.
THEOREM Invariance == Spec => []IInv
PROOF BY InitEstablishes, StepPreserves, PTL DEF Spec

\* An entry that can be handed out names no socket, and length counts the rest.
THEOREM FreeEntriesEmptyCorrect == Spec => []FreeEntriesEmpty
PROOF
<1>1. IInv => FreeEntriesEmpty
  BY DEF IInv, FreeEntriesEmpty, FreeIsEmpty, LengthCounts, Sockets
<1> QED BY <1>1, Invariance, PTL

\* No socket is ever behind two entries of wasio_wasi.c.
THEOREM OneEntryPerSocketCorrect == Spec => []OneEntryPerSocket
PROOF
<1>1. IInv => OneEntryPerSocket BY DEF IInv
<1> QED BY <1>1, Invariance, PTL

\* The three ways in which an open socket leaves the table are all there are.
THEOREM SocketsLostCorrect == Spec => SocketsLost
PROOF
<1> DEFINE Excused(h) ==
             \/ IsFull(fl) /\ open' \ open # {}
             \/ \E v \in Vfds : polled[v] = h /\ fds[v] # h /\ fl' = fl /\ open' = open
             \/ \E v \in Vfds : fds[v] = h /\ polled[v] \in open \ open'
           Loses == up /\ up' => \A h \in (Known \ Known') \intersect open' : Excused(h)
<1>1. IInv /\ [Next]_vars => [Loses]_vars
  <2> SUFFICES ASSUME IInv, Next, up, up', NEW h \in Known \ Known', h \in open'
               PROVE  Excused(h)
    OBVIOUS
  <2>1. PICK u \in Vfds : h \in Sockets(u)
    BY KnownFacts
  <2>2. h \notin Sockets(u)'
    BY <2>1, KnownFacts DEF Known
  <2>3. polled \in [Vfds -> HostFds \union {NoFd}] /\ fds \in [Vfds -> Preopened \union {NoFd}]
    BY DEF IInv, TypeOK
  <2>4. ~(polled'[u] = polled[u] /\ fds'[u] = fds[u])
    BY <2>1, <2>2 DEF Sockets
  <2>5. ASSUME ~IsFull(fl), NEW p, NEW c, TakeEntry(p, c) PROVE FALSE
    <3>1. NextEntry(fl) \in Free /\ NextEntry(fl) \in Vfds
      BY <2>5, TakesFree
    <3>2. u # NextEntry(fl)
      BY <2>1, <3>1 DEF IInv, FreeIsEmpty, Sockets
    <3> QED BY <2>3, <2>4, <2>5, <3>2 DEF TakeEntry
  <2>6. CASE WasioInit \/ Finalize \/ Poll
    BY <2>4, <2>6 DEF WasioInit, Finalize, Poll
  <2>7. ASSUME NEW g \in Preopened, Wrap(g) PROVE Excused(h)
    BY <2>4, <2>5, <2>7 DEF Wrap
  <2>8. ASSUME NEW v \in Vfds, Accept(v) PROVE Excused(h)
    <3>1. open' # open
      BY <2>4, <2>5, <2>8 DEF Accept, LowestFree
    <3>2. PICK g \in HostFds : LowestFree(g) /\ open' = open \union {g}
      BY <2>8, <3>1 DEF Accept
    <3>3. IsFull(fl)
      BY <2>5, <2>8, <3>1 DEF Accept
    <3> QED BY <3>2, <3>3 DEF LowestFree
  <2>9. ASSUME NEW v \in Vfds, Recv(v) \/ Send(v) PROVE Excused(h)
    BY <2>4, <2>9 DEF Recv, Send, Transfer
  <2>10. ASSUME NEW v \in Vfds, Close(v) PROVE Excused(h)
    <3>1. /\ polled[v] \in open /\ open' = open \ {polled[v]}
          /\ polled' = [polled EXCEPT ![v] = NoFd] /\ fds' = [fds EXCEPT ![v] = NoFd]
      BY <2>4, <2>10 DEF Close
    <3>2. u = v
      BY <2>3, <2>4, <3>1
    <3>3. fds[v] = h
      BY <2>1, <3>1, <3>2 DEF Sockets
    <3> QED BY <3>1, <3>3
  <2>11. ASSUME NEW v \in Vfds, MarkReady(v) PROVE Excused(h)
    <3>1. polled' = [polled EXCEPT ![v] = fds[v]] /\ UNCHANGED <<fl, fds, open>>
      BY <2>11 DEF MarkReady
    <3>2. u = v
      BY <2>3, <2>4, <3>1
    <3>3. polled[v] = h /\ fds[v] # h
      BY <2>1, <2>2, <2>3, <3>1, <3>2 DEF Sockets
    <3> QED BY <3>1, <3>3
  <2> QED BY <2>6, <2>7, <2>8, <2>9, <2>10, <2>11 DEF Next
<1>2. [][Loses]_vars <=> SocketsLost
  BY DEF SocketsLost
<1> QED BY <1>1, <1>2, Invariance, PTL DEF Spec

----------------------------------------------------------------------------
(* The refinement of SocketTable.                                           *)

\* Entries are in use as long as there is a table and they are not free.
LEMMA BehindFacts ==
  /\ up => /\ Table!Used = Vfds \ Free
           /\ \A v \in Vfds \ Free : Behind[v] = Sockets(v)
  /\ ~up => Behind = Table!Empty
PROOF BY DEF Behind, Table!Used, Table!Empty

\* Whatever leaves the sockets of all entries alone leaves the table alone.
LEMMA BehindKept ==
  ASSUME UNCHANGED <<up, open>>, Free' = Free, \A v \in Vfds : Sockets(v)' = Sockets(v)
  PROVE  UNCHANGED Table!vars
PROOF
<1>1. Behind' = Behind
  BY DEF Behind
<1> QED BY <1>1 DEF Table!vars

\* Taking an entry is Take of that table, for the set of the sockets put in it.
LEMMA TakeEntryMaps ==
  ASSUME IInv, up, up', ~IsFull(fl),
         NEW p \in Preopened \union {NoFd}, NEW c \in HostFds \union {NoFd}, TakeEntry(p, c)
  PROVE  Table!Take({p, c} \ {NoFd})
PROOF
<1>1. PICK e \in Free :
        /\ \A v \in Free : e <= v
        /\ Free' = Free \ {e}
        /\ Sockets(e)' = {p, c} \ {NoFd}
        /\ \A v \in Vfds \ {e} : Sockets(v)' = Sockets(v)
  BY TakeEntryFacts
<1>2. Free \subseteq Vfds
  BY DEF Free
<1>3. Vfds \ Table!Used = Free /\ Table!Used = Vfds \ Free
  BY <1>2, BehindFacts
<1>4. Vfds \ Free' = Table!Used \union {e} /\ e \notin Table!Used
  BY <1>1, <1>2, <1>3
<1>5. Behind' = [u \in Table!Used \union {e} |-> IF u = e THEN {p, c} \ {NoFd} ELSE Behind[u]]
  <2>1. Behind' = [u \in Vfds \ Free' |-> Sockets(u)']
    BY DEF Behind
  <2>2. \A u \in Table!Used \union {e} :
          Sockets(u)' = IF u = e THEN {p, c} \ {NoFd} ELSE Behind[u]
    BY <1>1, <1>2, <1>3, BehindFacts
  <2> QED BY <1>4, <2>1, <2>2
<1> QED BY <1>1, <1>3, <1>5 DEF Table!Take

\* What the table knows is what its entries in use have.
LEMMA KnownIsBehind ==
  ASSUME IInv, up, NEW h, Table!HasEntry(h)
  PROVE  h \in Known
PROOF BY BehindFacts, KnownFacts DEF Table!HasEntry

\* wasio_wrap: on a full table nothing happens.
LEMMA WrapMaps ==
  ASSUME IInv, NEW h \in Preopened, Wrap(h)
  PROVE  Table!Next \/ UNCHANGED Table!vars
PROOF
<1>1. up /\ UNCHANGED <<up, open>> /\ h \in open /\ h \notin Known /\ h \in HostFds /\ h # NoFd
  BY PreopenedAssumption DEF Wrap
<1>2. CASE IsFull(fl) /\ UNCHANGED <<fl, length, polled, fds, vfd>>
  BY <1>1, <1>2, BehindKept DEF Free, Sockets
<1>3. CASE ~IsFull(fl) /\ TakeEntry(h, NoFd)
  <2>1. Table!Take({h, NoFd} \ {NoFd}) /\ {h, NoFd} \ {NoFd} = {h}
    BY <1>1, <1>3, TakeEntryMaps
  <2>2. Table!Bind(h)
    BY <1>1, <2>1, KnownIsBehind DEF Table!Bind
  <2> QED BY <1>1, <2>2 DEF Table!Next
<1> QED BY <1>2, <1>3 DEF Wrap

\* An accept into a full table crowds the entry of the caller's variable.
LEMMA AcceptIntoFullMaps ==
  ASSUME IInv, up, IsFull(fl), vfd # NoFd, NEW h \in HostFds \ open,
         open' = open \union {h}, polled' = [polled EXCEPT ![vfd] = h],
         UNCHANGED <<up, fl, fds, vfd>>
  PROVE  Table!Crowd(vfd, h) /\ vfd \in Table!Used
PROOF
<1>1. vfd \in Vfds /\ vfd' = vfd /\ h # NoFd /\ polled \in [Vfds -> HostFds \union {NoFd}]
  BY PreopenedAssumption DEF IInv, TypeOK
<1>2. Free' = Free /\ Free = {}
  BY FullHasNoFree DEF Free
<1>3. Table!Used = Vfds /\ \A v \in Vfds : Behind[v] = Sockets(v)
  BY <1>2, BehindFacts
<1>4. Behind = [v \in Vfds |-> Sockets(v)] /\ Behind' = [v \in Vfds |-> Sockets(v)']
  BY <1>2 DEF Behind
<1>5. PICK S : S = {fds[vfd]} \ {NoFd}
  OBVIOUS
<1>6. S \in {{}} \union {{g} : g \in Behind[vfd]}
  BY <1>1, <1>3, <1>5 DEF Sockets
<1>7. Sockets(vfd)' = S \union {h} /\ \A v \in Vfds \ {vfd} : Sockets(v)' = Sockets(v)
  BY <1>1, <1>5 DEF Sockets
<1>8. Behind' = [Behind EXCEPT ![vfd] = S \union {h}]
  BY <1>1, <1>4, <1>7
<1> QED BY <1>1, <1>3, <1>6, <1>8 DEF Table!Crowd

\* wasio_accept: an entry is taken also when the host accepts nothing.
LEMMA AcceptMaps ==
  ASSUME IInv, NEW v \in Vfds, Accept(v)
  PROVE  Table!Next \/ UNCHANGED Table!vars
PROOF
<1>1. up /\ UNCHANGED up
  BY DEF Accept
<1>2. CASE IsFull(fl) /\ UNCHANGED <<fl, length, polled, fds, vfd, open>>
  BY <1>1, <1>2, BehindKept DEF Free, Sockets
<1>3. CASE ~IsFull(fl) /\ TakeEntry(NoFd, NoFd) /\ UNCHANGED open
  <2>1. Table!Take({NoFd, NoFd} \ {NoFd}) /\ {NoFd, NoFd} \ {NoFd} = {}
    BY <1>1, <1>3, TakeEntryMaps
  <2> QED BY <1>3, <2>1 DEF Table!Waste, Table!Next
<1>4. ASSUME NEW h \in HostFds, LowestFree(h), open' = open \union {h},
             IF IsFull(fl) THEN /\ vfd # NoFd /\ polled' = [polled EXCEPT ![vfd] = h]
                                /\ UNCHANGED <<fl, length, fds, vfd>>
                           ELSE TakeEntry(NoFd, h)
      PROVE  Table!Next
  <2>1. h \notin open /\ h # NoFd
    BY <1>4, PreopenedAssumption DEF LowestFree
  <2>2. CASE IsFull(fl)
    BY <1>1, <1>4, <2>1, <2>2, AcceptIntoFullMaps DEF Table!Next
  <2>3. CASE ~IsFull(fl)
    <3>1. Table!Take({NoFd, h} \ {NoFd}) /\ {NoFd, h} \ {NoFd} = {h}
      BY <1>1, <1>4, <2>1, <2>3, TakeEntryMaps
    <3>2. Table!Accept(h)
      BY <1>4, <2>1, <3>1 DEF Table!Accept
    <3> QED BY <3>2 DEF Table!Next
  <2> QED BY <2>2, <2>3
<1> QED BY <1>2, <1>3, <1>4 DEF Accept

\* wasio_close releases the entry with the socket that vfds has in it; another
\* that fds has there stays open.
LEMMA CloseMaps ==
  ASSUME IInv, NEW v \in Vfds, Close(v)
  PROVE  Table!Next \/ UNCHANGED Table!vars
PROOF
<1>1. CASE ret' = "WASIO_ERROR"
  <2>1. UNCHANGED <<up, fl, polled, fds, open>>
    BY <1>1 DEF Close
  <2> QED BY <2>1, BehindKept DEF Free, Sockets
<1>2. CASE ret' = "WASIO_OK"
  <2>1. /\ up /\ open' = open \ {polled[v]} /\ polled[v] \in Sockets(v) /\ v \in Vfds \ Free
        /\ Free' = Free \union {v} /\ \A u \in Vfds \ {v} : Sockets(u)' = Sockets(u)
    BY <1>2, CloseFacts
  <2>2. up' /\ UNCHANGED up /\ polled[v] \in HostFds
    BY <1>2, <2>1 DEF Close, IInv, TypeOK
  <2>3. Table!Used = Vfds \ Free /\ \A u \in Vfds \ Free : Behind[u] = Sockets(u)
    BY <2>1, BehindFacts
  <2>4. Vfds \ Free' = Table!Used \ {v}
    BY <2>1, <2>3
  <2>5. Behind' = [u \in Vfds \ Free' |-> Sockets(u)']
    BY <2>2 DEF Behind
  <2>6. Behind' = [u \in Table!Used \ {v} |-> Behind[u]]
    BY <2>1, <2>3, <2>4, <2>5
  <2>7. Table!Release(v, polled[v])
    BY <2>1, <2>2, <2>3, <2>6 DEF Table!Release
  <2> QED BY <2>1, <2>2, <2>3, <2>7 DEF Table!Next
<1> QED BY <1>1, <1>2 DEF Close

\* wasio_mark_ready drops the socket that is written over, unless it is the one
\* that is written.
LEMMA MarkReadyMaps ==
  ASSUME IInv, NEW v \in Vfds, MarkReady(v)
  PROVE  Table!Next \/ UNCHANGED Table!vars
PROOF
<1>1. /\ up /\ polled' = [polled EXCEPT ![v] = fds[v]] /\ UNCHANGED <<up, fl, fds, open>>
      /\ polled \in [Vfds -> HostFds \union {NoFd}]
  BY DEF MarkReady, IInv, TypeOK
<1>2. Free' = Free /\ \A u \in Vfds \ {v} : Sockets(u)' = Sockets(u)
  BY <1>1 DEF Free, Sockets
<1>3. CASE polled[v] \in {NoFd, fds[v]}
  <2>1. Sockets(v)' = Sockets(v)
    BY <1>1, <1>3 DEF Sockets
  <2> QED BY <1>1, <1>2, <2>1, BehindKept
<1>4. CASE polled[v] \notin {NoFd, fds[v]}
  <2>1. polled[v] \in HostFds /\ polled[v] \in Sockets(v) /\ Sockets(v)' = Sockets(v) \ {polled[v]}
    BY <1>1, <1>4 DEF Sockets
  <2>2. v \in Vfds \ Free
    BY <1>1, <1>4 DEF IInv, FreeIsEmpty
  <2>3. Table!Used = Vfds \ Free /\ Behind[v] = Sockets(v)
    BY <1>1, <2>2, BehindFacts
  <2>4. /\ Behind = [u \in Vfds \ Free |-> Sockets(u)]
        /\ Behind' = [u \in Vfds \ Free |-> Sockets(u)']
    BY <1>1, <1>2 DEF Behind
  <2>5. Behind' = [Behind EXCEPT ![v] = Behind[v] \ {polled[v]}]
    BY <1>2, <2>1, <2>2, <2>3, <2>4
  <2>6. Table!Drop(v, polled[v])
    BY <1>1, <2>1, <2>3, <2>5 DEF Table!Drop
  <2> QED BY <2>1, <2>2, <2>3, <2>6 DEF Table!Next
<1> QED BY <1>3, <1>4

\* wasio_init and wasio_finalize.
LEMMA TableComesAndGoes ==
  ASSUME IInv, WasioInit \/ Finalize
  PROVE  Table!Next \/ UNCHANGED Table!vars
PROOF
<1>1. CASE WasioInit /\ UNCHANGED <<up, fl, length, polled, fds>>
  BY <1>1, BehindKept DEF WasioInit, Free, Sockets
<1>2. CASE /\ WasioInit /\ up' = TRUE /\ fl' = NewFreelist(Capacity)
           /\ polled' = [v \in Vfds |-> NoFd] /\ fds' = [v \in Vfds |-> NoFd]
  <2>1. ~up /\ UNCHANGED open
    BY <1>2 DEF WasioInit
  <2>2. Free' = Vfds
    <3>1. IsFreelist(fl') /\ fl'.size = Capacity /\ BitmapMatches(fl', {})
      BY <1>2, CapacityFacts, NewFreelistFacts
    <3> QED BY <3>1, FreeOfBitmap DEF Free
  <2>3. Behind' = Table!Empty /\ Behind = Table!Empty
    BY <2>1, <2>2 DEF Behind, Table!Empty
  <2> QED BY <1>2, <2>1, <2>3 DEF Table!Start, Table!Next
<1>3. CASE Finalize
  <2>1. up /\ up' = FALSE /\ UNCHANGED open
    BY <1>3 DEF Finalize
  <2>2. Behind' = Table!Empty
    BY <2>1 DEF Behind, Table!Empty
  <2> QED BY <2>1, <2>2 DEF Table!Stop, Table!Next
<1> QED BY <1>1, <1>2, <1>3 DEF WasioInit

\* Each call is a step of a table of sockets or changes nothing it shows.
LEMMA StepMaps ==
  ASSUME IInv, [Next]_vars
  PROVE  Table!Next \/ UNCHANGED Table!vars
PROOF
<1>1. CASE WasioInit \/ Finalize
  BY <1>1, TableComesAndGoes
<1>2. CASE Poll \/ \E v \in Vfds : Recv(v) \/ Send(v)
  <2>1. UNCHANGED <<up, fl, polled, fds, open>>
    BY <1>2 DEF Poll, Recv, Send, Transfer
  <2> QED BY <2>1, BehindKept DEF Free, Sockets
<1>3. ASSUME NEW h \in Preopened, Wrap(h) PROVE Table!Next \/ UNCHANGED Table!vars
  BY <1>3, WrapMaps
<1>4. ASSUME NEW v \in Vfds, Accept(v) \/ Close(v) \/ MarkReady(v)
      PROVE  Table!Next \/ UNCHANGED Table!vars
  BY <1>4, AcceptMaps, CloseMaps, MarkReadyMaps
<1>5. CASE UNCHANGED vars
  BY <1>5, BehindKept DEF vars, Free, Sockets
<1> QED BY <1>1, <1>2, <1>3, <1>4, <1>5 DEF Next

\* wasio_wasi.c implements a table of sockets, whatever the host answers: also
\* where an accept wastes an entry or crowds one, the least free entry is the
\* one that is taken, and no call closes a socket of another entry.
THEOREM Refinement == Spec => ImplementsSocketTable
PROOF
<1>1. Init => Table!Init
  BY BehindFacts DEF Init, Table!Init
<1>2. IInv /\ [Next]_vars => [Table!Next]_(Table!vars)
  BY StepMaps DEF Table!vars
<1> QED BY <1>1, <1>2, Invariance, PTL DEF Spec, ImplementsSocketTable, Table!Spec
=============================================================================
