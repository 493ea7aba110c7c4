--------------------------- MODULE WasioHostProofs ---------------------------
(***************************************************************************)
(* WasioHost.tla for every capacity that fills its words, every set of host *)
(* descriptors and every word width: the inductive invariant of the table,  *)
(* what follows from it, and the refinement of DescriptorTable.tla.         *)
(*                                                                         *)
(* Then the programs that are built on the table: what its calls do for a   *)
(* caller, and over that the inductive invariants of HttpServer.tla, for    *)
(* its counter, ready queues and fibers, of EchoServer.tla, for its counter *)
(* and buffers, and of WaeioScheduler.tla, for its queues and its fibers.   *)
(***************************************************************************)
EXTENDS HttpServer, EchoServer, WaeioScheduler, FreelistOpsProofs, FiniteSetTheorems,
        SequenceTheorems

\* The freelist and the host descriptors: an entry is held when it has one.
BitmapIsAllocation == up => BitmapMatches(fl, Allocated)

\* The two arrays name the same descriptor, and one that is open.
ArraysAgree ==
  up => \A v \in Vfds : vfds[v].fd = fds[v] /\ (fds[v] = NoFd \/ fds[v] \in open)

OneOwner == up => \A u, v \in Allocated : fds[u] = fds[v] => u = v

LengthCounts == up => length = Cardinality(Allocated)

IInv == /\ TypeOK
        /\ BitmapIsAllocation /\ ArraysAgree /\ OneOwner /\ LengthCounts /\ NoStaleEvents

----------------------------------------------------------------------------
\* The capacity is one that NextEntryFacts is about.
LEMMA CapacityFacts ==
  /\ Capacity \in Nat \ {0} /\ WholeSize(Capacity)
  /\ Vfds = 0 .. Capacity - 1 /\ Vfds \subseteq Nat
PROOF BY CapacityAssumption DEF WholeSize, Vfds

\* The table has as many entries as its capacity.
LEMMA VfdsFinite ==
  IsFiniteSet(Vfds) /\ Cardinality(Vfds) = Capacity
PROOF
<1>1. Capacity \in Int /\ 0 \in Int /\ Capacity - 1 \in Int
  BY CapacityFacts
<1>2. /\ IsFiniteSet(0 .. Capacity - 1)
      /\ Cardinality(0 .. Capacity - 1) = IF 0 > Capacity - 1 THEN 0 ELSE Capacity - 1 - 0 + 1
  BY <1>1, FS_Interval
<1>3. Cardinality(0 .. Capacity - 1) = Capacity
  BY <1>2, CapacityFacts
<1> QED BY <1>2, <1>3, CapacityFacts

\* A well-typed table holds a freelist of its capacity.
LEMMA TableHasFreelist ==
  ASSUME TypeOK
  PROVE  IsFreelist(fl) /\ fl.size = Capacity
PROOF BY CapacityFacts DEF TypeOK, IsFreelist

\* Every freelist of its capacity is one that a table may hold.
LEMMA FreelistFitsTable ==
  ASSUME NEW g, IsFreelist(g), g.size = Capacity
  PROVE  /\ g.size = Capacity /\ g.len = CalcVectorLen(Capacity)
         /\ g = [size |-> g.size, len |-> g.len, vector |-> g.vector]
         /\ g.vector \in [0 .. g.len - 1 -> SUBSET Bits]
PROOF
<1>1. g.len = CalcVectorLen(g.size) /\ g.vector \in [0 .. g.len - 1 -> SUBSET Bits]
  BY FreelistShape
<1>2. g = [size |-> g.size, len |-> CalcVectorLen(g.size), vector |-> g.vector]
  BY DEF IsFreelist
<1> QED BY <1>1, <1>2

\* The entries in use are finitely many.
LEMMA AllocatedFinite ==
  IsFiniteSet(Allocated) /\ Cardinality(Allocated) \in Nat
PROOF
<1>1. IsFiniteSet(Vfds)
  BY CapacityFacts, FS_Interval
<1>2. Allocated \in SUBSET Vfds
  BY DEF Allocated
<1> QED BY <1>1, <1>2, FS_Subset, FS_CardinalityType

\* What wasio_wrap does with an entry when the table is not full: the entry is
\* the least unused one.
LEMMA WrapTakesLeast ==
  ASSUME IInv, up, ~IsFull(fl)
  PROVE  /\ NextEntry(fl) \in Vfds \ Allocated
         /\ \A v \in Vfds \ Allocated : NextEntry(fl) <= v
PROOF
<1>1. IsFreelist(fl) /\ fl.size = Capacity /\ BitmapMatches(fl, Allocated)
  BY TableHasFreelist DEF IInv, BitmapIsAllocation
<1> QED BY <1>1, CapacityFacts, NextEntryFacts

\* A full table is full: every entry has a host descriptor.
LEMMA FullTableIsFull ==
  ASSUME IInv, up, IsFull(fl)
  PROVE  Allocated = Vfds
PROOF
<1>1. IsFreelist(fl) /\ fl.size = Capacity /\ BitmapMatches(fl, Allocated)
  BY TableHasFreelist DEF IInv, BitmapIsAllocation
<1>2. Vfds \subseteq Allocated
  BY <1>1, CapacityFacts, FullFacts
<1> QED BY <1>2 DEF Allocated

----------------------------------------------------------------------------
(* One lemma per operation: it preserves the parts of IInv it can disturb.  *)

\* An answer that changes neither table nor host.
LEMMA NoEffectPreserves ==
  ASSUME IInv, UNCHANGED <<table, open>>, ret' \in Results
  PROVE  IInv'
PROOF BY DEF IInv, table, TypeOK, BitmapIsAllocation, ArraysAgree, OneOwner, LengthCounts,
             NoStaleEvents, Allocated

\* A host call that fails.
LEMMA FailsPreserves ==
  ASSUME IInv, Fails
  PROVE  IInv'
PROOF
<1>1. ret' \in Results
  BY DEF Fails, TranslateError, Results
<1> QED BY <1>1, NoEffectPreserves DEF Fails

\* wasio_init makes an empty table.
LEMMA InitPreserves ==
  ASSUME IInv, WasioInit
  PROVE  IInv'
PROOF
<1>1. CASE ret' = "WASIO_EFULL" /\ UNCHANGED table
  BY <1>1, NoEffectPreserves DEF WasioInit, Results
<1>2. CASE /\ up' = TRUE
           /\ fl' = NewFreelist(Capacity)
           /\ length' = 0
           /\ vfds' = [v \in Vfds |-> Unused]
           /\ fds' = [v \in Vfds |-> NoFd]
           /\ wants' = [v \in Vfds |-> {}]
           /\ ret' = "WASIO_OK"
  <2>1. IsFreelist(fl') /\ fl'.size = Capacity /\ BitmapMatches(fl', {})
    BY <1>2, CapacityFacts, NewFreelistFacts
  <2>2. Allocated' = {}
    BY <1>2 DEF Allocated
  <2>3. open' = open
    BY DEF WasioInit
  <2>4. TypeOK'
    BY <1>2, <2>1, <2>3, FreelistFitsTable DEF IInv, TypeOK, Unused, Results
  <2>5. (BitmapIsAllocation /\ LengthCounts /\ OneOwner)'
    BY <1>2, <2>1, <2>2, FS_EmptySet DEF BitmapIsAllocation, LengthCounts, OneOwner
  <2>6. (ArraysAgree /\ NoStaleEvents)'
    BY <1>2 DEF ArraysAgree, NoStaleEvents, Unused
  <2> QED BY <2>4, <2>5, <2>6 DEF IInv
<1> QED BY <1>1, <1>2 DEF WasioInit

\* After wasio_finalize nothing is promised but the types.
LEMMA FinalizePreserves ==
  ASSUME IInv, Finalize
  PROVE  IInv'
PROOF BY DEF IInv, Finalize, TypeOK, BitmapIsAllocation, ArraysAgree, OneOwner, LengthCounts,
             NoStaleEvents

\* wasio_wrap of a new descriptor preserves the invariant, also when it loses
\* the descriptor.
LEMMA WrapPreserves ==
  ASSUME IInv, up, NEW h \in HostFds \ open, Wrap(h)
  PROVE  IInv'
PROOF
<1>1. CASE IsFull(fl) /\ ret' = "WASIO_EFULL" /\ UNCHANGED table
  BY <1>1 DEF Wrap, IInv, table, TypeOK, BitmapIsAllocation, ArraysAgree, OneOwner,
              LengthCounts, NoStaleEvents, Allocated, Results
<1>2. CASE /\ ~IsFull(fl)
           /\ fl' = AfterNext(fl)
           /\ vfds' = [vfds EXCEPT ![NextEntry(fl)].fd = h]
           /\ fds' = [fds EXCEPT ![NextEntry(fl)] = h]
           /\ length' = length + 1
           /\ ret' = "WASIO_OK"
           /\ UNCHANGED <<up, wants>>
  <2> DEFINE e == NextEntry(fl)
  <2>1. e \in Vfds \ Allocated
    BY <1>2, WrapTakesLeast
  <2>2. /\ IsFreelist(fl') /\ fl'.size = Capacity
        /\ BitmapMatches(fl', Allocated \union {e})
    BY <1>2, TableHasFreelist, AfterNextFacts DEF IInv, BitmapIsAllocation
  <2>3. open' = open \union {h} /\ h # NoFd
    BY HostFdsAssumption DEF Wrap
  <2> HIDE DEF e
  <2>4. /\ fds' = [fds EXCEPT ![e] = h] /\ vfds' = [vfds EXCEPT ![e].fd = h]
        /\ fds \in [Vfds -> HostFds \union {NoFd}]
        /\ vfds \in [Vfds -> [fd : HostFds \union {NoFd}, events : SUBSET Events,
                              revents : SUBSET Events]]
    BY <1>2 DEF e, IInv, TypeOK
  <2>5. Allocated' = Allocated \union {e}
    BY <2>1, <2>3, <2>4 DEF Allocated
  <2>6. TypeOK'
    <3>1. /\ fds' \in [Vfds -> HostFds \union {NoFd}]
          /\ vfds' \in [Vfds -> [fd : HostFds \union {NoFd}, events : SUBSET Events,
                                revents : SUBSET Events]]
      BY <2>4
    <3>2. open' \subseteq HostFds /\ length' \in Nat
      BY <1>2, <2>3 DEF IInv, TypeOK
    <3> QED BY <1>2, <2>2, <3>1, <3>2, FreelistFitsTable DEF IInv, TypeOK, Results
  <2>7. BitmapIsAllocation'
    BY <2>2, <2>5 DEF BitmapIsAllocation
  <2>8. LengthCounts'
    BY <1>2, <2>1, <2>5, AllocatedFinite, FS_AddElement DEF IInv, LengthCounts
  <2>9. ArraysAgree' /\ NoStaleEvents'
    BY <1>2, <2>1, <2>3, <2>4, <2>5 DEF IInv, ArraysAgree, NoStaleEvents
  <2>10. OneOwner'
    BY <2>1, <2>3, <2>4, <2>5 DEF IInv, OneOwner, ArraysAgree, Allocated
  <2> QED BY <2>6, <2>7, <2>8, <2>9, <2>10 DEF IInv
<1> QED BY <1>1, <1>2 DEF Wrap

\* wasio_close: what the host closes is the entry's own descriptor, which no
\* other entry has.
LEMMA ClosePreserves ==
  ASSUME IInv, NEW v \in Vfds, Close(v)
  PROVE  IInv'
PROOF
<1>1. CASE ret' = TranslateError("EBADF") /\ UNCHANGED <<table, open>>
  BY <1>1, NoEffectPreserves DEF TranslateError, Results
<1>2. CASE /\ vfds[v].fd \in open
           /\ open' = open \ {vfds[v].fd}
           /\ vfds' = [vfds EXCEPT ![v].fd = NoFd, ![v].revents = {}]
           /\ fds' = [fds EXCEPT ![v] = NoFd]
           /\ length' = length - 1
           /\ fl' = AfterReclaim(fl, v)
           /\ wants' = [wants EXCEPT ![v] = {}]
           /\ ret' = "WASIO_OK"
           /\ UNCHANGED up
  <2>1. up /\ vfds[v].fd = fds[v] /\ fds[v] \in open
    BY <1>2 DEF Close, IInv, ArraysAgree
  <2>2. v \in Allocated
    BY <2>1, HostFdsAssumption DEF IInv, TypeOK, Allocated
  <2>3. /\ IsFreelist(fl') /\ fl'.size = Capacity
        /\ BitmapMatches(fl', Allocated \ {v})
    BY <1>2, <2>1, TableHasFreelist, CapacityFacts, AfterReclaimFacts
    DEF IInv, BitmapIsAllocation
  <2>4. /\ fds \in [Vfds -> HostFds \union {NoFd}]
        /\ vfds \in [Vfds -> [fd : HostFds \union {NoFd}, events : SUBSET Events,
                              revents : SUBSET Events]]
    BY DEF IInv, TypeOK
  <2>5. Allocated' = Allocated \ {v}
    BY <1>2, <2>2, <2>4 DEF Allocated
  <2>6. LengthCounts' /\ length' \in Nat
    <3>1. /\ Cardinality(Allocated \ {v}) = Cardinality(Allocated) - 1
          /\ IsFiniteSet(Allocated \ {v})
      BY <2>2, AllocatedFinite, FS_RemoveElement
    <3>2. Cardinality(Allocated \ {v}) \in Nat
      BY <3>1, FS_CardinalityType
    <3> QED BY <1>2, <2>1, <2>5, <3>1, <3>2 DEF IInv, LengthCounts
  <2>7. TypeOK'
    <3>1. /\ vfds' \in [Vfds -> [fd : HostFds \union {NoFd}, events : SUBSET Events,
                                revents : SUBSET Events]]
          /\ fds' \in [Vfds -> HostFds \union {NoFd}]
      BY <1>2, <2>4
    <3>2. /\ open' \subseteq HostFds /\ wants' \in [Vfds -> SUBSET {"recv", "send"}]
          /\ ret' \in Results /\ up' \in BOOLEAN
      BY <1>2 DEF IInv, TypeOK, Results
    <3> QED BY <2>3, <2>6, <3>1, <3>2, FreelistFitsTable DEF TypeOK
  <2>8. BitmapIsAllocation'
    BY <2>3, <2>5 DEF BitmapIsAllocation
  <2>9. ArraysAgree'
    BY <1>2, <2>1, <2>2, <2>4 DEF IInv, ArraysAgree, OneOwner, Allocated
  <2>10. OneOwner' /\ NoStaleEvents'
    BY <1>2, <2>1, <2>4, <2>5 DEF IInv, OneOwner, NoStaleEvents, Allocated
  <2> QED BY <2>6, <2>7, <2>8, <2>9, <2>10 DEF IInv
<1> QED BY <1>1, <1>2 DEF Close

\* wasio_notify_recv and wasio_notify_send write the descriptor that is there.
LEMMA NotifyPreserves ==
  ASSUME IInv, NEW v \in Vfds, NotifyRecv(v) \/ NotifySend(v)
  PROVE  IInv'
PROOF
<1>1. PICK flag \in Events, want \in {"recv", "send"} : Notify(v, flag, want)
  BY DEF NotifyRecv, NotifySend, pollin, pollout, Events
<1>2. /\ vfds' = [vfds EXCEPT ![v] = [vfds[v] EXCEPT !.fd = fds[v], !.events = @ \union {flag}]]
      /\ wants' = [wants EXCEPT ![v] = @ \union {want}]
      /\ ret' \in Results
      /\ UNCHANGED <<up, fl, length, fds, open>> /\ up
  BY <1>1 DEF Notify, Results
<1>3. Allocated' = Allocated
  BY <1>2 DEF Allocated
<1>4. TypeOK'
  <2>1. TypeOK
    BY DEF IInv
  <2> DEFINE Slot == [fd : HostFds \union {NoFd}, events : SUBSET Events, revents : SUBSET Events]
             slot == [vfds[v] EXCEPT !.fd = fds[v], !.events = @ \union {flag}]
  <2>2. vfds \in [Vfds -> Slot] /\ fds[v] \in HostFds \union {NoFd}
    BY <2>1 DEF TypeOK
  <2>3. slot \in Slot /\ vfds' = [vfds EXCEPT ![v] = slot]
    <3>1. vfds[v] \in Slot
      BY <2>2
    <3>2. slot \in Slot
      BY <2>2, <3>1
    <3>3. vfds' = [vfds EXCEPT ![v] = slot]
      BY <1>2
    <3> QED BY <3>2, <3>3
  <2>4. vfds' \in [Vfds -> Slot]
    <3> HIDE DEF Slot, slot
    <3> QED BY <2>2, <2>3
  <2>5. wants' \in [Vfds -> SUBSET {"recv", "send"}]
    BY <1>2, <2>1 DEF TypeOK
  <2> QED BY <1>2, <2>1, <2>4, <2>5 DEF TypeOK
<1>5. (BitmapIsAllocation /\ OneOwner /\ LengthCounts)'
  BY <1>2, <1>3 DEF IInv, BitmapIsAllocation, OneOwner, LengthCounts
<1>6. (ArraysAgree /\ NoStaleEvents)'
  BY <1>2, <1>3 DEF IInv, TypeOK, ArraysAgree, NoStaleEvents
<1> QED BY <1>4, <1>5, <1>6 DEF IInv

\* wasio_poll reports nothing for a slot without a descriptor.
LEMMA PollPreserves ==
  ASSUME IInv, Poll
  PROVE  IInv'
PROOF
<1>1. CASE Fails
  BY <1>1, FailsPreserves
<1>2. ASSUME NEW R \in SUBSET Reportable,
             vfds' = [v \in Vfds |-> [vfds[v] EXCEPT !.revents = {e \in Events : <<v, e>> \in R}]],
             ret' = "WASIO_OK", UNCHANGED <<up, fl, length, fds, open, wants>>
      PROVE  IInv'
  <2>1. Allocated' = Allocated
    BY <1>2 DEF Allocated
  <2>2. TypeOK'
    BY <1>2 DEF IInv, TypeOK, Results
  <2>3. (BitmapIsAllocation /\ OneOwner /\ LengthCounts)'
    BY <1>2, <2>1 DEF IInv, BitmapIsAllocation, OneOwner, LengthCounts
  <2>4. ArraysAgree'
    BY <1>2 DEF IInv, TypeOK, ArraysAgree
  <2>5. NoStaleEvents'
    <3> SUFFICES ASSUME up, NEW v \in Vfds \ Allocated PROVE vfds'[v].revents = {}
      BY <1>2, <2>1 DEF NoStaleEvents
    <3>1. vfds[v].fd = NoFd
      BY DEF IInv, ArraysAgree, Allocated
    <3>2. \A e \in Events : <<v, e>> \notin Reportable
      BY <3>1 DEF Reportable, Reports
    <3>3. vfds'[v] = [vfds[v] EXCEPT !.revents = {e \in Events : <<v, e>> \in R}]
      BY <1>2
    <3>4. {e \in Events : <<v, e>> \in R} = {}
      BY <1>2, <3>2
    <3>5. vfds[v] \in [fd : HostFds \union {NoFd}, events : SUBSET Events,
                       revents : SUBSET Events]
      BY DEF IInv, TypeOK
    <3> QED BY <3>3, <3>4, <3>5
  <2> QED BY <2>2, <2>3, <2>4, <2>5 DEF IInv
<1> QED BY <1>1, <1>2 DEF Poll

----------------------------------------------------------------------------
\* Before wasio_init there is no table.
LEMMA InitEstablishes == Init => IInv
PROOF
<1> SUFFICES ASSUME Init PROVE IInv
  OBVIOUS
<1>1. IsFreelist(fl) /\ fl.size = Capacity
  BY CapacityFacts, NewFreelistFacts DEF Init
<1>2. /\ fl.size = Capacity /\ fl.len = CalcVectorLen(Capacity)
      /\ fl = [size |-> fl.size, len |-> fl.len, vector |-> fl.vector]
      /\ fl.vector \in [0 .. fl.len - 1 -> SUBSET Bits]
  BY <1>1, FreelistFitsTable
<1>3. TypeOK
  BY <1>2 DEF Init, TypeOK, Unused, Results
<1> QED BY <1>3 DEF Init, IInv, BitmapIsAllocation, ArraysAgree, OneOwner, LengthCounts,
                    NoStaleEvents

\* Every call preserves the invariant, whatever the host answers.
LEMMA StepPreserves == IInv /\ [Next]_vars => IInv'
PROOF
<1> SUFFICES ASSUME IInv, [Next]_vars PROVE IInv'
  OBVIOUS
<1>1. CASE UNCHANGED vars
  BY <1>1, NoEffectPreserves DEF vars, table, IInv, TypeOK
<1>2. CASE WasioInit
  BY <1>2, InitPreserves
<1>3. CASE Finalize
  BY <1>3, FinalizePreserves
<1>4. CASE Listen
  BY <1>4, FailsPreserves, WrapPreserves DEF Listen
<1>5. CASE Poll
  BY <1>5, PollPreserves
<1>6. ASSUME NEW v \in Vfds, Accept(v) PROVE IInv'
  BY <1>6, FailsPreserves, WrapPreserves DEF Accept
<1>7. ASSUME NEW v \in Vfds, Transfer(v) PROVE IInv'
  BY <1>7, FailsPreserves, NoEffectPreserves DEF Transfer, Results
<1>8. ASSUME NEW v \in Vfds, Close(v) PROVE IInv'
  BY <1>8, ClosePreserves
<1>9. ASSUME NEW v \in Vfds, NotifyRecv(v) \/ NotifySend(v) PROVE IInv'
  BY <1>9, NotifyPreserves
<1> QED BY <1>1, <1>2, <1>3, <1>4, <1>5, <1>6, <1>7, <1>8, <1>9 DEF Next

\* The inductive invariant of wasio_host.c.
THEOREM Invariance == Spec => []IInv
PROOF BY InitEstablishes, StepPreserves, PTL DEF Spec

\* The bitmap, the two arrays, the count and the host agree for ever.
THEOREM TableConsistentCorrect == Spec => []TableConsistent
PROOF
<1>1. IInv => TableConsistent
  <2> SUFFICES ASSUME IInv, up, NEW v \in Vfds PROVE Agrees(v)
    BY DEF IInv, LengthCounts, TableConsistent
  <2>1. IsFreelist(fl) /\ fl.size = Capacity /\ BitmapMatches(fl, Allocated)
    BY TableHasFreelist DEF IInv, BitmapIsAllocation
  <2>2. /\ v \div IntWidth \in 0 .. fl.len - 1 /\ v % IntWidth \in Bits
        /\ v = (v % IntWidth) + IntWidth * (v \div IntWidth)
    BY <2>1, CapacityFacts, FreelistShape, VectorLen, DivMod
  <2>3. v % IntWidth \in fl.vector[v \div IntWidth] <=> v \notin Allocated
    BY <2>1, <2>2 DEF BitmapMatches
  <2> QED BY <2>3 DEF Agrees, IInv, ArraysAgree, OneOwner, Allocated
<1> QED BY <1>1, Invariance, PTL

\* A closed descriptor never shows an event that was meant for its connection.
THEOREM NoStaleEventsCorrect == Spec => []NoStaleEvents
PROOF
<1>1. IInv => NoStaleEvents BY DEF IInv
<1> QED BY <1>1, Invariance, PTL

\* Each call is a step of a table of descriptors, or changes nothing that such
\* a table shows.
LEMMA StepMaps ==
  ASSUME IInv, [Next]_vars
  PROVE  Table!Next \/ UNCHANGED Table!vars
PROOF
<1>0. ASSUME UNCHANGED <<up, fds, open>> PROVE UNCHANGED Table!vars
  BY <1>0 DEF Table!vars, Bound, Allocated
<1>1. ASSUME Fails PROVE UNCHANGED Table!vars
  BY <1>0, <1>1 DEF Fails, table
<1>2. ASSUME up, NEW h \in HostFds \ open, Wrap(h)
      PROVE  Table!Bind(h) \/ Table!Lose(h)
  <2>1. CASE IsFull(fl) /\ UNCHANGED table
    <3>1. DOMAIN Bound = Vfds
      BY <1>2, <2>1, FullTableIsFull DEF Bound
    <3> QED BY <1>2, <2>1, <3>1, <1>0 DEF Wrap, table, Table!Lose, Bound, Allocated
  <2>2. CASE /\ ~IsFull(fl) /\ UNCHANGED up
             /\ fds' = [fds EXCEPT ![NextEntry(fl)] = h]
    <3> DEFINE e == NextEntry(fl)
    <3>1. e \in Vfds \ Allocated /\ \A v \in Vfds \ Allocated : e <= v
      BY <1>2, <2>2, WrapTakesLeast
    <3>2. DOMAIN Bound = Allocated /\ up'
      BY <1>2, <2>2 DEF Bound
    <3>3. fds' = [fds EXCEPT ![e] = h] /\ fds \in [Vfds -> HostFds \union {NoFd}]
      BY <2>2 DEF IInv, TypeOK
    <3> HIDE DEF e
    <3>4. Allocated' = Allocated \union {e}
      BY <3>1, <3>3, <1>2, HostFdsAssumption DEF Allocated
    <3>5. Bound' = [u \in Allocated \union {e} |-> IF u = e THEN h ELSE Bound[u]]
      BY <3>1, <3>2, <3>3, <3>4, <1>2 DEF Bound, Allocated
    <3> QED BY <1>2, <2>2, <3>1, <3>2, <3>5 DEF Wrap, Table!Bind
  <2> QED BY <1>2, <2>1, <2>2 DEF Wrap
<1>3. CASE WasioInit
  <2>1. CASE UNCHANGED table
    BY <1>0, <1>3, <2>1 DEF WasioInit, table
  <2>2. CASE up' = TRUE /\ fds' = [v \in Vfds |-> NoFd]
    <3>1. Bound' = Table!Empty
      BY <2>2 DEF Bound, Table!Empty, Allocated
    <3> QED BY <1>3, <2>2, <3>1 DEF WasioInit, Table!Start, Table!Next
  <2> QED BY <1>3, <2>1, <2>2 DEF WasioInit
<1>4. CASE Finalize
  <2>1. Bound' = Table!Empty
    BY <1>4 DEF Finalize, Bound, Table!Empty, Allocated
  <2> QED BY <1>4, <2>1 DEF Finalize, Table!Stop, Table!Next
<1>5. CASE Listen
  BY <1>1, <1>2, <1>5 DEF Listen, Table!Next
<1>6. CASE Poll
  BY <1>0, <1>1, <1>6 DEF Poll
<1>7. ASSUME NEW v \in Vfds, Accept(v)
      PROVE  Table!Next \/ UNCHANGED Table!vars
  BY <1>1, <1>2, <1>7 DEF Accept, Table!Next
<1>8. ASSUME NEW v \in Vfds, Transfer(v) PROVE UNCHANGED Table!vars
  BY <1>0, <1>1, <1>8 DEF Transfer, table
<1>9. ASSUME NEW v \in Vfds, NotifyRecv(v) \/ NotifySend(v) PROVE UNCHANGED Table!vars
  BY <1>0, <1>9 DEF NotifyRecv, NotifySend, Notify
<1>10. ASSUME NEW v \in Vfds, Close(v)
       PROVE  Table!Next \/ UNCHANGED Table!vars
  <2>1. CASE UNCHANGED <<table, open>>
    BY <1>0, <2>1 DEF table
  <2>2. CASE /\ vfds[v].fd \in open
             /\ open' = open \ {vfds[v].fd}
             /\ fds' = [fds EXCEPT ![v] = NoFd]
             /\ UNCHANGED up
    <3>1. /\ up /\ vfds[v].fd = fds[v] /\ v \in Allocated
          /\ fds \in [Vfds -> HostFds \union {NoFd}]
      BY <1>10, <2>2, HostFdsAssumption DEF Close, IInv, ArraysAgree, TypeOK, Allocated
    <3>2. Allocated' = Allocated \ {v}
      BY <2>2, <3>1 DEF Allocated
    <3>3. v \in DOMAIN Bound /\ DOMAIN Bound = Allocated /\ Bound[v] = fds[v]
      BY <3>1 DEF Bound
    <3>4. Bound' = [u \in DOMAIN Bound \ {v} |-> Bound[u]]
      BY <2>2, <3>1, <3>2, <3>3 DEF Bound, Allocated
    <3>5. Table!Release(v)
      BY <2>2, <3>1, <3>3, <3>4 DEF Table!Release
    <3> QED BY <3>3, <3>5 DEF Table!Next
  <2> QED BY <1>10, <2>1, <2>2 DEF Close
<1>11. CASE UNCHANGED vars
  BY <1>0, <1>11 DEF vars
<1> QED BY <1>3, <1>4, <1>5, <1>6, <1>7, <1>8, <1>9, <1>10, <1>11 DEF Next

\* The table of wasio_host.c implements a table of descriptors, whatever the
\* host answers and also when it is full.
THEOREM Refinement == Spec => ImplementsDescriptorTable
PROOF
<1>1. Init => Table!Init
  BY DEF Init, Table!Init, Table!Empty, Bound
<1>2. IInv /\ [Next]_vars => [Table!Next]_(Table!vars)
  BY StepMaps DEF Table!vars
<1>3. Spec => []IInv
  BY Invariance
<1> QED BY <1>1, <1>2, <1>3, PTL DEF Spec, ImplementsDescriptorTable, Table!Spec

----------------------------------------------------------------------------
(* What a caller sees of the table.  The programs that are built on it keep *)
(* their listening socket behind the first virtual descriptor.              *)

\* The host has open what the table knows, so that nothing was lost.
OpenIsKnown == open = {fds[v] : v \in Allocated}

\* A table that is in use.
TableInUse == IInv /\ up

\* The table's shape, as the callers' steps need it.
LEMMA TableShape ==
  ASSUME TableInUse
  PROVE  /\ fds \in [Vfds -> HostFds \union {NoFd}] /\ Allocated \subseteq Vfds
         /\ vfds \in [Vfds -> [fd : HostFds \union {NoFd}, events : SUBSET Events,
                               revents : SUBSET Events]]
         /\ \A v \in Vfds : vfds[v].fd = fds[v]
         /\ \A v \in Allocated : fds[v] \in open
         /\ open \subseteq HostFds /\ NoFd \notin HostFds /\ NoFd \notin Vfds
         /\ length = Cardinality(Allocated)
PROOF BY CapacityFacts, HostFdsAssumption
      DEF TableInUse, IInv, TypeOK, ArraysAgree, Allocated, LengthCounts, NoFd

\* The connections are finitely many; with the listening socket they are the
\* entries in use.
LEMMA ConnsCounted ==
  ASSUME TableInUse
  PROVE  /\ IsFiniteSet(Connections) /\ Cardinality(Connections) \in Nat
         /\ ServFd \in Allocated => length = Cardinality(Connections) + 1
PROOF
<1>1. IsFiniteSet(Connections) /\ Cardinality(Connections) \in Nat
  BY AllocatedFinite, FS_Subset, FS_CardinalityType DEF Connections
<1>2. ASSUME ServFd \in Allocated PROVE Cardinality(Connections) = Cardinality(Allocated) - 1
  BY <1>2, AllocatedFinite, FS_RemoveElement DEF Connections
<1> QED BY <1>1, <1>2, AllocatedFinite, TableShape

\* The first entry a new freelist hands out is the first there is.
LEMMA FirstEntryFacts ==
  LET g == AfterNext(NewFreelist(Capacity))
  IN  /\ IsFreelist(g) /\ g.size = Capacity
      /\ BitmapMatches(g, {ServFd}) /\ ServFd \in Vfds
PROOF
<1> DEFINE n == NewFreelist(Capacity)
<1>1. IsFreelist(n) /\ n.size = Capacity /\ BitmapMatches(n, {})
  BY CapacityFacts, NewFreelistFacts
<1> HIDE DEF n
<1>2. ~IsFull(n)
  <2>1. 0 \in Vfds /\ 0 \notin {}
    BY CapacityFacts
  <2> QED BY <1>1, <2>1, CapacityFacts, FullFacts
<1>3. NextEntry(n) \in Vfds /\ \A v \in Vfds : NextEntry(n) <= v
  BY <1>1, <1>2, CapacityFacts, NextEntryFacts
<1>4. NextEntry(n) = ServFd /\ ServFd \in Vfds
  BY <1>3, CapacityFacts DEF ServFd
<1>5. LET g == AfterNext(n)
      IN  IsFreelist(g) /\ g.size = Capacity /\ BitmapMatches(g, {} \union {NextEntry(n)})
  BY <1>1, <1>2, AfterNextFacts
<1>6. {} \union {NextEntry(n)} = {ServFd}
  BY <1>4
<1> QED BY <1>4, <1>5, <1>6 DEF n

\* As long as the connections are fewer than the places beside the listening
\* socket, wasio_wrap finds room.
LEMMA RoomForConn ==
  ASSUME TableInUse, ServFd \in Allocated, Cardinality(Connections) < Capacity - 1
  PROVE  ~IsFull(fl)
PROOF
<1> SUFFICES ASSUME IsFull(fl) PROVE FALSE
  OBVIOUS
<1>1. Allocated = 0 .. Capacity - 1
  BY FullTableIsFull, CapacityFacts DEF TableInUse
<1>2. Cardinality(Allocated) = Capacity
  BY <1>1, CapacityFacts, FS_Interval
<1> QED BY <1>2, ConnsCounted, TableShape, CapacityFacts

\* An accept that finds room and succeeds gives the new connection an entry
\* that nobody had.
LEMMA AcceptGrows ==
  ASSUME TableInUse, NEW v, Accept(v), ret' = "WASIO_OK"
  PROVE  /\ NextEntry(fl) \in Vfds \ Allocated
         /\ Allocated' = Allocated \union {NextEntry(fl)}
         /\ TableInUse' /\ wants' = wants
         /\ OpenIsKnown => OpenIsKnown'
PROOF
<1>1. ~Fails
  BY DEF Fails, TranslateError
<1>2. PICK h \in HostFds \ open : Wrap(h)
  BY <1>1 DEF Accept
<1>3. /\ ~IsFull(fl)
      /\ fds' = [fds EXCEPT ![NextEntry(fl)] = h]
      /\ open' = open \union {h} /\ UNCHANGED <<up, wants>>
  BY <1>2 DEF Wrap
<1>4. TableInUse'
  BY <1>2, <1>3, WrapPreserves DEF TableInUse
<1> DEFINE e == NextEntry(fl)
<1>5. e \in Vfds \ Allocated
  BY <1>3, WrapTakesLeast DEF TableInUse
<1> HIDE DEF e
<1>6. fds' = [fds EXCEPT ![e] = h] /\ h # NoFd
  BY <1>3, TableShape DEF e
<1>7. Allocated' = Allocated \union {e}
  BY <1>5, <1>6, TableShape DEF Allocated
<1>8. {fds'[u] : u \in Allocated'} = {fds[u] : u \in Allocated} \union {h}
  BY <1>5, <1>6, <1>7, TableShape
<1> QED BY <1>3, <1>4, <1>5, <1>7, <1>8 DEF OpenIsKnown, e

\* One that fails changes nothing, unless the table is full.
LEMMA AcceptKeeps ==
  ASSUME TableInUse, NEW v, Accept(v), ret' # "WASIO_OK", ~IsFull(fl)
  PROVE  UNCHANGED <<table, open>> /\ TableInUse'
PROOF
<1>1. Fails
  BY DEF Accept, Wrap
<1> QED BY <1>1, FailsPreserves DEF Fails, TableInUse, table

\* A close of an entry in use succeeds and takes that entry out.
LEMMA CloseShrinks ==
  ASSUME TableInUse, NEW v \in Allocated, Close(v)
  PROVE  /\ ret' = "WASIO_OK" /\ Allocated' = Allocated \ {v}
         /\ TableInUse' /\ wants' = [wants EXCEPT ![v] = {}]
         /\ OpenIsKnown => OpenIsKnown'
PROOF
<1>1. v \in Vfds /\ vfds[v].fd = fds[v] /\ fds[v] \in open
  BY TableShape
<1>2. /\ ret' = "WASIO_OK" /\ open' = open \ {fds[v]} /\ fds' = [fds EXCEPT ![v] = NoFd]
      /\ wants' = [wants EXCEPT ![v] = {}] /\ up'
  BY <1>1 DEF Close, TableInUse
<1>3. TableInUse'
  BY <1>1, <1>2, ClosePreserves DEF TableInUse
<1>4. Allocated' = Allocated \ {v}
  BY <1>1, <1>2, TableShape DEF Allocated
<1>5. \A u \in Allocated \ {v} : fds'[u] = fds[u] /\ fds[u] # fds[v]
  BY <1>1, <1>2, TableShape DEF TableInUse, IInv, OneOwner
<1>6. {fds'[u] : u \in Allocated'} = {fds[u] : u \in Allocated} \ {fds[v]}
  BY <1>4, <1>5
<1> QED BY <1>2, <1>3, <1>4, <1>6 DEF OpenIsKnown

\* The other calls bind and release nothing.
LEMMA CallKeepsBindings ==
  ASSUME TableInUse,
         Poll \/ \E v \in Vfds : Transfer(v) \/ NotifyRecv(v) \/ NotifySend(v)
  PROVE  /\ TableInUse' /\ Allocated' = Allocated
         /\ OpenIsKnown => OpenIsKnown'
PROOF
<1>1. UNCHANGED <<up, fds, open>>
  BY DEF Poll, Transfer, NotifyRecv, NotifySend, Notify, Fails, table
<1>2. IInv'
  BY StepPreserves DEF TableInUse, Next
<1> QED BY <1>1, <1>2 DEF TableInUse, Allocated, OpenIsKnown

\* So does the scan of the events, which clears the ones it has seen.
LEMMA ClearKeepsBindings ==
  ASSUME TableInUse, NEW v \in Vfds, vfds' = [vfds EXCEPT ![v].revents = {}],
         UNCHANGED <<up, fl, length, fds, open, wants, ret>>
  PROVE  /\ TableInUse' /\ Allocated' = Allocated
         /\ OpenIsKnown => OpenIsKnown'
PROOF
<1>1. Allocated' = Allocated
  BY DEF Allocated
<1>2. /\ vfds' \in [Vfds -> [fd : HostFds \union {NoFd}, events : SUBSET Events,
                             revents : SUBSET Events]]
      /\ \A u \in Vfds : /\ vfds'[u].fd = vfds[u].fd
                         /\ vfds'[u].revents = vfds[u].revents \/ vfds'[u].revents = {}
  BY TableShape
<1>3. IInv'
  BY <1>1, <1>2 DEF TableInUse, IInv, TypeOK, BitmapIsAllocation, ArraysAgree, OneOwner,
                    LengthCounts, NoStaleEvents
<1> QED BY <1>1, <1>3 DEF TableInUse, OpenIsKnown

\* The event that the scan of a program takes is one of the table, at or above
\* the index.
LEMMA TakesEventFacts ==
  ASSUME TableInUse, i \in Nat, NEW v, TakesEvent(v)
  PROVE  /\ v \in Allocated /\ v \in Vfds /\ v \in Nat /\ i <= v /\ v < Capacity
         /\ vfds' = [vfds EXCEPT ![v].revents = {}]
         /\ UNCHANGED <<up, fl, length, fds, open, wants, ret>>
         /\ TableInUse' /\ Allocated' = Allocated /\ Connections' = Connections
         /\ OpenIsKnown => OpenIsKnown'
PROOF
<1>1. v \in Vfds /\ v \in i .. length - 1 /\ length \in Nat
  BY DEF TakesEvent, Ready, TableInUse, IInv, TypeOK
<1>2. v \in Nat /\ i <= v /\ v < Capacity
  BY <1>1, CapacityFacts
<1>3. /\ vfds' = [vfds EXCEPT ![v].revents = {}]
      /\ UNCHANGED <<up, fl, length, fds, open, wants, ret>>
  BY DEF TakesEvent
<1>4. TableInUse' /\ Allocated' = Allocated /\ (OpenIsKnown => OpenIsKnown')
  BY <1>1, <1>3, ClearKeepsBindings
<1>5. v \in Allocated
  BY <1>1, TableShape DEF TakesEvent, Ready, Allocated
<1> QED BY <1>1, <1>2, <1>3, <1>4, <1>5 DEF Connections

\* After wasio_listen the table holds the listening socket and nothing else.
LEMMA ListensEstablishes ==
  ASSUME NEW events \in SUBSET Events, NEW wanted \in SUBSET {"recv", "send"},
         Listens(events, wanted)
  PROVE  /\ TableInUse /\ Allocated = {ServFd} /\ Connections = {}
         /\ length = 1 /\ OpenIsKnown
         /\ ServFd \in Vfds /\ NoFd \notin Vfds
         /\ wants = [v \in Vfds |-> IF v = ServFd THEN wanted ELSE {}]
PROOF
<1>1. PICK h \in HostFds :
        /\ open = {h}
        /\ vfds = [v \in Vfds |->
                     IF v = ServFd THEN [fd |-> h, events |-> events, revents |-> {}]
                                   ELSE Unused]
        /\ fds = [v \in Vfds |-> IF v = ServFd THEN h ELSE NoFd]
  BY DEF Listens
<1>2. /\ up = TRUE /\ fl = AfterNext(NewFreelist(Capacity)) /\ length = 1
      /\ wants = [v \in Vfds |-> IF v = ServFd THEN wanted ELSE {}] /\ ret = "WASIO_OK"
  BY DEF Listens
<1>3. ServFd \in Vfds /\ NoFd \notin Vfds /\ h # NoFd
  BY CapacityFacts, HostFdsAssumption DEF ServFd, NoFd
<1>4. Allocated = {ServFd} /\ Connections = {}
  BY <1>1, <1>3 DEF Allocated, Connections
<1>5. IsFreelist(fl) /\ fl.size = Capacity /\ BitmapMatches(fl, {ServFd})
  BY <1>2, FirstEntryFacts
<1>6. TypeOK
  BY <1>1, <1>2, <1>3, <1>5, FreelistFitsTable DEF TypeOK, Unused, Results
<1>7. LengthCounts
  BY <1>2, <1>4, FS_Singleton DEF LengthCounts
<1>8. ArraysAgree /\ OneOwner /\ NoStaleEvents /\ BitmapIsAllocation
  BY <1>1, <1>3, <1>4, <1>5 DEF ArraysAgree, OneOwner, NoStaleEvents, Unused, BitmapIsAllocation
<1> QED BY <1>1, <1>2, <1>3, <1>4, <1>6, <1>7, <1>8 DEF IInv, TableInUse, OpenIsKnown

----------------------------------------------------------------------------
(* httpserver.c on the table.                                               *)

\* Where a queue holds the listener.
Has(q) == \E j \in 1 .. Len(q) : q[j] = ServFd
Twice(q) == \E j, k \in 1 .. Len(q) : j # k /\ q[j] = ServFd /\ q[k] = ServFd
OnlyListener(q) == \A j \in 1 .. Len(q) : q[j] = ServFd

\* Every connection is counted, but for the one that is being accepted.
HttpCounted ==
  pc # "ended" => /\ ServFd \in Allocated
                  /\ clients = Cardinality(Connections \ {conn})
                  /\ OpenIsKnown

\* Whose code runs.  Handlers run from the front queue only, since fibers has
\* none of them.
HttpRuns ==
  /\ recorded \subseteq {ServFd}
  /\ pc \in {"front", "scan"} => cur = NoFd /\ loop = pc
  /\ pc \in {"listener", "accept", "accepted", "rest"} => cur = ServFd
  /\ pc \in {"recv", "send", "cleanup"} => cur \in Connections /\ loop = "front"
  /\ pc = "accepted" => conn \in Connections /\ clients < max_accept
  /\ pc # "accepted" => conn = NoFd
  /\ cur # NoFd => i > 0
  /\ loop = "front" /\ cur # NoFd => i <= Len(front) /\ front[i] = cur
  /\ pc = "front" => i <= Len(front)

\* A handler that is still to be run is in one place of one queue.
Once(q, handlers) ==
  \A j \in 1 .. Len(q) : q[j] # ServFd =>
    q[j] \in handlers /\ \A k \in 1 .. Len(q) : q[j] = q[k] => j = k

\* That holds of the rear queue and of the part of the front queue that main
\* has not run yet, taken together.
HttpQueued ==
  /\ Once(rear, Connections \ {cur, conn})
  /\ loop = "front" => \A j \in i + 1 .. Len(front) : front[j] # ServFd =>
       /\ front[j] \in Connections \ {cur, conn}
       /\ \A k \in i + 1 .. Len(front) : front[j] = front[k] => j = k
       /\ \A k \in 1 .. Len(rear) : rear[k] # front[j]

\* When the listener is in a queue more than once, nobody else is, and there is
\* no space for another client.  It comes to that by yielding for space in both
\* loops of a round, before anything was accepted in it.
HttpCrowded ==
  /\ how = "full_queue" /\ Capacity > 1 => Twice(rear)
  /\ pc # "ended" =>
       /\ Twice(front) => OnlyListener(front) /\ clients = Capacity - 1
       /\ Twice(rear) => OnlyListener(rear) /\ clients = Capacity - 1
       /\ loop = "front" /\ Twice(front) => OnlyListener(rear)
       /\ loop = "front" /\ Twice(rear) => Twice(front)
       /\ loop = "front" /\ pc \in {"accept", "accepted"} => ~Has(rear)
       /\ loop = "front" /\ rear # <<>> =>
            \E j \in 1 .. i : front[j] = ServFd /\ (pc = "listener" => j < i)
       /\ (loop = "front" \/ pc = "listener" \/ (pc = "scan" /\ i = 0)) /\ Has(rear) =>
            OnlyListener(rear)

\* The inductive invariant.
HttpIInv == /\ TableInUse /\ HttpTyped
            /\ HttpCounted /\ HttpRuns /\ HttpQueued /\ HttpCrowded

----------------------------------------------------------------------------
\* What the invariant says of the queues' shape.
LEMMA QueueShape ==
  ASSUME HttpIInv
  PROVE  /\ Len(front) \in Nat /\ Len(rear) \in Nat
         /\ DOMAIN front = 1 .. Len(front) /\ DOMAIN rear = 1 .. Len(rear)
         /\ \A j \in 1 .. Len(front) : front[j] \in Vfds
         /\ \A j \in 1 .. Len(rear) : rear[j] \in Vfds
         /\ Capacity \in Nat \ {0} /\ ServFd \in Vfds /\ NoFd # ServFd /\ NoFd \notin Vfds
         /\ Vfds \subseteq Nat /\ i \in Nat /\ clients \in Nat
PROOF
<1>1. /\ front \in Seq(Vfds) /\ rear \in Seq(Vfds)
      /\ i \in 0 .. Capacity /\ clients \in 0 .. Capacity - 1
  BY DEF HttpIInv, HttpTyped, MaxClients, Ended
<1> QED BY <1>1, CapacityFacts DEF ServFd, NoFd

\* main runs the next fiber of the front queue.
LEMMA RunFrontPreserves ==
  ASSUME HttpIInv, RunFront
  PROVE  HttpIInv'
PROOF
<1>1. /\ pc = "front" /\ loop = "front" /\ cur = NoFd /\ conn = NoFd
      /\ i \in Nat /\ i + 1 \in 1 .. Len(front)
      /\ cur' = front[i + 1] /\ i' = i + 1 /\ loop' = "front"
      /\ pc' = IF cur' = ServFd THEN "listener" ELSE "recv"
      /\ UNCHANGED <<up, fl, length, vfds, fds, open, wants, ret>>
      /\ UNCHANGED <<front, rear, clients, recorded, conn, max_accept, quitting, how>>
  BY QueueShape DEF HttpIInv, HttpRuns, HttpTyped, RunFront, Resume, wasio, queues, locals, MaxClients, Ended, vars
<1>2. Allocated' = Allocated /\ Connections' = Connections /\ TableInUse' /\ (OpenIsKnown => OpenIsKnown')
  BY <1>1, NoEffectPreserves DEF HttpIInv, TableInUse, table, Allocated, Connections, OpenIsKnown, IInv, TypeOK
<1>3. HttpTyped'
  BY <1>1, QueueShape DEF HttpIInv, HttpTyped, MaxClients, Ended
<1>4. HttpCounted'
  BY <1>1, <1>2 DEF HttpIInv, HttpCounted
<1>5. HttpRuns'
  BY <1>1, <1>2, QueueShape DEF HttpIInv, HttpRuns, HttpQueued, Once
<1>6. HttpQueued'
  BY <1>1, <1>2, QueueShape DEF HttpIInv, HttpQueued, Once
<1>7. HttpCrowded'
  BY <1>1, QueueShape DEF HttpIInv, HttpCrowded, Has, Twice, OnlyListener
<1> QED BY <1>2, <1>3, <1>4, <1>5, <1>6, <1>7 DEF HttpIInv

\* It polls when it has run all of them.
LEMMA PollIOPreserves ==
  ASSUME HttpIInv, PollIO
  PROVE  HttpIInv'
PROOF
<1>1. /\ pc = "front" /\ loop = "front" /\ cur = NoFd /\ conn = NoFd
      /\ Poll
      /\ \/ pc' = "scan" /\ loop' = "scan" /\ i' = 0 /\ UNCHANGED <<cur, how>>
         \/ pc' = "ended" /\ cur' = NoFd /\ how' = "poll" /\ UNCHANGED <<loop, i>>
      /\ UNCHANGED <<front, rear, clients, recorded, conn, max_accept, quitting>>
  BY DEF HttpIInv, HttpRuns, PollIO, Fail, queues, locals, Ends
<1>2. Allocated' = Allocated /\ Connections' = Connections /\ TableInUse' /\ (OpenIsKnown => OpenIsKnown')
  BY <1>1, CallKeepsBindings DEF HttpIInv, Connections
<1>3. HttpTyped'
  BY <1>1, QueueShape DEF HttpIInv, HttpTyped, MaxClients, Ended
<1>4. HttpCounted'
  BY <1>1, <1>2 DEF HttpIInv, HttpCounted
<1>5. HttpRuns'
  BY <1>1, <1>2, QueueShape DEF HttpIInv, HttpRuns
<1>6. HttpQueued'
  BY <1>1, <1>2, QueueShape DEF HttpIInv, HttpQueued, Once
<1>7. HttpCrowded'
  BY <1>1, QueueShape DEF HttpIInv, HttpCrowded, Has, Twice, OnlyListener
<1> QED BY <1>2, <1>3, <1>4, <1>5, <1>6, <1>7 DEF HttpIInv

\* A fiber with an event is the listener, since fibers has nobody else.
LEMMA ScanNextPreserves ==
  ASSUME HttpIInv, ScanNext
  PROVE  HttpIInv'
PROOF
<1>0. i \in Nat /\ TableInUse
  BY QueueShape DEF HttpIInv
<1>1. PICK v \in Vfds :
        /\ TakesEvent(v)
        /\ \/ v \in recorded /\ Resume(v) /\ i' = v + 1 /\ UNCHANGED how
           \/ v \notin recorded /\ Fail("no_fiber") /\ UNCHANGED i
  BY DEF ScanNext
<1>2. /\ v \in Vfds /\ v \in Nat /\ i <= v
      /\ UNCHANGED <<up, fl, length, fds, open, wants, ret>>
      /\ TableInUse' /\ Allocated' = Allocated /\ Connections' = Connections
      /\ OpenIsKnown => OpenIsKnown'
  BY <1>0, <1>1, TakesEventFacts
<1>3. /\ pc = "scan" /\ loop = "scan" /\ cur = NoFd /\ conn = NoFd
      /\ UNCHANGED <<up, fl, length, fds, open, wants, ret>>
      /\ UNCHANGED <<loop, front, rear, clients, recorded, conn, max_accept, quitting>>
      /\ \/ /\ i = 0 /\ i' = 1 /\ cur' = ServFd /\ pc' = "listener" /\ UNCHANGED how
         \/ pc' = "ended" /\ cur' = NoFd /\ how' = "no_fiber" /\ UNCHANGED i
  BY <1>0, <1>1, <1>2
  DEF HttpIInv, HttpRuns, ScanNext, Fail, Resume, queues, locals, ServFd, Ends
<1>4. Allocated' = Allocated /\ Connections' = Connections /\ TableInUse' /\ (OpenIsKnown => OpenIsKnown')
  BY <1>2
<1>5. HttpTyped'
  BY <1>3, QueueShape DEF HttpIInv, HttpTyped, MaxClients, Ended
<1>6. HttpCounted'
  BY <1>3, <1>4 DEF HttpIInv, HttpCounted
<1>7. HttpRuns'
  BY <1>3, <1>4, QueueShape DEF HttpIInv, HttpRuns
<1>8. HttpQueued'
  BY <1>3, <1>4, QueueShape DEF HttpIInv, HttpQueued, Once, Connections
<1>9. HttpCrowded'
  BY <1>3, QueueShape DEF HttpIInv, HttpCrowded, Has, Twice, OnlyListener
<1> QED BY <1>4, <1>5, <1>6, <1>7, <1>8, <1>9 DEF HttpIInv

\* The rear queue becomes the front queue.
LEMMA SwapQueuesPreserves ==
  ASSUME HttpIInv, SwapQueues
  PROVE  HttpIInv'
PROOF
<1>1. /\ pc = "scan" /\ loop = "scan" /\ cur = NoFd /\ conn = NoFd
      /\ front' = rear /\ rear' = <<>>
      /\ pc' = "front" /\ loop' = "front" /\ i' = 0
      /\ UNCHANGED <<up, fl, length, vfds, fds, open, wants, ret>>
      /\ UNCHANGED <<cur, clients, recorded, conn, max_accept, quitting, how>>
  BY DEF HttpIInv, HttpRuns, SwapQueues, wasio, locals, vars
<1>2. Allocated' = Allocated /\ Connections' = Connections /\ TableInUse' /\ (OpenIsKnown => OpenIsKnown')
  BY <1>1, NoEffectPreserves DEF HttpIInv, TableInUse, table, Allocated, Connections, OpenIsKnown, IInv, TypeOK
<1>3. HttpTyped'
  BY <1>1, QueueShape DEF HttpIInv, HttpTyped, MaxClients, Ended
<1>4. HttpCounted'
  BY <1>1, <1>2 DEF HttpIInv, HttpCounted
<1>5. HttpRuns'
  BY <1>1, <1>2, QueueShape DEF HttpIInv, HttpRuns
<1>6. HttpQueued'
  BY <1>1, <1>2, QueueShape DEF HttpIInv, HttpQueued, Once
<1>7. HttpCrowded'
  BY <1>1, QueueShape DEF HttpIInv, HttpTyped, HttpCrowded, Has, Twice, OnlyListener, MaxClients, Ended
<1> QED BY <1>2, <1>3, <1>4, <1>5, <1>6, <1>7 DEF HttpIInv

----------------------------------------------------------------------------
\* A queue in which everyone but the listener is once, and the listener not
\* twice, is no longer than they are many.
LEMMA QueueIsShort ==
  ASSUME NEW q \in Seq(Vfds), NEW C, IsFiniteSet(C), ServFd \notin C, ~Twice(q),
         Once(q, C)
  PROVE  /\ Len(q) <= Cardinality(C) + 1
         /\ ~Has(q) => Len(q) <= Cardinality(C)
PROOF
<1> DEFINE S == 1 .. Len(q)
           f == [j \in S |-> q[j]]
<1>1. Len(q) \in Nat /\ IsFiniteSet(S) /\ Cardinality(S) = Len(q)
  <2>1. Len(q) \in Nat
    OBVIOUS
  <2>2. \A n \in Nat : IsFiniteSet(1 .. n) /\ Cardinality(1 .. n) = n
    BY FS_Interval
  <2> QED BY <2>1, <2>2
<1>2. \A j, k \in S : q[j] = q[k] => j = k
  BY DEF Twice, Once
<1>3. IsFiniteSet(C \union {ServFd}) /\ Cardinality(C \union {ServFd}) = Cardinality(C) + 1
  BY FS_AddElement
<1>4. f \in Injection(S, C \union {ServFd})
  BY <1>2 DEF Injection, IsInjective, Once
<1>5. Len(q) <= Cardinality(C) + 1
  BY <1>1, <1>3, <1>4, FS_Injection
<1>6. ASSUME ~Has(q) PROVE Len(q) <= Cardinality(C)
  <2>1. f \in Injection(S, C)
    BY <1>2, <1>6 DEF Injection, IsInjective, Has, Once
  <2> QED BY <1>1, <2>1, FS_Injection
<1> QED BY <1>5, <1>6

\* The clean-up ends the program.
LEMMA CleanUpPreserves ==
  ASSUME HttpIInv, CleanUp
  PROVE  HttpIInv'
PROOF
<1>1. /\ pc = "cleanup" /\ loop = "front" /\ conn = NoFd /\ recorded' = {}
      /\ clients' = clients - Cardinality(recorded \ {ServFd})
      /\ pc' = "ended" /\ cur' = NoFd /\ how' \in {"returned", "clients"}
      /\ UNCHANGED <<up, fl, length, vfds, fds, open, wants, ret>>
      /\ UNCHANGED <<loop, i, front, rear, conn, max_accept, quitting>>
  BY DEF HttpIInv, HttpRuns, CleanUp, Fail, wasio, queues, locals, Ends, vars
<1>2. recorded \ {ServFd} = {}
  BY DEF HttpIInv, HttpRuns
<1>3. clients' = clients
  <2>1. Cardinality({}) = 0
    BY FS_EmptySet
  <2>2. clients \in Nat
    BY QueueShape DEF HttpIInv, HttpTyped, MaxClients, Ended
  <2> QED BY <1>1, <1>2, <2>1, <2>2
<1>4. Allocated' = Allocated /\ Connections' = Connections /\ TableInUse'
  BY <1>1, NoEffectPreserves DEF HttpIInv, TableInUse, table, Allocated, Connections, IInv, TypeOK
<1>5. HttpTyped'
  BY <1>1, <1>3 DEF HttpIInv, HttpTyped, MaxClients, Ended
<1>6. HttpCounted' /\ HttpRuns'
  BY <1>1 DEF HttpCounted, HttpRuns
<1>7. HttpQueued'
  BY <1>1, <1>4, QueueShape DEF HttpIInv, HttpQueued, Once
<1>8. HttpCrowded'
  BY <1>1 DEF HttpCrowded
<1> QED BY <1>4, <1>5, <1>6, <1>7, <1>8 DEF HttpIInv

\* What an Append does to a queue.
LEMMA AppendFacts ==
  ASSUME NEW q \in Seq(Vfds), NEW v \in Vfds
  PROVE  /\ Append(q, v) \in Seq(Vfds) /\ Len(Append(q, v)) = Len(q) + 1 /\ Len(q) \in Nat
         /\ Append(q, v) # <<>>
         /\ \A j \in 1 .. Len(q) : Append(q, v)[j] = q[j]
         /\ Append(q, v)[Len(q) + 1] = v
         /\ 1 .. Len(Append(q, v)) = 1 .. Len(q) \union {Len(q) + 1}
PROOF
<1>1. /\ Append(q, v) \in Seq(Vfds) /\ Len(Append(q, v)) = Len(q) + 1 /\ Len(q) \in Nat
      /\ \A j \in 1 .. Len(q) : Append(q, v)[j] = q[j]
      /\ Append(q, v)[Len(q) + 1] = v
  BY AppendProperties
<1> QED BY <1>1

\* It keeps a queue one in which each handler is once.
LEMMA AppendOnce ==
  ASSUME NEW q \in Seq(Vfds), NEW v \in Vfds, NEW C, NEW D, C \subseteq D, Once(q, C),
         v = ServFd \/ (v \in D /\ \A j \in 1 .. Len(q) : q[j] # v)
  PROVE  Once(Append(q, v), D)
PROOF
<1> DEFINE r == Append(q, v)
<1>1. /\ Len(r) = Len(q) + 1 /\ Len(q) \in Nat /\ r[Len(q) + 1] = v
      /\ \A j \in 1 .. Len(q) : r[j] = q[j]
      /\ 1 .. Len(r) = 1 .. Len(q) \union {Len(q) + 1}
  BY AppendFacts
<1> HIDE DEF r
<1>2. ASSUME NEW j \in 1 .. Len(r), r[j] # ServFd
      PROVE  r[j] \in D /\ \A k \in 1 .. Len(r) : r[j] = r[k] => j = k
  <2>1. CASE j \in 1 .. Len(q)
    BY <1>1, <1>2, <2>1 DEF Once
  <2>2. CASE j = Len(q) + 1
    BY <1>1, <1>2, <2>2
  <2> QED BY <1>1, <2>1, <2>2
<1>3. Once(r, D)
  BY <1>2 DEF Once
<1> QED BY <1>3 DEF r

\* The listener yields for space.  Nobody but itself can be queued before it in
\* this round, if it is queued already; else the queue has a place for it.
LEMMA ListenerYieldsPreserves ==
  ASSUME HttpIInv, ListenerYields
  PROVE  HttpIInv'
PROOF
<1>1. /\ pc = "listener" /\ cur = ServFd /\ conn = NoFd /\ clients = Capacity - 1
      /\ \/ Len(rear) = Capacity /\ pc' = "ended" /\ cur' = NoFd /\ how' = "full_queue"
            /\ UNCHANGED <<front, rear>>
         \/ /\ Len(rear) # Capacity /\ rear' = Append(rear, ServFd) /\ front' = front
            /\ pc' = loop /\ cur' = NoFd /\ UNCHANGED how
      /\ UNCHANGED <<up, fl, length, vfds, fds, open, wants, ret>>
      /\ UNCHANGED <<loop, i, clients, recorded, conn, max_accept, quitting>>
  BY DEF HttpIInv, HttpRuns, ListenerYields, Fail, PushRear, BackToMain,
      RearIsFull, MaxClients, wasio, queues, locals, Ends, GoesTo, vars
<1>2. Allocated' = Allocated /\ Connections' = Connections /\ TableInUse' /\ (OpenIsKnown => OpenIsKnown')
  BY <1>1, NoEffectPreserves
  DEF HttpIInv, TableInUse, table, Allocated, Connections, OpenIsKnown, IInv, TypeOK
<1>3. HttpCounted'
  BY <1>1, <1>2 DEF HttpIInv, HttpCounted
<1>4. HttpRuns'
  BY <1>1, <1>2, QueueShape DEF HttpIInv, HttpRuns, HttpTyped, MaxClients, Ended
<1>5. CASE Len(rear) = Capacity /\ pc' = "ended" /\ cur' = NoFd /\ how' = "full_queue" /\ UNCHANGED <<front, rear>>
  <2>1. HttpTyped'
    BY <1>1, <1>5 DEF HttpIInv, HttpTyped, MaxClients, Ended
  <2>2. HttpQueued'
    BY <1>1, <1>2, <1>5, QueueShape DEF HttpIInv, HttpQueued, Once
  <2>3. HttpCrowded'
    <3>1. CASE Has(rear)
      <4>1. OnlyListener(rear)
        BY <1>1, <3>1 DEF HttpIInv, HttpCrowded
      <4>2. Capacity > 1 => 1 \in 1 .. Len(rear) /\ 2 \in 1 .. Len(rear)
        BY <1>5, QueueShape
      <4>3. Capacity > 1 => Twice(rear)
        BY <4>1, <4>2 DEF OnlyListener, Twice
      <4> QED BY <1>1, <1>5, <4>3 DEF HttpCrowded, Twice
    <3>2. CASE ~Has(rear)
      <4>1. rear \in Seq(Vfds) /\ Cardinality(Connections) = Capacity - 1 /\ IsFiniteSet(Connections)
        <5>1. Connections \ {conn} = Connections
          BY <1>1, TableShape DEF HttpIInv, Connections
        <5> QED BY <1>1, <5>1, ConnsCounted DEF HttpIInv, HttpCounted, HttpTyped, MaxClients, Ended
      <4>2. Once(rear, Connections) /\ ~Twice(rear) /\ ServFd \notin Connections
        BY <3>2 DEF HttpIInv, HttpQueued, Once, Has, Twice, Connections
      <4>3. Len(rear) <= Capacity - 1
        BY <3>2, <4>1, <4>2, QueueIsShort
      <4> QED BY <1>5, <4>3, QueueShape
    <3> QED BY <3>1, <3>2
  <2> QED BY <1>2, <1>3, <1>4, <2>1, <2>2, <2>3 DEF HttpIInv
<1>6. CASE Len(rear) # Capacity /\ rear' = Append(rear, ServFd) /\ front' = front
           /\ pc' = loop /\ cur' = NoFd /\ UNCHANGED how
  <2>1. /\ rear' \in Seq(Vfds) /\ Len(rear') = Len(rear) + 1 /\ rear' # <<>>
        /\ \A j \in 1 .. Len(rear) : rear'[j] = rear[j]
        /\ rear'[Len(rear) + 1] = ServFd
        /\ 1 .. Len(rear') = 1 .. Len(rear) \union {Len(rear) + 1}
    BY <1>6, QueueShape, AppendFacts DEF HttpIInv, HttpTyped, MaxClients, Ended
  <2>2. HttpTyped'
    BY <1>1, <1>6, <2>1, QueueShape DEF HttpIInv, HttpTyped, MaxClients, Ended
  <2>3. HttpQueued'
    <3>1. Once(rear, Connections \ {cur, conn}) /\ ServFd \in Vfds /\ rear \in Seq(Vfds)
      BY QueueShape DEF HttpIInv, HttpQueued, HttpTyped, MaxClients, Ended
    <3>2. Once(rear', Connections' \ {cur', conn'})
      <4>1. Connections \ {cur, conn} \subseteq Connections' \ {cur', conn'}
        BY <1>1, <1>2, <1>6, TableShape DEF Connections, HttpIInv
      <4> QED BY <1>6, <3>1, <4>1, AppendOnce
    <3>3. loop = "front" => \A j \in i + 1 .. Len(front) : front[j] # ServFd =>
            /\ front[j] \in Connections \ {cur, conn}
            /\ \A k \in i + 1 .. Len(front) : front[j] = front[k] => j = k
            /\ \A k \in 1 .. Len(rear) : rear[k] # front[j]
      BY DEF HttpIInv, HttpQueued
    <3>4. \A v \in Connections : v # NoFd
      BY TableShape DEF HttpIInv, Connections
    <3> QED BY <1>1, <1>2, <1>6, <2>1, <3>2, <3>3, <3>4 DEF HttpQueued
  <2>4. OnlyListener(rear) => OnlyListener(rear')
    BY <2>1 DEF OnlyListener
  <2>5. Twice(rear') => Has(rear)
    BY <2>1, QueueShape DEF Twice, Has
  <2>6. Has(rear) => OnlyListener(rear) /\ OnlyListener(rear')
    BY <1>1, <2>4 DEF HttpIInv, HttpCrowded
  <2>7. loop = "front" => i \in 1 .. Len(front) /\ front[i] = ServFd
    BY <1>1, QueueShape DEF HttpIInv, HttpRuns
  <2>8. loop = "front" /\ rear # <<>> => Twice(front) /\ OnlyListener(rear')
    BY <1>1, <2>4, <2>7, QueueShape DEF HttpIInv, HttpCrowded, Twice
  <2>9. rear = <<>> => OnlyListener(rear')
    BY <2>1 DEF OnlyListener
  <2>10. loop = "front" => OnlyListener(rear')
    BY <2>8, <2>9
  <2>11. loop = "front" /\ Twice(rear') => Twice(front)
    BY <2>5, <2>8, QueueShape DEF Has
  <2>12. i' # 0 /\ how' # "full_queue"
    BY <1>1, <1>6, QueueShape DEF HttpIInv, HttpTyped, HttpRuns, MaxClients, Ended
  <2>13. HttpCrowded'
    <3>1. Twice(front) => OnlyListener(front) /\ clients = Capacity - 1
      BY <1>1 DEF HttpIInv, HttpCrowded
    <3>2. Twice(front)' = Twice(front) /\ OnlyListener(front)' = OnlyListener(front)
      BY <1>6 DEF Twice, OnlyListener
    <3>3. loop' = "front" => \E j \in 1 .. i' : front'[j] = ServFd
      BY <1>1, <1>6, <2>7
    <3>4. pc' \notin {"listener", "accept", "accepted", "ended"} /\ loop' = loop
          /\ clients' = clients /\ clients = Capacity - 1
      BY <1>1, <1>6 DEF HttpIInv, HttpTyped, MaxClients, Ended
    <3> QED BY <2>5, <2>6, <2>10, <2>11, <2>12, <3>1, <3>2, <3>3, <3>4, Zenon DEF HttpCrowded
  <2> QED BY <1>2, <1>3, <1>4, <2>2, <2>3, <2>13 DEF HttpIInv
<1> QED BY <1>1, <1>5, <1>6

\* It may accept what there is space for; then it is not in the rear queue in a
\* round of the front queue.
LEMMA StartAcceptPreserves ==
  ASSUME HttpIInv, StartAccept
  PROVE  HttpIInv'
PROOF
<1>1. /\ pc = "listener" /\ cur = ServFd /\ conn = NoFd /\ clients # Capacity - 1
      /\ max_accept' = Capacity - 1 - clients /\ pc' = "accept"
      /\ UNCHANGED <<up, fl, length, vfds, fds, open, wants, ret>>
      /\ UNCHANGED <<loop, i, cur, front, rear, clients, recorded, conn, quitting, how>>
  BY DEF HttpIInv, HttpRuns, StartAccept, MaxClients, wasio, queues, locals, vars
<1>2. Allocated' = Allocated /\ Connections' = Connections /\ TableInUse' /\ (OpenIsKnown => OpenIsKnown')
  BY <1>1, NoEffectPreserves
  DEF HttpIInv, TableInUse, table, Allocated, Connections, OpenIsKnown, IInv, TypeOK
<1>3. HttpTyped'
  BY <1>1, QueueShape DEF HttpIInv, HttpTyped, MaxClients, Ended
<1>4. HttpCounted'
  BY <1>1, <1>2 DEF HttpIInv, HttpCounted
<1>5. HttpRuns'
  BY <1>1, <1>2 DEF HttpIInv, HttpRuns
<1>6. HttpQueued'
  BY <1>1, <1>2 DEF HttpIInv, HttpQueued
<1>7. loop = "front" => ~Has(rear)
  <2> SUFFICES ASSUME loop = "front", Has(rear) PROVE FALSE
    OBVIOUS
  <2>1. PICK j \in 1 .. i : front[j] = ServFd /\ j < i
    BY <1>1, QueueShape DEF HttpIInv, HttpCrowded, Has
  <2>2. i \in 1 .. Len(front) /\ front[i] = ServFd /\ j \in 1 .. Len(front)
    BY <1>1, QueueShape DEF HttpIInv, HttpRuns
  <2>3. Twice(front)
    BY <2>1, <2>2 DEF Twice
  <2> QED BY <1>1, <2>3 DEF HttpIInv, HttpCrowded
<1>8. HttpCrowded'
  BY <1>1, <1>7 DEF HttpIInv, HttpCrowded, Has, Twice, OnlyListener
<1> QED BY <1>2, <1>3, <1>4, <1>5, <1>6, <1>8 DEF HttpIInv

----------------------------------------------------------------------------
\* w_accept's wasio_accept finds room: there are fewer clients than that.
LEMMA AcceptOnePreserves ==
  ASSUME HttpIInv, AcceptOne
  PROVE  HttpIInv'
PROOF
<1>1. /\ pc = "accept" /\ clients < max_accept /\ conn = NoFd /\ cur = ServFd
      /\ Accept(ServFd)
      /\ \/ ret' = "WASIO_OK" /\ pc' = "accepted" /\ conn' = NextEntry(fl)
         \/ ret' # "WASIO_OK" /\ pc' = "rest" /\ UNCHANGED conn
      /\ UNCHANGED <<loop, i, cur, front, rear, clients, recorded, max_accept, quitting, how>>
  BY DEF HttpIInv, HttpRuns, AcceptOne, queues
<1>2. /\ TableInUse /\ ServFd \in Allocated /\ OpenIsKnown
      /\ clients = Cardinality(Connections \ {conn}) /\ clients < Capacity - 1
  BY <1>1, QueueShape DEF HttpIInv, HttpCounted, HttpTyped, MaxClients, Ended
<1>3. Connections \ {conn} = Connections
  BY <1>1, <1>2, TableShape DEF Connections
<1>4. CASE ret' = "WASIO_OK" /\ pc' = "accepted" /\ conn' = NextEntry(fl)
  <2>1. /\ conn' \in Vfds \ Allocated /\ Allocated' = Allocated \union {conn'}
        /\ TableInUse' /\ OpenIsKnown'
    BY <1>1, <1>2, <1>4, AcceptGrows
  <2>2. Connections' = Connections \union {conn'} /\ conn' \notin Connections /\ conn' # ServFd
    BY <1>2, <2>1 DEF Connections
  <2>3. HttpTyped'
    BY <1>1, <1>4, <2>1 DEF HttpIInv, HttpTyped, MaxClients, Ended
  <2>4. HttpCounted'
    <3>1. Connections' \ {conn'} = Connections
      BY <2>2
    <3> QED BY <1>1, <1>2, <1>3, <2>1, <3>1 DEF HttpCounted
  <2>5. HttpRuns'
    BY <1>1, <1>4, <2>2 DEF HttpIInv, HttpRuns
  <2>6. HttpQueued'
    BY <1>1, <2>2 DEF HttpIInv, HttpQueued, Once
  <2>7. HttpCrowded'
    BY <1>1, <1>4 DEF HttpIInv, HttpCrowded, Has, Twice, OnlyListener
  <2> QED BY <2>1, <2>3, <2>4, <2>5, <2>6, <2>7 DEF HttpIInv
<1>5. CASE ret' # "WASIO_OK" /\ pc' = "rest" /\ UNCHANGED conn
  <2>1. UNCHANGED <<table, open>> /\ TableInUse'
    BY <1>1, <1>2, <1>3, <1>5, RoomForConn, AcceptKeeps
  <2>2. Allocated' = Allocated /\ Connections' = Connections /\ OpenIsKnown'
    BY <1>2, <2>1 DEF table, Allocated, Connections, OpenIsKnown
  <2>3. HttpTyped'
    BY <1>1, <1>5 DEF HttpIInv, HttpTyped, MaxClients, Ended
  <2>4. HttpCounted' /\ HttpRuns'
    BY <1>1, <1>2, <1>5, <2>2 DEF HttpIInv, HttpCounted, HttpRuns
  <2>5. HttpQueued'
    BY <1>1, <1>5, <2>2 DEF HttpIInv, HttpQueued, Once
  <2>6. HttpCrowded'
    BY <1>1, <1>5 DEF HttpIInv, HttpCrowded, Has, Twice, OnlyListener
  <2> QED BY <2>1, <2>3, <2>4, <2>5, <2>6 DEF HttpIInv
<1> QED BY <1>1, <1>4, <1>5

\* The handler of the new connection is queued and counted.  When the queue is
\* full without it, it holds copies of the listener.
LEMMA AcceptedPreserves ==
  ASSUME HttpIInv, Accepted
  PROVE  HttpIInv'
PROOF
<1>1. /\ pc = "accepted" /\ conn \in Connections /\ clients < max_accept /\ cur = ServFd
      /\ NotifyRecv(ServFd)
      /\ \/ /\ Len(rear) = Capacity /\ pc' = "ended" /\ cur' = NoFd /\ how' = "full_queue"
            /\ UNCHANGED <<front, rear, clients>>
         \/ /\ Len(rear) # Capacity /\ rear' = Append(rear, conn) /\ front' = front
            /\ clients' = clients + 1 /\ pc' = "accept" /\ UNCHANGED <<cur, how>>
      /\ conn' = NoFd
      /\ UNCHANGED <<loop, i, recorded, max_accept, quitting>>
  BY DEF HttpIInv, HttpRuns, Accepted, RearIsFull, Fail, PushRear, queues, Ends
<1>2. /\ TableInUse /\ ServFd \in Allocated /\ OpenIsKnown /\ ServFd \in Vfds
      /\ clients = Cardinality(Connections \ {conn}) /\ clients < Capacity - 1 /\ clients \in Nat
  BY <1>1, QueueShape DEF HttpIInv, HttpCounted, HttpTyped, MaxClients, Ended
<1>3. TableInUse' /\ Allocated' = Allocated /\ Connections' = Connections /\ OpenIsKnown'
  BY <1>1, <1>2, CallKeepsBindings DEF Connections
<1>4. /\ IsFiniteSet(Connections \ {conn}) /\ Cardinality(Connections) = clients + 1
      /\ conn # ServFd /\ conn \in Vfds /\ NoFd \notin Connections /\ rear \in Seq(Vfds)
  <2>1. IsFiniteSet(Connections) /\ Cardinality(Connections \ {conn}) = Cardinality(Connections) - 1
        /\ Cardinality(Connections) \in Nat /\ IsFiniteSet(Connections \ {conn})
    BY <1>1, <1>2, ConnsCounted, FS_RemoveElement
  <2> QED BY <1>1, <1>2, <2>1, TableShape DEF Connections, HttpIInv, HttpTyped, MaxClients, Ended
<1>5. CASE /\ Len(rear) = Capacity /\ pc' = "ended" /\ cur' = NoFd /\ how' = "full_queue"
           /\ UNCHANGED <<front, rear, clients>>
  <2>1. Twice(rear)
    <3> SUFFICES ASSUME ~Twice(rear) PROVE FALSE
      OBVIOUS
    <3>1. Once(rear, Connections \ {conn}) /\ ServFd \notin Connections \ {conn}
      BY DEF HttpIInv, HttpQueued, Once, Connections
    <3>2. Len(rear) <= clients + 1
      BY <1>2, <1>4, <3>1, QueueIsShort
    <3> QED BY <1>2, <1>5, <3>2, QueueShape
  <2>2. HttpTyped' /\ HttpCounted' /\ HttpRuns'
    BY <1>1, <1>5 DEF HttpIInv, HttpTyped, HttpCounted, HttpRuns, MaxClients, Ended
  <2>3. HttpQueued'
    BY <1>1, <1>3, <1>4, <1>5 DEF HttpIInv, HttpQueued, Once
  <2>4. HttpCrowded'
    BY <1>5, <2>1 DEF HttpCrowded, Twice
  <2> QED BY <1>3, <2>2, <2>3, <2>4 DEF HttpIInv
<1>6. CASE /\ Len(rear) # Capacity /\ rear' = Append(rear, conn) /\ front' = front
           /\ clients' = clients + 1 /\ pc' = "accept" /\ UNCHANGED <<cur, how>>
  <2>1. /\ rear' \in Seq(Vfds) /\ Len(rear') = Len(rear) + 1 /\ rear' # <<>>
        /\ \A j \in 1 .. Len(rear) : rear'[j] = rear[j]
        /\ rear'[Len(rear) + 1] = conn
        /\ 1 .. Len(rear') = 1 .. Len(rear) \union {Len(rear) + 1}
    BY <1>4, <1>6, AppendFacts
  <2>2. HttpTyped'
    BY <1>1, <1>2, <1>6, <2>1, QueueShape DEF HttpIInv, HttpTyped, MaxClients, Ended
  <2>3. HttpCounted'
    <3>1. Connections' \ {conn'} = Connections
      BY <1>1, <1>3, <1>4
    <3> QED BY <1>2, <1>3, <1>4, <1>6, <3>1 DEF HttpCounted
  <2>4. HttpRuns'
    BY <1>1, <1>3, <1>6 DEF HttpIInv, HttpRuns
  <2>5. HttpQueued'
    <3>1. Once(rear', Connections' \ {cur', conn'})
      <4>1. Once(rear, Connections \ {cur, conn})
        BY DEF HttpIInv, HttpQueued
      <4>2. Connections \ {cur, conn} \subseteq Connections' \ {cur', conn'} /\ conn \in Connections' \ {cur', conn'}
        BY <1>1, <1>3, <1>4, <1>6
      <4>3. \A j \in 1 .. Len(rear) : rear[j] # conn
        BY <1>4, <4>1 DEF Once
      <4> QED BY <1>4, <1>6, <4>1, <4>2, <4>3, AppendOnce
    <3>2. loop = "front" => \A j \in i + 1 .. Len(front) : front[j] # ServFd =>
            /\ front[j] \in Connections \ {cur, conn}
            /\ \A k \in i + 1 .. Len(front) : front[j] = front[k] => j = k
            /\ \A k \in 1 .. Len(rear) : rear[k] # front[j]
      BY DEF HttpIInv, HttpQueued
    <3> QED BY <1>1, <1>3, <1>4, <1>6, <2>1, <3>1, <3>2 DEF HttpQueued
  <2>6. ~Twice(front) /\ ~Twice(rear)
    BY <1>1, <1>2 DEF HttpIInv, HttpCrowded
  <2>7. ~Twice(front)' /\ ~Twice(rear') /\ (Has(rear') => Has(rear))
    <3>1. \A j \in 1 .. Len(rear') : rear'[j] = ServFd =>
            j \in 1 .. Len(rear) /\ rear[j] = ServFd
      BY <1>4, <2>1
    <3>2. ~Twice(rear') /\ (Has(rear') => Has(rear))
      BY <2>6, <3>1 DEF Twice, Has
    <3> QED BY <1>6, <2>6, <3>2 DEF Twice
  <2>8. loop = "front" => ~Has(rear) /\ i \in 1 .. i /\ front[i] = ServFd
    BY <1>1, <1>4, QueueShape DEF HttpIInv, HttpCrowded, HttpRuns
  <2>9. how' # "full_queue"
    BY <1>1, <1>6 DEF HttpIInv, HttpTyped, MaxClients, Ended
  <2>10. loop' = "front" => \E j \in 1 .. i' : front'[j] = ServFd
    BY <1>1, <1>6, <2>8
  <2>11. HttpCrowded'
    BY <1>1, <1>6, <2>7, <2>8, <2>9, <2>10 DEF HttpCrowded, Twice
  <2> QED BY <1>3, <2>2, <2>3, <2>4, <2>5, <2>11 DEF HttpIInv
<1> QED BY <1>1, <1>5, <1>6

----------------------------------------------------------------------------
\* A fiber that waits for its descriptor is in neither queue and not counted
\* otherwise than before.
LEMMA WaitPreserves ==
  ASSUME HttpIInv, ListenerWaits \/ ReceiveLater \/ SendLater
  PROVE  HttpIInv'
PROOF
<1>1. /\ pc \in {"accept", "rest", "recv", "send"} /\ conn = NoFd /\ cur # NoFd /\ i > 0
      /\ \E v \in Vfds : NotifyRecv(v) \/ NotifySend(v)
      /\ pc' = loop /\ cur' = NoFd
      /\ UNCHANGED <<loop, i, front, rear, clients, recorded, conn, max_accept, quitting, how>>
  BY QueueShape, TableShape
  DEF HttpIInv, HttpRuns, ListenerWaits, ReceiveLater, SendLater, Waits,
      BackToMain, queues, locals, Connections, GoesTo
<1>2. TableInUse' /\ Allocated' = Allocated /\ Connections' = Connections /\ (OpenIsKnown => OpenIsKnown')
  BY <1>1, CallKeepsBindings DEF HttpIInv, Connections
<1>3. HttpTyped'
  BY <1>1 DEF HttpIInv, HttpTyped, MaxClients, Ended
<1>4. HttpCounted'
  BY <1>1, <1>2 DEF HttpIInv, HttpCounted
<1>5. HttpRuns'
  BY <1>1, <1>2, QueueShape DEF HttpIInv, HttpRuns, HttpTyped, MaxClients, Ended
<1>6. HttpQueued'
  <2>1. \A C : C \ {cur, conn} \subseteq C \ {cur', conn'} \/ NoFd \in C
    BY <1>1
  <2>2. NoFd \notin Connections
    BY TableShape DEF HttpIInv, Connections
  <2> QED BY <1>1, <1>2, <2>1, <2>2 DEF HttpIInv, HttpQueued, Once
<1>7. HttpCrowded'
  <2>1. /\ pc' \in {"front", "scan"} /\ i \in Nat /\ i > 0 /\ pc # "ended" /\ pc # "listener"
        /\ how # "full_queue" /\ loop' = loop /\ how' = how /\ clients' = clients /\ i' = i
        /\ front' = front /\ rear' = rear
    BY <1>1, QueueShape DEF HttpIInv, HttpTyped, MaxClients, Ended
  <2>2. HttpCrowded
    BY DEF HttpIInv
  <2> QED BY <2>1, <2>2 DEF HttpCrowded, Has, Twice, OnlyListener
<1> QED BY <1>2, <1>3, <1>4, <1>5, <1>6, <1>7 DEF HttpIInv

\* A handler that goes on receives, then sends.
LEMMA TransferPreserves ==
  ASSUME HttpIInv, Receive \/ Send
  PROVE  HttpIInv'
PROOF
<1>1. /\ pc \in {"recv", "send"} /\ pc' \in {"recv", "send", "cleanup"}
      /\ conn = NoFd /\ cur \in Connections /\ loop = "front"
      /\ Transfer(cur) /\ quitting' \in BOOLEAN
      /\ UNCHANGED <<loop, i, cur, front, rear, clients, recorded, conn, max_accept, how>>
  BY DEF HttpIInv, HttpRuns, HttpTyped, Receive, Send, queues, locals, MaxClients, Ended
<1>2. TableInUse' /\ Allocated' = Allocated /\ Connections' = Connections /\ (OpenIsKnown => OpenIsKnown')
  <2>1. cur \in Vfds
    BY <1>1, TableShape DEF HttpIInv, Connections
  <2> QED BY <1>1, <2>1, CallKeepsBindings DEF HttpIInv, Connections
<1>3. HttpTyped'
  BY <1>1 DEF HttpIInv, HttpTyped, MaxClients, Ended
<1>4. HttpCounted'
  BY <1>1, <1>2 DEF HttpIInv, HttpCounted
<1>5. HttpRuns'
  BY <1>1, <1>2 DEF HttpIInv, HttpRuns
<1>6. HttpQueued'
  BY <1>1, <1>2 DEF HttpIInv, HttpQueued, Once
<1>7. HttpCrowded'
  BY <1>1 DEF HttpIInv, HttpTyped, HttpCrowded, Has, Twice, OnlyListener, MaxClients, Ended
<1> QED BY <1>2, <1>3, <1>4, <1>5, <1>6, <1>7 DEF HttpIInv

\* A handler that returns has its descriptor closed, which the host never
\* refuses, and is counted down.
LEMMA FinishedPreserves ==
  ASSUME HttpIInv, ReceiveNothing
  PROVE  HttpIInv'
PROOF
<1>1. /\ pc = "recv" /\ conn = NoFd /\ cur \in Connections /\ loop = "front"
      /\ cur \in Allocated /\ cur # ServFd /\ Close(cur)
      /\ TableInUse /\ OpenIsKnown /\ clients = Cardinality(Connections \ {conn})
      /\ ServFd \in Allocated
  BY DEF HttpIInv, HttpRuns, HttpCounted, ReceiveNothing, Finished, Connections
<1>2. ret' = "WASIO_OK" /\ Allocated' = Allocated \ {cur} /\ TableInUse' /\ OpenIsKnown'
  BY <1>1, CloseShrinks
<1>3. /\ recorded' = recorded \ {cur} /\ clients' = clients - 1 /\ pc' = "front" /\ cur' = NoFd
      /\ UNCHANGED <<loop, i, front, rear, conn, max_accept, quitting, how>>
  BY <1>1, <1>2
  DEF ReceiveNothing, Finished, BackToMain, queues, locals, GoesTo
<1>4. Connections' = Connections \ {cur} /\ NoFd \notin Connections /\ Connections \ {conn} = Connections
  BY <1>1, <1>2, TableShape DEF Connections
<1>5. /\ Cardinality(Connections') = clients - 1 /\ clients' = Cardinality(Connections') /\ clients' \in Nat
  <2>1. IsFiniteSet(Connections) /\ Cardinality(Connections \ {cur}) = Cardinality(Connections) - 1
        /\ IsFiniteSet(Connections \ {cur})
    BY <1>1, ConnsCounted, FS_RemoveElement
  <2>2. Cardinality(Connections \ {cur}) \in Nat
    BY <2>1, FS_CardinalityType
  <2> QED BY <1>1, <1>3, <1>4, <2>1, <2>2
<1>6. HttpTyped'
  <2>1. clients' \in 0 .. Capacity - 1
    <3>1. clients \in 0 .. Capacity - 1
      BY DEF HttpIInv, HttpTyped, MaxClients, Ended
    <3> QED BY <1>3, <1>5, <3>1, QueueShape
  <2>2. recorded' \subseteq Vfds
    BY <1>3 DEF HttpIInv, HttpTyped, MaxClients, Ended
  <2>3. how' = how /\ how = "not"
    BY <1>1, <1>3 DEF HttpIInv, HttpTyped, MaxClients, Ended
  <2> QED BY <1>1, <1>3, <2>1, <2>2, <2>3 DEF HttpIInv, HttpTyped, MaxClients, Ended
<1>7. HttpCounted'
  <2>1. Connections' \ {conn'} = Connections'
    BY <1>1, <1>3, <1>4
  <2> QED BY <1>1, <1>2, <1>3, <1>5, <2>1 DEF HttpCounted
<1>8. /\ i \in 1 .. Len(front) /\ front[i] = cur
  BY <1>1, QueueShape, TableShape DEF HttpIInv, HttpRuns
<1>9. HttpRuns'
  BY <1>1, <1>3, <1>8 DEF HttpIInv, HttpRuns
<1>10. HttpQueued'
  BY <1>1, <1>3, <1>4 DEF HttpIInv, HttpQueued, Once
<1>11. ~Twice(front) /\ ~Twice(rear)
  BY <1>1, <1>8 DEF HttpIInv, HttpCrowded, OnlyListener
<1>12. HttpCrowded'
  BY <1>1, <1>3, <1>11 DEF HttpIInv, HttpTyped, HttpCrowded, Has, Twice, OnlyListener, MaxClients, Ended
<1> QED BY <1>2, <1>6, <1>7, <1>9, <1>10, <1>12 DEF HttpIInv

----------------------------------------------------------------------------
\* The server starts with the listener alone.
LEMMA HttpInitEstablishes == HttpInit => HttpIInv
PROOF
<1> SUFFICES ASSUME HttpInit PROVE HttpIInv
  OBVIOUS
<1>1. /\ TableInUse /\ Allocated = {ServFd} /\ Connections = {} /\ OpenIsKnown
      /\ ServFd \in Vfds /\ NoFd \notin Vfds /\ Capacity \in Nat \ {0}
  BY ListensEstablishes, CapacityFacts DEF HttpInit
<1>2. /\ pc = "front" /\ loop = "front" /\ i = 0 /\ cur = NoFd /\ conn = NoFd
      /\ front = <<ServFd>> /\ rear = <<>>
      /\ clients = 0 /\ recorded = {ServFd}
      /\ max_accept = 0 /\ quitting = FALSE /\ how = "not"
  BY DEF HttpInit
<1>3. HttpTyped
  <2>1. front \in Seq(Vfds) /\ Len(front) = 1 /\ rear \in Seq(Vfds) /\ Len(rear) = 0
    BY <1>1, <1>2
  <2>2. i \in 0 .. Capacity /\ clients \in 0 .. Capacity - 1 /\ max_accept \in 0 .. Capacity - 1
        /\ Len(front) <= Capacity /\ Len(rear) <= Capacity
    BY <1>1, <1>2, <2>1
  <2> QED BY <1>1, <1>2, <2>1, <2>2 DEF HttpTyped, MaxClients, Ended
<1>4. HttpCounted
  BY <1>1, <1>2, FS_EmptySet DEF HttpCounted
<1>5. HttpRuns /\ HttpQueued /\ HttpCrowded
  BY <1>1, <1>2 DEF HttpRuns, HttpQueued, Once, HttpCrowded, Twice, Has, OnlyListener
<1> QED BY <1>1, <1>3, <1>4, <1>5 DEF HttpIInv

----------------------------------------------------------------------------
\* Every step of the server keeps the invariant.
LEMMA HttpStepPreserves == HttpIInv /\ [HttpNext]_httpVars => HttpIInv'
PROOF
<1> SUFFICES ASSUME HttpIInv, HttpNext \/ UNCHANGED httpVars PROVE HttpIInv'
  OBVIOUS
<1>1. CASE RunFront
  BY <1>1, RunFrontPreserves
<1>2. CASE PollIO
  BY <1>2, PollIOPreserves
<1>3. CASE ScanNext
  BY <1>3, ScanNextPreserves
<1>4. CASE SwapQueues
  BY <1>4, SwapQueuesPreserves
<1>5. CASE CleanUp
  BY <1>5, CleanUpPreserves
<1>6. CASE ListenerYields
  BY <1>6, ListenerYieldsPreserves
<1>7. CASE StartAccept
  BY <1>7, StartAcceptPreserves
<1>8. CASE AcceptOne
  BY <1>8, AcceptOnePreserves
<1>9. CASE Accepted
  BY <1>9, AcceptedPreserves
<1>10. CASE ListenerWaits \/ ReceiveLater \/ SendLater
  BY <1>10, WaitPreserves
<1>11. CASE Receive \/ Send
  BY <1>11, TransferPreserves
<1>12. CASE ReceiveNothing
  BY <1>12, FinishedPreserves
<1>13. CASE UNCHANGED httpVars
  <2>1. /\ UNCHANGED <<up, fl, length, vfds, fds, open, wants, ret>>
        /\ UNCHANGED <<pc, loop, i, cur, front, rear, clients, recorded, conn, max_accept,
                       quitting, how>>
    BY <1>13 DEF httpVars, wasio, server, queues, locals, vars
  <2>2. Allocated' = Allocated /\ Connections' = Connections /\ TableInUse' /\ (OpenIsKnown => OpenIsKnown')
    BY <2>1, NoEffectPreserves
    DEF HttpIInv, TableInUse, table, Allocated, Connections, OpenIsKnown, IInv, TypeOK
  <2>3. HttpTyped' /\ HttpCounted' /\ HttpRuns'
    BY <2>1, <2>2 DEF HttpIInv, HttpTyped, HttpCounted, HttpRuns, MaxClients, Ended
  <2>4. HttpQueued' /\ HttpCrowded'
    BY <2>1, <2>2 DEF HttpIInv, HttpQueued, HttpCrowded, Once, Twice, Has, OnlyListener
  <2> QED BY <2>2, <2>3, <2>4 DEF HttpIInv
<1> QED BY <1>1, <1>2, <1>3, <1>4, <1>5, <1>6, <1>7, <1>8, <1>9, <1>10, <1>11, <1>12, <1>13
        DEF HttpNext

\* The inductive invariant of httpserver.c.
THEOREM HttpInvariance == HttpSpec => []HttpIInv
PROOF BY HttpInitEstablishes, HttpStepPreserves, PTL DEF HttpSpec

\* What the invariant says of the clients that are counted.
LEMMA InvariantCounts == ASSUME HttpIInv PROVE ClientsAreCounted
PROOF
<1>1. HttpTypeOK
  BY DEF HttpIInv, TableInUse, IInv, HttpTypeOK
<1>2. ASSUME pc \in {"front", "scan"}
      PROVE  clients = Cardinality(Connections) /\ length = clients + 1 /\ OpenIsKnown
  <2>1. Connections \ {conn} = Connections
    BY <1>2, TableShape DEF HttpIInv, HttpRuns, Connections
  <2> QED BY <1>2, <2>1, ConnsCounted DEF HttpIInv, HttpCounted
<1> QED BY <1>1, <1>2
        DEF ClientsAreCounted, InMain, OpenIsKnown

\* Between fibers httpserver.c counts its clients right and has lost no
\* descriptor.
THEOREM ClientsAreCountedCorrect == HttpSpec => []ClientsAreCounted
PROOF BY InvariantCounts, HttpInvariance, PTL

\* The fibers that are still to be run, place by place.
LEMMA ToRunFacts ==
  ASSUME HttpIInv
  PROVE  /\ loop = "front" => \A j \in 1 .. Len(ToRun) :
              \/ j \in 1 .. Len(rear) /\ ToRun[j] = rear[j]
              \/ /\ j > Len(rear) /\ i + (j - Len(rear)) \in i + 1 .. Len(front)
                 /\ ToRun[j] = front[i + (j - Len(rear))]
         /\ loop # "front" => ToRun = rear
PROOF
<1>1. rear \in Seq(Vfds) /\ front \in Seq(Vfds) /\ i \in Nat
  BY QueueShape DEF HttpIInv, HttpTyped, MaxClients, Ended
<1>2. ASSUME loop # "front" PROVE ToRun = rear
  BY <1>1, <1>2 DEF ToRun
<1>3. ASSUME loop = "front", NEW j \in 1 .. Len(ToRun)
      PROVE  \/ j \in 1 .. Len(rear) /\ ToRun[j] = rear[j]
             \/ /\ j > Len(rear) /\ i + (j - Len(rear)) \in i + 1 .. Len(front)
                /\ ToRun[j] = front[i + (j - Len(rear))]
  <2> DEFINE r == SubSeq(front, i + 1, Len(front))
             n == IF i + 1 <= Len(front) THEN Len(front) - i ELSE 0
  <2>1. Len(front) \in Nat /\ Len(rear) \in Nat /\ n \in Nat
    BY <1>1
  <2>2. r \in Seq(Vfds) /\ Len(r) = n /\ \A k \in 1 .. n : r[k] = front[i + k]
    <3>1. \A k \in i + 1 .. Len(front) : front[k] \in Vfds
      BY <1>1, <2>1
    <3>2. SubSeq(front, i + 1, Len(front)) \in Seq(Vfds)
      BY <1>1, <2>1, <3>1
    <3>3. Len(SubSeq(front, i + 1, Len(front))) = n
      BY <1>1, <2>1, SubSeqProperties
    <3>4. \A k \in 1 .. n : SubSeq(front, i + 1, Len(front))[k] = front[i + k]
      BY <1>1, <2>1, SubSeqProperties
    <3> QED BY <3>2, <3>3, <3>4
  <2> HIDE DEF r
  <2>3. ToRun = rear \o r
    BY <1>3 DEF ToRun, r
  <2>4. Len(ToRun) = Len(rear) + n
    <3>1. rear \in Seq(Vfds) /\ r \in Seq(Vfds) /\ Len(r) = n
      BY <1>1, <2>2
    <3>2. Len(rear \o r) = Len(rear) + Len(r)
      BY <3>1
    <3> QED BY <2>3, <3>1, <3>2
  <2>5. CASE j <= Len(rear)
    <3>1. j \in 1 .. Len(rear) /\ rear \in Seq(Vfds) /\ r \in Seq(Vfds)
      BY <1>1, <2>1, <2>2, <2>5
    <3> QED BY <2>3, <3>1
  <2>6. CASE j > Len(rear)
    <3>1. j - Len(rear) \in 1 .. n /\ j \in Len(rear) + 1 .. Len(rear) + Len(r)
      BY <2>1, <2>2, <2>4, <2>6
    <3>2. ToRun[j] = r[j - Len(rear)]
      BY <1>1, <2>2, <2>3, <3>1
    <3>3. /\ i + (j - Len(rear)) \in i + 1 .. Len(front)
          /\ r[j - Len(rear)] = front[i + (j - Len(rear))]
      BY <1>1, <2>1, <2>2, <3>1
    <3> QED BY <2>6, <3>2, <3>3
  <2> QED BY <2>1, <2>5, <2>6
<1> QED BY <1>2, <1>3

\* No handler is in the ready queues twice or after its connection was closed;
\* the abort of fq_push (line 70) takes copies of the listener.  With a single
\* place there is no second copy.
THEOREM OnlyListenerQueuedTwiceCorrect ==
  ASSUME Capacity > 1
  PROVE  HttpSpec => []OnlyListenerQueuedTwice
PROOF
<1>1. HttpIInv => OnlyListenerQueuedTwice
  <2> SUFFICES ASSUME HttpIInv PROVE OnlyListenerQueuedTwice
    OBVIOUS
  <2>1. how = "full_queue" => Twice(rear)
    BY DEF HttpIInv, HttpCrowded
  <2>2. ASSUME NEW j \in 1 .. Len(ToRun), ToRun[j] # ServFd,
               NEW k \in 1 .. Len(ToRun)
        PROVE  ToRun[j] \in Connections /\ (ToRun[j] = ToRun[k] => j = k)
    <3>1. Len(rear) \in Nat /\ Len(front) \in Nat /\ i \in Nat
      BY QueueShape DEF HttpIInv, HttpTyped, MaxClients, Ended
    <3>2. CASE loop # "front"
      BY <2>2, <3>2, ToRunFacts DEF HttpIInv, HttpQueued, Once
    <3>3. CASE loop = "front"
      <4>1. CASE j \in 1 .. Len(rear) /\ ToRun[j] = rear[j]
        <5>1. rear[j] \in Connections
          BY <2>2, <4>1 DEF HttpIInv, HttpQueued, Once
        <5>2. ASSUME k \in 1 .. Len(rear), ToRun[k] = rear[k], rear[j] = rear[k] PROVE j = k
          BY <2>2, <4>1, <5>2 DEF HttpIInv, HttpQueued, Once
        <5>3. ASSUME i + (k - Len(rear)) \in i + 1 .. Len(front)
              PROVE  front[i + (k - Len(rear))] # rear[j]
          BY <2>2, <3>3, <4>1, <5>3 DEF HttpIInv, HttpQueued
        <5> QED BY <2>2, <3>3, <4>1, <5>1, <5>2, <5>3, ToRunFacts
      <4>2. CASE /\ j > Len(rear) /\ i + (j - Len(rear)) \in i + 1 .. Len(front)
                 /\ ToRun[j] = front[i + (j - Len(rear))]
        <5> DEFINE m == i + (j - Len(rear))
        <5>1. /\ front[m] \in Connections
              /\ \A n \in i + 1 .. Len(front) : front[m] = front[n] => m = n
              /\ \A n \in 1 .. Len(rear) : rear[n] # front[m]
          BY <2>2, <3>3, <4>2 DEF HttpIInv, HttpQueued
        <5>2. ASSUME k \in 1 .. Len(rear), ToRun[k] = rear[k] PROVE ToRun[j] # ToRun[k]
          BY <4>2, <5>1, <5>2
        <5>3. ASSUME i + (k - Len(rear)) \in i + 1 .. Len(front),
                     ToRun[k] = front[i + (k - Len(rear))], ToRun[j] = ToRun[k]
              PROVE  j = k
          <6>1. m = i + (k - Len(rear))
            BY <4>2, <5>1, <5>3
          <6>2. j \in Int /\ k \in Int
            OBVIOUS
          <6> QED BY <3>1, <6>1, <6>2
        <5> QED BY <2>2, <3>3, <4>2, <5>1, <5>2, <5>3, ToRunFacts
      <4> QED BY <3>3, <4>1, <4>2, ToRunFacts
    <3> QED BY <3>2, <3>3
  <2> QED BY <2>1, <2>2 DEF OnlyListenerQueuedTwice, Twice
<1> QED BY <1>1, HttpInvariance, PTL

\* The client that said quit is still connected when the clean-up begins, and
\* fibers has none of the clients to count down for.
LEMMA CleanUpLeavesClients ==
  ASSUME HttpIInv, CleanUp
  PROVE  how' = "clients"
PROOF
<1>1. clients = Cardinality(Connections) /\ Connections # {}
  <2>1. cur \in Connections /\ conn = NoFd /\ Connections \ {conn} = Connections
    BY TableShape DEF HttpIInv, HttpRuns, CleanUp, Connections
  <2> QED BY <2>1 DEF HttpIInv, HttpCounted, CleanUp
<1>2. Cardinality(recorded \ {ServFd}) = 0
  <2>1. recorded \ {ServFd} = {}
    BY DEF HttpIInv, HttpRuns
  <2> QED BY <2>1, FS_EmptySet
<1>3. clients - Cardinality(recorded \ {ServFd}) # 0
  BY <1>1, <1>2, ConnsCounted, FS_EmptySet DEF HttpIInv
<1> QED BY <1>3 DEF CleanUp, Fail, Ends

\* A defect: httpserver.c never returns from main.  Whenever a client ends it, the
\* assertion "assert(clients == 0)" (389) fails.
THEOREM QuitLeavesClients == HttpSpec => [](how # "returned")
PROOF
<1>1. HttpInit => how # "returned"
  BY DEF HttpInit, Listens
<1>2. HttpIInv /\ [HttpNext]_httpVars /\ how # "returned" => (how # "returned")'
  <2> SUFFICES ASSUME HttpIInv, HttpNext, how # "returned" PROVE how' # "returned"
    BY DEF httpVars, server
  <2>1. CASE CleanUp
    BY <2>1, CleanUpLeavesClients
  <2>2. CASE ~CleanUp
    BY <2>2
    DEF HttpNext, RunFront, PollIO, ScanNext, SwapQueues, ListenerYields, StartAccept,
        AcceptOne, Accepted, ListenerWaits, Receive, ReceiveLater, ReceiveNothing, Send,
        SendLater, Finished, Waits, BackToMain, Fail, GoesTo, Resume, Ends
  <2> QED BY <2>1, <2>2
<1> QED BY <1>1, <1>2, HttpInvariance, PTL DEF HttpSpec

\* Why HttpServer.tla gives handlers no resumption point: one that has yielded
\* is not in the front queue, and fibers has only the listener.  What ought to
\* happen instead, WaitersAreContinued, is violated.
LEMMA HandlersRunFromTheirEntry == HttpSpec => [][\A v \in Waiting : cur' # v]_(httpVars)
PROOF
<1>1. HttpIInv /\ [HttpNext]_httpVars => [\A v \in Waiting : cur' # v]_(httpVars)
  <2> SUFFICES ASSUME HttpIInv, HttpNext, NEW v \in Waiting PROVE cur' # v
    OBVIOUS
  <2>1. v \in Connections /\ v # cur /\ v # NoFd /\ v # ServFd
    BY TableShape DEF Waiting, HttpIInv, Connections
  <2>2. CASE RunFront
    <3>1. loop = "front" /\ i + 1 \in 1 .. Len(front) /\ cur' = front[i + 1]
      BY <2>2, QueueShape DEF RunFront, Resume, HttpIInv, HttpRuns
    <3>2. v \notin {SubSeq(front, i + 1, Len(front))[k] :
                      k \in DOMAIN SubSeq(front, i + 1, Len(front))}
      BY <3>1 DEF Waiting, ToSet
    <3>3. /\ 1 \in DOMAIN SubSeq(front, i + 1, Len(front))
          /\ SubSeq(front, i + 1, Len(front))[1] = front[i + 1]
      BY <3>1, QueueShape, SubSeqProperties DEF HttpIInv, HttpTyped, MaxClients, Ended
    <3> QED BY <3>1, <3>2, <3>3
  <2>3. CASE ScanNext
    BY <2>1, <2>3 DEF ScanNext, Resume, Fail, HttpIInv, HttpRuns, Ends
  <2>4. CASE ~RunFront /\ ~ScanNext
    <3>1. cur' = cur \/ cur' = NoFd
      BY <2>4
      DEF HttpNext, PollIO, SwapQueues, CleanUp, ListenerYields,
          StartAccept, AcceptOne, Accepted, ListenerWaits, Receive,
          ReceiveLater, ReceiveNothing, Send, SendLater, Finished,
          Waits, BackToMain, Fail, GoesTo, Ends
    <3> QED BY <2>1, <3>1
  <2> QED BY <2>2, <2>3, <2>4
<1> QED BY <1>1, HttpInvariance, PTL DEF HttpSpec

----------------------------------------------------------------------------
(* echoserver.c on the table.                                               *)

\* The loop, until a client says quit or the poll fails.
Serves == pc \in {"poll", "scan", "accept", "accepted", "recv", "send", "partial", "close",
                  "rest", "sent"}

\* Whose event is handled, and what its buffer holds at each place.
EchoRuns ==
  /\ pc # "ended" => up
  /\ Serves => /\ ServFd \in Allocated
               /\ IF pc = "accepted" THEN conn \in Connections ELSE conn = NoFd
               /\ pc \in {"recv", "send", "partial", "close", "rest", "sent"} =>
                    cur \in Connections
               /\ pc \in {"recv", "sent"} => buffers[cur] = "null"
               /\ pc \in {"send", "partial", "close"} => buffers[cur] = "own"
               /\ pc = "rest" => buffers[cur] # "null"

\* A client whose data waits is registered for sending, but for the one whose
\* data has just been received.  Every client but the newest is registered for
\* receiving.
EchoArmed ==
  Serves => \A v \in Vfds \ {ServFd} :
    /\ buffers[v] = "own" =>
         \/ v \in Connections /\ "send" \in wants[v]
         \/ v = cur /\ pc \in {"send", "partial", "close"}
    /\ v \in Connections \ {conn} => "recv" \in wants[v]

\* Whoever left a buffer behind was not counted down.
EchoCounted == Serves => Cardinality(Stale) + Cardinality(Connections) <= nclients

\* The inductive invariant.
EchoIInv == IInv /\ EchoTyped /\ EchoRuns /\ EchoArmed /\ EchoCounted

----------------------------------------------------------------------------
\* What the steps of the loop need of the invariant.
LEMMA EchoShape ==
  ASSUME EchoIInv
  PROVE  /\ pc # "ended" => TableInUse
         /\ Serves => pc # "ended" /\ ServFd \in Allocated
         /\ IsFiniteSet(Stale) /\ Cardinality(Stale) \in Nat
         /\ IsFiniteSet(Connections) /\ Cardinality(Connections) \in Nat
         /\ Allocated \subseteq Vfds /\ ServFd \notin Connections /\ NoFd \notin Vfds
         /\ wants \in [Vfds -> SUBSET {"recv", "send"}]
         /\ i \in Nat /\ nclients \in Nat /\ buffers \in [Vfds -> {"null", "own", "old"}]
PROOF
<1>1. IsFiniteSet(Vfds) /\ NoFd \notin Vfds
  BY CapacityFacts, FS_Interval DEF NoFd
<1>2. IsFiniteSet(Stale) /\ Cardinality(Stale) \in Nat
  BY <1>1, FS_Subset, FS_CardinalityType DEF Stale
<1>3. IsFiniteSet(Connections) /\ Cardinality(Connections) \in Nat
  BY AllocatedFinite, FS_Subset, FS_CardinalityType DEF Connections
<1>4. i \in Nat /\ nclients \in Nat /\ buffers \in [Vfds -> {"null", "own", "old"}]
  BY CapacityFacts DEF EchoIInv, EchoTyped
<1> QED BY <1>1, <1>2, <1>3, <1>4
        DEF EchoIInv, EchoRuns, Serves, TableInUse, Allocated, Connections, IInv, TypeOK

\* Polling, and the steps of the scan itself, leave what is armed alone.
LEMMA EchoScanPreserves ==
  ASSUME EchoIInv, PollEvents \/ HandleEvent \/ ScanDone
  PROVE  EchoIInv'
PROOF
<1>1. TableInUse /\ Serves /\ ServFd \in Allocated /\ pc \in {"poll", "scan"} /\ conn = NoFd
  BY EchoShape DEF EchoIInv, EchoRuns, Serves, PollEvents, HandleEvent, ScanDone
<1>2. UNCHANGED <<conn, nclients, buffers, wants>>
  BY EchoShape
  DEF PollEvents, HandleEvent, ScanDone, Poll, Fails, table, TakesEvent, wasio, vars, GoesTo
<1>3. /\ TableInUse' /\ Allocated' = Allocated /\ Connections' = Connections
      /\ i' \in 0 .. Capacity
      /\ \/ pc' \in {"poll", "scan", "cleanup"} /\ cur' \in {cur, NoFd}
         \/ pc' = "accept" /\ cur' = ServFd
         \/ pc' = "recv" /\ cur' \in Connections /\ buffers[cur'] = "null"
         \/ pc' = "rest" /\ cur' \in Connections /\ buffers[cur'] # "null"
  <2>1. CASE PollEvents
    <3>1. TableInUse' /\ Allocated' = Allocated
      BY <1>1, <2>1, CallKeepsBindings DEF PollEvents
    <3> QED BY <2>1, <3>1, CapacityFacts DEF PollEvents, GoesTo, Connections
  <2>2. CASE ScanDone
    BY <1>1, <2>2, CapacityFacts, NoEffectPreserves
    DEF ScanDone, GoesTo, Connections, Allocated, wasio, vars, table, TableInUse, IInv, TypeOK
  <2>3. CASE HandleEvent
    <3>1. PICK v \in Vfds :
            /\ TakesEvent(v) /\ i' = v + 1 /\ cur' = v
            /\ GoesTo(IF v = ServFd THEN "accept"
                      ELSE IF buffers[v] = "null" THEN "recv" ELSE "rest")
      BY <2>3 DEF HandleEvent
    <3>2. /\ v \in Nat /\ v < Capacity /\ v \in Allocated
          /\ TableInUse' /\ Allocated' = Allocated /\ Connections' = Connections
      BY <1>1, <3>1, EchoShape, TakesEventFacts
    <3>3. i' \in 0 .. Capacity
      BY <3>1, <3>2, CapacityFacts
    <3>4. v # ServFd => v \in Connections
      BY <3>2 DEF Connections
    <3> QED BY <3>1, <3>2, <3>3, <3>4 DEF GoesTo
  <2> QED BY <2>1, <2>2, <2>3
<1>4. EchoTyped'
  BY <1>1, <1>2, <1>3, EchoShape, TableShape DEF EchoIInv, EchoTyped, Connections
<1>5. EchoRuns'
  BY <1>1, <1>2, <1>3, EchoShape DEF EchoRuns, Serves, TableInUse
<1>6. EchoArmed'
  BY <1>1, <1>2, <1>3 DEF EchoIInv, EchoArmed, Serves
<1>7. EchoCounted'
  BY <1>1, <1>2, <1>3 DEF EchoIInv, EchoCounted, Stale
<1> QED BY <1>3, <1>4, <1>5, <1>6, <1>7 DEF EchoIInv, TableInUse

\* A new client is counted; what its entry has for a buffer, no client owns.
LEMMA AcceptClientPreserves ==
  ASSUME EchoIInv, AcceptClient
  PROVE  EchoIInv'
PROOF
<1>1. /\ TableInUse /\ Serves /\ ServFd \in Allocated /\ pc = "accept" /\ conn = NoFd
      /\ Accept(ServFd)
      /\ UNCHANGED <<i, cur, buffers>>
  BY EchoShape DEF EchoIInv, EchoRuns, Serves, AcceptClient
<1>2. CASE /\ ret' = "WASIO_OK" /\ pc' = "accepted" /\ UNCHANGED how
           /\ conn' = NextEntry(fl) /\ nclients' = nclients + 1
  <2>1. /\ conn' \in Vfds \ Allocated /\ Allocated' = Allocated \union {conn'}
        /\ TableInUse' /\ wants' = wants
    BY <1>1, <1>2, AcceptGrows
  <2>2. Connections' = Connections \union {conn'} /\ conn' \notin Connections /\ conn' # ServFd
    BY <1>1, <2>1 DEF Connections
  <2>3. EchoTyped'
    BY <1>1, <1>2, <2>1 DEF EchoIInv, EchoTyped
  <2>4. EchoRuns'
    BY <1>2, <2>1, <2>2, <1>1 DEF EchoRuns, TableInUse
  <2>5. EchoArmed'
    BY <1>1, <1>2, <2>1, <2>2, EchoShape DEF EchoIInv, EchoArmed, Serves
  <2>6. EchoCounted'
    <3>1. Cardinality(Connections') = Cardinality(Connections) + 1
      BY <2>2, EchoShape, FS_AddElement
    <3> QED BY <1>1, <1>2, <3>1, EchoShape DEF EchoIInv, EchoCounted, Stale, Serves
  <2> QED BY <2>1, <2>3, <2>4, <2>5, <2>6 DEF EchoIInv, TableInUse
<1>3. CASE pc' = "ended" /\ UNCHANGED <<conn, nclients>>
  <2>1. ServFd \in Vfds
    BY <1>1, TableShape
  <2>2. IInv'
    BY <1>1, <2>1, StepPreserves DEF Next, TableInUse
  <2> QED BY <1>1, <1>3, <2>2
          DEF EchoIInv, EchoTyped, EchoRuns, EchoArmed, EchoCounted, Serves
<1> QED BY <1>2, <1>3 DEF AcceptClient, GoesTo, Ends

\* The steps on a client's descriptor that keep it: the newest is registered,
\* data is received into a buffer, sent, kept and sent again.
LEMMA ClientStepPreserves ==
  ASSUME EchoIInv, RegisterClient \/ ReceiveData \/ Echo \/ SendPartial \/ SendRest
  PROVE  EchoIInv'
PROOF
<1>1. /\ TableInUse /\ Serves /\ ServFd \in Allocated
      /\ cur \in Vfds \union {NoFd} /\ i \in 0 .. Capacity
      /\ IF pc = "accepted" THEN conn \in Connections ELSE conn = NoFd /\ cur \in Connections
      /\ UNCHANGED <<i, cur, nclients>>
  BY EchoShape DEF EchoIInv, EchoTyped, EchoRuns, Serves, RegisterClient, ReceiveData, Echo,
                   SendPartial, SendRest
<1>2. Connections \subseteq Vfds \ {ServFd}
  BY EchoShape DEF Connections
<1>3. TableInUse' /\ Allocated' = Allocated /\ Connections' = Connections
  <2>1. \E v \in Vfds : Transfer(v) \/ NotifyRecv(v) \/ NotifySend(v)
    BY <1>1, <1>2 DEF RegisterClient, ReceiveData, Echo, SendPartial, SendRest
  <2> QED BY <1>1, <2>1, CallKeepsBindings DEF Connections
<1>4. /\ buffers' \in [Vfds -> {"null", "own", "old"}]
      /\ \/ /\ pc = "accepted" /\ pc' = "scan" /\ conn' = NoFd /\ buffers' = buffers
            /\ wants' = [wants EXCEPT ![conn] = @ \union {"recv"}]
         \/ /\ pc = "recv" /\ pc' \in {"send", "closing", "ended"} /\ conn' = NoFd
            /\ buffers' = [buffers EXCEPT ![cur] = "own"] /\ wants' = wants
         \/ /\ pc = "send" /\ pc' \in {"partial", "close"} /\ conn' = NoFd
            /\ buffers' = buffers /\ wants' = wants
         \/ /\ pc = "partial" /\ pc' = "scan" /\ conn' = NoFd /\ buffers' = buffers
            /\ wants' = [wants EXCEPT ![cur] = @ \union {"send"}]
         \/ /\ pc = "rest" /\ pc' = "sent" /\ conn' = NoFd /\ wants' = wants
            /\ buffers' = [buffers EXCEPT ![cur] = "null"]
         \/ pc = "rest" /\ pc' = "ended" /\ UNCHANGED <<conn, buffers>>
  BY <1>1, <1>2, EchoShape
  DEF RegisterClient, ReceiveData, Echo, SendPartial, SendRest, GoesTo, Ends, Transfer, Fails,
      NotifyRecv, NotifySend, Notify, table
<1>5. EchoTyped'
  BY <1>1, <1>2, <1>4 DEF EchoIInv, EchoTyped
<1>6. EchoRuns'
  <2>1. pc # "ended" /\ up'
    BY <1>1, <1>3, EchoShape DEF TableInUse
  <2> QED BY <1>1, <1>2, <1>3, <1>4, <2>1, EchoShape DEF EchoIInv, EchoRuns, Serves
<1>7. EchoArmed'
  BY <1>1, <1>2, <1>3, <1>4, EchoShape DEF EchoIInv, EchoArmed, EchoRuns, Serves
<1>8. EchoCounted'
  <2>1. Stale' \subseteq Stale
    BY <1>1, <1>2, <1>4, EchoShape DEF Stale
  <2>2. Cardinality(Stale') <= Cardinality(Stale) /\ Cardinality(Stale') \in Nat
    BY <2>1, EchoShape, FS_Subset, FS_CardinalityType
  <2> QED BY <1>1, <1>3, <2>2, EchoShape DEF EchoIInv, EchoCounted
<1> QED BY <1>3, <1>5, <1>6, <1>7, <1>8 DEF EchoIInv, TableInUse

\* A client that is closed is counted down, or leaves its buffer behind.
LEMMA CloseClientPreserves ==
  ASSUME EchoIInv, CloseEchoed \/ CloseSent
  PROVE  EchoIInv'
PROOF
<1>1. /\ TableInUse /\ Serves /\ ServFd \in Allocated /\ conn = NoFd
      /\ cur \in Connections /\ Close(cur) /\ pc' = "scan"
      /\ UNCHANGED <<i, cur, conn>>
  BY EchoShape DEF EchoIInv, EchoRuns, Serves, CloseEchoed, CloseSent, GoesTo
<1>2. cur \in Allocated /\ cur \in Vfds /\ cur # ServFd
  BY <1>1, EchoShape DEF Connections
<1>3. /\ TableInUse' /\ Allocated' = Allocated \ {cur}
      /\ wants' = [wants EXCEPT ![cur] = {}]
  BY <1>1, <1>2, CloseShrinks
<1>4. /\ Connections' = Connections \ {cur}
      /\ Cardinality(Connections') = Cardinality(Connections) - 1
      /\ Cardinality(Connections') \in Nat
  <2>1. Connections' = Connections \ {cur}
    BY <1>3 DEF Connections
  <2>2. /\ Cardinality(Connections \ {cur}) = Cardinality(Connections) - 1
        /\ IsFiniteSet(Connections \ {cur})
    BY <1>1, EchoShape, FS_RemoveElement
  <2> QED BY <2>1, <2>2, FS_CardinalityType
<1>5. /\ \/ buffers[cur] = "own" /\ buffers' = [buffers EXCEPT ![cur] = "old"]
            /\ nclients' = nclients /\ Stale' = Stale \union {cur} /\ cur \notin Stale
         \/ buffers[cur] = "null" /\ buffers' = buffers
            /\ nclients' = nclients - 1 /\ Stale' = Stale
  BY <1>2, EchoShape DEF EchoIInv, EchoRuns, Serves, CloseEchoed, CloseSent, Stale
<1>6. EchoCounted' /\ nclients' \in Nat
  <2>1. Cardinality(Stale) + Cardinality(Connections) <= nclients
    BY <1>1 DEF EchoIInv, EchoCounted
  <2>2. CASE nclients' = nclients /\ Stale' = Stale \union {cur} /\ cur \notin Stale
    <3>1. Cardinality(Stale') = Cardinality(Stale) + 1
      BY <2>2, EchoShape, FS_AddElement
    <3> QED BY <1>4, <2>1, <2>2, <3>1, EchoShape DEF EchoCounted
  <2>3. CASE nclients' = nclients - 1 /\ Stale' = Stale
    BY <1>4, <2>1, <2>3, EchoShape DEF EchoCounted
  <2> QED BY <1>5, <2>2, <2>3
<1>7. EchoTyped'
  BY <1>1, <1>2, <1>5, <1>6, EchoShape DEF EchoIInv, EchoTyped
<1>8. EchoRuns'
  BY <1>1, <1>2, <1>3 DEF EchoRuns, TableInUse
<1>9. EchoArmed'
  BY <1>1, <1>2, <1>3, <1>4, <1>5, EchoShape DEF EchoIInv, EchoArmed, Serves
<1> QED BY <1>3, <1>6, <1>7, <1>8, <1>9 DEF EchoIInv, TableInUse

\* After quit there is nothing left to lose but the table itself.
LEMMA QuitPreserves ==
  ASSUME EchoIInv, CloseNext \/ AllClosed \/ CloseListener \/ FinalizeTable
  PROVE  EchoIInv'
PROOF
<1>1. TableInUse /\ ServFd \in Vfds
  BY EchoShape, CapacityFacts
  DEF CloseNext, AllClosed, CloseListener, FinalizeTable, ServFd
<1>2. IInv'
  <2>1. CASE UNCHANGED vars
    BY <1>1, <2>1, NoEffectPreserves DEF vars, table, TableInUse, IInv, TypeOK
  <2>2. CASE \E v \in Vfds : Close(v)
    BY <1>1, <2>2, ClosePreserves DEF TableInUse
  <2>3. CASE Finalize
    BY <1>1, <2>3, FinalizePreserves DEF TableInUse
  <2> QED BY <1>1, <2>1, <2>2, <2>3
          DEF CloseNext, AllClosed, CloseListener, FinalizeTable, wasio
<1>3. /\ pc' \in {"closing", "cleanup", "finalize", "ended"} /\ (pc' # "ended" => up')
      /\ nclients' \in Nat /\ UNCHANGED <<i, cur, conn, buffers>>
  <2>1. CASE CloseNext
    <3>1. /\ pc = "closing" /\ nclients' = nclients - 1 /\ nclients > 0
          /\ pc' \in {"closing", "ended"} /\ UNCHANGED <<i, cur, conn, buffers>>
      BY <2>1 DEF CloseNext, Ends
    <3>2. up'
      BY <1>1, <2>1 DEF CloseNext, Close, table, wasio, vars, TableInUse
    <3> QED BY <3>1, <3>2, EchoShape
  <2>2. CASE AllClosed \/ CloseListener
    BY <1>1, <2>2, EchoShape
    DEF AllClosed, CloseListener, GoesTo, Close, table, wasio, vars, TableInUse
  <2>3. CASE FinalizeTable
    BY <1>1, <2>3, EchoShape DEF FinalizeTable, Ends
  <2> QED BY <2>1, <2>2, <2>3
<1> QED BY <1>2, <1>3
        DEF EchoIInv, EchoTyped, EchoRuns, EchoArmed, EchoCounted, Serves

\* The server starts without clients and without buffers.
LEMMA EchoInitEstablishes == EchoInit => EchoIInv
PROOF
<1> SUFFICES ASSUME EchoInit PROVE EchoIInv
  OBVIOUS
<1>1. /\ TableInUse /\ Allocated = {ServFd} /\ Connections = {}
      /\ ServFd \in Vfds /\ NoFd \notin Vfds
  <2>1. {pollin} \in SUBSET Events
    BY DEF Events, pollin
  <2> QED BY <2>1, ListensEstablishes DEF EchoInit
<1>2. /\ pc = "poll" /\ i = 0 /\ cur = NoFd /\ conn = NoFd
      /\ nclients = 0 /\ buffers = [v \in Vfds |-> "null"] /\ how = "not"
  BY DEF EchoInit
<1>3. Stale = {}
  BY <1>2 DEF Stale
<1>4. EchoTyped
  BY <1>2, CapacityFacts DEF EchoTyped
<1>5. EchoRuns /\ EchoArmed
  BY <1>1, <1>2 DEF EchoRuns, EchoArmed, TableInUse
<1>6. EchoCounted
  BY <1>1, <1>2, <1>3, FS_EmptySet DEF EchoCounted
<1> QED BY <1>1, <1>4, <1>5, <1>6 DEF EchoIInv, TableInUse

\* Every step of the server keeps the invariant.
LEMMA EchoStepPreserves == EchoIInv /\ [EchoNext]_echoVars => EchoIInv'
PROOF
<1> SUFFICES ASSUME EchoIInv, EchoNext \/ UNCHANGED echoVars PROVE EchoIInv'
  OBVIOUS
<1>1. CASE PollEvents \/ HandleEvent \/ ScanDone
  BY <1>1, EchoScanPreserves
<1>2. CASE AcceptClient
  BY <1>2, AcceptClientPreserves
<1>3. CASE RegisterClient \/ ReceiveData \/ Echo \/ SendPartial \/ SendRest
  BY <1>3, ClientStepPreserves
<1>4. CASE CloseEchoed \/ CloseSent
  BY <1>4, CloseClientPreserves
<1>5. CASE CloseNext \/ AllClosed \/ CloseListener \/ FinalizeTable
  BY <1>5, QuitPreserves
<1>6. CASE UNCHANGED echoVars
  <2>1. IInv'
    BY <1>6, NoEffectPreserves DEF echoVars, wasio, vars, table, EchoIInv, IInv, TypeOK
  <2> QED BY <1>6, <2>1
          DEF echoVars, wasio, vars, EchoIInv, EchoTyped, EchoRuns, EchoArmed, EchoCounted, Serves,
              Stale, Connections, Allocated
<1> QED BY <1>1, <1>2, <1>3, <1>4, <1>5, <1>6 DEF EchoNext

\* The inductive invariant of echoserver.c.
THEOREM EchoInvariance == EchoSpec => []EchoIInv
PROOF BY EchoInitEstablishes, EchoStepPreserves, PTL DEF EchoSpec

\* Whoever left a buffer behind in echoserver.c is still counted as a client.
THEOREM StaleBuffersCountedCorrect == EchoSpec => []StaleBuffersCounted
PROOF
<1>1. EchoIInv => StaleBuffersCounted
  <2> SUFFICES ASSUME EchoIInv PROVE StaleBuffersCounted
    OBVIOUS
  <2>1. EchoTypeOK
    BY DEF EchoIInv, IInv, EchoTypeOK
  <2>2. Between => Cardinality(Stale) + Cardinality(Connections) <= nclients
    BY DEF Between, Serves, EchoIInv, EchoCounted
  <2> QED BY <2>1, <2>2, EchoShape DEF StaleBuffersCounted
<1> QED BY <1>1, EchoInvariance, PTL

\* Between events, what a client of echoserver.c waits for is what its buffer
\* calls for.
THEOREM InterestMatchesBufferCorrect == EchoSpec => []InterestMatchesBuffer
PROOF
<1>1. EchoIInv => InterestMatchesBuffer
  BY EchoShape DEF EchoIInv, EchoRuns, EchoArmed, Serves, InterestMatchesBuffer, Between
<1> QED BY <1>1, EchoInvariance, PTL

----------------------------------------------------------------------------
(* waeio.c on the table.                                                    *)

\* The types of what the module's own invariant leaves open, and what they
\* rest on.
WaeioControl ==
  /\ pc # "ended" => up
  /\ how # "not" => Ended
  /\ from \in {"front", "scan"}
  /\ at \in [Fibers -> {"none", "fresh", "accept", "recv", "send", "async", "quit", "finished"}]
  /\ cmd = "ASYNC" => conn # NoFd

\* The scheduler schedules.
Schedules == pc \notin {"cleanup", "finalize", "ended"}

\* The listener has accepted, and goes on to start a handler or to return.
HasConn == cur = Main /\ (pc = "run" \/ (pc = "handle" /\ cmd \in {"ASYNC", "DONE"}))

\* Whose descriptor is whose.  ctl.fibers leads from the descriptor of each
\* live fiber back to it; only the listener works on the socket.  It may cancel
\* everything with a connection in hand, and then others run.
Owners ==
  /\ own[Main] = ServFd /\ fibers[ServFd] = Main /\ ServFd \in Allocated
  /\ \A f \in Fibers : Live(f) => fibers[own[f]] = f
  /\ \A f \in Fibers \ {Main} : /\ Live(f) => own[f] \in Connections \ {conn}
                                /\ at[f] # "none" => own[f] # ServFd
  /\ conn # NoFd => conn \in Connections /\ (at[Main] = "quit" \/ HasConn)

\* Where each fiber is suspended, and what it has asked for.
Places ==
  /\ \A f \in Fibers : /\ at[f] \in {"accept", "async"} => f = Main
                       /\ at[f] \in {"recv", "send"} => f # Main
                       /\ at[f] = "finished" => pc = "handle" /\ cur = f
  /\ pc \in {"run", "accept", "recv", "send"} => Live(cur)
  /\ pc \in {"accept", "recv", "send"} => at[cur] = pc
  /\ pc = "handle" => \/ cmd = "DONE" /\ at[cur] = "finished"
                      \/ cmd \in {"ACCEPT", "SUSPEND"} /\ at[cur] = "accept"
                      \/ cmd = "RECV" /\ at[cur] = "recv"
                      \/ cmd = "SEND" /\ at[cur] = "send"
                      \/ cmd = "ASYNC" /\ at[cur] = "async"
                      \/ cmd = "QUIT" /\ at[cur] = "quit"

\* Each live fiber is held by a queue, by the interest in its descriptor, or by
\* the scheduler.
AwaitsEvent(f) == at[f] \in {"accept", "recv", "send"} /\ vfds[own[f]].events # {}
Held == \A f \in Fibers : Live(f) => Queued(f) \/ AwaitsEvent(f) \/ Busy(f) \/ at[f] = "quit"

\* Nobody is in a queue but the listener, and handlers that have not started,
\* each in one place of one queue; and every connection but the newest has a
\* fiber, until the listener returns and leaves that one behind.
NotStarted == {f \in Fibers \ {Main} : at[f] = "fresh" /\ ~Busy(f)}
OnceEach(q) == \A j, k \in 1 .. Len(q) : q[j] = q[k] => j = k \/ q[j] = Main
Reached ==
  /\ ToSet(frontq) \union ToSet(rearq) \subseteq NotStarted \union {Main}
  /\ OnceEach(frontq) /\ OnceEach(rearq) /\ ToSet(frontq) \intersect ToSet(rearq) \subseteq {Main}
  /\ Live(Main) => \A v \in Connections \ {conn} : /\ fibers[v] \in Fibers /\ Live(fibers[v])
                                                   /\ own[fibers[v]] = v

\* There is memory for a fiber for each descriptor.
EnoughFibers == IsFiniteSet(Fibers) /\ Cardinality(Fibers) >= Capacity

\* As long as nothing undefined was wrong.
WaeioRuns == Owners /\ Places /\ Held /\ (EnoughFibers => Reached)

\* The inductive invariant.
WaeioIInv ==
  /\ IInv /\ WaeioTyped /\ WaeioControl
  /\ lucky /\ Schedules => WaeioRuns
  /\ EnoughFibers => StaleFibersNotResumed

----------------------------------------------------------------------------
\* What is pushed on a queue is in it, besides what was.
LEMMA PushFacts ==
  ASSUME NEW S, NEW q \in Seq(S), NEW x \in S
  PROVE  LET p == <<x>> \o q
         IN  /\ p \in Seq(S) /\ ToSet(p) = ToSet(q) \union {x}
             /\ OnceEach(q) /\ (x \notin ToSet(q) \/ x = Main) => OnceEach(p)
PROOF
<1> DEFINE p == <<x>> \o q
<1>1. /\ p \in Seq(S) /\ Len(p) = Len(q) + 1 /\ Len(q) \in Nat /\ p[1] = x
      /\ \A j \in 1 .. Len(q) : p[j + 1] = q[j]
  OBVIOUS
<1> HIDE DEF p
<1>2. \A j \in 1 .. Len(p) : j # 1 => j - 1 \in 1 .. Len(q) /\ p[j] = q[j - 1]
  <2> SUFFICES ASSUME NEW j \in 1 .. Len(p), j # 1 PROVE j - 1 \in 1 .. Len(q) /\ p[j] = q[j - 1]
    OBVIOUS
  <2>1. j \in Nat /\ j - 1 \in 1 .. Len(q) /\ (j - 1) + 1 = j
    BY <1>1
  <2>2. p[(j - 1) + 1] = q[j - 1]
    BY <1>1, <2>1
  <2> QED BY <2>1, <2>2
<1>3. ToSet(p) = ToSet(q) \union {x}
  <2>1. DOMAIN p = 1 .. Len(p) /\ DOMAIN q = 1 .. Len(q)
    BY <1>1
  <2>2. \A j \in 1 .. Len(q) : j + 1 \in 1 .. Len(p)
    BY <1>1
  <2>3. 1 \in 1 .. Len(p)
    BY <1>1
  <2>4. ASSUME NEW j \in 1 .. Len(p) PROVE p[j] \in ToSet(q) \union {x}
    <3>1. CASE j = 1
      BY <1>1, <3>1
    <3>2. CASE j # 1
      BY <1>2, <2>1, <3>2 DEF ToSet
    <3> QED BY <3>1, <3>2
  <2>5. ASSUME NEW j \in 1 .. Len(q) PROVE q[j] \in ToSet(p)
    <3>1. j + 1 \in DOMAIN p /\ p[j + 1] = q[j]
      BY <1>1, <2>1, <2>2
    <3> QED BY <3>1 DEF ToSet
  <2>6. x \in ToSet(p)
    BY <1>1, <2>1, <2>3 DEF ToSet
  <2>7. ToSet(p) \subseteq ToSet(q) \union {x}
    BY <2>1, <2>4 DEF ToSet
  <2>8. ToSet(q) \subseteq ToSet(p)
    BY <2>1, <2>5 DEF ToSet
  <2> QED BY <2>6, <2>7, <2>8
<1>4. ASSUME OnceEach(q), x \notin ToSet(q) \/ x = Main
      PROVE  OnceEach(p)
  <2>1. \A j \in 1 .. Len(q) : q[j] \in ToSet(q)
    BY DEF ToSet
  <2> SUFFICES ASSUME NEW j \in 1 .. Len(p), NEW k \in 1 .. Len(p), p[j] = p[k], p[j] # Main
               PROVE  j = k
    BY DEF OnceEach
  <2>2. CASE j = 1 \/ k = 1
    BY <1>1, <1>2, <1>4, <2>1, <2>2
  <2>3. CASE j # 1 /\ k # 1
    <3>1. /\ j - 1 \in 1 .. Len(q) /\ k - 1 \in 1 .. Len(q)
          /\ q[j - 1] = q[k - 1] /\ q[j - 1] # Main
      BY <1>2, <2>3
    <3>2. j - 1 = k - 1
      BY <1>4, <3>1 DEF OnceEach
    <3> QED BY <1>1, <3>2
  <2> QED BY <2>2, <2>3
<1> QED BY <1>1, <1>3, <1>4 DEF p

\* Two that are pushed at once.
LEMMA PushTwoFacts ==
  ASSUME NEW S, NEW q \in Seq(S), NEW x \in S, NEW y \in S
  PROVE  LET p == <<x, y>> \o q
         IN  /\ p \in Seq(S) /\ ToSet(p) = ToSet(q) \union {x, y}
             /\ OnceEach(q) /\ y \notin ToSet(q) /\ x = Main => OnceEach(p)
PROOF
<1> DEFINE r == <<y>> \o q
<1>1. <<x, y>> \o q = <<x>> \o r
  <2>1. <<x>> \in Seq(S) /\ <<y>> \in Seq(S)
    OBVIOUS
  <2>2. <<x, y>> = <<x>> \o <<y>>
    <3> DEFINE c == <<x>> \o <<y>>
               d == <<x, y>>
    <3>1. c \in Seq(S) /\ Len(c) = 2 /\ c[1] = x /\ c[2] = y
      BY <2>1
    <3>2. d \in Seq(S) /\ Len(d) = 2 /\ d[1] = x /\ d[2] = y
      OBVIOUS
    <3> HIDE DEF c, d
    <3>3. \A j \in 1 .. Len(d) : d[j] = c[j]
      BY <3>1, <3>2
    <3>4. d = c
      BY <3>1, <3>2, <3>3, SeqEqual
    <3> QED BY <3>4 DEF c, d
  <2> QED BY <2>1, <2>2, ConcatAssociative
<1>2. /\ r \in Seq(S) /\ ToSet(r) = ToSet(q) \union {y}
      /\ OnceEach(q) /\ y \notin ToSet(q) => OnceEach(r)
  BY PushFacts
<1> HIDE DEF r
<1>3. LET p == <<x>> \o r
      IN  /\ p \in Seq(S) /\ ToSet(p) = ToSet(r) \union {x}
          /\ OnceEach(r) /\ (x \notin ToSet(r) \/ x = Main) => OnceEach(p)
  BY <1>2, PushFacts
<1> QED BY <1>1, <1>2, <1>3

\* What is popped from a queue was in it, and is not there any more, unless it
\* is the listener.
LEMMA PopFacts ==
  ASSUME NEW S, NEW q \in Seq(S), q # <<>>
  PROVE  /\ Tail(q) \in Seq(S) /\ Head(q) \in S
         /\ ToSet(q) = ToSet(Tail(q)) \union {Head(q)}
         /\ OnceEach(q) => OnceEach(Tail(q)) /\ (Head(q) \notin ToSet(Tail(q)) \/ Head(q) = Main)
PROOF
<1> DEFINE t == Tail(q)
<1>1. /\ t \in Seq(S) /\ Len(q) = Len(t) + 1 /\ Len(t) \in Nat /\ Head(q) = q[1] /\ Head(q) \in S
      /\ \A j \in 1 .. Len(t) : t[j] = q[j + 1]
  OBVIOUS
<1> HIDE DEF t
<1>2. \A j \in 1 .. Len(q) : j # 1 => j - 1 \in 1 .. Len(t) /\ q[j] = t[j - 1]
  <2> SUFFICES ASSUME NEW j \in 1 .. Len(q), j # 1 PROVE j - 1 \in 1 .. Len(t) /\ q[j] = t[j - 1]
    OBVIOUS
  <2>1. j \in Nat /\ j - 1 \in 1 .. Len(t) /\ (j - 1) + 1 = j
    BY <1>1
  <2>2. t[j - 1] = q[(j - 1) + 1]
    BY <1>1, <2>1
  <2> QED BY <2>1, <2>2
<1>3. /\ DOMAIN t = 1 .. Len(t) /\ DOMAIN q = 1 .. Len(q) /\ 1 \in 1 .. Len(q)
      /\ \A j \in 1 .. Len(t) : j + 1 \in 1 .. Len(q) /\ j + 1 # 1
  BY <1>1
<1>4. ToSet(q) = ToSet(t) \union {q[1]}
  <2>1. ASSUME NEW j \in 1 .. Len(q) PROVE q[j] \in ToSet(t) \union {q[1]}
    <3>1. CASE j # 1
      BY <1>2, <1>3, <3>1 DEF ToSet
    <3> QED BY <3>1
  <2>2. ASSUME NEW j \in 1 .. Len(t) PROVE t[j] \in ToSet(q)
    <3>1. j + 1 \in DOMAIN q /\ q[j + 1] = t[j]
      BY <1>1, <1>3
    <3> QED BY <3>1 DEF ToSet
  <2>3. q[1] \in ToSet(q)
    BY <1>3 DEF ToSet
  <2>4. ToSet(q) \subseteq ToSet(t) \union {q[1]}
    BY <1>3, <2>1 DEF ToSet
  <2>5. ToSet(t) \subseteq ToSet(q)
    BY <1>3, <2>2 DEF ToSet
  <2> QED BY <2>3, <2>4, <2>5
<1>5. ASSUME OnceEach(q)
      PROVE  OnceEach(t) /\ (q[1] \notin ToSet(t) \/ q[1] = Main)
  <2>1. OnceEach(t)
    <3> SUFFICES ASSUME NEW j \in 1 .. Len(t), NEW k \in 1 .. Len(t), t[j] = t[k], t[j] # Main
                 PROVE  j = k
      BY DEF OnceEach
    <3>1. j + 1 \in 1 .. Len(q) /\ k + 1 \in 1 .. Len(q) /\ q[j + 1] = q[k + 1] /\ q[j + 1] # Main
      BY <1>1, <1>3
    <3>2. j + 1 = k + 1
      BY <1>5, <3>1 DEF OnceEach
    <3> QED BY <3>2
  <2>2. ASSUME q[1] \in ToSet(t) PROVE q[1] = Main
    <3>1. PICK j \in 1 .. Len(t) : t[j] = q[1]
      BY <1>3, <2>2 DEF ToSet
    <3>2. j + 1 \in 1 .. Len(q) /\ j + 1 # 1 /\ q[j + 1] = q[1]
      BY <1>1, <1>3, <3>1
    <3> QED BY <1>3, <1>5, <3>2 DEF OnceEach
  <2> QED BY <2>1, <2>2
<1> QED BY <1>1, <1>4, <1>5 DEF t

\* What the steps of the scheduler and of the fibers need of the invariant.
LEMMA WaeioShape ==
  ASSUME WaeioIInv
  PROVE  /\ pc # "ended" => TableInUse /\ how = "not"
         /\ Main \in Fibers /\ Null \notin Fibers /\ Junk \notin Fibers /\ Main # Null
         /\ ServFd \in Vfds /\ NoFd \notin Vfds /\ i \in Nat /\ Fibers \subseteq Nat
         /\ frontq \in Seq(Fibers \union {Null, Junk}) /\ rearq \in Seq(Fibers \union {Null, Junk})
         /\ Allocated \subseteq Vfds /\ ServFd \notin Connections /\ Connections \subseteq Vfds
PROOF
<1>1. ServFd \in Vfds /\ NoFd \notin Vfds /\ i \in Nat
  BY CapacityFacts DEF WaeioIInv, WaeioTyped, ServFd, NoFd
<1> QED BY <1>1, FibersAssumption
        DEF WaeioIInv, WaeioTyped, WaeioControl, TableInUse, Main, Null, Junk, Allocated,
            Connections, Ended

\* Every step is a call into the table, or the scan of its events, or leaves
\* it alone; and nothing disarms a descriptor.
LEMMA WaeioCalls ==
  ASSUME WaeioIInv, WaeioNext
  PROVE  /\ IInv' /\ (pc' # "ended" => up')
         /\ \A u \in Vfds : vfds[u].events # {} => vfds'[u].events # {}
PROOF
<1>1. TableInUse /\ conn \in Vfds \union {NoFd} /\ own[cur] \in Vfds
  BY WaeioShape
  DEF WaeioIInv, WaeioTyped, WaeioNext, RunReady, SwapAndPoll, ResumeReady, EndRound,
      CloseSocket, FinalizeCtl, HandleOk, HandleOther, HandleNoCommand, HandleAsync,
      HandleSuspend, HandleIO, HandleQuit, HandlesYield, Handles, CallIO, AcceptSuspends,
      AcceptConn, TransferData, CallAsync, CancelAll, Return
<1>2. \/ UNCHANGED vars
      \/ Poll
      \/ Finalize /\ pc' = "ended"
      \/ \E v \in Vfds : TakesEvent(v)
      \/ \E v \in Vfds : \/ Accept(v) \/ Transfer(v) \/ Close(v)
                         \/ NotifyRecv(v) \/ NotifySend(v)
  BY <1>1, WaeioShape
  DEF WaeioNext, RunReady, SwapAndPoll, ResumeReady, EndRound, CloseSocket, FinalizeCtl,
      HandleOk, HandleOther, HandleNoCommand, HandleAsync, HandleSuspend, HandleIO, HandleQuit,
      CallIO, AcceptSuspends, AcceptConn, TransferData, CallAsync, CancelAll, Return, wasio, Ends
<1>3. vfds \in [Vfds -> [fd : HostFds \union {NoFd}, events : SUBSET Events,
                         revents : SUBSET Events]]
  BY <1>1, TableShape
<1>4. CASE UNCHANGED vars
  BY <1>1, <1>4, NoEffectPreserves DEF vars, table, TableInUse, IInv, TypeOK
<1>5. CASE Poll
  BY <1>1, <1>3, <1>5, PollPreserves DEF Poll, Fails, table, TableInUse
<1>6. CASE Finalize /\ pc' = "ended"
  BY <1>1, <1>6, FinalizePreserves DEF Finalize, TableInUse
<1>7. ASSUME NEW v \in Vfds, TakesEvent(v)
      PROVE  /\ IInv' /\ up'
             /\ \A u \in Vfds : vfds[u].events # {} => vfds'[u].events # {}
  <2>1. TableInUse' /\ vfds' = [vfds EXCEPT ![v].revents = {}]
    BY <1>1, <1>7, WaeioShape, TakesEventFacts
  <2> QED BY <1>3, <2>1 DEF TableInUse
<1>8. ASSUME NEW v \in Vfds, Accept(v) \/ Transfer(v) \/ Close(v)
                             \/ NotifyRecv(v) \/ NotifySend(v)
      PROVE  /\ IInv' /\ up'
             /\ \A u \in Vfds : vfds[u].events # {} => vfds'[u].events # {}
  <2>1. IInv'
    BY <1>1, <1>8, StepPreserves DEF TableInUse, Next
  <2>2. CASE NotifyRecv(v) \/ NotifySend(v)
    <3>1. PICK flag \in Events, want \in {"recv", "send"} : Notify(v, flag, want)
      BY <2>2 DEF NotifyRecv, NotifySend, pollin, pollout, Events
    <3>2. up' /\ vfds' = [vfds EXCEPT ![v] = [vfds[v] EXCEPT !.fd = fds[v], !.events = @ \union {flag}]]
      BY <3>1 DEF Notify
    <3> QED BY <1>3, <2>1, <3>2
  <2>3. CASE Close(v)
    <3>1. CASE UNCHANGED table
      BY <1>1, <2>1, <3>1 DEF table, TableInUse
    <3>2. CASE vfds' = [vfds EXCEPT ![v].fd = NoFd, ![v].revents = {}] /\ up'
      BY <1>3, <2>1, <3>2
    <3> QED BY <2>3, <3>1, <3>2 DEF Close
  <2>4. CASE Accept(v) \/ Transfer(v)
    <3>1. CASE UNCHANGED table
      BY <1>1, <2>1, <3>1 DEF table, TableInUse
    <3>2. ASSUME NEW h \in HostFds, vfds' = [vfds EXCEPT ![NextEntry(fl)].fd = h], UNCHANGED up
          PROVE  up' /\ \A u \in Vfds : vfds[u].events # {} => vfds'[u].events # {}
      <4> DEFINE e == NextEntry(fl)
      <4>1. vfds' = [vfds EXCEPT ![e].fd = h] /\ up'
        BY <1>1, <3>2 DEF TableInUse
      <4> HIDE DEF e
      <4> QED BY <1>3, <4>1
    <3> QED BY <2>1, <2>4, <3>1, <3>2 DEF Accept, Transfer, Fails, Wrap
  <2> QED BY <1>8, <2>2, <2>3, <2>4
<1> QED BY <1>2, <1>4, <1>5, <1>6, <1>7, <1>8

\* Types, and what never comes back: luck, and a program that is being ended.
LEMMA WaeioTypes ==
  ASSUME WaeioIInv, WaeioNext
  PROVE  /\ WaeioTyped' /\ WaeioControl'
         /\ lucky' => lucky
         /\ Schedules' => Schedules
         /\ how' \in {"dead_fiber", "null_fiber"} => RunReady \/ ResumeReady
PROOF
<1> DEFINE Q == Fibers \union {Null, Junk}
<1>1. /\ pc # "ended" => TableInUse /\ how = "not"
      /\ cur \in Fibers /\ i \in 0 .. Capacity /\ nconns \in 0 .. CountRange - 1
      /\ frontq \in Seq(Q) /\ rearq \in Seq(Q)
      /\ own \in [Fibers -> Vfds] /\ conn \in Vfds \union {NoFd}
      /\ fibers \in [Vfds -> Fibers \union {Null}]
      /\ from \in {"front", "scan"}
      /\ at \in [Fibers -> {"none", "fresh", "accept", "recv", "send", "async", "quit", "finished"}]
      /\ cmd = "ASYNC" => conn # NoFd
      /\ Main \in Fibers /\ NoFd \notin Vfds /\ ServFd \in Vfds
  BY WaeioShape DEF WaeioIInv, WaeioTyped, WaeioControl
<1>2. pc # "ended" /\ (pc' # "ended" => up')
  BY WaeioCalls
  DEF WaeioNext, RunReady, SwapAndPoll, ResumeReady, EndRound, CloseSocket, FinalizeCtl,
      HandleOk, HandleOther, HandleNoCommand, HandleAsync, HandleSuspend, HandleIO, HandleQuit,
      HandlesYield, Handles, CallIO, AcceptSuspends, AcceptConn, TransferData, CallAsync,
      CancelAll, Return
<1>3. CASE RunReady
  <2>1. frontq' \in Seq(Q)
    BY <1>1, <1>3, PopFacts DEF RunReady
  <2> QED BY <1>1, <1>2, <1>3, <2>1
          DEF RunReady, Alive, ResumeFiber, Ends, WaeioTyped, WaeioControl, Schedules, Ended, calls
<1>4. CASE SwapAndPoll
  BY <1>1, <1>2, <1>4, CapacityFacts
  DEF SwapAndPoll, WaeioTyped, WaeioControl, Schedules, Ended, calls
<1>5. CASE ResumeReady
  <2>1. i' \in 0 .. Capacity
    <3>1. PICK v \in Vfds : TakesEvent(v) /\ i' = v + 1
      BY <1>5 DEF ResumeReady
    <3> QED BY <3>1, CapacityFacts
  <2> QED BY <1>1, <1>2, <1>5, <2>1
          DEF ResumeReady, Alive, ResumeFiber, Ends, WaeioTyped, WaeioControl, Schedules, Ended,
              ctlQueues, calls
<1>6. CASE EndRound \/ CloseSocket \/ FinalizeCtl
  BY <1>1, <1>2, <1>6, CapacityFacts
  DEF EndRound, CloseSocket, FinalizeCtl, Ends, WaeioTyped, WaeioControl, Schedules, Ended,
      ctlQueues, calls
<1>7. CASE HandleOk
  <2>1. nconns' \in 0 .. CountRange - 1
    BY <1>1, <1>7, BoundsAssumption DEF HandleOk
  <2> QED BY <1>1, <1>2, <1>7, <2>1
          DEF HandleOk, Handles, Lucky, Back, WaeioTyped, WaeioControl, Schedules, Ended,
              ctlQueues, calls
<1>8. CASE HandleOther \/ HandleNoCommand
  BY <1>1, <1>2, <1>8
  DEF HandleOther, HandleNoCommand, Handles, Lucky, Back, Ends, WaeioTyped, WaeioControl,
      Schedules, Ended, ctlQueues, calls
<1>9. CASE HandleAsync
  <2>1. /\ conn \in Vfds /\ conn' = NoFd /\ Back /\ frontq' = frontq /\ nconns' = nconns
        /\ HandlesYield("ASYNC", TRUE)
    BY <1>1, <1>9 DEF HandleAsync, HandlesYield, Handles
  <2>2. PICK f \in Fibers \union {Null} :
          /\ rearq' = <<cur, f>> \o rearq /\ fibers' = [fibers EXCEPT ![conn] = f]
          /\ \/ UNCHANGED <<at, own>>
             \/ /\ at' = [at EXCEPT ![f] = "fresh"] /\ own' = [own EXCEPT ![f] = conn]
    BY <1>9 DEF HandleAsync
  <2>3. rearq' \in Seq(Q)
    <3>1. f \in Q /\ cur \in Q
      BY <1>1
    <3>2. <<cur, f>> \in Seq(Q)
      BY <3>1
    <3> HIDE DEF Q
    <3> QED BY <1>1, <2>2, <3>2
  <2> QED BY <1>1, <1>2, <2>1, <2>2, <2>3
          DEF HandlesYield, Handles, Lucky, Back, WaeioTyped, WaeioControl, Schedules, Ended
<1>10. CASE HandleSuspend
  <2>1. rearq' \in Seq(Q)
    <3>1. cur \in Q
      BY <1>1
    <3> QED BY <1>1, <1>10, <3>1, PushFacts DEF HandleSuspend
  <2> QED BY <1>1, <1>2, <1>10, <2>1
          DEF HandleSuspend, HandlesYield, Handles, Lucky, Back, Ends, WaeioTyped, WaeioControl,
              Schedules, Ended, calls
<1>11. CASE HandleIO
  BY <1>1, <1>2, <1>11
  DEF HandleIO, HandlesYield, Handles, Lucky, Back, Ends, WaeioTyped, WaeioControl,
      Schedules, Ended, ctlQueues, calls
<1>12. CASE HandleQuit
  BY <1>1, <1>2, <1>12
  DEF HandleQuit, HandlesYield, Handles, Lucky, WaeioTyped, WaeioControl,
      Schedules, Ended, ctlQueues, calls
<1>13. CASE CallIO \/ AcceptSuspends \/ CallAsync \/ CancelAll \/ Return \/ TransferData
  BY <1>1, <1>2, <1>13
  DEF CallIO, AcceptSuspends, CallAsync, CancelAll, Return, TransferData, Yield, GoOn,
      WaeioTyped, WaeioControl, Schedules, Ended, ctlQueues, calls
<1>14. CASE AcceptConn
  <2>1. conn' \in Vfds \union {NoFd} /\ (conn # NoFd => conn' # NoFd)
    <3>1. CASE ret' = "WASIO_OK" /\ conn' = NextEntry(fl)
      <4>1. NextEntry(fl) \in Vfds
        BY <1>1, <1>2, <1>14, <3>1, AcceptGrows DEF AcceptConn
      <4> QED BY <1>1, <3>1, <4>1
    <3> QED BY <1>1, <1>14, <3>1 DEF AcceptConn
  <2> QED BY <1>1, <1>2, <1>14, <2>1
          DEF AcceptConn, Yield, GoOn, WaeioTyped, WaeioControl, Schedules, Ended, ctlQueues
<1> QED BY <1>3, <1>4, <1>5, <1>6, <1>7, <1>8, <1>9, <1>10, <1>11, <1>12, <1>13, <1>14
        DEF WaeioNext

\* A ready fiber is taken from its queue and runs.
LEMMA RunReadyRuns ==
  ASSUME WaeioIInv, WaeioRuns, RunReady, Schedules'
  PROVE  WaeioRuns'
PROOF
<1> DEFINE f == Head(frontq)
<1>1. /\ pc = "front" /\ f \in Fibers /\ at[f] \notin {"none", "finished"}
      /\ cur' = f /\ pc' = IF at[f] \in {"accept", "recv", "send"} THEN at[f] ELSE "run"
      /\ UNCHANGED <<vfds, fds, rearq, fibers, cmd, at, own, conn>>
  BY DEF RunReady, Alive, ResumeFiber, Ends, Schedules, wasio, vars, calls
<1>2. /\ ToSet(frontq) = ToSet(frontq') \union {f}
      /\ OnceEach(frontq) => OnceEach(frontq') /\ (f \notin ToSet(frontq') \/ f = Main)
  BY WaeioShape, PopFacts DEF RunReady
<1> HIDE DEF f
<1>3. Allocated' = Allocated /\ Connections' = Connections
  BY <1>1 DEF Allocated, Connections
<1>4. Owners'
  BY <1>1, <1>3 DEF WaeioRuns, Owners, HasConn, Live
<1>5. Places'
  BY <1>1 DEF WaeioRuns, Places, Live
<1>6. Held'
  BY <1>1, <1>2 DEF WaeioRuns, Held, Live, Queued, AwaitsEvent, Busy
<1>7. ASSUME Reached PROVE Reached'
  <2>1. NotStarted' = NotStarted \ {f}
    BY <1>1 DEF NotStarted, Busy
  <2>2. ToSet(frontq') \union ToSet(rearq') \subseteq NotStarted' \union {Main}
    BY <1>1, <1>2, <1>7, <2>1 DEF Reached
  <2> QED BY <1>1, <1>2, <1>3, <1>7, <2>2 DEF Reached, Live
<1> QED BY <1>4, <1>5, <1>6, <1>7 DEF WaeioRuns, EnoughFibers

\* The queues are swapped, and the scan begins.
LEMMA SwapAndPollRuns ==
  ASSUME WaeioIInv, WaeioRuns, SwapAndPoll, Schedules'
  PROVE  WaeioRuns'
PROOF
<1>1. /\ TableInUse /\ pc = "front" /\ pc' = "scan" /\ frontq' = rearq /\ rearq' = frontq /\ Poll
      /\ UNCHANGED <<cur, fibers, cmd, at, own, conn>>
  BY WaeioShape DEF SwapAndPoll, Schedules, calls
<1>2. Allocated' = Allocated /\ Connections' = Connections
  BY <1>1, CallKeepsBindings DEF Connections
<1>3. \A u \in Vfds : vfds[u].events # {} => vfds'[u].events # {}
  BY WaeioCalls DEF WaeioNext
<1>4. Owners'
  BY <1>1, <1>2 DEF WaeioRuns, Owners, HasConn, Live
<1>5. Places'
  BY <1>1 DEF WaeioRuns, Places, Live
<1>6. Held'
  BY <1>1, <1>3 DEF WaeioRuns, Held, Live, Queued, AwaitsEvent, Busy, WaeioIInv, WaeioTyped
<1>7. Reached => Reached'
  BY <1>1, <1>2 DEF Reached, NotStarted, Busy, Live
<1> QED BY <1>4, <1>5, <1>6, <1>7 DEF WaeioRuns, EnoughFibers

\* An event resumes the fiber of its descriptor, which is in no queue unless it
\* is the listener.
LEMMA ResumeReadyRuns ==
  ASSUME WaeioIInv, WaeioRuns, ResumeReady, Schedules'
  PROVE  WaeioRuns'
PROOF
<1>1. PICK v \in Vfds, f \in Fibers :
        /\ TakesEvent(v) /\ f = fibers[v] /\ at[f] \notin {"none", "finished", "fresh"}
        /\ cur' = f /\ pc' = IF at[f] \in {"accept", "recv", "send"} THEN at[f] ELSE "run"
        /\ pc = "scan" /\ UNCHANGED <<frontq, rearq, fibers, cmd, at, own, conn>>
  BY DEF ResumeReady, Alive, ResumeFiber, Ends, Schedules, ctlQueues, calls
<1>2. Allocated' = Allocated /\ Connections' = Connections
  BY <1>1, WaeioShape, TakesEventFacts
<1>3. \A u \in Vfds : vfds[u].events # {} => vfds'[u].events # {}
  BY WaeioCalls DEF WaeioNext
<1>4. Owners'
  BY <1>1, <1>2 DEF WaeioRuns, Owners, HasConn, Live
<1>5. Places'
  BY <1>1 DEF WaeioRuns, Places, Live
<1>6. Held'
  BY <1>1, <1>3 DEF WaeioRuns, Held, Live, Queued, AwaitsEvent, Busy, WaeioIInv, WaeioTyped
<1>7. Reached => Reached'
  BY <1>1, <1>2 DEF Reached, NotStarted, Busy, Live
<1> QED BY <1>4, <1>5, <1>6, <1>7 DEF WaeioRuns, EnoughFibers

\* The scan ends.
LEMMA EndRoundRuns ==
  ASSUME WaeioIInv, WaeioRuns, EndRound, Schedules'
  PROVE  WaeioRuns'
PROOF
<1>1. /\ pc = "scan" /\ pc' = "front"
      /\ UNCHANGED <<vfds, fds, frontq, rearq, cur, fibers, cmd, at, own, conn>>
  BY DEF EndRound, Schedules, ctlQueues, calls, wasio, vars
<1>2. Allocated' = Allocated /\ Connections' = Connections
  BY <1>1 DEF Allocated, Connections
<1>3. Owners' /\ Places'
  BY <1>1, <1>2 DEF WaeioRuns, Owners, HasConn, Places, Live
<1>4. Held'
  BY <1>1 DEF WaeioRuns, Held, Live, Queued, AwaitsEvent, Busy
<1>5. Reached => Reached'
  BY <1>1, <1>2 DEF Reached, NotStarted, Busy, Live
<1> QED BY <1>3, <1>4, <1>5 DEF WaeioRuns, EnoughFibers

\* A fiber that has returned is freed: nothing of it is left but its descriptor,
\* which it has closed.
LEMMA HandleOkRuns ==
  ASSUME WaeioIInv, WaeioRuns, HandleOk, Schedules, lucky'
  PROVE  WaeioRuns'
PROOF
<1>1. /\ pc = "handle" /\ cmd = "DONE" /\ cur' = cur /\ cmd' = "none" /\ pc' \in {"front", "scan"}
      /\ at' = [at EXCEPT ![cur] = "none"] /\ own' = [own EXCEPT ![cur] = ServFd]
      /\ conn' = IF own[cur] = ServFd THEN NoFd ELSE conn
      /\ UNCHANGED <<vfds, fds, frontq, rearq, fibers>>
  BY DEF HandleOk, Handles, Lucky, Returned, Back, ctlQueues, wasio, vars, IsListener, WaeioIInv,
         WaeioControl
<1>2. Allocated' = Allocated /\ Connections' = Connections
  BY <1>1 DEF Allocated, Connections
<1>3. /\ at[cur] = "finished" /\ (cur = Main => conn' = NoFd)
      /\ conn' # NoFd => conn' = conn /\ cur # Main
  BY <1>1 DEF WaeioRuns, Places, Owners
<1>4. cur \in Fibers /\ \A f \in Fibers : at'[f] = IF f = cur THEN "none" ELSE at[f]
  BY <1>1 DEF WaeioIInv, WaeioTyped, WaeioControl
<1>5. \A f \in Fibers : own'[f] = IF f = cur THEN ServFd ELSE own[f]
  BY <1>1 DEF WaeioIInv, WaeioTyped
<1>6. Owners'
  <2>1. \A f \in Fibers : Live(f)' => f # cur /\ Live(f) /\ own'[f] = own[f]
    BY <1>4, <1>5 DEF Live
  <2>2. \A f \in Fibers \ {Main} : /\ Live(f)' => own'[f] \in Connections \ {conn'}
                                   /\ at'[f] # "none" => own'[f] # ServFd
    BY <1>3, <1>4, <1>5, <2>1, WaeioShape DEF WaeioRuns, Owners
  <2>3. conn' # NoFd => conn' \in Connections /\ at'[Main] = "quit"
    BY <1>1, <1>3, <1>4, WaeioShape DEF WaeioRuns, Owners, HasConn
  <2>4. own'[Main] = ServFd /\ fibers'[ServFd] = Main /\ ServFd \in Allocated'
    BY <1>1, <1>2, <1>5, WaeioShape DEF WaeioRuns, Owners
  <2>5. \A f \in Fibers : Live(f)' => fibers'[own'[f]] = f
    <3>1. \A f \in Fibers : Live(f) => fibers[own[f]] = f
      BY DEF WaeioRuns, Owners
    <3>2. fibers' = fibers
      BY <1>1
    <3> QED BY <2>1, <3>1, <3>2
  <2>6. conn' # NoFd => conn' \in Connections' /\ (at'[Main] = "quit" \/ HasConn')
    BY <1>2, <2>3
  <2>7. \A f \in Fibers \ {Main} : /\ Live(f)' => own'[f] \in Connections' \ {conn'}
                                   /\ at'[f] # "none" => own'[f] # ServFd
    BY <1>2, <2>2
  <2> QED BY <2>4, <2>5, <2>6, <2>7 DEF Owners
<1>7. Places'
  BY <1>1, <1>3, <1>4 DEF WaeioRuns, Places, Live
<1>8. Held'
  BY <1>1, <1>4, <1>5 DEF WaeioRuns, Held, Live, Queued, AwaitsEvent, Busy
<1>9. ASSUME Reached PROVE Reached'
  <2>1. NotStarted' = NotStarted
    BY <1>1, <1>3, <1>4 DEF NotStarted, Busy
  <2>2. Live(Main)' => cur # Main /\ Live(Main) /\ conn' = conn
    BY <1>1, <1>3, <1>4, WaeioShape DEF WaeioRuns, Owners, Live
  <2>3. Live(Main)' => \A v \in Connections \ {conn} :
          fibers[v] \in Fibers /\ Live(fibers[v]) /\ own[fibers[v]] = v /\ fibers[v] # cur
    BY <1>3, <1>9, <2>2 DEF Reached, Live
  <2>4. Live(Main)' => \A v \in Connections \ {conn'} :
          /\ fibers[v] \in Fibers /\ at'[fibers[v]] = at[fibers[v]] /\ own'[fibers[v]] = v
          /\ Live(fibers[v])
    BY <1>4, <1>5, <2>2, <2>3
  <2> QED BY <1>1, <1>2, <1>9, <2>1, <2>4 DEF Reached, Live
<1> QED BY <1>6, <1>7, <1>8, <1>9 DEF WaeioRuns, EnoughFibers

\* What a fiber returned is no command, and nothing is handled for a status
\* that is none, as long as status is the fiber's own.
LEMMA HandledAsItIs ==
  ASSUME WaeioIInv, WaeioRuns, HandleOther \/ HandleNoCommand, Schedules'
  PROVE  ~lucky'
PROOF BY DEF HandleOther, HandleNoCommand, Handles, Lucky, Returned, Ends, Schedules

\* A fiber that suspends is the listener, and is queued.
LEMMA HandleSuspendRuns ==
  ASSUME WaeioIInv, WaeioRuns, HandleSuspend, Schedules'
  PROVE  WaeioRuns'
PROOF
<1>1. /\ pc = "handle" /\ cmd = "SUSPEND" /\ cur' = cur /\ cmd' = "none"
      /\ pc' \in {"front", "scan"} /\ rearq' = <<cur>> \o rearq
      /\ UNCHANGED <<vfds, fds, frontq, fibers, at, own, conn>> /\ cur \in Fibers
  BY DEF HandleSuspend, HandlesYield, Handles, Back, Ends, Schedules, wasio, vars,
         WaeioIInv, WaeioTyped, WaeioControl
<1>2. Allocated' = Allocated /\ Connections' = Connections
  BY <1>1 DEF Allocated, Connections
<1>3. at[cur] = "accept" /\ cur = Main /\ conn = NoFd
  BY <1>1 DEF WaeioRuns, Places, Owners, HasConn
<1>4. ToSet(rearq') = ToSet(rearq) \union {Main} /\ (OnceEach(rearq) => OnceEach(rearq'))
  <2>1. cur \in Fibers \union {Null, Junk}
    BY <1>1
  <2> QED BY <1>1, <1>3, <2>1, WaeioShape, PushFacts
<1>5. Owners'
  BY <1>1, <1>2, <1>3 DEF WaeioRuns, Owners, Live
<1>6. Places'
  BY <1>1, <1>3 DEF WaeioRuns, Places, Live
<1>7. Held'
  BY <1>1, <1>3, <1>4 DEF WaeioRuns, Held, Live, Queued, AwaitsEvent, Busy
<1>8. ASSUME Reached PROVE Reached'
  <2>1. NotStarted' = NotStarted
    BY <1>1, <1>3 DEF NotStarted, Busy
  <2> QED BY <1>1, <1>2, <1>4, <1>8, <2>1 DEF Reached, Live
<1> QED BY <1>5, <1>6, <1>7, <1>8 DEF WaeioRuns, EnoughFibers

\* A fiber that waits for its descriptor is armed there.
LEMMA HandleIORuns ==
  ASSUME WaeioIInv, WaeioRuns, HandleIO, lucky', Schedules'
  PROVE  WaeioRuns'
PROOF
<1>1. /\ pc = "handle" /\ cmd \in {"ACCEPT", "RECV", "SEND"} /\ cur' = cur /\ cmd' = "none"
      /\ pc' \in {"front", "scan"}
      /\ NotifyRecv(own[cur]) \/ NotifySend(own[cur])
      /\ UNCHANGED <<frontq, rearq, fibers, at, own, conn>>
      /\ cur \in Fibers /\ own[cur] \in Vfds
  BY DEF HandleIO, HandlesYield, Handles, Lucky, Back, Ends, Schedules, ctlQueues, calls,
         WaeioIInv, WaeioTyped, WaeioControl
<1>2. TableInUse /\ Allocated' = Allocated /\ Connections' = Connections
  BY <1>1, WaeioShape, CallKeepsBindings DEF Connections
<1>3. \A u \in Vfds : vfds[u].events # {} => vfds'[u].events # {}
  BY WaeioCalls DEF WaeioNext
<1>4. vfds'[own[cur]].events # {}
  <2>1. PICK flag \in Events, want \in {"recv", "send"} : Notify(own[cur], flag, want)
    BY <1>1 DEF NotifyRecv, NotifySend, pollin, pollout, Events
  <2> QED BY <1>1, <1>2, <2>1, TableShape DEF Notify
<1>5. at[cur] \in {"accept", "recv", "send"} /\ (conn # NoFd => at[Main] = "quit")
  BY <1>1 DEF WaeioRuns, Places, Owners, HasConn
<1>6. Owners'
  BY <1>1, <1>2, <1>5 DEF WaeioRuns, Owners, Live
<1>7. Places'
  BY <1>1, <1>5 DEF WaeioRuns, Places, Live
<1>8. Held'
  BY <1>1, <1>3, <1>4, <1>5 DEF WaeioRuns, Held, Live, Queued, AwaitsEvent, Busy, WaeioIInv, WaeioTyped
<1>9. ASSUME Reached PROVE Reached'
  <2>1. NotStarted' = NotStarted
    BY <1>1, <1>5 DEF NotStarted, Busy
  <2> QED BY <1>1, <1>2, <1>9, <2>1 DEF Reached, Live
<1> QED BY <1>6, <1>7, <1>8, <1>9 DEF WaeioRuns, EnoughFibers

\* One that cancels everything is let go.
LEMMA HandleQuitRuns ==
  ASSUME WaeioIInv, WaeioRuns, HandleQuit, Schedules'
  PROVE  WaeioRuns'
PROOF
<1>1. /\ pc = "handle" /\ cmd = "QUIT" /\ cur' = cur /\ cmd' = "none" /\ pc' = "front"
      /\ UNCHANGED <<vfds, fds, frontq, rearq, fibers, at, own, conn>>
  BY DEF HandleQuit, HandlesYield, Handles, Schedules, ctlQueues, calls, wasio, vars
<1>2. Allocated' = Allocated /\ Connections' = Connections
  BY <1>1 DEF Allocated, Connections
<1>3. at[cur] = "quit" /\ (conn # NoFd => at[Main] = "quit")
  BY <1>1 DEF WaeioRuns, Places, Owners, HasConn
<1>4. Owners' /\ Places'
  BY <1>1, <1>2, <1>3 DEF WaeioRuns, Owners, Places, Live
<1>5. Held'
  BY <1>1, <1>3 DEF WaeioRuns, Held, Live, Queued, AwaitsEvent, Busy
<1>6. ASSUME Reached PROVE Reached'
  <2>1. NotStarted' = NotStarted
    BY <1>1, <1>3 DEF NotStarted, Busy
  <2> QED BY <1>1, <1>2, <1>6, <2>1 DEF Reached, Live
<1> QED BY <1>4, <1>5, <1>6 DEF WaeioRuns, EnoughFibers

\* While the listener starts a handler, memory for its fiber is left: the other
\* handlers have a descriptor each, which is neither the listener's nor the
\* newest.
LEMMA MemoryIsLeft ==
  ASSUME WaeioIInv, Owners, Places, EnoughFibers, pc = "handle", cmd = "ASYNC"
  PROVE  \E f \in Fibers : at[f] = "none"
PROOF
<1> SUFFICES ASSUME \A f \in Fibers : at[f] # "none" PROVE FALSE
  OBVIOUS
<1>1. conn \in Connections /\ cur = Main /\ at[Main] = "async"
  BY DEF Owners, Places, WaeioIInv, WaeioControl, WaeioTyped
<1>2. \A f \in Fibers : Live(f)
  BY <1>1 DEF Places, Live
<1>3. \A f \in Fibers : own[f] \in Vfds \ {conn}
  BY <1>1, <1>2, WaeioShape DEF Owners, WaeioIInv, WaeioTyped
<1>4. \A f, g \in Fibers : own[f] = own[g] => f = g
  BY <1>2 DEF Owners
<1>5. [f \in Fibers |-> own[f]] \in Injection(Fibers, Vfds \ {conn})
  BY <1>3, <1>4 DEF Injection, IsInjective
<1>6. IsFiniteSet(Vfds) /\ Cardinality(Vfds) = Capacity
  BY VfdsFinite
<1>7. IsFiniteSet(Vfds \ {conn}) /\ Cardinality(Vfds \ {conn}) = Capacity - 1
  BY <1>1, <1>6, WaeioShape, FS_RemoveElement
<1>8. Cardinality(Fibers) <= Capacity - 1
  BY <1>5, <1>7, FS_Injection
<1>9. Cardinality(Fibers) \in Nat /\ Cardinality(Fibers) >= Capacity
  BY FS_CardinalityType DEF EnoughFibers
<1> QED BY <1>8, <1>9, CapacityFacts

\* The listener starts a handler for the newest connection; the child is queued
\* below its parent.
LEMMA HandleAsyncRuns ==
  ASSUME WaeioIInv, WaeioRuns, HandleAsync
  PROVE  WaeioRuns'
PROOF
<1>1. /\ pc = "handle" /\ cmd = "ASYNC" /\ cur' = cur /\ cmd' = "none" /\ conn' = NoFd
      /\ pc' \in {"front", "scan"} /\ UNCHANGED <<vfds, fds, frontq>>
  BY DEF HandleAsync, HandlesYield, Handles, Back, wasio, vars, WaeioIInv, WaeioControl
<1>2. /\ conn \in Connections /\ conn # NoFd /\ cur = Main /\ at[Main] = "async" /\ conn \in Vfds
      /\ Main \in Fibers /\ conn # ServFd
  BY <1>1, WaeioShape DEF WaeioRuns, Owners, Places, WaeioIInv, WaeioControl, WaeioTyped
<1>3. Allocated' = Allocated /\ Connections' = Connections
  BY <1>1 DEF Allocated, Connections
<1>4. ASSUME NEW f \in Fibers, at[f] = "none",
             at' = [at EXCEPT ![f] = "fresh"], own' = [own EXCEPT ![f] = conn],
             fibers' = [fibers EXCEPT ![conn] = f], rearq' = <<cur, f>> \o rearq
      PROVE  WaeioRuns'
  <2>1. /\ \A g \in Fibers : at'[g] = IF g = f THEN "fresh" ELSE at[g]
        /\ \A g \in Fibers : own'[g] = IF g = f THEN conn ELSE own[g]
        /\ \A v \in Vfds : fibers'[v] = IF v = conn THEN f ELSE fibers[v]
        /\ f # Main
    BY <1>2, <1>4 DEF WaeioIInv, WaeioTyped, WaeioControl
  <2>2. /\ ToSet(rearq') = ToSet(rearq) \union {f, Main}
        /\ OnceEach(rearq) /\ f \notin ToSet(rearq) => OnceEach(rearq')
    <3> DEFINE Q == Fibers \union {Null, Junk}
    <3>1. Main \in Q /\ f \in Q /\ rearq \in Seq(Q)
      BY <1>2, WaeioShape
    <3> HIDE DEF Q
    <3> QED BY <1>2, <1>4, <3>1, PushTwoFacts
  <2>3. Owners'
    <3>1. \A g \in Fibers : Live(g) => fibers'[own[g]] = g /\ own[g] # conn
      BY <1>2, <2>1 DEF WaeioRuns, Owners, WaeioIInv, WaeioTyped
    <3>2. \A g \in Fibers : Live(g)' => g = f \/ Live(g)
      BY <2>1 DEF Live
    <3>3. \A g \in Fibers \ {Main} : /\ Live(g)' => own'[g] \in Connections
                                     /\ at'[g] # "none" => own'[g] # ServFd
      BY <1>2, <2>1, <3>2 DEF WaeioRuns, Owners
    <3>4. conn' \notin Connections
      BY <1>1, WaeioShape
    <3>5. \A g \in Fibers : Live(g)' => fibers'[own'[g]] = g
      BY <1>2, <2>1, <3>1, <3>2
    <3>6. own'[Main] = ServFd /\ fibers'[ServFd] = Main /\ ServFd \in Allocated'
      BY <1>2, <1>3, <2>1, WaeioShape DEF WaeioRuns, Owners
    <3> QED BY <1>1, <1>3, <3>3, <3>4, <3>5, <3>6 DEF Owners
  <2>4. Places'
    BY <1>1, <1>2, <2>1 DEF WaeioRuns, Places, Live
  <2>5. Held'
    BY <1>1, <1>2, <2>1, <2>2 DEF WaeioRuns, Held, Live, Queued, AwaitsEvent, Busy
  <2>6. ASSUME Reached PROVE Reached'
    <3>1. f \notin ToSet(frontq) /\ f \notin ToSet(rearq) /\ f \notin NotStarted
      BY <1>4, <2>1, <2>6 DEF Reached, NotStarted
    <3>2. NotStarted' = NotStarted \union {f}
      BY <1>1, <1>2, <2>1, <3>1 DEF NotStarted, Busy
    <3>3. \A v \in Connections : /\ fibers'[v] \in Fibers /\ own'[fibers'[v]] = v
                                 /\ at'[fibers'[v]] \notin {"none", "finished"}
      <4> SUFFICES ASSUME NEW v \in Connections
                   PROVE  /\ fibers'[v] \in Fibers /\ own'[fibers'[v]] = v
                          /\ at'[fibers'[v]] \notin {"none", "finished"}
        OBVIOUS
      <4>1. v \in Vfds
        BY WaeioShape
      <4>2. CASE v = conn
        BY <2>1, <4>1, <4>2
      <4>3. CASE v # conn
        <5>1. /\ fibers'[v] = fibers[v] /\ fibers[v] \in Fibers /\ Live(fibers[v])
              /\ own[fibers[v]] = v
          BY <1>2, <2>1, <2>6, <4>1, <4>3 DEF Reached, Live
        <5>2. fibers[v] # f
          BY <1>4, <5>1 DEF Live
        <5> QED BY <2>1, <5>1, <5>2 DEF Live
      <4> QED BY <4>2, <4>3
    <3>4. ToSet(frontq) \union ToSet(rearq') \subseteq NotStarted' \union {Main}
      BY <2>2, <2>6, <3>2 DEF Reached
    <3>5. ToSet(frontq) \intersect ToSet(rearq') \subseteq {Main}
      BY <2>2, <2>6, <3>1 DEF Reached
    <3>6. OnceEach(rearq') /\ OnceEach(frontq)
      BY <2>2, <2>6, <3>1 DEF Reached
    <3> QED BY <1>1, <1>3, <3>3, <3>4, <3>5, <3>6 DEF Reached, Live
  <2> QED BY <2>3, <2>4, <2>5, <2>6 DEF WaeioRuns, EnoughFibers
<1>5. ASSUME \A f \in Fibers : at[f] # "none", fibers' = [fibers EXCEPT ![conn] = Null],
             rearq' = <<cur, Null>> \o rearq, UNCHANGED <<at, own>>
      PROVE  WaeioRuns'
  <2>1. ~EnoughFibers
    BY <1>1, <1>2, <1>5, MemoryIsLeft DEF WaeioRuns
  <2>2. \A v \in Vfds : fibers'[v] = IF v = conn THEN Null ELSE fibers[v]
    BY <1>5 DEF WaeioIInv, WaeioTyped
  <2>3. ToSet(rearq') = ToSet(rearq) \union {Main, Null}
    <3> DEFINE Q == Fibers \union {Null, Junk}
    <3>1. Main \in Q /\ Null \in Q /\ rearq \in Seq(Q)
      BY <1>2, WaeioShape
    <3> HIDE DEF Q
    <3> QED BY <1>2, <1>5, <3>1, PushTwoFacts
  <2>4. Owners'
    BY <1>1, <1>2, <1>3, <1>5, <2>2, WaeioShape DEF WaeioRuns, Owners, Live, WaeioIInv, WaeioTyped
  <2>5. Places'
    BY <1>1, <1>2, <1>5 DEF WaeioRuns, Places, Live
  <2>6. Held'
    BY <1>1, <1>2, <1>5, <2>3 DEF WaeioRuns, Held, Live, Queued, AwaitsEvent, Busy
  <2> QED BY <2>1, <2>4, <2>5, <2>6 DEF WaeioRuns, EnoughFibers
<1> QED BY <1>4, <1>5 DEF HandleAsync

\* A fiber yields, or tries its descriptor and goes on or yields again.
LEMMA CallRuns ==
  ASSUME WaeioIInv, WaeioRuns, Schedules,
         CallIO \/ AcceptSuspends \/ TransferData \/ CallAsync \/ CancelAll
  PROVE  WaeioRuns'
PROOF
<1>1. /\ TableInUse /\ pc \in {"run", "accept", "recv", "send"} /\ cur \in Fibers
      /\ UNCHANGED <<frontq, rearq, cur, fibers, own, conn>>
      /\ own[cur] \in Vfds
  BY WaeioShape
  DEF CallIO, AcceptSuspends, TransferData, CallAsync, CancelAll, Yield, GoOn, ctlQueues,
      WaeioIInv, WaeioTyped
<1>2. Allocated' = Allocated /\ Connections' = Connections
  <2>1. CASE UNCHANGED wasio
    BY <2>1 DEF wasio, vars, Allocated, Connections
  <2>2. CASE Transfer(own[cur])
    BY <1>1, <2>2, CallKeepsBindings DEF Connections
  <2> QED BY <2>1, <2>2
          DEF CallIO, AcceptSuspends, TransferData, CallAsync, CancelAll
<1>3. \A u \in Vfds : vfds[u].events # {} => vfds'[u].events # {}
  BY WaeioCalls DEF WaeioNext
<1>4. Live(cur) /\ (cur # Main => own[cur] \in Connections \ {conn}) /\ (cur = Main <=> IsListener)
  BY <1>1, WaeioShape DEF WaeioRuns, Places, Owners, IsListener
<1>5. \/ at' = at /\ pc' = "run" /\ pc \in {"recv", "send"}
      \/ \E place \in {"accept", "recv", "send", "async", "quit"} :
           /\ at' = [at EXCEPT ![cur] = place] /\ pc' = "handle"
           /\ \/ place = "accept" /\ cmd' \in {"ACCEPT", "SUSPEND"} /\ cur = Main /\ conn = NoFd
              \/ place = "recv" /\ cmd' = "RECV" /\ cur # Main
              \/ place = "send" /\ cmd' = "SEND" /\ cur # Main
              \/ place = "async" /\ cmd' = "ASYNC" /\ cur = Main /\ conn # NoFd
              \/ place = "quit" /\ cmd' = "QUIT"
  BY <1>1, <1>4
  DEF CallIO, AcceptSuspends, TransferData, CallAsync, CancelAll, Yield, GoOn, WaeioRuns,
      Places, Owners, HasConn
<1>6. CASE at' = at /\ pc' = "run" /\ pc \in {"recv", "send"}
  <2>1. conn # NoFd => at[Main] = "quit"
    BY <1>6 DEF WaeioRuns, Owners, HasConn
  <2>2. Owners' /\ Places'
    BY <1>1, <1>2, <1>4, <1>6, <2>1 DEF WaeioRuns, Owners, Places, Live
  <2>3. Held'
    BY <1>1, <1>3, <1>6 DEF WaeioRuns, Held, Live, Queued, AwaitsEvent, Busy, WaeioIInv, WaeioTyped
  <2>4. Reached => Reached'
    BY <1>1, <1>2, <1>6 DEF Reached, NotStarted, Busy, Live
  <2> QED BY <2>2, <2>3, <2>4 DEF WaeioRuns, EnoughFibers
<1>7. ASSUME NEW place \in {"accept", "recv", "send", "async", "quit"},
             at' = [at EXCEPT ![cur] = place], pc' = "handle",
             \/ place = "accept" /\ cmd' \in {"ACCEPT", "SUSPEND"} /\ cur = Main /\ conn = NoFd
             \/ place = "recv" /\ cmd' = "RECV" /\ cur # Main
             \/ place = "send" /\ cmd' = "SEND" /\ cur # Main
             \/ place = "async" /\ cmd' = "ASYNC" /\ cur = Main /\ conn # NoFd
             \/ place = "quit" /\ cmd' = "QUIT"
      PROVE  WaeioRuns'
  <2>1. \A f \in Fibers : at'[f] = IF f = cur THEN place ELSE at[f]
    BY <1>7 DEF WaeioIInv, WaeioControl
  <2>2. \A f \in Fibers : Live(f)' <=> Live(f)
    BY <1>4, <2>1 DEF Live
  <2>3. Owners'
    <3>1. \A f \in Fibers : Live(f)' => fibers[own[f]] = f
      BY <2>2 DEF WaeioRuns, Owners
    <3>2. \A f \in Fibers \ {Main} : /\ Live(f)' => own[f] \in Connections \ {conn}
                                     /\ at'[f] # "none" => own[f] # ServFd
      BY <1>4, <2>1, <2>2 DEF WaeioRuns, Owners, Live
    <3>3. conn # NoFd => /\ conn \in Connections
                         /\ at'[Main] = "quit" \/ (cur = Main /\ cmd' = "ASYNC")
      BY <1>7, <2>1, WaeioShape DEF WaeioRuns, Owners, HasConn
    <3> QED BY <1>1, <1>2, <1>7, <3>1, <3>2, <3>3 DEF WaeioRuns, Owners, HasConn
  <2>4. Places'
    BY <1>1, <1>7, <2>1 DEF WaeioRuns, Places, Live
  <2>5. Held'
    BY <1>1, <1>3, <1>7, <2>1
    DEF WaeioRuns, Held, Live, Queued, AwaitsEvent, Busy, WaeioIInv, WaeioTyped
  <2>6. ASSUME Reached PROVE Reached'
    <3>1. NotStarted' = NotStarted
      BY <1>1, <1>7, <2>1 DEF NotStarted, Busy
    <3>2. Live(Main)' => \A v \in Connections \ {conn} :
            /\ fibers[v] \in Fibers /\ own[fibers[v]] = v
            /\ at'[fibers[v]] \notin {"none", "finished"}
      BY <2>1, <2>2, <2>6, WaeioShape DEF Reached, Live
    <3> QED BY <1>1, <1>2, <2>6, <3>1, <3>2 DEF Reached, Live
  <2> QED BY <2>3, <2>4, <2>5, <2>6 DEF WaeioRuns, EnoughFibers
<1> QED BY <1>5, <1>6, <1>7

\* The listener accepts: the newest connection is nobody's yet.
LEMMA AcceptConnRuns ==
  ASSUME WaeioIInv, WaeioRuns, Schedules, AcceptConn
  PROVE  WaeioRuns'
PROOF
<1>1. /\ TableInUse /\ pc = "accept" /\ at[cur] = "accept" /\ cur = Main /\ conn = NoFd
      /\ Accept(ServFd) /\ cur \in Fibers
      /\ UNCHANGED <<frontq, rearq, cur, fibers, own>>
      /\ \/ ret' = "WASIO_OK" /\ conn' = NextEntry(fl) /\ pc' = "run" /\ at' = at
         \/ ret' # "WASIO_OK" /\ conn' = conn
            /\ \/ pc' = "run" /\ at' = at
               \/ pc' = "handle" /\ cmd' = "ACCEPT" /\ at' = [at EXCEPT ![cur] = "accept"]
  BY WaeioShape
  DEF AcceptConn, Yield, GoOn, ctlQueues, WaeioIInv, WaeioTyped, WaeioRuns, Places, Owners,
      HasConn
<1>2. \A u \in Vfds : vfds[u].events # {} => vfds'[u].events # {}
  BY WaeioCalls DEF WaeioNext
<1>3. at' = at
  BY <1>1 DEF WaeioIInv, WaeioControl
<1>4. NotStarted' = NotStarted
  BY <1>1, <1>3 DEF NotStarted, Busy
<1>5. Places'
  BY <1>1, <1>3 DEF WaeioRuns, Places, Live
<1>6. Held'
  BY <1>1, <1>2, <1>3 DEF WaeioRuns, Held, Live, Queued, AwaitsEvent, Busy, WaeioIInv, WaeioTyped
<1>7. CASE ret' = "WASIO_OK" /\ conn' = NextEntry(fl) /\ pc' = "run"
  <2>1. conn' \in Vfds \ Allocated /\ Allocated' = Allocated \union {conn'}
    BY <1>1, <1>7, AcceptGrows
  <2>2. Connections' = Connections \union {conn'} /\ conn' \notin Connections
    BY <2>1 DEF Connections, WaeioRuns, Owners
  <2>3. Owners'
    BY <1>1, <1>3, <1>7, <2>1, <2>2 DEF WaeioRuns, Owners, HasConn, Live
  <2>4. Reached => Reached'
    BY <1>1, <1>3, <1>4, <2>2, WaeioShape DEF Reached, Live
  <2> QED BY <1>5, <1>6, <2>3, <2>4 DEF WaeioRuns, EnoughFibers
<1>8. CASE ret' # "WASIO_OK" /\ conn' = conn
  <2>1. Allocated' = Allocated /\ Connections' = Connections
    <3>1. UNCHANGED table
      BY <1>1, <1>8 DEF Accept, Fails, Wrap
    <3> QED BY <3>1 DEF table, Allocated, Connections
  <2>2. Owners'
    BY <1>1, <1>3, <1>8, <2>1 DEF WaeioRuns, Owners, Live
  <2>3. Reached => Reached'
    BY <1>1, <1>3, <1>4, <1>8, <2>1 DEF Reached, Live
  <2> QED BY <1>5, <1>6, <2>2, <2>3 DEF WaeioRuns, EnoughFibers
<1> QED BY <1>1, <1>7, <1>8

\* A handler closes its descriptor, which is nobody else's, and returns.
LEMMA ReturnRuns ==
  ASSUME WaeioIInv, WaeioRuns, Schedules, Return
  PROVE  WaeioRuns'
PROOF
<1>1. /\ TableInUse /\ pc = "run" /\ pc' = "handle" /\ cmd' = "DONE"
      /\ cur \in Fibers /\ Live(cur)
      /\ UNCHANGED <<frontq, rearq, cur, fibers, own, conn>>
  BY WaeioShape DEF Return, Yield, ctlQueues, WaeioIInv, WaeioTyped, WaeioRuns, Places
<1>2. \A u \in Vfds : vfds[u].events # {} => vfds'[u].events # {}
  BY WaeioCalls DEF WaeioNext
<1>3. \A f \in Fibers : at'[f] = IF f = cur THEN "finished" ELSE at[f]
  BY <1>1 DEF Return, Yield, WaeioIInv, WaeioControl
<1>4. /\ ServFd \in Allocated'
      /\ IF cur = Main THEN Connections' = Connections
                       ELSE Connections' = Connections \ {own[cur]}
  <2>1. CASE IsListener
    <3>1. cur = Main /\ UNCHANGED wasio
      BY <1>1, <2>1, WaeioShape DEF IsListener, Return, WaeioRuns, Owners
    <3> QED BY <3>1 DEF wasio, vars, Allocated, Connections, WaeioRuns, Owners
  <2>2. CASE ~IsListener
    <3>1. cur # Main /\ own[cur] \in Allocated /\ own[cur] # ServFd /\ Close(own[cur])
      BY <1>1, <2>2 DEF IsListener, Return, WaeioRuns, Owners, Connections
    <3>2. Allocated' = Allocated \ {own[cur]}
      BY <1>1, <3>1, CloseShrinks
    <3> QED BY <3>1, <3>2 DEF Connections, WaeioRuns, Owners
  <2> QED BY <2>1, <2>2
<1>5. \A f \in Fibers \ {cur} : Live(f)' => Live(f) /\ own[f] # own[cur]
  BY <1>1, <1>3 DEF WaeioRuns, Owners, Live
<1>6. ~Live(cur)'
  BY <1>1, <1>3 DEF Live
<1>7. Owners'
  <2>1. \A f \in Fibers \ {Main} : /\ Live(f)' => own[f] \in Connections' \ {conn}
                                   /\ at'[f] # "none" => own[f] # ServFd
    BY <1>1, <1>3, <1>4, <1>5, <1>6 DEF WaeioRuns, Owners, Live
  <2>2. \A f \in Fibers : Live(f)' => fibers[own[f]] = f
    BY <1>1, <1>5, <1>6 DEF WaeioRuns, Owners, Live
  <2>3. conn # NoFd => conn \in Connections' /\ (at'[Main] = "quit" \/ cur = Main)
    BY <1>1, <1>3, <1>4, WaeioShape DEF WaeioRuns, Owners, HasConn
  <2> QED BY <1>1, <1>4, <2>1, <2>2, <2>3 DEF WaeioRuns, Owners, HasConn
<1>8. Places'
  BY <1>1, <1>3 DEF WaeioRuns, Places, Live
<1>9. Held'
  BY <1>1, <1>2, <1>3 DEF WaeioRuns, Held, Live, Queued, AwaitsEvent, Busy, WaeioIInv, WaeioTyped
<1>10. ASSUME Reached PROVE Reached'
  <2>1. NotStarted' = NotStarted
    BY <1>1, <1>3 DEF NotStarted, Busy
  <2>2. Live(Main)' => \A v \in Connections' \ {conn} :
          /\ fibers[v] \in Fibers /\ own[fibers[v]] = v
          /\ at'[fibers[v]] \notin {"none", "finished"}
    <3> SUFFICES ASSUME Live(Main)', NEW v \in Connections' \ {conn}
                 PROVE  /\ fibers[v] \in Fibers /\ own[fibers[v]] = v
                        /\ at'[fibers[v]] \notin {"none", "finished"}
      OBVIOUS
    <3>0. Live(Main) /\ cur # Main
      BY <1>3, <1>6, WaeioShape DEF Live
    <3>1. v \in Connections /\ v # conn /\ v # own[cur]
      BY <1>4, <3>0
    <3>2. fibers[v] \in Fibers /\ Live(fibers[v]) /\ own[fibers[v]] = v
      BY <1>10, <3>0, <3>1 DEF Reached
    <3>3. fibers[v] # cur
      BY <3>1, <3>2
    <3> QED BY <1>3, <3>2, <3>3 DEF Live
  <2> QED BY <1>1, <1>10, <2>1, <2>2 DEF Reached, Live
<1> QED BY <1>7, <1>8, <1>9, <1>10 DEF WaeioRuns, EnoughFibers

\* A step of the scheduler that meets a fiber that is gone meets the listener's.
LEMMA OnlyListenerIsStale ==
  ASSUME WaeioIInv, EnoughFibers, RunReady \/ ResumeReady
  PROVE  StaleFibersNotResumed'
PROOF
<1> SUFFICES ASSUME lucky, how' \in {"dead_fiber", "null_fiber"}
             PROVE  at[Main] = "none" \/ (at[Main] = "quit" /\ conn # NoFd)
  BY DEF RunReady, ResumeReady, StaleFibersNotResumed, calls
<1>1. WaeioRuns /\ Reached /\ TableInUse /\ how = "not" /\ pc \in {"front", "scan"}
  BY WaeioShape DEF WaeioIInv, WaeioRuns, Schedules, RunReady, ResumeReady
<1>2. at[Main] # "finished" /\ Main \in Fibers /\ (conn # NoFd => at[Main] = "quit")
  BY <1>1, WaeioShape DEF WaeioRuns, Owners, HasConn, Places
<1>3. CASE RunReady
  <2>1. ~Alive(Head(frontq)) /\ frontq # <<>>
    BY <1>1, <1>3 DEF RunReady, Ends
  <2>2. Head(frontq) \in ToSet(frontq)
    BY <2>1, WaeioShape, PopFacts
  <2>3. Head(frontq) = Main
    BY <1>1, <2>1, <2>2 DEF Reached, NotStarted, Alive
  <2> QED BY <1>2, <2>1, <2>3 DEF Alive
<1>4. CASE ResumeReady
  <2>1. PICK v \in Vfds : TakesEvent(v) /\ ~Alive(fibers[v])
    BY <1>1, <1>4 DEF ResumeReady, Ends
  <2>2. v \in Allocated
    BY <1>1, <2>1, WaeioShape, TakesEventFacts
  <2>3. ~(fibers[v] \in Fibers /\ Live(fibers[v]))
    BY <2>1 DEF Alive, Live
  <2>4. v = ServFd \/ v = conn \/ ~Live(Main)
    BY <1>1, <2>2, <2>3 DEF Reached, Connections
  <2>5. CASE v = ServFd
    <3>1. fibers[v] = Main
      BY <1>1, <2>5 DEF WaeioRuns, Owners
    <3> QED BY <1>2, <2>1, <3>1 DEF Alive
  <2>6. CASE v = conn
    BY <1>2, <2>2, <2>6, WaeioShape
  <2>7. CASE ~Live(Main)
    BY <1>2, <2>7 DEF Live
  <2> QED BY <2>4, <2>5, <2>6, <2>7
<1> QED BY <1>3, <1>4

\* The queues that the heads of waeio_main leave.
LEMMA ShortSequences ==
  ASSUME NEW S, NEW x \in S, NEW y \in S
  PROVE  /\ <<>> \in Seq(S) /\ Len(<<>>) = 0
         /\ <<x>> \in Seq(S) /\ Len(<<x>>) = 1 /\ <<x>>[1] = x
         /\ <<x, y>> \in Seq(S) /\ Len(<<x, y>>) = 2 /\ <<x, y>>[1] = x /\ <<x, y>>[2] = y
PROOF OBVIOUS

\* At first there is the listener, and its fiber is in the front queue.
LEMMA WaeioInitEstablishes == WaeioInit => WaeioIInv
PROOF
<1> SUFFICES ASSUME WaeioInit PROVE WaeioIInv
  OBVIOUS
<1>1. /\ TableInUse /\ Allocated = {ServFd} /\ Connections = {}
      /\ ServFd \in Vfds /\ NoFd \notin Vfds
  BY ListensEstablishes DEF WaeioInit
<1>2. /\ pc = "front" /\ from = "front" /\ i = 0 /\ cur = Main /\ nconns = 1
      /\ frontq \in {<<Main>>, <<Main, Junk>>} /\ rearq \in {<<>>, <<Junk>>}
      /\ fibers = [v \in Vfds |-> IF v = ServFd THEN Main ELSE Null]
      /\ cmd = "SUSPEND" /\ conn = NoFd /\ how = "not"
      /\ at = [f \in Fibers |-> IF f = Main THEN "fresh" ELSE "none"]
      /\ own = [f \in Fibers |-> ServFd]
      /\ lucky = (Junk \notin ToSet(frontq \o rearq))
      /\ Main \in Fibers
  BY FibersAssumption DEF WaeioInit, Main
<1> DEFINE Q == Fibers \union {Null, Junk}
<1>3. /\ frontq \in Seq(Q) /\ frontq[1] = Main
      /\ Len(frontq) = 1 \/ (Len(frontq) = 2 /\ frontq[2] = Junk)
      /\ rearq \in Seq(Q)
      /\ Len(rearq) = 0 \/ (Len(rearq) = 1 /\ rearq[1] = Junk)
  <2>1. Main \in Q /\ Junk \in Q
    BY <1>2
  <2> HIDE DEF Q
  <2>2. /\ <<Main>> \in Seq(Q) /\ Len(<<Main>>) = 1 /\ <<Main>>[1] = Main
        /\ <<Main, Junk>> \in Seq(Q) /\ Len(<<Main, Junk>>) = 2
        /\ <<Main, Junk>>[1] = Main /\ <<Main, Junk>>[2] = Junk
    BY <2>1, ShortSequences
  <2>3. /\ <<>> \in Seq(Q) /\ Len(<<>>) = 0
        /\ <<Junk>> \in Seq(Q) /\ Len(<<Junk>>) = 1 /\ <<Junk>>[1] = Junk
    BY <2>1, ShortSequences
  <2>4. CASE frontq = <<Main>>
    BY <1>2, <2>2, <2>3, <2>4, Zenon
  <2>5. CASE frontq = <<Main, Junk>>
    BY <1>2, <2>2, <2>3, <2>5, Zenon
  <2> QED BY <1>2, <2>4, <2>5
<1>4. WaeioTyped /\ WaeioControl
  BY <1>1, <1>2, <1>3, BoundsAssumption, CapacityFacts
  DEF WaeioTyped, WaeioControl, TableInUse, Main, Ended
<1>5. lucky => Len(frontq) = 1 /\ Len(rearq) = 0
  <2> DEFINE q == frontq \o rearq
  <2> HIDE DEF Q
  <2>0. lucky <=> Junk \notin ToSet(q)
    BY <1>2
  <2>1. /\ q \in Seq(Q) /\ Len(q) = Len(frontq) + Len(rearq)
        /\ \A j \in 1 .. Len(frontq) : q[j] = frontq[j]
        /\ \A j \in 1 .. Len(rearq) : q[Len(frontq) + j] = rearq[j]
    BY <1>3
  <2> HIDE DEF q
  <2>2. ASSUME Len(q) >= 2, q[2] = Junk PROVE Junk \in ToSet(q)
    <3>1. 2 \in DOMAIN q
      BY <2>1, <2>2
    <3> QED BY <2>2, <3>1 DEF ToSet
  <2>3. CASE Len(frontq) = 2
    BY <1>3, <2>0, <2>1, <2>2, <2>3
  <2>4. CASE Len(frontq) = 1 /\ Len(rearq) = 1
    BY <1>3, <2>0, <2>1, <2>2, <2>4
  <2> QED BY <1>3, <2>3, <2>4
<1>6. ASSUME lucky PROVE WaeioRuns
  <2>1. ToSet(frontq) = {Main} /\ ToSet(rearq) = {} /\ OnceEach(frontq) /\ OnceEach(rearq)
    <3>1. 1 .. 1 = {1} /\ 1 .. 0 = {}
      OBVIOUS
    <3>2. 1 .. Len(frontq) = {1} /\ 1 .. Len(rearq) = {}
      BY <1>5, <1>6, <3>1
    <3>3. DOMAIN frontq = 1 .. Len(frontq) /\ DOMAIN rearq = 1 .. Len(rearq)
      BY <1>3
    <3>4. ToSet(frontq) = {Main} /\ ToSet(rearq) = {}
      BY <1>3, <3>2, <3>3, Zenon DEF ToSet
    <3> QED BY <3>2, <3>4, Zenon DEF OnceEach
  <2>2. Owners /\ Places
    BY <1>1, <1>2 DEF Owners, Places, Live
  <2>3. Held
    BY <1>2, <2>1 DEF Held, Live, Queued
  <2>4. Reached
    BY <1>1, <2>1 DEF Reached
  <2> QED BY <2>2, <2>3, <2>4 DEF WaeioRuns
<1> QED BY <1>1, <1>2, <1>4, <1>6 DEF WaeioIInv, TableInUse, StaleFibersNotResumed

\* Every step of the scheduler and of its fibers keeps the invariant.
LEMMA WaeioStepPreserves == WaeioIInv /\ [WaeioNext]_waeioVars => WaeioIInv'
PROOF
<1> SUFFICES ASSUME WaeioIInv, WaeioNext \/ UNCHANGED waeioVars PROVE WaeioIInv'
  OBVIOUS
<1>1. CASE WaeioNext
  <2>1. /\ IInv' /\ WaeioTyped' /\ WaeioControl' /\ (lucky' => lucky) /\ (Schedules' => Schedules)
        /\ how' \in {"dead_fiber", "null_fiber"} => RunReady \/ ResumeReady
    BY <1>1, WaeioCalls, WaeioTypes
  <2>2. ASSUME lucky', Schedules' PROVE WaeioRuns'
    <3>1. WaeioRuns /\ lucky /\ Schedules
      BY <2>1, <2>2 DEF WaeioIInv
    <3>2. ~(CloseSocket \/ FinalizeCtl)
      BY <3>1 DEF CloseSocket, FinalizeCtl, Schedules
    <3> QED BY <1>1, <2>2, <3>1, <3>2, RunReadyRuns, SwapAndPollRuns, ResumeReadyRuns,
               EndRoundRuns, HandleOkRuns, HandledAsItIs, HandleAsyncRuns, HandleSuspendRuns,
               HandleIORuns, HandleQuitRuns, CallRuns, AcceptConnRuns, ReturnRuns
            DEF WaeioNext
  <2>3. EnoughFibers => StaleFibersNotResumed'
    BY <2>1, OnlyListenerIsStale DEF StaleFibersNotResumed
  <2> QED BY <2>1, <2>2, <2>3 DEF WaeioIInv, EnoughFibers
<1>2. CASE UNCHANGED waeioVars
  <2>1. IInv'
    BY <1>2, NoEffectPreserves DEF waeioVars, wasio, vars, table, WaeioIInv, IInv, TypeOK
  <2>2. /\ WaeioTyped' /\ WaeioControl' /\ (lucky' = lucky) /\ (Schedules' <=> Schedules)
        /\ StaleFibersNotResumed => StaleFibersNotResumed'
    BY <1>2 DEF waeioVars, wasio, vars, ctlQueues, calls, WaeioIInv, WaeioTyped, WaeioControl,
                Schedules, StaleFibersNotResumed, Ended
  <2>3. WaeioRuns => WaeioRuns'
    BY <1>2 DEF waeioVars, wasio, vars, ctlQueues, calls, WaeioRuns, Owners, Places, Held, Reached,
                HasConn, Live, Queued, AwaitsEvent, Busy, NotStarted, Connections, Allocated,
                EnoughFibers
  <2> QED BY <2>1, <2>2, <2>3 DEF WaeioIInv, EnoughFibers
<1> QED BY <1>1, <1>2

\* The inductive invariant of waeio.c.
THEOREM WaeioInvariance == WaeioSpec => []WaeioIInv
PROOF BY WaeioInitEstablishes, WaeioStepPreserves, PTL DEF WaeioSpec

\* The descriptors of the table that the scan does not reach, since it stops at
\* their number, have a free one below.
LEMMA PassedOverBehindGap ==
  ASSUME TableInUse, NEW v \in Allocated
  PROVE  v < length \/ \E u \in Vfds \ Allocated : u < v
PROOF
<1> SUFFICES ASSUME \A u \in Vfds : u < v => u \in Allocated
             PROVE  v < length
  OBVIOUS
<1>1. v \in Vfds /\ v \in Nat /\ Capacity \in Nat /\ Vfds = 0 .. Capacity - 1
  BY CapacityFacts DEF Allocated
<1>2. 0 .. v \subseteq Allocated
  <2> SUFFICES ASSUME NEW u \in 0 .. v PROVE u \in Allocated
    OBVIOUS
  <2>1. u \in Vfds /\ (u < v \/ u = v)
    BY <1>1
  <2> QED BY <2>1
<1>3. Cardinality(0 .. v) = v + 1
  <2>1. v \in Int /\ 0 \in Int /\ ~(0 > v) /\ v - 0 + 1 = v + 1
    BY <1>1
  <2>2. Cardinality(0 .. v) = IF 0 > v THEN 0 ELSE v - 0 + 1
    BY <2>1, FS_Interval
  <2> QED BY <2>1, <2>2
<1>4. IsFiniteSet(Allocated) /\ Cardinality(Allocated) \in Nat
  BY AllocatedFinite
<1>5. Cardinality(0 .. v) <= Cardinality(Allocated)
  BY <1>2, <1>4, FS_Subset
<1>6. length = Cardinality(Allocated)
  BY TableShape
<1> QED BY <1>1, <1>3, <1>4, <1>5, <1>6

\* No fiber of waeio.c is ever lost: each is in a queue, or its descriptor is
\* armed and recorded as its own, to be scanned as soon as no lower one is free,
\* or it runs, or it cancelled everything, for as many fibers and descriptors as
\* there are.
THEOREM NoFiberLostCorrect == WaeioSpec => []NoFiberLost
PROOF
<1>1. WaeioIInv => NoFiberLost
  <2> SUFFICES ASSUME WaeioIInv PROVE NoFiberLost
    OBVIOUS
  <2>1. WaeioTypeOK
    BY DEF WaeioIInv, IInv, WaeioTypeOK
  <2> SUFFICES ASSUME lucky, Schedules, NEW f \in Fibers, Live(f)
               PROVE  \/ Queued(f) \/ Busy(f) \/ at[f] = "quit"
                      \/ Awaits(f) /\ (Scanned(own[f]) \/ BehindGap(own[f]))
    BY <2>1 DEF NoFiberLost, Schedules
  <2>2. WaeioRuns /\ TableInUse
    BY WaeioShape DEF WaeioIInv, Schedules
  <2>3. own[f] \in Allocated /\ fibers[own[f]] = f
    BY <2>2 DEF WaeioRuns, Owners, Connections
  <2>4. vfds[own[f]].fd \in open
    BY <2>2, <2>3, TableShape
  <2>5. Scanned(own[f]) \/ BehindGap(own[f])
    BY <2>2, <2>3, PassedOverBehindGap DEF Scanned, BehindGap
  <2> QED BY <2>2, <2>3, <2>4, <2>5 DEF WaeioRuns, Held, AwaitsEvent, Awaits, Armed
<1> QED BY <1>1, WaeioInvariance, PTL

\* With memory for a fiber for each descriptor, no event and no queue leads
\* waeio.c to a fiber that is gone, unless the listener returned, or cancelled
\* everything with a connection in hand.
THEOREM StaleFibersNotResumedCorrect ==
  ASSUME EnoughFibers
  PROVE  WaeioSpec => []StaleFibersNotResumed
PROOF
<1>1. WaeioIInv => StaleFibersNotResumed
  BY DEF WaeioIInv
<1> QED BY <1>1, WaeioInvariance, PTL

\* Between polls waeio.c always does something that brings the next one closer,
\* for as many fibers and descriptors as there are, whatever they call and with
\* any value for what it leaves undefined.
THEOREM RoundsAreBoundedCorrect == WaeioSpec => RoundsAreBounded
PROOF
<1> DEFINE Bounded == pc \notin {"cleanup", "finalize"} /\ pc' \notin {"cleanup", "ended"}
                      /\ Loop' = Loop => ToGo' < ToGo
<1>1. ASSUME WaeioIInv, WaeioNext, pc \notin {"cleanup", "finalize"},
             pc' \notin {"cleanup", "ended"}, Loop' = Loop
      PROVE  ToGo' < ToGo
  <2>1. /\ i \in Nat /\ Capacity \in Nat /\ i <= Capacity /\ Len(frontq) \in Nat
        /\ frontq \in Seq(Fibers \union {Null, Junk}) /\ from \in {"front", "scan"}
    BY <1>1, WaeioShape, CapacityFacts DEF WaeioIInv, WaeioTyped, WaeioControl
  <2>2. CASE RunReady
    <3>1. Len(frontq') = Len(frontq) - 1 /\ Len(frontq) >= 1
      BY <2>1, <2>2 DEF RunReady
    <3>2. pc = "front" /\ Loop = "front" /\ InCall = 0 /\ InCall' \in {2, 3}
      BY <1>1, <2>2 DEF RunReady, ResumeFiber, Ends, Loop, InCall
    <3>3. Loop' = "front" /\ InCall \in Int /\ InCall' \in Int /\ InCall' <= 3
      BY <1>1, <3>2
    <3>4. ToGo = 4 * Len(frontq) /\ ToGo' = 4 * (Len(frontq) - 1) + InCall'
      BY <2>1, <3>1, <3>2, <3>3 DEF ToGo
    <3> QED BY <2>1, <3>3, <3>4
  <2>3. CASE SwapAndPoll
    BY <1>1, <2>3 DEF SwapAndPoll, Loop
  <2>4. CASE ResumeReady
    <3>1. PICK v \in Vfds : TakesEvent(v) /\ i' = v + 1
      BY <2>4 DEF ResumeReady
    <3>2. v \in Nat /\ i <= v /\ v < Capacity
      BY <2>1, <3>1, CapacityFacts DEF TakesEvent, Ready
    <3>3. Loop = "scan" /\ InCall = 0 /\ InCall' \in {2, 3}
      BY <1>1, <2>4 DEF ResumeReady, ResumeFiber, Ends, Loop, InCall
    <3>4. ToGo = 4 * (Capacity - i) /\ ToGo' = 4 * (Capacity - i') + InCall'
      BY <1>1, <2>1, <3>3 DEF ToGo
    <3>5. Capacity - i' = Capacity - v - 1
      BY <2>1, <3>1, <3>2
    <3>6. InCall' \in Int /\ InCall' <= 3
      BY <3>3
    <3>7. ToGo' = 4 * (Capacity - v - 1) + InCall'
      BY <3>4, <3>5
    <3>8. \A c, m, w, k \in Int : m <= w /\ k <= 3 => 4 * (c - w - 1) + k < 4 * (c - m)
      OBVIOUS
    <3>9. Capacity \in Int /\ i \in Int /\ v \in Int
      BY <2>1, <3>2
    <3>10. 4 * (Capacity - v - 1) + InCall' < 4 * (Capacity - i)
      BY <3>2, <3>6, <3>8, <3>9
    <3>11. ToGo = 4 * (Capacity - i)
      BY <3>4
    <3> QED BY <3>7, <3>10, <3>11, Zenon
  <2>5. CASE EndRound
    BY <1>1, <2>5 DEF EndRound, Loop
  <2>6. CASE CloseSocket \/ FinalizeCtl
    BY <1>1, <2>6 DEF CloseSocket, FinalizeCtl
  <2>7. CASE HandleOk \/ HandleOther \/ HandleNoCommand \/ HandleAsync \/ HandleSuspend
              \/ HandleIO \/ HandleQuit
    <3>1. pc = "handle" /\ pc' = from /\ UNCHANGED <<from, i, frontq>>
      BY <1>1, <2>7 DEF HandleOk, HandleOther, HandleNoCommand, HandleAsync, HandleSuspend,
                        HandleIO, HandleQuit, HandlesYield, Handles, Back, Ends, ctlQueues,
                        WaeioIInv, WaeioControl
    <3>2. InCall = 1 /\ InCall' = 0 /\ Loop = from
      BY <2>1, <3>1 DEF InCall, Loop
    <3>3. pc' = from /\ Loop' = from
      BY <3>1, <2>1 DEF Loop
    <3> QED BY <2>1, <3>1, <3>2, <3>3 DEF ToGo
  <2>8. CASE CallIO \/ AcceptSuspends \/ AcceptConn \/ TransferData \/ CallAsync \/ CancelAll
              \/ Return
    <3>1. /\ UNCHANGED <<from, i, frontq>>
          /\ \/ pc \in {"accept", "recv", "send"} /\ pc' \in {"run", "handle"}
             \/ pc = "run" /\ pc' = "handle"
      BY <2>8 DEF CallIO, AcceptSuspends, AcceptConn, TransferData, CallAsync, CancelAll, Return,
                  Yield, GoOn, ctlQueues
    <3>2. InCall' < InCall /\ InCall \in Nat /\ InCall' \in Nat
      BY <3>1 DEF InCall
    <3>3. PICK n \in Int : n = IF Loop = "front" THEN Len(frontq) ELSE Capacity - i
      BY <2>1
    <3>4. ToGo = 4 * n + InCall /\ ToGo' = 4 * n + InCall'
      BY <1>1, <3>1, <3>3 DEF ToGo
    <3> QED BY <3>2, <3>3, <3>4
  <2> QED BY <1>1, <2>2, <2>3, <2>4, <2>5, <2>6, <2>7, <2>8 DEF WaeioNext
<1>2. WaeioIInv /\ [WaeioNext]_waeioVars => [Bounded]_waeioVars
  BY <1>1
<1> QED BY <1>2, WaeioInvariance, PTL DEF WaeioSpec, RoundsAreBounded
----------------------------------------------------------------------------
(* The programs as callers: what they and their scans of the events do with  *)
(* the table's own array never breaks what the table promises.               *)

\* From outside, the table goes on being one.
TableIsKept == [][Table!Next]_(Table!vars)

\* No host descriptor is opened that the table does not get.
NothingIsLost == [][\A h \in HostFds : ~Table!Lose(h)]_(Table!vars)

\* A step of a program that is a call into the table, or the scan of its
\* events, or neither.
CallsTable == [Next]_vars \/ \E v \in Vfds : TakesEvent(v)

\* Such a step is one of a table of descriptors or not seen from outside.
LEMMA ProgramStepMaps ==
  ASSUME IInv, CallsTable
  PROVE  [Table!Next]_(Table!vars)
PROOF
<1>1. ASSUME NEW v \in Vfds, TakesEvent(v) PROVE UNCHANGED Table!vars
  BY <1>1 DEF TakesEvent, Table!vars, Bound, Allocated
<1> QED BY <1>1, StepMaps DEF CallsTable, Table!vars

\* httpserver.c calls with descriptors of the table, the listener's or the
\* running handler's, and clears the events it takes.
LEMMA HttpCallsTable ==
  ASSUME HttpIInv, [HttpNext]_httpVars
  PROVE  CallsTable
PROOF
<1>1. /\ ServFd \in Vfds
      /\ pc \in {"recv", "send"} => cur \in Vfds
  BY CapacityFacts DEF HttpIInv, HttpRuns, ServFd, Connections, Allocated
<1>2. CASE UNCHANGED wasio
  BY <1>2 DEF CallsTable, wasio
<1>3. CASE ~UNCHANGED wasio
  BY <1>1, <1>3
  DEF HttpNext, RunFront, PollIO, ScanNext, SwapQueues, CleanUp, ListenerYields, StartAccept,
      AcceptOne, Accepted, ListenerWaits, Receive, ReceiveLater, ReceiveNothing, Send, SendLater,
      Finished, httpVars, CallsTable, Next
<1> QED BY <1>2, <1>3

\* httpserver.c keeps the table that its queues and its counter stand on, and
\* never accepts a client for which that has no room.
THEOREM HttpKeepsTable == HttpSpec => TableIsKept /\ NothingIsLost
PROOF
<1>1. HttpIInv /\ [HttpNext]_httpVars => [Table!Next]_(Table!vars)
  BY HttpCallsTable, ProgramStepMaps DEF HttpIInv, TableInUse
<1>2. HttpIInv /\ HttpIInv' /\ [HttpNext]_httpVars
        => [\A h \in HostFds : ~Table!Lose(h)]_(Table!vars)
  <2> SUFFICES ASSUME HttpIInv, HttpIInv', [HttpNext]_httpVars, NEW h \in HostFds, Table!Lose(h)
               PROVE  FALSE
    OBVIOUS
  <2>1. h \notin open /\ open' = open \union {h} /\ up /\ up' /\ Bound' = Bound
    BY DEF Table!Lose
  <2>2. Allocated' = Allocated /\ \A v \in Allocated : fds'[v] = fds[v]
    <3>1. /\ Bound = [v \in Allocated |-> fds[v]]
          /\ Bound' = [v \in Allocated' |-> fds'[v]]
      BY <2>1 DEF Bound
    <3> QED BY <2>1, <3>1
  <2>3. pc # "ended"
    BY <2>1 DEF HttpNext, RunFront, PollIO, ScanNext, SwapQueues, CleanUp, ListenerYields,
                StartAccept, AcceptOne, Accepted, ListenerWaits, Receive, ReceiveLater,
                ReceiveNothing, Send, SendLater, Finished, httpVars, wasio, vars
  <2>4. OpenIsKnown /\ ~OpenIsKnown'
    BY <2>1, <2>2, <2>3 DEF HttpIInv, HttpCounted, OpenIsKnown
  <2>5. pc' = "ended"
    BY <2>4 DEF HttpIInv, HttpCounted
  <2>6. UNCHANGED open \/ open' \subseteq open
    BY <2>3, <2>5
    DEF HttpNext, RunFront, PollIO, ScanNext, SwapQueues, CleanUp, ListenerYields, StartAccept,
        AcceptOne, Accepted, ListenerWaits, Receive, ReceiveLater, ReceiveNothing, Send,
        SendLater, Finished, httpVars, Poll, TakesEvent, Close, NotifyRecv, NotifySend, Notify,
        Resume, Waits, BackToMain, GoesTo, Ends, Fail, wasio, vars, Fails, Transfer
  <2> QED BY <2>1, <2>6
<1> QED BY <1>1, <1>2, HttpInvariance, PTL DEF HttpSpec, TableIsKept, NothingIsLost

\* echoserver.c, too, calls with descriptors of the table, whatever it takes for
\* one in its clean-up.
LEMMA EchoCallsTable ==
  ASSUME EchoIInv, [EchoNext]_echoVars
  PROVE  CallsTable
PROOF
<1>1. /\ ServFd \in Vfds
      /\ pc \in {"recv", "send", "partial", "close", "rest", "sent"} => cur \in Vfds
      /\ pc = "accepted" => conn \in Vfds
  BY CapacityFacts DEF EchoIInv, EchoRuns, Serves, ServFd, Connections, Allocated
<1>2. CASE UNCHANGED wasio
  BY <1>2 DEF CallsTable, wasio
<1>3. CASE ~UNCHANGED wasio
  BY <1>1, <1>3
  DEF EchoNext, PollEvents, HandleEvent, ScanDone, AcceptClient, RegisterClient, ReceiveData,
      Echo, SendPartial, CloseEchoed, SendRest, CloseSent, CloseNext, AllClosed, CloseListener,
      FinalizeTable, echoVars, CallsTable, Next
<1> QED BY <1>2, <1>3

\* echoserver.c keeps the table, its closes past the clients it has included.
THEOREM EchoKeepsTable == EchoSpec => TableIsKept
PROOF
<1>1. EchoIInv /\ [EchoNext]_echoVars => [Table!Next]_(Table!vars)
  BY EchoCallsTable, ProgramStepMaps DEF EchoIInv
<1> QED BY <1>1, EchoInvariance, PTL DEF EchoSpec, TableIsKept

\* So do the steps of waeio.c, with undefined values for its descriptors as long
\* as these lie in the table.
LEMMA WaeioCallsTable ==
  ASSUME WaeioIInv, [WaeioNext]_waeioVars
  PROVE  CallsTable
PROOF
<1>1. ServFd \in Vfds /\ own[cur] \in Vfds
  BY CapacityFacts DEF WaeioIInv, WaeioTyped, ServFd
<1>2. CASE UNCHANGED wasio
  BY <1>2 DEF CallsTable, wasio
<1>3. CASE ~UNCHANGED wasio
  BY <1>1, <1>3
  DEF WaeioNext, RunReady, SwapAndPoll, ResumeReady, EndRound, CloseSocket, FinalizeCtl,
      HandleOk, HandleOther, HandleNoCommand, HandleAsync, HandleSuspend, HandleIO, HandleQuit,
      CallIO, AcceptSuspends, AcceptConn, TransferData, CallAsync, CancelAll, Return,
      waeioVars, CallsTable, Next
<1> QED BY <1>2, <1>3

\* waeio.c keeps the table as long as it writes into it, whatever its fibers do
\* and in whichever order: each undefined value is any, and a descriptor of the
\* table that was not meant does no harm to it.  One past the table is written
\* through nobody knows where, and there the program ends.
THEOREM WaeioKeepsTable == WaeioSpec => TableIsKept
PROOF
<1>1. WaeioIInv /\ [WaeioNext]_waeioVars => [Table!Next]_(Table!vars)
  BY WaeioCallsTable, ProgramStepMaps DEF WaeioIInv
<1> QED BY <1>1, WaeioInvariance, PTL DEF WaeioSpec, TableIsKept

----------------------------------------------------------------------------
(* The programs as servers: what their clients see.                         *)

\* The fibers of httpserver.c that run or are to be run, and NoFd.
HttpPending == ToSet(rear) \union {cur, conn}
                 \union (IF loop = "front" THEN ToSet(SubSeq(front, i + 1, Len(front))) ELSE {})

\* What is left of a queue.
LEMMA RestFacts ==
  ASSUME NEW S, NEW q \in Seq(S), NEW k \in Nat
  PROVE  /\ ToSet(q) = {q[j] : j \in 1 .. Len(q)}
         /\ ToSet(SubSeq(q, k + 1, Len(q))) = {q[j] : j \in k + 1 .. Len(q)}
PROOF
<1>1. ToSet(q) = {q[j] : j \in 1 .. Len(q)}
  BY DEF ToSet
<1> DEFINE r == SubSeq(q, k + 1, Len(q))
           n == IF k + 1 <= Len(q) THEN Len(q) - k ELSE 0
<1>2. Len(q) \in Nat /\ n \in Nat
  OBVIOUS
<1>3. DOMAIN r = 1 .. n /\ \A j \in 1 .. n : r[j] = q[k + j]
  BY <1>2, SubSeqProperties
<1>4. ToSet(r) = {r[j] : j \in 1 .. n}
  BY <1>3 DEF ToSet
<1> HIDE DEF r
<1>5. ASSUME NEW j \in k + 1 .. Len(q) PROVE j - k \in 1 .. n /\ q[j] = r[j - k]
  <2>1. j - k \in 1 .. n /\ k + (j - k) = j
    BY <1>2
  <2> QED BY <1>3, <2>1
<1>6. ASSUME NEW j \in 1 .. n PROVE k + j \in k + 1 .. Len(q)
  BY <1>2
<1>7. {r[j] : j \in 1 .. n} = {q[j] : j \in k + 1 .. Len(q)}
  <2>1. ASSUME NEW x \in {r[j] : j \in 1 .. n} PROVE x \in {q[j] : j \in k + 1 .. Len(q)}
    BY <1>3, <1>6
  <2>2. ASSUME NEW x \in {q[j] : j \in k + 1 .. Len(q)} PROVE x \in {r[j] : j \in 1 .. n}
    BY <1>5
  <2> QED BY <2>1, <2>2
<1> QED BY <1>1, <1>4, <1>7 DEF r

\* As long as no connection comes or goes and the server does not end, a step
\* that makes no other handler pending is one that forgets some, or none.
LEMMA HttpForgets ==
  ASSUME Connections' = Connections, HttpPending' \intersect Connections \subseteq HttpPending,
         HttpEnding' = HttpEnding, how' # "returned", how # "returned"
  PROVE  [HttpClients!Next]_(HttpClients!vars)
PROOF
<1>1. /\ Waiting = Connections \ HttpPending /\ Waiting' = Connections \ HttpPending'
      /\ Connections \subseteq Vfds \ {ServFd}
  BY DEF Waiting, HttpPending, Connections, Allocated
<1> DEFINE S == Waiting' \ Waiting
<1>2. /\ S \subseteq Connections \ Waiting
      /\ (Connections \ Waiting)' = (Connections \ Waiting) \ S
      /\ Waiting' = Waiting \union S
  BY <1>1
<1> HIDE DEF S
<1>3. CASE S = {}
  BY <1>2, <1>3 DEF HttpClients!vars
<1>4. CASE S # {}
  <2>1. HttpClients!Forget(S)
    BY <1>2, <1>4 DEF HttpClients!Forget
  <2>2. S \in SUBSET (Vfds \ {ServFd})
    BY <1>1, <1>2
  <2> QED BY <2>1, <2>2 DEF HttpClients!Next
<1> QED BY <1>3, <1>4

\* The steps that accept no connection and close none.
HttpMoves == \/ RunFront \/ PollIO \/ ScanNext \/ SwapQueues \/ CleanUp
             \/ ListenerYields \/ StartAccept \/ Accepted \/ ListenerWaits
             \/ Receive \/ ReceiveLater \/ SendLater

\* None of them makes a handler pending that was not: those in the queues only
\* move, and scan resumes the listener.
LEMMA MovesResumeNone ==
  ASSUME HttpIInv, HttpMoves
  PROVE  Connections' = Connections /\ HttpPending' \intersect Connections \subseteq HttpPending
PROOF
<1>1. /\ front \in Seq(Vfds) /\ rear \in Seq(Vfds) /\ i \in Nat /\ <<>> \in Seq(Vfds)
      /\ cur \in Vfds \union {NoFd}
  BY QueueShape DEF HttpIInv, HttpTyped, MaxClients, Ended
<1>2. ServFd \notin Connections /\ NoFd \notin Connections
  BY TableShape DEF HttpIInv, Connections
<1>3. Connections' = Connections
  <2>1. CASE UNCHANGED wasio
    BY <2>1 DEF wasio, vars, Connections, Allocated
  <2>2. CASE ScanNext
    BY <2>2, QueueShape, TakesEventFacts DEF ScanNext, HttpIInv
  <2>3. CASE PollIO
    BY <2>3, CallKeepsBindings DEF PollIO, HttpIInv, Connections
  <2>4. CASE Accepted \/ ListenerWaits \/ ReceiveLater \/ SendLater \/ Receive
    <3>1. \E v \in Vfds : Transfer(v) \/ NotifyRecv(v) \/ NotifySend(v)
      BY <2>4, QueueShape, TableShape
      DEF HttpIInv, HttpRuns, Connections, Accepted, ListenerWaits, ReceiveLater, SendLater,
          Receive
    <3> QED BY <3>1, CallKeepsBindings DEF HttpIInv, Connections
  <2> QED BY <2>1, <2>2, <2>3, <2>4 DEF HttpMoves, RunFront, SwapQueues, CleanUp,
              ListenerYields, StartAccept
<1>4. HttpPending = {rear[j] : j \in 1 .. Len(rear)} \union {cur, conn}
                      \union (IF loop = "front" THEN {front[j] : j \in i + 1 .. Len(front)} ELSE {})
  <2>1. /\ ToSet(rear) = {rear[j] : j \in 1 .. Len(rear)}
        /\ ToSet(SubSeq(front, i + 1, Len(front))) = {front[j] : j \in i + 1 .. Len(front)}
    <3>1. rear \in Seq(Vfds) /\ front \in Seq(Vfds) /\ i \in Nat /\ 0 \in Nat
      BY <1>1
    <3>2. ToSet(rear) = {rear[j] : j \in 1 .. Len(rear)}
      BY <3>1, RestFacts
    <3>3. ToSet(SubSeq(front, i + 1, Len(front))) = {front[j] : j \in i + 1 .. Len(front)}
      BY <3>1, RestFacts
    <3> QED BY <3>2, <3>3
  <2> QED BY <2>1 DEF HttpPending
<1>5. ASSUME rear' \in Seq(Vfds), front' \in Seq(Vfds), i' \in Nat
      PROVE  HttpPending' =
               {rear'[j] : j \in 1 .. Len(rear')} \union {cur', conn'} \union
               (IF loop' = "front" THEN {front'[j] : j \in i' + 1 .. Len(front')} ELSE {})
  <2>1. /\ ToSet(rear') = {rear'[j] : j \in 1 .. Len(rear')}
        /\ ToSet(SubSeq(front', i' + 1, Len(front'))) = {front'[j] : j \in i' + 1 .. Len(front')}
    <3>1. /\ 0 \in Nat
          /\ ToSet(rear') = {rear'[j] : j \in 1 .. Len(rear')}
      BY <1>5, RestFacts
    <3>2. ToSet(SubSeq(front', i' + 1, Len(front'))) = {front'[j] : j \in i' + 1 .. Len(front')}
      BY <1>5, RestFacts
    <3> QED BY <3>1, <3>2
  <2> QED BY <2>1 DEF HttpPending
<1>6. CASE RunFront
  <2>1. /\ loop = "front" /\ i + 1 \in i + 1 .. Len(front) /\ cur' = front[i + 1]
        /\ i' = i + 1 /\ loop' = "front" /\ UNCHANGED <<front, rear, conn>>
    BY <1>1, <1>6 DEF RunFront, Resume, HttpIInv, HttpRuns, queues, locals
  <2>2. i' + 1 .. Len(front') \subseteq i + 1 .. Len(front) /\ i' \in Nat
    BY <1>1, <2>1
  <2> QED BY <1>1, <1>3, <1>4, <1>5, <2>1, <2>2
<1>7. CASE PollIO \/ ScanNext
  <2>1. /\ UNCHANGED <<front, rear, conn>> /\ cur' \in {cur, NoFd, ServFd} /\ i' \in Nat
        /\ (loop' = loop /\ i' = i) \/ loop' # "front"
    BY <1>1, <1>7, CapacityFacts
    DEF PollIO, ScanNext, Resume, Fail, Ends, HttpIInv, HttpRuns, queues, locals
  <2> QED BY <1>1, <1>2, <1>3, <1>4, <1>5, <2>1
<1>8. CASE SwapQueues
  <2>1. front' = rear /\ rear' = <<>> /\ i' = 0 /\ loop' = "front" /\ UNCHANGED <<cur, conn>>
    BY <1>8 DEF SwapQueues, locals
  <2> QED BY <1>1, <1>3, <1>4, <1>5, <2>1
<1>9. CASE ListenerYields \/ Accepted
  <2>1. /\ UNCHANGED <<front, loop, i>> /\ cur' \in {cur, NoFd} /\ conn' \in {conn, NoFd}
        /\ rear' = rear \/ \E v \in {ServFd, conn} \intersect Vfds : rear' = Append(rear, v)
    BY <1>9, QueueShape, TableShape
    DEF ListenerYields, Accepted, Fail, Ends, BackToMain, GoesTo, PushRear, queues, locals,
        HttpIInv, HttpRuns, Connections
  <2>2. rear' \in Seq(Vfds) /\ \A j \in 1 .. Len(rear') :
          rear'[j] \in {ServFd, conn} \/ (j \in 1 .. Len(rear) /\ rear'[j] = rear[j])
    <3>1. CASE rear' = rear
      BY <1>1, <3>1
    <3>2. ASSUME NEW v \in {ServFd, conn} \intersect Vfds, rear' = Append(rear, v)
          PROVE  <2>2
      <4>1. /\ rear' \in Seq(Vfds) /\ rear'[Len(rear) + 1] = v
            /\ \A j \in 1 .. Len(rear) : rear'[j] = rear[j]
            /\ 1 .. Len(rear') = 1 .. Len(rear) \union {Len(rear) + 1}
        BY <1>1, <3>2, AppendFacts
      <4> QED BY <3>2, <4>1
    <3> QED BY <2>1, <3>1, <3>2
  <2> QED BY <1>1, <1>2, <1>3, <1>4, <1>5, <2>1, <2>2
<1>10. CASE CleanUp \/ StartAccept \/ ListenerWaits \/ Receive \/ ReceiveLater \/ SendLater
  <2>1. UNCHANGED <<front, rear, loop, i, conn>> /\ cur' \in {cur, NoFd}
    BY <1>10 DEF CleanUp, StartAccept, ListenerWaits, Receive, ReceiveLater, SendLater, Waits,
                 BackToMain, Fail, Ends, GoesTo, queues, locals
  <2> QED BY <1>1, <1>2, <1>3, <1>4, <1>5, <2>1
<1> QED BY <1>6, <1>7, <1>8, <1>9, <1>10 DEF HttpMoves

\* Each step of httpserver.c is one of a server of connections, or nothing that
\* a client sees.
LEMMA HttpServesClients ==
  ASSUME HttpIInv, [HttpNext]_httpVars
  PROVE  [HttpClients!Next]_(HttpClients!vars)
PROOF
<1>1. /\ TableInUse /\ Waiting = Connections \ HttpPending /\ Waiting' = Connections' \ HttpPending'
      /\ Connections \subseteq Vfds \ {ServFd} /\ NoFd \notin Connections
  BY TableShape DEF HttpIInv, Waiting, HttpPending, Connections
<1>2. CASE UNCHANGED httpVars
  BY <1>2 DEF httpVars, server, wasio, vars, queues, locals, HttpClients!vars, HttpEnding,
              Waiting, Connections, Allocated
<1>3. ASSUME HttpNext PROVE pc # "ended" /\ how = "not"
  <2>1. pc # "ended"
    BY <1>3 DEF HttpNext, RunFront, PollIO, ScanNext, SwapQueues, CleanUp, ListenerYields,
                StartAccept, AcceptOne, Accepted, ListenerWaits, Receive, ReceiveLater,
                ReceiveNothing, Send, SendLater
  <2> QED BY <2>1 DEF HttpIInv, HttpTyped, Ended
<1>4. CASE HttpMoves
  <2>1. pc # "ended" /\ how = "not"
    BY <1>3, <1>4 DEF HttpMoves, HttpNext
  <2>2. HttpEnding' = HttpEnding /\ how' # "returned"
    <3>1. CASE CleanUp
      BY <3>1, CleanUpLeavesClients DEF HttpEnding, CleanUp
    <3>2. CASE ~CleanUp
      <4>1. pc # "cleanup" /\ pc' # "cleanup"
        BY <1>4, <2>1, <3>2
        DEF HttpMoves, RunFront, PollIO, ScanNext, SwapQueues, ListenerYields, StartAccept,
            Accepted, ListenerWaits, Receive, ReceiveLater, SendLater, Waits, BackToMain, Fail,
            Ends, GoesTo, Resume, HttpIInv, HttpTyped
      <4>2. how' \in {how, "full_queue", "poll", "no_fiber"}
        BY <1>4, <3>2
        DEF HttpMoves, RunFront, PollIO, ScanNext, SwapQueues, ListenerYields, StartAccept,
            Accepted, ListenerWaits, Receive, ReceiveLater, SendLater, Waits, BackToMain, Fail,
            Ends, GoesTo, Resume
      <4> QED BY <2>1, <4>1, <4>2 DEF HttpEnding
    <3> QED BY <3>1, <3>2
  <2> QED BY <1>4, <2>1, <2>2, MovesResumeNone, HttpForgets
<1>5. CASE AcceptOne /\ ret' # "WASIO_OK"
  <2>1. /\ UNCHANGED <<loop, i, cur, conn, front, rear, how>> /\ pc = "accept" /\ pc' = "rest"
    BY <1>5 DEF AcceptOne, queues
  <2>2. Connections' = Connections
    <3>1. /\ Accept(ServFd) /\ ServFd \in Allocated /\ Cardinality(Connections) < Capacity - 1
      <4>1. /\ clients = Cardinality(Connections \ {conn}) /\ conn = NoFd /\ ServFd \in Allocated
            /\ clients < max_accept /\ max_accept \in 0 .. Capacity - 1 /\ clients \in Nat
        BY <1>5, QueueShape DEF AcceptOne, HttpIInv, HttpCounted, HttpRuns, HttpTyped, MaxClients
      <4>2. Connections \ {conn} = Connections
        BY <1>1, <4>1
      <4>3. clients < Capacity - 1
        BY <4>1, QueueShape
      <4> QED BY <1>5, <4>1, <4>2, <4>3 DEF AcceptOne
    <3> QED BY <1>1, <1>5, <3>1, RoomForConn, AcceptKeeps DEF table, Connections, Allocated
  <2>3. HttpPending' = HttpPending
    BY <2>1 DEF HttpPending
  <2> QED BY <1>3, <1>5, <2>1, <2>2, <2>3, HttpForgets DEF HttpEnding, HttpNext
<1>6. CASE AcceptOne /\ ret' = "WASIO_OK"
  <2>1. /\ Accept(ServFd) /\ UNCHANGED <<loop, i, cur, front, rear, how>> /\ conn = NoFd
        /\ pc = "accept" /\ pc' = "accepted" /\ conn' = NextEntry(fl)
        /\ ServFd \in Allocated /\ clients = Cardinality(Connections \ {conn})
        /\ clients < max_accept /\ max_accept \in 0 .. MaxClients /\ clients \in Nat
    BY <1>6, QueueShape DEF AcceptOne, queues, HttpIInv, HttpRuns, HttpCounted, HttpTyped
  <2>2. /\ conn' \in Vfds \ Allocated /\ Allocated' = Allocated \union {conn'}
    BY <1>1, <1>6, <2>1, AcceptGrows
  <2>3. /\ conn' \in Vfds \ {ServFd} /\ conn' \notin Connections
        /\ Connections' = Connections \union {conn'}
    BY <2>1, <2>2 DEF Connections
  <2>4. Waiting' = Waiting /\ Connections' \ Waiting' = (Connections \ Waiting) \union {conn'}
    <3>1. HttpPending' \union {NoFd} = HttpPending \union {conn'}
      BY <2>1 DEF HttpPending
    <3> QED BY <1>1, <2>3, <3>1, TableShape
  <2>5. Cardinality(Connections \ Waiting) < MaxClients
    <3>1. Connections \ {conn} = Connections
      BY <1>1, <2>1
    <3>2. /\ Cardinality(Connections \ Waiting) <= Cardinality(Connections)
          /\ Cardinality(Connections \ Waiting) \in Nat
      BY <1>1, ConnsCounted, FS_Subset, FS_CardinalityType
    <3>3. clients < MaxClients /\ MaxClients \in Int
      BY <2>1, QueueShape DEF MaxClients
    <3>4. clients = Cardinality(Connections) /\ clients \in Nat
      BY <2>1, <3>1
    <3> QED BY <3>2, <3>3, <3>4
  <2>6. ~HttpEnding /\ HttpEnding' = FALSE /\ (how' = "returned") = (how = "returned")
    BY <1>3, <1>6, <2>1 DEF HttpNext, HttpEnding
  <2>7. HttpClients!Accept(conn')
    <3>1. conn' \notin (Connections \ Waiting) \union Waiting
      BY <1>1, <2>3
    <3>2. HttpClients!Cardinality(Connections \ Waiting) = Cardinality(Connections \ Waiting)
      BY DEF HttpClients!Cardinality, Cardinality
    <3> QED BY <2>4, <2>5, <2>6, <3>1, <3>2 DEF HttpClients!Accept
  <2> QED BY <2>3, <2>7 DEF HttpClients!Next
<1>7. CASE ReceiveNothing
  <2>1. /\ pc = "recv" /\ cur \in Connections /\ Close(cur) /\ cur # NoFd
    BY <1>1, <1>7 DEF ReceiveNothing, Finished, HttpIInv, HttpRuns
  <2>2. ret' = "WASIO_OK" /\ Allocated' = Allocated \ {cur}
    BY <1>1, <2>1, CloseShrinks DEF Connections
  <2>3. UNCHANGED <<loop, i, front, rear, conn, how>> /\ cur' = NoFd /\ pc' = loop
    BY <1>7, <2>2 DEF ReceiveNothing, Finished, BackToMain, GoesTo, queues, locals
  <2>4. Connections' = Connections \ {cur}
    BY <2>2 DEF Connections
  <2>5. Waiting' = Waiting /\ Connections' \ Waiting' = (Connections \ Waiting) \ {cur}
    <3>1. HttpPending' \union {cur} = HttpPending \union {NoFd} /\ cur \in HttpPending
      BY <2>3 DEF HttpPending
    <3> QED BY <1>1, <2>1, <2>4, <3>1
  <2>6. ~HttpEnding /\ (how' = "returned") = (how = "returned")
    BY <1>3, <1>7, <2>1, <2>3 DEF HttpNext, HttpEnding
  <2>7. cur \in Connections \ Waiting
    BY <1>1, <2>1 DEF HttpPending
  <2>8. HttpClients!Close(cur)
    BY <2>5, <2>6, <2>7 DEF HttpClients!Close
  <2> QED BY <1>1, <2>1, <2>8 DEF HttpClients!Next
<1>8. CASE Send
  <2>1. /\ pc = "send" /\ pc' \in {"recv", "cleanup"} /\ Transfer(cur) /\ cur \in Vfds
        /\ UNCHANGED <<loop, i, cur, front, rear, conn, how>>
    BY <1>1, <1>8 DEF Send, HttpIInv, HttpRuns, queues, locals
  <2>2. Connections' = Connections
    BY <1>1, <2>1, CallKeepsBindings DEF Connections
  <2>3. HttpPending' = HttpPending /\ how = "not"
    BY <1>3, <1>8, <2>1 DEF HttpPending, HttpNext
  <2>4. CASE pc' = "recv"
    BY <2>1, <2>2, <2>3, <2>4, HttpForgets DEF HttpEnding
  <2>5. CASE pc' = "cleanup"
    <3>1. HttpClients!Finish
      BY <1>1, <2>1, <2>2, <2>3, <2>5 DEF HttpClients!Finish, HttpEnding
    <3> QED BY <3>1 DEF HttpClients!Next
  <2> QED BY <2>1, <2>4, <2>5
<1> QED BY <1>2, <1>4, <1>5, <1>6, <1>7, <1>8 DEF HttpNext, HttpMoves

\* httpserver.c is a server of connections: it accepts one where it has a
\* place for it and a descriptor that no client has, closes one at a time and
\* only those that run, accepts none once it was told to quit, and never takes
\* up again a connection it stopped watching.
THEOREM HttpServesCorrect == HttpSpec => HttpImplementsServer
PROOF
<1>1. HttpInit => HttpClients!Init
  <2> SUFFICES ASSUME HttpInit PROVE HttpClients!Init
    OBVIOUS
  <2>1. Connections = {} /\ pc = "front" /\ how = "not"
    BY ListensEstablishes DEF HttpInit
  <2> QED BY <2>1 DEF HttpClients!Init, HttpEnding, Waiting
<1>2. HttpIInv /\ [HttpNext]_httpVars => [HttpClients!Next]_(HttpClients!vars)
  BY HttpServesClients
<1> QED BY <1>1, <1>2, HttpInvariance, PTL DEF HttpSpec, HttpImplementsServer, HttpClients!Spec

\* echoserver.c has not ended before it ends.
EchoGoesOn == pc # "ended" => how = "not"

LEMMA EchoGoesOnHolds == EchoSpec => []EchoGoesOn
PROOF
<1>1. EchoInit => EchoGoesOn
  BY DEF EchoInit, EchoGoesOn
<1>2. EchoGoesOn /\ [EchoNext]_echoVars => EchoGoesOn'
  BY DEF EchoGoesOn, EchoNext, PollEvents, HandleEvent, ScanDone, AcceptClient, RegisterClient,
         ReceiveData, Echo, SendPartial, CloseEchoed, SendRest, CloseSent, CloseNext, AllClosed,
         CloseListener, FinalizeTable, GoesTo, Ends, echoVars
<1> QED BY <1>1, <1>2, PTL DEF EchoSpec

\* As long as no connection comes or goes, a step is at most the end of
\* accepting.
LEMMA EchoAtMostEnds ==
  ASSUME Connections' = Connections, how' # "returned", how # "returned",
         EchoEnding => EchoEnding'
  PROVE  [EchoClients!Next]_(EchoClients!vars)
PROOF
<1>1. CASE EchoEnding' = EchoEnding
  BY <1>1 DEF EchoClients!vars
<1>2. CASE EchoEnding' # EchoEnding
  <2>1. EchoClients!Finish
    BY <1>2 DEF EchoClients!Finish, EchoEnding
  <2> QED BY <2>1 DEF EchoClients!Next
<1> QED BY <1>1, <1>2

\* A close of an entry takes it out, or changes nothing: then the entry is not
\* in use.
LEMMA EchoCloses ==
  ASSUME TableInUse, NEW v \in Vfds, Close(v)
  PROVE  Allocated' = Allocated \ {v}
PROOF
<1>1. CASE v \in Allocated
  BY <1>1, CloseShrinks
<1>2. CASE v \notin Allocated
  <2>1. vfds[v].fd \notin open
    BY <1>2, TableShape DEF Allocated
  <2>2. UNCHANGED fds
    BY <2>1 DEF Close, table
  <2> QED BY <1>2, <2>2 DEF Allocated
<1> QED BY <1>1, <1>2

\* So a close is one of a client, before and during the clean-up, or is not
\* seen from outside.
LEMMA EchoClosesClient ==
  ASSUME TableInUse, NEW v \in Vfds, Close(v), how = "not", UNCHANGED how,
         EchoEnding' = EchoEnding
  PROVE  [EchoClients!Next]_(EchoClients!vars)
PROOF
<1>1. Connections' = Connections \ {v} /\ Connections \subseteq Vfds \ {ServFd}
  BY EchoCloses, TableShape DEF Connections
<1>2. CASE v \in Connections
  <2>1. EchoClients!Close(v)
    BY <1>1, <1>2 DEF EchoClients!Close
  <2> QED BY <1>1, <1>2, <2>1 DEF EchoClients!Next
<1>3. CASE v \notin Connections
  <2>1. Connections' = Connections
    BY <1>1, <1>3
  <2> QED BY <2>1, EchoAtMostEnds
<1> QED BY <1>2, <1>3

\* Each step of echoserver.c is one of a server of connections, or nothing that
\* a client sees.
LEMMA EchoServesClients ==
  ASSUME EchoIInv, EchoGoesOn, [EchoNext]_echoVars
  PROVE  [EchoClients!Next]_(EchoClients!vars)
PROOF
<1>1. CASE UNCHANGED echoVars
  BY <1>1 DEF echoVars, wasio, vars, EchoClients!vars, EchoEnding, Connections, Allocated
<1>2. ASSUME EchoNext PROVE pc # "ended" /\ how = "not" /\ TableInUse
  <2>1. pc # "ended"
    BY <1>2 DEF EchoNext, PollEvents, HandleEvent, ScanDone, AcceptClient, RegisterClient,
                ReceiveData, Echo, SendPartial, CloseEchoed, SendRest, CloseSent, CloseNext,
                AllClosed, CloseListener, FinalizeTable
  <2> QED BY <2>1, EchoShape DEF EchoGoesOn
<1>3. CASE PollEvents \/ HandleEvent \/ ScanDone \/ AllClosed
  <2>1. Connections' = Connections
    <3>1. CASE PollEvents
      BY <1>2, <3>1, CallKeepsBindings DEF PollEvents, Connections, EchoNext
    <3>2. CASE HandleEvent \/ ScanDone \/ AllClosed
      BY <3>2 DEF HandleEvent, ScanDone, AllClosed, TakesEvent, wasio, vars, Connections, Allocated
    <3> QED BY <1>3, <3>1, <3>2
  <2>2. how = "not" /\ how' = how /\ (EchoEnding => EchoEnding')
    BY <1>2, <1>3 DEF EchoNext, PollEvents, HandleEvent, ScanDone, AllClosed, GoesTo, EchoEnding
  <2> QED BY <2>1, <2>2, EchoAtMostEnds
<1>4. CASE RegisterClient \/ ReceiveData \/ Echo \/ SendPartial \/ SendRest
  <2>1. Connections' = Connections
    <3>1. /\ pc = "accepted" => conn \in Vfds
          /\ pc \in {"recv", "send", "partial", "close", "rest", "sent"} => cur \in Vfds
      BY EchoShape DEF EchoIInv, EchoRuns, Serves, Connections
    <3>2. \E v \in Vfds : Transfer(v) \/ NotifyRecv(v) \/ NotifySend(v)
      BY <1>4, <3>1 DEF RegisterClient, ReceiveData, Echo, SendPartial, SendRest
    <3> QED BY <1>2, <1>4, <3>2, CallKeepsBindings DEF Connections, EchoNext
  <2>2. how = "not" /\ how' \in {how, "abort"} /\ ~EchoEnding
    BY <1>2, <1>4 DEF EchoNext, RegisterClient, ReceiveData, Echo, SendPartial, SendRest, GoesTo,
                      Ends, EchoEnding
  <2> QED BY <2>1, <2>2, EchoAtMostEnds
<1>5. CASE AcceptClient /\ ret' # "WASIO_OK"
  <2>1. UNCHANGED fds
    BY <1>5 DEF AcceptClient, Accept, Fails, Wrap, table
  <2>2. Connections' = Connections
    BY <2>1 DEF Connections, Allocated
  <2>3. how = "not" /\ how' = "abort" /\ ~EchoEnding
    BY <1>2, <1>5 DEF EchoNext, AcceptClient, Ends, EchoEnding
  <2> QED BY <2>2, <2>3, EchoAtMostEnds
<1>6. CASE AcceptClient /\ ret' = "WASIO_OK"
  <2>1. /\ TableInUse /\ ServFd \in Allocated /\ Accept(ServFd) /\ how = "not" /\ UNCHANGED how
        /\ pc = "accept" /\ pc' = "accepted" /\ conn' = NextEntry(fl)
    BY <1>2, <1>6, EchoShape DEF EchoNext, AcceptClient, GoesTo, Serves
  <2>2. conn' \in Vfds \ Allocated /\ Allocated' = Allocated \union {conn'}
    BY <1>6, <2>1, AcceptGrows
  <2>3. /\ conn' \in Vfds \ {ServFd} /\ conn' \notin Connections
        /\ Connections' = Connections \union {conn'}
    BY <2>1, <2>2 DEF Connections
  <2>4. Cardinality(Connections) < Capacity - 1
    <3>5. IsFiniteSet(Vfds) /\ Cardinality(Vfds) = Capacity
      BY VfdsFinite
    <3>6. Allocated' \subseteq Vfds
      BY DEF Allocated
    <3>1. Cardinality(Allocated') <= Cardinality(Vfds)
      BY <3>5, <3>6, FS_Subset
    <3>2. Cardinality(Vfds) = Capacity
      BY <3>5
    <3>3. Cardinality(Allocated') = Cardinality(Allocated) + 1
      BY <2>1, <2>2, AllocatedFinite, FS_AddElement
    <3>4. Cardinality(Allocated) = Cardinality(Connections) + 1
      BY <2>1, ConnsCounted, TableShape
    <3> QED BY <2>1, <3>1, <3>2, <3>3, <3>4, ConnsCounted, CapacityFacts
  <2>5. EchoEnding = FALSE /\ EchoEnding' = FALSE
    BY <2>1 DEF EchoEnding
  <2>6. EchoClients!Accept(conn')
    <3>1. EchoClients!Cardinality(Connections) = Cardinality(Connections)
      BY DEF EchoClients!Cardinality, Cardinality
    <3> QED BY <2>1, <2>3, <2>4, <2>5, <3>1 DEF EchoClients!Accept
  <2> QED BY <2>3, <2>6 DEF EchoClients!Next
<1>7. CASE CloseEchoed \/ CloseSent
  <2>1. cur \in Vfds /\ Close(cur) /\ UNCHANGED how /\ ~EchoEnding /\ ~EchoEnding'
    BY <1>7, EchoShape DEF CloseEchoed, CloseSent, GoesTo, EchoEnding, EchoIInv, EchoRuns, Serves,
                           Connections
  <2> QED BY <1>2, <1>7, <2>1, EchoClosesClient DEF EchoNext, EchoEnding
<1>8. CASE CloseNext \/ CloseListener
  <2>1. EchoEnding = TRUE /\ EchoEnding' = TRUE
    BY <1>8 DEF CloseNext, CloseListener, GoesTo, Ends, EchoEnding
  <2>2. ASSUME NEW v \in Vfds, Close(v), UNCHANGED how PROVE [EchoClients!Next]_(EchoClients!vars)
    BY <1>2, <1>8, <2>1, <2>2, EchoClosesClient DEF EchoNext
  <2>3. ASSUME UNCHANGED wasio, how' \in {how, "wild_close"}
        PROVE  [EchoClients!Next]_(EchoClients!vars)
    <3>1. Connections' = Connections
      BY <2>3 DEF wasio, vars, Connections, Allocated
    <3> QED BY <1>2, <1>8, <2>1, <2>3, <3>1, EchoAtMostEnds DEF EchoNext
  <2>4. ServFd \in Vfds
    BY CapacityFacts DEF ServFd
  <2> QED BY <1>8, <2>2, <2>3, <2>4 DEF CloseNext, CloseListener, GoesTo, Ends
<1>9. CASE FinalizeTable
  <2>1. Connections' = Connections
    BY <1>9 DEF FinalizeTable, Finalize, Connections, Allocated
  <2>2. EchoEnding = TRUE /\ EchoEnding' = TRUE /\ how = "not" /\ how' = "returned"
    BY <1>2, <1>9 DEF EchoNext, FinalizeTable, Ends, EchoEnding
  <2>3. EchoClients!Stop
    BY <2>1, <2>2 DEF EchoClients!Stop
  <2> QED BY <2>3 DEF EchoClients!Next
<1> QED BY <1>1, <1>3, <1>4, <1>5, <1>6, <1>7, <1>8, <1>9 DEF EchoNext

\* echoserver.c is a server of connections: it accepts one only where the table
\* has a place and with a descriptor that no client has, and its closes, those
\* of the clean-up that take the count for a descriptor included, close one
\* client each or nothing.
THEOREM EchoServesCorrect == EchoSpec => EchoImplementsServer
PROOF
<1>1. EchoInit => EchoClients!Init
  <2> SUFFICES ASSUME EchoInit PROVE EchoClients!Init
    OBVIOUS
  <2>1. Connections = {} /\ pc = "poll" /\ how = "not"
    BY ListensEstablishes DEF EchoInit, pollin, Events
  <2> QED BY <2>1 DEF EchoClients!Init, EchoEnding
<1>2. EchoIInv /\ EchoGoesOn /\ [EchoNext]_echoVars => [EchoClients!Next]_(EchoClients!vars)
  BY EchoServesClients
<1> QED BY <1>1, <1>2, EchoInvariance, EchoGoesOnHolds, PTL
        DEF EchoSpec, EchoImplementsServer, EchoClients!Spec
=============================================================================
