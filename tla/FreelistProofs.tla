--------------------------- MODULE FreelistProofs ---------------------------
(***************************************************************************)
(* Freelist.tla under the discipline of its callers: the inductive          *)
(* invariant, what follows from it, and the refinement of Allocator.tla.    *)
(***************************************************************************)
EXTENDS Freelist, FreelistOpsProofs

\* A freelist that is not NULL has the shape of one.
LEMMA NotNull ==
  ASSUME TypeOK, fl # NoFreelist
  PROVE  IsFreelist(fl) /\ fl.size \in Nat \ {0}
PROOF BY DEF TypeOK, IsFreelist

(* One lemma per action: it preserves the parts of IInv it can disturb.     *)

\* freelist_new establishes the invariant.
LEMMA NewPreserves ==
  ASSUME IInv, NEW n \in Sizes, New(n), SizeIsWhole'
  PROVE  IInv'
PROOF
<1> USE DEF IInv
<1>1. CASE n # 0 /\ Return("OK") /\ fl' = NewFreelist(n) /\ held' = {}
  <2>1. n \in Nat \ {0}
    BY <1>1, SizesAssumption
  <2>2. IsFreelist(fl') /\ BitmapMatches(fl', held')
    BY <1>1, <2>1, NewFreelistFacts
  <2> QED BY <1>1, <2>2 DEF TypeOK, BitmapMatchesHeld, FullIsTruthful, Return, ResultCodes
<1>2. CASE UNCHANGED <<fl, held>> /\ (Return("SIZE_ERR") \/ Return("MEM_ERR"))
  BY <1>2 DEF TypeOK, BitmapMatchesHeld, FullIsTruthful, SizeIsWhole, Return, ResultCodes
<1> QED BY <1>1, <1>2 DEF New

\* freelist_next preserves the invariant, whether it is full or not.
LEMMA NextFreePreserves ==
  ASSUME IInv, NextFree
  PROVE  IInv'
PROOF
<1> USE DEF IInv
<1>0. IsFreelist(fl) /\ BitmapMatches(fl, held)
  BY NotNull DEF NextFree, BitmapMatchesHeld
<1>1. CASE IsFull(fl) /\ Return("FULL") /\ UNCHANGED <<fl, held>>
  <2>1. FullIsTruthful'
    BY <1>0, <1>1, FullFacts DEF FullIsTruthful
  <2> QED BY <1>1, <2>1 DEF TypeOK, BitmapMatchesHeld, SizeIsWhole, Return, ResultCodes
<1>2. CASE /\ ~IsFull(fl)
           /\ fl' = AfterNext(fl)
           /\ held' = held \union {NextEntry(fl)}
           /\ out' = <<"OK", NextEntry(fl)>>
  <2>1. /\ IsFreelist(fl') /\ fl'.size = fl.size /\ NextEntry(fl) \in Nat
        /\ BitmapMatches(fl', held')
    BY <1>0, <1>2, AfterNextFacts
  <2>2. TypeOK' /\ BitmapMatchesHeld'
    BY <1>2, <2>1 DEF TypeOK, BitmapMatchesHeld, ResultCodes
  <2>3. FullIsTruthful' /\ SizeIsWhole'
    BY <1>2, <2>1 DEF FullIsTruthful, SizeIsWhole, NextFree
  <2> QED BY <2>2, <2>3
<1> QED BY <1>1, <1>2 DEF NextFree

\* freelist_reclaim preserves the invariant, also for an entry nobody holds.
LEMMA ReclaimPreserves ==
  ASSUME IInv, NEW entry \in Entries, Reclaim(entry)
  PROVE  IInv'
PROOF
<1> USE DEF IInv
<1>1. CASE Return("OB_ENTRY") /\ UNCHANGED <<fl, held>>
  BY <1>1 DEF TypeOK, BitmapMatchesHeld, FullIsTruthful, SizeIsWhole, Return, ResultCodes
<1>2. CASE /\ entry < fl.size
           /\ fl' = AfterReclaim(fl, entry)
           /\ held' = held \ {entry}
           /\ Return("OK")
  <2>1. IsFreelist(fl) /\ BitmapMatches(fl, held) /\ entry \in 0 .. fl.size - 1
    BY <1>2, NotNull, EntriesAssumption DEF Reclaim, BitmapMatchesHeld
  <2>2. IsFreelist(fl') /\ fl'.size = fl.size /\ BitmapMatches(fl', held')
    BY <1>2, <2>1, AfterReclaimFacts
  <2>3. TypeOK' /\ BitmapMatchesHeld'
    BY <1>2, <2>2 DEF TypeOK, BitmapMatchesHeld, Return, ResultCodes
  <2>4. FullIsTruthful' /\ SizeIsWhole'
    BY <1>2, <2>2 DEF FullIsTruthful, SizeIsWhole, Return, Reclaim
  <2> QED BY <2>3, <2>4
<1> QED BY <1>1, <1>2 DEF Reclaim

\* freelist_resize preserves the invariant as long as it adds no word.
LEMMA ResizePreserves ==
  ASSUME IInv, NEW n \in Sizes, Resize(n), SizeIsWhole', fl'.len <= fl.len
  PROVE  IInv'
PROOF
<1> USE DEF IInv
<1>1. CASE n # 0 /\ Return("OK") /\ fl' \in ResizedFreelists(fl, n) /\ UNCHANGED held
  <2>1. IsFreelist(fl) /\ BitmapMatches(fl, held) /\ n \in Nat \ {0}
    BY <1>1, NotNull, SizesAssumption DEF Resize, BitmapMatchesHeld
  <2>2. IsFreelist(fl') /\ BitmapMatches(fl', held)
    BY <1>1, <2>1, ResizedFacts
  <2> QED BY <1>1, <2>2 DEF TypeOK, BitmapMatchesHeld, FullIsTruthful, Return, ResultCodes
<1>2. CASE Return("SIZE_ERR") /\ UNCHANGED <<fl, held>>
  BY <1>2 DEF TypeOK, BitmapMatchesHeld, FullIsTruthful, SizeIsWhole, Return, ResultCodes
<1>3. CASE Return("MEM_ERR") /\ fl' = NoFreelist /\ held' = {}
  BY <1>3 DEF TypeOK, BitmapMatchesHeld, BitmapMatches, FullIsTruthful, SizeIsWhole,
              Return, ResultCodes, NoFreelist
<1> QED BY <1>1, <1>2, <1>3 DEF Resize

\* freelist_delete leaves no freelist and no holder.
LEMMA DeletePreserves ==
  ASSUME IInv, Delete
  PROVE  IInv'
PROOF BY DEF IInv, Delete, TypeOK, BitmapMatchesHeld, BitmapMatches, FullIsTruthful,
             SizeIsWhole, Return, ResultCodes, NoFreelist

----------------------------------------------------------------------------
\* Before any call there is no freelist and the invariant holds.
LEMMA InitEstablishes == Init => IInv
PROOF BY DEF Init, IInv, TypeOK, BitmapMatchesHeld, BitmapMatches, FullIsTruthful, SizeIsWhole,
             NoFreelist, ResultCodes

\* Every step of a disciplined caller preserves the invariant.
LEMMA StepPreserves == IInv /\ [DisciplinedNext]_vars => IInv'
PROOF
<1> SUFFICES ASSUME IInv, [DisciplinedNext]_vars PROVE IInv'
  OBVIOUS
<1>1. CASE UNCHANGED vars
  BY <1>1 DEF vars, IInv, TypeOK, BitmapMatchesHeld, FullIsTruthful, SizeIsWhole
<1>2. CASE DisciplinedNext
  <2>1. SizeIsWhole' /\ (fl # NoFreelist => fl'.len <= fl.len)
    BY <1>2 DEF DisciplinedNext, SizeIsWhole
  <2>2. ASSUME NEW n \in Sizes, New(n) PROVE IInv'
    BY <2>1, <2>2, NewPreserves
  <2>3. ASSUME NEW n \in Sizes, Resize(n) PROVE IInv'
    <3>1. fl # NoFreelist BY <2>3 DEF Resize
    <3> QED BY <2>1, <2>3, <3>1, ResizePreserves
  <2>4. CASE NextFree
    BY <2>4, NextFreePreserves
  <2>5. ASSUME NEW entry \in Entries, Reclaim(entry) PROVE IInv'
    BY <2>5, ReclaimPreserves
  <2>6. CASE Delete
    BY <2>6, DeletePreserves
  <2> QED BY <1>2, <2>2, <2>3, <2>4, <2>5, <2>6 DEF DisciplinedNext, Next
<1> QED BY <1>1, <1>2

\* The inductive invariant of freelist.c under the callers' discipline.
THEOREM Invariance == DisciplinedSpec => []IInv
PROOF BY InitEstablishes, StepPreserves, PTL DEF DisciplinedSpec

\* The bitmap of freelist.c always agrees with what the callers hold.
THEOREM BitmapCorrect == DisciplinedSpec => []BitmapMatchesHeld
PROOF
<1>1. IInv => BitmapMatchesHeld BY DEF IInv
<1> QED BY <1>1, Invariance, PTL

\* freelist_next reports FREELIST_FULL only when every entry is held.
THEOREM FullCorrect == DisciplinedSpec => []FullIsTruthful
PROOF
<1>1. IInv => FullIsTruthful BY DEF IInv
<1> QED BY <1>1, Invariance, PTL

\* The next entry that freelist_next hands out has no holder and is below the
\* size, under the callers' discipline.
THEOREM NoDoubleIssueCorrect == DisciplinedSpec => []NoDoubleIssue
PROOF
<1>1. IInv => NoDoubleIssue
  <2> SUFFICES ASSUME IInv, fl # NoFreelist, ~IsFull(fl)
               PROVE  NextEntry(fl) \in 0 .. fl.size - 1 /\ NextEntry(fl) \notin held
    BY DEF NoDoubleIssue
  <2>1. IsFreelist(fl) /\ BitmapMatches(fl, held) /\ WholeSize(fl.size)
    BY NotNull DEF IInv, BitmapMatchesHeld, SizeIsWhole
  <2> QED BY <2>1, NextEntryFacts
<1> QED BY <1>1, Invariance, PTL

\* Under the callers' discipline freelist.c implements the allocator.
THEOREM Refinement == DisciplinedSpec => ImplementsAllocator
PROOF
<1>1. Init => Alloc!Init
  BY DEF Init, Alloc!Init, NoFreelist, NoEntry, Alloc!NoEntry
<1>2. IInv /\ [DisciplinedNext]_vars => [Alloc!Next]_(Alloc!vars)
  <2> SUFFICES ASSUME IInv, DisciplinedNext PROVE Alloc!Next \/ UNCHANGED Alloc!vars
    BY DEF vars, Alloc!vars
  <2> USE DEF IInv
  <2>1. ASSUME NEW n \in Sizes, New(n) PROVE Alloc!Create \/ Alloc!Fail
    <3>1. CASE n # 0 /\ Return("OK") /\ fl' = NewFreelist(n) /\ held' = {}
      BY <2>1, <3>1, SizesAssumption
      DEF New, Return, NewFreelist, NoFreelist, NoEntry, Alloc!Create, Alloc!NoEntry
    <3>2. CASE UNCHANGED <<fl, held>> /\ (Return("SIZE_ERR") \/ Return("MEM_ERR"))
      BY <3>2 DEF Return, Alloc!Fail
    <3> QED BY <2>1, <3>1, <3>2 DEF New
  <2>2. ASSUME NEW n \in Sizes, Resize(n)
        PROVE  Alloc!Resize \/ Alloc!Fail \/ Alloc!Destroy
    <3>1. fl.size \in Nat \ {0}
      BY <2>2, NotNull DEF Resize, BitmapMatchesHeld
    <3>2. CASE n # 0 /\ Return("OK") /\ fl' \in ResizedFreelists(fl, n) /\ UNCHANGED held
      <4>1. fl'.size = n
        BY <3>2 DEF ResizedFreelists
      <4> QED BY <3>1, <3>2, <4>1, SizesAssumption DEF Return, NoEntry, Alloc!Resize, Alloc!NoEntry
    <3>3. CASE UNCHANGED <<fl, held>> /\ Return("SIZE_ERR")
      BY <3>3 DEF Return, Alloc!Fail
    <3>4. CASE Return("MEM_ERR") /\ fl' = NoFreelist /\ held' = {}
      BY <3>1, <3>4 DEF Return, NoFreelist, NoEntry, Alloc!Destroy, Alloc!NoEntry
    <3> QED BY <2>2, <3>2, <3>3, <3>4 DEF Resize
  <2>3. ASSUME NextFree PROVE Alloc!Allocate \/ Alloc!Full
    <3>1. /\ IsFreelist(fl) /\ fl.size \in Nat \ {0}
          /\ BitmapMatches(fl, held) /\ WholeSize(fl.size)
      BY <2>3, NotNull DEF NextFree, BitmapMatchesHeld, SizeIsWhole
    <3>2. CASE IsFull(fl)
      BY <2>3, <3>1, <3>2, FullFacts
      DEF NextFree, Return, NoEntry, Alloc!Full, Alloc!Free, Alloc!NoEntry
    <3>3. CASE ~IsFull(fl)
      <4>1. NextEntry(fl) \in Alloc!Free /\ \A f \in Alloc!Free : NextEntry(fl) <= f
        BY <3>1, <3>3, NextEntryFacts DEF Alloc!Free
      <4>2. fl'.size = fl.size
        BY <2>3, <3>1, <3>3, AfterNextFacts DEF NextFree
      <4> QED BY <2>3, <3>3, <4>1, <4>2 DEF NextFree, Alloc!Allocate
    <3> QED BY <3>2, <3>3
  <2>4. ASSUME NEW entry \in Entries, Reclaim(entry) PROVE Alloc!Release \/ Alloc!Fail
    <3>1. CASE Return("OB_ENTRY") /\ UNCHANGED <<fl, held>>
      BY <3>1 DEF Return, Alloc!Fail
    <3>2. CASE /\ entry < fl.size
               /\ fl' = AfterReclaim(fl, entry)
               /\ held' = held \ {entry}
               /\ Return("OK")
      <4>1. IsFreelist(fl) /\ fl.size \in Nat \ {0} /\ BitmapMatches(fl, held)
        BY <2>4, NotNull DEF Reclaim, BitmapMatchesHeld
      <4>2. entry \in 0 .. fl.size - 1
        BY <3>2, <4>1, EntriesAssumption
      <4>3. AfterReclaim(fl, entry).size = fl.size
        BY <4>1, <4>2, AfterReclaimFacts
      <4> QED BY <3>2, <4>2, <4>3 DEF Return, NoEntry, Alloc!Release, Alloc!NoEntry
    <3> QED BY <2>4, <3>1, <3>2 DEF Reclaim
  <2>5. ASSUME Delete PROVE Alloc!Destroy
    BY <2>5, NotNull DEF BitmapMatchesHeld, Delete, Return, NoFreelist, NoEntry, Alloc!Destroy, Alloc!NoEntry
  <2> QED BY <2>1, <2>2, <2>3, <2>4, <2>5 DEF DisciplinedNext, Next, Alloc!Next
<1> QED BY <1>1, <1>2, Invariance, PTL DEF DisciplinedSpec, ImplementsAllocator, Alloc!Spec
=============================================================================
