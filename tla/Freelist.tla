------------------------------ MODULE Freelist ------------------------------
(***************************************************************************)
(* One freelist in the hands of a caller: the functions of                  *)
(* src/src/freelist.c as actions.  Next allows every legal call sequence;   *)
(* DisciplinedNext allows the ones the repository relies on, in which a     *)
(* size fills its words or fits in one word and a resize never adds a word. *)
(***************************************************************************)
EXTENDS FreelistOps

CONSTANTS Sizes,     \* the sizes callers ask for
          Entries    \* the entries callers give back

ASSUME SizesAssumption == Sizes \subseteq Nat
ASSUME EntriesAssumption == Entries \subseteq Nat

VARIABLES fl,     \* the struct, or NoFreelist for a NULL or deleted pointer
          held,   \* history: entries handed out and not given back
          out     \* the last call's result code and the entry it handed out

vars == <<fl, held, out>>

NoFreelist == [size |-> 0, len |-> 0, vector |-> <<>>]
NoEntry == -1

ResultCodes == {"none", "OK", "FULL", "MEM_ERR", "SIZE_ERR", "OB_ENTRY"}

Return(code) == out' = <<code, NoEntry>>

Init == fl = NoFreelist /\ held = {} /\ out = <<"none", NoEntry>>

\* freelist_new: a zero size and a failed malloc leave no freelist.
New(n) ==
  /\ fl = NoFreelist
  /\ \/ n = 0 /\ Return("SIZE_ERR") /\ UNCHANGED <<fl, held>>
     \/ n # 0 /\ Return("MEM_ERR") /\ UNCHANGED <<fl, held>>
     \/ n # 0 /\ Return("OK") /\ fl' = NewFreelist(n) /\ held' = {}

\* freelist_next.
NextFree ==
  /\ fl # NoFreelist
  /\ \/ IsFull(fl) /\ Return("FULL") /\ UNCHANGED <<fl, held>>
     \/ /\ ~IsFull(fl)
        /\ fl' = AfterNext(fl)
        /\ held' = held \union {NextEntry(fl)}
        /\ out' = <<"OK", NextEntry(fl)>>

\* freelist_reclaim: any entry below the size is accepted.
Reclaim(entry) ==
  /\ fl # NoFreelist
  /\ \/ entry >= fl.size /\ Return("OB_ENTRY") /\ UNCHANGED <<fl, held>>
     \/ /\ entry < fl.size
        /\ fl' = AfterReclaim(fl, entry)
        /\ held' = held \ {entry}
        /\ Return("OK")

\* freelist_resize: a failed realloc overwrites the only pointer with NULL.
Resize(n) ==
  /\ fl # NoFreelist
  /\ \/ n = 0 /\ Return("SIZE_ERR") /\ UNCHANGED <<fl, held>>
     \/ n # 0 /\ Return("MEM_ERR") /\ fl' = NoFreelist /\ held' = {}
     \/ n # 0 /\ Return("OK") /\ fl' \in ResizedFreelists(fl, n) /\ UNCHANGED held

\* freelist_delete.
Delete == fl # NoFreelist /\ fl' = NoFreelist /\ held' = {} /\ Return("none")

Next == \/ \E n \in Sizes : New(n) \/ Resize(n)
        \/ NextFree
        \/ \E entry \in Entries : Reclaim(entry)
        \/ Delete

Spec == Init /\ [][Next]_vars

----------------------------------------------------------------------------
\* How src/ uses the module: capacities of 512 and 1024, small tests, and
\* resizes within the words there are.
DisciplinedNext ==
  /\ Next
  /\ fl' # NoFreelist => WholeSize(fl'.size)
  /\ fl # NoFreelist => fl'.len <= fl.len

DisciplinedSpec == Init /\ [][DisciplinedNext]_vars

----------------------------------------------------------------------------
\* Every variable has its type; a freelist has the words its size needs.
TypeOK ==
  /\ fl = NoFreelist \/ IsFreelist(fl)
  /\ held \subseteq Nat
  /\ out \in ResultCodes \X (Nat \union {NoEntry})

\* The bitmap and the callers agree: a bit is set exactly when nobody holds
\* the entry it stands for, also for the bits past the size.
BitmapMatchesHeld == TypeOK /\ BitmapMatches(fl, held)

\* Whatever was called before, the entry that the next freelist_next hands out
\* is nobody's and below the size ("number of elements managed by the
\* freelist", freelist.c:22).  A size that uses part of its last word breaks it.
NoDoubleIssue ==
  fl # NoFreelist /\ ~IsFull(fl) => NextEntry(fl) \in (0 .. fl.size - 1) \ held

\* freelist_next says FREELIST_FULL only when every entry is held.
FullIsTruthful ==
  out[1] = "FULL" => 0 .. fl.size - 1 \subseteq held

\* The inductive invariant of DisciplinedSpec.
SizeIsWhole == fl # NoFreelist => WholeSize(fl.size)

IInv == SizeIsWhole /\ BitmapMatchesHeld /\ FullIsTruthful

\* Under the discipline a freelist is an allocator of the numbers below size.
Alloc == INSTANCE Allocator WITH size <- fl.size
ImplementsAllocator == Alloc!Spec
=============================================================================
