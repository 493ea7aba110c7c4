---------------------------- MODULE FreelistOps ----------------------------
(***************************************************************************)
(* The data structure of src/src/freelist.c: a bitmap of IntWidth-bit words *)
(* in which a set bit is a free entry.  A word is the set of its 1-bits; a  *)
(* freelist is a record with the fields of struct freelist.  Entry e lives  *)
(* in word e \div IntWidth, bit e % IntWidth.  The operators below are the  *)
(* effects of the C functions once their error returns are excluded.        *)
(***************************************************************************)
EXTENDS Integers

CONSTANT IntWidth   \* static const int32_t int_width = 32

ASSUME IntWidthAssumption == IntWidth \in Nat \ {0}

Bits == 0 .. IntWidth - 1

CalcVectorLen(freespace) ==
  IF freespace % IntWidth = 0 THEN freespace \div IntWidth
                              ELSE freespace \div IntWidth + 1

\* The words a freelist of n elements has.
WordIndices(n) == 0 .. CalcVectorLen(n) - 1

\* memset(vector, all ones): also the bits past the size are set.
NewFreelist(freespace) ==
  [size   |-> freespace,
   len    |-> CalcVectorLen(freespace),
   vector |-> [i \in WordIndices(freespace) |-> Bits]]

\* __builtin_ffs(word) - 1 for a word that is not zero.
LowestBit(word) == CHOOSE b \in word : \A c \in word : b <= c

\* The test of the loop in freelist_next: it compares the bit index IN the
\* word, not the entry it stands for, with the size.
Eligible(fl, i) == fl.vector[i] # {} /\ LowestBit(fl.vector[i]) < fl.size

\* Mutant of EligibleWords: the loop stops one word early.
EligibleWordsButLast(fl) == {i \in 0 .. fl.len - 2 : Eligible(fl, i)}

EligibleWords(fl) == {i \in 0 .. fl.len - 1 : Eligible(fl, i)}

\* freelist_next returns FREELIST_FULL when no word passes the test.
IsFull(fl) == EligibleWords(fl) = {}

\* Mutant of FirstWord: the loop runs on to the last word that passes.
LastWord(fl) == CHOOSE i \in EligibleWords(fl) :
                  \A j \in EligibleWords(fl) : j <= i

\* The loop stops at the first word that passes.
FirstWord(fl) == CHOOSE i \in EligibleWords(fl) :
                   \A j \in EligibleWords(fl) : i <= j

NextEntry(fl) ==
  LET i == FirstWord(fl) IN LowestBit(fl.vector[i]) + IntWidth * i

\* Mutant of AfterNext: the bit of the entry stays set.
AfterNextUnmarked(fl) == fl

AfterNext(fl) ==
  LET i == FirstWord(fl)
  IN  [fl EXCEPT !.vector[i] = @ \ {LowestBit(fl.vector[i])}]

\* Mutant of AfterReclaim: the bit is set in the first word.
AfterReclaimInWord0(fl, entry) ==
  [fl EXCEPT !.vector[0] = @ \union {entry % IntWidth}]

\* freelist_reclaim of an entry below the size; setting a bit that is set
\* already is not noticed.
AfterReclaim(fl, entry) ==
  [fl EXCEPT !.vector[entry \div IntWidth] = @ \union {entry % IntWidth}]

\* freelist_resize: realloc keeps the words both blocks have and the new
\* words are not initialised, so each of them is any word at all.
ResizedFreelists(fl, freespace) ==
  {[size |-> freespace, len |-> CalcVectorLen(freespace), vector |-> v] :
     v \in {u \in [WordIndices(freespace) -> SUBSET Bits] :
              \A i \in WordIndices(freespace) : i < fl.len => u[i] = fl.vector[i]}}

----------------------------------------------------------------------------
\* A freelist as freelist_new makes it and the other functions keep it.
IsFreelist(fl) ==
  /\ fl.size \in Nat \ {0}
  /\ fl = [size |-> fl.size, len |-> CalcVectorLen(fl.size), vector |-> fl.vector]
  /\ fl.vector \in [0 .. fl.len - 1 -> SUBSET Bits]

\* A bit is set exactly when nobody holds the entry it stands for, also for
\* the bits past the size.
BitmapMatches(fl, held) ==
  \A i \in 0 .. fl.len - 1 : \A b \in Bits :
     b \in fl.vector[i] <=> b + IntWidth * i \notin held

\* A size whose last word is full, or whose only word is the first.
WholeSize(n) == n <= IntWidth \/ n % IntWidth = 0
=============================================================================
