-------------------------- MODULE FreelistOpsProofs --------------------------
(***************************************************************************)
(* What the operators of FreelistOps do to any freelist and any set of held *)
(* entries that match.  Every module that keeps a freelist cites these.     *)
(***************************************************************************)
EXTENDS FreelistOps, WellFoundedInduction, TLAPS

\* b + IntWidth * i determines the word i and the bit b.
LEMMA EntryDecomposition ==
  ASSUME NEW i \in Nat, NEW j \in Nat, NEW b \in Bits, NEW c \in Bits,
         b + IntWidth * i = c + IntWidth * j
  PROVE  i = j /\ b = c
PROOF
<1> USE IntWidthAssumption DEF Bits
<1>1. ASSUME NEW x \in Nat, NEW y \in Nat, x < y
      PROVE  IntWidth * x + IntWidth <= IntWidth * y
  <2>1. IntWidth * (x + 1) <= IntWidth * y
    BY <1>1
  <2> QED BY <2>1
<1>2. ~(i < j)
  BY <1>1
<1>3. ~(j < i)
  BY <1>1
<1> QED BY <1>2, <1>3

\* Every entry has a word and a bit.
LEMMA DivMod ==
  ASSUME NEW e \in Nat
  PROVE  /\ e \div IntWidth \in Nat
         /\ e % IntWidth \in Bits
         /\ e = (e % IntWidth) + IntWidth * (e \div IntWidth)
PROOF BY IntWidthAssumption DEF Bits

\* The words of a freelist of n elements hold all the numbers below n.
LEMMA VectorLen ==
  ASSUME NEW n \in Nat \ {0}
  PROVE  /\ CalcVectorLen(n) \in Nat \ {0}
         /\ n <= IntWidth * CalcVectorLen(n)
         /\ \A e \in 0 .. n - 1 : e \div IntWidth \in 0 .. CalcVectorLen(n) - 1
PROOF BY IntWidthAssumption DEF CalcVectorLen

\* A nonempty set of naturals has a least element.
LEMMA LeastElement ==
  ASSUME NEW S \in SUBSET Nat, S # {}
  PROVE  \E x \in S : \A y \in S : x <= y
PROOF
<1>1. \E x \in S : \A y \in S : ~(<<y, x>> \in OpToRel(<, Nat))
  BY NatLessThanWellFounded, WFMin, Zenon
<1>2. \A x, y \in Nat : <<y, x>> \in OpToRel(<, Nat) <=> y < x
  BY DEF OpToRel
<1>3. PICK R : /\ \E x \in S : \A y \in S : <<y, x>> \notin R
               /\ \A x, y \in Nat : <<y, x>> \in R <=> y < x
  BY <1>1, <1>2, Zenon
<1>4. PICK x \in S : \A y \in S : <<y, x>> \notin R
  BY <1>3
<1>5. \A y \in S : ~(y < x)
  BY <1>3, <1>4
<1> QED BY <1>5

\* __builtin_ffs finds the lowest bit of a word that has one.
LEMMA Lowest ==
  ASSUME NEW w \in SUBSET Bits, w # {}
  PROVE  LowestBit(w) \in w /\ \A c \in w : LowestBit(w) <= c
PROOF
<1>1. w \in SUBSET Nat BY IntWidthAssumption DEF Bits
<1>2. \E b \in w : \A c \in w : b <= c
  BY <1>1, LeastElement
<1> QED BY <1>2 DEF LowestBit

----------------------------------------------------------------------------
\* The fields of a freelist.
LEMMA FreelistShape ==
  ASSUME NEW fl, IsFreelist(fl)
  PROVE  /\ fl.size \in Nat \ {0}
         /\ fl.len = CalcVectorLen(fl.size)
         /\ fl.len \in Nat \ {0}
         /\ fl.vector \in [0 .. fl.len - 1 -> SUBSET Bits]
PROOF
<1>1. /\ fl.size \in Nat \ {0}
      /\ fl = [size |-> fl.size, len |-> CalcVectorLen(fl.size), vector |-> fl.vector]
  BY DEF IsFreelist
<1>2. fl.size \in Nat \ {0} /\ fl.len = CalcVectorLen(fl.size)
  BY <1>1
<1> QED BY <1>2, VectorLen DEF IsFreelist

\* The loop of freelist_next stops at the first word that passes its test.
LEMMA FirstWordFacts ==
  ASSUME NEW fl, IsFreelist(fl), ~IsFull(fl)
  PROVE  /\ FirstWord(fl) \in EligibleWords(fl)
         /\ \A j \in EligibleWords(fl) : FirstWord(fl) <= j
PROOF
<1>1. EligibleWords(fl) \in SUBSET Nat /\ EligibleWords(fl) # {}
  BY FreelistShape DEF EligibleWords, IsFull
<1>2. \E i \in EligibleWords(fl) : \A j \in EligibleWords(fl) : i <= j
  BY <1>1, LeastElement
<1> QED BY <1>2 DEF FirstWord

\* A word with the bit of an unheld entry below the size passes the test.
LEMMA UnheldIsEligible ==
  ASSUME NEW fl, NEW held, IsFreelist(fl), BitmapMatches(fl, held),
         NEW f \in 0 .. fl.size - 1, f \notin held
  PROVE  /\ f \div IntWidth \in EligibleWords(fl)
         /\ f % IntWidth \in fl.vector[f \div IntWidth]
PROOF
<1> DEFINE i == f \div IntWidth
           b == f % IntWidth
<1>1. f \in Nat /\ f < fl.size /\ fl.size \in Nat \ {0}
  BY FreelistShape
<1>2. i \in Nat /\ b \in Bits /\ f = b + IntWidth * i
  BY <1>1, DivMod
<1>3. i \in 0 .. fl.len - 1
  BY FreelistShape, VectorLen
<1>4. b \in fl.vector[i]
  BY <1>2, <1>3 DEF BitmapMatches
<1>5. fl.vector[i] \in SUBSET Bits
  BY <1>3, FreelistShape
<1> HIDE DEF i, b
<1>6. LowestBit(fl.vector[i]) \in Bits /\ LowestBit(fl.vector[i]) <= b
  BY <1>4, <1>5, Lowest
<1>7. b <= f
  BY <1>1, <1>2, IntWidthAssumption DEF Bits
<1>8. LowestBit(fl.vector[i]) < fl.size
  BY <1>1, <1>2, <1>6, <1>7, IntWidthAssumption DEF Bits
<1>9. i \in EligibleWords(fl)
  BY <1>3, <1>4, <1>8 DEF EligibleWords, Eligible
<1> QED BY <1>4, <1>9 DEF i, b

\* freelist_next picks the least entry nobody holds, and it is below the size.
LEMMA NextEntryFacts ==
  ASSUME NEW fl, NEW held, IsFreelist(fl), WholeSize(fl.size), BitmapMatches(fl, held),
         ~IsFull(fl)
  PROVE  /\ NextEntry(fl) \in 0 .. fl.size - 1
         /\ NextEntry(fl) \notin held
         /\ \A f \in 0 .. fl.size - 1 : f \notin held => NextEntry(fl) <= f
PROOF
<1> DEFINE i == FirstWord(fl)
           b == LowestBit(fl.vector[i])
<1>1. i \in 0 .. fl.len - 1 /\ fl.vector[i] # {} /\ b < fl.size
  BY FirstWordFacts DEF EligibleWords, Eligible
<1>2. fl.vector[i] \in SUBSET Bits
  BY <1>1, FreelistShape
<1>3. b \in fl.vector[i] /\ b \in Bits
  BY <1>1, <1>2, Lowest
<1>4. NextEntry(fl) = b + IntWidth * i
  BY DEF NextEntry
<1>5. NextEntry(fl) \notin held
  BY <1>1, <1>3, <1>4 DEF BitmapMatches
<1>6. i \in Nat /\ b \in Nat /\ b < IntWidth /\ fl.size \in Nat \ {0} /\ fl.len \in Nat
  BY <1>1, <1>3, FreelistShape, IntWidthAssumption DEF Bits
<1>7. NextEntry(fl) < fl.size
  <2>1. CASE fl.size <= IntWidth
    <3>1. fl.len = 1
      <4>1. fl.size \in Nat \ {0} /\ fl.len = CalcVectorLen(fl.size)
        BY FreelistShape
      <4>2. CASE fl.size = IntWidth
        <5>1. fl.size % IntWidth = 0 /\ fl.size \div IntWidth = 1
          BY <4>2, IntWidthAssumption
        <5> QED BY <4>1, <5>1 DEF CalcVectorLen
      <4>3. CASE fl.size < IntWidth
        <5>1. fl.size % IntWidth = fl.size /\ fl.size \div IntWidth = 0
          BY <4>1, <4>3, IntWidthAssumption
        <5> QED BY <4>1, <5>1 DEF CalcVectorLen
      <4> QED BY <2>1, <4>1, <4>2, <4>3, IntWidthAssumption
    <3>2. i = 0
      BY <3>1, <1>1
    <3> QED BY <3>2, <1>1, <1>4, <1>6, IntWidthAssumption
  <2>2. CASE fl.size % IntWidth = 0
    <3>1. fl.size = IntWidth * fl.len
      <4>1. fl.size = (fl.size % IntWidth) + IntWidth * (fl.size \div IntWidth)
        BY <1>6, DivMod
      <4>2. fl.len = fl.size \div IntWidth
        BY <2>2, FreelistShape DEF CalcVectorLen
      <4>3. fl.size \div IntWidth \in Nat
        BY <1>6, DivMod
      <4> QED BY <2>2, <4>1, <4>2, <4>3, IntWidthAssumption
    <3>2. i + 1 <= fl.len
      BY <1>1, <1>6
    <3> HIDE DEF i, b
    <3>3. IntWidth * (i + 1) <= IntWidth * fl.len
      BY <3>2, <1>6, IntWidthAssumption
    <3>4. IntWidth * (i + 1) = IntWidth * i + IntWidth
      BY <1>6, IntWidthAssumption
    <3>5. IntWidth * i \in Int /\ IntWidth * fl.len \in Int
      BY <1>6, IntWidthAssumption
    <3> QED BY <3>1, <3>3, <3>4, <3>5, <1>4, <1>6, IntWidthAssumption
  <2> QED BY <2>1, <2>2 DEF WholeSize
<1>8. ASSUME NEW f \in 0 .. fl.size - 1, f \notin held
      PROVE  NextEntry(fl) <= f
  <2> DEFINE j == f \div IntWidth
             c == f % IntWidth
  <2>1. f \in Nat /\ j \in Nat /\ c \in Nat /\ f = c + IntWidth * j
    BY <1>6, DivMod, IntWidthAssumption DEF Bits
  <2>2. i <= j /\ c \in fl.vector[j]
    BY <1>8, UnheldIsEligible, FirstWordFacts
  <2>3. b <= c \/ i # j
    BY <2>2, <1>2, Lowest
  <2> HIDE DEF i, b, j, c
  <2>4. CASE i = j
    BY <2>1, <2>3, <2>4, <1>4, <1>6, IntWidthAssumption
  <2>5. CASE i # j
    <3>1. IntWidth * (i + 1) <= IntWidth * j
      BY <2>1, <2>2, <2>5, <1>6, IntWidthAssumption
    <3> QED BY <3>1, <2>1, <1>4, <1>6, IntWidthAssumption
  <2> QED BY <2>4, <2>5
<1>9. NextEntry(fl) \in Nat
  BY <1>4, <1>6, IntWidthAssumption
<1> QED BY <1>5, <1>6, <1>7, <1>8, <1>9

\* FREELIST_FULL is returned only when every entry below the size is held.
LEMMA FullFacts ==
  ASSUME NEW fl, NEW held, IsFreelist(fl), BitmapMatches(fl, held), IsFull(fl)
  PROVE  0 .. fl.size - 1 \subseteq held
PROOF BY UnheldIsEligible DEF IsFull

----------------------------------------------------------------------------
\* freelist_new makes a freelist of which nothing is held.
LEMMA NewFreelistFacts ==
  ASSUME NEW n \in Nat \ {0}
  PROVE  /\ IsFreelist(NewFreelist(n)) /\ NewFreelist(n).size = n
         /\ BitmapMatches(NewFreelist(n), {})
PROOF
<1>1. /\ NewFreelist(n).size = n /\ NewFreelist(n).len = CalcVectorLen(n)
      /\ NewFreelist(n).vector = [i \in 0 .. CalcVectorLen(n) - 1 |-> Bits]
  BY DEF NewFreelist, WordIndices
<1>2. IsFreelist(NewFreelist(n))
  BY <1>1 DEF IsFreelist, NewFreelist, WordIndices
<1> QED BY <1>1, <1>2 DEF BitmapMatches

\* Taking the next entry clears its bit and no other.
LEMMA AfterNextFacts ==
  ASSUME NEW fl, NEW held, IsFreelist(fl), BitmapMatches(fl, held), ~IsFull(fl)
  PROVE  /\ IsFreelist(AfterNext(fl)) /\ AfterNext(fl).size = fl.size
         /\ AfterNext(fl).len = fl.len
         /\ NextEntry(fl) \in Nat
         /\ BitmapMatches(AfterNext(fl), held \union {NextEntry(fl)})
PROOF
<1> DEFINE i == FirstWord(fl)
           b == LowestBit(fl.vector[i])
           g == AfterNext(fl)
<1>1. i \in 0 .. fl.len - 1 /\ fl.vector[i] # {} /\ fl.vector[i] \in SUBSET Bits
  BY FirstWordFacts, FreelistShape DEF EligibleWords, Eligible
<1>2. b \in Bits /\ NextEntry(fl) = b + IntWidth * i
  BY <1>1, Lowest DEF NextEntry
<1>3. /\ g.size = fl.size /\ g.len = fl.len
      /\ g.vector = [fl.vector EXCEPT ![i] = @ \ {b}]
      /\ g = [size |-> fl.size, len |-> CalcVectorLen(fl.size), vector |-> g.vector]
  <2>1. PICK s, l, v : fl = [size |-> s, len |-> l, vector |-> v]
    BY DEF IsFreelist
  <2>0. g = [fl EXCEPT !.vector[i] = @ \ {b}]
    BY DEF AfterNext
  <2> HIDE DEF i, b, g
  <2>2. g = [size |-> s, len |-> l, vector |-> [v EXCEPT ![i] = @ \ {b}]]
    BY <2>1, <2>0
  <2>3. /\ fl.size = s /\ fl.len = l /\ fl.vector = v
        /\ g.size = s /\ g.len = l /\ g.vector = [v EXCEPT ![i] = @ \ {b}]
    BY <2>1, <2>2
  <2>4. l = CalcVectorLen(s)
    BY <2>3, FreelistShape
  <2> QED BY <2>2, <2>3, <2>4
<1>4. i \in Nat /\ NextEntry(fl) \in Nat
  BY <1>1, <1>2, FreelistShape, IntWidthAssumption DEF Bits
<1> HIDE DEF i, b, g
<1>5. g.vector \in [0 .. g.len - 1 -> SUBSET Bits]
  BY <1>1, <1>3, FreelistShape
<1>6. IsFreelist(g)
  BY <1>3, <1>5, FreelistShape DEF IsFreelist
<1>7. BitmapMatches(g, held \union {NextEntry(fl)})
  <2> SUFFICES ASSUME NEW j \in 0 .. fl.len - 1, NEW c \in Bits
               PROVE  c \in g.vector[j] <=> c + IntWidth * j \notin held \union {NextEntry(fl)}
    BY <1>3 DEF BitmapMatches
  <2>1. c \in fl.vector[j] <=> c + IntWidth * j \notin held
    BY DEF BitmapMatches
  <2>2. j \in Nat
    OBVIOUS
  <2>3. c + IntWidth * j = NextEntry(fl) <=> i = j /\ b = c
    BY <1>2, <1>4, <2>2, EntryDecomposition
  <2>4. c \in g.vector[j] <=> c \in fl.vector[j] /\ ~(i = j /\ b = c)
    BY <1>3, FreelistShape
  <2> QED BY <2>1, <2>3, <2>4
<1> QED BY <1>3, <1>4, <1>6, <1>7 DEF g

\* Reclaiming an entry below the size sets its bit and no other.
LEMMA AfterReclaimFacts ==
  ASSUME NEW fl, NEW held, IsFreelist(fl), BitmapMatches(fl, held),
         NEW entry \in 0 .. fl.size - 1
  PROVE  /\ IsFreelist(AfterReclaim(fl, entry)) /\ AfterReclaim(fl, entry).size = fl.size
         /\ AfterReclaim(fl, entry).len = fl.len
         /\ BitmapMatches(AfterReclaim(fl, entry), held \ {entry})
PROOF
<1> DEFINE i == entry \div IntWidth
           b == entry % IntWidth
           g == AfterReclaim(fl, entry)
<1>1. entry \in Nat
  BY FreelistShape
<1>2. i \in 0 .. fl.len - 1 /\ i \in Nat /\ b \in Bits /\ entry = b + IntWidth * i
  BY <1>1, FreelistShape, VectorLen, DivMod
<1>3. /\ g.size = fl.size /\ g.len = fl.len
      /\ g.vector = [fl.vector EXCEPT ![i] = @ \union {b}]
      /\ g = [size |-> fl.size, len |-> CalcVectorLen(fl.size), vector |-> g.vector]
  <2>1. PICK s, l, v : fl = [size |-> s, len |-> l, vector |-> v]
    BY DEF IsFreelist
  <2>0. g = [fl EXCEPT !.vector[i] = @ \union {b}]
    BY DEF AfterReclaim
  <2> HIDE DEF i, b, g
  <2>2. g = [size |-> s, len |-> l, vector |-> [v EXCEPT ![i] = @ \union {b}]]
    BY <2>1, <2>0
  <2>3. /\ fl.size = s /\ fl.len = l /\ fl.vector = v
        /\ g.size = s /\ g.len = l /\ g.vector = [v EXCEPT ![i] = @ \union {b}]
    BY <2>1, <2>2
  <2>4. l = CalcVectorLen(s)
    BY <2>3, FreelistShape
  <2> QED BY <2>2, <2>3, <2>4
<1> HIDE DEF i, b, g
<1>4. g.vector \in [0 .. g.len - 1 -> SUBSET Bits]
  BY <1>2, <1>3, FreelistShape
<1>5. IsFreelist(g)
  BY <1>3, <1>4, FreelistShape DEF IsFreelist
<1>6. BitmapMatches(g, held \ {entry})
  <2> SUFFICES ASSUME NEW j \in 0 .. fl.len - 1, NEW c \in Bits
               PROVE  c \in g.vector[j] <=> c + IntWidth * j \notin held \ {entry}
    BY <1>3 DEF BitmapMatches
  <2>1. c \in fl.vector[j] <=> c + IntWidth * j \notin held
    BY DEF BitmapMatches
  <2>2. j \in Nat
    OBVIOUS
  <2>3. c + IntWidth * j = entry <=> i = j /\ b = c
    BY <1>2, <2>2, EntryDecomposition
  <2>4. c \in g.vector[j] <=> c \in fl.vector[j] \/ (i = j /\ b = c)
    BY <1>3, FreelistShape
  <2> QED BY <2>1, <2>3, <2>4
<1> QED BY <1>3, <1>5, <1>6 DEF g

\* A resize keeps the match unless it adds words, which are not initialised.
LEMMA ResizedFacts ==
  ASSUME NEW fl, NEW held, IsFreelist(fl), BitmapMatches(fl, held),
         NEW n \in Nat \ {0}, NEW g \in ResizedFreelists(fl, n)
  PROVE  /\ IsFreelist(g) /\ g.size = n
         /\ g.len <= fl.len => BitmapMatches(g, held)
PROOF
<1>1. /\ g.size = n /\ g.len = CalcVectorLen(n)
      /\ g.vector \in [0 .. CalcVectorLen(n) - 1 -> SUBSET Bits]
      /\ \A i \in 0 .. CalcVectorLen(n) - 1 : i < fl.len => g.vector[i] = fl.vector[i]
      /\ g = [size |-> n, len |-> CalcVectorLen(n), vector |-> g.vector]
  BY DEF ResizedFreelists, WordIndices
<1>2. CalcVectorLen(n) \in Nat \ {0} /\ fl.len \in Nat \ {0}
  BY VectorLen, FreelistShape
<1>3. g.len <= fl.len => BitmapMatches(g, held)
  BY <1>1, <1>2 DEF BitmapMatches
<1> QED BY <1>1, <1>2, <1>3 DEF IsFreelist
=============================================================================
