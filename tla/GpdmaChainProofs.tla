--------------------------- MODULE GpdmaChainProofs ---------------------------
(***************************************************************************)
(* Facts about the descriptor chains, for every sequence of segments,      *)
(* every item size, every region and every place of the table.             *)
(***************************************************************************)
EXTENDS GpdmaChain, SequenceTheorems, WellFoundedInduction, TLAPS

\* Induction over the natural numbers, for membership in a set.
LEMMA SetInduction ==
  ASSUME NEW S, 0 \in S, \A n \in Nat : n \in S => n + 1 \in S
  PROVE  Nat \subseteq S
<1> DEFINE T == Nat \ S
           R == OpToRel(<, Nat)
<1> SUFFICES ASSUME T # {} PROVE FALSE
  OBVIOUS
<1>1. IsWellFoundedOn(R, Nat)
  BY NatLessThanWellFounded, Zenon
<1>2. PICK x \in T : \A y \in T : ~(<<y, x>> \in R)
  BY <1>1, WFMin, Zenon
<1>3. x \in Nat /\ x # 0 /\ x - 1 \in Nat /\ x - 1 < x
  OBVIOUS
<1>4. x - 1 \notin T
  BY <1>2, <1>3 DEF OpToRel
<1> QED
  BY <1>3, <1>4

-------------------------------------------------------------------------------
(***************************************************************************)
(* The items of the linear chain are counted by a recursive function.      *)
(***************************************************************************)
Segment == [ptr : Nat, len : Nat, reps : Nat]
SegmentLists == Seq(Segment)

LEMMA SegmentListType ==
  ASSUME NEW segs \in SegmentLists
  PROVE  /\ Len(segs) \in Nat
         /\ DOMAIN segs = 1 .. Len(segs)
         /\ \A i \in 1 .. Len(segs) : /\ segs[i] \in Segment
                                      /\ segs[i].ptr \in Nat
                                      /\ segs[i].len \in Nat
                                      /\ segs[i].reps \in Nat
<1>1. Len(segs) \in Nat /\ DOMAIN segs = 1 .. Len(segs)
  BY LenProperties DEF SegmentLists
<1>2. \A i \in 1 .. Len(segs) : segs[i] \in Segment
  BY ElementOfSeq DEF SegmentLists
<1> QED
  BY <1>1, <1>2 DEF Segment

\* f sums up the repetition counts of the first n segments.
Sums(segs, n, f) == f = [i \in 0 .. n |-> IF i = 0 THEN 0 ELSE f[i - 1] + segs[i].reps]

\* Such sums exist, however many segments there are.
LEMMA SumsExist ==
  ASSUME NEW segs \in SegmentLists
  PROVE  \E f : Sums(segs, Len(segs), f)
<1> DEFINE Ok(n) == n <= Len(segs) => \E f \in [0 .. n -> Nat] : Sums(segs, n, f)
           S == {n \in Nat : Ok(n)}
<1>1. 0 \in S
  <2> DEFINE f == [i \in 0 .. 0 |-> 0]
  <2>1. f \in [0 .. 0 -> Nat] /\ Sums(segs, 0, f)
    BY DEF Sums
  <2> QED
    BY <2>1
<1>2. ASSUME NEW n \in Nat, n \in S PROVE n + 1 \in S
  <2> SUFFICES ASSUME n + 1 <= Len(segs)
               PROVE  \E f \in [0 .. n + 1 -> Nat] : Sums(segs, n + 1, f)
    OBVIOUS
  <2>1. segs[n + 1].reps \in Nat /\ Len(segs) \in Nat
    BY SegmentListType
  <2>2. PICK f \in [0 .. n -> Nat] : Sums(segs, n, f)
    BY <1>2, <2>1
  <2> DEFINE g == [i \in 0 .. n + 1 |-> IF i = n + 1 THEN f[n] + segs[n + 1].reps ELSE f[i]]
  <2>3. g \in [0 .. n + 1 -> Nat]
    BY <2>1
  <2>4. ASSUME NEW i \in 0 .. n + 1
        PROVE  g[i] = IF i = 0 THEN 0 ELSE g[i - 1] + segs[i].reps
    <3>1. CASE i = n + 1
      BY <3>1
    <3>2. CASE i # n + 1
      BY <2>2, <3>2 DEF Sums
    <3> QED
      BY <3>1, <3>2
  <2>5. Sums(segs, n + 1, g)
    BY <2>4 DEF Sums
  <2> QED
    BY <2>3, <2>5
<1> HIDE DEF S
<1>3. Len(segs) \in S
  BY <1>1, <1>2, SetInduction, SegmentListType
<1> QED
  BY <1>3, SegmentListType DEF S

\* TotalUpTo is what its recursive definition says, a number at each segment.
LEMMA TotalUpToSums ==
  ASSUME NEW segs \in SegmentLists
  PROVE  /\ TotalUpTo(segs) \in [0 .. Len(segs) -> Nat]
         /\ TotalUpTo(segs)[0] = 0
         /\ \A i \in 1 .. Len(segs) : TotalUpTo(segs)[i] = TotalUpTo(segs)[i - 1] + segs[i].reps
<1> DEFINE f == TotalUpTo(segs)
           n == Len(segs)
<1>0. n \in Nat /\ \A i \in 1 .. n : segs[i].reps \in Nat
  BY SegmentListType
<1>1. Sums(segs, n, f)
  <2>1. f = CHOOSE g : Sums(segs, n, g)
    BY DEF TotalUpTo, Sums
  <2> QED
    BY <2>1, SumsExist
<1> HIDE DEF f, n
<1>2. DOMAIN f = 0 .. n /\ f[0] = 0 /\ \A i \in 1 .. n : f[i] = f[i - 1] + segs[i].reps
  BY <1>0, <1>1 DEF Sums
<1> DEFINE S == {i \in Nat : i <= n => f[i] \in Nat}
<1>3. 0 \in S
  BY <1>2
<1>4. \A i \in Nat : i \in S => i + 1 \in S
  BY <1>0, <1>2
<1> HIDE DEF S
<1>5. Nat \subseteq S
  BY <1>3, <1>4, SetInduction
<1>6. \A i \in 0 .. n : f[i] \in Nat
  BY <1>0, <1>5 DEF S
<1>7. f = [i \in 0 .. n |-> f[i]]
  BY <1>1, <1>2 DEF Sums
<1> QED
  BY <1>2, <1>6, <1>7 DEF f, n

LEMMA TotalMonotone ==
  ASSUME NEW segs \in SegmentLists, NEW i \in 0 .. Len(segs), NEW j \in i .. Len(segs)
  PROVE  TotalUpTo(segs)[i] <= TotalUpTo(segs)[j]
<1> DEFINE T == TotalUpTo(segs)
           n == Len(segs)
           S == {d \in Nat : i + d <= n => T[i] <= T[i + d]}
<1>0. /\ n \in Nat
      /\ T \in [0 .. n -> Nat]
      /\ \A m \in 1 .. n : T[m] = T[m - 1] + segs[m].reps /\ segs[m].reps \in Nat
  BY SegmentListType, TotalUpToSums
<1> HIDE DEF T, n
<1>1. 0 \in S
  BY <1>0 DEF n
<1>2. \A d \in Nat : d \in S => d + 1 \in S
  <2> SUFFICES ASSUME NEW d \in Nat, T[i] <= T[i + d], i + d + 1 <= n
               PROVE  T[i] <= T[i + (d + 1)]
    BY <1>0 DEF n
  <2>1. /\ i + d \in 0 .. n /\ i + d + 1 \in 1 .. n /\ i + (d + 1) = i + d + 1
        /\ (i + d + 1) - 1 = i + d
    BY <1>0 DEF n
  <2>2. /\ T[i + d + 1] = T[i + d] + segs[i + d + 1].reps
        /\ segs[i + d + 1].reps \in Nat
    BY <1>0, <2>1
  <2>3. T[i] \in Nat /\ T[i + d] \in Nat
    BY <1>0, <2>1 DEF n
  <2> QED
    BY <2>1, <2>2, <2>3
<1> HIDE DEF S
<1>3. j - i \in Nat /\ i + (j - i) = j /\ j <= n
  BY <1>0 DEF n
<1>4. j - i \in S
  BY <1>1, <1>2, <1>3, SetInduction
<1> QED
  BY <1>3, <1>4 DEF S, T

LEMMA TotalRepsType ==
  ASSUME NEW segs \in SegmentLists
  PROVE  TotalReps(segs) \in Nat
BY SegmentListType, TotalUpToSums DEF TotalReps

\* Each item belongs to one segment.
LEMMA ItemLocated ==
  ASSUME NEW segs \in SegmentLists, NEW k \in 1 .. TotalReps(segs)
  PROVE  /\ SegmentOfItem(segs, k) \in 1 .. Len(segs)
         /\ TotalUpTo(segs)[SegmentOfItem(segs, k) - 1] < k
         /\ k <= TotalUpTo(segs)[SegmentOfItem(segs, k)]
<1> DEFINE T == TotalUpTo(segs)
           n == Len(segs)
           S == {m \in Nat : m <= n /\ k <= T[m] => \E i \in 1 .. m : T[i - 1] < k /\ k <= T[i]}
<1>0. /\ n \in Nat
      /\ T \in [0 .. n -> Nat]
      /\ T[0] = 0
      /\ k \in Nat \ {0}
      /\ k <= T[n]
  <2>1. n \in Nat /\ T \in [0 .. n -> Nat] /\ T[0] = 0
    BY SegmentListType, TotalUpToSums
  <2>2. T[n] \in Nat
    BY <2>1
  <2> QED
    BY <2>1, <2>2 DEF TotalReps
<1>d. DOMAIN segs = 1 .. n
  BY SegmentListType
<1> HIDE DEF T, n
<1>1. 0 \in S
  BY <1>0
<1>2. \A m \in Nat : m \in S => m + 1 \in S
  <2> SUFFICES ASSUME NEW m \in Nat, m \in S, m + 1 <= n, k <= T[m + 1]
               PROVE  \E i \in 1 .. m + 1 : T[i - 1] < k /\ k <= T[i]
    OBVIOUS
  <2>1. T[m] \in Nat /\ (m + 1) - 1 = m
    BY <1>0
  <2>2. CASE k <= T[m]
    BY <1>0, <2>2
  <2>3. CASE T[m] < k
    BY <2>1, <2>3
  <2> QED
    BY <1>0, <2>1, <2>2, <2>3
<1> HIDE DEF S
<1>3. n \in S
  BY <1>0, <1>1, <1>2, SetInduction
<1>4. \E i \in 1 .. n : T[i - 1] < k /\ k <= T[i]
  BY <1>0, <1>3 DEF S
<1> QED
  BY <1>4, <1>d DEF SegmentOfItem, T, n

LEMMA ItemLocatedOnce ==
  ASSUME NEW segs \in SegmentLists, NEW k \in 1 .. TotalReps(segs),
         NEW i \in 1 .. Len(segs), TotalUpTo(segs)[i - 1] < k, k <= TotalUpTo(segs)[i]
  PROVE  SegmentOfItem(segs, k) = i
<1> DEFINE T == TotalUpTo(segs)
           j == SegmentOfItem(segs, k)
<1>0. Len(segs) \in Nat /\ T \in [0 .. Len(segs) -> Nat]
  BY SegmentListType, TotalUpToSums
<1>1. j \in 1 .. Len(segs) /\ T[j - 1] < k /\ k <= T[j]
  BY ItemLocated
<1>2. k \in Nat /\ T[i] \in Nat /\ T[j] \in Nat /\ T[i - 1] \in Nat /\ T[j - 1] \in Nat
  <2>1. /\ i \in 0 .. Len(segs) /\ i - 1 \in 0 .. Len(segs)
        /\ j \in 0 .. Len(segs) /\ j - 1 \in 0 .. Len(segs)
    BY <1>0, <1>1
  <2> QED
    BY <1>0, <2>1, TotalRepsType
<1>3. i <= j - 1 => T[i] <= T[j - 1]
  BY <1>0, <1>1, TotalMonotone
<1>4. j <= i - 1 => T[j] <= T[i - 1]
  BY <1>0, <1>1, TotalMonotone
<1> HIDE DEF T, j
<1>5. ~(i <= j - 1) /\ ~(j <= i - 1)
  BY <1>1, <1>2, <1>3, <1>4 DEF T
<1> QED
  BY <1>0, <1>1, <1>5 DEF j

-------------------------------------------------------------------------------
(***************************************************************************)
(* Regions: the low half of an address is enough to reach it.              *)
(***************************************************************************)
LEMMA DivMod ==
  ASSUME NEW x \in Nat, NEW r \in Nat \ {0}
  PROVE  /\ x \div r \in Nat
         /\ x % r \in 0 .. r - 1
         /\ x = r * (x \div r) + (x % r)
OBVIOUS

\* A product grows with its factor.
LEMMA ProductMonotone ==
  ASSUME NEW r \in Nat \ {0}, NEW p \in Nat, NEW q \in Nat, p < q
  PROVE  r * p + r <= r * q
<1>1. PICK d \in Nat : q = p + 1 + d
  <2>1. q - p - 1 \in Nat /\ q = p + 1 + (q - p - 1)
    OBVIOUS
  <2> QED
    BY <2>1
<1>2. r * q = r * p + r + r * d
  BY <1>1
<1>3. r * d \in Nat /\ r * p \in Nat
  OBVIOUS
<1> QED
  BY <1>2, <1>3

\* What lies between two addresses of a region is in that region.
LEMMA BetweenInRegion ==
  ASSUME NEW r \in Nat \ {0}, NEW a \in Nat, NEW x \in Nat, NEW b \in Nat,
         a <= x, x <= b, a \div r = b \div r
  PROVE  x \div r = a \div r
<1> DEFINE p == a \div r
           q == x \div r
<1>1. /\ p \in Nat /\ q \in Nat
      /\ a % r \in 0 .. r - 1 /\ x % r \in 0 .. r - 1 /\ b % r \in 0 .. r - 1
      /\ a = r * p + (a % r)
      /\ x = r * q + (x % r)
      /\ b = r * p + (b % r)
  BY DivMod
<1> HIDE DEF p, q
<1>2. r * p \in Nat /\ r * q \in Nat
  BY <1>1
<1>3. q < p => r * q + r <= r * p
  BY <1>1, ProductMonotone
<1>4. p < q => r * p + r <= r * q
  BY <1>1, ProductMonotone
<1>5. ~(q < p) /\ ~(p < q)
  BY <1>1, <1>2, <1>3, <1>4
<1> QED
  BY <1>1, <1>5 DEF p, q

\* The address that item k's predecessor links to, put together by the
\* channel from the region of the table and the offset in the link.
LEMMA LinkReaches ==
  ASSUME NEW table \in Nat, NEW size \in Nat \ {0}, NEW n \in Nat \ {0},
         InOneRegion(table, size, n), NEW k \in 1 .. n
  PROVE  (table \div Region) * Region + ItemOffset(table, size, k) = ItemAddress(table, size, k)
<1> DEFINE x == table + size * (k - 1)
           b == table + size * n - 1
<1>0. Region \in Nat \ {0}
  BY ChainAssumption
<1>1. size * (k - 1) \in Nat /\ size * n \in Nat /\ size * (k - 1) + size <= size * n
  <2>1. k - 1 \in Nat /\ k - 1 < n
    OBVIOUS
  <2>2. size * (k - 1) + size <= size * n
    BY <2>1, ProductMonotone
  <2> QED
    BY <2>1, <2>2
<1>2. x \in Nat /\ b \in Nat /\ table <= x /\ x <= b
  BY <1>1
<1>3. table \div Region = b \div Region
  BY DEF InOneRegion
<1> HIDE DEF x, b
<1>4. x \div Region = table \div Region
  BY <1>0, <1>2, <1>3, BetweenInRegion
<1>5. x = Region * (x \div Region) + (x % Region) /\ x \div Region \in Nat
  BY <1>0, <1>2, DivMod
<1>6. Region * (x \div Region) = (x \div Region) * Region
  BY <1>0, <1>5
<1> QED
  BY <1>4, <1>5, <1>6 DEF x, ItemOffset, ItemAddress

\* Where the channel finds item k of a table.
LEMMA ItemIndex ==
  ASSUME NEW table \in Nat, NEW size \in Nat \ {0}, NEW k \in Nat \ {0}
  PROVE  /\ ItemAddress(table, size, k) \in Nat
         /\ (ItemAddress(table, size, k) - table) \div size + 1 = k
<1> DEFINE q == k - 1
           x == size * q
<1>1. q \in Nat /\ k = q + 1
  OBVIOUS
<1>2. x \in Nat
  BY <1>1
<1>3. /\ x \div size \in Nat
      /\ x % size \in 0 .. size - 1
      /\ x = size * (x \div size) + (x % size)
  BY <1>2, DivMod
<1> DEFINE d == x \div size
<1>4. size * d \in Nat
  BY <1>3
<1>5. q < d => size * q + size <= size * d
  BY <1>1, <1>3, ProductMonotone
<1>6. d < q => size * d + size <= size * q
  BY <1>1, <1>3, ProductMonotone
<1> HIDE DEF d
<1>7. d = q
  <2>1. x = size * q
    OBVIOUS
  <2> HIDE DEF x
  <2> QED
    BY <1>1, <1>2, <1>3, <1>4, <1>5, <1>6, <2>1 DEF d
<1> HIDE DEF x
<1>8. ItemAddress(table, size, k) = table + x
  BY DEF ItemAddress, x
<1> QED
  BY <1>1, <1>2, <1>7, <1>8 DEF d

LEMMA WordsType ==
  ASSUME NEW len \in Nat
  PROVE  Words(len) \in Nat
BY DEF Words, WordBytes

\* The words of a segment are all its bytes.
LEMMA WordsCoverBytes ==
  ASSUME NEW len \in Nat, WordSize = "TwoBytes" => len % 2 = 0
  PROVE  Words(len) * WordBytes = len
BY DEF Words, WordBytes

\* The sums depend on the repetition counts only.
LEMMA SameTotals ==
  ASSUME NEW segs \in SegmentLists, NEW others \in SegmentLists, Len(segs) = Len(others),
         \A i \in 1 .. Len(segs) : segs[i].reps = others[i].reps
  PROVE  /\ TotalUpTo(segs) = TotalUpTo(others)
         /\ TotalReps(segs) = TotalReps(others)
         /\ \A k : SegmentOfItem(segs, k) = SegmentOfItem(others, k)
<1> DEFINE T == TotalUpTo(segs)
           U == TotalUpTo(others)
           n == Len(segs)
           S == {i \in Nat : i <= n => T[i] = U[i]}
<1>0. /\ n \in Nat
      /\ T \in [0 .. n -> Nat] /\ U \in [0 .. n -> Nat]
      /\ T[0] = 0 /\ U[0] = 0
      /\ \A i \in 1 .. n : T[i] = T[i - 1] + segs[i].reps /\ U[i] = U[i - 1] + segs[i].reps
  BY SegmentListType, TotalUpToSums
<1>d. DOMAIN segs = 1 .. n /\ DOMAIN others = 1 .. n
  BY SegmentListType
<1> HIDE DEF T, U, n
<1>1. 0 \in S
  BY <1>0
<1>2. \A i \in Nat : i \in S => i + 1 \in S
  BY <1>0
<1> HIDE DEF S
<1>3. Nat \subseteq S
  BY <1>1, <1>2, SetInduction
<1>4. \A i \in 0 .. n : T[i] = U[i]
  BY <1>0, <1>3 DEF S
<1>5. T = U
  BY <1>0, <1>4
<1> QED
  BY <1>5, <1>d DEF T, U, n, TotalReps, SegmentOfItem

\* A segment that is streamed at all adds to the sum.
LEMMA TotalRepsPositive ==
  ASSUME NEW segs \in SegmentLists, NEW i \in 1 .. Len(segs), segs[i].reps > 0
  PROVE  TotalReps(segs) > 0
<1>1. /\ Len(segs) \in Nat /\ segs[i].reps \in Nat
      /\ i \in 0 .. Len(segs) /\ i - 1 \in 0 .. Len(segs)
      /\ TotalUpTo(segs)[i] \in Nat /\ TotalUpTo(segs)[i - 1] \in Nat
      /\ TotalUpTo(segs)[i] = TotalUpTo(segs)[i - 1] + segs[i].reps
  <2>1. /\ Len(segs) \in Nat /\ segs[i].reps \in Nat
        /\ i \in 0 .. Len(segs) /\ i - 1 \in 0 .. Len(segs)
    BY SegmentListType
  <2> QED
    BY <2>1, TotalUpToSums
<1>2. TotalUpTo(segs)[i] <= TotalUpTo(segs)[Len(segs)]
  BY <1>1, TotalMonotone
<1> QED
  BY <1>1, <1>2, TotalRepsType DEF TotalReps
===============================================================================
