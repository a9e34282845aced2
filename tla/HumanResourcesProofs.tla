------------------------ MODULE HumanResourcesProofs ------------------------
(***************************************************************************)
(* Proofs about the HR service, part by part and then for the parts side   *)
(* by side: who is hired, what a run pays and who stands behind it, what   *)
(* an employee is told, what the stock is, which codes are dead, for any   *)
(* number of everything and requests that interleave as they like.         *)
(***************************************************************************)
EXTENDS HumanResources, FiniteSetTheorems, WellFoundedInduction, TLAPS

-----------------------------------------------------------------------------
(* Sums over finite sets *)

LEMMA LessTimes ==
  ASSUME NEW a \in Int, NEW b \in Int, NEW u \in Nat, u > 0
  PROVE  a * u \in Int /\ b * u \in Int /\ (a <= b => a * u <= b * u) /\ (a < b => a * u < b * u)
OBVIOUS

\* One step of a fold over the subsets of a set: v0 for none of it, else op of what the
\* fold gives without the element that pick takes, and this element.
FoldStep(op, pick, v0, g, s) == IF s = {} THEN v0 ELSE op[<<g[s \ {pick[s]}], pick[s]>>]
IsFold(op, pick, v0, g, T) == g = [s \in T |-> FoldStep(op, pick, v0, g, s)]
Picks(pick, S) == \A s \in SUBSET S : s # {} => pick[s] \in s

LEMMA LeastSubset ==
  ASSUME NEW S, IsFiniteSet(S), NEW T, T \subseteq SUBSET S, T # {}
  PROVE  \E s \in T : \A r \in T : ~(r \subseteq s /\ r # s)
<1>1. T \subseteq FiniteSubsetsOf(S)
    BY FS_Subset DEF FiniteSubsetsOf
<1>2. PICK s \in T : \A r \in T : ~(<<r, s>> \in StrictSubsetOrdering(S))
    BY <1>1, FS_StrictSubsetOrderingWellFounded, WFMin
<1> QED
    BY <1>2 DEF StrictSubsetOrdering

LEMMA NatLessWellFounded == IsWellFoundedOn({nn \in Nat \X Nat : nn[1] < nn[2]}, Nat)
BY NatLessThanWellFounded DEF OpToRel

LEMMA LeastNat ==
  ASSUME NEW T, T \subseteq Nat, T # {}
  PROVE  \E k \in T : \A j \in T : k <= j
<1>1. PICK k \in T : \A j \in T : ~(<<j, k>> \in {nn \in Nat \X Nat : nn[1] < nn[2]})
    BY NatLessWellFounded, WFMin
<1>2. ASSUME NEW j \in T PROVE k <= j
  <2>1. j \in Nat /\ k \in Nat /\ ~(<<j, k>> \in {nn \in Nat \X Nat : nn[1] < nn[2]})
      BY <1>1
  <2>2. ~(j < k)
      BY <2>1
  <2> QED
      BY <2>1, <2>2
<1> QED
    BY <1>2

Small(S, n) == {s \in SUBSET S : Cardinality(s) <= n}

\* There is a fold over the subsets of up to n elements.
LEMMA SmallFolds ==
  ASSUME NEW S, IsFiniteSet(S), NEW V, NEW v0 \in V, NEW op \in [V \X S -> V],
         NEW pick, Picks(pick, S), NEW n \in Nat
  PROVE  \E g \in [Small(S, n) -> V] : IsFold(op, pick, v0, g, Small(S, n))
<1> DEFINE T == {k \in Nat : ~ \E g \in [Small(S, k) -> V] : IsFold(op, pick, v0, g, Small(S, k))}
<1> SUFFICES ASSUME T # {} PROVE FALSE
    OBVIOUS
<1>1. PICK k \in T : \A j \in T : k <= j
  <2>1. T \subseteq Nat
      OBVIOUS
  <2> HIDE DEF T
  <2> QED
      BY <2>1, LeastNat
<1>2. \A j \in Nat : j < k => \E g \in [Small(S, j) -> V] : IsFold(op, pick, v0, g, Small(S, j))
    BY <1>1
<1>3. \A s \in SUBSET S : IsFiniteSet(s) /\ Cardinality(s) \in Nat
    BY FS_Subset, FS_CardinalityType
<1>4. CASE k = 0
  <2>1. \A s \in Small(S, 0) : s = {}
      BY <1>3, FS_EmptySet DEF Small
  <2> DEFINE g == [s \in Small(S, 0) |-> v0]
  <2>2. g \in [Small(S, 0) -> V] /\ IsFold(op, pick, v0, g, Small(S, 0))
      BY <2>1 DEF IsFold, FoldStep
  <2> QED
      BY <1>4, <2>2
<1>5. CASE k # 0
  <2>1. PICK g \in [Small(S, k - 1) -> V] : IsFold(op, pick, v0, g, Small(S, k - 1))
      BY <1>2, <1>5
  <2> DEFINE h == [s \in Small(S, k) |-> FoldStep(op, pick, v0, g, s)]
  <2>2. ASSUME NEW s \in Small(S, k), s # {}
        PROVE  pick[s] \in S /\ s \ {pick[s]} \in Small(S, k - 1)
    <3>1. pick[s] \in s /\ s \in SUBSET S
        BY <2>2 DEF Small, Picks
    <3>2. Cardinality(s \ {pick[s]}) = Cardinality(s) - 1
        BY <1>3, <3>1, FS_RemoveElement
    <3> QED
        BY <1>3, <3>1, <3>2, <2>2 DEF Small
  <2>3. ASSUME NEW s \in Small(S, k) PROVE FoldStep(op, pick, v0, g, s) \in V
      BY <2>1, <2>2 DEF FoldStep
  <2>4. ASSUME NEW s \in Small(S, k - 1) PROVE s \in Small(S, k) /\ h[s] = g[s]
      BY <1>3, <2>1, <2>4 DEF IsFold, Small
  <2>5. ASSUME NEW s \in Small(S, k) PROVE h[s] = FoldStep(op, pick, v0, h, s)
      BY <2>2, <2>4 DEF FoldStep
  <2>6. h \in [Small(S, k) -> V] /\ IsFold(op, pick, v0, h, Small(S, k))
      BY <2>3, <2>5 DEF IsFold
  <2> QED
      BY <2>6
<1> QED
    BY <1>4, <1>5

\* There is a fold over all the subsets of a finite set, and any fold has its values in V.
LEMMA FoldExists ==
  ASSUME NEW S, IsFiniteSet(S), NEW V, NEW v0 \in V, NEW op \in [V \X S -> V],
         NEW pick, Picks(pick, S)
  PROVE  \E g \in [SUBSET S -> V] : IsFold(op, pick, v0, g, SUBSET S)
<1>1. Cardinality(S) \in Nat
    BY FS_CardinalityType
<1>2. Small(S, Cardinality(S)) = SUBSET S
    BY FS_Subset DEF Small
<1>3. PICK g \in [Small(S, Cardinality(S)) -> V] : IsFold(op, pick, v0, g, Small(S, Cardinality(S)))
    BY <1>1, SmallFolds
<1> QED
    BY <1>2, <1>3

Pick(s) == CHOOSE x \in s : TRUE

\* What MapThenSumSet computes, as a function on the subsets of S.
SumOver(f, g, s) == IF s = {} THEN 0 ELSE f[Pick(s)] + g[s \ {Pick(s)}]
Sums(f, S) == CHOOSE g : g = [s \in SUBSET S |-> SumOver(f, g, s)]
Total(f, S) == Sums(f, S)[S]

LEMMA Picked == ASSUME NEW s, s # {} PROVE Pick(s) \in s
BY DEF Pick

LEMMA SumsExist ==
  ASSUME NEW S, IsFiniteSet(S), NEW D, NEW f \in [D -> Int], S \subseteq D
  PROVE  \E g : g = [s \in SUBSET S |-> SumOver(f, g, s)]
<1> DEFINE op == [p \in Int \X S |-> f[p[2]] + p[1]]
           pick == [s \in SUBSET S |-> Pick(s)]
<1>1. op \in [Int \X S -> Int]
    OBVIOUS
<1>4. Picks(pick, S)
    BY Picked DEF Picks
<1>2. PICK g \in [SUBSET S -> Int] : IsFold(op, pick, 0, g, SUBSET S)
  <2>1. 0 \in Int
      OBVIOUS
  <2> HIDE DEF op, pick
  <2> QED
      BY <1>1, <1>4, <2>1, FoldExists, Zenon
<1>3. ASSUME NEW s \in SUBSET S PROVE FoldStep(op, pick, 0, g, s) = SumOver(f, g, s)
  <2>1. CASE s = {}
      BY <2>1 DEF FoldStep, SumOver
  <2>2. CASE s # {}
    <3>1. pick[s] = Pick(s) /\ Pick(s) \in S /\ s \ {Pick(s)} \in SUBSET S
        BY <2>2, Picked
    <3>2. op[<<g[s \ {Pick(s)}], Pick(s)>>] = f[Pick(s)] + g[s \ {Pick(s)}]
        BY <3>1
    <3> HIDE DEF op, pick
    <3> QED
        BY <2>2, <3>1, <3>2 DEF FoldStep, SumOver
  <2> QED
      BY <2>1, <2>2
<1> HIDE DEF op, pick
<1> QED
    BY <1>2, <1>3 DEF IsFold

LEMMA SumsDefined ==
  ASSUME NEW S, IsFiniteSet(S), NEW D, NEW f \in [D -> Int], S \subseteq D
  PROVE  /\ Sums(f, S) \in [SUBSET S -> Int]
         /\ \A s \in SUBSET S : Sums(f, S)[s] = SumOver(f, Sums(f, S), s)
<1> DEFINE G == Sums(f, S)
<1>5. G = [s \in SUBSET S |-> SumOver(f, G, s)]
    BY SumsExist DEF Sums
<1> HIDE DEF G
<1>6. \A s \in SUBSET S : G[s] = SumOver(f, G, s)
    BY <1>5
<1>7. \A s \in SUBSET S : G[s] \in Int
  <2> DEFINE T == {s \in SUBSET S : G[s] \notin Int}
  <2> SUFFICES ASSUME T # {} PROVE FALSE
      OBVIOUS
  <2>1. PICK s \in T : \A r \in T : ~(r \subseteq s /\ r # s)
    <3>1. T \subseteq SUBSET S
        OBVIOUS
    <3> HIDE DEF T
    <3> QED
        BY <3>1, LeastSubset
  <2>2. s # {} /\ Pick(s) \in s
      BY <1>6, Picked DEF SumOver
  <2>3. G[s \ {Pick(s)}] \in Int /\ f[Pick(s)] \in Int
      BY <2>1, <2>2
  <2> QED
      BY <1>6, <2>2, <2>3 DEF SumOver
<1> QED
    BY <1>5, <1>6, <1>7 DEF G

\* One summand more by d makes the sum more by d.
LEMMA SumUpdate ==
  ASSUME NEW S, IsFiniteSet(S), NEW D, S \subseteq D, NEW f \in [D -> Int], NEW h \in [D -> Int],
         NEW a \in D, NEW d \in Int, \A e \in D : h[e] = f[e] + (IF e = a THEN d ELSE 0)
  PROVE  Total(h, S) =
             Total(f, S) + (IF a \in S THEN d ELSE 0)
<1> DEFINE F == Sums(f, S)
           H == Sums(h, S)
           Plus(s) == IF a \in s THEN d ELSE 0
           T == {s \in SUBSET S : H[s] # F[s] + Plus(s)}
<1>1. /\ F \in [SUBSET S -> Int] /\ \A s \in SUBSET S : F[s] = SumOver(f, F, s)
      /\ H \in [SUBSET S -> Int] /\ \A s \in SUBSET S : H[s] = SumOver(h, H, s)
    BY SumsDefined
<1> HIDE DEF F, H
<1>2. T = {}
  <2> SUFFICES ASSUME T # {} PROVE FALSE
      OBVIOUS
  <2>1. PICK s \in T : \A r \in T : ~(r \subseteq s /\ r # s)
    <3>1. T \subseteq SUBSET S
        OBVIOUS
    <3> HIDE DEF T
    <3> QED
        BY <3>1, LeastSubset
  <2>2. s # {} /\ Pick(s) \in s
      BY <1>1, Picked DEF SumOver
  <2> DEFINE r == s \ {Pick(s)}
  <2>3. H[r] = F[r] + Plus(r)
      BY <2>1, <2>2
  <2>4. H[s] = h[Pick(s)] + H[r] /\ F[s] = f[Pick(s)] + F[r] /\ F[r] \in Int /\ H[r] \in Int
      BY <1>1, <2>2 DEF SumOver
  <2>5. f[Pick(s)] \in Int /\ h[Pick(s)] = f[Pick(s)] + (IF Pick(s) = a THEN d ELSE 0)
      BY <2>2
  <2>6. Plus(s) = Plus(r) + (IF Pick(s) = a THEN d ELSE 0)
      BY <2>2
  <2> QED
      BY <2>3, <2>4, <2>5, <2>6
<1> QED
    BY <1>2 DEF Total, F, H

LEMMA SumOfZeros ==
  ASSUME NEW S, IsFiniteSet(S), NEW D, S \subseteq D, NEW f \in [D -> Int], \A e \in S : f[e] = 0
  PROVE  Total(f, S) = 0
<1> DEFINE F == Sums(f, S)
           T == {s \in SUBSET S : F[s] # 0}
<1>1. F \in [SUBSET S -> Int] /\ \A s \in SUBSET S : F[s] = SumOver(f, F, s)
    BY SumsDefined
<1> HIDE DEF F
<1>2. T = {}
  <2> SUFFICES ASSUME T # {} PROVE FALSE
      OBVIOUS
  <2>1. PICK s \in T : \A r \in T : ~(r \subseteq s /\ r # s)
    <3>1. T \subseteq SUBSET S
        OBVIOUS
    <3> HIDE DEF T
    <3> QED
        BY <3>1, LeastSubset
  <2>2. s # {} /\ Pick(s) \in s
      BY <1>1, Picked DEF SumOver
  <2>3. F[s \ {Pick(s)}] = 0 /\ f[Pick(s)] = 0
      BY <2>1, <2>2
  <2> QED
      BY <1>1, <2>2, <2>3 DEF SumOver
<1> QED
    BY <1>2 DEF Total, F

LEMMA SumIsInt ==
  ASSUME NEW S, IsFiniteSet(S), NEW D, S \subseteq D, NEW f \in [D -> Int]
  PROVE  Total(f, S) \in Int
<1>1. Sums(f, S)[S] \in Int
    BY SumsDefined
<1> QED
    BY <1>1 DEF Total

LEMMA SumOfOneMore ==
  ASSUME NEW S, IsFiniteSet(S), NEW f \in [S -> Int], NEW h \in [S -> Int], NEW a \in S, NEW d \in Int,
         \A e \in S : h[e] = f[e] + (IF e = a THEN d ELSE 0)
  PROVE  Total(h, S) = Total(f, S) + d
<1>1. S \subseteq S
    OBVIOUS
<1>2. Total(h, S) = Total(f, S) + (IF a \in S THEN d ELSE 0)
    BY <1>1, SumUpdate
<1> QED
    BY <1>2

LEMMA SumsInOrder ==
  ASSUME NEW n \in Nat, NEW f \in [1..n -> Int]
  PROVE  \E p \in [0..n -> Int] :
             p[0] = 0 /\ p[n] = Total(f, 1..n) /\ \A k \in 1..n : p[k] = p[k - 1] + f[k]
<1> DEFINE mask(k) == [i \in 1..n |-> IF i <= k THEN f[i] ELSE 0]
           p == [k \in 0..n |-> Total(mask(k), 1..n)]
<1>1. IsFiniteSet(1..n)
    BY FS_Interval
<1>2. \A k \in 0..n : mask(k) \in [1..n -> Int]
    OBVIOUS
<1>3. \A i \in 1..n : mask(0)[i] = 0
    OBVIOUS
<1>4. mask(n) = f
    OBVIOUS
<1>5. ASSUME NEW k \in 1..n
      PROVE  \A i \in 1..n : mask(k)[i] = mask(k - 1)[i] + (IF i = k THEN f[k] ELSE 0)
    OBVIOUS
<1> HIDE DEF mask
<1>6. p \in [0..n -> Int]
    BY <1>1, <1>2, SumIsInt
<1>7. p[0] = 0
  <2>1. mask(0) \in [1..n -> Int]
      BY <1>2
  <2>2. Total(mask(0), 1..n) = 0
      BY <2>1, <1>1, <1>3, SumOfZeros
  <2> QED
      BY <2>2
<1>8. p[n] = Total(f, 1..n)
    BY <1>4
<1>9. ASSUME NEW k \in 1..n PROVE p[k] = p[k - 1] + f[k]
  <2>1. mask(k) \in [1..n -> Int] /\ mask(k - 1) \in [1..n -> Int] /\ f[k] \in Int
      BY <1>2
  <2>2. \A i \in 1..n : mask(k)[i] = mask(k - 1)[i] + (IF i = k THEN f[k] ELSE 0)
      BY <1>5
  <2> DEFINE h == mask(k)
             g == mask(k - 1)
             d == f[k]
             I == 1..n
  <2>3. IsFiniteSet(I) /\ h \in [I -> Int] /\ g \in [I -> Int] /\ k \in I /\ d \in Int
      BY <2>1, <1>1
  <2>4. \A e \in I : h[e] = g[e] + (IF e = k THEN d ELSE 0)
      BY <2>2
  <2> HIDE DEF h, g, d, I
  <2>5. Total(h, I) = Total(g, I) + d
      BY <2>3, <2>4, SumOfOneMore, ZenonT(60)
  <2> QED
      BY <2>5 DEF h, g, d, I
<1> HIDE DEF p
<1> QED
    BY <1>6, <1>7, <1>8, <1>9

LEMMA StepByStep ==
  ASSUME NEW n \in Nat, NEW M \in Nat, NEW p \in [0..n -> Int], NEW c \in [0..n -> Int],
         p[0] = 0, c[0] = 0,
         \A k \in 1..n : 0 <= p[k] - p[k - 1] /\ p[k] - p[k - 1] <= M * (c[k] - c[k - 1])
  PROVE  \A k \in 0..n : 0 <= p[k] /\ p[k] <= M * c[k]
<1> DEFINE Fine(k) == 0 <= p[k] /\ p[k] <= M * c[k]
           T == {k \in 0..n : ~Fine(k)}
<1>1. Fine(0)
    OBVIOUS
<1>2. ASSUME NEW k \in 1..n, Fine(k - 1) PROVE Fine(k)
  <2>1. k - 1 \in 0..n /\ p[k] \in Int /\ p[k - 1] \in Int /\ c[k] \in Int /\ c[k - 1] \in Int
      OBVIOUS
  <2>2. \A v \in Int, w \in Int : M * v \in Int /\ M * (v - w) = M * v - M * w
      OBVIOUS
  <2> DEFINE v == M * c[k]
             w == M * c[k - 1]
  <2>3. v \in Int /\ w \in Int /\ M * (c[k] - c[k - 1]) = v - w
      BY <2>1, <2>2
  <2>4. 0 <= p[k] - p[k - 1] /\ p[k] - p[k - 1] <= v - w /\ 0 <= p[k - 1] /\ p[k - 1] <= w
      BY <2>3, <1>2
  <2> HIDE DEF v, w
  <2>5. \A e \in Int, h \in Int : 0 <= e - h /\ e - h <= v - w /\ 0 <= h /\ h <= w => 0 <= e /\ e <= v
      BY <2>3
  <2>6. 0 <= p[k] /\ p[k] <= v
      BY <2>1, <2>4, <2>5
  <2> QED
      BY <2>6 DEF v
<1> HIDE DEF Fine
<1>3. T = {}
  <2> SUFFICES ASSUME T # {} PROVE FALSE
      OBVIOUS
  <2>1. PICK k \in T : \A j \in T : k <= j
    <3>1. T \subseteq Nat
        OBVIOUS
    <3> HIDE DEF T
    <3> QED
        BY <3>1, LeastNat
  <2>2. k # 0 /\ k \in 1..n /\ k - 1 \in 0..n /\ ~Fine(k)
      BY <1>1
  <2>3. Fine(k - 1)
      BY <2>1, <2>2
  <2> QED
      BY <1>2, <2>2, <2>3
<1> QED
    BY <1>3 DEF Fine

-----------------------------------------------------------------------------
(* The payslip *)

LEMMA RoundBounds ==
  ASSUME NEW x \in Int, NEW u \in Nat \ {0}
  PROVE  /\ RoundXaf(x, u) \in Int
         /\ 2 * u * RoundXaf(x, u) <= 2 * x + u
         /\ 2 * x + u < 2 * u * RoundXaf(x, u) + 2 * u
<1> DEFINE a == 2 * x + u
           v == 2 * u
<1>1. a \in Int /\ v \in Nat /\ v > 0
    OBVIOUS
<1>2. \A c \in Int, w \in Nat : w > 0 => c \div w \in Int /\ w * (c \div w) <= c /\ c < w * (c \div w) + w
    OBVIOUS
<1>3. RoundXaf(x, u) = a \div v
    BY DEF RoundXaf
<1> HIDE DEF a, v
<1>4. a \div v \in Int /\ v * (a \div v) <= a /\ a < v * (a \div v) + v
    BY <1>1, <1>2
<1> QED
    BY <1>3, <1>4 DEF a, v

GoodBrackets(b) ==
    /\ b \in Seq([upTo : Int, rate : Int]) /\ Ascending(b)
    /\ \A i \in 1..Len(b) : b[i].rate \in 0..Scale

Reach(x, U, b, i) ==
    IF i = 0 THEN 0 ELSE IF i = Len(b) THEN x ELSE Smaller(x, b[i].upTo * U)

LEMMA NotEmptySeq ==
  ASSUME NEW R, NEW s \in Seq(R), s # <<>>
  PROVE  Len(s) \in Nat /\ Len(s) >= 1 /\ DOMAIN s = 1..Len(s) /\ \A i \in 1..Len(s) : s[i] \in R
OBVIOUS

LEMMA BoundsOfBrackets ==
  ASSUME NEW b, GoodBrackets(b), NEW U \in Nat, U > 0
  PROVE  /\ Len(b) \in Nat /\ Len(b) >= 1
         /\ \A i \in 1..Len(b) : b[i].upTo \in Int /\ (b[i].upTo = -1 <=> i = Len(b))
         /\ \A i \in 1..(Len(b) - 1) : b[i].upTo * U \in Nat /\ b[i].upTo * U > 0
         /\ \A i \in 1..(Len(b) - 1) : \A j \in 1..(i - 1) : b[j].upTo * U < b[i].upTo * U
<1> DEFINE n == Len(b)
           t(i) == b[i].upTo
<1>1. b \in Seq([upTo : Int, rate : Int]) /\ b # <<>> /\ t(n) = -1
    BY DEF GoodBrackets, Ascending
<1>2. n \in Nat /\ n >= 1 /\ \A i \in 1..n : b[i] \in [upTo : Int, rate : Int]
    BY <1>1, NotEmptySeq
<1>3. \A i \in 1..n : t(i) \in Int
    BY <1>2
<1>4. \A i \in 1..(n - 1) : t(i) > 0 /\ \A j \in 1..(i - 1) : t(j) < t(i)
    BY DEF GoodBrackets, Ascending
<1> SUFFICES /\ n \in Nat /\ n >= 1
             /\ \A i \in 1..n : t(i) \in Int /\ (t(i) = -1 <=> i = n)
             /\ \A i \in 1..(n - 1) : t(i) * U \in Nat /\ t(i) * U > 0
             /\ \A i \in 1..(n - 1) : \A j \in 1..(i - 1) : t(j) * U < t(i) * U
    OBVIOUS
<1> HIDE DEF n, t
<1>5. ASSUME NEW i \in 1..n PROVE t(i) = -1 <=> i = n
  <2>1. i # n => i \in 1..(n - 1)
      BY <1>2
  <2> QED
      BY <1>1, <1>3, <1>4, <2>1
<1>6. ASSUME NEW i \in 1..(n - 1) PROVE t(i) * U \in Nat /\ t(i) * U > 0
  <2>1. t(i) \in Int /\ t(i) > 0
      BY <1>2, <1>3, <1>4
  <2> QED
      BY <2>1, LessTimes
<1>7. ASSUME NEW i \in 1..(n - 1), NEW j \in 1..(i - 1) PROVE t(j) * U < t(i) * U
  <2>1. t(i) \in Int /\ t(j) \in Int /\ t(j) < t(i)
      BY <1>2, <1>3, <1>4
  <2> QED
      BY <2>1, LessTimes
<1> QED
    BY <1>2, <1>3, <1>5, <1>6, <1>7

LEMMA ReachFacts ==
  ASSUME NEW b, GoodBrackets(b), NEW U \in Nat, U > 0, NEW x \in Nat
  PROVE  /\ \A i \in 0..Len(b) : Reach(x, U, b, i) \in Nat
         /\ Reach(x, U, b, 0) = 0 /\ Reach(x, U, b, Len(b)) = x
         /\ \A i \in 1..Len(b) :
               /\ Between(x, BoundOf(x, U, b, i - 1), BoundOf(x, U, b, i)) =
                      Reach(x, U, b, i) - Reach(x, U, b, i - 1)
               /\ Reach(x, U, b, i - 1) <= Reach(x, U, b, i)
<1> DEFINE n == Len(b)
           c(i) == b[i].upTo * U
           r(i) == Reach(x, U, b, i)
           t(i) == BoundOf(x, U, b, i)
<1>1. n \in Nat /\ n >= 1
    BY BoundsOfBrackets
<1>2. /\ \A i \in 1..(n - 1) : c(i) \in Nat /\ c(i) > 0
      /\ \A i \in 1..(n - 1) : \A j \in 1..(i - 1) : c(j) < c(i)
    BY BoundsOfBrackets
<1>3. /\ \A i : r(i) = IF i = 0 THEN 0 ELSE IF i = n THEN x ELSE Smaller(x, c(i))
      /\ \A i : t(i) = IF i = 0 THEN 0 ELSE IF i = n THEN x ELSE c(i)
    BY DEF Reach, BoundOf
<1> SUFFICES /\ \A i \in 0..n : r(i) \in Nat
             /\ r(0) = 0 /\ r(n) = x
             /\ \A i \in 1..n : Between(x, t(i - 1), t(i)) = r(i) - r(i - 1) /\ r(i - 1) <= r(i)
    OBVIOUS
<1> HIDE DEF n, c, r, t
<1>4. ASSUME NEW i \in 0..n PROVE r(i) \in Nat
  <2>1. i # 0 /\ i # n => i \in 1..(n - 1)
      BY <1>1
  <2> QED
      BY <1>2, <1>3, <2>1 DEF Smaller
<1>5. r(0) = 0 /\ r(n) = x
    BY <1>1, <1>3
<1>6. ASSUME NEW i \in 1..n PROVE Between(x, t(i - 1), t(i)) = r(i) - r(i - 1) /\ r(i - 1) <= r(i)
  <2>1. CASE i = 1
    <3>1. t(i - 1) = 0 /\ r(i - 1) = 0
        BY <2>1, <1>3
    <3>2. (i = n => t(i) = x /\ r(i) = x)
        BY <2>1, <1>3, <1>1
    <3>3. (i # n => t(i) = c(i) /\ r(i) = Smaller(x, c(i)) /\ c(i) \in Nat)
        BY <2>1, <1>3, <1>1, <1>2
    <3> QED
        BY <3>1, <3>2, <3>3 DEF Between, Smaller
  <2>2. CASE i # 1
    <3>1. i - 1 \in 1..(n - 1) /\ i - 1 # 0 /\ i - 1 # n /\ i # 0
        BY <2>2, <1>1
    <3>2. t(i - 1) = c(i - 1) /\ r(i - 1) = Smaller(x, c(i - 1)) /\ c(i - 1) \in Nat
        BY <3>1, <1>2, <1>3
    <3>3. (i = n => t(i) = x /\ r(i) = x)
        BY <3>1, <1>3
    <3>4. ASSUME i # n PROVE t(i) = c(i) /\ r(i) = Smaller(x, c(i)) /\ c(i) \in Nat /\ c(i - 1) < c(i)
      <4>1. i \in 1..(n - 1) /\ i - 1 \in 1..(i - 1)
          BY <3>1, <3>4, <1>1
      <4> QED
          BY <3>1, <3>4, <4>1, <1>2, <1>3
    <3> QED
        BY <3>2, <3>3, <3>4 DEF Between, Smaller
  <2> QED
      BY <2>1, <2>2
<1> QED
    BY <1>4, <1>5, <1>6

SliceOf(base, unit, acc, b) ==
    LET upper == IF b.upTo = -1 THEN base ELSE b.upTo * unit
        amount == Smaller(base, upper) - acc.lower
    IN  IF acc.done \/ base <= acc.lower THEN [acc EXCEPT !.done = TRUE]
        ELSE [tax |-> acc.tax + (IF amount > 0 THEN amount * b.rate ELSE 0),
              lower |-> upper, done |-> b.upTo = -1]
NoTax == [tax |-> 0, lower |-> 0, done |-> FALSE]
TaxStep(base, unit, brackets, g, s) ==
    IF s = {} THEN NoTax ELSE SliceOf(base, unit, g[s \ {Max(s)}], brackets[Max(s)])
Taxed(base, unit, brackets) ==
    CHOOSE g : g = [s \in SUBSET (DOMAIN brackets) |-> TaxStep(base, unit, brackets, g, s)]
TaxAccounts == [tax : Int, lower : Int, done : BOOLEAN]

LEMMA TaxIsFold ==
  ASSUME NEW base, NEW unit, NEW brackets
  PROVE  ApplyIrppBrackets(base, unit, brackets) = Taxed(base, unit, brackets)[DOMAIN brackets].tax
BY DEF ApplyIrppBrackets, FoldLeft, MapThenFoldSet, Taxed, TaxStep, SliceOf, NoTax

Slices(base, unit, brackets) ==
    [i \in 1..Len(brackets) |-> brackets[i].rate *
         Between(base, BoundOf(base, unit, brackets, i - 1), BoundOf(base, unit, brackets, i))]

LEMMA DefinitionIsTotal ==
  ASSUME NEW base, NEW unit, NEW brackets
  PROVE  TaxByDefinition(base, unit, brackets) =
             Total(Slices(base, unit, brackets), 1..Len(brackets))
BY DEF TaxByDefinition, MapThenSumSet, MapThenFoldSet, Total, Sums, SumOver, Pick, Slices

LEMMA MaxOf ==
  ASSUME NEW n \in Nat, NEW s \in SUBSET (1..n), s # {}
  PROVE  Max(s) \in s /\ \A y \in s : y <= Max(s)
<1> DEFINE T == {k \in 0..n : n - k \in s}
<1>1. T # {} /\ T \subseteq Nat
  <2>1. PICK y \in s : TRUE
      OBVIOUS
  <2>2. n - y \in T
      BY <2>1
  <2>3. T \subseteq Nat
      OBVIOUS
  <2> HIDE DEF T
  <2> QED
      BY <2>2, <2>3
<1>2. PICK k \in T : \A j \in T : k <= j
  <2> HIDE DEF T
  <2> QED
      BY <1>1, LeastNat
<1>3. ASSUME NEW y \in s PROVE n - k >= y
  <2>1. n - y \in T
      OBVIOUS
  <2>2. k <= n - y
      BY <1>2, <2>1
  <2> QED
      BY <2>2
<1>4. n - k \in s /\ \A y \in s : n - k >= y
    BY <1>3
<1>5. Max(s) \in s /\ \A y \in s : Max(s) >= y
    BY <1>4 DEF Max
<1> QED
    BY <1>5

LEMMA SliceType ==
  ASSUME NEW x \in Int, NEW U \in Int, NEW acc \in TaxAccounts, NEW upTo \in Int, NEW rate \in Int,
         NEW b, b.upTo = upTo, b.rate = rate
  PROVE  SliceOf(x, U, acc, b) \in TaxAccounts
<1> DEFINE upper == IF upTo = -1 THEN x ELSE upTo * U
           amount == Smaller(x, upper) - acc.lower
           more == amount * rate
<1>1. upper \in Int
    OBVIOUS
<1> HIDE DEF upper
<1>2. amount \in Int
    BY <1>1 DEF Smaller, TaxAccounts
<1> HIDE DEF amount
<1>3. more \in Int
    BY <1>2
<1> HIDE DEF more
<1>4. [acc EXCEPT !.done = TRUE] \in TaxAccounts
    BY DEF TaxAccounts
<1>5. [tax |-> acc.tax + (IF amount > 0 THEN more ELSE 0), lower |-> upper, done |-> upTo = -1] \in TaxAccounts
    BY <1>1, <1>3 DEF TaxAccounts
<1>6. SliceOf(x, U, acc, b) =
         IF acc.done \/ x <= acc.lower THEN [acc EXCEPT !.done = TRUE]
         ELSE [tax |-> acc.tax + (IF amount > 0 THEN more ELSE 0), lower |-> upper, done |-> upTo = -1]
    BY DEF SliceOf, upper, amount, more
<1> QED
    BY <1>4, <1>5, <1>6

LEMMA TaxedDefined ==
  ASSUME NEW b, GoodBrackets(b), NEW U \in Nat, NEW x \in Nat
  PROVE  LET g == Taxed(x, U, b) IN g = [s \in SUBSET (DOMAIN b) |-> TaxStep(x, U, b, g, s)]
<1> DEFINE S == DOMAIN b
           op == [p \in TaxAccounts \X S |-> SliceOf(x, U, p[1], b[p[2]])]
           pick == [s \in SUBSET S |-> Max(s)]
<1>1. S = 1..Len(b) /\ Len(b) \in Nat /\ \A i \in S : b[i] \in [upTo : Int, rate : Int]
  <2>1. b \in Seq([upTo : Int, rate : Int]) /\ b # <<>>
      BY DEF GoodBrackets, Ascending
  <2> QED
      BY <2>1, NotEmptySeq
<1>2. IsFiniteSet(S)
    BY <1>1, FS_Interval
<1> HIDE DEF S
<1>3. ASSUME NEW a \in TaxAccounts, NEW i \in S PROVE SliceOf(x, U, a, b[i]) \in TaxAccounts
  <2>1. b[i].upTo \in Int /\ b[i].rate \in Int
      BY <1>1
  <2> QED
      BY <2>1, SliceType
<1>4. op \in [TaxAccounts \X S -> TaxAccounts]
    BY <1>3
<1>5. Picks(pick, S)
    BY <1>1, MaxOf DEF Picks
<1>6. NoTax \in TaxAccounts
    BY DEF NoTax, TaxAccounts
<1>7. PICK g \in [SUBSET S -> TaxAccounts] : IsFold(op, pick, NoTax, g, SUBSET S)
  <2> HIDE DEF op, pick
  <2> QED
      BY <1>2, <1>4, <1>5, <1>6, FoldExists, Zenon
<1>8. ASSUME NEW s \in SUBSET S PROVE FoldStep(op, pick, NoTax, g, s) = TaxStep(x, U, b, g, s)
  <2>1. CASE s = {}
      BY <2>1 DEF FoldStep, TaxStep
  <2>2. CASE s # {}
    <3>1. pick[s] = Max(s) /\ Max(s) \in S /\ s \ {Max(s)} \in SUBSET S
        BY <2>2, <1>1, MaxOf
    <3>2. op[<<g[s \ {Max(s)}], Max(s)>>] = SliceOf(x, U, g[s \ {Max(s)}], b[Max(s)])
        BY <3>1
    <3> HIDE DEF op, pick
    <3> QED
        BY <2>2, <3>1, <3>2 DEF FoldStep, TaxStep
  <2> QED
      BY <2>1, <2>2
<1> HIDE DEF op, pick
<1>9. g = [s \in SUBSET S |-> TaxStep(x, U, b, g, s)]
    BY <1>7, <1>8 DEF IsFold
<1> QED
    BY <1>9 DEF Taxed, S

LEMMA TaxedInOrder ==
  ASSUME NEW b, GoodBrackets(b), NEW U \in Nat, NEW x \in Nat
  PROVE  \E a \in [0..Len(b) -> {Taxed(x, U, b)[s] : s \in SUBSET (1..Len(b))}] :
             /\ a[0] = NoTax
             /\ \A k \in 1..Len(b) : a[k] = SliceOf(x, U, a[k - 1], b[k])
             /\ ApplyIrppBrackets(x, U, b) = a[Len(b)].tax
<1> DEFINE n == Len(b)
           g == Taxed(x, U, b)
           a == [k \in 0..n |-> g[1..k]]
<1>1. n \in Nat /\ DOMAIN b = 1..n
  <2>1. b \in Seq([upTo : Int, rate : Int]) /\ b # <<>>
      BY DEF GoodBrackets, Ascending
  <2> QED
      BY <2>1, NotEmptySeq
<1>0. g = [s \in SUBSET (DOMAIN b) |-> TaxStep(x, U, b, g, s)]
    BY TaxedDefined
<1> HIDE DEF n, g
<1>2. g = [s \in SUBSET (1..n) |-> TaxStep(x, U, b, g, s)]
    BY <1>0, <1>1
<1>3. \A s \in SUBSET (1..n) : g[s] = TaxStep(x, U, b, g, s)
    BY <1>2
<1>4. g[1..0] = NoTax
  <2>1. 1..0 = {}
      OBVIOUS
  <2> QED
      BY <1>3, <2>1 DEF TaxStep
<1>5. ASSUME NEW k \in 1..n PROVE g[1..k] = SliceOf(x, U, g[1..(k - 1)], b[k])
  <2>1. 1..k \in SUBSET (1..n) /\ k \in 1..k /\ 1..k # {}
      BY <1>1
  <2>2. Max(1..k) \in 1..k /\ k <= Max(1..k)
      BY <1>1, <2>1, MaxOf
  <2>3. Max(1..k) = k
      BY <2>2
  <2>4. (1..k) \ {k} = 1..(k - 1)
      OBVIOUS
  <2> QED
      BY <1>3, <2>1, <2>3, <2>4 DEF TaxStep
<1>6. a \in [0..n -> {g[s] : s \in SUBSET (1..n)}]
    BY <1>1
<1>7. a[0] = NoTax
    BY <1>1, <1>4
<1>8. \A k \in 1..n : a[k] = SliceOf(x, U, a[k - 1], b[k])
    BY <1>1, <1>5
<1>9. ApplyIrppBrackets(x, U, b) = a[n].tax
    BY <1>1, TaxIsFold DEF g
<1> HIDE DEF a
<1> QED
    BY <1>6, <1>7, <1>8, <1>9 DEF n, g

\* What lies between the bounds is what each of them reaches more than the one before.
LEMMA TaxInSteps ==
  ASSUME NEW b, GoodBrackets(b), NEW U \in Nat, U > 0, NEW x \in Nat
  PROVE  \E p \in [0..Len(b) -> Int] :
             /\ p[0] = 0
             /\ \A k \in 1..Len(b) :
                    p[k] = p[k - 1] + b[k].rate * (Reach(x, U, b, k) - Reach(x, U, b, k - 1))
             /\ p[Len(b)] = TaxByDefinition(x, U, b)
             /\ p[Len(b)] = ApplyIrppBrackets(x, U, b)
<1> DEFINE n == Len(b)
           t(k) == BoundOf(x, U, b, k)
           r(k) == b[k].rate
           f == Slices(x, U, b)
<1>1. n \in Nat /\ n >= 1
    BY BoundsOfBrackets
<1>2. \A k \in 1..n : b[k].upTo \in Int /\ (b[k].upTo = -1 <=> k = n) /\ r(k) \in Int
  <2>1. \A k \in 1..n : b[k].upTo \in Int /\ (b[k].upTo = -1 <=> k = n)
      BY BoundsOfBrackets
  <2>2. \A k \in 1..n : r(k) \in 0..Scale
      BY DEF GoodBrackets
  <2>3. Scale \in Nat
      BY RatesAssumption
  <2> HIDE DEF n, r
  <2> QED
      BY <2>1, <2>2, <2>3
<1>3. /\ t(0) = 0
      /\ \A k \in 1..n : t(k) = IF k = n THEN x ELSE b[k].upTo * U
      /\ \A k \in 1..(n - 1) : t(k) \in Nat
      /\ \A k \in 1..(n - 1) : t(k - 1) < t(k)
  <2>1. t(0) = 0 /\ \A k \in 1..n : t(k) = IF k = n THEN x ELSE b[k].upTo * U
      BY <1>1 DEF BoundOf
  <2>2. \A k \in 1..(n - 1) : k \in 1..n /\ k # n
      BY <1>1
  <2>3. \A k \in 1..(n - 1) : t(k) = b[k].upTo * U
      BY <2>1, <2>2
  <2>4. \A k \in 1..(n - 1) : t(k) \in Nat /\ t(k) > 0
      BY <2>3, BoundsOfBrackets
  <2>5. ASSUME NEW k \in 1..(n - 1) PROVE t(k - 1) < t(k)
    <3>1. CASE k = 1
        BY <3>1, <2>1, <2>4
    <3>2. CASE k # 1
      <4>1. k - 1 \in 1..(n - 1) /\ k - 1 \in 1..(k - 1)
          BY <3>2, <1>1
      <4>2. b[k - 1].upTo * U < b[k].upTo * U
          BY <4>1, BoundsOfBrackets
      <4> QED
          BY <2>3, <4>1, <4>2
    <3> QED
        BY <3>1, <3>2
  <2> QED
      BY <2>1, <2>4, <2>5
<1>4. \A k \in 1..n : Between(x, t(k - 1), t(k)) = Reach(x, U, b, k) - Reach(x, U, b, k - 1)
    BY ReachFacts
<1>5. f \in [1..n -> Int] /\ \A k \in 1..n : f[k] = r(k) * (Reach(x, U, b, k) - Reach(x, U, b, k - 1))
  <2>1. \A k \in 1..n : r(k) * (Reach(x, U, b, k) - Reach(x, U, b, k - 1)) \in Int
    <3>1. ASSUME NEW k \in 1..n PROVE k \in 0..n /\ k - 1 \in 0..n
        BY <1>1
    <3>2. \A k \in 0..n : Reach(x, U, b, k) \in Nat
        BY ReachFacts
    <3> QED
        BY <1>2, <3>1, <3>2
  <2>2. \A k \in 1..n : f[k] = r(k) * Between(x, t(k - 1), t(k))
      BY DEF Slices
  <2>3. \A k \in 1..n : f[k] = r(k) * (Reach(x, U, b, k) - Reach(x, U, b, k - 1))
      BY <1>4, <2>2
  <2>4. f = [k \in 1..n |-> f[k]]
      BY DEF Slices
  <2> QED
      BY <2>1, <2>3, <2>4
<1>6. Total(f, 1..n) = TaxByDefinition(x, U, b)
    BY DefinitionIsTotal
<1>7. PICK a : /\ a[0] = NoTax
               /\ \A k \in 1..n : a[k] = SliceOf(x, U, a[k - 1], b[k])
               /\ ApplyIrppBrackets(x, U, b) = a[n].tax
    BY TaxedInOrder
<1> HIDE DEF n, t, r, f
<1>8. PICK p \in [0..n -> Int] :
          p[0] = 0 /\ p[n] = Total(f, 1..n) /\ \A k \in 1..n : p[k] = p[k - 1] + f[k]
    BY <1>1, <1>5, SumsInOrder
<1> DEFINE Agree(k) == /\ a[k] \in TaxAccounts /\ a[k].tax = p[k]
                       /\ a[k].done => k = n \/ x <= t(k)
                       /\ ~a[k].done => k # n /\ a[k].lower = t(k)
           T == {k \in 0..n : ~Agree(k)}
<1>9. Agree(0)
    BY <1>1, <1>3, <1>7, <1>8 DEF NoTax, TaxAccounts
<1>10. ASSUME NEW k \in 1..n, Agree(k - 1) PROVE Agree(k)
  <2> DEFINE from == t(k - 1)
             to == t(k)
             acc == a[k - 1]
             upTo == b[k].upTo
             rate == r(k)
             bk == b[k]
  <2>1. k - 1 \in 0..n /\ k - 1 # n /\ (k - 1 # 0 => k - 1 \in 1..(n - 1)) /\ (k # n => k \in 1..(n - 1))
      BY <1>1
  <2>2. from \in Nat
      BY <2>1, <1>3
  <2>3. to \in Int /\ to = (IF upTo = -1 THEN x ELSE upTo * U) /\ (upTo # -1 => from < to)
      BY <2>1, <1>2, <1>3
  <2>4. upTo \in Int /\ rate \in Int /\ (upTo = -1 <=> k = n)
      BY <1>2
  <2>5. acc \in TaxAccounts /\ acc.tax = p[k - 1] /\ (acc.done => x <= from) /\ (~acc.done => acc.lower = from)
      BY <1>10, <2>1
  <2>6. bk.upTo = upTo /\ bk.rate = rate
      BY DEF r
  <2>7. a[k] = SliceOf(x, U, acc, bk) /\ p[k] = acc.tax + rate * Between(x, from, to)
    <3>1. f[k] = rate * Between(x, from, to)
        BY <1>4, <1>5
    <3> QED
        BY <3>1, <1>7, <1>8, <2>5
  <2> HIDE DEF from, to, acc, upTo, rate, bk
  <2> DEFINE s == SliceOf(x, U, acc, bk)
  <2>9. s \in TaxAccounts
      BY <2>4, <2>5, <2>6, SliceType
  <2>10. /\ s.tax = acc.tax + rate * Between(x, from, to)
         /\ s.done => k = n \/ x <= to
         /\ ~s.done => k # n /\ s.lower = to
    <3>1. CASE x <= from
      <4>1. s = [acc EXCEPT !.done = TRUE]
          BY <3>1, <2>5 DEF SliceOf
      <4> HIDE DEF s
      <4>2. s.tax = acc.tax /\ s.done = TRUE
          BY <4>1, <2>5 DEF TaxAccounts
      <4>3. rate * Between(x, from, to) = 0 /\ acc.tax \in Int
          BY <3>1, <2>4, <2>5 DEF Between, TaxAccounts
      <4>4. k = n \/ x <= to
          BY <3>1, <2>2, <2>3, <2>4
      <4> QED
          BY <4>2, <4>3, <4>4
    <3>2. CASE ~(x <= from)
      <4> DEFINE wide == Smaller(x, to) - from
      <4>1. ~acc.done /\ acc.lower = from /\ acc.tax \in Int
          BY <3>2, <2>5 DEF TaxAccounts
      <4>2. wide \in Int /\ wide > 0 /\ Between(x, from, to) = wide
          BY <3>2, <2>2, <2>3, <2>4 DEF Smaller, Between
      <4>3. s = [tax |-> acc.tax + (IF wide > 0 THEN wide * rate ELSE 0), lower |-> to,
                 done |-> upTo = -1]
          BY <4>1, <3>2, <2>3, <2>6 DEF SliceOf
      <4> HIDE DEF wide, s
      <4>4. wide * rate = rate * wide
          BY <2>4, <4>2
      <4>5. upTo = -1 => s = [tax |-> acc.tax + rate * wide, lower |-> to, done |-> TRUE]
          BY <4>2, <4>3, <4>4
      <4>6. upTo # -1 => s = [tax |-> acc.tax + rate * wide, lower |-> to, done |-> FALSE]
          BY <4>2, <4>3, <4>4
      <4>7. s.tax = acc.tax + rate * wide /\ s.lower = to /\ (s.done <=> k = n)
          BY <4>5, <4>6, <2>4
      <4> QED
          BY <4>2, <4>7
    <3> QED
        BY <3>1, <3>2
  <2>11. a[k] = s
      BY <2>7
  <2> HIDE DEF s
  <2>12. a[k].tax = p[k]
      BY <2>7, <2>10, <2>11
  <2> QED
      BY <2>9, <2>10, <2>11, <2>12 DEF to
<1> HIDE DEF Agree
<1>11. T = {}
  <2> SUFFICES ASSUME T # {} PROVE FALSE
      OBVIOUS
  <2>1. PICK k \in T : \A j \in T : k <= j
    <3>1. T \subseteq Nat
        BY <1>1
    <3> HIDE DEF T
    <3> QED
        BY <3>1, LeastNat
  <2>2. k # 0 /\ k \in 1..n /\ k - 1 \in 0..n /\ ~Agree(k)
      BY <1>1, <1>9
  <2>3. Agree(k - 1)
      BY <2>1, <2>2
  <2> QED
      BY <1>10, <2>2, <2>3
<1>12. p[n] = ApplyIrppBrackets(x, U, b)
  <2>1. n \in 0..n
      BY <1>1
  <2>2. Agree(n)
      BY <2>1, <1>11
  <2> QED
      BY <2>2, <1>7 DEF Agree
<1>13. \A k \in 1..n : p[k] = p[k - 1] + r(k) * (Reach(x, U, b, k) - Reach(x, U, b, k - 1))
    BY <1>5, <1>8
<1> QED
    BY <1>6, <1>8, <1>12, <1>13 DEF n, r

LEMMA TaxIsByDefinition ==
  ASSUME NEW b, GoodBrackets(b), NEW U \in Nat, U > 0, NEW x \in Nat
  PROVE  ApplyIrppBrackets(x, U, b) = TaxByDefinition(x, U, b)
BY TaxInSteps

LEMMA ReachGap ==
  ASSUME NEW b, GoodBrackets(b), NEW U \in Nat, U > 0, NEW x \in Nat, NEW y \in Nat, x <= y,
         NEW i \in 1..Len(b)
  PROVE  Reach(y, U, b, i - 1) - Reach(x, U, b, i - 1) <= Reach(y, U, b, i) - Reach(x, U, b, i)
<1> DEFINE n == Len(b)
           c(k) == b[k].upTo * U
           r(k) == Reach(x, U, b, k)
           s(k) == Reach(y, U, b, k)
<1>1. n \in Nat /\ n >= 1 /\ i \in 1..n
    BY BoundsOfBrackets
<1>2. /\ \A k \in 1..(n - 1) : c(k) \in Nat /\ c(k) > 0
      /\ \A k \in 1..(n - 1) : \A j \in 1..(k - 1) : c(j) < c(k)
    BY BoundsOfBrackets
<1>3. /\ \A k : r(k) = IF k = 0 THEN 0 ELSE IF k = n THEN x ELSE Smaller(x, c(k))
      /\ \A k : s(k) = IF k = 0 THEN 0 ELSE IF k = n THEN y ELSE Smaller(y, c(k))
    BY DEF Reach
<1> SUFFICES s(i - 1) - r(i - 1) <= s(i) - r(i)
    OBVIOUS
<1> HIDE DEF n, c, r, s
<1>4. i = n => r(i) = x /\ s(i) = y
    BY <1>1, <1>3
<1>5. i # n => r(i) = Smaller(x, c(i)) /\ s(i) = Smaller(y, c(i)) /\ c(i) \in Nat
    BY <1>1, <1>2, <1>3
<1>6. CASE i = 1
  <2>1. r(i - 1) = 0 /\ s(i - 1) = 0
      BY <1>6, <1>3
  <2> QED
      BY <1>4, <1>5, <2>1 DEF Smaller
<1>7. CASE i # 1
  <2>1. i - 1 \in 1..(n - 1) /\ i - 1 # 0 /\ i - 1 # n
      BY <1>7, <1>1
  <2>2. r(i - 1) = Smaller(x, c(i - 1)) /\ s(i - 1) = Smaller(y, c(i - 1)) /\ c(i - 1) \in Nat
      BY <2>1, <1>2, <1>3
  <2>3. i # n => c(i - 1) < c(i)
    <3>1. i # n => i \in 1..(n - 1) /\ i - 1 \in 1..(i - 1)
        BY <2>1, <1>1
    <3> QED
        BY <3>1, <1>2
  <2> QED
      BY <1>4, <1>5, <2>2, <2>3 DEF Smaller
<1> QED
    BY <1>6, <1>7

LEMMA Portion ==
  ASSUME NEW r \in Nat, NEW M \in Nat, r <= M, NEW d \in Nat
  PROVE  r * d \in Int /\ 0 <= r * d /\ r * d <= M * d
OBVIOUS

\* A franc more of the base is taxed with at most a franc, and never with less than nothing.
LEMMA TaxGrows ==
  ASSUME NEW b, GoodBrackets(b), NEW U \in Nat, U > 0, NEW x \in Nat, NEW y \in Nat, x <= y
  PROVE  /\ ApplyIrppBrackets(x, U, b) \in Int /\ ApplyIrppBrackets(y, U, b) \in Int
         /\ 0 <= ApplyIrppBrackets(y, U, b) - ApplyIrppBrackets(x, U, b)
         /\ ApplyIrppBrackets(y, U, b) - ApplyIrppBrackets(x, U, b) <= Scale * (y - x)
<1> DEFINE n == Len(b)
           r(k) == b[k].rate
           u(k) == Reach(x, U, b, k)
           v(k) == Reach(y, U, b, k)
<1>1. n \in Nat /\ Scale \in Nat
    BY BoundsOfBrackets, RatesAssumption
<1>2. \A k \in 1..n : r(k) \in Nat /\ r(k) <= Scale
  <2>1. \A k \in 1..n : r(k) \in 0..Scale
      BY DEF GoodBrackets
  <2> HIDE DEF r
  <2> QED
      BY <1>1, <2>1
<1>3. /\ \A k \in 0..n : u(k) \in Nat /\ v(k) \in Nat
      /\ u(0) = 0 /\ v(0) = 0 /\ u(n) = x /\ v(n) = y
    BY ReachFacts
<1>4. \A k \in 1..n : v(k - 1) - u(k - 1) <= v(k) - u(k)
    BY ReachGap
<1>5. PICK p \in [0..n -> Int] :
          /\ p[0] = 0 /\ p[n] = ApplyIrppBrackets(x, U, b)
          /\ \A k \in 1..n : p[k] = p[k - 1] + r(k) * (u(k) - u(k - 1))
    BY TaxInSteps, ZenonT(60)
<1>6. PICK q \in [0..n -> Int] :
          /\ q[0] = 0 /\ q[n] = ApplyIrppBrackets(y, U, b)
          /\ \A k \in 1..n : q[k] = q[k - 1] + r(k) * (v(k) - v(k - 1))
    BY TaxInSteps, ZenonT(60)
<1> HIDE DEF n, r, u, v
<1> DEFINE d == [k \in 0..n |-> q[k] - p[k]]
           c == [k \in 0..n |-> v(k) - u(k)]
<1>7. d \in [0..n -> Int] /\ c \in [0..n -> Int] /\ d[0] = 0 /\ c[0] = 0
  <2>1. 0 \in 0..n
      BY <1>1
  <2>2. \A k \in 0..n : q[k] - p[k] \in Int
      BY <1>5, <1>6
  <2>3. \A k \in 0..n : v(k) - u(k) \in Int
      BY <1>3
  <2>4. q[0] - p[0] = 0 /\ v(0) - u(0) = 0
      BY <1>3, <1>5, <1>6
  <2> QED
      BY <2>1, <2>2, <2>3, <2>4
<1>8. ASSUME NEW k \in 1..n
      PROVE  0 <= d[k] - d[k - 1] /\ d[k] - d[k - 1] <= Scale * (c[k] - c[k - 1])
  <2>1. k \in 0..n /\ k - 1 \in 0..n
      BY <1>1
  <2> DEFINE du == u(k) - u(k - 1)
             dv == v(k) - v(k - 1)
  <2>2. du \in Int /\ dv \in Int /\ du <= dv /\ c[k] - c[k - 1] = dv - du
      BY <1>3, <1>4, <2>1
  <2>3. p[k] - p[k - 1] = r(k) * du /\ q[k] - q[k - 1] = r(k) * dv
    <3>1. p[k] = p[k - 1] + r(k) * du /\ q[k] = q[k - 1] + r(k) * dv
        BY <1>5, <1>6
    <3>2. p[k - 1] \in Int /\ q[k - 1] \in Int
        BY <2>1
    <3> HIDE DEF du, dv
    <3>3. r(k) * du \in Int /\ r(k) * dv \in Int
        BY <1>2, <2>2
    <3> QED
        BY <3>1, <3>2, <3>3
  <2>4. d[k] - d[k - 1] = (q[k] - q[k - 1]) - (p[k] - p[k - 1])
      BY <1>5, <1>6, <2>1
  <2> HIDE DEF du, dv, d, c
  <2>5. r(k) * dv - r(k) * du = r(k) * (dv - du)
      BY <1>2, <2>2
  <2>6. d[k] - d[k - 1] = r(k) * (dv - du)
      BY <2>3, <2>4, <2>5
  <2>7. dv - du \in Nat
      BY <2>2
  <2> QED
      BY <1>1, <1>2, <2>2, <2>6, <2>7, Portion
<1> HIDE DEF d, c
<1>9. \A k \in 0..n : 0 <= d[k] /\ d[k] <= Scale * c[k]
    BY <1>1, <1>7, <1>8, StepByStep
<1>10. n \in 0..n
    BY <1>1
<1>11. d[n] = ApplyIrppBrackets(y, U, b) - ApplyIrppBrackets(x, U, b) /\ c[n] = y - x
    BY <1>3, <1>5, <1>6, <1>10 DEF d, c
<1> QED
    BY <1>5, <1>6, <1>9, <1>10, <1>11

\* The tax leaves something of a base, if its first bracket does.
LEMMA TaxLeaves ==
  ASSUME NEW b, GoodBrackets(b), NEW U \in Nat, U > 0, NEW x \in Nat, x > 0, b[1].rate < Scale
  PROVE  ApplyIrppBrackets(x, U, b) < Scale * x
<1> DEFINE n == Len(b)
           r(k) == b[k].rate
           u(k) == Reach(x, U, b, k)
<1>1. n \in Nat /\ n >= 1 /\ Scale \in Nat
    BY BoundsOfBrackets, RatesAssumption
<1>2. \A k \in 1..n : r(k) \in Nat /\ r(k) <= Scale
  <2>1. \A k \in 1..n : r(k) \in 0..Scale
      BY DEF GoodBrackets
  <2> HIDE DEF r
  <2> QED
      BY <1>1, <2>1
<1>3. /\ \A k \in 0..n : u(k) \in Nat
      /\ u(0) = 0 /\ u(n) = x
      /\ \A k \in 1..n : u(k - 1) <= u(k)
    BY ReachFacts
<1>4. u(1) > 0
  <2>1. CASE n = 1
      BY <1>3, <2>1
  <2>2. CASE n # 1
    <3>1. 1 \in 1..(n - 1)
      <4> HIDE DEF n
      <4> QED
          BY <1>1, <2>2
    <3>2. b[1].upTo * U > 0 /\ b[1].upTo * U \in Nat
        BY <3>1, BoundsOfBrackets
    <3>3. u(1) = Smaller(x, b[1].upTo * U)
        BY <2>2 DEF Reach
    <3> QED
        BY <3>2, <3>3 DEF Smaller
  <2> QED
      BY <2>1, <2>2
<1>5. PICK p \in [0..n -> Int] :
          /\ p[0] = 0 /\ p[n] = ApplyIrppBrackets(x, U, b)
          /\ \A k \in 1..n : p[k] = p[k - 1] + r(k) * (u(k) - u(k - 1))
    BY TaxInSteps, ZenonT(60)
<1>6. r(1) < Scale
    OBVIOUS
<1> HIDE DEF n, r, u
<1> DEFINE q == [k \in 0..n |-> IF k = 0 THEN 0 ELSE p[k] + u(1)]
           c == [k \in 0..n |-> u(k)]
<1>7. q \in [0..n -> Int] /\ c \in [0..n -> Int] /\ q[0] = 0 /\ c[0] = 0
  <2>1. 1 \in 0..n /\ u(1) \in Int
      BY <1>1, <1>3
  <2> QED
      BY <1>1, <1>3, <1>5, <2>1
<1>8. ASSUME NEW k \in 1..n
      PROVE  0 <= q[k] - q[k - 1] /\ q[k] - q[k - 1] <= Scale * (c[k] - c[k - 1])
  <2>1. k \in 0..n /\ k - 1 \in 0..n /\ 1 \in 1..n /\ 1 \in 0..n
      BY <1>1
  <2> DEFINE w == u(k) - u(k - 1)
  <2>2. w \in Nat /\ c[k] - c[k - 1] = w
      BY <1>3, <2>1
  <2>3. p[k] = p[k - 1] + r(k) * w /\ p[k] \in Int /\ p[k - 1] \in Int
      BY <1>5, <2>1
  <2>4. CASE k = 1
    <3>1. w = u(1) /\ p[k - 1] = 0 /\ q[k] - q[k - 1] = p[k] + u(1)
        BY <2>1, <2>4, <1>3, <1>5
    <3> HIDE DEF w, q, c
    <3>2. r(k) + 1 \in Nat /\ r(k) + 1 <= Scale
        BY <1>1, <1>2, <1>6, <2>4
    <3>4. r(k) * w \in Int /\ r(k) * w + w = (r(k) + 1) * w
        BY <1>2, <2>2
    <3>3. q[k] - q[k - 1] = (r(k) + 1) * w
        BY <2>2, <2>3, <3>1, <3>4
    <3> QED
        BY <1>1, <2>2, <3>2, <3>3, Portion
  <2>5. CASE k # 1
    <3>1. q[k] - q[k - 1] = p[k] - p[k - 1]
        BY <2>1, <2>3, <2>5, <1>3
    <3> HIDE DEF w, q, c
    <3>2. r(k) * w \in Int
        BY <1>2, <2>2
    <3>3. q[k] - q[k - 1] = r(k) * w
        BY <2>3, <3>1, <3>2
    <3> QED
        BY <1>1, <1>2, <2>2, <3>3, Portion
  <2> QED
      BY <2>4, <2>5
<1> HIDE DEF q, c
<1>9. \A k \in 0..n : 0 <= q[k] /\ q[k] <= Scale * c[k]
    BY <1>1, <1>7, <1>8, StepByStep
<1>10. n \in 0..n /\ n # 0 /\ 1 \in 0..n
    BY <1>1
<1>11. q[n] = ApplyIrppBrackets(x, U, b) + u(1) /\ c[n] = x /\ ApplyIrppBrackets(x, U, b) \in Int
    BY <1>3, <1>5, <1>10 DEF q, c
<1>12. Scale * x \in Int /\ u(1) \in Int
    BY <1>1, <1>3, <1>10
<1> QED
    BY <1>4, <1>9, <1>10, <1>11, <1>12

\* The tax is no more than the base.
LEMMA TaxBounds ==
  ASSUME NEW b, GoodBrackets(b), NEW U \in Nat, U > 0, NEW x \in Nat
  PROVE  0 <= ApplyIrppBrackets(x, U, b) /\ ApplyIrppBrackets(x, U, b) <= Scale * x
<1> DEFINE n == Len(b)
           r(k) == b[k].rate
           c == [k \in 0..n |-> Reach(x, U, b, k)]
<1>1. n \in Nat /\ Scale \in Nat
    BY BoundsOfBrackets, RatesAssumption
<1>2. \A k \in 1..n : r(k) \in Nat /\ r(k) <= Scale
  <2>1. \A k \in 1..n : r(k) \in 0..Scale
      BY DEF GoodBrackets
  <2> HIDE DEF r
  <2> QED
      BY <1>1, <2>1
<1>3. \A k \in 1..n : k \in 0..n /\ k - 1 \in 0..n
    BY <1>1
<1>4. /\ c \in [0..n -> Int] /\ c[0] = 0 /\ c[n] = x
      /\ \A k \in 1..n : c[k] - c[k - 1] \in Nat
  <2>1. /\ \A k \in 0..n : Reach(x, U, b, k) \in Nat
        /\ Reach(x, U, b, 0) = 0 /\ Reach(x, U, b, n) = x
        /\ \A k \in 1..n : Reach(x, U, b, k - 1) <= Reach(x, U, b, k)
      BY ReachFacts
  <2> HIDE DEF n
  <2> QED
      BY <1>1, <1>3, <2>1
<1>5. PICK p \in [0..n -> Int] :
          /\ p[0] = 0 /\ p[n] = ApplyIrppBrackets(x, U, b)
          /\ \A k \in 1..n : p[k] = p[k - 1] + r(k) * (c[k] - c[k - 1])
  <2>1. PICK p \in [0..n -> Int] :
            /\ p[0] = 0 /\ p[n] = ApplyIrppBrackets(x, U, b)
            /\ \A k \in 1..n : p[k] = p[k - 1] + r(k) * (Reach(x, U, b, k) - Reach(x, U, b, k - 1))
      BY TaxInSteps
  <2>2. \A k \in 1..n : c[k] = Reach(x, U, b, k) /\ c[k - 1] = Reach(x, U, b, k - 1)
      BY <1>3
  <2> QED
      BY <2>1, <2>2
<1> HIDE DEF n, r, c
<1>6. ASSUME NEW k \in 1..n PROVE 0 <= p[k] - p[k - 1] /\ p[k] - p[k - 1] <= Scale * (c[k] - c[k - 1])
  <2> DEFINE w == c[k] - c[k - 1]
  <2>1. w \in Nat /\ p[k] = p[k - 1] + r(k) * w /\ p[k] \in Int /\ p[k - 1] \in Int
      BY <1>3, <1>4, <1>5
  <2> HIDE DEF w
  <2>2. r(k) * w \in Int /\ 0 <= r(k) * w /\ r(k) * w <= Scale * w
      BY <1>1, <1>2, <2>1, Portion
  <2>3. p[k] - p[k - 1] = r(k) * w
      BY <2>1, <2>2
  <2> QED
      BY <2>2, <2>3 DEF w
<1>7. \A k \in 0..n : 0 <= p[k] /\ p[k] <= Scale * c[k]
    BY <1>1, <1>4, <1>5, <1>6, StepByStep
<1>8. n \in 0..n
    BY <1>1
<1> QED
    BY <1>4, <1>5, <1>7, <1>8

LEMMA RoundNat ==
  ASSUME NEW x \in Nat, NEW u \in Nat \ {0}
  PROVE  RoundXaf(x, u) \in Nat
<1> DEFINE r == RoundXaf(x, u)
<1>1. r \in Int /\ 2 * x + u < 2 * u * r + 2 * u
    BY RoundBounds
<1> SUFFICES r \in Nat
    OBVIOUS
<1> HIDE DEF r
<1>2. r < 0 => u * r <= -u
    BY <1>1
<1>3. 2 * u * r = 2 * (u * r) /\ u * r \in Int
    BY <1>1
<1> DEFINE v == u * r
<1> HIDE DEF v
<1>4. 2 * x + u < 2 * v + 2 * u /\ v \in Int /\ (r < 0 => v <= -u)
    BY <1>1, <1>2, <1>3 DEF v
<1> QED
    BY <1>1, <1>4

LEMMA RoundNothing ==
  ASSUME NEW u \in Nat \ {0}
  PROVE  RoundXaf(0, u) = 0
<1> DEFINE r == RoundXaf(0, u)
<1>1. r \in Int /\ 2 * u * r <= 2 * 0 + u
    BY RoundBounds
<1>2. r \in Nat
    BY RoundNat
<1> SUFFICES r = 0
    OBVIOUS
<1> HIDE DEF r
<1>3. r > 0 => u * r >= u
    BY <1>1
<1>4. 2 * u * r = 2 * (u * r) /\ u * r \in Int
    BY <1>1
<1> DEFINE v == u * r
<1> HIDE DEF v
<1>5. 2 * v <= u /\ v \in Int /\ (r > 0 => v >= u)
    BY <1>1, <1>3, <1>4 DEF v
<1> QED
    BY <1>1, <1>2, <1>5

\* Rounding the contribution c and the tax t moves the net pay by at most a franc.
LEMMA NetOfRounded ==
  ASSUME NEW c \in Int, NEW t \in Int, NEW g \in Int,
         NEW net, net = g - RoundXaf(c, Scale) - RoundXaf(t, Cube),
         NEW exact, exact = g * Cube - c * Scale * Scale - t
  PROVE  /\ net \in Int /\ exact \in Int /\ Cube \in Nat /\ Cube > 0
         /\ exact - Cube <= net * Cube /\ net * Cube < exact + Cube
<1> DEFINE M == Scale
           q == M * M
           k == q * M
           a == RoundXaf(c, M)
           i == RoundXaf(t, k)
<1>1. M \in Nat /\ M > 0
    BY RatesAssumption
<1>2. Cube = k
    BY DEF Cube
<1>3. q \in Nat /\ q > 0
  <2> HIDE DEF M
  <2> QED
      BY <1>1
<1>4. k \in Nat /\ k > 0
  <2> HIDE DEF M, q
  <2> QED
      BY <1>1, <1>3
<1>5. a \in Int /\ 2 * M * a <= 2 * c + M /\ 2 * c + M < 2 * M * a + 2 * M
    BY <1>1, RoundBounds
<1>6. i \in Int /\ 2 * k * i <= 2 * t + k /\ 2 * t + k < 2 * k * i + 2 * k
  <2> HIDE DEF k
  <2> QED
      BY <1>4, RoundBounds
<1>7. net = g - a - i
    BY <1>2
<1>8. exact = g * k - c * q - t
  <2>1. c * Scale * Scale = c * q
      BY <1>1
  <2> HIDE DEF k, q
  <2> QED
      BY <1>2, <2>1
<1> DEFINE e == 2 * c - 2 * (M * a)
<1>9. e \in Int /\ -M <= e /\ e < M
  <2>1. M * a \in Int /\ 2 * M * a = 2 * (M * a)
      BY <1>1, <1>5
  <2> HIDE DEF M, a
  <2> DEFINE w == M * a
  <2> HIDE DEF w
  <2>2. w \in Int /\ 2 * w <= 2 * c + M /\ 2 * c + M < 2 * w + 2 * M
      BY <1>5, <2>1 DEF w
  <2>3. 2 * c - 2 * w \in Int /\ -M <= 2 * c - 2 * w /\ 2 * c - 2 * w < M
      BY <1>1, <2>2
  <2> QED
      BY <2>3 DEF w
<1> HIDE DEF M, a, i
<1>10. -k <= e * q /\ e * q < k /\ e * q \in Int
  <2> HIDE DEF e, q
  <2>1. (-M) * q <= e * q /\ e * q < M * q
      BY <1>1, <1>3, <1>9, LessTimes
  <2>2. (-M) * q = -(q * M) /\ M * q = q * M
      BY <1>1, <1>3
  <2> QED
      BY <1>3, <1>9, <2>1, <2>2
<1> HIDE DEF q, k
<1>11. e * q = 2 * (c * q) - 2 * (a * k)
  <2>1. c * q \in Int /\ M * a \in Int /\ (M * a) * q = a * (q * M)
      BY <1>1, <1>3, <1>5
  <2>2. (2 * c - 2 * (M * a)) * q = 2 * (c * q) - 2 * ((M * a) * q)
      BY <1>3, <2>1
  <2> QED
      BY <2>1, <2>2 DEF k
<1>12. c * q \in Int /\ a * k \in Int /\ i * k \in Int /\ g * k \in Int
    BY <1>3, <1>4, <1>5, <1>6
<1>13. 2 * k * i = 2 * (i * k)
    BY <1>4, <1>6
<1>14. net * k = g * k - a * k - i * k /\ net \in Int
  <2>1. net \in Int /\ g - a \in Int
      BY <1>5, <1>6, <1>7
  <2>2. \A v \in Int, w \in Int : (v - w) * k = v * k - w * k
      BY <1>4
  <2>3. (g - a - i) * k = (g - a) * k - i * k /\ (g - a) * k = g * k - a * k
      BY <1>5, <1>6, <2>1, <2>2
  <2> QED
      BY <1>7, <2>1, <2>3
<1> DEFINE cq == c * q
           ak == a * k
           ik == i * k
           gk == g * k
           eq == e * q
           nk == net * k
<1>15. /\ cq \in Int /\ ak \in Int /\ ik \in Int /\ gk \in Int /\ eq \in Int /\ nk = gk - ak - ik
       /\ -k <= eq /\ eq < k /\ eq = 2 * cq - 2 * ak
       /\ 2 * ik <= 2 * t + k /\ 2 * t + k < 2 * ik + 2 * k
       /\ exact = gk - cq - t
    BY <1>6, <1>8, <1>10, <1>11, <1>12, <1>13, <1>14
<1> HIDE DEF cq, ak, ik, gk, eq, nk
<1>16. exact \in Int /\ exact - k <= nk /\ nk < exact + k
    BY <1>4, <1>15
<1> QED
    BY <1>2, <1>4, <1>14, <1>16 DEF nk

\* The amounts of a salary before rounding.
LEMMA BeforeRounding ==
  ASSUME NEW g \in Nat, rates \in RateTables, NEW c, c = Cnps(g, rates.employee)
  PROVE  /\ GoodBrackets(rates.brackets) /\ Scale \in Nat /\ Scale > 0
         /\ c \in Nat /\ c <= g * Scale
         /\ Scale - rates.deduction \in Nat /\ Scale - rates.deduction <= Scale
         /\ TaxableBase(g) = (g * Scale - c) * (Scale - rates.deduction)
         /\ TaxableBase(g) \in Nat /\ TaxableBase(g) <= Scale * (g * Scale - c)
<1> DEFINE M == Scale
           e == rates.employee
           d == rates.deduction
           s == Smaller(g, rates.ceiling)
           v == g * M - c
<1>1. M \in Nat /\ M > 0
    BY RatesAssumption
<1>2. PlausibleRates(rates)
    BY RatesAssumption
<1>3. e \in 0..M /\ d \in 0..M /\ rates.ceiling \in Nat
    BY <1>2 DEF PlausibleRates
<1>4. GoodBrackets(rates.brackets)
    BY <1>2 DEF PlausibleRates, GoodBrackets
<1>5. s \in Nat /\ s <= g
    BY <1>3 DEF Smaller
<1>6. c = s * e
    BY DEF Cnps
<1>7. TaxableBase(g) = v * (M - d)
    BY DEF TaxableBase
<1> HIDE DEF M, e, d, s
<1>8. e \in Nat /\ e <= M /\ M - d \in Nat /\ M - d <= M
    BY <1>1, <1>3
<1>9. c \in Nat /\ c <= g * M
  <2>1. s * e = e * s /\ e * s \in Int /\ 0 <= e * s /\ e * s <= M * s
      BY <1>1, <1>5, <1>8, Portion
  <2>2. s * M <= g * M /\ s * M = M * s /\ g * M \in Int /\ s * M \in Int
      BY <1>1, <1>5, LessTimes
  <2> QED
      BY <1>6, <2>1, <2>2
<1>10. v \in Nat
  <2>1. g * M \in Int
      BY <1>1
  <2> QED
      BY <1>9, <2>1
<1> HIDE DEF v
<1>11. v * (M - d) \in Nat /\ v * (M - d) <= M * v
  <2>1. (M - d) * v \in Int /\ 0 <= (M - d) * v /\ (M - d) * v <= M * v
      BY <1>1, <1>8, <1>10, Portion
  <2>2. v * (M - d) = (M - d) * v
      BY <1>8, <1>10
  <2> QED
      BY <2>1, <2>2
<1> QED
    BY <1>1, <1>4, <1>7, <1>8, <1>9, <1>11 DEF M, d, v

Exact(g) == g * Cube - Cnps(g, rates.employee) * Scale * Scale - Irpp(g)

LEMMA NetAndExact ==
  ASSUME NEW g \in Nat, rates \in RateTables, NEW net, net = CalculatePayslip(g).net
  PROVE  /\ net \in Int /\ Exact(g) \in Int /\ Cube \in Nat /\ Cube > 0
         /\ Exact(g) - Cube <= net * Cube /\ net * Cube < Exact(g) + Cube
<1> DEFINE c == Cnps(g, rates.employee)
           t == Irpp(g)
           B == TaxableBase(g)
           x == Exact(g)
<1>1. net = g - RoundXaf(c, Scale) - RoundXaf(t, Cube)
    BY DEF CalculatePayslip
<1>2. x = g * Cube - c * Scale * Scale - t
    BY DEF Exact
<1>3. c \in Int /\ B \in Nat /\ GoodBrackets(rates.brackets) /\ Scale * Scale \in Nat /\ Scale * Scale > 0
  <2>1. Scale * Scale \in Nat /\ Scale * Scale > 0
      BY RatesAssumption
  <2>2. c = Cnps(g, rates.employee)
      OBVIOUS
  <2> HIDE DEF c
  <2>3. c \in Nat /\ GoodBrackets(rates.brackets) /\ TaxableBase(g) \in Nat
      BY <2>2, BeforeRounding
  <2> QED
      BY <2>1, <2>3
<1>4. t \in Int
  <2>1. t = ApplyIrppBrackets(B, Scale * Scale, rates.brackets)
      BY DEF Irpp
  <2> HIDE DEF t, B
  <2> QED
      BY <1>3, <2>1, TaxGrows
<1> HIDE DEF c, t, B, x
<1>5. /\ net \in Int /\ x \in Int /\ Cube \in Nat /\ Cube > 0
      /\ x - Cube <= net * Cube /\ net * Cube < x + Cube
    BY <1>1, <1>2, <1>3, <1>4, NetOfRounded
<1> QED
    BY <1>5 DEF x

LEMMA ExactIsFair ==
  ASSUME NEW g \in Nat, rates \in RateTables, rates.brackets[1].rate < Scale, TaxableBase(g) > 0
  PROVE  Exact(g) > 0
<1> DEFINE c == Cnps(g, rates.employee)
           B == TaxableBase(g)
           t == Irpp(g)
           M == Scale
           b == rates.brackets
<1>1. c = Cnps(g, rates.employee)
    OBVIOUS
<1>2. t = ApplyIrppBrackets(B, M * M, b)
    BY DEF Irpp
<1>3. Exact(g) = g * (M * M * M) - c * M * M - t
    BY DEF Exact, Cube
<1> HIDE DEF c, t
<1>4. /\ GoodBrackets(b) /\ M \in Nat /\ M > 0 /\ c \in Nat /\ c <= g * M
      /\ B \in Nat /\ B <= M * (g * M - c)
    BY <1>1, BeforeRounding
<1>5. M * M \in Nat /\ M * M > 0
  <2> HIDE DEF M
  <2> QED
      BY <1>4
<1>6. B > 0 /\ b[1].rate < M
    OBVIOUS
<1> HIDE DEF B, b
<1>7. t \in Int /\ t < M * B
  <2>1. ApplyIrppBrackets(B, M * M, b) < M * B
      BY <1>4, <1>5, <1>6, TaxLeaves
  <2>2. ApplyIrppBrackets(B, M * M, b) \in Int
      BY <1>4, <1>5, TaxGrows
  <2> QED
      BY <1>2, <2>1, <2>2
<1> HIDE DEF M
<1> DEFINE w == g * M - c
<1>8. w \in Nat /\ B <= M * w
  <2>1. g * M \in Int
      BY <1>4
  <2> QED
      BY <1>4, <2>1
<1>9. g * (M * M * M) - c * M * M = M * (M * w)
  <2>1. g * M \in Int /\ M * w = M * (g * M) - M * c
      BY <1>4
  <2>2. M * (M * w) = M * (M * (g * M)) - M * (M * c)
      BY <1>4, <2>1
  <2>3. M * (M * (g * M)) = g * (M * M * M) /\ M * (M * c) = c * M * M
      BY <1>4
  <2> QED
      BY <2>2, <2>3
<1> HIDE DEF w
<1>10. M * w \in Int /\ M * B <= M * (M * w) /\ M * B \in Int /\ M * (M * w) \in Int
  <2>1. M * w \in Int
      BY <1>4, <1>8
  <2>2. B * M <= (M * w) * M /\ B * M \in Int /\ (M * w) * M \in Int
      BY <1>4, <1>8, <2>1, LessTimes
  <2>3. B * M = M * B /\ (M * w) * M = M * (M * w)
      BY <1>4, <2>1
  <2> QED
      BY <2>1, <2>2, <2>3
<1> DEFINE X == M * (M * w)
           Y == M * B
<1>11. X \in Int /\ Y \in Int /\ Y <= X /\ t \in Int /\ t < Y /\ Exact(g) = X - t
    BY <1>3, <1>7, <1>9, <1>10
<1> HIDE DEF X, Y
<1> QED
    BY <1>11

\* The net pay of any salary, under any plausible schedule whose first bracket leaves something.
LEMMA FairNet ==
  ASSUME NEW g \in Nat, rates \in RateTables, rates.brackets[1].rate < Scale,
         NEW net, net = CalculatePayslip(g).net
  PROVE  0 <= net /\ net <= g
<1> DEFINE c == Cnps(g, rates.employee)
           t == Irpp(g)
           B == TaxableBase(g)
           a == RoundXaf(c, Scale)
           i == RoundXaf(t, Cube)
           b == rates.brackets
<1>1. net = g - a - i /\ c = Cnps(g, rates.employee) /\ t = ApplyIrppBrackets(B, Scale * Scale, b)
    BY DEF CalculatePayslip, Irpp
<1>2. /\ net \in Int /\ Exact(g) \in Int /\ Cube \in Nat /\ Cube > 0
      /\ Exact(g) - Cube <= net * Cube
    BY NetAndExact
<1>3. B > 0 => Exact(g) > 0
    BY ExactIsFair
<1> HIDE DEF c, t
<1>4. GoodBrackets(b) /\ Scale \in Nat /\ Scale > 0 /\ c \in Nat /\ c <= g * Scale /\ B \in Nat
    BY <1>1, BeforeRounding
<1>5. Scale * Scale \in Nat /\ Scale * Scale > 0
    BY <1>4
<1> HIDE DEF B, b
<1>6. t \in Int /\ 0 <= t /\ (B = 0 => t = 0)
  <2>1. t \in Int /\ 0 <= t /\ t <= Scale * B
    <3>1. B <= B
        BY <1>4
    <3>2. ApplyIrppBrackets(B, Scale * Scale, b) \in Int
        BY <1>4, <1>5, <3>1, TaxGrows
    <3>3. 0 <= ApplyIrppBrackets(B, Scale * Scale, b) /\ ApplyIrppBrackets(B, Scale * Scale, b) <= Scale * B
        BY <1>4, <1>5, TaxBounds
    <3> QED
        BY <1>1, <3>2, <3>3
  <2>2. B = 0 => Scale * B = 0
      BY <1>4
  <2> QED
      BY <2>1, <2>2
<1>7. a \in Int /\ a >= 0 /\ i \in Int /\ i >= 0
  <2>1. Scale \in Nat \ {0} /\ Cube \in Nat \ {0} /\ c \in Nat /\ t \in Nat
      BY <1>2, <1>4, <1>6
  <2>2. a \in Nat
      BY <2>1, RoundNat
  <2>3. i \in Nat
      BY <2>1, RoundNat
  <2> QED
      BY <2>2, <2>3
<1>8. net <= g
    BY <1>1, <1>2, <1>7
<1>9. CASE B = 0
  <2>1. i = 0
      BY <1>2, <1>6, <1>9, RoundNothing
  <2>2. a <= g
    <3>1. 2 * Scale * a <= 2 * c + Scale
        BY <1>4, RoundBounds
    <3> HIDE DEF a
    <3> DEFINE M == Scale
               d == g - a
    <3>2. M \in Nat /\ M > 0 /\ d \in Int
        BY <1>4, <1>7
    <3>3. M * d = M * g - M * a /\ M * g \in Int /\ M * a \in Int /\ g * Scale = M * g
          /\ 2 * Scale * a = 2 * (M * a)
        BY <3>2, <1>7
    <3> DEFINE ma == M * a
               mg == M * g
               md == M * d
    <3>4. ma \in Int /\ mg \in Int /\ md = mg - ma /\ 2 * ma <= 2 * c + M /\ c <= mg
        BY <3>1, <3>3, <1>4
    <3>5. d < 0 => md <= -M
        BY <3>2
    <3> HIDE DEF ma, mg, md, M
    <3>6. ~(d < 0)
        BY <3>2, <3>4, <3>5, <1>4
    <3> QED
        BY <3>2, <3>6, <1>7
  <2> QED
      BY <1>1, <1>7, <1>8, <2>1, <2>2
<1>10. CASE B # 0
  <2>1. B > 0
      BY <1>4, <1>10
  <2>2. Exact(g) > 0
      BY <1>3, <2>1 DEF B
  <2>3. net * Cube > -Cube
      BY <1>2, <2>2
  <2>4. net < 0 => net * Cube <= -Cube
      BY <1>2
  <2>5. ~(net < 0)
      BY <1>2, <2>3, <2>4
  <2> QED
      BY <1>2, <1>8, <2>5
<1> QED
    BY <1>9, <1>10

\* What a franc more of the salary leaves, unrounded.
LEMMA ExactGrows ==
  ASSUME NEW g \in Nat, rates \in RateTables
  PROVE  Exact(g) <= Exact(g + 1)
<1> DEFINE h == g + 1
           c == Cnps(g, rates.employee)
           d == Cnps(h, rates.employee)
           B == TaxableBase(g)
           C == TaxableBase(h)
           t == Irpp(g)
           u == Irpp(h)
           M == Scale
           K == M * M * M
           q == M * M
           f == M - rates.deduction
           b == rates.brackets
<1>1. h \in Nat /\ h = g + 1
    OBVIOUS
<1>2. /\ t = ApplyIrppBrackets(B, q, b) /\ u = ApplyIrppBrackets(C, q, b)
      /\ Exact(g) = g * K - c * M * M - t /\ Exact(h) = h * K - d * M * M - u
    BY DEF Irpp, Exact, Cube
<1>3. c = Cnps(g, rates.employee) /\ d = Cnps(h, rates.employee)
    OBVIOUS
<1>4. d - c \in 0..M
  <2> DEFINE e == rates.employee
             s == Smaller(g, rates.ceiling)
             r == Smaller(h, rates.ceiling)
  <2>1. M \in Nat /\ e \in 0..M /\ rates.ceiling \in Nat
      BY RatesAssumption DEF PlausibleRates
  <2>2. s \in Nat /\ (r = s \/ r = s + 1)
      BY <2>1 DEF Smaller
  <2>3. c = s * e /\ d = r * e
      BY DEF Cnps
  <2> HIDE DEF e, s, r, c, d
  <2>4. (s + 1) * e = s * e + e /\ s * e \in Int
      BY <2>1, <2>2
  <2> DEFINE se == s * e
  <2>5. se \in Int /\ c = se /\ (d = se \/ d = se + e) /\ e \in Int /\ 0 <= e /\ e <= M
      BY <2>1, <2>2, <2>3, <2>4
  <2> HIDE DEF se
  <2> QED
      BY <2>1, <2>5
<1> HIDE DEF c, d, h
<1>5. /\ GoodBrackets(b) /\ M \in Nat /\ M > 0 /\ c \in Nat /\ c <= g * M
      /\ f \in Nat /\ f <= M /\ B = (g * M - c) * f /\ B \in Nat
    BY <1>3, BeforeRounding
<1>6. d \in Nat /\ d <= h * M /\ C = (h * M - d) * f /\ C \in Nat
    BY <1>1, <1>3, BeforeRounding
<1> HIDE DEF B, C, t, u, f, b
<1> DEFINE w == M - (d - c)
<1>7. w \in Nat /\ w <= M
    BY <1>4, <1>5, <1>6
<1>8. h * M = g * M + M /\ g * M \in Int
    BY <1>1, <1>5
<1>9. C - B = f * w
  <2>1. \A v \in Int, z \in Int : v * f - z * f = f * (v - z)
      BY <1>5
  <2>2. h * M - d \in Int /\ g * M - c \in Int /\ (h * M - d) - (g * M - c) = w
      BY <1>5, <1>6, <1>8
  <2> QED
      BY <1>5, <1>6, <2>1, <2>2
<1> HIDE DEF w, M
<1>10. f * w \in Int /\ 0 <= f * w /\ f * w <= M * w
    BY <1>5, <1>7, Portion
<1>11. B <= C
    BY <1>5, <1>6, <1>9, <1>10
<1>12. q \in Nat /\ q > 0
    BY <1>5
<1> HIDE DEF q
<1>13. t \in Int /\ u \in Int /\ u - t <= M * (f * w)
  <2>1. t \in Int /\ u \in Int /\ u - t <= Scale * (C - B)
      BY <1>2, <1>5, <1>6, <1>11, <1>12, TaxGrows
  <2> QED
      BY <1>9, <2>1 DEF M
<1>14. M * (f * w) <= M * (M * w) /\ M * (f * w) \in Int /\ M * (M * w) \in Int
  <2>1. M * w \in Int
      BY <1>5, <1>7
  <2>2. (f * w) * M <= (M * w) * M /\ (f * w) * M \in Int /\ (M * w) * M \in Int
      BY <1>5, <1>10, <2>1, LessTimes
  <2>3. (f * w) * M = M * (f * w) /\ (M * w) * M = M * (M * w)
      BY <1>5, <1>10, <2>1
  <2> QED
      BY <2>2, <2>3
<1>15. M * (M * w) = K - d * M * M + c * M * M
  <2>1. M * w = M * M - M * d + M * c
      BY <1>5, <1>6 DEF w
  <2>2. M * (M * w) = M * (M * M) - M * (M * d) + M * (M * c)
      BY <1>5, <1>6, <2>1
  <2>3. M * (M * M) = K /\ M * (M * d) = d * M * M /\ M * (M * c) = c * M * M
      BY <1>5, <1>6
  <2> QED
      BY <2>2, <2>3
<1>16. K \in Int /\ g * K \in Int /\ h * K = g * K + K /\ c * M * M \in Int /\ d * M * M \in Int
  <2>1. K \in Int
      BY <1>5
  <2>2. c * M * M \in Int /\ d * M * M \in Int
      BY <1>5, <1>6
  <2> HIDE DEF K
  <2>3. g * K \in Int /\ (g + 1) * K = g * K + K
      BY <2>1
  <2> QED
      BY <1>1, <2>1, <2>2, <2>3
<1> DEFINE X == M * (M * w)
           Y == M * (f * w)
           gk == g * K
           hk == h * K
           cq == c * M * M
           dq == d * M * M
<1>17. /\ X \in Int /\ Y \in Int /\ gk \in Int /\ K \in Int /\ cq \in Int /\ dq \in Int
       /\ hk = gk + K /\ X = K - dq + cq /\ Y <= X /\ t \in Int /\ u \in Int /\ u - t <= Y
       /\ Exact(g) = gk - cq - t /\ Exact(h) = hk - dq - u
    BY <1>2, <1>13, <1>14, <1>15, <1>16
<1> HIDE DEF X, Y, gk, hk, cq, dq, K
<1>18. Exact(g) <= Exact(h)
    BY <1>17
<1> QED
    BY <1>18 DEF h

LEMMA NetIsFairSeen ==
  ASSUME PayslipTypeOK, \A s \in RateTables : s.brackets[1].rate < Scale
  PROVE  NetIsFair
<1> DEFINE net == CalculatePayslip(gross).net
           exact == gross * Cube - Cnps(gross, rates.employee) * Scale * Scale
                      - TaxByDefinition(TaxableBase(gross), Scale * Scale, rates.brackets)
<1>1. gross \in Nat /\ rates \in RateTables /\ rates.brackets[1].rate < Scale
    BY RatesAssumption DEF PayslipTypeOK
<1>2. 0 <= net /\ net <= gross
    BY <1>1, FairNet
<1>3. exact = Exact(gross)
  <2>1. GoodBrackets(rates.brackets) /\ TaxableBase(gross) \in Nat /\ Scale \in Nat /\ Scale > 0
      BY <1>1, BeforeRounding
  <2>2. Scale * Scale \in Nat /\ Scale * Scale > 0
      BY <2>1
  <2>3. Irpp(gross) = TaxByDefinition(TaxableBase(gross), Scale * Scale, rates.brackets)
      BY <2>1, <2>2, TaxInSteps DEF Irpp
  <2> QED
      BY <2>3 DEF Exact
<1>4. /\ net \in Int /\ Exact(gross) \in Int /\ Cube \in Nat
      /\ Exact(gross) - Cube <= net * Cube /\ net * Cube < Exact(gross) + Cube
    BY <1>1, NetAndExact
<1>5. net * Cube - exact \in -Cube..Cube
  <2>1. net * Cube \in Int
      BY <1>4
  <2> DEFINE nk == net * Cube
  <2> HIDE DEF nk, exact, net
  <2>2. nk \in Int /\ Exact(gross) - Cube <= nk /\ nk < Exact(gross) + Cube
      BY <1>4, <2>1 DEF nk
  <2>3. nk - exact \in -Cube..Cube
      BY <1>3, <1>4, <2>2
  <2> QED
      BY <2>3 DEF nk
<1> HIDE DEF exact
<1> QED
    BY <1>2, <1>5 DEF NetIsFair, exact

LEMMA RaiseStep ==
  ASSUME PayslipTypeOK, [PayslipNext]_payslipVars
  PROVE  [CalculatePayslip(gross').net >= CalculatePayslip(gross).net - 1]_payslipVars
<1> DEFINE a == CalculatePayslip(gross).net
           b == CalculatePayslip(gross').net
<1> SUFFICES ASSUME PayslipNext PROVE b >= a - 1
    OBVIOUS
<1>1. gross \in Nat /\ gross' = gross + 1 /\ gross' \in Nat /\ rates \in RateTables
    BY RatesAssumption DEF PayslipTypeOK, PayslipNext, Raise
<1>2. Exact(gross) <= Exact(gross + 1)
    BY <1>1, ExactGrows
<1>3. /\ a \in Int /\ Exact(gross) \in Int /\ Cube \in Nat /\ Cube > 0
      /\ a * Cube < Exact(gross) + Cube
    BY <1>1, NetAndExact
<1>4. b \in Int /\ Exact(gross + 1) \in Int /\ Exact(gross + 1) - Cube <= b * Cube
    BY <1>1, NetAndExact
<1> DEFINE x == Exact(gross)
           y == Exact(gross + 1)
           d == b - a
           ak == a * Cube
           bk == b * Cube
           dk == d * Cube
<1> HIDE DEF a, b, x, y
<1>5. d \in Int /\ ak \in Int /\ bk \in Int /\ dk = bk - ak
    BY <1>3, <1>4
<1>6. d <= -2 => dk <= -2 * Cube
    BY <1>3, <1>5
<1>7. x \in Int /\ y \in Int /\ x <= y /\ ak < x + Cube /\ y - Cube <= bk
    BY <1>2, <1>3, <1>4 DEF x, y
<1> HIDE DEF d, ak, bk, dk
<1>8. ~(d <= -2)
    BY <1>3, <1>5, <1>6, <1>7
<1> QED
    BY <1>3, <1>4, <1>5, <1>8 DEF d

-----------------------------------------------------------------------------

USE EmployeesAssumption

-----------------------------------------------------------------------------
(* Hiring *)

\* Candidates who have no row have applied for nothing and are nobody's request.
RowsOfCandidates ==
    /\ \A c \in Candidates : candidate[c] = "absent" => appliedFor[c] = None
    /\ \A w \in Workers : hiring[w].candidate # None => candidate[hiring[w].candidate] # "absent"
    /\ \A w \in Workers : hiring[w].step = "idle" => hiring[w] = NotHiring

\* What a request has loaded of a candidate nobody else was at work on still stands, and
\* so do his stage and his employee.
StandsHired(c) ==
    /\ candidate[c] = "hired" => \E e \in Employees : Jobs(c) = {e}
    /\ candidate[c] # "hired" => Jobs(c) = {}
    /\ \A w \in Workers : hiring[w].candidate = c => hiring[w].stage = candidate[c]

\* Nobody is about to apply for a closed position, unless its closing overlapped with him.
ClosedStands ==
    \A p \in Positions \ hireContested : position[p] = "closed" =>
        \A w \in Workers : hiring[w].position = p => hiring[w].step # "applying"

HInv ==
    /\ HiringTypeOK /\ RowsOfCandidates /\ ClosedStands
    /\ \A c \in Settled : StandsHired(c)

LEMMA InitHInv == HiringInit => HInv
  BY DEF HiringInit, HInv, HiringTypeOK, RowsOfCandidates, StandsHired, ClosedStands, Settled,
         Jobs, NotHiring, Stages

LEMMA HiringTyped == HiringTypeOK /\ HiringNext => HiringTypeOK'
<1> SUFFICES ASSUME HiringTypeOK, HiringNext PROVE HiringTypeOK'
    OBVIOUS
<1> USE DEF HiringTypeOK, Stages
<1>1. ASSUME NEW p \in Positions, CreatePosition(p) PROVE HiringTypeOK'
    BY <1>1 DEF CreatePosition
<1>2. ASSUME NEW w \in Workers, NEW p \in Positions, NEW step \in {"applying", "closing"},
             LoadPosition(w, p, step)
      PROVE  HiringTypeOK'
    BY <1>2 DEF LoadPosition, NotHiring
<1>3. ASSUME NEW w \in Workers, NEW p \in Positions, Close(w, p) PROVE HiringTypeOK'
    BY <1>3 DEF Close, NotHiring
<1>4. ASSUME NEW w \in Workers, NEW p \in Positions, NEW c \in Candidates, CreateCandidate(w, p, c)
      PROVE  HiringTypeOK'
    BY <1>4 DEF CreateCandidate, NotHiring
<1>5. ASSUME NEW w \in Workers, NEW c \in Candidates, LoadCandidate(w, c) PROVE HiringTypeOK'
    BY <1>5 DEF LoadCandidate, NotHiring
<1>6. ASSUME NEW w \in Workers, NEW c \in Candidates, NEW to \in Stages, SetStage(w, c, to)
      PROVE  HiringTypeOK'
    BY <1>6 DEF SetStage, CommitHiring, NotHiring
<1>7. ASSUME NEW w \in Workers, NEW c \in Candidates, NEW e \in Employees, Hire(w, c, e)
      PROVE  HiringTypeOK'
    BY <1>7 DEF Hire, CommitHiring, NotHiring
<1>8. ASSUME NEW w \in Workers, LeaveHiring(w) PROVE HiringTypeOK'
    BY <1>8 DEF LeaveHiring, NotHiring
<1> QED
    BY <1>1, <1>2, <1>3, <1>4, <1>5, <1>6, <1>7, <1>8 DEF HiringNext

LEMMA HInvStep == HInv /\ [HiringNext]_hiringVars => HInv'
<1> SUFFICES ASSUME HInv, HiringNext PROVE HInv'
    BY DEF hiringVars, HInv, HiringTypeOK, RowsOfCandidates, StandsHired, ClosedStands, Settled, Jobs
<1>0. HiringTypeOK /\ HiringTypeOK'
    BY HiringTyped DEF HInv
<1> USE <1>0 DEF RowsOfCandidates, ClosedStands, Settled, StandsHired, Jobs
<1>1. ASSUME NEW p \in Positions, CreatePosition(p) PROVE HInv'
    BY <1>1 DEF CreatePosition, HInv, HiringTypeOK
<1>2. ASSUME NEW w \in Workers, NEW p \in Positions, NEW step \in {"applying", "closing"},
             LoadPosition(w, p, step)
      PROVE  HInv'
    BY <1>2 DEF LoadPosition, NotHiring, HInv, HiringTypeOK
<1>3. ASSUME NEW w \in Workers, NEW p \in Positions, Close(w, p) PROVE HInv'
  <2>1. hiring' = [hiring EXCEPT ![w] = NotHiring]
      BY <1>3 DEF Close
  <2>2. hireContested \subseteq hireContested'
      BY <1>3 DEF Close
  <2> QED
      BY <1>3, <2>1, <2>2 DEF Close, NotHiring, HInv, HiringTypeOK
<1>4. ASSUME NEW w \in Workers, NEW p \in Positions, NEW c \in Candidates, CreateCandidate(w, p, c)
      PROVE  HInv'
    BY <1>4 DEF CreateCandidate, NotHiring, HInv, HiringTypeOK
<1>5. ASSUME NEW w \in Workers, NEW c \in Candidates, LoadCandidate(w, c) PROVE HInv'
    BY <1>5 DEF LoadCandidate, NotHiring, HInv, HiringTypeOK
<1>6. ASSUME NEW w \in Workers, NEW c \in Candidates, NEW to \in Stages, SetStage(w, c, to)
      PROVE  HInv'
    BY <1>6 DEF SetStage, CommitHiring, NotHiring, HInv, HiringTypeOK, Stages
<1>7. ASSUME NEW w \in Workers, NEW c \in Candidates, NEW e \in Employees, Hire(w, c, e)
      PROVE  HInv'
    BY <1>7 DEF Hire, CommitHiring, NotHiring, HInv, HiringTypeOK
<1>8. ASSUME NEW w \in Workers, LeaveHiring(w) PROVE HInv'
    BY <1>8 DEF LeaveHiring, NotHiring, HInv, HiringTypeOK
<1> QED
    BY <1>1, <1>2, <1>3, <1>4, <1>5, <1>6, <1>7, <1>8 DEF HiringNext

LEMMA EmployedOnce == HInv => HiredMeansEmployed
<1> SUFFICES ASSUME HInv, NEW c \in Settled
             PROVE  Cardinality(Jobs(c)) = IF candidate[c] = "hired" THEN 1 ELSE 0
    BY DEF HiredMeansEmployed
<1>1. StandsHired(c)
    BY DEF HInv
<1>2. CASE candidate[c] = "hired"
  <2>1. PICK e \in Employees : Jobs(c) = {e}
      BY <1>1, <1>2 DEF StandsHired
  <2> QED
      BY <1>2, <2>1, FS_Singleton
<1>3. CASE candidate[c] # "hired"
    BY <1>1, <1>3, FS_EmptySet DEF StandsHired
<1> QED
    BY <1>2, <1>3

LEMMA NobodyApplies ==
  ASSUME HInv, [HiringNext]_hiringVars, NEW p \in Positions \ hireContested, position[p] = "closed"
  PROVE  {c \in Candidates : appliedFor'[c] = p} = {c \in Candidates : appliedFor[c] = p}
<1>1. CASE appliedFor' = appliedFor
    BY <1>1
<1>2. ASSUME NEW w \in Workers, NEW q \in Positions, NEW d \in Candidates, CreateCandidate(w, q, d)
      PROVE  {c \in Candidates : appliedFor'[c] = p} = {c \in Candidates : appliedFor[c] = p}
  <2>1. q # p
      BY <1>2 DEF CreateCandidate, HInv, ClosedStands
  <2>2. appliedFor[d] = None /\ appliedFor \in [Candidates -> Positions \cup {None}]
      BY <1>2 DEF CreateCandidate, HInv, RowsOfCandidates, HiringTypeOK
  <2>3. appliedFor' = [appliedFor EXCEPT ![d] = q]
      BY <1>2 DEF CreateCandidate
  <2> QED
      BY <2>1, <2>2, <2>3
<1>3. appliedFor' = appliedFor
      \/ \E w \in Workers, q \in Positions, d \in Candidates : CreateCandidate(w, q, d)
    BY DEF HiringNext, hiringVars, CreatePosition, LoadPosition, Close, LoadCandidate, SetStage,
           Hire, CommitHiring, LeaveHiring
<1> QED
    BY <1>1, <1>2, <1>3

-----------------------------------------------------------------------------
(* Payroll *)

\* Rates are attested to by somebody else than their author, and so they will be by
\* whoever is about to.
Attested ==
    /\ \A s \in Schedules : schedule[s].verifier # None =>
           schedule[s].exists /\ schedule[s].verifier # schedule[s].author
    /\ \A w \in Workers : payroll[w].step = "verify" =>
           /\ payroll[w].schedule \in Schedules /\ schedule[payroll[w].schedule].exists
           /\ payroll[w].admin \notin {None, schedule[payroll[w].schedule].author}

Verified(r) == \E s \in Schedules : run[r].schedule = s /\ schedule[s].verifier # None

\* Who approved a run relied on verified rates, and nobody else is approving it, unless the
\* two overlapped; what a request to approve has found, but for the draft, still holds.
ApprovedOK(r) ==
    /\ run[r].approver # None => Verified(r)
    /\ r \notin approvalContested /\ run[r].approver # None =>
           \A w \in Workers : payroll[w].run = r => payroll[w].step \notin {"draft", "approve"}
ApproverOK(w) ==
    /\ payroll[w].step \in {"draft", "approve"} =>
           payroll[w].run \in Runs /\ run[payroll[w].run].period # None
    /\ payroll[w].step = "approve" => Verified(payroll[w].run)
ApprovalOK == (\A r \in Runs : ApprovedOK(r)) /\ (\A w \in Workers : ApproverOK(w))

\* A period has one run at most, stored or flushed, and a run that is flushed is new.
Making(w) == payroll[w].step \in {"flushed", "computed"}
OneRun ==
    /\ \A r \in Runs : run[r].period = None => run[r] = NoRun
    /\ \A q, r \in Runs : run[q].period = run[r].period /\ run[r].period # None => q = r
    /\ \A w \in Workers : Making(w) =>
           /\ payroll[w].period \in Periods /\ payroll[w].run \in Runs
           /\ payroll[w].schedule \in Schedules /\ run[payroll[w].run] = NoRun
           /\ \A r \in Runs : run[r].period # payroll[w].period
           /\ \A v \in Workers \ {w} :
                  payroll[v].period # payroll[w].period /\ payroll[v].run # payroll[w].run

\* Payslips are of runs there are and employees there are.
PaidEmployees ==
    /\ \A x \in payslips : run[x[1]].period # None /\ employee[x[2]] # None
    /\ \A w \in Workers : \A e \in payroll[w].paid : employee[e] # None

PInv == PayrollTypeOK /\ Attested /\ ApprovalOK /\ OneRun /\ PaidEmployees

LEMMA InitPInv == PayrollInit => PInv
<1> SUFFICES ASSUME PayrollInit PROVE PInv
    OBVIOUS
<1>1. \A s \in Schedules : schedule[s] \in {NoSchedule, Older}
    BY DEF PayrollInit
<1>2. \A s \in Schedules : schedule[s].verifier = None
    BY <1>1 DEF NoSchedule, Older
<1>3. schedule \in [Schedules -> [exists : BOOLEAN, author : Admins \cup {None},
                                 verifier : Admins \cup {None}]]
  <2>1. {NoSchedule, Older} \subseteq [exists : BOOLEAN, author : Admins \cup {None},
                                      verifier : Admins \cup {None}]
      BY DEF NoSchedule, Older
  <2> QED
      BY <2>1 DEF PayrollInit
<1>4. \A w \in Workers : payroll[w].step = "idle" /\ payroll[w].paid = {}
    BY DEF PayrollInit, NoRequest
<1>5. \A r \in Runs : run[r] = NoRun /\ run[r].period = None /\ run[r].approver = None
    BY DEF PayrollInit, NoRun
<1>6. PayrollTypeOK
    BY <1>3 DEF PayrollInit, PayrollTypeOK, NoRun, NoRequest
<1>7. Attested /\ ApprovalOK
    BY <1>2, <1>4, <1>5 DEF Attested, ApprovalOK, ApprovedOK, ApproverOK
<1>8. OneRun /\ PaidEmployees
    BY <1>4, <1>5 DEF PayrollInit, OneRun, Making, PaidEmployees
<1> QED
    BY <1>6, <1>7, <1>8 DEF PInv

Requests == [step : {"idle", "verify", "flushed", "computed", "draft", "approve"},
             admin : Admins \cup {None}, schedule : Schedules \cup {None}, run : Runs \cup {None},
             period : Periods \cup {None}, paid : SUBSET Employees]
RunRows == [period : Periods \cup {None}, schedule : Schedules \cup {None},
            approver : Admins \cup {None}]

LEMMA PayrollTyped == PayrollTypeOK /\ HiringTypeOK /\ PayrollNext => PayrollTypeOK'
<1> SUFFICES ASSUME PayrollTypeOK, HiringTypeOK, PayrollNext PROVE PayrollTypeOK'
    OBVIOUS
<1> USE DEF PayrollTypeOK
<1>1. ASSUME NEW a \in Admins, NEW s \in Schedules, CreateSchedule(a, s) PROVE PayrollTypeOK'
    BY <1>1 DEF CreateSchedule, Older
<1>2. ASSUME NEW w \in Workers, NEW a \in Admins, NEW s \in Schedules, LoadSchedule(w, a, s)
      PROVE  PayrollTypeOK'
    BY <1>2 DEF LoadSchedule, BeginPayroll, NoRequest
<1>3. ASSUME NEW w \in Workers, NEW a \in Admins, NEW r \in Runs, LoadDraft(w, a, r)
      PROVE  PayrollTypeOK'
    BY <1>3 DEF LoadDraft, BeginPayroll, NoRequest
<1>4. ASSUME NEW w \in Workers, NEW s \in Schedules, Verify(w, s) PROVE PayrollTypeOK'
    BY <1>4 DEF Verify, EndPayroll, NoRequest
<1>5. ASSUME NEW w \in Workers, NEW s \in Schedules, NEW r \in Runs, NEW p \in Periods,
             FlushRun(w, r, p, s)
      PROVE  PayrollTypeOK'
    BY <1>5 DEF FlushRun, BeginPayroll, NoRequest
<1>6. ASSUME NEW w \in Workers, NEW r \in Runs, CommitRun(w, r) PROVE PayrollTypeOK'
  <2>1. run[r] \in RunRows /\ payroll[w] \in Requests
      BY DEF RunRows, Requests
  <2>2. [run[r] EXCEPT !.period = payroll[w].period, !.schedule = payroll[w].schedule] \in RunRows
      BY <2>1 DEF RunRows, Requests
  <2>3. payroll[w].paid \subseteq Employees
      BY <2>1 DEF Requests
  <2>4. run' \in [Runs -> RunRows] /\ payslips' \subseteq Runs \X Employees
      BY <1>6, <2>2, <2>3 DEF CommitRun, RunRows
  <2>5. payroll' = [payroll EXCEPT ![w] = NoRequest] /\ UNCHANGED <<schedule, approvalContested>>
      BY <1>6 DEF CommitRun, EndPayroll
  <2> QED
      BY <2>4, <2>5 DEF NoRequest, RunRows
<1>7. ASSUME NEW w \in Workers, NEW r \in Runs, LoadVerified(w, r) PROVE PayrollTypeOK'
  <2>1. payroll[w] \in Requests
      BY DEF Requests
  <2>2. [payroll[w] EXCEPT !.step = "approve"] \in Requests
      BY <2>1 DEF Requests
  <2>3. payroll' \in [Workers -> Requests]
      BY <1>7, <2>2 DEF LoadVerified, Requests
  <2> QED
      BY <1>7, <2>3 DEF LoadVerified, Requests
<1>8. ASSUME NEW w \in Workers, NEW r \in Runs, Approve(w, r) PROVE PayrollTypeOK'
    BY <1>8 DEF Approve, EndPayroll, NoRequest
<1>9. ASSUME NEW w \in Workers, ComputePayslips(w) PROVE PayrollTypeOK'
  <2> DEFINE q == [payroll[w] EXCEPT !.step = "computed",
                                     !.paid = {e \in Employees : employee[e] # None}]
  <2>1. payroll[w] \in Requests
      BY DEF Requests
  <2>2. q \in Requests
      BY <2>1 DEF Requests
  <2>3. payroll' = [payroll EXCEPT ![w] = q] /\ UNCHANGED <<schedule, run, payslips, approvalContested>>
      BY <1>9 DEF ComputePayslips
  <2> QED
      BY <2>2, <2>3 DEF Requests
<1>10. ASSUME NEW w \in Workers, LeavePayroll(w) PROVE PayrollTypeOK'
    BY <1>10 DEF LeavePayroll, EndPayroll, NoRequest
<1> QED
    BY <1>1, <1>2, <1>3, <1>4, <1>5, <1>6, <1>7, <1>8, <1>9, <1>10 DEF PayrollNext

\* What a step does to the request of one worker, and to nobody else's.
LEMMA OneServed ==
  ASSUME PayrollTypeOK, NEW w \in Workers, NEW q, payroll' = [payroll EXCEPT ![w] = q]
  PROVE  payroll'[w] = q /\ \A v \in Workers \ {w} : payroll'[v] = payroll[v]
  BY DEF PayrollTypeOK

LEMMA AttestedStep ==
  ASSUME PayrollTypeOK, Attested, PayrollNext
  PROVE  Attested'
<1> USE PayrollAssumption
<1>1. ASSUME NEW a \in Admins, NEW s \in Schedules, CreateSchedule(a, s) PROVE Attested'
    BY <1>1 DEF CreateSchedule, Older, NoSchedule, Attested, PayrollTypeOK
<1>2. ASSUME NEW w \in Workers, NEW a \in Admins, NEW s \in Schedules, LoadSchedule(w, a, s)
      PROVE  Attested'
  <2> DEFINE q == [NoRequest EXCEPT !.step = "verify", !.admin = a, !.schedule = s]
  <2>1. payroll' = [payroll EXCEPT ![w] = q] /\ UNCHANGED schedule
      BY <1>2 DEF LoadSchedule, BeginPayroll
  <2>2. q.admin = a /\ q.schedule = s /\ a # None
      BY DEF NoRequest
  <2>3. schedule[s].exists /\ schedule[s].author # a
      BY <1>2 DEF LoadSchedule
  <2> QED
      BY <2>1, <2>2, <2>3, OneServed DEF Attested
<1>3. ASSUME NEW w \in Workers, NEW s \in Schedules, Verify(w, s) PROVE Attested'
  <2>1. /\ payroll' = [payroll EXCEPT ![w] = NoRequest]
        /\ schedule' = [schedule EXCEPT ![s].verifier = payroll[w].admin]
      BY <1>3 DEF Verify, EndPayroll
  <2>2. schedule[s].exists /\ payroll[w].admin \notin {None, schedule[s].author}
      BY <1>3 DEF Verify, Attested
  <2>3. /\ \A t \in Schedules : schedule'[t].exists = schedule[t].exists
                                /\ schedule'[t].author = schedule[t].author
        /\ schedule'[s].verifier = payroll[w].admin
        /\ \A t \in Schedules \ {s} : schedule'[t].verifier = schedule[t].verifier
      BY <2>1 DEF PayrollTypeOK
  <2>4. NoRequest.step = "idle"
      BY DEF NoRequest
  <2> QED
      BY <2>1, <2>2, <2>3, <2>4, OneServed DEF Attested
<1>4. ASSUME UNCHANGED schedule,
             NEW w \in Workers, payroll' = [payroll EXCEPT ![w] = payroll'[w]],
             payroll'[w].step # "verify"
      PROVE  Attested'
    BY <1>4, OneServed DEF Attested
<1>5. ASSUME NEW w \in Workers, NEW a \in Admins, NEW r \in Runs, LoadDraft(w, a, r)
      PROVE  Attested'
    BY <1>5, <1>4 DEF LoadDraft, BeginPayroll, NoRequest, PayrollTypeOK
<1>6. ASSUME NEW w \in Workers, NEW s \in Schedules, NEW r \in Runs, NEW p \in Periods,
             FlushRun(w, r, p, s)
      PROVE  Attested'
    BY <1>6, <1>4 DEF FlushRun, BeginPayroll, NoRequest, PayrollTypeOK
<1>7. ASSUME NEW w \in Workers, NEW r \in Runs, CommitRun(w, r) PROVE Attested'
    BY <1>7, <1>4 DEF CommitRun, EndPayroll, NoRequest, PayrollTypeOK
<1>8. ASSUME NEW w \in Workers, NEW r \in Runs, LoadVerified(w, r) PROVE Attested'
    BY <1>8, <1>4 DEF LoadVerified, PayrollTypeOK
<1>9. ASSUME NEW w \in Workers, NEW r \in Runs, Approve(w, r) PROVE Attested'
    BY <1>9, <1>4 DEF Approve, EndPayroll, NoRequest, PayrollTypeOK
<1>10. ASSUME NEW w \in Workers, ComputePayslips(w) PROVE Attested'
    BY <1>10, <1>4 DEF ComputePayslips, PayrollTypeOK
<1>11. ASSUME NEW w \in Workers, LeavePayroll(w) PROVE Attested'
    BY <1>11, <1>4 DEF LeavePayroll, EndPayroll, NoRequest, PayrollTypeOK
<1> QED
    BY <1>1, <1>2, <1>3, <1>5, <1>6, <1>7, <1>8, <1>9, <1>10, <1>11 DEF PayrollNext

\* A run that is there keeps its period and schedule; its approver is only ever set.
LEMMA RunsStay ==
  ASSUME PInv, PayrollNext, NEW r \in Runs, run[r].period # None
  PROVE  run'[r].period = run[r].period /\ run'[r].schedule = run[r].schedule
<1>1. CASE UNCHANGED run
    BY <1>1
<1>2. ASSUME NEW w \in Workers, NEW q \in Runs, CommitRun(w, q)
      PROVE  run'[r] = run[r]
  <2>1. run[q] = NoRun
      BY <1>2 DEF CommitRun, PInv, OneRun, Making
  <2>2. q # r
      BY <2>1 DEF NoRun
  <2> QED
      BY <1>2, <2>2 DEF CommitRun, PInv, PayrollTypeOK
<1>3. ASSUME NEW w \in Workers, NEW q \in Runs, Approve(w, q)
      PROVE  run'[r].period = run[r].period /\ run'[r].schedule = run[r].schedule
    BY <1>3 DEF Approve, PInv, PayrollTypeOK
<1>4. UNCHANGED run \/ \E w \in Workers, q \in Runs : CommitRun(w, q) \/ Approve(w, q)
    BY DEF PayrollNext, CreateSchedule, LoadSchedule, LoadDraft, BeginPayroll, Verify, FlushRun,
           LoadVerified, ComputePayslips, LeavePayroll
<1> QED
    BY <1>1, <1>2, <1>3, <1>4

\* A schedule that is verified stays so.
LEMMA VerifiedStays ==
  ASSUME PInv, PayrollNext, NEW r \in Runs, run[r].period # None, Verified(r)
  PROVE  Verified(r)'
<1>1. PICK s \in Schedules : run[r].schedule = s /\ schedule[s].verifier # None
    BY DEF Verified
<1>2. run'[r].schedule = s
    BY <1>1, RunsStay
<1>3. schedule'[s].verifier # None
  <2>1. CASE UNCHANGED schedule
      BY <1>1, <2>1
  <2>2. ASSUME NEW a \in Admins, NEW t \in Schedules, CreateSchedule(a, t)
        PROVE  schedule'[s].verifier # None
    <3>1. t # s
        BY <1>1, <2>2 DEF CreateSchedule, NoSchedule
    <3> QED
        BY <1>1, <2>2, <3>1 DEF CreateSchedule, PInv, PayrollTypeOK
  <2>3. ASSUME NEW w \in Workers, NEW t \in Schedules, Verify(w, t)
        PROVE  schedule'[s].verifier # None
    <3>1. payroll[w].admin # None
        BY <2>3 DEF Verify, PInv, Attested
    <3> QED
        BY <1>1, <2>3, <3>1 DEF Verify, PInv, PayrollTypeOK
  <2>4. \/ UNCHANGED schedule
        \/ \E a \in Admins, t \in Schedules : CreateSchedule(a, t)
        \/ \E w \in Workers, t \in Schedules : Verify(w, t)
      BY DEF PayrollNext, LoadSchedule, LoadDraft, BeginPayroll, FlushRun, CommitRun, LoadVerified,
             Approve, ComputePayslips, LeavePayroll
  <2> QED
      BY <2>1, <2>2, <2>3, <2>4
<1> QED
    BY <1>2, <1>3 DEF Verified

\* Who goes on with what he was at stays sound.
LEMMA ApproverStays ==
  ASSUME PInv, PayrollNext, NEW v \in Workers, payroll'[v] = payroll[v]
  PROVE  ApproverOK(v)'
<1>1. ApproverOK(v)
    BY DEF PInv, ApprovalOK
<1>2. CASE payroll[v].step \notin {"draft", "approve"}
    BY <1>2 DEF ApproverOK
<1>3. CASE payroll[v].step \in {"draft", "approve"}
  <2>1. payroll[v].run \in Runs /\ run[payroll[v].run].period # None
      BY <1>1, <1>3 DEF ApproverOK
  <2>2. run'[payroll[v].run].period # None
      BY <2>1, RunsStay
  <2>3. payroll[v].step = "approve" => Verified(payroll[v].run)'
      BY <1>1, <2>1, VerifiedStays DEF ApproverOK, Verified
  <2> QED
      BY <2>1, <2>2, <2>3 DEF ApproverOK, Verified
<1> QED
    BY <1>2, <1>3

\* A run nobody begins or goes on to approve stays as sound as it is.
LEMMA ApprovedStays ==
  ASSUME PInv, PayrollNext, NEW r \in Runs, run'[r].approver = run[r].approver,
         approvalContested \subseteq approvalContested',
         NEW w \in Workers, \A v \in Workers \ {w} : payroll'[v] = payroll[v],
         \/ run[r].approver = None
         \/ payroll'[w].step \notin {"draft", "approve"}
         \/ payroll'[w].run = payroll[w].run /\ payroll[w].step = "draft"
  PROVE  ApprovedOK(r)'
<1>1. ApprovedOK(r)
    BY DEF PInv, ApprovalOK
<1>2. CASE run[r].approver = None
    BY <1>2 DEF ApprovedOK
<1>3. CASE run[r].approver # None
  <2>1. Verified(r) /\ run[r].period # None
      BY <1>1, <1>3 DEF ApprovedOK, PInv, OneRun, NoRun
  <2>2. Verified(r)'
      BY <2>1, VerifiedStays
  <2> QED
      BY <1>1, <1>3, <2>2 DEF ApprovedOK
<1> QED
    BY <1>2, <1>3

LEMMA ApprovalStep ==
  ASSUME PInv, PayrollNext
  PROVE  ApprovalOK'
<1> USE PayrollAssumption
<1> SUFFICES (\A r \in Runs : ApprovedOK(r)') /\ (\A w \in Workers : ApproverOK(w)')
    BY DEF ApprovalOK, ApprovedOK, ApproverOK, Verified
<1>t. PayrollTypeOK
    BY DEF PInv
\* A step that approves nothing, and begins no approval.
<1>0. ASSUME NEW w \in Workers, NEW q, payroll' = [payroll EXCEPT ![w] = q],
             q.step \notin {"draft", "approve"}, UNCHANGED approvalContested,
             \A r \in Runs : run'[r].approver = run[r].approver
      PROVE  (\A r \in Runs : ApprovedOK(r)') /\ (\A v \in Workers : ApproverOK(v)')
  <2>1. payroll'[w] = q /\ \A v \in Workers \ {w} : payroll'[v] = payroll[v]
      BY <1>0, <1>t, OneServed
  <2>2. ApproverOK(w)'
      BY <1>0, <2>1 DEF ApproverOK
  <2>3. \A v \in Workers \ {w} : ApproverOK(v)'
      BY <2>1, ApproverStays
  <2>4. \A r \in Runs : ApprovedOK(r)'
      BY <1>0, <2>1, ApprovedStays
  <2> QED
      BY <2>2, <2>3, <2>4
<1>1. ASSUME NEW a \in Admins, NEW s \in Schedules, CreateSchedule(a, s)
      PROVE  (\A r \in Runs : ApprovedOK(r)') /\ (\A v \in Workers : ApproverOK(v)')
  <2>1. UNCHANGED <<run, payroll, approvalContested>>
      BY <1>1 DEF CreateSchedule
  <2>2. \A v \in Workers : ApproverOK(v)'
      BY <2>1, ApproverStays
  <2>3. ASSUME NEW r \in Runs PROVE ApprovedOK(r)'
    <3>1. ApprovedOK(r)
        BY DEF PInv, ApprovalOK
    <3>2. CASE run[r].approver = None
        BY <2>1, <3>2 DEF ApprovedOK
    <3>3. CASE run[r].approver # None
      <4>1. Verified(r) /\ run[r].period # None
          BY <3>1, <3>3 DEF ApprovedOK, PInv, OneRun, NoRun
      <4>2. Verified(r)'
          BY <4>1, VerifiedStays
      <4> QED
          BY <2>1, <3>1, <3>3, <4>2 DEF ApprovedOK
    <3> QED
        BY <3>2, <3>3
  <2> QED
      BY <2>2, <2>3
<1>2. ASSUME NEW w \in Workers, NEW a \in Admins, NEW s \in Schedules, LoadSchedule(w, a, s)
      PROVE  (\A r \in Runs : ApprovedOK(r)') /\ (\A v \in Workers : ApproverOK(v)')
    BY <1>2, <1>0 DEF LoadSchedule, BeginPayroll, NoRequest
<1>3. ASSUME NEW w \in Workers, NEW a \in Admins, NEW r \in Runs, LoadDraft(w, a, r)
      PROVE  (\A q \in Runs : ApprovedOK(q)') /\ (\A v \in Workers : ApproverOK(v)')
  <2> DEFINE q == [NoRequest EXCEPT !.step = "draft", !.admin = a, !.run = r]
  <2>1. /\ payroll' = [payroll EXCEPT ![w] = q] /\ UNCHANGED <<run, approvalContested>>
        /\ run[r] # NoRun /\ run[r].approver = None
      BY <1>3 DEF LoadDraft, BeginPayroll
  <2>2. q.step = "draft" /\ q.run = r
      BY DEF NoRequest
  <2>3. payroll'[w] = q /\ \A v \in Workers \ {w} : payroll'[v] = payroll[v]
      BY <2>1, <1>t, OneServed
  <2>4. run[r].period # None
      BY <2>1 DEF PInv, OneRun
  <2>5. ApproverOK(w)'
      BY <2>1, <2>2, <2>3, <2>4 DEF ApproverOK
  <2>6. \A v \in Workers \ {w} : ApproverOK(v)'
      BY <2>3, ApproverStays
  <2>7. ASSUME NEW x \in Runs PROVE ApprovedOK(x)'
    <3>1. CASE x = r
        BY <2>1, <3>1 DEF ApprovedOK
    <3>2. CASE x # r /\ run[x].approver # None
      <4>1. ApprovedOK(x) /\ run[x].period # None
          BY <3>2 DEF PInv, ApprovalOK, OneRun, NoRun
      <4>2. Verified(x)'
          BY <3>2, <4>1, VerifiedStays DEF ApprovedOK
      <4> QED
          BY <2>1, <2>2, <2>3, <3>2, <4>1, <4>2 DEF ApprovedOK
    <3>3. CASE run[x].approver = None
        BY <2>1, <3>3 DEF ApprovedOK
    <3> QED
        BY <3>1, <3>2, <3>3
  <2> QED
      BY <2>5, <2>6, <2>7
<1>4. ASSUME NEW w \in Workers, NEW s \in Schedules, Verify(w, s)
      PROVE  (\A r \in Runs : ApprovedOK(r)') /\ (\A v \in Workers : ApproverOK(v)')
    BY <1>4, <1>0 DEF Verify, EndPayroll, NoRequest
<1>5. ASSUME NEW w \in Workers, NEW s \in Schedules, NEW r \in Runs, NEW p \in Periods,
             FlushRun(w, r, p, s)
      PROVE  (\A q \in Runs : ApprovedOK(q)') /\ (\A v \in Workers : ApproverOK(v)')
    BY <1>5, <1>0 DEF FlushRun, BeginPayroll, NoRequest
<1>6. ASSUME NEW w \in Workers, NEW r \in Runs, CommitRun(w, r)
      PROVE  (\A q \in Runs : ApprovedOK(q)') /\ (\A v \in Workers : ApproverOK(v)')
  <2>1. /\ payroll' = [payroll EXCEPT ![w] = NoRequest] /\ UNCHANGED approvalContested
        /\ run' = [run EXCEPT ![r] =
                [@ EXCEPT !.period = payroll[w].period, !.schedule = payroll[w].schedule]]
      BY <1>6 DEF CommitRun, EndPayroll
  <2>2. \A q \in Runs : run'[q].approver = run[q].approver
      BY <2>1, <1>t DEF PayrollTypeOK
  <2> QED
      BY <2>1, <2>2, <1>0 DEF NoRequest
<1>7. ASSUME NEW w \in Workers, NEW r \in Runs, LoadVerified(w, r)
      PROVE  (\A q \in Runs : ApprovedOK(q)') /\ (\A v \in Workers : ApproverOK(v)')
  <2>1. /\ payroll[w].step = "draft" /\ payroll[w].run = r /\ Verified(r)
        /\ payroll' = [payroll EXCEPT ![w] = [payroll[w] EXCEPT !.step = "approve"]]
        /\ UNCHANGED <<schedule, run, approvalContested>>
      BY <1>7 DEF LoadVerified, Verified
  <2>2. payroll'[w].step = "approve" /\ payroll'[w].run = r
      BY <2>1, <1>t DEF PayrollTypeOK
  <2>3. \A v \in Workers \ {w} : payroll'[v] = payroll[v]
      BY <2>1, <1>t, OneServed
  <2>4. run[r].period # None
      BY <2>1 DEF PInv, ApprovalOK, ApproverOK
  <2>5. ApproverOK(w)'
      BY <2>1, <2>2, <2>4 DEF ApproverOK, Verified
  <2>6. \A v \in Workers \ {w} : ApproverOK(v)'
      BY <2>3, ApproverStays
  <2>7. \A x \in Runs : ApprovedOK(x)'
      BY <2>1, <2>2, <2>3, ApprovedStays
  <2> QED
      BY <2>5, <2>6, <2>7
<1>8. ASSUME NEW w \in Workers, NEW r \in Runs, Approve(w, r)
      PROVE  (\A q \in Runs : ApprovedOK(q)') /\ (\A v \in Workers : ApproverOK(v)')
  <2>1. /\ payroll[w].step = "approve" /\ payroll[w].run = r
        /\ payroll' = [payroll EXCEPT ![w] = NoRequest]
        /\ run' = [run EXCEPT ![r].approver = payroll[w].admin]
        /\ approvalContested \subseteq approvalContested'
      BY <1>8 DEF Approve, EndPayroll
  <2>2. payroll'[w] = NoRequest /\ \A v \in Workers \ {w} : payroll'[v] = payroll[v]
      BY <2>1, <1>t, OneServed
  <2>3. ApproverOK(w)' /\ payroll'[w].step = "idle"
      BY <2>2 DEF ApproverOK, NoRequest
  <2>4. \A v \in Workers \ {w} : ApproverOK(v)'
      BY <2>2, ApproverStays
  <2>5. ASSUME NEW x \in Runs \ {r} PROVE ApprovedOK(x)'
    <3>1. run'[x] = run[x]
        BY <2>1, <1>t DEF PayrollTypeOK
    <3> QED
        BY <2>1, <2>2, <2>3, <3>1, ApprovedStays
  <2>6. ApprovedOK(r)'
    <3>1. Verified(r) /\ run[r].period # None
        BY <2>1 DEF PInv, ApprovalOK, ApproverOK
    <3>2. Verified(r)'
        BY <3>1, VerifiedStays
    <3>3. r \notin approvalContested' =>
              \A v \in Workers : payroll'[v].run = r => payroll'[v].step \notin {"draft", "approve"}
        BY <1>8, <2>2, <2>3 DEF Approve
    <3> QED
        BY <3>2, <3>3 DEF ApprovedOK
  <2> QED
      BY <2>3, <2>4, <2>5, <2>6
<1>9. ASSUME NEW w \in Workers, ComputePayslips(w)
      PROVE  (\A r \in Runs : ApprovedOK(r)') /\ (\A v \in Workers : ApproverOK(v)')
  <2>1. payroll[w] \in Requests
      BY <1>t DEF PayrollTypeOK, Requests
  <2> DEFINE q == [payroll[w] EXCEPT !.step = "computed",
                                     !.paid = {e \in Employees : employee[e] # None}]
  <2>2. q.step = "computed"
      BY <2>1 DEF Requests
  <2>3. payroll' = [payroll EXCEPT ![w] = q] /\ UNCHANGED <<run, approvalContested>>
      BY <1>9 DEF ComputePayslips
  <2> HIDE DEF q
  <2> QED
      BY <2>2, <2>3, <1>0
<1>10. ASSUME NEW w \in Workers, LeavePayroll(w)
       PROVE  (\A r \in Runs : ApprovedOK(r)') /\ (\A v \in Workers : ApproverOK(v)')
    BY <1>10, <1>0 DEF LeavePayroll, EndPayroll, NoRequest
<1> QED
    BY <1>1, <1>2, <1>3, <1>4, <1>5, <1>6, <1>7, <1>8, <1>9, <1>10 DEF PayrollNext

\* A step that makes no run: whoever makes one goes on.
LEMMA NoNewRun ==
  ASSUME PInv, UNCHANGED run, NEW w \in Workers, NEW q, payroll' = [payroll EXCEPT ![w] = q],
         q.period \in {None, payroll[w].period},
         q.run \in {None, payroll[w].run} \/ (q.run \in Runs /\ run[q.run] # NoRun),
         q.step \in {"flushed", "computed"} =>
             Making(w) /\ q.run = payroll[w].run /\ q.period = payroll[w].period
                       /\ q.schedule = payroll[w].schedule
  PROVE  OneRun'
<1>1. payroll'[w] = q /\ \A v \in Workers \ {w} : payroll'[v] = payroll[v]
    BY OneServed DEF PInv
<1> QED
    BY <1>1, PayrollAssumption DEF PInv, OneRun, Making

LEMMA OneRunStep ==
  ASSUME PInv, PayrollNext
  PROVE  OneRun'
<1>t. PayrollTypeOK
    BY DEF PInv
<1>1. ASSUME NEW a \in Admins, NEW s \in Schedules, CreateSchedule(a, s) PROVE OneRun'
    BY <1>1 DEF CreateSchedule, PInv, OneRun, Making
<1>2. ASSUME NEW w \in Workers, NEW a \in Admins, NEW s \in Schedules, LoadSchedule(w, a, s)
      PROVE  OneRun'
  <2> DEFINE q == [NoRequest EXCEPT !.step = "verify", !.admin = a, !.schedule = s]
  <2>1. payroll' = [payroll EXCEPT ![w] = q] /\ UNCHANGED run
      BY <1>2 DEF LoadSchedule, BeginPayroll
  <2>2. q.step = "verify" /\ q.run = None /\ q.period = None
      BY DEF NoRequest
  <2> HIDE DEF q
  <2> QED
      BY <2>1, <2>2, NoNewRun
<1>3. ASSUME NEW w \in Workers, NEW a \in Admins, NEW r \in Runs, LoadDraft(w, a, r)
      PROVE  OneRun'
  <2> DEFINE q == [NoRequest EXCEPT !.step = "draft", !.admin = a, !.run = r]
  <2>1. payroll' = [payroll EXCEPT ![w] = q] /\ UNCHANGED run /\ run[r] # NoRun
      BY <1>3 DEF LoadDraft, BeginPayroll
  <2>2. q.step = "draft" /\ q.run = r /\ q.period = None
      BY DEF NoRequest
  <2> HIDE DEF q
  <2> QED
      BY <2>1, <2>2, NoNewRun
<1>4. ASSUME NEW w \in Workers, NEW s \in Schedules, Verify(w, s) PROVE OneRun'
    BY <1>4, NoNewRun DEF Verify, EndPayroll, NoRequest
<1>5. ASSUME NEW w \in Workers, NEW s \in Schedules, NEW r \in Runs, NEW p \in Periods,
             FlushRun(w, r, p, s)
      PROVE  OneRun'
  <2> DEFINE q == [NoRequest EXCEPT !.step = "flushed", !.schedule = s, !.run = r, !.period = p]
  <2>1. /\ payroll' = [payroll EXCEPT ![w] = q] /\ UNCHANGED run
        /\ \A v \in Workers : payroll[v].period # p /\ payroll[v].run # r
        /\ \A x \in Runs : run[x].period # p
        /\ run[r] = NoRun
      BY <1>5 DEF FlushRun, BeginPayroll
  <2>2. q.run = r /\ q.period = p /\ q.schedule = s
      BY DEF NoRequest
  <2>3. payroll'[w] = q /\ \A v \in Workers \ {w} : payroll'[v] = payroll[v]
      BY <2>1, <1>t, OneServed
  <2> HIDE DEF q
  <2> QED
      BY <2>1, <2>2, <2>3 DEF PInv, OneRun, Making
<1>6. ASSUME NEW w \in Workers, NEW r \in Runs, CommitRun(w, r) PROVE OneRun'
  <2> DEFINE p == payroll[w].period
  <2>1. /\ payroll' = [payroll EXCEPT ![w] = NoRequest] /\ Making(w) /\ payroll[w].run = r
        /\ run' = [run EXCEPT ![r] =
                [run[r] EXCEPT !.period = payroll[w].period, !.schedule = payroll[w].schedule]]
      BY <1>6 DEF CommitRun, EndPayroll, Making
  <2>2. /\ p \in Periods /\ run[r] = NoRun /\ \A x \in Runs : run[x].period # p
        /\ \A v \in Workers \ {w} : payroll[v].period # p /\ payroll[v].run # r
      BY <2>1 DEF PInv, OneRun
  <2>3. run'[r].period = p /\ \A x \in Runs \ {r} : run'[x] = run[x]
      BY <2>1, <1>t DEF PayrollTypeOK
  <2>4. payroll'[w] = NoRequest /\ \A v \in Workers \ {w} : payroll'[v] = payroll[v]
      BY <2>1, <1>t, OneServed
  <2>5. p # None
      BY <2>2, PayrollAssumption
  <2>6. \A x \in Runs : run'[x].period = None => run'[x] = NoRun
      BY <2>3, <2>5 DEF PInv, OneRun
  <2>7. \A x, y \in Runs : run'[x].period = run'[y].period /\ run'[x].period # None => x = y
      BY <2>2, <2>3 DEF PInv, OneRun
  <2>8. ASSUME NEW v \in Workers, Making(v)'
        PROVE  /\ payroll'[v].period \in Periods /\ payroll'[v].run \in Runs
               /\ payroll'[v].schedule \in Schedules /\ run'[payroll'[v].run] = NoRun
               /\ \A x \in Runs : run'[x].period # payroll'[v].period
               /\ \A u \in Workers \ {v} :
                      payroll'[u].period # payroll'[v].period /\ payroll'[u].run # payroll'[v].run
    <3>1. v # w /\ payroll'[v] = payroll[v] /\ Making(v)
        BY <2>4, <2>8 DEF Making, NoRequest
    <3>2. /\ payroll[v].period \in Periods /\ payroll[v].run \in Runs
          /\ payroll[v].schedule \in Schedules /\ run[payroll[v].run] = NoRun
          /\ \A x \in Runs : run[x].period # payroll[v].period
          /\ \A u \in Workers \ {v} :
                 payroll[u].period # payroll[v].period /\ payroll[u].run # payroll[v].run
        BY <3>1 DEF PInv, OneRun
    <3>3. payroll[v].run # r /\ payroll[v].period # p
        BY <2>2, <3>1
    <3>4. NoRequest.run = None /\ NoRequest.period = None
        BY DEF NoRequest
    <3> QED
        BY <2>3, <2>4, <3>1, <3>2, <3>3, <3>4, PayrollAssumption
  <2> QED
      BY <2>6, <2>7, <2>8 DEF OneRun, Making
<1>7. ASSUME NEW w \in Workers, NEW r \in Runs, LoadVerified(w, r) PROVE OneRun'
  <2> DEFINE q == [payroll[w] EXCEPT !.step = "approve"]
  <2>1. payroll' = [payroll EXCEPT ![w] = q] /\ UNCHANGED run
      BY <1>7 DEF LoadVerified
  <2>2. q.step = "approve" /\ q.run = payroll[w].run /\ q.period = payroll[w].period
      BY <1>t DEF PayrollTypeOK
  <2> HIDE DEF q
  <2> QED
      BY <2>1, <2>2, NoNewRun
<1>8. ASSUME NEW w \in Workers, NEW r \in Runs, Approve(w, r) PROVE OneRun'
  <2>1. /\ payroll' = [payroll EXCEPT ![w] = NoRequest]
        /\ run' = [run EXCEPT ![r].approver = payroll[w].admin]
      BY <1>8 DEF Approve, EndPayroll
  <2>2. run[r].period # None
      BY <1>8 DEF Approve, PInv, ApprovalOK, ApproverOK
  <2>3. /\ \A x \in Runs : run'[x].period = run[x].period
        /\ \A x \in Runs \ {r} : run'[x] = run[x]
      BY <2>1, <1>t DEF PayrollTypeOK
  <2>4. payroll'[w] = NoRequest /\ \A v \in Workers \ {w} : payroll'[v] = payroll[v]
      BY <2>1, <1>t, OneServed
  <2>5. NoRequest.step = "idle" /\ NoRequest.run = None /\ NoRequest.period = None
      BY DEF NoRequest
  <2>6. \A v \in Workers : Making(v)' => Making(v) /\ payroll[v].run # r
      BY <2>2, <2>4, <2>5 DEF Making, PInv, OneRun, NoRun
  <2> QED
      BY <2>2, <2>3, <2>4, <2>5, <2>6, PayrollAssumption DEF PInv, OneRun, Making
<1>9. ASSUME NEW w \in Workers, ComputePayslips(w) PROVE OneRun'
  <2> DEFINE q == [payroll[w] EXCEPT !.step = "computed",
                                     !.paid = {e \in Employees : employee[e] # None}]
  <2>1. payroll[w] \in Requests /\ Making(w)
      BY <1>9, <1>t DEF PayrollTypeOK, Requests, ComputePayslips, Making
  <2>2. q.run = payroll[w].run /\ q.period = payroll[w].period /\ q.schedule = payroll[w].schedule
      BY <2>1 DEF Requests
  <2>3. payroll' = [payroll EXCEPT ![w] = q] /\ UNCHANGED run
      BY <1>9 DEF ComputePayslips
  <2> HIDE DEF q
  <2> QED
      BY <2>1, <2>2, <2>3, NoNewRun
<1>10. ASSUME NEW w \in Workers, LeavePayroll(w) PROVE OneRun'
    BY <1>10, NoNewRun DEF LeavePayroll, EndPayroll, NoRequest
<1> QED
    BY <1>1, <1>2, <1>3, <1>4, <1>5, <1>6, <1>7, <1>8, <1>9, <1>10 DEF PayrollNext

LEMMA PaidStep ==
  ASSUME PInv, PayrollNext, employee' = employee
  PROVE  PaidEmployees'
<1>t. PayrollTypeOK /\ PaidEmployees
    BY DEF PInv
<1>1. \A x \in Runs : run[x].period # None => run'[x].period # None
    BY RunsStay
<1>2. ASSUME NEW w \in Workers, NEW q, payroll' = [payroll EXCEPT ![w] = q], payslips' = payslips,
             \A e \in q.paid : employee[e] # None
      PROVE  PaidEmployees'
  <2>1. payroll'[w] = q /\ \A v \in Workers \ {w} : payroll'[v] = payroll[v]
      BY <1>2, <1>t, OneServed
  <2> QED
      BY <1>1, <1>2, <1>t, <2>1 DEF PaidEmployees, PayrollTypeOK
<1>3. NoRequest.paid = {}
    BY DEF NoRequest
<1>4. ASSUME NEW w \in Workers, NEW r \in Runs, CommitRun(w, r) PROVE PaidEmployees'
  <2>1. /\ payroll' = [payroll EXCEPT ![w] = NoRequest]
        /\ payslips' = payslips \cup ({r} \X payroll[w].paid)
        /\ run' = [run EXCEPT ![r] =
                [run[r] EXCEPT !.period = payroll[w].period, !.schedule = payroll[w].schedule]]
        /\ payroll[w].period \in Periods
      BY <1>4 DEF CommitRun, EndPayroll, PInv, OneRun, Making
  <2>2. run'[r].period # None
      BY <2>1, <1>t, PayrollAssumption DEF PayrollTypeOK
  <2>3. payroll'[w] = NoRequest /\ \A v \in Workers \ {w} : payroll'[v] = payroll[v]
      BY <2>1, <1>t, OneServed
  <2>4. \A x \in payslips' : run'[x[1]].period # None /\ employee[x[2]] # None
      BY <1>1, <1>t, <2>1, <2>2 DEF PaidEmployees, PayrollTypeOK
  <2> QED
      BY <1>3, <1>t, <2>3, <2>4 DEF PaidEmployees
<1>5. ASSUME NEW w \in Workers, ComputePayslips(w) PROVE PaidEmployees'
  <2> DEFINE q == [payroll[w] EXCEPT !.step = "computed",
                                     !.paid = {e \in Employees : employee[e] # None}]
  <2>1. q.paid = {e \in Employees : employee[e] # None}
      BY <1>t DEF PayrollTypeOK
  <2>2. payroll' = [payroll EXCEPT ![w] = q] /\ UNCHANGED payslips
      BY <1>5 DEF ComputePayslips
  <2> HIDE DEF q
  <2> QED
      BY <2>1, <2>2, <1>2
<1>6. ASSUME NEW w \in Workers, NEW a \in Admins, NEW s \in Schedules, LoadSchedule(w, a, s)
      PROVE  PaidEmployees'
  <2> DEFINE q == [NoRequest EXCEPT !.step = "verify", !.admin = a, !.schedule = s]
  <2>1. payroll' = [payroll EXCEPT ![w] = q] /\ UNCHANGED payslips
      BY <1>6 DEF LoadSchedule, BeginPayroll
  <2>2. q.paid = {}
      BY DEF NoRequest
  <2> HIDE DEF q
  <2> QED
      BY <2>1, <2>2, <1>2
<1>7. ASSUME NEW w \in Workers, NEW a \in Admins, NEW r \in Runs, LoadDraft(w, a, r)
      PROVE  PaidEmployees'
  <2> DEFINE q == [NoRequest EXCEPT !.step = "draft", !.admin = a, !.run = r]
  <2>1. payroll' = [payroll EXCEPT ![w] = q] /\ UNCHANGED payslips
      BY <1>7 DEF LoadDraft, BeginPayroll
  <2>2. q.paid = {}
      BY DEF NoRequest
  <2> HIDE DEF q
  <2> QED
      BY <2>1, <2>2, <1>2
<1>8. ASSUME NEW w \in Workers, NEW s \in Schedules, NEW r \in Runs, NEW p \in Periods,
             FlushRun(w, r, p, s)
      PROVE  PaidEmployees'
  <2> DEFINE q == [NoRequest EXCEPT !.step = "flushed", !.schedule = s, !.run = r, !.period = p]
  <2>1. payroll' = [payroll EXCEPT ![w] = q] /\ UNCHANGED payslips
      BY <1>8 DEF FlushRun, BeginPayroll
  <2>2. q.paid = {}
      BY DEF NoRequest
  <2> HIDE DEF q
  <2> QED
      BY <2>1, <2>2, <1>2
<1>9. ASSUME NEW w \in Workers, NEW r \in Runs, LoadVerified(w, r) PROVE PaidEmployees'
  <2> DEFINE q == [payroll[w] EXCEPT !.step = "approve"]
  <2>1. q.paid = payroll[w].paid
      BY <1>t DEF PayrollTypeOK
  <2>2. payroll' = [payroll EXCEPT ![w] = q] /\ UNCHANGED payslips
      BY <1>9 DEF LoadVerified
  <2> HIDE DEF q
  <2> QED
      BY <2>1, <2>2, <1>2, <1>t DEF PaidEmployees
<1>10. ASSUME NEW w \in Workers, EndPayroll(w), UNCHANGED payslips PROVE PaidEmployees'
    BY <1>10, <1>2, <1>3 DEF EndPayroll
<1>11. ASSUME UNCHANGED <<payroll, payslips>> PROVE PaidEmployees'
    BY <1>1, <1>11, <1>t DEF PaidEmployees, PayrollTypeOK
<1> QED
    BY <1>4, <1>5, <1>6, <1>7, <1>8, <1>9, <1>10, <1>11
       DEF PayrollNext, CreateSchedule, Verify, Approve, LeavePayroll

-----------------------------------------------------------------------------
(* Hiring and payroll *)

PersonnelIInv == HInv /\ PInv

LEMMA InitPersonnel == PersonnelInit => PersonnelIInv
  BY InitHInv, InitPInv DEF PersonnelInit, PersonnelIInv

\* Employees stay, so payslips stay those of employees.
LEMMA EmployeesStay ==
  ASSUME HInv, HiringNext, NEW e \in Employees, employee[e] # None
  PROVE  employee'[e] = employee[e]
  BY DEF HInv, HiringTypeOK, HiringNext, CreatePosition, LoadPosition, Close, CreateCandidate,
         LoadCandidate, SetStage, Hire, CommitHiring, LeaveHiring

LEMMA PersonnelStep == PersonnelIInv /\ [PersonnelNext]_personnelVars => PersonnelIInv'
<1> SUFFICES ASSUME PersonnelIInv, [PersonnelNext]_personnelVars PROVE PersonnelIInv'
    OBVIOUS
<1> USE DEF PersonnelIInv
<1>1. ASSUME HiringNext, UNCHANGED payrollVars PROVE PersonnelIInv'
  <2>1. HInv'
      BY <1>1, HInvStep
  <2>2. \A e \in Employees : employee[e] # None => employee'[e] # None
      BY <1>1, EmployeesStay
  <2>3. PayrollTypeOK' /\ Attested' /\ ApprovalOK' /\ OneRun'
      BY <1>1 DEF PInv, payrollVars, PayrollTypeOK, Attested, ApprovalOK, ApprovedOK, ApproverOK,
                  Verified, OneRun, Making
  <2>4. PaidEmployees'
      BY <1>1, <2>2 DEF PInv, payrollVars, PayrollTypeOK, PaidEmployees
  <2> QED
      BY <2>1, <2>3, <2>4 DEF PInv
<1>2. ASSUME PayrollNext, UNCHANGED hiringVars PROVE PersonnelIInv'
  <2>1. HInv'
      BY <1>2, HInvStep
  <2>2. employee' = employee /\ HiringTypeOK
      BY <1>2 DEF hiringVars, HInv
  <2>3. PayrollTypeOK'
      BY <1>2, <2>2, PayrollTyped DEF PInv
  <2>4. Attested'
      BY <1>2, AttestedStep DEF PInv
  <2> QED
      BY <1>2, <2>1, <2>2, <2>3, <2>4, ApprovalStep, OneRunStep, PaidStep DEF PInv
<1>3. ASSUME UNCHANGED personnelVars PROVE PersonnelIInv'
  <2>1. HInv'
      BY <1>3, HInvStep DEF personnelVars, hiringVars
  <2>2. UNCHANGED <<schedule, run, payslips, payroll, approvalContested, employee>>
      BY <1>3 DEF personnelVars, payrollVars, hiringVars
  <2>3. PInv'
      BY <2>2 DEF PInv, PayrollTypeOK, Attested, ApprovalOK, ApprovedOK, ApproverOK, Verified,
                  OneRun, Making, PaidEmployees
  <2> QED
      BY <2>1, <2>3
<1> QED
    BY <1>1, <1>2, <1>3 DEF PersonnelNext

LEMMA FourEyesSeen == PersonnelIInv => FourEyes
  BY DEF PersonnelIInv, PInv, ApprovalOK, ApprovedOK, Verified, Attested, FourEyes

\* Two payslips of one period are of one run, and two of a settled candidate of one
\* employee.
LEMMA PaidOnceSeen == PersonnelIInv => PaidOnce
<1> SUFFICES ASSUME PersonnelIInv, NEW x \in payslips, NEW y \in payslips,
                    run[x[1]].period = run[y[1]].period,
                    x[2] = y[2] \/ (employee[x[2]] = employee[y[2]] /\ employee[x[2]] \in Settled)
             PROVE  x = y
    BY DEF PaidOnce
<1>1. x \in Runs \X Employees /\ y \in Runs \X Employees
    BY DEF PersonnelIInv, PInv, PayrollTypeOK
<1>2. x[1] = y[1]
    BY <1>1 DEF PersonnelIInv, PInv, OneRun, PaidEmployees
<1>3. ASSUME employee[x[2]] = employee[y[2]], employee[x[2]] \in Settled PROVE x[2] = y[2]
  <2> DEFINE c == employee[x[2]]
  <2>1. x[2] \in Jobs(c) /\ y[2] \in Jobs(c)
      BY <1>1, <1>3 DEF Jobs
  <2>2. StandsHired(c)
      BY <1>3 DEF PersonnelIInv, HInv
  <2>3. PICK e \in Employees : Jobs(c) = {e}
      BY <2>1, <2>2 DEF StandsHired
  <2> QED
      BY <2>1, <2>3
<1> QED
    BY <1>1, <1>2, <1>3

LEMMA ApprovalKept ==
  ASSUME PersonnelIInv, [PersonnelNext]_personnelVars,
         NEW r \in Runs \ approvalContested, run[r].approver # None
  PROVE  /\ run'[r] = run[r]
         /\ {x \in payslips' : x[1] = r} = {x \in payslips : x[1] = r}
<1>1. CASE UNCHANGED <<run, payslips>>
    BY <1>1
<1>2. ASSUME NEW w \in Workers, NEW q \in Runs, CommitRun(w, q)
      PROVE  /\ run'[r] = run[r]
             /\ {x \in payslips' : x[1] = r} = {x \in payslips : x[1] = r}
  <2>1. q # r
      BY <1>2 DEF CommitRun, PersonnelIInv, PInv, OneRun, Making, NoRun
  <2>2. run'[r] = run[r]
      BY <1>2, <2>1 DEF CommitRun, PersonnelIInv, PInv, PayrollTypeOK
  <2>3. payslips' = payslips \cup ({q} \X payroll[w].paid)
      BY <1>2 DEF CommitRun
  <2> QED
      BY <2>1, <2>2, <2>3
<1>3. ASSUME NEW w \in Workers, NEW q \in Runs, Approve(w, q)
      PROVE  run'[r] = run[r] /\ payslips' = payslips
  <2>1. q # r
      BY <1>3 DEF Approve, PersonnelIInv, PInv, ApprovalOK, ApprovedOK
  <2> QED
      BY <1>3, <2>1 DEF Approve, PersonnelIInv, PInv, PayrollTypeOK
<1>4. \/ UNCHANGED <<run, payslips>>
      \/ \E w \in Workers, q \in Runs : CommitRun(w, q) \/ Approve(w, q)
    BY DEF PersonnelNext, personnelVars, payrollVars, PayrollNext, CreateSchedule, LoadSchedule,
           LoadDraft, BeginPayroll, Verify, FlushRun, LoadVerified, ComputePayslips, LeavePayroll
<1> QED
    BY <1>1, <1>2, <1>3, <1>4

-----------------------------------------------------------------------------
(* Leave *)

Told(l) == {n \in Notes : note[n].leave = l}
HasAccount(l) == UserOf[leave[l].employee] # None

\* A request nobody else decides is still as the one who decides it has found it.
DecisionOK(l) ==
    /\ leave[l] # NoLeave => leave[l].employee \in Employees
    /\ \A w \in Workers : deciding[w].leave = l => leave[l] # NoLeave
    /\ l \notin leaveContested =>
           \A w \in Workers : deciding[w].leave = l => leave[l].status = "pending"

\* What is told of a request is told once, and by its decision.
ToldOK(l) ==
    /\ leave[l].status = "pending" \/ ~HasAccount(l) => Told(l) = {}
    /\ leave[l].status # "pending" /\ HasAccount(l) =>
           \E n \in Notes : Told(l) = {n} /\ note[n].verdict = leave[l].status

LInv ==
    /\ LeaveTypeOK
    /\ \A l \in Leaves : DecisionOK(l)
    /\ \A l \in Leaves \ leaveContested : ToldOK(l)

LEMMA InitLInv == LeaveInit => LInv
<1> SUFFICES ASSUME LeaveInit PROVE LInv
    OBVIOUS
<1>1. LeaveTypeOK
    BY DEF LeaveInit, LeaveTypeOK, NoLeave, NoNote, NotDeciding, Verdicts
<1>2. ASSUME NEW l \in Leaves PROVE DecisionOK(l) /\ ToldOK(l)
  <2>1. leave[l] = NoLeave /\ leave[l].status = "pending" /\ \A w \in Workers : deciding[w].leave = None
      BY DEF LeaveInit, NoLeave, NotDeciding
  <2>2. Told(l) = {}
      BY LeaveAssumption DEF LeaveInit, Told, NoNote
  <2> QED
      BY <2>1, <2>2, LeaveAssumption DEF DecisionOK, ToldOK
<1> QED
    BY <1>1, <1>2 DEF LInv

LEMMA LInvStep == LInv /\ [LeaveNext]_leaveVars => LInv'
<1> SUFFICES ASSUME LInv, [LeaveNext]_leaveVars PROVE LInv'
    OBVIOUS
<1>t. LeaveTypeOK
    BY DEF LInv
<1> USE LeaveAssumption DEF HasAccount
<1>1. ASSUME NEW u \in Users, NEW l \in Leaves, CreateLeave(u, l) PROVE LInv'
  <2>1. PICK e \in Own(u) : leave' = [leave EXCEPT ![l].employee = e]
      BY <1>1 DEF CreateLeave
  <2>2. leave[l] = NoLeave /\ UNCHANGED <<note, deciding, leaveContested>> /\ e \in Employees
      BY <1>1 DEF CreateLeave, Own
  <2>3. LeaveTypeOK'
      BY <2>1, <2>2, <1>t DEF LeaveTypeOK
  <2>4. leave'[l].employee = e /\ leave'[l].status = "pending" /\ leave[l].status = "pending"
      BY <2>1, <2>2, <1>t DEF LeaveTypeOK, NoLeave
  <2>5. \A k \in Leaves \ {l} : leave'[k] = leave[k]
      BY <2>1, <1>t DEF LeaveTypeOK
  <2>6. \A w \in Workers : deciding[w].leave # l
      BY <2>2 DEF LInv, DecisionOK
  <2>7. \A k \in Leaves : DecisionOK(k)'
      BY <2>2, <2>4, <2>5, <2>6 DEF LInv, DecisionOK
  <2>8. ASSUME NEW k \in Leaves \ leaveContested PROVE ToldOK(k)'
    <3>1. Told(k)' = Told(k) /\ ToldOK(k)
        BY <2>2 DEF Told, LInv
    <3>2. CASE k = l
        BY <2>4, <3>1, <3>2 DEF ToldOK
    <3>3. CASE k # l
        BY <2>2, <2>5, <3>1, <3>3 DEF ToldOK
    <3> QED
        BY <3>2, <3>3
  <2> QED
      BY <2>2, <2>3, <2>7, <2>8 DEF LInv
<1>2. ASSUME NEW u \in Users, NEW l \in Leaves, NEW w \in Workers, LoadLeave(w, u, l) PROVE LInv'
  <2> DEFINE q == [leave |-> l, user |-> u]
  <2>1. /\ deciding' = [deciding EXCEPT ![w] = q] /\ UNCHANGED <<leave, note, leaveContested>>
        /\ leave[l] # NoLeave /\ leave[l].status = "pending"
      BY <1>2 DEF LoadLeave
  <2>2. LeaveTypeOK'
      BY <2>1, <1>t DEF LeaveTypeOK
  <2>3. deciding'[w] = q /\ \A v \in Workers \ {w} : deciding'[v] = deciding[v]
      BY <2>1, <1>t DEF LeaveTypeOK
  <2>4. \A k \in Leaves : DecisionOK(k)'
      BY <2>1, <2>3 DEF LInv, DecisionOK
  <2>5. \A k \in Leaves : Told(k)' = Told(k)
      BY <2>1 DEF Told
  <2>6. \A k \in Leaves \ leaveContested : ToldOK(k)'
      BY <2>1, <2>5 DEF LInv, ToldOK
  <2> QED
      BY <2>1, <2>2, <2>4, <2>6 DEF LInv
<1>3. ASSUME NEW u \in Users, NEW n \in Notes, MarkRead(u, n) PROVE LInv'
  <2>1. note' = [note EXCEPT ![n].read = TRUE] /\ UNCHANGED <<leave, deciding, leaveContested>>
      BY <1>3 DEF MarkRead
  <2>2. LeaveTypeOK'
      BY <2>1, <1>t DEF LeaveTypeOK
  <2>3. \A m \in Notes : note'[m].leave = note[m].leave /\ note'[m].verdict = note[m].verdict
      BY <2>1, <1>t DEF LeaveTypeOK
  <2>4. \A k \in Leaves : Told(k)' = Told(k)
      BY <2>3 DEF Told
  <2>5. \A k \in Leaves : DecisionOK(k)'
      BY <2>1 DEF LInv, DecisionOK
  <2>6. \A k \in Leaves \ leaveContested : ToldOK(k)'
      BY <2>1, <2>3, <2>4 DEF LInv, ToldOK
  <2> QED
      BY <2>1, <2>2, <2>5, <2>6 DEF LInv
<1>4. ASSUME NEW w \in Workers, NEW l \in Leaves, NEW verdict \in Verdicts, Decide(w, l, verdict)
      PROVE  LInv'
  <2>1. /\ deciding[w].leave = l /\ leave' = [leave EXCEPT ![l].status = verdict]
        /\ deciding' = [deciding EXCEPT ![w] = NotDeciding]
        /\ leaveContested' = IF \E v \in Workers \ {w} : deciding[v].leave = l
                             THEN leaveContested \cup {l} ELSE leaveContested
      BY <1>4 DEF Decide
  <2>2. leave[l].employee \in Employees
      BY <2>1 DEF LInv, DecisionOK
  <2>3. /\ leave'[l].status = verdict /\ leave'[l].employee = leave[l].employee
        /\ \A k \in Leaves \ {l} : leave'[k] = leave[k]
      BY <2>1, <1>t DEF LeaveTypeOK
  <2>4. deciding'[w].leave = None /\ \A v \in Workers \ {w} : deciding'[v] = deciding[v]
      BY <2>1, <1>t DEF LeaveTypeOK, NotDeciding
  <2>5. \/ ~HasAccount(l) /\ UNCHANGED note
        \/ /\ HasAccount(l)
           /\ \E n \in Notes : /\ note[n] = NoNote
                              /\ note' = [note EXCEPT ![n] =
                                             [leave |-> l, verdict |-> verdict, read |-> FALSE]]
      BY <1>4 DEF Decide
  <2>6. LeaveTypeOK'
    <3>1. leave' \in [Leaves -> [employee : Employees \cup {None}, status : Verdicts \cup {"pending"}]]
        BY <2>1, <1>t DEF LeaveTypeOK
    <3>2. deciding' \in [Workers -> [leave : Leaves \cup {None}, user : Users \cup {None}]]
        BY <2>1, <1>t DEF LeaveTypeOK, NotDeciding
    <3>3. note' \in [Notes -> [leave : Leaves \cup {None}, verdict : Verdicts, read : BOOLEAN]]
      <4> DEFINE q == [leave |-> l, verdict |-> verdict, read |-> FALSE]
      <4>1. q \in [leave : Leaves \cup {None}, verdict : Verdicts, read : BOOLEAN]
          OBVIOUS
      <4>2. note \in [Notes -> [leave : Leaves \cup {None}, verdict : Verdicts, read : BOOLEAN]]
          BY <1>t DEF LeaveTypeOK
      <4>3. note' = note \/ \E n \in Notes : note' = [note EXCEPT ![n] = q]
          BY <2>5
      <4> HIDE DEF q
      <4> QED
          BY <4>1, <4>2, <4>3
    <3>4. leaveContested' \subseteq Leaves
        BY <2>1, <1>t DEF LeaveTypeOK
    <3> QED
        BY <3>1, <3>2, <3>3, <3>4 DEF LeaveTypeOK
  <2>7. leave'[l] # NoLeave
      BY <2>2, <2>3 DEF NoLeave
  <2>8. ASSUME NEW k \in Leaves PROVE DecisionOK(k)'
    <3>1. DecisionOK(k) /\ leaveContested \subseteq leaveContested'
        BY <2>1 DEF LInv
    <3>2. CASE k = l
      <4>1. l \notin leaveContested' => \A v \in Workers : deciding'[v].leave # l
          BY <2>1, <2>4
      <4> QED
          BY <2>2, <2>3, <2>7, <3>2, <4>1 DEF DecisionOK
    <3>3. CASE k # l
        BY <2>3, <2>4, <3>1, <3>3 DEF DecisionOK
    <3> QED
        BY <3>2, <3>3
  <2>9. ASSUME NEW k \in Leaves \ leaveContested' PROVE ToldOK(k)'
    <3>1. ToldOK(k)
        BY <2>1 DEF LInv
    <3>2. CASE k # l
      <4>1. Told(k)' = Told(k) /\ \A n \in Told(k) : note'[n] = note[n]
        <5>1. CASE UNCHANGED note
            BY <5>1 DEF Told
        <5>2. ASSUME NEW n \in Notes, note[n] = NoNote,
                     note' = [note EXCEPT ![n] = [leave |-> l, verdict |-> verdict, read |-> FALSE]]
              PROVE  Told(k)' = Told(k) /\ \A m \in Told(k) : note'[m] = note[m]
          <6>1. note'[n].leave = l /\ \A m \in Notes \ {n} : note'[m] = note[m]
              BY <5>2, <1>t DEF LeaveTypeOK
          <6>2. note[n].leave # k
              BY <5>2 DEF NoNote
          <6> QED
              BY <6>1, <6>2, <3>2 DEF Told
        <5> QED
            BY <2>5, <5>1, <5>2
      <4> QED
          BY <2>3, <3>1, <3>2, <4>1 DEF ToldOK, Told
    <3>3. CASE k = l
      <4>1. leave[l].status = "pending" /\ Told(l) = {}
          BY <2>1, <3>1, <3>3 DEF LInv, DecisionOK, ToldOK
      <4>2. verdict # "pending" /\ (HasAccount(l))' = HasAccount(l)
          BY <2>3 DEF Verdicts
      <4>3. CASE ~HasAccount(l)
          BY <2>3, <2>5, <3>3, <4>1, <4>2, <4>3 DEF ToldOK, Told
      <4>4. CASE HasAccount(l)
        <5>1. PICK n \in Notes :
                  note' = [note EXCEPT ![n] = [leave |-> l, verdict |-> verdict, read |-> FALSE]]
            BY <2>5, <4>4
        <5>2. note'[n].leave = l /\ note'[n].verdict = verdict
            BY <5>1, <1>t DEF LeaveTypeOK
        <5>3. Told(l)' = {n}
            BY <4>1, <5>1, <5>2, <1>t DEF Told, LeaveTypeOK
        <5> QED
            BY <2>3, <3>3, <4>2, <4>4, <5>2, <5>3 DEF ToldOK
      <4> QED
          BY <4>3, <4>4
    <3> QED
        BY <3>2, <3>3
  <2> QED
      BY <2>6, <2>8, <2>9 DEF LInv
<1>5. ASSUME NEW w \in Workers, AbandonDecision(w) PROVE LInv'
  <2>1. deciding' = [deciding EXCEPT ![w] = NotDeciding] /\ UNCHANGED <<leave, note, leaveContested>>
      BY <1>5 DEF AbandonDecision
  <2>2. LeaveTypeOK'
      BY <2>1, <1>t DEF LeaveTypeOK, NotDeciding
  <2>3. deciding'[w].leave = None /\ \A v \in Workers \ {w} : deciding'[v] = deciding[v]
      BY <2>1, <1>t DEF LeaveTypeOK, NotDeciding
  <2>4. \A k \in Leaves : DecisionOK(k)'
      BY <2>1, <2>3 DEF LInv, DecisionOK
  <2>5. \A k \in Leaves : Told(k)' = Told(k)
      BY <2>1 DEF Told
  <2>6. \A k \in Leaves \ leaveContested : ToldOK(k)'
      BY <2>1, <2>5 DEF LInv, ToldOK
  <2> QED
      BY <2>1, <2>2, <2>4, <2>6 DEF LInv
<1>6. CASE UNCHANGED leaveVars
  <2>1. UNCHANGED <<leave, note, deciding, leaveContested>>
      BY <1>6 DEF leaveVars
  <2>2. \A k \in Leaves : Told(k)' = Told(k)
      BY <2>1 DEF Told
  <2> QED
      BY <2>1, <2>2 DEF LInv, LeaveTypeOK, DecisionOK, ToldOK
<1> QED
    BY <1>1, <1>2, <1>3, <1>4, <1>5, <1>6 DEF LeaveNext

LEMMA ToldAsDecidedSeen == LInv => ToldAsDecided
<1> SUFFICES ASSUME LInv, NEW l \in Leaves \ leaveContested
             PROVE  /\ {note[n].verdict : n \in Told(l)} =
                           (IF leave[l].status # "pending" /\ HasAccount(l)
                            THEN {leave[l].status} ELSE {})
                    /\ \A m, n \in Notes : note[m].leave = l /\ note[n].leave = l => m = n
    BY DEF ToldAsDecided, Told, HasAccount
<1>1. ToldOK(l)
    BY DEF LInv
<1>2. CASE leave[l].status # "pending" /\ HasAccount(l)
    BY <1>1, <1>2 DEF ToldOK, Told
<1>3. CASE ~(leave[l].status # "pending" /\ HasAccount(l))
    BY <1>1, <1>3 DEF ToldOK, Told
<1> QED
    BY <1>2, <1>3
-----------------------------------------------------------------------------
(* Attendance *)

\* The newest code of a shift is a code of this shift and was never replaced.
NewestOK(s) == jti[s] # None => code[jti[s]].shift = s /\ jti[s] \notin replaced

\* A code that is being made is nobody else's and not handed out yet.
MintOK(w) ==
    scan[w].step = "mint" =>
        /\ scan[w].code \in Codes /\ scan[w].shift \in Shifts
        /\ code[scan[w].code].shift = None
        /\ \A v \in Workers \ {w} : scan[v].code # scan[w].code

\* A code that is shown is one of its shift; what was replaced then is replaced now, and
\* is not found good.
ShownOK(w) ==
    scan[w].step \in {"decoded", "checked"} =>
        /\ scan[w].code \in Codes /\ scan[w].employee \in Employees
        /\ code[scan[w].code].shift = scan[w].shift /\ scan[w].shift # None
        /\ scan[w].late => scan[w].code \in replaced /\ scan[w].step = "decoded"

AInv ==
    /\ AttendanceTypeOK
    /\ \A s \in Shifts : NewestOK(s)
    /\ \A w \in Workers : MintOK(w) /\ ShownOK(w)
    /\ \A c \in replaced : code[c].shift # None
    /\ \A r \in record : ~r.late

LEMMA InitAInv == AttendanceInit => AInv
BY DEF AttendanceInit, AInv, AttendanceTypeOK, NewestOK, MintOK, ShownOK, NoCode, NotScanning

LEMMA AttendanceTyped == AInv /\ AttendanceNext => AttendanceTypeOK'
<1> SUFFICES ASSUME AInv, AttendanceNext PROVE AttendanceTypeOK'
    OBVIOUS
<1>t. AttendanceTypeOK
    BY DEF AInv
<1>1. ASSUME NEW c \in Codes, Expire(c) PROVE AttendanceTypeOK'
  <2>1. code' = [code EXCEPT ![c].fresh = FALSE] /\ UNCHANGED <<shiftOf, jti, replaced, record, scan>>
      BY <1>1 DEF Expire
  <2>2. code' \in [Codes -> [shift : Shifts \cup {None}, fresh : BOOLEAN]]
      BY <2>1, <1>t DEF AttendanceTypeOK
  <2> QED
      BY <2>1, <2>2, <1>t DEF AttendanceTypeOK
<1>2. ASSUME NEW s \in Shifts, NEW e \in Employees, CreateShift(s, e) PROVE AttendanceTypeOK'
    BY <1>2, <1>t DEF CreateShift, AttendanceTypeOK
<1>3. ASSUME NEW w \in Workers, NEW s \in Shifts, StoreCode(w, s) PROVE AttendanceTypeOK'
  <2>1. scan[w].code \in Codes
      BY <1>3 DEF StoreCode, AInv, MintOK
  <2> QED
      BY <1>3, <1>t, <2>1 DEF StoreCode, AttendanceTypeOK, NotScanning
<1>4. ASSUME NEW w \in Workers, NEW s \in Shifts, NEW c \in Codes, MintCode(w, s, c)
      PROVE  AttendanceTypeOK'
    BY <1>4, <1>t DEF MintCode, AttendanceTypeOK, NotScanning
<1>5. ASSUME NEW w \in Workers, NEW e \in Employees, NEW c \in Codes, Decode(w, e, c)
      PROVE  AttendanceTypeOK'
    BY <1>5, <1>t DEF Decode, AttendanceTypeOK
<1>6. ASSUME NEW w \in Workers, CompareJti(w) PROVE AttendanceTypeOK'
    BY <1>6, <1>t DEF CompareJti, AttendanceTypeOK
<1>7. ASSUME NEW w \in Workers, CheckIn(w) PROVE AttendanceTypeOK'
  <2>1. scan[w].employee \in Employees /\ scan[w].shift \in Shifts /\ scan[w].late \in BOOLEAN
      BY <1>7, <1>t DEF CheckIn, AInv, ShownOK, AttendanceTypeOK
  <2> QED
      BY <1>7, <1>t, <2>1 DEF CheckIn, AttendanceTypeOK, NotScanning
<1>8. ASSUME NEW w \in Workers, AbandonScan(w) PROVE AttendanceTypeOK'
    BY <1>8, <1>t DEF AbandonScan, AttendanceTypeOK, NotScanning
<1> QED
    BY <1>1, <1>2, <1>3, <1>4, <1>5, <1>6, <1>7, <1>8 DEF AttendanceNext

LEMMA AInvStep == AInv /\ [AttendanceNext]_attendanceVars => AInv'
<1> SUFFICES ASSUME AInv, [AttendanceNext]_attendanceVars PROVE AInv'
    OBVIOUS
<1> USE CodesAssumption
<1>t. AttendanceTypeOK
    BY DEF AInv
<1>0. CASE UNCHANGED attendanceVars
    BY <1>0 DEF attendanceVars, AInv, AttendanceTypeOK, NewestOK, MintOK, ShownOK
<1> SUFFICES ASSUME AttendanceNext PROVE AInv'
    BY <1>0
<1>u. AttendanceTypeOK'
    BY AttendanceTyped
<1>1. ASSUME NEW c \in Codes, Expire(c) PROVE AInv'
  <2>1. \A d \in Codes : code'[d].shift = code[d].shift
      BY <1>1, <1>t DEF Expire, AttendanceTypeOK
  <2>2. UNCHANGED <<jti, replaced, record, scan>> /\ replaced \subseteq Codes
      BY <1>1, <1>t DEF Expire, AttendanceTypeOK
  <2>3. \A s \in Shifts : jti[s] \in Codes \cup {None}
      BY <1>t DEF AttendanceTypeOK
  <2> QED
      BY <1>u, <2>1, <2>2, <2>3 DEF AInv, NewestOK, MintOK, ShownOK
<1>2. ASSUME NEW s \in Shifts, NEW e \in Employees, CreateShift(s, e) PROVE AInv'
    BY <1>2, <1>u DEF CreateShift, AInv, NewestOK, MintOK, ShownOK
<1>3. ASSUME NEW w \in Workers, NEW s \in Shifts, StoreCode(w, s) PROVE AInv'
  <2> DEFINE c == scan[w].code
  <2>1. /\ scan[w].step = "mint" /\ c \in Codes /\ code[c].shift = None
        /\ \A v \in Workers \ {w} : scan[v].code # c
      BY <1>3 DEF StoreCode, AInv, MintOK
  <2>2. /\ jti'[s] = c /\ \A r \in Shifts \ {s} : jti'[r] = jti[r]
        /\ code'[c].shift = s /\ \A d \in Codes \ {c} : code'[d] = code[d]
        /\ replaced' = replaced \cup ({jti[s]} \ {None}) /\ record' = record
      BY <1>3, <1>t, <2>1 DEF StoreCode, AttendanceTypeOK
  <2>3. scan'[w] = NotScanning /\ \A v \in Workers \ {w} : scan'[v] = scan[v]
      BY <1>3, <1>t DEF StoreCode, AttendanceTypeOK
  <2>4. replaced \subseteq Codes /\ \A r \in Shifts : jti[r] \in Codes \cup {None}
      BY <1>t DEF AttendanceTypeOK
  <2>5. c \notin replaced'
      BY <2>1, <2>2 DEF AInv, NewestOK
  <2>6. ASSUME NEW r \in Shifts PROVE NewestOK(r)'
    <3>1. CASE r = s
        BY <2>2, <2>5, <3>1 DEF NewestOK
    <3>2. CASE r # s
        BY <2>1, <2>2, <2>4, <3>2 DEF AInv, NewestOK
    <3> QED
        BY <3>1, <3>2
  <2>7. \A v \in Workers : MintOK(v)' /\ ShownOK(v)'
      BY <2>1, <2>2, <2>3 DEF AInv, MintOK, ShownOK, NotScanning
  <2>8. \A d \in replaced' : code'[d].shift # None
      BY <2>1, <2>2, <2>4 DEF AInv, NewestOK
  <2> QED
      BY <1>u, <2>2, <2>6, <2>7, <2>8 DEF AInv
<1>4. ASSUME NEW w \in Workers, NEW s \in Shifts, NEW c \in Codes, MintCode(w, s, c) PROVE AInv'
  <2>1. /\ scan'[w] = [NotScanning EXCEPT !.step = "mint", !.code = c, !.shift = s]
        /\ \A v \in Workers \ {w} : scan'[v] = scan[v]
        /\ UNCHANGED <<jti, code, replaced, record>>
        /\ code[c].shift = None /\ \A v \in Workers : scan[v].code # c
      BY <1>4, <1>t DEF MintCode, AttendanceTypeOK, NoCode
  <2>2. scan'[w].step = "mint" /\ scan'[w].code = c /\ scan'[w].shift = s
      BY <2>1 DEF NotScanning
  <2>3. ASSUME NEW v \in Workers PROVE MintOK(v)' /\ ShownOK(v)'
    <3>1. CASE v = w
        BY <2>1, <2>2, <3>1 DEF AInv, MintOK, ShownOK
    <3>2. CASE v # w
      <4>1. MintOK(v) /\ ShownOK(v)
          BY DEF AInv
      <4> QED
          BY <2>1, <2>2, <3>2, <4>1 DEF MintOK, ShownOK
    <3> QED
        BY <3>1, <3>2
  <2> QED
      BY <1>u, <2>1, <2>3 DEF AInv, NewestOK
<1>5. ASSUME NEW w \in Workers, NEW e \in Employees, NEW c \in Codes, Decode(w, e, c) PROVE AInv'
  <2> DEFINE late == c \in replaced
  <2>1. /\ scan'[w] = [step |-> "decoded", code |-> c, shift |-> code[c].shift, employee |-> e,
                       late |-> late]
        /\ \A v \in Workers \ {w} : scan'[v] = scan[v]
        /\ UNCHANGED <<jti, code, replaced, record>> /\ code[c].shift # None
      BY <1>5, <1>t DEF Decode, AttendanceTypeOK
  <2>2. ASSUME NEW v \in Workers PROVE MintOK(v)' /\ ShownOK(v)'
    <3>1. CASE v = w
      <4>1. /\ scan'[w].step = "decoded" /\ scan'[w].code = c /\ scan'[w].shift = code[c].shift
            /\ scan'[w].employee = e
          BY <2>1
      <4>2. scan'[w].late => c \in replaced
        <5> HIDE DEF late
        <5>1. scan'[w].late = late
            BY <2>1
        <5> QED
            BY <5>1, Zenon DEF late
      <4>3. MintOK(w)'
          BY <4>1 DEF MintOK
      <4>4. ShownOK(w)'
          BY <2>1, <4>1, <4>2 DEF ShownOK
      <4> QED
          BY <3>1, <4>3, <4>4
    <3>2. CASE v # w
      <4>1. MintOK(v) /\ ShownOK(v)
          BY DEF AInv
      <4> QED
          BY <2>1, <3>2, <4>1 DEF MintOK, ShownOK
    <3> QED
        BY <3>1, <3>2
  <2> QED
      BY <1>u, <2>1, <2>2 DEF AInv, NewestOK
<1>6. ASSUME NEW w \in Workers, CompareJti(w) PROVE AInv'
  <2>1. /\ scan[w].step = "decoded" /\ jti[scan[w].shift] = scan[w].code
        /\ scan'[w] = [scan[w] EXCEPT !.step = "checked"]
        /\ \A v \in Workers \ {w} : scan'[v] = scan[v]
        /\ UNCHANGED <<jti, code, replaced, record>>
      BY <1>6, <1>t DEF CompareJti, AttendanceTypeOK
  <2>2. /\ scan'[w].step = "checked" /\ scan'[w].code = scan[w].code
        /\ scan'[w].shift = scan[w].shift /\ scan'[w].employee = scan[w].employee
        /\ scan'[w].late = scan[w].late
      BY <2>1, <1>t DEF AttendanceTypeOK
  <2>3. scan[w].shift \in Shifts
      BY <2>1, <1>t DEF AInv, ShownOK, AttendanceTypeOK
  <2>4. ~scan[w].late
      BY <2>1, <2>3 DEF AInv, ShownOK, NewestOK
  <2>5. ASSUME NEW v \in Workers PROVE MintOK(v)' /\ ShownOK(v)'
    <3>1. CASE v = w
        BY <2>1, <2>2, <2>4, <3>1 DEF AInv, MintOK, ShownOK
    <3>2. CASE v # w
      <4>1. MintOK(v) /\ ShownOK(v)
          BY DEF AInv
      <4>2. code' = code /\ scan'[v] = scan[v] /\ \A u \in Workers : scan'[u].code = scan[u].code
          BY <2>1, <2>2, <3>2
      <4>3. MintOK(v)'
          BY <4>1, <4>2 DEF MintOK
      <4>4. ShownOK(v)'
          BY <2>1, <3>2, <4>1 DEF ShownOK
      <4> QED
          BY <4>3, <4>4
    <3> QED
        BY <3>1, <3>2
  <2> QED
      BY <1>u, <2>1, <2>5 DEF AInv, NewestOK
<1>7. ASSUME NEW w \in Workers, CheckIn(w) PROVE AInv'
  <2>1. /\ scan[w].step = "checked" /\ scan'[w] = NotScanning
        /\ record' = record \cup {[shift |-> scan[w].shift, employee |-> scan[w].employee,
                                   late |-> scan[w].late]}
        /\ \A v \in Workers \ {w} : scan'[v] = scan[v]
        /\ UNCHANGED <<jti, code, replaced>>
      BY <1>7, <1>t DEF CheckIn, AttendanceTypeOK
  <2>2. ~scan[w].late
      BY <2>1 DEF AInv, ShownOK
  <2>3. \A v \in Workers : MintOK(v)' /\ ShownOK(v)'
      BY <2>1 DEF AInv, MintOK, ShownOK, NotScanning
  <2>4. \A r \in record' : ~r.late
      BY <2>1, <2>2 DEF AInv
  <2> QED
      BY <1>u, <2>1, <2>3, <2>4 DEF AInv, NewestOK
<1>8. ASSUME NEW w \in Workers, AbandonScan(w) PROVE AInv'
  <2>1. /\ scan'[w] = NotScanning /\ \A v \in Workers \ {w} : scan'[v] = scan[v]
        /\ UNCHANGED <<jti, code, replaced, record>>
      BY <1>8, <1>t DEF AbandonScan, AttendanceTypeOK
  <2>2. \A v \in Workers : MintOK(v)' /\ ShownOK(v)'
      BY <2>1 DEF AInv, MintOK, ShownOK, NotScanning
  <2> QED
      BY <1>u, <2>1, <2>2 DEF AInv, NewestOK
<1> QED
    BY <1>1, <1>2, <1>3, <1>4, <1>5, <1>6, <1>7, <1>8 DEF AttendanceNext

LEMMA OldCodesDead == AInv => OldCodesStayDead
BY CodesAssumption DEF AInv, AttendanceTypeOK, NewestOK, OldCodesStayDead

-----------------------------------------------------------------------------
(* Assets *)

LEMMA AssignedOutIs == \A i \in Items : AssignedOut(i) = Total(moved[i], Employees)
BY DEF AssignedOut, MapThenSumSet, MapThenFoldSet, Total, Sums, SumOver, Pick

LEMMA AssignedOutThen == \A i \in Items : AssignedOut(i)' = Total(moved'[i], Employees)
BY DEF AssignedOut, MapThenSumSet, MapThenFoldSet, Total, Sums, SumOver, Pick

\* The stock of an asset that is there; nothing has moved of one that is not.
StockOK(i) ==
    IF asset[i] = -1 THEN AssignedOut(i) = 0 /\ moved[i][None] = 0
    ELSE /\ 0 <= AssignedOut(i) /\ AssignedOut(i) <= asset[i]
         /\ asset[i] = opening[i] + moved[i][None]

\* Who holds an asset's lock holds it alone, and what he has read of it is still so.
HoldsOK(w) ==
    moving[w].step # "idle" =>
        /\ moving[w].item \in Items /\ asset[moving[w].item] # -1
        /\ moving[w].total = asset[moving[w].item]
        /\ moving[w].step = "summed" => moving[w].out = AssignedOut(moving[w].item)
        /\ \A v \in Workers \ {w} : moving[v].item # moving[w].item

SInv ==
    /\ AssetsTypeOK
    /\ \A i \in Items : StockOK(i)
    /\ \A w \in Workers : HoldsOK(w)

\* The sum over the employees, when the units of one mover change.
LEMMA AssignedUpdate ==
  ASSUME NEW f \in [Movers -> Int], NEW h \in [Movers -> Int], NEW m \in Movers, NEW d \in Int,
         \A e \in Movers : h[e] = f[e] + (IF e = m THEN d ELSE 0)
  PROVE  Total(h, Employees) = Total(f, Employees) + (IF m \in Employees THEN d ELSE 0)
<1>1. IsFiniteSet(Employees) /\ Employees \subseteq Movers
    BY DEF Movers
<1> QED
    BY <1>1, SumUpdate

LEMMA DeltasAreInts == \A d \in Deltas \cup {0} : d \in Int
BY ItemsAssumption

LEMMA InitSInv == AssetsInit => SInv
<1> SUFFICES ASSUME AssetsInit PROVE SInv
    OBVIOUS
<1>1. AssetsTypeOK
    BY DEF AssetsInit, AssetsTypeOK, NotMoving, Movers
<1>2. ASSUME NEW i \in Items PROVE StockOK(i)
  <2>1. moved[i] \in [Movers -> Int] /\ Employees \subseteq Movers /\ \A e \in Movers : moved[i][e] = 0
      BY DEF AssetsInit, Movers
  <2>2. AssignedOut(i) = 0
      BY <2>1, AssignedOutIs, SumOfZeros
  <2> QED
      BY <2>1, <2>2 DEF AssetsInit, StockOK, Movers
<1>3. \A w \in Workers : HoldsOK(w)
    BY DEF AssetsInit, HoldsOK, NotMoving
<1> QED
    BY <1>1, <1>2, <1>3 DEF SInv

\* A saved movement of an employee is what is assigned more or less, and nothing else.
LEMMA SavedMovement ==
  ASSUME SInv, NEW w \in Workers, NEW i \in Items, SaveMovement(w, i)
  PROVE  /\ moved' \in [Items -> [Movers -> Int]]
         /\ \A j \in Items \ {i} : moved'[j] = moved[j]
         /\ AssignedOut(i)' = AssignedOut(i) + (IF moving[w].employee \in Employees THEN moving[w].delta ELSE 0)
         /\ moved'[i][None] = moved[i][None] + (IF moving[w].employee = None THEN moving[w].delta ELSE 0)
<1>1. PICK d \in Int, m \in Movers : moving[w].delta = d /\ moving[w].employee = m
  <2>1. moving[w].employee \in Movers /\ moving[w].delta \in Deltas \cup {0}
      BY DEF SInv, AssetsTypeOK
  <2> QED
      BY <2>1, DeltasAreInts
<1> DEFINE f == moved[i]
           h == [f EXCEPT ![m] = @ + d]
<1>2. moved \in [Items -> [Movers -> Int]] /\ f \in [Movers -> Int]
    BY DEF SInv, AssetsTypeOK
<1>3. moved' = [moved EXCEPT ![i] = h]
  <2>1. moved' = [moved EXCEPT ![i] = [moved[i] EXCEPT ![moving[w].employee] = @ + moving[w].delta]]
      BY DEF SaveMovement
  <2>2. moving[w].employee = m /\ moving[w].delta = d
      BY <1>1
  <2> QED
      BY <2>1, <2>2, Zenon
<1> HIDE DEF f
<1>4. h \in [Movers -> Int]
    BY <1>2
<1>5. \A e \in Movers : h[e] = f[e] + (IF e = m THEN d ELSE 0)
    BY <1>2
<1>6. Employees \subseteq Movers /\ None \in Movers
    BY DEF Movers
<1> HIDE DEF h
<1>7. moved' \in [Items -> [Movers -> Int]] /\ moved'[i] = h /\ \A j \in Items \ {i} : moved'[j] = moved[j]
    BY <1>2, <1>3, <1>4
<1>8. Total(h, Employees) = Total(f, Employees) + (IF m \in Employees THEN d ELSE 0)
    BY <1>2, <1>4, <1>5, AssignedUpdate
<1>9. AssignedOut(i) = Total(f, Employees) /\ AssignedOut(i)' = Total(h, Employees)
    BY <1>7, AssignedOutIs, AssignedOutThen DEF f
<1> QED
    BY <1>1, <1>5, <1>6, <1>7, <1>8, <1>9 DEF f

LEMMA SInvStep == SInv /\ [AssetsNext]_assetVars => SInv'
<1> SUFFICES ASSUME SInv, [AssetsNext]_assetVars PROVE SInv'
    OBVIOUS
<1> USE ItemsAssumption
<1>t. AssetsTypeOK
    BY DEF SInv
<1>a. \A i \in Items : AssignedOut(i) \in Int
  <2>1. \A i \in Items : moved[i] \in [Movers -> Int] /\ Employees \subseteq Movers
      BY <1>t DEF AssetsTypeOK, Movers
  <2> QED
      BY <2>1, AssignedOutIs, SumIsInt
<1>s. \A i \in Items : moved'[i] = moved[i] => AssignedOut(i)' = AssignedOut(i)
    BY AssignedOutIs, AssignedOutThen
<1>1. ASSUME NEW i \in Items, NEW quantity \in Quantities, CreateAsset(i, quantity) PROVE SInv'
  <2>1. /\ asset[i] = -1 /\ asset'[i] = quantity /\ opening'[i] = quantity /\ quantity \in Nat
        /\ \A j \in Items \ {i} : asset'[j] = asset[j] /\ opening'[j] = opening[j]
        /\ UNCHANGED <<moved, moving>>
      BY <1>1, <1>t DEF CreateAsset, AssetsTypeOK
  <2>2. AssetsTypeOK'
      BY <1>1, <2>1, <1>t DEF CreateAsset, AssetsTypeOK
  <2>3. ASSUME NEW j \in Items PROVE StockOK(j)'
    <3>1. StockOK(j)
        BY DEF SInv
    <3>2. CASE j = i
        BY <2>1, <3>1, <3>2, <1>s DEF StockOK
    <3>3. CASE j # i
        BY <2>1, <3>1, <3>3, <1>s DEF StockOK
    <3> QED
        BY <3>2, <3>3
  <2>4. ASSUME NEW w \in Workers PROVE HoldsOK(w)'
      BY <2>1, <1>s DEF SInv, HoldsOK
  <2> QED
      BY <2>2, <2>3, <2>4 DEF SInv
<1>2. ASSUME NEW w \in Workers, NEW i \in Items, NEW e \in Movers, NEW delta \in Deltas,
             LockAsset(w, i, e, delta)
      PROVE  SInv'
  <2> DEFINE q == [step |-> "locked", item |-> i, employee |-> e, delta |-> delta,
                   total |-> asset[i], out |-> 0]
  <2>1. /\ asset[i] # -1 /\ \A v \in Workers : moving[v].item # i
        /\ moving' = [moving EXCEPT ![w] = q] /\ UNCHANGED <<asset, opening, moved>>
      BY <1>2 DEF LockAsset
  <2>2. AssetsTypeOK'
      BY <2>1, <1>t DEF AssetsTypeOK
  <2>3. moving'[w] = q /\ \A v \in Workers \ {w} : moving'[v] = moving[v]
      BY <2>1, <1>t DEF AssetsTypeOK
  <2>4. ASSUME NEW v \in Workers PROVE HoldsOK(v)'
    <3>1. CASE v = w
        BY <2>1, <2>3, <3>1 DEF HoldsOK
    <3>2. CASE v # w
        BY <2>1, <2>3, <3>2, <1>s DEF SInv, HoldsOK
    <3> QED
        BY <3>1, <3>2
  <2>5. \A j \in Items : StockOK(j)'
      BY <2>1, <1>s DEF SInv, StockOK
  <2> QED
      BY <2>2, <2>4, <2>5 DEF SInv
<1>3. ASSUME NEW w \in Workers, NEW i \in Items, SumMovements(w, i) PROVE SInv'
  <2>1. /\ moving[w].step = "locked" /\ moving[w].item = i
        /\ moving' = [moving EXCEPT ![w] = [@ EXCEPT !.step = "summed", !.out = AssignedOut(i)]]
        /\ UNCHANGED <<asset, opening, moved>>
      BY <1>3 DEF SumMovements
  <2>2. AssetsTypeOK'
    <3> DEFINE T == [step : {"idle", "locked", "summed"}, item : Items \cup {None}, employee : Movers,
                     delta : Deltas \cup {0}, total : Nat, out : Int]
    <3>1. [moving[w] EXCEPT !.step = "summed", !.out = AssignedOut(i)] \in T
        BY <1>t, <1>a DEF AssetsTypeOK
    <3>2. moving \in [Workers -> T]
        BY <1>t DEF AssetsTypeOK
    <3> HIDE DEF T
    <3>3. moving' \in [Workers -> T]
        BY <2>1, <3>1, <3>2
    <3> QED
        BY <2>1, <3>3, <1>t DEF AssetsTypeOK, T
  <2>3. /\ moving'[w].step = "summed" /\ moving'[w].out = AssignedOut(i)
        /\ moving'[w].item = i /\ moving'[w].total = moving[w].total
        /\ \A v \in Workers \ {w} : moving'[v] = moving[v]
      BY <2>1, <1>t DEF AssetsTypeOK
  <2>4. ASSUME NEW v \in Workers PROVE HoldsOK(v)'
    <3>1. CASE v = w
        BY <2>1, <2>3, <3>1, <1>s DEF SInv, HoldsOK
    <3>2. CASE v # w
        BY <2>1, <2>3, <3>2, <1>s DEF SInv, HoldsOK
    <3> QED
        BY <3>1, <3>2
  <2>5. \A j \in Items : StockOK(j)'
      BY <2>1, <1>s DEF SInv, StockOK
  <2> QED
      BY <2>2, <2>4, <2>5 DEF SInv
<1>4. ASSUME NEW w \in Workers, NEW i \in Items, SaveMovement(w, i) PROVE SInv'
  <2> DEFINE m == moving[w]
  <2>1. /\ m.step = "summed" /\ m.item = i /\ Allows(m) /\ opening' = opening
        /\ asset' = IF m.employee # None THEN asset ELSE [asset EXCEPT ![i] = m.total + m.delta]
        /\ moving' = [moving EXCEPT ![w] = NotMoving]
      BY <1>4 DEF SaveMovement
  <2>2. /\ asset[i] \in Nat /\ m.total = asset[i] /\ m.out = AssignedOut(i) /\ m.delta \in Int
        /\ m.employee \in Employees \cup {None} /\ AssignedOut(i) \in Int /\ moved[i][None] \in Int
        /\ \A v \in Workers \ {w} : moving[v].item # i
    <3>1. HoldsOK(w) /\ moving[w].delta \in Deltas \cup {0} /\ moving[w].employee \in Movers
        BY <1>t DEF SInv, AssetsTypeOK
    <3>2. asset[i] \in Nat \cup {-1} /\ moved[i][None] \in Int
        BY <1>t DEF AssetsTypeOK, Movers
    <3> QED
        BY <2>1, <3>1, <3>2, <1>a, DeltasAreInts DEF HoldsOK, Movers
  <2>3. /\ asset' \in [Items -> Nat \cup {-1}] /\ \A j \in Items \ {i} : asset'[j] = asset[j]
        /\ asset'[i] = IF m.employee # None THEN asset[i] ELSE asset[i] + m.delta
      BY <2>1, <2>2, <1>t DEF AssetsTypeOK, Allows
  <2>4. moving'[w] = NotMoving /\ \A v \in Workers \ {w} : moving'[v] = moving[v]
      BY <2>1, <1>t DEF AssetsTypeOK
  <2>5. moving' \in [Workers ->
            [step : {"idle", "locked", "summed"}, item : Items \cup {None}, employee : Movers,
             delta : Deltas \cup {0}, total : Nat, out : Int]]
      BY <2>1, <1>t DEF AssetsTypeOK, NotMoving, Movers
  <2>6. AssetsTypeOK'
      BY <1>4, <2>1, <2>3, <2>5, <1>t, SavedMovement DEF AssetsTypeOK
  <2>7. \A j \in Items \ {i} : AssignedOut(j)' = AssignedOut(j) /\ moved'[j] = moved[j]
      BY <1>4, <1>s, SavedMovement
  <2>8. ASSUME NEW j \in Items PROVE StockOK(j)'
    <3>1. StockOK(j)
        BY DEF SInv
    <3>2. CASE j = i
      <4>1. /\ AssignedOut(i)' = AssignedOut(i) + (IF m.employee \in Employees THEN m.delta ELSE 0)
            /\ moved'[i][None] = moved[i][None] + (IF m.employee = None THEN m.delta ELSE 0)
          BY <1>4, SavedMovement
      <4>2. opening' = opening /\ opening[i] \in Int
          BY <2>1, <1>t DEF AssetsTypeOK
      <4>3. CASE m.employee = None
          BY <2>1, <2>2, <2>3, <3>1, <3>2, <4>1, <4>2, <4>3 DEF StockOK, Allows
      <4>4. CASE m.employee # None
          BY <2>1, <2>2, <2>3, <3>1, <3>2, <4>1, <4>2, <4>4 DEF StockOK, Allows
      <4> QED
          BY <4>3, <4>4
    <3>3. CASE j # i
        BY <2>1, <2>3, <2>7, <3>1, <3>3 DEF StockOK
    <3> QED
        BY <3>2, <3>3
  <2>9. ASSUME NEW v \in Workers PROVE HoldsOK(v)'
    <3>1. CASE v = w
        BY <2>4, <3>1 DEF HoldsOK, NotMoving
    <3>2. CASE v # w
      <4>1. HoldsOK(v) /\ moving'[v] = moving[v] /\ moving[v].item # i
          BY <2>2, <2>4, <3>2 DEF SInv
      <4> QED
          BY <2>3, <2>4, <2>7, <4>1 DEF HoldsOK, NotMoving
    <3> QED
        BY <3>1, <3>2
  <2> QED
      BY <2>6, <2>8, <2>9 DEF SInv
<1>5. ASSUME NEW w \in Workers, AbandonMovement(w) PROVE SInv'
  <2>1. moving' = [moving EXCEPT ![w] = NotMoving] /\ UNCHANGED <<asset, opening, moved>>
      BY <1>5 DEF AbandonMovement
  <2>2. AssetsTypeOK'
    <3>1. NotMoving \in [step : {"idle", "locked", "summed"}, item : Items \cup {None},
                          employee : Movers, delta : Deltas \cup {0}, total : Nat, out : Int]
        BY DEF NotMoving, Movers
    <3> QED
        BY <2>1, <3>1, <1>t DEF AssetsTypeOK
  <2>3. moving'[w] = NotMoving /\ \A v \in Workers \ {w} : moving'[v] = moving[v]
      BY <2>1, <1>t DEF AssetsTypeOK
  <2>4. ASSUME NEW v \in Workers PROVE HoldsOK(v)'
    <3>1. CASE v = w
        BY <2>3, <3>1 DEF HoldsOK, NotMoving
    <3>2. CASE v # w
        BY <2>1, <2>3, <3>2, <1>s DEF SInv, HoldsOK, NotMoving
    <3> QED
        BY <3>1, <3>2
  <2>5. \A j \in Items : StockOK(j)'
      BY <2>1, <1>s DEF SInv, StockOK
  <2> QED
      BY <2>2, <2>4, <2>5 DEF SInv
<1>6. CASE UNCHANGED assetVars
    BY <1>6, <1>s DEF assetVars, SInv, AssetsTypeOK, StockOK, HoldsOK
<1> QED
    BY <1>1, <1>2, <1>3, <1>4, <1>5, <1>6 DEF AssetsNext

LEMMA StockSeen == SInv => StockAddsUp
BY DEF SInv, StockOK, StockAddsUp
-----------------------------------------------------------------------------
(* The parts side by side *)

IInv == PersonnelIInv /\ LInv /\ SInv /\ AInv /\ PayslipTypeOK

LEMMA InitIInv == Init => IInv
<1> SUFFICES ASSUME Init PROVE IInv
    OBVIOUS
<1>1. PayslipTypeOK
    BY RatesAssumption DEF Init, PayslipInit, PayslipTypeOK
<1> QED
    BY <1>1, InitPersonnel, InitLInv, InitSInv, InitAInv DEF Init, IInv

\* A step of one part leaves the others as they are; each is preserved on its own.
LEMMA IInvStep == IInv /\ [Next]_parts => IInv'
<1> SUFFICES ASSUME IInv, [Next]_parts PROVE IInv'
    OBVIOUS
<1>1. /\ [PersonnelNext]_personnelVars /\ [LeaveNext]_leaveVars /\ [AssetsNext]_assetVars
      /\ [AttendanceNext]_attendanceVars /\ [PayslipNext]_payslipVars
    BY DEF Next, parts
<1>2. PersonnelIInv' /\ LInv' /\ SInv' /\ AInv'
    BY <1>1, PersonnelStep, LInvStep, SInvStep, AInvStep DEF IInv
<1>3. PayslipTypeOK'
    BY <1>1, RatesAssumption DEF IInv, PayslipTypeOK, PayslipNext, Raise, payslipVars
<1> QED
    BY <1>2, <1>3 DEF IInv

LEMMA Invariant == Spec => []IInv
BY InitIInv, IInvStep, PTL DEF Spec

\* Every variable keeps its type, whatever the parts do side by side: no request works
\* for a row that there is not, and no total of an asset falls below nothing.
THEOREM TypeCorrect == Spec => []TypeOK
<1>1. IInv => TypeOK
    BY DEF IInv, PersonnelIInv, HInv, PInv, LInv, SInv, AInv, TypeOK
<1> QED
    BY <1>1, Invariant, PTL

\* A candidate whose requests did not overlap is hired exactly if he has one employee.
THEOREM HiredOnce == Spec => []HiredMeansEmployed
<1>1. IInv => HiredMeansEmployed
    BY EmployedOnce DEF IInv, PersonnelIInv
<1> QED
    BY <1>1, Invariant, PTL

\* A position that is closed gets no candidate from a request that began afterwards.
THEOREM ClosedStays == Spec => ClosedToApplicants
<1>1. ASSUME IInv, [Next]_parts
      PROVE  [\A p \in Positions \ hireContested :
                 position[p] = "closed" =>
                     {c \in Candidates : appliedFor'[c] = p} = {c \in Candidates : appliedFor[c] = p}
             ]_hiringVars
  <2>1. [HiringNext]_hiringVars
      BY <1>1 DEF Next, parts, PersonnelNext, personnelVars
  <2> QED
      BY <1>1, <2>1, NobodyApplies DEF IInv, PersonnelIInv
<1> QED
    BY <1>1, Invariant, PTL DEF Spec, ClosedToApplicants

\* The rates of an approved run were verified by somebody else than their author.
THEOREM TwoPeople == Spec => []FourEyes
<1>1. IInv => FourEyes
    BY FourEyesSeen DEF IInv
<1> QED
    BY <1>1, Invariant, PTL

\* No employee is paid twice for a period, by whatever runs overlap, and no candidate as
\* two employees, unless his stage was set by hand or two requests overlapped on him.
THEOREM OnePayslip == Spec => []PaidOnce
<1>1. IInv => PaidOnce
    BY PaidOnceSeen DEF IInv
<1> QED
    BY <1>1, Invariant, PTL

\* An approved run is what it was when it was approved.
THEOREM ApprovedForGood == Spec => ApprovalStands
<1>1. ASSUME IInv, [Next]_parts
      PROVE  [\A r \in Runs \ approvalContested : run[r].approver # None =>
                  /\ run'[r] = run[r]
                  /\ {x \in payslips' : x[1] = r} = {x \in payslips : x[1] = r}]_personnelVars
  <2>1. [PersonnelNext]_personnelVars
      BY <1>1 DEF Next, parts
  <2> QED
      BY <1>1, <2>1, ApprovalKept DEF IInv
<1> QED
    BY <1>1, Invariant, PTL DEF Spec, ApprovalStands

\* The notification of a decision says what the request says, and there is one.
THEOREM NotifiedOnce == Spec => []ToldAsDecided
<1>1. IInv => ToldAsDecided
    BY ToldAsDecidedSeen DEF IInv
<1> QED
    BY <1>1, Invariant, PTL

\* The stock of an asset is what was bought, corrected and given away, whichever
\* movements wait for each other.
THEOREM StockIsRight == Spec => []StockAddsUp
<1>1. IInv => StockAddsUp
    BY StockSeen DEF IInv
<1> QED
    BY <1>1, Invariant, PTL

\* A code that was replaced before it was shown opens no attendance record.
THEOREM ReplacedCodesAreDead == Spec => []OldCodesStayDead
<1>1. IInv => OldCodesStayDead
    BY OldCodesDead DEF IInv
<1> QED
    BY <1>1, Invariant, PTL

\* Net pay is between nothing and the salary and within a franc of what contribution and
\* tax leave, for any salary and any schedule of plausible rates whose first bracket does
\* not take everything (one that does, after a contribution of a half, makes the two
\* roundings pay a salary of one franc with minus one).
THEOREM NetPayIsFair ==
  ASSUME \A s \in RateTables : s.brackets[1].rate < Scale
  PROVE  Spec => []NetIsFair
<1>1. IInv => NetIsFair
    BY NetIsFairSeen DEF IInv
<1> QED
    BY <1>1, Invariant, PTL

\* A raise of a franc costs at most a franc, under any schedule of plausible rates.
THEOREM RaisesNeverHurt == Spec => RaiseNeverHurts
<1>1. ASSUME IInv, [Next]_parts
      PROVE  [CalculatePayslip(gross').net >= CalculatePayslip(gross).net - 1]_payslipVars
  <2>1. [PayslipNext]_payslipVars
      BY <1>1 DEF Next, parts
  <2> QED
      BY <1>1, <2>1, RaiseStep DEF IInv
<1> QED
    BY <1>1, Invariant, PTL DEF Spec, RaiseNeverHurts
=============================================================================
