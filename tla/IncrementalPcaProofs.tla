------------------------ MODULE IncrementalPcaProofs ------------------------
(***************************************************************************)
(* IncrementalPca for every number of features, every num_components and   *)
(* every way to cut a table of any length into batches: the types, the     *)
(* number of components, that the mean, the variance and the products kept *)
(* are those of all rows, that ml_evaluate measures the same variance, and *)
(* that the blob stored is the model that was trained and is read back.    *)
(***************************************************************************)
EXTENDS IncrementalPca, ModelBlobProofs

\* A batch is a sequence of rows, and not an empty one.
LEMMA BatchType ==
    ASSUME NEW batch \in Batches
    PROVE  batch \in Seq(Row) /\ Len(batch) \in Nat \ {0}
<1>1. PICK b \in 1..MaxRows : batch \in [1..b -> Row]
  BY DEF Batches
<1>2. b \in Nat \ {0}
  BY <1>1, MaxRowsAssumption
<1> QED
  BY <1>1, <1>2

\* Least is the lesser of two numbers.
LEMMA LeastOfTwo ==
    ASSUME NEW a \in Nat, NEW b \in Nat
    PROVE  /\ Least(a, b) \in Nat
           /\ Least(a, b) <= a /\ Least(a, b) <= b
           /\ Least(a, b) = a \/ Least(a, b) = b
BY DEF Least

\* PartialFit appends its batch and counts it.
LEMMA PartialFitCounts ==
    ASSUME TypeOK, NEW batch \in Batches, PartialFit(batch)
    PROVE  TypeOK' /\ n_samples_seen' = n_samples_seen + Len(batch)
<1>1. batch \in Seq(Row) /\ Len(batch) \in Nat \ {0}
  BY BatchType
<1>2. rows' \in Seq(Row) /\ Len(rows') = Len(rows) + Len(batch)
  BY <1>1 DEF TypeOK, PartialFit
<1>3. n_samples_seen' = n_samples_seen + Len(batch)
  BY DEF PartialFit, Seen
<1>4. StackedRows(batch) \in Nat
  BY <1>1 DEF TypeOK, StackedRows
<1>5. components' \in Nat
  BY <1>4, LeastOfTwo, NFeaturesAssumption DEF TypeOK, PartialFit, MaxComponents, SvdSize
<1> QED
  BY <1>2, <1>3, <1>5 DEF TypeOK, PartialFit

\* PartialFit stacks a row for every component there was and every row of the
\* batch, so it never ends with fewer components than the rows seen allow.
LEMMA PartialFitKeepsComponents ==
    ASSUME TypeOK, ComponentsReachRequested, NEW batch \in Batches, PartialFit(batch)
    PROVE  ComponentsReachRequested'
<1> DEFINE b == Len(batch)
           most == Least(requested, NFeatures)
<1>1. b \in Nat \ {0} /\ requested \in Nat /\ NFeatures \in Nat /\ components \in Nat
      /\ n_samples_seen \in Nat
  BY BatchType, NFeaturesAssumption DEF TypeOK
<1>2. n_samples_seen' = n_samples_seen + b /\ requested' = requested
  BY PartialFitCounts DEF PartialFit
<1>3. components' = Least(requested, Least(StackedRows(batch), NFeatures))
  BY DEF PartialFit, MaxComponents, SvdSize
<1>4. StackedRows(batch) \in Nat /\ StackedRows(batch) >= Least(n_samples_seen + b, most)
  <2>1. CASE n_samples_seen = 0
    BY <1>1, <2>1 DEF StackedRows, Least
  <2>2. CASE n_samples_seen # 0
    <3>1. StackedRows(batch) = components + b + 1
      BY <2>2 DEF StackedRows
    <3>2. components >= Least(n_samples_seen, most)
      BY DEF ComponentsReachRequested
    <3> QED
      BY <1>1, <3>1, <3>2 DEF Least
  <2> QED
    BY <2>1, <2>2
<1> HIDE DEF b
<1> QED
  BY <1>1, <1>2, <1>3, <1>4 DEF ComponentsReachRequested, Least

\* The other actions leave rows, their count and the components alone.
LEMMA OthersKeepTraining ==
    ASSUME Next, ~\E batch \in Batches : PartialFit(batch), TypeOK
    PROVE  TypeOK' /\ UNCHANGED <<requested, n_samples_seen, components>>
BY DEF Next, Store, StoreNothing, Bind, Update, trainer, TypeOK

\* The trainer's state is well typed, and n_samples_seen counts the rows it was
\* given, for every table and however it is cut into batches.
THEOREM PcaTypeCorrect == Spec => []TypeOK
<1>1. Init => TypeOK
  BY RequestsAssumption DEF Init, TypeOK
<1>2. TypeOK /\ [Next]_vars => TypeOK'
  <2> SUFFICES ASSUME TypeOK, [Next]_vars
               PROVE  TypeOK'
    OBVIOUS
  <2>1. CASE \E batch \in Batches : PartialFit(batch)
    BY <2>1, PartialFitCounts
  <2>2. CASE Next /\ ~\E batch \in Batches : PartialFit(batch)
    BY <2>2, OthersKeepTraining
  <2>3. CASE UNCHANGED vars
    BY <2>3 DEF vars, trainer, TypeOK
  <2> QED
    BY <2>1, <2>2, <2>3
<1> QED
  BY <1>1, <1>2, PTL DEF Spec

\* A short first batch, or any other cut, never costs a component that the rows
\* seen so far allow, and there are never more than were asked for or than there
\* are features.
THEOREM ComponentsAlwaysReachRequested == Spec => []ComponentsReachRequested
<1>1. Init => ComponentsReachRequested
  BY RequestsAssumption, NFeaturesAssumption DEF Init, ComponentsReachRequested, Least
<1>2. TypeOK /\ ComponentsReachRequested /\ [Next]_vars => ComponentsReachRequested'
  <2> SUFFICES ASSUME TypeOK, ComponentsReachRequested, [Next]_vars
               PROVE  ComponentsReachRequested'
    OBVIOUS
  <2>1. CASE \E batch \in Batches : PartialFit(batch)
    BY <2>1, PartialFitKeepsComponents
  <2>2. CASE Next /\ ~\E batch \in Batches : PartialFit(batch)
    BY <2>2, OthersKeepTraining DEF ComponentsReachRequested
  <2>3. CASE UNCHANGED vars
    BY <2>3 DEF vars, trainer, ComponentsReachRequested
  <2> QED
    BY <2>1, <2>2, <2>3
<1> QED
  BY <1>1, <1>2, PcaTypeCorrect, PTL DEF Spec

-----------------------------------------------------------------------------
\* Sum adds up the values of a sequence, one after the other.

\* P[k] is the sum of the first k of the len values of g.
IsPrefixSum(P, g, len) ==
    /\ P \in [0..len -> Int]
    /\ P[0] = 0
    /\ \A k \in 1..len : P[k] = P[k - 1] + g[k]

\* it is the fold of + over sets of places, as FoldLeft builds it.
IsSumFold(it, g, D) ==
    it = [S \in SUBSET D |-> IF S = {} THEN 0 ELSE it[S \ {Max(S)}] + g[Max(S)]]

\* There is such a fold.
LEMMA SumFoldExists ==
    ASSUME NEW n \in Nat, NEW g
    PROVE  \E it : IsSumFold(it, g, 1..n)
<1> DEFINE Can(k) == \E it : IsSumFold(it, g, 1..k)
           Bad == {k \in Nat : ~Can(k)}
<1>1. SUFFICES ASSUME Bad # {} PROVE FALSE
  OBVIOUS
<1>2. PICK k \in Bad : \A j \in Bad : k <= j
  <2>1. Bad \subseteq Nat
    OBVIOUS
  <2> HIDE DEF Bad
  <2> QED
    BY <1>1, <2>1, LeastOfNat
<1>3. k # 0
  <2> DEFINE it == [S \in SUBSET (1..0) |-> 0]
  <2>1. \A S \in SUBSET (1..0) : S = {}
    OBVIOUS
  <2>2. it = [S \in SUBSET (1..0) |->
                IF S = {} THEN 0 ELSE it[S \ {Max(S)}] + g[Max(S)]]
    BY <2>1
  <2> HIDE DEF it
  <2>3. Can(0)
    BY <2>2 DEF IsSumFold
  <2> HIDE DEF Can
  <2> QED
    BY <2>3
<1>4. k \in Nat \ {0} /\ k - 1 \in Nat /\ ~(k <= k - 1)
  BY <1>3
<1>5. PICK s : IsSumFold(s, g, 1..(k - 1))
  <2> HIDE DEF Can
  <2>1. Can(k - 1)
    BY <1>2, <1>4
  <2> QED
    BY <2>1 DEF Can
<1> DEFINE it == [S \in SUBSET (1..k) |->
                     IF k \in S THEN s[S \ {k}] + g[k] ELSE s[S]]
<1>6. \A S \in SUBSET (1..k) : k \notin S => S \in SUBSET (1..(k - 1))
  BY <1>4
<1>7. ASSUME NEW S \in SUBSET (1..k)
      PROVE  it[S] = IF S = {} THEN 0 ELSE it[S \ {Max(S)}] + g[Max(S)]
  <2>1. CASE k \in S
    <3>1. Max(S) = k
      BY <1>4, <2>1, MaxIs
    <3>2. it[S] = s[S \ {k}] + g[k] /\ it[S \ {k}] = s[S \ {k}]
      BY <2>1
    <3> HIDE DEF it
    <3> QED
      BY <2>1, <3>1, <3>2
  <2>2. CASE k \notin S
    <3>1. it[S] = s[S] /\ it[S \ {Max(S)}] = s[S \ {Max(S)}] /\ S \in SUBSET (1..(k - 1))
      BY <1>6, <2>2
    <3>2. s[S] = IF S = {} THEN 0 ELSE s[S \ {Max(S)}] + g[Max(S)]
      BY <1>5, <3>1 DEF IsSumFold
    <3> HIDE DEF it
    <3> QED
      BY <3>1, <3>2
  <2> QED
    BY <2>1, <2>2
<1>8. Can(k)
  <2>1. it = [S \in SUBSET (1..k) |-> it[S]]
    OBVIOUS
  <2> HIDE DEF it
  <2>2. IsSumFold(it, g, 1..k)
    BY <1>7, <2>1 DEF IsSumFold
  <2> QED
    BY <2>2
<1> HIDE DEF Can
<1> QED
  BY <1>8

\* The sum of len values is the last of the sums of the first of them.
LEMMA SumIsLastPrefix ==
    ASSUME NEW len \in Nat, NEW g \in [1..len -> Int]
    PROVE  \E P : IsPrefixSum(P, g, len) /\ P[len] = Sum(g)
<1> DEFINE D == DOMAIN g
           it == CHOOSE t : t = [S \in SUBSET D |->
                    IF S = {} THEN 0 ELSE t[S \ {Max(S)}] + g[Max(S)]]
           P == [k \in 0..len |-> it[1..k]]
<1>1. Sum(g) = it[D]
  BY DEF Sum, FoldLeft, MapThenFoldSet
<1>2. D = 1..len
  OBVIOUS
<1>3. it = CHOOSE t : IsSumFold(t, g, D)
  BY DEF IsSumFold
<1> HIDE DEF it, D
<1>4. IsSumFold(it, g, D)
  <2>1. \E t : IsSumFold(t, g, D)
    BY <1>2, SumFoldExists
  <2> QED
    BY <1>3, <2>1
<1>5. P[0] = 0
  <2>1. 1..0 = {} /\ {} \in SUBSET D /\ 0 \in 0..len
    OBVIOUS
  <2>2. it[{}] = 0
    BY <1>4 DEF IsSumFold
  <2> QED
    BY <2>1, <2>2
<1>6. ASSUME NEW k \in 1..len PROVE P[k] = P[k - 1] + g[k]
  <2> DEFINE S == 1..k
             T == 1..(k - 1)
  <2>1. /\ S \in SUBSET D /\ S # {} /\ k \in Nat \ {0} /\ k \in S /\ S \in SUBSET (1..k)
        /\ S \ {k} = T
    <3>1. k \in Nat \ {0} /\ k <= len /\ len \in Nat
      OBVIOUS
    <3>2. 1..k \subseteq 1..len /\ k \in 1..k /\ (1..k) \ {k} = 1..(k - 1)
      BY ONLY <3>1
    <3> QED
      BY ONLY <1>2, <3>1, <3>2
  <2>2. Max(S) = k
    <3> HIDE DEF S
    <3> QED
      BY <2>1, MaxIs
  <2>3. P[k] = it[S] /\ P[k - 1] = it[T]
    OBVIOUS
  <2> HIDE DEF S, T, P
  <2>4. it[S] = it[S \ {Max(S)}] + g[Max(S)]
    BY <1>4, <2>1 DEF IsSumFold
  <2> QED
    BY <2>1, <2>2, <2>3, <2>4
<1>7. P[len] = it[D]
  BY <1>2
<1>8. P = [k \in 0..len |-> P[k]]
  OBVIOUS
<1> HIDE DEF P
<1> DEFINE Bad == {k \in 0..len : P[k] \notin Int}
<1>9. Bad = {}
  <2> SUFFICES ASSUME Bad # {} PROVE FALSE
    OBVIOUS
  <2>1. PICK k \in Bad : \A j \in Bad : k <= j
    <3>1. Bad \subseteq Nat
      OBVIOUS
    <3> HIDE DEF Bad
    <3> QED
      BY <3>1, LeastOfNat
  <2>2. k # 0
    BY <1>5
  <2>3. k \in 1..len /\ k - 1 \in 0..len /\ ~(k <= k - 1)
    BY <2>2
  <2>4. P[k - 1] \in Int /\ g[k] \in Int
    BY <2>1, <2>3
  <2> QED
    BY <1>6, <2>3, <2>4
<1>10. P \in [0..len -> Int]
  BY <1>8, <1>9
<1> QED
  BY <1>1, <1>5, <1>6, <1>7, <1>10 DEF IsPrefixSum

\* There is one way to add up the first values.
LEMMA PrefixUnique ==
    ASSUME NEW len \in Nat, NEW g \in [1..len -> Int], NEW P, IsPrefixSum(P, g, len)
    PROVE  Sum(g) = P[len] /\ Sum(g) \in Int
<1>1. PICK Q : IsPrefixSum(Q, g, len) /\ Q[len] = Sum(g)
  BY SumIsLastPrefix
<1> DEFINE Bad == {k \in 0..len : P[k] # Q[k]}
<1>2. Bad = {}
  <2> SUFFICES ASSUME Bad # {} PROVE FALSE
    OBVIOUS
  <2>1. PICK k \in Bad : \A j \in Bad : k <= j
    <3>1. Bad \subseteq Nat
      OBVIOUS
    <3> HIDE DEF Bad
    <3> QED
      BY <3>1, LeastOfNat
  <2>2. k # 0
    BY <1>1 DEF IsPrefixSum
  <2>3. k \in 1..len /\ k - 1 \in 0..len /\ ~(k <= k - 1)
    BY <2>2
  <2>4. P[k - 1] = Q[k - 1]
    BY <2>1, <2>3
  <2> QED
    BY <1>1, <2>3, <2>4 DEF IsPrefixSum
<1>3. len \in 0..len
  OBVIOUS
<1>4. Q[len] \in Int
  BY <1>1, <1>3 DEF IsPrefixSum
<1> QED
  BY <1>1, <1>2, <1>3, <1>4

\* The sum of values and then of more values.
LEMMA SumOfJoin ==
    ASSUME NEW a \in Nat, NEW b \in Nat, NEW f \in [1..a -> Int], NEW g \in [1..b -> Int],
           NEW h \in [1..(a + b) -> Int],
           \A i \in 1..a : h[i] = f[i], \A i \in 1..b : h[a + i] = g[i]
    PROVE  Sum(h) = Sum(f) + Sum(g)
<1>1. PICK F : IsPrefixSum(F, f, a)
  BY SumIsLastPrefix
<1>2. PICK G : IsPrefixSum(G, g, b)
  BY SumIsLastPrefix
<1> DEFINE n == a + b
           H == [k \in 0..n |-> IF k <= a THEN F[k] ELSE F[a] + G[k - a]]
<1>3. F \in [0..a -> Int] /\ F[0] = 0 /\ \A k \in 1..a : F[k] = F[k - 1] + f[k]
  BY <1>1 DEF IsPrefixSum
<1>4. G \in [0..b -> Int] /\ G[0] = 0 /\ \A k \in 1..b : G[k] = G[k - 1] + g[k]
  BY <1>2 DEF IsPrefixSum
<1>5. H \in [0..n -> Int]
  <2>1. ASSUME NEW k \in 0..n PROVE (IF k <= a THEN F[k] ELSE F[a] + G[k - a]) \in Int
    <3>1. CASE k <= a
      BY <1>3, <3>1
    <3>2. CASE ~(k <= a)
      <4>1. k - a \in 0..b /\ a \in 0..a
        BY <3>2
      <4>2. F[a] \in Int /\ G[k - a] \in Int
        BY <1>3, <1>4, <4>1
      <4> QED
        BY <3>2, <4>2
    <3> QED
      BY <3>1, <3>2
  <2> QED
    BY <2>1
<1>6. ASSUME NEW k \in 1..n PROVE H[k] = H[k - 1] + h[k]
  <2>0. k \in 0..n /\ k - 1 \in 0..n
    OBVIOUS
  <2>1. CASE k <= a
    BY <1>3, <2>0, <2>1
  <2>2. CASE k = a + 1
    <3>1. H[k] = F[a] + G[1] /\ H[k - 1] = F[a]
      BY <2>0, <2>2
    <3>2. 1 \in 1..b /\ h[a + 1] = g[1]
      BY <2>2
    <3>3. G[1] = G[0] + g[1] /\ G[0] = 0 /\ g[1] \in Int /\ F[a] \in Int
      <4>1. 1 - 1 = 0 /\ a \in 0..a
        OBVIOUS
      <4> QED
        BY <1>3, <1>4, <3>2, <4>1
    <3> QED
      BY <2>2, <3>1, <3>2, <3>3
  <2>3. CASE k > a + 1
    <3> DEFINE i == k - a
    <3>1. i \in 1..b /\ i - 1 \in 0..b /\ i \in 0..b /\ a + i = k /\ i - 1 = (k - 1) - a
      BY <2>3
    <3>2. H[k] = F[a] + G[i] /\ H[k - 1] = F[a] + G[i - 1]
      BY <2>0, <2>3
    <3> HIDE DEF i
    <3>3. G[i] = G[i - 1] + g[i] /\ h[k] = g[i]
      BY <1>4, <3>1
    <3>4. F[a] \in Int /\ G[i - 1] \in Int /\ g[i] \in Int
      <4>1. a \in 0..a
        OBVIOUS
      <4> QED
        BY <1>3, <1>4, <3>1, <4>1
    <3> HIDE DEF H
    <3> QED
      BY ONLY <3>2, <3>3, <3>4
  <2> QED
    BY <2>1, <2>2, <2>3
<1>7. H[0] = 0
  BY <1>3
<1>8. H[n] = F[a] + G[b]
  <2>1. CASE b = 0
    BY <1>3, <1>4, <2>1
  <2>2. CASE b # 0
    <3>1. ~(n <= a) /\ n - a = b /\ n \in 0..n
      BY <2>2
    <3> QED
      BY <3>1
  <2> QED
    BY <2>1, <2>2
<1>9. n \in Nat /\ h \in [1..n -> Int]
  OBVIOUS
<1> HIDE DEF H
<1>10. IsPrefixSum(H, h, n)
  BY <1>5, <1>6, <1>7 DEF IsPrefixSum
<1> HIDE DEF n
<1>11. Sum(h) = H[n]
  BY <1>9, <1>10, PrefixUnique
<1>12. Sum(f) = F[a] /\ Sum(g) = G[b]
  BY <1>1, <1>2, PrefixUnique
<1> QED
  BY <1>8, <1>11, <1>12

-----------------------------------------------------------------------------
\* A division that comes out even.
LEMMA DivisionIsEven ==
    ASSUME NEW n \in Nat \ {0}, NEW y \in Int
    PROVE  (n * y) \div n = y
<1> DEFINE p == n * y
<1>1. p \in Int
  OBVIOUS
<1>2. p = n * (p \div n) + (p % n) /\ p % n \in 0..(n - 1) /\ p \div n \in Int
  <2> HIDE DEF p
  <2> QED
    BY <1>1
<1> DEFINE d == p \div n
           r == p % n
<1>3. n * (y - d) = r /\ r \in 0..(n - 1) /\ d \in Int /\ n * (y - d) \in Int
  <2>1. n * y = n * d + r /\ d \in Int /\ r \in 0..(n - 1)
    BY <1>2
  <2> HIDE DEF d, r, p
  <2> QED
    BY <2>1
<1> HIDE DEF d, r
<1>4. y - d = 0
  <2>1. CASE y - d >= 1
    <3>1. n * (y - d) >= n
      BY <1>3, <2>1
    <3> QED
      BY <1>3, <3>1
  <2>2. CASE y - d <= -1
    <3>1. n * (y - d) <= -n
      BY <1>3, <2>2
    <3> QED
      BY <1>3, <3>1
  <2> QED
    BY <1>3, <2>1, <2>2
<1>5. d = y
  BY <1>3, <1>4
<1> QED
  BY <1>5 DEF d

\* m is the mean of a rows and x of b rows, with the sums s and t.
AreMeans(n, a, b, q, s, t, m, x) ==
    /\ n = a + b
    /\ a * m = (n * q) * s
    /\ b * x = (n * q) * t

\* What the second mean moves the first by.
MeanMoves(n, b, q, s, t, m, x) ==
    \E e \in Int : /\ ((x - m) * b) \div n = e
                  /\ n * e = (x - m) * b
                  /\ n * (m + e) = (n * q) * (s + t)

\* The division in NewMean comes out even, and gives the mean of all rows.
LEMMA MeanOfJoin ==
    ASSUME NEW a \in Nat, NEW b \in Nat \ {0}, NEW n \in Nat \ {0},
           NEW q \in Int, NEW s \in Int, NEW t \in Int, NEW m \in Int, NEW x \in Int,
           AreMeans(n, a, b, q, s, t, m, x)
    PROVE  MeanMoves(n, b, q, s, t, m, x)
<1>0. n = a + b /\ a * m = (n * q) * s /\ b * x = (n * q) * t
  BY DEF AreMeans
<1> DEFINE e == q * (s + t) - m
           d == (x - m) * b
<1>1. e \in Int /\ d \in Int
  OBVIOUS
<1>2. n * e = d
  <2>1. n * e = (n * q) * s + (n * q) * t - n * m
    OBVIOUS
  <2>2. n * m = a * m + b * m
    BY <1>0
  <2>3. d = b * x - b * m
    OBVIOUS
  <2> QED
    BY <1>0, <2>1, <2>2, <2>3
<1>3. n * (m + e) = (n * q) * (s + t)
  OBVIOUS
<1>4. d \div n = e
  <2> HIDE DEF e, d
  <2> QED
    BY <1>1, <1>2, DivisionIsEven
<1> HIDE DEF e
<1> QED
  BY <1>1, <1>2, <1>3, <1>4 DEF MeanMoves

\* The mean over n rows differs by e or h from those of their first a, which
\* differ by d or f from those of the other b.
AreMoved(n, a, b, d, f, e, h) ==
    /\ n = a + b
    /\ n * e = d * b
    /\ n * h = f * b

\* The products around m + e and w + h, from those around m and w over a rows
\* and around m + d and w + f over b rows.
ProductJoins(n, a, b, m, w, d, f, e, h) ==
    /\ (d * f * a * b) \div n = d * h * a
    /\ d * h * a \in Int
    /\ n * ((m + e) * (w + h)) = a * (m * w) + b * ((m + d) * (w + f)) - d * h * a

\* The division in Correction comes out even, and corrects the products.
LEMMA ProductOfJoin ==
    ASSUME NEW a \in Nat, NEW b \in Nat \ {0}, NEW n \in Nat \ {0},
           NEW m \in Int, NEW w \in Int, NEW d \in Int, NEW f \in Int, NEW e \in Int, NEW h \in Int,
           AreMoved(n, a, b, d, f, e, h)
    PROVE  ProductJoins(n, a, b, m, w, d, f, e, h)
<1>0. n = a + b /\ n * e = d * b /\ n * h = f * b
  BY DEF AreMoved
<1>1. d * f * a * b = n * (d * h * a)
  <2>1. d * f * a * b = (d * a) * (f * b)
    OBVIOUS
  <2>2. (d * a) * (f * b) = (d * a) * (n * h)
    BY <1>0
  <2>3. (d * a) * (n * h) = n * (d * h * a)
    OBVIOUS
  <2> QED
    BY <2>1, <2>2, <2>3
<1>2. d * h * a \in Int
  OBVIOUS
<1>3. (d * f * a * b) \div n = d * h * a
  <2> DEFINE y == d * h * a
  <2>1. y \in Int /\ d * f * a * b = n * y
    BY <1>1
  <2> HIDE DEF y
  <2>2. (n * y) \div n = y
    BY <2>1, DivisionIsEven
  <2> QED
    BY <2>1, <2>2 DEF y
<1>4. n * ((m + e) * (w + h)) = a * (m * w) + b * ((m + d) * (w + f)) - d * h * a
  <2>1. n * ((m + e) * (w + h)) = n * (m * w) + m * (n * h) + w * (n * e) + h * (n * e)
    OBVIOUS
  <2>2. n * (m * w) = a * (m * w) + b * (m * w)
    BY <1>0
  <2>3. m * (n * h) = b * (m * f) /\ w * (n * e) = b * (w * d) /\ h * (n * e) = b * (d * h)
    <3>1. m * (n * h) = m * (f * b)
      BY <1>0
    <3>2. w * (n * e) = w * (d * b)
      BY <1>0
    <3>3. h * (n * e) = h * (d * b)
      BY <1>0
    <3> QED
      BY <3>1, <3>2, <3>3
  <2>4. b * ((m + d) * (w + f)) = b * (m * w) + b * (m * f) + b * (w * d) + b * (d * f)
    OBVIOUS
  <2>5. b * (d * h) = b * (d * f) - d * h * a
    <3>1. (a + b) * (d * h) = d * (n * h)
      BY <1>0
    <3>2. d * (n * h) = d * (f * b)
      BY <1>0
    <3>3. (a + b) * (d * h) = d * h * a + b * (d * h) /\ d * (f * b) = b * (d * f)
      OBVIOUS
    <3> QED
      BY <3>1, <3>2, <3>3
  <2> QED
    BY <2>1, <2>2, <2>3, <2>4, <2>5
<1> QED
  BY <1>2, <1>3, <1>4 DEF ProductJoins

\* fg holds the products of f and g.
AreProducts(fg, len, f, g) == fg = [i \in 1..len |-> f[i] * g[i]]

\* dev holds the products of the deviations of f from c / u and of g from d / u.
AreDeviations(dev, len, f, g, u, c, d) ==
    dev = [i \in 1..len |-> (u * f[i] - c) * (u * g[i] - d)]

\* What they sum up to.
SumExpands(dev, fg, len, f, g, u, c, d) ==
    Sum(dev) = u * u * Sum(fg) - u * c * Sum(g) - u * d * Sum(f) + len * (c * d)

\* The sum of the products of the deviations of f from c / u and of g from d / u.
LEMMA SumOfDeviations ==
    ASSUME NEW len \in Nat, NEW f \in [1..len -> Int], NEW g \in [1..len -> Int],
           NEW u \in Int, NEW c \in Int, NEW d \in Int, NEW fg, NEW dev,
           AreProducts(fg, len, f, g), AreDeviations(dev, len, f, g, u, c, d)
    PROVE  SumExpands(dev, fg, len, f, g, u, c, d)
<1>0. /\ fg = [i \in 1..len |-> f[i] * g[i]]
      /\ dev = [i \in 1..len |-> (u * f[i] - c) * (u * g[i] - d)]
  BY DEF AreProducts, AreDeviations
<1>1. fg \in [1..len -> Int] /\ dev \in [1..len -> Int]
  <2>1. ASSUME NEW i \in 1..len
        PROVE  f[i] * g[i] \in Int /\ (u * f[i] - c) * (u * g[i] - d) \in Int
    <3>1. f[i] \in Int /\ g[i] \in Int
      OBVIOUS
    <3> QED
      BY <3>1
  <2> QED
    BY <1>0, <2>1
<1>2. PICK F : IsPrefixSum(F, f, len) /\ F[len] = Sum(f)
  BY SumIsLastPrefix
<1>3. PICK G : IsPrefixSum(G, g, len) /\ G[len] = Sum(g)
  BY SumIsLastPrefix
<1>4. PICK P : IsPrefixSum(P, fg, len) /\ P[len] = Sum(fg)
  <2> QED
    BY <1>1, SumIsLastPrefix
<1>5. PICK Q : IsPrefixSum(Q, dev, len) /\ Q[len] = Sum(dev)
  <2> QED
    BY <1>1, SumIsLastPrefix
<1>6. /\ \A k \in 0..len : F[k] \in Int /\ G[k] \in Int /\ P[k] \in Int /\ Q[k] \in Int
      /\ F[0] = 0 /\ G[0] = 0 /\ P[0] = 0 /\ Q[0] = 0
  <2> QED
    BY <1>2, <1>3, <1>4, <1>5 DEF IsPrefixSum
<1>7. \A k \in 1..len : F[k] = F[k - 1] + f[k] /\ G[k] = G[k - 1] + g[k]
  BY <1>2, <1>3 DEF IsPrefixSum
<1>8. \A k \in 1..len : P[k] = P[k - 1] + f[k] * g[k]
  BY <1>0, <1>4 DEF IsPrefixSum
<1>9. \A k \in 1..len : Q[k] = Q[k - 1] + (u * f[k] - c) * (u * g[k] - d)
  BY <1>0, <1>5 DEF IsPrefixSum
<1> DEFINE Should(k) == u * u * P[k] - u * c * G[k] - u * d * F[k] + k * (c * d)
           Bad == {k \in 0..len : Q[k] # Should(k)}
<1>10. Bad = {}
  <2> SUFFICES ASSUME Bad # {} PROVE FALSE
    OBVIOUS
  <2>1. PICK k \in Bad : \A j \in Bad : k <= j
    <3>1. Bad \subseteq Nat
      OBVIOUS
    <3> HIDE DEF Bad
    <3> QED
      BY <3>1, LeastOfNat
  <2>2. k # 0
    <3>1. Should(0) = 0
      BY <1>6
    <3> HIDE DEF Should
    <3> QED
      BY <1>6, <3>1
  <2>3. k \in 1..len /\ k - 1 \in 0..len /\ ~(k <= k - 1)
    BY <2>2
  <2>4. Q[k - 1] = Should(k - 1)
    BY <2>1, <2>3
  <2>15. /\ f[k] \in Int /\ g[k] \in Int /\ k \in Int
         /\ F[k - 1] \in Int /\ G[k - 1] \in Int /\ P[k - 1] \in Int /\ Q[k - 1] \in Int
    <3> HIDE DEF Bad, Should
    <3>1. f[k] \in Int /\ g[k] \in Int /\ k \in Int
      BY <2>3
    <3> QED
      BY <1>6, <2>3, <3>1
  <2> DEFINE x == f[k]
             y == g[k]
             fp == F[k - 1]
             gp == G[k - 1]
             pp == P[k - 1]
             qp == Q[k - 1]
  <2>5. x \in Int /\ y \in Int /\ fp \in Int /\ gp \in Int /\ pp \in Int /\ qp \in Int /\ k \in Int
    BY <2>15
  <2>6. F[k] = fp + x /\ G[k] = gp + y /\ P[k] = pp + x * y
        /\ Q[k] = qp + (u * x - c) * (u * y - d)
    BY <1>7, <1>8, <1>9, <2>3
  <2>7. qp = u * u * pp - u * c * gp - u * d * fp + (k - 1) * (c * d)
    BY <2>4
  <2>8. Should(k) = u * u * (pp + x * y) - u * c * (gp + y) - u * d * (fp + x) + k * (c * d)
    BY <2>6
  <2>9. Q[k] # Should(k)
    BY <2>1
  <2> DEFINE now == Q[k]
             should == Should(k)
  <2>10. /\ now = qp + (u * x - c) * (u * y - d)
         /\ should = u * u * (pp + x * y) - u * c * (gp + y) - u * d * (fp + x) + k * (c * d)
         /\ now # should
    BY <2>6, <2>8, <2>9
  <2> HIDE DEF now, should, x, y, fp, gp, pp, qp, Bad, Should
  <2>11. (u * x - c) * (u * y - d) = u * u * (x * y) - u * c * y - u * d * x + c * d
    BY <2>5
  <2>12. u * u * (pp + x * y) = u * u * pp + u * u * (x * y)
    BY <2>5
  <2>13. u * c * (gp + y) = u * c * gp + u * c * y /\ u * d * (fp + x) = u * d * fp + u * d * x
    BY <2>5
  <2>14. k * (c * d) = (k - 1) * (c * d) + c * d
    BY <2>5
  <2> QED
    BY <2>5, <2>7, <2>10, <2>11, <2>12, <2>13, <2>14
<1>11. Q[len] = Should(len)
  <2>1. len \in 0..len
    OBVIOUS
  <2> HIDE DEF Should
  <2> QED
    BY <1>10, <2>1
<1> QED
  BY <1>2, <1>3, <1>4, <1>5, <1>11 DEF SumExpands

-----------------------------------------------------------------------------
\* The sums a mean and the products around it are made of.

Column(s, j) == [i \in 1..Len(s) |-> s[i][j]]
Products(s, j, k) == [i \in 1..Len(s) |-> s[i][j] * s[i][k]]

\* m is the mean of the rows s, or anything if there are none.
IsMean(m, s) ==
    \A j \in Features : m[j] \in Int /\ Len(s) * m[j] = Unit * Sum(Column(s, j))

\* The products of the rows s around m, their mean.
Around(m, s, j, k) == Unit * Unit * Sum(Products(s, j, k)) - Len(s) * (m[j] * m[k])

\* Rows hold integers.
LEMMA ColumnsType ==
    ASSUME NEW s \in Seq(Row), NEW j \in Features, NEW k \in Features
    PROVE  /\ Column(s, j) \in [1..Len(s) -> Int] /\ Products(s, j, k) \in [1..Len(s) -> Int]
           /\ Sum(Column(s, j)) \in Int /\ Sum(Products(s, j, k)) \in Int
<1>1. ASSUME NEW i \in 1..Len(s) PROVE s[i][j] \in Int /\ s[i][k] \in Int
  <2>1. s[i] \in [Features -> Values]
    BY DEF Row
  <2> QED
    BY <2>1, ValuesAssumption
<1>2. ASSUME NEW i \in 1..Len(s) PROVE s[i][j] * s[i][k] \in Int
  BY <1>1
<1>3. Column(s, j) \in [1..Len(s) -> Int] /\ Products(s, j, k) \in [1..Len(s) -> Int]
  BY <1>1, <1>2 DEF Column, Products
<1>4. Len(s) \in Nat
  OBVIOUS
<1>5. \A g \in [1..Len(s) -> Int] : Sum(g) \in Int
  <2> SUFFICES ASSUME NEW g \in [1..Len(s) -> Int] PROVE Sum(g) \in Int
    OBVIOUS
  <2>1. PICK P : IsPrefixSum(P, g, Len(s)) /\ P[Len(s)] = Sum(g)
    BY <1>4, SumIsLastPrefix
  <2> QED
    BY <1>4, <2>1, PrefixUnique
<1> QED
  BY <1>3, <1>5

\* The sums over two pieces of a table add up.
LEMMA SumsOfJoin ==
    ASSUME NEW s \in Seq(Row), NEW t \in Seq(Row), NEW j \in Features, NEW k \in Features
    PROVE  /\ Sum(Column(s \o t, j)) = Sum(Column(s, j)) + Sum(Column(t, j))
           /\ Sum(Products(s \o t, j, k)) = Sum(Products(s, j, k)) + Sum(Products(t, j, k))
<1> DEFINE a == Len(s)
           b == Len(t)
           r == s \o t
<1>1. /\ r \in Seq(Row) /\ Len(r) = a + b /\ a \in Nat /\ b \in Nat
      /\ \A i \in 1..a : r[i] = s[i]
      /\ \A i \in 1..b : r[a + i] = t[i]
  <2>1. Len(r) = a + b /\ a \in Nat /\ b \in Nat /\ r \in Seq(Row)
    OBVIOUS
  <2>2. \A i \in 1..(a + b) : r[i] = IF i <= a THEN s[i] ELSE t[i - a]
    OBVIOUS
  <2>3. \A i \in 1..b : a + i \in 1..(a + b) /\ ~(a + i <= a) /\ (a + i) - a = i
    OBVIOUS
  <2>4. \A i \in 1..a : i \in 1..(a + b) /\ i <= a
    OBVIOUS
  <2> HIDE DEF a, b, r
  <2> QED
    BY <2>1, <2>2, <2>3, <2>4
<1>2. /\ Column(s, j) \in [1..a -> Int] /\ Column(t, j) \in [1..b -> Int]
      /\ Products(s, j, k) \in [1..a -> Int] /\ Products(t, j, k) \in [1..b -> Int]
  BY ColumnsType
<1>3. Column(r, j) \in [1..(a + b) -> Int] /\ Products(r, j, k) \in [1..(a + b) -> Int]
  <2> HIDE DEF r, a, b
  <2>1. Column(r, j) \in [1..Len(r) -> Int] /\ Products(r, j, k) \in [1..Len(r) -> Int]
    BY <1>1, ColumnsType
  <2> QED
    BY <1>1, <2>1
<1> HIDE DEF a, b, r
<1>4. /\ \A i \in 1..a : Column(r, j)[i] = Column(s, j)[i]
      /\ \A i \in 1..b : Column(r, j)[a + i] = Column(t, j)[i]
      /\ \A i \in 1..a : Products(r, j, k)[i] = Products(s, j, k)[i]
      /\ \A i \in 1..b : Products(r, j, k)[a + i] = Products(t, j, k)[i]
  <2>1. \A i \in 1..a : i \in 1..Len(r) /\ i \in 1..Len(s)
    BY <1>1 DEF a
  <2>2. \A i \in 1..b : a + i \in 1..Len(r) /\ i \in 1..Len(t)
    BY <1>1 DEF b
  <2> QED
    BY <1>1, <2>1, <2>2 DEF Column, Products
<1>5. Sum(Column(r, j)) = Sum(Column(s, j)) + Sum(Column(t, j))
  BY <1>1, <1>2, <1>3, <1>4, SumOfJoin
<1>6. Sum(Products(r, j, k)) = Sum(Products(s, j, k)) + Sum(Products(t, j, k))
  BY <1>1, <1>2, <1>3, <1>4, SumOfJoin
<1> QED
  BY <1>5, <1>6 DEF r

\* Unit is a multiple of every number of rows.
LEMMA UnitIsMultiple ==
    ASSUME NEW n \in 1..MaxRows
    PROVE  /\ n \in Nat \ {0} /\ Unit \in Nat
           /\ \E q \in Int : Unit = n * q
<1>1. n \in Nat \ {0} /\ Unit \in Nat /\ Unit % n = 0
  BY MaxRowsAssumption, UnitAssumption
<1>2. Unit = n * (Unit \div n) + (Unit % n) /\ Unit \div n \in Int
  BY <1>1
<1> QED
  BY <1>1, <1>2

\* What Mean and Scatter compute of a batch.
LEMMA BatchStatistics ==
    ASSUME NEW s \in Seq(Row), Len(s) \in 1..MaxRows
    PROVE  /\ IsMean(Mean(s), s)
           /\ \A j \in Features, k \in Features :
                 /\ Scatter(s)[j][k] = Around(Mean(s), s, j, k)
                 /\ Scatter(s)[j][k] \in Int
<1> DEFINE n == Len(s)
           m == Mean(s)
<1>1. n \in Nat \ {0} /\ Unit \in Nat /\ DOMAIN s = 1..n
  BY UnitIsMultiple
<1>2. PICK q \in Int : Unit = n * q
  BY UnitIsMultiple
<1>3. ASSUME NEW j \in Features
      PROVE  m[j] \in Int /\ n * m[j] = Unit * Sum(Column(s, j))
  <2> DEFINE S == Sum(Column(s, j))
  <2>1. m[j] = (Unit * S) \div n
    BY <1>1 DEF Mean, Column
  <2>2. S \in Int
    BY ColumnsType
  <2> HIDE DEF S, n, m
  <2> DEFINE y == q * S
  <2>3. Unit * S = n * y /\ y \in Int
    BY <1>1, <1>2, <2>2
  <2> HIDE DEF y
  <2>4. m[j] = y
    BY <1>1, <2>1, <2>3, DivisionIsEven
  <2> QED
    BY <2>3, <2>4 DEF S
<1>4. IsMean(m, s)
  <2> HIDE DEF m
  <2> QED
    BY <1>3 DEF IsMean
<1>5. ASSUME NEW j \in Features, NEW k \in Features
      PROVE  /\ Scatter(s)[j][k] = Around(m, s, j, k)
             /\ Scatter(s)[j][k] \in Int
  <2> DEFINE f == Column(s, j)
             g == Column(s, k)
             c == m[j]
             d == m[k]
             dev == [i \in 1..n |-> (Unit * f[i] - c) * (Unit * g[i] - d)]
             fg == [i \in 1..n |-> f[i] * g[i]]
  <2>1. Scatter(s)[j][k] = Sum([i \in 1..n |-> (Unit * s[i][j] - c) * (Unit * s[i][k] - d)])
    <3> HIDE DEF m
    <3> QED
      BY <1>1 DEF Scatter, m
  <2>2. \A i \in 1..n : f[i] = s[i][j] /\ g[i] = s[i][k]
    BY DEF Column
  <2>3. Scatter(s)[j][k] = Sum(dev)
    <3> HIDE DEF f, g, c, d, n
    <3> QED
      BY <2>1, <2>2
  <2>4. Products(s, j, k) = fg
    <3> HIDE DEF f, g
    <3> QED
      BY <2>2 DEF Products
  <2>5. f \in [1..n -> Int] /\ g \in [1..n -> Int] /\ Sum(f) \in Int /\ Sum(g) \in Int
        /\ Sum(Products(s, j, k)) \in Int
    BY ColumnsType
  <2>6. c \in Int /\ d \in Int /\ n * c = Unit * Sum(f) /\ n * d = Unit * Sum(g)
    BY <1>3
  <2> DEFINE p == Sum(fg)
  <2>7. Sum(dev) = Unit * Unit * p - Unit * c * Sum(g) - Unit * d * Sum(f) + n * (c * d)
    <3>1. n \in Nat /\ Unit \in Int /\ c \in Int /\ d \in Int
      BY <1>1, <2>6
    <3>2. f \in [1..n -> Int] /\ g \in [1..n -> Int]
      BY <2>5
    <3>3. /\ AreProducts(fg, n, f, g)
          /\ AreDeviations(dev, n, f, g, Unit, c, d)
      BY DEF AreProducts, AreDeviations
    <3> HIDE DEF f, g, c, d, n, fg, dev
    <3>4. SumExpands(dev, fg, n, f, g, Unit, c, d)
      BY ONLY <3>1, <3>2, <3>3, SumOfDeviations
    <3> QED
      BY <3>4 DEF SumExpands
  <2>8. p \in Int
    BY <2>4, <2>5
  <2> DEFINE F == Sum(f)
             G == Sum(g)
  <2>9. F \in Int /\ G \in Int /\ n * c = Unit * F /\ n * d = Unit * G
        /\ Sum(dev) = Unit * Unit * p - Unit * c * G - Unit * d * F + n * (c * d)
    BY <2>5, <2>6, <2>7
  <2> DEFINE value == Sum(dev)
  <2> HIDE DEF F, G, f, g, fg, dev, c, d, p, n, value
  <2>10. value = Unit * Unit * p - n * (c * d) /\ value \in Int
    <3>1. Unit * c * G = n * (c * d) /\ Unit * d * F = n * (c * d)
      <4>1. Unit * c * G = c * (Unit * G) /\ Unit * d * F = d * (Unit * F)
        BY <1>1, <2>6, <2>9
      <4>2. c * (Unit * G) = c * (n * d) /\ d * (Unit * F) = d * (n * c)
        BY <2>9
      <4>3. c * (n * d) = n * (c * d) /\ d * (n * c) = n * (c * d)
        BY <1>1, <2>6
      <4> QED
        BY <4>1, <4>2, <4>3
    <3>2. value = Unit * Unit * p - Unit * c * G - Unit * d * F + n * (c * d)
      BY <2>9 DEF value
    <3>3. Unit * Unit * p \in Int /\ n * (c * d) \in Int
      BY <1>1, <2>6, <2>8
    <3> QED
      BY <3>1, <3>2, <3>3
  <2>11. Around(m, s, j, k) = Unit * Unit * p - n * (c * d)
    BY <2>4 DEF Around, p, n, c, d
  <2> QED
    BY <2>3, <2>10, <2>11 DEF value
<1> QED
  BY <1>4, <1>5

\* Rows have one mean.
LEMMA MeanIsUnique ==
    ASSUME NEW s \in Seq(Row), Len(s) > 0, NEW m, NEW w, IsMean(m, s), IsMean(w, s),
           NEW j \in Features
    PROVE  m[j] = w[j]
<1>1. m[j] \in Int /\ w[j] \in Int /\ Len(s) * m[j] = Len(s) * w[j] /\ Len(s) \in Nat
  BY DEF IsMean
<1> DEFINE n == Len(s)
           c == m[j]
           e == w[j]
<1>2. n \in Nat /\ n > 0 /\ c \in Int /\ e \in Int /\ n * c = n * e
  BY <1>1
<1> HIDE DEF n, c, e
<1>3. n * (c - e) = 0
  BY <1>2
<1> DEFINE d == c - e
<1>4. d \in Int /\ n * d = 0
  BY <1>2, <1>3
<1>5. d = 0
  <2> HIDE DEF d
  <2> QED
    BY <1>2, <1>4
<1>6. c = e
  BY <1>2, <1>5
<1> QED
  BY <1>6 DEF c, e

\* The products around a mean are whole multiples of the number of rows, as
\* the division by n in NewVar needs.
LEMMA AroundIsMultiple ==
    ASSUME NEW s \in Seq(Row), Len(s) \in 1..MaxRows, NEW m, IsMean(m, s), NEW j \in Features
    PROVE  /\ Around(m, s, j, j) \in Int
           /\ Around(m, s, j, j) \div Len(s) \in Int
           /\ (Around(m, s, j, j) \div Len(s)) * Len(s) = Around(m, s, j, j)
<1> DEFINE n == Len(s)
           p == Sum(Products(s, j, j))
           c == m[j]
           around == Around(m, s, j, j)
<1>1. n \in Nat \ {0} /\ Unit \in Nat
  BY UnitIsMultiple
<1>2. PICK q \in Int : Unit = n * q
  BY UnitIsMultiple
<1>3. p \in Int /\ c \in Int
  BY ColumnsType DEF IsMean
<1>4. around = Unit * Unit * p - n * (c * c)
  BY DEF Around
<1> DEFINE y == n * (q * q * p) - c * c
<1> HIDE DEF n, p, c, around
<1>5. y \in Int
  BY <1>1, <1>2, <1>3
<1>6. around = n * y
  <2>1. Unit * Unit * p = n * (n * (q * q * p))
    BY <1>1, <1>2, <1>3
  <2> DEFINE z == n * (q * q * p)
             cc == c * c
  <2>2. around = n * z - n * cc /\ z \in Int /\ cc \in Int
    BY <1>1, <1>2, <1>3, <1>4, <2>1
  <2>3. y = z - cc
    OBVIOUS
  <2> HIDE DEF z, cc, y
  <2> QED
    BY <1>1, <2>2, <2>3
<1> HIDE DEF y
<1>7. around \div n = y
  BY <1>1, <1>5, <1>6, DivisionIsEven
<1>8. around \in Int /\ y * n = around
  BY <1>1, <1>5, <1>6
<1> QED
  BY <1>5, <1>7, <1>8 DEF around, n

\* new is what the mean m of a rows becomes with b rows of mean x.
IsMoved(new, m, x, a, b) ==
    \A j \in Features : new[j] = m[j] + ((x[j] - m[j]) * b) \div (a + b)

\* new is the mean of s and t, and the products around it are those around the
\* means m of s and x of t and what Correction adds.
StatisticsJoin(new, m, x, s, t, a, b) ==
    /\ IsMean(new, s \o t)
    /\ \A j \in Features, k \in Features :
          LET part == (x[j] - m[j]) * (new[k] - m[k]) * a
          IN  /\ part \in Int
              /\ ((x[j] - m[j]) * (x[k] - m[k]) * a * b) \div (a + b) = part
              /\ Around(new, s \o t, j, k) = Around(m, s, j, k) + Around(x, t, j, k) + part

\* Folding the statistics of more rows into those of the rows so far gives the
\* statistics of all of them.
LEMMA StatisticsOfJoin ==
    ASSUME NEW s \in Seq(Row), NEW t \in Seq(Row), NEW a \in Nat, NEW b \in Nat \ {0},
           a = Len(s), b = Len(t), a + b <= MaxRows,
           NEW m, NEW x, IsMean(m, s), IsMean(x, t), NEW new, IsMoved(new, m, x, a, b)
    PROVE  StatisticsJoin(new, m, x, s, t, a, b)
<1> DEFINE n == a + b
           r == s \o t
<1>1. /\ r \in Seq(Row) /\ Len(r) = n /\ n \in 1..MaxRows /\ n \in Nat \ {0} /\ Unit \in Nat
  BY MaxRowsAssumption, UnitAssumption
<1>2. PICK q \in Int : Unit = n * q
  <2> HIDE DEF n
  <2> QED
    BY <1>1, UnitIsMultiple
<1>3. ASSUME NEW j \in Features
      PROVE  /\ m[j] \in Int /\ x[j] \in Int /\ new[j] \in Int
             /\ n * (new[j] - m[j]) = (x[j] - m[j]) * b
             /\ n * new[j] = Unit * Sum(Column(r, j))
  <2> DEFINE S == Sum(Column(s, j))
             T == Sum(Column(t, j))
             mj == m[j]
             xj == x[j]
             nj == new[j]
  <2>1. S \in Int /\ T \in Int /\ Sum(Column(r, j)) = S + T
    BY ColumnsType, SumsOfJoin
  <2>2. mj \in Int /\ xj \in Int /\ a * mj = (n * q) * S /\ b * xj = (n * q) * T
    <3>1. mj \in Int /\ xj \in Int /\ a * mj = Unit * S /\ b * xj = Unit * T
      BY DEF IsMean
    <3> HIDE DEF S, T, n, mj, xj
    <3> QED
      BY <1>2, <3>1
  <2>3. nj = mj + ((xj - mj) * b) \div n
    BY DEF IsMoved
  <2> HIDE DEF S, T, n, mj, xj, nj
  <2>4. n \in Nat \ {0} /\ AreMeans(n, a, b, q, S, T, mj, xj)
    BY <1>1, <2>2 DEF AreMeans, n
  <2>8. MeanMoves(n, b, q, S, T, mj, xj)
    BY ONLY <1>2, <2>1, <2>2, <2>4, a \in Nat, b \in Nat \ {0}, MeanOfJoin
  <2>5. PICK e \in Int : /\ ((xj - mj) * b) \div n = e
                         /\ n * e = (xj - mj) * b
                         /\ n * (mj + e) = (n * q) * (S + T)
    BY <2>8 DEF MeanMoves
  <2>6. nj = mj + e /\ nj - mj = e /\ nj \in Int
    BY <2>2, <2>3, <2>5
  <2>7. n * nj = Unit * (S + T)
    BY <1>2, <2>5, <2>6
  <2> QED
    BY <2>1, <2>2, <2>5, <2>6, <2>7 DEF mj, xj, nj
<1>4. IsMean(new, r)
  BY <1>1, <1>3 DEF IsMean
<1>5. ASSUME NEW j \in Features, NEW k \in Features
      PROVE  LET part == (x[j] - m[j]) * (new[k] - m[k]) * a
             IN  /\ part \in Int
                 /\ ((x[j] - m[j]) * (x[k] - m[k]) * a * b) \div n = part
                 /\ Around(new, r, j, k) = Around(m, s, j, k) + Around(x, t, j, k) + part
  <2> DEFINE mj == m[j]
             mk == m[k]
             d == x[j] - m[j]
             f == x[k] - m[k]
             e == new[j] - m[j]
             h == new[k] - m[k]
             P == Sum(Products(s, j, k))
             Q == Sum(Products(t, j, k))
             part == d * h * a
  <2>1. /\ mj \in Int /\ mk \in Int /\ d \in Int /\ f \in Int /\ e \in Int /\ h \in Int
        /\ n * e = d * b /\ n * h = f * b
        /\ new[j] = mj + e /\ new[k] = mk + h /\ x[j] = mj + d /\ x[k] = mk + f
    <3>1. /\ m[j] \in Int /\ x[j] \in Int /\ new[j] \in Int /\ n * e = d * b
          /\ m[k] \in Int /\ x[k] \in Int /\ new[k] \in Int /\ n * h = f * b
      <4> HIDE DEF n
      <4> QED
        BY <1>3
    <3>2. /\ mj \in Int /\ mk \in Int /\ d \in Int /\ f \in Int /\ e \in Int /\ h \in Int
          /\ new[j] = mj + e /\ new[k] = mk + h /\ x[j] = mj + d /\ x[k] = mk + f
      <4>1. \A y \in Int, z \in Int : y - z \in Int /\ y = z + (y - z)
        OBVIOUS
      <4> QED
        BY ONLY <3>1, <4>1
    <3> HIDE DEF n, mj, mk, d, f, e, h
    <3> QED
      BY ONLY <3>1, <3>2
  <2>2. P \in Int /\ Q \in Int /\ Sum(Products(r, j, k)) = P + Q
    BY ColumnsType, SumsOfJoin
  <2>3. /\ Around(new, r, j, k) = Unit * Unit * (P + Q) - n * ((mj + e) * (mk + h))
        /\ Around(m, s, j, k) = Unit * Unit * P - a * (mj * mk)
        /\ Around(x, t, j, k) = Unit * Unit * Q - b * ((mj + d) * (mk + f))
    <3>1. Around(new, r, j, k) = Unit * Unit * (P + Q) - n * (new[j] * new[k])
      <4> HIDE DEF n, r, P, Q
      <4> QED
        BY <1>1, <2>2 DEF Around
    <3>2. Around(m, s, j, k) = Unit * Unit * P - a * (mj * mk)
      BY DEF Around
    <3>3. Around(x, t, j, k) = Unit * Unit * Q - b * (x[j] * x[k])
      BY DEF Around
    <3> HIDE DEF n, mj, mk, d, f, e, h, P, Q
    <3> QED
      BY <2>1, <3>1, <3>2, <3>3
  <2>4. n \in Nat \ {0} /\ AreMoved(n, a, b, d, f, e, h)
    BY <1>1, <2>1 DEF AreMoved
  <2> HIDE DEF n, mj, mk, d, f, e, h, P, Q
  <2>5. /\ (d * f * a * b) \div n = d * h * a
        /\ d * h * a \in Int
        /\ n * ((mj + e) * (mk + h)) = a * (mj * mk) + b * ((mj + d) * (mk + f)) - d * h * a
    <3>1. mj \in Int /\ mk \in Int /\ d \in Int /\ f \in Int /\ e \in Int /\ h \in Int
      BY <2>1
    <3>2. ProductJoins(n, a, b, mj, mk, d, f, e, h)
      BY ONLY <2>4, <3>1, a \in Nat, b \in Nat \ {0}, ProductOfJoin
    <3> QED
      BY <3>2 DEF ProductJoins
  <2> DEFINE A == a * (mj * mk)
             B == b * ((mj + d) * (mk + f))
             N == n * ((mj + e) * (mk + h))
             UP == Unit * Unit * P
             UQ == Unit * Unit * Q
  <2>6. A \in Int /\ B \in Int /\ UP \in Int /\ UQ \in Int /\ part \in Int
        /\ N = A + B - part /\ Unit * Unit * (P + Q) = UP + UQ
    BY <1>1, <2>1, <2>2, <2>5
  <2>7. /\ Around(new, r, j, k) = Unit * Unit * (P + Q) - N
        /\ Around(m, s, j, k) = UP - A
        /\ Around(x, t, j, k) = UQ - B
    BY <2>3
  <2> HIDE DEF A, B, N, UP, UQ, part
  <2>8. Around(new, r, j, k) = Around(m, s, j, k) + Around(x, t, j, k) + part
    BY <2>6, <2>7
  <2>9. (d * f * a * b) \div n = part
    BY <2>5 DEF part
  <2> QED
    BY <2>6, <2>8, <2>9 DEF part, d, f, h
<1> QED
  BY <1>4, <1>5 DEF StatisticsJoin

-----------------------------------------------------------------------------
\* The training as sums: what is kept of the rows is what one pass over all of
\* them would give, whichever batches they came in.
TrainedInv ==
    /\ rows \in Seq(Row) /\ n_samples_seen = Len(rows) /\ Len(rows) <= MaxRows
    /\ mean \in [Features -> Int] /\ IsMean(mean, rows)
    /\ \A j \in Features :
          var[j] \in Int /\ var[j] * Len(rows) = Around(mean, rows, j, j)
    /\ gram # Unknown =>
          /\ gram \in [Features -> [Features -> Int]]
          /\ \A j \in Features, k \in Features : gram[j][k] = Around(mean, rows, j, k)
    /\ requested >= NFeatures => gram # Unknown

\* The sums of no rows.
LEMMA SumsOfNone ==
    ASSUME NEW s \in Seq(Row), s = <<>>, NEW j \in Features, NEW k \in Features
    PROVE  Sum(Column(s, j)) = 0 /\ Sum(Products(s, j, k)) = 0
<1>1. Len(s) = 0 /\ 0 \in Nat
  OBVIOUS
<1>2. Column(s, j) \in [1..0 -> Int] /\ Products(s, j, k) \in [1..0 -> Int]
  <2>1. Column(s, j) \in [1..Len(s) -> Int] /\ Products(s, j, k) \in [1..Len(s) -> Int]
    BY ColumnsType
  <2> QED
    BY <1>1, <2>1
<1>3. \A g \in [1..0 -> Int] : Sum(g) = 0
  <2> SUFFICES ASSUME NEW g \in [1..0 -> Int] PROVE Sum(g) = 0
    OBVIOUS
  <2>1. PICK P : IsPrefixSum(P, g, 0) /\ P[0] = Sum(g)
    BY <1>1, SumIsLastPrefix
  <2> QED
    BY <2>1 DEF IsPrefixSum
<1> QED
  BY <1>2, <1>3

\* A function on Features is not the unknown one.
LEMMA KnownGram ==
    ASSUME NEW g
    PROVE  [j \in Features |-> g[j]] # Unknown
<1>1. 1 \in Features
  BY NFeaturesAssumption DEF Features
<1>2. DOMAIN [j \in Features |-> g[j]] = Features /\ DOMAIN Unknown = {}
  BY DEF Unknown
<1> QED
  BY <1>1, <1>2

\* At the start everything is 0, and so are the sums of no rows.
LEMMA TrainedAtStart == Init => TrainedInv
<1> SUFFICES ASSUME Init PROVE TrainedInv
  OBVIOUS
<1>1. rows = <<>> /\ rows \in Seq(Row) /\ Len(rows) = 0 /\ n_samples_seen = 0 /\ 0 <= MaxRows
  BY MaxRowsAssumption DEF Init
<1>2. \A j \in Features, k \in Features :
         /\ Sum(Column(rows, j)) = 0 /\ Sum(Products(rows, j, k)) = 0
         /\ mean[j] = 0 /\ var[j] = 0 /\ gram[j][k] = 0
  BY <1>1, SumsOfNone DEF Init
<1>3. Unit \in Nat
  BY UnitAssumption
<1>4. mean \in [Features -> Int] /\ gram \in [Features -> [Features -> Int]]
  BY DEF Init
<1>5. \A j \in Features, k \in Features : Around(mean, rows, j, k) = 0
  BY <1>1, <1>2, <1>3 DEF Around
<1>6. IsMean(mean, rows)
  BY <1>1, <1>2, <1>3 DEF IsMean
<1>7. gram # Unknown
  <2>1. gram = [j \in Features |-> gram[j]]
    BY <1>4
  <2> QED
    BY <2>1, KnownGram
<1> QED
  BY <1>1, <1>2, <1>4, <1>5, <1>6, <1>7 DEF TrainedInv

\* PartialFit folds the statistics of its batch into those of the rows so far.
LEMMA PartialFitKeepsTraining ==
    ASSUME TrainedInv, NEW batch \in Batches, PartialFit(batch), components \in Nat,
           requested \in Nat
    PROVE  TrainedInv'
<1> DEFINE a == Len(rows)
           b == Len(batch)
           n == a + b
           x == Mean(batch)
<1>1. /\ batch \in Seq(Row) /\ b \in Nat \ {0} /\ rows \in Seq(Row) /\ a \in Nat
      /\ n \in Nat \ {0} /\ n <= MaxRows /\ n_samples_seen = a /\ Seen(batch) = n
  BY BatchType DEF TrainedInv, PartialFit, Seen
<1>2. /\ rows' = rows \o batch /\ rows' \in Seq(Row) /\ Len(rows') = n
      /\ n_samples_seen' = n /\ n \in 1..MaxRows /\ b \in 1..MaxRows
  BY <1>1, MaxRowsAssumption DEF PartialFit
<1>3. IsMean(x, batch)
      /\ \A j \in Features, k \in Features :
            Scatter(batch)[j][k] = Around(x, batch, j, k) /\ Scatter(batch)[j][k] \in Int
  BY <1>1, <1>2, BatchStatistics
<1>4. IsMoved(mean', mean, x, a, b)
  <2>1. \A j \in Features : mean'[j] = mean[j] + (Delta(batch)[j] * b) \div n
    BY <1>1 DEF PartialFit, NewMean
  <2>2. \A j \in Features : Delta(batch)[j] = x[j] - mean[j]
    BY DEF Delta
  <2> HIDE DEF x, a, b
  <2> QED
    BY <2>1, <2>2 DEF IsMoved
<1> DEFINE Part(j, k) == (x[j] - mean[j]) * (mean'[k] - mean[k]) * a
<1>5. /\ IsMean(mean', rows')
      /\ \A j \in Features, k \in Features :
            /\ Part(j, k) \in Int
            /\ ((x[j] - mean[j]) * (x[k] - mean[k]) * a * b) \div n = Part(j, k)
            /\ Around(mean', rows', j, k) = Around(mean, rows, j, k) + Around(x, batch, j, k) + Part(j, k)
  <2>1. IsMean(mean, rows)
    BY DEF TrainedInv
  <2> DEFINE new == mean'
             r == rows \o batch
  <2>2. /\ IsMean(new, r)
        /\ \A j \in Features, k \in Features :
              LET part == (x[j] - mean[j]) * (new[k] - mean[k]) * a
              IN  /\ part \in Int
                  /\ ((x[j] - mean[j]) * (x[k] - mean[k]) * a * b) \div (a + b) = part
                  /\ Around(new, r, j, k) = Around(mean, rows, j, k) + Around(x, batch, j, k) + part
    <3>1. a \in Nat /\ b \in Nat \ {0} /\ a + b <= MaxRows /\ a = Len(rows) /\ b = Len(batch)
          /\ rows \in Seq(Row) /\ batch \in Seq(Row)
      BY <1>1
    <3>2. IsMoved(new, mean, x, a, b)
      BY <1>4
    <3> HIDE DEF x, a, b, new
    <3>3. StatisticsJoin(new, mean, x, rows, batch, a, b)
      BY ONLY <1>3, <2>1, <3>1, <3>2, StatisticsOfJoin
    <3> QED
      BY ONLY <3>3 DEF StatisticsJoin
  <2> HIDE DEF x, a, b, new, r
  <2> QED
    BY <1>2, <2>2 DEF new, r
<1>6. \A j \in Features, k \in Features : Correction(batch)[j][k] = Part(j, k)
  <2>1. \A j \in Features : Delta(batch)[j] = x[j] - mean[j]
    BY DEF Delta
  <2>2. \A j \in Features, k \in Features :
           Correction(batch)[j][k] = (Delta(batch)[j] * Delta(batch)[k] * a * b) \div n
    BY <1>1 DEF Correction
  <2> HIDE DEF x, a, b, n
  <2> QED
    BY <1>5, <2>1, <2>2
<1> HIDE DEF Part
<1>7. mean' \in [Features -> Int]
  <2>1. mean' = [j \in Features |-> mean'[j]]
    BY DEF PartialFit, NewMean
  <2>2. \A j \in Features : mean'[j] \in Int
    BY <1>5 DEF IsMean
  <2> QED
    BY <2>1, <2>2
<1>8. ASSUME NEW j \in Features
      PROVE  var'[j] \in Int /\ var'[j] * n = Around(mean', rows', j, j)
  <2>1. var'[j] = (var[j] * a + Scatter(batch)[j][j] + Correction(batch)[j][j]) \div n
    BY <1>1 DEF PartialFit, NewVar
  <2>2. var[j] * a = Around(mean, rows, j, j)
    BY DEF TrainedInv
  <2>3. var'[j] = Around(mean', rows', j, j) \div n
    <3> HIDE DEF x, a, b, n
    <3> QED
      BY <1>3, <1>5, <1>6, <2>1, <2>2
  <2> DEFINE new == mean'
             r == rows'
  <2>4. r \in Seq(Row) /\ Len(r) = n /\ Len(r) \in 1..MaxRows /\ IsMean(new, r)
    BY <1>2, <1>5
  <2> HIDE DEF new, r, n
  <2>5. /\ Around(new, r, j, j) \div n \in Int
        /\ (Around(new, r, j, j) \div n) * n = Around(new, r, j, j)
    BY <2>4, AroundIsMultiple
  <2> QED
    BY <2>3, <2>5 DEF new, r
<1>9. ASSUME gram' # Unknown
      PROVE  /\ gram' \in [Features -> [Features -> Int]]
             /\ \A j \in Features, k \in Features : gram'[j][k] = Around(mean', rows', j, k)
  <2>1. gram # Unknown /\ gram' = StackedGram(batch)
    BY <1>9 DEF PartialFit
  <2>2. /\ gram \in [Features -> [Features -> Int]]
        /\ \A j \in Features, k \in Features : gram[j][k] = Around(mean, rows, j, k)
    BY <2>1 DEF TrainedInv
  <2>3. gram' = [j \in Features |-> [k \in Features |->
                    gram[j][k] + Scatter(batch)[j][k] + Correction(batch)[j][k]]]
    BY <2>1 DEF StackedGram
  <2>4. ASSUME NEW j \in Features, NEW k \in Features
        PROVE  /\ gram'[j][k] = Around(mean', rows', j, k)
               /\ gram[j][k] + Scatter(batch)[j][k] + Correction(batch)[j][k] \in Int
    <3>1. gram'[j][k] = gram[j][k] + Scatter(batch)[j][k] + Correction(batch)[j][k]
      BY <2>3
    <3>2. gram[j][k] \in Int /\ Scatter(batch)[j][k] \in Int /\ Correction(batch)[j][k] \in Int
      BY <1>3, <1>5, <1>6, <2>2
    <3> HIDE DEF x, a, b, n
    <3> QED
      BY <1>3, <1>5, <1>6, <2>2, <3>1, <3>2
  <2>5. gram' \in [Features -> [Features -> Int]]
    BY <2>3, <2>4
  <2> QED
    BY <2>4, <2>5
<1>10. requested' >= NFeatures => gram' # Unknown
  <2> SUFFICES ASSUME requested >= NFeatures PROVE gram' # Unknown
    BY DEF PartialFit
  <2>1. gram # Unknown
    BY DEF TrainedInv
  <2>2. MaxComponents(batch) = SvdSize(batch)
    <3>1. StackedRows(batch) \in Nat
      BY <1>1 DEF StackedRows
    <3>2. SvdSize(batch) \in Nat /\ SvdSize(batch) <= NFeatures
      BY <3>1, LeastOfTwo, NFeaturesAssumption DEF SvdSize
    <3> QED
      BY <3>2, NFeaturesAssumption DEF MaxComponents, Least
  <2>3. gram' = StackedGram(batch)
    <3>1. SvdSize(batch) \in Nat
      <4>1. StackedRows(batch) \in Nat
        BY <1>1 DEF StackedRows
      <4> QED
        BY <4>1, LeastOfTwo, NFeaturesAssumption DEF SvdSize
    <3>2. ~(MaxComponents(batch) < SvdSize(batch))
      BY <2>2, <3>1
    <3> QED
      BY <2>1, <3>2 DEF PartialFit
  <2> DEFINE g == StackedGram(batch)
  <2>4. g = [j \in Features |-> g[j]]
    BY DEF StackedGram
  <2> HIDE DEF g
  <2> QED
    BY <2>3, <2>4, KnownGram DEF g
<1> QED
  BY <1>2, <1>5, <1>7, <1>8, <1>9, <1>10 DEF TrainedInv

\* The rows and what is kept of them hold together in every reachable state.
THEOREM TrainingAddsUp == Spec => []TrainedInv
<1>1. TypeOK /\ TrainedInv /\ [Next]_vars => TrainedInv'
  <2> SUFFICES ASSUME TypeOK, TrainedInv, [Next]_vars
               PROVE  TrainedInv'
    OBVIOUS
  <2>1. CASE \E batch \in Batches : PartialFit(batch)
    BY <2>1, PartialFitKeepsTraining DEF TypeOK
  <2>2. CASE UNCHANGED <<requested, rows, n_samples_seen, mean, var, gram>>
    BY <2>2 DEF TrainedInv, IsMean, Around
  <2>3. CASE Next /\ ~\E batch \in Batches : PartialFit(batch)
    <3>1. UNCHANGED <<requested, rows, n_samples_seen, mean, var, gram>>
      BY <2>3 DEF Next, Store, StoreNothing, Bind, Update, trainer
    <3> QED
      BY <2>2, <3>1
  <2> QED
    BY <2>1, <2>2, <2>3 DEF vars, trainer
<1> QED
  BY <1>1, TrainedAtStart, PcaTypeCorrect, PTL DEF Spec

\* However the table is cut into batches, the mean and variance folded together
\* from theirs are those of all its rows.
THEOREM MomentsAlwaysMatchTwoPasses == Spec => []MomentsMatchTwoPasses
<1>1. TrainedInv => MomentsMatchTwoPasses
  <2> SUFFICES ASSUME TrainedInv, rows # <<>>, NEW j \in Features
               PROVE  mean[j] = Mean(rows)[j] /\ var[j] * n_samples_seen = Scatter(rows)[j][j]
    BY DEF MomentsMatchTwoPasses
  <2>1. rows \in Seq(Row) /\ Len(rows) \in 1..MaxRows /\ Len(rows) > 0 /\ n_samples_seen = Len(rows)
    BY EmptySeq DEF TrainedInv
  <2>2. IsMean(Mean(rows), rows) /\ Scatter(rows)[j][j] = Around(Mean(rows), rows, j, j)
    BY <2>1, BatchStatistics
  <2>3. mean[j] = Mean(rows)[j]
    BY <2>1, <2>2, MeanIsUnique DEF TrainedInv
  <2>4. Around(Mean(rows), rows, j, j) = Around(mean, rows, j, j)
    BY <2>3 DEF Around
  <2> QED
    BY <2>1, <2>2, <2>3, <2>4 DEF TrainedInv
<1> QED
  BY <1>1, TrainingAddsUp, PTL

\* Until a component is cut off, the stacked matrices carry the products of all
\* rows, and nothing is cut off if as many components as features are wanted.
THEOREM ScatterIsAlwaysExact == Spec => []ScatterIsExact
<1>1. TrainedInv => ScatterIsExact
  <2> SUFFICES ASSUME TrainedInv, gram # Unknown, rows # <<>>
               PROVE  /\ gram = Scatter(rows)
                      /\ [j \in Features |-> gram[j][j]] = [j \in Features |-> var[j] * n_samples_seen]
    BY DEF ScatterIsExact, TrainedInv
  <2>1. rows \in Seq(Row) /\ Len(rows) \in 1..MaxRows /\ Len(rows) > 0 /\ n_samples_seen = Len(rows)
    BY EmptySeq DEF TrainedInv
  <2>2. /\ gram \in [Features -> [Features -> Int]]
        /\ \A j \in Features, k \in Features : gram[j][k] = Around(mean, rows, j, k)
    BY DEF TrainedInv
  <2>3. ASSUME NEW j \in Features, NEW k \in Features
        PROVE  gram[j][k] = Scatter(rows)[j][k]
    <3>1. IsMean(Mean(rows), rows) /\ Scatter(rows)[j][k] = Around(Mean(rows), rows, j, k)
      BY <2>1, BatchStatistics
    <3>2. mean[j] = Mean(rows)[j] /\ mean[k] = Mean(rows)[k]
      BY <2>1, <3>1, MeanIsUnique DEF TrainedInv
    <3> QED
      BY <2>2, <3>1, <3>2 DEF Around
  <2>4. gram = Scatter(rows)
    <3> DEFINE g == Scatter(rows)
    <3>1. g = [j \in Features |-> g[j]] /\ \A j \in Features : g[j] = [k \in Features |-> g[j][k]]
      BY DEF Scatter
    <3>2. gram = [j \in Features |-> gram[j]]
          /\ \A j \in Features : gram[j] = [k \in Features |-> gram[j][k]]
      BY <2>2
    <3> HIDE DEF g
    <3>3. \A j \in Features, k \in Features : gram[j][k] = g[j][k]
      BY <2>3 DEF g
    <3>4. \A j \in Features : gram[j] = g[j]
      BY <3>1, <3>2, <3>3
    <3>5. gram = g
      BY <3>1, <3>2, <3>4
    <3> QED
      BY <3>5 DEF g
  <2>5. \A j \in Features : gram[j][j] = var[j] * n_samples_seen
    BY <2>1, <2>2 DEF TrainedInv
  <2> QED
    BY <2>4, <2>5
<1> QED
  BY <1>1, TrainingAddsUp, PTL

-----------------------------------------------------------------------------
\* What RunningMoments holds after the rows s.
Measures(acc, s) ==
    /\ acc.n = Len(s)
    /\ acc.mean \in [Features -> Int] /\ IsMean(acc.mean, s)
    /\ acc.m2 \in [Features -> Int]
    /\ \A j \in Features : acc.m2[j] = Around(acc.mean, s, j, j)

\* A row on its own is its own mean.
LEMMA OneRow ==
    ASSUME NEW row \in Row, NEW s \in Seq(Row), s = <<row>>,
           NEW x, x = [j \in Features |-> Unit * row[j]]
    PROVE  /\ Len(s) = 1 /\ IsMean(x, s)
           /\ \A j \in Features : x[j] \in Int /\ Around(x, s, j, j) = 0
<1>1. Len(s) = 1 /\ s[1] = row
  OBVIOUS
<1>2. ASSUME NEW g \in [1..1 -> Int] PROVE Sum(g) = g[1]
  <2>1. 1 \in Nat
    OBVIOUS
  <2>2. PICK P : IsPrefixSum(P, g, 1) /\ P[1] = Sum(g)
    BY <2>1, SumIsLastPrefix
  <2>3. P[1] = P[1 - 1] + g[1] /\ P[0] = 0
    <3>1. 1 \in 1..1
      OBVIOUS
    <3> QED
      BY <2>2, <3>1 DEF IsPrefixSum
  <2>4. g[1] \in Int /\ 1 - 1 = 0
    OBVIOUS
  <2> QED
    BY <2>2, <2>3, <2>4
<1>3. ASSUME NEW j \in Features
      PROVE  /\ x[j] \in Int /\ Len(s) * x[j] = Unit * Sum(Column(s, j))
             /\ Around(x, s, j, j) = 0
  <2> DEFINE v == row[j]
  <2>1. v \in Int /\ Unit \in Nat /\ x[j] = Unit * v
    <3>1. row \in [Features -> Values]
      BY DEF Row
    <3> QED
      BY <3>1, ValuesAssumption, UnitAssumption
  <2>2. Column(s, j) \in [1..1 -> Int] /\ Products(s, j, j) \in [1..1 -> Int]
    <3>1. Column(s, j) \in [1..Len(s) -> Int] /\ Products(s, j, j) \in [1..Len(s) -> Int]
      BY ColumnsType
    <3> QED
      BY <1>1, <3>1
  <2>3. Column(s, j)[1] = v /\ Products(s, j, j)[1] = v * v
    <3>1. 1 \in 1..Len(s)
      BY <1>1
    <3> QED
      BY <1>1, <3>1 DEF Column, Products
  <2>4. Sum(Column(s, j)) = v /\ Sum(Products(s, j, j)) = v * v
    BY <1>2, <2>2, <2>3
  <2>5. Around(x, s, j, j) = Unit * Unit * (v * v) - 1 * ((Unit * v) * (Unit * v))
    BY <1>1, <2>1, <2>4 DEF Around
  <2> HIDE DEF v
  <2>6. Unit * Unit * (v * v) - 1 * ((Unit * v) * (Unit * v)) = 0
    BY <2>1
  <2> QED
    BY <1>1, <2>1, <2>4, <2>5, <2>6
<1> QED
  BY <1>1, <1>3 DEF IsMean

\* Welford's step measures one row more.
LEMMA WelfordMeasures ==
    ASSUME NEW s \in Seq(Row), NEW row \in Row, Len(s) + 1 <= MaxRows, NEW acc, Measures(acc, s),
           NEW r, r = s \o <<row>>
    PROVE  Measures(Welford(acc, row), r)
<1> DEFINE a == Len(s)
           n == a + 1
           t == <<row>>
           m == acc.mean
           x == [j \in Features |-> Unit * row[j]]
           new == Welford(acc, row).mean
<1>1. /\ a \in Nat /\ n \in Nat \ {0} /\ t \in Seq(Row) /\ r \in Seq(Row) /\ Len(r) = n /\ acc.n = a
      /\ m \in [Features -> Int] /\ IsMean(m, s) /\ acc.m2 \in [Features -> Int]
      /\ \A j \in Features : acc.m2[j] = Around(m, s, j, j)
  BY DEF Measures
<1>2. /\ Len(t) = 1 /\ IsMean(x, t)
      /\ \A j \in Features : x[j] \in Int /\ Around(x, t, j, j) = 0
  <2> HIDE DEF x
  <2>1. x = [j \in Features |-> Unit * row[j]]
    BY DEF x
  <2> QED
    BY <1>1, <2>1, OneRow
<1>3. /\ Welford(acc, row).n = n
      /\ new = [j \in Features |-> m[j] + (x[j] - m[j]) \div n]
      /\ Welford(acc, row).m2 = [j \in Features |-> acc.m2[j] + (x[j] - m[j]) * (x[j] - new[j])]
  BY <1>1 DEF Welford
<1>4. IsMoved(new, m, x, a, 1)
  <2>1. \A j \in Features : (x[j] - m[j]) * 1 = x[j] - m[j]
    <3> HIDE DEF x, m
    <3> QED
      BY <1>1, <1>2
  <2> HIDE DEF x, m, new
  <2> QED
    BY <1>3, <2>1 DEF IsMoved
<1>5. /\ IsMean(new, r)
      /\ \A j \in Features :
            LET part == (x[j] - m[j]) * (new[j] - m[j]) * a
            IN  /\ part \in Int
                /\ Around(new, r, j, j) = Around(m, s, j, j) + Around(x, t, j, j) + part
  <2>1. a \in Nat /\ 1 \in Nat \ {0} /\ a = Len(s) /\ 1 = Len(t) /\ a + 1 <= MaxRows /\ s \in Seq(Row)
        /\ t \in Seq(Row)
    BY <1>1, <1>2
  <2>2. IsMean(m, s) /\ IsMean(x, t) /\ IsMoved(new, m, x, a, 1)
    BY <1>1, <1>2, <1>4
  <2> HIDE DEF x, m, new, a, t
  <2>3. StatisticsJoin(new, m, x, s, t, a, 1)
    BY ONLY <2>1, <2>2, StatisticsOfJoin
  <2>4. r = s \o t
    BY DEF t
  <2> QED
    BY ONLY <2>3, <2>4 DEF StatisticsJoin
<1>6. ASSUME NEW j \in Features
      PROVE  /\ new[j] \in Int
             /\ acc.m2[j] + (x[j] - m[j]) * (x[j] - new[j]) = Around(new, r, j, j)
             /\ Around(new, r, j, j) \in Int
  <2> DEFINE S == Sum(Column(s, j))
             T == Sum(Column(t, j))
             mj == m[j]
             xj == x[j]
             nj == new[j]
             part == (xj - mj) * (nj - mj) * a
  <2>1. S \in Int /\ T \in Int /\ Sum(Column(r, j)) = S + T
    <3> HIDE DEF t
    <3>1. Sum(Column(s \o t, j)) = S + T
      BY <1>1, SumsOfJoin
    <3>2. r = s \o t
      BY DEF t
    <3> QED
      BY <1>1, <3>1, <3>2, ColumnsType
  <2>2. mj \in Int /\ xj \in Int /\ nj \in Int /\ a * mj = Unit * S /\ xj = Unit * T
        /\ n * nj = Unit * (S + T)
    <3>1. mj \in Int /\ a * mj = Unit * S
      BY <1>1 DEF IsMean
    <3>2. xj \in Int /\ Len(t) * xj = Unit * T
      BY <1>2 DEF IsMean
    <3>3. nj \in Int /\ n * nj = Unit * (S + T)
      BY <1>1, <1>5, <2>1 DEF IsMean
    <3> HIDE DEF mj, xj, nj, S, T, t, a, n
    <3> QED
      BY <1>2, <3>1, <3>2, <3>3
  <2>3. Around(new, r, j, j) = Around(m, s, j, j) + Around(x, t, j, j) + part /\ part \in Int
    BY <1>5
  <2>4. Around(m, s, j, j) = acc.m2[j] /\ acc.m2[j] \in Int /\ Around(x, t, j, j) = 0
    BY <1>1, <1>2
  <2>5. n = a + 1 /\ Unit \in Nat
    BY UnitAssumption
  <2> HIDE DEF S, T, mj, xj, nj, n
  <2>6. part = (xj - mj) * (xj - nj)
    <3>1. Unit * (S + T) = Unit * S + Unit * T
      BY <2>1, <2>5
    <3>2. (a + 1) * nj = a * mj + xj
      BY <2>2, <2>5, <3>1
    <3>3. (nj - mj) * a = xj - nj
      <4>1. a \in Nat /\ nj \in Int /\ mj \in Int /\ xj \in Int
        BY <1>1, <2>2
      <4>2. (a + 1) * nj = a * nj + nj
        BY ONLY <4>1
      <4>3. (nj - mj) * a = a * nj - a * mj
        BY ONLY <4>1
      <4> DEFINE A == a * nj
                 B == a * mj
      <4>4. A \in Int /\ B \in Int
        BY ONLY <4>1
      <4>5. A + nj = B + xj
        BY ONLY <3>2, <4>2
      <4>6. (nj - mj) * a = A - B
        BY ONLY <4>3
      <4> DEFINE C == (nj - mj) * a
      <4>7. C = A - B
        BY ONLY <4>6
      <4> HIDE DEF A, B, C
      <4>8. C = xj - nj
        BY ONLY <4>1, <4>4, <4>5, <4>7
      <4> QED
        BY <4>8 DEF C
    <3>4. part = (xj - mj) * ((nj - mj) * a)
      BY <1>1, <2>2
    <3> QED
      BY <3>3, <3>4
  <2> HIDE DEF part
  <2>7. Around(new, r, j, j) = acc.m2[j] + part /\ Around(new, r, j, j) \in Int
    BY <2>3, <2>4
  <2> QED
    BY <2>2, <2>6, <2>7 DEF mj, xj, nj
<1> HIDE DEF x, m, a, n, t
<1>7. new \in [Features -> Int]
  <2> HIDE DEF new
  <2> QED
    BY <1>3, <1>6
<1>8. Welford(acc, row).m2 \in [Features -> Int]
      /\ \A j \in Features : Welford(acc, row).m2[j] = Around(new, r, j, j)
  <2> DEFINE w == Welford(acc, row).m2
  <2>1. w = [j \in Features |-> acc.m2[j] + (x[j] - m[j]) * (x[j] - new[j])]
    BY <1>3
  <2> HIDE DEF w, new
  <2> QED
    BY <1>6, <2>1 DEF w
<1> QED
  BY <1>1, <1>3, <1>5, <1>7, <1>8 DEF Measures

\* r[k] is the accumulator after the first k of the n rows of s.
Runs(r, base, s, n) ==
    /\ r[0] = base
    /\ \A k \in 1..n : r[k] = Welford(r[k - 1], s[k])

\* it is the fold of Welford over sets of places, as FoldLeft builds it.
IsWelfordFold(it, base, s, D) ==
    it = [S \in SUBSET D |->
             IF S = {} THEN base ELSE Welford(it[S \ {Max(S)}], s[Max(S)])]

\* There is such a fold.
LEMMA WelfordFoldExists ==
    ASSUME NEW n \in Nat, NEW base, NEW s
    PROVE  \E it : IsWelfordFold(it, base, s, 1..n)
<1> DEFINE Can(k) == \E it : IsWelfordFold(it, base, s, 1..k)
           Bad == {k \in Nat : ~Can(k)}
<1>1. SUFFICES ASSUME Bad # {} PROVE FALSE
  OBVIOUS
<1>2. PICK k \in Bad : \A j \in Bad : k <= j
  <2>1. Bad \subseteq Nat
    OBVIOUS
  <2> HIDE DEF Bad
  <2> QED
    BY <1>1, <2>1, LeastOfNat
<1>3. k # 0
  <2> DEFINE it == [S \in SUBSET (1..0) |-> base]
  <2>1. \A S \in SUBSET (1..0) : S = {}
    OBVIOUS
  <2>2. it = [S \in SUBSET (1..0) |->
                IF S = {} THEN base ELSE Welford(it[S \ {Max(S)}], s[Max(S)])]
    BY <2>1
  <2> HIDE DEF it
  <2>3. Can(0)
    BY <2>2 DEF IsWelfordFold
  <2> HIDE DEF Can
  <2> QED
    BY <2>3
<1>4. k \in Nat \ {0} /\ k - 1 \in Nat /\ ~(k <= k - 1)
  BY <1>3
<1>5. PICK w : IsWelfordFold(w, base, s, 1..(k - 1))
  <2> HIDE DEF Can
  <2>1. Can(k - 1)
    BY <1>2, <1>4
  <2> QED
    BY <2>1 DEF Can
<1> DEFINE it == [S \in SUBSET (1..k) |->
                     IF k \in S THEN Welford(w[S \ {k}], s[k]) ELSE w[S]]
<1>6. \A S \in SUBSET (1..k) : k \notin S => S \in SUBSET (1..(k - 1))
  BY <1>4
<1>7. ASSUME NEW S \in SUBSET (1..k)
      PROVE  it[S] = IF S = {} THEN base ELSE Welford(it[S \ {Max(S)}], s[Max(S)])
  <2>1. CASE k \in S
    <3>1. Max(S) = k
      BY <1>4, <2>1, MaxIs
    <3>2. it[S] = Welford(w[S \ {k}], s[k]) /\ it[S \ {k}] = w[S \ {k}]
      BY <2>1
    <3> HIDE DEF it
    <3> QED
      BY <2>1, <3>1, <3>2
  <2>2. CASE k \notin S
    <3>1. it[S] = w[S] /\ it[S \ {Max(S)}] = w[S \ {Max(S)}] /\ S \in SUBSET (1..(k - 1))
      BY <1>6, <2>2
    <3>2. w[S] = IF S = {} THEN base ELSE Welford(w[S \ {Max(S)}], s[Max(S)])
      BY <1>5, <3>1 DEF IsWelfordFold
    <3> HIDE DEF it
    <3> QED
      BY <3>1, <3>2
  <2> QED
    BY <2>1, <2>2
<1>8. Can(k)
  <2>1. it = [S \in SUBSET (1..k) |-> it[S]]
    OBVIOUS
  <2> HIDE DEF it
  <2>2. IsWelfordFold(it, base, s, 1..k)
    BY <1>7, <2>1 DEF IsWelfordFold
  <2> QED
    BY <2>2
<1> HIDE DEF Can
<1> QED
  BY <1>8

\* FoldLeft takes one row after the other.
LEMMA WelfordRuns ==
    ASSUME NEW base, NEW F, NEW s \in Seq(F), NEW n \in Nat, n = Len(s)
    PROVE  \E r : Runs(r, base, s, n) /\ r[n] = FoldLeft(Welford, base, s)
<1> DEFINE D == DOMAIN s
           it == CHOOSE t : t = [S \in SUBSET D |->
                    IF S = {} THEN base ELSE Welford(t[S \ {Max(S)}], s[Max(S)])]
           r == [k \in 0..n |-> it[1..k]]
<1>1. FoldLeft(Welford, base, s) = it[D]
  BY DEF FoldLeft, MapThenFoldSet
<1>2. D = 1..n
  OBVIOUS
<1>3. it = CHOOSE t : IsWelfordFold(t, base, s, D)
  BY DEF IsWelfordFold
<1> HIDE DEF it, D
<1>4. IsWelfordFold(it, base, s, D)
  <2>1. \E t : IsWelfordFold(t, base, s, D)
    BY <1>2, WelfordFoldExists
  <2> QED
    BY <1>3, <2>1
<1>5. r[0] = base
  <2>1. 1..0 = {} /\ {} \in SUBSET D /\ 0 \in 0..n
    OBVIOUS
  <2>2. it[{}] = base
    BY <1>4 DEF IsWelfordFold
  <2> QED
    BY <2>1, <2>2
<1>6. ASSUME NEW k \in 1..n PROVE r[k] = Welford(r[k - 1], s[k])
  <2> DEFINE S == 1..k
             T == 1..(k - 1)
  <2>1. /\ S \in SUBSET D /\ S # {} /\ k \in Nat \ {0} /\ k \in S /\ S \in SUBSET (1..k)
        /\ S \ {k} = T
    <3>1. k \in Nat \ {0} /\ k <= n /\ n \in Nat
      OBVIOUS
    <3>2. 1..k \subseteq 1..n /\ k \in 1..k /\ (1..k) \ {k} = 1..(k - 1)
      BY ONLY <3>1
    <3> QED
      BY ONLY <1>2, <3>1, <3>2
  <2>2. Max(S) = k
    <3> HIDE DEF S
    <3> QED
      BY <2>1, MaxIs
  <2>3. r[k] = it[S] /\ r[k - 1] = it[T]
    OBVIOUS
  <2> HIDE DEF S, T, r
  <2>4. it[S] = Welford(it[S \ {Max(S)}], s[Max(S)])
    BY <1>4, <2>1 DEF IsWelfordFold
  <2> QED
    BY <2>1, <2>2, <2>3, <2>4
<1>7. r[n] = it[D]
  BY <1>2
<1> HIDE DEF r
<1> QED
  BY <1>1, <1>5, <1>6, <1>7 DEF Runs

\* A chunk taken row by row measures as many rows more.
LEMMA ChunkMeasures ==
    ASSUME NEW s \in Seq(Row), Len(s) <= MaxRows, NEW n \in Nat, NEW size \in Nat, n + size <= Len(s),
           NEW acc, Measures(acc, SubSeq(s, 1, n))
    PROVE  Measures(FoldLeft(Welford, acc, SubSeq(s, n + 1, n + size)), SubSeq(s, 1, n + size))
<1> DEFINE c == SubSeq(s, n + 1, n + size)
<1>1. c \in Seq(Row) /\ Len(c) = size /\ \A i \in 1..size : c[i] = s[n + i]
  <2>1. \A i \in (n + 1)..(n + size) : s[i] \in Row
    OBVIOUS
  <2>2. n + 1 \in Int /\ n + size \in Int
    OBVIOUS
  <2>3. /\ c \in Seq(Row)
        /\ Len(c) = IF n + 1 <= n + size THEN (n + size) - (n + 1) + 1 ELSE 0
        /\ \A i \in 1..((n + size) - (n + 1) + 1) : c[i] = s[(n + 1) + i - 1]
    BY ONLY <2>1, <2>2, SubSeqProperties
  <2>4. \A i \in 1..size : i \in 1..((n + size) - (n + 1) + 1) /\ (n + 1) + i - 1 = n + i
    OBVIOUS
  <2>5. (IF n + 1 <= n + size THEN (n + size) - (n + 1) + 1 ELSE 0) = size
    OBVIOUS
  <2> HIDE DEF c
  <2> QED
    BY <2>3, <2>4, <2>5
<1> HIDE DEF c
<1>2. PICK r : Runs(r, acc, c, size) /\ r[size] = FoldLeft(Welford, acc, c)
  BY <1>1, WelfordRuns
<1> DEFINE Good(k) == Measures(r[k], SubSeq(s, 1, n + k))
           Bad == {k \in 0..size : ~Good(k)}
<1>3. Bad = {}
  <2> SUFFICES ASSUME Bad # {} PROVE FALSE
    OBVIOUS
  <2>1. PICK k \in Bad : \A j \in Bad : k <= j
    <3>1. Bad \subseteq Nat
      OBVIOUS
    <3> HIDE DEF Bad
    <3> QED
      BY <3>1, LeastOfNat
  <2>2. k # 0
    <3>1. Good(0)
      BY <1>2 DEF Runs
    <3> HIDE DEF Good
    <3> QED
      BY <2>1, <3>1
  <2>3. k \in 1..size /\ k - 1 \in 0..size /\ ~(k <= k - 1)
    BY <2>2
  <2>4. Good(k - 1)
    <3> HIDE DEF Good
    <3> QED
      BY <2>1, <2>3
  <2> DEFINE i == n + k
             p == SubSeq(s, 1, i - 1)
             q == SubSeq(s, 1, i)
             row == s[i]
             before == r[k - 1]
  <2>5. i \in 1..Len(s) /\ 1 \in 1..Len(s) /\ i - 1 = n + (k - 1) /\ row \in Row /\ c[k] = row
    BY <1>1, <2>3
  <2>6. q = p \o <<row>>
    <3>1. i \in 1..Len(s)
      BY <2>5
    <3> HIDE DEF i
    <3> QED
      BY <2>5, <3>1, SubSeqRecursiveSecond
  <2>7. p \in Seq(Row) /\ Len(p) + 1 <= MaxRows
    <3>1. \A h \in 1..(i - 1) : s[h] \in Row
      BY <2>5
    <3>2. 1 \in Int /\ i - 1 \in Int
      BY <2>5
    <3>3. p \in Seq(Row) /\ Len(p) = IF 1 <= i - 1 THEN (i - 1) - 1 + 1 ELSE 0
      BY ONLY <3>1, <3>2, SubSeqProperties
    <3>4. i \in Nat /\ i >= 1 /\ i <= Len(s) /\ Len(s) \in Nat /\ Len(s) <= MaxRows /\ MaxRows \in Nat
      BY <2>5, MaxRowsAssumption
    <3> HIDE DEF p, i
    <3>5. Len(p) = i - 1
      BY ONLY <3>3, <3>4
    <3> QED
      BY ONLY <3>3, <3>4, <3>5
  <2>8. Measures(before, p)
    BY <2>4, <2>5
  <2>9. r[k] = Welford(before, row)
    BY <1>2, <2>3, <2>5 DEF Runs
  <2>10. Measures(Welford(before, row), q)
    <3>1. row \in Row
      BY <2>5
    <3> HIDE DEF p, q, row, before
    <3> QED
      BY <2>6, <2>7, <2>8, <3>1, WelfordMeasures
  <2>11. Good(k)
    BY <2>9, <2>10
  <2> HIDE DEF Good
  <2> QED
    BY <2>1, <2>11
<1>4. Good(size)
  <2>1. size \in 0..size
    OBVIOUS
  <2> HIDE DEF Good
  <2> QED
    BY <1>3, <2>1
<1> QED
  BY <1>2, <1>4 DEF c

\* RunningMoments measures the rows it was given, and is given some only once a
\* model of some rows is bound.
MeasuredInv ==
    /\ moments.n \in 0..Len(rows) /\ Measures(moments, SubSeq(rows, 1, moments.n))
    /\ phase # "bound" => moments.n = 0
    /\ phase \in {"stored", "bound"} => rows # <<>>

\* Moments of no rows are those of any prefix of no rows.
LEMMA NothingMeasured ==
    ASSUME moments.n = 0
    PROVE  SubSeq(rows, 1, moments.n) = <<>> /\ SubSeq(rows', 1, moments.n) = <<>>
BY SubSeqEmpty

\* At the start nothing has been measured.
LEMMA MeasuredAtStart == Init => MeasuredInv
<1> SUFFICES ASSUME Init PROVE MeasuredInv
  OBVIOUS
<1> DEFINE s == SubSeq(rows, 1, moments.n)
<1>1. /\ moments.n = 0 /\ moments.mean = [j \in Features |-> 0] /\ moments.m2 = [j \in Features |-> 0]
      /\ phase = "fitting" /\ rows = <<>>
  BY DEF Init
<1>2. s = <<>> /\ s \in Seq(Row) /\ Len(s) = 0 /\ Unit \in Nat /\ Len(rows) = 0
  BY <1>1, NothingMeasured, UnitAssumption
<1> HIDE DEF s
<1>3. \A j \in Features :
         /\ Sum(Column(s, j)) = 0 /\ Sum(Products(s, j, j)) = 0
         /\ moments.mean[j] = 0 /\ moments.m2[j] = 0
  BY <1>1, <1>2, SumsOfNone
<1>4. \A j \in Features : Around(moments.mean, s, j, j) = 0
  BY <1>2, <1>3 DEF Around
<1>5. IsMean(moments.mean, s)
  BY <1>2, <1>3 DEF IsMean
<1>6. moments.mean \in [Features -> Int] /\ moments.m2 \in [Features -> Int]
  BY <1>1
<1>7. Measures(moments, s)
  BY <1>1, <1>2, <1>3, <1>4, <1>5, <1>6 DEF Measures
<1> QED
  BY <1>1, <1>2, <1>7 DEF MeasuredInv, s

\* MlEvaluateFunction takes the next rows of the table.
LEMMA UpdateMeasures ==
    ASSUME TrainedInv, MeasuredInv, NEW size \in 1..MaxRows, Update(size)
    PROVE  MeasuredInv'
<1> DEFINE n == moments.n
<1>1. /\ rows \in Seq(Row) /\ Len(rows) <= MaxRows /\ n \in Nat /\ size \in Nat
      /\ n + size <= Len(rows) /\ Measures(moments, SubSeq(rows, 1, n)) /\ rows # <<>>
  BY MaxRowsAssumption DEF TrainedInv, MeasuredInv, Update
<1>2. /\ moments' = FoldLeft(Welford, moments, SubSeq(rows, n + 1, n + size))
      /\ rows' = rows /\ phase' = phase /\ phase = "bound"
  BY DEF Update
<1> HIDE DEF n
<1>3. Measures(moments', SubSeq(rows, 1, n + size))
  BY <1>1, <1>2, ChunkMeasures
<1>4. moments'.n = n + size
  <2>1. moments'.n = Len(SubSeq(rows, 1, n + size))
    BY <1>3 DEF Measures
  <2> QED
    BY <1>1, <2>1
<1> QED
  BY <1>1, <1>2, <1>3, <1>4 DEF MeasuredInv

\* Whatever chunks the table is evaluated in, RunningMoments measures the rows
\* it was given.
THEOREM MomentsAlwaysMeasureRows == Spec => []MeasuredInv
<1>1. TypeOK /\ TrainedInv /\ MeasuredInv /\ [Next]_vars => MeasuredInv'
  <2> SUFFICES ASSUME TypeOK, TrainedInv, MeasuredInv, [Next]_vars
               PROVE  MeasuredInv'
    OBVIOUS
  <2>1. ASSUME NEW batch \in Batches, PartialFit(batch)
        PROVE  MeasuredInv'
    <3>1. phase = "fitting" /\ phase' = "fitting" /\ moments' = moments /\ moments.n = 0
      BY <2>1 DEF PartialFit, MeasuredInv
    <3>2. SubSeq(rows', 1, moments'.n) = SubSeq(rows, 1, moments.n)
      BY <3>1, NothingMeasured
    <3>3. Measures(moments', SubSeq(rows', 1, moments'.n))
      BY <3>1, <3>2 DEF MeasuredInv
    <3>4. Len(rows') \in Nat
      BY <2>1, PartialFitCounts DEF TypeOK
    <3> QED
      BY <3>1, <3>3, <3>4 DEF MeasuredInv
  <2>2. CASE Store
    <3>1. rows # <<>>
      <4>1. Len(rows) > 0
        BY <2>2 DEF Store, TypeOK
      <4> QED
        BY <4>1
    <3> QED
      BY <2>2, <3>1 DEF Store, MeasuredInv, Measures, IsMean, Around
  <2>3. CASE StoreNothing
    BY <2>3 DEF StoreNothing, MeasuredInv, Measures, IsMean, Around
  <2>4. CASE Bind
    BY <2>4 DEF Bind, MeasuredInv, Measures, IsMean, Around
  <2>5. ASSUME NEW size \in 1..MaxRows, Update(size)
        PROVE  MeasuredInv'
    BY <2>5, UpdateMeasures
  <2>6. CASE UNCHANGED vars
    BY <2>6 DEF vars, MeasuredInv, Measures, IsMean, Around
  <2> QED
    BY <2>1, <2>2, <2>3, <2>4, <2>5, <2>6 DEF Next
<1> QED
  BY <1>1, MeasuredAtStart, TrainingAddsUp, PcaTypeCorrect, PTL DEF Spec

\* ml_evaluate of a model over its own training table measures, row by row and
\* in any chunks, the mean and the variance the training saw.
THEOREM EvaluationAlwaysAgrees == Spec => []EvaluationAgrees
<1>1. TrainedInv /\ MeasuredInv => EvaluationAgrees
  <2> SUFFICES ASSUME TrainedInv, MeasuredInv, phase = "bound", moments.n = n_samples_seen
               PROVE  /\ moments.mean = mean
                      /\ moments.m2 = [j \in Features |-> var[j] * n_samples_seen]
    BY DEF EvaluationAgrees, TotalDeviation
  <2>1. rows \in Seq(Row) /\ Len(rows) > 0 /\ n_samples_seen = Len(rows) /\ rows # <<>>
    BY EmptySeq DEF TrainedInv, MeasuredInv
  <2>2. Measures(moments, rows)
    <3>1. SubSeq(rows, 1, moments.n) = rows
      BY <2>1, SubSeqFull
    <3> QED
      BY <3>1 DEF MeasuredInv
  <2>3. moments.mean \in [Features -> Int] /\ mean \in [Features -> Int]
        /\ IsMean(moments.mean, rows) /\ IsMean(mean, rows) /\ moments.m2 \in [Features -> Int]
    BY <2>2 DEF Measures, TrainedInv
  <2>4. \A j \in Features : moments.mean[j] = mean[j]
    BY <2>1, <2>3, MeanIsUnique
  <2>5. moments.mean = mean
    BY <2>3, <2>4
  <2>6. ASSUME NEW j \in Features
        PROVE  moments.m2[j] = var[j] * n_samples_seen
    BY <2>1, <2>2, <2>5 DEF Measures, TrainedInv
  <2>7. moments.m2 = [j \in Features |-> var[j] * n_samples_seen]
    BY <2>3, <2>6
  <2> QED
    BY <2>5, <2>7
<1> QED
  BY <1>1, TrainingAddsUp, MomentsAlwaysMeasureRows, PTL

-----------------------------------------------------------------------------
\* What is stored.

\* The items of a blob: numbers, and values that go by their names.
NamesOfItems == {"feature", "singular_value", "explained_variance", "ratio", "component"}
Items == Int \union (NamesOfItems \X Nat)

\* A numbered list is one of items.
LEMMA NumberedItems ==
    ASSUME NEW name \in NamesOfItems, NEW count \in Nat
    PROVE  Numbered(name, count) \in Seq(Items) /\ Len(Numbered(name, count)) = count
<1> DEFINE list == [i \in 1..count |-> <<name, i>>]
<1>1. \A i \in 1..count : i \in Nat
  OBVIOUS
<1>2. \A i \in 1..count : <<name, i>> \in Items
  BY <1>1 DEF Items
<1>3. list \in [1..count -> Items]
  BY <1>2
<1> HIDE DEF list
<1>4. list \in Seq(Items) /\ Len(list) = count
  BY <1>3
<1> QED
  BY <1>4 DEF Numbered, list

\* ToModel gives every field the shape its format has.
LEMMA ToModelIsPcaModel ==
    ASSUME components \in Nat, mean \in [Features -> Int], var \in [Features -> Int]
    PROVE  IsPcaModel(ToModel, Items)
<1> DEFINE T == ToModel
           size == components * NFeatures
<1>1. DOMAIN T = PcaFields /\ T["model_type"] = "pca"
  BY DEF ToModel, PcaFields
<1>2. /\ T["feature_names"] = Numbered("feature", NFeatures)
      /\ T["mean"] = mean /\ T["var"] = var
      /\ T["singular_values"] = Numbered("singular_value", components)
      /\ T["explained_variance"] = Numbered("explained_variance", components)
      /\ T["explained_variance_ratio"] = Numbered("ratio", components)
      /\ T["components"] = [rows |-> components, cols |-> NFeatures,
                            entries |-> Numbered("component", size)]
  BY DEF ToModel
<1>3. NFeatures \in Nat /\ size \in Nat
  BY NFeaturesAssumption
<1>4. mean \in Seq(Items) /\ var \in Seq(Items)
  <2>1. Int \subseteq Items
    BY DEF Items
  <2>2. mean \in [1..NFeatures -> Items] /\ var \in [1..NFeatures -> Items]
    BY <2>1 DEF Features
  <2> QED
    BY <1>3, <2>2
<1> HIDE DEF T
<1>5. \A field \in PcaFields :
         Shape(field) = CASE field = "components" -> "matrix"
                          [] field \in {"feature_names", "mean", "var", "singular_values",
                                       "explained_variance", "explained_variance_ratio"} -> "list"
                          [] OTHER -> "pod"
  BY DEF Shape
<1>6. ASSUME NEW field \in PcaFields, Shape(field) = "list"
      PROVE  T[field] \in Seq(Items)
  <2>1. field \in {"feature_names", "mean", "var", "singular_values",
                  "explained_variance", "explained_variance_ratio"}
    BY <1>6 DEF Shape
  <2>2. \A name \in NamesOfItems, count \in Nat : Numbered(name, count) \in Seq(Items)
    BY NumberedItems
  <2>3. components \in Nat
    OBVIOUS
  <2>4. /\ Numbered("feature", NFeatures) \in Seq(Items)
        /\ Numbered("singular_value", components) \in Seq(Items)
        /\ Numbered("explained_variance", components) \in Seq(Items)
        /\ Numbered("ratio", components) \in Seq(Items)
    <3>1. {"feature", "singular_value", "explained_variance", "ratio"} \subseteq NamesOfItems
      BY DEF NamesOfItems
    <3> QED
      BY ONLY <1>3, <2>2, <2>3, <3>1, Zenon
  <2> QED
    BY <1>2, <1>4, <2>1, <2>4
<1>7. ASSUME NEW field \in PcaFields, Shape(field) = "matrix"
      PROVE  /\ T[field] = [rows |-> T[field].rows, cols |-> T[field].cols,
                            entries |-> T[field].entries]
             /\ T[field].rows \in Nat /\ T[field].cols \in Nat
             /\ T[field].entries \in Seq(Items)
             /\ Len(T[field].entries) = T[field].rows * T[field].cols
  <2>1. field = "components"
    BY <1>7 DEF Shape
  <2>2. /\ Numbered("component", size) \in Seq(Items)
        /\ Len(Numbered("component", size)) = size
    <3> HIDE DEF size
    <3>1. "component" \in NamesOfItems /\ size \in Nat
      BY <1>3 DEF NamesOfItems
    <3> QED
      BY ONLY <3>1, NumberedItems, Zenon
  <2>3. /\ T[field] = [rows |-> components, cols |-> NFeatures,
                       entries |-> Numbered("component", size)]
        /\ T[field].rows = components /\ T[field].cols = NFeatures
        /\ T[field].entries = Numbered("component", size)
    BY <1>2, <2>1
  <2> QED
    BY <1>3, <2>2, <2>3
<1>8. \A field \in PcaFields : WellShaped(field, T[field], Items)
  <2> QED
    BY <1>6, <1>7, Zenon DEF WellShaped
<1> QED
  BY <1>1, <1>8 DEF T, IsPcaModel

\* A stored blob is the trained model's, in the format of this release or of an
\* older one; only a model that has seen no row fails.
StoredInv ==
    /\ var = [j \in Features |-> var[j]]
    /\ phase = "stored" =>
          stored \in {SerializePcaModel(ToModel), OldPcaBlob(ToModel)}
    /\ phase = "failed" => n_samples_seen = 0

\* What was stored is read back.
LEMMA StoredIsRead ==
    ASSUME TypeOK, TrainedInv, StoredInv, phase = "stored"
    PROVE  ReadsBack(stored, ToModel) /\ RefusesDamage(stored)
<1>1. IsPcaModel(ToModel, Items)
  <2>1. var \in [Features -> Int]
    BY DEF StoredInv, TrainedInv
  <2> QED
    BY <2>1, ToModelIsPcaModel DEF TypeOK, TrainedInv
<1>2. stored \in {SerializePcaModel(ToModel), OldPcaBlob(ToModel)}
  BY DEF StoredInv
<1> QED
  BY ONLY <1>1, <1>2, PcaIsRead

\* The model stays as it was trained once it is stored.
LEMMA StoredStep ==
    ASSUME TypeOK, TrainedInv, StoredInv, [Next]_vars
    PROVE  StoredInv'
<1>1. ASSUME NEW batch \in Batches, PartialFit(batch) PROVE StoredInv'
  <2>1. var' = [j \in Features |-> var'[j]]
    BY <1>1 DEF PartialFit, NewVar
  <2> QED
    BY <1>1, <2>1 DEF PartialFit, StoredInv
<1>2. CASE Store
  <2>1. ToModel' = ToModel
    BY <1>2 DEF Store, trainer, ToModel
  <2>2. /\ SerializePcaModel(ToModel)' = SerializePcaModel(ToModel)
        /\ OldPcaBlob(ToModel)' = OldPcaBlob(ToModel)
    BY <2>1 DEF SerializePcaModel, OldPcaBlob
  <2> QED
    BY <1>2, <2>2 DEF Store, StoredInv, trainer
<1>3. CASE StoreNothing
  BY <1>3 DEF StoreNothing, StoredInv, trainer
<1>4. CASE Bind
  <2>1. LoadModel(stored) # Refused
    BY <1>4, StoredIsRead DEF Bind, ReadsBack
  <2> QED
    BY <1>4, <2>1 DEF Bind, StoredInv, trainer
<1>5. ASSUME NEW size \in 1..MaxRows, Update(size) PROVE StoredInv'
  BY <1>5 DEF Update, StoredInv, trainer
<1>6. CASE UNCHANGED vars
  <2>1. ToModel' = ToModel
    BY <1>6 DEF vars, trainer, ToModel
  <2>2. /\ SerializePcaModel(ToModel)' = SerializePcaModel(ToModel)
        /\ OldPcaBlob(ToModel)' = OldPcaBlob(ToModel)
    BY <2>1 DEF SerializePcaModel, OldPcaBlob
  <2> QED
    BY <1>6, <2>2 DEF vars, trainer, StoredInv
<1> QED
  BY <1>1, <1>2, <1>3, <1>4, <1>5, <1>6 DEF Next

\* What is stored is always the trained model, and a stored model is never
\* refused when ml_evaluate binds it.
THEOREM StoredModelIsBound == Spec => []StoredInv
<1>1. Init => StoredInv
  BY DEF Init, StoredInv
<1>2. TypeOK /\ TrainedInv /\ StoredInv /\ [Next]_vars => StoredInv'
  BY StoredStep
<1> QED
  BY <1>1, <1>2, TrainingAddsUp, PcaTypeCorrect, PTL DEF Spec

\* The stored model is read back whole, of any number of features and of
\* components, also one of an older release; cut short anywhere, or grown, its
\* blob is refused.
THEOREM StoredPcaIsAlwaysRead == Spec => []StoredPcaIsRead
<1>1. TypeOK /\ TrainedInv /\ StoredInv => StoredPcaIsRead
  BY StoredIsRead DEF StoredPcaIsRead
<1> QED
  BY <1>1, StoredModelIsBound, TrainingAddsUp, PcaTypeCorrect, PTL

=============================================================================
