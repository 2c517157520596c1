-------------------------- MODULE ModelBlobProofs --------------------------
(***************************************************************************)
(* ModelBlob for models of every size and with every content: what the     *)
(* serialisers write is read back field by field, whatever the counts of   *)
(* its lists and of its matrix, in both versions of the format; and a blob *)
(* that lost any part of its end, or grew, is refused.                     *)
(***************************************************************************)
EXTENDS ModelBlob, Integers, FiniteSets, SequenceTheorems, FiniteSetTheorems,
        WellFoundedInduction, TLAPS

\* Joining sequences: the files of a table, and the fields of a blob.

\* Naturals that are not none have a least one.
LEMMA LeastOfNat ==
    ASSUME NEW S, S \subseteq Nat, S # {}
    PROVE  \E least \in S : \A k \in S : least <= k
<1> DEFINE Less == OpToRel(<, Nat)
<1>1. PICK least \in S : \A k \in S : ~(<<k, least>> \in Less)
  <2>1. IsWellFoundedOn(Less, Nat)
    BY NatLessThanWellFounded
  <2> HIDE DEF Less
  <2> QED
    BY <2>1, WFMin
<1>2. \A k \in S : least <= k
  <2> SUFFICES ASSUME NEW k \in S PROVE ~(k < least)
    OBVIOUS
  <2> QED
    BY <1>1 DEF OpToRel
<1> QED
  BY <1>2

\* f[k] joins the first k of the n sequences of b.
Joins(f, b, n) ==
    /\ DOMAIN f = 0..n
    /\ f[0] = <<>>
    /\ \A k \in 1..n : f[k] = f[k - 1] \o b[k]

\* Sequences can be joined one after the other.
LEMMA JoinsExist ==
    ASSUME NEW R, NEW b \in Seq(Seq(R))
    PROVE  \E f \in [0..Len(b) -> Seq(R)] : Joins(f, b, Len(b))
<1> DEFINE len == Len(b)
           Can(k) == \E f \in [0..k -> Seq(R)] : Joins(f, b, k)
           Bad == {k \in 0..len : ~Can(k)}
<1>0. len \in Nat /\ \A k \in 1..len : b[k] \in Seq(R)
  OBVIOUS
<1> HIDE DEF len
<1>1. SUFFICES ASSUME Bad # {} PROVE FALSE
  <2>1. len \in 0..len
    BY <1>0
  <2> HIDE DEF Can
  <2>2. Can(len)
    BY <2>1, <1>1
  <2> QED
    BY <2>2 DEF Can, len
<1>2. PICK k \in Bad : \A j \in Bad : k <= j
  <2>1. Bad \subseteq Nat
    OBVIOUS
  <2> HIDE DEF Bad
  <2> QED
    BY <1>1, <2>1, LeastOfNat
<1>3. k # 0
  <2> DEFINE f == [i \in 0..0 |-> <<>>]
  <2>1. f \in [0..0 -> Seq(R)] /\ Joins(f, b, 0)
    BY DEF Joins
  <2>2. Can(0)
    BY <2>1
  <2> HIDE DEF Can
  <2> QED
    BY <2>2
<1>4. k \in 1..len /\ k - 1 \in 0..len /\ ~(k <= k - 1)
  BY <1>0, <1>3
<1>5. PICK f \in [0..(k - 1) -> Seq(R)] : Joins(f, b, k - 1)
  <2> HIDE DEF Can
  <2>1. Can(k - 1)
    BY <1>2, <1>4
  <2> QED
    BY <2>1 DEF Can
<1> DEFINE g == [i \in 0..k |-> IF i = k THEN f[k - 1] \o b[k] ELSE f[i]]
<1>6. g \in [0..k -> Seq(R)]
  <2>1. f[k - 1] \o b[k] \in Seq(R)
    BY <1>0, <1>4
  <2>2. \A i \in 0..k : i # k => i \in 0..(k - 1)
    BY <1>4
  <2> QED
    BY <1>4, <2>1, <2>2
<1>7. Joins(g, b, k)
  <2>1. g[0] = <<>>
    BY <1>3, <1>4, <1>5 DEF Joins
  <2>2. ASSUME NEW i \in 1..k PROVE g[i] = g[i - 1] \o b[i]
    <3>1. CASE i = k
      <4>1. k - 1 \in 0..k /\ k - 1 # k
        BY <1>4
      <4> QED
        BY <3>1, <4>1
    <3>2. CASE i # k
      <4>1. i \in 1..(k - 1) /\ i \in 0..k /\ i - 1 \in 0..k /\ i - 1 # k
        BY <1>4, <3>2
      <4> QED
        BY <1>5, <3>2, <4>1 DEF Joins
    <3> QED
      BY <3>1, <3>2
  <2>3. DOMAIN g = 0..k
    OBVIOUS
  <2> HIDE DEF g
  <2> QED
    BY <2>1, <2>2, <2>3 DEF Joins
<1>8. Can(k)
  BY <1>6, <1>7
<1> HIDE DEF Can
<1> QED
  BY <1>8

\* FlattenSeq joins all of them.
LEMMA FlattenIsLastJoin ==
    ASSUME NEW R, NEW b \in Seq(Seq(R)),
           NEW f \in [0..Len(b) -> Seq(R)], Joins(f, b, Len(b))
    PROVE  FlattenSeq(b) = f[Len(b)]
<1> DEFINE len == Len(b)
           Is(h) == h = [i \in 1..len |-> IF i = 1 THEN b[i] ELSE h[i - 1] \o b[i]]
           flatten == CHOOSE h : Is(h)
<1>0. len \in Nat /\ (\A k \in 1..len : b[k] \in Seq(R))
  OBVIOUS
<1>1. CASE len = 0
  <2>1. FlattenSeq(b) = b /\ b = <<>>
    BY <1>1 DEF FlattenSeq
  <2> QED
    BY <1>1, <2>1 DEF Joins
<1>2. CASE len # 0
  <2>1. FlattenSeq(b) = flatten[len]
    BY <1>2 DEF FlattenSeq
  <2> DEFINE g == [i \in 1..len |-> f[i]]
  <2>2. Is(g)
    <3>1. ASSUME NEW i \in 1..len PROVE g[i] = IF i = 1 THEN b[i] ELSE g[i - 1] \o b[i]
      <4>1. f[i] = f[i - 1] \o b[i]
        BY DEF Joins
      <4>2. CASE i = 1
        <5>1. f[0] = <<>> /\ b[1] \in Seq(R)
          BY <1>0, <4>2 DEF Joins
        <5>2. <<>> \o b[1] = b[1]
          BY <5>1
        <5>3. i - 1 = 0
          BY <4>2
        <5>4. f[i] = b[1]
          BY <4>1, <4>2, <5>1, <5>2, <5>3
        <5>5. g[i] = f[i]
          OBVIOUS
        <5> HIDE DEF g
        <5> QED
          BY <4>2, <5>4, <5>5
      <4>3. CASE i # 1
        <5>1. i - 1 \in 1..len
          BY <1>0, <4>3
        <5> QED
          BY <4>1, <4>3, <5>1
      <4> QED
        BY <4>2, <4>3
    <3> QED
      BY <3>1
  <2>3. Is(flatten)
    <3> HIDE DEF Is, g
    <3> QED
      BY <2>2
  <2> HIDE DEF flatten
  <2> DEFINE Bad == {k \in 1..len : flatten[k] # g[k]}
  <2>4. Bad = {}
    <3>1. SUFFICES ASSUME Bad # {} PROVE FALSE
      OBVIOUS
    <3>2. PICK k \in Bad : \A j \in Bad : k <= j
      <4>1. Bad \subseteq Nat
        OBVIOUS
      <4> HIDE DEF Bad
      <4> QED
        BY <3>1, <4>1, LeastOfNat
    <3> HIDE DEF g
    <3>3. /\ flatten[k] = IF k = 1 THEN b[k] ELSE flatten[k - 1] \o b[k]
          /\ g[k] = IF k = 1 THEN b[k] ELSE g[k - 1] \o b[k]
      BY <2>2, <2>3
    <3>4. CASE k = 1
      BY <3>3, <3>4
    <3>5. CASE k # 1
      <4>1. k - 1 \in 1..len /\ ~(k <= k - 1)
        BY <1>0, <3>5
      <4>2. flatten[k - 1] = g[k - 1]
        BY <3>2, <4>1
      <4> QED
        BY <3>3, <3>5, <4>2
    <3> QED
      BY <3>4, <3>5
  <2>5. len \in 1..len
    BY <1>0, <1>2
  <2>6. flatten[len] = f[len]
    <3> HIDE DEF Is
    <3> QED
      BY <2>4, <2>5
  <2> QED
    BY <2>1, <2>6
<1> QED
  BY <1>1, <1>2

\* A prefix stays one when more follows.
LEMMA PrefixOfConcat ==
    ASSUME NEW R, NEW s \in Seq(R), NEW t \in Seq(R), NEW u \in Seq(R), IsPrefix(s, t)
    PROVE  IsPrefix(s, t \o u)
<1>1. /\ Len(s) \in Nat /\ Len(t) \in Nat /\ Len(s) <= Len(t)
      /\ SubSeq(s, 1, Len(s)) = SubSeq(t, 1, Len(s))
      /\ t \o u \in Seq(R) /\ Len(t \o u) = Len(t) + Len(u) /\ Len(u) \in Nat
      /\ \A i \in 1..Len(t) : (t \o u)[i] = t[i]
  BY DEF IsPrefix
<1>2. SubSeq(t \o u, 1, Len(s)) = SubSeq(t, 1, Len(s))
  BY <1>1
<1> QED
  BY <1>1, <1>2 DEF IsPrefix

\* What is joined first begins all that is joined.
LEMMA JoinsArePrefixes ==
    ASSUME NEW R, NEW b \in Seq(Seq(R)),
           NEW f \in [0..Len(b) -> Seq(R)], Joins(f, b, Len(b)), NEW k \in 0..Len(b)
    PROVE  IsPrefix(f[k], f[Len(b)])
<1> DEFINE len == Len(b)
           Bad == {m \in k..len : ~IsPrefix(f[k], f[m])}
<1>0. len \in Nat /\ (\A m \in 1..len : b[m] \in Seq(R)) /\ k \in 0..len
  OBVIOUS
<1>1. SUFFICES ASSUME Bad # {} PROVE FALSE
  OBVIOUS
<1>2. PICK m \in Bad : \A j \in Bad : m <= j
  <2>1. Bad \subseteq Nat
    OBVIOUS
  <2> HIDE DEF Bad
  <2> QED
    BY <1>1, <2>1, LeastOfNat
<1>3. m # k
  BY <1>0 DEF IsPrefix
<1>4. m \in 1..len /\ m - 1 \in k..len /\ ~(m <= m - 1) /\ m - 1 \in 0..len
  BY <1>0, <1>3
<1>5. IsPrefix(f[k], f[m - 1])
  BY <1>2, <1>4
<1>6. f[m] = f[m - 1] \o b[m]
  BY <1>4 DEF Joins
<1>7. f[k] \in Seq(R) /\ f[m - 1] \in Seq(R) /\ b[m] \in Seq(R)
  BY <1>0, <1>4
<1>8. IsPrefix(f[k], f[m])
  BY <1>5, <1>6, <1>7, PrefixOfConcat
<1> QED
  BY <1>8

-----------------------------------------------------------------------------
\* Reading field after field: FoldLeft is a run of ReadField.

\* r[k] is the reader after the first k of the n fields.
Reads(r, base, fields, n) ==
    /\ r[0] = base
    /\ \A k \in 1..n : r[k] = ReadField(r[k - 1], fields[k])

\* it is the fold of ReadField over sets of places, as FoldLeft builds it.
IsFold(it, base, fields, D) ==
    it = [S \in SUBSET D |->
             IF S = {} THEN base ELSE ReadField(it[S \ {Max(S)}], fields[Max(S)])]

\* Max finds the greatest of some places.
LEMMA MaxIs ==
    ASSUME NEW k \in Nat \ {0}, NEW S \in SUBSET (1..k), k \in S
    PROVE  Max(S) = k
<1>1. \A y \in S : k >= y
  OBVIOUS
<1>2. \A x \in S : (\A y \in S : x >= y) => x = k
  OBVIOUS
<1> QED
  BY <1>1, <1>2 DEF Max

\* There is such a fold, whatever was written in the blob.
LEMMA FoldExists ==
    ASSUME NEW n \in Nat, NEW base, NEW fields
    PROVE  \E it : IsFold(it, base, fields, 1..n)
<1> DEFINE Can(k) == \E it : IsFold(it, base, fields, 1..k)
           Bad == {k \in Nat : ~Can(k)}
<1>1. SUFFICES ASSUME Bad # {} PROVE FALSE
  OBVIOUS
<1>2. PICK k \in Bad : \A j \in Bad : k <= j
  <2>1. Bad \subseteq Nat
    OBVIOUS
  <2> HIDE DEF Bad
  <2> QED
    BY <1>1, <2>1, LeastOfNat
<1>3. k # 0
  <2> DEFINE it == [S \in SUBSET (1..0) |-> base]
  <2>1. \A S \in SUBSET (1..0) : S = {}
    OBVIOUS
  <2>2. it = [S \in SUBSET (1..0) |->
                IF S = {} THEN base ELSE ReadField(it[S \ {Max(S)}], fields[Max(S)])]
    BY <2>1
  <2> HIDE DEF it
  <2>3. Can(0)
    BY <2>2 DEF IsFold
  <2> HIDE DEF Can
  <2> QED
    BY <2>3
<1>4. k \in Nat \ {0} /\ k - 1 \in Nat /\ ~(k <= k - 1)
  BY <1>3
<1>5. PICK s : IsFold(s, base, fields, 1..(k - 1))
  <2> HIDE DEF Can
  <2>1. Can(k - 1)
    BY <1>2, <1>4
  <2> QED
    BY <2>1 DEF Can
<1> DEFINE it == [S \in SUBSET (1..k) |->
                     IF k \in S THEN ReadField(s[S \ {k}], fields[k]) ELSE s[S]]
<1>6. \A S \in SUBSET (1..k) : k \notin S => S \in SUBSET (1..(k - 1))
  BY <1>4
<1>7. ASSUME NEW S \in SUBSET (1..k)
      PROVE  it[S] = IF S = {} THEN base ELSE ReadField(it[S \ {Max(S)}], fields[Max(S)])
  <2>1. CASE k \in S
    <3>1. Max(S) = k
      BY <1>4, <2>1, MaxIs
    <3>2. it[S] = ReadField(s[S \ {k}], fields[k]) /\ it[S \ {k}] = s[S \ {k}]
      BY <2>1
    <3> HIDE DEF it
    <3> QED
      BY <2>1, <3>1, <3>2
  <2>2. CASE k \notin S
    <3>1. it[S] = s[S] /\ it[S \ {Max(S)}] = s[S \ {Max(S)}] /\ S \in SUBSET (1..(k - 1))
      BY <1>6, <2>2
    <3>2. s[S] = IF S = {} THEN base ELSE ReadField(s[S \ {Max(S)}], fields[Max(S)])
      BY <1>5, <3>1 DEF IsFold
    <3> HIDE DEF it
    <3> QED
      BY <3>1, <3>2
  <2> QED
    BY <2>1, <2>2
<1>8. Can(k)
  <2>1. it = [S \in SUBSET (1..k) |-> it[S]]
    OBVIOUS
  <2> HIDE DEF it
  <2>2. IsFold(it, base, fields, 1..k)
    BY <1>7, <2>1 DEF IsFold
  <2> QED
    BY <2>2
<1> HIDE DEF Can
<1> QED
  BY <1>8

\* FoldLeft reads field after field.
LEMMA FoldReads ==
    ASSUME NEW base, NEW F, NEW fields \in Seq(F), NEW n \in Nat, n = Len(fields)
    PROVE  \E r : Reads(r, base, fields, n) /\ r[n] = FoldLeft(ReadField, base, fields)
<1> DEFINE D == DOMAIN fields
           it == CHOOSE t : t = [S \in SUBSET D |->
                    IF S = {} THEN base ELSE ReadField(t[S \ {Max(S)}], fields[Max(S)])]
           r == [k \in 0..n |-> it[1..k]]
<1>1. FoldLeft(ReadField, base, fields) = it[D]
  BY DEF FoldLeft, MapThenFoldSet
<1>2. D = 1..n
  OBVIOUS
<1>3. it = CHOOSE t : IsFold(t, base, fields, D)
  BY DEF IsFold
<1> HIDE DEF it, D
<1>4. IsFold(it, base, fields, D)
  <2>1. \E t : IsFold(t, base, fields, D)
    BY <1>2, FoldExists
  <2> QED
    BY <1>3, <2>1
<1>5. r[0] = base
  <2>1. 1..0 = {} /\ {} \in SUBSET D /\ 0 \in 0..n
    OBVIOUS
  <2>2. it[{}] = base
    BY <1>4 DEF IsFold
  <2> QED
    BY <2>1, <2>2
<1>6. ASSUME NEW k \in 1..n PROVE r[k] = ReadField(r[k - 1], fields[k])
  <2> DEFINE S == 1..k
             T == 1..(k - 1)
  <2>1. /\ S \in SUBSET D /\ S # {} /\ k \in Nat \ {0} /\ k \in S /\ S \in SUBSET (1..k)
        /\ S \ {k} = T
    BY <1>2
  <2>2. Max(S) = k
    <3> HIDE DEF S
    <3> QED
      BY <2>1, MaxIs
  <2>3. r[k] = it[S] /\ r[k - 1] = it[T]
    OBVIOUS
  <2> HIDE DEF S, T, r
  <2>4. it[S] = ReadField(it[S \ {Max(S)}], fields[Max(S)])
    BY <1>4, <2>1 DEF IsFold
  <2> QED
    BY <2>1, <2>2, <2>3, <2>4
<1>7. r[n] = it[D]
  BY <1>2
<1> HIDE DEF r
<1> QED
  BY <1>1, <1>5, <1>6, <1>7 DEF Reads

-----------------------------------------------------------------------------
\* Reading one field.

\* A reader that has not failed.
Rec(b, o, m) == [blob |-> b, offset |-> o, model |-> m, ok |-> TRUE]

\* Lists and matrices are what their shape says.
WellShaped(field, value, R) ==
    /\ Shape(field) = "list" => value \in Seq(R)
    /\ Shape(field) = "matrix" =>
          /\ value = [rows |-> value.rows, cols |-> value.cols, entries |-> value.entries]
          /\ value.rows \in Nat /\ value.cols \in Nat
          /\ value.entries \in Seq(R)
          /\ Len(value.entries) = value.rows * value.cols

\* There is no other shape.
LEMMA ShapeIs == \A field : Shape(field) \in {"pod", "list", "matrix"}
BY DEF Shape

\* What is written, item by item.
LEMMA WrittenPod ==
    ASSUME NEW field, Shape(field) = "pod", NEW value
    PROVE  Written(field, value) = <<value>>
BY DEF Written

\* A list is its count and its items.
LEMMA WrittenList ==
    ASSUME NEW field, Shape(field) = "list", NEW R, NEW value \in Seq(R)
    PROVE  /\ Len(Written(field, value)) = 1 + Len(value)
           /\ Written(field, value)[1] = Len(value)
           /\ \A i \in 1..Len(value) : Written(field, value)[1 + i] = value[i]
<1> DEFINE h == <<Len(value)>>
           S == R \union Nat
           w == Written(field, value)
<1>1. w = h \o value
  BY DEF Written
<1>2. h \in Seq(S) /\ Len(h) = 1 /\ h[1] = Len(value) /\ Len(value) \in Nat /\ value \in Seq(S)
  OBVIOUS
<1> HIDE DEF h, S, w
<1>3. /\ Len(h \o value) = Len(h) + Len(value)
      /\ \A i \in 1..(Len(h) + Len(value)) :
            (h \o value)[i] = IF i <= Len(h) THEN h[i] ELSE value[i - Len(h)]
  BY ONLY <1>2, ConcatProperties
<1>4. /\ Len(w) = 1 + Len(value)
      /\ \A i \in 1..(1 + Len(value)) : w[i] = IF i <= 1 THEN h[i] ELSE value[i - 1]
  BY ONLY <1>1, <1>2, <1>3
<1>5. w[1] = Len(value)
  BY ONLY <1>2, <1>4
<1>6. \A i \in 1..Len(value) : w[1 + i] = value[i]
  BY ONLY <1>2, <1>4
<1> QED
  BY <1>4, <1>5, <1>6 DEF w

\* A matrix is its two counts and its entries.
LEMMA WrittenMatrix ==
    ASSUME NEW field, Shape(field) = "matrix", NEW R, NEW r \in Nat, NEW c \in Nat,
           NEW e \in Seq(R), NEW size \in Nat, Len(e) = size,
           NEW w, w = Written(field, [rows |-> r, cols |-> c, entries |-> e])
    PROVE  /\ Len(w) = 2 + size /\ w[1] = r /\ w[2] = c
           /\ \A i \in 1..size : w[2 + i] = e[i]
<1> DEFINE h == <<r, c>>
           S == R \union Nat
<1>1. w = h \o e
  BY DEF Written
<1>2. h \in Seq(S) /\ Len(h) = 2 /\ h[1] = r /\ h[2] = c /\ e \in Seq(S)
  OBVIOUS
<1> HIDE DEF h, S
<1>3. /\ Len(h \o e) = Len(h) + Len(e)
      /\ \A i \in 1..(Len(h) + Len(e)) :
            (h \o e)[i] = IF i <= Len(h) THEN h[i] ELSE e[i - Len(h)]
  BY ONLY <1>2, ConcatProperties
<1>4. /\ Len(w) = 2 + size
      /\ \A i \in 1..(2 + size) : w[i] = IF i <= 2 THEN h[i] ELSE e[i - 2]
  BY ONLY <1>1, <1>2, <1>3, size \in Nat, Len(e) = size
<1>5. w[1] = r /\ w[2] = c
  BY <1>2, <1>4
<1>6. \A i \in 1..size : w[2 + i] = e[i]
  BY <1>2, <1>4
<1> QED
  BY <1>4, <1>5, <1>6

\* What was written is in the blob after the first o items.
Holds(b, o, w) == o + Len(w) <= Len(b) /\ \A i \in 1..Len(w) : b[o + i] = w[i]

\* A field that is there is read as it was written.
LEMMA ReadFieldReads ==
    ASSUME NEW R, NEW field, NEW value, WellShaped(field, value, R),
           NEW w, w = Written(field, value),
           NEW B, NEW b \in Seq(B), NEW o \in Nat, NEW m, Holds(b, o, w)
    PROVE  ReadField(Rec(b, o, m), field) = Rec(b, o + Len(w), With(m, field, value))
<1> DEFINE r == Rec(b, o, m)
           n == Len(b)
<1>0. o + Len(w) <= Len(b) /\ \A i \in 1..Len(w) : b[o + i] = w[i]
  BY DEF Holds
<1>1. r.blob = b /\ r.offset = o /\ r.model = m /\ r.ok = TRUE /\ n \in Nat
  BY DEF Rec
<1>2. Left(r) = n - o /\ \A k : Item(r, k) = b[o + k]
  BY <1>1 DEF Left, Item
<1>3. ASSUME NEW size \in Nat, size <= n - o, NEW v
      PROVE  Take(r, field, size, v) = Rec(b, o + size, With(m, field, v))
  BY <1>2, <1>3 DEF Take, Rec
<1> HIDE DEF r, n
<1>4. CASE Shape(field) = "pod"
  <2>1. w = <<value>> /\ Len(w) = 1 /\ b[o + 1] = value /\ o + 1 <= n
    <3>1. w = <<value>>
      BY <1>4, WrittenPod
    <3>2. Len(w) = 1 /\ w[1] = value /\ 1 \in 1..Len(w)
      BY <3>1
    <3>3. b[o + 1] = w[1]
      BY <1>0, <3>2
    <3> QED
      BY <1>0, <3>1, <3>2, <3>3 DEF n
  <2>2. ReadField(r, field) = Take(r, field, 1, IF Left(r) = 0 THEN <<>> ELSE Item(r, 1))
    BY <1>1, <1>4 DEF ReadField
  <2>3. Left(r) # 0 /\ Item(r, 1) = value
    BY <1>1, <1>2, <2>1
  <2>4. ReadField(r, field) = Take(r, field, 1, value)
    BY <2>2, <2>3
  <2>5. 1 \in Nat /\ 1 <= n - o
    BY <1>1, <2>1
  <2> QED
    BY <1>3, <2>1, <2>4, <2>5 DEF r
<1>5. CASE Shape(field) = "list"
  <2> DEFINE len == Len(value)
  <2>1. value \in Seq(R) /\ len \in Nat
    BY <1>5 DEF WellShaped
  <2>2. Len(w) = 1 + len /\ w[1] = len /\ \A i \in 1..len : w[1 + i] = value[i]
    BY <1>5, <2>1, WrittenList
  <2> HIDE DEF len
  <2>3. o + (1 + len) <= n /\ b[o + 1] = len /\ \A i \in 1..len : b[o + (1 + i)] = value[i]
    <3>1. o + (1 + len) <= n
      BY <1>0, <2>2 DEF n
    <3>2. 1 \in 1..Len(w) /\ \A i \in 1..len : 1 + i \in 1..Len(w)
      BY <2>1, <2>2
    <3> QED
      BY <1>0, <2>2, <3>1, <3>2
  <2>4. Left(r) # 0 /\ Item(r, 1) = len /\ 1 + len <= n - o
    BY <1>1, <1>2, <2>1, <2>3
  <2>5. SubSeq(b, o + 2, o + 1 + len) = value
    <3> DEFINE s == SubSeq(b, o + 2, o + 1 + len)
    <3>5. o + 2 \in Nat /\ o + 1 + len \in Nat /\ o + 1 + len <= Len(b)
      BY <2>1, <2>3 DEF n
    <3>1. Len(s) = len /\ s \in Seq(B) /\ \A i \in 1..len : s[i] = b[o + 2 + i - 1]
      BY ONLY <2>1, <3>5, b \in Seq(B), o \in Nat
    <3>2. \A i \in 1..len : o + 2 + i - 1 = o + (1 + i)
      BY <2>1
    <3>3. \A i \in 1..len : s[i] = value[i]
      BY <2>3, <3>1, <3>2
    <3> HIDE DEF s
    <3>4. s = value
      BY <2>1, <3>1, <3>3 DEF len
    <3> QED
      BY <3>4 DEF s
  <2>6. ReadField(r, field) = ReadList(r, field)
    BY <1>1, <1>5 DEF ReadField
  <2>7. ReadList(r, field) = Take(r, field, 1 + len, value)
    BY <1>1, <2>4, <2>5 DEF ReadList
  <2>8. 1 + len \in Nat
    BY <2>1
  <2> QED
    BY <1>3, <2>2, <2>4, <2>6, <2>7, <2>8 DEF r
<1>6. CASE Shape(field) = "matrix"
  <2> DEFINE h == value.rows
             c == value.cols
             e == value.entries
             size == h * c
  <2>1. /\ e \in Seq(R) /\ Len(e) = size /\ h \in Nat /\ c \in Nat
        /\ value = [rows |-> h, cols |-> c, entries |-> e]
    BY <1>6 DEF WellShaped
  <2>3. size \in Nat
    BY <2>1
  <2>10. Item(r, 1) * Item(r, 2) = h * c \/ Item(r, 1) # h \/ Item(r, 2) # c
    OBVIOUS
  <2> HIDE DEF h, c, e
  <2>11. h * c = size
    OBVIOUS
  <2> HIDE DEF size
  <2>2. Len(w) = 2 + size /\ w[1] = h /\ w[2] = c /\ \A i \in 1..size : w[2 + i] = e[i]
    BY <1>6, <2>1, <2>3, WrittenMatrix
  <2>4. /\ o + (2 + size) <= n /\ b[o + 1] = h /\ b[o + 2] = c
        /\ \A i \in 1..size : b[o + (2 + i)] = e[i]
    <3>1. o + (2 + size) <= n
      BY <1>0, <2>2 DEF n
    <3>2. 1 \in 1..Len(w) /\ 2 \in 1..Len(w) /\ \A i \in 1..size : 2 + i \in 1..Len(w)
      BY <2>2, <2>3
    <3> QED
      BY <1>0, <2>2, <3>1, <3>2
  <2>5. ~(Left(r) < 2) /\ Item(r, 1) = h /\ Item(r, 2) = c /\ 2 + size <= n - o
    BY <1>1, <1>2, <2>3, <2>4
  <2>6. SubSeq(b, o + 3, o + 2 + size) = e
    <3> DEFINE s == SubSeq(b, o + 3, o + 2 + size)
    <3>1. Len(s) = size /\ s \in Seq(B) /\ \A i \in 1..size : s[i] = b[o + 3 + i - 1]
      BY <1>1, <2>3, <2>4 DEF n
    <3>2. \A i \in 1..size : o + 3 + i - 1 = o + (2 + i)
      BY <2>3
    <3>3. \A i \in 1..size : s[i] = e[i]
      BY <2>4, <3>1, <3>2
    <3> HIDE DEF s
    <3>4. s = e
      BY <2>1, <3>1, <3>3
    <3> QED
      BY <3>4 DEF s
  <2>7. ReadField(r, field) = ReadMatrix(r, field)
    BY <1>1, <1>6 DEF ReadField
  <2>8. ReadMatrix(r, field) = Take(r, field, 2 + size, [rows |-> h, cols |-> c, entries |-> e])
    <3>1. Item(r, 1) * Item(r, 2) = size
      BY <2>5, <2>11
    <3> QED
      BY <1>1, <2>5, <2>6, <3>1 DEF ReadMatrix
  <2>9. 2 + size \in Nat
    BY <2>3
  <2> QED
    BY <1>3, <2>1, <2>2, <2>5, <2>7, <2>8, <2>9, ZenonT(60) DEF r
<1> QED
  BY <1>4, <1>5, <1>6, ShapeIs DEF r

\* A field that is not there to its end is not read.
LEMMA ReadFieldFails ==
    ASSUME NEW R, NEW field, NEW value, WellShaped(field, value, R),
           NEW w, w = Written(field, value),
           NEW B, NEW b \in Seq(B), NEW o \in Nat, o <= Len(b), NEW m,
           o + Len(w) > Len(b), \A i \in 1..Len(w) : o + i <= Len(b) => b[o + i] = w[i]
    PROVE  ReadField(Rec(b, o, m), field).ok = FALSE
<1> DEFINE r == Rec(b, o, m)
           n == Len(b)
<1>1. r.blob = b /\ r.offset = o /\ r.model = m /\ r.ok = TRUE /\ n \in Nat
  BY DEF Rec
<1>2. Left(r) = n - o /\ \A k : Item(r, k) = b[o + k]
  BY <1>1 DEF Left, Item
<1>3. ASSUME NEW size \in Nat, ~(size <= n - o), NEW v
      PROVE  Take(r, field, size, v).ok = FALSE
  BY <1>2, <1>3 DEF Take, Rec
<1> HIDE DEF r, n
<1>4. CASE Shape(field) = "pod"
  <2>1. Len(w) = 1
    <3>1. w = <<value>>
      BY <1>4, WrittenPod
    <3> QED
      BY <3>1
  <2>2. ReadField(r, field) = Take(r, field, 1, IF Left(r) = 0 THEN <<>> ELSE Item(r, 1))
    BY <1>1, <1>4 DEF ReadField
  <2>3. 1 \in Nat /\ ~(1 <= n - o)
    BY <1>1, <2>1 DEF n
  <2> QED
    BY <1>3, <2>2, <2>3 DEF r
<1>5. CASE Shape(field) = "list"
  <2> DEFINE len == Len(value)
  <2>1. value \in Seq(R) /\ len \in Nat
    BY <1>5 DEF WellShaped
  <2>2. Len(w) = 1 + len /\ w[1] = len
    BY <1>5, <2>1, WrittenList
  <2> HIDE DEF len
  <2>3. ReadField(r, field) = ReadList(r, field)
    BY <1>1, <1>5 DEF ReadField
  <2>4. CASE Left(r) = 0
    <3>1. ReadList(r, field) = Take(r, field, 1, <<>>)
      BY <2>4 DEF ReadList
    <3>2. 1 \in Nat /\ ~(1 <= n - o)
      BY <1>2, <2>4
    <3> QED
      BY <1>3, <2>3, <3>1, <3>2 DEF r
  <2>5. CASE Left(r) # 0
    <3>1. o + 1 <= n /\ 1 \in 1..Len(w)
      BY <1>1, <1>2, <2>1, <2>2, <2>5 DEF n
    <3>2. Item(r, 1) = len
      BY <1>2, <2>2, <3>1 DEF n
    <3>3. \E v : ReadList(r, field) = Take(r, field, 1 + len, v)
      BY <2>5, <3>2 DEF ReadList
    <3>4. 1 + len \in Nat /\ ~(1 + len <= n - o)
      BY <1>1, <2>1, <2>2 DEF n
    <3> QED
      BY <1>3, <2>3, <3>3, <3>4 DEF r
  <2> QED
    BY <2>4, <2>5
<1>6. CASE Shape(field) = "matrix"
  <2> DEFINE h == value.rows
             c == value.cols
             e == value.entries
             size == h * c
  <2>1. /\ e \in Seq(R) /\ Len(e) = size /\ h \in Nat /\ c \in Nat
        /\ value = [rows |-> h, cols |-> c, entries |-> e]
    BY <1>6 DEF WellShaped
  <2>3. size \in Nat /\ h * c = size
    BY <2>1
  <2> HIDE DEF h, c, e, size
  <2>2. Len(w) = 2 + size /\ w[1] = h /\ w[2] = c
    BY <1>6, <2>1, <2>3, WrittenMatrix
  <2>4. ReadField(r, field) = ReadMatrix(r, field)
    BY <1>1, <1>6 DEF ReadField
  <2>5. CASE Left(r) < 2
    <3>1. ReadMatrix(r, field) = Take(r, field, 2, <<>>)
      BY <2>5 DEF ReadMatrix
    <3>2. 2 \in Nat /\ ~(2 <= n - o)
      BY <1>1, <1>2, <2>5
    <3> QED
      BY <1>3, <2>4, <3>1, <3>2 DEF r
  <2>6. CASE ~(Left(r) < 2)
    <3>1. o + 1 <= n /\ o + 2 <= n /\ 1 \in 1..Len(w) /\ 2 \in 1..Len(w)
      BY <1>1, <1>2, <2>2, <2>3, <2>6 DEF n
    <3>2. Item(r, 1) = h /\ Item(r, 2) = c
      BY <1>2, <2>2, <3>1 DEF n
    <3>3. Item(r, 1) * Item(r, 2) = size
      BY <2>3, <3>2
    <3>4. \E v : ReadMatrix(r, field) = Take(r, field, 2 + size, v)
      BY <2>6, <3>3 DEF ReadMatrix
    <3>5. 2 + size \in Nat /\ ~(2 + size <= n - o)
      BY <1>1, <2>2, <2>3 DEF n
    <3> QED
      BY <1>3, <2>4, <3>4, <3>5 DEF r
  <2> QED
    BY <2>5, <2>6
<1> QED
  BY <1>4, <1>5, <1>6, ShapeIs DEF r

-----------------------------------------------------------------------------
\* Reading a blob.

\* Sequence k of those that f joins stands in the whole after the ones before it.
StandsIn(B, f, W, n, k) ==
    /\ W[k] \in Seq(B) /\ Len(f[k - 1]) \in Nat
    /\ Len(f[k]) = Len(f[k - 1]) + Len(W[k])
    /\ Len(f[k]) <= Len(f[n])
    /\ \A i \in 1..Len(W[k]) : f[n][Len(f[k - 1]) + i] = W[k][i]

\* Every one of the joined sequences stands in the whole.
LEMMA JoinsAt ==
    ASSUME NEW B, NEW W \in Seq(Seq(B)),
           NEW f \in [0..Len(W) -> Seq(B)], Joins(f, W, Len(W)), NEW k \in 1..Len(W)
    PROVE  StandsIn(B, f, W, Len(W), k)
<1> DEFINE s == f[k - 1]
           t == W[k]
           n == Len(W)
           u == f[n]
<1>0. k - 1 \in 0..n /\ k \in 0..n /\ n \in 0..n /\ k \in 1..Len(W)
  OBVIOUS
<1>1. s \in Seq(B) /\ t \in Seq(B) /\ u \in Seq(B)
  <2>1. t \in Seq(B)
    BY ONLY W \in Seq(Seq(B)), <1>0
  <2>2. s \in Seq(B) /\ u \in Seq(B)
    BY ONLY f \in [0..n -> Seq(B)], <1>0
  <2> QED
    BY <2>1, <2>2
<1>2. f[k] = s \o t
  BY DEF Joins
<1>3. IsPrefix(f[k], u)
  BY <1>0, JoinsArePrefixes
<1> HIDE DEF s, t, u
<1>4. /\ s \o t \in Seq(B) /\ Len(s \o t) = Len(s) + Len(t) /\ Len(s) \in Nat /\ Len(t) \in Nat
      /\ \A i \in 1..(Len(s) + Len(t)) : (s \o t)[i] = IF i <= Len(s) THEN s[i] ELSE t[i - Len(s)]
  BY <1>1, ConcatProperties
<1>5. /\ Len(s) + Len(t) <= Len(u)
      /\ SubSeq(s \o t, 1, Len(s) + Len(t)) = SubSeq(u, 1, Len(s) + Len(t))
  BY <1>2, <1>3, <1>4 DEF IsPrefix
<1>6. ASSUME NEW i \in 1..Len(t) PROVE u[Len(s) + i] = t[i]
  <2> DEFINE p == Len(s) + i
             len == Len(s) + Len(t)
  <2>1. p \in 1..len /\ len \in Nat /\ (s \o t)[p] = t[i]
    <3>1. p \in 1..len /\ ~(p <= Len(s)) /\ p - Len(s) = i
      BY <1>4
    <3> QED
      BY <1>4, <3>1
  <2> HIDE DEF p, len
  <2>2. SubSeq(s \o t, 1, len)[p] = (s \o t)[p] /\ SubSeq(u, 1, len)[p] = u[p]
    <3>1. len <= Len(u) /\ len = Len(s \o t)
      BY <1>4, <1>5 DEF len
    <3> QED
      BY <1>1, <1>4, <2>1, <3>1
  <2> QED
    BY <1>5, <2>1, <2>2 DEF p, len
<1> QED
  BY <1>0, <1>1, <1>2, <1>4, <1>5, <1>6 DEF s, t, u, StandsIn

\* What has been read of b after k fields: all of them, or too much.
ReadTo(r, b, o, f, fields, v, k) ==
    /\ o + Len(f[k]) <= Len(b) =>
          \E m : /\ r[k] = Rec(b, o + Len(f[k]), m)
                 /\ \A j \in 1..k : fields[j] \in DOMAIN m /\ m[fields[j]] = v[j]
    /\ o + Len(f[k]) > Len(b) => r[k].ok = FALSE

\* A field is read as it was written.
ReadsOn(b, o, w, m, field, value) ==
    ReadField(Rec(b, o, m), field) = Rec(b, o + Len(w), With(m, field, value))

\* ReadFieldReads, for a reader anywhere in a blob.
LEMMA ReadFieldReadsOn ==
    ASSUME NEW R, NEW field, NEW value, NEW w, NEW B, NEW b, NEW o, NEW m,
           WellShaped(field, value, R), w = Written(field, value),
           b \in Seq(B), o \in Nat, Holds(b, o, w)
    PROVE  ReadsOn(b, o, w, m, field, value)
<1>1. ReadField(Rec(b, o, m), field) = Rec(b, o + Len(w), With(m, field, value))
  BY ONLY WellShaped(field, value, R), w = Written(field, value), o \in Nat,
          Holds(b, o, w), b \in Seq(B), ReadFieldReads
<1> QED
  BY <1>1 DEF ReadsOn

\* Fields are read as they were written, up to where the blob ends; a reader
\* that has met the end stays failed.
LEMMA FieldsRead ==
    ASSUME NEW R, NEW B, NEW n \in Nat, NEW fields, NEW v,
           \A i, j \in 1..n : fields[i] = fields[j] => i = j,
           \A j \in 1..n : WellShaped(fields[j], v[j], R),
           NEW W \in Seq(Seq(B)), n = Len(W),
           \A j \in 1..n : W[j] = Written(fields[j], v[j]),
           NEW f \in [0..n -> Seq(B)], Joins(f, W, n),
           NEW o \in Nat, NEW b \in Seq(B), o <= Len(b),
           \A i \in 1..Len(f[n]) : o + i <= Len(b) => b[o + i] = f[n][i],
           NEW start, NEW r, Reads(r, Rec(b, o, start), fields, n)
    PROVE  ReadTo(r, b, o, f, fields, v, n)
<1> DEFINE Good(k) == ReadTo(r, b, o, f, fields, v, k)
           Bad == {k \in 0..n : ~Good(k)}
<1>1. SUFFICES ASSUME Bad # {} PROVE FALSE
  OBVIOUS
<1>2. PICK k \in Bad : \A j \in Bad : k <= j
  <2>1. Bad \subseteq Nat
    OBVIOUS
  <2> HIDE DEF Bad
  <2> QED
    BY <1>1, <2>1, LeastOfNat
<1>3. k # 0
  <2>1. f[0] = <<>> /\ Len(f[0]) = 0
    BY DEF Joins
  <2>2. r[0] = Rec(b, o + Len(f[0]), start)
    BY <2>1 DEF Reads
  <2>3. o + Len(f[0]) <= Len(b) /\ Len(b) \in Nat
    BY <2>1
  <2>4. ReadTo(r, b, o, f, fields, v, 0)
    BY <2>2, <2>3 DEF ReadTo
  <2> QED
    BY <2>4
<1>4. k \in 1..n /\ k - 1 \in 0..n /\ ~(k <= k - 1)
  BY <1>3
<1>5. ReadTo(r, b, o, f, fields, v, k - 1)
  BY <1>2, <1>4
<1> DEFINE w == W[k]
           s == f[k - 1]
           a == o + Len(s)
           val == v[k]
           field == fields[k]
<1>6. /\ w \in Seq(B) /\ Len(s) \in Nat /\ Len(f[k]) = Len(s) + Len(w)
      /\ Len(f[k]) <= Len(f[n]) /\ \A i \in 1..Len(w) : f[n][Len(s) + i] = w[i]
      /\ f[n] \in Seq(B)
  <2>1. f \in [0..Len(W) -> Seq(B)] /\ Joins(f, W, Len(W)) /\ k \in 1..Len(W)
    BY <1>4
  <2>2. StandsIn(B, f, W, Len(W), k)
    BY ONLY <2>1, W \in Seq(Seq(B)), JoinsAt
  <2>3. f[n] \in Seq(B)
    BY ONLY n \in Nat, f \in [0..n -> Seq(B)]
  <2>4. StandsIn(B, f, W, n, k)
    BY <2>2
  <2> HIDE DEF Good, Bad
  <2> QED
    BY <2>3, <2>4 DEF StandsIn
<1>7. r[k] = ReadField(r[k - 1], field)
  BY <1>4 DEF Reads
<1>8. WellShaped(field, val, R) /\ w = Written(field, val)
  BY <1>4
<1>13. a \in Nat /\ Len(w) \in Nat
  <2> HIDE DEF w, s
  <2> QED
    BY <1>6
<1>9. a \in Nat /\ Len(w) \in Nat /\ a + Len(w) = o + Len(f[k])
  <2> HIDE DEF w, s
  <2> QED
    BY <1>6
<1>10. \A i \in 1..Len(w) : a + i <= Len(b) => b[a + i] = w[i]
  <2> SUFFICES ASSUME NEW i \in 1..Len(w), a + i <= Len(b) PROVE b[a + i] = w[i]
    OBVIOUS
  <2> DEFINE p == Len(s) + i
  <2>1. p \in 1..Len(f[n]) /\ a + i = o + p /\ f[n][p] = w[i]
    <3> HIDE DEF w, s
    <3> QED
      BY <1>6
  <2> HIDE DEF p, a, w
  <2>2. b[o + p] = f[n][p]
    BY <2>1
  <2> QED
    BY <2>1, <2>2
<1> HIDE DEF Good, Bad, w, s, val, field
<1>11. CASE a <= Len(b)
  <2>1. PICK m : /\ r[k - 1] = Rec(b, a, m)
                 /\ \A j \in 1..(k - 1) : fields[j] \in DOMAIN m /\ m[fields[j]] = v[j]
    BY <1>5, <1>11 DEF ReadTo, s
  <2> HIDE DEF a
  <2>2. CASE a + Len(w) <= Len(b)
    <3> DEFINE new == With(m, field, val)
    <3>1. \A i \in 1..Len(w) : b[a + i] = w[i]
      <4> SUFFICES ASSUME NEW i \in 1..Len(w) PROVE b[a + i] = w[i]
        OBVIOUS
      <4>1. a + i <= Len(b)
        BY <1>9, <2>2
      <4> QED
        BY <1>10, <4>1
    <3>6. Holds(b, a, w)
      BY <2>2, <3>1 DEF Holds
    <3>7. ReadField(Rec(b, a, m), field) = Rec(b, a + Len(w), With(m, field, val))
      <4>1. ReadsOn(b, a, w, m, field, val)
        BY ONLY <1>8, <1>13, <3>6, b \in Seq(B), ReadFieldReadsOn, Zenon
      <4> QED
        BY <4>1 DEF ReadsOn
    <3>2. ReadField(Rec(b, a, m), field) = Rec(b, a + Len(w), new)
      BY <3>7
    <3>3. r[k] = Rec(b, o + Len(f[k]), new)
      BY <1>7, <1>9, <2>1, <3>2
    <3>4. \A j \in 1..k : fields[j] \in DOMAIN new /\ new[fields[j]] = v[j]
      <4>1. /\ DOMAIN new = DOMAIN m \union {field} /\ new[field] = val
            /\ \A y \in DOMAIN m : y # field => new[y] = m[y]
        BY DEF With
      <4> HIDE DEF new
      <4> SUFFICES ASSUME NEW j \in 1..k PROVE fields[j] \in DOMAIN new /\ new[fields[j]] = v[j]
        OBVIOUS
      <4>2. CASE j = k
        BY <4>1, <4>2 DEF field, val
      <4>3. CASE j # k
        <5>1. j \in 1..(k - 1) /\ j \in 1..n
          BY <1>4, <4>3
        <5>2. fields[j] # field
          BY <1>4, <4>3, <5>1 DEF field
        <5> QED
          BY <2>1, <4>1, <5>1, <5>2
      <4> QED
        BY <4>2, <4>3
    <3>5. Good(k)
      <4>1. ~(o + Len(f[k]) > Len(b))
        BY <1>9, <2>2
      <4> HIDE DEF new
      <4> QED
        BY <3>3, <3>4, <4>1 DEF Good, ReadTo
    <3> QED
      BY <3>5 DEF Bad
  <2>3. CASE a + Len(w) > Len(b)
    <3>1. ReadField(Rec(b, a, m), field).ok = FALSE
      BY ONLY <1>8, <1>13, <1>10, <1>11, <2>3, b \in Seq(B), ReadFieldFails, ZenonT(60)
    <3>2. r[k].ok = FALSE /\ ~(o + Len(f[k]) <= Len(b))
      BY <1>7, <1>9, <2>1, <2>3, <3>1
    <3>3. Good(k)
      BY <3>2 DEF Good, ReadTo
    <3> QED
      BY <3>3 DEF Bad
  <2> QED
    BY <1>9, <2>2, <2>3
<1>12. CASE ~(a <= Len(b))
  <2>1. r[k - 1].ok = FALSE
    BY <1>5, <1>9, <1>12 DEF ReadTo, s
  <2>2. r[k] = r[k - 1]
    BY <1>7, <2>1 DEF ReadField
  <2>3. ~(o + Len(f[k]) <= Len(b))
    <3> HIDE DEF a
    <3> QED
      BY <1>9, <1>12
  <2>4. Good(k)
    BY <2>1, <2>2, <2>3 DEF Good, ReadTo
  <2> QED
    BY <2>4 DEF Bad
<1> QED
  BY <1>11, <1>12

\* Magic and version are read when they are there.
LEMMA HeadReads ==
    ASSUME NEW B, NEW b \in Seq(B), NEW head,
           head = FoldLeft(ReadField, Reader(b), <<"magic", "version">>)
    PROVE  /\ Len(b) < 2 => head.ok = FALSE
           /\ Len(b) >= 2 =>
                 \E m : head = Rec(b, 2, m) /\ m["magic"] = b[1] /\ m["version"] = b[2]
<1> DEFINE F == <<"magic", "version">>
           len == Len(b)
<1>1. Reader(b) = Rec(b, 0, <<>>) /\ len \in Nat
  BY DEF Reader, Rec
<1>2. /\ F \in Seq({"magic", "version"}) /\ 2 \in Nat /\ 2 = Len(F)
      /\ F[1] = "magic" /\ F[2] = "version"
  OBVIOUS
<1> HIDE DEF F
<1>3. \E r : Reads(r, Reader(b), F, 2) /\ r[2] = FoldLeft(ReadField, Reader(b), F)
  BY ONLY <1>2, FoldReads
<1>4. PICK r : Reads(r, Reader(b), F, 2) /\ r[2] = head
  BY <1>3 DEF F
<1>5. /\ r[0] = Rec(b, 0, <<>>) /\ r[1] = ReadField(r[0], "magic")
      /\ r[2] = ReadField(r[1], "version")
  <2>1. r[0] = Reader(b) /\ \A k \in 1..2 : r[k] = ReadField(r[k - 1], F[k])
    BY <1>4 DEF Reads
  <2>2. 1 \in 1..2 /\ 2 \in 1..2 /\ 1 - 1 = 0 /\ 2 - 1 = 1
    OBVIOUS
  <2>3. r[1] = ReadField(r[0], F[1]) /\ r[2] = ReadField(r[1], F[2])
    BY <2>1, <2>2
  <2> QED
    BY <1>1, <1>2, <2>1, <2>3
<1>6. Shape("magic") = "pod" /\ Shape("version") = "pod"
  BY DEF Shape
<1>7. \A field, value : Shape(field) = "pod" =>
         /\ WellShaped(field, value, B) /\ Written(field, value) = <<value>>
  BY WrittenPod DEF WellShaped
<1>8. ASSUME NEW field, Shape(field) = "pod", NEW o \in Nat, NEW m
      PROVE  /\ o + 1 <= len =>
                   ReadField(Rec(b, o, m), field) = Rec(b, o + 1, With(m, field, b[o + 1]))
             /\ o = len => ReadField(Rec(b, o, m), field).ok = FALSE
  <2> DEFINE value == b[o + 1]
             w == <<value>>
  <2>1. WellShaped(field, value, B) /\ w = Written(field, value)
    BY <1>7, <1>8
  <2>2. Len(w) = 1 /\ w[1] = value
    OBVIOUS
  <2>3. ASSUME o + 1 <= len PROVE Holds(b, o, w)
    BY <2>2, <2>3 DEF Holds
  <2>4. ASSUME o + 1 <= len
        PROVE  ReadField(Rec(b, o, m), field) = Rec(b, o + 1, With(m, field, b[o + 1]))
    <3>1. Holds(b, o, w)
      BY <2>3, <2>4
    <3> HIDE DEF w, value
    <3>2. ReadsOn(b, o, w, m, field, value)
      BY ONLY <2>1, <3>1, b \in Seq(B), o \in Nat, ReadFieldReadsOn, Zenon
    <3> QED
      BY <2>2, <3>2 DEF ReadsOn, value
  <2>5. ASSUME o = len PROVE ReadField(Rec(b, o, m), field).ok = FALSE
    <3>1. /\ o <= Len(b) /\ o + Len(w) > Len(b)
          /\ \A i \in 1..Len(w) : o + i <= Len(b) => b[o + i] = w[i]
      BY <1>1, <2>2, <2>5
    <3> HIDE DEF w, value
    <3> QED
      BY ONLY <2>1, <3>1, b \in Seq(B), o \in Nat, ReadFieldFails
  <2> QED
    BY <2>4, <2>5
<1> HIDE DEF len
<1>9. CASE len = 0
  <2>3. 0 = len /\ 0 \in Nat
    BY <1>9
  <2>4. ReadField(Rec(b, 0, <<>>), "magic").ok = FALSE
    BY ONLY <1>6, <1>8, <2>3
  <2>1. r[1].ok = FALSE
    BY <1>5, <2>4
  <2>2. r[2] = r[1]
    BY <1>5, <2>1 DEF ReadField
  <2> QED
    BY <1>4, <1>9, <2>1, <2>2 DEF len
<1>10. CASE len # 0
  <2>1. r[1] = Rec(b, 1, With(<<>>, "magic", b[1]))
    <3>1. 0 + 1 <= len /\ 0 \in Nat
      BY <1>1, <1>10
    <3>2. ReadField(Rec(b, 0, <<>>), "magic") = Rec(b, 0 + 1, With(<<>>, "magic", b[0 + 1]))
      BY ONLY <1>6, <1>8, <3>1
    <3> QED
      BY <1>5, <3>2
  <2> DEFINE m1 == With(<<>>, "magic", b[1])
  <2>2. "magic" \in DOMAIN m1 /\ m1["magic"] = b[1]
    BY DEF With
  <2> HIDE DEF m1
  <2>3. CASE len = 1
    <3>1. 1 = len /\ 1 \in Nat /\ r[1] = Rec(b, 1, m1)
      BY <2>1, <2>3 DEF m1
    <3>3. ReadField(Rec(b, 1, m1), "version").ok = FALSE
      BY ONLY <1>6, <1>8, <3>1
    <3>2. r[2].ok = FALSE
      BY <1>5, <3>1, <3>3
    <3> QED
      BY <1>4, <2>3, <3>2 DEF len
  <2>4. CASE len # 1
    <3>1. 1 + 1 <= len /\ 1 \in Nat /\ r[1] = Rec(b, 1, m1)
      BY <1>1, <1>10, <2>1, <2>4 DEF m1
    <3> DEFINE m2 == With(m1, "version", b[2])
    <3>5. ReadField(Rec(b, 1, m1), "version") = Rec(b, 1 + 1, With(m1, "version", b[1 + 1]))
      BY ONLY <1>6, <1>8, <3>1
    <3>2. r[2] = Rec(b, 2, m2)
      BY <1>5, <3>1, <3>5
    <3>3. m2["magic"] = b[1] /\ m2["version"] = b[2]
      BY <2>2 DEF With
    <3> HIDE DEF m2
    <3>4. ~(len < 2)
      BY <1>1, <3>1
    <3> QED
      BY <1>4, <3>2, <3>3, <3>4 DEF len
  <2> QED
    BY <2>3, <2>4
<1> QED
  BY <1>9, <1>10

\* A blob too short for magic and version is refused.
LEMMA ShortIsRefused ==
    ASSUME NEW B, NEW b \in Seq(B), Len(b) < 2, NEW magic
    PROVE  ReadAll(b, magic) = Refused
<1> DEFINE head == FoldLeft(ReadField, Reader(b), <<"magic", "version">>)
<1>1. head.ok = FALSE
  BY HeadReads
<1> QED
  BY <1>1 DEF ReadAll

\* What is read of a blob that should end after len items of fields.
IsRead(b, magic, fields, v, n, len) ==
    /\ Len(b) # 2 + len => ReadAll(b, magic) = Refused
    /\ Len(b) = 2 + len =>
          \A j \in 1..n : /\ fields[j] \in DOMAIN ReadAll(b, magic)
                          /\ ReadAll(b, magic)[fields[j]] = v[j]

\* What the blob holds after magic and version.
AgreesWith(b, s) == \A i \in 1..Len(s) : 2 + i <= Len(b) => b[2 + i] = s[i]

\* W is what is written of the fields v, and f joins it.
Writes(R, B, n, F, fields, v, W, f) ==
    /\ n \in Nat /\ fields \in Seq(F) /\ n = Len(fields)
    /\ \A i, j \in 1..n : fields[i] = fields[j] => i = j
    /\ \A j \in 1..n : WellShaped(fields[j], v[j], R)
    /\ W \in Seq(Seq(B)) /\ n = Len(W)
    /\ \A j \in 1..n : W[j] = Written(fields[j], v[j])
    /\ f \in [0..n -> Seq(B)] /\ Joins(f, W, n)

\* A blob that begins with the magic it is read for, of either version.
LEMMA AllReads ==
    ASSUME NEW R, NEW B, NEW n, NEW F, NEW fields, NEW v, NEW W, NEW f, NEW b,
           NEW magic, NEW version,
           Writes(R, B, n, F, fields, v, W, f),
           b \in Seq(B), 2 <= Len(b), b[1] = magic, b[2] = version,
           version \in {1, BLOB_VERSION},
           fields = IF magic = PCA_MAGIC THEN PcaReads(version) ELSE BtrReads(version),
           AgreesWith(b, f[n])
    PROVE  IsRead(b, magic, fields, v, n, Len(f[n]))
<1> DEFINE head == FoldLeft(ReadField, Reader(b), <<"magic", "version">>)
           len == Len(f[n])
<1>0. /\ n \in Nat /\ fields \in Seq(F) /\ n = Len(fields)
      /\ f \in [0..n -> Seq(B)]
  BY DEF Writes
<1>1. PICK m : head = Rec(b, 2, m) /\ m["magic"] = magic /\ m["version"] = version
  <2>1. Len(b) >= 2
    OBVIOUS
  <2> HIDE DEF head
  <2>2. \E m : head = Rec(b, 2, m) /\ m["magic"] = b[1] /\ m["version"] = b[2]
    <3>1. head = FoldLeft(ReadField, Reader(b), <<"magic", "version">>)
      BY DEF head
    <3> QED
      BY ONLY <2>1, <3>1, b \in Seq(B), HeadReads
  <2> QED
    BY <2>2
<1> DEFINE base == Rec(b, 2, m)
           whole == FoldLeft(ReadField, base, fields)
<1>2. ReadAll(b, magic) = IF whole.ok /\ Left(whole) = 0 THEN whole.model ELSE Refused
  <2>1. head.ok = TRUE /\ head.model = m
    BY <1>1 DEF Rec
  <2>2. fields = IF magic = PCA_MAGIC THEN PcaReads(head.model["version"])
                 ELSE BtrReads(head.model["version"])
    BY <1>1, <2>1
  <2>3. FoldLeft(ReadField, head, fields) = whole
    BY <1>1
  <2> HIDE DEF head, whole
  <2> QED
    BY <1>1, <2>1, <2>2, <2>3 DEF ReadAll, head
<1> HIDE DEF whole
<1>3. PICK r : Reads(r, base, fields, n) /\ r[n] = whole
  <2>1. \E r : Reads(r, base, fields, n) /\ r[n] = FoldLeft(ReadField, base, fields)
    <3> HIDE DEF base
    <3> QED
      BY ONLY <1>0, FoldReads
  <2> QED
    BY <2>1 DEF whole
<1>4. ReadTo(r, b, 2, f, fields, v, n)
  <2>1. 2 \in Nat /\ 2 <= Len(b)
    OBVIOUS
  <2>2. Reads(r, Rec(b, 2, m), fields, n)
    BY <1>3
  <2>3. \A i \in 1..Len(f[n]) : 2 + i <= Len(b) => b[2 + i] = f[n][i]
    BY DEF AgreesWith
  <2> QED
    <3>1. \A i, j \in 1..n : fields[i] = fields[j] => i = j
      BY DEF Writes
    <3>2. \A j \in 1..n : WellShaped(fields[j], v[j], R)
      BY DEF Writes
    <3>3. \A j \in 1..n : W[j] = Written(fields[j], v[j])
      BY DEF Writes
    <3>4. W \in Seq(Seq(B)) /\ n = Len(W) /\ Joins(f, W, n)
      BY DEF Writes
    <3> QED
      BY ONLY <1>0, <2>1, <2>2, <2>3, <3>1, <3>2, <3>3, <3>4, b \in Seq(B), FieldsRead
<1>5. len \in Nat /\ Len(b) \in Nat
  <2>1. f[n] \in Seq(B)
    BY ONLY <1>0
  <2> QED
    BY <2>1
<1> HIDE DEF len
<1>6. CASE 2 + len > Len(b)
  <2>1. whole.ok = FALSE
    BY <1>3, <1>4, <1>6 DEF ReadTo, len
  <2> QED
    BY <1>2, <1>5, <1>6, <2>1 DEF len, IsRead
<1>7. CASE 2 + len <= Len(b)
  <2>1. PICK model : /\ whole = Rec(b, 2 + len, model)
                     /\ \A j \in 1..n : fields[j] \in DOMAIN model /\ model[fields[j]] = v[j]
    BY <1>3, <1>4, <1>7 DEF ReadTo, len
  <2>2. whole.ok = TRUE /\ whole.model = model /\ Left(whole) = Len(b) - (2 + len)
    BY <2>1 DEF Rec, Left
  <2>3. CASE Len(b) = 2 + len
    <3>1. Left(whole) = 0
      BY <1>5, <2>2, <2>3
    <3>2. ReadAll(b, magic) = model
      BY <1>2, <2>2, <3>1
    <3> QED
      BY <2>1, <2>3, <3>2 DEF len, IsRead
  <2>4. CASE Len(b) # 2 + len
    <3>1. Left(whole) # 0
      BY <1>5, <2>2, <2>4
    <3> QED
      BY <1>2, <2>4, <3>1 DEF len, IsRead
  <2> QED
    BY <2>3, <2>4
<1> QED
  BY <1>5, <1>6, <1>7

\* What a blob holds: magic, version and what follows them.
BeginsWith(u, S, magic, version, t) ==
    /\ u \in Seq(S) /\ Len(t) \in Nat /\ Len(u) = 2 + Len(t)
    /\ u[1] = magic /\ u[2] = version
    /\ \A i \in 1..Len(t) : u[2 + i] = t[i]

\* It is so of two items and what is joined to them.
LEMMA BlobBeginsWith ==
    ASSUME NEW S, NEW magic, NEW version, NEW t, magic \in S, version \in S, t \in Seq(S)
    PROVE  BeginsWith(<<magic, version>> \o t, S, magic, version, t)
<1> DEFINE h == <<magic, version>>
           u == h \o t
<1>1. h \in Seq(S) /\ Len(h) = 2 /\ h[1] = magic /\ h[2] = version
  OBVIOUS
<1> HIDE DEF h
<1>8. Len(t) \in Nat
  BY ONLY t \in Seq(S)
<1>2. /\ h \o t \in Seq(S) /\ Len(h \o t) = Len(h) + Len(t)
      /\ \A i \in 1..(Len(h) + Len(t)) :
            (h \o t)[i] = IF i <= Len(h) THEN h[i] ELSE t[i - Len(h)]
  BY ONLY <1>1, t \in Seq(S), ConcatProperties
<1>3. /\ Len(u) = 2 + Len(t)
      /\ \A i \in 1..(2 + Len(t)) : u[i] = IF i <= 2 THEN h[i] ELSE t[i - 2]
  BY ONLY <1>1, <1>2
<1>4. Len(t) \in Nat /\ u \in Seq(S)
  BY <1>2, <1>8
<1> HIDE DEF u
<1>5. u[1] = h[1] /\ u[2] = h[2]
  BY ONLY <1>3, <1>4
<1>6. \A i \in 1..Len(t) : u[2 + i] = t[i]
  BY ONLY <1>3, <1>4
<1>7. BeginsWith(u, S, magic, version, t)
  BY <1>1, <1>3, <1>4, <1>5, <1>6 DEF BeginsWith
<1> QED
  BY <1>7 DEF u, h

\* The fields a reader expects after magic and version, none of them twice, each
\* with a value of its shape.
Layout(R, n, F, fields, v, magic, version) ==
    /\ version \in {1, BLOB_VERSION}
    /\ fields = IF magic = PCA_MAGIC THEN PcaReads(version) ELSE BtrReads(version)
    /\ n \in Nat /\ fields \in Seq(F) /\ n = Len(fields)
    /\ \A i, j \in 1..n : fields[i] = fields[j] => i = j
    /\ \A j \in 1..n : WellShaped(fields[j], v[j], R)

\* The blob in which they are written.
IsBlob(blob, fields, v, magic, version) ==
    blob = <<magic, version>> \o FlattenSeq([i \in DOMAIN fields |-> Written(fields[i], v[i])])

\* A blob that is refused by the reader its magic calls for, by both if it is
\* too short to have one.
IsRefused(b, magic) ==
    IF Len(b) >= 2 THEN b[1] = magic /\ ReadAll(b, magic) = Refused
                   ELSE \A any : ReadAll(b, any) = Refused

\* All that was written is read, and of nothing less or more.
ReadsWhole(blob, magic, fields, v, n) ==
    /\ Len(blob) >= 2 /\ blob[1] = magic
    /\ \A j \in 1..n : /\ fields[j] \in DOMAIN ReadAll(blob, magic)
                       /\ ReadAll(blob, magic)[fields[j]] = v[j]
    /\ \A k \in 0..Len(blob) - 1 : IsRefused(SubSeq(blob, 1, k), magic)
    /\ IsRefused(Append(blob, "more"), magic)

\* What is written of a field is a sequence of items.
LEMMA WrittenIsSequence ==
    ASSUME NEW R, NEW B, R \subseteq B, Nat \subseteq B,
           NEW field, NEW value \in B, WellShaped(field, value, R)
    PROVE  Written(field, value) \in Seq(B)
<1>1. CASE Shape(field) = "pod"
  <2>1. Written(field, value) = <<value>>
    BY <1>1, WrittenPod
  <2> QED
    BY <2>1
<1>2. CASE Shape(field) = "list"
  <2>1. Written(field, value) = <<Len(value)>> \o value
    BY <1>2 DEF Written
  <2>2. value \in Seq(R)
    BY <1>2 DEF WellShaped
  <2>3. Len(value) \in B /\ value \in Seq(B)
    BY <2>2
  <2>4. <<Len(value)>> \in Seq(B)
    BY <2>3
  <2> QED
    BY <2>1, <2>3, <2>4, ConcatProperties
<1>3. CASE Shape(field) = "matrix"
  <2>1. Written(field, value) = <<value.rows, value.cols>> \o value.entries
    BY <1>3 DEF Written
  <2>2. value.rows \in Nat /\ value.cols \in Nat /\ value.entries \in Seq(R)
    BY <1>3 DEF WellShaped
  <2>3. <<value.rows, value.cols>> \in Seq(B) /\ value.entries \in Seq(B)
    BY <2>2
  <2> QED
    BY <2>1, <2>3, ConcatProperties
<1> QED
  BY <1>1, <1>2, <1>3, ShapeIs

\* A blob is read as it was written, field by field, and no part of it is.
LEMMA BlobIsRead ==
    ASSUME NEW R, NEW n, NEW F, NEW fields, NEW v, NEW magic, NEW version, NEW blob,
           Layout(R, n, F, fields, v, magic, version),
           IsBlob(blob, fields, v, magic, version)
    PROVE  ReadsWhole(blob, magic, fields, v, n)
<1> DEFINE W == [i \in DOMAIN fields |-> Written(fields[i], v[i])]
           B == R \union Nat \union {v[j] : j \in 1..n} \union {magic, version, "more"}
<1>1. /\ n \in Nat /\ fields \in Seq(F) /\ n = Len(fields)
      /\ \A j \in 1..n : WellShaped(fields[j], v[j], R)
  BY DEF Layout
<1>2. DOMAIN fields = 1..n
  BY <1>1
<1>3. /\ R \subseteq B /\ Nat \subseteq B /\ (\A j \in 1..n : v[j] \in B)
      /\ magic \in B /\ version \in B /\ "more" \in B
  OBVIOUS
<1> HIDE DEF B
<1>4. \A j \in 1..n : Written(fields[j], v[j]) \in Seq(B)
  BY <1>1, <1>3, WrittenIsSequence
<1>5. W \in Seq(Seq(B)) /\ n = Len(W) /\ \A j \in 1..n : W[j] = Written(fields[j], v[j])
  BY <1>1, <1>2, <1>4
<1>6. blob = <<magic, version>> \o FlattenSeq(W)
  BY DEF IsBlob
<1> HIDE DEF W
<1>7. PICK f \in [0..n -> Seq(B)] : Joins(f, W, n) /\ FlattenSeq(W) = f[n]
  <2>1. PICK f \in [0..Len(W) -> Seq(B)] : Joins(f, W, Len(W))
    BY ONLY <1>5, JoinsExist
  <2>2. FlattenSeq(W) = f[Len(W)]
    BY <1>5, <2>1, FlattenIsLastJoin
  <2>3. f \in [0..n -> Seq(B)] /\ Joins(f, W, n) /\ FlattenSeq(W) = f[n]
    BY <1>5, <2>1, <2>2
  <2> QED
    BY <2>3
<1> DEFINE len == Len(f[n])
<1>8. /\ blob \in Seq(B) /\ len \in Nat /\ Len(blob) = 2 + len
      /\ blob[1] = magic /\ blob[2] = version
      /\ \A i \in 1..len : blob[2 + i] = f[n][i]
  <2>1. f[n] \in Seq(B)
    BY <1>1, <1>7
  <2>2. BeginsWith(<<magic, version>> \o f[n], B, magic, version, f[n])
    BY ONLY <1>3, <2>1, BlobBeginsWith
  <2>3. blob = <<magic, version>> \o f[n]
    BY <1>6, <1>7
  <2>4. BeginsWith(blob, B, magic, version, f[n])
    BY ONLY <2>2, <2>3
  <2> QED
    BY <2>4 DEF BeginsWith
<1> HIDE DEF len
<1>9. ASSUME NEW b \in Seq(B), 2 <= Len(b), b[1] = magic, b[2] = version,
             \A i \in 1..len : 2 + i <= Len(b) => b[2 + i] = f[n][i]
      PROVE  IsRead(b, magic, fields, v, n, len)
  <2>1. Writes(R, B, n, F, fields, v, W, f)
    BY <1>5, <1>7 DEF Writes, Layout
  <2>2. AgreesWith(b, f[n])
    BY <1>9 DEF len, AgreesWith
  <2>3. /\ version \in {1, BLOB_VERSION}
        /\ fields = IF magic = PCA_MAGIC THEN PcaReads(version) ELSE BtrReads(version)
    BY DEF Layout
  <2>4. IsRead(b, magic, fields, v, n, Len(f[n]))
    BY ONLY <1>9, <2>1, <2>2, <2>3, AllReads, Zenon
  <2> QED
    BY <2>4 DEF len
<1>10. \A j \in 1..n : /\ fields[j] \in DOMAIN ReadAll(blob, magic)
                       /\ ReadAll(blob, magic)[fields[j]] = v[j]
  <2>1. 2 <= Len(blob) /\ \A i \in 1..len : 2 + i <= Len(blob) => blob[2 + i] = f[n][i]
    BY <1>8
  <2>2. IsRead(blob, magic, fields, v, n, len)
    BY <1>8, <1>9, <2>1
  <2> QED
    BY <1>8, <2>2 DEF IsRead
<1>11. ASSUME NEW k \in 0..(Len(blob) - 1) PROVE IsRefused(SubSeq(blob, 1, k), magic)
  <2> DEFINE b == SubSeq(blob, 1, k)
  <2>1. /\ b \in Seq(B) /\ Len(b) = k /\ k \in Nat /\ k # 2 + len
        /\ \A i \in 1..k : b[i] = blob[i]
    <3>1. k \in Nat /\ k <= Len(blob) /\ k # 2 + len /\ Len(blob) \in Nat
      BY <1>8
    <3>2. \A i \in 1..k : i \in 1..Len(blob)
      BY <3>1
    <3>3. blob \in Seq(B)
      BY <1>8
    <3>4. b \in Seq(B) /\ Len(b) = k /\ \A i \in 1..k : b[i] = blob[i]
      BY ONLY <3>1, <3>2, <3>3, SMTT(30)
    <3> QED
      BY <3>1, <3>4
  <2> HIDE DEF b
  <2>2. CASE k < 2
    <3>1. Len(b) < 2 /\ ~(Len(b) >= 2)
      BY <2>1, <2>2
    <3>2. \A any : ReadAll(b, any) = Refused
      BY <2>1, <3>1, ShortIsRefused
    <3> QED
      BY <3>1, <3>2 DEF b, IsRefused
  <2>3. CASE ~(k < 2)
    <3>1. 1 \in 1..k /\ 2 \in 1..k /\ 2 <= k
      BY <2>1, <2>3
    <3>2. 2 <= Len(b) /\ b[1] = magic /\ b[2] = version
      BY <1>8, <2>1, <3>1
    <3>3. \A i \in 1..len : 2 + i <= Len(b) => b[2 + i] = f[n][i]
      BY <1>8, <2>1
    <3>4. IsRead(b, magic, fields, v, n, len)
      BY <1>9, <2>1, <3>2, <3>3
    <3>5. Len(b) >= 2 /\ ReadAll(b, magic) = Refused
      BY <2>1, <3>1, <3>4 DEF IsRead
    <3> QED
      BY <3>2, <3>5 DEF b, IsRefused
  <2> QED
    BY <2>2, <2>3
<1>12. IsRefused(Append(blob, "more"), magic)
  <2> DEFINE b == Append(blob, "more")
  <2>1. /\ b \in Seq(B) /\ Len(b) = Len(blob) + 1
        /\ \A i \in 1..Len(blob) : b[i] = blob[i]
    <3>1. blob \in Seq(B)
      BY <1>8
    <3> QED
      BY ONLY <1>3, <3>1, AppendProperties
  <2> HIDE DEF b
  <2>2. 2 <= Len(b) /\ b[1] = magic /\ b[2] = version /\ Len(b) # 2 + len
    <3>1. 1 \in 1..Len(blob) /\ 2 \in 1..Len(blob)
      BY <1>8
    <3>2. b[1] = magic /\ b[2] = version
      BY ONLY <1>8, <2>1, <3>1
    <3>3. 2 <= Len(b) /\ Len(b) # 2 + len
      BY ONLY <1>8, <2>1
    <3> QED
      BY <3>2, <3>3
  <2>3. \A i \in 1..len : 2 + i <= Len(b) => b[2 + i] = f[n][i]
    <3>1. \A i \in 1..len : 2 + i \in 1..Len(blob)
      BY <1>8
    <3> QED
      BY <1>8, <2>1, <3>1
  <2>4. IsRead(b, magic, fields, v, n, len)
    BY <1>9, <2>1, <2>2, <2>3
  <2>5. Len(b) >= 2 /\ ReadAll(b, magic) = Refused
    BY <1>8, <2>1, <2>2, <2>4 DEF IsRead
  <2> QED
    BY <2>2, <2>5 DEF b, IsRefused
<1>13. Len(blob) >= 2
  BY <1>8
<1> QED
  BY <1>8, <1>10, <1>11, <1>12, <1>13 DEF ReadsWhole

\* u is s, which has a items, and then t, which has b.
Parts(u, s, t, S, a, b) ==
    /\ u \in Seq(S) /\ Len(u) = a + b
    /\ \A i \in 1..a : u[i] = s[i]
    /\ \A i \in 1..b : u[a + i] = t[i]

LEMMA ConcatHasParts ==
    ASSUME NEW S, NEW s \in Seq(S), NEW t \in Seq(S), NEW a, a = Len(s), NEW b, b = Len(t)
    PROVE  Parts(s \o t, s, t, S, a, b)
<1>1. /\ s \o t \in Seq(S) /\ Len(s \o t) = Len(s) + Len(t)
      /\ \A i \in 1..(Len(s) + Len(t)) :
            (s \o t)[i] = IF i <= Len(s) THEN s[i] ELSE t[i - Len(s)]
  BY ConcatProperties
<1>2. a \in Nat /\ b \in Nat
  OBVIOUS
<1>3. \A i \in 1..a : (s \o t)[i] = s[i]
  BY <1>1, <1>2
<1>4. \A i \in 1..b : (s \o t)[a + i] = t[i]
  <2>1. \A i \in 1..b : a + i \in 1..(a + b) /\ ~(a + i <= a) /\ (a + i) - a = i
    BY <1>2
  <2> QED
    BY <1>1, <2>1
<1> QED
  BY <1>1, <1>3, <1>4 DEF Parts

\* A list that has the same parts is the same list.
LEMMA JoinedIs ==
    ASSUME NEW S, NEW s, NEW t, NEW a, NEW b, a \in Nat, b \in Nat,
           NEW u, NEW w, Parts(u, s, t, S, a, b), Parts(w, s, t, S, a, b)
    PROVE  u = w
<1>1. /\ u \in Seq(S) /\ Len(u) = a + b /\ w \in Seq(S) /\ Len(w) = a + b
      /\ \A i \in 1..a : u[i] = w[i]
      /\ \A i \in 1..b : u[a + i] = w[a + i]
  BY DEF Parts
<1>2. \A i \in 1..(a + b) : u[i] = w[i]
  <2> SUFFICES ASSUME NEW i \in 1..(a + b), ~(i <= a)
               PROVE  u[i] = w[i]
    BY <1>1
  <2>1. i - a \in 1..b /\ a + (i - a) = i
    OBVIOUS
  <2> QED
    BY <1>1, <2>1
<1>3. u = [i \in 1..(a + b) |-> u[i]] /\ w = [i \in 1..(a + b) |-> w[i]]
  BY <1>1
<1> QED
  BY <1>2, <1>3

\* The fields of a boosted tree, as written and as read.
LEMMA TreeFields ==
    /\ Len(BtrWrites) = 6
    /\ \A S : ({"model_type", "label", "booster_type", "max_iterations", "feature_names",
                "xgboost_model_blob"} \subseteq S) => BtrWrites \in Seq(S)
    /\ BtrWrites[1] = "model_type" /\ BtrWrites[2] = "label" /\ BtrWrites[3] = "booster_type"
    /\ BtrWrites[4] = "max_iterations" /\ BtrWrites[5] = "feature_names"
    /\ BtrWrites[6] = "xgboost_model_blob"
    /\ BtrReads(2) = BtrWrites
<1> DEFINE S == {"model_type", "label", "booster_type", "max_iterations", "feature_names",
                 "xgboost_model_blob"}
           h == BtrHead
           t == <<"xgboost_model_blob">>
<1>1. /\ h \in Seq(S) /\ Len(h) = 5
      /\ h[1] = "model_type" /\ h[2] = "label" /\ h[3] = "booster_type"
      /\ h[4] = "max_iterations" /\ h[5] = "feature_names"
  BY DEF BtrHead
<1>2. t \in Seq(S) /\ Len(t) = 1 /\ t[1] = "xgboost_model_blob"
  OBVIOUS
<1>4. BtrHead \o <<>> = BtrHead
  BY DEF BtrHead
<1>5. BtrReads(2) = h \o t
  BY <1>4 DEF BtrReads
<1>3. BtrWrites = h \o t
  <2> DEFINE w == BtrWrites
  <2>1. w \in Seq(S) /\ Len(w) = 6
    BY DEF BtrWrites
  <2>2. /\ w[1] = "model_type" /\ w[2] = "label" /\ w[3] = "booster_type"
        /\ w[4] = "max_iterations" /\ w[5] = "feature_names" /\ w[6] = "xgboost_model_blob"
    BY DEF BtrWrites
  <2>3. \A i \in 1..5 : i = 1 \/ i = 2 \/ i = 3 \/ i = 4 \/ i = 5
    OBVIOUS
  <2> HIDE DEF w, h, t, S
  <2>4. Parts(w, h, t, S, 5, 1)
    BY <1>1, <1>2, <2>1, <2>2, <2>3 DEF Parts
  <2>5. Parts(h \o t, h, t, S, 5, 1)
    BY ONLY <1>1, <1>2, ConcatHasParts
  <2>6. w = h \o t
    BY ONLY <2>4, <2>5, JoinedIs
  <2> QED
    BY <2>6 DEF w
<1> HIDE DEF S, h, t
<1>6. /\ h \o t \in Seq(S) /\ Len(h \o t) = Len(h) + Len(t)
      /\ \A i \in 1..(Len(h) + Len(t)) :
            (h \o t)[i] = IF i <= Len(h) THEN h[i] ELSE t[i - Len(h)]
  BY ONLY <1>1, <1>2, ConcatProperties
<1>7. /\ Len(h \o t) = 6
      /\ \A i \in 1..6 : (h \o t)[i] = IF i <= 5 THEN h[i] ELSE t[i - 5]
  BY ONLY <1>1, <1>2, <1>6
<1>8. /\ (h \o t)[1] = h[1] /\ (h \o t)[2] = h[2] /\ (h \o t)[3] = h[3] /\ (h \o t)[4] = h[4]
      /\ (h \o t)[5] = h[5] /\ (h \o t)[6] = t[1]
  BY ONLY <1>7
<1>9. \A Q : (S \subseteq Q) => h \o t \in Seq(Q)
  BY ONLY <1>6
<1> QED
  BY <1>1, <1>2, <1>3, <1>5, <1>7, <1>8, <1>9 DEF S

\* A model that was written is read back, and no blob that lost its end or grew.
THEOREM TreeIsRead ==
    ASSUME NEW R, NEW T,
           DOMAIN T = {"model_type", "label", "booster_type", "max_iterations",
                       "feature_names", "xgboost_model_blob"},
           T["model_type"] = "boosted_tree_regressor",
           T["feature_names"] \in Seq(R)
    PROVE  /\ ReadsBack(SerializeBoostedTreeRegressorModel(T), T)
           /\ RefusesDamage(SerializeBoostedTreeRegressorModel(T))
<1> DEFINE fields == BtrWrites
           v == [j \in 1..6 |-> T[fields[j]]]
           blob == SerializeBoostedTreeRegressorModel(T)
           read == ReadAll(blob, BTR_MAGIC)
<1>1. /\ fields \in Seq(DOMAIN T) /\ Len(fields) = 6 /\ DOMAIN fields = 1..6
      /\ fields[1] = "model_type" /\ fields[2] = "label" /\ fields[3] = "booster_type"
      /\ fields[4] = "max_iterations" /\ fields[5] = "feature_names"
      /\ fields[6] = "xgboost_model_blob"
  <2>1. fields \in Seq(DOMAIN T) /\ Len(fields) = 6
    BY TreeFields
  <2>2. DOMAIN fields = 1..6
    BY <2>1
  <2> QED
    BY <2>1, <2>2, TreeFields
<1>2. BLOB_VERSION = 2 /\ fields = IF BTR_MAGIC = PCA_MAGIC THEN PcaReads(2) ELSE BtrReads(2)
  BY TreeFields DEF BTR_MAGIC, PCA_MAGIC, BLOB_VERSION
<1>3. IsBlob(blob, fields, v, BTR_MAGIC, BLOB_VERSION)
  <2>1. [i \in DOMAIN fields |-> Written(fields[i], T[fields[i]])]
          = [i \in DOMAIN fields |-> Written(fields[i], v[i])]
    BY <1>1
  <2> QED
    BY <2>1 DEF IsBlob, SerializeBoostedTreeRegressorModel, WriteAll
<1> HIDE DEF fields
<1>4. \A i \in 1..6 : i = 1 \/ i = 2 \/ i = 3 \/ i = 4 \/ i = 5 \/ i = 6
  OBVIOUS
<1>5. \A i, j \in 1..6 : fields[i] = fields[j] => i = j
  BY <1>1, <1>4
<1>6. \A field \in DOMAIN T :
         Shape(field) = IF field = "feature_names" THEN "list" ELSE "pod"
  BY DEF Shape
<1>7. \A j \in 1..6 : fields[j] \in DOMAIN T /\ v[j] = T[fields[j]]
  BY <1>1
<1>8. \A j \in 1..6 : WellShaped(fields[j], v[j], R)
  BY <1>6, <1>7 DEF WellShaped
<1> HIDE DEF v, blob
<1>9. Layout(R, 6, DOMAIN T, fields, v, BTR_MAGIC, BLOB_VERSION)
  BY <1>1, <1>2, <1>5, <1>8 DEF Layout
<1>10. ReadsWhole(blob, BTR_MAGIC, fields, v, 6)
  BY ONLY <1>3, <1>9, BlobIsRead, Zenon
<1>11. \A y \in DOMAIN T : y \in DOMAIN read /\ read[y] = T[y]
  <2>1. \A y \in DOMAIN T : \E j \in 1..6 : y = fields[j]
    BY <1>1
  <2>2. \A j \in 1..6 : fields[j] \in DOMAIN read /\ read[fields[j]] = v[j]
    BY <1>10 DEF ReadsWhole
  <2> QED
    BY <1>7, <2>1, <2>2
<1>12. ASSUME NEW b
       PROVE  LoadModel(b) =
                IF Len(b) >= 2 /\ b[1] = BTR_MAGIC
                  THEN IF /\ ReadAll(b, BTR_MAGIC) # Refused
                          /\ ReadAll(b, BTR_MAGIC)["model_type"] # "boosted_tree_regressor"
                         THEN Refused ELSE ReadAll(b, BTR_MAGIC)
                  ELSE LoadModel(b)
  BY DEF LoadModel, IsBoostedTreeRegressorModelBlob, DeserializeBoostedTreeRegressorModel
<1>13. ReadsBack(blob, T)
  <2>1. LoadModel(blob) = read
    BY <1>10, <1>11, <1>12 DEF ReadsWhole
  <2>2. read # Refused
    <3>1. "model_type" \notin DOMAIN Refused
      BY DEF Refused
    <3> QED
      BY <1>11, <3>1
  <2> QED
    BY <1>11, <2>1, <2>2 DEF ReadsBack
<1>14. ASSUME NEW b, IsRefused(b, BTR_MAGIC) PROVE LoadModel(b) = Refused
  <2>1. CASE Len(b) >= 2
    BY <1>12, <1>14, <2>1 DEF IsRefused
  <2>2. CASE ~(Len(b) >= 2)
    BY <1>14, <2>2
    DEF IsRefused, LoadModel, IsBoostedTreeRegressorModelBlob, DeserializePcaModel
  <2> QED
    BY <2>1, <2>2
<1>15. RefusesDamage(blob)
  BY <1>10, <1>14 DEF ReadsWhole, RefusesDamage
<1> QED
  BY <1>13, <1>15 DEF blob

\* The fields of a principal component analysis, with the one that only
\* version 1 has, and the place of each of them.
PcaFields ==
    {"model_type", "whiten", "n_features", "n_components", "n_samples_seen", "feature_names",
     "mean", "var", "singular_values", "explained_variance", "explained_variance_ratio",
     "components"}

PlaceOf(field) ==
    CASE field = "model_type" -> 1
      [] field = "whiten" -> 2
      [] field = "n_features" -> 3
      [] field = "n_components" -> 4
      [] field = "n_samples_seen" -> 5
      [] field = "feature_names" -> 6
      [] field = "mean" -> 7
      [] field = "var" -> 8
      [] field = "singular_values" -> 9
      [] field = "explained_variance" -> 10
      [] field = "explained_variance_ratio" -> 11
      [] field = "components" -> 12
      [] OTHER -> 13

\* The head and the tail of them.
LEMMA PcaHeadAndTail ==
    /\ PcaHead \in Seq(PcaFields) /\ Len(PcaHead) = 5
    /\ \A i \in 1..5 : PlaceOf(PcaHead[i]) = i
    /\ PcaTail \in Seq(PcaFields) /\ Len(PcaTail) = 7
    /\ \A i \in 1..7 : PlaceOf(PcaTail[i]) = 5 + i
<1>1. PcaHead \in Seq(PcaFields) /\ Len(PcaHead) = 5
  BY DEF PcaHead, PcaFields
<1>2. PcaTail \in Seq(PcaFields) /\ Len(PcaTail) = 7
  BY DEF PcaTail, PcaFields
<1>3. \A i \in 1..5 : i = 1 \/ i = 2 \/ i = 3 \/ i = 4 \/ i = 5
  OBVIOUS
<1>4. \A i \in 1..7 : i = 1 \/ i = 2 \/ i = 3 \/ i = 4 \/ i = 5 \/ i = 6 \/ i = 7
  OBVIOUS
<1>5. /\ PcaHead[1] = "model_type" /\ PcaHead[2] = "whiten" /\ PcaHead[3] = "n_features"
      /\ PcaHead[4] = "n_components" /\ PcaHead[5] = "n_samples_seen"
  BY DEF PcaHead
<1>6. /\ PcaTail[1] = "feature_names" /\ PcaTail[2] = "mean" /\ PcaTail[3] = "var"
      /\ PcaTail[4] = "singular_values" /\ PcaTail[5] = "explained_variance"
      /\ PcaTail[6] = "explained_variance_ratio" /\ PcaTail[7] = "components"
  BY DEF PcaTail
<1>7. \A i \in 1..5 : PlaceOf(PcaHead[i]) = i
  BY <1>3, <1>5 DEF PlaceOf
<1>8. \A i \in 1..7 : PlaceOf(PcaTail[i]) = 5 + i
  BY <1>4, <1>6 DEF PlaceOf
<1> QED
  BY <1>1, <1>2, <1>7, <1>8

\* Every field of a PCA has its place, which is its own.
LEMMA PlacesArePcaFields ==
    /\ \A field \in PcaFields : PlaceOf(field) \in 1..12
    /\ \A f, g \in PcaFields : PlaceOf(f) = PlaceOf(g) => f = g
    /\ "old" \notin PcaFields
<1>1. /\ PlaceOf("model_type") = 1 /\ PlaceOf("whiten") = 2 /\ PlaceOf("n_features") = 3
      /\ PlaceOf("n_components") = 4 /\ PlaceOf("n_samples_seen") = 5
      /\ PlaceOf("feature_names") = 6
  BY DEF PlaceOf
<1>2. /\ PlaceOf("mean") = 7 /\ PlaceOf("var") = 8 /\ PlaceOf("singular_values") = 9
      /\ PlaceOf("explained_variance") = 10 /\ PlaceOf("explained_variance_ratio") = 11
      /\ PlaceOf("components") = 12
  BY DEF PlaceOf
<1>3. "old" \notin PcaFields
  BY DEF PcaFields
<1>4. \A field \in PcaFields : PlaceOf(field) \in 1..12
  BY <1>1, <1>2 DEF PcaFields
<1>5. \A f, g \in PcaFields : PlaceOf(f) = PlaceOf(g) => f = g
  BY <1>1, <1>2 DEF PcaFields
<1> QED
  BY <1>3, <1>4, <1>5

\* The fields are read in the order in which they are written, in version 1 with
\* the old one between the head and the tail.
PlacesIn(fields, version) ==
    /\ fields \in Seq(PcaFields \union {"old"})
    /\ Len(fields) = IF version = 1 THEN 13 ELSE 12
    /\ \A i \in 1..Len(fields) :
          IF version = 1 /\ i = 6 THEN fields[i] = "old"
          ELSE /\ fields[i] \in PcaFields
               /\ PlaceOf(fields[i]) = IF version = 1 /\ i > 6 THEN i - 1 ELSE i

\* What the writers of both versions write, by its parts.
LEMMA PcaWritten ==
    /\ PcaWrites \in Seq(PcaFields \union {"old"}) /\ Len(PcaWrites) = 12
    /\ \A i \in 1..5 : PcaWrites[i] = PcaHead[i]
    /\ \A i \in 1..7 : PcaWrites[5 + i] = PcaTail[i]
<1> DEFINE w == PcaWrites
<1>1. w \in Seq(PcaFields \union {"old"}) /\ Len(w) = 12
  BY DEF PcaWrites, PcaFields
<1>2. /\ w[1] = "model_type" /\ w[2] = "whiten" /\ w[3] = "n_features"
      /\ w[4] = "n_components" /\ w[5] = "n_samples_seen"
      /\ w[6] = "feature_names" /\ w[7] = "mean" /\ w[8] = "var"
      /\ w[9] = "singular_values" /\ w[10] = "explained_variance"
      /\ w[11] = "explained_variance_ratio" /\ w[12] = "components"
  BY DEF PcaWrites
<1>3. /\ PcaHead[1] = "model_type" /\ PcaHead[2] = "whiten"
      /\ PcaHead[3] = "n_features" /\ PcaHead[4] = "n_components"
      /\ PcaHead[5] = "n_samples_seen"
  BY DEF PcaHead
<1>4. /\ PcaTail[1] = "feature_names" /\ PcaTail[2] = "mean"
      /\ PcaTail[3] = "var" /\ PcaTail[4] = "singular_values"
      /\ PcaTail[5] = "explained_variance"
      /\ PcaTail[6] = "explained_variance_ratio" /\ PcaTail[7] = "components"
  BY DEF PcaTail
<1> HIDE DEF w
<1>5. \A i \in 1..5 : i = 1 \/ i = 2 \/ i = 3 \/ i = 4 \/ i = 5
  OBVIOUS
<1>6. \A i \in 1..7 : i = 1 \/ i = 2 \/ i = 3 \/ i = 4 \/ i = 5 \/ i = 6 \/ i = 7
  OBVIOUS
<1>7. \A i \in 1..5 : w[i] = PcaHead[i]
  BY <1>2, <1>3, <1>5
<1>8. \A i \in 1..7 : w[5 + i] = PcaTail[i]
  BY <1>2, <1>4, <1>6
<1> QED
  BY <1>1, <1>2, <1>7, <1>8 DEF w

LEMMA OldPcaWritten ==
    /\ OldPcaWrites \in Seq(PcaFields \union {"old"}) /\ Len(OldPcaWrites) = 13
    /\ \A i \in 1..5 : OldPcaWrites[i] = PcaHead[i]
    /\ OldPcaWrites[6] = "old"
    /\ \A i \in 1..7 : OldPcaWrites[6 + i] = PcaTail[i]
<1> DEFINE w == OldPcaWrites
<1>1. w \in Seq(PcaFields \union {"old"}) /\ Len(w) = 13
  BY DEF OldPcaWrites, PcaFields
<1>2. /\ w[1] = "model_type" /\ w[2] = "whiten" /\ w[3] = "n_features"
      /\ w[4] = "n_components" /\ w[5] = "n_samples_seen" /\ w[6] = "old"
      /\ w[7] = "feature_names" /\ w[8] = "mean" /\ w[9] = "var"
      /\ w[10] = "singular_values" /\ w[11] = "explained_variance"
      /\ w[12] = "explained_variance_ratio" /\ w[13] = "components"
  BY DEF OldPcaWrites
<1>3. /\ PcaHead[1] = "model_type" /\ PcaHead[2] = "whiten"
      /\ PcaHead[3] = "n_features" /\ PcaHead[4] = "n_components"
      /\ PcaHead[5] = "n_samples_seen"
  BY DEF PcaHead
<1>4. /\ PcaTail[1] = "feature_names" /\ PcaTail[2] = "mean"
      /\ PcaTail[3] = "var" /\ PcaTail[4] = "singular_values"
      /\ PcaTail[5] = "explained_variance"
      /\ PcaTail[6] = "explained_variance_ratio" /\ PcaTail[7] = "components"
  BY DEF PcaTail
<1> HIDE DEF w
<1>5. \A i \in 1..5 : i = 1 \/ i = 2 \/ i = 3 \/ i = 4 \/ i = 5
  OBVIOUS
<1>6. \A i \in 1..7 : i = 1 \/ i = 2 \/ i = 3 \/ i = 4 \/ i = 5 \/ i = 6 \/ i = 7
  OBVIOUS
<1>7. \A i \in 1..5 : w[i] = PcaHead[i]
  BY <1>2, <1>3, <1>5
<1>8. \A i \in 1..7 : w[6 + i] = PcaTail[i]
  BY <1>2, <1>4, <1>6
<1> QED
  BY <1>1, <1>2, <1>7, <1>8 DEF w

\* So the PCA reader expects them where the writer puts them.
LEMMA PcaReadsPlaces ==
    /\ PcaReads(2) = PcaWrites
    /\ PcaReads(1) = OldPcaWrites
    /\ PlacesIn(PcaReads(2), 2)
    /\ PlacesIn(PcaReads(1), 1)
<1> DEFINE S == PcaFields \union {"old"}
           h == PcaHead
           t == PcaTail
           m == <<"old">>
           g == h \o m
<1>1. /\ h \in Seq(PcaFields) /\ (\A i \in 1..5 : PlaceOf(h[i]) = i)
      /\ t \in Seq(PcaFields) /\ (\A i \in 1..7 : PlaceOf(t[i]) = 5 + i)
  BY PcaHeadAndTail
<1>2. h \in Seq(S) /\ Len(h) = 5 /\ t \in Seq(S) /\ Len(t) = 7
  BY PcaHeadAndTail
<1>3. m \in Seq(S) /\ Len(m) = 1 /\ m[1] = "old"
  OBVIOUS
<1>4. /\ \A i \in 1..5 : h[i] \in PcaFields
      /\ \A i \in 1..7 : t[i] \in PcaFields
  <2> HIDE DEF h, t
  <2> QED
    BY <1>1, <1>2, ElementOfSeq
<1>5. PcaHead \o <<>> = PcaHead
  BY DEF PcaHead
<1>6. PcaReads(2) = h \o t
  BY <1>5 DEF PcaReads
<1>7. PcaReads(1) = g \o t
  BY DEF PcaReads
<1> HIDE DEF S, h, t, m
<1>8. Parts(h \o t, h, t, S, 5, 7)
  BY ONLY <1>2, ConcatHasParts
<1>9. Parts(g, h, m, S, 5, 1)
  BY ONLY <1>2, <1>3, ConcatHasParts
<1>10. g \in Seq(S) /\ Len(g) = 6 /\ g[6] = "old" /\ \A i \in 1..5 : g[i] = h[i]
  BY ONLY <1>3, <1>9 DEF Parts
<1> HIDE DEF g
<1>11. Parts(g \o t, g, t, S, 6, 7)
  BY ONLY <1>2, <1>10, ConcatHasParts
<1>14. h \o t = PcaWrites
  <2>1. Parts(PcaWrites, h, t, S, 5, 7)
    BY PcaWritten DEF Parts, S, h, t
  <2> QED
    BY ONLY <1>8, <2>1, JoinedIs
<1>15. g \o t = OldPcaWrites
  <2> DEFINE w == OldPcaWrites
  <2>1. /\ w \in Seq(S) /\ Len(w) = 13 /\ w[6] = "old"
        /\ (\A i \in 1..5 : w[i] = h[i]) /\ (\A i \in 1..7 : w[6 + i] = t[i])
    BY OldPcaWritten DEF S, h, t
  <2> HIDE DEF w
  <2>2. \A i \in 1..6 : i \in 1..5 \/ i = 6
    OBVIOUS
  <2>3. \A i \in 1..6 : w[i] = g[i]
    BY <1>10, <2>1, <2>2
  <2>4. Parts(w, g, t, S, 6, 7)
    BY <2>1, <2>3 DEF Parts
  <2>5. g \o t = w
    BY ONLY <1>11, <2>4, JoinedIs
  <2> QED
    BY <2>5 DEF w
<1>12. PlacesIn(h \o t, 2)
  <2> DEFINE u == h \o t
  <2>0. Parts(u, h, t, S, 5, 7) /\ 5 + 7 = 12
    BY <1>8
  <2> HIDE DEF u
  <2>1. /\ Len(u) = 12 /\ u \in Seq(S)
        /\ (\A i \in 1..5 : u[i] = h[i]) /\ (\A i \in 1..7 : u[5 + i] = t[i])
    BY <2>0 DEF Parts
  <2>2. ASSUME NEW i \in 1..12
        PROVE  u[i] \in PcaFields /\ PlaceOf(u[i]) = i
    <3>1. CASE i <= 5
      <4>1. i \in 1..5 /\ u[i] = h[i]
        BY ONLY <2>1, <3>1, i \in 1..12
      <4> QED
        BY <1>1, <1>4, <4>1
    <3>2. CASE ~(i <= 5)
      <4>1. i - 5 \in 1..7 /\ 5 + (i - 5) = i
        BY ONLY <3>2, i \in 1..12
      <4>2. u[i] = t[i - 5]
        BY <2>1, <4>1
      <4> QED
        BY <1>1, <1>4, <4>1, <4>2
    <3> QED
      BY <3>1, <3>2
  <2>3. PlacesIn(u, 2)
    BY <2>1, <2>2 DEF PlacesIn, S
  <2> QED
    BY <2>3 DEF u
<1>13. PlacesIn(g \o t, 1)
  <2> DEFINE u == g \o t
  <2>0. Parts(u, g, t, S, 6, 7) /\ 6 + 7 = 13
    BY <1>11
  <2> HIDE DEF u
  <2>1. /\ Len(u) = 13 /\ u \in Seq(S)
        /\ (\A i \in 1..6 : u[i] = g[i]) /\ (\A i \in 1..7 : u[6 + i] = t[i])
    BY <2>0 DEF Parts
  <2>2. u[6] = "old"
    BY <1>10, <2>1
  <2>3. ASSUME NEW i \in 1..13, i # 6
        PROVE  u[i] \in PcaFields /\ PlaceOf(u[i]) = IF i > 6 THEN i - 1 ELSE i
    <3>1. CASE i < 6
      <4>1. i \in 1..5 /\ i \in 1..6 /\ ~(i > 6)
        BY ONLY <3>1, i \in 1..13
      <4>2. u[i] = h[i]
        BY <1>10, <2>1, <4>1
      <4> QED
        BY <1>1, <1>4, <4>1, <4>2
    <3>2. CASE i > 6
      <4>1. i - 6 \in 1..7 /\ 6 + (i - 6) = i /\ 5 + (i - 6) = i - 1
        BY ONLY <3>2, i \in 1..13
      <4>2. u[i] = t[i - 6]
        BY <2>1, <4>1
      <4> QED
        BY <1>1, <1>4, <3>2, <4>1, <4>2
    <3> QED
      BY <2>3, <3>1, <3>2
  <2>4. PlacesIn(u, 1)
    BY <2>1, <2>2, <2>3 DEF PlacesIn, S
  <2> QED
    BY <2>4 DEF u
<1> QED
  BY <1>6, <1>7, <1>12, <1>13, <1>14, <1>15

\* A model whose fields have the shapes that the formats give them.
IsPcaModel(T, R) ==
    /\ DOMAIN T = PcaFields
    /\ T["model_type"] = "pca"
    /\ \A field \in PcaFields : WellShaped(field, T[field], R)

\* What the fields of a model are, and the one it does not have.
ValueOf(T, field) == IF field = "old" THEN "old" ELSE T[field]

\* A PCA that was written is read back, also one of an older release, and no
\* blob of it that lost its end or grew.
THEOREM PcaIsRead ==
    ASSUME NEW R, NEW T, IsPcaModel(T, R),
           NEW blob \in {SerializePcaModel(T), OldPcaBlob(T)}
    PROVE  ReadsBack(blob, T) /\ RefusesDamage(blob)
<1>1. PICK version \in {1, 2} :
        blob = IF version = 1 THEN OldPcaBlob(T) ELSE SerializePcaModel(T)
  OBVIOUS
<1> DEFINE fields == PcaReads(version)
           n == Len(fields)
           v == [j \in 1..n |-> ValueOf(T, fields[j])]
           read == ReadAll(blob, PCA_MAGIC)
<1>2. /\ PlacesIn(fields, version)
      /\ PcaReads(2) = PcaWrites /\ PcaReads(1) = OldPcaWrites /\ BLOB_VERSION = 2
  BY PcaReadsPlaces DEF BLOB_VERSION
<1> HIDE DEF fields
<1>3. fields \in Seq(PcaFields \union {"old"}) /\ n \in Nat /\ DOMAIN fields = 1..n
  <2>1. fields \in Seq(PcaFields \union {"old"})
    BY <1>2 DEF PlacesIn
  <2> QED
    BY <2>1
<1>4. IsBlob(blob, fields, v, PCA_MAGIC, version)
  <2>1. \A i \in DOMAIN fields : v[i] = ValueOf(T, fields[i])
    BY <1>3
  <2> HIDE DEF v
  <2>2. CASE version = 1
    <3>1. fields = OldPcaWrites
      BY <1>2, <2>2 DEF fields
    <3>2. [i \in DOMAIN fields |->
              Written(fields[i], IF fields[i] = "old" THEN "old" ELSE T[fields[i]])]
            = [i \in DOMAIN fields |-> Written(fields[i], v[i])]
      BY <2>1 DEF ValueOf
    <3> QED
      BY <1>1, <2>2, <3>1, <3>2, Zenon DEF OldPcaBlob, IsBlob
  <2>3. CASE version = 2
    <3>1. \A i \in DOMAIN fields : fields[i] # "old"
      BY <1>2, <1>3, <2>3, PlacesArePcaFields DEF PlacesIn
    <3>2. fields = PcaWrites
      BY <1>2, <2>3 DEF fields
    <3>3. [i \in DOMAIN fields |-> Written(fields[i], T[fields[i]])]
            = [i \in DOMAIN fields |-> Written(fields[i], v[i])]
      BY <2>1, <3>1 DEF ValueOf
    <3>4. blob = SerializePcaModel(T) /\ BLOB_VERSION = version
      BY <1>1, <1>2, <2>3
    <3> QED
      BY <3>2, <3>3, <3>4, Zenon DEF SerializePcaModel, WriteAll, IsBlob
  <2> QED
    BY <2>2, <2>3
<1> HIDE DEF n
<1>5. /\ fields \in Seq(PcaFields \union {"old"}) /\ n = Len(fields)
      /\ n = IF version = 1 THEN 13 ELSE 12
      /\ \A i \in 1..n : fields[i] \in PcaFields \union {"old"}
  <2>1. n = Len(fields) /\ n = IF version = 1 THEN 13 ELSE 12
    BY <1>2 DEF PlacesIn, n
  <2> QED
    BY <1>3, <2>1, ElementOfSeq
<1>6. \A i, j \in 1..n : fields[i] = fields[j] => i = j
  <2>1. \A i \in 1..n :
          IF version = 1 /\ i = 6 THEN fields[i] = "old"
          ELSE /\ fields[i] \in PcaFields
               /\ PlaceOf(fields[i]) = IF version = 1 /\ i > 6 THEN i - 1 ELSE i
    BY <1>2, <1>5 DEF PlacesIn
  <2> SUFFICES ASSUME NEW i \in 1..n, NEW j \in 1..n, fields[i] = fields[j] PROVE i = j
    OBVIOUS
  <2>2. i \in Int /\ j \in Int
    BY <1>5
  <2>3. CASE version = 1 /\ (i = 6 \/ j = 6)
    BY <2>1, <2>3, PlacesArePcaFields
  <2>4. CASE ~(version = 1 /\ (i = 6 \/ j = 6))
    <3>1. (IF version = 1 /\ i > 6 THEN i - 1 ELSE i) = (IF version = 1 /\ j > 6 THEN j - 1 ELSE j)
      BY <2>1, <2>4
    <3> QED
      BY <2>2, <2>4, <3>1
  <2> QED
    BY <2>3, <2>4
<1>7. \A j \in 1..n : WellShaped(fields[j], v[j], R)
  <2>1. Shape("old") = "pod"
    BY DEF Shape
  <2>2. WellShaped("old", "old", R)
    BY <2>1 DEF WellShaped
  <2> QED
    BY <1>5, <2>2, PlacesArePcaFields DEF ValueOf, IsPcaModel
<1>8. \A y \in PcaFields : \E j \in 1..n : y = fields[j]
  <2> SUFFICES ASSUME NEW y \in PcaFields PROVE \E j \in 1..n : y = fields[j]
    OBVIOUS
  <2> DEFINE p == PlaceOf(y)
             j == IF version = 1 /\ p > 5 THEN p + 1 ELSE p
  <2>1. p \in 1..12
    BY PlacesArePcaFields
  <2> HIDE DEF p
  <2>2. j \in 1..n /\ ~(version = 1 /\ j = 6) /\ p = IF version = 1 /\ j > 6 THEN j - 1 ELSE j
    BY <1>5, <2>1
  <2>3. fields[j] \in PcaFields /\ PlaceOf(fields[j]) = p
    BY <1>2, <1>5, <2>2 DEF PlacesIn
  <2>4. fields[j] = y
    BY <2>3, PlacesArePcaFields DEF p
  <2> QED
    BY <2>2, <2>4
<1>9. \A j \in 1..n : fields[j] \in PcaFields => v[j] = T[fields[j]]
  BY PlacesArePcaFields DEF ValueOf
<1> HIDE DEF v
<1>10. Layout(R, n, PcaFields \union {"old"}, fields, v, PCA_MAGIC, version)
  <2>1. fields = PcaReads(version) /\ version \in {1, BLOB_VERSION} /\ n \in Nat
    BY <1>2, <1>5 DEF fields
  <2> QED
    BY <1>5, <1>6, <1>7, <2>1 DEF Layout
<1>11. ReadsWhole(blob, PCA_MAGIC, fields, v, n)
  BY ONLY <1>4, <1>10, BlobIsRead, Zenon
<1>12. \A y \in PcaFields : y \in DOMAIN read /\ read[y] = T[y]
  <2>1. \A j \in 1..n : fields[j] \in DOMAIN read /\ read[fields[j]] = v[j]
    BY <1>11 DEF ReadsWhole
  <2> QED
    BY <1>8, <1>9, <2>1
<1> HIDE DEF read
<1>13. ASSUME NEW b, Len(b) >= 2 => b[1] = PCA_MAGIC
       PROVE  LoadModel(b) =
                IF /\ ReadAll(b, PCA_MAGIC) # Refused
                   /\ ReadAll(b, PCA_MAGIC)["model_type"] # "pca"
                  THEN Refused ELSE ReadAll(b, PCA_MAGIC)
  <2>1. ~IsBoostedTreeRegressorModelBlob(b)
    BY <1>13 DEF IsBoostedTreeRegressorModelBlob, PCA_MAGIC, BTR_MAGIC
  <2> QED
    BY <2>1 DEF LoadModel, DeserializePcaModel
<1>14. ReadsBack(blob, T)
  <2>1. "model_type" \in PcaFields /\ T["model_type"] = "pca" /\ DOMAIN T = PcaFields
    BY DEF PcaFields, IsPcaModel
  <2>2. LoadModel(blob) = read
    <3>1. blob[1] = PCA_MAGIC
      BY <1>11 DEF ReadsWhole
    <3>2. read["model_type"] = "pca"
      BY <1>12, <2>1
    <3> QED
      BY <1>13, <3>1, <3>2 DEF read
  <2>3. read # Refused
    <3>1. "model_type" \notin DOMAIN Refused
      BY DEF Refused
    <3> QED
      BY <1>12, <2>1, <3>1
  <2> QED
    BY <1>12, <2>1, <2>2, <2>3 DEF ReadsBack
<1>15. ASSUME NEW b, IsRefused(b, PCA_MAGIC) PROVE LoadModel(b) = Refused
  BY <1>13, <1>15 DEF IsRefused
<1>16. RefusesDamage(blob)
  BY <1>11, <1>15 DEF ReadsWhole, RefusesDamage
<1> QED
  BY <1>14, <1>16

=============================================================================
