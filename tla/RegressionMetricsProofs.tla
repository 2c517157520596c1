---------------------- MODULE RegressionMetricsProofs ----------------------
(***************************************************************************)
(* RegressionMetrics for every set of values, reservoir capacity and bound *)
(* on the rows: the counters agree with the rows, the reservoir holds      *)
(* min(rows, capacity) absolute errors, each of a row of its own, the      *)
(* median of a sample that holds every error splits them in half, and the  *)
(* scores of the running sums are those of a mean and its deviations.      *)
(***************************************************************************)
EXTENDS RegressionMetrics, SequenceTheorems, FiniteSetTheorems, WellFoundedInduction, TLAPS

\* What one row can be.
RowType == [pred : Values, label : Values]

\* The counters count the rows, and the reservoir's places hold errors of rows.
ReservoirInv ==
    /\ rows \in Seq(RowType)
    /\ n = Len(rows)
    /\ seen = Len(rows)
    /\ sample \in Seq(Nat)
    /\ Len(sample) = (IF Len(rows) < SampleCap THEN Len(rows) ELSE SampleCap)
    /\ \A i \in DOMAIN sample : \E j \in DOMAIN rows : sample[i] = AbsErr(rows[j])

\* An absolute error is a natural number.
LEMMA AbsErrType ==
    ASSUME NEW row \in RowType
    PROVE  AbsErr(row) \in Nat
<1>1. row.label \in Int /\ row.pred \in Int
  BY ValuesAssumption DEF RowType
<1> QED
  BY <1>1 DEF AbsErr, Abs, Err

\* Update appends one row whatever it does to the reservoir.
LEMMA UpdateAppends ==
    ASSUME ReservoirInv, NEW row \in RowType, Update(row)
    PROVE  /\ rows' \in Seq(RowType)
           /\ Len(rows') = Len(rows) + 1
           /\ \A j \in DOMAIN rows : j \in DOMAIN rows' /\ rows'[j] = rows[j]
           /\ Len(rows') \in DOMAIN rows' /\ rows'[Len(rows')] = row
BY DEF ReservoirInv, Update

\* Update keeps the reservoir a bounded selection of the errors seen.
LEMMA ReservoirStep ==
    ASSUME ReservoirInv, NEW row \in RowType, Update(row)
    PROVE  ReservoirInv'
<1> DEFINE e == AbsErr(row)
<1>1. e \in Nat
  BY AbsErrType
<1>2. /\ rows' \in Seq(RowType) /\ Len(rows') = Len(rows) + 1 /\ Len(rows) \in Nat
      /\ \A j \in DOMAIN rows : j \in DOMAIN rows' /\ rows'[j] = rows[j]
      /\ Len(rows') \in DOMAIN rows' /\ rows'[Len(rows')] = row
  BY UpdateAppends DEF ReservoirInv
<1>3. n' = Len(rows') /\ seen' = Len(rows')
  BY <1>2 DEF ReservoirInv, Update
<1> HIDE DEF e
<1>4. CASE KeepErr(e)
  <2>1. sample' = Append(sample, e) /\ Len(sample) < SampleCap
    BY <1>4 DEF KeepErr, HasRoom
  <2>2. sample' \in Seq(Nat) /\ Len(sample') = Len(sample) + 1
    BY <1>1, <2>1 DEF ReservoirInv
  <2>3. Len(sample') = (IF Len(rows') < SampleCap THEN Len(rows') ELSE SampleCap)
    BY <1>2, <2>1, <2>2, SampleCapAssumption DEF ReservoirInv
  <2>4. \A i \in DOMAIN sample' : \E j \in DOMAIN rows' : sample'[i] = AbsErr(rows'[j])
    <3> SUFFICES ASSUME NEW i \in DOMAIN sample'
                 PROVE  \E j \in DOMAIN rows' : sample'[i] = AbsErr(rows'[j])
      OBVIOUS
    <3>1. CASE i \in DOMAIN sample
      <4>1. sample'[i] = sample[i]
        BY <1>1, <2>1, <3>1 DEF ReservoirInv
      <4> QED
        BY <1>2, <3>1, <4>1 DEF ReservoirInv
    <3>2. CASE i \notin DOMAIN sample
      <4>1. sample'[i] = e
        BY <1>1, <2>1, <2>2, <3>2 DEF ReservoirInv
      <4> QED
        BY <1>2, <4>1 DEF e
    <3> QED
      BY <3>1, <3>2
  <2> QED
    BY <1>2, <1>3, <2>2, <2>3, <2>4 DEF ReservoirInv
<1>5. CASE ReplaceErr(e)
  <2>1. Len(sample) = SampleCap /\ Len(rows) >= SampleCap
    BY <1>2, <1>5, SampleCapAssumption DEF ReplaceErr, HasRoom, ReservoirInv
  <2>2. PICK place \in 1..(seen + 1) :
          sample' = IF place <= SampleCap THEN [sample EXCEPT ![place] = e] ELSE sample
    BY <1>5 DEF ReplaceErr
  <2>3. sample' \in Seq(Nat) /\ Len(sample') = Len(sample) /\ DOMAIN sample' = DOMAIN sample
    <3>1. sample \in Seq(Nat)
      BY DEF ReservoirInv
    <3>2. CASE place <= SampleCap
      <4>1. sample' = [sample EXCEPT ![place] = e] /\ place \in 1..Len(sample)
        BY <2>1, <2>2, <3>2, SampleCapAssumption DEF ReservoirInv
      <4> QED
        BY <1>1, <3>1, <4>1, ExceptSeq
    <3>3. CASE ~(place <= SampleCap)
      BY <2>2, <3>1, <3>3
    <3> QED
      BY <3>2, <3>3
  <2>4. \A i \in DOMAIN sample : sample'[i] = sample[i] \/ sample'[i] = e
    BY <2>2 DEF ReservoirInv
  <2>5. \A i \in DOMAIN sample' : \E j \in DOMAIN rows' : sample'[i] = AbsErr(rows'[j])
    <3> SUFFICES ASSUME NEW i \in DOMAIN sample
                 PROVE  \E j \in DOMAIN rows' : sample'[i] = AbsErr(rows'[j])
      BY <2>3
    <3>1. CASE sample'[i] = sample[i]
      BY <1>2, <3>1 DEF ReservoirInv
    <3>2. CASE sample'[i] = e
      BY <1>2, <3>2 DEF e
    <3> QED
      BY <2>4, <3>1, <3>2
  <2>6. Len(sample') = (IF Len(rows') < SampleCap THEN Len(rows') ELSE SampleCap)
    BY <1>2, <2>1, <2>3, SampleCapAssumption
  <2> QED
    BY <1>2, <1>3, <2>3, <2>5, <2>6 DEF ReservoirInv
<1> QED
  BY <1>4, <1>5 DEF Update, e

\* The counters count the rows, and the reservoir is full of real errors: it
\* never grows past its capacity and never holds a value no row produced.
THEOREM ReservoirCorrect == Spec => []ReservoirInv
<1>1. Init => ReservoirInv
  BY SampleCapAssumption DEF Init, ReservoirInv
<1>2. ReservoirInv /\ [Next]_vars => ReservoirInv'
  <2> SUFFICES ASSUME ReservoirInv, [Next]_vars
               PROVE  ReservoirInv'
    OBVIOUS
  <2>1. CASE UNCHANGED vars
    BY <2>1 DEF vars, ReservoirInv
  <2>2. CASE Next
    <3>1. PICK p \in Values, l \in Values : Update([pred |-> p, label |-> l])
      BY <2>2 DEF Next
    <3> QED
      BY <3>1, ReservoirStep DEF RowType
  <2> QED
    BY <2>1, <2>2
<1> QED
  BY <1>1, <1>2, PTL DEF Spec

\* While the rows fit the reservoir, it holds the errors of all of them, in order.
SampleIsExact == Len(rows) <= SampleCap => sample = Errors

\* Until the rows outnumber the capacity the median is taken over every error.
LEMMA SampleExactWhileItFits == Spec => []SampleIsExact
<1>1. Init => SampleIsExact
  BY DEF Init, SampleIsExact, Errors
<1>2. ReservoirInv /\ SampleIsExact /\ [Next]_vars => SampleIsExact'
  <2> SUFFICES ASSUME ReservoirInv, SampleIsExact, [Next]_vars, Len(rows') <= SampleCap
               PROVE  sample' = Errors'
    BY DEF SampleIsExact
  <2>1. CASE UNCHANGED vars
    BY <2>1 DEF vars, SampleIsExact, Errors
  <2>2. CASE Next
    <3>1. PICK p \in Values, l \in Values : Update([pred |-> p, label |-> l])
      BY <2>2 DEF Next
    <3> DEFINE row == [pred |-> p, label |-> l]
               e == AbsErr(row)
    <3>2. row \in RowType /\ e \in Nat
      BY AbsErrType DEF RowType
    <3>3. /\ rows' \in Seq(RowType) /\ Len(rows') = Len(rows) + 1 /\ Len(rows) \in Nat
          /\ rows' = Append(rows, row)
      BY <3>1, <3>2, UpdateAppends DEF ReservoirInv, Update
    <3>4. sample = Errors /\ Len(sample) = Len(rows) /\ Len(rows) < SampleCap
      BY <3>3, SampleCapAssumption DEF SampleIsExact, ReservoirInv
    <3>5. sample' = Append(sample, e)
      BY <3>1, <3>4 DEF Update, KeepErr, ReplaceErr, HasRoom
    <3> HIDE DEF row, e
    <3>6. sample \in Seq(Nat) /\ rows \in Seq(RowType)
      BY DEF ReservoirInv
    <3>7. DOMAIN sample' = DOMAIN rows'
      BY <3>2, <3>3, <3>4, <3>5, <3>6
    <3>8. \A i \in DOMAIN rows' : sample'[i] = AbsErr(rows'[i])
      <4> SUFFICES ASSUME NEW i \in DOMAIN rows'
                   PROVE  sample'[i] = AbsErr(rows'[i])
        OBVIOUS
      <4>1. CASE i = Len(rows) + 1
        <5>1. sample'[i] = e
          BY <3>2, <3>4, <3>5, <3>6, <4>1
        <5>2. rows'[i] = row
          BY <3>2, <3>3, <3>6, <4>1
        <5> QED
          BY <5>1, <5>2 DEF e
      <4>2. CASE i # Len(rows) + 1
        <5>1. i \in DOMAIN rows
          BY <3>3, <3>6, <4>2
        <5>2. sample'[i] = sample[i] /\ rows'[i] = rows[i]
          BY <3>2, <3>3, <3>4, <3>5, <3>6, <5>1
        <5> QED
          BY <3>4, <5>1, <5>2 DEF Errors
      <4> QED
        BY <4>1, <4>2
    <3>9. sample' = [i \in DOMAIN sample' |-> sample'[i]]
      <4>1. sample' \in Seq(Nat)
        BY <3>2, <3>5, <3>6
      <4>2. sample' \in [1..Len(sample') -> Nat]
        BY <4>1, LenProperties
      <4> QED
        BY <4>2
    <3> QED
      BY <3>7, <3>8, <3>9 DEF Errors
  <2> QED
    BY <2>1, <2>2
<1> QED
  BY <1>1, <1>2, ReservoirCorrect, PTL DEF Spec

-----------------------------------------------------------------------------
\* Each place of the reservoir holds the error of a row of its own.
HasOrigins ==
    \E o \in [DOMAIN sample -> DOMAIN rows] :
        /\ \A i, j \in DOMAIN sample : o[i] = o[j] => i = j
        /\ \A i \in DOMAIN sample : sample[i] = AbsErr(rows[o[i]])

\* A row that comes takes a place of its own or one that a row leaves.
LEMMA OriginsStep ==
    ASSUME ReservoirInv, HasOrigins, NEW row \in RowType, Update(row)
    PROVE  HasOrigins'
<1> DEFINE e == AbsErr(row)
           new == Len(rows) + 1
<1>1. e \in Nat
  BY AbsErrType
<1>2. /\ rows' \in Seq(RowType) /\ Len(rows') = new /\ Len(rows) \in Nat
      /\ rows \in Seq(RowType) /\ DOMAIN rows = 1..Len(rows) /\ DOMAIN rows' = 1..new
      /\ \A j \in DOMAIN rows : j \in DOMAIN rows' /\ rows'[j] = rows[j]
      /\ new \in DOMAIN rows' /\ rows'[new] = row
  BY UpdateAppends DEF ReservoirInv
<1>3. PICK o \in [DOMAIN sample -> DOMAIN rows] :
         /\ \A i, j \in DOMAIN sample : o[i] = o[j] => i = j
         /\ \A i \in DOMAIN sample : sample[i] = AbsErr(rows[o[i]])
  BY DEF HasOrigins
<1>4. sample \in Seq(Nat) /\ DOMAIN sample = 1..Len(sample) /\ Len(sample) \in Nat
  BY DEF ReservoirInv
<1>5. KeepErr(e) \/ ReplaceErr(e)
  BY DEF Update
<1> HIDE DEF e, new
<1>6. \E place : /\ DOMAIN sample' \subseteq DOMAIN sample \union {place}
                 /\ place \in DOMAIN sample' => sample'[place] = e
                 /\ \A i \in DOMAIN sample' \ {place} : sample'[i] = sample[i]
  <2>1. CASE KeepErr(e)
    <3>1. sample' = Append(sample, e)
      BY <2>1 DEF KeepErr
    <3> DEFINE place == Len(sample) + 1
    <3>2. /\ DOMAIN sample' = 1..place /\ sample'[place] = e
          /\ \A i \in 1..Len(sample) : sample'[i] = sample[i]
      BY <1>1, <1>4, <3>1
    <3>3. DOMAIN sample' \subseteq DOMAIN sample \union {place}
      BY <1>4, <3>2
    <3> HIDE DEF place
    <3> QED
      BY <1>4, <3>2, <3>3
  <2>2. CASE ReplaceErr(e)
    <3>1. PICK place \in 1..(seen + 1) :
            sample' = IF place <= SampleCap THEN [sample EXCEPT ![place] = e] ELSE sample
      BY <2>2 DEF ReplaceErr
    <3>2. CASE place <= SampleCap
      <4>1. sample' = [sample EXCEPT ![place] = e]
        BY <3>1, <3>2
      <4> QED
        BY <1>4, <4>1
    <3>3. CASE ~(place <= SampleCap)
      <4>1. sample' = sample /\ place \notin DOMAIN sample
        BY <1>4, <3>1, <3>3, SampleCapAssumption DEF ReservoirInv
      <4> QED
        BY <4>1
    <3> QED
      BY <3>2, <3>3
  <2> QED
    BY <1>5, <2>1, <2>2
<1>7. PICK place : /\ DOMAIN sample' \subseteq DOMAIN sample \union {place}
                   /\ place \in DOMAIN sample' => sample'[place] = e
                   /\ \A i \in DOMAIN sample' \ {place} : sample'[i] = sample[i]
  BY <1>6
<1> DEFINE p == [i \in DOMAIN sample' |-> IF i = place THEN new ELSE o[i]]
<1>8. new \notin DOMAIN rows
  BY <1>2 DEF new
<1>9. p \in [DOMAIN sample' -> DOMAIN rows']
  BY <1>2, <1>3, <1>7
<1>10. \A i, j \in DOMAIN sample' : p[i] = p[j] => i = j
  <2> SUFFICES ASSUME NEW i \in DOMAIN sample', NEW j \in DOMAIN sample', p[i] = p[j]
               PROVE  i = j
    OBVIOUS
  <2>1. i # place => p[i] = o[i] /\ i \in DOMAIN sample /\ p[i] # new
    BY <1>3, <1>7, <1>8
  <2>2. j # place => p[j] = o[j] /\ j \in DOMAIN sample /\ p[j] # new
    BY <1>3, <1>7, <1>8
  <2>3. (i = place => p[i] = new) /\ (j = place => p[j] = new)
    OBVIOUS
  <2> HIDE DEF p
  <2> QED
    BY <1>3, <2>1, <2>2, <2>3
<1>11. \A i \in DOMAIN sample' : sample'[i] = AbsErr(rows'[p[i]])
  <2> SUFFICES ASSUME NEW i \in DOMAIN sample' PROVE sample'[i] = AbsErr(rows'[p[i]])
    OBVIOUS
  <2>1. CASE i = place
    BY <1>2, <1>7, <2>1 DEF e
  <2>2. CASE i # place
    <3>1. sample'[i] = AbsErr(rows[o[i]]) /\ p[i] = o[i] /\ o[i] \in DOMAIN rows
      BY <1>3, <1>7, <2>2
    <3>2. rows'[o[i]] = rows[o[i]]
      BY <1>2, <3>1
    <3> QED
      BY <3>1, <3>2
  <2> QED
    BY <2>1, <2>2
<1> HIDE DEF p
<1> QED
  BY <1>9, <1>10, <1>11 DEF HasOrigins

\* Rows of its own for every place: no error is sampled more often than it occurs.
LEMMA OriginsBound ==
    ASSUME ReservoirInv, HasOrigins
    PROVE  SampleIsOfRows
<1>1. PICK o \in [DOMAIN sample -> DOMAIN rows] :
         /\ \A i, j \in DOMAIN sample : o[i] = o[j] => i = j
         /\ \A i \in DOMAIN sample : sample[i] = AbsErr(rows[o[i]])
  BY DEF HasOrigins
<1>2. ASSUME NEW e
      PROVE  Cardinality({i \in DOMAIN sample : sample[i] = e})
               <= Cardinality({i \in DOMAIN rows : Errors[i] = e})
  <2> DEFINE S == {i \in DOMAIN sample : sample[i] = e}
             T == {i \in DOMAIN rows : Errors[i] = e}
             f == [i \in S |-> o[i]]
  <2>1. IsFiniteSet(T)
    <3>1. Len(rows) \in Nat /\ DOMAIN rows = 1..Len(rows)
      BY DEF ReservoirInv
    <3>2. IsFiniteSet(DOMAIN rows)
      BY <3>1, FS_Interval
    <3>3. T \in SUBSET DOMAIN rows
      OBVIOUS
    <3> HIDE DEF T
    <3> QED
      BY <3>2, <3>3, FS_Subset
  <2>2. f \in Injection(S, T)
    <3>1. \A i \in S : o[i] \in T
      BY <1>1 DEF Errors
    <3>2. f \in [S -> T]
      BY <3>1
    <3>3. \A i, j \in S : f[i] = f[j] => i = j
      BY <1>1
    <3> HIDE DEF f, S, T
    <3> QED
      BY <3>2, <3>3 DEF Injection, IsInjective
  <2> HIDE DEF f, S, T
  <2>3. Cardinality(S) <= Cardinality(T)
    BY <2>1, <2>2, FS_Injection
  <2> QED
    BY <2>3 DEF S, T
<1> QED
  BY <1>2 DEF SampleIsOfRows, ReservoirInv

\* However many rows come, the reservoir holds min(rows, capacity) errors, each
\* of a row of its own.
THEOREM SampleIsAlwaysOfRows == Spec => []SampleIsOfRows
<1>1. Init => HasOrigins
  <2> SUFFICES ASSUME Init PROVE HasOrigins
    OBVIOUS
  <2>1. DOMAIN sample = {} /\ DOMAIN rows = {}
    BY DEF Init
  <2>2. [i \in {} |-> i] \in [{} -> {}]
    OBVIOUS
  <2> QED
    BY <2>1, <2>2 DEF HasOrigins
<1>2. ReservoirInv /\ HasOrigins /\ [Next]_vars => HasOrigins'
  <2> SUFFICES ASSUME ReservoirInv, HasOrigins, [Next]_vars
               PROVE  HasOrigins'
    OBVIOUS
  <2>1. CASE UNCHANGED vars
    BY <2>1 DEF vars, HasOrigins
  <2>2. CASE Next
    <3>1. PICK p \in Values, l \in Values : Update([pred |-> p, label |-> l])
      BY <2>2 DEF Next
    <3>2. [pred |-> p, label |-> l] \in RowType
      BY DEF RowType
    <3> QED
      BY <3>1, <3>2, OriginsStep
  <2> QED
    BY <2>1, <2>2
<1>3. ReservoirInv /\ HasOrigins => SampleIsOfRows
  BY OriginsBound
<1> QED
  BY <1>1, <1>2, <1>3, ReservoirCorrect, PTL DEF Spec

-----------------------------------------------------------------------------
\* Naturals that are not none have a least one.
LEMMA LeastOfNat ==
    ASSUME NEW S, S \subseteq Nat, S # {}
    PROVE  \E least \in S : \A k \in S : least <= k
<1> DEFINE Less == OpToRel(<, Nat)
<1>1. PICK least \in S : \A k \in S : ~(<<k, least>> \in Less)
  <2>1. IsWellFoundedOn(Less, Nat)
    BY NatLessThanWellFounded
  <2> HIDE DEF Less
  <2> QED
    BY <2>1, WFMin
<1>2. \A k \in S : least <= k
  <2> SUFFICES ASSUME NEW k \in S PROVE ~(k < least)
    OBVIOUS
  <2> QED
    BY <1>1 DEF OpToRel
<1> QED
  BY <1>2

\* The places of a sequence by their value.
UpTo(s, x) == {i \in DOMAIN s : s[i] <= x}
Under(s, x) == {i \in DOMAIN s : s[i] < x}
Over(s, x) == {i \in DOMAIN s : s[i] > x}

\* A sequence has finitely many places, so also under and over a value.
LEMMA PlacesAreFinite ==
    ASSUME NEW s \in Seq(Nat), NEW x
    PROVE  /\ IsFiniteSet(UpTo(s, x)) /\ Cardinality(UpTo(s, x)) \in Nat
           /\ IsFiniteSet(Under(s, x)) /\ Cardinality(Under(s, x)) \in Nat
           /\ IsFiniteSet(Over(s, x)) /\ Cardinality(Over(s, x)) \in Nat
           /\ IsFiniteSet(DOMAIN s) /\ Cardinality(DOMAIN s) = Len(s)
<1>1. DOMAIN s = 1..Len(s) /\ Len(s) \in Nat
  OBVIOUS
<1>2. IsFiniteSet(DOMAIN s) /\ Cardinality(DOMAIN s) = Len(s)
  <2> DEFINE len == Len(s)
  <2>1. IsFiniteSet(1..len) /\ Cardinality(1..len) = IF 1 > len THEN 0 ELSE len - 1 + 1
    <3>1. len \in Int
      BY <1>1
    <3> HIDE DEF len
    <3> QED
      BY <3>1, FS_Interval
  <2>2. (IF 1 > len THEN 0 ELSE len - 1 + 1) = len
    BY <1>1
  <2> QED
    BY <1>1, <2>1, <2>2
<1>3. \A T \in SUBSET DOMAIN s : IsFiniteSet(T) /\ Cardinality(T) \in Nat
  BY <1>2, FS_Subset, FS_CardinalityType
<1>4. UpTo(s, x) \in SUBSET DOMAIN s /\ Under(s, x) \in SUBSET DOMAIN s /\ Over(s, x) \in SUBSET DOMAIN s
  BY DEF UpTo, Under, Over
<1> QED
  BY <1>2, <1>3, <1>4

\* A sequence that is not empty has a greatest element.
LEMMA GreatestOfSeq ==
    ASSUME NEW s \in Seq(Nat), s # <<>>
    PROVE  \E x \in Nat : UpTo(s, x) = DOMAIN s
<1> DEFINE S == {Cardinality(Over(s, s[i])) : i \in DOMAIN s}
<1>1. 1 \in DOMAIN s /\ \A i \in DOMAIN s : s[i] \in Nat
  OBVIOUS
<1>2. S \subseteq Nat /\ S # {}
  BY <1>1, PlacesAreFinite
<1>3. PICK least \in S : \A k \in S : least <= k
  <2> HIDE DEF S
  <2> QED
    BY <1>2, LeastOfNat
<1>4. PICK i \in DOMAIN s : least = Cardinality(Over(s, s[i]))
  OBVIOUS
<1>5. ASSUME NEW j \in DOMAIN s, s[j] > s[i]
      PROVE  FALSE
  <2>1. Over(s, s[j]) \in SUBSET Over(s, s[i]) /\ j \in Over(s, s[i]) /\ j \notin Over(s, s[j])
    BY <1>1, <1>5 DEF Over
  <2>2. /\ Cardinality(Over(s, s[j])) <= Cardinality(Over(s, s[i]))
        /\ Cardinality(Over(s, s[j])) # Cardinality(Over(s, s[i]))
    BY <2>1, PlacesAreFinite, FS_Subset
  <2>3. Cardinality(Over(s, s[i])) <= Cardinality(Over(s, s[j]))
    BY <1>3, <1>4
  <2> QED
    BY <2>2, <2>3, PlacesAreFinite
<1>6. UpTo(s, s[i]) = DOMAIN s
  <2>1. \A j \in DOMAIN s : s[j] <= s[i]
    BY <1>1, <1>5
  <2> QED
    BY <2>1 DEF UpTo
<1> QED
  BY <1>1, <1>6

\* The element that Nth chooses exists: the least with more than k up to it.
LEMMA NthExists ==
    ASSUME NEW s \in Seq(Nat), NEW k \in Nat, k < Len(s)
    PROVE  /\ Nth(s, k) \in Nat
           /\ Cardinality(Under(s, Nth(s, k))) <= k
           /\ Cardinality(UpTo(s, Nth(s, k))) > k
<1> DEFINE X == {x \in Nat : Cardinality(UpTo(s, x)) > k}
<1>1. \A i \in DOMAIN s : s[i] \in Nat
  OBVIOUS
<1>2. PICK top \in Nat : UpTo(s, top) = DOMAIN s
  <2>1. s # <<>>
    OBVIOUS
  <2> QED
    BY <2>1, GreatestOfSeq
<1>3. top \in X
  BY <1>2, PlacesAreFinite
<1>4. PICK x \in X : \A y \in X : x <= y
  <2>1. X \subseteq Nat /\ X # {}
    BY <1>3
  <2> HIDE DEF X
  <2> QED
    BY <2>1, LeastOfNat
<1>5. x \in Nat /\ Cardinality(UpTo(s, x)) > k
  OBVIOUS
<1>6. Cardinality(Under(s, x)) <= k
  <2>1. CASE x = 0
    <3>1. Under(s, x) = {}
      BY <1>1, <2>1 DEF Under
    <3> QED
      BY <3>1, FS_EmptySet
  <2>2. CASE x # 0
    <3>1. x - 1 \in Nat /\ ~(x <= x - 1)
      BY <1>5, <2>2
    <3>2. Under(s, x) = UpTo(s, x - 1)
      BY <1>1, <1>5, <2>2 DEF Under, UpTo
    <3>3. x - 1 \notin X
      BY <1>4, <3>1
    <3> QED
      BY <3>1, <3>2, <3>3, PlacesAreFinite
  <2> QED
    BY <2>1, <2>2
<1>7. x \in ToSet(s)
  <2>1. UpTo(s, x) # Under(s, x)
    BY <1>5, <1>6, PlacesAreFinite
  <2>2. PICK i \in DOMAIN s : s[i] <= x /\ ~(s[i] < x)
    BY <2>1 DEF UpTo, Under
  <2>3. s[i] = x
    BY <1>1, <1>5, <2>2
  <2> QED
    BY <2>3 DEF ToSet
<1>8. \E y \in ToSet(s) : Cardinality(Under(s, y)) <= k /\ Cardinality(UpTo(s, y)) > k
  BY <1>5, <1>6, <1>7
<1>9. Nth(s, k) = CHOOSE y \in ToSet(s) :
                     Cardinality(Under(s, y)) <= k /\ Cardinality(UpTo(s, y)) > k
  BY DEF Nth, Under, UpTo
<1>10. /\ Nth(s, k) \in ToSet(s)
       /\ Cardinality(Under(s, Nth(s, k))) <= k /\ Cardinality(UpTo(s, Nth(s, k))) > k
  BY <1>8, <1>9
<1>11. ToSet(s) \subseteq Nat
  BY <1>1 DEF ToSet
<1> QED
  BY <1>10, <1>11

\* While the rows fit the reservoir, the median that is reported splits their
\* errors in two halves.
THEOREM MedianAlwaysSplitsErrors == Spec => []MedianSplitsErrors
<1>1. ReservoirInv /\ SampleIsExact => MedianSplitsErrors
  <2> SUFFICES ASSUME ReservoirInv, SampleIsExact, rows # <<>>, Len(rows) <= SampleCap
               PROVE  LET m == Finalize.median
                      IN  /\ 2 * Cardinality({i \in DOMAIN rows : Errors[i] <= m}) >= Len(rows)
                          /\ 2 * Cardinality({i \in DOMAIN rows : Errors[i] >= m}) >= Len(rows)
    BY DEF MedianSplitsErrors
  <2> DEFINE len == Len(rows)
             k == len \div 2
             m == Nth(Errors, k)
  <2>1. sample = Errors /\ Errors \in Seq(Nat) /\ Len(Errors) = len /\ DOMAIN Errors = DOMAIN rows
    <3>1. sample = Errors
      BY DEF SampleIsExact
    <3>2. sample \in Seq(Nat) /\ Len(sample) = len
      BY SampleCapAssumption DEF ReservoirInv
    <3>3. DOMAIN Errors = DOMAIN rows
      BY DEF Errors
    <3> QED
      BY <3>1, <3>2, <3>3
  <2>2. len \in Nat /\ len # 0 /\ n = len
    BY DEF ReservoirInv
  <2>3. k \in Nat /\ k < len /\ 2 * k <= len /\ len <= 2 * k + 1
    <3> HIDE DEF len
    <3> QED
      BY <2>2
  <2>4. Finalize.median = m
    <3>1. Finalize.median = Median
      BY <2>2 DEF Finalize
    <3> QED
      BY <2>1, <3>1 DEF Median
  <2> HIDE DEF len, k
  <2>5. m \in Nat /\ Cardinality(Under(Errors, m)) <= k /\ Cardinality(UpTo(Errors, m)) > k
    BY <2>1, <2>3, NthExists
  <2> HIDE DEF m
  <2> DEFINE Rest == {i \in DOMAIN rows : Errors[i] >= m}
  <2>6. Rest = DOMAIN Errors \ Under(Errors, m) /\ Under(Errors, m) \in SUBSET DOMAIN Errors
    <3>1. \A i \in DOMAIN rows : Errors[i] \in Nat
      BY <2>1
    <3> QED
      BY <2>1, <2>5, <3>1 DEF Under
  <2>7. Cardinality(Rest) = len - Cardinality(Under(Errors, m))
    <3>1. DOMAIN Errors \cap Under(Errors, m) = Under(Errors, m)
      BY <2>6
    <3>2. IsFiniteSet(DOMAIN Errors) /\ Cardinality(DOMAIN Errors) = len
      BY <2>1, PlacesAreFinite
    <3> HIDE DEF Rest
    <3> QED
      BY <2>6, <3>1, <3>2, FS_Difference
  <2>8. {i \in DOMAIN rows : Errors[i] <= m} = UpTo(Errors, m)
    BY <2>1 DEF UpTo
  <2>9. Cardinality(UpTo(Errors, m)) \in Nat /\ Cardinality(Under(Errors, m)) \in Nat
    BY <2>1, PlacesAreFinite
  <2>10. 2 * Cardinality(UpTo(Errors, m)) >= len
    BY <2>2, <2>3, <2>5, <2>9
  <2>11. 2 * Cardinality(Rest) >= len
    <3> HIDE DEF Rest
    <3> QED
      BY <2>2, <2>3, <2>5, <2>7, <2>9
  <2> QED
    BY <2>4, <2>8, <2>10, <2>11 DEF len
<1> QED
  BY <1>1, ReservoirCorrect, SampleExactWhileItFits, PTL

-----------------------------------------------------------------------------
\* The element that MapThenSumSet takes from a set next.
Some(T) == CHOOSE x \in T : TRUE

\* t is the sum of g over each subset of D, as MapThenSumSet adds it up.
IsTotal(t, g, D) ==
    t = [T \in SUBSET D |-> IF T = {} THEN 0 ELSE g[Some(T)] + t[T \ {Some(T)}]]

\* A set of finite sets that is not empty has a least one.
LEMMA LeastSet ==
    ASSUME NEW D, IsFiniteSet(D), NEW F, F \subseteq SUBSET D, F # {}
    PROVE  \E T \in F : \A U \in F : ~(U \subseteq T /\ U # T)
<1> DEFINE S == {Cardinality(T) : T \in F}
<1>1. \A T \in F : IsFiniteSet(T) /\ Cardinality(T) \in Nat
  BY FS_Subset, FS_CardinalityType
<1>2. PICK least \in S : \A k \in S : least <= k
  <2>1. S \subseteq Nat /\ S # {}
    BY <1>1
  <2> HIDE DEF S
  <2> QED
    BY <2>1, LeastOfNat
<1>3. PICK T \in F : least = Cardinality(T)
  OBVIOUS
<1>4. ASSUME NEW U \in F, U \subseteq T, U # T
      PROVE  FALSE
  <2>1. Cardinality(U) <= Cardinality(T) /\ Cardinality(U) # Cardinality(T)
    BY <1>1, <1>4, FS_Subset
  <2>2. Cardinality(T) <= Cardinality(U)
    BY <1>2, <1>3
  <2> QED
    BY <1>1, <2>1, <2>2
<1> QED
  BY <1>4

\* Totals are integers, and any element may be taken first.
LEMMA TotalTakesAny ==
    ASSUME NEW D, IsFiniteSet(D), NEW g \in [D -> Int], NEW t, IsTotal(t, g, D)
    PROVE  \A T \in SUBSET D :
              t[T] \in Int /\ \A x \in T : t[T] = g[x] + t[T \ {x}]
<1> DEFINE Good(T) == t[T] \in Int /\ \A x \in T : t[T] = g[x] + t[T \ {x}]
           F == {T \in SUBSET D : ~Good(T)}
<1>1. /\ t[{}] = 0
      /\ \A T \in SUBSET D : T # {} => t[T] = g[Some(T)] + t[T \ {Some(T)}]
  BY DEF IsTotal
<1>2. \A T \in SUBSET D : T # {} => Some(T) \in T
  BY DEF Some
<1>3. SUFFICES ASSUME F # {} PROVE FALSE
  OBVIOUS
<1>4. PICK T \in F : \A U \in F : ~(U \subseteq T /\ U # T)
  <2>1. F \subseteq SUBSET D
    OBVIOUS
  <2> HIDE DEF F
  <2> QED
    BY <1>3, <2>1, LeastSet
<1>5. \A U \in SUBSET T : U # T => Good(U)
  BY <1>4
<1>6. T # {}
  <2>1. Good({}) /\ ~Good(T)
    BY <1>1
  <2> HIDE DEF Good
  <2> QED
    BY <2>1
<1> DEFINE c == Some(T)
<1>7. c \in T /\ T \subseteq D
  BY <1>2, <1>6
<1> HIDE DEF c
<1>8. t[T] = g[c] + t[T \ {c}] /\ t[T \ {c}] \in Int /\ t[T] \in Int
  <2>1. t[T] = g[c] + t[T \ {c}]
    BY <1>1, <1>6 DEF c
  <2>2. t[T \ {c}] \in Int
    BY <1>5, <1>7
  <2>3. g[c] \in Int
    BY <1>7
  <2> QED
    BY <2>1, <2>2, <2>3
<1>9. ASSUME NEW x \in T
      PROVE  t[T] = g[x] + t[T \ {x}]
  <2>1. CASE x = c
    BY <1>8, <2>1
  <2>2. CASE x # c
    <3>1. t[T \ {c}] = g[x] + t[(T \ {c}) \ {x}]
      BY <1>5, <1>7, <2>2
    <3>2. t[T \ {x}] = g[c] + t[(T \ {x}) \ {c}] /\ t[(T \ {x}) \ {c}] \in Int
      <4>1. T \ {x} \in SUBSET T /\ T \ {x} # T /\ c \in T \ {x}
        BY <1>7, <2>2
      <4>2. (T \ {x}) \ {c} \in SUBSET T /\ (T \ {x}) \ {c} # T
        BY <1>7
      <4> QED
        BY <1>5, <4>1, <4>2
    <3>3. (T \ {c}) \ {x} = (T \ {x}) \ {c}
      OBVIOUS
    <3>4. g[x] \in Int /\ g[c] \in Int
      BY <1>7
    <3> QED
      BY <1>8, <3>1, <3>2, <3>3, <3>4
  <2> QED
    BY <2>1, <2>2
<1> QED
  BY <1>8, <1>9

\* A total exists.
LEMMA TotalExists ==
    ASSUME NEW D, IsFiniteSet(D), NEW g \in [D -> Int]
    PROVE  \E t : IsTotal(t, g, D)
<1> DEFINE F == {T \in SUBSET D : ~\E t : IsTotal(t, g, T)}
<1>1. SUFFICES ASSUME F # {} PROVE FALSE
  OBVIOUS
<1>2. PICK T \in F : \A U \in F : ~(U \subseteq T /\ U # T)
  <2>1. F \subseteq SUBSET D
    OBVIOUS
  <2> HIDE DEF F
  <2> QED
    BY <1>1, <2>1, LeastSet
<1>3. T \in SUBSET D /\ ~\E t : IsTotal(t, g, T)
  OBVIOUS
<1>4. T # {}
  <2> SUFFICES ASSUME T = {} PROVE \E t : IsTotal(t, g, {})
    BY <1>3
  <2> DEFINE t == [U \in SUBSET {} |-> 0]
  <2>1. t = [U \in SUBSET {} |-> IF U = {} THEN 0 ELSE g[Some(U)] + t[U \ {Some(U)}]]
    <3>1. \A U \in SUBSET {} : U = {}
      OBVIOUS
    <3> QED
      BY <3>1
  <2> QED
    BY <2>1 DEF IsTotal
<1>5. PICK x : x \in T
  BY <1>4
<1> DEFINE V == T \ {x}
<1>6. PICK s : IsTotal(s, g, V)
  <2>1. V \in SUBSET D /\ V \subseteq T /\ V # T
    BY <1>5
  <2>2. V \notin F
    BY <1>2, <2>1
  <2> QED
    BY <2>1, <2>2
<1> DEFINE t == [U \in SUBSET T |-> IF x \in U THEN g[x] + s[U \ {x}] ELSE s[U]]
           w == [i \in V |-> g[i]]
<1>7. \A U \in SUBSET V : s[U] \in Int /\ \A y \in U : s[U] = g[y] + s[U \ {y}]
  <2>1. IsFiniteSet(V)
    BY FS_Subset
  <2>2. w \in [V -> Int]
    OBVIOUS
  <2>3. IsTotal(s, w, V)
    <3>1. \A U \in SUBSET V : U # {} => Some(U) \in V
      BY DEF Some
    <3>2. \A U \in SUBSET V :
             (IF U = {} THEN 0 ELSE g[Some(U)] + s[U \ {Some(U)}])
               = (IF U = {} THEN 0 ELSE w[Some(U)] + s[U \ {Some(U)}])
      BY <3>1
    <3> QED
      BY <1>6, <3>2 DEF IsTotal
  <2> HIDE DEF w, V
  <2>4. \A U \in SUBSET V : s[U] \in Int /\ \A y \in U : s[U] = w[y] + s[U \ {y}]
    BY <2>1, <2>2, <2>3, TotalTakesAny
  <2> QED
    BY <2>4 DEF w
<1>8. ASSUME NEW U \in SUBSET T, U # {}
      PROVE  t[U] = g[Some(U)] + t[U \ {Some(U)}]
  <2> DEFINE c == Some(U)
  <2>1. c \in U
    BY <1>8 DEF Some
  <2> HIDE DEF c
  <2>2. CASE x \notin U
    <3>1. U \in SUBSET V
      BY <2>2
    <3>2. s[U] = g[c] + s[U \ {c}]
      BY <1>7, <2>1, <3>1
    <3>3. t[U] = s[U] /\ t[U \ {c}] = s[U \ {c}]
      BY <2>2
    <3> QED
      BY <3>2, <3>3 DEF c
  <2>3. CASE x \in U /\ c = x
    <3>1. t[U] = g[x] + s[U \ {x}] /\ t[U \ {x}] = s[U \ {x}]
      BY <2>3
    <3> QED
      BY <2>3, <3>1 DEF c
  <2>4. CASE x \in U /\ c # x
    <3>1. t[U] = g[x] + s[U \ {x}]
      BY <2>4
    <3>2. t[U \ {c}] = g[x] + s[(U \ {c}) \ {x}]
      BY <2>4
    <3>3. U \ {x} \in SUBSET V /\ c \in U \ {x}
      BY <2>1, <2>4
    <3>4. s[U \ {x}] = g[c] + s[(U \ {x}) \ {c}] /\ s[(U \ {x}) \ {c}] \in Int
      BY <1>7, <3>3
    <3>5. (U \ {c}) \ {x} = (U \ {x}) \ {c}
      OBVIOUS
    <3>6. g[x] \in Int /\ g[c] \in Int
      BY <1>3, <1>5, <2>1
    <3> DEFINE v == s[(U \ {x}) \ {c}]
               a == t[U]
               b == t[U \ {c}]
    <3>8. b = g[x] + v /\ a = g[x] + (g[c] + v) /\ v \in Int
      BY <3>1, <3>2, <3>4, <3>5
    <3> HIDE DEF v, a, b
    <3>9. a = g[c] + b
      BY <3>6, <3>8
    <3>7. t[U] = g[c] + t[U \ {c}]
      BY <3>9 DEF a, b
    <3> QED
      BY <3>7 DEF c
  <2> QED
    BY <2>2, <2>3, <2>4
<1>9. t[{}] = 0
  BY <1>6 DEF IsTotal
<1>10. IsTotal(t, g, T)
  <2>1. t = [U \in SUBSET T |-> t[U]]
    OBVIOUS
  <2> HIDE DEF t
  <2>2. \A U \in SUBSET T : t[U] = IF U = {} THEN 0 ELSE g[Some(U)] + t[U \ {Some(U)}]
    BY <1>8, <1>9
  <2> QED
    BY <2>1, <2>2 DEF IsTotal
<1> QED
  BY <1>3, <1>10

\* P[k] is the sum of the first k values of g.
IsPrefixSum(P, g, len) ==
    /\ P \in [0..len -> Int]
    /\ P[0] = 0
    /\ \A k \in 1..len : P[k] = P[k - 1] + g[k]

\* The total over 1..len is the last of the sums of the first values.
LEMMA TotalIsLastPrefix ==
    ASSUME NEW len \in Nat, NEW D, D = 1..len,
           NEW g \in [D -> Int], NEW t, IsTotal(t, g, D)
    PROVE  \E P : IsPrefixSum(P, g, len) /\ P[len] = t[D]
<1> DEFINE P == [k \in 0..len |-> t[1..k]]
<1>0. IsFiniteSet(D)
  <2>1. 1 \in Int /\ len \in Int
    OBVIOUS
  <2> QED
    BY <2>1, FS_Interval
<1>1. \A T \in SUBSET D : t[T] \in Int /\ \A x \in T : t[T] = g[x] + t[T \ {x}]
  BY ONLY <1>0, g \in [D -> Int], IsTotal(t, g, D), TotalTakesAny
<1>2. P \in [0..len -> Int]
  <2>1. \A k \in 0..len : 1..k \in SUBSET D
    OBVIOUS
  <2>2. \A k \in 0..len : t[1..k] \in Int
    BY <1>1, <2>1
  <2> QED
    BY <2>2
<1>3. P[0] = 0
  <2>1. t[{}] = 0
    BY DEF IsTotal
  <2>2. 1..0 = {} /\ 0 \in 0..len
    OBVIOUS
  <2> QED
    BY <2>1, <2>2
<1>4. ASSUME NEW k \in 1..len
      PROVE  P[k] = P[k - 1] + g[k]
  <2> DEFINE T == 1..k
             U == 1..(k - 1)
  <2>1. T \in SUBSET D /\ k \in T /\ T \ {k} = U /\ U \in SUBSET D
    OBVIOUS
  <2> HIDE DEF T, U
  <2>4. t[T] = g[k] + t[U] /\ t[U] \in Int
    <3>1. t[T] = g[k] + t[T \ {k}] /\ t[U] \in Int
      BY ONLY <1>1, <2>1
    <3> QED
      BY ONLY <2>1, <3>1
  <2>2. t[1..k] = g[k] + t[1..(k - 1)] /\ t[1..(k - 1)] \in Int
    BY <2>4 DEF T, U
  <2>3. P[k] = t[1..k] /\ P[k - 1] = t[1..(k - 1)] /\ g[k] \in Int
    OBVIOUS
  <2> HIDE DEF P
  <2> QED
    BY <2>2, <2>3
<1>5. P[len] = t[D]
  OBVIOUS
<1> HIDE DEF P
<1> QED
  BY <1>2, <1>3, <1>4, <1>5 DEF IsPrefixSum

\* There is one way to add up the first values.
LEMMA PrefixUnique ==
    ASSUME NEW len \in Nat, NEW g, NEW P, IsPrefixSum(P, g, len), NEW Q, IsPrefixSum(Q, g, len)
    PROVE  P[len] = Q[len]
<1> DEFINE Bad == {k \in 0..len : P[k] # Q[k]}
<1>1. SUFFICES ASSUME Bad # {} PROVE FALSE
  OBVIOUS
<1>2. PICK k \in Bad : \A j \in Bad : k <= j
  <2>1. Bad \subseteq Nat
    OBVIOUS
  <2> HIDE DEF Bad
  <2> QED
    BY <1>1, <2>1, LeastOfNat
<1>3. k # 0
  BY DEF IsPrefixSum
<1>4. k \in 1..len /\ k - 1 \in 0..len /\ ~(k <= k - 1)
  BY <1>3
<1>5. P[k - 1] = Q[k - 1]
  BY <1>2, <1>4
<1> QED
  BY <1>4, <1>5 DEF IsPrefixSum

\* len * len times the variance, from the deviations and from the two sums.
LEMMA DeviationsFromSums ==
    ASSUME NEW len \in Nat, NEW f \in [1..len -> Int],
           NEW P, IsPrefixSum(P, f, len),
           NEW P2, IsPrefixSum(P2, [k \in 1..len |-> Square(f[k])], len),
           NEW Q, IsPrefixSum(Q, [k \in 1..len |-> Square(len * f[k] - P[len])], len)
    PROVE  /\ Q[len] = len * (len * P2[len] - P[len] * P[len])
           /\ Q[len] >= 0
<1> DEFINE c == P[len]
           Should(k) == len * (len * P2[k]) - 2 * (len * (c * P[k])) + k * (c * c)
           Bad == {k \in 0..len : ~(Q[k] = Should(k) /\ Q[k] >= 0)}
<1>0. /\ c \in Int
      /\ \A k \in 0..len : P[k] \in Int /\ P2[k] \in Int /\ Q[k] \in Int
      /\ P[0] = 0 /\ P2[0] = 0 /\ Q[0] = 0
      /\ \A k \in 1..len : /\ P[k] = P[k - 1] + f[k]
                           /\ P2[k] = P2[k - 1] + f[k] * f[k]
                           /\ Q[k] = Q[k - 1] + (len * f[k] - c) * (len * f[k] - c)
  <2>1. c \in Int /\ P[0] = 0 /\ P2[0] = 0 /\ Q[0] = 0
    BY DEF IsPrefixSum
  <2>2. \A k \in 0..len : P[k] \in Int /\ P2[k] \in Int /\ Q[k] \in Int
    BY DEF IsPrefixSum
  <2>3. \A k \in 1..len : P[k] = P[k - 1] + f[k]
    BY DEF IsPrefixSum
  <2>4. \A k \in 1..len : P2[k] = P2[k - 1] + f[k] * f[k]
    BY DEF IsPrefixSum, Square
  <2>5. \A k \in 1..len : Q[k] = Q[k - 1] + (len * f[k] - c) * (len * f[k] - c)
    BY DEF IsPrefixSum, Square
  <2> QED
    BY <2>1, <2>2, <2>3, <2>4, <2>5
<1>1. Bad = {}
  <2>1. SUFFICES ASSUME Bad # {} PROVE FALSE
    OBVIOUS
  <2>2. PICK k \in Bad : \A j \in Bad : k <= j
    <3>1. Bad \subseteq Nat
      OBVIOUS
    <3> HIDE DEF Bad
    <3> QED
      BY <2>1, <3>1, LeastOfNat
  <2>3. k # 0
    <3>1. Should(0) = 0
      BY <1>0
    <3> HIDE DEF Should
    <3> QED
      BY <1>0, <3>1
  <2>4. k \in 1..len /\ k - 1 \in 0..len /\ ~(k <= k - 1)
    BY <2>3
  <2>5. Q[k - 1] = Should(k - 1) /\ Q[k - 1] >= 0
    BY <2>2, <2>4
  <2> DEFINE x == f[k]
             p == P[k - 1]
             p2 == P2[k - 1]
             q == Q[k - 1]
             y == len * x - c
  <2>6. x \in Int /\ p \in Int /\ p2 \in Int /\ q \in Int /\ len \in Int /\ k \in Int /\ y \in Int
    <3>1. x \in Int /\ p \in Int /\ p2 \in Int /\ q \in Int /\ len \in Int /\ k \in Int
      BY <1>0, <2>4
    <3> HIDE DEF x, c
    <3> QED
      BY <1>0, <3>1
  <2>7. P[k] = p + x /\ P2[k] = p2 + x * x /\ Q[k] = q + y * y
    BY <1>0, <2>4
  <2>8. q = len * (len * p2) - 2 * (len * (c * p)) + (k - 1) * (c * c)
    BY <2>5
  <2> HIDE DEF Bad, x, p, p2, q, c
  <2>9. y * y = (len * x) * (len * x) - 2 * ((len * x) * c) + c * c
    BY <1>0, <2>6, SMT
  <2>10. y * y >= 0
    <3> HIDE DEF y
    <3> QED
      BY <2>6, SMT
  <2>11. Q[k] = Should(k)
    BY <1>0, <2>6, <2>7, <2>8, <2>9, SMT
  <2>12. Q[k] >= 0
    <3>1. q >= 0
      BY <2>5 DEF q
    <3>2. Q[k] = q + y * y
      BY <2>7
    <3> DEFINE yy == y * y
    <3>3. yy \in Int /\ yy >= 0 /\ Q[k] = q + yy
      BY <2>6, <2>10, <3>2
    <3> HIDE DEF y, yy
    <3> QED
      BY <2>6, <3>1, <3>3
  <2> HIDE DEF Should
  <2> QED
    BY <2>11, <2>12 DEF Bad
<1>2. Q[len] = Should(len) /\ Q[len] >= 0
  <2>1. len \in 0..len
    OBVIOUS
  <2> HIDE DEF Should
  <2> QED
    BY <1>1, <2>1
<1> HIDE DEF Bad
<1>3. Should(len) = len * (len * P2[len] - c * c)
  BY <1>0, SMT
<1> QED
  BY <1>2, <1>3

\* Sum adds up the values of a function on 1..len.
LEMMA SumIsLastPrefix ==
    ASSUME NEW len \in Nat, NEW g \in [1..len -> Int]
    PROVE  \E P : IsPrefixSum(P, g, len) /\ P[len] = Sum(g)
<1> DEFINE D == DOMAIN g
           iter == CHOOSE t : t = [T \in SUBSET D |->
                      IF T = {} THEN 0 ELSE g[Some(T)] + t[T \ {Some(T)}]]
<1>1. Sum(g) = iter[D]
  BY DEF MapThenSumSet, MapThenFoldSet, Sum, Some
<1>2. g \in [D -> Int] /\ D = 1..len
  OBVIOUS
<1>3. IsFiniteSet(D)
  <2>1. 1 \in Int /\ len \in Int
    OBVIOUS
  <2> QED
    BY <1>2, <2>1, FS_Interval
<1>4. iter = CHOOSE t : IsTotal(t, g, D)
  BY DEF IsTotal
<1> HIDE DEF D, iter
<1>5. \E t : IsTotal(t, g, D)
  BY ONLY <1>2, <1>3, TotalExists
<1>6. IsTotal(iter, g, D)
  BY <1>4, <1>5
<1>7. \E P : IsPrefixSum(P, g, len) /\ P[len] = iter[D]
  BY ONLY <1>2, <1>6, len \in Nat, TotalIsLastPrefix
<1> QED
  BY <1>1, <1>7

\* The sum of the deviations, from the sum of f and that of its squares.
LEMMA DeviationsAre ==
    ASSUME ReservoirInv, NEW f \in [1..Len(rows) -> Int], NEW len \in Nat, len = Len(rows)
    PROVE  /\ Sum(f) \in Int /\ Sum(Squares(f)) \in Int
           /\ Deviations(f) = len * (len * Sum(Squares(f)) - Sum(f) * Sum(f))
           /\ Deviations(f) >= 0
<1> DEFINE s == Sum(f)
           h == [i \in 1..len |-> Square(len * f[i] - s)]
           f2 == [i \in 1..len |-> Square(f[i])]
<1>1. f \in [1..len -> Int] /\ DOMAIN f = 1..len
  OBVIOUS
<1>2. PICK P : IsPrefixSum(P, f, len) /\ P[len] = s
  <2> HIDE DEF s
  <2>1. \E P : IsPrefixSum(P, f, len) /\ P[len] = Sum(f)
    BY ONLY <1>1, len \in Nat, SumIsLastPrefix
  <2> QED
    BY <2>1 DEF s
<1>3. len \in 0..len
  OBVIOUS
<1>4. s \in Int
  <2> HIDE DEF s
  <2> QED
    BY <1>2, <1>3 DEF IsPrefixSum
<1> HIDE DEF s
<1>5. f2 \in [1..len -> Int] /\ h \in [1..len -> Int]
  BY <1>1, <1>4 DEF Square
<1>6. Squares(f) = f2
  BY <1>1 DEF Squares
<1>7. Deviations(f) = Sum(h)
  BY <1>1 DEF Deviations, s
<1>8. PICK P2 : IsPrefixSum(P2, f2, len) /\ P2[len] = Sum(f2)
  <2> HIDE DEF f2
  <2> QED
    BY ONLY <1>5, len \in Nat, SumIsLastPrefix
<1>9. PICK Q : IsPrefixSum(Q, h, len) /\ Q[len] = Sum(h)
  <2> HIDE DEF h
  <2> QED
    BY ONLY <1>5, len \in Nat, SumIsLastPrefix
<1>10. P2[len] \in Int
  <2> HIDE DEF f2
  <2> QED
    BY <1>3, <1>8 DEF IsPrefixSum
<1>11. /\ Q[len] = len * (len * P2[len] - P[len] * P[len])
       /\ Q[len] >= 0
  <2>1. IsPrefixSum(P2, [k \in 1..len |-> Square(f[k])], len)
    BY <1>8
  <2>2. IsPrefixSum(Q, [k \in 1..len |-> Square(len * f[k] - P[len])], len)
    BY <1>2, <1>9
  <2>3. IsPrefixSum(P, f, len)
    BY <1>2
  <2> HIDE DEF h, f2
  <2> QED
    BY ONLY <1>1, len \in Nat, <2>1, <2>2, <2>3, DeviationsFromSums
<1> HIDE DEF h, f2
<1> QED
  BY <1>2, <1>4, <1>6, <1>7, <1>8, <1>9, <1>10, <1>11 DEF s

\* One more value adds itself to the sum.
LEMMA SumGrows ==
    ASSUME NEW len \in Nat, NEW f \in [1..len -> Int], NEW g \in [1..(len + 1) -> Int],
           \A k \in 1..len : g[k] = f[k]
    PROVE  Sum(g) = Sum(f) + g[len + 1]
<1>1. PICK P : IsPrefixSum(P, f, len) /\ P[len] = Sum(f)
  BY SumIsLastPrefix
<1>2. PICK Q : IsPrefixSum(Q, g, len + 1) /\ Q[len + 1] = Sum(g)
  <2> DEFINE more == len + 1
  <2>1. more \in Nat /\ g \in [1..more -> Int]
    OBVIOUS
  <2> HIDE DEF more
  <2>2. \E Q : IsPrefixSum(Q, g, more) /\ Q[more] = Sum(g)
    BY <2>1, SumIsLastPrefix
  <2> QED
    BY <2>2 DEF more
<1> DEFINE R == [k \in 0..len |-> Q[k]]
<1>3. IsPrefixSum(R, f, len)
  <2>1. R \in [0..len -> Int] /\ R[0] = 0
    BY <1>2 DEF IsPrefixSum
  <2>2. \A k \in 1..len : R[k] = R[k - 1] + f[k]
    <3> SUFFICES ASSUME NEW k \in 1..len PROVE R[k] = R[k - 1] + f[k]
      OBVIOUS
    <3>1. R[k] = Q[k] /\ R[k - 1] = Q[k - 1]
      OBVIOUS
    <3>2. Q[k] = Q[k - 1] + g[k]
      BY <1>2 DEF IsPrefixSum
    <3> HIDE DEF R
    <3> QED
      BY <3>1, <3>2
  <2> HIDE DEF R
  <2> QED
    BY <2>1, <2>2 DEF IsPrefixSum
<1>4. R[len] = Q[len] /\ Q[len + 1] = Q[len] + g[len + 1]
  <2>1. Q[len + 1] = Q[len + 1 - 1] + g[len + 1]
    BY <1>2 DEF IsPrefixSum
  <2> QED
    BY <2>1
<1> HIDE DEF R
<1>5. R[len] = P[len]
  BY ONLY <1>1, <1>3, len \in Nat, PrefixUnique
<1> QED
  BY <1>1, <1>2, <1>4, <1>5

\* The sum of no values is 0.
LEMMA SumOfNone ==
    ASSUME NEW f \in [1..0 -> Int]
    PROVE  Sum(f) = 0
<1>1. PICK P : IsPrefixSum(P, f, 0) /\ P[0] = Sum(f)
  BY SumIsLastPrefix
<1> QED
  BY <1>1 DEF IsPrefixSum

\* The running sums are the sums over the rows so far.
SumsInv ==
    /\ DOMAIN sums = {"abs", "sq", "sqLog", "y", "y2", "err", "err2"}
    /\ sums.y = Sum(Labels) /\ sums.y2 = Sum(Squares(Labels))
    /\ sums.err = Sum(Residuals) /\ sums.err2 = Sum(Squares(Residuals))
    /\ sums.sq = sums.err2

\* The columns of labels, residuals and their squares hold integers.
LEMMA ColumnsType ==
    ASSUME ReservoirInv
    PROVE  /\ Labels \in [1..Len(rows) -> Int] /\ Squares(Labels) \in [1..Len(rows) -> Int]
           /\ Residuals \in [1..Len(rows) -> Int] /\ Squares(Residuals) \in [1..Len(rows) -> Int]
<1>1. /\ DOMAIN rows = 1..Len(rows)
      /\ \A i \in 1..Len(rows) : rows[i] \in RowType
  BY DEF ReservoirInv
<1>2. ASSUME NEW r \in RowType PROVE r.label \in Int /\ Err(r) \in Int
  <2>1. r.label \in Int /\ r.pred \in Int
    BY ValuesAssumption DEF RowType
  <2> QED
    BY <2>1 DEF Err
<1>3. Labels \in [1..Len(rows) -> Int] /\ Residuals \in [1..Len(rows) -> Int]
  BY <1>1, <1>2 DEF Labels, Residuals
<1>4. \A f \in [1..Len(rows) -> Int] : Squares(f) \in [1..Len(rows) -> Int]
  BY DEF Squares, Square
<1> QED
  BY <1>3, <1>4

\* What SumsWith adds.
LEMMA SumsWithAdds ==
    ASSUME NEW row,
           DOMAIN sums = {"abs", "sq", "sqLog", "y", "y2", "err", "err2"}
    PROVE  LET new == SumsWith(row)
           IN  /\ DOMAIN new = {"abs", "sq", "sqLog", "y", "y2", "err", "err2"}
               /\ new.y = sums.y + row.label /\ new.y2 = sums.y2 + Square(row.label)
               /\ new.err = sums.err + Err(row) /\ new.err2 = sums.err2 + Square(Err(row))
               /\ new.sq = sums.sq + Square(Err(row))
BY DEF SumsWith

\* Every row adds its own share to the running sums.
LEMMA SumsStep ==
    ASSUME ReservoirInv, SumsInv, NEW row \in RowType, Update(row)
    PROVE  SumsInv'
<1> DEFINE len == Len(rows)
<1>1. /\ rows' \in Seq(RowType) /\ Len(rows') = len + 1 /\ len \in Nat
      /\ \A j \in 1..len : rows'[j] = rows[j]
      /\ rows'[len + 1] = row
      /\ DOMAIN rows = 1..len /\ DOMAIN rows' = 1..(len + 1)
  BY UpdateAppends DEF ReservoirInv
<1>3. /\ Labels \in [1..len -> Int] /\ Squares(Labels) \in [1..len -> Int]
      /\ Residuals \in [1..len -> Int] /\ Squares(Residuals) \in [1..len -> Int]
  BY ColumnsType
<1>4. /\ Labels' \in [1..(len + 1) -> Int] /\ Squares(Labels)' \in [1..(len + 1) -> Int]
      /\ Residuals' \in [1..(len + 1) -> Int] /\ Squares(Residuals)' \in [1..(len + 1) -> Int]
  <2>1. row.label \in Int /\ Err(row) \in Int /\ DOMAIN Labels = 1..len /\ DOMAIN Residuals = 1..len
    <3>1. row.label \in Int /\ row.pred \in Int
      BY ValuesAssumption DEF RowType
    <3> QED
      BY <1>3, <3>1 DEF Err
  <2>2. Labels' = [i \in 1..(len + 1) |-> rows'[i].label] /\ Residuals' = [i \in 1..(len + 1) |-> Err(rows'[i])]
    BY <1>1 DEF Labels, Residuals
  <2>3. \A i \in 1..(len + 1) : rows'[i].label \in Int /\ Err(rows'[i]) \in Int
    <3> SUFFICES ASSUME NEW i \in 1..(len + 1) PROVE rows'[i].label \in Int /\ Err(rows'[i]) \in Int
      OBVIOUS
    <3>1. CASE i = len + 1
      BY <1>1, <2>1, <3>1
    <3>2. CASE i # len + 1
      <4>1. i \in 1..len
        BY <1>1, <3>2
      <4>2. Labels[i] = rows[i].label /\ Residuals[i] = Err(rows[i])
        BY <1>1, <4>1 DEF Labels, Residuals
      <4> QED
        BY <1>1, <1>3, <4>1, <4>2
    <3> QED
      BY <3>1, <3>2
  <2> HIDE DEF len
  <2>4. Labels' \in [1..(len + 1) -> Int] /\ Residuals' \in [1..(len + 1) -> Int]
    BY <2>2, <2>3
  <2>5. Squares(Labels)' = Squares(Labels') /\ Squares(Residuals)' = Squares(Residuals')
    BY DEF Squares
  <2>6. \A f \in [1..(len + 1) -> Int] : Squares(f) \in [1..(len + 1) -> Int]
    BY DEF Squares, Square
  <2> QED
    BY <2>4, <2>5, <2>6
<1>5. /\ Labels'[len + 1] = row.label /\ Residuals'[len + 1] = Err(row)
      /\ \A k \in 1..len : Labels'[k] = Labels[k] /\ Residuals'[k] = Residuals[k]
  BY <1>1 DEF Labels, Residuals
<1>6. /\ Squares(Labels)'[len + 1] = Square(row.label) /\ Squares(Residuals)'[len + 1] = Square(Err(row))
      /\ \A k \in 1..len : /\ Squares(Labels)'[k] = Squares(Labels)[k]
                           /\ Squares(Residuals)'[k] = Squares(Residuals)[k]
  <2>1. Squares(Labels)' = Squares(Labels') /\ Squares(Residuals)' = Squares(Residuals')
    BY DEF Squares
  <2>2. DOMAIN Labels' = 1..(len + 1) /\ DOMAIN Labels = 1..len
    BY <1>3, <1>4
  <2>3. DOMAIN Residuals' = 1..(len + 1) /\ DOMAIN Residuals = 1..len
    BY <1>3, <1>4
  <2> HIDE DEF len
  <2> QED
    BY <1>1, <1>5, <2>1, <2>2, <2>3 DEF Squares
<1> DEFINE y == Labels'
           y2 == Squares(Labels)'
           e == Residuals'
           e2 == Squares(Residuals)'
<1>7. /\ Sum(y) = Sum(Labels) + y[len + 1] /\ Sum(e) = Sum(Residuals) + e[len + 1]
      /\ Sum(y2) = Sum(Squares(Labels)) + y2[len + 1]
      /\ Sum(e2) = Sum(Squares(Residuals)) + e2[len + 1]
  <2>1. len \in Nat
    BY <1>1
  <2> HIDE DEF y, y2, e, e2, len
  <2> QED
    BY <1>3, <1>4, <1>5, <1>6, <2>1, SumGrows DEF y, y2, e, e2
<1>8. Sum(Labels)' = Sum(y) /\ Sum(Squares(Labels))' = Sum(y2)
      /\ Sum(Residuals)' = Sum(e) /\ Sum(Squares(Residuals))' = Sum(e2)
  BY DEF Sum, MapThenSumSet, MapThenFoldSet
<1>9. sums' = SumsWith(row)
  BY DEF Update
<1>10. /\ DOMAIN sums' = {"abs", "sq", "sqLog", "y", "y2", "err", "err2"}
       /\ sums'.y = sums.y + row.label /\ sums'.y2 = sums.y2 + Square(row.label)
       /\ sums'.err = sums.err + Err(row) /\ sums'.err2 = sums.err2 + Square(Err(row))
       /\ sums'.sq = sums.sq + Square(Err(row))
  BY <1>9, SumsWithAdds DEF SumsInv
<1> QED
  BY <1>5, <1>6, <1>7, <1>8, <1>10 DEF SumsInv

\* The scores of the sums are those of two passes.
LEMMA ScoresOfSums ==
    ASSUME ReservoirInv, SumsInv, rows # <<>>
    PROVE  SameRatio(Finalize.r2, ReferenceR2) /\ SameRatio(Finalize.ev, ReferenceEV)
<1> DEFINE y == sums.y
           y2 == sums.y2
           e == sums.err
           e2 == sums.err2
           a == n * y2 - y * y
           b == n * e2 - e * e
<1>1. n \in Nat /\ n > 0 /\ n = Len(rows)
  BY DEF ReservoirInv
<1>2. /\ y \in Int /\ y2 \in Int
      /\ Deviations(Labels) = n * a /\ Deviations(Labels) >= 0
  BY <1>1, ColumnsType, DeviationsAre DEF SumsInv
<1>3. /\ e \in Int /\ e2 \in Int /\ Deviations(Residuals) = n * b
  BY <1>1, ColumnsType, DeviationsAre DEF SumsInv
<1>4. a \in Int /\ b \in Int
  <2> HIDE DEF y, y2, e, e2
  <2> QED
    BY <1>1, <1>2, <1>3
<1>5. /\ Finalize.r2 = IF a > 0 THEN OneMinus(n * e2, a) ELSE Zero
      /\ Finalize.ev = IF a > 0 THEN OneMinus(b, a) ELSE Zero
  BY <1>1 DEF Finalize, R2Score, ExplainedVariance, Spread, SumsInv
<1>6. /\ ReferenceR2 = IF n * a = 0 THEN Zero ELSE OneMinus((n * n) * e2, n * a)
      /\ ReferenceEV = IF n * a = 0 THEN Zero ELSE OneMinus(n * b, n * a)
  BY <1>1, <1>2, <1>3 DEF ReferenceR2, ReferenceEV, Square, SumsInv
<1> HIDE DEF a, b, y, y2, e, e2
<1>7. n * a >= 0
  BY <1>2
<1>8. (a > 0) <=> (n * a # 0)
  BY <1>1, <1>4, <1>7, SMTT(30)
<1>9. CASE a > 0
  <2>1. /\ Finalize.r2 = Ratio(a - n * e2, a) /\ Finalize.ev = Ratio(a - b, a)
        /\ ReferenceR2 = Ratio(n * a - (n * n) * e2, n * a)
        /\ ReferenceEV = Ratio(n * a - n * b, n * a)
    BY <1>5, <1>6, <1>8, <1>9 DEF OneMinus
  <2>2. (a - n * e2) * (n * a) = (n * a - (n * n) * e2) * a
    BY <1>1, <1>3, <1>4, SMT
  <2>3. (a - b) * (n * a) = (n * a - n * b) * a
    BY <1>1, <1>4, SMT
  <2> QED
    BY <2>1, <2>2, <2>3 DEF SameRatio, Ratio
<1>10. CASE ~(a > 0)
  BY <1>5, <1>6, <1>8, <1>10 DEF SameRatio, Ratio, Zero
<1> QED
  BY <1>9, <1>10

\* However many rows come, the scores of the running sums are those that the mean
\* and the deviations from it give.
THEOREM ScoresAlwaysMatchTwoPasses == Spec => []ScoresMatchTwoPasses
<1>1. Init => SumsInv
  <2> SUFFICES ASSUME Init PROVE SumsInv
    OBVIOUS
  <2>1. DOMAIN rows = 1..0
    BY DEF Init
  <2>2. /\ Labels \in [1..0 -> Int] /\ Squares(Labels) \in [1..0 -> Int]
        /\ Residuals \in [1..0 -> Int] /\ Squares(Residuals) \in [1..0 -> Int]
    BY <2>1 DEF Labels, Residuals, Squares
  <2>3. /\ Sum(Labels) = 0 /\ Sum(Squares(Labels)) = 0
        /\ Sum(Residuals) = 0 /\ Sum(Squares(Residuals)) = 0
    BY <2>2, SumOfNone
  <2>4. sums = [abs |-> 0, sq |-> 0, sqLog |-> 0, y |-> 0, y2 |-> 0, err |-> 0, err2 |-> 0]
    BY DEF Init
  <2> QED
    BY <2>3, <2>4 DEF SumsInv
<1>2. ReservoirInv /\ SumsInv /\ [Next]_vars => SumsInv'
  <2> SUFFICES ASSUME ReservoirInv, SumsInv, [Next]_vars
               PROVE  SumsInv'
    OBVIOUS
  <2>1. CASE UNCHANGED vars
    BY <2>1 DEF vars, SumsInv, Sum, MapThenSumSet, MapThenFoldSet, Labels, Residuals, Squares
  <2>2. CASE Next
    <3>1. PICK p \in Values, l \in Values : Update([pred |-> p, label |-> l])
      BY <2>2 DEF Next
    <3>2. [pred |-> p, label |-> l] \in RowType
      BY DEF RowType
    <3> QED
      BY <3>1, <3>2, SumsStep
  <2> QED
    BY <2>1, <2>2
<1>3. ReservoirInv /\ SumsInv => ScoresMatchTwoPasses
  BY ScoresOfSums DEF ScoresMatchTwoPasses
<1> QED
  BY <1>1, <1>2, <1>3, ReservoirCorrect, PTL DEF Spec

=============================================================================
