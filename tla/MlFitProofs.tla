---------------------------- MODULE MlFitProofs ----------------------------
(***************************************************************************)
(* The two parts of ml_fit, which share no variable: the query itself, and *)
(* the options it is called with.                                          *)
(*                                                                         *)
(* FitPipeline for every set of pipeline threads, every input table, every *)
(* threshold, every number of features and every way to cut the table into *)
(* row groups: one query stores at most the version it shows, and one more *)
(* for each insert that threw after it had stored; what it holds in memory *)
(* is bounded whatever the length of the table; what it trains on are rows *)
(* of the table, none of them twice, and on one thread all of them; the    *)
(* failure of a single thread stores nothing, but by such an insert; no    *)
(* batch file is left; and each step brings the query nearer to its one    *)
(* result row or its error.                                                *)
(*                                                                         *)
(* FitOptions for options of every value, and every width of the integers: *)
(* the ranges the messages state decide what is accepted, but for the two  *)
(* values that the finding about AcceptedIsInRange names, a negative count *)
(* and a NaN.                                                              *)
(***************************************************************************)
EXTENDS FitPipeline, FitOptions, FiniteSetTheorems, SequenceTheorems, WellFoundedInduction, TLAPS

-----------------------------------------------------------------------------
\* The query.

\* A thread works on chunks of the table only, claims them one row group after
\* the other, and the table does not change.
ChunksInv ==
    /\ table \in Tables
    /\ taken \in 0..Len(table)
    /\ next \in [Threads -> 1..(Len(table) + 1)] /\ last \in [Threads -> 0..taken]
    /\ chunk \in [Threads -> {table[i] : i \in DOMAIN table} \union {<<>>}]
    /\ pc \in [Threads -> {"unused", "running", "function", "finalize", "emitting", "finished", "failed"}]
    /\ \A t \in Threads : pc[t] = "function" => \E i \in DOMAIN table : chunk[t] = table[i]

LEMMA InitChunks ==
    ASSUME NEW rows, Tables \subseteq Seq(Seq(rows)), Init
    PROVE  ChunksInv /\ table \in Seq(Seq(rows))
<1>1. table \in Seq(Seq(rows)) /\ table \in Tables
  BY DEF Init
<1>2. 1 \in 1..(Len(table) + 1) /\ 0 \in 0..taken /\ taken = 0
  BY <1>1 DEF Init
<1> QED
  BY <1>1, <1>2 DEF Init, ChunksInv

\* What a step does to the input and to what threads have of it.
LEMMA SourceStep ==
    ASSUME [Next]_vars
    PROVE  /\ UNCHANGED input
           /\ \/ \E t \in Threads : ClaimRowGroup(t)
              \/ \E t \in Threads : TakeChunk(t)
              \/ /\ UNCHANGED <<source, chunk>>
                 /\ \/ UNCHANGED pc
                    \/ \E t \in Threads, to \in {"running", "finalize", "emitting", "finished", "failed"} :
                          pc' = [pc EXCEPT ![t] = to]
<1>1. ASSUME NEW t \in Threads, Step(t), ~ClaimRowGroup(t), ~TakeChunk(t)
      PROVE  /\ UNCHANGED <<input, source, chunk>>
             /\ \E to \in {"running", "finalize", "emitting", "finished", "failed"} :
                   pc' = [pc EXCEPT ![t] = to]
  <2>1. UNCHANGED <<input, source, chunk>>
    BY <1>1 DEF Step, EndOfInput, FunctionReturns, FunctionMeetsNull,
                FunctionFlushThrows, FinalizeAgain, FinalizeFlushThrows, FinalizeWithoutRows,
                FinalizeTrains, TakeResult
  <2>2. \E to \in {"running", "finalize", "emitting", "finished", "failed"} :
           pc' = [pc EXCEPT ![t] = to]
    BY <1>1 DEF Step, EndOfInput, FunctionReturns, FunctionMeetsNull,
                FunctionFlushThrows, FinalizeAgain, FinalizeFlushThrows, FinalizeWithoutRows,
                FinalizeTrains, TakeResult, Fails
  <2> QED
    BY <2>1, <2>2
<1>2. ASSUME NEW t \in Threads, ClaimRowGroup(t) \/ TakeChunk(t) PROVE UNCHANGED input
  BY <1>2 DEF ClaimRowGroup, TakeChunk
<1>3. CASE Close \/ UNCHANGED vars
  BY <1>3 DEF Close, vars
<1> QED
  BY <1>1, <1>2, <1>3 DEF Next

LEMMA ChunksStep ==
    ASSUME NEW Rows, table \in Seq(Seq(Rows)), ChunksInv, [Next]_vars
    PROVE  ChunksInv'
<1>1. table' = table
  BY SourceStep DEF input
<1>2. ASSUME NEW t \in Threads, ClaimRowGroup(t) PROVE ChunksInv'
  <2>1. /\ taken' \in (taken + 1)..Len(table) /\ next' = [next EXCEPT ![t] = taken + 1]
        /\ last' = [last EXCEPT ![t] = taken'] /\ UNCHANGED <<pc, chunk>>
    BY <1>2 DEF ClaimRowGroup
  <2>2. taken \in Nat /\ Len(table) \in Nat /\ taken' \in 0..Len(table) /\ taken < taken'
        /\ taken + 1 \in 1..(Len(table) + 1)
    BY <2>1 DEF ChunksInv
  <2>3. next' \in [Threads -> 1..(Len(table) + 1)]
    BY <2>1, <2>2 DEF ChunksInv
  <2>4. last' \in [Threads -> 0..taken']
    <3>1. last \in [Threads -> 0..taken'] /\ taken' \in 0..taken'
      BY <2>2 DEF ChunksInv
    <3> QED
      BY <2>1, <3>1
  <2> QED
    BY <1>1, <2>1, <2>2, <2>3, <2>4 DEF ChunksInv
<1>3. ASSUME NEW t \in Threads, TakeChunk(t) PROVE ChunksInv'
  <2>1. /\ next' = [next EXCEPT ![t] = next[t] + 1] /\ UNCHANGED <<taken, last>>
        /\ next[t] <= last[t]
        /\ chunk' = [chunk EXCEPT ![t] = table[next[t]]]
        /\ pc' = [pc EXCEPT ![t] = "function"]
    BY <1>3 DEF TakeChunk
  <2>2. next[t] \in DOMAIN table /\ next[t] + 1 \in 1..(Len(table) + 1)
    BY <2>1 DEF ChunksInv
  <2> QED
    BY <1>1, <2>1, <2>2 DEF ChunksInv
<1>4. CASE UNCHANGED <<source, chunk>> /\ (UNCHANGED pc \/
              \E t \in Threads, to \in {"running", "finalize", "emitting", "finished", "failed"} :
                 pc' = [pc EXCEPT ![t] = to])
  <2>1. UNCHANGED <<taken, next, last, chunk>>
    BY <1>4 DEF source
  <2>2. pc' \in [Threads -> {"unused", "running", "function", "finalize", "emitting", "finished", "failed"}]
        /\ \A t \in Threads : pc'[t] = "function" => pc[t] = "function"
    BY <1>4 DEF ChunksInv
  <2> QED
    BY <1>1, <2>1, <2>2 DEF ChunksInv
<1> QED
  BY <1>2, <1>3, <1>4, SourceStep

\* A query stores the version it shows, and more only by inserts that threw
\* after they had stored; each of these has failed a thread.
FailedThreads == {t \in Threads : pc[t] = "failed"}
StoredInv ==
    /\ emitted \in BOOLEAN
    /\ emitted => outputs = 1
    /\ ~emitted => outputs = 0
    /\ Len(published) \in Nat /\ published = [m \in 1..Len(published) |-> published[m]]
    /\ "lost" \notin errors => Len(published) = outputs
    /\ Len(published) <= outputs + Cardinality(FailedThreads)

LEMMA InitStored ==
    ASSUME IsFiniteSet(Threads), Init
    PROVE  StoredInv
<1>1. Cardinality(FailedThreads) \in Nat
  BY FS_Subset, FS_CardinalityType DEF FailedThreads
<1>2. emitted = FALSE /\ outputs = 0 /\ published = <<>> /\ errors = {}
  BY DEF Init
<1>3. Len(published) = 0 /\ published = [m \in 1..Len(published) |-> published[m]]
  BY <1>2
<1>4. emitted \in BOOLEAN
  BY <1>2
<1>5. emitted => outputs = 1
  BY <1>2
<1>6. ~emitted => outputs = 0
  BY <1>2
<1>7. "lost" \notin errors => Len(published) = outputs
  BY <1>2, <1>3
<1>8. Len(published) <= outputs + Cardinality(FailedThreads)
  BY <1>1, <1>2, <1>3
<1> QED
  BY <1>3, <1>4, <1>5, <1>6, <1>7, <1>8 DEF StoredInv

\* One more model, or none.
LEMMA AppendedModel ==
    ASSUME NEW models, Len(models) \in Nat, models = [m \in 1..Len(models) |-> models[m]],
           NEW model
    PROVE  LET more == Append(models, model)
           IN  Len(more) = Len(models) + 1 /\ more = [m \in 1..Len(more) |-> more[m]]
<1> DEFINE S == {models[m] : m \in 1..Len(models)} \union {model}
<1>1. models \in Seq(S) /\ model \in S
  OBVIOUS
<1> HIDE DEF S
<1>2. PICK more : more = Append(models, model)
  OBVIOUS
<1>3. more \in Seq(S) /\ Len(more) = Len(models) + 1
  BY <1>1, <1>2
<1>4. more = [m \in 1..Len(more) |-> more[m]]
  BY <1>3
<1> QED
  BY <1>2, <1>3, <1>4

\* The failed threads of a query whose thread t moves on.
LEMMA FailedThreadsAfter ==
    ASSUME IsFiniteSet(Threads), NEW t \in Threads, pc[t] # "failed",
           \A u \in Threads \ {t} : pc'[u] = pc[u]
    PROVE  /\ Cardinality(FailedThreads) \in Nat
           /\ pc'[t] = "failed" => Cardinality(FailedThreads') = Cardinality(FailedThreads) + 1
           /\ pc'[t] # "failed" => Cardinality(FailedThreads') = Cardinality(FailedThreads)
<1>1. IsFiniteSet(FailedThreads)
  BY FS_Subset DEF FailedThreads
<1>2. t \notin FailedThreads
  BY DEF FailedThreads
<1>3. pc'[t] = "failed" => FailedThreads' = FailedThreads \union {t}
  BY DEF FailedThreads
<1>4. pc'[t] # "failed" => FailedThreads' = FailedThreads
  BY DEF FailedThreads
<1> QED
  BY <1>1, <1>2, <1>3, <1>4, FS_AddElement, FS_CardinalityType

\* A finalizer that comes to the insert finds nothing emitted; it stores and
\* emits, or fails.
LEMMA FinalizeTrainsOnce ==
    ASSUME IsFiniteSet(Threads), ChunksInv, StoredInv, NEW t \in Threads, FinalizeTrains(t)
    PROVE  StoredInv'
<1>1. ~emitted /\ outputs = 0 /\ pc[t] = "finalize"
  BY DEF StoredInv, FinalizeTrains
<1>2. PICK outcome \in InsertOutcomes :
        /\ published' = IF Stores(outcome) THEN Append(published, TrainingData) ELSE published
        /\ emitted' = Emitted(outcome)
        /\ IF outcome = "ok"
             THEN outputs' = outputs + 1 /\ pc' = [pc EXCEPT ![t] = "emitting"] /\ errors' = errors
             ELSE /\ Fails(t, IF outcome = "lost" THEN "lost" ELSE "insert")
                  /\ UNCHANGED outputs
  BY DEF FinalizeTrains
<1>3. Len(published) \in Nat /\ published = [m \in 1..Len(published) |-> published[m]]
      /\ Len(published) <= Cardinality(FailedThreads)
      /\ ("lost" \notin errors => Len(published) = 0)
  <2>1. Cardinality(FailedThreads) \in Nat
    BY FS_Subset, FS_CardinalityType DEF FailedThreads
  <2> QED
    BY <1>1, <2>1 DEF StoredInv
<1>4. ASSUME Stores(outcome)
      PROVE  Len(published') = Len(published) + 1
             /\ published' = [m \in 1..Len(published') |-> published'[m]]
  <2>1. published' = Append(published, TrainingData)
    BY <1>2, <1>4
  <2> HIDE DEF TrainingData
  <2> QED
    BY <1>3, <2>1, AppendedModel
<1>6. CASE outcome = "ok"
  <2>4. emitted' = TRUE
    BY <1>2, <1>6 DEF Emitted
  <2>5. outputs' = 1 /\ pc' = [pc EXCEPT ![t] = "emitting"] /\ errors' = errors
    BY <1>1, <1>2, <1>6
  <2>1. emitted' = TRUE /\ outputs' = 1 /\ errors' = errors
    BY <2>4, <2>5
  <2>6. pc'[t] # "failed" /\ pc[t] # "failed" /\ \A u \in Threads \ {t} : pc'[u] = pc[u]
    BY <1>1, <2>5 DEF ChunksInv
  <2>2. Cardinality(FailedThreads') = Cardinality(FailedThreads)
        /\ Cardinality(FailedThreads) \in Nat
    BY <2>6, FailedThreadsAfter
  <2>3. Len(published') = Len(published) + 1
        /\ published' = [m \in 1..Len(published') |-> published'[m]]
    BY <1>4, <1>6 DEF Stores
  <2> QED
    BY <1>3, <2>1, <2>2, <2>3 DEF StoredInv
<1>7. CASE outcome \in {"failed", "lost"}
  <2>1. emitted' = FALSE /\ outputs' = 0 /\ pc' = [pc EXCEPT ![t] = "failed"]
        /\ errors \subseteq errors' /\ (outcome = "lost" => "lost" \in errors')
    BY <1>1, <1>2, <1>7 DEF Emitted, Fails
  <2>6. pc'[t] = "failed" /\ pc[t] # "failed" /\ \A u \in Threads \ {t} : pc'[u] = pc[u]
    BY <1>1, <2>1 DEF ChunksInv
  <2>2. Cardinality(FailedThreads') = Cardinality(FailedThreads) + 1
        /\ Cardinality(FailedThreads) \in Nat
    BY <2>6, FailedThreadsAfter
  <2>3. CASE outcome = "failed"
    <3>1. published' = published
      BY <1>2, <2>3 DEF Stores
    <3>2. "lost" \notin errors' => "lost" \notin errors
      BY <2>1
    <3>3. Len(published') <= outputs' + Cardinality(FailedThreads')
      BY <1>3, <2>1, <2>2, <3>1
    <3>4. Len(published') \in Nat /\ published' = [m \in 1..Len(published') |-> published'[m]]
      BY <1>3, <3>1
    <3>5. "lost" \notin errors' => Len(published') = outputs'
      BY <1>3, <2>1, <3>1, <3>2
    <3>6. emitted' \in BOOLEAN
      BY <2>1
    <3> QED
      BY <2>1, <3>3, <3>4, <3>5, <3>6 DEF StoredInv
  <2>4. CASE outcome = "lost"
    <3>1. Len(published') = Len(published) + 1
          /\ published' = [m \in 1..Len(published') |-> published'[m]]
      BY <1>4, <2>4 DEF Stores
    <3>2. Len(published') \in Nat
          /\ Len(published') <= outputs' + Cardinality(FailedThreads')
      BY <1>3, <2>1, <2>2, <3>1
    <3>3. "lost" \notin errors' => Len(published') = outputs'
      BY <2>1, <2>4
    <3>4. emitted' \in BOOLEAN
      BY <2>1
    <3> QED
      BY <2>1, <3>1, <3>2, <3>3, <3>4 DEF StoredInv
  <2> QED
    BY <1>7, <2>3, <2>4
<1> QED
  BY <1>6, <1>7, OutcomeAssumption

\* No other step stores or emits.
LEMMA StoredStep ==
    ASSUME IsFiniteSet(Threads), ChunksInv, StoredInv, [Next]_vars
    PROVE  StoredInv'
<1>1. CASE \E t \in Threads : FinalizeTrains(t)
  BY <1>1, FinalizeTrainsOnce
<1>2. ASSUME UNCHANGED result, errors \subseteq errors',
             Cardinality(FailedThreads') \in Nat,
             Cardinality(FailedThreads) <= Cardinality(FailedThreads'),
             Cardinality(FailedThreads) \in Nat
      PROVE  StoredInv'
  BY <1>2 DEF result, StoredInv
<1>3. ASSUME NEW t \in Threads, Step(t), ~FinalizeTrains(t) PROVE StoredInv'
  <2>1. UNCHANGED result
    BY <1>3 DEF Step, ClaimRowGroup, TakeChunk, EndOfInput, FunctionReturns, FunctionMeetsNull,
                FunctionFlushThrows, FinalizeAgain, FinalizeFlushThrows, FinalizeWithoutRows,
                TakeResult
  <2>2. errors \subseteq errors' /\ pc[t] # "failed" /\ \E to : pc' = [pc EXCEPT ![t] = to]
    <3>1. errors \subseteq errors'
      BY <1>3 DEF Step, ClaimRowGroup, TakeChunk, EndOfInput, FunctionReturns, FunctionMeetsNull,
                FunctionFlushThrows, FinalizeAgain, FinalizeFlushThrows, FinalizeWithoutRows,
                TakeResult, Fails
    <3>2. pc[t] # "failed"
      BY <1>3 DEF Step, ClaimRowGroup, TakeChunk, EndOfInput, FunctionReturns, FunctionMeetsNull,
                FunctionFlushThrows, FinalizeAgain, FinalizeFlushThrows, FinalizeWithoutRows,
                TakeResult
    <3>3. CASE ClaimRowGroup(t)
      <4>1. pc' = [pc EXCEPT ![t] = "running"]
        BY <3>3 DEF ClaimRowGroup, ChunksInv
      <4> QED
        BY <3>1, <3>2, <4>1
    <3>4. CASE ~ClaimRowGroup(t)
      <4>1. \E to : pc' = [pc EXCEPT ![t] = to]
        BY <1>3, <3>4 DEF Step, TakeChunk, EndOfInput, FunctionReturns, FunctionMeetsNull,
                FunctionFlushThrows, FinalizeAgain, FinalizeFlushThrows, FinalizeWithoutRows,
                TakeResult, Fails
      <4> QED
        BY <3>1, <3>2, <4>1
    <3> QED
      BY <3>3, <3>4
  <2>4. \A u \in Threads \ {t} : pc'[u] = pc[u]
    BY <2>2 DEF ChunksInv
  <2>3. /\ Cardinality(FailedThreads) \in Nat /\ Cardinality(FailedThreads') \in Nat
        /\ Cardinality(FailedThreads) <= Cardinality(FailedThreads')
    BY <2>2, <2>4, FailedThreadsAfter
  <2> QED
    BY <1>2, <2>1, <2>2, <2>3
<1>4. CASE UNCHANGED <<pc, result, errors>>
  <2>1. Cardinality(FailedThreads) \in Nat
    BY FS_Subset, FS_CardinalityType DEF FailedThreads
  <2> QED
    BY <1>2, <1>4, <2>1 DEF FailedThreads
<1>5. CASE Close \/ UNCHANGED vars
  BY <1>4, <1>5 DEF Close, vars
<1> QED
  BY <1>1, <1>3, <1>5 DEF Next

\* One query stores at most the version it shows, with any number of threads in
\* their finalizers and any order of their inserts failing, and one more for
\* every thread whose insert threw after it had stored.
THEOREM StoredAtMostOnceAlways ==
    ASSUME IsFiniteSet(Threads), NEW CONSTANT Rows, Tables \subseteq Seq(Seq(Rows))
    PROVE  Spec => []StoredAtMostOnce
<1> DEFINE Inv == ChunksInv /\ StoredInv
<1>1. Init => Inv
  <2> SUFFICES ASSUME Init PROVE Inv
    OBVIOUS
  <2>1. ChunksInv
    BY InitChunks
  <2> QED
    BY <2>1, InitStored
<1>2. Inv /\ [Next]_vars => Inv'
  <2> SUFFICES ASSUME Inv, [Next]_vars
               PROVE  Inv'
    OBVIOUS
  <2>1. table \in Seq(Seq(Rows))
    BY DEF ChunksInv
  <2> QED
    BY <2>1, ChunksStep, StoredStep
<1>3. Inv => StoredAtMostOnce
  BY DEF StoredInv, FailedThreads, StoredAtMostOnce
<1> QED
  BY <1>1, <1>2, <1>3, PTL DEF Spec

-----------------------------------------------------------------------------
\* Until something fails, less than the threshold is pending, and nothing is
\* without a chunk in the table; and no batch is longer than the threshold and a
\* chunk.
BoundedInv ==
    ~Failing =>
        /\ pending.rows \in Nat /\ pending.rows < FlushRows
        /\ pending.rows > 0 => DOMAIN table # {}
        /\ Len(batches) \in Nat /\ batches = [b \in 1..Len(batches) |-> batches[b]]
        /\ \A b \in DOMAIN batches : \E i \in DOMAIN table :
              Len(batches[b]) < FlushRows + Len(table[i])

\* A chunk is a sequence.
ChunksOf(rows) == table \in Seq(Seq(rows))

\* A flush ends with an empty buffer, and adds the buffer's rows as one batch.
LEMMA FlushKeepsBounds ==
    ASSUME NEW rows, ChunksOf(rows), NEW p, p.rows \in Nat,
           NEW i \in DOMAIN table, p.rows < FlushRows + Len(table[i]),
           Len(batches) \in Nat, batches = [b \in 1..Len(batches) |-> batches[b]],
           \A b \in DOMAIN batches : \E k \in DOMAIN table :
                Len(batches[b]) < FlushRows + Len(table[k]),
           FlushSucceeds(p)
    PROVE  /\ pending'.rows = 0
           /\ Len(batches') \in Nat /\ batches' = [b \in 1..Len(batches') |-> batches'[b]]
           /\ \A b \in DOMAIN batches' : \E k \in DOMAIN table :
                Len(batches'[b]) < FlushRows + Len(table[k])
<1>1. CASE p.rows = 0
  BY <1>1 DEF FlushSucceeds, store
<1>2. CASE p.rows # 0
  <2>1. pending' = Nothing /\ batches' = Append(batches, BatchOf(p))
    BY <1>2 DEF FlushSucceeds, ClearedBuffer
  <2>2. Len(BatchOf(p)) = p.rows
    BY DEF BatchOf
  <2> DEFINE new == BatchOf(p)
             S == {batches[b] : b \in 1..Len(batches)} \union {new}
  <2> HIDE DEF new
  <2>3. batches \in Seq(S)
    BY DEF S
  <2>4. new \in S
    BY DEF S
  <2> HIDE DEF S
  <2>5. batches' \in Seq(S) /\ Len(batches') = Len(batches) + 1
    BY <2>1, <2>3, <2>4 DEF new
  <2>6. \A b \in DOMAIN batches' : (b \in DOMAIN batches /\ batches'[b] = batches[b]) \/ batches'[b] = new
    BY <2>1, <2>3, <2>4, <2>5 DEF new
  <2>7. \A b \in DOMAIN batches' : \E k \in DOMAIN table :
            Len(batches'[b]) < FlushRows + Len(table[k])
    BY <2>2, <2>6 DEF new
  <2>8. pending'.rows = 0
    BY <2>1 DEF Nothing
  <2>9. Len(batches') \in Nat /\ batches' = [b \in 1..Len(batches') |-> batches'[b]]
    BY <2>5
  <2> QED
    BY <2>7, <2>8, <2>9
<1> QED
  BY <1>1, <1>2

\* Errors are only ever added.
LEMMA FailingStays ==
    ASSUME [Next]_vars
    PROVE  Failing => Failing'
<1>1. CASE \E t \in Threads : Step(t)
  BY <1>1 DEF Failing, Step, ClaimRowGroup, TakeChunk, EndOfInput, FunctionReturns, FunctionMeetsNull,
              FunctionFlushThrows, FinalizeAgain, FinalizeFlushThrows, FinalizeWithoutRows,
              FinalizeTrains, TakeResult, Fails
<1> QED
  BY <1>1 DEF Next, Close, vars, Failing

\* Pushing a whole chunk adds its rows to the buffer's.
LEMMA PushedRows ==
    ASSUME NEW p, NEW ch, GoodRows(ch) = ch
    PROVE  Pushed(p, ch).rows = p.rows + Len(ch)
BY DEF Pushed

\* MlFitFunction brings the pending rows back under the threshold.
LEMMA FunctionKeepsBounds ==
    ASSUME NEW rows, ChunksOf(rows), ChunksInv, BoundedInv, ~Failing,
           NEW t \in Threads, FunctionReturns(t)
    PROVE  BoundedInv'
<1> DEFINE p == Pushed(pending, chunk[t])
<1>1. pc[t] = "function" /\ GoodRows(chunk[t]) = chunk[t] /\ table' = table /\ errors' = errors
  BY DEF FunctionReturns, input
<1>2. PICK i \in DOMAIN table : chunk[t] = table[i]
  BY <1>1 DEF ChunksInv
<1>3. Len(table[i]) \in Nat
  BY DEF ChunksOf
<1>4. p.rows = pending.rows + Len(table[i])
  BY <1>1, <1>2, PushedRows
<1>5. pending.rows \in Nat /\ pending.rows < FlushRows
  BY DEF BoundedInv
<1>6. p.rows \in Nat /\ p.rows < FlushRows + Len(table[i])
  BY <1>3, <1>4, <1>5, FlushRowsAssumption
<1>7. CASE chunk[t] # <<>> /\ FlushIsDue(p)
  <2>1. FlushSucceeds(p)
    BY <1>7 DEF FunctionReturns
  <2> HIDE DEF p
  <2>2. /\ pending'.rows = 0
        /\ Len(batches') \in Nat /\ batches' = [b \in 1..Len(batches') |-> batches'[b]]
        /\ \A b \in DOMAIN batches' : \E k \in DOMAIN table :
              Len(batches'[b]) < FlushRows + Len(table[k])
    BY <1>6, <2>1, FlushKeepsBounds DEF BoundedInv
  <2> QED
    BY <1>1, <2>2, FlushRowsAssumption DEF BoundedInv
<1>8. CASE ~(chunk[t] # <<>> /\ FlushIsDue(p))
  <2>1. pending' = p /\ batches' = batches
    BY <1>8 DEF FunctionReturns, store
  <2>2. p.rows < FlushRows
    <3>1. CASE chunk[t] = <<>>
      BY <1>2, <1>4, <1>5, <3>1
    <3>2. CASE chunk[t] # <<>>
      BY <1>6, <1>8, <3>2, FlushRowsAssumption DEF FlushIsDue
    <3> QED
      BY <3>1, <3>2
  <2> HIDE DEF p
  <2> QED
    BY <1>1, <1>2, <1>6, <2>1, <2>2 DEF BoundedInv
<1> QED
  BY <1>7, <1>8

\* MlFitFinalize flushes what was left under the threshold.
LEMMA FinalizeKeepsBounds ==
    ASSUME NEW rows, ChunksOf(rows), BoundedInv, ~Failing, FlushSucceeds(pending),
           table' = table
    PROVE  BoundedInv'
<1>1. pending.rows \in Nat /\ pending.rows < FlushRows
  BY DEF BoundedInv
<1>2. CASE pending.rows = 0
  BY <1>2, FlushRowsAssumption DEF BoundedInv, FlushSucceeds, store
<1>3. CASE pending.rows # 0
  <2>1. PICK i \in DOMAIN table : TRUE
    BY <1>1, <1>3 DEF BoundedInv
  <2>2. Len(table[i]) \in Nat
    BY DEF ChunksOf
  <2>3. pending.rows < FlushRows + Len(table[i])
    BY <1>1, <2>2, FlushRowsAssumption
  <2>4. /\ pending'.rows = 0
        /\ Len(batches') \in Nat /\ batches' = [b \in 1..Len(batches') |-> batches'[b]]
        /\ \A b \in DOMAIN batches' : \E k \in DOMAIN table :
              Len(batches'[b]) < FlushRows + Len(table[k])
    BY <1>1, <2>3, FlushKeepsBounds DEF BoundedInv
  <2> QED
    BY <2>4, FlushRowsAssumption DEF BoundedInv
<1> QED
  BY <1>2, <1>3

\* Memory stays bounded whatever the length of the table, the number of threads
\* and the order they flush in: no training data is collected as a whole.
THEOREM MemoryAlwaysBounded ==
    ASSUME NEW CONSTANT Rows, Tables \subseteq Seq(Seq(Rows))
    PROVE  Spec => []MemoryIsBounded
<1> DEFINE Inv == ChunksInv /\ BoundedInv
<1>1. Init => Inv
  <2> SUFFICES ASSUME Init PROVE Inv
    OBVIOUS
  <2>1. table \in Seq(Seq(Rows))
    BY DEF Init
  <2>2. ChunksInv
    BY InitChunks
  <2>3. BoundedInv
    BY FlushRowsAssumption DEF Init, BoundedInv, Nothing
  <2> QED
    BY <2>2, <2>3
<1>2. Inv /\ [Next]_vars => Inv'
  <2> SUFFICES ASSUME Inv, [Next]_vars
               PROVE  Inv'
    OBVIOUS
  <2>1. ChunksOf(Rows)
    BY DEF ChunksInv, ChunksOf
  <2>2. ChunksInv'
    BY <2>1, ChunksStep DEF ChunksOf
  <2>3. BoundedInv'
    <3>1. CASE Failing \/ Failing'
      BY <3>1, FailingStays DEF BoundedInv
    <3>2. CASE ~Failing /\ ~Failing' /\ \E t \in Threads : FunctionReturns(t)
      BY <2>1, <3>2, FunctionKeepsBounds
    <3>3. CASE ~Failing /\ ~Failing' /\ \E t \in Threads : FinalizeTrains(t)
      <4>1. FlushSucceeds(pending) /\ table' = table
        BY <3>3 DEF FinalizeTrains, input
      <4> QED
        BY <2>1, <3>3, <4>1, FinalizeKeepsBounds
    <3>4. CASE ~Failing /\ ~Failing' /\ \E t \in Threads :
                 Step(t) /\ ~FunctionReturns(t) /\ ~FinalizeTrains(t)
      <4>1. UNCHANGED <<table, pending, batches, errors>>
        BY <3>4 DEF Step, ClaimRowGroup, TakeChunk, EndOfInput, FunctionMeetsNull, FunctionFlushThrows,
                    FinalizeAgain, FinalizeFlushThrows, FinalizeWithoutRows, TakeResult,
                    Fails, Failing, input, store
      <4> QED
        BY <4>1 DEF BoundedInv, Failing
    <3>5. CASE Close \/ UNCHANGED vars
      <4>1. UNCHANGED <<table, pending, batches, errors>>
        BY <3>5 DEF Close, vars, input, store
      <4> QED
        BY <4>1 DEF BoundedInv, Failing
    <3> QED
      BY <3>1, <3>2, <3>3, <3>4, <3>5 DEF Next
  <2> QED
    BY <2>2, <2>3
<1>3. Inv => MemoryIsBounded
  BY DEF BoundedInv, MemoryIsBounded
<1> QED
  BY <1>1, <1>2, <1>3, PTL DEF Spec

-----------------------------------------------------------------------------
\* A buffer holds its rows one after the other: place (k - 1) * n + f.

LEMMA MulMonotonic ==
    ASSUME NEW a \in Nat, NEW b \in Nat, NEW n \in Nat, a <= b
    PROVE  a * n <= b * n
BY SMT

LEMMA MulDistributes ==
    ASSUME NEW a \in Nat, NEW b \in Nat, NEW n \in Nat
    PROVE  (a + b) * n = a * n + b * n
BY SMT

LEMMA DivModOfPlace ==
    ASSUME NEW q \in Nat, NEW n \in Nat \ {0}, NEW r \in 0..n-1
    PROVE  (q * n + r) \div n = q /\ (q * n + r) % n = r
BY SMT

LEMMA DivModOfNat ==
    ASSUME NEW x \in Nat, NEW n \in Nat \ {0}
    PROVE  /\ x \div n \in Nat /\ x % n \in 0..n-1
           /\ n * (x \div n) <= x
<1>1. x \div n \in Nat
  BY SMT
<1>2. x % n \in 0..n-1
  BY SMT
<1>3. n * (x \div n) <= x
  BY SMT
<1> QED
  BY <1>1, <1>2, <1>3

\* A set of natural numbers that is not empty has its Min.
LEMMA MinOfNat ==
    ASSUME NEW S, S \subseteq Nat, S # {}
    PROVE  Min(S) \in S /\ \A y \in S : Min(S) <= y
<1>1. \E x \in S : \A y \in S : ~(<<y, x>> \in OpToRel(<, Nat))
  BY NatLessThanWellFounded, WFMin
<1>2. \E x \in S : \A y \in S : x <= y
  <2>1. PICK x \in S : \A y \in S : ~(<<y, x>> \in OpToRel(<, Nat))
    BY <1>1
  <2>2. ASSUME NEW y \in S PROVE x <= y
    <3>1. <<y, x>> \in Nat \X Nat /\ ~(<<y, x>> \in {ss \in Nat \X Nat : ss[1] < ss[2]})
      BY <2>1 DEF OpToRel
    <3>2. ~(y < x)
      BY <3>1
    <3> QED
      BY <3>2
  <2> QED
    BY <2>2
<1> QED
  BY <1>2 DEF Min

\* The complete rows are the beginning of the chunk.
LEMMA GoodRowsArePrefix ==
    ASSUME NEW rows, NEW ch \in Seq(rows)
    PROVE  /\ GoodRows(ch) \in Seq(rows) /\ Len(GoodRows(ch)) <= Len(ch)
           /\ \A k \in 1..Len(GoodRows(ch)) : GoodRows(ch)[k] = ch[k]
           /\ GoodRows(ch) # ch => Len(GoodRows(ch)) < Len(ch)
<1> DEFINE I == {i \in 1..Len(ch) : HasNull(ch[i])}
           first == IF I # {} THEN Min(I) ELSE 0
<1>1. GoodRows(ch) = IF first = 0 THEN ch ELSE SubSeq(ch, 1, first - 1)
  BY DEF GoodRows, SelectInSeq
<1>2. CASE I = {}
  BY <1>1, <1>2
<1>3. CASE I # {}
  <2>1. Min(I) \in 1..Len(ch)
    <3>1. I \subseteq Nat /\ I \subseteq 1..Len(ch)
      OBVIOUS
    <3> HIDE DEF I
    <3>2. Min(I) \in I
      BY <1>3, <3>1, MinOfNat
    <3> QED
      BY <3>1, <3>2
  <2> HIDE DEF I
  <2> QED
    BY <1>1, <1>3, <2>1
<1> QED
  BY <1>2, <1>3

\* Where a buffer of rows has cell f of row k, and how many cells k rows are.
Place(k, f) == (k - 1) * NFeatures + f
Size(k) == k * NFeatures

Cells(rows) == rows \X Features

\* The cells of row k of a buffer with the cells s are those of row.
HoldsRow(s, k, row) == \A f \in Features : s[Place(k, f)] = <<row, f>>

\* CellsOf lays rows out one after the other.
LEMMA CellsOfRows ==
    ASSUME NEW rows, NEW ch \in Seq(rows)
    PROVE  /\ CellsOf(ch) \in Seq(Cells(rows))
           /\ Len(CellsOf(ch)) = Size(Len(ch))
           /\ \A k \in 1..Len(ch) : HoldsRow(CellsOf(ch), k, ch[k])
<1> DEFINE n == NFeatures
           len == Len(ch) * n
<1>1. n \in Nat \ {0} /\ Len(ch) \in Nat /\ len \in Nat
  BY NFeaturesAssumption
<1>2. ASSUME NEW k \in 1..Len(ch), NEW f \in Features
      PROVE  /\ (k - 1) * n + f \in 1..len
             /\ (((k - 1) * n + f) - 1) \div n = k - 1
             /\ (((k - 1) * n + f) - 1) % n = f - 1
  <2>1. k \in Nat /\ f \in Nat /\ k - 1 \in Nat /\ f - 1 \in 0..n-1 /\ (k - 1) * n \in Nat
    BY <1>1, <1>2 DEF Features
  <2>2. ((k - 1) * n + (f - 1)) \div n = k - 1 /\ ((k - 1) * n + (f - 1)) % n = f - 1
    BY <1>1, <2>1, DivModOfPlace
  <2>3. ((k - 1) * n + f) - 1 = (k - 1) * n + (f - 1)
    BY <1>1, <2>1
  <2>4. k * n <= len
    BY <1>1, MulMonotonic
  <2>5. k * n = (k - 1) * n + n
    BY <1>1, <2>1, MulDistributes
  <2>6. (k - 1) * n + f \in 1..len
    BY <1>1, <2>1, <2>4, <2>5
  <2> QED
    BY <2>2, <2>3, <2>6
<1>3. ASSUME NEW i \in 1..len
      PROVE  ((i - 1) \div n) + 1 \in 1..Len(ch) /\ ((i - 1) % n) + 1 \in Features
  <2>1. i - 1 \in Nat /\ i - 1 < Len(ch) * n
    BY <1>1
  <2>2. (i - 1) \div n \in Nat /\ (i - 1) % n \in 0..n-1 /\ n * ((i - 1) \div n) <= i - 1
    BY <1>1, <2>1, DivModOfNat
  <2>3. (i - 1) \div n < Len(ch)
    <3> SUFFICES ASSUME Len(ch) <= (i - 1) \div n PROVE FALSE
      BY <1>1, <2>2
    <3>1. Len(ch) * n <= ((i - 1) \div n) * n
      BY <1>1, <2>2, MulMonotonic
    <3> QED
      BY <1>1, <2>1, <2>2, <3>1
  <2> QED
    BY <1>1, <2>2, <2>3 DEF Features
<1>4. CellsOf(ch) = [i \in 1..len |-> <<ch[((i - 1) \div n) + 1], ((i - 1) % n) + 1>>]
  BY DEF CellsOf
<1> HIDE DEF len, n
<1>5. CellsOf(ch) \in Seq(Cells(rows)) /\ Len(CellsOf(ch)) = len
  BY <1>1, <1>3, <1>4 DEF Cells
<1>6. ASSUME NEW k \in 1..Len(ch), NEW f \in Features
      PROVE  CellsOf(ch)[(k - 1) * n + f] = <<ch[k], f>>
  <2>1. CellsOf(ch)[(k - 1) * n + f] = <<ch[(k - 1) + 1], (f - 1) + 1>>
    BY <1>2, <1>4
  <2> QED
    BY <1>1, <2>1 DEF Features
<1> QED
  BY <1>5, <1>6 DEF HoldsRow, Place, Size, len, n

-----------------------------------------------------------------------------
\* What the rows pushed to a buffer make of it.

Typed(rows, p) ==
    p.rows \in Nat /\ p.cells \in Seq(Cells(rows)) /\ p.labels \in Seq(rows)

\* Row k of the buffer is a row of the table, and so is its label.
IsTableRow(p, k) ==
    \E row \in AllRows : HoldsRow(p.cells, k, row) /\ (BoostedTree => p.labels[k] = row)

\* Nothing but whole rows of the table.
Whole(p) ==
    /\ Len(p.cells) = Size(p.rows)
    /\ BoostedTree => Len(p.labels) = p.rows
    /\ \A k \in 1..p.rows : IsTableRow(p, k)

\* A part of a row was left in the buffer, and its label betrays it for good.
Poisoned(p) == BoostedTree /\ Len(p.labels) > p.rows

Sound(p) == Whole(p) \/ Poisoned(p)

\* The buffer after the rows good and nothing of a row after them.
AllPushed(p, good) ==
    [cells |-> p.cells \o CellsOf(good),
     labels |-> IF BoostedTree THEN p.labels \o good ELSE p.labels,
     rows |-> p.rows + Len(good)]

LEMMA AllPushedTyped ==
    ASSUME NEW rows, NEW p, Typed(rows, p), NEW good \in Seq(rows)
    PROVE  Typed(rows, AllPushed(p, good))
<1>1. CellsOf(good) \in Seq(Cells(rows)) /\ Len(good) \in Nat
  BY CellsOfRows
<1> QED
  BY <1>1 DEF Typed, AllPushed

\* The places of the rows 1..a are the places 1..Size(a).
LEMMA PlaceInRange ==
    ASSUME NEW a \in Nat, NEW k \in 1..a, NEW f \in Features
    PROVE  Place(k, f) \in 1..Size(a)
<1> DEFINE before == (k - 1) * NFeatures
<1>1. NFeatures \in Nat \ {0} /\ f \in 1..NFeatures
  BY NFeaturesAssumption DEF Features
<1>2. k \in Nat /\ k - 1 \in Nat /\ 1 \in Nat /\ k <= a /\ k = (k - 1) + 1
  OBVIOUS
<1>3. before \in Nat /\ Size(a) \in Nat
  BY <1>1, <1>2 DEF Size
<1>4. k * NFeatures <= Size(a)
  BY <1>1, <1>2, MulMonotonic DEF Size
<1>5. k * NFeatures = before + 1 * NFeatures
  BY <1>1, <1>2, MulDistributes
<1>6. 1 * NFeatures = NFeatures
  BY <1>1
<1>7. Place(k, f) = before + f
  BY DEF Place
<1> HIDE DEF before
<1>8. before + NFeatures <= Size(a)
  BY <1>4, <1>5, <1>6
<1> QED
  BY <1>1, <1>3, <1>7, <1>8

LEMMA SizeOfSum ==
    ASSUME NEW a \in Nat, NEW b \in Nat
    PROVE  Size(a) \in Nat /\ Size(a + b) = Size(a) + Size(b)
BY MulDistributes, NFeaturesAssumption DEF Size

LEMMA PlaceBehind ==
    ASSUME NEW a \in Nat, NEW j \in Nat \ {0}, NEW f \in Features
    PROVE  Place(a + j, f) = Size(a) + Place(j, f)
<1>1. NFeatures \in Nat /\ f \in Nat /\ j - 1 \in Nat /\ (a + j) - 1 = a + (j - 1)
  BY NFeaturesAssumption DEF Features
<1>2. (a + (j - 1)) * NFeatures = Size(a) + Size(j - 1)
  BY <1>1, SizeOfSum DEF Size
<1>3. Place(a + j, f) = (Size(a) + Size(j - 1)) + f /\ Place(j, f) = Size(j - 1) + f
  BY <1>1, <1>2 DEF Place, Size
<1>4. Size(a) \in Nat /\ Size(j - 1) \in Nat
  BY <1>1, SizeOfSum
<1> QED
  BY <1>1, <1>3, <1>4

\* Rows behind rows: the places of the first stay, those of the others move on.
LEMMA LengthOfConcat ==
    ASSUME NEW S, NEW s \in Seq(S), NEW t \in Seq(S), NEW a \in Nat, NEW b \in Nat,
           Len(s) = Size(a), Len(t) = Size(b)
    PROVE  Len(s \o t) = Size(a + b)
<1>1. Len(s \o t) = Len(s) + Len(t)
  BY ConcatProperties
<1> QED
  BY <1>1, SizeOfSum

LEMMA FirstPlaces ==
    ASSUME NEW S, NEW s \in Seq(S), NEW t \in Seq(S), NEW a \in Nat, Len(s) = Size(a),
           NEW k \in 1..a, NEW f \in Features
    PROVE  (s \o t)[Place(k, f)] = s[Place(k, f)]
<1>1. Place(k, f) \in 1..Len(s)
  BY PlaceInRange
<1> QED
  BY <1>1

\* The cells of a buffer stay where they are when rows are pushed behind them.
LEMMA AllPushedCells ==
    ASSUME NEW rows, NEW p, Typed(rows, p), Len(p.cells) = Size(p.rows), NEW good \in Seq(rows)
    PROVE  /\ Len(AllPushed(p, good).cells) = Size(p.rows + Len(good))
           /\ \A k \in 1..p.rows, f \in Features :
                 AllPushed(p, good).cells[Place(k, f)] = p.cells[Place(k, f)]
           /\ \A j \in 1..Len(good), f \in Features :
                 AllPushed(p, good).cells[Place(p.rows + j, f)] = CellsOf(good)[Place(j, f)]
<1> DEFINE q == AllPushed(p, good)
<1>1. PICK S, old, new, had, count, all :
          /\ S = Cells(rows) /\ old = p.cells /\ new = CellsOf(good)
          /\ had = p.rows /\ count = Len(good) /\ all = had + count
  OBVIOUS
<1>2. count \in Nat /\ had \in Nat
  BY <1>1 DEF Typed
<1>3. new \in Seq(S) /\ Len(new) = Size(count)
  BY <1>1, CellsOfRows
<1>4. old \in Seq(S) /\ Len(old) = Size(had)
  BY <1>1 DEF Typed
<1>5. q.cells = old \o new /\ q.rows = all
  BY <1>1 DEF AllPushed
<1> HIDE DEF q
<1>6. /\ Len(old \o new) = Size(had + count)
      /\ \A k \in 1..had, f \in Features : (old \o new)[Place(k, f)] = old[Place(k, f)]
      /\ \A j \in 1..count, f \in Features :
            (old \o new)[Place(had + j, f)] = new[Place(j, f)]
  <2>1. Len(old \o new) = Size(had + count)
    BY <1>2, <1>3, <1>4, LengthOfConcat
  <2>2. ASSUME NEW k \in 1..had, NEW f \in Features
        PROVE  (old \o new)[Place(k, f)] = old[Place(k, f)]
    BY <1>2, <1>3, <1>4, FirstPlaces
  <2>3. ASSUME NEW j \in 1..count, NEW f \in Features
        PROVE  (old \o new)[Place(had + j, f)] = new[Place(j, f)]
    <3>1. Place(j, f) \in 1..Len(new)
      BY <1>2, <1>3, PlaceInRange
    <3>2. Place(had + j, f) = Len(old) + Place(j, f)
      BY <1>2, <1>4, PlaceBehind
    <3>3. ASSUME NEW i \in 1..Len(new) PROVE (old \o new)[Len(old) + i] = new[i]
      BY <1>3, <1>4
    <3> QED
      BY <3>1, <3>2, <3>3
  <2> QED
    BY <2>1, <2>2, <2>3
<1>7. /\ Len(q.cells) = Size(all)
      /\ \A k \in 1..had, f \in Features : q.cells[Place(k, f)] = p.cells[Place(k, f)]
      /\ \A j \in 1..count, f \in Features : q.cells[Place(had + j, f)] = new[Place(j, f)]
  <2>1. Len(q.cells) = Size(all)
    BY <1>1, <1>5, <1>6
  <2>2. \A k \in 1..had, f \in Features : q.cells[Place(k, f)] = p.cells[Place(k, f)]
    BY <1>1, <1>5, <1>6, ZenonT(60)
  <2>3. ASSUME NEW j \in 1..count, NEW f \in Features
        PROVE  q.cells[Place(had + j, f)] = new[Place(j, f)]
    BY <1>5, <1>6
  <2> QED
    BY <2>1, <2>2, <2>3
<1> QED
  BY <1>1, <1>7 DEF q

\* Complete rows behind whole rows are whole rows.
LEMMA AllPushedWhole ==
    ASSUME NEW rows, NEW p, Typed(rows, p), Whole(p), NEW good \in Seq(rows),
           \A k \in 1..Len(good) : good[k] \in AllRows
    PROVE  Whole(AllPushed(p, good))
<1> DEFINE q == AllPushed(p, good)
<1>1. PICK new, had, count, all :
          new = CellsOf(good) /\ had = p.rows /\ count = Len(good) /\ all = had + count
  OBVIOUS
<1>2. count \in Nat /\ had \in Nat
  BY <1>1 DEF Typed
<1>3. q.rows = all
  BY <1>1 DEF AllPushed
<1>4. /\ Len(q.cells) = Size(all)
      /\ \A k \in 1..had, f \in Features : q.cells[Place(k, f)] = p.cells[Place(k, f)]
      /\ \A j \in 1..count, f \in Features : q.cells[Place(had + j, f)] = new[Place(j, f)]
  BY <1>1, AllPushedCells DEF Whole
<1> HIDE DEF q
<1>5. BoostedTree => /\ Len(q.labels) = all
                     /\ \A k \in 1..had : q.labels[k] = p.labels[k]
                     /\ \A j \in 1..count : q.labels[had + j] = good[j]
  <2> SUFFICES ASSUME BoostedTree
               PROVE  /\ Len(q.labels) = all
                      /\ \A k \in 1..had : q.labels[k] = p.labels[k]
                      /\ \A j \in 1..count : q.labels[had + j] = good[j]
    OBVIOUS
  <2>1. PICK labels : labels = p.labels
    OBVIOUS
  <2>2. q.labels = labels \o good /\ labels \in Seq(rows) /\ Len(labels) = had
    BY <1>1, <2>1 DEF AllPushed, Typed, Whole, q
  <2>3. Len(labels \o good) = Len(labels) + Len(good)
    BY <2>2, ConcatProperties
  <2>4. \A k \in 1..had : (labels \o good)[k] = labels[k]
    BY <2>2
  <2>5. \A j \in 1..count : (labels \o good)[had + j] = good[j]
    BY <1>1, <1>2, <2>2, SMTT(30)
  <2> QED
    BY <1>1, <2>1, <2>2, <2>3, <2>4, <2>5
<1>6. ASSUME NEW k \in 1..had
      PROVE  IsTableRow(q, k)
  <2>1. PICK row \in AllRows : HoldsRow(p.cells, k, row) /\ (BoostedTree => p.labels[k] = row)
    BY <1>1 DEF Whole, IsTableRow
  <2>2. HoldsRow(q.cells, k, row)
    BY <1>4, <2>1 DEF HoldsRow
  <2> QED
    BY <1>5, <2>1, <2>2 DEF IsTableRow
<1>7. ASSUME NEW j \in 1..count
       PROVE  IsTableRow(q, had + j)
  <2>1. HoldsRow(new, j, good[j]) /\ good[j] \in AllRows
    BY <1>1, CellsOfRows
  <2>2. HoldsRow(q.cells, had + j, good[j])
    BY <1>4, <2>1 DEF HoldsRow
  <2> QED
    BY <1>5, <2>1, <2>2 DEF IsTableRow
<1>8. ASSUME NEW k \in 1..all
       PROVE  IsTableRow(q, k)
  <2>1. k \in 1..had \/ (k - had \in 1..count /\ k = had + (k - had))
    BY <1>1, <1>2
  <2> QED
    BY <1>6, <1>7, <2>1
<1> QED
  BY <1>3, <1>4, <1>5, <1>8 DEF Whole, q

\* The cells of a row before its first NULL are cells of the row.
LEMMA PartialCellsTyped ==
    ASSUME NEW rows, NEW row \in rows
    PROVE  PartialCells(row) \in Seq(Cells(rows))
<1> DEFINE S == {g \in Features : \A h \in 1..g : ~IsNull(row, h)}
<1>1. IsFiniteSet(Features) /\ Cardinality(Features) = NFeatures /\ NFeatures \in Nat
  BY FS_Interval, NFeaturesAssumption DEF Features
<1>2. Cardinality(S) \in Nat /\ Cardinality(S) <= NFeatures
  <2>1. S \subseteq Features
    OBVIOUS
  <2> HIDE DEF S
  <2>2. IsFiniteSet(S) /\ Cardinality(S) <= Cardinality(Features)
    BY <1>1, <2>1, FS_Subset
  <2> QED
    BY <1>1, <2>2, FS_CardinalityType
<1>3. PartialCells(row) = [f \in 1..Cardinality(S) |-> <<row, f>>]
  BY DEF PartialCells
<1> HIDE DEF S
<1>4. \A f \in 1..Cardinality(S) : <<row, f>> \in Cells(rows)
  BY <1>2, NFeaturesAssumption DEF Cells, Features
<1> QED
  BY <1>2, <1>3, <1>4

\* A chunk whose rows are rows of the table.
TableChunk(rows, ch) == ch \in Seq(rows) /\ \A k \in 1..Len(ch) : ch[k] \in AllRows

LEMMA PushedOfWholeChunk ==
    ASSUME NEW p, NEW ch, GoodRows(ch) = ch
    PROVE  Pushed(p, ch) = AllPushed(p, ch)
BY DEF Pushed, AllPushed

\* A chunk leaves a sound buffer sound, also when a NULL in it throws; only for
\* a PCA a NULL may leave a part of a row that nothing tells.
LEMMA PushedTypedAndSound ==
    ASSUME NEW rows, NEW p, Typed(rows, p), NEW ch, TableChunk(rows, ch)
    PROVE  /\ Typed(rows, Pushed(p, ch))
           /\ Sound(p) /\ (BoostedTree \/ GoodRows(ch) = ch) => Sound(Pushed(p, ch))
           /\ Sound(p) /\ (BoostedTree \/ GoodRows(ch) = ch) /\ ~Poisoned(Pushed(p, ch)) =>
                 Whole(p) /\ Pushed(p, ch) = AllPushed(p, GoodRows(ch))
<1> DEFINE good == GoodRows(ch)
           bad == ch[Len(good) + 1]
           all == AllPushed(p, good)
           q == Pushed(p, ch)
<1>1. /\ good \in Seq(rows) /\ Len(good) \in Nat
      /\ \A k \in 1..Len(good) : good[k] \in AllRows
      /\ good # ch => bad \in rows
  <2>1. /\ good \in Seq(rows) /\ Len(good) <= Len(ch)
        /\ \A k \in 1..Len(good) : good[k] = ch[k]
        /\ good # ch => Len(good) < Len(ch)
    BY GoodRowsArePrefix DEF TableChunk
  <2> HIDE DEF good
  <2> QED
    BY <2>1 DEF TableChunk
<1>2. Typed(rows, all)
  BY <1>1, AllPushedTyped
<1>3. Whole(p) => Whole(all)
  BY <1>1, AllPushedWhole
<1>4. Poisoned(p) => Poisoned(all)
  <2> SUFFICES ASSUME Poisoned(p) PROVE Poisoned(all)
    OBVIOUS
  <2>1. PICK labels : labels = p.labels
    OBVIOUS
  <2>2. labels \in Seq(rows) /\ Len(labels) > p.rows /\ p.rows \in Nat /\ BoostedTree
    BY <2>1 DEF Poisoned, Typed
  <2>3. all.labels = labels \o good /\ all.rows = p.rows + Len(good)
    BY <2>1, <2>2 DEF AllPushed
  <2> HIDE DEF good, all
  <2>4. Len(labels \o good) = Len(labels) + Len(good)
    BY <1>1, <2>2, ConcatProperties
  <2> QED
    BY <1>1, <2>2, <2>3, <2>4 DEF Poisoned
<1>5. CASE good = ch \/ (BoostedTree /\ IsNull(bad, Label))
  <2>1. Pushed(p, ch) = AllPushed(p, GoodRows(ch))
    BY <1>5 DEF Pushed, AllPushed
  <2>2. Sound(p) /\ ~Poisoned(all) => Whole(p)
    BY <1>4 DEF Sound
  <2>3. Typed(rows, all) /\ (Sound(p) => Sound(all))
    BY <1>2, <1>3, <1>4 DEF Sound
  <2> QED
    BY <2>1, <2>2, <2>3, Zenon
<1>6. CASE ~(good = ch \/ (BoostedTree /\ IsNull(bad, Label)))
  <2>1. q = [all EXCEPT !.cells = @ \o PartialCells(bad),
                        !.labels = IF BoostedTree THEN Append(@, bad) ELSE @]
    BY <1>6 DEF Pushed, AllPushed
  <2>2. PICK cells, labels : cells = all.cells /\ labels = all.labels
    OBVIOUS
  <2>3. /\ q.cells = cells \o PartialCells(bad) /\ q.rows = all.rows
        /\ q.labels = IF BoostedTree THEN Append(labels, bad) ELSE labels
    BY <2>1, <2>2 DEF AllPushed
  <2>4. bad \in rows /\ PartialCells(bad) \in Seq(Cells(rows))
    BY <1>1, <1>6, PartialCellsTyped
  <2>5. cells \in Seq(Cells(rows)) /\ labels \in Seq(rows) /\ all.rows \in Nat
    BY <1>2, <2>2 DEF Typed
  <2> HIDE DEF q, bad, good
  <2>6. q.cells \in Seq(Cells(rows))
    BY <2>3, <2>4, <2>5, ConcatProperties
  <2>7. q.labels \in Seq(rows)
    BY <2>3, <2>4, <2>5
  <2>8. Typed(rows, q)
    BY <2>3, <2>5, <2>6, <2>7 DEF Typed
  <2>9. ASSUME BoostedTree, Sound(p) PROVE Poisoned(q)
    <3>1. Len(labels) >= all.rows
      BY <1>3, <1>4, <2>2, <2>5, <2>9 DEF Sound, Whole, Poisoned
    <3>2. q.labels = Append(labels, bad) /\ Len(q.labels) = Len(labels) + 1
      BY <2>3, <2>4, <2>5, <2>9
    <3>3. Len(q.labels) > q.rows
      BY <2>3, <2>5, <3>1, <3>2
    <3> QED
      BY <2>9, <3>3 DEF Poisoned
  <2> QED
    BY <1>6, <2>8, <2>9 DEF Sound, q, good
<1> QED
  BY <1>5, <1>6

\* A batch of rows of the table.
BatchSound(batch) ==
    \A i \in DOMAIN batch : \E row \in AllRows :
        /\ batch[i].cells = [f \in Features |-> <<row, f>>]
        /\ BoostedTree => batch[i].label = row

BatchesSound ==
    /\ Len(batches) \in Nat /\ batches = [b \in 1..Len(batches) |-> batches[b]]
    /\ \A b \in DOMAIN batches : BatchSound(batches[b])

\* A buffer of whole rows makes a batch of rows of the table.
LEMMA BatchOfWhole ==
    ASSUME NEW p, Whole(p)
    PROVE  BatchSound(BatchOf(p))
<1> SUFFICES ASSUME NEW i \in 1..p.rows
             PROVE  \E row \in AllRows :
                      /\ BatchOf(p)[i].cells = [f \in Features |-> <<row, f>>]
                      /\ BoostedTree => BatchOf(p)[i].label = row
  BY DEF BatchSound, BatchOf
<1>1. BatchOf(p)[i] = [label |-> IF BoostedTree THEN p.labels[i] ELSE "none",
                       cells |-> [f \in Features |-> p.cells[Place(i, f)]]]
  BY DEF BatchOf, Place
<1>2. PICK row \in AllRows : HoldsRow(p.cells, i, row) /\ (BoostedTree => p.labels[i] = row)
  BY DEF Whole, IsTableRow
<1>3. BatchOf(p)[i].cells = [f \in Features |-> <<row, f>>]
  BY <1>1, <1>2 DEF HoldsRow
<1>4. BoostedTree => BatchOf(p)[i].label = row
  BY <1>1, <1>2
<1> QED
  BY <1>3, <1>4

-----------------------------------------------------------------------------
\* Nothing that was trained on is anything but a row of the table.

\* A flush makes a batch of rows of the table, or changes nothing.
LEMMA FlushKeepsSound ==
    ASSUME NEW rows, NEW p, Typed(rows, p), Sound(p), FlushSucceeds(p),
           BatchesSound, UNCHANGED <<table, modelType>>
    PROVE  Typed(rows, pending') /\ Sound(pending)' /\ BatchesSound'
<1>1. AllRows' = AllRows /\ BoostedTree' = BoostedTree
  BY DEF AllRows, BoostedTree
<1>2. CASE p.rows = 0
  <2>1. pending' = p /\ batches' = batches
    BY <1>2 DEF FlushSucceeds, store
  <2>2. Sound(pending)'
    BY <1>1, <2>1 DEF Sound, Whole, Poisoned, IsTableRow
  <2>3. \A b \in DOMAIN batches' : BatchSound(batches[b])'
    <3>1. \A b \in DOMAIN batches' : BatchSound(batches'[b])
      BY <2>1 DEF BatchesSound
    <3> QED
      BY <1>1, <3>1, ZenonT(60) DEF BatchSound
  <2> QED
    BY <2>1, <2>2, <2>3 DEF BatchesSound
<1>3. CASE p.rows # 0
  <2>1. ShapeIsConsistent(p) /\ pending' = Nothing /\ batches' = Append(batches, BatchOf(p))
    BY <1>3 DEF FlushSucceeds, ClearedBuffer
  <2>2. Whole(p)
    BY <2>1 DEF Sound, Poisoned, ShapeIsConsistent, Typed
  <2>3. BatchSound(BatchOf(p))
    BY <2>2, BatchOfWhole
  <2>4. Typed(rows, pending')
    BY <2>1 DEF Typed, Nothing
  <2>5. Sound(pending)'
    <3>1. Size(0) = 0
      BY NFeaturesAssumption DEF Size
    <3>2. pending'.rows = 0 /\ pending'.cells = <<>> /\ pending'.labels = <<>>
      BY <2>1 DEF Nothing
    <3>3. Len(pending'.cells) = 0 /\ Len(pending'.labels) = 0
      BY <3>2
    <3> QED
      BY <3>1, <3>2, <3>3 DEF Sound, Whole
  <2>6. PICK new : new = BatchOf(p)
    OBVIOUS
  <2>7. PICK S : S = {batches[b] : b \in 1..Len(batches)} \union {new}
    OBVIOUS
  <2>8. batches \in Seq(S) /\ new \in S
    BY <2>7 DEF BatchesSound
  <2>9. batches' = Append(batches, new)
    BY <2>1, <2>6
  <2>10. batches' \in Seq(S) /\ Len(batches') = Len(batches) + 1
    BY <2>8, <2>9
  <2>11. \A b \in DOMAIN batches' : (b \in DOMAIN batches /\ batches'[b] = batches[b]) \/ batches'[b] = new
    BY <2>8, <2>9, <2>10
  <2>12. \A b \in DOMAIN batches' : BatchSound(batches'[b])
    BY <2>3, <2>6, <2>11 DEF BatchesSound
  <2>13. \A b \in DOMAIN batches' : BatchSound(batches[b])'
    BY <1>1, <2>12, ZenonT(60) DEF BatchSound
  <2> QED
    BY <2>4, <2>5, <2>10, <2>13 DEF BatchesSound
<1> QED
  BY <1>2, <1>3

LEMMA NothingIsTyped == ASSUME NEW rows PROVE Typed(rows, Nothing)
BY DEF Typed, Nothing

RowsInv(rows) ==
    /\ Typed(rows, pending)
    /\ Sound(pending) \/ (~BoostedTree /\ "null" \in errors)
    /\ BatchesCount => BatchesSound

\* The one thread of a query whose call has thrown does nothing more.
LoneInv == OneThread /\ Failing => \A t \in Threads : pc[t] \in {"unused", "failed"}

\* Threads are neither added to a query nor taken from it.
LEMMA UsedThreadsStay ==
    ASSUME ChunksInv, [Next]_vars
    PROVE  OneThread' = OneThread
<1> DEFINE Used == {t \in Threads : pc[t] # "unused"}
<1>1. Used' = Used
  <2>1. CASE \E t \in Threads : Step(t) /\ ~ClaimRowGroup(t)
    <3>1. PICK t \in Threads, to \in {"running", "function", "finalize", "emitting", "finished", "failed"} :
             pc[t] # "unused" /\ pc' = [pc EXCEPT ![t] = to]
      BY <2>1 DEF Step, TakeChunk, EndOfInput, FunctionReturns, FunctionMeetsNull,
                  FunctionFlushThrows, FinalizeAgain, FinalizeFlushThrows, FinalizeWithoutRows,
                  FinalizeTrains, TakeResult, Fails
    <3> QED
      BY <3>1 DEF ChunksInv
  <2>2. CASE UNCHANGED pc
    BY <2>2
  <2>3. CASE \E t \in Threads : ClaimRowGroup(t)
    BY <2>2, <2>3 DEF ClaimRowGroup
  <2> QED
    BY <2>1, <2>2, <2>3 DEF Next, Close, vars
<1> QED
  BY <1>1 DEF OneThread

\* Only the thread that takes a step may fail by it, and it is then over.
LEMMA LoneStep ==
    ASSUME IsFiniteSet(Threads), ChunksInv, LoneInv, [Next]_vars
    PROVE  LoneInv'
<1> SUFFICES ASSUME OneThread', Failing'
             PROVE  \A t \in Threads : pc'[t] \in {"unused", "failed"}
  BY DEF LoneInv
<1>1. OneThread
  BY UsedThreadsStay
<1>2. PICK one : {t \in Threads : pc[t] # "unused"} = {one}
  <2> DEFINE Used == {t \in Threads : pc[t] # "unused"}
  <2>1. IsFiniteSet(Used)
    <3>1. Used \subseteq Threads
      OBVIOUS
    <3> HIDE DEF Used
    <3> QED
      BY <3>1, FS_Subset
  <2>2. Cardinality(Used) = 1
    BY <1>1 DEF OneThread
  <2> HIDE DEF Used
  <2>3. \E one : Used = {one}
    BY <2>1, <2>2, FS_Singleton
  <2> QED
    BY <2>3 DEF Used
<1>3. \A t \in Threads : t # one => pc[t] = "unused"
  BY <1>2
<1>4. CASE Failing
  <2>1. \A t \in Threads : pc[t] \in {"unused", "failed"}
    BY <1>1, <1>4 DEF LoneInv
  <2>2. \A t \in Threads : ~Step(t)
    BY <2>1 DEF Step, ClaimRowGroup, TakeChunk, EndOfInput, FunctionReturns, FunctionMeetsNull,
                FunctionFlushThrows, FinalizeAgain, FinalizeFlushThrows, FinalizeWithoutRows,
                FinalizeTrains, TakeResult
  <2>3. pc' = pc
    BY <2>2 DEF Next, Close, vars
  <2> QED
    BY <2>1, <2>3
<1>5. CASE ~Failing
  <2>1. errors' # errors
    BY <1>5 DEF Failing
  <2>2. PICK t \in Threads : Step(t)
    BY <2>1 DEF Next, Close, vars
  <2>3. pc[t] # "unused" /\ pc' = [pc EXCEPT ![t] = "failed"]
    BY <2>1, <2>2 DEF Step, ClaimRowGroup, TakeChunk, EndOfInput, FunctionReturns, FunctionMeetsNull,
                      FunctionFlushThrows, FinalizeAgain, FinalizeFlushThrows,
                      FinalizeWithoutRows, FinalizeTrains, TakeResult, Fails
  <2>4. t = one
    BY <1>3, <2>3
  <2> QED
    BY <1>3, <2>3, <2>4 DEF ChunksInv
<1> QED
  BY <1>4, <1>5

\* The chunks a thread can hold.
LEMMA ChunkOfTable ==
    ASSUME NEW rows, table \in Seq(Seq(rows)), ChunksInv, NEW t \in Threads, pc[t] = "function"
    PROVE  TableChunk(rows, chunk[t])
<1>1. PICK i \in DOMAIN table : chunk[t] = table[i]
  BY DEF ChunksInv
<1>2. table[i] \in Seq(rows)
  BY <1>1
<1>3. \A k \in 1..Len(table[i]) : table[i][k] \in AllRows
  BY <1>2 DEF AllRows, ToSet
<1> QED
  BY <1>1, <1>2, <1>3 DEF TableChunk

\* A buffer that a step leaves as p, in a query that still counts.
LEMMA RowsStep ==
    ASSUME NEW rows, table \in Seq(Seq(rows)), IsFiniteSet(Threads),
           ChunksInv, LoneInv, RowsInv(rows), [Next]_vars
    PROVE  RowsInv(rows)'
<1>1. UNCHANGED input /\ AllRows' = AllRows /\ BoostedTree' = BoostedTree /\ OneThread' = OneThread
  <2>1. UNCHANGED input
    BY DEF Next, Close, Step, ClaimRowGroup, TakeChunk, EndOfInput, FunctionReturns, FunctionMeetsNull,
           FunctionFlushThrows, FinalizeAgain, FinalizeFlushThrows, FinalizeWithoutRows,
           FinalizeTrains, TakeResult, input, vars
  <2> QED
    BY <2>1, UsedThreadsStay DEF input, AllRows, BoostedTree
<1>2. errors \subseteq errors'
  BY DEF Next, Close, Step, ClaimRowGroup, TakeChunk, EndOfInput, FunctionReturns, FunctionMeetsNull,
         FunctionFlushThrows, FinalizeAgain, FinalizeFlushThrows, FinalizeWithoutRows,
         FinalizeTrains, TakeResult, Fails, vars
<1>3. BatchesCount' => BatchesCount
  BY <1>1, <1>2 DEF BatchesCount
<1>4. Typed(rows, pending)
  BY DEF RowsInv
\* A thread in a handler: the query has not failed, or it is not alone.
<1>5. ASSUME NEW t \in Threads, pc[t] \in {"function", "finalize"}
      PROVE  BatchesCount => Sound(pending)
  BY <1>5 DEF BatchesCount, LoneInv, RowsInv, Failing
<1>6. ASSUME UNCHANGED batches, BatchesSound
      PROVE  BatchesSound'
  <2>1. \A b \in DOMAIN batches : BatchSound(batches[b])'
    <3>1. \A b \in DOMAIN batches : BatchSound(batches'[b])
      BY <1>6 DEF BatchesSound
    <3> QED
      BY <1>1, <3>1, ZenonT(60) DEF BatchSound
  <2> QED
    BY <1>6, <2>1 DEF BatchesSound
<1>7. ASSUME UNCHANGED pending, Sound(pending)
      PROVE  Sound(pending)'
  BY <1>1, <1>7 DEF Sound, Whole, Poisoned, IsTableRow
<1>8. CASE UNCHANGED <<pending, batches>>
  BY <1>1, <1>2, <1>3, <1>4, <1>6, <1>7, <1>8 DEF RowsInv
<1>9. CASE \E t \in Threads : FunctionReturns(t)
  <2>1. PICK t \in Threads : FunctionReturns(t)
    BY <1>9
  <2>2. PICK p : p = Pushed(pending, chunk[t])
    OBVIOUS
  <2>3. pc[t] = "function" /\ GoodRows(chunk[t]) = chunk[t] /\ errors' = errors
    BY <2>1 DEF FunctionReturns
  <2>4. TableChunk(rows, chunk[t])
    BY <2>3, ChunkOfTable
  <2>5. Typed(rows, p) /\ (Sound(pending) => Sound(p))
    BY <1>4, <2>2, <2>3, <2>4, PushedTypedAndSound
  <2>6. CASE ~Sound(pending)
    <3>1. Typed(rows, pending')
      <4>1. CASE chunk[t] # <<>> /\ FlushIsDue(p)
        <5>1. FlushSucceeds(p)
          BY <2>1, <2>2, <4>1 DEF FunctionReturns
        <5>2. pending' = p \/ pending' = Nothing
          BY <5>1 DEF FlushSucceeds, ClearedBuffer
        <5> QED
          BY <2>5, <5>2, NothingIsTyped
      <4>2. CASE ~(chunk[t] # <<>> /\ FlushIsDue(p))
        BY <2>1, <2>2, <2>5, <4>2 DEF FunctionReturns
      <4> QED
        BY <4>1, <4>2
    <3> QED
      BY <1>1, <1>3, <1>5, <2>3, <2>6, <3>1 DEF RowsInv
  <2>7. CASE Sound(pending) /\ chunk[t] # <<>> /\ FlushIsDue(p)
    <3>1. FlushSucceeds(p)
      BY <2>1, <2>2, <2>7 DEF FunctionReturns
    <3>2. CASE BatchesCount
      BY <1>1, <2>5, <2>7, <3>1, <3>2, FlushKeepsSound DEF RowsInv, input
    <3>3. CASE ~BatchesCount
      <4>1. pending' = p \/ pending' = Nothing
        BY <3>1 DEF FlushSucceeds, ClearedBuffer
      <4>2. Typed(rows, pending')
        BY <2>5, <4>1, NothingIsTyped
      <4> QED
        BY <1>1, <1>2, <1>3, <3>3, <4>2 DEF RowsInv, BatchesCount
    <3> QED
      BY <3>2, <3>3
  <2>8. CASE Sound(pending) /\ ~(chunk[t] # <<>> /\ FlushIsDue(p))
    <3>1. pending' = p /\ UNCHANGED batches
      BY <2>1, <2>2, <2>8 DEF FunctionReturns, store
    <3>2. Sound(pending)'
      BY <1>1, <2>5, <2>8, <3>1 DEF Sound, Whole, Poisoned, IsTableRow
    <3> QED
      BY <1>3, <1>6, <2>5, <3>1, <3>2 DEF RowsInv
  <2> QED
    BY <2>6, <2>7, <2>8
<1>10. CASE \E t \in Threads : FunctionMeetsNull(t) \/ FunctionFlushThrows(t)
  <2>1. PICK t \in Threads : FunctionMeetsNull(t) \/ FunctionFlushThrows(t)
    BY <1>10
  <2>2. PICK p : p = Pushed(pending, chunk[t])
    OBVIOUS
  <2>3. pc[t] = "function" /\ pending' = p /\ UNCHANGED batches
    BY <2>1, <2>2 DEF FunctionMeetsNull, FunctionFlushThrows, FlushThrows, store
  <2>4. BoostedTree \/ "null" \in errors'
    BY <2>1 DEF FunctionMeetsNull, FunctionFlushThrows, FlushThrows, Fails
  <2>5. TableChunk(rows, chunk[t])
    BY <2>3, ChunkOfTable
  <2>6. Typed(rows, p) /\ (Sound(pending) /\ BoostedTree => Sound(p))
    BY <1>4, <2>2, <2>5, PushedTypedAndSound
  <2>7. BoostedTree => Sound(pending)'
    <3> SUFFICES ASSUME BoostedTree PROVE Sound(pending)'
      OBVIOUS
    <3>1. Sound(p)
      BY <2>6 DEF RowsInv
    <3> QED
      BY <1>1, <2>3, <3>1 DEF Sound, Whole, Poisoned, IsTableRow
  <2> QED
    BY <1>1, <1>3, <1>6, <2>3, <2>4, <2>6, <2>7 DEF RowsInv
<1>11. CASE \E t \in Threads : pc[t] = "finalize" /\ FlushSucceeds(pending)
  <2>1. CASE BatchesCount
    BY <1>1, <1>4, <1>5, <1>11, <2>1, FlushKeepsSound DEF RowsInv, input
  <2>2. CASE ~BatchesCount
    <3>1. pending' = pending \/ pending' = Nothing
      BY <1>11 DEF FlushSucceeds, ClearedBuffer
    <3>2. Typed(rows, pending')
      BY <1>4, <3>1, NothingIsTyped
    <3> QED
      BY <1>1, <1>2, <1>3, <2>2, <3>2 DEF RowsInv, BatchesCount
  <2> QED
    BY <2>1, <2>2
<1>12. CASE \E t \in Threads : FinalizeWithoutRows(t) \/ FinalizeTrains(t)
  BY <1>11, <1>12 DEF FinalizeWithoutRows, FinalizeTrains
<1>13. CASE \E t \in Threads : ClaimRowGroup(t) \/ TakeChunk(t) \/ EndOfInput(t)
                              \/ FinalizeAgain(t) \/ FinalizeFlushThrows(t) \/ TakeResult(t)
  BY <1>8, <1>13 DEF ClaimRowGroup, TakeChunk, EndOfInput, FinalizeAgain, FinalizeFlushThrows, FlushThrows,
                     TakeResult, store
<1>14. CASE Close \/ UNCHANGED vars
  BY <1>8, <1>14 DEF Close, vars, store
<1> QED
  BY <1>9, <1>10, <1>12, <1>13, <1>14 DEF Next, Step

\* An empty buffer and no batches.
LEMMA InitRows ==
    ASSUME NEW rows, Init
    PROVE  RowsInv(rows)
<1>1. Typed(rows, pending)
  BY DEF Init, Nothing, Typed
<1>2. Sound(pending)
  <2>1. Size(0) = 0
    BY NFeaturesAssumption DEF Size
  <2>2. pending.rows = 0 /\ Len(pending.cells) = 0 /\ Len(pending.labels) = 0
    BY DEF Init, Nothing
  <2> QED
    BY <2>1, <2>2 DEF Sound, Whole
<1>3. BatchesSound
  BY DEF Init, BatchesSound
<1> QED
  BY <1>1, <1>2, <1>3 DEF RowsInv

\* Every row a model is trained on is one row of the table, its cells in order
\* and with its own label: for any table, threads and threshold, whichever call
\* meets a NULL or fails.  What BatchesCount leaves out is left out here too: a
\* PCA query of several threads in which one meets a NULL, where the finalizer of
\* another flushes the row that was cut off (ml_fit.cpp:202).
THEOREM TrainingRowsAlwaysTableRows ==
    ASSUME IsFiniteSet(Threads), NEW CONSTANT Rows, Tables \subseteq Seq(Seq(Rows))
    PROVE  Spec => []TrainingRowsAreTableRows
<1> DEFINE Inv == ChunksInv /\ LoneInv /\ RowsInv(Rows)
<1>1. Init => Inv
  <2> SUFFICES ASSUME Init PROVE Inv
    OBVIOUS
  <2>1. table \in Seq(Seq(Rows))
    BY DEF Init
  <2>2. ChunksInv
    BY InitChunks
  <2>3. LoneInv
    BY DEF Init, LoneInv, Failing
  <2>4. RowsInv(Rows)
    BY InitRows
  <2> QED
    BY <2>2, <2>3, <2>4
<1>2. Inv /\ [Next]_vars => Inv'
  <2> SUFFICES ASSUME Inv, [Next]_vars
               PROVE  Inv'
    OBVIOUS
  <2>1. table \in Seq(Seq(Rows))
    BY DEF ChunksInv
  <2> QED
    BY <2>1, ChunksStep, LoneStep, RowsStep
<1>3. Inv => TrainingRowsAreTableRows
  BY DEF RowsInv, BatchesSound, BatchSound, TrainingRowsAreTableRows
<1> QED
  BY <1>1, <1>2, <1>3, PTL DEF Spec

-----------------------------------------------------------------------------
\* The one thread of a query that has emitted only comes back to be told so.
LoneDone ==
    OneThread /\ emitted =>
        ~Failing /\ \A t \in Threads : pc[t] \in {"unused", "finalize", "emitting", "finished"}

LEMMA LoneThread ==
    ASSUME IsFiniteSet(Threads), OneThread, NEW t \in Threads, pc[t] # "unused"
    PROVE  \A u \in Threads : u # t => pc[u] = "unused"
<1> DEFINE Used == {u \in Threads : pc[u] # "unused"}
<1>1. IsFiniteSet(Used)
  <2>1. Used \subseteq Threads
    OBVIOUS
  <2> HIDE DEF Used
  <2> QED
    BY <2>1, FS_Subset
<1>2. Cardinality(Used) = 1
  BY DEF OneThread
<1>3. t \in Used
  OBVIOUS
<1> HIDE DEF Used
<1>4. Used = {t}
  BY <1>1, <1>2, <1>3, FS_Singleton
<1> QED
  BY <1>4 DEF Used

LEMMA LoneDoneStep ==
    ASSUME IsFiniteSet(Threads), ChunksInv, LoneInv, LoneDone, StoredInv, [Next]_vars
    PROVE  LoneDone'
<1> SUFFICES ASSUME OneThread', emitted'
             PROVE  /\ ~Failing'
                    /\ \A t \in Threads : pc'[t] \in {"unused", "finalize", "emitting", "finished"}
  BY DEF LoneDone
<1>1. OneThread
  BY UsedThreadsStay
<1>2. CASE emitted
  <2>1. ~Failing /\ \A t \in Threads : pc[t] \in {"unused", "finalize", "emitting", "finished"}
    BY <1>1, <1>2 DEF LoneDone
  <2>2. CASE \E t \in Threads : Step(t)
    <3>1. PICK t \in Threads : FinalizeAgain(t) \/ TakeResult(t)
      BY <1>2, <2>1, <2>2 DEF Step, ClaimRowGroup, TakeChunk, EndOfInput, FunctionReturns, FunctionMeetsNull,
                  FunctionFlushThrows, FinalizeFlushThrows, FinalizeWithoutRows, FinalizeTrains
    <3>2. errors' = errors /\ \E to \in {"finalize", "finished"} : pc' = [pc EXCEPT ![t] = to]
      BY <3>1 DEF FinalizeAgain, TakeResult
    <3> QED
      BY <2>1, <3>2 DEF ChunksInv, Failing
  <2>3. CASE UNCHANGED <<pc, errors>>
    BY <2>1, <2>3 DEF Failing
  <2> QED
    BY <2>2, <2>3 DEF Next, Close, vars
<1>3. CASE ~emitted
  <2>1. PICK t \in Threads : FinalizeTrains(t)
    BY <1>3 DEF Next, Close, vars, Step, ClaimRowGroup, TakeChunk, EndOfInput, FunctionReturns, FunctionMeetsNull,
                FunctionFlushThrows, FinalizeAgain, FinalizeFlushThrows, FinalizeWithoutRows,
                TakeResult, result
  <2>2. pc[t] = "finalize"
    BY <2>1 DEF FinalizeTrains
  <2>3. ~Failing
    BY <1>1, <2>2 DEF LoneInv
  <2>4. errors' = errors /\ pc' = [pc EXCEPT ![t] = "emitting"]
    BY <2>1 DEF FinalizeTrains, Emitted
  <2>5. \A u \in Threads : u # t => pc[u] = "unused"
    BY <1>1, <2>2, LoneThread
  <2> QED
    BY <2>3, <2>4, <2>5 DEF ChunksInv, Failing
<1> QED
  BY <1>2, <1>3

\* A query of one thread that fails, at a NULL, a batch file or the insert, has
\* stored nothing, for any table, unless its insert threw after it had stored.
THEOREM LoneFailureNeverStores ==
    ASSUME IsFiniteSet(Threads), NEW CONSTANT Rows, Tables \subseteq Seq(Seq(Rows))
    PROVE  Spec => []LoneFailureStoresNothing
<1> DEFINE Inv == ChunksInv /\ LoneInv /\ StoredInv /\ LoneDone
<1>1. Init => Inv
  <2> SUFFICES ASSUME Init PROVE Inv
    OBVIOUS
  <2>1. table \in Seq(Seq(Rows))
    BY DEF Init
  <2>2. ChunksInv
    BY InitChunks
  <2> QED
    BY <2>2, InitStored DEF Init, LoneInv, LoneDone, Failing
<1>2. Inv /\ [Next]_vars => Inv'
  <2> SUFFICES ASSUME Inv, [Next]_vars
               PROVE  Inv'
    OBVIOUS
  <2>1. table \in Seq(Seq(Rows))
    BY DEF ChunksInv
  <2> QED
    BY <2>1, ChunksStep, LoneStep, LoneDoneStep, StoredStep
<1>3. Inv => LoneFailureStoresNothing
  <2> SUFFICES ASSUME Inv, OneThread, "lost" \notin errors, Failing
               PROVE  published = <<>>
    BY DEF LoneFailureStoresNothing, FailedQueryStoresNothing
  <2>1. Len(published) = 0 /\ published = [m \in 1..Len(published) |-> published[m]]
    BY DEF StoredInv, LoneDone
  <2> QED
    BY <2>1
<1> QED
  BY <1>1, <1>2, <1>3, PTL DEF Spec

-----------------------------------------------------------------------------
\* The files of a query are the ones it tracks, until a write has failed; and
\* nothing runs in a query that is closed.
FilesInv ==
    /\ nextBatch \in Nat /\ tracked \in Seq(Nat)
    /\ closed => \A t \in Threads : \/ pc[t] \in {"unused", "finished", "failed"}
                                    \/ Failing /\ pc[t] \in {"running", "emitting"}
    /\ "write" \notin errors /\ ~closed => files \subseteq ToSet(tracked)
    /\ "write" \notin errors /\ closed => files = {}

LEMMA FlushKeepsFiles ==
    ASSUME FilesInv, NEW p, FlushSucceeds(p)
    PROVE  /\ nextBatch' \in Nat /\ tracked' \in Seq(Nat)
           /\ files \subseteq ToSet(tracked) => files' \subseteq ToSet(tracked')
<1>1. CASE UNCHANGED <<nextBatch, files, tracked>>
  BY <1>1 DEF FilesInv
<1>2. CASE /\ nextBatch' = nextBatch + 1 /\ files' = files \union {nextBatch}
           /\ tracked' = Append(tracked, nextBatch)
  <2>1. nextBatch \in Nat /\ tracked \in Seq(Nat)
    BY DEF FilesInv
  <2>2. /\ tracked' \in Seq(Nat) /\ Len(tracked') = Len(tracked) + 1
        /\ \A i \in 1..Len(tracked) : tracked'[i] = tracked[i]
        /\ tracked'[Len(tracked) + 1] = nextBatch
    BY <1>2, <2>1
  <2>3. ToSet(tracked) \subseteq ToSet(tracked') /\ nextBatch \in ToSet(tracked')
    BY <2>1, <2>2, SMTT(30) DEF ToSet
  <2> QED
    BY <1>2, <2>1, <2>2, <2>3
<1> QED
  BY <1>1, <1>2 DEF FlushSucceeds, store, NextBatchId, TrackedAfter

LEMMA FilesStep ==
    ASSUME ChunksInv, FilesInv, [Next]_vars
    PROVE  FilesInv'
<1>1. CASE closed
  <2>1. \A t \in Threads : ~Step(t)
    BY <1>1 DEF FilesInv, Step, ClaimRowGroup, TakeChunk, EndOfInput, FunctionReturns, FunctionMeetsNull,
                FunctionFlushThrows, FinalizeAgain, FinalizeFlushThrows, FinalizeWithoutRows,
                FinalizeTrains, TakeResult
  <2>2. UNCHANGED vars
    BY <1>1, <2>1 DEF Next, Close
  <2> QED
    BY <2>2 DEF vars, store, FilesInv, Failing
<1>2. CASE ~closed /\ Close
  <2>1. files' = files \ ToSet(tracked) /\ UNCHANGED <<pc, tracked, nextBatch, errors>> /\ closed'
    BY <1>2 DEF Close, result
  <2>2. \A t \in Threads : \/ pc[t] \in {"unused", "finished", "failed"}
                           \/ Failing /\ pc[t] \in {"running", "emitting"}
    BY <1>2 DEF Close
  <2> QED
    BY <1>2, <2>1, <2>2 DEF FilesInv, Failing
<1>3. CASE ~closed /\ \E t \in Threads : Step(t)
  <2>1. PICK t \in Threads : Step(t)
    BY <1>3
  <2>2. ~closed'
    BY <1>3, <2>1 DEF Step, ClaimRowGroup, TakeChunk, EndOfInput, FunctionReturns, FunctionMeetsNull,
                FunctionFlushThrows, FinalizeAgain, FinalizeFlushThrows, FinalizeWithoutRows,
                FinalizeTrains, TakeResult
  <2>3. errors \subseteq errors'
    BY <2>1 DEF Step, ClaimRowGroup, TakeChunk, EndOfInput, FunctionReturns, FunctionMeetsNull,
                FunctionFlushThrows, FinalizeAgain, FinalizeFlushThrows, FinalizeWithoutRows,
                FinalizeTrains, TakeResult, Fails
  <2>4. CASE UNCHANGED <<nextBatch, files, tracked>>
    BY <1>3, <2>2, <2>3, <2>4 DEF FilesInv
  <2>5. CASE \E p \in {pending, Pushed(pending, chunk[t])} : FlushSucceeds(p)
    <3>1. /\ nextBatch' \in Nat /\ tracked' \in Seq(Nat)
          /\ files \subseteq ToSet(tracked) => files' \subseteq ToSet(tracked')
      BY <2>5, FlushKeepsFiles
    <3> QED
      BY <1>3, <2>2, <2>3, <3>1 DEF FilesInv
  <2>6. CASE \E p \in {pending, Pushed(pending, chunk[t])} : FlushThrows(p) /\ "write" \in errors'
    BY <2>2, <2>6 DEF FlushThrows, FilesInv
  <2>7. CASE FunctionReturns(t)
    BY <2>4, <2>5, <2>7 DEF FunctionReturns, store
  <2>8. CASE FinalizeWithoutRows(t) \/ FinalizeTrains(t)
    BY <2>5, <2>8 DEF FinalizeWithoutRows, FinalizeTrains
  <2>9. CASE FunctionFlushThrows(t) \/ FinalizeFlushThrows(t)
    BY <2>6, <2>9 DEF FunctionFlushThrows, FinalizeFlushThrows, Fails
  <2>10. CASE ClaimRowGroup(t) \/ TakeChunk(t) \/ EndOfInput(t) \/ FunctionMeetsNull(t) \/ FinalizeAgain(t) \/ TakeResult(t)
    BY <2>4, <2>10 DEF ClaimRowGroup, TakeChunk, EndOfInput, FunctionMeetsNull, FinalizeAgain, TakeResult, store
  <2> QED
    BY <2>1, <2>7, <2>8, <2>9, <2>10 DEF Step
<1>4. CASE UNCHANGED vars
  BY <1>4 DEF vars, store, FilesInv, Failing
<1> QED
  BY <1>1, <1>2, <1>3, <1>4 DEF Next

\* A query that is over has left no batch file behind, however it ended and
\* however many batches it wrote, unless writing one failed half way.
THEOREM NoBatchFileEverLeft ==
    ASSUME NEW CONSTANT Rows, Tables \subseteq Seq(Seq(Rows))
    PROVE  Spec => []NoBatchFileLeft
<1> DEFINE Inv == ChunksInv /\ FilesInv
<1>1. Init => Inv
  <2> SUFFICES ASSUME Init PROVE Inv
    OBVIOUS
  <2>1. table \in Seq(Seq(Rows))
    BY DEF Init
  <2>2. ChunksInv
    BY InitChunks
  <2> QED
    BY <2>2 DEF Init, FilesInv
<1>2. Inv /\ [Next]_vars => Inv'
  <2> SUFFICES ASSUME Inv, [Next]_vars
               PROVE  Inv'
    OBVIOUS
  <2>1. table \in Seq(Seq(Rows))
    BY DEF ChunksInv
  <2> QED
    BY <2>1, ChunksStep, FilesStep
<1>3. Inv => NoBatchFileLeft
  BY DEF FilesInv, NoBatchFileLeft
<1> QED
  BY <1>1, <1>2, <1>3, PTL DEF Spec

-----------------------------------------------------------------------------
LEMMA FlushKeepsTypes ==
    ASSUME TypeOK, NEW p, p.rows \in Nat, FlushSucceeds(p) \/ FlushThrows(p)
    PROVE  /\ pending'.rows \in Nat
           /\ nextBatch' \in Nat /\ \A f \in files' : f \in Nat /\ f < nextBatch'
<1>1. nextBatch \in Nat /\ \A f \in files : f \in Nat /\ f < nextBatch
  BY DEF TypeOK
<1>2. pending' = p \/ pending' = Nothing
  BY DEF FlushSucceeds, FlushThrows, ClearedBuffer
<1>3. \/ UNCHANGED <<nextBatch, files>>
      \/ nextBatch' = nextBatch + 1 /\ files' \subseteq files \union {nextBatch}
  BY DEF FlushSucceeds, FlushThrows, store, NextBatchId
<1>4. pending'.rows \in Nat
  BY <1>2 DEF Nothing
<1>5. nextBatch' \in Nat /\ \A f \in files' : f \in Nat /\ f < nextBatch'
  BY <1>1, <1>3
<1> QED
  BY <1>4, <1>5

\* The state of a query is well typed; batch ids are allocated above every file.
THEOREM FitTypeCorrect ==
    ASSUME NEW CONSTANT Rows, Tables \subseteq Seq(Seq(Rows))
    PROVE  Spec => []TypeOK
<1> DEFINE Inv == ChunksInv /\ TypeOK
<1>1. Init => Inv
  <2> SUFFICES ASSUME Init PROVE Inv
    OBVIOUS
  <2>1. table \in Seq(Seq(Rows))
    BY DEF Init
  <2>2. ChunksInv
    BY InitChunks
  <2>3. pending.rows \in Nat
    BY DEF Init, Nothing
  <2> QED
    BY <2>2, <2>3 DEF Init, ChunksInv, TypeOK
<1>2. Inv /\ [Next]_vars => Inv'
  <2> SUFFICES ASSUME Inv, [Next]_vars
               PROVE  Inv'
    OBVIOUS
  <2>1. ChunksInv' /\ table \in Seq(Seq(Rows))
    BY ChunksStep DEF ChunksInv
  <2>2. CASE \E t \in Threads : Step(t)
    <3>1. PICK t \in Threads : Step(t)
      BY <2>2
    <3>2. /\ errors' \subseteq {"null", "write", "no rows", "insert", "lost"}
          /\ closed' \in BOOLEAN
      BY <3>1 DEF Step, ClaimRowGroup, TakeChunk, EndOfInput, FunctionReturns, FunctionMeetsNull,
                  FunctionFlushThrows, FinalizeAgain, FinalizeFlushThrows, FinalizeWithoutRows,
                  FinalizeTrains, TakeResult, Fails, TypeOK
    <3>3. emitted' \in BOOLEAN
      BY <3>1 DEF Step, ClaimRowGroup, TakeChunk, EndOfInput, FunctionReturns, FunctionMeetsNull,
                  FunctionFlushThrows, FinalizeAgain, FinalizeFlushThrows, FinalizeWithoutRows,
                  FinalizeTrains, TakeResult, Emitted, TypeOK, result
    <3>4. outputs' \in Nat
      <4>1. outputs' = outputs \/ outputs' = outputs + 1
        <5>1. CASE FinalizeTrains(t)
          BY <5>1 DEF FinalizeTrains
        <5>2. CASE ~FinalizeTrains(t)
          BY <3>1, <5>2 DEF Step, ClaimRowGroup, TakeChunk, EndOfInput, FunctionReturns, FunctionMeetsNull,
                  FunctionFlushThrows, FinalizeAgain, FinalizeFlushThrows, FinalizeWithoutRows,
                  TakeResult, result
        <5> QED
          BY <5>1, <5>2
      <4>2. outputs \in Nat
        BY DEF TypeOK
      <4> QED
        BY <4>1, <4>2
    <3>5. pc[t] = "function" => Pushed(pending, chunk[t]).rows \in Nat
      <4> SUFFICES ASSUME pc[t] = "function" PROVE Pushed(pending, chunk[t]).rows \in Nat
        OBVIOUS
      <4>1. PICK i \in DOMAIN table : chunk[t] = table[i]
        BY DEF ChunksInv
      <4>2. chunk[t] \in Seq(Rows)
        BY <2>1, <4>1
      <4>3. GoodRows(chunk[t]) \in Seq(Rows)
        BY <4>2, GoodRowsArePrefix
      <4>4. Pushed(pending, chunk[t]).rows = pending.rows + Len(GoodRows(chunk[t]))
        BY DEF Pushed
      <4>5. pending.rows \in Nat
        BY DEF TypeOK
      <4> QED
        BY <4>3, <4>4, <4>5
    <3>6. /\ pending'.rows \in Nat
          /\ nextBatch' \in Nat /\ \A f \in files' : f \in Nat /\ f < nextBatch'
      <4>1. CASE \/ ClaimRowGroup(t) \/ TakeChunk(t) \/ EndOfInput(t) \/ FinalizeAgain(t) \/ TakeResult(t)
        BY <4>1 DEF ClaimRowGroup, TakeChunk, EndOfInput, FinalizeAgain, TakeResult, store, TypeOK
      <4>2. CASE FunctionReturns(t)
        <5>1. CASE FlushSucceeds(Pushed(pending, chunk[t]))
          BY <3>5, <4>2, <5>1, FlushKeepsTypes DEF FunctionReturns
        <5>2. CASE pending' = Pushed(pending, chunk[t]) /\ UNCHANGED store
          BY <3>5, <4>2, <5>2 DEF FunctionReturns, store, TypeOK
        <5> QED
          BY <4>2, <5>1, <5>2 DEF FunctionReturns
      <4>3. CASE FunctionMeetsNull(t)
        BY <3>5, <4>3 DEF FunctionMeetsNull, store, TypeOK
      <4>4. CASE FunctionFlushThrows(t)
        BY <3>5, <4>4, FlushKeepsTypes DEF FunctionFlushThrows
      <4>5. CASE FinalizeFlushThrows(t) \/ FinalizeWithoutRows(t) \/ FinalizeTrains(t)
        <5>1. pending.rows \in Nat
          BY DEF TypeOK
        <5> QED
          BY <4>5, <5>1, FlushKeepsTypes DEF FinalizeFlushThrows, FinalizeWithoutRows, FinalizeTrains
      <4> QED
        BY <3>1, <4>1, <4>2, <4>3, <4>4, <4>5 DEF Step
    <3> QED
      BY <2>1, <3>2, <3>3, <3>4, <3>6 DEF TypeOK, ChunksInv
  <2>3. CASE Close
    <3>1. files' \subseteq files /\ closed' = TRUE
          /\ UNCHANGED <<table, taken, next, last, pc, pending, nextBatch, errors, emitted, outputs>>
      BY <2>3 DEF Close, result, input, source
    <3> QED
      BY <2>1, <3>1 DEF TypeOK
  <2>4. CASE UNCHANGED vars
    BY <2>1, <2>4 DEF vars, store, result, input, source, TypeOK
  <2> QED
    BY <2>2, <2>3, <2>4 DEF Next
<1> QED
  BY <1>1, <1>2, PTL DEF Spec

-----------------------------------------------------------------------------
\* Where a row of the table is: in a chunk that no thread has claimed, with a
\* thread, in its row group or in MlFitFunction, in the buffer, or in a batch.
Waits(row) == \E i \in DOMAIN table : i > taken /\ \E a \in DOMAIN table[i] : table[i][a] = row
InChunk(t, row) == pc[t] = "function" /\ \E a \in DOMAIN chunk[t] : chunk[t][a] = row
InGroup(t, row) == \E i \in DOMAIN table :
                      next[t] <= i /\ i <= last[t] /\ \E a \in DOMAIN table[i] : table[i][a] = row
Held(t, row) == InChunk(t, row) \/ InGroup(t, row)
FirstCell(p, k) == p.cells[Place(k, 1)]
Buffered(p, row) == \E k \in 1..p.rows : FirstCell(p, k) = <<row, 1>>
Batched(bs, row) ==
    \E b \in DOMAIN bs : \E i \in DOMAIN bs[b] : bs[b][i].cells[1] = <<row, 1>>

\* No row is in two places of a buffer, or of the batches.
OnceIn(p) == \A k, l \in 1..p.rows : FirstCell(p, k) = FirstCell(p, l) => k = l
Once(bs) ==
    \A b, c \in DOMAIN bs : \A i \in DOMAIN bs[b], j \in DOMAIN bs[c] :
        bs[b][i].cells[1] = bs[c][j].cells[1] => b = c /\ i = j

\* The rows of a table have names of their own.
DistinctRows(tb) ==
    \A i, j \in DOMAIN tb : \A a \in DOMAIN tb[i], b \in DOMAIN tb[j] :
        tb[i][a] = tb[j][b] => i = j /\ a = b

\* A row that no thread will push any more.
Gone(row) == ~Waits(row) /\ \A t \in Threads : ~Held(t, row)

\* A row waits, or is with one thread, to be read or read already.
ClaimsInv ==
    \A t \in Threads, row \in AllRows :
        /\ Held(t, row) => ~Waits(row) /\ \A u \in Threads : Held(u, row) => u = t
        /\ ~(InChunk(t, row) /\ InGroup(t, row))

\* The buffer still tells rows apart: no part of a row was left in it.
Live == BoostedTree \/ "null" \notin errors

\* A row that is in the buffer or in a batch is there once and nowhere else.
OnceInv ==
    /\ BatchesCount =>
          Once(batches) /\ \A row \in AllRows : Batched(batches, row) => Gone(row)
    /\ Live /\ ~Poisoned(pending) =>
          /\ OnceIn(pending)
          /\ \A row \in AllRows :
                Buffered(pending, row) => Gone(row) /\ ~Batched(batches, row)

-----------------------------------------------------------------------------
\* Claiming a row group: its rows wait no more and are with the thread.
LEMMA ClaimChange ==
    ASSUME NEW rows, table \in Seq(Seq(rows)), DistinctRows(table), ChunksInv,
           NEW v \in Threads, ClaimRowGroup(v), NEW row
    PROVE  /\ Waits(row)' => Waits(row)
           /\ \A u \in Threads : u # v => (Held(u, row)' => Held(u, row))
           /\ \A u \in Threads : u # v => (InChunk(u, row)' => InChunk(u, row))
           /\ \A u \in Threads : u # v => (InGroup(u, row)' => InGroup(u, row))
           /\ InGroup(v, row)' => Waits(row) /\ ~Waits(row)'
           /\ ~InChunk(v, row)' /\ ~InChunk(v, row) /\ ~InGroup(v, row)
<1>1. /\ pc[v] = "running" /\ next[v] > last[v] /\ taken' \in (taken + 1)..Len(table)
      /\ next' = [next EXCEPT ![v] = taken + 1] /\ last' = [last EXCEPT ![v] = taken']
      /\ UNCHANGED <<table, pc, chunk>>
  BY DEF ClaimRowGroup, input
<1>2. /\ taken \in Nat /\ taken' \in Nat /\ taken < taken' /\ next[v] \in Nat /\ last[v] \in Nat
      /\ \A i \in DOMAIN table : i \in Nat
  BY <1>1 DEF ChunksInv
<1>3. next'[v] = taken + 1 /\ last'[v] = taken'
      /\ \A u \in Threads : u # v => next'[u] = next[u] /\ last'[u] = last[u]
  BY <1>1 DEF ChunksInv
<1>4. Waits(row)' => Waits(row)
  <2>1. \A i \in DOMAIN table : i > taken' => i > taken
    BY <1>2
  <2> QED
    BY <1>1, <2>1 DEF Waits
<1>5. \A u \in Threads : u # v => /\ InChunk(u, row)' => InChunk(u, row)
                                  /\ InGroup(u, row)' => InGroup(u, row)
  BY <1>1, <1>3 DEF InChunk, InGroup
<1>6. InGroup(v, row)' => Waits(row) /\ ~Waits(row)'
  <2> SUFFICES ASSUME InGroup(v, row)' PROVE Waits(row) /\ ~Waits(row)'
    OBVIOUS
  <2>1. PICK i \in DOMAIN table : /\ taken + 1 <= i /\ i <= taken'
                                  /\ \E a \in DOMAIN table[i] : table[i][a] = row
    <3>1. InGroup(v, row)' <=> \E i \in DOMAIN table :
             next'[v] <= i /\ i <= last'[v] /\ \E a \in DOMAIN table[i] : table[i][a] = row
      BY <1>1 DEF InGroup
    <3> QED
      BY <1>3, <3>1
  <2>4. i > taken
    BY <1>2, <2>1
  <2>2. Waits(row)
    BY <2>1, <2>4 DEF Waits
  <2>3. ASSUME NEW j \in DOMAIN table, j > taken', \E b \in DOMAIN table[j] : table[j][b] = row
        PROVE  FALSE
    <3>1. i = j
      BY <2>1, <2>3 DEF DistinctRows
    <3> QED
      BY <1>2, <2>1, <2>3, <3>1
  <2> QED
    BY <1>1, <2>2, <2>3 DEF Waits
<1>7. ~InChunk(v, row)' /\ ~InChunk(v, row)
  BY <1>1 DEF InChunk
<1>8. ~InGroup(v, row)
  BY <1>1, <1>2 DEF InGroup
<1> QED
  BY <1>4, <1>5, <1>6, <1>7, <1>8 DEF Held

\* Taking a chunk: its rows were in the row group, and are no more.
LEMMA TakeChange ==
    ASSUME NEW rows, table \in Seq(Seq(rows)), DistinctRows(table), ChunksInv,
           NEW v \in Threads, TakeChunk(v), NEW row
    PROVE  /\ Waits(row)' <=> Waits(row)
           /\ \A u \in Threads : u # v => (InChunk(u, row)' => InChunk(u, row))
           /\ \A u \in Threads : u # v => (InGroup(u, row)' => InGroup(u, row))
           /\ InGroup(v, row)' => InGroup(v, row) /\ ~InChunk(v, row)'
           /\ InChunk(v, row)' => InGroup(v, row)
           /\ ~InChunk(v, row)
<1>1. /\ pc[v] = "running" /\ next[v] <= last[v]
      /\ next' = [next EXCEPT ![v] = next[v] + 1]
      /\ chunk' = [chunk EXCEPT ![v] = table[next[v]]]
      /\ pc' = [pc EXCEPT ![v] = "function"]
      /\ UNCHANGED <<table, taken, last>>
  BY DEF TakeChunk, input
<1>2. /\ next[v] \in DOMAIN table /\ next[v] \in Nat /\ last[v] \in Nat
      /\ \A i \in DOMAIN table : i \in Nat
  BY <1>1 DEF ChunksInv
<1>3. next'[v] = next[v] + 1 /\ chunk'[v] = table[next[v]] /\ pc'[v] = "function"
      /\ \A u \in Threads : u # v => next'[u] = next[u] /\ chunk'[u] = chunk[u] /\ pc'[u] = pc[u]
  BY <1>1 DEF ChunksInv
<1>4. Waits(row)' <=> Waits(row)
  BY <1>1 DEF Waits
<1>5. \A u \in Threads : u # v => /\ InChunk(u, row)' => InChunk(u, row)
                                  /\ InGroup(u, row)' => InGroup(u, row)
  BY <1>1, <1>3 DEF InChunk, InGroup
<1>6. InGroup(v, row)' => InGroup(v, row)
  <2>1. InGroup(v, row)' <=> \E i \in DOMAIN table :
           next[v] + 1 <= i /\ i <= last[v] /\ \E a \in DOMAIN table[i] : table[i][a] = row
    BY <1>1, <1>3 DEF InGroup
  <2>2. \A i \in DOMAIN table : next[v] + 1 <= i => next[v] <= i
    BY <1>2
  <2> QED
    BY <2>1, <2>2 DEF InGroup
<1>7. InChunk(v, row)' => InGroup(v, row)
  BY <1>1, <1>2, <1>3 DEF InChunk, InGroup
<1>8. ASSUME InGroup(v, row)', InChunk(v, row)' PROVE FALSE
  <2>1. PICK i \in DOMAIN table : next[v] + 1 <= i /\ \E a \in DOMAIN table[i] : table[i][a] = row
    BY <1>1, <1>3, <1>8 DEF InGroup
  <2>2. \E b \in DOMAIN table[next[v]] : table[next[v]][b] = row
    BY <1>3, <1>8 DEF InChunk
  <2>3. i = next[v]
    BY <1>2, <2>1, <2>2 DEF DistinctRows
  <2> QED
    BY <1>2, <2>1, <2>3
<1>9. ~InChunk(v, row)
  BY <1>1 DEF InChunk
<1> QED
  BY <1>4, <1>5, <1>6, <1>7, <1>8, <1>9

\* Every other step leaves the source alone, and at most lets a chunk go.
LEMMA OtherChange ==
    ASSUME ChunksInv, UNCHANGED <<input, source, chunk>>, NEW row,
           UNCHANGED pc \/
              \E t \in Threads, to \in {"running", "finalize", "emitting", "finished", "failed"} :
                 pc' = [pc EXCEPT ![t] = to]
    PROVE  /\ Waits(row)' <=> Waits(row)
           /\ \A u \in Threads : InChunk(u, row)' => InChunk(u, row)
           /\ \A u \in Threads : InGroup(u, row)' <=> InGroup(u, row)
<1>1. \A u \in Threads : pc'[u] = "function" => pc[u] = "function"
  BY DEF ChunksInv
<1>2. UNCHANGED <<table, taken, next, last, chunk>>
  BY DEF input, source
<1> QED
  BY <1>1, <1>2 DEF Waits, InChunk, InGroup

\* A row waits, or is with one thread, whoever claims the next row group.
LEMMA ClaimsStep ==
    ASSUME NEW rows, table \in Seq(Seq(rows)), DistinctRows(table), ChunksInv, ClaimsInv,
           [Next]_vars
    PROVE  ClaimsInv'
<1>1. AllRows' = AllRows
  BY SourceStep DEF input, AllRows
<1> SUFFICES ASSUME NEW t \in Threads, NEW row \in AllRows
             PROVE  /\ Held(t, row)' => ~Waits(row)' /\ \A u \in Threads : Held(u, row)' => u = t
                    /\ ~(InChunk(t, row)' /\ InGroup(t, row)')
  BY <1>1 DEF ClaimsInv
<1>2. ASSUME NEW v \in Threads, ClaimRowGroup(v)
      PROVE  /\ Held(t, row)' => ~Waits(row)' /\ \A u \in Threads : Held(u, row)' => u = t
             /\ ~(InChunk(t, row)' /\ InGroup(t, row)')
  <2>1. /\ Waits(row)' => Waits(row)
        /\ \A u \in Threads : u # v => /\ Held(u, row)' => Held(u, row)
                                       /\ InChunk(u, row)' => InChunk(u, row)
                                       /\ InGroup(u, row)' => InGroup(u, row)
        /\ Held(v, row)' => Waits(row) /\ ~Waits(row)'
        /\ ~InChunk(v, row)'
    BY <1>2, ClaimChange DEF Held
  <2> QED
    BY <2>1 DEF ClaimsInv
<1>3. ASSUME NEW v \in Threads, TakeChunk(v)
      PROVE  /\ Held(t, row)' => ~Waits(row)' /\ \A u \in Threads : Held(u, row)' => u = t
             /\ ~(InChunk(t, row)' /\ InGroup(t, row)')
  <2>1. /\ Waits(row)' <=> Waits(row)
        /\ \A u \in Threads : u # v => /\ InChunk(u, row)' => InChunk(u, row)
                                       /\ InGroup(u, row)' => InGroup(u, row)
        /\ InGroup(v, row)' => InGroup(v, row) /\ ~InChunk(v, row)'
        /\ InChunk(v, row)' => InGroup(v, row)
    BY <1>3, TakeChange
  <2>2. \A u \in Threads : Held(u, row)' => Held(u, row)
    BY <2>1 DEF Held
  <2> QED
    BY <2>1, <2>2 DEF ClaimsInv
<1>4. CASE UNCHANGED <<input, source, chunk>> /\ (UNCHANGED pc \/
              \E u \in Threads, to \in {"running", "finalize", "emitting", "finished", "failed"} :
                 pc' = [pc EXCEPT ![u] = to])
  <2>1. /\ Waits(row)' <=> Waits(row)
        /\ \A u \in Threads : InChunk(u, row)' => InChunk(u, row)
        /\ \A u \in Threads : InGroup(u, row)' <=> InGroup(u, row)
    BY <1>4, OtherChange
  <2> QED
    BY <2>1 DEF ClaimsInv, Held
<1> QED
  BY <1>2, <1>3, <1>4, SourceStep

\* A row that is gone stays gone, and a row goes when its thread leaves the
\* handler.
LEMMA GoneStep ==
    ASSUME NEW rows, table \in Seq(Seq(rows)), DistinctRows(table), ChunksInv, ClaimsInv,
           [Next]_vars, NEW row \in AllRows
    PROVE  /\ Gone(row) => Gone(row)'
           /\ \A t \in Threads : InChunk(t, row) /\ pc'[t] # "function" => Gone(row)'
<1>1. ASSUME NEW v \in Threads, ClaimRowGroup(v)
      PROVE  /\ Gone(row) => Gone(row)'
             /\ \A t \in Threads : InChunk(t, row) => pc'[t] = "function"
  <2>1. /\ Waits(row)' => Waits(row)
        /\ \A u \in Threads : u # v => (Held(u, row)' => Held(u, row))
        /\ Held(v, row)' => Waits(row)
    BY <1>1, ClaimChange DEF Held
  <2>2. pc' = pc
    BY <1>1 DEF ClaimRowGroup
  <2> QED
    BY <2>1, <2>2 DEF Gone, InChunk
<1>2. ASSUME NEW v \in Threads, TakeChunk(v)
      PROVE  /\ Gone(row) => Gone(row)'
             /\ \A t \in Threads : InChunk(t, row) => pc'[t] = "function"
  <2>1. /\ Waits(row)' <=> Waits(row)
        /\ \A u \in Threads : Held(u, row)' => Held(u, row)
    BY <1>2, TakeChange DEF Held
  <2>2. \A t \in Threads : pc[t] = "function" => pc'[t] = "function"
    BY <1>2 DEF TakeChunk, ChunksInv
  <2> QED
    BY <2>1, <2>2 DEF Gone, InChunk
<1>3. CASE UNCHANGED <<input, source, chunk>> /\ (UNCHANGED pc \/
              \E u \in Threads, to \in {"running", "finalize", "emitting", "finished", "failed"} :
                 pc' = [pc EXCEPT ![u] = to])
  <2>1. /\ Waits(row)' <=> Waits(row)
        /\ \A u \in Threads : InChunk(u, row)' => InChunk(u, row)
        /\ \A u \in Threads : InGroup(u, row)' <=> InGroup(u, row)
    BY <1>3, OtherChange
  <2>2. Gone(row) => Gone(row)'
    BY <2>1 DEF Gone, Held
  <2>3. ASSUME NEW t \in Threads, InChunk(t, row), pc'[t] # "function" PROVE Gone(row)'
    <3>1. ~InChunk(t, row)'
      BY <2>3 DEF InChunk
    <3>2. ~Waits(row) /\ ~InGroup(t, row) /\ \A u \in Threads : u # t => ~Held(u, row)
      BY <2>3 DEF ClaimsInv, Held
    <3> QED
      BY <2>1, <3>1, <3>2 DEF Gone, Held
  <2> QED
    BY <2>2, <2>3
<1> QED
  BY <1>1, <1>2, <1>3, SourceStep

-----------------------------------------------------------------------------
\* The rows of a buffer of whole rows.
LEMMA RowsOfWhole ==
    ASSUME NEW p, Whole(p)
    PROVE  \A k \in 1..p.rows : \E row \in AllRows : FirstCell(p, k) = <<row, 1>>
<1>1. 1 \in Features
  BY NFeaturesAssumption DEF Features
<1> QED
  BY <1>1 DEF Whole, IsTableRow, HoldsRow, FirstCell

\* The rows of a buffer of k whole rows behind which the rows good were pushed.
FirstCellsAre(q, p, good) ==
    /\ p.rows \in Nat /\ q.rows = p.rows + Len(good)
    /\ \A k \in 1..p.rows : FirstCell(q, k) = FirstCell(p, k)
    /\ \A j \in 1..Len(good) : FirstCell(q, p.rows + j) = <<good[j], 1>>
    /\ \A k \in 1..q.rows : k \in 1..p.rows \/ \E j \in 1..Len(good) : k = p.rows + j

LEMMA PushedFirstCells ==
    ASSUME NEW rows, NEW p, Typed(rows, p), Len(p.cells) = Size(p.rows), NEW good \in Seq(rows)
    PROVE  FirstCellsAre(AllPushed(p, good), p, good)
<1>1. PICK q : q = AllPushed(p, good)
  OBVIOUS
<1>2. PICK had \in Nat, count \in Nat :
         had = p.rows /\ count = Len(good) /\ q.rows = had + count
  BY <1>1 DEF AllPushed, Typed
<1>3. 1 \in Features
  BY NFeaturesAssumption DEF Features
<1>4. \A k \in 1..had : FirstCell(q, k) = FirstCell(p, k)
  BY <1>1, <1>2, <1>3, AllPushedCells DEF FirstCell
<1>5. ASSUME NEW j \in 1..count PROVE FirstCell(q, had + j) = <<good[j], 1>>
  <2>1. HoldsRow(CellsOf(good), j, good[j])
    BY <1>2, CellsOfRows
  <2>2. CellsOf(good)[Place(j, 1)] = <<good[j], 1>>
    BY <1>3, <2>1 DEF HoldsRow
  <2>3. q.cells[Place(had + j, 1)] = CellsOf(good)[Place(j, 1)]
    BY <1>1, <1>2, <1>3, AllPushedCells
  <2> QED
    BY <2>2, <2>3 DEF FirstCell
<1>6. ASSUME NEW k \in 1..q.rows
      PROVE  k \in 1..had \/ \E j \in 1..count : k = had + j
  <2>1. k \in 1..had \/ (k - had \in 1..count /\ k = had + (k - had))
    BY <1>2
  <2> QED
    BY <2>1
<1> QED
  BY <1>1, <1>2, <1>4, <1>5, <1>6 DEF FirstCellsAre

\* The rows in the buffer after complete rows were pushed to it.
LEMMA PushBuffered ==
    ASSUME NEW rows, NEW p, Typed(rows, p), Len(p.cells) = Size(p.rows), NEW good \in Seq(rows)
    PROVE  \A row : Buffered(AllPushed(p, good), row)
                    <=> Buffered(p, row) \/ \E a \in 1..Len(good) : good[a] = row
<1>1. PICK q : q = AllPushed(p, good) /\ FirstCellsAre(q, p, good)
  BY PushedFirstCells
<1>2. PICK had \in Nat, count \in Nat : had = p.rows /\ count = Len(good) /\ q.rows = had + count
  BY <1>1 DEF FirstCellsAre
<1>4. \A k \in 1..had : FirstCell(q, k) = FirstCell(p, k)
  BY <1>1, <1>2 DEF FirstCellsAre
<1>5. \A j \in 1..count : FirstCell(q, had + j) = <<good[j], 1>>
  BY <1>1, <1>2 DEF FirstCellsAre
<1>6. \A k \in 1..q.rows : k \in 1..had \/ \E j \in 1..count : k = had + j
  BY <1>1, <1>2 DEF FirstCellsAre
<1>9. ASSUME NEW row
      PROVE  Buffered(q, row) <=> Buffered(p, row) \/ \E a \in 1..count : good[a] = row
  <2>1. ASSUME Buffered(q, row)
        PROVE  Buffered(p, row) \/ \E a \in 1..count : good[a] = row
    <3>1. PICK k \in 1..q.rows : FirstCell(q, k) = <<row, 1>>
      BY <2>1 DEF Buffered
    <3>2. CASE k \in 1..had
      BY <1>2, <1>4, <3>1, <3>2 DEF Buffered
    <3>3. ASSUME NEW j \in 1..count, k = had + j PROVE good[j] = row
      BY <1>5, <3>1, <3>3
    <3> QED
      BY <1>6, <3>2, <3>3
  <2>2. ASSUME Buffered(p, row) PROVE Buffered(q, row)
    <3>1. PICK k \in 1..had : FirstCell(p, k) = <<row, 1>>
      BY <1>2, <2>2 DEF Buffered
    <3>2. k \in 1..q.rows
      BY <1>2
    <3> QED
      BY <1>4, <3>1, <3>2 DEF Buffered
  <2>3. ASSUME NEW a \in 1..count, good[a] = row PROVE Buffered(q, row)
    <3>1. had + a \in 1..q.rows
      BY <1>2
    <3> QED
      BY <1>5, <2>3, <3>1 DEF Buffered
  <2> QED
    BY <2>1, <2>2, <2>3
<1> QED
  BY <1>1, <1>2, <1>9

\* Rows of their own that are not in the buffer are pushed once.
LEMMA PushOnce ==
    ASSUME NEW rows, NEW p, Typed(rows, p), Len(p.cells) = Size(p.rows), OnceIn(p),
           NEW good \in Seq(rows),
           \A a, b \in 1..Len(good) : good[a] = good[b] => a = b,
           \A a \in 1..Len(good) : ~Buffered(p, good[a])
    PROVE  OnceIn(AllPushed(p, good))
<1>1. PICK q : q = AllPushed(p, good) /\ FirstCellsAre(q, p, good)
  BY PushedFirstCells
<1>2. PICK had \in Nat, count \in Nat : had = p.rows /\ count = Len(good) /\ q.rows = had + count
  BY <1>1 DEF FirstCellsAre
<1>4. \A k \in 1..had : FirstCell(q, k) = FirstCell(p, k)
  BY <1>1, <1>2 DEF FirstCellsAre
<1>5. \A j \in 1..count : FirstCell(q, had + j) = <<good[j], 1>>
  BY <1>1, <1>2 DEF FirstCellsAre
<1>6. \A k \in 1..q.rows : k \in 1..had \/ \E j \in 1..count : k = had + j
  BY <1>1, <1>2 DEF FirstCellsAre
<1>7. \A k \in 1..had, j \in 1..count : FirstCell(p, k) # <<good[j], 1>>
  BY <1>2 DEF Buffered
<1>8. ASSUME NEW k \in 1..q.rows, NEW l \in 1..q.rows, FirstCell(q, k) = FirstCell(q, l)
      PROVE  k = l
  <2>1. CASE k \in 1..had /\ l \in 1..had
    BY <1>2, <1>4, <1>8, <2>1 DEF OnceIn
  <2>2. CASE k \in 1..had /\ \E j \in 1..count : l = had + j
    <3>1. PICK j \in 1..count : l = had + j
      BY <2>2
    <3>2. FirstCell(q, k) = FirstCell(p, k) /\ FirstCell(q, l) = <<good[j], 1>>
      BY <1>4, <1>5, <2>2, <3>1
    <3> QED
      BY <1>7, <1>8, <2>2, <3>2
  <2>3. CASE l \in 1..had /\ \E j \in 1..count : k = had + j
    <3>1. PICK j \in 1..count : k = had + j
      BY <2>3
    <3>2. FirstCell(q, l) = FirstCell(p, l) /\ FirstCell(q, k) = <<good[j], 1>>
      BY <1>4, <1>5, <2>3, <3>1
    <3> QED
      BY <1>7, <1>8, <2>3, <3>2
  <2>4. ASSUME NEW i \in 1..count, NEW j \in 1..count, k = had + i, l = had + j
        PROVE  k = l
    <3>1. <<good[i], 1>> = <<good[j], 1>>
      BY <1>5, <1>8, <2>4
    <3> QED
      BY <1>2, <2>4, <3>1
  <2> QED
    BY <1>6, <2>1, <2>2, <2>3, <2>4
<1> QED
  BY <1>1, <1>8 DEF OnceIn

\* The batches more are the n batches bs and, behind them, the one made of p.
AppendedTo(bs, p, batch, n, more) ==
    /\ DOMAIN batch = 1..p.rows
    /\ \A k \in 1..p.rows : batch[k].cells[1] = FirstCell(p, k)
    /\ n \in Nat /\ DOMAIN bs = 1..n /\ DOMAIN more = 1..(n + 1)
    /\ more[n + 1] = batch
    /\ \A b \in 1..n : more[b] = bs[b]

LEMMA AppendedBatch ==
    ASSUME NEW p, p.rows \in Nat, NEW bs, Len(bs) \in Nat, bs = [b \in 1..Len(bs) |-> bs[b]]
    PROVE  AppendedTo(bs, p, BatchOf(p), Len(bs), Append(bs, BatchOf(p)))
<1>1. PICK batch, n, more : batch = BatchOf(p) /\ n = Len(bs) /\ more = Append(bs, batch)
  OBVIOUS
<1>2. 1 \in Features
  BY NFeaturesAssumption DEF Features
<1>3. /\ DOMAIN batch = 1..p.rows
      /\ \A k \in 1..p.rows : batch[k].cells[1] = FirstCell(p, k)
  BY <1>1, <1>2 DEF BatchOf, FirstCell, Place
<1>4. n \in Nat /\ DOMAIN bs = 1..n
  BY <1>1
<1>5. /\ DOMAIN more = 1..(n + 1)
      /\ more[n + 1] = batch
      /\ \A b \in 1..n : more[b] = bs[b]
  <2>1. PICK S : S = {bs[b] : b \in 1..n} \union {batch}
    OBVIOUS
  <2>2. bs \in Seq(S) /\ batch \in S /\ Len(bs) = n
    BY <1>1, <1>4, <2>1
  <2> QED
    BY <1>1, <2>2
<1> QED
  BY <1>1, <1>3, <1>4, <1>5 DEF AppendedTo

\* The rows of the batches after one was added.
LEMMA BatchedAfter ==
    ASSUME NEW p, p.rows \in Nat, NEW bs, Len(bs) \in Nat, bs = [b \in 1..Len(bs) |-> bs[b]]
    PROVE  \A row : Batched(Append(bs, BatchOf(p)), row)
                    <=> Batched(bs, row) \/ Buffered(p, row)
<1>1. PICK batch, n, more : /\ batch = BatchOf(p) /\ n = Len(bs) /\ more = Append(bs, batch)
                            /\ AppendedTo(bs, p, batch, n, more)
  BY AppendedBatch
<1>3. /\ DOMAIN batch = 1..p.rows
      /\ \A k \in 1..p.rows : batch[k].cells[1] = FirstCell(p, k)
  BY <1>1 DEF AppendedTo
<1>4. n \in Nat /\ DOMAIN bs = 1..n
  BY <1>1 DEF AppendedTo
<1>5. /\ DOMAIN more = 1..(n + 1)
      /\ more[n + 1] = batch
      /\ \A b \in 1..n : more[b] = bs[b]
  BY <1>1 DEF AppendedTo
<1>6. \A b \in DOMAIN more : b \in 1..n \/ b = n + 1
  BY <1>4, <1>5
<1>9. ASSUME NEW row
      PROVE  Batched(more, row) <=> Batched(bs, row) \/ Buffered(p, row)
  <2>1. ASSUME Batched(more, row) PROVE Batched(bs, row) \/ Buffered(p, row)
    <3>1. PICK b \in DOMAIN more : \E i \in DOMAIN more[b] : more[b][i].cells[1] = <<row, 1>>
      BY <2>1 DEF Batched
    <3>2. CASE b \in 1..n
      BY <1>4, <1>5, <3>1, <3>2 DEF Batched
    <3>3. CASE b = n + 1
      BY <1>3, <1>5, <3>1, <3>3 DEF Buffered
    <3> QED
      BY <1>6, <3>2, <3>3
  <2>2. ASSUME Batched(bs, row) PROVE Batched(more, row)
    <3>1. PICK b \in 1..n : \E i \in DOMAIN bs[b] : bs[b][i].cells[1] = <<row, 1>>
      BY <1>4, <2>2 DEF Batched
    <3>2. b \in DOMAIN more /\ more[b] = bs[b]
      BY <1>4, <1>5
    <3> QED
      BY <3>1, <3>2 DEF Batched
  <2>3. ASSUME Buffered(p, row) PROVE Batched(more, row)
    <3>1. PICK k \in 1..p.rows : FirstCell(p, k) = <<row, 1>>
      BY <2>3 DEF Buffered
    <3>2. n + 1 \in DOMAIN more /\ more[n + 1] = batch /\ k \in DOMAIN batch
      BY <1>3, <1>4, <1>5
    <3> QED
      BY <1>3, <3>1, <3>2 DEF Batched
  <2> QED
    BY <2>1, <2>2, <2>3
<1> QED
  BY <1>1, <1>9

\* A batch of rows that are in no other batch, and each once in the buffer.
LEMMA BatchOnce ==
    ASSUME NEW p, p.rows \in Nat, OnceIn(p),
           NEW bs, Len(bs) \in Nat, bs = [b \in 1..Len(bs) |-> bs[b]], Once(bs),
           \A k \in 1..p.rows : \E row : FirstCell(p, k) = <<row, 1>>,
           \A row : Buffered(p, row) => ~Batched(bs, row)
    PROVE  Once(Append(bs, BatchOf(p)))
<1>1. PICK batch, n, more : /\ batch = BatchOf(p) /\ n = Len(bs) /\ more = Append(bs, batch)
                            /\ AppendedTo(bs, p, batch, n, more)
  BY AppendedBatch
<1>3. /\ DOMAIN batch = 1..p.rows
      /\ \A k \in 1..p.rows : batch[k].cells[1] = FirstCell(p, k)
  BY <1>1 DEF AppendedTo
<1>4. n \in Nat /\ DOMAIN bs = 1..n
  BY <1>1 DEF AppendedTo
<1>5. /\ DOMAIN more = 1..(n + 1)
      /\ more[n + 1] = batch
      /\ \A b \in 1..n : more[b] = bs[b]
  BY <1>1 DEF AppendedTo
<1>6. \A b \in DOMAIN more : b \in 1..n \/ b = n + 1
  BY <1>4, <1>5
<1>7. ASSUME NEW b \in 1..n, NEW i \in DOMAIN bs[b], NEW k \in 1..p.rows
      PROVE  bs[b][i].cells[1] # batch[k].cells[1]
  <2>1. PICK row : FirstCell(p, k) = <<row, 1>>
    OBVIOUS
  <2>2. Buffered(p, row)
    BY <2>1 DEF Buffered
  <2>3. bs[b][i].cells[1] # <<row, 1>>
    BY <1>4, <2>2 DEF Batched
  <2> QED
    BY <1>3, <2>1, <2>3
<1>8. Once(more)
  <2> SUFFICES ASSUME NEW b \in DOMAIN more, NEW c \in DOMAIN more,
                      NEW i \in DOMAIN more[b], NEW j \in DOMAIN more[c],
                      more[b][i].cells[1] = more[c][j].cells[1]
               PROVE  b = c /\ i = j
    BY DEF Once
  <2>1. CASE b \in 1..n /\ c \in 1..n
    <3>1. more[b] = bs[b] /\ more[c] = bs[c] /\ b \in DOMAIN bs /\ c \in DOMAIN bs
      BY <1>4, <1>5, <2>1
    <3> QED
      BY <1>4, <3>1 DEF Once
  <2>2. CASE b \in 1..n /\ c = n + 1
    <3>1. /\ more[b] = bs[b] /\ more[c] = batch /\ i \in DOMAIN bs[b] /\ j \in 1..p.rows
          /\ bs[b][i].cells[1] = batch[j].cells[1]
      BY <1>3, <1>5, <2>2
    <3> QED
      BY <1>7, <2>2, <3>1
  <2>3. CASE b = n + 1 /\ c \in 1..n
    BY <1>3, <1>5, <1>7, <2>3
  <2>4. CASE b = n + 1 /\ c = n + 1
    BY <1>3, <1>5, <2>4 DEF OnceIn
  <2> QED
    BY <1>6, <2>1, <2>2, <2>3, <2>4
<1> QED
  BY <1>1, <1>8

\* What a flush that returns has done to a sound buffer.
LEMMA FlushCases ==
    ASSUME NEW rows, NEW p, Typed(rows, p), Sound(p), FlushSucceeds(p)
    PROVE  \/ p.rows = 0 /\ pending' = p /\ batches' = batches
           \/ /\ Whole(p) /\ ~Poisoned(p)
              /\ pending' = Nothing /\ batches' = Append(batches, BatchOf(p))
<1>1. CASE p.rows = 0
  BY <1>1 DEF FlushSucceeds, store
<1>2. CASE p.rows # 0
  <2>1. ShapeIsConsistent(p) /\ pending' = Nothing /\ batches' = Append(batches, BatchOf(p))
    BY <1>2 DEF FlushSucceeds, ClearedBuffer
  <2>2. ~Poisoned(p)
    BY <2>1 DEF Poisoned, ShapeIsConsistent, Typed
  <2> QED
    BY <2>1, <2>2 DEF Sound
<1> QED
  BY <1>1, <1>2

\* A flush moves rows, once each, from the buffer to the batches.
LEMMA FlushOnce ==
    ASSUME NEW rows, NEW p, Typed(rows, p), Sound(p), FlushSucceeds(p),
           BatchesSound, Once(batches),
           ~Poisoned(p) =>
              OnceIn(p) /\ \A row \in AllRows : Buffered(p, row) => ~Batched(batches, row)
    PROVE  /\ Once(batches')
           /\ \A row \in AllRows :
                 Batched(batches', row) =>
                    Batched(batches, row) \/ (~Poisoned(p) /\ Buffered(p, row))
           /\ OnceIn(pending')
           /\ \A row : ~Buffered(pending', row)
<1>1. CASE p.rows = 0 /\ pending' = p /\ batches' = batches
  BY <1>1 DEF OnceIn, Buffered
<1>2. CASE /\ Whole(p) /\ ~Poisoned(p)
           /\ pending' = Nothing /\ batches' = Append(batches, BatchOf(p))
  <2>1. p.rows \in Nat /\ Len(batches) \in Nat /\ batches = [b \in 1..Len(batches) |-> batches[b]]
    BY DEF Typed, BatchesSound
  <2>2. \A k \in 1..p.rows : \E row : FirstCell(p, k) = <<row, 1>>
    BY <1>2, RowsOfWhole
  <2>3. \A row : Buffered(p, row) => row \in AllRows
    BY <1>2, RowsOfWhole DEF Buffered
  <2>4. Once(batches')
    BY <1>2, <2>1, <2>2, <2>3, BatchOnce
  <2>5. \A row : Batched(batches', row) <=> Batched(batches, row) \/ Buffered(p, row)
    BY <1>2, <2>1, BatchedAfter
  <2>6. pending'.rows = 0
    BY <1>2 DEF Nothing
  <2> QED
    BY <1>2, <2>4, <2>5, <2>6 DEF OnceIn, Buffered
<1> QED
  BY <1>1, <1>2, FlushCases

\* Whoever is in a handler of a query that counts finds a sound buffer.
LEMMA HandlerIsLive ==
    ASSUME NEW rows, LoneInv, RowsInv(rows), BatchesCount,
           NEW t \in Threads, pc[t] \in {"function", "finalize"}
    PROVE  Live /\ Sound(pending) /\ BatchesSound /\ Typed(rows, pending)
<1>1. Live
  BY DEF Live, BatchesCount, LoneInv, Failing
<1> QED
  BY <1>1 DEF RowsInv, Live

\* The rows of a chunk, once they are in the buffer.
LEMMA PushedIsOnce ==
    ASSUME NEW rows, table \in Seq(Seq(rows)), DistinctRows(table), IsFiniteSet(Threads),
           ChunksInv, LoneInv, RowsInv(rows), ClaimsInv, OnceInv, BatchesCount, [Next]_vars,
           NEW t \in Threads, pc[t] = "function", pc'[t] # "function",
           BoostedTree \/ GoodRows(chunk[t]) = chunk[t]
    PROVE  LET q == Pushed(pending, chunk[t])
           IN  /\ Typed(rows, q) /\ Sound(q)
               /\ ~Poisoned(q) =>
                     /\ OnceIn(q)
                     /\ \A row \in AllRows :
                           Buffered(q, row) => Gone(row)' /\ ~Batched(batches, row)
<1> DEFINE ch == chunk[t]
           good == GoodRows(ch)
<1>1. PICK p, q : p = pending /\ q = Pushed(p, ch)
  OBVIOUS
<1>2. Live /\ Sound(p) /\ Typed(rows, p) /\ TableChunk(rows, ch)
  BY <1>1, HandlerIsLive, ChunkOfTable
<1>3. Typed(rows, q) /\ Sound(q)
  BY <1>1, <1>2, PushedTypedAndSound
<1>4. ASSUME ~Poisoned(q)
      PROVE  /\ OnceIn(q)
             /\ \A row \in AllRows : Buffered(q, row) => Gone(row)' /\ ~Batched(batches, row)
  <2>1. Whole(p) /\ q = AllPushed(p, good)
    BY <1>1, <1>2, <1>4, PushedTypedAndSound
  <2>2. Len(p.cells) = Size(p.rows) /\ ~Poisoned(p)
    BY <1>2, <2>1 DEF Whole, Poisoned, Typed
  <2>3. /\ good \in Seq(rows) /\ Len(good) <= Len(ch)
        /\ \A a \in 1..Len(good) : good[a] = ch[a]
    BY <1>2, GoodRowsArePrefix DEF TableChunk
  <2>4. \A a \in 1..Len(good) : a \in DOMAIN ch /\ good[a] = ch[a] /\ good[a] \in AllRows
    BY <1>2, <2>3 DEF TableChunk
  <2>5. \A a \in 1..Len(good) : InChunk(t, good[a])
    BY <2>4 DEF InChunk
  <2>6. /\ OnceIn(p)
        /\ \A row \in AllRows : Buffered(p, row) => Gone(row) /\ ~Batched(batches, row)
    BY <1>1, <1>2, <2>2 DEF OnceInv
  <2>7. \A a, b \in 1..Len(good) : good[a] = good[b] => a = b
    <3>1. PICK i \in DOMAIN table : ch = table[i]
      BY DEF ChunksInv
    <3>2. \A k, l \in DOMAIN table[i] : table[i][k] = table[i][l] => k = l
      BY DEF DistinctRows
    <3> HIDE DEF good, ch
    <3> QED
      BY <2>4, <3>1, <3>2
  <2>8. \A a \in 1..Len(good) : ~Buffered(p, good[a]) /\ ~Batched(batches, good[a])
    BY <2>4, <2>5, <2>6 DEF OnceInv, Gone, Held
  <2> HIDE DEF good, ch
  <2>9. OnceIn(q)
    BY <1>2, <2>1, <2>2, <2>3, <2>6, <2>7, <2>8, PushOnce
  <2>10. ASSUME NEW row \in AllRows, Buffered(q, row)
         PROVE  Gone(row)' /\ ~Batched(batches, row)
    <3>1. Buffered(p, row) \/ \E a \in 1..Len(good) : good[a] = row
      BY <1>2, <2>1, <2>2, <2>3, <2>10, PushBuffered
    <3>2. CASE Buffered(p, row)
      BY <2>6, <3>2, GoneStep
    <3>3. CASE \E a \in 1..Len(good) : good[a] = row
      BY <2>5, <2>8, <3>3, GoneStep
    <3> QED
      BY <3>1, <3>2, <3>3
  <2> QED
    BY <2>9, <2>10
<1> QED
  BY <1>1, <1>3, <1>4

\* No step puts a row in a second place.
LEMMA OnceStep ==
    ASSUME NEW rows, table \in Seq(Seq(rows)), DistinctRows(table), IsFiniteSet(Threads),
           ChunksInv, LoneInv, RowsInv(rows), ClaimsInv, OnceInv, [Next]_vars
    PROVE  OnceInv'
<1>1. UNCHANGED input /\ AllRows' = AllRows /\ BoostedTree' = BoostedTree /\ OneThread' = OneThread
  <2>1. UNCHANGED input
    BY DEF Next, Close, Step, ClaimRowGroup, TakeChunk, EndOfInput, FunctionReturns, FunctionMeetsNull,
           FunctionFlushThrows, FinalizeAgain, FinalizeFlushThrows, FinalizeWithoutRows,
           FinalizeTrains, TakeResult, input, vars
  <2> QED
    BY <2>1, UsedThreadsStay DEF input, AllRows, BoostedTree
<1>2. errors \subseteq errors'
  BY DEF Next, Close, Step, ClaimRowGroup, TakeChunk, EndOfInput, FunctionReturns, FunctionMeetsNull,
         FunctionFlushThrows, FinalizeAgain, FinalizeFlushThrows, FinalizeWithoutRows,
         FinalizeTrains, TakeResult, Fails, vars
<1>3. (BatchesCount' => BatchesCount) /\ (Live' => Live) /\ (Live' => BatchesCount')
  BY <1>1, <1>2 DEF BatchesCount, Live
<1>4. (Poisoned(pending)' <=> Poisoned(pending'))
  BY <1>1 DEF Poisoned
<1> SUFFICES ASSUME BatchesCount' PROVE OnceInv'
  BY <1>3 DEF OnceInv
<1>5. \A row \in AllRows : Gone(row) => Gone(row)'
  BY GoneStep
\* It is enough to know what became of the rows in the batches and in the buffer.
<1>6. ASSUME Once(batches'),
             \A row \in AllRows : Batched(batches', row) => Gone(row)',
             Live' /\ ~Poisoned(pending') =>
                /\ OnceIn(pending')
                /\ \A row \in AllRows :
                      Buffered(pending', row) => Gone(row)' /\ ~Batched(batches', row)
      PROVE  OnceInv'
  <2>1. Once(batches)' /\ \A row \in AllRows : Batched(batches, row)' => Gone(row)'
    BY <1>6 DEF Once, Batched
  <2>2. Live' /\ ~Poisoned(pending)' =>
           /\ OnceIn(pending)'
           /\ \A row \in AllRows :
                 Buffered(pending, row)' => Gone(row)' /\ ~Batched(batches, row)'
    BY <1>4, <1>6 DEF OnceIn, Buffered, FirstCell, Place, Batched
  <2> QED
    BY <1>1, <2>1, <2>2 DEF OnceInv
<1>7. Once(batches) /\ \A row \in AllRows : Batched(batches, row) => Gone(row)'
  BY <1>3, <1>5 DEF OnceInv
<1>8. CASE UNCHANGED <<pending, batches>>
  <2>1. Live' /\ ~Poisoned(pending') =>
           /\ OnceIn(pending')
           /\ \A row \in AllRows :
                 Buffered(pending', row) => Gone(row)' /\ ~Batched(batches', row)
    BY <1>3, <1>5, <1>8 DEF OnceInv
  <2> QED
    BY <1>6, <1>7, <1>8, <2>1
\* A handler that flushes p.
<1>9. ASSUME NEW p, Typed(rows, p), Sound(p), FlushSucceeds(p), BatchesSound,
             ~Poisoned(p) =>
                /\ OnceIn(p)
                /\ \A row \in AllRows : Buffered(p, row) => Gone(row)' /\ ~Batched(batches, row)
      PROVE  OnceInv'
  <2>1. /\ Once(batches')
        /\ \A row \in AllRows :
              Batched(batches', row) => Batched(batches, row) \/ (~Poisoned(p) /\ Buffered(p, row))
        /\ OnceIn(pending')
        /\ \A row : ~Buffered(pending', row)
    BY <1>7, <1>9, FlushOnce
  <2>2. \A row \in AllRows : Batched(batches', row) => Gone(row)'
    BY <1>7, <1>9, <2>1
  <2> QED
    BY <1>6, <2>1, <2>2
<1>10. CASE \E t \in Threads : FunctionReturns(t) \/ FunctionMeetsNull(t) \/ FunctionFlushThrows(t)
  <2>1. PICK t \in Threads : FunctionReturns(t) \/ FunctionMeetsNull(t) \/ FunctionFlushThrows(t)
    BY <1>10
  <2>2. pc[t] = "function" /\ pc'[t] # "function"
    BY <2>1 DEF FunctionReturns, FunctionMeetsNull, FunctionFlushThrows, Fails, ChunksInv
  <2>3. PICK q : q = Pushed(pending, chunk[t])
    OBVIOUS
  <2>4. BatchesCount /\ BatchesSound
    BY <1>3 DEF RowsInv
  <2>5. ASSUME BoostedTree \/ GoodRows(chunk[t]) = chunk[t]
        PROVE  /\ Typed(rows, q) /\ Sound(q)
               /\ ~Poisoned(q) =>
                     /\ OnceIn(q)
                     /\ \A row \in AllRows :
                           Buffered(q, row) => Gone(row)' /\ ~Batched(batches, row)
    BY <2>2, <2>3, <2>4, <2>5, PushedIsOnce
  <2>6. CASE pending' = q /\ UNCHANGED batches
    <3>1. Live' => BoostedTree \/ GoodRows(chunk[t]) = chunk[t]
      <4>1. GoodRows(chunk[t]) # chunk[t] => "null" \in errors'
        BY <2>1 DEF FunctionReturns, FunctionMeetsNull, FunctionFlushThrows, Fails
      <4> QED
        BY <1>1, <4>1 DEF Live
    <3> QED
      BY <1>6, <1>7, <2>5, <2>6, <3>1
  <2>7. CASE FunctionReturns(t) /\ FlushSucceeds(q)
    <3>1. GoodRows(chunk[t]) = chunk[t]
      BY <2>7 DEF FunctionReturns
    <3> QED
      BY <1>9, <2>4, <2>5, <2>7, <3>1
  <2>8. FunctionReturns(t) => FlushSucceeds(q) \/ (pending' = q /\ UNCHANGED batches)
    BY <2>3 DEF FunctionReturns, store
  <2>9. FunctionMeetsNull(t) \/ FunctionFlushThrows(t) => pending' = q /\ UNCHANGED batches
    BY <2>3 DEF FunctionMeetsNull, FunctionFlushThrows, FlushThrows, store
  <2> QED
    BY <2>1, <2>6, <2>7, <2>8, <2>9
<1>11. CASE \E t \in Threads : FinalizeWithoutRows(t) \/ FinalizeTrains(t)
  <2>1. PICK t \in Threads : pc[t] = "finalize" /\ FlushSucceeds(pending)
    BY <1>11 DEF FinalizeWithoutRows, FinalizeTrains
  <2>2. Live /\ Sound(pending) /\ BatchesSound /\ Typed(rows, pending)
    BY <1>3, <2>1, HandlerIsLive
  <2>3. ~Poisoned(pending) =>
           /\ OnceIn(pending)
           /\ \A row \in AllRows :
                 Buffered(pending, row) => Gone(row)' /\ ~Batched(batches, row)
    BY <1>5, <2>2 DEF OnceInv
  <2> QED
    BY <1>9, <2>1, <2>2, <2>3
<1>12. CASE \E t \in Threads : ClaimRowGroup(t) \/ TakeChunk(t) \/ EndOfInput(t)
                              \/ FinalizeAgain(t) \/ FinalizeFlushThrows(t) \/ TakeResult(t)
  BY <1>8, <1>12 DEF ClaimRowGroup, TakeChunk, EndOfInput, FinalizeAgain, FinalizeFlushThrows, FlushThrows,
                     TakeResult, store
<1>13. CASE Close \/ UNCHANGED vars
  BY <1>8, <1>13 DEF Close, vars, store
<1> QED
  BY <1>10, <1>11, <1>12, <1>13 DEF Next, Step

\* No row is trained on twice, for any table, threads and threshold, whichever
\* thread brings it, whoever flushes it and whatever fails.
THEOREM NoRowEverTwice ==
    ASSUME IsFiniteSet(Threads), NEW CONSTANT Rows, Tables \subseteq Seq(Seq(Rows)),
           \A tb \in Tables : DistinctRows(tb)
    PROVE  Spec => []NoRowTwice
<1> DEFINE Inv == ChunksInv /\ LoneInv /\ RowsInv(Rows) /\ ClaimsInv /\ OnceInv
<1>1. Init => Inv
  <2> SUFFICES ASSUME Init PROVE Inv
    OBVIOUS
  <2>1. table \in Seq(Seq(Rows))
    BY DEF Init
  <2>2. ChunksInv
    BY InitChunks
  <2>3. LoneInv
    BY DEF Init, LoneInv, Failing
  <2>4. RowsInv(Rows)
    BY InitRows
  <2>5. \A t \in Threads, row \in AllRows : ~Held(t, row)
    <3>1. /\ \A t \in Threads : pc[t] # "function" /\ next[t] = 1 /\ last[t] = 0
          /\ \A i \in DOMAIN table : i \in Nat
      BY <2>1 DEF Init
    <3>2. \A t \in Threads, i \in DOMAIN table : ~(next[t] <= i /\ i <= last[t])
      <4> SUFFICES ASSUME NEW t \in Threads, NEW i \in DOMAIN table
                   PROVE  ~(next[t] <= i /\ i <= last[t])
        OBVIOUS
      <4>1. next[t] = 1 /\ last[t] = 0 /\ i \in Nat
        BY <3>1
      <4> QED
        BY <4>1
    <3> QED
      BY <3>1, <3>2 DEF Held, InChunk, InGroup
  <2>6. \A row : ~Batched(batches, row) /\ ~Buffered(pending, row)
    BY DEF Init, Batched, Buffered, Nothing
  <2>7. Once(batches) /\ OnceIn(pending)
    BY DEF Init, Once, OnceIn, Nothing
  <2>8. ClaimsInv
    BY <2>5 DEF ClaimsInv, Held
  <2> QED
    BY <2>2, <2>3, <2>4, <2>6, <2>7, <2>8 DEF OnceInv
<1>2. Inv /\ [Next]_vars => Inv'
  <2> SUFFICES ASSUME Inv, [Next]_vars
               PROVE  Inv'
    OBVIOUS
  <2>1. table \in Seq(Seq(Rows)) /\ DistinctRows(table)
    BY DEF ChunksInv
  <2>2. ChunksInv' /\ LoneInv' /\ RowsInv(Rows)'
    BY <2>1, ChunksStep, LoneStep, RowsStep
  <2>3. ClaimsInv' /\ OnceInv'
    BY <2>1, ClaimsStep, OnceStep
  <2> QED
    BY <2>2, <2>3
<1>3. Inv => NoRowTwice
  <2> SUFFICES ASSUME OnceInv, BatchesCount, NEW j \in RowsIn(batches), NEW k \in RowsIn(batches),
                      RowAt(batches, j).cells[1] = RowAt(batches, k).cells[1]
               PROVE  j = k
    BY DEF NoRowTwice
  <2>1. PICK b \in DOMAIN batches : j \in {b} \X DOMAIN batches[b]
    BY DEF RowsIn
  <2>2. PICK c \in DOMAIN batches : k \in {c} \X DOMAIN batches[c]
    BY DEF RowsIn
  <2>3. j[1] = b /\ j[2] \in DOMAIN batches[b] /\ j = <<j[1], j[2]>>
    BY <2>1
  <2>4. k[1] = c /\ k[2] \in DOMAIN batches[c] /\ k = <<k[1], k[2]>>
    BY <2>2
  <2>5. batches[b][j[2]].cells[1] = batches[c][k[2]].cells[1]
    BY <2>3, <2>4 DEF RowAt
  <2>6. b = c /\ j[2] = k[2]
    BY <2>3, <2>4, <2>5 DEF OnceInv, Once
  <2> QED
    BY <2>3, <2>4, <2>6
<1> QED
  BY <1>1, <1>2, <1>3, PTL DEF Spec

-----------------------------------------------------------------------------
\* The rows a model was trained on are the rows of the table.
TrainedOnTable(model) ==
    {RowAt(model, k).cells[1] : k \in RowsIn(model)} = AllRows \X {1}

\* Until something fails no row is lost on its way from the table to the
\* batches, a thread is in its finalizer only when every chunk is claimed and it
\* has read its own, and what one thread stores is the whole table.
CoverInv ==
    /\ ~Failing =>
          /\ Whole(pending)
          /\ \A row \in AllRows :
                \/ Waits(row) \/ \E t \in Threads : Held(t, row)
                \/ Buffered(pending, row) \/ Batched(batches, row)
    /\ \A t \in Threads :
          /\ pc[t] \in {"finalize", "emitting", "finished"} => taken = Len(table)
          /\ pc[t] \in {"finalize", "emitting", "finished", "unused"} => last[t] < next[t]
    /\ OneThread =>
          /\ Len(published) \in Nat /\ published = [m \in 1..Len(published) |-> published[m]]
          /\ \A m \in DOMAIN published : TrainedOnTable(published[m])

\* An empty buffer is a buffer of whole rows.
LEMMA NothingIsWhole == Whole(Nothing)
<1>1. Size(0) = 0
  BY NFeaturesAssumption DEF Size
<1>2. Nothing.rows = 0 /\ Len(Nothing.cells) = 0 /\ Len(Nothing.labels) = 0
  BY DEF Nothing
<1> QED
  BY <1>1, <1>2 DEF Whole

\* A flush loses no row.
LEMMA FlushKeepsRows ==
    ASSUME NEW rows, NEW p, Typed(rows, p), Whole(p), FlushSucceeds(p),
           Len(batches) \in Nat, batches = [b \in 1..Len(batches) |-> batches[b]]
    PROVE  /\ pending' \in {p, Nothing} /\ Whole(pending')
           /\ \A row : Buffered(p, row) \/ Batched(batches, row) => Batched(batches', row)
<1>1. CASE p.rows = 0 /\ pending' = p /\ batches' = batches
  BY <1>1 DEF Buffered
<1>2. CASE pending' = Nothing /\ batches' = Append(batches, BatchOf(p))
  BY <1>2, BatchedAfter, NothingIsWhole DEF Typed
<1> QED
  BY <1>1, <1>2, FlushCases DEF Sound

\* The finalizer is entered when every chunk is claimed, by a thread that has
\* read those of its row group.
LEMMA PhaseStep ==
    ASSUME ChunksInv, CoverInv, [Next]_vars, NEW u \in Threads
    PROVE  /\ pc'[u] \in {"finalize", "emitting", "finished"} => taken' = Len(table')
           /\ pc'[u] \in {"finalize", "emitting", "finished", "unused"} => last'[u] < next'[u]
<1>1. /\ pc[u] \in {"finalize", "emitting", "finished"} => taken = Len(table)
      /\ pc[u] \in {"finalize", "emitting", "finished", "unused"} => last[u] < next[u]
  BY DEF CoverInv
<1>2. CASE UNCHANGED <<pc, source, table>>
  BY <1>1, <1>2 DEF source
<1>3. ASSUME NEW t \in Threads, ClaimRowGroup(t)
      PROVE  /\ pc'[u] \in {"finalize", "emitting", "finished"} => taken' = Len(table')
             /\ pc'[u] \in {"finalize", "emitting", "finished", "unused"} => last'[u] < next'[u]
  <2>1. /\ pc[t] = "running" /\ pc' = pc /\ taken < Len(table)
        /\ next' = [next EXCEPT ![t] = taken + 1] /\ last' = [last EXCEPT ![t] = taken']
    BY <1>3 DEF ClaimRowGroup
  <2>2. ~(pc[u] \in {"finalize", "emitting", "finished"})
    BY <1>1, <2>1 DEF ChunksInv
  <2>3. u # t => next'[u] = next[u] /\ last'[u] = last[u]
    BY <2>1 DEF ChunksInv
  <2> QED
    BY <1>1, <2>1, <2>2, <2>3
<1>4. ASSUME NEW t \in Threads, TakeChunk(t)
      PROVE  /\ pc'[u] \in {"finalize", "emitting", "finished"} => taken' = Len(table')
             /\ pc'[u] \in {"finalize", "emitting", "finished", "unused"} => last'[u] < next'[u]
  <2>1. /\ pc' = [pc EXCEPT ![t] = "function"] /\ UNCHANGED <<table, taken, last>>
        /\ next' = [next EXCEPT ![t] = next[t] + 1]
    BY <1>4 DEF TakeChunk, input
  <2>2. u # t => pc'[u] = pc[u] /\ next'[u] = next[u]
    BY <2>1 DEF ChunksInv
  <2>3. pc'[t] = "function"
    BY <2>1 DEF ChunksInv
  <2> QED
    BY <1>1, <2>1, <2>2, <2>3
<1>5. ASSUME NEW t \in Threads, Step(t), ~ClaimRowGroup(t), ~TakeChunk(t)
      PROVE  /\ pc'[u] \in {"finalize", "emitting", "finished"} => taken' = Len(table')
             /\ pc'[u] \in {"finalize", "emitting", "finished", "unused"} => last'[u] < next'[u]
  <2>1. UNCHANGED <<source, table>>
    BY <1>5 DEF Step, EndOfInput, FunctionReturns, FunctionMeetsNull,
                FunctionFlushThrows, FinalizeAgain, FinalizeFlushThrows, FinalizeWithoutRows,
                FinalizeTrains, TakeResult, input
  <2>2. CASE EndOfInput(t)
    <3>1. /\ next[t] > last[t] /\ taken = Len(table) /\ pc' = [pc EXCEPT ![t] = "finalize"]
      BY <2>2 DEF EndOfInput
    <3>2. u # t => pc'[u] = pc[u]
      BY <3>1 DEF ChunksInv
    <3>3. next[t] \in Nat /\ last[t] \in Nat
      BY DEF ChunksInv
    <3> QED
      BY <1>1, <2>1, <3>1, <3>2, <3>3 DEF source
  <2>3. CASE ~EndOfInput(t)
    <3>1. \E to \in {"running", "failed", "finalize", "emitting", "finished"} :
             /\ pc' = [pc EXCEPT ![t] = to]
             /\ to \in {"running", "failed"} \/ pc[t] \in {"finalize", "emitting"}
      BY <1>5, <2>3 DEF Step, FunctionReturns, FunctionMeetsNull,
                  FunctionFlushThrows, FinalizeAgain, FinalizeFlushThrows, FinalizeWithoutRows,
                  FinalizeTrains, TakeResult, Fails
    <3>2. /\ pc'[u] \in {"finalize", "emitting", "finished"} => pc[u] \in {"finalize", "emitting", "finished"}
          /\ pc'[u] = "unused" => pc[u] = "unused"
      BY <3>1 DEF ChunksInv
    <3> QED
      BY <1>1, <2>1, <3>2 DEF source
  <2> QED
    BY <2>2, <2>3
<1> QED
  BY <1>2, <1>3, <1>4, <1>5 DEF Next, Close, vars, input

\* No row is lost.
LEMMA RowsAreKept ==
    ASSUME NEW rows, table \in Seq(Seq(rows)), ChunksInv, RowsInv(rows), CoverInv, [Next]_vars,
           ~Failing'
    PROVE  /\ Whole(pending)'
           /\ \A row \in AllRows :
                 \/ Waits(row)' \/ \E t \in Threads : Held(t, row)'
                 \/ Buffered(pending', row) \/ Batched(batches', row)
<1>1. UNCHANGED input /\ AllRows' = AllRows /\ BoostedTree' = BoostedTree
  <2>1. UNCHANGED input
    BY DEF Next, Close, Step, ClaimRowGroup, TakeChunk, EndOfInput, FunctionReturns, FunctionMeetsNull,
           FunctionFlushThrows, FinalizeAgain, FinalizeFlushThrows, FinalizeWithoutRows,
           FinalizeTrains, TakeResult, input, vars
  <2> QED
    BY <2>1 DEF input, AllRows, BoostedTree
<1>2. ~Failing
  BY FailingStays
<1>3. BatchesCount /\ Typed(rows, pending) /\ Sound(pending) /\ BatchesSound
  BY <1>2 DEF RowsInv, BatchesCount, Failing
<1>4. Whole(pending)
      /\ \A row \in AllRows :
            \/ Waits(row) \/ \E t \in Threads : Held(t, row)
            \/ Buffered(pending, row) \/ Batched(batches, row)
  BY <1>2 DEF CoverInv
<1>5. Whole(pending)' <=> Whole(pending')
  BY <1>1 DEF Whole, IsTableRow
<1>6. Len(batches) \in Nat /\ batches = [b \in 1..Len(batches) |-> batches[b]]
  BY <1>3 DEF BatchesSound
<1>7. CASE /\ UNCHANGED <<pending, batches, source, chunk>>
           /\ \A t \in Threads : pc[t] = "function" => pc'[t] = "function"
  BY <1>1, <1>4, <1>5, <1>7 DEF Waits, Held, InChunk, InGroup, input, source
<1>8. ASSUME NEW t \in Threads, ClaimRowGroup(t) \/ TakeChunk(t)
      PROVE  \A row \in AllRows :
                \/ Waits(row)' \/ \E u \in Threads : Held(u, row)'
                \/ Buffered(pending', row) \/ Batched(batches', row)
  <2>1. UNCHANGED <<table, pending, batches>>
    BY <1>8 DEF ClaimRowGroup, TakeChunk, input, store
  <2>2. ASSUME NEW row, Waits(row) \/ \E u \in Threads : Held(u, row)
        PROVE  Waits(row)' \/ \E u \in Threads : Held(u, row)'
    <3>1. CASE ClaimRowGroup(t)
      <4>1. /\ next[t] > last[t] /\ taken' \in (taken + 1)..Len(table)
            /\ next' = [next EXCEPT ![t] = taken + 1] /\ last' = [last EXCEPT ![t] = taken']
            /\ UNCHANGED <<pc, chunk>>
        BY <3>1 DEF ClaimRowGroup
      <4>2. /\ next[t] \in Nat /\ last[t] \in Nat /\ taken \in Nat /\ taken' \in Nat
            /\ \A i \in DOMAIN table : i \in Nat
        BY <4>1 DEF ChunksInv
      <4>3. next'[t] = taken + 1 /\ last'[t] = taken'
            /\ \A u \in Threads : u # t => next'[u] = next[u] /\ last'[u] = last[u]
        BY <4>1 DEF ChunksInv
      <4>4. Waits(row) => Waits(row)' \/ InGroup(t, row)'
        <5> SUFFICES ASSUME Waits(row) PROVE Waits(row)' \/ InGroup(t, row)'
          OBVIOUS
        <5>1. PICK i \in DOMAIN table : i > taken /\ \E a \in DOMAIN table[i] : table[i][a] = row
          BY DEF Waits
        <5>2. i > taken' \/ (taken + 1 <= i /\ i <= taken')
          BY <4>2, <5>1
        <5> QED
          BY <2>1, <4>3, <5>1, <5>2 DEF Waits, InGroup
      <4>5. ~InGroup(t, row)
        BY <4>1, <4>2 DEF InGroup
      <4>6. \A u \in Threads : (InChunk(u, row) => InChunk(u, row)')
                               /\ (u # t /\ InGroup(u, row) => InGroup(u, row)')
        BY <2>1, <4>1, <4>3 DEF InChunk, InGroup
      <4> QED
        BY <2>2, <4>4, <4>5, <4>6 DEF Held
    <3>2. CASE TakeChunk(t)
      <4>1. /\ next[t] <= last[t] /\ next' = [next EXCEPT ![t] = next[t] + 1]
            /\ chunk' = [chunk EXCEPT ![t] = table[next[t]]]
            /\ pc[t] = "running" /\ pc' = [pc EXCEPT ![t] = "function"]
            /\ UNCHANGED <<taken, last>>
        BY <3>2 DEF TakeChunk
      <4>2. next[t] \in Nat /\ last[t] \in Nat /\ \A i \in DOMAIN table : i \in Nat
        BY DEF ChunksInv
      <4>3. next'[t] = next[t] + 1 /\ chunk'[t] = table[next[t]] /\ pc'[t] = "function"
            /\ \A u \in Threads : u # t => next'[u] = next[u] /\ chunk'[u] = chunk[u] /\ pc'[u] = pc[u]
        BY <4>1 DEF ChunksInv
      <4>4. Waits(row) => Waits(row)'
        BY <2>1, <4>1 DEF Waits
      <4>5. InGroup(t, row) => Held(t, row)'
        <5> SUFFICES ASSUME InGroup(t, row) PROVE Held(t, row)'
          OBVIOUS
        <5>1. PICK i \in DOMAIN table : next[t] <= i /\ i <= last[t]
                                        /\ \E a \in DOMAIN table[i] : table[i][a] = row
          BY DEF InGroup
        <5>2. CASE i = next[t]
          BY <4>3, <5>1, <5>2 DEF Held, InChunk
        <5>3. CASE i # next[t]
          <6>1. next'[t] <= i /\ i <= last'[t]
            BY <4>1, <4>2, <4>3, <5>1, <5>3
          <6> QED
            BY <2>1, <5>1, <6>1 DEF Held, InGroup
        <5> QED
          BY <5>2, <5>3
      <4>6. ~InChunk(t, row)
        BY <4>1 DEF InChunk
      <4>7. \A u \in Threads : u # t /\ Held(u, row) => Held(u, row)'
        BY <2>1, <4>1, <4>3 DEF Held, InChunk, InGroup
      <4> QED
        BY <2>2, <4>4, <4>5, <4>6, <4>7 DEF Held
    <3> QED
      BY <1>8, <3>1, <3>2
  <2> QED
    BY <1>4, <2>1, <2>2
<1>9. ASSUME NEW t \in Threads, FunctionReturns(t)
      PROVE  /\ Whole(pending)'
             /\ \A row \in AllRows :
                   \/ Waits(row)' \/ \E u \in Threads : Held(u, row)'
                   \/ Buffered(pending', row) \/ Batched(batches', row)
  <2>1. /\ pc[t] = "function" /\ pc' = [pc EXCEPT ![t] = "running"]
        /\ GoodRows(chunk[t]) = chunk[t] /\ UNCHANGED <<table, taken, next, last, chunk>>
    BY <1>9 DEF FunctionReturns, input, source
  <2>2. PICK ch, p : ch = chunk[t] /\ p = AllPushed(pending, ch)
    OBVIOUS
  <2>3. Pushed(pending, chunk[t]) = p
    BY <2>1, <2>2, PushedOfWholeChunk
  <2>4. TableChunk(rows, ch) /\ ch \in Seq(rows) /\ \A k \in 1..Len(ch) : ch[k] \in AllRows
    BY <2>1, <2>2, ChunkOfTable DEF TableChunk
  <2>5. Typed(rows, p) /\ Whole(p)
    BY <1>3, <1>4, <2>2, <2>4, AllPushedTyped, AllPushedWhole
  <2>6. \A row : Buffered(pending, row) \/ (\E a \in 1..Len(ch) : ch[a] = row)
                 => Buffered(p, row)
    BY <1>3, <1>4, <2>2, <2>4, PushBuffered DEF Whole
  <2>7. \A row : (Waits(row) => Waits(row)') /\ (Held(t, row) => Held(t, row)' \/ Buffered(p, row))
                 /\ \A u \in Threads : u # t /\ Held(u, row) => Held(u, row)'
    BY <2>1, <2>2, <2>4, <2>6 DEF Waits, Held, InChunk, InGroup, ChunksInv
  <2>8. CASE FlushSucceeds(p)
    <3>1. Whole(pending')
          /\ \A row : Buffered(p, row) \/ Batched(batches, row) => Batched(batches', row)
      BY <1>6, <2>5, <2>8, FlushKeepsRows
    <3> QED
      BY <1>4, <1>5, <2>6, <2>7, <3>1
  <2>9. CASE pending' = p /\ UNCHANGED batches
    BY <1>4, <1>5, <2>5, <2>6, <2>7, <2>9
  <2> QED
    BY <1>9, <2>3, <2>8, <2>9 DEF FunctionReturns, store
<1>10. ASSUME NEW t \in Threads, FinalizeTrains(t)
       PROVE  /\ Whole(pending)'
              /\ \A row \in AllRows :
                    \/ Waits(row)' \/ \E u \in Threads : Held(u, row)'
                    \/ Buffered(pending', row) \/ Batched(batches', row)
  <2>1. /\ FlushSucceeds(pending) /\ pc[t] = "finalize" /\ UNCHANGED <<table, taken, next, last, chunk>>
        /\ \E to : pc' = [pc EXCEPT ![t] = to]
    BY <1>10 DEF FinalizeTrains, Fails, input, source
  <2>2. Whole(pending')
        /\ \A row : Buffered(pending, row) \/ Batched(batches, row) => Batched(batches', row)
    BY <1>3, <1>4, <1>6, <2>1, FlushKeepsRows
  <2>3. \A row : (Waits(row) => Waits(row)')
                 /\ \A u \in Threads : Held(u, row) => Held(u, row)'
    BY <2>1 DEF Waits, Held, InChunk, InGroup, ChunksInv
  <2> QED
    BY <1>4, <1>5, <2>2, <2>3
<1>11. ASSUME NEW t \in Threads,
              ClaimRowGroup(t) \/ TakeChunk(t) \/ EndOfInput(t) \/ FinalizeAgain(t) \/ TakeResult(t)
       PROVE  UNCHANGED <<pending, batches>>
  BY <1>11 DEF ClaimRowGroup, TakeChunk, EndOfInput, FinalizeAgain, TakeResult, store
<1>12. ASSUME NEW t \in Threads, EndOfInput(t) \/ FinalizeAgain(t) \/ TakeResult(t)
       PROVE  /\ UNCHANGED <<pending, batches, source, chunk>>
              /\ \A u \in Threads : pc[u] = "function" => pc'[u] = "function"
  BY <1>11, <1>12 DEF EndOfInput, FinalizeAgain, TakeResult, ChunksInv
<1>13. \A t \in Threads : ~(FunctionMeetsNull(t) \/ FunctionFlushThrows(t)
                            \/ FinalizeFlushThrows(t) \/ FinalizeWithoutRows(t))
  BY DEF FunctionMeetsNull, FunctionFlushThrows, FinalizeFlushThrows, FinalizeWithoutRows,
         Fails, Failing
<1>14. CASE Close \/ UNCHANGED vars
  BY <1>7, <1>14 DEF Close, vars, store
<1>15. ASSUME NEW t \in Threads, ClaimRowGroup(t) \/ TakeChunk(t) PROVE Whole(pending)'
  BY <1>4, <1>5, <1>11, <1>15
<1> QED
  BY <1>7, <1>8, <1>9, <1>10, <1>12, <1>13, <1>14, <1>15 DEF Next, Step

\* The one thread that comes to the insert has flushed the whole table.
LEMMA LoneModel ==
    ASSUME NEW rows, table \in Seq(Seq(rows)), IsFiniteSet(Threads), ChunksInv, LoneInv,
           RowsInv(rows), CoverInv, OneThread, BatchesSound', AllRows' = AllRows,
           NEW t \in Threads, FinalizeTrains(t)
    PROVE  TrainedOnTable(batches')
<1>1. pc[t] = "finalize" /\ FlushSucceeds(pending)
  BY DEF FinalizeTrains
<1>2. ~Failing
  BY <1>1 DEF LoneInv
<1>3. Typed(rows, pending) /\ BatchesSound /\ Whole(pending)
  BY <1>2 DEF RowsInv, BatchesCount, CoverInv
<1>4. \A row : Buffered(pending, row) \/ Batched(batches, row) => Batched(batches', row)
  BY <1>1, <1>3, FlushKeepsRows DEF BatchesSound
<1>5. \A row : ~Waits(row)
  <2>1. taken = Len(table)
    BY <1>1 DEF CoverInv
  <2>2. \A i \in DOMAIN table : ~(i > taken)
    BY <2>1
  <2> QED
    BY <2>2 DEF Waits
<1>6. \A u \in Threads : \A row : ~Held(u, row)
  <2>1. \A u \in Threads : u # t => pc[u] = "unused"
    BY <1>1, LoneThread
  <2>2. \A u \in Threads : last[u] < next[u] /\ last[u] \in Nat /\ next[u] \in Nat
    BY <1>1, <2>1 DEF CoverInv, ChunksInv
  <2>3. \A i \in DOMAIN table : i \in Nat
    OBVIOUS
  <2>4. \A u \in Threads : \A row : ~InGroup(u, row)
    BY <2>2, <2>3 DEF InGroup
  <2> QED
    BY <1>1, <2>1, <2>4 DEF Held, InChunk
<1>7. \A row \in AllRows : Batched(batches', row)
  BY <1>2, <1>4, <1>5, <1>6 DEF CoverInv
<1>8. 1 \in Features
  BY NFeaturesAssumption DEF Features
<1>9. ASSUME NEW row \in AllRows
      PROVE  \E k \in RowsIn(batches') : RowAt(batches', k).cells[1] = <<row, 1>>
  <2>1. PICK b \in DOMAIN batches' : \E i \in DOMAIN batches'[b] : batches'[b][i].cells[1] = <<row, 1>>
    BY <1>7 DEF Batched
  <2>2. PICK i \in DOMAIN batches'[b] : batches'[b][i].cells[1] = <<row, 1>>
    BY <2>1
  <2>3. <<b, i>> \in RowsIn(batches')
    BY DEF RowsIn
  <2>4. RowAt(batches', <<b, i>>).cells[1] = <<row, 1>>
    BY <2>2 DEF RowAt
  <2> QED
    BY <2>3, <2>4
<1>10. ASSUME NEW k \in RowsIn(batches')
       PROVE  \E row \in AllRows : RowAt(batches', k).cells[1] = <<row, 1>>
  <2>1. PICK b \in DOMAIN batches' : k \in {b} \X DOMAIN batches'[b]
    BY DEF RowsIn
  <2>2. k[1] = b /\ k[2] \in DOMAIN batches'[b]
    BY <2>1
  <2>3. \E row \in AllRows : batches'[b][k[2]].cells = [f \in Features |-> <<row, f>>]
    <3>1. BatchSound(batches[b])'
      BY DEF BatchesSound
    <3>2. \A i \in DOMAIN batches'[b] : \E row \in AllRows :
             batches'[b][i].cells = [f \in Features |-> <<row, f>>]
      BY <3>1, ZenonT(60) DEF BatchSound
    <3> QED
      BY <2>2, <3>2
  <2>4. PICK row \in AllRows : batches'[b][k[2]].cells = [f \in Features |-> <<row, f>>]
    BY <2>3
  <2>5. RowAt(batches', k).cells[1] = <<row, 1>>
    BY <1>8, <2>2, <2>4 DEF RowAt
  <2> QED
    BY <2>5
<1> DEFINE Trained == {RowAt(batches', k).cells[1] : k \in RowsIn(batches')}
<1>11. Trained \subseteq AllRows \X {1}
  <2> SUFFICES ASSUME NEW k \in RowsIn(batches')
               PROVE  RowAt(batches', k).cells[1] \in AllRows \X {1}
    OBVIOUS
  <2>1. PICK row \in AllRows : RowAt(batches', k).cells[1] = <<row, 1>>
    BY <1>10
  <2> QED
    BY <2>1
<1>12. AllRows \X {1} \subseteq Trained
  <2> SUFFICES ASSUME NEW z \in AllRows \X {1} PROVE z \in Trained
    OBVIOUS
  <2>1. PICK row \in AllRows : z = <<row, 1>>
    OBVIOUS
  <2> QED
    BY <1>9, <2>1
<1>13. Trained = AllRows \X {1}
  BY <1>11, <1>12
<1> QED
  BY <1>13 DEF TrainedOnTable

\* The models of one thread stay, and the one that is added is the whole table's.
LEMMA CoverStep ==
    ASSUME NEW rows, table \in Seq(Seq(rows)), IsFiniteSet(Threads), ChunksInv, LoneInv,
           RowsInv(rows), RowsInv(rows)', CoverInv, [Next]_vars
    PROVE  CoverInv'
<1>1. AllRows' = AllRows
  <2>1. UNCHANGED input
    BY DEF Next, Close, Step, ClaimRowGroup, TakeChunk, EndOfInput, FunctionReturns, FunctionMeetsNull,
           FunctionFlushThrows, FinalizeAgain, FinalizeFlushThrows, FinalizeWithoutRows,
           FinalizeTrains, TakeResult, input, vars
  <2> QED
    BY <2>1 DEF input, AllRows
<1>2. ~Failing' => /\ Whole(pending)'
                   /\ \A row \in AllRows' :
                         \/ Waits(row)' \/ \E t \in Threads : Held(t, row)'
                         \/ Buffered(pending', row) \/ Batched(batches', row)
  BY <1>1, RowsAreKept
<1>3. \A t \in Threads :
         /\ pc'[t] \in {"finalize", "emitting", "finished"} => taken' = Len(table')
         /\ pc'[t] \in {"finalize", "emitting", "finished", "unused"} => last'[t] < next'[t]
  BY PhaseStep
<1>4. OneThread' => /\ Len(published') \in Nat
                    /\ published' = [m \in 1..Len(published') |-> published'[m]]
                    /\ \A m \in DOMAIN published' : TrainedOnTable(published[m])'
  <2> SUFFICES ASSUME OneThread'
               PROVE  /\ Len(published') \in Nat
                      /\ published' = [m \in 1..Len(published') |-> published'[m]]
                      /\ \A m \in DOMAIN published' : TrainedOnTable(published'[m])
    BY <1>1, ZenonT(60) DEF TrainedOnTable
  <2>1. OneThread
    BY UsedThreadsStay
  <2>2. /\ Len(published) \in Nat /\ published = [m \in 1..Len(published) |-> published[m]]
        /\ \A m \in DOMAIN published : TrainedOnTable(published[m])
    BY <2>1 DEF CoverInv
  <2>3. CASE UNCHANGED published
    BY <2>2, <2>3
  <2>4. CASE \E t \in Threads : FinalizeTrains(t)
    <3>1. PICK t \in Threads : FinalizeTrains(t)
      BY <2>4
    <3>2. ~Failing
      BY <2>1, <3>1 DEF LoneInv, FinalizeTrains
    <3>3. BatchesSound'
      <4>1. BatchesCount'
        BY <2>1, UsedThreadsStay DEF BatchesCount
      <4> QED
        BY <4>1 DEF RowsInv
    <3>4. TrainedOnTable(batches')
      BY <1>1, <2>1, <3>1, <3>3, LoneModel
    <3>5. published' = Append(published, batches') \/ published' = published
      BY <3>1 DEF FinalizeTrains, TrainingData
    <3>6. CASE published' = Append(published, batches')
      <4>1. PICK S, n, model : /\ n = Len(published) /\ model = batches'
                               /\ S = {published[m] : m \in 1..n} \union {model}
        OBVIOUS
      <4>2. n \in Nat /\ published \in Seq(S) /\ model \in S /\ DOMAIN published = 1..n
        BY <2>2, <4>1
      <4>3. published' = Append(published, model)
        BY <3>6, <4>1
      <4>4. published' \in Seq(S) /\ Len(published') = n + 1 /\ DOMAIN published' = 1..(n + 1)
            /\ published'[n + 1] = model /\ \A m \in 1..n : published'[m] = published[m]
        BY <4>1, <4>2, <4>3
      <4>5. \A m \in 1..(n + 1) : m = n + 1 \/ m \in 1..n
        BY <4>2
      <4>6. \A m \in DOMAIN published' : TrainedOnTable(published'[m])
        BY <2>2, <3>4, <4>1, <4>2, <4>4, <4>5, Zenon
      <4>7. Len(published') \in Nat
            /\ published' = [m \in 1..Len(published') |-> published'[m]]
        BY <4>2, <4>4
      <4> QED
        BY <4>6, <4>7
    <3> QED
      BY <2>2, <3>5, <3>6
  <2>5. ASSUME NEW t \in Threads, Step(t), ~FinalizeTrains(t) PROVE UNCHANGED published
    BY <2>5 DEF Step, ClaimRowGroup, TakeChunk, EndOfInput, FunctionReturns, FunctionMeetsNull,
                FunctionFlushThrows, FinalizeAgain, FinalizeFlushThrows, FinalizeWithoutRows,
                TakeResult, result
  <2>6. CASE Close \/ UNCHANGED vars
    BY <2>3, <2>6 DEF Close, vars, result
  <2> QED
    BY <2>3, <2>4, <2>5, <2>6 DEF Next
<1> QED
  BY <1>2, <1>3, <1>4 DEF CoverInv

\* At first every row waits in the table.
LEMMA InitCovers ==
    ASSUME NEW CONSTANT rows, Tables \subseteq Seq(Seq(rows)), Init
    PROVE  ChunksInv /\ LoneInv /\ RowsInv(rows) /\ CoverInv
<1>1. table \in Seq(Seq(rows))
  BY DEF Init
<1>2. ChunksInv
  BY InitChunks
<1>3. LoneInv
  BY DEF Init, LoneInv, Failing
<1>4. RowsInv(rows)
  BY InitRows
<1>5. Whole(pending)
  BY NothingIsWhole DEF Init
<1>6. ASSUME NEW row \in AllRows PROVE Waits(row)
  <2>1. PICK i \in DOMAIN table : row \in ToSet(table[i])
    BY DEF AllRows
  <2>2. i > taken
    BY <1>1 DEF Init
  <2> QED
    BY <2>1, <2>2 DEF Waits, ToSet
<1>7. \A t \in Threads : pc[t] \notin {"finalize", "emitting", "finished"} /\ last[t] < next[t]
  BY DEF Init
<1>8. Len(published) = 0 /\ published = [m \in 1..Len(published) |-> published[m]]
  BY DEF Init
<1>9. DOMAIN published = {}
  BY DEF Init
<1> QED
  BY <1>2, <1>3, <1>4, <1>5, <1>6, <1>7, <1>8, <1>9 DEF CoverInv

\* A model that one thread stores was trained on every row of the table and on
\* nothing else, however its rows were cut into chunks and flushed.
THEOREM ModelAlwaysHoldsEveryRow ==
    ASSUME IsFiniteSet(Threads), NEW CONSTANT Rows, Tables \subseteq Seq(Seq(Rows))
    PROVE  Spec => []ModelHoldsEveryRow
<1> DEFINE Inv == ChunksInv /\ LoneInv /\ RowsInv(Rows) /\ CoverInv
<1>1. Init => Inv
  BY InitCovers
<1>2. Inv /\ [Next]_vars => Inv'
  <2> SUFFICES ASSUME Inv, [Next]_vars
               PROVE  Inv'
    OBVIOUS
  <2>1. table \in Seq(Seq(Rows))
    BY DEF ChunksInv
  <2>2. ChunksInv' /\ LoneInv' /\ RowsInv(Rows)'
    BY <2>1, ChunksStep, LoneStep, RowsStep
  <2>3. CoverInv'
    BY <2>1, <2>2, CoverStep
  <2> QED
    BY <2>2, <2>3
<1>3. Inv => ModelHoldsEveryRow
  BY DEF CoverInv, ModelHoldsEveryRow, TrainedOnTable
<1> QED
  BY <1>1, <1>2, <1>3, PTL DEF Spec

-----------------------------------------------------------------------------
\* How a query ends.

\* A thread that is done has emitted the row or failed, and there is one; what
\* it failed with is a NULL only if there are any, and "no rows" on one thread
\* only if there are none.
EndInv ==
    /\ emitted \in BOOLEAN /\ outputs = IF emitted THEN 1 ELSE 0
    /\ errors \subseteq {"null", "write", "no rows", "insert", "lost"}
    /\ \E t \in Threads : pc[t] # "unused"
    /\ \A t \in Threads : /\ pc[t] \in {"emitting", "finished"} => emitted
                          /\ pc[t] = "failed" => Failing
    /\ nulls = {} => "null" \notin errors
    /\ OneThread => NoRowsErrorMeansNoRows

\* What QueryEnds says of a query that is over.
EndsRight ==
    /\ outputs = 1 \/ Failing
    /\ OneThread /\ CleanInput =>
          outputs = 1 \/ errors \intersect {"write", "insert", "lost"} # {}

\* How far a thread has come, between one chunk and the next.
Progress(t) ==
    CASE pc[t] = "function" -> 1
      [] pc[t] = "running" -> 2
      [] pc[t] = "finalize" -> IF emitted THEN 5 ELSE 3
      [] pc[t] = "emitting" -> 4
      [] OTHER -> 6

\* A step claims chunks that nobody has, or reads one of those that a thread has
\* claimed, or brings a thread forward and none back, or is the last.
GoesForward ==
    /\ ~closed
    /\ \/ taken < taken' /\ taken' <= Len(table) /\ ~closed'
       \/ /\ UNCHANGED <<taken, last>> /\ ~closed'
          /\ \E t \in Threads :
                next[t] <= last[t] /\ next' = [next EXCEPT ![t] = next[t] + 1]
       \/ /\ UNCHANGED source /\ ~closed'
          /\ \A t \in Threads : Progress(t) <= Progress(t)'
          /\ \E t \in Threads : Progress(t) < Progress(t)'
       \/ closed' /\ UNCHANGED <<pc, source, emitted>>
QueryGoesForward == [][GoesForward]_vars

\* A chunk with a bad row has a NULL in it.
LEMMA BadRowHasNull ==
    ASSUME NEW ch, GoodRows(ch) # ch
    PROVE  nulls # {}
<1>1. SUFFICES ASSUME nulls = {} PROVE GoodRows(ch) = ch
  OBVIOUS
<1>2. \A row : ~HasNull(row)
  BY <1>1 DEF HasNull, IsNull
<1>3. SelectInSeq(ch, HasNull) = 0
  BY <1>2 DEF SelectInSeq
<1> QED
  BY <1>3 DEF GoodRows

\* The one thread that reports no rows has had none.
LEMMA LoneNoRows ==
    ASSUME NEW rows, table \in Seq(Seq(rows)), IsFiniteSet(Threads), ChunksInv, LoneInv,
           RowsInv(rows), CoverInv, OneThread, NEW t \in Threads, FinalizeWithoutRows(t)
    PROVE  AllRows = {}
<1>1. pc[t] = "finalize" /\ FlushSucceeds(pending) /\ batches' = <<>>
  BY DEF FinalizeWithoutRows, NothingToTrain
<1>2. ~Failing
  BY <1>1 DEF LoneInv
<1>3. Typed(rows, pending) /\ BatchesSound /\ Whole(pending)
  BY <1>2 DEF RowsInv, BatchesCount, CoverInv
<1>4. \A row : Buffered(pending, row) \/ Batched(batches, row) => Batched(batches', row)
  BY <1>1, <1>3, FlushKeepsRows DEF BatchesSound
<1>5. \A row : ~Waits(row)
  <2>1. taken = Len(table)
    BY <1>1 DEF CoverInv
  <2>2. \A i \in DOMAIN table : ~(i > taken)
    BY <2>1
  <2> QED
    BY <2>2 DEF Waits
<1>6. \A u \in Threads : \A row : ~Held(u, row)
  <2>1. \A u \in Threads : u # t => pc[u] = "unused"
    BY <1>1, LoneThread
  <2>2. \A u \in Threads : last[u] < next[u] /\ last[u] \in Nat /\ next[u] \in Nat
    BY <1>1, <2>1 DEF CoverInv, ChunksInv
  <2>3. \A i \in DOMAIN table : i \in Nat
    OBVIOUS
  <2>4. \A u \in Threads : \A row : ~InGroup(u, row)
    BY <2>2, <2>3 DEF InGroup
  <2> QED
    BY <1>1, <2>1, <2>4 DEF Held, InChunk
<1>7. \A row : ~Batched(batches', row)
  BY <1>1 DEF Batched
<1> QED
  BY <1>2, <1>4, <1>5, <1>6, <1>7 DEF CoverInv

LEMMA EndStep ==
    ASSUME NEW rows, table \in Seq(Seq(rows)), IsFiniteSet(Threads), ChunksInv, LoneInv,
           RowsInv(rows), CoverInv, EndInv, [Next]_vars
    PROVE  EndInv'
<1>1. OneThread' = OneThread
  BY UsedThreadsStay
<1>2. CASE UNCHANGED <<input, pc, result, errors>>
  BY <1>1, <1>2 DEF EndInv, input, result, Failing, NoRowsErrorMeansNoRows, AllRows
<1>3. ASSUME NEW t \in Threads, Step(t), ~ClaimRowGroup(t) PROVE EndInv'
  <2>1. UNCHANGED input
    BY <1>3 DEF Step, TakeChunk, EndOfInput, FunctionReturns, FunctionMeetsNull,
                FunctionFlushThrows, FinalizeAgain, FinalizeFlushThrows, FinalizeWithoutRows,
                FinalizeTrains, TakeResult
  <2>2. PICK to \in {"running", "function", "finalize", "emitting", "finished", "failed"} :
           pc' = [pc EXCEPT ![t] = to]
    BY <1>3 DEF Step, TakeChunk, EndOfInput, FunctionReturns, FunctionMeetsNull,
                FunctionFlushThrows, FinalizeAgain, FinalizeFlushThrows, FinalizeWithoutRows,
                FinalizeTrains, TakeResult, Fails
  <2>3. errors \subseteq errors' /\ errors' \subseteq {"null", "write", "no rows", "insert", "lost"}
    BY <1>3 DEF Step, TakeChunk, EndOfInput, FunctionReturns, FunctionMeetsNull,
                FunctionFlushThrows, FinalizeAgain, FinalizeFlushThrows, FinalizeWithoutRows,
                FinalizeTrains, TakeResult, Fails, EndInv
  <2>4. /\ emitted' \in BOOLEAN /\ outputs' = IF emitted' THEN 1 ELSE 0
        /\ emitted => emitted'
        /\ to \in {"emitting", "finished"} => emitted'
        /\ to = "failed" => errors' # {}
    <3>1. CASE FinalizeTrains(t)
      <4>1. ~emitted /\ outputs = 0
        BY <3>1 DEF EndInv, FinalizeTrains
      <4>2. PICK outcome \in InsertOutcomes :
              /\ emitted' = Emitted(outcome)
              /\ IF outcome = "ok"
                   THEN outputs' = outputs + 1 /\ pc' = [pc EXCEPT ![t] = "emitting"]
                   ELSE /\ Fails(t, IF outcome = "lost" THEN "lost" ELSE "insert")
                        /\ UNCHANGED outputs
        BY <3>1 DEF FinalizeTrains
      <4>3. CASE outcome = "ok"
        <5>1. emitted' = TRUE
          BY <4>2, <4>3 DEF Emitted
        <5>2. outputs' = 1 /\ pc' = [pc EXCEPT ![t] = "emitting"]
          BY <4>1, <4>2, <4>3
        <5> QED
          BY <2>2, <5>1, <5>2 DEF ChunksInv
      <4>4. CASE outcome # "ok"
        <5>1. emitted' = FALSE
          BY <4>2, <4>4 DEF Emitted
        <5>2. outputs' = 0 /\ errors' # {} /\ pc' = [pc EXCEPT ![t] = "failed"]
          BY <4>1, <4>2, <4>4 DEF Fails
        <5> QED
          BY <2>2, <4>1, <5>1, <5>2 DEF ChunksInv
      <4> QED
        BY <4>3, <4>4
    <3>2. CASE ~FinalizeTrains(t)
      <4>1. UNCHANGED result
        BY <1>3, <3>2 DEF Step, TakeChunk, EndOfInput, FunctionReturns, FunctionMeetsNull,
                    FunctionFlushThrows, FinalizeAgain, FinalizeFlushThrows,
                    FinalizeWithoutRows, TakeResult, result
      <4>2. to \in {"emitting", "finished"} => emitted
        BY <1>3, <2>2, <3>2 DEF Step, TakeChunk, EndOfInput, FunctionReturns, FunctionMeetsNull,
                    FunctionFlushThrows, FinalizeAgain, FinalizeFlushThrows,
                    FinalizeWithoutRows, TakeResult, Fails, ChunksInv
      <4>3. to = "failed" => errors' # {}
        BY <1>3, <2>2, <3>2 DEF Step, TakeChunk, EndOfInput, FunctionReturns, FunctionMeetsNull,
                    FunctionFlushThrows, FinalizeAgain, FinalizeFlushThrows,
                    FinalizeWithoutRows, TakeResult, Fails, ChunksInv
      <4> QED
        BY <4>1, <4>2, <4>3 DEF EndInv, result
    <3> QED
      BY <3>1, <3>2
  <2>5. \A u \in Threads : /\ pc'[u] \in {"emitting", "finished"} => emitted'
                           /\ pc'[u] = "failed" => errors' # {}
    BY <2>2, <2>3, <2>4 DEF EndInv, ChunksInv, Failing
  <2>6. pc'[t] # "unused"
    BY <2>2 DEF ChunksInv
  <2>7. nulls' = {} => "null" \notin errors'
    <3>1. nulls' = nulls
      BY <2>1 DEF input
    <3>2. CASE FunctionMeetsNull(t)
      BY <3>1, <3>2, BadRowHasNull DEF FunctionMeetsNull
    <3>3. CASE ~FunctionMeetsNull(t)
      <4>1. errors' \subseteq errors \union {"write", "no rows", "insert", "lost"}
        BY <1>3, <3>3 DEF Step, TakeChunk, EndOfInput, FunctionReturns,
                    FunctionFlushThrows, FinalizeAgain, FinalizeFlushThrows, FinalizeWithoutRows,
                    FinalizeTrains, TakeResult, Fails
      <4> QED
        BY <3>1, <4>1 DEF EndInv
    <3> QED
      BY <3>2, <3>3
  <2>8. OneThread' => NoRowsErrorMeansNoRows'
    <3>1. AllRows' = AllRows
      BY <2>1 DEF input, AllRows
    <3>2. CASE FinalizeWithoutRows(t)
      BY <1>1, <3>1, <3>2, LoneNoRows DEF NoRowsErrorMeansNoRows
    <3>3. CASE ~FinalizeWithoutRows(t)
      <4>1. errors' \subseteq errors \union {"write", "null", "insert", "lost"}
        BY <1>3, <3>3 DEF Step, TakeChunk, EndOfInput, FunctionReturns, FunctionMeetsNull,
                    FunctionFlushThrows, FinalizeAgain, FinalizeFlushThrows,
                    FinalizeTrains, TakeResult, Fails
      <4> QED
        BY <1>1, <3>1, <4>1 DEF EndInv, NoRowsErrorMeansNoRows
    <3> QED
      BY <3>2, <3>3
  <2> QED
    BY <2>3, <2>4, <2>5, <2>6, <2>7, <2>8 DEF EndInv, Failing
<1>4. ASSUME NEW t \in Threads, ClaimRowGroup(t) PROVE EndInv'
  BY <1>2, <1>4 DEF ClaimRowGroup
<1> QED
  BY <1>2, <1>3, <1>4 DEF Next, Close, vars

\* What is over stays over, and ended as it should.
LEMMA ClosedStays ==
    ASSUME FilesInv, [Next]_vars, closed
    PROVE  closed'
<1>1. \A t \in Threads : ~Step(t)
  BY DEF FilesInv, Step, ClaimRowGroup, TakeChunk, EndOfInput, FunctionReturns, FunctionMeetsNull,
         FunctionFlushThrows, FinalizeAgain, FinalizeFlushThrows, FinalizeWithoutRows,
         FinalizeTrains, TakeResult
<1> QED
  BY <1>1 DEF Next, Close, vars

LEMMA ClosedEndedRight ==
    ASSUME FilesInv, EndInv, closed
    PROVE  EndsRight
<1>1. outputs = 1 \/ Failing
  <2> SUFFICES ASSUME ~Failing PROVE outputs = 1
    OBVIOUS
  <2>1. PICK t \in Threads : pc[t] # "unused"
    BY DEF EndInv
  <2>2. pc[t] = "finished"
    BY <2>1 DEF FilesInv, EndInv
  <2> QED
    BY <2>1, <2>2 DEF EndInv
<1>2. ASSUME OneThread, CleanInput, Failing
      PROVE  errors \intersect {"write", "insert", "lost"} # {}
  <2>1. "null" \notin errors /\ "no rows" \notin errors
    BY <1>2 DEF EndInv, CleanInput, NoRowsErrorMeansNoRows
  <2> QED
    BY <1>2, <2>1 DEF EndInv, Failing
<1> QED
  BY <1>1, <1>2 DEF EndsRight

\* Every step goes forward.
LEMMA ForwardStep ==
    ASSUME ChunksInv, FilesInv, EndInv, [Next]_vars
    PROVE  [GoesForward]_vars
<1>1. CASE closed
  <2>1. \A t \in Threads : ~Step(t)
    BY <1>1 DEF FilesInv, Step, ClaimRowGroup, TakeChunk, EndOfInput, FunctionReturns, FunctionMeetsNull,
                FunctionFlushThrows, FinalizeAgain, FinalizeFlushThrows, FinalizeWithoutRows,
                FinalizeTrains, TakeResult
  <2> QED
    BY <1>1, <2>1 DEF Next, Close
<1>2. ASSUME ~closed, Close PROVE GoesForward
  BY <1>2 DEF Close, GoesForward, result
<1>3. ASSUME ~closed, NEW t \in Threads, TakeChunk(t) PROVE GoesForward
  BY <1>3 DEF TakeChunk, GoesForward
<1>5. ASSUME ~closed, NEW t \in Threads, ClaimRowGroup(t) PROVE GoesForward
  <2>1. taken' \in (taken + 1)..Len(table) /\ closed' = closed /\ taken \in Nat /\ Len(table) \in Nat
    BY <1>5 DEF ClaimRowGroup, ChunksInv
  <2> QED
    BY <1>5, <2>1 DEF GoesForward
<1>4. ASSUME ~closed, NEW t \in Threads, Step(t), ~TakeChunk(t), ~ClaimRowGroup(t)
      PROVE  GoesForward
  <2>1. UNCHANGED source /\ closed' = closed
    BY <1>4 DEF Step, EndOfInput, FunctionReturns, FunctionMeetsNull,
                FunctionFlushThrows, FinalizeAgain, FinalizeFlushThrows, FinalizeWithoutRows,
                FinalizeTrains, TakeResult
  <2>2. emitted \in BOOLEAN /\ emitted' \in BOOLEAN /\ (emitted => emitted')
    <3>1. CASE FinalizeTrains(t)
      <4>1. ~emitted /\ \E outcome : emitted' = (outcome = "ok")
        BY <3>1 DEF FinalizeTrains, Emitted
      <4> QED
        BY <4>1 DEF EndInv
    <3>2. CASE ~FinalizeTrains(t)
      <4>1. emitted' = emitted
        BY <1>4, <3>2 DEF Step, EndOfInput, FunctionReturns, FunctionMeetsNull,
                    FunctionFlushThrows, FinalizeAgain, FinalizeFlushThrows,
                    FinalizeWithoutRows, TakeResult, result
      <4> QED
        BY <4>1 DEF EndInv
    <3> QED
      BY <3>1, <3>2
  <2>3. \E to \in {"running", "finalize", "emitting", "finished", "failed"} :
           /\ pc' = [pc EXCEPT ![t] = to]
           /\ \/ pc[t] = "running" /\ to = "finalize"
              \/ pc[t] = "function" /\ to \in {"running", "failed"}
              \/ pc[t] = "finalize" /\ ~emitted /\ to \in {"emitting", "failed"}
              \/ pc[t] = "finalize" /\ emitted /\ to = "finished"
              \/ pc[t] = "emitting" /\ emitted /\ to = "finalize"
    BY <1>4 DEF EndInv, Step, EndOfInput, FunctionReturns, FunctionMeetsNull,
                FunctionFlushThrows, FinalizeAgain, FinalizeFlushThrows, FinalizeWithoutRows,
                FinalizeTrains, TakeResult, Fails
  <2>4. PICK to \in {"running", "finalize", "emitting", "finished", "failed"} :
           /\ pc' = [pc EXCEPT ![t] = to]
           /\ \/ pc[t] = "running" /\ to = "finalize"
              \/ pc[t] = "function" /\ to \in {"running", "failed"}
              \/ pc[t] = "finalize" /\ ~emitted /\ to \in {"emitting", "failed"}
              \/ pc[t] = "finalize" /\ emitted /\ to = "finished"
              \/ pc[t] = "emitting" /\ emitted /\ to = "finalize"
    BY <2>3
  <2>5. \A u \in Threads : u # t => pc'[u] = pc[u]
    BY <2>4 DEF ChunksInv
  <2>6. pc'[t] = to
    BY <2>4 DEF ChunksInv
  <2>7. Progress(t) < Progress(t)'
    BY <2>2, <2>4, <2>6 DEF Progress
  <2>8. ASSUME NEW u \in Threads, u # t PROVE Progress(u) <= Progress(u)'
    BY <2>2, <2>5, <2>8 DEF Progress
  <2>9. \A u \in Threads : Progress(u) \in Nat /\ Progress(u)' \in Nat
    BY DEF Progress
  <2>10. \A u \in Threads : Progress(u) <= Progress(u)'
    BY <2>7, <2>8, <2>9
  <2> QED
    BY <1>4, <2>1, <2>7, <2>10 DEF GoesForward
<1> QED
  BY <1>1, <1>2, <1>3, <1>4, <1>5 DEF Next

\* The invariants behind the end of a query.
EndsInv(rows) ==
    ChunksInv /\ LoneInv /\ RowsInv(rows) /\ CoverInv /\ FilesInv /\ EndInv

LEMMA EndsAlways ==
    ASSUME IsFiniteSet(Threads), NEW CONSTANT Rows, Tables \subseteq Seq(Seq(Rows))
    PROVE  Spec => []EndsInv(Rows)
<1>1. Init => EndsInv(Rows)
  <2> SUFFICES ASSUME Init PROVE EndsInv(Rows)
    OBVIOUS
  <2>1. ChunksInv /\ LoneInv /\ RowsInv(Rows) /\ CoverInv
    BY InitCovers
  <2>2. FilesInv
    BY DEF Init, FilesInv
  <2>3. EndInv
    <3>1. PICK started \in (SUBSET Threads) \ {{}} :
             pc = [t \in Threads |-> IF t \in started THEN "running" ELSE "unused"]
      BY DEF Init
    <3>2. started # {} /\ \A t \in started : t \in Threads
      BY <3>1
    <3>3. PICK t \in started : t \in Threads
      BY <3>2
    <3>4. pc[t] # "unused" /\ \A u \in Threads : pc[u] \in {"unused", "running"}
      BY <3>1, <3>3
    <3> QED
      BY <3>3, <3>4 DEF Init, EndInv, NoRowsErrorMeansNoRows
  <2> QED
    BY <2>1, <2>2, <2>3 DEF EndsInv
<1>2. EndsInv(Rows) /\ [Next]_vars => EndsInv(Rows)'
  <2> SUFFICES ASSUME EndsInv(Rows), [Next]_vars
               PROVE  EndsInv(Rows)'
    OBVIOUS
  <2>1. /\ ChunksInv /\ LoneInv /\ RowsInv(Rows) /\ CoverInv /\ FilesInv /\ EndInv
        /\ table \in Seq(Seq(Rows))
    BY DEF EndsInv, ChunksInv
  <2>2. ChunksInv' /\ LoneInv' /\ RowsInv(Rows)'
    BY <2>1, ChunksStep, LoneStep, RowsStep
  <2>3. CoverInv' /\ FilesInv' /\ EndInv'
    BY <2>1, <2>2, CoverStep, FilesStep, EndStep
  <2> QED
    BY <2>2, <2>3 DEF EndsInv
<1> QED
  BY <1>1, <1>2, PTL DEF Spec

\* One thread says that there were no rows only of a table that has none.
THEOREM LoneNoRowsIsTrue ==
    ASSUME IsFiniteSet(Threads), NEW CONSTANT Rows, Tables \subseteq Seq(Seq(Rows))
    PROVE  Spec => [](OneThread => NoRowsErrorMeansNoRows)
<1>1. EndsInv(Rows) => (OneThread => NoRowsErrorMeansNoRows)
  BY DEF EndsInv, EndInv
<1> QED
  BY <1>1, EndsAlways, PTL

\* A query that is over has one result row or an error, and stays over; so it
\* ends as QueryEnds says once its state is destroyed at all.
THEOREM ClosedQueryHasEnded ==
    ASSUME IsFiniteSet(Threads), NEW CONSTANT Rows, Tables \subseteq Seq(Seq(Rows))
    PROVE  Spec => (<>closed => QueryEnds)
<1>1. EndsInv(Rows) /\ closed => EndsRight
  BY ClosedEndedRight DEF EndsInv
<1>2. EndsInv(Rows) /\ [Next]_vars /\ closed => closed'
  BY ClosedStays DEF EndsInv
<1>3. closed /\ EndsRight =>
        /\ closed
        /\ outputs = 1 \/ Failing
        /\ OneThread /\ CleanInput =>
              outputs = 1 \/ errors \intersect {"write", "insert", "lost"} # {}
  BY DEF EndsRight
<1> QED
  BY <1>1, <1>2, <1>3, EndsAlways, PTL DEF Spec, QueryEnds

\* No thread of a query ever waits in a circle or repeats itself: whatever the
\* scheduler does, each step claims chunks that are left, reads one, brings a thread
\* forward and none back, or is the last.
THEOREM QueryAlwaysGoesForward ==
    ASSUME IsFiniteSet(Threads), NEW CONSTANT Rows, Tables \subseteq Seq(Seq(Rows))
    PROVE  Spec => QueryGoesForward
<1>1. EndsInv(Rows) /\ [Next]_vars => [GoesForward]_vars
  BY ForwardStep DEF EndsInv
<1> QED
  BY <1>1, EndsAlways, PTL DEF Spec, QueryGoesForward

-----------------------------------------------------------------------------
\* The options.

\* DuckDB has cast each value to the type of its key: a BIGINT has Width bits.
BigInt(k) == k \in Int /\ -(2 ^ Width) <= 2 * k /\ 2 * k < 2 ^ Width

OfType(key, v) ==
    /\ key \in CountKeys \union {"num_components"} => \E k : BigInt(k) /\ v = Count(k)
    /\ key \in RealKeys => v = NaN \/ \E x \in Int : v = Real(x)
    /\ key \in WordKeys => \E w : v = Word(w)

\* The options of a model are among its own: the parsers pass over any others.
OwnKeys(struct) ==
    IF "model_type" \in DOMAIN struct /\ struct["model_type"] = Word("pca")
      THEN {"num_components"} ELSE TreeKeys

KnownOptions(struct) ==
    \A key \in DOMAIN struct \ {"model_type"} :
        key \in OwnKeys(struct) /\ (struct[key] # Null => OfType(key, struct[key]))

\* What the key loop reads.
TreeOptions == [key \in TreeKeys |-> IF IsSet(key) THEN Cast(given[key]) ELSE TreeDefaults[key]]

Checks == {CheckOrder[i] : i \in DOMAIN CheckOrder}

\* The options are those of the key loop, and the verdict is that of the checks.
OptionsInv ==
    /\ KnownOptions(given)
    /\ verdict = "read" => Boosted /\ options = TreeOptions
    /\ Accepted => \/ Boosted /\ options = TreeOptions /\ \A check \in Checks : ~FailsCheck(check)
                   \/ /\ Pca
                      /\ IF IsSet("num_components")
                           THEN /\ given["num_components"].value > 0
                                /\ options = [num_components |-> Cast(given["num_components"])]
                           ELSE options = PcaDefaults
    /\ Refused /\ verdict # "model_type" =>
                   \/ Boosted /\ options = TreeOptions /\ verdict \in Checks /\ FailsCheck(verdict)
                   \/ /\ Pca /\ verdict = "num_components" /\ IsSet(verdict)
                      /\ given[verdict].value <= 0

\* A set of natural numbers that is not empty has its least element.
LEMMA LeastOfNat ==
    ASSUME NEW S, S \subseteq Nat, S # {}
    PROVE  Min(S) \in S
<1> DEFINE Less == OpToRel(<, Nat)
<1>1. PICK least \in S : \A n \in S : ~(<<n, least>> \in Less)
  <2>1. IsWellFoundedOn(Less, Nat)
    BY NatLessThanWellFounded
  <2> HIDE DEF Less
  <2> QED
    BY <2>1, WFMin
<1>2. \A n \in S : least <= n
  <2> SUFFICES ASSUME NEW n \in S PROVE ~(n < least)
    OBVIOUS
  <2> QED
    BY <1>1 DEF OpToRel
<1> QED
  BY <1>2 DEF Min

\* The first check that fails is one that fails, and none does if there is none.
LEMMA FirstFailure ==
    LET first == SelectInSeq(CheckOrder, FailsCheck)
    IN  IF first = 0 THEN \A check \in Checks : ~FailsCheck(check)
        ELSE CheckOrder[first] \in Checks /\ FailsCheck(CheckOrder[first])
<1> DEFINE I == {i \in 1..Len(CheckOrder) : FailsCheck(CheckOrder[i])}
<1>1. Len(CheckOrder) = 17 /\ DOMAIN CheckOrder = 1..17
  BY DEF CheckOrder
<1>2. CASE I = {}
  BY <1>1, <1>2 DEF SelectInSeq, Checks
<1>3. CASE I # {}
  <2>1. I \subseteq 1..17 /\ I \subseteq Nat /\ \A i \in I : FailsCheck(CheckOrder[i])
    BY <1>1
  <2>2. SelectInSeq(CheckOrder, FailsCheck) = Min(I)
    BY <1>3 DEF SelectInSeq
  <2> HIDE DEF I
  <2>3. Min(I) \in I
    BY <1>3, <2>1, LeastOfNat
  <2>4. Min(I) \in 1..17 /\ FailsCheck(CheckOrder[Min(I)])
    BY <2>1, <2>3
  <2> QED
    BY <1>1, <2>2, <2>4 DEF Checks
<1> QED
  BY <1>2, <1>3

\* Nothing changes the options that were given.
LEMMA GivenStays ==
    ASSUME [OptionsNext]_optionVars
    PROVE  /\ given' = given /\ (Boosted' <=> Boosted) /\ (Pca' <=> Pca)
           /\ TreeOptions' = TreeOptions /\ \A key : IsSet(key)' <=> IsSet(key)
<1>1. given' = given
  BY DEF OptionsNext, ReadTreeOptions, ReadPcaOptions, RefuseModelType, ValidateTreeOptions, optionVars
<1>2. \A key : IsSet(key)' <=> IsSet(key)
  BY <1>1 DEF IsSet
<1>3. (Boosted' <=> Boosted) /\ (Pca' <=> Pca)
  BY <1>1 DEF Boosted, Pca, ModelType
<1>4. TreeOptions' = TreeOptions
  BY <1>1, <1>2 DEF TreeOptions
<1> QED
  BY <1>1, <1>2, <1>3, <1>4

\* A count that was given is an integer.
LEMMA CountsAreIntegers ==
    ASSUME KnownOptions(given), NEW key \in CountKeys \union {"num_components"}, IsSet(key)
    PROVE  \E k : BigInt(k) /\ given[key] = Count(k) /\ given[key].value = k
                  /\ given[key].value \in Int
<1>1. key # "model_type"
  BY DEF CountKeys
<1>2. OfType(key, given[key])
  BY <1>1 DEF KnownOptions, IsSet
<1>3. PICK k : BigInt(k) /\ given[key] = Count(k)
  BY <1>2 DEF OfType
<1>4. given[key].value = k /\ k \in Int
  BY <1>3 DEF Count, BigInt
<1> QED
  BY <1>3, <1>4

\* The verdict is that of the checks.
LEMMA OptionsStep ==
    ASSUME OptionsInv, [OptionsNext]_optionVars
    PROVE  OptionsInv'
<1>1. /\ given' = given /\ (Boosted' <=> Boosted) /\ (Pca' <=> Pca)
      /\ TreeOptions' = TreeOptions /\ \A key : IsSet(key)' <=> IsSet(key)
  BY GivenStays
<1>2. ASSUME options' = options PROVE \A check : FailsCheck(check)' <=> FailsCheck(check)
  <2>1. DropoutWithoutDart' <=> DropoutWithoutDart
    BY <1>1, <1>2 DEF DropoutWithoutDart
  <2> QED
    BY <1>2, <2>1, Zenon DEF FailsCheck
<1>3. CASE UNCHANGED optionVars
  <2>1. verdict' = verdict /\ options' = options
    BY <1>3 DEF optionVars
  <2>2. (Accepted' <=> Accepted) /\ (Refused' <=> Refused)
    BY <2>1 DEF Accepted, Refused
  <2> QED
    BY <1>1, <1>2, <2>1, <2>2 DEF OptionsInv
<1>4. CASE ReadTreeOptions
  <2>1. verdict' = "read" /\ Boosted /\ options' = TreeOptions
    BY <1>4 DEF ReadTreeOptions, TreeOptions
  <2>2. ~Accepted' /\ ~Refused'
    BY <2>1 DEF Accepted, Refused
  <2> QED
    BY <1>1, <2>1, <2>2 DEF OptionsInv
<1>5. CASE ReadPcaOptions
  <2>1. /\ Pca
        /\ \/ /\ ~IsSet("num_components") /\ options' = PcaDefaults /\ verdict' = "accepted"
           \/ /\ IsSet("num_components") /\ ~(given["num_components"].value <= 0)
              /\ options' = [num_components |-> Cast(given["num_components"])]
              /\ verdict' = "accepted"
           \/ /\ IsSet("num_components") /\ given["num_components"].value <= 0
              /\ verdict' = "num_components"
    BY <1>5 DEF ReadPcaOptions, BadComponents
  <2>2. KnownOptions(given')
    BY <1>1 DEF OptionsInv
  <2>3. CASE verdict' = "accepted"
    <3>1. ~Refused' /\ verdict' # "read"
      BY <2>3 DEF Refused
    <3>2. IF IsSet("num_components")
            THEN /\ given["num_components"].value > 0
                 /\ options' = [num_components |-> Cast(given["num_components"])]
            ELSE options' = PcaDefaults
      <4>1. IsSet("num_components") => given["num_components"].value \in Int
        BY CountsAreIntegers DEF OptionsInv
      <4> QED
        BY <2>1, <2>3, <4>1
    <3> QED
      BY <1>1, <2>1, <2>2, <3>1, <3>2 DEF OptionsInv
  <2>4. CASE verdict' = "num_components"
    BY <1>1, <2>1, <2>2, <2>4 DEF OptionsInv, Accepted
  <2> QED
    BY <2>1, <2>3, <2>4
<1>6. CASE RefuseModelType
  <2>1. verdict' = "model_type"
    BY <1>6 DEF RefuseModelType
  <2> QED
    BY <1>1, <2>1 DEF OptionsInv, Accepted
<1>7. CASE ValidateTreeOptions
  <2>1. PICK first : first = SelectInSeq(CheckOrder, FailsCheck)
    OBVIOUS
  <2>2. /\ verdict = "read" /\ options' = options
        /\ verdict' = IF first = 0 THEN "accepted" ELSE CheckOrder[first]
    BY <1>7, <2>1 DEF ValidateTreeOptions
  <2>3. IF first = 0 THEN \A check \in Checks : ~FailsCheck(check)
        ELSE CheckOrder[first] \in Checks /\ FailsCheck(CheckOrder[first])
    BY <2>1, FirstFailure
  <2>4. KnownOptions(given') /\ Boosted /\ options' = TreeOptions
    BY <1>1, <2>2 DEF OptionsInv
  <2>5. \A check \in Checks : check # "read" /\ check # "accepted"
    BY DEF Checks, CheckOrder
  <2>6. \A check : FailsCheck(check)' <=> FailsCheck(check)
    BY <1>2, <2>2
  <2>7. CASE first = 0
    <3>1. ~Refused' /\ verdict' # "read"
      BY <2>2, <2>7 DEF Refused
    <3>2. \A check \in Checks : ~FailsCheck(check)'
      BY <2>3, <2>6, <2>7
    <3> QED
      BY <1>1, <2>4, <3>1, <3>2 DEF OptionsInv
  <2>8. CASE first # 0
    <3>1. PICK check \in Checks : verdict' = check /\ FailsCheck(check)
      BY <2>2, <2>3, <2>8
    <3>2. ~Accepted' /\ verdict' # "read"
      BY <2>5, <3>1 DEF Accepted
    <3>3. FailsCheck(verdict)'
      BY <2>6, <3>1
    <3> QED
      BY <1>1, <2>4, <3>1, <3>2, <3>3 DEF OptionsInv
  <2> QED
    BY <2>7, <2>8
<1> QED
  BY <1>3, <1>4, <1>5, <1>6, <1>7 DEF OptionsNext

-----------------------------------------------------------------------------
\* The classes of keys have none in common.
LEMMA KeyClasses ==
    ASSUME NEW key
    PROVE  /\ key \in PositiveKeys => key \notin ClosedUnitKeys \union OpenUnitKeys \union NonNegativeKeys
                                                  \union WordKeys \union {"dart", "min_child_weight"}
           /\ key \in ClosedUnitKeys => key \notin OpenUnitKeys \union NonNegativeKeys \union WordKeys
                                                  \union {"dart", "min_child_weight", "num_components"}
           /\ key \in OpenUnitKeys => key \notin NonNegativeKeys \union WordKeys
                                                  \union {"dart", "min_child_weight", "num_components"}
           /\ key \in NonNegativeKeys => key \notin WordKeys
                                                  \union {"dart", "min_child_weight", "num_components"}
           /\ key \in WordKeys => key \notin {"dart", "min_child_weight", "num_components"}
  BY DEF PositiveKeys, CountKeys, ClosedUnitKeys, OpenUnitKeys, NonNegativeKeys, WordKeys

\* What each check asks.
LEMMA FailsOf ==
    ASSUME NEW key
    PROVE  /\ FailsCheck("dart") <=> DropoutWithoutDart
           /\ key \in WordKeys => (FailsCheck(key) <=> options[key].value \notin Words(key))
           /\ key \in PositiveKeys => (FailsCheck(key) <=> options[key].value < 1)
           /\ key \in ClosedUnitKeys => (FailsCheck(key) <=> OffClosedUnit(options[key]))
           /\ key \in OpenUnitKeys => (FailsCheck(key) <=> OffOpenUnit(options[key]))
           /\ key \in NonNegativeKeys => (FailsCheck(key) <=> Below(options[key], 0))
<1>1. FailsCheck("dart") <=> DropoutWithoutDart
  <2>1. "dart" \notin WordKeys \union PositiveKeys \union ClosedUnitKeys \union OpenUnitKeys
                       \union NonNegativeKeys
    BY DEF WordKeys, PositiveKeys, CountKeys, ClosedUnitKeys, OpenUnitKeys, NonNegativeKeys
  <2> QED
    BY <2>1 DEF FailsCheck
<1>2. key \in WordKeys => (FailsCheck(key) <=> options[key].value \notin Words(key))
  BY KeyClasses DEF FailsCheck
<1>3. key \in PositiveKeys => (FailsCheck(key) <=> options[key].value < 1)
  BY KeyClasses DEF FailsCheck
<1>4. key \in ClosedUnitKeys => (FailsCheck(key) <=> OffClosedUnit(options[key]))
  BY KeyClasses DEF FailsCheck
<1>5. key \in OpenUnitKeys => (FailsCheck(key) <=> OffOpenUnit(options[key]))
  BY KeyClasses DEF FailsCheck
<1>6. key \in NonNegativeKeys => (FailsCheck(key) <=> Below(options[key], 0))
  BY KeyClasses DEF FailsCheck
<1> QED
  BY <1>1, <1>2, <1>3, <1>4, <1>5, <1>6

\* What each range says.
LEMMA InRangeOf ==
    ASSUME NEW key, NEW v
    PROVE  /\ key \in PositiveKeys \union {"num_components"} => (InRange(key, v) <=> v.value >= 1)
           /\ key = "min_child_weight" => (InRange(key, v) <=> v.value >= 0)
           /\ key \in ClosedUnitKeys => (InRange(key, v) <=> v.kind = "real" /\ v.value \in 0..100)
           /\ key \in OpenUnitKeys => (InRange(key, v) <=> v.kind = "real" /\ v.value \in 1..100)
           /\ key \in NonNegativeKeys => (InRange(key, v) <=> v.kind = "real" /\ v.value >= 0)
           /\ key \in WordKeys => (InRange(key, v) <=> v.value \in Words(key))
<1>1. key \in PositiveKeys \union {"num_components"} => (InRange(key, v) <=> v.value >= 1)
  BY KeyClasses DEF InRange
<1>2. key = "min_child_weight" => (InRange(key, v) <=> v.value >= 0)
  BY KeyClasses DEF InRange
<1>3. key \in ClosedUnitKeys => (InRange(key, v) <=> v.kind = "real" /\ v.value \in 0..100)
  BY KeyClasses DEF InRange
<1>4. key \in OpenUnitKeys => (InRange(key, v) <=> v.kind = "real" /\ v.value \in 1..100)
  BY KeyClasses DEF InRange
<1>5. key \in NonNegativeKeys => (InRange(key, v) <=> v.kind = "real" /\ v.value >= 0)
  BY KeyClasses DEF InRange
<1>6. key \in WordKeys => (InRange(key, v) <=> v.value \in Words(key))
  BY KeyClasses DEF InRange
<1> QED
  BY <1>1, <1>2, <1>3, <1>4, <1>5, <1>6

\* The defaults pass their checks.
LEMMA DefaultsPass ==
    ASSUME NEW key
    PROVE  /\ key \in PositiveKeys => \E k \in Int : k >= 1 /\ TreeDefaults[key] = Count(k)
           /\ key \in ClosedUnitKeys => \E x \in 0..100 : TreeDefaults[key] = Real(x)
           /\ key \in OpenUnitKeys => \E x \in 1..100 : TreeDefaults[key] = Real(x)
           /\ key \in NonNegativeKeys => \E x \in Int : x >= 0 /\ TreeDefaults[key] = Real(x)
           /\ key \in WordKeys => \E w \in Words(key) : TreeDefaults[key] = Word(w)
           /\ TreeDefaults["dropout"] = Real(0)
<1>1. TreeDefaults["dropout"] = Real(0)
  BY DEF TreeDefaults, TreeKeys, RealKeys, PositiveKeys, CountKeys, ClosedUnitKeys, OpenUnitKeys
<1>2. key \in PositiveKeys => \E k \in Int : k >= 1 /\ TreeDefaults[key] = Count(k)
  <2>1. /\ TreeDefaults["num_parallel_tree"] = Count(1)
        /\ TreeDefaults["max_tree_depth"] = Count(6)
        /\ TreeDefaults["max_iterations"] = Count(10)
    BY DEF TreeDefaults, TreeKeys, RealKeys, PositiveKeys, CountKeys, ClosedUnitKeys,
           OpenUnitKeys, NonNegativeKeys, WordKeys
  <2>2. key \in PositiveKeys =>
            key \in {"num_parallel_tree", "max_tree_depth", "max_iterations"}
    BY DEF PositiveKeys, CountKeys
  <2> QED
    BY <2>1, <2>2
<1>3. key \in ClosedUnitKeys => \E x \in 0..100 : TreeDefaults[key] = Real(x)
  <2>1. TreeDefaults["learning_rate"] = Real(30)
    BY DEF TreeDefaults, TreeKeys, RealKeys, PositiveKeys, CountKeys, ClosedUnitKeys,
           OpenUnitKeys, NonNegativeKeys, WordKeys
  <2> QED
    BY <1>1, <2>1 DEF ClosedUnitKeys
<1>4. key \in OpenUnitKeys => \E x \in 1..100 : TreeDefaults[key] = Real(x)
  <2>1. key \in OpenUnitKeys => TreeDefaults[key] = Real(100)
    BY DEF TreeDefaults, TreeKeys, RealKeys, PositiveKeys, CountKeys, OpenUnitKeys
  <2> QED
    BY <2>1
<1>5. key \in NonNegativeKeys => \E x \in Int : x >= 0 /\ TreeDefaults[key] = Real(x)
  BY DEF TreeDefaults, TreeKeys, RealKeys, PositiveKeys, CountKeys, ClosedUnitKeys, OpenUnitKeys,
         NonNegativeKeys
<1>6. key \in WordKeys => \E w \in Words(key) : TreeDefaults[key] = Word(w)
  BY DEF TreeDefaults, TreeKeys, RealKeys, PositiveKeys, CountKeys, ClosedUnitKeys, OpenUnitKeys,
         NonNegativeKeys, WordKeys, Words
<1> QED
  BY <1>1, <1>2, <1>3, <1>4, <1>5, <1>6

\* The options that a model reads are the ones it was given.
LEMMA KeysOfModel ==
    ASSUME KnownOptions(given), NEW key \in SetKeys
    PROVE  /\ Boosted => key \in TreeKeys /\ OfType(key, given[key])
           /\ Pca => key = "num_components" /\ OfType(key, given[key])
<1>1. key \in DOMAIN given \ {"model_type"} /\ given[key] # Null
  BY DEF SetKeys, IsSet
<1>2. key \in OwnKeys(given) /\ OfType(key, given[key])
  BY <1>1 DEF KnownOptions
<1>3. Boosted => OwnKeys(given) = TreeKeys
  <2>1. Word("boosted_tree_regressor") # Word("pca")
    BY DEF Word
  <2> QED
    BY <2>1 DEF Boosted, ModelType, OwnKeys, Null, Word
<1>4. Pca => OwnKeys(given) = {"num_components"}
  BY DEF Pca, ModelType, OwnKeys, Null, Word
<1> QED
  BY <1>2, <1>3, <1>4

\* A count that is not negative keeps its value in the cast.
LEMMA CastKeeps ==
    ASSUME NEW k, BigInt(k)
    PROVE  Cast(Count(k)) = Count(k) \/ Negative(Count(k))
<1>1. 2 ^ Width \in Int
  BY WidthAssumption
<1>2. PICK m \in Int : m = 2 ^ Width
  BY <1>1
<1>3. k \in Int /\ (k < 0 \/ (k >= 0 /\ k < m))
  BY <1>2 DEF BigInt
<1>4. k >= 0 /\ k < m => k % m = k
  BY <1>2, <1>3
<1> QED
  BY <1>2, <1>3, <1>4 DEF Cast, Count, Negative

\* What an option of a tree is, for each kind of key.
LEMMA OptionsRead ==
    ASSUME KnownOptions(given), Boosted, options = TreeOptions, NEW key \in TreeKeys
    PROVE  /\ ~IsSet(key) => options[key] = TreeDefaults[key]
           /\ IsSet(key) /\ key \in CountKeys =>
                 \E k \in Int : /\ given[key] = Count(k)
                                /\ options[key] = given[key] \/ Negative(given[key])
           /\ IsSet(key) /\ key \in RealKeys =>
                 /\ given[key] = NaN \/ \E x \in Int : given[key] = Real(x)
                 /\ options[key] = given[key]
           /\ IsSet(key) /\ key \in WordKeys =>
                 (\E w : given[key] = Word(w)) /\ options[key] = given[key]
<1>1. options[key] = IF IsSet(key) THEN Cast(given[key]) ELSE TreeDefaults[key]
  BY DEF TreeOptions
<1>2. key # "model_type"
  BY DEF TreeKeys, CountKeys, RealKeys, WordKeys, ClosedUnitKeys, OpenUnitKeys, NonNegativeKeys
<1>3. IsSet(key) => OfType(key, given[key])
  BY <1>2 DEF KnownOptions, IsSet
<1>4. ASSUME IsSet(key), key \in CountKeys
      PROVE  \E k \in Int : /\ given[key] = Count(k)
                            /\ options[key] = given[key] \/ Negative(given[key])
  <2>1. PICK k : BigInt(k) /\ given[key] = Count(k)
    BY <1>3, <1>4 DEF OfType
  <2> QED
    BY <1>1, <1>4, <2>1, CastKeeps DEF BigInt
<1>5. ASSUME IsSet(key), key \in RealKeys
      PROVE  /\ given[key] = NaN \/ \E x \in Int : given[key] = Real(x)
             /\ options[key] = given[key]
  <2>1. given[key] = NaN \/ \E x \in Int : given[key] = Real(x)
    BY <1>3, <1>5 DEF OfType
  <2>2. given[key].kind # "count"
    <3>1. NaN.kind # "count" /\ \A x : Real(x).kind # "count"
      BY DEF NaN, Real
    <3> QED
      BY <2>1, <3>1
  <2> QED
    BY <1>1, <1>5, <2>1, <2>2 DEF Cast
<1>6. ASSUME IsSet(key), key \in WordKeys
      PROVE  (\E w : given[key] = Word(w)) /\ options[key] = given[key]
  <2>1. \E w : given[key] = Word(w)
    BY <1>3, <1>6 DEF OfType
  <2>2. given[key].kind # "count"
    BY <2>1 DEF Word
  <2> QED
    BY <1>1, <1>6, <2>1, <2>2 DEF Cast
<1> QED
  BY <1>1, <1>4, <1>5, <1>6

\* The check of a dropout is about what was given: the default has no dropout, and
\* the default booster is not dart.
LEMMA DartOfOptions ==
    ASSUME KnownOptions(given), Boosted, options = TreeOptions
    PROVE  DropoutWithoutDart <=> WantsDart /\ ~AsksDart
<1>1. "dropout" \in TreeKeys /\ "dropout" \in RealKeys /\ "dropout" # "model_type"
  BY DEF TreeKeys, RealKeys, ClosedUnitKeys
<1>2. "booster_type" \in TreeKeys /\ "booster_type" \in WordKeys
  BY DEF TreeKeys, WordKeys
<1>3. options["booster_type"] = Word("dart") <=> AsksDart
  <2>1. TreeDefaults["booster_type"] # Word("dart")
    BY <1>2 DEF TreeDefaults, WordKeys, PositiveKeys, CountKeys, OpenUnitKeys, Word
  <2> QED
    BY <1>2, <2>1, OptionsRead DEF AsksDart
<1>4. ~Above(TreeDefaults["dropout"], 0)
  BY DefaultsPass DEF Above, Real
<1>5. "dropout" \in DOMAIN given /\ Above(options["dropout"], 0) <=> WantsDart
  <2>1. IsSet("dropout") => options["dropout"] = given["dropout"]
    BY <1>1, OptionsRead
  <2>2. ~IsSet("dropout") => options["dropout"] = TreeDefaults["dropout"]
    BY <1>1, OptionsRead
  <2> QED
    BY <1>1, <1>4, <2>1, <2>2 DEF WantsDart, SetKeys, IsSet
<1> QED
  BY <1>3, <1>5 DEF DropoutWithoutDart

\* A check that fails is about a value that was given and is out of its range.
LEMMA FailedIsOutOfRange ==
    ASSUME KnownOptions(given), Boosted, options = TreeOptions,
           NEW key \in Checks, FailsCheck(key), key # "dart"
    PROVE  key \in SetKeys /\ ~InRange(key, given[key])
<1>1. key \in WordKeys \/ key \in PositiveKeys \/ key \in ClosedUnitKeys
      \/ key \in OpenUnitKeys \/ key \in NonNegativeKeys
  BY DEF Checks, CheckOrder, WordKeys, PositiveKeys, CountKeys, ClosedUnitKeys, OpenUnitKeys,
         NonNegativeKeys
<1>2. key \in TreeKeys /\ key # "model_type"
  BY <1>1 DEF TreeKeys, RealKeys, WordKeys, PositiveKeys, CountKeys, ClosedUnitKeys, OpenUnitKeys,
         NonNegativeKeys
<1>3. SUFFICES IsSet(key) /\ ~InRange(key, given[key])
  BY <1>2 DEF SetKeys, IsSet
<1>4. CASE key \in WordKeys
  <2>1. options[key].value \notin Words(key)
    BY <1>4, FailsOf
  <2>2. IsSet(key)
    <3>1. \E w \in Words(key) : TreeDefaults[key] = Word(w)
      BY <1>4, DefaultsPass
    <3> QED
      BY <1>2, <2>1, <3>1, OptionsRead DEF Word
  <2> QED
    BY <1>2, <1>4, <2>1, <2>2, OptionsRead, InRangeOf
<1>5. CASE key \in PositiveKeys
  <2>1. options[key].value < 1 /\ key \in CountKeys
    BY <1>5, FailsOf DEF PositiveKeys
  <2>2. IsSet(key)
    <3>1. \E k \in Int : k >= 1 /\ TreeDefaults[key] = Count(k)
      BY <1>5, DefaultsPass
    <3> QED
      BY <1>2, <2>1, <3>1, OptionsRead DEF Count
  <2>3. PICK k \in Int : /\ given[key] = Count(k)
                         /\ options[key] = given[key] \/ Negative(given[key])
    BY <1>2, <2>1, <2>2, OptionsRead
  <2>4. given[key].value = k /\ k < 1
    BY <2>1, <2>3 DEF Count, Negative
  <2> QED
    BY <1>5, <2>2, <2>4, InRangeOf
<1>6. CASE key \in ClosedUnitKeys
  <2>1. OffClosedUnit(options[key]) /\ key \in RealKeys
    BY <1>6, FailsOf DEF RealKeys
  <2>2. IsSet(key)
    <3>1. \E x \in 0..100 : TreeDefaults[key] = Real(x)
      BY <1>6, DefaultsPass
    <3> QED
      BY <1>2, <2>1, <3>1, OptionsRead DEF Real, OffClosedUnit, Below, Above
  <2>3. options[key] = given[key] /\ (given[key] = NaN \/ \E x \in Int : given[key] = Real(x))
    BY <1>2, <2>1, <2>2, OptionsRead
  <2>4. ~(given[key].kind = "real" /\ given[key].value \in 0..100)
    <3>1. given[key].kind = "real" => \E x \in Int : given[key] = Real(x)
      BY <2>3 DEF NaN
    <3>2. \A x \in Int : given[key] = Real(x) =>
             given[key].value = x /\ ~(x \in 0..100)
      BY <2>1, <2>3 DEF Real, OffClosedUnit, Below, Above
    <3> QED
      BY <3>1, <3>2
  <2> QED
    BY <1>6, <2>2, <2>4, InRangeOf
<1>7. CASE key \in OpenUnitKeys
  <2>1. OffOpenUnit(options[key]) /\ key \in RealKeys
    BY <1>7, FailsOf DEF RealKeys
  <2>2. IsSet(key)
    <3>1. \E x \in 1..100 : TreeDefaults[key] = Real(x)
      BY <1>7, DefaultsPass
    <3> QED
      BY <1>2, <2>1, <3>1, OptionsRead DEF Real, OffOpenUnit, Below, Above
  <2>3. options[key] = given[key] /\ (given[key] = NaN \/ \E x \in Int : given[key] = Real(x))
    BY <1>2, <2>1, <2>2, OptionsRead
  <2>4. ~(given[key].kind = "real" /\ given[key].value \in 1..100)
    <3>1. given[key].kind = "real" => \E x \in Int : given[key] = Real(x)
      BY <2>3 DEF NaN
    <3>2. \A x \in Int : given[key] = Real(x) =>
             given[key].value = x /\ ~(x \in 1..100)
      BY <2>1, <2>3 DEF Real, OffOpenUnit, Below, Above
    <3> QED
      BY <3>1, <3>2
  <2> QED
    BY <1>7, <2>2, <2>4, InRangeOf
<1>8. CASE key \in NonNegativeKeys
  <2>1. Below(options[key], 0) /\ key \in RealKeys
    BY <1>8, FailsOf DEF RealKeys
  <2>2. IsSet(key)
    <3>1. \E x \in Int : x >= 0 /\ TreeDefaults[key] = Real(x)
      BY <1>8, DefaultsPass
    <3> QED
      BY <1>2, <2>1, <3>1, OptionsRead DEF Real, Below
  <2>3. options[key] = given[key] /\ (given[key] = NaN \/ \E x \in Int : given[key] = Real(x))
    BY <1>2, <2>1, <2>2, OptionsRead
  <2>4. ~(given[key].kind = "real" /\ given[key].value >= 0)
    <3>1. given[key].kind = "real" => \E x \in Int : given[key] = Real(x)
      BY <2>3 DEF NaN
    <3>2. \A x \in Int : given[key] = Real(x) =>
             given[key].value = x /\ ~(x >= 0)
      BY <2>1, <2>3 DEF Real, Below
    <3> QED
      BY <3>1, <3>2
  <2> QED
    BY <1>8, <2>2, <2>4, InRangeOf
<1> QED
  BY <1>1, <1>4, <1>5, <1>6, <1>7, <1>8

\* What passes every check is in its range, or a NaN or a negative count.
LEMMA PassedIsInRange ==
    ASSUME KnownOptions(given), Boosted, options = TreeOptions,
           \A check \in Checks : ~FailsCheck(check), NEW key \in SetKeys
    PROVE  \/ InRange(key, given[key])
           \/ given[key] = NaN
           \/ key \in CountKeys /\ Negative(given[key])
<1>1. IsSet(key) /\ key \in TreeKeys
  BY KeysOfModel DEF SetKeys
<1>2. key \in WordKeys \/ key \in PositiveKeys \/ key = "min_child_weight"
      \/ key \in ClosedUnitKeys \/ key \in OpenUnitKeys \/ key \in NonNegativeKeys
  BY <1>1 DEF TreeKeys, RealKeys, PositiveKeys
<1>3. key # "min_child_weight" => ~FailsCheck(key)
  <2>1. key # "min_child_weight" => key \in Checks
    <3>1. Checks = {"booster_type", "dart_normalize_type", "dart", "tree_method",
            "regression_objective", "num_parallel_tree", "max_tree_depth", "max_iterations",
            "dropout", "l1_reg", "l2_reg", "learning_rate", "min_split_loss",
            "colsample_bytree", "colsample_bylevel", "colsample_bynode", "subsample"}
      BY DEF Checks, CheckOrder
    <3> QED
      BY <1>2, <3>1 DEF WordKeys, PositiveKeys, CountKeys, ClosedUnitKeys, OpenUnitKeys,
                  NonNegativeKeys
  <2> QED
    BY <2>1
<1>4. CASE key \in WordKeys
  <2>1. key # "min_child_weight"
    BY <1>4, KeyClasses
  <2> QED
    BY <1>1, <1>3, <1>4, <2>1, FailsOf, OptionsRead, InRangeOf
<1>5. CASE key \in CountKeys
  <2>1. PICK k \in Int : /\ given[key] = Count(k)
                         /\ options[key] = given[key] \/ Negative(given[key])
    BY <1>1, <1>5, OptionsRead
  <2>2. given[key].value = k /\ (k < 0 => Negative(given[key])) /\ (Negative(given[key]) => k < 0)
    BY <2>1 DEF Count, Negative
  <2>3. CASE key \in PositiveKeys /\ k >= 0
    <3>1. ~(options[key].value < 1)
      BY <1>3, <2>3, FailsOf DEF PositiveKeys
    <3>2. k >= 1
      BY <2>1, <2>2, <2>3, <3>1
    <3> QED
      BY <2>2, <2>3, <3>2, InRangeOf
  <2>4. CASE key = "min_child_weight" /\ k >= 0
    BY <2>2, <2>4, InRangeOf
  <2>5. CASE k < 0
    BY <1>5, <2>2, <2>5
  <2> QED
    BY <1>5, <2>3, <2>4, <2>5 DEF PositiveKeys
<1>6. CASE key \in RealKeys
  <2>1. options[key] = given[key] /\ (given[key] = NaN \/ \E x \in Int : given[key] = Real(x))
    BY <1>1, <1>6, OptionsRead
  <2>2. SUFFICES ASSUME NEW x \in Int, given[key] = Real(x) PROVE InRange(key, given[key])
    BY <2>1
  <2>3. given[key].kind = "real" /\ given[key].value = x /\ "real" # "nan"
    BY <2>2 DEF Real
  <2>4. key # "min_child_weight"
    BY <1>6, KeyClasses DEF RealKeys
  <2>5. CASE key \in ClosedUnitKeys
    <3>1. ~OffClosedUnit(given[key])
      BY <1>3, <2>1, <2>4, <2>5, FailsOf
    <3>2. x \in 0..100
      BY <2>3, <3>1 DEF OffClosedUnit, Below, Above
    <3> QED
      BY <2>3, <2>5, <3>2, InRangeOf
  <2>6. CASE key \in OpenUnitKeys
    <3>1. ~OffOpenUnit(given[key])
      BY <1>3, <2>1, <2>4, <2>6, FailsOf
    <3>2. x \in 1..100
      BY <2>3, <3>1 DEF OffOpenUnit, Below, Above
    <3> QED
      BY <2>3, <2>6, <3>2, InRangeOf
  <2>7. CASE key \in NonNegativeKeys
    <3>1. ~Below(given[key], 0)
      BY <1>3, <2>1, <2>4, <2>7, FailsOf
    <3>2. x >= 0
      BY <2>3, <3>1 DEF Below
    <3> QED
      BY <2>3, <2>7, <3>2, InRangeOf
  <2> QED
    BY <1>6, <2>5, <2>6, <2>7 DEF RealKeys
<1> QED
  BY <1>2, <1>4, <1>5, <1>6 DEF PositiveKeys, RealKeys, CountKeys

\* The invariant of the parsers.
LEMMA OptionsAreRead ==
    ASSUME \A struct \in Inputs : KnownOptions(struct)
    PROVE  OptionsSpec => []OptionsInv
<1>1. OptionsInit => OptionsInv
  BY DEF OptionsInit, OptionsInv, Accepted, Refused
<1> QED
  BY <1>1, OptionsStep, PTL DEF OptionsSpec

\* For every value of every option: what is refused has a value out of the range
\* its message states, or a dropout above zero without the booster that has one,
\* and the message names it; what is accepted is in its range, or a NaN or a
\* negative count, and has no dropout that would be ignored.
THEOREM RangesAlwaysDecide ==
    ASSUME \A struct \in Inputs : KnownOptions(struct)
    PROVE  OptionsSpec => []RangesDecide
<1>1. OptionsInv => RangesDecide
  <2> SUFFICES ASSUME OptionsInv PROVE RangesDecide
    OBVIOUS
  <2>1. KnownOptions(given)
    BY DEF OptionsInv
  <2>2. ASSUME Refused, verdict # "model_type"
        PROVE  \/ verdict = "dart" /\ WantsDart /\ ~AsksDart
               \/ verdict \in SetKeys /\ ~InRange(verdict, given[verdict])
    <3>1. CASE Boosted /\ options = TreeOptions /\ verdict \in Checks /\ FailsCheck(verdict)
      <4>1. CASE verdict = "dart"
        <5>1. DropoutWithoutDart
          BY <3>1, <4>1, FailsOf
        <5> QED
          BY <2>1, <3>1, <4>1, <5>1, DartOfOptions
      <4>2. CASE verdict # "dart"
        BY <2>1, <3>1, <4>2, FailedIsOutOfRange
      <4> QED
        BY <4>1, <4>2
    <3>2. CASE /\ Pca /\ verdict = "num_components" /\ IsSet(verdict)
               /\ given[verdict].value <= 0
      <4>1. given["num_components"].value \in Int
        BY <2>1, <3>2, CountsAreIntegers
      <4>2. ~InRange("num_components", given["num_components"])
        BY <3>2, <4>1, InRangeOf
      <4> QED
        BY <3>2, <4>2 DEF SetKeys, IsSet
    <3> QED
      BY <2>2, <3>1, <3>2 DEF OptionsInv
  <2>3. ASSUME Accepted, NEW key \in SetKeys
        PROVE  \/ InRange(key, given[key])
               \/ given[key] = NaN
               \/ key \in CountKeys /\ Negative(given[key])
    <3>1. CASE Boosted /\ options = TreeOptions /\ \A check \in Checks : ~FailsCheck(check)
      BY <2>1, <3>1, PassedIsInRange
    <3>2. CASE Pca /\ (IsSet("num_components") => given["num_components"].value > 0)
      <4>1. key = "num_components" /\ IsSet(key)
        BY <2>1, <3>2, KeysOfModel DEF SetKeys
      <4>2. given[key].value \in Int
        BY <2>1, <4>1, CountsAreIntegers
      <4> QED
        BY <3>2, <4>1, <4>2, InRangeOf
    <3> QED
      BY <2>3, <3>1, <3>2 DEF OptionsInv
  <2>4. ASSUME Accepted, Boosted, WantsDart PROVE AsksDart
    <3>1. ~Pca
      BY <2>4 DEF Pca, Boosted, Word
    <3>2. options = TreeOptions /\ ~FailsCheck("dart")
      <4>1. "dart" \in Checks
        BY DEF Checks, CheckOrder
      <4> QED
        BY <2>4, <3>1, <4>1 DEF OptionsInv
    <3> QED
      BY <2>1, <2>4, <3>2, DartOfOptions, FailsOf
  <2> QED
    BY <2>2, <2>3, <2>4 DEF RangesDecide
<1> QED
  BY <1>1, OptionsAreRead, PTL

=============================================================================
