----------------------- MODULE EvaluatePipelineProofs -----------------------
(***************************************************************************)
(* EvaluatePipeline for every set of pipeline threads, every input table   *)
(* and every way to cut it into row groups: what the accumulators hold at  *)
(* any time are whole chunks without NULLs, each row once, what a result   *)
(* leaves out is with other threads, and each step brings the query nearer *)
(* to its end.                                                             *)
(***************************************************************************)
EXTENDS EvaluatePipeline, Integers, FiniteSetTheorems, SequenceTheorems, TLAPS

\* The rows of the input are told apart by their name.
DistinctRows(tb) ==
    \A i, j \in DOMAIN tb : \A a \in DOMAIN tb[i], b \in DOMAIN tb[j] :
        tb[i][a] = tb[j][b] => i = j /\ a = b

Places == {"unused", "running", "function", "update", "finalize", "emitting", "finished", "failed"}

Busy(t) == pc[t] \in {"function", "update"}

\* A chunk of its row group that a thread has still to read.
Unread(t, i) == i \in next[t]..last[t]

\* A chunk is with one thread at most, and in the accumulators only when it was
\* found whole; the finalizer is entered by a thread that has nothing left to
\* read, when no row group is left.
ChunksInv ==
    /\ table \in Tables
    /\ taken \in 0..Len(table)
    /\ next \in [Threads -> 1..(Len(table) + 1)] /\ last \in [Threads -> 0..taken]
    /\ pc \in [Threads -> Places]
    /\ DOMAIN chunk = Threads
    /\ \A t, u \in Threads : t # u => \A i : ~(Unread(t, i) /\ Unread(u, i))
    /\ \A t \in Threads : Busy(t) => \E i \in 1..taken : /\ chunk[t] = table[i]
                                                       /\ \A u \in Threads : ~Unread(u, i)
    /\ \A t \in Threads : pc[t] = "update" => IsWhole(chunk[t])
    /\ \A t, u \in Threads : Busy(t) /\ Busy(u) /\ t # u =>
          ToSet(chunk[t]) \intersect ToSet(chunk[u]) = {}
    /\ \A t \in Threads : pc[t] \in {"finalize", "emitting", "finished"} =>
          taken = Len(table) /\ next[t] > last[t]

\* A chunk that is not in the accumulators is with a thread that has still to
\* read it, works on it or has failed on it.
CoverInv ==
    \A k \in 1..taken : \/ ToSet(table[k]) \subseteq ToSet(evaluated)
                        \/ \E t \in Threads : Holds(t, k)

\* Chunks of a table of distinct rows have no row in common.
LEMMA ChunksAreDisjoint ==
    ASSUME NEW rows, NEW tb \in Seq(Seq(rows)), DistinctRows(tb),
           NEW i \in 1..Len(tb), NEW j \in 1..Len(tb), i # j
    PROVE  ToSet(tb[i]) \intersect ToSet(tb[j]) = {}
<1>1. tb[i] \in Seq(rows) /\ tb[j] \in Seq(rows) /\ i \in DOMAIN tb /\ j \in DOMAIN tb
  OBVIOUS
<1> SUFFICES ASSUME NEW row, row \in ToSet(tb[i]), row \in ToSet(tb[j])
             PROVE  FALSE
  OBVIOUS
<1>2. PICK a \in DOMAIN tb[i] : tb[i][a] = row
  BY DEF ToSet
<1>3. PICK b \in DOMAIN tb[j] : tb[j][b] = row
  BY DEF ToSet
<1> QED
  BY <1>1, <1>2, <1>3 DEF DistinctRows

\* Claiming a row group: the thread has its chunks to read, and nothing else
\* changes.
LEMMA ClaimStep ==
    ASSUME ChunksInv, NEW t \in Threads, ClaimRowGroup(t)
    PROVE  /\ taken \in Nat /\ taken' \in Nat /\ taken < taken' /\ taken' <= Len(table)
           /\ next' \in [Threads -> 1..(Len(table) + 1)] /\ last' \in [Threads -> 0..taken']
           /\ \A i : (Unread(t, i)' <=> i \in (taken + 1)..taken') /\ ~Unread(t, i)
           /\ \A u \in Threads : u # t => \A i : Unread(u, i)' <=> Unread(u, i)
           /\ \A u \in Threads, i \in Nat : Unread(u, i) => i <= taken
           /\ pc[t] = "running"
           /\ UNCHANGED <<modelType, table, nulls, pc, chunk, evaluated, results>>
<1>1. /\ next[t] > last[t] /\ taken' \in (taken + 1)..Len(table) /\ pc[t] = "running"
      /\ next' = [next EXCEPT ![t] = taken + 1] /\ last' = [last EXCEPT ![t] = taken']
      /\ UNCHANGED <<modelType, table, nulls, pc, chunk, evaluated, results>>
  BY DEF ClaimRowGroup, input
<1>2. /\ taken \in Nat /\ taken' \in Nat /\ taken < taken' /\ taken' <= Len(table)
      /\ taken + 1 \in 1..(Len(table) + 1) /\ taken' \in 0..taken'
      /\ Len(table) \in Nat
  BY <1>1 DEF ChunksInv
<1>3. \A u \in Threads : /\ next[u] \in Nat /\ last[u] \in Nat /\ last[u] <= taken
                        /\ last[u] \in 0..taken'
  BY <1>2 DEF ChunksInv
<1>4. next' \in [Threads -> 1..(Len(table) + 1)]
  BY <1>1, <1>2 DEF ChunksInv
<1>5. last' \in [Threads -> 0..taken']
  BY <1>1, <1>2, <1>3 DEF ChunksInv
<1>6. next'[t] = taken + 1 /\ last'[t] = taken'
      /\ \A u \in Threads : u # t => next'[u] = next[u] /\ last'[u] = last[u]
  BY <1>1 DEF ChunksInv
<1>7. \A i : ~Unread(t, i)
  BY <1>1, <1>3 DEF Unread
<1>8. \A u \in Threads, i \in Nat : Unread(u, i) => i <= taken
  BY <1>2, <1>3 DEF Unread
<1>9. \A i : Unread(t, i)' <=> i \in (taken + 1)..taken'
  BY <1>6 DEF Unread
<1>10. \A u \in Threads : u # t => \A i : Unread(u, i)' <=> Unread(u, i)
  BY <1>6 DEF Unread
<1> QED
  BY <1>1, <1>2, <1>4, <1>5, <1>7, <1>8, <1>9, <1>10

\* Taking a chunk: it was the thread's to read, and is no more.
LEMMA TakeStep ==
    ASSUME ChunksInv, NEW t \in Threads, TakeChunk(t)
    PROVE  LET k == next[t]
           IN  /\ k \in 1..taken /\ k \in 1..Len(table) /\ chunk'[t] = table[k] /\ Unread(t, k)
               /\ \A i : Unread(t, i)' <=> Unread(t, i) /\ i # k
               /\ next' \in [Threads -> 1..(Len(table) + 1)]
               /\ pc[t] = "running" /\ pc'[t] = "function" /\ pc' \in [Threads -> Places]
               /\ DOMAIN chunk' = Threads
               /\ \A u \in Threads : u # t => /\ chunk'[u] = chunk[u] /\ pc'[u] = pc[u]
                                              /\ next'[u] = next[u]
                                              /\ \A i : Unread(u, i)' <=> Unread(u, i)
               /\ UNCHANGED <<modelType, table, nulls, taken, last, evaluated, results>>
<1>1. /\ pc[t] = "running" /\ pc' = [pc EXCEPT ![t] = "function"]
      /\ next[t] <= last[t] /\ next' = [next EXCEPT ![t] = next[t] + 1]
      /\ chunk' = [chunk EXCEPT ![t] = table[next[t]]]
      /\ UNCHANGED <<modelType, table, nulls, taken, last, evaluated, results>>
  BY DEF TakeChunk, Goto, input
<1>2. /\ next[t] \in 1..taken /\ next[t] \in 1..Len(table) /\ last[t] \in Nat
      /\ next[t] + 1 \in 1..(Len(table) + 1)
  BY <1>1 DEF ChunksInv
<1>3. next' \in [Threads -> 1..(Len(table) + 1)] /\ pc' \in [Threads -> Places]
  BY <1>1, <1>2 DEF ChunksInv, Places
<1>4. /\ next'[t] = next[t] + 1 /\ last'[t] = last[t] /\ pc'[t] = "function"
      /\ chunk'[t] = table[next[t]] /\ DOMAIN chunk' = Threads
      /\ \A u \in Threads : u # t => /\ chunk'[u] = chunk[u] /\ pc'[u] = pc[u]
                                     /\ next'[u] = next[u] /\ last'[u] = last[u]
  BY <1>1 DEF ChunksInv
<1>5. Unread(t, next[t]) /\ \A i : Unread(t, i)' <=> Unread(t, i) /\ i # next[t]
  BY <1>1, <1>2, <1>4 DEF Unread
<1>6. \A u \in Threads : u # t => \A i : Unread(u, i)' <=> Unread(u, i)
  BY <1>4 DEF Unread
<1> QED
  BY <1>1, <1>2, <1>3, <1>4, <1>5, <1>6

\* Every other step leaves the source and the threads' chunks alone.
LEMMA OtherStep ==
    ASSUME ChunksInv, NEW t \in Threads, Step(t), ~ClaimRowGroup(t), ~TakeChunk(t)
    PROVE  /\ UNCHANGED <<modelType, table, nulls, taken, next, last, chunk>>
           /\ \E to \in Places : /\ pc' = [pc EXCEPT ![t] = to]
                                 /\ to \in {"function", "update"} => Busy(t)
                                 /\ to = "update" => IsWhole(chunk[t])
                                 /\ to \in {"finalize", "emitting", "finished"} =>
                                       taken = Len(table) /\ next[t] > last[t]
<1>1. UNCHANGED <<modelType, table, nulls, taken, next, last, chunk>>
  BY DEF Step, EndOfInput, ReadChunk, ReadNull, UpdateMoments, FinalizeAgain, FinalizeEmits,
         TakeResult, input, source
<1>2. CASE ReadChunk(t)
  <2>1. pc[t] = "function" /\ IsWhole(chunk[t])
        /\ pc' = [pc EXCEPT ![t] = IF chunk[t] = <<>> THEN "running" ELSE "update"]
    BY <1>2 DEF ReadChunk, Goto
  <2>2. CASE chunk[t] = <<>>
    <3>1. pc' = [pc EXCEPT ![t] = "running"]
      BY <2>1, <2>2
    <3> QED
      BY <1>1, <3>1 DEF Places
  <2>3. CASE chunk[t] # <<>>
    <3>1. pc' = [pc EXCEPT ![t] = "update"]
      BY <2>1, <2>3
    <3> QED
      BY <1>1, <2>1, <3>1 DEF Places, Busy
  <2> QED
    BY <2>2, <2>3
<1>3. CASE ~ReadChunk(t)
  BY <1>1, <1>3 DEF Step, EndOfInput, ReadNull, UpdateMoments, FinalizeAgain, FinalizeEmits,
                    TakeResult, Goto, ChunksInv, Places
<1> QED
  BY <1>2, <1>3

\* No chunk is with two threads, and the accumulators get whole chunks.
LEMMA ChunksStep ==
    ASSUME NEW rows, table \in Seq(Seq(rows)), DistinctRows(table), ChunksInv, [Next]_vars
    PROVE  ChunksInv'
<1>1. CASE UNCHANGED vars
  BY <1>1 DEF vars, input, source, ChunksInv, Busy, IsWhole, Columns, Unread
<1>5. ASSUME NEW t \in Threads, ClaimRowGroup(t) PROVE ChunksInv'
  <2>1. /\ taken \in Nat /\ taken' \in Nat /\ taken < taken' /\ taken' <= Len(table)
        /\ next' \in [Threads -> 1..(Len(table) + 1)] /\ last' \in [Threads -> 0..taken']
        /\ \A i : (Unread(t, i)' <=> i \in (taken + 1)..taken') /\ ~Unread(t, i)
        /\ \A u \in Threads : u # t => \A i : Unread(u, i)' <=> Unread(u, i)
        /\ \A u \in Threads, i \in Nat : Unread(u, i) => i <= taken
        /\ pc[t] = "running"
        /\ UNCHANGED <<modelType, table, nulls, pc, chunk>>
    BY <1>5, ClaimStep
  <2>2. \A i : i \in (taken + 1)..taken' => i \in Nat /\ ~(i <= taken)
    BY <2>1
  <2>9. \A u, v \in Threads : u # v => \A i : ~(Unread(u, i) /\ Unread(v, i))
    BY DEF ChunksInv
  <2>10. \A u \in Threads : u # t => \A i : ~(Unread(t, i)' /\ Unread(u, i)')
    BY <2>1, <2>2
  <2>3. \A u, v \in Threads : u # v => \A i : ~(Unread(u, i)' /\ Unread(v, i)')
    <3> SUFFICES ASSUME NEW u \in Threads, NEW v \in Threads, u # v, NEW i,
                        Unread(u, i)', Unread(v, i)'
                 PROVE  FALSE
      OBVIOUS
    <3>1. u # t /\ v # t
      BY <2>10
    <3>2. Unread(u, i) /\ Unread(v, i)
      BY <2>1, <3>1
    <3> QED
      BY <2>9, <3>2
  <2>4. \A u \in Threads : Busy(u)' => \E i \in 1..taken' : /\ chunk'[u] = table'[i]
                                                          /\ \A v \in Threads : ~Unread(v, i)'
    <3> SUFFICES ASSUME NEW u \in Threads, Busy(u)
                 PROVE  \E i \in 1..taken' : /\ chunk[u] = table[i]
                                              /\ \A v \in Threads : ~Unread(v, i)'
      BY <2>1 DEF Busy
    <3>1. PICK i \in 1..taken : chunk[u] = table[i] /\ \A v \in Threads : ~Unread(v, i)
      BY DEF ChunksInv
    <3>2. i \in 1..taken' /\ i \in Nat /\ i <= taken
      BY <2>1
    <3>3. \A v \in Threads : ~Unread(v, i)'
      BY <2>1, <2>2, <3>1, <3>2
    <3> QED
      BY <3>1, <3>2, <3>3
  <2>5. \A u \in Threads : pc'[u] = "update" => IsWhole(chunk[u])'
    BY <2>1 DEF ChunksInv, IsWhole, Columns
  <2>6. \A u, v \in Threads : Busy(u)' /\ Busy(v)' /\ u # v =>
           ToSet(chunk'[u]) \intersect ToSet(chunk'[v]) = {}
    BY <2>1 DEF ChunksInv, Busy
  <2>7. \A u \in Threads : pc'[u] \in {"finalize", "emitting", "finished"} => FALSE
    <3>1. ~(taken = Len(table))
      BY <2>1
    <3> QED
      BY <2>1, <3>1 DEF ChunksInv
  <2>8. taken' \in 0..Len(table')
    BY <2>1
  <2> QED
    BY <2>1, <2>3, <2>4, <2>5, <2>6, <2>7, <2>8 DEF ChunksInv
<1>2. ASSUME NEW t \in Threads, TakeChunk(t) PROVE ChunksInv'
  <2>1. PICK k : k = next[t]
    OBVIOUS
  <2>2. /\ k \in 1..taken /\ k \in 1..Len(table) /\ chunk'[t] = table[k] /\ Unread(t, k)
        /\ \A i : Unread(t, i)' <=> Unread(t, i) /\ i # k
        /\ next' \in [Threads -> 1..(Len(table) + 1)]
        /\ pc[t] = "running" /\ pc'[t] = "function" /\ pc' \in [Threads -> Places]
        /\ DOMAIN chunk' = Threads
        /\ \A u \in Threads : u # t => /\ chunk'[u] = chunk[u] /\ pc'[u] = pc[u]
                                       /\ next'[u] = next[u]
                                       /\ \A i : Unread(u, i)' <=> Unread(u, i)
        /\ UNCHANGED <<modelType, table, nulls, taken, last>>
    BY <1>2, <2>1, TakeStep
  <2>3. \A u \in Threads : u # t => (Busy(u)' <=> Busy(u))
    BY <2>2 DEF Busy
  <2>4. \A u \in Threads : u # t /\ Busy(u) =>
           ToSet(chunk[u]) \intersect ToSet(table[k]) = {}
    <3> SUFFICES ASSUME NEW u \in Threads, Busy(u)
                 PROVE  ToSet(chunk[u]) \intersect ToSet(table[k]) = {}
      OBVIOUS
    <3>1. PICK i \in 1..taken : chunk[u] = table[i] /\ \A v \in Threads : ~Unread(v, i)
      BY DEF ChunksInv
    <3>2. i \in 1..Len(table) /\ i # k
      <4>1. i # k
        BY <2>2, <3>1
      <4>2. taken \in 0..Len(table)
        BY DEF ChunksInv
      <4> QED
        BY <3>1, <4>1, <4>2
    <3> QED
      BY <2>2, <3>1, <3>2, ChunksAreDisjoint
  <2>10. \A u \in Threads : \A i : Unread(u, i)' => Unread(u, i)
    BY <2>2
  <2>13. \A u, v \in Threads : u # v => \A i : ~(Unread(u, i) /\ Unread(v, i))
    BY DEF ChunksInv
  <2>9. \A u, v \in Threads : u # v => \A i : ~(Unread(u, i)' /\ Unread(v, i)')
    BY <2>10, <2>13
  <2>11. \A u \in Threads : ~Unread(u, k)'
    <3> SUFFICES ASSUME NEW u \in Threads, Unread(u, k)' PROVE FALSE
      OBVIOUS
    <3>1. u # t /\ Unread(u, k)
      BY <2>2, <2>10
    <3> QED
      BY <2>2, <2>13, <3>1
  <2>5. \A u \in Threads : Busy(u)' => \E i \in 1..taken' : /\ chunk'[u] = table'[i]
                                                          /\ \A v \in Threads : ~Unread(v, i)'
    <3> SUFFICES ASSUME NEW u \in Threads, Busy(u)'
                 PROVE  \E i \in 1..taken : /\ chunk'[u] = table[i]
                                             /\ \A v \in Threads : ~Unread(v, i)'
      BY <2>2
    <3>1. CASE u # t
      <4>1. PICK i \in 1..taken : chunk[u] = table[i] /\ \A v \in Threads : ~Unread(v, i)
        BY <2>3, <3>1 DEF ChunksInv
      <4>2. chunk'[u] = table[i] /\ \A v \in Threads : ~Unread(v, i)'
        BY <2>2, <2>10, <3>1, <4>1
      <4> QED
        BY <4>2
    <3>2. CASE u = t
      BY <2>2, <2>11, <3>2
    <3> QED
      BY <3>1, <3>2
  <2>6. \A u \in Threads : pc'[u] = "update" => IsWhole(chunk[u])'
    BY <2>2 DEF ChunksInv, IsWhole, Columns
  <2>7. \A u, v \in Threads : Busy(u)' /\ Busy(v)' /\ u # v =>
           ToSet(chunk'[u]) \intersect ToSet(chunk'[v]) = {}
    <3> SUFFICES ASSUME NEW u \in Threads, NEW v \in Threads, Busy(u)', Busy(v)', u # v
                 PROVE  ToSet(chunk'[u]) \intersect ToSet(chunk'[v]) = {}
      OBVIOUS
    <3>1. CASE u # t /\ v # t
      BY <2>2, <2>3, <3>1 DEF ChunksInv
    <3>2. CASE u = t
      BY <2>2, <2>3, <2>4, <3>2
    <3>3. CASE v = t
      BY <2>2, <2>3, <2>4, <3>3
    <3> QED
      BY <3>1, <3>2, <3>3
  <2>8. \A u \in Threads : pc'[u] \in {"finalize", "emitting", "finished"} =>
           taken' = Len(table') /\ next'[u] > last'[u]
    <3>1. \A u \in Threads : pc'[u] \in {"finalize", "emitting", "finished"} =>
             u # t /\ pc[u] \in {"finalize", "emitting", "finished"}
      BY <2>2
    <3> QED
      BY <2>2, <3>1 DEF ChunksInv
  <2>12. taken' \in 0..Len(table') /\ table' \in Tables /\ last' \in [Threads -> 0..taken']
    BY <2>2 DEF ChunksInv
  <2> QED
    BY <2>2, <2>5, <2>6, <2>7, <2>8, <2>9, <2>12 DEF ChunksInv
<1>3. ASSUME NEW t \in Threads, Step(t), ~ClaimRowGroup(t), ~TakeChunk(t) PROVE ChunksInv'
  <2>1. UNCHANGED <<modelType, table, nulls, taken, next, last, chunk>>
    BY <1>3, OtherStep
  <2>2. PICK to \in Places : /\ pc' = [pc EXCEPT ![t] = to]
                             /\ to \in {"function", "update"} => Busy(t)
                             /\ to = "update" => IsWhole(chunk[t])
                             /\ to \in {"finalize", "emitting", "finished"} =>
                                   taken = Len(table) /\ next[t] > last[t]
    BY <1>3, OtherStep
  <2>3. /\ pc' \in [Threads -> Places] /\ pc'[t] = to
        /\ \A u \in Threads : u # t => pc'[u] = pc[u]
    BY <2>2 DEF ChunksInv
  <2>4. \A u \in Threads : Busy(u)' => Busy(u)
    BY <2>2, <2>3 DEF Busy
  <2>5. \A u \in Threads : pc'[u] = "update" => IsWhole(chunk[u])'
    BY <2>1, <2>2, <2>3 DEF ChunksInv, IsWhole, Columns
  <2>6. \A u \in Threads : pc'[u] \in {"finalize", "emitting", "finished"} =>
           taken' = Len(table') /\ next'[u] > last'[u]
    BY <2>1, <2>2, <2>3 DEF ChunksInv
  <2>7. \A u \in Threads : \A i : Unread(u, i)' <=> Unread(u, i)
    BY <2>1 DEF Unread
  <2> QED
    BY <2>1, <2>3, <2>4, <2>5, <2>6, <2>7 DEF ChunksInv
<1> QED
  BY <1>1, <1>2, <1>3, <1>5 DEF Next

-----------------------------------------------------------------------------
\* A chunk counts when no thread has it to read or holds a row of it, and none of
\* its cells is NULL.
Done(i) ==
    /\ \A t \in Threads : ~Unread(t, i) /\ ToSet(table[i]) \intersect InFlight(t) = {}
    /\ NoNulls(ToSet(table[i]))

EvaluatedInv(rows) ==
    /\ evaluated \in Seq(rows)
    /\ IsInjective(evaluated)
    /\ \A row : row \in ToSet(evaluated) <=> \E i \in 1..taken : row \in ToSet(table[i]) /\ Done(i)

\* The rows of two sequences behind each other.
LEMMA ToSetOfConcat ==
    ASSUME NEW rows, NEW s \in Seq(rows), NEW t \in Seq(rows)
    PROVE  /\ s \o t \in Seq(rows)
           /\ ToSet(s \o t) = ToSet(s) \union ToSet(t)
<1>1. PICK m, n \in Nat : m = Len(s) /\ n = Len(t)
  OBVIOUS
<1>2. /\ s \o t \in Seq(rows) /\ DOMAIN (s \o t) = 1..(m + n)
      /\ \A i \in 1..(m + n) : (s \o t)[i] = IF i <= m THEN s[i] ELSE t[i - m]
  BY <1>1
<1>3. ASSUME NEW row \in ToSet(s \o t) PROVE row \in ToSet(s) \union ToSet(t)
  <2>1. PICK i \in 1..(m + n) : (s \o t)[i] = row
    BY <1>2, <1>3 DEF ToSet
  <2>2. CASE i <= m
    <3>1. i \in DOMAIN s /\ s[i] = row
      BY <1>1, <1>2, <2>1, <2>2
    <3> QED
      BY <3>1 DEF ToSet
  <2>3. CASE ~(i <= m)
    <3>1. i - m \in DOMAIN t /\ t[i - m] = row
      BY <1>1, <1>2, <2>1, <2>3
    <3> QED
      BY <3>1 DEF ToSet
  <2> QED
    BY <2>2, <2>3
<1>4. ASSUME NEW row \in ToSet(s) PROVE row \in ToSet(s \o t)
  <2>1. PICK i \in DOMAIN s : s[i] = row
    BY <1>4 DEF ToSet
  <2>2. i \in 1..(m + n) /\ i <= m
    BY <1>1
  <2>3. i \in DOMAIN (s \o t) /\ (s \o t)[i] = row
    BY <1>2, <2>1, <2>2
  <2> QED
    BY <2>3 DEF ToSet
<1>5. ASSUME NEW row \in ToSet(t) PROVE row \in ToSet(s \o t)
  <2>1. PICK i \in DOMAIN t : t[i] = row
    BY <1>5 DEF ToSet
  <2>2. m + i \in 1..(m + n) /\ ~(m + i <= m) /\ (m + i) - m = i
    BY <1>1
  <2>3. m + i \in DOMAIN (s \o t) /\ (s \o t)[m + i] = row
    BY <1>2, <2>1, <2>2
  <2> QED
    BY <2>3 DEF ToSet
<1> QED
  BY <1>2, <1>3, <1>4, <1>5

\* Two sequences without repetition and without a common row, behind each other.
LEMMA InjectiveConcat ==
    ASSUME NEW rows, NEW s \in Seq(rows), NEW t \in Seq(rows),
           IsInjective(s), IsInjective(t), ToSet(s) \intersect ToSet(t) = {}
    PROVE  IsInjective(s \o t)
<1>1. PICK m, n \in Nat : m = Len(s) /\ n = Len(t)
  OBVIOUS
<1>2. /\ DOMAIN (s \o t) = 1..(m + n)
      /\ \A i \in 1..(m + n) : (s \o t)[i] = IF i <= m THEN s[i] ELSE t[i - m]
  BY <1>1
<1>3. DOMAIN s = 1..m /\ DOMAIN t = 1..n
  BY <1>1
<1>4. \A i \in 1..m, j \in 1..n : s[i] # t[j]
  BY <1>3 DEF ToSet
<1>5. /\ \A i, j \in 1..m : s[i] = s[j] => i = j
      /\ \A i, j \in 1..n : t[i] = t[j] => i = j
  BY <1>3 DEF IsInjective
<1> SUFFICES ASSUME NEW i \in 1..(m + n), NEW j \in 1..(m + n), (s \o t)[i] = (s \o t)[j]
             PROVE  i = j
  BY <1>2 DEF IsInjective
<1>6. /\ (i <= m => i \in 1..m) /\ (~(i <= m) => i - m \in 1..n)
      /\ (j <= m => j \in 1..m) /\ (~(j <= m) => j - m \in 1..n)
  OBVIOUS
<1>7. CASE i <= m /\ j <= m
  BY <1>2, <1>5, <1>6, <1>7
<1>8. CASE ~(i <= m) /\ ~(j <= m)
  <2>1. i - m = j - m
    BY <1>2, <1>5, <1>6, <1>8
  <2> QED
    BY <2>1
<1>9. CASE (i <= m /\ ~(j <= m)) \/ (j <= m /\ ~(i <= m))
  BY <1>2, <1>4, <1>6, <1>9
<1> QED
  BY <1>7, <1>8, <1>9

\* What is in the accumulators are the rows of the chunks that count.
LEMMA EvaluatedStep ==
    ASSUME NEW rows, table \in Seq(Seq(rows)), DistinctRows(table), ChunksInv,
           EvaluatedInv(rows), [Next]_vars
    PROVE  EvaluatedInv(rows)'
<1>1. taken \in Nat /\ Len(table) \in Nat /\ taken <= Len(table)
      /\ \A i \in 1..taken : i \in 1..Len(table) /\ i \in DOMAIN table /\ table[i] \in Seq(rows)
  BY DEF ChunksInv
<1>2. ASSUME UNCHANGED <<modelType, table, nulls, taken, evaluated>>,
             \A t \in Threads : \A i : Unread(t, i)' <=> Unread(t, i),
             \A t \in Threads : InFlight(t)' = InFlight(t)
      PROVE  EvaluatedInv(rows)'
  <2>1. \A i : Done(i)' <=> Done(i)
    BY <1>2 DEF Done, NoNulls, Columns
  <2> QED
    BY <1>2, <2>1 DEF EvaluatedInv
<1>3. CASE UNCHANGED vars
  BY <1>2, <1>3 DEF vars, input, source, InFlight, Unread
<1>4. ASSUME NEW t \in Threads,
             EndOfInput(t) \/ ReadChunk(t) \/ FinalizeAgain(t) \/ FinalizeEmits(t) \/ TakeResult(t)
      PROVE  EvaluatedInv(rows)'
  <2>1. UNCHANGED <<modelType, table, nulls, taken, next, last, chunk, evaluated>>
    BY <1>4 DEF EndOfInput, ReadChunk, FinalizeAgain, FinalizeEmits, TakeResult, Goto, input,
                source
  <2>2. /\ \A u \in Threads : u # t => pc'[u] = pc[u]
        /\ chunk[t] = <<>> \/ (Busy(t)' <=> Busy(t))
    <3>1. CASE ReadChunk(t)
      BY <3>1 DEF ReadChunk, Goto, Busy, ChunksInv
    <3>2. CASE ~ReadChunk(t)
      BY <1>4, <3>2 DEF EndOfInput, FinalizeAgain, FinalizeEmits, TakeResult, Goto, Busy, ChunksInv
    <3> QED
      BY <3>1, <3>2
  <2>3. ToSet(<<>>) = {}
    BY DEF ToSet
  <2>4. \A u \in Threads : InFlight(u)' = InFlight(u)
    BY <2>1, <2>2, <2>3 DEF InFlight, Busy
  <2>5. \A u \in Threads : \A i : Unread(u, i)' <=> Unread(u, i)
    BY <2>1 DEF Unread
  <2> QED
    BY <1>2, <2>1, <2>4, <2>5
<1>9. ASSUME NEW t \in Threads, ClaimRowGroup(t) PROVE EvaluatedInv(rows)'
  <2>1. /\ taken \in Nat /\ taken' \in Nat /\ taken < taken'
        /\ \A i : (Unread(t, i)' <=> i \in (taken + 1)..taken') /\ ~Unread(t, i)
        /\ \A u \in Threads : u # t => \A i : Unread(u, i)' <=> Unread(u, i)
        /\ UNCHANGED <<modelType, table, nulls, pc, chunk, evaluated>>
    BY <1>9, ClaimStep
  <2>2. \A u \in Threads : InFlight(u)' = InFlight(u)
    BY <2>1 DEF InFlight
  <2>3. \A i \in 1..taken : i \in 1..taken' /\ i \notin (taken + 1)..taken'
    BY <2>1
  <2>4. \A i \in 1..taken : Done(i)' <=> Done(i)
    BY <2>1, <2>2, <2>3 DEF Done, NoNulls, Columns
  <2>5. \A i \in 1..taken' : i \in 1..taken \/ i \in (taken + 1)..taken'
    BY <2>1
  <2>6. \A i \in 1..taken' : i \in 1..taken \/ ~Done(i)'
    BY <2>1, <2>5 DEF Done
  <2> QED
    BY <2>1, <2>3, <2>4, <2>6 DEF EvaluatedInv
<1>5. ASSUME NEW t \in Threads, TakeChunk(t) PROVE EvaluatedInv(rows)'
  <2>1. PICK k : k = next[t]
    OBVIOUS
  <2>2. /\ k \in 1..taken /\ k \in 1..Len(table) /\ chunk'[t] = table[k] /\ Unread(t, k)
        /\ \A i : Unread(t, i)' <=> Unread(t, i) /\ i # k
        /\ pc[t] = "running" /\ pc'[t] = "function"
        /\ \A u \in Threads : u # t => /\ chunk'[u] = chunk[u] /\ pc'[u] = pc[u]
                                       /\ \A i : Unread(u, i)' <=> Unread(u, i)
        /\ UNCHANGED <<modelType, table, nulls, taken, evaluated>>
    BY <1>5, <2>1, TakeStep
  <2>3. InFlight(t) = {} /\ InFlight(t)' = ToSet(table[k])
        /\ \A u \in Threads : u # t => InFlight(u)' = InFlight(u)
    BY <2>2 DEF InFlight
  <2>4. \A i \in 1..taken : i # k => ToSet(table[i]) \intersect ToSet(table[k]) = {}
    <3> SUFFICES ASSUME NEW i \in 1..taken, i # k
                 PROVE  ToSet(table[i]) \intersect ToSet(table[k]) = {}
      OBVIOUS
    <3>1. i \in 1..Len(table)
      BY <1>1
    <3> QED
      BY <2>2, <3>1, ChunksAreDisjoint
  <2>5. \A i \in 1..taken : i # k => (Done(i)' <=> Done(i))
    BY <2>2, <2>3, <2>4 DEF Done, NoNulls, Columns
  <2>6. \A row : row \in ToSet(table[k]) => ~Done(k)'
    BY <2>2, <2>3 DEF Done
  <2>7. ~Done(k)
    BY <2>2 DEF Done
  <2>8. \A row : \A i \in 1..taken : row \in ToSet(table[i]) => (Done(i)' <=> Done(i))
    BY <2>5, <2>6, <2>7
  <2> QED
    BY <2>2, <2>8 DEF EvaluatedInv
<1>6. ASSUME NEW t \in Threads, Busy(t), Busy(t)' = FALSE,
             UNCHANGED <<modelType, table, nulls, taken, next, last, chunk>>,
             \A u \in Threads : u # t => pc'[u] = pc[u]
      PROVE  \E k \in 1..taken :
                /\ chunk[t] = table[k]
                /\ \A row : row \in ToSet(table[k]) => ~Done(k)
                /\ Done(k)' <=> NoNulls(ToSet(table[k]))
                /\ \A i \in 1..taken : i # k => (Done(i)' <=> Done(i))
  <2>1. PICK k \in 1..taken : chunk[t] = table[k] /\ \A u \in Threads : ~Unread(u, k)
    BY <1>6 DEF ChunksInv
  <2>7. \A u \in Threads : \A i : Unread(u, i)' <=> Unread(u, i)
    BY <1>6 DEF Unread
  <2>2. InFlight(t) = ToSet(table[k]) /\ InFlight(t)' = {}
        /\ \A u \in Threads : u # t => InFlight(u)' = InFlight(u)
    BY <1>6, <2>1 DEF InFlight, Busy
  <2>3. \A u \in Threads : ToSet(table[k]) \intersect InFlight(u)' = {}
    <3> SUFFICES ASSUME NEW u \in Threads, u # t
                 PROVE  ToSet(table[k]) \intersect InFlight(u) = {}
      BY <2>2
    <3>1. CASE Busy(u)
      BY <1>6, <2>1, <3>1 DEF ChunksInv, InFlight
    <3>2. CASE ~Busy(u)
      BY <3>2 DEF InFlight, Busy
    <3> QED
      BY <3>1, <3>2
  <2>4. \A row : row \in ToSet(table[k]) => ~Done(k)
    BY <2>2 DEF Done
  <2>5. Done(k)' <=> NoNulls(ToSet(table[k]))
    BY <1>6, <2>1, <2>3, <2>7 DEF Done, NoNulls, Columns
  <2>6. \A i \in 1..taken : i # k => (Done(i)' <=> Done(i))
    <3> SUFFICES ASSUME NEW i \in 1..taken, i # k PROVE Done(i)' <=> Done(i)
      OBVIOUS
    <3>1. ToSet(table[i]) \intersect ToSet(table[k]) = {}
      BY <1>1, ChunksAreDisjoint
    <3> QED
      BY <1>6, <2>2, <2>7, <3>1 DEF Done, NoNulls, Columns
  <2> QED
    BY <2>1, <2>4, <2>5, <2>6
<1>7. ASSUME NEW t \in Threads, ReadNull(t) PROVE EvaluatedInv(rows)'
  <2>1. /\ Busy(t) /\ Busy(t)' = FALSE /\ ~IsWhole(chunk[t])
        /\ UNCHANGED <<modelType, table, nulls, taken, next, last, chunk, evaluated>>
        /\ \A u \in Threads : u # t => pc'[u] = pc[u]
    BY <1>7 DEF ReadNull, Goto, input, source, Busy, ChunksInv
  <2>2. PICK k \in 1..taken :
                /\ chunk[t] = table[k]
                /\ \A row : row \in ToSet(table[k]) => ~Done(k)
                /\ Done(k)' <=> NoNulls(ToSet(table[k]))
                /\ \A i \in 1..taken : i # k => (Done(i)' <=> Done(i))
    BY <1>6, <2>1
  <2>3. ~NoNulls(ToSet(table[k]))
    BY <2>1, <2>2 DEF IsWhole, NoNulls, ToSet
  <2>4. \A row : \A i \in 1..taken : row \in ToSet(table[i]) => (Done(i)' <=> Done(i))
    BY <2>2, <2>3
  <2> QED
    BY <2>1, <2>4 DEF EvaluatedInv
<1>8. ASSUME NEW t \in Threads, UpdateMoments(t) PROVE EvaluatedInv(rows)'
  <2>1. /\ Busy(t) /\ Busy(t)' = FALSE /\ pc[t] = "update"
        /\ UNCHANGED <<modelType, table, nulls, taken, next, last, chunk>>
        /\ evaluated' = evaluated \o chunk[t]
        /\ \A u \in Threads : u # t => pc'[u] = pc[u]
    BY <1>8 DEF UpdateMoments, Goto, input, source, Busy, ChunksInv
  <2>2. PICK k \in 1..taken :
                /\ chunk[t] = table[k]
                /\ \A row : row \in ToSet(table[k]) => ~Done(k)
                /\ Done(k)' <=> NoNulls(ToSet(table[k]))
                /\ \A i \in 1..taken : i # k => (Done(i)' <=> Done(i))
    BY <1>6, <2>1
  <2>3. Done(k)'
    BY <2>1, <2>2 DEF ChunksInv, IsWhole, NoNulls, ToSet
  <2>4. evaluated \in Seq(rows) /\ chunk[t] \in Seq(rows)
    BY <1>1, <2>2 DEF EvaluatedInv
  <2>5. ToSet(evaluated') = ToSet(evaluated) \union ToSet(table[k]) /\ evaluated' \in Seq(rows)
    BY <2>1, <2>2, <2>4, ToSetOfConcat
  <2>6. \A row : row \in ToSet(evaluated') <=>
                    \E i \in 1..taken : row \in ToSet(table[i]) /\ Done(i)'
    BY <2>2, <2>3, <2>5 DEF EvaluatedInv
  <2>7. ToSet(evaluated) \intersect ToSet(chunk[t]) = {}
    <3> SUFFICES ASSUME NEW row, row \in ToSet(evaluated), row \in ToSet(chunk[t]) PROVE FALSE
      OBVIOUS
    <3>1. PICK i \in 1..taken : row \in ToSet(table[i]) /\ Done(i)
      BY DEF EvaluatedInv
    <3>2. row \in InFlight(t)
      BY <2>1 DEF InFlight, Busy
    <3> QED
      BY <3>1, <3>2 DEF Done
  <2>8. IsInjective(chunk[t])
    <3>1. k \in DOMAIN table /\ table[k] \in Seq(rows)
      BY <1>1
    <3> QED
      BY <2>2, <3>1 DEF DistinctRows, IsInjective
  <2>9. IsInjective(evaluated')
    BY <2>1, <2>4, <2>7, <2>8, InjectiveConcat DEF EvaluatedInv
  <2> QED
    BY <2>1, <2>5, <2>6, <2>9 DEF EvaluatedInv
<1> QED
  BY <1>3, <1>4, <1>5, <1>7, <1>8, <1>9 DEF Next, Step

\* A query starts with nothing taken and nothing evaluated.
LEMMA InitChunks ==
    ASSUME NEW rows, Tables \subseteq Seq(Seq(rows)), Init
    PROVE  ChunksInv /\ EvaluatedInv(rows)
<1>1. table \in Seq(Seq(rows)) /\ Len(table) \in Nat
  BY DEF Init
<1>2. \A t \in Threads : ~Busy(t) /\ pc[t] \notin {"finalize", "emitting", "finished"}
  BY DEF Init, Busy
<1>5. taken = 0 /\ \A t \in Threads : next[t] = 1 /\ last[t] = 0
  BY DEF Init
<1>6. \A t \in Threads : \A i : ~Unread(t, i)
  BY <1>5 DEF Unread
<1>7. next \in [Threads -> 1..(Len(table) + 1)] /\ last \in [Threads -> 0..taken]
      /\ taken \in 0..Len(table)
  <2>1. 1 \in 1..(Len(table) + 1) /\ 0 \in 0..taken /\ taken \in 0..Len(table)
    BY <1>1, <1>5
  <2> QED
    BY <2>1 DEF Init
<1>3. ChunksInv
  BY <1>2, <1>6, <1>7 DEF Init, ChunksInv, Places, Busy
<1>4. EvaluatedInv(rows)
  BY DEF Init, EvaluatedInv, IsInjective, ToSet
<1> QED
  BY <1>3, <1>4

\* The accumulators hold each row once, of exactly the chunks that no thread is
\* working on any more and that had no NULL, whatever the threads' order and
\* whichever of them fail.
THEOREM EvaluatedChunksAlways ==
    ASSUME NEW CONSTANT Rows, Tables \subseteq Seq(Seq(Rows)),
           \A tb \in Tables : DistinctRows(tb)
    PROVE  Spec => []EvaluatedChunks
<1> DEFINE Inv == ChunksInv /\ EvaluatedInv(Rows)
<1>1. Init => Inv
  BY InitChunks
<1>2. Inv /\ [Next]_vars => Inv'
  <2> SUFFICES ASSUME Inv, [Next]_vars
               PROVE  Inv'
    OBVIOUS
  <2>1. table \in Seq(Seq(Rows)) /\ DistinctRows(table)
    BY DEF ChunksInv
  <2> QED
    BY <2>1, ChunksStep, EvaluatedStep
<1>3. Inv => EvaluatedChunks
  <2> SUFFICES ASSUME Inv PROVE EvaluatedChunks
    OBVIOUS
  <2> DEFINE done == {i \in 1..taken : Done(i)}
  <2>1. ToSet(evaluated) = UNION {ToSet(table[i]) : i \in done}
    BY DEF EvaluatedInv
  <2> QED
    BY <2>1 DEF EvaluatedChunks, EvaluatedInv, Done, Unread
<1> QED
  BY <1>1, <1>2, <1>3, PTL DEF Spec

-----------------------------------------------------------------------------
\* A chunk stays with its thread until its rows are in the accumulators.
LEMMA CoverStep ==
    ASSUME NEW rows, table \in Seq(Seq(rows)), ChunksInv, EvaluatedInv(rows), CoverInv, [Next]_vars
    PROVE  CoverInv'
<1>1. CASE UNCHANGED vars
  BY <1>1 DEF vars, input, source, CoverInv, Holds, HasTaken
<1>5. \A u \in Threads : \A k : Holds(u, k) <=> Unread(u, k) \/ HasTaken(u, k)
  BY DEF Holds, Unread
<1>6. \A u \in Threads : \A k : Holds(u, k)' <=> Unread(u, k)' \/ HasTaken(u, k)'
  BY DEF Holds, Unread
<1>7. ASSUME NEW t \in Threads, ClaimRowGroup(t) PROVE CoverInv'
  <2>1. /\ taken \in Nat /\ taken' \in Nat /\ taken < taken'
        /\ \A i : (Unread(t, i)' <=> i \in (taken + 1)..taken') /\ ~Unread(t, i)
        /\ \A u \in Threads : u # t => \A i : Unread(u, i)' <=> Unread(u, i)
        /\ UNCHANGED <<table, pc, chunk, evaluated>>
    BY <1>7, ClaimStep
  <2>2. \A u \in Threads : \A k : Holds(u, k) => Holds(u, k)'
    BY <1>5, <1>6, <2>1 DEF HasTaken
  <2>3. \A k \in 1..taken' : k \in 1..taken \/ Holds(t, k)'
    <3>1. \A k \in 1..taken' : k \in 1..taken \/ k \in (taken + 1)..taken'
      BY <2>1
    <3> QED
      BY <1>6, <2>1, <3>1
  <2> QED
    BY <2>1, <2>2, <2>3 DEF CoverInv
<1>2. ASSUME NEW t \in Threads, TakeChunk(t) PROVE CoverInv'
  <2>1. PICK i : i = next[t]
    OBVIOUS
  <2>2. /\ chunk'[t] = table[i]
        /\ \A k : Unread(t, k)' <=> Unread(t, k) /\ k # i
        /\ pc[t] = "running" /\ pc'[t] = "function"
        /\ \A u \in Threads : u # t => /\ chunk'[u] = chunk[u] /\ pc'[u] = pc[u]
                                       /\ \A k : Unread(u, k)' <=> Unread(u, k)
        /\ UNCHANGED <<table, taken, evaluated>>
    BY <1>2, <2>1, TakeStep
  <2>3. HasTaken(t, i)' /\ \A k : ~HasTaken(t, k)
    BY <2>2 DEF HasTaken
  <2>4. \A u \in Threads : \A k : HasTaken(u, k) => HasTaken(u, k)'
    BY <2>2, <2>3 DEF HasTaken
  <2>5. \A u \in Threads : \A k : Holds(u, k) => Holds(u, k)'
    BY <1>5, <1>6, <2>2, <2>3, <2>4
  <2> QED
    BY <2>2, <2>5 DEF CoverInv
<1>3. ASSUME NEW t \in Threads, UpdateMoments(t) PROVE CoverInv'
  <2>1. /\ evaluated' = evaluated \o chunk[t] /\ pc[t] = "update"
        /\ pc' = [pc EXCEPT ![t] = "running"] /\ UNCHANGED <<table, taken, next, last, chunk>>
    BY <1>3 DEF UpdateMoments, Goto, input, source
  <2>2. PICK i \in 1..taken : chunk[t] = table[i]
    BY <2>1 DEF ChunksInv, Busy
  <2>3. evaluated \in Seq(rows) /\ chunk[t] \in Seq(rows)
    <3>1. i \in DOMAIN table
      BY <2>2 DEF ChunksInv
    <3> QED
      BY <2>2, <3>1 DEF EvaluatedInv
  <2>4. ToSet(evaluated') = ToSet(evaluated) \union ToSet(chunk[t])
    BY <2>1, <2>3, ToSetOfConcat
  <2>5. \A u \in Threads, k \in 1..taken : HasTaken(u, k) => u = t \/ HasTaken(u, k)'
    BY <2>1 DEF HasTaken, ChunksInv
  <2>6. \A k \in 1..taken : HasTaken(t, k) => ToSet(table[k]) \subseteq ToSet(evaluated')
    BY <2>4 DEF HasTaken
  <2>7. \A u \in Threads : \A k : Unread(u, k) => Unread(u, k)'
    BY <2>1 DEF Unread
  <2>8. \A u \in Threads, k \in 1..taken : Holds(u, k) =>
           Holds(u, k)' \/ ToSet(table[k]) \subseteq ToSet(evaluated')
    BY <1>5, <1>6, <2>5, <2>6, <2>7
  <2> QED
    BY <2>1, <2>4, <2>8 DEF CoverInv
<1>4. ASSUME NEW t \in Threads, Step(t), ~ClaimRowGroup(t), ~TakeChunk(t), ~UpdateMoments(t)
      PROVE  CoverInv'
  <2>1. UNCHANGED <<table, taken, next, last, chunk, evaluated>>
    BY <1>4 DEF Step, EndOfInput, ReadChunk, ReadNull, FinalizeAgain, FinalizeEmits, TakeResult,
                input, source
  <2>2. /\ \A u \in Threads : u # t => pc'[u] = pc[u]
        /\ chunk[t] = <<>> \/ (pc[t] \in {"function", "update", "failed"}
                                => pc'[t] \in {"function", "update", "failed"})
    <3>1. CASE ReadChunk(t)
      BY <3>1 DEF ReadChunk, Goto, ChunksInv
    <3>2. CASE ~ReadChunk(t)
      BY <1>4, <3>2 DEF Step, EndOfInput, ReadNull, FinalizeAgain, FinalizeEmits, TakeResult, Goto,
                        ChunksInv
    <3> QED
      BY <3>1, <3>2
  <2>3. ToSet(<<>>) = {}
    BY DEF ToSet
  <2>4. \A u \in Threads : \A k : HasTaken(u, k) =>
           HasTaken(u, k)' \/ ToSet(table[k]) \subseteq ToSet(evaluated)
    BY <2>1, <2>2, <2>3 DEF HasTaken
  <2>5. \A u \in Threads : \A k : Unread(u, k) => Unread(u, k)'
    BY <2>1 DEF Unread
  <2>6. \A u \in Threads : \A k : Holds(u, k) =>
           Holds(u, k)' \/ ToSet(table[k]) \subseteq ToSet(evaluated)
    BY <1>5, <1>6, <2>4, <2>5
  <2> QED
    BY <2>1, <2>6 DEF CoverInv
<1> QED
  BY <1>1, <1>2, <1>3, <1>4, <1>7 DEF Next

\* The result a finalizer hands out is what the accumulators hold.
LEMMA EmittedResult ==
    ASSUME NEW rows, evaluated \in Seq(rows), results \in Seq(Seq(rows)),
           results' = Append(results, evaluated)
    PROVE  results' \in Seq(Seq(rows)) /\ Last(results') = evaluated
BY DEF Last

LEMMA ResultsStep ==
    ASSUME NEW rows, EvaluatedInv(rows), results \in Seq(Seq(rows)), [Next]_vars
    PROVE  results' \in Seq(Seq(rows))
<1>1. ASSUME NEW t \in Threads, FinalizeEmits(t) PROVE results' = Append(results, evaluated)
  BY <1>1 DEF FinalizeEmits
<1>2. ASSUME NEW t \in Threads, Step(t), ~FinalizeEmits(t) PROVE UNCHANGED results
  BY <1>2 DEF Step, ClaimRowGroup, TakeChunk, EndOfInput, ReadChunk, ReadNull, UpdateMoments,
              FinalizeAgain, TakeResult
<1> QED
  BY <1>1, <1>2, EmittedResult DEF EvaluatedInv, Next, vars

\* A thread that hands out a result finds every chunk that is missing from it with
\* another thread: it has nothing left to read itself, and no row group is left.
LEMMA MissingAreHeld ==
    ASSUME NEW rows, ChunksInv, EvaluatedInv(rows), CoverInv, results \in Seq(Seq(rows)),
           NEW t \in Threads, FinalizeEmits(t), NEW i \in DOMAIN table, ResultLacks(i),
           table \in Seq(Seq(rows))
    PROVE  \E u \in Threads \ {t} : Holds(u, i)
<1>1. pc[t] = "finalize" /\ results' = Append(results, evaluated)
  BY DEF FinalizeEmits
<1>2. Last(results') = evaluated
  BY <1>1, EmittedResult DEF EvaluatedInv
<1>3. taken = Len(table) /\ next[t] > last[t] /\ next[t] \in Nat /\ last[t] \in Nat
  BY <1>1 DEF ChunksInv
<1>4. i \in 1..taken
  BY <1>3
<1>5. PICK u \in Threads : Holds(u, i)
  BY <1>2, <1>4 DEF CoverInv, ResultLacks
<1>6. ~Holds(t, i)
  BY <1>1, <1>3 DEF Holds, HasTaken
<1> QED
  BY <1>5, <1>6

\* Every chunk a result lacks rows of is with a thread other than the one that
\* hands it out, for any threads, tables, row groups and NULLs; one thread alone
\* evaluates every row.
THEOREM ResultsMissOnlyWhatOthersHold ==
    ASSUME NEW CONSTANT Rows, Tables \subseteq Seq(Seq(Rows)),
           \A tb \in Tables : DistinctRows(tb)
    PROVE  Spec => MissesOnlyWhatOthersHold
<1> DEFINE Inv == ChunksInv /\ EvaluatedInv(Rows) /\ CoverInv /\ results \in Seq(Seq(Rows))
<1>1. Init => Inv
  <2> SUFFICES ASSUME Init PROVE Inv
    OBVIOUS
  <2>1. taken = 0 /\ results = <<>>
    BY DEF Init
  <2>2. CoverInv /\ results \in Seq(Seq(Rows))
    BY <2>1 DEF CoverInv
  <2> QED
    BY <2>2, InitChunks
<1>2. Inv /\ [Next]_vars => Inv'
  <2> SUFFICES ASSUME Inv, [Next]_vars
               PROVE  Inv'
    OBVIOUS
  <2>1. table \in Seq(Seq(Rows)) /\ DistinctRows(table)
    BY DEF ChunksInv
  <2> QED
    BY <2>1, ChunksStep, EvaluatedStep, CoverStep, ResultsStep
<1>3. Inv /\ [Next]_vars =>
        [\A t \in Threads : FinalizeEmits(t) =>
            \A i \in DOMAIN table : ResultLacks(i) => \E u \in Threads \ {t} : Holds(u, i)]_vars
  <2> SUFFICES ASSUME Inv, NEW t \in Threads, FinalizeEmits(t), NEW i \in DOMAIN table,
                      ResultLacks(i)
               PROVE  \E u \in Threads \ {t} : Holds(u, i)
    OBVIOUS
  <2>1. table \in Seq(Seq(Rows))
    BY DEF ChunksInv
  <2> QED
    BY <2>1, MissingAreHeld
<1> QED
  BY <1>1, <1>2, <1>3, PTL DEF Spec, MissesOnlyWhatOthersHold

-----------------------------------------------------------------------------
\* How a query ends.

\* A thread that is done has emitted the row or failed, and there is one.
EndInv ==
    /\ Len(table) \in Nat /\ taken \in 0..Len(table)
    /\ next \in [Threads -> Nat]
    /\ pc \in [Threads -> Places]
    /\ emitted \in BOOLEAN /\ failed \in BOOLEAN
    /\ IF emitted THEN Len(results) = 1 ELSE results = <<>>
    /\ \E t \in Threads : pc[t] # "unused"
    /\ \A t \in Threads : /\ pc[t] \in {"emitting", "finished"} => emitted
                          /\ pc[t] = "failed" => failed

\* How far a thread has come, between one chunk and the next.
Progress(t) ==
    CASE pc[t] = "function" -> 1
      [] pc[t] = "update" -> 2
      [] pc[t] = "running" -> 3
      [] pc[t] = "finalize" -> IF emitted THEN 6 ELSE 4
      [] pc[t] = "emitting" -> 5
      [] OTHER -> 7

\* A step claims chunks that nobody has, or reads one of those that a thread has
\* claimed, or brings a thread forward and none back.
GoesForward ==
    /\ ~Ended
    /\ \/ taken < taken' /\ taken' <= Len(table)
       \/ /\ UNCHANGED <<taken, last>>
          /\ \E t \in Threads :
                next[t] <= last[t] /\ next' = [next EXCEPT ![t] = next[t] + 1]
       \/ /\ UNCHANGED source
          /\ \A t \in Threads : Progress(t) <= Progress(t)'
          /\ \E t \in Threads : Progress(t) < Progress(t)'
QueryGoesForward == [][GoesForward]_vars

\* Where a step that claims and takes no chunk leads a thread.
Leads(t, to) ==
    \/ pc[t] = "function" /\ to \in {"update", "running", "failed"}
    \/ pc[t] = "update" /\ to = "running"
    \/ pc[t] = "running" /\ to = "finalize"
    \/ pc[t] = "finalize" /\ ~emitted /\ to = "emitting" /\ emitted'
    \/ pc[t] = "finalize" /\ emitted /\ to = "finished"
    \/ pc[t] = "emitting" /\ to = "finalize"

LEMMA StepsLead ==
    ASSUME NEW t \in Threads, Step(t), ~ClaimRowGroup(t), ~TakeChunk(t)
    PROVE  /\ \E to \in Places \ {"unused"} : pc' = [pc EXCEPT ![t] = to] /\ Leads(t, to)
           /\ UNCHANGED <<source, taken, next, table>>
<1>1. UNCHANGED <<source, taken, next, table>>
  BY DEF Step, EndOfInput, ReadChunk, ReadNull, UpdateMoments, FinalizeAgain, FinalizeEmits,
         TakeResult, input, source
<1>2. CASE ReadChunk(t)
  <2>1. pc[t] = "function"
        /\ (chunk[t] = <<>> => pc' = [pc EXCEPT ![t] = "running"])
        /\ (chunk[t] # <<>> => pc' = [pc EXCEPT ![t] = "update"])
    BY <1>2 DEF ReadChunk, Goto
  <2>2. Leads(t, "running") /\ Leads(t, "update")
    BY <2>1 DEF Leads
  <2>3. "running" \in Places \ {"unused"} /\ "update" \in Places \ {"unused"}
    BY DEF Places
  <2> QED
    BY <1>1, <2>1, <2>2, <2>3
<1>3. CASE ~ReadChunk(t)
  BY <1>1, <1>3 DEF Step, EndOfInput, ReadNull, UpdateMoments, FinalizeAgain, FinalizeEmits,
                    TakeResult, Goto, Leads, Places
<1> QED
  BY <1>2, <1>3

\* Where a thread is after a step.
LEMMA StepsGo ==
    ASSUME EndInv, NEW t \in Threads, Step(t)
    PROVE  /\ pc' \in [Threads -> Places] /\ pc'[t] # "unused"
           /\ \A u \in Threads : u # t => pc'[u] = pc[u]
<1>1. CASE ClaimRowGroup(t)
  <2>1. pc' = pc /\ pc[t] = "running"
    BY <1>1 DEF ClaimRowGroup
  <2> QED
    BY <2>1 DEF EndInv
<1>2. CASE ~ClaimRowGroup(t)
  <2>1. \E to \in Places \ {"unused"} : pc' = [pc EXCEPT ![t] = to]
    BY <1>2, StepsLead DEF TakeChunk, Goto, Places
  <2> QED
    BY <2>1 DEF EndInv
<1> QED
  BY <1>1, <1>2

\* What a step does to the result and the failure.
LEMMA StepsEnd ==
    ASSUME EndInv, NEW t \in Threads, Step(t)
    PROVE  /\ emitted' \in BOOLEAN /\ failed' \in BOOLEAN
           /\ IF emitted' THEN Len(results') = 1 ELSE results' = <<>>
           /\ (emitted => emitted') /\ (failed => failed')
           /\ pc'[t] \in {"emitting", "finished"} => emitted'
           /\ pc'[t] = "failed" => failed'
<1>1. CASE FinalizeEmits(t)
  <2>1. ~emitted /\ results = <<>> /\ results' = Append(results, evaluated)
    BY <1>1 DEF FinalizeEmits, EndInv
  <2>2. Len(results') = 1
    BY <2>1
  <2> QED
    BY <1>1, <2>2 DEF FinalizeEmits, EndInv, Goto, Places
<1>2. CASE ~FinalizeEmits(t)
  <2>1. UNCHANGED <<emitted, results>>
    BY <1>2 DEF Step, ClaimRowGroup, TakeChunk, EndOfInput, ReadChunk, ReadNull, UpdateMoments,
                FinalizeAgain,
                TakeResult
  <2>2. failed' \in BOOLEAN /\ (failed => failed')
    BY <1>2 DEF Step, ClaimRowGroup, TakeChunk, EndOfInput, ReadChunk, ReadNull, UpdateMoments,
                FinalizeAgain,
                TakeResult, EndInv
  <2>3. CASE ClaimRowGroup(t)
    <3>1. pc'[t] = "running"
      BY <2>3 DEF ClaimRowGroup
    <3> QED
      BY <2>1, <2>2, <3>1 DEF EndInv
  <2>5. CASE ~ClaimRowGroup(t)
    <3>1. \E to \in Places :
             /\ pc' = [pc EXCEPT ![t] = to]
             /\ to \in {"emitting", "finished"} => emitted
             /\ to = "failed" => failed'
      <4>1. CASE ReadChunk(t)
        <5>1. pc' = [pc EXCEPT ![t] = "running"] \/ pc' = [pc EXCEPT ![t] = "update"]
          BY <4>1 DEF ReadChunk, Goto
        <5> QED
          BY <5>1 DEF Places
      <4>2. CASE ~ReadChunk(t)
        BY <1>2, <2>5, <4>2 DEF Step, TakeChunk, EndOfInput, ReadNull, UpdateMoments,
                    FinalizeAgain, TakeResult, Goto, Places
      <4> QED
        BY <4>1, <4>2
    <3>2. /\ pc'[t] \in {"emitting", "finished"} => emitted'
          /\ pc'[t] = "failed" => failed'
      BY <2>1, <3>1 DEF EndInv
    <3> QED
      BY <2>1, <2>2, <3>2 DEF EndInv
  <2> QED
    BY <2>3, <2>5
<1> QED
  BY <1>1, <1>2

LEMMA EndStep ==
    ASSUME EndInv, [Next]_vars
    PROVE  EndInv'
<1>1. CASE UNCHANGED vars
  BY <1>1 DEF vars, input, source, EndInv
<1>2. ASSUME NEW t \in Threads, Step(t) PROVE EndInv'
  <2>2. Len(table') \in Nat /\ taken' \in 0..Len(table') /\ next' \in [Threads -> Nat]
    <3>1. CASE ClaimRowGroup(t)
      <4>1. /\ taken' \in (taken + 1)..Len(table) /\ table' = table
            /\ next' = [next EXCEPT ![t] = taken + 1]
        BY <3>1 DEF ClaimRowGroup, input
      <4> QED
        BY <4>1 DEF EndInv
    <3>2. CASE TakeChunk(t)
      <4>1. UNCHANGED <<table, taken>> /\ next' = [next EXCEPT ![t] = next[t] + 1]
        BY <3>2 DEF TakeChunk, input
      <4> QED
        BY <4>1 DEF EndInv
    <3> QED
      BY <1>2, <3>1, <3>2, StepsLead DEF EndInv
  <2>3. /\ pc' \in [Threads -> Places] /\ pc'[t] # "unused"
        /\ \A u \in Threads : u # t => pc'[u] = pc[u]
    BY <1>2, StepsGo
  <2>4. \A u \in Threads : /\ pc'[u] \in {"emitting", "finished"} => emitted'
                           /\ pc'[u] = "failed" => failed'
    BY <1>2, <2>3, StepsEnd DEF EndInv
  <2>5. /\ emitted' \in BOOLEAN /\ failed' \in BOOLEAN
        /\ IF emitted' THEN Len(results') = 1 ELSE results' = <<>>
    BY <1>2, StepsEnd
  <2> QED
    BY <2>2, <2>3, <2>4, <2>5 DEF EndInv
<1> QED
  BY <1>1, <1>2 DEF Next

\* A query that has ended makes no step any more.
LEMMA EndedStays ==
    ASSUME EndInv, Ended, [Next]_vars
    PROVE  UNCHANGED vars
<1>1. \A t \in Threads : ~Step(t)
  BY DEF Ended, Step, ClaimRowGroup, TakeChunk, EndOfInput, ReadChunk, ReadNull, UpdateMoments,
                FinalizeAgain,
         FinalizeEmits, TakeResult
<1> QED
  BY <1>1 DEF Next

LEMMA ForwardStep ==
    ASSUME EndInv, [Next]_vars
    PROVE  [GoesForward]_vars
<1>1. CASE Ended
  BY <1>1, EndedStays
<1>2. ASSUME ~Ended, NEW t \in Threads, TakeChunk(t) PROVE GoesForward
  BY <1>2 DEF TakeChunk, GoesForward
<1>4. ASSUME ~Ended, NEW t \in Threads, ClaimRowGroup(t) PROVE GoesForward
  <2>1. taken' \in (taken + 1)..Len(table) /\ taken \in Nat /\ Len(table) \in Nat
    BY <1>4 DEF ClaimRowGroup, EndInv
  <2> QED
    BY <1>4, <2>1 DEF GoesForward
<1>3. ASSUME ~Ended, NEW t \in Threads, Step(t), ~TakeChunk(t), ~ClaimRowGroup(t)
      PROVE  GoesForward
  <2>1. PICK to \in Places \ {"unused"} : pc' = [pc EXCEPT ![t] = to] /\ Leads(t, to)
    BY <1>3, StepsLead
  <2>2. emitted \in BOOLEAN /\ emitted' \in BOOLEAN /\ (emitted => emitted')
        /\ (pc[t] = "emitting" => emitted)
    BY <1>3, StepsEnd DEF EndInv
  <2>3. pc'[t] = to /\ \A u \in Threads : u # t => pc'[u] = pc[u]
    BY <2>1 DEF EndInv
  <2>4. Progress(t) < Progress(t)'
    BY <2>1, <2>2, <2>3 DEF Progress, Leads, Places
  <2>5. ASSUME NEW u \in Threads, u # t PROVE Progress(u) <= Progress(u)'
    BY <2>2, <2>3, <2>5 DEF Progress
  <2>6. \A u \in Threads : Progress(u) \in Nat /\ Progress(u)' \in Nat
    BY DEF Progress
  <2>7. \A u \in Threads : Progress(u) <= Progress(u)'
    BY <2>4, <2>5, <2>6
  <2> QED
    BY <1>3, <2>4, <2>7, StepsLead DEF GoesForward
<1> QED
  BY <1>1, <1>2, <1>3, <1>4 DEF Next

LEMMA EndsAlways ==
    ASSUME NEW CONSTANT Rows, Tables \subseteq Seq(Seq(Rows))
    PROVE  Spec => []EndInv
<1>1. Init => EndInv
  <2> SUFFICES ASSUME Init PROVE EndInv
    OBVIOUS
  <2>1. PICK started \in (SUBSET Threads) \ {{}} :
           pc = [t \in Threads |-> IF t \in started THEN "running" ELSE "unused"]
    BY DEF Init
  <2>2. started # {} /\ \A t \in started : t \in Threads
    BY <2>1
  <2>3. PICK t \in started : t \in Threads
    BY <2>2
  <2>4. pc[t] # "unused" /\ \A u \in Threads : pc[u] \in {"unused", "running"}
    BY <2>1, <2>3
  <2>5. pc \in [Threads -> Places]
    BY <2>1 DEF Places
  <2>6. /\ Len(table) \in Nat /\ taken = 0
        /\ emitted = FALSE /\ failed = FALSE /\ results = <<>>
    BY DEF Init
  <2>7. taken \in 0..Len(table)
    BY <2>6
  <2>9. next \in [Threads -> Nat]
    BY DEF Init
  <2>8. \A u \in Threads : pc[u] \notin {"emitting", "finished", "failed"}
    BY <2>4
  <2> QED
    BY <2>3, <2>4, <2>5, <2>6, <2>7, <2>8, <2>9 DEF EndInv
<1>2. EndInv /\ [Next]_vars => EndInv'
  BY EndStep
<1> QED
  BY <1>1, <1>2, PTL DEF Spec

\* A query that has ended stays so and has failed or one result row; so it ends
\* as QueryEnds says as soon as no thread has anything left to do.
THEOREM EndedQueryIsOver ==
    ASSUME NEW CONSTANT Rows, Tables \subseteq Seq(Seq(Rows))
    PROVE  Spec => (<>Ended => QueryEnds)
<1>1. EndInv /\ Ended => failed \/ Len(results) = 1
  <2> SUFFICES ASSUME EndInv, Ended, ~failed PROVE Len(results) = 1
    OBVIOUS
  <2>1. PICK t \in Threads : pc[t] # "unused"
    BY DEF EndInv
  <2>2. pc[t] = "finished"
    BY <2>1 DEF Ended, EndInv
  <2> QED
    BY <2>2 DEF EndInv
<1>2. EndInv /\ [Next]_vars /\ Ended => Ended'
  BY EndedStays DEF vars, Ended
<1> QED
  BY <1>1, <1>2, EndsAlways, PTL DEF Spec, QueryEnds

\* No thread of a query waits in a circle or repeats itself: whatever the
\* scheduler does, each step claims chunks that are left, reads one, or brings a
\* thread forward and none back.
THEOREM QueryAlwaysGoesForward ==
    ASSUME NEW CONSTANT Rows, Tables \subseteq Seq(Seq(Rows))
    PROVE  Spec => QueryGoesForward
<1>1. EndInv /\ [Next]_vars => [GoesForward]_vars
  BY ForwardStep
<1> QED
  BY <1>1, EndsAlways, PTL DEF Spec, QueryGoesForward

=============================================================================
