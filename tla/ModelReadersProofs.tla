------------------------- MODULE ModelReadersProofs -------------------------
(***************************************************************************)
(* Theorems about ModelReaders, for any readers, names, tables, labels,    *)
(* bounds, chunk and page size: every chunk of a bound statement is        *)
(* answered by the one version that it asked for; a table is refused       *)
(* exactly for want of a word; what a model is fed and what is made of it  *)
(* belong to their row and column; ml_models lists its snapshot.           *)
(***************************************************************************)
EXTENDS ModelReaders, FiniteSetTheorems, WellFoundedInduction, TLAPS

\* Whatever models and column names are.
IsSequence(s) == \E S : s \in Seq(S)

\* A bound query holds the registry's model of the version that it asked for.
BoundModelIsVersion ==
    \A r \in Readers :
        Bound(r) =>
            /\ AskedVersion(query[r]) \in DOMAIN log[query[r].name]
            /\ log[query[r].name][AskedVersion(query[r])] = query[r].model

\* A bound statement's model was in the log when it was bound, and the log only
\* grows at its end.
BoundInv ==
    /\ log = [n \in Names |-> log[n]]
    /\ \A n \in Names : IsSequence(log[n])
    /\ query = [r \in Readers |-> query[r]]
    /\ \A r \in Readers : Bound(r) => query[r].name \in Names
    /\ BoundModelIsVersion

\* Publishing leaves every version that was there as it was.
LEMMA PublishKeepsVersions ==
    ASSUME NEW s, IsSequence(s), NEW model
    PROVE  /\ IsSequence(Append(s, model))
           /\ \A v \in DOMAIN s : v \in DOMAIN Append(s, model) /\ Append(s, model)[v] = s[v]
<1>1. PICK S : s \in Seq(S)
  BY DEF IsSequence
<1>. DEFINE T == S \union {model}
<1>2. s \in Seq(T) /\ model \in T
  BY <1>1
<1>. HIDE DEF T
<1>3. Append(s, model) \in Seq(T)
  BY <1>2
<1>4. \A v \in DOMAIN s : v \in DOMAIN Append(s, model) /\ Append(s, model)[v] = s[v]
  BY <1>2
<1>. QED BY <1>3, <1>4 DEF IsSequence

\* A fit keeps what bound statements hold.
LEMMA FitStep ==
    ASSUME BoundInv, NEW n \in Names, NEW type, NEW features, NEW label,
           Fit(n, type, features, label)
    PROVE  BoundInv'
<1>. DEFINE model == [type |-> type, features |-> features, label |-> label,
                      weights |-> <<n, Len(log[n]) + 1>>]
<1>1. \A m \in Names : log'[m] = IF m = n THEN Append(log[n], model) ELSE log[m]
  BY DEF BoundInv, Fit
<1>2. log' = [m \in Names |-> log'[m]]
  BY DEF BoundInv, Fit
<1>3. \A m \in Names :
         /\ IsSequence(log'[m])
         /\ \A v \in DOMAIN log[m] : v \in DOMAIN log'[m] /\ log'[m][v] = log[m][v]
  <2>. SUFFICES ASSUME NEW m \in Names
                PROVE  /\ IsSequence(log'[m])
                       /\ \A v \in DOMAIN log[m] :
                             v \in DOMAIN log'[m] /\ log'[m][v] = log[m][v]
    OBVIOUS
  <2>1. IsSequence(log[m])
    BY DEF BoundInv
  <2>2. CASE m = n
    <3>1. log'[m] = Append(log[m], model)
      BY <1>1, <2>2
    <3>2. /\ IsSequence(Append(log[m], model))
          /\ \A v \in DOMAIN log[m] :
                v \in DOMAIN Append(log[m], model) /\ Append(log[m], model)[v] = log[m][v]
      BY <2>1, PublishKeepsVersions
    <3>. QED BY <3>1, <3>2
  <2>3. CASE m # n
    <3>1. log'[m] = log[m]
      BY <1>1, <2>3
    <3>. QED BY <2>1, <3>1
  <2>. QED BY <2>2, <2>3
<1>4. query' = query
  BY DEF Fit
<1>5. \A r \in Readers : Bound(r)' => Bound(r) /\ query'[r].name \in Names
  BY <1>4 DEF BoundInv, Bound
<1>6. BoundModelIsVersion'
  BY <1>3, <1>4, <1>5 DEF BoundInv, BoundModelIsVersion, Bound
<1>. QED BY <1>2, <1>3, <1>4, <1>5, <1>6 DEF BoundInv

\* A statement is bound to a version that the log has.
LEMMA BindStep ==
    ASSUME BoundInv, NEW r \in Readers, NEW op, NEW n \in Names \union {NoName},
           NEW version \in Int, NEW cols, Bind(r, op, n, version, cols)
    PROVE  BoundInv'
<1>. DEFINE found == Resolved(n, version)
            bound == BindData(op, n, version, cols)
            refused == Refusal(op, n, version, cols)
            accepted == Accepts(op, n, version, cols)
<1>1. query' = [query EXCEPT ![r] = IF accepted THEN bound ELSE refused] /\ log' = log
  BY DEF Bind
<1>2. query' = [s \in Readers |-> query'[s]]
  BY <1>1 DEF BoundInv
<1>3. \A s \in Readers \ {r} : query'[s] = query[s]
  BY <1>1 DEF BoundInv
<1>4. query'[r] = IF accepted THEN bound ELSE refused
  BY <1>1 DEF BoundInv
<1>5. accepted => n \in Names /\ found \in DOMAIN log[n]
  BY DEF Accepts, Exists, Refuses
<1>6. /\ bound.status = "bound" /\ refused.status = "refused"
      /\ bound.name = n /\ bound.asked = version /\ bound.since = VersionsNow
      /\ bound.model = log[n][found]
  BY DEF BindData, Refusal
<1>7. accepted => AskedVersion(bound) = found
  <2>1. accepted => VersionsNow[n] = Len(log[n])
    BY <1>5 DEF VersionsNow
  <2>. HIDE DEF bound, accepted
  <2>. QED BY <1>6, <2>1 DEF AskedVersion, Resolved
<1>. HIDE DEF bound, refused, accepted, found
<1>8. ASSUME Bound(r)'
      PROVE  /\ query'[r].name \in Names
             /\ AskedVersion(query'[r]) \in DOMAIN log[query'[r].name]
             /\ log[query'[r].name][AskedVersion(query'[r])] = query'[r].model
  <2>1. accepted
    BY <1>4, <1>6, <1>8 DEF Bound
  <2>. QED BY <2>1, <1>4, <1>5, <1>6, <1>7
<1>9. \A s \in Readers : Bound(s)' => query'[s].name \in Names
  BY <1>3, <1>8 DEF BoundInv, Bound
<1>10. BoundModelIsVersion'
  BY <1>1, <1>3, <1>8 DEF BoundInv, BoundModelIsVersion, Bound, AskedVersion
<1>. QED BY <1>1, <1>2, <1>9, <1>10 DEF BoundInv

\* Every other step leaves a query alone or ends its binding.
LEMMA OtherStep ==
    ASSUME BoundInv, log' = log, NEW r \in Readers, NEW q, q.status # "bound",
           query' = query \/ query' = [query EXCEPT ![r] = q]
    PROVE  BoundInv'
<1>1. \A s \in Readers : Bound(s)' => Bound(s) /\ query'[s] = query[s]
  BY DEF BoundInv, Bound
<1>2. query' = [s \in Readers |-> query'[s]]
  BY DEF BoundInv
<1>3. \A s \in Readers : Bound(s)' => query'[s].name \in Names
  BY <1>1 DEF BoundInv
<1>4. BoundModelIsVersion'
  BY <1>1 DEF BoundInv, BoundModelIsVersion
<1>. QED BY <1>2, <1>3, <1>4 DEF BoundInv

\* Only fits write the registry.
LEMMA ReadersLeaveLog ==
    ASSUME NEW r \in Readers,
           \/ \E op, n, version, cols : Bind(r, op, n, version, cols)
           \/ Execute(r) \/ ExecuteNull(r) \/ ExplainPca(r)
           \/ StartListing(r) \/ ShowPage(r) \/ EndListing(r) \/ Rest(r)
    PROVE  log' = log
<1>1. CASE \E op, n, version, cols : Bind(r, op, n, version, cols)
  BY <1>1 DEF Bind
<1>2. CASE Execute(r) \/ ExecuteNull(r) \/ ExplainPca(r)
  BY <1>2 DEF Execute, ExecuteNull, ExplainPca
<1>3. CASE StartListing(r) \/ EndListing(r) \/ Rest(r)
  BY <1>3 DEF StartListing, EndListing, Rest
<1>4. CASE ShowPage(r)
  BY <1>4, Zenon DEF ShowPage
<1>. QED BY <1>1, <1>2, <1>3, <1>4

\* Nothing is bound at first.
LEMMA BoundInit == Init => BoundInv
<1>. SUFFICES ASSUME Init PROVE BoundInv
  OBVIOUS
<1>1. \A n \in Names : IsSequence(log[n])
  <2>1. << >> \in Seq({})
    OBVIOUS
  <2>. QED BY <2>1 DEF Init, IsSequence
<1>2. \A r \in Readers : ~Bound(r)
  BY DEF Init, Bound, NoQuery
<1>. QED BY <1>1, <1>2 DEF Init, BoundInv, BoundModelIsVersion

\* The steps together.
LEMMA BoundStep == BoundInv /\ [Next]_vars => BoundInv'
<1>. SUFFICES ASSUME BoundInv, [Next]_vars PROVE BoundInv'
  OBVIOUS
<1>1. CASE \E n \in Names, cols \in Tables :
             \/ FitPca(n, cols)
             \/ \E label \in Labels : FitBoostedTree(n, cols, label)
  BY <1>1, FitStep DEF FitPca, FitBoostedTree
<1>2. ASSUME NEW r \in Readers, NEW op, NEW n \in Names \union {NoName},
             NEW version \in -1..MaxModels, NEW cols, Bind(r, op, n, version, cols)
      PROVE  BoundInv'
  <2>1. version \in Int
    OBVIOUS
  <2>. QED BY <1>2, <2>1, BindStep
<1>3. ASSUME NEW r \in Readers,
             \/ Execute(r) \/ ExecuteNull(r) \/ ExplainPca(r)
             \/ StartListing(r) \/ ShowPage(r) \/ EndListing(r) \/ Rest(r)
      PROVE  BoundInv'
  <2>1. log' = log
    BY <1>3, ReadersLeaveLog
  <2>2. \E q : q.status # "bound" /\ (query' = query \/ query' = [query EXCEPT ![r] = q])
    <3>1. /\ NoQuery.status # "bound"
          /\ [status |-> "listing"].status # "bound"
          /\ [status |-> "listed"].status # "bound"
      BY DEF NoQuery
    <3>2. \/ query' = query \/ query' = [query EXCEPT ![r] = NoQuery]
          \/ query' = [query EXCEPT ![r] = [status |-> "listing"]]
          \/ query' = [query EXCEPT ![r] = [status |-> "listed"]]
      BY <1>3 DEF Execute, ExecuteNull, ExplainPca, StartListing, ShowPage, EndListing, Rest
    <3>. QED BY <3>1, <3>2
  <2>. QED BY <2>1, <2>2, OtherStep
<1>4. CASE UNCHANGED vars
  BY <1>4 DEF vars, BoundInv, BoundModelIsVersion, Bound
<1>. QED BY <1>1, <1>2, <1>3, <1>4 DEF Next

\* What the steps other than Bind do to a query that they touch.
LEMMA QueryStep ==
    ASSUME BoundInv, [Next]_vars, NEW r \in Readers
    PROVE  \/ query'[r] = query[r]
           \/ query'[r].status \in {"none", "listing", "listed"}
           \/ \E op \in {"predict", "evaluate", "explain"}, n \in Names \union {NoName},
                 version \in -1..MaxModels, cols \in Tables : Bind(r, op, n, version, cols)
<1>1. query = [s \in Readers |-> query[s]]
  BY DEF BoundInv
<1>2. CASE \E n \in Names, cols \in Tables :
             \/ FitPca(n, cols)
             \/ \E label \in Labels : FitBoostedTree(n, cols, label)
  BY <1>2 DEF FitPca, FitBoostedTree, Fit
<1>3. ASSUME NEW s \in Readers, NEW op \in {"predict", "evaluate", "explain"},
             NEW n \in Names \union {NoName},
             NEW version \in -1..MaxModels, NEW cols \in Tables, Bind(s, op, n, version, cols)
      PROVE  r = s \/ query'[r] = query[r]
  BY <1>1, <1>3 DEF Bind
<1>4. ASSUME NEW s \in Readers,
             \/ Execute(s) \/ ExecuteNull(s) \/ ExplainPca(s)
             \/ StartListing(s) \/ ShowPage(s) \/ EndListing(s) \/ Rest(s)
      PROVE  query'[r] = query[r] \/ query'[r].status \in {"none", "listing", "listed"}
  <2>1. \/ query' = query \/ query' = [query EXCEPT ![s] = NoQuery]
        \/ query' = [query EXCEPT ![s] = [status |-> "listing"]]
        \/ query' = [query EXCEPT ![s] = [status |-> "listed"]]
    BY <1>4 DEF Execute, ExecuteNull, ExplainPca, StartListing, ShowPage, EndListing, Rest
  <2>2. NoQuery.status = "none"
    BY DEF NoQuery
  <2>. QED BY <1>1, <2>1, <2>2
<1>5. CASE UNCHANGED vars
  BY <1>5 DEF vars
<1>. QED BY <1>2, <1>3, <1>4, <1>5 DEF Next

\* A chunk's answer is the one that its bound statement gives.
AnswerInv ==
    /\ BoundInv
    /\ answer = [r \in Readers |-> answer[r]]
    /\ \A r \in Readers :
          Bound(r) /\ answer[r] # <<>> =>
              NeedsFeatures(query[r].op, query[r].model) /\ answer[r] = ChunkAnswer(query[r])

\* An answer is given by Execute, and stays while its statement is bound.
LEMMA AnswerStep ==
    ASSUME AnswerInv, [Next]_vars, NEW r \in Readers
    PROVE  \/ query'[r] = query[r] /\ answer'[r] = answer[r]
           \/ Bound(r) /\ query'[r] = query[r]
                 /\ NeedsFeatures(query[r].op, query[r].model)
                 /\ answer'[r] = ChunkAnswer(query[r])
           \/ query'[r].status \in {"none", "listing", "listed"}
           \/ \E op \in {"predict", "evaluate", "explain"}, n \in Names \union {NoName},
                 version \in -1..MaxModels, cols \in Tables :
                    Bind(r, op, n, version, cols) /\ answer'[r] = <<>>
<1>1. /\ query = [s \in Readers |-> query[s]]
      /\ answer = [s \in Readers |-> answer[s]]
  BY DEF AnswerInv, BoundInv
<1>2. CASE \E n \in Names, cols \in Tables :
             \/ FitPca(n, cols)
             \/ \E label \in Labels : FitBoostedTree(n, cols, label)
  BY <1>2 DEF FitPca, FitBoostedTree, Fit
<1>3. ASSUME NEW s \in Readers, NEW op \in {"predict", "evaluate", "explain"},
             NEW n \in Names \union {NoName},
             NEW version \in -1..MaxModels, NEW cols \in Tables, Bind(s, op, n, version, cols)
      PROVE  \/ r = s /\ answer'[r] = <<>>
             \/ query'[r] = query[r] /\ answer'[r] = answer[r]
  BY <1>1, <1>3 DEF Bind
<1>4. ASSUME NEW s \in Readers, Execute(s)
      PROVE  \/ query'[r] = query[r] /\ answer'[r] = answer[r]
             \/ Bound(r) /\ query'[r] = query[r]
                   /\ NeedsFeatures(query[r].op, query[r].model)
                   /\ answer'[r] = ChunkAnswer(query[r])
  <2>1. /\ answer' = [answer EXCEPT ![s] = ChunkAnswer(query[s])] /\ query' = query
        /\ query[s].status = "bound" /\ NeedsFeatures(query[s].op, query[s].model)
    BY <1>4 DEF Execute
  <2>. QED BY <1>1, <2>1 DEF Bound
<1>5. ASSUME NEW s \in Readers,
             \/ ExecuteNull(s) \/ ExplainPca(s)
             \/ StartListing(s) \/ ShowPage(s) \/ EndListing(s) \/ Rest(s)
      PROVE  \/ query'[r] = query[r] /\ answer'[r] = answer[r]
             \/ query'[r].status \in {"none", "listing", "listed"}
  <2>1. /\ \/ query' = query /\ answer' = answer
           \/ query' = [query EXCEPT ![s] = NoQuery]
           \/ query' = [query EXCEPT ![s] = [status |-> "listing"]]
           \/ query' = [query EXCEPT ![s] = [status |-> "listed"]]
        /\ answer' = answer \/ answer' = [answer EXCEPT ![s] = <<>>]
    BY <1>5 DEF ExecuteNull, ExplainPca, StartListing, ShowPage, EndListing, Rest
  <2>2. NoQuery.status = "none"
    BY DEF NoQuery
  <2>. QED BY <1>1, <2>1, <2>2
<1>6. CASE UNCHANGED vars
  BY <1>6 DEF vars
<1>. QED BY <1>2, <1>3, <1>4, <1>5, <1>6 DEF Next

\* answer stays a function of the readers.
LEMMA AnswerShape ==
    ASSUME AnswerInv, [Next]_vars
    PROVE  answer' = [r \in Readers |-> answer'[r]]
<1>1. answer = [s \in Readers |-> answer[s]]
  BY DEF AnswerInv
<1>2. CASE \E n \in Names, cols \in Tables :
             \/ FitPca(n, cols)
             \/ \E label \in Labels : FitBoostedTree(n, cols, label)
  BY <1>1, <1>2 DEF FitPca, FitBoostedTree, Fit
<1>3. ASSUME NEW s \in Readers,
             \/ \E op, n, version, cols : Bind(s, op, n, version, cols)
             \/ Execute(s) \/ ExecuteNull(s) \/ ExplainPca(s)
             \/ StartListing(s) \/ ShowPage(s) \/ EndListing(s) \/ Rest(s)
      PROVE  answer' = [r \in Readers |-> answer'[r]]
  <2>1. answer' = answer \/ \E a : answer' = [answer EXCEPT ![s] = a]
    BY <1>3 DEF Bind, Execute, ExecuteNull, ExplainPca, StartListing, ShowPage, EndListing, Rest
  <2>. QED BY <1>1, <2>1
<1>4. CASE UNCHANGED vars
  BY <1>1, <1>4 DEF vars
<1>. QED BY <1>2, <1>3, <1>4 DEF Next

\* No step but Execute answers a bound statement.
LEMMA AnswerInvStep == AnswerInv /\ [Next]_vars => AnswerInv'
<1>. SUFFICES ASSUME AnswerInv, [Next]_vars PROVE AnswerInv'
  OBVIOUS
<1>1. BoundInv'
  BY BoundStep DEF AnswerInv
<1>2. answer' = [r \in Readers |-> answer'[r]]
  BY AnswerShape
<1>3. ASSUME NEW r \in Readers, query'[r].status = "bound", answer'[r] # <<>>
      PROVE  /\ NeedsFeatures(query'[r].op, query'[r].model)
             /\ answer'[r] = ChunkAnswer(query'[r])
  <2>1. \/ query'[r] = query[r] /\ answer'[r] = answer[r]
        \/ Bound(r) /\ query'[r] = query[r]
              /\ NeedsFeatures(query[r].op, query[r].model)
              /\ answer'[r] = ChunkAnswer(query[r])
    BY <1>3, AnswerStep
  <2>. QED BY <1>3, <2>1 DEF AnswerInv, Bound
<1>. QED BY <1>1, <1>2, <1>3 DEF AnswerInv, Bound

\* Nothing is bound and nothing answered at first.
LEMMA AnswerInit == Init => AnswerInv
<1>1. Init => \A r \in Readers : ~Bound(r)
  BY DEF Init, Bound, NoQuery
<1>. QED BY <1>1, BoundInit DEF Init, AnswerInv

\* However many fits are published between two chunks of a bound or prepared
\* statement, each chunk is answered with the weights of the one version that
\* the statement asked for when it was bound.
THEOREM ChunksAlwaysByOneVersion == Spec => []ChunksByOneVersion
<1>1. AnswerInv => ChunksByOneVersion
  <2>. SUFFICES ASSUME AnswerInv, NEW r \in Readers, Bound(r), answer[r] # <<>>
                PROVE  answer[r].by = log[query[r].name][AskedVersion(query[r])].weights
    BY DEF ChunksByOneVersion
  <2>1. answer[r] = ChunkAnswer(query[r])
    BY DEF AnswerInv
  <2>2. ChunkAnswer(query[r]).by = query[r].model.weights
    BY DEF ChunkAnswer
  <2>3. log[query[r].name][AskedVersion(query[r])] = query[r].model
    BY DEF AnswerInv, BoundInv, BoundModelIsVersion
  <2>. QED BY <2>1, <2>2, <2>3
<1>. QED BY <1>1, AnswerInit, AnswerInvStep, PTL DEF Spec

-----------------------------------------------------------------------------
\* Min, a CHOOSE, finds the least of some naturals.
LEMMA LeastIsMember ==
    ASSUME NEW S, S \subseteq Nat, S # {}
    PROVE  Min(S) \in S
<1> DEFINE Less == OpToRel(<, Nat)
<1>1. PICK least \in S : \A n \in S : ~(<<n, least>> \in Less)
  <2>1. IsWellFoundedOn(Less, Nat)
    BY NatLessThanWellFounded
  <2> HIDE DEF Less
  <2> QED
    BY <2>1, WFMin
<1>2. \A n \in S : least <= n
  <2> SUFFICES ASSUME NEW n \in S PROVE ~(n < least)
    OBVIOUS
  <2> QED
    BY <1>1 DEF OpToRel
<1> QED
  BY <1>2 DEF Min

\* IndexOf finds the word of a name wherever it is spelled, or there is none.
LEMMA IndexOfWord ==
    ASSUME NEW cols, IsSequence(cols), NEW name
    PROVE  LET i == IndexOf(cols, name)
           IN  IF i = 0 THEN Word(name) \notin Words(cols)
               ELSE i \in DOMAIN cols /\ i \in Nat \ {0} /\ Word(cols[i]) = Word(name)
<1>1. Len(cols) \in Nat /\ DOMAIN cols = 1..Len(cols)
  BY DEF IsSequence
<1>. DEFINE I == {i \in 1..Len(cols) : CIEquals(cols[i], name)}
<1>2. IndexOf(cols, name) = IF I # {} THEN Min(I) ELSE 0
  BY DEF IndexOf, SelectInSeq
<1>3. CASE I = {}
  <2>1. IndexOf(cols, name) = 0
    BY <1>2, <1>3
  <2>2. \A i \in DOMAIN cols : Word(cols[i]) # Word(name)
    BY <1>1, <1>3 DEF CIEquals
  <2>. QED BY <2>1, <2>2 DEF Words
<1>4. CASE I # {}
  <2>1. I \subseteq Nat
    OBVIOUS
  <2>2. Min(I) \in I
    BY <1>4, <2>1, LeastIsMember
  <2>3. IndexOf(cols, name) \in I
    BY <1>2, <1>4, <2>2
  <2>. QED BY <1>1, <2>3 DEF CIEquals
<1>. QED BY <1>3, <1>4

\* What Bind misses is a word that the model needs and the table has not.
LEMMA MissingLacksWord ==
    ASSUME NEW cols, IsSequence(cols), NEW op, NEW m
    PROVE  Missing(op, m, cols) <=> ~(Needed(op, m) \subseteq Words(cols))
<1>1. \A name : IndexOf(cols, name) = 0 <=> Word(name) \notin Words(cols)
  <2>. SUFFICES ASSUME NEW name
                PROVE  IndexOf(cols, name) = 0 <=> Word(name) \notin Words(cols)
    OBVIOUS
  <2>1. CASE IndexOf(cols, name) = 0
    BY <2>1, IndexOfWord
  <2>2. CASE IndexOf(cols, name) # 0
    BY <2>2, IndexOfWord DEF Words
  <2>. QED BY <2>1, <2>2
<1>2. (\E i \in DOMAIN m.features : FeatureIndices(m, cols)[i] = 0)
         <=> ~(Words(m.features) \subseteq Words(cols))
  <2>1. \A i \in DOMAIN m.features :
           FeatureIndices(m, cols)[i] = 0 <=> Word(m.features[i]) \notin Words(cols)
    BY <1>1 DEF FeatureIndices
  <2>2. \A word : word \in Words(m.features)
                     <=> \E i \in DOMAIN m.features : word = Word(m.features[i])
    BY DEF Words
  <2>. QED BY <2>1, <2>2
<1>. QED BY <1>1, <1>2 DEF Missing, Needed

\* A query that found its version was bound if that version's words are all
\* there, and refused if they are not.
Judged(q, versions) ==
    /\ AskedVersion(q) \in DOMAIN versions
    /\ q.status = "bound" <=> Needed(q.op, versions[AskedVersion(q)]) \subseteq Words(q.columns)

\* Every query that found its version was judged by it.
Found(q) == q.status = "bound" \/ (q.status = "refused" /\ q.wasMissing)
RefusedInv ==
    /\ BoundInv
    /\ \A r \in Readers :
          Found(query[r]) =>
              query[r].name \in Names /\ Judged(query[r], log[query[r].name])

\* Every step leaves each version of the log as it was.
LEMMA LogGrows ==
    ASSUME BoundInv, [Next]_vars
    PROVE  \A n \in Names : \A v \in DOMAIN log[n] :
              v \in DOMAIN log'[n] /\ log'[n][v] = log[n][v]
<1>1. ASSUME NEW n \in Names, NEW type, NEW features, NEW label,
             Fit(n, type, features, label)
      PROVE  \A m \in Names : \A v \in DOMAIN log[m] :
                v \in DOMAIN log'[m] /\ log'[m][v] = log[m][v]
  <2>. DEFINE model == [type |-> type, features |-> features, label |-> label,
                        weights |-> <<n, Len(log[n]) + 1>>]
  <2>1. \A m \in Names : log'[m] = IF m = n THEN Append(log[n], model) ELSE log[m]
    BY <1>1 DEF BoundInv, Fit
  <2>2. \A v \in DOMAIN log[n] :
           v \in DOMAIN Append(log[n], model) /\ Append(log[n], model)[v] = log[n][v]
    BY PublishKeepsVersions DEF BoundInv
  <2>. HIDE DEF model
  <2>. QED BY <2>1, <2>2
<1>2. CASE \E n \in Names, cols \in Tables :
             \/ FitPca(n, cols)
             \/ \E label \in Labels : FitBoostedTree(n, cols, label)
  BY <1>1, <1>2 DEF FitPca, FitBoostedTree
<1>3. ASSUME NEW r \in Readers,
             \/ \E op, n, version, cols : Bind(r, op, n, version, cols)
             \/ Execute(r) \/ ExecuteNull(r) \/ ExplainPca(r)
             \/ StartListing(r) \/ ShowPage(r) \/ EndListing(r) \/ Rest(r)
      PROVE  log' = log
  BY <1>3, ReadersLeaveLog
<1>4. CASE log' = log
  BY <1>4
<1>5. UNCHANGED vars => log' = log
  BY DEF vars
<1>. QED BY <1>2, <1>3, <1>4, <1>5 DEF Next

\* A query was judged rightly when it was bound, and the log only grows.
LEMMA RefusedStep ==
    ASSUME \A cols \in Tables : IsSequence(cols), RefusedInv, [Next]_vars
    PROVE  RefusedInv'
<1>1. BoundInv'
  BY BoundStep DEF RefusedInv
<1>. SUFFICES ASSUME NEW r \in Readers, Found(query'[r])
              PROVE  query'[r].name \in Names /\ Judged(query'[r], log'[query'[r].name])
  BY <1>1 DEF RefusedInv
<1>2. CASE query'[r] = query[r]
  <2>1. query[r].name \in Names /\ Judged(query[r], log[query[r].name])
    BY <1>2 DEF RefusedInv
  <2>2. Judged(query[r], log'[query[r].name])
    BY <2>1, LogGrows DEF Judged, RefusedInv
  <2>. QED BY <1>2, <2>1, <2>2
<1>3. ASSUME NEW op \in {"predict", "evaluate", "explain"}, NEW n \in Names \union {NoName},
             NEW version \in -1..MaxModels, NEW cols \in Tables, Bind(r, op, n, version, cols)
      PROVE  query'[r].name \in Names /\ Judged(query'[r], log'[query'[r].name])
  <2>. DEFINE found == Resolved(n, version)
              model == log[n][found]
              exists == Exists(n, version)
              q == query'[r]
  <2>1. q = (IF exists /\ ~Missing(op, model, cols) THEN BindData(op, n, version, cols)
             ELSE Refusal(op, n, version, cols))
        /\ log' = log
    BY <1>3 DEF Bind, Accepts, RefusedInv, BoundInv
  <2>2. exists => n \in Names /\ found \in DOMAIN log[n]
    BY DEF Exists, Refuses
  <2>3. /\ q.op = op /\ q.name = n /\ q.asked = version
        /\ q.columns = cols /\ q.since = VersionsNow
        /\ q.status = "bound" => exists /\ ~Missing(op, model, cols)
        /\ q.status = "refused" => q.wasMissing = exists
        /\ q.status # "bound" => ~(exists /\ ~Missing(op, model, cols))
    <3>1. CASE exists /\ ~Missing(op, model, cols)
      BY <2>1, <3>1 DEF BindData
    <3>2. CASE ~(exists /\ ~Missing(op, model, cols))
      BY <2>1, <3>2 DEF Refusal
    <3>. QED BY <3>1, <3>2
  <2>. HIDE DEF exists, q
  <2>4. exists
    BY <2>3 DEF Found, q
  <2>5. VersionsNow[n] = Len(log[n])
    BY <2>2, <2>4 DEF VersionsNow
  <2>6. AskedVersion(q) = found
    BY <2>3, <2>5 DEF AskedVersion, Resolved
  <2>. HIDE DEF found
  <2>7. Missing(op, model, cols) <=> ~(Needed(op, model) \subseteq Words(cols))
    BY MissingLacksWord
  <2>8. q.status = "bound" <=> Needed(op, model) \subseteq Words(cols)
    BY <2>3, <2>4, <2>7
  <2>. QED BY <2>1, <2>2, <2>3, <2>4, <2>6, <2>8 DEF Judged, q
<1>. QED BY <1>2, <1>3, QueryStep DEF RefusedInv, Found

\* Of a model that exists, a table is refused exactly when it lacks a word that
\* the use of the version asked for needs, for tables that are sequences.
THEOREM RefusedOnlyWhenAlwaysMissing ==
    ASSUME \A cols \in Tables : IsSequence(cols)
    PROVE  Spec => []RefusedOnlyWhenMissing
<1>1. Init => RefusedInv
  <2>1. Init => \A r \in Readers : query[r].status = "none"
    BY DEF Init, NoQuery
  <2>. QED BY <2>1, BoundInit DEF RefusedInv, Found
<1>2. RefusedInv /\ [Next]_vars => RefusedInv'
  BY RefusedStep
<1>3. RefusedInv => RefusedOnlyWhenMissing
  <2>. SUFFICES ASSUME RefusedInv, NEW r \in Readers
                PROVE  LET q == query[r]
                           needed == Needed(q.op, log[q.name][AskedVersion(q)])
                       IN  /\ q.status = "refused" /\ q.wasMissing =>
                                ~(needed \subseteq Words(q.columns))
                           /\ Bound(r) => needed \subseteq Words(q.columns)
    BY DEF RefusedOnlyWhenMissing
  <2>1. Found(query[r]) => Judged(query[r], log[query[r].name])
    BY DEF RefusedInv
  <2>. QED BY <2>1 DEF Found, Judged, Bound
<1>. QED BY <1>1, <1>2, <1>3, PTL DEF Spec

-----------------------------------------------------------------------------
\* The quotient and the remainder of a place in a matrix are its row and column.
LEMMA DivModOfPlace ==
    ASSUME NEW q \in Nat, NEW n \in Nat \ {0}, NEW r \in 0..n-1
    PROVE  (q * n + r) \div n = q /\ (q * n + r) % n = r
BY SMT

\* Feature i of a row is at the place of the flat vector that MatrixRow reads.
LEMMA PlaceInChunk ==
    ASSUME NEW w \in Nat \ {0}, NEW row \in Nat \ {0}, NEW i \in 1..w
    PROVE  \E k \in Nat :
              /\ k = i + ((row - 1) * w + 1) - 1
              /\ ((k - 1) \div w) + 1 = row /\ ((k - 1) % w) + 1 = i
<1>. DEFINE k == i + ((row - 1) * w + 1) - 1
<1>0. k = i + ((row - 1) * w + 1) - 1
  OBVIOUS
<1>1. row - 1 \in Nat /\ i - 1 \in 0..w-1 /\ (row - 1) * w \in Nat
  OBVIOUS
<1>2. k - 1 = (row - 1) * w + (i - 1)
  BY <1>1
<1>3. (k - 1) \div w = row - 1 /\ (k - 1) % w = i - 1
  <2>1. /\ ((row - 1) * w + (i - 1)) \div w = row - 1
        /\ ((row - 1) * w + (i - 1)) % w = i - 1
    BY <1>1, DivModOfPlace
  <2>. HIDE DEF k
  <2>. QED BY <1>2, <2>1
<1>4. k \in Nat
  BY <1>1
<1>. HIDE DEF k
<1>5. /\ (k - 1) \div w \in Int /\ (k - 1) % w \in Int
      /\ ((k - 1) \div w) + 1 = row /\ ((k - 1) % w) + 1 = i
  BY <1>3, <1>1, <1>4
<1>. QED BY <1>4, <1>0, <1>5

\* SubSeq of a sequence that is given as a function.
LEMMA SubSeqOfFunction ==
    ASSUME NEW n \in Nat, NEW f, f = [k \in 1..n |-> f[k]],
           NEW a \in 1..n+1, NEW b \in 0..n, a <= b + 1
    PROVE  SubSeq(f, a, b) = [i \in 1..b-a+1 |-> f[i + a - 1]]
<1>. DEFINE S == {f[k] : k \in 1..n}
<1>1. \A k \in 1..n : f[k] \in S
  OBVIOUS
<1>. HIDE DEF S
<1>2. f \in Seq(S) /\ Len(f) = n
  BY <1>1
<1>. QED BY <1>2

\* Whatever columns a model was trained on, its features are a sequence of them
\* without the label's.
GoodModel(m) ==
    /\ IsSequence(m.features)
    /\ m.type # "pca" => Word(m.label) \notin Words(m.features)

\* Each index of a bound statement is that of a column with the feature's word.
GoodBinding(q) ==
    /\ q.op \in {"predict", "evaluate", "explain"}
    /\ GoodModel(q.model)
    /\ NeedsFeatures(q.op, q.model) =>
          /\ q.indices = [i \in DOMAIN q.model.features |-> q.indices[i]]
          /\ \A i \in DOMAIN q.model.features :
                Word(q.columns[q.indices[i]]) = Word(q.model.features[i])

\* The cells of the model's features in a row.
Cells(q, row) == [i \in DOMAIN q.model.features |-> <<row, Word(q.model.features[i])>>]

\* A bound statement has as many indices as its model has features.
LEMMA WidthOfModel ==
    ASSUME NEW q, GoodBinding(q), NeedsFeatures(q.op, q.model)
    PROVE  /\ Width(q) \in Nat
           /\ DOMAIN q.model.features = 1..Width(q)
           /\ DOMAIN q.indices = 1..Width(q)
           /\ Len(q.model.features) = Width(q)
<1>1. PICK S : q.model.features \in Seq(S)
  BY DEF GoodBinding, GoodModel, IsSequence
<1>2. Len(q.model.features) \in Nat /\ DOMAIN q.model.features = 1..Len(q.model.features)
  BY <1>1
<1>3. DOMAIN q.indices = 1..Len(q.model.features)
  BY <1>2 DEF GoodBinding
<1>. DEFINE T == {q.indices[i] : i \in 1..Len(q.model.features)}
<1>4. \A i \in 1..Len(q.model.features) : q.indices[i] \in T
  OBVIOUS
<1>5. q.indices = [i \in 1..Len(q.model.features) |-> q.indices[i]]
  BY <1>2 DEF GoodBinding
<1>. HIDE DEF T
<1>6. q.indices \in Seq(T) /\ Len(q.indices) = Len(q.model.features)
  <2>1. q.indices \in [1..Len(q.model.features) -> T]
    BY <1>4, <1>5
  <2>. QED BY <1>2, <2>1
<1>. QED BY <1>2, <1>3, <1>6 DEF Width

\* A row of the matrix is the cells of that row, feature by feature.
LEMMA RowIsCells ==
    ASSUME NEW q, GoodBinding(q), NeedsFeatures(q.op, q.model), NEW row \in 1..ChunkRows
    PROVE  MatrixRow(q, row) = Cells(q, row)
<1>. DEFINE w == Width(q)
            f == Features(q)
<1>1. /\ w \in Nat /\ DOMAIN q.model.features = 1..w /\ DOMAIN q.indices = 1..w
  BY WidthOfModel
<1>2. /\ ChunkRows * w \in Nat /\ (row - 1) * w \in Nat
      /\ row * w = (row - 1) * w + w /\ row * w <= ChunkRows * w
  BY <1>1, ChunkRowsAssumption
<1>3. f = [k \in 1..ChunkRows * w |-> f[k]]
  BY DEF Features
<1>4. MatrixRow(q, row) = [i \in 1..w |-> f[i + ((row - 1) * w + 1) - 1]]
  <2>1. MatrixRow(q, row) = SubSeq(f, (row - 1) * w + 1, row * w)
    BY DEF MatrixRow
  <2>. DEFINE n == ChunkRows * w
              a == (row - 1) * w + 1
              b == row * w
  <2>2. n \in Nat /\ a \in 1..n+1 /\ b \in 0..n /\ a <= b + 1 /\ b - a + 1 = w
    <3>1. row * w \in Nat /\ w \in Nat
      BY <1>1, <1>2
    <3>. HIDE DEF w
    <3>. QED BY <1>2, <3>1
  <2>4. f = [k \in 1..n |-> f[k]]
    BY <1>3
  <2>. HIDE DEF n, a, b, f, w
  <2>3. SubSeq(f, a, b) = [i \in 1..b-a+1 |-> f[i + a - 1]]
    BY <2>2, <2>4, SubSeqOfFunction, SMTT(30)
  <2>. QED BY <2>1, <2>2, <2>3 DEF a, b
<1>5. ASSUME NEW i \in 1..w
      PROVE  f[i + ((row - 1) * w + 1) - 1] = <<row, Word(q.model.features[i])>>
  <2>1. w \in Nat \ {0} /\ row \in Nat \ {0} /\ (row - 1) * w \in Nat
    BY <1>1, <1>2, ChunkRowsAssumption
  <2>2. PICK k \in Nat : /\ k = i + ((row - 1) * w + 1) - 1
                         /\ ((k - 1) \div w) + 1 = row /\ ((k - 1) % w) + 1 = i
    <3>. HIDE DEF w
    <3>. QED BY <2>1, PlaceInChunk
  <2>5. k \in 1..ChunkRows * w
    <3>. HIDE DEF w
    <3>. QED BY <1>2, <2>1, <2>2, ChunkRowsAssumption
  <2>3. Place(q, k) = <<row, q.indices[i]>>
    BY <2>2 DEF Place
  <2>4. f[k] = <<row, Word(q.columns[q.indices[i]])>>
    BY <2>3, <2>5 DEF Features
  <2>. QED BY <1>1, <2>2, <2>4 DEF GoodBinding
<1>. QED BY <1>1, <1>4, <1>5 DEF Cells

\* The place of a row's value among the contributions: w of them and a baseline.
LEMMA PlaceInRow ==
    ASSUME NEW w \in Nat, NEW row \in 1..ChunkRows, NEW i \in 1..w+1
    PROVE  LET k == (row - 1) * (w + 1) + i
           IN  ((k - 1) \div (w + 1)) + 1 = row /\ ((k - 1) % (w + 1)) + 1 = i
<1>. DEFINE k == (row - 1) * (w + 1) + i
            n == w + 1
<1>1. n \in Nat \ {0} /\ row - 1 \in Nat /\ i - 1 \in 0..n-1
  BY ChunkRowsAssumption
<1>2. k - 1 = (row - 1) * n + (i - 1)
  BY <1>1
<1>3. /\ ((row - 1) * n + (i - 1)) \div n = row - 1
      /\ ((row - 1) * n + (i - 1)) % n = i - 1
  <2>. HIDE DEF n
  <2>. QED BY <1>1, DivModOfPlace
<1>4. (k - 1) \div n = row - 1 /\ (k - 1) % n = i - 1
  <2>. HIDE DEF k, n
  <2>. QED BY <1>2, <1>3
<1>5. row \in Int /\ i \in Int
  BY ChunkRowsAssumption
<1>. QED
  <2>. HIDE DEF k
  <2>1. ((k - 1) \div n) + 1 = row /\ ((k - 1) % n) + 1 = i
    BY <1>1, <1>4, <1>5
  <2>. QED BY <2>1 DEF k

\* What ml_explain puts in a row is of that row, under the feature's name.
LEMMA ExplainedIsOfRow ==
    ASSUME NEW q, GoodBinding(q), NeedsFeatures(q.op, q.model), q.op = "explain",
           NEW row \in 1..ChunkRows, NEW col \in DOMAIN Schema(q)
    PROVE  LET out == ExplainedAt(q, col, row)
           IN  /\ out[2] = Cells(q, row)
               /\ IF col = 1 THEN out[1] = "baseline"
                  ELSE CIEquals(Schema(q)[col], q.model.features[out[3]])
<1>. DEFINE w == Width(q)
            i == IF col = 1 THEN w + 1 ELSE col - 1
            k == (row - 1) * (w + 1) + i
<1>1. w \in Nat /\ Len(q.model.features) = w /\ DOMAIN q.model.features = 1..w
  BY WidthOfModel
<1>2. PICK S : q.model.features \in Seq(S)
  BY DEF GoodBinding, GoodModel, IsSequence
<1>3. Schema(q) = <<"baseline_prediction_value">> \o q.model.features
  BY DEF Schema
<1>4. col \in 1..w+1 /\ (col # 1 => Schema(q)[col] = q.model.features[col - 1])
  <2>. DEFINE T == S \union {"baseline_prediction_value"}
  <2>1. q.model.features \in Seq(T) /\ <<"baseline_prediction_value">> \in Seq(T)
    BY <1>2
  <2>. HIDE DEF T, w
  <2>. QED BY <1>1, <1>3, <2>1
<1>5. i \in 1..w+1
  BY <1>1, <1>4
<1>6. ((k - 1) \div (w + 1)) + 1 = row /\ ((k - 1) % (w + 1)) + 1 = i
  <2>. HIDE DEF w, i
  <2>. QED BY <1>1, <1>5, PlaceInRow
<1>7. ExplainedAt(q, col, row) = Contribution(q, k)
  BY DEF ExplainedAt
<1>8. Contribution(q, k) =
         IF i > w THEN <<"baseline", MatrixRow(q, row)>>
         ELSE <<"attribution", MatrixRow(q, row), i>>
  <2>. HIDE DEF k, i
  <2>. QED BY <1>6 DEF Contribution
<1>9. MatrixRow(q, row) = Cells(q, row)
  BY RowIsCells
<1>10. CASE col = 1
  <2>1. ExplainedAt(q, col, row) = <<"baseline", Cells(q, row)>>
    <3>. HIDE DEF k
    <3>. QED BY <1>1, <1>7, <1>8, <1>9, <1>10
  <2>. QED BY <1>10, <2>1
<1>11. CASE col # 1
  <2>1. i = col - 1 /\ ~(i > w)
    BY <1>1, <1>4, <1>11
  <2>2. ExplainedAt(q, col, row) = <<"attribution", Cells(q, row), col - 1>>
    <3>. HIDE DEF k, i, w
    <3>. QED BY <1>7, <1>8, <1>9, <2>1
  <2>. QED BY <1>4, <1>11, <2>2 DEF CIEquals
<1>. QED BY <1>10, <1>11

\* What OutputsAreOfTheirRows says of an answer.
AnswerOk(q, a) ==
    /\ \A row \in 1..ChunkRows : a.given[row] = Cells(q, row)
    /\ \A col \in DOMAIN a.output, row \in 1..ChunkRows :
          /\ a.output[col][row][2] = Cells(q, row)
          /\ q.op = "explain" =>
                IF col = 1 THEN a.output[col][row][1] = "baseline"
                ELSE CIEquals(Schema(q)[col], q.model.features[a.output[col][row][3]])
    /\ q.model.type # "pca" => Word(q.model.label) \notin Words(q.model.features)

\* So a chunk's answer is right for any good binding.
LEMMA AnswerIsOfItsRows ==
    ASSUME NEW q, GoodBinding(q), NeedsFeatures(q.op, q.model)
    PROVE  AnswerOk(q, ChunkAnswer(q))
<1>1. \A row \in 1..ChunkRows : ChunkAnswer(q).given[row] = Cells(q, row)
  BY RowIsCells DEF ChunkAnswer
<1>2. DOMAIN ChunkAnswer(q).output = DOMAIN Schema(q)
  BY DEF ChunkAnswer
<1>3. ASSUME NEW col \in DOMAIN Schema(q), NEW row \in 1..ChunkRows
      PROVE  LET out == OutputAt(q, col, row)
             IN  /\ out[2] = Cells(q, row)
                 /\ q.op = "explain" =>
                       IF col = 1 THEN out[1] = "baseline"
                       ELSE CIEquals(Schema(q)[col], q.model.features[out[3]])
  <2>1. MatrixRow(q, row) = Cells(q, row)
    BY RowIsCells
  <2>2. CASE q.op = "explain"
    <3>1. OutputAt(q, col, row) = ExplainedAt(q, col, row)
      BY <2>2 DEF OutputAt
    <3>. QED BY <2>2, <3>1, ExplainedIsOfRow
  <2>3. CASE q.op = "predict"
    <3>1. q.op # "explain"
      BY <2>3
    <3>2. CASE q.model.type = "pca"
      <4>1. OutputAt(q, col, row) = <<"component", MatrixRow(q, row), col>>
        BY <2>3, <3>2 DEF OutputAt
      <4>. QED BY <2>1, <3>1, <4>1
    <3>3. CASE q.model.type # "pca"
      <4>1. OutputAt(q, col, row) = <<"prediction", MatrixRow(q, row)>>
        BY <2>3, <3>3 DEF OutputAt
      <4>. QED BY <2>1, <3>1, <4>1
    <3>. QED BY <3>2, <3>3
  <2>4. CASE q.op = "evaluate"
    <3>1. Schema(q) = << >>
      BY <2>4 DEF Schema
    <3>. QED BY <3>1
  <2>. QED BY <2>2, <2>3, <2>4 DEF GoodBinding
<1>4. \A col \in DOMAIN Schema(q), row \in 1..ChunkRows :
         ChunkAnswer(q).output[col][row] = OutputAt(q, col, row)
  BY DEF ChunkAnswer
<1>5. q.model.type # "pca" => Word(q.model.label) \notin Words(q.model.features)
  BY DEF GoodBinding, GoodModel
<1>. HIDE DEF ChunkAnswer
<1>. QED BY <1>1, <1>2, <1>3, <1>4, <1>5 DEF AnswerOk

\* The words of a table are distinct.
DistinctWords(cols) ==
    \A i, j \in DOMAIN cols : CIEquals(cols[i], cols[j]) => i = j

\* Of distinct words, those beside the label's are others.
LEMMA LabelIsNoFeature ==
    ASSUME NEW cols, IsSequence(cols), DistinctWords(cols), NEW label, IndexOf(cols, label) # 0
    PROVE  LET features == FeaturesBeside(cols, label)
           IN  IsSequence(features) /\ Word(label) \notin Words(features)
<1>. DEFINE at == IndexOf(cols, label)
            before == SubSeq(cols, 1, at - 1)
            after == SubSeq(cols, at + 1, Len(cols))
<1>1. PICK S : cols \in Seq(S)
  BY DEF IsSequence
<1>2. at \in 1..Len(cols) /\ Word(cols[at]) = Word(label)
  <2>1. DOMAIN cols = 1..Len(cols)
    BY <1>1
  <2>. QED BY <2>1, IndexOfWord
<1>3. FeaturesBeside(cols, label) = before \o after
  BY DEF FeaturesBeside, RemoveAt
<1>. HIDE DEF at
<1>4. /\ before \in Seq(S) /\ Len(before) = at - 1
      /\ \A i \in 1..at-1 : before[i] = cols[i]
  BY <1>1, <1>2
<1>5. /\ after \in Seq(S) /\ Len(after) = Len(cols) - at
      /\ \A i \in 1..Len(cols)-at : after[i] = cols[i + at]
  BY <1>1, <1>2
<1>6. \A i \in DOMAIN cols \ {at} : Word(cols[i]) # Word(label)
  BY <1>1, <1>2 DEF DistinctWords, CIEquals
<1>. HIDE DEF before, after
<1>7. before \o after \in Seq(S)
  BY <1>4, <1>5
<1>8. ASSUME NEW i \in DOMAIN (before \o after)
      PROVE  \E j \in DOMAIN cols \ {at} : (before \o after)[i] = cols[j]
  <2>1. i \in 1..(at - 1) + (Len(cols) - at)
    BY <1>2, <1>4, <1>5
  <2>2. CASE i <= at - 1
    <3>1. (before \o after)[i] = before[i] /\ i \in 1..at-1
      BY <1>2, <1>4, <1>5, <2>1, <2>2
    <3>. QED BY <1>1, <1>2, <1>4, <3>1
  <2>3. CASE ~(i <= at - 1)
    <3>1. (before \o after)[i] = after[i - (at - 1)] /\ i - (at - 1) \in 1..Len(cols)-at
      <4>1. at \in Nat \ {0} /\ Len(cols) \in Nat /\ i \in Nat
        BY <1>1, <1>2, <2>1
      <4>2. i - (at - 1) \in 1..Len(cols)-at
        BY <2>1, <2>3, <4>1
      <4>3. (before \o after)[i] = after[i - Len(before)]
        BY <1>4, <1>5, <2>1, <2>3, <4>1, SMTT(30)
      <4>. QED BY <1>4, <4>2, <4>3
    <3>2. (before \o after)[i] = cols[i + 1] /\ i + 1 \in DOMAIN cols \ {at}
      <4>1. (i - (at - 1)) + at = i + 1
        BY <1>2, <2>1
      <4>2. after[i - (at - 1)] = cols[(i - (at - 1)) + at]
        BY <1>5, <3>1
      <4>3. i + 1 \in 1..Len(cols) /\ i + 1 # at /\ DOMAIN cols = 1..Len(cols)
        BY <1>1, <1>2, <2>1, <2>3
      <4>. QED BY <3>1, <4>1, <4>2, <4>3
    <3>. QED BY <3>2
  <2>. QED BY <2>2, <2>3
<1>9. Word(label) \notin Words(before \o after)
  BY <1>6, <1>8 DEF Words
<1>. QED BY <1>3, <1>7, <1>9 DEF IsSequence

\* Every model in the log is good, and so is a bound statement's binding.
OutputsInv ==
    /\ AnswerInv
    /\ \A n \in Names : \A v \in DOMAIN log[n] : GoodModel(log[n][v])
    /\ \A r \in Readers : Bound(r) => GoodBinding(query[r])

\* What DuckDB's tables are.
GoodTables == \A cols \in Tables : IsSequence(cols) /\ DistinctWords(cols)

\* A fit publishes a good model.
LEMMA FittedModelsAreGood ==
    ASSUME GoodTables, OutputsInv, [Next]_vars
    PROVE  \A n \in Names : \A v \in DOMAIN log'[n] : GoodModel(log'[n][v])
<1>1. ASSUME NEW n \in Names, NEW type, NEW features, NEW label,
             IsSequence(features),
             type # "pca" => Word(label) \notin Words(features),
             Fit(n, type, features, label)
      PROVE  \A m \in Names : \A v \in DOMAIN log'[m] : GoodModel(log'[m][v])
  <2>. DEFINE model == [type |-> type, features |-> features, label |-> label,
                        weights |-> <<n, Len(log[n]) + 1>>]
  <2>0. GoodModel(model)
    BY <1>1 DEF GoodModel
  <2>1. \A m \in Names : log'[m] = IF m = n THEN Append(log[n], model) ELSE log[m]
    BY <1>1 DEF OutputsInv, AnswerInv, BoundInv, Fit
  <2>. HIDE DEF model
  <2>2. ASSUME NEW v \in DOMAIN Append(log[n], model)
        PROVE  GoodModel(Append(log[n], model)[v])
    <3>1. PICK S : log[n] \in Seq(S)
      BY DEF OutputsInv, AnswerInv, BoundInv, IsSequence
    <3>. DEFINE T == S \union {model}
    <3>2. log[n] \in Seq(T) /\ model \in T
      BY <3>1
    <3>. HIDE DEF T
    <3>3. /\ Append(log[n], model) \in Seq(T) /\ Len(Append(log[n], model)) = Len(log[n]) + 1
          /\ Append(log[n], model)[Len(log[n]) + 1] = model
          /\ \A u \in 1..Len(log[n]) : Append(log[n], model)[u] = log[n][u]
      BY <3>2
    <3>4. v \in 1..Len(log[n]) \/ v = Len(log[n]) + 1
      BY <3>2, <3>3
    <3>. QED BY <2>0, <3>2, <3>3, <3>4 DEF OutputsInv
  <2>. QED BY <2>1, <2>2 DEF OutputsInv
<1>2. ASSUME NEW n \in Names, NEW cols \in Tables, FitPca(n, cols)
      PROVE  \A m \in Names : \A v \in DOMAIN log'[m] : GoodModel(log'[m][v])
  <2>1. IsSequence(cols)
    BY DEF GoodTables
  <2>. QED BY <1>1, <1>2, <2>1 DEF FitPca
<1>3. ASSUME NEW n \in Names, NEW cols \in Tables, NEW label \in Labels,
             FitBoostedTree(n, cols, label)
      PROVE  \A m \in Names : \A v \in DOMAIN log'[m] : GoodModel(log'[m][v])
  <2>1. IndexOf(cols, label) # 0
    BY <1>3 DEF FitBoostedTree
  <2>2. LET features == FeaturesBeside(cols, label)
        IN  IsSequence(features) /\ Word(label) \notin Words(features)
    BY <2>1, LabelIsNoFeature DEF GoodTables
  <2>. QED BY <1>1, <1>3, <2>2 DEF FitBoostedTree
<1>4. ASSUME NEW r \in Readers,
             \/ \E op, n, version, cols : Bind(r, op, n, version, cols)
             \/ Execute(r) \/ ExecuteNull(r) \/ ExplainPca(r)
             \/ StartListing(r) \/ ShowPage(r) \/ EndListing(r) \/ Rest(r)
      PROVE  log' = log
  BY <1>4, ReadersLeaveLog
<1>5. CASE log' = log
  BY <1>5 DEF OutputsInv
<1>6. UNCHANGED vars => log' = log
  BY DEF vars
<1>. QED BY <1>2, <1>3, <1>4, <1>5, <1>6 DEF Next

\* A statement that finds all the words it needs is bound to their columns.
LEMMA BoundIsGood ==
    ASSUME GoodTables, OutputsInv, NEW r \in Readers,
           NEW op \in {"predict", "evaluate", "explain"}, NEW n \in Names \union {NoName},
           NEW version, NEW cols \in Tables, Bind(r, op, n, version, cols),
           query'[r].status = "bound"
    PROVE  GoodBinding(query'[r])
<1>. DEFINE found == Resolved(n, version)
            exists == Exists(n, version)
            model == log[n][found]
            bound == BindData(op, n, version, cols)
            refused == Refusal(op, n, version, cols)
<1>1. query'[r] = IF exists /\ ~Missing(op, model, cols) THEN bound ELSE refused
  BY DEF Bind, Accepts, OutputsInv, AnswerInv, BoundInv
<1>2. refused.status # "bound"
  BY DEF Refusal
<1>3. /\ bound.op = op /\ bound.model = model /\ bound.columns = cols
      /\ NeedsFeatures(op, model) => bound.indices = FeatureIndices(model, cols)
  BY DEF BindData
<1>4. exists => n \in Names /\ found \in DOMAIN log[n]
  BY DEF Exists, Refuses
<1>. HIDE DEF bound, refused, exists, found
<1>5. query'[r] = bound /\ exists /\ ~Missing(op, model, cols)
  BY <1>1, <1>2
<1>6. GoodModel(model)
  BY <1>4, <1>5 DEF OutputsInv
<1>. HIDE DEF model
<1>7. ASSUME NeedsFeatures(op, model)
      PROVE  /\ bound.indices = [i \in DOMAIN model.features |-> bound.indices[i]]
             /\ \A i \in DOMAIN model.features :
                   Word(cols[bound.indices[i]]) = Word(model.features[i])
  <2>1. \A i \in DOMAIN model.features : IndexOf(cols, model.features[i]) # 0
    BY <1>5, <1>7 DEF Missing, FeatureIndices
  <2>2. \A i \in DOMAIN model.features :
           Word(cols[IndexOf(cols, model.features[i])]) = Word(model.features[i])
    BY <2>1, IndexOfWord DEF GoodTables
  <2>. QED BY <1>3, <1>7, <2>2 DEF FeatureIndices
<1>. QED BY <1>3, <1>5, <1>6, <1>7 DEF GoodBinding

\* Every step keeps the invariant.
LEMMA OutputsStep ==
    ASSUME GoodTables, OutputsInv, [Next]_vars
    PROVE  OutputsInv'
<1>1. AnswerInv'
  BY AnswerInvStep DEF OutputsInv
<1>2. \A n \in Names : \A v \in DOMAIN log'[n] : GoodModel(log'[n][v])
  BY FittedModelsAreGood
<1>3. ASSUME NEW r \in Readers, query'[r].status = "bound"
      PROVE  GoodBinding(query'[r])
  <2>1. CASE query'[r] = query[r]
    BY <1>3, <2>1 DEF OutputsInv, Bound
  <2>2. CASE \E op \in {"predict", "evaluate", "explain"}, n \in Names \union {NoName},
                version \in -1..MaxModels, cols \in Tables : Bind(r, op, n, version, cols)
    BY <1>3, <2>2, BoundIsGood
  <2>. QED BY <1>3, <2>1, <2>2, QueryStep DEF OutputsInv, AnswerInv
<1>. QED BY <1>1, <1>2, <1>3 DEF OutputsInv, Bound

\* A model is fed the cells of its features, in their row and under their words,
\* never its label, and what comes out in a row is of that row; for tables that
\* are sequences of columns with distinct words.
THEOREM OutputsAreAlwaysOfTheirRows ==
    ASSUME GoodTables
    PROVE  Spec => []OutputsAreOfTheirRows
<1>1. Init => OutputsInv
  <2>. SUFFICES ASSUME Init PROVE OutputsInv
    OBVIOUS
  <2>1. AnswerInv
    BY AnswerInit
  <2>2. \A r \in Readers : ~Bound(r)
    BY DEF Init, Bound, NoQuery
  <2>3. \A n \in Names : DOMAIN log[n] = {}
    BY DEF Init
  <2>. QED BY <2>1, <2>2, <2>3 DEF OutputsInv
<1>2. OutputsInv /\ [Next]_vars => OutputsInv'
  BY OutputsStep
<1>3. OutputsInv => OutputsAreOfTheirRows
  <2>. SUFFICES ASSUME OutputsInv, NEW r \in Readers, Bound(r), answer[r] # <<>>
                PROVE  AnswerOk(query[r], answer[r])
    BY DEF OutputsAreOfTheirRows, AnswerOk, Cells
  <2>1. /\ GoodBinding(query[r]) /\ NeedsFeatures(query[r].op, query[r].model)
        /\ answer[r] = ChunkAnswer(query[r])
    BY DEF OutputsInv, AnswerInv
  <2>. QED BY <2>1, AnswerIsOfItsRows
<1>. QED BY <1>1, <1>2, <1>3, PTL DEF Spec

-----------------------------------------------------------------------------
\* A sequence that lists its rows in order.
IsInOrder(rows) == \A i, j \in DOMAIN rows : i < j => Before(rows[i], rows[j])

\* Names and versions are ordered totally.
LEMMA OrderIsTotal ==
    ASSUME NEW a \in Nat \X Nat, NEW b \in Nat \X Nat
    PROVE  /\ ~Before(a, a)
           /\ a # b => Before(a, b) \/ Before(b, a)
           /\ \A c \in Nat \X Nat : Before(a, b) /\ Before(b, c) => Before(a, c)
BY DEF Before

\* A finite set can be listed in order: every element at the place that the
\* number of those before it gives.
LEMMA InOrderExists ==
    ASSUME NEW S, IsFiniteSet(S), S \subseteq Nat \X Nat
    PROVE  \E rows \in [1..Cardinality(S) -> S] : IsInOrder(rows)
<1>. DEFINE m == Cardinality(S)
            Below(x) == {y \in S : Before(y, x)}
            rank == [x \in S |-> Cardinality(Below(x)) + 1]
<1>1. m \in Nat /\ IsFiniteSet(1..m) /\ Cardinality(1..m) = m
  BY FS_CardinalityType, FS_Interval
<1>2. ASSUME NEW x \in S
      PROVE  IsFiniteSet(Below(x)) /\ Cardinality(Below(x)) \in Nat /\ rank[x] \in 1..m
  <2>1. Below(x) \in SUBSET S /\ x \notin Below(x)
    BY OrderIsTotal
  <2>2. /\ IsFiniteSet(Below(x)) /\ Cardinality(Below(x)) <= m
        /\ m = Cardinality(Below(x)) => S = Below(x)
    BY <2>1, FS_Subset
  <2>3. Cardinality(Below(x)) \in Nat
    BY <2>2, FS_CardinalityType
  <2>4. Cardinality(Below(x)) # m
    BY <2>1, <2>2
  <2>5. Cardinality(Below(x)) + 1 \in 1..m
    <3>. HIDE DEF Below, m
    <3>. QED BY <1>1, <2>2, <2>3, <2>4
  <2>. QED BY <2>2, <2>3, <2>5
<1>3. ASSUME NEW x \in S, NEW y \in S, Before(x, y)
      PROVE  rank[x] < rank[y]
  <2>1. Below(x) \in SUBSET Below(y) /\ x \in Below(y) /\ x \notin Below(x)
    BY <1>3, OrderIsTotal
  <2>2. /\ Cardinality(Below(x)) <= Cardinality(Below(y))
        /\ Cardinality(Below(x)) # Cardinality(Below(y))
    <3>1. IsFiniteSet(Below(y))
      BY <1>2
    <3>. HIDE DEF Below
    <3>. QED BY <2>1, <3>1, FS_Subset
  <2>3. Cardinality(Below(x)) \in Nat /\ Cardinality(Below(y)) \in Nat
    BY <1>2
  <2>. HIDE DEF Below
  <2>. QED BY <2>2, <2>3
<1>4. rank \in Injection(S, 1..m)
  <2>1. rank \in [S -> 1..m]
    BY <1>2
  <2>2. ASSUME NEW x \in S, NEW y \in S, rank[x] = rank[y]
        PROVE  x = y
    <3>1. rank[x] \in Nat
      <4>1. rank[x] \in 1..m
        BY <1>2
      <4>. HIDE DEF rank, m
      <4>. QED BY <1>1, <4>1
    <3>2. ~Before(x, y) /\ ~Before(y, x)
      <4>. HIDE DEF rank
      <4>. QED BY <1>3, <2>2, <3>1
    <3>. QED BY <3>2, OrderIsTotal
  <2>. HIDE DEF rank, m
  <2>. QED BY <2>1, <2>2 DEF Injection, IsInjective
<1>5. rank \in Surjection(S, 1..m)
  <2>. HIDE DEF rank
  <2>. QED BY <1>1, <1>4, FS_Injection
<1>6. \A i \in 1..m : \E x \in S : rank[x] = i
  <2>. HIDE DEF rank, m
  <2>. QED BY <1>5 DEF Surjection
<1>. DEFINE rows == [i \in 1..m |-> CHOOSE x \in S : rank[x] = i]
<1>7. \A i \in 1..m : rows[i] \in S /\ rank[rows[i]] = i
  <2>. HIDE DEF rank, m
  <2>. QED BY <1>6
<1>8. rows \in [1..m -> S]
  <2>. HIDE DEF rank, m
  <2>. QED BY <1>7
<1>9. IsInOrder(rows)
  <2>. HIDE DEF rank, rows
  <2>1. SUFFICES ASSUME NEW i \in 1..m, NEW j \in 1..m, i < j
                 PROVE  Before(rows[i], rows[j])
    BY <1>8 DEF IsInOrder
  <2>2. rows[i] # rows[j]
    BY <1>1, <1>7, <2>1
  <2>3. ~Before(rows[j], rows[i])
    <3>1. Before(rows[j], rows[i]) => rank[rows[j]] < rank[rows[i]]
      BY <1>3, <1>7
    <3>. QED BY <1>1, <1>7, <2>1, <3>1
  <2>. QED BY <1>7, <2>2, <2>3, OrderIsTotal
<1>. QED BY <1>8, <1>9

\* What InOrder chooses lists the whole set.
LEMMA InOrderListsAll ==
    ASSUME NEW S, IsFiniteSet(S), S \subseteq Nat \X Nat
    PROVE  /\ InOrder(S) \in Seq(S) /\ IsInOrder(InOrder(S)) /\ ToSet(InOrder(S)) = S
<1>. DEFINE m == Cardinality(S)
            rows == InOrder(S)
<1>1. m \in Nat /\ IsFiniteSet(1..m) /\ Cardinality(1..m) = m
  BY FS_CardinalityType, FS_Interval
<1>2. rows \in [1..m -> S] /\ IsInOrder(rows)
  BY InOrderExists DEF InOrder, IsInOrder
<1>. HIDE DEF rows, m
<1>3. rows \in Injection(1..m, S)
  <2>1. ASSUME NEW i \in 1..m, NEW j \in 1..m, rows[i] = rows[j]
        PROVE  i = j
    <3>1. ~Before(rows[i], rows[j]) /\ ~Before(rows[j], rows[i])
      BY <1>2, <2>1, OrderIsTotal
    <3>. QED BY <1>1, <1>2, <3>1 DEF IsInOrder
  <2>. QED BY <1>2, <2>1 DEF Injection, IsInjective
<1>4. rows \in Surjection(1..m, S)
  BY <1>1, <1>3, FS_Injection DEF m
<1>5. rows \in Seq(S)
  BY <1>1, <1>2
<1>6. ToSet(rows) = S
  BY <1>2, <1>4 DEF Surjection, ToSet
<1>. QED BY <1>2, <1>5, <1>6 DEF rows

\* The rows of the models that were stored when a listing started.
Listed(since) == UNION {{<<n, v>> : v \in 1..since[n]} : n \in Names}

\* What a listing has shown is the beginning of its copy of the registry.
PageOk(p) ==
    /\ p = [rows |-> p.rows, offset |-> p.offset, shown |-> p.shown, since |-> p.since]
    /\ p.rows \in Seq(Nat \X Nat) /\ IsInOrder(p.rows)
    /\ ToSet(p.rows) = Listed(p.since)
    /\ p.offset \in 0..Len(p.rows)
    /\ p.shown = SubSeq(p.rows, 1, p.offset)

\* A listing has shown part of its snapshot, and all of it at its end.
PagesInv ==
    /\ BoundInv
    /\ page = [r \in Readers |-> page[r]]
    /\ \A r \in Readers :
          /\ PageOk(page[r])
          /\ query[r].status = "listed" => page[r].offset = Len(page[r].rows)

\* A reader without a listing has an empty page.
LEMMA NoPageOk == PageOk(NoPage)
<1>. DEFINE since == [n \in Names |-> 0]
<1>1. NoPage = [rows |-> <<>>, offset |-> 0, shown |-> <<>>, since |-> since]
  BY DEF NoPage
<1>2. <<>> \in Seq(Nat \X Nat) /\ Len(<<>>) = 0 /\ DOMAIN <<>> = {} /\ SubSeq(<<>>, 1, 0) = <<>>
  OBVIOUS
<1>3. ToSet(<<>>) = {}
  BY <1>2 DEF ToSet
<1>4. Listed(since) = {}
  BY DEF Listed
<1>. HIDE DEF since
<1>5. IsInOrder(<<>>)
  BY <1>2 DEF IsInOrder
<1>6. 0 \in 0..Len(<<>>)
  BY <1>2
<1>. QED BY <1>1, <1>2, <1>3, <1>4, <1>5, <1>6 DEF PageOk

\* A listing starts with every model of the log, in order.
LEMMA ListingStarts ==
    ASSUME IsFiniteSet(Names), PagesInv, NEW r \in Readers, StartListing(r)
    PROVE  PageOk(page'[r])
<1>. DEFINE since == [n \in Names |-> Len(log[n])]
            rows == InOrder(Rows)
            p == [rows |-> rows, offset |-> 0, shown |-> <<>>, since |-> since]
<1>1. page'[r] = p
  BY DEF StartListing, VersionsNow, PagesInv
<1>2. \A n \in Names : Len(log[n]) \in Nat /\ DOMAIN log[n] = 1..Len(log[n])
  BY DEF PagesInv, BoundInv, IsSequence
<1>3. Rows = Listed(since)
  BY <1>2 DEF Rows, Listed
<1>4. Rows \subseteq Nat \X Nat
  BY <1>2, NamesAssumption DEF Rows
<1>5. IsFiniteSet(Rows)
  <2>. DEFINE RowsOf(n) == {<<n, v>> : v \in DOMAIN log[n]}
              all == {RowsOf(n) : n \in Names}
              f == [n \in Names |-> RowsOf(n)]
  <2>1. f \in Surjection(Names, all)
    BY DEF Surjection
  <2>2. IsFiniteSet(all)
    <3>. HIDE DEF f, all
    <3>. QED BY <2>1, FS_Surjection
  <2>3. ASSUME NEW n \in Names
        PROVE  IsFiniteSet(RowsOf(n))
    <3>. DEFINE g == [v \in DOMAIN log[n] |-> <<n, v>>]
    <3>1. g \in Surjection(DOMAIN log[n], RowsOf(n))
      BY DEF Surjection
    <3>2. IsFiniteSet(DOMAIN log[n])
      BY <1>2, FS_Interval
    <3>. HIDE DEF g, RowsOf
    <3>. QED BY <3>1, <3>2, FS_Surjection
  <2>4. \A T \in all : IsFiniteSet(T)
    BY <2>3
  <2>5. Rows = UNION all
    BY DEF Rows
  <2>. HIDE DEF all
  <2>. QED BY <2>2, <2>4, <2>5, FS_UNION
<1>6. rows \in Seq(Rows) /\ IsInOrder(rows) /\ ToSet(rows) = Rows
  BY <1>4, <1>5, InOrderListsAll
<1>. HIDE DEF since, rows
<1>7. rows \in Seq(Nat \X Nat) /\ Len(rows) \in Nat /\ SubSeq(rows, 1, 0) = <<>>
  BY <1>4, <1>6
<1>8. 0 \in 0..Len(rows)
  BY <1>7
<1>9. p.rows = rows /\ p.offset = 0 /\ p.shown = <<>> /\ p.since = since
  OBVIOUS
<1>10. p = [rows |-> p.rows, offset |-> p.offset, shown |-> p.shown, since |-> p.since]
  OBVIOUS
<1>. HIDE DEF p
<1>. QED BY <1>1, <1>3, <1>6, <1>7, <1>8, <1>9, <1>10 DEF PageOk

\* A page takes up where the last one ended.
LEMMA PageFollows ==
    ASSUME PagesInv, NEW r \in Readers, ShowPage(r)
    PROVE  PageOk(page'[r])
<1>. DEFINE rows == page[r].rows
            offset == page[r].offset
            shown == page[r].shown
            since == page[r].since
            p == [rows |-> rows, offset |-> offset, shown |-> shown, since |-> since]
            next == offset + PageCount(r)
            last == [rows |-> rows, offset |-> next,
                     shown |-> shown \o SubSeq(rows, offset + 1, next), since |-> since]
<1>1. page[r] = p /\ page = [s \in Readers |-> page[s]]
  BY DEF PagesInv, PageOk
<1>2. page'[r] = last
  <2>1. page'[r] = [page[r] EXCEPT !.shown = @ \o SubSeq(page[r].rows, page[r].offset + 1,
                                                        page[r].offset + PageCount(r)),
                                   !.offset = NextOffset(r)]
    BY <1>1, Zenon DEF ShowPage
  <2>2. page'[r] = [p EXCEPT !.shown = p.shown \o SubSeq(p.rows, p.offset + 1,
                                                        p.offset + PageCount(r)),
                             !.offset = NextOffset(r)]
    <3>. HIDE DEF p
    <3>. QED BY <1>1, <2>1, Zenon
  <2>3. NextOffset(r) = next
    BY DEF NextOffset
  <2>. HIDE DEF rows, offset, shown, since, next
  <2>4. page'[r] = [p EXCEPT !.shown = p.shown \o SubSeq(p.rows, p.offset + 1,
                                                        p.offset + PageCount(r)),
                             !.offset = next]
    BY <2>2, <2>3
  <2>. QED BY <2>4 DEF next
<1>3. /\ rows \in Seq(Nat \X Nat) /\ IsInOrder(rows) /\ ToSet(rows) = Listed(since)
      /\ offset \in 0..Len(rows) /\ shown = SubSeq(rows, 1, offset)
  BY DEF PagesInv, PageOk
<1>4. next \in offset..Len(rows) /\ next \in Nat
  <2>1. PageCount(r) = IF Len(rows) - offset < PageSize THEN Len(rows) - offset ELSE PageSize
    BY DEF PageCount
  <2>2. Len(rows) \in Nat /\ offset \in Nat /\ offset <= Len(rows)
    BY <1>3
  <2>. HIDE DEF rows, offset
  <2>. QED BY <2>1, <2>2, PageSizeAssumption
<1>. HIDE DEF rows, offset, shown, since, next
<1>5. shown \o SubSeq(rows, offset + 1, next) = SubSeq(rows, 1, next)
  <2>. DEFINE S == Nat \X Nat
              tail == SubSeq(rows, offset + 1, next)
  <2>1. rows \in Seq(S) /\ offset \in Nat /\ Len(rows) \in Nat
    BY <1>3
  <2>. HIDE DEF S
  <2>2. /\ shown \in Seq(S) /\ Len(shown) = offset
        /\ \A i \in 1..offset : shown[i] = rows[i]
    BY <1>3, <2>1
  <2>3. /\ tail \in Seq(S) /\ Len(tail) = next - offset
        /\ \A i \in 1..next-offset : tail[i] = rows[i + offset]
    BY <1>3, <1>4, <2>1
  <2>4. /\ SubSeq(rows, 1, next) \in Seq(S) /\ Len(SubSeq(rows, 1, next)) = next
        /\ \A i \in 1..next : SubSeq(rows, 1, next)[i] = rows[i]
    BY <1>3, <1>4, <2>1
  <2>. HIDE DEF tail
  <2>5. shown \o tail \in Seq(S) /\ Len(shown \o tail) = next
    BY <1>3, <1>4, <2>1, <2>2, <2>3
  <2>6. ASSUME NEW i \in 1..next
        PROVE  (shown \o tail)[i] = rows[i]
    <3>1. CASE i <= offset
      BY <1>4, <2>1, <2>2, <2>3, <3>1
    <3>2. CASE ~(i <= offset)
      <4>1. i - offset \in 1..next-offset /\ (i - offset) + offset = i
        BY <1>4, <2>1, <3>2
      <4>2. (shown \o tail)[i] = tail[i - offset]
        BY <1>4, <2>1, <2>2, <2>3, <3>2, <4>1
      <4>3. tail[i - offset] = rows[(i - offset) + offset]
        BY <2>3, <4>1
      <4>. QED BY <4>1, <4>2, <4>3
    <3>. QED BY <3>1, <3>2
  <2>7. shown \o tail = SubSeq(rows, 1, next)
    <3>1. shown \o tail = [i \in 1..next |-> (shown \o tail)[i]]
      <4>. DEFINE s == shown \o tail
      <4>1. s \in Seq(S) /\ Len(s) = next
        BY <2>5
      <4>. HIDE DEF s
      <4>2. s = [i \in 1..next |-> s[i]]
        BY <1>4, <4>1
      <4>. QED BY <4>2 DEF s
    <3>2. SubSeq(rows, 1, next) = [i \in 1..next |-> rows[i]]
      <4>. DEFINE s == SubSeq(rows, 1, next)
      <4>1. s \in Seq(S) /\ Len(s) = next /\ \A i \in 1..next : s[i] = rows[i]
        BY <2>4
      <4>. HIDE DEF s
      <4>2. s = [i \in 1..next |-> rows[i]]
        BY <1>4, <4>1
      <4>. QED BY <4>2 DEF s
    <3>. QED BY <2>6, <3>1, <3>2
  <2>. QED BY <2>7 DEF tail
<1>6. next \in 0..Len(rows)
  BY <1>3, <1>4
<1>7. /\ last.rows = rows /\ last.offset = next
      /\ last.shown = SubSeq(rows, 1, next) /\ last.since = since
  BY <1>5
<1>8. last = [rows |-> last.rows, offset |-> last.offset,
              shown |-> last.shown, since |-> last.since]
  OBVIOUS
<1>. HIDE DEF last
<1>. QED BY <1>2, <1>3, <1>6, <1>7, <1>8 DEF PageOk

\* What a step can do to a reader's page.
LEMMA PageStep ==
    ASSUME PagesInv, [Next]_vars, NEW r \in Readers
    PROVE  \/ page'[r] = page[r] /\ query'[r] = query[r]
           \/ page'[r] = page[r] /\ query'[r].status # "listed"
           \/ StartListing(r) /\ query'[r].status # "listed"
           \/ ShowPage(r) /\ query'[r].status # "listed"
           \/ page'[r] = page[r] /\ page[r].offset >= Len(page[r].rows)
           \/ page'[r] = NoPage
<1>1. /\ query = [s \in Readers |-> query[s]]
      /\ page = [s \in Readers |-> page[s]]
  BY DEF PagesInv, BoundInv
<1>2. CASE \E n \in Names, cols \in Tables :
             \/ FitPca(n, cols)
             \/ \E label \in Labels : FitBoostedTree(n, cols, label)
  BY <1>2 DEF FitPca, FitBoostedTree, Fit
<1>3. ASSUME NEW s \in Readers, NEW op \in {"predict", "evaluate", "explain"},
             NEW n \in Names \union {NoName},
             NEW version \in -1..MaxModels, NEW cols \in Tables, Bind(s, op, n, version, cols)
      PROVE  page'[r] = page[r] /\ (query'[r] = query[r] \/ query'[r].status # "listed")
  <2>. DEFINE bound == BindData(op, n, version, cols)
              refused == Refusal(op, n, version, cols)
  <2>1. bound.status # "listed" /\ refused.status # "listed"
    BY DEF BindData, Refusal
  <2>2. /\ page' = page
        /\ \/ query' = [query EXCEPT ![s] = bound]
           \/ query' = [query EXCEPT ![s] = refused]
    BY <1>3 DEF Bind
  <2>. HIDE DEF bound, refused
  <2>. QED BY <1>1, <2>1, <2>2
<1>4. ASSUME NEW s \in Readers, Execute(s) \/ ExecuteNull(s) \/ ExplainPca(s)
      PROVE  page'[r] = page[r] /\ (query'[r] = query[r] \/ query'[r].status # "listed")
  <2>1. page' = page /\ (query' = query \/ query' = [query EXCEPT ![s] = NoQuery])
    BY <1>4 DEF Execute, ExecuteNull, ExplainPca
  <2>. QED BY <1>1, <2>1 DEF NoQuery
<1>5. ASSUME NEW s \in Readers, StartListing(s)
      PROVE  \/ StartListing(r) /\ query'[r].status # "listed"
             \/ page'[r] = page[r] /\ query'[r] = query[r]
  <2>1. /\ query' = [query EXCEPT ![s] = [status |-> "listing"]]
        /\ \E p : page' = [page EXCEPT ![s] = p]
    BY <1>5 DEF StartListing
  <2>. QED BY <1>1, <1>5, <2>1
<1>6. ASSUME NEW s \in Readers, ShowPage(s)
      PROVE  \/ ShowPage(r) /\ query'[r].status # "listed"
             \/ page'[r] = page[r] /\ query'[r] = query[r]
  <2>1. query' = query /\ query[s].status = "listing"
    BY <1>6 DEF ShowPage
  <2>2. r # s => page'[r] = page[r]
    BY <1>1, <1>6, Zenon DEF ShowPage
  <2>. QED BY <1>6, <2>1, <2>2
<1>7. ASSUME NEW s \in Readers, EndListing(s)
      PROVE  \/ page'[r] = page[r] /\ page[r].offset >= Len(page[r].rows)
             \/ page'[r] = page[r] /\ query'[r] = query[r]
  BY <1>1, <1>7 DEF EndListing
<1>8. ASSUME NEW s \in Readers, Rest(s)
      PROVE  \/ page'[r] = NoPage
             \/ page'[r] = page[r] /\ query'[r] = query[r]
  BY <1>1, <1>8 DEF Rest
<1>9. CASE UNCHANGED vars
  BY <1>9 DEF vars
<1>. QED BY <1>2, <1>3, <1>4, <1>5, <1>6, <1>7, <1>8, <1>9 DEF Next

\* page stays a function of the readers.
LEMMA PageShape ==
    ASSUME PagesInv, [Next]_vars
    PROVE  page' = [r \in Readers |-> page'[r]]
<1>1. page = [s \in Readers |-> page[s]]
  BY DEF PagesInv
<1>2. CASE \E n \in Names, cols \in Tables :
             \/ FitPca(n, cols)
             \/ \E label \in Labels : FitBoostedTree(n, cols, label)
  BY <1>1, <1>2 DEF FitPca, FitBoostedTree, Fit
<1>3. ASSUME NEW s \in Readers,
             \/ \E op, n, version, cols : Bind(s, op, n, version, cols)
             \/ Execute(s) \/ ExecuteNull(s) \/ ExplainPca(s) \/ EndListing(s)
      PROVE  page' = [r \in Readers |-> page'[r]]
  <2>1. page' = page
    BY <1>3 DEF Bind, Execute, ExecuteNull, ExplainPca, EndListing
  <2>. QED BY <1>1, <2>1
<1>4. ASSUME NEW s \in Readers, StartListing(s) \/ Rest(s)
      PROVE  page' = [r \in Readers |-> page'[r]]
  <2>1. \E p : page' = [page EXCEPT ![s] = p]
    BY <1>4 DEF StartListing, Rest
  <2>. QED BY <1>1, <2>1
<1>5. ASSUME NEW s \in Readers, ShowPage(s)
      PROVE  page' = [r \in Readers |-> page'[r]]
  <2>1. PICK p : page' = [page EXCEPT ![s] = p]
    BY <1>5, Zenon DEF ShowPage
  <2>. QED BY <1>1, <2>1
<1>6. CASE UNCHANGED vars
  BY <1>1, <1>6 DEF vars
<1>. QED BY <1>2, <1>3, <1>4, <1>5, <1>6 DEF Next

\* Every step keeps the invariant.
LEMMA PagesStep ==
    ASSUME IsFiniteSet(Names), PagesInv, [Next]_vars
    PROVE  PagesInv'
<1>1. BoundInv'
  BY BoundStep DEF PagesInv
<1>2. page' = [r \in Readers |-> page'[r]]
  BY PageShape
<1>3. ASSUME NEW r \in Readers
      PROVE  PageOk(page'[r])
  BY PageStep, ListingStarts, PageFollows, NoPageOk DEF PagesInv
<1>4. ASSUME NEW r \in Readers, query'[r].status = "listed"
      PROVE  page'[r].offset = Len(page'[r].rows)
  <2>1. page[r].offset \in 0..Len(page[r].rows) /\ Len(page[r].rows) \in Nat
    BY DEF PagesInv, PageOk
  <2>2. CASE page'[r] = NoPage
    BY <2>2 DEF NoPage
  <2>3. CASE page'[r] = page[r] /\ page[r].offset >= Len(page[r].rows)
    BY <2>1, <2>3
  <2>4. CASE page'[r] = page[r] /\ query'[r] = query[r]
    BY <1>4, <2>4 DEF PagesInv
  <2>. QED BY <1>4, <2>2, <2>3, <2>4, PageStep
<1>. QED BY <1>1, <1>2, <1>3, <1>4 DEF PagesInv

\* The pages of ml_models list the models that were stored when it started, in
\* order and once each, for finitely many names.
THEOREM PagesAlwaysListSnapshot ==
    ASSUME IsFiniteSet(Names)
    PROVE  Spec => []PagesListSnapshot
<1>1. Init => PagesInv
  <2>. SUFFICES ASSUME Init PROVE PagesInv
    OBVIOUS
  <2>1. BoundInv
    BY BoundInit
  <2>2. \A r \in Readers : page[r] = NoPage /\ query[r].status # "listed"
    BY DEF Init, NoQuery
  <2>3. page = [r \in Readers |-> page[r]]
    BY DEF Init
  <2>. QED BY <2>1, <2>2, <2>3, NoPageOk DEF PagesInv
<1>2. PagesInv /\ [Next]_vars => PagesInv'
  BY PagesStep
<1>3. PagesInv => PagesListSnapshot
  <2>. SUFFICES ASSUME PagesInv, NEW r \in Readers
                PROVE  /\ IsInOrder(page[r].shown)
                       /\ query[r].status = "listed" =>
                             ToSet(page[r].shown) = Listed(page[r].since)
    BY DEF PagesListSnapshot, IsInOrder, Listed
  <2>. DEFINE rows == page[r].rows
              shown == page[r].shown
              offset == page[r].offset
  <2>1. /\ rows \in Seq(Nat \X Nat) /\ IsInOrder(rows) /\ ToSet(rows) = Listed(page[r].since)
        /\ offset \in 0..Len(rows) /\ shown = SubSeq(rows, 1, offset)
        /\ query[r].status = "listed" => offset = Len(rows)
    BY DEF PagesInv, PageOk
  <2>. HIDE DEF rows, shown, offset
  <2>2. DOMAIN shown = 1..offset /\ \A i \in 1..offset : shown[i] = rows[i] /\ i \in DOMAIN rows
    BY <2>1
  <2>3. IsInOrder(shown)
    BY <2>1, <2>2 DEF IsInOrder
  <2>4. query[r].status = "listed" => shown = rows
    BY <2>1
  <2>. QED BY <2>1, <2>3, <2>4 DEF shown
<1>. QED BY <1>1, <1>2, <1>3, PTL DEF Spec

=============================================================================
