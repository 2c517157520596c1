------------------------ MODULE ModelRegistryProofs ------------------------
(***************************************************************************)
(* Theorems about ModelRegistry, for every set of clients and names, every *)
(* bound on fits, every starting file and every choice of faults.          *)
(***************************************************************************)
EXTENDS ModelRegistry, FiniteSetTheorems, SequenceTheorems, TLAPS

\* Versions of a name are the image of its rows, so there are finitely many.
LEMMA VersionsFinite ==
    ASSUME NEW n, IsFiniteSet(rows)
    PROVE  IsFiniteSet(VersionsOf(n)) /\ Cardinality(VersionsOf(n)) \in Nat
<1> DEFINE R == {x \in rows : x.name = n}
           f == [r \in R |-> r.version]
<1>1. IsFiniteSet(R)
  <2>1. R \in SUBSET rows
    OBVIOUS
  <2>. QED BY <2>1, FS_Subset
<1>2. f \in Surjection(R, VersionsOf(n))
  BY DEF Surjection, VersionsOf
<1>3. IsFiniteSet(VersionsOf(n))
  <2>. HIDE DEF f, R
  <2>. QED BY <1>1, <1>2, FS_Surjection
<1>. QED BY <1>3, FS_CardinalityType

\* The maximum that NextModelVersion selects, when versions have no gap.
LEMMA MaxOfPrefix ==
    ASSUME NEW k \in Nat
    PROVE  Max((1..k) \union {0}) = k
<1>1. k \in (1..k) \union {0} /\ \A y \in (1..k) \union {0} : k >= y
  OBVIOUS
<1>2. \A x \in (1..k) \union {0} :
         (\A y \in (1..k) \union {0} : x >= y) => x = k
  <2>. SUFFICES ASSUME NEW x \in (1..k) \union {0}, x >= k PROVE x = k
    BY <1>1
  <2>. QED OBVIOUS
<1>. QED BY <1>1, <1>2 DEF Max

\* Without gaps the next version is one more than the number of versions.
LEMMA NextVersionIsCount ==
    ASSUME TypeOK, VersionsContiguous, NEW n \in Names
    PROVE  \E k \in Nat : VersionsOf(n) = 1..k /\ NextVersion(n) = k + 1
<1>1. Cardinality(VersionsOf(n)) \in Nat
  BY VersionsFinite DEF TypeOK
<1>2. VersionsOf(n) = 1..Cardinality(VersionsOf(n))
  BY DEF VersionsContiguous
<1>3. NextVersion(n) = Cardinality(VersionsOf(n)) + 1
  <2>1. NextVersion(n) = Max((1..Cardinality(VersionsOf(n))) \union {0}) + 1
    BY <1>2 DEF NextVersion
  <2>. QED BY <1>1, <2>1, MaxOfPrefix
<1>. QED BY <1>1, <1>2, <1>3

\* Initial states satisfy the invariant: no row, no lock, every client idle.
LEMMA InitAllocation == Init => AllocationInv
<1>. SUFFICES ASSUME Init PROVE AllocationInv
  OBVIOUS
<1>1. TypeOK
  <2>1. rows \subseteq Rows /\ IsFiniteSet(rows)
    BY FS_EmptySet DEF Init
  <2>2. NoRequest \in Requests
    BY DEF NoRequest, Request, Requests
  <2>3. req \in [Clients -> Requests]
    BY <2>2 DEF Init
  <2>4. pc \in [Clients -> PCs] /\ lock \in [Clients -> Locks]
    BY DEF Init, PCs, Locks
  <2>5. table \in {"absent", "ours", "foreign"} /\ indexed \in BOOLEAN
    BY StartAssumption DEF Init
  <2>. QED BY <2>1, <2>3, <2>4, <2>5, MaxFitsAssumption DEF Init, TypeOK
<1>2. RequestFitsStep
  BY DEF Init, RequestFitsStep, InsertSteps, InTransaction
<1>3. LockProtocol
  BY DEF Init, LockProtocol, InTransaction, Others
<1>4. VersionsContiguous
  <2>. SUFFICES ASSUME NEW n \in Names
                PROVE  VersionsOf(n) = 1..Cardinality(VersionsOf(n))
    BY DEF VersionsContiguous
  <2>1. VersionsOf(n) = {}
    BY DEF Init, VersionsOf
  <2>. QED BY <2>1, FS_EmptySet
<1>5. AllocationIsCurrent
  BY DEF Init, AllocationIsCurrent
<1>. QED BY <1>1, <1>2, <1>3, <1>4, <1>5 DEF AllocationInv

-----------------------------------------------------------------------------
\* The bootstrap hands each kind of call on to its own first statement.
LEMMA BodyIsStep == \A o : Body(o) \in {"begin", "select", "list"}
  BY DEF Body

\* A fit about to commit writes a well-formed row.
LEMMA NewRowType ==
    ASSUME AllocationInv, NEW c \in Clients, pc[c] = "commit"
    PROVE  /\ NewRow(c) \in Rows
           /\ req[c].name \in Names
           /\ \E k \in Nat : VersionsOf(req[c].name) = 1..k /\ ver[c] = k + 1
<1>1. req[c] \in Requests /\ req[c].op = "insert"
  BY DEF AllocationInv, TypeOK, RequestFitsStep, InsertSteps, InTransaction
<1>2. req[c].name \in Names /\ req[c].blob \in Fits
  BY <1>1 DEF Requests
<1>3. ver[c] = NextVersion(req[c].name)
  BY DEF AllocationInv, AllocationIsCurrent
<1>4. \E k \in Nat : VersionsOf(req[c].name) = 1..k /\ ver[c] = k + 1
  BY <1>2, <1>3, NextVersionIsCount DEF AllocationInv
<1>5. ver[c] \in Nat \ {0}
  BY <1>4
<1>. QED BY <1>2, <1>4, <1>5 DEF NewRow, Row, Rows

\* What a request may ask for.
LEMMA RequestTypes ==
    /\ NoRequest \in Requests
    /\ \A r \in Requests : r.blob \in {0} \union Fits
  BY DEF NoRequest, Request, Requests

\* The connection is closed: only the connection's own state is reset.
LEMMA LeaveType ==
    ASSUME TypeOK, NEW c \in Clients, Leave(c), acked' \in [Fits -> Nat], refused' \subseteq Fits
    PROVE  TypeOK'
<1>1. req' \in [Clients -> Requests]
  BY RequestTypes DEF Leave, TypeOK
<1>2. /\ pc' \in [Clients -> PCs] /\ lock' \in [Clients -> Locks]
      /\ ver' \in [Clients -> Nat] /\ got' \in [Clients -> SUBSET Rows]
      /\ seesIndex' \in [Clients -> BOOLEAN]
  BY DEF Leave, TypeOK, Goto, SetLock, PCs, Locks
<1>. QED BY <1>1, <1>2 DEF Leave, TypeOK, disk

\* Every step of the registry keeps the variables well typed.
LEMMA TypeStep ==
    ASSUME AllocationInv, NEW c \in Clients,
           \/ StartInsert(c) \/ StartLookup(c) \/ StartList(c)
           \/ Step(c) \/ IOError(c) \/ Crash(c)
    PROVE  TypeOK'
<1>. USE DEF AllocationInv, TypeOK, Goto, SetLock, disk, ghosts, PCs, Locks, SchemaSteps,
             Bodies, InsertSteps, InTransaction
<1>1. CASE StartInsert(c)
  BY <1>1, MaxFitsAssumption, SMTT(30) DEF StartInsert, Start, Request, Requests, Fits
<1>2. CASE StartLookup(c)
  BY <1>2 DEF StartLookup, Start, Request, Requests
<1>3. CASE StartList(c)
  BY <1>3 DEF StartList, Start, Request, Requests
<1>4. CASE TableExists(c)
  BY <1>4 DEF TableExists, Busy, At
<1>5. CASE ValidateExistingTableSchema(c)
  BY <1>5 DEF ValidateExistingTableSchema, AfterValidation, Busy, At
<1>6. CASE CreateTable(c)
  BY <1>6 DEF CreateTable, Busy, At
<1>7. CASE CreateIndex(c)
  BY <1>7, BodyIsStep DEF CreateIndex, Busy, At
<1>8. CASE CommitTable(c)
  BY <1>8 DEF CommitTable, Busy, At
<1>9. CASE CommitIndex(c)
  BY <1>9, BodyIsStep DEF CommitIndex
<1>10. CASE BeginImmediate(c)
  BY <1>10 DEF BeginImmediate, Busy, At
<1>11. CASE NextModelVersion(c)
  <2>1. req[c].name \in Names
    BY <1>11 DEF NextModelVersion, AllocatedVersion, RequestFitsStep, Requests
  <2>2. NextVersion(req[c].name) \in Nat
    BY <2>1, NextVersionIsCount
  <2>. QED BY <1>11, <2>2 DEF NextModelVersion, AllocatedVersion
<1>12. CASE InsertRow(c)
  BY <1>12 DEF InsertRow, Busy, At
<1>13. CASE LockForCommit(c)
  BY <1>13 DEF LockForCommit, CommitBusy, Busy, At
<1>14. CASE CommitRow(c)
  <2>1. NewRow(c) \in Rows
    BY <1>14, NewRowType DEF CommitRow
  <2>2. IsFiniteSet(rows \union {NewRow(c)})
    BY FS_AddElement
  <2>. QED BY <1>14, <2>1, <2>2 DEF CommitRow
<1>15. CASE LoadTimestamp(c)
  BY <1>15 DEF LoadTimestamp, StampBusy, Busy, At
<1>16. CASE Rollback(c)
  BY <1>16 DEF Rollback, AfterRollback, Busy, At
<1>17. CASE SelectEntry(c)
  <2>1. \A n, v : Matching(n, v) \subseteq rows
    BY DEF Matching
  <2>. QED BY <1>17, <2>1 DEF SelectEntry, Busy, At
<1>18. CASE OpenCursor(c)
  BY <1>18 DEF OpenCursor, Busy, At
<1>19. CASE FetchRow(c)
  BY <1>19 DEF FetchRow, Busy, At
<1>20. CASE EndStatement(c)
  BY <1>20 DEF EndStatement, Busy, At
<1>21. CASE Return(c)
  BY <1>21, LeaveType DEF Return
<1>22. CASE Throw(c)
  <2>1. {req[c].blob} \ {0} \subseteq Fits
    BY RequestTypes
  <2>. QED BY <1>22, <2>1, LeaveType DEF Throw
<1>23. CASE IOError(c)
  BY <1>23 DEF IOError, Busy, At
<1>24. CASE Crash(c)
  BY <1>24, LeaveType DEF Crash
<1>. QED BY <1>1, <1>2, <1>3, <1>4, <1>5, <1>6, <1>7, <1>8, <1>9, <1>10, <1>11, <1>12, <1>13, <1>14, <1>15, <1>16, <1>17, <1>18, <1>19, <1>20, <1>21, <1>22, <1>23, <1>24 DEF Step

\* Only fits reach the transaction.
LEMMA BodyOfFit == \A o : Body(o) = "begin" <=> o = "insert"
  BY DEF Body

\* A connection inside the transaction of a fit was opened by a fit.
LEMMA FitStepsStep ==
    ASSUME AllocationInv, NEW c \in Clients,
           \/ StartInsert(c) \/ StartLookup(c) \/ StartList(c)
           \/ Step(c) \/ IOError(c) \/ Crash(c)
    PROVE  RequestFitsStep'
<1>. USE DEF AllocationInv, TypeOK, RequestFitsStep, Goto, SetLock, InsertSteps, InTransaction
<1>1. CASE StartInsert(c)
  BY <1>1 DEF StartInsert, Start, Request, Busy, At
<1>2. CASE StartLookup(c)
  BY <1>2 DEF StartLookup, Start, Request, Busy, At
<1>3. CASE StartList(c)
  BY <1>3 DEF StartList, Start, Request, Busy, At
<1>4. CASE TableExists(c)
  BY <1>4 DEF TableExists, Busy, At
<1>5. CASE ValidateExistingTableSchema(c)
  BY <1>5 DEF ValidateExistingTableSchema, AfterValidation, Busy, At
<1>6. CASE CreateTable(c)
  BY <1>6 DEF CreateTable, Busy, At
<1>7. CASE CreateIndex(c)
  BY <1>7, BodyOfFit, BodyIsStep DEF CreateIndex, Busy
<1>8. CASE CommitTable(c)
  BY <1>8 DEF CommitTable, Busy, At
<1>9. CASE CommitIndex(c)
  BY <1>9, BodyOfFit, BodyIsStep DEF CommitIndex
<1>10. CASE BeginImmediate(c)
  BY <1>10 DEF BeginImmediate, Busy, At
<1>11. CASE NextModelVersion(c)
  BY <1>11 DEF NextModelVersion, AllocatedVersion, Busy, At
<1>12. CASE InsertRow(c)
  BY <1>12 DEF InsertRow, Busy, At
<1>13. CASE LockForCommit(c)
  BY <1>13 DEF LockForCommit, CommitBusy, Busy, At
<1>14. CASE CommitRow(c)
  BY <1>14 DEF CommitRow, Busy, At
<1>15. CASE LoadTimestamp(c)
  BY <1>15 DEF LoadTimestamp, StampBusy, Busy, At
<1>16. CASE Rollback(c)
  BY <1>16 DEF Rollback, AfterRollback, Busy, At
<1>17. CASE SelectEntry(c)
  BY <1>17 DEF SelectEntry, Busy, At
<1>18. CASE OpenCursor(c)
  BY <1>18 DEF OpenCursor, Busy, At
<1>19. CASE FetchRow(c)
  BY <1>19 DEF FetchRow, Busy, At
<1>20. CASE EndStatement(c)
  BY <1>20 DEF EndStatement, Busy, At
<1>21. CASE Return(c)
  BY <1>21 DEF Return, Leave, NoRequest, Request, Busy, At
<1>22. CASE Throw(c)
  BY <1>22 DEF Throw, Leave, NoRequest, Request, Busy, At
<1>23. CASE IOError(c)
  BY <1>23 DEF IOError, Busy, At
<1>24. CASE Crash(c)
  BY <1>24 DEF Crash, Leave, NoRequest, Request, Busy, At
<1>. QED BY <1>1, <1>2, <1>3, <1>4, <1>5, <1>6, <1>7, <1>8, <1>9, <1>10, <1>11,
          <1>12, <1>13, <1>14, <1>15, <1>16, <1>17, <1>18, <1>19, <1>20,
          <1>21, <1>22, <1>23, <1>24
       DEF Step

\* Every lock is taken against the locks the others hold.
LEMMA LockStep ==
    ASSUME AllocationInv, NEW c \in Clients,
           \/ StartInsert(c) \/ StartLookup(c) \/ StartList(c)
           \/ Step(c) \/ IOError(c) \/ Crash(c)
    PROVE  LockProtocol'
<1>. USE DEF AllocationInv, TypeOK, LockProtocol, Goto, SetLock, InTransaction, Others, CanShare, CanReserve, CanExclude, Locks
<1>1. CASE StartInsert(c)
  BY <1>1 DEF StartInsert, Start, Request, Busy, At
<1>2. CASE StartLookup(c)
  BY <1>2 DEF StartLookup, Start, Request, Busy, At
<1>3. CASE StartList(c)
  BY <1>3 DEF StartList, Start, Request, Busy, At
<1>4. CASE TableExists(c)
  BY <1>4 DEF TableExists, Busy, At
<1>5. CASE ValidateExistingTableSchema(c)
  BY <1>5 DEF ValidateExistingTableSchema, AfterValidation, Busy, At
<1>6. CASE CreateTable(c)
  BY <1>6 DEF CreateTable, Busy, At
<1>7. CASE CreateIndex(c)
  BY <1>7, BodyIsStep DEF CreateIndex, Busy, At
<1>8. CASE CommitTable(c)
  BY <1>8 DEF CommitTable, Busy, At
<1>9. CASE CommitIndex(c)
  BY <1>9, BodyIsStep DEF CommitIndex
<1>10. CASE BeginImmediate(c)
  BY <1>10 DEF BeginImmediate, Busy, At
<1>11. CASE NextModelVersion(c)
  BY <1>11 DEF NextModelVersion, AllocatedVersion, Busy, At
<1>12. CASE InsertRow(c)
  BY <1>12 DEF InsertRow, Busy, At
<1>13. CASE LockForCommit(c)
  BY <1>13 DEF LockForCommit, CommitBusy, Busy, At
<1>14. CASE CommitRow(c)
  BY <1>14 DEF CommitRow, Busy, At
<1>15. CASE LoadTimestamp(c)
  BY <1>15 DEF LoadTimestamp, StampBusy, Busy, At
<1>16. CASE Rollback(c)
  BY <1>16 DEF Rollback, AfterRollback, Busy, At
<1>17. CASE SelectEntry(c)
  BY <1>17 DEF SelectEntry, Busy, At
<1>18. CASE OpenCursor(c)
  BY <1>18 DEF OpenCursor, Busy, At
<1>19. CASE FetchRow(c)
  BY <1>19 DEF FetchRow, Busy, At
<1>20. CASE EndStatement(c)
  BY <1>20 DEF EndStatement, Busy, At
<1>21. CASE Return(c)
  BY <1>21 DEF Return, Leave, NoRequest, Request, Busy, At
<1>22. CASE Throw(c)
  BY <1>22 DEF Throw, Leave, NoRequest, Request, Busy, At
<1>23. CASE IOError(c)
  BY <1>23 DEF IOError, Busy, At
<1>24. CASE Crash(c)
  BY <1>24 DEF Crash, Leave, NoRequest, Request, Busy, At
<1>. QED BY <1>1, <1>2, <1>3, <1>4, <1>5, <1>6, <1>7, <1>8, <1>9, <1>10, <1>11,
          <1>12, <1>13, <1>14, <1>15, <1>16, <1>17, <1>18, <1>19, <1>20,
          <1>21, <1>22, <1>23, <1>24
       DEF Step

\* CommitRow is the only step that writes a row.
LEMMA RowsStep ==
    ASSUME NEW c \in Clients,
           \/ StartInsert(c) \/ StartLookup(c) \/ StartList(c)
           \/ Step(c) \/ IOError(c) \/ Crash(c)
    PROVE  CommitRow(c) \/ rows' = rows
<1>. USE DEF disk
<1>1. CASE StartInsert(c)
  BY <1>1 DEF StartInsert, Start, Request, Busy
<1>2. CASE StartLookup(c)
  BY <1>2 DEF StartLookup, Start, Request, Busy
<1>3. CASE StartList(c)
  BY <1>3 DEF StartList, Start, Request, Busy
<1>4. CASE TableExists(c)
  BY <1>4 DEF TableExists, Busy
<1>5. CASE ValidateExistingTableSchema(c)
  BY <1>5 DEF ValidateExistingTableSchema, AfterValidation, Busy
<1>6. CASE CreateTable(c)
  BY <1>6 DEF CreateTable, Busy
<1>7. CASE CreateIndex(c)
  BY <1>7 DEF CreateIndex, Busy
<1>8. CASE CommitTable(c)
  BY <1>8 DEF CommitTable, Busy
<1>9. CASE CommitIndex(c)
  BY <1>9 DEF CommitIndex, Busy
<1>10. CASE BeginImmediate(c)
  BY <1>10 DEF BeginImmediate, Busy
<1>11. CASE NextModelVersion(c)
  BY <1>11 DEF NextModelVersion, AllocatedVersion, Busy
<1>12. CASE InsertRow(c)
  BY <1>12 DEF InsertRow, Busy
<1>13. CASE LockForCommit(c)
  BY <1>13 DEF LockForCommit, CommitBusy, Busy
<1>14. CASE CommitRow(c)
  BY <1>14
<1>15. CASE LoadTimestamp(c)
  BY <1>15 DEF LoadTimestamp, StampBusy, Busy
<1>16. CASE Rollback(c)
  BY <1>16 DEF Rollback, AfterRollback, Busy
<1>17. CASE SelectEntry(c)
  BY <1>17 DEF SelectEntry, Busy
<1>18. CASE OpenCursor(c)
  BY <1>18 DEF OpenCursor, Busy
<1>19. CASE FetchRow(c)
  BY <1>19 DEF FetchRow, Busy
<1>20. CASE EndStatement(c)
  BY <1>20 DEF EndStatement, Busy
<1>21. CASE Return(c)
  BY <1>21 DEF Return, Leave, NoRequest, Request, Busy
<1>22. CASE Throw(c)
  BY <1>22 DEF Throw, Leave, NoRequest, Request, Busy
<1>23. CASE IOError(c)
  BY <1>23 DEF IOError, Busy
<1>24. CASE Crash(c)
  BY <1>24 DEF Crash, Leave, NoRequest, Request, Busy
<1>. QED BY <1>1, <1>2, <1>3, <1>4, <1>5, <1>6, <1>7, <1>8, <1>9, <1>10, <1>11,
          <1>12, <1>13, <1>14, <1>15, <1>16, <1>17, <1>18, <1>19, <1>20,
          <1>21, <1>22, <1>23, <1>24
       DEF Step

\* There are k numbers from 1 to k.
LEMMA PrefixCardinality == \A k \in Nat : Cardinality(1..k) = k
<1>. SUFFICES ASSUME NEW k \in Nat PROVE Cardinality(1..k) = k
  OBVIOUS
<1>1. 1 \in Int /\ k \in Int
  OBVIOUS
<1>2. Cardinality(1..k) = IF 1 > k THEN 0 ELSE k - 1 + 1
  BY <1>1, FS_Interval
<1>. QED BY <1>2

\* The one step that adds a row adds the next version of its name.
LEMMA ContiguousStep ==
    ASSUME AllocationInv, NEW c \in Clients, CommitRow(c) \/ rows' = rows
    PROVE  VersionsContiguous'
<1>. SUFFICES ASSUME NEW n \in Names
              PROVE  VersionsOf(n)' = 1..Cardinality(VersionsOf(n)')
  BY DEF VersionsContiguous
<1>1. \E k \in Nat : VersionsOf(n)' = 1..k
  <2>1. PICK k \in Nat : VersionsOf(n) = 1..k
    BY NextVersionIsCount DEF AllocationInv
  <2>2. CASE rows' = rows
    BY <2>1, <2>2 DEF VersionsOf
  <2>3. CASE CommitRow(c) /\ req[c].name # n
    <3>1. VersionsOf(n)' = VersionsOf(n)
      BY <2>3 DEF CommitRow, VersionsOf, NewRow, Row
    <3>. QED BY <2>1, <3>1
  <2>4. CASE CommitRow(c) /\ req[c].name = n
    <3>1. VersionsOf(n)' = VersionsOf(n) \union {ver[c]}
      <4>1. NewRow(c).name = n /\ NewRow(c).version = ver[c]
        BY <2>4 DEF NewRow, Row
      <4>2. {x \in rows' : x.name = n} = {x \in rows : x.name = n} \union {NewRow(c)}
        <5>. HIDE DEF NewRow
        <5>. QED BY <2>4, <4>1 DEF CommitRow
      <4>. QED BY <4>1, <4>2 DEF VersionsOf
    <3>2. ver[c] = k + 1
      <4>1. PICK j \in Nat : VersionsOf(n) = 1..j /\ ver[c] = j + 1
        BY <2>4, NewRowType DEF CommitRow
      <4>2. j = k
        <5>1. Cardinality(1..j) = j /\ Cardinality(1..k) = k
          BY PrefixCardinality
        <5>. QED BY <2>1, <4>1, <5>1
      <4>. QED BY <4>1, <4>2
    <3>3. VersionsOf(n)' = 1..(k + 1)
      BY <2>1, <3>1, <3>2
    <3>. QED BY <3>3
  <2>. QED BY <2>2, <2>3, <2>4
<1>2. PICK k \in Nat : VersionsOf(n)' = 1..k
  BY <1>1
<1>. QED BY <1>2, PrefixCardinality

\* A fit that holds its version holds the write lock, so no other fit commits.
LEMMA CurrentStep ==
    ASSUME AllocationInv, NEW c \in Clients,
           \/ StartInsert(c) \/ StartLookup(c) \/ StartList(c)
           \/ Step(c) \/ IOError(c) \/ Crash(c)
    PROVE  AllocationIsCurrent'
<1>. USE DEF AllocationInv, TypeOK, AllocationIsCurrent, Goto, SetLock, disk
<1>1. CASE StartInsert(c)
  BY <1>1 DEF StartInsert, Start, Request, NextVersion, VersionsOf, Busy, At
<1>2. CASE StartLookup(c)
  BY <1>2 DEF StartLookup, Start, Request, NextVersion, VersionsOf, Busy, At
<1>3. CASE StartList(c)
  BY <1>3 DEF StartList, Start, Request, NextVersion, VersionsOf, Busy, At
<1>4. CASE TableExists(c)
  BY <1>4 DEF TableExists, NextVersion, VersionsOf, Busy, At
<1>5. CASE ValidateExistingTableSchema(c)
  BY <1>5 DEF ValidateExistingTableSchema, AfterValidation, NextVersion, VersionsOf, Busy, At
<1>6. CASE CreateTable(c)
  BY <1>6 DEF CreateTable, NextVersion, VersionsOf, Busy, At
<1>7. CASE CreateIndex(c)
  BY <1>7, BodyIsStep DEF CreateIndex, NextVersion, VersionsOf, Busy
<1>8. CASE CommitTable(c)
  BY <1>8 DEF CommitTable, NextVersion, VersionsOf, Busy, At
<1>9. CASE CommitIndex(c)
  BY <1>9, BodyIsStep DEF CommitIndex, NextVersion, VersionsOf
<1>10. CASE BeginImmediate(c)
  BY <1>10 DEF BeginImmediate, NextVersion, VersionsOf, Busy, At
<1>11. CASE NextModelVersion(c)
  BY <1>11 DEF NextModelVersion, AllocatedVersion, NextVersion, VersionsOf, Busy, At
<1>12. CASE InsertRow(c)
  BY <1>12 DEF InsertRow, NextVersion, VersionsOf, Busy, At
<1>13. CASE LockForCommit(c)
  BY <1>13 DEF LockForCommit, CommitBusy, NextVersion, VersionsOf, Busy, At
<1>14. CASE CommitRow(c)
  <2>1. lock[c] = "exclusive" /\ pc' = [pc EXCEPT ![c] = "stamp"]
    BY <1>14 DEF CommitRow
  <2>2. \A d \in Clients : d # c => pc[d] \notin {"row", "commit"}
    BY <2>1 DEF LockProtocol, Others, InTransaction
  <2>. QED BY <2>1, <2>2
<1>15. CASE LoadTimestamp(c)
  BY <1>15 DEF LoadTimestamp, StampBusy, NextVersion, VersionsOf, Busy, At
<1>16. CASE Rollback(c)
  BY <1>16 DEF Rollback, AfterRollback, NextVersion, VersionsOf, Busy, At
<1>17. CASE SelectEntry(c)
  BY <1>17 DEF SelectEntry, NextVersion, VersionsOf, Busy, At
<1>18. CASE OpenCursor(c)
  BY <1>18 DEF OpenCursor, NextVersion, VersionsOf, Busy, At
<1>19. CASE FetchRow(c)
  BY <1>19 DEF FetchRow, NextVersion, VersionsOf, Busy, At
<1>20. CASE EndStatement(c)
  BY <1>20 DEF EndStatement, NextVersion, VersionsOf, Busy, At
<1>21. CASE Return(c)
  BY <1>21 DEF Return, Leave, NoRequest, Request, NextVersion, VersionsOf, Busy, At
<1>22. CASE Throw(c)
  BY <1>22 DEF Throw, Leave, NoRequest, Request, NextVersion, VersionsOf, Busy, At
<1>23. CASE IOError(c)
  BY <1>23 DEF IOError, NextVersion, VersionsOf, Busy, At
<1>24. CASE Crash(c)
  BY <1>24 DEF Crash, Leave, NoRequest, Request, NextVersion, VersionsOf, Busy, At
<1>. QED BY <1>1, <1>2, <1>3, <1>4, <1>5, <1>6, <1>7, <1>8, <1>9, <1>10, <1>11,
          <1>12, <1>13, <1>14, <1>15, <1>16, <1>17, <1>18, <1>19, <1>20,
          <1>21, <1>22, <1>23, <1>24
       DEF Step

\* The allocation invariant is inductive.
LEMMA AllocationStep == AllocationInv /\ [Next]_vars => AllocationInv'
<1>. SUFFICES ASSUME AllocationInv, [Next]_vars PROVE AllocationInv'
  OBVIOUS
<1>1. CASE UNCHANGED vars
  <2>1. TypeOK' /\ RequestFitsStep'
    BY <1>1 DEF vars, disk, ghosts, AllocationInv, TypeOK, RequestFitsStep
  <2>2. LockProtocol' /\ VersionsContiguous'
    BY <1>1 DEF vars, disk, AllocationInv, LockProtocol, VersionsContiguous, VersionsOf
  <2>3. AllocationIsCurrent'
    BY <1>1 DEF vars, disk, AllocationInv, AllocationIsCurrent, NextVersion, VersionsOf
  <2>. QED BY <2>1, <2>2, <2>3 DEF AllocationInv
<1>2. CASE Next
  <2>1. PICK c \in Clients : \/ StartInsert(c) \/ StartLookup(c) \/ StartList(c)
                             \/ Step(c) \/ IOError(c) \/ Crash(c)
    BY <1>2 DEF Next
  <2>2. VersionsContiguous'
    BY <2>1, RowsStep, ContiguousStep
  <2>. QED BY <2>1, <2>2, TypeStep, FitStepsStep, LockStep, CurrentStep DEF AllocationInv
<1>. QED BY <1>1, <1>2

\* The inductive invariant of version allocation holds of every reachable state:
\* types, transactions, locks, and the versions of the table and of its writer.
THEOREM AllocationCorrect == Spec => []AllocationInv
<1>. QED BY InitAllocation, AllocationStep, PTL DEF Spec

\* Every reachable state has the types of TypeOK.
THEOREM TypeCorrect == Spec => []TypeOK
<1>1. AllocationInv => TypeOK
  BY DEF AllocationInv
<1>. QED BY <1>1, AllocationCorrect, PTL

\* NextModelVersion under BEGIN IMMEDIATE numbers the versions of every name
\* 1, 2, 3, ... whatever the interleaving, the faults and the number of clients.
THEOREM VersionsAreContiguous == Spec => []VersionsContiguous
<1>1. AllocationInv => VersionsContiguous
  BY DEF AllocationInv
<1>. QED BY <1>1, AllocationCorrect, PTL

\* The INSERT of a fit never meets a row with its key.
THEOREM AllocationStaysCurrent == Spec => []AllocationIsCurrent
<1>1. AllocationInv => AllocationIsCurrent
  BY DEF AllocationInv
<1>. QED BY <1>1, AllocationCorrect, PTL

-----------------------------------------------------------------------------
\* Blobs and fits are numbers; a committed blob is not 0.
LEMMA BlobTypes ==
    ASSUME TypeOK
    PROVE  /\ \A r \in rows : r.blob \in Nat \ {0}
           /\ \A d \in Clients : req[d].blob \in Nat
           /\ fits \in Nat
<1>1. Fits \subseteq Nat \ {0} /\ fits \in Nat
  BY MaxFitsAssumption DEF Fits, TypeOK
<1>2. \A r \in rows : r.blob \in Fits
  <2>1. rows \subseteq Rows
    BY DEF TypeOK
  <2>2. \A r \in Rows : r.blob \in Fits
    BY DEF Rows
  <2>. QED BY <2>1, <2>2
<1>3. \A d \in Clients : req[d].blob \in {0} \union Fits
  <2>1. \A d \in Clients : req[d] \in Requests
    BY DEF TypeOK
  <2>. QED BY <2>1, RequestTypes
<1>4. {0} \union Fits \subseteq Nat
  BY <1>1
<1>5. \A d \in Clients : req[d].blob \in Nat
  <2>. TAKE d \in Clients
  <2>1. req[d].blob \in {0} \union Fits
    BY <1>3
  <2>. HIDE DEF Fits
  <2>. QED BY <1>4, <2>1, Zenon
<1>. QED BY <1>1, <1>2, <1>5

\* A fit's number is fresh when it starts and enters rows only by its own CommitRow.
LEMMA DistinctStep ==
    ASSUME PublicationInv, TypeOK', NEW c \in Clients,
           \/ StartInsert(c) \/ StartLookup(c) \/ StartList(c)
           \/ Step(c) \/ IOError(c) \/ Crash(c)
    PROVE  FitsAreDistinct'
<1>. USE DEF PublicationInv, AllocationInv, TypeOK, FitsAreDistinct, Goto, SetLock, disk, ghosts, Others,
            SchemaSteps, InTransaction, NewRow, Row
<1>1. CASE StartInsert(c)
  <2>1. /\ fits' = fits + 1 /\ rows' = rows
        /\ pc[c] = "idle" /\ pc' = [pc EXCEPT ![c] = "exists"]
        /\ ver' = ver
    BY <1>1 DEF StartInsert, Start
  <2>2. PICK n \in Names : req' = [req EXCEPT ![c] = Request("insert", n, 0, fits + 1)]
    BY <1>1 DEF StartInsert, Start
  <2>3. req'[c].blob = fits + 1 /\ \A d \in Clients : d # c => req'[d] = req[d]
    BY <2>2 DEF Request
  <2>4. \A d \in Clients : d # c => NewRow(d)' = NewRow(d)
    BY <2>1, <2>3
  <2>. HIDE DEF NewRow
  <2>5. /\ \A r \in rows : r.blob <= fits /\ r.blob \in Nat
        /\ \A d \in Clients : req[d].blob <= fits /\ req[d].blob \in Nat
        /\ fits \in Nat
    BY BlobTypes
  <2>6. \A r \in rows' : r.blob <= fits' /\ r.blob # fits + 1
    BY <2>1, <2>5
  <2>7. \A d \in Clients : req'[d].blob <= fits'
    BY <2>1, <2>3, <2>5
  <2>8. \A d, e \in Clients : d # e /\ req'[d].blob = req'[e].blob => req'[d].blob = 0
    BY <2>3, <2>5
  <2>9. \A d \in Clients :
           pc'[d] \in SchemaSteps \union InTransaction \union {"begin", "rollback"} =>
              \A r \in rows' : r.blob # req'[d].blob
    BY <2>1, <2>3, <2>6
  <2>10. \A d \in Clients :
            pc'[d] \in {"stamp", "close"} /\ req'[d].op = "insert" => NewRow(d)' \in rows'
    BY <2>1, <2>3, <2>4
  <2>. HIDE DEF TypeOK, SchemaSteps, InTransaction
  <2>. QED BY <2>6, <2>7, <2>8, <2>9, <2>10 DEF Others
<1>2. CASE StartLookup(c)
  BY <1>2, BlobTypes DEF StartLookup, Start, Request
<1>3. CASE StartList(c)
  BY <1>3, BlobTypes DEF StartList, Start, Request
<1>4. CASE TableExists(c)
  BY <1>4 DEF TableExists, Busy, At
<1>5. CASE ValidateExistingTableSchema(c)
  BY <1>5 DEF ValidateExistingTableSchema, AfterValidation, Busy, At
<1>6. CASE CreateTable(c)
  BY <1>6 DEF CreateTable, Busy, At
<1>7. CASE CreateIndex(c)
  BY <1>7, BodyIsStep DEF CreateIndex, Busy, At
<1>8. CASE CommitTable(c)
  BY <1>8 DEF CommitTable, Busy, At
<1>9. CASE CommitIndex(c)
  BY <1>9, BodyIsStep DEF CommitIndex
<1>10. CASE BeginImmediate(c)
  BY <1>10 DEF BeginImmediate, Busy, At
<1>11. CASE NextModelVersion(c)
  BY <1>11 DEF NextModelVersion, AllocatedVersion, Busy, At
<1>12. CASE InsertRow(c)
  BY <1>12 DEF InsertRow, Busy, At
<1>13. CASE LockForCommit(c)
  BY <1>13 DEF LockForCommit, CommitBusy, Busy, At
<1>14. CASE CommitRow(c)
  <2>1. req[c].op = "insert" /\ req[c] \in Requests
    BY <1>14 DEF CommitRow, RequestFitsStep, InsertSteps
  <2>2. req[c].blob # 0
    BY <2>1 DEF Requests, Fits
  <2>3. NewRow(c).blob = req[c].blob /\ NewRow(c)' = NewRow(c)
    BY <1>14 DEF CommitRow, NewRow, Row
  <2>4. rows' = rows \union {NewRow(c)} /\ pc' = [pc EXCEPT ![c] = "stamp"]
        /\ UNCHANGED <<req, ver, fits>>
    BY <1>14 DEF CommitRow
  <2>5. \A d \in Clients : d # c => NewRow(d)' = NewRow(d)
    BY <2>4 DEF NewRow, Row
  <2>. HIDE DEF NewRow
  <2>. QED BY <2>2, <2>3, <2>4, <2>5
<1>15. CASE LoadTimestamp(c)
  BY <1>15 DEF LoadTimestamp, StampBusy, Busy, At
<1>16. CASE Rollback(c)
  BY <1>16 DEF Rollback, AfterRollback, Busy, At
<1>17. CASE SelectEntry(c)
  BY <1>17 DEF SelectEntry, Busy, At, RequestFitsStep
<1>18. CASE OpenCursor(c)
  BY <1>18 DEF OpenCursor, Busy, At
<1>19. CASE FetchRow(c)
  BY <1>19 DEF FetchRow, Busy, At, RequestFitsStep
<1>20. CASE EndStatement(c)
  BY <1>20 DEF EndStatement, Busy, At
<1>21. CASE Return(c)
  BY <1>21 DEF Return, Leave, NoRequest, Request, Busy, At
<1>22. CASE Throw(c)
  BY <1>22 DEF Throw, Leave, NoRequest, Request, Busy, At
<1>23. CASE IOError(c)
  BY <1>23 DEF IOError, Busy, At
<1>24. CASE Crash(c)
  BY <1>24 DEF Crash, Leave, NoRequest, Request, Busy, At
<1>. QED BY <1>1, <1>2, <1>3, <1>4, <1>5, <1>6, <1>7, <1>8, <1>9, <1>10, <1>11,
          <1>12, <1>13, <1>14, <1>15, <1>16, <1>17, <1>18, <1>19, <1>20,
          <1>21, <1>22, <1>23, <1>24
       DEF Step

\* A commit adds a key and a blob that no stored row has.
LEMMA OneFitStep ==
    ASSUME PublicationInv, NEW c \in Clients, CommitRow(c) \/ rows' = rows
    PROVE  EveryRowIsOneFit'
<1>1. CASE rows' = rows
  BY <1>1 DEF PublicationInv, EveryRowIsOneFit
<1>2. CASE CommitRow(c)
  <2>1. \A r \in rows : ~(r.name = req[c].name /\ r.version = ver[c])
    <3>1. PICK k \in Nat : VersionsOf(req[c].name) = 1..k /\ ver[c] = k + 1
      BY <1>2, NewRowType DEF CommitRow, PublicationInv
    <3>2. ver[c] \notin VersionsOf(req[c].name)
      BY <3>1
    <3>. QED BY <3>2 DEF VersionsOf
  <2>2. \A r \in rows : r.blob # req[c].blob
    BY <1>2 DEF CommitRow, PublicationInv, FitsAreDistinct, InTransaction
  <2>3. /\ NewRow(c).name = req[c].name
        /\ NewRow(c).version = ver[c]
        /\ NewRow(c).blob = req[c].blob
    BY DEF NewRow, Row
  <2>4. rows' = rows \union {NewRow(c)}
    BY <1>2 DEF CommitRow
  <2>. HIDE DEF NewRow
  <2>. QED BY <2>1, <2>2, <2>3, <2>4 DEF PublicationInv, EveryRowIsOneFit
<1>. QED BY <1>1, <1>2

\* Rows are only ever added, and a fit is answered once its row is there.
LEMMA AckedStep ==
    ASSUME PublicationInv, NEW c \in Clients, Return(c) \/ acked' = acked,
           rows \subseteq rows'
    PROVE  AckedIsStored'
<1>1. CASE acked' = acked
  BY <1>1 DEF PublicationInv, AckedIsStored
<1>2. CASE Return(c)
  <2>. SUFFICES ASSUME NEW f \in Fits, acked'[f] # 0
                PROVE  \E r \in rows' : r.version = acked'[f] /\ r.blob = f
    BY DEF AckedIsStored
  <2>1. CASE f = req[c].blob
    <3>1. req[c].op = "insert"
      BY <2>1 DEF PublicationInv, AllocationInv, TypeOK, Requests, Fits
    <3>2. NewRow(c) \in rows
      BY <1>2, <3>1 DEF Return, PublicationInv, FitsAreDistinct
    <3>3. NewRow(c).version = ver[c] /\ NewRow(c).blob = f
      BY <2>1 DEF NewRow, Row
    <3>4. acked'[f] = ver[c]
      BY <1>2, <2>1 DEF Return
    <3>. QED BY <3>2, <3>3, <3>4
  <2>2. CASE f # req[c].blob
    <3>1. acked'[f] = acked[f]
      BY <1>2, <2>2 DEF Return
    <3>. QED BY <3>1 DEF PublicationInv, AckedIsStored
  <2>. QED BY <2>1, <2>2
<1>. QED BY <1>1, <1>2

\* Only Return answers a fit.
LEMMA AckedChange ==
    ASSUME NEW c \in Clients,
           \/ StartInsert(c) \/ StartLookup(c) \/ StartList(c)
           \/ Step(c) \/ IOError(c) \/ Crash(c)
    PROVE  Return(c) \/ acked' = acked
<1>. USE DEF ghosts
<1>1. CASE StartInsert(c)
  BY <1>1 DEF StartInsert, Start, Request, Busy
<1>2. CASE StartLookup(c)
  BY <1>2 DEF StartLookup, Start, Request, Busy
<1>3. CASE StartList(c)
  BY <1>3 DEF StartList, Start, Request, Busy
<1>4. CASE TableExists(c)
  BY <1>4 DEF TableExists, Busy
<1>5. CASE ValidateExistingTableSchema(c)
  BY <1>5 DEF ValidateExistingTableSchema, AfterValidation, Busy
<1>6. CASE CreateTable(c)
  BY <1>6 DEF CreateTable, Busy
<1>7. CASE CreateIndex(c)
  BY <1>7 DEF CreateIndex, Busy
<1>8. CASE CommitTable(c)
  BY <1>8 DEF CommitTable, Busy
<1>9. CASE CommitIndex(c)
  BY <1>9 DEF CommitIndex, Busy
<1>10. CASE BeginImmediate(c)
  BY <1>10 DEF BeginImmediate, Busy
<1>11. CASE NextModelVersion(c)
  BY <1>11 DEF NextModelVersion, AllocatedVersion, Busy
<1>12. CASE InsertRow(c)
  BY <1>12 DEF InsertRow, Busy
<1>13. CASE LockForCommit(c)
  BY <1>13 DEF LockForCommit, CommitBusy, Busy
<1>14. CASE CommitRow(c)
  BY <1>14 DEF CommitRow, Busy
<1>15. CASE LoadTimestamp(c)
  BY <1>15 DEF LoadTimestamp, StampBusy, Busy
<1>16. CASE Rollback(c)
  BY <1>16 DEF Rollback, AfterRollback, Busy
<1>17. CASE SelectEntry(c)
  BY <1>17 DEF SelectEntry, Busy
<1>18. CASE OpenCursor(c)
  BY <1>18 DEF OpenCursor, Busy
<1>19. CASE FetchRow(c)
  BY <1>19 DEF FetchRow, Busy
<1>20. CASE EndStatement(c)
  BY <1>20 DEF EndStatement, Busy
<1>21. CASE Return(c)
  BY <1>21
<1>22. CASE Throw(c)
  BY <1>22 DEF Throw, Leave, NoRequest, Request, Busy
<1>23. CASE IOError(c)
  BY <1>23 DEF IOError, Busy
<1>24. CASE Crash(c)
  BY <1>24 DEF Crash, Leave, NoRequest, Request, Busy
<1>. QED BY <1>1, <1>2, <1>3, <1>4, <1>5, <1>6, <1>7, <1>8, <1>9, <1>10, <1>11,
          <1>12, <1>13, <1>14, <1>15, <1>16, <1>17, <1>18, <1>19, <1>20,
          <1>21, <1>22, <1>23, <1>24
       DEF Step

\* The publication invariant is inductive.
LEMMA PublicationStep == PublicationInv /\ [Next]_vars => PublicationInv'
<1>. SUFFICES ASSUME PublicationInv, [Next]_vars PROVE PublicationInv'
  OBVIOUS
<1>1. AllocationInv'
  BY AllocationStep DEF PublicationInv
<1>2. CASE UNCHANGED vars
  <2>1. FitsAreDistinct'
    BY <1>2 DEF PublicationInv, FitsAreDistinct, NewRow, vars, disk, ghosts
  <2>2. EveryRowIsOneFit' /\ AckedIsStored'
    BY <1>2 DEF PublicationInv, EveryRowIsOneFit, AckedIsStored, vars, disk, ghosts
  <2>. QED BY <1>1, <2>1, <2>2 DEF PublicationInv
<1>3. CASE Next
  <2>1. PICK c \in Clients : \/ StartInsert(c) \/ StartLookup(c) \/ StartList(c)
                             \/ Step(c) \/ IOError(c) \/ Crash(c)
    BY <1>3 DEF Next
  <2>2. CommitRow(c) \/ rows' = rows
    BY <2>1, RowsStep
  <2>3. rows \subseteq rows'
    BY <2>2 DEF CommitRow
  <2>4. FitsAreDistinct'
    BY <1>1, <2>1, DistinctStep DEF AllocationInv
  <2>5. EveryRowIsOneFit'
    BY <2>2, OneFitStep
  <2>6. AckedIsStored'
    BY <2>1, <2>3, AckedChange, AckedStep
  <2>. QED BY <1>1, <2>4, <2>5, <2>6 DEF PublicationInv
<1>. QED BY <1>2, <1>3

\* The inductive invariant of publication holds of every reachable state: fits
\* are told apart, rows are fits, and answers are backed by rows.
THEOREM PublicationCorrect == Spec => []PublicationInv
<1>1. Init => PublicationInv
  <2>. SUFFICES ASSUME Init PROVE PublicationInv
    OBVIOUS
  <2>1. AllocationInv
    BY InitAllocation
  <2>2. FitsAreDistinct
    BY DEF Init, FitsAreDistinct, NoRequest, Request, SchemaSteps, InTransaction
  <2>3. EveryRowIsOneFit /\ AckedIsStored
    BY DEF Init, EveryRowIsOneFit, AckedIsStored
  <2>. QED BY <2>1, <2>2, <2>3 DEF PublicationInv
<1>. QED BY <1>1, PublicationStep, PTL DEF Spec

\* No fit is stored twice and none is stored over another, however its
\* transaction ended.
THEOREM EveryRowIsOneFitAlways == Spec => []EveryRowIsOneFit
<1>1. PublicationInv => EveryRowIsOneFit
  BY DEF PublicationInv
<1>. QED BY <1>1, PublicationCorrect, PTL

\* The version that ml_fit returned stays in the registry, with its own blob.
THEOREM AckedFitsAreDurable == Spec => []AckedIsStored
<1>1. PublicationInv => AckedIsStored
  BY DEF PublicationInv
<1>. QED BY <1>1, PublicationCorrect, PTL

-----------------------------------------------------------------------------
\* What each stage of a call knows about the file.  A table never changes once
\* it exists and an index never goes, so what a connection has seen stays true.
SchemaInv ==
    /\ TypeOK
    /\ ForeignTableUntouched
    /\ SchemaReadyBeforeUse
    /\ \A c \in Clients :
          /\ pc[c] = "validate" => table # "absent"
          /\ pc[c] \in {"create", "createCommit"} => table # "foreign"
          /\ pc[c] \in {"index", "indexCommit"} => table = "ours"
          /\ seesIndex[c] => indexed

\* Initially nobody knows anything, and only a table of ours may have the index.
LEMMA InitSchema == Init => SchemaInv
<1>. SUFFICES ASSUME Init PROVE SchemaInv
  OBVIOUS
<1>1. TypeOK
  BY InitAllocation DEF AllocationInv
<1>. QED BY <1>1 DEF Init, SchemaInv, ForeignTableUntouched, SchemaReadyBeforeUse,
                     Bodies, InsertSteps, InTransaction

\* Every step of a call keeps what its stage promises, and what the others' do.
LEMMA SchemaStep ==
    ASSUME SchemaInv, TypeOK', NEW c \in Clients,
           \/ StartInsert(c) \/ StartLookup(c) \/ StartList(c)
           \/ Step(c) \/ IOError(c) \/ Crash(c)
    PROVE  SchemaInv'
<1>. USE DEF SchemaInv, TypeOK, ForeignTableUntouched, SchemaReadyBeforeUse, Goto, SetLock,
             disk, ghosts, Bodies, InsertSteps, InTransaction, Busy, At
<1>1. CASE StartInsert(c) \/ StartLookup(c) \/ StartList(c)
  BY <1>1 DEF StartInsert, StartLookup, StartList, Start
<1>2. CASE TableExists(c)
  BY <1>2 DEF TableExists
<1>3. CASE ValidateExistingTableSchema(c)
  BY <1>3 DEF ValidateExistingTableSchema, AfterValidation
<1>4. CASE CreateTable(c)
  BY <1>4 DEF CreateTable
<1>5. CASE CreateIndex(c)
  BY <1>5, BodyIsStep DEF CreateIndex
<1>6. CASE CommitTable(c)
  BY <1>6 DEF CommitTable
<1>7. CASE CommitIndex(c)
  BY <1>7, BodyIsStep DEF CommitIndex
<1>8. CASE LockForCommit(c)
  BY <1>8 DEF LockForCommit, CommitBusy
<1>9. CASE BeginImmediate(c) \/ NextModelVersion(c) \/ InsertRow(c)
  BY <1>9 DEF BeginImmediate, NextModelVersion, InsertRow
<1>10. CASE CommitRow(c)
  BY <1>10 DEF CommitRow
<1>11. CASE LoadTimestamp(c) \/ Rollback(c)
  BY <1>11 DEF LoadTimestamp, StampBusy, Rollback, AfterRollback
<1>12. CASE SelectEntry(c) \/ OpenCursor(c) \/ FetchRow(c) \/ EndStatement(c)
  BY <1>12 DEF SelectEntry, OpenCursor, FetchRow, EndStatement
<1>13. CASE Return(c) \/ Throw(c) \/ Crash(c)
  BY <1>13 DEF Return, Throw, Crash, Leave
<1>14. CASE IOError(c)
  BY <1>14 DEF IOError
<1>. QED BY <1>1, <1>2, <1>3, <1>4, <1>5, <1>6, <1>7, <1>8, <1>9, <1>10, <1>11,
          <1>12, <1>13, <1>14 DEF Step

\* The bootstrap is correct for any number of racing, failing or dying calls.
THEOREM SchemaCorrect == Spec => []SchemaInv
<1>1. SchemaInv /\ TypeOK' /\ [Next]_vars => SchemaInv'
  <2>1. CASE Next
    BY <2>1, SchemaStep DEF Next
  <2>2. CASE UNCHANGED vars
    BY <2>2 DEF vars, disk, ghosts, SchemaInv, TypeOK, ForeignTableUntouched,
                SchemaReadyBeforeUse
  <2>. QED BY <2>1, <2>2
<1>. QED BY <1>1, InitSchema, TypeCorrect, PTL DEF Spec

\* Every query and transaction runs on the extension's table with its index,
\* whoever bootstrapped the file and wherever a crash stopped that.
THEOREM SchemaAlwaysReady == Spec => []SchemaReadyBeforeUse
<1>1. SchemaInv => SchemaReadyBeforeUse
  BY DEF SchemaInv
<1>. QED BY <1>1, SchemaCorrect, PTL

\* A table that is not the extension's is never written to.
THEOREM ForeignTableAlwaysUntouched == Spec => []ForeignTableUntouched
<1>1. SchemaInv => ForeignTableUntouched
  BY DEF SchemaInv
<1>. QED BY <1>1, SchemaCorrect, PTL

-----------------------------------------------------------------------------
\* Each statement has its own place in the order.
LEMMA Places ==
    /\ PlaceOf("exists") = 1 /\ PlaceOf("validate") = 2 /\ PlaceOf("create") = 3
    /\ PlaceOf("createCommit") = 4 /\ PlaceOf("index") = 5 /\ PlaceOf("indexCommit") = 6
    /\ PlaceOf("begin") = 7 /\ PlaceOf("next") = 8 /\ PlaceOf("row") = 9
    /\ PlaceOf("commit") = 10 /\ PlaceOf("rollback") = 11 /\ PlaceOf("stamp") = 12
    /\ PlaceOf("select") = 13 /\ PlaceOf("list") = 14 /\ PlaceOf("close") = 15
    /\ PlaceOf("throw") = 16 /\ PlaceOf("idle") = 17
<1>1. /\ Len(StatementOrder) = 17
      /\ StatementOrder[1] = "exists" /\ StatementOrder[2] = "validate"
      /\ StatementOrder[3] = "create" /\ StatementOrder[4] = "createCommit"
      /\ StatementOrder[5] = "index" /\ StatementOrder[6] = "indexCommit"
      /\ StatementOrder[7] = "begin" /\ StatementOrder[8] = "next"
      /\ StatementOrder[9] = "row" /\ StatementOrder[10] = "commit"
      /\ StatementOrder[11] = "rollback" /\ StatementOrder[12] = "stamp"
      /\ StatementOrder[13] = "select" /\ StatementOrder[14] = "list"
      /\ StatementOrder[15] = "close" /\ StatementOrder[16] = "throw"
      /\ StatementOrder[17] = "idle"
  BY DEF StatementOrder
<1>2. \A i, j \in 1..17 : StatementOrder[i] = StatementOrder[j] => i = j
  BY <1>1
<1>3. ASSUME NEW i \in 1..17 PROVE PlaceOf(StatementOrder[i]) = i
  <2>1. {j \in 1..Len(StatementOrder) : StatementOrder[j] = StatementOrder[i]} = {i}
    BY <1>1, <1>2
  <2>2. PlaceOf(StatementOrder[i]) = Min({i})
    <3>. HIDE DEF StatementOrder
    <3>. QED BY <2>1 DEF PlaceOf, SelectInSeq
  <2>3. Min({i}) = i
    BY DEF Min
  <2>. QED BY <2>2, <2>3
<1>. QED BY <1>1, <1>3

\* A step of client c moves c forward.
LEMMA ForwardStep ==
    ASSUME TypeOK, NEW c \in Clients, pc[c] # "idle",
           Step(c) \/ IOError(c) \/ Crash(c)
    PROVE  PlaceOf(pc[c]) <= PlaceOf(pc'[c])
<1>. USE DEF Goto, Busy, At
<1>1. pc \in [Clients -> PCs]
  BY DEF TypeOK
<1>2. \A p \in PCs : PlaceOf(p) \in 1..17 /\ (p \notin {"idle", "throw"} => PlaceOf(p) < 16)
  BY Places DEF PCs, SchemaSteps, Bodies, InsertSteps, InTransaction
<1>. HIDE DEF PlaceOf
<1>3. CASE pc'[c] = pc[c]
  BY <1>1, <1>2, <1>3
<1>4. CASE pc'[c] = "idle"
  BY <1>1, <1>2, <1>4, Places
<1>5. CASE pc'[c] = "throw"
  BY <1>1, <1>2, <1>5, Places
<1>6. CASE TableExists(c)
  BY <1>1, <1>5, <1>6, Places DEF TableExists
<1>7. CASE ValidateExistingTableSchema(c)
  BY <1>1, <1>5, <1>7, Places DEF ValidateExistingTableSchema, AfterValidation
<1>8. CASE CreateTable(c)
  BY <1>1, <1>5, <1>8, Places DEF CreateTable
<1>9. CASE CreateIndex(c)
  <2>1. pc[c] = "index" /\ pc'[c] \in {"indexCommit", "begin", "select", "list", "throw"}
    BY <1>1, <1>9, BodyIsStep DEF CreateIndex
  <2>. QED BY <2>1, Places
<1>10. CASE CommitTable(c)
  BY <1>1, <1>10, Places DEF CommitTable
<1>11. CASE CommitIndex(c)
  <2>1. pc[c] = "indexCommit" /\ pc'[c] \in {"begin", "select", "list"}
    BY <1>1, <1>11, BodyIsStep DEF CommitIndex
  <2>. QED BY <2>1, Places
<1>12. CASE BeginImmediate(c)
  BY <1>1, <1>5, <1>12, Places DEF BeginImmediate
<1>13. CASE NextModelVersion(c)
  BY <1>1, <1>13, Places DEF NextModelVersion
<1>14. CASE InsertRow(c)
  BY <1>1, <1>14, Places DEF InsertRow
<1>15. CASE LockForCommit(c)
  BY <1>1, <1>3, <1>5, <1>15, Places DEF LockForCommit, CommitBusy
<1>16. CASE CommitRow(c)
  BY <1>1, <1>16, Places DEF CommitRow
<1>17. CASE LoadTimestamp(c)
  BY <1>1, <1>17, Places DEF LoadTimestamp, StampBusy
<1>18. CASE Rollback(c)
  BY <1>1, <1>18, Places DEF Rollback, AfterRollback
<1>19. CASE SelectEntry(c)
  BY <1>1, <1>19, Places DEF SelectEntry
<1>20. CASE OpenCursor(c)
  BY <1>1, <1>3, <1>5, <1>20 DEF OpenCursor
<1>21. CASE FetchRow(c)
  BY <1>1, <1>3, <1>21, Places DEF FetchRow
<1>22. CASE EndStatement(c)
  BY <1>3, <1>22 DEF EndStatement
<1>23. CASE Return(c) \/ Throw(c) \/ Crash(c)
  BY <1>1, <1>4, <1>23 DEF Return, Throw, Crash, Leave
<1>24. CASE IOError(c)
  BY <1>1, <1>5, <1>24, Places DEF IOError, InTransaction
<1>. QED BY <1>6, <1>7, <1>8, <1>9, <1>10, <1>11, <1>12, <1>13, <1>14, <1>15, <1>16,
          <1>17, <1>18, <1>19, <1>20, <1>21, <1>22, <1>23, <1>24 DEF Step

\* A step of one client is a step of no other.
LEMMA OthersStand ==
    ASSUME TypeOK, NEW c \in Clients, NEW d \in Clients, d # c,
           \/ StartInsert(c) \/ StartLookup(c) \/ StartList(c)
           \/ Step(c) \/ IOError(c) \/ Crash(c)
    PROVE  pc'[d] = pc[d]
<1>. USE DEF Goto, Busy, At, TypeOK
<1>1. CASE StartInsert(c) \/ StartLookup(c) \/ StartList(c)
  BY <1>1 DEF StartInsert, StartLookup, StartList, Start
<1>2. CASE TableExists(c) \/ ValidateExistingTableSchema(c)
  BY <1>2 DEF TableExists, ValidateExistingTableSchema
<1>3. CASE CreateTable(c) \/ CreateIndex(c)
  BY <1>3 DEF CreateTable, CreateIndex
<1>4. CASE CommitTable(c) \/ CommitIndex(c) \/ CommitRow(c)
  BY <1>4 DEF CommitTable, CommitIndex, CommitRow
<1>5. CASE BeginImmediate(c) \/ NextModelVersion(c) \/ InsertRow(c)
  BY <1>5 DEF BeginImmediate, NextModelVersion, InsertRow
<1>6. CASE LockForCommit(c)
  BY <1>6 DEF LockForCommit, CommitBusy
<1>7. CASE LoadTimestamp(c) \/ Rollback(c)
  BY <1>7 DEF LoadTimestamp, StampBusy, Rollback
<1>8. CASE SelectEntry(c) \/ OpenCursor(c) \/ FetchRow(c) \/ EndStatement(c)
  BY <1>8 DEF SelectEntry, OpenCursor, FetchRow, EndStatement
<1>9. CASE Return(c) \/ Throw(c) \/ Crash(c)
  BY <1>9 DEF Return, Throw, Crash, Leave
<1>10. CASE IOError(c)
  BY <1>10 DEF IOError
<1>. QED BY <1>1, <1>2, <1>3, <1>4, <1>5, <1>6, <1>7, <1>8, <1>9, <1>10 DEF Step

\* A call runs through its statements in order and never retries one, whatever
\* locks it meets, whatever fails and whoever dies.
THEOREM CallsGoForward == Spec => CallsMoveForward
<1>1. TypeOK /\ [Next]_vars
      => [\A c \in Clients : pc[c] # "idle" => PlaceOf(pc[c]) <= PlaceOf(pc'[c])]_vars
  <2>. SUFFICES ASSUME TypeOK, Next, NEW d \in Clients, pc[d] # "idle"
                PROVE  PlaceOf(pc[d]) <= PlaceOf(pc'[d])
    OBVIOUS
  <2>1. PICK c \in Clients : \/ StartInsert(c) \/ StartLookup(c) \/ StartList(c)
                             \/ Step(c) \/ IOError(c) \/ Crash(c)
    BY DEF Next
  <2>2. CASE c = d
    BY <2>1, <2>2, ForwardStep DEF StartInsert, StartLookup, StartList, Start
  <2>3. CASE c # d
    <3>1. pc[d] \in PCs /\ pc'[d] = pc[d]
      BY <2>1, <2>3, OthersStand DEF TypeOK
    <3>2. \A p \in PCs : PlaceOf(p) \in Nat
      BY Places DEF PCs, SchemaSteps, Bodies, InsertSteps, InTransaction
    <3>. QED BY <3>1, <3>2
  <2>. QED BY <2>2, <2>3
<1>. QED BY <1>1, TypeCorrect, PTL DEF Spec, CallsMoveForward

-----------------------------------------------------------------------------
\* The abstract state of a registry state.
AbsLog == [n \in Names |-> LogOf(n)]
AbsCall == [c \in Clients |-> CallOf(c)]

\* A client in one of these statements has not taken effect yet.
OpenSteps == PCs \ {"idle", "throw", "stamp", "close"}

\* Every step of the registry is a step of the abstract one or changes nothing there.
AbstractStep == [Abstract!Next]_(Abstract!vars)

\* Rows that have been fetched are rows, and a query's statement is that query's.
QueryInv ==
    \A c \in Clients :
        /\ pc[c] = "select" => req[c].op = "lookup"
        /\ pc[c] = "list" => req[c].op \notin {"insert", "lookup"}
        /\ got[c] \subseteq rows

\* What one client does leaves the others' calls as they were.
LEMMA OneCallChanges ==
    ASSUME NEW c \in Clients,
           \A d \in Clients \ {c} : /\ pc'[d] = pc[d] /\ req'[d] = req[d]
                                    /\ ver'[d] = ver[d] /\ got'[d] = got[d]
    PROVE  AbsCall' = [AbsCall EXCEPT ![c] = CallOf(c)']
<1>1. \A d \in Clients \ {c} : CallOf(d)' = CallOf(d)
  BY DEF CallOf, RequestOf, AnswerOf, NewRow, Row
<1>. QED BY <1>1 DEF AbsCall

\* The log is a function of the rows.
LEMMA SameRowsSameLog ==
    ASSUME rows' = rows
    PROVE  AbsLog' = AbsLog
  BY DEF AbsLog, LogOf, VersionsOf

\* A step on which no call's abstract state changes.
LEMMA AbstractStutter ==
    ASSUME rows' = rows, AbsCall' = AbsCall
    PROVE  AbstractStep
<1>1. AbsLog' = AbsLog
  BY SameRowsSameLog
<1>. QED BY <1>1 DEF AbstractStep, Abstract!vars, AbsLog, AbsCall

\* A call that throws, wherever it stands.
LEMMA AbstractFail ==
    ASSUME NEW c \in Clients, rows' = rows,
           AbsCall' = [AbsCall EXCEPT ![c] = CallOf(c)'],
           pc[c] \notin {"idle", "throw"}, pc'[c] = "throw"
    PROVE  AbstractStep
<1>1. AbsLog' = AbsLog
  BY SameRowsSameLog
<1>2. CallOf(c).status \in {"open", "decided"} /\ CallOf(c)' = Abstract!Failed
  BY DEF CallOf, Abstract!Failed
<1>3. Abstract!Fail(c)
  BY <1>1, <1>2 DEF Abstract!Fail, AbsLog, AbsCall
<1>. QED BY <1>3 DEF AbstractStep, Abstract!Next

\* A call that ends: its caller has the answer or the error, or is dead.
LEMMA AbstractFinish ==
    ASSUME NEW c \in Clients, rows' = rows,
           AbsCall' = [AbsCall EXCEPT ![c] = CallOf(c)'],
           pc[c] # "idle", pc'[c] = "idle"
    PROVE  AbstractStep
<1>1. AbsLog' = AbsLog
  BY SameRowsSameLog
<1>2. CallOf(c) # Abstract!Idle /\ CallOf(c)' = Abstract!Idle
  <2>1. CallOf(c).status # "idle"
    BY DEF CallOf
  <2>2. Abstract!Idle.status = "idle"
    BY DEF Abstract!Idle
  <2>. QED BY <2>1, <2>2 DEF CallOf, Abstract!Idle
<1>3. Abstract!Finish(c)
  BY <1>1, <1>2 DEF Abstract!Finish, AbsLog, AbsCall
<1>. QED BY <1>3 DEF AbstractStep, Abstract!Next

\* Before a call takes effect its statements change nothing the caller could see.
LEMMA AbstractOpen ==
    ASSUME TypeOK, NEW c \in Clients, NEW p \in OpenSteps \union {"throw"},
           rows' = rows, req' = req,
           \A d \in Clients \ {c} : ver'[d] = ver[d] /\ got'[d] = got[d],
           pc[c] \in OpenSteps, pc' = [pc EXCEPT ![c] = p]
    PROVE  AbstractStep
<1>1. AbsCall' = [AbsCall EXCEPT ![c] = CallOf(c)']
  BY OneCallChanges DEF TypeOK
<1>2. pc'[c] = p
  BY DEF TypeOK
<1>3. CASE p = "throw"
  BY <1>1, <1>2, <1>3, AbstractFail DEF OpenSteps
<1>4. CASE p \in OpenSteps
  <2>1. CallOf(c)' = CallOf(c)
    BY <1>2, <1>4 DEF CallOf, OpenSteps, RequestOf
  <2>2. AbsCall' = AbsCall
    BY <1>1, <2>1 DEF AbsCall
  <2>. QED BY <2>2, AbstractStutter
<1>. QED BY <1>3, <1>4

\* A step that keeps every statement, request and answer.
LEMMA AbstractSame ==
    ASSUME rows' = rows, pc' = pc, req' = req, ver' = ver, got' = got
    PROVE  AbstractStep
<1>1. AbsCall' = AbsCall
  BY DEF AbsCall, CallOf, RequestOf, AnswerOf, NewRow, Row
<1>. QED BY <1>1, AbstractStutter

\* A call is opened with its request.
LEMMA AbstractInvoke ==
    ASSUME TypeOK, NEW c \in Clients,
           StartInsert(c) \/ StartLookup(c) \/ StartList(c)
    PROVE  AbstractStep
<1>1. AbsLog' = AbsLog
  BY SameRowsSameLog DEF StartInsert, StartLookup, StartList, Start, disk
<1>2. AbsCall' = [AbsCall EXCEPT ![c] = CallOf(c)']
  BY OneCallChanges DEF StartInsert, StartLookup, StartList, Start, Goto, TypeOK
<1>3. pc[c] = "idle" /\ pc'[c] = "exists"
  BY DEF StartInsert, StartLookup, StartList, Start, Goto, TypeOK
<1>4. CallOf(c) = Abstract!Idle /\ CallOf(c)' = Abstract!Open(RequestOf(c)')
  BY <1>3 DEF CallOf, Abstract!Idle, Abstract!Open
<1>5. \/ \E n \in Names, b \in Fits : RequestOf(c)' = <<"insert", n, b>>
      \/ \E n \in Names, v \in 0..MaxFits : RequestOf(c)' = <<"lookup", n, v>>
      \/ RequestOf(c)' = <<"list">>
  <2>1. CASE StartInsert(c)
    <3>1. PICK n \in Names : req' = [req EXCEPT ![c] = Request("insert", n, 0, fits + 1)]
      BY <2>1 DEF StartInsert, Start
    <3>2. req'[c] = Request("insert", n, 0, fits + 1)
      BY <3>1 DEF TypeOK
    <3>3. fits + 1 \in Fits
      BY <2>1, MaxFitsAssumption DEF StartInsert, TypeOK, Fits
    <3>. QED BY <3>2, <3>3 DEF RequestOf, Request
  <2>2. CASE StartLookup(c)
    <3>1. PICK n \in Names, v \in 0..MaxFits :
             req' = [req EXCEPT ![c] = Request("lookup", n, v, 0)]
      BY <2>2 DEF StartLookup, Start
    <3>2. req'[c] = Request("lookup", n, v, 0)
      BY <3>1 DEF TypeOK
    <3>. QED BY <3>2 DEF RequestOf, Request
  <2>3. CASE StartList(c)
    BY <2>3 DEF StartList, Start, TypeOK, RequestOf, Request
  <2>. QED BY <2>1, <2>2, <2>3
<1>6. AbsCall[c] = Abstract!Idle /\ AbsCall' = [AbsCall EXCEPT ![c] = Abstract!Open(RequestOf(c)')]
  BY <1>2, <1>4 DEF AbsCall
<1>7. Abstract!Invoke(c)
  <2>. HIDE DEF AbsCall, AbsLog
  <2>1. \/ \E n \in Names, b \in Fits :
              AbsCall' = [AbsCall EXCEPT ![c] = Abstract!Open(<<"insert", n, b>>)]
        \/ \E n \in Names, v \in 0..MaxFits :
              AbsCall' = [AbsCall EXCEPT ![c] = Abstract!Open(<<"lookup", n, v>>)]
        \/ AbsCall' = [AbsCall EXCEPT ![c] = Abstract!Open(<<"list">>)]
    BY <1>5, <1>6, Zenon
  <2>. QED BY <1>1, <1>6, <2>1 DEF Abstract!Invoke, AbsLog, AbsCall
<1>. QED BY <1>7 DEF AbstractStep, Abstract!Next

-----------------------------------------------------------------------------
\* LogOf(n) holds the blob of version v of n at v, and nothing else.
LogHolds(n, k) ==
    /\ VersionsOf(n) = 1..k
    /\ LogOf(n) \in Seq(Fits)
    /\ Len(LogOf(n)) = k
    /\ \A r \in rows :
          r.name = n => r.version \in 1..k /\ LogOf(n)[r.version] = r.blob
    /\ \A v \in 1..k :
          \E r \in rows : r.name = n /\ r.version = v /\ r.blob = LogOf(n)[v]

LogsHold == \A n \in Names : \E k \in Nat : LogHolds(n, k)

\* The log of a name holds the blob of version v at v.
LEMMA LogEntries == PublicationInv => LogsHold
<1>. SUFFICES ASSUME PublicationInv, NEW n \in Names
              PROVE  \E k \in Nat : LogHolds(n, k)
  BY DEF LogsHold
<1>1. PICK k \in Nat : VersionsOf(n) = 1..k
  BY NextVersionIsCount DEF PublicationInv, AllocationInv
<1>2. Cardinality(VersionsOf(n)) = k
  BY <1>1, PrefixCardinality
<1>. DEFINE RowAt(v) == CHOOSE r \in rows : r.name = n /\ r.version = v
<1>3. LogOf(n) = [v \in 1..k |-> RowAt(v).blob]
  BY <1>2 DEF LogOf
<1>4. \A v \in 1..k : RowAt(v) \in rows /\ RowAt(v).name = n /\ RowAt(v).version = v
  <2>. SUFFICES ASSUME NEW v \in 1..k
                PROVE  RowAt(v) \in rows /\ RowAt(v).name = n /\ RowAt(v).version = v
    OBVIOUS
  <2>1. \E r \in rows : r.name = n /\ r.version = v
    BY <1>1 DEF VersionsOf
  <2>. QED BY <2>1
<1>5. \A r \in rows : r.name = n => r.version \in 1..k
  BY <1>1 DEF VersionsOf
<1>6. \A r \in rows : r.name = n => RowAt(r.version) = r
  <2>. HIDE DEF RowAt
  <2>. QED BY <1>4, <1>5 DEF PublicationInv, EveryRowIsOneFit
<1>. HIDE DEF RowAt
<1>7. \A v \in 1..k : RowAt(v).blob \in Fits
  BY <1>4 DEF PublicationInv, AllocationInv, TypeOK, Rows
<1>8. LogOf(n) \in Seq(Fits) /\ Len(LogOf(n)) = k
  BY <1>3, <1>7
<1>. QED BY <1>1, <1>3, <1>4, <1>5, <1>6, <1>8 DEF LogHolds

\* The abstract registry lists exactly the committed rows.
LEMMA AbstractRows ==
    ASSUME PublicationInv
    PROVE  Abstract!AllRows = rows
<1>1. \A r \in rows : r \in Rows
  BY DEF PublicationInv, AllocationInv, TypeOK
<1>2. \A r \in Rows : r = Abstract!Row(r.name, r.version, r.blob) /\ r.name \in Names
  BY DEF Rows, Abstract!Row
<1>3. ASSUME NEW r \in rows PROVE r \in Abstract!AllRows
  <2>1. PICK k \in Nat : LogHolds(r.name, k)
    BY <1>1, <1>2, LogEntries DEF LogsHold
  <2>2. r.version \in DOMAIN LogOf(r.name) /\ LogOf(r.name)[r.version] = r.blob
    BY <2>1 DEF LogHolds
  <2>. QED BY <1>1, <1>2, <2>2 DEF Abstract!AllRows
<1>4. ASSUME NEW n \in Names, NEW v \in DOMAIN LogOf(n)
      PROVE  Abstract!Row(n, v, LogOf(n)[v]) \in rows
  <2>1. PICK k \in Nat : LogHolds(n, k)
    BY LogEntries DEF LogsHold
  <2>2. v \in 1..k
    BY <2>1 DEF LogHolds
  <2>3. PICK r \in rows : r.name = n /\ r.version = v /\ r.blob = LogOf(n)[v]
    BY <2>1, <2>2 DEF LogHolds
  <2>. QED BY <1>1, <1>2, <2>3
<1>. QED BY <1>3, <1>4 DEF Abstract!AllRows

\* A commit appends the fit's blob to the log of its name.
LEMMA CommitAppends ==
    ASSUME TypeOK, LogsHold, LogsHold', NEW c \in Clients, NEW n \in Names, NEW b \in Fits,
           NEW k \in Nat, LogHolds(n, k),
           NewRow(c) = Row(n, k + 1, b), rows' = rows \union {NewRow(c)}
    PROVE  AbsLog' = [AbsLog EXCEPT ![n] = Append(@, b)]
<1>1. NewRow(c).name = n /\ NewRow(c).version = k + 1 /\ NewRow(c).blob = b
  BY DEF Row
<1>2. LogOf(n)' = Append(LogOf(n), b)
  <2>1. PICK j \in Nat : LogHolds(n, j)'
    BY DEF LogsHold
  <2>2. VersionsOf(n)' = VersionsOf(n) \union {k + 1}
    <3>1. {r \in rows' : r.name = n} = {r \in rows : r.name = n} \union {NewRow(c)}
      BY <1>1
    <3>. QED BY <1>1, <3>1 DEF VersionsOf
  <2>3. j = k + 1
    <3>1. VersionsOf(n)' = 1..(k + 1)
      BY <2>2 DEF LogHolds
    <3>2. 1..j = 1..(k + 1)
      BY <2>1, <3>1 DEF LogHolds
    <3>. QED BY <3>2, PrefixCardinality
  <2>4. ASSUME NEW v \in 1..k PROVE LogOf(n)'[v] = LogOf(n)[v]
    <3>1. PICK r \in rows : r.name = n /\ r.version = v /\ r.blob = LogOf(n)[v]
      BY DEF LogHolds
    <3>. QED BY <2>1, <3>1 DEF LogHolds
  <2>5. LogOf(n)'[k + 1] = b
    BY <1>1, <2>1 DEF LogHolds
  <2>6. /\ LogOf(n)' \in Seq(Fits) /\ Len(LogOf(n)') = k + 1
        /\ LogOf(n) \in Seq(Fits) /\ Len(LogOf(n)) = k
    BY <2>1, <2>3 DEF LogHolds
  <2>. QED BY <2>4, <2>5, <2>6
<1>3. ASSUME NEW m \in Names, m # n PROVE LogOf(m)' = LogOf(m)
  <2>1. PICK i \in Nat, j \in Nat : LogHolds(m, i) /\ LogHolds(m, j)'
    BY DEF LogsHold
  <2>2. VersionsOf(m)' = VersionsOf(m)
    <3>1. {r \in rows' : r.name = m} = {r \in rows : r.name = m}
      BY <1>1, <1>3
    <3>. QED BY <3>1 DEF VersionsOf
  <2>3. i = j
    BY <2>1, <2>2, PrefixCardinality DEF LogHolds
  <2>4. ASSUME NEW v \in 1..i PROVE LogOf(m)'[v] = LogOf(m)[v]
    <3>1. PICK r \in rows : r.name = m /\ r.version = v /\ r.blob = LogOf(m)[v]
      BY <2>1 DEF LogHolds
    <3>. QED BY <2>1, <3>1 DEF LogHolds
  <2>5. /\ LogOf(m)' \in Seq(Fits) /\ Len(LogOf(m)') = i
        /\ LogOf(m) \in Seq(Fits) /\ Len(LogOf(m)) = i
    BY <2>1, <2>3 DEF LogHolds
  <2>. QED BY <2>4, <2>5
<1>. QED BY <1>2, <1>3 DEF AbsLog

\* CommitRow is where a fit takes effect.
LEMMA AbstractPublish ==
    ASSUME PublicationInv, LogsHold', NEW c \in Clients, CommitRow(c)
    PROVE  AbstractStep
<1>. USE DEF PublicationInv, AllocationInv
<1>1. /\ pc[c] = "commit" /\ pc' = [pc EXCEPT ![c] = "stamp"]
      /\ rows' = rows \union {NewRow(c)}
      /\ req' = req /\ ver' = ver /\ got' = got
  BY DEF CommitRow, Goto
<1>2. req[c].op = "insert" /\ req[c].name \in Names /\ req[c].blob \in Fits
  <2>1. req[c] \in Requests /\ req[c].op = "insert"
    BY <1>1 DEF TypeOK, RequestFitsStep, InsertSteps, InTransaction
  <2>. QED BY <2>1 DEF Requests
<1>3. PICK n \in Names, b \in Fits : n = req[c].name /\ b = req[c].blob
  BY <1>2
<1>4. AbsCall' = [AbsCall EXCEPT ![c] = CallOf(c)']
  BY <1>1, OneCallChanges DEF TypeOK
<1>5. PICK k \in Nat : LogHolds(n, k)
  BY LogEntries DEF LogsHold
<1>6. ver[c] = k + 1
  <2>1. PICK j \in Nat : VersionsOf(n) = 1..j /\ ver[c] = j + 1
    BY <1>1, <1>3, NewRowType
  <2>2. j = k
    BY <1>5, <2>1, PrefixCardinality DEF LogHolds
  <2>. QED BY <2>1, <2>2
<1>7. AbsLog' = [AbsLog EXCEPT ![n] = Append(@, b)]
  BY <1>1, <1>3, <1>5, <1>6, CommitAppends, LogEntries DEF NewRow
<1>8. AbsCall[c] = Abstract!Open(<<"insert", n, b>>)
  BY <1>1, <1>2, <1>3 DEF AbsCall, CallOf, RequestOf, Abstract!Open
<1>9. CallOf(c)' = Abstract!Decided(AbsCall[c].request,
                                    {Abstract!Row(n, Len(AbsLog[n]) + 1, b)})
  <2>1. RequestOf(c)' = <<"insert", n, b>>
    BY <1>1, <1>2, <1>3 DEF RequestOf
  <2>2. AnswerOf(c)' = {Abstract!Row(n, Len(AbsLog[n]) + 1, b)}
    BY <1>1, <1>2, <1>3, <1>5, <1>6 DEF AnswerOf, NewRow, Row, Abstract!Row, AbsLog, LogHolds
  <2>3. pc'[c] = "stamp"
    BY <1>1 DEF TypeOK
  <2>. QED BY <1>8, <2>1, <2>2, <2>3 DEF CallOf, Abstract!Open, Abstract!Decided
<1>10. AbsCall' = [AbsCall EXCEPT ![c] =
                     Abstract!Decided(@.request, {Abstract!Row(n, Len(AbsLog[n]) + 1, b)})]
  <2>. HIDE DEF PublicationInv, AllocationInv
  <2>. QED BY <1>4, <1>9, Zenon DEF AbsCall
<1>11. Abstract!Publish(c)
  <2>. HIDE DEF PublicationInv, AllocationInv
  <2>. QED BY <1>7, <1>8, <1>10, Zenon DEF Abstract!Publish, AbsLog, AbsCall
<1>. QED BY <1>11 DEF AbstractStep, Abstract!Next

\* A lookup that cannot get its lock fails; one that reads takes effect then.
LEMMA AbstractResolve ==
    ASSUME PublicationInv, QueryInv, NEW c \in Clients, SelectEntry(c)
    PROVE  AbstractStep
<1>. USE DEF PublicationInv, AllocationInv
<1>1. pc[c] = "select" /\ rows' = rows /\ req' = req /\ ver' = ver
  BY DEF SelectEntry, At, Busy, disk
<1>2. CASE Busy(c)
  BY <1>1, <1>2, AbstractOpen DEF Busy, Goto, OpenSteps, PCs, Bodies
<1>3. CASE ~Busy(c)
  <2>1. /\ got' = [got EXCEPT ![c] = Matching(req[c].name, req[c].version)]
        /\ pc' = [pc EXCEPT ![c] = "close"]
    BY <1>3 DEF SelectEntry, Goto
  <2>2. req[c].op = "lookup" /\ req[c].name \in Names /\ req[c].version \in Nat
    <3>1. req[c] \in Requests /\ req[c].op = "lookup"
      BY <1>1 DEF TypeOK, QueryInv
    <3>. QED BY <3>1, MaxFitsAssumption DEF Requests
  <2>3. PICK n \in Names, v \in Nat : n = req[c].name /\ v = req[c].version
    BY <2>2
  <2>4. AbsLog' = AbsLog
    BY <1>1, SameRowsSameLog
  <2>5. AbsCall' = [AbsCall EXCEPT ![c] = CallOf(c)']
    BY <1>1, <2>1, OneCallChanges DEF TypeOK
  <2>6. AbsCall[c] = Abstract!Open(<<"lookup", n, v>>)
    BY <1>1, <2>2, <2>3 DEF AbsCall, CallOf, RequestOf, Abstract!Open
  <2>7. PICK k \in Nat : LogHolds(n, k)
    BY LogEntries DEF LogsHold
  <2>8. Matching(n, v)
        = {r \in Abstract!AllRows :
              r.name = n /\ r.version = IF v = 0 THEN Len(AbsLog[n]) ELSE v}
    <3>1. \A r \in rows :
             r.name = n => (r.version = (IF v = 0 THEN Max(VersionsOf(n)) ELSE v)
                            <=> r.version = IF v = 0 THEN Len(AbsLog[n]) ELSE v)
      <4>1. CASE k = 0
        BY <2>7, <4>1 DEF LogHolds
      <4>2. CASE k # 0
        <5>1. Max(VersionsOf(n)) = k
          <6>1. VersionsOf(n) = 1..k /\ k \in 1..k
            BY <2>7, <4>2 DEF LogHolds
          <6>2. \A x \in 1..k : k >= x
            OBVIOUS
          <6>3. \A x \in 1..k : x >= k => x = k
            OBVIOUS
          <6>. QED BY <6>1, <6>2, <6>3 DEF Max
        <5>2. Len(AbsLog[n]) = k
          BY <2>7 DEF LogHolds, AbsLog
        <5>. QED BY <5>1, <5>2
      <4>. QED BY <4>1, <4>2
    <3>. QED BY <3>1, AbstractRows DEF Matching
  <2>9. CallOf(c)' = Abstract!Decided(AbsCall[c].request, Matching(n, v))
    <3>1. got'[c] = Matching(n, v) /\ pc'[c] = "close"
      BY <2>1, <2>3 DEF TypeOK
    <3>2. RequestOf(c)' = <<"lookup", n, v>> /\ AnswerOf(c)' = got'[c]
      BY <1>1, <2>2, <2>3 DEF RequestOf, AnswerOf
    <3>. QED BY <2>6, <3>1, <3>2 DEF CallOf, Abstract!Open, Abstract!Decided
  <2>10. AbsCall[c].request = <<"lookup", n, v>> /\ AbsCall[c].status = "open"
    BY <2>6 DEF Abstract!Open
  <2>11. AbsCall' = [AbsCall EXCEPT ![c] =
            Abstract!Decided(@.request,
               {r \in Abstract!AllRows : r.name = n /\
                   r.version = IF AbsCall[c].request[3] = 0 THEN Len(AbsLog[n])
                                                            ELSE AbsCall[c].request[3]})]
    <3>1. AbsCall[c].request[3] = v
      BY <2>10
    <3>2. AbsCall' = [AbsCall EXCEPT ![c] = Abstract!Decided(@.request, Matching(n, v))]
      BY <2>5, <2>9, Zenon DEF AbsCall
    <3>. QED BY <2>8, <3>1, <3>2
  <2>12. AbsCall[c].request[1] = "lookup" /\ AbsCall[c].request[2] = n
    BY <2>10
  <2>13. Abstract!Resolve(c)
    <3>. HIDE DEF PublicationInv, AllocationInv
    <3>. QED BY <2>4, <2>10, <2>11, <2>12, Zenon DEF Abstract!Resolve, AbsLog, AbsCall
  <2>. QED BY <2>13 DEF AbstractStep, Abstract!Next
<1>. QED BY <1>2, <1>3

\* ml_models takes effect when its cursor is past the last row.
LEMMA AbstractList ==
    ASSUME PublicationInv, QueryInv, NEW c \in Clients, FetchRow(c)
    PROVE  AbstractStep
<1>. USE DEF PublicationInv, AllocationInv
<1>1. pc[c] = "list" /\ rows' = rows /\ req' = req /\ ver' = ver
  BY DEF FetchRow, disk
<1>2. CASE pc' = pc
  <2>1. /\ pc' = [pc EXCEPT ![c] = "list"]
        /\ \A d \in Clients \ {c} : got'[d] = got[d]
    BY <1>1, <1>2 DEF FetchRow, TypeOK, Goto
  <2>. QED BY <1>1, <2>1, AbstractOpen DEF OpenSteps, PCs, Bodies
<1>3. CASE pc' # pc
  <2>1. rows \subseteq got[c] /\ got' = got /\ pc' = [pc EXCEPT ![c] = "close"]
    BY <1>3 DEF FetchRow, Goto
  <2>2. got[c] = rows /\ req[c].op \notin {"insert", "lookup"}
    BY <1>1, <2>1 DEF QueryInv
  <2>3. AbsLog' = AbsLog
    BY <1>1, SameRowsSameLog
  <2>4. AbsCall' = [AbsCall EXCEPT ![c] = CallOf(c)']
    BY <1>1, <2>1, OneCallChanges DEF TypeOK
  <2>5. AbsCall[c] = Abstract!Open(<<"list">>)
    BY <1>1, <2>2 DEF AbsCall, CallOf, RequestOf, Abstract!Open
  <2>6. CallOf(c)' = Abstract!Decided(AbsCall[c].request, Abstract!AllRows)
    <3>1. got'[c] = Abstract!AllRows /\ pc'[c] = "close"
      BY <2>1, <2>2, AbstractRows DEF TypeOK
    <3>2. RequestOf(c)' = <<"list">> /\ AnswerOf(c)' = got'[c]
      BY <1>1, <2>2 DEF RequestOf, AnswerOf
    <3>. QED BY <2>5, <3>1, <3>2 DEF CallOf, Abstract!Open, Abstract!Decided
  <2>7. AbsCall' = [AbsCall EXCEPT ![c] = Abstract!Decided(@.request, Abstract!AllRows)]
    BY <2>4, <2>6, Zenon DEF AbsCall
  <2>8. Abstract!ListAll(c)
    <3>. HIDE DEF PublicationInv, AllocationInv
    <3>. QED BY <2>3, <2>5, <2>7, Zenon DEF Abstract!ListAll, AbsLog, AbsCall
  <2>. QED BY <2>8 DEF AbstractStep, Abstract!Next
<1>. QED BY <1>2, <1>3

\* Every step of the registry is one of the abstract registry, or none.
LEMMA RefinementStep ==
    ASSUME PublicationInv, QueryInv, LogsHold', NEW c \in Clients,
           \/ StartInsert(c) \/ StartLookup(c) \/ StartList(c)
           \/ Step(c) \/ IOError(c) \/ Crash(c)
    PROVE  AbstractStep
<1>. USE DEF PublicationInv, AllocationInv
<1>1. TypeOK
  OBVIOUS
<1>. HIDE DEF PublicationInv, AllocationInv
<1>. USE DEF Goto, SetLock, disk, Busy, At, OpenSteps, PCs, SchemaSteps, Bodies, InsertSteps,
             InTransaction
<1>2. CASE StartInsert(c) \/ StartLookup(c) \/ StartList(c)
  BY <1>1, <1>2, AbstractInvoke
<1>3. CASE TableExists(c)
  BY <1>1, <1>3, AbstractOpen DEF TableExists
<1>4. CASE ValidateExistingTableSchema(c)
  BY <1>1, <1>4, AbstractOpen DEF ValidateExistingTableSchema, AfterValidation
<1>5. CASE CreateTable(c)
  BY <1>1, <1>5, AbstractOpen DEF CreateTable
<1>6. CASE CreateIndex(c)
  BY <1>1, <1>6, AbstractOpen, BodyIsStep DEF CreateIndex
<1>7. CASE CommitTable(c)
  BY <1>1, <1>7, AbstractOpen DEF CommitTable
<1>8. CASE CommitIndex(c)
  BY <1>1, <1>8, AbstractOpen, BodyIsStep DEF CommitIndex
<1>9. CASE BeginImmediate(c)
  BY <1>1, <1>9, AbstractOpen DEF BeginImmediate
<1>10. CASE NextModelVersion(c)
  BY <1>1, <1>10, AbstractOpen DEF NextModelVersion, TypeOK
<1>11. CASE InsertRow(c)
  BY <1>1, <1>11, AbstractOpen DEF InsertRow
<1>12. CASE LockForCommit(c)
  <2>1. CASE pc' = pc
    BY <1>12, <2>1, AbstractSame DEF LockForCommit
  <2>2. CASE pc' # pc
    BY <1>1, <1>12, <2>2, AbstractOpen DEF LockForCommit, CommitBusy
  <2>. QED BY <2>1, <2>2
<1>13. CASE CommitRow(c)
  BY <1>13, AbstractPublish
<1>14. CASE LoadTimestamp(c)
  <2>1. AbsCall' = [AbsCall EXCEPT ![c] = CallOf(c)']
    BY <1>1, <1>14, OneCallChanges DEF LoadTimestamp, StampBusy, TypeOK
  <2>2. /\ pc[c] = "stamp" /\ pc'[c] \in {"close", "throw"} /\ rows' = rows
        /\ req' = req /\ ver' = ver /\ got' = got
    BY <1>1, <1>14 DEF LoadTimestamp, StampBusy, TypeOK
  <2>3. CASE pc'[c] = "throw"
    BY <2>1, <2>2, <2>3, AbstractFail
  <2>4. CASE pc'[c] = "close"
    <3>1. CallOf(c)' = CallOf(c)
      BY <2>2, <2>4 DEF CallOf, RequestOf, AnswerOf, NewRow, Row
    <3>2. AbsCall' = AbsCall
      BY <2>1, <3>1 DEF AbsCall
    <3>. QED BY <2>2, <3>2, AbstractStutter
  <2>. QED BY <2>2, <2>3, <2>4
<1>15. CASE Rollback(c)
  BY <1>1, <1>15, AbstractOpen DEF Rollback, AfterRollback
<1>16. CASE SelectEntry(c)
  BY <1>16, AbstractResolve
<1>17. CASE OpenCursor(c)
  <2>1. CASE pc' = pc
    BY <1>17, <2>1, AbstractSame DEF OpenCursor
  <2>2. CASE pc' # pc
    BY <1>1, <1>17, <2>2, AbstractOpen DEF OpenCursor
  <2>. QED BY <2>1, <2>2
<1>18. CASE FetchRow(c)
  BY <1>18, AbstractList
<1>19. CASE EndStatement(c)
  BY <1>19, AbstractSame DEF EndStatement
<1>20. CASE Return(c) \/ Throw(c) \/ Crash(c)
  <2>1. Leave(c) /\ pc[c] # "idle"
    BY <1>20 DEF Return, Throw, Crash
  <2>2. AbsCall' = [AbsCall EXCEPT ![c] = CallOf(c)']
    BY <1>1, <2>1, OneCallChanges DEF Leave, TypeOK
  <2>3. pc'[c] = "idle" /\ rows' = rows
    BY <1>1, <2>1 DEF Leave, TypeOK
  <2>. QED BY <2>1, <2>2, <2>3, AbstractFinish
<1>21. CASE IOError(c)
  <2>1. /\ \A d \in Clients \ {c} : pc'[d] = pc[d]
        /\ pc[c] \notin {"idle", "throw", "close"}
        /\ rows' = rows /\ req' = req /\ ver' = ver /\ got' = got
    BY <1>1, <1>21 DEF IOError, TypeOK
  <2>2. CASE pc[c] \in InTransaction
    BY <1>1, <1>21, <2>2, AbstractOpen DEF IOError
  <2>3. CASE pc[c] \notin InTransaction
    <3>1. pc'[c] = "throw"
      BY <1>1, <1>21, <2>3 DEF IOError, TypeOK
    <3>2. AbsCall' = [AbsCall EXCEPT ![c] = CallOf(c)']
      BY <2>1, OneCallChanges
    <3>. QED BY <2>1, <3>1, <3>2, AbstractFail
  <2>. QED BY <2>2, <2>3
<1>. QED BY <1>2, <1>3, <1>4, <1>5, <1>6, <1>7, <1>8, <1>9, <1>10, <1>11, <1>12, <1>13,
          <1>14, <1>15, <1>16, <1>17, <1>18, <1>19, <1>20, <1>21 DEF Step

\* Only fits insert; lookups select and ml_models lists.
LEMMA BodyOfQuery ==
    \A o : /\ Body(o) = "select" => o = "lookup"
           /\ Body(o) = "list" => o \notin {"insert", "lookup"}
  BY DEF Body

\* A query stays what it is, and rows that were fetched are never taken back.
LEMMA QueryStep ==
    ASSUME TypeOK, QueryInv, rows \subseteq rows', NEW c \in Clients,
           \/ StartInsert(c) \/ StartLookup(c) \/ StartList(c)
           \/ Step(c) \/ IOError(c) \/ Crash(c)
    PROVE  QueryInv'
<1>. USE DEF TypeOK, QueryInv, Goto, Busy, At
<1>1. CASE StartInsert(c) \/ StartLookup(c) \/ StartList(c)
  BY <1>1 DEF StartInsert, StartLookup, StartList, Start
<1>2. CASE TableExists(c)
  BY <1>2 DEF TableExists
<1>3. CASE ValidateExistingTableSchema(c)
  BY <1>3 DEF ValidateExistingTableSchema, AfterValidation
<1>4. CASE CreateTable(c)
  BY <1>4 DEF CreateTable
<1>5. CASE CreateIndex(c)
  BY <1>5, BodyOfQuery DEF CreateIndex
<1>6. CASE CommitTable(c)
  BY <1>6 DEF CommitTable
<1>7. CASE CommitIndex(c)
  BY <1>7, BodyOfQuery DEF CommitIndex
<1>8. CASE LockForCommit(c)
  BY <1>8 DEF LockForCommit, CommitBusy
<1>9. CASE BeginImmediate(c) \/ NextModelVersion(c) \/ InsertRow(c)
  BY <1>9 DEF BeginImmediate, NextModelVersion, InsertRow
<1>10. CASE CommitRow(c) \/ LoadTimestamp(c) \/ Rollback(c)
  BY <1>10 DEF CommitRow, LoadTimestamp, StampBusy, Rollback, AfterRollback
<1>11. CASE SelectEntry(c)
  <2>1. \A n, v : Matching(n, v) \subseteq rows
    BY DEF Matching
  <2>. QED BY <1>11, <2>1 DEF SelectEntry
<1>12. CASE OpenCursor(c)
  BY <1>12 DEF OpenCursor
<1>13. CASE FetchRow(c)
  BY <1>13 DEF FetchRow
<1>14. CASE EndStatement(c)
  BY <1>14 DEF EndStatement
<1>15. CASE Return(c) \/ Throw(c) \/ Crash(c)
  BY <1>15 DEF Return, Throw, Crash, Leave
<1>16. CASE IOError(c)
  BY <1>16 DEF IOError
<1>. QED BY <1>1, <1>2, <1>3, <1>4, <1>5, <1>6, <1>7, <1>8, <1>9, <1>10, <1>11, <1>12,
          <1>13, <1>14, <1>15, <1>16 DEF Step

\* The invariant of the queries, for every reachable state.
LEMMA QueryCorrect == Spec => []QueryInv
<1>1. Init => QueryInv
  BY DEF Init, QueryInv
<1>2. TypeOK /\ QueryInv /\ [Next]_vars => QueryInv'
  <2>1. ASSUME TypeOK, QueryInv, Next PROVE QueryInv'
    <3>1. PICK c \in Clients : \/ StartInsert(c) \/ StartLookup(c) \/ StartList(c)
                               \/ Step(c) \/ IOError(c) \/ Crash(c)
      BY <2>1 DEF Next
    <3>2. rows \subseteq rows'
      BY <3>1, RowsStep DEF CommitRow
    <3>. QED BY <2>1, <3>1, <3>2, QueryStep
  <2>2. ASSUME QueryInv, UNCHANGED vars PROVE QueryInv'
    BY <2>2 DEF vars, disk, QueryInv
  <2>. QED BY <2>1, <2>2
<1>. QED BY <1>1, <1>2, TypeCorrect, PTL DEF Spec

\* A fresh file is an empty registry, and nobody has called it.
LEMMA RefinementInit ==
    ASSUME Init
    PROVE  Abstract!Init
<1>1. ASSUME NEW n \in Names PROVE LogOf(n) = <<>>
  <2>1. VersionsOf(n) = {}
    BY DEF Init, VersionsOf
  <2>2. Cardinality(VersionsOf(n)) = 0
    BY <2>1, FS_EmptySet
  <2>. QED BY <2>2 DEF LogOf
<1>2. ASSUME NEW c \in Clients PROVE CallOf(c) = Abstract!Idle
  BY DEF Init, CallOf, Abstract!Idle
<1>. QED BY <1>1, <1>2 DEF Abstract!Init

\* The registry implements the versioned registry: a fit takes effect when its
\* transaction commits, a lookup when its SELECT runs, ml_models when its cursor
\* has passed the last row, and every other statement of every client, every
\* failure and every crash is invisible to the other callers.
THEOREM RegistryIsVersioned == Spec => ImplementsVersionedRegistry
<1>1. Init => Abstract!Init
  BY RefinementInit
<1>2. ASSUME PublicationInv, QueryInv, LogsHold', [Next]_vars
      PROVE  AbstractStep
  <2>1. CASE Next
    BY <1>2, <2>1, RefinementStep DEF Next
  <2>2. CASE UNCHANGED vars
    BY <2>2, AbstractSame DEF vars, disk
  <2>. QED BY <1>2, <2>1, <2>2
<1>3. PublicationInv => LogsHold
  BY LogEntries
<1>4. PublicationInv /\ QueryInv /\ LogsHold' /\ [Next]_vars
      => [Abstract!Next]_(Abstract!vars)
  BY <1>2 DEF AbstractStep
<1>. QED BY <1>1, <1>3, <1>4, PublicationCorrect, QueryCorrect, PTL
         DEF Spec, ImplementsVersionedRegistry, Abstract!Spec

=============================================================================
