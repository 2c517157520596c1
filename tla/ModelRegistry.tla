--------------------------- MODULE ModelRegistry ---------------------------
(***************************************************************************)
(* storage/model_registry.cpp: InsertModelRegistryEntry (ml_fit),          *)
(* LoadModelRegistryEntry (ml_predict, ml_evaluate, ml_explain) and        *)
(* LoadAllModelRegistryEntries (ml_models), run by several processes       *)
(* against one SQLite file.  A client is a process with one call open at a *)
(* time; every call opens its own connection and every action below is one *)
(* SQL statement of it (or the release of the lock the statement held), so *)
(* the calls interleave between statements.                                *)
(*                                                                         *)
(* SQLite is external: a rollback-journal database whose only visible      *)
(* behaviour here is its file locks.  A statement reads under SHARED, a    *)
(* write transaction holds RESERVED from its start, and a commit needs     *)
(* EXCLUSIVE.  The code installs no busy handler, so a statement that      *)
(* cannot get its lock fails at once with SQLITE_BUSY and the call throws. *)
(***************************************************************************)
EXTENDS Naturals, Sequences, FiniteSets, FiniteSetsExt, SequencesExt

CONSTANTS
    Clients,      \* processes that share the registry file
    Names,        \* model names
    NoName,       \* stands where a call has no name
    MaxFits,      \* bound: fits started over the whole run
    StartTables,  \* tables the file may start with
    Faults        \* which faults happen: "io" a statement fails, "crash" a process dies

ASSUME NoNameAssumption == NoName \notin Names
ASSUME MaxFitsAssumption == MaxFits \in Nat
ASSUME StartAssumption == StartTables \subseteq {"absent", "ours", "foreign"}
ASSUME FaultsAssumption == Faults \subseteq {"io", "crash"}

VARIABLES
    table,      \* table duckdb_ml_models: absent, created by the extension, or foreign
    indexed,    \* whether idx_duckdb_ml_models_latest exists
    rows,       \* committed rows
    lock,       \* lock[c]: file lock of c's connection
    pc,         \* pc[c]: the statement c runs next
    req,        \* req[c]: the arguments of c's call
    ver,        \* ver[c]: version allocated by c's fit, 0 before
    got,        \* got[c]: rows c's query has fetched
    seesIndex,  \* seesIndex[c]: the index is in c's cached schema
    fits,       \* number of fits started; a fit's number stands for its blob
    acked,      \* acked[f]: the version returned to the caller of fit f, 0 if none
    refused     \* fits whose call threw

disk == <<table, indexed, rows>>
ghosts == <<fits, acked, refused>>
vars == <<disk, lock, pc, req, ver, got, seesIndex, ghosts>>

Fits == 1..MaxFits
Row(n, v, b) == [name |-> n, version |-> v, blob |-> b]
Rows == [name : Names, version : Nat \ {0}, blob : Fits]

Locks == {"none", "shared", "reserved", "pending", "exclusive"}
Request(o, n, v, b) == [op |-> o, name |-> n, version |-> v, blob |-> b]
Requests ==
    [op : {"insert"}, name : Names, version : {0}, blob : Fits]
    \union [op : {"lookup"}, name : Names, version : 0..MaxFits, blob : {0}]
    \union [op : {"list", "none"}, name : {NoName}, version : {0}, blob : {0}]
NoRequest == Request("none", NoName, 0, 0)

\* Statements of EnsureRegistrySchema, then those of each kind of call.
SchemaSteps == {"exists", "validate", "create", "createCommit", "index", "indexCommit"}
InTransaction == {"next", "row", "commit"}
InsertSteps == InTransaction \union {"begin", "stamp", "rollback"}
Bodies == InsertSteps \union {"select", "list"}
PCs == SchemaSteps \union Bodies \union {"idle", "close", "throw"}

\* Definitions without a use below are changed forms of the one that follows
\* them: what a property must notice.

Body(o) == CASE o = "insert" -> "begin" [] o = "lookup" -> "select" [] OTHER -> "list"

-----------------------------------------------------------------------------
\* SQLite's file locks.

Others(c) == Clients \ {c}
CanShare(c) == \A d \in Others(c) : lock[d] \notin {"pending", "exclusive"}
CanReserve(c) == \A d \in Others(c) : lock[d] \notin {"reserved", "pending", "exclusive"}
CanExclude(c) == \A d \in Others(c) : lock[d] = "none"

\* c is between statements and about to run statement p.
At(c, p) == pc[c] = p /\ lock[c] = "none"

Goto(c, p) == pc' = [pc EXCEPT ![c] = p]
SetLock(c, l) == lock' = [lock EXCEPT ![c] = l]

\* SQLITE_BUSY outside a transaction: the statement throws and holds nothing.
Busy(c) ==
    /\ Goto(c, "throw")
    /\ UNCHANGED <<disk, lock, req, ver, got, seesIndex, ghosts>>

\* A statement that has returned its row is finalized and drops SHARED.
EndStatement(c) ==
    /\ lock[c] = "shared"
    /\ pc[c] \notin {"list", "close", "throw"}
    /\ SetLock(c, "none")
    /\ UNCHANGED <<disk, pc, req, ver, got, seesIndex, ghosts>>

-----------------------------------------------------------------------------
Init ==
    /\ table \in StartTables
    /\ indexed \in (IF table = "ours" THEN BOOLEAN ELSE {FALSE})
    /\ rows = {}
    /\ lock = [c \in Clients |-> "none"]
    /\ pc = [c \in Clients |-> "idle"]
    /\ req = [c \in Clients |-> NoRequest]
    /\ ver = [c \in Clients |-> 0]
    /\ got = [c \in Clients |-> {}]
    /\ seesIndex = [c \in Clients |-> FALSE]
    /\ fits = 0
    /\ acked = [f \in Fits |-> 0]
    /\ refused = {}

\* A call opens its own connection; nothing is read or locked yet.
Start(c, request) ==
    /\ pc[c] = "idle"
    /\ Goto(c, "exists")
    /\ req' = [req EXCEPT ![c] = request]
    /\ UNCHANGED <<disk, lock, ver, got, seesIndex, acked, refused>>

StartInsert(c) ==
    /\ fits < MaxFits
    /\ fits' = fits + 1
    /\ \E n \in Names : Start(c, Request("insert", n, 0, fits + 1))

StartLookup(c) ==
    /\ \E n \in Names, v \in 0..MaxFits : Start(c, Request("lookup", n, v, 0))
    /\ UNCHANGED fits

StartList(c) ==
    /\ Start(c, Request("list", NoName, 0, 0))
    /\ UNCHANGED fits

-----------------------------------------------------------------------------
\* EnsureRegistrySchema: every statement is its own autocommit transaction.

TableExists(c) ==
    /\ At(c, "exists")
    /\ \/ /\ CanShare(c)
          /\ SetLock(c, "shared")
          /\ Goto(c, IF table = "absent" THEN "create" ELSE "validate")
          /\ seesIndex' = [seesIndex EXCEPT ![c] = indexed]
          /\ UNCHANGED <<disk, req, ver, got, ghosts>>
       \/ ~CanShare(c) /\ Busy(c)

AcceptsAnyTable(c) == "index"
IndexesNewTablesOnly(c) == IF table = "foreign" THEN "throw" ELSE Body(req[c].op)

AfterValidation(c) == IF table = "foreign" THEN "throw" ELSE "index"

ValidateExistingTableSchema(c) ==
    /\ At(c, "validate")
    /\ \/ /\ CanShare(c)
          /\ SetLock(c, "shared")
          /\ Goto(c, AfterValidation(c))
          /\ seesIndex' = [seesIndex EXCEPT ![c] = indexed]
          /\ UNCHANGED <<disk, req, ver, got, ghosts>>
       \/ ~CanShare(c) /\ Busy(c)

\* The statement was compiled against a schema without the table, so it takes
\* RESERVED first and only then finds the table that another call has created.
CreateTable(c) ==
    /\ At(c, "create")
    /\ \/ /\ CanReserve(c)
          /\ table = "absent"
          /\ SetLock(c, "reserved")
          /\ Goto(c, "createCommit")
          /\ UNCHANGED <<disk, req, ver, got, seesIndex, ghosts>>
       \/ /\ CanReserve(c)
          /\ table # "absent"
          /\ Goto(c, "index")
          /\ seesIndex' = [seesIndex EXCEPT ![c] = indexed]
          /\ UNCHANGED <<disk, lock, req, ver, got, ghosts>>
       \/ ~CanReserve(c) /\ Busy(c)

\* With the index in the cached schema the statement only reads.
CreateIndex(c) ==
    /\ At(c, "index")
    /\ \/ /\ seesIndex[c]
          /\ CanShare(c)
          /\ SetLock(c, "shared")
          /\ Goto(c, Body(req[c].op))
          /\ UNCHANGED <<disk, req, ver, got, seesIndex, ghosts>>
       \/ /\ ~seesIndex[c]
          /\ CanReserve(c)
          /\ ~indexed
          /\ SetLock(c, "reserved")
          /\ Goto(c, "indexCommit")
          /\ UNCHANGED <<disk, req, ver, got, seesIndex, ghosts>>
       \/ /\ ~seesIndex[c]
          /\ CanReserve(c)
          /\ indexed
          /\ Goto(c, Body(req[c].op))
          /\ UNCHANGED <<disk, lock, req, ver, got, seesIndex, ghosts>>
       \/ ~(IF seesIndex[c] THEN CanShare(c) ELSE CanReserve(c)) /\ Busy(c)

-----------------------------------------------------------------------------
\* InsertModelRegistryEntry

BeginImmediate(c) ==
    /\ At(c, "begin")
    /\ \/ /\ CanReserve(c)
          /\ SetLock(c, "reserved")
          /\ Goto(c, "next")
          /\ UNCHANGED <<disk, req, ver, got, seesIndex, ghosts>>
       \/ ~CanReserve(c) /\ Busy(c)

VersionsOf(n) == {r.version : r \in {x \in rows : x.name = n}}

NextVersionAcrossNames(n) == Max({r.version : r \in rows} \union {0}) + 1

NextVersion(n) == Max(VersionsOf(n) \union {0}) + 1

AllocatedVersion(c) == NextVersion(req[c].name)

NextModelVersion(c) ==
    /\ pc[c] = "next"
    /\ ver' = [ver EXCEPT ![c] = AllocatedVersion(c)]
    /\ Goto(c, "row")
    /\ UNCHANGED <<disk, lock, req, got, seesIndex, ghosts>>

NewRow(c) == Row(req[c].name, ver[c], req[c].blob)

\* PRIMARY KEY (model_name, model_version)
KeyIsFree(c) == ver[c] \notin VersionsOf(req[c].name)

InsertRow(c) ==
    /\ pc[c] = "row"
    /\ Goto(c, IF KeyIsFree(c) THEN "commit" ELSE "rollback")
    /\ UNCHANGED <<disk, lock, req, ver, got, seesIndex, ghosts>>

CommitWaits(c) == FALSE

\* COMMIT that meets a reader keeps PENDING until the ROLLBACK of the handler;
\* an autocommit statement is rolled back by SQLite itself.
CommitBusy(c) ==
    /\ ~CanExclude(c)
    /\ SetLock(c, IF pc[c] = "commit" THEN "pending" ELSE "none")
    /\ Goto(c, IF pc[c] = "commit" THEN "rollback" ELSE "throw")

LockForCommit(c) ==
    /\ pc[c] \in {"createCommit", "indexCommit", "commit"}
    /\ lock[c] = "reserved"
    /\ \/ /\ CanExclude(c)
          /\ SetLock(c, "exclusive")
          /\ UNCHANGED pc
       \/ CommitBusy(c)
    /\ UNCHANGED <<disk, req, ver, got, seesIndex, ghosts>>

CommitTable(c) ==
    /\ pc[c] = "createCommit"
    /\ lock[c] = "exclusive"
    /\ table' = "ours"
    /\ SetLock(c, "none")
    /\ Goto(c, "index")
    /\ UNCHANGED <<indexed, rows, req, ver, got, seesIndex, ghosts>>

CommitIndex(c) ==
    /\ pc[c] = "indexCommit"
    /\ lock[c] = "exclusive"
    /\ indexed' = TRUE
    /\ SetLock(c, "none")
    /\ Goto(c, Body(req[c].op))
    /\ UNCHANGED <<table, rows, req, ver, got, seesIndex, ghosts>>

CommitRow(c) ==
    /\ pc[c] = "commit"
    /\ lock[c] = "exclusive"
    /\ rows' = rows \union {NewRow(c)}
    /\ SetLock(c, "none")
    /\ Goto(c, "stamp")
    /\ UNCHANGED <<table, indexed, req, ver, got, seesIndex, ghosts>>

StampRetries(c) ==
    /\ ~CanShare(c)
    /\ Goto(c, "begin")
    /\ UNCHANGED <<disk, lock, req, ver, got, seesIndex, ghosts>>

StampBusy(c) == ~CanShare(c) /\ Busy(c)

\* The version is committed already: if this read fails, the call throws and
\* transaction_started is FALSE, so nothing is undone.
LoadTimestamp(c) ==
    /\ At(c, "stamp")
    /\ \/ /\ CanShare(c)
          /\ SetLock(c, "shared")
          /\ Goto(c, IF NewRow(c) \in rows THEN "close" ELSE "throw")
          /\ UNCHANGED <<disk, req, ver, got, seesIndex, ghosts>>
       \/ StampBusy(c)

SwallowsError == "close"
AfterRollback == "throw"

\* An error of the ROLLBACK is swallowed; closing the connection rolls back too.
Rollback(c) ==
    /\ pc[c] = "rollback"
    /\ SetLock(c, "none")
    /\ Goto(c, AfterRollback)
    /\ UNCHANGED <<disk, req, ver, got, seesIndex, ghosts>>

-----------------------------------------------------------------------------
\* LoadModelRegistryEntry and LoadAllModelRegistryEntries

MatchingOldest(n, v) ==
    {r \in rows : /\ r.name = n
                  /\ r.version = IF v = 0 THEN Min(VersionsOf(n)) ELSE v}

\* Version 0 selects ORDER BY model_version DESC LIMIT 1.
Matching(n, v) ==
    {r \in rows : /\ r.name = n
                  /\ r.version = IF v = 0 THEN Max(VersionsOf(n)) ELSE v}

\* An empty result is the answer "No trained model named".
SelectEntry(c) ==
    /\ At(c, "select")
    /\ \/ /\ CanShare(c)
          /\ SetLock(c, "shared")
          /\ got' = [got EXCEPT ![c] = Matching(req[c].name, req[c].version)]
          /\ Goto(c, "close")
          /\ UNCHANGED <<disk, req, ver, seesIndex, ghosts>>
       \/ ~CanShare(c) /\ Busy(c)

\* The first sqlite3_step takes SHARED and keeps it until the last row.
OpenCursor(c) ==
    /\ At(c, "list")
    /\ \/ /\ CanShare(c)
          /\ SetLock(c, "shared")
          /\ UNCHANGED <<disk, pc, req, ver, got, seesIndex, ghosts>>
       \/ ~CanShare(c) /\ Busy(c)

FetchRow(c) ==
    /\ pc[c] = "list"
    /\ lock[c] = "shared"
    /\ \/ /\ \E r \in rows \ got[c] : got' = [got EXCEPT ![c] = @ \union {r}]
          /\ UNCHANGED pc
       \/ /\ rows \subseteq got[c]
          /\ Goto(c, "close")
          /\ UNCHANGED got
    /\ UNCHANGED <<disk, lock, req, ver, seesIndex, ghosts>>

-----------------------------------------------------------------------------
\* The destructors finalize the statement and close the connection, which
\* drops its lock; then the caller sees the answer or the exception.
Leave(c) ==
    /\ Goto(c, "idle")
    /\ SetLock(c, "none")
    /\ req' = [req EXCEPT ![c] = NoRequest]
    /\ ver' = [ver EXCEPT ![c] = 0]
    /\ got' = [got EXCEPT ![c] = {}]
    /\ seesIndex' = [seesIndex EXCEPT ![c] = FALSE]
    /\ UNCHANGED <<disk, fits>>

Return(c) ==
    /\ pc[c] = "close"
    /\ acked' = [f \in Fits |-> IF f = req[c].blob THEN ver[c] ELSE acked[f]]
    /\ UNCHANGED refused
    /\ Leave(c)

Throw(c) ==
    /\ pc[c] = "throw"
    /\ refused' = refused \union ({req[c].blob} \ {0})
    /\ UNCHANGED acked
    /\ Leave(c)

\* A statement fails for a reason other than BUSY (disk full, read error).
IOError(c) ==
    /\ "io" \in Faults
    /\ pc[c] \notin {"idle", "close", "throw", "rollback"}
    /\ lock[c] = "shared" => pc[c] = "list"
    /\ IF pc[c] \in InTransaction
         THEN Goto(c, "rollback") /\ UNCHANGED lock
         ELSE Goto(c, "throw") /\ SetLock(c, "none")
    /\ UNCHANGED <<disk, req, ver, got, seesIndex, ghosts>>

\* The operating system drops the locks of a dead process, and the journal
\* takes back what it had not committed.  Nobody is answered.
Crash(c) ==
    /\ "crash" \in Faults
    /\ pc[c] # "idle"
    /\ UNCHANGED <<acked, refused>>
    /\ Leave(c)

Step(c) ==
    \/ TableExists(c) \/ ValidateExistingTableSchema(c)
    \/ CreateTable(c) \/ CreateIndex(c) \/ CommitTable(c) \/ CommitIndex(c)
    \/ BeginImmediate(c) \/ NextModelVersion(c) \/ InsertRow(c)
    \/ LockForCommit(c) \/ CommitRow(c) \/ LoadTimestamp(c) \/ Rollback(c)
    \/ SelectEntry(c) \/ OpenCursor(c) \/ FetchRow(c)
    \/ EndStatement(c) \/ Return(c) \/ Throw(c)

Next ==
    \E c \in Clients :
        \/ StartInsert(c) \/ StartLookup(c) \/ StartList(c)
        \/ Step(c)
        \/ IOError(c) \/ Crash(c)

Spec == Init /\ [][Next]_vars

-----------------------------------------------------------------------------
TypeOK ==
    /\ table \in {"absent", "ours", "foreign"}
    /\ indexed \in BOOLEAN
    /\ rows \subseteq Rows /\ IsFiniteSet(rows)
    /\ lock \in [Clients -> Locks]
    /\ pc \in [Clients -> PCs]
    /\ req \in [Clients -> Requests]
    /\ ver \in [Clients -> Nat]
    /\ got \in [Clients -> SUBSET Rows]
    /\ seesIndex \in [Clients -> BOOLEAN]
    /\ fits \in 0..MaxFits
    /\ acked \in [Fits -> Nat]
    /\ refused \subseteq Fits

\* The versions of a name are 1..k without a gap, whatever fits of other names,
\* rollbacks and crashes come in between (NextModelVersion under BEGIN IMMEDIATE).
VersionsContiguous ==
    \A n \in Names : VersionsOf(n) = 1..Cardinality(VersionsOf(n))

\* A fit about to commit still holds the version that follows the committed
\* ones: nobody has committed since its SELECT MAX, so the INSERT never meets
\* the primary key.
AllocationIsCurrent ==
    \A c \in Clients :
        pc[c] \in {"row", "commit"} => ver[c] = NextVersion(req[c].name)

\* Two rows never share a (name, version) key or the blob of one fit: no fit is
\* published twice, and none is published over another.
EveryRowIsOneFit ==
    \A r, s \in rows :
        \/ r.name = s.name /\ r.version = s.version
        \/ r.blob = s.blob
        => r = s

\* A version that ml_fit returned to its caller is in the registry, under that
\* number and with that fit's blob, for ever after.
AckedIsStored ==
    \A f \in Fits :
        acked[f] # 0 => \E r \in rows : r.version = acked[f] /\ r.blob = f

\* Every query and every transaction runs on the extension's own table with
\* its index in place, whoever bootstrapped the file and wherever that stopped.
SchemaReadyBeforeUse ==
    \A c \in Clients : pc[c] \in Bodies => table = "ours" /\ indexed

\* A table that is not the extension's is left as it was found.
ForeignTableUntouched == table = "foreign" => rows = {} /\ ~indexed

\* What SQLite's locks give a call at each of its steps, for the induction: one
\* writer at a time, alone while it commits; a call in its transaction holds the
\* write lock, and a call that has ended or failed outside one holds none.
LockProtocol ==
    \A c \in Clients :
        /\ pc[c] \in InTransaction => lock[c] \in {"reserved", "exclusive"}
        /\ pc[c] \in {"idle", "exists", "begin", "stamp"} => lock[c] \in {"none", "shared"}
        /\ pc[c] = "idle" => lock[c] = "none"
        /\ \A d \in Others(c) :
              /\ lock[c] \in {"reserved", "pending", "exclusive"} =>
                    lock[d] \in {"none", "shared"}
              /\ lock[c] = "exclusive" => lock[d] = "none"

\* A transaction belongs to a fit, a query to another call.
RequestFitsStep ==
    \A c \in Clients :
        /\ pc[c] \in InsertSteps => req[c].op = "insert"
        /\ pc[c] \in {"select", "list"} => req[c].op # "insert"

\* Fits in flight and committed rows carry different blobs, until a fit commits
\* its own; after that its row is there.
FitsAreDistinct ==
    /\ \A r \in rows : r.blob <= fits
    /\ \A c \in Clients :
          /\ req[c].blob <= fits
          /\ \A d \in Others(c) : req[c].blob = req[d].blob => req[c].blob = 0
          /\ pc[c] \in SchemaSteps \union InTransaction \union {"begin", "rollback"} =>
                \A r \in rows : r.blob # req[c].blob
          /\ pc[c] \in {"stamp", "close"} /\ req[c].op = "insert" => NewRow(c) \in rows

\* The inductive invariants: why versions are allocated without gaps or clashes,
\* and why what was answered is stored.
AllocationInv ==
    TypeOK /\ RequestFitsStep /\ LockProtocol /\ VersionsContiguous /\ AllocationIsCurrent

PublicationInv ==
    AllocationInv /\ FitsAreDistinct /\ EveryRowIsOneFit /\ AckedIsStored

\* A fit that threw has published nothing (what a caller that retries assumes).
FailedFitLeavesNoRow ==
    \A r \in rows : r.blob \notin refused

\* No call ever waits for another: whatever locks the others hold, its next
\* statement can run, if only to fail with SQLITE_BUSY.
CallsNeverWait == \A c \in Clients : pc[c] # "idle" => ENABLED Step(c)

\* Nor does one retry: a call goes through its statements in their order and
\* never back, so that it ends, with an answer or an exception.
StatementOrder ==
    <<"exists", "validate", "create", "createCommit", "index", "indexCommit",
      "begin", "next", "row", "commit", "rollback", "stamp", "select", "list",
      "close", "throw", "idle">>
PlaceOf(p) == SelectInSeq(StatementOrder, LAMBDA q : q = p)
CallsMoveForward ==
    [][\A c \in Clients : pc[c] # "idle" => PlaceOf(pc[c]) <= PlaceOf(pc'[c])]_vars

-----------------------------------------------------------------------------
\* VersionedRegistry, with CommitRow and the queries' reads as the instants at
\* which the calls take effect.

LogOf(n) ==
    [v \in 1..Cardinality(VersionsOf(n)) |->
        (CHOOSE r \in rows : r.name = n /\ r.version = v).blob]

RequestOf(c) ==
    CASE req[c].op = "insert" -> <<"insert", req[c].name, req[c].blob>>
      [] req[c].op = "lookup" -> <<"lookup", req[c].name, req[c].version>>
      [] OTHER -> <<"list">>

AnswerOf(c) == IF req[c].op = "insert" THEN {NewRow(c)} ELSE got[c]

CallOf(c) ==
    CASE pc[c] = "idle" -> [status |-> "idle"]
      [] pc[c] = "throw" -> [status |-> "failed"]
      [] pc[c] \in {"stamp", "close"} ->
            [status |-> "decided", request |-> RequestOf(c), answer |-> AnswerOf(c)]
      [] OTHER -> [status |-> "open", request |-> RequestOf(c)]

Abstract == INSTANCE VersionedRegistry WITH
    Payloads <- Fits,
    Versions <- 0..MaxFits,
    log <- [n \in Names |-> LogOf(n)],
    call <- [c \in Clients |-> CallOf(c)]

\* Each call takes effect atomically between its start and its answer: a lookup
\* of the latest version sees every fit answered before it began, an exact
\* lookup finds its version, ml_models lists one state of the registry.
ImplementsVersionedRegistry == Abstract!Spec

=============================================================================
