----------------------------- MODULE Collection -----------------------------
(***************************************************************************)
(* A collection: versioned documents over the record store, snapshots,     *)
(* optimistic transactions, vacuum and index rebuild (annex/db.py,         *)
(* annex/mvcc.py).                                                         *)
(*                                                                         *)
(* Writers hold the collection lock from begin to end, so at most one      *)
(* write call is running; `job' is what it still has to do and `pc' its    *)
(* next step.  Readers take no lock: they run between the steps of a       *)
(* write, and what a search found it looks up again in a later step.       *)
(*                                                                         *)
(* The record store is what DurableMap promises of it: put() and delete()  *)
(* are logged at one instant; flush() and compact() change nothing here.   *)
(* Vector, metadata and text are one value, and the indexes hold the keys  *)
(* of `versions'.  What a search at a sequence number finds is View.       *)
(***************************************************************************)
EXTENDS Integers, Sequences, FiniteSets, FiniteSetsExt

CONSTANTS
  Docs, Values, Readers, Txns,
  NoVal,       \* the value of a document that is not there
  INF,         \* the `dead' of a live version
  StoreFaults, \* put() and delete() of the store may raise
  MaxSeq,      \* bound: sequence numbers
  MaxBatch,    \* bound: writes of one transaction or upsert_many()
  MaxRebuilds, \* bound: calls of rebuild_index()
  MaxCrashes   \* bound: crashes and restarts

ASSUME ValuesAssumption == NoVal \notin Values /\ Docs # {}
ASSUME BoundsAssumption ==
  /\ MaxSeq \in Nat /\ INF \in Nat /\ INF > MaxSeq
  /\ MaxBatch \in Nat /\ MaxRebuilds \in Nat /\ MaxCrashes \in Nat
  /\ StoreFaults \in BOOLEAN

VARIABLES
  stored,    \* the record store: last logged record of each document
  seq,       \* store.seq
  versions,  \* _versions: key -> version
  current,   \* _current: document -> key
  nextKey,   \* _next_key
  open,      \* the snapshot registry: reader -> pinned sequence number
  pc, job,   \* the running write call
  reader,    \* where each thread that reads through a snapshot is
  txn,       \* the transactions
  history,   \* history: the documents as of each sequence number
  outcomes,  \* history: what a running commit may leave in the store
  rebuilds, crashes,
  raised     \* history: the store has raised since the collection was opened

store == <<stored, seq, history>>
tables == <<versions, current, nextKey>>
writer == <<pc, job>>
others == <<open, reader, txn>>
bounds == <<rebuilds, crashes, raised>>
vars == <<store, tables, writer, others, outcomes, bounds>>

-----------------------------------------------------------------------------
EmptyFcn == [x \in {} |-> 0]
Without(f, x) == [y \in DOMAIN f \ {x} |-> f[y]]
With(f, x, v) == [y \in DOMAIN f \cup {x} |-> IF y = x THEN v ELSE f[y]]

Upsertion(d, v) == [op |-> "upsert", doc |-> d, val |-> v]
Deletion(d) == [op |-> "delete", doc |-> d, val |-> NoVal]
Writes == {Upsertion(d, v) : d \in Docs, v \in Values} \cup {Deletion(d) : d \in Docs}
Batches == UNION {[1..n -> {Upsertion(d, v) : d \in Docs, v \in Values}] : n \in 1..MaxBatch}

VisibleAt(ver, s) == ver.born <= s /\ s < ver.dead
\* What a reader at sequence number s finds: the documents of the visible versions.
View(s) == {[doc |-> versions[k].doc, val |-> versions[k].val] :
              k \in {j \in DOMAIN versions : VisibleAt(versions[j], s)}}

\* The documents of a store: those of its records that are no tombstones.
Documents(m) == {[doc |-> d, val |-> m[d].val] : d \in {e \in Docs : m[e].val # NoVal}}

NoJob == [queue |-> <<>>, key |-> 0, dead |-> {}, txns |-> {}]
\* found: what a search in progress has found, as [key, doc, val];
\* settled: history, the snapshot was taken between writes and not rebuilt under.
AtRest == [pc |-> "idle", snap |-> 0, found |-> {}, settled |-> FALSE]
NoTxn == [start |-> 0, ops |-> <<>>, active |-> FALSE]

Init ==
  /\ stored = [d \in Docs |-> [seq |-> 0, val |-> NoVal]] /\ seq = 0
  /\ history = [s \in 0..MaxSeq |-> {}]
  /\ versions = EmptyFcn /\ current = EmptyFcn /\ nextKey = 0
  /\ pc = "idle" /\ job = NoJob
  /\ open = EmptyFcn /\ reader = [r \in Readers |-> AtRest]
  /\ txn = [t \in Txns |-> NoTxn]
  /\ outcomes = {} /\ rebuilds = 0 /\ crashes = 0 /\ raised = FALSE

-----------------------------------------------------------------------------
(* Write calls: the lock is taken, the writes of the queue are applied one   *)
(* after the other, the lock is released.                                    *)

Begin(queue, txns, results) ==
  /\ pc = "idle"
  /\ seq + Len(queue) <= MaxSeq
  /\ pc' = "next" /\ job' = [NoJob EXCEPT !.queue = queue, !.txns = txns]
  /\ outcomes' = results
  /\ UNCHANGED <<store, tables, others, bounds>>

Upsert(d, v) == Begin(<<Upsertion(d, v)>>, {}, {})
UpsertMany(batch) == Begin(batch, {}, {})
Delete(d) == Begin(<<Deletion(d)>>, {}, {})

\* The write at the head of the queue is applied.  The call returns with the
\* last one, and a transaction is then done.
AfterWrite ==
  IF Len(job.queue) = 1
  THEN /\ pc' = "idle" /\ job' = NoJob /\ outcomes' = {}
       /\ txn' = [t \in Txns |-> IF t \in job.txns THEN NoTxn ELSE txn[t]]
  ELSE /\ pc' = "next" /\ job' = [job EXCEPT !.queue = Tail(@), !.key = 0]
       /\ UNCHANGED <<outcomes, txn>>

InHand == Head(job.queue)

\* The store logs the write in hand under the next sequence number.
LogRecord ==
  /\ seq' = seq + 1
  /\ stored' = [stored EXCEPT ![InHand.doc] = [seq |-> seq', val |-> InHand.val]]
  /\ history' = [history EXCEPT ![seq'] = Documents(stored')]

\* _apply_upsert: log, kill the old version, publish the new one, name it current.
UpsertLog ==
  /\ pc = "next" /\ InHand.op = "upsert"
  /\ LogRecord
  /\ pc' = "supersede"
  /\ UNCHANGED <<tables, job, others, outcomes, bounds>>

\* Mutant: the old version dies one sequence number too late.
UpsertSupersedeLate ==
  /\ pc = "supersede"
  /\ versions' = IF InHand.doc \in DOMAIN current
                 THEN [versions EXCEPT ![current[InHand.doc]].dead = seq + 1]
                 ELSE versions
  /\ pc' = "publish"
  /\ UNCHANGED <<store, current, nextKey, job, others, outcomes, bounds>>

UpsertSupersede ==
  /\ pc = "supersede"
  /\ versions' = IF InHand.doc \in DOMAIN current
                 THEN [versions EXCEPT ![current[InHand.doc]].dead = seq]
                 ELSE versions
  /\ pc' = "publish"
  /\ UNCHANGED <<store, current, nextKey, job, others, outcomes, bounds>>

UpsertPublish ==
  /\ pc = "publish"
  /\ versions' = With(versions, nextKey,
       [doc |-> InHand.doc, born |-> seq, dead |-> INF, val |-> InHand.val])
  /\ job' = [job EXCEPT !.key = nextKey]
  /\ nextKey' = nextKey + 1
  /\ pc' = "current"
  /\ UNCHANGED <<store, current, others, outcomes, bounds>>

UpsertCurrent ==
  /\ pc = "current"
  /\ current' = With(current, InHand.doc, job.key)
  /\ AfterWrite
  /\ UNCHANGED <<store, versions, nextKey, open, reader, bounds>>

\* delete: forget the key, log, kill the version.  A document that is not
\* there is skipped.
DeletePop ==
  /\ pc = "next" /\ InHand.op = "delete"
  /\ IF InHand.doc \in DOMAIN current
     THEN /\ job' = [job EXCEPT !.key = current[InHand.doc]]
          /\ current' = Without(current, InHand.doc)
          /\ pc' = "log_delete"
          /\ UNCHANGED <<outcomes, txn>>
     ELSE AfterWrite /\ UNCHANGED current
  /\ UNCHANGED <<store, versions, nextKey, open, reader, bounds>>

DeleteLog ==
  /\ pc = "log_delete"
  /\ LogRecord
  /\ pc' = "mark_dead"
  /\ UNCHANGED <<tables, job, others, outcomes, bounds>>

DeleteMarkDead ==
  /\ pc = "mark_dead"
  /\ versions' = [versions EXCEPT ![job.key].dead = seq]
  /\ AfterWrite
  /\ UNCHANGED <<store, current, nextKey, open, reader, bounds>>

\* An id or a vector that is not valid: the call raises before this write, and
\* the writes before it stay.
UpsertRejects ==
  /\ pc = "next" /\ InHand.op = "upsert"
  /\ pc' = "idle" /\ job' = NoJob
  /\ UNCHANGED <<store, tables, others, outcomes, bounds>>

\* store.put() or store.delete() raises, before or after the record was logged
\* (the append fails, or the flush that follows it); the call is over.
StoreRaises ==
  /\ StoreFaults
  /\ pc = "log_delete" \/ (pc = "next" /\ InHand.op = "upsert")
  /\ \/ LogRecord
     \/ seq' = seq + 1 /\ history' = [history EXCEPT ![seq'] = Documents(stored)]
        /\ UNCHANGED stored
  /\ pc' = "idle" /\ job' = NoJob /\ raised' = TRUE
  /\ UNCHANGED <<tables, others, outcomes, rebuilds, crashes>>

-----------------------------------------------------------------------------
(* Maintenance *)

\* Mutants: the horizon ignores the open snapshots, or is never reached.
HorizonNow == seq
HorizonUnbounded == INF
\* SnapshotRegistry.horizon
Horizon == IF DOMAIN open = {} THEN seq ELSE Min({open[r] : r \in DOMAIN open})

\* vacuum: choose the versions below the horizon, then drop them one by one.
Vacuum ==
  /\ pc = "idle"
  /\ LET dead == {k \in DOMAIN versions : versions[k].dead <= Horizon} IN
       /\ dead # {}
       /\ job' = [NoJob EXCEPT !.dead = dead]
  /\ pc' = "vacuum"
  /\ UNCHANGED <<store, tables, others, outcomes, bounds>>

VacuumDrop ==
  /\ pc = "vacuum"
  /\ LET k == Min(job.dead) IN
       /\ versions' = Without(versions, k)
       /\ job' = [job EXCEPT !.dead = @ \ {k}]
  /\ pc' = IF job'.dead = {} THEN "idle" ELSE "vacuum"
  /\ UNCHANGED <<store, current, nextKey, others, outcomes, bounds>>

\* rebuild_index: the current versions, renumbered in the order of the dict
\* _current (here: in any order), and nothing else.
Numberings(S) ==
  {f \in [S -> 0..Cardinality(S) - 1] : \A x, y \in S : f[x] = f[y] => x = y}

RebuildIndex ==
  /\ pc = "idle" /\ rebuilds < MaxRebuilds
  /\ current' \in Numberings(DOMAIN current)
  /\ versions' = [k \in {current'[d] : d \in DOMAIN current} |->
       LET d == CHOOSE e \in DOMAIN current : current'[e] = k IN
         [versions[current[d]] EXCEPT !.dead = INF]]
  /\ nextKey' = Cardinality(DOMAIN current)
  /\ rebuilds' = rebuilds + 1
  /\ reader' = [r \in Readers |-> [reader[r] EXCEPT !.settled = FALSE]]
  /\ UNCHANGED <<store, writer, open, txn, outcomes, crashes, raised>>

-----------------------------------------------------------------------------
(* Transactions *)

\* transaction(): reads the sequence number, without the lock.
MayRead == pc # "down"

TxnBegin(t) ==
  /\ MayRead /\ ~txn[t].active
  /\ txn' = [txn EXCEPT ![t] = [start |-> seq, ops |-> <<>>, active |-> TRUE]]
  /\ UNCHANGED <<store, tables, writer, open, reader, outcomes, bounds>>

TxnStage(t, w) ==
  /\ MayRead /\ txn[t].active /\ t \notin job.txns /\ Len(txn[t].ops) < MaxBatch
  /\ txn' = [txn EXCEPT ![t].ops = Append(@, w)]
  /\ UNCHANGED <<store, tables, writer, open, reader, outcomes, bounds>>

\* rollback, and the commit of a transaction that staged nothing.
Rollback(t) ==
  /\ MayRead /\ txn[t].active /\ t \notin job.txns
  /\ txn' = [txn EXCEPT ![t] = NoTxn]
  /\ UNCHANGED <<store, tables, writer, open, reader, outcomes, bounds>>

Touched(ops) == {ops[i].doc : i \in DOMAIN ops}
\* Mutant: only the documents the transaction upserts are compared.
ConflictsOfUpserts(t) ==
  {d \in Touched(SelectSeq(txn[t].ops, LAMBDA w : w.op = "upsert")) \cap DOMAIN current :
     versions[current[d]].born > txn[t].start}
Conflicts(t) ==
  {d \in Touched(txn[t].ops) \cap DOMAIN current : versions[current[d]].born > txn[t].start}

\* What the store holds once all of ops are applied.
Applied(ops) ==
  {w \in {[doc |-> d, val |->
             IF d \in Touched(ops)
             THEN ops[Max({i \in DOMAIN ops : ops[i].doc = d})].val
             ELSE stored[d].val] : d \in Docs} : w.val # NoVal}

\* commit: no conflict, so the staged writes are applied.  With a conflict
\* ConflictError is raised and the transaction stays as it was, as it does when
\* a write raises: it may be committed again.
Commit(t) ==
  /\ txn[t].active /\ txn[t].ops # <<>> /\ Conflicts(t) = {}
  /\ Begin(txn[t].ops, {t}, {Documents(stored), Applied(txn[t].ops)})

-----------------------------------------------------------------------------
(* Snapshots *)

\* snapshot(): read the sequence number, then register it.  The tables may be
\* behind the store, and a writer may log more before the snapshot is registered.
PinRead(r) ==
  /\ MayRead /\ reader[r].pc = "idle" /\ r \notin DOMAIN open
  /\ reader' = [reader EXCEPT ![r] =
       [AtRest EXCEPT !.pc = "pinning", !.snap = seq,
          !.settled = ~raised /\ pc \notin {"supersede", "publish", "mark_dead"}]]
  /\ UNCHANGED <<store, tables, writer, open, txn, outcomes, bounds>>

PinAcquire(r) ==
  /\ MayRead /\ reader[r].pc = "pinning"
  /\ open' = With(open, r, reader[r].snap)
  /\ reader' = [reader EXCEPT ![r].pc = "idle", ![r].settled = @ /\ reader[r].snap = seq]
  /\ UNCHANGED <<store, tables, writer, txn, outcomes, bounds>>

\* search with the snapshot: the index finds a visible key, and the hit is made
\* from whatever version the key has when _to_hit looks it up.
Search(r) ==
  /\ MayRead /\ r \in DOMAIN open /\ reader[r].pc = "idle"
  /\ \E k \in {j \in DOMAIN versions : VisibleAt(versions[j], open[r])} :
       reader' = [reader EXCEPT ![r].pc = "found",
         ![r].found = {[key |-> k, doc |-> versions[k].doc, val |-> versions[k].val]}]
  /\ UNCHANGED <<store, tables, writer, open, txn, outcomes, bounds>>

ToHit(r) ==
  /\ MayRead /\ reader[r].pc = "found"
  /\ reader' = [reader EXCEPT ![r].pc = "idle", ![r].found = {}]
  /\ UNCHANGED <<store, tables, writer, open, txn, outcomes, bounds>>

\* Snapshot.close
Release(r) ==
  /\ MayRead /\ reader[r].pc = "idle" /\ r \in DOMAIN open
  /\ open' = Without(open, r)
  /\ reader' = [reader EXCEPT ![r] = AtRest]
  /\ UNCHANGED <<store, tables, writer, txn, outcomes, bounds>>

-----------------------------------------------------------------------------
(* Crash and restart *)

\* The process dies or closes the collection; what was in memory is gone.
Crash ==
  /\ pc # "down" /\ crashes < MaxCrashes /\ crashes' = crashes + 1
  /\ pc' = "down" /\ job' = NoJob
  /\ versions' = EmptyFcn /\ current' = EmptyFcn /\ nextKey' = 0
  /\ open' = EmptyFcn /\ reader' = [r \in Readers |-> AtRest]
  /\ txn' = [t \in Txns |-> NoTxn]
  /\ raised' = FALSE
  /\ UNCHANGED <<store, outcomes, rebuilds>>

\* _rebuild_from_store: one version per live record, numbered in the order of
\* their sequence numbers.  The store's own counter is at least the last logged.
LiveDocs == {d \in Docs : stored[d].val # NoVal}
Position(d) == Cardinality({e \in LiveDocs : stored[e].seq < stored[d].seq})

\* Mutant: every version is born again at the sequence number of the restart.
RebuildBornNow ==
  /\ current' = [d \in LiveDocs |-> Position(d)]
  /\ nextKey' = Cardinality(LiveDocs)
  /\ versions' = [k \in 0..nextKey' - 1 |->
       LET d == CHOOSE e \in LiveDocs : Position(e) = k IN
         [doc |-> d, born |-> seq', dead |-> INF, val |-> stored[d].val]]

RebuildFromStore ==
  /\ current' = [d \in LiveDocs |-> Position(d)]
  /\ nextKey' = Cardinality(LiveDocs)
  /\ versions' = [k \in 0..nextKey' - 1 |->
       LET d == CHOOSE e \in LiveDocs : Position(e) = k IN
         [doc |-> d, born |-> stored[d].seq, dead |-> INF, val |-> stored[d].val]]

Reopen ==
  /\ pc = "down"
  /\ seq' \in Max({stored[d].seq : d \in Docs}) .. seq
  /\ RebuildFromStore
  /\ pc' = "idle" /\ outcomes' = {}
  /\ UNCHANGED <<stored, history, job, others, bounds>>

-----------------------------------------------------------------------------
WriteStep ==
  \/ UpsertLog \/ UpsertSupersede \/ UpsertPublish \/ UpsertCurrent
  \/ DeletePop \/ DeleteLog \/ DeleteMarkDead \/ VacuumDrop

Next ==
  \/ \E d \in Docs, v \in Values : Upsert(d, v)
  \/ \E d \in Docs : Delete(d)
  \/ \E b \in Batches : UpsertMany(b)
  \/ WriteStep \/ UpsertRejects \/ StoreRaises
  \/ Vacuum \/ RebuildIndex
  \/ \E t \in Txns : TxnBegin(t) \/ Rollback(t) \/ Commit(t)
  \/ \E t \in Txns, w \in Writes : TxnStage(t, w)
  \/ \E r \in Readers : PinRead(r) \/ PinAcquire(r) \/ Search(r) \/ ToHit(r) \/ Release(r)
  \/ Crash \/ Reopen

Spec == Init /\ [][Next]_vars

-----------------------------------------------------------------------------
(* Properties *)

Version == [doc : Docs, born : 0..MaxSeq, dead : 0..INF, val : Values]

\* Every variable has its type.
TypeOK ==
  /\ stored \in [Docs -> [seq : 0..MaxSeq, val : Values \cup {NoVal}]]
  /\ seq \in 0..MaxSeq
  /\ history \in [0..MaxSeq -> SUBSET [doc : Docs, val : Values]]
  /\ DOMAIN versions \subseteq Nat /\ \A k \in DOMAIN versions : versions[k] \in Version
  /\ DOMAIN current \subseteq Docs /\ \A d \in DOMAIN current : current[d] \in DOMAIN versions
  /\ nextKey \in Nat
  /\ DOMAIN open \subseteq Readers /\ \A r \in DOMAIN open : open[r] \in 0..MaxSeq
  /\ pc \in {"idle", "down", "next", "supersede", "publish", "current",
             "log_delete", "mark_dead", "vacuum"}
  /\ job \in [queue : Seq(Writes), key : Nat, dead : SUBSET Nat, txns : SUBSET Txns]
  /\ reader \in [Readers -> [pc : {"idle", "pinning", "found"}, snap : 0..MaxSeq,
       found : SUBSET [key : Nat, doc : Docs, val : Values], settled : BOOLEAN]]
  /\ txn \in [Txns -> [start : 0..MaxSeq, ops : Seq(Writes), active : BOOLEAN]]
  /\ outcomes \subseteq SUBSET [doc : Docs, val : Values]
  /\ rebuilds \in Nat /\ crashes \in Nat /\ raised \in BOOLEAN

\* "A snapshot sees a consistent point in time": through a snapshot that was
\* taken while no write was half way one reads exactly the documents that were
\* committed then, whatever is written, deleted and vacuumed meanwhile, until
\* the index is rebuilt.
SnapshotConsistent ==
  \A r \in DOMAIN open : reader[r].settled => View(open[r]) = history[open[r]]

\* What a search found through such a snapshot is still there when the hit is
\* made from it: no writer has dropped the key or given it to another document.
FoundStaysThere ==
  \A r \in Readers : reader[r].settled => \A f \in reader[r].found :
    /\ f.key \in DOMAIN versions
    /\ versions[f.key].doc = f.doc /\ versions[f.key].val = f.val

\* Between write calls the MVCC tables say what the store says: the current
\* versions are the live ones, with the values and sequence numbers that a
\* restart would read back.  A store that raised may part them; the next
\* restart brings them together again, whatever was left in memory.
TablesMatchStore ==
  pc = "idle" /\ ~raised =>
    /\ {k \in DOMAIN versions : versions[k].dead = INF} = {current[d] : d \in DOMAIN current}
    /\ DOMAIN current = LiveDocs
    /\ \A d \in DOMAIN current :
         LET ver == versions[current[d]] IN
           ver.doc = d /\ [seq |-> ver.born, val |-> ver.val] = stored[d]

\* No reader ever sees two versions of one document, not even between the
\* steps of an update: the old version dies before the new one is published.
OneVersionPerDoc ==
  ~raised => \A j, k \in DOMAIN versions :
    /\ j # k /\ versions[j].doc = versions[k].doc
    => versions[j].dead <= versions[k].born \/ versions[k].dead <= versions[j].born

\* "First-committer-wins": no document staged by a transaction that starts to
\* commit was written by anybody since the transaction began, as long as the
\* document still exists.
FirstCommitterWins ==
  [][~raised => \A t \in job'.txns \ job.txns :
       \A d \in Touched(txn[t].ops) \cap LiveDocs : stored[d].seq <= txn[t].start]_vars

\* "Buffered, atomically-applied": a commit that a crash or an exception ends
\* leaves all of its writes in the store, or none.
CommitAtomic ==
  pc \in {"idle", "down"} /\ outcomes # {} => Documents(stored) \in outcomes
=============================================================================
