-------------------------- MODULE CollectionProofs --------------------------
(***************************************************************************)
(* Proofs about Collection, for all documents, values, readers,            *)
(* transactions and bounds, with failing stores, crashes, vacuum and index *)
(* rebuilds: the tables agree with the store between writes, no reader     *)
(* sees two versions of a document, a snapshot stays what it was, and the  *)
(* first committer wins.                                                   *)
(***************************************************************************)
EXTENDS Collection, BasicLemmas, SequenceTheorems, FiniteSetTheorems, TLAPS

-----------------------------------------------------------------------------
(* The inductive invariant, in parts. *)

Writing == {"next", "supersede", "publish", "current", "log_delete", "mark_dead"}
\* The record of the write in hand is logged, the tables are not done.
Logged == {"supersede", "publish", "current", "mark_dead"}

\* The write in hand, and the room that is left for the records of the queue.
QueueInv ==
  /\ pc \in Writing => job.queue # <<>>
  /\ pc \in {"next", "log_delete"} => seq + Len(job.queue) <= MaxSeq
  /\ pc \in Logged => seq + Len(job.queue) <= MaxSeq + 1
  /\ pc \in {"supersede", "publish", "current"} => InHand.op = "upsert"
  /\ pc \in {"log_delete", "mark_dead"} => InHand.op = "delete"

\* A process that is down has nothing in memory.
DownInv ==
  pc = "down" =>
    /\ DOMAIN versions = {} /\ DOMAIN current = {} /\ DOMAIN open = {} /\ ~raised
    /\ \A r \in Readers : reader[r] = AtRest

\* The versions and the keys of the documents, also after the store raised.
VersionsInv ==
  /\ IsFiniteSet(DOMAIN current)
  /\ \A k \in DOMAIN versions :
       /\ k < nextKey /\ versions[k].born <= seq
       /\ versions[k].dead = INF \/ versions[k].dead <= seq
  /\ \A d \in DOMAIN current :
       /\ versions[current[d]].doc = d
       /\ versions[current[d]].dead = INF \/ (pc \in {"publish", "current"} /\ d = InHand.doc)
  /\ pc \in {"log_delete", "mark_dead", "current"} =>
       /\ job.key \in DOMAIN versions
       /\ versions[job.key].doc = InHand.doc /\ versions[job.key].dead = INF
  /\ pc \in {"log_delete", "mark_dead"} => InHand.doc \notin DOMAIN current
  /\ pc = "vacuum" => /\ job.dead # {}
                      /\ \A k \in job.dead : k \in DOMAIN versions /\ versions[k].dead <= seq

\* The live versions are the current ones and the one in hand.
LiveInv ==
  ~raised =>
    /\ \A k \in DOMAIN versions : versions[k].dead = INF =>
         \/ versions[k].doc \in DOMAIN current /\ current[versions[k].doc] = k
         \/ pc \in {"current", "log_delete", "mark_dead"} /\ k = job.key
    /\ pc \in {"publish", "current"} /\ InHand.doc \in DOMAIN current =>
         versions[current[InHand.doc]].dead # INF

\* Records have numbers of their own, and since the last record the documents
\* have not changed.
StoreInv ==
  /\ IsFiniteSet(LiveDocs)
  /\ \A d \in Docs : stored[d].seq <= seq
  /\ \A d, e \in LiveDocs : stored[d].seq = stored[e].seq => d = e
  /\ \A s \in 0..seq : (\A d \in Docs : stored[d].seq <= s) => history[s] = Documents(stored)

\* The tables say what the store says, except for the document in hand.
Busy(d) ==
  pc \in {"supersede", "publish", "current", "log_delete", "mark_dead"} /\ d = InHand.doc
MatchInv ==
  ~raised /\ pc # "down" =>
    /\ \A d \in Docs : Busy(d) \/ (d \in DOMAIN current <=> d \in LiveDocs)
    /\ \A d \in DOMAIN current : Busy(d) \/
         (versions[current[d]].born = stored[d].seq /\ versions[current[d]].val = stored[d].val)
    /\ pc \in {"supersede", "publish", "current"} =>
         stored[InHand.doc].seq = seq /\ stored[InHand.doc].val = InHand.val
    /\ pc = "current" => versions[job.key].born = seq /\ versions[job.key].val = InHand.val
    /\ pc = "log_delete" => stored[InHand.doc].val = versions[job.key].val
    /\ pc = "mark_dead" => stored[InHand.doc].val = NoVal

\* Snapshots: none is ahead of the store; one that is being taken between
\* writes is not overtaken; what one that was taken sees is what there was.
Pinned(r) == reader[r].settled /\ r \in DOMAIN open
ReaderInv ==
  \A r \in Readers :
    /\ reader[r].pc = "pinning" => reader[r].snap <= seq /\ r \notin DOMAIN open
    /\ r \in DOMAIN open => open[r] <= seq
    /\ reader[r].found # {} => r \in DOMAIN open /\ reader[r].pc = "found"
    /\ reader[r].pc = "pinning" /\ reader[r].settled /\ reader[r].snap = seq =>
         ~raised /\ pc \notin {"supersede", "publish", "mark_dead", "down"}
SnapshotInv ==
  \A r \in Readers : Pinned(r) =>
    /\ View(open[r]) = history[open[r]]
    /\ pc \in {"supersede", "publish", "mark_dead"} => open[r] < seq
    /\ pc = "vacuum" => \A k \in job.dead : versions[k].dead <= open[r]
    /\ \A f \in reader[r].found :
         /\ f.key \in DOMAIN versions /\ VisibleAt(versions[f.key], open[r])
         /\ versions[f.key].doc = f.doc /\ versions[f.key].val = f.val

IndInv ==
  /\ TypeOK /\ QueueInv /\ DownInv /\ VersionsInv /\ LiveInv /\ OneVersionPerDoc
  /\ StoreInv /\ MatchInv /\ ReaderInv /\ SnapshotInv

-----------------------------------------------------------------------------
(* TypeOK in groups that a step leaves alone together. *)

Doc == [doc : Docs, val : Values]
JobType == [queue : Seq(Writes), key : Nat, dead : SUBSET Nat, txns : SUBSET Txns]
ReaderType ==
  [pc : {"idle", "pinning", "found"}, snap : 0..MaxSeq,
   found : SUBSET [key : Nat, doc : Docs, val : Values], settled : BOOLEAN]

TypeStore ==
  /\ stored \in [Docs -> [seq : 0..MaxSeq, val : Values \cup {NoVal}]]
  /\ seq \in 0..MaxSeq
  /\ history \in [0..MaxSeq -> SUBSET Doc]
TypeTables ==
  /\ DOMAIN versions \subseteq Nat /\ \A k \in DOMAIN versions : versions[k] \in Version
  /\ DOMAIN current \subseteq Docs /\ \A d \in DOMAIN current : current[d] \in DOMAIN versions
  /\ nextKey \in Nat
TypeWriter ==
  /\ pc \in {"idle", "down", "next", "supersede", "publish", "current",
             "log_delete", "mark_dead", "vacuum"}
  /\ job \in JobType
TypeReaders ==
  /\ DOMAIN open \subseteq Readers /\ \A r \in DOMAIN open : open[r] \in 0..MaxSeq
  /\ reader \in [Readers -> ReaderType]
TypeTxns ==
  /\ txn \in [Txns -> [start : 0..MaxSeq, ops : Seq(Writes), active : BOOLEAN]]
  /\ outcomes \subseteq SUBSET Doc
TypeBounds == rebuilds \in Nat /\ crashes \in Nat /\ raised \in BOOLEAN

LEMMA TypeParts ==
  TypeOK <=> TypeStore /\ TypeTables /\ TypeWriter /\ TypeReaders /\ TypeTxns /\ TypeBounds
BY DEF TypeOK, TypeStore, TypeTables, TypeWriter, TypeReaders, TypeTxns, TypeBounds,
       Doc, JobType, ReaderType

\* The invariant with TypeOK in its groups.
Inv ==
  /\ TypeStore /\ TypeTables /\ TypeWriter /\ TypeReaders /\ TypeTxns /\ TypeBounds
  /\ QueueInv /\ DownInv /\ VersionsInv /\ LiveInv /\ OneVersionPerDoc
  /\ StoreInv /\ MatchInv /\ ReaderInv /\ SnapshotInv

LEMMA SameInv == IndInv <=> Inv
BY TypeParts DEF IndInv, Inv

-----------------------------------------------------------------------------
(* Lemmas about the operators of the model. *)

LEMMA WriteTyped ==
  ASSUME NEW w \in Writes
  PROVE  /\ w.doc \in Docs /\ w.val \in Values \cup {NoVal} /\ w.op \in {"upsert", "delete"}
         /\ w.op = "upsert" => w.val \in Values
         /\ w.op = "delete" => w.val = NoVal
BY DEF Writes, Upsertion, Deletion

\* The write in hand is one of the queue.
LEMMA InHandTyped ==
  ASSUME TypeWriter, QueueInv, pc \in Writing
  PROVE  /\ InHand \in Writes /\ InHand.doc \in Docs /\ InHand.val \in Values \cup {NoVal}
         /\ InHand.op \in {"upsert", "delete"}
         /\ InHand.op = "upsert" => InHand.val \in Values
         /\ InHand.op = "delete" => InHand.val = NoVal
<1>1. job.queue \in Seq(Writes) /\ job.queue # <<>>
  BY DEF TypeWriter, JobType, QueueInv
<1>2. InHand \in Writes
  BY <1>1 DEF InHand
<1> QED BY <1>2, WriteTyped

LEMMA DocumentsTyped ==
  ASSUME NEW m \in [Docs -> [seq : 0..MaxSeq, val : Values \cup {NoVal}]]
  PROVE  Documents(m) \in SUBSET Doc
BY DEF Documents, Doc

\* The end of a write call, or the next write of its queue.
LEMMA AfterWriteDone ==
  ASSUME Inv, AfterWrite, pc \in Writing
  PROVE  /\ TypeWriter' /\ TypeTxns' /\ pc' \in {"idle", "next"}
         /\ job'.dead = {} \/ job'.dead = job.dead
         /\ pc' = "next" => job'.queue # <<>> /\ Len(job'.queue) = Len(job.queue) - 1
         /\ \A t \in Txns : t \in job'.txns => t \in job.txns
<1>1. job.queue \in Seq(Writes) /\ job.queue # <<>> /\ job \in JobType
  BY DEF Inv, TypeWriter, JobType, QueueInv
<1>2. CASE Len(job.queue) = 1
  <2>1. NoJob \in JobType /\ NoJob.dead = {} /\ NoJob.txns = {}
    BY DEF NoJob, JobType
  <2>2. pc' = "idle" /\ job' = NoJob /\ outcomes' = {}
        /\ txn' = [t \in Txns |-> IF t \in job.txns THEN NoTxn ELSE txn[t]]
    BY <1>2 DEF AfterWrite
  <2>3. TypeTxns'
    <3>1. 0 \in 0..MaxSeq /\ <<>> \in Seq(Writes)
      BY BoundsAssumption
    <3> QED BY <2>2, <3>1 DEF Inv, TypeTxns, NoTxn
  <2> QED BY <2>1, <2>2, <2>3 DEF TypeWriter
<1>3. CASE Len(job.queue) # 1
  <2>1. pc' = "next" /\ job' = [job EXCEPT !.queue = Tail(@), !.key = 0]
        /\ UNCHANGED <<outcomes, txn>>
    BY <1>3 DEF AfterWrite
  <2>2. Tail(job.queue) \in Seq(Writes) /\ Len(Tail(job.queue)) = Len(job.queue) - 1
        /\ Tail(job.queue) # <<>>
    <3>1. Tail(job.queue) \in Seq(Writes) /\ Len(Tail(job.queue)) = Len(job.queue) - 1
      BY <1>1, HeadTailProperties
    <3>2. Len(job.queue) \in Nat /\ Len(job.queue) # 0
      BY <1>1, EmptySeq
    <3>3. Len(Tail(job.queue)) # 0
      BY <1>3, <3>1, <3>2
    <3> QED BY <3>1, <3>3, EmptySeq
  <2>3. /\ job' \in JobType /\ job'.queue = Tail(job.queue) /\ job'.dead = job.dead
        /\ job'.txns = job.txns
    <3>1. job' = [[job EXCEPT !.queue = Tail(@)] EXCEPT !.key = 0]
      BY <1>1, <2>1 DEF JobType
    <3>2. [job EXCEPT !.queue = Tail(@)] \in JobType
      BY <1>1, <2>2 DEF JobType
    <3> QED BY <1>1, <3>1, <3>2 DEF JobType
  <2> QED BY <2>1, <2>2, <2>3 DEF TypeWriter, TypeTxns, Inv
<1> QED BY <1>2, <1>3

\* Between the steps of a write that are visible to readers, what one reads at
\* the last sequence number are the documents of the store.
LEMMA NowConsistent ==
  ASSUME Inv, ~raised, pc \notin {"supersede", "publish", "mark_dead", "down"}
  PROVE  View(seq) = history[seq]
<1>1. history[seq] = Documents(stored)
  BY DEF Inv, StoreInv, TypeStore
<1>2. seq \in Nat /\ INF \in Nat /\ seq < INF
  BY BoundsAssumption DEF Inv, TypeStore
<1>3. ASSUME NEW k \in DOMAIN versions
      PROVE  VisibleAt(versions[k], seq) <=> versions[k].dead = INF
  <2>1. versions[k].born \in Int /\ versions[k].dead \in Int /\ versions[k].born <= seq
        /\ (versions[k].dead = INF \/ versions[k].dead <= seq)
    BY DEF Inv, TypeTables, Version, VersionsInv
  <2> QED BY <1>2, <2>1 DEF VisibleAt
<1>4. ASSUME NEW k \in DOMAIN versions, versions[k].dead = INF
      PROVE  versions[k].doc \in Docs /\ stored[versions[k].doc].val = versions[k].val
             /\ versions[k].val # NoVal
  <2>1. versions[k] \in Version
    BY DEF Inv, TypeTables
  <2>2. versions[k].doc \in Docs /\ versions[k].val \in Values /\ versions[k].val # NoVal
    BY <2>1, ValuesAssumption DEF Version
  <2>3. CASE pc \in {"current", "log_delete"} /\ k = job.key
    BY <2>2, <2>3 DEF Inv, MatchInv, VersionsInv
  <2>4. CASE ~(pc \in {"current", "log_delete"} /\ k = job.key)
    <3>1. versions[k].doc \in DOMAIN current /\ current[versions[k].doc] = k
      BY <1>4, <2>4 DEF Inv, LiveInv
    <3>2. ~Busy(versions[k].doc)
      BY <1>4, <3>1 DEF Inv, Busy, LiveInv, VersionsInv
    <3> QED BY <2>2, <3>1, <3>2 DEF Inv, MatchInv
  <2> QED BY <2>3, <2>4
<1>5. ASSUME NEW d \in Docs, stored[d].val # NoVal
      PROVE  \E k \in DOMAIN versions :
               versions[k].dead = INF /\ versions[k].doc = d /\ versions[k].val = stored[d].val
  <2>1. CASE Busy(d)
    <3>1. pc \in {"current", "log_delete"} /\ d = InHand.doc
      BY <2>1 DEF Busy
    <3> QED BY <1>5, <3>1 DEF Inv, MatchInv, VersionsInv
  <2>2. CASE ~Busy(d)
    <3>1. d \in DOMAIN current
      BY <1>5, <2>2 DEF Inv, MatchInv, LiveDocs
    <3>2. /\ current[d] \in DOMAIN versions /\ versions[current[d]].doc = d
          /\ versions[current[d]].val = stored[d].val
      BY <2>2, <3>1 DEF Inv, MatchInv, TypeTables, VersionsInv
    <3>3. versions[current[d]].dead = INF
      BY <2>2, <3>1 DEF Inv, VersionsInv, Busy
    <3> QED BY <3>2, <3>3
  <2> QED BY <2>1, <2>2
<1>6. View(seq) = {[doc |-> versions[k].doc, val |-> versions[k].val] :
                     k \in {j \in DOMAIN versions : versions[j].dead = INF}}
  BY <1>3 DEF View
<1>7. View(seq) \subseteq Documents(stored)
  BY <1>4, <1>6 DEF Documents
<1>8. Documents(stored) \subseteq View(seq)
  <2> SUFFICES ASSUME NEW d \in Docs, stored[d].val # NoVal
               PROVE  [doc |-> d, val |-> stored[d].val] \in View(seq)
    BY DEF Documents
  <2> QED BY <1>5, <1>6
<1> QED BY <1>1, <1>7, <1>8

-----------------------------------------------------------------------------
(* What the steps have in common. *)

\* The steps of a writer leave what pinned snapshots see.
LEMMA ReadersKept ==
  ASSUME Inv, UNCHANGED <<open, reader>>, seq' \in Nat, seq <= seq',
         \A s \in 0..seq : history'[s] = history[s],
         seq' = seq /\ ~raised => ~raised',
         seq' = seq /\ pc' \in {"supersede", "publish", "mark_dead", "down"} =>
           pc \in {"supersede", "publish", "mark_dead", "down"},
         \A r \in Readers : Pinned(r) =>
           /\ pc' \in {"supersede", "publish", "mark_dead"} => open[r] < seq'
           /\ pc' = "vacuum" => \A k \in job'.dead : versions'[k].dead <= open[r]
           /\ \A k \in DOMAIN versions : VisibleAt(versions[k], open[r]) =>
                /\ k \in DOMAIN versions' /\ VisibleAt(versions'[k], open[r])
                /\ versions'[k].doc = versions[k].doc /\ versions'[k].val = versions[k].val
           /\ \A k \in DOMAIN versions' : VisibleAt(versions'[k], open[r]) =>
                k \in DOMAIN versions /\ VisibleAt(versions[k], open[r])
  PROVE  ReaderInv' /\ SnapshotInv'
<1> USE DEF Inv
<1>1. seq \in Nat
  BY DEF TypeStore
<1>2. ReaderInv'
  <2> SUFFICES ASSUME NEW r \in Readers
               PROVE  /\ reader[r].pc = "pinning" => reader[r].snap <= seq' /\ r \notin DOMAIN open
                      /\ r \in DOMAIN open => open[r] <= seq'
                      /\ reader[r].found # {} => r \in DOMAIN open /\ reader[r].pc = "found"
                      /\ reader[r].pc = "pinning" /\ reader[r].settled /\ reader[r].snap = seq' =>
                           ~raised' /\ pc' \notin {"supersede", "publish", "mark_dead", "down"}
    BY DEF ReaderInv
  <2>1. r \in DOMAIN open => open[r] \in Int
    BY DEF TypeReaders
  <2>2. reader[r].snap \in Int
    BY DEF TypeReaders, ReaderType
  <2>3. /\ reader[r].pc = "pinning" => reader[r].snap <= seq /\ r \notin DOMAIN open
        /\ r \in DOMAIN open => open[r] <= seq
        /\ reader[r].found # {} => r \in DOMAIN open /\ reader[r].pc = "found"
        /\ reader[r].pc = "pinning" /\ reader[r].settled /\ reader[r].snap = seq =>
             ~raised /\ pc \notin {"supersede", "publish", "mark_dead", "down"}
    BY DEF ReaderInv
  <2> QED BY <1>1, <2>1, <2>2, <2>3
<1>3. SnapshotInv'
  <2> SUFFICES ASSUME NEW r \in Readers, Pinned(r)
               PROVE  /\ View(open[r])' = history'[open[r]]
                      /\ \A f \in reader[r].found :
                           /\ f.key \in DOMAIN versions' /\ VisibleAt(versions'[f.key], open[r])
                           /\ versions'[f.key].doc = f.doc /\ versions'[f.key].val = f.val
    BY DEF SnapshotInv, Pinned
  <2>1. open[r] \in 0..seq
    BY DEF TypeReaders, ReaderInv, Pinned
  <2>2. View(open[r])' = View(open[r])
    BY DEF View
  <2>3. View(open[r]) = history[open[r]]
    BY DEF SnapshotInv
  <2>4. \A f \in reader[r].found :
          /\ f.key \in DOMAIN versions /\ VisibleAt(versions[f.key], open[r])
          /\ versions[f.key].doc = f.doc /\ versions[f.key].val = f.val
    BY DEF SnapshotInv
  <2> QED BY <2>1, <2>2, <2>3, <2>4
<1> QED BY <1>2, <1>3

\* The same when the tables do not change.
LEMMA ReadersKeptTables ==
  ASSUME Inv, UNCHANGED <<open, reader, versions>>, seq' \in Nat, seq <= seq',
         \A s \in 0..seq : history'[s] = history[s],
         seq' = seq /\ ~raised => ~raised',
         seq' = seq /\ pc' \in {"supersede", "publish", "mark_dead", "down"} =>
           pc \in {"supersede", "publish", "mark_dead", "down"},
         pc' \in {"supersede", "publish", "mark_dead"} => seq < seq',
         pc' # "vacuum"
  PROVE  ReaderInv' /\ SnapshotInv'
<1>1. ASSUME NEW r \in Readers, Pinned(r) PROVE open[r] \in Int /\ open[r] <= seq
  BY <1>1 DEF Inv, ReaderInv, TypeReaders, Pinned
<1>2. seq \in Int
  BY DEF Inv, TypeStore
<1>3. \A r \in Readers : Pinned(r) => (pc' \in {"supersede", "publish", "mark_dead"} => open[r] < seq')
  BY <1>1, <1>2
<1> QED BY <1>3, ReadersKept

\* A record is logged under a new number.
LEMMA LogRecordStep ==
  ASSUME Inv, LogRecord, pc \in {"next", "log_delete"}
  PROVE  /\ TypeStore' /\ StoreInv' /\ seq' = seq + 1 /\ seq' \in Nat /\ seq <= seq'
         /\ stored'[InHand.doc].seq = seq' /\ stored'[InHand.doc].val = InHand.val
         /\ \A d \in Docs : d # InHand.doc => stored'[d] = stored[d]
         /\ \A s \in 0..seq : history'[s] = history[s]
<1> USE DEF Inv
<1>1. InHand.doc \in Docs /\ InHand.val \in Values \cup {NoVal}
  BY InHandTyped DEF Writing
<1>2. seq' = seq + 1 /\ seq' \in 0..MaxSeq /\ seq \in Nat /\ seq' \in Nat
  <2>1. Len(job.queue) \in Nat /\ Len(job.queue) # 0
    BY EmptySeq DEF TypeWriter, JobType, QueueInv, Writing
  <2> QED BY <2>1, BoundsAssumption DEF LogRecord, TypeStore, QueueInv
<1>3. stored' \in [Docs -> [seq : 0..MaxSeq, val : Values \cup {NoVal}]]
  BY <1>1, <1>2 DEF LogRecord, TypeStore
<1>4. Documents(stored') \in SUBSET Doc
  BY <1>3, DocumentsTyped
<1>5. TypeStore'
  BY <1>2, <1>3, <1>4 DEF LogRecord, TypeStore
<1>6. /\ stored'[InHand.doc].seq = seq' /\ stored'[InHand.doc].val = InHand.val
      /\ \A d \in Docs : d # InHand.doc => stored'[d] = stored[d]
  BY <1>1 DEF LogRecord, TypeStore
<1>7. history'[seq'] = Documents(stored') /\ \A s \in 0..seq : history'[s] = history[s]
  BY <1>2, BoundsAssumption DEF LogRecord, TypeStore
<1>8. StoreInv'
  <2>1. IsFiniteSet(LiveDocs')
    <3>1. LiveDocs' \subseteq LiveDocs \cup {InHand.doc}
      BY <1>6 DEF LiveDocs
    <3>2. IsFiniteSet(LiveDocs \cup {InHand.doc})
      BY FS_AddElement DEF StoreInv
    <3> QED BY <3>1, <3>2, FS_Subset
  <2>2. \A d \in Docs : stored[d].seq \in Int /\ stored[d].seq <= seq
    BY DEF StoreInv, TypeStore
  <2>3. \A d \in Docs : stored'[d].seq <= seq'
    BY <1>2, <1>6, <2>2
  <2>4. \A d, e \in LiveDocs' : stored'[d].seq = stored'[e].seq => d = e
    BY <1>2, <1>6, <2>2 DEF StoreInv, LiveDocs
  <2>5. ASSUME NEW s \in 0..seq', \A d \in Docs : stored'[d].seq <= s
        PROVE  history'[s] = Documents(stored')
    <3>1. s = seq'
      BY <1>1, <1>2, <1>6, <2>5
    <3> QED BY <1>7, <3>1
  <2> QED BY <2>1, <2>3, <2>4, <2>5 DEF StoreInv, Documents
<1> QED BY <1>2, <1>5, <1>6, <1>7, <1>8

-----------------------------------------------------------------------------
(* The steps of a write call. *)

\* A call takes the lock; nothing but the call changes.
LEMMA BeginInv ==
  ASSUME Inv, NEW queue \in Seq(Writes), queue # <<>>, NEW txns \in SUBSET Txns,
         NEW results \in SUBSET SUBSET Doc, Begin(queue, txns, results)
  PROVE  Inv'
<1> USE DEF Inv
<1>1. pc = "idle" /\ pc' = "next" /\ outcomes' = results /\ seq + Len(queue) <= MaxSeq
      /\ UNCHANGED <<stored, seq, history, versions, current, nextKey, open, reader, txn,
                     rebuilds, crashes, raised>>
  BY DEF Begin, store, tables, others, bounds
<1>2. job' \in JobType /\ job'.queue = queue
  <2>1. NoJob \in JobType
    BY DEF NoJob, JobType
  <2>2. job' = [[NoJob EXCEPT !.queue = queue] EXCEPT !.txns = txns]
    BY <2>1 DEF Begin, JobType
  <2>3. [NoJob EXCEPT !.queue = queue] \in JobType
    BY <2>1 DEF JobType
  <2> QED BY <2>1, <2>2, <2>3 DEF JobType
<1>3. TypeStore' /\ TypeTables' /\ TypeWriter' /\ TypeReaders' /\ TypeTxns' /\ TypeBounds'
  BY <1>1, <1>2 DEF TypeStore, TypeTables, TypeWriter, TypeReaders, TypeTxns, TypeBounds
<1>4. QueueInv' /\ DownInv'
  BY <1>1, <1>2 DEF QueueInv, DownInv, Logged
<1>5. VersionsInv' /\ LiveInv' /\ OneVersionPerDoc'
  BY <1>1 DEF VersionsInv, LiveInv, OneVersionPerDoc
<1>6. StoreInv' /\ MatchInv'
  BY <1>1 DEF StoreInv, LiveDocs, Documents, MatchInv, Busy
<1>7. ReaderInv' /\ SnapshotInv'
  BY <1>1, ReadersKeptTables DEF TypeStore
<1> QED BY <1>3, <1>4, <1>5, <1>6, <1>7

LEMMA OneMore ==
  ASSUME NEW a \in Int, NEW b \in Int, NEW c \in Int, a + b <= c
  PROVE  (a + 1) + b <= c + 1
OBVIOUS

\* The record of an upsert, then of a delete.
LEMMA UpsertLogInv == ASSUME Inv, UpsertLog PROVE Inv'
<1> USE DEF Inv
<1>1. pc = "next" /\ pc' = "supersede" /\ InHand.op = "upsert" /\ InHand' = InHand
      /\ UNCHANGED <<versions, current, nextKey, job, open, reader, txn, outcomes,
                     rebuilds, crashes, raised>>
  BY DEF UpsertLog, tables, others, bounds, InHand
<1>2. /\ TypeStore' /\ StoreInv' /\ seq' = seq + 1 /\ seq' \in Nat /\ seq <= seq'
      /\ stored'[InHand.doc].seq = seq' /\ stored'[InHand.doc].val = InHand.val
      /\ \A d \in Docs : d # InHand.doc => stored'[d] = stored[d]
      /\ \A s \in 0..seq : history'[s] = history[s]
  BY <1>1, LogRecordStep DEF UpsertLog
<1>3. TypeTables' /\ TypeWriter' /\ TypeReaders' /\ TypeTxns' /\ TypeBounds'
  BY <1>1 DEF TypeTables, TypeWriter, TypeReaders, TypeTxns, TypeBounds
<1>4. seq \in Int /\ Len(job.queue) \in Int /\ seq + Len(job.queue) <= MaxSeq
  BY <1>1 DEF TypeStore, TypeWriter, JobType, QueueInv
<1>5. QueueInv' /\ DownInv'
  <2>1. seq' + Len(job'.queue) <= MaxSeq + 1
    <3>1. seq' = seq + 1 /\ Len(job'.queue) = Len(job.queue)
      BY <1>1, <1>2
    <3>2. MaxSeq \in Int
      BY BoundsAssumption
    <3> HIDE DEF Inv
    <3>3. (seq + 1) + Len(job.queue) <= MaxSeq + 1
      BY <1>4, <3>2, OneMore
    <3> QED BY <3>1, <3>3
  <2> QED BY <1>1, <2>1 DEF QueueInv, DownInv, Logged, Writing
<1>6. \A k \in DOMAIN versions : versions[k].born \in Int /\ versions[k].dead \in Int
  BY DEF TypeTables, Version
<1>7. VersionsInv' /\ LiveInv' /\ OneVersionPerDoc'
  <2>1. VersionsInv'
    BY <1>1, <1>2, <1>4, <1>6 DEF VersionsInv
  <2>2. LiveInv' /\ OneVersionPerDoc'
    BY <1>1 DEF LiveInv, OneVersionPerDoc
  <2> QED BY <2>1, <2>2
<1>8. MatchInv'
  BY <1>1, <1>2 DEF MatchInv, Busy, LiveDocs, TypeTables
<1>9. ReaderInv' /\ SnapshotInv'
  BY <1>1, <1>2, <1>4, ReadersKeptTables
<1> QED BY <1>2, <1>3, <1>5, <1>7, <1>8, <1>9

LEMMA DeleteLogInv == ASSUME Inv, DeleteLog PROVE Inv'
<1> USE DEF Inv
<1>1. pc = "log_delete" /\ pc' = "mark_dead" /\ InHand' = InHand
      /\ UNCHANGED <<versions, current, nextKey, job, open, reader, txn, outcomes,
                     rebuilds, crashes, raised>>
  BY DEF DeleteLog, tables, others, bounds, InHand
<1>2. /\ TypeStore' /\ StoreInv' /\ seq' = seq + 1 /\ seq' \in Nat /\ seq <= seq'
      /\ stored'[InHand.doc].seq = seq' /\ stored'[InHand.doc].val = InHand.val
      /\ \A d \in Docs : d # InHand.doc => stored'[d] = stored[d]
      /\ \A s \in 0..seq : history'[s] = history[s]
  BY <1>1, LogRecordStep DEF DeleteLog
<1>3. TypeTables' /\ TypeWriter' /\ TypeReaders' /\ TypeTxns' /\ TypeBounds'
  BY <1>1 DEF TypeTables, TypeWriter, TypeReaders, TypeTxns, TypeBounds
<1>4. seq \in Int /\ Len(job.queue) \in Int /\ seq + Len(job.queue) <= MaxSeq
  BY <1>1 DEF TypeStore, TypeWriter, JobType, QueueInv
<1>5. QueueInv' /\ DownInv'
  <2>1. seq' + Len(job'.queue) <= MaxSeq + 1
    <3>1. seq' = seq + 1 /\ Len(job'.queue) = Len(job.queue)
      BY <1>1, <1>2
    <3>2. MaxSeq \in Int
      BY BoundsAssumption
    <3> HIDE DEF Inv
    <3>3. (seq + 1) + Len(job.queue) <= MaxSeq + 1
      BY <1>4, <3>2, OneMore
    <3> QED BY <3>1, <3>3
  <2> QED BY <1>1, <2>1 DEF QueueInv, DownInv, Logged, Writing
<1>6. \A k \in DOMAIN versions : versions[k].born \in Int /\ versions[k].dead \in Int
  BY DEF TypeTables, Version
<1>7. VersionsInv' /\ LiveInv' /\ OneVersionPerDoc'
  <2>1. VersionsInv'
    BY <1>1, <1>2, <1>4, <1>6 DEF VersionsInv
  <2>2. LiveInv' /\ OneVersionPerDoc'
    BY <1>1 DEF LiveInv, OneVersionPerDoc
  <2> QED BY <2>1, <2>2
<1>8. MatchInv'
  <2>1. InHand.val = NoVal
    BY <1>1, InHandTyped DEF QueueInv, Writing
  <2> QED BY <1>1, <1>2, <2>1 DEF MatchInv, Busy, LiveDocs, TypeTables
<1>9. ReaderInv' /\ SnapshotInv'
  BY <1>1, <1>2, <1>4, ReadersKeptTables
<1> QED BY <1>2, <1>3, <1>5, <1>7, <1>8, <1>9

\* The version that was current dies with the number of the new record.
LEMMA UpsertSupersedeInv == ASSUME Inv, UpsertSupersede PROVE Inv'
<1> USE DEF Inv
<1> DEFINE d == InHand.doc
<1>1. pc = "supersede" /\ pc' = "publish" /\ InHand' = InHand
      /\ UNCHANGED <<stored, seq, history, current, nextKey, job, open, reader, txn, outcomes,
                     rebuilds, crashes, raised>>
  BY DEF UpsertSupersede, store, others, bounds, InHand
<1>2. /\ DOMAIN versions' = DOMAIN versions
      /\ \A k \in DOMAIN versions :
           /\ versions'[k].doc = versions[k].doc /\ versions'[k].val = versions[k].val
           /\ versions'[k].born = versions[k].born
           /\ versions'[k].dead = IF d \in DOMAIN current /\ k = current[d]
                                  THEN seq ELSE versions[k].dead
      /\ \A k \in DOMAIN versions' : versions'[k] \in Version
  <2>1. seq \in 0..INF
    BY BoundsAssumption DEF TypeStore
  <2>2. CASE d \notin DOMAIN current
    BY <2>2 DEF UpsertSupersede, TypeTables
  <2>3. CASE d \in DOMAIN current
    BY <2>1, <2>3 DEF UpsertSupersede, TypeTables, Version
  <2> QED BY <2>2, <2>3
<1>3. TypeStore' /\ TypeTables' /\ TypeWriter' /\ TypeReaders' /\ TypeTxns' /\ TypeBounds'
  BY <1>1, <1>2 DEF TypeStore, TypeTables, TypeWriter, TypeReaders, TypeTxns, TypeBounds
<1>4. QueueInv' /\ DownInv'
  BY <1>1 DEF QueueInv, DownInv, Logged, Writing
<1>5. seq \in Int /\ seq < INF /\ INF \in Int
      /\ \A k \in DOMAIN versions : versions[k].born \in Int /\ versions[k].dead \in Int
  BY BoundsAssumption DEF TypeTables, Version, TypeStore
<1>6. VersionsInv'
  BY <1>1, <1>2, <1>5 DEF VersionsInv, TypeTables
<1>7. LiveInv'
  BY <1>1, <1>2, <1>5 DEF LiveInv, TypeTables
<1>8. OneVersionPerDoc'
  <2> SUFFICES ASSUME ~raised, NEW j \in DOMAIN versions, NEW k \in DOMAIN versions, j # k,
                      versions[j].doc = versions[k].doc
               PROVE  versions'[j].dead <= versions'[k].born \/ versions'[k].dead <= versions'[j].born
    BY <1>1, <1>2 DEF OneVersionPerDoc
  <2>1. versions[j].dead <= versions[k].born \/ versions[k].dead <= versions[j].born
    BY DEF OneVersionPerDoc
  <2>2. \A i \in DOMAIN versions : versions[i].born <= seq /\ versions'[i].dead <= versions[i].dead
    BY <1>1, <1>2, <1>5 DEF VersionsInv
  <2> QED BY <1>2, <1>5, <2>1, <2>2
<1>9. StoreInv' /\ MatchInv'
  <2>1. StoreInv'
    BY <1>1 DEF StoreInv, LiveDocs, Documents
  <2>2. MatchInv'
    BY <1>1, <1>2 DEF MatchInv, Busy, LiveDocs, TypeTables
  <2> QED BY <2>1, <2>2
<1>10. ReaderInv' /\ SnapshotInv'
  <2>1. ASSUME NEW r \in Readers, Pinned(r)
        PROVE  open[r] < seq /\ open[r] \in Int
    BY <1>1, <2>1 DEF SnapshotInv, TypeReaders, Pinned
  <2>2. ASSUME NEW r \in Readers, Pinned(r), NEW k \in DOMAIN versions
        PROVE  VisibleAt(versions[k], open[r]) <=> VisibleAt(versions'[k], open[r])
    <3>1. d \in DOMAIN current /\ k = current[d] => versions[k].dead = INF
      BY <1>1 DEF VersionsInv
    <3> QED BY <1>2, <1>5, <2>1, <2>2, <3>1 DEF VisibleAt
  <2> QED BY <1>1, <1>2, <2>1, <2>2, ReadersKept DEF TypeStore
<1> QED BY <1>3, <1>4, <1>6, <1>7, <1>8, <1>9, <1>10

\* The new version gets a key that no version has.
LEMMA UpsertPublishInv == ASSUME Inv, UpsertPublish PROVE Inv'
<1> USE DEF Inv
<1> DEFINE d == InHand.doc
           new == [doc |-> d, born |-> seq, dead |-> INF, val |-> InHand.val]
<1>1. pc = "publish" /\ pc' = "current" /\ nextKey' = nextKey + 1
      /\ UNCHANGED <<stored, seq, history, current, open, reader, txn, outcomes,
                     rebuilds, crashes, raised>>
  BY DEF UpsertPublish, store, others, bounds
<1>2. /\ job' \in JobType /\ job'.queue = job.queue /\ job'.key = nextKey
      /\ job'.dead = job.dead /\ InHand' = InHand
  BY DEF UpsertPublish, TypeWriter, TypeTables, JobType, InHand
<1>3. d \in Docs /\ InHand.val \in Values /\ new \in Version
  <2>1. d \in Docs /\ InHand.val \in Values
    BY <1>1, InHandTyped DEF QueueInv, Writing
  <2> QED BY <2>1, BoundsAssumption DEF Version, TypeStore
<1>4. /\ DOMAIN versions' = DOMAIN versions \cup {nextKey} /\ nextKey \notin DOMAIN versions
      /\ nextKey \in Nat /\ versions'[nextKey] = new
      /\ \A k \in DOMAIN versions : k # nextKey /\ k \in Nat /\ k < nextKey
                                    /\ versions'[k] = versions[k]
  <2>1. \A k \in DOMAIN versions : k # nextKey /\ k \in Nat /\ k < nextKey
    BY DEF VersionsInv, TypeTables
  <2>2. versions' = With(versions, nextKey, new) /\ nextKey \in Nat
    BY DEF UpsertPublish, TypeTables
  <2> HIDE DEF new
  <2> QED BY <2>1, <2>2 DEF With
<1>5. TypeStore' /\ TypeTables' /\ TypeWriter' /\ TypeReaders' /\ TypeTxns' /\ TypeBounds'
  BY <1>1, <1>2, <1>3, <1>4 DEF TypeStore, TypeTables, TypeWriter, TypeReaders, TypeTxns, TypeBounds
<1>6. QueueInv' /\ DownInv'
  BY <1>1, <1>2 DEF QueueInv, DownInv, Logged, Writing
<1>7. seq \in Int /\ seq < INF /\ INF \in Int
      /\ \A k \in DOMAIN versions : versions[k].born \in Int /\ versions[k].dead \in Int
  BY BoundsAssumption DEF TypeTables, Version, TypeStore
<1>8. VersionsInv'
  BY <1>1, <1>2, <1>4, <1>7 DEF VersionsInv, TypeTables
<1>9. LiveInv'
  BY <1>1, <1>2, <1>4 DEF LiveInv, TypeTables
<1>10. OneVersionPerDoc'
  <2>1. ASSUME ~raised, NEW k \in DOMAIN versions, versions[k].doc = d
        PROVE  versions[k].dead <= seq
    <3>1. versions[k].dead # INF
      BY <1>1, <2>1 DEF LiveInv
    <3> QED BY <3>1 DEF VersionsInv
  <2> QED BY <1>1, <1>4, <1>7, <2>1 DEF OneVersionPerDoc
<1>11. StoreInv'
  BY <1>1 DEF StoreInv, LiveDocs, Documents
<1>12. MatchInv'
  BY <1>1, <1>2, <1>4 DEF MatchInv, Busy, LiveDocs, TypeTables
<1>13. ReaderInv' /\ SnapshotInv'
  <2>1. ASSUME NEW r \in Readers, Pinned(r)
        PROVE  open[r] < seq /\ open[r] \in Int
    BY <1>1, <2>1 DEF SnapshotInv, TypeReaders, Pinned
  <2>2. ASSUME NEW r \in Readers, Pinned(r)
        PROVE  ~VisibleAt(new, open[r])
    BY <1>7, <2>1, <2>2 DEF VisibleAt
  <2> HIDE DEF new
  <2> QED BY <1>1, <1>4, <1>7, <2>1, <2>2, ReadersKept DEF TypeStore
<1> QED BY <1>5, <1>6, <1>8, <1>9, <1>10, <1>11, <1>12, <1>13

\* The new version is named current and the write is done.
LEMMA UpsertCurrentInv == ASSUME Inv, UpsertCurrent PROVE Inv'
<1> USE DEF Inv
<1> DEFINE d == InHand.doc
<1>1. pc = "current"
      /\ UNCHANGED <<stored, seq, history, versions, nextKey, open, reader,
                     rebuilds, crashes, raised>>
  BY DEF UpsertCurrent, store, bounds
<1>2. /\ TypeWriter' /\ TypeTxns' /\ pc' \in {"idle", "next"}
      /\ pc' = "next" => job'.queue # <<>> /\ Len(job'.queue) = Len(job.queue) - 1
  BY <1>1, AfterWriteDone DEF UpsertCurrent, Writing
<1>3. d \in Docs
  BY <1>1, InHandTyped DEF Writing
<1>4. /\ DOMAIN current' = DOMAIN current \cup {d} /\ current'[d] = job.key
      /\ \A e \in DOMAIN current : e # d => current'[e] = current[e]
  <2>1. current' = With(current, d, job.key)
    BY DEF UpsertCurrent
  <2> HIDE DEF d
  <2> QED BY <2>1 DEF With
<1>5. TypeStore' /\ TypeTables' /\ TypeReaders' /\ TypeBounds'
  BY <1>1, <1>3, <1>4 DEF TypeStore, TypeTables, TypeReaders, TypeBounds, VersionsInv
<1>6. QueueInv' /\ DownInv'
  <2>1. seq \in Int /\ Len(job.queue) \in Int /\ seq + Len(job.queue) <= MaxSeq + 1
    BY <1>1 DEF TypeStore, TypeWriter, JobType, QueueInv, Logged
  <2>2. pc' = "next" => seq' + Len(job'.queue) <= MaxSeq
    BY <1>1, <1>2, <2>1, BoundsAssumption
  <2> QED BY <1>2, <2>2 DEF QueueInv, DownInv, Logged, Writing
<1>7. VersionsInv'
  <2>1. IsFiniteSet(DOMAIN current')
    BY <1>4, FS_AddElement DEF VersionsInv
  <2> QED BY <1>1, <1>2, <1>4, <2>1 DEF VersionsInv
<1>8. LiveInv' /\ OneVersionPerDoc'
  BY <1>1, <1>2, <1>4 DEF LiveInv, VersionsInv, OneVersionPerDoc
<1>9. StoreInv'
  BY <1>1 DEF StoreInv, LiveDocs, Documents
<1>10. MatchInv'
  <2>1. ~raised => d \in LiveDocs
    <3>1. InHand.val \in Values
      BY <1>1, InHandTyped DEF QueueInv, Writing
    <3> QED BY <1>1, <1>3, <3>1, ValuesAssumption DEF MatchInv, LiveDocs
  <2> QED BY <1>1, <1>2, <1>4, <2>1 DEF MatchInv, Busy, LiveDocs
<1>11. ReaderInv' /\ SnapshotInv'
  BY <1>1, <1>2, ReadersKeptTables DEF TypeStore
<1> QED BY <1>2, <1>5, <1>6, <1>7, <1>8, <1>9, <1>10, <1>11

\* A delete forgets the key, or skips a document that is not there.
LEMMA DeletePopInv == ASSUME Inv, DeletePop PROVE Inv'
<1> USE DEF Inv
<1> DEFINE d == InHand.doc
<1>1. pc = "next" /\ InHand.op = "delete"
      /\ UNCHANGED <<stored, seq, history, versions, nextKey, open, reader,
                     rebuilds, crashes, raised>>
  BY DEF DeletePop, store, bounds
<1>2. d \in Docs
  BY <1>1, InHandTyped DEF Writing
<1>3. seq \in Int /\ Len(job.queue) \in Int /\ seq + Len(job.queue) <= MaxSeq
  BY <1>1 DEF TypeStore, TypeWriter, JobType, QueueInv
<1>4. CASE d \in DOMAIN current
  <2>1. pc' = "log_delete" /\ UNCHANGED <<outcomes, txn>>
    BY <1>4 DEF DeletePop
  <2>2. current' = Without(current, d) /\ job' = [job EXCEPT !.key = current[d]]
    BY <1>4 DEF DeletePop
  <2>3. DOMAIN current' = DOMAIN current \ {d} /\ \A e \in DOMAIN current' : current'[e] = current[e]
    <3> HIDE DEF d
    <3> QED BY <2>2 DEF Without
  <2>4. /\ job' \in JobType /\ job'.queue = job.queue /\ job'.key = current[d] /\ InHand' = InHand
        /\ current[d] \in DOMAIN versions
    BY <1>4, <2>2 DEF TypeWriter, TypeTables, JobType, InHand
  <2>5. TypeStore' /\ TypeTables' /\ TypeReaders' /\ TypeBounds'
    BY <1>1, <2>3 DEF TypeStore, TypeTables, TypeReaders, TypeBounds
  <2>6. TypeWriter' /\ TypeTxns'
    BY <2>1, <2>4 DEF TypeWriter, TypeTxns
  <2>7. QueueInv' /\ DownInv'
    BY <1>1, <1>3, <2>1, <2>4 DEF QueueInv, DownInv, Logged, Writing
  <2>8. VersionsInv'
    <3>1. IsFiniteSet(DOMAIN current')
      BY <2>3, FS_RemoveElement DEF VersionsInv
    <3> QED BY <1>1, <1>4, <2>1, <2>3, <2>4, <3>1 DEF VersionsInv
  <2>9. LiveInv' /\ OneVersionPerDoc'
    BY <1>1, <1>4, <2>1, <2>3, <2>4 DEF LiveInv, OneVersionPerDoc
  <2>10. StoreInv'
    BY <1>1 DEF StoreInv, LiveDocs, Documents
  <2>11. MatchInv'
    BY <1>1, <1>4, <2>1, <2>3, <2>4 DEF MatchInv, Busy, LiveDocs
  <2>12. ReaderInv' /\ SnapshotInv'
    BY <1>1, <2>1, ReadersKeptTables DEF TypeStore
  <2> QED BY <2>5, <2>6, <2>7, <2>8, <2>9, <2>10, <2>11, <2>12
<1>5. CASE d \notin DOMAIN current
  <2>1. /\ TypeWriter' /\ TypeTxns' /\ pc' \in {"idle", "next"} /\ current' = current
        /\ pc' = "next" => job'.queue # <<>> /\ Len(job'.queue) = Len(job.queue) - 1
    BY <1>1, <1>5, AfterWriteDone DEF DeletePop, Writing
  <2>2. TypeStore' /\ TypeTables' /\ TypeReaders' /\ TypeBounds'
    BY <1>1, <2>1 DEF TypeStore, TypeTables, TypeReaders, TypeBounds
  <2>3. QueueInv' /\ DownInv'
    <3>1. pc' = "next" => seq' + Len(job'.queue) <= MaxSeq
      BY <1>1, <1>3, <2>1, BoundsAssumption
    <3> QED BY <2>1, <3>1 DEF QueueInv, DownInv, Logged, Writing
  <2>4. VersionsInv' /\ LiveInv' /\ OneVersionPerDoc'
    BY <1>1, <2>1 DEF VersionsInv, LiveInv, OneVersionPerDoc
  <2>5. StoreInv' /\ MatchInv'
    BY <1>1, <2>1 DEF StoreInv, LiveDocs, Documents, MatchInv, Busy
  <2>6. ReaderInv' /\ SnapshotInv'
    BY <1>1, <2>1, ReadersKeptTables DEF TypeStore
  <2> QED BY <2>1, <2>2, <2>3, <2>4, <2>5, <2>6
<1> QED BY <1>4, <1>5

\* The version of a deleted document dies with the number of the tombstone.
LEMMA DeleteMarkDeadInv == ASSUME Inv, DeleteMarkDead PROVE Inv'
<1> USE DEF Inv
<1> DEFINE d == InHand.doc
<1>1. pc = "mark_dead"
      /\ UNCHANGED <<stored, seq, history, current, nextKey, open, reader,
                     rebuilds, crashes, raised>>
  BY DEF DeleteMarkDead, store, bounds
<1>2. /\ TypeWriter' /\ TypeTxns' /\ pc' \in {"idle", "next"}
      /\ pc' = "next" => job'.queue # <<>> /\ Len(job'.queue) = Len(job.queue) - 1
  BY <1>1, AfterWriteDone DEF DeleteMarkDead, Writing
<1>3. /\ job.key \in DOMAIN versions /\ versions[job.key].doc = d /\ versions[job.key].dead = INF
      /\ d \notin DOMAIN current
  BY <1>1 DEF VersionsInv
<1>4. /\ DOMAIN versions' = DOMAIN versions
      /\ \A k \in DOMAIN versions :
           /\ versions'[k].doc = versions[k].doc /\ versions'[k].val = versions[k].val
           /\ versions'[k].born = versions[k].born
           /\ versions'[k].dead = IF k = job.key THEN seq ELSE versions[k].dead
           /\ versions'[k] \in Version
  <2>1. seq \in 0..INF
    BY BoundsAssumption DEF TypeStore
  <2> QED BY <1>3, <2>1 DEF DeleteMarkDead, TypeTables, Version
<1>5. TypeStore' /\ TypeTables' /\ TypeReaders' /\ TypeBounds'
  BY <1>1, <1>4 DEF TypeStore, TypeTables, TypeReaders, TypeBounds
<1>6. QueueInv' /\ DownInv'
  <2>1. seq \in Int /\ Len(job.queue) \in Int /\ seq + Len(job.queue) <= MaxSeq + 1
    BY <1>1 DEF TypeStore, TypeWriter, JobType, QueueInv, Logged
  <2>2. pc' = "next" => seq' + Len(job'.queue) <= MaxSeq
    BY <1>1, <1>2, <2>1, BoundsAssumption
  <2> QED BY <1>2, <2>2 DEF QueueInv, DownInv, Logged, Writing
<1>7. seq \in Int /\ seq < INF /\ INF \in Int
      /\ \A k \in DOMAIN versions : versions[k].born \in Int /\ versions[k].dead \in Int
  BY BoundsAssumption DEF TypeTables, Version, TypeStore
<1>8. VersionsInv'
  BY <1>1, <1>2, <1>3, <1>4, <1>7 DEF VersionsInv, TypeTables
<1>9. LiveInv'
  BY <1>1, <1>2, <1>3, <1>4, <1>7 DEF LiveInv, TypeTables
<1>10. OneVersionPerDoc'
  <2> SUFFICES ASSUME ~raised, NEW j \in DOMAIN versions, NEW k \in DOMAIN versions, j # k,
                      versions[j].doc = versions[k].doc
               PROVE  versions'[j].dead <= versions'[k].born \/ versions'[k].dead <= versions'[j].born
    BY <1>1, <1>4 DEF OneVersionPerDoc
  <2>1. versions[j].dead <= versions[k].born \/ versions[k].dead <= versions[j].born
    BY DEF OneVersionPerDoc
  <2>2. \A i \in DOMAIN versions : versions[i].born <= seq /\ versions'[i].dead <= versions[i].dead
    BY <1>3, <1>4, <1>7 DEF VersionsInv
  <2> QED BY <1>4, <1>7, <2>1, <2>2
<1>11. StoreInv'
  BY <1>1 DEF StoreInv, LiveDocs, Documents
<1>12. MatchInv'
  BY <1>1, <1>2, <1>3, <1>4 DEF MatchInv, Busy, LiveDocs, TypeTables
<1>13. ReaderInv' /\ SnapshotInv'
  <2>1. ASSUME NEW r \in Readers, Pinned(r)
        PROVE  open[r] < seq /\ open[r] \in Int
    BY <1>1, <2>1 DEF SnapshotInv, TypeReaders, Pinned
  <2>2. ASSUME NEW r \in Readers, Pinned(r), NEW k \in DOMAIN versions
        PROVE  VisibleAt(versions[k], open[r]) <=> VisibleAt(versions'[k], open[r])
    BY <1>3, <1>4, <1>7, <2>1, <2>2 DEF VisibleAt
  <2> QED BY <1>1, <1>2, <1>4, <2>1, <2>2, ReadersKept DEF TypeStore
<1> QED BY <1>2, <1>5, <1>6, <1>8, <1>9, <1>10, <1>11, <1>12, <1>13

\* A rejected write ends the call, and leaves what was done before it.
LEMMA UpsertRejectsInv == ASSUME Inv, UpsertRejects PROVE Inv'
<1> USE DEF Inv
<1>1. pc = "next" /\ pc' = "idle" /\ job' = NoJob
      /\ UNCHANGED <<stored, seq, history, versions, current, nextKey, open, reader, txn,
                     outcomes, rebuilds, crashes, raised>>
  BY DEF UpsertRejects, store, tables, others, bounds
<1>2. TypeStore' /\ TypeTables' /\ TypeWriter' /\ TypeReaders' /\ TypeTxns' /\ TypeBounds'
  BY <1>1 DEF TypeStore, TypeTables, TypeWriter, TypeReaders, TypeTxns, TypeBounds, NoJob, JobType
<1>3. QueueInv' /\ DownInv' /\ VersionsInv' /\ LiveInv' /\ OneVersionPerDoc'
  BY <1>1 DEF QueueInv, DownInv, Writing, Logged, VersionsInv, LiveInv, OneVersionPerDoc
<1>4. StoreInv' /\ MatchInv'
  BY <1>1 DEF StoreInv, LiveDocs, Documents, MatchInv, Busy
<1>5. ReaderInv' /\ SnapshotInv'
  BY <1>1, ReadersKeptTables DEF TypeStore
<1> QED BY <1>2, <1>3, <1>4, <1>5

\* The store raises: the tables keep what they had, and are no longer claimed
\* to agree with it.
LEMMA StoreRaisesInv == ASSUME Inv, StoreRaises PROVE Inv'
<1> USE DEF Inv
<1>1. pc \in {"next", "log_delete"} /\ pc' = "idle" /\ job' = NoJob /\ raised'
      /\ UNCHANGED <<versions, current, nextKey, open, reader, txn, outcomes, rebuilds, crashes>>
  BY DEF StoreRaises, tables, others
<1>2. /\ TypeStore' /\ StoreInv' /\ seq' = seq + 1 /\ seq' \in Nat /\ seq <= seq'
      /\ \A s \in 0..seq : history'[s] = history[s]
  <2>1. CASE LogRecord
    BY <1>1, <2>1, LogRecordStep
  <2>2. CASE seq' = seq + 1 /\ history' = [history EXCEPT ![seq'] = Documents(stored)]
             /\ UNCHANGED stored
    <3>1. seq' \in 0..MaxSeq /\ seq \in Nat
      <4>1. Len(job.queue) \in Nat /\ Len(job.queue) # 0
        BY <1>1, EmptySeq DEF TypeWriter, JobType, QueueInv, Writing
      <4> QED BY <1>1, <2>2, <4>1, BoundsAssumption DEF TypeStore, QueueInv
    <3>2. Documents(stored) \in SUBSET Doc
      BY DocumentsTyped DEF TypeStore
    <3>3. TypeStore'
      BY <2>2, <3>1, <3>2 DEF TypeStore
    <3>4. /\ history'[seq'] = Documents(stored')
          /\ \A s \in 0..seq : history'[s] = history[s]
      BY <2>2, <3>1, BoundsAssumption DEF TypeStore
    <3>5. \A e \in Docs : stored[e].seq \in Int
      BY DEF TypeStore
    <3>6. StoreInv'
      BY <2>2, <3>1, <3>4, <3>5 DEF StoreInv, LiveDocs, Documents
    <3> QED BY <2>2, <3>1, <3>3, <3>4, <3>6
  <2> QED BY <2>1, <2>2 DEF StoreRaises
<1>3. TypeTables' /\ TypeWriter' /\ TypeReaders' /\ TypeTxns' /\ TypeBounds'
  BY <1>1 DEF TypeTables, TypeWriter, TypeReaders, TypeTxns, TypeBounds, NoJob, JobType
<1>4. QueueInv' /\ DownInv' /\ LiveInv' /\ OneVersionPerDoc' /\ MatchInv'
  BY <1>1 DEF QueueInv, DownInv, Writing, Logged, LiveInv, OneVersionPerDoc, MatchInv
<1>5. VersionsInv'
  <2>1. seq \in Int /\ \A k \in DOMAIN versions : versions[k].born \in Int /\ versions[k].dead \in Int
    BY DEF TypeTables, Version, TypeStore
  <2> QED BY <1>1, <1>2, <2>1 DEF VersionsInv
<1>6. ReaderInv' /\ SnapshotInv'
  <2>1. seq' # seq
    BY <1>2 DEF TypeStore
  <2> QED BY <1>1, <1>2, <2>1, ReadersKeptTables
<1> QED BY <1>2, <1>3, <1>4, <1>5, <1>6

-----------------------------------------------------------------------------
(* Vacuum and rebuild. *)

\* No open snapshot is below the horizon, and the horizon is not ahead.
LEMMA HorizonBound ==
  ASSUME Inv
  PROVE  /\ Horizon \in Nat /\ Horizon <= seq
         /\ \A r \in DOMAIN open : Horizon <= open[r]
<1> DEFINE W == {open[r] : r \in DOMAIN open}
<1>1. seq \in Nat
  BY DEF Inv, TypeStore
<1>2. ASSUME NEW r \in DOMAIN open PROVE open[r] \in Nat /\ open[r] <= seq
  BY DEF Inv, TypeReaders, ReaderInv
<1>3. CASE DOMAIN open = {}
  BY <1>1, <1>3 DEF Horizon
<1>4. CASE DOMAIN open # {}
  <2>1. W \in SUBSET Nat /\ W # {} /\ \A y \in W : y <= seq
    BY <1>2, <1>4
  <2>2. Horizon = Min(W)
    BY <1>4 DEF Horizon
  <2>3. \A r \in DOMAIN open : open[r] \in W
    OBVIOUS
  <2> HIDE DEF W
  <2>4. Min(W) \in W /\ \A y \in W : Min(W) <= y
    BY <2>1, MinOfNat
  <2> QED BY <2>1, <2>2, <2>3, <2>4
<1> QED BY <1>3, <1>4

LEMMA VacuumInv == ASSUME Inv, Vacuum PROVE Inv'
<1> USE DEF Inv
<1> DEFINE dead == {k \in DOMAIN versions : versions[k].dead <= Horizon}
<1>1. pc = "idle" /\ pc' = "vacuum" /\ dead # {} /\ job' = [NoJob EXCEPT !.dead = dead]
      /\ UNCHANGED <<stored, seq, history, versions, current, nextKey, open, reader, txn,
                     outcomes, rebuilds, crashes, raised>>
  BY DEF Vacuum, store, tables, others, bounds
<1>2. job' \in JobType /\ job'.dead = dead
  <2>1. NoJob \in JobType /\ dead \in SUBSET Nat
    BY DEF NoJob, JobType, TypeTables
  <2> HIDE DEF dead
  <2> QED BY <1>1, <2>1 DEF JobType
<1>3. TypeStore' /\ TypeTables' /\ TypeWriter' /\ TypeReaders' /\ TypeTxns' /\ TypeBounds'
  BY <1>1, <1>2 DEF TypeStore, TypeTables, TypeWriter, TypeReaders, TypeTxns, TypeBounds
<1>4. QueueInv' /\ DownInv' /\ LiveInv' /\ OneVersionPerDoc'
  BY <1>1 DEF QueueInv, DownInv, Writing, Logged, LiveInv, OneVersionPerDoc
<1>5. \A k \in DOMAIN versions : versions[k].dead \in Int
  BY DEF TypeTables, Version
<1>6. seq \in Nat /\ Horizon \in Nat /\ Horizon <= seq /\ \A r \in DOMAIN open : Horizon <= open[r]
  BY HorizonBound DEF TypeStore
<1>7. VersionsInv'
  <2>1. \A k \in dead : k \in DOMAIN versions /\ versions[k].dead <= seq
    BY <1>5, <1>6
  <2> HIDE DEF dead
  <2> QED BY <1>1, <1>2, <2>1 DEF VersionsInv
<1>8. StoreInv' /\ MatchInv'
  BY <1>1 DEF StoreInv, LiveDocs, Documents, MatchInv, Busy
<1>9. ReaderInv' /\ SnapshotInv'
  <2>1. ASSUME NEW r \in Readers, Pinned(r), NEW k \in dead PROVE versions[k].dead <= open[r]
    <3>1. r \in DOMAIN open /\ open[r] \in Int
      BY <2>1 DEF Pinned, TypeReaders
    <3> QED BY <1>5, <1>6, <3>1
  <2> HIDE DEF dead
  <2> QED BY <1>1, <1>2, <1>6, <2>1, ReadersKept
<1> QED BY <1>3, <1>4, <1>7, <1>8, <1>9

LEMMA VacuumDropInv == ASSUME Inv, VacuumDrop PROVE Inv'
<1> USE DEF Inv
<1> DEFINE k == Min(job.dead)
<1>1. pc = "vacuum" /\ versions' = Without(versions, k) /\ job' = [job EXCEPT !.dead = @ \ {k}]
      /\ pc' = (IF job'.dead = {} THEN "idle" ELSE "vacuum")
      /\ UNCHANGED <<stored, seq, history, current, nextKey, open, reader, txn,
                     outcomes, rebuilds, crashes, raised>>
  BY DEF VacuumDrop, store, others, bounds
<1>2. k \in job.dead
  <2>1. job.dead \in SUBSET Nat /\ job.dead # {}
    BY <1>1 DEF TypeWriter, JobType, VersionsInv
  <2> QED BY <2>1, MinOfNat
<1> HIDE DEF k
<1>3. /\ DOMAIN versions' = DOMAIN versions \ {k}
      /\ \A j \in DOMAIN versions' : versions'[j] = versions[j]
  BY <1>1 DEF Without
<1>4. job' \in JobType /\ job'.dead = job.dead \ {k}
  BY <1>1 DEF TypeWriter, JobType
<1>5. k \in DOMAIN versions /\ versions[k].dead <= seq
  BY <1>1, <1>2 DEF VersionsInv
<1>6. seq \in Int /\ seq < INF /\ INF \in Int
      /\ \A j \in DOMAIN versions : versions[j].born \in Int /\ versions[j].dead \in Int
  BY BoundsAssumption DEF TypeTables, Version, TypeStore
<1>7. \A d \in DOMAIN current : current[d] # k
  BY <1>1, <1>5, <1>6 DEF VersionsInv
<1>8. TypeStore' /\ TypeTables' /\ TypeWriter' /\ TypeReaders' /\ TypeTxns' /\ TypeBounds'
  BY <1>1, <1>3, <1>4, <1>7
     DEF TypeStore, TypeTables, TypeWriter, TypeReaders, TypeTxns, TypeBounds
<1>9. QueueInv' /\ DownInv'
  BY <1>1 DEF QueueInv, DownInv, Writing, Logged
<1>10. VersionsInv' /\ LiveInv' /\ OneVersionPerDoc'
  <2>1. VersionsInv'
    BY <1>1, <1>3, <1>4, <1>7 DEF VersionsInv, TypeTables
  <2>2. LiveInv' /\ OneVersionPerDoc'
    BY <1>1, <1>3 DEF LiveInv, OneVersionPerDoc
  <2> QED BY <2>1, <2>2
<1>11. StoreInv'
  BY <1>1 DEF StoreInv, LiveDocs, Documents
<1>12. MatchInv'
  BY <1>1, <1>3, <1>7 DEF MatchInv, Busy, LiveDocs, TypeTables
<1>13. ReaderInv' /\ SnapshotInv'
  <2>1. ASSUME NEW r \in Readers, Pinned(r)
        PROVE  /\ open[r] \in Int
               /\ \A j \in job.dead : j \in DOMAIN versions /\ versions[j].dead <= open[r]
    BY <1>1, <2>1 DEF SnapshotInv, TypeReaders, Pinned, VersionsInv
  <2>2. ASSUME NEW r \in Readers, Pinned(r) PROVE ~VisibleAt(versions[k], open[r])
    BY <1>2, <1>5, <1>6, <2>1, <2>2 DEF VisibleAt
  <2>3. ASSUME NEW r \in Readers, Pinned(r), NEW j \in job'.dead
        PROVE  versions'[j].dead <= open[r]
    BY <1>3, <1>4, <2>1, <2>3
  <2> QED BY <1>1, <1>3, <2>2, <2>3, ReadersKept DEF TypeStore
<1> QED BY <1>8, <1>9, <1>10, <1>11, <1>12, <1>13

\* The current versions under new keys; no snapshot counts as settled after it.
LEMMA RebuildIndexInv == ASSUME Inv, RebuildIndex PROVE Inv'
<1> USE DEF Inv
<1> DEFINE S == DOMAIN current
<1>1. pc = "idle" /\ pc' = "idle" /\ nextKey' = Cardinality(S) /\ rebuilds' = rebuilds + 1
      /\ reader' = [r \in Readers |-> [reader[r] EXCEPT !.settled = FALSE]]
      /\ UNCHANGED <<stored, seq, history, job, open, txn, outcomes, crashes, raised>>
  BY DEF RebuildIndex, store, writer
<1>2. Cardinality(S) \in Nat
  BY FS_CardinalityType DEF VersionsInv
<1>3. /\ current' \in [S -> 0..Cardinality(S) - 1]
      /\ \A d, e \in S : current'[d] = current'[e] => d = e
  BY DEF RebuildIndex, Numberings
<1>4. /\ DOMAIN versions' = {current'[d] : d \in S}
      /\ \A d \in S : versions'[current'[d]] = [versions[current[d]] EXCEPT !.dead = INF]
  <2>1. versions' = [j \in {current'[d] : d \in S} |->
           [versions[current[CHOOSE e \in S : current'[e] = j]] EXCEPT !.dead = INF]]
    BY DEF RebuildIndex
  <2>2. ASSUME NEW d \in S PROVE (CHOOSE e \in S : current'[e] = current'[d]) = d
    BY <1>3
  <2> QED BY <2>1, <2>2
<1>5. ASSUME NEW d \in S
      PROVE  /\ current[d] \in DOMAIN versions /\ versions[current[d]].dead = INF
             /\ versions'[current'[d]] = versions[current[d]]
             /\ versions[current[d]] \in Version
             /\ current'[d] \in DOMAIN versions' /\ current'[d] \in Nat /\ current'[d] < nextKey'
  <2>1. current[d] \in DOMAIN versions /\ versions[current[d]].dead = INF
        /\ versions[current[d]] \in Version
    BY <1>1 DEF VersionsInv, TypeTables
  <2>2. [versions[current[d]] EXCEPT !.dead = INF] = versions[current[d]]
    BY <2>1 DEF Version
  <2>3. current'[d] \in Nat /\ current'[d] < nextKey'
    BY <1>1, <1>2, <1>3
  <2> QED BY <1>4, <2>1, <2>2, <2>3
<1>6. DOMAIN current' = S /\ \A k \in DOMAIN versions' : \E d \in S : k = current'[d]
  BY <1>3, <1>4
<1>7. TypeStore' /\ TypeTables' /\ TypeWriter' /\ TypeTxns' /\ TypeBounds'
  BY <1>1, <1>2, <1>5, <1>6 DEF TypeStore, TypeTables, TypeWriter, TypeTxns, TypeBounds
<1>8. /\ TypeReaders'
      /\ \A r \in Readers : /\ reader'[r].pc = reader[r].pc /\ reader'[r].snap = reader[r].snap
                            /\ reader'[r].found = reader[r].found /\ reader'[r].settled = FALSE
  BY <1>1 DEF TypeReaders, ReaderType
<1>9. QueueInv' /\ DownInv'
  BY <1>1 DEF QueueInv, DownInv, Writing, Logged
<1>10. VersionsInv'
  <2>1. \A k \in DOMAIN versions' :
          k < nextKey' /\ versions'[k].born <= seq /\ versions'[k].dead = INF
    BY <1>5, <1>6 DEF VersionsInv
  <2>2. \A d \in S : versions'[current'[d]].doc = d /\ versions'[current'[d]].dead = INF
    BY <1>5 DEF VersionsInv
  <2> QED BY <1>1, <1>6, <2>1, <2>2 DEF VersionsInv
<1>11. LiveInv' /\ OneVersionPerDoc'
  <2>1. \A d \in S : versions'[current'[d]].doc = d
    BY <1>5 DEF VersionsInv
  <2> QED BY <1>1, <1>6, <2>1 DEF LiveInv, OneVersionPerDoc
<1>12. StoreInv'
  BY <1>1 DEF StoreInv, LiveDocs, Documents
<1>13. MatchInv'
  BY <1>1, <1>5, <1>6 DEF MatchInv, Busy, LiveDocs
<1>14. ReaderInv' /\ SnapshotInv'
  BY <1>1, <1>8 DEF ReaderInv, SnapshotInv, Pinned
<1> QED BY <1>7, <1>8, <1>9, <1>10, <1>11, <1>12, <1>13, <1>14

-----------------------------------------------------------------------------
(* Transactions. *)

\* What a commit may leave is a set of documents.
LEMMA AppliedTyped ==
  ASSUME Inv, NEW ops \in Seq(Writes)
  PROVE  Applied(ops) \in SUBSET Doc
<1> DEFINE left(d) == IF d \in Touched(ops)
                      THEN ops[Max({i \in DOMAIN ops : ops[i].doc = d})].val
                      ELSE stored[d].val
<1>1. Applied(ops) = {w \in {[doc |-> d, val |-> left(d)] : d \in Docs} : w.val # NoVal}
  BY DEF Applied
<1>2. ASSUME NEW d \in Docs PROVE left(d) \in Values \cup {NoVal}
  <2>1. CASE d \notin Touched(ops)
    BY <2>1 DEF Inv, TypeStore
  <2>2. CASE d \in Touched(ops)
    <3> DEFINE W == {i \in DOMAIN ops : ops[i].doc = d}
    <3>1. W \in SUBSET (0..Len(ops)) /\ W # {} /\ Len(ops) \in Nat
      BY <2>2 DEF Touched
    <3>2. Max(W) \in W
      <4> HIDE DEF W
      <4> QED BY <3>1, MaxOfBounded
    <3>3. ops[Max(W)] \in Writes
      BY <3>2
    <3>4. ops[Max(W)].val \in Values \cup {NoVal}
      BY <3>3, WriteTyped
    <3> QED BY <2>2, <3>4
  <2> QED BY <2>1, <2>2
<1> HIDE DEF left
<1> QED BY <1>1, <1>2 DEF Doc

LEMMA CommitInv == ASSUME Inv, NEW t \in Txns, Commit(t) PROVE Inv'
<1> DEFINE ops == txn[t].ops
<1>1. ops \in Seq(Writes) /\ ops # <<>> /\ {t} \in SUBSET Txns
  BY DEF Commit, Inv, TypeTxns
<1>2. Documents(stored) \in SUBSET Doc
  BY DocumentsTyped DEF Inv, TypeStore
<1>3. Applied(ops) \in SUBSET Doc
  BY <1>1, AppliedTyped
<1>4. Begin(ops, {t}, {Documents(stored), Applied(ops)})
  BY DEF Commit
<1>5. {Documents(stored), Applied(ops)} \in SUBSET SUBSET Doc
  BY <1>2, <1>3
<1> HIDE DEF ops
<1> QED BY <1>1, <1>4, <1>5, BeginInv

\* A step that changes nothing but the transactions.
LEMMA TxnStepInv ==
  ASSUME Inv, NEW t \in Txns,
         TxnBegin(t) \/ Rollback(t) \/ (\E w \in Writes : TxnStage(t, w))
  PROVE  Inv'
<1> USE DEF Inv
<1>1. UNCHANGED <<stored, seq, history, versions, current, nextKey, pc, job, open, reader,
                  outcomes, rebuilds, crashes, raised>>
  BY DEF TxnBegin, Rollback, TxnStage, store, tables, writer, bounds
<1>2. TypeTxns'
  <2>1. 0 \in 0..MaxSeq /\ <<>> \in Seq(Writes) /\ seq \in 0..MaxSeq
    BY BoundsAssumption DEF TypeStore
  <2>2. CASE TxnBegin(t)
    BY <2>1, <2>2 DEF TxnBegin, TypeTxns
  <2>3. CASE Rollback(t)
    BY <2>1, <2>3 DEF Rollback, TypeTxns, NoTxn
  <2>4. ASSUME NEW w \in Writes, TxnStage(t, w) PROVE TypeTxns'
    <3>1. Append(txn[t].ops, w) \in Seq(Writes)
      BY DEF TypeTxns
    <3> QED BY <2>4, <3>1 DEF TxnStage, TypeTxns
  <2> QED BY <2>2, <2>3, <2>4
<1>3. TypeStore' /\ TypeTables' /\ TypeWriter' /\ TypeReaders' /\ TypeBounds'
  BY <1>1 DEF TypeStore, TypeTables, TypeWriter, TypeReaders, TypeBounds
<1>4. QueueInv' /\ DownInv' /\ VersionsInv' /\ LiveInv' /\ OneVersionPerDoc'
  BY <1>1 DEF QueueInv, DownInv, VersionsInv, LiveInv, OneVersionPerDoc, InHand
<1>5. StoreInv' /\ MatchInv'
  BY <1>1 DEF StoreInv, LiveDocs, Documents, MatchInv, Busy, InHand
<1>6. ReaderInv' /\ SnapshotInv'
  BY <1>1 DEF ReaderInv, SnapshotInv, Pinned, View
<1> QED BY <1>2, <1>3, <1>4, <1>5, <1>6

-----------------------------------------------------------------------------
(* Readers. *)

\* A step that changes nothing but what the readers have.
LEMMA ReaderStep ==
  ASSUME Inv, UNCHANGED <<stored, seq, history, versions, current, nextKey, pc, job, txn,
                          outcomes, rebuilds, crashes, raised>>,
         pc # "down", TypeReaders', ReaderInv', SnapshotInv'
  PROVE  Inv'
<1> USE DEF Inv
<1>1. TypeStore' /\ TypeTables' /\ TypeWriter' /\ TypeTxns' /\ TypeBounds'
  BY DEF TypeStore, TypeTables, TypeWriter, TypeTxns, TypeBounds
<1>2. QueueInv' /\ DownInv' /\ VersionsInv' /\ LiveInv' /\ OneVersionPerDoc'
  BY DEF QueueInv, DownInv, VersionsInv, LiveInv, OneVersionPerDoc, InHand
<1>3. StoreInv' /\ MatchInv'
  BY DEF StoreInv, LiveDocs, Documents, MatchInv, Busy, InHand
<1> QED BY <1>1, <1>2, <1>3

\* What holds of a reader r, in a form that a step of another one leaves alone.
ReaderOK(r) ==
  /\ reader[r].pc = "pinning" => reader[r].snap <= seq /\ r \notin DOMAIN open
  /\ r \in DOMAIN open => open[r] <= seq
  /\ reader[r].found # {} => r \in DOMAIN open /\ reader[r].pc = "found"
  /\ reader[r].pc = "pinning" /\ reader[r].settled /\ reader[r].snap = seq =>
       ~raised /\ pc \notin {"supersede", "publish", "mark_dead", "down"}
  /\ Pinned(r) =>
       /\ View(open[r]) = history[open[r]]
       /\ pc \in {"supersede", "publish", "mark_dead"} => open[r] < seq
       /\ pc = "vacuum" => \A k \in job.dead : versions[k].dead <= open[r]
       /\ \A f \in reader[r].found :
            /\ f.key \in DOMAIN versions /\ VisibleAt(versions[f.key], open[r])
            /\ versions[f.key].doc = f.doc /\ versions[f.key].val = f.val

LEMMA ReadersOK == ReaderInv /\ SnapshotInv <=> \A r \in Readers : ReaderOK(r)
BY DEF ReaderInv, SnapshotInv, ReaderOK

LEMMA OtherReaders ==
  ASSUME Inv, NEW r \in Readers, MayRead, TypeReaders',
         UNCHANGED <<stored, seq, history, versions, current, nextKey, pc, job, txn,
                     outcomes, rebuilds, crashes, raised>>,
         \A q \in Readers : q # r =>
           /\ reader'[q] = reader[q]
           /\ q \in DOMAIN open' <=> q \in DOMAIN open
           /\ q \in DOMAIN open => open'[q] = open[q],
         ReaderOK(r)'
  PROVE  Inv'
<1>1. ASSUME NEW q \in Readers, q # r PROVE ReaderOK(q)'
  <2>1. ReaderOK(q)
    BY ReadersOK DEF Inv
  <2> QED BY <1>1, <2>1 DEF ReaderOK, Pinned, View
<1>2. \A q \in Readers : ReaderOK(q)'
  BY <1>1
<1>3. ReaderInv' /\ SnapshotInv'
  BY <1>2 DEF ReaderInv, SnapshotInv, ReaderOK
<1> QED BY <1>3, ReaderStep DEF MayRead

\* A reader's record after an assignment to several of its fields.
Moved(x, p, f) == [x EXCEPT !.pc = p, !.found = f]
Settled(x, p, b) == [x EXCEPT !.pc = p, !.settled = b]
Pinning(n, b) == [AtRest EXCEPT !.pc = "pinning", !.snap = n, !.settled = b]

LEMMA ReaderMoves ==
  ASSUME NEW x \in ReaderType, NEW p \in {"idle", "pinning", "found"},
         NEW f \in SUBSET [key : Nat, doc : Docs, val : Values]
  PROVE  /\ Moved(x, p, f) \in ReaderType
         /\ Moved(x, p, f).pc = p /\ Moved(x, p, f).found = f
         /\ Moved(x, p, f).settled = x.settled
<1> DEFINE z == [x EXCEPT !.pc = p]
<1>1. z \in ReaderType /\ z.pc = p /\ z.snap = x.snap /\ z.settled = x.settled
  BY DEF ReaderType
<1>2. Moved(x, p, f) = [z EXCEPT !.found = f]
  BY DEF ReaderType, Moved
<1> HIDE DEF z
<1> QED BY <1>1, <1>2 DEF ReaderType

LEMMA ReaderSettles ==
  ASSUME NEW x \in ReaderType, NEW p \in {"idle", "pinning", "found"}, NEW b \in BOOLEAN
  PROVE  /\ Settled(x, p, b) \in ReaderType
         /\ Settled(x, p, b).pc = p /\ Settled(x, p, b).found = x.found
         /\ Settled(x, p, b).settled = b
<1> DEFINE z == [x EXCEPT !.pc = p]
<1>1. z \in ReaderType /\ z.pc = p /\ z.snap = x.snap /\ z.found = x.found
  BY DEF ReaderType
<1>2. Settled(x, p, b) = [z EXCEPT !.settled = b]
  BY DEF ReaderType, Settled
<1> HIDE DEF z
<1> QED BY <1>1, <1>2 DEF ReaderType

LEMMA ReaderPins ==
  ASSUME NEW n \in 0..MaxSeq, NEW b \in BOOLEAN
  PROVE  /\ Pinning(n, b) \in ReaderType
         /\ Pinning(n, b).pc = "pinning" /\ Pinning(n, b).found = {}
         /\ Pinning(n, b).snap = n /\ Pinning(n, b).settled = b
<1> DEFINE z == [AtRest EXCEPT !.pc = "pinning"]
           u == [z EXCEPT !.snap = n]
<1>1. AtRest \in ReaderType /\ AtRest.found = {}
  BY BoundsAssumption DEF AtRest, ReaderType
<1>2. Pinning(n, b) = [u EXCEPT !.settled = b]
  BY <1>1 DEF ReaderType, Pinning
<1>3. z \in ReaderType /\ z.pc = "pinning" /\ z.found = {}
  BY <1>1 DEF ReaderType
<1> HIDE DEF z
<1>4. u \in ReaderType /\ u.pc = "pinning" /\ u.found = {} /\ u.snap = n
  BY <1>3 DEF ReaderType
<1> HIDE DEF u
<1> QED BY <1>2, <1>4 DEF ReaderType

LEMMA PinReadInv == ASSUME Inv, NEW r \in Readers, PinRead(r) PROVE Inv'
<1> USE DEF Inv
<1>1. /\ MayRead /\ r \notin DOMAIN open
      /\ UNCHANGED <<stored, seq, history, versions, current, nextKey, pc, job, open, txn,
                     outcomes, rebuilds, crashes, raised>>
  BY DEF PinRead, store, tables, writer, bounds
<1>2. PICK b \in BOOLEAN : b = (~raised /\ pc \notin {"supersede", "publish", "mark_dead"})
  OBVIOUS
<1> DEFINE new == Pinning(seq, b)
<1>3. reader' = [reader EXCEPT ![r] = new]
  BY <1>2 DEF PinRead, Pinning
<1>4. seq \in 0..MaxSeq
  BY DEF TypeStore
<1>5. /\ new \in ReaderType /\ new.pc = "pinning" /\ new.found = {}
      /\ new.snap = seq /\ new.settled = b
  BY <1>4, ReaderPins
<1> HIDE DEF new
<1>6. TypeReaders' /\ reader'[r] = new /\ \A q \in Readers : q # r => reader'[q] = reader[q]
  BY <1>1, <1>3, <1>5 DEF TypeReaders
<1>7. ReaderOK(r)'
  <2>1. /\ reader'[r].pc = "pinning" /\ reader'[r].snap = seq' /\ r \notin DOMAIN open'
        /\ reader'[r].found = {} /\ seq' \in Nat
    BY <1>1, <1>4, <1>5, <1>6
  <2>2. reader'[r].settled => ~raised' /\ pc' \notin {"supersede", "publish", "mark_dead", "down"}
    BY <1>1, <1>2, <1>5, <1>6 DEF MayRead
  <2> QED BY <2>1, <2>2 DEF ReaderOK, Pinned
<1> QED BY <1>1, <1>6, <1>7, OtherReaders

\* The snapshot is registered: if nothing was logged since its number was read,
\* it sees what is there now.
LEMMA PinAcquireInv == ASSUME Inv, NEW r \in Readers, PinAcquire(r) PROVE Inv'
<1> USE DEF Inv
<1>1. /\ MayRead /\ reader[r].pc = "pinning"
      /\ UNCHANGED <<stored, seq, history, versions, current, nextKey, pc, job, txn,
                     outcomes, rebuilds, crashes, raised>>
  BY DEF PinAcquire, store, tables, writer, bounds
<1> DEFINE s == reader[r].snap
<1>2. s \in 0..MaxSeq /\ s <= seq /\ reader[r].found = {}
  BY <1>1 DEF TypeReaders, ReaderType, ReaderInv
<1>3. /\ DOMAIN open' = DOMAIN open \cup {r} /\ open'[r] = s
      /\ \A q \in DOMAIN open : q # r => open'[q] = open[q]
  BY DEF PinAcquire, With
<1>4. /\ reader' \in [Readers -> ReaderType]
      /\ reader'[r].pc = "idle" /\ reader'[r].found = {}
      /\ reader'[r].settled <=> reader[r].settled /\ s = seq
      /\ \A q \in Readers : q # r => reader'[q] = reader[q]
  <2>1. reader[r] \in ReaderType
    BY DEF TypeReaders
  <2>2. PICK b \in BOOLEAN : b = (reader[r].settled /\ s = seq)
    OBVIOUS
  <2> DEFINE new == Settled(reader[r], "idle", b)
  <2>3. reader' = [reader EXCEPT ![r] = new]
    BY <2>2 DEF PinAcquire, TypeReaders, Settled
  <2>4. new \in ReaderType /\ new.pc = "idle" /\ new.found = {} /\ new.settled = b
    BY <1>2, <2>1, ReaderSettles
  <2> HIDE DEF new
  <2> QED BY <2>2, <2>3, <2>4 DEF TypeReaders
<1>5. TypeReaders'
  BY <1>2, <1>3, <1>4 DEF TypeReaders
<1>6. ReaderOK(r)'
  <2>1. ASSUME Pinned(r)'
        PROVE  /\ s = seq /\ ~raised /\ pc \notin {"supersede", "publish", "mark_dead", "down"}
               /\ View(seq) = history[seq]
    <3>1. s = seq /\ ~raised /\ pc \notin {"supersede", "publish", "mark_dead", "down"}
      BY <1>1, <1>4, <2>1 DEF Pinned, ReaderInv
    <3> QED BY <3>1, NowConsistent
  <2>2. View(open[r])' = View(s)
    BY <1>1, <1>3 DEF View
  <2>3. pc = "vacuum" => \A k \in job.dead : versions[k].dead <= seq
    BY DEF VersionsInv
  <2> QED BY <1>1, <1>2, <1>3, <1>4, <2>1, <2>2, <2>3 DEF ReaderOK, Pinned
<1> QED BY <1>1, <1>3, <1>4, <1>5, <1>6, OtherReaders

LEMMA SearchInv == ASSUME Inv, NEW r \in Readers, Search(r) PROVE Inv'
<1> USE DEF Inv
<1>1. /\ MayRead /\ r \in DOMAIN open /\ reader[r].pc = "idle"
      /\ UNCHANGED <<stored, seq, history, versions, current, nextKey, pc, job, open, txn,
                     outcomes, rebuilds, crashes, raised>>
  BY DEF Search, store, tables, writer, bounds
<1>2. PICK k \in DOMAIN versions :
        /\ VisibleAt(versions[k], open[r])
        /\ reader' = [reader EXCEPT ![r].pc = "found",
             ![r].found = {[key |-> k, doc |-> versions[k].doc, val |-> versions[k].val]}]
  BY DEF Search
<1> DEFINE f == [key |-> k, doc |-> versions[k].doc, val |-> versions[k].val]
<1>3. f \in [key : Nat, doc : Docs, val : Values]
  BY DEF TypeTables, Version
<1>4. /\ reader' \in [Readers -> ReaderType]
      /\ reader'[r].pc = "found" /\ reader'[r].found = {f}
      /\ reader'[r].settled = reader[r].settled
      /\ \A q \in Readers : q # r => reader'[q] = reader[q]
  <2>1. reader[r] \in ReaderType
    BY DEF TypeReaders
  <2> DEFINE new == Moved(reader[r], "found", {f})
  <2>2. reader' = [reader EXCEPT ![r] = new]
    BY <1>2 DEF TypeReaders, Moved
  <2>3. {f} \in SUBSET [key : Nat, doc : Docs, val : Values]
    BY <1>3
  <2> HIDE DEF f
  <2>4. /\ new \in ReaderType /\ new.pc = "found" /\ new.found = {f}
        /\ new.settled = reader[r].settled
    BY <2>1, <2>3, ReaderMoves
  <2> HIDE DEF new
  <2> QED BY <2>2, <2>4 DEF TypeReaders
<1>5. TypeReaders'
  BY <1>1, <1>4 DEF TypeReaders
<1>6. ReaderOK(r)'
  <2>1. ReaderOK(r)
    BY ReadersOK
  <2> QED BY <1>1, <1>2, <1>4, <2>1 DEF ReaderOK, Pinned, View
<1> QED BY <1>1, <1>4, <1>5, <1>6, OtherReaders

LEMMA ToHitInv == ASSUME Inv, NEW r \in Readers, ToHit(r) PROVE Inv'
<1> USE DEF Inv
<1>1. /\ MayRead /\ reader[r].pc = "found"
      /\ UNCHANGED <<stored, seq, history, versions, current, nextKey, pc, job, open, txn,
                     outcomes, rebuilds, crashes, raised>>
  BY DEF ToHit, store, tables, writer, bounds
<1>2. /\ reader' \in [Readers -> ReaderType]
      /\ reader'[r].pc = "idle" /\ reader'[r].found = {}
      /\ reader'[r].settled = reader[r].settled
      /\ \A q \in Readers : q # r => reader'[q] = reader[q]
  <2>1. reader[r] \in ReaderType
    BY DEF TypeReaders
  <2> DEFINE new == Moved(reader[r], "idle", {})
  <2>2. reader' = [reader EXCEPT ![r] = new]
    BY DEF ToHit, TypeReaders, Moved
  <2>4. /\ new \in ReaderType /\ new.pc = "idle" /\ new.found = {}
        /\ new.settled = reader[r].settled
    BY <2>1, ReaderMoves
  <2> HIDE DEF new
  <2> QED BY <2>2, <2>4 DEF TypeReaders
<1>3. TypeReaders'
  BY <1>1, <1>2 DEF TypeReaders
<1>4. ReaderOK(r)'
  <2>1. ReaderOK(r)
    BY ReadersOK
  <2> QED BY <1>1, <1>2, <2>1 DEF ReaderOK, Pinned, View
<1> QED BY <1>1, <1>2, <1>3, <1>4, OtherReaders

LEMMA ReleaseInv == ASSUME Inv, NEW r \in Readers, Release(r) PROVE Inv'
<1> USE DEF Inv
<1>1. /\ MayRead /\ reader[r].pc = "idle" /\ reader' = [reader EXCEPT ![r] = AtRest]
      /\ UNCHANGED <<stored, seq, history, versions, current, nextKey, pc, job, txn,
                     outcomes, rebuilds, crashes, raised>>
  BY DEF Release, store, tables, writer, bounds
<1>2. /\ DOMAIN open' = DOMAIN open \ {r}
      /\ \A q \in DOMAIN open' : open'[q] = open[q]
  BY DEF Release, Without
<1>3. AtRest \in ReaderType /\ AtRest.pc = "idle" /\ AtRest.found = {}
  BY BoundsAssumption DEF AtRest, ReaderType
<1>4. TypeReaders' /\ reader'[r] = AtRest /\ \A q \in Readers : q # r => reader'[q] = reader[q]
  BY <1>1, <1>2, <1>3 DEF TypeReaders
<1>5. ReaderOK(r)'
  BY <1>2, <1>3, <1>4 DEF ReaderOK, Pinned
<1> QED BY <1>1, <1>2, <1>4, <1>5, OtherReaders

-----------------------------------------------------------------------------
(* Crash and restart. *)

LEMMA CrashInv == ASSUME Inv, Crash PROVE Inv'
<1> USE DEF Inv
<1>1. /\ pc' = "down" /\ job' = NoJob /\ raised' = FALSE /\ nextKey' = 0 /\ crashes' = crashes + 1
      /\ DOMAIN versions' = {} /\ DOMAIN current' = {} /\ DOMAIN open' = {}
      /\ reader' = [r \in Readers |-> AtRest] /\ txn' = [t \in Txns |-> NoTxn]
      /\ UNCHANGED <<stored, seq, history, outcomes, rebuilds>>
  BY DEF Crash, store, EmptyFcn
<1>2. NoJob \in JobType /\ AtRest \in ReaderType
  BY BoundsAssumption DEF NoJob, JobType, AtRest, ReaderType
<1>3. AtRest.pc = "idle" /\ AtRest.found = {}
  BY DEF AtRest
<1>4. NoTxn \in [start : 0..MaxSeq, ops : Seq(Writes), active : BOOLEAN]
  <2>1. 0 \in 0..MaxSeq /\ <<>> \in Seq(Writes)
    BY BoundsAssumption
  <2> QED BY <2>1 DEF NoTxn
<1>5. TypeStore' /\ TypeTables' /\ TypeWriter' /\ TypeReaders' /\ TypeBounds'
  <2>1. TypeTables'
    BY <1>1 DEF TypeTables
  <2>2. TypeReaders'
    BY <1>1, <1>2 DEF TypeReaders
  <2>3. TypeStore' /\ TypeWriter'
    BY <1>1, <1>2 DEF TypeStore, TypeWriter
  <2>4. TypeBounds'
    <3>1. rebuilds' \in Nat /\ crashes' \in Nat
      BY <1>1 DEF TypeBounds
    <3>2. raised' \in BOOLEAN
      BY <1>1
    <3> QED BY <3>1, <3>2 DEF TypeBounds
  <2> QED BY <2>1, <2>2, <2>3, <2>4
<1>6. TypeTxns'
  BY <1>1, <1>4 DEF TypeTxns
<1>7. QueueInv' /\ DownInv' /\ LiveInv' /\ OneVersionPerDoc'
  BY <1>1 DEF QueueInv, DownInv, LiveInv, OneVersionPerDoc, Writing, Logged
<1>8. VersionsInv'
  BY <1>1, FS_EmptySet DEF VersionsInv
<1>9. StoreInv' /\ MatchInv'
  BY <1>1 DEF StoreInv, LiveDocs, Documents, MatchInv
<1>10. ReaderInv' /\ SnapshotInv'
  BY <1>1, <1>3 DEF ReaderInv, SnapshotInv, Pinned
<1> QED BY <1>5, <1>6, <1>7, <1>8, <1>9, <1>10

\* The live records are numbered from 0 without a gap, each with a number of
\* its own.
LEMMA PositionBijective ==
  ASSUME Inv
  PROVE  /\ Cardinality(LiveDocs) \in Nat
         /\ \A d \in LiveDocs : Position(d) \in 0..Cardinality(LiveDocs) - 1
         /\ \A d, e \in LiveDocs : Position(d) = Position(e) => d = e
         /\ \A k \in 0..Cardinality(LiveDocs) - 1 : \E d \in LiveDocs : Position(d) = k
<1> DEFINE Before(d) == {e \in LiveDocs : stored[e].seq < stored[d].seq}
           n == Cardinality(LiveDocs)
<1>1. IsFiniteSet(LiveDocs) /\ n \in Nat
  BY FS_CardinalityType DEF Inv, StoreInv
<1>2. \A d \in LiveDocs : stored[d].seq \in Nat
  BY DEF Inv, TypeStore, LiveDocs
<1>3. \A d, e \in LiveDocs : stored[d].seq = stored[e].seq => d = e
  BY DEF Inv, StoreInv
<1>4. ASSUME NEW d \in LiveDocs
      PROVE  /\ IsFiniteSet(Before(d)) /\ Position(d) = Cardinality(Before(d))
             /\ Position(d) \in 0..n - 1
  <2>1. Before(d) \in SUBSET (LiveDocs \ {d})
    BY <1>2
  <2>2. IsFiniteSet(LiveDocs \ {d}) /\ Cardinality(LiveDocs \ {d}) = n - 1
    BY <1>1, FS_RemoveElement
  <2>3. IsFiniteSet(Before(d)) /\ Cardinality(Before(d)) <= n - 1
    BY <2>1, <2>2, FS_Subset
  <2>4. Cardinality(Before(d)) \in Nat
    BY <2>3, FS_CardinalityType
  <2>5. Position(d) = Cardinality(Before(d))
    BY DEF Position
  <2> QED BY <1>1, <2>3, <2>4, <2>5
<1>5. ASSUME NEW d \in LiveDocs, NEW e \in LiveDocs, stored[d].seq < stored[e].seq
      PROVE  Position(d) < Position(e)
  <2>1. Before(d) \in SUBSET (Before(e) \ {d}) /\ d \in Before(e)
    BY <1>2, <1>5
  <2>2. IsFiniteSet(Before(e)) /\ Cardinality(Before(e)) \in Nat
    BY <1>4, FS_CardinalityType
  <2>3. /\ IsFiniteSet(Before(e) \ {d})
        /\ Cardinality(Before(e) \ {d}) = Cardinality(Before(e)) - 1
    BY <2>1, <2>2, FS_RemoveElement
  <2>4. Cardinality(Before(d)) <= Cardinality(Before(e)) - 1
    BY <2>1, <2>3, FS_Subset
  <2>5. Cardinality(Before(d)) \in Nat
    BY <1>4, FS_CardinalityType
  <2> HIDE DEF Before
  <2> QED BY <1>4, <2>2, <2>4, <2>5
<1>6. ASSUME NEW d \in LiveDocs, NEW e \in LiveDocs, Position(d) = Position(e)
      PROVE  d = e
  <2>1. Position(d) \in Int /\ Position(e) \in Int
    <3> HIDE DEF Before, n
    <3> QED BY <1>4
  <2>2. ~(stored[d].seq < stored[e].seq) /\ ~(stored[e].seq < stored[d].seq)
    BY <1>5, <1>6, <2>1
  <2> QED BY <1>2, <1>3, <2>2
<1>7. \A k \in 0..n - 1 : \E d \in LiveDocs : Position(d) = k
  <2> DEFINE f == [d \in LiveDocs |-> Position(d)]
  <2>1. f \in Injection(LiveDocs, 0..n - 1)
    <3>1. \A d \in LiveDocs : Position(d) \in 0..n - 1
      <4> HIDE DEF Before, n
      <4> QED BY <1>4
    <3> HIDE DEF n
    <3> QED BY <3>1, <1>6 DEF Injection, IsInjective
  <2>2. IsFiniteSet(0..n - 1) /\ Cardinality(0..n - 1) = n
    BY <1>1, FS_Interval
  <2>3. f \in Surjection(LiveDocs, 0..n - 1)
    <3> HIDE DEF f
    <3> QED BY <2>1, <2>2, FS_Injection
  <2>4. \A k \in 0..n - 1 : \E d \in LiveDocs : f[d] = k
    <3> HIDE DEF f, n
    <3> QED BY <2>3 DEF Surjection
  <2> QED BY <2>4
<1> QED BY <1>1, <1>4, <1>6, <1>7

\* A restart reads the tables back from the store.
LEMMA ReopenInv == ASSUME Inv, Reopen PROVE Inv'
<1> USE DEF Inv
<1> DEFINE n == Cardinality(LiveDocs)
<1>1. /\ pc = "down" /\ pc' = "idle" /\ outcomes' = {}
      /\ UNCHANGED <<stored, history, job, open, reader, txn, rebuilds, crashes, raised>>
  BY DEF Reopen, others, bounds
<1>2. seq' \in 0..seq /\ seq \in 0..MaxSeq /\ \A d \in Docs : stored[d].seq <= seq'
  <2> DEFINE W == {stored[d].seq : d \in Docs}
  <2>1. W \in SUBSET (0..MaxSeq) /\ W # {} /\ MaxSeq \in Nat
    BY ValuesAssumption, BoundsAssumption DEF TypeStore
  <2>2. seq' \in Max(W)..seq /\ seq \in 0..MaxSeq
    BY DEF Reopen, TypeStore
  <2>3. /\ \A d \in Docs : stored[d].seq \in W
        /\ \A y \in W : y \in Nat
    BY DEF TypeStore
  <2> HIDE DEF W
  <2>4. Max(W) \in W /\ \A y \in W : Max(W) >= y
    BY <2>1, MaxOfBounded
  <2>5. Max(W) \in Nat
    BY <2>3, <2>4
  <2>6. seq' \in 0..seq /\ Max(W) <= seq' /\ seq' \in Int
    BY <2>2, <2>5
  <2>7. ASSUME NEW d \in Docs PROVE stored[d].seq <= seq'
    <3>1. stored[d].seq \in Int /\ stored[d].seq <= Max(W)
      BY <2>3, <2>4, <2>5
    <3> QED BY <2>5, <2>6, <3>1
  <2> QED BY <2>2, <2>6, <2>7
<1>3. /\ n \in Nat /\ nextKey' = n
      /\ \A d \in LiveDocs : Position(d) \in 0..n - 1
      /\ \A d, e \in LiveDocs : Position(d) = Position(e) => d = e
      /\ \A k \in 0..n - 1 : \E d \in LiveDocs : Position(d) = k
  BY PositionBijective DEF Reopen, RebuildFromStore
<1>4. current' = [d \in LiveDocs |-> Position(d)]
  BY DEF Reopen, RebuildFromStore
<1>5. /\ DOMAIN versions' = 0..n - 1
      /\ \A d \in LiveDocs : versions'[Position(d)] =
           [doc |-> d, born |-> stored[d].seq, dead |-> INF, val |-> stored[d].val]
  <2>1. versions' = [k \in 0..nextKey' - 1 |->
          [doc |-> CHOOSE e \in LiveDocs : Position(e) = k,
           born |-> stored[CHOOSE e \in LiveDocs : Position(e) = k].seq, dead |-> INF,
           val |-> stored[CHOOSE e \in LiveDocs : Position(e) = k].val]]
    BY DEF Reopen, RebuildFromStore
  <2>2. ASSUME NEW d \in LiveDocs
        PROVE  (CHOOSE e \in LiveDocs : Position(e) = Position(d)) = d
    BY <1>3
  <2> HIDE DEF n
  <2> QED BY <1>3, <2>1, <2>2
<1>6. ASSUME NEW d \in LiveDocs
      PROVE  /\ current'[d] \in DOMAIN versions' /\ current'[d] \in Nat /\ current'[d] < nextKey'
             /\ versions'[current'[d]] \in Version
             /\ versions'[current'[d]].doc = d /\ versions'[current'[d]].dead = INF
             /\ versions'[current'[d]].born = stored[d].seq
             /\ versions'[current'[d]].val = stored[d].val
  <2>1. /\ d \in Docs /\ stored[d].seq \in 0..MaxSeq /\ stored[d].val \in Values
        /\ INF \in 0..INF
    BY BoundsAssumption DEF LiveDocs, TypeStore
  <2>2. current'[d] = Position(d)
    BY <1>4
  <2> HIDE DEF n
  <2>3. current'[d] \in DOMAIN versions' /\ current'[d] \in Nat /\ current'[d] < nextKey'
    BY <1>3, <1>5, <2>2
  <2>4. versions'[current'[d]] =
          [doc |-> d, born |-> stored[d].seq, dead |-> INF, val |-> stored[d].val]
    BY <1>5, <2>2
  <2> QED BY <2>1, <2>3, <2>4 DEF Version
<1>7. /\ DOMAIN current' = LiveDocs /\ DOMAIN versions' \subseteq Nat
      /\ \A k \in DOMAIN versions' : \E d \in LiveDocs : k = current'[d]
  BY <1>3, <1>4, <1>5
<1> HIDE DEF n
<1>8. TypeStore' /\ TypeTables' /\ TypeWriter' /\ TypeReaders' /\ TypeTxns' /\ TypeBounds'
  <2>1. TypeTables'
    <3>1. LiveDocs \subseteq Docs
      BY DEF LiveDocs
    <3>2. \A k \in DOMAIN versions' : versions'[k] \in Version
      BY <1>6, <1>7
    <3>3. \A d \in DOMAIN current' : current'[d] \in DOMAIN versions'
      BY <1>6, <1>7
    <3> QED BY <1>3, <1>7, <3>1, <3>2, <3>3 DEF TypeTables
  <2>2. TypeStore'
    <3>1. seq' \in 0..MaxSeq
      BY <1>2, BoundsAssumption
    <3> QED BY <1>1, <3>1 DEF TypeStore
  <2>3. TypeWriter' /\ TypeReaders' /\ TypeTxns' /\ TypeBounds'
    BY <1>1 DEF TypeWriter, TypeReaders, TypeTxns, TypeBounds
  <2> QED BY <2>1, <2>2, <2>3
<1>9. QueueInv' /\ DownInv'
  BY <1>1 DEF QueueInv, DownInv, Writing, Logged
<1>10. LiveDocs' = LiveDocs
  BY <1>1 DEF LiveDocs
<1>11. VersionsInv'
  <2>1. \A k \in DOMAIN versions' :
          k < nextKey' /\ versions'[k].born <= seq' /\ versions'[k].dead = INF
    BY <1>2, <1>6, <1>7 DEF LiveDocs
  <2>2. IsFiniteSet(DOMAIN current')
    BY <1>7 DEF StoreInv
  <2> QED BY <1>1, <1>6, <1>7, <2>1, <2>2 DEF VersionsInv
<1>12. LiveInv' /\ OneVersionPerDoc'
  <2>1. \A d \in LiveDocs : versions'[current'[d]].doc = d
    BY <1>6
  <2> QED BY <1>1, <1>7, <2>1 DEF LiveInv, OneVersionPerDoc
<1>13. StoreInv'
  BY <1>1, <1>2, <1>10 DEF StoreInv, Documents
<1>14. MatchInv'
  BY <1>1, <1>6, <1>7, <1>10 DEF MatchInv, Busy
<1>15. ReaderInv' /\ SnapshotInv'
  <2>1. AtRest.pc = "idle" /\ AtRest.found = {}
    BY DEF AtRest
  <2>2. DOMAIN open' = {} /\ \A r \in Readers : reader'[r] = AtRest
    BY <1>1 DEF DownInv
  <2> QED BY <2>1, <2>2 DEF ReaderInv, SnapshotInv, Pinned
<1> QED BY <1>8, <1>9, <1>11, <1>12, <1>13, <1>14, <1>15

-----------------------------------------------------------------------------
(* The invariant holds in every reachable state. *)

LEMMA InitInv == ASSUME Init PROVE Inv
<1> USE DEF Init
<1>1. /\ DOMAIN versions = {} /\ DOMAIN current = {} /\ DOMAIN open = {} /\ nextKey = 0
      /\ pc = "idle" /\ job = NoJob /\ seq = 0 /\ outcomes = {}
      /\ rebuilds = 0 /\ crashes = 0 /\ raised = FALSE
  BY DEF EmptyFcn
<1>2. NoJob \in JobType /\ AtRest \in ReaderType
  BY BoundsAssumption DEF NoJob, JobType, AtRest, ReaderType
<1>3. AtRest.pc = "idle" /\ AtRest.found = {}
  BY DEF AtRest
<1>4. NoTxn \in [start : 0..MaxSeq, ops : Seq(Writes), active : BOOLEAN]
  <2>1. 0 \in 0..MaxSeq /\ <<>> \in Seq(Writes)
    BY BoundsAssumption
  <2> QED BY <2>1 DEF NoTxn
<1>5. 0 \in 0..MaxSeq
  BY BoundsAssumption
<1>6. TypeStore
  BY <1>5 DEF TypeStore
<1>7. TypeTables
  BY <1>1 DEF TypeTables
<1>8. TypeWriter /\ TypeReaders
  BY <1>1, <1>2 DEF TypeWriter, TypeReaders
<1>9. TypeTxns
  BY <1>1, <1>4 DEF TypeTxns
<1>10. TypeBounds
  <2>1. rebuilds \in Nat /\ crashes \in Nat
    BY <1>1
  <2>2. raised \in BOOLEAN
    BY <1>1
  <2> QED BY <2>1, <2>2 DEF TypeBounds
<1>11. QueueInv /\ DownInv /\ LiveInv /\ OneVersionPerDoc
  BY <1>1 DEF QueueInv, DownInv, LiveInv, OneVersionPerDoc, Writing, Logged
<1>12. VersionsInv
  BY <1>1, FS_EmptySet DEF VersionsInv
<1>13. \A d \in Docs : stored[d].seq = 0 /\ stored[d].val = NoVal
  OBVIOUS
<1>14. LiveDocs = {} /\ Documents(stored) = {}
  BY <1>13 DEF LiveDocs, Documents
<1>15. StoreInv
  BY <1>1, <1>5, <1>13, <1>14, FS_EmptySet DEF StoreInv
<1>16. MatchInv
  BY <1>1, <1>14 DEF MatchInv, Busy
<1>17. ReaderInv /\ SnapshotInv
  BY <1>1, <1>3 DEF ReaderInv, SnapshotInv, Pinned
<1> QED BY <1>6, <1>7, <1>8, <1>9, <1>10, <1>11, <1>12, <1>15, <1>16, <1>17 DEF Inv

\* The public write calls only take the lock.
LEMMA CallInv ==
  ASSUME Inv,
         \/ \E d \in Docs, v \in Values : Upsert(d, v)
         \/ \E d \in Docs : Delete(d)
         \/ \E b \in Batches : UpsertMany(b)
  PROVE  Inv'
<1>1. ASSUME NEW queue \in Seq(Writes), queue # <<>>, Begin(queue, {}, {}) PROVE Inv'
  <2>1. {} \in SUBSET Txns /\ {} \in SUBSET SUBSET Doc
    OBVIOUS
  <2> QED BY <1>1, <2>1, BeginInv
<1>2. ASSUME NEW d \in Docs, NEW v \in Values, Upsert(d, v) PROVE Inv'
  <2>1. Upsertion(d, v) \in Writes
    BY DEF Writes
  <2>2. <<Upsertion(d, v)>> \in Seq(Writes) /\ <<Upsertion(d, v)>> # <<>>
    BY <2>1
  <2> QED BY <1>1, <1>2, <2>2 DEF Upsert
<1>3. ASSUME NEW d \in Docs, Delete(d) PROVE Inv'
  <2>1. Deletion(d) \in Writes
    BY DEF Writes
  <2>2. <<Deletion(d)>> \in Seq(Writes) /\ <<Deletion(d)>> # <<>>
    BY <2>1
  <2> QED BY <1>1, <1>3, <2>2 DEF Delete
<1>4. ASSUME NEW b \in Batches, UpsertMany(b) PROVE Inv'
  <2>1. PICK n \in 1..MaxBatch : b \in [1..n -> {Upsertion(d, v) : d \in Docs, v \in Values}]
    BY DEF Batches
  <2>2. n \in Nat /\ n # 0
    BY <2>1, BoundsAssumption
  <2>3. b \in [1..n -> Writes]
    BY <2>1 DEF Writes
  <2>4. b \in Seq(Writes)
    BY <2>2, <2>3
  <2>5. Len(b) = n
    BY <2>2, <2>3, <2>4, LenProperties
  <2>6. b # <<>>
    BY <2>2, <2>4, <2>5, EmptySeq
  <2> QED BY <1>1, <1>4, <2>4, <2>6 DEF UpsertMany
<1> QED BY <1>2, <1>3, <1>4

LEMMA StutterInv == ASSUME Inv, UNCHANGED vars PROVE Inv'
<1> USE DEF Inv
<1>1. UNCHANGED <<stored, seq, history, versions, current, nextKey, pc, job, open, reader, txn,
                  outcomes, rebuilds, crashes, raised>>
  BY DEF vars, store, tables, writer, others, bounds
<1>2. TypeStore' /\ TypeTables' /\ TypeWriter' /\ TypeReaders' /\ TypeTxns' /\ TypeBounds'
  BY <1>1 DEF TypeStore, TypeTables, TypeWriter, TypeReaders, TypeTxns, TypeBounds
<1>3. QueueInv' /\ DownInv' /\ VersionsInv' /\ LiveInv' /\ OneVersionPerDoc'
  BY <1>1 DEF QueueInv, DownInv, VersionsInv, LiveInv, OneVersionPerDoc, InHand
<1>4. StoreInv' /\ MatchInv'
  BY <1>1 DEF StoreInv, LiveDocs, Documents, MatchInv, Busy, InHand
<1>5. ReaderInv' /\ SnapshotInv'
  BY <1>1 DEF ReaderInv, SnapshotInv, Pinned, View
<1> QED BY <1>2, <1>3, <1>4, <1>5

LEMMA NextInv == ASSUME Inv, [Next]_vars PROVE Inv'
<1>1. CASE WriteStep
  BY <1>1, UpsertLogInv, UpsertSupersedeInv, UpsertPublishInv, UpsertCurrentInv,
     DeletePopInv, DeleteLogInv, DeleteMarkDeadInv, VacuumDropInv DEF WriteStep
<1>2. CASE UpsertRejects \/ StoreRaises \/ Vacuum \/ RebuildIndex
  BY <1>2, UpsertRejectsInv, StoreRaisesInv, VacuumInv, RebuildIndexInv
<1>3. ASSUME NEW t \in Txns,
             \/ TxnBegin(t) \/ Rollback(t) \/ Commit(t)
             \/ \E w \in Writes : TxnStage(t, w)
      PROVE  Inv'
  BY <1>3, CommitInv, TxnStepInv
<1>4. ASSUME NEW r \in Readers,
             PinRead(r) \/ PinAcquire(r) \/ Search(r) \/ ToHit(r) \/ Release(r)
      PROVE  Inv'
  BY <1>4, PinReadInv, PinAcquireInv, SearchInv, ToHitInv, ReleaseInv
<1>5. CASE Crash \/ Reopen
  BY <1>5, CrashInv, ReopenInv
<1>6. CASE UNCHANGED vars
  BY <1>6, StutterInv
<1> QED BY <1>1, <1>2, <1>3, <1>4, <1>5, <1>6, CallInv DEF Next

THEOREM Invariance == Spec => []Inv
<1>1. Init => Inv
  BY InitInv
<1>2. Inv /\ [Next]_vars => Inv'
  BY NextInv
<1> QED BY <1>1, <1>2, PTL DEF Spec

-----------------------------------------------------------------------------
(* The theorems. *)

\* The variables of a collection have their types.
THEOREM TypeCorrect == Spec => []TypeOK
<1>1. Inv => TypeOK
  BY TypeParts DEF Inv
<1> QED BY <1>1, Invariance, PTL

\* Between write calls the MVCC tables of db.py say what the record store says,
\* as long as the store has not raised since the collection was opened.
THEOREM TablesAgree == Spec => []TablesMatchStore
<1>1. ASSUME Inv, pc = "idle", ~raised
      PROVE  /\ {k \in DOMAIN versions : versions[k].dead = INF} = {current[d] : d \in DOMAIN current}
             /\ DOMAIN current = LiveDocs
             /\ \A d \in DOMAIN current :
                  LET ver == versions[current[d]] IN
                    ver.doc = d /\ [seq |-> ver.born, val |-> ver.val] = stored[d]
  <2> USE <1>1 DEF Inv
  <2>1. {k \in DOMAIN versions : versions[k].dead = INF} = {current[d] : d \in DOMAIN current}
    BY DEF LiveInv, VersionsInv, TypeTables
  <2>2. DOMAIN current = LiveDocs
    BY DEF MatchInv, Busy, TypeTables, LiveDocs
  <2>3. ASSUME NEW d \in DOMAIN current
        PROVE  /\ versions[current[d]].doc = d
               /\ [seq |-> versions[current[d]].born, val |-> versions[current[d]].val] = stored[d]
    <3>1. d \in Docs /\ versions[current[d]].doc = d
      BY DEF VersionsInv, TypeTables
    <3>2. stored[d] \in [seq : 0..MaxSeq, val : Values \cup {NoVal}]
      BY <3>1 DEF TypeStore
    <3>3. /\ versions[current[d]].born = stored[d].seq
          /\ versions[current[d]].val = stored[d].val
      BY DEF MatchInv, Busy
    <3> QED BY <3>1, <3>2, <3>3
  <2> QED BY <2>1, <2>2, <2>3
<1>2. Inv => TablesMatchStore
  BY <1>1 DEF TablesMatchStore
<1> QED BY <1>2, Invariance, PTL

\* No reader sees two versions of one document, between no two steps of a writer.
THEOREM OneVersionVisible == Spec => []OneVersionPerDoc
<1>1. Inv => OneVersionPerDoc
  BY DEF Inv
<1> QED BY <1>1, Invariance, PTL

\* A snapshot taken while no write was half way goes on seeing the documents of
\* its sequence number, whatever is written, deleted and vacuumed meanwhile.
THEOREM SnapshotsConsistent == Spec => []SnapshotConsistent
<1>1. Inv => SnapshotConsistent
  BY DEF Inv, SnapshotInv, SnapshotConsistent, Pinned, TypeReaders
<1> QED BY <1>1, Invariance, PTL

\* What a search found through such a snapshot is still there for _to_hit.
THEOREM FoundStays == Spec => []FoundStaysThere
<1>1. Inv => FoundStaysThere
  BY DEF Inv, SnapshotInv, ReaderInv, FoundStaysThere, Pinned
<1> QED BY <1>1, Invariance, PTL

\* A transaction that starts to commit overwrites no document that was written
\* since it began.
THEOREM FirstCommitter == Spec => FirstCommitterWins
<1> DEFINE Wins == ~raised => \A t \in job'.txns \ job.txns :
             \A d \in Touched(txn[t].ops) \cap LiveDocs : stored[d].seq <= txn[t].start
<1>1. ASSUME Inv, ~raised, NEW t \in Txns, Commit(t),
             NEW d \in Touched(txn[t].ops) \cap LiveDocs
      PROVE  stored[d].seq <= txn[t].start
  <2> USE DEF Inv
  <2>1. pc = "idle" /\ Conflicts(t) = {}
    BY <1>1 DEF Commit, Begin
  <2>2. d \in Docs /\ d \in DOMAIN current
    BY <1>1, <2>1 DEF MatchInv, Busy, LiveDocs
  <2>3. versions[current[d]].born = stored[d].seq
    BY <1>1, <2>1, <2>2 DEF MatchInv, Busy
  <2>4. ~(versions[current[d]].born > txn[t].start)
    BY <1>1, <2>1, <2>2 DEF Conflicts
  <2>5. stored[d].seq \in Int /\ txn[t].start \in Int
    BY <1>1, <2>2 DEF TypeStore, TypeTxns
  <2> QED BY <2>3, <2>4, <2>5
<1>2. ASSUME Inv, [Next]_vars, NEW t \in job'.txns \ job.txns
      PROVE  t \in Txns /\ Commit(t)
  <2>1. job \in JobType /\ NoJob \in JobType /\ NoJob.txns = {}
    BY <1>2 DEF Inv, TypeWriter, NoJob, JobType
  <2>2. ASSUME NEW queue, NEW txns, NEW results, Begin(queue, txns, results)
        PROVE  t \in txns
    <3>1. job' = [[NoJob EXCEPT !.queue = queue] EXCEPT !.txns = txns]
      BY <2>1, <2>2 DEF Begin, JobType
    <3> QED BY <1>2, <2>1, <3>1 DEF JobType
  <2>3. ASSUME NEW u \in Txns, Commit(u) PROVE t \in Txns /\ Commit(t)
    <3>1. t \in {u}
      BY <2>2, <2>3 DEF Commit
    <3> QED BY <2>3, <3>1
  <2>4. ~\E d \in Docs, v \in Values : Upsert(d, v)
    BY <2>2 DEF Upsert
  <2>5. ~\E d \in Docs : Delete(d)
    BY <2>2 DEF Delete
  <2>6. ~\E b \in Batches : UpsertMany(b)
    BY <2>2 DEF UpsertMany
  <2>7. ~AfterWrite
    <3>1. AfterWrite => job' = NoJob \/ job' = [[job EXCEPT !.queue = Tail(@)] EXCEPT !.key = 0]
      BY <2>1 DEF AfterWrite, JobType
    <3> QED BY <1>2, <2>1, <3>1 DEF JobType
  <2>8. ~WriteStep
    <3>1. job' # job /\ job' # NoJob
      BY <1>2, <2>1
    <3>2. job'.txns # job.txns
      BY <1>2
    <3>3. ~UpsertLog /\ ~UpsertSupersede /\ ~DeleteLog
      BY <3>1 DEF UpsertLog, UpsertSupersede, DeleteLog
    <3>4. ~UpsertCurrent /\ ~DeleteMarkDead
      BY <2>7 DEF UpsertCurrent, DeleteMarkDead
    <3>5. ~UpsertPublish /\ ~VacuumDrop
      BY <2>1, <3>2 DEF UpsertPublish, VacuumDrop, JobType
    <3>6. ~DeletePop
      BY <2>1, <2>7, <3>2 DEF DeletePop, JobType
    <3> QED BY <3>3, <3>4, <3>5, <3>6 DEF WriteStep
  <2>9. job' # job /\ job' # NoJob
    BY <1>2, <2>1
  <2>10. ~UpsertRejects /\ ~StoreRaises /\ ~RebuildIndex /\ ~Crash /\ ~Reopen
    BY <2>9 DEF UpsertRejects, StoreRaises, RebuildIndex, Crash, Reopen, writer
  <2>11. ~Vacuum
    BY <1>2, <2>1 DEF Vacuum, JobType
  <2>12. ~\E u \in Txns : TxnBegin(u) \/ Rollback(u)
    BY <2>9 DEF TxnBegin, Rollback, writer
  <2>13. ~\E u \in Txns, w \in Writes : TxnStage(u, w)
    BY <2>9 DEF TxnStage, writer
  <2>14. ~\E r \in Readers : PinRead(r) \/ PinAcquire(r) \/ Search(r) \/ ToHit(r) \/ Release(r)
    BY <2>9 DEF PinRead, PinAcquire, Search, ToHit, Release, writer
  <2>15. ~UNCHANGED vars
    BY <2>9 DEF vars, writer
  <2> QED BY <1>2, <2>3, <2>4, <2>5, <2>6, <2>8, <2>10, <2>11, <2>12, <2>13, <2>14, <2>15 DEF Next
<1>3. Inv /\ [Next]_vars => [Wins]_vars
  BY <1>1, <1>2
<1> QED BY <1>3, Invariance, PTL DEF Spec, FirstCommitterWins
=============================================================================
