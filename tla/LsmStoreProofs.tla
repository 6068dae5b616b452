--------------------------- MODULE LsmStoreProofs ---------------------------
(***************************************************************************)
(* Proofs about LsmStore, for all keys, values, thresholds and bounds:     *)
(* no acknowledged write is lost and no deleted record returns, whatever   *)
(* crashes and failed disk steps happen, and the store implements          *)
(* DurableMap.  This assumes that no two segments get the same file name   *)
(* and that no append raises half way (StrictClock and ~AppendFaults; both *)
(* are necessary, as two runs show).                                       *)
(***************************************************************************)
EXTENDS LsmStore, SequenceTheorems, TLAPS

-----------------------------------------------------------------------------
(* The inductive invariant, in parts. *)

\* The definitions take the log w, the files fs and the last logged records lg
\* as parameters, so that their lemmas speak of both ends of a step.

\* r is the last logged record of k, or older than it.
Old(lg, k, r) ==
  /\ r.seq <= lg[k].seq
  /\ r.seq = lg[k].seq => r = lg[k]

\* A frame of the log that holds a record of k.
IsFrameOf(w, i, k) == i \in 1..Len(w) /\ w[i].ok /\ w[i].key = k
WalHas(w, lg, k) == \E i \in 1..Len(w) : IsFrameOf(w, i, k) /\ w[i].rec = lg[k]

\* A list of segments accounts for k: one of them holds its last record, or
\* that record is a tombstone and none of them mentions k.
Covers(fs, lg, segs, k) ==
  \/ \E i \in 1..Len(segs) : fs[segs[i]][k] = lg[k]
  \/ /\ lg[k].val = Tombstone
     /\ \A i \in 1..Len(segs) : fs[segs[i]][k] = NoRec

\* Names are never ahead of the clock, so the next one is new.
NamesInv ==
  /\ \A n \in DOMAIN files : n.ms <= clock
  /\ \A i \in 1..Len(segments) : segments[i] \in DOMAIN files
  /\ \A i \in 1..Len(manifest.segments) : manifest.segments[i] \in DOMAIN files
  /\ pc \in {"compact_manifest", "compact_unlink"} =>
       \A i \in 1..Len(segments), j \in 1..Len(stale) : segments[i] # stale[j]
  /\ pc = "compact_unlink" => manifest.segments = segments

\* A torn frame is the last one and only there before recovery has finished;
\* the frames of a key are in the order of their numbers; a log that mentions
\* a key holds its last record.
InOrder(w) ==
  \A k \in Keys : \A i, j \in 1..Len(w) :
    IsFrameOf(w, i, k) /\ IsFrameOf(w, j, k) /\ i < j => w[i].rec.seq < w[j].rec.seq
UpToDate(w, lg) ==
  \A k \in Keys : \A i \in 1..Len(w) :
    IsFrameOf(w, i, k) => Old(lg, k, w[i].rec) /\ WalHas(w, lg, k)
WalInv ==
  /\ \A i \in 1..Len(wal) : ~wal[i].ok => i = Len(wal) /\ ~Up
  /\ InOrder(wal)
  /\ UpToDate(wal, logged)

\* Nothing anywhere is newer than the last logged record.
OldInv ==
  /\ \A k \in Keys : logged[k].seq = 0 => logged[k] = NoRec
  /\ \A n \in DOMAIN files : \A k \in Keys : Old(logged, k, files[n][k])
  /\ \A k \in Keys : /\ Old(logged, k, table[k])
                     /\ Old(logged, k, memtable[k])
                     /\ Old(logged, k, merged[k])

\* The disk alone accounts for every key and every number handed out.
DiskInv ==
  \A k \in Keys :
    /\ WalHas(wal, logged, k) \/ Covers(files, logged, manifest.segments, k)
    /\ WalHas(wal, logged, k) \/ logged[k].seq <= manifest.seq

\* The memory of an open store.
OpenInv ==
  Up =>
    /\ \A k \in Keys :
         /\ table[k].val = logged[k].val
         /\ logged[k].seq <= seq
         /\ memtable[k] = logged[k] \/ (memtable[k] = NoRec /\ Covers(files, logged, segments, k))
         /\ memtable[k] # NoRec => WalHas(wal, logged, k)
    /\ pc = "append" => /\ op.key \in Keys /\ op.rec.seq = seq
                        /\ \A k \in Keys : logged[k].seq < seq
    /\ pc \in {"flush_manifest", "flush_rotate"} => memtable = Empty
    /\ pc = "flush_rotate" => manifest.segments = segments /\ manifest.seq = seq

\* The loop variables of compact(): what the segments merged so far hold.
MergeInv ==
  /\ pc \notin {"compact_segment", "compact_merge", "compact_manifest",
                "compact_unlink", "load_segments", "replay"}
       => cursor = 1 /\ merged = Empty
  /\ pc \in {"compact_merge", "compact_segment"} =>
       /\ pc = "compact_segment" => cursor > Len(segments)
       /\ \A k \in Keys :
            /\ \A i \in 1..Len(segments) :
                 i < cursor => files[segments[i]][k].seq <= merged[k].seq
            /\ merged[k] # NoRec =>
                 \E i \in 1..Len(segments) : files[segments[i]][k] = merged[k]

\* A closed store, and one that is being opened: the table holds the newest
\* record of every key among what was read so far.
RecoverInv ==
  /\ pc = "down" => table = Empty /\ memtable = Empty /\ cursor = 1
  /\ pc = "load_segments" => memtable = Empty
  /\ pc \in OpenSteps =>
       /\ segments = manifest.segments
       /\ manifest.seq <= seq
       /\ \A k \in Keys :
            /\ \A i \in 1..Len(segments) :
                 i < cursor \/ pc = "replay" =>
                   files[segments[i]][k].seq <= table[k].seq
            /\ table[k] # NoRec =>
                 \/ \E i \in 1..Len(segments) : files[segments[i]][k] = table[k]
                 \/ \E i \in 1..Len(wal) : IsFrameOf(wal, i, k)
  /\ pc = "replay" => \A i \in 1..Len(wal) : i < cursor => wal[i].ok
  /\ pc = "replay" =>
       \A k \in Keys :
         /\ \A i \in 1..Len(wal) : IsFrameOf(wal, i, k) /\ i < cursor =>
              /\ wal[i].rec.seq <= table[k].seq
              /\ wal[i].rec.seq <= memtable[k].seq
              /\ wal[i].rec.seq <= seq
         /\ memtable[k] # NoRec =>
              \E i \in 1..Len(wal) : /\ IsFrameOf(wal, i, k) /\ i < cursor
                                     /\ memtable[k] = wal[i].rec

IndInv ==
  /\ TypeOK /\ NamesInv /\ WalInv /\ OldInv /\ DiskInv
  /\ OpenInv /\ MergeInv /\ RecoverInv

-----------------------------------------------------------------------------
(* Types *)

\* A table without records has the type of a content.
LEMMA EmptyContent ==
  /\ NoRec \in Record /\ Empty \in Content
  /\ NoOp \in [key : Keys \cup {NoKey}, rec : Record]
  BY DEF NoRec, Record, Empty, Content, NoOp

\* Laying one content over another gives a content.
LEMMA OverlayContent ==
  ASSUME NEW t \in Content, NEW c \in Content
  PROVE  Overlay(t, c) \in Content
  BY DEF Overlay, Content

\* So does applying a log frame.
LEMMA ApplyEntryContent ==
  ASSUME NEW t \in Content, NEW k \in Keys, NEW r \in Record
  PROVE  ApplyEntry(t, k, r) \in Content /\ [t EXCEPT ![k] = r] \in Content
  BY DEF ApplyEntry, Content

\* So does leaving out the tombstones.
LEMMA DropTombstonesContent ==
  ASSUME NEW c \in Content
  PROVE  DropTombstones(c) \in Content
  BY EmptyContent DEF DropTombstones, Content

\* Every record, name and control value the store builds has its type.
LEMMA TypeStep == TypeOK /\ [Next]_vars => TypeOK'
  <1> SUFFICES ASSUME TypeOK, [Next]_vars PROVE TypeOK'
    OBVIOUS
  <1> USE EmptyContent
      DEF TypeOK, CallSteps, OpenSteps, disk, memory, control, env
  <1>a. OpFrame \in Frame /\ [OpFrame EXCEPT !.ok = FALSE] \in Frame
    BY DEF OpFrame, Frame
  <1>1. ASSUME NEW k \in Keys, NEW v \in Values \cup {Tombstone}, BeginWrite(k, v)
        PROVE TypeOK'
    <2>1. [seq |-> seq', val |-> v] \in Record
      BY <1>1 DEF BeginWrite, Record
    <2>2. QED
      BY <1>1, <2>1 DEF BeginWrite
  <1>2. CASE AppendRecord
    <2>a. op.key \in Keys /\ op.rec \in Record
      BY <1>2 DEF AppendRecord
    <2>b. /\ ApplyEntry(table, op.key, op.rec) \in Content
          /\ [memtable EXCEPT ![op.key] = op.rec] \in Content
          /\ [logged EXCEPT ![op.key] = op.rec] \in Content
      BY <2>a, ApplyEntryContent
    <2>1. /\ wal' \in Seq(Frame)
          /\ table' \in Content /\ memtable' \in Content /\ logged' \in Content
      BY <1>2, <1>a, <2>b DEF AppendRecord
    <2>2. CASE Finish
      BY <1>2, <2>1, <2>2 DEF AppendRecord, Finish
    <2>3. CASE pc' = "flush_segment" /\ UNCHANGED <<op, cursor, merged, stale>>
      BY <1>2, <2>1, <2>3 DEF AppendRecord
    <2>4. QED
      BY <1>2, <2>2, <2>3 DEF AppendRecord
  <1>3. CASE FlushSegment
    <2>1. PICK ms \in Now :
            LET name == [count |-> Len(segments), compact |-> FALSE, ms |-> ms] IN
              clock' = ms /\ WriteFile(name, memtable) /\ segments' = Append(segments, name)
      BY <1>3 DEF FlushSegment
    <2> DEFINE name == [count |-> Len(segments), compact |-> FALSE, ms |-> ms]
    <2>2. ms \in Nat /\ name \in Name
      BY DEF Now, Name
    <2>3. /\ DOMAIN files' \subseteq Name /\ files' = [n \in DOMAIN files' |-> files'[n]]
          /\ \A n \in DOMAIN files' : files'[n] \in Content
      BY <2>1, <2>2 DEF WriteFile
    <2>4. segments' \in Seq(Name)
      BY <2>1, <2>2
    <2>5. QED
      BY <1>3, <2>1, <2>2, <2>3, <2>4 DEF FlushSegment
  <1>4. CASE FlushManifest
    BY <1>4 DEF FlushManifest, WriteManifest
  <1>5. CASE FlushRotate
    <2>1. CASE Finish
      BY <1>5, <2>1 DEF FlushRotate, Finish
    <2>2. CASE pc' = "compact_merge" /\ UNCHANGED <<op, cursor, merged, stale>>
      BY <1>5, <2>2 DEF FlushRotate
    <2>3. QED
      BY <1>5, <2>1, <2>2 DEF FlushRotate
  <1>6. CASE CompactMerge
    <2>1. CASE Finish
      BY <1>6, <2>1 DEF CompactMerge, Finish
    <2>2. CASE segments[cursor] \in DOMAIN files
      <3>1. merged' \in Content
        BY <1>6, <2>2, OverlayContent DEF CompactMerge
      <3>2. QED
        BY <1>6, <2>2, <3>1 DEF CompactMerge
    <2>3. QED
      BY <1>6, <2>1, <2>2 DEF CompactMerge
  <1>7. CASE CompactSegment
    <2>1. PICK ms \in Now :
            LET name == [count |-> Len(segments), compact |-> TRUE, ms |-> ms] IN
              /\ clock' = ms /\ WriteFile(name, DropTombstones(merged))
              /\ stale' = segments /\ segments' = <<name>>
      BY <1>7 DEF CompactSegment
    <2> DEFINE name == [count |-> Len(segments), compact |-> TRUE, ms |-> ms]
    <2>2. ms \in Nat /\ name \in Name
      BY DEF Now, Name
    <2>3. /\ DOMAIN files' \subseteq Name /\ files' = [n \in DOMAIN files' |-> files'[n]]
          /\ \A n \in DOMAIN files' : files'[n] \in Content
      BY <2>1, <2>2, DropTombstonesContent DEF WriteFile
    <2>4. segments' \in Seq(Name)
      BY <2>1, <2>2
    <2>5. QED
      BY <1>7, <2>1, <2>2, <2>3, <2>4 DEF CompactSegment
  <1>8. CASE CompactManifest
    BY <1>8 DEF CompactManifest, WriteManifest
  <1>9. CASE CompactUnlink
    <2>1. CASE stale = <<>>
      BY <1>9, <2>1 DEF CompactUnlink, Finish
    <2>2. CASE stale # <<>>
      <3>1. /\ DOMAIN files' \subseteq Name /\ files' = [n \in DOMAIN files' |-> files'[n]]
            /\ \A n \in DOMAIN files' : files'[n] \in Content
        BY <1>9, <2>2 DEF CompactUnlink, RemoveFile
      <3>a. stale \in Seq(Name)
        OBVIOUS
      <3>b. Tail(stale) \in Seq(Name)
        BY <3>a, <2>2, HeadTailProperties
      <3>2. stale' \in Seq(Name)
        BY <1>9, <2>2, <3>b DEF CompactUnlink
      <3>3. QED
        BY <1>9, <2>2, <3>1, <3>2 DEF CompactUnlink
    <2>3. QED
      BY <2>1, <2>2
  <1>10. CASE CheckpointAppend
    <2>1. [key |-> NoKey, ok |-> TRUE, rec |-> [seq |-> seq, val |-> Tombstone]] \in Frame
      BY DEF Frame, Record
    <2>2. QED
      BY <1>10, <2>1 DEF CheckpointAppend
  <1>11. CASE CheckpointManifest
    BY <1>11 DEF CheckpointManifest, WriteManifest, Finish
  <1>12. CASE CloseManifest
    BY <1>12 DEF CloseManifest, WriteManifest, LoseMemory
  <1>13. CASE LoadSegment
    <2>1. table' \in Content
      BY <1>13, OverlayContent DEF LoadSegment
    <2>2. QED
      BY <1>13, <2>1 DEF LoadSegment
  <1>14. CASE SegmentsLoaded
    BY <1>14 DEF SegmentsLoaded
  <1>15. CASE ReplayFrame
    <2>1. wal[cursor] \in Frame
      BY <1>15 DEF ReplayFrame
    <2>2. wal[cursor].rec \in Record /\ wal[cursor].key \in Keys \cup {NoKey}
      BY <2>1 DEF Frame
    <2>3. seq' \in Nat
      BY <1>15, <2>2 DEF ReplayFrame, SeqMax, Record
    <2>a. wal[cursor].key # NoKey =>
            /\ ApplyEntry(table, wal[cursor].key, wal[cursor].rec) \in Content
            /\ [memtable EXCEPT ![wal[cursor].key] = wal[cursor].rec] \in Content
      BY <2>2, ApplyEntryContent
    <2>4. table' \in Content /\ memtable' \in Content
      BY <1>15, <2>a DEF ReplayFrame
    <2>5. QED
      BY <1>15, <2>3, <2>4 DEF ReplayFrame
  <1>16. CASE TruncateTorn
    <2>1. SubSeq(wal, 1, cursor - 1) \in Seq(Frame)
      BY <1>16 DEF TruncateTorn
    <2>2. QED
      BY <1>16, <2>1 DEF TruncateTorn
  <1>17. CASE Recovered
    BY <1>17 DEF Recovered, Finish
  <1>18. CASE AppendRaises
    BY <1>18, <1>a DEF AppendRaises, Finish
  <1>19. CASE DiskStepRaises
    BY <1>19 DEF DiskStepRaises, Finish
  <1>20. CASE Crash
    <2>a. /\ Append(wal, OpFrame) \in Seq(Frame)
          /\ Append(wal, [OpFrame EXCEPT !.ok = FALSE]) \in Seq(Frame)
      BY <1>a
    <2>1. wal' \in Seq(Frame)
      BY <1>20, <2>a DEF Crash
    <2>2. logged' \in Content
      BY <1>20, ApplyEntryContent DEF Crash
    <2>3. QED
      BY <1>20, <2>1, <2>2 DEF Crash, LoseMemory
  <1>21. CASE Flush
    BY <1>21 DEF Flush
  <1>22. CASE Compact
    BY <1>22 DEF Compact
  <1>23. CASE Checkpoint
    BY <1>23 DEF Checkpoint
  <1>24. CASE Close
    BY <1>24 DEF Close
  <1>25. CASE Open
    BY <1>25 DEF Open
  <1>26. CASE UNCHANGED vars
    BY <1>26 DEF vars
  <1>27. QED
    BY <1>1, <1>2, <1>3, <1>4, <1>5, <1>6, <1>7, <1>8, <1>9, <1>10, <1>11, <1>12, <1>13, <1>14, <1>15, <1>16, <1>17, <1>18, <1>19, <1>20, <1>21, <1>22, <1>23, <1>24, <1>25, <1>26
       DEF Next, CallStep, RecoverStep, Put, Delete

\* The type invariant holds in every behaviour of the store, for every choice
\* of clock and append faults.
THEOREM TypeCorrect == Spec => []TypeOK
  <1>1. Init => TypeOK
    BY EmptyContent DEF Init, TypeOK, NoManifest, CallSteps, OpenSteps
  <1>2. QED
    BY <1>1, TypeStep, PTL DEF Spec

-----------------------------------------------------------------------------
(* Facts about records, logs and segment lists. *)

\* What is not newer than the last records stays so when a newer one is logged.
LEMMA OldLater ==
  ASSUME NEW lg \in Content, NEW k \in Keys, NEW q \in Keys,
         NEW r \in Record, NEW new \in Record,
         lg[q].seq < new.seq, Old(lg, k, r)
  PROVE  Old([lg EXCEPT ![q] = new], k, r)
  BY DEF Old, Content, Record

\* Logging a record: the log then holds the last record of that key, and says
\* of the other keys what it said before.
LEMMA LogRecord ==
  ASSUME NEW w \in Seq(Frame), NEW lg \in Content,
         NEW q \in Keys, NEW r \in Record, NEW f \in Frame,
         f.key = q, f.rec = r, f.ok
  PROVE  LET w2 == Append(w, f)
             lg2 == [lg EXCEPT ![q] = r] IN
         /\ \A k \in Keys : \A i \in 1..Len(w) + 1 :
              IsFrameOf(w2, i, k) <=> IsFrameOf(w, i, k) \/ (i = Len(w) + 1 /\ k = q)
         /\ WalHas(w2, lg2, q)
         /\ \A k \in Keys : WalHas(w, lg, k) => WalHas(w2, lg2, k)
  <1> DEFINE w2 == Append(w, f)
             lg2 == [lg EXCEPT ![q] = r]
  <1>1. /\ Len(w2) = Len(w) + 1 /\ w2[Len(w) + 1] = f
        /\ \A i \in 1..Len(w) : w2[i] = w[i]
    OBVIOUS
  <1>2. Len(w) \in Nat
    OBVIOUS
  <1>3. lg2[q] = r /\ \A k \in Keys : k # q => lg2[k] = lg[k]
    BY DEF Content
  <1> HIDE DEF w2, lg2
  <1>4. \A k \in Keys : \A i \in 1..Len(w) + 1 :
          IsFrameOf(w2, i, k) <=> IsFrameOf(w, i, k) \/ (i = Len(w) + 1 /\ k = q)
    BY <1>1, <1>2 DEF IsFrameOf
  <1>5. WalHas(w2, lg2, q)
    BY <1>1, <1>2, <1>3, <1>4 DEF WalHas
  <1>6. ASSUME NEW k \in Keys, WalHas(w, lg, k), k # q PROVE WalHas(w2, lg2, k)
    BY <1>1, <1>2, <1>3, <1>4, <1>6 DEF WalHas
  <1>7. QED
    BY <1>4, <1>5, <1>6 DEF w2, lg2

\* Appending the frame of a new record keeps the frames of each key in order.
LEMMA LogRecordInOrder ==
  ASSUME NEW w \in Seq(Frame), NEW lg \in Content,
         NEW q \in Keys, NEW r \in Record, NEW f \in Frame,
         f.key = q, f.rec = r, f.ok, lg[q].seq < r.seq,
         InOrder(w), UpToDate(w, lg)
  PROVE  InOrder(Append(w, f)) /\ UpToDate(Append(w, f), [lg EXCEPT ![q] = r])
  <1> DEFINE w2 == Append(w, f)
             lg2 == [lg EXCEPT ![q] = r]
  <1>1. /\ Len(w2) = Len(w) + 1 /\ w2[Len(w) + 1] = f
        /\ \A i \in 1..Len(w) : w2[i] = w[i]
        /\ Len(w) \in Nat
    OBVIOUS
  <1>2. /\ \A k \in Keys : \A i \in 1..Len(w) + 1 :
             IsFrameOf(w2, i, k) <=> IsFrameOf(w, i, k) \/ (i = Len(w) + 1 /\ k = q)
        /\ WalHas(w2, lg2, q)
        /\ \A k \in Keys : WalHas(w, lg, k) => WalHas(w2, lg2, k)
    BY LogRecord
  <1>3. \A i \in 1..Len(w) : w[i].rec \in Record
    <2>1. \A i \in 1..Len(w) : w[i] \in Frame
      OBVIOUS
    <2>2. QED
      BY <2>1 DEF Frame
  <1>4. lg2[q] = r /\ \A k \in Keys : lg[k].seq \in Nat
    BY DEF Content, Record
  <1>5. ASSUME NEW k \in Keys, NEW i \in 1..Len(w), IsFrameOf(w, i, k)
        PROVE  Old(lg, k, w[i].rec) /\ Old(lg2, k, w[i].rec) /\ WalHas(w2, lg2, k)
    BY <1>2, <1>3, <1>5, OldLater DEF UpToDate
  <1>6. Old(lg2, q, r)
    BY <1>4 DEF Old, Record
  <1> HIDE DEF w2, lg2
  <1>7. InOrder(w2)
    <2> SUFFICES ASSUME NEW k \in Keys, NEW i \in 1..Len(w2), NEW j \in 1..Len(w2),
                        IsFrameOf(w2, i, k), IsFrameOf(w2, j, k), i < j
                 PROVE  w2[i].rec.seq < w2[j].rec.seq
      BY DEF InOrder
    <2>1. i \in 1..Len(w) /\ w2[i] = w[i] /\ IsFrameOf(w, i, k)
      BY <1>1, <1>2
    <2>2. CASE j \in 1..Len(w)
      BY <1>1, <1>2, <2>1, <2>2 DEF InOrder
    <2>3. CASE j = Len(w) + 1
      BY <1>1, <1>2, <1>3, <1>4, <1>5, <2>1, <2>3 DEF Old, Record, IsFrameOf
    <2>4. QED
      BY <1>1, <2>2, <2>3
  <1>8. UpToDate(w2, lg2)
    <2> SUFFICES ASSUME NEW k \in Keys, NEW i \in 1..Len(w2), IsFrameOf(w2, i, k)
                 PROVE  Old(lg2, k, w2[i].rec) /\ WalHas(w2, lg2, k)
      BY DEF UpToDate
    <2>1. CASE IsFrameOf(w, i, k)
      BY <1>1, <1>5, <2>1 DEF IsFrameOf
    <2>2. CASE i = Len(w) + 1 /\ k = q
      BY <1>1, <1>2, <1>6, <2>2
    <2>3. QED
      BY <1>1, <1>2, <2>1, <2>2
  <1>9. QED
    BY <1>7, <1>8 DEF w2, lg2

\* Two logs with the same frames of records (one has a checkpoint or a torn
\* frame more) say the same of every key.
LEMMA SameRecords ==
  ASSUME NEW w \in Seq(Frame), NEW w2 \in Seq(Frame), NEW lg,
         \A k \in Keys : \A i \in Nat : IsFrameOf(w, i, k) <=> IsFrameOf(w2, i, k),
         \A k \in Keys : \A i \in Nat : IsFrameOf(w, i, k) => w[i] = w2[i]
  PROVE  /\ \A k \in Keys : WalHas(w, lg, k) <=> WalHas(w2, lg, k)
         /\ InOrder(w) => InOrder(w2)
         /\ UpToDate(w, lg) => UpToDate(w2, lg)
  <1>1. /\ \A k \in Keys : \A i \in 1..Len(w) : IsFrameOf(w, i, k) => i \in 1..Len(w2)
        /\ \A k \in Keys : \A i \in 1..Len(w2) : IsFrameOf(w2, i, k) => i \in 1..Len(w)
    BY DEF IsFrameOf
  <1>2. \A k \in Keys : WalHas(w, lg, k) <=> WalHas(w2, lg, k)
    BY <1>1 DEF WalHas
  <1>3. QED
    BY <1>1, <1>2 DEF InOrder, UpToDate

\* A torn frame, or one without a key, does not change what the log says of a key.
LEMMA OtherFrame ==
  ASSUME NEW w \in Seq(Frame), NEW f \in Frame, ~f.ok \/ f.key \notin Keys,
         NEW k \in Keys, NEW i \in Nat
  PROVE  /\ IsFrameOf(w, i, k) <=> IsFrameOf(Append(w, f), i, k)
         /\ IsFrameOf(w, i, k) => w[i] = Append(w, f)[i]
  BY DEF IsFrameOf

\* Files that stay as they are keep covering what they covered.
LEMMA CoversKept ==
  ASSUME NEW fs, NEW fs2, NEW lg, NEW segs, NEW k,
         \A i \in 1..Len(segs) : fs2[segs[i]] = fs[segs[i]],
         Covers(fs, lg, segs, k)
  PROVE  Covers(fs2, lg, segs, k)
  BY DEF Covers

\* The frames of the log and their records have their types.
LEMMA WalTypes ==
  ASSUME TypeOK
  PROVE  /\ wal \in Seq(Frame) /\ Len(wal) \in Nat
         /\ \A i \in 1..Len(wal) : wal[i] \in Frame /\ wal[i].rec \in Record /\ wal[i].rec.seq \in Nat
  <1>1. wal \in Seq(Frame) /\ Len(wal) \in Nat /\ \A i \in 1..Len(wal) : wal[i] \in Frame
    BY DEF TypeOK
  <1>2. QED
    BY <1>1 DEF Frame, Record

\* So have the records of the tables in memory.
LEMMA MemoryTypes ==
  ASSUME TypeOK
  PROVE  /\ logged \in Content /\ table \in Content /\ memtable \in Content /\ merged \in Content
         /\ seq \in Nat /\ clock \in Nat /\ cursor \in Nat \ {0}
         /\ op.rec \in Record /\ op.rec.seq \in Nat
         /\ \A k \in Keys : /\ logged[k] \in Record /\ logged[k].seq \in Nat
                            /\ table[k] \in Record /\ table[k].seq \in Nat
                            /\ memtable[k] \in Record /\ memtable[k].seq \in Nat
                            /\ merged[k] \in Record /\ merged[k].seq \in Nat
  BY DEF TypeOK, Content, Record

\* So have the records of a segment file.
LEMMA FileTypes ==
  ASSUME TypeOK
  PROVE  /\ segments \in Seq(Name) /\ Len(segments) \in Nat
         /\ manifest.segments \in Seq(Name) /\ manifest.seq \in Nat
         /\ stale \in Seq(Name) /\ Len(stale) \in Nat
         /\ \A n \in DOMAIN files : /\ n \in Name /\ n.ms \in Nat
                                   /\ \A k \in Keys : /\ files[n][k] \in Record
                                                      /\ files[n][k].seq \in Nat
  <1>1. \A n \in DOMAIN files : n \in Name /\ files[n] \in Content
    BY DEF TypeOK
  <1>2. \A n \in DOMAIN files : n.ms \in Nat
    BY <1>1 DEF Name
  <1>3. \A n \in DOMAIN files : \A k \in Keys : files[n][k] \in Record /\ files[n][k].seq \in Nat
    BY <1>1 DEF Content, Record
  <1>4. QED
    BY <1>1, <1>2, <1>3 DEF TypeOK

\* The frame a running call appends has the type of a frame.
LEMMA OpFrameType ==
  ASSUME TypeOK
  PROVE  /\ OpFrame \in Frame /\ OpFrame.key = op.key /\ OpFrame.rec = op.rec /\ OpFrame.ok
         /\ [OpFrame EXCEPT !.ok = FALSE] \in Frame /\ ~[OpFrame EXCEPT !.ok = FALSE].ok
  BY DEF TypeOK, OpFrame, Frame

\* An absent record is never newer than the last logged one of its key.
LEMMA NoRecOld ==
  ASSUME TypeOK, OldInv, NEW k \in Keys
  PROVE  Old(logged, k, NoRec)
  <1>1. logged[k].seq \in Nat /\ (logged[k].seq = 0 => logged[k] = NoRec)
    BY DEF TypeOK, OldInv, Content, Record
  <1>2. QED
    BY <1>1 DEF NoRec, Old

\* While a key is not in the memtable, the segment list covers it.
LEMMA EmptyMemtableCovers ==
  ASSUME TypeOK, OldInv, NamesInv, OpenInv, Up, NEW k \in Keys, memtable[k] = NoRec
  PROVE  Covers(files, logged, segments, k)
  <1>1. CASE logged[k] = NoRec
    <2>1. \A i \in 1..Len(segments) : files[segments[i]][k].seq \in Nat
                                      /\ Old(logged, k, files[segments[i]][k])
      BY WalTypes, MemoryTypes, FileTypes DEF TypeOK, OldInv, NamesInv, Content, Record
    <2>2. \A i \in 1..Len(segments) : files[segments[i]][k] = NoRec
      BY <1>1, <2>1 DEF Old, NoRec
    <2>3. QED
      BY <1>1, <2>2 DEF Covers, NoRec
  <1>2. CASE logged[k] # NoRec
    BY <1>2 DEF OpenInv
  <1>3. QED
    BY <1>1, <1>2

\* The memory of an open store covers every key.
LEMMA MemoryCovers ==
  ASSUME TypeOK, OldInv, NamesInv, OpenInv, Up, NEW k \in Keys
  PROVE  WalHas(wal, logged, k) \/ Covers(files, logged, segments, k)
  BY EmptyMemtableCovers DEF OpenInv

\* Replay that ran to the end of the log met no torn frame, or cut it off.
LEMMA NoTornLeft ==
  ASSUME TypeOK, WalInv, RecoverInv, pc = "replay", cursor > Len(wal)
  PROVE  \A i \in 1..Len(wal) : wal[i].ok
  BY DEF TypeOK, RecoverInv

-----------------------------------------------------------------------------
(* Every action preserves the invariant. *)

\* The frame is on disk and in memory: the log covers the key.
LEMMA AppendRecordInd ==
  ASSUME StrictClock, ~AppendFaults, TypeOK, IndInv, TypeOK', AppendRecord
  PROVE  IndInv'
  <1> USE DEF CallSteps, OpenSteps, Up, disk, memory, control, env
  <1> DEFINE q == op.key
             r == op.rec
  <1>a. q \in Keys /\ r \in Record /\ r.seq = seq /\ \A k \in Keys : logged[k].seq < seq
    BY WalTypes, MemoryTypes, FileTypes DEF IndInv, OpenInv, AppendRecord
  <1>b. OpFrame \in Frame /\ OpFrame.key = q /\ OpFrame.rec = r /\ OpFrame.ok
    BY OpFrameType
  <1>c. wal' = Append(wal, OpFrame) /\ logged' = [logged EXCEPT ![q] = r]
    BY DEF AppendRecord
  <1>d. /\ WalHas(wal', logged', q)
        /\ \A k \in Keys : WalHas(wal, logged, k) => WalHas(wal', logged', k)
    BY WalTypes, MemoryTypes, FileTypes, <1>a, <1>b, <1>c, LogRecord
  <1>e. InOrder(wal') /\ UpToDate(wal', logged')
    BY WalTypes, MemoryTypes, FileTypes, <1>a, <1>b, <1>c, LogRecordInOrder DEF IndInv, WalInv
  <1>f. \A i \in 1..Len(wal') : wal'[i].ok
    BY <1>b, <1>c DEF IndInv, WalInv, AppendRecord
  <1>g. /\ logged'[q] = r /\ \A k \in Keys : k # q => logged'[k] = logged[k]
        /\ memtable'[q] = r /\ \A k \in Keys : k # q => memtable'[k] = memtable[k]
    BY WalTypes, MemoryTypes, FileTypes, <1>a, <1>c DEF AppendRecord, Content
  <1>h. /\ table'[q] = r /\ \A k \in Keys : k # q => table'[k] = table[k]
    <2>1. table[q] \in Record /\ logged[q] \in Record
      BY WalTypes, MemoryTypes, FileTypes, <1>a DEF Content
    <2>2. table[q].seq <= logged[q].seq /\ logged[q].seq < r.seq
      BY <1>a DEF IndInv, OldInv, Old
    <2>3. r.seq >= table[q].seq
      BY <1>a, <2>1, <2>2 DEF Record
    <2>4. QED
      BY WalTypes, MemoryTypes, FileTypes, <1>a, <2>3 DEF AppendRecord, ApplyEntry, Content
  <1>i. \A k \in Keys : \A x \in Record : Old(logged, k, x) => Old(logged', k, x)
    BY WalTypes, MemoryTypes, FileTypes, <1>a, <1>c, OldLater
  <1>j. Old(logged', q, r)
    BY <1>a, <1>g DEF Old, Record
  <1>1. NamesInv' /\ MergeInv' /\ RecoverInv'
    BY DEF IndInv, TypeOK, NamesInv, MergeInv, RecoverInv, AppendRecord, OpFrame, ApplyEntry, Finish
  <1>2. WalInv'
    BY <1>e, <1>f DEF WalInv
  <1>3. OldInv'
    <2>1. \A k \in Keys : logged'[k].seq = 0 => logged'[k] = NoRec
      <3>1. r.seq # 0
        <4>1. logged[q].seq \in Nat
          BY WalTypes, MemoryTypes, FileTypes, <1>a DEF Content, Record
        <4>2. QED
          BY <1>a, <4>1
      <3>2. QED
        BY <1>g, <3>1 DEF IndInv, OldInv
    <2>2. \A n \in DOMAIN files : \A k \in Keys : files[n][k] \in Record
      BY WalTypes, MemoryTypes, FileTypes DEF Content
    <2>3. \A k \in Keys : table[k] \in Record /\ memtable[k] \in Record /\ merged[k] \in Record
      BY WalTypes, MemoryTypes, FileTypes DEF Content
    <2>4. \A n \in DOMAIN files' : \A k \in Keys : Old(logged', k, files'[n][k])
      BY <1>i, <2>2 DEF IndInv, OldInv, AppendRecord
    <2>5. \A k \in Keys : Old(logged', k, table'[k]) /\ Old(logged', k, memtable'[k])
      BY <1>g, <1>h, <1>i, <1>j, <2>3 DEF IndInv, OldInv
    <2>6. merged = Empty /\ (merged' = merged \/ merged' = Empty)
      BY DEF IndInv, MergeInv, AppendRecord, Finish
    <2>7. \A k \in Keys : Old(logged', k, merged'[k])
      BY <1>i, <2>3, <2>6 DEF IndInv, OldInv
    <2>8. QED
      BY <2>1, <2>4, <2>5, <2>7 DEF OldInv
  <1>4. DiskInv'
    <2>1. ASSUME NEW k \in Keys, k # q
          PROVE  Covers(files, logged, manifest.segments, k)
                   => Covers(files', logged', manifest'.segments, k)
      BY <1>g, <2>1 DEF Covers, AppendRecord
    <2>2. QED
      BY <1>d, <1>g, <2>1 DEF IndInv, DiskInv, AppendRecord
  <1>5. OpenInv'
    <2>1. ASSUME NEW k \in Keys, k # q
          PROVE  Covers(files, logged, segments, k) => Covers(files', logged', segments', k)
      BY <1>g, <2>1 DEF Covers, AppendRecord
    <2>2. \A k \in Keys : memtable'[k] = logged'[k] \/ (memtable'[k] = NoRec /\ Covers(files', logged', segments', k))
      BY <1>g, <2>1 DEF IndInv, OpenInv, AppendRecord
    <2>3. \A k \in Keys : memtable'[k] # NoRec => WalHas(wal', logged', k)
      BY <1>d, <1>g DEF IndInv, OpenInv, AppendRecord
    <2>4. \A k \in Keys : table'[k].val = logged'[k].val /\ logged'[k].seq <= seq'
      BY WalTypes, MemoryTypes, FileTypes, <1>a, <1>g, <1>h DEF IndInv, OpenInv, AppendRecord
    <2>5. pc' \in {"idle", "flush_segment"}
      BY DEF AppendRecord, Finish
    <2>6. QED
      BY <2>2, <2>3, <2>4, <2>5 DEF OpenInv
  <1>8. QED
    BY <1>1, <1>2, <1>3, <1>4, <1>5 DEF IndInv

\* The memtable moves to a new segment: the list covers what it held.
LEMMA FlushSegmentInd ==
  ASSUME StrictClock, ~AppendFaults, TypeOK, IndInv, TypeOK', FlushSegment
  PROVE  IndInv'
  <1> USE DEF CallSteps, OpenSteps, Up, disk, memory, control, env
  <1> DEFINE name == [count |-> Len(segments), compact |-> FALSE, ms |-> clock + 1]
  <1>a. /\ segments' = Append(segments, name)
        /\ clock' = clock + 1 /\ logged' = logged
        /\ files' = [n \in DOMAIN files \cup {name} |-> IF n = name THEN memtable ELSE files[n]]
    BY DEF FlushSegment, Now, WriteFile
  <1>b. name \notin DOMAIN files
    <2>1. name.ms = clock + 1 /\ ~(clock + 1 <= clock)
      BY WalTypes, MemoryTypes, FileTypes
    <2>2. QED
      BY <2>1 DEF IndInv, NamesInv
  <1>c. /\ DOMAIN files' = DOMAIN files \cup {name}
        /\ files'[name] = memtable
        /\ \A n \in DOMAIN files : files'[n] = files[n]
    BY <1>a, <1>b
  <1> HIDE DEF name
  <1>1. NamesInv'
    <2>1. \A n \in DOMAIN files' : n.ms <= clock'
      <3>1. \A n \in DOMAIN files : n.ms <= clock' 
        <4>1. \A n \in DOMAIN files : n.ms \in Nat
          BY WalTypes, MemoryTypes, FileTypes DEF Name
        <4>2. QED
          BY WalTypes, MemoryTypes, FileTypes, <1>a, <4>1 DEF IndInv, NamesInv
      <3>2. name.ms <= clock'
        BY MemoryTypes, <1>a DEF name
      <3>3. QED
        BY <1>c, <3>1, <3>2
    <2>2. \A i \in 1..Len(segments') : segments'[i] \in DOMAIN files'
      BY <1>a, <1>c DEF IndInv, NamesInv
    <2>3. QED
      BY <1>c, <2>1, <2>2 DEF IndInv, NamesInv, FlushSegment
  <1>2. WalInv' /\ MergeInv' /\ RecoverInv'
    BY DEF IndInv, TypeOK, WalInv, MergeInv, RecoverInv, FlushSegment, WriteFile, Now
  <1>3. OldInv'
    <2>1. \A k \in Keys : Empty[k] = NoRec /\ Old(logged, k, NoRec)
      <3>1. \A k \in Keys : logged[k].seq \in Nat /\ (logged[k].seq = 0 => logged[k] = NoRec)
        BY WalTypes, MemoryTypes, FileTypes DEF IndInv, OldInv, Content, Record
      <3>2. QED
        BY <3>1 DEF Empty, NoRec, Old
    <2>2. QED
      BY <1>c, <2>1 DEF IndInv, OldInv, FlushSegment
  <1>4. DiskInv'
    <2>1. \A i \in 1..Len(manifest.segments) : files'[manifest.segments[i]] = files[manifest.segments[i]]
      BY <1>c DEF IndInv, NamesInv
    <2>2. \A k \in Keys : Covers(files, logged, manifest.segments, k)
                              => Covers(files', logged, manifest.segments, k)
      BY <2>1, CoversKept
    <2>3. QED
      BY <2>2 DEF IndInv, DiskInv, FlushSegment
  <1>5. OpenInv'
    <2>1. /\ Len(segments') = Len(segments) + 1 /\ segments'[Len(segments) + 1] = name
          /\ \A i \in 1..Len(segments) : segments'[i] = segments[i] /\ files'[segments[i]] = files[segments[i]]
          /\ Len(segments) \in Nat
      BY <1>a, <1>c DEF IndInv, NamesInv
    <2>2. ASSUME NEW k \in Keys PROVE Covers(files', logged', segments', k)
      <3>1. CASE memtable[k] = logged[k]
        <4>1. files'[segments'[Len(segments) + 1]][k] = logged'[k]
          BY <1>a, <1>c, <2>1, <3>1
        <4>2. Len(segments) + 1 \in 1..Len(segments')
          BY <2>1
        <4>3. QED
          BY <4>1, <4>2 DEF Covers
      <3>2. CASE memtable[k] = NoRec /\ Covers(files, logged, segments, k)
        <4>1. /\ \A i \in 1..Len(segments) : i \in 1..Len(segments') /\ files'[segments'[i]][k] = files[segments[i]][k]
              /\ \A i \in 1..Len(segments') : i \in 1..Len(segments) \/ files'[segments'[i]][k] = NoRec
          BY <1>c, <2>1, <3>2
        <4>2. logged' = logged
          BY <1>a
        <4>3. CASE \E i \in 1..Len(segments) : files[segments[i]][k] = logged[k]
          BY <4>1, <4>2, <4>3 DEF Covers
        <4>4. CASE logged[k].val = Tombstone /\ \A i \in 1..Len(segments) : files[segments[i]][k] = NoRec
          BY <4>1, <4>2, <4>4 DEF Covers
        <4>5. QED
          BY <3>2, <4>3, <4>4 DEF Covers
      <3>3. QED
        BY <3>1, <3>2 DEF IndInv, OpenInv, FlushSegment
    <2>3. memtable' = Empty /\ \A k \in Keys : Empty[k] = NoRec
      BY DEF FlushSegment, Empty
    <2>4. QED
      BY <2>2, <2>3 DEF IndInv, OpenInv, FlushSegment
  <1>8. QED
    BY <1>1, <1>2, <1>3, <1>4, <1>5 DEF IndInv

\* From here on the disk alone covers every key without the log.
LEMMA FlushManifestInd ==
  ASSUME StrictClock, ~AppendFaults, TypeOK, IndInv, TypeOK', FlushManifest
  PROVE  IndInv'
  <1> USE DEF CallSteps, OpenSteps, Up, disk, memory, control, env
  <1>1. NamesInv' /\ WalInv' /\ OldInv' /\ OpenInv' /\ MergeInv' /\ RecoverInv'
    BY DEF IndInv, TypeOK, NamesInv, WalInv, OldInv, OpenInv, MergeInv, RecoverInv, FlushManifest, WriteManifest
  <1>4. DiskInv'
    <2>1. ASSUME NEW k \in Keys PROVE WalHas(wal, logged, k) \/ Covers(files, logged, segments, k)
      BY MemoryCovers DEF IndInv, FlushManifest
    <2>2. \A k \in Keys : logged[k].seq <= seq
      BY DEF IndInv, OpenInv, FlushManifest
    <2>3. QED
      BY <2>1, <2>2 DEF DiskInv, FlushManifest, WriteManifest
  <1>8. QED
    BY <1>1, <1>4 DEF IndInv

\* The log may go: the manifest's segments cover every key.
LEMMA FlushRotateInd ==
  ASSUME StrictClock, ~AppendFaults, TypeOK, IndInv, TypeOK', FlushRotate
  PROVE  IndInv'
  <1> USE DEF CallSteps, OpenSteps, Up, disk, memory, control, env
  <1>a. /\ memtable = Empty /\ manifest.segments = segments /\ manifest.seq = seq
        /\ wal' = <<>> /\ UNCHANGED <<files, manifest, memory, env>>
        /\ \/ Finish
           \/ pc' = "compact_merge" /\ UNCHANGED <<op, cursor, merged, stale>>
    BY DEF IndInv, OpenInv, FlushRotate
  <1>b. \A k \in Keys : memtable[k] = NoRec /\ Covers(files, logged, segments, k)
    <2>1. \A k \in Keys : memtable[k] = NoRec
      BY <1>a DEF Empty
    <2>2. QED
      BY <2>1, EmptyMemtableCovers DEF IndInv, FlushRotate
  <1>c. merged = Empty /\ cursor = 1
    BY DEF IndInv, MergeInv, FlushRotate
  <1>d. merged' = Empty /\ cursor' = 1 /\ pc' \in {"idle", "compact_merge"}
    BY <1>a, <1>c DEF Finish
  <1>1. NamesInv'
    BY <1>a, <1>d DEF IndInv, NamesInv
  <1>2. WalInv'
    BY <1>a DEF WalInv, InOrder, UpToDate
  <1>3. OldInv'
    BY <1>a, <1>c, <1>d DEF IndInv, OldInv
  <1>4. DiskInv'
    <2>1. \A k \in Keys : logged[k].seq <= seq
      BY DEF IndInv, OpenInv, FlushRotate
    <2>2. QED
      BY <1>a, <1>b, <2>1 DEF DiskInv
  <1>5. OpenInv'
    <2>1. \A k \in Keys : table[k].val = logged[k].val /\ logged[k].seq <= seq
      BY DEF IndInv, OpenInv, FlushRotate
    <2>2. QED
      BY <1>a, <1>b, <1>d, <2>1 DEF OpenInv
  <1>6. MergeInv'
    BY <1>a, <1>d DEF MergeInv, Empty
  <1>7. RecoverInv'
    BY <1>d DEF RecoverInv
  <1>8. QED
    BY <1>1, <1>2, <1>3, <1>4, <1>5, <1>6, <1>7 DEF IndInv

\* merged stays the newest of what was read.
LEMMA CompactMergeInd ==
  ASSUME StrictClock, ~AppendFaults, TypeOK, IndInv, TypeOK', CompactMerge
  PROVE  IndInv'
  <1> USE DEF CallSteps, OpenSteps, Up, disk, memory, control, env
  <1>a. segments[cursor] \in DOMAIN files /\ cursor \in 1..Len(segments)
    BY WalTypes, MemoryTypes, FileTypes DEF IndInv, NamesInv, CompactMerge
  <1>b. /\ merged' = Overlay(merged, files[segments[cursor]]) /\ cursor' = cursor + 1
        /\ pc' = IF cursor = Len(segments) THEN "compact_segment" ELSE pc
        /\ UNCHANGED <<op, stale, disk, memory, env>>
    BY <1>a DEF CompactMerge
  <1>c. \A k \in Keys : /\ merged[k].seq \in Nat /\ files[segments[cursor]][k].seq \in Nat
                        /\ merged'[k] = IF files[segments[cursor]][k].seq >= merged[k].seq
                                        THEN files[segments[cursor]][k] ELSE merged[k]
    BY WalTypes, MemoryTypes, FileTypes, <1>a, <1>b DEF Overlay, Content, Record
  <1>1. NamesInv'
    BY <1>b DEF IndInv, NamesInv, CompactMerge
  <1>2. WalInv'
    BY <1>b DEF IndInv, WalInv, CompactMerge
  <1>3. OldInv'
    BY <1>a, <1>b, <1>c DEF IndInv, OldInv
  <1>4. DiskInv'
    BY <1>b DEF IndInv, DiskInv, CompactMerge
  <1>5. OpenInv'
    BY <1>b DEF IndInv, OpenInv, CompactMerge
  <1>6. MergeInv'
    <2>1. ASSUME NEW k \in Keys
          PROVE  /\ \A i \in 1..Len(segments) :
                      i < cursor + 1 => files[segments[i]][k].seq <= merged'[k].seq
                 /\ merged'[k] # NoRec =>
                      \E i \in 1..Len(segments) : files[segments[i]][k] = merged'[k]
      <3>1. /\ \A i \in 1..Len(segments) : i < cursor => files[segments[i]][k].seq <= merged[k].seq
            /\ merged[k] # NoRec => \E i \in 1..Len(segments) : files[segments[i]][k] = merged[k]
        BY DEF IndInv, MergeInv, CompactMerge
      <3>2. \A i \in 1..Len(segments) : files[segments[i]][k].seq \in Nat
        BY WalTypes, MemoryTypes, FileTypes DEF IndInv, NamesInv, Content, Record
      <3>3. QED
        BY <1>a, <1>c, <3>1, <3>2
    <2>2. QED
      BY <1>a, <1>b, <2>1 DEF MergeInv, CompactMerge
  <1>7. RecoverInv'
    BY <1>b DEF IndInv, RecoverInv, CompactMerge
  <1>8. QED
    BY <1>1, <1>2, <1>3, <1>4, <1>5, <1>6, <1>7 DEF IndInv

\* The merged segment covers what the old ones covered, dropped tombstones too.
LEMMA CompactSegmentInd ==
  ASSUME StrictClock, ~AppendFaults, TypeOK, IndInv, TypeOK', CompactSegment
  PROVE  IndInv'
  <1> USE DEF CallSteps, OpenSteps, Up, disk, memory, control, env
  <1> DEFINE name == [count |-> Len(segments), compact |-> TRUE, ms |-> clock + 1]
  <1>a. /\ stale' = segments /\ segments' = <<name>>
        /\ clock' = clock + 1 /\ logged' = logged
        /\ files' = [n \in DOMAIN files \cup {name} |-> IF n = name THEN DropTombstones(merged) ELSE files[n]]
    BY DEF CompactSegment, Now, WriteFile
  <1>b. name \notin DOMAIN files
    <2>1. name.ms = clock + 1 /\ ~(clock + 1 <= clock)
      BY WalTypes, MemoryTypes, FileTypes
    <2>2. QED
      BY <2>1 DEF IndInv, NamesInv
  <1>c. /\ DOMAIN files' = DOMAIN files \cup {name}
        /\ files'[name] = DropTombstones(merged)
        /\ \A n \in DOMAIN files : files'[n] = files[n]
    BY <1>a, <1>b
  <1> HIDE DEF name
  <1>d. ASSUME NEW k \in Keys
        PROVE  files'[name][k] = IF merged[k].val = Tombstone THEN NoRec ELSE merged[k]
    BY <1>c DEF DropTombstones
  <1>1. NamesInv'
    <2>1. \A n \in DOMAIN files' : n.ms <= clock'
      <3>1. \A n \in DOMAIN files : n.ms <= clock' 
        <4>1. \A n \in DOMAIN files : n.ms \in Nat
          BY WalTypes, MemoryTypes, FileTypes DEF Name
        <4>2. QED
          BY WalTypes, MemoryTypes, FileTypes, <1>a, <4>1 DEF IndInv, NamesInv
      <3>2. name.ms <= clock'
        BY WalTypes, MemoryTypes, FileTypes, <1>a DEF name
      <3>3. QED
        BY <1>c, <3>1, <3>2
    <2>2. \A i \in 1..Len(segments') : segments'[i] \in DOMAIN files'
      BY <1>a, <1>c
    <2>3. \A i \in 1..Len(segments'), j \in 1..Len(stale') : segments'[i] # stale'[j]
      BY <1>a, <1>b DEF IndInv, NamesInv
    <2>4. QED
      BY <1>c, <2>1, <2>2, <2>3 DEF IndInv, NamesInv, CompactSegment
  <1>2. WalInv' /\ MergeInv' /\ RecoverInv'
    BY DEF IndInv, TypeOK, WalInv, MergeInv, RecoverInv, CompactSegment, WriteFile, DropTombstones, Now
  <1>3. OldInv'
    <2>1. \A k \in Keys : Old(logged, k, NoRec)
      BY NoRecOld DEF IndInv
    <2>2. QED
      BY <1>c, <1>d, <2>1 DEF IndInv, OldInv, CompactSegment
  <1>4. DiskInv'
    <2>1. \A i \in 1..Len(manifest.segments) : files'[manifest.segments[i]] = files[manifest.segments[i]]
      BY <1>c DEF IndInv, NamesInv
    <2>2. \A k \in Keys : Covers(files, logged, manifest.segments, k)
                              => Covers(files', logged, manifest.segments, k)
      BY <2>1, CoversKept
    <2>3. QED
      BY <2>2 DEF IndInv, DiskInv, CompactSegment
  <1>5. OpenInv'
    <2>1. Len(segments') = 1 /\ segments'[1] = name
      BY <1>a
    <2>2. ASSUME NEW k \in Keys, Covers(files, logged, segments, k)
          PROVE  Covers(files', logged', segments', k)
      <3>1. /\ \A i \in 1..Len(segments) : files[segments[i]][k].seq <= merged[k].seq
            /\ merged[k] # NoRec => \E i \in 1..Len(segments) : files[segments[i]][k] = merged[k]
        BY WalTypes, MemoryTypes, FileTypes DEF IndInv, MergeInv, CompactSegment
      <3>2. Old(logged, k, merged[k]) /\ merged[k].seq \in Nat /\ logged[k].seq \in Nat
        BY WalTypes, MemoryTypes, FileTypes DEF IndInv, OldInv, Content, Record
      <3>3. CASE \E i \in 1..Len(segments) : files[segments[i]][k] = logged[k]
        <4>1. merged[k] = logged[k]
          BY <3>1, <3>2, <3>3 DEF Old
        <4>2. /\ 1 \in 1..Len(segments') /\ \A i \in 1..Len(segments') : i = 1
              /\ files'[segments'[1]][k] = IF logged[k].val = Tombstone THEN NoRec ELSE logged[k]
          BY <1>d, <2>1, <4>1
        <4>3. QED
          BY <1>a, <4>2 DEF Covers
      <3>4. CASE /\ logged[k].val = Tombstone
                 /\ \A i \in 1..Len(segments) : files[segments[i]][k] = NoRec
        <4>1. merged[k] = NoRec /\ NoRec.val = Tombstone
          BY <3>1, <3>4 DEF NoRec
        <4>2. /\ \A i \in 1..Len(segments') : i = 1
              /\ files'[segments'[1]][k] = NoRec
          BY <1>d, <2>1, <4>1
        <4>3. QED
          BY <1>a, <3>4, <4>2 DEF Covers
      <3>5. QED
        BY <2>2, <3>3, <3>4 DEF Covers
    <2>3. QED
      BY <2>2 DEF IndInv, OpenInv, CompactSegment
  <1>8. QED
    BY <1>1, <1>2, <1>3, <1>4, <1>5 DEF IndInv

\* The disk switches to the merged segment.
LEMMA CompactManifestInd ==
  ASSUME StrictClock, ~AppendFaults, TypeOK, IndInv, TypeOK', CompactManifest
  PROVE  IndInv'
  <1> USE DEF CallSteps, OpenSteps, Up, disk, memory, control, env
  <1>1. NamesInv' /\ WalInv' /\ OldInv' /\ OpenInv' /\ MergeInv' /\ RecoverInv'
    BY DEF IndInv, TypeOK, NamesInv, WalInv, OldInv, OpenInv, MergeInv, RecoverInv, CompactManifest, WriteManifest
  <1>4. DiskInv'
    <2>1. ASSUME NEW k \in Keys PROVE WalHas(wal, logged, k) \/ Covers(files, logged, segments, k)
      BY MemoryCovers DEF IndInv, CompactManifest
    <2>2. \A k \in Keys : logged[k].seq <= seq
      BY DEF IndInv, OpenInv, CompactManifest
    <2>3. QED
      BY <2>1, <2>2 DEF DiskInv, CompactManifest, WriteManifest
  <1>8. QED
    BY <1>1, <1>4 DEF IndInv

\* Only files no list names any more are removed.
LEMMA CompactUnlinkInd ==
  ASSUME StrictClock, ~AppendFaults, TypeOK, IndInv, TypeOK', CompactUnlink
  PROVE  IndInv'
  <1> USE DEF CallSteps, OpenSteps, Up, disk, memory, control, env
  <1>a. \A n \in DOMAIN files' : n \in DOMAIN files /\ files'[n] = files[n]
    BY DEF CompactUnlink, RemoveFile
  <1>b. \A i \in 1..Len(segments) : /\ segments[i] \in DOMAIN files' 
                                    /\ files'[segments[i]] = files[segments[i]]
    <2>1. CASE stale = <<>>
      BY <2>1 DEF IndInv, NamesInv, CompactUnlink
    <2>2. CASE stale # <<>>
      <3>1. Head(stale) = stale[1] /\ 1 \in 1..Len(stale)
        BY <2>2
      <3>2. \A i \in 1..Len(segments) : segments[i] \in DOMAIN files /\ segments[i] # Head(stale)
        BY <3>1 DEF IndInv, NamesInv, CompactUnlink
      <3>3. files' = [n \in DOMAIN files \ {Head(stale)} |-> files[n]]
        BY <2>2 DEF CompactUnlink, RemoveFile
      <3>4. QED
        BY <3>2, <3>3
    <2>3. QED
      BY <2>1, <2>2
  <1>c. manifest.segments = segments
    BY DEF IndInv, NamesInv, CompactUnlink
  <1>d. \A k \in Keys : Covers(files, logged, segments, k) => Covers(files', logged, segments, k)
    BY <1>b, CoversKept
  <1>e. /\ UNCHANGED <<wal, manifest, memory, env>>
        /\ \/ Finish 
           \/ UNCHANGED <<pc, op, cursor, merged>>
    BY DEF CompactUnlink
  <1>f. pc = "compact_unlink" /\ pc' \in {"idle", "compact_unlink"}
    BY DEF CompactUnlink, Finish
  <1>1. NamesInv'
    <2>1. pc' = "compact_unlink" => \A j \in 1..Len(stale') : j + 1 \in 1..Len(stale) /\ stale'[j] = stale[j + 1]
      <3>1. CASE stale = <<>>
        BY <3>1 DEF CompactUnlink, Finish
      <3>2. CASE stale # <<>>
        <4>1. stale \in Seq(Name)
          BY WalTypes, MemoryTypes, FileTypes
        <4>2. /\ Len(Tail(stale)) = Len(stale) - 1 /\ Len(stale) \in Nat
              /\ \A i \in 1..Len(Tail(stale)) : Tail(stale)[i] = stale[i + 1]
          BY <3>2, <4>1, HeadTailProperties
        <4>3. stale' = Tail(stale)
          BY <3>2 DEF CompactUnlink
        <4>4. QED
          BY <4>2, <4>3
      <3>3. QED
        BY <3>1, <3>2
    <2>2. pc' = "compact_unlink" =>
            \A i \in 1..Len(segments), j \in 1..Len(stale') : segments[i] # stale'[j]
      BY <2>1 DEF IndInv, NamesInv, CompactUnlink
    <2>3. QED
      BY <1>a, <1>b, <1>c, <1>e, <1>f, <2>2 DEF IndInv, NamesInv
  <1>2. WalInv'
    BY <1>e, <1>f DEF IndInv, WalInv
  <1>3. OldInv'
    <2>1. \A k \in Keys : Empty[k] = NoRec /\ Old(logged, k, NoRec)
      BY NoRecOld DEF IndInv, Empty
    <2>2. merged' = Empty \/ merged' = merged
      BY <1>e DEF Finish
    <2>3. QED
      BY <1>a, <1>e, <2>1, <2>2 DEF IndInv, OldInv
  <1>4. DiskInv'
    BY <1>c, <1>d, <1>e DEF IndInv, DiskInv
  <1>5. OpenInv'
    BY <1>d, <1>e, <1>f DEF IndInv, OpenInv
  <1>6. MergeInv'
    BY <1>e, <1>f DEF MergeInv, Finish
  <1>7. RecoverInv'
    BY <1>f DEF RecoverInv
  <1>8. QED
    BY <1>1, <1>2, <1>3, <1>4, <1>5, <1>6, <1>7 DEF IndInv

\* A checkpoint frame says nothing of any key.
LEMMA CheckpointAppendInd ==
  ASSUME StrictClock, ~AppendFaults, TypeOK, IndInv, TypeOK', CheckpointAppend
  PROVE  IndInv'
  <1> USE DEF CallSteps, OpenSteps, Up, disk, memory, control, env
  <1> DEFINE f == [key |-> NoKey, ok |-> TRUE, rec |-> [seq |-> seq, val |-> Tombstone]]
  <1>a. f \in Frame /\ (~f.ok \/ f.key \notin Keys)
    BY WalTypes, MemoryTypes, FileTypes, ValueAssumption DEF Frame, Record, OpFrame
  <1> HIDE DEF f
  <1>b. /\ \A k \in Keys : WalHas(wal, logged, k) <=> WalHas(Append(wal, f), logged, k)
        /\ InOrder(wal) => InOrder(Append(wal, f))
        /\ UpToDate(wal, logged) => UpToDate(Append(wal, f), logged)
    <2>1. Append(wal, f) \in Seq(Frame)
      BY WalTypes, MemoryTypes, FileTypes, <1>a
    <2>2. \A k \in Keys : \A i \in Nat :
            /\ IsFrameOf(wal, i, k) <=> IsFrameOf(Append(wal, f), i, k)
            /\ IsFrameOf(wal, i, k) => wal[i] = Append(wal, f)[i]
      BY WalTypes, MemoryTypes, FileTypes, <1>a, OtherFrame
    <2>3. QED
      BY WalTypes, MemoryTypes, FileTypes, <2>1, <2>2, SameRecords
  <1>c. wal' = Append(wal, f) /\ f.ok
    BY DEF CheckpointAppend, f
  <1>1. NamesInv' /\ OldInv' /\ MergeInv' /\ RecoverInv'
    BY DEF IndInv, TypeOK, NamesInv, OldInv, MergeInv, RecoverInv, CheckpointAppend
  <1>2. WalInv'
    BY <1>a, <1>b, <1>c DEF IndInv, WalInv, CheckpointAppend
  <1>4. DiskInv'
    BY <1>b, <1>c DEF IndInv, DiskInv, CheckpointAppend
  <1>5. OpenInv'
    BY <1>b, <1>c DEF IndInv, OpenInv, CheckpointAppend
  <1>8. QED
    BY <1>1, <1>2, <1>4, <1>5 DEF IndInv

\* A manifest may be written at any time.
LEMMA CheckpointManifestInd ==
  ASSUME StrictClock, ~AppendFaults, TypeOK, IndInv, TypeOK', CheckpointManifest
  PROVE  IndInv'
  <1> USE DEF CallSteps, OpenSteps, Up, disk, memory, control, env
  <1>1. NamesInv' /\ WalInv' /\ OpenInv' /\ MergeInv' /\ RecoverInv'
    BY DEF IndInv, TypeOK, NamesInv, WalInv, OpenInv, MergeInv, RecoverInv, CheckpointManifest, WriteManifest, Finish
  <1>3. OldInv'
    <2>1. \A k \in Keys : Empty[k] = NoRec /\ Old(logged, k, NoRec)
      BY NoRecOld DEF IndInv, Empty
    <2>2. QED
      BY <2>1 DEF IndInv, OldInv, CheckpointManifest, WriteManifest, Finish
  <1>4. DiskInv'
    <2>1. ASSUME NEW k \in Keys PROVE WalHas(wal, logged, k) \/ Covers(files, logged, segments, k)
      BY MemoryCovers DEF IndInv, CheckpointManifest
    <2>2. \A k \in Keys : logged[k].seq <= seq
      BY DEF IndInv, OpenInv, CheckpointManifest
    <2>3. QED
      BY <2>1, <2>2 DEF DiskInv, CheckpointManifest, WriteManifest
  <1>8. QED
    BY <1>1, <1>3, <1>4 DEF IndInv

\* Closing writes the manifest and keeps the log.
LEMMA CloseManifestInd ==
  ASSUME StrictClock, ~AppendFaults, TypeOK, IndInv, TypeOK', CloseManifest
  PROVE  IndInv'
  <1> USE DEF CallSteps, OpenSteps, Up, disk, memory, control, env
  <1>1. NamesInv' /\ OpenInv' /\ MergeInv' /\ RecoverInv'
    BY DEF IndInv, TypeOK, NamesInv, OpenInv, MergeInv, RecoverInv, CloseManifest, WriteManifest, LoseMemory
  <1>2. WalInv'
    BY DEF IndInv, WalInv, CloseManifest, LoseMemory
  <1>3. OldInv'
    <2>1. \A k \in Keys : Empty[k] = NoRec /\ Old(logged, k, NoRec)
      BY NoRecOld DEF IndInv, Empty
    <2>2. QED
      BY <2>1 DEF IndInv, OldInv, CloseManifest, WriteManifest, LoseMemory
  <1>4. DiskInv'
    <2>1. ASSUME NEW k \in Keys PROVE WalHas(wal, logged, k) \/ Covers(files, logged, segments, k)
      BY MemoryCovers DEF IndInv, CloseManifest
    <2>2. \A k \in Keys : logged[k].seq <= seq
      BY DEF IndInv, OpenInv, CloseManifest
    <2>3. QED
      BY <2>1, <2>2 DEF DiskInv, CloseManifest, WriteManifest
  <1>8. QED
    BY <1>1, <1>2, <1>3, <1>4 DEF IndInv

\* The table stays the newest of the segments read.
LEMMA LoadSegmentInd ==
  ASSUME StrictClock, ~AppendFaults, TypeOK, IndInv, TypeOK', LoadSegment
  PROVE  IndInv'
  <1> USE DEF CallSteps, OpenSteps, Up, disk, memory, control, env
  <1>a. /\ segments[cursor] \in DOMAIN files /\ cursor \in 1..Len(segments)
        /\ cursor' = cursor + 1 /\ pc = "load_segments" /\ pc' = pc
        /\ UNCHANGED <<disk, memtable, segments, seq, op, merged, stale, env>>
    BY WalTypes, MemoryTypes, FileTypes DEF LoadSegment
  <1>c. \A k \in Keys : /\ table[k].seq \in Nat /\ files[segments[cursor]][k].seq \in Nat
                        /\ table'[k] = IF files[segments[cursor]][k].seq >= table[k].seq
                                       THEN files[segments[cursor]][k] ELSE table[k]
    BY WalTypes, MemoryTypes, FileTypes, <1>a DEF LoadSegment, Overlay, Content, Record
  <1>1. NamesInv' /\ WalInv' /\ DiskInv' /\ OpenInv' /\ MergeInv'
    BY DEF IndInv, TypeOK, NamesInv, WalInv, DiskInv, OpenInv, MergeInv, LoadSegment, Overlay
  <1>3. OldInv'
    BY <1>a, <1>c DEF IndInv, OldInv
  <1>7. RecoverInv'
    <2>1. ASSUME NEW k \in Keys
          PROVE  /\ \A i \in 1..Len(segments) : i < cursor + 1 => files[segments[i]][k].seq <= table'[k].seq
                 /\ table'[k] # NoRec =>
                      \/ \E i \in 1..Len(segments) : files[segments[i]][k] = table'[k]
                      \/ \E i \in 1..Len(wal) : IsFrameOf(wal, i, k)
      <3>1. /\ \A i \in 1..Len(segments) : i < cursor => files[segments[i]][k].seq <= table[k].seq
            /\ table[k] # NoRec =>
                 \/ \E i \in 1..Len(segments) : files[segments[i]][k] = table[k]
                 \/ \E i \in 1..Len(wal) : IsFrameOf(wal, i, k)
        BY <1>a DEF IndInv, RecoverInv
      <3>2. \A i \in 1..Len(segments) : files[segments[i]][k].seq \in Nat
        BY WalTypes, MemoryTypes, FileTypes DEF IndInv, NamesInv, Content, Record
      <3>3. QED
        <4>1. table'[k].seq >= table[k].seq /\ table'[k].seq >= files[segments[cursor]][k].seq
          BY <1>c
        <4>2. \A i \in 1..Len(segments) : i < cursor + 1 => i < cursor \/ i = cursor
          BY <1>a, FileTypes
        <4>3. table'[k].seq \in Nat /\ table[k].seq \in Nat
          BY <1>a, <1>c
        <4>4. \A i \in 1..Len(segments) : i < cursor + 1 => files[segments[i]][k].seq <= table'[k].seq
          BY <3>1, <3>2, <4>1, <4>2, <4>3
        <4>5. QED
          BY <1>a, <1>c, <3>1, <4>4
    <2>2. QED
      BY <1>a, <2>1 DEF IndInv, RecoverInv
  <1>8. QED
    BY <1>1, <1>3, <1>7 DEF IndInv

\* All segments are read, no frame yet.
LEMMA SegmentsLoadedInd ==
  ASSUME StrictClock, ~AppendFaults, TypeOK, IndInv, TypeOK', SegmentsLoaded
  PROVE  IndInv'
  <1> USE DEF CallSteps, OpenSteps, Up, disk, memory, control, env
  <1>1. NamesInv' /\ WalInv' /\ OldInv' /\ DiskInv' /\ OpenInv' /\ MergeInv'
    BY DEF IndInv, TypeOK, NamesInv, WalInv, OldInv, DiskInv, OpenInv, MergeInv, SegmentsLoaded
  <1>7. RecoverInv'
    <2>1. /\ pc = "load_segments" /\ pc' = "replay" /\ cursor' = 1 /\ cursor > Len(segments)
          /\ UNCHANGED <<disk, memory, env>> /\ memtable = Empty
      BY DEF SegmentsLoaded, IndInv, RecoverInv
    <2>2. \A k \in Keys : memtable[k] = NoRec
      BY <2>1 DEF Empty
    <2>3. \A i \in 1..Len(segments) : i < cursor
      BY WalTypes, MemoryTypes, FileTypes, <2>1
    <2>4. QED
      BY <2>1, <2>2, <2>3 DEF IndInv, RecoverInv
  <1>8. QED
    BY <1>1, <1>7 DEF IndInv

\* Table and memtable stay the newest of the frames read.
LEMMA ReplayFrameInd ==
  ASSUME StrictClock, ~AppendFaults, TypeOK, IndInv, TypeOK', ReplayFrame
  PROVE  IndInv'
  <1> USE DEF CallSteps, OpenSteps, Up, disk, memory, control, env
  <1> DEFINE f == wal[cursor]
  <1>a. /\ pc = "replay" /\ pc' = pc /\ cursor \in 1..Len(wal) /\ f.ok /\ cursor' = cursor + 1
        /\ UNCHANGED <<disk, segments, op, merged, stale, env>>
        /\ f \in Frame
    BY WalTypes, MemoryTypes, FileTypes DEF ReplayFrame
  <1>b. f.rec \in Record /\ f.key \in Keys \cup {NoKey} /\ f.rec.seq \in Nat
    BY <1>a DEF Frame, Record
  <1>c. seq' \in Nat /\ seq' >= seq /\ seq' >= f.rec.seq
    BY WalTypes, MemoryTypes, FileTypes, <1>b DEF ReplayFrame, SeqMax
  <1>d. f.key \notin Keys => table' = table /\ memtable' = memtable
    BY <1>b DEF ReplayFrame
  <1>e. f.key \in Keys =>
          /\ memtable'[f.key] = f.rec /\ \A k \in Keys : k # f.key => memtable'[k] = memtable[k]
          /\ table'[f.key] = IF f.rec.seq >= table[f.key].seq THEN f.rec ELSE table[f.key]
          /\ \A k \in Keys : k # f.key => table'[k] = table[k]
    BY WalTypes, MemoryTypes, FileTypes, ValueAssumption DEF ReplayFrame, ApplyEntry, Content
  <1>f. f.key \in Keys => IsFrameOf(wal, cursor, f.key) /\ Old(logged, f.key, f.rec)
    BY <1>a DEF IndInv, WalInv, UpToDate, IsFrameOf
  <1>g. \A k \in Keys : table[k].seq \in Nat /\ memtable[k].seq \in Nat
    BY WalTypes, MemoryTypes, FileTypes DEF Content, Record
  <1>1. NamesInv' /\ WalInv' /\ DiskInv' /\ OpenInv' /\ MergeInv'
    BY DEF IndInv, TypeOK, NamesInv, WalInv, DiskInv, OpenInv, MergeInv, ReplayFrame, SeqMax, ApplyEntry
  <1>3. OldInv'
    BY <1>a, <1>d, <1>e, <1>f DEF IndInv, OldInv
  <1>7. RecoverInv'
    <2> HIDE DEF f
    <2>1. ASSUME NEW k \in Keys
          PROVE  /\ table'[k].seq \in Nat /\ table'[k].seq >= table[k].seq
                 /\ f.key = k => table'[k].seq >= f.rec.seq
                 /\ table'[k] = table[k] \/ (f.key = k /\ table'[k] = f.rec)
      BY <1>b, <1>d, <1>e, <1>g
    <2>2. ASSUME NEW k \in Keys
          PROVE  /\ \A i \in 1..Len(segments) : files[segments[i]][k].seq <= table'[k].seq
                 /\ table'[k] # NoRec =>
                      \/ \E i \in 1..Len(segments) : files[segments[i]][k] = table'[k]
                      \/ \E i \in 1..Len(wal) : IsFrameOf(wal, i, k)
      <3>1. /\ \A i \in 1..Len(segments) : files[segments[i]][k].seq <= table[k].seq
            /\ table[k] # NoRec =>
                 \/ \E i \in 1..Len(segments) : files[segments[i]][k] = table[k]
                 \/ \E i \in 1..Len(wal) : IsFrameOf(wal, i, k)
        BY <1>a DEF IndInv, RecoverInv
      <3>2. \A i \in 1..Len(segments) : files[segments[i]][k].seq \in Nat
        BY WalTypes, MemoryTypes, FileTypes DEF IndInv, NamesInv, Content, Record
      <3>3. table[k].seq \in Nat /\ table'[k].seq \in Nat /\ table'[k].seq >= table[k].seq
        BY <1>g, <2>1
      <3>4. \A i \in 1..Len(segments) : files[segments[i]][k].seq <= table'[k].seq
        BY <3>1, <3>2, <3>3
      <3>5. CASE table'[k] = table[k]
        BY <3>1, <3>4, <3>5
      <3>6. CASE table'[k] # table[k]
        BY <1>a, <1>f, <2>1, <3>4, <3>6
      <3>7. QED
        BY <3>5, <3>6
    <2>3. ASSUME NEW k \in Keys, NEW i \in 1..Len(wal), IsFrameOf(wal, i, k), i < cursor + 1
          PROVE  /\ wal[i].rec.seq <= table'[k].seq
                 /\ wal[i].rec.seq <= memtable'[k].seq
                 /\ wal[i].rec.seq <= seq'
      <3>1. wal[i].rec.seq \in Nat
        <4>1. wal[i] \in Frame
          BY WalTypes, MemoryTypes, FileTypes
        <4>2. QED
          BY <4>1 DEF Frame, Record
      <3>2. CASE i < cursor
        <4>1. /\ wal[i].rec.seq <= table[k].seq /\ wal[i].rec.seq <= memtable[k].seq
              /\ wal[i].rec.seq <= seq
          BY <1>a, <2>3, <3>2 DEF IndInv, RecoverInv
        <4>2. f.key = k => wal[i].rec.seq < f.rec.seq
          BY <1>a, <1>f, <2>3, <3>2 DEF IndInv, WalInv, InOrder, f
        <4>3. QED
          <5>1. wal[i].rec.seq <= table'[k].seq
            BY <1>g, <2>1, <3>1, <4>1
          <5>2. wal[i].rec.seq <= seq'
            BY <1>c, <3>1, <4>1, MemoryTypes
          <5>3. memtable'[k] = memtable[k] \/ (f.key = k /\ memtable'[k] = f.rec)
            BY <1>d, <1>e
          <5>4. wal[i].rec.seq <= memtable'[k].seq
            BY <1>b, <3>1, <4>1, <4>2, <5>3
          <5>5. QED
            BY <5>1, <5>2, <5>4
      <3>3. CASE i = cursor
        <4>1. f.key = k /\ f = wal[i]
          BY <2>3, <3>3 DEF IsFrameOf, f
        <4>2. QED
          BY <1>b, <1>c, <1>e, <2>1, <4>1
      <3>4. QED
        BY <1>a, <2>3, <3>2, <3>3
    <2>4. ASSUME NEW k \in Keys, memtable'[k] # NoRec
          PROVE  \E i \in 1..Len(wal) : /\ IsFrameOf(wal, i, k) /\ i < cursor + 1
                                         /\ memtable'[k] = wal[i].rec
      <3>1. CASE f.key = k
        BY <1>a, <1>e, <1>f, <3>1 DEF f
      <3>2. CASE f.key # k
        <4>1. memtable'[k] = memtable[k]
          BY <1>d, <1>e, <3>2
        <4>2. PICK i \in 1..Len(wal) : /\ IsFrameOf(wal, i, k) /\ i < cursor
                                       /\ memtable[k] = wal[i].rec
          BY <1>a, <2>4, <4>1 DEF IndInv, RecoverInv
        <4>3. QED
          BY <1>a, <4>1, <4>2
      <3>3. QED
        BY <3>1, <3>2
    <2>5. segments' = manifest'.segments /\ manifest'.seq <= seq'
      <3>1. segments = manifest.segments /\ manifest.seq <= seq
        BY <1>a DEF IndInv, RecoverInv
      <3>2. QED
        BY <1>a, <1>c, <3>1, MemoryTypes, FileTypes
    <2>6. \A i \in 1..Len(wal') : i < cursor' => wal'[i].ok
      BY <1>a DEF IndInv, RecoverInv, f
    <2>7. QED
      BY <1>a, <2>2, <2>3, <2>4, <2>5, <2>6 DEF RecoverInv
  <1>8. QED
    BY <1>1, <1>3, <1>7 DEF IndInv

\* Cutting off the torn frame loses no record.
LEMMA TruncateTornInd ==
  ASSUME StrictClock, ~AppendFaults, TypeOK, IndInv, TypeOK', TruncateTorn
  PROVE  IndInv'
  <1> USE DEF CallSteps, OpenSteps, Up, disk, memory, control, env
  <1>a. /\ cursor = Len(wal) /\ ~wal[cursor].ok /\ pc = "replay"
        /\ UNCHANGED <<files, manifest, memory, control, env>>
    BY WalTypes, MemoryTypes, FileTypes DEF IndInv, WalInv, TruncateTorn
  <1>b. /\ wal' \in Seq(Frame) /\ Len(wal) \in Nat /\ Len(wal') = Len(wal) - 1
        /\ \A i \in 1..Len(wal') : wal'[i] = wal[i]
    <2>1. \A i \in 1..cursor - 1 : wal[i] \in Frame
      BY WalTypes, MemoryTypes, FileTypes, <1>a
    <2>2. wal' = SubSeq(wal, 1, cursor - 1)
      BY DEF TruncateTorn
    <2>3. QED
      BY WalTypes, MemoryTypes, FileTypes, <1>a, <2>1, <2>2, SubSeqProperties
  <1>c. \A k \in Keys : \A i \in Nat :
          /\ IsFrameOf(wal, i, k) <=> IsFrameOf(wal', i, k)
          /\ IsFrameOf(wal, i, k) => wal[i] = wal'[i]
    BY <1>a, <1>b DEF IsFrameOf
  <1>d. /\ \A k \in Keys : WalHas(wal, logged, k) <=> WalHas(wal', logged, k)
        /\ InOrder(wal) => InOrder(wal')
        /\ UpToDate(wal, logged) => UpToDate(wal', logged)
    BY WalTypes, MemoryTypes, FileTypes, <1>b, <1>c, SameRecords
  <1>1. NamesInv' /\ OldInv' /\ OpenInv' /\ MergeInv'
    BY DEF IndInv, TypeOK, NamesInv, OldInv, OpenInv, MergeInv, TruncateTorn
  <1>2. WalInv'
    BY <1>a, <1>b, <1>d DEF IndInv, WalInv
  <1>4. DiskInv'
    BY <1>a, <1>d DEF IndInv, DiskInv
  <1>7. RecoverInv'
    <2>1. \A k \in Keys : (\E i \in 1..Len(wal) : IsFrameOf(wal, i, k)) => \E i \in 1..Len(wal') : IsFrameOf(wal', i, k)
      BY <1>c DEF IsFrameOf
    <2>2. ASSUME NEW k \in Keys, NEW i \in 1..Len(wal'), IsFrameOf(wal', i, k)
          PROVE  i \in 1..Len(wal) /\ IsFrameOf(wal, i, k) /\ wal'[i] = wal[i]
      BY <1>b, <1>c, <2>2
    <2>3. ASSUME NEW k \in Keys, memtable[k] # NoRec
          PROVE  \E i \in 1..Len(wal') : /\ IsFrameOf(wal', i, k) /\ i < cursor
                                          /\ memtable[k] = wal'[i].rec
      <3>1. PICK i \in 1..Len(wal) : /\ IsFrameOf(wal, i, k) /\ i < cursor
                                     /\ memtable[k] = wal[i].rec
        BY <1>a, <2>3 DEF IndInv, RecoverInv
      <3>2. QED
        BY <1>a, <1>b, <1>c, <3>1
    <2>4. QED
      BY <1>a, <1>b, <2>1, <2>2, <2>3 DEF IndInv, RecoverInv
  <1>8. QED
    BY <1>1, <1>2, <1>4, <1>7 DEF IndInv

\* What was read is what was logged.
LEMMA RecoveredInd ==
  ASSUME StrictClock, ~AppendFaults, TypeOK, IndInv, TypeOK', Recovered
  PROVE  IndInv'
  <1> USE DEF CallSteps, OpenSteps, Up, disk, memory, control, env
  <1>a. /\ pc = "replay" /\ pc' = "idle" /\ cursor > Len(wal)
        /\ UNCHANGED <<disk, memory, env>>
    BY DEF Recovered, Finish
  <1>b. \A i \in 1..Len(wal) : i < cursor
    BY WalTypes, MemoryTypes, FileTypes, <1>a
  <1>1. NamesInv' /\ DiskInv' /\ MergeInv' /\ RecoverInv'
    BY DEF IndInv, TypeOK, NamesInv, DiskInv, MergeInv, RecoverInv, Recovered, Finish
  <1>2. WalInv'
    <2>1. \A i \in 1..Len(wal) : wal[i].ok
      BY NoTornLeft DEF IndInv, Recovered
    <2>2. QED
      BY <1>a, <2>1 DEF IndInv, WalInv
  <1>3. OldInv'
    <2>1. \A k \in Keys : Empty[k] = NoRec /\ Old(logged, k, NoRec)
      BY NoRecOld DEF IndInv, Empty
    <2>2. QED
      BY <2>1 DEF IndInv, OldInv, Recovered, Finish
  <1>5. OpenInv'
    <2>1. ASSUME NEW k \in Keys
          PROVE  /\ table[k].val = logged[k].val
                 /\ logged[k].seq <= seq
                 /\ memtable[k] = logged[k] \/ (memtable[k] = NoRec /\ Covers(files, logged, segments, k))
                 /\ memtable[k] # NoRec => WalHas(wal, logged, k)
      <3>a. /\ table[k].seq \in Nat /\ memtable[k].seq \in Nat /\ logged[k].seq \in Nat
            /\ Old(logged, k, table[k]) /\ Old(logged, k, memtable[k])
        BY WalTypes, MemoryTypes, FileTypes DEF IndInv, OldInv, Content, Record
      <3>b. segments = manifest.segments /\ manifest.seq <= seq
        BY <1>a DEF IndInv, RecoverInv
      <3>c. memtable[k] # NoRec => WalHas(wal, logged, k)
        BY <1>a DEF IndInv, RecoverInv, WalInv, UpToDate
      <3>1. CASE WalHas(wal, logged, k)
        <4>1. PICK i \in 1..Len(wal) : IsFrameOf(wal, i, k) /\ wal[i].rec = logged[k]
          BY <3>1 DEF WalHas
        <4>2. /\ logged[k].seq <= table[k].seq /\ logged[k].seq <= memtable[k].seq
              /\ logged[k].seq <= seq
          BY <1>a, <1>b, <4>1 DEF IndInv, RecoverInv
        <4>3. table[k] = logged[k] /\ memtable[k] = logged[k]
          BY <3>a, <4>2 DEF Old
        <4>4. QED
          BY <3>1, <4>2, <4>3
      <3>2. CASE ~WalHas(wal, logged, k)
        <4>1. Covers(files, logged, segments, k) /\ logged[k].seq <= manifest.seq
          BY <3>2, <3>b DEF IndInv, DiskInv
        <4>2. \A i \in 1..Len(wal) : ~IsFrameOf(wal, i, k)
          BY <3>2 DEF IndInv, WalInv, UpToDate
        <4>3. memtable[k] = NoRec
          BY <3>2, <3>c
        <4>4. table[k].val = logged[k].val
          <5>1. CASE \E i \in 1..Len(segments) : files[segments[i]][k] = logged[k]
            <6>1. logged[k].seq <= table[k].seq
              BY <1>a, <5>1 DEF IndInv, RecoverInv
            <6>2. QED
              BY <3>a, <6>1 DEF Old
          <5>2. CASE /\ logged[k].val = Tombstone
                     /\ \A i \in 1..Len(segments) : files[segments[i]][k] = NoRec
            <6>1. table[k] = NoRec
              BY <1>a, <4>2, <5>2 DEF IndInv, RecoverInv
            <6>2. QED
              BY <5>2, <6>1 DEF NoRec
          <5>3. QED
            BY <4>1, <5>1, <5>2 DEF Covers
        <4>5. logged[k].seq <= seq
          BY WalTypes, MemoryTypes, FileTypes, <3>a, <3>b, <4>1
        <4>6. QED
          BY <3>2, <4>1, <4>3, <4>4, <4>5
      <3>3. QED
        BY <3>1, <3>2
    <2>2. QED
      BY <1>a, <2>1 DEF OpenInv
  <1>8. QED
    BY <1>1, <1>2, <1>3, <1>5 DEF IndInv

\* An exception between two disk steps leaves disk and memory consistent.
LEMMA DiskStepRaisesInd ==
  ASSUME StrictClock, ~AppendFaults, TypeOK, IndInv, TypeOK', DiskStepRaises
  PROVE  IndInv'
  <1> USE DEF CallSteps, OpenSteps, Up, disk, memory, control, env
  <1>1. NamesInv' /\ DiskInv' /\ OpenInv' /\ MergeInv' /\ RecoverInv'
    BY DEF IndInv, TypeOK, NamesInv, DiskInv, OpenInv, MergeInv, RecoverInv, DiskStepRaises, Finish
  <1>2. WalInv'
    BY DEF IndInv, WalInv, DiskStepRaises, Finish
  <1>3. OldInv'
    <2>1. \A k \in Keys : Empty[k] = NoRec /\ Old(logged, k, NoRec)
      BY NoRecOld DEF IndInv, Empty
    <2>2. QED
      BY <2>1 DEF IndInv, OldInv, DiskStepRaises, Finish
  <1>8. QED
    BY <1>1, <1>2, <1>3 DEF IndInv

\* The disk alone is enough, also when the append was cut short.
LEMMA CrashInd ==
  ASSUME StrictClock, ~AppendFaults, TypeOK, IndInv, TypeOK', Crash
  PROVE  IndInv'
  <1> USE DEF CallSteps, OpenSteps, Up, disk, memory, control, env
  <1> DEFINE f == [OpFrame EXCEPT !.ok = FALSE]
  <1>a. f \in Frame /\ (~f.ok \/ f.key \notin Keys)
    BY OpFrameType
  <1> HIDE DEF f
  <1>b. /\ \A k \in Keys : WalHas(wal, logged, k) <=> WalHas(Append(wal, f), logged, k)
        /\ InOrder(wal) => InOrder(Append(wal, f))
        /\ UpToDate(wal, logged) => UpToDate(Append(wal, f), logged)
    <2>1. Append(wal, f) \in Seq(Frame)
      BY WalTypes, MemoryTypes, FileTypes, <1>a
    <2>2. \A k \in Keys : \A i \in Nat :
            /\ IsFrameOf(wal, i, k) <=> IsFrameOf(Append(wal, f), i, k)
            /\ IsFrameOf(wal, i, k) => wal[i] = Append(wal, f)[i]
      BY WalTypes, MemoryTypes, FileTypes, <1>a, OtherFrame
    <2>3. QED
      BY WalTypes, MemoryTypes, FileTypes, <2>1, <2>2, SameRecords
  <1>c. /\ pc' = "down" /\ UNCHANGED <<files, manifest, clock, faults>> /\ LoseMemory
    BY DEF Crash, LoseMemory
  <1>d. /\ \A k \in Keys : logged'[k].seq = 0 => logged'[k] = NoRec
        /\ \A k \in Keys : \A x \in Record : Old(logged, k, x) => Old(logged', k, x)
        /\ \A k \in Keys : WalHas(wal, logged, k) => WalHas(wal', logged', k)
        /\ \A k \in Keys : logged'[k] = logged[k] \/ WalHas(wal', logged', k)
        /\ InOrder(wal') /\ UpToDate(wal', logged')
        /\ \A i \in 1..Len(wal') : ~wal'[i].ok => i = Len(wal')
    <2>1. CASE UNCHANGED <<wal, logged>>
      BY <2>1 DEF IndInv, OldInv, WalInv
    <2>2. CASE pc = "append" /\ wal' = Append(wal, f) /\ logged' = logged
      <3>1. \A i \in 1..Len(wal) : wal[i].ok
        BY <2>2 DEF IndInv, WalInv
      <3>2. QED
        BY <1>a, <1>b, <2>2, <3>1 DEF IndInv, OldInv, WalInv
    <2>3. CASE /\ pc = "append" /\ wal' = Append(wal, OpFrame)
               /\ logged' = [logged EXCEPT ![op.key] = op.rec]
      <3>1. /\ op.key \in Keys /\ op.rec \in Record /\ op.rec.seq = seq
            /\ \A k \in Keys : logged[k].seq < seq /\ logged[k].seq \in Nat
        BY WalTypes, MemoryTypes, FileTypes, <2>3 DEF IndInv, OpenInv, Content, Record
      <3>2. OpFrame \in Frame /\ OpFrame.key = op.key /\ OpFrame.rec = op.rec /\ OpFrame.ok
        BY OpFrameType
      <3>3. /\ WalHas(wal', logged', op.key)
            /\ \A k \in Keys : WalHas(wal, logged, k) => WalHas(wal', logged', k)
        BY WalTypes, MemoryTypes, FileTypes, <2>3, <3>1, <3>2, LogRecord
      <3>4. InOrder(wal') /\ UpToDate(wal', logged')
        BY WalTypes, MemoryTypes, FileTypes, <2>3, <3>1, <3>2, LogRecordInOrder DEF IndInv, WalInv
      <3>5. \A i \in 1..Len(wal') : wal'[i].ok
        BY <2>3, <3>2 DEF IndInv, WalInv
      <3>6. \A k \in Keys : \A x \in Record : Old(logged, k, x) => Old(logged', k, x)
        BY WalTypes, MemoryTypes, FileTypes, <2>3, <3>1, OldLater
      <3>7. logged'[op.key] = op.rec /\ \A k \in Keys : k # op.key => logged'[k] = logged[k]
        BY WalTypes, MemoryTypes, FileTypes, <2>3, <3>1 DEF Content
      <3>8. op.rec.seq # 0
        BY <3>1
      <3>9. QED
        BY <3>3, <3>4, <3>5, <3>6, <3>7, <3>8 DEF IndInv, OldInv
    <2>4. QED
      BY <2>1, <2>2, <2>3 DEF Crash, f
  <1>1. NamesInv' /\ OpenInv' /\ MergeInv' /\ RecoverInv'
    BY DEF IndInv, TypeOK, NamesInv, OpenInv, MergeInv, RecoverInv, Crash, OpFrame, LoseMemory
  <1>2. WalInv'
    BY <1>c, <1>d DEF WalInv
  <1>3. OldInv'
    <2>1. \A n \in DOMAIN files : \A k \in Keys : files[n][k] \in Record
      BY WalTypes, MemoryTypes, FileTypes DEF Content
    <2>2. \A k \in Keys : Empty[k] = NoRec /\ Old(logged, k, NoRec)
      BY NoRecOld DEF IndInv, Empty
    <2>3. \A k \in Keys : Old(logged', k, NoRec)
      BY <1>d, <2>2, EmptyContent
    <2>4. QED
      BY <1>c, <1>d, <2>1, <2>2, <2>3 DEF IndInv, OldInv, LoseMemory
  <1>4. DiskInv'
    <2>1. ASSUME NEW k \in Keys, logged'[k] = logged[k], Covers(files, logged, manifest.segments, k)
          PROVE  Covers(files', logged', manifest'.segments, k)
      BY <1>c, <2>1 DEF Covers
    <2>2. QED
      BY <1>c, <1>d, <2>1 DEF IndInv, DiskInv
  <1>8. QED
    BY <1>1, <1>2, <1>3, <1>4 DEF IndInv

\* Starting a call changes nothing.
LEMMA FlushInd ==
  ASSUME StrictClock, ~AppendFaults, TypeOK, IndInv, TypeOK', Flush
  PROVE  IndInv'
  <1> USE DEF CallSteps, OpenSteps, Up, disk, memory, control, env
  <1>1. NamesInv' /\ WalInv' /\ OldInv' /\ DiskInv' /\ OpenInv' /\ MergeInv' /\ RecoverInv'
    BY DEF IndInv, TypeOK, NamesInv, WalInv, OldInv, DiskInv, OpenInv, MergeInv, RecoverInv, Flush
  <1>8. QED
    BY <1>1 DEF IndInv

\* Starting a call changes nothing.
LEMMA CompactInd ==
  ASSUME StrictClock, ~AppendFaults, TypeOK, IndInv, TypeOK', Compact
  PROVE  IndInv'
  <1> USE DEF CallSteps, OpenSteps, Up, disk, memory, control, env
  <1>1. NamesInv' /\ WalInv' /\ OldInv' /\ DiskInv' /\ OpenInv' /\ RecoverInv'
    BY DEF IndInv, TypeOK, NamesInv, WalInv, OldInv, DiskInv, OpenInv, RecoverInv, Compact
  <1>6. MergeInv'
    BY DEF IndInv, MergeInv, Compact, Empty
  <1>8. QED
    BY <1>1, <1>6 DEF IndInv

\* Starting a call changes nothing.
LEMMA CheckpointInd ==
  ASSUME StrictClock, ~AppendFaults, TypeOK, IndInv, TypeOK', Checkpoint
  PROVE  IndInv'
  <1> USE DEF CallSteps, OpenSteps, Up, disk, memory, control, env
  <1>1. NamesInv' /\ WalInv' /\ OldInv' /\ DiskInv' /\ OpenInv' /\ MergeInv' /\ RecoverInv'
    BY DEF IndInv, TypeOK, NamesInv, WalInv, OldInv, DiskInv, OpenInv, MergeInv, RecoverInv, Checkpoint
  <1>8. QED
    BY <1>1 DEF IndInv

\* Starting a call changes nothing.
LEMMA CloseInd ==
  ASSUME StrictClock, ~AppendFaults, TypeOK, IndInv, TypeOK', Close
  PROVE  IndInv'
  <1> USE DEF CallSteps, OpenSteps, Up, disk, memory, control, env
  <1>1. NamesInv' /\ WalInv' /\ OldInv' /\ DiskInv' /\ OpenInv' /\ MergeInv' /\ RecoverInv'
    BY DEF IndInv, TypeOK, NamesInv, WalInv, OldInv, DiskInv, OpenInv, MergeInv, RecoverInv, Close
  <1>8. QED
    BY <1>1 DEF IndInv

\* Recovery starts from the manifest.
LEMMA OpenInd ==
  ASSUME StrictClock, ~AppendFaults, TypeOK, IndInv, TypeOK', Open
  PROVE  IndInv'
  <1> USE DEF CallSteps, OpenSteps, Up, disk, memory, control, env
  <1>1. NamesInv' /\ WalInv' /\ OldInv' /\ DiskInv' /\ OpenInv' /\ MergeInv'
    BY DEF IndInv, TypeOK, NamesInv, WalInv, OldInv, DiskInv, OpenInv, MergeInv, Open
  <1>7. RecoverInv'
    <2>1. /\ table = Empty /\ memtable = Empty /\ cursor = 1 /\ pc' = "load_segments"
          /\ UNCHANGED <<disk, table, memtable, cursor>>
          /\ segments' = manifest.segments /\ seq' = manifest.seq
      BY DEF IndInv, RecoverInv, Open
    <2>2. \A k \in Keys : table[k] = NoRec
      BY <2>1 DEF Empty
    <2>3. QED
      BY WalTypes, MemoryTypes, FileTypes, <2>1, <2>2 DEF RecoverInv
  <1>8. QED
    BY <1>1, <1>7 DEF IndInv

-----------------------------------------------------------------------------
(* The theorems. *)

\* Starting a put() or delete() only hands out a number.
LEMMA BeginWriteInd ==
  ASSUME TypeOK, IndInv, TypeOK',
         NEW key \in Keys, NEW v \in Values \cup {Tombstone}, BeginWrite(key, v)
  PROVE  IndInv'
  <1> USE DEF CallSteps, OpenSteps, Up, disk, memory, control, env
  <1>a. /\ pc = "idle" /\ pc' = "append" /\ seq' = seq + 1
        /\ op'.key = key /\ op'.rec.seq = seq'
        /\ UNCHANGED <<disk, table, memtable, segments, cursor, merged, stale, env>>
    BY DEF BeginWrite
  <1>1. NamesInv' /\ WalInv' /\ OldInv' /\ DiskInv' /\ MergeInv' /\ RecoverInv'
    BY <1>a DEF IndInv, NamesInv, WalInv, OldInv, DiskInv, MergeInv, RecoverInv
  <1>2. OpenInv'
    <2>1. \A k \in Keys : logged[k].seq <= seq' /\ logged[k].seq < seq'
      BY <1>a, MemoryTypes DEF IndInv, OpenInv
    <2>2. QED
      BY <1>a, <2>1 DEF IndInv, OpenInv
  <1>3. QED
    BY <1>1, <1>2 DEF IndInv

\* The inductive invariant holds of an empty store.
LEMMA InitInd == Init => IndInv
  <1> SUFFICES ASSUME Init PROVE IndInv
    OBVIOUS
  <1>1. TypeOK
    BY EmptyContent DEF Init, TypeOK, NoManifest, CallSteps, OpenSteps
  <1>2. \A k \in Keys : Empty[k] = NoRec
    BY DEF Empty
  <1>3. NamesInv /\ WalInv /\ MergeInv /\ OpenInv
    BY DEF Init, NoManifest, NamesInv, WalInv, InOrder, UpToDate, MergeInv, OpenInv, Up, CallSteps
  <1>4. OldInv /\ DiskInv /\ RecoverInv
    BY <1>2 DEF Init, NoManifest, OldInv, Old, DiskInv, Covers, RecoverInv, OpenSteps, NoRec
  <1>5. QED
    BY <1>1, <1>3, <1>4 DEF IndInv

\* Every step keeps the inductive invariant.
LEMMA IndStep ==
  ASSUME StrictClock, ~AppendFaults
  PROVE  IndInv /\ [Next]_vars => IndInv'
  <1> SUFFICES ASSUME IndInv, [Next]_vars PROVE IndInv'
    OBVIOUS
  <1>0. TypeOK /\ TypeOK'
    BY TypeStep DEF IndInv
  <1>1. CASE UNCHANGED vars
    BY <1>1 DEF IndInv, vars, disk, memory, control, env, TypeOK, NamesInv, WalInv,
                OldInv, DiskInv, OpenInv, MergeInv, RecoverInv, Up
  <1>2. CASE Next
    <2>1. ASSUME NEW k \in Keys, NEW v \in Values \cup {Tombstone}, BeginWrite(k, v) PROVE IndInv'
      BY <1>0, <2>1, BeginWriteInd
    <2>2. ~AppendRaises
      BY DEF AppendRaises
    <2>3. CASE CallStep
      BY <1>0, <2>3, AppendRecordInd, FlushSegmentInd, FlushManifestInd, FlushRotateInd,
         CompactMergeInd, CompactSegmentInd, CompactManifestInd, CompactUnlinkInd,
         CheckpointAppendInd, CheckpointManifestInd, CloseManifestInd DEF CallStep
    <2>4. CASE RecoverStep
      BY <1>0, <2>4, LoadSegmentInd, SegmentsLoadedInd, ReplayFrameInd, TruncateTornInd,
         RecoveredInd DEF RecoverStep
    <2>5. CASE Flush \/ Compact \/ Checkpoint \/ Close \/ Open \/ DiskStepRaises \/ Crash
      BY <1>0, <2>5, FlushInd, CompactInd, CheckpointInd, CloseInd, OpenInd, DiskStepRaisesInd, CrashInd
    <2>6. QED
      BY <1>2, <2>1, <2>2, <2>3, <2>4, <2>5 DEF Next, Put, Delete
  <1>3. QED
    BY <1>1, <1>2

\* The inductive invariant holds throughout, with distinct clock readings and no
\* append that raises half way.
LEMMA Invariance ==
  ASSUME StrictClock, ~AppendFaults
  PROVE  Spec => []IndInv
  BY InitInd, IndStep, PTL DEF Spec

\* An open store answers every get() with the last record logged for the key,
\* after any number of crashes, torn frames, flushes, compactions and failed
\* disk steps.
THEOREM NothingIsLost ==
  ASSUME StrictClock, ~AppendFaults
  PROVE  Spec => []NothingLost
  <1>1. IndInv => NothingLost
    BY DEF IndInv, OpenInv, NothingLost
  <1>2. QED
    BY <1>1, Invariance, PTL

\* The manifest never names a missing segment file.
THEOREM ManifestFilesAlwaysExist ==
  ASSUME StrictClock, ~AppendFaults
  PROVE  Spec => []ManifestFilesExist
  <1>1. IndInv => ManifestFilesExist
    BY DEF IndInv, NamesInv, ManifestFilesExist
  <1>2. QED
    BY <1>1, Invariance, PTL

\* No sequence number of a logged record is handed out again, not even after a
\* restart.
THEOREM SeqNeverReused ==
  ASSUME StrictClock, ~AppendFaults
  PROVE  Spec => []SeqNotReused
  <1>1. IndInv => SeqNotReused
    BY DEF IndInv, OpenInv, SeqNotReused
  <1>2. QED
    BY <1>1, Invariance, PTL

\* A segment file is never overwritten.
THEOREM SegmentsAreImmutable ==
  ASSUME StrictClock, ~AppendFaults
  PROVE  Spec => SegmentsImmutable
  <1> DEFINE Kept == \A n \in DOMAIN files \cap DOMAIN files' : files'[n] = files[n]
  <1>1. IndInv /\ [Next]_vars => [Kept]_vars
    <2> SUFFICES ASSUME IndInv, Next PROVE Kept
      OBVIOUS
    <2>1. TypeOK /\ \A n \in DOMAIN files : n.ms <= clock
      BY DEF IndInv, NamesInv
    <2>2. ASSUME NEW n, NEW c, n.ms = clock + 1, WriteFile(n, c) PROVE Kept
      BY <2>1, <2>2, MemoryTypes DEF WriteFile
    <2>3. CASE FlushSegment
      <3>1. PICK ms \in Now : WriteFile([count |-> Len(segments), compact |-> FALSE, ms |-> ms], memtable)
        BY <2>3 DEF FlushSegment
      <3>2. ms = clock + 1
        BY DEF Now
      <3>3. QED
        BY <2>2, <3>1, <3>2
    <2>4. CASE CompactSegment
      <3>1. PICK ms \in Now : WriteFile([count |-> Len(segments), compact |-> TRUE, ms |-> ms], DropTombstones(merged))
        BY <2>4 DEF CompactSegment
      <3>2. ms = clock + 1
        BY DEF Now
      <3>3. QED
        BY <2>2, <3>1, <3>2
    <2>5. CASE CompactUnlink
      BY <2>5 DEF CompactUnlink, RemoveFile
    <2>6. CASE UNCHANGED files
      BY <2>6
    <2>7. FlushSegment \/ CompactSegment \/ CompactUnlink \/ UNCHANGED files
      BY DEF Next, CallStep, RecoverStep, Put, Delete, BeginWrite, Flush, Compact, Checkpoint,
             Close, Open, AppendRecord, FlushManifest, FlushRotate, CompactMerge, CompactManifest,
             CheckpointAppend, CheckpointManifest, CloseManifest, LoadSegment, SegmentsLoaded,
             ReplayFrame, TruncateTorn, Recovered, AppendRaises, DiskStepRaises, Crash, disk
    <2>8. QED
      BY <2>3, <2>4, <2>5, <2>6, <2>7
  <1>2. QED
    BY <1>1, Invariance, PTL DEF Spec, SegmentsImmutable


-----------------------------------------------------------------------------
(* The refinement of DurableMap. *)

\* A call that writes has a record; a store at rest or being opened has no call.
OpInv ==
  /\ pc \in {"idle", "down"} \cup OpenSteps => op = NoOp
  /\ pc = "append" => op.key \in Keys

LEMMA OpStep == ASSUME OpInv, [Next]_vars PROVE OpInv'
<1> USE DEF OpInv, CallSteps, OpenSteps
<1>1. ASSUME NEW k \in Keys, NEW v, BeginWrite(k, v) PROVE OpInv'
  BY <1>1 DEF BeginWrite
<1>2. CASE Flush \/ Compact \/ Checkpoint \/ Close \/ Open
  BY <1>2 DEF Flush, Compact, Checkpoint, Close, Open
<1>3. CASE CallStep
  BY <1>3 DEF CallStep, AppendRecord, FlushSegment, FlushManifest, FlushRotate, CompactMerge,
              CompactSegment, CompactManifest, CompactUnlink, CheckpointAppend,
              CheckpointManifest, CloseManifest, LoseMemory, Finish
<1>4. CASE RecoverStep
  BY <1>4 DEF RecoverStep, LoadSegment, SegmentsLoaded, ReplayFrame, TruncateTorn, Recovered,
              Finish, control
<1>5. CASE AppendRaises \/ DiskStepRaises \/ Crash
  BY <1>5 DEF AppendRaises, DiskStepRaises, Crash, LoseMemory, Finish
<1>6. CASE UNCHANGED vars
  BY <1>6 DEF vars, control
<1> QED BY <1>1, <1>2, <1>3, <1>4, <1>5, <1>6 DEF Next, Put, Delete

\* The views of the two ends of a step.
LEMMA OpenView ==
  ASSUME IndInv PROVE ViewOf = MapOf
BY DEF IndInv, OpenInv, ViewOf, MapOf

LEMMA OpenViewAfter ==
  ASSUME IndInv' PROVE ViewOf' = MapOf'
BY DEF IndInv, OpenInv, ViewOf, MapOf, Up

\* A record is logged.
LEMMA LoggedValue ==
  ASSUME IndInv, op.key \in Keys, logged' = [logged EXCEPT ![op.key] = op.rec]
  PROVE  MapOf' = [MapOf EXCEPT ![op.key] = op.rec.val]
<1>1. logged \in Content
  BY DEF IndInv, TypeOK
<1>2. \A k \in Keys : logged'[k] = IF k = op.key THEN op.rec ELSE logged[k]
  BY <1>1 DEF Content
<1>3. MapOf' = [k \in Keys |-> IF k = op.key THEN op.rec.val ELSE logged[k].val]
  BY <1>2 DEF MapOf
<1>4. [MapOf EXCEPT ![op.key] = op.rec.val]
        = [k \in Keys |-> IF k = op.key THEN op.rec.val ELSE logged[k].val]
  BY DEF MapOf
<1> QED BY <1>3, <1>4

LEMMA DoneRecord ==
  ASSUME NEW k, NEW v, NEW c, c = [key |-> k, val |-> v, done |-> FALSE]
  PROVE  [c EXCEPT !.done = TRUE] = [key |-> k, val |-> v, done |-> TRUE]
<1> DEFINE d == [c EXCEPT !.done = TRUE]
<1>1. c \in [key : {k}, val : {v}, done : BOOLEAN]
  OBVIOUS
<1>2. d \in [key : {k}, val : {v}, done : BOOLEAN] /\ d.done = TRUE
  BY <1>1
<1> HIDE DEF d
<1>3. d = [key |-> d.key, val |-> d.val, done |-> d.done]
  BY <1>2
<1>4. d.key = k /\ d.val = v
  BY <1>2
<1>5. d = [key |-> k, val |-> v, done |-> TRUE]
  BY <1>2, <1>3, <1>4
<1> QED BY <1>5 DEF d

\* A step inside a call or inside open() that neither logs a record nor ends it.
LEMMA Quiet ==
  ASSUME IndInv, IndInv', OpInv, UNCHANGED <<logged, op>>, Up' = Up, pc' = "append" <=> pc = "append"
  PROVE  UNCHANGED Abstract!vars
<1>1. MapOf' = MapOf /\ CallOf' = CallOf
  BY DEF MapOf, CallOf, NoOp
<1> QED BY <1>1, OpenView, OpenViewAfter DEF Abstract!vars

\* A call that has written its record, or writes none, ends.
LEMMA Ends ==
  ASSUME IndInv, IndInv', OpInv, UNCHANGED logged, Up, pc # "append", Finish
  PROVE  [Abstract!Next]_(Abstract!vars)
<1>1. MapOf' = MapOf /\ Up' /\ CallOf' = Abstract!NoCall
  BY DEF MapOf, CallOf, Finish, NoOp, Abstract!NoCall, Up
<1>2. ViewOf' = ViewOf
  BY <1>1, OpenView, OpenViewAfter
<1>3. CASE CallOf = Abstract!NoCall
  BY <1>1, <1>2, <1>3 DEF Abstract!vars
<1>4. CASE CallOf # Abstract!NoCall
  BY <1>1, <1>2, <1>4 DEF Abstract!Next, Abstract!Return
<1> QED BY <1>3, <1>4

\* The process is closed or dies.
LEMMA Dies ==
  ASSUME IndInv, IndInv', OpInv, LoseMemory,
         \/ UNCHANGED logged
         \/ pc = "append" /\ logged' = [logged EXCEPT ![op.key] = op.rec]
  PROVE  Abstract!Next
<1>1. ~Up' /\ CallOf' = Abstract!NoCall /\ ViewOf' = MapOf'
  BY OpenViewAfter DEF LoseMemory, CallOf, NoOp, Abstract!NoCall, Up, CallSteps
<1>2. CASE UNCHANGED logged
  <2>1. MapOf' = MapOf
    BY <1>2 DEF MapOf
  <2> QED BY <1>1, <2>1 DEF Abstract!Next, Abstract!Crash
<1>3. CASE pc = "append" /\ logged' = [logged EXCEPT ![op.key] = op.rec]
  <2>1. op.key \in Keys /\ op # NoOp
    BY <1>3, ValueAssumption DEF OpInv, NoOp
  <2>2. CallOf = [key |-> op.key, val |-> op.rec.val, done |-> FALSE]
    BY <1>3, <2>1 DEF CallOf
  <2>3. MapOf' = [MapOf EXCEPT ![op.key] = op.rec.val]
    BY <1>3, <2>1, LoggedValue
  <2> QED BY <1>1, <2>2, <2>3 DEF Abstract!Next, Abstract!Crash
<1> QED BY <1>2, <1>3

\* Every step of the store is a step of the map, or none.
LEMMA Simulation ==
  ASSUME ~AppendFaults, IndInv, IndInv', OpInv, [Next]_vars
  PROVE  [Abstract!Next]_(Abstract!vars)
<1> USE DEF Up, CallSteps, OpenSteps
<1>1. ASSUME NEW k \in Keys, NEW v \in Values \cup {Tombstone}, BeginWrite(k, v)
      PROVE  [Abstract!Next]_(Abstract!vars)
  <2>1. pc = "idle" /\ pc' = "append" /\ Up /\ Up' /\ op = NoOp /\ UNCHANGED logged
    BY <1>1 DEF BeginWrite, OpInv, env
  <2>2. op'.key = k /\ op'.rec.val = v /\ op' # NoOp
    BY <1>1, ValueAssumption DEF BeginWrite, NoOp
  <2>3. CallOf = Abstract!NoCall /\ CallOf' = [key |-> k, val |-> v, done |-> FALSE]
    BY <2>1, <2>2 DEF CallOf, Abstract!NoCall
  <2>4. MapOf' = MapOf /\ ViewOf' = ViewOf
    <3>1. MapOf' = MapOf
      BY <2>1 DEF MapOf
    <3> QED BY <3>1, OpenView, OpenViewAfter
  <2>5. Abstract!Invoke(k, v)
    BY <2>1, <2>3, <2>4 DEF Abstract!Invoke
  <2> QED BY <2>5 DEF Abstract!Next
<1>2. CASE AppendRecord
  <2>1. pc = "append" /\ op.key \in Keys /\ op # NoOp /\ Up
    BY <1>2, ValueAssumption DEF AppendRecord, OpInv, NoOp
  <2>2. CallOf = [key |-> op.key, val |-> op.rec.val, done |-> FALSE]
    BY <2>1 DEF CallOf
  <2>3. logged' = [logged EXCEPT ![op.key] = op.rec]
    BY <1>2 DEF AppendRecord
  <2>4. MapOf' = [MapOf EXCEPT ![op.key] = op.rec.val]
    BY <2>1, <2>3, LoggedValue
  <2>5. ViewOf' = MapOf'
    BY OpenViewAfter
  <2>6. CASE pc' = "flush_segment" /\ op' = op
    <3>1. Up' /\ CallOf' = [CallOf EXCEPT !.done = TRUE]
      <4>1. CallOf' = [key |-> op.key, val |-> op.rec.val, done |-> TRUE]
        BY <2>1, <2>6 DEF CallOf
      <4>2. [CallOf EXCEPT !.done = TRUE] = [key |-> op.key, val |-> op.rec.val, done |-> TRUE]
        BY <2>2, DoneRecord
      <4>3. Up'
        BY <2>6
      <4> QED BY <4>1, <4>2, <4>3
    <3> QED BY <2>1, <2>2, <2>4, <2>5, <3>1 DEF Abstract!Next, Abstract!TakeEffect
  <2>7. CASE Finish
    <3>1. Up' /\ CallOf' = Abstract!NoCall
      BY <2>7 DEF Finish, CallOf, NoOp, Abstract!NoCall
    <3> QED BY <2>1, <2>2, <2>4, <2>5, <3>1 DEF Abstract!Next, Abstract!TakeEffectAndReturn
  <2> QED BY <1>2, <2>6, <2>7 DEF AppendRecord
<1>3. CASE Flush \/ Compact \/ Checkpoint \/ Close
  <2>1. UNCHANGED <<logged, op>> /\ Up' = Up /\ (pc' = "append" <=> pc = "append")
    BY <1>3 DEF Flush, Compact, Checkpoint, Close, env
  <2> QED BY <2>1, Quiet
<1>4. CASE Open \/ LoadSegment \/ SegmentsLoaded \/ ReplayFrame \/ TruncateTorn
  <2>1. UNCHANGED <<logged, op>> /\ Up' = Up /\ (pc' = "append" <=> pc = "append")
    BY <1>4 DEF Open, LoadSegment, SegmentsLoaded, ReplayFrame, TruncateTorn, env, control
  <2> QED BY <2>1, Quiet
<1>5. CASE Recovered
  <2>1. ~Up /\ Up' /\ op = NoOp /\ op' = NoOp /\ UNCHANGED logged
    BY <1>5 DEF Recovered, Finish, OpInv, env
  <2>2. MapOf' = MapOf /\ CallOf' = CallOf
    BY <2>1 DEF MapOf, CallOf
  <2>3. ViewOf' = MapOf
    BY <2>2, OpenViewAfter
  <2> QED BY <2>1, <2>2, <2>3 DEF Abstract!Next, Abstract!Restart
<1>6. CASE FlushSegment \/ FlushManifest \/ FlushRotate \/ CompactMerge \/ CompactSegment
           \/ CompactManifest \/ CompactUnlink \/ CheckpointAppend \/ CheckpointManifest
           \/ DiskStepRaises
  <2>1. UNCHANGED logged /\ Up /\ pc # "append"
    BY <1>6 DEF FlushSegment, FlushManifest, FlushRotate, CompactMerge, CompactSegment,
      CompactManifest, CompactUnlink, CheckpointAppend, CheckpointManifest, DiskStepRaises, env
  <2>2. Finish \/ (op' = op /\ Up' /\ pc' # "append")
    BY <1>6 DEF FlushSegment, FlushManifest, FlushRotate, CompactMerge, CompactSegment,
      CompactManifest, CompactUnlink, CheckpointAppend, CheckpointManifest, DiskStepRaises
  <2> HIDE DEF Up
  <2> QED BY <2>1, <2>2, Quiet, Ends
<1>7. CASE CloseManifest \/ Crash
  <2>1. /\ LoseMemory
        /\ \/ UNCHANGED logged
           \/ pc = "append" /\ logged' = [logged EXCEPT ![op.key] = op.rec]
    BY <1>7 DEF CloseManifest, Crash, env
  <2> QED BY <2>1, Dies
<1>8. CASE UNCHANGED vars
  <2>1. UNCHANGED <<logged, op>> /\ Up' = Up /\ (pc' = "append" <=> pc = "append")
    BY <1>8 DEF vars, control, env
  <2> QED BY <2>1, Quiet
<1>9. ~AppendRaises
  BY DEF AppendRaises
<1> QED BY <1>1, <1>2, <1>3, <1>4, <1>5, <1>6, <1>7, <1>8, <1>9 DEF Next, Put, Delete, CallStep, RecoverStep

\* The store is a map that survives crashes: each call takes effect at the
\* instant its frame is in the log, wholly or not at all, and flushes,
\* compactions, checkpoints, replays and failed disk steps are invisible.
THEOREM StoreImplementsDurableMap ==
  ASSUME StrictClock, ~AppendFaults
  PROVE  Spec => ImplementsDurableMap
<1>1. Init => Abstract!Init /\ OpInv
  <2> SUFFICES ASSUME Init PROVE Abstract!Init /\ OpInv
    OBVIOUS
  <2>1. ~Up /\ op = NoOp /\ pc = "down" /\ logged = Empty
    BY DEF Init, Up, CallSteps
  <2>2. MapOf = [k \in Keys |-> Tombstone] /\ ViewOf = MapOf
    BY <2>1 DEF MapOf, ViewOf, Empty, NoRec
  <2>3. CallOf = Abstract!NoCall
    BY <2>1 DEF CallOf, Abstract!NoCall
  <2> QED BY <2>1, <2>2, <2>3 DEF Abstract!Init, OpInv
<1>2. OpInv /\ [Next]_vars => OpInv'
  BY OpStep
<1>3. IndInv /\ IndInv' /\ OpInv /\ [Next]_vars => [Abstract!Next]_(Abstract!vars)
  BY Simulation
<1> QED BY <1>1, <1>2, <1>3, Invariance, PTL DEF Spec, ImplementsDurableMap, Abstract!Spec
=============================================================================
