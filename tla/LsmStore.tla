------------------------------ MODULE LsmStore ------------------------------
(***************************************************************************)
(* The durable record store: write-ahead log, memtable, immutable          *)
(* segments and manifest (annex/storage/lsm.py, wal.py, segment.py).       *)
(*                                                                         *)
(* The store is single-threaded: its owner holds the collection lock.      *)
(* What makes it hard is the disk.  A call is a sequence of disk steps,    *)
(* `pc' says which one comes next, and a crash may fall between any two    *)
(* of them (or inside an append, leaving a torn frame); any step of a      *)
(* flush or compaction may also raise an I/O error, after which the        *)
(* process goes on with the memory state the earlier steps left.           *)
(*                                                                         *)
(* Crash means the process dies and the operating system's files survive,  *)
(* the contract of the default wal_sync = False.  Segments and the         *)
(* manifest appear through os.replace, so they are never half written.     *)
(* Vectors, metadata and text are one opaque value.                        *)
(***************************************************************************)
EXTENDS Integers, Sequences, FiniteSets

CONSTANTS
  Keys, Values,
  Tombstone,         \* the value of a deleted (or absent) record
  NoKey,             \* the key of a CHECKPOINT frame
  MemtableMax,       \* config.memtable_max_records
  CompactionTrigger, \* config.compaction_trigger
  StrictClock,       \* every reading of the millisecond clock is a new one
  AppendFaults,      \* an append may raise half way and the process go on
  MaxSeq,            \* bound: sequence numbers handed out
  MaxCrashes,        \* bound: crashes
  MaxFaults,         \* bound: I/O errors
  MaxWal             \* bound: log length at which no checkpoint is started

ASSUME ConfigAssumption ==
  /\ MemtableMax \in Nat /\ MemtableMax >= 1
  /\ CompactionTrigger \in Nat /\ CompactionTrigger >= 2
ASSUME ValueAssumption == Tombstone \notin Values /\ NoKey \notin Keys
ASSUME BoundAssumption ==
  /\ MaxSeq \in Nat /\ MaxCrashes \in Nat /\ MaxFaults \in Nat /\ MaxWal \in Nat
  /\ StrictClock \in BOOLEAN /\ AppendFaults \in BOOLEAN

VARIABLES
  \* on disk
  wal,        \* sequence of frames; a torn one has ok = FALSE
  files,      \* segment files: name -> content
  manifest,   \* the last manifest written
  \* in the process
  table,      \* _table
  memtable,   \* _memtable
  segments,   \* _segments, oldest first
  seq,        \* _seq
  pc,         \* the next step of the running call, "idle" or "down"
  op,         \* the record a running put() or delete() writes
  cursor,     \* position of a loop over segments or frames
  merged,     \* compact()'s dict `merged'
  stale,      \* segments compact() has still to unlink
  \* environment and history
  clock,      \* the millisecond the clock last showed
  crashes, faults,
  logged      \* the last record of each key whose frame was written in full

disk == <<wal, files, manifest>>
memory == <<table, memtable, segments, seq>>
control == <<pc, op, cursor, merged, stale>>
env == <<clock, crashes, faults, logged>>
vars == <<disk, memory, control, env>>

Record == [seq : Nat, val : Values \cup {Tombstone}]
\* dict.get() of a missing key; no record written has sequence number 0.
NoRec == [seq |-> 0, val |-> Tombstone]
Empty == [k \in Keys |-> NoRec]
Content == [Keys -> Record]
Name == [count : Nat, compact : BOOLEAN, ms : Nat]
Frame == [key : Keys \cup {NoKey}, rec : Record, ok : BOOLEAN]
NoOp == [key |-> NoKey, rec |-> NoRec]
NoManifest == [segments |-> <<>>, seq |-> 0]

CallSteps == {"append", "flush_segment", "flush_manifest", "flush_rotate",
              "compact_merge", "compact_segment", "compact_manifest",
              "compact_unlink", "checkpoint_append", "checkpoint_manifest",
              "close_manifest"}
OpenSteps == {"load_segments", "replay"}
Up == pc = "idle" \/ pc \in CallSteps

\* Mutant: replay keeps the manifest's sequence number.
SeqMaxOfManifest(a, b) == a
SeqMax(a, b) == IF a >= b THEN a ELSE b
Live(c) == {k \in Keys : c[k] # NoRec}

\* _apply_entry for one record, and for every entry of a segment.
ApplyEntry(t, k, r) == IF r.seq >= t[k].seq THEN [t EXCEPT ![k] = r] ELSE t
Overlay(t, c) == [k \in Keys |-> IF c[k].seq >= t[k].seq THEN c[k] ELSE t[k]]

WriteFile(name, content) ==
  files' = [n \in DOMAIN files \cup {name} |->
              IF n = name THEN content ELSE files[n]]
RemoveFile(name) ==
  files' = [n \in DOMAIN files \ {name} |-> files[n]]
WriteManifest(segs) == manifest' = [segments |-> segs, seq |-> seq]

\* Mutant: segment names carry no time.
NowWithoutClock == {0}
\* int(time.time() * 1000): a new millisecond, or the one read before.
Now == IF StrictClock THEN {clock + 1} ELSE {clock, clock + 1}

-----------------------------------------------------------------------------
Init ==
  /\ wal = <<>> /\ files = [n \in {} |-> Empty] /\ manifest = NoManifest
  /\ table = Empty /\ memtable = Empty /\ segments = <<>> /\ seq = 0
  /\ pc = "down" /\ op = NoOp /\ cursor = 1 /\ merged = Empty /\ stale = <<>>
  /\ clock = 0 /\ crashes = 0 /\ faults = 0
  /\ logged = Empty

\* Mutant: the merge loop restarts one segment too early.
FinishAtZero ==
  /\ pc' = "idle" /\ op' = NoOp
  /\ cursor' = 0 /\ merged' = Empty /\ stale' = <<>>
\* The running call returns, or raises: nothing of it is left but its effects.
Finish ==
  /\ pc' = "idle" /\ op' = NoOp
  /\ cursor' = 1 /\ merged' = Empty /\ stale' = <<>>

-----------------------------------------------------------------------------
(* put() and delete() *)

BeginWrite(k, v) ==
  /\ pc = "idle" /\ seq < MaxSeq
  /\ seq' = seq + 1
  /\ op' = [key |-> k, rec |-> [seq |-> seq', val |-> v]]
  /\ pc' = "append"
  /\ UNCHANGED <<disk, table, memtable, segments, cursor, merged, stale, env>>

Put(k, v) == v # Tombstone /\ BeginWrite(k, v)

\* A key that is missing or already deleted is left alone, with no frame.
Delete(k) == table[k].val # Tombstone /\ BeginWrite(k, Tombstone)

OpFrame == [key |-> op.key, rec |-> op.rec, ok |-> TRUE]

\* wal.append, then table and memtable, then the threshold of _after_mutation.
AppendRecord ==
  /\ pc = "append"
  /\ wal' = Append(wal, OpFrame)
  /\ table' = ApplyEntry(table, op.key, op.rec)
  /\ memtable' = [memtable EXCEPT ![op.key] = op.rec]
  /\ logged' = [logged EXCEPT ![op.key] = op.rec]
  /\ IF Cardinality(Live(memtable')) >= MemtableMax
     THEN pc' = "flush_segment" /\ UNCHANGED <<op, cursor, merged, stale>>
     ELSE Finish
  /\ UNCHANGED <<files, manifest, segments, seq, clock, crashes, faults>>

\* write() raises after part of the frame reached the file.  (A frame larger
\* than Python's 8 KiB buffer is written straight through; what was not
\* written is dropped, and the next append starts right after the torn bytes.)
AppendRaises ==
  /\ AppendFaults /\ pc = "append" /\ faults < MaxFaults
  /\ wal' = Append(wal, [OpFrame EXCEPT !.ok = FALSE])
  /\ faults' = faults + 1
  /\ Finish
  /\ UNCHANGED <<files, manifest, memory, clock, crashes, logged>>

-----------------------------------------------------------------------------
(* flush() *)

Flush ==
  /\ pc = "idle" /\ Live(memtable) # {}
  /\ pc' = "flush_segment"
  /\ UNCHANGED <<disk, memory, op, cursor, merged, stale, env>>

\* SegmentWriter.finish, then the memory bookkeeping before the manifest.
FlushSegment ==
  /\ pc = "flush_segment"
  /\ \E ms \in Now :
       LET name == [count |-> Len(segments), compact |-> FALSE, ms |-> ms] IN
         /\ clock' = ms
         /\ WriteFile(name, memtable)
         /\ segments' = Append(segments, name)
  /\ memtable' = Empty
  /\ pc' = "flush_manifest"
  /\ UNCHANGED <<wal, manifest, table, seq, op, cursor, merged, stale,
                 crashes, faults, logged>>

FlushManifest ==
  /\ pc = "flush_manifest"
  /\ WriteManifest(segments)
  /\ pc' = "flush_rotate"
  /\ UNCHANGED <<wal, files, memory, op, cursor, merged, stale, env>>

FlushRotate ==
  /\ pc = "flush_rotate"
  /\ wal' = <<>>
  /\ IF Len(segments) >= CompactionTrigger
     THEN pc' = "compact_merge" /\ UNCHANGED <<op, cursor, merged, stale>>
     ELSE Finish
  /\ UNCHANGED <<files, manifest, memory, env>>

-----------------------------------------------------------------------------
(* compact() *)

Compact ==
  /\ pc = "idle" /\ Len(segments) >= 2
  /\ pc' = "compact_merge"
  /\ UNCHANGED <<disk, memory, op, cursor, merged, stale, env>>

\* One segment of the merge loop, oldest first; a missing file raises.
CompactMerge ==
  /\ pc = "compact_merge" /\ cursor <= Len(segments)
  /\ IF segments[cursor] \in DOMAIN files
     THEN /\ merged' = Overlay(merged, files[segments[cursor]])
          /\ cursor' = cursor + 1
          /\ pc' = IF cursor = Len(segments) THEN "compact_segment" ELSE pc
          /\ UNCHANGED <<op, stale>>
     ELSE Finish
  /\ UNCHANGED <<disk, memory, env>>

\* Mutant: compaction drops the records and keeps the tombstones.
DropRecords(c) ==
  [k \in Keys |-> IF c[k].val = Tombstone THEN c[k] ELSE NoRec]
\* The merge covers every segment, so tombstones are not written.
DropTombstones(c) ==
  [k \in Keys |-> IF c[k].val = Tombstone THEN NoRec ELSE c[k]]

CompactSegment ==
  /\ pc = "compact_segment"
  /\ \E ms \in Now :
       LET name == [count |-> Len(segments), compact |-> TRUE, ms |-> ms] IN
         /\ clock' = ms
         /\ WriteFile(name, DropTombstones(merged))
         /\ stale' = segments
         /\ segments' = <<name>>
  /\ pc' = "compact_manifest"
  /\ UNCHANGED <<wal, manifest, table, memtable, seq, op, cursor, merged,
                 crashes, faults, logged>>

\* Mutant: the old segments are unlinked without a new manifest.
CompactWithoutManifest ==
  /\ pc = "compact_manifest"
  /\ pc' = "compact_unlink"
  /\ UNCHANGED <<disk, memory, op, cursor, merged, stale, env>>
CompactManifest ==
  /\ pc = "compact_manifest"
  /\ WriteManifest(segments)
  /\ pc' = "compact_unlink"
  /\ UNCHANGED <<wal, files, memory, op, cursor, merged, stale, env>>

CompactUnlink ==
  /\ pc = "compact_unlink"
  /\ IF stale = <<>>
     THEN Finish /\ UNCHANGED files
     ELSE /\ RemoveFile(Head(stale))
          /\ stale' = Tail(stale)
          /\ UNCHANGED <<pc, op, cursor, merged>>
  /\ UNCHANGED <<wal, manifest, memory, env>>

-----------------------------------------------------------------------------
(* checkpoint() and close() *)

Checkpoint ==
  /\ pc = "idle" /\ Len(wal) < MaxWal
  /\ pc' = "checkpoint_append"
  /\ UNCHANGED <<disk, memory, op, cursor, merged, stale, env>>

CheckpointAppend ==
  /\ pc = "checkpoint_append"
  /\ wal' = Append(wal, [key |-> NoKey, ok |-> TRUE,
                         rec |-> [seq |-> seq, val |-> Tombstone]])
  /\ pc' = "checkpoint_manifest"
  /\ UNCHANGED <<files, manifest, memory, op, cursor, merged, stale, env>>

CheckpointManifest ==
  /\ pc = "checkpoint_manifest"
  /\ WriteManifest(segments)
  /\ Finish
  /\ UNCHANGED <<wal, files, memory, env>>

Close ==
  /\ pc = "idle"
  /\ pc' = "close_manifest"
  /\ UNCHANGED <<disk, memory, op, cursor, merged, stale, env>>

\* What the process knew is gone; only the disk is left.
LoseMemory ==
  /\ table' = Empty /\ memtable' = Empty /\ segments' = <<>> /\ seq' = 0
  /\ pc' = "down" /\ op' = NoOp
  /\ cursor' = 1 /\ merged' = Empty /\ stale' = <<>>

CloseManifest ==
  /\ pc = "close_manifest"
  /\ WriteManifest(segments)
  /\ LoseMemory
  /\ UNCHANGED <<wal, files, env>>

-----------------------------------------------------------------------------
(* Failures *)

\* A disk step of a flush, compaction, checkpoint or close raises before it
\* changed the disk; the exception leaves the call and the process goes on,
\* with what the call had already done to the memory (a cleared memtable, a
\* replaced segment list) left as it is.
DiskStepRaises ==
  /\ faults < MaxFaults
  /\ pc \in {"flush_segment", "flush_manifest", "compact_segment",
             "compact_manifest", "compact_unlink", "checkpoint_manifest",
             "close_manifest"}
  /\ faults' = faults + 1
  /\ Finish
  /\ UNCHANGED <<disk, memory, clock, crashes, logged>>

\* The process dies.  In the middle of an append the file holds nothing, part
\* or all of the frame.
Crash ==
  /\ pc # "down" /\ crashes < MaxCrashes
  /\ crashes' = crashes + 1
  /\ \/ UNCHANGED <<wal, logged>>
     \/ /\ pc = "append"
        /\ wal' = Append(wal, [OpFrame EXCEPT !.ok = FALSE])
        /\ UNCHANGED logged
     \/ /\ pc = "append"
        /\ wal' = Append(wal, OpFrame)
        /\ logged' = [logged EXCEPT ![op.key] = op.rec]
  /\ LoseMemory
  /\ UNCHANGED <<files, manifest, clock, faults>>

-----------------------------------------------------------------------------
(* _recover() *)

Open ==
  /\ pc = "down"
  /\ segments' = manifest.segments
  /\ seq' = manifest.seq
  /\ pc' = "load_segments"
  /\ UNCHANGED <<disk, table, memtable, op, cursor, merged, stale, env>>

\* A segment the manifest names and the directory lacks: open() raises.
LoadSegment ==
  /\ pc = "load_segments" /\ cursor <= Len(segments)
  /\ segments[cursor] \in DOMAIN files
  /\ table' = Overlay(table, files[segments[cursor]])
  /\ cursor' = cursor + 1
  /\ UNCHANGED <<disk, memtable, segments, seq, pc, op, merged, stale, env>>

SegmentsLoaded ==
  /\ pc = "load_segments" /\ cursor > Len(segments)
  /\ pc' = "replay" /\ cursor' = 1
  /\ UNCHANGED <<disk, memory, op, merged, stale, env>>

\* Mutant: replay fills the table and not the memtable.
ReplayFrameTableOnly ==
  /\ pc = "replay" /\ cursor <= Len(wal) /\ wal[cursor].ok
  /\ LET f == wal[cursor] IN
       /\ seq' = SeqMax(seq, f.rec.seq)
       /\ table' = IF f.key = NoKey THEN table ELSE ApplyEntry(table, f.key, f.rec)
  /\ cursor' = cursor + 1
  /\ UNCHANGED <<disk, memtable, segments, pc, op, merged, stale, env>>
ReplayFrame ==
  /\ pc = "replay" /\ cursor <= Len(wal) /\ wal[cursor].ok
  /\ LET f == wal[cursor] IN
       /\ seq' = SeqMax(seq, f.rec.seq)
       /\ IF f.key = NoKey
          THEN UNCHANGED <<table, memtable>>
          ELSE /\ table' = ApplyEntry(table, f.key, f.rec)
               /\ memtable' = [memtable EXCEPT ![f.key] = f.rec]
  /\ cursor' = cursor + 1
  /\ UNCHANGED <<disk, segments, pc, op, merged, stale, env>>

\* Mutant: a torn frame is reported and left in the file.
TornLeft ==
  /\ pc = "replay" /\ cursor <= Len(wal) /\ ~wal[cursor].ok
  /\ UNCHANGED vars
\* The first frame that fails its CRC: truncate the log there and stop.
TruncateTorn ==
  /\ pc = "replay" /\ cursor <= Len(wal) /\ ~wal[cursor].ok
  /\ wal' = SubSeq(wal, 1, cursor - 1)
  /\ UNCHANGED <<files, manifest, memory, control, env>>

Recovered ==
  /\ pc = "replay" /\ cursor > Len(wal)
  /\ Finish
  /\ UNCHANGED <<disk, memory, env>>

-----------------------------------------------------------------------------
\* What the thread inside the running call, or inside open(), does next.
CallStep ==
  \/ AppendRecord
  \/ FlushSegment \/ FlushManifest \/ FlushRotate
  \/ CompactMerge \/ CompactSegment \/ CompactManifest \/ CompactUnlink
  \/ CheckpointAppend \/ CheckpointManifest \/ CloseManifest
RecoverStep ==
  LoadSegment \/ SegmentsLoaded \/ ReplayFrame \/ TruncateTorn \/ Recovered

Next ==
  \/ \E k \in Keys, v \in Values : Put(k, v)
  \/ \E k \in Keys : Delete(k)
  \/ Flush \/ Compact \/ Checkpoint \/ Close \/ Open
  \/ CallStep \/ RecoverStep
  \/ AppendRaises \/ DiskStepRaises
  \/ Crash

Spec == Init /\ [][Next]_vars

\* The thread of a call keeps running until the call ends.
FairSpec == Spec /\ WF_vars(CallStep) /\ WF_vars(RecoverStep)

-----------------------------------------------------------------------------
(* Properties *)

\* Every variable has its type; the loop cursor in particular stays positive, and
\* a running put() or delete() has a key.
TypeOK ==
  /\ wal \in Seq(Frame)
  /\ DOMAIN files \subseteq Name /\ files = [n \in DOMAIN files |-> files[n]]
  /\ \A n \in DOMAIN files : files[n] \in Content
  /\ manifest \in [segments : Seq(Name), seq : Nat]
  /\ table \in Content /\ memtable \in Content
  /\ segments \in Seq(Name) /\ seq \in Nat
  /\ pc \in CallSteps \cup OpenSteps \cup {"idle", "down"}
  /\ op \in [key : Keys \cup {NoKey}, rec : Record]
  /\ pc = "append" => op.key \in Keys
  /\ cursor \in Nat \ {0}
  /\ merged \in Content /\ stale \in Seq(Name)
  /\ clock \in Nat /\ crashes \in Nat /\ faults \in Nat
  /\ logged \in Content

\* An open store answers every get() with the last record logged for the key,
\* whatever crashes, replays, flushes, compactions and failed disk steps came
\* before: nothing acknowledged is lost, no deleted record comes back.
NothingLost == Up => \A k \in Keys : table[k].val = logged[k].val

\* The manifest on disk never names a segment file that is not there, so the
\* store can always be opened again.
ManifestFilesExist ==
  \A i \in 1..Len(manifest.segments) : manifest.segments[i] \in DOMAIN files

\* Sequence numbers order the versions of a record; an open store never hands
\* out one that a logged record already has, not even after a restart at which
\* the newest record of a key was a tombstone that compaction had dropped.
SeqNotReused ==
  Up => \A k \in Keys :
          logged[k].seq <= seq /\ (pc = "append" => logged[k].seq < op.rec.seq)

\* Segments are immutable: a file that a manifest or a running process refers
\* to is never overwritten by a later flush or compaction.
SegmentsImmutable ==
  [][\A n \in DOMAIN files \cap DOMAIN files' : files'[n] = files[n]]_vars

\* A call that was started ends (returns, raises or is cut off by a crash), a
\* flush that compacts inside a put included; and so does open(), whose replay
\* neither loops on a torn frame nor blocks.
CallsEnd == pc \in CallSteps \cup OpenSteps ~> pc \in {"idle", "down"}

\* The store implements the crash-safe map.  The map is what was logged; readers
\* of an open store see its table; a call takes effect when its frame is written.
MapOf == [k \in Keys |-> logged[k].val]
ViewOf == [k \in Keys |-> IF Up THEN table[k].val ELSE logged[k].val]
CallOf ==
  IF op = NoOp THEN [key |-> Tombstone, val |-> Tombstone, done |-> TRUE]
               ELSE [key |-> op.key, val |-> op.rec.val, done |-> pc # "append"]
Abstract == INSTANCE DurableMap WITH map <- MapOf, view <- ViewOf, call <- CallOf, up <- Up

ImplementsDurableMap == Abstract!Spec
=============================================================================
