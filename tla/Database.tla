------------------------------ MODULE Database ------------------------------
(***************************************************************************)
(* A directory of collections behind the HTTP server: Database of          *)
(* annex/db.py and the routes of annex/server/app.py that go through it.   *)
(*                                                                         *)
(* Every route runs on a thread of its own and Database has no lock: calls *)
(* interleave at each access to the registry and to the file system.  What *)
(* a route gets is a Collection object, which it may use after somebody    *)
(* else has dropped the collection.                                        *)
(*                                                                         *)
(* Inside an object the store is what LsmStore shows it to be: a logged    *)
(* record is there, a flush moves the records of the memtable to a segment *)
(* and empties the log.  Routes that only read, and those that change      *)
(* versions and indexes only, are the operation "read".  DELETE of a       *)
(* document, to the directory one more record of the log, is left out.     *)
(***************************************************************************)
EXTENDS Integers, FiniteSets

CONSTANTS
  Threads, Names, Docs,
  Overlaps,   \* a collection may be opened, created or dropped while other
              \* calls on it run
  MaxObjects, \* bound: Collection objects made
  MaxCrashes  \* bound: crashes and shutdowns

ASSUME DatabaseAssumption ==
  /\ Overlaps \in BOOLEAN /\ MaxObjects \in Nat /\ MaxCrashes \in Nat
  /\ "" \notin Names  \* the name of no collection

VARIABLES
  disk,       \* the directory of each name
  registry,   \* _collections: name -> object, 0 if there is none
  objects,    \* the Collection objects
  thread,     \* the call each thread is in
  created,    \* history: names whose creation was acknowledged, not dropped since
  acked,      \* history: documents whose upsert was acknowledged, not dropped since
  written,    \* history: documents logged since the directory was last removed
  crashes

history == <<created, acked, written>>
vars == <<disk, registry, objects, thread, history, crashes>>

-----------------------------------------------------------------------------
\* config: collection.json is not there, cut short, or whole; wal, files and
\* manifest: records of the log, segment files, segments the manifest names.
NoDirectory == [dir |-> FALSE, config |-> "none", wal |-> {}, files |-> {}, manifest |-> {}]

\* table, memtable, segments of the object's store; writable: its handle of
\* the log is open; linked: and that file is still in the directory.
NoObject == [name |-> "", table |-> {}, mem |-> {}, segs |-> {}, writable |-> FALSE,
             linked |-> FALSE]

Rest == [pc |-> "idle", op |-> "", name |-> "", object |-> 0]

Init ==
  /\ disk = [n \in Names |-> NoDirectory]
  /\ registry = [n \in Names |-> 0]
  /\ objects = <<>>
  /\ thread = [t \in Threads |-> Rest]
  /\ created = {} /\ acked = [n \in Names |-> {}] /\ written = [n \in Names |-> {}]
  /\ crashes = 0

Goto(t, pc) == thread' = [thread EXCEPT ![t].pc = pc]
\* The call returns, or an exception ends it: 404, 400 or 500.
Return(t) == thread' = [thread EXCEPT ![t] = Rest]

RunningOn(n) == {t \in Threads : thread[t].name = n}
\* Without Overlaps a call runs next to others only if all of them find the
\* object in the registry.
MayStart(op, n) ==
  \/ Overlaps
  \/ RunningOn(n) = {}
  \/ /\ op # "drop" /\ registry[n] # 0
     /\ \A t \in RunningOn(n) : thread[t].op # "drop"

Start(t, op, n, pc) ==
  /\ thread[t].pc = "idle" /\ MayStart(op, n)
  /\ thread' = [thread EXCEPT ![t] = [pc |-> pc, op |-> op, name |-> n, object |-> 0]]
  /\ UNCHANGED <<disk, registry, objects, history, crashes>>

CreateRoute(t, n) == Start(t, "create", n, "exists")
UpsertRoute(t, n) == Start(t, "upsert", n, "open")
FlushRoute(t, n) == Start(t, "flush", n, "open")
ReadRoute(t, n) == Start(t, "read", n, "open")
DropRoute(t, n) == Start(t, "drop", n, "pop")

-----------------------------------------------------------------------------
(* create_collection and open_collection *)

\* A collection that exists is opened (exist_ok); otherwise it is made.
CreateExists(t) ==
  /\ thread[t].pc = "exists"
  /\ Goto(t, IF disk[thread[t].name].config # "none" THEN "open" ELSE "make")
  /\ UNCHANGED <<disk, registry, objects, history, crashes>>

OpenLookup(t) ==
  LET i == registry[thread[t].name] IN
    /\ thread[t].pc = "open"
    /\ thread' = [thread EXCEPT ![t].object = i, ![t].pc = IF i # 0 THEN "call" ELSE "config"]
    /\ UNCHANGED <<disk, registry, objects, history, crashes>>

\* No configuration is NotFoundError, one that is cut short does not parse.
OpenConfig(t) ==
  /\ thread[t].pc = "config"
  /\ IF disk[thread[t].name].config = "whole" THEN Goto(t, "construct") ELSE Return(t)
  /\ UNCHANGED <<disk, registry, objects, history, crashes>>

Openable(n) == disk[n].manifest \subseteq disk[n].files
Recovered(n) == disk[n].wal \cup UNION {s.docs : s \in disk[n].manifest}

\* Mutants: the records of the log are not put back into the memtable; the
\* tables are not rebuilt from the store.
ConstructedNoMemtable(n) ==
  [NoObject EXCEPT !.name = n, !.table = Recovered(n), !.segs = disk[n].manifest,
     !.writable = TRUE, !.linked = TRUE]
ConstructedEmptyTable(n) ==
  [NoObject EXCEPT !.name = n, !.segs = disk[n].manifest, !.writable = TRUE, !.linked = TRUE]
Constructed(n) ==
  [NoObject EXCEPT !.name = n, !.table = Recovered(n), !.mem = disk[n].wal,
     !.segs = disk[n].manifest, !.writable = TRUE, !.linked = TRUE]

\* Collection(): the directory is made if it is not there, and whatever is in
\* it is recovered; a manifest that names a missing segment raises.
Construct(t) ==
  LET n == thread[t].name  i == Cardinality(DOMAIN objects) + 1 IN
    /\ thread[t].pc \in {"make", "construct"} /\ i <= MaxObjects
    /\ disk' = [disk EXCEPT ![n].dir = TRUE]
    /\ IF Openable(n)
       THEN /\ objects' = [j \in 1..i |-> IF j = i THEN Constructed(n) ELSE objects[j]]
            /\ thread' = [thread EXCEPT ![t].object = i,
                 ![t].pc = IF @ = "make" THEN "truncate" ELSE "register"]
       ELSE Return(t) /\ UNCHANGED objects
    /\ UNCHANGED <<registry, history, crashes>>

\* _write_config: write_text opens the file, which empties it, and writes.
WriteConfig(t, from, value, to) ==
  LET n == thread[t].name IN
    /\ thread[t].pc = from
    /\ IF disk[n].dir
       THEN disk' = [disk EXCEPT ![n].config = value] /\ Goto(t, to)
       ELSE Return(t) /\ UNCHANGED disk
    /\ UNCHANGED <<registry, objects, history, crashes>>

ConfigTruncate(t) == WriteConfig(t, "truncate", "short", "write")
\* Mutant: the configuration is not written.
ConfigLeftShort(t) == WriteConfig(t, "write", "short", "register")
ConfigWrite(t) == WriteConfig(t, "write", "whole", "register")

Register(t) ==
  /\ thread[t].pc = "register"
  /\ registry' = [registry EXCEPT ![thread[t].name] = thread[t].object]
  /\ Goto(t, "call")
  /\ UNCHANGED <<disk, objects, history, crashes>>

-----------------------------------------------------------------------------
(* What a route does with the object *)

CallRead(t) ==
  /\ thread[t].pc = "call" /\ thread[t].op \in {"create", "read"}
  /\ created' = created \cup (IF thread[t].op = "create" THEN {thread[t].name} ELSE {})
  /\ Return(t)
  /\ UNCHANGED <<disk, registry, objects, acked, written, crashes>>

\* upsert_many: the record is logged, the checkpoint writes the manifest.  A
\* closed handle raises.  The records of a log that is no longer in the
\* directory are gone with it.
CallUpsert(t, d) ==
  LET n == thread[t].name  i == thread[t].object IN
    /\ thread[t].pc = "call" /\ thread[t].op = "upsert"
    /\ IF objects[i].writable /\ disk[n].dir
       THEN /\ disk' = [disk EXCEPT ![n].manifest = objects[i].segs,
                          ![n].wal = IF objects[i].linked THEN @ \cup {d} ELSE @]
            /\ objects' = [objects EXCEPT ![i].table = @ \cup {d}, ![i].mem = @ \cup {d}]
            /\ acked' = [acked EXCEPT ![n] = @ \cup {d}]
            /\ written' = [written EXCEPT ![n] = @ \cup {d}]
       ELSE UNCHANGED <<disk, objects, acked, written>>
    /\ Return(t)
    /\ UNCHANGED <<registry, created, crashes>>

\* flush: a segment of the memtable, the manifest, a new log, whose handle is
\* open again even if the object was closed.
CallFlush(t) ==
  LET n == thread[t].name  i == thread[t].object
      seg == [by |-> i, docs |-> objects[i].mem] IN
    /\ thread[t].pc = "call" /\ thread[t].op = "flush"
    /\ IF objects[i].mem # {} /\ disk[n].dir
       THEN /\ disk' = [disk EXCEPT ![n].files = @ \cup {seg},
                          ![n].manifest = objects[i].segs \cup {seg}, ![n].wal = {}]
            /\ objects' = [objects EXCEPT ![i].segs = @ \cup {seg}, ![i].mem = {},
                             ![i].writable = TRUE, ![i].linked = TRUE]
       ELSE UNCHANGED <<disk, objects>>
    /\ Return(t)
    /\ UNCHANGED <<registry, history, crashes>>

-----------------------------------------------------------------------------
(* drop_collection *)

\* The caller gives up the collection when the call starts to have an effect.
GiveUp(n) ==
  created' = created \ {n} /\ acked' = [acked EXCEPT ![n] = {}] /\ UNCHANGED written

DropPop(t) ==
  LET n == thread[t].name IN
    /\ thread[t].pc = "pop"
    /\ registry' = [registry EXCEPT ![n] = 0]
    /\ thread' = [thread EXCEPT ![t].object = registry[n],
         ![t].pc = IF registry[n] = 0 THEN "remove" ELSE "close"]
    /\ GiveUp(n)
    /\ UNCHANGED <<disk, objects, crashes>>

\* close: the manifest is written, which raises without a directory, and the
\* handle of the log is closed.
DropClose(t) ==
  LET n == thread[t].name  i == thread[t].object IN
    /\ thread[t].pc = "close"
    /\ IF disk[n].dir
       THEN /\ disk' = [disk EXCEPT ![n].manifest = objects[i].segs]
            /\ objects' = [objects EXCEPT ![i].writable = FALSE]
            /\ Goto(t, "remove")
       ELSE Return(t) /\ UNCHANGED <<disk, objects>>
    /\ UNCHANGED <<registry, history, crashes>>

Unlink(n) ==
  objects' = [i \in DOMAIN objects |->
    IF objects[i].name = n THEN [objects[i] EXCEPT !.linked = FALSE] ELSE objects[i]]

\* rmtree: the files one after the other, in the order the directory lists them.
RemoveFile(t) ==
  LET n == thread[t].name IN
    /\ thread[t].pc = "remove" /\ disk[n].dir
    /\ \/ disk[n].config # "none" /\ disk' = [disk EXCEPT ![n].config = "none"]
          /\ UNCHANGED objects
       \/ disk[n].wal # {} /\ disk' = [disk EXCEPT ![n].wal = {}] /\ Unlink(n)
       \/ disk[n].manifest # {} /\ disk' = [disk EXCEPT ![n].manifest = {}]
          /\ UNCHANGED objects
       \/ \E s \in disk[n].files : disk' = [disk EXCEPT ![n].files = @ \ {s}]
          /\ UNCHANGED objects
    /\ UNCHANGED <<registry, thread, history, crashes>>

\* Mutant: the directory counts as removed while its log is still there.
RemoveDirKeepingLog(t) ==
  LET n == thread[t].name IN
    /\ thread[t].pc = "remove"
    /\ disk[n].config = "none" /\ disk[n].files = {} /\ disk[n].manifest = {}
    /\ disk' = [disk EXCEPT ![n].dir = FALSE]
    /\ Unlink(n)
    /\ written' = [written EXCEPT ![n] = {}]
    /\ Return(t)
    /\ UNCHANGED <<registry, created, acked, crashes>>

\* The directory itself; NotFoundError if there was none.
RemoveDir(t) ==
  LET n == thread[t].name IN
    /\ thread[t].pc = "remove"
    /\ disk[n] \in {NoDirectory, [NoDirectory EXCEPT !.dir = TRUE]}
    /\ disk' = [disk EXCEPT ![n] = NoDirectory]
    /\ Unlink(n)
    /\ written' = [written EXCEPT ![n] = {}]
    /\ Return(t)
    /\ UNCHANGED <<registry, created, acked, crashes>>

-----------------------------------------------------------------------------
LoseMemory ==
  /\ crashes < MaxCrashes /\ crashes' = crashes + 1
  /\ registry' = [n \in Names |-> 0]
  /\ objects' = [i \in DOMAIN objects |-> NoObject]
  /\ thread' = [t \in Threads |-> Rest]

\* The process dies in the middle of any calls; another one takes over.
Crash == LoseMemory /\ UNCHANGED <<disk, history>>

\* Database.close, with no call running: every object writes its manifest.
CloseAll ==
  /\ \A t \in Threads : thread[t].pc = "idle"
  /\ disk' = [n \in Names |-> IF registry[n] = 0 \/ ~disk[n].dir THEN disk[n]
       ELSE [disk[n] EXCEPT !.manifest = objects[registry[n]].segs]]
  /\ LoseMemory
  /\ UNCHANGED history

OpenStep(t) ==
  \/ CreateExists(t) \/ OpenLookup(t) \/ OpenConfig(t) \/ Construct(t)
  \/ ConfigTruncate(t) \/ ConfigWrite(t) \/ Register(t)
CallStep(t) == CallRead(t) \/ CallFlush(t) \/ \E d \in Docs : CallUpsert(t, d)
DropStep(t) == DropPop(t) \/ DropClose(t) \/ RemoveFile(t) \/ RemoveDir(t)

Next ==
  \/ \E t \in Threads, n \in Names :
       \/ CreateRoute(t, n) \/ UpsertRoute(t, n) \/ FlushRoute(t, n)
       \/ ReadRoute(t, n) \/ DropRoute(t, n)
  \/ \E t \in Threads : OpenStep(t) \/ CallStep(t) \/ DropStep(t)
  \/ Crash \/ CloseAll

Spec == Init /\ [][Next]_vars

-----------------------------------------------------------------------------
(* Properties *)

\* A collection whose creation was acknowledged, and which nobody has begun to
\* drop, can be opened by any later process: its configuration is whole and the
\* manifest names no missing segment.
CreatedOpens == \A n \in created : disk[n].config = "whole" /\ Openable(n)

\* "An acknowledged write is in the WAL; a crash at any point recovers to the
\* last acknowledged write": also for collections that are opened, flushed,
\* dropped and made again by several threads.
AckedSurvives ==
  \A n \in Names : acked[n] # {} =>
    disk[n].config = "whole" /\ Openable(n) /\ acked[n] \subseteq Recovered(n)

\* Every route that finds the collection in the registry sees every
\* acknowledged document: no second object of the directory took a write.
AckedReadable ==
  \A n \in Names : registry[n] # 0 => acked[n] \subseteq objects[registry[n]].table

\* No document comes back: a collection that was dropped to the end, and made
\* again under the same name, shows nothing that was written before.
NothingComesBack ==
  \A n \in Names : registry[n] # 0 => objects[registry[n]].table \subseteq written[n]
=============================================================================
