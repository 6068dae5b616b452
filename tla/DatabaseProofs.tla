--------------------------- MODULE DatabaseProofs ---------------------------
(***************************************************************************)
(* Proofs about Database, for any threads, collections and documents, with *)
(* crashes at any step: as long as nobody opens, creates or drops a        *)
(* collection while other calls on it run (~Overlaps), a collection that   *)
(* was created opens, an acknowledged document survives and is seen, and   *)
(* nothing that was dropped comes back.                                    *)
(***************************************************************************)
EXTENDS Database, FiniteSetTheorems, TLAPS

-----------------------------------------------------------------------------
(* The inductive invariant, in parts. *)

Segment == [by : Nat, docs : SUBSET Docs]
Segments == SUBSET Segment
Directory == [dir : BOOLEAN, config : {"none", "short", "whole"}, wal : SUBSET Docs,
              files : SUBSET Segment, manifest : SUBSET Segment]
Object == [name : Names \cup {""}, table : SUBSET Docs, mem : SUBSET Docs,
           segs : SUBSET Segment, writable : BOOLEAN, linked : BOOLEAN]
\* The steps of a call: that find the object, that make it, that drop it.
Finding == {"exists", "open", "call"}
Making == {"make", "config", "construct", "truncate", "write", "register"}
Dropping == {"pop", "close", "remove"}
Ids == Nat
Steps == {"idle"} \cup Finding \cup Making \cup Dropping
Call == [pc : Steps,
         op : {"", "create", "upsert", "flush", "read", "drop"},
         name : Names \cup {""}, object : Ids]

TypeInv ==
  /\ disk \in [Names -> Directory]
  /\ registry \in [Names -> Ids]
  /\ \E k \in Nat : objects \in [1..k -> Object]
  /\ thread \in [Threads -> Call]
  /\ created \subseteq Names
  /\ acked \in [Names -> SUBSET Docs] /\ written \in [Names -> SUBSET Docs]

\* Object i is the one of the directory n: they say the same.
Serves(i, n) ==
  /\ i \in DOMAIN objects /\ objects[i].name = n
  /\ objects[i].writable /\ objects[i].linked /\ disk[n].dir
  /\ objects[i].mem = disk[n].wal /\ objects[i].segs = disk[n].manifest
  /\ objects[i].table = Recovered(n) /\ Openable(n)

\* Nobody relies on the collection.
Forsaken(n) == n \notin created /\ acked[n] = {}

\* What is in a directory was written to it, and what was acknowledged is in
\* it; the object of the registry is the one of the directory.
NameInv(n) ==
  /\ Recovered(n) \subseteq written[n]
  /\ Forsaken(n) \/ (disk[n].config = "whole" /\ Openable(n) /\ acked[n] \subseteq Recovered(n))
  /\ registry[n] # 0 => disk[n].config = "whole" /\ Serves(registry[n], n)

\* A call that makes or drops the object of a collection is the only one on it.
ThreadInv(t) ==
  LET c == thread[t]  n == c.name IN
    /\ c.pc = "idle" <=> n = ""
    /\ c.pc \in Dropping <=> c.op = "drop"
    /\ c.pc \in Making \cup Dropping => RunningOn(n) = {t}
    /\ c.pc \in Finding => registry[n] # 0 \/ RunningOn(n) = {t}
    /\ c.pc \in Making \cup {"close", "remove"} => registry[n] = 0
    /\ c.pc = "call" => registry[n] # 0 /\ c.object = registry[n]
    /\ c.pc \in {"make", "truncate", "write", "close", "remove"} => Forsaken(n)
    /\ c.pc \in {"construct", "register"} => disk[n].config = "whole"
    /\ c.pc \in {"truncate", "write", "register", "close"} => Serves(c.object, n)

IndInv ==
  TypeInv /\ (\A n \in Names : NameInv(n)) /\ (\A t \in Threads : ThreadInv(t))
-----------------------------------------------------------------------------
(* Lemmas about the operators of the model. *)

LEMMA RecoveredTyped ==
  ASSUME TypeInv, NEW n \in Names PROVE Recovered(n) \in SUBSET Docs
<1>1. disk[n].wal \in SUBSET Docs /\ disk[n].manifest \in SUBSET Segment
  BY DEF TypeInv, Directory
<1>2. \A s \in disk[n].manifest : s.docs \in SUBSET Docs
  BY <1>1 DEF Segment
<1> QED BY <1>1, <1>2 DEF Recovered

\* What a restart of the directory gives.
LEMMA ConstructedIs ==
  ASSUME TypeInv, NEW n \in Names
  PROVE  /\ Constructed(n) \in Object
         /\ Constructed(n).name = n /\ Constructed(n).writable /\ Constructed(n).linked
         /\ Constructed(n).table = Recovered(n) /\ Constructed(n).mem = disk[n].wal
         /\ Constructed(n).segs = disk[n].manifest
<1>1. Recovered(n) \in SUBSET Docs
  BY RecoveredTyped
<1>2. disk[n].wal \in SUBSET Docs /\ disk[n].manifest \in SUBSET Segment
  BY DEF TypeInv, Directory
<1> DEFINE a == [NoObject EXCEPT !.name = n]
           b == [a EXCEPT !.table = Recovered(n)]
           c == [b EXCEPT !.mem = disk[n].wal]
           d == [c EXCEPT !.segs = disk[n].manifest]
           e == [d EXCEPT !.writable = TRUE]
<1>3. NoObject \in Object
  BY DEF NoObject, Object
<1>4. Constructed(n) = [e EXCEPT !.linked = TRUE]
  BY <1>3 DEF Constructed, Object
<1>5. a \in Object /\ a.name = n
  BY <1>3 DEF Object
<1> HIDE DEF a
<1>6. b \in Object /\ b.name = n /\ b.table = Recovered(n)
  BY <1>1, <1>5 DEF Object
<1> HIDE DEF b
<1>7. c \in Object /\ c.name = n /\ c.table = Recovered(n) /\ c.mem = disk[n].wal
  BY <1>2, <1>6 DEF Object
<1> HIDE DEF c
<1>8. /\ d \in Object /\ d.name = n /\ d.table = Recovered(n) /\ d.mem = disk[n].wal
      /\ d.segs = disk[n].manifest
  BY <1>2, <1>7 DEF Object
<1> HIDE DEF d
<1>9. /\ e \in Object /\ e.name = n /\ e.table = Recovered(n) /\ e.mem = disk[n].wal
      /\ e.segs = disk[n].manifest /\ e.writable
  BY <1>8 DEF Object
<1> HIDE DEF e
<1> QED BY <1>4, <1>9 DEF Object

\* A call that moves on with an object.
Holding(c, i, p) == [c EXCEPT !.object = i, !.pc = p]
LEMMA HoldingIs ==
  ASSUME NEW c \in Call, NEW i \in Ids, NEW p \in Steps
  PROVE  /\ Holding(c, i, p) \in Call /\ Holding(c, i, p).pc = p /\ Holding(c, i, p).object = i
         /\ Holding(c, i, p).op = c.op /\ Holding(c, i, p).name = c.name
<1> DEFINE z == [c EXCEPT !.object = i]
<1>1. z \in Call /\ z.op = c.op /\ z.name = c.name /\ z.object = i
  BY DEF Call
<1>2. Holding(c, i, p) = [z EXCEPT !.pc = p]
  BY DEF Call, Holding
<1> HIDE DEF z
<1> QED BY <1>1, <1>2 DEF Call

\* A record is logged by an object, and in its directory.
LogsObject(o, d) == [o EXCEPT !.table = @ \cup {d}, !.mem = @ \cup {d}]
LogsDirectory(x, segs, wal) == [x EXCEPT !.manifest = segs, !.wal = wal]
LEMMA LogsObjectIs ==
  ASSUME NEW o \in Object, NEW d \in Docs
  PROVE  /\ LogsObject(o, d) \in Object
         /\ LogsObject(o, d).table = o.table \cup {d} /\ LogsObject(o, d).mem = o.mem \cup {d}
         /\ LogsObject(o, d).name = o.name /\ LogsObject(o, d).segs = o.segs
         /\ LogsObject(o, d).writable = o.writable /\ LogsObject(o, d).linked = o.linked
<1> DEFINE z == [o EXCEPT !.table = @ \cup {d}]
<1>1. /\ z \in Object /\ z.table = o.table \cup {d} /\ z.mem = o.mem /\ z.name = o.name
      /\ z.segs = o.segs /\ z.writable = o.writable /\ z.linked = o.linked
  BY DEF Object
<1>2. LogsObject(o, d) = [z EXCEPT !.mem = @ \cup {d}]
  BY DEF Object, LogsObject
<1> HIDE DEF z
<1> QED BY <1>1, <1>2 DEF Object

LEMMA LogsDirectoryIs ==
  ASSUME NEW x \in Directory, NEW segs \in SUBSET Segment, NEW wal \in SUBSET Docs
  PROVE  /\ LogsDirectory(x, segs, wal) \in Directory
         /\ LogsDirectory(x, segs, wal).manifest = segs /\ LogsDirectory(x, segs, wal).wal = wal
         /\ LogsDirectory(x, segs, wal).dir = x.dir /\ LogsDirectory(x, segs, wal).config = x.config
         /\ LogsDirectory(x, segs, wal).files = x.files
<1> DEFINE z == [x EXCEPT !.manifest = segs]
<1>1. /\ z \in Directory /\ z.manifest = segs /\ z.dir = x.dir /\ z.config = x.config
      /\ z.files = x.files
  BY DEF Directory
<1>2. LogsDirectory(x, segs, wal) = [z EXCEPT !.wal = wal]
  BY DEF Directory, LogsDirectory
<1> HIDE DEF z
<1> QED BY <1>1, <1>2 DEF Directory

\* The memtable of an object is written to a segment seg.
FlushesObject(o, seg) ==
  [o EXCEPT !.segs = @ \cup {seg}, !.mem = {}, !.writable = TRUE, !.linked = TRUE]
FlushesDirectory(x, segs, seg) ==
  [x EXCEPT !.files = @ \cup {seg}, !.manifest = segs, !.wal = {}]
LEMMA FlushesObjectIs ==
  ASSUME NEW o \in Object, NEW seg \in Segment
  PROVE  /\ FlushesObject(o, seg) \in Object
         /\ FlushesObject(o, seg).table = o.table /\ FlushesObject(o, seg).mem = {}
         /\ FlushesObject(o, seg).name = o.name /\ FlushesObject(o, seg).segs = o.segs \cup {seg}
         /\ FlushesObject(o, seg).writable /\ FlushesObject(o, seg).linked
<1> DEFINE y == [o EXCEPT !.segs = @ \cup {seg}]
           z == [y EXCEPT !.mem = {}]
           w == [z EXCEPT !.writable = TRUE]
<1>1. FlushesObject(o, seg) = [w EXCEPT !.linked = TRUE]
  BY DEF Object, FlushesObject
<1>2. y \in Object /\ y.table = o.table /\ y.name = o.name /\ y.segs = o.segs \cup {seg}
  BY DEF Object
<1> HIDE DEF y
<1>3. z \in Object /\ z.table = o.table /\ z.name = o.name /\ z.segs = o.segs \cup {seg} /\ z.mem = {}
  BY <1>2 DEF Object
<1> HIDE DEF z
<1>4. /\ w \in Object /\ w.table = o.table /\ w.name = o.name /\ w.segs = o.segs \cup {seg}
      /\ w.mem = {} /\ w.writable
  BY <1>3 DEF Object
<1> HIDE DEF w
<1> QED BY <1>1, <1>4 DEF Object

LEMMA FlushesDirectoryIs ==
  ASSUME NEW x \in Directory, NEW segs \in Segments, NEW seg \in Segment
  PROVE  /\ FlushesDirectory(x, segs, seg) \in Directory
         /\ FlushesDirectory(x, segs, seg).files = x.files \cup {seg}
         /\ FlushesDirectory(x, segs, seg).manifest = segs
         /\ FlushesDirectory(x, segs, seg).wal = {}
         /\ FlushesDirectory(x, segs, seg).dir = x.dir
         /\ FlushesDirectory(x, segs, seg).config = x.config
<1> DEFINE y == [x EXCEPT !.files = @ \cup {seg}]
           z == [y EXCEPT !.manifest = segs]
<1>1. FlushesDirectory(x, segs, seg) = [z EXCEPT !.wal = {}]
  BY DEF Directory, FlushesDirectory
<1>2. y \in Directory /\ y.files = x.files \cup {seg} /\ y.dir = x.dir /\ y.config = x.config
  BY DEF Directory
<1> HIDE DEF y
<1>3. /\ z \in Directory /\ z.files = x.files \cup {seg} /\ z.dir = x.dir /\ z.config = x.config
      /\ z.manifest = segs
  BY <1>2 DEF Directory, Segments
<1> HIDE DEF z
<1> QED BY <1>1, <1>3 DEF Directory

-----------------------------------------------------------------------------
(* What the steps have in common. *)

\* A call that finds the object in the registry runs next to others like it,
\* or alone.
LEMMA Company ==
  ASSUME IndInv, NEW t \in Threads, thread[t].pc # "idle"
  PROVE  /\ thread[t].name \in Names /\ t \in RunningOn(thread[t].name)
         /\ \/ RunningOn(thread[t].name) = {t}
            \/ /\ registry[thread[t].name] # 0 /\ thread[t].pc \in Finding
               /\ \A u \in RunningOn(thread[t].name) : thread[u].pc \in Finding
<1> DEFINE n == thread[t].name
<1>1. n \in Names /\ t \in RunningOn(n)
  BY DEF IndInv, TypeInv, Call, ThreadInv, RunningOn
<1>2. ASSUME NEW u \in RunningOn(n) PROVE thread[u].pc \in Finding \/ RunningOn(n) = {u}
  <2>1. u \in Threads /\ thread[u].name = n /\ n # ""
    BY <1>1, DatabaseAssumption DEF RunningOn
  <2>2. thread[u].pc # "idle" /\ thread[u].pc \in Steps
    BY <2>1 DEF IndInv, TypeInv, Call, ThreadInv
  <2> QED BY <2>1, <2>2 DEF IndInv, ThreadInv, Steps
<1>3. CASE RunningOn(n) = {t}
  BY <1>1, <1>3
<1>4. CASE RunningOn(n) # {t}
  <2>1. \A u \in RunningOn(n) : thread[u].pc \in Finding
    BY <1>1, <1>2, <1>4
  <2>2. registry[n] # 0
    BY <1>1, <1>4, <2>1 DEF IndInv, ThreadInv
  <2> QED BY <1>1, <2>1, <2>2
<1> QED BY <1>3, <1>4

\* A step of a call t on n leaves the other collections and their calls alone.
\* The other calls on n, if there are any, only look for the object.
LEMMA Frame ==
  ASSUME IndInv, NEW n \in Names, NEW t \in Threads,
         thread[t].name \in {n, ""}, thread'[t].name \in {n, ""},
         \A u \in Threads : u # t => thread'[u] = thread[u],
         \A m \in Names : m # n =>
           /\ disk'[m] = disk[m] /\ registry'[m] = registry[m] /\ acked'[m] = acked[m]
           /\ written'[m] = written[m] /\ (m \in created' <=> m \in created),
         \A i \in DOMAIN objects :
           i \in DOMAIN objects' /\ (objects[i].name # n => objects'[i] = objects[i]),
         \/ \A u \in RunningOn(n) : u = t
         \/ /\ registry[n] # 0 /\ registry'[n] = registry[n]
            /\ \A u \in RunningOn(n) : u = t \/ thread[u].pc \in Finding,
         TypeInv', NameInv(n)', ThreadInv(t)'
  PROVE  IndInv'
<1>1. ASSUME NEW m \in Names, m # n, NEW i, Serves(i, m) PROVE Serves(i, m)'
  BY <1>1 DEF Serves, Recovered, Openable
<1>2. ASSUME NEW m \in Names PROVE NameInv(m)'
  <2>1. CASE m = n
    BY <2>1
  <2>2. CASE m # n
    <3>1. NameInv(m)
      BY DEF IndInv
    <3>2. registry'[m] = registry[m] /\ (Serves(registry[m], m) => Serves(registry[m], m)')
      BY <1>1, <2>2
    <3> QED BY <2>2, <3>1, <3>2 DEF NameInv, Recovered, Openable, Forsaken
  <2> QED BY <2>1, <2>2
<1>3. ASSUME NEW u \in Threads PROVE ThreadInv(u)'
  <2> DEFINE m == thread[u].name
  <2>1. ThreadInv(u) /\ thread[u] \in Call /\ m \in Names \cup {""}
    BY DEF IndInv, TypeInv, Call
  <2>2. CASE u = t
    BY <2>2
  <2>3. CASE u # t /\ m = ""
    BY <2>1, <2>3 DEF ThreadInv, Finding, Making, Dropping
  <2>4. CASE u # t /\ m = n
    <3>1. u \in RunningOn(n)
      BY <2>4 DEF RunningOn
    <3>2. thread[u].pc \in Finding /\ registry[n] # 0 /\ registry'[n] = registry[n]
      BY <2>4, <3>1
    <3>3. thread'[u] = thread[u]
      BY <2>4
    <3>4. /\ thread[u].pc # "idle" /\ thread[u].pc \notin Dropping /\ thread[u].pc \notin Making
          /\ thread[u].pc \notin {"close", "remove", "make", "truncate", "write",
                                  "construct", "register"}
      BY <3>2 DEF Finding, Making, Dropping
    <3>5. /\ thread[u].op # "drop" /\ m # ""
          /\ thread[u].pc = "call" => thread[u].object = registry[n]
      BY <2>1, <2>4, <3>4 DEF ThreadInv
    <3> QED BY <2>4, <3>2, <3>3, <3>4, <3>5 DEF ThreadInv
  <2>5. CASE u # t /\ m # n /\ m \in Names
    <3>1. RunningOn(m)' = RunningOn(m)
      BY <2>5, DatabaseAssumption DEF RunningOn
    <3>2. thread'[u] = thread[u] /\ registry'[m] = registry[m] /\ disk'[m] = disk[m]
          /\ (Forsaken(m) => Forsaken(m)')
      BY <2>5 DEF Forsaken
    <3>3. Serves(thread[u].object, m) => Serves(thread[u].object, m)'
      BY <1>1, <2>5, <3>2
    <3> QED BY <2>1, <2>5, <3>1, <3>2, <3>3 DEF ThreadInv
  <2> QED BY <2>1, <2>2, <2>3, <2>4, <2>5
<1> QED BY <1>2, <1>3 DEF IndInv
LEMMA RestCall == Rest \in Call /\ Rest.pc = "idle" /\ Rest.name = "" /\ Rest.op = ""
BY DEF Rest, Call, Steps, Ids

\* A call that has returned.
LEMMA Returned ==
  ASSUME NEW t \in Threads, thread'[t] = Rest PROVE ThreadInv(t)'
BY RestCall DEF ThreadInv, Finding, Making, Dropping

\* The object that serves a directory does so as long as both stay the same.
LEMMA ServesKept ==
  ASSUME NEW n \in Names, NEW i, Serves(i, n), UNCHANGED disk, i \in DOMAIN objects',
         objects'[i] = objects[i]
  PROVE  Serves(i, n)'
BY DEF Serves, Recovered, Openable

\* A step that changes nothing but where its call is.
LEMMA CallMoves ==
  ASSUME IndInv, NEW t \in Threads, NEW n \in Names, NEW c \in Call,
         thread[t].name \in {n, ""}, c.name \in {n, ""}, thread' = [thread EXCEPT ![t] = c],
         UNCHANGED <<disk, registry, objects, created, acked, written>>,
         \/ \A u \in RunningOn(n) : u = t
         \/ /\ registry[n] # 0
            /\ \A u \in RunningOn(n) : u = t \/ thread[u].pc \in Finding,
         ThreadInv(t)'
  PROVE  IndInv'
<1>1. TypeInv'
  BY DEF IndInv, TypeInv
<1>2. thread'[t] = c /\ \A u \in Threads : u # t => thread'[u] = thread[u]
  BY DEF IndInv, TypeInv
<1>3. NameInv(n)'
  <2>1. NameInv(n)
    BY DEF IndInv
  <2> QED BY <2>1 DEF NameInv, Recovered, Openable, Forsaken, Serves
<1> QED BY <1>1, <1>2, <1>3, Frame

\* The calls running on the name of a call t, and its own, in the words of Frame.
LEMMA CompanyOf ==
  ASSUME IndInv, NEW t \in Threads, thread[t].pc # "idle"
  PROVE  /\ thread[t].name \in Names /\ thread[t] \in Call /\ thread[t].name # ""
         /\ \/ \A u \in RunningOn(thread[t].name) : u = t
            \/ /\ registry[thread[t].name] # 0
               /\ \A u \in RunningOn(thread[t].name) : u = t \/ thread[u].pc \in Finding
         /\ thread[t].pc \notin Finding => RunningOn(thread[t].name) = {t}
         /\ NameInv(thread[t].name) /\ ThreadInv(t)
<1>1. thread[t].name \in Names
  BY Company
<1>2. thread[t] \in Call /\ ThreadInv(t) /\ NameInv(thread[t].name)
  BY <1>1 DEF IndInv, TypeInv
<1> QED BY <1>1, <1>2, Company, DatabaseAssumption

-----------------------------------------------------------------------------
(* The steps. *)

LEMMA StartInv ==
  ASSUME IndInv, ~Overlaps, NEW t \in Threads, NEW n \in Names,
         NEW op \in {"create", "upsert", "flush", "read", "drop"}, NEW p,
         p = IF op = "create" THEN "exists" ELSE IF op = "drop" THEN "pop" ELSE "open",
         Start(t, op, n, p)
  PROVE  IndInv'
<1> DEFINE c == [pc |-> p, op |-> op, name |-> n, object |-> 0]
<1>1. /\ thread[t].pc = "idle" /\ MayStart(op, n) /\ thread' = [thread EXCEPT ![t] = c]
      /\ UNCHANGED <<disk, registry, objects, created, acked, written>>
  BY DEF Start, history
<1>2. p \in Finding \cup {"pop"} /\ (p = "pop" <=> op = "drop")
  BY DEF Finding
<1>3. c \in Call /\ c.name = n /\ c.pc = p /\ c.op = op
  BY <1>2 DEF Call, Dropping, Steps, Ids
<1> HIDE DEF c
<1>4. thread[t].name = "" /\ n # "" /\ thread'[t] = c
  BY <1>1, DatabaseAssumption DEF IndInv, ThreadInv, TypeInv
<1>5. \/ RunningOn(n) = {}
      \/ /\ op # "drop" /\ registry[n] # 0
         /\ \A u \in RunningOn(n) : thread[u].pc \in Finding
  <2>1. CASE RunningOn(n) = {}
    BY <2>1
  <2>2. CASE op # "drop" /\ registry[n] # 0 /\ \A u \in RunningOn(n) : thread[u].op # "drop"
    <3>1. ASSUME NEW u \in RunningOn(n) PROVE thread[u].pc \in Finding
      <4>1. u \in Threads /\ thread[u].name = n /\ thread[u] \in Call
        BY DEF RunningOn, IndInv, TypeInv
      <4>2. thread[u].pc # "idle" /\ thread[u].pc \notin Dropping /\ thread[u].pc \notin Making
        BY <1>4, <2>2, <4>1 DEF IndInv, ThreadInv
      <4> QED BY <4>1, <4>2 DEF Call, Steps
    <3> QED BY <2>2, <3>1
  <2> QED BY <1>1, <2>1, <2>2 DEF MayStart
<1>6. \A u \in Threads : u # t => thread'[u] = thread[u]
  BY <1>1 DEF IndInv, TypeInv
<1>7. RunningOn(n)' = RunningOn(n) \cup {t}
  BY <1>3, <1>4, <1>6 DEF RunningOn
<1>8. ThreadInv(t)'
  <2>1. registry'[n] # 0 \/ RunningOn(n)' = {t}
    BY <1>1, <1>5, <1>7
  <2>2. p = "pop" => RunningOn(n)' = {t}
    BY <1>2, <1>5, <1>7
  <2>3. p # "call"
    OBVIOUS
  <2> QED BY <1>2, <1>3, <1>4, <2>1, <2>2, <2>3 DEF ThreadInv, Finding, Making, Dropping
<1> QED BY <1>1, <1>3, <1>4, <1>5, <1>8, CallMoves

\* A call that returns, or raises, having changed nothing.
LEMMA ReturnInv ==
  ASSUME IndInv, NEW t \in Threads, thread[t].pc # "idle", Return(t),
         UNCHANGED <<disk, registry, objects, created, acked, written>>
  PROVE  IndInv'
<1>1. thread'[t] = Rest
  BY DEF Return, IndInv, TypeInv
<1> QED BY <1>1, Returned, RestCall, CompanyOf, CallMoves DEF Return

LEMMA CreateExistsInv == ASSUME IndInv, NEW t \in Threads, CreateExists(t) PROVE IndInv'
<1> DEFINE n == thread[t].name
           p == IF disk[n].config # "none" THEN "open" ELSE "make"
           c == [thread[t] EXCEPT !.pc = p]
<1>1. /\ thread[t].pc = "exists" /\ thread' = [thread EXCEPT ![t] = c]
      /\ UNCHANGED <<disk, registry, objects, created, acked, written>>
  BY DEF CreateExists, Goto, history, IndInv, TypeInv
<1>2. /\ n \in Names /\ thread[t] \in Call /\ NameInv(n) /\ ThreadInv(t) /\ n # ""
      /\ \/ \A u \in RunningOn(n) : u = t
         \/ registry[n] # 0 /\ \A u \in RunningOn(n) : u = t \/ thread[u].pc \in Finding
  BY <1>1, CompanyOf
<1>3. c \in Call /\ c.name = n /\ c.pc = p /\ c.op = thread[t].op
  BY <1>2 DEF Call, Finding, Making, Steps
<1> HIDE DEF c
<1>4. thread'[t] = c /\ \A u \in Threads : thread'[u].name = thread[u].name
  BY <1>1, <1>3 DEF IndInv, TypeInv
<1>5. RunningOn(n)' = RunningOn(n)
  BY <1>3, <1>4 DEF RunningOn
<1>6. CASE disk[n].config # "none"
  <2>1. ThreadInv(t)'
    BY <1>1, <1>2, <1>3, <1>4, <1>5, <1>6 DEF ThreadInv, Finding, Making, Dropping
  <2> QED BY <1>1, <1>2, <1>3, <2>1, CallMoves
<1>7. CASE disk[n].config = "none"
  <2>1. /\ registry[n] = 0 /\ RunningOn(n) = {t} /\ p = "make"
        /\ n \notin created' /\ acked'[n] = {}
    BY <1>1, <1>2, <1>7 DEF NameInv, ThreadInv, Finding, Forsaken
  <2>2. ThreadInv(t)'
    BY <1>1, <1>2, <1>3, <1>4, <1>5, <1>7, <2>1 DEF ThreadInv, Finding, Making, Dropping, Forsaken
  <2> QED BY <1>1, <1>2, <1>3, <2>2, CallMoves
<1> QED BY <1>6, <1>7

LEMMA OpenLookupInv == ASSUME IndInv, NEW t \in Threads, OpenLookup(t) PROVE IndInv'
<1> DEFINE n == thread[t].name
<1>1. /\ thread[t].pc = "open" /\ UNCHANGED <<disk, registry, objects, created, acked, written>>
  BY DEF OpenLookup, history
<1>2. /\ n \in Names /\ thread[t] \in Call /\ NameInv(n) /\ ThreadInv(t) /\ n # ""
      /\ \/ \A u \in RunningOn(n) : u = t
         \/ registry[n] # 0 /\ \A u \in RunningOn(n) : u = t \/ thread[u].pc \in Finding
  BY <1>1, CompanyOf
<1>3. PICK i \in Ids : i = registry[n]
  BY <1>2 DEF IndInv, TypeInv
<1>4. PICK p \in Steps : p = IF i # 0 THEN "call" ELSE "config"
  BY DEF Finding, Making, Steps
<1> DEFINE c == Holding(thread[t], i, p)
<1>5. thread' = [thread EXCEPT ![t] = c]
  BY <1>3, <1>4 DEF OpenLookup, Holding, IndInv, TypeInv
<1>6. c \in Call /\ c.name = n /\ c.pc = p /\ c.op = thread[t].op /\ c.object = i
  <2>1. thread[t] \in Call
    BY <1>2
  <2> QED BY <2>1, HoldingIs
<1> HIDE DEF c
<1>7. thread'[t] = c /\ \A u \in Threads : thread'[u].name = thread[u].name
  BY <1>5, <1>6 DEF IndInv, TypeInv
<1>8. RunningOn(n)' = RunningOn(n)
  BY <1>6, <1>7 DEF RunningOn
<1>9. ThreadInv(t)'
  BY <1>1, <1>2, <1>3, <1>4, <1>6, <1>7, <1>8 DEF ThreadInv, Finding, Making, Dropping
<1> QED BY <1>1, <1>2, <1>5, <1>6, <1>9, CallMoves

LEMMA OpenConfigInv == ASSUME IndInv, NEW t \in Threads, OpenConfig(t) PROVE IndInv'
<1> DEFINE n == thread[t].name
           c == [thread[t] EXCEPT !.pc = "construct"]
<1>1. /\ thread[t].pc = "config" /\ UNCHANGED <<disk, registry, objects, created, acked, written>>
  BY DEF OpenConfig, history
<1>2. CASE disk[n].config # "whole"
  BY <1>1, <1>2, ReturnInv DEF OpenConfig
<1>3. CASE disk[n].config = "whole"
  <2>1. thread' = [thread EXCEPT ![t] = c]
    BY <1>3 DEF OpenConfig, Goto, IndInv, TypeInv
  <2>2. /\ n \in Names /\ thread[t] \in Call /\ NameInv(n) /\ ThreadInv(t) /\ n # ""
        /\ RunningOn(n) = {t}
    BY <1>1, CompanyOf DEF Finding
  <2>3. c \in Call /\ c.name = n /\ c.pc = "construct" /\ c.op = thread[t].op
    BY <2>2 DEF Call, Making, Steps
  <2> HIDE DEF c
  <2>4. thread'[t] = c /\ \A u \in Threads : thread'[u].name = thread[u].name
    BY <2>1, <2>3 DEF IndInv, TypeInv
  <2>5. RunningOn(n)' = RunningOn(n)
    BY <2>3, <2>4 DEF RunningOn
  <2>6. ThreadInv(t)'
    BY <1>1, <1>3, <2>2, <2>3, <2>4, <2>5 DEF ThreadInv, Finding, Making, Dropping
  <2> QED BY <1>1, <2>1, <2>2, <2>3, <2>6, CallMoves
<1> QED BY <1>2, <1>3
\* A call that makes or drops the object of a collection, alone on it: it is
\* enough to look at that collection and that call.
LEMMA SoloStep ==
  ASSUME IndInv, NEW t \in Threads, NEW n \in Names, n = thread[t].name,
         RunningOn(n) = {t}, NEW c \in Call, c.name \in {n, ""},
         thread' = [thread EXCEPT ![t] = c],
         NEW x \in Directory, disk' = [disk EXCEPT ![n] = x],
         \A m \in Names : m # n =>
           /\ registry'[m] = registry[m] /\ acked'[m] = acked[m]
           /\ written'[m] = written[m] /\ (m \in created' <=> m \in created),
         \A i \in DOMAIN objects :
           i \in DOMAIN objects' /\ (objects[i].name # n => objects'[i] = objects[i]),
         TypeInv', NameInv(n)', ThreadInv(t)'
  PROVE  IndInv'
<1>1. thread'[t] = c /\ \A u \in Threads : u # t => thread'[u] = thread[u]
  BY DEF IndInv, TypeInv
<1>2. \A m \in Names : m # n => disk'[m] = disk[m]
  BY DEF IndInv, TypeInv
<1>3. /\ \A u \in RunningOn(n) : u = t
      /\ thread[t].name \in {n, ""} /\ thread'[t].name \in {n, ""}
  BY <1>1
<1>4. \A m \in Names : m # n =>
        /\ disk'[m] = disk[m] /\ registry'[m] = registry[m] /\ acked'[m] = acked[m]
        /\ written'[m] = written[m] /\ (m \in created' <=> m \in created)
  BY <1>2
<1> QED BY <1>1, <1>3, <1>4, Frame

\* The only call on n stays the only one.
LEMMA StillAlone ==
  ASSUME NEW t \in Threads, NEW n \in Names, thread[t].name = n, RunningOn(n) = {t},
         thread'[t].name = n, \A u \in Threads : u # t => thread'[u] = thread[u]
  PROVE  RunningOn(n)' = {t}
BY DEF RunningOn

\* Collection(): the new object serves the directory it was recovered from.
LEMMA ConstructInv == ASSUME IndInv, NEW t \in Threads, Construct(t) PROVE IndInv'
<1>1. PICK n \in Names : n = thread[t].name /\ n # ""
  BY CompanyOf DEF Construct
<1>2. /\ thread[t] \in Call /\ NameInv(n) /\ ThreadInv(t) /\ RunningOn(n) = {t}
      /\ thread[t].pc \in {"make", "construct"}
  BY <1>1, CompanyOf DEF Construct, Finding
<1>3. PICK k \in Nat : objects \in [1..k -> Object]
  BY DEF IndInv, TypeInv
<1>4. Cardinality(DOMAIN objects) + 1 = k + 1
  <2>1. Cardinality(1..k) = k
    BY <1>3, FS_Interval
  <2> QED BY <1>3, <2>1
<1> DEFINE x == [disk[n] EXCEPT !.dir = TRUE]
<1>5. disk' = [disk EXCEPT ![n] = x] /\ UNCHANGED <<registry, created, acked, written>>
  BY <1>1 DEF Construct, history, IndInv, TypeInv
<1>6. /\ x \in Directory /\ x.dir /\ x.config = disk[n].config /\ x.wal = disk[n].wal
      /\ x.files = disk[n].files /\ x.manifest = disk[n].manifest
  BY DEF IndInv, TypeInv, Directory
<1> HIDE DEF x
<1>7. disk'[n] = x /\ disk' \in [Names -> Directory]
  BY <1>5, <1>6 DEF IndInv, TypeInv
<1>8. Recovered(n)' = Recovered(n) /\ Openable(n)' = Openable(n)
  BY <1>6, <1>7 DEF Recovered, Openable
<1>9. registry[n] = 0
  BY <1>1, <1>2 DEF ThreadInv, Making
<1>10. NameInv(n)'
  BY <1>2, <1>5, <1>6, <1>7, <1>8, <1>9 DEF NameInv, Forsaken
<1>11. CASE ~Openable(n)
  <2>1. thread' = [thread EXCEPT ![t] = Rest] /\ UNCHANGED objects
    BY <1>1, <1>11 DEF Construct, Return
  <2>2. thread'[t] = Rest
    BY <2>1 DEF IndInv, TypeInv
  <2>3. TypeInv'
    BY <1>5, <1>7, <2>1, RestCall DEF IndInv, TypeInv
  <2>4. ThreadInv(t)'
    BY <2>2, Returned
  <2> QED BY <1>1, <1>2, <1>5, <1>6, <1>10, <2>1, <2>3, <2>4, RestCall, SoloStep
<1>12. CASE Openable(n)
  <2>1. PICK i \in Ids : i = k + 1
    BY DEF Ids
  <2>2. PICK p \in Steps : p = IF thread[t].pc = "make" THEN "truncate" ELSE "register"
    BY DEF Making, Steps
  <2> DEFINE c == Holding(thread[t], i, p)
  <2>3. thread' = [thread EXCEPT ![t] = c]
    BY <1>1, <1>4, <1>12, <2>1, <2>2 DEF Construct, Holding, IndInv, TypeInv
  <2>4. objects' = [j \in 1..i |-> IF j = i THEN Constructed(n) ELSE objects[j]]
    BY <1>1, <1>4, <1>12, <2>1 DEF Construct
  <2>5. c \in Call /\ c.name = n /\ c.pc = p /\ c.op = thread[t].op /\ c.object = i
    <3>1. thread[t] \in Call /\ thread[t].name = n
      BY <1>1, <1>2
    <3> QED BY <3>1, HoldingIs
  <2> HIDE DEF c
  <2>6. /\ Constructed(n) \in Object
        /\ Constructed(n).name = n /\ Constructed(n).writable /\ Constructed(n).linked
        /\ Constructed(n).table = Recovered(n) /\ Constructed(n).mem = disk[n].wal
        /\ Constructed(n).segs = disk[n].manifest
    BY ConstructedIs DEF IndInv
  <2>7. /\ objects' \in [1..i -> Object] /\ i \in DOMAIN objects' /\ objects'[i] = Constructed(n)
        /\ \A j \in DOMAIN objects : j \in DOMAIN objects' /\ objects'[j] = objects[j]
    BY <1>3, <2>1, <2>4, <2>6
  <2>8. thread'[t] = c /\ (\A u \in Threads : u # t => thread'[u] = thread[u])
        /\ thread' \in [Threads -> Call]
    BY <2>3, <2>5 DEF IndInv, TypeInv
  <2>9. RunningOn(n)' = {t}
    BY <1>1, <1>2, <2>5, <2>8, StillAlone
  <2>10. Serves(i, n)'
    BY <1>6, <1>7, <1>8, <1>12, <2>6, <2>7 DEF Serves
  <2>11. TypeInv'
    <3>1. i \in Nat
      BY <2>1
    <3> QED BY <1>5, <1>7, <2>7, <2>8, <3>1 DEF IndInv, TypeInv
  <2>12. ThreadInv(t)'
    <3>1. /\ thread'[t].pc \in {"truncate", "register"} /\ thread'[t].name = n
          /\ thread'[t].object = i /\ thread'[t].op # "drop" /\ registry'[n] = 0
      BY <1>2, <1>5, <1>9, <2>2, <2>5, <2>8 DEF ThreadInv, Dropping
    <3>2. thread'[t].pc = "truncate" => n \notin created' /\ acked'[n] = {}
      BY <1>1, <1>2, <1>5, <2>2, <2>5, <2>8 DEF ThreadInv, Forsaken
    <3>3. thread'[t].pc = "register" => disk'[n].config = "whole"
      BY <1>1, <1>2, <1>6, <1>7, <2>2, <2>5, <2>8 DEF ThreadInv
    <3> QED BY <1>1, <2>9, <2>10, <3>1, <3>2, <3>3
            DEF ThreadInv, Finding, Making, Dropping, Forsaken
  <2> QED BY <1>1, <1>2, <1>5, <1>6, <1>10, <2>3, <2>5, <2>7, <2>11, <2>12, SoloStep
<1> QED BY <1>11, <1>12

\* _write_config, its two steps.
LEMMA WriteConfigInv ==
  ASSUME IndInv, NEW t \in Threads, ConfigTruncate(t) \/ ConfigWrite(t)
  PROVE  IndInv'
<1>1. PICK v \in {"short", "whole"}, p \in {"write", "register"} :
        /\ thread[t].pc \in {"truncate", "write"} /\ (p = "register" => v = "whole")
        /\ WriteConfig(t, thread[t].pc, v, p)
  BY DEF ConfigTruncate, ConfigWrite, WriteConfig
<1>2. PICK n \in Names : n = thread[t].name /\ n # ""
  BY <1>1, CompanyOf
<1>3. thread[t] \in Call /\ NameInv(n) /\ ThreadInv(t) /\ RunningOn(n) = {t}
  BY <1>1, <1>2, CompanyOf DEF Finding
<1>4. registry[n] = 0 /\ Forsaken(n) /\ Serves(thread[t].object, n) /\ thread[t].op # "drop"
  BY <1>1, <1>2, <1>3 DEF ThreadInv, Making, Dropping
<1> DEFINE x == [disk[n] EXCEPT !.config = v]
           c == [thread[t] EXCEPT !.pc = p]
<1>5. /\ disk' = [disk EXCEPT ![n] = x] /\ thread' = [thread EXCEPT ![t] = c]
      /\ UNCHANGED <<registry, objects, created, acked, written>>
  BY <1>1, <1>2, <1>4 DEF WriteConfig, Goto, Serves, history, IndInv, TypeInv
<1>6. /\ x \in Directory /\ x.dir = disk[n].dir /\ x.config = v /\ x.wal = disk[n].wal
      /\ x.files = disk[n].files /\ x.manifest = disk[n].manifest
  BY DEF IndInv, TypeInv, Directory
<1>7. c \in Call /\ c.name = n /\ c.pc = p /\ c.op = thread[t].op /\ c.object = thread[t].object
  BY <1>2, <1>3 DEF Call, Making, Steps
<1> HIDE DEF x, c
<1>8. /\ disk'[n] = x /\ disk' \in [Names -> Directory]
      /\ thread'[t] = c /\ (\A u \in Threads : u # t => thread'[u] = thread[u])
      /\ thread' \in [Threads -> Call]
  BY <1>5, <1>6, <1>7 DEF IndInv, TypeInv
<1>9. Recovered(n)' = Recovered(n) /\ Openable(n)' = Openable(n)
  BY <1>6, <1>8 DEF Recovered, Openable
<1>10. NameInv(n)'
  BY <1>3, <1>4, <1>5, <1>9 DEF NameInv, Forsaken
<1>11. RunningOn(n)' = {t}
  BY <1>2, <1>3, <1>7, <1>8, StillAlone
<1>12. \A i : Serves(i, n) => Serves(i, n)'
  BY <1>5, <1>6, <1>8, <1>9 DEF Serves
<1>13. TypeInv'
  BY <1>5, <1>8 DEF IndInv, TypeInv
<1>14. ThreadInv(t)'
  BY <1>1, <1>2, <1>4, <1>5, <1>6, <1>7, <1>8, <1>11, <1>12
     DEF ThreadInv, Finding, Making, Dropping, Forsaken
<1> QED BY <1>2, <1>3, <1>5, <1>6, <1>7, <1>10, <1>13, <1>14, SoloStep
\* The object is registered: from now on calls find it.
LEMMA RegisterInv == ASSUME IndInv, NEW t \in Threads, Register(t) PROVE IndInv'
<1>1. PICK n \in Names : n = thread[t].name /\ n # ""
  BY CompanyOf DEF Register
<1>2. /\ thread[t] \in Call /\ NameInv(n) /\ ThreadInv(t) /\ RunningOn(n) = {t}
      /\ thread[t].pc = "register"
  BY <1>1, CompanyOf DEF Register, Finding
<1>3. PICK i \in Ids : i = thread[t].object
  BY <1>2 DEF Call
<1>4. Serves(i, n) /\ disk[n].config = "whole" /\ thread[t].op # "drop"
  BY <1>1, <1>2, <1>3 DEF ThreadInv, Making, Dropping
<1>5. i # 0
  <2>1. PICK k \in Nat : objects \in [1..k -> Object]
    BY DEF IndInv, TypeInv
  <2> QED BY <1>4, <2>1 DEF Serves
<1> DEFINE c == [thread[t] EXCEPT !.pc = "call"]
<1>6. /\ thread' = [thread EXCEPT ![t] = c] /\ registry' = [registry EXCEPT ![n] = i]
      /\ UNCHANGED <<disk, objects, created, acked, written>>
  BY <1>1, <1>3 DEF Register, Goto, history, IndInv, TypeInv
<1>7. c \in Call /\ c.name = n /\ c.pc = "call" /\ c.op = thread[t].op /\ c.object = i
  BY <1>1, <1>2, <1>3 DEF Call, Finding, Steps
<1> HIDE DEF c
<1>8. /\ registry'[n] = i /\ (\A m \in Names : m # n => registry'[m] = registry[m])
      /\ thread'[t] = c /\ (\A u \in Threads : u # t => thread'[u] = thread[u])
      /\ TypeInv'
  BY <1>6, <1>7 DEF IndInv, TypeInv
<1>9. Serves(i, n)'
  BY <1>4, <1>6, ServesKept DEF Serves
<1>10. NameInv(n)'
  <2>1. Recovered(n)' = Recovered(n) /\ Openable(n)' = Openable(n) /\ Forsaken(n)' = Forsaken(n)
    BY <1>6 DEF Recovered, Openable, Forsaken
  <2> QED BY <1>2, <1>4, <1>6, <1>8, <1>9, <2>1 DEF NameInv
<1>11. ThreadInv(t)'
  BY <1>1, <1>4, <1>5, <1>7, <1>8 DEF ThreadInv, Finding, Making, Dropping
<1>12. \A u \in RunningOn(n) : u = t
  BY <1>2
<1> QED BY <1>1, <1>6, <1>7, <1>8, <1>10, <1>11, <1>12, Frame

\* A call that returns to its client has the object of the registry.
LEMMA CallFacts ==
  ASSUME IndInv, NEW t \in Threads, thread[t].pc = "call", NEW n \in Names, n = thread[t].name
  PROVE  /\ thread[t].object = registry[n] /\ registry[n] # 0
         /\ disk[n].config = "whole" /\ Serves(registry[n], n) /\ NameInv(n)
         /\ \/ \A u \in RunningOn(n) : u = t
            \/ /\ registry[n] # 0
               /\ \A u \in RunningOn(n) : u = t \/ thread[u].pc \in Finding
<1>1. ThreadInv(t) /\ NameInv(n)
  BY DEF IndInv
<1>2. thread[t].object = registry[n] /\ registry[n] # 0
  BY <1>1 DEF ThreadInv
<1> QED BY <1>1, <1>2, CompanyOf DEF NameInv

\* The answer to create_collection, or what a read returns.
LEMMA CallReadInv == ASSUME IndInv, NEW t \in Threads, CallRead(t) PROVE IndInv'
<1>1. PICK n \in Names : n = thread[t].name /\ n # ""
  BY CompanyOf DEF CallRead
<1>2. /\ registry[n] # 0 /\ disk[n].config = "whole" /\ Serves(registry[n], n) /\ NameInv(n)
      /\ \/ \A u \in RunningOn(n) : u = t
         \/ registry[n] # 0 /\ \A u \in RunningOn(n) : u = t \/ thread[u].pc \in Finding
  BY <1>1, CallFacts DEF CallRead
<1>3. /\ thread' = [thread EXCEPT ![t] = Rest] /\ UNCHANGED <<disk, registry, objects, acked, written>>
      /\ created \subseteq created' /\ created' \subseteq created \cup {n}
  BY <1>1 DEF CallRead, Return
<1>4. /\ thread'[t] = Rest /\ (\A u \in Threads : u # t => thread'[u] = thread[u])
      /\ TypeInv'
  BY <1>3, RestCall DEF IndInv, TypeInv
<1>5. NameInv(n)'
  <2>1. Recovered(n)' = Recovered(n) /\ Openable(n)' = Openable(n) /\ Openable(n)
    BY <1>2, <1>3 DEF Recovered, Openable, Serves
  <2>2. acked[n] \subseteq Recovered(n)
    BY <1>2 DEF NameInv, Forsaken
  <2>3. Serves(registry[n], n)'
    BY <1>2, <1>3 DEF Serves, Recovered, Openable
  <2> QED BY <1>2, <1>3, <2>1, <2>2, <2>3 DEF NameInv
<1>6. ThreadInv(t)'
  BY <1>4, Returned
<1>7. thread[t].name \in {n, ""} /\ thread'[t].name \in {n, ""}
  BY <1>1, <1>4, RestCall
<1>8. \A m \in Names : m # n => (m \in created' <=> m \in created)
  BY <1>3
<1> QED BY <1>2, <1>3, <1>4, <1>5, <1>6, <1>7, <1>8, Frame
\* A step of a call that has the object i of the registry and changes object
\* and directory together.
LEMMA CallStepInv ==
  ASSUME IndInv, NEW t \in Threads, thread[t].pc = "call", NEW n \in Names, n = thread[t].name,
         n # "", NEW i \in DOMAIN objects, i = registry[n],
         NEW x \in Directory, NEW o \in Object,
         disk' = [disk EXCEPT ![n] = x], objects' = [objects EXCEPT ![i] = o],
         thread' = [thread EXCEPT ![t] = Rest], UNCHANGED <<registry, created>>,
         acked' \in [Names -> SUBSET Docs], written' \in [Names -> SUBSET Docs],
         \A m \in Names : m # n => acked'[m] = acked[m] /\ written'[m] = written[m],
         x.config = disk[n].config, Serves(i, n)',
         acked'[n] \subseteq Recovered(n)', Recovered(n)' \subseteq written'[n]
  PROVE  IndInv'
<1>1. /\ registry[n] # 0 /\ disk[n].config = "whole" /\ Serves(i, n) /\ NameInv(n)
      /\ \/ \A u \in RunningOn(n) : u = t
         \/ registry[n] # 0 /\ \A u \in RunningOn(n) : u = t \/ thread[u].pc \in Finding
  BY CallFacts
<1>2. PICK k \in Nat : objects \in [1..k -> Object]
  BY DEF IndInv, TypeInv
<1>3. /\ objects' \in [1..k -> Object] /\ DOMAIN objects' = DOMAIN objects
      /\ \A j \in DOMAIN objects : j # i => objects'[j] = objects[j]
  BY <1>2
<1>4. /\ disk' \in [Names -> Directory] /\ disk'[n] = x
      /\ \A m \in Names : m # n => disk'[m] = disk[m]
  BY DEF IndInv, TypeInv
<1>5. /\ thread' \in [Threads -> Call] /\ thread'[t] = Rest
      /\ \A u \in Threads : u # t => thread'[u] = thread[u]
  BY RestCall DEF IndInv, TypeInv
<1>6. TypeInv'
  BY <1>2, <1>3, <1>4, <1>5 DEF IndInv, TypeInv
<1>7. NameInv(n)'
  BY <1>1, <1>4 DEF NameInv, Serves
<1>8. ThreadInv(t)'
  BY <1>5, Returned
<1>9. thread[t].name \in {n, ""} /\ thread'[t].name \in {n, ""}
  BY <1>5, RestCall
<1>10. \A j \in DOMAIN objects :
         j \in DOMAIN objects' /\ (objects[j].name # n => objects'[j] = objects[j])
  BY <1>1, <1>3 DEF Serves
<1>11. \A m \in Names : m # n =>
         /\ disk'[m] = disk[m] /\ registry'[m] = registry[m] /\ acked'[m] = acked[m]
         /\ written'[m] = written[m] /\ (m \in created' <=> m \in created)
  BY <1>4
<1> QED BY <1>1, <1>5, <1>6, <1>7, <1>8, <1>9, <1>10, <1>11, Frame

\* upsert_many: the record is in the log of the directory when it is acknowledged.
LEMMA CallUpsertInv ==
  ASSUME IndInv, NEW t \in Threads, NEW d \in Docs, CallUpsert(t, d) PROVE IndInv'
<1>1. PICK n \in Names : n = thread[t].name /\ n # "" /\ thread[t].pc = "call"
  BY CompanyOf DEF CallUpsert
<1>2. PICK i \in DOMAIN objects : i = registry[n] /\ i = thread[t].object /\ Serves(i, n)
  BY <1>1, CallFacts DEF Serves
<1>3. NameInv(n) /\ objects[i] \in Object /\ disk[n] \in Directory
  BY DEF IndInv, TypeInv
<1> DEFINE W == disk[n].wal \cup {d}
           x == LogsDirectory(disk[n], objects[i].segs, W)
           o == LogsObject(objects[i], d)
<1>4. objects[i].writable /\ objects[i].linked /\ disk[n].dir
  BY <1>2 DEF Serves
<1>5. /\ disk' = [disk EXCEPT ![n] = x] /\ objects' = [objects EXCEPT ![i] = o]
      /\ thread' = [thread EXCEPT ![t] = Rest] /\ UNCHANGED <<registry, created>>
      /\ acked' = [acked EXCEPT ![n] = @ \cup {d}] /\ written' = [written EXCEPT ![n] = @ \cup {d}]
  <2>1. /\ disk' = [disk EXCEPT ![n].manifest = objects[i].segs, ![n].wal = @ \cup {d}]
        /\ objects' = [objects EXCEPT ![i].table = @ \cup {d}, ![i].mem = @ \cup {d}]
        /\ thread' = [thread EXCEPT ![t] = Rest] /\ UNCHANGED <<registry, created>>
        /\ acked' = [acked EXCEPT ![n] = @ \cup {d}]
        /\ written' = [written EXCEPT ![n] = @ \cup {d}]
    BY <1>1, <1>2, <1>4 DEF CallUpsert, Return
  <2>2. disk' = [disk EXCEPT ![n] = x]
    BY <1>3, <2>1 DEF LogsDirectory, Directory, IndInv, TypeInv
  <2>3. objects' = [objects EXCEPT ![i] = o]
    BY <1>3, <2>1 DEF LogsObject, Object, IndInv, TypeInv
  <2> QED BY <2>1, <2>2, <2>3
<1>6. objects[i].segs \in SUBSET Segment /\ W \in SUBSET Docs
  BY <1>3 DEF Object, Directory
<1>7. /\ x \in Directory /\ x.manifest = objects[i].segs /\ x.wal = W
      /\ x.dir = disk[n].dir /\ x.config = disk[n].config /\ x.files = disk[n].files
  <2> HIDE DEF W
  <2> QED BY <1>3, <1>6, LogsDirectoryIs
<1>8. /\ o \in Object /\ o.table = objects[i].table \cup {d} /\ o.mem = objects[i].mem \cup {d}
      /\ o.name = objects[i].name /\ o.segs = objects[i].segs
      /\ o.writable = objects[i].writable /\ o.linked = objects[i].linked
  BY <1>3, LogsObjectIs
<1> HIDE DEF x, o
<1>9. disk'[n] = x /\ objects'[i] = o /\ DOMAIN objects' = DOMAIN objects
  BY <1>5 DEF IndInv, TypeInv
<1>10. Recovered(n)' = Recovered(n) \cup {d}
  BY <1>2, <1>7, <1>9 DEF Recovered, Serves
<1>11. Serves(i, n)'
  BY <1>2, <1>4, <1>7, <1>8, <1>9, <1>10 DEF Serves, Openable
<1>12. /\ acked' \in [Names -> SUBSET Docs] /\ written' \in [Names -> SUBSET Docs]
       /\ acked'[n] = acked[n] \cup {d} /\ written'[n] = written[n] \cup {d}
       /\ \A m \in Names : m # n => acked'[m] = acked[m] /\ written'[m] = written[m]
  BY <1>5 DEF IndInv, TypeInv
<1>13. acked[n] \subseteq Recovered(n) /\ Recovered(n) \subseteq written[n]
  BY <1>3 DEF NameInv, Forsaken
<1>14. acked'[n] \subseteq Recovered(n)' /\ Recovered(n)' \subseteq written'[n]
  BY <1>10, <1>12, <1>13
<1> QED BY <1>1, <1>2, <1>5, <1>7, <1>8, <1>11, <1>12, <1>14, CallStepInv

\* flush: what was in the log is in a segment that the manifest names.
LEMMA CallFlushInv == ASSUME IndInv, NEW t \in Threads, CallFlush(t) PROVE IndInv'
<1>1. PICK n \in Names : n = thread[t].name /\ n # "" /\ thread[t].pc = "call"
  BY CompanyOf DEF CallFlush
<1>2. PICK i \in DOMAIN objects : i = registry[n] /\ i = thread[t].object /\ Serves(i, n)
  <2>1. thread[t].object = registry[n] /\ Serves(registry[n], n)
    BY <1>1, CallFacts
  <2> QED BY <2>1 DEF Serves
<1>3. NameInv(n) /\ objects[i] \in Object /\ disk[n] \in Directory /\ i \in Nat
  BY DEF IndInv, TypeInv
<1> DEFINE seg == [by |-> i, docs |-> objects[i].mem]
           S == objects[i].segs \cup {seg}
           x == FlushesDirectory(disk[n], S, seg)
           o == FlushesObject(objects[i], seg)
<1>4. Return(t) /\ UNCHANGED <<registry, created, acked, written>>
  BY DEF CallFlush, history
<1>5. CASE objects[i].mem = {}
  BY <1>1, <1>2, <1>4, <1>5, ReturnInv DEF CallFlush
<1>6. CASE objects[i].mem # {}
  <2>1. disk' = [disk EXCEPT ![n] = x] /\ objects' = [objects EXCEPT ![i] = o]
    <3>1. /\ disk' = [disk EXCEPT ![n].files = @ \cup {seg}, ![n].manifest = S, ![n].wal = {}]
          /\ objects' = [objects EXCEPT ![i].segs = @ \cup {seg}, ![i].mem = {},
                           ![i].writable = TRUE, ![i].linked = TRUE]
      BY <1>1, <1>2, <1>6 DEF CallFlush, Serves
    <3> HIDE DEF seg
    <3>2. disk' = [disk EXCEPT ![n] = x]
      BY <1>3, <3>1 DEF FlushesDirectory, Directory, IndInv, TypeInv
    <3>3. objects' = [objects EXCEPT ![i] = o]
      BY <1>3, <3>1 DEF FlushesObject, Object, IndInv, TypeInv
    <3> QED BY <3>2, <3>3
  <2>2. /\ seg \in Segment /\ seg.docs = objects[i].mem /\ objects[i].segs \in SUBSET Segment
        /\ S \in SUBSET Segment
    <3>1. objects[i].mem \in SUBSET Docs /\ objects[i].segs \in SUBSET Segment
      BY <1>3 DEF Object
    <3>2. seg \in Segment /\ seg.docs = objects[i].mem
      BY <1>3, <3>1 DEF Segment
    <3> HIDE DEF seg
    <3> QED BY <3>1, <3>2
  <2> HIDE DEF seg
  <2>3. /\ x \in Directory /\ x.manifest = S /\ x.wal = {} /\ x.files = disk[n].files \cup {seg}
        /\ x.dir = disk[n].dir /\ x.config = disk[n].config
    <3> HIDE DEF S
    <3>1. disk[n] \in Directory /\ S \in Segments /\ seg \in Segment
      BY <1>3, <2>2 DEF Segments
    <3> QED BY <3>1, FlushesDirectoryIs
  <2>4. /\ o \in Object /\ o.table = objects[i].table /\ o.mem = {} /\ o.name = objects[i].name
        /\ o.segs = S /\ o.writable /\ o.linked
    BY <1>3, <2>2, FlushesObjectIs
  <2> HIDE DEF x, o
  <2>5. disk'[n] = x /\ objects'[i] = o /\ DOMAIN objects' = DOMAIN objects
    BY <2>1 DEF IndInv, TypeInv
  <2>6. Recovered(n)' = Recovered(n)
    <3>1. /\ disk[n].wal = seg.docs /\ disk'[n].wal = {}
          /\ disk'[n].manifest = disk[n].manifest \cup {seg}
      BY <1>2, <2>2, <2>3, <2>5 DEF Serves
    <3> QED BY <3>1 DEF Recovered
  <2>7. Serves(i, n)'
    BY <1>2, <2>3, <2>4, <2>5, <2>6 DEF Serves, Openable
  <2>8. acked[n] \subseteq Recovered(n) /\ Recovered(n) \subseteq written[n]
    BY <1>3 DEF NameInv, Forsaken
  <2>9. acked'[n] \subseteq Recovered(n)' /\ Recovered(n)' \subseteq written'[n]
    BY <1>4, <2>6, <2>8
  <2>10. /\ acked' \in [Names -> SUBSET Docs] /\ written' \in [Names -> SUBSET Docs]
         /\ \A m \in Names : acked'[m] = acked[m] /\ written'[m] = written[m]
    BY <1>4 DEF IndInv, TypeInv
  <2>11. thread' = [thread EXCEPT ![t] = Rest] /\ UNCHANGED <<registry, created>>
    BY <1>4 DEF Return
  <2> QED BY <1>1, <1>2, <2>1, <2>3, <2>4, <2>7, <2>9, <2>10, <2>11, CallStepInv
<1> QED BY <1>5, <1>6
\* The collection is out of the registry, and nobody relies on it any more.
LEMMA DropPopInv == ASSUME IndInv, NEW t \in Threads, DropPop(t) PROVE IndInv'
<1>1. PICK n \in Names : n = thread[t].name /\ n # ""
  BY CompanyOf DEF DropPop
<1>2. /\ thread[t] \in Call /\ NameInv(n) /\ ThreadInv(t) /\ RunningOn(n) = {t}
      /\ thread[t].pc = "pop"
  BY <1>1, CompanyOf DEF DropPop, Finding
<1>3. PICK i \in Ids : i = registry[n]
  BY DEF IndInv, TypeInv
<1>4. PICK p \in Steps : p = IF i = 0 THEN "remove" ELSE "close"
  BY DEF Dropping, Steps
<1> DEFINE c == Holding(thread[t], i, p)
<1>5. /\ thread' = [thread EXCEPT ![t] = c] /\ registry' = [registry EXCEPT ![n] = 0]
      /\ created' = created \ {n} /\ acked' = [acked EXCEPT ![n] = {}]
      /\ UNCHANGED <<disk, objects, written>>
  <2>1. thread' = [thread EXCEPT ![t] = c]
    BY <1>1, <1>3, <1>4 DEF DropPop, Holding, IndInv, TypeInv
  <2> QED BY <1>1, <2>1 DEF DropPop, GiveUp
<1>6. c \in Call /\ c.name = n /\ c.pc = p /\ c.op = thread[t].op /\ c.object = i
  <2>1. thread[t] \in Call /\ thread[t].name = n
    BY <1>1, <1>2
  <2> QED BY <2>1, HoldingIs
<1> HIDE DEF c
<1>7. /\ thread'[t] = c /\ (\A u \in Threads : u # t => thread'[u] = thread[u])
      /\ registry'[n] = 0 /\ acked'[n] = {} /\ n \notin created'
      /\ \A m \in Names : m # n =>
           /\ disk'[m] = disk[m] /\ registry'[m] = registry[m] /\ acked'[m] = acked[m]
           /\ written'[m] = written[m] /\ (m \in created' <=> m \in created)
  BY <1>5 DEF IndInv, TypeInv
<1>8. TypeInv'
  <2>1. 0 \in Ids
    BY DEF Ids
  <2> QED BY <1>5, <1>6, <2>1 DEF IndInv, TypeInv
<1>9. Recovered(n)' = Recovered(n)
  BY <1>5 DEF Recovered
<1>10. NameInv(n)'
  BY <1>2, <1>5, <1>7, <1>9 DEF NameInv, Forsaken
<1>11. RunningOn(n)' = {t}
  BY <1>1, <1>2, <1>6, <1>7, StillAlone
<1>12. i # 0 => Serves(i, n)'
  <2>1. i # 0 => Serves(i, n)
    BY <1>2, <1>3 DEF NameInv
  <2> QED BY <1>5, <2>1, ServesKept DEF Serves
<1>13. ThreadInv(t)'
  <2>1. thread'[t].op = "drop"
    BY <1>2, <1>6, <1>7 DEF ThreadInv, Dropping
  <2> QED BY <1>1, <1>4, <1>6, <1>7, <1>11, <1>12, <2>1
          DEF ThreadInv, Finding, Making, Dropping, Forsaken
<1>14. /\ \A u \in RunningOn(n) : u = t
       /\ thread[t].name \in {n, ""} /\ thread'[t].name \in {n, ""}
  BY <1>1, <1>2, <1>6, <1>7
<1> QED BY <1>5, <1>7, <1>8, <1>10, <1>13, <1>14, Frame

\* close: the manifest is written once more.
LEMMA DropCloseInv == ASSUME IndInv, NEW t \in Threads, DropClose(t) PROVE IndInv'
<1>1. PICK n \in Names : n = thread[t].name /\ n # ""
  BY CompanyOf DEF DropClose
<1>2. /\ thread[t] \in Call /\ NameInv(n) /\ ThreadInv(t) /\ RunningOn(n) = {t}
      /\ thread[t].pc = "close"
  BY <1>1, CompanyOf DEF DropClose, Finding
<1>3. PICK i \in DOMAIN objects : i = thread[t].object /\ Serves(i, n)
  BY <1>1, <1>2 DEF ThreadInv, Serves
<1>4. registry[n] = 0 /\ Forsaken(n)
  BY <1>1, <1>2 DEF ThreadInv
<1>5. PICK k \in Nat : objects \in [1..k -> Object]
  BY DEF IndInv, TypeInv
<1> DEFINE x == [disk[n] EXCEPT !.manifest = objects[i].segs]
           c == [thread[t] EXCEPT !.pc = "remove"]
<1>6. /\ disk' = [disk EXCEPT ![n] = x] /\ thread' = [thread EXCEPT ![t] = c]
      /\ objects' = [objects EXCEPT ![i].writable = FALSE]
      /\ UNCHANGED <<registry, created, acked, written>>
  BY <1>1, <1>3 DEF DropClose, Goto, Serves, history, IndInv, TypeInv
<1>7. x = disk[n]
  BY <1>3 DEF Serves, IndInv, TypeInv, Directory
<1>8. c \in Call /\ c.name = n /\ c.pc = "remove" /\ c.op = thread[t].op
  BY <1>1, <1>2 DEF Call, Dropping, Steps
<1> HIDE DEF x, c
<1>9. UNCHANGED disk
  BY <1>6, <1>7 DEF IndInv, TypeInv
<1>10. /\ thread'[t] = c /\ (\A u \in Threads : u # t => thread'[u] = thread[u])
       /\ thread' \in [Threads -> Call]
  BY <1>6, <1>8 DEF IndInv, TypeInv
<1>11. /\ objects' \in [1..k -> Object]
       /\ \A j \in DOMAIN objects : j \in DOMAIN objects' /\ (j # i => objects'[j] = objects[j])
  BY <1>5, <1>6 DEF Object
<1>12. TypeInv'
  BY <1>6, <1>9, <1>10, <1>11 DEF IndInv, TypeInv
<1>13. NameInv(n)'
  BY <1>2, <1>4, <1>6, <1>9 DEF NameInv, Forsaken, Recovered
<1>14. RunningOn(n)' = {t}
  BY <1>1, <1>2, <1>8, <1>10, StillAlone
<1>15. ThreadInv(t)'
  <2>1. thread'[t].op = "drop" /\ thread'[t].pc = "remove"
    BY <1>2, <1>8, <1>10 DEF ThreadInv, Dropping
  <2> QED BY <1>1, <1>4, <1>6, <1>8, <1>10, <1>14, <2>1
          DEF ThreadInv, Finding, Making, Dropping, Forsaken
<1>16. \A j \in DOMAIN objects :
         j \in DOMAIN objects' /\ (objects[j].name # n => objects'[j] = objects[j])
  BY <1>3, <1>11 DEF Serves
<1>17. /\ \A u \in RunningOn(n) : u = t
       /\ thread[t].name \in {n, ""} /\ thread'[t].name \in {n, ""}
  BY <1>1, <1>2, <1>8, <1>10
<1> QED BY <1>6, <1>9, <1>10, <1>12, <1>13, <1>15, <1>16, <1>17, Frame

\* The step of rmtree: a directory x with less in it.
LEMMA RemoveStep ==
  ASSUME IndInv, NEW t \in Threads, NEW n \in Names, n = thread[t].name, n # "",
         thread[t].pc = "remove", NEW x \in Directory, disk' = [disk EXCEPT ![n] = x],
         x.wal \subseteq disk[n].wal, x.manifest \subseteq disk[n].manifest,
         Unlink(n) \/ UNCHANGED objects,
         \/ UNCHANGED <<thread, written>>
         \/ /\ thread' = [thread EXCEPT ![t] = Rest] /\ x.wal = {} /\ x.manifest = {}
            /\ written' = [written EXCEPT ![n] = {}],
         UNCHANGED <<registry, created, acked>>
  PROVE  IndInv'
<1>1. NameInv(n) /\ ThreadInv(t) /\ RunningOn(n) = {t} /\ thread[t] \in Call
  BY CompanyOf DEF Finding
<1>2. registry[n] = 0 /\ Forsaken(n) /\ thread[t].op = "drop"
  BY <1>1 DEF ThreadInv, Dropping
<1>3. PICK k \in Nat : objects \in [1..k -> Object]
  BY DEF IndInv, TypeInv
<1>4. /\ objects' \in [1..k -> Object]
      /\ \A j \in DOMAIN objects :
           j \in DOMAIN objects' /\ (objects[j].name # n => objects'[j] = objects[j])
  <2>1. CASE UNCHANGED objects
    BY <1>3, <2>1
  <2>2. CASE Unlink(n)
    <3>1. ASSUME NEW j \in DOMAIN objects
          PROVE  /\ j \in DOMAIN objects' /\ objects'[j] \in Object
                 /\ objects[j].name # n => objects'[j] = objects[j]
      <4>1. objects[j] \in Object
        BY <1>3
      <4>2. [objects[j] EXCEPT !.linked = FALSE] \in Object
        BY <4>1 DEF Object
      <4>3. j \in DOMAIN objects' /\ objects'[j] = IF objects[j].name = n
              THEN [objects[j] EXCEPT !.linked = FALSE] ELSE objects[j]
        BY <2>2 DEF Unlink
      <4> QED BY <4>1, <4>2, <4>3
    <3>2. objects' = [j \in 1..k |-> objects'[j]]
      BY <1>3, <2>2 DEF Unlink
    <3> QED BY <1>3, <3>1, <3>2
  <2> QED BY <2>1, <2>2
<1>5. /\ disk' \in [Names -> Directory] /\ disk'[n] = x
      /\ \A m \in Names : m # n => disk'[m] = disk[m]
  BY DEF IndInv, TypeInv
<1>6. /\ written' \in [Names -> SUBSET Docs]
      /\ \A m \in Names : m # n => written'[m] = written[m]
      /\ written'[n] = written[n] \/ (written'[n] = {} /\ x.wal = {} /\ x.manifest = {})
  BY DEF IndInv, TypeInv
<1>7. /\ thread' \in [Threads -> Call] /\ (thread'[t] = thread[t] \/ thread'[t] = Rest)
      /\ \A u \in Threads : u # t => thread'[u] = thread[u]
  BY RestCall DEF IndInv, TypeInv
<1>8. TypeInv'
  BY <1>4, <1>5, <1>6, <1>7 DEF IndInv, TypeInv
<1>9. NameInv(n)'
  <2>1. Recovered(n)' \subseteq written'[n]
    <3>1. Recovered(n)' \subseteq Recovered(n)
      <4>1. disk'[n].wal \subseteq disk[n].wal /\ disk'[n].manifest \subseteq disk[n].manifest
        BY <1>5
      <4>2. UNION {s.docs : s \in disk'[n].manifest} \subseteq UNION {s.docs : s \in disk[n].manifest}
        BY <4>1
      <4> QED BY <4>1, <4>2 DEF Recovered
    <3>2. x.wal = {} /\ x.manifest = {} => Recovered(n)' = {}
      BY <1>5 DEF Recovered
    <3> QED BY <1>1, <1>6, <3>1, <3>2 DEF NameInv
  <2> QED BY <1>2, <2>1 DEF NameInv, Forsaken
<1>10. ThreadInv(t)'
  <2>1. CASE thread'[t] = Rest
    BY <2>1, Returned
  <2>2. CASE thread'[t] = thread[t]
    <3>1. RunningOn(n)' = {t}
      BY <1>1, <1>7, <2>2, StillAlone
    <3> QED BY <1>2, <2>2, <3>1 DEF ThreadInv, Finding, Making, Dropping, Forsaken
  <2> QED BY <1>7, <2>1, <2>2
<1>11. /\ \A u \in RunningOn(n) : u = t
       /\ thread[t].name \in {n, ""} /\ thread'[t].name \in {n, ""}
  BY <1>1, <1>7, RestCall
<1>12. \A m \in Names : m # n =>
         /\ disk'[m] = disk[m] /\ registry'[m] = registry[m] /\ acked'[m] = acked[m]
         /\ written'[m] = written[m] /\ (m \in created' <=> m \in created)
  BY <1>5, <1>6
<1> QED BY <1>4, <1>7, <1>8, <1>9, <1>10, <1>11, <1>12, Frame
LEMMA RemoveFileInv == ASSUME IndInv, NEW t \in Threads, RemoveFile(t) PROVE IndInv'
<1>1. PICK n \in Names : n = thread[t].name /\ n # ""
  BY CompanyOf DEF RemoveFile
<1>2. /\ thread[t].pc = "remove" /\ disk[n] \in Directory
      /\ UNCHANGED <<registry, thread, created, acked, written>>
  BY DEF RemoveFile, history, IndInv, TypeInv
<1>3. ASSUME NEW x \in Directory, disk' = [disk EXCEPT ![n] = x],
             x.wal \subseteq disk[n].wal, x.manifest \subseteq disk[n].manifest,
             Unlink(n) \/ UNCHANGED objects
      PROVE  IndInv'
  BY <1>1, <1>2, <1>3, RemoveStep
<1>4. CASE disk' = [disk EXCEPT ![n].config = "none"] /\ UNCHANGED objects
  <2> DEFINE x == [disk[n] EXCEPT !.config = "none"]
  <2>1. x \in Directory /\ x.wal = disk[n].wal /\ x.manifest = disk[n].manifest
    BY <1>2 DEF Directory
  <2>2. disk' = [disk EXCEPT ![n] = x]
    BY <1>4 DEF IndInv, TypeInv
  <2> HIDE DEF x
  <2> QED BY <1>3, <1>4, <2>1, <2>2
<1>5. CASE disk' = [disk EXCEPT ![n].wal = {}] /\ Unlink(n)
  <2> DEFINE x == [disk[n] EXCEPT !.wal = {}]
  <2>1. x \in Directory /\ x.wal = {} /\ x.manifest = disk[n].manifest
    BY <1>2 DEF Directory
  <2>2. disk' = [disk EXCEPT ![n] = x]
    BY <1>5 DEF IndInv, TypeInv
  <2> HIDE DEF x
  <2> QED BY <1>3, <1>5, <2>1, <2>2
<1>6. CASE disk' = [disk EXCEPT ![n].manifest = {}] /\ UNCHANGED objects
  <2> DEFINE x == [disk[n] EXCEPT !.manifest = {}]
  <2>1. x \in Directory /\ x.wal = disk[n].wal /\ x.manifest = {}
    BY <1>2 DEF Directory
  <2>2. disk' = [disk EXCEPT ![n] = x]
    BY <1>6 DEF IndInv, TypeInv
  <2> HIDE DEF x
  <2> QED BY <1>3, <1>6, <2>1, <2>2
<1>7. ASSUME NEW s \in disk[n].files, disk' = [disk EXCEPT ![n].files = @ \ {s}], UNCHANGED objects
      PROVE  IndInv'
  <2> DEFINE x == [disk[n] EXCEPT !.files = @ \ {s}]
  <2>1. x \in Directory /\ x.wal = disk[n].wal /\ x.manifest = disk[n].manifest
    BY <1>2 DEF Directory
  <2>2. disk' = [disk EXCEPT ![n] = x]
    BY <1>7 DEF IndInv, TypeInv
  <2> HIDE DEF x
  <2> QED BY <1>3, <1>7, <2>1, <2>2
<1> QED BY <1>1, <1>4, <1>5, <1>6, <1>7 DEF RemoveFile

LEMMA RemoveDirInv == ASSUME IndInv, NEW t \in Threads, RemoveDir(t) PROVE IndInv'
<1>1. PICK n \in Names : n = thread[t].name /\ n # ""
  BY CompanyOf DEF RemoveDir
<1>2. NoDirectory \in Directory /\ NoDirectory.wal = {} /\ NoDirectory.manifest = {}
  BY DEF NoDirectory, Directory
<1>3. /\ thread[t].pc = "remove" /\ disk' = [disk EXCEPT ![n] = NoDirectory] /\ Unlink(n)
      /\ written' = [written EXCEPT ![n] = {}] /\ thread' = [thread EXCEPT ![t] = Rest]
      /\ UNCHANGED <<registry, created, acked>>
  BY <1>1 DEF RemoveDir, Return
<1> QED BY <1>1, <1>2, <1>3, RemoveStep

\* The process ends; the directories stay what they are.
LEMMA LoseMemoryInv == ASSUME IndInv, LoseMemory, UNCHANGED <<disk, history>> PROVE IndInv'
<1>1. /\ registry' = [n \in Names |-> 0] /\ objects' = [i \in DOMAIN objects |-> NoObject]
      /\ thread' = [t \in Threads |-> Rest] /\ UNCHANGED <<disk, created, acked, written>>
  BY DEF LoseMemory, history
<1>2. NoObject \in Object /\ 0 \in Ids
  BY DEF NoObject, Object, Ids
<1>3. PICK k \in Nat : objects \in [1..k -> Object]
  BY DEF IndInv, TypeInv
<1>4. objects' \in [1..k -> Object]
  BY <1>1, <1>2, <1>3
<1>5. TypeInv'
  BY <1>1, <1>2, <1>4, RestCall DEF IndInv, TypeInv
<1>6. ASSUME NEW n \in Names PROVE NameInv(n)'
  <2>1. NameInv(n)
    BY DEF IndInv
  <2> QED BY <1>1, <2>1 DEF NameInv, Recovered, Openable, Forsaken
<1>7. ASSUME NEW t \in Threads PROVE ThreadInv(t)'
  BY <1>1, Returned
<1> QED BY <1>5, <1>6, <1>7 DEF IndInv

\* Database.close: the manifests it writes are what they were.
LEMMA CloseAllInv == ASSUME IndInv, CloseAll PROVE IndInv'
<1>1. ASSUME NEW n \in Names PROVE disk'[n] = disk[n]
  <2>1. CASE registry[n] = 0 \/ ~disk[n].dir
    BY <2>1 DEF CloseAll
  <2>2. CASE ~(registry[n] = 0 \/ ~disk[n].dir)
    <3>1. objects[registry[n]].segs = disk[n].manifest /\ disk[n] \in Directory
      BY <2>2 DEF IndInv, TypeInv, NameInv, Serves
    <3>2. disk'[n] = [disk[n] EXCEPT !.manifest = objects[registry[n]].segs]
      BY <2>2 DEF CloseAll
    <3> QED BY <3>1, <3>2 DEF Directory
  <2> QED BY <2>1, <2>2
<1>2. disk' = [n \in Names |-> disk'[n]]
  BY DEF CloseAll
<1>3. UNCHANGED disk
  BY <1>1, <1>2 DEF IndInv, TypeInv
<1> QED BY <1>3, LoseMemoryInv DEF CloseAll

-----------------------------------------------------------------------------
(* The invariant holds in every reachable state. *)

LEMMA InitInv == ASSUME Init PROVE IndInv
<1>1. /\ disk = [n \in Names |-> NoDirectory] /\ registry = [n \in Names |-> 0]
      /\ objects = <<>> /\ thread = [t \in Threads |-> Rest]
      /\ created = {} /\ acked = [n \in Names |-> {}] /\ written = [n \in Names |-> {}]
  BY DEF Init
<1>2. /\ NoDirectory \in Directory /\ NoDirectory.wal = {} /\ NoDirectory.manifest = {} /\ 0 \in Ids
  BY DEF NoDirectory, Directory, Ids
<1>3. objects \in [1..0 -> Object] /\ 0 \in Nat
  BY <1>1
<1>4. TypeInv
  BY <1>1, <1>2, <1>3, RestCall DEF TypeInv
<1>5. ASSUME NEW n \in Names PROVE NameInv(n)
  <2>1. Recovered(n) = {}
    BY <1>1, <1>2 DEF Recovered
  <2> QED BY <1>1, <2>1 DEF NameInv, Forsaken
<1>6. ASSUME NEW t \in Threads PROVE ThreadInv(t)
  BY <1>1, RestCall DEF ThreadInv, Finding, Making, Dropping
<1> QED BY <1>4, <1>5, <1>6 DEF IndInv

LEMMA NextInv == ASSUME IndInv, ~Overlaps, [Next]_vars PROVE IndInv'
<1>1. ASSUME NEW t \in Threads, NEW n \in Names,
             \/ CreateRoute(t, n) \/ UpsertRoute(t, n) \/ FlushRoute(t, n)
             \/ ReadRoute(t, n) \/ DropRoute(t, n)
      PROVE  IndInv'
  <2>1. CASE CreateRoute(t, n)
    BY <2>1, StartInv DEF CreateRoute
  <2>2. CASE UpsertRoute(t, n)
    BY <2>2, StartInv DEF UpsertRoute
  <2>3. CASE FlushRoute(t, n)
    BY <2>3, StartInv DEF FlushRoute
  <2>4. CASE ReadRoute(t, n)
    BY <2>4, StartInv DEF ReadRoute
  <2>5. CASE DropRoute(t, n)
    BY <2>5, StartInv DEF DropRoute
  <2> QED BY <1>1, <2>1, <2>2, <2>3, <2>4, <2>5
<1>2. ASSUME NEW t \in Threads, OpenStep(t) PROVE IndInv'
  BY <1>2, CreateExistsInv, OpenLookupInv, OpenConfigInv, ConstructInv, WriteConfigInv,
     RegisterInv DEF OpenStep
<1>3. ASSUME NEW t \in Threads, CallStep(t) PROVE IndInv'
  BY <1>3, CallReadInv, CallFlushInv, CallUpsertInv DEF CallStep
<1>4. ASSUME NEW t \in Threads, DropStep(t) PROVE IndInv'
  BY <1>4, DropPopInv, DropCloseInv, RemoveFileInv, RemoveDirInv DEF DropStep
<1>5. CASE Crash \/ CloseAll
  BY <1>5, LoseMemoryInv, CloseAllInv DEF Crash
<1>6. CASE UNCHANGED vars
  <2>1. UNCHANGED <<disk, registry, objects, thread, created, acked, written>>
    BY <1>6 DEF vars, history
  <2>2. TypeInv'
    BY <2>1 DEF IndInv, TypeInv
  <2>3. ASSUME NEW n \in Names PROVE NameInv(n)'
    <3>1. NameInv(n)
      BY DEF IndInv
    <3> QED BY <2>1, <3>1 DEF NameInv, Serves, Recovered, Openable, Forsaken
  <2>4. ASSUME NEW t \in Threads PROVE ThreadInv(t)'
    <3>1. ThreadInv(t)
      BY DEF IndInv
    <3> QED BY <2>1, <3>1 DEF ThreadInv, RunningOn, Serves, Recovered, Openable, Forsaken
  <2> QED BY <2>2, <2>3, <2>4 DEF IndInv
<1> QED BY <1>1, <1>2, <1>3, <1>4, <1>5, <1>6 DEF Next

\* Calls on a collection that is not being opened, created or dropped keep
\* directory, registry, objects and acknowledgements in step.
THEOREM Invariance == ~Overlaps => (Spec => []IndInv)
<1> SUFFICES ASSUME ~Overlaps PROVE Spec => []IndInv
  OBVIOUS
<1>1. Init => IndInv
  BY InitInv
<1>2. IndInv /\ [Next]_vars => IndInv'
  BY NextInv
<1> QED BY <1>1, <1>2, PTL DEF Spec

-----------------------------------------------------------------------------
(* The theorems. *)

\* A collection whose creation was acknowledged opens in any later process.
THEOREM CreatedCollectionsOpen == ~Overlaps => (Spec => []CreatedOpens)
<1> SUFFICES ASSUME ~Overlaps PROVE Spec => []CreatedOpens
  OBVIOUS
<1>1. IndInv => CreatedOpens
  BY DEF IndInv, TypeInv, NameInv, Forsaken, CreatedOpens
<1> QED BY <1>1, Invariance, PTL

\* An acknowledged document is in the log or in a segment of its directory,
\* and a restart recovers it.
THEOREM AcknowledgedSurvives == ~Overlaps => (Spec => []AckedSurvives)
<1> SUFFICES ASSUME ~Overlaps PROVE Spec => []AckedSurvives
  OBVIOUS
<1>1. IndInv => AckedSurvives
  BY DEF IndInv, NameInv, Forsaken, AckedSurvives
<1> QED BY <1>1, Invariance, PTL

\* Every route that finds the collection sees every acknowledged document.
THEOREM AcknowledgedReadable == ~Overlaps => (Spec => []AckedReadable)
<1> SUFFICES ASSUME ~Overlaps PROVE Spec => []AckedReadable
  OBVIOUS
<1>1. IndInv => AckedReadable
  BY DEF IndInv, NameInv, Serves, Forsaken, AckedReadable
<1> QED BY <1>1, Invariance, PTL

\* A collection that was dropped and made again shows nothing of before.
THEOREM DroppedStaysAway == ~Overlaps => (Spec => []NothingComesBack)
<1> SUFFICES ASSUME ~Overlaps PROVE Spec => []NothingComesBack
  OBVIOUS
<1>1. IndInv => NothingComesBack
  BY DEF IndInv, NameInv, Serves, NothingComesBack
<1> QED BY <1>1, Invariance, PTL
=============================================================================
