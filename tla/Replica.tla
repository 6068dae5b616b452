------------------------------- MODULE Replica -------------------------------
(***************************************************************************)
(* Replicas of a collection: the state machine of annex/cluster/           *)
(* state_machine.py, driven by _apply_committed, compact and               *)
(* _on_install_snapshot of annex/cluster/raft.py.                          *)
(*                                                                         *)
(* `log' is what Raft promises: one sequence of committed commands that    *)
(* only grows.  A replica's collection is on disk, its RaftNode is not: a  *)
(* restarted replica has its documents and starts again at index 0.  A     *)
(* handler runs under the service's lock, so nothing of one replica        *)
(* happens while it restores a snapshot, except that it dies or raises.    *)
(*                                                                         *)
(* A snapshot holds the documents of the moment of compact(), which may    *)
(* be later than the index it is filed under.  It is shipped at any time,  *)
(* late and more than once.  Vector, metadata and text are one value.  The *)
(* counter `applied' is only reported and left out.                        *)
(***************************************************************************)
EXTENDS Integers, Sequences, FiniteSets, FiniteSetsExt

CONSTANTS
  Replicas, Docs, Values,
  NoVal,         \* the value of a document that is not there
  Bad,           \* a value that upsert() rejects, on every replica
  StaleInstalls, \* a snapshot may reach a replica that has applied more
  MaxLog,        \* bound: committed commands
  MaxSnapshots,  \* bound: calls of compact()
  MaxRestarts,   \* bound: restarts
  MaxFaults      \* bound: collection calls that raise for an I/O error

ASSUME ReplicaAssumption ==
  /\ NoVal \notin Values /\ Bad \notin Values /\ NoVal # Bad
  /\ StaleInstalls \in BOOLEAN
  /\ {MaxLog, MaxSnapshots, MaxRestarts, MaxFaults} \subseteq Nat

VARIABLES
  log,         \* the committed commands
  docs,        \* documents of each replica's collection
  lastApplied, \* last_applied of each replica
  snapIndex,   \* snapshot_index of each replica
  job,         \* the restore() a replica is in
  lost,        \* history: documents whose last write a replica skipped
  snapshots,   \* snapshots made so far
  made, restarts, faults

vars == <<log, docs, lastApplied, snapIndex, job, lost, snapshots, made, restarts, faults>>

-----------------------------------------------------------------------------
\* encode_command: op, id and payload of a command.
Commands ==
  [op : {"upsert"}, doc : Docs, val : Values \cup {Bad}]
    \cup [op : {"delete"}, doc : Docs, val : {NoVal}]
    \cup [op : {"noop"}, doc : {NoVal}, val : {NoVal}]

Writes(c, x) == c.op # "noop" /\ c.val # Bad /\ c.doc = x

\* The value of a document after the first k commands.
ValueAt(k, x) ==
  LET W == {i \in 1..k : Writes(log[i], x)} IN
    IF W = {} THEN NoVal ELSE log[Max(W)].val

Idle == [restoring |-> FALSE, drop |-> {}, put |-> {}, data |-> [d \in Docs |-> NoVal]]

Init ==
  /\ log = <<>>
  /\ docs = [r \in Replicas |-> [d \in Docs |-> NoVal]]
  /\ lastApplied = [r \in Replicas |-> 0] /\ snapIndex = [r \in Replicas |-> 0]
  /\ job = [r \in Replicas |-> Idle]
  /\ lost = [r \in Replicas |-> {}]
  /\ snapshots = {} /\ made = 0 /\ restarts = 0 /\ faults = 0

\* Raft commits one more command.
Commit(c) ==
  /\ Len(log) < MaxLog
  /\ log' = Append(log, c)
  /\ UNCHANGED <<docs, lastApplied, snapIndex, job, lost, snapshots, made, restarts, faults>>

-----------------------------------------------------------------------------
(* _apply_committed: last_applied is advanced before the command is applied. *)

NextCommand(r) == log[lastApplied[r] + 1]

Advance(r) ==
  /\ ~job[r].restoring /\ lastApplied[r] < Len(log)
  /\ lastApplied' = [lastApplied EXCEPT ![r] = @ + 1]
  /\ UNCHANGED <<log, snapIndex, job, snapshots, made, restarts>>

\* upsert or delete.  A noop and a rejected upsert, which raises after
\* last_applied was advanced, leave the collection as it was.
Apply(r) ==
  LET c == NextCommand(r) IN
    /\ Advance(r)
    /\ IF Writes(c, c.doc)
       THEN /\ docs' = [docs EXCEPT ![r][c.doc] = c.val]
            /\ lost' = [lost EXCEPT ![r] = @ \ {c.doc}]
       ELSE UNCHANGED <<docs, lost>>
    /\ UNCHANGED faults

\* The collection raises, before or after the write: the command is not
\* applied again, the entries behind it are.
ApplyRaises(r) ==
  LET c == NextCommand(r) IN
    /\ Advance(r)
    /\ Writes(c, c.doc) /\ faults < MaxFaults /\ faults' = faults + 1
    /\ docs' \in {docs, [docs EXCEPT ![r][c.doc] = c.val]}
    /\ lost' = [lost EXCEPT ![r] = @ \cup {c.doc}]

-----------------------------------------------------------------------------
(* compact, InstallSnapshot, restore *)

\* Mutant: not clamped to last_applied.
TargetAnywhere(r, upTo) == upTo
Target(r, upTo) == Min({upTo, lastApplied[r]})

\* compact: the documents of now under the index asked for.
Compact(r, upTo) ==
  /\ ~job[r].restoring
  /\ Target(r, upTo) > snapIndex[r]
  /\ made < MaxSnapshots /\ made' = made + 1
  /\ snapIndex' = [snapIndex EXCEPT ![r] = Target(r, upTo)]
  /\ snapshots' = snapshots \cup
       {[index |-> Target(r, upTo), data |-> docs[r], lost |-> lost[r]]}
  /\ UNCHANGED <<log, docs, lastApplied, job, lost, restarts, faults>>

Present(f) == {d \in Docs : f[d] # NoVal}

\* Mutant: restore() only adds, and keeps what the snapshot does not have.
RestoreJobKeeping(r, s) ==
  [restoring |-> TRUE, drop |-> {}, put |-> Present(s.data), data |-> s.data]
\* restore(): delete what is there, then upsert what the snapshot has.
RestoreJob(r, s) ==
  [restoring |-> TRUE, drop |-> Present(docs[r]), put |-> Present(s.data), data |-> s.data]

\* _on_install_snapshot: any snapshot above the replica's own is adopted, its
\* index at once, its documents by restore().
OnInstallSnapshot(r, s) ==
  /\ ~job[r].restoring
  /\ s.index > snapIndex[r]
  /\ StaleInstalls \/ s.index >= lastApplied[r]
  /\ snapIndex' = [snapIndex EXCEPT ![r] = s.index]
  /\ lastApplied' = [lastApplied EXCEPT ![r] = Max({@, s.index})]
  /\ job' = [job EXCEPT ![r] = RestoreJob(r, s)]
  /\ lost' = [lost EXCEPT ![r] = s.lost]
  /\ UNCHANGED <<log, docs, snapshots, made, restarts, faults>>

RestoreDelete(r) ==
  /\ job[r].restoring
  /\ \E d \in job[r].drop :
       /\ docs' = [docs EXCEPT ![r][d] = NoVal]
       /\ job' = [job EXCEPT ![r].drop = @ \ {d}]
  /\ UNCHANGED <<log, lastApplied, snapIndex, lost, snapshots, made, restarts, faults>>

RestoreUpsert(r) ==
  /\ job[r].restoring /\ job[r].drop = {}
  /\ \E d \in job[r].put :
       /\ docs' = [docs EXCEPT ![r][d] = job[r].data[d]]
       /\ job' = [job EXCEPT ![r].put = @ \ {d}]
  /\ UNCHANGED <<log, lastApplied, snapIndex, lost, snapshots, made, restarts, faults>>

\* vacuum(), which changes no current document, and the return.
RestoreDone(r) ==
  /\ job[r].restoring /\ job[r].drop = {} /\ job[r].put = {}
  /\ job' = [job EXCEPT ![r] = Idle]
  /\ UNCHANGED <<log, docs, lastApplied, snapIndex, lost, snapshots, made, restarts, faults>>

\* A collection call raises: restore() ends there and is not tried again.
RestoreRaises(r) ==
  /\ job[r].restoring /\ faults < MaxFaults /\ faults' = faults + 1
  /\ lost' = [lost EXCEPT ![r] = @ \cup job[r].drop \cup job[r].put]
  /\ job' = [job EXCEPT ![r] = Idle]
  /\ UNCHANGED <<log, docs, lastApplied, snapIndex, snapshots, made, restarts>>

-----------------------------------------------------------------------------
\* The process dies, also inside restore(), and starts with a new RaftNode over
\* its old collection.  Everything is applied again, what was skipped too.
Restart(r) ==
  /\ restarts < MaxRestarts /\ restarts' = restarts + 1
  /\ job' = [job EXCEPT ![r] = Idle] /\ snapIndex' = [snapIndex EXCEPT ![r] = 0]
  /\ lastApplied' = [lastApplied EXCEPT ![r] = 0]
  /\ lost' = [lost EXCEPT ![r] = {}]
  /\ UNCHANGED <<log, docs, snapshots, made, faults>>

Next ==
  \/ \E c \in Commands : Commit(c)
  \/ \E r \in Replicas :
       \/ Apply(r) \/ ApplyRaises(r) \/ Restart(r)
       \/ \E upTo \in 1..MaxLog : Compact(r, upTo)
       \/ \E s \in snapshots : OnInstallSnapshot(r, s)
       \/ RestoreDelete(r) \/ RestoreUpsert(r) \/ RestoreDone(r) \/ RestoreRaises(r)

Spec == Init /\ [][Next]_vars

-----------------------------------------------------------------------------
(* Properties *)

Contents == [Docs -> Values \cup {NoVal}]

\* Every variable has its type.
TypeOK ==
  /\ log \in Seq(Commands)
  /\ docs \in [Replicas -> Contents]
  /\ lastApplied \in [Replicas -> 0..Len(log)] /\ snapIndex \in [Replicas -> 0..Len(log)]
  /\ job \in [Replicas -> [restoring : BOOLEAN, drop : SUBSET Docs, put : SUBSET Docs,
                           data : Contents]]
  /\ lost \in [Replicas -> SUBSET Docs]
  /\ snapshots \subseteq [index : 1..Len(log), data : Contents, lost : SUBSET Docs]
  /\ made \in Nat /\ restarts \in Nat /\ faults \in Nat

\* x has in f a value it had after command k or has had since.
NotBehind(f, x, k) == \E i \in k..Len(log) : f[x] = ValueAt(i, x)

\* "Every replica that applies the same committed prefix ends up" the same:
\* outside a restore no document of a replica is behind its last_applied, for
\* all its restarts, replays and snapshots, unless the collection raised for
\* that document.  A replica that has applied everything has the documents of
\* the log, and so has any other.
Converging ==
  \A r \in Replicas : ~job[r].restoring =>
    \A x \in Docs \ lost[r] : NotBehind(docs[r], x, lastApplied[r])

\* A snapshot is never behind the index it is filed under: the commands that a
\* replica skips because it installed the snapshot are in its documents.
SnapshotCovers ==
  \A s \in snapshots : \A x \in Docs \ s.lost : NotBehind(s.data, x, s.index)
=============================================================================
