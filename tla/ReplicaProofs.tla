---------------------------- MODULE ReplicaProofs ----------------------------
(***************************************************************************)
(* Proofs about Replica, for all replicas, documents, values and bounds:   *)
(* replicas converge and snapshots cover their index, whatever restarts,   *)
(* replays and failing collection calls happen, provided that no snapshot  *)
(* reaches a replica that has applied more (~StaleInstalls).               *)
(***************************************************************************)
EXTENDS Replica, BasicLemmas, TLAPS

-----------------------------------------------------------------------------
(* The inductive invariant. *)

\* ValueAt and NotBehind of a log l, so that their lemmas speak of both ends of
\* a step.
Val(l, k, x) ==
  LET W == {i \in 1..k : Writes(l[i], x)} IN
    IF W = {} THEN NoVal ELSE l[Max(W)].val
Fresh(l, f, x, k) == \E i \in k..Len(l) : f[x] = Val(l, i, x)

\* Every document has a value it had at some time, also one that was lost: it
\* is what a replica that restarts at index 0 starts from.
KnownValues ==
  /\ \A r \in Replicas : \A x \in Docs : Fresh(log, docs[r], x, 0)
  /\ \A s \in snapshots : \A x \in Docs : Fresh(log, s.data, x, 0)

\* Inside restore(): what is neither to be deleted nor to be written is as in
\* the snapshot, and the snapshot is not behind last_applied.
RestoreInv ==
  \A r \in Replicas : job[r].restoring =>
    \A x \in Docs :
      /\ Fresh(log, job[r].data, x, 0)
      /\ x \notin lost[r] => Fresh(log, job[r].data, x, lastApplied[r])
      /\ x \notin job[r].drop /\ x \notin job[r].put => docs[r][x] = job[r].data[x]
      /\ x \in job[r].drop /\ x \notin job[r].put => job[r].data[x] = NoVal

\* Converging and SnapshotCovers, in terms of Fresh.
ConvergingInv ==
  \A r \in Replicas : ~job[r].restoring =>
    \A x \in Docs \ lost[r] : Fresh(log, docs[r], x, lastApplied[r])
SnapshotInv ==
  \A s \in snapshots : \A x \in Docs \ s.lost : Fresh(log, s.data, x, s.index)

IndInv ==
  TypeOK /\ KnownValues /\ RestoreInv /\ ConvergingInv /\ SnapshotInv

-----------------------------------------------------------------------------
(* Lemmas about the operators of the model. *)

\* After no command no document is there.
LEMMA ValZero == ASSUME NEW l, NEW x PROVE Val(l, 0, x) = NoVal
<1>1. {i \in 1..0 : Writes(l[i], x)} = {}
  OBVIOUS
<1> QED BY <1>1 DEF Val

\* One more command changes the document it writes and no other.
LEMMA ValStep ==
  ASSUME NEW l \in Seq(Commands), NEW k \in 0..(Len(l) - 1), NEW x
  PROVE  Val(l, k + 1, x) = IF Writes(l[k + 1], x) THEN l[k + 1].val ELSE Val(l, k, x)
<1> DEFINE W(j) == {i \in 1..j : Writes(l[i], x)}
<1>1. CASE Writes(l[k + 1], x)
  <2>1. W(k + 1) # {} /\ W(k + 1) \in SUBSET (0..(k + 1)) /\ k + 1 \in W(k + 1)
    BY <1>1
  <2>2. Max(W(k + 1)) = k + 1
    <3>1. k + 1 \in Nat
      OBVIOUS
    <3> HIDE DEF W
    <3>2. Max(W(k + 1)) \in W(k + 1) /\ \A y \in W(k + 1) : Max(W(k + 1)) >= y
      BY <2>1, <3>1, MaxOfBounded
    <3> QED BY <2>1, <3>2
  <2> QED BY <1>1, <2>1, <2>2 DEF Val
<1>2. CASE ~Writes(l[k + 1], x)
  <2>1. W(k + 1) = W(k)
    BY <1>2
  <2> QED BY <1>2, <2>1 DEF Val
<1> QED BY <1>1, <1>2

\* A command that is committed later changes no value of the past.
LEMMA ValAppend ==
  ASSUME NEW l \in Seq(Commands), NEW c \in Commands, NEW k \in 0..Len(l), NEW x
  PROVE  Val(Append(l, c), k, x) = Val(l, k, x)
<1> DEFINE W == {i \in 1..k : Writes(l[i], x)}
           m == Append(l, c)
<1>1. k \in Nat /\ \A i \in 1..k : m[i] = l[i]
  OBVIOUS
<1>2. W = {i \in 1..k : Writes(m[i], x)}
  BY <1>1
<1>3. CASE W = {}
  BY <1>2, <1>3 DEF Val
<1>4. CASE W # {}
  <2>1. Max(W) \in W
    <3>1. W \in SUBSET (0..k)
      OBVIOUS
    <3> HIDE DEF W
    <3> QED BY <1>1, <1>4, <3>1, MaxOfBounded
  <2>2. m[Max(W)] = l[Max(W)]
    BY <2>1, <1>1
  <2> QED BY <1>2, <1>4, <2>2 DEF Val
<1> QED BY <1>3, <1>4

LEMMA FreshAppend ==
  ASSUME NEW l \in Seq(Commands), NEW c \in Commands, NEW f, NEW x, NEW k \in 0..Len(l),
         Fresh(l, f, x, k)
  PROVE  Fresh(Append(l, c), f, x, k)
<1>1. PICK i \in k..Len(l) : f[x] = Val(l, i, x)
  BY DEF Fresh
<1>2. i \in k..Len(Append(l, c)) /\ i \in 0..Len(l)
  OBVIOUS
<1> QED BY <1>1, <1>2, ValAppend DEF Fresh

\* A command that does not write x makes no value of x older.
LEMMA FreshSkip ==
  ASSUME NEW l \in Seq(Commands), NEW k \in 0..(Len(l) - 1), NEW f, NEW x,
         ~Writes(l[k + 1], x), Fresh(l, f, x, k)
  PROVE  Fresh(l, f, x, k + 1)
<1>1. PICK i \in k..Len(l) : f[x] = Val(l, i, x)
  BY DEF Fresh
<1>2. CASE i = k
  <2>1. Val(l, k + 1, x) = Val(l, k, x)
    BY ValStep
  <2> QED BY <1>1, <1>2, <2>1 DEF Fresh
<1>3. CASE i # k
  BY <1>1, <1>3 DEF Fresh
<1> QED BY <1>2, <1>3

\* A command that writes x leaves its value there.
LEMMA FreshWrite ==
  ASSUME NEW l \in Seq(Commands), NEW k \in 0..(Len(l) - 1), NEW f, NEW x,
         Writes(l[k + 1], x), f[x] = l[k + 1].val
  PROVE  Fresh(l, f, x, k + 1)
<1>1. Val(l, k + 1, x) = l[k + 1].val
  BY ValStep
<1>2. k + 1 \in (k + 1)..Len(l)
  OBVIOUS
<1> QED BY <1>1, <1>2 DEF Fresh

LEMMA FreshAbsent ==
  ASSUME NEW l \in Seq(Commands), NEW f, NEW x, f[x] = NoVal
  PROVE  Fresh(l, f, x, 0)
BY ValZero DEF Fresh

LEMMA FreshWeaker ==
  ASSUME NEW l \in Seq(Commands), NEW f, NEW x, NEW k \in Int, NEW j \in Int, j <= k,
         Fresh(l, f, x, k)
  PROVE  Fresh(l, f, x, j)
BY DEF Fresh

LEMMA FreshSame ==
  ASSUME NEW l, NEW f, NEW g, NEW x, NEW k, f[x] = g[x], Fresh(l, f, x, k)
  PROVE  Fresh(l, g, x, k)
BY DEF Fresh

-----------------------------------------------------------------------------
(* Type correctness. *)

\* A command that writes has a document and a value to write.
LEMMA WriteTyped ==
  ASSUME NEW c \in Commands, Writes(c, c.doc)
  PROVE  c.doc \in Docs /\ c.val \in Values \cup {NoVal}
BY DEF Commands, Writes

JobType ==
  [restoring : BOOLEAN, drop : SUBSET Docs, put : SUBSET Docs, data : Contents]

LEMMA InitTyped == Init => TypeOK
BY DEF Init, TypeOK, Idle, Contents

LEMMA NextTyped == TypeOK /\ [Next]_vars => TypeOK'
<1> SUFFICES ASSUME TypeOK, [Next]_vars PROVE TypeOK'
  OBVIOUS
<1> USE DEF TypeOK
<1>1. ASSUME NEW c \in Commands, Commit(c) PROVE TypeOK'
  <2>1. log' \in Seq(Commands) /\ Len(log') = Len(log) + 1
    BY <1>1 DEF Commit
  <2>2. 0..Len(log) \subseteq 0..Len(log') /\ 1..Len(log) \subseteq 1..Len(log')
    BY <2>1
  <2> QED BY <1>1, <2>1, <2>2 DEF Commit
<1> SUFFICES ASSUME NEW r \in Replicas, Next,
                    \/ Apply(r) \/ ApplyRaises(r) \/ Restart(r)
                    \/ \E upTo \in 1..MaxLog : Compact(r, upTo)
                    \/ \E s \in snapshots : OnInstallSnapshot(r, s)
                    \/ RestoreDelete(r) \/ RestoreUpsert(r)
                    \/ RestoreDone(r) \/ RestoreRaises(r)
             PROVE  TypeOK'
  BY <1>1 DEF Next, vars
<1>2. ASSUME lastApplied[r] < Len(log)
      PROVE  NextCommand(r) \in Commands
  BY <1>2 DEF NextCommand
<1>3. CASE Apply(r)
  <2> DEFINE c == NextCommand(r)
  <2>1. c \in Commands
    BY <1>2, <1>3 DEF Apply, Advance
  <2>2. lastApplied' \in [Replicas -> 0..Len(log)]
    BY <1>3 DEF Apply, Advance
  <2>3. docs' \in [Replicas -> Contents] /\ lost' \in [Replicas -> SUBSET Docs]
    <3> HIDE DEF c
    <3>1. CASE Writes(c, c.doc)
      <4>1. c.doc \in Docs /\ c.val \in Values \cup {NoVal}
        BY <2>1, <3>1, WriteTyped
      <4>2. docs' = [docs EXCEPT ![r][c.doc] = c.val] /\ lost' = [lost EXCEPT ![r] = @ \ {c.doc}]
        BY <1>3, <3>1 DEF Apply, c
      <4> QED BY <4>1, <4>2 DEF Contents
    <3>2. CASE ~Writes(c, c.doc)
      BY <1>3, <3>2 DEF Apply, c
    <3> QED BY <3>1, <3>2
  <2> QED BY <1>3, <2>2, <2>3 DEF Apply, Advance
<1>4. CASE ApplyRaises(r)
  <2> DEFINE c == NextCommand(r)
  <2>1. c \in Commands
    BY <1>2, <1>4 DEF ApplyRaises, Advance
  <2>2. lastApplied' \in [Replicas -> 0..Len(log)]
    BY <1>4 DEF ApplyRaises, Advance
  <2>3. docs' \in [Replicas -> Contents] /\ lost' \in [Replicas -> SUBSET Docs]
    <3> HIDE DEF c
    <3>1. c.doc \in Docs /\ c.val \in Values \cup {NoVal}
      BY <1>4, <2>1, WriteTyped DEF ApplyRaises, c
    <3>2. /\ docs' = docs \/ docs' = [docs EXCEPT ![r][c.doc] = c.val]
          /\ lost' = [lost EXCEPT ![r] = @ \cup {c.doc}]
      BY <1>4 DEF ApplyRaises, c
    <3>3. [docs EXCEPT ![r][c.doc] = c.val] \in [Replicas -> Contents]
      BY <3>1 DEF Contents
    <3>4. lost' \in [Replicas -> SUBSET Docs]
      BY <3>1, <3>2
    <3> QED BY <3>2, <3>3, <3>4
  <2> QED BY <1>4, <2>2, <2>3 DEF ApplyRaises, Advance
<1>5. CASE Restart(r)
  BY <1>5 DEF Restart, Idle, Contents
<1>6. ASSUME NEW upTo \in 1..MaxLog, Compact(r, upTo) PROVE TypeOK'
  <2>1. Target(r, upTo) \in 1..Len(log)
    <3>1. lastApplied[r] \in Int /\ upTo \in Int
      OBVIOUS
    <3>2. Target(r, upTo) = IF upTo <= lastApplied[r] THEN upTo ELSE lastApplied[r]
      BY <3>1, MinOfTwo DEF Target
    <3> QED BY <1>6, <3>2 DEF Compact
  <2> QED BY <1>6, <2>1 DEF Compact
<1>7. ASSUME NEW s \in snapshots, OnInstallSnapshot(r, s) PROVE TypeOK'
  <2>1. Max({lastApplied[r], s.index}) \in 0..Len(log)
    <3>1. lastApplied[r] \in Int /\ s.index \in Int
      OBVIOUS
    <3>2. Max({lastApplied[r], s.index}) =
            IF lastApplied[r] >= s.index THEN lastApplied[r] ELSE s.index
      BY <3>1, MaxOfTwo
    <3> QED BY <3>2
  <2>2. RestoreJob(r, s) \in JobType
    BY DEF RestoreJob, Present, JobType
  <2>3. s.index \in 0..Len(log) /\ s.lost \in SUBSET Docs
    OBVIOUS
  <2> QED BY <1>7, <2>1, <2>2, <2>3 DEF OnInstallSnapshot, JobType
<1>8. CASE RestoreDelete(r)
  <2>1. PICK d \in job[r].drop :
          /\ docs' = [docs EXCEPT ![r][d] = NoVal]
          /\ job' = [job EXCEPT ![r].drop = @ \ {d}]
    BY <1>8 DEF RestoreDelete
  <2>2. docs' \in [Replicas -> Contents]
    BY <2>1 DEF Contents
  <2>3. job' \in [Replicas -> JobType]
    BY <2>1 DEF JobType
  <2> QED BY <1>8, <2>2, <2>3 DEF RestoreDelete, JobType
<1>9. CASE RestoreUpsert(r)
  <2>1. PICK d \in job[r].put :
          /\ docs' = [docs EXCEPT ![r][d] = job[r].data[d]]
          /\ job' = [job EXCEPT ![r].put = @ \ {d}]
    BY <1>9 DEF RestoreUpsert
  <2>2. docs' \in [Replicas -> Contents]
    BY <2>1 DEF Contents
  <2>3. job' \in [Replicas -> JobType]
    BY <2>1 DEF JobType
  <2> QED BY <1>9, <2>2, <2>3 DEF RestoreUpsert, JobType
<1>10. CASE RestoreDone(r)
  BY <1>10 DEF RestoreDone, Idle, Contents
<1>11. CASE RestoreRaises(r)
  BY <1>11 DEF RestoreRaises, Idle, Contents
<1> QED BY <1>3, <1>4, <1>5, <1>6, <1>7, <1>8, <1>9, <1>10, <1>11

\* Every variable keeps its type; in particular neither last_applied nor
\* snapshot_index runs ahead of what is committed.
THEOREM TypeCorrect == Spec => []TypeOK
<1> QED BY InitTyped, NextTyped, PTL DEF Spec

-----------------------------------------------------------------------------
(* Invariance. *)

LEMMA InitInd == Init => IndInv
<1> SUFFICES ASSUME Init PROVE IndInv
  OBVIOUS
<1>1. TypeOK
  BY InitTyped
<1>2. ASSUME NEW r \in Replicas, NEW x \in Docs PROVE Fresh(log, docs[r], x, 0)
  BY <1>1, FreshAbsent DEF Init, TypeOK
<1> QED BY <1>1, <1>2 DEF IndInv, KnownValues, RestoreInv, ConvergingInv, SnapshotInv, Init, Idle

\* A commit leaves every replica as fresh as it was.
LEMMA CommitInd ==
  ASSUME IndInv, NEW c \in Commands, Commit(c), TypeOK'
  PROVE  IndInv'
<1> USE DEF IndInv
<1>1. log \in Seq(Commands) /\ log' = Append(log, c) /\ 0 \in 0..Len(log)
  BY DEF Commit, TypeOK
<1>2. ASSUME NEW f, NEW x, NEW k \in 0..Len(log), Fresh(log, f, x, k)
      PROVE  Fresh(log', f, x, k)
  BY <1>1, <1>2, FreshAppend
<1>3. KnownValues'
  BY <1>1, <1>2 DEF KnownValues, Commit
<1>4. RestoreInv'
  <2>1. \A r \in Replicas : lastApplied[r] \in 0..Len(log)
    BY DEF TypeOK
  <2> QED BY <1>1, <1>2, <2>1 DEF RestoreInv, Commit
<1>5. ConvergingInv'
  <2>1. \A r \in Replicas : lastApplied[r] \in 0..Len(log)
    BY DEF TypeOK
  <2> QED BY <1>2, <2>1 DEF ConvergingInv, Commit
<1>6. SnapshotInv'
  <2>1. \A s \in snapshots : s.index \in 0..Len(log)
    BY DEF TypeOK
  <2> QED BY <1>2, <2>1 DEF SnapshotInv, Commit
<1> QED BY <1>3, <1>4, <1>5, <1>6

\* What a step of replica r must establish: it leaves the log and the other
\* replicas alone.
LEMMA StepOf ==
  ASSUME IndInv, TypeOK', NEW r \in Replicas, UNCHANGED log,
         \A q \in Replicas \ {r} : /\ docs'[q] = docs[q] /\ job'[q] = job[q]
                                   /\ lost'[q] = lost[q] /\ lastApplied'[q] = lastApplied[q],
         \A s \in snapshots' \ snapshots : \A x \in Docs :
           Fresh(log, s.data, x, 0) /\ (x \notin s.lost => Fresh(log, s.data, x, s.index)),
         \A x \in Docs : Fresh(log, docs'[r], x, 0),
         job'[r].restoring => \A x \in Docs :
           /\ Fresh(log, job'[r].data, x, 0)
           /\ x \notin lost'[r] => Fresh(log, job'[r].data, x, lastApplied'[r])
           /\ x \notin job'[r].drop /\ x \notin job'[r].put => docs'[r][x] = job'[r].data[x]
           /\ x \in job'[r].drop /\ x \notin job'[r].put => job'[r].data[x] = NoVal,
         ~job'[r].restoring =>
           \A x \in Docs : x \notin lost'[r] => Fresh(log, docs'[r], x, lastApplied'[r])
  PROVE  IndInv'
<1> USE DEF IndInv
<1>1. KnownValues'
  BY DEF KnownValues
<1>2. RestoreInv'
  <2> SUFFICES ASSUME NEW q \in Replicas, job'[q].restoring, NEW x \in Docs
               PROVE  /\ Fresh(log, job'[q].data, x, 0)
                      /\ x \notin lost'[q] => Fresh(log, job'[q].data, x, lastApplied'[q])
                      /\ x \notin job'[q].drop /\ x \notin job'[q].put =>
                           docs'[q][x] = job'[q].data[x]
                      /\ x \in job'[q].drop /\ x \notin job'[q].put => job'[q].data[x] = NoVal
    BY DEF RestoreInv
  <2>1. CASE q = r
    BY <2>1
  <2>2. CASE q # r
    BY <2>2 DEF RestoreInv
  <2> QED BY <2>1, <2>2
<1>3. ConvergingInv'
  BY DEF ConvergingInv
<1>4. SnapshotInv'
  BY DEF SnapshotInv
<1> QED BY <1>1, <1>2, <1>3, <1>4

\* Applying the next command, also when the collection raises.
LEMMA ApplyInd ==
  ASSUME IndInv, NEW r \in Replicas, Apply(r) \/ ApplyRaises(r), TypeOK'
  PROVE  IndInv'
<1> DEFINE k == lastApplied[r]
           c == NextCommand(r)
<1> USE DEF IndInv
<1>1. /\ log \in Seq(Commands) /\ k \in 0..(Len(log) - 1) /\ c = log[k + 1] /\ c \in Commands
      /\ UNCHANGED <<log, job, snapshots>> /\ ~job[r].restoring
      /\ lastApplied' = [lastApplied EXCEPT ![r] = k + 1]
  BY DEF Apply, ApplyRaises, Advance, TypeOK, NextCommand
<1>2. \/ docs' = docs
      \/ Writes(c, c.doc) /\ docs' = [docs EXCEPT ![r][c.doc] = c.val]
  BY DEF Apply, ApplyRaises
<1>3. \/ lost' = lost /\ ~Writes(c, c.doc) /\ docs' = docs
      \/ /\ lost' = [lost EXCEPT ![r] = @ \ {c.doc}]
         /\ Writes(c, c.doc) /\ docs' = [docs EXCEPT ![r][c.doc] = c.val]
      \/ lost' = [lost EXCEPT ![r] = @ \cup {c.doc}]
  BY DEF Apply, ApplyRaises
<1>4. Writes(c, c.doc) => c.doc \in Docs
  BY <1>1, WriteTyped
<1>5. docs \in [Replicas -> Contents] /\ lost \in [Replicas -> SUBSET Docs]
      /\ lastApplied \in [Replicas -> 0..Len(log)]
  BY DEF TypeOK
<1> HIDE DEF c
<1>6. \A x \in Docs : docs'[r][x] = docs[r][x]
                      \/ (x = c.doc /\ Writes(c, x) /\ docs'[r][x] = c.val)
  BY <1>2, <1>4, <1>5 DEF Contents
<1>7. ASSUME NEW x \in Docs PROVE Fresh(log, docs'[r], x, 0)
  <2>1. CASE docs'[r][x] = docs[r][x]
    BY <2>1, FreshSame DEF KnownValues
  <2>2. CASE Writes(c, x) /\ docs'[r][x] = c.val
    <3>1. Fresh(log, docs'[r], x, k + 1)
      BY <1>1, <2>2, FreshWrite
    <3> QED BY <1>1, <3>1, FreshWeaker
  <2> QED BY <1>6, <2>1, <2>2
<1>8. ASSUME NEW x \in Docs, x \notin lost'[r] PROVE Fresh(log, docs'[r], x, k + 1)
  <2>1. CASE Writes(c, x)
    <3>1. x = c.doc /\ Writes(c, c.doc)
      BY <2>1 DEF Writes
    <3>2. docs'[r][x] = c.val
      BY <1>3, <1>4, <1>5, <1>8, <3>1 DEF Contents
    <3> QED BY <1>1, <2>1, <3>2, FreshWrite
  <2>2. CASE ~Writes(c, x)
    <3>1. docs'[r][x] = docs[r][x]
      BY <1>6, <2>2
    <3>2. x \notin lost[r]
      <4>1. ~(Writes(c, c.doc) /\ x = c.doc)
        BY <2>2
      <4> QED BY <1>3, <1>5, <1>8, <4>1
    <3>3. Fresh(log, docs[r], x, k)
      BY <1>1, <3>2 DEF ConvergingInv
    <3>4. Fresh(log, docs'[r], x, k)
      BY <3>1, <3>3, FreshSame
    <3> QED BY <1>1, <2>2, <3>4, FreshSkip
  <2> QED BY <2>1, <2>2
<1>9. /\ \A q \in Replicas \ {r} : /\ docs'[q] = docs[q] /\ job'[q] = job[q]
                                   /\ lost'[q] = lost[q] /\ lastApplied'[q] = lastApplied[q]
      /\ lastApplied'[r] = k + 1
  BY <1>1, <1>2, <1>3, <1>5
<1> QED BY <1>1, <1>7, <1>8, <1>9, StepOf

\* A replica that starts again has documents of some time.
LEMMA RestartInd ==
  ASSUME IndInv, NEW r \in Replicas, Restart(r), TypeOK'
  PROVE  IndInv'
<1> USE DEF IndInv
<1>1. /\ \A q \in Replicas \ {r} : /\ docs'[q] = docs[q] /\ job'[q] = job[q]
                                   /\ lost'[q] = lost[q] /\ lastApplied'[q] = lastApplied[q]
      /\ lastApplied'[r] = 0 /\ ~job'[r].restoring /\ docs' = docs
      /\ snapshots' = snapshots /\ UNCHANGED log
  BY DEF Restart, TypeOK, Idle
<1>2. \A x \in Docs : Fresh(log, docs[r], x, 0)
  BY DEF KnownValues
<1> QED BY <1>1, <1>2, StepOf

\* A snapshot is at most filed under an index that is too low.
LEMMA CompactInd ==
  ASSUME IndInv, NEW r \in Replicas, NEW upTo \in 1..MaxLog, Compact(r, upTo), TypeOK'
  PROVE  IndInv'
<1> USE DEF IndInv
<1> DEFINE s == [index |-> Target(r, upTo), data |-> docs[r], lost |-> lost[r]]
<1>1. log \in Seq(Commands) /\ lastApplied[r] \in Int /\ upTo \in Int
  BY DEF TypeOK
<1>2. Target(r, upTo) <= lastApplied[r] /\ Target(r, upTo) \in Int
  BY <1>1, MinOfTwo DEF Target
<1>3. ASSUME NEW x \in Docs PROVE Fresh(log, docs[r], x, 0)
  BY DEF KnownValues
<1>4. ASSUME NEW x \in Docs, x \notin lost[r] PROVE Fresh(log, docs[r], x, Target(r, upTo))
  <2>1. Fresh(log, docs[r], x, lastApplied[r])
    BY <1>4 DEF ConvergingInv, Compact
  <2> QED BY <1>1, <1>2, <2>1, FreshWeaker
<1>5. snapshots' \ snapshots \subseteq {s} /\ UNCHANGED <<log, docs, job, lost, lastApplied>>
      /\ ~job[r].restoring
  BY DEF Compact
<1>6. \A t \in snapshots' \ snapshots : \A x \in Docs :
        Fresh(log, t.data, x, 0) /\ (x \notin t.lost => Fresh(log, t.data, x, t.index))
  BY <1>3, <1>4, <1>5
<1>7. \A x \in Docs : x \notin lost[r] => Fresh(log, docs[r], x, lastApplied[r])
  BY <1>5 DEF ConvergingInv
<1> QED BY <1>3, <1>5, <1>6, <1>7, StepOf

\* The snapshot is at least as new as what the replica has applied.
LEMMA InstallInd ==
  ASSUME IndInv, ~StaleInstalls, NEW r \in Replicas, NEW s \in snapshots,
         OnInstallSnapshot(r, s), TypeOK'
  PROVE  IndInv'
<1> USE DEF IndInv
<1>1. lastApplied[r] \in Int /\ s.index \in Int /\ lastApplied[r] <= s.index
  BY DEF TypeOK, OnInstallSnapshot
<1>2. Max({lastApplied[r], s.index}) = s.index
  BY <1>1, MaxOfTwo
<1>3. /\ \A q \in Replicas \ {r} : /\ docs'[q] = docs[q] /\ job'[q] = job[q]
                                   /\ lost'[q] = lost[q] /\ lastApplied'[q] = lastApplied[q]
      /\ lastApplied'[r] = s.index /\ lost'[r] = s.lost /\ job'[r] = RestoreJob(r, s)
      /\ UNCHANGED <<log, docs, snapshots>>
  BY <1>2 DEF OnInstallSnapshot, TypeOK
<1>4. \A x \in Docs : Fresh(log, docs[r], x, 0)
  BY DEF KnownValues
<1>5. \A x \in Docs : /\ Fresh(log, s.data, x, 0)
                      /\ x \notin s.lost => Fresh(log, s.data, x, s.index)
  BY DEF KnownValues, SnapshotInv
<1>6. /\ RestoreJob(r, s).restoring /\ RestoreJob(r, s).data = s.data
      /\ \A x \in Docs :
           /\ x \notin RestoreJob(r, s).drop => docs[r][x] = NoVal
           /\ x \notin RestoreJob(r, s).put => s.data[x] = NoVal
  BY DEF RestoreJob, Present
<1> QED BY <1>3, <1>4, <1>5, <1>6, StepOf

\* The steps of restore(), in order.
LEMMA RestoreInd ==
  ASSUME IndInv, NEW r \in Replicas, TypeOK',
         RestoreDelete(r) \/ RestoreUpsert(r) \/ RestoreDone(r) \/ RestoreRaises(r)
  PROVE  IndInv'
<1> USE DEF IndInv
<1>1. /\ log \in Seq(Commands) /\ UNCHANGED <<log, lastApplied, snapshots>> /\ job[r].restoring
      /\ docs \in [Replicas -> Contents]
  BY DEF TypeOK, RestoreDelete, RestoreUpsert, RestoreDone, RestoreRaises
<1>2. \A x \in Docs : /\ Fresh(log, docs[r], x, 0) /\ Fresh(log, job[r].data, x, 0)
                      /\ x \notin lost[r] => Fresh(log, job[r].data, x, lastApplied[r])
                      /\ x \notin job[r].drop /\ x \notin job[r].put =>
                           docs[r][x] = job[r].data[x]
                      /\ x \in job[r].drop /\ x \notin job[r].put => job[r].data[x] = NoVal
  BY <1>1 DEF KnownValues, RestoreInv
<1>3. CASE RestoreDelete(r)
  <2>1. PICK d \in job[r].drop : /\ docs' = [docs EXCEPT ![r][d] = NoVal]
                                 /\ job' = [job EXCEPT ![r].drop = @ \ {d}]
    BY <1>3 DEF RestoreDelete
  <2>2. /\ \A q \in Replicas \ {r} : docs'[q] = docs[q] /\ job'[q] = job[q]
        /\ lost' = lost /\ d \in Docs
        /\ \A x \in Docs : docs'[r][x] = IF x = d THEN NoVal ELSE docs[r][x]
        /\ job'[r].restoring /\ job'[r].data = job[r].data
        /\ job'[r].drop = job[r].drop \ {d} /\ job'[r].put = job[r].put
    BY <1>3, <2>1 DEF RestoreDelete, TypeOK, Contents
  <2>3. ASSUME NEW x \in Docs PROVE Fresh(log, docs'[r], x, 0)
    <3>1. CASE x = d
      BY <1>1, <2>2, <3>1, FreshAbsent
    <3>2. CASE x # d
      BY <1>2, <2>2, <3>2, FreshSame
    <3> QED BY <3>1, <3>2
  <2> QED BY <1>1, <1>2, <2>2, <2>3, StepOf
<1>4. CASE RestoreUpsert(r)
  <2>1. PICK d \in job[r].put : /\ docs' = [docs EXCEPT ![r][d] = job[r].data[d]]
                                /\ job' = [job EXCEPT ![r].put = @ \ {d}]
    BY <1>4 DEF RestoreUpsert
  <2>2. /\ \A q \in Replicas \ {r} : docs'[q] = docs[q] /\ job'[q] = job[q]
        /\ lost' = lost /\ d \in Docs
        /\ \A x \in Docs : docs'[r][x] = IF x = d THEN job[r].data[x] ELSE docs[r][x]
        /\ job'[r].restoring /\ job'[r].data = job[r].data
        /\ job[r].drop = {} /\ job'[r].drop = {} /\ job'[r].put = job[r].put \ {d}
    BY <1>4, <2>1 DEF RestoreUpsert, TypeOK, Contents
  <2>3. ASSUME NEW x \in Docs PROVE Fresh(log, docs'[r], x, 0)
    <3>1. CASE x = d
      BY <1>2, <2>2, <3>1, FreshSame
    <3>2. CASE x # d
      BY <1>2, <2>2, <3>2, FreshSame
    <3> QED BY <3>1, <3>2
  <2> QED BY <1>1, <1>2, <2>2, <2>3, StepOf
<1>5. CASE RestoreDone(r) \/ RestoreRaises(r)
  <2>1. /\ \A q \in Replicas \ {r} : job'[q] = job[q] /\ lost'[q] = lost[q]
        /\ docs' = docs /\ ~job'[r].restoring
        /\ \A x \in Docs : x \notin lost'[r] =>
             x \notin lost[r] /\ x \notin job[r].drop /\ x \notin job[r].put
    BY <1>5 DEF RestoreDone, RestoreRaises, TypeOK, Idle
  <2>2. ASSUME NEW x \in Docs, x \notin lost'[r] PROVE Fresh(log, docs[r], x, lastApplied[r])
    BY <1>2, <2>1, <2>2, FreshSame
  <2> QED BY <1>1, <1>2, <2>1, <2>2, StepOf
<1> QED BY <1>3, <1>4, <1>5

LEMMA NextInd ==
  ASSUME IndInv, ~StaleInstalls, [Next]_vars
  PROVE  IndInv'
<1>1. TypeOK'
  BY NextTyped DEF IndInv
<1>2. CASE Next
  BY <1>1, <1>2, CommitInd, ApplyInd, RestartInd, CompactInd, InstallInd, RestoreInd DEF Next
<1>3. CASE UNCHANGED vars
  BY <1>3 DEF IndInv, TypeOK, KnownValues, RestoreInv, ConvergingInv, SnapshotInv, vars
<1> QED BY <1>2, <1>3

LEMMA Invariance == ~StaleInstalls => (Spec => []IndInv)
<1> SUFFICES ASSUME ~StaleInstalls PROVE Spec => []IndInv
  OBVIOUS
<1>1. IndInv /\ [Next]_vars => IndInv'
  BY NextInd
<1> QED BY <1>1, InitInd, PTL DEF Spec

\* Outside a restore no document of a replica is behind its last_applied,
\* unless the collection raised for it, however often replicas restart over
\* their old collections, replay and install snapshots: the claim of
\* state_machine.py that replicas which apply the same prefix end up the same.
THEOREM ReplicasConverge == ~StaleInstalls => (Spec => []Converging)
<1>1. IndInv => Converging
  BY DEF IndInv, ConvergingInv, Converging, Fresh, Val, NotBehind, ValueAt
<1> QED BY <1>1, Invariance, PTL

\* What compact() files under an index holds every command up to it, so a
\* replica that skips to the index with the snapshot skips nothing.
THEOREM SnapshotsCover == ~StaleInstalls => (Spec => []SnapshotCovers)
<1>1. IndInv => SnapshotCovers
  BY DEF IndInv, SnapshotInv, SnapshotCovers, Fresh, Val, NotBehind, ValueAt
<1> QED BY <1>1, Invariance, PTL
=============================================================================
