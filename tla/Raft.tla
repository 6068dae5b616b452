-------------------------------- MODULE Raft --------------------------------
(***************************************************************************)
(* The replicas of a cluster (annex/cluster/raft.py) and the network       *)
(* between them.                                                           *)
(*                                                                         *)
(* A RaftNode is a pure state machine: tick() and handle() run to the end  *)
(* under the lock of its RaftService, so each is one action here.  Time is *)
(* not modelled: an election timeout may fire whenever the node is not     *)
(* leader, a heartbeat whenever it is.  The network loses messages, delays *)
(* and reorders them as long as it likes, and may carry several copies of  *)
(* one message, since a heartbeat repeats what was not acknowledged.       *)
(*                                                                         *)
(* The replicated state machine is the sequence of commands its state      *)
(* reflects.  leader_id only serves error messages and is left out.        *)
(***************************************************************************)
EXTENDS Integers, Sequences, FiniteSets, FiniteSetsExt, Functions

CONSTANTS
  Nodes,          \* every node that may ever be a member
  InitialMembers, \* the membership all nodes are started with
  Commands,       \* client commands
  Nobody,         \* voted_for = None
  MaxTerm,        \* bound: no election is started beyond this term
  MaxLog,         \* bound: entries ever held, compacted ones included
  MaxInFlight,    \* bound: messages under way when a node sends on its own
  MaxCopies,      \* bound: deliveries after which a copy is still under way
  MaxTicks,       \* bound: timers that fire
  MaxCompactions, \* bound: calls of compact()
  MaxReconfigs,   \* bound: calls of add_server() and remove_server()
  MaxRestarts     \* bound: processes started anew

ASSUME NodesAssumption ==
  /\ InitialMembers \subseteq Nodes /\ IsFiniteSet(Nodes)
  /\ Nobody \notin Nodes /\ \A ms \in SUBSET Nodes : ms \notin Commands
ASSUME BoundsAssumption ==
  /\ MaxTerm \in Nat /\ MaxLog \in Nat /\ MaxInFlight \in Nat /\ MaxCopies \in Nat
  /\ MaxTicks \in Nat /\ MaxCompactions \in Nat /\ MaxReconfigs \in Nat /\ MaxRestarts \in Nat

VARIABLES
  role, currentTerm, votedFor,
  votes,        \* _votes
  members,      \* members, as a set
  log,          \* the retained entries
  snapshot,     \* snapshot_index, snapshot_term, snapshot_data
  commitIndex, lastApplied,
  machine,      \* the commands the state machine reflects, in order
  nextIndex, matchIndex, \* dicts: functions on the peers they have
  network,      \* messages under way
  elections,    \* history: who won which term with whose votes
  copies, ticks, compactions, reconfigs, restarts

voteVars == <<role, currentTerm, votedFor, votes>>
logVars == <<members, log, snapshot>>
commitVars == <<commitIndex, lastApplied, machine>>
leaderVars == <<nextIndex, matchIndex>>
counters == <<ticks, compactions, reconfigs, restarts>>
vars == <<voteVars, logVars, commitVars, leaderVars, network, elections, copies, counters>>

-----------------------------------------------------------------------------
(* Helpers of RaftNode *)

\* config_command and is_config: a membership entry's command is a set of nodes.
IsConfig(c) == c \notin Commands
NewEntry(n, c, i) == [term |-> currentTerm[n], index |-> i, command |-> c]

Peers(n) == members[n] \ {n}
QuorumSize(ms) == Cardinality(ms) \div 2 + 1

LastIndex(n) == IF log[n] = <<>> THEN snapshot[n].index ELSE log[n][Len(log[n])].index
LastTerm(n) == IF log[n] = <<>> THEN snapshot[n].term ELSE log[n][Len(log[n])].term

\* Positions of the retained entries; entry_at(i) is not None.
HasEntry(n, i) == i - snapshot[n].index \in 1..Len(log[n])
EntryAt(n, i) == log[n][i - snapshot[n].index]
TermAt(n, i) ==
  IF i = snapshot[n].index THEN snapshot[n].term
  ELSE IF HasEntry(n, i) THEN EntryAt(n, i).term ELSE 0

\* dict.get with a default.
Get(d, p, default) == IF p \in DOMAIN d THEN d[p] ELSE default
Put(d, p, v) == [q \in DOMAIN d \cup {p} |-> IF q = p THEN v ELSE d[q]]

-----------------------------------------------------------------------------
(* Messages *)

RequestVote(n, p, t) ==
  [type |-> "RequestVote", src |-> n, dst |-> p, term |-> t,
   lastIndex |-> LastIndex(n), lastTerm |-> LastTerm(n)]
RequestVoteReply(n, p, t, granted) ==
  [type |-> "RequestVoteReply", src |-> n, dst |-> p, term |-> t, granted |-> granted]
AppendReply(n, p, t, success, match, conflict) ==
  [type |-> "AppendReply", src |-> n, dst |-> p, term |-> t, success |-> success,
   match |-> match, conflict |-> conflict]
InstallReply(n, p, t, match) ==
  [type |-> "InstallReply", src |-> n, dst |-> p, term |-> t, match |-> match]

\* _append_to: the entries from next_index on, or the snapshot when they are gone.
\* A handler that changes the node before it sends uses the primed expression.
AppendTo(n, p) ==
  LET prev == Get(nextIndex[n], p, LastIndex(n) + 1) - 1 IN
  IF prev < snapshot[n].index
  THEN [type |-> "InstallSnapshot", src |-> n, dst |-> p, term |-> currentTerm[n],
        snapshot |-> snapshot[n], members |-> members[n]]
  ELSE [type |-> "AppendEntries", src |-> n, dst |-> p, term |-> currentTerm[n],
        prevIndex |-> prev, prevTerm |-> TermAt(n, prev), commit |-> commitIndex[n],
        entries |-> SubSeq(log[n], prev - snapshot[n].index + 1, Len(log[n]))]

\* _broadcast_append
BroadcastAppend(n) == {AppendTo(n, p) : p \in Peers(n)}

Send(out) == network' = network \cup out /\ UNCHANGED copies

\* Bounds on what a node sends of its own accord, and on its timers.
MaySend == Cardinality(network) <= MaxInFlight
Tick ==
  /\ MaySend /\ ticks < MaxTicks /\ ticks' = ticks + 1
  /\ UNCHANGED <<compactions, reconfigs, restarts>>

\* m has been delivered and answered with `out'.  Of the messages a heartbeat
\* repeats, another copy may follow.
Repeated(m) == m.type \notin {"RequestVote", "RequestVoteReply"}
Deliver(m, out) ==
  \/ network' = (network \ {m}) \cup out /\ UNCHANGED copies
  \/ /\ Repeated(m) /\ copies < MaxCopies /\ copies' = copies + 1
     /\ network' = network \cup out

-----------------------------------------------------------------------------
Init ==
  /\ role = [n \in Nodes |-> "follower"]
  /\ currentTerm = [n \in Nodes |-> 0]
  /\ votedFor = [n \in Nodes |-> Nobody]
  /\ votes = [n \in Nodes |-> {}]
  /\ members = [n \in Nodes |-> InitialMembers \cup {n}]
  /\ log = [n \in Nodes |-> <<>>]
  /\ snapshot = [n \in Nodes |-> [index |-> 0, term |-> 0, data |-> <<>>]]
  /\ commitIndex = [n \in Nodes |-> 0]
  /\ lastApplied = [n \in Nodes |-> 0]
  /\ machine = [n \in Nodes |-> <<>>]
  /\ nextIndex = [n \in Nodes |-> [p \in {} |-> 0]]
  /\ matchIndex = [n \in Nodes |-> [p \in {} |-> 0]]
  /\ network = {} /\ elections = {}
  /\ copies = 0 /\ ticks = 0 /\ compactions = 0 /\ reconfigs = 0 /\ restarts = 0

-----------------------------------------------------------------------------
(* Elections *)

\* _become_follower: forgets the vote, also when the term stays the same.
BecomeFollower(n, t) ==
  /\ role' = [role EXCEPT ![n] = "follower"]
  /\ currentTerm' = [currentTerm EXCEPT ![n] = t]
  /\ votedFor' = [votedFor EXCEPT ![n] = Nobody]
  /\ votes' = [votes EXCEPT ![n] = {}]

\* Mutant: nothing is acknowledged yet, written as index -1.
BecomeLeaderAtMinusOne(n, t, voters) ==
  /\ role' = [role EXCEPT ![n] = "leader"]
  /\ nextIndex' = [nextIndex EXCEPT ![n] = [p \in Peers(n) |-> LastIndex(n) + 1]]
  /\ matchIndex' = [matchIndex EXCEPT ![n] = [p \in Peers(n) |-> 0 - 1]]
  /\ elections' = elections \cup {[term |-> t, leader |-> n, votes |-> voters]}
\* _become_leader; the history records the election.
BecomeLeader(n, t, voters) ==
  /\ role' = [role EXCEPT ![n] = "leader"]
  /\ nextIndex' = [nextIndex EXCEPT ![n] = [p \in Peers(n) |-> LastIndex(n) + 1]]
  /\ matchIndex' = [matchIndex EXCEPT ![n] = [p \in Peers(n) |-> 0]]
  /\ elections' = elections \cup {[term |-> t, leader |-> n, votes |-> voters]}

\* tick() of a node that has not heard of a leader: _start_election.
StartElection(n) ==
  LET t == currentTerm[n] + 1 IN
  /\ role[n] # "leader" /\ currentTerm[n] < MaxTerm
  /\ Tick
  /\ currentTerm' = [currentTerm EXCEPT ![n] = t]
  /\ votedFor' = [votedFor EXCEPT ![n] = n]
  /\ votes' = [votes EXCEPT ![n] = {n}]
  /\ IF Peers(n) = {}
     THEN BecomeLeader(n, t, {n}) /\ Send({})
     ELSE /\ role' = [role EXCEPT ![n] = "candidate"]
          /\ Send({RequestVote(n, p, t) : p \in Peers(n)})
          /\ UNCHANGED <<leaderVars, elections>>
  /\ UNCHANGED <<logVars, commitVars>>

\* tick() of a leader: heartbeat and retransmission in one.
Heartbeat(n) ==
  /\ role[n] = "leader"
  /\ Tick
  /\ Send(BroadcastAppend(n))
  /\ UNCHANGED <<voteVars, logVars, commitVars, leaderVars, elections>>

UpToDate(n, m) ==
  m.lastTerm > LastTerm(n) \/ (m.lastTerm = LastTerm(n) /\ m.lastIndex >= LastIndex(n))

\* Mutant: a vote already given in this term is not looked at.
GrantsAgain(n, vote, m) == m.term >= currentTerm[n] /\ UpToDate(n, m)
\* The rule for granting a vote, for a node that in the candidate's term has
\* given its vote to `vote'.
Grants(n, vote, m) ==
  m.term >= currentTerm[n] /\ vote \in {Nobody, m.src} /\ UpToDate(n, m)

OnRequestVote(m) ==
  LET n == m.dst
      newTerm == m.term > currentTerm[n]
      vote == IF newTerm THEN Nobody ELSE votedFor[n]
      granted == Grants(n, vote, m)
  IN
  /\ m.type = "RequestVote"
  /\ currentTerm' = [currentTerm EXCEPT ![n] = IF newTerm THEN m.term ELSE @]
  /\ role' = [role EXCEPT ![n] = IF newTerm THEN "follower" ELSE @]
  /\ votes' = [votes EXCEPT ![n] = IF newTerm THEN {} ELSE @]
  /\ votedFor' = [votedFor EXCEPT ![n] = IF granted THEN m.src ELSE vote]
  /\ Deliver(m, {RequestVoteReply(n, m.src, currentTerm'[n], granted)})
  /\ UNCHANGED <<logVars, commitVars, leaderVars, elections, counters>>

\* A reply from a later term ends candidacy and leadership, whatever its type.
StepDown(m) ==
  /\ m.type \in {"RequestVoteReply", "AppendReply", "InstallReply"}
  /\ m.term > currentTerm[m.dst]
  /\ BecomeFollower(m.dst, m.term)
  /\ Deliver(m, {})
  /\ UNCHANGED <<logVars, commitVars, leaderVars, elections, counters>>

OnVoteReply(m) ==
  LET n == m.dst
      voters == votes[n] \cup {m.src}
  IN
  /\ m.type = "RequestVoteReply" /\ m.term <= currentTerm[n]
  /\ UNCHANGED <<currentTerm, votedFor, logVars, commitVars, counters>>
  /\ IF role[n] = "candidate" /\ m.term = currentTerm[n] /\ m.granted
     THEN /\ votes' = [votes EXCEPT ![n] = voters]
          /\ IF Cardinality(voters) >= QuorumSize(members[n])
             THEN BecomeLeader(n, m.term, voters) /\ Deliver(m, BroadcastAppend(n)')
             ELSE Deliver(m, {}) /\ UNCHANGED <<role, leaderVars, elections>>
     ELSE Deliver(m, {}) /\ UNCHANGED <<role, votes, leaderVars, elections>>

-----------------------------------------------------------------------------
(* Client commands and membership *)

\* The client commands among some entries, in order: what the state machine
\* is given, a membership entry being skipped.
CommandsOf(entries) ==
  LET upTo[i \in 0..Len(entries)] ==
        IF i = 0 THEN <<>>
        ELSE IF IsConfig(entries[i].command) THEN upTo[i - 1]
        ELSE Append(upTo[i - 1], entries[i].command)
  IN upTo[Len(entries)]

\* _apply_committed up to index c, for a log l that follows a snapshot at s.
\* An entry that is missing ends the loop, one past the last that was applied.
ApplyCommitted(n, c, l, s) ==
  LET start == Max({lastApplied[n], s})
      upTo == Min({c, s + Len(l)})
      todo == SubSeq(l, start - s + 1, upTo - s)
  IN
  /\ lastApplied' = [lastApplied EXCEPT ![n] =
                       IF start >= c THEN start
                       ELSE IF upTo = c THEN c ELSE Max({start, upTo}) + 1]
  /\ machine' = [machine EXCEPT ![n] = @ \o CommandsOf(todo)]

CommitTo(n, c, l, s) ==
  /\ commitIndex' = [commitIndex EXCEPT ![n] = c]
  /\ ApplyCommitted(n, c, l, s)

\* Mutant: a new peer gets no entry in next_index and match_index.
AdoptMembersOnly(n, ms, last) ==
  members' = [members EXCEPT ![n] = ms] /\ UNCHANGED leaderVars
\* _adopt_members on the leader, for a new log whose last index is `last': the
\* indices of a new peer are set, those of a peer that left are dropped.
AdoptMembers(n, ms, last) ==
  LET gone == DOMAIN nextIndex[n] \ ms IN
  /\ members' = [members EXCEPT ![n] = ms]
  /\ nextIndex' = [nextIndex EXCEPT ![n] =
       [p \in (DOMAIN @ \cup (ms \ {n})) \ gone |-> Get(@, p, last + 1)]]
  /\ matchIndex' = [matchIndex EXCEPT ![n] =
       [p \in (DOMAIN @ \cup (ms \ {n})) \ gone |-> Get(@, p, 0)]]

\* propose() of RaftService: append, commit at once when no peer is left in the
\* membership, broadcast.
Propose(n, c) ==
  LET entry == NewEntry(n, c, LastIndex(n) + 1) IN
  /\ role[n] = "leader" /\ LastIndex(n) < MaxLog /\ MaySend
  /\ log' = [log EXCEPT ![n] = Append(@, entry)]
  /\ IF IsConfig(c) THEN AdoptMembers(n, c, entry.index) ELSE UNCHANGED <<members, leaderVars>>
  /\ IF members'[n] \ {n} = {}
     THEN CommitTo(n, entry.index, log'[n], snapshot[n].index)
     ELSE UNCHANGED commitVars
  /\ UNCHANGED <<voteVars, snapshot, elections>>
  /\ Send(BroadcastAppend(n)')

ProposeCommand(n, c) == Propose(n, c) /\ UNCHANGED counters

Reconfigure(n, ms) ==
  /\ reconfigs < MaxReconfigs /\ reconfigs' = reconfigs + 1
  /\ Propose(n, ms)
  /\ UNCHANGED <<ticks, compactions, restarts>>

AddServer(n, m) == m \notin members[n] /\ Reconfigure(n, members[n] \cup {m})
RemoveServer(n, m) == m \in members[n] /\ Reconfigure(n, members[n] \ {m})

-----------------------------------------------------------------------------
(* Log replication *)

\* The back-off hint: the first index of the run of entries that conflicts.
Conflict(n, prev) ==
  LET c == Min({prev, LastIndex(n) + 1}) IN
  IF c <= LastIndex(n) /\ c > 0
  THEN Min({i \in 1..c : \A j \in i..c : TermAt(n, j) = TermAt(n, c)})
  ELSE c

\* Mutant: an entry in place is kept whatever its term.
NewFromAnyTerm(n, entries) ==
  {i \in 1..Len(entries) :
     entries[i].index > snapshot[n].index /\ ~HasEntry(n, entries[i].index)}
\* The entries that are new to n: from the first one that is neither in its
\* snapshot nor in its log with the same term.
NewFrom(n, entries) ==
  {i \in 1..Len(entries) :
     LET e == entries[i] IN
       /\ e.index > snapshot[n].index
       /\ HasEntry(n, e.index) => EntryAt(n, e.index).term # e.term}

Configs(entries) == {i \in 1..Len(entries) : IsConfig(entries[i].command)}

RejectAppend(m, t, conflict) ==
  /\ Deliver(m, {AppendReply(m.dst, m.src, t, FALSE, 0, conflict)})
  /\ UNCHANGED <<logVars, commitVars>>

\* The consistency check passed: truncate what conflicts, append what is new,
\* adopt the last membership among it, follow the leader's commit index.  The
\* reply reports the last index of the whole log.
AcceptAppend(m) ==
  LET n == m.dst
      new == NewFrom(n, m.entries)
      first == Min(new)
      kept == SubSeq(log[n], 1,
                Min({Len(log[n]), m.entries[first].index - snapshot[n].index - 1}))
      added == SubSeq(m.entries, first, Len(m.entries))
      after == IF new = {} THEN log[n] ELSE kept \o added
      last == IF after = <<>> THEN snapshot[n].index ELSE after[Len(after)].index
  IN
  /\ log' = [log EXCEPT ![n] = after]
  /\ members' = [members EXCEPT ![n] =
                   IF new # {} /\ Configs(added) # {}
                   THEN added[Max(Configs(added))].command ELSE @]
  /\ IF m.commit > commitIndex[n]
     THEN CommitTo(n, Min({m.commit, last}), after, snapshot[n].index)
     ELSE UNCHANGED commitVars
  /\ Deliver(m, {AppendReply(n, m.src, m.term, TRUE, last, 0)})
  /\ UNCHANGED snapshot

\* Mutant: the previous entry is only looked at where the log has one.
ConsistentIfPresent(n, m) ==
  HasEntry(n, m.prevIndex) => TermAt(n, m.prevIndex) = m.prevTerm
\* The entry before the new ones is there, with the leader's term.
Consistent(n, m) == m.prevIndex = 0 \/ TermAt(n, m.prevIndex) = m.prevTerm

\* A message of a leader whose term is not behind: follow it.
FollowLeader(n, t) ==
  IF t > currentTerm[n] \/ role[n] # "follower"
  THEN BecomeFollower(n, t)
  ELSE UNCHANGED voteVars

OnAppend(m) ==
  LET n == m.dst IN
  /\ m.type = "AppendEntries"
  /\ IF m.term < currentTerm[n]
     THEN RejectAppend(m, currentTerm[n], 0) /\ UNCHANGED voteVars
     ELSE /\ FollowLeader(n, m.term)
          /\ IF Consistent(n, m)
             THEN AcceptAppend(m)
             ELSE RejectAppend(m, m.term, Conflict(n, m.prevIndex))
  /\ UNCHANGED <<leaderVars, elections, counters>>

\* _advance_commit: the highest index of the current term that enough of
\* match_index reaches, this node counted in.
AdvanceCommit(n, match) ==
  LET ready == {i \in commitIndex[n] + 1 .. LastIndex(n) :
                  /\ TermAt(n, i) = currentTerm[n]
                  /\ 1 + Cardinality({p \in DOMAIN match : match[p] >= i})
                       >= QuorumSize(members[n])}
  IN IF ready = {} THEN UNCHANGED commitVars
     ELSE CommitTo(n, Max(ready), log[n], snapshot[n].index)

\* A leader takes a reply at face value, whichever of its terms it answers.
OnAppendReply(m) ==
  LET n == m.dst
      back == Get(nextIndex[n], m.src, 1) - 1
      next == Max({1, IF m.conflict # 0 THEN m.conflict ELSE back})
  IN
  /\ m.type = "AppendReply" /\ m.term <= currentTerm[n]
  /\ UNCHANGED <<voteVars, logVars, elections, counters>>
  /\ IF role[n] # "leader"
     THEN Deliver(m, {}) /\ UNCHANGED <<leaderVars, commitVars>>
     ELSE IF m.success
     THEN /\ matchIndex' = [matchIndex EXCEPT ![n] = Put(@, m.src, m.match)]
          /\ nextIndex' = [nextIndex EXCEPT ![n] = Put(@, m.src, m.match + 1)]
          /\ AdvanceCommit(n, matchIndex'[n])
          /\ Deliver(m, {})
     ELSE /\ nextIndex' = [nextIndex EXCEPT ![n] = Put(@, m.src, next)]
          /\ UNCHANGED <<matchIndex, commitVars>>
          /\ Deliver(m, {AppendTo(n, m.src)'})

-----------------------------------------------------------------------------
(* Log compaction and snapshots *)

\* Mutant: compaction is clamped to the log and not to what was applied.
CompactTargetInLog(n, upTo) == Min({upTo, LastIndex(n)})
\* compact(up_to): the snapshot holds the machine as it is now.
CompactTarget(n, upTo) == Min({upTo, lastApplied[n]})
\* Mutant: one entry too many is dropped.
RetainedAfterNext(l, k) == SubSeq(l, k + 2, Len(l))
\* What compaction keeps of a log when it drops k entries.
Retained(l, k) == SubSeq(l, k + 1, Len(l))

Compact(n, upTo) ==
  LET target == CompactTarget(n, upTo) IN
  /\ compactions < MaxCompactions /\ compactions' = compactions + 1
  /\ target > snapshot[n].index
  /\ snapshot' = [snapshot EXCEPT ![n] =
       [index |-> target, term |-> TermAt(n, target), data |-> machine[n]]]
  /\ log' = [log EXCEPT ![n] = Retained(@, target - snapshot[n].index)]
  /\ UNCHANGED <<voteVars, members, commitVars, leaderVars, network, elections,
                 copies, ticks, reconfigs, restarts>>

OnInstallSnapshot(m) ==
  LET n == m.dst
      s == m.snapshot
      later == {i \in DOMAIN log[n] : log[n][i].index > s.index}
  IN
  /\ m.type = "InstallSnapshot"
  /\ IF m.term < currentTerm[n]
     THEN /\ Deliver(m, {InstallReply(n, m.src, currentTerm[n], snapshot[n].index)})
          /\ UNCHANGED <<voteVars, logVars, commitVars>>
     ELSE /\ FollowLeader(n, m.term)
          /\ IF s.index > snapshot[n].index
             THEN /\ log' = [log EXCEPT ![n] =
                               IF TermAt(n, s.index) = s.term /\ later # {}
                               THEN SubSeq(@, Min(later), Len(@)) ELSE <<>>]
                  /\ snapshot' = [snapshot EXCEPT ![n] = s]
                  /\ commitIndex' = [commitIndex EXCEPT ![n] = Max({@, s.index})]
                  /\ lastApplied' = [lastApplied EXCEPT ![n] = Max({@, s.index})]
                  /\ members' = [members EXCEPT ![n] = m.members]
                  /\ machine' = [machine EXCEPT ![n] = s.data]
             ELSE UNCHANGED <<logVars, commitVars>>
          /\ Deliver(m, {InstallReply(n, m.src, m.term, snapshot'[n].index)})
  /\ UNCHANGED <<leaderVars, elections, counters>>

OnInstallReply(m) ==
  LET n == m.dst IN
  /\ m.type = "InstallReply" /\ m.term <= currentTerm[n]
  /\ UNCHANGED <<voteVars, logVars, elections, counters>>
  /\ IF role[n] # "leader"
     THEN Deliver(m, {}) /\ UNCHANGED <<leaderVars, commitVars>>
     ELSE /\ matchIndex' = [matchIndex EXCEPT ![n] = Put(@, m.src, m.match)]
          /\ nextIndex' = [nextIndex EXCEPT ![n] = Put(@, m.src, m.match + 1)]
          /\ AdvanceCommit(n, matchIndex'[n])
          /\ Deliver(m, {AppendTo(n, m.src)'})

-----------------------------------------------------------------------------
(* Failures *)

\* A message is lost: unreachable peer, partition or drop rate.
Lose(m) ==
  /\ network' = network \ {m}
  /\ UNCHANGED <<voteVars, logVars, commitVars, leaderVars, elections, copies, counters>>

\* A process is started anew; nothing of a RaftNode is ever written to disk.
Restart(n) ==
  /\ restarts < MaxRestarts /\ restarts' = restarts + 1
  /\ role' = [role EXCEPT ![n] = "follower"]
  /\ currentTerm' = [currentTerm EXCEPT ![n] = 0]
  /\ votedFor' = [votedFor EXCEPT ![n] = Nobody]
  /\ votes' = [votes EXCEPT ![n] = {}]
  /\ members' = [members EXCEPT ![n] = InitialMembers \cup {n}]
  /\ log' = [log EXCEPT ![n] = <<>>]
  /\ snapshot' = [snapshot EXCEPT ![n] = [index |-> 0, term |-> 0, data |-> <<>>]]
  /\ commitIndex' = [commitIndex EXCEPT ![n] = 0]
  /\ lastApplied' = [lastApplied EXCEPT ![n] = 0]
  /\ machine' = [machine EXCEPT ![n] = <<>>]
  /\ nextIndex' = [nextIndex EXCEPT ![n] = [p \in {} |-> 0]]
  /\ matchIndex' = [matchIndex EXCEPT ![n] = [p \in {} |-> 0]]
  /\ UNCHANGED <<network, elections, copies, ticks, compactions, reconfigs>>

-----------------------------------------------------------------------------
\* handle(): one message, one reaction.
Handle(m) ==
  \/ OnRequestVote(m) \/ OnVoteReply(m)
  \/ OnAppend(m) \/ OnAppendReply(m)
  \/ OnInstallSnapshot(m) \/ OnInstallReply(m)
  \/ StepDown(m)

Next ==
  \/ \E n \in Nodes : StartElection(n) \/ Heartbeat(n) \/ Restart(n)
  \/ \E n \in Nodes, c \in Commands : ProposeCommand(n, c)
  \/ \E n \in Nodes, m \in Nodes : AddServer(n, m) \/ RemoveServer(n, m)
  \/ \E n \in Nodes, i \in 1..MaxLog : Compact(n, i)
  \/ \E m \in network : Handle(m) \/ Lose(m)

Spec == Init /\ [][Next]_vars

-----------------------------------------------------------------------------
(* Properties *)

Entries == [term : Nat, index : Nat, command : Commands \cup SUBSET Nodes]
Snapshots == [index : Nat, term : Nat, data : Seq(Commands)]
Messages ==
  [type : {"RequestVote"}, src : Nodes, dst : Nodes, term : Nat,
   lastIndex : Nat, lastTerm : Nat]
  \cup [type : {"RequestVoteReply"}, src : Nodes, dst : Nodes, term : Nat, granted : BOOLEAN]
  \cup [type : {"AppendEntries"}, src : Nodes, dst : Nodes, term : Nat, prevIndex : Nat,
        prevTerm : Nat, commit : Nat, entries : Seq(Entries)]
  \cup [type : {"AppendReply"}, src : Nodes, dst : Nodes, term : Nat, success : BOOLEAN,
        match : Nat, conflict : Nat]
  \cup [type : {"InstallSnapshot"}, src : Nodes, dst : Nodes, term : Nat,
        snapshot : Snapshots, members : SUBSET Nodes]
  \cup [type : {"InstallReply"}, src : Nodes, dst : Nodes, term : Nat, match : Nat]
IsPeerIndex(d) == DOMAIN d \subseteq Nodes /\ d \in [DOMAIN d -> Nat]

\* Every variable has its type: in particular indices and terms never become
\* negative, and every message under way is one that handle() knows.
TypeOK ==
  /\ role \in [Nodes -> {"follower", "candidate", "leader"}]
  /\ currentTerm \in [Nodes -> Nat] /\ votedFor \in [Nodes -> Nodes \cup {Nobody}]
  /\ votes \in [Nodes -> SUBSET Nodes] /\ members \in [Nodes -> SUBSET Nodes]
  /\ log \in [Nodes -> Seq(Entries)] /\ snapshot \in [Nodes -> Snapshots]
  /\ commitIndex \in [Nodes -> Nat] /\ lastApplied \in [Nodes -> Nat]
  /\ machine \in [Nodes -> Seq(Commands)]
  /\ DOMAIN nextIndex = Nodes /\ \A n \in Nodes : IsPeerIndex(nextIndex[n])
  /\ DOMAIN matchIndex = Nodes /\ \A n \in Nodes : IsPeerIndex(matchIndex[n])
  /\ network \subseteq Messages
  /\ elections \subseteq [term : Nat, leader : Nodes, votes : SUBSET Nodes]
  /\ copies \in Nat /\ ticks \in Nat /\ compactions \in Nat /\ reconfigs \in Nat /\ restarts \in Nat

\* At most one leader is ever elected in a term, whatever the network does: the
\* vote rule of _on_request_vote and the quorum of _on_vote_reply, although
\* _become_follower forgets the vote of the term it stays in.
ElectionSafety ==
  \A e, f \in elections : e.term = f.term => e.leader = f.leader

\* Two logs that hold an entry of the same index and term are the same up to it,
\* as far as both are retained: the consistency check and the truncation of
\* _on_append.
LogMatching ==
  \A n, p \in Nodes : \A i \in DOMAIN log[n], j \in DOMAIN log[p] :
    /\ log[n][i].index = log[p][j].index
    /\ log[n][i].term = log[p][j].term
    => \A d \in 0..Min({i, j}) - 1 : log[n][i - d] = log[p][j - d]

\* "A follower rejects anything that would create a hole": the retained log is
\* the run of entries that follows the snapshot, whatever _on_append, compact
\* and _on_install_snapshot make of it.
NoHoles ==
  \A n \in Nodes : \A i \in DOMAIN log[n] : log[n][i].index = snapshot[n].index + i

\* A leader never drops or rewrites an entry of its own log: what it held it
\* still holds, in its log or folded into its snapshot.
LeaderAppendOnly ==
  [][\A n \in Nodes : role[n] = "leader" /\ role'[n] = "leader" =>
       \A i \in DOMAIN log[n] :
         \/ log[n][i].index <= snapshot'[n].index
         \/ \E j \in DOMAIN log'[n] : log'[n][j] = log[n][i]]_vars

\* "Only applied entries may be discarded": a snapshot never covers what its
\* node has not applied, whether compact() took it or a leader sent it.
OnlyAppliedCompacted == \A n \in Nodes : snapshot[n].index <= lastApplied[n]

\* A leader knows the replication state of each of its peers, through every
\* membership change and restart: _append_to and _advance_commit miss nobody.
LeaderTracksPeers ==
  \A n \in Nodes : role[n] = "leader" =>
    Peers(n) \subseteq DOMAIN nextIndex[n] \cap DOMAIN matchIndex[n]

\* A leader commits by its replies only what a quorum of its members holds: an
\* entry of its own term is in the log, or behind the snapshot, of a quorum.
Holds(p, e) == e.index <= snapshot[p].index \/ \E i \in DOMAIN log[p] : log[p][i] = e
CommittedOnQuorum ==
  \A n \in Nodes :
    role[n] = "leader" /\ HasEntry(n, commitIndex[n])
      /\ EntryAt(n, commitIndex[n]).term = currentTerm[n] =>
        Cardinality({p \in members[n] : Holds(p, EntryAt(n, commitIndex[n]))})
          >= QuorumSize(members[n])
=============================================================================
