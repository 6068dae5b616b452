----------------------------- MODULE RaftProofs -----------------------------
(***************************************************************************)
(* Proofs about Raft for a cluster of any size, with any number of terms,  *)
(* entries, messages, losses and repetitions.                              *)
(*                                                                         *)
(* First the election safety of a cluster whose membership stays as it is  *)
(* and none of whose processes is started anew.  The textbook argument,    *)
(* one vote per node and term, is not available: a candidate that meets    *)
(* the leader of its own term forgets that it voted for itself and may     *)
(* vote again.  What remains true is that a vote for somebody else is      *)
(* never taken back, that a node which gave one has not won and will not   *)
(* win the term, and that a winner does not meet another leader of its     *)
(* term.                                                                   *)
(*                                                                         *)
(* Then the logs, with restarts, compactions and membership changes:       *)
(* types, what a snapshot may fold in, the replication state of a leader,  *)
(* logs without holes, and leaders that keep what they have.  The last two *)
(* need that compact() finds the entry it compacts up to (CompactsHeld).   *)
(* Last, for a cluster that elects one leader per term and does not        *)
(* compact, logs that match.                                               *)
(***************************************************************************)
EXTENDS Raft, BasicLemmas, SequenceTheorems, FiniteSetTheorems, TLAPS

\* Every node knows the same members, all of them, and none was restarted.
Stable == members = [n \in Nodes |-> Nodes] /\ restarts = 0

\* n won term t.
Won(n, t) == \E e \in elections : e.term = t /\ e.leader = n

\* v's vote for n in term t counted, counts, or is on its way.
Gave(v, n, t) ==
  \/ \E e \in elections : e.term = t /\ e.leader = n /\ v \in e.votes
  \/ \E m \in network : m.type = "RequestVoteReply" /\ m.granted
                        /\ m.src = v /\ m.dst = n /\ m.term = t
  \/ role[n] # "follower" /\ currentTerm[n] = t /\ v \in votes[n]

FromLeader(m) == m.type \in {"AppendEntries", "InstallSnapshot"}

VoteTypes ==
  /\ role \in [Nodes -> {"follower", "candidate", "leader"}]
  /\ currentTerm \in [Nodes -> Nat]
  /\ votedFor \in [Nodes -> Nodes \cup {Nobody}]
  /\ votes \in [Nodes -> SUBSET Nodes]
  /\ elections \subseteq [term : Nat, leader : Nodes, votes : SUBSET Nodes]

\* Nobody writes to itself, and only the winner of a term speaks as its leader.
NetworkInv ==
  \A m \in network :
    /\ m.src \in Nodes /\ m.dst \in Nodes /\ m.src # m.dst /\ m.term \in Nat
    /\ FromLeader(m) => Won(m.src, m.term)

RoleInv ==
  \A n \in Nodes :
    /\ role[n] # "follower" => votedFor[n] = n
    /\ role[n] = "leader" => Won(n, currentTerm[n])

\* A winner had a quorum, and leads until it leaves the term.
WinnerInv ==
  \A e \in elections :
    /\ Cardinality(e.votes) >= QuorumSize(Nodes)
    /\ \/ currentTerm[e.leader] > e.term
       \/ currentTerm[e.leader] = e.term /\ role[e.leader] = "leader"

\* A vote for another node is remembered until its term is over, and whoever
\* gave it has not won that term.
GaveInv ==
  \A v, n \in Nodes, t \in Nat : Gave(v, n, t) /\ v # n =>
    /\ currentTerm[v] > t \/ (currentTerm[v] = t /\ votedFor[v] = n)
    /\ ~Won(v, t)

\* It is given to one node only.
OnceInv ==
  \A v, n, p \in Nodes, t \in Nat :
    Gave(v, n, t) /\ Gave(v, p, t) /\ v # n /\ v # p => n = p

VoteInv ==
  /\ VoteTypes /\ NetworkInv /\ RoleInv /\ WinnerInv /\ GaveInv /\ OnceInv
  /\ ElectionSafety

-----------------------------------------------------------------------------
(* Steps that give no vote and elect nobody *)

\* A message that carries no vote.
Harmless(m) ==
  /\ m.src \in Nodes /\ m.dst \in Nodes /\ m.src # m.dst /\ m.term \in Nat
  /\ m.type # "RequestVoteReply"
  /\ FromLeader(m) => Won(m.src, m.term)

\* Sending such messages, and losing or consuming others, keeps the invariant.
LEMMA QuietStep ==
  ASSUME VoteInv, UNCHANGED <<voteVars, elections>>,
         \A m \in network' : m \in network \/ Harmless(m)
  PROVE  VoteInv'
<1> USE DEF VoteInv, voteVars
<1>1. VoteTypes'
  BY DEF VoteTypes
<1>2. \A n, t : Won(n, t)' <=> Won(n, t)
  BY DEF Won
<1>3. \A v, n, t : Gave(v, n, t)' => Gave(v, n, t)
  BY DEF Gave, Harmless
<1>4. NetworkInv'
  BY <1>2 DEF NetworkInv, Harmless, FromLeader
<1>5. RoleInv' /\ WinnerInv' /\ ElectionSafety'
  BY <1>2 DEF RoleInv, WinnerInv, ElectionSafety
<1>6. GaveInv' /\ OnceInv'
  BY <1>2, <1>3 DEF GaveInv, OnceInv
<1> QED BY <1>1, <1>4, <1>5, <1>6

\* So does following a leader or a later term, unless the node has won the term
\* it stays in.
LEMMA FollowStep ==
  ASSUME VoteInv, NEW n \in Nodes, NEW t \in Nat, BecomeFollower(n, t),
         t > currentTerm[n] \/ (t = currentTerm[n] /\ role[n] = "candidate"),
         UNCHANGED elections,
         \A m \in network' : m \in network \/ Harmless(m)
  PROVE  VoteInv'
<1> USE DEF VoteInv
<1>1. VoteTypes'
  BY DEF VoteTypes, BecomeFollower
<1>2. \A p, u : Won(p, u)' <=> Won(p, u)
  BY DEF Won
<1>3. /\ \A p \in Nodes : p # n => /\ role'[p] = role[p] /\ currentTerm'[p] = currentTerm[p]
                                   /\ votedFor'[p] = votedFor[p] /\ votes'[p] = votes[p]
      /\ role'[n] = "follower" /\ currentTerm'[n] = t
  BY DEF VoteTypes, BecomeFollower
<1>4. \A v, p \in Nodes, u \in Nat : Gave(v, p, u)' => Gave(v, p, u)
  BY <1>3 DEF Gave, Harmless
<1>5. NetworkInv'
  BY <1>2 DEF NetworkInv, Harmless, FromLeader
<1>6. RoleInv'
  BY <1>2, <1>3 DEF RoleInv
<1>7. WinnerInv' /\ ElectionSafety'
  BY <1>2, <1>3 DEF WinnerInv, ElectionSafety, VoteTypes
<1>8. GaveInv'
  <2> SUFFICES ASSUME NEW v \in Nodes, NEW p \in Nodes, NEW u \in Nat, Gave(v, p, u)', v # p
               PROVE  /\ currentTerm'[v] > u \/ (currentTerm'[v] = u /\ votedFor'[v] = p)
                      /\ ~Won(v, u)'
    BY DEF GaveInv
  <2>1. /\ currentTerm[v] > u \/ (currentTerm[v] = u /\ votedFor[v] = p)
        /\ ~Won(v, u)
    BY <1>4 DEF GaveInv
  <2>2. CASE v # n
    BY <2>1, <2>2, <1>2, <1>3
  <2>3. CASE v = n
    BY <2>1, <2>3, <1>2, <1>3 DEF RoleInv, VoteTypes
  <2> QED BY <2>2, <2>3
<1>9. OnceInv'
  BY <1>4 DEF OnceInv
<1> QED BY <1>1, <1>5, <1>6, <1>7, <1>8, <1>9

-----------------------------------------------------------------------------
(* Messages of a leader *)

\* What _append_to builds, whether entries or a snapshot.
LEMMA AppendToShape ==
  ASSUME NEW n \in Nodes, NEW p \in Nodes
  PROVE  LET m == AppendTo(n, p)' IN
           /\ FromLeader(m) /\ m.type # "RequestVoteReply"
           /\ m.src = n /\ m.dst = p /\ m.term = currentTerm'[n]
  BY DEF AppendTo, FromLeader

\* A broadcast goes to the other nodes.
LEMMA BroadcastShape ==
  ASSUME NEW n \in Nodes, Stable', NEW m \in BroadcastAppend(n)'
  PROVE  /\ FromLeader(m) /\ m.type # "RequestVoteReply"
         /\ m.src = n /\ m.dst \in Nodes \ {n} /\ m.term = currentTerm'[n]
<1>1. PICK p \in Nodes \ {n} : m = AppendTo(n, p)'
  BY DEF BroadcastAppend, Peers, Stable
<1> QED BY <1>1, AppendToShape

\* Two quorums have a node in common.
LEMMA QuorumsMeet ==
  ASSUME NEW A \in SUBSET Nodes, NEW B \in SUBSET Nodes,
         Cardinality(A) >= QuorumSize(Nodes), Cardinality(B) >= QuorumSize(Nodes)
  PROVE  \E v \in Nodes : v \in A /\ v \in B
<1>1. /\ IsFiniteSet(Nodes) /\ IsFiniteSet(A) /\ IsFiniteSet(B)
      /\ Cardinality(Nodes) \in Nat /\ Cardinality(A) \in Nat /\ Cardinality(B) \in Nat
  BY NodesAssumption, FS_Subset, FS_CardinalityType
<1>2. Cardinality(A) + Cardinality(B) > Cardinality(Nodes)
  BY <1>1, SMT DEF QuorumSize
<1>3. A \cap B # {}
  BY <1>1, <1>2, FS_MajoritiesIntersect
<1> QED BY <1>3

-----------------------------------------------------------------------------
(* Elections *)

\* An election timeout: the node enters a new term, alone or as a candidate.
LEMMA StartElectionStep ==
  ASSUME VoteInv, Stable, Stable', NEW n \in Nodes, StartElection(n)
  PROVE  VoteInv'
<1> USE DEF VoteInv
<1> DEFINE t == currentTerm[n] + 1
<1>1. /\ t \in Nat /\ t > currentTerm[n] /\ role[n] # "leader"
      /\ currentTerm' = [currentTerm EXCEPT ![n] = t]
      /\ votedFor' = [votedFor EXCEPT ![n] = n]
      /\ votes' = [votes EXCEPT ![n] = {n}]
  BY DEF StartElection, VoteTypes
<1>2. Peers(n) = Nodes \ {n}
  BY DEF Peers, Stable
<1>3. CASE Peers(n) = {}
  <2>1. /\ role' = [role EXCEPT ![n] = "leader"] /\ network' = network
        /\ elections' = elections \cup {[term |-> t, leader |-> n, votes |-> {n}]}
    BY <1>3 DEF StartElection, BecomeLeader, Send
  <2>2. Nodes = {n}
    BY <1>2, <1>3
  <2>3. VoteTypes'
    BY <1>1, <2>1 DEF VoteTypes
  <2>4. NetworkInv'
    BY <2>1, <2>2 DEF NetworkInv
  <2>5. role'[n] = "leader" /\ currentTerm'[n] = t /\ votedFor'[n] = n
    BY <1>1, <2>1 DEF VoteTypes
  <2>6. RoleInv'
    <3>1. [term |-> t, leader |-> n, votes |-> {n}] \in elections'
      BY <2>1
    <3>2. \E e \in elections' : e.term = t /\ e.leader = n
      BY <3>1
    <3>3. ASSUME NEW p \in Nodes PROVE p = n
      BY <2>2
    <3> QED BY <2>5, <3>2, <3>3 DEF RoleInv, Won
  <2>8. WinnerInv'
    <3>1. Cardinality({n}) = 1
      BY FS_Singleton
    <3>2. QuorumSize(Nodes) = 1
      BY <2>2, <3>1, SMT DEF QuorumSize
    <3> SUFFICES ASSUME NEW e \in elections'
                 PROVE  /\ Cardinality(e.votes) >= 1
                        /\ \/ currentTerm'[e.leader] > e.term
                           \/ currentTerm'[e.leader] = e.term /\ role'[e.leader] = "leader"
      BY <3>2 DEF WinnerInv
    <3>3. CASE e \in elections
      <4>1. e.term \in Nat /\ e.leader = n /\ currentTerm[n] \in Nat
        BY <2>2, <3>3 DEF VoteTypes
      <4>2. Cardinality(e.votes) >= 1 /\ currentTerm[n] >= e.term
        BY <3>2, <3>3, <4>1 DEF WinnerInv
      <4> QED BY <1>1, <2>5, <4>1, <4>2
    <3>4. CASE e = [term |-> t, leader |-> n, votes |-> {n}]
      BY <2>5, <3>1, <3>4
    <3> QED BY <2>1, <3>3, <3>4
  <2>7. GaveInv' /\ OnceInv' /\ ElectionSafety'
    BY <2>2, <2>3 DEF GaveInv, OnceInv, ElectionSafety, VoteTypes
  <2> QED BY <2>3, <2>4, <2>6, <2>7, <2>8
<1>4. CASE Peers(n) # {}
  <2>1. /\ role' = [role EXCEPT ![n] = "candidate"] /\ elections' = elections
        /\ network' = network \cup {RequestVote(n, p, t) : p \in Peers(n)}
    BY <1>4 DEF StartElection, Send
  <2>2. \A m \in network' : m \in network \/ Harmless(m)
    BY <1>1, <1>2, <2>1 DEF RequestVote, Harmless, FromLeader
  <2>3. VoteTypes'
    BY <1>1, <2>1 DEF VoteTypes
  <2>4. \A p, u : Won(p, u)' <=> Won(p, u)
    BY <2>1 DEF Won
  <2>5. /\ \A p \in Nodes : p # n =>
              /\ role'[p] = role[p] /\ currentTerm'[p] = currentTerm[p]
              /\ votedFor'[p] = votedFor[p] /\ votes'[p] = votes[p]
        /\ role'[n] = "candidate" /\ currentTerm'[n] = t /\ votedFor'[n] = n
        /\ votes'[n] = {n}
    BY <1>1, <2>1 DEF VoteTypes
  <2>6. \A v, p \in Nodes, u \in Nat : Gave(v, p, u)' /\ v # p => Gave(v, p, u)
    BY <2>1, <2>2, <2>5 DEF Gave, Harmless
  <2>7. NetworkInv'
    BY <2>2, <2>4 DEF NetworkInv, Harmless, FromLeader
  <2>8. RoleInv' /\ WinnerInv' /\ ElectionSafety'
    BY <1>1, <2>1, <2>4, <2>5 DEF RoleInv, WinnerInv, ElectionSafety, VoteTypes
  <2>9. GaveInv'
    <3> SUFFICES ASSUME NEW v \in Nodes, NEW p \in Nodes, NEW u \in Nat, Gave(v, p, u)', v # p
                 PROVE  /\ currentTerm'[v] > u \/ (currentTerm'[v] = u /\ votedFor'[v] = p)
                        /\ ~Won(v, u)'
      BY DEF GaveInv
    <3>1. /\ currentTerm[v] > u \/ (currentTerm[v] = u /\ votedFor[v] = p)
          /\ ~Won(v, u)
      BY <2>6 DEF GaveInv
    <3> QED BY <3>1, <1>1, <2>4, <2>5 DEF VoteTypes
  <2>10. OnceInv'
    BY <2>6 DEF OnceInv
  <2> QED BY <2>3, <2>7, <2>8, <2>9, <2>10
<1> QED BY <1>3, <1>4

\* A request for a vote, granted or not.
LEMMA RequestVoteStep ==
  ASSUME VoteInv, NEW m \in network, OnRequestVote(m)
  PROVE  VoteInv'
<1> USE DEF VoteInv
<1> DEFINE n == m.dst
           c == m.src
           newTerm == m.term > currentTerm[n]
           vote == IF newTerm THEN Nobody ELSE votedFor[n]
           granted == Grants(n, vote, m)
           reply == RequestVoteReply(n, c, currentTerm'[n], granted)
<1>1. n \in Nodes /\ c \in Nodes /\ n # c /\ m.term \in Nat
  BY DEF NetworkInv
<1>2. /\ currentTerm' = [currentTerm EXCEPT ![n] = IF newTerm THEN m.term ELSE @]
      /\ role' = [role EXCEPT ![n] = IF newTerm THEN "follower" ELSE @]
      /\ votes' = [votes EXCEPT ![n] = IF newTerm THEN {} ELSE @]
      /\ votedFor' = [votedFor EXCEPT ![n] = IF granted THEN c ELSE vote]
      /\ elections' = elections
      /\ \A x \in network' : x \in network \/ x = reply
  BY DEF OnRequestVote, Deliver
<1>3. granted => m.term >= currentTerm[n] /\ vote \in {Nobody, c}
  BY DEF Grants
<1> HIDE DEF granted
<1>4. /\ \A p \in Nodes : p # n =>
            /\ role'[p] = role[p] /\ currentTerm'[p] = currentTerm[p]
            /\ votedFor'[p] = votedFor[p] /\ votes'[p] = votes[p]
      /\ newTerm => role'[n] = "follower" /\ currentTerm'[n] = m.term
      /\ ~newTerm => role'[n] = role[n] /\ currentTerm'[n] = currentTerm[n] /\ votes'[n] = votes[n]
      /\ votedFor'[n] = IF granted THEN c ELSE vote
  BY <1>1, <1>2 DEF VoteTypes
<1>5. VoteTypes'
  BY <1>1, <1>2 DEF VoteTypes
<1>6. \A p, u : Won(p, u)' <=> Won(p, u)
  BY <1>2 DEF Won
<1>7. currentTerm[n] \in Nat /\ (granted => currentTerm'[n] = m.term)
  BY <1>1, <1>3, <1>4 DEF VoteTypes
<1>8. /\ reply.type = "RequestVoteReply" /\ reply.granted = granted /\ reply.src = n
      /\ reply.dst = c /\ reply.term = currentTerm'[n]
  BY DEF RequestVoteReply
<1> HIDE DEF reply
<1>9. \A v, p \in Nodes, u \in Nat : Gave(v, p, u)' =>
        Gave(v, p, u) \/ (granted /\ v = n /\ p = c /\ u = m.term)
  BY <1>2, <1>4, <1>7, <1>8 DEF Gave
<1>10. NetworkInv'
  BY <1>1, <1>2, <1>5, <1>6, <1>8 DEF NetworkInv, FromLeader, VoteTypes
<1>11. RoleInv'
  BY <1>1, <1>3, <1>4, <1>6, NodesAssumption DEF RoleInv
<1>12. WinnerInv' /\ ElectionSafety'
  BY <1>1, <1>2, <1>4, <1>7 DEF WinnerInv, ElectionSafety, VoteTypes
<1>13. GaveInv'
  <2> SUFFICES ASSUME NEW v \in Nodes, NEW p \in Nodes, NEW u \in Nat, Gave(v, p, u)', v # p
               PROVE  /\ currentTerm'[v] > u \/ (currentTerm'[v] = u /\ votedFor'[v] = p)
                      /\ ~Won(v, u)'
    BY DEF GaveInv
  <2>1. CASE Gave(v, p, u)
    <3>1. /\ currentTerm[v] > u \/ (currentTerm[v] = u /\ votedFor[v] = p)
          /\ ~Won(v, u)
      BY <2>1 DEF GaveInv
    <3>2. CASE v # n
      BY <3>1, <3>2, <1>4, <1>6
    <3>3. CASE v = n
      BY <3>1, <3>3, <1>1, <1>3, <1>4, <1>6, <1>7, NodesAssumption
    <3> QED BY <3>2, <3>3
  <2>2. CASE granted /\ v = n /\ p = c /\ u = m.term
    <3>1. ~Won(n, m.term)
      BY <2>2, <1>1, <1>3, <1>7, NodesAssumption DEF Won, WinnerInv, RoleInv, VoteTypes
    <3> QED BY <2>2, <3>1, <1>4, <1>6, <1>7
  <2> QED BY <1>9, <2>1, <2>2
<1>14. OnceInv'
  <2>1. ASSUME NEW p \in Nodes, p # n, granted, Gave(n, p, m.term)
        PROVE  p = c
    BY <2>1, <1>1, <1>3, <1>7, NodesAssumption DEF GaveInv
  <2> QED BY <1>1, <1>9, <2>1 DEF OnceInv
<1> QED BY <1>5, <1>10, <1>11, <1>12, <1>13, <1>14

\* A reply to a candidate: its last missing vote makes it leader.
LEMMA VoteReplyStep ==
  ASSUME VoteInv, Stable, Stable', NEW m \in network, OnVoteReply(m)
  PROVE  VoteInv'
<1> USE DEF VoteInv
<1> DEFINE n == m.dst
           t == m.term
           voters == votes[n] \cup {m.src}
<1>1. n \in Nodes /\ m.src \in Nodes /\ n # m.src /\ t \in Nat
  BY DEF NetworkInv
<1>2. m.type = "RequestVoteReply" /\ UNCHANGED <<currentTerm, votedFor>>
  BY DEF OnVoteReply
<1>3. CASE ~(role[n] = "candidate" /\ t = currentTerm[n] /\ m.granted)
  <2>1. UNCHANGED <<voteVars, elections>> /\ \A x \in network' : x \in network
    BY <1>2, <1>3 DEF OnVoteReply, Deliver, voteVars
  <2> QED BY <2>1, QuietStep
<1>4. CASE role[n] = "candidate" /\ t = currentTerm[n] /\ m.granted
  <2>1. votes' = [votes EXCEPT ![n] = voters]
    BY <1>4 DEF OnVoteReply
  <2>2. \A v \in voters : Gave(v, n, t)
    BY <1>2, <1>4 DEF Gave
  <2>3. voters \in SUBSET Nodes /\ votedFor[n] = n
    BY <1>1, <1>4 DEF VoteTypes, RoleInv
  <2>4. CASE ~(Cardinality(voters) >= QuorumSize(members[n]))
    <3>1. UNCHANGED <<role, elections>> /\ \A x \in network' : x \in network
      BY <1>4, <2>4 DEF OnVoteReply, Deliver
    <3>2. VoteTypes'
      BY <1>2, <2>1, <2>3, <3>1 DEF VoteTypes
    <3>3. \A p, u : Won(p, u)' <=> Won(p, u)
      BY <3>1 DEF Won
    <3>4. \A p \in Nodes : votes'[p] = IF p = n THEN voters ELSE votes[p]
      BY <2>1 DEF VoteTypes
    <3>5. \A v, p \in Nodes, u \in Nat : Gave(v, p, u)' => Gave(v, p, u)
      BY <1>2, <1>4, <2>2, <3>1, <3>4 DEF Gave
    <3>6. NetworkInv'
      BY <3>1, <3>3 DEF NetworkInv
    <3>7. RoleInv' /\ WinnerInv' /\ ElectionSafety'
      BY <1>2, <3>1, <3>3 DEF RoleInv, WinnerInv, ElectionSafety
    <3>8. GaveInv' /\ OnceInv'
      BY <1>2, <3>3, <3>5 DEF GaveInv, OnceInv
    <3> QED BY <3>2, <3>6, <3>7, <3>8
  <2>5. CASE Cardinality(voters) >= QuorumSize(members[n])
    <3> DEFINE new == [term |-> t, leader |-> n, votes |-> voters]
    <3>1. /\ role' = [role EXCEPT ![n] = "leader"]
          /\ elections' = elections \cup {new}
          /\ \A x \in network' : x \in network \/ x \in BroadcastAppend(n)'
      BY <1>4, <2>5 DEF OnVoteReply, BecomeLeader, Deliver
    <3>2. /\ new.term = t /\ new.leader = n /\ new.votes = voters
          /\ new \in [term : Nat, leader : Nodes, votes : SUBSET Nodes]
          /\ Cardinality(new.votes) >= QuorumSize(Nodes)
      BY <1>1, <2>3, <2>5 DEF Stable
    <3> HIDE DEF new
    <3>3. VoteTypes'
      BY <1>1, <1>2, <2>1, <2>3, <3>1, <3>2 DEF VoteTypes
    <3>4. /\ \A p \in Nodes : votes'[p] = IF p = n THEN voters ELSE votes[p]
          /\ \A p \in Nodes : role'[p] = IF p = n THEN "leader" ELSE role[p]
      BY <2>1, <3>1 DEF VoteTypes
    <3>5. \A p, u : Won(p, u)' <=> Won(p, u) \/ (p = n /\ u = t)
      BY <3>1, <3>2 DEF Won
    <3>6. \A x \in BroadcastAppend(n)' :
            /\ FromLeader(x) /\ x.type # "RequestVoteReply"
            /\ x.src = n /\ x.dst \in Nodes \ {n} /\ x.term = t
      BY <1>1, <1>2, <1>4, BroadcastShape
    <3>7. \A v, p \in Nodes, u \in Nat : Gave(v, p, u)' => Gave(v, p, u)
      BY <1>2, <1>4, <2>2, <3>1, <3>2, <3>4, <3>6 DEF Gave
    <3>8. NetworkInv'
      BY <1>1, <3>1, <3>5, <3>6 DEF NetworkInv
    <3>9. RoleInv'
      BY <1>2, <1>4, <2>3, <3>4, <3>5 DEF RoleInv
    <3>10. WinnerInv'
      <4>1. ASSUME NEW e \in elections
            PROVE  /\ Cardinality(e.votes) >= QuorumSize(Nodes)
                   /\ \/ currentTerm'[e.leader] > e.term
                      \/ currentTerm'[e.leader] = e.term /\ role'[e.leader] = "leader"
        <5>1. e.leader \in Nodes
          BY DEF VoteTypes
        <5> QED BY <1>2, <3>4, <5>1 DEF WinnerInv
      <4>2. currentTerm'[n] = t /\ role'[n] = "leader"
        BY <1>1, <1>2, <1>4, <3>4
      <4> QED BY <3>1, <3>2, <4>1, <4>2 DEF WinnerInv
    <3>11. \A p \in Nodes : Gave(n, p, t) => p = n
      BY <1>1, <1>4, <2>3 DEF GaveInv, VoteTypes
    <3>12. GaveInv'
      BY <1>2, <3>5, <3>7, <3>11 DEF GaveInv
    <3>13. OnceInv'
      BY <3>7 DEF OnceInv
    <3>14. ElectionSafety'
      <4>1. ASSUME NEW f \in elections, f.term = t
            PROVE  f.leader = n
        <5>1. /\ f.votes \in SUBSET Nodes /\ f.leader \in Nodes
              /\ Cardinality(f.votes) >= QuorumSize(Nodes)
          BY DEF VoteTypes, WinnerInv
        <5>2. PICK v \in Nodes : v \in f.votes /\ v \in voters
          BY <2>3, <3>2, <5>1, QuorumsMeet
        <5>3. Gave(v, f.leader, t) /\ Gave(v, n, t) /\ Won(f.leader, t)
          BY <2>2, <4>1, <5>2 DEF Gave, Won
        <5>4. CASE v = n
          BY <3>11, <5>1, <5>3, <5>4
        <5>5. CASE v = f.leader
          BY <1>1, <5>1, <5>3, <5>5 DEF GaveInv
        <5>6. CASE v # n /\ v # f.leader
          BY <1>1, <5>1, <5>3, <5>6 DEF OnceInv
        <5> QED BY <5>4, <5>5, <5>6
      <4> QED BY <3>1, <3>2, <4>1 DEF ElectionSafety
    <3> QED BY <3>3, <3>8, <3>9, <3>10, <3>12, <3>13, <3>14
  <2> QED BY <2>4, <2>5
<1> QED BY <1>3, <1>4

-----------------------------------------------------------------------------
(* The other handlers, and the theorem *)

\* A leader that only sends.
LEMMA SendStep ==
  ASSUME VoteInv, Stable', NEW n \in Nodes, role[n] = "leader",
         UNCHANGED <<voteVars, elections>>,
         \A x \in network' : x \in network \/ x \in BroadcastAppend(n)'
  PROVE  VoteInv'
<1>1. \A x \in BroadcastAppend(n)' :
        /\ FromLeader(x) /\ x.type # "RequestVoteReply"
        /\ x.src = n /\ x.dst \in Nodes \ {n} /\ x.term = currentTerm[n]
  BY BroadcastShape DEF voteVars
<1>2. \A x \in BroadcastAppend(n)' : Harmless(x)
  BY <1>1 DEF Harmless, VoteInv, VoteTypes, RoleInv
<1> QED BY <1>2, QuietStep

\* A leader that answers a reply with the next entries or the snapshot.
LEMMA AnswerStep ==
  ASSUME VoteInv, NEW n \in Nodes, NEW p \in Nodes, n # p, role[n] = "leader",
         UNCHANGED <<voteVars, elections>>,
         \A x \in network' : x \in network \/ x = AppendTo(n, p)'
  PROVE  VoteInv'
<1>1. Harmless(AppendTo(n, p)')
  BY AppendToShape DEF Harmless, VoteInv, VoteTypes, RoleInv, voteVars
<1> QED BY <1>1, QuietStep

\* A message of a leader whose term is not behind.
LEMMA FollowLeaderStep ==
  ASSUME VoteInv, NEW m \in network, FromLeader(m), m.term >= currentTerm[m.dst],
         FollowLeader(m.dst, m.term), UNCHANGED elections,
         \A x \in network' : x \in network \/ Harmless(x)
  PROVE  VoteInv'
<1> DEFINE n == m.dst
<1>1. /\ n \in Nodes /\ m.src \in Nodes /\ n # m.src /\ m.term \in Nat
      /\ Won(m.src, m.term) /\ currentTerm[n] \in Nat
  BY DEF VoteInv, NetworkInv, VoteTypes
<1>2. ~(m.term = currentTerm[n] /\ role[n] = "leader")
  BY <1>1 DEF VoteInv, RoleInv, Won, ElectionSafety
<1>3. CASE m.term > currentTerm[n] \/ role[n] # "follower"
  <2>1. BecomeFollower(n, m.term)
    BY <1>3 DEF FollowLeader
  <2>2. m.term > currentTerm[n] \/ (m.term = currentTerm[n] /\ role[n] = "candidate")
    BY <1>1, <1>2, <1>3 DEF VoteInv, VoteTypes
  <2> QED BY <1>1, <2>1, <2>2, FollowStep
<1>4. CASE ~(m.term > currentTerm[n] \/ role[n] # "follower")
  BY <1>4, QuietStep DEF FollowLeader
<1> QED BY <1>3, <1>4

\* The invariant holds at the start.
LEMMA VoteInit ==
  Init => VoteInv
  BY DEF Init, VoteInv, VoteTypes, NetworkInv, RoleInv, WinnerInv, GaveInv, OnceInv,
         ElectionSafety, Gave, Won

\* Every message handler keeps the invariant.
LEMMA HandleStep ==
  ASSUME VoteInv, Stable, Stable', NEW m \in network, Handle(m)
  PROVE  VoteInv'
<1>1. /\ m.dst \in Nodes /\ m.src \in Nodes /\ m.dst # m.src /\ m.term \in Nat
      /\ currentTerm[m.dst] \in Nat
  BY DEF VoteInv, NetworkInv, VoteTypes
<1>2. CASE OnRequestVote(m)
  BY <1>2, RequestVoteStep
<1>3. CASE OnVoteReply(m)
  BY <1>3, VoteReplyStep
<1>4. CASE OnAppend(m)
  <2>1. /\ FromLeader(m) /\ UNCHANGED elections
        /\ \/ m.term < currentTerm[m.dst] /\ UNCHANGED voteVars
           \/ m.term >= currentTerm[m.dst] /\ FollowLeader(m.dst, m.term)
    BY <1>1, <1>4 DEF OnAppend, FromLeader
  <2>2. \A x \in network' : x \in network \/ Harmless(x)
    <3>1. ASSUME NEW r, Harmless(r), Deliver(m, {r})
          PROVE  \A x \in network' : x \in network \/ Harmless(x)
      BY <3>1 DEF Deliver
    <3>2. CASE m.term < currentTerm[m.dst]
      <4> DEFINE r == AppendReply(m.dst, m.src, currentTerm[m.dst], FALSE, 0, 0)
      <4>1. Deliver(m, {r})
        BY <1>4, <3>2 DEF OnAppend, RejectAppend
      <4>2. Harmless(r)
        BY <1>1 DEF AppendReply, Harmless, FromLeader
      <4> HIDE DEF r
      <4> QED BY <3>1, <4>1, <4>2
    <3>3. CASE AcceptAppend(m)
      <4>1. PICK last : Deliver(m, {AppendReply(m.dst, m.src, m.term, TRUE, last, 0)})
        BY <3>3 DEF AcceptAppend
      <4> DEFINE r == AppendReply(m.dst, m.src, m.term, TRUE, last, 0)
      <4>2. Harmless(r)
        BY <1>1 DEF AppendReply, Harmless, FromLeader
      <4>3. Deliver(m, {r})
        BY <4>1
      <4> HIDE DEF r
      <4> QED BY <3>1, <4>2, <4>3
    <3>4. CASE RejectAppend(m, m.term, Conflict(m.dst, m.prevIndex))
      <4> DEFINE c == Conflict(m.dst, m.prevIndex)
                 r == AppendReply(m.dst, m.src, m.term, FALSE, 0, c)
      <4>1. Deliver(m, {r})
        BY <3>4 DEF RejectAppend
      <4> HIDE DEF c
      <4>2. Harmless(r)
        BY <1>1 DEF AppendReply, Harmless, FromLeader
      <4> HIDE DEF r
      <4> QED BY <3>1, <4>1, <4>2
    <3> QED BY <1>4, <3>2, <3>3, <3>4 DEF OnAppend
  <2> QED BY <2>1, <2>2, QuietStep, FollowLeaderStep
<1>5. CASE OnInstallSnapshot(m)
  <2>1. /\ FromLeader(m) /\ UNCHANGED elections
        /\ \/ m.term < currentTerm[m.dst] /\ UNCHANGED voteVars
           \/ m.term >= currentTerm[m.dst] /\ FollowLeader(m.dst, m.term)
    BY <1>1, <1>5 DEF OnInstallSnapshot, FromLeader
  <2>2. \A x \in network' : x \in network \/ Harmless(x)
    BY <1>1, <1>5 DEF OnInstallSnapshot, Deliver, InstallReply, Harmless, FromLeader
  <2> QED BY <2>1, <2>2, QuietStep, FollowLeaderStep
<1>6. CASE OnAppendReply(m)
  <2>1. /\ UNCHANGED <<voteVars, elections>>
        /\ \/ \A x \in network' : x \in network
           \/ /\ role[m.dst] = "leader"
              /\ \A x \in network' : x \in network \/ x = AppendTo(m.dst, m.src)'
    BY <1>6 DEF OnAppendReply, Deliver
  <2> QED BY <1>1, <2>1, QuietStep, AnswerStep
<1>7. CASE OnInstallReply(m)
  <2>1. /\ UNCHANGED <<voteVars, elections>>
        /\ \/ \A x \in network' : x \in network
           \/ /\ role[m.dst] = "leader"
              /\ \A x \in network' : x \in network \/ x = AppendTo(m.dst, m.src)'
    BY <1>7 DEF OnInstallReply, Deliver
  <2> QED BY <1>1, <2>1, QuietStep, AnswerStep
<1>8. CASE StepDown(m)
  <2>1. /\ BecomeFollower(m.dst, m.term) /\ m.term > currentTerm[m.dst]
        /\ UNCHANGED elections /\ \A x \in network' : x \in network
    BY <1>8 DEF StepDown, Deliver
  <2> QED BY <1>1, <2>1, FollowStep
<1> QED BY <1>2, <1>3, <1>4, <1>5, <1>6, <1>7, <1>8 DEF Handle

\* Every step of a stable cluster keeps the invariant.
LEMMA VoteStep ==
  ASSUME VoteInv, Stable, Stable', [Next]_vars
  PROVE  VoteInv'
<1>1. ASSUME NEW n \in Nodes, StartElection(n)
      PROVE  VoteInv'
  BY <1>1, StartElectionStep
<1>2. ASSUME NEW n \in Nodes, Heartbeat(n)
      PROVE  VoteInv'
  <2>1. BroadcastAppend(n)' = BroadcastAppend(n)
    <3>1. UNCHANGED <<currentTerm, log, snapshot, commitIndex, nextIndex, members>>
      BY <1>2 DEF Heartbeat, voteVars, logVars, commitVars, leaderVars
    <3> QED BY <3>1 DEF BroadcastAppend, Peers, AppendTo, Get, LastIndex, TermAt, HasEntry, EntryAt
  <2>2. /\ role[n] = "leader" /\ UNCHANGED <<voteVars, elections>>
        /\ \A x \in network' : x \in network \/ x \in BroadcastAppend(n)'
    BY <1>2, <2>1 DEF Heartbeat, Send
  <2> QED BY <2>2, SendStep
<1>3. ASSUME NEW n \in Nodes, Restart(n)
      PROVE  FALSE
  BY <1>3 DEF Restart, Stable
<1>4. ASSUME NEW n \in Nodes, NEW c, Propose(n, c)
      PROVE  VoteInv'
  <2>1. /\ role[n] = "leader" /\ UNCHANGED <<voteVars, elections>>
        /\ \A x \in network' : x \in network \/ x \in BroadcastAppend(n)'
    BY <1>4 DEF Propose, Send
  <2> QED BY <2>1, SendStep
<1>5. ASSUME NEW n \in Nodes, NEW i \in 1..MaxLog, Compact(n, i)
      PROVE  VoteInv'
  BY <1>5, QuietStep DEF Compact
<1>6. ASSUME NEW m \in network, Handle(m)
      PROVE  VoteInv'
  BY <1>6, HandleStep
<1>7. ASSUME NEW m \in network, Lose(m)
      PROVE  VoteInv'
  BY <1>7, QuietStep DEF Lose
<1>8. CASE UNCHANGED vars
  BY <1>8, QuietStep DEF vars
<1> QED BY <1>1, <1>2, <1>3, <1>4, <1>5, <1>6, <1>7, <1>8
        DEF Next, ProposeCommand, AddServer, RemoveServer, Reconfigure

\* A cluster whose membership does not change and whose processes keep running
\* elects at most one leader in a term, whatever the network does and although
\* _become_follower may forget a vote.
THEOREM OneLeaderPerTerm == Spec /\ []Stable => []ElectionSafety
<1>1. VoteInv /\ Stable /\ Stable' /\ [Next]_vars => VoteInv'
  BY VoteStep
<1>2. VoteInv => ElectionSafety
  BY DEF VoteInv
<1> QED BY <1>1, <1>2, VoteInit, PTL DEF Spec

-----------------------------------------------------------------------------
(* The commands of a log *)

\* One step of CommandsOf, and the function it takes the last value of.
UpTo(l, f, i) ==
  IF i = 0 THEN <<>>
  ELSE IF IsConfig(l[i].command) THEN f[i - 1] ELSE Append(f[i - 1], l[i].command)
Prefixes(l) == CHOOSE f : f = [i \in 0..Len(l) |-> UpTo(l, f, i)]

\* Such a function exists: prefix by prefix, the shortest one without it being
\* impossible.
LEMMA PrefixesExist ==
  ASSUME NEW l \in Seq(Entries)
  PROVE  \E f : f = [i \in 0..Len(l) |-> UpTo(l, f, i)]
<1> DEFINE Good(k) == \E g \in [0..k -> Seq(Commands)] : \A i \in 0..k : g[i] = UpTo(l, g, i)
           S == {k \in 0..Len(l) : ~ Good(k)}
<1>1. Len(l) \in Nat /\ \A i \in 1..Len(l) : l[i] \in Entries
  BY LenProperties, ElementOfSeq
<1>2. SUFFICES Good(Len(l))
  <2>1. PICK g \in [0..Len(l) -> Seq(Commands)] : \A i \in 0..Len(l) : g[i] = UpTo(l, g, i)
    BY <1>2
  <2>2. g = [i \in 0..Len(l) |-> UpTo(l, g, i)]
    BY <2>1
  <2> QED BY <2>2
<1>3. SUFFICES S = {}
  <2>1. Len(l) \in 0..Len(l)
    BY <1>1
  <2> HIDE DEF Good
  <2> QED BY <1>3, <2>1
<1>4. Good(0)
  <2> DEFINE g == [i \in 0..0 |-> <<>>]
  <2>1. g \in [0..0 -> Seq(Commands)]
    BY EmptySeq
  <2>2. \A i \in 0..0 : g[i] = UpTo(l, g, i)
    BY DEF UpTo
  <2> HIDE DEF g
  <2> QED BY <2>1, <2>2
<1>5. ASSUME NEW k \in 1..Len(l), Good(k - 1)
      PROVE  Good(k)
  <2>1. PICK g \in [0..k - 1 -> Seq(Commands)] : \A i \in 0..k - 1 : g[i] = UpTo(l, g, i)
    BY <1>5
  <2>2. k \in Nat /\ k - 1 \in 0..k - 1 /\ l[k] \in Entries
    BY <1>1
  <2>3. UpTo(l, g, k) \in Seq(Commands)
    <3>1. g[k - 1] \in Seq(Commands)
      BY <2>1, <2>2
    <3>2. CASE IsConfig(l[k].command)
      BY <2>2, <3>1, <3>2 DEF UpTo
    <3>3. CASE ~ IsConfig(l[k].command)
      <4>1. l[k].command \in Commands
        BY <3>3 DEF IsConfig
      <4>2. UpTo(l, g, k) = Append(g[k - 1], l[k].command)
        BY <2>2, <3>3 DEF UpTo
      <4> QED BY <3>1, <4>1, <4>2, AppendProperties
    <3> QED BY <3>2, <3>3
  <2> DEFINE u == UpTo(l, g, k)
             h == [i \in 0..k |-> IF i = k THEN u ELSE g[i]]
  <2> HIDE DEF u
  <2>4. h \in [0..k -> Seq(Commands)]
    BY <2>1, <2>2, <2>3 DEF u
  <2>5. ASSUME NEW i \in 0..k
        PROVE  UpTo(l, h, i) = UpTo(l, g, i)
    <3>1. i = 0 \/ (i - 1 \in 0..k /\ i - 1 # k)
      BY <2>2
    <3>2. i = 0 \/ h[i - 1] = g[i - 1]
      BY <3>1
    <3> HIDE DEF h
    <3> QED BY <3>2 DEF UpTo
  <2>6. ASSUME NEW i \in 0..k
        PROVE  h[i] = UpTo(l, h, i)
    <3>1. CASE i = k
      BY <2>5, <3>1 DEF u
    <3>2. CASE i # k
      <4>1. i \in 0..k - 1
        BY <2>2, <3>2
      <4>2. h[i] = g[i]
        BY <3>2
      <4> HIDE DEF h
      <4> QED BY <2>1, <2>5, <4>1, <4>2
    <3> QED BY <3>1, <3>2
  <2> HIDE DEF h
  <2> QED BY <2>4, <2>6
<1>6. SUFFICES ASSUME S # {} PROVE FALSE
  OBVIOUS
<1> HIDE DEF Good
<1>7. Min(S) \in S /\ \A y \in S : Min(S) <= y
  <2>1. S \in SUBSET Nat
    OBVIOUS
  <2> HIDE DEF S
  <2> QED BY <1>6, <2>1, MinOfNat
<1>8. PICK m \in 0..Len(l) : ~ Good(m) /\ \A y \in S : m <= y
  BY <1>7
<1>9. m # 0
  BY <1>4, <1>8
<1>10. m \in 1..Len(l) /\ m - 1 \in 0..Len(l) /\ ~ (m <= m - 1)
  BY <1>1, <1>9
<1>11. Good(m - 1)
  BY <1>8, <1>10
<1> QED BY <1>5, <1>8, <1>10, <1>11

\* What the state machine is given is a sequence of commands.
LEMMA CommandsOfType ==
  ASSUME NEW l \in Seq(Entries)
  PROVE  CommandsOf(l) \in Seq(Commands)
<1>1. CommandsOf(l) = Prefixes(l)[Len(l)]
  BY DEF CommandsOf, Prefixes, UpTo
<1>2. Prefixes(l) = [i \in 0..Len(l) |-> UpTo(l, Prefixes(l), i)]
  BY PrefixesExist, Zenon DEF Prefixes
<1> DEFINE P == Prefixes(l)
           S == {k \in 0..Len(l) : P[k] \notin Seq(Commands)}
<1>3. Len(l) \in Nat /\ \A i \in 1..Len(l) : l[i] \in Entries
  BY LenProperties, ElementOfSeq
<1> HIDE DEF P
<1>4. \A i \in 0..Len(l) : P[i] = UpTo(l, P, i)
  BY <1>2, Zenon DEF P
<1>5. SUFFICES ASSUME S # {} PROVE FALSE
  <2>1. Len(l) \in 0..Len(l)
    BY <1>3
  <2> QED BY <1>1, <1>5, <2>1 DEF P
<1>6. Min(S) \in S /\ \A y \in S : Min(S) <= y
  <2>1. S \in SUBSET Nat
    OBVIOUS
  <2> HIDE DEF S
  <2> QED BY <1>5, <2>1, MinOfNat
<1>7. PICK m \in 0..Len(l) : P[m] \notin Seq(Commands) /\ \A y \in S : m <= y
  BY <1>6
<1>8. m # 0
  <2>1. P[0] = <<>>
    BY <1>3, <1>4 DEF UpTo
  <2> QED BY <1>7, <2>1, EmptySeq
<1>9. m \in 1..Len(l) /\ m - 1 \in 0..Len(l) /\ ~ (m <= m - 1) /\ l[m] \in Entries
  BY <1>3, <1>8
<1>10. P[m - 1] \in Seq(Commands)
  BY <1>7, <1>9
<1>11. P[m] = UpTo(l, P, m)
  BY <1>4
<1>12. CASE IsConfig(l[m].command)
  BY <1>7, <1>8, <1>10, <1>11, <1>12 DEF UpTo
<1>13. CASE ~ IsConfig(l[m].command)
  <2>1. l[m].command \in Commands
    BY <1>13 DEF IsConfig
  <2>2. P[m] = Append(P[m - 1], l[m].command)
    BY <1>8, <1>11, <1>13 DEF UpTo
  <2> QED BY <1>7, <1>10, <2>1, <2>2, AppendProperties
<1> QED BY <1>12, <1>13

-----------------------------------------------------------------------------
(* Types *)

\* The part of TypeOK about the nodes.
CommitTypes ==
  /\ commitIndex \in [Nodes -> Nat] /\ lastApplied \in [Nodes -> Nat]
  /\ machine \in [Nodes -> Seq(Commands)]
LeaderTypes ==
  /\ DOMAIN nextIndex = Nodes /\ \A n \in Nodes : IsPeerIndex(nextIndex[n])
  /\ DOMAIN matchIndex = Nodes /\ \A n \in Nodes : IsPeerIndex(matchIndex[n])
LogTypes ==
  /\ members \in [Nodes -> SUBSET Nodes]
  /\ log \in [Nodes -> Seq(Entries)] /\ snapshot \in [Nodes -> Snapshots]
BoxTypes ==
  /\ copies \in Nat /\ ticks \in Nat /\ compactions \in Nat /\ reconfigs \in Nat
  /\ restarts \in Nat

LEMMA TypeParts ==
  TypeOK <=> VoteTypes /\ LogTypes /\ CommitTypes /\ LeaderTypes /\ BoxTypes /\ network \subseteq Messages
BY DEF TypeOK, VoteTypes, LogTypes, CommitTypes, LeaderTypes, BoxTypes

\* What a handler may use of a message.
LEMMA MessageFields ==
  ASSUME NEW m \in Messages
  PROVE  /\ m.src \in Nodes /\ m.dst \in Nodes /\ m.term \in Nat
         /\ m.type = "AppendEntries" =>
              /\ m.prevIndex \in Nat /\ m.prevTerm \in Nat /\ m.commit \in Nat
              /\ m.entries \in Seq(Entries)
         /\ m.type = "AppendReply" => m.match \in Nat /\ m.conflict \in Nat
         /\ m.type = "InstallReply" => m.match \in Nat
         /\ m.type = "InstallSnapshot" => m.snapshot \in Snapshots /\ m.members \in SUBSET Nodes
<1> DEFINE E == Seq(Entries)
           N == Nat
<1> HIDE DEF E, N
<1>1. CASE m \in [type : {"RequestVote"}, src : Nodes, dst : Nodes, term : N,
                  lastIndex : N, lastTerm : N]
  BY <1>1 DEF N
<1>2. CASE m \in [type : {"RequestVoteReply"}, src : Nodes, dst : Nodes, term : N, granted : BOOLEAN]
  BY <1>2 DEF N
<1>3. CASE m \in [type : {"AppendEntries"}, src : Nodes, dst : Nodes, term : N, prevIndex : N,
                  prevTerm : N, commit : N, entries : E]
  BY <1>3 DEF N, E
<1>4. CASE m \in [type : {"AppendReply"}, src : Nodes, dst : Nodes, term : N, success : BOOLEAN,
                  match : N, conflict : N]
  BY <1>4 DEF N
<1>5. CASE m \in [type : {"InstallSnapshot"}, src : Nodes, dst : Nodes, term : N,
                  snapshot : Snapshots, members : SUBSET Nodes]
  BY <1>5 DEF N
<1>6. CASE m \in [type : {"InstallReply"}, src : Nodes, dst : Nodes, term : N, match : N]
  BY <1>6 DEF N
<1> QED BY <1>1, <1>2, <1>3, <1>4, <1>5, <1>6 DEF Messages, N, E

\* The last entry, and what precedes an index.
LEMMA LastType ==
  LogTypes => \A n \in Nodes : LastIndex(n) \in Nat /\ LastTerm(n) \in Nat
<1> SUFFICES ASSUME LogTypes, NEW n \in Nodes
             PROVE  LastIndex(n) \in Nat /\ LastTerm(n) \in Nat
  OBVIOUS
<1>1. snapshot[n].index \in Nat /\ snapshot[n].term \in Nat /\ log[n] \in Seq(Entries)
  BY DEF LogTypes, Snapshots
<1>2. CASE log[n] # <<>>
  <2>1. log[n][Len(log[n])] \in Entries
    BY <1>1, <1>2, LenProperties, EmptySeq
  <2> QED BY <1>2, <2>1 DEF LastIndex, LastTerm, Entries
<1>3. CASE log[n] = <<>>
  BY <1>1, <1>3 DEF LastIndex, LastTerm
<1> QED BY <1>2, <1>3

LEMMA TermAtType ==
  LogTypes => \A n \in Nodes, i \in Int : TermAt(n, i) \in Nat
<1> SUFFICES ASSUME LogTypes, NEW n \in Nodes, NEW i \in Int
             PROVE  TermAt(n, i) \in Nat
  OBVIOUS
<1>1. snapshot[n].index \in Nat /\ snapshot[n].term \in Nat /\ log[n] \in Seq(Entries)
  BY DEF LogTypes, Snapshots
<1>2. CASE HasEntry(n, i)
  <2>1. EntryAt(n, i) \in Entries
    BY <1>1, <1>2, ElementOfSeq DEF HasEntry, EntryAt
  <2> QED BY <1>1, <2>1 DEF TermAt, Entries
<1>3. CASE ~ HasEntry(n, i)
  BY <1>1, <1>3 DEF TermAt
<1> QED BY <1>2, <1>3

\* A part of a sequence.
LEMMA PartOf ==
  ASSUME NEW T, NEW l \in Seq(T), NEW a \in Int, NEW b \in Int, a >= 1, b <= Len(l)
  PROVE  /\ SubSeq(l, a, b) \in Seq(T)
         /\ Len(SubSeq(l, a, b)) = IF a <= b THEN b - a + 1 ELSE 0
         /\ \A i \in 1..b - a + 1 : SubSeq(l, a, b)[i] = l[a + i - 1]
<1>1. Len(l) \in Nat
  BY LenProperties
<1>2. \A i \in a..b : l[i] \in T
  <2> SUFFICES ASSUME NEW i \in a..b PROVE l[i] \in T
    OBVIOUS
  <2>1. i \in 1..Len(l)
    BY <1>1
  <2> QED BY <2>1, ElementOfSeq
<1> QED BY <1>2, SubSeqProperties

\* What _append_to sends is a message.
LEMMA AppendToType ==
  LogTypes /\ CommitTypes /\ LeaderTypes /\ VoteTypes =>
    \A n, p \in Nodes : AppendTo(n, p) \in Messages
<1> SUFFICES ASSUME LogTypes, CommitTypes, LeaderTypes, VoteTypes, NEW n \in Nodes, NEW p \in Nodes
             PROVE  AppendTo(n, p) \in Messages
  OBVIOUS
<1> DEFINE prev == Get(nextIndex[n], p, LastIndex(n) + 1) - 1
<1>1. prev \in Int
  BY LastType DEF LeaderTypes, IsPeerIndex, Get
<1>2. /\ snapshot[n] \in Snapshots /\ snapshot[n].index \in Nat /\ log[n] \in Seq(Entries)
      /\ members[n] \in SUBSET Nodes /\ currentTerm[n] \in Nat /\ commitIndex[n] \in Nat
  BY DEF LogTypes, Snapshots, CommitTypes, VoteTypes
<1>3. TermAt(n, prev) \in Nat
  BY <1>1, TermAtType
<1>5. Len(log[n]) \in Nat
  BY <1>2, LenProperties
<1>4. CASE prev < snapshot[n].index
  BY <1>2, <1>4 DEF AppendTo, Messages
<1>6. CASE ~ (prev < snapshot[n].index)
  <2> DEFINE part == SubSeq(log[n], prev - snapshot[n].index + 1, Len(log[n]))
             msg == [type |-> "AppendEntries", src |-> n, dst |-> p, term |-> currentTerm[n],
                     prevIndex |-> prev, prevTerm |-> TermAt(n, prev), commit |-> commitIndex[n],
                     entries |-> part]
  <2>1. part \in Seq(Entries)
    <3>1. /\ prev - snapshot[n].index + 1 \in Int /\ prev - snapshot[n].index + 1 >= 1
          /\ Len(log[n]) <= Len(log[n])
      BY <1>1, <1>2, <1>5, <1>6
    <3> QED BY <1>2, <1>5, <3>1, PartOf
  <2>2. AppendTo(n, p) = msg
    BY <1>6 DEF AppendTo
  <2>3. prev \in Nat
    BY <1>1, <1>2, <1>6
  <2> HIDE DEF prev, part
  <2> QED BY <1>2, <1>3, <2>1, <2>2, <2>3 DEF Messages
<1> QED BY <1>4, <1>6

\* The same in the state after a step.
LEMMA AppendToTypePrimed ==
  (LogTypes /\ CommitTypes /\ LeaderTypes /\ VoteTypes =>
     \A n, p \in Nodes : AppendTo(n, p) \in Messages)'
BY AppendToType, PTL

LEMMA AppendToAfter ==
  ASSUME LogTypes', CommitTypes', LeaderTypes', VoteTypes', NEW n \in Nodes, NEW p \in Nodes
  PROVE  AppendTo(n, p)' \in Messages
BY AppendToTypePrimed

\* The messages after a step that sends `out' and consumes nothing but messages.
LEMMA DeliverType ==
  ASSUME network \subseteq Messages, copies \in Nat, NEW m, NEW out, out \subseteq Messages, Deliver(m, out)
  PROVE  network' \subseteq Messages /\ copies' \in Nat
BY DEF Deliver

LEMMA SmallMessages ==
  ASSUME NEW n \in Nodes, NEW p \in Nodes, NEW t \in Nat
  PROVE  /\ \A g \in BOOLEAN : RequestVoteReply(n, p, t, g) \in Messages
         /\ \A g \in BOOLEAN, i, c \in Nat : AppendReply(n, p, t, g, i, c) \in Messages
         /\ \A i \in Nat : InstallReply(n, p, t, i) \in Messages
BY DEF Messages, RequestVoteReply, AppendReply, InstallReply

LEMMA CompactTargetNat ==
  ASSUME CommitTypes, NEW n \in Nodes, NEW i \in 1..MaxLog
  PROVE  CompactTarget(n, i) \in Nat
<1>1. i \in Nat /\ lastApplied[n] \in Nat
  BY BoundsAssumption DEF CommitTypes
<1>2. Min({i, lastApplied[n]}) \in Nat
  BY <1>1, MinOfTwo
<1> QED BY <1>2 DEF CompactTarget

\* _apply_committed moves forward, from the snapshot or from what was applied.
LEMMA CommitToStep ==
  ASSUME CommitTypes, NEW n \in Nodes, NEW c \in Nat, NEW l \in Seq(Entries), NEW s \in Nat,
         CommitTo(n, c, l, s)
  PROVE  /\ CommitTypes'
         /\ \A p \in Nodes : p # n => lastApplied'[p] = lastApplied[p]
         /\ lastApplied'[n] >= lastApplied[n] /\ lastApplied'[n] >= s
<1> DEFINE start == Max({lastApplied[n], s})
           upTo == Min({c, s + Len(l)})
           todo == SubSeq(l, start - s + 1, upTo - s)
           next == IF start >= c THEN start
                   ELSE IF upTo = c THEN c ELSE Max({start, upTo}) + 1
<1>1. lastApplied[n] \in Nat /\ machine[n] \in Seq(Commands) /\ Len(l) \in Nat
  BY LenProperties DEF CommitTypes
<1>2. start \in Nat /\ start >= lastApplied[n] /\ start >= s
  BY <1>1, MaxOfTwo
<1>3. upTo \in Nat /\ upTo <= s + Len(l)
  BY <1>1, MinOfTwo
<1>4. todo \in Seq(Entries)
  <2>1. start - s + 1 \in Int /\ start - s + 1 >= 1 /\ upTo - s \in Int /\ upTo - s <= Len(l)
    BY <1>1, <1>2, <1>3
  <2> HIDE DEF start, upTo
  <2> QED BY <2>1, PartOf
<1>5. /\ commitIndex' = [commitIndex EXCEPT ![n] = c]
      /\ lastApplied' = [lastApplied EXCEPT ![n] = next]
      /\ machine' = [machine EXCEPT ![n] = @ \o CommandsOf(todo)]
  BY DEF CommitTo, ApplyCommitted
<1> HIDE DEF start, upTo, todo
<1>6. next \in Nat /\ next >= start
  BY <1>2, <1>3, MaxOfTwo
<1>7. machine[n] \o CommandsOf(todo) \in Seq(Commands)
  BY <1>1, <1>4, CommandsOfType, ConcatProperties
<1> HIDE DEF next
<1>8. commitIndex' \in [Nodes -> Nat] /\ lastApplied' \in [Nodes -> Nat]
  BY <1>5, <1>6 DEF CommitTypes
<1>9. machine' \in [Nodes -> Seq(Commands)]
  BY <1>5, <1>7 DEF CommitTypes
<1>10. lastApplied'[n] = next /\ \A p \in Nodes : p # n => lastApplied'[p] = lastApplied[p]
  BY <1>5 DEF CommitTypes
<1> QED BY <1>1, <1>2, <1>6, <1>8, <1>9, <1>10 DEF CommitTypes

\* The indices a leader keeps of its peers.
LEMMA PutType ==
  ASSUME NEW d, IsPeerIndex(d), NEW p \in Nodes, NEW v \in Nat
  PROVE  IsPeerIndex(Put(d, p, v)) /\ DOMAIN Put(d, p, v) = DOMAIN d \cup {p}
BY DEF IsPeerIndex, Put

LEMMA PeerIndexSet ==
  ASSUME NEW D \in SUBSET Nodes, NEW v \in Nat
  PROVE  IsPeerIndex([p \in D |-> v])
BY DEF IsPeerIndex

LEMMA GetType ==
  ASSUME NEW d, IsPeerIndex(d), NEW p, NEW v \in Nat
  PROVE  Get(d, p, v) \in Nat
BY DEF IsPeerIndex, Get

LEMMA AdoptMembersType ==
  ASSUME LogTypes, LeaderTypes, NEW n \in Nodes, NEW ms \in SUBSET Nodes, NEW last \in Nat,
         AdoptMembers(n, ms, last)
  PROVE  /\ members' = [members EXCEPT ![n] = ms] /\ LeaderTypes'
         /\ \A p \in Nodes : p # n => nextIndex'[p] = nextIndex[p] /\ matchIndex'[p] = matchIndex[p]
         /\ ms \ {n} \subseteq DOMAIN nextIndex'[n] /\ ms \ {n} \subseteq DOMAIN matchIndex'[n]
<1> DEFINE gone == DOMAIN nextIndex[n] \ ms
           A == (DOMAIN nextIndex[n] \cup (ms \ {n})) \ gone
           B == (DOMAIN matchIndex[n] \cup (ms \ {n})) \ gone
           next == [p \in A |-> Get(nextIndex[n], p, last + 1)]
           match == [p \in B |-> Get(matchIndex[n], p, 0)]
<1>1. IsPeerIndex(nextIndex[n]) /\ IsPeerIndex(matchIndex[n])
  BY DEF LeaderTypes
<1>2. A \subseteq Nodes /\ B \subseteq Nodes /\ ms \ {n} \subseteq A /\ ms \ {n} \subseteq B
  BY <1>1 DEF IsPeerIndex
<1>3. /\ members' = [members EXCEPT ![n] = ms]
      /\ nextIndex' = [nextIndex EXCEPT ![n] = next]
      /\ matchIndex' = [matchIndex EXCEPT ![n] = match]
  BY DEF AdoptMembers
<1> HIDE DEF A, B
<1>4. \A p \in A : Get(nextIndex[n], p, last + 1) \in Nat
  BY <1>1, GetType
<1>5. \A p \in B : Get(matchIndex[n], p, 0) \in Nat
  BY <1>1, GetType
<1>6. IsPeerIndex(next) /\ DOMAIN next = A
  BY <1>2, <1>4 DEF IsPeerIndex
<1>7. IsPeerIndex(match) /\ DOMAIN match = B
  BY <1>2, <1>5 DEF IsPeerIndex
<1> HIDE DEF next, match
<1>8. DOMAIN nextIndex' = Nodes /\ \A p \in Nodes : nextIndex'[p] = IF p = n THEN next ELSE nextIndex[p]
  BY <1>3 DEF LeaderTypes
<1>9. DOMAIN matchIndex' = Nodes /\ \A p \in Nodes : matchIndex'[p] = IF p = n THEN match ELSE matchIndex[p]
  BY <1>3 DEF LeaderTypes
<1>10. LeaderTypes'
  BY <1>6, <1>7, <1>8, <1>9 DEF LeaderTypes
<1> QED BY <1>2, <1>3, <1>6, <1>7, <1>8, <1>9, <1>10

-----------------------------------------------------------------------------
(* Types, compaction of applied entries and the peers of a leader *)

\* The three are proved together; none needs more than the types.
BaseInv == TypeOK /\ OnlyAppliedCompacted /\ LeaderTracksPeers

\* Steps that leave the logs and what was applied alone.
LEMMA BaseQuiet ==
  ASSUME BaseInv, UNCHANGED <<logVars, commitVars>>, VoteTypes', LeaderTypes', BoxTypes',
         network' \subseteq Messages,
         \A n \in Nodes : role'[n] = "leader" =>
           members[n] \ {n} \subseteq DOMAIN nextIndex'[n] \cap DOMAIN matchIndex'[n]
  PROVE  BaseInv'
<1>1. LogTypes' /\ CommitTypes'
  BY TypeParts DEF BaseInv, LogTypes, CommitTypes, logVars, commitVars
<1>2. TypeOK'
  BY <1>1 DEF TypeOK, VoteTypes, LogTypes, CommitTypes, LeaderTypes, BoxTypes
<1>3. OnlyAppliedCompacted' /\ LeaderTracksPeers'
  BY DEF BaseInv, OnlyAppliedCompacted, LeaderTracksPeers, Peers, logVars, commitVars
<1> QED BY <1>2, <1>3 DEF BaseInv

LEMMA BaseInit == Init => BaseInv
<1> SUFFICES ASSUME Init PROVE BaseInv
  OBVIOUS
<1>1. VoteTypes
  BY DEF Init, VoteTypes
<1>2. LogTypes
  BY NodesAssumption, EmptySeq DEF Init, LogTypes, Snapshots
<1>3. CommitTypes
  BY EmptySeq DEF Init, CommitTypes
<1>4. LeaderTypes
  BY DEF Init, LeaderTypes, IsPeerIndex
<1>5. BoxTypes /\ network \subseteq Messages
  BY DEF Init, BoxTypes
<1>6. OnlyAppliedCompacted /\ LeaderTracksPeers
  BY DEF Init, OnlyAppliedCompacted, LeaderTracksPeers
<1> QED BY <1>1, <1>2, <1>3, <1>4, <1>5, <1>6, TypeParts DEF BaseInv

LEMMA BroadcastType ==
  ASSUME LogTypes', CommitTypes', LeaderTypes', VoteTypes', NEW n \in Nodes
  PROVE  BroadcastAppend(n)' \subseteq Messages
<1> SUFFICES ASSUME NEW m \in BroadcastAppend(n)' PROVE m \in Messages
  OBVIOUS
<1>1. PICK p \in Nodes : m = AppendTo(n, p)'
  BY DEF BroadcastAppend, Peers, LogTypes
<1> QED BY <1>1, AppendToAfter

\* A candidate with a quorum starts with the indices of all its peers.
LEMMA LeaderIndices ==
  ASSUME LogTypes, LeaderTypes, VoteTypes, NEW n \in Nodes, NEW t \in Nat, NEW voters \in SUBSET Nodes,
         BecomeLeader(n, t, voters)
  PROVE  /\ LeaderTypes'
         /\ \A p \in Nodes : p # n => nextIndex'[p] = nextIndex[p] /\ matchIndex'[p] = matchIndex[p]
         /\ Peers(n) \subseteq DOMAIN nextIndex'[n] \cap DOMAIN matchIndex'[n]
         /\ role' \in [Nodes -> {"follower", "candidate", "leader"}]
         /\ \A p \in Nodes : p # n => role'[p] = role[p]
         /\ elections' \subseteq [term : Nat, leader : Nodes, votes : SUBSET Nodes]
<1>1. LastIndex(n) + 1 \in Nat /\ Peers(n) \in SUBSET Nodes
  BY LastType DEF Peers, LogTypes
<1>2. IsPeerIndex([p \in Peers(n) |-> LastIndex(n) + 1]) /\ IsPeerIndex([p \in Peers(n) |-> 0])
  BY <1>1, PeerIndexSet
<1>3. /\ DOMAIN nextIndex' = Nodes /\ DOMAIN matchIndex' = Nodes
      /\ \A p \in Nodes : p # n => nextIndex'[p] = nextIndex[p] /\ matchIndex'[p] = matchIndex[p]
      /\ nextIndex'[n] = [p \in Peers(n) |-> LastIndex(n) + 1]
      /\ matchIndex'[n] = [p \in Peers(n) |-> 0]
  BY DEF LeaderTypes, BecomeLeader
<1>4. LeaderTypes'
  BY <1>2, <1>3 DEF LeaderTypes
<1>5. Peers(n) \subseteq DOMAIN nextIndex'[n] \cap DOMAIN matchIndex'[n]
  BY <1>3
<1>6. /\ role' \in [Nodes -> {"follower", "candidate", "leader"}]
      /\ \A p \in Nodes : p # n => role'[p] = role[p]
      /\ elections' \subseteq [term : Nat, leader : Nodes, votes : SUBSET Nodes]
  BY DEF BecomeLeader, VoteTypes
<1> QED BY <1>3, <1>4, <1>5, <1>6

LEMMA BaseStartElection ==
  ASSUME BaseInv, NEW n \in Nodes, StartElection(n)
  PROVE  BaseInv'
<1> DEFINE t == currentTerm[n] + 1
<1>1. VoteTypes /\ LogTypes /\ LeaderTypes /\ BoxTypes /\ network \subseteq Messages
  BY TypeParts DEF BaseInv
<1>2. t \in Nat /\ LastIndex(n) \in Nat /\ LastTerm(n) \in Nat /\ Peers(n) \in SUBSET Nodes
  BY <1>1, LastType DEF VoteTypes, Peers, LogTypes
<1>3. /\ currentTerm' = [currentTerm EXCEPT ![n] = t]
      /\ votedFor' = [votedFor EXCEPT ![n] = n]
      /\ votes' = [votes EXCEPT ![n] = {n}]
      /\ UNCHANGED <<logVars, commitVars>>
  BY DEF StartElection
<1>4. BoxTypes'
  BY <1>1 DEF StartElection, Tick, Send, BoxTypes
<1>5. CASE Peers(n) = {}
  <2>1. BecomeLeader(n, t, {n}) /\ network' = network
    BY <1>5 DEF StartElection, Send
  <2>2. VoteTypes'
    BY <1>1, <1>2, <1>3, <2>1 DEF VoteTypes, BecomeLeader
  <2>3. /\ LeaderTypes'
        /\ \A p \in Nodes : p # n => nextIndex'[p] = nextIndex[p] /\ matchIndex'[p] = matchIndex[p]
    BY <1>1, <1>2, <2>1, LeaderIndices
  <2>6. ASSUME NEW p \in Nodes, role'[p] = "leader"
        PROVE  members[p] \ {p} \subseteq DOMAIN nextIndex'[p] \cap DOMAIN matchIndex'[p]
    <3>1. CASE p = n
      BY <1>5, <3>1 DEF Peers
    <3>2. CASE p # n
      <4>1. role[p] = "leader"
        BY <1>1, <2>1, <2>6, <3>2 DEF BecomeLeader, VoteTypes
      <4> QED BY <2>3, <3>2, <4>1 DEF BaseInv, LeaderTracksPeers, Peers
    <3> QED BY <3>1, <3>2
  <2> QED BY <1>1, <1>3, <1>4, <2>1, <2>2, <2>3, <2>6, BaseQuiet
<1>6. CASE Peers(n) # {}
  <2>1. /\ role' = [role EXCEPT ![n] = "candidate"] /\ UNCHANGED <<leaderVars, elections>>
        /\ network' = network \cup {RequestVote(n, p, t) : p \in Peers(n)}
    BY <1>6 DEF StartElection, Send
  <2>2. VoteTypes'
    BY <1>1, <1>2, <1>3, <2>1 DEF VoteTypes
  <2>3. LeaderTypes'
    BY <1>1, <2>1 DEF LeaderTypes, leaderVars
  <2>4. \A p \in Peers(n) : RequestVote(n, p, t) \in Messages
    BY <1>2 DEF RequestVote, Messages
  <2>5. network' \subseteq Messages
    BY <1>1, <2>1, <2>4
  <2>6. \A p \in Nodes : role'[p] = "leader" => role[p] = "leader"
    BY <1>1, <2>1 DEF VoteTypes
  <2>7. \A p \in Nodes : role'[p] = "leader" =>
           members[p] \ {p} \subseteq DOMAIN nextIndex'[p] \cap DOMAIN matchIndex'[p]
    BY <2>1, <2>6 DEF BaseInv, LeaderTracksPeers, Peers, leaderVars
  <2> QED BY <1>3, <1>4, <2>2, <2>3, <2>5, <2>7, BaseQuiet
<1> QED BY <1>5, <1>6

\* Handlers that leave logs, indices and what was applied alone, and elect nobody.
LEMMA BaseNoLeader ==
  ASSUME BaseInv, UNCHANGED <<logVars, commitVars, leaderVars>>, VoteTypes', BoxTypes',
         network' \subseteq Messages,
         \A n \in Nodes : role'[n] = "leader" => role[n] = "leader"
  PROVE  BaseInv'
<1>1. LeaderTypes'
  BY TypeParts DEF BaseInv, LeaderTypes, leaderVars
<1>2. \A p \in Nodes : role'[p] = "leader" =>
           members[p] \ {p} \subseteq DOMAIN nextIndex'[p] \cap DOMAIN matchIndex'[p]
  BY DEF BaseInv, LeaderTracksPeers, Peers, leaderVars
<1> QED BY <1>1, <1>2, BaseQuiet

LEMMA BaseHeartbeat ==
  ASSUME BaseInv, NEW n \in Nodes, Heartbeat(n)
  PROVE  BaseInv'
<1>1. VoteTypes /\ LogTypes /\ CommitTypes /\ LeaderTypes /\ BoxTypes /\ network \subseteq Messages
  BY TypeParts DEF BaseInv
<1>2. /\ UNCHANGED <<voteVars, logVars, commitVars, leaderVars, elections>>
      /\ network' = network \cup BroadcastAppend(n)
  BY DEF Heartbeat, Send
<1>3. BroadcastAppend(n) \subseteq Messages
  BY <1>1, AppendToType DEF BroadcastAppend, Peers, LogTypes
<1>4. VoteTypes'
  BY <1>1, <1>2 DEF VoteTypes, voteVars
<1>5. BoxTypes'
  BY <1>1 DEF Heartbeat, Tick, Send, BoxTypes
<1>6. \A p \in Nodes : role'[p] = "leader" => role[p] = "leader"
  BY <1>2 DEF voteVars
<1> QED BY <1>1, <1>2, <1>3, <1>4, <1>5, <1>6, BaseNoLeader

LEMMA BaseRequestVote ==
  ASSUME BaseInv, NEW m \in network, OnRequestVote(m)
  PROVE  BaseInv'
<1>1. VoteTypes /\ LogTypes /\ CommitTypes /\ LeaderTypes /\ BoxTypes /\ network \subseteq Messages
  BY TypeParts DEF BaseInv
<1> DEFINE n == m.dst
           newTerm == m.term > currentTerm[n]
           vote == IF newTerm THEN Nobody ELSE votedFor[n]
           granted == Grants(n, vote, m)
<1>2. n \in Nodes /\ m.src \in Nodes /\ m.term \in Nat
  BY <1>1, MessageFields
<1>3. /\ currentTerm' = [currentTerm EXCEPT ![n] = IF newTerm THEN m.term ELSE @]
      /\ role' = [role EXCEPT ![n] = IF newTerm THEN "follower" ELSE @]
      /\ votes' = [votes EXCEPT ![n] = IF newTerm THEN {} ELSE @]
      /\ votedFor' = [votedFor EXCEPT ![n] = IF granted THEN m.src ELSE vote]
      /\ UNCHANGED <<logVars, commitVars, leaderVars, elections, counters>>
      /\ Deliver(m, {RequestVoteReply(n, m.src, currentTerm'[n], granted)})
  BY DEF OnRequestVote
<1>4. granted \in BOOLEAN
  BY DEF Grants, UpToDate
<1> HIDE DEF granted
<1>5. VoteTypes'
  BY <1>1, <1>2, <1>3 DEF VoteTypes
<1>6. {RequestVoteReply(n, m.src, currentTerm'[n], granted)} \subseteq Messages
  <2>1. currentTerm'[n] \in Nat
    BY <1>2, <1>5 DEF VoteTypes
  <2> QED BY <1>2, <1>4, <2>1, SmallMessages
<1>7. network' \subseteq Messages /\ copies' \in Nat
  BY <1>1, <1>3, <1>6, DeliverType DEF BoxTypes
<1>8. BoxTypes'
  BY <1>1, <1>3, <1>7 DEF BoxTypes, counters
<1>9. \A p \in Nodes : role'[p] = "leader" => role[p] = "leader"
  BY <1>1, <1>3 DEF VoteTypes
<1> QED BY <1>3, <1>5, <1>7, <1>8, <1>9, BaseNoLeader

LEMMA FollowerTypes ==
  ASSUME VoteTypes, NEW n \in Nodes, NEW t \in Nat, BecomeFollower(n, t), UNCHANGED elections
  PROVE  /\ VoteTypes' /\ role'[n] # "leader"
         /\ \A p \in Nodes : role'[p] = "leader" => role[p] = "leader"
BY DEF VoteTypes, BecomeFollower

LEMMA BaseStepDown ==
  ASSUME BaseInv, NEW m \in network, StepDown(m)
  PROVE  BaseInv'
<1>1. VoteTypes /\ BoxTypes /\ network \subseteq Messages
  BY TypeParts DEF BaseInv
<1>2. m.dst \in Nodes /\ m.term \in Nat
  BY <1>1, MessageFields
<1>3. /\ BecomeFollower(m.dst, m.term) /\ Deliver(m, {})
      /\ UNCHANGED <<logVars, commitVars, leaderVars, elections, counters>>
  BY DEF StepDown
<1>4. network' \subseteq Messages /\ copies' \in Nat
  BY <1>1, <1>3, DeliverType DEF BoxTypes
<1>5. BoxTypes'
  BY <1>1, <1>3, <1>4 DEF BoxTypes, counters
<1> QED BY <1>1, <1>2, <1>3, <1>4, <1>5, FollowerTypes, BaseNoLeader

LEMMA BaseVoteReply ==
  ASSUME BaseInv, NEW m \in network, OnVoteReply(m)
  PROVE  BaseInv'
<1> DEFINE n == m.dst
           voters == votes[n] \cup {m.src}
<1>1. VoteTypes /\ LogTypes /\ CommitTypes /\ LeaderTypes /\ BoxTypes /\ network \subseteq Messages
  BY TypeParts DEF BaseInv
<1>2. n \in Nodes /\ m.src \in Nodes /\ m.term \in Nat
  BY <1>1, MessageFields
<1>3. UNCHANGED <<currentTerm, votedFor, logVars, commitVars, counters>>
  BY DEF OnVoteReply
<1>4. voters \in SUBSET Nodes
  BY <1>1, <1>2 DEF VoteTypes
<1>5. ASSUME network' \subseteq Messages, copies' \in Nat
      PROVE  BoxTypes'
  BY <1>1, <1>3, <1>5 DEF BoxTypes, counters
<1>6. CASE /\ role[n] = "candidate" /\ m.term = currentTerm[n] /\ m.granted
           /\ Cardinality(voters) >= QuorumSize(members[n])
  <2>1. /\ votes' = [votes EXCEPT ![n] = voters]
        /\ BecomeLeader(n, m.term, voters) /\ Deliver(m, BroadcastAppend(n)')
    BY <1>6 DEF OnVoteReply
  <2> HIDE DEF voters
  <2>2. /\ LeaderTypes'
        /\ \A p \in Nodes : p # n => nextIndex'[p] = nextIndex[p] /\ matchIndex'[p] = matchIndex[p]
        /\ Peers(n) \subseteq DOMAIN nextIndex'[n] \cap DOMAIN matchIndex'[n]
        /\ role' \in [Nodes -> {"follower", "candidate", "leader"}]
        /\ \A p \in Nodes : p # n => role'[p] = role[p]
        /\ elections' \subseteq [term : Nat, leader : Nodes, votes : SUBSET Nodes]
    BY <1>1, <1>2, <1>4, <2>1, LeaderIndices
  <2>3. VoteTypes'
    BY <1>1, <1>3, <1>4, <2>1, <2>2 DEF VoteTypes
  <2>4. LogTypes' /\ CommitTypes'
    BY <1>1, <1>3 DEF LogTypes, CommitTypes, logVars, commitVars
  <2>5. BroadcastAppend(n)' \subseteq Messages
    BY <1>2, <2>2, <2>3, <2>4, BroadcastType
  <2>6. network' \subseteq Messages /\ copies' \in Nat
    BY <1>1, <2>1, <2>5, DeliverType DEF BoxTypes
  <2>7. ASSUME NEW p \in Nodes, role'[p] = "leader"
        PROVE  members[p] \ {p} \subseteq DOMAIN nextIndex'[p] \cap DOMAIN matchIndex'[p]
    <3>1. CASE p = n
      BY <2>2, <3>1 DEF Peers
    <3>2. CASE p # n
      BY <2>2, <2>7, <3>2 DEF BaseInv, LeaderTracksPeers, Peers
    <3> QED BY <3>1, <3>2
  <2> QED BY <1>3, <1>5, <2>2, <2>3, <2>6, <2>7, BaseQuiet
<1>7. CASE ~ (/\ role[n] = "candidate" /\ m.term = currentTerm[n] /\ m.granted
              /\ Cardinality(voters) >= QuorumSize(members[n]))
  <2>1. /\ Deliver(m, {}) /\ UNCHANGED <<role, leaderVars, elections>>
        /\ votes' = [votes EXCEPT ![n] = voters] \/ votes' = votes
    BY <1>7 DEF OnVoteReply
  <2>2. VoteTypes'
    BY <1>1, <1>3, <1>4, <2>1 DEF VoteTypes
  <2>3. network' \subseteq Messages /\ copies' \in Nat
    BY <1>1, <2>1, DeliverType DEF BoxTypes
  <2> QED BY <1>3, <1>5, <2>1, <2>2, <2>3, BaseNoLeader
<1> QED BY <1>6, <1>7

\* Steps that change logs and what was applied, and elect nobody.
LEMMA BaseAssemble ==
  ASSUME BaseInv, VoteTypes', LogTypes', CommitTypes', LeaderTypes', BoxTypes',
         network' \subseteq Messages, NEW n \in Nodes,
         \A p \in Nodes : p # n =>
           /\ snapshot'[p] = snapshot[p] /\ lastApplied'[p] = lastApplied[p]
           /\ members'[p] = members[p]
           /\ nextIndex'[p] = nextIndex[p] /\ matchIndex'[p] = matchIndex[p]
           /\ role'[p] = role[p],
         snapshot'[n].index <= lastApplied'[n],
         role'[n] = "leader" =>
           members'[n] \ {n} \subseteq DOMAIN nextIndex'[n] \cap DOMAIN matchIndex'[n]
  PROVE  BaseInv'
<1>1. TypeOK'
  BY DEF TypeOK, VoteTypes, LogTypes, CommitTypes, LeaderTypes, BoxTypes
<1>2. OnlyAppliedCompacted'
  BY DEF BaseInv, OnlyAppliedCompacted
<1>3. LeaderTracksPeers'
  BY DEF BaseInv, LeaderTracksPeers, Peers
<1> QED BY <1>1, <1>2, <1>3 DEF BaseInv

LEMMA BasePropose ==
  ASSUME BaseInv, NEW n \in Nodes, NEW c \in Commands \cup SUBSET Nodes, Propose(n, c), BoxTypes'
  PROVE  BaseInv'
<1> DEFINE entry == NewEntry(n, c, LastIndex(n) + 1)
<1>1. VoteTypes /\ LogTypes /\ CommitTypes /\ LeaderTypes /\ BoxTypes /\ network \subseteq Messages
  BY TypeParts DEF BaseInv
<1>2. /\ entry \in Entries /\ entry.index \in Nat /\ log[n] \in Seq(Entries)
      /\ snapshot[n].index \in Nat /\ snapshot[n].index <= lastApplied[n] /\ lastApplied[n] \in Nat
  <2>1. LastIndex(n) + 1 \in Nat /\ currentTerm[n] \in Nat
    BY <1>1, LastType DEF VoteTypes
  <2>2. entry \in Entries /\ entry.index \in Nat
    BY <2>1 DEF NewEntry, Entries
  <2> QED BY <1>1, <2>2 DEF LogTypes, Snapshots, BaseInv, OnlyAppliedCompacted, CommitTypes
<1>3. /\ role[n] = "leader" /\ log' = [log EXCEPT ![n] = Append(@, entry)]
      /\ UNCHANGED <<voteVars, snapshot, elections>>
      /\ network' = network \cup BroadcastAppend(n)'
      /\ IF IsConfig(c) THEN AdoptMembers(n, c, entry.index) ELSE UNCHANGED <<members, leaderVars>>
      /\ CommitTo(n, entry.index, log'[n], snapshot[n].index) \/ UNCHANGED commitVars
  BY DEF Propose, Send
<1> HIDE DEF entry
<1>4. Append(log[n], entry) \in Seq(Entries)
  BY <1>2, AppendProperties
<1>5. log' \in [Nodes -> Seq(Entries)] /\ log'[n] \in Seq(Entries)
  BY <1>1, <1>3, <1>4 DEF LogTypes
<1>6. /\ members' \in [Nodes -> SUBSET Nodes] /\ LeaderTypes'
      /\ \A p \in Nodes : p # n =>
           /\ members'[p] = members[p]
           /\ nextIndex'[p] = nextIndex[p] /\ matchIndex'[p] = matchIndex[p]
      /\ members'[n] \ {n} \subseteq DOMAIN nextIndex'[n] \cap DOMAIN matchIndex'[n]
  <2>1. CASE IsConfig(c)
    <3>1. c \in SUBSET Nodes
      BY <2>1 DEF IsConfig
    <3>2. AdoptMembers(n, c, entry.index)
      BY <1>3, <2>1
    <3>3. /\ members' = [members EXCEPT ![n] = c] /\ LeaderTypes'
          /\ \A p \in Nodes : p # n => nextIndex'[p] = nextIndex[p] /\ matchIndex'[p] = matchIndex[p]
          /\ c \ {n} \subseteq DOMAIN nextIndex'[n] /\ c \ {n} \subseteq DOMAIN matchIndex'[n]
      BY <1>1, <1>2, <3>1, <3>2, AdoptMembersType
    <3> QED BY <1>1, <3>1, <3>3 DEF LogTypes
  <2>2. CASE ~ IsConfig(c)
    <3>1. UNCHANGED <<members, leaderVars>>
      BY <1>3, <2>2
    <3> QED BY <1>1, <1>3, <3>1 DEF LogTypes, LeaderTypes, leaderVars, BaseInv, LeaderTracksPeers, Peers
  <2> QED BY <2>1, <2>2
<1>7. LogTypes' /\ VoteTypes'
  BY <1>1, <1>3, <1>5, <1>6 DEF LogTypes, VoteTypes, voteVars
<1>8. /\ CommitTypes' /\ lastApplied'[n] >= lastApplied[n]
      /\ \A p \in Nodes : p # n => lastApplied'[p] = lastApplied[p]
  <2>1. CASE CommitTo(n, entry.index, log'[n], snapshot[n].index)
    BY <1>1, <1>2, <1>5, <2>1, CommitToStep
  <2>2. CASE UNCHANGED commitVars
    BY <1>1, <1>2, <2>2 DEF CommitTypes, commitVars
  <2> QED BY <1>3, <2>1, <2>2
<1>9. network' \subseteq Messages
  BY <1>1, <1>3, <1>6, <1>7, <1>8, BroadcastType
<1>10. snapshot'[n].index <= lastApplied'[n]
  <2>1. lastApplied'[n] \in Nat
    BY <1>8 DEF CommitTypes
  <2> QED BY <1>2, <1>3, <1>8, <2>1
<1>11. \A p \in Nodes : p # n =>
           /\ snapshot'[p] = snapshot[p] /\ lastApplied'[p] = lastApplied[p]
           /\ members'[p] = members[p]
           /\ nextIndex'[p] = nextIndex[p] /\ matchIndex'[p] = matchIndex[p]
           /\ role'[p] = role[p]
  BY <1>3, <1>6, <1>8 DEF voteVars
<1> QED BY <1>6, <1>7, <1>8, <1>9, <1>10, <1>11, BaseAssemble

LEMMA BaseCompact ==
  ASSUME BaseInv, NEW n \in Nodes, NEW i \in 1..MaxLog, Compact(n, i)
  PROVE  BaseInv'
<1> DEFINE target == CompactTarget(n, i)
           s == [index |-> target, term |-> TermAt(n, target), data |-> machine[n]]
           kept == Retained(log[n], target - snapshot[n].index)
<1>1. VoteTypes /\ LogTypes /\ CommitTypes /\ LeaderTypes /\ BoxTypes /\ network \subseteq Messages
  BY TypeParts DEF BaseInv
<1>2. /\ lastApplied[n] \in Nat /\ snapshot[n].index \in Nat /\ log[n] \in Seq(Entries)
      /\ machine[n] \in Seq(Commands)
  BY <1>1 DEF CommitTypes, LogTypes, Snapshots
<1>3. target \in Nat /\ target <= lastApplied[n]
  BY <1>2, MinOfTwo, BoundsAssumption DEF CompactTarget
<1>4. /\ target > snapshot[n].index
      /\ snapshot' = [snapshot EXCEPT ![n] = s]
      /\ log' = [log EXCEPT ![n] = kept]
      /\ UNCHANGED <<voteVars, members, commitVars, leaderVars, network, elections, copies,
                     ticks, reconfigs, restarts>>
      /\ compactions' = compactions + 1
  BY DEF Compact
<1> HIDE DEF target
<1>5. s \in Snapshots /\ s.index = target
  BY <1>1, <1>2, <1>3, TermAtType DEF Snapshots
<1>6. kept \in Seq(Entries)
  <2>1. Len(log[n]) \in Nat
    BY <1>2, LenProperties
  <2>2. target - snapshot[n].index + 1 >= 1 /\ target - snapshot[n].index + 1 \in Int
    BY <1>2, <1>3, <1>4
  <2> QED BY <1>2, <2>1, <2>2, PartOf DEF Retained
<1> HIDE DEF s, kept
<1>7. LogTypes' /\ snapshot'[n] = s /\ \A p \in Nodes : p # n => snapshot'[p] = snapshot[p]
  BY <1>1, <1>4, <1>5, <1>6 DEF LogTypes
<1>8. VoteTypes' /\ BoxTypes' /\ network' \subseteq Messages
  BY <1>1, <1>4 DEF VoteTypes, BoxTypes, voteVars
<1>9. CommitTypes' /\ LeaderTypes'
  BY <1>1, <1>4 DEF CommitTypes, LeaderTypes, commitVars, leaderVars
<1>10. snapshot'[n].index <= lastApplied'[n]
  BY <1>3, <1>4, <1>5, <1>7 DEF commitVars
<1>11. \A p \in Nodes : p # n =>
           /\ snapshot'[p] = snapshot[p] /\ lastApplied'[p] = lastApplied[p]
           /\ members'[p] = members[p]
           /\ nextIndex'[p] = nextIndex[p] /\ matchIndex'[p] = matchIndex[p]
           /\ role'[p] = role[p]
  BY <1>4, <1>7 DEF voteVars, commitVars, leaderVars
<1>12. role'[n] = "leader" =>
           members'[n] \ {n} \subseteq DOMAIN nextIndex'[n] \cap DOMAIN matchIndex'[n]
  BY <1>4 DEF BaseInv, LeaderTracksPeers, Peers, voteVars, leaderVars
<1> QED BY <1>7, <1>8, <1>9, <1>10, <1>11, <1>12, BaseAssemble

\* The log of a follower that accepts entries: the part before the first one
\* that is new to it, followed by the rest of the message.
LEMMA AcceptShape ==
  ASSUME LogTypes, NEW m, m.dst \in Nodes, m.entries \in Seq(Entries), AcceptAppend(m)
  PROVE  LET n == m.dst
             E == m.entries
         IN \/ NewFrom(n, E) = {} /\ UNCHANGED <<log, members>>
            \/ \E f \in 1..Len(E) : \E k \in 0..Len(log[n]) :
                 LET after == SubSeq(log[n], 1, k) \o SubSeq(E, f, Len(E)) IN
                 /\ f \in NewFrom(n, E) /\ \A j \in NewFrom(n, E) : f <= j
                 /\ E[f].index > snapshot[n].index
                 /\ k = Len(log[n]) \/ k = E[f].index - snapshot[n].index - 1
                 /\ k <= E[f].index - snapshot[n].index - 1
                 /\ after \in Seq(Entries) /\ log' = [log EXCEPT ![n] = after]
                 /\ members' \in [Nodes -> SUBSET Nodes]
                 /\ \A p \in Nodes : p # n => members'[p] = members[p]
<1> DEFINE n == m.dst
           E == m.entries
           new == NewFrom(n, E)
           f == Min(new)
           k == Min({Len(log[n]), E[f].index - snapshot[n].index - 1})
           kept == SubSeq(log[n], 1, k)
           added == SubSeq(E, f, Len(E))
           after == kept \o added
<1>1. log[n] \in Seq(Entries) /\ snapshot[n].index \in Nat /\ Len(log[n]) \in Nat /\ Len(E) \in Nat
  BY LenProperties DEF LogTypes, Snapshots
<1>2. CASE new = {}
  BY <1>2 DEF AcceptAppend, LogTypes
<1>3. CASE new # {}
  <2>1. new \in SUBSET Nat /\ new \subseteq 1..Len(E)
    BY <1>1 DEF NewFrom
  <2>2. f \in new /\ \A j \in new : f <= j
    <3> HIDE DEF new
    <3> QED BY <1>3, <2>1, MinOfNat
  <2>3. f \in 1..Len(E) /\ E[f].index > snapshot[n].index
    BY <2>1, <2>2 DEF NewFrom
  <2>4. E[f] \in Entries /\ E[f].index \in Nat
    <3>1. E[f] \in Entries
      BY <2>3, ElementOfSeq
    <3> QED BY <3>1 DEF Entries
  <2> HIDE DEF f
  <2>5. /\ k \in 0..Len(log[n])
        /\ k = Len(log[n]) \/ k = E[f].index - snapshot[n].index - 1
        /\ k <= E[f].index - snapshot[n].index - 1
    <3> DEFINE d == E[f].index - snapshot[n].index - 1
    <3>1. d \in Nat
      BY <1>1, <2>3, <2>4
    <3> HIDE DEF d
    <3>2. Min({Len(log[n]), d}) = IF Len(log[n]) <= d THEN Len(log[n]) ELSE d
      BY <1>1, <3>1, MinOfTwo
    <3>3. k = Min({Len(log[n]), d})
      BY DEF d
    <3>4. k \in 0..Len(log[n]) /\ (k = Len(log[n]) \/ k = d) /\ k <= d
      <4> HIDE DEF k
      <4> QED BY <1>1, <3>1, <3>2, <3>3
    <3> HIDE DEF k
    <3> QED BY <3>4 DEF d
  <2>6. log' = [log EXCEPT ![n] = after]
    BY <1>3 DEF AcceptAppend, f
  <2>7. members' = [members EXCEPT ![n] =
                   IF new # {} /\ Configs(added) # {} THEN added[Max(Configs(added))].command ELSE @]
    BY DEF AcceptAppend, f
  <2> HIDE DEF k, new
  <2>8. kept \in Seq(Entries) /\ added \in Seq(Entries)
    <3>1. k \in Int /\ k <= Len(log[n]) /\ f \in Int /\ f >= 1 /\ Len(E) \in Int /\ Len(E) <= Len(E)
      BY <1>1, <2>3, <2>5
    <3>2. kept \in Seq(Entries)
      BY <1>1, <3>1, PartOf
    <3>3. added \in Seq(Entries)
      BY <3>1, PartOf
    <3> QED BY <3>2, <3>3
  <2>9. Len(added) \in Nat
    BY <2>8, LenProperties
  <2> HIDE DEF kept, added
  <2>10. after \in Seq(Entries)
    BY <2>8, ConcatProperties
  <2>11. /\ members' \in [Nodes -> SUBSET Nodes]
         /\ \A p \in Nodes : p # n => members'[p] = members[p]
    <3>1. Configs(added) # {} => added[Max(Configs(added))].command \in SUBSET Nodes
      <4> SUFFICES ASSUME Configs(added) # {} PROVE added[Max(Configs(added))].command \in SUBSET Nodes
        OBVIOUS
      <4>1. Configs(added) \in SUBSET (0..Len(added))
        BY <2>9 DEF Configs
      <4>2. Max(Configs(added)) \in Configs(added)
        BY <2>9, <4>1, MaxOfBounded
      <4>3. PICK j \in 1..Len(added) : j = Max(Configs(added)) /\ IsConfig(added[j].command)
        BY <4>2 DEF Configs
      <4>4. added[j] \in Entries
        BY <2>8, <4>3, ElementOfSeq
      <4> QED BY <4>3, <4>4 DEF Entries, IsConfig
    <3> QED BY <2>7, <3>1 DEF LogTypes
  <2>12. /\ log' = [log EXCEPT ![n] = SubSeq(log[n], 1, k) \o SubSeq(E, f, Len(E))]
         /\ SubSeq(log[n], 1, k) \o SubSeq(E, f, Len(E)) \in Seq(Entries)
    BY <2>6, <2>10 DEF kept, added
  <2>13. f \in NewFrom(n, E) /\ \A j \in NewFrom(n, E) : f <= j
    BY <2>2 DEF new
  <2> QED BY <2>3, <2>5, <2>11, <2>12, <2>13
<1> QED BY <1>2, <1>3

\* _advance_commit.
LEMMA AdvanceCommitStep ==
  ASSUME VoteTypes, LogTypes, CommitTypes, NEW n \in Nodes, NEW match, AdvanceCommit(n, match)
  PROVE  /\ CommitTypes' /\ lastApplied'[n] >= lastApplied[n]
         /\ \A p \in Nodes : p # n => lastApplied'[p] = lastApplied[p]
<1> DEFINE ready == {i \in commitIndex[n] + 1 .. LastIndex(n) :
                  /\ TermAt(n, i) = currentTerm[n]
                  /\ 1 + Cardinality({p \in DOMAIN match : match[p] >= i})
                       >= QuorumSize(members[n])}
<1>1. /\ log[n] \in Seq(Entries) /\ snapshot[n].index \in Nat
      /\ commitIndex[n] \in Nat /\ LastIndex(n) \in Nat /\ lastApplied[n] \in Nat
  BY LastType DEF LogTypes, Snapshots, CommitTypes
<1>2. CASE ready = {}
  BY <1>1, <1>2 DEF AdvanceCommit, CommitTypes, commitVars
<1>3. CASE ready # {}
  <2>1. CommitTo(n, Max(ready), log[n], snapshot[n].index)
    BY <1>3 DEF AdvanceCommit
  <2>2. ready \in SUBSET (0..LastIndex(n)) /\ \A i \in ready : i \in Nat
    BY <1>1
  <2> HIDE DEF ready
  <2>3. Max(ready) \in ready
    BY <1>1, <1>3, <2>2, MaxOfBounded
  <2>4. Max(ready) \in Nat
    BY <2>2, <2>3
  <2> QED BY <1>1, <2>1, <2>4, CommitToStep
<1> QED BY <1>2, <1>3

\* The back-off hint is an index.
LEMMA ConflictType ==
  ASSUME LogTypes, NEW n \in Nodes, NEW prev \in Nat
  PROVE  Conflict(n, prev) \in Nat
<1> DEFINE c == Min({prev, LastIndex(n) + 1})
           run == {i \in 1..c : \A j \in i..c : TermAt(n, j) = TermAt(n, c)}
<1>1. LastIndex(n) \in Nat
  BY LastType
<1>2. c \in Nat
  BY <1>1, MinOfTwo
<1> HIDE DEF c
<1>3. ASSUME c > 0 PROVE Min(run) \in Nat
  <2>1. c \in run
    BY <1>2, <1>3
  <2>2. run \in SUBSET Nat /\ run # {}
    BY <1>2, <2>1
  <2> HIDE DEF run
  <2> QED BY <2>2, MinOfNat
<1> QED BY <1>2, <1>3 DEF Conflict, c

LEMMA FollowLeaderTypes ==
  ASSUME VoteTypes, NEW n \in Nodes, NEW t \in Nat, FollowLeader(n, t), UNCHANGED elections
  PROVE  /\ VoteTypes' /\ role'[n] # "leader"
         /\ \A p \in Nodes : p # n => role'[p] = role[p]
<1>1. CASE t > currentTerm[n] \/ role[n] # "follower"
  BY <1>1 DEF FollowLeader, BecomeFollower, VoteTypes
<1>2. CASE ~ (t > currentTerm[n] \/ role[n] # "follower")
  BY <1>2 DEF FollowLeader, VoteTypes, voteVars
<1> QED BY <1>1, <1>2

LEMMA BaseAppend ==
  ASSUME BaseInv, NEW m \in network, OnAppend(m)
  PROVE  BaseInv'
<1> DEFINE n == m.dst
<1>1. VoteTypes /\ LogTypes /\ CommitTypes /\ LeaderTypes /\ BoxTypes /\ network \subseteq Messages
  BY TypeParts DEF BaseInv
<1>2. m.type = "AppendEntries" /\ UNCHANGED <<leaderVars, elections, counters>>
  BY DEF OnAppend
<1>3. /\ n \in Nodes /\ m.src \in Nodes /\ m.term \in Nat /\ m.prevIndex \in Nat /\ m.commit \in Nat
      /\ m.entries \in Seq(Entries) /\ currentTerm[n] \in Nat
  BY <1>1, <1>2, MessageFields DEF VoteTypes
<1>4. LeaderTypes'
  BY <1>1, <1>2 DEF LeaderTypes, leaderVars
<1>5. ASSUME network' \subseteq Messages, copies' \in Nat
      PROVE  BoxTypes'
  BY <1>1, <1>2, <1>5 DEF BoxTypes, counters
<1>6. ASSUME NEW t \in Nat, NEW c \in Nat, RejectAppend(m, t, c),
             VoteTypes', \A p \in Nodes : role'[p] = "leader" => role[p] = "leader"
      PROVE  BaseInv'
  <2>1. {AppendReply(n, m.src, t, FALSE, 0, c)} \subseteq Messages
    <3>1. AppendReply(n, m.src, t, FALSE, 0, c) \in Messages
      BY <1>3, SmallMessages
    <3> QED BY <3>1
  <2>2. network' \subseteq Messages /\ copies' \in Nat /\ UNCHANGED <<logVars, commitVars>>
    BY <1>1, <1>6, <2>1, DeliverType DEF RejectAppend, BoxTypes
  <2> QED BY <1>2, <1>5, <1>6, <2>2, BaseNoLeader
<1>7. CASE m.term < currentTerm[n]
  <2>1. RejectAppend(m, currentTerm[n], 0) /\ UNCHANGED voteVars
    BY <1>7 DEF OnAppend
  <2>2. VoteTypes' /\ \A p \in Nodes : role'[p] = "leader" => role[p] = "leader"
    BY <1>1, <1>2, <2>1 DEF VoteTypes, voteVars
  <2> QED BY <1>3, <1>6, <2>1, <2>2
<1>8. CASE ~ (m.term < currentTerm[n]) /\ ~ Consistent(n, m)
  <2>1. FollowLeader(n, m.term) /\ RejectAppend(m, m.term, Conflict(n, m.prevIndex))
    BY <1>8 DEF OnAppend
  <2>2. VoteTypes' /\ \A p \in Nodes : role'[p] = "leader" => role[p] = "leader"
    BY <1>1, <1>2, <1>3, <2>1, FollowLeaderTypes
  <2>3. Conflict(n, m.prevIndex) \in Nat
    BY <1>1, <1>3, ConflictType
  <2> QED BY <1>3, <1>6, <2>1, <2>2, <2>3
<1>9. CASE ~ (m.term < currentTerm[n]) /\ Consistent(n, m)
  <2>1. FollowLeader(n, m.term) /\ AcceptAppend(m)
    BY <1>9 DEF OnAppend
  <2>2. VoteTypes' /\ role'[n] # "leader" /\ \A p \in Nodes : p # n => role'[p] = role[p]
    BY <1>1, <1>2, <1>3, <2>1, FollowLeaderTypes
  <2>3. /\ log' \in [Nodes -> Seq(Entries)] /\ members' \in [Nodes -> SUBSET Nodes]
        /\ \A p \in Nodes : p # n => members'[p] = members[p]
    <3>1. CASE NewFrom(n, m.entries) = {} /\ UNCHANGED <<log, members>>
      BY <1>1, <3>1 DEF LogTypes
    <3>2. CASE \E after \in Seq(Entries) :
                 /\ log' = [log EXCEPT ![n] = after]
                 /\ members' \in [Nodes -> SUBSET Nodes]
                 /\ \A p \in Nodes : p # n => members'[p] = members[p]
      BY <1>1, <3>2 DEF LogTypes
    <3> QED BY <1>1, <1>3, <2>1, <3>1, <3>2, AcceptShape
  <2>4. PICK last : /\ last = IF log'[n] = <<>> THEN snapshot[n].index ELSE log'[n][Len(log'[n])].index
                    /\ \/ CommitTo(n, Min({m.commit, last}), log'[n], snapshot[n].index)
                       \/ UNCHANGED commitVars
                    /\ Deliver(m, {AppendReply(n, m.src, m.term, TRUE, last, 0)})
                    /\ UNCHANGED snapshot
    <3> DEFINE A == NewFrom(n, m.entries)
               f == Min(A)
               kept == SubSeq(log[n], 1,
                         Min({Len(log[n]), m.entries[f].index - snapshot[n].index - 1}))
               added == SubSeq(m.entries, f, Len(m.entries))
               after == IF A = {} THEN log[n] ELSE kept \o added
               last == IF after = <<>> THEN snapshot[n].index ELSE after[Len(after)].index
    <3>1. /\ log' = [log EXCEPT ![n] = after]
          /\ \/ CommitTo(n, Min({m.commit, last}), after, snapshot[n].index)
             \/ UNCHANGED commitVars
          /\ Deliver(m, {AppendReply(n, m.src, m.term, TRUE, last, 0)})
          /\ UNCHANGED snapshot
      BY <2>1 DEF AcceptAppend
    <3> HIDE DEF after
    <3>2. log'[n] = after
      BY <1>1, <1>3, <3>1 DEF LogTypes
    <3> QED BY <3>1, <3>2
  <2>5. LogTypes'
    BY <1>1, <2>3, <2>4 DEF LogTypes
  <2>6. last \in Nat /\ log'[n] \in Seq(Entries) /\ snapshot[n].index \in Nat
    <3>1. log'[n] \in Seq(Entries) /\ snapshot[n].index \in Nat
      BY <1>1, <1>3, <2>3 DEF LogTypes, Snapshots
    <3>2. CASE log'[n] # <<>>
      <4>1. log'[n][Len(log'[n])] \in Entries
        BY <3>1, <3>2, LenProperties, EmptySeq
      <4> QED BY <2>4, <3>1, <3>2, <4>1 DEF Entries
    <3>3. CASE log'[n] = <<>>
      BY <2>4, <3>1, <3>3
    <3> QED BY <3>2, <3>3
  <2>7. /\ CommitTypes' /\ lastApplied'[n] >= lastApplied[n]
        /\ \A p \in Nodes : p # n => lastApplied'[p] = lastApplied[p]
    <3>1. Min({m.commit, last}) \in Nat
      <4>1. m.commit \in Int /\ last \in Int /\ m.commit \in Nat /\ last \in Nat
        BY <1>3, <2>6
      <4>2. Min({m.commit, last}) = IF m.commit <= last THEN m.commit ELSE last
        BY <4>1, MinOfTwo
      <4> QED BY <4>1, <4>2
    <3>2. CASE CommitTo(n, Min({m.commit, last}), log'[n], snapshot[n].index)
      BY <1>1, <1>3, <2>6, <3>1, <3>2, CommitToStep
    <3>3. CASE UNCHANGED commitVars
      BY <1>1, <1>3, <3>3 DEF CommitTypes, commitVars
    <3> QED BY <2>4, <3>2, <3>3
  <2>8. {AppendReply(n, m.src, m.term, TRUE, last, 0)} \subseteq Messages
    <3>1. AppendReply(n, m.src, m.term, TRUE, last, 0) \in Messages
      BY <1>3, <2>6, SmallMessages
    <3> QED BY <3>1
  <2>9. network' \subseteq Messages /\ copies' \in Nat
    BY <1>1, <2>4, <2>8, DeliverType DEF BoxTypes
  <2>10. BoxTypes'
    BY <1>5, <2>9
  <2>11. snapshot'[n].index <= lastApplied'[n]
    <3>1. lastApplied'[n] \in Nat /\ lastApplied[n] \in Nat /\ snapshot[n].index <= lastApplied[n]
      BY <1>1, <1>3, <2>7 DEF CommitTypes, BaseInv, OnlyAppliedCompacted
    <3> QED BY <2>4, <2>6, <2>7, <3>1
  <2>12. \A p \in Nodes : p # n =>
           /\ snapshot'[p] = snapshot[p] /\ lastApplied'[p] = lastApplied[p]
           /\ members'[p] = members[p]
           /\ nextIndex'[p] = nextIndex[p] /\ matchIndex'[p] = matchIndex[p]
           /\ role'[p] = role[p]
    BY <1>2, <2>2, <2>3, <2>4, <2>7 DEF leaderVars
  <2> QED BY <1>3, <1>4, <2>2, <2>5, <2>7, <2>9, <2>10, <2>11, <2>12, BaseAssemble
<1> QED BY <1>7, <1>8, <1>9

\* A leader that takes a reply into account.
LEMMA BaseReply ==
  ASSUME BaseInv, NEW m \in network, m.type \in {"AppendReply", "InstallReply"},
         UNCHANGED <<voteVars, logVars, elections, counters>>, role[m.dst] = "leader",
         CommitTypes', lastApplied'[m.dst] >= lastApplied[m.dst],
         \A p \in Nodes : p # m.dst => lastApplied'[p] = lastApplied[p],
         NEW i \in Nat, nextIndex' = [nextIndex EXCEPT ![m.dst] = Put(@, m.src, i)],
         \/ UNCHANGED matchIndex
         \/ \E j \in Nat : matchIndex' = [matchIndex EXCEPT ![m.dst] = Put(@, m.src, j)],
         Deliver(m, {}) \/ Deliver(m, {AppendTo(m.dst, m.src)'})
  PROVE  BaseInv'
<1> DEFINE n == m.dst
<1>1. VoteTypes /\ LogTypes /\ CommitTypes /\ LeaderTypes /\ BoxTypes /\ network \subseteq Messages
  BY TypeParts DEF BaseInv
<1>2. n \in Nodes /\ m.src \in Nodes
  BY <1>1, MessageFields
<1>3. VoteTypes' /\ LogTypes'
  BY <1>1 DEF VoteTypes, LogTypes, voteVars, logVars
<1>4. /\ DOMAIN nextIndex' = Nodes /\ IsPeerIndex(nextIndex'[n])
      /\ DOMAIN nextIndex[n] \subseteq DOMAIN nextIndex'[n]
      /\ \A p \in Nodes : p # n => nextIndex'[p] = nextIndex[p]
  <2>1. IsPeerIndex(nextIndex[n])
    BY <1>1, <1>2 DEF LeaderTypes
  <2>2. IsPeerIndex(Put(nextIndex[n], m.src, i)) /\ DOMAIN Put(nextIndex[n], m.src, i) = DOMAIN nextIndex[n] \cup {m.src}
    BY <1>2, <2>1, PutType
  <2>3. nextIndex'[n] = Put(nextIndex[n], m.src, i) /\ DOMAIN nextIndex' = Nodes
    BY <1>1, <1>2 DEF LeaderTypes
  <2> QED BY <1>1, <2>2, <2>3 DEF LeaderTypes
<1>5. /\ DOMAIN matchIndex' = Nodes /\ IsPeerIndex(matchIndex'[n])
      /\ DOMAIN matchIndex[n] \subseteq DOMAIN matchIndex'[n]
      /\ \A p \in Nodes : p # n => matchIndex'[p] = matchIndex[p]
  <2>1. IsPeerIndex(matchIndex[n])
    BY <1>1, <1>2 DEF LeaderTypes
  <2>2. CASE UNCHANGED matchIndex
    BY <1>1, <2>1, <2>2 DEF LeaderTypes
  <2>3. CASE \E j \in Nat : matchIndex' = [matchIndex EXCEPT ![n] = Put(@, m.src, j)]
    <3>1. PICK j \in Nat : matchIndex' = [matchIndex EXCEPT ![n] = Put(@, m.src, j)]
      BY <2>3
    <3>2. IsPeerIndex(Put(matchIndex[n], m.src, j)) /\ DOMAIN Put(matchIndex[n], m.src, j) = DOMAIN matchIndex[n] \cup {m.src}
      BY <1>2, <2>1, PutType
    <3>3. matchIndex'[n] = Put(matchIndex[n], m.src, j) /\ DOMAIN matchIndex' = Nodes
      BY <1>1, <1>2, <3>1 DEF LeaderTypes
    <3> QED BY <1>1, <3>1, <3>2, <3>3 DEF LeaderTypes
  <2> QED BY <2>2, <2>3
<1>6. LeaderTypes'
  BY <1>1, <1>4, <1>5 DEF LeaderTypes
<1>7. network' \subseteq Messages /\ copies' \in Nat
  <2>1. {AppendTo(n, m.src)'} \subseteq Messages
    BY <1>2, <1>3, <1>6, AppendToAfter
  <2>2. {} \subseteq Messages
    OBVIOUS
  <2> QED BY <1>1, <2>1, <2>2, DeliverType DEF BoxTypes
<1>8. BoxTypes'
  BY <1>1, <1>7 DEF BoxTypes, counters
<1>9. snapshot'[n].index <= lastApplied'[n]
  <2>1. /\ lastApplied'[n] \in Nat /\ lastApplied[n] \in Nat /\ snapshot[n].index <= lastApplied[n]
        /\ snapshot[n].index \in Nat
    BY <1>1, <1>2 DEF CommitTypes, BaseInv, OnlyAppliedCompacted, LogTypes, Snapshots
  <2> QED BY <2>1 DEF logVars
<1>10. \A p \in Nodes : p # n =>
           /\ snapshot'[p] = snapshot[p] /\ lastApplied'[p] = lastApplied[p]
           /\ members'[p] = members[p]
           /\ nextIndex'[p] = nextIndex[p] /\ matchIndex'[p] = matchIndex[p]
           /\ role'[p] = role[p]
  BY <1>4, <1>5 DEF logVars, voteVars
<1>11. members'[n] \ {n} \subseteq DOMAIN nextIndex'[n] \cap DOMAIN matchIndex'[n]
  <2>1. members[n] \ {n} \subseteq DOMAIN nextIndex[n] \cap DOMAIN matchIndex[n]
    BY <1>2 DEF BaseInv, LeaderTracksPeers, Peers
  <2> QED BY <1>4, <1>5, <2>1 DEF logVars
<1> QED BY <1>2, <1>3, <1>6, <1>7, <1>8, <1>9, <1>10, <1>11, BaseAssemble

\* A reply that finds no leader is dropped.
LEMMA BaseDrop ==
  ASSUME BaseInv, NEW m \in network, Deliver(m, {}),
         UNCHANGED <<voteVars, logVars, commitVars, leaderVars, elections, counters>>
  PROVE  BaseInv'
<1>1. VoteTypes /\ BoxTypes /\ network \subseteq Messages
  BY TypeParts DEF BaseInv
<1>2. network' \subseteq Messages /\ copies' \in Nat
  BY <1>1, DeliverType DEF BoxTypes
<1>3. VoteTypes' /\ BoxTypes' /\ \A p \in Nodes : role'[p] = "leader" => role[p] = "leader"
  BY <1>1, <1>2 DEF VoteTypes, BoxTypes, voteVars, counters
<1> QED BY <1>2, <1>3, BaseNoLeader

LEMMA BaseAppendReply ==
  ASSUME BaseInv, NEW m \in network, OnAppendReply(m)
  PROVE  BaseInv'
<1> DEFINE n == m.dst
           back == Get(nextIndex[n], m.src, 1) - 1
           next == Max({1, IF m.conflict # 0 THEN m.conflict ELSE back})
<1>1. VoteTypes /\ LogTypes /\ CommitTypes /\ LeaderTypes /\ network \subseteq Messages
  BY TypeParts DEF BaseInv
<1>2. m.type = "AppendReply" /\ UNCHANGED <<voteVars, logVars, elections, counters>>
  BY DEF OnAppendReply
<1>3. n \in Nodes /\ m.src \in Nodes /\ m.match \in Nat /\ m.conflict \in Nat /\ lastApplied[n] \in Nat
  BY <1>1, <1>2, MessageFields DEF CommitTypes
<1>4. CASE role[n] # "leader"
  <2>1. Deliver(m, {}) /\ UNCHANGED <<leaderVars, commitVars>>
    BY <1>4 DEF OnAppendReply
  <2> QED BY <1>2, <2>1, BaseDrop
<1>5. CASE role[n] = "leader" /\ m.success
  <2>1. /\ matchIndex' = [matchIndex EXCEPT ![n] = Put(@, m.src, m.match)]
        /\ nextIndex' = [nextIndex EXCEPT ![n] = Put(@, m.src, m.match + 1)]
        /\ AdvanceCommit(n, matchIndex'[n]) /\ Deliver(m, {})
    BY <1>5 DEF OnAppendReply
  <2>2. /\ CommitTypes' /\ lastApplied'[n] >= lastApplied[n]
        /\ \A p \in Nodes : p # n => lastApplied'[p] = lastApplied[p]
    BY <1>1, <1>3, <2>1, AdvanceCommitStep
  <2>3. m.match + 1 \in Nat
    BY <1>3
  <2> QED BY <1>2, <1>3, <1>5, <2>1, <2>2, <2>3, BaseReply
<1>6. CASE role[n] = "leader" /\ ~ m.success
  <2>1. /\ nextIndex' = [nextIndex EXCEPT ![n] = Put(@, m.src, next)]
        /\ UNCHANGED <<matchIndex, commitVars>> /\ Deliver(m, {AppendTo(n, m.src)'})
    BY <1>6 DEF OnAppendReply
  <2>2. next \in Nat
    <3>1. back \in Int
      BY <1>1, <1>3, GetType DEF LeaderTypes
    <3> HIDE DEF back
    <3>2. (IF m.conflict # 0 THEN m.conflict ELSE back) \in Int
      BY <1>3, <3>1
    <3> QED BY <3>2, MaxOfTwo
  <2> HIDE DEF next
  <2>3. /\ CommitTypes' /\ lastApplied'[n] >= lastApplied[n]
        /\ \A p \in Nodes : p # n => lastApplied'[p] = lastApplied[p]
    BY <1>1, <1>3, <2>1 DEF CommitTypes, commitVars
  <2> QED BY <1>2, <1>3, <1>6, <2>1, <2>2, <2>3, BaseReply
<1> QED BY <1>4, <1>5, <1>6

LEMMA BaseInstallReply ==
  ASSUME BaseInv, NEW m \in network, OnInstallReply(m)
  PROVE  BaseInv'
<1> DEFINE n == m.dst
<1>1. VoteTypes /\ LogTypes /\ CommitTypes /\ LeaderTypes /\ network \subseteq Messages
  BY TypeParts DEF BaseInv
<1>2. m.type = "InstallReply" /\ UNCHANGED <<voteVars, logVars, elections, counters>>
  BY DEF OnInstallReply
<1>3. n \in Nodes /\ m.src \in Nodes /\ m.match \in Nat /\ m.match + 1 \in Nat
  BY <1>1, <1>2, MessageFields
<1>4. CASE role[n] # "leader"
  <2>1. Deliver(m, {}) /\ UNCHANGED <<leaderVars, commitVars>>
    BY <1>4 DEF OnInstallReply
  <2> QED BY <1>2, <2>1, BaseDrop
<1>5. CASE role[n] = "leader"
  <2>1. /\ matchIndex' = [matchIndex EXCEPT ![n] = Put(@, m.src, m.match)]
        /\ nextIndex' = [nextIndex EXCEPT ![n] = Put(@, m.src, m.match + 1)]
        /\ AdvanceCommit(n, matchIndex'[n]) /\ Deliver(m, {AppendTo(n, m.src)'})
    BY <1>5 DEF OnInstallReply
  <2>2. /\ CommitTypes' /\ lastApplied'[n] >= lastApplied[n]
        /\ \A p \in Nodes : p # n => lastApplied'[p] = lastApplied[p]
    BY <1>1, <1>3, <2>1, AdvanceCommitStep
  <2> QED BY <1>2, <1>3, <1>5, <2>1, <2>2, BaseReply
<1> QED BY <1>4, <1>5

\* The log that is left when a snapshot is installed.
LaterPart(l, i) ==
  LET later == {j \in DOMAIN l : l[j].index > i} IN
  IF later # {} THEN SubSeq(l, Min(later), Len(l)) ELSE <<>>

LEMMA LaterPartShape ==
  ASSUME NEW l \in Seq(Entries), NEW i \in Nat
  PROVE  /\ LaterPart(l, i) \in Seq(Entries)
         /\ \/ LaterPart(l, i) = <<>> /\ \A j \in 1..Len(l) : ~ (l[j].index > i)
            \/ \E f \in 1..Len(l) :
                 /\ l[f].index > i /\ \A j \in 1..Len(l) : l[j].index > i => f <= j
                 /\ LaterPart(l, i) = SubSeq(l, f, Len(l))
<1> DEFINE later == {j \in DOMAIN l : l[j].index > i}
<1>1. DOMAIN l = 1..Len(l) /\ Len(l) \in Nat
  BY LenProperties
<1>2. CASE later = {}
  BY <1>1, <1>2, EmptySeq DEF LaterPart
<1>3. CASE later # {}
  <2>1. later \in SUBSET Nat
    BY <1>1
  <2> HIDE DEF later
  <2>2. PICK f : f = Min(later) /\ f \in later /\ \A j \in later : f <= j
    BY <1>3, <2>1, MinOfNat
  <2> USE DEF later
  <2>3. f \in 1..Len(l) /\ l[f].index > i /\ \A j \in 1..Len(l) : l[j].index > i => f <= j
    BY <1>1, <2>2
  <2>4. LaterPart(l, i) = SubSeq(l, f, Len(l))
    BY <1>3, <2>2 DEF LaterPart
  <2>5. f \in Int /\ f >= 1 /\ Len(l) \in Int /\ Len(l) <= Len(l)
    BY <1>1, <2>3
  <2>6. SubSeq(l, f, Len(l)) \in Seq(Entries)
    BY <2>5, PartOf
  <2> QED BY <2>3, <2>4, <2>6
<1> QED BY <1>2, <1>3

LEMMA BaseInstallSnapshot ==
  ASSUME BaseInv, NEW m \in network, OnInstallSnapshot(m)
  PROVE  BaseInv'
<1> DEFINE n == m.dst
           s == m.snapshot
<1>1. VoteTypes /\ LogTypes /\ CommitTypes /\ LeaderTypes /\ BoxTypes /\ network \subseteq Messages
  BY TypeParts DEF BaseInv
<1>2. m.type = "InstallSnapshot" /\ UNCHANGED <<leaderVars, elections, counters>>
  BY DEF OnInstallSnapshot
<1>3. /\ n \in Nodes /\ m.src \in Nodes /\ m.term \in Nat /\ s \in Snapshots
      /\ m.members \in SUBSET Nodes /\ currentTerm[n] \in Nat
  BY <1>1, <1>2, MessageFields DEF VoteTypes
<1>4. LeaderTypes'
  BY <1>1, <1>2 DEF LeaderTypes, leaderVars
<1>5. ASSUME LogTypes', NEW t \in Nat, NEW r \in Nat, Deliver(m, {InstallReply(n, m.src, t, r)})
      PROVE  network' \subseteq Messages /\ BoxTypes'
  <2>1. {InstallReply(n, m.src, t, r)} \subseteq Messages
    BY <1>3, SmallMessages
  <2>2. network' \subseteq Messages /\ copies' \in Nat
    BY <1>1, <1>5, <2>1, DeliverType DEF BoxTypes
  <2> QED BY <1>1, <1>2, <2>2 DEF BoxTypes, counters
<1>6. CASE m.term < currentTerm[n]
  <2>1. /\ Deliver(m, {InstallReply(n, m.src, currentTerm[n], snapshot[n].index)})
        /\ UNCHANGED <<voteVars, logVars, commitVars>>
    BY <1>6 DEF OnInstallSnapshot
  <2>2. snapshot[n].index \in Nat /\ LogTypes'
    BY <1>1, <1>3, <2>1 DEF LogTypes, Snapshots, logVars
  <2>3. network' \subseteq Messages /\ BoxTypes'
    BY <1>3, <1>5, <2>1, <2>2
  <2>4. VoteTypes' /\ \A p \in Nodes : role'[p] = "leader" => role[p] = "leader"
    BY <1>1, <1>2, <2>1 DEF VoteTypes, voteVars
  <2> QED BY <1>2, <2>1, <2>3, <2>4, BaseNoLeader
<1>7. CASE ~ (m.term < currentTerm[n])
  <2>1. FollowLeader(n, m.term) /\ Deliver(m, {InstallReply(n, m.src, m.term, snapshot'[n].index)})
    BY <1>7 DEF OnInstallSnapshot
  <2>2. VoteTypes' /\ role'[n] # "leader" /\ \A p \in Nodes : p # n => role'[p] = role[p]
    BY <1>1, <1>2, <1>3, <2>1, FollowLeaderTypes
  <2>3. CASE s.index > snapshot[n].index
    <3> DEFINE l == IF TermAt(n, s.index) = s.term THEN LaterPart(log[n], s.index) ELSE <<>>
    <3>1. /\ log' = [log EXCEPT ![n] = l]
          /\ snapshot' = [snapshot EXCEPT ![n] = s]
          /\ commitIndex' = [commitIndex EXCEPT ![n] = Max({@, s.index})]
          /\ lastApplied' = [lastApplied EXCEPT ![n] = Max({@, s.index})]
          /\ members' = [members EXCEPT ![n] = m.members]
          /\ machine' = [machine EXCEPT ![n] = s.data]
      BY <1>7, <2>3 DEF OnInstallSnapshot, LaterPart
    <3>2. s.index \in Nat /\ s.data \in Seq(Commands)
      BY <1>3 DEF Snapshots
    <3>3. log[n] \in Seq(Entries) /\ commitIndex[n] \in Nat /\ lastApplied[n] \in Nat
      BY <1>1, <1>3 DEF LogTypes, CommitTypes
    <3>4. l \in Seq(Entries)
      BY <3>2, <3>3, LaterPartShape, EmptySeq
    <3> HIDE DEF l
    <3>5. LogTypes'
      BY <1>1, <1>3, <3>1, <3>4 DEF LogTypes
    <3>6. /\ Max({commitIndex[n], s.index}) \in Nat /\ Max({lastApplied[n], s.index}) \in Nat
          /\ Max({lastApplied[n], s.index}) >= s.index
      <4>1. \A a, b \in Nat : Max({a, b}) \in Nat /\ Max({a, b}) >= b
        BY MaxOfTwo
      <4> HIDE DEF s
      <4> QED BY <3>2, <3>3, <4>1
    <3>7. CommitTypes'
      BY <1>1, <3>1, <3>2, <3>6 DEF CommitTypes
    <3>8. snapshot'[n] = s /\ lastApplied'[n] = Max({lastApplied[n], s.index})
      BY <1>1, <1>3, <3>1 DEF LogTypes, CommitTypes
    <3>9. snapshot'[n].index <= lastApplied'[n] /\ snapshot'[n].index \in Nat
      BY <3>2, <3>6, <3>8
    <3>10. network' \subseteq Messages /\ BoxTypes'
      BY <1>3, <1>5, <2>1, <3>5, <3>9
    <3>11. \A p \in Nodes : p # n =>
           /\ snapshot'[p] = snapshot[p] /\ lastApplied'[p] = lastApplied[p]
           /\ members'[p] = members[p]
           /\ nextIndex'[p] = nextIndex[p] /\ matchIndex'[p] = matchIndex[p]
           /\ role'[p] = role[p]
      BY <1>1, <1>2, <2>2, <3>1 DEF leaderVars, LogTypes, CommitTypes
    <3> QED BY <1>3, <1>4, <2>2, <3>5, <3>7, <3>9, <3>10, <3>11, BaseAssemble
  <2>4. CASE ~ (s.index > snapshot[n].index)
    <3>1. UNCHANGED <<logVars, commitVars>>
      BY <1>7, <2>4 DEF OnInstallSnapshot
    <3>2. snapshot'[n].index \in Nat /\ LogTypes'
      BY <1>1, <1>3, <3>1 DEF LogTypes, Snapshots, logVars
    <3>3. network' \subseteq Messages /\ BoxTypes'
      BY <1>3, <1>5, <2>1, <3>2
    <3>4. \A p \in Nodes : role'[p] = "leader" => role[p] = "leader"
      BY <2>2
    <3> QED BY <1>2, <2>2, <3>1, <3>3, <3>4, BaseNoLeader
  <2> QED BY <2>3, <2>4
<1> QED BY <1>6, <1>7

LEMMA BaseRestart ==
  ASSUME BaseInv, NEW n \in Nodes, Restart(n)
  PROVE  BaseInv'
<1>1. VoteTypes /\ LogTypes /\ CommitTypes /\ LeaderTypes /\ BoxTypes /\ network \subseteq Messages
  BY TypeParts DEF BaseInv
<1>2. VoteTypes' /\ role'[n] # "leader" /\ \A p \in Nodes : p # n => role'[p] = role[p]
  BY <1>1 DEF Restart, VoteTypes
<1>3. /\ LogTypes' /\ snapshot'[n].index = 0
      /\ \A p \in Nodes : p # n => snapshot'[p] = snapshot[p] /\ members'[p] = members[p]
  <2>1. [index |-> 0, term |-> 0, data |-> <<>>] \in Snapshots /\ InitialMembers \cup {n} \in SUBSET Nodes
    BY NodesAssumption, EmptySeq DEF Snapshots
  <2>2. <<>> \in Seq(Entries)
    BY EmptySeq
  <2>3. /\ members' = [members EXCEPT ![n] = InitialMembers \cup {n}]
        /\ log' = [log EXCEPT ![n] = <<>>]
        /\ snapshot' = [snapshot EXCEPT ![n] = [index |-> 0, term |-> 0, data |-> <<>>]]
    BY DEF Restart
  <2> QED BY <1>1, <2>1, <2>2, <2>3 DEF LogTypes
<1>4. /\ CommitTypes' /\ lastApplied'[n] = 0
      /\ \A p \in Nodes : p # n => lastApplied'[p] = lastApplied[p]
  BY <1>1, EmptySeq DEF Restart, CommitTypes
<1>5. /\ LeaderTypes'
      /\ \A p \in Nodes : p # n => nextIndex'[p] = nextIndex[p] /\ matchIndex'[p] = matchIndex[p]
  BY <1>1 DEF Restart, LeaderTypes, IsPeerIndex
<1>6. BoxTypes' /\ network' \subseteq Messages
  BY <1>1 DEF Restart, BoxTypes
<1>7. snapshot'[n].index <= lastApplied'[n]
  BY <1>3, <1>4
<1> QED BY <1>2, <1>3, <1>4, <1>5, <1>6, <1>7, BaseAssemble

LEMMA BaseStep ==
  ASSUME BaseInv, [Next]_vars
  PROVE  BaseInv'
<1>1. VoteTypes /\ BoxTypes /\ network \subseteq Messages
  BY TypeParts DEF BaseInv
<1>2. ASSUME NEW n \in Nodes, NEW c \in Commands, ProposeCommand(n, c)
      PROVE  BaseInv'
  <2>1. Propose(n, c) /\ BoxTypes'
    BY <1>1, <1>2 DEF ProposeCommand, Propose, Send, BoxTypes, counters
  <2> QED BY <2>1, BasePropose
<1>3. ASSUME NEW n \in Nodes, NEW ms \in SUBSET Nodes, Reconfigure(n, ms)
      PROVE  BaseInv'
  <2>1. Propose(n, ms) /\ BoxTypes'
    BY <1>1, <1>3 DEF Reconfigure, Propose, Send, BoxTypes
  <2> QED BY <2>1, BasePropose
<1>4. ASSUME NEW n \in Nodes, NEW p \in Nodes, AddServer(n, p) \/ RemoveServer(n, p)
      PROVE  BaseInv'
  <2>1. members[n] \in SUBSET Nodes
    BY TypeParts DEF BaseInv, LogTypes
  <2>2. members[n] \cup {p} \in SUBSET Nodes /\ members[n] \ {p} \in SUBSET Nodes
    BY <2>1
  <2>3. Reconfigure(n, members[n] \cup {p}) \/ Reconfigure(n, members[n] \ {p})
    BY <1>4 DEF AddServer, RemoveServer
  <2> QED BY <1>3, <2>2, <2>3
<1>5. ASSUME NEW m \in network, Handle(m)
      PROVE  BaseInv'
  BY <1>5, BaseRequestVote, BaseVoteReply, BaseAppend, BaseAppendReply, BaseInstallSnapshot,
     BaseInstallReply, BaseStepDown DEF Handle
<1>6. ASSUME NEW m \in network, Lose(m)
      PROVE  BaseInv'
  <2>1. /\ network' \subseteq Messages
        /\ UNCHANGED <<voteVars, logVars, commitVars, leaderVars, elections, copies, counters>>
    BY <1>1, <1>6 DEF Lose
  <2>2. VoteTypes' /\ BoxTypes' /\ \A p \in Nodes : role'[p] = "leader" => role[p] = "leader"
    BY <1>1, <2>1 DEF VoteTypes, BoxTypes, voteVars, counters
  <2> QED BY <2>1, <2>2, BaseNoLeader
<1>7. CASE UNCHANGED vars
  <2>1. /\ UNCHANGED <<voteVars, logVars, commitVars, leaderVars, elections, copies, counters>>
        /\ network' \subseteq Messages
    BY <1>1, <1>7 DEF vars
  <2>2. VoteTypes' /\ BoxTypes' /\ \A p \in Nodes : role'[p] = "leader" => role[p] = "leader"
    BY <1>1, <2>1 DEF VoteTypes, BoxTypes, voteVars, counters
  <2> QED BY <2>1, <2>2, BaseNoLeader
<1>8. ASSUME NEW n \in Nodes, StartElection(n) \/ Heartbeat(n) \/ Restart(n)
      PROVE  BaseInv'
  BY <1>8, BaseStartElection, BaseHeartbeat, BaseRestart
<1>9. ASSUME NEW n \in Nodes, NEW i \in 1..MaxLog, Compact(n, i)
      PROVE  BaseInv'
  BY <1>9, BaseCompact
<1> QED BY <1>2, <1>4, <1>5, <1>6, <1>7, <1>8, <1>9 DEF Next

\* The base invariant, of every cluster.
THEOREM BaseInvariance == Spec => []BaseInv
<1>1. BaseInv /\ [Next]_vars => BaseInv'
  BY BaseStep
<1> QED BY <1>1, BaseInit, PTL DEF Spec

\* Every index and term a node keeps or sends is a number, and every message is
\* one that handle() knows, through elections, compaction, membership changes
\* and restarts.
THEOREM TypeCorrect == Spec => []TypeOK
<1>1. BaseInv => TypeOK
  BY DEF BaseInv
<1> QED BY <1>1, BaseInvariance, PTL

\* A node never folds into its snapshot what it has not applied.
THEOREM AppliedBeforeCompacted == Spec => []OnlyAppliedCompacted
<1>1. BaseInv => OnlyAppliedCompacted
  BY DEF BaseInv
<1> QED BY <1>1, BaseInvariance, PTL

\* A leader always has the replication state of each of its peers.
THEOREM PeersTracked == Spec => []LeaderTracksPeers
<1>1. BaseInv => LeaderTracksPeers
  BY DEF BaseInv
<1> QED BY <1>1, BaseInvariance, PTL

-----------------------------------------------------------------------------
(* Logs without holes *)

\* compact() finds the entry it is asked to compact up to.  A node that has lost
\* what it had applied, to a leader that should not have been elected, would
\* take a snapshot with term 0, which _on_append does not tell from "no entry".
CompactsHeld ==
  \A n \in Nodes, i \in 1..MaxLog : Compact(n, i) => HasEntry(n, CompactTarget(n, i))

\* Entries of some term that follow an index without a gap.
Run(l, s) == \A i \in 1..Len(l) : l[i].index = s + i /\ l[i].term >= 1
\* A snapshot of something has the term of its last entry.
Dated(s) == s.index > 0 => s.term >= 1

\* Runs in logs and messages; the entry before a run, when there is one, has a
\* term; only a node with a term leads or campaigns.
NodeLogs ==
  \A n \in Nodes :
    /\ role[n] # "follower" => currentTerm[n] >= 1
    /\ Run(log[n], snapshot[n].index) /\ Dated(snapshot[n])
Sound(m) ==
  /\ m.type = "AppendEntries" =>
       /\ Run(m.entries, m.prevIndex)
       /\ m.entries # <<>> /\ m.prevIndex > 0 => m.prevTerm >= 1
  /\ m.type = "InstallSnapshot" => Dated(m.snapshot)
LogInv == NodeLogs /\ \A m \in network : Sound(m)

LEMMA RunSuffix ==
  ASSUME NEW l \in Seq(Entries), NEW s \in Nat, Run(l, s), NEW a \in Nat, a >= 1
  PROVE  Run(SubSeq(l, a, Len(l)), s + a - 1)
<1>1. Len(l) \in Nat
  BY LenProperties
<1> DEFINE part == SubSeq(l, a, Len(l))
<1>2. /\ Len(part) = IF a <= Len(l) THEN Len(l) - a + 1 ELSE 0
      /\ \A i \in 1..Len(l) - a + 1 : part[i] = l[a + i - 1]
  BY <1>1, PartOf
<1> HIDE DEF part
<1> SUFFICES ASSUME NEW i \in 1..Len(part)
             PROVE  part[i].index = s + a - 1 + i /\ part[i].term >= 1
  BY DEF Run, part
<1>3. a <= Len(l) /\ i \in 1..Len(l) - a + 1 /\ a + i - 1 \in 1..Len(l)
  BY <1>1, <1>2
<1>4. part[i] = l[a + i - 1]
  BY <1>2, <1>3
<1>5. l[a + i - 1].index = s + (a + i - 1) /\ l[a + i - 1].term >= 1
  BY <1>3 DEF Run
<1>6. s + (a + i - 1) = s + a - 1 + i
  BY <1>3
<1> QED BY <1>4, <1>5, <1>6

LEMMA RunPrefix ==
  ASSUME NEW l \in Seq(Entries), NEW s \in Nat, Run(l, s), NEW k \in 0..Len(l)
  PROVE  /\ Run(SubSeq(l, 1, k), s) /\ SubSeq(l, 1, k) \in Seq(Entries)
         /\ Len(SubSeq(l, 1, k)) = k
<1>1. Len(l) \in Nat /\ k \in Int /\ k <= Len(l)
  BY LenProperties
<1> DEFINE part == SubSeq(l, 1, k)
<1>2. /\ part \in Seq(Entries) /\ Len(part) = IF 1 <= k THEN k - 1 + 1 ELSE 0
      /\ \A i \in 1..k - 1 + 1 : part[i] = l[1 + i - 1]
  BY <1>1, PartOf
<1> HIDE DEF part
<1>3. Len(part) = k /\ \A i \in 1..k : part[i] = l[i]
  BY <1>1, <1>2
<1>4. \A i \in 1..k : i \in 1..Len(l)
  BY <1>1
<1>5. Run(part, s)
  BY <1>3, <1>4 DEF Run
<1> QED BY <1>2, <1>3, <1>5 DEF part

LEMMA RunConcat ==
  ASSUME NEW k \in Seq(Entries), NEW l \in Seq(Entries), NEW s \in Nat,
         Run(k, s), Run(l, s + Len(k))
  PROVE  Run(k \o l, s)
<1>1. /\ Len(k) \in Nat /\ Len(l) \in Nat /\ Len(k \o l) = Len(k) + Len(l)
      /\ \A i \in 1..Len(k) + Len(l) : (k \o l)[i] = IF i <= Len(k) THEN k[i] ELSE l[i - Len(k)]
  BY LenProperties, ConcatProperties
<1> DEFINE j == k \o l
<1> SUFFICES ASSUME NEW i \in 1..Len(k) + Len(l)
             PROVE  j[i].index = s + i /\ j[i].term >= 1
  BY <1>1 DEF Run
<1>2. j[i] = IF i <= Len(k) THEN k[i] ELSE l[i - Len(k)]
  BY <1>1
<1> HIDE DEF j
<1>3. CASE i <= Len(k)
  <2>1. i \in 1..Len(k)
    BY <1>1, <1>3
  <2> QED BY <1>2, <1>3, <2>1 DEF Run
<1>4. CASE ~ (i <= Len(k))
  <2>1. i - Len(k) \in 1..Len(l) /\ s + Len(k) + (i - Len(k)) = s + i
    BY <1>1, <1>4
  <2> QED BY <1>2, <1>4, <2>1 DEF Run
<1> QED BY <1>3, <1>4

LEMMA RunAppend ==
  ASSUME NEW l \in Seq(Entries), NEW s \in Nat, Run(l, s), NEW e \in Entries,
         e.index = s + Len(l) + 1, e.term >= 1
  PROVE  Run(Append(l, e), s)
<1>1. /\ Len(l) \in Nat /\ Len(Append(l, e)) = Len(l) + 1
      /\ \A i \in 1..Len(l) : Append(l, e)[i] = l[i]
      /\ Append(l, e)[Len(l) + 1] = e
  BY LenProperties, AppendProperties
<1> DEFINE j == Append(l, e)
<1> SUFFICES ASSUME NEW i \in 1..Len(l) + 1
             PROVE  j[i].index = s + i /\ j[i].term >= 1
  BY <1>1 DEF Run
<1>2. CASE i = Len(l) + 1
  BY <1>1, <1>2
<1>3. CASE i # Len(l) + 1
  <2>1. i \in 1..Len(l)
    BY <1>1, <1>3
  <2> QED BY <1>1, <2>1 DEF Run
<1> QED BY <1>2, <1>3

\* Indices of a log without holes.
LEMMA LastOfRun ==
  ASSUME NEW l \in Seq(Entries), NEW s \in Nat, Run(l, s)
  PROVE  (IF l = <<>> THEN s ELSE l[Len(l)].index) = s + Len(l)
<1>1. Len(l) \in Nat
  BY LenProperties
<1>2. CASE l = <<>>
  BY <1>2, EmptySeq
<1>3. CASE l # <<>>
  <2>1. Len(l) \in 1..Len(l)
    BY <1>1, <1>3, EmptySeq
  <2> QED BY <1>3, <2>1 DEF Run
<1> QED BY <1>2, <1>3

\* A term is found exactly where the log has an entry or a snapshot.
LEMMA TermFound ==
  LogTypes /\ NodeLogs => \A n \in Nodes, i \in Nat :
    /\ TermAt(n, i) >= 1 => i >= snapshot[n].index /\ i <= snapshot[n].index + Len(log[n])
    /\ i > 0 /\ i >= snapshot[n].index /\ i <= snapshot[n].index + Len(log[n]) => TermAt(n, i) >= 1
<1> SUFFICES ASSUME LogTypes, NodeLogs, NEW n \in Nodes, NEW i \in Nat
             PROVE  /\ TermAt(n, i) >= 1 => i >= snapshot[n].index /\ i <= snapshot[n].index + Len(log[n])
                    /\ i > 0 /\ i >= snapshot[n].index /\ i <= snapshot[n].index + Len(log[n])
                         => TermAt(n, i) >= 1
  OBVIOUS
<1>1. /\ snapshot[n].index \in Nat /\ Len(log[n]) \in Nat
      /\ Run(log[n], snapshot[n].index) /\ Dated(snapshot[n])
  BY LenProperties DEF LogTypes, Snapshots, NodeLogs
<1>2. CASE i = snapshot[n].index
  BY <1>1, <1>2 DEF TermAt, Dated
<1>3. CASE i # snapshot[n].index /\ HasEntry(n, i)
  <2>1. TermAt(n, i) = log[n][i - snapshot[n].index].term /\ i - snapshot[n].index \in 1..Len(log[n])
    BY <1>3 DEF TermAt, EntryAt, HasEntry
  <2>2. TermAt(n, i) >= 1
    BY <1>1, <2>1 DEF Run
  <2> QED BY <1>1, <2>1, <2>2
<1>4. CASE i # snapshot[n].index /\ ~ HasEntry(n, i)
  <2>1. TermAt(n, i) = 0
    BY <1>4 DEF TermAt
  <2>2. ~ (i >= snapshot[n].index /\ i <= snapshot[n].index + Len(log[n]))
    BY <1>1, <1>4 DEF HasEntry
  <2> QED BY <2>1, <2>2
<1> QED BY <1>2, <1>3, <1>4

\* What _append_to sends follows prev_log_index without a gap.
LEMMA AppendToSound ==
  LogTypes /\ CommitTypes /\ LeaderTypes /\ VoteTypes /\ NodeLogs =>
    \A n, p \in Nodes : Sound(AppendTo(n, p))
<1> SUFFICES ASSUME LogTypes, CommitTypes, LeaderTypes, VoteTypes, NodeLogs,
                    NEW n \in Nodes, NEW p \in Nodes
             PROVE  Sound(AppendTo(n, p))
  OBVIOUS
<1> DEFINE prev == Get(nextIndex[n], p, LastIndex(n) + 1) - 1
           s == snapshot[n].index
           part == SubSeq(log[n], prev - s + 1, Len(log[n]))
           msg == AppendTo(n, p)
<1>1. prev \in Int
  BY LastType DEF LeaderTypes, IsPeerIndex, Get
<1>2. s \in Nat /\ log[n] \in Seq(Entries) /\ Len(log[n]) \in Nat /\ Run(log[n], s) /\ Dated(snapshot[n])
  BY LenProperties DEF LogTypes, Snapshots, NodeLogs
<1>3. CASE prev < s
  <2>1. msg.type = "InstallSnapshot" /\ msg.snapshot = snapshot[n]
    BY <1>3 DEF AppendTo
  <2> QED BY <1>2, <2>1 DEF Sound
<1>4. CASE ~ (prev < s)
  <2>1. /\ msg.type = "AppendEntries" /\ msg.prevIndex = prev /\ msg.prevTerm = TermAt(n, prev)
        /\ msg.entries = part
    BY <1>4 DEF AppendTo
  <2> HIDE DEF msg, prev, s
  <2>2. prev \in Nat /\ prev - s + 1 \in Nat /\ prev - s + 1 >= 1 /\ s + (prev - s + 1) - 1 = prev
    BY <1>1, <1>2, <1>4
  <2>3. Run(part, s + (prev - s + 1) - 1)
    BY <1>2, <2>2, RunSuffix
  <2>4. ASSUME part # <<>>, prev > 0
        PROVE  TermAt(n, prev) >= 1
    <3>1. ~ (Len(log[n]) < prev - s + 1)
      <4> SUFFICES ASSUME Len(log[n]) < prev - s + 1 PROVE FALSE
        OBVIOUS
      <4>1. part = <<>>
        BY <1>2, <2>2, SubSeqEmpty
      <4> QED BY <2>4, <4>1
    <3>2. prev >= s /\ prev <= s + Len(log[n])
      BY <1>1, <1>2, <1>4, <3>1
    <3> QED BY <2>2, <2>4, <3>2, TermFound DEF s
  <2>5. Run(part, prev)
    BY <2>2, <2>3
  <2> HIDE DEF part
  <2> QED BY <2>1, <2>4, <2>5 DEF Sound, msg
<1> QED BY <1>3, <1>4

LEMMA AppendToSoundPrimed ==
  (LogTypes /\ CommitTypes /\ LeaderTypes /\ VoteTypes /\ NodeLogs =>
     \A n, p \in Nodes : Sound(AppendTo(n, p)))'
BY AppendToSound, PTL

LEMMA SoundAfter ==
  ASSUME TypeOK', NodeLogs', NEW n \in Nodes, NEW p \in Nodes
  PROVE  Sound(AppendTo(n, p)')
<1>1. LogTypes' /\ CommitTypes' /\ LeaderTypes' /\ VoteTypes'
  BY DEF TypeOK, VoteTypes, LogTypes, CommitTypes, LeaderTypes
<1> QED BY <1>1, AppendToSoundPrimed DEF Sound

\* Steps that leave logs and snapshots alone.
LEMMA LogsKept ==
  ASSUME LogInv, UNCHANGED <<log, snapshot>>,
         \A n \in Nodes : role'[n] # "follower" => currentTerm'[n] >= 1,
         \A m \in network' : m \in network \/ Sound(m)
  PROVE  LogInv'
<1>1. NodeLogs'
  BY DEF LogInv, NodeLogs
<1>2. \A m \in network' : Sound(m)
  BY DEF LogInv
<1> QED BY <1>1, <1>2 DEF LogInv, Sound

\* Steps that change the log or the snapshot of one node.
LEMMA OneLogChanged ==
  ASSUME LogInv, NEW n \in Nodes,
         \A p \in Nodes : p # n => log'[p] = log[p] /\ snapshot'[p] = snapshot[p],
         \A p \in Nodes : role'[p] # "follower" => currentTerm'[p] >= 1,
         Run(log'[n], snapshot'[n].index), Dated(snapshot'[n])
  PROVE  NodeLogs'
BY DEF LogInv, NodeLogs

\* Roles and terms, of handlers that make a follower or nothing of the node.
LEMMA FollowerTerm ==
  ASSUME LogInv, VoteTypes, NEW n \in Nodes, NEW t \in Nat, BecomeFollower(n, t)
  PROVE  \A p \in Nodes : role'[p] # "follower" => currentTerm'[p] >= 1
BY DEF LogInv, NodeLogs, VoteTypes, BecomeFollower

LEMMA FollowLeaderTerm ==
  ASSUME LogInv, VoteTypes, NEW n \in Nodes, NEW t \in Nat, FollowLeader(n, t)
  PROVE  \A p \in Nodes : role'[p] # "follower" => currentTerm'[p] >= 1
<1>1. CASE t > currentTerm[n] \/ role[n] # "follower"
  BY <1>1, FollowerTerm DEF FollowLeader
<1>2. CASE ~ (t > currentTerm[n] \/ role[n] # "follower")
  BY <1>2 DEF FollowLeader, voteVars, LogInv, NodeLogs
<1> QED BY <1>1, <1>2

LEMMA SameTerm ==
  ASSUME LogInv, UNCHANGED voteVars
  PROVE  \A p \in Nodes : role'[p] # "follower" => currentTerm'[p] >= 1
BY DEF LogInv, NodeLogs, voteVars

\* Messages without entries and snapshots.
LEMMA SmallSound ==
  ASSUME NEW n, NEW p, NEW t
  PROVE  /\ \A g : Sound(RequestVoteReply(n, p, t, g))
         /\ \A g, i, c : Sound(AppendReply(n, p, t, g, i, c))
         /\ \A i : Sound(InstallReply(n, p, t, i))
BY DEF Sound, RequestVoteReply, AppendReply, InstallReply

LEMMA DeliverSound ==
  ASSUME NEW m, NEW out, Deliver(m, out), \A x \in out : Sound(x)
  PROVE  \A x \in network' : x \in network \/ Sound(x)
BY DEF Deliver

LEMMA LogPropose ==
  ASSUME BaseInv, TypeOK', LogInv, NEW n \in Nodes, NEW c \in Commands \cup SUBSET Nodes, Propose(n, c)
  PROVE  LogInv'
<1> DEFINE entry == NewEntry(n, c, LastIndex(n) + 1)
           s == snapshot[n].index
<1>1. VoteTypes /\ LogTypes
  BY TypeParts DEF BaseInv
<1>2. /\ role[n] = "leader" /\ log' = [log EXCEPT ![n] = Append(@, entry)]
      /\ UNCHANGED <<voteVars, snapshot>>
      /\ network' = network \cup BroadcastAppend(n)'
  BY DEF Propose, Send
<1>3. s \in Nat /\ log[n] \in Seq(Entries) /\ Run(log[n], s) /\ Dated(snapshot[n]) /\ currentTerm[n] >= 1
  BY <1>1, <1>2 DEF LogTypes, Snapshots, LogInv, NodeLogs
<1>4. LastIndex(n) = s + Len(log[n]) /\ LastIndex(n) + 1 \in Nat
  BY <1>1, <1>3, LastOfRun, LastType DEF LastIndex
<1>5. entry \in Entries /\ entry.index = s + Len(log[n]) + 1 /\ entry.term >= 1
  BY <1>1, <1>3, <1>4 DEF NewEntry, Entries, VoteTypes
<1> HIDE DEF entry
<1>6. Run(Append(log[n], entry), s)
  BY <1>3, <1>5, RunAppend
<1>7. NodeLogs'
  <2>1. log'[n] = Append(log[n], entry) /\ \A p \in Nodes : p # n => log'[p] = log[p]
    BY <1>1, <1>2 DEF LogTypes
  <2>2. Run(log'[n], snapshot'[n].index) /\ Dated(snapshot'[n])
    BY <1>2, <1>3, <1>6, <2>1
  <2>3. \A p \in Nodes : role'[p] # "follower" => currentTerm'[p] >= 1
    BY <1>2, SameTerm
  <2> QED BY <1>2, <2>1, <2>2, <2>3, OneLogChanged
<1>8. ASSUME NEW m \in BroadcastAppend(n)'
      PROVE  Sound(m)
  <2>1. PICK p \in Nodes : m = AppendTo(n, p)'
    BY DEF BroadcastAppend, Peers, TypeOK
  <2> QED BY <1>7, <2>1, SoundAfter
<1>9. \A m \in network' : Sound(m)
  BY <1>2, <1>8 DEF LogInv
<1> QED BY <1>7, <1>9 DEF LogInv, Sound

LEMMA LogCompact ==
  ASSUME BaseInv, LogInv, NEW n \in Nodes, NEW i \in 1..MaxLog, Compact(n, i),
         HasEntry(n, CompactTarget(n, i))
  PROVE  LogInv'
<1> DEFINE target == CompactTarget(n, i)
           s == snapshot[n].index
           new == [index |-> target, term |-> TermAt(n, target), data |-> machine[n]]
<1>1. VoteTypes /\ LogTypes /\ CommitTypes
  BY TypeParts DEF BaseInv
<1>2. s \in Nat /\ log[n] \in Seq(Entries) /\ Len(log[n]) \in Nat /\ Run(log[n], s)
  BY <1>1, LenProperties DEF LogTypes, Snapshots, LogInv, NodeLogs
<1>3. target \in Nat
  BY <1>1, CompactTargetNat
<1>4. /\ target > s /\ snapshot' = [snapshot EXCEPT ![n] = new]
      /\ log' = [log EXCEPT ![n] = SubSeq(@, target - s + 1, Len(@))]
      /\ UNCHANGED <<voteVars, network>>
  BY DEF Compact, Retained
<1>5. target - s \in 1..Len(log[n])
  BY DEF HasEntry
<1> HIDE DEF target, s
<1>6. TermAt(n, target) >= 1
  <2>1. target > 0 /\ target >= s /\ target <= s + Len(log[n])
    BY <1>2, <1>3, <1>4, <1>5
  <2> QED BY <1>1, <1>3, <2>1, TermFound DEF LogInv, s
<1>7. Dated(new) /\ new.index = target
  BY <1>6 DEF Dated
<1> HIDE DEF new
<1>8. target - s + 1 \in Nat /\ target - s + 1 >= 1 /\ s + (target - s + 1) - 1 = target
  BY <1>2, <1>3, <1>4
<1>9. Run(SubSeq(log[n], target - s + 1, Len(log[n])), s + (target - s + 1) - 1)
  BY <1>2, <1>8, RunSuffix
<1>10. /\ log'[n] = SubSeq(log[n], target - s + 1, Len(log[n])) /\ snapshot'[n] = new
       /\ \A p \in Nodes : p # n => log'[p] = log[p] /\ snapshot'[p] = snapshot[p]
  BY <1>1, <1>4 DEF LogTypes
<1>11. Run(log'[n], snapshot'[n].index) /\ Dated(snapshot'[n])
  BY <1>7, <1>8, <1>9, <1>10
<1>12. NodeLogs'
  BY <1>4, <1>10, <1>11, SameTerm, OneLogChanged
<1>13. \A m \in network' : Sound(m)
  BY <1>4 DEF LogInv
<1> QED BY <1>12, <1>13 DEF LogInv, Sound

\* The consistency check leaves no gap between what is kept and what is added.
LEMMA NoGap ==
  ASSUME LogTypes, NodeLogs, NEW m \in Messages, m.type = "AppendEntries", Sound(m), Consistent(m.dst, m),
         NEW f \in 1..Len(m.entries), f \in NewFrom(m.dst, m.entries),
         \A j \in NewFrom(m.dst, m.entries) : f <= j
  PROVE  /\ m.entries[f].index = m.prevIndex + f
         /\ m.entries[f].index - snapshot[m.dst].index - 1 <= Len(log[m.dst])
<1> DEFINE n == m.dst
           E == m.entries
           s == snapshot[n].index
           last == Len(log[n])
<1>1. /\ n \in Nodes /\ m.prevIndex \in Nat /\ m.prevTerm \in Nat /\ E \in Seq(Entries) /\ Len(E) \in Nat
      /\ s \in Nat /\ last \in Nat
  BY MessageFields, LenProperties DEF LogTypes, Snapshots
<1>2. \A i \in 1..Len(E) : E[i].index = m.prevIndex + i
  BY DEF Sound, Run
<1>3. E[f].index = m.prevIndex + f /\ E[f].index > s
  BY <1>2 DEF NewFrom
<1>4. CASE f = 1
  <2>1. CASE m.prevIndex = 0
    BY <1>1, <1>3, <1>4, <2>1
  <2>2. CASE m.prevIndex # 0
    <3>1. E # <<>>
      BY <1>1, EmptySeq
    <3>2. m.prevTerm >= 1
      BY <1>1, <2>2, <3>1 DEF Sound
    <3>3. TermAt(n, m.prevIndex) >= 1
      BY <2>2, <3>2 DEF Consistent
    <3>4. m.prevIndex <= s + last
      BY <1>1, <3>3, TermFound
    <3> QED BY <1>1, <1>3, <1>4, <3>4
  <2> QED BY <2>1, <2>2
<1>5. CASE f # 1
  <2> DEFINE g == f - 1
  <2>1. g \in 1..Len(E) /\ ~ (f <= g)
    BY <1>1, <1>5
  <2>2. E[g].index = m.prevIndex + g
    BY <1>2, <2>1
  <2>3. g \notin NewFrom(n, E)
    BY <2>1
  <2>4. ~ (E[g].index > s) \/ HasEntry(n, E[g].index)
    BY <2>1, <2>3 DEF NewFrom
  <2>5. E[g].index - s <= last
    <3>1. E[g].index \in Nat
      BY <1>1, <2>1, <2>2
    <3> HIDE DEF g
    <3>2. CASE ~ (E[g].index > s)
      BY <1>1, <3>1, <3>2
    <3>3. CASE HasEntry(n, E[g].index)
      BY <1>1, <3>1, <3>3 DEF HasEntry
    <3> QED BY <2>4, <3>2, <3>3
  <2>6. E[f].index - s - 1 = E[g].index - s
    <3>1. PICK x, y, z, w : x = E[f].index /\ y = E[g].index /\ z = m.prevIndex /\ w = s
      OBVIOUS
    <3>2. x = z + f /\ y = z + (f - 1) /\ z \in Nat /\ w \in Nat /\ f \in Nat
      BY <1>1, <1>3, <2>2, <3>1
    <3>3. x - w - 1 = y - w
      BY <3>2
    <3> QED BY <3>1, <3>3
  <2> QED BY <1>3, <2>5, <2>6
<1> QED BY <1>3, <1>4, <1>5

LEMMA LogAppend ==
  ASSUME BaseInv, LogInv, NEW m \in network, OnAppend(m)
  PROVE  LogInv'
<1> DEFINE n == m.dst
           E == m.entries
           s == snapshot[n].index
<1>1. VoteTypes /\ LogTypes /\ network \subseteq Messages
  BY TypeParts DEF BaseInv
<1>2. m.type = "AppendEntries" /\ m \in Messages /\ Sound(m)
  BY <1>1 DEF OnAppend, LogInv
<1>3. /\ n \in Nodes /\ m.term \in Nat /\ E \in Seq(Entries) /\ m.prevIndex \in Nat
      /\ Len(E) \in Nat /\ s \in Nat /\ log[n] \in Seq(Entries) /\ Len(log[n]) \in Nat
      /\ Run(log[n], s) /\ Dated(snapshot[n])
  BY <1>1, <1>2, MessageFields, LenProperties DEF LogTypes, Snapshots, LogInv, NodeLogs
<1>4. ASSUME NEW t, NEW c, RejectAppend(m, t, c),
             \A p \in Nodes : role'[p] # "follower" => currentTerm'[p] >= 1
      PROVE  LogInv'
  <2>1. /\ UNCHANGED <<log, snapshot>>
        /\ Deliver(m, {AppendReply(m.dst, m.src, t, FALSE, 0, c)})
    BY <1>4 DEF RejectAppend, logVars
  <2>2. \A x \in network' : x \in network \/ Sound(x)
    BY <2>1, SmallSound, DeliverSound
  <2> QED BY <1>4, <2>1, <2>2, LogsKept
<1>5. CASE m.term < currentTerm[n]
  <2>1. RejectAppend(m, currentTerm[n], 0) /\ UNCHANGED voteVars
    BY <1>5 DEF OnAppend
  <2> QED BY <1>4, <2>1, SameTerm
<1>6. CASE ~ (m.term < currentTerm[n])
  <2>1. FollowLeader(n, m.term)
    BY <1>6 DEF OnAppend
  <2>2. \A p \in Nodes : role'[p] # "follower" => currentTerm'[p] >= 1
    BY <1>1, <1>3, <2>1, FollowLeaderTerm
  <2>3. CASE ~ Consistent(n, m)
    <3>1. RejectAppend(m, m.term, Conflict(n, m.prevIndex))
      BY <1>6, <2>3 DEF OnAppend
    <3> QED BY <1>4, <2>2, <3>1
  <2>4. CASE Consistent(n, m)
    <3>1. AcceptAppend(m)
      BY <1>6, <2>4 DEF OnAppend
    <3>2. UNCHANGED snapshot
      BY <3>1 DEF AcceptAppend
    <3>3. \A x \in network' : x \in network \/ Sound(x)
      <4>1. PICK last : Deliver(m, {AppendReply(m.dst, m.src, m.term, TRUE, last, 0)})
        BY <3>1 DEF AcceptAppend
      <4> QED BY <4>1, SmallSound, DeliverSound
    <3>4. CASE UNCHANGED log
      BY <2>2, <3>2, <3>3, <3>4, LogsKept
    <3>5. CASE \E f \in 1..Len(E) : \E k \in 0..Len(log[n]) :
                 LET after == SubSeq(log[n], 1, k) \o SubSeq(E, f, Len(E)) IN
                 /\ f \in NewFrom(n, E) /\ \A j \in NewFrom(n, E) : f <= j
                 /\ k = Len(log[n]) \/ k = E[f].index - s - 1
                 /\ k <= E[f].index - s - 1
                 /\ log' = [log EXCEPT ![n] = after]
      <4>1. PICK f \in 1..Len(E), k \in 0..Len(log[n]) :
                 /\ f \in NewFrom(n, E) /\ \A j \in NewFrom(n, E) : f <= j
                 /\ k = Len(log[n]) \/ k = E[f].index - s - 1
                 /\ k <= E[f].index - s - 1
                 /\ log' = [log EXCEPT ![n] = SubSeq(log[n], 1, k) \o SubSeq(E, f, Len(E))]
        BY <3>5
      <4>2. E[f].index = m.prevIndex + f /\ E[f].index - s - 1 <= Len(log[n])
        <5>1. f \in NewFrom(n, E) /\ \A j \in NewFrom(n, E) : f <= j
          BY <4>1
        <5> QED BY <1>1, <1>2, <2>4, <5>1, NoGap DEF LogInv
      <4>3. s + k = m.prevIndex + f - 1 /\ f \in Nat /\ f >= 1 /\ m.prevIndex + f - 1 \in Nat
        <5>1. k \in Nat /\ f \in Nat /\ f >= 1
          BY <1>3
        <5>2. E[f].index \in Nat
          BY <1>3, <4>2, <5>1
        <5>3. PICK x, z, w, b : x = E[f].index /\ z = m.prevIndex /\ w = s /\ b = Len(log[n])
          OBVIOUS
        <5>4. /\ x = z + f /\ x - w - 1 <= b /\ k <= x - w - 1
              /\ k = b \/ k = x - w - 1
          BY <4>1, <4>2, <5>3
        <5>5. z \in Nat /\ w \in Nat /\ b \in Nat
          BY <1>3, <5>3
        <5>6. w + k = z + f - 1 /\ z + f - 1 \in Nat
          BY <5>1, <5>4, <5>5
        <5> QED BY <5>1, <5>3, <5>6
      <4> DEFINE kept == SubSeq(log[n], 1, k)
                 added == SubSeq(E, f, Len(E))
      <4>4. Run(kept, s) /\ kept \in Seq(Entries) /\ Len(kept) = k
        BY <1>3, RunPrefix
      <4>5. Run(added, m.prevIndex + f - 1) /\ added \in Seq(Entries)
        <5>1. Run(E, m.prevIndex)
          BY <1>2 DEF Sound
        <5>2. f \in Int /\ Len(E) \in Int /\ Len(E) <= Len(E)
          BY <1>3, <4>3
        <5>3. added \in Seq(Entries)
          BY <1>3, <4>3, <5>2, PartOf
        <5> QED BY <1>3, <4>3, <5>1, <5>3, RunSuffix
      <4> HIDE DEF kept, added
      <4>6. Run(kept \o added, s)
        BY <1>3, <4>3, <4>4, <4>5, RunConcat
      <4>7. log'[n] = kept \o added /\ \A p \in Nodes : p # n => log'[p] = log[p]
        BY <1>1, <1>3, <4>1 DEF LogTypes, kept, added
      <4>8. Run(log'[n], snapshot'[n].index) /\ Dated(snapshot'[n])
        BY <1>3, <3>2, <4>6, <4>7
      <4>9. NodeLogs'
        BY <1>3, <2>2, <3>2, <4>7, <4>8, OneLogChanged
      <4>10. \A x \in network' : Sound(x)
        BY <3>3 DEF LogInv
      <4> QED BY <4>9, <4>10 DEF LogInv, Sound
    <3> QED BY <1>1, <1>3, <3>1, <3>4, <3>5, AcceptShape
  <2> QED BY <2>3, <2>4
<1> QED BY <1>5, <1>6

LEMMA LogInstallSnapshot ==
  ASSUME BaseInv, LogInv, NEW m \in network, OnInstallSnapshot(m)
  PROVE  LogInv'
<1> DEFINE n == m.dst
           s == m.snapshot
           old == snapshot[n].index
<1>1. VoteTypes /\ LogTypes /\ network \subseteq Messages
  BY TypeParts DEF BaseInv
<1>2. m.type = "InstallSnapshot" /\ m \in Messages /\ Dated(s)
  BY <1>1 DEF OnInstallSnapshot, LogInv, Sound
<1>3. /\ n \in Nodes /\ m.term \in Nat /\ s \in Snapshots /\ s.index \in Nat /\ s.term \in Nat
      /\ old \in Nat /\ log[n] \in Seq(Entries) /\ Len(log[n]) \in Nat /\ Run(log[n], old)
  BY <1>1, <1>2, MessageFields, LenProperties DEF LogTypes, Snapshots, LogInv, NodeLogs
<1>4. \A x \in network' : x \in network \/ Sound(x)
  <2>1. PICK t, i : Deliver(m, {InstallReply(n, m.src, t, i)})
    BY DEF OnInstallSnapshot
  <2> QED BY <2>1, SmallSound, DeliverSound
<1>5. CASE m.term < currentTerm[n]
  <2>1. UNCHANGED voteVars /\ UNCHANGED <<log, snapshot>>
    BY <1>5 DEF OnInstallSnapshot, logVars
  <2> QED BY <1>4, <2>1, SameTerm, LogsKept
<1>6. CASE ~ (m.term < currentTerm[n])
  <2>1. FollowLeader(n, m.term)
    BY <1>6 DEF OnInstallSnapshot
  <2>2. \A p \in Nodes : role'[p] # "follower" => currentTerm'[p] >= 1
    BY <1>1, <1>3, <2>1, FollowLeaderTerm
  <2>3. CASE ~ (s.index > old)
    <3>1. UNCHANGED <<log, snapshot>>
      BY <1>6, <2>3 DEF OnInstallSnapshot, logVars
    <3> QED BY <1>4, <2>2, <3>1, LogsKept
  <2>4. CASE s.index > old
    <3> DEFINE l == IF TermAt(n, s.index) = s.term THEN LaterPart(log[n], s.index) ELSE <<>>
    <3>1. log' = [log EXCEPT ![n] = l] /\ snapshot' = [snapshot EXCEPT ![n] = s]
      BY <1>6, <2>4 DEF OnInstallSnapshot, LaterPart
    <3>2. \A a : Run(<<>>, a)
      BY DEF Run
    <3>3. ASSUME TermAt(n, s.index) = s.term
          PROVE  Run(LaterPart(log[n], s.index), s.index)
      <4>1. s.term >= 1
        BY <1>2, <1>3, <2>4 DEF Dated
      <4>2. s.index <= old + Len(log[n])
        <5>1. TermAt(n, s.index) >= 1
          BY <3>3, <4>1
        <5> QED BY <1>1, <1>3, <5>1, TermFound DEF LogInv
      <4>3. CASE LaterPart(log[n], s.index) = <<>>
        BY <3>2, <4>3
      <4>4. CASE \E f \in 1..Len(log[n]) :
                 /\ log[n][f].index > s.index
                 /\ \A j \in 1..Len(log[n]) : log[n][j].index > s.index => f <= j
                 /\ LaterPart(log[n], s.index) = SubSeq(log[n], f, Len(log[n]))
        <5>1. PICK f \in 1..Len(log[n]) :
                 /\ log[n][f].index > s.index
                 /\ \A j \in 1..Len(log[n]) : log[n][j].index > s.index => f <= j
                 /\ LaterPart(log[n], s.index) = SubSeq(log[n], f, Len(log[n]))
          BY <4>4
        <5>2. PICK x, y, b : x = s.index /\ y = old /\ b = Len(log[n])
          OBVIOUS
        <5>3. x \in Nat /\ y \in Nat /\ b \in Nat /\ x > y /\ f \in 1..b
          BY <1>3, <2>4, <5>2
        <5>4. log[n][f].index = y + f
          BY <1>3, <5>2 DEF Run
        <5>5. y + f > x
          BY <5>1, <5>2, <5>4
        <5> DEFINE g == x - y + 1
        <5>6. g \in 1..b /\ y + g > x
          BY <5>3, <5>5
        <5>7. log[n][g].index = y + g
          BY <1>3, <5>2, <5>6 DEF Run
        <5>8. f <= g
          <6>1. log[n][g].index > s.index
            BY <5>2, <5>6, <5>7
          <6>2. g \in 1..Len(log[n])
            BY <5>2, <5>6
          <6> HIDE DEF g
          <6> QED BY <5>1, <6>1, <6>2
        <5>9. y + f - 1 = x /\ f \in Nat /\ f >= 1
          BY <5>3, <5>5, <5>8
        <5>10. Run(SubSeq(log[n], f, Len(log[n])), old + f - 1)
          BY <1>3, <5>9, RunSuffix
        <5> QED BY <5>1, <5>2, <5>9, <5>10
      <4> QED BY <1>3, <4>3, <4>4, LaterPartShape
    <3>4. Run(l, s.index)
      BY <3>2, <3>3
    <3> HIDE DEF l
    <3>5. /\ log'[n] = l /\ snapshot'[n] = s
          /\ \A p \in Nodes : p # n => log'[p] = log[p] /\ snapshot'[p] = snapshot[p]
      BY <1>1, <1>3, <3>1 DEF LogTypes
    <3>6. NodeLogs'
      BY <1>2, <1>3, <2>2, <3>4, <3>5, OneLogChanged
    <3>7. \A x \in network' : Sound(x)
      BY <1>4 DEF LogInv
    <3> QED BY <3>6, <3>7 DEF LogInv, Sound
  <2> QED BY <2>3, <2>4
<1> QED BY <1>5, <1>6

LEMMA LogRestart ==
  ASSUME BaseInv, LogInv, NEW n \in Nodes, Restart(n)
  PROVE  LogInv'
<1>1. VoteTypes /\ LogTypes
  BY TypeParts DEF BaseInv
<1>2. \A p \in Nodes : role'[p] # "follower" => currentTerm'[p] >= 1
  BY <1>1 DEF Restart, VoteTypes, LogInv, NodeLogs
<1>3. /\ log'[n] = <<>> /\ snapshot'[n] = [index |-> 0, term |-> 0, data |-> <<>>]
      /\ \A p \in Nodes : p # n => log'[p] = log[p] /\ snapshot'[p] = snapshot[p]
      /\ network' = network
  BY <1>1 DEF Restart, LogTypes
<1>4. Run(log'[n], snapshot'[n].index) /\ Dated(snapshot'[n])
  BY <1>3 DEF Run, Dated
<1>5. NodeLogs'
  BY <1>2, <1>3, <1>4, OneLogChanged
<1>6. \A x \in network' : Sound(x)
  BY <1>3 DEF LogInv
<1> QED BY <1>5, <1>6 DEF LogInv, Sound

LEMMA LogElection ==
  ASSUME BaseInv, LogInv, NEW n \in Nodes, StartElection(n)
  PROVE  LogInv'
<1>1. VoteTypes
  BY TypeParts DEF BaseInv
<1>2. UNCHANGED <<log, snapshot>>
  BY DEF StartElection, logVars
<1>3. \A p \in Nodes : p # n => role'[p] = role[p] /\ currentTerm'[p] = currentTerm[p]
  BY <1>1 DEF StartElection, BecomeLeader, VoteTypes
<1>4. currentTerm'[n] >= 1
  BY <1>1 DEF StartElection, VoteTypes
<1>5. \A p \in Nodes : role'[p] # "follower" => currentTerm'[p] >= 1
  BY <1>3, <1>4 DEF LogInv, NodeLogs
<1>6. \A x \in network' : x \in network \/ Sound(x)
  <2>1. \A x \in network' : x \in network \/ \E p, t : x = RequestVote(n, p, t)
    BY DEF StartElection, Send
  <2>2. \A p, t : Sound(RequestVote(n, p, t))
    BY DEF Sound, RequestVote
  <2> QED BY <2>1, <2>2
<1> QED BY <1>2, <1>5, <1>6, LogsKept

LEMMA LogVotes ==
  ASSUME BaseInv, TypeOK', LogInv, NEW m \in network, OnRequestVote(m) \/ OnVoteReply(m)
  PROVE  LogInv'
<1>1. VoteTypes /\ network \subseteq Messages
  BY TypeParts DEF BaseInv
<1>2. m.dst \in Nodes
  BY <1>1, MessageFields
<1>3. UNCHANGED <<log, snapshot>>
  BY DEF OnRequestVote, OnVoteReply, logVars
<1>4. CASE OnRequestVote(m)
  <2>1. \A p \in Nodes : role'[p] # "follower" => currentTerm'[p] >= 1
    BY <1>1, <1>2, <1>4 DEF OnRequestVote, VoteTypes, LogInv, NodeLogs
  <2>2. PICK t, g : Deliver(m, {RequestVoteReply(m.dst, m.src, t, g)})
    BY <1>4 DEF OnRequestVote
  <2>3. \A x \in network' : x \in network \/ Sound(x)
    BY <2>2, SmallSound, DeliverSound
  <2> QED BY <1>3, <2>1, <2>3, LogsKept
<1>5. CASE OnVoteReply(m)
  <2>1. \A p \in Nodes : role'[p] # "follower" => currentTerm'[p] >= 1
    BY <1>1, <1>2, <1>5 DEF OnVoteReply, BecomeLeader, VoteTypes, LogInv, NodeLogs
  <2>2. NodeLogs'
    BY <1>3, <2>1 DEF LogInv, NodeLogs
  <2>3. \A x \in BroadcastAppend(m.dst)' : Sound(x)
    <3> SUFFICES ASSUME NEW x \in BroadcastAppend(m.dst)' PROVE Sound(x)
      OBVIOUS
    <3>1. PICK p \in Nodes : x = AppendTo(m.dst, p)'
      BY <1>2 DEF BroadcastAppend, Peers, TypeOK
    <3> QED BY <1>2, <2>2, <3>1, SoundAfter
  <2>4. \A x \in network' : x \in network \/ x \in BroadcastAppend(m.dst)'
    BY <1>5 DEF OnVoteReply, Deliver
  <2> QED BY <1>3, <2>1, <2>3, <2>4, LogsKept
<1> QED BY <1>4, <1>5

LEMMA LogReplies ==
  ASSUME BaseInv, TypeOK', LogInv, NEW m \in network, OnAppendReply(m) \/ OnInstallReply(m)
  PROVE  LogInv'
<1>1. UNCHANGED voteVars /\ UNCHANGED <<log, snapshot>>
  BY DEF OnAppendReply, OnInstallReply, logVars
<1>2. m.dst \in Nodes /\ m.src \in Nodes
  BY TypeParts, MessageFields DEF BaseInv
<1>3. NodeLogs'
  BY <1>1 DEF LogInv, NodeLogs, voteVars
<1>4. Sound(AppendTo(m.dst, m.src)')
  BY <1>2, <1>3, SoundAfter
<1>5. \A x \in network' : x \in network \/ x = AppendTo(m.dst, m.src)'
  BY DEF OnAppendReply, OnInstallReply, Deliver
<1>6. \A x \in network' : x \in network \/ Sound(x)
  BY <1>4, <1>5
<1> QED BY <1>1, <1>6, SameTerm, LogsKept

LEMMA LogHeartbeat ==
  ASSUME BaseInv, LogInv, NEW n \in Nodes, Heartbeat(n)
  PROVE  LogInv'
<1>1. VoteTypes /\ LogTypes /\ CommitTypes /\ LeaderTypes
  BY TypeParts DEF BaseInv
<1>2. UNCHANGED voteVars /\ UNCHANGED <<log, snapshot>> /\ network' = network \cup BroadcastAppend(n)
  BY DEF Heartbeat, Send, logVars
<1>3. \A x \in BroadcastAppend(n) : Sound(x)
  <2> SUFFICES ASSUME NEW x \in BroadcastAppend(n) PROVE Sound(x)
    OBVIOUS
  <2>1. PICK p \in Nodes : x = AppendTo(n, p)
    BY <1>1 DEF BroadcastAppend, Peers, LogTypes
  <2> QED BY <1>1, <2>1, AppendToSound DEF LogInv
<1> QED BY <1>2, <1>3, SameTerm, LogsKept

LEMMA LogStep ==
  ASSUME BaseInv, BaseInv', LogInv, [Next]_vars, [CompactsHeld]_vars
  PROVE  LogInv'
<1>1. TypeOK' /\ VoteTypes /\ network \subseteq Messages
  BY TypeParts DEF BaseInv
<1>2. CASE UNCHANGED vars
  <2>1. UNCHANGED voteVars /\ UNCHANGED <<log, snapshot>> /\ network' = network
    BY <1>2 DEF vars, logVars
  <2> QED BY <2>1, SameTerm, LogsKept
<1>3. ASSUME NEW n \in Nodes, NEW c \in Commands \cup SUBSET Nodes, Propose(n, c)
      PROVE  LogInv'
  BY <1>1, <1>3, LogPropose
<1>4. ASSUME NEW n \in Nodes, NEW p \in Nodes, AddServer(n, p) \/ RemoveServer(n, p)
      PROVE  LogInv'
  <2>1. members[n] \in SUBSET Nodes
    BY TypeParts DEF BaseInv, LogTypes
  <2>2. /\ members[n] \cup {p} \in Commands \cup SUBSET Nodes
        /\ members[n] \ {p} \in Commands \cup SUBSET Nodes
    BY <2>1
  <2>3. Propose(n, members[n] \cup {p}) \/ Propose(n, members[n] \ {p})
    BY <1>4 DEF AddServer, RemoveServer, Reconfigure
  <2> QED BY <1>3, <2>2, <2>3
<1>5. ASSUME NEW n \in Nodes, NEW i \in 1..MaxLog, Compact(n, i)
      PROVE  LogInv'
  <2>1. ~ (UNCHANGED vars)
    <3>1. compactions' = compactions + 1 /\ compactions \in Nat
      BY <1>5, TypeParts DEF Compact, BaseInv, BoxTypes
    <3> QED BY <3>1 DEF vars, counters
  <2>2. HasEntry(n, CompactTarget(n, i))
    BY <1>5, <2>1 DEF CompactsHeld
  <2> QED BY <1>5, <2>2, LogCompact
<1>6. ASSUME NEW m \in network, StepDown(m)
      PROVE  LogInv'
  <2>1. /\ BecomeFollower(m.dst, m.term) /\ UNCHANGED <<log, snapshot>>
        /\ \A x \in network' : x \in network
    BY <1>6 DEF StepDown, Deliver, logVars
  <2>2. m.dst \in Nodes /\ m.term \in Nat
    BY <1>1, MessageFields
  <2> QED BY <1>1, <2>1, <2>2, FollowerTerm, LogsKept
<1>7. ASSUME NEW m \in network, Handle(m)
      PROVE  LogInv'
  BY <1>1, <1>6, <1>7, LogVotes, LogAppend, LogReplies, LogInstallSnapshot DEF Handle
<1>8. ASSUME NEW m \in network, Lose(m)
      PROVE  LogInv'
  <2>1. UNCHANGED voteVars /\ UNCHANGED <<log, snapshot>> /\ \A x \in network' : x \in network
    BY <1>8 DEF Lose, logVars
  <2> QED BY <2>1, SameTerm, LogsKept
<1>9. ASSUME NEW n \in Nodes, StartElection(n) \/ Heartbeat(n) \/ Restart(n)
      PROVE  LogInv'
  BY <1>9, LogElection, LogHeartbeat, LogRestart
<1>10. ASSUME NEW n \in Nodes, NEW c \in Commands, ProposeCommand(n, c)
       PROVE  LogInv'
  BY <1>3, <1>10 DEF ProposeCommand
<1> QED BY <1>2, <1>4, <1>5, <1>7, <1>8, <1>9, <1>10 DEF Next

LEMMA LogInit == Init => LogInv
BY DEF Init, LogInv, NodeLogs, Run, Dated

\* The logs of a cluster are runs, as long as compact() finds what it compacts.
THEOREM LogInvariance == Spec /\ [][CompactsHeld]_vars => []LogInv
<1>1. BaseInv /\ BaseInv' /\ LogInv /\ [Next]_vars /\ [CompactsHeld]_vars => LogInv'
  BY LogStep
<1> QED BY <1>1, LogInit, BaseInvariance, PTL DEF Spec

LEMMA RunsHaveNoHoles == BaseInv /\ LogInv => NoHoles
<1> SUFFICES ASSUME BaseInv, LogInv, NEW n \in Nodes, NEW i \in DOMAIN log[n]
             PROVE  log[n][i].index = snapshot[n].index + i
  BY DEF NoHoles
<1>1. DOMAIN log[n] = 1..Len(log[n])
  BY TypeParts, LenProperties DEF BaseInv, LogTypes
<1> QED BY <1>1 DEF LogInv, NodeLogs, Run

\* "A follower rejects anything that would create a hole": the retained log of
\* every node follows its snapshot without a gap, through elections, restarts
\* and membership changes, as long as compact() finds the entry it compacts.
THEOREM NoHolesInLogs == Spec /\ [][CompactsHeld]_vars => []NoHoles
BY LogInvariance, BaseInvariance, RunsHaveNoHoles, PTL

\* In particular, in a cluster that never compacts.
THEOREM NoHolesUncompacted == MaxCompactions = 0 => (Spec => []NoHoles)
<1> SUFFICES ASSUME MaxCompactions = 0 PROVE Spec => []NoHoles
  OBVIOUS
<1>1. BaseInv => CompactsHeld
  BY TypeParts DEF BaseInv, BoxTypes, CompactsHeld, Compact
<1> QED BY <1>1, NoHolesInLogs, BaseInvariance, PTL

-----------------------------------------------------------------------------
(* What a leader holds *)

\* What may become of the log of a node that stays leader: it is kept, propose()
\* appends to it, or compact() drops what its new snapshot covers.
LeaderLogStep(n) ==
  \/ log'[n] = log[n]
  \/ \E e \in Entries : log'[n] = Append(log[n], e)
  \/ /\ snapshot'[n].index \in Nat /\ snapshot'[n].index > snapshot[n].index
     /\ log'[n] = SubSeq(log[n], snapshot'[n].index - snapshot[n].index + 1, Len(log[n]))

LEMMA LeaderKeeps ==
  ASSUME BaseInv, [Next]_vars, NEW n \in Nodes, role[n] = "leader", role'[n] = "leader"
  PROVE  LeaderLogStep(n)
<1> DEFINE Kept == log'[n] = log[n]
<1>1. VoteTypes /\ LogTypes /\ CommitTypes /\ network \subseteq Messages
  BY TypeParts DEF BaseInv
<1>2. ASSUME NEW p \in Nodes, NEW c \in Commands \cup SUBSET Nodes, Propose(p, c)
      PROVE  LeaderLogStep(n)
  <2> DEFINE entry == NewEntry(p, c, LastIndex(p) + 1)
  <2>1. log' = [log EXCEPT ![p] = Append(@, entry)]
    BY <1>2 DEF Propose
  <2>2. entry \in Entries
    <3>1. LastIndex(p) + 1 \in Nat /\ currentTerm[p] \in Nat
      BY <1>1, LastType DEF VoteTypes
    <3> QED BY <3>1 DEF NewEntry, Entries
  <2> HIDE DEF entry
  <2>3. log'[n] = log[n] \/ log'[n] = Append(log[n], entry)
    BY <1>1, <2>1 DEF LogTypes
  <2> QED BY <2>2, <2>3 DEF LeaderLogStep
<1>3. ASSUME NEW p \in Nodes, NEW q \in Nodes, AddServer(p, q) \/ RemoveServer(p, q)
      PROVE  LeaderLogStep(n)
  <2>1. members[p] \in SUBSET Nodes
    BY <1>1 DEF LogTypes
  <2>2. /\ members[p] \cup {q} \in Commands \cup SUBSET Nodes
        /\ members[p] \ {q} \in Commands \cup SUBSET Nodes
    BY <2>1
  <2>3. Propose(p, members[p] \cup {q}) \/ Propose(p, members[p] \ {q})
    BY <1>3 DEF AddServer, RemoveServer, Reconfigure
  <2> QED BY <1>2, <2>2, <2>3
<1>4. ASSUME NEW p \in Nodes, NEW i \in 1..MaxLog, Compact(p, i)
      PROVE  LeaderLogStep(n)
  <2> DEFINE target == CompactTarget(p, i)
             new == [index |-> target, term |-> TermAt(p, target), data |-> machine[p]]
  <2>1. /\ target > snapshot[p].index /\ snapshot' = [snapshot EXCEPT ![p] = new]
        /\ log' = [log EXCEPT ![p] = SubSeq(@, target - snapshot[p].index + 1, Len(@))]
    BY <1>4 DEF Compact, Retained
  <2>2. target \in Nat
    BY <1>1, CompactTargetNat
  <2> HIDE DEF target
  <2>3. new.index = target
    OBVIOUS
  <2> HIDE DEF new
  <2>4. CASE p # n
    BY <1>1, <2>1, <2>4 DEF LogTypes, LeaderLogStep
  <2>5. CASE p = n
    <3>1. snapshot'[n] = new /\ log'[n] = SubSeq(log[n], target - snapshot[n].index + 1, Len(log[n]))
      BY <1>1, <2>1, <2>5 DEF LogTypes
    <3> QED BY <2>1, <2>2, <2>3, <2>5, <3>1 DEF LeaderLogStep
  <2> QED BY <2>4, <2>5
<1>5. ASSUME NEW m \in network, Handle(m)
      PROVE  Kept
  <2>1. m.dst \in Nodes /\ m.term \in Nat
    BY <1>1, MessageFields
  <2>2. CASE OnAppend(m)
    <3>1. UNCHANGED elections
      BY <2>2 DEF OnAppend
    <3>2. CASE m.term < currentTerm[m.dst]
      BY <2>2, <3>2 DEF OnAppend, RejectAppend, logVars
    <3>3. CASE ~ (m.term < currentTerm[m.dst])
      <4>1. FollowLeader(m.dst, m.term)
        BY <2>2, <3>3 DEF OnAppend
      <4>2. m.dst # n
        BY <1>1, <2>1, <3>1, <4>1, FollowLeaderTypes
      <4>3. (\E l : log' = [log EXCEPT ![m.dst] = l]) \/ log' = log
        BY <2>2 DEF OnAppend, AcceptAppend, RejectAppend, logVars
      <4> QED BY <1>1, <4>2, <4>3 DEF LogTypes
    <3> QED BY <3>2, <3>3
  <2>3. CASE OnInstallSnapshot(m)
    <3>1. UNCHANGED elections
      BY <2>3 DEF OnInstallSnapshot
    <3>2. CASE m.term < currentTerm[m.dst]
      BY <2>3, <3>2 DEF OnInstallSnapshot, logVars
    <3>3. CASE ~ (m.term < currentTerm[m.dst])
      <4>1. FollowLeader(m.dst, m.term)
        BY <2>3, <3>3 DEF OnInstallSnapshot
      <4>2. m.dst # n
        BY <1>1, <2>1, <3>1, <4>1, FollowLeaderTypes
      <4>3. (\E l : log' = [log EXCEPT ![m.dst] = l]) \/ log' = log
        BY <2>3 DEF OnInstallSnapshot, logVars
      <4> QED BY <1>1, <4>2, <4>3 DEF LogTypes
    <3> QED BY <3>2, <3>3
  <2>4. CASE OnRequestVote(m) \/ OnVoteReply(m) \/ OnAppendReply(m) \/ OnInstallReply(m) \/ StepDown(m)
    BY <2>4 DEF OnRequestVote, OnVoteReply, OnAppendReply, OnInstallReply, StepDown, logVars
  <2> QED BY <1>5, <2>2, <2>3, <2>4 DEF Handle
<1>6. ASSUME NEW m \in network, Lose(m)
      PROVE  Kept
  BY <1>6 DEF Lose, logVars
<1>7. ASSUME NEW p \in Nodes, StartElection(p) \/ Heartbeat(p)
      PROVE  Kept
  BY <1>7 DEF StartElection, Heartbeat, logVars
<1>8. ASSUME NEW p \in Nodes, Restart(p)
      PROVE  Kept
  BY <1>1, <1>8 DEF Restart, LogTypes, VoteTypes
<1>9. CASE UNCHANGED vars
  BY <1>9 DEF vars, logVars, LeaderLogStep
<1>10. ASSUME NEW p \in Nodes, NEW c \in Commands, ProposeCommand(p, c)
       PROVE  LeaderLogStep(n)
  <2> QED BY <1>2, <1>10 DEF ProposeCommand
<1>11. ASSUME Kept PROVE LeaderLogStep(n)
  BY <1>11 DEF LeaderLogStep
<1> HIDE DEF Kept
<1>12. ASSUME NEW m \in network, Handle(m) \/ Lose(m) PROVE LeaderLogStep(n)
  BY <1>5, <1>6, <1>11, <1>12
<1>13. ASSUME NEW p \in Nodes, StartElection(p) \/ Heartbeat(p) \/ Restart(p) PROVE LeaderLogStep(n)
  BY <1>7, <1>8, <1>11, <1>13
<1>14. CASE Next
  BY <1>3, <1>4, <1>10, <1>12, <1>13, <1>14 DEF Next
<1> QED BY <1>9, <1>14

\* A leader never drops or rewrites an entry of its own log.
LEMMA LeaderStep ==
  ASSUME BaseInv, LogInv, [Next]_vars, NEW n \in Nodes, role[n] = "leader", role'[n] = "leader",
         NEW i \in DOMAIN log[n]
  PROVE  \/ log[n][i].index <= snapshot'[n].index
         \/ \E j \in DOMAIN log'[n] : log'[n][j] = log[n][i]
<1>1. /\ log[n] \in Seq(Entries) /\ Len(log[n]) \in Nat /\ i \in 1..Len(log[n])
      /\ snapshot[n].index \in Nat /\ log[n][i].index = snapshot[n].index + i
  BY TypeParts, LenProperties DEF BaseInv, LogTypes, Snapshots, LogInv, NodeLogs, Run
<1>2. CASE log'[n] = log[n]
  BY <1>2
<1>3. CASE \E e \in Entries : log'[n] = Append(log[n], e)
  <2>1. PICK e \in Entries : log'[n] = Append(log[n], e)
    BY <1>3
  <2>2. /\ Append(log[n], e) \in Seq(Entries) /\ Len(Append(log[n], e)) = Len(log[n]) + 1
        /\ Append(log[n], e)[i] = log[n][i]
    BY <1>1, AppendProperties
  <2>3. DOMAIN log'[n] = 1..Len(log[n]) + 1
    BY <2>1, <2>2, LenProperties
  <2>4. i \in DOMAIN log'[n] /\ log'[n][i] = log[n][i]
    BY <1>1, <2>1, <2>2, <2>3
  <2> QED BY <2>4
<1>4. CASE /\ snapshot'[n].index \in Nat /\ snapshot'[n].index > snapshot[n].index
           /\ log'[n] = SubSeq(log[n], snapshot'[n].index - snapshot[n].index + 1, Len(log[n]))
  <2>1. PICK x, y, b : x = snapshot'[n].index /\ y = snapshot[n].index /\ b = Len(log[n])
    OBVIOUS
  <2>2. x \in Nat /\ y \in Nat /\ x > y /\ log'[n] = SubSeq(log[n], x - y + 1, b) /\ b \in Nat /\ i \in 1..b
    BY <1>1, <1>4, <2>1
  <2>3. CASE y + i <= x
    BY <1>1, <2>1, <2>3
  <2>4. CASE ~ (y + i <= x)
    <3> DEFINE a == x - y + 1
               j == i - (x - y)
    <3>1. a \in Int /\ a >= 1 /\ b \in Int /\ j \in 1..b - a + 1 /\ a <= b /\ a + j - 1 = i
      BY <2>2, <2>4
    <3>6. b <= Len(log[n])
      BY <2>1, <2>2
    <3> HIDE DEF a, j
    <3>2. /\ SubSeq(log[n], a, b) \in Seq(Entries) /\ Len(SubSeq(log[n], a, b)) = b - a + 1
          /\ SubSeq(log[n], a, b)[j] = log[n][a + j - 1]
      BY <1>1, <3>1, <3>6, PartOf
    <3>3. log'[n] = SubSeq(log[n], a, b)
      BY <2>2 DEF a
    <3>4. DOMAIN log'[n] = 1..b - a + 1
      BY <3>2, <3>3, LenProperties
    <3>5. j \in DOMAIN log'[n] /\ log'[n][j] = log[n][i]
      BY <3>1, <3>2, <3>3, <3>4
    <3> QED BY <3>5
  <2> QED BY <2>3, <2>4
<1> QED BY <1>2, <1>3, <1>4, LeaderKeeps DEF LeaderLogStep

\* What a leader held it still holds, in its log or folded into its snapshot.
THEOREM LeaderKeepsItsLog == Spec /\ [][CompactsHeld]_vars => LeaderAppendOnly
<1> DEFINE A == \A n \in Nodes : role[n] = "leader" /\ role'[n] = "leader" =>
                  \A i \in DOMAIN log[n] :
                    \/ log[n][i].index <= snapshot'[n].index
                    \/ \E j \in DOMAIN log'[n] : log'[n][j] = log[n][i]
<1>1. BaseInv /\ LogInv /\ [Next]_vars => A
  BY LeaderStep
<1>2. LeaderAppendOnly <=> [][A]_vars
  BY DEF LeaderAppendOnly
<1> HIDE DEF A
<1> QED BY <1>1, <1>2, BaseInvariance, LogInvariance, PTL DEF Spec

-----------------------------------------------------------------------------
(* Logs that match *)

\* The entries of a run, each with the term of the entry before it; q is the
\* term before the first.
Links(q, l) == {[prev |-> IF i = 1 THEN q ELSE l[i - 1].term, entry |-> l[i]] : i \in 1..Len(l)}

\* The links in the logs and in the messages of leaders.
InLogs == UNION {Links(0, log[n]) : n \in Nodes}
InMessages ==
  UNION {Links(m.prevTerm, m.entries) : m \in {x \in network : x.type = "AppendEntries"}}
Seen == InLogs \cup InMessages

\* Nothing was compacted, and nothing precedes index 1.
Whole(m) ==
  /\ m.type = "AppendEntries" /\ m.prevIndex = 0 => m.prevTerm = 0
  /\ m.type = "InstallSnapshot" => m.snapshot.index = 0
Uncompacted ==
  /\ \A n \in Nodes : snapshot[n].index = 0 /\ snapshot[n].term = 0
  /\ \A m \in network : Whole(m)

\* An index and a term determine an entry and the term before it.
Unique ==
  \A a, b \in Seen :
    a.entry.index = b.entry.index /\ a.entry.term = b.entry.term => a = b
\* Entries are made by the leaders of their terms, which keep them.
MadeByLeader ==
  /\ \A a \in Seen : \E n \in Nodes : Won(n, a.entry.term)
  /\ \A n \in Nodes : role[n] = "leader" =>
       \A a \in Seen : a.entry.term = currentTerm[n] => a.entry.index <= LastIndex(n)
MatchInv == Uncompacted /\ Unique /\ MadeByLeader

\* The same links, one by one.
LEMMA InLinks ==
  ASSUME NEW q, NEW l, NEW a
  PROVE  a \in Links(q, l) <=> \E i \in 1..Len(l) :
           a = [prev |-> IF i = 1 THEN q ELSE l[i - 1].term, entry |-> l[i]]
BY DEF Links

LEMMA InSeen ==
  \A a : a \in Seen <=>
    \/ \E n \in Nodes : a \in Links(0, log[n])
    \/ \E m \in network : m.type = "AppendEntries" /\ a \in Links(m.prevTerm, m.entries)
<1>1. \A a : a \in InLogs <=> \E n \in Nodes : a \in Links(0, log[n])
  BY DEF InLogs
<1>2. \A a : a \in InMessages <=>
        \E m \in network : m.type = "AppendEntries" /\ a \in Links(m.prevTerm, m.entries)
  BY DEF InMessages
<1> QED BY <1>1, <1>2 DEF Seen

LEMMA InSeenPrimed ==
  (\A a : a \in Seen <=>
    \/ \E n \in Nodes : a \in Links(0, log[n])
    \/ \E m \in network : m.type = "AppendEntries" /\ a \in Links(m.prevTerm, m.entries))'
BY InSeen, PTL

LEMMA InSeenAfter ==
  ASSUME NEW a
  PROVE  a \in Seen' <=>
           \/ \E n \in Nodes : a \in Links(0, log'[n])
           \/ \E m \in network' : m.type = "AppendEntries" /\ a \in Links(m.prevTerm, m.entries)
BY InSeenPrimed DEF Links

\* The end of a run has the links of the run.
LEMMA SuffixLinks ==
  ASSUME NEW q, NEW l \in Seq(Entries), NEW a \in 1..Len(l)
  PROVE  Links(IF a = 1 THEN q ELSE l[a - 1].term, SubSeq(l, a, Len(l))) \subseteq Links(q, l)
<1> DEFINE part == SubSeq(l, a, Len(l))
           b == IF a = 1 THEN q ELSE l[a - 1].term
<1>1. Len(l) \in Nat /\ a \in Int /\ a >= 1 /\ a <= Len(l)
  BY LenProperties
<1>2. /\ Len(part) = Len(l) - a + 1
      /\ \A i \in 1..Len(l) - a + 1 : part[i] = l[a + i - 1]
  BY <1>1, PartOf
<1> HIDE DEF part
<1> SUFFICES ASSUME NEW x \in Links(b, part) PROVE x \in Links(q, l)
  BY DEF part
<1>3. PICK i \in 1..Len(part) : x = [prev |-> IF i = 1 THEN b ELSE part[i - 1].term, entry |-> part[i]]
  BY InLinks
<1>4. i \in 1..Len(l) - a + 1 /\ a + i - 1 \in 1..Len(l) /\ part[i] = l[a + i - 1]
  BY <1>1, <1>2
<1>5. CASE i = 1
  <2>1. a + i - 1 = a
    BY <1>1, <1>5
  <2>2. x = [prev |-> b, entry |-> l[a]]
    BY <1>3, <1>4, <1>5, <2>1
  <2> QED BY <2>2, InLinks
<1>6. CASE i # 1
  <2> DEFINE j == a + i - 1
  <2>1. i - 1 \in 1..Len(l) - a + 1 /\ a + (i - 1) - 1 = j - 1 /\ j # 1 /\ j \in 1..Len(l)
    BY <1>1, <1>4, <1>6
  <2>2. part[i - 1] = l[j - 1]
    BY <1>2, <2>1
  <2>3. x = [prev |-> IF j = 1 THEN q ELSE l[j - 1].term, entry |-> l[j]]
    BY <1>3, <1>4, <1>6, <2>1, <2>2
  <2> HIDE DEF j
  <2> QED BY <2>1, <2>3, InLinks
<1> QED BY <1>5, <1>6

\* One more entry is one more link.
LEMMA AppendLinks ==
  ASSUME NEW q, NEW l \in Seq(Entries), NEW e \in Entries
  PROVE  \A a \in Links(q, Append(l, e)) : a \in Links(q, l) \/ a.entry = e
<1> DEFINE j == Append(l, e)
<1>1. /\ Len(l) \in Nat /\ Len(j) = Len(l) + 1 /\ j[Len(l) + 1] = e
      /\ \A i \in 1..Len(l) : j[i] = l[i]
  BY LenProperties, AppendProperties
<1> HIDE DEF j
<1> SUFFICES ASSUME NEW a \in Links(q, j) PROVE a \in Links(q, l) \/ a.entry = e
  BY DEF j
<1>2. PICK i \in 1..Len(j) : a = [prev |-> IF i = 1 THEN q ELSE j[i - 1].term, entry |-> j[i]]
  BY InLinks
<1>3. CASE i = Len(l) + 1
  BY <1>1, <1>2, <1>3
<1>4. CASE i # Len(l) + 1
  <2>1. i \in 1..Len(l) /\ (i # 1 => i - 1 \in 1..Len(l))
    BY <1>1, <1>4
  <2>2. a = [prev |-> IF i = 1 THEN q ELSE l[i - 1].term, entry |-> l[i]]
    BY <1>1, <1>2, <2>1
  <2> QED BY <2>1, <2>2, InLinks
<1> QED BY <1>3, <1>4

\* The beginning of one run followed by the end of another, which the same term
\* precedes there, has the links of the two.
LEMMA JoinedLinks ==
  ASSUME NEW q, NEW b, NEW l \in Seq(Entries), NEW E \in Seq(Entries),
         NEW k \in 0..Len(l), NEW f \in 1..Len(E),
         (IF k = 0 THEN q ELSE l[k].term) = (IF f = 1 THEN b ELSE E[f - 1].term)
  PROVE  Links(q, SubSeq(l, 1, k) \o SubSeq(E, f, Len(E))) \subseteq Links(q, l) \cup Links(b, E)
<1> DEFINE kept == SubSeq(l, 1, k)
           added == SubSeq(E, f, Len(E))
           j == kept \o added
           rest == Len(E) - f + 1
<1>1. Len(l) \in Nat /\ Len(E) \in Nat /\ k \in Nat /\ k <= Len(l) /\ f \in Nat /\ f >= 1 /\ f <= Len(E)
  BY LenProperties
<1>2. kept \in Seq(Entries) /\ Len(kept) = k /\ \A i \in 1..k : kept[i] = l[i]
  <2>1. /\ kept \in Seq(Entries) /\ Len(kept) = IF 1 <= k THEN k - 1 + 1 ELSE 0
        /\ \A i \in 1..k - 1 + 1 : kept[i] = l[1 + i - 1]
    BY <1>1, PartOf
  <2> HIDE DEF kept
  <2>2. \A i \in 1..k : i \in 1..k - 1 + 1 /\ 1 + i - 1 = i
    BY <1>1
  <2> QED BY <1>1, <2>1, <2>2
<1>3. added \in Seq(Entries) /\ Len(added) = rest /\ \A i \in 1..rest : added[i] = E[f + i - 1]
  BY <1>1, PartOf
<1> HIDE DEF kept, added
<1>4. /\ Len(j) = k + rest
      /\ \A i \in 1..k : j[i] = l[i]
      /\ \A i \in 1..rest : j[k + i] = E[f + i - 1]
  <2>1. /\ Len(j) = Len(kept) + Len(added)
        /\ \A i \in 1..Len(kept) + Len(added) :
             j[i] = IF i <= Len(kept) THEN kept[i] ELSE added[i - Len(kept)]
    BY <1>2, <1>3, ConcatProperties
  <2> HIDE DEF j
  <2>2. rest \in Nat
    BY <1>1
  <2>3. ASSUME NEW i \in 1..k PROVE j[i] = l[i]
    <3>1. i \in 1..k + rest /\ i <= k
      BY <1>1, <2>2
    <3> QED BY <1>2, <1>3, <2>1, <3>1
  <2>4. ASSUME NEW i \in 1..rest PROVE j[k + i] = E[f + i - 1]
    <3>1. k + i \in 1..k + rest /\ ~ (k + i <= k) /\ k + i - k = i
      BY <1>1, <2>2
    <3> QED BY <1>2, <1>3, <2>1, <3>1
  <2> QED BY <1>2, <1>3, <2>1, <2>3, <2>4
<1> HIDE DEF j
<1> SUFFICES ASSUME NEW a \in Links(q, j) PROVE a \in Links(q, l) \cup Links(b, E)
  BY DEF j, kept, added
<1>5. PICK i \in 1..Len(j) : a = [prev |-> IF i = 1 THEN q ELSE j[i - 1].term, entry |-> j[i]]
  BY InLinks
<1>6. CASE i <= k
  <2>1. i \in 1..k /\ i \in 1..Len(l) /\ (i # 1 => i - 1 \in 1..k)
    BY <1>1, <1>6
  <2>2. a = [prev |-> IF i = 1 THEN q ELSE l[i - 1].term, entry |-> l[i]]
    BY <1>4, <1>5, <2>1
  <2> QED BY <2>1, <2>2, InLinks
<1>7. CASE i = k + 1
  <2>1. 1 \in 1..rest /\ f + 1 - 1 = f
    BY <1>1
  <2>2. j[i] = E[f]
    BY <1>4, <1>7, <2>1
  <2>3. (IF i = 1 THEN q ELSE j[i - 1].term) = IF k = 0 THEN q ELSE l[k].term
    <3>1. CASE k = 0
      BY <1>7, <3>1
    <3>2. CASE k # 0
      <4>1. i # 1 /\ i - 1 = k /\ k \in 1..k
        BY <1>1, <1>7, <3>2
      <4>2. j[k] = l[k]
        BY <1>4, <4>1
      <4> QED BY <3>2, <4>1, <4>2
    <3> QED BY <3>1, <3>2
  <2>4. a = [prev |-> IF f = 1 THEN b ELSE E[f - 1].term, entry |-> E[f]]
    BY <1>5, <2>2, <2>3
  <2> QED BY <2>4, InLinks
<1>8. CASE i > k + 1
  <2>1. PICK o : o = i - k
    OBVIOUS
  <2>2. /\ o \in 1..rest /\ o - 1 \in 1..rest /\ k + o = i /\ k + (o - 1) = i - 1 /\ i # 1
        /\ f + (o - 1) - 1 = (f + o - 1) - 1 /\ f + o - 1 \in 1..Len(E) /\ f + o - 1 # 1
    BY <1>1, <1>4, <1>8, <2>1
  <2>3. j[i] = E[f + o - 1] /\ j[i - 1] = E[(f + o - 1) - 1]
    BY <1>4, <2>2
  <2>4. PICK x : x = f + o - 1
    OBVIOUS
  <2>5. a = [prev |-> IF x = 1 THEN b ELSE E[x - 1].term, entry |-> E[x]]
    BY <1>5, <2>2, <2>3, <2>4
  <2> QED BY <2>2, <2>4, <2>5, InLinks
<1> QED BY <1>1, <1>4, <1>6, <1>7, <1>8
\* What _append_to sends has the links of its node's log.
Passes(m, l) ==
  /\ Whole(m)
  /\ m.type = "AppendEntries" => Links(m.prevTerm, m.entries) \subseteq Links(0, l)
NothingFolded == \A n \in Nodes : snapshot[n].index = 0 /\ snapshot[n].term = 0

LEMMA AppendToPasses ==
  LogTypes /\ CommitTypes /\ LeaderTypes /\ VoteTypes /\ NothingFolded =>
    \A n, p \in Nodes : Passes(AppendTo(n, p), log[n])
<1> SUFFICES ASSUME LogTypes, CommitTypes, LeaderTypes, VoteTypes, NothingFolded,
                    NEW n \in Nodes, NEW p \in Nodes
             PROVE  Passes(AppendTo(n, p), log[n])
  OBVIOUS
<1> DEFINE prev == Get(nextIndex[n], p, LastIndex(n) + 1) - 1
           s == snapshot[n].index
           part == SubSeq(log[n], prev - s + 1, Len(log[n]))
           msg == AppendTo(n, p)
<1>1. prev \in Int
  BY LastType DEF LeaderTypes, IsPeerIndex, Get
<1>2. s = 0 /\ snapshot[n].term = 0 /\ log[n] \in Seq(Entries) /\ Len(log[n]) \in Nat
  BY LenProperties DEF LogTypes, NothingFolded
<1>3. CASE prev < s
  <2>1. msg.type = "InstallSnapshot" /\ msg.snapshot = snapshot[n]
    BY <1>3 DEF AppendTo
  <2> QED BY <1>2, <2>1 DEF Passes, Whole
<1>4. CASE ~ (prev < s)
  <2>1. /\ msg.type = "AppendEntries" /\ msg.prevIndex = prev /\ msg.prevTerm = TermAt(n, prev)
        /\ msg.entries = part
    BY <1>4 DEF AppendTo
  <2> HIDE DEF msg, prev
  <2>2. prev \in Nat /\ prev - s + 1 = prev + 1
    BY <1>1, <1>2, <1>4
  <2>3. prev = 0 => TermAt(n, prev) = 0
    BY <1>2 DEF TermAt
  <2>4. CASE prev + 1 > Len(log[n])
    <3>1. part = <<>>
      BY <1>2, <2>2, <2>4, SubSeqEmpty
    <3>2. Links(TermAt(n, prev), part) = {}
      <4> HIDE DEF part
      <4>1. Len(part) = 0
        BY <3>1, EmptySeq
      <4>2. \A i \in 1..Len(part) : FALSE
        BY <4>1
      <4> QED BY <4>2, InLinks
    <3> QED BY <2>1, <2>3, <3>2 DEF Passes, Whole, msg
  <2>5. CASE prev + 1 <= Len(log[n])
    <3> DEFINE a == prev + 1
    <3>1. a \in 1..Len(log[n]) /\ a - 1 = prev /\ (a = 1 <=> prev = 0)
      BY <1>2, <2>2, <2>5
    <3>2. TermAt(n, prev) = IF a = 1 THEN 0 ELSE log[n][a - 1].term
      <4>1. CASE prev = 0
        BY <2>3, <3>1, <4>1
      <4>2. CASE prev # 0
        <5>1. HasEntry(n, prev) /\ prev - snapshot[n].index = prev /\ prev # snapshot[n].index
          BY <1>2, <2>2, <2>5, <4>2 DEF HasEntry
        <5> QED BY <3>1, <4>2, <5>1 DEF TermAt, EntryAt
      <4> QED BY <4>1, <4>2
    <3>3. part = SubSeq(log[n], a, Len(log[n]))
      BY <2>2
    <3> HIDE DEF a, part
    <3>4. Links(TermAt(n, prev), part) \subseteq Links(0, log[n])
      BY <1>2, <3>1, <3>2, <3>3, SuffixLinks
    <3> QED BY <2>1, <2>3, <3>4 DEF Passes, Whole, msg
  <2> QED BY <1>2, <2>2, <2>4, <2>5
<1> QED BY <1>3, <1>4

LEMMA AppendToPassesPrimed ==
  (LogTypes /\ CommitTypes /\ LeaderTypes /\ VoteTypes /\ NothingFolded =>
    \A n, p \in Nodes : Passes(AppendTo(n, p), log[n]))'
BY AppendToPasses, PTL

LEMMA PassesAfter ==
  ASSUME TypeOK', NothingFolded', NEW n \in Nodes, NEW p \in Nodes
  PROVE  Passes(AppendTo(n, p)', log'[n])
<1>1. LogTypes' /\ CommitTypes' /\ LeaderTypes' /\ VoteTypes'
  BY DEF TypeOK, VoteTypes, LogTypes, CommitTypes, LeaderTypes
<1> QED BY <1>1, AppendToPassesPrimed DEF Passes, Whole, Links

\* A message that carries neither entries nor a snapshot, or is one that
\* _append_to makes after the step.
Sent(m) ==
  \/ m.type \notin {"AppendEntries", "InstallSnapshot"}
  \/ \E n, p \in Nodes : m = AppendTo(n, p)'

\* Every step sends such messages only: what is seen after it was seen before,
\* or is in a log.
LEMMA SeenAfter ==
  ASSUME TypeOK', NothingFolded', MatchInv, \A m \in network' : m \in network \/ Sent(m)
  PROVE  /\ Uncompacted'
         /\ \A a \in Seen' : a \in Seen \/ \E n \in Nodes : a \in Links(0, log'[n])
<1>1. ASSUME NEW m \in network', m \notin network
      PROVE  Whole(m) /\ (m.type = "AppendEntries" =>
                           \E n \in Nodes : Links(m.prevTerm, m.entries) \subseteq Links(0, log'[n]))
  <2>1. CASE m.type \notin {"AppendEntries", "InstallSnapshot"}
    BY <2>1 DEF Whole
  <2>2. CASE \E n, p \in Nodes : m = AppendTo(n, p)'
    <3>1. PICK n \in Nodes, p \in Nodes : m = AppendTo(n, p)'
      BY <2>2
    <3>2. Passes(m, log'[n])
      BY <3>1, PassesAfter
    <3> QED BY <3>2 DEF Passes
  <2> QED BY <1>1, <2>1, <2>2 DEF Sent
<1>2. \A m \in network' : Whole(m)
  BY <1>1 DEF MatchInv, Uncompacted
<1>3. Uncompacted'
  BY <1>2 DEF Uncompacted, NothingFolded, Whole
<1>4. ASSUME NEW a \in Seen'
      PROVE  a \in Seen \/ \E n \in Nodes : a \in Links(0, log'[n])
  <2>1. CASE \E n \in Nodes : a \in Links(0, log'[n])
    BY <2>1
  <2>2. CASE \E m \in network' : m.type = "AppendEntries" /\ a \in Links(m.prevTerm, m.entries)
    BY <1>1, <2>2, InSeen
  <2> QED BY <2>1, <2>2, InSeenAfter
<1> QED BY <1>3, <1>4

\* A node that leads after a step led in that term before, or nobody has seen an
\* entry of the term.
LEMMA LeadersOfTerms ==
  ASSUME VoteInv, VoteInv', MadeByLeader, elections \subseteq elections',
         \A n \in Nodes : currentTerm'[n] >= currentTerm[n],
         NEW n \in Nodes, role'[n] = "leader"
  PROVE  \/ role[n] = "leader" /\ currentTerm'[n] = currentTerm[n]
         \/ \A a \in Seen : a.entry.term # currentTerm'[n]
<1> SUFFICES ASSUME NEW a \in Seen, a.entry.term = currentTerm'[n]
             PROVE  role[n] = "leader" /\ currentTerm'[n] = currentTerm[n]
  OBVIOUS
<1>1. PICK p \in Nodes : Won(p, currentTerm'[n])
  BY DEF MadeByLeader
<1>2. PICK e \in elections : e.term = currentTerm'[n] /\ e.leader = p
  BY <1>1 DEF Won
<1>3. PICK f \in elections' : f.term = currentTerm'[n] /\ f.leader = n
  BY DEF VoteInv, RoleInv, Won
<1>4. e \in elections'
  BY <1>2
<1>5. e.leader = f.leader
  BY <1>2, <1>3, <1>4 DEF VoteInv, ElectionSafety
<1>6. \/ currentTerm[n] > currentTerm'[n]
      \/ currentTerm[n] = currentTerm'[n] /\ role[n] = "leader"
  BY <1>2, <1>3, <1>5 DEF VoteInv, WinnerInv
<1>7. currentTerm[n] \in Nat /\ currentTerm'[n] \in Nat
  BY DEF VoteInv, VoteTypes
<1> QED BY <1>6, <1>7

\* A step that makes no entry keeps the invariant, if a leader that goes on
\* leading keeps its log.
LEMMA NothingMade ==
  ASSUME VoteInv, VoteInv', MatchInv, elections \subseteq elections', Uncompacted',
         \A n \in Nodes : currentTerm'[n] >= currentTerm[n],
         \A n \in Nodes : role[n] = "leader" /\ role'[n] = "leader" => LastIndex(n)' = LastIndex(n),
         \A a \in Seen' : a \in Seen
  PROVE  MatchInv'
<1>1. Unique'
  BY DEF MatchInv, Unique
<1>2. ASSUME NEW a \in Seen' PROVE \E n \in Nodes : Won(n, a.entry.term)'
  BY DEF MatchInv, MadeByLeader, Won
<1>3. ASSUME NEW n \in Nodes, role'[n] = "leader", NEW a \in Seen', a.entry.term = currentTerm'[n]
      PROVE  a.entry.index <= LastIndex(n)'
  <2>1. role[n] = "leader" /\ currentTerm'[n] = currentTerm[n]
    BY <1>3, LeadersOfTerms DEF MatchInv
  <2>2. a.entry.index <= LastIndex(n)
    BY <1>3, <2>1 DEF MatchInv, MadeByLeader
  <2> QED BY <1>3, <2>1, <2>2
<1>4. MadeByLeader'
  BY <1>2, <1>3 DEF MadeByLeader
<1> QED BY <1>1, <1>4 DEF MatchInv

\* An entry that its leader makes is new, and its index is the next one.
LEMMA MatchPropose ==
  ASSUME BaseInv, TypeOK', LogInv, VoteInv, VoteInv', MatchInv,
         NEW n \in Nodes, NEW c \in Commands \cup SUBSET Nodes, Propose(n, c)
  PROVE  MatchInv'
<1> DEFINE entry == NewEntry(n, c, LastIndex(n) + 1)
           t == currentTerm[n]
<1>1. VoteTypes /\ LogTypes
  BY TypeParts DEF BaseInv
<1>2. /\ role[n] = "leader" /\ log' = [log EXCEPT ![n] = Append(@, entry)]
      /\ UNCHANGED <<voteVars, snapshot, elections>>
      /\ network' = network \cup BroadcastAppend(n)'
  BY DEF Propose, Send
<1>3. log[n] \in Seq(Entries) /\ Len(log[n]) \in Nat /\ LastIndex(n) \in Nat /\ t \in Nat
  BY <1>1, LastType, LenProperties DEF LogTypes, VoteTypes
<1>4. entry \in Entries /\ entry.index = LastIndex(n) + 1 /\ entry.term = t
  BY <1>1, <1>3 DEF NewEntry, Entries
<1> HIDE DEF entry
<1>5. log'[n] = Append(log[n], entry) /\ \A p \in Nodes : p # n => log'[p] = log[p]
  BY <1>1, <1>2 DEF LogTypes
<1>6. LastIndex(n)' = LastIndex(n) + 1
  <2>1. log'[n] # <<>> /\ Len(log'[n]) = Len(log[n]) + 1 /\ log'[n][Len(log[n]) + 1] = entry
    BY <1>3, <1>4, <1>5, AppendProperties, EmptySeq
  <2> QED BY <1>4, <2>1 DEF LastIndex
<1>7. Uncompacted' /\ \A a \in Seen' : a \in Seen \/ \E p \in Nodes : a \in Links(0, log'[p])
  <2>1. NothingFolded'
    BY <1>2 DEF NothingFolded, MatchInv, Uncompacted
  <2>2. \A m \in BroadcastAppend(n)' : Sent(m)
    <3> SUFFICES ASSUME NEW m \in BroadcastAppend(n)' PROVE Sent(m)
      OBVIOUS
    <3>1. PICK p \in Nodes : m = AppendTo(n, p)'
      BY DEF BroadcastAppend, Peers, TypeOK
    <3> QED BY <3>1 DEF Sent
  <2>3. \A m \in network' : m \in network \/ Sent(m)
    BY <1>2, <2>2
  <2> QED BY <2>1, <2>3, SeenAfter
<1>8. \A a \in Links(0, Append(log[n], entry)) : a \in Links(0, log[n]) \/ a.entry = entry
  BY <1>3, <1>4, AppendLinks
<1>9. \A a \in Seen' : a \in Seen \/ (a.entry = entry /\ a \in Links(0, log'[n]))
  <2> SUFFICES ASSUME NEW a \in Seen', a \notin Seen
               PROVE  a.entry = entry /\ a \in Links(0, log'[n])
    OBVIOUS
  <2>1. PICK p \in Nodes : a \in Links(0, log'[p])
    BY <1>7
  <2>2. \A r \in Nodes : a \notin Links(0, log[r])
    BY InSeen
  <2>3. p = n
    BY <1>5, <2>1, <2>2
  <2> QED BY <1>5, <1>8, <2>1, <2>2, <2>3
<1>10. \A a \in Seen : ~ (a.entry.term = t /\ a.entry.index = LastIndex(n) + 1)
  <2> SUFFICES ASSUME NEW a \in Seen, a.entry.term = t, a.entry.index = LastIndex(n) + 1 PROVE FALSE
    OBVIOUS
  <2>1. a.entry.index <= LastIndex(n)
    BY <1>2 DEF MatchInv, MadeByLeader
  <2> QED BY <1>3, <2>1
<1>11. \A a, b \in Links(0, log'[n]) : a.entry = entry /\ b.entry = entry => a = b
  <2> SUFFICES ASSUME NEW a \in Links(0, log'[n]), NEW b \in Links(0, log'[n]),
                      a.entry = entry, b.entry = entry
               PROVE  a = b
    OBVIOUS
  <2> DEFINE l == log'[n]
  <2>1. \A i \in 1..Len(l) : l[i].index = entry.index => i = Len(l)
    <3>1. Run(log[n], snapshot[n].index) /\ snapshot[n].index = 0
      BY DEF LogInv, NodeLogs, MatchInv, Uncompacted
    <3>2. LastIndex(n) = Len(log[n])
      BY <1>3, <3>1, LastOfRun DEF LastIndex
    <3>3. Len(l) = Len(log[n]) + 1 /\ \A i \in 1..Len(log[n]) : l[i] = log[n][i]
      BY <1>3, <1>4, <1>5, AppendProperties
    <3> HIDE DEF l
    <3> SUFFICES ASSUME NEW i \in 1..Len(l), l[i].index = entry.index, i # Len(l) PROVE FALSE
      OBVIOUS
    <3>4. i \in 1..Len(log[n])
      BY <1>3, <3>3
    <3>5. l[i].index = 0 + i
      BY <3>1, <3>3, <3>4 DEF Run
    <3> QED BY <1>3, <1>4, <3>2, <3>4, <3>5
  <2>2. PICK i \in 1..Len(l) : a = [prev |-> IF i = 1 THEN 0 ELSE l[i - 1].term, entry |-> l[i]]
    BY InLinks
  <2>3. PICK j \in 1..Len(l) : b = [prev |-> IF j = 1 THEN 0 ELSE l[j - 1].term, entry |-> l[j]]
    BY InLinks
  <2> HIDE DEF l
  <2>4. l[i] = entry /\ l[j] = entry
    BY <2>2, <2>3
  <2>5. i = j
    BY <2>1, <2>4
  <2> QED BY <2>2, <2>3, <2>5
<1>12. Unique'
  <2> SUFFICES ASSUME NEW a \in Seen', NEW b \in Seen',
                      a.entry.index = b.entry.index, a.entry.term = b.entry.term
               PROVE  a = b
    BY DEF Unique
  <2>1. CASE a \in Seen /\ b \in Seen
    BY <2>1 DEF MatchInv, Unique
  <2>2. CASE a \in Seen /\ b \notin Seen
    BY <1>4, <1>9, <1>10, <2>2
  <2>3. CASE a \notin Seen /\ b \in Seen
    BY <1>4, <1>9, <1>10, <2>3
  <2>4. CASE a \notin Seen /\ b \notin Seen
    BY <1>9, <1>11, <2>4
  <2> QED BY <2>1, <2>2, <2>3, <2>4
<1>13. MadeByLeader'
  <2>1. ASSUME NEW a \in Seen' PROVE \E p \in Nodes : Won(p, a.entry.term)'
    <3>1. CASE a \in Seen
      BY <1>2, <3>1 DEF MatchInv, MadeByLeader, Won
    <3>2. CASE a \notin Seen
      <4>1. a.entry.term = t /\ Won(n, t)
        BY <1>2, <1>4, <1>9, <3>2 DEF VoteInv, RoleInv
      <4> QED BY <1>2, <4>1 DEF Won
    <3> QED BY <3>1, <3>2
  <2>2. ASSUME NEW p \in Nodes, role'[p] = "leader", NEW a \in Seen', a.entry.term = currentTerm'[p]
        PROVE  a.entry.index <= LastIndex(p)'
    <3>1. role[p] = "leader" /\ currentTerm'[p] = currentTerm[p]
      BY <1>2, <2>2 DEF voteVars
    <3>2. CASE a \in Seen
      <4>1. a.entry.index <= LastIndex(p)
        BY <2>2, <3>1, <3>2 DEF MatchInv, MadeByLeader
      <4>2. CASE p = n
        <5>1. a.entry.index \in Nat
          <6>1. (\E r \in Nodes : a \in Links(0, log[r]))
                \/ \E m \in network : m.type = "AppendEntries" /\ a \in Links(m.prevTerm, m.entries)
            BY <3>2, InSeen
          <6>2. ASSUME NEW q, NEW l \in Seq(Entries), a \in Links(q, l) PROVE a.entry.index \in Nat
            <7>1. PICK i \in 1..Len(l) : a.entry = l[i]
              BY <6>2, InLinks
            <7>2. l[i] \in Entries
              BY ElementOfSeq
            <7> QED BY <7>1, <7>2 DEF Entries
          <6>3. \A r \in Nodes : log[r] \in Seq(Entries)
            BY <1>1 DEF LogTypes
          <6>4. \A m \in network : m.type = "AppendEntries" => m.entries \in Seq(Entries)
            BY MessageFields, TypeParts DEF BaseInv
          <6> QED BY <6>1, <6>2, <6>3, <6>4
        <5> QED BY <1>3, <1>6, <4>1, <4>2, <5>1
      <4>3. CASE p # n
        BY <1>2, <1>5, <4>1, <4>3 DEF LastIndex
      <4> QED BY <4>2, <4>3
    <3>3. CASE a \notin Seen
      <4>1. a.entry = entry /\ currentTerm[p] = t
        BY <1>4, <1>9, <2>2, <3>1, <3>3
      <4>2. p = n
        BY <1>2, <3>1, <4>1 DEF VoteInv, RoleInv, ElectionSafety, Won
      <4> QED BY <1>3, <1>4, <1>6, <4>1, <4>2
    <3> QED BY <3>2, <3>3
  <2> QED BY <2>1, <2>2 DEF MadeByLeader
<1> QED BY <1>7, <1>12, <1>13 DEF MatchInv

\* Where a follower joins the entries of a message to its log, both have the
\* same term before them: that is the consistency check, and the search for the
\* first entry that is new.
LEMMA SameTermBefore ==
  ASSUME LogTypes, NodeLogs, NothingFolded, NEW m \in Messages, m.type = "AppendEntries", Sound(m),
         Whole(m), Consistent(m.dst, m),
         NEW f \in 1..Len(m.entries), \A j \in NewFrom(m.dst, m.entries) : f <= j,
         NEW k \in 0..Len(log[m.dst]), k = m.prevIndex + f - 1
  PROVE  (IF k = 0 THEN 0 ELSE log[m.dst][k].term)
           = (IF f = 1 THEN m.prevTerm ELSE m.entries[f - 1].term)
<1> DEFINE n == m.dst
           E == m.entries
           l == log[n]
<1>1. /\ n \in Nodes /\ m.prevIndex \in Nat /\ E \in Seq(Entries) /\ Len(E) \in Nat
      /\ l \in Seq(Entries) /\ Len(l) \in Nat
  BY MessageFields, LenProperties DEF LogTypes
<1>2. snapshot[n].index = 0
  BY <1>1 DEF NothingFolded
<1>3. CASE f = 1
  <2>1. k = m.prevIndex
    BY <1>1, <1>3
  <2>2. CASE k = 0
    BY <1>3, <2>1, <2>2 DEF Whole
  <2>3. CASE k # 0
    <3>1. TermAt(n, k) = m.prevTerm
      BY <2>1, <2>3 DEF Consistent
    <3>2. HasEntry(n, k) /\ k - snapshot[n].index = k /\ k # snapshot[n].index
      BY <1>1, <1>2, <2>3 DEF HasEntry
    <3> QED BY <1>3, <2>3, <3>1, <3>2 DEF TermAt, EntryAt
  <2> QED BY <2>2, <2>3
<1>4. CASE f # 1
  <2>1. PICK g : g = f - 1
    OBVIOUS
  <2>2. g \in 1..Len(E) /\ ~ (f <= g) /\ k = m.prevIndex + g /\ k # 0 /\ k \in Nat /\ k > 0
    BY <1>1, <1>4, <2>1
  <2>3. E[g].index = k
    BY <2>2 DEF Sound, Run
  <2>4. g \notin NewFrom(n, E)
    BY <2>2
  <2>5. HasEntry(n, k) /\ EntryAt(n, k).term = E[g].term
    BY <1>2, <2>2, <2>3, <2>4 DEF NewFrom
  <2>6. EntryAt(n, k) = l[k]
    BY <1>2, <2>2 DEF EntryAt
  <2> QED BY <1>4, <2>1, <2>2, <2>5, <2>6
<1> QED BY <1>3, <1>4

LEMMA MatchAccept ==
  ASSUME BaseInv, TypeOK', LogInv, VoteInv, VoteInv', MatchInv, NEW m \in network,
         m.type = "AppendEntries", Consistent(m.dst, m), AcceptAppend(m),
         role'[m.dst] # "leader", elections \subseteq elections',
         \A p \in Nodes : currentTerm'[p] >= currentTerm[p]
  PROVE  MatchInv'
<1> DEFINE n == m.dst
           E == m.entries
<1>1. VoteTypes /\ LogTypes /\ network \subseteq Messages /\ NodeLogs
  BY TypeParts DEF BaseInv, LogInv
<1>2. m \in Messages /\ Sound(m) /\ Whole(m)
  BY <1>1 DEF LogInv, MatchInv, Uncompacted
<1>3. /\ n \in Nodes /\ m.prevIndex \in Nat /\ E \in Seq(Entries) /\ Len(E) \in Nat
      /\ log[n] \in Seq(Entries) /\ Len(log[n]) \in Nat
  BY <1>1, <1>2, MessageFields, LenProperties DEF LogTypes
<1>4. NothingFolded /\ UNCHANGED snapshot
  BY DEF NothingFolded, MatchInv, Uncompacted, AcceptAppend
<1>5. Uncompacted' /\ \A a \in Seen' : a \in Seen \/ \E p \in Nodes : a \in Links(0, log'[p])
  <2>1. NothingFolded'
    BY <1>4 DEF NothingFolded
  <2>2. PICK last : Deliver(m, {AppendReply(n, m.src, m.term, TRUE, last, 0)})
    BY DEF AcceptAppend
  <2>3. \A x \in network' : x \in network \/ Sent(x)
    BY <2>2 DEF Deliver, Sent, AppendReply
  <2> QED BY <2>1, <2>3, SeenAfter
<1>6. (\A p \in Nodes : p # n => log'[p] = log[p]) /\ Links(0, log'[n]) \subseteq Seen
  <2>1. CASE UNCHANGED log
    BY <1>3, <2>1, InSeen
  <2>2. CASE \E f \in 1..Len(E) : \E k \in 0..Len(log[n]) :
               /\ f \in NewFrom(n, E) /\ \A j \in NewFrom(n, E) : f <= j
               /\ k = Len(log[n]) \/ k = E[f].index - snapshot[n].index - 1
               /\ k <= E[f].index - snapshot[n].index - 1
               /\ log' = [log EXCEPT ![n] = SubSeq(log[n], 1, k) \o SubSeq(E, f, Len(E))]
    <3>1. PICK f \in 1..Len(E), k \in 0..Len(log[n]) :
               /\ f \in NewFrom(n, E) /\ \A j \in NewFrom(n, E) : f <= j
               /\ k = Len(log[n]) \/ k = E[f].index - snapshot[n].index - 1
               /\ k <= E[f].index - snapshot[n].index - 1
               /\ log' = [log EXCEPT ![n] = SubSeq(log[n], 1, k) \o SubSeq(E, f, Len(E))]
      BY <2>2
    <3>2. E[f].index = m.prevIndex + f /\ E[f].index - snapshot[n].index - 1 <= Len(log[n])
      <4>1. f \in NewFrom(n, E) /\ \A j \in NewFrom(n, E) : f <= j
        BY <3>1
      <4> QED BY <1>1, <1>2, <4>1, NoGap
    <3>3. k = m.prevIndex + f - 1
      <4>1. snapshot[n].index = 0
        BY <1>3, <1>4 DEF NothingFolded
      <4>2. PICK x, z, b : x = E[f].index /\ z = m.prevIndex /\ b = Len(log[n])
        OBVIOUS
      <4>3. /\ x = z + f /\ x - 0 - 1 <= b /\ k <= x - 0 - 1
            /\ k = b \/ k = x - 0 - 1
        BY <3>1, <3>2, <4>1, <4>2
      <4>4. z \in Nat /\ b \in Nat /\ k \in Nat /\ f \in Nat
        BY <1>3, <4>2
      <4>5. k = z + f - 1
        BY <4>3, <4>4
      <4> QED BY <4>2, <4>5
    <3>4. (IF k = 0 THEN 0 ELSE log[n][k].term) = (IF f = 1 THEN m.prevTerm ELSE E[f - 1].term)
      <4>1. \A j \in NewFrom(n, E) : f <= j
        BY <3>1
      <4> QED BY <1>1, <1>2, <1>4, <3>3, <4>1, SameTermBefore
    <3>5. Links(0, SubSeq(log[n], 1, k) \o SubSeq(E, f, Len(E)))
            \subseteq Links(0, log[n]) \cup Links(m.prevTerm, E)
      BY <1>3, <3>4, JoinedLinks
    <3>6. log'[n] = SubSeq(log[n], 1, k) \o SubSeq(E, f, Len(E)) /\ \A p \in Nodes : p # n => log'[p] = log[p]
      BY <1>1, <1>3, <3>1 DEF LogTypes
    <3>7. Links(0, log[n]) \subseteq Seen /\ Links(m.prevTerm, E) \subseteq Seen
      BY <1>3, InSeen
    <3> QED BY <3>5, <3>6, <3>7
  <2> QED BY <1>1, <1>3, <2>1, <2>2, AcceptShape
<1>7. \A a \in Seen' : a \in Seen
  <2> SUFFICES ASSUME NEW a \in Seen', a \notin Seen PROVE FALSE
    OBVIOUS
  <2>1. PICK p \in Nodes : a \in Links(0, log'[p])
    BY <1>5
  <2>2. p # n
    BY <1>6, <2>1
  <2> QED BY <1>6, <2>1, <2>2, InSeen
<1>8. \A p \in Nodes : role[p] = "leader" /\ role'[p] = "leader" => LastIndex(p)' = LastIndex(p)
  BY <1>4, <1>6 DEF LastIndex
<1> QED BY <1>5, <1>7, <1>8, NothingMade

\* A step that changes no log.
LEMMA MatchQuiet ==
  ASSUME TypeOK', VoteInv, VoteInv', MatchInv, UNCHANGED <<log, snapshot>>,
         elections \subseteq elections', \A p \in Nodes : currentTerm'[p] >= currentTerm[p],
         \A m \in network' : m \in network \/ Sent(m)
  PROVE  MatchInv'
<1>1. NothingFolded'
  BY DEF NothingFolded, MatchInv, Uncompacted
<1>2. Uncompacted' /\ \A a \in Seen' : a \in Seen \/ \E p \in Nodes : a \in Links(0, log'[p])
  BY <1>1, SeenAfter
<1>3. \A a \in Seen' : a \in Seen
  BY <1>2, InSeen
<1>4. \A p \in Nodes : LastIndex(p)' = LastIndex(p)
  BY DEF LastIndex
<1> QED BY <1>2, <1>3, <1>4, NothingMade

\* No election is forgotten, and no node goes back in its terms unless its
\* process is started anew.
LEMMA TermsGrow ==
  ASSUME BaseInv, restarts' = 0, [Next]_vars
  PROVE  elections \subseteq elections' /\ \A p \in Nodes : currentTerm'[p] >= currentTerm[p]
<1> DEFINE Grow == elections \subseteq elections' /\ \A p \in Nodes : currentTerm'[p] >= currentTerm[p]
<1>1. VoteTypes /\ BoxTypes /\ network \subseteq Messages
  BY TypeParts DEF BaseInv
<1>2. \A p \in Nodes : currentTerm[p] \in Nat
  BY <1>1 DEF VoteTypes
<1>3. ASSUME UNCHANGED <<currentTerm, elections>> PROVE Grow
  BY <1>2, <1>3
<1>4. ASSUME NEW n \in Nodes, NEW t \in Nat, t >= currentTerm[n], UNCHANGED elections,
             currentTerm' = [currentTerm EXCEPT ![n] = t]
      PROVE  Grow
  BY <1>1, <1>2, <1>4 DEF VoteTypes
<1>5. ASSUME NEW n \in Nodes, StartElection(n) PROVE Grow
  BY <1>1, <1>2, <1>5 DEF StartElection, BecomeLeader, VoteTypes
<1>6. ASSUME NEW n \in Nodes, Heartbeat(n) PROVE Grow
  BY <1>3, <1>6 DEF Heartbeat, voteVars
<1>7. ASSUME NEW n \in Nodes, Restart(n) PROVE Grow
  BY <1>1, <1>7 DEF Restart, BoxTypes
<1>8. ASSUME NEW n, NEW c, Propose(n, c) PROVE Grow
  BY <1>3, <1>8 DEF Propose, voteVars
<1>9. ASSUME NEW n \in Nodes, NEW i, Compact(n, i) PROVE Grow
  BY <1>3, <1>9 DEF Compact, voteVars
<1>10. ASSUME NEW m \in network, Handle(m) PROVE Grow
  <2>1. m.dst \in Nodes /\ m.term \in Nat
    BY <1>1, MessageFields
  <2>2. CASE OnRequestVote(m)
    <3>1. CASE m.term > currentTerm[m.dst]
      BY <1>2, <1>4, <2>1, <2>2, <3>1 DEF OnRequestVote
    <3>2. CASE ~ (m.term > currentTerm[m.dst])
      BY <1>1, <1>2, <1>3, <2>1, <2>2, <3>2 DEF OnRequestVote, VoteTypes
    <3> QED BY <3>1, <3>2
  <2>3. CASE OnVoteReply(m)
    BY <1>2, <2>3 DEF OnVoteReply, BecomeLeader
  <2>4. ASSUME FollowLeader(m.dst, m.term), ~ (m.term < currentTerm[m.dst]), UNCHANGED elections
        PROVE  Grow
    <3>1. m.term >= currentTerm[m.dst]
      BY <1>2, <2>1, <2>4
    <3>2. CASE BecomeFollower(m.dst, m.term)
      BY <1>4, <2>1, <2>4, <3>1, <3>2 DEF BecomeFollower
    <3>3. CASE UNCHANGED voteVars
      BY <1>3, <2>4, <3>3 DEF voteVars
    <3> QED BY <2>4, <3>2, <3>3 DEF FollowLeader
  <2>5. CASE OnAppend(m)
    <3>1. CASE m.term < currentTerm[m.dst]
      BY <1>3, <2>5, <3>1 DEF OnAppend, voteVars
    <3>2. CASE ~ (m.term < currentTerm[m.dst])
      BY <2>4, <2>5, <3>2 DEF OnAppend
    <3> QED BY <3>1, <3>2
  <2>6. CASE OnInstallSnapshot(m)
    <3>1. CASE m.term < currentTerm[m.dst]
      BY <1>3, <2>6, <3>1 DEF OnInstallSnapshot, voteVars
    <3>2. CASE ~ (m.term < currentTerm[m.dst])
      BY <2>4, <2>6, <3>2 DEF OnInstallSnapshot
    <3> QED BY <3>1, <3>2
  <2>7. CASE OnAppendReply(m) \/ OnInstallReply(m)
    BY <1>3, <2>7 DEF OnAppendReply, OnInstallReply, voteVars
  <2>8. CASE StepDown(m)
    <3>1. m.term >= currentTerm[m.dst]
      BY <1>2, <2>1, <2>8 DEF StepDown
    <3> QED BY <1>4, <2>1, <2>8, <3>1 DEF StepDown, BecomeFollower
  <2> QED BY <1>10, <2>2, <2>3, <2>5, <2>6, <2>7, <2>8 DEF Handle
<1>11. ASSUME NEW m \in network, Lose(m) PROVE Grow
  BY <1>3, <1>11 DEF Lose, voteVars
<1>12. CASE UNCHANGED vars
  BY <1>3, <1>12 DEF vars, voteVars
<1>13. ASSUME NEW n \in Nodes, NEW p \in Nodes, AddServer(n, p) \/ RemoveServer(n, p) PROVE Grow
  BY <1>8, <1>13 DEF AddServer, RemoveServer, Reconfigure
<1>14. ASSUME NEW n \in Nodes, NEW c \in Commands, ProposeCommand(n, c) PROVE Grow
  BY <1>8, <1>14 DEF ProposeCommand
<1>15. CASE Next
  <2> HIDE DEF Grow
  <2>1. Grow
    BY <1>5, <1>6, <1>7, <1>9, <1>10, <1>11, <1>13, <1>14, <1>15 DEF Next
  <2> QED BY <2>1 DEF Grow
<1> QED BY <1>12, <1>15

LEMMA MatchStep ==
  ASSUME MaxCompactions = 0, BaseInv, BaseInv', LogInv, VoteInv, VoteInv', MatchInv,
         restarts' = 0, [Next]_vars
  PROVE  MatchInv'
<1>1. TypeOK' /\ VoteTypes /\ LogTypes /\ BoxTypes /\ network \subseteq Messages
  BY TypeParts DEF BaseInv
<1>2. elections \subseteq elections' /\ \A p \in Nodes : currentTerm'[p] >= currentTerm[p]
  BY TermsGrow
<1>3. ASSUME UNCHANGED <<log, snapshot>>, \A m \in network' : m \in network \/ Sent(m)
      PROVE  MatchInv'
  BY <1>1, <1>2, <1>3, MatchQuiet
<1>4. ASSUME NEW n \in Nodes, NEW m \in BroadcastAppend(n)' PROVE Sent(m)
  <2>1. PICK p \in Nodes : m = AppendTo(n, p)'
    BY <1>1 DEF BroadcastAppend, Peers, TypeOK
  <2> QED BY <2>1 DEF Sent
<1>5. ASSUME NEW n \in Nodes, StartElection(n) PROVE MatchInv'
  <2>1. \A m \in network' : m \in network \/ \E p, t : m = RequestVote(n, p, t)
    BY <1>5 DEF StartElection, Send
  <2>2. \A p, t : Sent(RequestVote(n, p, t))
    BY DEF Sent, RequestVote
  <2> QED BY <1>3, <1>5, <2>1, <2>2 DEF StartElection, logVars
<1>6. ASSUME NEW n \in Nodes, Heartbeat(n) PROVE MatchInv'
  <2>1. network' = network \cup BroadcastAppend(n) /\ UNCHANGED <<voteVars, logVars, commitVars, leaderVars>>
    BY <1>6 DEF Heartbeat, Send
  <2>2. BroadcastAppend(n)' = BroadcastAppend(n)
    BY <2>1 DEF BroadcastAppend, Peers, AppendTo, LastIndex, TermAt, HasEntry, EntryAt,
                voteVars, logVars, commitVars, leaderVars
  <2>3. \A m \in network' : m \in network \/ Sent(m)
    BY <1>4, <2>1, <2>2
  <2> QED BY <1>3, <2>1, <2>3 DEF logVars
<1>7. ASSUME NEW n \in Nodes, Restart(n) PROVE MatchInv'
  BY <1>1, <1>7 DEF Restart, BoxTypes
<1>8. ASSUME NEW n \in Nodes, NEW i, Compact(n, i) PROVE MatchInv'
  BY <1>1, <1>8 DEF Compact, BoxTypes
<1>9. ASSUME NEW n \in Nodes, NEW c \in Commands \cup SUBSET Nodes, Propose(n, c) PROVE MatchInv'
  BY <1>1, <1>9, MatchPropose
<1>10. ASSUME NEW n \in Nodes, NEW p \in Nodes, AddServer(n, p) \/ RemoveServer(n, p) PROVE MatchInv'
  <2>1. members[n] \in SUBSET Nodes
    BY <1>1 DEF LogTypes
  <2>2. /\ members[n] \cup {p} \in Commands \cup SUBSET Nodes
        /\ members[n] \ {p} \in Commands \cup SUBSET Nodes
    BY <2>1
  <2>3. Propose(n, members[n] \cup {p}) \/ Propose(n, members[n] \ {p})
    BY <1>10 DEF AddServer, RemoveServer, Reconfigure
  <2> QED BY <1>9, <2>2, <2>3
<1>11. ASSUME NEW n \in Nodes, NEW c \in Commands, ProposeCommand(n, c) PROVE MatchInv'
  BY <1>9, <1>11 DEF ProposeCommand
<1>12. ASSUME NEW m \in network, Handle(m) PROVE MatchInv'
  <2>1. m.dst \in Nodes /\ m.src \in Nodes /\ m.term \in Nat
    BY <1>1, MessageFields
  <2>2. \A p, t : /\ \A g : Sent(RequestVoteReply(m.dst, p, t, g))
                  /\ \A g, i, c : Sent(AppendReply(m.dst, p, t, g, i, c))
                  /\ \A i : Sent(InstallReply(m.dst, p, t, i))
    BY DEF Sent, RequestVoteReply, AppendReply, InstallReply
  <2>3. ASSUME NEW out, Deliver(m, out), \A x \in out : Sent(x)
        PROVE  \A x \in network' : x \in network \/ Sent(x)
    BY <2>3 DEF Deliver
  <2>4. CASE OnRequestVote(m)
    <3>1. PICK t, g : Deliver(m, {RequestVoteReply(m.dst, m.src, t, g)})
      BY <2>4 DEF OnRequestVote
    <3>2. \A x \in network' : x \in network \/ Sent(x)
      BY <2>2, <2>3, <3>1
    <3> QED BY <1>3, <2>4, <3>2 DEF OnRequestVote, logVars
  <2>5. CASE OnVoteReply(m)
    <3>1. \A x \in network' : x \in network \/ x \in BroadcastAppend(m.dst)'
      BY <2>5 DEF OnVoteReply, Deliver
    <3> QED BY <1>3, <1>4, <2>1, <2>5, <3>1 DEF OnVoteReply, logVars
  <2>6. CASE OnAppendReply(m) \/ OnInstallReply(m)
    <3>1. \A x \in network' : x \in network \/ x = AppendTo(m.dst, m.src)'
      BY <2>6 DEF OnAppendReply, OnInstallReply, Deliver
    <3>2. Sent(AppendTo(m.dst, m.src)')
      BY <2>1 DEF Sent
    <3> QED BY <1>3, <2>6, <3>1, <3>2 DEF OnAppendReply, OnInstallReply, logVars
  <2>7. CASE StepDown(m)
    <3>1. \A x \in network' : x \in network
      BY <2>7 DEF StepDown, Deliver
    <3> QED BY <1>3, <2>7, <3>1 DEF StepDown, logVars
  <2>8. CASE OnInstallSnapshot(m)
    <3>1. PICK t, i : Deliver(m, {InstallReply(m.dst, m.src, t, i)})
      BY <2>8 DEF OnInstallSnapshot
    <3>2. \A x \in network' : x \in network \/ Sent(x)
      BY <2>2, <2>3, <3>1
    <3>3. ~ (m.snapshot.index > snapshot[m.dst].index)
      <4>1. m.snapshot.index = 0 /\ snapshot[m.dst].index = 0
        BY <2>1, <2>8 DEF MatchInv, Uncompacted, Whole, OnInstallSnapshot
      <4> QED BY <4>1
    <3>4. UNCHANGED <<log, snapshot>>
      BY <2>8, <3>3 DEF OnInstallSnapshot, logVars
    <3> QED BY <1>3, <3>2, <3>4
  <2>9. CASE OnAppend(m)
    <3>1. ASSUME NEW t, NEW c, RejectAppend(m, t, c) PROVE MatchInv'
      <4>1. PICK g, i : Deliver(m, {AppendReply(m.dst, m.src, t, g, i, c)})
        BY <3>1 DEF RejectAppend
      <4>2. Sent(AppendReply(m.dst, m.src, t, g, i, c))
        BY <2>2
      <4>3. \A x \in network' : x \in network \/ Sent(x)
        BY <2>3, <4>1, <4>2
      <4> QED BY <1>3, <3>1, <4>3 DEF RejectAppend, logVars
    <3>2. CASE m.term < currentTerm[m.dst]
      BY <2>9, <3>1, <3>2 DEF OnAppend
    <3>3. CASE ~ (m.term < currentTerm[m.dst]) /\ ~ Consistent(m.dst, m)
      BY <2>9, <3>1, <3>3 DEF OnAppend
    <3>4. CASE ~ (m.term < currentTerm[m.dst]) /\ Consistent(m.dst, m)
      <4>1. FollowLeader(m.dst, m.term) /\ AcceptAppend(m) /\ m.type = "AppendEntries" /\ UNCHANGED elections
        BY <2>9, <3>4 DEF OnAppend
      <4>2. role'[m.dst] # "leader"
        BY <1>1, <2>1, <4>1, FollowLeaderTypes
      <4> QED BY <1>1, <1>2, <3>4, <4>1, <4>2, MatchAccept
    <3> QED BY <3>2, <3>3, <3>4
  <2> QED BY <1>12, <2>4, <2>5, <2>6, <2>7, <2>8, <2>9 DEF Handle
<1>13. ASSUME NEW m \in network, Lose(m) PROVE MatchInv'
  <2>1. \A x \in network' : x \in network
    BY <1>13 DEF Lose
  <2> QED BY <1>3, <1>13, <2>1 DEF Lose, logVars
<1>14. CASE UNCHANGED vars
  BY <1>3, <1>14 DEF vars, logVars
<1> QED BY <1>5, <1>6, <1>7, <1>8, <1>10, <1>11, <1>12, <1>13, <1>14 DEF Next

LEMMA MatchInit == Init => MatchInv
<1> SUFFICES ASSUME Init PROVE MatchInv
  OBVIOUS
<1>1. /\ network = {} /\ \A n \in Nodes : log[n] = <<>> /\ role[n] = "follower"
      /\ \A n \in Nodes : snapshot[n].index = 0 /\ snapshot[n].term = 0
  BY DEF Init
<1>2. \A a : a \notin Seen
  <2>1. \A i : i \notin 1..Len(<<>>)
    BY EmptySeq
  <2>2. \A n \in Nodes : \A a : a \notin Links(0, log[n])
    BY <1>1, <2>1 DEF Links
  <2> QED BY <1>1, <2>2, InSeen
<1> QED BY <1>1, <1>2 DEF MatchInv, Uncompacted, Unique, MadeByLeader

\* From an entry that two logs share, back to the beginning: each pair of equal
\* links gives the terms, and so the links, before it.
LEMMA LinksMatch == BaseInv /\ LogInv /\ MatchInv => LogMatching
<1> SUFFICES ASSUME BaseInv, LogInv, MatchInv, NEW n \in Nodes, NEW p \in Nodes,
                    NEW i \in DOMAIN log[n], NEW j \in DOMAIN log[p],
                    log[n][i].index = log[p][j].index, log[n][i].term = log[p][j].term,
                    NEW d \in 0..Min({i, j}) - 1
             PROVE  log[n][i - d] = log[p][j - d]
  BY DEF LogMatching
<1>1. log[n] \in Seq(Entries) /\ log[p] \in Seq(Entries)
  BY TypeParts DEF BaseInv, LogTypes
<1>2. /\ DOMAIN log[n] = 1..Len(log[n]) /\ DOMAIN log[p] = 1..Len(log[p])
      /\ Len(log[n]) \in Nat /\ Len(log[p]) \in Nat
  BY <1>1, LenProperties
<1>3. \A r \in Nodes : \A k \in 1..Len(log[r]) : log[r][k].index = k
  <2>1. \A r \in Nodes : Run(log[r], 0)
    BY DEF LogInv, NodeLogs, MatchInv, Uncompacted
  <2> QED BY <2>1 DEF Run
<1>4. i = j /\ i \in 1..Len(log[n]) /\ i \in 1..Len(log[p])
  BY <1>2, <1>3
<1>5. \A r \in Nodes : \A k \in 1..Len(log[r]) :
        [prev |-> IF k = 1 THEN 0 ELSE log[r][k - 1].term, entry |-> log[r][k]] \in Seen
  BY InLinks, InSeen
<1>6. ASSUME NEW k \in 1..i, log[n][k].term = log[p][k].term
      PROVE  log[n][k] = log[p][k] /\ (k # 1 => log[n][k - 1].term = log[p][k - 1].term)
  <2>1. k \in 1..Len(log[n]) /\ k \in 1..Len(log[p])
    BY <1>2, <1>4
  <2> DEFINE a == [prev |-> IF k = 1 THEN 0 ELSE log[n][k - 1].term, entry |-> log[n][k]]
             b == [prev |-> IF k = 1 THEN 0 ELSE log[p][k - 1].term, entry |-> log[p][k]]
  <2>2. a \in Seen /\ b \in Seen
    BY <1>5, <2>1
  <2>3. a.entry.index = b.entry.index /\ a.entry.term = b.entry.term
    BY <1>3, <1>6, <2>1
  <2>4. a = b
    BY <2>2, <2>3 DEF MatchInv, Unique
  <2>5. a.entry = b.entry /\ a.prev = b.prev
    BY <2>4
  <2> QED BY <2>5
<1> DEFINE Bad == {e \in 0..i - 1 : log[n][i - e].term # log[p][i - e].term}
<1>7. Bad = {}
  <2> SUFFICES ASSUME Bad # {} PROVE FALSE
    OBVIOUS
  <2>1. Bad \in SUBSET Nat
    BY <1>2, <1>4
  <2>2. PICK e \in Bad : \A x \in Bad : e <= x
    BY <2>1, MinOfNat
  <2>3. CASE e = 0
    <3>1. i - e = i
      BY <1>2, <1>4, <2>3
    <3>2. log[n][i].term # log[p][i].term
      BY <2>2, <3>1
    <3> QED BY <1>4, <3>2
  <2>4. CASE e # 0
    <3>0. e \in Int /\ e >= 0 /\ e <= i - 1 /\ i \in Int
      BY <1>2, <1>4
    <3>1. e - 1 \in 0..i - 1 /\ ~ (e <= e - 1) /\ i - (e - 1) \in 1..i /\ i - (e - 1) # 1
          /\ (i - (e - 1)) - 1 = i - e
      BY <2>4, <3>0
    <3>2. log[n][i - (e - 1)].term = log[p][i - (e - 1)].term
      BY <2>2, <3>1
    <3>3. log[n][i - e].term = log[p][i - e].term
      BY <1>6, <3>1, <3>2
    <3> QED BY <3>3
  <2> QED BY <2>3, <2>4
<1>8. d \in 0..i - 1
  <2>1. i \in Nat /\ {i, j} = {i}
    BY <1>2, <1>4
  <2>2. Min({i, j}) = i
    BY <2>1, MinOfTwo
  <2> QED BY <2>2
<1>9. i - d \in 1..i /\ log[n][i - d].term = log[p][i - d].term
  BY <1>2, <1>4, <1>7, <1>8
<1> QED BY <1>4, <1>6, <1>9

\* In a cluster whose membership stays as it is, whose processes keep running
\* and that does not compact, logs that share an entry are the same up to it:
\* the consistency check and the truncation of _on_append, for any loss,
\* reordering and repetition of messages.
THEOREM LogsMatch == MaxCompactions = 0 => (Spec /\ []Stable => []LogMatching)
<1> SUFFICES ASSUME MaxCompactions = 0 PROVE Spec /\ []Stable => []LogMatching
  OBVIOUS
<1>1. BaseInv => CompactsHeld
  BY TypeParts DEF BaseInv, BoxTypes, CompactsHeld, Compact
<1>2. VoteInv /\ Stable /\ Stable' /\ [Next]_vars => VoteInv'
  BY VoteStep
<1>3. /\ BaseInv /\ BaseInv' /\ LogInv /\ VoteInv /\ VoteInv' /\ MatchInv /\ Stable' /\ [Next]_vars
      => MatchInv'
  BY MatchStep DEF Stable
<1>4. Spec => [][CompactsHeld]_vars
  BY <1>1, BaseInvariance, PTL
<1>5. Spec /\ []Stable => []VoteInv
  BY <1>2, VoteInit, PTL DEF Spec
<1>6. Spec /\ []Stable => []MatchInv
  BY <1>3, <1>4, <1>5, MatchInit, BaseInvariance, LogInvariance, PTL DEF Spec
<1> QED BY <1>4, <1>6, LinksMatch, BaseInvariance, LogInvariance, PTL
=============================================================================
