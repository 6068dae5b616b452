---------------------------- MODULE RaftService ----------------------------
(***************************************************************************)
(* The threads around the nodes of a cluster (annex/cluster/service.py and *)
(* transport.py): client calls and tick loops, the lock of each service,   *)
(* and the pump that delivers messages and handles the answers.            *)
(*                                                                         *)
(* What a node answers is the subject of Raft; here a handled message may  *)
(* have an answer or none, and a handled answer any messages to the peers. *)
(* A thread that delivers a message takes the lock of the receiver, which  *)
(* is what a direct hand-off does, and a POST in the server it reaches.    *)
(***************************************************************************)
EXTENDS Integers, FiniteSets

CONSTANTS
  Nodes, Clients, Loops,
  Home,          \* the node a thread belongs to
  Free, NoLoop,
  MaxPumpRounds, \* max_pump_rounds
  JoinTimesOut,  \* stop() may give up waiting for a loop that is busy
  MaxCuts        \* bound: calls of isolate()

Threads == Clients \cup Loops

ASSUME ServiceAssumption ==
  /\ Home \in [Threads -> Nodes] /\ Clients \cap Loops = {} /\ Free \notin Threads
  /\ NoLoop \notin Loops /\ MaxPumpRounds \in Nat /\ JoinTimesOut \in BOOLEAN /\ MaxCuts \in Nat

VARIABLES
  lock,      \* node -> the thread that holds _lock
  pc,        \* thread -> where it is in its call
  call,      \* thread -> the variables of _pump: messages of this round and of
             \* the next, receiver, answers not yet handled, rounds
  running,   \* the loops that have not returned
  thread,    \* _thread: node -> loop
  stopping,  \* _stop: node -> the event is set
  joining,   \* the nodes whose stop() waits for the loop
  dropped,   \* the isolated nodes
  cuts

services == <<running, thread, stopping, joining>>
vars == <<lock, pc, call, services, dropped, cuts>>

NoCall == [out |-> {}, more |-> {}, peer |-> Free, replies |-> 0, rounds |-> 0]

Init ==
  /\ lock = [n \in Nodes |-> Free]
  /\ pc = [t \in Threads |-> "idle"] /\ call = [t \in Threads |-> NoCall]
  /\ running = {} /\ thread = [n \in Nodes |-> NoLoop]
  /\ stopping = [n \in Nodes |-> FALSE] /\ joining = {}
  /\ dropped = {} /\ cuts = 0

-----------------------------------------------------------------------------
(* Calls *)

Begin(t) ==
  /\ pc[t] = "idle" /\ pc' = [pc EXCEPT ![t] = "enter"]
  /\ UNCHANGED <<lock, call, services, dropped, cuts>>

\* tick, propose, add_server, remove_server, compact, state and receive, called
\* by a client; a loop calls tick until it finds the event set.
ClientCall(c) == c \in Clients /\ Begin(c)
LoopTick(l) == l \in running /\ ~stopping[Home[l]] /\ Begin(l)

\* A _lock is re-entrant.
Acquire(t, n) == lock[n] \in {Free, t} /\ lock' = [lock EXCEPT ![n] = t]

Enter(t) ==
  /\ pc[t] = "enter" /\ Acquire(t, Home[t])
  /\ pc' = [pc EXCEPT ![t] = "inside"]
  /\ UNCHANGED <<call, services, dropped, cuts>>

\* The loop of _pump goes on while there is something to send, for some rounds.
PumpOrReturn(t, out, rounds) ==
  IF out # {} /\ rounds < MaxPumpRounds
  THEN /\ pc' = [pc EXCEPT ![t] = "send"]
       /\ call' = [call EXCEPT ![t] = [NoCall EXCEPT !.out = out, !.rounds = rounds]]
  ELSE pc' = [pc EXCEPT ![t] = "idle"] /\ call' = [call EXCEPT ![t] = NoCall]

\* Mutant: the messages are pumped with the lock still held.
LeaveLocked(t) ==
  /\ pc[t] = "inside"
  /\ \E out \in SUBSET (Nodes \ {Home[t]}) :
       /\ PumpOrReturn(t, out, 0)
       /\ lock' = IF pc'[t] = "idle" THEN [lock EXCEPT ![Home[t]] = Free] ELSE lock
  /\ UNCHANGED <<services, dropped, cuts>>

\* The node has done its work: the lock is released before anything is sent.
Leave(t) ==
  /\ pc[t] = "inside" /\ lock' = [lock EXCEPT ![Home[t]] = Free]
  /\ \E out \in SUBSET (Nodes \ {Home[t]}) : PumpOrReturn(t, out, 0)
  /\ UNCHANGED <<services, dropped, cuts>>

\* A round is over when all is sent and all answers are handled.
AfterMessage(t, c) ==
  CASE c.out # {} -> pc' = [pc EXCEPT ![t] = "send"] /\ call' = [call EXCEPT ![t] = c]
    [] c.out = {} /\ c.replies > 0 -> pc' = [pc EXCEPT ![t] = "handle"] /\ call' = [call EXCEPT ![t] = c]
    [] OTHER -> PumpOrReturn(t, {}, c.rounds + 1)

\* Transport.send takes the next message.  To or from an isolated node, or to a
\* peer that does not answer, it is dropped.
Send(t) ==
  /\ pc[t] = "send"
  /\ \E p \in call[t].out :
       LET rest == [call[t] EXCEPT !.out = @ \ {p}] IN
       \/ {p, Home[t]} \cap dropped # {} /\ AfterMessage(t, rest)
       \/ /\ {p, Home[t]} \cap dropped = {}
          /\ pc' = [pc EXCEPT ![t] = "reach"]
          /\ call' = [call EXCEPT ![t] = [rest EXCEPT !.peer = p]]
  /\ UNCHANGED <<lock, services, dropped, cuts>>

\* Mutant: receive() does not take the lock.
ReachUnlocked(t) ==
  /\ pc[t] = "reach" /\ pc' = [pc EXCEPT ![t] = "receive"]
  /\ UNCHANGED <<lock, call, services, dropped, cuts>>
\* receive, in the service of the peer.
Reach(t) ==
  /\ pc[t] = "reach" /\ Acquire(t, call[t].peer)
  /\ pc' = [pc EXCEPT ![t] = "receive"]
  /\ UNCHANGED <<call, services, dropped, cuts>>

Receive(t) ==
  /\ pc[t] = "receive" /\ lock' = [lock EXCEPT ![call[t].peer] = Free]
  /\ \E r \in 0..1 : AfterMessage(t, [call[t] EXCEPT !.replies = @ + r, !.peer = Free])
  /\ UNCHANGED <<services, dropped, cuts>>

\* An answer is handled under the own lock again.
Handle(t) ==
  /\ pc[t] = "handle" /\ Acquire(t, Home[t])
  /\ pc' = [pc EXCEPT ![t] = "handling"]
  /\ UNCHANGED <<call, services, dropped, cuts>>

\* Mutant: the rounds are not counted.
HandledUncounted(t) ==
  /\ pc[t] = "handling" /\ lock' = [lock EXCEPT ![Home[t]] = Free]
  /\ \E out \in SUBSET (Nodes \ {Home[t]}) :
       LET c == [call[t] EXCEPT !.replies = @ - 1, !.more = @ \cup out] IN
       IF c.replies > 0 THEN AfterMessage(t, c) ELSE PumpOrReturn(t, c.more, c.rounds)
  /\ UNCHANGED <<services, dropped, cuts>>

Handled(t) ==
  /\ pc[t] = "handling" /\ lock' = [lock EXCEPT ![Home[t]] = Free]
  /\ \E out \in SUBSET (Nodes \ {Home[t]}) :
       LET c == [call[t] EXCEPT !.replies = @ - 1, !.more = @ \cup out] IN
       IF c.replies > 0 THEN AfterMessage(t, c) ELSE PumpOrReturn(t, c.more, c.rounds + 1)
  /\ UNCHANGED <<services, dropped, cuts>>

-----------------------------------------------------------------------------
(* The background thread, started and stopped by one controlling thread *)

Start(n) ==
  /\ n \notin joining /\ thread[n] = NoLoop
  /\ \E l \in Loops \ running :
       /\ Home[l] = n
       /\ running' = running \cup {l} /\ thread' = [thread EXCEPT ![n] = l]
  /\ stopping' = [stopping EXCEPT ![n] = FALSE]
  /\ UNCHANGED <<lock, pc, call, joining, dropped, cuts>>

Stop(n) ==
  /\ n \notin joining
  /\ stopping' = [stopping EXCEPT ![n] = TRUE]
  /\ joining' = IF thread[n] = NoLoop THEN joining ELSE joining \cup {n}
  /\ UNCHANGED <<lock, pc, call, running, thread, dropped, cuts>>

\* Mutant: stop() does not wait for the loop.
JoinedAtOnce(n) ==
  /\ n \in joining /\ joining' = joining \ {n}
  /\ thread' = [thread EXCEPT ![n] = NoLoop]
  /\ UNCHANGED <<lock, pc, call, running, stopping, dropped, cuts>>

\* join(timeout=2.0), and the thread is forgotten.
Joined(n) ==
  /\ n \in joining /\ (thread[n] \notin running \/ JoinTimesOut)
  /\ joining' = joining \ {n}
  /\ thread' = [thread EXCEPT ![n] = NoLoop]
  /\ UNCHANGED <<lock, pc, call, running, stopping, dropped, cuts>>

LoopReturn(l) ==
  /\ l \in running /\ pc[l] = "idle" /\ stopping[Home[l]]
  /\ running' = running \ {l}
  /\ UNCHANGED <<lock, pc, call, thread, stopping, joining, dropped, cuts>>

\* isolate and heal of the in-process transport; a peer that cannot be reached.
Isolate(n) ==
  /\ cuts < MaxCuts /\ cuts' = cuts + 1 /\ dropped' = dropped \cup {n}
  /\ UNCHANGED <<lock, pc, call, services>>
Heal ==
  /\ dropped # {} /\ dropped' = {}
  /\ UNCHANGED <<lock, pc, call, services, cuts>>

-----------------------------------------------------------------------------
AcquireStep(t) == Enter(t) \/ Reach(t) \/ Handle(t)
OwnStep(t) == Leave(t) \/ Send(t) \/ Receive(t) \/ Handled(t)

Next ==
  \/ \E t \in Threads : ClientCall(t) \/ LoopTick(t) \/ AcquireStep(t) \/ OwnStep(t)
  \/ \E n \in Nodes : Start(n) \/ Stop(n) \/ Joined(n) \/ Isolate(n)
  \/ \E l \in Loops : LoopReturn(l)
  \/ Heal

Spec == Init /\ [][Next]_vars

\* Threads keep running, and a loop sleeps between two ticks: who waits for a
\* lock that is released again and again gets it.
FairSpec ==
  /\ Spec
  /\ \A t \in Threads : WF_vars(OwnStep(t)) /\ SF_vars(AcquireStep(t))
  /\ \A l \in Loops : WF_vars(LoopTick(l) \/ LoopReturn(l))
  /\ \A n \in Nodes : WF_vars(Joined(n))

-----------------------------------------------------------------------------
(* Properties *)

\* Every call returns, however the answers of the peers go on: the pump gives
\* up after some rounds, and no two threads wait for each other's lock.
CallsReturn == \A t \in Threads : pc[t] # "idle" ~> pc[t] = "idle"

\* stop() ends the loop, in the middle of a round or not.
StopEnds == \A n \in Nodes : n \in joining ~> n \notin joining

\* The nodes whose RaftNode a thread is working on.
WorksOn(t) ==
  {n \in Nodes : \/ pc[t] \in {"inside", "handling"} /\ n = Home[t]
                 \/ pc[t] = "receive" /\ n = call[t].peer}

\* A handler has its node to itself, whether a client, the loop or the pump of
\* another service called it: each handler of a node is one step.
HandlersExclusive == \A t, u \in Threads : t # u => WorksOn(t) \cap WorksOn(u) = {}

\* Who waits for a lock holds none, in the middle of a pump too: there is no
\* circle of services that wait for each other.
WaitsEmptyHanded ==
  \A t \in Threads : pc[t] \in {"enter", "reach", "handle"} => \A n \in Nodes : lock[n] # t

\* A service never has two tick loops, unless a join timed out.
OneLoop == ~JoinTimesOut => \A l, m \in running : Home[l] = Home[m] => l = m
=============================================================================
