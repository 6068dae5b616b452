-------------------------- MODULE RaftServiceProofs --------------------------
(***************************************************************************)
(* Proofs about RaftService, for all nodes, clients, loops and bounds: the *)
(* handlers of a node exclude each other, no thread waits for a lock while *)
(* it holds one, and a service has one tick loop.                          *)
(***************************************************************************)
EXTENDS RaftService, TLAPS

-----------------------------------------------------------------------------
(* The inductive invariant. *)

CallType ==
  [out : SUBSET Nodes, more : SUBSET Nodes, peer : Nodes \cup {Free}, replies : Int, rounds : Int]

Places ==
  {"idle", "enter", "inside", "send", "reach", "receive", "handle", "handling"}

TypeInv ==
  /\ lock \in [Nodes -> Threads \cup {Free}]
  /\ pc \in [Threads -> Places] /\ call \in [Threads -> CallType]
  /\ running \subseteq Loops /\ thread \in [Nodes -> Loops \cup {NoLoop}]
  /\ stopping \in [Nodes -> BOOLEAN] /\ joining \subseteq Nodes

\* A thread on its way to a peer knows which.
PeerInv == \A t \in Threads : pc[t] \in {"reach", "receive"} => call[t].peer \in Nodes

\* The holder of a lock is the thread that works on the node.
LockInv == \A t \in Threads, n \in Nodes : lock[n] = t <=> n \in WorksOn(t)

\* A loop that has not returned is the one its service knows of, unless a join
\* gave up on it.
LoopInv == ~JoinTimesOut => \A l \in running : thread[Home[l]] = l

IndInv == TypeInv /\ PeerInv /\ LockInv /\ LoopInv

-----------------------------------------------------------------------------
LEMMA InitInd == Init => IndInv
BY ServiceAssumption
   DEF Init, IndInv, TypeInv, PeerInv, LockInv, LoopInv, WorksOn, CallType, NoCall, Places, Threads

\* The three ways a thread moves: it takes a lock, it works on without one, it
\* gives a lock back.
LEMMA Moves ==
  ASSUME TypeInv, PeerInv, LockInv, NEW t \in Threads,
         NEW p \in Places, NEW c \in CallType,
         pc' = [pc EXCEPT ![t] = p], call' = [call EXCEPT ![t] = c],
         p \in {"reach", "receive"} => c.peer \in Nodes,
         \/ /\ p \in {"inside", "handling"} /\ WorksOn(t) = {} /\ Acquire(t, Home[t])
         \/ /\ p = "receive" /\ WorksOn(t) = {} /\ Acquire(t, c.peer)
         \/ /\ p \in {"idle", "enter", "send", "reach", "handle"} /\ WorksOn(t) = {} /\ lock' = lock
         \/ /\ p \in {"idle", "enter", "send", "reach", "handle"}
            /\ \E n \in Nodes : WorksOn(t) = {n} /\ lock' = [lock EXCEPT ![n] = Free]
  PROVE  PeerInv' /\ LockInv' /\ pc' \in [Threads -> Places] /\ call' \in [Threads -> CallType]
         /\ lock' \in [Nodes -> Threads \cup {Free}]
<1>1. Home[t] \in Nodes /\ Free \notin Threads
  BY ServiceAssumption
<1>2. pc' \in [Threads -> Places] /\ call' \in [Threads -> CallType]
      /\ lock' \in [Nodes -> Threads \cup {Free}] /\ PeerInv'
  BY <1>1 DEF TypeInv, PeerInv, Acquire
<1>3. \A u \in Threads : u # t => WorksOn(u)' = WorksOn(u)
  BY DEF WorksOn, TypeInv
<1>4. WorksOn(t)' = {n \in Nodes : \/ p \in {"inside", "handling"} /\ n = Home[t]
                                   \/ p = "receive" /\ n = c.peer}
  <2>1. pc'[t] = p /\ call'[t] = c
    BY DEF TypeInv
  <2> QED BY <2>1 DEF WorksOn
<1>5. LockInv'
  <2> SUFFICES ASSUME NEW u \in Threads, NEW n \in Nodes
               PROVE  lock'[n] = u <=> n \in WorksOn(u)'
    BY DEF LockInv
  <2>1. lock[n] = u <=> n \in WorksOn(u)
    BY DEF LockInv
  <2>2. lock[n] = t <=> n \in WorksOn(t)
    BY DEF LockInv
  <2>3. CASE u = t
    <3>1. CASE p \in {"inside", "handling"} /\ WorksOn(t) = {} /\ Acquire(t, Home[t])
      BY <1>1, <1>4, <2>2, <2>3, <3>1 DEF TypeInv, Acquire
    <3>2. CASE p = "receive" /\ WorksOn(t) = {} /\ Acquire(t, c.peer)
      BY <1>1, <1>4, <2>2, <2>3, <3>2 DEF TypeInv, Acquire
    <3>3. CASE p \in {"idle", "enter", "send", "reach", "handle"} /\ WorksOn(t) = {} /\ lock' = lock
      BY <1>1, <1>4, <2>2, <2>3, <3>3
    <3>4. CASE /\ p \in {"idle", "enter", "send", "reach", "handle"}
               /\ \E m \in Nodes : WorksOn(t) = {m} /\ lock' = [lock EXCEPT ![m] = Free]
      BY <1>1, <1>4, <2>2, <2>3, <3>4 DEF TypeInv
    <3> QED BY <3>1, <3>2, <3>3, <3>4
  <2>4. CASE u # t
    BY <1>1, <1>3, <2>1, <2>2, <2>4 DEF TypeInv, Acquire
  <2> QED BY <2>3, <2>4
<1> QED BY <1>2, <1>5

\* Where a thread may go on after a message or a round.
LEMMA PumpGoes ==
  ASSUME NEW t \in Threads, NEW out \in SUBSET Nodes, NEW k \in Int, PumpOrReturn(t, out, k)
  PROVE  \E p \in {"idle", "send"}, c \in CallType :
           pc' = [pc EXCEPT ![t] = p] /\ call' = [call EXCEPT ![t] = c]
<1>1. NoCall \in CallType /\ [NoCall EXCEPT !.out = out, !.rounds = k] \in CallType
  <2>1. NoCall \in CallType
    BY DEF NoCall, CallType
  <2>2. [NoCall EXCEPT !.out = out] \in CallType
    BY <2>1 DEF CallType
  <2>3. [NoCall EXCEPT !.out = out, !.rounds = k] =
          [[NoCall EXCEPT !.out = out] EXCEPT !.rounds = k]
    BY <2>1 DEF CallType
  <2> QED BY <2>1, <2>2, <2>3 DEF CallType
<1> QED BY <1>1 DEF PumpOrReturn

LEMMA AfterGoes ==
  ASSUME NEW t \in Threads, NEW c \in CallType, AfterMessage(t, c)
  PROVE  \E p \in {"idle", "send", "handle"}, d \in CallType :
           pc' = [pc EXCEPT ![t] = p] /\ call' = [call EXCEPT ![t] = d]
<1>1. CASE c.out # {}
  BY <1>1 DEF AfterMessage
<1>2. CASE c.out = {} /\ c.replies > 0
  BY <1>2 DEF AfterMessage
<1>3. CASE ~(c.out # {}) /\ ~(c.out = {} /\ c.replies > 0)
  <2>1. PumpOrReturn(t, {}, c.rounds + 1)
    BY <1>3 DEF AfterMessage
  <2>2. c.rounds + 1 \in Int /\ {} \in SUBSET Nodes
    BY DEF CallType
  <2> QED BY <2>1, <2>2, PumpGoes
<1> QED BY <1>1, <1>2, <1>3

LEMMA ThreadStepInd ==
  ASSUME IndInv, NEW t \in Threads,
         ClientCall(t) \/ LoopTick(t) \/ AcquireStep(t) \/ OwnStep(t)
  PROVE  IndInv'
<1> USE DEF IndInv
<1>1. UNCHANGED services
  BY DEF ClientCall, LoopTick, Begin, AcquireStep, Enter, Reach, Handle, OwnStep, Leave, Send,
         Receive, Handled
<1>2. SUFFICES PeerInv' /\ LockInv' /\ pc' \in [Threads -> Places]
               /\ call' \in [Threads -> CallType] /\ lock' \in [Nodes -> Threads \cup {Free}]
  BY <1>1 DEF TypeInv, LoopInv, services
<1>3. /\ Home[t] \in Nodes /\ call[t] \in CallType /\ call = [call EXCEPT ![t] = call[t]]
      /\ pc[t] \in {"reach", "receive"} => call[t].peer \in Nodes
  BY ServiceAssumption DEF TypeInv, PeerInv
<1>4. CASE ClientCall(t) \/ LoopTick(t)
  <2>1. pc[t] = "idle" /\ pc' = [pc EXCEPT ![t] = "enter"] /\ UNCHANGED <<lock, call>>
    BY <1>4 DEF ClientCall, LoopTick, Begin
  <2>2. WorksOn(t) = {}
    BY <2>1 DEF WorksOn
  <2> QED BY <1>3, <2>1, <2>2, Moves DEF Places
<1>5. CASE Enter(t)
  <2>1. WorksOn(t) = {}
    BY <1>5 DEF Enter, WorksOn
  <2> QED BY <1>3, <1>5, <2>1, Moves DEF Enter, Places
<1>6. CASE Reach(t)
  <2>1. WorksOn(t) = {}
    BY <1>6 DEF Reach, WorksOn
  <2> QED BY <1>3, <1>6, <2>1, Moves DEF Reach, Places
<1>7. CASE Handle(t)
  <2>1. WorksOn(t) = {}
    BY <1>7 DEF Handle, WorksOn
  <2> QED BY <1>3, <1>7, <2>1, Moves DEF Handle, Places
<1>8. CASE Leave(t)
  <2>1. WorksOn(t) = {Home[t]} /\ lock' = [lock EXCEPT ![Home[t]] = Free]
    BY <1>3, <1>8 DEF Leave, WorksOn
  <2>2. PICK out \in SUBSET Nodes : PumpOrReturn(t, out, 0)
    BY <1>8 DEF Leave
  <2>3. PICK p \in {"idle", "send"}, c \in CallType :
          pc' = [pc EXCEPT ![t] = p] /\ call' = [call EXCEPT ![t] = c]
    <3>1. 0 \in Int
      OBVIOUS
    <3> QED BY <2>2, <3>1, PumpGoes
  <2> QED BY <1>3, <2>1, <2>3, Moves DEF Places
<1>9. CASE Send(t)
  <2>1. WorksOn(t) = {} /\ lock' = lock
    BY <1>9 DEF Send, WorksOn
  <2>2. PICK p \in call[t].out :
          LET rest == [call[t] EXCEPT !.out = @ \ {p}] IN
          \/ AfterMessage(t, rest)
          \/ /\ pc' = [pc EXCEPT ![t] = "reach"]
             /\ call' = [call EXCEPT ![t] = [rest EXCEPT !.peer = p]]
    BY <1>9 DEF Send
  <2> DEFINE rest == [call[t] EXCEPT !.out = @ \ {p}]
  <2>3. rest \in CallType /\ p \in Nodes
    BY <1>3 DEF CallType
  <2>4. CASE AfterMessage(t, rest)
    <3> HIDE DEF rest
    <3>1. PICK q \in {"idle", "send", "handle"}, c \in CallType :
            pc' = [pc EXCEPT ![t] = q] /\ call' = [call EXCEPT ![t] = c]
      BY <2>3, <2>4, AfterGoes
    <3> QED BY <2>1, <3>1, Moves DEF Places
  <2>5. CASE /\ pc' = [pc EXCEPT ![t] = "reach"]
             /\ call' = [call EXCEPT ![t] = [rest EXCEPT !.peer = p]]
    <3>1. [rest EXCEPT !.peer = p] \in CallType /\ [rest EXCEPT !.peer = p].peer = p
      <4> HIDE DEF rest
      <4> QED BY <2>3 DEF CallType
    <3> HIDE DEF rest
    <3> QED BY <2>1, <2>3, <2>5, <3>1, Moves DEF Places
  <2> QED BY <2>2, <2>4, <2>5
<1>10. CASE Receive(t)
  <2>1. WorksOn(t) = {call[t].peer} /\ lock' = [lock EXCEPT ![call[t].peer] = Free]
    BY <1>3, <1>10 DEF Receive, WorksOn
  <2>2. PICK r \in 0..1 : AfterMessage(t, [call[t] EXCEPT !.replies = @ + r, !.peer = Free])
    BY <1>10 DEF Receive
  <2>3. [call[t] EXCEPT !.replies = @ + r, !.peer = Free] \in CallType
    <3>1. r \in Int
      OBVIOUS
    <3>2. [call[t] EXCEPT !.replies = @ + r] \in CallType
      BY <1>3, <3>1 DEF CallType
    <3>3. [call[t] EXCEPT !.replies = @ + r, !.peer = Free] =
            [[call[t] EXCEPT !.replies = @ + r] EXCEPT !.peer = Free]
      BY <1>3 DEF CallType
    <3> QED BY <3>2, <3>3 DEF CallType
  <2>4. PICK p \in {"idle", "send", "handle"}, c \in CallType :
          pc' = [pc EXCEPT ![t] = p] /\ call' = [call EXCEPT ![t] = c]
    BY <2>2, <2>3, AfterGoes
  <2>5. call[t].peer \in Nodes
    BY <1>3, <1>10 DEF Receive
  <2> QED BY <2>1, <2>4, <2>5, Moves DEF Places
<1>11. CASE Handled(t)
  <2>1. WorksOn(t) = {Home[t]} /\ lock' = [lock EXCEPT ![Home[t]] = Free]
    BY <1>3, <1>11 DEF Handled, WorksOn
  <2>2. PICK out \in SUBSET Nodes :
          LET c == [call[t] EXCEPT !.replies = @ - 1, !.more = @ \cup out] IN
          AfterMessage(t, c) \/ PumpOrReturn(t, c.more, c.rounds + 1)
    BY <1>11 DEF Handled
  <2> DEFINE c == [call[t] EXCEPT !.replies = @ - 1, !.more = @ \cup out]
  <2>3. c \in CallType /\ c.more \in SUBSET Nodes /\ c.rounds + 1 \in Int
    <3>1. [call[t] EXCEPT !.replies = @ - 1] \in CallType
      BY <1>3 DEF CallType
    <3>2. c = [[call[t] EXCEPT !.replies = @ - 1] EXCEPT !.more = @ \cup out]
      BY <1>3 DEF CallType
    <3>3. c \in CallType
      BY <3>1, <3>2 DEF CallType
    <3> HIDE DEF c
    <3> QED BY <3>3 DEF CallType
  <2>4. AfterMessage(t, c) \/ PumpOrReturn(t, c.more, c.rounds + 1)
    BY <2>2
  <2> HIDE DEF c
  <2>5. PICK p \in {"idle", "send", "handle"}, d \in CallType :
          pc' = [pc EXCEPT ![t] = p] /\ call' = [call EXCEPT ![t] = d]
    BY <2>3, <2>4, AfterGoes, PumpGoes
  <2> QED BY <1>3, <2>1, <2>5, Moves DEF Places
<1> QED BY <1>4, <1>5, <1>6, <1>7, <1>8, <1>9, <1>10, <1>11 DEF AcquireStep, OwnStep

\* start(), stop() and the end of a loop.
LEMMA ServiceStepInd ==
  ASSUME IndInv, UNCHANGED <<lock, pc, call>>,
         \/ \E n \in Nodes : Start(n) \/ Stop(n) \/ Joined(n) \/ Isolate(n)
         \/ \E l \in Loops : LoopReturn(l)
         \/ Heal
  PROVE  IndInv'
<1> USE DEF IndInv
<1>1. PeerInv' /\ LockInv'
  BY DEF PeerInv, LockInv, WorksOn
<1>2. \A l \in Loops : Home[l] \in Nodes /\ l # NoLoop
  BY ServiceAssumption DEF Threads
<1>3. ASSUME NEW n \in Nodes, Start(n) PROVE TypeInv' /\ LoopInv'
  BY <1>2, <1>3 DEF Start, TypeInv, LoopInv
<1>4. ASSUME NEW n \in Nodes, Stop(n) PROVE TypeInv' /\ LoopInv'
  BY <1>4 DEF Stop, TypeInv, LoopInv
<1>5. ASSUME NEW n \in Nodes, Joined(n) PROVE TypeInv' /\ LoopInv'
  BY <1>2, <1>5 DEF Joined, TypeInv, LoopInv
<1>6. ASSUME UNCHANGED services PROVE TypeInv' /\ LoopInv'
  BY <1>6 DEF services, TypeInv, LoopInv
<1>7. ASSUME NEW l \in Loops, LoopReturn(l) PROVE TypeInv' /\ LoopInv'
  BY <1>7 DEF LoopReturn, TypeInv, LoopInv
<1> QED BY <1>1, <1>3, <1>4, <1>5, <1>6, <1>7 DEF Isolate, Heal

LEMMA NextInd == IndInv /\ [Next]_vars => IndInv'
<1> SUFFICES ASSUME IndInv, [Next]_vars PROVE IndInv'
  OBVIOUS
<1>1. CASE \E t \in Threads : ClientCall(t) \/ LoopTick(t) \/ AcquireStep(t) \/ OwnStep(t)
  BY <1>1, ThreadStepInd
<1>2. CASE \/ \E n \in Nodes : Start(n) \/ Stop(n) \/ Joined(n) \/ Isolate(n)
           \/ \E l \in Loops : LoopReturn(l)
           \/ Heal
  <2>1. UNCHANGED <<lock, pc, call>>
    BY <1>2 DEF Start, Stop, Joined, Isolate, LoopReturn, Heal
  <2> QED BY <1>2, <2>1, ServiceStepInd
<1>3. CASE UNCHANGED vars
  BY <1>3 DEF vars, services, IndInv, TypeInv, PeerInv, LockInv, LoopInv, WorksOn
<1> QED BY <1>1, <1>2, <1>3 DEF Next

LEMMA Invariance == Spec => []IndInv
BY InitInd, NextInd, PTL DEF Spec

-----------------------------------------------------------------------------
\* A handler of a node never runs beside another one, whichever threads of
\* whichever services deliver messages: the reason why Raft and Replica may
\* take every handler as one step.
THEOREM ExclusiveHandlers == Spec => []HandlersExclusive
<1>1. IndInv => HandlersExclusive
  BY DEF IndInv, LockInv, HandlersExclusive, WorksOn
<1> QED BY <1>1, Invariance, PTL

\* No thread waits for a lock while it holds one, at any depth of the pump and
\* for any number of services: threads never block each other for good.
THEOREM NobodyHoldsAndWaits == Spec => []WaitsEmptyHanded
<1>1. IndInv => WaitsEmptyHanded
  BY DEF IndInv, LockInv, WaitsEmptyHanded, WorksOn
<1> QED BY <1>1, Invariance, PTL

\* A service never has two tick loops, unless a join timed out, for any order
\* of start(), stop() and the end of a loop.
THEOREM SingleLoop == Spec => []OneLoop
<1>1. IndInv => OneLoop
  BY DEF IndInv, LoopInv, OneLoop
<1> QED BY <1>1, Invariance, PTL
=============================================================================
