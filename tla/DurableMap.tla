----------------------------- MODULE DurableMap -----------------------------
(***************************************************************************)
(* What a caller of the record store is promised, without logs, memtables  *)
(* or segments: a map from record ids to values that survives crashes.     *)
(* One call runs at a time.  A call takes effect at one instant between    *)
(* its invocation and its return; a crash may come before or after that    *)
(* instant, or coincide with it, and never undoes an effect.  Readers see  *)
(* `view', which after a restart is exactly the map.                       *)
(***************************************************************************)
CONSTANTS Keys, Values, Tombstone

VARIABLES
  map,   \* the value of every key, Tombstone when there is none
  view,  \* what a running process answers to get()
  call,  \* the value the running call wants to store, or NoCall
  up     \* the store is open

vars == <<map, view, call, up>>

NoCall == [key |-> Tombstone, val |-> Tombstone, done |-> TRUE]

Init ==
  /\ map = [k \in Keys |-> Tombstone]
  /\ view = map
  /\ call = NoCall
  /\ up = FALSE

\* A caller asks to store v (Tombstone: to delete) under k.
Invoke(k, v) ==
  /\ up /\ call = NoCall
  /\ call' = [key |-> k, val |-> v, done |-> FALSE]
  /\ UNCHANGED <<map, view, up>>

\* The instant at which the running call takes effect.
TakeEffect ==
  /\ up /\ ~call.done
  /\ map' = [map EXCEPT ![call.key] = call.val]
  /\ view' = map'
  /\ call' = [call EXCEPT !.done = TRUE]
  /\ UNCHANGED up

\* The call returns, or raises when it could not be logged.
Return ==
  /\ up /\ call # NoCall
  /\ call' = NoCall
  /\ UNCHANGED <<map, view, up>>

\* The call takes effect and returns before anything else happens.
TakeEffectAndReturn ==
  /\ up /\ ~call.done
  /\ map' = [map EXCEPT ![call.key] = call.val]
  /\ view' = map'
  /\ call' = NoCall
  /\ UNCHANGED up

\* The process dies or is closed; a call that had not taken effect yet may do so or not.
Crash ==
  /\ \/ map' = map
     \/ ~call.done /\ map' = [map EXCEPT ![call.key] = call.val]
  /\ call' = NoCall
  /\ up' = FALSE
  /\ view' = map'

\* The store is opened again and shows the map as it was left.
Restart ==
  /\ ~up
  /\ up' = TRUE
  /\ view' = map
  /\ UNCHANGED <<map, call>>

Next ==
  \/ \E k \in Keys, v \in Values \cup {Tombstone} : Invoke(k, v)
  \/ TakeEffect \/ Return \/ TakeEffectAndReturn \/ Crash \/ Restart

Spec == Init /\ [][Next]_vars
=============================================================================
