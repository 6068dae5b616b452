------------------------------- MODULE Filter -------------------------------
(***************************************************************************)
(* The metadata filters of annex/query/filter.py.  A metadata value is     *)
(* [type, v]: values of two types are never equal, and to order them is a  *)
(* TypeError in Python, which _cmp answers with False.  A filter is the    *)
(* list of the nodes of its tree, each after its children, which it names  *)
(* by their positions; the root is last.  $contains and $regex, which look *)
(* into strings and lists, are left out.                                   *)
(***************************************************************************)
EXTENDS Integers, Sequences, FiniteSets

\* Nodes: every operator on one field, and combinations of earlier nodes.
Field(f, ops) == [node |-> "field", field |-> f, ops |-> ops]
And(subs) == [node |-> "and", subs |-> subs]
Or(subs) == [node |-> "or", subs |-> subs]
Not(sub) == [node |-> "not", sub |-> sub]
NoFilter == <<And({})>>

Ordered(a, b) == a.type = b.type

\* Mutant: a field that is not there satisfies no comparison at all.
CmpMissingFalse(op, meta, f, rhs) ==
  /\ f \in DOMAIN meta
  /\ CASE op = "$eq" -> meta[f] = rhs
       [] op = "$ne" -> meta[f] # rhs
       [] OTHER -> FALSE

\* _cmp of a field's value, which may be missing, with the right-hand side.
Cmp(op, meta, f, rhs) ==
  LET left == meta[f] IN
  IF op = "$exists" THEN rhs = (f \in DOMAIN meta)
  ELSE IF f \notin DOMAIN meta THEN op \in {"$ne", "$nin"}
  ELSE CASE op = "$eq" -> left = rhs
         [] op = "$ne" -> left # rhs
         [] op = "$gt" -> Ordered(left, rhs) /\ left.v > rhs.v
         [] op = "$gte" -> Ordered(left, rhs) /\ left.v >= rhs.v
         [] op = "$lt" -> Ordered(left, rhs) /\ left.v < rhs.v
         [] op = "$lte" -> Ordered(left, rhs) /\ left.v <= rhs.v
         [] op = "$in" -> left \in rhs
         [] op = "$nin" -> left \notin rhs
         [] op = "$between" -> /\ Ordered(rhs[1], left) /\ rhs[1].v <= left.v
                               /\ Ordered(left, rhs[2]) /\ left.v <= rhs[2].v

\* What a node answers of a document, by the answers of its children.
NodeAccepts(n, meta, accepts) ==
  CASE n.node = "field" -> \A o \in n.ops : Cmp(o[1], meta, n.field, o[2])
    [] n.node = "and" -> \A j \in n.subs : accepts[j]
    [] n.node = "or" -> \E j \in n.subs : accepts[j]
    [] n.node = "not" -> ~accepts[n.sub]

\* compile_filter: the predicate of a filter.
Accepts(filter, meta) ==
  LET accepts[i \in DOMAIN filter] == NodeAccepts(filter[i], meta, accepts)
  IN accepts[Len(filter)]
=============================================================================
