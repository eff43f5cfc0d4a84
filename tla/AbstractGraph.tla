---------------------------- MODULE AbstractGraph ----------------------------
(***************************************************************************)
(* What GenericGraph<MutableEdgeNode> promises its callers (spec.md 3,     *)
(* 4.3, 4.4): a set of owned nodes, a set of labelled edges with at most   *)
(* one edge per ordered pair and one label allocation per edge, and an     *)
(* optional entry node.  Edges appear and disappear whole; adding a        *)
(* duplicate edge is a fatal error; removing a node removes its edges.     *)
(* Edge order and the two halves of an edge are not visible here.          *)
(***************************************************************************)
EXTENDS FiniteSets

CONSTANTS NodeIds, LabelIds, NULL

VARIABLES nodes, edges, entry, status

vars == <<nodes, edges, entry, status>>

Edge == [from : NodeIds, to : NodeIds, lbl : LabelIds]

Linked(a, b) == \E e \in edges : e.from = a /\ e.to = b

Incident(a) == {e \in edges : a \in {e.from, e.to}}

Init ==
  /\ nodes = {}
  /\ edges = {}
  /\ entry = NULL
  /\ status = "running"

AddNode(n) ==
  /\ status = "running"
  /\ n \notin nodes
  /\ nodes' = nodes \cup {n}
  /\ UNCHANGED <<edges, entry, status>>

AddEdge(a, b, l) ==
  /\ status = "running"
  /\ {a, b} \subseteq nodes
  /\ ~Linked(a, b)
  /\ \A e \in edges : e.lbl # l
  /\ edges' = edges \cup {[from |-> a, to |-> b, lbl |-> l]}
  /\ UNCHANGED <<nodes, entry, status>>

DuplicateEdge(a, b) ==
  /\ status = "running"
  /\ Linked(a, b)
  /\ status' = "assert_duplicate_edge"
  /\ UNCHANGED <<nodes, edges, entry>>

RemoveEdge(a, b) ==
  /\ status = "running"
  /\ Linked(a, b)
  /\ edges' = {e \in edges : ~(e.from = a /\ e.to = b)}
  /\ UNCHANGED <<nodes, entry, status>>

Isolate(a) ==
  /\ status = "running"
  /\ a \in nodes
  /\ edges' = edges \ Incident(a)
  /\ UNCHANGED <<nodes, entry, status>>

DropNode(a) ==
  /\ status = "running"
  /\ a \in nodes
  /\ edges' = edges \ Incident(a)
  /\ nodes' = nodes \ {a}
  /\ UNCHANGED <<entry, status>>

ChooseEntry(n) ==
  /\ status = "running"
  /\ n \in nodes \cup {NULL}
  /\ entry' = n
  /\ UNCHANGED <<nodes, edges, status>>

Next ==
  \/ \E n \in NodeIds : AddNode(n) \/ Isolate(n) \/ DropNode(n)
  \/ \E a, b \in NodeIds : DuplicateEdge(a, b) \/ RemoveEdge(a, b)
  \/ \E a, b \in NodeIds, l \in LabelIds : AddEdge(a, b, l)
  \/ \E n \in NodeIds \cup {NULL} : ChooseEntry(n)

Spec == Init /\ [][Next]_vars

=============================================================================
