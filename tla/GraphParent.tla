---------------------------- MODULE GraphParent ----------------------------
(***************************************************************************)
(* The Parent back-reference of nodes (Parent<T, BaseType>, GenericGraph.h *)
(* 83-98) across the graph objects of a program.                           *)
(*                                                                         *)
(* A node with HasParent is built with TheParent = nullptr; addNode sets   *)
(* it to the graph that takes ownership.  GenericGraph declares no copy or *)
(* move members, so it has the implicit ones: copying is deleted (the      *)
(* nodes are unique_ptrs) and moving moves the member Nodes and the base   *)
(* EntryNode member by member.  Moving a SmallVector of unique_ptr leaves  *)
(* the source empty and the nodes where they are; moving a raw pointer     *)
(* copies it.  Nothing calls setParent on the way.                         *)
(***************************************************************************)
EXTENDS Naturals, FiniteSets, Sequences, SequencesExt

CONSTANTS
  Graphs,   \* the GenericGraph objects of the program
  NodeIds,  \* addresses a node can be allocated at
  NULL

ASSUME NULL \notin Graphs \cup NodeIds

VARIABLES
  Nodes,       \* Nodes[g]: g.Nodes, the owned nodes' addresses
  entry,       \* entry[g]: g.EntryNode
  TheParent    \* TheParent[n]: Parent::TheParent of the node at n

vars == <<Nodes, entry, TheParent>>

Owned == UNION {ToSet(Nodes[g]) : g \in Graphs}

-----------------------------------------------------------------------------
Init ==
  /\ Nodes = [g \in Graphs |-> <<>>]
  /\ entry = [g \in Graphs |-> NULL]
  /\ TheParent = [n \in NodeIds |-> NULL]

\* GenericGraph::addNode(Args...) / addNode(unique_ptr): a new node, owned
\* by g, whose parent is set to g (has_parent).
AddNode(g, n) ==
  /\ n \notin Owned
  /\ Nodes' = [Nodes EXCEPT ![g] = Append(@, n)]
  /\ TheParent' = [TheParent EXCEPT ![n] = g]
  /\ UNCHANGED entry

\* removeNode(It): the node at position i is erased and destroyed.
RemoveNode(g, i) ==
  /\ i \in DOMAIN Nodes[g]
  /\ Nodes' = [Nodes EXCEPT ![g] = RemoveAt(@, i)]
  /\ TheParent' = [TheParent EXCEPT ![Nodes[g][i]] = NULL]
  /\ UNCHANGED entry

SetEntryNode(g, n) ==
  /\ n \in ToSet(Nodes[g]) \cup {NULL}
  /\ entry' = [entry EXCEPT ![g] = n]
  /\ UNCHANGED <<Nodes, TheParent>>

\* dst = std::move(src), the implicit move assignment: dst's own nodes are
\* destroyed, dst takes src's nodes, src is left with none; EntryNode is a
\* raw pointer and is copied.  (A move construction is the same with dst
\* empty before.)  The nodes' TheParent is left as it was.
MoveAssign(dst, src) ==
  /\ dst # src
  /\ Nodes' = [Nodes EXCEPT ![dst] = Nodes[src], ![src] = <<>>]
  /\ entry' = [entry EXCEPT ![dst] = entry[src]]
  /\ TheParent' = [n \in NodeIds |->
                     IF n \in ToSet(Nodes[dst]) THEN NULL ELSE TheParent[n]]

Next ==
  \/ \E g \in Graphs, n \in NodeIds : AddNode(g, n)
  \/ \E g \in Graphs, i \in 1..Cardinality(NodeIds) : RemoveNode(g, i)
  \/ \E g \in Graphs, n \in NodeIds \cup {NULL} : SetEntryNode(g, n)
  \/ \E dst, src \in Graphs : MoveAssign(dst, src)

Spec == Init /\ [][Next]_vars

-----------------------------------------------------------------------------
(* Properties                                                              *)

\* spec.md 3 and 5: the back-reference of every node a graph owns leads to
\* that graph ("relation + lookup"), however the graph objects holding the
\* nodes were moved around after addNode set it.
ParentIsOwner == \A g \in Graphs : \A n \in ToSet(Nodes[g]) : TheParent[n] = g

=============================================================================
