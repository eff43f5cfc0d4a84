------------------------- MODULE BidirectionalGraph -------------------------
(***************************************************************************)
(* GenericGraph<BidirectionalNode> of include/revng/ADT/GenericGraph.h.   *)
(*                                                                         *)
(* BidirectionalNode extends ForwardNode: Successors (from ForwardNode)    *)
(* and Predecessors are SmallVectors of Edge = <<Neighbor, EdgeLabel>>,    *)
(* the label stored by value, so the two halves of an edge hold copies.    *)
(* Removal is ForwardNode's erase on one vector only, and removeNode does  *)
(* not touch the edges of other nodes.  Each record carries a ghost        *)
(* `stamp`, the number of the add call that created it, used only to       *)
(* state the order guarantee.                                              *)
(***************************************************************************)
EXTENDS Naturals, Sequences, SequencesExt

CONSTANTS
  NodeIds,      \* addresses a node can be allocated at
  LabelValues,  \* values of EdgeLabel
  MaxAdds,      \* bound on the number of add calls
  NULL

ASSUME NULL \notin NodeIds /\ MaxAdds \in Nat

VARIABLES
  nodes,   \* GenericGraph::Nodes, as the set of owned node addresses
  succ,    \* succ[n]: ForwardNode::Successors of n
  pred,    \* pred[n]: BidirectionalNode::Predecessors of n
  entry,   \* EntryNode<NodeT>::EntryNode
  adds     \* ghost: number of add calls so far

vars == <<nodes, succ, pred, entry, adds>>

Edge == [nb : NodeIds, lbl : LabelValues, stamp : 1..MaxAdds]

\* The record emplace_back(Neighbor, EL) builds in the current add call.
Rec(n, v) == [nb |-> n, lbl |-> v, stamp |-> adds + 1]

-----------------------------------------------------------------------------
Init ==
  /\ nodes = {}
  /\ succ = [n \in NodeIds |-> <<>>]
  /\ pred = [n \in NodeIds |-> <<>>]
  /\ entry = NULL
  /\ adds = 0

\* GenericGraph::addNode
AddNode(n) ==
  /\ n \notin nodes
  /\ nodes' = nodes \cup {n}
  /\ UNCHANGED <<succ, pred, entry, adds>>

\* Mutant: only Base::addSuccessor, no predecessor record on the target.
AddSuccessorNoBackLink(a, b, v) ==
  /\ {a, b} \subseteq nodes
  /\ adds < MaxAdds
  /\ succ' = [succ EXCEPT ![a] = Append(@, Rec(b, v))]
  /\ adds' = adds + 1
  /\ UNCHANGED <<nodes, pred, entry>>

\* BidirectionalNode::addSuccessor(NewSuccessor, EL):
\* Base::addSuccessor then NewSuccessor->Predecessors.emplace_back(this, EL).
AddSuccessor(a, b, v) ==
  /\ {a, b} \subseteq nodes
  /\ adds < MaxAdds
  /\ succ' = [succ EXCEPT ![a] = Append(@, Rec(b, v))]
  /\ pred' = [pred EXCEPT ![b] = Append(@, Rec(a, v))]
  /\ adds' = adds + 1
  /\ UNCHANGED <<nodes, entry>>

\* BidirectionalNode::addPredecessor(NewPredecessor, EL) on node a:
\* Predecessors.emplace_back(NewPredecessor, EL), then
\* NewPredecessor->addSuccessor(this, EL), which is BidirectionalNode's
\* addSuccessor and appends to this->Predecessors a second time.
AddPredecessor(a, p, v) ==
  /\ {a, p} \subseteq nodes
  /\ adds < MaxAdds
  /\ succ' = [succ EXCEPT ![p] = Append(@, Rec(a, v))]
  /\ pred' = [pred EXCEPT ![a] = Append(Append(@, Rec(p, v)), Rec(p, v))]
  /\ adds' = adds + 1
  /\ UNCHANGED <<nodes, entry>>

\* Mutant: swap-with-last-and-pop removal, as in MutableEdgeNode.
RemoveSuccessorSwapPop(a, i) ==
  /\ a \in nodes
  /\ i \in 1..Len(succ[a])
  /\ LET s == succ[a] IN succ' = [succ EXCEPT ![a] = Front([s EXCEPT ![i] = Last(s)])]
  /\ UNCHANGED <<nodes, pred, entry, adds>>

\* ForwardNode::removeSuccessor / removeSuccessorEdge: Successors.erase(It),
\* on this node only.
RemoveSuccessor(a, i) ==
  /\ a \in nodes
  /\ i \in 1..Len(succ[a])
  /\ succ' = [succ EXCEPT ![a] = RemoveAt(@, i)]
  /\ UNCHANGED <<nodes, pred, entry, adds>>

\* BidirectionalNode::removePredecessor / removePredecessorEdge.
RemovePredecessor(a, i) ==
  /\ a \in nodes
  /\ i \in 1..Len(pred[a])
  /\ pred' = [pred EXCEPT ![a] = RemoveAt(@, i)]
  /\ UNCHANGED <<nodes, succ, entry, adds>>

\* Mutant: the structured binding's get<0> and get<1> swapped, so the
\* write meant for the label lands on the Neighbor.
SetSuccessorLabelSwappedGet(a, i, v) ==
  /\ a \in nodes
  /\ i \in 1..Len(succ[a])
  /\ succ' = [succ EXCEPT ![a][i].nb = v]
  /\ UNCHANGED <<nodes, pred, entry, adds>>

\* Writing the label through the Edge & of successor_edges(): only this copy.
SetSuccessorLabel(a, i, v) ==
  /\ a \in nodes
  /\ i \in 1..Len(succ[a])
  /\ succ' = [succ EXCEPT ![a][i].lbl = v]
  /\ UNCHANGED <<nodes, pred, entry, adds>>

\* GenericGraph::removeNode: not a MutableEdgeNode, so no disconnect();
\* erasing the unique_ptr destroys the node and its own two vectors.
RemoveNode(a) ==
  /\ a \in nodes
  /\ nodes' = nodes \ {a}
  /\ succ' = [succ EXCEPT ![a] = <<>>]
  /\ pred' = [pred EXCEPT ![a] = <<>>]
  /\ UNCHANGED <<entry, adds>>

\* EntryNode::setEntryNode
SetEntryNode(n) ==
  /\ n \in nodes \cup {NULL}
  /\ entry' = n
  /\ UNCHANGED <<nodes, succ, pred, adds>>

\* Building a graph: the calls that only add.
BuildNext ==
  \/ \E n \in NodeIds : AddNode(n)
  \/ \E a, b \in NodeIds, v \in LabelValues : AddSuccessor(a, b, v)
  \/ \E a, p \in NodeIds, v \in LabelValues : AddPredecessor(a, p, v)
  \/ \E n \in NodeIds \cup {NULL} : SetEntryNode(n)

Next ==
  \/ BuildNext
  \/ \E a \in NodeIds, i \in 1..(2 * MaxAdds) :
        RemoveSuccessor(a, i) \/ RemovePredecessor(a, i)
  \/ \E a \in NodeIds, i \in 1..MaxAdds, v \in LabelValues :
        SetSuccessorLabel(a, i, v)
  \/ \E a \in NodeIds : RemoveNode(a)

BuildSpec == Init /\ [][BuildNext]_vars

Spec == Init /\ [][Next]_vars

-----------------------------------------------------------------------------
(* The traversal contract: GraphTraits<T *> iterates successors(),        *)
(* GraphTraits<Inverse<T *>> iterates predecessors().                      *)

Children == [n \in NodeIds |-> {e.nb : e \in ToSet(succ[n])}]
InverseChildren == [n \in NodeIds |-> {e.nb : e \in ToSet(pred[n])}]

\* The nodes a traversal starting from S reaches through step[_].
RECURSIVE Reach(_, _)
Reach(S, step) ==
  LET T == S \cup UNION {step[n] : n \in S}
  IN  IF T = S THEN S ELSE Reach(T, step)

-----------------------------------------------------------------------------
(* Properties                                                              *)

TypeOK ==
  /\ nodes \subseteq NodeIds
  /\ succ \in [NodeIds -> Seq(Edge)]
  /\ pred \in [NodeIds -> Seq(Edge)]
  /\ entry \in NodeIds \cup {NULL}
  /\ adds \in 0..MaxAdds

\* ForwardNode and BidirectionalNode remove by erase, so whatever mix of
\* adds, one-sided removals, label writes and node removals happens, the
\* edges left in each vector stay in the order they were added (spec.md 8:
\* "insertion-order-preserving for plain-erase variants").
EraseKeepsInsertionOrder ==
  \A n \in NodeIds :
    /\ \A i \in 1..(Len(succ[n]) - 1) : succ[n][i].stamp <= succ[n][i + 1].stamp
    /\ \A i \in 1..(Len(pred[n]) - 1) : pred[n][i].stamp <= pred[n][i + 1].stamp

\* While a graph is only being built, an algorithm run through
\* GraphTraits<Inverse<BidirectionalNode *>> from any node reaches exactly
\* the nodes that reach it through GraphTraits<BidirectionalNode *>: the
\* predecessor copies describe the transposed graph, whichever of
\* addSuccessor and addPredecessor built each edge.
InverseTraversalIsTranspose ==
  \A n \in nodes :
    Reach({n}, InverseChildren) = {m \in nodes : n \in Reach({m}, Children)}

\* Every edge has a front and a back half: for each pair, as many successor
\* records A->B as predecessor records of B naming A (spec.md 3 and 4.2,
\* "Symmetric addPredecessor").
EdgeRecordsPaired ==
  \A a, b \in NodeIds :
    Len(SelectSeq(succ[a], LAMBDA e : e.nb = b))
      = Len(SelectSeq(pred[b], LAMBDA e : e.nb = a))

=============================================================================
