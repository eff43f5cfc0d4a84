-------------------------- MODULE MutableEdgeGraph --------------------------
(***************************************************************************)
(* GenericGraph<MutableEdgeNode> of include/revng/ADT/GenericGraph.h.      *)
(*                                                                         *)
(* A node is an address in NodeIds.  Each node keeps two SmallVectors:     *)
(* Successors, of owning edges <<Neighbor, Label>> whose label is a heap   *)
(* allocation (unique_ptr), and Predecessors, of non-owning edges whose    *)
(* Label points at the allocation owned by the other half.  A label        *)
(* allocation is an address in LabelIds.  The graph's Nodes vector is     *)
(* abstracted to the set of live addresses: no operation of the graph     *)
(* depends on its order.  A fatal revng_assert ends the process; a loop   *)
(* that cannot make progress is recorded as a hang.                        *)
(***************************************************************************)
EXTENDS Naturals, FiniteSets, Sequences, SequencesExt

CONSTANTS
  NodeIds,   \* addresses a node can be allocated at
  LabelIds,  \* addresses an edge label can be allocated at
  MaxEdges,  \* bound on the number of edges alive at once
  NULL       \* the null pointer

ASSUME NULL \notin NodeIds
ASSUME MaxEdges \in Nat /\ Cardinality(LabelIds) >= MaxEdges

VARIABLES
  nodes,        \* GenericGraph::Nodes, as the set of owned node addresses
  succ,         \* succ[n]: n->Successors, a sequence of owning edges
  pred,         \* pred[n]: n->Predecessors, a sequence of non-owning edges
  entry,        \* EntryNode<NodeT>::EntryNode
  status        \* "running", or how the process stopped

vars == <<nodes, succ, pred, entry, status>>

HalfEdge == [nb : NodeIds, lbl : LabelIds]

Running == status = "running"

-----------------------------------------------------------------------------
(* Helpers of MutableEdgeNode                                              *)

\* Mutant: pop_back() without the swap, dropping the last edge instead.
SwapPopNoSwap(s, i) == Front(s)

\* std::swap(*It, V.back()); V.pop_back();
SwapPop(s, i) == Front([s EXCEPT ![i] = Last(s)])

\* findSuccessorImpl / findPredecessorImpl: first position whose Neighbor
\* is n, or 0 for end().
FindIn(s, n) == SelectInSeq(s, LAMBDA e : e.nb = n)

hasSuccessor(a, s) == FindIn(succ[a], s) # 0
hasPredecessor(a, p) == FindIn(pred[a], p) # 0

\* Label allocations owned by some Successors vector.
Allocated == {e.lbl : e \in UNION {ToSet(succ[n]) : n \in NodeIds}}

EdgeCount == SumFunction([n \in NodeIds |-> Len(succ[n])])

(***************************************************************************)
(* removeSuccessorImpl(It) on the state g = [succ, pred, status], It the    *)
(* position i of a's Successors.  When the neighbor's Predecessors are     *)
(* empty the code returns It and leaves both halves in place; the caller   *)
(* sees that through EarlyReturnSucc.                                      *)
(***************************************************************************)
\* Mutant: the early return tests the neighbor's Successors, as
\* removePredecessorImpl does for its own side.
EarlyReturnSuccWrongList(g, a, i) == g.succ[g.succ[a][i].nb] = <<>>

EarlyReturnSucc(g, a, i) == g.pred[g.succ[a][i].nb] = <<>>

\* Mutant: the mirrored predecessor half is never looked up nor removed.
RemoveSuccessorImplOwnerOnly(g, a, i) ==
  IF EarlyReturnSucc(g, a, i) THEN g
  ELSE [g EXCEPT !.succ[a] = SwapPop(@, i)]

RemoveSuccessorImpl(g, a, i) ==
  LET s == g.succ[a][i].nb
      j == FindIn(g.pred[s], a)
  IN  IF EarlyReturnSucc(g, a, i) THEN g
      ELSE IF j = 0 THEN [g EXCEPT !.status = "assert_broken_layout"]
      ELSE [g EXCEPT !.pred[s] = SwapPop(@, j), !.succ[a] = SwapPop(@, i)]

EarlyReturnPred(g, a, i) == g.succ[g.pred[a][i].nb] = <<>>

\* Mutant: the owning half is searched for under the wrong neighbor.
RemovePredecessorImplWrongKey(g, a, i) ==
  LET p == g.pred[a][i].nb
      j == FindIn(g.succ[p], p)
  IN  IF EarlyReturnPred(g, a, i) THEN g
      ELSE IF j = 0 THEN [g EXCEPT !.status = "assert_broken_layout"]
      ELSE [g EXCEPT !.succ[p] = SwapPop(@, j), !.pred[a] = SwapPop(@, i)]

RemovePredecessorImpl(g, a, i) ==
  LET p == g.pred[a][i].nb
      j == FindIn(g.succ[p], a)
  IN  IF EarlyReturnPred(g, a, i) THEN g
      ELSE IF j = 0 THEN [g EXCEPT !.status = "assert_broken_layout"]
      ELSE [g EXCEPT !.succ[p] = SwapPop(@, j), !.pred[a] = SwapPop(@, i)]

(***************************************************************************)
(* disconnect(): for (It = begin; It != end;) It = removeXImpl(It); first  *)
(* over Successors, then over Predecessors.  removeXImpl returns the same  *)
(* position, so every iteration works on position 1; an early return     *)
(* leaves the vector as it was and the loop never ends.                   *)
(***************************************************************************)
RECURSIVE DrainSuccessors(_, _)
DrainSuccessors(g, a) ==
  IF g.status # "running" \/ g.succ[a] = <<>> THEN g
  ELSE IF EarlyReturnSucc(g, a, 1) THEN [g EXCEPT !.status = "hang"]
  ELSE DrainSuccessors(RemoveSuccessorImpl(g, a, 1), a)

RECURSIVE DrainPredecessors(_, _)
DrainPredecessors(g, a) ==
  IF g.status # "running" \/ g.pred[a] = <<>> THEN g
  ELSE IF EarlyReturnPred(g, a, 1) THEN [g EXCEPT !.status = "hang"]
  ELSE DrainPredecessors(RemovePredecessorImpl(g, a, 1), a)

disconnect(g, a) == DrainPredecessors(DrainSuccessors(g, a), a)

Graph == [succ |-> succ, pred |-> pred, status |-> status]

\* Make g the next value of the node-edge state.
SetGraph(g) == succ' = g.succ /\ pred' = g.pred /\ status' = g.status

-----------------------------------------------------------------------------
Init ==
  /\ nodes = {}
  /\ succ = [n \in NodeIds |-> <<>>]
  /\ pred = [n \in NodeIds |-> <<>>]
  /\ entry = NULL
  /\ status = "running"

\* GenericGraph::addNode: a fresh node at any free address.
AddNode(n) ==
  /\ Running
  /\ n \notin nodes
  /\ nodes' = nodes \cup {n}
  /\ UNCHANGED <<succ, pred, entry, status>>

\* Mutant: constructEdge takes the unlabeled branch for the view, so the
\* predecessor half has no label pointer.
AddSuccessorUnlabeledView(a, b, l) ==
  /\ Running
  /\ {a, b} \subseteq nodes
  /\ IF hasSuccessor(a, b)
       THEN /\ status' = "assert_duplicate_edge"
            /\ UNCHANGED <<succ, pred>>
       ELSE /\ EdgeCount < MaxEdges
            /\ l \notin Allocated
            /\ succ' = [succ EXCEPT ![a] = Append(@, [nb |-> b, lbl |-> l])]
            /\ pred' = [pred EXCEPT ![b] = Append(@, [nb |-> a])]
            /\ UNCHANGED status
  /\ UNCHANGED <<nodes, entry>>

\* MutableEdgeNode::addSuccessor(NewSuccessor, EL) on node a, with the label
\* allocated at a free address l by constructEdge.
AddSuccessor(a, b, l) ==
  /\ Running
  /\ {a, b} \subseteq nodes
  /\ IF hasSuccessor(a, b)
       THEN /\ status' = "assert_duplicate_edge"
            /\ UNCHANGED <<succ, pred>>
       ELSE /\ EdgeCount < MaxEdges
            /\ l \notin Allocated
            /\ succ' = [succ EXCEPT ![a] = Append(@, [nb |-> b, lbl |-> l])]
            /\ pred' = [pred EXCEPT ![b] = Append(@, [nb |-> a, lbl |-> l])]
            /\ UNCHANGED status
  /\ UNCHANGED <<nodes, entry>>

\* Mutant: the duplicate check looks in the wrong direction.
AddPredecessorWrongCheck(a, p, l) ==
  /\ Running
  /\ {a, p} \subseteq nodes
  /\ IF hasSuccessor(a, p)
       THEN /\ status' = "assert_duplicate_edge"
            /\ UNCHANGED <<succ, pred>>
       ELSE /\ EdgeCount < MaxEdges
            /\ l \notin Allocated
            /\ succ' = [succ EXCEPT ![p] = Append(@, [nb |-> a, lbl |-> l])]
            /\ pred' = [pred EXCEPT ![a] = Append(@, [nb |-> p, lbl |-> l])]
            /\ UNCHANGED status
  /\ UNCHANGED <<nodes, entry>>

\* MutableEdgeNode::addPredecessor(NewPredecessor, EL) on node a.
AddPredecessor(a, p, l) ==
  /\ Running
  /\ {a, p} \subseteq nodes
  /\ IF hasPredecessor(a, p)
       THEN /\ status' = "assert_duplicate_edge"
            /\ UNCHANGED <<succ, pred>>
       ELSE /\ EdgeCount < MaxEdges
            /\ l \notin Allocated
            /\ succ' = [succ EXCEPT ![p] = Append(@, [nb |-> a, lbl |-> l])]
            /\ pred' = [pred EXCEPT ![a] = Append(@, [nb |-> p, lbl |-> l])]
            /\ UNCHANGED status
  /\ UNCHANGED <<nodes, entry>>

\* removeSuccessor(Iterator): i is the position the iterator points at.
RemoveSuccessor(a, i) ==
  /\ Running
  /\ a \in nodes
  /\ i \in 1..Len(succ[a])
  /\ SetGraph(RemoveSuccessorImpl(Graph, a, i))
  /\ UNCHANGED <<nodes, entry>>

\* removeSuccessor(S): removeSuccessorImpl(findSuccessorImpl(S)), for an S
\* that is a successor (for an absent S the code dereferences end()).
RemoveSuccessorValue(a, s) ==
  /\ Running
  /\ a \in nodes
  /\ hasSuccessor(a, s)
  /\ SetGraph(RemoveSuccessorImpl(Graph, a, FindIn(succ[a], s)))
  /\ UNCHANGED <<nodes, entry>>

\* MutableEdgeNode::disconnect()
Disconnect(a) ==
  /\ Running
  /\ a \in nodes
  /\ SetGraph(disconnect(Graph, a))
  /\ UNCHANGED <<nodes, entry>>

\* Mutant: the node is erased without disconnect() (the IsMutableEdgeNode
\* branch not taken).
RemoveNodeNoDisconnect(a) ==
  /\ Running
  /\ a \in nodes
  /\ nodes' = nodes \ {a}
  /\ UNCHANGED <<succ, pred, status, entry>>

\* GenericGraph::removeNode(It): disconnect() (IsMutableEdgeNode), then
\* erase the unique_ptr, destroying the node, unless disconnect() aborted or
\* hung first.  The entry node is left as is.
RemoveNode(a) ==
  LET g == disconnect(Graph, a)
  IN  /\ Running
      /\ a \in nodes
      /\ SetGraph(g)
      /\ nodes' = IF g.status = "running" THEN nodes \ {a} ELSE nodes
      /\ UNCHANGED entry

\* EntryNode::setEntryNode
SetEntryNode(n) ==
  /\ Running
  /\ n \in nodes \cup {NULL}
  /\ entry' = n
  /\ UNCHANGED <<nodes, succ, pred, status>>

\* A fatal assertion or a hang ends the program: nothing happens any more.
Stopped ==
  /\ ~Running
  /\ UNCHANGED vars

Next ==
  \/ \E n \in NodeIds : AddNode(n)
  \/ \E a, b \in NodeIds, l \in LabelIds : AddSuccessor(a, b, l)
  \/ \E a, p \in NodeIds, l \in LabelIds : AddPredecessor(a, p, l)
  \/ \E a \in NodeIds, i \in 1..MaxEdges : RemoveSuccessor(a, i)
  \/ \E a, s \in NodeIds : RemoveSuccessorValue(a, s)
  \/ \E a \in NodeIds : Disconnect(a)
  \/ \E a \in NodeIds : RemoveNode(a)
  \/ \E n \in NodeIds \cup {NULL} : SetEntryNode(n)
  \/ Stopped

Spec == Init /\ [][Next]_vars

-----------------------------------------------------------------------------
(* GraphTraits<MutableEdgeNode *> walks successors(), and                  *)
(* GraphTraits<Inverse<MutableEdgeNode *>> walks predecessors().           *)

Children == [n \in NodeIds |-> {e.nb : e \in ToSet(succ[n])}]

\* Mutant: the inverse traits walk successors(), a copy of the forward ones.
InverseChildrenForward == [n \in NodeIds |-> {e.nb : e \in ToSet(succ[n])}]

InverseChildren == [n \in NodeIds |-> {e.nb : e \in ToSet(pred[n])}]

\* The nodes a generic algorithm reaches from S through step[_].
RECURSIVE Reach(_, _)
Reach(S, step) ==
  LET T == S \cup UNION {step[n] : n \in S}
  IN  IF T = S THEN S ELSE Reach(T, step)

-----------------------------------------------------------------------------
(* Properties                                                              *)

TypeOK ==
  /\ nodes \subseteq NodeIds
  /\ succ \in [NodeIds -> Seq(HalfEdge)]
  /\ pred \in [NodeIds -> Seq(HalfEdge)]
  /\ entry \in NodeIds \cup {NULL}
  /\ status \in {"running", "assert_duplicate_edge",
                 "assert_broken_layout", "hang"}

\* Every owning half A->B (label L) has its non-owning half <<A, L>> in B's
\* Predecessors, pointing at the same label allocation, and every
\* non-owning half has its owner: the invariant the swap-and-pop removals,
\* disconnect and addPredecessor must keep across any sequence of calls.
EdgeHalvesMirror ==
  /\ \A a \in NodeIds : \A e \in ToSet(succ[a]) :
        [nb |-> a, lbl |-> e.lbl] \in ToSet(pred[e.nb])
  /\ \A b \in NodeIds : \A e \in ToSet(pred[b]) :
        [nb |-> b, lbl |-> e.lbl] \in ToSet(succ[e.nb])

\* At most one edge per direction between two nodes, and one allocation per
\* edge: the duplicate checks of addSuccessor and addPredecessor look only
\* at one side, so they rely on the halves staying mirrored.
OneEdgePerPair ==
  \A a \in NodeIds :
    /\ \A i, j \in DOMAIN succ[a] : succ[a][i].nb = succ[a][j].nb => i = j
    /\ \A i, j \in DOMAIN pred[a] : pred[a][i].nb = pred[a][j].nb => i = j
    /\ \A b \in NodeIds \ {a} : \A e \in ToSet(succ[a]), f \in ToSet(succ[b]) :
          e.lbl # f.lbl

\* removeNode disconnects first: no node outside the graph has edges, and
\* no edge of a node in the graph names a destroyed node.
NoDanglingNeighbor ==
  \A n \in NodeIds :
    /\ n \notin nodes => succ[n] = <<>> /\ pred[n] = <<>>
    /\ \A e \in ToSet(succ[n]) \cup ToSet(pred[n]) : e.nb \in nodes

\* Under calls that respect the documented contract, the code's own
\* consistency check ("Half of an edge is missing") never fires and the
\* disconnect loop never spins on an early return.
InternalChecksHold == status \in {"running", "assert_duplicate_edge"}

\* The entry node, when set, is a node the graph owns (spec.md 3: "a
\* non-owning pointer into its own collection"), so that
\* GraphTraits<GenericGraph>::getEntryNode hands algorithms a live node.
\* removeNode erases the node without looking at the entry node.
EntryNodeOwned == entry # NULL => entry \in nodes

\* Through any sequence of additions, swap-and-pop removals, disconnects
\* and node removals, an algorithm run over GraphTraits<Inverse<>> from a
\* node reaches exactly the nodes that reach it over GraphTraits<>: reverse
\* reachability (spec.md 4.5) sees the transposed graph.
InverseTraversalIsTranspose ==
  \A n \in nodes :
    Reach({n}, InverseChildren) = {m \in nodes : n \in Reach({m}, Children)}

\* The edges as the caller sees them: one per owning half.
AbstractEdges ==
  UNION {{[from |-> a, to |-> e.nb, lbl |-> e.lbl] : e \in ToSet(succ[a])} :
           a \in NodeIds}

Abs == INSTANCE AbstractGraph WITH edges <- AbstractEdges

\* Every sequence of calls on the graph is one the abstract graph allows:
\* swap-and-pop removal, the disconnect loops and node removal add and
\* remove whole edges only, keep each label allocation with its edge, and
\* abort only on a duplicate edge.
RefinesAbstractGraph == Abs!Spec

=============================================================================
