--------------------------- MODULE GraphContainer ---------------------------
(***************************************************************************)
(* The node container of GenericGraph (include/revng/ADT/GenericGraph.h)   *)
(* for the node variants that are not MutableEdgeNode, so removeNode does  *)
(* not call disconnect() and the edges play no part.                       *)
(*                                                                         *)
(* Nodes is an llvm::SmallVector<std::unique_ptr<NodeT>>, kept here as    *)
(* the sequence of the owned nodes' addresses; addresses of destroyed      *)
(* nodes can be allocated again.  SmallVector::erase(end()) is undefined:  *)
(* a build with LLVM assertions aborts ("Iterator to erase is out of       *)
(* bounds"), a release build shifts nothing and runs pop_back(), which     *)
(* destroys the last node.  `build` is which of the two the program is.    *)
(* `live` is a ghost: the nodes added and not yet passed to removeNode.    *)
(***************************************************************************)
EXTENDS Naturals, FiniteSets, Sequences, SequencesExt

CONSTANTS
  NodeIds,  \* addresses a node can be allocated at
  NULL

ASSUME NULL \notin NodeIds

VARIABLES
  Nodes,   \* GenericGraph::Nodes
  entry,   \* EntryNode<NodeT>::EntryNode
  build,   \* "assertions" or "release"
  status,  \* "running", or the assertion that aborted
  live     \* ghost: the nodes the caller has not removed

vars == <<Nodes, entry, build, status, live>>

Running == status = "running"

\* findNode(NodePtr): find_if over Nodes by address; Len(Nodes) + 1 is end().
findNode(p) ==
  IF \E i \in DOMAIN Nodes : Nodes[i] = p
    THEN SelectInSeq(Nodes, LAMBDA n : n = p)
    ELSE Len(Nodes) + 1

\* Nodes.erase(It) at position i: order-preserving removal, or at end()
\* the build's behaviour.
Erase(i) ==
  IF i <= Len(Nodes)
    THEN Nodes' = RemoveAt(Nodes, i) /\ UNCHANGED status
  ELSE IF build = "assertions"
    THEN status' = "assert_erase_out_of_bounds" /\ UNCHANGED Nodes
  ELSE Nodes' = Front(Nodes) /\ UNCHANGED status

-----------------------------------------------------------------------------
Init ==
  /\ Nodes = <<>>
  /\ entry = NULL
  /\ build \in {"assertions", "release"}
  /\ status = "running"
  /\ live = {}

\* GenericGraph::addNode: emplace_back of a node at a free address.
AddNode(n) ==
  /\ Running
  /\ n \notin ToSet(Nodes)
  /\ Nodes' = Append(Nodes, n)
  /\ live' = live \cup {n}
  /\ UNCHANGED <<entry, build, status>>

\* removeNode(nodes_iterator It), It at position i.
RemoveNodeAt(i) ==
  /\ Running
  /\ i \in DOMAIN Nodes
  /\ Erase(i)
  /\ live' = live \ {Nodes[i]}
  /\ UNCHANGED <<entry, build>>

\* removeNode(Node const *NodePtr): removeNode(findNode(NodePtr)), for any
\* pointer, one of a node destroyed before included.
RemoveNodePtr(p) ==
  /\ Running
  /\ Nodes # <<>>
  /\ Erase(findNode(p))
  /\ live' = live \ {p}
  /\ UNCHANGED <<entry, build>>

\* EntryNode::setEntryNode
SetEntryNode(n) ==
  /\ Running
  /\ n \in ToSet(Nodes) \cup {NULL}
  /\ entry' = n
  /\ UNCHANGED <<Nodes, build, status, live>>

Stopped == ~Running /\ UNCHANGED vars

Next ==
  \/ \E n \in NodeIds : AddNode(n) \/ RemoveNodePtr(n)
  \/ \E i \in 1..Cardinality(NodeIds) : RemoveNodeAt(i)
  \/ \E n \in NodeIds \cup {NULL} : SetEntryNode(n)
  \/ Stopped

Spec == Init /\ [][Next]_vars

-----------------------------------------------------------------------------
(* Properties                                                              *)

\* spec.md 8, Ownership: a node added to the graph stays in nodes() until
\* it is removed, and only the node a removeNode call names leaves; spec.md
\* 7: a handle the graph does not own aborts instead.
OwnedUntilRemoved == ToSet(Nodes) = live

=============================================================================
