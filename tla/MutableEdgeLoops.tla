-------------------------- MODULE MutableEdgeLoops --------------------------
(***************************************************************************)
(* The loops that walk a MutableEdgeNode's edge vectors while removing     *)
(* from them, one iteration per step:                                      *)
(*   - disconnect() (GenericGraph.h 871-877), alone or inside removeNode;  *)
(*   - a caller removing the successors in a set Drop while iterating,     *)
(*     continuing from the iterator removeSuccessor returns (spec.md 5:    *)
(*     "mutate via an iterator-returning removal that yields a valid       *)
(*     continuation point"):                                               *)
(*       for (It = begin; It != end;)                                      *)
(*         It = Drop[It->first] ? removeSuccessor(It) : std::next(It);    *)
(* The program is single-threaded, so no other call runs while a loop is  *)
(* in progress, and a loop whose iteration changes nothing spins forever.  *)
(***************************************************************************)
EXTENDS MutableEdgeGraph

VARIABLE
  loop  \* the loop in progress: its phase, node, position It, and so on

loopVars == <<vars, loop>>

Idle == [phase |-> "idle", node |-> NULL, pos |-> 0, drop |-> {},
         erase |-> FALSE, before |-> <<>>]

\* Mutant: the returned iterator is advanced past the edge swapped in.
ReturnedPositionNext(i) == i + 1

\* removeSuccessorImpl / removePredecessorImpl return `Iterator`: the same
\* position, which after swap-and-pop holds the former last edge.
ReturnedPosition(i) == i

-----------------------------------------------------------------------------
LoopInit == Init /\ loop = Idle

\* GenericGraph::removeNode(It) (erase = TRUE) and disconnect() (FALSE)
\* enter the loop over Successors.
BeginDisconnect(a, erase) ==
  /\ Running /\ loop = Idle
  /\ a \in nodes
  /\ loop' = [Idle EXCEPT !.phase = "succ", !.node = a, !.pos = 1, !.erase = erase]
  /\ UNCHANGED vars

\* One iteration: It = removeSuccessorImpl(It).
SuccStep ==
  /\ loop.phase = "succ" /\ loop.pos <= Len(succ[loop.node])
  /\ SetGraph(RemoveSuccessorImpl(Graph, loop.node, loop.pos))
  /\ loop' = [loop EXCEPT !.pos = ReturnedPosition(@)]
  /\ UNCHANGED <<nodes, entry>>

\* It == Successors.end(): on to the loop over Predecessors.
SuccDone ==
  /\ loop.phase = "succ" /\ loop.pos > Len(succ[loop.node])
  /\ loop' = [loop EXCEPT !.phase = "pred", !.pos = 1]
  /\ UNCHANGED vars

PredStep ==
  /\ loop.phase = "pred" /\ loop.pos <= Len(pred[loop.node])
  /\ SetGraph(RemovePredecessorImpl(Graph, loop.node, loop.pos))
  /\ loop' = [loop EXCEPT !.pos = ReturnedPosition(@)]
  /\ UNCHANGED <<nodes, entry>>

\* disconnect() returns; removeNode then erases the node.
PredDone ==
  /\ loop.phase = "pred" /\ loop.pos > Len(pred[loop.node])
  /\ nodes' = IF loop.erase THEN nodes \ {loop.node} ELSE nodes
  /\ loop' = Idle
  /\ UNCHANGED <<succ, pred, entry, status>>

\* The caller starts removing the successors of a that are in D.
BeginEraseIf(a, D) ==
  /\ Running /\ loop = Idle
  /\ a \in nodes
  /\ loop' = [Idle EXCEPT !.phase = "filter", !.node = a, !.pos = 1,
                          !.drop = D, !.before = succ[a]]
  /\ UNCHANGED vars

\* One iteration: removeSuccessor(It) (822-825) or std::next(It).
FilterStep ==
  /\ loop.phase = "filter" /\ loop.pos <= Len(succ[loop.node])
  /\ IF succ[loop.node][loop.pos].nb \in loop.drop
       THEN /\ SetGraph(RemoveSuccessorImpl(Graph, loop.node, loop.pos))
            /\ loop' = [loop EXCEPT !.pos = ReturnedPosition(@)]
       ELSE /\ loop' = [loop EXCEPT !.pos = @ + 1]
            /\ UNCHANGED <<succ, pred, status>>
  /\ UNCHANGED <<nodes, entry>>

FilterDone ==
  /\ loop.phase = "filter" /\ loop.pos > Len(succ[loop.node])
  /\ loop' = Idle
  /\ UNCHANGED vars

\* The statements of the loop in progress.
LoopStep ==
  /\ Running
  /\ SuccStep \/ SuccDone \/ PredStep \/ PredDone \/ FilterStep \/ FilterDone

\* Any other call, made only between loops.
Call ==
  /\ loop = Idle
  /\ \/ \E n \in NodeIds : AddNode(n)
     \/ \E a, b \in NodeIds, l \in LabelIds : AddSuccessor(a, b, l)
     \/ \E a, p \in NodeIds, l \in LabelIds : AddPredecessor(a, p, l)
     \/ \E a \in NodeIds, i \in 1..MaxEdges : RemoveSuccessor(a, i)
     \/ \E n \in NodeIds \cup {NULL} : SetEntryNode(n)
  /\ UNCHANGED loop

LoopNext ==
  \/ Call
  \/ \E a \in NodeIds, erase \in BOOLEAN : BeginDisconnect(a, erase)
  \/ \E a \in NodeIds, D \in SUBSET NodeIds \ {{}} : BeginEraseIf(a, D)
  \/ LoopStep
  \/ Stopped /\ UNCHANGED loop

\* The one thread keeps executing the loop it is in: weak fairness of its
\* statements, and of nothing else (the caller may stop calling).
LoopSpec == LoopInit /\ [][LoopNext]_loopVars /\ WF_loopVars(LoopStep)

-----------------------------------------------------------------------------
(* Properties                                                              *)

\* Every disconnect, removeNode and remove-while-iterating loop finishes
\* (or the program aborts): each iteration that does not reach the end
\* removes an edge, so the early return of removeXImpl, which removes
\* nothing, must never be taken under the documented contract.
LoopsTerminate == loop # Idle ~> (loop = Idle \/ ~Running)

\* Continuing from the iterator removeSuccessor returns, the caller's loop
\* removes exactly the successors in Drop and keeps all others, although
\* each removal moves the last edge into the position just visited.
EraseIfRemovesExactly ==
  [][loop.phase = "filter" /\ loop' = Idle =>
       {e.nb : e \in ToSet(succ'[loop.node])}
         = {e.nb : e \in ToSet(loop.before)} \ loop.drop]_loopVars

\* After disconnect() returns, the node has no edge and no other node
\* lists it (spec.md 8, "Disconnect completeness").
DisconnectIsolates ==
  [][loop.phase = "pred" /\ loop' = Idle =>
       /\ succ'[loop.node] = <<>> /\ pred'[loop.node] = <<>>
       /\ \A n \in NodeIds :
            \A e \in ToSet(succ'[n]) \cup ToSet(pred'[n]) : e.nb # loop.node]_loopVars

=============================================================================
