# Model-checking GenericGraph and the Logger of revng

This directory holds TLA+ models of the two implementation files of this
repository, `src/include/revng/ADT/GenericGraph.h` and
`src/lib/Support/Debug.cpp`. It also holds the TLC configurations that check
them. `PROJECT.json` lists the following, each mapped to source lines:

- the components;
- the runs;
- the mutants that show each property can fail;
- the findings;
- the hazards.

## The system

`GenericGraph.h` is a header-only graph library. It has three node variants.

- **ForwardNode** keeps `Successors`, a SmallVector of `Edge<Node, Label>`. An
  `Edge` is a neighbor pointer plus a label, stored by value. Removal uses
  `erase`.
- **BidirectionalNode** adds `Predecessors`, another vector of `Edge`. Each
  side holds its own copy of the label.
  - `addSuccessor` and `addPredecessor` write to both endpoints.
  - Removals touch one side only.
  - `removeNode` does not disconnect the node.
- **MutableEdgeNode** keeps `OwningEdge`s in `Successors`. Each one holds a
  `unique_ptr` to the label. It keeps `NonOwningEdge`s in `Predecessors`. Each
  one holds a raw pointer to that same label.
  - `addSuccessor` and `addPredecessor` assert that the edge does not already
    exist. Each checks its own side only.
  - Removal is two-sided swap-with-last-and-pop, done by
    `removeSuccessorImpl` and `removePredecessorImpl`.
  - `disconnect` drains both lists.
  - `GenericGraph::removeNode` calls `disconnect` only for this variant.
    In `MutableEdgeGraph` the node is erased only if `disconnect` returned.
    When an internal assertion aborted first, the program stopped with the
    node still in `Nodes`.

`GenericGraph` owns its nodes in a vector of `unique_ptr`. It can also hold an
`EntryNode` pointer. The `GraphTraits` specialisations let LLVM algorithms walk
a graph:

- `GraphTraits<T *>` walks successors.
- `GraphTraits<Inverse<T *>>` walks predecessors.

`Debug.cpp` implements `Logger<true>`. The one piece of its state that changes
during a run is the static `unsigned IndentLevel`. It is shared by every
logger, and `flush` reads it to indent output. `indent`, `unindent` and
`setIndentation` change it only if the logger they are called on is enabled.

`flush` prints a logger's `Buffer` to `dbg` and clears it, but only while the
logger is enabled. Each printed line has up to two columns in front of its
text:

- a `[file:line] ` column, `MaxLocationLength + 3` wide, present only when
  the `debug-location-max-length` option is set;
- a `[name] ` column, padded to `MaxLoggerNameLength` plus two spaces per
  indentation level.

Every further line of the buffer goes on its own output line, behind a pad.

Everything runs on one thread, and every call completes before the next one
starts. Most models therefore interleave whole calls, assume no fairness and
check only safety. In `MutableEdgeGraph`, `disconnect` is one action, and a
loop that would never end shows up as a `"hang"` status that a safety
invariant excludes.

`MutableEdgeLoops` instead runs the removal loops one iteration per step.
These are `disconnect`'s two loops (lines 872-875), also as reached from
`removeNode`, and a caller's loop that continues from the iterator
`removeSuccessor` returns. Termination is then a liveness property. It is
checked under `WF(LoopStep)`: weak fairness of the statements of the loop in
progress, and of nothing else. The program has one thread, and no call can
start while a loop runs, so a loop that can take a step eventually takes
it. The caller, by contrast, may stop making calls at any time.

## Modules

| Module | Models | State, and its counterpart in the code |
|---|---|---|
| `MutableEdgeGraph` | `GenericGraph<MutableEdgeNode<Label>>` with `EntryNode` | `nodes` is the set of owned node addresses. `succ[n]` and `pred[n]` are `Successors` and `Predecessors`, as sequences of `[nb, lbl]` records. `lbl` is the address of the label allocation. `entry` is `EntryNode`. `status` records an abort (`revng_assert`) or a hang of `disconnect`. |
| `AbstractGraph` | What the `MutableEdgeNode` interface promises | A set of labelled edges with at most one edge per ordered pair, and a label owned by exactly one edge. |
| `BidirectionalGraph` | `GenericGraph<BidirectionalNode<Label>>`, and through it `ForwardNode` | `succ` and `pred` hold `[nb, lbl, stamp]` records. `stamp` is a ghost counter of add calls, used only to state ordering. `Children` and `InverseChildren` are the two `GraphTraits`. |
| `GraphContainer` | The `Nodes` SmallVector of `GenericGraph`, for the variants whose `removeNode` does not disconnect | `Nodes` is the ordered sequence of owned addresses. `build` is whether LLVM assertions are compiled in, because `SmallVector::erase(end())` differs between the two. `live` is a ghost: the nodes the caller has not removed. |
| `MutableEdgeLoops` | `disconnect`, `removeNode`'s call to it, and a caller's remove-while-iterating loop over `Successors` | Extends `MutableEdgeGraph`. `loop` is the loop in progress: its phase (`succ`, `pred`, `filter` or `idle`), node, position `It`, whether `removeNode` erases the node afterwards, and, for the caller's loop, the successors to drop and the successor list before the loop. Other calls happen only while `loop` is idle. |
| `GraphParent` | The `Parent` back-reference across several graph objects and their implicit moves | `Nodes[g]` is `g.Nodes`, `entry[g]` is `g.EntryNode`, and `TheParent[n]` is the node's back-reference. `MoveAssign` is the compiler-generated move assignment: it moves `Nodes`, copies the `EntryNode` pointer, destroys the target's old nodes, and never calls `setParent`. |
| `LoggerIndent` | `Logger<true>::indent`, `unindent` and `setIndentation` | `IndentLevel` is kept modulo `2^IndentBits`. `enabled` holds the loggers' flags. `scopes` is the stack of `indent` calls still waiting for their matching `unindent`. |
| `LoggerToggle` | `flush` composed with every `LoggerIndent` call, `enable`/`disable` and `setIndentation` included | Extends `LoggerFlush`. Two history variables: `written[l]` holds every character `l` accepted, and `printed[l]` the texts of the lines the flushes of `l` emitted, concatenated. They are taken from `emitted`, not from the buffer. `MaxWritten` bounds `written`. |
| `LoggerFlush` | `Logger<true>::flush`, composed with `LoggerIndent` | Extends `LoggerIndent`. `buffer[l]` is `Buffer`. `emitted` holds the lines of the last flush, each as the widths of its location and name columns plus its text. `message` is a ghost copy of the buffer that was flushed. `MaxLocationLength` is the option value. Characters are `"x"` or a newline. A file name is a sequence of `"c"` and `"/"`. Pads are computed in `size_t` arithmetic modulo `2^SizeBits`. |

Each action models one whole public call: its guard, its early returns, and
its assertion failures. Some details:

- **`removeSuccessorImpl`** is modelled by `RemoveSuccessorImpl`. It does the
  following, in the code's order:
  - returns early when the neighbor's `Predecessors` is empty;
  - fails the "half of an edge is missing" assertion;
  - swap-pops the far half;
  - swap-pops the near half.
- **`disconnect`** is modelled by the recursive `DrainSuccessors` and
  `DrainPredecessors`. They reproduce the loops, which keep working on the
  same position. If the position comes back unchanged, the loop would never
  end; the model records that as `status = "hang"`.
- **`flush`** is one action. It models the location column with the
  code's `rfind`, truncation and padding, the name column, and the
  `find`/`substr` loop, as `RestLines` (recursive). A reference definition,
  `JoinLines`, is what that loop is checked against.
- **`GraphTraits`** are modelled as child maps for the bidirectional and
  mutable variants (`Children`, `InverseChildren`). A generic algorithm,
  `Reach`, is written once and run over either map.
- **Addresses** of nodes and labels are model values, and the model can reuse
  a freed address. That reuse is what makes a dangling `EntryNode` observable.

## Runs

| Run | Config | Expect | What it shows |
|---|---|---|---|
| `mutable_graph` | `MC_MutableEdgeGraph.cfg` | pass | With any sequence of calls that respects the contract, on 3 nodes, 3 label addresses and up to 3 live edges (self-loops included), the following hold. `InverseTraversalIsTranspose`: an algorithm over `GraphTraits<Inverse<>>` reaches exactly the transposed reachability. `EdgeHalvesMirror`: the two halves of every edge match and share one label. `OneEdgePerPair`: there is one edge per pair. `NoDanglingNeighbor`: no half names a removed node. `InternalChecksHold`: no layout assertion fails and `disconnect` never hangs. `RefinesAbstractGraph`: the model implements `AbstractGraph` under the mapping "edges = owning halves". |
| `mutable_entry` | `MC_MutableEdgeGraph_Entry.cfg` | violation | After `removeNode` on the entry node, `EntryNode` points at a destroyed node. |
| `bidir_order` | `MC_BidirectionalGraph.cfg` | pass | Removal by `erase` keeps insertion order in both vectors. This holds under any mix of adds, one-sided removals, label writes and node removals. |
| `bidir_traversal` | `MC_BidirectionalGraph_Build.cfg` | pass | While a graph is being built, the inverse traversal reaches exactly the transposed reachability. |
| `bidir_pairs` | `MC_BidirectionalGraph_Pairs.cfg` | violation | `BidirectionalNode::addPredecessor` adds two predecessor records for one edge. |
| `logger_flush` | `MC_LoggerFlush.cfg` | pass | These hold for every buffer of up to 3 characters, both file shapes, line numbers 7 and 123, and location widths 0, 4 and 6. `FlushReproducesBuffer`: the printed lines contain no newline, and joined by newlines they give back the buffer less one trailing newline. `LocationColumnWidth`: the location column is exactly `MaxLocationLength + 3` wide. `IndentFollowsScopes`: every printed line is indented two columns per level of the open scopes of enabled loggers, tying `flush` to `LoggerIndent`. `IndentMatchesOpenScopes`: with the enabled flags fixed, `IndentLevel` equals the sum of the open scopes of enabled loggers, however the scopes of two loggers nest. |
| `logger_toggle` | `MC_LoggerToggle.cfg` | pass | Two loggers are enabled and disabled at any point between their writes, flushes, scopes and `setIndentation` calls, with up to 3 characters accepted per logger. `NoTextLost`: take the texts of the lines a logger's flushes printed, then append what is still in its `Buffer`. Newlines aside, the result is exactly the characters the logger accepted. A flush while disabled must keep the buffer, and the split loop must leave no newline inside a line. A mutant that clears the buffer on a disabled flush breaks it, and so does one that keeps the delimiter in continuation lines. |
| `logger_flush_align` | `MC_LoggerFlush_Align.cfg` | violation | With the location column on, the continuation lines of a message start `MaxLocationLength + 3` columns left of its first line's text. |
| `container_foreign_remove` | `MC_GraphContainer.cfg` | violation | In a release build, `removeNode` given a pointer the graph does not own destroys the last node. |
| `mutable_loops` | `MC_MutableEdgeLoops.cfg` | pass | Same bounds as `mutable_graph`, with `disconnect`, `removeNode` and the caller's loop over any nonempty set of successors to drop, run step by step. `LoopsTerminate`: under the fairness above, every loop finishes. `EraseIfRemovesExactly`: continuing from the returned iterator, the caller's loop removes exactly the chosen successors, even though each removal swaps the last edge into the position just visited. `DisconnectIsolates`: when `disconnect` returns, the node has no edge and no other node names it. |
| `parent_after_move` | `MC_GraphParent_Move.cfg` | violation | After `G2 = std::move(G1)`, the nodes now owned by `G2` still report `G1` as their parent. |
| `logger_wrap` | `MC_LoggerToggle_Wrap.cfg` | violation | A scope is opened while its logger is disabled and closed after the logger is enabled. Closing it wraps `IndentLevel` to `2^w - k`, because the assertion `IndentLevel - Level >= 0` is unsigned and cannot stop it. The next flush then pads its line by twice the wrapped value. `FlushPadBounded` fails with a 262-column name column for `w = 8`. |

### Bounds

- **`mutable_loops`**
  - It uses the bounds of `mutable_graph`: 428k states in about a minute,
    without symmetry, because TLC does not combine symmetry with liveness.
  - 3 edges at one node suffice for the returned position to matter: a
    removal swaps an edge that has not been visited into the current slot.
- **`logger_flush`**
  - Buffers of 3 characters contain every arrangement that matters for the
    splitting loop: empty, a lone newline, a newline at either end, and two
    in a row.
  - The two file shapes exercise both branches of `rfind`.
  - The location widths include the option off (0), one that truncates
    the file name and one that pads it (6), and one that trips the
    suffix assertion (4, with line 123).
  - Levels {1} with 2 scopes give indentation 0 to 2. Levels {1, 2} take
    2 minutes and add no new case.
  - `size_t` is 12 bits wide instead of 64. Widths that fit stay exact, and
    a negative pad still wraps.
- **`container_foreign_remove`**: 3 addresses, with reuse. One node and one
  foreign pointer are already enough.

- **`mutable_graph`**
  - 3 nodes are enough for every shape that matters: self-loops, two edges at
    a shared endpoint, and one edge in each direction between a pair.
  - 3 edges are enough for a swap to move an edge that is not the last.
  - 4 edges take almost 4 minutes and add no new shape.
- **`bidir_order`**
  - 2 nodes and 3 adds: the ordering mutant needs 3 edges in one vector to
    show up.
  - 3 nodes with removals take more than 8 minutes.
- **Logger runs**
  - They use `w = 8` in place of 32. Wrapping modulo `2^w` behaves the same
    for every `w`.
  - `logger_flush` opens up to 2 scopes of level 1 across two loggers,
    enough for scopes of different loggers to nest either way.
- **`logger_toggle`**
  - 3 accepted characters per logger are enough for text to be written,
    disabled, flushed and enabled again around it.
  - Location widths 0 and 4: with 4, a flush from line 123 aborts, and
    the abort must leave the buffer's text accounted for. `w = 2`: the
    wrap does not affect what is buffered. The wrap run uses `w = 8`, so that the wrapped pad exceeds
    the bound.

## Findings

1. **`addPredecessor` records the predecessor twice.**
   `BidirectionalNode::addPredecessor` (GenericGraph.h:380-388) appends the
   predecessor itself, then calls `BidirectionalNode::addSuccessor`, which
   appends it again.
2. **`removeNode` leaves `EntryNode` dangling** (GenericGraph.h:983-989).
3. **`unindent` can wrap `IndentLevel`.** Its assertion (Debug.cpp:107) is
   vacuous because it compares an unsigned value with 0. The next flush
   pads each line by twice the wrapped value, about 4 billion spaces.
4. **`removeNode` with a foreign pointer destroys a different node.**
   `removeNode(NodePtr)` (GenericGraph.h:990-992) passes `findNode`'s
   `end()` to `erase`. In a release build that destroys the last node.
5. **Continuation lines are misaligned when the location is on.** The pad of
   continuation lines (Debug.cpp:77) leaves out the location column.
6. **Moving a graph leaves its nodes' `Parent` stale.** `addNode` sets
   the parent (GenericGraph.h:971, 979). `GenericGraph` declares no move
   members of its own, so its implicit move never updates the parent.

## Not modelled, and the plan

Not modelled, with the reason:

- The public `MutableEdgeNode::removePredecessor` overloads (lines 835-846)
  cannot be instantiated: `ReverseSuccessorEdgeIterator` is never declared.
  `removePredecessorImpl` is modelled as it is reached from `disconnect`.
- `GenericGraph::hasNode` and the const `findNode` cannot be instantiated
  either: the const `findNode` builds a `nodes_iterator` out of a
  `const_iterator`.
- `removeSuccessor(S)` with an `S` that is not a successor. It
  dereferences `Successors.end()` (GenericGraph.h:781); what that slot holds
  depends on the vector's capacity, so no model of the outcome is faithful.
- The defaulted copy and move constructors and assignments of
  `MutableEdgeNode` (GenericGraph.h:584-587). A copy gets the same edge
  vectors, but the neighbours' mirror halves still name the original node.
  The graph never copies or moves a node, because it holds them as
  `unique_ptr`. Only caller code that holds nodes by value reaches these
  members.
- `removeNode(NodePtr)` for `MutableEdgeNode` with a pointer the graph does
  not own. Before `erase`, it calls `disconnect` on the slot past the end of
  `Nodes`. That slot holds a null or uninitialised pointer, and nothing
  defines the outcome.
- A `debug-location-max-length` no longer than `:` plus the line number
  aborts `flush` (Debug.cpp:49). The `Flush` action models the abort, and
  `logger_flush` reaches it with width 4 and line 123. The assertion is
  deliberate, and nothing but the option's help text says otherwise, so no
  property claims that `flush` does not abort.
- Nothing states whether a message should mix text from before a disable
  with text written after it, and the code does mix them. `NoTextLost`
  checks only that no text is lost, duplicated or misplaced across lines.
- Unlabelled edges, `EdgeView` and the const iterators only read, or repeat
  the labelled control flow.
- Concepts and `*BaseTCalc` are compile-time only.
- Logger option parsing and the registry are static initialisation and I/O.
  `operator<<` and the registry's `MaxLoggerNameLength` live in `Debug.h`,
  which is not in this repository. They are modelled from their documented
  behaviour.

Further work:

- Larger graph instances, using symmetry over the node addresses.
- `removePredecessor` loops driven by callers, if the public overloads
  become instantiable.
- Order guarantees of `nodes()` in `GraphContainer`.
