----------------------------- MODULE PathLetters -----------------------------
(***************************************************************************)
(* The letters Path A, Path B, ... are given twice: useBranchColors gives  *)
(* them to the edges of the canvas, the preview endpoint to the tabs of    *)
(* its answer.  Both are sequences of branches: the node a branch ends in, *)
(* and the input it is restricted to if that node runs in parallel.        *)
(***************************************************************************)
EXTENDS PipelineGraph

\* A branch of a merging node is restricted to none of its inputs.
Merged == "merged"
Whole(n) == <<n, Merged>>
PerInput(n, sources) == [i \in 1 .. Len(sources) |-> <<n, sources[i]>>]

\* Letters are shown for two or more branches.
Lettered(branches) == IF Len(branches) < 2 THEN << >> ELSE branches

-----------------------------------------------------------------------------
(* useBranchColors, of the whole canvas.                                   *)

\* Training and ensemble nodes with an input, then leaves.
Terminals(g) ==
  LET isModel(n) == /\ Kind[n] \in {"classifier", "ensemble"}
                    /\ Predecessors(g, n) # {} /\ ~SpecOnly(g, n)
      isLeaf(n) == /\ ~isModel(n) /\ Successors(g, n) = {}
                   /\ Predecessors(g, n) # {} /\ Kind[n] # "preview"
  IN SelectSeq(g.nodes, isModel) \o SelectSeq(g.nodes, isLeaf)

\* Breadth first from the nodes without an input, each node when it is queued.
Levels(g) ==
  LET isSource(n) == Predecessors(g, n) = {}
      sources == SelectSeq(g.nodes, isSource)
      walk[k \in 0 .. Len(g.nodes)] ==
        IF k = 0 THEN sources
        ELSE LET queue == walk[k - 1] IN
             IF k > Len(queue) THEN queue ELSE Distinct(queue \o OutOf(g, queue[k]))
  IN walk[Len(g.nodes)]

\* n in s comes at this place, or after all that do.
Place(s, n) == IF Contains(s, n) THEN CHOOSE i \in 1 .. Len(s) : s[i] = n ELSE Len(s) + 1

\* s sorted by f(_), ties in their order.
StableSort(s, f(_)) ==
  LET before(i, k) == f(s[i]) < f(s[k]) \/ (f(s[i]) = f(s[k]) /\ i < k)
      places == SortSeq([i \in 1 .. Len(s) |-> i], before)
  IN [i \in 1 .. Len(s) |-> s[places[i]]]

\* Edges from the target port of a feature-target split are no input of their own.
MainSources(g, n) ==
  LET main(e) == e.target = n /\ ~(e.port = "y" /\ Kind[e.source] = "fts")
      found == SelectSeq(g.edges, main)
  IN Distinct([i \in 1 .. Len(found) |-> found[i].source])

IsParallel(g, n) == n \in g.parallel /\ Kind[n] = "classifier"

\* Mutant of CanvasBranches: in the order of the terminals.
UnsortedBranches(g) ==
  LET ends == Terminals(g)
      branches(n) == LET sources == MainSources(g, n) IN
                     IF IsParallel(g, n) /\ Len(sources) > 1 THEN PerInput(n, sources) ELSE <<Whole(n)>>
  IN Lettered(FlattenSeq([i \in 1 .. Len(ends) |-> branches(ends[i])]))

CanvasBranches(g) ==
  LET place(n) == Place(Levels(g), n)
      ends == StableSort(Terminals(g), place)
      branches(n) == LET sources == MainSources(g, n) IN
                     IF IsParallel(g, n) /\ Len(sources) > 1 THEN PerInput(n, sources) ELSE <<Whole(n)>>
  IN Lettered(FlattenSeq([i \in 1 .. Len(ends) |-> branches(ends[i])]))

-----------------------------------------------------------------------------
(* The preview endpoint, of the configuration it is sent.                  *)

\* _collect_ancestors: what a sub-pipeline that ends in n holds.
Ancestry(config, n) == LET next(m) == InputsIn(config, m) IN Closure({n}, next)

\* partition_for_preview: leaves of the configuration without its training nodes;
\* with one leaf the branch is all of it, to end in its last node.
PreviewLeaves(config) ==
  LET isData(entry) == Kind[entry.id] \notin ModelKinds
      data == SelectSeq(config, isData)
      isLeaf(entry) == ConsumersIn(data, entry.id) = {}
      found == SelectSeq(data, isLeaf)
      ends == IF Len(found) = 1 THEN << data[Len(data)] >> ELSE found
  IN [i \in 1 .. Len(ends) |-> ends[i].id]

\* partition_parallel_pipeline, a configuration with one training node that does
\* not run in parallel being left whole, to end in its last node: the branches and
\* what each covers.
TrainingBranches(g, config) ==
  LET trains(entry) == Kind[entry.id] \in ModelKinds
      terminals == SelectSeq(config, trains)
      splits(entry) == entry.id \in g.parallel /\ Len(entry.inputs) > 1
      perInput(entry) ==
        [i \in 1 .. Len(entry.inputs) |->
          [branch |-> <<entry.id, entry.inputs[i]>>, ends |-> entry.id,
           covers |-> Ancestry(config, entry.inputs[i]) \cup {entry.id}]]
      merged(entry) == << [branch |-> Whole(entry.id), ends |-> entry.id,
                           covers |-> Ancestry(config, entry.id)] >>
      parts(entry) == IF splits(entry) THEN perInput(entry) ELSE merged(entry)
  IN IF Len(terminals) = 1 /\ ~splits(terminals[1])
     THEN << [branch |-> Whole(terminals[1].id), ends |-> config[Len(config)].id,
              covers |-> ConfigIds(config)] >>
     ELSE FlattenSeq([i \in 1 .. Len(terminals) |-> parts(terminals[i])])

\* _partition_preview_pipeline and the sort by position in the configuration.
PreviewTabs(g, config) ==
  LET trained == TrainingBranches(g, config)
      covered == UNION {trained[i].covers : i \in 1 .. Len(trained)}
      hasTraining == \E n \in ConfigIds(config) : Kind[n] \in ModelKinds
      uncovered(n) == n \notin covered
      leaves == IF hasTraining THEN SelectSeq(PreviewLeaves(config), uncovered) ELSE PreviewLeaves(config)
      dangling == [i \in 1 .. Len(leaves) |-> [branch |-> Whole(leaves[i]), ends |-> leaves[i]]]
      all == (IF hasTraining THEN [i \in 1 .. Len(trained) |->
                                     [branch |-> trained[i].branch, ends |-> trained[i].ends]]
              ELSE << >>) \o dangling
      ids == [i \in 1 .. Len(config) |-> config[i].id]
      place(b) == Place(ids, b.ends)
      sorted == StableSort(all, place)
  IN Lettered([i \in 1 .. Len(all) |-> sorted[i].branch])
=============================================================================
