---------------------------- MODULE CanvasLetters ----------------------------
(***************************************************************************)
(* The letters of the canvas while it is edited.  FlowCanvas computes them *)
(* from the edges of the graph but from older nodes: those of the last     *)
(* render in which ids, types, models, labels or titles had changed.  The  *)
(* execution mode of a node is not among these, and letters depend on it.  *)
(***************************************************************************)
EXTENDS CanvasGraph

VARIABLE modes  \* parallel, of the nodes branchStableNodes holds

lettersVars == <<canvasVars, modes>>

LettersTypeOK == CanvasTypeOK /\ modes \subseteq Nodes

LettersInit == CanvasInit /\ modes = {}

\* Steps that may change a type, a model, a label or a title (left out of the
\* graph), and nothing else.
Relabels == UpdateNodeData \/ Undo \/ Redo \/ \E g \in Saved \cup {EmptyGraph} : LoadGraph(g)

\* useBranchStableNodes, of the render after a step.
Rerender ==
  \/ /\ graph'.nodes # graph.nodes \/ Relabels
     /\ modes' = graph'.parallel
  \/ graph'.nodes = graph.nodes /\ UNCHANGED modes

\* The user opens another page and comes back: a new ref takes the nodes there are.
Remount ==
  /\ dialog = Closed
  /\ modes' = graph.parallel
  /\ UNCHANGED canvasVars

LettersNext ==
  \/ CanvasNext /\ Rerender
  \/ Remount

LettersSpec == LettersInit /\ [][LettersNext]_lettersVars

-----------------------------------------------------------------------------
(* Properties.                                                             *)

\* Canvases on which both sides are to see the same branches: no ensembles or
\* clusterings, steps that end nowhere only if nothing is trained, previews only
\* beside another consumer.
Plain(g) ==
  LET ends == {n \in NodesOf(Active(g)) : Successors(Active(g), n) = {}} IN
  /\ \A n \in NodesOf(g) : Kind[n] \notin {"ensemble", "segmentation"}
  /\ (\A n \in NodesOf(g) : Kind[n] # "classifier") \/ (\A n \in ends : Kind[n] = "classifier")
  /\ \A n \in ends : Successors(g, n) = {}

\* useBranchColors, of the nodes it is given.
Shown == CanvasBranches([graph EXCEPT !.parallel = modes])
Tabs == PreviewTabs(Active(request), Config(Active(request)))

\* The graph that runs is the one on the canvas.
RunsCanvas == request # NoGraph /\ request = graph /\ ~raced /\ ~looped

\* A path on the canvas and the tab of the preview that bears its letter are the
\* same branch, on plain canvases and wherever both sides see the same branches;
\* the target wire of a feature-target split into a parallel node breaks it, and a
\* Merge/Parallel toggle that the canvas has not taken in.
LettersAgree ==
  RunsCanvas /\ modes = graph.parallel
  /\ (\A e \in EdgesOf(graph) : e.port = "y" /\ Kind[e.source] = "fts" => e.target \notin graph.parallel)
  => (Plain(graph) \/ ToSet(Shown) = ToSet(Tabs) => Shown = Tabs)
=============================================================================
