----------------------------- MODULE CanvasGraph -----------------------------
(***************************************************************************)
(* useGraphStore: the graph on the canvas, its undo history, the clipboard *)
(* and the preview run of the graph.  Two things take time: a confirmation *)
(* dialog, which goes on with what it captured when it was opened, and a   *)
(* run, whose results are shown beside whatever the canvas holds by then.  *)
(* While a dialog is open the keyboard still reaches the canvas.           *)
(*                                                                         *)
(* Undo and redo are those of zundo (external): each change of nodes or    *)
(* edges puts the graph before it on the history.                          *)
(***************************************************************************)
EXTENDS PathLetters

CONSTANTS
  Saved,         \* graphs that may be loaded: versions, recent pipelines, the autosave
  HistoryLimit,  \* limit of the history
  MaxEdits,      \* bound: what the user does, undo, redo, runs and answers aside
  NoGraph        \* no run, or no results

ASSUME CanvasAssumption ==
  /\ Saved \subseteq Graphs /\ \A g \in Saved : Acyclic(g) /\ Intact(g) /\ Drawn(g)
  /\ HistoryLimit \in Nat \ {0} /\ MaxEdits \in Nat
  /\ NoGraph \notin Graphs

VARIABLES
  graph,      \* nodes and edges
  past,       \* pastStates
  future,     \* futureStates
  clipboard,
  dialog,     \* what a confirmation dialog will do
  request,    \* the graph whose preview run is in flight
  result,     \* the graph whose executionResult is shown
  edits,
  raced,      \* history: the graph was undone or redone under a delete dialog
  looped      \* history: nodes were chained that were no siblings any more

history == <<past, future>>
runs == <<request, result>>
canvasVars == <<graph, history, clipboard, dialog, runs, edits, raced, looped>>

Closed == [asks |-> "nothing"]
Dialogs == {Closed}
  \cup [asks : {"delete"}, nodes : SUBSET Nodes, edges : SUBSET Edges]
  \cup [asks : {"chain"}, consumer : Nodes, inputs : Seq(Nodes)]

CanvasTypeOK ==
  /\ graph \in Graphs /\ past \in Seq(Graphs) /\ future \in Seq(Graphs)
  /\ clipboard \in Graphs /\ dialog \in Dialogs
  /\ request \in Graphs \cup {NoGraph} /\ result \in Graphs \cup {NoGraph}
  /\ edits \in 0 .. MaxEdits /\ raced \in BOOLEAN /\ looped \in BOOLEAN

CanvasInit ==
  /\ graph = EmptyGraph /\ past = << >> /\ future = << >>
  /\ clipboard = EmptyGraph /\ dialog = Closed
  /\ request = NoGraph /\ result = NoGraph
  /\ edits = 0 /\ raced = FALSE /\ looped = FALSE

-----------------------------------------------------------------------------
(* Steps.                                                                  *)

Newest(states) ==
  SubSeq(states, IF Len(states) > HistoryLimit THEN Len(states) - HistoryLimit + 1 ELSE 1, Len(states))

\* set(): the graphs before the change and in the middle of it are remembered.
Remember(before) == past' = Newest(past \o before) /\ future' = << >>
Commit(g) == graph' = g /\ Remember(<<graph>>)

Edit == edits < MaxEdits /\ edits' = edits + 1
Acts == Edit /\ dialog = Closed

\* Ids that an edge without a node still names are in use as well.
Named(g) == NodesOf(g) \cup UNION {{e.source, e.target} : e \in EdgesOf(g)}
Used == UNION {Named(g) : g \in {graph, clipboard} \cup ToSet(past) \cup ToSet(future)
                               \cup ({request, result} \ {NoGraph})}
Fresh == Nodes \ (Used \cup IF dialog.asks = "delete" THEN dialog.nodes ELSE {})

\* uuidv4() for copies of these nodes.
FreshIds(ids) ==
  {f \in Injection(ids, Fresh) : \A n \in ids : Kind[f[n]] = Kind[n] /\ (f[n] \in Learners <=> n \in Learners)}

\* The part of g on some of its nodes.
Restricted(g, S) ==
  [nodes |-> Filtered(g.nodes, S),
   edges |-> Filtered(g.edges, {e \in EdgesOf(g) : {e.source, e.target} \subseteq S}),
   parallel |-> g.parallel \cap S]

\* g with the copy of part, under new ids, behind it.
Pasted(g, part, f) ==
  [nodes |-> g.nodes \o [i \in 1 .. Len(part.nodes) |-> f[part.nodes[i]]],
   edges |-> g.edges \o [i \in 1 .. Len(part.edges) |->
                          [part.edges[i] EXCEPT !.source = f[@], !.target = f[@]]],
   parallel |-> g.parallel \cup {f[n] : n \in part.parallel}]

\* Some of the nodes (bound: at most two).
Selections == {S \in SUBSET NodesOf(graph) : S # {} /\ Cardinality(S) <= 2}

-----------------------------------------------------------------------------
(* Editing.                                                                *)

AddNode(n) ==
  /\ Acts /\ n \in Fresh
  /\ Commit([graph EXCEPT !.nodes = Append(@, n)])
  /\ UNCHANGED <<clipboard, dialog, runs, raced, looped>>

\* onConnect behind isValidConnection; an edge that is there changes nothing.
OnConnect(e) ==
  /\ Acts /\ Connectable(graph, e)
  /\ ~Contains(graph.edges, e)
  /\ Commit([graph EXCEPT !.edges = AddEdge(@, e)])
  /\ UNCHANGED <<clipboard, dialog, runs, raced, looped>>

\* setExecutionMode, of a node that has the toggle.
SetExecutionMode(n) ==
  /\ Acts /\ n \in NodesOf(graph) /\ Kind[n] = "classifier"
  /\ \E p \in {graph.parallel \cup {n}, graph.parallel \ {n}} : Commit([graph EXCEPT !.parallel = p])
  /\ UNCHANGED <<clipboard, dialog, runs, raced, looped>>

\* updateNodeData, or the selection of an edge: the same graph, and an entry of
\* the history all the same.
UpdateNodeData ==
  /\ Acts /\ graph.nodes # << >>
  /\ Commit(graph)
  /\ UNCHANGED <<clipboard, dialog, runs, raced, looped>>

\* onEdgesChange, of an edge that is removed.
RemoveEdge(e) ==
  /\ Acts /\ e \in EdgesOf(graph)
  /\ Commit([graph EXCEPT !.edges = Filtered(@, EdgesOf(graph) \ {e})])
  /\ UNCHANGED <<clipboard, dialog, runs, raced, looped>>

\* duplicateSelectedNodes: without edges.
DuplicateSelectedNodes(S) ==
  /\ Edit /\ S \in Selections
  /\ \E f \in FreshIds(S) : Commit(Pasted(graph, [Restricted(graph, S) EXCEPT !.edges = << >>], f))
  /\ UNCHANGED <<clipboard, dialog, runs, raced, looped>>

CopySelected(S) ==
  /\ Edit /\ S \in Selections
  /\ clipboard' = Restricted(graph, S)
  /\ UNCHANGED <<graph, history, dialog, runs, raced, looped>>

Paste ==
  /\ Edit /\ clipboard # EmptyGraph
  /\ \E f \in FreshIds(NodesOf(clipboard)) : Commit(Pasted(graph, clipboard, f))
  /\ UNCHANGED <<clipboard, dialog, runs, raced, looped>>

\* setGraph from a version, a recent pipeline or the autosave, or handleClearCanvas.
LoadGraph(g) ==
  /\ Acts /\ Commit(g)
  /\ UNCHANGED <<clipboard, dialog, runs, raced, looped>>

-----------------------------------------------------------------------------
(* Deleting, and chaining what a merge advisory names.                     *)

\* React Flow collects the edges of the selected nodes, then awaits onBeforeDelete.
AskDelete(S) ==
  /\ Acts /\ S \in Selections
  /\ dialog' = [asks |-> "delete", nodes |-> S,
                edges |-> {e \in EdgesOf(graph) : e.source \in S \/ e.target \in S}]
  /\ UNCHANGED <<graph, history, clipboard, runs, raced, looped>>

WithoutEdges(g, E) == [g EXCEPT !.edges = Filtered(@, EdgesOf(g) \ E)]
WithoutNodes(g, S) == [g EXCEPT !.nodes = Filtered(@, NodesOf(g) \ S), !.parallel = @ \ S]

\* Mutant of ConfirmDelete: onNodesChange comes first.
DeleteNodesFirst ==
  LET bare == WithoutNodes(graph, dialog.nodes) IN
  /\ dialog.asks = "delete"
  /\ graph' = WithoutEdges(bare, dialog.edges)
  /\ Remember(IF dialog.edges = {} THEN <<graph>> ELSE <<graph, bare>>)
  /\ dialog' = Closed
  /\ UNCHANGED <<clipboard, runs, edits, raced, looped>>

\* onEdgesChange and then onNodesChange: two entries of the history.
ConfirmDelete ==
  LET unwired == WithoutEdges(graph, dialog.edges) IN
  /\ dialog.asks = "delete"
  /\ graph' = WithoutNodes(unwired, dialog.nodes)
  /\ Remember(IF dialog.edges = {} THEN <<graph>> ELSE <<graph, unwired>>)
  /\ dialog' = Closed
  /\ UNCHANGED <<clipboard, runs, edits, raced, looped>>

\* The advisory of a run names the inputs of a data node that are true siblings:
\* none an ancestor of another, but with an ancestor in common.
Siblings(config, inputs) ==
  LET next(m) == InputsIn(config, m)
      ancestors(n) == Closure(InputsIn(config, n), next)
  IN /\ Len(inputs) >= 2
     /\ \A a, b \in ToSet(inputs) : a \notin ancestors(b)
     /\ \E c \in Nodes : \A a \in ToSet(inputs) : c \in ancestors(a)

AskChain(n) ==
  /\ Acts /\ result # NoGraph
  /\ LET config == Config(Active(result))
         inputs == Inputs(Active(result), n)
     IN /\ n \in ConfigIds(config) /\ Kind[n] \notin ModelKinds
        /\ Siblings(config, inputs)
        /\ dialog' = [asks |-> "chain", consumer |-> n, inputs |-> inputs]
  /\ UNCHANGED <<graph, history, clipboard, runs, raced, looped>>

\* chainSiblings, of the graph as it is now; it fails if a node is gone.
ConfirmChain ==
  LET named == Append(dialog.inputs, dialog.consumer) IN
  /\ dialog.asks = "chain"
  /\ IF ToSet(named) \subseteq NodesOf(graph)
     THEN /\ Commit(ChainSiblings(graph, dialog.consumer, dialog.inputs))
          /\ looped' = (looped \/ \E i \in 1 .. Len(dialog.inputs), a \in ToSet(named) :
                                    a # dialog.inputs[i] /\ Leads(graph, a, dialog.inputs[i]))
     ELSE UNCHANGED <<graph, history, looped>>
  /\ dialog' = Closed
  /\ UNCHANGED <<clipboard, runs, edits, raced>>

Decline ==
  /\ dialog # Closed /\ dialog' = Closed
  /\ UNCHANGED <<graph, history, clipboard, runs, edits, raced, looped>>

-----------------------------------------------------------------------------
(* Undo and redo.                                                          *)

Undo ==
  /\ past # << >>
  /\ graph' = Last(past) /\ past' = Front(past)
  /\ future' = Append(future, graph)
  /\ raced' = (raced \/ dialog.asks = "delete")
  /\ UNCHANGED <<clipboard, dialog, runs, edits, looped>>

Redo ==
  /\ future # << >>
  /\ graph' = Last(future) /\ future' = Front(future)
  /\ past' = Append(past, graph)
  /\ raced' = (raced \/ dialog.asks = "delete")
  /\ UNCHANGED <<clipboard, dialog, runs, edits, looped>>

-----------------------------------------------------------------------------
(* Running.                                                                *)

\* handleRun up to its await: the results of the last run are dropped.
HandleRun ==
  /\ dialog = Closed /\ request = NoGraph
  /\ graph.nodes # << >> /\ Valid(Active(graph))
  /\ request' = graph /\ result' = NoGraph
  /\ UNCHANGED <<graph, history, clipboard, dialog, edits, raced, looped>>

\* handleRun with an issue, or the results panel is closed.
DropResult ==
  /\ dialog = Closed /\ result # NoGraph
  /\ result' = NoGraph
  /\ UNCHANGED <<graph, history, clipboard, dialog, request, edits, raced, looped>>

\* The answer, or an error.
RunAnswered ==
  /\ request # NoGraph /\ request' = NoGraph
  /\ result' \in {request, NoGraph}
  /\ UNCHANGED <<graph, history, clipboard, dialog, edits, raced, looped>>

-----------------------------------------------------------------------------
CanvasNext ==
  \/ \E n \in Nodes : AddNode(n) \/ SetExecutionMode(n) \/ AskChain(n)
  \/ \E e \in Edges : OnConnect(e) \/ RemoveEdge(e)
  \/ \E S \in Selections : DuplicateSelectedNodes(S) \/ CopySelected(S) \/ AskDelete(S)
  \/ \E g \in Saved \cup {EmptyGraph} : LoadGraph(g)
  \/ UpdateNodeData \/ Paste
  \/ ConfirmDelete \/ ConfirmChain \/ Decline
  \/ Undo \/ Redo
  \/ HandleRun \/ DropResult \/ RunAnswered

CanvasSpec == CanvasInit /\ [][CanvasNext]_canvasVars

-----------------------------------------------------------------------------
(* Properties.                                                             *)

\* No edge of the canvas, or of a graph that undo, redo or paste may bring back,
\* has lost an end: deletes take the edges first, copies only the edges inside.
\* It fails if the graph is undone while a delete dialog is open.
EdgesHaveNodes ==
  ~raced => \A g \in {graph, clipboard} \cup ToSet(past) \cup ToSet(future) : Intact(g)

\* No sequence of edits, undos and chains closes a loop, provided that the nodes
\* an advisory names are still siblings when they are chained.
NoLoops == ~looped => Acyclic(graph)

\* What a run sends: no loop; nothing without inputs but datasets, and no model
\* where data is expected; nothing that learns from rows upstream of a splitter,
\* over any path of the canvas; and, unless nodes were chained that were no
\* siblings, all of the canvas but for recipes of ensembles, with it all that a
\* node needs.  After such a chain an input may be missing: a loop that no dataset
\* leads into is not sent, whatever it leads to is.
RunsAreSound ==
  request # NoGraph /\ ~raced =>
    LET g == Active(request)
        config == Config(g)
        sent == ConfigIds(config)
        needs(n) == InputsIn(config, n)
    IN /\ \A n \in sent : n \notin Closure(needs(n), needs)
       /\ \A n \in sent : /\ needs(n) = {} <=> Kind[n] = "dataset"
                          /\ \A m \in needs(n) : Kind[m] # "classifier"
       /\ \A n \in sent \cap Learners : \A m \in sent : Leads(g, n, m) => Kind[m] # "splitter"
       /\ ~looped => /\ sent = {n \in NodesOf(g) : ~SpecOnly(g, n)}
                     /\ \A n \in sent : needs(n) \subseteq sent

\* The engine runs the nodes as they are sent: each after what it needs, as the
\* converter's own test asks for.
SentInRunnableOrder ==
  request # NoGraph =>
    LET config == Config(Active(request)) IN
    \A i, k \in 1 .. Len(config) : Contains(config[k].inputs, config[i].id) => i < k
=============================================================================
