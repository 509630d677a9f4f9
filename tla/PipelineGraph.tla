---------------------------- MODULE PipelineGraph ----------------------------
(***************************************************************************)
(* A pipeline as the canvas holds it, and what the front end makes of it:  *)
(* which connections it accepts, which configuration it sends to the       *)
(* backend, and which issues stop it from sending one.                     *)
(*                                                                         *)
(* A node has a kind and, for a preprocessing step, possibly a fit that    *)
(* learns from the rows it sees; the other settings are left out.  An edge *)
(* leaves one of the ports of its source: splitters have two, and port "y" *)
(* of a feature-target split carries the target.                           *)
(***************************************************************************)
EXTENDS Naturals, SequencesExt, Lists

CONSTANTS
  Nodes,    \* node ids
  Kind,     \* definitionType, by node
  Learners  \* steps that learn_from_data and match no exemption

Kinds == {"dataset", "step", "splitter", "fts", "classifier", "segmentation",
          "ensemble", "preview"}

ASSUME GraphAssumption ==
  /\ IsFiniteSet(Nodes) /\ Kind \in [Nodes -> Kinds]
  /\ Learners \subseteq {n \in Nodes : Kind[n] = "step"}

\* MODEL_NODE_TYPES; a classifier is any of the supervised training nodes.
ModelKinds == {"classifier", "segmentation", "ensemble"}

Ports(n) == IF Kind[n] \in {"splitter", "fts"} THEN {"x", "y"} ELSE {"x"}
Edges == {e \in [source : Nodes, target : Nodes, port : {"x", "y"}] : e.port \in Ports(e.source)}

\* nodes and edges in the order of their arrays, and execution_mode.
Graphs == [nodes : Seq(Nodes), edges : Seq(Edges), parallel : SUBSET Nodes]
EmptyGraph == [nodes |-> << >>, edges |-> << >>, parallel |-> {}]

NodesOf(g) == ToSet(g.nodes)
EdgesOf(g) == ToSet(g.edges)

-----------------------------------------------------------------------------
(* Paths.                                                                  *)

\* The nodes from which next(_) leads to S, S included.
Closure(S, next(_)) ==
  LET grow[k \in 0 .. Cardinality(Nodes)] ==
        IF k = 0 THEN S ELSE LET found == grow[k - 1] IN found \cup UNION {next(n) : n \in found}
  IN grow[Cardinality(Nodes)]

Successors(g, n) == {e.target : e \in {d \in EdgesOf(g) : d.source = n}}
Predecessors(g, n) == {e.source : e \in {d \in EdgesOf(g) : d.target = n}}

Downstream(g, S) == LET next(n) == Successors(g, n) IN Closure(S, next)
Upstream(g, S) == LET next(n) == Predecessors(g, n) IN Closure(S, next)

\* A path of one or more edges.
Leads(g, a, b) == b \in Downstream(g, Successors(g, a))
Acyclic(g) == \A n \in Nodes : ~Leads(g, n, n)

\* No edge has lost an end.
Intact(g) == \A e \in EdgesOf(g) : {e.source, e.target} \subseteq NodesOf(g)

-----------------------------------------------------------------------------
(* Connecting.                                                             *)

\* Mutant of WouldCreateCycle: only the self-loop is refused.
RefusesSelfLoops(g, source, target) == source = target

WouldCreateCycle(g, source, target) == source \in Downstream(g, {target})

IsModelEndpointViolation(source, target) ==
  Kind[source] \in ModelKinds /\ Kind[target] # "ensemble"

\* A DatasetNode has no input handle, a DataPreviewNode no output handle.
Fits(source, target) ==
  /\ Kind[target] # "dataset" /\ Kind[source] # "preview"
  /\ ~IsModelEndpointViolation(source, target)

Connectable(g, e) ==
  /\ {e.source, e.target} \subseteq NodesOf(g)
  /\ Fits(e.source, e.target)
  /\ ~WouldCreateCycle(g, e.source, e.target)

\* Every edge of g is one that may be drawn.
Drawn(g) == \A e \in EdgesOf(g) : Fits(e.source, e.target)

\* addEdge of React Flow: an edge is added once.
AddEdge(edges, e) == IF Contains(edges, e) THEN edges ELSE Append(edges, e)

-----------------------------------------------------------------------------
(* convertGraphToPipelineConfig.                                           *)

\* What is run: previews are inspection sinks.
Active(g) ==
  LET run == {n \in Nodes : Kind[n] # "preview"}
      wires == {e \in EdgesOf(g) : {e.source, e.target} \subseteq run}
  IN [g EXCEPT !.nodes = Filtered(@, run), !.edges = Filtered(@, wires)]

\* Sources of the edges into n, and targets of the edges out of it, in edge order.
Into(g, n) == LET found == Filtered(g.edges, {e \in EdgesOf(g) : e.target = n})
              IN [i \in 1 .. Len(found) |-> found[i].source]
OutOf(g, n) == LET found == Filtered(g.edges, {e \in EdgesOf(g) : e.source = n})
               IN [i \in 1 .. Len(found) |-> found[i].target]

\* The walk that emits the nodes: breadth first from all datasets, each node
\* when it is first met.
Order(g) ==
  LET datasets == Filtered(g.nodes, {n \in Nodes : Kind[n] = "dataset"})
      walk[k \in 0 .. Len(datasets) + Len(g.edges)] ==
        IF k = 0 THEN [queue |-> datasets, visited |-> << >>]
        ELSE LET w == walk[k - 1] IN
             IF w.queue = << >> THEN w
             ELSE LET n == Head(w.queue) IN
                  IF Contains(w.visited, n) \/ n \notin NodesOf(g)
                  THEN [w EXCEPT !.queue = Tail(@)]
                  ELSE [queue |-> Tail(w.queue) \o OutOf(g, n), visited |-> Append(w.visited, n)]
  IN walk[Len(datasets) + Len(g.edges)].visited

\* An ensemble takes the recipes of the classifiers wired into it, not their
\* output; without a wire of its own that carries data it inherits theirs.
WiredModels(g, n) ==
  Filtered(Distinct(Into(g, n)), {s \in NodesOf(g) : Kind[s] = "classifier"})

Inputs(g, n) ==
  LET models == WiredModels(g, n)
      data == Nodes \ ToSet(models)
      direct == Filtered(Distinct(Into(g, n)), data)
      inherited == FlattenSeq([i \in 1 .. Len(models) |-> Into(g, models[i])])
  IN IF Kind[n] # "ensemble" \/ direct # << >> THEN IF Kind[n] = "ensemble" THEN direct
                                                    ELSE Distinct(Into(g, n))
     ELSE Distinct(Filtered(inherited, data))

\* A classifier wired into ensembles only does not run by itself.
SpecOnly(g, n) ==
  /\ Kind[n] = "classifier"
  /\ Successors(g, n) # {}
  /\ \A m \in Successors(g, n) : m \in NodesOf(g) /\ Kind[m] = "ensemble"

ConfigIds(config) == {config[i].id : i \in 1 .. Len(config)}
InputsIn(config, n) == UNION {ToSet(config[i].inputs) : i \in {k \in 1 .. Len(config) : config[k].id = n}}
ConsumersIn(config, n) == {config[i].id : i \in {k \in 1 .. Len(config) : Contains(config[k].inputs, n)}}

\* Nodes from which neither a training node nor a leaf is reached are dropped.
Pruned(config) ==
  LET ids == ConfigIds(config)
      terminals == {n \in ids : Kind[n] \in ModelKinds \cup {"preview"}}
      dataLeaves == IF Len(config) > 1 THEN {n \in ids : ConsumersIn(config, n) = {}} ELSE {}
      seeds == IF terminals # {} \/ Cardinality(dataLeaves) > 1 THEN terminals \cup dataLeaves ELSE {}
      next(n) == InputsIn(config, n)
      kept == Closure(seeds, next)
  IN IF seeds = {} THEN config ELSE Filtered(config, {entry \in ToSet(config) : entry.id \in kept})

Config(g) ==
  LET order == Filtered(Order(g), {n \in Nodes : ~SpecOnly(g, n)})
  IN Pruned([i \in 1 .. Len(order) |-> [id |-> order[i], inputs |-> Inputs(g, order[i])]])

-----------------------------------------------------------------------------
(* collectGraphValidationIssues, of a graph without its previews; issues   *)
(* with the settings of a node are left out.                               *)

ConnectionIssues(g) ==
  {n \in NodesOf(g) : IF Kind[n] = "dataset" THEN Successors(g, n) = {} ELSE Predecessors(g, n) = {}}

\* Mutant of LeakageIssues: only the next step is looked at.
DirectLeakage(config) ==
  {n \in ConfigIds(config) \cap Learners : \E m \in ConsumersIn(config, n) : Kind[m] = "splitter"}

\* findPreprocessingBeforeSplitIssues
LeakageIssues(config) ==
  LET next(n) == ConsumersIn(config, n) IN
  {n \in ConfigIds(config) \cap Learners :
    \E m \in Closure(ConsumersIn(config, n), next) : Kind[m] = "splitter"}

\* findCycleIssues: what Kahn's algorithm leaves, inputs that are not sent
\* being ignored.
CycleIssues(config) ==
  LET ids == ConfigIds(config)
      ordered[k \in 0 .. Len(config)] ==
        IF k = 0 THEN {}
        ELSE LET done == ordered[k - 1] IN
             done \cup {n \in ids : InputsIn(config, n) \cap ids \subseteq done}
  IN ids \ ordered[Len(config)]

Valid(g) ==
  LET config == Config(g) IN
  ConnectionIssues(g) = {} /\ LeakageIssues(config) = {} /\ CycleIssues(config) = {}

-----------------------------------------------------------------------------
(* chainSiblings                                                           *)

ChainSiblings(g, consumer, inputs) ==
  LET tails == ToSet(Tail(inputs))
      replaced == {e \in EdgesOf(g) : (e.target = consumer /\ e.source \in ToSet(inputs)) \/ e.target \in tails}
      chain == Append(inputs, consumer)
      linked[i \in 0 .. Len(inputs)] ==
        IF i = 0 THEN Filtered(g.edges, EdgesOf(g) \ replaced)
        ELSE AddEdge(linked[i - 1], [source |-> chain[i], target |-> chain[i + 1], port |-> "x"])
  IN [g EXCEPT !.edges = linked[Len(inputs)]]
=============================================================================
