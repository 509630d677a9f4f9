------------------------------- MODULE MCCanvas -------------------------------
(***************************************************************************)
(* The canvas in one run: behaviours that edit and run a graph, and others *)
(* that save, reload and restore it, each over one part of the state while *)
(* the other stays as it was.                                              *)
(***************************************************************************)
EXTENDS CanvasLetters, CanvasSession

CONSTANTS d, s, a, c, b, m, m2, e, v  \* nodes

VARIABLE focus  \* which part moves

MCKind == [n \in Nodes |-> CASE n = d -> "dataset" [] n = s -> "splitter" [] n \in {a, b, c} -> "step"
                             [] n \in {m, m2} -> "classifier" [] n = e -> "ensemble" [] n = v -> "preview"]

Chain(nodes) == [i \in 1 .. Len(nodes) - 1 |-> [source |-> nodes[i], target |-> nodes[i + 1], port |-> "x"]]

\* A split whose rows are also preprocessed for the model, an ensemble of two
\* classifiers, and two steps that are merged by a third.
MCSaved == {
  [nodes |-> <<d, s, m, a>>, edges |-> Chain(<<d, s, m>>) \o Chain(<<s, a, m>>), parallel |-> {}],
  [nodes |-> <<d, m, m2, e>>, edges |-> Chain(<<d, m, e>>) \o Chain(<<d, m2, e>>), parallel |-> {}],
  [nodes |-> <<d, a, b, c>>, edges |-> Chain(<<d, a, c>>) \o Chain(<<d, b, c>>), parallel |-> {}]}

vars == <<lettersVars, sessionVars, focus>>

Init ==
  /\ LettersInit /\ SessionInit
  /\ focus \in IF stored.status = "empty" /\ banner = NoBanner THEN {"editing", "session"} ELSE {"session"}
Next == \/ focus = "editing" /\ LettersNext /\ UNCHANGED <<sessionVars, focus>>
        \/ focus = "session" /\ SessionNext /\ UNCHANGED <<lettersVars, focus>>

Spec == Init /\ [][Next]_vars
=============================================================================
