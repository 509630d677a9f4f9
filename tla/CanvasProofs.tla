---------------------------- MODULE CanvasProofs ----------------------------
(***************************************************************************)
(* The canvas, for any nodes, edges, saved graphs and history, and what    *)
(* the browser keeps of it, for any number of edits, reloads and saves.    *)
(*                                                                         *)
(* What filters, walks and Kahn's algorithm compute is shown by induction  *)
(* over a set of the rounds they take: UpTo, from the least element of a   *)
(* set of numbers.                                                         *)
(***************************************************************************)
EXTENDS CanvasLetters, CanvasSession, WellFoundedInduction, FiniteSetTheorems, TLAPS

-----------------------------------------------------------------------------
(* Recursion.                                                              *)

\* Sets of natural numbers have a least element.
LEMMA Least ==
  ASSUME NEW T \in SUBSET Nat, T # {}
  PROVE  \E m \in T : \A k \in T : m <= k
<1> DEFINE R == {ss \in Nat \X Nat : ss[1] < ss[2]}
<1>1. IsWellFoundedOn(R, Nat) BY NatLessThanWellFounded DEF OpToRel
<1>2. \E x \in T : \A y \in T : ~(<<y, x>> \in R)
  <2> HIDE DEF R
  <2> QED BY <1>1, WFMin
<1>3. PICK x \in T : \A y \in T : ~(<<y, x>> \in R) BY <1>2
<1>4. ASSUME NEW y \in T PROVE x <= y
  <2>1. ~(<<y, x>> \in R) BY <1>3
  <2>2. x \in Nat /\ y \in Nat OBVIOUS
  <2>3. ~(y < x)
    <3>1. <<y, x>> \in Nat \X Nat BY <2>2
    <3>2. y < x => <<y, x>> \in R BY <3>1
    <3> QED BY <2>1, <3>2
  <2> QED BY <2>2, <2>3
<1> QED BY <1>4

\* Induction up to n, over a set.
LEMMA UpTo ==
  ASSUME NEW n \in Nat, NEW P, 0 \in P, \A k \in 1 .. n : k - 1 \in P => k \in P
  PROVE  \A k \in 0 .. n : k \in P
<1> DEFINE T == (0 .. n) \ P
<1> SUFFICES ASSUME T # {} PROVE FALSE OBVIOUS
<1>0. T \in SUBSET Nat OBVIOUS
<1>1. PICK m \in T : \A k \in T : m <= k
  <2> HIDE DEF T
  <2> QED BY <1>0, Least
<1>2. m \in 1 .. n BY <1>1
<1>3. m - 1 \in 0 .. n /\ m - 1 \notin T BY <1>1, <1>2
<1> QED BY <1>1, <1>2, <1>3

\* f is defined by recursion on 0 .. n.
Recurses(f, n, D, d0, G) == f \in [0 .. n -> D] /\ f[0] = d0 /\ \A k \in 1 .. n : f[k] = G[<<k, f[k - 1]>>]

\* A function may be defined by recursion on 0 .. n.
LEMMA Recursion ==
  ASSUME NEW n \in Nat, NEW D, NEW d0 \in D, NEW G \in [(1 .. n) \X D -> D]
  PROVE  \E f : Recurses(f, n, D, d0, G)
<1> DEFINE Defines(f, m) == f \in [0 .. m -> D] /\ f[0] = d0 /\ \A k \in 1 .. m : f[k] = G[<<k, f[k - 1]>>]
           P == {m \in 0 .. n : \E f : Defines(f, m)}
<1>1. 0 \in P
  <2>1. Defines([k \in 0 .. 0 |-> d0], 0) OBVIOUS
  <2> HIDE DEF Defines
  <2> QED BY <2>1
<1>2. ASSUME NEW m \in 1 .. n, m - 1 \in P PROVE m \in P
  <2>1. PICK f : Defines(f, m - 1) BY <1>2
  <2> DEFINE h == [k \in 0 .. m |-> IF k < m THEN f[k] ELSE G[<<m, f[m - 1]>>]]
  <2>2. f[m - 1] \in D /\ G[<<m, f[m - 1]>>] \in D
    <3>1. f[m - 1] \in D BY <2>1
    <3>2. <<m, f[m - 1]>> \in (1 .. n) \X D BY <3>1
    <3> QED BY <3>1, <3>2
  <2>3. h \in [0 .. m -> D]
    <3> SUFFICES ASSUME NEW k \in 0 .. m PROVE (IF k < m THEN f[k] ELSE G[<<m, f[m - 1]>>]) \in D OBVIOUS
    <3> QED BY <2>1, <2>2
  <2>4. h[0] = d0 BY <2>1
  <2>5. \A k \in 1 .. m : h[k] = G[<<k, h[k - 1]>>]
    <3> SUFFICES ASSUME NEW k \in 1 .. m PROVE h[k] = G[<<k, h[k - 1]>>] OBVIOUS
    <3>1. k - 1 \in 0 .. m /\ k - 1 < m /\ h[k - 1] = f[k - 1] OBVIOUS
    <3>2. CASE k = m BY <3>1, <3>2
    <3>3. CASE k # m
      <4>1. k \in 1 .. m - 1 /\ h[k] = f[k] BY <3>3
      <4> QED BY <2>1, <3>1, <4>1
    <3> QED BY <3>2, <3>3
  <2>6. Defines(h, m)
    <3> HIDE DEF h
    <3> QED BY <2>3, <2>4, <2>5
  <2> HIDE DEF Defines, h
  <2> QED BY <2>6
<1>3. n \in P
  <2> HIDE DEF P
  <2> QED BY <1>1, <1>2, UpTo
<1> QED BY <1>3 DEF Recurses

-----------------------------------------------------------------------------
(* Lists.                                                                  *)

\* pos tells where the elements of u stand in the first k of s: at the positions
\* that are in I, in order.
Places(pos, u, s, I, k) ==
  /\ pos \in [1 .. Len(u) -> I \cap (1 .. k)]
  /\ \A i, j \in 1 .. Len(u) : i < j => pos[i] < pos[j]
  /\ \A i \in I \cap (1 .. k) : \E j \in 1 .. Len(u) : pos[j] = i
  /\ \A j \in 1 .. Len(u) : u[j] = s[pos[j]]

\* Picked keeps the elements at the positions of I, in their order.
LEMMA PickedFacts ==
  ASSUME NEW T, NEW s \in Seq(T), NEW I
  PROVE  /\ Picked(s, I) \in Seq(T)
         /\ \E pos : Places(pos, Picked(s, I), s, I, Len(s))
<1> DEFINE n == Len(s)
           E(f) == f = [k \in 0 .. n |-> IF k = 0 THEN << >> ELSE IF k \in I THEN Append(f[k - 1], s[k]) ELSE f[k - 1]]
           upTo == CHOOSE f : E(f)
<1>0. n \in Nat OBVIOUS
<1>00. \A k \in 1 .. n : s[k] \in T OBVIOUS
<1>1. Picked(s, I) = upTo[n] BY DEF Picked
<1>2. \E f : E(f)
  <2> DEFINE G == [p \in (1 .. n) \X Seq(T) |-> IF p[1] \in I THEN Append(p[2], s[p[1]]) ELSE p[2]]
  <2>1. \A k \in 1 .. n, x \in Seq(T) :
          G[<<k, x>>] = IF k \in I THEN Append(x, s[k]) ELSE x
    OBVIOUS
  <2>6. G \in [(1 .. n) \X Seq(T) -> Seq(T)]
    <3> SUFFICES ASSUME NEW k \in 1 .. n, NEW x \in Seq(T)
                 PROVE  (IF k \in I THEN Append(x, s[k]) ELSE x) \in Seq(T)
      OBVIOUS
    <3> QED BY <1>00
  <2>2. << >> \in Seq(T) OBVIOUS
  <2> HIDE DEF G, n
  <2>3. PICK f \in [0 .. n -> Seq(T)] : f[0] = << >> /\ \A k \in 1 .. n : f[k] = G[<<k, f[k - 1]>>]
    <3>1. \E f : Recurses(f, n, Seq(T), << >>, G) BY <1>0, <2>2, <2>6, Recursion
    <3> QED BY <3>1 DEF Recurses
  <2>4. \A k \in 1 .. n : f[k] = IF k \in I THEN Append(f[k - 1], s[k]) ELSE f[k - 1]
    <3> SUFFICES ASSUME NEW k \in 1 .. n
                 PROVE  f[k] = IF k \in I THEN Append(f[k - 1], s[k]) ELSE f[k - 1]
      OBVIOUS
    <3>1. k - 1 \in 0 .. n BY <1>0
    <3>2. f[k - 1] \in Seq(T) BY <2>3, <3>1
    <3> QED BY <2>1, <2>3, <3>2
  <2>7. \A k \in 0 .. n : f[k] = IF k = 0 THEN << >> ELSE IF k \in I THEN Append(f[k - 1], s[k]) ELSE f[k - 1]
    <3> SUFFICES ASSUME NEW k \in 0 .. n
                 PROVE  f[k] = IF k = 0 THEN << >> ELSE IF k \in I THEN Append(f[k - 1], s[k]) ELSE f[k - 1]
      OBVIOUS
    <3>1. k = 0 \/ k \in 1 .. n BY <1>0
    <3> QED BY <2>3, <2>4, <3>1
  <2>5. E(f)
    <3>1. f = [k \in 0 .. n |-> f[k]] BY <2>3
    <3> QED BY <2>7, <3>1
  <2> QED BY <2>5
<1> HIDE DEF upTo
<1>3. E(upTo)
  <2> HIDE DEF E
  <2> QED BY <1>2 DEF upTo
<1>4. upTo[0] = << >> /\ \A k \in 1 .. n : upTo[k] = IF k \in I THEN Append(upTo[k - 1], s[k]) ELSE upTo[k - 1]
  <2>1. \A k \in 0 .. n : upTo[k] = IF k = 0 THEN << >> ELSE IF k \in I THEN Append(upTo[k - 1], s[k]) ELSE upTo[k - 1]
    <3> HIDE DEF n
    <3> QED BY <1>3
  <2>2. 0 \in 0 .. n /\ \A k \in 1 .. n : k \in 0 .. n /\ k # 0 BY <1>0
  <2> HIDE DEF n, E
  <2> QED BY <2>1, <2>2
<1> HIDE DEF E, n
<1> DEFINE P == {k \in 0 .. n : upTo[k] \in Seq(T) /\ \E pos : Places(pos, upTo[k], s, I, k)}
<1>5. 0 \in P
  <2> DEFINE pos == [j \in {} |-> 0]
  <2>1. 1 .. Len(<< >>) = {} /\ I \cap (1 .. 0) = {} OBVIOUS
  <2>2. pos \in [1 .. Len(<< >>) -> I \cap (1 .. 0)] BY <2>1
  <2> HIDE DEF pos
  <2>3. Places(pos, << >>, s, I, 0) BY <2>1, <2>2 DEF Places
  <2>4. 0 \in 0 .. n /\ << >> \in Seq(T) BY <1>0
  <2>5. upTo[0] = << >> BY <1>4
  <2> QED BY <2>3, <2>4, <2>5
<1>6. ASSUME NEW k \in 1 .. n, k - 1 \in P PROVE k \in P
  <2> DEFINE u == upTo[k - 1]
  <2>0. k \in Nat /\ k - 1 \in Nat /\ (k - 1) + 1 = k /\ k \in 0 .. n BY <1>0
  <2>1. PICK pos : u \in Seq(T) /\ Places(pos, u, s, I, k - 1) BY <1>6
  <2>2. upTo[k] = IF k \in I THEN Append(u, s[k]) ELSE u BY <1>4
  <2>3. I \cap (1 .. k) = (I \cap (1 .. k - 1)) \cup (IF k \in I THEN {k} ELSE {}) BY <2>0
  <2> HIDE DEF u
  <2>4. CASE k \notin I
    <3>1. Places(pos, u, s, I, k) BY <2>1, <2>3, <2>4 DEF Places
    <3> QED BY <2>0, <2>1, <2>2, <2>4, <3>1
  <2>5. CASE k \in I
    <3> DEFINE v == Append(u, s[k])
               q == [j \in 1 .. Len(u) + 1 |-> IF j <= Len(u) THEN pos[j] ELSE k]
    <3>1. s[k] \in T /\ Len(u) \in Nat BY <1>00, <2>1
    <3>2. /\ v \in Seq(T) /\ Len(v) = Len(u) + 1 /\ v[Len(u) + 1] = s[k]
          /\ \A j \in 1 .. Len(u) : v[j] = u[j]
      BY <2>1, <3>1
    <3> HIDE DEF v
    <3>3. /\ \A j \in 1 .. Len(u) : q[j] = pos[j] /\ q[j] \in I \cap (1 .. k - 1)
          /\ q[Len(u) + 1] = k /\ q \in [1 .. Len(u) + 1 -> I \cap (1 .. k)]
      BY <2>0, <2>1, <2>5, <3>1 DEF Places
    <3> HIDE DEF q
    <3>4. \A j \in 1 .. Len(u) + 1 : j \in 1 .. Len(u) \/ j = Len(u) + 1 BY <3>1
    <3>5. \A i, j \in 1 .. Len(v) : i < j => q[i] < q[j]
      <4> SUFFICES ASSUME NEW i \in 1 .. Len(v), NEW j \in 1 .. Len(v), i < j PROVE q[i] < q[j] OBVIOUS
      <4>1. i \in 1 .. Len(u) BY <3>1, <3>2
      <4>2. CASE j \in 1 .. Len(u) BY <2>1, <3>3, <4>1, <4>2 DEF Places
      <4>3. CASE j = Len(u) + 1 BY <2>0, <3>3, <4>1, <4>3
      <4> QED BY <3>2, <3>4, <4>2, <4>3
    <3>6. \A i \in I \cap (1 .. k) : \E j \in 1 .. Len(v) : q[j] = i
      <4> SUFFICES ASSUME NEW i \in I \cap (1 .. k) PROVE \E j \in 1 .. Len(v) : q[j] = i OBVIOUS
      <4>1. CASE i = k BY <3>1, <3>2, <3>3, <4>1
      <4>2. CASE i # k
        <5>1. PICK j \in 1 .. Len(u) : pos[j] = i BY <2>1, <2>3, <4>2 DEF Places
        <5> QED BY <3>1, <3>2, <3>3, <5>1
      <4> QED BY <4>1, <4>2
    <3>7. \A j \in 1 .. Len(v) : v[j] = s[q[j]]
      <4> SUFFICES ASSUME NEW j \in 1 .. Len(v) PROVE v[j] = s[q[j]] OBVIOUS
      <4>1. CASE j \in 1 .. Len(u) BY <2>1, <3>2, <3>3, <4>1 DEF Places
      <4>2. CASE j = Len(u) + 1 BY <3>2, <3>3, <4>2
      <4> QED BY <3>2, <3>4, <4>1, <4>2
    <3>8. Places(q, v, s, I, k) BY <3>2, <3>3, <3>5, <3>6, <3>7 DEF Places
    <3>9. upTo[k] = v BY <2>2, <2>5 DEF v
    <3> QED BY <2>0, <3>2, <3>8, <3>9
  <2> QED BY <2>4, <2>5
<1>7. n \in P
  <2> HIDE DEF P
  <2>1. \A k \in 1 .. n : k - 1 \in P => k \in P BY <1>6
  <2>2. \A k \in 0 .. n : k \in P BY <1>0, <1>5, <2>1, UpTo
  <2>3. n \in 0 .. n BY <1>0
  <2> QED BY <2>2, <2>3
<1> QED BY <1>1, <1>7 DEF n

\* What is left of a list after a filter.
LEMMA FilteredFacts ==
  ASSUME NEW T, NEW s \in Seq(T), NEW S
  PROVE  Filtered(s, S) \in Seq(T) /\ ToSet(Filtered(s, S)) = ToSet(s) \cap S
<1> DEFINE I == {i \in 1 .. Len(s) : s[i] \in S}
           u == Filtered(s, S)
<1>1. PICK pos : Places(pos, u, s, I, Len(s)) BY PickedFacts DEF Filtered
<1>2. u \in Seq(T) BY PickedFacts DEF Filtered
<1>3. ToSet(s) = {s[i] : i \in 1 .. Len(s)} /\ ToSet(u) = {u[i] : i \in 1 .. Len(u)} BY <1>2 DEF ToSet
<1> HIDE DEF u
<1>4. ToSet(u) \subseteq ToSet(s) \cap S BY <1>1, <1>3 DEF Places
<1>5. ASSUME NEW x \in ToSet(s) \cap S PROVE x \in ToSet(u)
  <2>1. PICK i \in I : x = s[i] BY <1>3
  <2>2. PICK j \in 1 .. Len(u) : pos[j] = i BY <1>1 DEF Places
  <2>3. u[j] = x BY <1>1, <2>1, <2>2 DEF Places
  <2> QED BY <1>3, <2>3
<1> QED BY <1>2, <1>4, <1>5 DEF u

\* Distinct lists no element twice.
LEMMA DistinctFacts ==
  ASSUME NEW T, NEW s \in Seq(T)
  PROVE  /\ Distinct(s) \in Seq(T) /\ ToSet(Distinct(s)) \subseteq ToSet(s)
         /\ \A i, k \in 1 .. Len(Distinct(s)) : Distinct(s)[i] = Distinct(s)[k] => i = k
<1> DEFINE I == {i \in 1 .. Len(s) : \A k \in 1 .. i - 1 : s[k] # s[i]}
           u == Distinct(s)
<1>1. PICK pos : Places(pos, u, s, I, Len(s)) BY PickedFacts DEF Distinct
<1>2. u \in Seq(T) /\ Len(u) \in Nat BY PickedFacts DEF Distinct
<1>3. ToSet(s) = {s[i] : i \in 1 .. Len(s)} /\ ToSet(u) = {u[i] : i \in 1 .. Len(u)} BY <1>2 DEF ToSet
<1> HIDE DEF u
<1>4. ASSUME NEW i \in 1 .. Len(u), NEW k \in 1 .. Len(u), u[i] = u[k], i < k PROVE FALSE
  <2>1. pos[i] \in 1 .. pos[k] - 1 /\ pos[k] \in I BY <1>1, <1>2, <1>4 DEF Places
  <2>2. s[pos[i]] = s[pos[k]] BY <1>1, <1>4 DEF Places
  <2> QED BY <2>1, <2>2
<1>5. \A i, k \in 1 .. Len(u) : u[i] = u[k] => i = k BY <1>2, <1>4
<1>6. ToSet(u) \subseteq ToSet(s) BY <1>1, <1>3 DEF Places
<1> QED BY <1>2, <1>5, <1>6 DEF u

LEMMA ToSetFacts ==
  ASSUME NEW T, NEW s \in Seq(T)
  PROVE  ToSet(s) = {s[i] : i \in 1 .. Len(s)} /\ ToSet(s) \subseteq T
BY DEF ToSet

LEMMA AppendFacts ==
  ASSUME NEW T, NEW s \in Seq(T), NEW x \in T
  PROVE  Append(s, x) \in Seq(T) /\ ToSet(Append(s, x)) = ToSet(s) \cup {x}
<1> DEFINE u == Append(s, x)
<1>1. /\ u \in Seq(T) /\ Len(u) = Len(s) + 1 /\ Len(s) \in Nat /\ u[Len(s) + 1] = x
      /\ \A i \in 1 .. Len(s) : u[i] = s[i]
  OBVIOUS
<1> HIDE DEF u
<1>2. ToSet(u) = {u[i] : i \in 1 .. Len(u)} /\ ToSet(s) = {s[i] : i \in 1 .. Len(s)} BY <1>1 DEF ToSet
<1>3. \A i \in 1 .. Len(u) : i \in 1 .. Len(s) \/ i = Len(s) + 1 BY <1>1
<1>4. \A i \in 1 .. Len(s) : i \in 1 .. Len(u) BY <1>1
<1>5. Len(s) + 1 \in 1 .. Len(u) BY <1>1
<1>6. ToSet(u) \subseteq ToSet(s) \cup {x} BY <1>1, <1>2, <1>3
<1>7. ToSet(s) \cup {x} \subseteq ToSet(u) BY <1>1, <1>2, <1>4, <1>5
<1> QED BY <1>1, <1>6, <1>7 DEF u

\* Part of a list.
LEMMA SubSeqFacts ==
  ASSUME NEW T, NEW s \in Seq(T), NEW i \in Nat \ {0}, NEW k \in Nat, k <= Len(s)
  PROVE  SubSeq(s, i, k) \in Seq(T) /\ ToSet(SubSeq(s, i, k)) \subseteq ToSet(s)
<1> DEFINE u == SubSeq(s, i, k)
           n == IF i <= k THEN k - i + 1 ELSE 0
<1>1. n \in Nat /\ Len(s) \in Nat OBVIOUS
<1>2. u = [j \in 1 .. n |-> s[i + j - 1]] OBVIOUS
<1>3. \A j \in 1 .. n : i + j - 1 \in 1 .. Len(s) OBVIOUS
<1> HIDE DEF n
<1>4. \A j \in 1 .. n : s[i + j - 1] \in T BY <1>3
<1>5. u \in Seq(T) /\ DOMAIN u = 1 .. n BY <1>1, <1>2, <1>4
<1>6. DOMAIN s = 1 .. Len(s) OBVIOUS
<1> HIDE DEF u
<1>7. ToSet(u) \subseteq ToSet(s) BY <1>2, <1>3, <1>5, <1>6 DEF ToSet
<1> QED BY <1>5, <1>7 DEF u

LEMMA LastFacts ==
  ASSUME NEW T, NEW s \in Seq(T), s # << >>
  PROVE  /\ Last(s) \in ToSet(s) /\ Last(s) \in T
         /\ Front(s) \in Seq(T) /\ ToSet(Front(s)) \subseteq ToSet(s)
<1>1. Len(s) \in Nat /\ Len(s) \in 1 .. Len(s) /\ DOMAIN s = 1 .. Len(s) OBVIOUS
<1>2. Last(s) \in ToSet(s) /\ Last(s) \in T BY <1>1 DEF Last, ToSet
<1>3. Len(s) - 1 \in Nat /\ Len(s) - 1 <= Len(s) BY <1>1
<1>4. SubSeq(s, 1, Len(s) - 1) \in Seq(T) /\ ToSet(SubSeq(s, 1, Len(s) - 1)) \subseteq ToSet(s)
  BY <1>3, SubSeqFacts
<1> QED BY <1>2, <1>4 DEF Front

LEMMA ConcatFacts ==
  ASSUME NEW T, NEW s \in Seq(T), NEW t \in Seq(T)
  PROVE  s \o t \in Seq(T) /\ ToSet(s \o t) = ToSet(s) \cup ToSet(t)
<1> DEFINE u == s \o t
<1>1. /\ u \in Seq(T) /\ Len(u) = Len(s) + Len(t) /\ Len(s) \in Nat /\ Len(t) \in Nat
      /\ \A i \in 1 .. Len(u) : u[i] = IF i <= Len(s) THEN s[i] ELSE t[i - Len(s)]
  OBVIOUS
<1> HIDE DEF u
<1>2. /\ ToSet(u) = {u[i] : i \in 1 .. Len(u)} /\ ToSet(s) = {s[i] : i \in 1 .. Len(s)}
      /\ ToSet(t) = {t[i] : i \in 1 .. Len(t)}
  BY <1>1, ToSetFacts
<1>3. \A i \in 1 .. Len(s) : i \in 1 .. Len(u) /\ u[i] = s[i] BY <1>1
<1>4. \A i \in 1 .. Len(t) : Len(s) + i \in 1 .. Len(u) /\ u[Len(s) + i] = t[i]
  <2> SUFFICES ASSUME NEW i \in 1 .. Len(t) PROVE Len(s) + i \in 1 .. Len(u) /\ u[Len(s) + i] = t[i] OBVIOUS
  <2>1. Len(s) + i \in 1 .. Len(u) /\ ~(Len(s) + i <= Len(s)) /\ (Len(s) + i) - Len(s) = i BY <1>1
  <2> QED BY <1>1, <2>1
<1>5. \A i \in 1 .. Len(u) : (i \in 1 .. Len(s) /\ u[i] = s[i])
                             \/ (i - Len(s) \in 1 .. Len(t) /\ u[i] = t[i - Len(s)])
  BY <1>1
<1>6. ToSet(u) \subseteq ToSet(s) \cup ToSet(t) BY <1>2, <1>5
<1>7. ToSet(s) \cup ToSet(t) \subseteq ToSet(u) BY <1>2, <1>3, <1>4
<1> QED BY <1>1, <1>6, <1>7 DEF u

\* A filter keeps as many elements as there are positions to keep.
LEMMA PickedLength ==
  ASSUME NEW T, NEW s \in Seq(T), NEW I
  PROVE  /\ IsFiniteSet(I \cap (1 .. Len(s))) /\ Cardinality(I \cap (1 .. Len(s))) = Len(Picked(s, I))
<1> DEFINE u == Picked(s, I)
           J == I \cap (1 .. Len(s))
<1>1. PICK pos : Places(pos, u, s, I, Len(s)) BY PickedFacts
<1>2. u \in Seq(T) /\ Len(u) \in Nat BY PickedFacts
<1> HIDE DEF u
<1>3. pos \in [1 .. Len(u) -> J] /\ \A i \in J : \E j \in 1 .. Len(u) : pos[j] = i BY <1>1 DEF Places
<1>4. ASSUME NEW i \in 1 .. Len(u), NEW j \in 1 .. Len(u), pos[i] = pos[j] PROVE i = j
  <2>1. pos[i] \in Nat /\ pos[j] \in Nat BY <1>3
  <2>2. ~(i < j) /\ ~(j < i) BY <1>1, <1>4, <2>1 DEF Places
  <2> QED BY <1>2, <2>2
<1> HIDE DEF J
<1>5. pos \in Bijection(1 .. Len(u), J)
  <2>1. pos \in Injection(1 .. Len(u), J) BY <1>3, <1>4 DEF Injection, IsInjective
  <2>2. pos \in Surjection(1 .. Len(u), J) BY <1>3 DEF Surjection
  <2> QED BY <2>1, <2>2 DEF Bijection
<1>6. IsFiniteSet(1 .. Len(u)) /\ Cardinality(1 .. Len(u)) = Len(u)
  <2>1. 1 \in Int /\ Len(u) \in Int BY <1>2
  <2>2. Cardinality(1 .. Len(u)) = (IF 1 > Len(u) THEN 0 ELSE Len(u) - 1 + 1) /\ IsFiniteSet(1 .. Len(u))
    BY <2>1, FS_Interval
  <2> QED BY <1>2, <2>2
<1>7. ExistsBijection(1 .. Len(u), J) BY <1>5 DEF ExistsBijection
<1> QED BY <1>6, <1>7, FS_Bijection DEF u, J

\* Distinct drops nothing but repetitions.
LEMMA DistinctAll ==
  ASSUME NEW T, NEW s \in Seq(T)
  PROVE  ToSet(Distinct(s)) = ToSet(s)
<1> DEFINE I == {i \in 1 .. Len(s) : \A k \in 1 .. i - 1 : s[k] # s[i]}
           u == Distinct(s)
<1>1. PICK pos : Places(pos, u, s, I, Len(s)) BY PickedFacts DEF Distinct
<1>2. u \in Seq(T) /\ ToSet(u) \subseteq ToSet(s) BY DistinctFacts
<1>3. ToSet(s) = {s[i] : i \in 1 .. Len(s)} /\ ToSet(u) = {u[i] : i \in 1 .. Len(u)} BY <1>2, ToSetFacts
<1> HIDE DEF u
<1>4. ASSUME NEW x \in ToSet(s) PROVE x \in ToSet(u)
  <2> DEFINE at == {i \in 1 .. Len(s) : s[i] = x}
  <2>1. at \in SUBSET Nat /\ at # {} BY <1>3
  <2>2. PICK i \in at : \A k \in at : i <= k
    <3> HIDE DEF at
    <3> QED BY <2>1, Least
  <2>3. i \in 1 .. Len(s) /\ s[i] = x BY <2>2
  <2>4. i \in I
    <3> SUFFICES ASSUME NEW k \in 1 .. i - 1, s[k] = s[i] PROVE FALSE BY <2>3
    <3>1. k \in at /\ k < i BY <2>3
    <3> QED BY <2>2, <2>3, <3>1
  <2>5. PICK j \in 1 .. Len(u) : pos[j] = i BY <1>1, <2>3, <2>4 DEF Places
  <2>6. u[j] = x BY <1>1, <2>3, <2>5 DEF Places
  <2> QED BY <1>3, <2>6
<1> QED BY <1>2, <1>4 DEF u

\* The elements of lists, one after the other.
LEMMA FlattenFacts ==
  ASSUME NEW T, NEW ss \in Seq(Seq(T))
  PROVE  /\ FlattenSeq(ss) \in Seq(T)
         /\ \A x : x \in ToSet(FlattenSeq(ss)) <=> \E i \in 1 .. Len(ss) : x \in ToSet(ss[i])
<1> DEFINE n == Len(ss)
           E(f) == f = [i \in 1 .. n |-> IF i = 1 THEN ss[i] ELSE f[i - 1] \o ss[i]]
           flatten == CHOOSE f : E(f)
<1>0. n \in Nat /\ \A i \in 1 .. n : ss[i] \in Seq(T) OBVIOUS
<1>1. CASE n = 0
  <2>1. ss = << >> /\ FlattenSeq(ss) = << >> BY <1>1 DEF FlattenSeq
  <2>2. << >> \in Seq(T) /\ ToSet(<< >>) = {} BY DEF ToSet
  <2>3. 1 .. Len(ss) = {} BY <1>1
  <2> QED BY <2>1, <2>2, <2>3
<1>2. CASE n # 0
  <2>1. FlattenSeq(ss) = flatten[n] BY <1>2 DEF FlattenSeq
  <2>2. 1 \in 1 .. n /\ n \in 1 .. n BY <1>0, <1>2
  <2> HIDE DEF n
  <2>3. \E f : E(f)
    <3> DEFINE G == [p \in (1 .. n) \X Seq(T) |-> IF p[1] = 1 THEN ss[p[1]] ELSE p[2] \o ss[p[1]]]
    <3>1. \A k \in 1 .. n, x \in Seq(T) : G[<<k, x>>] = IF k = 1 THEN ss[k] ELSE x \o ss[k] OBVIOUS
    <3>2. G \in [(1 .. n) \X Seq(T) -> Seq(T)]
      <4> SUFFICES ASSUME NEW k \in 1 .. n, NEW x \in Seq(T)
                   PROVE  (IF k = 1 THEN ss[k] ELSE x \o ss[k]) \in Seq(T)
        OBVIOUS
      <4> QED BY <1>0
    <3>3. << >> \in Seq(T) OBVIOUS
    <3> HIDE DEF G
    <3>4. PICK h \in [0 .. n -> Seq(T)] : \A k \in 1 .. n : h[k] = G[<<k, h[k - 1]>>]
      <4>1. \E h : Recurses(h, n, Seq(T), << >>, G) BY <1>0, <3>2, <3>3, Recursion
      <4> QED BY <4>1 DEF Recurses
    <3> DEFINE f == [i \in 1 .. n |-> h[i]]
    <3>5. \A i \in 1 .. n : h[i] = IF i = 1 THEN ss[i] ELSE f[i - 1] \o ss[i]
      <4> SUFFICES ASSUME NEW i \in 1 .. n PROVE h[i] = IF i = 1 THEN ss[i] ELSE f[i - 1] \o ss[i] OBVIOUS
      <4>1. i - 1 \in 0 .. n /\ h[i - 1] \in Seq(T) BY <1>0, <3>4
      <4>2. i # 1 => f[i - 1] = h[i - 1]
        <5>1. i # 1 => i - 1 \in 1 .. n BY <1>0
        <5> QED BY <5>1
      <4>3. h[i] = IF i = 1 THEN ss[i] ELSE h[i - 1] \o ss[i] BY <3>1, <3>4, <4>1
      <4> QED BY <4>2, <4>3
    <3>6. E(f) BY <3>5
    <3> QED BY <3>6
  <2> HIDE DEF flatten
  <2>4. E(flatten)
    <3> HIDE DEF E
    <3> QED BY <2>3 DEF flatten
  <2>5. \A i \in 1 .. n : flatten[i] = IF i = 1 THEN ss[i] ELSE flatten[i - 1] \o ss[i] BY <2>4
  <2> HIDE DEF E
  <2> DEFINE Holds(k) == /\ flatten[k] \in Seq(T)
                         /\ \A x : x \in ToSet(flatten[k]) <=> \E i \in 1 .. k : x \in ToSet(ss[i])
             P == {k \in 0 .. n : k = 0 \/ Holds(k)}
  <2>6. ASSUME NEW k \in 1 .. n, k - 1 \in P PROVE k \in P
    <3>1. k \in 0 .. n /\ \A i \in 1 .. k : i \in 1 .. k - 1 \/ i = k BY <1>0
    <3>2. CASE k = 1
      <4>1. flatten[1] = ss[1] BY <2>5, <3>2
      <4>2. flatten[1] \in Seq(T) BY <1>0, <2>2, <4>1
      <4>3. \A x : x \in ToSet(flatten[1]) <=> \E i \in 1 .. 1 : x \in ToSet(ss[i]) BY <4>1
      <4> QED BY <3>1, <3>2, <4>2, <4>3
    <3>3. CASE k # 1
      <4>1. k - 1 # 0 BY <3>3
      <4>2. Holds(k - 1) BY <2>6, <4>1
      <4> DEFINE u == flatten[k - 1]
                 v == flatten[k]
                 w == ss[k]
      <4>3. v = u \o w BY <2>5, <3>3
      <4>4. u \in Seq(T) /\ w \in Seq(T) BY <1>0, <4>2
      <4>5. \A x : x \in ToSet(u) <=> \E i \in 1 .. k - 1 : x \in ToSet(ss[i]) BY <4>2
      <4> HIDE DEF u, v, Holds
      <4>6. v \in Seq(T) /\ ToSet(v) = ToSet(u) \cup ToSet(w) BY <4>3, <4>4, ConcatFacts
      <4>7. \A i \in 1 .. k - 1 : i \in 1 .. k BY <1>0
      <4>8. k \in 1 .. k BY <1>0
      <4>9. \A x : x \in ToSet(v) <=> \E i \in 1 .. k : x \in ToSet(ss[i])
        <5> SUFFICES ASSUME NEW x PROVE x \in ToSet(v) <=> \E i \in 1 .. k : x \in ToSet(ss[i]) OBVIOUS
        <5>1. x \in ToSet(v) <=> x \in ToSet(u) \/ x \in ToSet(w) BY <4>6
        <5>2. x \in ToSet(u) <=> \E i \in 1 .. k - 1 : x \in ToSet(ss[i]) BY <4>5
        <5> QED BY <3>1, <4>7, <4>8, <5>1, <5>2
      <4>10. Holds(k) BY <4>6, <4>9 DEF Holds, v
      <4> QED BY <3>1, <4>10
    <3> QED BY <3>2, <3>3
  <2>7. 0 \in P BY <1>0
  <2> HIDE DEF P
  <2>8. \A k \in 0 .. n : k \in P BY <1>0, <2>6, <2>7, UpTo
  <2>9. Holds(n)
    <3>1. n \in P BY <1>0, <2>8
    <3> QED BY <1>2, <3>1 DEF P
  <2> QED BY <2>1, <2>9 DEF n
<1> QED BY <1>1, <1>2

-----------------------------------------------------------------------------
(* The autosave and its banner.  The list of recent pipelines is out of    *)
(* the way of both results.                                                *)

\* The part of the type invariant the steps need.
KeepsType ==
  /\ canvas \in Canvases /\ made \in Canvases
  /\ stored \in Stored
  /\ banner \in [snapshot : Canvases, unavailable : Unavailable, dismissed : BOOLEAN]

\* A banner that shows a snapshot read it from the storage, which has not changed
\* since, unless the empty canvas was saved.
BannerInv ==
  page = "canvas" /\ canvas = 0 /\ ~banner.dismissed /\ banner.unavailable = "no"
    /\ banner.snapshot # 0 /\ ~wiped => stored = [status |-> "available", canvas |-> banner.snapshot]

IInv == KeepsType /\ StoredIsCurrent /\ BannerInv

\* The banner's look at the storage gives the stored snapshot or none.
LEMMA ProbedBanner ==
  ASSUME stored \in Stored, NEW b \in [snapshot : Canvases, unavailable : Unavailable, dismissed : BOOLEAN],
         NEW c \in Probed(b)
  PROVE  /\ c \in [snapshot : Canvases, unavailable : Unavailable, dismissed : BOOLEAN]
         /\ c.snapshot # 0 /\ c.unavailable = "no" => stored = [status |-> "available", canvas |-> c.snapshot]
<1>1. PICK d \in Diagnoses :
        c = [b EXCEPT !.snapshot = IF d.status = "available" THEN d.canvas ELSE 0,
                      !.unavailable = IF d.status \in {"available", "empty"} THEN "no" ELSE d.status]
  BY DEF Probed
<1>2. 0 \in Canvases BY SessionAssumption DEF Canvases
<1>3. CASE d = stored
  BY <1>1, <1>2, <1>3 DEF Stored, Unavailable
<1>4. CASE d = [status |-> "storage-error", canvas |-> 0]
  BY <1>1, <1>2, <1>4 DEF Unavailable
<1> QED BY <1>3, <1>4 DEF Diagnoses

LEMMA NoBannerType == NoBanner \in [snapshot : Canvases, unavailable : Unavailable, dismissed : BOOLEAN]
BY SessionAssumption DEF NoBanner, Canvases, Unavailable

LEMMA InitIInv == SessionInit => IInv
<1> SUFFICES ASSUME SessionInit PROVE IInv OBVIOUS
<1>1. stored \in Stored BY SessionAssumption DEF SessionInit, Stored, Canvases
<1>2. /\ banner \in [snapshot : Canvases, unavailable : Unavailable, dismissed : BOOLEAN]
      /\ banner.snapshot # 0 /\ banner.unavailable = "no"
           => stored = [status |-> "available", canvas |-> banner.snapshot]
  BY <1>1, NoBannerType, ProbedBanner DEF SessionInit
<1> QED
  BY <1>1, <1>2, SessionAssumption
  DEF SessionInit, IInv, KeepsType, StoredIsCurrent, BannerInv, Canvases

\* Saving stores the canvas, or fails and says so.
LEMMA SaveSnapshotStores ==
  ASSUME KeepsType, NEW c \in Canvases, SaveSnapshot(c)
  PROVE  stored' \in Stored /\ (written' => stored' = [status |-> "available", canvas |-> c])
BY DEF SaveSnapshot, KeepsType, Stored

\* A canvas that changes is about to be saved, or is empty.
LEMMA BecameIInv ==
  ASSUME IInv, NEW c \in Canvases, Became(c), made' \in Canvases, UNCHANGED <<page, stored, written, wiped>>
  PROVE  IInv'
<1>1. KeepsType'
  <2>1. CASE c # 0 BY <2>1 DEF Became, IInv, KeepsType
  <2>2. CASE c = 0 BY <2>2, ProbedBanner DEF Became, IInv, KeepsType
  <2> QED BY <2>1, <2>2
<1>2. StoredIsCurrent' BY DEF Became, StoredIsCurrent
<1>3. BannerInv'
  <2>1. CASE c # 0 BY <2>1 DEF Became, BannerInv
  <2>2. CASE c = 0 BY <2>2, ProbedBanner DEF Became, IInv, KeepsType, BannerInv
  <2> QED BY <2>1, <2>2
<1> QED BY <1>1, <1>2, <1>3 DEF IInv

LEMMA StepIInv == IInv /\ [SessionNext]_sessionVars => IInv'
<1> SUFFICES ASSUME IInv, [SessionNext]_sessionVars PROVE IInv' OBVIOUS
<1>0. 0 \in Canvases BY SessionAssumption DEF Canvases
<1>1. ASSUME NEW c \in Canvases, Change(c) PROVE IInv'
  BY <1>1, BecameIInv DEF Change, IInv, KeepsType
<1>2. CASE Restore
  BY <1>0, <1>2, BecameIInv DEF Restore, Offered, IInv, KeepsType
<1>3. CASE TimerFires
  BY <1>3, SaveSnapshotStores DEF TimerFires, IInv, KeepsType, StoredIsCurrent, BannerInv
<1>4. CASE Leave
  BY <1>4, SaveSnapshotStores, NoBannerType DEF Leave, IInv, KeepsType, StoredIsCurrent, BannerInv
<1>5. CASE Enter
  <2>1. CASE canvas # 0 BY <1>5, <2>1 DEF Enter, IInv, KeepsType, StoredIsCurrent, BannerInv
  <2>2. CASE canvas = 0
    BY <1>5, <2>2, NoBannerType, ProbedBanner DEF Enter, IInv, KeepsType, StoredIsCurrent, BannerInv
  <2> QED BY <2>1, <2>2
<1>6. CASE Reload
  BY <1>0, <1>6, NoBannerType, ProbedBanner DEF Reload, IInv, KeepsType, StoredIsCurrent, BannerInv
<1>7. CASE Discard
  <2>1. canvas = 0 BY <1>7 DEF Discard, Offered
  <2>2. stored' \in Stored BY <1>0, <1>7 DEF Discard, IInv, KeepsType, Stored
  <2> QED BY <1>0, <1>7, <2>1, <2>2 DEF Discard, IInv, KeepsType, StoredIsCurrent, BannerInv
<1>8. CASE DismissNotice
  BY <1>8 DEF DismissNotice, IInv, KeepsType, StoredIsCurrent, BannerInv
<1>9. CASE UNCHANGED Session
  BY <1>9 DEF Session, IInv, KeepsType, StoredIsCurrent, BannerInv
<1> QED
  BY <1>1, <1>2, <1>3, <1>4, <1>5, <1>6, <1>7, <1>8, <1>9
  DEF SessionNext, HandleSave, SaveAnswered, TogglePin, RenameRecent, DeleteRecent, ClearRecents,
      sessionVars, Session

LEMMA SpecIInv == SessionSpec => []IInv
BY InitIInv, StepIInv, PTL DEF SessionSpec

\* For any number of canvases, edits and reloads: once the autosave is through,
\* the storage holds the canvas.
THEOREM AutosaveCatchesUp == SessionSpec => []StoredIsCurrent
<1>1. IInv => StoredIsCurrent BY DEF IInv
<1> QED BY <1>1, SpecIInv, PTL

\* What the banner offers is what a reload would offer again, for any number of
\* sessions, unless the empty canvas was saved over it.
THEOREM OffersAreKept == SessionSpec => []OfferIsKept
<1>1. IInv => OfferIsKept BY DEF IInv, BannerInv, OfferIsKept, Offered
<1> QED BY <1>1, SpecIInv, PTL

-----------------------------------------------------------------------------
(* The recent pipelines.                                                   *)

NamedOnce(entries) == \A i, k \in 1 .. Len(entries) : entries[i].name = entries[k].name => i = k

LEMMA PinnedNames ==
  ASSUME NEW entries \in Seq(Entries)
  PROVE  Pinned(entries) = {entries[i].name : i \in {k \in 1 .. Len(entries) : entries[k].pinned}}
BY DEF Pinned, ToSet

\* The cap keeps what is pinned and no more than MAX_UNPINNED of the others.
LEMMA CapFacts ==
  ASSUME NEW entries \in Seq(Entries), NamedOnce(entries)
  PROVE  /\ CapUnpinned(entries) \in Seq(Entries) /\ NamedOnce(CapUnpinned(entries))
         /\ Pinned(entries) \subseteq Pinned(CapUnpinned(entries))
         /\ Cardinality(Unpinned(CapUnpinned(entries))) <= MaxUnpinned
<1> DEFINE n == Len(entries)
           I == {i \in 1 .. n : entries[i].pinned \/ Cardinality(Unpinned(entries) \cap 1 .. i) <= MaxUnpinned}
           u == CapUnpinned(entries)
<1>0. n \in Nat OBVIOUS
<1>1. u \in Seq(Entries) /\ \E pos : Places(pos, u, entries, I, n)
  <2>1. u = Picked(entries, I) BY DEF CapUnpinned
  <2> HIDE DEF u, I
  <2> QED BY <2>1, PickedFacts
<1>2. PICK pos : Places(pos, u, entries, I, n) BY <1>1
<1>3. Len(u) \in Nat BY <1>1
<1> HIDE DEF u
<1>4. \A j \in 1 .. Len(u) : pos[j] \in I /\ pos[j] \in 1 .. n /\ u[j] = entries[pos[j]] BY <1>2 DEF Places
<1>5. \A i, j \in 1 .. Len(u) : pos[i] = pos[j] => i = j
  <2> SUFFICES ASSUME NEW i \in 1 .. Len(u), NEW j \in 1 .. Len(u), i < j, pos[i] = pos[j] PROVE FALSE
    BY <1>3
  <2>1. pos[i] < pos[j] BY <1>2 DEF Places
  <2>2. pos[i] \in 1 .. n BY <1>4
  <2>3. pos[i] \in Nat BY <1>0, <2>2
  <2> QED BY <2>1, <2>3
<1>6. NamedOnce(u)
  <2> SUFFICES ASSUME NEW i \in 1 .. Len(u), NEW k \in 1 .. Len(u), u[i].name = u[k].name PROVE i = k
    BY DEF NamedOnce
  <2>0. /\ pos[i] \in 1 .. n /\ u[i] = entries[pos[i]]
        /\ pos[k] \in 1 .. n /\ u[k] = entries[pos[k]]
    BY <1>4
  <2>1. pos[i] = pos[k] BY <2>0 DEF NamedOnce
  <2> QED BY <1>5, <2>1
<1>7. Pinned(entries) \subseteq Pinned(u)
  <2> SUFFICES ASSUME NEW i \in 1 .. n, entries[i].pinned PROVE entries[i].name \in Pinned(u)
    BY PinnedNames
  <2>1. PICK j \in 1 .. Len(u) : pos[j] = i BY <1>2 DEF Places
  <2>2. u[j].pinned /\ u[j].name = entries[i].name BY <1>4, <2>1
  <2> QED BY <1>1, <2>2, PinnedNames
<1>8. Cardinality(Unpinned(u)) <= MaxUnpinned
  <2> DEFINE U == {i \in I : ~entries[i].pinned}
             f == [j \in Unpinned(u) |-> pos[j]]
  <2>1. \A i \in U : /\ i \in 1 .. n /\ i \in Unpinned(entries)
                     /\ Cardinality(Unpinned(entries) \cap 1 .. i) <= MaxUnpinned
    BY DEF Unpinned
  <2>2. f \in Injection(Unpinned(u), U)
    <3>1. \A j \in Unpinned(u) : j \in 1 .. Len(u) /\ ~u[j].pinned BY DEF Unpinned
    <3>2. f \in [Unpinned(u) -> U] BY <1>4, <3>1
    <3>3. \A i, j \in Unpinned(u) : f[i] = f[j] => i = j BY <1>5, <3>1
    <3> QED BY <3>2, <3>3 DEF Injection, IsInjective
  <2> HIDE DEF f
  <2>3. U \in SUBSET (1 .. n) /\ IsFiniteSet(1 .. n) BY <1>0, <2>1, FS_Interval
  <2> HIDE DEF U
  <2>4. IsFiniteSet(U) BY <2>3, FS_Subset
  <2>5. Cardinality(Unpinned(u)) <= Cardinality(U) /\ IsFiniteSet(Unpinned(u)) BY <2>2, <2>4, FS_Injection
  <2>6. Cardinality(U) <= MaxUnpinned
    <3>1. CASE U = {} BY <3>1, FS_EmptySet, SessionAssumption
    <3>2. CASE U # {}
      <4> DEFINE V == {n - i : i \in U}
      <4>1. V \in SUBSET Nat /\ V # {} BY <1>0, <2>3, <3>2
      <4>2. PICK v \in V : \A w \in V : v <= w
        <5> HIDE DEF V
        <5> QED BY <4>1, Least
      <4>3. PICK m \in U : v = n - m BY <4>2
      <4>4. \A i \in U : i <= m
        <5> SUFFICES ASSUME NEW i \in U PROVE i <= m OBVIOUS
        <5>1. n - m <= n - i BY <4>2, <4>3
        <5>2. i \in 1 .. n /\ m \in 1 .. n BY <2>3
        <5> QED BY <1>0, <5>1, <5>2
      <4> DEFINE W == Unpinned(entries) \cap 1 .. m
      <4>5. U \subseteq W
        <5> SUFFICES ASSUME NEW i \in U PROVE i \in W OBVIOUS
        <5>1. i <= m /\ m \in 1 .. n /\ i \in 1 .. n BY <2>3, <4>4
        <5>2. i \in 1 .. m BY <1>0, <5>1
        <5> QED BY <2>1, <5>2
      <4>6. IsFiniteSet(W)
        <5>1. W \in SUBSET (1 .. n) BY <1>0, <2>3 DEF Unpinned
        <5> HIDE DEF W
        <5> QED BY <2>3, <5>1, FS_Subset
      <4>7. Cardinality(W) <= MaxUnpinned BY <2>1
      <4> HIDE DEF W
      <4>8. Cardinality(U) <= Cardinality(W) BY <4>5, <4>6, FS_Subset
      <4>9. Cardinality(U) \in Nat /\ Cardinality(W) \in Nat BY <2>4, <4>6, FS_CardinalityType
      <4> QED BY <4>7, <4>8, <4>9, SessionAssumption
    <3> QED BY <3>1, <3>2
  <2>7. Cardinality(Unpinned(u)) \in Nat /\ Cardinality(U) \in Nat BY <2>4, <2>5, FS_CardinalityType
  <2> QED BY <2>5, <2>6, <2>7, SessionAssumption
<1> QED BY <1>1, <1>6, <1>7, <1>8 DEF u

LEMMA RemoveAtFacts ==
  ASSUME NEW T, NEW s \in Seq(T), NEW i \in 1 .. Len(s)
  PROVE  /\ RemoveAt(s, i) \in Seq(T) /\ Len(RemoveAt(s, i)) = Len(s) - 1
         /\ \A k \in 1 .. Len(s) - 1 : RemoveAt(s, i)[k] = s[IF k < i THEN k ELSE k + 1]
<1> DEFINE a == SubSeq(s, 1, i - 1)
           b == SubSeq(s, i + 1, Len(s))
<1>1. /\ a \in Seq(T) /\ Len(a) = i - 1 /\ \A k \in 1 .. i - 1 : a[k] = s[k]
      /\ b \in Seq(T) /\ Len(b) = Len(s) - i /\ \A k \in 1 .. Len(s) - i : b[k] = s[i + k]
  OBVIOUS
<1>2. RemoveAt(s, i) = a \o b BY DEF RemoveAt
<1>3. Len(s) \in Nat /\ i \in Nat OBVIOUS
<1> HIDE DEF a, b
<1>4. /\ a \o b \in Seq(T) /\ Len(a \o b) = Len(s) - 1
      /\ \A k \in 1 .. Len(s) - 1 : (a \o b)[k] = IF k < i THEN a[k] ELSE b[k - (i - 1)]
  BY <1>1, <1>3
<1>5. ASSUME NEW k \in 1 .. Len(s) - 1 PROVE (a \o b)[k] = s[IF k < i THEN k ELSE k + 1]
  <2>1. CASE k < i BY <1>1, <1>3, <1>4, <2>1
  <2>2. CASE ~(k < i)
    <3>1. k - (i - 1) \in 1 .. Len(s) - i /\ i + (k - (i - 1)) = k + 1 BY <1>3, <2>2
    <3> QED BY <1>1, <1>4, <2>2, <3>1
  <2> QED BY <2>1, <2>2
<1> QED BY <1>2, <1>4, <1>5

LEMMA RemovedOnce ==
  ASSUME NEW s \in Seq(Entries), NEW i \in 1 .. Len(s), NamedOnce(s)
  PROVE  /\ RemoveAt(s, i) \in Seq(Entries) /\ NamedOnce(RemoveAt(s, i))
         /\ \A k \in 1 .. Len(RemoveAt(s, i)) : RemoveAt(s, i)[k].name # s[i].name
         /\ \A k \in 1 .. Len(s) : k # i => \E j \in 1 .. Len(RemoveAt(s, i)) : RemoveAt(s, i)[j] = s[k]
<1> DEFINE u == RemoveAt(s, i)
           at(k) == IF k < i THEN k ELSE k + 1
<1>1. /\ u \in Seq(Entries) /\ Len(u) = Len(s) - 1 /\ Len(s) \in Nat /\ i \in Nat
      /\ \A k \in 1 .. Len(s) - 1 : u[k] = s[at(k)]
  BY RemoveAtFacts
<1> HIDE DEF u
<1>2. \A k \in 1 .. Len(u) : u[k] = s[at(k)] /\ at(k) \in 1 .. Len(s) /\ at(k) # i BY <1>1
<1>3. \A k, j \in 1 .. Len(u) : at(k) = at(j) => k = j BY <1>1
<1>4. ASSUME NEW k \in 1 .. Len(s), k # i PROVE \E j \in 1 .. Len(u) : u[j] = s[k]
  <2>1. CASE k < i
    <3>1. k \in 1 .. Len(u) /\ at(k) = k BY <1>1, <2>1
    <3> QED BY <1>2, <3>1
  <2>2. CASE ~(k < i)
    <3>1. k - 1 \in 1 .. Len(u) /\ at(k - 1) = k BY <1>1, <1>4, <2>2
    <3> QED BY <1>2, <3>1
  <2> QED BY <2>1, <2>2
<1>5. NamedOnce(u)
  <2> SUFFICES ASSUME NEW k \in 1 .. Len(u), NEW j \in 1 .. Len(u), u[k].name = u[j].name PROVE k = j
    BY DEF NamedOnce
  <2>1. at(k) = at(j)
    <3> HIDE DEF at
    <3> QED BY <1>2 DEF NamedOnce
  <2> QED BY <1>3, <2>1
<1>6. \A k \in 1 .. Len(u) : u[k].name # s[i].name
  <2> HIDE DEF at
  <2> QED BY <1>2 DEF NamedOnce
<1> QED BY <1>1, <1>4, <1>5, <1>6 DEF u

LEMMA PushEntryFacts ==
  ASSUME NEW entries \in Seq(Entries), NamedOnce(entries), NEW name \in Names
  PROVE  LET pushed == Push(entries, name) IN
         /\ pushed \in Seq(Entries) /\ NamedOnce(pushed)
         /\ Pinned(entries) \subseteq Pinned(pushed)
         /\ Cardinality(Unpinned(pushed)) <= MaxUnpinned
<1> DEFINE same == {i \in 1 .. Len(entries) : entries[i].name = name}
           first == CHOOSE i \in same : \A k \in same : i <= k
           remaining == IF same = {} THEN entries ELSE RemoveAt(entries, first)
           pinned == same # {} /\ entries[first].pinned
           new == [name |-> name, pinned |-> pinned]
           all == <<new>> \o remaining
<1>0. same # {} => first \in same
  <2>1. same \in SUBSET Nat OBVIOUS
  <2>2. same # {} => \E i \in same : \A k \in same : i <= k
    <3> HIDE DEF same
    <3> QED BY <2>1, Least
  <2> HIDE DEF same
  <2> QED BY <2>2
<1>1. Push(entries, name) = CapUnpinned(all) BY DEF Push
<1> HIDE DEF first
<1>2. same # {} => first \in 1 .. Len(entries) /\ entries[first].name = name BY <1>0
<1>3. new \in Entries
  <2>1. same # {} => entries[first] \in Entries BY <1>2
  <2>2. pinned \in BOOLEAN BY <2>1 DEF Entries
  <2> HIDE DEF pinned
  <2> QED BY <2>2 DEF Entries
<1>4. /\ remaining \in Seq(Entries) /\ NamedOnce(remaining)
      /\ \A k \in 1 .. Len(remaining) : remaining[k].name # name
      /\ \A k \in 1 .. Len(entries) : entries[k].name # name => \E j \in 1 .. Len(remaining) : remaining[j] = entries[k]
  <2>1. CASE same = {} BY <2>1
  <2>2. CASE same # {}
    <3>1. remaining = RemoveAt(entries, first) BY <2>2
    <3>2. \A k \in 1 .. Len(entries) : entries[k].name # name => k # first BY <1>2, <2>2
    <3>3. first \in 1 .. Len(entries) /\ entries[first].name = name BY <1>2, <2>2
    <3> HIDE DEF remaining, same
    <3> DEFINE u == RemoveAt(entries, first)
    <3>4. /\ u \in Seq(Entries) /\ NamedOnce(u)
          /\ \A k \in 1 .. Len(u) : u[k].name # entries[first].name
          /\ \A k \in 1 .. Len(entries) : k # first => \E j \in 1 .. Len(u) : u[j] = entries[k]
      BY <3>3, RemovedOnce
    <3> HIDE DEF u
    <3>5. remaining = u BY <3>1 DEF u
    <3> QED BY <3>2, <3>3, <3>4, <3>5
  <2> QED BY <2>1, <2>2
<1>5. \A k \in 1 .. Len(entries) : entries[k].name = name => same # {} /\ k = first
  BY <1>2 DEF NamedOnce
<1>6. new.name = name /\ new.pinned = pinned OBVIOUS
<1>7. \A k \in 1 .. Len(entries) : entries[k].name = name /\ entries[k].pinned => new.pinned BY <1>5, <1>6
<1> HIDE DEF remaining, new, pinned, same
<1>8. /\ all \in Seq(Entries) /\ Len(all) = Len(remaining) + 1 /\ all[1] = new /\ Len(remaining) \in Nat
      /\ \A k \in 1 .. Len(remaining) : all[k + 1] = remaining[k]
  BY <1>3, <1>4
<1> HIDE DEF all
<1>9. \A k \in 1 .. Len(all) : k # 1 => k - 1 \in 1 .. Len(remaining) /\ all[k] = remaining[k - 1] BY <1>8
<1>10. NamedOnce(all)
  <2> SUFFICES ASSUME NEW i \in 1 .. Len(all), NEW k \in 1 .. Len(all), all[i].name = all[k].name PROVE i = k
    BY DEF NamedOnce
  <2>0. \A j \in 1 .. Len(all) : j # 1 => all[j].name # name
    <3> SUFFICES ASSUME NEW j \in 1 .. Len(all), j # 1 PROVE all[j].name # name OBVIOUS
    <3>1. j - 1 \in 1 .. Len(remaining) /\ all[j] = remaining[j - 1] BY <1>9
    <3> QED BY <1>4, <3>1
  <2>1. CASE i = 1 \/ k = 1
    <3>1. all[1].name = name BY <1>6, <1>8
    <3> QED BY <2>0, <2>1, <3>1
  <2>2. CASE i # 1 /\ k # 1
    <3>1. i - 1 \in 1 .. Len(remaining) /\ k - 1 \in 1 .. Len(remaining)
          /\ remaining[i - 1].name = remaining[k - 1].name
      BY <1>9, <2>2
    <3>2. i - 1 = k - 1 BY <1>4, <3>1 DEF NamedOnce
    <3> QED BY <3>2
  <2> QED BY <2>1, <2>2
<1>11. Pinned(entries) \subseteq Pinned(all)
  <2> SUFFICES ASSUME NEW k \in 1 .. Len(entries), entries[k].pinned PROVE entries[k].name \in Pinned(all)
    BY PinnedNames
  <2>1. \E j \in 1 .. Len(all) : all[j].pinned /\ all[j].name = entries[k].name
    <3>1. CASE entries[k].name = name BY <1>6, <1>7, <1>8, <3>1
    <3>2. CASE entries[k].name # name
      <4>1. PICK j \in 1 .. Len(remaining) : remaining[j] = entries[k] BY <1>4, <3>2
      <4>2. j + 1 \in 1 .. Len(all) /\ all[j + 1] = entries[k] BY <1>8, <4>1
      <4> QED BY <4>2
    <3> QED BY <3>1, <3>2
  <2> QED BY <1>8, <2>1, PinnedNames
<1> QED BY <1>1, <1>8, <1>10, <1>11, CapFacts

\* The inductive invariant: no name is listed twice.
Listed == recents \in Seq(Entries) /\ NamedOnce(recents) /\ sending \in Nat

LEMMA ListedStep ==
  ASSUME Listed, [SessionNext]_sessionVars
  PROVE  /\ Listed'
         /\ sending' < sending /\ recents' # recents => recents' = Push(recents, MyPipeline)
<1>0. recents \in Seq(Entries) /\ NamedOnce(recents) /\ sending \in Nat BY DEF Listed
<1>1. ASSUME recents' = recents, sending' \in Nat
      PROVE  Listed' /\ (sending' < sending /\ recents' # recents => recents' = Push(recents, MyPipeline))
  BY <1>0, <1>1 DEF Listed
<1>2. ASSUME recents' \in Seq(Entries), NamedOnce(recents'), sending' = sending
      PROVE  Listed' /\ (sending' < sending /\ recents' # recents => recents' = Push(recents, MyPipeline))
  BY <1>0, <1>2 DEF Listed
<1> DEFINE Goal == Listed' /\ (sending' < sending /\ recents' # recents => recents' = Push(recents, MyPipeline))
<1> SUFFICES Goal OBVIOUS
<1> HIDE DEF Goal
<1>3. ASSUME NEW c \in Canvases, Change(c) PROVE Goal BY <1>0, <1>1, <1>3 DEF Change, Goal
<1>4. CASE TimerFires \/ Leave \/ Enter \/ Restore \/ Discard \/ DismissNotice
  BY <1>0, <1>1, <1>4 DEF TimerFires, Leave, Enter, Restore, Discard, DismissNotice, Goal
<1>5. CASE Reload BY <1>0, <1>1, <1>5 DEF Reload, Goal
<1>6. CASE HandleSave BY <1>0, <1>1, <1>6 DEF HandleSave, Goal
<1>7. CASE SaveAnswered
  <2>1. sending' \in Nat /\ recents' \in {recents, Push(recents, MyPipeline)}
    BY <1>0, <1>7 DEF SaveAnswered
  <2>2. CASE recents' = recents BY <1>1, <2>1, <2>2 DEF Goal
  <2>3. CASE recents' = Push(recents, MyPipeline)
    <3>1. recents' \in Seq(Entries) /\ NamedOnce(recents')
      BY <1>0, <2>3, PushEntryFacts, SessionAssumption
    <3> QED BY <2>1, <2>3, <3>1 DEF Listed, Goal
  <2> QED BY <2>1, <2>2, <2>3
<1>8. ASSUME NEW i \in 1 .. Len(recents), TogglePin(i) PROVE Goal
  <2>1. sending' = sending /\ recents' \in {recents, [recents EXCEPT ![i].pinned = ~@]}
    BY <1>8 DEF TogglePin
  <2>2. CASE recents' = recents BY <1>0, <1>1, <2>1, <2>2 DEF Goal
  <2>3. CASE recents' = [recents EXCEPT ![i].pinned = ~@]
    <3>1. \A k \in 1 .. Len(recents) : recents[k] \in Entries BY <1>0
    <3>2. [recents[i] EXCEPT !.pinned = ~@] \in Entries /\ [recents[i] EXCEPT !.pinned = ~@].name = recents[i].name
      BY <3>1 DEF Entries
    <3>3. /\ recents' \in Seq(Entries) /\ Len(recents') = Len(recents)
          /\ \A k \in 1 .. Len(recents) : recents'[k].name = recents[k].name
      BY <1>0, <2>3, <3>1, <3>2
    <3>4. NamedOnce(recents') BY <1>0, <3>3 DEF NamedOnce
    <3> QED BY <1>2, <2>1, <3>3, <3>4 DEF Goal
  <2> QED BY <2>1, <2>2, <2>3
<1>9. ASSUME NEW i \in 1 .. Len(recents), NEW name \in Names, RenameRecent(i, name) PROVE Goal
  <2>1. /\ sending' = sending /\ recents' \in {recents, [recents EXCEPT ![i].name = name]}
        /\ \A k \in 1 .. Len(recents) : k # i => recents[k].name # name
    BY <1>9 DEF RenameRecent
  <2>2. CASE recents' = recents BY <1>0, <1>1, <2>1, <2>2 DEF Goal
  <2>3. CASE recents' = [recents EXCEPT ![i].name = name]
    <3>1. \A k \in 1 .. Len(recents) : recents[k] \in Entries BY <1>0
    <3>2. [recents[i] EXCEPT !.name = name] \in Entries /\ [recents[i] EXCEPT !.name = name].name = name
      BY <3>1 DEF Entries
    <3>3. /\ recents' \in Seq(Entries) /\ Len(recents') = Len(recents)
          /\ \A k \in 1 .. Len(recents) : recents'[k].name = IF k = i THEN name ELSE recents[k].name
      BY <1>0, <2>3, <3>1, <3>2
    <3>4. NamedOnce(recents') BY <1>0, <2>1, <3>3 DEF NamedOnce
    <3> QED BY <1>2, <2>1, <3>3, <3>4 DEF Goal
  <2> QED BY <2>1, <2>2, <2>3
<1>10. ASSUME NEW i \in 1 .. Len(recents), DeleteRecent(i) PROVE Goal
  <2>1. sending' = sending /\ recents' \in {recents, RemoveAt(recents, i)} BY <1>10 DEF DeleteRecent
  <2>2. RemoveAt(recents, i) \in Seq(Entries) /\ NamedOnce(RemoveAt(recents, i)) BY <1>0, RemovedOnce
  <2> QED BY <1>0, <1>2, <2>1, <2>2 DEF Goal
<1>11. CASE ClearRecents
  <2>1. << >> \in Seq(Entries) /\ NamedOnce(<< >>) BY DEF NamedOnce
  <2> QED BY <1>0, <1>2, <1>11, <2>1 DEF ClearRecents, Goal
<1>12. CASE UNCHANGED sessionVars BY <1>0, <1>1, <1>12 DEF sessionVars, Goal
<1> QED BY <1>3, <1>4, <1>5, <1>6, <1>7, <1>8, <1>9, <1>10, <1>11, <1>12 DEF SessionNext

\* A save that the server answers drops no pinned pipeline, leaves at most
\* MAX_UNPINNED of the others and lists no name twice, whatever was pinned,
\* renamed and deleted while it was out.
THEOREM PinsAreSafe == SessionSpec => PinnedSurvive
<1>1. SessionInit => Listed BY DEF SessionInit, Listed, NamedOnce
<1>2. Listed /\ [SessionNext]_sessionVars => Listed' BY ListedStep
<1>3. Listed /\ [SessionNext]_sessionVars =>
        [sending' < sending /\ recents' # recents =>
           /\ Pinned(recents) \subseteq Pinned(recents')
           /\ Cardinality(Unpinned(recents')) <= MaxUnpinned
           /\ \A i, k \in 1 .. Len(recents') : recents'[i].name = recents'[k].name => i = k]_sessionVars
  <2> SUFFICES ASSUME Listed, [SessionNext]_sessionVars, sending' < sending, recents' # recents
               PROVE  /\ Pinned(recents) \subseteq Pinned(recents')
                      /\ Cardinality(Unpinned(recents')) <= MaxUnpinned
                      /\ \A i, k \in 1 .. Len(recents') : recents'[i].name = recents'[k].name => i = k
    OBVIOUS
  <2>1. recents' = Push(recents, MyPipeline) BY ListedStep
  <2> QED BY <2>1, PushEntryFacts, SessionAssumption DEF Listed, NamedOnce
<1> QED BY <1>1, <1>2, <1>3, PTL DEF SessionSpec, PinnedSurvive

-----------------------------------------------------------------------------
(* Graphs.                                                                 *)

LEMMA GraphFacts ==
  ASSUME NEW g \in Graphs
  PROVE  /\ g.nodes \in Seq(Nodes) /\ g.edges \in Seq(Edges) /\ g.parallel \in SUBSET Nodes
         /\ NodesOf(g) \subseteq Nodes /\ EdgesOf(g) \subseteq Edges
         /\ \A e \in EdgesOf(g) : e.source \in Nodes /\ e.target \in Nodes
<1>1. g.nodes \in Seq(Nodes) /\ g.edges \in Seq(Edges) /\ g.parallel \in SUBSET Nodes BY DEF Graphs
<1>2. NodesOf(g) \subseteq Nodes BY <1>1 DEF NodesOf, ToSet
<1>3. EdgesOf(g) \subseteq Edges BY <1>1 DEF EdgesOf, ToSet
<1>4. \A e \in EdgesOf(g) : e.source \in Nodes /\ e.target \in Nodes BY <1>3 DEF Edges
<1> QED BY <1>1, <1>2, <1>3, <1>4

LEMMA EmptyGraphFacts ==
  EmptyGraph \in Graphs /\ NodesOf(EmptyGraph) = {} /\ EdgesOf(EmptyGraph) = {}
<1>1. << >> \in Seq(Nodes) /\ << >> \in Seq(Edges) OBVIOUS
<1> QED BY <1>1 DEF EmptyGraph, Graphs, NodesOf, EdgesOf, ToSet

\* A graph from which nodes, or edges, are taken.
LEMMA WithoutFacts ==
  ASSUME NEW g \in Graphs, NEW E, NEW S
  PROVE  /\ WithoutEdges(g, E) \in Graphs /\ NodesOf(WithoutEdges(g, E)) = NodesOf(g)
         /\ EdgesOf(WithoutEdges(g, E)) = EdgesOf(g) \ E
         /\ WithoutNodes(g, S) \in Graphs /\ NodesOf(WithoutNodes(g, S)) = NodesOf(g) \ S
         /\ EdgesOf(WithoutNodes(g, S)) = EdgesOf(g)
<1>1. g.nodes \in Seq(Nodes) /\ g.edges \in Seq(Edges) /\ g.parallel \in SUBSET Nodes BY GraphFacts
<1> DEFINE left == Filtered(g.edges, EdgesOf(g) \ E)
           rest == Filtered(g.nodes, NodesOf(g) \ S)
<1>2. left \in Seq(Edges) /\ ToSet(left) = EdgesOf(g) \ E BY <1>1, FilteredFacts DEF EdgesOf
<1>3. rest \in Seq(Nodes) /\ ToSet(rest) = NodesOf(g) \ S BY <1>1, FilteredFacts DEF NodesOf
<1>4. WithoutEdges(g, E) = [g EXCEPT !.edges = left] BY DEF WithoutEdges
<1>5. WithoutNodes(g, S) = [g EXCEPT !.nodes = rest, !.parallel = g.parallel \ S] BY DEF WithoutNodes
<1> HIDE DEF left, rest
<1>6. WithoutEdges(g, E) \in Graphs BY <1>1, <1>2, <1>4 DEF Graphs
<1>7. WithoutNodes(g, S) \in Graphs BY <1>1, <1>3, <1>5 DEF Graphs
<1>8. WithoutEdges(g, E).nodes = g.nodes /\ WithoutEdges(g, E).edges = left BY <1>4 DEF Graphs
<1>9. WithoutNodes(g, S).nodes = rest /\ WithoutNodes(g, S).edges = g.edges BY <1>5 DEF Graphs
<1> QED BY <1>2, <1>3, <1>6, <1>7, <1>8, <1>9 DEF NodesOf, EdgesOf

LEMMA RestrictedFacts ==
  ASSUME NEW g \in Graphs, NEW S \in SUBSET NodesOf(g)
  PROVE  /\ Restricted(g, S) \in Graphs /\ NodesOf(Restricted(g, S)) = S /\ Restricted(g, S).parallel \subseteq S
         /\ EdgesOf(Restricted(g, S)) = {e \in EdgesOf(g) : {e.source, e.target} \subseteq S}
<1>1. g.nodes \in Seq(Nodes) /\ g.edges \in Seq(Edges) /\ g.parallel \in SUBSET Nodes BY GraphFacts
<1> DEFINE E == {e \in EdgesOf(g) : {e.source, e.target} \subseteq S}
           left == Filtered(g.edges, E)
           rest == Filtered(g.nodes, S)
           part == Restricted(g, S)
<1>2. left \in Seq(Edges) /\ ToSet(left) = E
  <2>1. EdgesOf(g) \cap E = E OBVIOUS
  <2> HIDE DEF E
  <2> QED BY <1>1, <2>1, FilteredFacts DEF EdgesOf
<1>3. rest \in Seq(Nodes) /\ ToSet(rest) = S
  <2>1. Filtered(g.nodes, S) \in Seq(Nodes) /\ ToSet(Filtered(g.nodes, S)) = ToSet(g.nodes) \cap S
    BY <1>1, FilteredFacts
  <2> QED BY <2>1 DEF NodesOf
<1>4. part = [nodes |-> rest, edges |-> left, parallel |-> g.parallel \cap S] BY DEF Restricted
<1> HIDE DEF left, rest, part
<1>5. part \in Graphs BY <1>1, <1>2, <1>3, <1>4 DEF Graphs
<1>6. part.nodes = rest /\ part.edges = left /\ part.parallel \subseteq S BY <1>4
<1> QED BY <1>2, <1>3, <1>5, <1>6 DEF NodesOf, EdgesOf, part

\* What a filter of the whole graph leaves of its edges.
LEMMA ActiveFacts ==
  ASSUME NEW g \in Graphs
  PROVE  Active(g) \in Graphs /\ EdgesOf(Active(g)) \subseteq EdgesOf(g)
<1>1. g.nodes \in Seq(Nodes) /\ g.edges \in Seq(Edges) /\ g.parallel \in SUBSET Nodes BY GraphFacts
<1> DEFINE run == {n \in Nodes : Kind[n] # "preview"}
           wires == {e \in EdgesOf(g) : {e.source, e.target} \subseteq run}
           left == Filtered(g.edges, wires)
           rest == Filtered(g.nodes, run)
<1>2. Active(g) = [g EXCEPT !.nodes = rest, !.edges = left] BY DEF Active
<1> HIDE DEF run, wires
<1>3. left \in Seq(Edges) /\ ToSet(left) \subseteq EdgesOf(g) BY <1>1, FilteredFacts DEF EdgesOf
<1>4. rest \in Seq(Nodes) BY <1>1, FilteredFacts
<1> HIDE DEF left, rest
<1>5. Active(g) \in Graphs BY <1>1, <1>2, <1>3, <1>4 DEF Graphs
<1>6. Active(g).edges = left BY <1>2 DEF Graphs
<1> QED BY <1>3, <1>5, <1>6 DEF EdgesOf

LEMMA IntoFacts ==
  ASSUME NEW g \in Graphs, NEW n
  PROVE  /\ Into(g, n) \in Seq(Nodes)
         /\ \A m \in ToSet(Into(g, n)) : \E e \in EdgesOf(g) : e.source = m /\ e.target = n
<1> DEFINE E == {e \in EdgesOf(g) : e.target = n}
           found == Filtered(g.edges, E)
<1>1. found \in Seq(Edges) /\ ToSet(found) = EdgesOf(g) \cap E
  <2> HIDE DEF E
  <2> QED BY GraphFacts, FilteredFacts DEF EdgesOf
<1>2. Into(g, n) = [i \in 1 .. Len(found) |-> found[i].source] BY DEF Into
<1>3. \A i \in 1 .. Len(found) : found[i] \in EdgesOf(g) /\ found[i].target = n
  <2> HIDE DEF found, E
  <2>1. \A i \in 1 .. Len(found) : found[i] \in ToSet(found) BY <1>1, ToSetFacts
  <2> QED BY <1>1, <2>1 DEF E
<1>4. Len(found) \in Nat BY <1>1
<1> HIDE DEF found
<1>5. \A i \in 1 .. Len(found) : found[i].source \in Nodes BY <1>3, GraphFacts
<1>6. Into(g, n) \in Seq(Nodes) BY <1>2, <1>4, <1>5
<1>7. \A m \in ToSet(Into(g, n)) : \E i \in 1 .. Len(found) : m = found[i].source BY <1>2 DEF ToSet
<1> QED BY <1>3, <1>6, <1>7

-----------------------------------------------------------------------------
(* The history.                                                            *)

LEMMA NewestFacts ==
  ASSUME NEW T, NEW states \in Seq(T)
  PROVE  Newest(states) \in Seq(T) /\ ToSet(Newest(states)) \subseteq ToSet(states)
<1> DEFINE i == IF Len(states) > HistoryLimit THEN Len(states) - HistoryLimit + 1 ELSE 1
<1>1. Len(states) \in Nat /\ i \in Nat \ {0} BY CanvasAssumption
<1>2. Newest(states) = SubSeq(states, i, Len(states)) BY DEF Newest
<1> HIDE DEF i
<1> QED BY <1>1, <1>2, SubSeqFacts

\* The graphs that the canvas, undo or redo hold.
Held == {graph} \cup ToSet(past) \cup ToSet(future)

HistoryOK == graph \in Graphs /\ past \in Seq(Graphs) /\ future \in Seq(Graphs)

\* The canvas becomes a graph of these nodes and edges; nothing else is new.
Turned(N, E) ==
  /\ HistoryOK' /\ Held' \subseteq Held \cup {graph'}
  /\ NodesOf(graph') = N /\ EdgesOf(graph') = E

LEMMA RememberFacts ==
  ASSUME HistoryOK, NEW before \in Seq(Graphs), Remember(before)
  PROVE  /\ past' \in Seq(Graphs) /\ future' \in Seq(Graphs)
         /\ ToSet(past') \subseteq ToSet(past) \cup ToSet(before) /\ ToSet(future') = {}
<1>1. past \in Seq(Graphs) BY DEF HistoryOK
<1>2. past \o before \in Seq(Graphs) /\ ToSet(past \o before) = ToSet(past) \cup ToSet(before)
  BY <1>1, ConcatFacts
<1>3. past' = Newest(past \o before) /\ future' = << >> BY DEF Remember
<1>4. past' \in Seq(Graphs) /\ ToSet(past') \subseteq ToSet(past \o before) BY <1>2, <1>3, NewestFacts
<1>5. future' \in Seq(Graphs) /\ ToSet(future') = {} BY <1>3 DEF ToSet
<1> QED BY <1>2, <1>4, <1>5

LEMMA CommitFacts ==
  ASSUME HistoryOK, NEW g \in Graphs, Commit(g)
  PROVE  graph' = g /\ Turned(NodesOf(g), EdgesOf(g))
<1>1. graph' = g /\ Remember(<<graph>>) BY DEF Commit
<1>2. <<graph>> \in Seq(Graphs) /\ ToSet(<<graph>>) = {graph}
  <2>1. graph \in Graphs BY DEF HistoryOK
  <2>2. <<graph>> \in Seq(Graphs) /\ Len(<<graph>>) = 1 /\ <<graph>>[1] = graph BY <2>1
  <2> DEFINE u == <<graph>>
  <2>3. u \in Seq(Graphs) /\ Len(u) = 1 /\ u[1] = graph BY <2>2
  <2> HIDE DEF u
  <2>4. ToSet(u) = {u[i] : i \in 1 .. Len(u)} BY <2>3, ToSetFacts
  <2>5. ToSet(u) = {graph} BY <2>3, <2>4
  <2> QED BY <2>3, <2>5 DEF u
<1>3. /\ past' \in Seq(Graphs) /\ future' \in Seq(Graphs)
      /\ ToSet(past') \subseteq ToSet(past) \cup {graph} /\ ToSet(future') = {}
  BY <1>1, <1>2, RememberFacts
<1> QED BY <1>1, <1>3 DEF Turned, HistoryOK, Held

LEMMA UndoFacts ==
  ASSUME HistoryOK, Undo \/ Redo
  PROVE  HistoryOK' /\ Held' \subseteq Held
<1>0. graph \in Graphs /\ past \in Seq(Graphs) /\ future \in Seq(Graphs) BY DEF HistoryOK
<1>1. CASE Undo
  <2>1. past # << >> /\ graph' = Last(past) /\ past' = Front(past) /\ future' = Append(future, graph)
    BY <1>1 DEF Undo
  <2>2. /\ graph' \in ToSet(past) /\ graph' \in Graphs /\ past' \in Seq(Graphs)
        /\ ToSet(past') \subseteq ToSet(past)
    BY <1>0, <2>1, LastFacts
  <2>3. future' \in Seq(Graphs) /\ ToSet(future') = ToSet(future) \cup {graph} BY <1>0, <2>1, AppendFacts
  <2> QED BY <2>2, <2>3 DEF HistoryOK, Held
<1>2. CASE Redo
  <2>1. future # << >> /\ graph' = Last(future) /\ future' = Front(future) /\ past' = Append(past, graph)
    BY <1>2 DEF Redo
  <2>2. /\ graph' \in ToSet(future) /\ graph' \in Graphs /\ future' \in Seq(Graphs)
        /\ ToSet(future') \subseteq ToSet(future)
    BY <1>0, <2>1, LastFacts
  <2>3. past' \in Seq(Graphs) /\ ToSet(past') = ToSet(past) \cup {graph} BY <1>0, <2>1, AppendFacts
  <2> QED BY <2>2, <2>3 DEF HistoryOK, Held
<1> QED BY <1>1, <1>2

-----------------------------------------------------------------------------
(* Copies.                                                                 *)

Copy(e, f) == [e EXCEPT !.source = f[@], !.target = f[@]]

LEMMA CopyFacts ==
  ASSUME NEW S \in SUBSET Nodes, NEW f \in [S -> Nodes], \A n \in S : Kind[f[n]] = Kind[n],
         NEW e \in Edges, e.source \in S, e.target \in S
  PROVE  Copy(e, f) \in Edges /\ Copy(e, f).source = f[e.source] /\ Copy(e, f).target = f[e.target]
<1>1. e \in [source : Nodes, target : Nodes, port : {"x", "y"}] /\ e.port \in Ports(e.source) BY DEF Edges
<1> DEFINE c == Copy(e, f)
<1>2. c \in [source : Nodes, target : Nodes, port : {"x", "y"}] BY <1>1 DEF Copy
<1>3. c.source = f[e.source] /\ c.target = f[e.target] /\ c.port = e.port BY <1>1 DEF Copy
<1> HIDE DEF c
<1>4. Ports(c.source) = Ports(e.source) BY <1>3 DEF Ports
<1>5. c \in Edges BY <1>1, <1>2, <1>3, <1>4 DEF Edges
<1> QED BY <1>3, <1>5 DEF c

LEMMA FreshFacts ==
  ASSUME NEW S \in SUBSET Nodes, NEW f \in FreshIds(S)
  PROVE  /\ f \in [S -> Nodes] /\ \A n \in S : Kind[f[n]] = Kind[n]
         /\ \A n, m \in S : f[n] = f[m] => n = m
         /\ \A n \in S : f[n] \in Fresh
<1>1. f \in Injection(S, Fresh) /\ \A n \in S : Kind[f[n]] = Kind[n] BY DEF FreshIds
<1>2. f \in [S -> Fresh] /\ \A n, m \in S : f[n] = f[m] => n = m BY <1>1 DEF Injection, IsInjective
<1>3. Fresh \subseteq Nodes BY DEF Fresh
<1> QED BY <1>1, <1>2, <1>3

LEMMA PastedFacts ==
  ASSUME NEW g \in Graphs, NEW part \in Graphs, part.parallel \subseteq NodesOf(part), Intact(part),
         NEW f \in FreshIds(NodesOf(part))
  PROVE  /\ Pasted(g, part, f) \in Graphs
         /\ NodesOf(Pasted(g, part, f)) = NodesOf(g) \cup {f[n] : n \in NodesOf(part)}
         /\ EdgesOf(Pasted(g, part, f)) = EdgesOf(g) \cup {Copy(e, f) : e \in EdgesOf(part)}
<1> DEFINE S == NodesOf(part)
           nodes == [i \in 1 .. Len(part.nodes) |-> f[part.nodes[i]]]
           edges == [i \in 1 .. Len(part.edges) |-> Copy(part.edges[i], f)]
<1>1. /\ g.nodes \in Seq(Nodes) /\ g.edges \in Seq(Edges) /\ g.parallel \in SUBSET Nodes
      /\ part.nodes \in Seq(Nodes) /\ part.edges \in Seq(Edges) /\ S \in SUBSET Nodes
  BY GraphFacts
<1>2. f \in [S -> Nodes] /\ \A n \in S : Kind[f[n]] = Kind[n] BY <1>1, FreshFacts
<1>3. S = {part.nodes[i] : i \in 1 .. Len(part.nodes)} BY <1>1, ToSetFacts DEF NodesOf
<1>4. EdgesOf(part) = {part.edges[i] : i \in 1 .. Len(part.edges)} BY <1>1, ToSetFacts DEF EdgesOf
<1>5. \A e \in EdgesOf(part) : e.source \in S /\ e.target \in S BY DEF Intact
<1>6. Len(part.nodes) \in Nat /\ Len(part.edges) \in Nat BY <1>1
<1> HIDE DEF S
<1>7. \A i \in 1 .. Len(part.nodes) : f[part.nodes[i]] \in Nodes BY <1>2, <1>3
<1>8. \A i \in 1 .. Len(part.edges) : Copy(part.edges[i], f) \in Edges
  <2> SUFFICES ASSUME NEW i \in 1 .. Len(part.edges) PROVE Copy(part.edges[i], f) \in Edges OBVIOUS
  <2> DEFINE e == part.edges[i]
  <2>1. e \in EdgesOf(part) /\ e \in Edges BY <1>1, <1>4
  <2>2. e.source \in S /\ e.target \in S BY <1>5, <2>1
  <2> HIDE DEF e
  <2>3. Copy(e, f) \in Edges BY <1>1, <1>2, <2>1, <2>2, CopyFacts
  <2> QED BY <2>3 DEF e
<1>9. nodes \in Seq(Nodes) /\ Len(nodes) = Len(part.nodes) BY <1>6, <1>7
<1>10. edges \in Seq(Edges) /\ Len(edges) = Len(part.edges) BY <1>6, <1>8
<1>11. ToSet(nodes) = {f[n] : n \in S}
  <2>1. ToSet(nodes) = {nodes[i] : i \in 1 .. Len(nodes)}
    <3> HIDE DEF nodes
    <3> QED BY <1>9, ToSetFacts
  <2>2. \A i \in 1 .. Len(part.nodes) : nodes[i] = f[part.nodes[i]] OBVIOUS
  <2> HIDE DEF nodes
  <2> QED BY <1>3, <1>9, <2>1, <2>2
<1>12. ToSet(edges) = {Copy(e, f) : e \in EdgesOf(part)}
  <2>1. ToSet(edges) = {edges[i] : i \in 1 .. Len(edges)}
    <3> HIDE DEF edges
    <3> QED BY <1>10, ToSetFacts
  <2>2. \A i \in 1 .. Len(part.edges) : edges[i] = Copy(part.edges[i], f) OBVIOUS
  <2> HIDE DEF edges
  <2> QED BY <1>4, <1>10, <2>1, <2>2
<1> DEFINE p == Pasted(g, part, f)
<1>13. p = [nodes |-> g.nodes \o nodes, edges |-> g.edges \o edges,
            parallel |-> g.parallel \cup {f[n] : n \in part.parallel}]
  BY DEF Pasted, Copy
<1> HIDE DEF nodes, edges, p
<1>14. g.nodes \o nodes \in Seq(Nodes) /\ ToSet(g.nodes \o nodes) = ToSet(g.nodes) \cup ToSet(nodes)
  BY <1>1, <1>9, ConcatFacts
<1>15. g.edges \o edges \in Seq(Edges) /\ ToSet(g.edges \o edges) = ToSet(g.edges) \cup ToSet(edges)
  BY <1>1, <1>10, ConcatFacts
<1>16. {f[n] : n \in part.parallel} \subseteq Nodes BY <1>2 DEF S
<1>17. p \in Graphs BY <1>1, <1>13, <1>14, <1>15, <1>16 DEF Graphs
<1>18. p.nodes = g.nodes \o nodes /\ p.edges = g.edges \o edges BY <1>13
<1>19. NodesOf(p) = NodesOf(g) \cup {f[n] : n \in S} BY <1>11, <1>14, <1>18 DEF NodesOf
<1>20. EdgesOf(p) = EdgesOf(g) \cup {Copy(e, f) : e \in EdgesOf(part)} BY <1>12, <1>15, <1>18 DEF EdgesOf
<1> QED BY <1>17, <1>19, <1>20 DEF p, S

-----------------------------------------------------------------------------
(* Chaining.                                                               *)

LEMMA AddEdgeFacts ==
  ASSUME NEW edges \in Seq(Edges), NEW e \in Edges
  PROVE  AddEdge(edges, e) \in Seq(Edges) /\ ToSet(AddEdge(edges, e)) = ToSet(edges) \cup {e}
<1>1. CASE Contains(edges, e)
  <2>1. e \in ToSet(edges) BY <1>1, ToSetFacts DEF Contains
  <2> QED BY <1>1, <2>1 DEF AddEdge
<1>2. CASE ~Contains(edges, e) BY <1>2, AppendFacts DEF AddEdge
<1> QED BY <1>1, <1>2

Link(inputs, consumer, i) ==
  [source |-> Append(inputs, consumer)[i], target |-> Append(inputs, consumer)[i + 1], port |-> "x"]

\* linked holds the lists of edges that chaining goes through, edge by edge.
Linked(linked, g, consumer, inputs) ==
  /\ linked \in [0 .. Len(inputs) -> Seq(Edges)]
  /\ ToSet(linked[0]) \subseteq EdgesOf(g)
  /\ \A i \in 1 .. Len(inputs) : ToSet(linked[i]) = ToSet(linked[i - 1]) \cup {Link(inputs, consumer, i)}
  /\ ChainSiblings(g, consumer, inputs) = [g EXCEPT !.edges = linked[Len(inputs)]]

LEMMA ChainOf ==
  ASSUME NEW consumer \in Nodes, NEW inputs \in Seq(Nodes)
  PROVE  /\ Append(inputs, consumer) \in Seq(Nodes)
         /\ \A i \in 1 .. Len(inputs) : Append(inputs, consumer)[i] = inputs[i]
         /\ Append(inputs, consumer)[Len(inputs) + 1] = consumer
         /\ \A i \in 1 .. Len(inputs) + 1 : Append(inputs, consumer)[i] \in Nodes
         /\ Len(Append(inputs, consumer)) = Len(inputs) + 1
OBVIOUS

LEMMA LinkFacts ==
  ASSUME NEW consumer \in Nodes, NEW inputs \in Seq(Nodes), NEW i \in 1 .. Len(inputs)
  PROVE  /\ Link(inputs, consumer, i) \in Edges
         /\ Link(inputs, consumer, i).source = inputs[i]
         /\ Link(inputs, consumer, i).target = IF i = Len(inputs) THEN consumer ELSE inputs[i + 1]
<1> DEFINE chain == Append(inputs, consumer)
<1>1. /\ \A k \in 1 .. Len(inputs) : chain[k] = inputs[k]
      /\ chain[Len(inputs) + 1] = consumer /\ \A k \in 1 .. Len(inputs) + 1 : chain[k] \in Nodes
  BY ChainOf
<1>2. Link(inputs, consumer, i) = [source |-> chain[i], target |-> chain[i + 1], port |-> "x"] BY DEF Link
<1>3. Len(inputs) \in Nat OBVIOUS
<1> HIDE DEF chain
<1>4. i \in 1 .. Len(inputs) + 1 /\ i + 1 \in 1 .. Len(inputs) + 1 BY <1>3
<1>5. chain[i] \in Nodes /\ chain[i + 1] \in Nodes BY <1>1, <1>4
<1>6. "x" \in Ports(chain[i]) BY DEF Ports
<1>7. Link(inputs, consumer, i) \in Edges BY <1>2, <1>5, <1>6 DEF Edges
<1>8. chain[i + 1] = IF i = Len(inputs) THEN consumer ELSE inputs[i + 1] BY <1>1, <1>3
<1> QED BY <1>1, <1>2, <1>7, <1>8

LEMMA LinkedFacts ==
  ASSUME NEW g \in Graphs, NEW consumer \in Nodes, NEW inputs \in Seq(Nodes)
  PROVE  \E linked : Linked(linked, g, consumer, inputs)
<1> DEFINE n == Len(inputs)
           tails == ToSet(Tail(inputs))
           replaced == {e \in EdgesOf(g) : (e.target = consumer /\ e.source \in ToSet(inputs)) \/ e.target \in tails}
           base == Filtered(g.edges, EdgesOf(g) \ replaced)
           E(f) == f = [i \in 0 .. n |-> IF i = 0 THEN base ELSE AddEdge(f[i - 1], Link(inputs, consumer, i))]
           linked == CHOOSE f : E(f)
<1>0. n \in Nat OBVIOUS
<1>1. ChainSiblings(g, consumer, inputs) = [g EXCEPT !.edges = linked[n]] BY DEF ChainSiblings, Link
<1>2. base \in Seq(Edges) /\ ToSet(base) \subseteq EdgesOf(g)
  <2> HIDE DEF replaced
  <2> QED BY GraphFacts, FilteredFacts DEF EdgesOf
<1> HIDE DEF base
<1>3. \E f : E(f)
  <2> DEFINE G == [p \in (1 .. n) \X Seq(Edges) |-> AddEdge(p[2], Link(inputs, consumer, p[1]))]
  <2>1. \A i \in 1 .. n, x \in Seq(Edges) : G[<<i, x>>] = AddEdge(x, Link(inputs, consumer, i)) OBVIOUS
  <2>2. G \in [(1 .. n) \X Seq(Edges) -> Seq(Edges)]
    <3> SUFFICES ASSUME NEW i \in 1 .. n, NEW x \in Seq(Edges)
                 PROVE  AddEdge(x, Link(inputs, consumer, i)) \in Seq(Edges)
      OBVIOUS
    <3>1. Link(inputs, consumer, i) \in Edges BY LinkFacts
    <3> QED BY <3>1, AddEdgeFacts
  <2> HIDE DEF G, n
  <2>3. PICK f \in [0 .. n -> Seq(Edges)] : f[0] = base /\ \A i \in 1 .. n : f[i] = G[<<i, f[i - 1]>>]
    <3>1. \E f : Recurses(f, n, Seq(Edges), base, G) BY <1>0, <1>2, <2>2, Recursion
    <3> QED BY <3>1 DEF Recurses
  <2>4. \A i \in 0 .. n : f[i] = IF i = 0 THEN base ELSE AddEdge(f[i - 1], Link(inputs, consumer, i))
    <3> SUFFICES ASSUME NEW i \in 0 .. n
                 PROVE  f[i] = IF i = 0 THEN base ELSE AddEdge(f[i - 1], Link(inputs, consumer, i))
      OBVIOUS
    <3>1. CASE i = 0 BY <2>3, <3>1
    <3>2. CASE i # 0
      <4>1. i \in 1 .. n /\ i - 1 \in 0 .. n BY <1>0, <3>2
      <4>2. f[i - 1] \in Seq(Edges) BY <2>3, <4>1
      <4> QED BY <2>1, <2>3, <3>2, <4>1, <4>2
    <3> QED BY <3>1, <3>2
  <2>5. f = [i \in 0 .. n |-> f[i]] BY <2>3
  <2> QED BY <2>4, <2>5
<1> HIDE DEF linked
<1>4. E(linked)
  <2> HIDE DEF E
  <2> QED BY <1>3 DEF linked
<1>5. /\ linked[0] = base
      /\ \A i \in 1 .. n : linked[i] = AddEdge(linked[i - 1], Link(inputs, consumer, i))
  <2>1. \A i \in 0 .. n : linked[i] = IF i = 0 THEN base ELSE AddEdge(linked[i - 1], Link(inputs, consumer, i))
    <3> HIDE DEF n
    <3> QED BY <1>4
  <2>2. 0 \in 0 .. n /\ \A i \in 1 .. n : i \in 0 .. n /\ i # 0 BY <1>0
  <2> HIDE DEF n, E
  <2> QED BY <2>1, <2>2
<1>6. DOMAIN linked = 0 .. n BY <1>4
<1>60. linked = [i \in 0 .. n |-> linked[i]] BY <1>4
<1> HIDE DEF E
<1> DEFINE P == {i \in 0 .. n : linked[i] \in Seq(Edges)}
<1>7. \A i \in 0 .. n : i \in P
  <2>1. 0 \in P BY <1>0, <1>2, <1>5
  <2>2. ASSUME NEW i \in 1 .. n, i - 1 \in P PROVE i \in P
    <3>1. Link(inputs, consumer, i) \in Edges BY LinkFacts
    <3>2. linked[i - 1] \in Seq(Edges) BY <2>2
    <3>3. AddEdge(linked[i - 1], Link(inputs, consumer, i)) \in Seq(Edges) BY <3>1, <3>2, AddEdgeFacts
    <3>4. i \in 0 .. n BY <1>0
    <3> QED BY <1>5, <3>3, <3>4
  <2> HIDE DEF P
  <2> QED BY <1>0, <2>1, <2>2, UpTo
<1>8. linked \in [0 .. n -> Seq(Edges)]
  <2> HIDE DEF n
  <2> QED BY <1>60, <1>7
<1>9. \A i \in 1 .. n : ToSet(linked[i]) = ToSet(linked[i - 1]) \cup {Link(inputs, consumer, i)}
  <2> SUFFICES ASSUME NEW i \in 1 .. n
               PROVE  ToSet(linked[i]) = ToSet(linked[i - 1]) \cup {Link(inputs, consumer, i)}
    OBVIOUS
  <2>1. i - 1 \in 0 .. n BY <1>0
  <2>2. linked[i - 1] \in Seq(Edges) /\ Link(inputs, consumer, i) \in Edges BY <1>7, <2>1, LinkFacts
  <2> QED BY <1>5, <2>2, AddEdgeFacts
<1>10. Linked(linked, g, consumer, inputs)
  <2> USE DEF n
  <2> HIDE DEF linked
  <2> QED BY <1>1, <1>2, <1>5, <1>8, <1>9 DEF Linked
<1> QED BY <1>10

-----------------------------------------------------------------------------
(* Walks.                                                                  *)

\* A walk by F that starts from S: its rounds, and the sets it stays in.
Rounds == Cardinality(Nodes)
Grows(grow, S, F) ==
  /\ grow \in [0 .. Rounds -> SUBSET Nodes] /\ grow[0] = S
  /\ \A k \in 1 .. Rounds : grow[k] = grow[k - 1] \cup UNION {F[n] : n \in grow[k - 1]}
Keeps(F, X) == \A n \in X : F[n] \subseteq X

LEMMA GrowthExists ==
  ASSUME NEW S \in SUBSET Nodes, NEW F \in [Nodes -> SUBSET Nodes]
  PROVE  \E grow : Grows(grow, S, F)
<1> DEFINE After(X) == X \cup UNION {F[n] : n \in X}
           G == [p \in (1 .. Rounds) \X SUBSET Nodes |-> After(p[2])]
<1>1. Rounds \in Nat BY GraphAssumption, FS_CardinalityType DEF Rounds
<1>2. \A X \in SUBSET Nodes : After(X) \in SUBSET Nodes OBVIOUS
<1>3. \A k \in 1 .. Rounds, X \in SUBSET Nodes : G[<<k, X>>] = After(X) OBVIOUS
<1> HIDE DEF After
<1>4. G \in [(1 .. Rounds) \X SUBSET Nodes -> SUBSET Nodes] BY <1>2
<1> HIDE DEF G
<1>5. PICK f : Recurses(f, Rounds, SUBSET Nodes, S, G) BY <1>1, <1>4, Recursion
<1>6. \A k \in 1 .. Rounds : f[k] = After(f[k - 1])
  <2> SUFFICES ASSUME NEW k \in 1 .. Rounds PROVE f[k] = After(f[k - 1]) OBVIOUS
  <2>1. k - 1 \in 0 .. Rounds BY <1>1
  <2>2. f[k - 1] \in SUBSET Nodes BY <1>5, <2>1 DEF Recurses
  <2> QED BY <1>3, <1>5, <2>2 DEF Recurses
<1>7. Grows(f, S, F) BY <1>5, <1>6 DEF Grows, Recurses, After
<1> QED BY <1>7

\* After as many rounds as there are nodes the walk has found the least set that
\* holds S and that F does not lead out of.
LEMMA GrowthFacts ==
  ASSUME NEW S \in SUBSET Nodes, NEW F \in [Nodes -> SUBSET Nodes], NEW grow, Grows(grow, S, F)
  PROVE  /\ S \subseteq grow[Rounds] /\ grow[Rounds] \subseteq Nodes /\ Keeps(F, grow[Rounds])
         /\ \A X : S \subseteq X /\ Keeps(F, X) => grow[Rounds] \subseteq X
<1> DEFINE N == Rounds
           After(X) == X \cup UNION {F[n] : n \in X}
<1>0. N \in Nat /\ IsFiniteSet(Nodes) /\ N = Cardinality(Nodes)
  BY GraphAssumption, FS_CardinalityType DEF Rounds
<1>1. /\ grow \in [0 .. N -> SUBSET Nodes] /\ grow[0] = S
      /\ \A k \in 1 .. N : grow[k] = After(grow[k - 1])
  BY DEF Grows
<1>2. \A X : X \subseteq After(X) OBVIOUS
<1>3. \A X : After(X) = X => Keeps(F, X) BY DEF Keeps
<1>4. \A X, Y : X \subseteq Y /\ Keeps(F, Y) => After(X) \subseteq Y
  <2> SUFFICES ASSUME NEW X, NEW Y, X \subseteq Y, Keeps(F, Y) PROVE \A n \in X : F[n] \subseteq Y OBVIOUS
  <2> QED BY DEF Keeps
<1> HIDE DEF N, After
<1>5. N \in 0 .. N BY <1>0
<1>6. S \subseteq grow[N]
  <2> DEFINE P == {k \in 0 .. N : S \subseteq grow[k]}
  <2>1. 0 \in P BY <1>0, <1>1
  <2>2. ASSUME NEW k \in 1 .. N, k - 1 \in P PROVE k \in P
    <3>1. k \in 0 .. N /\ grow[k] = After(grow[k - 1]) BY <1>0, <1>1
    <3> QED BY <1>2, <2>2, <3>1
  <2> HIDE DEF P
  <2>3. \A k \in 0 .. N : k \in P BY <1>0, <2>1, <2>2, UpTo
  <2> QED BY <1>5, <2>3 DEF P
<1>7. ASSUME NEW X, S \subseteq X, Keeps(F, X) PROVE grow[N] \subseteq X
  <2> DEFINE P == {k \in 0 .. N : grow[k] \subseteq X}
  <2>1. 0 \in P BY <1>0, <1>1, <1>7
  <2>2. ASSUME NEW k \in 1 .. N, k - 1 \in P PROVE k \in P
    <3>1. k \in 0 .. N /\ grow[k] = After(grow[k - 1]) BY <1>0, <1>1
    <3>2. grow[k] \subseteq X BY <1>4, <1>7, <2>2, <3>1
    <3> QED BY <3>1, <3>2
  <2> HIDE DEF P
  <2>3. \A k \in 0 .. N : k \in P BY <1>0, <2>1, <2>2, UpTo
  <2> QED BY <1>5, <2>3 DEF P
<1>8. Keeps(F, grow[N])
  \* As long as it is not closed, the set grows with every round.
  <2> DEFINE P == {k \in 0 .. N : After(grow[k]) = grow[k] \/ Cardinality(grow[k]) >= k}
  <2>1. 0 \in P
    <3>1. Cardinality(grow[0]) \in Nat BY <1>0, <1>1, FS_Subset, FS_CardinalityType
    <3> QED BY <1>0, <3>1
  <2>2. ASSUME NEW k \in 1 .. N, k - 1 \in P PROVE k \in P
    <3>1. k \in 0 .. N /\ k - 1 \in 0 .. N /\ grow[k] = After(grow[k - 1]) BY <1>0, <1>1
    <3>2. CASE After(grow[k - 1]) = grow[k - 1] BY <3>1, <3>2
    <3>3. CASE After(grow[k - 1]) # grow[k - 1]
      <4> DEFINE X == grow[k - 1]
                 Y == grow[k]
      <4>1. Cardinality(X) >= k - 1 BY <2>2, <3>3
      <4>2. X \in SUBSET Nodes /\ Y \in SUBSET Nodes BY <1>1, <3>1
      <4>3. X \in SUBSET Y /\ X # Y BY <1>2, <3>1, <3>3
      <4> HIDE DEF X, Y
      <4>4. IsFiniteSet(X) /\ IsFiniteSet(Y) BY <1>0, <4>2, FS_Subset
      <4>5. Cardinality(X) <= Cardinality(Y) /\ Cardinality(X) # Cardinality(Y) BY <4>3, <4>4, FS_Subset
      <4>6. Cardinality(X) \in Nat /\ Cardinality(Y) \in Nat BY <4>4, FS_CardinalityType
      <4>7. Cardinality(Y) >= k BY <1>0, <4>1, <4>5, <4>6
      <4> QED BY <3>1, <4>7 DEF Y
    <3> QED BY <3>2, <3>3
  <2> HIDE DEF P
  <2>3. \A k \in 0 .. N : k \in P BY <1>0, <2>1, <2>2, UpTo
  <2>4. After(grow[N]) = grow[N] \/ Cardinality(grow[N]) >= N BY <1>5, <2>3 DEF P
  <2>5. CASE After(grow[N]) = grow[N] BY <1>3, <2>5
  <2>6. CASE Cardinality(grow[N]) >= N
    <3> DEFINE X == grow[N]
    <3>1. X \in SUBSET Nodes BY <1>1, <1>5
    <3> HIDE DEF X
    <3>2. Cardinality(X) <= N /\ Cardinality(X) \in Nat BY <1>0, <3>1, FS_Subset, FS_CardinalityType
    <3>3. Cardinality(X) = Cardinality(Nodes) BY <1>0, <2>6, <3>2 DEF X
    <3>4. X = Nodes BY <1>0, <3>1, <3>3, FS_Subset
    <3> QED BY <3>4 DEF Keeps, X
  <2> QED BY <2>4, <2>5, <2>6
<1>9. grow[N] \subseteq Nodes BY <1>1, <1>5
<1> QED BY <1>6, <1>7, <1>8, <1>9 DEF N

\* What a function on the rounds computes by such equations is such a walk.
LEMMA GrowthTyped ==
  ASSUME NEW S \in SUBSET Nodes, NEW F \in [Nodes -> SUBSET Nodes], NEW grow,
         grow = [k \in 0 .. Rounds |-> grow[k]], grow[0] = S,
         \A k \in 1 .. Rounds : grow[k - 1] \in SUBSET Nodes =>
           grow[k] = grow[k - 1] \cup UNION {F[n] : n \in grow[k - 1]}
  PROVE  Grows(grow, S, F)
<1>0. Rounds \in Nat BY GraphAssumption, FS_CardinalityType DEF Rounds
<1> DEFINE P == {k \in 0 .. Rounds : grow[k] \in SUBSET Nodes}
<1>1. 0 \in P BY <1>0
<1>2. ASSUME NEW k \in 1 .. Rounds, k - 1 \in P PROVE k \in P
  <2>1. k \in 0 .. Rounds /\ grow[k - 1] \in SUBSET Nodes BY <1>0, <1>2
  <2>2. grow[k] = grow[k - 1] \cup UNION {F[n] : n \in grow[k - 1]} BY <2>1
  <2>3. grow[k] \in SUBSET Nodes
    <3> DEFINE X == grow[k - 1]
    <3>1. X \in SUBSET Nodes /\ \A n \in Nodes : F[n] \subseteq Nodes BY <2>1
    <3> HIDE DEF X
    <3>2. X \cup UNION {F[n] : n \in X} \in SUBSET Nodes BY <3>1
    <3> QED BY <2>2, <3>2 DEF X
  <2> QED BY <2>1, <2>3
<1> HIDE DEF P
<1>3. \A k \in 0 .. Rounds : k \in P BY <1>0, <1>1, <1>2, UpTo
<1>4. \A k \in 0 .. Rounds : grow[k] \in SUBSET Nodes BY <1>3 DEF P
<1>5. grow \in [0 .. Rounds -> SUBSET Nodes] BY <1>4
<1>6. \A k \in 1 .. Rounds : grow[k] = grow[k - 1] \cup UNION {F[n] : n \in grow[k - 1]}
  <2> SUFFICES ASSUME NEW k \in 1 .. Rounds PROVE grow[k - 1] \in SUBSET Nodes OBVIOUS
  <2>1. k - 1 \in 0 .. Rounds BY <1>0
  <2> QED BY <1>4, <2>1
<1> QED BY <1>5, <1>6 DEF Grows

-----------------------------------------------------------------------------
(* Paths.                                                                  *)

\* No edge leads out of X.
Follows(g, X) == \A e \in EdgesOf(g) : e.source \in X => e.target \in X

LEMMA SuccessorFacts ==
  ASSUME NEW g \in Graphs, NEW n
  PROVE  /\ Successors(g, n) \subseteq Nodes
         /\ \A e \in EdgesOf(g) : e.source = n => e.target \in Successors(g, n)
         /\ \A X : Successors(g, n) \subseteq X <=> \A e \in EdgesOf(g) : e.source = n => e.target \in X
<1>1. \A e \in EdgesOf(g) : e.target \in Nodes BY GraphFacts
<1> QED BY <1>1 DEF Successors

\* Downstream(g, S) is the least set that holds S and that no edge leads out of.
LEMMA DownstreamFacts ==
  ASSUME NEW g \in Graphs, NEW S \in SUBSET Nodes
  PROVE  /\ S \subseteq Downstream(g, S) /\ Downstream(g, S) \subseteq Nodes
         /\ Follows(g, Downstream(g, S))
         /\ \A X : S \subseteq X /\ Follows(g, X) => Downstream(g, S) \subseteq X
<1> DEFINE After(X) == LET found == X IN found \cup UNION {Successors(g, n) : n \in found}
           E(f) == f = [k \in 0 .. Rounds |-> IF k = 0 THEN S ELSE After(f[k - 1])]
           grow == CHOOSE f : E(f)
           F == [n \in Nodes |-> Successors(g, n)]
<1>0. Rounds \in Nat BY GraphAssumption, FS_CardinalityType DEF Rounds
<1>1. Downstream(g, S) = grow[Rounds] BY DEF Downstream, Closure, Rounds
<1>2. F \in [Nodes -> SUBSET Nodes] /\ \A n \in Nodes : F[n] = Successors(g, n) BY SuccessorFacts
<1>3. \A X \in SUBSET Nodes : After(X) = X \cup UNION {F[n] : n \in X}
  <2> SUFFICES ASSUME NEW X \in SUBSET Nodes
               PROVE  \A y : (\E n \in X : y \in Successors(g, n)) <=> (\E n \in X : y \in F[n])
    OBVIOUS
  <2> QED BY <1>2
<1> HIDE DEF After, F
<1>4. \E f : E(f)
  <2>1. PICK f : Grows(f, S, F) BY <1>2, GrowthExists
  <2>2. \A k \in 0 .. Rounds : f[k] = IF k = 0 THEN S ELSE After(f[k - 1])
    <3> SUFFICES ASSUME NEW k \in 0 .. Rounds PROVE f[k] = IF k = 0 THEN S ELSE After(f[k - 1]) OBVIOUS
    <3>1. CASE k = 0 BY <2>1, <3>1 DEF Grows
    <3>2. CASE k # 0
      <4>1. k \in 1 .. Rounds /\ k - 1 \in 0 .. Rounds BY <1>0, <3>2
      <4>2. f[k - 1] \in SUBSET Nodes BY <2>1, <4>1 DEF Grows
      <4> QED BY <1>3, <2>1, <3>2, <4>1, <4>2 DEF Grows
    <3> QED BY <3>1, <3>2
  <2>3. f = [k \in 0 .. Rounds |-> f[k]] BY <2>1 DEF Grows
  <2> QED BY <2>2, <2>3
<1> HIDE DEF grow
<1>5. E(grow)
  <2> HIDE DEF E
  <2> QED BY <1>4 DEF grow
<1>6. \A k \in 0 .. Rounds : grow[k] = IF k = 0 THEN S ELSE After(grow[k - 1]) BY <1>5
<1>7. grow = [k \in 0 .. Rounds |-> grow[k]] BY <1>5
<1> HIDE DEF E
<1>8. grow[0] = S /\ \A k \in 1 .. Rounds : grow[k] = After(grow[k - 1])
  <2>1. 0 \in 0 .. Rounds /\ \A k \in 1 .. Rounds : k \in 0 .. Rounds /\ k # 0 BY <1>0
  <2> QED BY <1>6, <2>1
<1>9. Grows(grow, S, F) BY <1>2, <1>3, <1>7, <1>8, GrowthTyped
<1>10. /\ S \subseteq grow[Rounds] /\ grow[Rounds] \subseteq Nodes /\ Keeps(F, grow[Rounds])
       /\ \A X : S \subseteq X /\ Keeps(F, X) => grow[Rounds] \subseteq X
  BY <1>2, <1>9, GrowthFacts
<1>11. \A X \in SUBSET Nodes : Keeps(F, X) <=> Follows(g, X)
  <2> SUFFICES ASSUME NEW X \in SUBSET Nodes
               PROVE  (\A n \in X : Successors(g, n) \subseteq X) <=> Follows(g, X)
    BY <1>2 DEF Keeps
  <2> QED BY DEF Successors, Follows
<1>12. ASSUME NEW X, S \subseteq X, Follows(g, X) PROVE grow[Rounds] \subseteq X
  <2> DEFINE Y == X \cap Nodes
  <2>1. Follows(g, Y) BY <1>12, GraphFacts DEF Follows
  <2>2. S \subseteq Y /\ Y \in SUBSET Nodes BY <1>12
  <2> HIDE DEF Y
  <2>3. grow[Rounds] \subseteq Y BY <1>10, <1>11, <2>1, <2>2
  <2> QED BY <2>3 DEF Y
<1> QED BY <1>1, <1>10, <1>11, <1>12

\* A graph has no loop if a set that no edge leads out of parts each node from its
\* successors.
LEMMA AcyclicBySets ==
  ASSUME NEW g \in Graphs,
         \A n \in Nodes : \E X : Follows(g, X) /\ n \notin X /\ \A e \in EdgesOf(g) : e.source = n => e.target \in X
  PROVE  Acyclic(g)
<1> SUFFICES ASSUME NEW n \in Nodes PROVE n \notin Downstream(g, Successors(g, n)) BY DEF Acyclic, Leads
<1>1. PICK X : Follows(g, X) /\ n \notin X /\ \A e \in EdgesOf(g) : e.source = n => e.target \in X OBVIOUS
<1>2. Successors(g, n) \subseteq X /\ Successors(g, n) \in SUBSET Nodes BY <1>1, SuccessorFacts
<1> QED BY <1>1, <1>2, DownstreamFacts

\* What follows n, in a graph without loops.
LEMMA AcyclicFacts ==
  ASSUME NEW g \in Graphs, Acyclic(g), NEW n \in Nodes
  PROVE  LET X == Downstream(g, Successors(g, n)) IN
         /\ Follows(g, X) /\ n \notin X /\ \A e \in EdgesOf(g) : e.source = n => e.target \in X
         /\ X \subseteq Nodes
<1> DEFINE X == Downstream(g, Successors(g, n))
<1>1. n \notin X BY DEF Acyclic, Leads
<1>2. Successors(g, n) \in SUBSET Nodes BY SuccessorFacts
<1>3. Successors(g, n) \subseteq X /\ X \subseteq Nodes /\ Follows(g, X) BY <1>2, DownstreamFacts
<1> HIDE DEF X
<1>4. \A e \in EdgesOf(g) : e.source = n => e.target \in X BY <1>3, SuccessorFacts
<1> QED BY <1>1, <1>3, <1>4 DEF X

\* Taking edges away closes no loop.
LEMMA FewerEdges ==
  ASSUME NEW g \in Graphs, Acyclic(g), NEW h \in Graphs, EdgesOf(h) \subseteq EdgesOf(g)
  PROVE  Acyclic(h)
<1>1. ASSUME NEW n \in Nodes
      PROVE  \E X : Follows(h, X) /\ n \notin X /\ \A e \in EdgesOf(h) : e.source = n => e.target \in X
  <2> DEFINE X == Downstream(g, Successors(g, n))
  <2>1. Follows(g, X) /\ n \notin X /\ \A e \in EdgesOf(g) : e.source = n => e.target \in X
    BY AcyclicFacts
  <2> HIDE DEF X
  <2>2. Follows(h, X) /\ n \notin X /\ \A e \in EdgesOf(h) : e.source = n => e.target \in X
    BY <2>1 DEF Follows
  <2> QED BY <2>2
<1> QED BY <1>1, AcyclicBySets

\* An edge closes no loop where its target does not lead to its source.
LEMMA EdgeAdded ==
  ASSUME NEW g \in Graphs, Acyclic(g), NEW h \in Graphs, NEW u \in Nodes, NEW v \in Nodes,
         u \notin Downstream(g, {v}),
         \A e \in EdgesOf(h) : e \in EdgesOf(g) \/ (e.source = u /\ e.target = v)
  PROVE  Acyclic(h)
<1> SUFFICES ASSUME NEW n \in Nodes
             PROVE  \E X : Follows(h, X) /\ n \notin X /\ \A e \in EdgesOf(h) : e.source = n => e.target \in X
  BY AcyclicBySets
<1> DEFINE A == Downstream(g, Successors(g, n))
           V == Downstream(g, {v})
<1>1. Follows(g, A) /\ n \notin A /\ \A e \in EdgesOf(g) : e.source = n => e.target \in A BY AcyclicFacts
<1>2. v \in V /\ Follows(g, V) BY DownstreamFacts
<1>3. \A X : Successors(g, n) \subseteq X /\ Follows(g, X) => A \subseteq X
  BY SuccessorFacts, DownstreamFacts
<1>4. n \in V => Successors(g, n) \subseteq V BY <1>2 DEF Follows, Successors
<1> HIDE DEF A, V
<1>5. u \notin V BY DEF V
<1>6. CASE u \in A \/ u = n
  <2>1. n \notin V BY <1>2, <1>3, <1>4, <1>5, <1>6
  <2>2. Follows(h, A \cup V) BY <1>1, <1>2 DEF Follows
  <2>3. \A e \in EdgesOf(h) : e.source = n => e.target \in A \cup V BY <1>1, <1>2
  <2> QED BY <1>1, <2>1, <2>2, <2>3
<1>7. CASE u \notin A /\ u # n
  <2>1. Follows(h, A) BY <1>1, <1>7 DEF Follows
  <2>2. \A e \in EdgesOf(h) : e.source = n => e.target \in A BY <1>1, <1>7
  <2> QED BY <1>1, <2>1, <2>2
<1> QED BY <1>6, <1>7

LEMMA SingleDownstream ==
  ASSUME NEW g \in Graphs, NEW v \in Nodes, NEW x \in Downstream(g, {v}), x # v
  PROVE  Leads(g, v, x)
<1> DEFINE X == Downstream(g, Successors(g, v))
<1>1. Successors(g, v) \in SUBSET Nodes BY SuccessorFacts
<1>2. Successors(g, v) \subseteq X /\ Follows(g, X) BY <1>1, DownstreamFacts
<1> HIDE DEF X
<1>3. \A e \in EdgesOf(g) : e.source = v => e.target \in X BY <1>2, SuccessorFacts
<1>4. Follows(g, {v} \cup X) BY <1>2, <1>3 DEF Follows
<1>5. Downstream(g, {v}) \subseteq {v} \cup X BY <1>4, DownstreamFacts
<1> QED BY <1>5 DEF Leads, X

\* Chaining closes no loop if none of the nodes named leads to an input.
LEMMA ChainFacts ==
  ASSUME NEW g \in Graphs, NEW consumer \in Nodes, NEW inputs \in Seq(Nodes)
  PROVE  /\ ChainSiblings(g, consumer, inputs) \in Graphs
         /\ NodesOf(ChainSiblings(g, consumer, inputs)) = NodesOf(g)
         /\ \A e \in EdgesOf(ChainSiblings(g, consumer, inputs)) :
              e \in EdgesOf(g) \/ {e.source, e.target} \subseteq ToSet(Append(inputs, consumer))
         /\ (/\ Acyclic(g)
             /\ \A i, k \in 1 .. Len(inputs) : inputs[i] = inputs[k] => i = k
             /\ consumer \notin ToSet(inputs)
             /\ \A i \in 1 .. Len(inputs), a \in ToSet(Append(inputs, consumer)) :
                  a # inputs[i] => ~Leads(g, a, inputs[i]))
            => Acyclic(ChainSiblings(g, consumer, inputs))
<1> DEFINE n == Len(inputs)
           named == ToSet(Append(inputs, consumer))
<1>1. PICK linked : Linked(linked, g, consumer, inputs) BY LinkedFacts
<1> DEFINE At(i) == [g EXCEPT !.edges = linked[i]]
<1>2. /\ n \in Nat /\ linked \in [0 .. n -> Seq(Edges)] /\ ToSet(linked[0]) \subseteq EdgesOf(g)
      /\ \A i \in 1 .. n : ToSet(linked[i]) = ToSet(linked[i - 1]) \cup {Link(inputs, consumer, i)}
      /\ ChainSiblings(g, consumer, inputs) = At(n)
  <2>1. n \in Nat OBVIOUS
  <2>2. ChainSiblings(g, consumer, inputs) = At(n) BY <1>1 DEF Linked
  <2> HIDE DEF At
  <2> QED BY <1>1, <2>1, <2>2 DEF Linked
<1>3. \A i \in 0 .. n : At(i) \in Graphs /\ EdgesOf(At(i)) = ToSet(linked[i]) /\ NodesOf(At(i)) = NodesOf(g)
  BY <1>2 DEF Graphs, EdgesOf, NodesOf
<1>4. named = ToSet(inputs) \cup {consumer} /\ ToSet(inputs) = {inputs[i] : i \in 1 .. n} /\ named \subseteq Nodes
  BY AppendFacts, ToSetFacts
<1> DEFINE Target(i) == IF i = n THEN consumer ELSE inputs[i + 1]
<1>5. \A i \in 1 .. n : /\ Link(inputs, consumer, i) \in Edges
                        /\ Link(inputs, consumer, i).source = inputs[i]
                        /\ Link(inputs, consumer, i).target = Target(i)
  BY LinkFacts
<1>6. \A i \in 1 .. n : i - 1 \in 0 .. n /\ i \in 0 .. n BY <1>2
<1> HIDE DEF At
<1>70. \A i \in 1 .. n : EdgesOf(At(i)) = EdgesOf(At(i - 1)) \cup {Link(inputs, consumer, i)}
  <2> HIDE DEF n
  <2> SUFFICES ASSUME NEW i \in 1 .. n
               PROVE  EdgesOf(At(i)) = EdgesOf(At(i - 1)) \cup {Link(inputs, consumer, i)}
    OBVIOUS
  <2>1. EdgesOf(At(i - 1)) = ToSet(linked[i - 1]) /\ EdgesOf(At(i)) = ToSet(linked[i]) BY <1>3, <1>6
  <2>2. ToSet(linked[i]) = ToSet(linked[i - 1]) \cup {Link(inputs, consumer, i)} BY <1>2
  <2> QED BY <2>1, <2>2
<1>7. \A i \in 1 .. n : inputs[i] \in named /\ inputs[i] \in Nodes /\ Target(i) \in named /\ Target(i) \in Nodes
  <2> SUFFICES ASSUME NEW i \in 1 .. n PROVE inputs[i] \in named /\ Target(i) \in named BY <1>4
  <2>1. i = n \/ i + 1 \in 1 .. n BY <1>2
  <2> QED BY <1>4, <2>1
<1> HIDE DEF n, named, At
<1>8. \A i \in 0 .. n : \A e \in EdgesOf(At(i)) :
        e \in EdgesOf(g) \/ \E m \in 1 .. i : e.source = inputs[m] /\ e.target \in named
  <2> DEFINE P == {i \in 0 .. n : \A e \in EdgesOf(At(i)) :
                     e \in EdgesOf(g) \/ \E m \in 1 .. i : e.source = inputs[m] /\ e.target \in named}
  <2>1. 0 \in P
    <3>1. 0 \in 0 .. n BY <1>2
    <3> QED BY <1>2, <1>3, <3>1
  <2>2. ASSUME NEW i \in 1 .. n, i - 1 \in P PROVE i \in P
    <3> SUFFICES ASSUME NEW e \in EdgesOf(At(i))
                 PROVE  e \in EdgesOf(g) \/ \E m \in 1 .. i : e.source = inputs[m] /\ e.target \in named
      BY <1>6
    <3>1. e \in EdgesOf(At(i - 1)) \/ e = Link(inputs, consumer, i) BY <1>70
    <3>2. \A m \in 1 .. i - 1 : m \in 1 .. i BY <1>2
    <3>3. i \in 1 .. i BY <1>2
    <3>4. CASE e \in EdgesOf(At(i - 1)) BY <2>2, <3>2, <3>4
    <3>5. CASE e = Link(inputs, consumer, i) BY <1>5, <1>7, <3>3, <3>5
    <3> QED BY <3>1, <3>4, <3>5
  <2> HIDE DEF P
  <2>3. \A i \in 0 .. n : i \in P BY <1>2, <2>1, <2>2, UpTo
  <2> QED BY <2>3 DEF P
<1>9. n \in 0 .. n BY <1>2
<1>10. At(n) \in Graphs /\ NodesOf(At(n)) = NodesOf(g) BY <1>3, <1>9
<1>11. ASSUME NEW e \in EdgesOf(At(n)) PROVE e \in EdgesOf(g) \/ {e.source, e.target} \subseteq named
  BY <1>7, <1>8, <1>9
<1>12. ASSUME Acyclic(g), \A i, k \in 1 .. n : inputs[i] = inputs[k] => i = k, consumer \notin ToSet(inputs),
              \A i \in 1 .. n, a \in named : a # inputs[i] => ~Leads(g, a, inputs[i])
       PROVE  Acyclic(At(n))
  <2> DEFINE P == {i \in 0 .. n : Acyclic(At(i))}
  <2>1. 0 \in P
    <3>1. 0 \in 0 .. n BY <1>2
    <3>2. At(0) \in Graphs /\ EdgesOf(At(0)) \subseteq EdgesOf(g) BY <1>2, <1>3, <3>1
    <3>3. Acyclic(At(0)) BY <1>12, <3>2, FewerEdges
    <3> QED BY <3>1, <3>3
  <2>2. ASSUME NEW i \in 1 .. n, i - 1 \in P PROVE i \in P
    <3> DEFINE u == inputs[i]
               v == Target(i)
               X == Downstream(g, {v})
    <3>1. u \in Nodes /\ v \in Nodes /\ v \in named BY <1>7
    <3>2. \A m \in 1 .. i : m \in 1 .. n /\ inputs[m] # v
      <4> SUFFICES ASSUME NEW m \in 1 .. i PROVE m \in 1 .. n /\ inputs[m] # v OBVIOUS
      <4>1. m \in 1 .. n BY <1>2
      <4>2. CASE i = n BY <1>4, <1>12, <4>1, <4>2
      <4>3. CASE i # n
        <5>1. i + 1 \in 1 .. n /\ m # i + 1 BY <1>2, <4>3
        <5> QED BY <1>12, <4>1, <4>3, <5>1
      <4> QED BY <4>1, <4>2, <4>3
    <3> HIDE DEF v
    <3>3. Follows(g, X) /\ v \in X BY <3>1, DownstreamFacts
    <3>4. \A m \in 1 .. i : inputs[m] \notin X
      <4> SUFFICES ASSUME NEW m \in 1 .. i, inputs[m] \in X PROVE FALSE OBVIOUS
      <4>1. m \in 1 .. n /\ inputs[m] # v BY <3>2
      <4>2. Leads(g, v, inputs[m]) BY <3>1, <4>1, SingleDownstream
      <4> QED BY <1>12, <3>1, <4>1, <4>2
    <3> HIDE DEF X
    <3>5. At(i - 1) \in Graphs /\ At(i) \in Graphs /\ Acyclic(At(i - 1)) BY <1>3, <1>6, <2>2
    <3>6. Follows(At(i - 1), X)
      <4> SUFFICES ASSUME NEW e \in EdgesOf(At(i - 1)), e.source \in X PROVE e.target \in X BY DEF Follows
      <4>1. e \in EdgesOf(g) \/ \E m \in 1 .. i - 1 : e.source = inputs[m] BY <1>6, <1>8
      <4>2. \A m \in 1 .. i - 1 : m \in 1 .. i BY <1>2
      <4>3. e \in EdgesOf(g) BY <3>4, <4>1, <4>2
      <4> QED BY <3>3, <4>3 DEF Follows
    <3>7. Downstream(At(i - 1), {v}) \subseteq X BY <3>1, <3>3, <3>5, <3>6, DownstreamFacts
    <3>8. i \in 1 .. i BY <1>2
    <3>9. u \notin Downstream(At(i - 1), {v}) BY <3>4, <3>7, <3>8
    <3>10. \A e \in EdgesOf(At(i)) : e \in EdgesOf(At(i - 1)) \/ (e.source = u /\ e.target = v)
      <4>1. Link(inputs, consumer, i).source = u /\ Link(inputs, consumer, i).target = v BY <1>5 DEF v
      <4> QED BY <1>70, <4>1
    <3> HIDE DEF u
    <3>11. Acyclic(At(i)) BY <3>1, <3>5, <3>9, <3>10, EdgeAdded
    <3> QED BY <1>6, <3>11
  <2> HIDE DEF P
  <2>3. \A i \in 0 .. n : i \in P BY <1>2, <2>1, <2>2, UpTo
  <2> QED BY <1>9, <2>3 DEF P
<1> QED BY <1>2, <1>10, <1>11, <1>12 DEF n, named

\* A copy under new ids closes no loop.
LEMMA PastedAcyclic ==
  ASSUME NEW g \in Graphs, NEW part \in Graphs, part.parallel \subseteq NodesOf(part), Intact(part),
         NEW f \in FreshIds(NodesOf(part)), Acyclic(g), Acyclic(part), Named(g) \subseteq Used
  PROVE  Acyclic(Pasted(g, part, f))
<1> DEFINE S == NodesOf(part)
           h == Pasted(g, part, f)
<1>1. h \in Graphs /\ EdgesOf(h) = EdgesOf(g) \cup {Copy(e, f) : e \in EdgesOf(part)} BY PastedFacts
<1>2. S \in SUBSET Nodes BY GraphFacts
<1>3. /\ f \in [S -> Nodes] /\ \A n \in S : Kind[f[n]] = Kind[n]
      /\ \A n, m \in S : f[n] = f[m] => n = m
      /\ \A n \in S : f[n] \in Fresh
  BY <1>2, FreshFacts
<1>4. \A e \in EdgesOf(part) : e \in Edges /\ e.source \in S /\ e.target \in S BY GraphFacts DEF Intact
<1> HIDE DEF S, h
<1>5. \A e \in EdgesOf(part) : Copy(e, f).source = f[e.source] /\ Copy(e, f).target = f[e.target]
  BY <1>2, <1>3, <1>4, CopyFacts
<1>6. \A n \in S : f[n] \notin Named(g) BY <1>3 DEF Fresh
<1>7. \A e \in EdgesOf(g) : e.source \in Named(g) /\ e.target \in Named(g) BY DEF Named
<1> SUFFICES ASSUME NEW n \in Nodes
             PROVE  \E X : Follows(h, X) /\ n \notin X /\ \A e \in EdgesOf(h) : e.source = n => e.target \in X
  BY <1>1, AcyclicBySets DEF h
<1>8. ASSUME NEW m \in S, n = f[m]
      PROVE  \E X : Follows(h, X) /\ n \notin X /\ \A e \in EdgesOf(h) : e.source = n => e.target \in X
  <2> DEFINE M == Downstream(part, Successors(part, m))
  <2>1. Follows(part, M) /\ m \notin M /\ \A e \in EdgesOf(part) : e.source = m => e.target \in M
    BY <1>2, AcyclicFacts
  <2> HIDE DEF M
  <2> DEFINE X == {f[x] : x \in M \cap S}
  <2>2. n \notin X BY <1>3, <1>8, <2>1
  <2>3. Follows(h, X)
    <3> SUFFICES ASSUME NEW e \in EdgesOf(h), e.source \in X PROVE e.target \in X BY DEF Follows
    <3>1. PICK x \in M \cap S : e.source = f[x] OBVIOUS
    <3>2. e \notin EdgesOf(g) BY <1>6, <1>7, <3>1
    <3>3. PICK d \in EdgesOf(part) : e = Copy(d, f) BY <1>1, <3>2
    <3>4. d.source = x BY <1>3, <1>4, <1>5, <3>1, <3>3
    <3>5. d.target \in M \cap S BY <1>4, <2>1, <3>1, <3>4 DEF Follows
    <3> QED BY <1>5, <3>3, <3>5
  <2>4. \A e \in EdgesOf(h) : e.source = n => e.target \in X
    <3> SUFFICES ASSUME NEW e \in EdgesOf(h), e.source = n PROVE e.target \in X OBVIOUS
    <3>1. e \notin EdgesOf(g) BY <1>6, <1>7, <1>8
    <3>2. PICK d \in EdgesOf(part) : e = Copy(d, f) BY <1>1, <3>1
    <3>3. d.source = m BY <1>3, <1>4, <1>5, <1>8, <3>2
    <3>4. d.target \in M \cap S BY <1>4, <2>1, <3>3
    <3> QED BY <1>5, <3>2, <3>4
  <2> QED BY <2>2, <2>3, <2>4
<1>9. ASSUME \A m \in S : n # f[m]
      PROVE  \E X : Follows(h, X) /\ n \notin X /\ \A e \in EdgesOf(h) : e.source = n => e.target \in X
  <2> DEFINE A == Downstream(g, Successors(g, n))
  <2>1. Follows(g, A) /\ n \notin A /\ \A e \in EdgesOf(g) : e.source = n => e.target \in A
    BY AcyclicFacts
  <2>2. A \subseteq Named(g)
    <3>1. Successors(g, n) \subseteq Named(g) BY <1>7 DEF Successors
    <3>2. Follows(g, Named(g)) BY <1>7 DEF Follows
    <3>3. Successors(g, n) \in SUBSET Nodes BY SuccessorFacts
    <3> QED BY <3>1, <3>2, <3>3, DownstreamFacts
  <2> HIDE DEF A
  <2>3. ASSUME NEW e \in EdgesOf(h), e.source \in A \/ e.source = n PROVE e \in EdgesOf(g)
    <3>1. \A m \in S : e.source # f[m] BY <1>6, <1>9, <2>2, <2>3
    <3> QED BY <1>1, <1>4, <1>5, <2>3, <3>1
  <2>4. Follows(h, A) BY <2>1, <2>3 DEF Follows
  <2>5. \A e \in EdgesOf(h) : e.source = n => e.target \in A BY <2>1, <2>3
  <2> QED BY <2>1, <2>4, <2>5
<1> QED BY <1>8, <1>9

-----------------------------------------------------------------------------
(* What each operation makes of the canvas.                                *)

\* The clipboard holds a graph of its own.
ClipboardOK == clipboard.parallel \subseteq NodesOf(clipboard) /\ Intact(clipboard)

Typed == CanvasTypeOK /\ ClipboardOK

LEMMA TypedFacts ==
  ASSUME Typed
  PROVE  /\ HistoryOK /\ ClipboardOK /\ graph \in Graphs /\ clipboard \in Graphs /\ dialog \in Dialogs
         /\ edits \in 0 .. MaxEdits
         /\ request \in Graphs \cup {NoGraph} /\ result \in Graphs \cup {NoGraph}
BY DEF Typed, CanvasTypeOK, HistoryOK

\* A change of one field of a graph.
LEMMA FieldFacts ==
  ASSUME NEW g \in Graphs, NEW nodes \in Seq(Nodes), NEW edges \in Seq(Edges), NEW parallel \in SUBSET Nodes
  PROVE  /\ [g EXCEPT !.nodes = nodes] \in Graphs /\ [g EXCEPT !.edges = edges] \in Graphs
         /\ [g EXCEPT !.parallel = parallel] \in Graphs
         /\ NodesOf([g EXCEPT !.nodes = nodes]) = ToSet(nodes) /\ EdgesOf([g EXCEPT !.nodes = nodes]) = EdgesOf(g)
         /\ NodesOf([g EXCEPT !.edges = edges]) = NodesOf(g) /\ EdgesOf([g EXCEPT !.edges = edges]) = ToSet(edges)
         /\ NodesOf([g EXCEPT !.parallel = parallel]) = NodesOf(g)
         /\ EdgesOf([g EXCEPT !.parallel = parallel]) = EdgesOf(g)
BY DEF Graphs, NodesOf, EdgesOf

LEMMA AddNodeFacts ==
  ASSUME Typed, NEW n \in Nodes, AddNode(n)
  PROVE  Turned(NodesOf(graph) \cup {n}, EdgesOf(graph))
<1>1. HistoryOK /\ graph \in Graphs BY TypedFacts
<1>2. graph.nodes \in Seq(Nodes) /\ graph.edges \in Seq(Edges) /\ graph.parallel \in SUBSET Nodes BY <1>1, GraphFacts
<1> DEFINE nodes == Append(graph.nodes, n)
           g == [graph EXCEPT !.nodes = nodes]
<1>3. nodes \in Seq(Nodes) /\ ToSet(nodes) = NodesOf(graph) \cup {n} BY <1>2, AppendFacts DEF NodesOf
<1>4. Commit(g) BY DEF AddNode
<1> HIDE DEF nodes
<1>5. g \in Graphs /\ NodesOf(g) = ToSet(nodes) /\ EdgesOf(g) = EdgesOf(graph) BY <1>1, <1>2, <1>3, FieldFacts
<1> HIDE DEF g
<1>6. Turned(NodesOf(g), EdgesOf(g)) BY <1>1, <1>4, <1>5, CommitFacts
<1> QED BY <1>3, <1>5, <1>6

LEMMA OnConnectFacts ==
  ASSUME Typed, NEW e \in Edges, OnConnect(e)
  PROVE  Turned(NodesOf(graph), EdgesOf(graph) \cup {e})
<1>1. HistoryOK /\ graph \in Graphs BY TypedFacts
<1>2. graph.nodes \in Seq(Nodes) /\ graph.edges \in Seq(Edges) /\ graph.parallel \in SUBSET Nodes BY <1>1, GraphFacts
<1> DEFINE edges == AddEdge(graph.edges, e)
           g == [graph EXCEPT !.edges = edges]
<1>3. edges \in Seq(Edges) /\ ToSet(edges) = EdgesOf(graph) \cup {e} BY <1>2, AddEdgeFacts DEF EdgesOf
<1>4. Commit(g) BY DEF OnConnect
<1> HIDE DEF edges
<1>5. g \in Graphs /\ EdgesOf(g) = ToSet(edges) /\ NodesOf(g) = NodesOf(graph) BY <1>1, <1>2, <1>3, FieldFacts
<1> HIDE DEF g
<1>6. Turned(NodesOf(g), EdgesOf(g)) BY <1>1, <1>4, <1>5, CommitFacts
<1> QED BY <1>3, <1>5, <1>6

LEMMA RemoveEdgeFacts ==
  ASSUME Typed, NEW e \in Edges, RemoveEdge(e)
  PROVE  Turned(NodesOf(graph), EdgesOf(graph) \ {e})
<1>1. HistoryOK /\ graph \in Graphs BY TypedFacts
<1> DEFINE g == WithoutEdges(graph, {e})
<1>2. Commit(g) BY DEF RemoveEdge, WithoutEdges
<1>3. g \in Graphs /\ NodesOf(g) = NodesOf(graph) /\ EdgesOf(g) = EdgesOf(graph) \ {e} BY <1>1, WithoutFacts
<1> HIDE DEF g
<1>4. Turned(NodesOf(g), EdgesOf(g)) BY <1>1, <1>2, <1>3, CommitFacts
<1> QED BY <1>3, <1>4

LEMMA SetExecutionModeFacts ==
  ASSUME Typed, NEW n \in Nodes, SetExecutionMode(n)
  PROVE  Turned(NodesOf(graph), EdgesOf(graph))
<1>1. HistoryOK /\ graph \in Graphs BY TypedFacts
<1>2. graph.nodes \in Seq(Nodes) /\ graph.edges \in Seq(Edges) /\ graph.parallel \in SUBSET Nodes BY <1>1, GraphFacts
<1>3. PICK p \in {graph.parallel \cup {n}, graph.parallel \ {n}} : Commit([graph EXCEPT !.parallel = p])
  BY DEF SetExecutionMode
<1>4. p \in SUBSET Nodes BY <1>2
<1> DEFINE g == [graph EXCEPT !.parallel = p]
<1>5. g \in Graphs /\ EdgesOf(g) = EdgesOf(graph) /\ NodesOf(g) = NodesOf(graph) BY <1>1, <1>2, <1>4, FieldFacts
<1> HIDE DEF g
<1>6. Turned(NodesOf(g), EdgesOf(g)) BY <1>1, <1>3, <1>5, CommitFacts DEF g
<1> QED BY <1>5, <1>6

LEMMA UpdateNodeDataFacts ==
  ASSUME Typed, UpdateNodeData
  PROVE  Turned(NodesOf(graph), EdgesOf(graph))
BY TypedFacts, CommitFacts DEF UpdateNodeData

LEMMA DuplicateFacts ==
  ASSUME Typed, NEW S \in Selections, DuplicateSelectedNodes(S)
  PROVE  \E f \in FreshIds(S) : Turned(NodesOf(graph) \cup {f[n] : n \in S}, EdgesOf(graph))
<1>1. HistoryOK /\ graph \in Graphs BY TypedFacts
<1>2. S \in SUBSET NodesOf(graph) BY DEF Selections
<1> DEFINE part == Restricted(graph, S)
           bare == [part EXCEPT !.edges = << >>]
<1>3. PICK f \in FreshIds(S) : Commit(Pasted(graph, bare, f)) BY DEF DuplicateSelectedNodes
<1>4. part \in Graphs /\ NodesOf(part) = S /\ part.parallel \subseteq S BY <1>1, <1>2, RestrictedFacts
<1> HIDE DEF part
<1>5. << >> \in Seq(Edges) /\ ToSet(<< >>) = {} BY DEF ToSet
<1>6. part.nodes \in Seq(Nodes) /\ part.parallel \in SUBSET Nodes BY <1>4, GraphFacts
<1>7. bare \in Graphs /\ NodesOf(bare) = S /\ EdgesOf(bare) = {} BY <1>4, <1>5, <1>6, FieldFacts
<1>8. bare.parallel \subseteq S BY <1>4 DEF Graphs
<1> HIDE DEF bare
<1>9. Intact(bare) BY <1>7 DEF Intact
<1> DEFINE g == Pasted(graph, bare, f)
<1>10. /\ g \in Graphs /\ NodesOf(g) = NodesOf(graph) \cup {f[n] : n \in S}
       /\ EdgesOf(g) = EdgesOf(graph) \cup {Copy(e, f) : e \in EdgesOf(bare)}
  BY <1>1, <1>7, <1>8, <1>9, PastedFacts
<1> HIDE DEF g
<1>11. EdgesOf(g) = EdgesOf(graph) BY <1>7, <1>10
<1>12. Turned(NodesOf(g), EdgesOf(g)) BY <1>1, <1>3, <1>10, CommitFacts DEF g
<1> QED BY <1>10, <1>11, <1>12

LEMMA PasteFacts ==
  ASSUME Typed, Paste
  PROVE  \E f \in FreshIds(NodesOf(clipboard)) :
           /\ graph' = Pasted(graph, clipboard, f)
           /\ Turned(NodesOf(graph) \cup {f[n] : n \in NodesOf(clipboard)},
                     EdgesOf(graph) \cup {Copy(e, f) : e \in EdgesOf(clipboard)})
<1>1. HistoryOK /\ graph \in Graphs /\ clipboard \in Graphs /\ ClipboardOK BY TypedFacts
<1>2. PICK f \in FreshIds(NodesOf(clipboard)) : Commit(Pasted(graph, clipboard, f)) BY DEF Paste
<1> DEFINE g == Pasted(graph, clipboard, f)
<1>3. /\ g \in Graphs /\ NodesOf(g) = NodesOf(graph) \cup {f[n] : n \in NodesOf(clipboard)}
      /\ EdgesOf(g) = EdgesOf(graph) \cup {Copy(e, f) : e \in EdgesOf(clipboard)}
  BY <1>1, PastedFacts DEF ClipboardOK
<1> HIDE DEF g
<1>4. graph' = g /\ Turned(NodesOf(g), EdgesOf(g)) BY <1>1, <1>2, <1>3, CommitFacts DEF g
<1> QED BY <1>3, <1>4 DEF g

LEMMA LoadGraphFacts ==
  ASSUME Typed, NEW g \in Saved \cup {EmptyGraph}, LoadGraph(g)
  PROVE  graph' = g /\ g \in Graphs /\ Turned(NodesOf(g), EdgesOf(g))
<1>1. HistoryOK BY TypedFacts
<1>2. g \in Graphs BY CanvasAssumption, EmptyGraphFacts
<1>3. Commit(g) BY DEF LoadGraph
<1> QED BY <1>1, <1>2, <1>3, CommitFacts

LEMMA ConfirmDeleteFacts ==
  ASSUME Typed, ConfirmDelete
  PROVE  /\ HistoryOK'
         /\ dialog.asks = "delete"
         /\ NodesOf(graph') = NodesOf(graph) \ dialog.nodes /\ EdgesOf(graph') = EdgesOf(graph) \ dialog.edges
         /\ \E unwired \in Graphs : /\ Held' \subseteq Held \cup {graph', unwired}
                                    /\ NodesOf(unwired) = NodesOf(graph)
                                    /\ EdgesOf(unwired) = EdgesOf(graph) \ dialog.edges
<1>1. HistoryOK /\ graph \in Graphs BY TypedFacts
<1> DEFINE unwired == WithoutEdges(graph, dialog.edges)
           g == WithoutNodes(unwired, dialog.nodes)
           before == IF dialog.edges = {} THEN <<graph>> ELSE <<graph, unwired>>
<1>2. dialog.asks = "delete" /\ graph' = g /\ Remember(before) BY DEF ConfirmDelete
<1>3. unwired \in Graphs /\ NodesOf(unwired) = NodesOf(graph) /\ EdgesOf(unwired) = EdgesOf(graph) \ dialog.edges
  BY <1>1, WithoutFacts
<1> HIDE DEF unwired
<1>4. g \in Graphs /\ NodesOf(g) = NodesOf(graph) \ dialog.nodes /\ EdgesOf(g) = EdgesOf(graph) \ dialog.edges
  BY <1>3, WithoutFacts
<1> HIDE DEF g
<1>5. before \in Seq(Graphs) /\ ToSet(before) \subseteq {graph, unwired}
  <2>1. before \in Seq(Graphs) /\ \A i \in 1 .. Len(before) : before[i] \in {graph, unwired} BY <1>1, <1>3
  <2> HIDE DEF before
  <2> QED BY <2>1, ToSetFacts
<1> HIDE DEF before
<1>6. /\ past' \in Seq(Graphs) /\ future' \in Seq(Graphs)
      /\ ToSet(past') \subseteq ToSet(past) \cup {graph, unwired} /\ ToSet(future') = {}
  BY <1>1, <1>2, <1>5, RememberFacts
<1>7. HistoryOK' /\ Held' \subseteq Held \cup {graph', unwired} BY <1>2, <1>4, <1>6 DEF HistoryOK, Held
<1> QED BY <1>2, <1>3, <1>4, <1>7

\* What a chain dialog goes on with.
LEMMA ChainDialog ==
  ASSUME dialog \in Dialogs, dialog.asks = "chain"
  PROVE  dialog.consumer \in Nodes /\ dialog.inputs \in Seq(Nodes)
BY DEF Dialogs, Closed

LEMMA ConfirmChainFacts ==
  ASSUME Typed, ConfirmChain
  PROVE  LET named == ToSet(Append(dialog.inputs, dialog.consumer)) IN
         /\ dialog.asks = "chain" /\ dialog.consumer \in Nodes /\ dialog.inputs \in Seq(Nodes)
         /\ \/ /\ named \subseteq NodesOf(graph) /\ graph' = ChainSiblings(graph, dialog.consumer, dialog.inputs)
               /\ Turned(NodesOf(graph), EdgesOf(graph'))
               /\ looped' = (looped \/ \E i \in 1 .. Len(dialog.inputs), a \in named :
                                         a # dialog.inputs[i] /\ Leads(graph, a, dialog.inputs[i]))
            \/ UNCHANGED <<graph, past, future, looped>>
<1>1. HistoryOK /\ graph \in Graphs /\ dialog \in Dialogs BY TypedFacts
<1>2. dialog.asks = "chain" BY DEF ConfirmChain
<1>3. dialog.consumer \in Nodes /\ dialog.inputs \in Seq(Nodes) BY <1>1, <1>2, ChainDialog
<1> DEFINE named == ToSet(Append(dialog.inputs, dialog.consumer))
           g == ChainSiblings(graph, dialog.consumer, dialog.inputs)
<1>4. CASE named \subseteq NodesOf(graph)
  <2>1. /\ Commit(g)
        /\ looped' = (looped \/ \E i \in 1 .. Len(dialog.inputs), a \in named :
                                  a # dialog.inputs[i] /\ Leads(graph, a, dialog.inputs[i]))
    BY <1>4 DEF ConfirmChain
  <2>2. g \in Graphs /\ NodesOf(g) = NodesOf(graph) BY <1>1, <1>3, ChainFacts
  <2> HIDE DEF g
  <2>3. graph' = g /\ Turned(NodesOf(g), EdgesOf(g)) BY <1>1, <2>1, <2>2, CommitFacts
  <2> QED BY <1>2, <1>3, <1>4, <2>1, <2>2, <2>3 DEF g
<1>5. CASE ~(named \subseteq NodesOf(graph))
  BY <1>2, <1>3, <1>5 DEF ConfirmChain, history
<1> QED BY <1>4, <1>5

-----------------------------------------------------------------------------
(* The type invariant.                                                     *)

LEMMA TypedInit == CanvasInit => Typed
<1> SUFFICES ASSUME CanvasInit PROVE Typed OBVIOUS
<1>1. /\ graph = EmptyGraph /\ past = << >> /\ future = << >>
      /\ clipboard = EmptyGraph /\ dialog = Closed /\ request = NoGraph /\ result = NoGraph
      /\ edits = 0 /\ raced = FALSE /\ looped = FALSE
  BY DEF CanvasInit
<1>2. << >> \in Seq(Graphs) /\ 0 \in 0 .. MaxEdits BY CanvasAssumption
<1>3. CanvasTypeOK BY <1>1, <1>2, EmptyGraphFacts DEF CanvasTypeOK, Dialogs
<1>4. EmptyGraph.parallel = {} /\ Intact(EmptyGraph) BY EmptyGraphFacts DEF EmptyGraph, Intact
<1> QED BY <1>1, <1>3, <1>4 DEF Typed, ClipboardOK

LEMMA TypedStep ==
  ASSUME Typed, [CanvasNext]_canvasVars
  PROVE  Typed'
<1>0. /\ HistoryOK /\ ClipboardOK /\ graph \in Graphs /\ clipboard \in Graphs /\ dialog \in Dialogs
      /\ edits \in 0 .. MaxEdits /\ raced \in BOOLEAN /\ looped \in BOOLEAN
      /\ request \in Graphs \cup {NoGraph} /\ result \in Graphs \cup {NoGraph}
  BY TypedFacts DEF Typed, CanvasTypeOK
<1>1. Edit => edits' \in 0 .. MaxEdits BY <1>0, CanvasAssumption DEF Edit
<1> DEFINE Rest == /\ edits \in 0 .. MaxEdits /\ raced \in BOOLEAN /\ looped \in BOOLEAN
                   /\ request \in Graphs \cup {NoGraph} /\ result \in Graphs \cup {NoGraph}
<1>2. ASSUME HistoryOK', clipboard' \in Graphs, ClipboardOK', dialog' \in Dialogs, Rest'
      PROVE  Typed'
  BY <1>2 DEF Typed, CanvasTypeOK, HistoryOK
<1>3. ASSUME UNCHANGED <<graph, past, future>> PROVE HistoryOK' BY <1>0, <1>3 DEF HistoryOK
<1>4. ASSUME UNCHANGED clipboard PROVE clipboard' \in Graphs /\ ClipboardOK' BY <1>0, <1>4 DEF ClipboardOK
<1>5. Closed \in Dialogs BY DEF Dialogs
<1>6. ASSUME HistoryOK', UNCHANGED <<clipboard, dialog, request, result, raced>>,
             edits' \in 0 .. MaxEdits, looped' \in BOOLEAN
      PROVE  Typed'
  BY <1>0, <1>2, <1>4, <1>6
<1>7. ASSUME NEW n \in Nodes, AddNode(n) PROVE Typed'
  <2>1. HistoryOK' BY <1>7, AddNodeFacts DEF Turned
  <2> QED BY <1>0, <1>1, <1>6, <1>7, <2>1 DEF AddNode, Acts, runs
<1>8. ASSUME NEW n \in Nodes, SetExecutionMode(n) PROVE Typed'
  <2>1. HistoryOK' BY <1>8, SetExecutionModeFacts DEF Turned
  <2> QED BY <1>0, <1>1, <1>6, <1>8, <2>1 DEF SetExecutionMode, Acts, runs
<1>9. ASSUME NEW e \in Edges, OnConnect(e) PROVE Typed'
  <2>1. HistoryOK' BY <1>9, OnConnectFacts DEF Turned
  <2> QED BY <1>0, <1>1, <1>6, <1>9, <2>1 DEF OnConnect, Acts, runs
<1>10. ASSUME NEW e \in Edges, RemoveEdge(e) PROVE Typed'
  <2>1. HistoryOK' BY <1>10, RemoveEdgeFacts DEF Turned
  <2> QED BY <1>0, <1>1, <1>6, <1>10, <2>1 DEF RemoveEdge, Acts, runs
<1>11. ASSUME NEW S \in Selections, DuplicateSelectedNodes(S) PROVE Typed'
  <2>1. HistoryOK' BY <1>11, DuplicateFacts DEF Turned
  <2> QED BY <1>0, <1>1, <1>6, <1>11, <2>1 DEF DuplicateSelectedNodes, runs
<1>12. ASSUME NEW g \in Saved \cup {EmptyGraph}, LoadGraph(g) PROVE Typed'
  <2>1. HistoryOK' BY <1>12, LoadGraphFacts DEF Turned
  <2> QED BY <1>0, <1>1, <1>6, <1>12, <2>1 DEF LoadGraph, Acts, runs
<1>13. CASE UpdateNodeData
  <2>1. HistoryOK' BY <1>13, UpdateNodeDataFacts DEF Turned
  <2> QED BY <1>0, <1>1, <1>6, <1>13, <2>1 DEF UpdateNodeData, Acts, runs
<1>14. CASE Paste
  <2>1. HistoryOK' BY <1>14, PasteFacts DEF Turned
  <2> QED BY <1>0, <1>1, <1>6, <1>14, <2>1 DEF Paste, runs
<1>15. ASSUME NEW S \in Selections, CopySelected(S) PROVE Typed'
  <2>1. /\ clipboard' = Restricted(graph, S) /\ Edit
        /\ UNCHANGED <<graph, past, future, dialog, request, result, raced, looped>>
    BY <1>15 DEF CopySelected, history, runs
  <2>2. S \in SUBSET NodesOf(graph) BY DEF Selections
  <2>3. /\ clipboard' \in Graphs /\ NodesOf(clipboard') = S /\ clipboard'.parallel \subseteq S
        /\ EdgesOf(clipboard') = {e \in EdgesOf(graph) : {e.source, e.target} \subseteq S}
    BY <1>0, <2>1, <2>2, RestrictedFacts
  <2>4. ClipboardOK' BY <2>3 DEF ClipboardOK, Intact
  <2> QED BY <1>0, <1>1, <1>2, <1>3, <2>1, <2>3, <2>4
<1>16. ASSUME NEW S \in Selections, AskDelete(S) PROVE Typed'
  <2>1. /\ dialog' = [asks |-> "delete", nodes |-> S,
                      edges |-> {e \in EdgesOf(graph) : e.source \in S \/ e.target \in S}]
        /\ UNCHANGED <<graph, past, future, clipboard, request, result, raced, looped>> /\ Edit
    BY <1>16 DEF AskDelete, Acts, history, runs
  <2>2. NodesOf(graph) \subseteq Nodes /\ EdgesOf(graph) \subseteq Edges BY <1>0, GraphFacts
  <2>3. dialog' \in Dialogs BY <2>1, <2>2 DEF Dialogs, Selections
  <2> QED BY <1>0, <1>1, <1>2, <1>3, <1>4, <2>1, <2>3
<1>17. ASSUME NEW n \in Nodes, AskChain(n) PROVE Typed'
  <2> DEFINE inputs == Inputs(Active(result), n)
  <2>1. /\ dialog' = [asks |-> "chain", consumer |-> n, inputs |-> inputs]
        /\ UNCHANGED <<graph, past, future, clipboard, request, result, raced, looped>> /\ Edit
        /\ result # NoGraph /\ Kind[n] \notin ModelKinds
    BY <1>17 DEF AskChain, Acts, history, runs
  <2>2. inputs \in Seq(Nodes)
    <3>1. Active(result) \in Graphs BY <1>0, <2>1, ActiveFacts
    <3>2. Into(Active(result), n) \in Seq(Nodes) BY <3>1, IntoFacts
    <3>3. inputs = Distinct(Into(Active(result), n)) BY <2>1 DEF Inputs, ModelKinds
    <3> QED BY <3>2, <3>3, DistinctFacts
  <2> HIDE DEF inputs
  <2>3. dialog' \in Dialogs BY <2>1, <2>2 DEF Dialogs
  <2> QED BY <1>0, <1>1, <1>2, <1>3, <1>4, <2>1, <2>3
<1>18. CASE ConfirmDelete
  <2>1. HistoryOK' BY <1>18, ConfirmDeleteFacts
  <2>2. dialog' = Closed /\ UNCHANGED <<clipboard, request, result, edits, raced, looped>>
    BY <1>18 DEF ConfirmDelete, runs
  <2> QED BY <1>0, <1>2, <1>4, <1>5, <2>1, <2>2
<1>19. CASE ConfirmChain
  <2>1. HistoryOK' /\ looped' \in BOOLEAN BY <1>0, <1>3, <1>19, ConfirmChainFacts DEF Turned
  <2>2. dialog' = Closed /\ UNCHANGED <<clipboard, request, result, edits, raced>>
    BY <1>19 DEF ConfirmChain, runs
  <2> QED BY <1>0, <1>2, <1>4, <1>5, <2>1, <2>2
<1>20. CASE Decline
  <2>1. dialog' = Closed /\ UNCHANGED <<graph, past, future, clipboard, request, result, edits, raced, looped>>
    BY <1>20 DEF Decline, history, runs
  <2> QED BY <1>0, <1>2, <1>3, <1>4, <1>5, <2>1
<1>21. CASE Undo \/ Redo
  <2>1. HistoryOK' BY <1>0, <1>21, UndoFacts
  <2>2. UNCHANGED <<clipboard, dialog, request, result, edits, looped>> /\ raced' \in BOOLEAN
    BY <1>0, <1>21 DEF Undo, Redo, runs
  <2> QED BY <1>0, <1>2, <1>4, <2>1, <2>2
<1>22. CASE HandleRun \/ DropResult \/ RunAnswered
  <2>1. /\ UNCHANGED <<graph, past, future, clipboard, dialog, edits, raced, looped>>
        /\ request' \in Graphs \cup {NoGraph} /\ result' \in Graphs \cup {NoGraph}
    BY <1>0, <1>22 DEF HandleRun, DropResult, RunAnswered, history, runs
  <2> QED BY <1>0, <1>2, <1>3, <1>4, <2>1
<1>23. CASE UNCHANGED canvasVars
  <2>1. UNCHANGED <<graph, past, future, clipboard, dialog, request, result, edits, raced, looped>>
    BY <1>23 DEF canvasVars, history, runs
  <2> QED BY <1>0, <1>2, <1>3, <1>4, <2>1
<1> QED
  BY <1>7, <1>8, <1>9, <1>10, <1>11, <1>12, <1>13, <1>14, <1>15, <1>16, <1>17, <1>18, <1>19, <1>20, <1>21,
     <1>22, <1>23
  DEF CanvasNext

-----------------------------------------------------------------------------
(* No edge loses an end.                                                   *)

\* The inductive invariant: until the graph is undone under a delete dialog, no
\* graph that is kept has lost a node of an edge, and a delete dialog holds every
\* edge of the nodes it is about to take.
Wired ==
  ~raced => /\ \A g \in Held : Intact(g)
            /\ dialog.asks = "delete" =>
                 \A e \in EdgesOf(graph) : e.source \in dialog.nodes \/ e.target \in dialog.nodes => e \in dialog.edges

LEMMA WiredInit == CanvasInit => Wired
<1>1. Intact(EmptyGraph) BY EmptyGraphFacts DEF Intact
<1>2. CanvasInit => Held = {EmptyGraph} BY DEF CanvasInit, Held, ToSet
<1> QED BY <1>1, <1>2 DEF CanvasInit, Wired, Closed

\* An operation that leaves no dialog open.
LEMMA WiredTurn ==
  ASSUME Wired, NEW N, NEW E, Turned(N, E), raced' = raced, dialog'.asks # "delete",
         ~raced => \A e \in E : e.source \in N /\ e.target \in N
  PROVE  Wired'
<1>1. ~raced => Intact(graph') BY DEF Turned, Intact
<1> QED BY <1>1 DEF Wired, Turned

\* One that adds to the graph, with a dialog open or not.
LEMMA WiredGrowth ==
  ASSUME Wired, NEW N, NEW E, Turned(NodesOf(graph) \cup N, EdgesOf(graph) \cup E),
         raced' = raced, dialog' = dialog,
         \A e \in E : e.source \in N /\ e.target \in N,
         dialog.asks = "delete" => N \cap dialog.nodes = {}
  PROVE  Wired'
<1> SUFFICES ASSUME ~raced PROVE Wired' BY DEF Wired
<1>1. NodesOf(graph') = NodesOf(graph) \cup N /\ EdgesOf(graph') = EdgesOf(graph) \cup E BY DEF Turned
<1>2. Intact(graph) BY DEF Wired, Held
<1>3. Intact(graph') BY <1>1, <1>2 DEF Intact
<1>4. \A g \in Held' : Intact(g) BY <1>3 DEF Turned, Wired
<1>5. ASSUME dialog.asks = "delete"
      PROVE  \A e \in EdgesOf(graph') : e.source \in dialog.nodes \/ e.target \in dialog.nodes => e \in dialog.edges
  BY <1>1, <1>5 DEF Wired
<1> QED BY <1>4, <1>5 DEF Wired

LEMMA WiredStep ==
  ASSUME Typed, Wired, [CanvasNext]_canvasVars
  PROVE  Wired'
<1>0. HistoryOK /\ ClipboardOK /\ graph \in Graphs /\ clipboard \in Graphs BY TypedFacts
<1>1. ~raced => \A e \in EdgesOf(graph) : e.source \in NodesOf(graph) /\ e.target \in NodesOf(graph)
  BY DEF Wired, Held, Intact
<1>2. Acts => dialog.asks # "delete" BY DEF Acts, Closed
<1>3. \A S \in SUBSET Nodes : \A f \in FreshIds(S) :
        dialog.asks = "delete" => {f[n] : n \in S} \cap dialog.nodes = {}
  <2> SUFFICES ASSUME NEW S \in SUBSET Nodes, NEW f \in FreshIds(S), dialog.asks = "delete", NEW n \in S
               PROVE  f[n] \notin dialog.nodes
    OBVIOUS
  <2>1. f[n] \in Fresh BY FreshFacts
  <2> QED BY <2>1 DEF Fresh
<1>4. ASSUME NEW n \in Nodes, AddNode(n) PROVE Wired'
  <2>1. Turned(NodesOf(graph) \cup {n}, EdgesOf(graph)) BY <1>4, AddNodeFacts
  <2>2. raced' = raced /\ dialog' = dialog /\ dialog.asks # "delete" BY <1>2, <1>4 DEF AddNode
  <2> QED BY <1>1, <2>1, <2>2, WiredTurn
<1>5. ASSUME NEW n \in Nodes, SetExecutionMode(n) PROVE Wired'
  <2>1. Turned(NodesOf(graph), EdgesOf(graph)) BY <1>5, SetExecutionModeFacts
  <2>2. raced' = raced /\ dialog' = dialog /\ dialog.asks # "delete" BY <1>2, <1>5 DEF SetExecutionMode
  <2> QED BY <1>1, <2>1, <2>2, WiredTurn
<1>6. ASSUME NEW e \in Edges, OnConnect(e) PROVE Wired'
  <2>1. Turned(NodesOf(graph), EdgesOf(graph) \cup {e}) BY <1>6, OnConnectFacts
  <2>2. raced' = raced /\ dialog' = dialog /\ dialog.asks # "delete" BY <1>2, <1>6 DEF OnConnect
  <2>3. e.source \in NodesOf(graph) /\ e.target \in NodesOf(graph) BY <1>6 DEF OnConnect, Connectable
  <2> QED BY <1>1, <2>1, <2>2, <2>3, WiredTurn
<1>7. ASSUME NEW e \in Edges, RemoveEdge(e) PROVE Wired'
  <2>1. Turned(NodesOf(graph), EdgesOf(graph) \ {e}) BY <1>7, RemoveEdgeFacts
  <2>2. raced' = raced /\ dialog' = dialog /\ dialog.asks # "delete" BY <1>2, <1>7 DEF RemoveEdge
  <2> QED BY <1>1, <2>1, <2>2, WiredTurn
<1>8. CASE UpdateNodeData
  <2>1. Turned(NodesOf(graph), EdgesOf(graph)) BY <1>8, UpdateNodeDataFacts
  <2>2. raced' = raced /\ dialog' = dialog /\ dialog.asks # "delete" BY <1>2, <1>8 DEF UpdateNodeData
  <2> QED BY <1>1, <2>1, <2>2, WiredTurn
<1>9. ASSUME NEW g \in Saved \cup {EmptyGraph}, LoadGraph(g) PROVE Wired'
  <2>1. Turned(NodesOf(g), EdgesOf(g)) BY <1>9, LoadGraphFacts
  <2>2. raced' = raced /\ dialog' = dialog /\ dialog.asks # "delete" BY <1>2, <1>9 DEF LoadGraph
  <2>3. Intact(g) BY CanvasAssumption, EmptyGraphFacts DEF Intact
  <2>4. \A e \in EdgesOf(g) : e.source \in NodesOf(g) /\ e.target \in NodesOf(g) BY <2>3 DEF Intact
  <2> QED BY <2>1, <2>2, <2>4, WiredTurn
<1>10. ASSUME NEW S \in Selections, DuplicateSelectedNodes(S) PROVE Wired'
  <2>1. PICK f \in FreshIds(S) : Turned(NodesOf(graph) \cup {f[n] : n \in S}, EdgesOf(graph))
    BY <1>10, DuplicateFacts
  <2>2. raced' = raced /\ dialog' = dialog BY <1>10 DEF DuplicateSelectedNodes
  <2>3. S \in SUBSET Nodes BY <1>0, GraphFacts DEF Selections
  <2> DEFINE N == {f[n] : n \in S}
  <2>4. dialog.asks = "delete" => N \cap dialog.nodes = {} BY <1>3, <2>3
  <2>5. Turned(NodesOf(graph) \cup N, EdgesOf(graph) \cup {})
    <3>1. EdgesOf(graph) \cup {} = EdgesOf(graph) OBVIOUS
    <3> QED BY <2>1, <3>1
  <2> HIDE DEF N
  <2> QED BY <2>2, <2>4, <2>5, WiredGrowth
<1>11. CASE Paste
  <2> DEFINE S == NodesOf(clipboard)
  <2>1. PICK f \in FreshIds(S) :
          Turned(NodesOf(graph) \cup {f[n] : n \in S}, EdgesOf(graph) \cup {Copy(e, f) : e \in EdgesOf(clipboard)})
    BY <1>11, PasteFacts
  <2>2. raced' = raced /\ dialog' = dialog BY <1>11 DEF Paste
  <2>3. S \in SUBSET Nodes BY <1>0, GraphFacts
  <2>4. f \in [S -> Nodes] /\ \A n \in S : Kind[f[n]] = Kind[n] BY <2>3, FreshFacts
  <2>5. \A e \in EdgesOf(clipboard) : e \in Edges /\ e.source \in S /\ e.target \in S
    BY <1>0, GraphFacts DEF ClipboardOK, Intact
  <2> DEFINE N == {f[n] : n \in S}
             E == {Copy(e, f) : e \in EdgesOf(clipboard)}
  <2>6. dialog.asks = "delete" => N \cap dialog.nodes = {} BY <1>3, <2>3
  <2> HIDE DEF S
  <2>7. \A e \in EdgesOf(clipboard) : Copy(e, f).source = f[e.source] /\ Copy(e, f).target = f[e.target]
    BY <2>3, <2>4, <2>5, CopyFacts
  <2>8. \A e \in E : e.source \in N /\ e.target \in N BY <2>5, <2>7
  <2>9. Turned(NodesOf(graph) \cup N, EdgesOf(graph) \cup E) BY <2>1
  <2> HIDE DEF N, E
  <2> QED BY <2>2, <2>6, <2>8, <2>9, WiredGrowth
<1>12. ASSUME NEW S \in Selections, AskDelete(S) PROVE Wired'
  <2>1. /\ dialog' = [asks |-> "delete", nodes |-> S,
                      edges |-> {e \in EdgesOf(graph) : e.source \in S \/ e.target \in S}]
        /\ UNCHANGED <<graph, past, future, raced>>
    BY <1>12 DEF AskDelete, history
  <2> QED BY <2>1 DEF Wired, Held
<1>13. CASE ConfirmDelete
  <2>1. /\ dialog.asks = "delete"
        /\ NodesOf(graph') = NodesOf(graph) \ dialog.nodes /\ EdgesOf(graph') = EdgesOf(graph) \ dialog.edges
    BY <1>13, ConfirmDeleteFacts
  <2>2. PICK unwired \in Graphs : /\ Held' \subseteq Held \cup {graph', unwired}
                                  /\ NodesOf(unwired) = NodesOf(graph)
                                  /\ EdgesOf(unwired) = EdgesOf(graph) \ dialog.edges
    BY <1>13, ConfirmDeleteFacts
  <2>3. raced' = raced /\ dialog' = Closed BY <1>13 DEF ConfirmDelete
  <2>4. ~raced => Intact(unwired) BY <1>1, <2>2 DEF Intact
  <2>5. ~raced => Intact(graph') BY <1>1, <2>1 DEF Intact, Wired
  <2> QED BY <2>2, <2>3, <2>4, <2>5 DEF Wired, Closed
<1>14. CASE ConfirmChain
  <2> DEFINE named == ToSet(Append(dialog.inputs, dialog.consumer))
  <2>1. raced' = raced /\ dialog' = Closed BY <1>14 DEF ConfirmChain
  <2>2. dialog.consumer \in Nodes /\ dialog.inputs \in Seq(Nodes)
        /\ \/ /\ named \subseteq NodesOf(graph) /\ graph' = ChainSiblings(graph, dialog.consumer, dialog.inputs)
              /\ Turned(NodesOf(graph), EdgesOf(graph'))
           \/ UNCHANGED <<graph, past, future>>
    BY <1>14, ConfirmChainFacts
  <2>3. CASE UNCHANGED <<graph, past, future>> BY <2>1, <2>3 DEF Wired, Held, Closed
  <2>4. CASE /\ named \subseteq NodesOf(graph) /\ graph' = ChainSiblings(graph, dialog.consumer, dialog.inputs)
             /\ Turned(NodesOf(graph), EdgesOf(graph'))
    <3>1. \A e \in EdgesOf(graph') : e \in EdgesOf(graph) \/ {e.source, e.target} \subseteq named
      BY <1>0, <2>2, <2>4, ChainFacts
    <3> HIDE DEF named
    <3>2. ~raced => \A e \in EdgesOf(graph') : e.source \in NodesOf(graph) /\ e.target \in NodesOf(graph)
      BY <1>1, <2>4, <3>1
    <3>3. dialog'.asks # "delete" BY <2>1 DEF Closed
    <3> QED BY <2>1, <2>4, <3>2, <3>3, WiredTurn
  <2> QED BY <2>2, <2>3, <2>4
<1>15. CASE Undo \/ Redo
  <2>1. Held' \subseteq Held /\ HistoryOK' BY <1>0, <1>15, UndoFacts
  <2>2. dialog' = dialog /\ raced' = (raced \/ dialog.asks = "delete") BY <1>15 DEF Undo, Redo
  <2> QED BY <2>1, <2>2 DEF Wired
<1>16. ASSUME UNCHANGED <<graph, past, future, raced>>, dialog' = dialog \/ dialog'.asks # "delete"
       PROVE  Wired'
  BY <1>16 DEF Wired, Held
<1>17. ASSUME NEW S \in Selections, CopySelected(S) PROVE Wired'
  BY <1>16, <1>17 DEF CopySelected, history
<1>18. ASSUME NEW n \in Nodes, AskChain(n) PROVE Wired'
  <2>1. UNCHANGED <<graph, past, future, raced>> /\ dialog'.asks = "chain" BY <1>18 DEF AskChain, history
  <2> QED BY <1>16, <2>1
<1>19. CASE Decline BY <1>16, <1>19 DEF Decline, history, Closed
<1>20. CASE HandleRun \/ DropResult \/ RunAnswered
  BY <1>16, <1>20 DEF HandleRun, DropResult, RunAnswered, history
<1>21. CASE UNCHANGED canvasVars BY <1>16, <1>21 DEF canvasVars, history
<1> QED
  BY <1>4, <1>5, <1>6, <1>7, <1>8, <1>9, <1>10, <1>11, <1>12, <1>13, <1>14, <1>15, <1>17, <1>18, <1>19,
     <1>20, <1>21
  DEF CanvasNext

\* No sequence of edits, deletes, undos and pastes leaves an edge without its
\* nodes, on the canvas or on anything that may come back to it, unless the graph
\* is undone while a delete waits to be confirmed.
THEOREM NoEdgeLosesAnEnd == CanvasSpec => []EdgesHaveNodes
<1>1. CanvasInit => Typed /\ Wired BY TypedInit, WiredInit
<1>2. Typed /\ Wired /\ [CanvasNext]_canvasVars => Typed' /\ Wired' BY TypedStep, WiredStep
<1>3. Typed /\ Wired => EdgesHaveNodes BY TypedFacts DEF Wired, EdgesHaveNodes, Held, ClipboardOK
<1> QED BY <1>1, <1>2, <1>3, PTL DEF CanvasSpec

-----------------------------------------------------------------------------
(* No loop is closed.                                                      *)

\* Every graph that may come to be on the canvas, or be named by an advisory.
Around == Held \cup {clipboard} \cup ({request, result} \ {NoGraph})

\* The inductive invariant: until nodes are chained that are no siblings, none of
\* these graphs has a loop, and what a chain dialog lists are different nodes, none
\* of them the one they are chained into.
Loopless ==
  ~looped => /\ \A g \in Around : Acyclic(g)
             /\ dialog.asks = "chain" =>
                  /\ \A i, k \in 1 .. Len(dialog.inputs) : dialog.inputs[i] = dialog.inputs[k] => i = k
                  /\ dialog.consumer \notin ToSet(dialog.inputs)

LEMMA EmptyAcyclic == Acyclic(EmptyGraph)
<1>1. EmptyGraph \in Graphs /\ EdgesOf(EmptyGraph) = {} BY EmptyGraphFacts
<1>2. Follows(EmptyGraph, {}) /\ \A n \in Nodes : n \notin {} BY DEF Follows
<1> QED BY <1>1, <1>2, AcyclicBySets

LEMMA LooplessInit == CanvasInit => Loopless
<1>1. CanvasInit => Around = {EmptyGraph} BY DEF CanvasInit, Around, Held, ToSet
<1> QED BY <1>1, EmptyAcyclic DEF CanvasInit, Loopless, Closed

\* An operation that changes no more than the graph.
LEMMA LooplessTurn ==
  ASSUME Loopless, NEW N, NEW E, Turned(N, E),
         UNCHANGED <<clipboard, request, result, looped>>, dialog' = dialog \/ dialog' = Closed,
         ~looped => Acyclic(graph')
  PROVE  Loopless'
<1> SUFFICES ASSUME ~looped PROVE Loopless' BY DEF Loopless
<1>1. Around' \subseteq Around \cup {graph'} BY DEF Turned, Around
<1>2. \A g \in Around' : Acyclic(g) BY <1>1 DEF Loopless
<1> QED BY <1>2 DEF Loopless, Closed

\* One that takes edges away, or none.
LEMMA LooplessLess ==
  ASSUME Typed, Loopless, NEW N, NEW E, Turned(N, E), E \subseteq EdgesOf(graph),
         UNCHANGED <<clipboard, request, result, looped>>, dialog' = dialog \/ dialog' = Closed
  PROVE  Loopless'
<1>1. graph \in Graphs /\ graph' \in Graphs /\ EdgesOf(graph') \subseteq EdgesOf(graph)
  BY TypedFacts DEF Turned, HistoryOK
<1>2. ~looped => Acyclic(graph) BY DEF Loopless, Around, Held
<1>3. ~looped => Acyclic(graph') BY <1>1, <1>2, FewerEdges
<1> QED BY <1>3, LooplessTurn

LEMMA LooplessStep ==
  ASSUME Typed, Loopless, [CanvasNext]_canvasVars
  PROVE  Loopless'
<1>0. /\ HistoryOK /\ ClipboardOK /\ graph \in Graphs /\ clipboard \in Graphs
      /\ request \in Graphs \cup {NoGraph} /\ result \in Graphs \cup {NoGraph}
  BY TypedFacts
<1>1. ~looped => Acyclic(graph) /\ Acyclic(clipboard) /\ (result # NoGraph => Acyclic(result))
  BY DEF Loopless, Around, Held
<1>2. ASSUME NEW n \in Nodes, AddNode(n) PROVE Loopless'
  <2>1. Turned(NodesOf(graph) \cup {n}, EdgesOf(graph)) BY <1>2, AddNodeFacts
  <2>2. UNCHANGED <<clipboard, request, result, looped, dialog>> BY <1>2 DEF AddNode, runs
  <2> QED BY <2>1, <2>2, LooplessLess
<1>3. ASSUME NEW n \in Nodes, SetExecutionMode(n) PROVE Loopless'
  <2>1. Turned(NodesOf(graph), EdgesOf(graph)) BY <1>3, SetExecutionModeFacts
  <2>2. UNCHANGED <<clipboard, request, result, looped, dialog>> BY <1>3 DEF SetExecutionMode, runs
  <2> QED BY <2>1, <2>2, LooplessLess
<1>4. CASE UpdateNodeData
  <2>1. Turned(NodesOf(graph), EdgesOf(graph)) BY <1>4, UpdateNodeDataFacts
  <2>2. UNCHANGED <<clipboard, request, result, looped, dialog>> BY <1>4 DEF UpdateNodeData, runs
  <2> QED BY <2>1, <2>2, LooplessLess
<1>5. ASSUME NEW e \in Edges, RemoveEdge(e) PROVE Loopless'
  <2>1. Turned(NodesOf(graph), EdgesOf(graph) \ {e}) BY <1>5, RemoveEdgeFacts
  <2>2. UNCHANGED <<clipboard, request, result, looped, dialog>> BY <1>5 DEF RemoveEdge, runs
  <2> QED BY <2>1, <2>2, LooplessLess
<1>6. ASSUME NEW S \in Selections, DuplicateSelectedNodes(S) PROVE Loopless'
  <2>1. PICK f \in FreshIds(S) : Turned(NodesOf(graph) \cup {f[n] : n \in S}, EdgesOf(graph))
    BY <1>6, DuplicateFacts
  <2>2. UNCHANGED <<clipboard, request, result, looped, dialog>> BY <1>6 DEF DuplicateSelectedNodes, runs
  <2> DEFINE N == NodesOf(graph) \cup {f[n] : n \in S}
  <2>3. Turned(N, EdgesOf(graph)) BY <2>1
  <2> HIDE DEF N
  <2> QED BY <2>2, <2>3, LooplessLess
<1>7. ASSUME NEW e \in Edges, OnConnect(e) PROVE Loopless'
  <2>1. Turned(NodesOf(graph), EdgesOf(graph) \cup {e}) BY <1>7, OnConnectFacts
  <2>2. UNCHANGED <<clipboard, request, result, looped, dialog>> BY <1>7 DEF OnConnect, runs
  <2>3. e.source \notin Downstream(graph, {e.target}) BY <1>7 DEF OnConnect, Connectable, WouldCreateCycle
  <2>4. graph' \in Graphs /\ EdgesOf(graph') = EdgesOf(graph) \cup {e} BY <2>1 DEF Turned, HistoryOK
  <2>5. e.source \in Nodes /\ e.target \in Nodes BY DEF Edges
  <2>6. ~looped => Acyclic(graph') BY <1>0, <1>1, <2>3, <2>4, <2>5, EdgeAdded
  <2> QED BY <2>1, <2>2, <2>6, LooplessTurn
<1>8. CASE Paste
  <2> DEFINE S == NodesOf(clipboard)
  <2>1. PICK f \in FreshIds(S) :
          /\ graph' = Pasted(graph, clipboard, f)
          /\ Turned(NodesOf(graph) \cup {f[n] : n \in S},
                    EdgesOf(graph) \cup {Copy(e, f) : e \in EdgesOf(clipboard)})
    BY <1>8, PasteFacts
  <2>2. UNCHANGED <<clipboard, request, result, looped, dialog>> BY <1>8 DEF Paste, runs
  <2>3. Named(graph) \subseteq Used BY DEF Used
  <2>4. ~looped => Acyclic(graph')
    BY <1>0, <1>1, <2>1, <2>3, PastedAcyclic DEF ClipboardOK
  <2> DEFINE N == NodesOf(graph) \cup {f[n] : n \in S}
             E == EdgesOf(graph) \cup {Copy(e, f) : e \in EdgesOf(clipboard)}
  <2>5. Turned(N, E) BY <2>1
  <2> HIDE DEF N, E
  <2> QED BY <2>2, <2>4, <2>5, LooplessTurn
<1>9. ASSUME NEW g \in Saved \cup {EmptyGraph}, LoadGraph(g) PROVE Loopless'
  <2>1. graph' = g /\ Turned(NodesOf(g), EdgesOf(g)) BY <1>9, LoadGraphFacts
  <2>2. UNCHANGED <<clipboard, request, result, looped, dialog>> BY <1>9 DEF LoadGraph, runs
  <2>3. Acyclic(g) BY CanvasAssumption, EmptyAcyclic
  <2> QED BY <2>1, <2>2, <2>3, LooplessTurn
<1>10. ASSUME NEW S \in Selections, CopySelected(S) PROVE Loopless'
  <2>1. clipboard' = Restricted(graph, S) /\ UNCHANGED <<graph, past, future, dialog, request, result, looped>>
    BY <1>10 DEF CopySelected, history, runs
  <2>2. S \in SUBSET NodesOf(graph) BY DEF Selections
  <2>3. clipboard' \in Graphs /\ EdgesOf(clipboard') \subseteq EdgesOf(graph) BY <1>0, <2>1, <2>2, RestrictedFacts
  <2>4. ~looped => Acyclic(clipboard') BY <1>0, <1>1, <2>3, FewerEdges
  <2>5. Around' \subseteq Around \cup {clipboard'} BY <2>1 DEF Around, Held
  <2> QED BY <2>1, <2>4, <2>5 DEF Loopless
<1>11. ASSUME UNCHANGED <<graph, past, future, clipboard, looped>>,
              {request, result}' \subseteq {request, result, NoGraph},
              dialog' = dialog \/ dialog'.asks # "chain"
       PROVE  Loopless'
  <2>1. Around' \subseteq Around BY <1>11 DEF Around, Held
  <2> QED BY <1>11, <2>1 DEF Loopless
<1>12. ASSUME NEW S \in Selections, AskDelete(S) PROVE Loopless'
  <2>1. dialog'.asks = "delete" /\ UNCHANGED <<graph, past, future, clipboard, looped, request, result>>
    BY <1>12 DEF AskDelete, history, runs
  <2> QED BY <1>11, <2>1
<1>13. CASE ConfirmDelete
  <2>1. EdgesOf(graph') = EdgesOf(graph) \ dialog.edges /\ HistoryOK' BY <1>13, ConfirmDeleteFacts
  <2>2. PICK unwired \in Graphs : /\ Held' \subseteq Held \cup {graph', unwired}
                                  /\ EdgesOf(unwired) = EdgesOf(graph) \ dialog.edges
    BY <1>13, ConfirmDeleteFacts
  <2>3. dialog' = Closed /\ UNCHANGED <<clipboard, request, result, looped>> BY <1>13 DEF ConfirmDelete, runs
  <2>4. graph' \in Graphs BY <2>1 DEF HistoryOK
  <2>5. ~looped => Acyclic(graph') /\ Acyclic(unwired) BY <1>0, <1>1, <2>1, <2>2, <2>4, FewerEdges
  <2>6. Around' \subseteq Around \cup {graph', unwired} BY <2>2, <2>3 DEF Around
  <2> QED BY <2>3, <2>5, <2>6 DEF Loopless, Closed
<1>14. ASSUME NEW n \in Nodes, AskChain(n) PROVE Loopless'
  <2> DEFINE into == Into(Active(result), n)
             inputs == Inputs(Active(result), n)
  <2>1. /\ dialog' = [asks |-> "chain", consumer |-> n, inputs |-> inputs]
        /\ UNCHANGED <<graph, past, future, clipboard, request, result, looped>>
        /\ result # NoGraph /\ Kind[n] \notin ModelKinds
    BY <1>14 DEF AskChain, history, runs
  <2>2. Active(result) \in Graphs /\ EdgesOf(Active(result)) \subseteq EdgesOf(result) /\ result \in Graphs
    BY <1>0, <2>1, ActiveFacts
  <2>3. into \in Seq(Nodes) /\ \A m \in ToSet(into) : \E e \in EdgesOf(Active(result)) : e.source = m /\ e.target = n
    BY <2>2, IntoFacts
  <2>4. inputs = Distinct(into) BY <2>1 DEF Inputs, ModelKinds
  <2> HIDE DEF into, inputs
  <2>5. /\ \A i, k \in 1 .. Len(inputs) : inputs[i] = inputs[k] => i = k
        /\ ToSet(inputs) \subseteq ToSet(into)
    BY <2>3, <2>4, DistinctFacts
  <2>6. ~looped => n \notin ToSet(inputs)
    <3> SUFFICES ASSUME ~looped, n \in ToSet(inputs) PROVE FALSE OBVIOUS
    <3>1. PICK e \in EdgesOf(result) : e.source = n /\ e.target = n BY <2>2, <2>3, <2>5
    <3>2. Acyclic(result) BY <1>1, <2>1
    <3> QED BY <2>2, <3>1, <3>2, AcyclicFacts
  <2>7. Around' = Around BY <2>1 DEF Around, Held
  <2>8. dialog'.inputs = inputs /\ dialog'.consumer = n BY <2>1
  <2> QED BY <2>1, <2>5, <2>6, <2>7, <2>8 DEF Loopless
<1>15. CASE ConfirmChain
  <2> DEFINE inputs == dialog.inputs
             consumer == dialog.consumer
             named == ToSet(Append(inputs, consumer))
  <2>1. dialog' = Closed /\ UNCHANGED <<clipboard, request, result>> BY <1>15 DEF ConfirmChain, runs
  <2>2. /\ dialog.asks = "chain" /\ consumer \in Nodes /\ inputs \in Seq(Nodes)
        /\ \/ /\ graph' = ChainSiblings(graph, consumer, inputs)
              /\ Turned(NodesOf(graph), EdgesOf(graph'))
              /\ looped' = (looped \/ \E i \in 1 .. Len(inputs), a \in named :
                                        a # inputs[i] /\ Leads(graph, a, inputs[i]))
           \/ UNCHANGED <<graph, past, future, looped>>
    BY <1>15, ConfirmChainFacts
  <2>3. CASE UNCHANGED <<graph, past, future, looped>>
    <3>1. dialog'.asks # "chain" BY <2>1 DEF Closed
    <3> QED BY <1>11, <2>1, <2>3, <3>1
  <2>4. CASE /\ graph' = ChainSiblings(graph, consumer, inputs)
             /\ Turned(NodesOf(graph), EdgesOf(graph'))
             /\ looped' = (looped \/ \E i \in 1 .. Len(inputs), a \in named :
                                       a # inputs[i] /\ Leads(graph, a, inputs[i]))
    <3> SUFFICES ASSUME ~looped' PROVE Loopless' BY DEF Loopless
    <3>1. ~looped /\ \A i \in 1 .. Len(inputs), a \in named : a # inputs[i] => ~Leads(graph, a, inputs[i])
      BY <2>4
    <3>2. Acyclic(graph) BY <1>1, <3>1
    <3>3. /\ \A i, k \in 1 .. Len(inputs) : inputs[i] = inputs[k] => i = k
          /\ consumer \notin ToSet(inputs)
      BY <2>2, <3>1 DEF Loopless
    <3> HIDE DEF inputs, consumer
    <3>4. Acyclic(graph') BY <1>0, <2>2, <2>4, <3>1, <3>2, <3>3, ChainFacts
    <3>5. looped' = looped
      <4>1. looped \in BOOLEAN BY DEF Typed, CanvasTypeOK
      <4> HIDE DEF named
      <4>2. looped' \in BOOLEAN BY <2>4
      <4> QED BY <3>1, <4>1, <4>2
    <3> QED BY <2>1, <2>4, <3>4, <3>5, LooplessTurn
  <2> QED BY <2>2, <2>3, <2>4
<1>16. CASE Decline
  <2>1. dialog'.asks # "chain" /\ UNCHANGED <<graph, past, future, clipboard, looped, request, result>>
    BY <1>16 DEF Decline, history, runs, Closed
  <2> QED BY <1>11, <2>1
<1>17. CASE Undo \/ Redo
  <2>1. Held' \subseteq Held BY <1>0, <1>17, UndoFacts
  <2>2. UNCHANGED <<clipboard, dialog, request, result, looped>> BY <1>17 DEF Undo, Redo, runs
  <2>3. Around' \subseteq Around BY <2>1, <2>2 DEF Around
  <2> QED BY <2>2, <2>3 DEF Loopless
<1>18. CASE HandleRun
  <2>1. request' = graph /\ result' = NoGraph /\ UNCHANGED <<graph, past, future, clipboard, dialog, looped>>
    BY <1>18 DEF HandleRun, history
  <2>2. Around' \subseteq Around BY <2>1 DEF Around, Held
  <2> QED BY <2>1, <2>2 DEF Loopless
<1>19. CASE DropResult \/ RunAnswered
  <2>1. UNCHANGED <<graph, past, future, clipboard, dialog, looped>>
        /\ request' \in {request, NoGraph} /\ result' \in {request, result, NoGraph}
    BY <1>19 DEF DropResult, RunAnswered, history
  <2> QED BY <1>11, <2>1
<1>20. CASE UNCHANGED canvasVars
  <2>1. UNCHANGED <<graph, past, future, clipboard, dialog, looped, request, result>>
    BY <1>20 DEF canvasVars, history, runs
  <2> QED BY <1>11, <2>1
<1> QED
  BY <1>2, <1>3, <1>4, <1>5, <1>6, <1>7, <1>8, <1>9, <1>10, <1>12, <1>13, <1>14, <1>15, <1>16, <1>17, <1>18,
     <1>19, <1>20
  DEF CanvasNext

\* No sequence of edits, pastes, undos and chains closes a loop on the canvas,
\* unless nodes are chained that have come to lead to one another since the run
\* that named them.
THEOREM TheCanvasHasNoLoops == CanvasSpec => []NoLoops
<1>1. CanvasInit => Typed /\ Loopless BY TypedInit, LooplessInit
<1>2. Typed /\ Loopless /\ [CanvasNext]_canvasVars => Typed' /\ Loopless' BY TypedStep, LooplessStep
<1>3. Loopless => NoLoops BY DEF Loopless, NoLoops, Around, Held
<1> QED BY <1>1, <1>2, <1>3, PTL DEF CanvasSpec

\* Every graph the canvas, the history, the clipboard and the runs hold is a graph,
\* and a dialog goes on with nodes and edges.
THEOREM CanvasIsTyped == CanvasSpec => []CanvasTypeOK
<1>1. Typed /\ [CanvasNext]_canvasVars => Typed' BY TypedStep
<1>2. Typed => CanvasTypeOK BY DEF Typed
<1> QED BY <1>1, <1>2, TypedInit, PTL DEF CanvasSpec

-----------------------------------------------------------------------------
(* Closures over what is sent.                                             *)

\* What leads to a node of S in a configuration, and what a node of S leads to.
Needed(config, S) == LET next(n) == InputsIn(config, n) IN Closure(S, next)
Served(config, S) == LET next(n) == ConsumersIn(config, n) IN Closure(S, next)

LEMMA NeededFacts ==
  ASSUME NEW config, \A n \in Nodes : InputsIn(config, n) \subseteq Nodes, NEW S \in SUBSET Nodes
  PROVE  /\ S \subseteq Needed(config, S) /\ Needed(config, S) \subseteq Nodes
         /\ \A n \in Needed(config, S) : InputsIn(config, n) \subseteq Needed(config, S)
         /\ \A X \in SUBSET Nodes : S \subseteq X /\ (\A n \in X : InputsIn(config, n) \subseteq X)
              => Needed(config, S) \subseteq X
<1> DEFINE After(X) == LET found == X IN found \cup UNION {InputsIn(config, n) : n \in found}
           E(f) == f = [k \in 0 .. Rounds |-> IF k = 0 THEN S ELSE After(f[k - 1])]
           grow == CHOOSE f : E(f)
           F == [n \in Nodes |-> InputsIn(config, n)]
<1>0. Rounds \in Nat BY GraphAssumption, FS_CardinalityType DEF Rounds
<1>1. Needed(config, S) = grow[Rounds] BY DEF Needed, Closure, Rounds
<1>2. F \in [Nodes -> SUBSET Nodes] /\ \A n \in Nodes : F[n] = InputsIn(config, n) OBVIOUS
<1>3. \A X \in SUBSET Nodes : After(X) = X \cup UNION {F[n] : n \in X}
  <2> SUFFICES ASSUME NEW X \in SUBSET Nodes
               PROVE  \A y : (\E n \in X : y \in InputsIn(config, n)) <=> (\E n \in X : y \in F[n])
    OBVIOUS
  <2> QED BY <1>2
<1> HIDE DEF After, F
<1>4. \E f : E(f)
  <2>1. PICK f : Grows(f, S, F) BY <1>2, GrowthExists
  <2>2. \A k \in 0 .. Rounds : f[k] = IF k = 0 THEN S ELSE After(f[k - 1])
    <3> SUFFICES ASSUME NEW k \in 0 .. Rounds PROVE f[k] = IF k = 0 THEN S ELSE After(f[k - 1]) OBVIOUS
    <3>1. CASE k = 0 BY <2>1, <3>1 DEF Grows
    <3>2. CASE k # 0
      <4>1. k \in 1 .. Rounds /\ k - 1 \in 0 .. Rounds BY <1>0, <3>2
      <4>2. f[k - 1] \in SUBSET Nodes BY <2>1, <4>1 DEF Grows
      <4> QED BY <1>3, <2>1, <3>2, <4>1, <4>2 DEF Grows
    <3> QED BY <3>1, <3>2
  <2>3. f = [k \in 0 .. Rounds |-> f[k]] BY <2>1 DEF Grows
  <2> QED BY <2>2, <2>3
<1> HIDE DEF grow
<1>5. E(grow)
  <2> HIDE DEF E
  <2> QED BY <1>4 DEF grow
<1>6. \A k \in 0 .. Rounds : grow[k] = IF k = 0 THEN S ELSE After(grow[k - 1]) BY <1>5
<1>7. grow = [k \in 0 .. Rounds |-> grow[k]] BY <1>5
<1> HIDE DEF E
<1>8. grow[0] = S /\ \A k \in 1 .. Rounds : grow[k] = After(grow[k - 1])
  <2>1. 0 \in 0 .. Rounds /\ \A k \in 1 .. Rounds : k \in 0 .. Rounds /\ k # 0 BY <1>0
  <2> QED BY <1>6, <2>1
<1>9. Grows(grow, S, F) BY <1>2, <1>3, <1>7, <1>8, GrowthTyped
<1>10. /\ S \subseteq grow[Rounds] /\ grow[Rounds] \subseteq Nodes /\ Keeps(F, grow[Rounds])
       /\ \A X : S \subseteq X /\ Keeps(F, X) => grow[Rounds] \subseteq X
  BY <1>2, <1>9, GrowthFacts
<1>11. \A X \in SUBSET Nodes : Keeps(F, X) <=> \A n \in X : InputsIn(config, n) \subseteq X BY <1>2 DEF Keeps
<1> QED BY <1>1, <1>10, <1>11

LEMMA ServedFacts ==
  ASSUME NEW config, \A n \in Nodes : ConsumersIn(config, n) \subseteq Nodes, NEW S \in SUBSET Nodes
  PROVE  /\ S \subseteq Served(config, S) /\ Served(config, S) \subseteq Nodes
         /\ \A n \in Served(config, S) : ConsumersIn(config, n) \subseteq Served(config, S)
<1> DEFINE After(X) == LET found == X IN found \cup UNION {ConsumersIn(config, n) : n \in found}
           E(f) == f = [k \in 0 .. Rounds |-> IF k = 0 THEN S ELSE After(f[k - 1])]
           grow == CHOOSE f : E(f)
           F == [n \in Nodes |-> ConsumersIn(config, n)]
<1>0. Rounds \in Nat BY GraphAssumption, FS_CardinalityType DEF Rounds
<1>1. Served(config, S) = grow[Rounds] BY DEF Served, Closure, Rounds
<1>2. F \in [Nodes -> SUBSET Nodes] /\ \A n \in Nodes : F[n] = ConsumersIn(config, n) OBVIOUS
<1>3. \A X \in SUBSET Nodes : After(X) = X \cup UNION {F[n] : n \in X}
  <2> SUFFICES ASSUME NEW X \in SUBSET Nodes
               PROVE  \A y : (\E n \in X : y \in ConsumersIn(config, n)) <=> (\E n \in X : y \in F[n])
    OBVIOUS
  <2> QED BY <1>2
<1> HIDE DEF After, F
<1>4. \E f : E(f)
  <2>1. PICK f : Grows(f, S, F) BY <1>2, GrowthExists
  <2>2. \A k \in 0 .. Rounds : f[k] = IF k = 0 THEN S ELSE After(f[k - 1])
    <3> SUFFICES ASSUME NEW k \in 0 .. Rounds PROVE f[k] = IF k = 0 THEN S ELSE After(f[k - 1]) OBVIOUS
    <3>1. CASE k = 0 BY <2>1, <3>1 DEF Grows
    <3>2. CASE k # 0
      <4>1. k \in 1 .. Rounds /\ k - 1 \in 0 .. Rounds BY <1>0, <3>2
      <4>2. f[k - 1] \in SUBSET Nodes BY <2>1, <4>1 DEF Grows
      <4> QED BY <1>3, <2>1, <3>2, <4>1, <4>2 DEF Grows
    <3> QED BY <3>1, <3>2
  <2>3. f = [k \in 0 .. Rounds |-> f[k]] BY <2>1 DEF Grows
  <2> QED BY <2>2, <2>3
<1> HIDE DEF grow
<1>5. E(grow)
  <2> HIDE DEF E
  <2> QED BY <1>4 DEF grow
<1>6. \A k \in 0 .. Rounds : grow[k] = IF k = 0 THEN S ELSE After(grow[k - 1]) BY <1>5
<1>7. grow = [k \in 0 .. Rounds |-> grow[k]] BY <1>5
<1> HIDE DEF E
<1>8. grow[0] = S /\ \A k \in 1 .. Rounds : grow[k] = After(grow[k - 1])
  <2>1. 0 \in 0 .. Rounds /\ \A k \in 1 .. Rounds : k \in 0 .. Rounds /\ k # 0 BY <1>0
  <2> QED BY <1>6, <2>1
<1>9. Grows(grow, S, F) BY <1>2, <1>3, <1>7, <1>8, GrowthTyped
<1>10. S \subseteq grow[Rounds] /\ grow[Rounds] \subseteq Nodes /\ Keeps(F, grow[Rounds])
  BY <1>2, <1>9, GrowthFacts
<1> QED BY <1>1, <1>2, <1>10 DEF Keeps

-----------------------------------------------------------------------------
(* What is sent.                                                           *)

\* A graph without its previews.
LEMMA ActivePart ==
  ASSUME NEW g \in Graphs
  PROVE  /\ NodesOf(Active(g)) = {n \in NodesOf(g) : Kind[n] # "preview"}
         /\ EdgesOf(Active(g)) = {e \in EdgesOf(g) : Kind[e.source] # "preview" /\ Kind[e.target] # "preview"}
         /\ Intact(g) => Intact(Active(g))
         /\ Drawn(g) => Drawn(Active(g))
<1>1. g.nodes \in Seq(Nodes) /\ g.edges \in Seq(Edges) /\ g.parallel \in SUBSET Nodes BY GraphFacts
<1> DEFINE run == {n \in Nodes : Kind[n] # "preview"}
           wires == {e \in EdgesOf(g) : {e.source, e.target} \subseteq run}
           left == Filtered(g.edges, wires)
           rest == Filtered(g.nodes, run)
<1>2. Active(g) = [g EXCEPT !.nodes = rest, !.edges = left] BY DEF Active
<1>3. \A e \in EdgesOf(g) : e.source \in Nodes /\ e.target \in Nodes BY GraphFacts
<1>4. wires = {e \in EdgesOf(g) : Kind[e.source] # "preview" /\ Kind[e.target] # "preview"} BY <1>3
<1>5. EdgesOf(g) \cap wires = wires OBVIOUS
<1>6. NodesOf(g) \cap run = {n \in NodesOf(g) : Kind[n] # "preview"} BY GraphFacts
<1> HIDE DEF run, wires
<1>7. ToSet(left) = wires BY <1>1, <1>5, FilteredFacts DEF EdgesOf
<1>8. ToSet(rest) = {n \in NodesOf(g) : Kind[n] # "preview"} BY <1>1, <1>6, FilteredFacts DEF NodesOf
<1> HIDE DEF left, rest
<1>9. Active(g).edges = left /\ Active(g).nodes = rest BY <1>2 DEF Graphs
<1>10. NodesOf(Active(g)) = {n \in NodesOf(g) : Kind[n] # "preview"} BY <1>8, <1>9 DEF NodesOf
<1>11. EdgesOf(Active(g)) = {e \in EdgesOf(g) : Kind[e.source] # "preview" /\ Kind[e.target] # "preview"}
  BY <1>4, <1>7, <1>9 DEF EdgesOf
<1>12. Intact(g) => Intact(Active(g)) BY <1>10, <1>11 DEF Intact
<1>13. Drawn(g) => Drawn(Active(g)) BY <1>11 DEF Drawn
<1> QED BY <1>10, <1>11, <1>12, <1>13

LEMMA IntoAll ==
  ASSUME NEW g \in Graphs, NEW n
  PROVE  Into(g, n) \in Seq(Nodes) /\ ToSet(Into(g, n)) = Predecessors(g, n)
<1> DEFINE E == {e \in EdgesOf(g) : e.target = n}
           found == Filtered(g.edges, E)
           u == Into(g, n)
<1>1. found \in Seq(Edges) /\ ToSet(found) = EdgesOf(g) \cap E
  <2> HIDE DEF E
  <2> QED BY GraphFacts, FilteredFacts DEF EdgesOf
<1>2. u = [i \in 1 .. Len(found) |-> found[i].source] BY DEF Into
<1>3. u \in Seq(Nodes) BY IntoFacts
<1>4. ToSet(found) = E BY <1>1
<1> HIDE DEF found, E, u
<1>5. ToSet(found) = {found[i] : i \in 1 .. Len(found)} /\ Len(found) \in Nat BY <1>1, ToSetFacts
<1>6. ToSet(u) = {u[i] : i \in 1 .. Len(u)} BY <1>3, ToSetFacts
<1>7. Len(u) = Len(found) /\ \A i \in 1 .. Len(found) : u[i] = found[i].source BY <1>2, <1>5
<1>8. ToSet(u) = {e.source : e \in E} BY <1>4, <1>5, <1>6, <1>7
<1> QED BY <1>3, <1>8 DEF u, E, Predecessors

LEMMA OutOfAll ==
  ASSUME NEW g \in Graphs, NEW n
  PROVE  /\ OutOf(g, n) \in Seq(Nodes) /\ ToSet(OutOf(g, n)) = Successors(g, n)
         /\ IsFiniteSet({i \in 1 .. Len(g.edges) : g.edges[i].source = n})
         /\ Len(OutOf(g, n)) = Cardinality({i \in 1 .. Len(g.edges) : g.edges[i].source = n})
<1> DEFINE E == {e \in EdgesOf(g) : e.source = n}
           found == Filtered(g.edges, E)
           u == OutOf(g, n)
           I == {i \in 1 .. Len(g.edges) : g.edges[i] \in E}
<1>0. g.edges \in Seq(Edges) /\ EdgesOf(g) = {g.edges[i] : i \in 1 .. Len(g.edges)}
  BY GraphFacts, ToSetFacts DEF EdgesOf
<1>1. found \in Seq(Edges) /\ ToSet(found) = EdgesOf(g) \cap E
  <2> HIDE DEF E
  <2> QED BY GraphFacts, FilteredFacts DEF EdgesOf
<1>2. u = [i \in 1 .. Len(found) |-> found[i].target] BY DEF OutOf
<1>4. ToSet(found) = E /\ \A e \in E : e.target \in Nodes BY <1>1, GraphFacts
<1>9. I = {i \in 1 .. Len(g.edges) : g.edges[i].source = n} BY <1>0
<1>10. found = Picked(g.edges, I) BY DEF Filtered
<1> HIDE DEF found, E, u
<1>11. IsFiniteSet(I) /\ Cardinality(I) = Len(found)
  <2>1. I \cap (1 .. Len(g.edges)) = I OBVIOUS
  <2> HIDE DEF I
  <2> QED BY <1>0, <1>10, <2>1, PickedLength
<1> HIDE DEF I
<1>5. ToSet(found) = {found[i] : i \in 1 .. Len(found)} /\ Len(found) \in Nat BY <1>1, ToSetFacts
<1>7. /\ u \in Seq(Nodes) /\ Len(u) = Len(found) /\ \A i \in 1 .. Len(found) : u[i] = found[i].target
  <2>1. \A i \in 1 .. Len(found) : found[i].target \in Nodes BY <1>4, <1>5
  <2> QED BY <1>2, <1>5, <2>1
<1>6. ToSet(u) = {u[i] : i \in 1 .. Len(u)} BY <1>7, ToSetFacts
<1>8. ToSet(u) = {e.target : e \in E} BY <1>4, <1>5, <1>6, <1>7
<1> QED BY <1>7, <1>8, <1>9, <1>11 DEF u, E, Successors

\* What a node is sent with: the data it takes, over its own wires or, for an
\* ensemble of recipes only, over theirs.
LEMMA InputsTyped ==
  ASSUME NEW g \in Graphs, NEW n
  PROVE  /\ Inputs(g, n) \in Seq(Nodes)
         /\ Kind[n] # "ensemble" => ToSet(Inputs(g, n)) = Predecessors(g, n)
         /\ Kind[n] = "ensemble" =>
              LET models == {s \in NodesOf(g) : Kind[s] = "classifier"} \cap Predecessors(g, n)
                  direct == Predecessors(g, n) \ models
              IN \A x : x \in ToSet(Inputs(g, n)) <=>
                   IF direct # {} THEN x \in direct
                   ELSE x \notin models /\ \E c \in models : x \in Predecessors(g, c)
<1> DEFINE wired == Distinct(Into(g, n))
           models == WiredModels(g, n)
           data == Nodes \ ToSet(models)
           direct == Filtered(wired, data)
           lists == [i \in 1 .. Len(models) |-> Into(g, models[i])]
           inherited == FlattenSeq(lists)
           own == Filtered(inherited, data)
           M == {s \in NodesOf(g) : Kind[s] = "classifier"} \cap Predecessors(g, n)
<1>1. wired \in Seq(Nodes) /\ ToSet(wired) = Predecessors(g, n) BY IntoAll, DistinctFacts, DistinctAll
<1>2. models \in Seq(Nodes) /\ ToSet(models) = M
  <2> DEFINE C == {s \in NodesOf(g) : Kind[s] = "classifier"}
  <2>1. models = Filtered(wired, C) BY DEF WiredModels
  <2> HIDE DEF C, wired, models
  <2>2. models \in Seq(Nodes) /\ ToSet(models) = ToSet(wired) \cap C BY <1>1, <2>1, FilteredFacts
  <2> QED BY <1>1, <2>2 DEF C
<1>3. Inputs(g, n) = IF Kind[n] # "ensemble" \/ direct # << >>
                     THEN IF Kind[n] = "ensemble" THEN direct ELSE wired
                     ELSE Distinct(own)
  BY DEF Inputs
<1>4. Predecessors(g, n) \subseteq Nodes BY GraphFacts DEF Predecessors
<1> HIDE DEF wired, models, M
<1>5. direct \in Seq(Nodes) /\ ToSet(direct) = Predecessors(g, n) \ M
  <2>1. direct \in Seq(Nodes) /\ ToSet(direct) = ToSet(wired) \cap data
    <3> HIDE DEF data
    <3> QED BY <1>1, FilteredFacts
  <2> QED BY <1>1, <1>2, <1>4, <2>1
<1>6. lists \in Seq(Seq(Nodes)) /\ Len(lists) = Len(models) /\ Len(models) \in Nat
      /\ \A i \in 1 .. Len(models) : ToSet(lists[i]) = Predecessors(g, models[i])
  <2>1. Len(models) \in Nat BY <1>2
  <2>2. \A i \in 1 .. Len(models) : lists[i] = Into(g, models[i]) OBVIOUS
  <2>3. \A i \in 1 .. Len(models) : lists[i] \in Seq(Nodes) /\ ToSet(lists[i]) = Predecessors(g, models[i])
    BY <2>2, IntoAll
  <2>4. DOMAIN lists = 1 .. Len(models) /\ lists = [i \in 1 .. Len(models) |-> lists[i]] OBVIOUS
  <2> HIDE DEF lists
  <2> QED BY <2>1, <2>3, <2>4
<1>7. M = {models[i] : i \in 1 .. Len(models)} BY <1>2, ToSetFacts
<1> HIDE DEF direct, lists
<1>8. /\ inherited \in Seq(Nodes)
      /\ \A x : x \in ToSet(inherited) <=> \E c \in M : x \in Predecessors(g, c)
  <2>1. /\ inherited \in Seq(Nodes)
        /\ \A x : x \in ToSet(inherited) <=> \E i \in 1 .. Len(lists) : x \in ToSet(lists[i])
    BY <1>6, FlattenFacts
  <2> HIDE DEF inherited
  <2> QED BY <1>6, <1>7, <2>1
<1> HIDE DEF inherited
<1>9. own \in Seq(Nodes) /\ ToSet(own) = ToSet(inherited) \cap data
  <2> HIDE DEF data
  <2> QED BY <1>8, FilteredFacts
<1>10. Distinct(own) \in Seq(Nodes) /\ ToSet(Distinct(own)) = ToSet(inherited) \ M
  <2>1. ToSet(inherited) \subseteq Nodes BY <1>8, ToSetFacts
  <2>2. ToSet(own) = ToSet(inherited) \ M BY <1>2, <1>9, <2>1
  <2> HIDE DEF own
  <2> QED BY <1>9, <2>2, DistinctFacts, DistinctAll
<1> HIDE DEF own, data
<1>11. direct # << >> <=> ToSet(direct) # {}
  <2>1. direct # << >> => 1 \in 1 .. Len(direct) BY <1>5
  <2>2. ToSet(direct) = {direct[i] : i \in 1 .. Len(direct)} BY <1>5, ToSetFacts
  <2> QED BY <2>1, <2>2
<1>12. Inputs(g, n) \in Seq(Nodes) BY <1>1, <1>3, <1>5, <1>10
<1>13. Kind[n] # "ensemble" => ToSet(Inputs(g, n)) = Predecessors(g, n) BY <1>1, <1>3
<1>14. ASSUME Kind[n] = "ensemble"
       PROVE  \A x : x \in ToSet(Inputs(g, n)) <=>
                       IF Predecessors(g, n) \ M # {} THEN x \in Predecessors(g, n) \ M
                       ELSE x \notin M /\ \E c \in M : x \in Predecessors(g, c)
  <2>1. CASE direct # << >>
    <3>1. Inputs(g, n) = direct BY <1>3, <1>14, <2>1
    <3> QED BY <1>5, <1>11, <2>1, <3>1
  <2>2. CASE direct = << >>
    <3>1. Inputs(g, n) = Distinct(own) BY <1>3, <1>14, <2>2
    <3> QED BY <1>5, <1>8, <1>10, <1>11, <2>2, <3>1
  <2> QED BY <2>1, <2>2
<1> QED BY <1>12, <1>13, <1>14 DEF M

\* On a graph whose wires may be drawn: what a node needs is on the canvas, is data,
\* and leads to it; a node with wires needs something, a dataset does not.
LEMMA InputsFacts ==
  ASSUME NEW g \in Graphs, Drawn(g), NEW n \in Nodes
  PROVE  /\ Intact(g) => \A m \in ToSet(Inputs(g, n)) :
              m \in NodesOf(g) /\ Kind[m] # "classifier" /\ Leads(g, m, n)
         /\ Kind[n] = "dataset" => Inputs(g, n) = << >>
         /\ Intact(g) /\ Predecessors(g, n) # {}
              /\ (\A c \in NodesOf(g) : Kind[c] # "dataset" => Predecessors(g, c) # {})
              => ToSet(Inputs(g, n)) # {}
<1> DEFINE M == {s \in NodesOf(g) : Kind[s] = "classifier"} \cap Predecessors(g, n)
           direct == Predecessors(g, n) \ M
           inputs == ToSet(Inputs(g, n))
<1>0. \A u, v \in Nodes : Predecessors(g, u) \subseteq Nodes BY GraphFacts DEF Predecessors
<1>1. \A u, v : u \in Predecessors(g, v) =>
        /\ Kind[v] # "dataset" /\ (Kind[u] \in ModelKinds => Kind[v] = "ensemble") /\ v \in Successors(g, u)
        /\ Intact(g) => u \in NodesOf(g)
  BY DEF Predecessors, Successors, Drawn, Fits, IsModelEndpointViolation, Intact
<1>2. Kind[n] # "ensemble" => inputs = Predecessors(g, n) BY InputsTyped
<1>3. Kind[n] = "ensemble" => \A x : x \in inputs <=>
        IF direct # {} THEN x \in direct ELSE x \notin M /\ \E c \in M : x \in Predecessors(g, c)
  BY InputsTyped
<1>4. \A m \in Nodes : Successors(g, m) \subseteq Downstream(g, Successors(g, m))
                       /\ Follows(g, Downstream(g, Successors(g, m)))
  BY SuccessorFacts, DownstreamFacts
<1>5. \A u, v \in Nodes : u \in Predecessors(g, v) => Leads(g, u, v) BY <1>1, <1>4 DEF Leads
<1>6. \A u, c, v \in Nodes : u \in Predecessors(g, c) /\ c \in Predecessors(g, v) => Leads(g, u, v)
  <2> SUFFICES ASSUME NEW u \in Nodes, NEW c \in Nodes, NEW v \in Nodes,
                      u \in Predecessors(g, c), c \in Predecessors(g, v)
               PROVE  Leads(g, u, v)
    OBVIOUS
  <2> DEFINE X == Downstream(g, Successors(g, u))
  <2>1. c \in X /\ Follows(g, X) BY <1>1, <1>4
  <2>2. \E e \in EdgesOf(g) : e.source = c /\ e.target = v BY DEF Predecessors
  <2> HIDE DEF X
  <2>3. v \in X BY <2>1, <2>2 DEF Follows
  <2> QED BY <2>3 DEF Leads, X
<1>7. \A c \in M : c \in Nodes /\ Kind[c] = "classifier" /\ c \in Predecessors(g, n) /\ c \in NodesOf(g)
  BY GraphFacts
<1>8. \A m \in direct : Intact(g) => m \in NodesOf(g) /\ Kind[m] # "classifier" BY <1>1
<1>9. direct \subseteq Predecessors(g, n) BY DEF direct
<1>10. M = {} => direct = Predecessors(g, n) OBVIOUS
<1>11. direct = {} => Predecessors(g, n) \subseteq M OBVIOUS
<1> HIDE DEF M, direct, inputs
<1>12. "classifier" \in ModelKinds /\ "classifier" # "ensemble" /\ "classifier" # "dataset" BY DEF ModelKinds
<1>13. ASSUME Intact(g), NEW m \in inputs
       PROVE  m \in NodesOf(g) /\ Kind[m] # "classifier" /\ Leads(g, m, n)
  <2>1. CASE Kind[n] # "ensemble"
    <3>1. m \in Predecessors(g, n) /\ m \in Nodes BY <1>0, <1>2, <1>13, <2>1
    <3> QED BY <1>1, <1>5, <1>12, <1>13, <2>1, <3>1
  <2>2. CASE Kind[n] = "ensemble" /\ direct # {}
    <3>1. m \in direct BY <1>3, <1>13, <2>2
    <3>2. m \in Predecessors(g, n) /\ m \in Nodes BY <1>0, <1>9, <3>1
    <3> QED BY <1>5, <1>8, <1>13, <3>1, <3>2
  <2>3. CASE Kind[n] = "ensemble" /\ direct = {}
    <3>1. PICK c \in M : m \in Predecessors(g, c) BY <1>3, <1>13, <2>3
    <3>2. c \in Nodes /\ Kind[c] = "classifier" /\ c \in Predecessors(g, n) /\ m \in Nodes BY <1>0, <1>7, <3>1
    <3>3. Leads(g, m, n) BY <1>6, <3>1, <3>2
    <3>4. Kind[m] # "classifier" BY <1>1, <1>12, <3>1, <3>2
    <3> QED BY <1>1, <1>13, <3>1, <3>3, <3>4
  <2> QED BY <2>1, <2>2, <2>3
<1>14. ASSUME Kind[n] = "dataset" PROVE Inputs(g, n) = << >>
  <2>1. Predecessors(g, n) = {} BY <1>1, <1>14
  <2>2. Kind[n] # "ensemble" BY <1>14
  <2>3. ToSet(Inputs(g, n)) = {} BY <1>2, <2>1, <2>2 DEF inputs
  <2>4. Inputs(g, n) \in Seq(Nodes) BY InputsTyped
  <2> DEFINE u == Inputs(g, n)
  <2> HIDE DEF u
  <2>5. u \in Seq(Nodes) /\ ToSet(u) = {} BY <2>3, <2>4 DEF u
  <2>6. ToSet(u) = {u[i] : i \in 1 .. Len(u)} BY <2>5, ToSetFacts
  <2>7. u # << >> => 1 \in 1 .. Len(u) BY <2>5
  <2> QED BY <2>5, <2>6, <2>7 DEF u
<1>15. ASSUME Intact(g), Predecessors(g, n) # {},
              \A c \in NodesOf(g) : Kind[c] # "dataset" => Predecessors(g, c) # {}
       PROVE  inputs # {}
  <2>1. CASE Kind[n] # "ensemble" BY <1>2, <1>15, <2>1
  <2>2. CASE Kind[n] = "ensemble" /\ direct # {} BY <1>3, <2>2
  <2>3. CASE Kind[n] = "ensemble" /\ direct = {}
    <3>1. PICK c \in M : TRUE BY <1>10, <1>15, <2>3
    <3>2. c \in NodesOf(g) /\ Kind[c] = "classifier" BY <1>7
    <3>3. PICK x \in Predecessors(g, c) : TRUE BY <1>12, <1>15, <3>2
    <3>4. Kind[x] # "classifier" BY <1>1, <1>12, <3>2, <3>3
    <3>5. x \notin M BY <1>7, <3>4
    <3>6. x \in inputs BY <1>3, <2>3, <3>1, <3>3, <3>5
    <3> QED BY <3>6
  <2> QED BY <2>1, <2>2, <2>3
<1> QED BY <1>13, <1>14, <1>15 DEF inputs

\* The walk meets every dataset and whatever a node it has met leads to.
LEMMA OrderFacts ==
  ASSUME NEW g \in Graphs
  PROVE  /\ Order(g) \in Seq(Nodes) /\ ToSet(Order(g)) \subseteq NodesOf(g)
         /\ \A n \in NodesOf(g) : Kind[n] = "dataset" => n \in ToSet(Order(g))
         /\ \A e \in EdgesOf(g) : e.source \in ToSet(Order(g)) /\ e.target \in NodesOf(g) => e.target \in ToSet(Order(g))
<1> DEFINE datasets == Filtered(g.nodes, {n \in Nodes : Kind[n] = "dataset"})
           L == Len(g.edges)
           N == Len(datasets) + L
           D == [queue : Seq(Nodes), visited : Seq(Nodes)]
           Turn(w) == IF w.queue = << >> THEN w
                      ELSE LET n == Head(w.queue) IN
                           IF Contains(w.visited, n) \/ n \notin NodesOf(g)
                           THEN [w EXCEPT !.queue = Tail(@)]
                           ELSE [queue |-> Tail(w.queue) \o OutOf(g, n), visited |-> Append(w.visited, n)]
           start == [queue |-> datasets, visited |-> << >>]
           E(f) == f = [k \in 0 .. N |-> IF k = 0 THEN start ELSE Turn(f[k - 1])]
           walk == CHOOSE f : E(f)
           \* The edges that are still to be followed.
           Ahead(V) == {i \in 1 .. L : g.edges[i].source \notin V}
           \* Every node met leads into what is met or queued; and the turns left are enough.
           Good(w, k) == LET V == ToSet(w.visited) IN
             /\ V \subseteq NodesOf(g)
             /\ \A n \in NodesOf(g) : Kind[n] = "dataset" => n \in V \cup ToSet(w.queue)
             /\ \A e \in EdgesOf(g) : e.source \in V /\ e.target \in NodesOf(g) => e.target \in V \cup ToSet(w.queue)
             /\ w.queue = << >> \/ k + Len(w.queue) + Cardinality(Ahead(V)) <= N
<1>1. Order(g) = walk[N].visited BY DEF Order
<1>2. g.edges \in Seq(Edges) /\ L \in Nat /\ EdgesOf(g) = {g.edges[i] : i \in 1 .. L}
  BY GraphFacts, ToSetFacts DEF EdgesOf
<1>3. datasets \in Seq(Nodes) /\ ToSet(datasets) = {n \in NodesOf(g) : Kind[n] = "dataset"}
  <2> DEFINE S == {n \in Nodes : Kind[n] = "dataset"}
  <2>1. datasets = Filtered(g.nodes, S) OBVIOUS
  <2>2. NodesOf(g) \cap S = {n \in NodesOf(g) : Kind[n] = "dataset"} BY GraphFacts
  <2> HIDE DEF S, datasets
  <2>3. datasets \in Seq(Nodes) /\ ToSet(datasets) = NodesOf(g) \cap S BY <2>1, GraphFacts, FilteredFacts DEF NodesOf
  <2> QED BY <2>2, <2>3
<1> HIDE DEF datasets
<1>4. N \in Nat BY <1>2, <1>3
<1>5. start \in D BY <1>3
<1>6. ASSUME NEW w \in D
      PROVE  /\ w.queue = << >> => Turn(w) = w
             /\ w.queue # << >> => LET n == Head(w.queue) IN
                  /\ n \in Nodes
                  /\ n \in ToSet(w.visited) \/ n \notin NodesOf(g)
                       => Turn(w) = [queue |-> Tail(w.queue), visited |-> w.visited]
                  /\ n \notin ToSet(w.visited) /\ n \in NodesOf(g)
                       => Turn(w) = [queue |-> Tail(w.queue) \o OutOf(g, n), visited |-> Append(w.visited, n)]
  <2>1. w = [queue |-> w.queue, visited |-> w.visited] /\ w.queue \in Seq(Nodes) /\ w.visited \in Seq(Nodes) OBVIOUS
  <2>2. \A n : Contains(w.visited, n) <=> n \in ToSet(w.visited) BY <2>1, ToSetFacts DEF Contains
  <2>3. w.queue # << >> => Head(w.queue) \in Nodes BY <2>1
  <2>4. \A t : [w EXCEPT !.queue = t] = [queue |-> t, visited |-> w.visited] OBVIOUS
  <2> QED BY <2>2, <2>3, <2>4
<1> HIDE DEF Turn
<1>7. ASSUME NEW w \in D PROVE Turn(w) \in D
  <2>1. w.queue \in Seq(Nodes) /\ w.visited \in Seq(Nodes) OBVIOUS
  <2>2. w.queue # << >> => Tail(w.queue) \in Seq(Nodes) BY <2>1
  <2>3. \A n \in Nodes : OutOf(g, n) \in Seq(Nodes) BY OutOfAll
  <2>4. \A n \in Nodes : w.queue # << >> =>
          [queue |-> Tail(w.queue) \o OutOf(g, n), visited |-> Append(w.visited, n)] \in D
    BY <2>1, <2>2, <2>3
  <2>5. w.queue # << >> => [queue |-> Tail(w.queue), visited |-> w.visited] \in D BY <2>1, <2>2
  <2> HIDE DEF D
  <2> QED BY <1>6, <2>4, <2>5
<1> HIDE DEF start, N, D
<1>8. \E f : E(f)
  <2> DEFINE G == [p \in (1 .. N) \X D |-> Turn(p[2])]
  <2>1. \A k \in 1 .. N, w \in D : G[<<k, w>>] = Turn(w) OBVIOUS
  <2>2. G \in [(1 .. N) \X D -> D] BY <1>7
  <2> HIDE DEF G
  <2>3. PICK f : Recurses(f, N, D, start, G) BY <1>4, <1>5, <2>2, Recursion
  <2>4. \A k \in 0 .. N : f[k] = IF k = 0 THEN start ELSE Turn(f[k - 1])
    <3> SUFFICES ASSUME NEW k \in 0 .. N PROVE f[k] = IF k = 0 THEN start ELSE Turn(f[k - 1]) OBVIOUS
    <3>1. CASE k = 0 BY <2>3, <3>1 DEF Recurses
    <3>2. CASE k # 0
      <4>1. k \in 1 .. N /\ k - 1 \in 0 .. N BY <1>4, <3>2
      <4>2. f[k - 1] \in D BY <2>3, <4>1 DEF Recurses
      <4> QED BY <2>1, <2>3, <3>2, <4>1, <4>2 DEF Recurses
    <3> QED BY <3>1, <3>2
  <2>5. f = [k \in 0 .. N |-> f[k]] BY <2>3 DEF Recurses
  <2> QED BY <2>4, <2>5
<1> HIDE DEF walk
<1>9. E(walk)
  <2> HIDE DEF E
  <2> QED BY <1>8 DEF walk
<1>10. walk[0] = start /\ \A k \in 1 .. N : walk[k] = Turn(walk[k - 1])
  <2>1. \A k \in 0 .. N : walk[k] = IF k = 0 THEN start ELSE Turn(walk[k - 1]) BY <1>9
  <2>2. 0 \in 0 .. N /\ \A k \in 1 .. N : k \in 0 .. N /\ k # 0 BY <1>4
  <2> HIDE DEF E
  <2> QED BY <2>1, <2>2
<1> HIDE DEF E
<1>11. \A V : IsFiniteSet(Ahead(V)) /\ Cardinality(Ahead(V)) \in Nat
  <2> SUFFICES ASSUME NEW V PROVE IsFiniteSet(Ahead(V)) /\ Cardinality(Ahead(V)) \in Nat OBVIOUS
  <2>1. Ahead(V) \in SUBSET (1 .. L) OBVIOUS
  <2>2. IsFiniteSet(1 .. L)
    <3>1. 1 \in Int /\ L \in Int BY <1>2
    <3> QED BY <3>1, FS_Interval
  <2> HIDE DEF Ahead
  <2> QED BY <2>1, <2>2, FS_Subset, FS_CardinalityType
<1>12. Good(start, 0)
  <2>1. start.queue = datasets /\ start.visited = << >> BY DEF start
  <2>2. ToSet(<< >>) = {} BY DEF ToSet
  <2>3. Cardinality(Ahead({})) <= L
    <3>1. Ahead({}) \in SUBSET (1 .. L) OBVIOUS
    <3>2. IsFiniteSet(1 .. L) /\ Cardinality(1 .. L) = L
      <4>1. 1 \in Int /\ L \in Int BY <1>2
      <4>2. IsFiniteSet(1 .. L) /\ Cardinality(1 .. L) = (IF 1 > L THEN 0 ELSE L - 1 + 1) BY <4>1, FS_Interval
      <4> QED BY <1>2, <4>2
    <3> HIDE DEF Ahead, L
    <3>3. Cardinality(Ahead({})) <= Cardinality(1 .. L) BY <3>1, <3>2, FS_Subset
    <3> QED BY <3>2, <3>3
  <2> DEFINE c == Cardinality(Ahead({}))
  <2>4. c \in Nat
    <3> HIDE DEF Ahead
    <3> QED BY <1>11
  <2> HIDE DEF c
  <2>5. 0 + Len(datasets) + c <= N BY <1>2, <1>3, <2>3, <2>4 DEF N, c
  <2> HIDE DEF Ahead
  <2> QED BY <1>3, <2>1, <2>2, <2>5 DEF c
<1>13. ASSUME NEW k \in Nat, NEW w \in D, Good(w, k) PROVE Good(Turn(w), k + 1)
  <2> DEFINE V == ToSet(w.visited)
             q == w.queue
             n == Head(q)
             w2 == Turn(w)
  <2>1. q \in Seq(Nodes) /\ w.visited \in Seq(Nodes) BY DEF D
  <2>2. CASE q = << >>
    <3>1. Turn(w) = w BY <1>6, <2>2
    <3> HIDE DEF Ahead
    <3> QED BY <1>13, <2>2, <3>1
  <2>3. CASE q # << >>
    <3>1. Tail(q) \in Seq(Nodes) /\ Len(Tail(q)) = Len(q) - 1 /\ Len(q) \in Nat BY <2>1, <2>3
    <3>2. ToSet(q) = {n} \cup ToSet(Tail(q))
      <4> DEFINE t == Tail(q)
      <4>1. /\ Len(q) \in Nat /\ Len(q) >= 1 /\ q[1] = n /\ Len(t) = Len(q) - 1
            /\ \A i \in 1 .. Len(t) : t[i] = q[i + 1]
        BY <2>1, <2>3
      <4>2. t \in Seq(Nodes) BY <3>1
      <4> HIDE DEF t, n, q
      <4>3. ToSet(t) = {t[i] : i \in 1 .. Len(t)} /\ ToSet(q) = {q[i] : i \in 1 .. Len(q)}
        BY <2>1, <4>2, ToSetFacts
      <4>4. \A i \in 1 .. Len(q) : i = 1 \/ (i - 1 \in 1 .. Len(t) /\ q[i] = t[i - 1])
        <5> SUFFICES ASSUME NEW i \in 1 .. Len(q), i # 1 PROVE i - 1 \in 1 .. Len(t) /\ q[i] = t[i - 1] OBVIOUS
        <5>1. i - 1 \in 1 .. Len(t) /\ (i - 1) + 1 = i BY <4>1
        <5> QED BY <4>1, <5>1
      <4>5. 1 \in 1 .. Len(q) /\ \A i \in 1 .. Len(t) : i + 1 \in 1 .. Len(q) BY <4>1
      <4>6. ToSet(q) \subseteq {n} \cup ToSet(t) BY <4>1, <4>3, <4>4
      <4>7. {n} \cup ToSet(t) \subseteq ToSet(q) BY <4>1, <4>3, <4>5
      <4> QED BY <4>6, <4>7 DEF t, n, q
    <3>3. k + Len(q) + Cardinality(Ahead(V)) <= N BY <1>13, <2>3
    <3>4. CASE n \in V \/ n \notin NodesOf(g)
      <4>0. Turn(w) = [queue |-> Tail(w.queue), visited |-> w.visited]
        <5> HIDE DEF Ahead
        <5> QED BY <1>6, <2>3, <3>4
      <4>1. w2.queue = Tail(q) /\ w2.visited = w.visited BY <4>0
      <4> DEFINE c == Cardinality(Ahead(V))
      <4>2. c \in Nat BY <1>11
      <4>3. k + 1 + Len(Tail(q)) + c <= N
        <5> DEFINE lt == Len(Tail(q))
                   lq == Len(q)
        <5>1. lt = lq - 1 /\ lq \in Nat /\ k + lq + c <= N BY <3>1, <3>3
        <5> HIDE DEF lt, lq, c
        <5>2. k + 1 + lt + c <= N BY <1>4, <4>2, <5>1
        <5> QED BY <5>2 DEF lt
      <4> HIDE DEF c, Ahead
      <4> HIDE DEF q, n, w2
      <4>4. /\ V \subseteq NodesOf(g)
            /\ \A m \in NodesOf(g) : Kind[m] = "dataset" => m \in V \cup ToSet(q)
            /\ \A e \in EdgesOf(g) : e.source \in V /\ e.target \in NodesOf(g) => e.target \in V \cup ToSet(q)
        BY <1>13 DEF q
      <4>5. \A m \in NodesOf(g) : m \in V \cup ToSet(q) => m \in V \cup ToSet(Tail(q)) BY <3>2, <3>4
      <4> QED BY <4>1, <4>3, <4>4, <4>5 DEF w2, c
    <3>5. CASE n \notin V /\ n \in NodesOf(g)
      <4> DEFINE out == OutOf(g, n)
                 Mine == {i \in 1 .. L : g.edges[i].source = n}
                 rest == Tail(q) \o out
                 W == V \cup {n}
      <4>0. Turn(w) = [queue |-> Tail(w.queue) \o OutOf(g, Head(w.queue)), visited |-> Append(w.visited, Head(w.queue))]
            /\ Head(w.queue) \in Nodes
        <5> HIDE DEF Ahead
        <5> QED BY <1>6, <2>3, <3>5
      <4>1. w2.queue = rest /\ w2.visited = Append(w.visited, n) /\ n \in Nodes
        <5> DEFINE qq == Tail(w.queue) \o OutOf(g, Head(w.queue))
                   vv == Append(w.visited, Head(w.queue))
        <5>1. Turn(w) = [queue |-> qq, visited |-> vv] BY <4>0
        <5> HIDE DEF qq, vv
        <5>2. Turn(w).queue = qq /\ Turn(w).visited = vv BY <5>1
        <5> QED BY <4>0, <5>2 DEF qq, vv
      <4>2. /\ out \in Seq(Nodes) /\ ToSet(out) = Successors(g, n) /\ Len(out) = Cardinality(Mine)
            /\ IsFiniteSet(Mine)
        BY OutOfAll
      <4>3. ToSet(Append(w.visited, n)) = W BY <2>1, <4>1, AppendFacts
      <4> HIDE DEF out, q, n, w2, V
      <4>4. /\ rest \in Seq(Nodes) /\ ToSet(rest) = ToSet(Tail(q)) \cup ToSet(out)
            /\ Len(rest) = Len(Tail(q)) + Len(out) /\ Len(out) \in Nat
        <5> DEFINE t == Tail(q)
        <5>1. t \in Seq(Nodes) BY <3>1
        <5> HIDE DEF t
        <5>2. t \o out \in Seq(Nodes) /\ ToSet(t \o out) = ToSet(t) \cup ToSet(out) BY <4>2, <5>1, ConcatFacts
        <5>3. Len(t \o out) = Len(t) + Len(out) /\ Len(out) \in Nat BY <4>2, <5>1
        <5> QED BY <5>2, <5>3 DEF t
      <4>5. Cardinality(Ahead(V)) = Cardinality(Mine) + Cardinality(Ahead(W))
        <5>1. Ahead(V) = Mine \cup Ahead(W) /\ Mine \cap Ahead(W) = {} BY <3>5 DEF W
        <5>2. IsFiniteSet(Ahead(W)) /\ Cardinality(Ahead(W)) \in Nat BY <1>11
        <5>3. Cardinality({}) = 0 BY FS_EmptySet
        <5> DEFINE A == Ahead(W)
        <5> HIDE DEF A, Mine
        <5>4. Cardinality(Mine \cup A) = Cardinality(Mine) + Cardinality(A) - Cardinality(Mine \cap A)
          BY <4>2, <5>2, FS_Union DEF A
        <5>5. Cardinality(Mine) \in Nat /\ Cardinality(A) \in Nat BY <4>2, <5>2, FS_CardinalityType DEF A
        <5>6. Ahead(V) = Mine \cup A /\ Mine \cap A = {} BY <5>1 DEF A
        <5> HIDE DEF Ahead, W
        <5>7. Cardinality(Mine \cap A) = 0 BY <5>3, <5>6
        <5>8. Cardinality(Mine \cup A) = Cardinality(Mine) + Cardinality(A) BY <5>4, <5>5, <5>7
        <5>9. Cardinality(Ahead(V)) = Cardinality(Mine \cup A) BY <5>6
        <5> QED BY <5>8, <5>9 DEF A
      <4> DEFINE c == Cardinality(Ahead(W))
      <4>6. c \in Nat BY <1>11
      <4> HIDE DEF c, Mine, Ahead
      <4>7. k + 1 + Len(rest) + c <= N
        BY <1>4, <3>1, <3>3, <4>2, <4>4, <4>5, <4>6 DEF c
      <4> HIDE DEF rest
      <4>8. /\ V \subseteq NodesOf(g)
            /\ \A m \in NodesOf(g) : Kind[m] = "dataset" => m \in V \cup ToSet(q)
            /\ \A e \in EdgesOf(g) : e.source \in V /\ e.target \in NodesOf(g) => e.target \in V \cup ToSet(q)
        BY <1>13 DEF q, V
      <4>9. \A m : m \in V \cup ToSet(q) => m \in W \cup ToSet(rest) BY <3>2, <4>4
      <4>10. ASSUME NEW e \in EdgesOf(g), e.source \in W, e.target \in NodesOf(g)
             PROVE  e.target \in W \cup ToSet(rest)
        <5>1. CASE e.source = n
          <6>1. e.target \in Successors(g, n) BY <5>1 DEF Successors
          <6> QED BY <4>2, <4>4, <6>1
        <5>2. CASE e.source # n
          <6>1. e.source \in V BY <4>10, <5>2
          <6> QED BY <4>8, <4>9, <4>10, <6>1
        <5> QED BY <5>1, <5>2
      <4>11. W \subseteq NodesOf(g) BY <3>5, <4>8
      <4>12. \A m \in NodesOf(g) : Kind[m] = "dataset" => m \in W \cup ToSet(rest) BY <4>8, <4>9
      <4> HIDE DEF W
      <4> QED BY <4>1, <4>3, <4>7, <4>10, <4>11, <4>12 DEF w2, c
    <3> QED BY <3>4, <3>5
  <2> QED BY <2>2, <2>3
<1> HIDE DEF Good
<1> DEFINE P == {k \in 0 .. N : walk[k] \in D /\ Good(walk[k], k)}
<1>14. 0 \in P BY <1>4, <1>5, <1>10, <1>12
<1>15. ASSUME NEW k \in 1 .. N, k - 1 \in P PROVE k \in P
  <2>1. k - 1 \in Nat /\ (k - 1) + 1 = k /\ k \in 0 .. N BY <1>4
  <2>2. Good(Turn(walk[k - 1]), (k - 1) + 1) BY <1>13, <1>15, <2>1
  <2>3. Turn(walk[k - 1]) \in D BY <1>7, <1>15
  <2> QED BY <1>10, <2>1, <2>2, <2>3
<1> HIDE DEF P
<1>16. \A k \in 0 .. N : k \in P BY <1>4, <1>14, <1>15, UpTo
<1>17. N \in 0 .. N BY <1>4
<1>18. walk[N] \in D /\ Good(walk[N], N) BY <1>16, <1>17 DEF P
<1> DEFINE w == walk[N]
<1>19. w.visited \in Seq(Nodes) /\ w.queue \in Seq(Nodes) BY <1>18 DEF D
<1> HIDE DEF w
<1>20. Good(w, N) BY <1>18 DEF w
<1>21. w.queue = << >>
  <2> DEFINE c == Cardinality(Ahead(ToSet(w.visited)))
  <2>1. c \in Nat BY <1>11
  <2>2. w.queue = << >> \/ N + Len(w.queue) + c <= N BY <1>20 DEF Good
  <2>3. w.queue # << >> => Len(w.queue) \in Nat /\ Len(w.queue) > 0 BY <1>19
  <2> HIDE DEF c
  <2> QED BY <1>4, <2>1, <2>2, <2>3
<1>22. ToSet(<< >>) = {} BY DEF ToSet
<1> HIDE DEF Ahead
<1>23. /\ ToSet(w.visited) \subseteq NodesOf(g)
       /\ \A n \in NodesOf(g) : Kind[n] = "dataset" => n \in ToSet(w.visited)
       /\ \A e \in EdgesOf(g) : e.source \in ToSet(w.visited) /\ e.target \in NodesOf(g) => e.target \in ToSet(w.visited)
  BY <1>20, <1>21, <1>22 DEF Good
<1> QED BY <1>1, <1>19, <1>23 DEF w

\* A configuration sends each node with the inputs it has on the graph.
Sends(config, g) ==
  /\ config \in Seq([id : Nodes, inputs : Seq(Nodes)])
  /\ \A i \in 1 .. Len(config) : config[i].inputs = Inputs(g, config[i].id)

LEMMA SentParts ==
  ASSUME NEW g \in Graphs, NEW config, Sends(config, g)
  PROVE  /\ ConfigIds(config) \subseteq Nodes /\ ConfigIds(config) = {entry.id : entry \in ToSet(config)}
         /\ \A n : InputsIn(config, n) = IF n \in ConfigIds(config) THEN ToSet(Inputs(g, n)) ELSE {}
         /\ \A n : ConsumersIn(config, n) = {m \in ConfigIds(config) : n \in ToSet(Inputs(g, m))}
<1> DEFINE T == [id : Nodes, inputs : Seq(Nodes)]
           L == Len(config)
<1>1. config \in Seq(T) /\ L \in Nat /\ \A i \in 1 .. L : config[i].inputs = Inputs(g, config[i].id) BY DEF Sends
<1>2. \A i \in 1 .. L : config[i].id \in Nodes
  <2> SUFFICES ASSUME NEW i \in 1 .. L PROVE config[i].id \in Nodes OBVIOUS
  <2>1. config[i] \in T
    <3> HIDE DEF T
    <3> QED BY <1>1
  <2> QED BY <2>1
<1>3. ToSet(config) = {config[i] : i \in 1 .. L} BY <1>1, ToSetFacts
<1> HIDE DEF T, L
<1>4. ConfigIds(config) = {config[i].id : i \in 1 .. L} BY DEF ConfigIds, L
<1>5. ASSUME NEW n
      PROVE  InputsIn(config, n) = IF n \in ConfigIds(config) THEN ToSet(Inputs(g, n)) ELSE {}
  <2>1. InputsIn(config, n) = UNION {ToSet(config[i].inputs) : i \in {k \in 1 .. L : config[k].id = n}}
    BY DEF InputsIn, L
  <2>2. \A i \in {k \in 1 .. L : config[k].id = n} : ToSet(config[i].inputs) = ToSet(Inputs(g, n)) BY <1>1
  <2>3. CASE n \in ConfigIds(config)
    <3>1. PICK i \in {k \in 1 .. L : config[k].id = n} : TRUE BY <1>4, <2>3
    <3> QED BY <2>1, <2>2, <2>3, <3>1
  <2>4. CASE n \notin ConfigIds(config)
    <3>1. {k \in 1 .. L : config[k].id = n} = {} BY <1>4, <2>4
    <3> QED BY <2>1, <2>4, <3>1
  <2> QED BY <2>3, <2>4
<1>6. ASSUME NEW n
      PROVE  ConsumersIn(config, n) = {m \in ConfigIds(config) : n \in ToSet(Inputs(g, m))}
  <2>1. ConsumersIn(config, n) = {config[i].id : i \in {k \in 1 .. L : Contains(config[k].inputs, n)}}
    BY DEF ConsumersIn, L
  <2>2. \A k \in 1 .. L : Contains(config[k].inputs, n) <=> n \in ToSet(Inputs(g, config[k].id))
    <3> SUFFICES ASSUME NEW k \in 1 .. L
                 PROVE  Contains(config[k].inputs, n) <=> n \in ToSet(Inputs(g, config[k].id))
      OBVIOUS
    <3> DEFINE s == Inputs(g, config[k].id)
    <3>1. s \in Seq(Nodes) /\ config[k].inputs = s BY <1>1, InputsTyped
    <3> HIDE DEF s
    <3>2. Contains(s, n) <=> n \in ToSet(s) BY <3>1, ToSetFacts DEF Contains
    <3> QED BY <3>1, <3>2 DEF s
  <2> QED BY <1>4, <2>1, <2>2
<1>7. ConfigIds(config) = {entry.id : entry \in ToSet(config)} BY <1>3, <1>4
<1>8. ConfigIds(config) \subseteq Nodes BY <1>2, <1>4
<1> QED BY <1>5, <1>6, <1>7, <1>8

\* Pruning keeps the inputs of what it keeps; what it drops leads to more of it.
LEMMA PrunedFacts ==
  ASSUME NEW g \in Graphs, NEW config, Sends(config, g)
  PROVE  /\ Sends(Pruned(config), g) /\ ConfigIds(Pruned(config)) \subseteq ConfigIds(config)
         /\ \A n \in ConfigIds(Pruned(config)), m \in ConfigIds(config) :
              m \in ToSet(Inputs(g, n)) => m \in ConfigIds(Pruned(config))
         /\ \A n \in ConfigIds(config) \ ConfigIds(Pruned(config)) :
              \E m \in ConfigIds(config) \ ConfigIds(Pruned(config)) : n \in ToSet(Inputs(g, m))
<1> DEFINE ids == ConfigIds(config)
           terminals == {n \in ids : Kind[n] \in ModelKinds \cup {"preview"}}
           dataLeaves == IF Len(config) > 1 THEN {n \in ids : ConsumersIn(config, n) = {}} ELSE {}
           seeds == IF terminals # {} \/ Cardinality(dataLeaves) > 1 THEN terminals \cup dataLeaves ELSE {}
           kept == Needed(config, seeds)
           wanted == {entry \in ToSet(config) : entry.id \in kept}
           p == Pruned(config)
           T == [id : Nodes, inputs : Seq(Nodes)]
<1>1. p = IF seeds = {} THEN config ELSE Filtered(config, wanted) BY DEF Pruned, Needed, Closure
<1>2. CASE seeds = {}
  <2>1. p = config BY <1>1, <1>2
  <2> HIDE DEF p
  <2> QED BY <2>1 DEF p
<1>3. CASE seeds # {}
  <2>1. p = Filtered(config, wanted) BY <1>1, <1>3
  <2> HIDE DEF p
  <2>2. /\ ids \subseteq Nodes /\ ids = {entry.id : entry \in ToSet(config)}
        /\ \A n : InputsIn(config, n) = IF n \in ids THEN ToSet(Inputs(g, n)) ELSE {}
        /\ \A n : ConsumersIn(config, n) = {m \in ids : n \in ToSet(Inputs(g, m))}
    BY SentParts
  <2>3. seeds \subseteq ids OBVIOUS
  <2>4. \A n \in Nodes : InputsIn(config, n) \subseteq Nodes
    <3>1. \A n \in Nodes : ToSet(Inputs(g, n)) \subseteq Nodes BY InputsTyped, ToSetFacts
    <3> HIDE DEF ids
    <3> QED BY <2>2, <3>1
  <2>5. terminals \subseteq seeds BY <1>3
  <2>6. dataLeaves \subseteq seeds BY <1>3
  <2>7. seeds \subseteq terminals \cup dataLeaves OBVIOUS
  <2> HIDE DEF seeds
  <2>8. seeds \subseteq kept /\ \A n \in kept : InputsIn(config, n) \subseteq kept
    <3>1. seeds \in SUBSET Nodes BY <2>2, <2>3
    <3> HIDE DEF ids
    <3> QED BY <2>4, <3>1, NeededFacts
  <2> HIDE DEF kept
  <2>9. config \in Seq(T) /\ \A i \in 1 .. Len(config) : config[i].inputs = Inputs(g, config[i].id) BY DEF Sends
  <2>10. ToSet(config) \cap wanted = wanted OBVIOUS
  <2>11. p \in Seq(T) /\ ToSet(p) = wanted
    <3> HIDE DEF wanted, T
    <3> QED BY <2>1, <2>9, <2>10, FilteredFacts
  <2>12. \A entry \in ToSet(config) : entry.inputs = Inputs(g, entry.id)
    <3>1. ToSet(config) = {config[i] : i \in 1 .. Len(config)} BY <2>9, ToSetFacts
    <3> QED BY <2>9, <3>1
  <2>13. \A i \in 1 .. Len(p) : p[i] \in wanted
    <3>1. ToSet(p) = {p[i] : i \in 1 .. Len(p)}
      <4> HIDE DEF wanted
      <4> QED BY <2>11, ToSetFacts
    <3> QED BY <2>11, <3>1
  <2>14. Sends(p, g) BY <2>11, <2>12, <2>13 DEF Sends
  <2>15. ConfigIds(p) = ids \cap kept
    <3>1. ConfigIds(p) = {entry.id : entry \in wanted} BY <2>11, <2>14, SentParts
    <3> HIDE DEF ids
    <3> QED BY <2>2, <3>1
  <2>16. ASSUME NEW n \in ids \cap kept, NEW m \in ids, m \in ToSet(Inputs(g, n)) PROVE m \in kept
    <3> HIDE DEF ids
    <3> QED BY <2>2, <2>8, <2>16
  <2>17. ASSUME NEW n \in ids, n \notin kept PROVE \E m \in ids \ kept : n \in ToSet(Inputs(g, m))
    <3>1. n \notin terminals /\ n \notin dataLeaves BY <2>5, <2>6, <2>8, <2>17
    <3>2. CASE Len(config) > 1
      <4>1. ConsumersIn(config, n) # {} BY <2>17, <3>1, <3>2
      <4>2. PICK m \in ids : n \in ToSet(Inputs(g, m))
        <5> HIDE DEF ids
        <5> QED BY <2>2, <4>1
      <4>3. m \notin kept BY <2>16, <2>17, <4>2
      <4> QED BY <4>2, <4>3
    <3>3. CASE ~(Len(config) > 1)
      <4>1. dataLeaves = {} BY <3>3
      <4>2. PICK x \in terminals : TRUE BY <1>3, <2>7, <4>1
      <4>3. \A a, b \in ids : a = b
        <5>1. Len(config) \in Nat BY <2>9
        <5>2. \A i, j \in 1 .. Len(config) : i = j BY <3>3, <5>1
        <5> QED BY <5>2 DEF ConfigIds
      <4>4. x \in ids BY <4>2
      <4>5. x = n BY <2>17, <4>3, <4>4
      <4> QED BY <3>1, <4>5
    <3> QED BY <3>2, <3>3
  <2> HIDE DEF ids
  <2>18. ConfigIds(p) \subseteq ids BY <2>15
  <2>19. \A n \in ConfigIds(p), m \in ids : m \in ToSet(Inputs(g, n)) => m \in ConfigIds(p) BY <2>15, <2>16
  <2>20. \A n \in ids \ ConfigIds(p) : \E m \in ids \ ConfigIds(p) : n \in ToSet(Inputs(g, m)) BY <2>15, <2>17
  <2> QED BY <2>14, <2>18, <2>19, <2>20 DEF p, ids
<1> QED BY <1>2, <1>3

\* The nodes that are met and are no recipe.
Walked(g) == {n \in ToSet(Order(g)) : ~SpecOnly(g, n)}

LEMMA ConfigFacts ==
  ASSUME NEW g \in Graphs
  PROVE  LET sent == ConfigIds(Config(g)) IN
         /\ Sends(Config(g), g) /\ sent \subseteq Walked(g)
         /\ \A n \in sent, m \in Walked(g) : m \in ToSet(Inputs(g, n)) => m \in sent
         /\ \A n \in Walked(g) \ sent : \E m \in Walked(g) \ sent : n \in ToSet(Inputs(g, m))
<1> DEFINE T == [id : Nodes, inputs : Seq(Nodes)]
           S == {n \in Nodes : ~SpecOnly(g, n)}
           order == Filtered(Order(g), S)
           all == [i \in 1 .. Len(order) |-> [id |-> order[i], inputs |-> Inputs(g, order[i])]]
<1>1. Config(g) = Pruned(all) BY DEF Config
<1>2. Order(g) \in Seq(Nodes) /\ ToSet(Order(g)) \subseteq Nodes BY OrderFacts, ToSetFacts
<1>3. ToSet(Order(g)) \cap S = Walked(g) BY <1>2 DEF Walked
<1>4. order \in Seq(Nodes) /\ ToSet(order) = Walked(g)
  <2> HIDE DEF S
  <2> QED BY <1>2, <1>3, FilteredFacts
<1> HIDE DEF S, order
<1>5. \A i \in 1 .. Len(order) : order[i] \in Nodes /\ Inputs(g, order[i]) \in Seq(Nodes) BY <1>4, InputsTyped
<1>6. Len(order) \in Nat /\ ToSet(order) = {order[i] : i \in 1 .. Len(order)} BY <1>4, ToSetFacts
<1>7. all \in Seq(T) /\ Len(all) = Len(order)
      /\ \A i \in 1 .. Len(order) : all[i].id = order[i] /\ all[i].inputs = Inputs(g, order[i])
  <2>1. \A i \in 1 .. Len(order) : [id |-> order[i], inputs |-> Inputs(g, order[i])] \in T BY <1>5
  <2> HIDE DEF T
  <2> QED BY <1>6, <2>1
<1> HIDE DEF all
<1>8. Sends(all, g) BY <1>7 DEF Sends
<1>9. ConfigIds(all) = Walked(g) BY <1>4, <1>6, <1>7 DEF ConfigIds
<1>10. /\ Sends(Pruned(all), g) /\ ConfigIds(Pruned(all)) \subseteq ConfigIds(all)
       /\ \A n \in ConfigIds(Pruned(all)), m \in ConfigIds(all) :
            m \in ToSet(Inputs(g, n)) => m \in ConfigIds(Pruned(all))
       /\ \A n \in ConfigIds(all) \ ConfigIds(Pruned(all)) :
            \E m \in ConfigIds(all) \ ConfigIds(Pruned(all)) : n \in ToSet(Inputs(g, m))
  BY <1>8, PrunedFacts
<1> QED BY <1>1, <1>9, <1>10

\* Without loops there is an end: a set of nodes each of which leads to another of
\* them, or is led to from another, is empty.
LEMMA EndsSomewhere ==
  ASSUME NEW g \in Graphs, Acyclic(g), NEW U \in SUBSET Nodes,
         \/ \A n \in U : \E m \in U : Leads(g, n, m)
         \/ \A n \in U : \E m \in U : Leads(g, m, n)
  PROVE  U = {}
<1> DEFINE D(n) == Downstream(g, Successors(g, n))
           N == Cardinality(Nodes)
<1>1. IsFiniteSet(Nodes) /\ N \in Nat BY GraphAssumption, FS_CardinalityType
<1>2. \A n \in Nodes : D(n) \in SUBSET Nodes /\ Follows(g, D(n)) /\ n \notin D(n) /\ Successors(g, n) \subseteq D(n)
  BY AcyclicFacts, SuccessorFacts, DownstreamFacts
<1>3. \A n, m \in Nodes : Leads(g, n, m) <=> m \in D(n) BY DEF Leads
<1>4. ASSUME NEW n \in Nodes, NEW m \in D(n) PROVE D(m) \subseteq D(n)
  <2>1. Follows(g, D(n)) BY <1>2
  <2>2. Successors(g, m) \subseteq D(n) /\ Successors(g, m) \in SUBSET Nodes
    <3> DEFINE X == D(n)
    <3>1. m \in X /\ Follows(g, X) BY <1>4, <2>1
    <3> HIDE DEF X
    <3>2. Successors(g, m) \subseteq X BY <3>1 DEF Successors, Follows
    <3> QED BY <3>2, SuccessorFacts DEF X
  <2>3. \A X : Successors(g, m) \subseteq X /\ Follows(g, X) => Downstream(g, Successors(g, m)) \subseteq X
    BY <2>2, DownstreamFacts
  <2> QED BY <2>1, <2>2, <2>3
<1> HIDE DEF D
<1> DEFINE size(n) == Cardinality(D(n))
<1>5. \A n \in Nodes : size(n) \in Nat /\ size(n) <= N /\ IsFiniteSet(D(n))
  BY <1>1, <1>2, FS_Subset, FS_CardinalityType
<1>6. ASSUME NEW n \in Nodes, NEW m \in Nodes, Leads(g, n, m) PROVE size(m) < size(n)
  <2> DEFINE A == D(m)
             B == D(n)
  <2>1. A \in SUBSET B /\ A # B /\ IsFiniteSet(B) BY <1>2, <1>3, <1>4, <1>5, <1>6
  <2> HIDE DEF A, B
  <2>2. Cardinality(A) <= Cardinality(B) /\ Cardinality(A) # Cardinality(B) BY <2>1, FS_Subset
  <2>3. Cardinality(A) \in Nat /\ Cardinality(B) \in Nat BY <1>5 DEF A, B
  <2>4. Cardinality(A) < Cardinality(B) BY <2>2, <2>3
  <2> QED BY <2>4 DEF A, B
<1> HIDE DEF size, N
<1>7. ASSUME \A n \in U : \E m \in U : Leads(g, n, m) PROVE U = {}
  <2> SUFFICES ASSUME U # {} PROVE FALSE OBVIOUS
  <2> DEFINE T == {size(n) : n \in U}
  <2>1. T \in SUBSET Nat /\ T # {} BY <1>5
  <2>2. PICK t \in T : \A k \in T : t <= k
    <3> HIDE DEF T
    <3> QED BY <2>1, Least
  <2>3. PICK n \in U : t = size(n) BY <2>2
  <2>4. PICK m \in U : Leads(g, n, m) BY <1>7
  <2>5. size(m) < size(n) BY <1>6, <2>4
  <2>6. size(n) <= size(m) BY <2>2, <2>3
  <2> QED BY <1>5, <2>5, <2>6
<1>8. ASSUME \A n \in U : \E m \in U : Leads(g, m, n) PROVE U = {}
  <2> SUFFICES ASSUME U # {} PROVE FALSE OBVIOUS
  <2> DEFINE T == {N - size(n) : n \in U}
  <2>0. N \in Nat BY <1>1 DEF N
  <2>1. T \in SUBSET Nat /\ T # {} BY <1>5, <2>0 DEF N
  <2>2. PICK t \in T : \A k \in T : t <= k
    <3> HIDE DEF T
    <3> QED BY <2>1, Least
  <2>3. PICK n \in U : t = N - size(n) BY <2>2
  <2>4. PICK m \in U : Leads(g, m, n) BY <1>8
  <2>5. size(n) < size(m) BY <1>6, <2>4
  <2>6. N - size(n) <= N - size(m) BY <2>2, <2>3
  <2>7. size(n) \in Nat /\ size(m) \in Nat BY <1>5
  <2> QED BY <2>0, <2>5, <2>6, <2>7
<1> QED BY <1>7, <1>8

\* What Kahn's algorithm leaves nothing of has no loop.
LEMMA OrderedFacts ==
  ASSUME NEW g \in Graphs, NEW config, Sends(config, g), CycleIssues(config) = {}
  PROVE  \A n \in ConfigIds(config) : n \notin Needed(config, InputsIn(config, n))
<1> DEFINE ids == ConfigIds(config)
           L == Len(config)
           Round(X) == LET done == X IN done \cup {n \in ids : InputsIn(config, n) \cap ids \subseteq done}
           E(f) == f = [k \in 0 .. L |-> IF k = 0 THEN {} ELSE Round(f[k - 1])]
           ordered == CHOOSE f : E(f)
<1>1. ids \ ordered[L] = {} BY DEF CycleIssues
<1>2. L \in Nat BY DEF Sends
<1>3. /\ ids \subseteq Nodes
      /\ \A n : InputsIn(config, n) = IF n \in ids THEN ToSet(Inputs(g, n)) ELSE {}
  BY SentParts
<1>4. \A n \in Nodes : InputsIn(config, n) \subseteq Nodes
  <2>1. \A n \in Nodes : ToSet(Inputs(g, n)) \subseteq Nodes BY InputsTyped, ToSetFacts
  <2> HIDE DEF ids
  <2> QED BY <1>3, <2>1
<1> HIDE DEF L, ids
<1>5. \A X \in SUBSET ids : Round(X) \in SUBSET ids OBVIOUS
<1>6. \A X : X \subseteq Round(X) OBVIOUS
<1>7. \A X, n : n \in Round(X) => n \in X \/ (n \in ids /\ InputsIn(config, n) \cap ids \subseteq X) OBVIOUS
<1> HIDE DEF Round
<1>8. \E f : E(f)
  <2> DEFINE G == [p \in (1 .. L) \X SUBSET ids |-> Round(p[2])]
  <2>1. \A k \in 1 .. L, X \in SUBSET ids : G[<<k, X>>] = Round(X) OBVIOUS
  <2>2. G \in [(1 .. L) \X SUBSET ids -> SUBSET ids] BY <1>5
  <2>3. {} \in SUBSET ids OBVIOUS
  <2> HIDE DEF G
  <2>4. PICK f : Recurses(f, L, SUBSET ids, {}, G) BY <1>2, <2>2, <2>3, Recursion
  <2>5. \A k \in 0 .. L : f[k] = IF k = 0 THEN {} ELSE Round(f[k - 1])
    <3> SUFFICES ASSUME NEW k \in 0 .. L PROVE f[k] = IF k = 0 THEN {} ELSE Round(f[k - 1]) OBVIOUS
    <3>1. CASE k = 0 BY <2>4, <3>1 DEF Recurses
    <3>2. CASE k # 0
      <4>1. k \in 1 .. L /\ k - 1 \in 0 .. L BY <1>2, <3>2
      <4>2. f[k - 1] \in SUBSET ids BY <2>4, <4>1 DEF Recurses
      <4> QED BY <2>1, <2>4, <3>2, <4>1, <4>2 DEF Recurses
    <3> QED BY <3>1, <3>2
  <2>6. f = [k \in 0 .. L |-> f[k]] BY <2>4 DEF Recurses
  <2> QED BY <2>5, <2>6
<1> HIDE DEF ordered
<1>9. E(ordered)
  <2> HIDE DEF E
  <2> QED BY <1>8 DEF ordered
<1>10. ordered[0] = {} /\ \A k \in 1 .. L : ordered[k] = Round(ordered[k - 1])
  <2>1. \A k \in 0 .. L : ordered[k] = IF k = 0 THEN {} ELSE Round(ordered[k - 1]) BY <1>9
  <2>2. 0 \in 0 .. L /\ \A k \in 1 .. L : k \in 0 .. L /\ k # 0 BY <1>2
  <2> HIDE DEF E
  <2> QED BY <2>1, <2>2
<1> HIDE DEF E
\* What a round has ordered needs only what it has ordered.
<1>11. \A k \in 0 .. L : /\ ordered[k] \subseteq ids
                         /\ \A n \in ordered[k] : InputsIn(config, n) \cap ids \subseteq ordered[k]
  <2> DEFINE P == {k \in 0 .. L : /\ ordered[k] \subseteq ids
                                  /\ \A n \in ordered[k] : InputsIn(config, n) \cap ids \subseteq ordered[k]}
  <2>1. 0 \in P BY <1>2, <1>10
  <2>2. ASSUME NEW k \in 1 .. L, k - 1 \in P PROVE k \in P
    <3>1. k \in 0 .. L /\ ordered[k] = Round(ordered[k - 1]) BY <1>2, <1>10
    <3>2. /\ ordered[k - 1] \subseteq ids
          /\ \A n \in ordered[k - 1] : InputsIn(config, n) \cap ids \subseteq ordered[k - 1]
      BY <2>2
    <3>3. ordered[k] \subseteq ids BY <1>5, <3>1, <3>2
    <3>4. \A n \in ordered[k] : InputsIn(config, n) \cap ids \subseteq ordered[k] BY <1>6, <1>7, <3>1, <3>2
    <3> QED BY <3>1, <3>3, <3>4
  <2> HIDE DEF P
  <2>3. \A k \in 0 .. L : k \in P BY <1>2, <2>1, <2>2, UpTo
  <2> QED BY <2>3 DEF P
<1>12. ASSUME NEW n \in ids PROVE n \notin Needed(config, InputsIn(config, n))
  <2> DEFINE T == {k \in 0 .. L : n \in ordered[k]}
  <2>1. T \in SUBSET Nat /\ T # {} BY <1>1, <1>2, <1>12
  <2>2. PICK k \in T : \A i \in T : k <= i
    <3> HIDE DEF T
    <3> QED BY <2>1, Least
  <2>3. k \in 1 .. L BY <1>2, <1>10, <2>2
  <2>4. k - 1 \in 0 .. L /\ n \notin ordered[k - 1] BY <1>2, <2>2, <2>3
  <2> DEFINE X == ordered[k - 1] \cup (Nodes \ ids)
  <2>5. InputsIn(config, n) \cap ids \subseteq ordered[k - 1] BY <1>7, <1>10, <2>2, <2>3, <2>4
  <2>6. InputsIn(config, n) \in SUBSET Nodes BY <1>3, <1>4, <1>12
  <2>7. InputsIn(config, n) \subseteq X BY <2>5, <2>6
  <2>8. X \in SUBSET Nodes BY <1>3, <1>11, <2>4
  <2>9. \A m \in X : InputsIn(config, m) \subseteq X
    <3> SUFFICES ASSUME NEW m \in X PROVE InputsIn(config, m) \subseteq X OBVIOUS
    <3>1. CASE m \in ids
      <4>1. m \in ordered[k - 1] /\ m \in Nodes BY <1>3, <3>1
      <4>2. InputsIn(config, m) \cap ids \subseteq ordered[k - 1] BY <1>11, <2>4, <4>1
      <4> QED BY <1>4, <4>1, <4>2
    <3>2. CASE m \notin ids BY <1>3, <3>2
    <3> QED BY <3>1, <3>2
  <2>10. n \notin X BY <1>12, <2>4
  <2> HIDE DEF X
  <2>11. Needed(config, InputsIn(config, n)) \subseteq X BY <1>4, <2>6, <2>7, <2>8, <2>9, NeededFacts
  <2> QED BY <2>10, <2>11
<1> QED BY <1>12 DEF ids

\* What a run of an intact graph with wires of the right kinds sends once there are
\* no issues.
LEMMA SentIsSound ==
  ASSUME NEW h \in Graphs, Intact(h), Drawn(h), Valid(Active(h))
  PROVE  LET g == Active(h)
             config == Config(g)
             sent == ConfigIds(config)
         IN /\ \A n \in sent : n \notin Needed(config, InputsIn(config, n))
            /\ \A n \in sent : /\ InputsIn(config, n) = {} <=> Kind[n] = "dataset"
                               /\ \A m \in InputsIn(config, n) : Kind[m] # "classifier"
            /\ \A n \in sent \cap Learners : \A m \in sent : Leads(g, n, m) => Kind[m] # "splitter"
            /\ Acyclic(h) => /\ sent = {n \in NodesOf(g) : ~SpecOnly(g, n)}
                             /\ \A n \in sent : InputsIn(config, n) \subseteq sent
<1> DEFINE g == Active(h)
           config == Config(g)
           sent == ConfigIds(config)
           V == ToSet(Order(g))
<1>1. g \in Graphs /\ Intact(g) /\ Drawn(g) BY ActiveFacts, ActivePart
<1>2. ConnectionIssues(g) = {} /\ LeakageIssues(config) = {} /\ CycleIssues(config) = {} BY DEF Valid
<1>3. Acyclic(h) => Acyclic(g) BY <1>1, ActiveFacts, FewerEdges
<1> HIDE DEF g
<1>4. /\ Sends(config, g) /\ sent \subseteq Walked(g)
      /\ \A n \in sent, m \in Walked(g) : m \in ToSet(Inputs(g, n)) => m \in sent
      /\ \A n \in Walked(g) \ sent : \E m \in Walked(g) \ sent : n \in ToSet(Inputs(g, m))
  BY <1>1, ConfigFacts
<1> HIDE DEF config
<1>5. /\ sent \subseteq Nodes
      /\ \A n \in sent : InputsIn(config, n) = ToSet(Inputs(g, n))
      /\ \A n : ConsumersIn(config, n) = {m \in sent : n \in ToSet(Inputs(g, m))}
  BY <1>1, <1>4, SentParts
<1>6. \A n \in sent : n \notin Needed(config, InputsIn(config, n)) BY <1>1, <1>2, <1>4, OrderedFacts
<1> HIDE DEF sent
<1>7. /\ V \subseteq NodesOf(g) /\ \A n \in NodesOf(g) : Kind[n] = "dataset" => n \in V
      /\ \A e \in EdgesOf(g) : e.source \in V => e.target \in V
  <2>1. \A e \in EdgesOf(g) : e.target \in NodesOf(g) BY <1>1 DEF Intact
  <2> QED BY <1>1, <2>1, OrderFacts
<1>8. Walked(g) = {n \in V : ~SpecOnly(g, n)} BY DEF Walked
<1> HIDE DEF V
<1>9. \A n \in NodesOf(g) : Kind[n] # "dataset" => Predecessors(g, n) # {} BY <1>2 DEF ConnectionIssues
<1>10. NodesOf(g) \subseteq Nodes /\ \A e \in EdgesOf(g) : e.source \in Nodes /\ e.target \in Nodes
  BY <1>1, GraphFacts
<1>11. \A n \in Nodes : /\ \A m \in ToSet(Inputs(g, n)) : m \in NodesOf(g) /\ Kind[m] # "classifier" /\ Leads(g, m, n)
                        /\ Kind[n] = "dataset" => ToSet(Inputs(g, n)) = {}
                        /\ Predecessors(g, n) # {} => ToSet(Inputs(g, n)) # {}
                        /\ Kind[n] # "ensemble" => ToSet(Inputs(g, n)) = Predecessors(g, n)
  <2> SUFFICES ASSUME NEW n \in Nodes
               PROVE  /\ \A m \in ToSet(Inputs(g, n)) : m \in NodesOf(g) /\ Kind[m] # "classifier" /\ Leads(g, m, n)
                      /\ Kind[n] = "dataset" => ToSet(Inputs(g, n)) = {}
                      /\ Predecessors(g, n) # {} => ToSet(Inputs(g, n)) # {}
                      /\ Kind[n] # "ensemble" => ToSet(Inputs(g, n)) = Predecessors(g, n)
    OBVIOUS
  <2>1. ToSet(<< >>) = {} BY DEF ToSet
  <2>2. /\ \A m \in ToSet(Inputs(g, n)) : m \in NodesOf(g) /\ Kind[m] # "classifier" /\ Leads(g, m, n)
        /\ Kind[n] = "dataset" => Inputs(g, n) = << >>
        /\ Predecessors(g, n) # {} => ToSet(Inputs(g, n)) # {}
    BY <1>1, <1>9, InputsFacts
  <2>3. Kind[n] # "ensemble" => ToSet(Inputs(g, n)) = Predecessors(g, n) BY <1>1, InputsTyped
  <2> QED BY <2>1, <2>2, <2>3
<1>12. ASSUME NEW n \in sent
       PROVE  /\ InputsIn(config, n) = {} <=> Kind[n] = "dataset"
              /\ \A m \in InputsIn(config, n) : Kind[m] # "classifier"
  <2>1. n \in Nodes /\ n \in NodesOf(g) /\ InputsIn(config, n) = ToSet(Inputs(g, n))
    BY <1>4, <1>5, <1>7, <1>8, <1>12
  <2> QED BY <1>9, <1>11, <2>1
<1>13. ASSUME NEW n \in sent \cap Learners, NEW m \in sent, Leads(g, n, m), Kind[m] = "splitter" PROVE FALSE
  <2> DEFINE X == Served(config, ConsumersIn(config, n))
             \* Nodes that are no models and, if they are met, are sent.
             Q == {x \in Nodes : Kind[x] \notin ModelKinds /\ (x \in V => x \in sent)}
             Y == {y \in Nodes : y \in V /\ (y \in Q => y \in X)}
  <2>1. n \in sent /\ n \in V /\ n \in Nodes BY <1>4, <1>5, <1>8
  <2>2. ConsumersIn(config, n) \subseteq X /\ \A x \in X : ConsumersIn(config, x) \subseteq X
    <3>1. \A x \in Nodes : ConsumersIn(config, x) \subseteq Nodes BY <1>5
    <3> QED BY <2>1, <3>1, ServedFacts
  <2>3. m \notin X
    <3>1. n \notin LeakageIssues(config) BY <1>2
    <3>2. n \in ConfigIds(config) BY <2>1 DEF sent
    <3>3. n \in Learners BY <1>13
    <3>4. X = LET next(x) == ConsumersIn(config, x) IN Closure(ConsumersIn(config, n), next) BY DEF Served
    <3> QED BY <1>13, <3>1, <3>2, <3>3, <3>4 DEF LeakageIssues, Closure
  <2> HIDE DEF X
  <2>4. ASSUME NEW e \in EdgesOf(g), e.target \in Q PROVE e.source \in Q /\ e.source \in Predecessors(g, e.target)
    <3>1. e.source \in Predecessors(g, e.target) BY DEF Predecessors
    <3>2. Kind[e.target] # "ensemble" BY <2>4 DEF ModelKinds
    <3>3. Kind[e.source] \notin ModelKinds
      BY <1>1, <3>2 DEF Drawn, Fits, IsModelEndpointViolation
    <3>4. e.source \in V => e.source \in sent
      <4> SUFFICES ASSUME e.source \in V PROVE e.source \in sent OBVIOUS
      <4>1. e.target \in V BY <1>7
      <4>2. e.target \in sent /\ e.target \in Nodes BY <2>4, <4>1
      <4>3. e.source \in ToSet(Inputs(g, e.target)) BY <1>11, <3>1, <3>2, <4>2
      <4>4. ~SpecOnly(g, e.source) BY <3>3 DEF SpecOnly, ModelKinds
      <4> QED BY <1>4, <1>8, <4>2, <4>3, <4>4
    <3> QED BY <1>10, <3>1, <3>3, <3>4
  <2>5. ASSUME NEW e \in EdgesOf(g), e.source \in V, e.target \in Q
        PROVE  e.target \in ConsumersIn(config, e.source)
    <3>1. e.target \in V /\ e.target \in sent /\ e.target \in Nodes BY <1>7, <2>5
    <3>2. Kind[e.target] # "ensemble" BY <2>5 DEF ModelKinds
    <3>3. e.source \in ToSet(Inputs(g, e.target)) BY <1>11, <2>4, <2>5, <3>1, <3>2
    <3> QED BY <1>5, <3>1, <3>3
  <2>6. m \in Q
    <3>1. m \in Nodes BY <1>5
    <3> QED BY <1>13, <3>1 DEF ModelKinds
  <2> HIDE DEF Q
  <2>7. Follows(g, Y)
    <3> SUFFICES ASSUME NEW e \in EdgesOf(g), e.source \in Y PROVE e.target \in Y BY DEF Follows
    <3>1. e.source \in V /\ (e.source \in Q => e.source \in X) OBVIOUS
    <3>2. e.target \in V /\ e.target \in Nodes BY <1>7, <1>10, <3>1
    <3>3. e.target \in Q => e.target \in X BY <2>2, <2>4, <2>5, <3>1
    <3> QED BY <3>2, <3>3
  <2>8. Successors(g, n) \subseteq Y
    <3> SUFFICES ASSUME NEW e \in EdgesOf(g), e.source = n PROVE e.target \in Y BY DEF Successors
    <3>1. e.target \in V /\ e.target \in Nodes BY <1>7, <1>10, <2>1
    <3>2. e.target \in Q => e.target \in X BY <2>1, <2>2, <2>5
    <3> QED BY <3>1, <3>2
  <2>9. Successors(g, n) \in SUBSET Nodes BY <1>1, SuccessorFacts
  <2> HIDE DEF Y
  <2>10. Downstream(g, Successors(g, n)) \subseteq Y BY <1>1, <2>7, <2>8, <2>9, DownstreamFacts
  <2>11. m \in Y BY <1>13, <2>10 DEF Leads
  <2> QED BY <2>3, <2>6, <2>11 DEF Y
<1>14. ASSUME Acyclic(h)
       PROVE  /\ sent = {n \in NodesOf(g) : ~SpecOnly(g, n)}
              /\ \A n \in sent : InputsIn(config, n) \subseteq sent
  <2> DEFINE U == NodesOf(g) \ V
             W == Walked(g) \ sent
  <2>1. U = {}
    <3>1. U \in SUBSET Nodes BY <1>10
    <3>2. ASSUME NEW n \in U PROVE \E m \in U : Leads(g, m, n)
      <4>1. n \in NodesOf(g) /\ n \notin V BY <3>2
      <4>2. Predecessors(g, n) # {} BY <1>7, <1>9, <4>1
      <4>3. PICK e \in EdgesOf(g) : e.target = n BY <4>2 DEF Predecessors
      <4>4. e.source \in NodesOf(g) BY <1>1 DEF Intact
      <4>5. e.source \notin V BY <1>7, <4>1, <4>3
      <4>6. Leads(g, e.source, n)
        <5>1. n \in Successors(g, e.source) /\ Successors(g, e.source) \in SUBSET Nodes
          BY <1>1, <4>3, SuccessorFacts
        <5> QED BY <1>1, <5>1, DownstreamFacts DEF Leads
      <4> QED BY <4>4, <4>5, <4>6
    <3> HIDE DEF U
    <3> QED BY <1>1, <1>3, <1>14, <3>1, <3>2, EndsSomewhere
  <2>2. W = {}
    <3>1. W \in SUBSET Nodes BY <1>7, <1>8, <1>10
    <3>2. ASSUME NEW n \in W PROVE \E m \in W : Leads(g, n, m)
      <4>1. PICK m \in W : n \in ToSet(Inputs(g, m)) BY <1>4, <3>2
      <4> QED BY <1>11, <3>1, <4>1
    <3> HIDE DEF W
    <3> QED BY <1>1, <1>3, <1>14, <3>1, <3>2, EndsSomewhere
  <2>3. V = NodesOf(g) /\ Walked(g) = sent BY <1>4, <1>7, <2>1, <2>2
  <2>4. sent = {n \in NodesOf(g) : ~SpecOnly(g, n)} BY <1>8, <2>3
  <2>5. \A n \in sent : InputsIn(config, n) \subseteq sent
    <3> SUFFICES ASSUME NEW n \in sent, NEW m \in InputsIn(config, n) PROVE m \in sent OBVIOUS
    <3>1. m \in NodesOf(g) /\ Kind[m] # "classifier" BY <1>5, <1>11
    <3> QED BY <2>4, <3>1 DEF SpecOnly
  <2> QED BY <2>4, <2>5
<1> QED BY <1>6, <1>12, <1>13, <1>14 DEF g, config, sent

-----------------------------------------------------------------------------
(* What is sent is sound.                                                  *)

\* Data comes in and goes out.
Processes(n) == Kind[n] \notin {"dataset", "preview"} \cup ModelKinds

\* Part of the inductive invariant: no graph that is kept has a wire that may not be
\* drawn, and what a chain dialog lists is of kinds between which any wire may be.
Fitted ==
  /\ \A g \in Around : Drawn(g)
  /\ dialog.asks = "chain" => \A n \in ToSet(Append(dialog.inputs, dialog.consumer)) : Processes(n)

\* The rest of it: the graph of a run had no issues, and its edges their nodes.
Checked == request # NoGraph => Valid(Active(request)) /\ (~raced => Intact(request))

LEMMA FittedInit == CanvasInit => Fitted /\ Checked
<1>1. CanvasInit => Around = {EmptyGraph} BY DEF CanvasInit, Around, Held, ToSet
<1>2. Drawn(EmptyGraph) BY EmptyGraphFacts DEF Drawn
<1> QED BY <1>1, <1>2 DEF CanvasInit, Fitted, Checked, Closed

\* An operation that changes no more than the graph.
LEMMA FittedTurn ==
  ASSUME Fitted, NEW N, NEW E, Turned(N, E), \A e \in E : e \in EdgesOf(graph) \/ Fits(e.source, e.target),
         UNCHANGED <<clipboard, request, result>>, dialog' = dialog \/ dialog' = Closed
  PROVE  Fitted'
<1>1. Around' \subseteq Around \cup {graph'} BY DEF Turned, Around
<1>2. Drawn(graph) BY DEF Fitted, Around, Held
<1>3. Drawn(graph') BY <1>2 DEF Turned, Drawn
<1>4. \A g \in Around' : Drawn(g) BY <1>1, <1>3 DEF Fitted
<1> QED BY <1>4 DEF Fitted, Closed

\* What an advisory lists takes in data and gives it on.
LEMMA AdvisedProcess ==
  ASSUME NEW h \in Graphs, Drawn(h), NEW n \in Nodes, Kind[n] \notin ModelKinds,
         n \in ConfigIds(Config(Active(h))), Siblings(Config(Active(h)), Inputs(Active(h), n))
  PROVE  \A m \in ToSet(Append(Inputs(Active(h), n), n)) : Processes(m)
<1> DEFINE g == Active(h)
           config == Config(g)
           inputs == Inputs(g, n)
           next(m) == InputsIn(config, m)
<1>1. g \in Graphs /\ Drawn(g) /\ \A m \in NodesOf(g) : Kind[m] # "preview" BY ActiveFacts, ActivePart
<1>2. /\ Len(inputs) >= 2
      /\ \E c \in Nodes : \A a \in ToSet(inputs) : c \in Needed(config, InputsIn(config, a))
  BY DEF Siblings, Needed, Closure
<1> HIDE DEF g
<1>3. inputs \in Seq(Nodes) /\ ToSet(inputs) = Predecessors(g, n)
  <2>1. Kind[n] # "ensemble" BY DEF ModelKinds
  <2> QED BY <1>1, <2>1, InputsTyped
<1>4. n \in NodesOf(g) /\ Sends(config, g)
  <2>1. ConfigIds(config) \subseteq Walked(g) /\ Sends(config, g) BY <1>1, ConfigFacts
  <2>2. ToSet(Order(g)) \subseteq NodesOf(g) BY <1>1, OrderFacts
  <2>3. n \in ConfigIds(config) BY DEF g
  <2> QED BY <2>1, <2>2, <2>3 DEF Walked
<1> HIDE DEF config
<1>5. Processes(n)
  <2>1. Kind[n] # "dataset"
    <3>1. Kind[n] = "dataset" => inputs = << >> BY <1>1, InputsFacts
    <3>2. Len(<< >>) = 0 OBVIOUS
    <3> HIDE DEF inputs
    <3> QED BY <1>2, <3>1, <3>2
  <2> QED BY <1>1, <1>4, <2>1 DEF Processes
<1>6. ASSUME NEW m \in ToSet(inputs) PROVE Processes(m)
  <2>1. m \in Nodes BY <1>3, <1>6, ToSetFacts
  <2>2. PICK e \in EdgesOf(g) : e.source = m /\ e.target = n BY <1>3, <1>6 DEF Predecessors
  <2>3. Kind[m] # "preview" /\ Kind[m] \notin ModelKinds
    BY <1>1, <2>2 DEF Drawn, Fits, IsModelEndpointViolation, ModelKinds
  <2>4. Kind[m] # "dataset"
    <3> SUFFICES ASSUME Kind[m] = "dataset" PROVE FALSE OBVIOUS
    <3>1. Inputs(g, m) = << >> BY <1>1, <2>1, InputsFacts
    <3>2. ToSet(<< >>) = {} BY DEF ToSet
    <3>3. InputsIn(config, m) = {} BY <1>1, <1>4, <3>1, <3>2, SentParts
    <3>4. \A x \in Nodes : InputsIn(config, x) \subseteq Nodes
      <4>1. \A x \in Nodes : ToSet(Inputs(g, x)) \subseteq Nodes BY <1>1, InputsTyped, ToSetFacts
      <4>2. \A x : InputsIn(config, x) = IF x \in ConfigIds(config) THEN ToSet(Inputs(g, x)) ELSE {}
        BY <1>1, <1>4, SentParts
      <4> QED BY <4>1, <4>2
    <3>5. {} \in SUBSET Nodes /\ \A x \in {} : InputsIn(config, x) \subseteq {} OBVIOUS
    <3>6. Needed(config, {}) \subseteq {} BY <3>4, <3>5, NeededFacts
    <3> QED BY <1>2, <1>6, <3>3, <3>6
  <2> QED BY <2>3, <2>4 DEF Processes
<1>7. ToSet(Append(inputs, n)) = ToSet(inputs) \cup {n} BY <1>3, AppendFacts
<1> QED BY <1>5, <1>6, <1>7 DEF g

LEMMA FittedStep ==
  ASSUME Typed, Fitted, [CanvasNext]_canvasVars
  PROVE  Fitted'
<1>0. /\ HistoryOK /\ ClipboardOK /\ graph \in Graphs /\ clipboard \in Graphs
      /\ request \in Graphs \cup {NoGraph} /\ result \in Graphs \cup {NoGraph}
  BY TypedFacts
<1>1. Drawn(graph) /\ Drawn(clipboard) /\ (result # NoGraph => Drawn(result))
  BY DEF Fitted, Around, Held
<1>2. ASSUME NEW n \in Nodes, AddNode(n) PROVE Fitted'
  <2>1. Turned(NodesOf(graph) \cup {n}, EdgesOf(graph)) BY <1>2, AddNodeFacts
  <2>2. UNCHANGED <<clipboard, request, result, dialog>> BY <1>2 DEF AddNode, runs
  <2> QED BY <2>1, <2>2, FittedTurn
<1>3. ASSUME NEW n \in Nodes, SetExecutionMode(n) PROVE Fitted'
  <2>1. Turned(NodesOf(graph), EdgesOf(graph)) BY <1>3, SetExecutionModeFacts
  <2>2. UNCHANGED <<clipboard, request, result, dialog>> BY <1>3 DEF SetExecutionMode, runs
  <2> QED BY <2>1, <2>2, FittedTurn
<1>4. CASE UpdateNodeData
  <2>1. Turned(NodesOf(graph), EdgesOf(graph)) BY <1>4, UpdateNodeDataFacts
  <2>2. UNCHANGED <<clipboard, request, result, dialog>> BY <1>4 DEF UpdateNodeData, runs
  <2> QED BY <2>1, <2>2, FittedTurn
<1>5. ASSUME NEW e \in Edges, RemoveEdge(e) PROVE Fitted'
  <2>1. Turned(NodesOf(graph), EdgesOf(graph) \ {e}) BY <1>5, RemoveEdgeFacts
  <2>2. UNCHANGED <<clipboard, request, result, dialog>> BY <1>5 DEF RemoveEdge, runs
  <2> QED BY <2>1, <2>2, FittedTurn
<1>6. ASSUME NEW S \in Selections, DuplicateSelectedNodes(S) PROVE Fitted'
  <2>1. PICK f \in FreshIds(S) : Turned(NodesOf(graph) \cup {f[n] : n \in S}, EdgesOf(graph))
    BY <1>6, DuplicateFacts
  <2>2. UNCHANGED <<clipboard, request, result, dialog>> BY <1>6 DEF DuplicateSelectedNodes, runs
  <2> DEFINE N == NodesOf(graph) \cup {f[n] : n \in S}
  <2>3. Turned(N, EdgesOf(graph)) BY <2>1
  <2> HIDE DEF N
  <2> QED BY <2>2, <2>3, FittedTurn
<1>7. ASSUME NEW e \in Edges, OnConnect(e) PROVE Fitted'
  <2>1. Turned(NodesOf(graph), EdgesOf(graph) \cup {e}) BY <1>7, OnConnectFacts
  <2>2. UNCHANGED <<clipboard, request, result, dialog>> BY <1>7 DEF OnConnect, runs
  <2>3. Fits(e.source, e.target) BY <1>7 DEF OnConnect, Connectable
  <2> QED BY <2>1, <2>2, <2>3, FittedTurn
<1>8. CASE Paste
  <2> DEFINE S == NodesOf(clipboard)
  <2>1. PICK f \in FreshIds(S) :
          Turned(NodesOf(graph) \cup {f[n] : n \in S}, EdgesOf(graph) \cup {Copy(e, f) : e \in EdgesOf(clipboard)})
    BY <1>8, PasteFacts
  <2>2. UNCHANGED <<clipboard, request, result, dialog>> BY <1>8 DEF Paste, runs
  <2>3. S \in SUBSET Nodes BY <1>0, GraphFacts
  <2>4. f \in [S -> Nodes] /\ \A n \in S : Kind[f[n]] = Kind[n] BY <2>3, FreshFacts
  <2>5. \A e \in EdgesOf(clipboard) : e \in Edges /\ e.source \in S /\ e.target \in S
    BY <1>0, GraphFacts DEF ClipboardOK, Intact
  <2> DEFINE N == NodesOf(graph) \cup {f[n] : n \in S}
             E == EdgesOf(graph) \cup {Copy(e, f) : e \in EdgesOf(clipboard)}
  <2> HIDE DEF S
  <2>6. \A e \in EdgesOf(clipboard) : Copy(e, f).source = f[e.source] /\ Copy(e, f).target = f[e.target]
    BY <2>3, <2>4, <2>5, CopyFacts
  <2>7. \A e \in EdgesOf(clipboard) : Fits(Copy(e, f).source, Copy(e, f).target)
    BY <1>1, <2>4, <2>5, <2>6 DEF Drawn, Fits, IsModelEndpointViolation
  <2>8. \A e \in E : e \in EdgesOf(graph) \/ Fits(e.source, e.target) BY <2>7
  <2>9. Turned(N, E) BY <2>1
  <2> HIDE DEF N, E
  <2> QED BY <2>2, <2>8, <2>9, FittedTurn
<1>9. ASSUME NEW g \in Saved \cup {EmptyGraph}, LoadGraph(g) PROVE Fitted'
  <2>1. Turned(NodesOf(g), EdgesOf(g)) BY <1>9, LoadGraphFacts
  <2>2. UNCHANGED <<clipboard, request, result, dialog>> BY <1>9 DEF LoadGraph, runs
  <2>3. Drawn(g) BY CanvasAssumption, EmptyGraphFacts DEF Drawn
  <2>4. \A e \in EdgesOf(g) : Fits(e.source, e.target) BY <2>3 DEF Drawn
  <2> QED BY <2>1, <2>2, <2>4, FittedTurn
<1>10. ASSUME NEW S \in Selections, CopySelected(S) PROVE Fitted'
  <2>1. clipboard' = Restricted(graph, S) /\ UNCHANGED <<graph, past, future, dialog, request, result>>
    BY <1>10 DEF CopySelected, history, runs
  <2>2. S \in SUBSET NodesOf(graph) BY DEF Selections
  <2>3. EdgesOf(clipboard') \subseteq EdgesOf(graph) BY <1>0, <2>1, <2>2, RestrictedFacts
  <2>4. Drawn(clipboard') BY <1>1, <2>3 DEF Drawn
  <2>5. Around' \subseteq Around \cup {clipboard'} BY <2>1 DEF Around, Held
  <2> QED BY <2>1, <2>4, <2>5 DEF Fitted
<1>11. ASSUME UNCHANGED <<graph, past, future, clipboard>>,
              {request, result}' \subseteq {request, result, graph, NoGraph},
              dialog' = dialog \/ dialog'.asks # "chain"
       PROVE  Fitted'
  <2>1. Around' \subseteq Around BY <1>11 DEF Around, Held
  <2> QED BY <1>11, <2>1 DEF Fitted
<1>12. ASSUME NEW S \in Selections, AskDelete(S) PROVE Fitted'
  <2>1. dialog'.asks = "delete" /\ UNCHANGED <<graph, past, future, clipboard, request, result>>
    BY <1>12 DEF AskDelete, history, runs
  <2> QED BY <1>11, <2>1
<1>13. CASE ConfirmDelete
  <2>1. EdgesOf(graph') = EdgesOf(graph) \ dialog.edges BY <1>13, ConfirmDeleteFacts
  <2>2. PICK unwired \in Graphs : /\ Held' \subseteq Held \cup {graph', unwired}
                                  /\ EdgesOf(unwired) = EdgesOf(graph) \ dialog.edges
    BY <1>13, ConfirmDeleteFacts
  <2>3. dialog' = Closed /\ UNCHANGED <<clipboard, request, result>> BY <1>13 DEF ConfirmDelete, runs
  <2>4. Drawn(graph') /\ Drawn(unwired) BY <1>1, <2>1, <2>2 DEF Drawn
  <2>5. Around' \subseteq Around \cup {graph', unwired} BY <2>2, <2>3 DEF Around
  <2> QED BY <2>3, <2>4, <2>5 DEF Fitted, Closed
<1>14. ASSUME NEW n \in Nodes, AskChain(n) PROVE Fitted'
  <2> DEFINE inputs == Inputs(Active(result), n)
  <2>1. /\ dialog' = [asks |-> "chain", consumer |-> n, inputs |-> inputs]
        /\ UNCHANGED <<graph, past, future, clipboard, request, result>>
        /\ result # NoGraph /\ Kind[n] \notin ModelKinds
        /\ n \in ConfigIds(Config(Active(result))) /\ Siblings(Config(Active(result)), inputs)
    BY <1>14 DEF AskChain, history, runs
  <2>2. \A m \in ToSet(Append(inputs, n)) : Processes(m) BY <1>0, <1>1, <2>1, AdvisedProcess
  <2> HIDE DEF inputs
  <2>3. Around' = Around BY <2>1 DEF Around, Held
  <2>4. dialog'.inputs = inputs /\ dialog'.consumer = n BY <2>1
  <2> QED BY <2>2, <2>3, <2>4 DEF Fitted
<1>15. CASE ConfirmChain
  <2> DEFINE named == ToSet(Append(dialog.inputs, dialog.consumer))
  <2>1. dialog' = Closed /\ UNCHANGED <<clipboard, request, result>> BY <1>15 DEF ConfirmChain, runs
  <2>2. /\ dialog.asks = "chain" /\ dialog.consumer \in Nodes /\ dialog.inputs \in Seq(Nodes)
        /\ \/ /\ graph' = ChainSiblings(graph, dialog.consumer, dialog.inputs)
              /\ Turned(NodesOf(graph), EdgesOf(graph'))
           \/ UNCHANGED <<graph, past, future>>
    BY <1>15, ConfirmChainFacts
  <2>3. CASE UNCHANGED <<graph, past, future>>
    <3>1. dialog'.asks # "chain" BY <2>1 DEF Closed
    <3> QED BY <1>11, <2>1, <2>3, <3>1
  <2>4. CASE /\ graph' = ChainSiblings(graph, dialog.consumer, dialog.inputs)
             /\ Turned(NodesOf(graph), EdgesOf(graph'))
    <3>1. \A e \in EdgesOf(graph') : e \in EdgesOf(graph) \/ {e.source, e.target} \subseteq named
      BY <1>0, <2>2, <2>4, ChainFacts
    <3>2. \A n \in named : Processes(n) BY <2>2 DEF Fitted
    <3> HIDE DEF named
    <3>3. \A e \in EdgesOf(graph') : e \in EdgesOf(graph) \/ Fits(e.source, e.target)
      BY <3>1, <3>2 DEF Processes, Fits, IsModelEndpointViolation
    <3> QED BY <2>1, <2>4, <3>3, FittedTurn
  <2> QED BY <2>2, <2>3, <2>4
<1>16. CASE Undo \/ Redo
  <2>1. Held' \subseteq Held BY <1>0, <1>16, UndoFacts
  <2>2. UNCHANGED <<clipboard, dialog, request, result>> BY <1>16 DEF Undo, Redo, runs
  <2>3. Around' \subseteq Around BY <2>1, <2>2 DEF Around
  <2> QED BY <2>2, <2>3 DEF Fitted
<1>17. CASE Decline \/ HandleRun \/ DropResult \/ RunAnswered
  <2>1. /\ UNCHANGED <<graph, past, future, clipboard>>
        /\ request' \in {request, graph, NoGraph} /\ result' \in {request, result, NoGraph}
        /\ dialog' = dialog \/ dialog'.asks # "chain"
    BY <1>17 DEF Decline, HandleRun, DropResult, RunAnswered, history, runs, Closed
  <2> QED BY <1>11, <2>1
<1>18. CASE UNCHANGED canvasVars
  <2>1. UNCHANGED <<graph, past, future, clipboard, dialog, request, result>>
    BY <1>18 DEF canvasVars, history, runs
  <2> QED BY <1>11, <2>1
<1> QED
  BY <1>2, <1>3, <1>4, <1>5, <1>6, <1>7, <1>8, <1>9, <1>10, <1>12, <1>13, <1>14, <1>15, <1>16, <1>17, <1>18
  DEF CanvasNext

LEMMA CheckedStep ==
  ASSUME Typed, Wired, Checked, [CanvasNext]_canvasVars
  PROVE  Checked'
<1>1. CASE HandleRun
  <2>1. request' = graph /\ Valid(Active(graph)) /\ raced' = raced BY <1>1 DEF HandleRun
  <2>2. ~raced => Intact(graph) BY DEF Wired, Held
  <2> QED BY <2>1, <2>2 DEF Checked
<1>2. ASSUME request' \in {request, NoGraph}, ~raced' => ~raced PROVE Checked'
  BY <1>2 DEF Checked
<1>3. CASE Undo \/ Redo BY <1>2, <1>3 DEF Undo, Redo, runs
<1>4. CASE DropResult \/ RunAnswered BY <1>2, <1>4 DEF DropResult, RunAnswered
<1>5. CASE UNCHANGED canvasVars BY <1>2, <1>5 DEF canvasVars, runs
<1>6. CASE \/ \E n \in Nodes : AddNode(n) \/ SetExecutionMode(n) \/ AskChain(n)
           \/ \E e \in Edges : OnConnect(e) \/ RemoveEdge(e)
           \/ \E S \in Selections : DuplicateSelectedNodes(S) \/ CopySelected(S) \/ AskDelete(S)
           \/ \E g \in Saved \cup {EmptyGraph} : LoadGraph(g)
           \/ UpdateNodeData \/ Paste \/ ConfirmDelete \/ ConfirmChain \/ Decline
  <2>1. UNCHANGED <<request, raced>>
    BY <1>6
    DEF AddNode, SetExecutionMode, AskChain, OnConnect, RemoveEdge, DuplicateSelectedNodes, CopySelected,
        AskDelete, LoadGraph, UpdateNodeData, Paste, ConfirmDelete, ConfirmChain, Decline, runs
  <2> QED BY <1>2, <2>1
<1> QED BY <1>1, <1>3, <1>4, <1>5, <1>6 DEF CanvasNext

\* What a run sends is sound: of the graph that was checked when the run began no
\* loop is sent, nothing without inputs but datasets, no model where data is
\* expected, nothing that learns upstream of a splitter; and, unless nodes were
\* chained that were no siblings, nothing is left out but recipes of ensembles.
THEOREM RunsSendSoundPipelines == CanvasSpec => []RunsAreSound
<1> DEFINE Inv == Typed /\ Wired /\ Loopless /\ Fitted /\ Checked
<1>1. CanvasInit => Inv BY TypedInit, WiredInit, LooplessInit, FittedInit
<1>2. Inv /\ [CanvasNext]_canvasVars => Inv' BY TypedStep, WiredStep, LooplessStep, FittedStep, CheckedStep
<1>3. Inv => RunsAreSound
  <2> SUFFICES ASSUME Inv, request # NoGraph, ~raced
               PROVE  LET g == Active(request)
                          config == Config(g)
                          sent == ConfigIds(config)
                          needs(n) == InputsIn(config, n)
                      IN /\ \A n \in sent : n \notin Closure(needs(n), needs)
                         /\ \A n \in sent : /\ needs(n) = {} <=> Kind[n] = "dataset"
                                            /\ \A m \in needs(n) : Kind[m] # "classifier"
                         /\ \A n \in sent \cap Learners : \A m \in sent : Leads(g, n, m) => Kind[m] # "splitter"
                         /\ ~looped => /\ sent = {n \in NodesOf(g) : ~SpecOnly(g, n)}
                                       /\ \A n \in sent : needs(n) \subseteq sent
    BY DEF RunsAreSound
  <2>1. request \in Graphs BY TypedFacts
  <2>2. Intact(request) /\ Valid(Active(request)) BY DEF Checked
  <2>3. request \in Around BY DEF Around
  <2>4. Drawn(request) BY <2>3 DEF Fitted
  <2>5. ~looped => Acyclic(request) BY <2>3 DEF Loopless
  <2> DEFINE g == Active(request)
             config == Config(g)
             sent == ConfigIds(config)
  <2>6. /\ \A n \in sent : n \notin Needed(config, InputsIn(config, n))
        /\ \A n \in sent : /\ InputsIn(config, n) = {} <=> Kind[n] = "dataset"
                           /\ \A m \in InputsIn(config, n) : Kind[m] # "classifier"
        /\ \A n \in sent \cap Learners : \A m \in sent : Leads(g, n, m) => Kind[m] # "splitter"
        /\ ~looped => /\ sent = {n \in NodesOf(g) : ~SpecOnly(g, n)}
                      /\ \A n \in sent : InputsIn(config, n) \subseteq sent
    BY <2>1, <2>2, <2>4, <2>5, SentIsSound
  <2> HIDE DEF config
  <2>7. \A n \in sent : n \notin LET needs(m) == InputsIn(config, m) IN Closure(needs(n), needs)
    BY <2>6 DEF Needed, Closure
  <2> QED BY <2>6, <2>7 DEF config
<1> QED BY <1>1, <1>2, <1>3, PTL DEF CanvasSpec

-----------------------------------------------------------------------------
(* Letters.                                                                *)

LEMMA LettersStep == [LettersNext]_lettersVars => [CanvasNext]_canvasVars
BY DEF LettersNext, Remount, lettersVars

\* A canvas that is lettered is edited as before: what is proved of the canvas above
\* holds of it.
THEOREM LetteredCanvas == LettersSpec => CanvasSpec
<1>1. LettersInit => CanvasInit BY DEF LettersInit
<1> QED BY <1>1, LettersStep, PTL DEF LettersSpec, CanvasSpec

\* The modes the letters are computed from are those of nodes.
THEOREM LettersAreTyped == LettersSpec => []LettersTypeOK
<1> DEFINE Inv == Typed /\ modes \subseteq Nodes
<1>1. LettersInit => Inv BY TypedInit DEF LettersInit
<1>2. ASSUME Inv, [LettersNext]_lettersVars PROVE Inv'
  <2>1. Typed' BY <1>2, LettersStep, TypedStep
  <2>2. graph' \in Graphs BY <2>1 DEF Typed, CanvasTypeOK
  <2>3. graph'.parallel \subseteq Nodes BY <2>2 DEF Graphs
  <2>4. Typed BY <1>2
  <2>5. graph.parallel \subseteq Nodes BY <2>4 DEF Typed, CanvasTypeOK, Graphs
  <2>6. modes' \in {modes, graph.parallel, graph'.parallel}
    BY <1>2 DEF LettersNext, Rerender, Remount, lettersVars
  <2> QED BY <1>2, <2>1, <2>3, <2>5, <2>6
<1>3. Inv => LettersTypeOK BY DEF Typed, LettersTypeOK
<1> QED BY <1>1, <1>2, <1>3, PTL DEF LettersSpec
=============================================================================
