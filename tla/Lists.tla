-------------------------------- MODULE Lists --------------------------------
(***************************************************************************)
(* Filtering of arrays.                                                    *)
(***************************************************************************)
EXTENDS Naturals, Sequences

\* The elements at some of the positions of a list, in their order.
Picked(s, I) ==
  LET upTo[k \in 0 .. Len(s)] ==
        IF k = 0 THEN << >> ELSE IF k \in I THEN Append(upTo[k - 1], s[k]) ELSE upTo[k - 1]
  IN upTo[Len(s)]

\* Array.filter, by membership.
Filtered(s, S) == Picked(s, {i \in 1 .. Len(s) : s[i] \in S})

\* Each element where it is first met.
Distinct(s) == Picked(s, {i \in 1 .. Len(s) : \A k \in 1 .. i - 1 : s[k] # s[i]})
=============================================================================
