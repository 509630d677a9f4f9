-------------------------- MODULE VersionSequence --------------------------
(***************************************************************************)
(* What version allocation promises: the versions of a (dataset, model     *)
(* type) pair are given out one after the other, each in one atomic step   *)
(* and to one call, continuing the sequence of the jobs that are older     *)
(* than the counter table.  VersionAllocation implements it.               *)
(***************************************************************************)
EXTENDS Naturals

CONSTANTS Keys, Calls, KeyOf, LegacyMax

VARIABLES
  last,   \* the last version of each pair
  given   \* the version each call was given, 0 before

vars == <<last, given>>

Init ==
  /\ last = LegacyMax
  /\ given = [c \in Calls |-> 0]

Take(c) ==
  /\ given[c] = 0
  /\ last' = [last EXCEPT ![KeyOf[c]] = @ + 1]
  /\ given' = [given EXCEPT ![c] = last[KeyOf[c]] + 1]

Next == \E c \in Calls : Take(c)

Spec == Init /\ [][Next]_vars
=============================================================================
