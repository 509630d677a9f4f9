------------------------ MODULE MCVersionAllocation ------------------------
(***************************************************************************)
(* Instance: three training calls race on one pair that has two jobs older *)
(* than the counter table; a preview call runs beside them.                *)
(***************************************************************************)
EXTENDS VersionAllocation, TLC
CONSTANTS k1, k2, c1, c2, c3, c4

MCKeyOf == c1 :> k1 @@ c2 :> k1 @@ c3 :> k1 @@ c4 :> k2
MCLegacyMax == k1 :> 2 @@ k2 :> 0
=============================================================================
