---------------------------- MODULE MCGroupedList ----------------------------
(* Three groups, two of them equivalent.  The comparison object given to the *)
(* constructor agrees about that, and has the opposite order.                *)
EXTENDS GroupedList
CONSTANTS g1, g2, g3
MCGroups == {g1, g2, g3}
MCRank == (g1 :> 1) @@ (g2 :> 1) @@ (g3 :> 2)
MCStoredRank == (g1 :> 2) @@ (g2 :> 2) @@ (g3 :> 1)
=============================================================================
