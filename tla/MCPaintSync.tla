----------------------------- MODULE MCPaintSync -----------------------------
(***************************************************************************)
(* The arena of the run of PaintSync: two chunks of one cell, of which one *)
(* counts for the score, and counts double.                                *)
(***************************************************************************)
EXTENDS PaintSync

ArenaChunkOf == [x \in Cells |-> IF x = 3 THEN 2 ELSE 1]
ArenaWeight == [x \in Cells |-> IF x = 1 THEN 2 ELSE 1]

=============================================================================
