------------------------- MODULE MCSimulatedBlocks -------------------------
(* Instances of SimulatedBlocks for TLC. *)
EXTENDS SimulatedBlocks

\* Blocks 1 and 2 take each other's place on a face of block 0.
MCNeighbors == {<<0, 1, 2>>, <<0, 2, 2>>}

\* Bound on changes and events together: a replacement that is undone again, or
\* fewer changes among runs that send, are cut short, or overrun their limit.
MCTogether == writes + events <= 3

MCPredicates == {"neighbor", "neighborCount", "vacant", "tap"}
=============================================================================
