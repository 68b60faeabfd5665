------------------------- MODULE MCGidRangeManager -------------------------
EXTENDS GidRangeManager

CONSTANT MaxGid

Clean == {Snap(g, g) : g \in 0 .. MaxGid}

\* All the clean diffs, and a dirty one with the gids of a clean one.
AllDiffs ==
    {d \in [snapB : Clean, snapE : Clean] : Progresses(d.snapB, d.snapE)}
        \cup {[snapB |-> Snap(0, 1), snapE |-> Snap(2, 2)]}
=============================================================================
