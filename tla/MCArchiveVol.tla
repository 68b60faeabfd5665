---------------------------- MODULE MCArchiveVol ----------------------------
EXTENDS ArchiveVol, TLC

\* b1 is written before every gid but the second, b2 before the second only.
Log == [g \in 1 .. MaxGid |-> IF g = 2 THEN {b \in Blocks : b = "b2"} ELSE {b \in Blocks : b = "b1"}]
=============================================================================
