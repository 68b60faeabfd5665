----------------------------- MODULE MCFullRepl -----------------------------
(* An instance of FullRepl with two sources, whose images at the second       *)
(* snapshot differ in the first block.  The last bulk is short; it can be     *)
(* sent at the second snapshot, where it and the end of the buffer are zero,  *)
(* and not at the first.                                                      *)
EXTENDS FullRepl

TwoSources == {"a", "b"}

MCGids == [src \in Sources |-> IF src = "a" THEN {1, 2} ELSE {2}]

MCContent(src, g, blk) ==
    IF blk \in (IF g = 1 THEN {1, 2, 3} ELSE {2, 3, 4}) THEN 0
    ELSE IF src = "b" /\ blk = 0 THEN 20 + g ELSE 10 + g

=============================================================================
