-------------------------------- MODULE Relay --------------------------------
(***************************************************************************)
(* What the transfer of a log promises, without saying how: a log grows at *)
(* its end, pieces of it are stored elsewhere, each of them beginning      *)
(* where an earlier piece leaves no gap, and the log is forgotten only up  *)
(* to the end of a stored piece.  Nothing is said of records, retries,     *)
(* limits or crashes.                                                      *)
(*                                                                         *)
(* WlogTransfer implements this specification.                             *)
(***************************************************************************)
EXTENDS Integers

VARIABLES
    end,      \* where the log ends
    pieces,   \* the pieces [b, e) that are stored elsewhere
    low,      \* the log below it is forgotten
    broken    \* the log has outgrown its buffer

vars == <<end, pieces, low, broken>>

Piece == [b : Nat, e : Nat]

TypeOK == end \in Nat /\ pieces \subseteq Piece /\ low \in Nat /\ broken \in BOOLEAN

Init == end = 0 /\ pieces = {} /\ low = 0 /\ broken = FALSE

\* A log that has outgrown its buffer remains broken.
Grow ==
    /\ end' \in Nat /\ end' > end
    /\ broken' \in BOOLEAN /\ (broken => broken')
    /\ UNCHANGED <<pieces, low>>

\* A piece may be stored again, and may overlap earlier ones.
Store ==
    /\ \E b, e \in 0 .. end :
          /\ b <= e
          /\ b = 0 \/ \E p \in pieces : b <= p.e
          /\ pieces' = pieces \cup {[b |-> b, e |-> e]}
    /\ UNCHANGED <<end, low, broken>>

Forget ==
    /\ low' \in Nat /\ low' > low
    /\ \E p \in pieces : low' <= p.e
    /\ UNCHANGED <<end, pieces, broken>>

Next == Grow \/ Store \/ Forget

Spec == Init /\ [][Next]_vars

-----------------------------------------------------------------------------
Stored(l) == \E p \in pieces : p.b <= l /\ l < p.e

\* Whatever has been forgotten is stored elsewhere.
ForgottenIsStored == \A l \in Nat : l < low => Stored(l)

=============================================================================
