----------------------------- MODULE Collections -----------------------------
(***************************************************************************)
(* Array.prototype.filter, over the set of the elements that pass. It is    *)
(* SelectSeq, written as a recursive function, for the provers can expand a *)
(* recursive function and cannot expand SelectSeq.                          *)
(***************************************************************************)
EXTENDS Integers, Sequences

Filter(s, S) ==
    LET kept[n \in 0..Len(s)] ==
            IF n = 0 THEN <<>>
            ELSE IF s[n] \in S THEN Append(kept[n - 1], s[n]) ELSE kept[n - 1]
    IN  kept[Len(s)]
=============================================================================
