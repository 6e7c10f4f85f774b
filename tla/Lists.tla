------------------------------- MODULE Lists -------------------------------
(***************************************************************************)
(* Lists without some of their elements, in the order they had: what the   *)
(* code writes as list.filter(...).  Written as a recursive function and   *)
(* not with SelectSeq, of which nothing can be proved.                     *)
(***************************************************************************)
EXTENDS Naturals, Sequences

Without(list, dropped) ==
    LET kept[n \in 0 .. Len(list)] ==
            IF n = 0 THEN <<>>
            ELSE IF list[n] \in dropped THEN kept[n - 1]
            ELSE Append(kept[n - 1], list[n])
    IN  kept[Len(list)]
=============================================================================
