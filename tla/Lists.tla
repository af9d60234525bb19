--------------------------------- MODULE Lists ---------------------------------
(***************************************************************************)
(* A loop over a list that keeps some of its entries, as the parsers and   *)
(* apply_status have it.  (A recursive function, so that it can be proved  *)
(* about.)                                                                 *)
(***************************************************************************)
EXTENDS Naturals, Sequences

\* The entries of s at the places the loop's condition holds for, in their order.
Entries(s, places) ==
    LET kept[n \in 0..Len(s)] ==
            IF n = 0 THEN <<>>
            ELSE IF n \in places THEN Append(kept[n - 1], s[n])
            ELSE kept[n - 1]
    IN  kept[Len(s)]
===============================================================================
