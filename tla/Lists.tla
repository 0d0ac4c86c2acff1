-------------------------------- MODULE Lists --------------------------------
(***************************************************************************)
(* The loop over a std::list that both classes of idle threads are         *)
(* cancelled with.  It is a recursive function, which TLAPS can expand.    *)
(***************************************************************************)
EXTENDS Naturals, Sequences

(* The list without the elements of S: while (it != end()) if (..)           *)
(* erase(it++); else it++.                                                   *)
Without(q, S) ==
    LET kept[n \in 0..Len(q)] ==
            IF n = 0 THEN <<>>
            ELSE IF q[n] \in S THEN kept[n - 1]
            ELSE Append(kept[n - 1], q[n])
    IN  kept[Len(q)]
=============================================================================
