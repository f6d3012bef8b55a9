------------------------------ MODULE Selection ------------------------------
(* Taking elements out of a list, which the source does by a loop that      *)
(* copies or unlinks, and joining lists.  SelectSeq and FlattenSeq would say *)
(* the same; these say it so that it can be reasoned about.                 *)
EXTENDS Integers, Sequences

(* The elements of q at the indices in S, in their order.                   *)
Selected(q, S) ==
    LET among[n \in 0 .. Len(q)] ==
          IF n = 0 THEN <<>>
          ELSE IF n \in S THEN Append(among[n - 1], q[n]) ELSE among[n - 1]
    IN  among[Len(q)]

(* The sequences of q, one after the other.                                 *)
Chained(q) ==
    LET upTo[n \in 0 .. Len(q)] == IF n = 0 THEN <<>> ELSE upTo[n - 1] \o q[n]
    IN  upTo[Len(q)]
=============================================================================
