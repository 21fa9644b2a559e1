------------------------------- MODULE Slices -------------------------------
(***************************************************************************)
(* The slice helpers of internal/util/slices.go that controllers edit and  *)
(* compare lists with.                                                     *)
(***************************************************************************)
EXTENDS Naturals, Sequences

Contains(x, v) == \E i \in DOMAIN x : x[i] = v

(* Every v is taken out of x, and the order of the others kept.            *)
Without(x, v) ==
    LET ret[i \in 0..Len(x)] ==
          IF i = 0 THEN <<>>
          ELSE IF x[i] = v THEN ret[i - 1] ELSE Append(ret[i - 1], x[i])
    IN  ret[Len(x)]

(* Equal lengths, and every element of y is in x: equality up to order as  *)
(* long as y has no repetitions.                                           *)
Equivalent(x, y) == /\ Len(x) = Len(y)
                    /\ \A i \in DOMAIN y : Contains(x, y[i])
=============================================================================
