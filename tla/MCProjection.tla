---------------------------- MODULE MCProjection ----------------------------
(***************************************************************************)
(* Small instances of Projection: two aggregates whose enums share a kind. *)
(***************************************************************************)
EXTENDS Projection

CONSTANTS s1, s2,  \* streams
          k1, k2   \* event kinds

Sums == {<<k1, k2>>, <<k2>>}
SumOf == [s \in Streams |-> IF s = s1 THEN <<k1, k2>> ELSE <<k2>>]
=============================================================================
