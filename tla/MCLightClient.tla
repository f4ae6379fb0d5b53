--------------------------- MODULE MCLightClient ---------------------------
(***************************************************************************)
(* A chain of five epochs whose validator sets have one to five members,   *)
(* so that trees of every shape up to five leaves occur.                   *)
(***************************************************************************)
EXTENDS LightClient

CONSTANTS v1, v2, v3, v4, v5

MCValidators == {v1, v2, v3, v4, v5}
MCMembersOf == [e \in 0..4 |-> CASE e = 0 -> <<v1, v2, v3>>
                                 [] e = 1 -> <<v1, v2, v3, v4, v5>>
                                 [] e = 2 -> <<v2>>
                                 [] e = 3 -> <<v1, v2, v4, v5>>
                                 [] e = 4 -> <<v3, v2>>]
MCStake == [v \in MCValidators |-> IF v = v2 THEN 3 ELSE 1]
=============================================================================
