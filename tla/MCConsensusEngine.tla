------------------------- MODULE MCConsensusEngine -------------------------
(* Small validator sets for ConsensusEngine. *)
EXTENDS ConsensusEngine

CONSTANTS v1, v2, v3, v4,
          key1, key2  \* a validator's first key, and one it rotates to

\* Validators with one unit of stake each, in the set's order.
SetOf(order, active, rotated) ==
  [members |->
     [id \in {order[i] : i \in 1..Len(order)} |->
        [consensus_key |-> <<id, IF id \in rotated THEN key2 ELSE key1>>,
         bonded_stake |-> 1,
         status |-> IF id \in active THEN "Active" ELSE "Standby"]],
   order |-> order, total_stake |-> Cardinality(active)]

ThreeActive == SetOf(<<v1, v2, v3>>, {v1, v2, v3}, {})

\* v2 has rotated its key and v4 has taken the place of v3.
LaterSet == SetOf(<<v1, v2, v3, v4>>, {v1, v2, v4}, {v2})

NoSets == {}
LaterSets == {LaterSet}

OneKey == [id \in ValidatorIDs |-> {<<id, key1>>}]
RotatedKeys ==
  [id \in ValidatorIDs |->
     IF id = v2 THEN {<<id, key1>>, <<id, key2>>} ELSE {<<id, key1>>}]
=============================================================================
