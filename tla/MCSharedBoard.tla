--------------------------- MODULE MCSharedBoard ----------------------------
(* An update, and a newer one published while it is being installed.      *)
EXTENDS SharedBoard

CONSTANTS v1, v2

MCHeaderLength == [f \in Firmware |-> 1]

Good(v, s) == [version |-> v, sequence |-> s, trusted |-> TRUE, fits |-> TRUE,
               sketch |-> Whole(v), host |-> Nothing]

MCManifests == {Good(v1, 1), Good(v2, 2)}
=============================================================================
