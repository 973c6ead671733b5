--------------------------- MODULE MCPilotRequests ---------------------------
(* Instances of PilotRequests for TLC.                                       *)
EXTENDS PilotRequests, TLC

CONSTANTS b1, b2, l1, v1, v2

All == {b1, b2, l1, v1, v2}
KindOfAll == [r \in All |-> CASE r \in {b1, b2} -> "bootstrap" [] r = l1 -> "logout"
                              [] OTHER -> "review"]

(* An ayah long practised, its schedule near both of its ends.               *)
Practised == {[easinessFactor |-> 138, intervalDays |-> 3000, repetitions |-> 12]}

(* Two exchanges of the invitation; two reviews beside a logout.             *)
Visits == {{b1, b2, v} : v \in {v1, v2}} \cup {{b, l1, v1, v2} : b \in {b1, b2}}

Lives == {-1, 2, 9}
Qualities == {2, 3, 9}

Alike == Permutations({b1, b2}) \cup Permutations({v1, v2})
=============================================================================
