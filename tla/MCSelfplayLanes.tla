-------------------------- MODULE MCSelfplayLanes --------------------------
(* Small instances of SelfplayLanes for TLC. *)
EXTENDS SelfplayLanes

CONSTANTS laneA, laneB

(* One lane plays a second game in the slot of the first, the other plays a *)
(* single game, whose roots have no candidates: nothing is evaluated.       *)
MCRoots == [l \in Lanes |-> IF l = laneA THEN 2 ELSE 1]
MCWaves == [l \in Lanes |-> IF l = laneA THEN 1 ELSE 0]
=============================================================================
