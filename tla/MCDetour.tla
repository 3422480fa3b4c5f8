------------------------------- MODULE MCDetour -------------------------------
(* Model checking of Detour: two sources, which also repeat each other's   *)
(* news, and a pedestrian.  The second incident closes the alternative of  *)
(* the first one.  The first incident is repeated twice, within its repeat *)
(* time; the second one once, after it.                                    *)
EXTENDS Detour

CONSTANTS s1, s2, p1, fire, flood, a, b, c

MCNodes == {s1, s2, p1}
MCSource == [r \in Reasons |-> IF r = fire THEN s1 ELSE s2]
MCIncidentTime == [r \in Reasons |-> IF r = fire THEN 1 ELSE 2]
MCClosedTarget == [r \in Reasons |-> IF r = fire THEN a ELSE b]
MCAlternativeRoute == [r \in Reasons |-> IF r = fire THEN {b} ELSE {c}]
MCRepeatTime == [r \in Reasons |-> IF r = fire THEN 3 ELSE 1]
MCRepeatInterval == [r \in Reasons |-> IF r = fire THEN 1 ELSE 2]
MCRoutes == {{a}}
=============================================================================
