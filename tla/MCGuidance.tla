------------------------------ MODULE MCGuidance ------------------------------
(* Model checking of Guidance: all controllers, two routes, two            *)
(* pedestrians that come and go, and calls whose times are no multiples of *)
(* the step of the coupling.                                               *)
EXTENDS Guidance

CONSTANTS p1, p2

MCStrategies == Controllers
MCPersons == {p1, p2}
=============================================================================
