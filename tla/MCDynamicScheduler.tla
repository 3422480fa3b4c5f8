------------------------- MODULE MCDynamicScheduler -------------------------
(* Model checking of DynamicScheduler under the premises of its proofs:    *)
(* the node is created in time, the scheduler is active, and the first     *)
(* signal of the serving cell came before the first firing.                *)
EXTENDS DynamicScheduler

ASSUME PremisesHold == CreatedInTime /\ StartOffset >= 0 /\ InitialCells \subseteq Nat
=============================================================================
