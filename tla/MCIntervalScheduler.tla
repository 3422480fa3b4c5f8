------------------------ MODULE MCIntervalScheduler ------------------------
(* Model checking of IntervalScheduler: intervals of one and two ticks, or *)
(* a negative one, which deactivates the scheduler.  The proofs need the    *)
(* same premise.                                                           *)
EXTENDS IntervalScheduler

ASSUME PremiseHolds == CreatedInTime

MCDelays == {-1, 1, 2}
=============================================================================
