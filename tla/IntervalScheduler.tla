-------------------------- MODULE IntervalScheduler --------------------------
(***************************************************************************)
(* IntervalScheduler and its application: packets are asked for after      *)
(* every generation interval, until the stop time is passed or the quota   *)
(* of packets or of data is used up.                                       *)
(***************************************************************************)
EXTENDS AppLife

CONSTANTS
  Delays,       \* generationInterval: the values it may take, -1 deactivates
  StartOffset   \* startOffset, added to the first interval

ASSUME DelaysAssumption == Delays \subseteq (Nat \ {0}) \cup {-1}
ASSUME OffsetAssumption == StartOffset \in Nat

vars == <<now, life, genAt, lifeFirst, quota, fault>>

(* scheduleGenerationTimer: whether the scheduler stops, or else the time  *)
(* at which it fires again.                                                *)
Ends(d) == d < 0 \/ AfterStop

(* Fault: the interval is counted from now, also before the start.         *)
NextTimeEarly(d) == now + d

NextTime(d) == Later(StartTime, now) + d

(* A node is created; the first firing is scheduled.                       *)
Init ==
  /\ \E t \in CreationTimes : LifeInit(t)
  /\ \E d \in Delays :
       /\ stopped = Ends(d)
       /\ genAt = IF Ends(d) THEN Never ELSE NextTime(d) + StartOffset

(* handleMessage with the generation timer: the stop time is passed, or    *)
(* the application is asked, set up or not, and the next firing scheduled. *)
Expire ==
  /\ AfterStop
  /\ genAt' = Never
  /\ UNCHANGED <<lifeFirst, quota, fault>>

(* Fault: the timer is set again only if packets were produced.            *)
AskOnce(d) ==
  /\ ~AfterStop
  /\ IF state = "init" THEN fault' = "unset" /\ UNCHANGED <<genAt, lifeFirst, quota>>
     ELSE /\ ScheduleApp(Ends(d))
          /\ genAt' = IF stopped' \/ ~Produces THEN Never ELSE NextTime(d)
          /\ lifeFirst' = TRUE
          /\ UNCHANGED fault

Ask(d) ==
  /\ ~AfterStop
  /\ IF state = "init" THEN fault' = "unset" /\ UNCHANGED <<genAt, lifeFirst, quota>>
     ELSE /\ ScheduleApp(Ends(d))
          /\ genAt' = IF stopped' THEN Never ELSE NextTime(d)
          /\ lifeFirst' = TRUE
          /\ UNCHANGED fault

(* Fault: the stop time is tested only when the timer is scheduled.        *)
GenerationTimerUnchecked ==
  /\ fault = "none"
  /\ GenerationDue
  /\ state # "init"
  /\ \E d \in Delays :
       /\ ScheduleApp(Ends(d))
       /\ genAt' = IF stopped' THEN Never ELSE NextTime(d)
  /\ lifeFirst' = TRUE
  /\ UNCHANGED <<now, life, fault>>

GenerationTimer ==
  /\ fault = "none"
  /\ GenerationDue
  /\ Expire \/ \E d \in Delays : Ask(d)
  /\ UNCHANGED <<now, life>>

Next == Tick \/ SetUp \/ TearDown \/ MainTimer \/ GenerationTimer

Spec == Init /\ [][Next]_vars

(* The simulation runs to its time limit.                                  *)
FairSpec == Spec /\ WF_vars(Next)

-----------------------------------------------------------------------------
TypeOK == LifeTypeOK

(* The timer is lost neither at the start nor at a firing without data: as *)
(* long as the application runs and no quota is used up, it will be asked  *)
(* again.                                                                  *)
TimerAlive == state = "active" /\ ~stopped /\ fault = "none" => genAt # Never

(* An application created before its stop time is torn down, and then neither it nor   *)
(* its scheduler leaves a timer behind that fires forever                  *)
(* (BaseApp::fsmTeardown, IntervalScheduler::handleMessage).               *)
FallsSilent ==
  now <= StopTime =>
    <>[](state = "inactive" /\ lifeAt = Never /\ mainAt = Never /\ genAt = Never)
=============================================================================
