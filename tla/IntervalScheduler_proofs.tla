---------------------- MODULE IntervalScheduler_proofs ----------------------
(***************************************************************************)
(* The invariants of IntervalScheduler for any times, delays and quotas.   *)
(* LifeInv adds to what holds of every application that the generation     *)
(* timer waits; MainInv keeps the main timer behind the life timer;        *)
(* TimersEnd bounds how long a timer outlives the stop.                    *)
(***************************************************************************)
EXTENDS IntervalScheduler, AppLife_proofs, TLAPS

(* The generation timer stops only with the scheduler or the application.  *)
Waiting == ~stopped /\ state # "inactive" => genAt # Never

LifeInv == CoreInv /\ Waiting

(* A scheduler that goes on has not met its stop, and the next interval    *)
(* begins neither before now nor before the start.                         *)
LEMMA NextTimeIsLater ==
  ASSUME TypeOK, NEW d \in Delays, ~Ends(d)
  PROVE  /\ NextTime(d) \in Nat
         /\ NextTime(d) # Never
         /\ Later(StartTime, now) < NextTime(d)
BY LifeAssumption, DelaysAssumption
DEF TypeOK, LifeTypeOK, NextTime, Later, Ends

-----------------------------------------------------------------------------
LEMMA LifeInvInit == Init => LifeInv
<1> SUFFICES ASSUME Init PROVE LifeInv
  OBVIOUS
<1>1. PICK t \in CreationTimes : LifeInit(t)
  BY DEF Init
<1>2. PICK d \in Delays :
        /\ stopped = Ends(d)
        /\ genAt = IF Ends(d) THEN Never ELSE NextTime(d) + StartOffset
  BY DEF Init
<1>3. /\ t \in Nat
      /\ now = t
      /\ d \in Int
      /\ Later(StartTime, t) \in Nat
      /\ t <= Later(StartTime, t)
  BY <1>1, LifeAssumption, DelaysAssumption DEF LifeInit, Later
<1>4. ~Ends(d) => /\ genAt \in Nat
                  /\ genAt # Never
                  /\ Later(StartTime, t) < genAt
                  /\ StopTime = 0 \/ Later(StartTime, t) <= StopTime
  BY <1>2, <1>3, LifeAssumption, DelaysAssumption, OffsetAssumption
  DEF Ends, AfterStop, NextTime, Later
<1>5. stopped \in BOOLEAN
  BY <1>2 DEF Ends, AfterStop
<1>6. TypeOK
  <2>1. lifeAt \in TimeOrNever /\ mainAt \in TimeOrNever /\ genAt \in TimeOrNever
    BY <1>1, <1>2, <1>3, <1>4, LifeAssumption DEF LifeInit, TimeOrNever
  <2>2. sentPackets \in (IF MaxPackets > 0 THEN 0..MaxPackets ELSE Nat)
    BY <1>1, QuotaAssumption DEF LifeInit
  <2>3. now \in Nat /\ sentData \in Int /\ packets \in Nat /\ data \in Nat
    BY <1>1, <1>3 DEF LifeInit
  <2>4. lifeFirst \in BOOLEAN
    BY <1>1 DEF LifeInit
  <2>5. state = "init" /\ fault = "none"
    BY <1>1 DEF LifeInit
  <2> QED
    BY <1>5, <2>1, <2>2, <2>3, <2>4, <2>5 DEF TypeOK, LifeTypeOK
<1>7. LifeAhead /\ LifeTimer /\ AskedLater /\ Waiting
  BY <1>1, <1>2, <1>3, <1>4, LifeAssumption
  DEF LifeInit, LifeAhead, LifeTimer, AskedLater, Waiting
<1>8. Counted /\ AppIsSetUp
  BY <1>1 DEF LifeInit, Counted, AppIsSetUp
<1> QED
  BY <1>6, <1>7, <1>8 DEF LifeInv, CoreInv, TypeOK

LEMMA LifeInvStep == LifeInv /\ [Next]_vars => LifeInv'
<1> SUFFICES ASSUME LifeInv, [Next]_vars PROVE LifeInv'
  OBVIOUS
<1>t. CoreInv /\ TypeOK
  BY DEF LifeInv, CoreInv, TypeOK
<1>1. CASE Tick \/ SetUp \/ TearDown \/ MainTimer
  <2>1. CoreInv'
    BY <1>1, <1>t, LifeStepKeepsCore
  <2>2. Waiting'
    BY <1>1 DEF LifeInv, Waiting, Tick, SetUp, TearDown, MainTimer, life, quota
  <2> QED
    BY <2>1, <2>2 DEF LifeInv
<1>2. CASE GenerationTimer /\ Expire
  <2>1. StopTime > 0 /\ now > StopTime /\ now \in Nat
    BY <1>2, <1>t DEF Expire, AfterStop, TypeOK, LifeTypeOK
  <2>2. genAt = now /\ state # "init"
    BY <1>2, <1>t, AskedAfterStart DEF GenerationTimer, GenerationDue
  <2>3. state # "active"
    BY <2>1, <1>t, LifeAssumption DEF CoreInv, LifeTimer, LifeAhead
  <2>4. UNCHANGED <<now, life, lifeFirst, quota, fault>> /\ genAt' = Never
    BY <1>2 DEF GenerationTimer, Expire
  <2>5. LifeTypeOK'
    BY <2>4, <1>t DEF life, quota, TypeOK, LifeTypeOK, TimeOrNever
  <2>6. CoreInv'
    BY <2>4, <2>5, <1>t DEF life, quota, CoreInv, LifeAhead, LifeTimer,
      AskedLater, Counted, AppIsSetUp
  <2>7. state' = "inactive"
    BY <2>2, <2>3, <2>4, <1>t DEF life, TypeOK, LifeTypeOK
  <2> QED
    BY <2>6, <2>7 DEF LifeInv, Waiting
<1>3. ASSUME NEW d \in Delays, GenerationTimer, Ask(d)
      PROVE  LifeInv'
  <2>1. genAt = now /\ state # "init"
    BY <1>3, <1>t, AskedAfterStart DEF GenerationTimer, GenerationDue
  <2>2. /\ ScheduleApp(Ends(d))
        /\ genAt' = IF stopped' THEN Never ELSE NextTime(d)
        /\ lifeFirst' = TRUE
        /\ UNCHANGED <<now, state, lifeAt, mainAt, fault>>
    BY <1>3, <2>1 DEF Ask, GenerationTimer, life
  <2>3. Ends(d) \in BOOLEAN
    BY DEF Ends, AfterStop
  <2>4. Ends(d) => stopped'
    BY <2>2 DEF ScheduleApp
  <2>5. /\ stopped' \in BOOLEAN
        /\ sentPackets' \in (IF MaxPackets > 0 THEN 0..MaxPackets ELSE Nat)
        /\ sentData' \in Int
        /\ packets' \in Nat
        /\ data' \in Nat
        /\ packets' <= sentPackets'
    BY <2>2, <2>3, <1>t, ScheduleKeepsQuota DEF CoreInv
  <2>6. ~stopped' => NextTime(d) \in Nat /\ NextTime(d) # Never
    BY <2>3, <2>4, <1>t, NextTimeIsLater
  <2>7. genAt' \in TimeOrNever
    BY <2>2, <2>6 DEF TimeOrNever
  <2>8. LifeTypeOK'
    BY <2>2, <2>5, <2>7, <1>t DEF TypeOK, LifeTypeOK
  <2>9. CoreInv'
    BY <2>1, <2>2, <2>5, <2>8, <1>t DEF CoreInv, LifeAhead, LifeTimer,
      AskedLater, Counted, AppIsSetUp
  <2>10. Waiting'
    BY <2>2, <2>6 DEF Waiting
  <2> QED
    BY <2>9, <2>10 DEF LifeInv
<1>4. CASE UNCHANGED vars
  BY <1>4 DEF LifeInv, CoreInv, vars, life, quota, LifeTypeOK, TimeOrNever, LifeAhead,
    LifeTimer, AskedLater, Waiting, Counted, AppIsSetUp
<1> QED
  BY <1>1, <1>2, <1>3, <1>4 DEF Next, GenerationTimer

(* The life timer is never missed and always ahead of the generation       *)
(* timer; what is counted is at least what was produced.                   *)
THEOREM LifeInvariant == Spec => []LifeInv
BY LifeInvInit, LifeInvStep, PTL DEF Spec

(* No variable leaves its type, and the count stays within the quota       *)
(* (IntervalScheduler::scheduleApp).                                       *)
THEOREM IntervalTypeCorrect == Spec => []TypeOK
<1>1. LifeInv => TypeOK
  BY DEF LifeInv, CoreInv, TypeOK
<1> QED
  BY <1>1, LifeInvariant, PTL

(* The application never sends more packets than maxNumberPackets.         *)
THEOREM PacketQuotaHolds == Spec => []PacketQuotaKept
<1>1. LifeInv => PacketQuotaKept
  BY QuotaAssumption
  DEF LifeInv, CoreInv, LifeTypeOK, Counted, PacketQuotaKept
<1> QED
  BY <1>1, LifeInvariant, PTL

(* The scheduler never asks an application that is not set up yet.         *)
THEOREM AskedAfterSetUp == Spec => []AppIsSetUp
<1>1. LifeInv => AppIsSetUp
  BY DEF LifeInv, CoreInv
<1> QED
  BY <1>1, LifeInvariant, PTL

(* While application and quota last, the generation timer is scheduled.    *)
THEOREM TimerLives == Spec => []TimerAlive
<1>1. LifeInv => TimerAlive
  BY DEF LifeInv, Waiting, TimerAlive
<1> QED
  BY <1>1, LifeInvariant, PTL

(* Nothing is produced after the stop time: neither the timer of the       *)
(* scheduler nor that of the application is tested for it alone.           *)
THEOREM StopTimeObeyed == Spec => NothingAfterStop
<1>1. ASSUME LifeInv, [Next]_vars
      PROVE  [Produces => state = "active" \/ now = StopTime]_<<packets, data>>
  <2> SUFFICES ASSUME Produces PROVE state = "active" \/ now = StopTime
    OBVIOUS
  <2>1. PICK d \in Delays : GenerationTimer /\ Ask(d)
    BY <1>1 DEF Produces, Next, vars, Tick, SetUp, TearDown, MainTimer,
      GenerationTimer, Expire, life, quota
  <2>2. state # "init"
    BY <1>1, <2>1, AskedAfterStart DEF LifeInv, GenerationTimer, GenerationDue
  <2>3. state = "inactive" => now = StopTime
    BY <1>1, <2>1, LifeAssumption
    DEF LifeInv, CoreInv, LifeTypeOK, LifeTimer, Ask, AfterStop
  <2> QED
    BY <1>1, <2>2, <2>3 DEF LifeInv, CoreInv, LifeTypeOK
<1> QED
  BY <1>1, LifeInvariant, PTL DEF Spec, NothingAfterStop

-----------------------------------------------------------------------------
(* Of a node created in time, the life timer fires no later than the main  *)
(* timer.                                                                  *)
MainInv ==
  /\ NoErrorState
  /\ state = "init" => lifeAt # Never /\ (mainAt # Never => lifeAt <= mainAt)

LEMMA MainInvStep ==
  ASSUME LifeInv, MainInv, [Next]_vars
  PROVE  MainInv'
<1>1. CASE MainTimer
  <2>1. mainAt = now /\ now \in Nat /\ mainAt # Never
    BY <1>1, LifeAssumption DEF LifeInv, CoreInv, MainTimer, LifeTypeOK
  <2>2. state # "init"
    BY <1>1, <2>1, LifeAssumption DEF LifeInv, CoreInv, MainInv, MainTimer,
      LifeAhead, LifeTypeOK, TimeOrNever
  <2> QED
    BY <1>1, <2>2 DEF MainInv, MainTimer, NoErrorState
<1>2. CASE ~MainTimer
  BY <1>2 DEF MainInv, NoErrorState, Next, vars, Tick, SetUp, TearDown,
    GenerationTimer, Expire, Ask, life
<1> QED
  BY <1>1, <1>2

LEMMA MainInvInit == CreatedInTime /\ Init => MainInv
<1> SUFFICES ASSUME CreatedInTime, Init PROVE MainInv
  OBVIOUS
<1>1. PICK t \in CreationTimes : LifeInit(t)
  BY DEF Init
<1>2. t \in Nat /\ (StopTime > 0 => t <= StopTime)
  BY LifeAssumption DEF CreatedInTime
<1>3. /\ Later(StartTime, t) \in Nat
      /\ StopTime = 0 \/ Later(StartTime, t) <= StopTime
      /\ Later(StartTime, t) <= t + StartTime
  BY <1>2, LifeAssumption DEF Later
<1>4. state = "init" /\ lifeAt = Later(StartTime, t) /\ lifeAt \in Nat
  BY <1>1, <1>3 DEF LifeInit
<1>5. mainAt # Never => lifeAt <= mainAt
  BY <1>1, <1>3, <1>4 DEF LifeInit
<1>6. lifeAt # Never /\ NoErrorState
  BY <1>1, <1>4, LifeAssumption DEF LifeInit, NoErrorState
<1> QED
  BY <1>5, <1>6 DEF MainInv

(* The life timer stays in front.                                          *)
LEMMA MainInvariant ==
  ASSUME CreatedInTime
  PROVE  Spec => []MainInv
<1>1. LifeInv /\ MainInv /\ [Next]_vars => MainInv'
  BY MainInvStep
<1> QED
  BY <1>1, MainInvInit, LifeInvariant, PTL DEF Spec

(* Of a node created before its stop time, no timer of the application     *)
(* fires before the set up (BaseDensityMapApp::initialize).                *)
THEOREM SetUpComesFirst ==
  ASSUME CreatedInTime
  PROVE  Spec => []NoErrorState
<1>1. MainInv => NoErrorState
  BY DEF MainInv
<1> QED
  BY <1>1, MainInvariant, PTL

-----------------------------------------------------------------------------
(* What FallsSilent rests on: when the stop time and the longest interval  *)
(* e have passed, nothing is scheduled any more (BaseApp::fsmTeardown,     *)
(* IntervalScheduler::handleMessage, scheduleGenerationTimer).             *)
Silent == state = "inactive" /\ lifeAt = Never /\ mainAt = Never /\ genAt = Never
LastMain == StopTime + Later(StartTime, MainInterval)
LastAsked(e) == StopTime + (StartOffset + e)
SilentInTime(e) == now > LastMain /\ now > LastAsked(e) => Silent

(* The timers are set before the stop, by one interval, and never missed.  *)
TimersEnd(e) ==
  /\ mainAt # Never => now <= mainAt /\ mainAt <= LastMain
  /\ genAt # Never => now <= genAt /\ genAt <= LastAsked(e)
  /\ state = "inactive" => lifeAt = Never

(* A main interval that begins before the stop ends soon after it.         *)
LEMMA LastMainBounds ==
  ASSUME NEW t \in Nat, t <= StopTime
  PROVE  /\ t <= t + StartTime /\ t <= t + MainInterval
         /\ t + StartTime <= LastMain /\ t + MainInterval <= LastMain
<1>1. /\ StartTime <= Later(StartTime, MainInterval)
      /\ MainInterval <= Later(StartTime, MainInterval)
      /\ Later(StartTime, MainInterval) \in Nat
  BY LifeAssumption DEF Later
<1> QED
  BY <1>1, LifeAssumption DEF LastMain

(* An interval that begins before the stop ends soon after it.             *)
LEMMA NextTimeEnds ==
  ASSUME StopTime > 0, NEW e \in Nat, \A d \in Delays : d <= e,
         now \in Nat, NEW d \in Delays, ~Ends(d)
  PROVE  /\ now <= NextTime(d) /\ now <= NextTime(d) + StartOffset
         /\ NextTime(d) <= LastAsked(e) /\ NextTime(d) + StartOffset <= LastAsked(e)
BY LifeAssumption, DelaysAssumption, OffsetAssumption
DEF Ends, AfterStop, NextTime, LastAsked, Later

LEMMA TimersEndInit ==
  ASSUME CreatedInTime, StopTime > 0, NEW e \in Nat, \A d \in Delays : d <= e, Init
  PROVE  TimersEnd(e)
<1>1. PICK t \in CreationTimes : LifeInit(t)
  BY DEF Init
<1>2. PICK d \in Delays :
        /\ stopped = Ends(d)
        /\ genAt = IF Ends(d) THEN Never ELSE NextTime(d) + StartOffset
  BY DEF Init
<1>3. now = t /\ t \in Nat /\ t <= StopTime /\ state = "init"
  BY <1>1, LifeAssumption DEF LifeInit, CreatedInTime
<1>4. mainAt # Never => now <= mainAt /\ mainAt <= LastMain
  <2>1. mainAt # Never => mainAt = t + StartTime
    BY <1>1 DEF LifeInit
  <2> QED
    BY <1>3, <2>1, LastMainBounds
<1>5. genAt # Never => now <= genAt /\ genAt <= LastAsked(e)
  BY <1>2, <1>3, NextTimeEnds
<1> QED
  BY <1>3, <1>4, <1>5 DEF TimersEnd

LEMMA TimersEndStep ==
  ASSUME StopTime > 0, NEW e \in Nat, \A d \in Delays : d <= e,
         LifeInv, MainInv, TimersEnd(e), [Next]_vars
  PROVE  TimersEnd(e)'
<1>1. /\ now \in Nat /\ lifeAt \in TimeOrNever /\ mainAt \in TimeOrNever
      /\ genAt \in TimeOrNever
  BY DEF LifeInv, CoreInv, LifeTypeOK
<1>2. CASE Tick
  <2>1. now' = now + 1 /\ now # mainAt /\ now # genAt
    BY <1>2 DEF Tick
  <2>2. UNCHANGED <<state, lifeAt, mainAt, genAt>>
    BY <1>2 DEF Tick, life
  <2> QED
    BY <1>1, <2>1, <2>2 DEF TimersEnd, TimeOrNever, LastMain, LastAsked
<1>3. CASE SetUp \/ TearDown
  <2>1. UNCHANGED <<now, mainAt, genAt>> /\ (state' = "inactive" => lifeAt' = Never)
    BY <1>3 DEF SetUp, TearDown
  <2> QED
    BY <2>1 DEF TimersEnd, LastMain, LastAsked
<1>4. CASE MainTimer
  <2>1. /\ UNCHANGED <<now, state, lifeAt, genAt>>
        /\ mainAt' = IF state = "active" THEN now + MainInterval ELSE Never
    BY <1>4 DEF MainTimer
  <2>2. state = "active" => now <= StopTime
    BY LifeAssumption DEF LifeInv, CoreInv, LifeAhead, LifeTimer
  <2>3. mainAt' # Never => now <= mainAt' /\ mainAt' <= LastMain
    <3>1. mainAt' # Never => mainAt' = now + MainInterval /\ now <= StopTime
      BY <2>1, <2>2
    <3> QED
      BY <1>1, <3>1, LastMainBounds
  <2> QED
    BY <2>1, <2>3 DEF TimersEnd, LastMain, LastAsked
<1>5. CASE GenerationTimer
  <2>1. UNCHANGED <<now, state, lifeAt, mainAt>>
    BY <1>5 DEF GenerationTimer, life
  <2>2. genAt' # Never => now <= genAt' /\ genAt' <= LastAsked(e)
    <3>1. CASE Expire
      BY <3>1 DEF Expire
    <3>2. ASSUME NEW d \in Delays, Ask(d), genAt' # Never
          PROVE  now <= genAt' /\ genAt' <= LastAsked(e)
      <4>1. state # "init"
        BY <1>5, AskedAfterStart DEF LifeInv, GenerationTimer, GenerationDue
      <4>2. ScheduleApp(Ends(d)) /\ ~stopped' /\ genAt' = NextTime(d)
        BY <3>2, <4>1 DEF Ask
      <4>3. ~Ends(d)
        BY <4>2 DEF ScheduleApp
      <4> QED
        BY <1>1, <4>2, <4>3, NextTimeEnds
    <3> QED
      BY <1>5, <3>1, <3>2 DEF GenerationTimer
  <2> QED
    BY <2>1, <2>2 DEF TimersEnd, LastMain, LastAsked
<1>6. CASE UNCHANGED vars
  BY <1>6 DEF vars, life, TimersEnd, LastMain, LastAsked
<1> QED
  BY <1>2, <1>3, <1>4, <1>5, <1>6 DEF Next

(* Within the longest interval after the stop, the application is torn     *)
(* down and no timer is left.                                              *)
THEOREM SilenceHolds ==
  ASSUME CreatedInTime, StopTime > 0, NEW e \in Nat, \A d \in Delays : d <= e
  PROVE  Spec => []SilentInTime(e)
<1>1. Init => TimersEnd(e)
  BY TimersEndInit
<1>2. LifeInv /\ MainInv /\ TimersEnd(e) /\ [Next]_vars => TimersEnd(e)'
  BY TimersEndStep
<1>3. LifeInv /\ MainInv /\ TimersEnd(e) => SilentInTime(e)
  <2> SUFFICES ASSUME LifeInv, MainInv, TimersEnd(e), now > LastMain, now > LastAsked(e)
               PROVE  Silent
    BY DEF SilentInTime
  <2>1. /\ now \in Nat /\ mainAt \in TimeOrNever /\ genAt \in TimeOrNever
        /\ lifeAt \in TimeOrNever /\ state \in {"init", "active", "inactive"}
    BY DEF LifeInv, CoreInv, LifeTypeOK
  <2>2. LastMain \in Nat /\ LastAsked(e) \in Nat /\ StopTime <= LastMain
    BY LifeAssumption, OffsetAssumption DEF LastMain, LastAsked, Later
  <2>3. mainAt = Never /\ genAt = Never
    BY <2>1, <2>2 DEF TimersEnd, TimeOrNever
  <2>4. state = "inactive"
    BY <2>1, <2>2, LifeAssumption
    DEF LifeInv, CoreInv, LifeAhead, LifeTimer, MainInv, TimeOrNever
  <2> QED
    BY <2>3, <2>4 DEF TimersEnd, Silent
<1> QED
  BY <1>1, <1>2, <1>3, LifeInvariant, MainInvariant, PTL DEF Spec
=============================================================================
