------------------------------- MODULE AppLife -------------------------------
(***************************************************************************)
(* What every application and its scheduler share: the life cycle of       *)
(* BaseApp (set up at the start time, torn down at the stop time, the      *)
(* main timer of the density maps) and IntervalScheduler::scheduleApp,     *)
(* which asks the application for packets or for an amount of data.        *)
(* IntervalScheduler and DynamicScheduler add their generation timer.      *)
(*                                                                         *)
(* Time passes in ticks, the resolution of simulated time.  Events of one  *)
(* tick are handled in the order in which they were scheduled; of the      *)
(* three timers only the order of the life timer and the generation timer  *)
(* matters (`lifeFirst').                                                  *)
(***************************************************************************)
EXTENDS Integers

CONSTANTS
  StartTime,      \* BaseApp.startTime
  StopTime,       \* BaseApp.stopTime, 0 when the application runs forever
  CreationTimes,  \* when the node may be created: pedestrians appear later
  MainInterval,   \* BaseDensityMapApp.mainAppInterval, 0 when deactivated
  MaxPackets,     \* maxNumberPackets, 0 when unlimited
  MaxData,        \* maxData, 0 when unlimited
  Bursts,         \* numberPackets: packets asked for at once
  Amounts,        \* amountOfData: data asked for at once
  MaxTime,        \* sim-time-limit
  Never           \* the time of a timer that is not scheduled

ASSUME LifeAssumption ==
  /\ StartTime \in Nat
  /\ StopTime \in Nat
  /\ StopTime > 0 => StartTime <= StopTime
  /\ CreationTimes \subseteq Nat
  /\ MainInterval \in Nat
  /\ MaxTime \in Nat
  /\ Never \notin Int

(* The node is created before the application's stop time.                 *)
CreatedInTime == StopTime > 0 => \A t \in CreationTimes : t <= StopTime

ASSUME QuotaAssumption ==
  /\ MaxPackets \in Nat
  /\ MaxData \in Nat
  /\ Bursts \subseteq Nat \ {0}
  /\ Amounts \subseteq Nat \ {0}

VARIABLES
  now,          \* simTime()
  state,        \* BaseApp::fsmRoot between two events
  lifeAt,       \* when appLifeTime fires: SETUP in state "init", else TEARDOWN
  mainAt,       \* when mainAppTimer fires
  genAt,        \* when generationTimer fires
  lifeFirst,    \* appLifeTime was scheduled before generationTimer
  stopped,      \* IntervalScheduler::stopScheduling
  sentPackets,  \* IntervalScheduler::sentPackets
  sentData,     \* IntervalScheduler::sentData
  packets,      \* history: the packets the application produced
  data,         \* history: the data it produced when asked for an amount
  fault         \* "error": BaseApp reached its error state, "unset": packets
                \*   were asked for before the set up created the map

life == <<state, lifeAt, mainAt>>
quota == <<stopped, sentPackets, sentData, packets, data>>

Later(s, t) == IF s <= t THEN t ELSE s
AfterStop == StopTime > 0 /\ now > StopTime

-----------------------------------------------------------------------------
(* Initialisation of a node created at time t: handleStartOperation, the   *)
(* main timer of BaseDensityMapApp and the scheduler's counters.           *)
LifeInit(t) ==
  LET start == Later(StartTime, t) IN
  /\ now = t
  /\ state = "init"
  /\ lifeAt = IF StopTime = 0 \/ start <= StopTime THEN start ELSE Never
  /\ mainAt = IF MainInterval > 0 THEN t + StartTime ELSE Never
  /\ lifeFirst = FALSE
  /\ sentPackets = 0
  /\ sentData = 0
  /\ packets = 0
  /\ data = 0
  /\ fault = "none"

(* Time passes when no timer is due.                                       *)
Tick ==
  /\ fault = "none"
  /\ now < MaxTime
  /\ now \notin {lifeAt, mainAt, genAt}
  /\ now' = now + 1
  /\ UNCHANGED <<life, genAt, lifeFirst, quota, fault>>

LifeDue == lifeAt = now /\ ~(genAt = now /\ ~lifeFirst)

(* Fault: the life timer is forgotten by the set up.                       *)
SetUpForever ==
  /\ fault = "none"
  /\ LifeDue
  /\ state = "init"
  /\ state' = "active"
  /\ lifeAt' = Never
  /\ lifeFirst' = FALSE
  /\ UNCHANGED <<now, mainAt, genAt, quota, fault>>

(* BaseApp::fsmSetup: the life timer is scheduled for the tear down.       *)
SetUp ==
  /\ fault = "none"
  /\ LifeDue
  /\ state = "init"
  /\ state' = "active"
  /\ lifeAt' = IF StopTime > 0 THEN StopTime ELSE Never
  /\ lifeFirst' = FALSE
  /\ UNCHANGED <<now, mainAt, genAt, quota, fault>>

(* BaseApp::fsmTeardown                                                    *)
TearDown ==
  /\ fault = "none"
  /\ LifeDue
  /\ state = "active"
  /\ state' = "inactive"
  /\ lifeAt' = Never
  /\ UNCHANGED <<now, mainAt, genAt, lifeFirst, quota, fault>>

(* Fault: the main timer is scheduled before the start operation.          *)
MainTimerFirst ==
  /\ fault = "none"
  /\ mainAt = now
  /\ mainAt' = IF state = "active" THEN now + MainInterval ELSE Never
  /\ fault' = IF state = "init" THEN "error" ELSE fault
  /\ UNCHANGED <<now, state, lifeAt, genAt, lifeFirst, quota>>

(* BaseApp::handleMessage with the main timer: fsmAppMain in WAIT_ACTIVE,  *)
(* nothing in WAIT_INACTIVE, the error state before the set up.  The set   *)
(* up of the same tick was scheduled before.                               *)
MainTimer ==
  /\ fault = "none"
  /\ mainAt = now
  /\ ~(state = "init" /\ lifeAt = now)
  /\ mainAt' = IF state = "active" THEN now + MainInterval ELSE Never
  /\ fault' = IF state = "init" THEN "error" ELSE fault
  /\ UNCHANGED <<now, state, lifeAt, genAt, lifeFirst, quota>>

-----------------------------------------------------------------------------
(* IntervalScheduler::scheduleApp.                                         *)

GenerationDue == genAt = now /\ ~(lifeAt = now /\ lifeFirst)

(* Fault: the quota is tested before the burst is added.                   *)
PacketLimitLate(n) == MaxPackets > 0 /\ sentPackets >= MaxPackets

PacketLimit(n) == MaxPackets > 0 /\ sentPackets + n > MaxPackets
DataLimit(d) == MaxData > 0 /\ sentData + d > MaxData

(* Fault: a burst is counted as one packet.                                *)
AskPacketsUncounted(n, k) ==
  /\ sentPackets' = IF k > 0 THEN sentPackets + 1 ELSE sentPackets
  /\ packets' = packets + k
  /\ UNCHANGED <<sentData, data>>

(* producePackets: n packets are asked for and k are produced, none if the *)
(* application has nothing to send.                                        *)
AskPackets(n, k) ==
  /\ sentPackets' = IF k > 0 THEN sentPackets + n ELSE sentPackets
  /\ packets' = packets + k
  /\ UNCHANGED <<sentData, data>>

(* producePackets with an amount of data, of which k is used.              *)
AskData(k) ==
  /\ sentData' = sentData - k
  /\ data' = data + k
  /\ UNCHANGED <<sentPackets, packets>>

(* scheduleApp; `ends' if the scheduler is about to stop anyway.  Nothing  *)
(* is asked for once a quota does not suffice.                             *)
ScheduleApp(ends) ==
  \/ \E n \in Bursts :
       /\ stopped' = (stopped \/ ends \/ PacketLimit(n))
       /\ IF PacketLimit(n) THEN UNCHANGED <<sentPackets, sentData, packets, data>>
          ELSE \E k \in 0..n : AskPackets(n, k)
  \/ \E d \in Amounts :
       /\ stopped' = (stopped \/ ends \/ DataLimit(d))
       /\ IF DataLimit(d) THEN UNCHANGED <<sentPackets, sentData, packets, data>>
          ELSE \E k \in 0..d : AskData(k)

-----------------------------------------------------------------------------
TimeOrNever == Nat \cup {Never}

LifeTypeOK ==
  /\ now \in Nat
  /\ state \in {"init", "active", "inactive"}
  /\ lifeAt \in TimeOrNever
  /\ mainAt \in TimeOrNever
  /\ genAt \in TimeOrNever
  /\ lifeFirst \in BOOLEAN
  /\ stopped \in BOOLEAN
  /\ sentPackets \in (IF MaxPackets > 0 THEN 0..MaxPackets ELSE Nat)
  /\ sentData \in Int
  /\ packets \in Nat
  /\ data \in Nat
  /\ fault \in {"none", "error", "unset"}

(* The application never has produced more packets than the scheduler may  *)
(* ask for, although the scheduler counts what it asks for and the         *)
(* application decides what it sends (IntervalScheduler::scheduleApp).     *)
PacketQuotaKept == MaxPackets > 0 => packets <= MaxPackets

(* The parameter maxData, "-1 unlimited number of data", limits the data   *)
(* otherwise.                                                              *)
DataQuotaKept == MaxData > 0 => data <= MaxData

(* Packets are asked for only when the application has been set up, though *)
(* its start and the first scheduling are computed by two modules          *)
(* (BaseApp::handleStartOperation, scheduleGenerationTimer).               *)
AppIsSetUp == fault # "unset"

(* "BaseApp schedules start operation first": no timer of the application  *)
(* fires before the set up (BaseDensityMapApp::initialize).                *)
NoErrorState == fault # "error"

Produces == packets' # packets \/ data' # data

(* "Time after which no packet will be send": nothing is produced after    *)
(* the stop time, and at the stop time itself at most by an application    *)
(* that was just torn down.                                                *)
NothingAfterStop ==
  [][Produces => state = "active" \/ now = StopTime]_<<packets, data>>
=============================================================================
