----------------------- MODULE DynamicScheduler_proofs -----------------------
(***************************************************************************)
(* The invariants of DynamicScheduler for any times, intervals, quotas and *)
(* any sequence of lost and regained cells.  PaceInv needs no premise; the *)
(* others hold for an active scheduler that knows its first cell.          *)
(***************************************************************************)
EXTENDS DynamicScheduler, AppLife_proofs, TLAPS

(* The premises of a scheduler in operation.                               *)
InOperation == CreatedInTime /\ StartOffset >= 0 /\ InitialCells \subseteq Nat

IntervalTypeOK ==
  /\ eNBId \in Nat \cup {-1}
  /\ hasSent \in BOOLEAN
  /\ lastTx \in Nat
  /\ prioAt \in Nat \cup {-1}
  /\ curAt \in Nat \cup {-1}
  /\ curRnd \in Nat \cup {-1}

(* What an interval has to be once there was a transmission.               *)
LongEnough(rnd) == Low * MinInterval <= Scale * rnd

(* An interval is computed after each transmission and before the next.    *)
Paced ==
  /\ curAt <= now
  /\ curAt >= 0 => curRnd >= 0
  /\ hasSent => prioAt = lastTx /\ lastTx <= curAt
  /\ hasSent /\ lastTx < curAt => LongEnough(curRnd)

(* Time and stored values, as far as the pace depends on them.             *)
PaceInv ==
  /\ now \in Nat
  /\ IntervalTypeOK
  /\ Paced

-----------------------------------------------------------------------------
LEMMA ProductGrows ==
  ASSUME NEW a \in Nat, NEW b \in Nat, NEW k \in Nat, a <= b
  PROVE  k * a <= k * b
<1>1. k * (b - a) >= 0 /\ k * (b - a) = k * b - k * a
  OBVIOUS
<1> QED
  BY <1>1

LEMMA SumIsTime ==
  ASSUME NEW a \in Int, NEW b \in Nat, NEW n \in Nat, a >= 0 \/ a + b >= n
  PROVE  a + b \in Nat /\ a + b # Never
BY LifeAssumption

LEMMA SumToDifference ==
  ASSUME NEW a \in Nat, NEW b \in Nat, NEW c \in Nat, a + b < c
  PROVE  b < c - a /\ c - a \in Nat /\ a < c
OBVIOUS

LEMMA ProductGrowsStrictly ==
  ASSUME NEW a \in Nat, NEW b \in Nat, NEW k \in Nat \ {0}, a < b
  PROVE  k * a < k * b
<1>1. k * (b - a) > 0 /\ k * (b - a) = k * b - k * a
  OBVIOUS
<1> QED
  BY <1>1

(* Every interval computed after a transmission respects the minimum       *)
(* (computeInterval, getMinTransmissionInterval).                          *)
LEMMA IntervalsLongEnough ==
  ASSUME NEW rnd \in ComputeInterval
  PROVE  /\ rnd \in Nat \ {0}
         /\ hasSent => LongEnough(rnd)
<1>1. PICK c \in Demands : rnd \in RndIntervals(Later(MinTransmissionInterval, c))
  BY DEF ComputeInterval
<1> DEFINE d == Later(MinTransmissionInterval, c)
<1>2. rnd \in Nat \ {0}
  BY <1>1 DEF RndIntervals
<1>3. Low * d <= Scale * rnd
  BY <1>1 DEF RndIntervals
<1>4. ASSUME hasSent
      PROVE  LongEnough(rnd)
  <2>1. d \in Nat /\ MinInterval <= d
    BY <1>4, DynamicAssumption DEF Later, MinTransmissionInterval
  <2>2. Low * MinInterval <= Low * d
    BY <2>1, DynamicAssumption, ProductGrows
  <2>3. Low * MinInterval \in Int /\ Low * d \in Int /\ Scale * rnd \in Int
    BY <1>2, <2>1, DynamicAssumption
  <2> HIDE DEF d
  <2> QED
    BY <1>3, <2>2, <2>3 DEF LongEnough
<1> QED
  BY <1>2, <1>4

(* The interval of this instant, freshly computed or not.                  *)
LEMMA CurrentInterval ==
  ASSUME PaceInv, UpdateCurrent
  PROVE  /\ curAt' = now
         /\ curRnd' \in Nat
         /\ hasSent => prioAt = lastTx /\ (lastTx < now => LongEnough(curRnd'))
<1>1. CASE curAt < now
  BY <1>1, IntervalsLongEnough DEF PaceInv, Paced, UpdateCurrent
<1>2. CASE ~(curAt < now)
  <2>1. curAt = now /\ curAt' = curAt /\ curRnd' = curRnd
    BY <1>2 DEF PaceInv, IntervalTypeOK, Paced, UpdateCurrent
  <2>2. curRnd' \in Nat
    BY <2>1 DEF PaceInv, IntervalTypeOK, Paced
  <2> QED
    BY <2>1, <2>2 DEF PaceInv, Paced
<1> QED
  BY <1>1, <1>2

LEMMA PaceInvInit == Init => PaceInv
<1> SUFFICES ASSUME Init PROVE PaceInv
  OBVIOUS
<1>1. PICK t \in CreationTimes : LifeInit(t)
  BY DEF Init
<1>2. now \in Nat
  BY <1>1, LifeAssumption DEF LifeInit
<1>3. hasSent = FALSE /\ hasSent \in BOOLEAN
  BY DEF Init
<1>4. /\ eNBId \in Nat \cup {-1}
      /\ lastTx = 0
      /\ prioAt \in Nat \cup {-1}
      /\ curAt = -1
      /\ curRnd = -1
  BY <1>2, DynamicAssumption DEF Init
<1>5. IntervalTypeOK
  BY <1>3, <1>4 DEF IntervalTypeOK
<1>6. Paced
  BY <1>2, <1>3, <1>4 DEF Paced
<1> QED
  BY <1>2, <1>5, <1>6 DEF PaceInv

LEMMA PaceInvStep == PaceInv /\ [Next]_vars => PaceInv'
<1> SUFFICES ASSUME PaceInv, [Next]_vars PROVE PaceInv'
  OBVIOUS
<1>1. CASE UNCHANGED intervals /\ eNBId' \in Nat \cup {-1} /\ (now' = now \/ now' = now + 1)
  BY <1>1 DEF PaceInv, IntervalTypeOK, Paced, LongEnough, intervals
<1>2. CASE LifeStep
  <2>1. now' = now \/ now' = now + 1
    BY <1>2 DEF LifeStep, Tick, SetUp, TearDown, MainTimer
  <2> QED
    BY <1>1, <1>2, <2>1 DEF LifeStep, PaceInv, IntervalTypeOK
<1>3. ASSUME NEW i \in Cells, NetworkSignal(i)
      PROVE  PaceInv'
  BY <1>1, <1>3, DynamicAssumption DEF NetworkSignal
<1>4. CASE GenerationTimer /\ Suspend
  BY <1>1, <1>4 DEF GenerationTimer, Suspend, PaceInv, IntervalTypeOK
<1>5. CASE GenerationTimer /\ Fire
  <2>1. now' = now /\ eNBId' = eNBId /\ UpdateCurrent /\ (Wait \/ Transmit)
    BY <1>5 DEF GenerationTimer, Fire
  <2>2. /\ curAt' = now
        /\ curRnd' \in Nat
        /\ hasSent => prioAt = lastTx /\ (lastTx < now => LongEnough(curRnd'))
    BY <2>1, CurrentInterval
  <2>3. CASE Wait
    <3>1. hasSent' = hasSent /\ lastTx' = lastTx /\ prioAt' = prioAt
      BY <2>3 DEF Wait
    <3>2. IntervalTypeOK'
      BY <2>1, <2>2, <3>1 DEF PaceInv, IntervalTypeOK
    <3>3. Paced'
      BY <2>1, <2>2, <3>1 DEF PaceInv, IntervalTypeOK, Paced, LongEnough
    <3> QED
      BY <2>1, <3>2, <3>3 DEF PaceInv
  <2>4. CASE Transmit
    <3>1. hasSent' = TRUE /\ lastTx' = now /\ prioAt' = now
      BY <2>2, <2>4 DEF Transmit
    <3>2. IntervalTypeOK'
      BY <2>1, <2>2, <3>1 DEF PaceInv, IntervalTypeOK
    <3>3. Paced'
      BY <2>1, <2>2, <3>1 DEF PaceInv, Paced
    <3> QED
      BY <2>1, <3>2, <3>3 DEF PaceInv
  <2> QED
    BY <2>1, <2>3, <2>4
<1>6. CASE UNCHANGED vars
  BY <1>1, <1>6 DEF vars, PaceInv, IntervalTypeOK
<1> QED
  BY <1>2, <1>3, <1>4, <1>5, <1>6 DEF Next, GenerationTimer

(* The interval in use was computed after the last transmission.           *)
THEOREM PaceInvariant == Spec => []PaceInv
BY PaceInvInit, PaceInvStep, PTL DEF Spec

(* No sequence of lost and regained cells makes the scheduler transmit     *)
(* before the smallest random interval has passed (handleMessage).         *)
THEOREM SpacingHolds == Spec => SpacingKept
<1>1. ASSUME PaceInv, [Next]_vars
      PROVE  [hasSent /\ (Produces \/ lastTx' # lastTx)
                => Low * MinInterval < Scale * (now - lastTx)]_<<packets, data, lastTx>>
  <2> SUFFICES ASSUME hasSent, Produces \/ lastTx' # lastTx
               PROVE  Low * MinInterval < Scale * (now - lastTx)
    OBVIOUS
  <2>1. Fire /\ Transmit
    BY <1>1 DEF Next, vars, LifeStep, Tick, SetUp, TearDown, MainTimer, NetworkSignal,
      GenerationTimer, Suspend, Fire, Wait, Produces, quota, intervals
  <2>2. /\ curRnd' \in Nat
        /\ prioAt = lastTx
        /\ lastTx < now => LongEnough(curRnd')
    BY <1>1, <2>1, CurrentInterval DEF Fire
  <2>3. lastTx + curRnd' < now
    BY <2>1, <2>2 DEF Transmit
  <2>4. now \in Nat /\ lastTx \in Nat
    BY <1>1 DEF PaceInv, IntervalTypeOK
  <2>5. curRnd' < now - lastTx /\ now - lastTx \in Nat /\ lastTx < now
    BY <2>2, <2>3, <2>4, SumToDifference
  <2>6. Scale * curRnd' < Scale * (now - lastTx)
    BY <2>2, <2>5, DynamicAssumption, ProductGrowsStrictly
  <2>7. Low * MinInterval <= Scale * curRnd'
    BY <2>2, <2>5 DEF LongEnough
  <2>8. Low * MinInterval \in Int /\ Scale * curRnd' \in Int /\ Scale * (now - lastTx) \in Int
    BY <2>2, <2>5, DynamicAssumption
  <2> QED
    BY <2>6, <2>7, <2>8
<1> QED
  BY <1>1, PaceInvariant, PTL DEF Spec, SpacingKept

-----------------------------------------------------------------------------
(* Only a lost cell takes the timer away, and not before the set up.       *)
Suspended == genAt = Never => CheckNetwork /\ eNBId = 0 /\ state # "init"

DynamicInv ==
  /\ CoreInv
  /\ PaceInv
  /\ eNBId \in Nat
  /\ Suspended

LEMMA DynamicInvInit == InOperation /\ Init => DynamicInv
<1> SUFFICES ASSUME InOperation, Init PROVE DynamicInv
  OBVIOUS
<1>1. PICK t \in CreationTimes : LifeInit(t)
  BY DEF Init
<1>2. t \in Nat /\ now = t /\ (StopTime > 0 => t <= StopTime)
  BY <1>1, LifeAssumption DEF LifeInit, InOperation, CreatedInTime
<1>3. ~Deactivated
  BY <1>2, LifeAssumption, DynamicAssumption DEF InOperation, Deactivated, AfterStop
<1>4. PICK rnd \in ComputeInterval : genAt = FirstTime(rnd)
  BY <1>3 DEF Init
<1>5. /\ Later(StartTime, t) \in Nat
      /\ t <= Later(StartTime, t)
      /\ StopTime = 0 \/ Later(StartTime, t) <= StopTime
  BY <1>2, LifeAssumption DEF Later
<1>6. lifeAt = Later(StartTime, t) /\ lifeAt \in Nat /\ now <= lifeAt
  BY <1>1, <1>2, <1>5 DEF LifeInit
<1>7. genAt \in Nat /\ lifeAt < genAt
  BY <1>2, <1>4, <1>5, <1>6, IntervalsLongEnough, DynamicAssumption
  DEF FirstTime, InOperation
<1>8. lifeAt # Never /\ genAt # Never
  BY <1>6, <1>7, LifeAssumption
<1>9. LifeTypeOK
  <2>1. lifeAt \in TimeOrNever /\ mainAt \in TimeOrNever /\ genAt \in TimeOrNever
    BY <1>1, <1>2, <1>6, <1>7, LifeAssumption DEF LifeInit, TimeOrNever
  <2>2. sentPackets \in (IF MaxPackets > 0 THEN 0..MaxPackets ELSE Nat)
    BY <1>1, QuotaAssumption DEF LifeInit
  <2>3. now \in Nat /\ sentData \in Int /\ packets \in Nat /\ data \in Nat
    BY <1>1, <1>2 DEF LifeInit
  <2>4. lifeFirst \in BOOLEAN
    BY <1>1 DEF LifeInit
  <2>5. stopped \in BOOLEAN
    BY DEF Init, Deactivated
  <2>6. state = "init" /\ fault = "none"
    BY <1>1 DEF LifeInit
  <2> QED
    BY <2>1, <2>2, <2>3, <2>4, <2>5, <2>6 DEF LifeTypeOK
<1>10. state = "init" /\ fault = "none" /\ packets = 0 /\ sentPackets = 0
  BY <1>1 DEF LifeInit
<1>11. LifeAhead /\ LifeTimer /\ AskedLater /\ Counted /\ AppIsSetUp
  BY <1>5, <1>6, <1>7, <1>8, <1>10, LifeAssumption
  DEF LifeAhead, LifeTimer, AskedLater, Counted, AppIsSetUp
<1>12. eNBId \in Nat
  BY DEF Init, InOperation
<1> QED
  BY <1>8, <1>9, <1>11, <1>12, PaceInvInit DEF DynamicInv, CoreInv, Suspended

LEMMA DynamicInvStep == DynamicInv /\ [Next]_vars => DynamicInv'
<1> SUFFICES ASSUME DynamicInv, [Next]_vars PROVE DynamicInv'
  OBVIOUS
<1>c. CoreInv /\ LifeTypeOK /\ PaceInv
  BY DEF DynamicInv, CoreInv
<1>p. PaceInv'
  BY <1>c, PaceInvStep
<1>1. CASE LifeStep
  <2>1. CoreInv'
    BY <1>1, <1>c, LifeStepKeepsCore DEF LifeStep
  <2>2. eNBId' \in Nat /\ Suspended'
    BY <1>1 DEF DynamicInv, Suspended, LifeStep, Tick, SetUp, TearDown, MainTimer, life
  <2> QED
    BY <2>1, <2>2, <1>p DEF DynamicInv
<1>2. ASSUME NEW i \in Cells, NetworkSignal(i)
      PROVE  DynamicInv'
  <2>1. i \in Nat /\ eNBId' = i
    BY <1>2, DynamicAssumption DEF NetworkSignal
  <2>2. UNCHANGED <<now, state, lifeAt, mainAt, quota, fault>>
    BY <1>2 DEF NetworkSignal, life
  <2>3. CASE genAt = Never /\ i # 0
    <3>1. eNBId = 0 /\ state # "init"
      BY <2>3 DEF DynamicInv, Suspended
    <3>2. genAt' = now + 1 /\ lifeFirst' = TRUE
      BY <1>2, <2>3, <3>1 DEF NetworkSignal
    <3>3. genAt' \in Nat /\ genAt' # Never
      BY <3>2, <1>c, LifeAssumption DEF LifeTypeOK
    <3>4. LifeTypeOK'
      BY <2>2, <3>2, <3>3, <1>c DEF quota, LifeTypeOK, TimeOrNever
    <3>5. CoreInv'
      BY <2>2, <3>1, <3>4, <1>c DEF quota, CoreInv, LifeAhead, LifeTimer,
        AskedLater, Counted, AppIsSetUp
    <3> QED
      BY <2>1, <3>3, <3>5, <1>p DEF DynamicInv, Suspended
  <2>4. CASE ~(genAt = Never /\ i # 0)
    <3>1. UNCHANGED <<genAt, lifeFirst>>
      BY <1>2, <2>4 DEF NetworkSignal
    <3>2. LifeTypeOK'
      BY <2>2, <3>1, <1>c DEF quota, LifeTypeOK, TimeOrNever
    <3>3. CoreInv'
      BY <2>2, <3>1, <3>2, <1>c DEF quota, CoreInv, LifeAhead, LifeTimer,
        AskedLater, Counted, AppIsSetUp
    <3>4. Suspended'
      BY <2>1, <2>2, <2>4, <3>1 DEF DynamicInv, Suspended
    <3> QED
      BY <2>1, <3>3, <3>4, <1>p DEF DynamicInv
  <2> QED
    BY <2>3, <2>4
<1>3. CASE GenerationTimer
  <2>1. genAt = now /\ now \in Nat /\ state # "init" /\ fault = "none"
    BY <1>3, <1>c, AskedAfterStart DEF GenerationTimer, GenerationDue
  <2>2. UNCHANGED <<now, state, lifeAt, mainAt, eNBId>>
    BY <1>3 DEF GenerationTimer, life
  <2>3. CASE Suspend
    <3>1. genAt' = Never /\ UNCHANGED <<lifeFirst, quota, fault>> /\ NoConnection
      BY <2>3 DEF Suspend
    <3>2. LifeTypeOK'
      BY <2>2, <3>1, <1>c DEF quota, LifeTypeOK, TimeOrNever
    <3>3. CoreInv'
      BY <2>2, <3>1, <3>2, <1>c DEF quota, CoreInv, LifeAhead, LifeTimer,
        AskedLater, Counted, AppIsSetUp
    <3>4. CheckNetwork /\ eNBId = 0
      <4>1. CheckNetwork /\ eNBId <= 0
        BY <3>1 DEF NoConnection
      <4>2. eNBId \in Nat
        BY DEF DynamicInv
      <4> QED
        BY <4>1, <4>2
    <3>5. Suspended'
      BY <2>1, <2>2, <3>4 DEF Suspended
    <3> QED
      BY <2>2, <3>3, <3>5, <1>p DEF DynamicInv
  <2>4. CASE Fire
    <3>1. lifeFirst' = TRUE /\ UpdateCurrent /\ (Wait \/ Transmit)
      BY <2>4 DEF Fire
    <3>2. curRnd' \in Nat
      BY <3>1, <1>c, CurrentInterval
    <3>3. genAt' \in Nat /\ genAt' # Never
      <4>1. prioAt \in Int
        BY <1>c DEF PaceInv, IntervalTypeOK
      <4>2. CASE Wait
        <5>1. genAt' = prioAt + curRnd' /\ prioAt + curRnd' >= now
          BY <4>2 DEF Wait
        <5>2. prioAt + curRnd' \in Nat /\ prioAt + curRnd' # Never
          BY <5>1, <4>1, <3>2, <2>1, SumIsTime
        <5> QED
          BY <5>1, <5>2, Zenon
      <4>3. CASE Transmit
        <5>1. genAt' = now + curRnd'
          BY <4>3 DEF Transmit
        <5>2. now \in Int /\ now >= 0
          BY <2>1
        <5>3. now + curRnd' \in Nat /\ now + curRnd' # Never
          BY <5>2, <3>2, <2>1, SumIsTime
        <5> QED
          BY <5>1, <5>3, Zenon
      <4> QED
        BY <3>1, <4>2, <4>3
    <3>4. /\ stopped' \in BOOLEAN
          /\ sentPackets' \in (IF MaxPackets > 0 THEN 0..MaxPackets ELSE Nat)
          /\ sentData' \in Int
          /\ packets' \in Nat
          /\ data' \in Nat
          /\ packets' <= sentPackets'
      <4>1. CASE Wait
        BY <4>1, <1>c DEF Wait, quota, CoreInv, Counted, LifeTypeOK
      <4>2. CASE Transmit
        <5>1. ScheduleApp(stopped) /\ stopped \in BOOLEAN
          BY <4>2, <2>1, <1>c DEF Transmit, LifeTypeOK
        <5> QED
          BY <5>1, <1>c, ScheduleKeepsQuota DEF CoreInv
      <4> QED
        BY <3>1, <4>1, <4>2
    <3>5. fault' = "none"
      BY <2>1, <3>1 DEF Wait, Transmit
    <3>6. LifeTypeOK'
      BY <2>2, <3>1, <3>3, <3>4, <3>5, <1>c DEF LifeTypeOK, TimeOrNever
    <3>7. CoreInv'
      BY <2>1, <2>2, <3>4, <3>5, <3>6, <1>c DEF CoreInv, LifeAhead, LifeTimer,
        AskedLater, Counted, AppIsSetUp
    <3> QED
      BY <2>2, <3>3, <3>7, <1>p DEF DynamicInv, Suspended
  <2> QED
    BY <1>3, <2>3, <2>4 DEF GenerationTimer
<1>4. CASE UNCHANGED vars
  <2>1. CoreInv' /\ Suspended'
    BY <1>4 DEF DynamicInv, vars, life, quota, CoreInv, LifeTypeOK, TimeOrNever,
      LifeAhead, LifeTimer, AskedLater, Counted, AppIsSetUp, Suspended
  <2> QED
    BY <1>4, <2>1, <1>p DEF DynamicInv, vars
<1> QED
  BY <1>1, <1>2, <1>3, <1>4 DEF Next

(* In operation, the timer is missing only without a serving cell.         *)
THEOREM DynamicInvariant == ASSUME InOperation PROVE Spec => []DynamicInv
BY DynamicInvInit, DynamicInvStep, PTL DEF Spec

(* No variable leaves its type.                                            *)
THEOREM DynamicTypeCorrect == ASSUME InOperation PROVE Spec => []TypeOK
<1>1. DynamicInv => TypeOK
  BY DEF DynamicInv, CoreInv, PaceInv, IntervalTypeOK, TypeOK
<1> QED
  BY <1>1, DynamicInvariant, PTL

(* The application never sends more packets than maxNumberPackets, though  *)
(* this scheduler does not look at stopScheduling.                         *)
THEOREM DynamicQuotaHolds == ASSUME InOperation PROVE Spec => []PacketQuotaKept
<1>1. DynamicInv => PacketQuotaKept
  BY QuotaAssumption DEF DynamicInv, CoreInv, LifeTypeOK, Counted, PacketQuotaKept
<1> QED
  BY <1>1, DynamicInvariant, PTL

(* The scheduler never asks an application that is not set up yet.         *)
THEOREM DynamicAskedAfterSetUp == ASSUME InOperation PROVE Spec => []AppIsSetUp
<1>1. DynamicInv => AppIsSetUp
  BY DEF DynamicInv, CoreInv
<1> QED
  BY <1>1, DynamicInvariant, PTL

(* A scheduler with a serving cell has its timer scheduled.                *)
THEOREM NetworkResumes == ASSUME InOperation PROVE Spec => []ResumedWithNetwork
<1>1. DynamicInv => ResumedWithNetwork
  BY DEF DynamicInv, Suspended, NoConnection, ResumedWithNetwork
<1> QED
  BY <1>1, DynamicInvariant, PTL
=============================================================================
