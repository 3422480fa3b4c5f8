--------------------------- MODULE AppLife_proofs ---------------------------
(***************************************************************************)
(* What holds of every application whatever its scheduler: CoreInv follows *)
(* the life timer and keeps it ahead of the generation timer.  Two classes *)
(* compute when the application starts and when it is asked, so neither    *)
(* fact can be read off one of them.                                       *)
(***************************************************************************)
EXTENDS AppLife, TLAPS

(* No timer of the life cycle is missed.                                   *)
LifeAhead == lifeAt # Never => now <= lifeAt

(* The life timer waits for the start, then for the stop.                  *)
LifeTimer ==
  /\ state = "init" /\ lifeAt # Never /\ StopTime > 0 => lifeAt <= StopTime
  /\ state = "active" => lifeAt = IF StopTime > 0 THEN StopTime ELSE Never
  /\ state = "inactive" => StopTime > 0 /\ StopTime <= now

(* Before the set up, the generation timer is behind the life timer.       *)
AskedLater ==
  state = "init" /\ genAt # Never => lifeAt # Never /\ lifeAt < genAt

(* The application never produced more than was counted.                   *)
Counted == packets <= sentPackets

CoreInv ==
  /\ LifeTypeOK
  /\ LifeAhead
  /\ LifeTimer
  /\ AskedLater
  /\ Counted
  /\ AppIsSetUp

-----------------------------------------------------------------------------
(* Scheduling the application counts at least what it produces, and never  *)
(* more than the quota allows (IntervalScheduler::scheduleApp).            *)
LEMMA ScheduleKeepsQuota ==
  ASSUME LifeTypeOK, Counted, NEW ends \in BOOLEAN, ScheduleApp(ends)
  PROVE  /\ stopped' \in BOOLEAN
         /\ sentPackets' \in (IF MaxPackets > 0 THEN 0..MaxPackets ELSE Nat)
         /\ sentData' \in Int
         /\ packets' \in Nat
         /\ data' \in Nat
         /\ packets' <= sentPackets'
<1>1. ASSUME NEW n \in Bursts,
             stopped' = (stopped \/ ends \/ PacketLimit(n)),
             IF PacketLimit(n) THEN UNCHANGED <<sentPackets, sentData, packets, data>>
             ELSE \E k \in 0..n : AskPackets(n, k)
      PROVE  /\ sentPackets' \in (IF MaxPackets > 0 THEN 0..MaxPackets ELSE Nat)
             /\ sentData' \in Int
             /\ packets' \in Nat
             /\ data' \in Nat
             /\ packets' <= sentPackets'
  <2>1. CASE PacketLimit(n)
    BY <1>1, <2>1 DEF LifeTypeOK, Counted
  <2>2. CASE ~PacketLimit(n)
    <3>1. PICK k \in 0..n : AskPackets(n, k)
      BY <1>1, <2>2
    <3>2. n \in Nat \ {0}
      BY QuotaAssumption
    <3> QED
      BY <3>1, <3>2, <2>2, QuotaAssumption
      DEF AskPackets, PacketLimit, LifeTypeOK, Counted
  <2> QED
    BY <2>1, <2>2
<1>2. ASSUME NEW d \in Amounts,
             stopped' = (stopped \/ ends \/ DataLimit(d)),
             IF DataLimit(d) THEN UNCHANGED <<sentPackets, sentData, packets, data>>
             ELSE \E k \in 0..d : AskData(k)
      PROVE  /\ sentPackets' \in (IF MaxPackets > 0 THEN 0..MaxPackets ELSE Nat)
             /\ sentData' \in Int
             /\ packets' \in Nat
             /\ data' \in Nat
             /\ packets' <= sentPackets'
  <2>1. CASE DataLimit(d)
    BY <1>2, <2>1 DEF LifeTypeOK, Counted
  <2>2. CASE ~DataLimit(d)
    <3>1. PICK k \in 0..d : AskData(k)
      BY <1>2, <2>2
    <3>2. d \in Nat \ {0}
      BY QuotaAssumption
    <3> QED
      BY <3>1, <3>2 DEF AskData, LifeTypeOK, Counted
  <2> QED
    BY <2>1, <2>2
<1>3. stopped' \in BOOLEAN
  BY DEF ScheduleApp, PacketLimit, DataLimit
<1> QED
  BY <1>1, <1>2, <1>3 DEF ScheduleApp

(* A generation timer that fires finds the application set up              *)
(* (BaseApp::handleStartOperation, scheduleGenerationTimer).               *)
LEMMA AskedAfterStart ==
  ASSUME CoreInv, genAt = now
  PROVE  now \in Nat /\ genAt # Never /\ state # "init"
<1>1. now \in Nat /\ genAt # Never
  BY LifeAssumption DEF CoreInv, LifeTypeOK
<1> QED
  BY <1>1 DEF CoreInv, AskedLater, LifeAhead, LifeTypeOK, TimeOrNever

(* The events of the life cycle disturb none of it (BaseApp::handleMessage). *)
LEMMA LifeStepKeepsCore ==
  ASSUME CoreInv, Tick \/ SetUp \/ TearDown \/ MainTimer
  PROVE  CoreInv'
<1>t. LifeTypeOK
  BY DEF CoreInv
<1>1. CASE Tick
  <2>1. LifeTypeOK'
    BY <1>1, <1>t DEF Tick, life, quota, LifeTypeOK, TimeOrNever
  <2>2. LifeAhead' /\ LifeTimer'
    BY <1>1, <1>t, LifeAssumption
    DEF CoreInv, Tick, life, LifeAhead, LifeTimer, LifeTypeOK, TimeOrNever
  <2>3. AskedLater' /\ Counted' /\ AppIsSetUp'
    BY <1>1 DEF CoreInv, Tick, life, quota, AskedLater, Counted, AppIsSetUp
  <2> QED
    BY <2>1, <2>2, <2>3 DEF CoreInv
<1>2. CASE SetUp
  <2>1. lifeAt = now /\ lifeAt # Never /\ now \in Nat
    BY <1>2, <1>t, LifeAssumption DEF SetUp, LifeDue, LifeTypeOK
  <2>2. LifeTypeOK'
    BY <1>2, <1>t, LifeAssumption DEF SetUp, quota, LifeTypeOK, TimeOrNever
  <2>3. LifeAhead' /\ LifeTimer'
    BY <1>2, <2>1, LifeAssumption DEF CoreInv, SetUp, LifeAhead, LifeTimer
  <2>4. AskedLater' /\ Counted' /\ AppIsSetUp'
    BY <1>2 DEF CoreInv, SetUp, quota, AskedLater, Counted, AppIsSetUp
  <2> QED
    BY <2>2, <2>3, <2>4 DEF CoreInv
<1>3. CASE TearDown
  <2>1. lifeAt = now /\ lifeAt # Never /\ now \in Nat
    BY <1>3, <1>t, LifeAssumption DEF TearDown, LifeDue, LifeTypeOK
  <2>2. LifeTypeOK'
    BY <1>3, <1>t DEF TearDown, quota, LifeTypeOK, TimeOrNever
  <2>3. StopTime > 0 /\ StopTime <= now
    BY <1>3, <2>1 DEF CoreInv, TearDown, LifeTimer
  <2>4. LifeAhead' /\ LifeTimer'
    BY <1>3, <2>3 DEF TearDown, LifeAhead, LifeTimer
  <2>5. AskedLater' /\ Counted' /\ AppIsSetUp'
    BY <1>3 DEF CoreInv, TearDown, quota, AskedLater, Counted, AppIsSetUp
  <2> QED
    BY <2>2, <2>4, <2>5 DEF CoreInv
<1>4. CASE MainTimer
  <2>1. LifeTypeOK'
    BY <1>4, <1>t, LifeAssumption
    DEF MainTimer, quota, LifeTypeOK, TimeOrNever
  <2>2. LifeAhead' /\ LifeTimer' /\ AskedLater' /\ Counted' /\ AppIsSetUp'
    BY <1>4 DEF CoreInv, MainTimer, quota, LifeAhead, LifeTimer, AskedLater,
      Counted, AppIsSetUp
  <2> QED
    BY <2>1, <2>2 DEF CoreInv
<1> QED
  BY <1>1, <1>2, <1>3, <1>4
=============================================================================
