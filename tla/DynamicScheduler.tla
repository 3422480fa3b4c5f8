-------------------------- MODULE DynamicScheduler --------------------------
(***************************************************************************)
(* DynamicMaxBandwidthScheduler and its application: the interval between  *)
(* transmissions follows the size of the neighborhood.  When the timer     *)
(* fires the interval is computed again; if the last transmission is not   *)
(* that long ago the scheduler waits on, otherwise it asks for packets.    *)
(* Without a serving cell the timer is dropped and the signal of a new     *)
(* cell resumes it.                                                        *)
(***************************************************************************)
EXTENDS AppLife

CONSTANTS
  StartOffset,    \* startOffset, negative to deactivate the scheduler
  CheckNetwork,   \* checkNetworkConnectivity
  Cells,          \* eNBId of the signal servingCell, 0 when the cell is lost
  InitialCells,   \* eNBId at the start, -1 without information
  MinInterval,    \* generationInterval, the minimum interval
  Demands,        \* pmembers * C: the interval the bandwidth demands
  Low, High, Scale \* the random interval lies in Low/Scale .. High/Scale times
                  \* the deterministic one (0.5 and 1.5 over 1.2182)

ASSUME DynamicAssumption ==
  /\ StartOffset \in Int
  /\ CheckNetwork \in BOOLEAN
  /\ Cells \subseteq Nat
  /\ InitialCells \subseteq Nat \cup {-1}
  /\ MinInterval \in Nat
  /\ Demands \subseteq Nat
  /\ Low \in Nat /\ High \in Nat /\ Scale \in Nat \ {0}

VARIABLES
  eNBId,    \* AppSchedulerBase::eNBId
  hasSent,  \* a transmission was scheduled before
  lastTx,   \* last_tx
  prioAt,   \* txIntervalDataPrio.timestamp
  curAt,    \* txIntervalDataCurrent.timestamp
  curRnd    \* txIntervalDataCurrent.rndInterval

intervals == <<hasSent, lastTx, prioAt, curAt, curRnd>>
vars == <<now, life, genAt, lifeFirst, quota, fault, eNBId, intervals>>

(* computeInterval: half of the minimum suffices before the first          *)
(* transmission.                                                           *)
MinTransmissionInterval == IF hasSent THEN MinInterval ELSE MinInterval \div 2

RndIntervals(d) == {x \in 1..(High * d) : Low * d <= Scale * x /\ Scale * x <= High * d}

ComputeInterval == UNION {RndIntervals(Later(MinTransmissionInterval, c)) : c \in Demands}

(* scheduleGenerationTimer, which only initialize calls.                   *)
Deactivated == StartOffset < 0 \/ AfterStop

(* Fault: the first interval begins at the creation of the node.           *)
FirstTimeEarly(rnd) == now + StartOffset + rnd

FirstTime(rnd) == Later(StartTime, now) + StartOffset + rnd

Init ==
  /\ \E t \in CreationTimes : LifeInit(t)
  /\ stopped = Deactivated
  /\ eNBId \in InitialCells
  /\ hasSent = FALSE
  /\ lastTx = 0
  /\ prioAt = IF Deactivated THEN -1 ELSE now
  /\ curAt = -1
  /\ curRnd = -1
  /\ IF Deactivated THEN genAt = Never
     ELSE \E rnd \in ComputeInterval : genAt = FirstTime(rnd)

-----------------------------------------------------------------------------
(* Fault: the new cell is noted before the old one is tested.              *)
NetworkSignalNotedFirst(i) ==
  /\ fault = "none"
  /\ eNBId' = i
  /\ UNCHANGED <<now, life, genAt, lifeFirst, quota, fault, intervals>>

(* receiveSignal: resumed at the next point in time if a cell is regained  *)
(* and the timer is not scheduled.                                         *)
NetworkSignal(i) ==
  /\ fault = "none"
  /\ eNBId' = i
  /\ IF eNBId = 0 /\ i # 0 /\ genAt = Never
     THEN genAt' = now + 1 /\ lifeFirst' = TRUE
     ELSE UNCHANGED <<genAt, lifeFirst>>
  /\ UNCHANGED <<now, life, quota, fault, intervals>>

(* handleMessage with the generation timer.                                *)
NoConnection == CheckNetwork /\ eNBId <= 0

Suspend ==
  /\ NoConnection
  /\ genAt' = Never
  /\ UNCHANGED <<lifeFirst, quota, fault, intervals>>

(* updateTxIntervalDataCurrent: at most once in an instant.                *)
UpdateCurrent ==
  IF curAt < now THEN curAt' = now /\ curRnd' \in ComputeInterval
  ELSE UNCHANGED <<curAt, curRnd>>

Wait ==
  /\ prioAt + curRnd' >= now
  /\ genAt' = prioAt + curRnd'
  /\ UNCHANGED <<quota, fault, hasSent, lastTx, prioAt>>

(* Fault: the interval of the last transmission is not replaced.           *)
TransmitKeepsPrio ==
  /\ prioAt + curRnd' < now
  /\ IF state = "init" THEN fault' = "unset" /\ UNCHANGED quota
     ELSE ScheduleApp(stopped) /\ UNCHANGED fault
  /\ genAt' = now + curRnd'
  /\ hasSent' = TRUE
  /\ lastTx' = now
  /\ UNCHANGED prioAt

Transmit ==
  /\ prioAt + curRnd' < now
  /\ IF state = "init" THEN fault' = "unset" /\ UNCHANGED quota
     ELSE ScheduleApp(stopped) /\ UNCHANGED fault
  /\ genAt' = now + curRnd'
  /\ hasSent' = TRUE
  /\ lastTx' = now
  /\ prioAt' = curAt'

Fire ==
  /\ ~NoConnection
  /\ UpdateCurrent
  /\ Wait \/ Transmit
  /\ lifeFirst' = TRUE

GenerationTimer ==
  /\ fault = "none"
  /\ GenerationDue
  /\ Suspend \/ Fire
  /\ UNCHANGED <<now, life, eNBId>>

LifeStep ==
  /\ Tick \/ SetUp \/ TearDown \/ MainTimer
  /\ UNCHANGED <<eNBId, intervals>>

Next == LifeStep \/ GenerationTimer \/ \E i \in Cells : NetworkSignal(i)

Spec == Init /\ [][Next]_vars

-----------------------------------------------------------------------------
TypeOK ==
  /\ LifeTypeOK
  /\ eNBId \in Nat \cup {-1}
  /\ hasSent \in BOOLEAN
  /\ lastTx \in Nat
  /\ prioAt \in Nat \cup {-1}
  /\ curAt \in Nat \cup {-1}
  /\ curRnd \in Nat \cup {-1}

(* The bandwidth limit: however often the cell is lost and regained, two   *)
(* transmissions are further apart than the smallest random interval       *)
(* (handleMessage, receiveSignal).                                         *)
SpacingKept ==
  [][ hasSent /\ (Produces \/ lastTx' # lastTx)
        => Low * MinInterval < Scale * (now - lastTx) ]_<<packets, data, lastTx>>

(* "Resume when network is up": a scheduler with a serving cell has its    *)
(* timer scheduled, whatever signals came before (handleMessage).          *)
ResumedWithNetwork ==
  ~NoConnection => genAt # Never
=============================================================================
