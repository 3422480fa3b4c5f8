------------------------------ MODULE CellStream ------------------------------
(***************************************************************************)
(* The sender of a density map: which cells go into the packets the        *)
(* scheduler asks for.  The map may have more cells than fit into the      *)
(* packets of one point in time; InsertionOrderedCellIdStream keeps them   *)
(* in a queue, hasNext rotates the cells without a valid value to its end  *)
(* and a cell that was sent goes to the end as well.                       *)
(*                                                                         *)
(* BaseApp::producePackets, BaseDensityMapApp::canProducePacket,           *)
(* createPacket and buildPayload are modelled with one step per iteration  *)
(* of the loop in hasNext; `pc' says who called it.  Nothing else happens  *)
(* before production is over: events of the simulation are atomic.         *)
(*                                                                         *)
(* Sizes are in any unit of data.  A cRuntimeError ends the simulation     *)
(* (`fault').                                                              *)
(***************************************************************************)
EXTENDS Integers, Sequences, FiniteSets, Functions

CONSTANTS
  Cells,          \* the cells of the grid
  Bursts,         \* IntervalScheduler.numberPackets: packets asked for at once
  Amounts,        \* IntervalScheduler.amountOfData: data asked for at once
  HeaderSize,     \* MapHeader
  CellSize,       \* one cell of the payload
  BurstCellSize,  \* the size getBurstInfo reckons with: a cell without its domain
  MaxPdu,         \* BaseApp.maxPduLength
  MinPdu          \* BaseApp.minPduLength, no limit if it is not positive

ASSUME CellsAssumption == IsFiniteSet(Cells)
ASSUME BurstsAssumption == Bursts \subseteq Nat \ {0} /\ Amounts \subseteq Nat \ {0}
ASSUME SizesAssumption ==
  /\ HeaderSize \in Nat \ {0}
  /\ CellSize \in Nat \ {0}
  /\ BurstCellSize \in 1..CellSize
  /\ MaxPdu \in Nat
  /\ HeaderSize + CellSize <= MaxPdu
  /\ MinPdu \in Int

VARIABLES
  atZero,    \* simTime() = 0
  computed,  \* DcDMap::computeValues has run at this point in time
  queue,     \* InsertionOrderedCellIdStream::queue
  ready,     \* cells whose selected value is valid
  sent,      \* cells with last_sent = simTime(), time zero left aside
  pc,        \* "idle", or the caller of hasNext: canProducePacket ("check"),
             \*   buildPayload ("fill")
  scanned,   \* i of hasNext's loop
  left,      \* packets of the burst still to be produced, the current included
  budget,    \* BaseApp::scheduledData, -1 when packets are counted
  room,      \* cells that still fit into the packet
  filled,    \* cells in the packet
  fault,     \* the simulation ended with an error
  passed     \* history: the cells sent since a cell was last sent or not ready

production == <<pc, scanned, left, budget, room, filled, fault>>
vars == <<atZero, computed, queue, ready, sent, passed, production>>

Idle == pc = "idle" /\ ~fault

CeilDiv(a, b) == (a + b - 1) \div b

-----------------------------------------------------------------------------
(* The queue.                                                              *)

(* Fault: pop_front forgotten.                                             *)
MoveBackNoPop(q) == Append(q, Head(q))

MoveBack(q) == Append(Tail(q), Head(q))
AddNew(q, c) == <<c>> \o q

(* cell.lastSent() >= now.  The stamp of a cell that was never sent is     *)
(* time zero, so at time zero every cell counts as sent.                   *)
Blocked(c) == atZero \/ c \in sent
Pending == {c \in ready : ~Blocked(c)}

(* Fault: the cells sent at this point in time are counted again.          *)
SizeWithSent == IF atZero THEN 0 ELSE Cardinality(ready)

(* InsertionOrderedCellIdStream::size                                      *)
Size == Cardinality(Pending)

(* The three ways through one iteration of hasNext's loop.                 *)
Found == scanned < Len(queue) /\ ~Blocked(Head(queue)) /\ Head(queue) \in ready
Skips == scanned < Len(queue) /\ ~Blocked(Head(queue)) /\ Head(queue) \notin ready
Exhausted == scanned < Len(queue) => Blocked(Head(queue))

-----------------------------------------------------------------------------
(* The sizes of packets.                                                   *)

(* BaseApp::getAvailablePduLenght                                          *)
AvailableUnbounded(b) == MaxPdu
Available(b) == IF b < 0 \/ b > MaxPdu THEN MaxPdu ELSE b

(* maxCellCount of buildPayload                                            *)
CellsThatFit(avail) == (avail - HeaderSize) \div CellSize

(* BaseDensityMapApp::getBurstInfo: the number of packets of a burst.      *)
BurstSize(amount) ==
  LET needed   == CeilDiv(Size, (MaxPdu - HeaderSize) \div BurstCellSize)
      possible == CeilDiv(amount, MaxPdu)
  IN  IF needed <= possible THEN needed ELSE possible

-----------------------------------------------------------------------------
Init ==
  /\ atZero = TRUE
  /\ computed = FALSE
  /\ queue = <<>>
  /\ ready = {}
  /\ sent = {}
  /\ pc = "idle"
  /\ scanned = 0
  /\ left = 0
  /\ budget = 0
  /\ room = 0
  /\ filled = 0
  /\ fault = FALSE
  /\ passed = [c \in Cells |-> {}]

(* The next point in time at which something happens.                      *)
NewTime ==
  /\ Idle
  /\ atZero' = FALSE
  /\ computed' = FALSE
  /\ sent' = {}
  /\ UNCHANGED <<queue, ready, passed, production>>

(* DcDMap::createCell, for a neighbor's or a received cell.                *)
CreateCell(c) ==
  /\ Idle
  /\ c \notin Range(queue)
  /\ queue' = AddNew(queue, c)
  /\ UNCHANGED <<atZero, computed, ready, sent, passed, production>>

(* DcDMap::computeValues: once per point in time, at time zero again and   *)
(* again.  r are the cells that get a valid value.                         *)
Compute(r) ==
  /\ computed' = TRUE
  /\ ready' = IF computed /\ ~atZero THEN ready ELSE r
  /\ passed' = [c \in Cells |-> IF c \in ready' THEN passed[c] ELSE {}]

(* computeValues on behalf of another module (getNeighborhoodSize, the     *)
(* global map).                                                            *)
ComputeValues(r) ==
  /\ Idle
  /\ Compute(r)
  /\ UNCHANGED <<atZero, queue, sent, production>>

(* IntervalScheduler::scheduleApp: n packets or an amount of data.  The    *)
(* scheduler's own call of canProducePacket in packet mode is repeated by  *)
(* producePackets at once, with the same answer.                           *)
Schedule(n, amount, r) ==
  /\ Idle
  /\ Compute(r)
  /\ pc' = "check"
  /\ scanned' = 0
  /\ left' = n
  /\ budget' = amount
  /\ UNCHANGED <<atZero, queue, sent, room, filled, fault>>

SchedulePackets(n, r) == Schedule(n, -1, r)
ScheduleData(d, r) == Schedule(0, d, r)

Stop ==
  /\ pc' = "idle"
  /\ scanned' = 0
  /\ left' = 0
  /\ budget' = 0
  /\ room' = 0
  /\ filled' = 0

(* Fault: a cell without a valid value ends the search.                    *)
SkipCellGivesUp ==
  /\ pc \in {"check", "fill"}
  /\ pc = "fill" => room > 0
  /\ ~fault
  /\ Skips
  /\ scanned' = Len(queue)
  /\ UNCHANGED <<atZero, computed, queue, ready, sent, passed, pc, left, budget, room, filled, fault>>

(* One iteration of hasNext: the front cell has no valid value.            *)
SkipCell ==
  /\ pc \in {"check", "fill"}
  /\ pc = "fill" => room > 0
  /\ ~fault
  /\ Skips
  /\ queue' = MoveBack(queue)
  /\ scanned' = scanned + 1
  /\ UNCHANGED <<atZero, computed, ready, sent, passed, pc, left, budget, room, filled, fault>>

(* createPacket starts packet number `left', counted from the end, with    *)
(* budget b.  A budget smaller than the header leads to a payload of       *)
(* negative size or to a packet larger than the budget, an error each.     *)
StartPacket(k, b) ==
  IF Available(b) < HeaderSize
  THEN fault' = TRUE /\ UNCHANGED <<pc, scanned, left, budget, room, filled>>
  ELSE /\ pc' = "fill"
       /\ scanned' = 0
       /\ left' = k
       /\ budget' = b
       /\ room' = CellsThatFit(Available(b))
       /\ filled' = 0
       /\ UNCHANGED fault

(* canProducePacket: data is available, and the budget, if there is one,   *)
(* is not below the minimum.                                               *)
TooSmall == budget > 0 /\ budget < MinPdu

CheckSucceeds ==
  /\ pc = "check"
  /\ ~fault
  /\ Found
  /\ IF TooSmall THEN Stop /\ UNCHANGED fault
     ELSE StartPacket(IF budget < 0 THEN left ELSE BurstSize(budget), budget)
  /\ UNCHANGED <<atZero, computed, queue, ready, sent, passed>>

CheckFails ==
  /\ pc = "check"
  /\ ~fault
  /\ Exhausted
  /\ Stop
  /\ UNCHANGED <<atZero, computed, queue, ready, sent, passed, fault>>

(* Fault: nextCellId leaves the cell at the front.                         *)
SendCellKeepsOrder ==
  LET c == Head(queue) IN
  /\ pc = "fill"
  /\ ~fault
  /\ room > 0
  /\ Found
  /\ sent' = sent \cup {c}
  /\ room' = room - 1
  /\ filled' = filled + 1
  /\ scanned' = 0
  /\ passed' = [d \in Cells |-> IF d \in ready \ {c} THEN passed[d] \cup {c} ELSE {}]
  /\ UNCHANGED <<atZero, computed, queue, ready, pc, left, budget, fault>>

(* nextCell and sentAt in buildPayload.                                    *)
SendCell ==
  LET c == Head(queue) IN
  /\ pc = "fill"
  /\ ~fault
  /\ room > 0
  /\ Found
  /\ queue' = MoveBack(queue)
  /\ sent' = sent \cup {c}
  /\ room' = room - 1
  /\ filled' = filled + 1
  /\ scanned' = 0
  /\ passed' = [d \in Cells |-> IF d \in ready \ {c} THEN passed[d] \cup {c} ELSE {}]
  /\ UNCHANGED <<atZero, computed, ready, pc, left, budget, fault>>

(* The packet is complete.  In packet mode canProducePacket is asked       *)
(* before the next one, in data mode getBurstInfo has settled the number.  *)
FinishPacket ==
  LET rest == IF budget < 0 THEN budget
              ELSE budget - (HeaderSize + filled * CellSize)
  IN
  /\ pc = "fill"
  /\ ~fault
  /\ room = 0 \/ Exhausted
  /\ \/ /\ budget >= 0 /\ rest < 0
        /\ fault' = TRUE
        /\ UNCHANGED <<pc, scanned, left, budget, room, filled>>
     \/ /\ ~(budget >= 0 /\ rest < 0)
        /\ left = 1
        /\ Stop
        /\ UNCHANGED fault
     \/ /\ budget < 0
        /\ left > 1
        /\ pc' = "check"
        /\ scanned' = 0
        /\ left' = left - 1
        /\ room' = 0
        /\ filled' = 0
        /\ UNCHANGED <<budget, fault>>
     \/ /\ budget >= 0 /\ rest >= 0
        /\ left > 1
        /\ StartPacket(left - 1, rest)
  /\ UNCHANGED <<atZero, computed, queue, ready, sent, passed>>

Produce == SkipCell \/ CheckSucceeds \/ CheckFails \/ SendCell \/ FinishPacket

Next ==
  \/ NewTime
  \/ \E c \in Cells : CreateCell(c)
  \/ \E r \in SUBSET Range(queue) : ComputeValues(r)
  \/ \E r \in SUBSET Range(queue), n \in Bursts : SchedulePackets(n, r)
  \/ \E r \in SUBSET Range(queue), d \in Amounts : ScheduleData(d, r)
  \/ Produce

Spec == Init /\ [][Next]_vars

(* Only finitely many events share a point in time, the scheduler's timer  *)
(* fires again and again (packet mode), and production runs to its end.    *)
Fairness ==
  /\ SF_vars(NewTime)
  /\ SF_vars(\E r \in SUBSET Range(queue), n \in Bursts : SchedulePackets(n, r))
  /\ WF_vars(Produce)

FairSpec == Spec /\ Fairness

-----------------------------------------------------------------------------
Flags ==
  /\ atZero \in BOOLEAN
  /\ computed \in BOOLEAN
  /\ fault \in BOOLEAN

QueueOK ==
  /\ queue \in Seq(Cells)
  /\ \A i, j \in 1..Len(queue) : queue[i] = queue[j] => i = j
  /\ ready \subseteq Range(queue)
  /\ sent \subseteq ready
  /\ passed \in [Cells -> SUBSET Cells]

Numbers ==
  /\ pc \in {"idle", "check", "fill"}
  /\ scanned \in 0..Len(queue)
  /\ left \in Nat
  /\ budget \in Nat \cup {-1}
  /\ room \in Nat
  /\ filled \in Nat

(* Types; the queue holds no cell twice, and what was sent had a value.    *)
TypeOK == Flags /\ QueueOK /\ Numbers

(* Every amount leaves the last packet of a burst room for its header and  *)
(* one cell.                                                               *)
AmountsFit ==
  \A d \in Amounts : d - (CeilDiv(d, MaxPdu) - 1) * MaxPdu >= HeaderSize + CellSize

(* "burst Info will calculate number of packets that are the application   *)
(* is able to produce which is equal to or less than maxData": a burst     *)
(* never needs more data than was scheduled (BaseApp::producePackets).     *)
QuotaKept == ~fault

(* No cell is sent twice while another one waits with a valid value,       *)
(* although new cells enter at the front of the queue and the cells        *)
(* without a value are rotated past those that were sent.                  *)
NoOvertaking ==
  [][\A c \in sent' \ sent, d \in ready : c # d => c \notin passed[d]]_vars

(* The mapping to the abstract outbox: a budget below the minimum asks     *)
(* for nothing.                                                            *)
Phase == IF pc = "fill" THEN "open"
         ELSE IF pc = "check" /\ ~TooSmall THEN "asked" ELSE "idle"

Promise == INSTANCE Outbox WITH
  MaxRoom <- CellsThatFit(MaxPdu),
  phase   <- Phase,
  pending <- Pending,
  carried <- sent

(* What the abstract outbox promises: hasNext and size agree about what is *)
(* left to send, so no packet is empty, none is closed too early, and no   *)
(* cell travels twice at one point in time.                                *)
ImplementsOutbox == Promise!Spec

(* A cell that keeps a valid value is sent again and again: a map larger   *)
(* than the packets starves none of its cells.                             *)
EveryCellTravels == \A c \in Cells : <>[](c \in ready) => []<>(c \in sent)
=============================================================================
