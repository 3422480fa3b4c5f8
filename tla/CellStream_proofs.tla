-------------------------- MODULE CellStream_proofs --------------------------
(***************************************************************************)
(* Proofs about CellStream: the queue serves every cell in turn, for any   *)
(* number of cells, any size of packet and any burst.                      *)
(***************************************************************************)
EXTENDS CellStream, FiniteSetTheorems, TLAPS

-----------------------------------------------------------------------------
(* The queue.                                                              *)

(* MoveBack shifts every cell one place to the front and the first cell to *)
(* the end.                                                                *)
LEMMA MoveBackShifts ==
  ASSUME NEW q \in Seq(Cells), Len(q) > 0
  PROVE  /\ MoveBack(q) \in Seq(Cells)
         /\ Len(MoveBack(q)) = Len(q)
         /\ \A i \in 1..(Len(q) - 1) : MoveBack(q)[i] = q[i + 1]
         /\ MoveBack(q)[Len(q)] = q[1]
         /\ Head(q) = q[1]
         /\ q[1] \in Cells
BY DEF MoveBack

(* AddNew shifts every cell one place to the end.                          *)
LEMMA AddNewShifts ==
  ASSUME NEW q \in Seq(Cells), NEW c \in Cells
  PROVE  /\ AddNew(q, c) \in Seq(Cells)
         /\ Len(AddNew(q, c)) = Len(q) + 1
         /\ AddNew(q, c)[1] = c
         /\ \A i \in 1..Len(q) : AddNew(q, c)[i + 1] = q[i]
BY DEF AddNew

(* The cells of a queue.                                                   *)
LEMMA RangeOfQueue ==
  ASSUME NEW q \in Seq(Cells)
  PROVE  /\ Range(q) = {q[i] : i \in 1..Len(q)}
         /\ Range(q) \subseteq Cells
BY DEF Range

LEMMA MoveBackRange ==
  ASSUME NEW q \in Seq(Cells), Len(q) > 0
  PROVE  Range(MoveBack(q)) = Range(q)
<1> DEFINE r == MoveBack(q)
<1>1. /\ r \in Seq(Cells)
      /\ Len(r) = Len(q)
      /\ \A i \in 1..(Len(q) - 1) : r[i] = q[i + 1]
      /\ r[Len(q)] = q[1]
  BY MoveBackShifts
<1> HIDE DEF r
<1>a. Range(r) = {r[i] : i \in 1..Len(q)}
  BY <1>1, RangeOfQueue
<1>b. Range(q) = {q[i] : i \in 1..Len(q)}
  BY RangeOfQueue
<1>2. Range(r) \subseteq Range(q)
  <2> SUFFICES ASSUME NEW i \in 1..Len(q) PROVE \E k \in 1..Len(q) : r[i] = q[k]
    BY <1>a, <1>b
  <2>1. CASE i = Len(q)
    BY <2>1, <1>1
  <2>2. CASE i # Len(q)
    <3>1. i + 1 \in 1..Len(q) /\ i \in 1..(Len(q) - 1)
      BY <2>2
    <3> QED
      BY <3>1, <1>1
  <2> QED
    BY <2>1, <2>2
<1>3. Range(q) \subseteq Range(r)
  <2> SUFFICES ASSUME NEW i \in 1..Len(q) PROVE \E k \in 1..Len(q) : q[i] = r[k]
    BY <1>a, <1>b
  <2>1. CASE i = 1
    BY <2>1, <1>1
  <2>2. CASE i # 1
    <3>1. i - 1 \in 1..Len(q) /\ i - 1 \in 1..(Len(q) - 1) /\ (i - 1) + 1 = i
      BY <2>2
    <3> QED
      BY <3>1, <1>1
  <2> QED
    BY <2>1, <2>2
<1> QED
  BY <1>2, <1>3 DEF r

LEMMA AddNewRange ==
  ASSUME NEW q \in Seq(Cells), NEW c \in Cells
  PROVE  Range(AddNew(q, c)) = Range(q) \cup {c}
<1> DEFINE r == AddNew(q, c)
<1>1. /\ r \in Seq(Cells)
      /\ Len(r) = Len(q) + 1
      /\ r[1] = c
      /\ \A i \in 1..Len(q) : r[i + 1] = q[i]
  BY AddNewShifts
<1> HIDE DEF r
<1>2. Range(r) \subseteq Range(q) \cup {c}
  <2> SUFFICES ASSUME NEW i \in 1..(Len(q) + 1), r[i] # c
               PROVE  \E k \in 1..Len(q) : r[i] = q[k]
    BY <1>1, RangeOfQueue
  <2>1. i - 1 \in 1..Len(q) /\ (i - 1) + 1 = i
    BY <1>1
  <2> QED
    BY <1>1, <2>1
<1>3. Range(q) \subseteq Range(r)
  <2> SUFFICES ASSUME NEW i \in 1..Len(q) PROVE \E k \in 1..(Len(q) + 1) : q[i] = r[k]
    BY <1>1, RangeOfQueue
  <2>1. i + 1 \in 1..(Len(q) + 1)
    OBVIOUS
  <2> QED
    BY <1>1, <2>1
<1>4. c \in Range(r)
  <2>1. 1 \in 1..(Len(q) + 1)
    OBVIOUS
  <2> QED
    BY <1>1, <2>1, RangeOfQueue
<1> QED
  BY <1>2, <1>3, <1>4 DEF r

-----------------------------------------------------------------------------
(* Integer division, the sizes of packets.                                 *)

LEMMA DivBounds ==
  ASSUME NEW a \in Nat, NEW b \in Nat \ {0}
  PROVE  /\ a \div b \in Nat
         /\ (a \div b) * b <= a
         /\ a < (a \div b) * b + b
         /\ b <= a => a \div b >= 1
<1>1. /\ a \div b \in Int
      /\ a = b * (a \div b) + (a % b)
      /\ a % b \in 0..(b - 1)
  BY SMTT(30)
<1> DEFINE n == a \div b
           m == a % b
<1> HIDE DEF n, m
<1>2. n \in Int /\ a = b * n + m /\ m \in 0..(b - 1)
  BY <1>1 DEF n, m
<1>3. n >= 0
  <2> SUFFICES ASSUME n <= -1 PROVE FALSE
    BY <1>2
  <2>1. b * n <= b * (-1)
    BY <1>2, SMTT(30)
  <2> QED
    BY <1>2, <2>1, SMTT(30)
<1>4. n * b = b * n /\ b * n \in Int
  BY <1>2, SMTT(30)
<1>5. b <= a => n >= 1
  <2> SUFFICES ASSUME b <= a, n = 0 PROVE FALSE
    BY <1>2, <1>3
  <2>1. b * n = 0
    BY SMTT(30)
  <2> QED
    BY <1>2, <2>1
<1> QED
  BY <1>2, <1>3, <1>4, <1>5 DEF n

LEMMA DivMonotone ==
  ASSUME NEW a \in Nat, NEW c \in Nat, NEW b \in Nat \ {0}, a <= c
  PROVE  a \div b <= c \div b
<1> DEFINE n == a \div b
           k == c \div b
<1>1. n \in Nat /\ k \in Nat /\ n * b <= a /\ c < k * b + b
  BY DivBounds
<1> HIDE DEF n, k
<1> SUFFICES ASSUME k + 1 <= n PROVE FALSE
  BY <1>1 DEF n, k
<1>2. (k + 1) * b <= n * b
  BY <1>1, SMTT(30)
<1>3. (k + 1) * b = k * b + b
  BY <1>1, SMTT(30)
<1>4. k * b \in Nat /\ n * b \in Nat
  BY <1>1, SMTT(30)
<1> QED
  BY <1>1, <1>2, <1>3, <1>4

LEMMA CeilBounds ==
  ASSUME NEW a \in Nat \ {0}, NEW b \in Nat \ {0}
  PROVE  /\ CeilDiv(a, b) \in Nat \ {0}
         /\ (CeilDiv(a, b) - 1) * b < a
<1> DEFINE n == (a + b - 1) \div b
<1>1. a + b - 1 \in Nat /\ b <= a + b - 1
  OBVIOUS
<1>2. n \in Nat /\ n * b <= a + b - 1 /\ n >= 1
  BY <1>1, DivBounds
<1> HIDE DEF n
<1>3. (n - 1) * b = n * b - b /\ n * b \in Nat
  BY <1>2, SMTT(30)
<1>4. (n - 1) * b < a
  BY <1>2, <1>3
<1> QED
  BY <1>2, <1>4 DEF n, CeilDiv

(* The cells of a packet and its header are never more than is available.  *)
LEMMA PacketFits ==
  ASSUME NEW avail \in Nat, HeaderSize <= avail, avail <= MaxPdu
  PROVE  /\ CellsThatFit(avail) \in Nat
         /\ HeaderSize + CellsThatFit(avail) * CellSize <= avail
         /\ CellsThatFit(avail) <= CellsThatFit(MaxPdu)
         /\ HeaderSize + CellSize <= avail => CellsThatFit(avail) >= 1
<1>1. /\ avail - HeaderSize \in Nat
      /\ MaxPdu - HeaderSize \in Nat
      /\ avail - HeaderSize <= MaxPdu - HeaderSize
      /\ CellSize \in Nat \ {0}
      /\ HeaderSize \in Nat
      /\ HeaderSize + CellSize <= avail => CellSize <= avail - HeaderSize
  BY SizesAssumption
<1> DEFINE a == avail - HeaderSize
           k == a \div CellSize
<1>2. k \in Nat /\ k * CellSize <= a /\ (CellSize <= a => k >= 1)
  BY <1>1, DivBounds
<1>3. k <= (MaxPdu - HeaderSize) \div CellSize
  BY <1>1, DivMonotone
<1>4. k * CellSize \in Nat
  <2> HIDE DEF k
  <2> QED
    BY <1>1, <1>2, SMTT(30)
<1>5. HeaderSize + k * CellSize <= avail
  <2> HIDE DEF k
  <2> QED
    BY <1>1, <1>2, <1>4
<1> QED
  BY <1>1, <1>2, <1>3, <1>5 DEF CellsThatFit

-----------------------------------------------------------------------------
(* The inductive invariant.                                                *)

(* How the caller of hasNext, the point in time and the burst belong       *)
(* together.                                                               *)
Control ==
  /\ pc # "idle" \/ sent # {} => computed
  /\ atZero => sent = {} /\ pc # "fill"
  /\ pc = "fill" => left >= 1
  /\ pc # "idle" /\ budget = -1 => left >= 1
  /\ pc = "check" => budget \in Amounts \cup {-1}
  /\ pc # "fill" => room = 0

(* The cells hasNext has rotated in this call have no valid value.         *)
Rotated ==
  ~atZero /\ pc # "idle" =>
    \A j \in 1..Len(queue) : j > Len(queue) - scanned => queue[j] \notin ready

(* Behind a cell that was sent at this point in time, no cell is pending.  *)
SentLast ==
  \A i, j \in 1..Len(queue) :
    i < j /\ queue[i] \in sent => queue[j] \in sent \/ queue[j] \notin ready

(* A cell waits in front of every cell that was sent while it was waiting. *)
InTurn ==
  \A i, j \in 1..Len(queue) : queue[i] \in passed[queue[j]] => j < i

PassedKnown ==
  \A c \in Cells : passed[c] \subseteq Range(queue) /\ (c \notin ready => passed[c] = {})

StreamInv == TypeOK /\ Control /\ Rotated /\ SentLast /\ InTurn /\ PassedKnown

(* In a burst of data, every packet has its data and something to carry.   *)
PacketRoom == pc = "fill" => room + filled <= CellsThatFit(Available(budget))

BudgetLeft ==
  pc = "fill" /\ budget # -1 =>
    budget >= (left - 1) * MaxPdu + (HeaderSize + CellSize)

CellsLeft ==
  pc = "fill" /\ budget # -1 =>
    (left - 1) * ((MaxPdu - HeaderSize) \div BurstCellSize) < Size + filled

BurstInv == ~fault /\ PacketRoom /\ BudgetLeft /\ CellsLeft

-----------------------------------------------------------------------------
(* The invariant holds initially.                                          *)
LEMMA StreamInit == Init => StreamInv
<1> SUFFICES ASSUME Init PROVE StreamInv
  OBVIOUS
<1>1. queue = <<>> /\ queue \in Seq(Cells) /\ Len(queue) = 0 /\ 1..0 = {}
  BY DEF Init
<1>2. TypeOK
  <2>1. Flags
    BY DEF Init, Flags
  <2>2. QueueOK
    BY <1>1 DEF Init, QueueOK
  <2>3. Numbers
    BY <1>1 DEF Init, Numbers
  <2> QED
    BY <2>1, <2>2, <2>3 DEF TypeOK
<1>3. Control /\ Rotated /\ SentLast /\ InTurn /\ PassedKnown
  BY <1>1 DEF Init, Control, Rotated, SentLast, InTurn, PassedKnown
<1> QED
  BY <1>2, <1>3 DEF StreamInv

(* Steps that leave queue, values and stamps alone and start the search    *)
(* again or do not touch it.                                               *)
LEMMA OrderKept ==
  ASSUME StreamInv, UNCHANGED <<atZero, queue, ready, sent, passed>>,
         \/ pc' = "idle"
         \/ scanned' = 0
         \/ UNCHANGED <<pc, scanned>>
  PROVE  Rotated' /\ SentLast' /\ InTurn' /\ PassedKnown'
<1>1. SentLast' /\ InTurn' /\ PassedKnown'
  BY DEF StreamInv, SentLast, InTurn, PassedKnown
<1>2. Len(queue) \in Nat
  BY DEF StreamInv, TypeOK, QueueOK
<1>3. Rotated'
  BY <1>2 DEF StreamInv, Rotated
<1> QED
  BY <1>1, <1>3

LEMMA NewTimeKeeps ==
  ASSUME StreamInv, NewTime
  PROVE  StreamInv'
<1>1. Flags' /\ Control'
  BY DEF StreamInv, TypeOK, Flags, Control, NewTime, Idle, production
<1>2. /\ UNCHANGED <<queue, ready, passed, pc, scanned, left, budget, room, filled>>
      /\ sent' = {} /\ pc = "idle"
  BY DEF NewTime, Idle, production
<1> USE DEF StreamInv
<1>3. QueueOK' /\ Numbers'
  BY <1>2 DEF TypeOK, QueueOK, Numbers
<1>4. Rotated' /\ SentLast' /\ InTurn' /\ PassedKnown'
  BY <1>2 DEF Rotated, SentLast, InTurn, PassedKnown
<1> QED
  BY <1>1, <1>3, <1>4 DEF TypeOK

LEMMA CreateCellKeeps ==
  ASSUME StreamInv, NEW c \in Cells, CreateCell(c)
  PROVE  StreamInv'
<1>0. Flags' /\ Control'
  BY DEF StreamInv, TypeOK, Flags, Control, CreateCell, Idle, production
<1>u. /\ UNCHANGED <<ready, sent, passed, pc, scanned, left, budget, room, filled>>
      /\ pc = "idle"
      /\ c \notin Range(queue)
      /\ queue' = AddNew(queue, c)
  BY DEF CreateCell, Idle, production
<1> USE DEF StreamInv
<1> DEFINE n == Len(queue)
<1>s. /\ queue \in Seq(Cells) /\ n \in Nat
      /\ \A i, j \in 1..n : queue[i] = queue[j] => i = j
  BY DEF TypeOK, QueueOK
<1>t. /\ AddNew(queue, c) \in Seq(Cells)
      /\ Len(AddNew(queue, c)) = n + 1
      /\ AddNew(queue, c)[1] = c
      /\ \A i \in 1..n : AddNew(queue, c)[i + 1] = queue[i]
  BY <1>s, AddNewShifts
<1>1. /\ queue \in Seq(Cells) /\ n \in Nat
      /\ queue' \in Seq(Cells) /\ Len(queue') = n + 1
      /\ queue'[1] = c
      /\ \A i \in 1..n : queue'[i + 1] = queue[i]
  BY <1>u, <1>s, <1>t
<1>2. Range(queue') = Range(queue) \cup {c}
  BY <1>u, <1>1, AddNewRange
<1>3. Range(queue) = {queue[i] : i \in 1..n}
  BY <1>1, RangeOfQueue
<1>4. \A i \in 1..(n + 1) : i # 1 => i - 1 \in 1..n /\ queue'[i] = queue[i - 1]
  <2> SUFFICES ASSUME NEW i \in 1..(n + 1), i # 1
               PROVE  i - 1 \in 1..n /\ queue'[i] = queue[i - 1]
    OBVIOUS
  <2>1. i - 1 \in 1..n /\ (i - 1) + 1 = i
    BY <1>1
  <2> QED
    BY <2>1, <1>1
<1> HIDE DEF n
<1>5. \A i, j \in 1..(n + 1) : queue'[i] = queue'[j] => i = j
  <2> SUFFICES ASSUME NEW i \in 1..(n + 1), NEW j \in 1..(n + 1), queue'[i] = queue'[j]
               PROVE  i = j
    OBVIOUS
  <2>1. CASE i = 1 \/ j = 1
    BY <2>1, <1>u, <1>1, <1>3, <1>4
  <2>2. CASE i # 1 /\ j # 1
    <3>1. i - 1 = j - 1
      BY <2>2, <1>4, <1>s
    <3> QED
      BY <3>1, <1>1
  <2> QED
    BY <2>1, <2>2
<1>6. QueueOK'
  BY <1>u, <1>1, <1>2, <1>5 DEF TypeOK, QueueOK
<1>7. Numbers'
  BY <1>u, <1>1 DEF TypeOK, Numbers, n
<1>8. Rotated'
  BY <1>u DEF Rotated
<1>9. c \notin sent /\ c \notin ready
  BY <1>u DEF TypeOK, QueueOK
<1>10. SentLast'
  <2> SUFFICES ASSUME NEW i \in 1..(n + 1), NEW j \in 1..(n + 1), i < j, queue'[i] \in sent
               PROVE  queue'[j] \in sent \/ queue'[j] \notin ready
    BY <1>u, <1>1 DEF SentLast
  <2>1. i # 1 /\ j # 1 /\ i - 1 < j - 1
    BY <1>1, <1>9
  <2> QED
    BY <2>1, <1>4 DEF SentLast, n
<1>11. PassedKnown'
  BY <1>u, <1>2 DEF PassedKnown
<1>12. InTurn'
  <2> SUFFICES ASSUME NEW i \in 1..(n + 1), NEW j \in 1..(n + 1),
                      queue'[i] \in passed[queue'[j]]
               PROVE  j < i
    BY <1>u, <1>1 DEF InTurn
  <2>1. queue'[j] \in Cells
    BY <1>1
  <2>2. i # 1
    BY <2>1, <1>u, <1>1 DEF PassedKnown
  <2>3. j # 1
    BY <2>1, <1>1, <1>9 DEF PassedKnown
  <2>4. j - 1 < i - 1
    BY <2>2, <2>3, <1>4 DEF InTurn, n
  <2> QED
    BY <2>4, <1>1
<1> QED
  BY <1>0, <1>6, <1>7, <1>8, <1>10, <1>11, <1>12 DEF TypeOK

(* Computing the values disturbs no order: it happens before the first     *)
(* cell of a point in time is sent.                                        *)
LEMMA ComputeKeeps ==
  ASSUME StreamInv, NEW r \in SUBSET Range(queue), Compute(r),
         UNCHANGED <<queue, sent>>
  PROVE  QueueOK' /\ SentLast' /\ InTurn' /\ PassedKnown'
<1>1. ready' = ready \/ (sent = {} /\ ready' = r)
  <2>1. CASE computed /\ ~atZero
    BY <2>1 DEF Compute
  <2>2. CASE ~computed \/ atZero
    BY <2>2 DEF Compute, StreamInv, Control
  <2> QED
    BY <2>1, <2>2
<1>2. /\ \A d \in Cells : passed'[d] = IF d \in ready' THEN passed[d] ELSE {}
      /\ passed' = [d \in Cells |-> IF d \in ready' THEN passed[d] ELSE {}]
  BY DEF Compute
<1> USE DEF StreamInv, TypeOK, QueueOK
<1>3. queue' = queue /\ sent' = sent /\ r \subseteq Range(queue)
  OBVIOUS
<1>4. passed' \in [Cells -> SUBSET Cells]
  BY <1>2
<1>5. QueueOK'
  BY <1>1, <1>3, <1>4
<1>6. SentLast'
  BY <1>1, <1>3 DEF SentLast
<1>7. PassedKnown'
  BY <1>2, <1>3 DEF PassedKnown
<1>8. InTurn'
  <2> SUFFICES ASSUME NEW i \in 1..Len(queue), NEW j \in 1..Len(queue),
                      queue[i] \in passed'[queue[j]]
               PROVE  j < i
    BY <1>3 DEF InTurn
  <2>1. queue[j] \in Cells
    OBVIOUS
  <2>2. queue[i] \in passed[queue[j]]
    BY <1>2, <2>1
  <2> QED
    BY <2>2 DEF InTurn
<1> QED
  BY <1>5, <1>6, <1>7, <1>8

LEMMA ComputeValuesKeeps ==
  ASSUME StreamInv, NEW r \in SUBSET Range(queue), ComputeValues(r)
  PROVE  StreamInv'
<1>1. /\ Compute(r) /\ pc = "idle"
      /\ UNCHANGED <<atZero, queue, sent, pc, scanned, left, budget, room, filled, fault>>
  BY DEF ComputeValues, Idle, production
<1>2. QueueOK' /\ SentLast' /\ InTurn' /\ PassedKnown'
  BY <1>1, ComputeKeeps
<1>3. Flags' /\ Control'
  BY <1>1 DEF StreamInv, TypeOK, Flags, Control, Compute
<1>4. Numbers' /\ Rotated'
  BY <1>1 DEF StreamInv, TypeOK, Numbers, Rotated
<1> QED
  BY <1>2, <1>3, <1>4 DEF StreamInv, TypeOK

LEMMA ScheduleKeeps ==
  ASSUME StreamInv, NEW r \in SUBSET Range(queue), NEW k \in Nat, NEW b,
         Schedule(k, b, r), (b = -1 /\ k >= 1) \/ b \in Amounts
  PROVE  StreamInv'
<1>1. /\ Compute(r) /\ pc = "idle"
      /\ pc' = "check" /\ scanned' = 0 /\ left' = k /\ budget' = b
      /\ UNCHANGED <<atZero, queue, sent, room, filled, fault>>
  BY DEF Schedule, Idle
<1>2. QueueOK' /\ SentLast' /\ InTurn' /\ PassedKnown'
  BY <1>1, ComputeKeeps
<1>a. \A x \in Amounts : x \in Nat /\ x # -1
  BY BurstsAssumption
<1>3. b \in Nat \cup {-1} /\ (b \in Amounts => b # -1)
  BY <1>a
<1>4. Flags' /\ Control'
  <2>1. computed'
    BY <1>1 DEF Compute
  <2>2. Flags'
    BY <1>1, <2>1 DEF StreamInv, TypeOK, Flags
  <2>3. (atZero => sent = {})' /\ room = 0
    BY <1>1 DEF StreamInv, Control
  <2>4. Control'
    BY <1>1, <1>3, <2>1, <2>3 DEF Control
  <2> QED
    BY <2>2, <2>4
<1>5. Len(queue) \in Nat
  BY DEF StreamInv, TypeOK, QueueOK
<1>6. Numbers' /\ Rotated'
  BY <1>1, <1>3, <1>5 DEF StreamInv, TypeOK, Numbers, Rotated
<1> QED
  BY <1>2, <1>4, <1>6 DEF StreamInv, TypeOK

(* The next four lemmas follow the search and the production of packets.   *)
LEMMA SkipCellKeeps ==
  ASSUME StreamInv, SkipCell
  PROVE  StreamInv'
<1> DEFINE n == Len(queue)
           h == queue[1]
<1>0. /\ Skips /\ queue' = MoveBack(queue) /\ scanned' = scanned + 1
      /\ UNCHANGED <<ready, sent, passed, pc, left, budget, room, filled>>
  BY DEF SkipCell
<1>f. Flags' /\ Control' /\ UNCHANGED atZero
  <2>1. UNCHANGED <<atZero, computed, fault>>
    BY DEF SkipCell
  <2>2. Flags'
    BY <2>1 DEF StreamInv, TypeOK, Flags
  <2>3. Control'
    BY <1>0, <2>1 DEF StreamInv, Control
  <2> QED
    BY <2>1, <2>2, <2>3
<1>s. /\ queue \in Seq(Cells) /\ n \in Nat
      /\ scanned \in Nat /\ scanned < n /\ n > 0
      /\ \A i, j \in 1..n : queue[i] = queue[j] => i = j
  BY <1>0 DEF StreamInv, TypeOK, QueueOK, Numbers, Skips
<1>t. /\ MoveBack(queue) \in Seq(Cells)
      /\ Len(MoveBack(queue)) = n
      /\ \A i \in 1..(n - 1) : MoveBack(queue)[i] = queue[i + 1]
      /\ MoveBack(queue)[n] = h
      /\ Head(queue) = h
      /\ h \in Cells
  BY <1>s, MoveBackShifts
<1>1. /\ queue' \in Seq(Cells) /\ Len(queue') = n
      /\ queue'[n] = h
      /\ \A i \in 1..n : i # n => i + 1 \in 1..n /\ queue'[i] = queue[i + 1]
  <2>1. \A i \in 1..n : i # n => i \in 1..(n - 1) /\ i + 1 \in 1..n
    BY <1>s
  <2> QED
    BY <1>0, <1>t, <2>1
<1>2. Range(queue') = Range(queue)
  BY <1>0, <1>s, MoveBackRange
<1>3. h \notin ready /\ h \notin sent /\ ~atZero
  BY <1>0, <1>t DEF Skips, Blocked
<1>k. 1 \in 1..n /\ n \in 1..n
  BY <1>s
<1> USE DEF StreamInv
<1> HIDE DEF n, h
<1>4. \A i, j \in 1..n : queue'[i] = queue'[j] => i = j
  <2> SUFFICES ASSUME NEW i \in 1..n, NEW j \in 1..n, queue'[i] = queue'[j]
               PROVE  i = j
    OBVIOUS
  <2>1. \A k \in 1..n : k # n => queue'[k] # h
    <3> SUFFICES ASSUME NEW k \in 1..n, k # n, queue'[k] = h PROVE FALSE
      OBVIOUS
    <3>1. queue[k + 1] = queue[1] /\ k + 1 \in 1..n
      BY <1>1 DEF h
    <3>2. k + 1 = 1
      BY <3>1, <1>s, <1>k
    <3> QED
      BY <3>2
  <2>2. CASE i = n \/ j = n
    BY <2>2, <2>1, <1>1
  <2>3. CASE i # n /\ j # n
    <3>1. i + 1 = j + 1
      BY <2>3, <1>1, <1>s
    <3> QED
      BY <3>1
  <2> QED
    BY <2>2, <2>3
<1>5. QueueOK'
  BY <1>0, <1>1, <1>2, <1>4 DEF TypeOK, QueueOK
<1>6. Numbers'
  BY <1>0, <1>1, <1>s DEF TypeOK, Numbers
<1>7. Rotated'
  <2> SUFFICES ASSUME pc # "idle", NEW j \in 1..n, j > n - (scanned + 1)
               PROVE  queue'[j] \notin ready
    BY <1>0, <1>1 DEF Rotated
  <2>1. CASE j = n
    BY <2>1, <1>1, <1>3
  <2>2. CASE j # n
    <3>1. j + 1 \in 1..n /\ j + 1 > n - scanned /\ queue'[j] = queue[j + 1]
      BY <2>2, <1>1, <1>s
    <3> QED
      BY <3>1, <1>3 DEF Rotated, n
  <2> QED
    BY <2>1, <2>2
<1>8. SentLast'
  <2> SUFFICES ASSUME NEW i \in 1..n, NEW j \in 1..n, i < j, queue'[i] \in sent
               PROVE  queue'[j] \in sent \/ queue'[j] \notin ready
    BY <1>0, <1>1 DEF SentLast
  <2>1. CASE j = n
    BY <2>1, <1>1, <1>3
  <2>2. CASE j # n
    <3>1. i # n /\ i + 1 < j + 1
      BY <2>2, <1>s
    <3> QED
      BY <2>2, <3>1, <1>1 DEF SentLast, n
  <2> QED
    BY <2>1, <2>2
<1>9. PassedKnown'
  BY <1>0, <1>2 DEF PassedKnown
<1>10. InTurn'
  <2> SUFFICES ASSUME NEW i \in 1..n, NEW j \in 1..n, queue'[i] \in passed[queue'[j]]
               PROVE  j < i
    BY <1>0, <1>1 DEF InTurn
  <2>1. CASE j = n
    BY <2>1, <1>1, <1>3, <1>t DEF PassedKnown
  <2>2. CASE j # n /\ i = n
    BY <2>2, <1>s
  <2>3. CASE j # n /\ i # n
    <3>1. j + 1 < i + 1
      BY <2>3, <1>1 DEF InTurn, n
    <3> QED
      BY <3>1, <1>s
  <2> QED
    BY <2>1, <2>2, <2>3
<1> QED
  BY <1>f, <1>5, <1>6, <1>7, <1>8, <1>9, <1>10 DEF TypeOK

LEMMA CheckFailsKeeps ==
  ASSUME StreamInv, CheckFails
  PROVE  StreamInv'
<1>1. /\ pc' = "idle" /\ scanned' = 0 /\ left' = 0 /\ budget' = 0 /\ room' = 0 /\ filled' = 0
      /\ UNCHANGED <<queue, ready, sent, passed, atZero, computed>>
  BY DEF CheckFails, Stop
<1>2. UNCHANGED fault
  BY DEF CheckFails
<1>3. Flags'
  BY <1>1, <1>2 DEF StreamInv, TypeOK, Flags
<1>4. Control'
  BY <1>1 DEF StreamInv, Control
<1>5. QueueOK' /\ Numbers'
  <2>1. Len(queue) \in Nat
    BY DEF StreamInv, TypeOK, QueueOK
  <2> QED
    BY <1>1, <2>1 DEF StreamInv, TypeOK, QueueOK, Numbers
<1>6. Rotated' /\ SentLast' /\ InTurn' /\ PassedKnown'
  BY <1>1, OrderKept
<1> QED
  BY <1>3, <1>4, <1>5, <1>6 DEF StreamInv, TypeOK

(* What is available for a packet.                                         *)
LEMMA AvailableBounds ==
  ASSUME NEW b \in Nat \cup {-1}
  PROVE  /\ Available(b) \in Nat
         /\ Available(b) <= MaxPdu
         /\ b # -1 => Available(b) <= b
         /\ b = -1 => Available(b) = MaxPdu
         /\ HeaderSize + CellSize <= b => HeaderSize + CellSize <= Available(b)
BY SizesAssumption DEF Available

(* The number of packets of a burst.                                       *)
LEMMA PendingCells ==
  ASSUME StreamInv
  PROVE  IsFiniteSet(Pending) /\ Size \in Nat
<1>1. Pending \subseteq Cells
  BY RangeOfQueue DEF StreamInv, TypeOK, QueueOK, Pending
<1>2. IsFiniteSet(Pending)
  BY <1>1, CellsAssumption, FS_Subset
<1> QED
  BY <1>2, FS_CardinalityType DEF Size

LEMMA BurstSizeBounds ==
  ASSUME NEW d \in Nat \ {0}, Size \in Nat \ {0}
  PROVE  /\ BurstSize(d) \in Nat \ {0}
         /\ BurstSize(d) <= CeilDiv(d, MaxPdu)
         /\ (BurstSize(d) - 1) * ((MaxPdu - HeaderSize) \div BurstCellSize) < Size
         /\ (MaxPdu - HeaderSize) \div BurstCellSize \in Nat \ {0}
<1> DEFINE m == (MaxPdu - HeaderSize) \div BurstCellSize
           k == CeilDiv(Size, m)
           p == CeilDiv(d, MaxPdu)
<1>1. /\ MaxPdu - HeaderSize \in Nat /\ BurstCellSize \in Nat \ {0}
      /\ BurstCellSize <= MaxPdu - HeaderSize /\ MaxPdu \in Nat \ {0}
  BY SizesAssumption
<1>2. m \in Nat \ {0}
  BY <1>1, DivBounds
<1> HIDE DEF m
<1>3. k \in Nat \ {0} /\ (k - 1) * m < Size
  BY <1>2, CeilBounds
<1>4. p \in Nat \ {0}
  BY <1>1, CeilBounds
<1>5. BurstSize(d) = IF k <= p THEN k ELSE p
  BY DEF BurstSize, m
<1> HIDE DEF k, p
<1>6. (BurstSize(d) - 1) * m <= (k - 1) * m
  <2> DEFINE u == BurstSize(d) - 1
             v == k - 1
  <2>1. u \in Nat /\ v \in Nat /\ u <= v
    BY <1>3, <1>4, <1>5
  <2> HIDE DEF u, v
  <2>2. u * m <= v * m
    BY <1>2, <2>1, SMTT(30)
  <2> QED
    BY <2>2 DEF u, v
<1>7. (BurstSize(d) - 1) * m \in Int /\ (k - 1) * m \in Int
  BY <1>2, <1>3, <1>4, <1>5, SMTT(30)
<1>8. (BurstSize(d) - 1) * m < Size
  BY <1>3, <1>6, <1>7
<1> QED
  BY <1>2, <1>3, <1>4, <1>5, <1>8 DEF m, p

(* A cell found in front is pending.                                       *)
LEMMA FoundPending ==
  ASSUME StreamInv, Found
  PROVE  /\ Head(queue) = queue[1] /\ queue[1] \in Pending /\ queue[1] \in Cells
         /\ Len(queue) \in Nat /\ Len(queue) > 0
         /\ Size \in Nat \ {0}
         /\ ~atZero
<1>1. Len(queue) \in Nat /\ Len(queue) > 0 /\ queue \in Seq(Cells)
  BY DEF Found, StreamInv, TypeOK, QueueOK, Numbers
<1>2. Head(queue) = queue[1] /\ queue[1] \in Cells
  BY <1>1, MoveBackShifts
<1>3. queue[1] \in Pending /\ ~atZero
  BY <1>2 DEF Found, Pending, Blocked
<1>4. Size # 0
  BY <1>3, PendingCells, FS_EmptySet DEF Size
<1> QED
  BY <1>1, <1>2, <1>3, <1>4, PendingCells

(* A packet is started, or the data left is smaller than a header.         *)
LEMMA StartPacketEffect ==
  ASSUME StreamInv, NEW k \in Nat, k >= 1, NEW b \in Nat \cup {-1},
         StartPacket(k, b), UNCHANGED <<atZero, computed, queue>>
  PROVE  /\ Flags' /\ Numbers'
         /\ \/ fault' = TRUE /\ UNCHANGED <<pc, scanned, left, budget, room, filled>>
            \/ /\ pc' = "fill" /\ scanned' = 0 /\ left' = k /\ budget' = b
               /\ room' = CellsThatFit(Available(b)) /\ filled' = 0
               /\ UNCHANGED fault
         /\ HeaderSize + CellSize <= b \/ b = -1 =>
              /\ pc' = "fill" /\ left' = k /\ budget' = b
              /\ room' = CellsThatFit(Available(b)) /\ filled' = 0
              /\ UNCHANGED fault
<1> DEFINE a == Available(b)
<1>1. a \in Nat /\ a <= MaxPdu
      /\ (HeaderSize + CellSize <= b \/ b = -1 => HeaderSize + CellSize <= a)
  BY AvailableBounds, SizesAssumption
<1>2. HeaderSize \in Nat /\ CellSize \in Nat
  BY SizesAssumption
<1>3. Len(queue) \in Nat
  BY DEF StreamInv, TypeOK, QueueOK
<1>4. CASE a < HeaderSize
  <2>1. fault' = TRUE /\ UNCHANGED <<pc, scanned, left, budget, room, filled>>
    BY <1>4 DEF StartPacket
  <2>2. Flags'
    BY <2>1 DEF StreamInv, TypeOK, Flags
  <2>3. Numbers'
    BY <2>1, <1>3 DEF StreamInv, TypeOK, Numbers
  <2>4. ~(HeaderSize + CellSize <= b \/ b = -1)
    <3> HIDE DEF a
    <3> QED
      BY <1>1, <1>2, <1>4
  <2> QED
    BY <2>1, <2>2, <2>3, <2>4
<1>5. CASE ~(a < HeaderSize)
  <2>1. /\ pc' = "fill" /\ scanned' = 0 /\ left' = k /\ budget' = b
        /\ room' = CellsThatFit(a) /\ filled' = 0
    BY <1>5 DEF StartPacket
  <2>2. UNCHANGED fault
    BY <1>5 DEF StartPacket
  <2>3. Flags'
    BY <2>2 DEF StreamInv, TypeOK, Flags
  <2>4. CellsThatFit(a) \in Nat
    <3> HIDE DEF a
    <3> QED
      BY <1>1, <1>2, <1>5, PacketFits
  <2>5. Numbers'
    BY <2>1, <2>4, <1>3 DEF Numbers
  <2> QED
    BY <2>1, <2>2, <2>3, <2>5
<1> QED
  BY <1>4, <1>5

LEMMA CheckSucceedsKeeps ==
  ASSUME StreamInv, CheckSucceeds
  PROVE  StreamInv'
<1> DEFINE k == IF budget < 0 THEN left ELSE BurstSize(budget)
<1>1. /\ UNCHANGED <<atZero, computed, queue, ready, sent, passed>>
      /\ pc = "check" /\ Found
  BY DEF CheckSucceeds
<1>2. Size \in Nat \ {0} /\ ~atZero /\ Len(queue) \in Nat
  BY <1>1, FoundPending
<1>3. budget \in Amounts \cup {-1} /\ (budget = -1 => left >= 1) /\ left \in Nat /\ computed
  BY <1>1 DEF StreamInv, Control, TypeOK, Numbers
<1>4. QueueOK'
  BY <1>1 DEF StreamInv, TypeOK, QueueOK
<1>5. CASE TooSmall
  <2>1. Stop /\ UNCHANGED fault
    BY <1>5 DEF CheckSucceeds
  <2>2. Flags'
    BY <1>1, <2>1 DEF StreamInv, TypeOK, Flags
  <2>3. Control' /\ Numbers' /\ pc' = "idle"
    BY <1>1, <1>2, <2>1 DEF Stop, StreamInv, Control, Numbers
  <2>4. Rotated' /\ SentLast' /\ InTurn' /\ PassedKnown'
    BY <1>1, <2>3, OrderKept
  <2> QED
    BY <1>4, <2>2, <2>3, <2>4 DEF StreamInv, TypeOK
<1>6. CASE ~TooSmall
  <2>1. StartPacket(k, budget)
    BY <1>6 DEF CheckSucceeds
  <2>2. budget \in Nat \cup {-1} /\ (budget # -1 => budget \in Nat \ {0})
    BY <1>3, BurstsAssumption
  <2>3. k \in Nat /\ k >= 1
    <3>1. CASE budget = -1
      BY <3>1, <1>3
    <3>2. CASE budget # -1
      <4>1. BurstSize(budget) \in Nat \ {0}
        BY <3>2, <2>2, <1>2, BurstSizeBounds
      <4>2. k = BurstSize(budget)
        BY <3>2, <2>2
      <4> HIDE DEF k
      <4> QED
        BY <4>1, <4>2
    <3> QED
      BY <3>1, <3>2
  <2> HIDE DEF k
  <2>4. /\ Flags' /\ Numbers'
        /\ \/ UNCHANGED <<pc, scanned, left, budget, room, filled>>
           \/ pc' = "fill" /\ scanned' = 0 /\ left' = k /\ budget' = budget
    BY <1>1, <2>1, <2>2, <2>3, StartPacketEffect
  <2>5. Control'
    BY <1>1, <1>2, <1>3, <2>3, <2>4 DEF StreamInv, Control
  <2>6. Rotated' /\ SentLast' /\ InTurn' /\ PassedKnown'
    BY <1>1, <2>4, OrderKept
  <2> QED
    BY <1>4, <2>4, <2>5, <2>6 DEF StreamInv, TypeOK
<1> QED
  BY <1>5, <1>6

LEMMA FinishPacketKeeps ==
  ASSUME StreamInv, FinishPacket
  PROVE  StreamInv'
<1> DEFINE rest == IF budget < 0 THEN budget
                   ELSE budget - (HeaderSize + filled * CellSize)
<1>1. /\ UNCHANGED <<atZero, computed, queue, ready, sent, passed>>
      /\ pc = "fill"
  BY DEF FinishPacket
<1>2. Len(queue) \in Nat /\ ~atZero /\ computed /\ left \in Nat /\ left >= 1
      /\ budget \in Nat \cup {-1} /\ filled \in Nat
  BY <1>1 DEF StreamInv, Control, TypeOK, Numbers, QueueOK
<1>3. QueueOK'
  BY <1>1 DEF StreamInv, TypeOK, QueueOK
<1>4. rest \in Int
  <2>1. filled * CellSize \in Int /\ HeaderSize \in Int
    BY <1>2, SizesAssumption, SMTT(30)
  <2> QED
    BY <1>2, <2>1
<1>5. CASE budget >= 0 /\ rest < 0
  <2>0. ~(budget < 0) /\ ~(rest >= 0)
    <3> HIDE DEF rest
    <3> QED
      BY <1>2, <1>4, <1>5
  <2>1. fault' = TRUE /\ UNCHANGED <<pc, scanned, left, budget, room, filled>>
    BY <2>0, <1>5 DEF FinishPacket
  <2>2. Flags'
    BY <1>1, <2>1 DEF StreamInv, TypeOK, Flags
  <2>3. Control' /\ Numbers'
    BY <1>1, <1>2, <2>1 DEF StreamInv, TypeOK, Control, Numbers
  <2>4. Rotated' /\ SentLast' /\ InTurn' /\ PassedKnown'
    BY <1>1, <2>1, OrderKept
  <2> QED
    BY <1>3, <2>2, <2>3, <2>4 DEF StreamInv, TypeOK
<1>6. CASE ~(budget >= 0 /\ rest < 0) /\ left = 1
  <2>0. ~(left > 1)
    BY <1>6
  <2>1. Stop /\ UNCHANGED fault
    BY <2>0, <1>6 DEF FinishPacket
  <2>2. Flags'
    BY <1>1, <2>1 DEF StreamInv, TypeOK, Flags
  <2>3. Control' /\ Numbers' /\ pc' = "idle"
    BY <1>1, <1>2, <2>1 DEF Stop, StreamInv, Control, Numbers
  <2>4. Rotated' /\ SentLast' /\ InTurn' /\ PassedKnown'
    BY <1>1, <2>3, OrderKept
  <2> QED
    BY <1>3, <2>2, <2>3, <2>4 DEF StreamInv, TypeOK
<1>7. CASE budget < 0 /\ left # 1
  <2>0. ~(budget >= 0)
    BY <1>2, <1>7
  <2>1. /\ pc' = "check" /\ scanned' = 0 /\ left' = left - 1
        /\ room' = 0 /\ filled' = 0 /\ UNCHANGED <<budget, fault>>
    BY <2>0, <1>7 DEF FinishPacket
  <2>2. Flags'
    BY <1>1, <2>1 DEF StreamInv, TypeOK, Flags
  <2>3. Control' /\ Numbers'
    BY <1>1, <1>2, <1>7, <2>1 DEF StreamInv, Control, Numbers
  <2>4. Rotated' /\ SentLast' /\ InTurn' /\ PassedKnown'
    BY <1>1, <2>1, OrderKept
  <2> QED
    BY <1>3, <2>2, <2>3, <2>4 DEF StreamInv, TypeOK
<1>8. CASE budget >= 0 /\ ~(rest < 0) /\ left # 1
  <2>0. ~(budget < 0)
    BY <1>2, <1>8
  <2>1. StartPacket(left - 1, rest)
    BY <2>0, <1>8 DEF FinishPacket
  <2>2. rest \in Nat /\ left - 1 \in Nat /\ left - 1 >= 1
    <3> HIDE DEF rest
    <3> QED
      BY <1>2, <1>4, <1>8
  <2> HIDE DEF rest
  <2>3. /\ Flags' /\ Numbers'
        /\ \/ UNCHANGED <<pc, scanned, left, budget, room, filled>>
           \/ pc' = "fill" /\ scanned' = 0 /\ left' = left - 1 /\ budget' = rest
    BY <1>1, <2>1, <2>2, StartPacketEffect
  <2>4. Control'
    BY <1>1, <1>2, <2>2, <2>3 DEF StreamInv, Control
  <2>5. Rotated' /\ SentLast' /\ InTurn' /\ PassedKnown'
    BY <1>1, <2>3, OrderKept
  <2> QED
    BY <1>3, <2>3, <2>4, <2>5 DEF StreamInv, TypeOK
<1> QED
  BY <1>2, <1>5, <1>6, <1>7, <1>8

LEMMA SendCellKeeps ==
  ASSUME StreamInv, SendCell
  PROVE  StreamInv'
<1> DEFINE n == Len(queue)
           h == queue[1]
<1>0. /\ Found /\ pc = "fill" /\ room > 0
      /\ queue' = MoveBack(queue) /\ scanned' = 0
      /\ sent' = sent \cup {Head(queue)}
      /\ room' = room - 1 /\ filled' = filled + 1
      /\ passed' = [d \in Cells |-> IF d \in ready \ {Head(queue)}
                                    THEN passed[d] \cup {Head(queue)} ELSE {}]
      /\ UNCHANGED <<ready, pc, left, budget>>
  BY DEF SendCell
<1>f. Flags' /\ UNCHANGED <<atZero, computed>>
  <2>1. UNCHANGED <<atZero, computed, fault>>
    BY DEF SendCell
  <2> QED
    BY <2>1 DEF StreamInv, TypeOK, Flags
<1>3. Head(queue) = h /\ h \in ready /\ h \in Cells /\ ~atZero /\ n \in Nat /\ n > 0
  BY <1>0, FoundPending DEF Pending
<1>c. Control'
  BY <1>0, <1>f, <1>3 DEF StreamInv, Control
<1>s. /\ queue \in Seq(Cells)
      /\ \A i, j \in 1..n : queue[i] = queue[j] => i = j
      /\ passed \in [Cells -> SUBSET Cells]
      /\ ready \subseteq Range(queue) /\ sent \subseteq ready
  BY DEF StreamInv, TypeOK, QueueOK
<1>t. /\ MoveBack(queue) \in Seq(Cells)
      /\ Len(MoveBack(queue)) = n
      /\ \A i \in 1..(n - 1) : MoveBack(queue)[i] = queue[i + 1]
      /\ MoveBack(queue)[n] = h
  BY <1>s, <1>3, MoveBackShifts
<1>1. /\ queue' \in Seq(Cells) /\ Len(queue') = n
      /\ queue'[n] = h
      /\ \A i \in 1..n : i # n => i + 1 \in 1..n /\ queue'[i] = queue[i + 1]
  <2>1. \A i \in 1..n : i # n => i \in 1..(n - 1) /\ i + 1 \in 1..n
    BY <1>3
  <2> QED
    BY <1>0, <1>t, <2>1
<1>2. Range(queue') = Range(queue)
  BY <1>0, <1>s, <1>3, MoveBackRange
<1>k. 1 \in 1..n /\ n \in 1..n
  BY <1>3
<1>p. /\ sent' = sent \cup {h}
      /\ \A d \in Cells : passed'[d] = IF d \in ready \ {h} THEN passed[d] \cup {h} ELSE {}
      /\ passed' = [d \in Cells |-> IF d \in ready \ {h} THEN passed[d] \cup {h} ELSE {}]
  BY <1>0, <1>3
<1>r. \A i \in 1..n : queue[i] \in Cells
  BY <1>s
<1> HIDE DEF n, h
<1>5. \A k \in 1..n : k # n => queue'[k] # h
  <2> SUFFICES ASSUME NEW k \in 1..n, k # n, queue'[k] = h PROVE FALSE
    OBVIOUS
  <2>1. queue[k + 1] = queue[1] /\ k + 1 \in 1..n
    BY <1>1 DEF h
  <2>2. k + 1 = 1
    BY <2>1, <1>s, <1>k
  <2> QED
    BY <2>2
<1>6. \A i, j \in 1..n : queue'[i] = queue'[j] => i = j
  <2> SUFFICES ASSUME NEW i \in 1..n, NEW j \in 1..n, queue'[i] = queue'[j]
               PROVE  i = j
    OBVIOUS
  <2>1. CASE i = n \/ j = n
    BY <2>1, <1>5, <1>1
  <2>2. CASE i # n /\ j # n
    <3>1. i + 1 = j + 1
      BY <2>2, <1>1, <1>s
    <3> QED
      BY <3>1
  <2> QED
    BY <2>1, <2>2
<1>7. QueueOK'
  <2>1. passed' \in [Cells -> SUBSET Cells]
    BY <1>p, <1>s, <1>3
  <2>2. sent' \subseteq ready
    BY <1>p, <1>s, <1>3
  <2> QED
    BY <1>0, <1>1, <1>2, <1>6, <1>s, <2>1, <2>2 DEF QueueOK
<1>8. Numbers'
  BY <1>0, <1>1, <1>3 DEF StreamInv, TypeOK, Numbers
<1>9. Rotated'
  BY <1>0, <1>1, <1>3 DEF Rotated
<1>10. SentLast'
  <2> SUFFICES ASSUME NEW i \in 1..n, NEW j \in 1..n, i < j, queue'[i] \in sent'
               PROVE  queue'[j] \in sent' \/ queue'[j] \notin ready
    BY <1>0, <1>1 DEF SentLast
  <2>1. CASE j = n
    BY <2>1, <1>1, <1>p
  <2>2. CASE j # n
    <3>1. i # n /\ i + 1 < j + 1
      BY <2>2, <1>3
    <3>2. queue[i + 1] \in sent
      BY <3>1, <1>1, <1>5, <1>p
    <3> QED
      BY <2>2, <3>1, <3>2, <1>1, <1>p DEF StreamInv, SentLast, n
  <2> QED
    BY <2>1, <2>2
<1>11. PassedKnown'
  <2>1. h \in Range(queue)
    BY <1>3, <1>s
  <2> QED
    BY <1>0, <1>2, <1>p, <2>1 DEF StreamInv, PassedKnown
<1>12. InTurn'
  <2> SUFFICES ASSUME NEW i \in 1..n, NEW j \in 1..n, queue'[i] \in passed'[queue'[j]]
               PROVE  j < i
    BY <1>0, <1>1 DEF InTurn
  <2>1. queue'[j] \in Cells
    BY <1>1, <1>r, <1>3
  <2>2. queue'[j] # h
    BY <2>1, <1>p
  <2>3. j # n
    BY <2>2, <1>1
  <2>4. CASE i = n
    BY <2>3, <2>4, <1>3
  <2>5. CASE i # n
    <3>1. queue'[i] \in passed[queue'[j]]
      BY <2>1, <2>5, <1>5, <1>p
    <3>2. queue[i + 1] \in passed[queue[j + 1]] /\ i + 1 \in 1..n /\ j + 1 \in 1..n
      BY <3>1, <2>3, <2>5, <1>1
    <3>3. j + 1 < i + 1
      BY <3>2 DEF StreamInv, InTurn, n
    <3> QED
      BY <3>3, <1>3
  <2> QED
    BY <2>4, <2>5
<1> QED
  BY <1>f, <1>c, <1>7, <1>8, <1>9, <1>10, <1>11, <1>12 DEF StreamInv, TypeOK

(* The invariant of the queue holds in every reachable state.              *)
THEOREM StreamInvariant == Spec => []StreamInv
<1>1. StreamInv /\ [Next]_vars => StreamInv'
  <2> SUFFICES ASSUME StreamInv, [Next]_vars PROVE StreamInv'
    OBVIOUS
  <2>1. CASE NewTime
    BY <2>1, NewTimeKeeps
  <2>2. ASSUME NEW c \in Cells, CreateCell(c) PROVE StreamInv'
    BY <2>2, CreateCellKeeps
  <2>3. ASSUME NEW r \in SUBSET Range(queue), ComputeValues(r) PROVE StreamInv'
    BY <2>3, ComputeValuesKeeps
  <2>4. ASSUME NEW r \in SUBSET Range(queue), NEW n \in Bursts, SchedulePackets(n, r)
        PROVE  StreamInv'
    <3>1. n \in Nat /\ n >= 1
      BY BurstsAssumption
    <3> QED
      BY <2>4, <3>1, ScheduleKeeps DEF SchedulePackets
  <2>5. ASSUME NEW r \in SUBSET Range(queue), NEW d \in Amounts, ScheduleData(d, r)
        PROVE  StreamInv'
    BY <2>5, ScheduleKeeps DEF ScheduleData
  <2>6. CASE SkipCell
    BY <2>6, SkipCellKeeps
  <2>7. CASE CheckSucceeds
    BY <2>7, CheckSucceedsKeeps
  <2>8. CASE CheckFails
    BY <2>8, CheckFailsKeeps
  <2>9. CASE SendCell
    BY <2>9, SendCellKeeps
  <2>10. CASE FinishPacket
    BY <2>10, FinishPacketKeeps
  <2>11. CASE UNCHANGED vars
    <3>1. UNCHANGED <<atZero, computed, fault>>
      BY <2>11 DEF vars, production
    <3>2. UNCHANGED <<queue, ready, sent, passed, pc, scanned, left, budget, room, filled>>
      BY <2>11 DEF vars, production
    <3>3. Flags'
      BY <3>1 DEF StreamInv, TypeOK, Flags
    <3>4. QueueOK' /\ Numbers' /\ Control'
      BY <3>1, <3>2 DEF StreamInv, TypeOK, QueueOK, Numbers, Control
    <3>5. Rotated' /\ SentLast' /\ InTurn' /\ PassedKnown'
      BY <3>1, <3>2, OrderKept
    <3> QED
      BY <3>3, <3>4, <3>5 DEF StreamInv, TypeOK
  <2> QED
    BY <2>1, <2>2, <2>3, <2>4, <2>5, <2>6, <2>7, <2>8, <2>9, <2>10, <2>11
    DEF Next, Produce
<1> QED
  BY <1>1, StreamInit, PTL DEF Spec

(* Type correctness: no cell is in the queue twice, and only cells with a  *)
(* valid value were sent.                                                  *)
THEOREM StreamTypeCorrect == Spec => []TypeOK
<1>1. StreamInv => TypeOK
  BY DEF StreamInv
<1> QED
  BY <1>1, StreamInvariant, PTL

(* Only a cell at the front is sent, and it is in turn: no cell that waits *)
(* has seen it pass.                                                       *)
LEMMA FrontInTurn ==
  ASSUME StreamInv, SendCell
  PROVE  /\ Head(queue) \in Cells /\ Head(queue) \notin sent
         /\ sent' = sent \cup {Head(queue)}
         /\ \A d \in ready : Head(queue) \notin passed[d]
<1>1. Found /\ sent' = sent \cup {Head(queue)}
  BY DEF SendCell
<1>2. /\ Head(queue) = queue[1] /\ queue[1] \in Cells
      /\ Len(queue) \in Nat /\ Len(queue) > 0
  BY <1>1, FoundPending
<1>3. ASSUME NEW d \in ready, queue[1] \in passed[d] PROVE FALSE
  <2>1. Range(queue) = {queue[i] : i \in 1..Len(queue)} /\ ready \subseteq Range(queue)
    BY RangeOfQueue DEF StreamInv, TypeOK, QueueOK
  <2>2. PICK j \in 1..Len(queue) : d = queue[j]
    BY <2>1
  <2>3. 1 \in 1..Len(queue)
    BY <1>2
  <2>4. j < 1
    BY <1>3, <2>2, <2>3 DEF StreamInv, InTurn
  <2> QED
    BY <2>4
<1>4. Head(queue) \notin sent
  BY <1>1 DEF Found, Blocked
<1> QED
  BY <1>1, <1>2, <1>3, <1>4

(* No other step sends a cell.                                             *)
LEMMA OthersSendNothing ==
  ASSUME [Next]_vars, ~SendCell
  PROVE  sent' \subseteq sent
BY DEF Next, Produce, NewTime, CreateCell, ComputeValues, SchedulePackets,
       ScheduleData, Schedule, SkipCell, CheckSucceeds, CheckFails, FinishPacket, vars

(* No cell is sent twice while another one waits: nextCell takes the cell  *)
(* in front, and a cell that was passed over stands behind it.             *)
THEOREM FairTurns == Spec => NoOvertaking
<1> DEFINE Turn == \A c \in sent' \ sent, d \in ready : c # d => c \notin passed[d]
<1>1. StreamInv /\ [Next]_vars => [Turn]_vars
  BY FrontInTurn, OthersSendNothing
<1> QED
  BY <1>1, StreamInvariant, PTL DEF NoOvertaking, Spec

(* What EveryCellTravels rests on: while a cell waits with a valid value,  *)
(* each cell that is sent is one that it has not seen pass since it began  *)
(* to wait, and these are fewer than the cells of the grid.  So it is sent *)
(* itself before as many others are.                                       *)
WaitBounded == \A d \in Cells :
  d \notin passed[d] /\ Cardinality(passed[d]) < Cardinality(Cells)

WaitCounted == [][\A c \in sent' \ sent, d \in ready : c # d =>
  /\ passed'[d] = passed[d] \cup {c}
  /\ Cardinality(passed'[d]) = Cardinality(passed[d]) + 1]_vars

(* A waiting cell is passed by fewer cells than the grid has.              *)
THEOREM WaitBoundHolds == Spec => []WaitBounded
<1> DEFINE Others == \A d \in Cells : d \notin passed[d]
<1>1. Init => Others
  BY DEF Init
<1>2. Others /\ [Next]_vars => Others'
  <2> SUFFICES ASSUME Others, [Next]_vars, NEW d \in Cells PROVE d \notin passed'[d]
    OBVIOUS
  <2>1. \/ passed' = passed
        \/ passed' = [c \in Cells |-> IF c \in ready' THEN passed[c] ELSE {}]
        \/ passed' = [c \in Cells |-> IF c \in ready \ {Head(queue)}
                                      THEN passed[c] \cup {Head(queue)} ELSE {}]
    BY DEF Next, Produce, NewTime, CreateCell, ComputeValues, SchedulePackets,
           ScheduleData, Schedule, Compute, SkipCell, CheckSucceeds, CheckFails,
           SendCell, FinishPacket, vars
  <2> QED
    BY <2>1
<1>3. Spec => []Others
  BY <1>1, <1>2, PTL DEF Spec
<1>4. TypeOK /\ Others => WaitBounded
  <2> SUFFICES ASSUME TypeOK, Others, NEW d \in Cells
               PROVE  Cardinality(passed[d]) < Cardinality(Cells)
    BY DEF WaitBounded
  <2>1. passed[d] \subseteq Cells \ {d}
    BY DEF TypeOK, QueueOK
  <2>2. /\ IsFiniteSet(Cells \ {d})
        /\ Cardinality(Cells \ {d}) = Cardinality(Cells) - 1
        /\ Cardinality(Cells) \in Nat
    BY CellsAssumption, FS_RemoveElement, FS_CardinalityType
  <2>3. IsFiniteSet(passed[d]) /\ Cardinality(passed[d]) <= Cardinality(Cells \ {d})
    BY <2>1, <2>2, FS_Subset
  <2>4. Cardinality(passed[d]) \in Nat
    BY <2>3, FS_CardinalityType
  <2> QED
    BY <2>2, <2>3, <2>4
<1> QED
  BY <1>3, <1>4, StreamTypeCorrect, PTL

(* Every cell that is sent while another waits is one more that passed it. *)
THEOREM WaitCountHolds == Spec => WaitCounted
<1>1. ASSUME StreamInv, [Next]_vars
      PROVE  [\A c \in sent' \ sent, d \in ready : c # d =>
                /\ passed'[d] = passed[d] \cup {c}
                /\ Cardinality(passed'[d]) = Cardinality(passed[d]) + 1]_vars
  <2> SUFFICES ASSUME NEW c \in sent' \ sent, NEW d \in ready, c # d
               PROVE  /\ passed'[d] = passed[d] \cup {c}
                      /\ Cardinality(passed'[d]) = Cardinality(passed[d]) + 1
    OBVIOUS
  <2>1. SendCell
    BY <1>1, OthersSendNothing
  <2>2. c = Head(queue) /\ c \notin passed[d]
    BY <1>1, <2>1, FrontInTurn
  <2>3. d \in Cells /\ passed[d] \subseteq Cells
    <3>1. /\ queue \in Seq(Cells) /\ ready \subseteq Range(queue)
          /\ passed \in [Cells -> SUBSET Cells]
      BY <1>1 DEF StreamInv, TypeOK, QueueOK
    <3> QED
      BY <3>1, RangeOfQueue
  <2>4. passed'[d] = passed[d] \cup {c}
    BY <2>1, <2>2, <2>3 DEF SendCell
  <2>5. IsFiniteSet(passed[d])
    BY <2>3, CellsAssumption, FS_Subset
  <2> QED
    BY <2>2, <2>4, <2>5, FS_AddElement
<1> QED
  BY <1>1, StreamInvariant, PTL DEF WaitCounted, Spec

-----------------------------------------------------------------------------
(* Bursts of data.                                                         *)

(* A smaller cell fits at least as often.                                  *)
LEMMA DivAntitone ==
  ASSUME NEW a \in Nat, NEW b \in Nat \ {0}, NEW c \in Nat \ {0}, b <= c
  PROVE  a \div c <= a \div b
<1> DEFINE n == a \div c
           k == a \div b
<1>1. n \in Nat /\ k \in Nat /\ n * c <= a /\ a < k * b + b
  BY DivBounds
<1> HIDE DEF n, k
<1> SUFFICES ASSUME k + 1 <= n PROVE FALSE
  BY <1>1 DEF n, k
<1>2. (k + 1) * b <= n * b
  BY <1>1, SMTT(30)
<1>3. n * b <= n * c
  BY <1>1, SMTT(30)
<1>4. (k + 1) * b = k * b + b
  BY <1>1, SMTT(30)
<1>5. k * b \in Nat /\ n * b \in Nat /\ n * c \in Nat
  BY <1>1, SMTT(30)
<1> QED
  BY <1>1, <1>2, <1>3, <1>4, <1>5

(* Multiples grow with their factor.                                       *)
LEMMA MultipleGrows ==
  ASSUME NEW a \in Nat, NEW b \in Nat, NEW f \in Nat, a <= b
  PROVE  a * f \in Nat /\ b * f \in Nat /\ a * f <= b * f
BY SMTT(30)

LEMMA PreviousMultiple ==
  ASSUME NEW a \in Nat, NEW f \in Nat
  PROVE  a * f \in Nat /\ (a - 1) * f = a * f - f
BY SMTT(30)

(* What the burst holds at most while a packet is filled.                  *)
LEMMA FilledBounds ==
  ASSUME StreamInv, BurstInv, pc = "fill"
  PROVE  /\ HeaderSize + filled * CellSize <= MaxPdu
         /\ budget # -1 => HeaderSize + filled * CellSize <= budget
         /\ filled * CellSize \in Nat
         /\ filled <= (MaxPdu - HeaderSize) \div BurstCellSize
<1> DEFINE a == Available(budget)
           f == CellsThatFit(a)
           m == (MaxPdu - HeaderSize) \div BurstCellSize
<1>1. /\ filled \in Nat /\ room \in Nat /\ left \in Nat /\ left >= 1
      /\ budget \in Nat \cup {-1}
  BY DEF StreamInv, TypeOK, Numbers, Control
<1>2. /\ HeaderSize \in Nat /\ CellSize \in Nat \ {0} /\ MaxPdu \in Nat
      /\ BurstCellSize \in Nat \ {0} /\ BurstCellSize <= CellSize
      /\ HeaderSize + CellSize <= MaxPdu
  BY SizesAssumption
<1>3. /\ a \in Nat /\ a <= MaxPdu
      /\ budget # -1 => a <= budget
  BY <1>1, AvailableBounds
<1>4. HeaderSize + CellSize <= a
  <2>1. CASE budget = -1
    BY <2>1, <1>1, <1>2, AvailableBounds
  <2>2. CASE budget # -1
    <3>1. left - 1 \in Nat
      BY <1>1
    <3>2. (left - 1) * MaxPdu \in Nat
      BY <3>1, <1>2, MultipleGrows
    <3>3. budget >= (left - 1) * MaxPdu + (HeaderSize + CellSize)
      BY <2>2 DEF BurstInv, BudgetLeft
    <3>4. HeaderSize + CellSize <= budget
      BY <1>1, <1>2, <2>2, <3>2, <3>3
    <3> QED
      BY <1>1, <3>4, AvailableBounds
  <2> QED
    BY <2>1, <2>2
<1>5. room + filled <= f
  BY DEF BurstInv, PacketRoom
<1>6. /\ f \in Nat /\ HeaderSize + f * CellSize <= a
      /\ f <= (MaxPdu - HeaderSize) \div CellSize
  <2> HIDE DEF a
  <2>1. HeaderSize <= a
    BY <1>2, <1>3, <1>4
  <2> QED
    BY <1>3, <2>1, PacketFits DEF CellsThatFit
<1> HIDE DEF a, f
<1>7. filled <= f
  BY <1>1, <1>5, <1>6
<1>8. filled * CellSize \in Nat /\ f * CellSize \in Nat /\ filled * CellSize <= f * CellSize
  BY <1>1, <1>2, <1>6, <1>7, MultipleGrows
<1>9. HeaderSize + filled * CellSize <= a
  BY <1>2, <1>3, <1>6, <1>8
<1>10. /\ MaxPdu - HeaderSize \in Nat /\ m \in Nat
       /\ (MaxPdu - HeaderSize) \div CellSize \in Nat
       /\ (MaxPdu - HeaderSize) \div CellSize <= m
  <2>1. MaxPdu - HeaderSize \in Nat
    BY <1>2
  <2> QED
    BY <1>2, <2>1, DivBounds, DivAntitone
<1> HIDE DEF m
<1>11. filled <= m
  <2> DEFINE u == (MaxPdu - HeaderSize) \div CellSize
  <2>1. u \in Nat /\ f <= u /\ u <= m
    BY <1>6, <1>10
  <2> HIDE DEF u
  <2> QED
    BY <1>1, <1>6, <1>7, <1>10, <2>1
<1> QED
  BY <1>1, <1>2, <1>3, <1>8, <1>9, <1>11 DEF m

(* An amount that fits leaves every packet of its burst enough data.       *)
LEMMA AmountSuffices ==
  ASSUME AmountsFit, NEW d \in Amounts, NEW k \in Nat \ {0}, k <= CeilDiv(d, MaxPdu)
  PROVE  /\ d >= (k - 1) * MaxPdu + (HeaderSize + CellSize)
         /\ d >= HeaderSize + CellSize
<1> DEFINE p == CeilDiv(d, MaxPdu)
<1>1. d \in Nat \ {0} /\ MaxPdu \in Nat \ {0} /\ HeaderSize \in Nat /\ CellSize \in Nat
  BY BurstsAssumption, SizesAssumption
<1>2. p \in Nat \ {0}
  BY <1>1, CeilBounds
<1>3. d - (p - 1) * MaxPdu >= HeaderSize + CellSize
  BY DEF AmountsFit
<1> HIDE DEF p
<1>4. k - 1 \in Nat /\ p - 1 \in Nat /\ k - 1 <= p - 1
  BY <1>2 DEF p
<1> DEFINE u == k - 1
           v == p - 1
<1>5. u * MaxPdu \in Nat /\ v * MaxPdu \in Nat /\ u * MaxPdu <= v * MaxPdu
  <2> HIDE DEF u, v
  <2> SUFFICES u \in Nat /\ v \in Nat /\ u <= v
    BY <1>1, MultipleGrows
  <2> QED
    BY <1>4 DEF u, v
<1>6. d - v * MaxPdu >= HeaderSize + CellSize
  BY <1>3
<1> HIDE DEF u, v
<1>7. d >= u * MaxPdu + (HeaderSize + CellSize) /\ d >= HeaderSize + CellSize
  BY <1>1, <1>5, <1>6
<1> QED
  BY <1>7 DEF u

LEMMA BurstInit == Init => BurstInv
BY DEF Init, BurstInv, PacketRoom, BudgetLeft, CellsLeft

(* Steps while no packet is under way.                                     *)
LEMMA BurstIdle ==
  ASSUME BurstInv, UNCHANGED fault, pc' # "fill"
  PROVE  BurstInv'
<1>1. ~fault'
  BY DEF BurstInv
<1>2. PacketRoom' /\ BudgetLeft' /\ CellsLeft'
  BY DEF PacketRoom, BudgetLeft, CellsLeft
<1> QED
  BY <1>1, <1>2 DEF BurstInv

(* A step that changes neither packet nor pending cells.                   *)
LEMMA BurstSame ==
  ASSUME BurstInv, UNCHANGED fault,
         UNCHANGED <<pc, left, budget, room, filled>>, UNCHANGED Pending
  PROVE  BurstInv'
<1>1. ~fault'
  BY DEF BurstInv
<1>2. PacketRoom' /\ BudgetLeft' /\ CellsLeft'
  BY DEF BurstInv, PacketRoom, BudgetLeft, CellsLeft, Available, Size
<1> QED
  BY <1>1, <1>2 DEF BurstInv

(* A new packet, with the data and the cells that are left for it.         *)
LEMMA StartPacketKeepsBurst ==
  ASSUME StreamInv, BurstInv, NEW k \in Nat, k >= 1, NEW b \in Nat \cup {-1},
         StartPacket(k, b), UNCHANGED <<atZero, computed, queue>>, UNCHANGED Pending,
         b # -1 => /\ b >= (k - 1) * MaxPdu + (HeaderSize + CellSize)
                   /\ b >= HeaderSize + CellSize
                   /\ (k - 1) * ((MaxPdu - HeaderSize) \div BurstCellSize) < Size
  PROVE  /\ BurstInv'
         /\ pc' = "fill" /\ UNCHANGED fault
         /\ room' \in 1..CellsThatFit(MaxPdu)
<1>1. /\ HeaderSize \in Nat /\ CellSize \in Nat \ {0} /\ MaxPdu \in Nat
      /\ HeaderSize + CellSize <= MaxPdu
  BY SizesAssumption
<1>2. HeaderSize + CellSize <= b \/ b = -1
  BY <1>1
<1>3. /\ pc' = "fill" /\ left' = k /\ budget' = b
      /\ room' = CellsThatFit(Available(b)) /\ filled' = 0
  BY <1>2, StartPacketEffect
<1>4. UNCHANGED fault
  BY <1>2, StartPacketEffect
<1> DEFINE a == Available(b)
<1>5. a \in Nat /\ a <= MaxPdu /\ HeaderSize + CellSize <= a
  BY <1>1, <1>2, AvailableBounds
<1>6. CellsThatFit(a) \in Nat /\ CellsThatFit(a) <= CellsThatFit(MaxPdu) /\ CellsThatFit(a) >= 1
  <2> HIDE DEF a
  <2>1. HeaderSize <= a
    BY <1>1, <1>5
  <2> QED
    BY <1>5, <2>1, PacketFits
<1>7. CellsThatFit(MaxPdu) \in Nat
  <2>1. HeaderSize <= MaxPdu
    BY <1>1
  <2> QED
    BY <1>1, <2>1, PacketFits
<1>8. room' \in 1..CellsThatFit(MaxPdu)
  <2> HIDE DEF a
  <2> DEFINE x == CellsThatFit(a)
             y == CellsThatFit(MaxPdu)
  <2>1. x \in Nat /\ x <= y /\ x >= 1 /\ y \in Nat
    BY <1>6, <1>7
  <2>2. room' = x
    BY <1>3 DEF a
  <2> HIDE DEF x, y
  <2>3. x \in 1..y
    BY <2>1
  <2> QED
    BY <2>2, <2>3 DEF y
<1>9. PacketRoom'
  <2> DEFINE x == CellsThatFit(a)
  <2>1. (CellsThatFit(Available(budget)))' = x /\ x \in Nat /\ room' = x
    BY <1>3, <1>6 DEF CellsThatFit, Available
  <2> HIDE DEF x
  <2>2. room' + filled' <= (CellsThatFit(Available(budget)))'
    BY <1>3, <2>1
  <2> QED
    BY <2>2 DEF PacketRoom
<1>10. BudgetLeft'
  BY <1>3 DEF BudgetLeft
<1>11. CellsLeft'
  <2>1. Size' = Size /\ Size \in Nat
    BY PendingCells DEF Size
  <2>2. Size' + filled' = Size
    BY <1>3, <2>1
  <2> QED
    BY <1>3, <2>2 DEF CellsLeft
<1>12. ~fault'
  BY <1>4 DEF BurstInv
<1> QED
  BY <1>3, <1>4, <1>8, <1>9, <1>10, <1>11, <1>12 DEF BurstInv

LEMMA CheckSucceedsKeepsBurst ==
  ASSUME AmountsFit, StreamInv, BurstInv, CheckSucceeds
  PROVE  /\ BurstInv' /\ UNCHANGED fault
         /\ TooSmall => pc' = "idle" /\ room' = 0
         /\ ~TooSmall => pc' = "fill" /\ room' \in 1..CellsThatFit(MaxPdu)
<1> DEFINE k == IF budget < 0 THEN left ELSE BurstSize(budget)
<1>1. /\ UNCHANGED <<atZero, computed, queue, ready, sent, passed>>
      /\ pc = "check" /\ Found
  BY DEF CheckSucceeds
<1>2. Size \in Nat \ {0} /\ UNCHANGED Pending
  BY <1>1, FoundPending DEF Pending, Blocked
<1>3. /\ budget \in Amounts \cup {-1} /\ (budget = -1 => left >= 1) /\ left \in Nat
      /\ budget \in Nat \cup {-1}
  BY <1>1 DEF StreamInv, Control, TypeOK, Numbers
<1>4. CASE TooSmall
  <2>1. Stop
    BY <1>4 DEF CheckSucceeds
  <2>2. UNCHANGED fault
    BY <1>4 DEF CheckSucceeds
  <2>3. pc' = "idle" /\ room' = 0
    BY <2>1 DEF Stop
  <2> QED
    BY <1>4, <2>2, <2>3, BurstIdle
<1>5. CASE ~TooSmall
  <2>1. StartPacket(k, budget)
    BY <1>5 DEF CheckSucceeds
  <2>2. CASE budget = -1
    <3>1. k \in Nat /\ k >= 1
      BY <2>2, <1>3
    <3> HIDE DEF k
    <3> QED
      BY <1>1, <1>2, <1>3, <1>5, <2>1, <2>2, <3>1, StartPacketKeepsBurst
  <2>3. CASE budget # -1
    <3>1. budget \in Amounts /\ budget \in Nat \ {0} /\ k = BurstSize(budget)
      BY <2>3, <1>3, BurstsAssumption
    <3> HIDE DEF k
    <3>2. /\ k \in Nat \ {0} /\ k <= CeilDiv(budget, MaxPdu)
          /\ (k - 1) * ((MaxPdu - HeaderSize) \div BurstCellSize) < Size
      BY <1>2, <3>1, BurstSizeBounds
    <3>3. /\ budget >= (k - 1) * MaxPdu + (HeaderSize + CellSize)
          /\ budget >= HeaderSize + CellSize
      BY <3>1, <3>2, AmountSuffices
    <3>4. k \in Nat /\ k >= 1
      BY <3>2
    <3> QED
      BY <1>1, <1>2, <1>3, <1>5, <2>1, <3>2, <3>3, <3>4, StartPacketKeepsBurst
  <2> QED
    BY <2>2, <2>3
<1> QED
  BY <1>4, <1>5

(* Sending takes one cell from the pending ones into the packet.           *)
LEMMA SendCellTakes ==
  ASSUME StreamInv, SendCell
  PROVE  /\ queue[1] \in Pending
         /\ Pending' = Pending \ {queue[1]}
         /\ sent' = sent \cup {queue[1]}
         /\ room > 0 /\ room' = room - 1 /\ filled' = filled + 1
         /\ pc = "fill"
         /\ UNCHANGED <<pc, left, budget>> /\ UNCHANGED fault
<1>1. /\ Found /\ sent' = sent \cup {Head(queue)} /\ pc = "fill" /\ room > 0
      /\ room' = room - 1 /\ filled' = filled + 1
      /\ UNCHANGED <<atZero, ready, pc, left, budget>>
  BY DEF SendCell
<1>2. UNCHANGED fault
  BY DEF SendCell
<1>3. Head(queue) = queue[1] /\ queue[1] \in Pending
  BY <1>1, FoundPending
<1>4. Pending' = Pending \ {queue[1]}
  BY <1>1, <1>3 DEF Pending, Blocked
<1> QED
  BY <1>1, <1>2, <1>3, <1>4

LEMMA SendCellKeepsBurst ==
  ASSUME StreamInv, BurstInv, SendCell
  PROVE  BurstInv'
<1>1. /\ queue[1] \in Pending /\ Pending' = Pending \ {queue[1]}
      /\ room' = room - 1 /\ filled' = filled + 1
      /\ UNCHANGED <<pc, left, budget>> /\ pc = "fill"
  BY SendCellTakes
<1>2. ~fault'
  BY SendCellTakes DEF BurstInv
<1>3. room \in Nat /\ filled \in Nat /\ Size \in Nat
  BY PendingCells DEF StreamInv, TypeOK, Numbers
<1>4. Size' = Size - 1
  BY <1>1, PendingCells, FS_RemoveElement DEF Size
<1>5. room' + filled' = room + filled
  BY <1>1, <1>3
<1>6. PacketRoom'
  <2>1. (CellsThatFit(Available(budget)))' = CellsThatFit(Available(budget))
    BY <1>1 DEF CellsThatFit, Available
  <2> QED
    BY <1>1, <1>5, <2>1 DEF BurstInv, PacketRoom
<1>7. BudgetLeft'
  BY <1>1 DEF BurstInv, BudgetLeft
<1>8. Size' + filled' = Size + filled
  BY <1>1, <1>3, <1>4
<1>9. CellsLeft'
  BY <1>1, <1>8 DEF BurstInv, CellsLeft
<1> QED
  BY <1>2, <1>6, <1>7, <1>9 DEF BurstInv

(* When hasNext ends without a cell, nothing is pending.                   *)
LEMMA NothingPending ==
  ASSUME StreamInv, pc # "idle", Exhausted
  PROVE  Pending = {}
<1> SUFFICES ASSUME NEW c \in Pending PROVE FALSE
  OBVIOUS
<1>1. c \in ready /\ c \notin sent /\ ~atZero
  BY DEF Pending, Blocked
<1>2. /\ queue \in Seq(Cells) /\ Len(queue) \in Nat /\ ready \subseteq Range(queue)
      /\ scanned \in 0..Len(queue)
  BY DEF StreamInv, TypeOK, QueueOK, Numbers
<1>3. PICK j \in 1..Len(queue) : c = queue[j]
  BY <1>1, <1>2, RangeOfQueue
<1>4. CASE scanned = Len(queue)
  <2>1. j > Len(queue) - scanned
    BY <1>2, <1>4
  <2> QED
    BY <1>1, <1>3, <2>1 DEF StreamInv, Rotated
<1>5. CASE scanned # Len(queue)
  <2>1. scanned < Len(queue) /\ Len(queue) > 0 /\ 1 \in 1..Len(queue)
    BY <1>2, <1>5
  <2>2. Head(queue) = queue[1]
    BY <1>2, <2>1
  <2>3. queue[1] \in sent
    BY <1>1, <2>1, <2>2 DEF Exhausted, Blocked
  <2>4. 1 < j
    BY <1>1, <1>2, <1>3, <2>3
  <2> QED
    BY <1>1, <1>3, <2>1, <2>3, <2>4 DEF StreamInv, SentLast
<1> QED
  BY <1>4, <1>5

(* The end of a packet: the burst is over, canProducePacket is asked       *)
(* again, or the next packet is started with enough data and cells.        *)
LEMMA FinishPacketCases ==
  ASSUME StreamInv, BurstInv, FinishPacket
  PROVE  /\ BurstInv' /\ UNCHANGED fault /\ pc = "fill"
         /\ UNCHANGED Pending /\ UNCHANGED sent
         /\ room = 0 \/ Pending = {}
         /\ \/ pc' = "idle" /\ room' = 0
            \/ pc' = "check" /\ budget' = -1 /\ room' = 0
            \/ pc' = "fill" /\ room' \in 1..CellsThatFit(MaxPdu) /\ Pending # {}
<1> DEFINE rest == IF budget < 0 THEN budget
                   ELSE budget - (HeaderSize + filled * CellSize)
           m == (MaxPdu - HeaderSize) \div BurstCellSize
<1>1. /\ UNCHANGED <<atZero, computed, queue, ready, sent, passed>>
      /\ pc = "fill"
      /\ room = 0 \/ Exhausted
  BY DEF FinishPacket
<1>2. UNCHANGED Pending /\ UNCHANGED sent /\ (room = 0 \/ Pending = {})
  BY <1>1, NothingPending DEF Pending, Blocked
<1>3. left \in Nat /\ left >= 1 /\ budget \in Nat \cup {-1} /\ filled \in Nat
  BY <1>1 DEF StreamInv, Control, TypeOK, Numbers
<1>4. /\ HeaderSize \in Nat /\ CellSize \in Nat \ {0} /\ MaxPdu \in Nat
  BY SizesAssumption
<1>5. /\ HeaderSize + filled * CellSize <= MaxPdu
      /\ budget # -1 => HeaderSize + filled * CellSize <= budget
      /\ filled * CellSize \in Nat
      /\ filled <= m
  BY <1>1, FilledBounds
<1>6. ~(budget >= 0 /\ rest < 0)
  <2> DEFINE w == filled * CellSize
  <2>1. w \in Nat /\ (budget # -1 => HeaderSize + w <= budget)
    BY <1>5
  <2>2. rest = IF budget < 0 THEN budget ELSE budget - (HeaderSize + w)
    OBVIOUS
  <2> HIDE DEF w, rest
  <2> QED
    BY <1>3, <1>4, <2>1, <2>2
<1>7. CASE left = 1
  <2>1. ~(left > 1)
    BY <1>7
  <2>2. Stop
    BY <1>6, <2>1 DEF FinishPacket
  <2>3. UNCHANGED fault
    BY <1>6, <2>1 DEF FinishPacket
  <2>4. pc' = "idle" /\ room' = 0
    BY <2>2 DEF Stop
  <2> QED
    BY <1>1, <1>2, <2>3, <2>4, BurstIdle
<1>8. CASE left # 1 /\ budget < 0
  <2>1. ~(budget >= 0)
    BY <1>3, <1>8
  <2>2. pc' = "check" /\ room' = 0 /\ budget' = budget
    BY <1>8, <2>1 DEF FinishPacket
  <2>3. UNCHANGED fault
    BY <1>8, <2>1 DEF FinishPacket
  <2>4. budget = -1
    BY <1>3, <1>8
  <2> QED
    BY <1>1, <1>2, <2>2, <2>3, <2>4, BurstIdle
<1>9. CASE left # 1 /\ budget >= 0
  <2>1. ~(budget < 0) /\ budget # -1
    BY <1>3, <1>9
  <2>2. StartPacket(left - 1, rest)
    BY <1>6, <1>9, <2>1 DEF FinishPacket
  <2>3. left - 1 \in Nat /\ left - 1 >= 1 /\ m \in Nat
    <3>1. MaxPdu - HeaderSize \in Nat /\ BurstCellSize \in Nat \ {0}
      BY SizesAssumption
    <3>2. m \in Nat
      BY <3>1, DivBounds
    <3> HIDE DEF m
    <3> QED
      BY <1>3, <1>9, <3>2
  <2> DEFINE u == left - 1
             w == filled * CellSize
  <2>4. /\ u * MaxPdu \in Nat /\ (u - 1) * MaxPdu = u * MaxPdu - MaxPdu
        /\ u * m \in Nat /\ (u - 1) * m = u * m - m
    <3> HIDE DEF u, m
    <3> SUFFICES u \in Nat /\ m \in Nat
      BY <1>4, PreviousMultiple
    <3> QED
      BY <2>3 DEF u
  <2>5. w \in Nat /\ HeaderSize + w <= MaxPdu /\ HeaderSize + w <= budget
        /\ rest = budget - (HeaderSize + w)
    BY <1>5, <2>1
  <2>6. budget >= u * MaxPdu + (HeaderSize + CellSize)
    BY <1>1, <2>1 DEF BurstInv, BudgetLeft
  <2>7. u * m < Size + filled
    BY <1>1, <2>1 DEF BurstInv, CellsLeft
  <2>8. u \in Nat /\ u >= 1
    BY <2>3
  <2>9. Size \in Nat /\ filled <= m
    BY <1>5, PendingCells
  <2>10. m <= u * m
    <3>1. 1 * m <= u * m
      <4> HIDE DEF u, m
      <4>1. m \in Nat
        BY <2>3 DEF m
      <4> QED
        BY <2>8, <4>1, MultipleGrows
    <3> HIDE DEF u, m
    <3>2. m \in Nat
      BY <2>3 DEF m
    <3> QED
      BY <3>1, <3>2
  <2> HIDE DEF u, w, m, rest
  <2>11. rest \in Nat /\ rest >= (u - 1) * MaxPdu + (HeaderSize + CellSize)
    <3> DEFINE x == u * MaxPdu
               y == (u - 1) * MaxPdu
    <3>1. x \in Nat /\ y = x - MaxPdu
      BY <2>4
    <3>2. budget >= x + (HeaderSize + CellSize)
      BY <2>6
    <3> HIDE DEF x, y
    <3>3. rest \in Nat /\ rest >= y + (HeaderSize + CellSize)
      BY <1>3, <1>4, <2>1, <2>5, <3>1, <3>2
    <3> QED
      BY <3>3 DEF y
  <2>12. rest >= HeaderSize + CellSize
    <3>1. u - 1 \in Nat
      BY <2>8
    <3>2. (u - 1) * MaxPdu \in Nat
      BY <1>4, <3>1, MultipleGrows
    <3> QED
      BY <1>4, <2>11, <3>2
  <2>13. (u - 1) * m < Size /\ Size # 0
    <3> DEFINE x == u * m
               y == (u - 1) * m
    <3>1. x \in Nat /\ y = x - m /\ x < Size + filled /\ m <= x
      BY <2>4, <2>7, <2>10
    <3> HIDE DEF x, y
    <3>2. m \in Nat
      BY <2>3 DEF m
    <3>3. y < Size /\ Size # 0
      BY <1>3, <2>9, <3>1, <3>2
    <3> QED
      BY <3>3 DEF y
  <2>14. Pending # {}
    BY <2>13, FS_EmptySet DEF Size
  <2>15. BurstInv' /\ pc' = "fill" /\ UNCHANGED fault /\ room' \in 1..CellsThatFit(MaxPdu)
    <3>1. StartPacket(u, rest)
      BY <2>2 DEF u
    <3>2. rest \in Nat \cup {-1}
      BY <2>11
    <3> QED
      BY <1>1, <1>2, <2>8, <2>11, <2>12, <2>13, <3>1, <3>2, StartPacketKeepsBurst DEF m
  <2> QED
    BY <1>1, <1>2, <2>14, <2>15
<1> QED
  BY <1>3, <1>7, <1>8, <1>9

(* A scheduled amount that fits never leads to too much data.              *)
LEMMA BurstNext ==
  ASSUME AmountsFit, StreamInv, BurstInv, [Next]_vars
  PROVE  BurstInv'
<1>1. CASE NewTime
  <2>1. UNCHANGED fault
    BY <1>1 DEF NewTime, production
  <2>2. pc' # "fill"
    BY <1>1 DEF NewTime, Idle, production
  <2> QED
    BY <2>1, <2>2, BurstIdle
<1>2. ASSUME NEW c \in Cells, CreateCell(c) PROVE BurstInv'
  <2>1. UNCHANGED fault
    BY <1>2 DEF CreateCell, production
  <2>2. pc' # "fill"
    BY <1>2 DEF CreateCell, Idle, production
  <2> QED
    BY <2>1, <2>2, BurstIdle
<1>3. ASSUME NEW r \in SUBSET Range(queue), ComputeValues(r) PROVE BurstInv'
  <2>1. UNCHANGED fault
    BY <1>3 DEF ComputeValues, production
  <2>2. pc' # "fill"
    BY <1>3 DEF ComputeValues, Idle, production
  <2> QED
    BY <2>1, <2>2, BurstIdle
<1>4. ASSUME NEW r \in SUBSET Range(queue), NEW k, NEW b, Schedule(k, b, r) PROVE BurstInv'
  <2>1. UNCHANGED fault
    BY <1>4 DEF Schedule
  <2>2. pc' # "fill"
    BY <1>4 DEF Schedule
  <2> QED
    BY <2>1, <2>2, BurstIdle
<1>5. CASE SkipCell
  <2>1. UNCHANGED fault
    BY <1>5 DEF SkipCell
  <2>2. UNCHANGED <<pc, left, budget, room, filled>> /\ UNCHANGED Pending
    BY <1>5 DEF SkipCell, Pending, Blocked
  <2> QED
    BY <2>1, <2>2, BurstSame
<1>6. CASE CheckSucceeds
  BY <1>6, CheckSucceedsKeepsBurst
<1>7. CASE CheckFails
  <2>1. UNCHANGED fault
    BY <1>7 DEF CheckFails
  <2>2. pc' # "fill"
    BY <1>7 DEF CheckFails, Stop
  <2> QED
    BY <2>1, <2>2, BurstIdle
<1>8. CASE SendCell
  BY <1>8, SendCellKeepsBurst
<1>9. CASE FinishPacket
  BY <1>9, FinishPacketCases
<1>10. CASE UNCHANGED vars
  <2>1. UNCHANGED fault
    BY <1>10 DEF vars, production
  <2>2. UNCHANGED <<pc, left, budget, room, filled>> /\ UNCHANGED Pending
    BY <1>10 DEF vars, production, Pending, Blocked
  <2> QED
    BY <2>1, <2>2, BurstSame
<1> QED
  BY <1>1, <1>2, <1>3, <1>4, <1>5, <1>6, <1>7, <1>8, <1>9, <1>10
  DEF Next, Produce, SchedulePackets, ScheduleData

(* The budget left covers the rest of the burst.                           *)
THEOREM BurstInvariant ==
  ASSUME AmountsFit
  PROVE  Spec => []BurstInv
<1>1. StreamInv /\ BurstInv /\ [Next]_vars => BurstInv'
  BY BurstNext
<1> QED
  BY <1>1, BurstInit, StreamInvariant, PTL DEF Spec

(* producePackets never exceeds the data it was given.                     *)
THEOREM QuotaHolds ==
  ASSUME AmountsFit
  PROVE  Spec => []QuotaKept
<1>1. BurstInv => QuotaKept
  BY DEF BurstInv, QuotaKept
<1> QED
  BY <1>1, BurstInvariant, PTL

-----------------------------------------------------------------------------
(* Every step of the sender is a step of the outbox or changes nothing it  *)
(* sees.                                                                   *)

(* Computing values refreshes what is pending only before the first cell.  *)
LEMMA ComputeRefreshes ==
  ASSUME StreamInv, NEW r \in SUBSET Range(queue), Compute(r),
         UNCHANGED <<atZero, sent>>
  PROVE  Promise!Refresh
<1>1. r \subseteq Cells
  BY RangeOfQueue DEF StreamInv, TypeOK, QueueOK
<1>2. CASE computed /\ ~atZero
  <2>1. ready' = ready
    BY <1>2 DEF Compute
  <2>2. Pending' = Pending
    BY <2>1 DEF Pending, Blocked
  <2> QED
    BY <2>2 DEF Promise!Refresh
<1>3. CASE ~computed \/ atZero
  <2>1. sent = {} /\ ready' = r
    BY <1>3 DEF Compute, StreamInv, Control
  <2>2. Pending' \in SUBSET Cells
    BY <1>1, <2>1 DEF Pending
  <2> QED
    BY <2>1, <2>2 DEF Promise!Refresh
<1> QED
  BY <1>2, <1>3

LEMMA OutboxInit == Init => Promise!Init
BY DEF Init, Promise!Init, Phase, Pending

LEMMA OutboxStep ==
  ASSUME AmountsFit, StreamInv, BurstInv, [Next]_vars
  PROVE  Promise!Next \/ UNCHANGED <<Phase, Pending, sent, room>>
<1>r. ready \subseteq Cells
  BY RangeOfQueue DEF StreamInv, TypeOK, QueueOK
<1>1. CASE NewTime
  <2>1. /\ UNCHANGED <<pc, room, ready, budget>> /\ sent' = {} /\ pc = "idle"
    BY <1>1 DEF NewTime, Idle, production
  <2>2. Phase = "idle" /\ Phase' = "idle"
    BY <2>1 DEF Phase
  <2>3. Pending' \in SUBSET Cells
    BY <1>r, <2>1 DEF Pending
  <2>4. Promise!Renew
    BY <2>1, <2>2, <2>3 DEF Promise!Renew
  <2> QED
    BY <2>4 DEF Promise!Next
<1>2. ASSUME NEW c \in Cells, CreateCell(c) PROVE UNCHANGED <<Phase, Pending, sent, room>>
  BY <1>2 DEF CreateCell, production, Phase, TooSmall, Pending, Blocked
<1>3. ASSUME NEW r \in SUBSET Range(queue), ComputeValues(r)
      PROVE  Promise!Next
  <2>1. /\ Compute(r) /\ UNCHANGED <<pc, room, atZero, sent>> /\ pc = "idle"
    BY <1>3 DEF ComputeValues, Idle, production
  <2>2. Phase = "idle" /\ Phase' = "idle"
    BY <2>1 DEF Phase
  <2>3. Promise!Refresh
    BY <2>1, ComputeRefreshes
  <2>4. Promise!Compute
    BY <2>1, <2>2, <2>3 DEF Promise!Compute
  <2> QED
    BY <2>4 DEF Promise!Next
<1>4. ASSUME NEW r \in SUBSET Range(queue), NEW k, NEW b, Schedule(k, b, r)
      PROVE  Promise!Next
  <2>1. /\ Compute(r) /\ UNCHANGED <<room, atZero, sent>> /\ pc = "idle" /\ pc' = "check"
    BY <1>4 DEF Schedule, Idle
  <2>2. Promise!Refresh
    BY <2>1, ComputeRefreshes
  <2>3. Phase = "idle"
    BY <2>1 DEF Phase
  <2>4. CASE TooSmall'
    <3>1. Phase' = "idle"
      BY <2>1, <2>4 DEF Phase
    <3>2. Promise!Compute
      BY <2>1, <2>2, <2>3, <3>1 DEF Promise!Compute
    <3> QED
      BY <3>2 DEF Promise!Next
  <2>5. CASE ~TooSmall'
    <3>1. Phase' = "asked"
      BY <2>1, <2>5 DEF Phase
    <3>2. Promise!Ask
      BY <2>1, <2>2, <2>3, <3>1 DEF Promise!Ask
    <3> QED
      BY <3>2 DEF Promise!Next
  <2> QED
    BY <2>4, <2>5
<1>5. CASE SkipCell
  <2>1. UNCHANGED <<Phase, Pending, sent, room>>
    BY <1>5 DEF SkipCell, Phase, TooSmall, Pending, Blocked
  <2> QED
    BY <2>1
<1>6. CASE CheckSucceeds
  <2>1. /\ UNCHANGED <<atZero, ready, sent>> /\ pc = "check" /\ Found
    BY <1>6 DEF CheckSucceeds
  <2>2. Pending' = Pending /\ Pending # {} /\ room = 0
    BY <2>1, FoundPending DEF Pending, Blocked, StreamInv, Control
  <2>3. CASE TooSmall
    <3>1. pc' = "idle" /\ room' = 0
      BY <1>6, <2>3, CheckSucceedsKeepsBurst
    <3>2. Phase = "idle" /\ Phase' = "idle"
      BY <2>1, <2>3, <3>1 DEF Phase
    <3> QED
      BY <2>1, <2>2, <3>1, <3>2
  <2>4. CASE ~TooSmall
    <3>1. pc' = "fill" /\ room' \in 1..CellsThatFit(MaxPdu)
      BY <1>6, <2>4, CheckSucceedsKeepsBurst
    <3>2. Phase = "asked" /\ Phase' = "open"
      BY <2>1, <2>4, <3>1 DEF Phase
    <3>3. Promise!Open
      BY <2>1, <2>2, <3>1, <3>2 DEF Promise!Open
    <3> QED
      BY <3>3 DEF Promise!Next
  <2> QED
    BY <2>3, <2>4
<1>7. CASE CheckFails
  <2>1. /\ UNCHANGED <<atZero, ready, sent>> /\ pc = "check" /\ Exhausted
        /\ pc' = "idle" /\ room' = 0
    BY <1>7 DEF CheckFails, Stop
  <2>2. Pending' = Pending /\ Pending = {} /\ room = 0
    BY <2>1, NothingPending DEF Pending, Blocked, StreamInv, Control
  <2>3. Phase' = "idle"
    BY <2>1 DEF Phase
  <2>4. CASE TooSmall
    <3>1. Phase = "idle"
      BY <2>1, <2>4 DEF Phase
    <3> QED
      BY <2>1, <2>2, <2>3, <3>1
  <2>5. CASE ~TooSmall
    <3>1. Phase = "asked"
      BY <2>1, <2>5 DEF Phase
    <3>2. Promise!TurnDown
      BY <2>1, <2>2, <2>3, <3>1 DEF Promise!TurnDown
    <3> QED
      BY <3>2 DEF Promise!Next
  <2> QED
    BY <2>4, <2>5
<1>8. CASE SendCell
  <2>1. /\ queue[1] \in Pending /\ Pending' = Pending \ {queue[1]}
        /\ sent' = sent \cup {queue[1]}
        /\ room > 0 /\ room' = room - 1 /\ pc = "fill" /\ pc' = "fill"
    BY <1>8, SendCellTakes
  <2>2. Phase = "open" /\ Phase' = "open"
    BY <2>1 DEF Phase
  <2>3. Promise!Send(queue[1])
    BY <2>1, <2>2 DEF Promise!Send
  <2>4. queue[1] \in Cells
    BY <1>r, <2>1 DEF Pending
  <2> QED
    BY <2>3, <2>4 DEF Promise!Next
<1>9. CASE FinishPacket
  <2>1. /\ pc = "fill" /\ UNCHANGED Pending /\ UNCHANGED sent
        /\ room = 0 \/ Pending = {}
        /\ \/ pc' = "idle" /\ room' = 0
           \/ pc' = "check" /\ budget' = -1 /\ room' = 0
           \/ pc' = "fill" /\ room' \in 1..CellsThatFit(MaxPdu) /\ Pending # {}
    BY <1>9, FinishPacketCases
  <2>2. Phase = "open" /\ Promise!Complete
    BY <2>1 DEF Phase, Promise!Complete
  <2>3. CASE pc' = "idle" /\ room' = 0
    <3>1. Phase' = "idle"
      BY <2>3 DEF Phase
    <3>2. Promise!Close
      BY <2>1, <2>2, <2>3, <3>1 DEF Promise!Close
    <3> QED
      BY <3>2 DEF Promise!Next
  <2>4. CASE pc' = "check" /\ budget' = -1 /\ room' = 0
    <3>1. Phase' = "asked"
      BY <2>4 DEF Phase, TooSmall
    <3>2. Promise!Close
      BY <2>1, <2>2, <2>4, <3>1 DEF Promise!Close
    <3> QED
      BY <3>2 DEF Promise!Next
  <2>5. CASE pc' = "fill" /\ room' \in 1..CellsThatFit(MaxPdu) /\ Pending # {}
    <3>1. Phase' = "open"
      BY <2>5 DEF Phase
    <3>2. Promise!NextPacket
      BY <2>1, <2>2, <2>5, <3>1 DEF Promise!NextPacket
    <3> QED
      BY <3>2 DEF Promise!Next
  <2> QED
    BY <2>1, <2>3, <2>4, <2>5
<1>10. CASE UNCHANGED vars
  <2>1. UNCHANGED <<Phase, Pending, sent, room>>
    BY <1>10 DEF vars, production, Phase, TooSmall, Pending, Blocked
  <2> QED
    BY <2>1
<1> QED
  BY <1>1, <1>2, <1>3, <1>4, <1>5, <1>6, <1>7, <1>8, <1>9, <1>10
  DEF Next, Produce, SchedulePackets, ScheduleData

(* The queue, hasNext and the size of bursts implement the outbox.         *)
THEOREM OutboxImplemented ==
  ASSUME AmountsFit
  PROVE  Spec => ImplementsOutbox
<1>1. StreamInv /\ BurstInv /\ [Next]_vars => [Promise!Next]_(Promise!vars)
  BY OutboxStep DEF Promise!vars
<1> QED
  BY <1>1, OutboxInit, StreamInvariant, BurstInvariant, PTL
  DEF ImplementsOutbox, Promise!Spec, Spec
=============================================================================
