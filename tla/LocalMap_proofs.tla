--------------------------- MODULE LocalMap_proofs ---------------------------
(***************************************************************************)
(* What module LocalMap promises, for any nodes, cells and times.          *)
(*                                                                         *)
(* There are two inductive invariants.  BaseInv holds for every choice of  *)
(* the times: it adds to the invariants of LocalMap that the timer is at   *)
(* most one period ahead, that no record outlives the timer's next purge   *)
(* by more than its time-to-live, and that every map is consistent.        *)
(* RunInv, which ties the map to the table, needs cells that live at least *)
(* as long as the records of the table.                                    *)
(***************************************************************************)
EXTENDS LocalMap, FiniteSetTheorems, TLAPS

-----------------------------------------------------------------------------
(* What the operations of LocalMap do to an entry and to a map.            *)

(* A map whose counts are the sizes of its cells' neighborhoods.           *)
Consistent(m) ==
  \A c \in Cells :
    /\ m.entry[c].count = Cardinality(Neighbors(m.nb, c))
    /\ ~m.entry[c].exists => m.entry[c].count = 0

(* The entries of m are valid and at least as new as what rec reports.     *)
Fresh(m, rec) ==
  \A n \in Nodes : m.nb[n] # NoCell =>
    /\ m.entry[m.nb[n]].exists
    /\ m.entry[m.nb[n]].valid
    /\ rec[n].created <= m.entry[m.nb[n]].measured

-----------------------------------------------------------------------------
(* Neighborhoods are finite, so cells count natural numbers.               *)
LEMMA NeighborsFinite ==
  ASSUME NEW nb, NEW c
  PROVE  IsFiniteSet(Neighbors(nb, c)) /\ Cardinality(Neighbors(nb, c)) \in Nat
<1>1. Neighbors(nb, c) \subseteq Nodes
  BY DEF Neighbors
<1> QED BY <1>1, NodesAssumption, FS_Subset, FS_CardinalityType

(* The entry operations return entries.                                    *)
LEMMA EntryOps ==
  ASSUME NEW e \in Entry, NEW t \in Nat, NEW k \in Nat
  PROVE  /\ GetOrCreate(e, t) \in Entry
         /\ Touch(e, t) \in Entry
         /\ Increment(e, k, t) \in Entry
         /\ k <= e.count => Decrement(e, k, t) \in Entry
<1>1. \A f \in Entry : Touch(f, t) \in Entry
  BY DEF Entry, Touch
<1>2. GetOrCreate(e, t) \in Entry
  BY DEF Entry, GetOrCreate
<1>3. [e EXCEPT !.count = @ + k] \in Entry
  BY DEF Entry
<1>4. ASSUME k <= e.count PROVE [e EXCEPT !.count = @ - k] \in Entry
  BY <1>4 DEF Entry
<1> QED BY <1>1, <1>2, <1>3, <1>4 DEF Increment, Decrement

(* touch makes an entry valid, keeps its count and never lowers its time.  *)
LEMMA TouchFields ==
  ASSUME NEW e \in Entry, NEW t \in Nat
  PROVE  /\ Touch(e, t).exists = e.exists
         /\ Touch(e, t).count = e.count
         /\ Touch(e, t).valid
         /\ e.measured <= Touch(e, t).measured
         /\ t <= Touch(e, t).measured
BY DEF Entry, Touch

(* The entry that getOrCreate returns exists and counts what was counted.  *)
LEMMA GetOrCreateFields ==
  ASSUME NEW e \in Entry, NEW t \in Nat
  PROVE  /\ GetOrCreate(e, t).exists
         /\ e.exists => GetOrCreate(e, t) = e
         /\ (~e.exists => e.count = 0) => GetOrCreate(e, t).count = e.count
BY DEF Entry, GetOrCreate

(* incrementCount adds k, decrementCount takes k away; both touch.         *)
LEMMA IncrementFields ==
  ASSUME NEW e \in Entry, NEW t \in Nat, NEW k \in Nat
  PROVE  /\ Increment(e, k, t).count = e.count + k
         /\ Increment(e, k, t).exists = e.exists
         /\ Increment(e, k, t).valid
         /\ e.measured <= Increment(e, k, t).measured
         /\ t <= Increment(e, k, t).measured
<1> DEFINE f == [e EXCEPT !.count = @ + k]
<1>1. f \in Entry /\ f.count = e.count + k /\ f.exists = e.exists /\ f.measured = e.measured
  BY DEF Entry
<1> QED BY <1>1, TouchFields DEF Increment

LEMMA DecrementFields ==
  ASSUME NEW e \in Entry, NEW t \in Nat, NEW k \in Nat, k <= e.count
  PROVE  /\ Decrement(e, k, t).count = e.count - k
         /\ Decrement(e, k, t).exists = e.exists
         /\ Decrement(e, k, t).valid
         /\ e.measured <= Decrement(e, k, t).measured
         /\ t <= Decrement(e, k, t).measured
<1> DEFINE f == [e EXCEPT !.count = @ - k]
<1>1. f \in Entry /\ f.count = e.count - k /\ f.exists = e.exists /\ f.measured = e.measured
  BY DEF Entry
<1> QED BY <1>1, TouchFields DEF Decrement

(* reset forgets the count.                                                *)
LEMMA ResetFields ==
  ASSUME NEW e \in Entry
  PROVE  Reset(e) \in Entry /\ Reset(e).count = 0
BY DEF Entry, Reset

-----------------------------------------------------------------------------
(* neighborhoodEntryRemoved for the nodes S of a consistent map: it does   *)
(* not throw, and the counts still are the sizes of the neighborhoods.     *)
LEMMA RemovedKeeps ==
  ASSUME now \in Nat, NEW m \in DensityMap, Consistent(m),
         NEW S \in SUBSET Nodes, \A n \in S : m.nb[n] # NoCell
  PROVE  /\ ~RemovedFails(m, S)
         /\ Removed(m, S) \in DensityMap
         /\ Consistent(Removed(m, S))
<1> DEFINE gone(c) == S \cap Neighbors(m.nb, c)
           mm == Removed(m, S)
<1>0. m.nb \in [Nodes -> Cells \cup {NoCell}] /\ m.entry \in [Cells -> Entry]
  BY DEF DensityMap
<1>1. ASSUME NEW c \in Cells
      PROVE  /\ IsFiniteSet(gone(c)) /\ Cardinality(gone(c)) \in Nat
             /\ Cardinality(gone(c)) <= m.entry[c].count
             /\ GetOrCreate(m.entry[c], now) \in Entry
             /\ GetOrCreate(m.entry[c], now).count = m.entry[c].count
             /\ GetOrCreate(m.entry[c], now).exists
  <2>1. IsFiniteSet(Neighbors(m.nb, c))
    BY NeighborsFinite
  <2>2. Cardinality(gone(c)) <= Cardinality(Neighbors(m.nb, c)) /\ IsFiniteSet(gone(c))
    BY <2>1, FS_Subset
  <2>3. m.entry[c] \in Entry
    BY <1>0
  <2> QED
    BY <2>2, <2>3, FS_CardinalityType, EntryOps, GetOrCreateFields DEF Consistent
<1>2. ~RemovedFails(m, S)
  <2>1. ASSUME NEW c \in Cells
        PROVE  ~(GetOrCreate(m.entry[c], now).count < Cardinality(S \cap Neighbors(m.nb, c)))
    <3>1. m.entry[c].count \in Nat
      BY <1>0 DEF Entry
    <3> QED BY <1>1, <3>1
  <2> QED BY <2>1 DEF RemovedFails
<1>3. ASSUME NEW c \in Cells
      PROVE  /\ mm.entry[c] \in Entry
             /\ mm.entry[c].count = m.entry[c].count - Cardinality(gone(c))
             /\ ~mm.entry[c].exists => mm.entry[c].count = 0
  <2>1. mm.entry[c] = IF gone(c) = {} THEN m.entry[c]
                      ELSE Decrement(GetOrCreate(m.entry[c], now), Cardinality(gone(c)), now)
    BY DEF Removed
  <2>2. CASE gone(c) = {}
    <3>1. m.entry[c] \in Entry /\ m.entry[c].count \in Nat
      BY <1>0 DEF Entry
    <3>2. Cardinality(gone(c)) = 0
      BY <2>2, FS_EmptySet
    <3> QED BY <2>1, <2>2, <3>1, <3>2 DEF Consistent
  <2>3. CASE gone(c) # {}
    <3> DEFINE e == GetOrCreate(m.entry[c], now)
               k == Cardinality(gone(c))
    <3>1. e \in Entry /\ k \in Nat /\ k <= e.count /\ e.exists /\ e.count = m.entry[c].count
      BY <1>1
    <3>2. mm.entry[c] = Decrement(e, k, now)
      BY <2>1, <2>3
    <3> HIDE DEF e, k, mm
    <3>3. mm.entry[c] \in Entry
      BY <3>1, <3>2, EntryOps
    <3>4. mm.entry[c].count = e.count - k /\ mm.entry[c].exists
      BY <3>1, <3>2, DecrementFields
    <3> QED BY <3>1, <3>3, <3>4 DEF k
  <2> QED BY <2>2, <2>3
<1>4. mm \in DensityMap
  <2>1. mm.nb \in [Nodes -> Cells \cup {NoCell}]
    BY <1>0 DEF Removed
  <2>2. mm.entry = [c \in Cells |-> mm.entry[c]]
    BY DEF Removed
  <2>3. mm.entry \in [Cells -> Entry]
    BY <1>3, <2>2
  <2>4. mm = [nb |-> mm.nb, entry |-> mm.entry]
    BY DEF Removed
  <2> QED BY <2>1, <2>3, <2>4 DEF DensityMap
<1>5. ASSUME NEW c \in Cells
      PROVE  Cardinality(Neighbors(mm.nb, c)) = m.entry[c].count - Cardinality(gone(c))
  <2>1. Neighbors(mm.nb, c) = Neighbors(m.nb, c) \ gone(c)
    <3>1. \A n \in Nodes : mm.nb[n] = IF n \in S THEN NoCell ELSE m.nb[n]
      BY DEF Removed
    <3> QED BY <3>1, CellsAssumption DEF Neighbors
  <2>2. Neighbors(m.nb, c) \cap gone(c) = gone(c)
    OBVIOUS
  <2>3. Cardinality(Neighbors(m.nb, c) \ gone(c))
          = Cardinality(Neighbors(m.nb, c)) - Cardinality(Neighbors(m.nb, c) \cap gone(c))
    BY NeighborsFinite, FS_Difference
  <2> QED BY <2>1, <2>2, <2>3 DEF Consistent
<1> QED BY <1>2, <1>3, <1>4, <1>5 DEF Consistent

(* neighborhoodEntryEnterCell for a node the map does not hold.            *)
LEMMA EnteredKeeps ==
  ASSUME now \in Nat, NEW m \in DensityMap, Consistent(m),
         NEW n \in Nodes, NEW c \in Cells, NEW created \in Nat, m.nb[n] = NoCell
  PROVE  /\ Entered(m, n, c, created) \in DensityMap
         /\ Consistent(Entered(m, n, c, created))
<1> DEFINE mm == Entered(m, n, c, created)
           e  == GetOrCreate(m.entry[c], now)
<1>0. m.nb \in [Nodes -> Cells \cup {NoCell}] /\ m.entry \in [Cells -> Entry]
  BY DEF DensityMap
<1>1. e \in Entry /\ e.exists /\ e.count = m.entry[c].count
  <2>1. m.entry[c] \in Entry
    BY <1>0
  <2> QED BY <2>1, EntryOps, GetOrCreateFields DEF Consistent
<1>2. /\ Increment(e, 1, created) \in Entry
      /\ Increment(e, 1, created).count = m.entry[c].count + 1
      /\ Increment(e, 1, created).exists
  <2> HIDE DEF e
  <2>1. 1 \in Nat
    OBVIOUS
  <2>2. Increment(e, 1, created) \in Entry
    BY <1>1, <2>1, EntryOps
  <2>3. Increment(e, 1, created).count = e.count + 1 /\ Increment(e, 1, created).exists = e.exists
    BY <1>1, <2>1, IncrementFields
  <2> QED BY <1>1, <2>2, <2>3
<1>3. mm.nb = [m.nb EXCEPT ![n] = c] /\ mm.entry = [m.entry EXCEPT ![c] = Increment(e, 1, created)]
  BY DEF Entered
<1>4. mm \in DensityMap
  <2>1. mm = [nb |-> mm.nb, entry |-> mm.entry]
    BY DEF Entered
  <2> HIDE DEF mm, e
  <2> QED BY <1>0, <1>2, <1>3, <2>1 DEF DensityMap
<1>5. ASSUME NEW d \in Cells
      PROVE  /\ mm.entry[d].count = Cardinality(Neighbors(mm.nb, d))
             /\ ~mm.entry[d].exists => mm.entry[d].count = 0
  <2> HIDE DEF mm, e
  <2>1. CASE d = c
    <3>1. Neighbors(mm.nb, c) = Neighbors(m.nb, c) \cup {n} /\ n \notin Neighbors(m.nb, c)
      BY <1>0, <1>3, CellsAssumption DEF Neighbors
    <3>2. Cardinality(Neighbors(mm.nb, c)) = Cardinality(Neighbors(m.nb, c)) + 1
      BY <3>1, NeighborsFinite, FS_AddElement
    <3> QED BY <1>0, <1>2, <1>3, <2>1, <3>2 DEF Consistent
  <2>2. CASE d # c
    <3>1. Neighbors(mm.nb, d) = Neighbors(m.nb, d)
      BY <1>0, <1>3, <2>2, CellsAssumption DEF Neighbors
    <3> QED BY <1>0, <1>3, <2>2, <3>1 DEF Consistent
  <2> QED BY <2>1, <2>2
<1> QED BY <1>4, <1>5 DEF Consistent

(* neighborhoodEntryLeaveCell for a node the map holds in that cell.       *)
LEMMA LeftKeeps ==
  ASSUME now \in Nat, NEW m \in DensityMap, Consistent(m),
         NEW n \in Nodes, NEW c \in Cells, NEW created \in Nat, m.nb[n] = c
  PROVE  /\ ~LeftFails(m, n, c)
         /\ Left(m, n, c, created) \in DensityMap
         /\ Consistent(Left(m, n, c, created))
<1> DEFINE mm == Left(m, n, c, created)
           e  == GetOrCreate(m.entry[c], now)
<1>0. m.nb \in [Nodes -> Cells \cup {NoCell}] /\ m.entry \in [Cells -> Entry]
  BY DEF DensityMap
<1>1. e \in Entry /\ e.exists /\ e.count = m.entry[c].count
  <2>1. m.entry[c] \in Entry
    BY <1>0
  <2> QED BY <2>1, EntryOps, GetOrCreateFields DEF Consistent
<1>2. m.entry[c].count \in Nat /\ m.entry[c].count >= 1
  <2>1. n \in Neighbors(m.nb, c)
    BY DEF Neighbors
  <2>2. Cardinality(Neighbors(m.nb, c)) # 0
    BY <2>1, NeighborsFinite, FS_EmptySet
  <2> QED BY <1>0, <2>2 DEF Consistent, Entry
<1>3. /\ Decrement(e, 1, created) \in Entry
      /\ Decrement(e, 1, created).count = m.entry[c].count - 1
      /\ Decrement(e, 1, created).exists
  <2> HIDE DEF e
  <2>1. 1 \in Nat /\ 1 <= e.count
    BY <1>1, <1>2
  <2>2. Decrement(e, 1, created) \in Entry
    BY <1>1, <2>1, EntryOps
  <2>3. Decrement(e, 1, created).count = e.count - 1 /\ Decrement(e, 1, created).exists
    BY <1>1, <2>1, DecrementFields
  <2> QED BY <1>1, <2>2, <2>3
<1>4. mm.nb = [m.nb EXCEPT ![n] = NoCell] /\ mm.entry = [m.entry EXCEPT ![c] = Decrement(e, 1, created)]
  BY DEF Left
<1>5. mm \in DensityMap
  <2>1. mm = [nb |-> mm.nb, entry |-> mm.entry]
    BY DEF Left
  <2> HIDE DEF mm, e
  <2> QED BY <1>0, <1>3, <1>4, <2>1 DEF DensityMap
<1>6. ASSUME NEW d \in Cells
      PROVE  /\ mm.entry[d].count = Cardinality(Neighbors(mm.nb, d))
             /\ ~mm.entry[d].exists => mm.entry[d].count = 0
  <2> HIDE DEF mm, e
  <2>1. CASE d = c
    <3>1. Neighbors(mm.nb, c) = Neighbors(m.nb, c) \ {n} /\ n \in Neighbors(m.nb, c)
      BY <1>0, <1>4, CellsAssumption DEF Neighbors
    <3>2. Cardinality(Neighbors(m.nb, c) \ {n}) = Cardinality(Neighbors(m.nb, c)) - 1
      BY <3>1, NeighborsFinite, FS_RemoveElement
    <3>3. Cardinality(Neighbors(mm.nb, c)) = Cardinality(Neighbors(m.nb, c)) - 1
      BY <3>1, <3>2
    <3> QED BY <1>0, <1>3, <1>4, <2>1, <3>3 DEF Consistent
  <2>2. CASE d # c
    <3>1. Neighbors(mm.nb, d) = Neighbors(m.nb, d)
      BY <1>0, <1>4, <2>2, CellsAssumption DEF Neighbors
    <3> QED BY <1>0, <1>4, <2>2, <3>1 DEF Consistent
  <2> QED BY <2>1, <2>2
<1>7. ~LeftFails(m, n, c)
  <2> HIDE DEF mm
  <2> QED BY <1>1, <1>2 DEF LeftFails
<1> QED BY <1>5, <1>6, <1>7 DEF Consistent

(* neighborhoodEntryStayInCell for a node the map holds in that cell.      *)
LEMMA StayedKeeps ==
  ASSUME now \in Nat, NEW m \in DensityMap, Consistent(m),
         NEW n \in Nodes, NEW c \in Cells, NEW created \in Nat
  PROVE  /\ Stayed(m, n, c, created) \in DensityMap
         /\ Consistent(Stayed(m, n, c, created))
<1> DEFINE mm == Stayed(m, n, c, created)
           e  == GetOrCreate(m.entry[c], now)
<1>0. m.nb \in [Nodes -> Cells \cup {NoCell}] /\ m.entry \in [Cells -> Entry]
  BY DEF DensityMap
<1>1. e \in Entry /\ e.exists /\ e.count = m.entry[c].count
  <2>1. m.entry[c] \in Entry
    BY <1>0
  <2> QED BY <2>1, EntryOps, GetOrCreateFields DEF Consistent
<1>2. Touch(e, created) \in Entry
  <2> HIDE DEF e
  <2>1. 1 \in Nat
    OBVIOUS
  <2> QED BY <1>1, <2>1, EntryOps
<1>3. Touch(e, created).count = m.entry[c].count /\ Touch(e, created).exists
  <2> HIDE DEF e
  <2> QED BY <1>1, TouchFields
<1>4. mm.nb = m.nb /\ mm.entry = [m.entry EXCEPT ![c] = Touch(e, created)]
  BY DEF Stayed, DensityMap
<1>5. mm \in DensityMap
  <2>1. mm = [nb |-> mm.nb, entry |-> mm.entry]
    BY DEF Stayed, DensityMap
  <2> HIDE DEF mm, e
  <2> QED BY <1>0, <1>2, <1>4, <2>1 DEF DensityMap
<1>6. Consistent(mm)
  <2> HIDE DEF mm, e
  <2> QED BY <1>0, <1>3, <1>4 DEF Consistent, Neighbors
<1> QED BY <1>5, <1>6

(* The map that initLocalMap fills from the table.                         *)
LEMMA InitialisedKeeps ==
  ASSUME now \in Nat, table \in [Nodes -> Record]
  PROVE  Initialised \in DensityMap /\ Consistent(Initialised)
<1> DEFINE mm == Initialised
           here(c) == {n \in Nodes : table[n].cell = c}
           e == GetOrCreate(NoEntry, now)
<1>1. e \in Entry /\ e.exists /\ e.count = 0 /\ NoEntry \in Entry
  BY DEF GetOrCreate, NoEntry, Entry
<1>2. mm.nb \in [Nodes -> Cells \cup {NoCell}]
  BY DEF Initialised, Record
<1>3. ASSUME NEW c \in Cells
      PROVE  /\ mm.entry[c] \in Entry
             /\ mm.entry[c].count = Cardinality(Neighbors(mm.nb, c))
             /\ ~mm.entry[c].exists => mm.entry[c].count = 0
  <2>1. Neighbors(mm.nb, c) = here(c)
    BY DEF Initialised, Neighbors
  <2>2. IsFiniteSet(here(c)) /\ Cardinality(here(c)) \in Nat
    BY <2>1, NeighborsFinite
  <2>3. mm.entry[c] = IF here(c) = {} THEN NoEntry ELSE Increment(e, Cardinality(here(c)), 0)
    BY DEF Initialised
  <2>4. CASE here(c) = {}
    <3>1. Cardinality(here(c)) = 0
      BY <2>4, FS_EmptySet
    <3> QED BY <1>1, <2>1, <2>3, <2>4, <3>1 DEF NoEntry
  <2>5. CASE here(c) # {}
    <3> DEFINE k == Cardinality(here(c))
    <3>1. mm.entry[c] = Increment(e, k, 0) /\ k \in Nat /\ 0 \in Nat
      BY <2>2, <2>3, <2>5
    <3> HIDE DEF mm, e, k
    <3>2. mm.entry[c] \in Entry
      BY <1>1, <3>1, EntryOps
    <3>3. mm.entry[c].count = e.count + k /\ mm.entry[c].exists
      BY <1>1, <3>1, IncrementFields
    <3> QED BY <1>1, <2>1, <3>1, <3>2, <3>3 DEF k
  <2> QED BY <2>4, <2>5
<1>4. mm \in DensityMap
  <2>1. mm = [nb |-> mm.nb, entry |-> mm.entry]
    BY DEF Initialised
  <2>2. mm.entry = [c \in Cells |-> mm.entry[c]]
    BY DEF Initialised
  <2>3. mm.entry \in [Cells -> Entry]
    BY <1>3, <2>2
  <2> QED BY <1>2, <2>1, <2>3 DEF DensityMap
<1> QED BY <1>3, <1>4 DEF Consistent

(* The age handler: a cell that is reset forgets its whole neighborhood.   *)
LEMMA AgeHandledKeeps ==
  ASSUME now \in Nat, NEW m \in DensityMap, Consistent(m)
  PROVE  AgeHandled(m) \in DensityMap /\ Consistent(AgeHandled(m))
<1> DEFINE mm == AgeHandled(m)
           aged(c) == Aged(m.entry[c], CellTTL, now)
<1>0. m.nb \in [Nodes -> Cells \cup {NoCell}] /\ m.entry \in [Cells -> Entry]
  BY DEF DensityMap
<1>1. mm.nb \in [Nodes -> Cells \cup {NoCell}]
  BY <1>0 DEF AgeHandled
<1>2. ASSUME NEW c \in Cells
      PROVE  /\ mm.entry[c] \in Entry
             /\ mm.entry[c].count = Cardinality(Neighbors(mm.nb, c))
             /\ ~mm.entry[c].exists => mm.entry[c].count = 0
  <2>1. CASE aged(c)
    <3>1. Neighbors(mm.nb, c) = {}
      BY <1>0, <2>1, CellsAssumption DEF AgeHandled, Neighbors
    <3>2. Cardinality(Neighbors(mm.nb, c)) = 0
      BY <3>1, FS_EmptySet
    <3>3. mm.entry[c] = Reset(m.entry[c]) /\ m.entry[c] \in Entry
      BY <1>0, <2>1 DEF AgeHandled
    <3> HIDE DEF mm
    <3>4. mm.entry[c] \in Entry /\ mm.entry[c].count = 0
      BY <3>3, ResetFields
    <3> QED BY <3>2, <3>4
  <2>2. CASE ~aged(c)
    <3>1. Neighbors(mm.nb, c) = Neighbors(m.nb, c)
      BY <1>0, <2>2, CellsAssumption DEF AgeHandled, Neighbors
    <3>2. mm.entry[c] = m.entry[c]
      BY <2>2 DEF AgeHandled
    <3> HIDE DEF mm
    <3> QED BY <1>0, <3>1, <3>2 DEF Consistent
  <2> QED BY <2>1, <2>2
<1>3. mm \in DensityMap
  <2>1. mm = [nb |-> mm.nb, entry |-> mm.entry]
    BY DEF AgeHandled
  <2>2. mm.entry = [c \in Cells |-> mm.entry[c]]
    BY DEF AgeHandled
  <2>3. mm.entry \in [Cells -> Entry]
    BY <1>2, <2>2
  <2> QED BY <1>1, <2>1, <2>3 DEF DensityMap
<1> QED BY <1>2, <1>3 DEF Consistent

(* A new map is consistent.                                                *)
LEMMA EmptyMapConsistent == EmptyMap \in DensityMap /\ Consistent(EmptyMap)
<1>1. NoEntry \in Entry /\ NoEntry.count = 0
  BY DEF NoEntry, Entry
<1>2. EmptyMap \in DensityMap
  BY <1>1 DEF EmptyMap, DensityMap
<1>3. ASSUME NEW c \in Cells PROVE Cardinality(Neighbors(EmptyMap.nb, c)) = 0
  <2>1. Neighbors(EmptyMap.nb, c) = {}
    BY CellsAssumption DEF EmptyMap, Neighbors
  <2> QED BY <2>1, FS_EmptySet
<1>4. ASSUME NEW c \in Cells PROVE EmptyMap.entry[c].count = 0
  BY <1>1 DEF EmptyMap
<1> QED BY <1>2, <1>3, <1>4 DEF Consistent

-----------------------------------------------------------------------------
(* The callbacks only refresh entries.                                     *)
Newer(m, mm) ==
  \A c \in Cells : m.entry[c].exists =>
    /\ mm.entry[c].exists
    /\ m.entry[c].valid => mm.entry[c].valid
    /\ m.entry[c].measured <= mm.entry[c].measured

LEMMA RemovedNewer ==
  ASSUME now \in Nat, NEW m \in DensityMap, Consistent(m),
         NEW S \in SUBSET Nodes, ~RemovedFails(m, S)
  PROVE  Newer(m, Removed(m, S))
<1> DEFINE mm == Removed(m, S)
<1> SUFFICES ASSUME NEW c \in Cells, m.entry[c].exists
             PROVE  /\ mm.entry[c].exists
                    /\ m.entry[c].valid => mm.entry[c].valid
                    /\ m.entry[c].measured <= mm.entry[c].measured
  BY DEF Newer
<1> DEFINE e == m.entry[c]
           k == Cardinality(S \cap Neighbors(m.nb, c))
<1>1. e \in Entry /\ e.measured \in Nat
  BY DEF DensityMap, Entry
<1>2. GetOrCreate(e, now) = e
  BY DEF GetOrCreate
<1>3. k \in Nat
  <2>1. S \cap Neighbors(m.nb, c) \subseteq Neighbors(m.nb, c)
    OBVIOUS
  <2> QED BY <2>1, NeighborsFinite, FS_Subset, FS_CardinalityType
<1>4. k <= e.count
  <2>1. ~(GetOrCreate(e, now).count < k)
    BY DEF RemovedFails
  <2>2. e.count \in Nat
    BY <1>1 DEF Entry
  <2> HIDE DEF e, k
  <2> QED BY <1>2, <1>3, <2>1, <2>2
<1>5. mm.entry[c] = IF S \cap Neighbors(m.nb, c) = {} THEN e ELSE Decrement(e, k, now)
  BY <1>2 DEF Removed
<1>6. e.exists
  OBVIOUS
<1> HIDE DEF e, k, mm
<1>7. /\ Decrement(e, k, now).exists /\ Decrement(e, k, now).valid
      /\ e.measured <= Decrement(e, k, now).measured
  BY <1>1, <1>3, <1>4, <1>6, DecrementFields
<1>8. mm.entry[c].exists /\ (e.valid => mm.entry[c].valid) /\ e.measured <= mm.entry[c].measured
  BY <1>1, <1>5, <1>6, <1>7
<1> QED BY <1>8 DEF e

LEMMA EnteredNewer ==
  ASSUME now \in Nat, NEW m \in DensityMap,
         NEW n \in Nodes, NEW c \in Cells, NEW created \in Nat
  PROVE  /\ Newer(m, Entered(m, n, c, created))
         /\ Entered(m, n, c, created).entry[c].exists
         /\ Entered(m, n, c, created).entry[c].valid
         /\ created <= Entered(m, n, c, created).entry[c].measured
<1> DEFINE mm == Entered(m, n, c, created)
           e  == GetOrCreate(m.entry[c], now)
<1>0. m.entry \in [Cells -> Entry]
  BY DEF DensityMap
<1>1. e \in Entry /\ e.exists /\ (m.entry[c].exists => e = m.entry[c])
  <2>1. m.entry[c] \in Entry
    BY <1>0
  <2> QED BY <2>1, EntryOps, GetOrCreateFields
<1>2. mm.entry = [m.entry EXCEPT ![c] = Increment(e, 1, created)]
  BY DEF Entered
<1>3. /\ Increment(e, 1, created).exists /\ Increment(e, 1, created).valid
      /\ e.measured <= Increment(e, 1, created).measured
      /\ created <= Increment(e, 1, created).measured
  <2> HIDE DEF e
  <2>1. 1 \in Nat
    OBVIOUS
  <2> QED BY <1>1, <2>1, IncrementFields
<1>4. \A d \in Cells : m.entry[d].measured \in Nat
  BY <1>0 DEF Entry
<1> HIDE DEF mm, e
<1>5. Newer(m, mm)
  BY <1>0, <1>1, <1>2, <1>3, <1>4 DEF Newer
<1>6. mm.entry[c] = Increment(e, 1, created)
  BY <1>0, <1>2
<1> QED BY <1>3, <1>5, <1>6 DEF mm

LEMMA LeftNewer ==
  ASSUME now \in Nat, NEW m \in DensityMap, Consistent(m),
         NEW n \in Nodes, NEW c \in Cells, NEW created \in Nat, ~LeftFails(m, n, c)
  PROVE  Newer(m, Left(m, n, c, created))
<1> DEFINE mm == Left(m, n, c, created)
           e  == GetOrCreate(m.entry[c], now)
<1>0. m.entry \in [Cells -> Entry]
  BY DEF DensityMap
<1>1. e \in Entry /\ e.exists /\ (m.entry[c].exists => e = m.entry[c])
  <2>1. m.entry[c] \in Entry
    BY <1>0
  <2> QED BY <2>1, EntryOps, GetOrCreateFields
<1>2. mm.entry = [m.entry EXCEPT ![c] = Decrement(e, 1, created)]
  BY DEF Left
<1>3. 1 <= e.count
  <2>1. ~(e.count < 1)
    BY DEF LeftFails
  <2> HIDE DEF e
  <2> QED BY <1>1, <2>1 DEF Entry
<1>4. /\ Decrement(e, 1, created).exists /\ Decrement(e, 1, created).valid
      /\ e.measured <= Decrement(e, 1, created).measured
  <2> HIDE DEF e
  <2>1. 1 \in Nat
    OBVIOUS
  <2> QED BY <1>1, <1>3, <2>1, DecrementFields
<1>5. \A d \in Cells : m.entry[d].measured \in Nat
  BY <1>0 DEF Entry
<1> HIDE DEF mm, e
<1>6. Newer(m, mm)
  BY <1>0, <1>1, <1>2, <1>4, <1>5 DEF Newer
<1> QED BY <1>6 DEF mm

LEMMA StayedNewer ==
  ASSUME now \in Nat, NEW m \in DensityMap,
         NEW n \in Nodes, NEW c \in Cells, NEW created \in Nat
  PROVE  /\ Newer(m, Stayed(m, n, c, created))
         /\ Stayed(m, n, c, created).entry[c].exists
         /\ Stayed(m, n, c, created).entry[c].valid
         /\ created <= Stayed(m, n, c, created).entry[c].measured
<1> DEFINE mm == Stayed(m, n, c, created)
           e  == GetOrCreate(m.entry[c], now)
<1>0. m.entry \in [Cells -> Entry]
  BY DEF DensityMap
<1>1. e \in Entry /\ e.exists /\ (m.entry[c].exists => e = m.entry[c])
  <2>1. m.entry[c] \in Entry
    BY <1>0
  <2> QED BY <2>1, EntryOps, GetOrCreateFields
<1>2. mm.entry = [m.entry EXCEPT ![c] = Touch(e, created)]
  BY DEF Stayed, DensityMap
<1>3. /\ Touch(e, created).exists /\ Touch(e, created).valid
      /\ e.measured <= Touch(e, created).measured
      /\ created <= Touch(e, created).measured
  <2> HIDE DEF e
  <2> QED BY <1>1, TouchFields
<1>4. \A d \in Cells : m.entry[d].measured \in Nat
  BY <1>0 DEF Entry
<1> HIDE DEF mm, e
<1>5. Newer(m, mm)
  BY <1>0, <1>1, <1>2, <1>3, <1>4 DEF Newer
<1>6. mm.entry[c] = Touch(e, created)
  BY <1>0, <1>2
<1> QED BY <1>3, <1>5, <1>6 DEF mm

(* A callback that refreshes entries and places no node keeps the map      *)
(* fresh with respect to the same reports.                                 *)
LEMMA FreshKept ==
  ASSUME NEW m \in DensityMap, NEW mm \in DensityMap, NEW S \in SUBSET Nodes,
         NEW rec \in [Nodes -> Record], NEW new \in [Nodes -> Record],
         Fresh(m, rec), Newer(m, mm),
         \A n \in Nodes : n \in S \/ (mm.nb[n] \in {m.nb[n], NoCell} /\ new[n] = rec[n])
  PROVE  \A n \in Nodes : n \notin S /\ mm.nb[n] # NoCell =>
           /\ mm.entry[mm.nb[n]].exists
           /\ mm.entry[mm.nb[n]].valid
           /\ new[n].created <= mm.entry[mm.nb[n]].measured
<1> SUFFICES ASSUME NEW n \in Nodes, n \notin S, mm.nb[n] # NoCell
             PROVE  /\ mm.entry[mm.nb[n]].exists
                    /\ mm.entry[mm.nb[n]].valid
                    /\ new[n].created <= mm.entry[mm.nb[n]].measured
  OBVIOUS
<1> DEFINE c == m.nb[n]
<1>1. mm.nb[n] = c /\ new[n] = rec[n] /\ c \in Cells
  BY DEF DensityMap
<1>2. m.entry[c].exists /\ m.entry[c].valid /\ rec[n].created <= m.entry[c].measured
  BY <1>1 DEF Fresh
<1>3. rec[n].created \in Nat /\ m.entry[c].measured \in Nat /\ mm.entry[c].measured \in Nat
  BY <1>1 DEF Record, DensityMap, Entry
<1>4. mm.entry[c].exists /\ mm.entry[c].valid /\ m.entry[c].measured <= mm.entry[c].measured
  BY <1>1, <1>2 DEF Newer
<1> HIDE DEF c
<1> QED BY <1>1, <1>2, <1>3, <1>4

(* The age handler forgets no neighbor that the table still holds, if a    *)
(* cell lives at least as long as a record.                                *)
LEMMA AgeHandledFresh ==
  ASSUME now \in Nat, NEW m \in DensityMap, NEW rec \in [Nodes -> Record],
         CellTTL = 0 \/ MaxAge <= CellTTL, Fresh(m, rec),
         \A n \in Nodes : m.nb[n] # NoCell => now <= rec[n].created + MaxAge
  PROVE  AgeHandled(m).nb = m.nb /\ Fresh(AgeHandled(m), rec)
<1> DEFINE mm == AgeHandled(m)
<1>1. ASSUME NEW n \in Nodes, m.nb[n] # NoCell
      PROVE  m.nb[n] \in Cells /\ ~Aged(m.entry[m.nb[n]], CellTTL, now)
  <2>1. m.nb[n] \in Cells
    BY <1>1 DEF DensityMap
  <2>2. m.entry[m.nb[n]].measured \in Nat /\ rec[n].created \in Nat
    BY <2>1 DEF DensityMap, Entry, Record
  <2>3. now <= rec[n].created + MaxAge /\ rec[n].created <= m.entry[m.nb[n]].measured
    BY <1>1 DEF Fresh
  <2> QED BY <2>1, <2>2, <2>3, TimesAssumption DEF Aged
<1>2. mm.nb = m.nb
  <2>1. m.nb = [n \in Nodes |-> m.nb[n]]
    BY DEF DensityMap
  <2>2. mm.nb = [n \in Nodes |-> m.nb[n]]
    BY <1>1 DEF AgeHandled
  <2> QED BY <2>1, <2>2
<1>3. ASSUME NEW n \in Nodes, m.nb[n] # NoCell
      PROVE  mm.entry[m.nb[n]] = m.entry[m.nb[n]]
  BY <1>1, <1>3 DEF AgeHandled
<1> HIDE DEF mm
<1>4. Fresh(mm, rec)
  BY <1>2, <1>3 DEF Fresh
<1> QED BY <1>2, <1>4 DEF mm

-----------------------------------------------------------------------------
(* The two invariants.                                                     *)

TimerAhead == now <= ttlTimer /\ ttlTimer <= now + MaxAge
MeteredInThePast == \A n \in Nodes : lastSeq[n] <= now
RecordIsNewest == \A n \in Nodes : Present(n) => table[n].created = lastSeq[n]
PurgedInTime == \A n \in Nodes : Present(n) => ttlTimer <= table[n].created + 2 * MaxAge

BaseInv ==
  /\ TypeOK
  /\ TimerAhead
  /\ MeteredInThePast
  /\ RecordIsNewest
  /\ PurgedInTime
  /\ Consistent(map)

RunInv ==
  /\ CallbacksNeverFail
  /\ MapAgreesWithTable
  /\ Running /\ fault = "none" => Fresh(map, table)

-----------------------------------------------------------------------------
(* What a purge leaves of the table.                                       *)
LEMMA PurgeStep ==
  ASSUME table \in [Nodes -> Record], NEW S \in SUBSET Nodes, Purge(S)
  PROVE  /\ table' \in [Nodes -> Record]
         /\ \A n \in Nodes : n \in S => ~Present(n)'
         /\ \A n \in Nodes : n \notin S => table'[n] = table[n]
<1>1. Absent \in Record /\ Absent.cell = NoCell
  BY DEF Absent, Record
<1>2. \A n \in Nodes : table'[n] = IF n \in S THEN Absent ELSE table[n]
  BY DEF Purge
<1>3. table' \in [Nodes -> Record]
  BY <1>1 DEF Purge
<1> QED BY <1>1, <1>2, <1>3 DEF Present

(* emitRemoved leaves a consistent map, or the old one when it throws.     *)
LEMMA EmitRemovedStep ==
  ASSUME now \in Nat, map \in DensityMap, Consistent(map), fault = "none",
         NEW S \in SUBSET Nodes, EmitRemoved(S)
  PROVE  map' \in DensityMap /\ Consistent(map') /\ fault' \in FaultSites
<1>1. CASE Running /\ RemovedFails(map, S)
  BY <1>1 DEF EmitRemoved, FaultSites
<1>2. CASE ~Running
  BY <1>2 DEF EmitRemoved, FaultSites
<1>3. CASE Running /\ ~RemovedFails(map, S)
  <2>1. \A n \in S : map.nb[n] # NoCell
    BY <1>3 DEF RemovedFails
  <2>2. map' = Removed(map, S) /\ fault' = "none"
    BY <1>3 DEF EmitRemoved
  <2> QED BY <2>1, <2>2, RemovedKeeps DEF FaultSites
<1> QED BY <1>1, <1>2, <1>3

(* The node that leaves a cell is in no cell until it enters the next one. *)
LEMMA LeftPlace ==
  ASSUME NEW m \in DensityMap, NEW n \in Nodes, NEW c, NEW created
  PROVE  /\ Left(m, n, c, created).nb[n] = NoCell
         /\ \A k \in Nodes : k # n => Left(m, n, c, created).nb[k] = m.nb[k]
BY DEF Left, DensityMap

LEMMA EnteredPlace ==
  ASSUME NEW m \in DensityMap, NEW n \in Nodes, NEW c, NEW created
  PROVE  /\ Entered(m, n, c, created).nb[n] = c
         /\ \A k \in Nodes : k # n => Entered(m, n, c, created).nb[k] = m.nb[k]
BY DEF Entered, DensityMap

(* The enter, leave and stay callbacks leave a consistent map.             *)
LEMMA NotifyStep ==
  ASSUME now \in Nat, map \in DensityMap, Consistent(map), fault = "none",
         table \in [Nodes -> Record],
         NEW n \in Nodes, NEW c \in Cells, NEW created \in Nat, Notify(n, c, created)
  PROVE  map' \in DensityMap /\ Consistent(map') /\ fault' \in FaultSites
<1> DEFINE old   == table[n].cell
           moved == Left(map, n, old, created)
<1>1. CASE ~Running
  BY <1>1 DEF Notify, FaultSites
<1>2. CASE Running /\ old = NoCell
  <2>1. CASE EnteredFails(map, n)
    BY <1>2, <2>1, CellsAssumption DEF Notify, FaultSites
  <2>2. CASE ~EnteredFails(map, n)
    <3>1. map' = Entered(map, n, c, created) /\ fault' = "none"
      BY <1>2, <2>2, CellsAssumption DEF Notify
    <3>2. map.nb[n] = NoCell
      BY <2>2 DEF EnteredFails
    <3> QED BY <3>1, <3>2, EnteredKeeps DEF FaultSites
  <2> QED BY <2>1, <2>2
<1>3. CASE Running /\ old = c
  <2>1. CASE StayedFails(map, n, c)
    BY <1>3, <2>1, CellsAssumption DEF Notify, FaultSites
  <2>2. CASE ~StayedFails(map, n, c)
    <3>1. map' = Stayed(map, n, c, created) /\ fault' = "none"
      BY <1>3, <2>2, CellsAssumption DEF Notify
    <3> QED BY <3>1, StayedKeeps DEF FaultSites
  <2> QED BY <2>1, <2>2
<1>4. CASE Running /\ old \notin {c, NoCell}
  <2>1. CASE LeftFails(map, n, old)
    BY <1>4, <2>1 DEF Notify, FaultSites
  <2>2. CASE ~LeftFails(map, n, old)
    <3>1. map' = Entered(moved, n, c, created) /\ fault' = "none"
      BY <1>4, <2>2 DEF Notify
    <3>2. map.nb[n] = old /\ old \in Cells
      BY <1>4, <2>2 DEF LeftFails, Record
    <3>3. moved \in DensityMap /\ Consistent(moved)
      BY <3>2, LeftKeeps
    <3>4. moved.nb[n] = NoCell
      BY LeftPlace
    <3> HIDE DEF moved
    <3> QED BY <3>1, <3>3, <3>4, EnteredKeeps DEF FaultSites
  <2> QED BY <2>1, <2>2
<1> QED BY <1>1, <1>2, <1>3, <1>4

-----------------------------------------------------------------------------
LEMMA BaseInit == Init => BaseInv
<1> SUFFICES ASSUME Init PROVE BaseInv
  OBVIOUS
<1>1. Absent \in Record /\ Absent.cell = NoCell
  BY DEF Absent, Record
<1>2. TypeOK
  BY <1>1, EmptyMapConsistent, TimesAssumption DEF Init, TypeOK, FaultSites
<1>3. \A n \in Nodes : ~Present(n)
  BY <1>1 DEF Init, Present
<1>4. TimerAhead /\ MeteredInThePast /\ Consistent(map)
  BY EmptyMapConsistent, TimesAssumption DEF Init, TimerAhead, MeteredInThePast
<1> QED BY <1>2, <1>3, <1>4 DEF BaseInv, RecordIsNewest, PurgedInTime

(* A purge and what it emits keep every part of BaseInv that is not about  *)
(* the clock or the timer.                                                 *)
LEMMA CheckAllTimeToLiveStep ==
  ASSUME BaseInv, CheckAllTimeToLive
  PROVE  /\ table' \in [Nodes -> Record]
         /\ map' \in DensityMap /\ Consistent(map') /\ fault' \in FaultSites
         /\ \A n \in Nodes : Present(n)' =>
              Present(n) /\ table'[n] = table[n] /\ ~TtlReached(table[n].created)
<1>1. Expired \in SUBSET Nodes
  BY DEF Expired
<1>2. /\ table' \in [Nodes -> Record]
      /\ \A n \in Nodes : n \in Expired => ~Present(n)'
      /\ \A n \in Nodes : n \notin Expired => table'[n] = table[n]
  BY <1>1, PurgeStep DEF BaseInv, TypeOK, CheckAllTimeToLive
<1>3. map' \in DensityMap /\ Consistent(map') /\ fault' \in FaultSites
  BY <1>1, EmitRemovedStep DEF BaseInv, TypeOK, CheckAllTimeToLive
<1>4. ASSUME NEW n \in Nodes, Present(n)'
      PROVE  Present(n) /\ table'[n] = table[n] /\ ~TtlReached(table[n].created)
  <2>1. n \notin Expired /\ table'[n] = table[n]
    BY <1>2, <1>4
  <2> QED BY <1>4, <2>1 DEF Expired, Present
<1> QED BY <1>2, <1>3, <1>4

(* Every action keeps BaseInv.                                             *)
LEMMA BaseStep == BaseInv /\ [Next]_vars => BaseInv'
<1> SUFFICES ASSUME BaseInv, [Next]_vars PROVE BaseInv'
  OBVIOUS
<1>0. /\ TypeOK /\ now \in Nat /\ ttlTimer \in Nat /\ MaxAge \in Nat
      /\ \A n \in Nodes : table[n].created \in Nat /\ lastSeq[n] \in Int
  BY TimesAssumption DEF BaseInv, TypeOK, Record
<1>1. CASE Tick
  <2>1. now' = now + 1 /\ now < ttlTimer
    BY <1>1 DEF Tick
  <2>2. UNCHANGED <<ttlTimer, lastSeq, table, app, map, lastAged, fault>>
    BY <1>1 DEF Tick
  <2>3. TypeOK'
    BY <1>0, <2>1, <2>2 DEF TypeOK
  <2>4. TimerAhead' /\ MeteredInThePast'
    BY <1>0, <2>1, <2>2 DEF BaseInv, TimerAhead, MeteredInThePast
  <2>5. RecordIsNewest' /\ PurgedInTime' /\ Consistent(map)'
    BY <2>2 DEF BaseInv, RecordIsNewest, PurgedInTime, Present, Consistent
  <2> QED BY <2>3, <2>4, <2>5 DEF BaseInv
<1>2. CASE TtlTimer
  <2>1. /\ ttlTimer = now /\ ttlTimer' = now + MaxAge
        /\ UNCHANGED <<now, lastSeq, app, lastAged>>
        /\ CheckAllTimeToLive
    BY <1>2 DEF TtlTimer
  <2>2. TypeOK' /\ Consistent(map)'
    BY <1>0, <2>1, CheckAllTimeToLiveStep DEF TypeOK, Consistent
  <2>3. TimerAhead' /\ MeteredInThePast'
    BY <1>0, <2>1 DEF BaseInv, TimerAhead, MeteredInThePast
  <2>4. ASSUME NEW n \in Nodes, Present(n)'
        PROVE  table'[n].created = lastSeq'[n] /\ ttlTimer' <= table'[n].created + 2 * MaxAge
    <3>1. Present(n) /\ table'[n] = table[n] /\ ~TtlReached(table[n].created)
      BY <2>1, <2>4, CheckAllTimeToLiveStep
    <3> QED BY <1>0, <2>1, <3>1 DEF TtlReached, BaseInv, RecordIsNewest
  <2> QED BY <2>2, <2>3, <2>4 DEF BaseInv, RecordIsNewest, PurgedInTime, Present
<1>3. CASE GetSize
  <2>1. /\ UNCHANGED <<now, ttlTimer, lastSeq, app, lastAged>>
        /\ CheckAllTimeToLive
    BY <1>3 DEF GetSize
  <2>2. TypeOK' /\ Consistent(map)'
    BY <1>0, <2>1, CheckAllTimeToLiveStep DEF TypeOK, Consistent
  <2>3. TimerAhead' /\ MeteredInThePast'
    BY <2>1 DEF BaseInv, TimerAhead, MeteredInThePast
  <2>4. ASSUME NEW n \in Nodes, Present(n)'
        PROVE  table'[n].created = lastSeq'[n] /\ ttlTimer' <= table'[n].created + 2 * MaxAge
    <3>1. Present(n) /\ table'[n] = table[n]
      BY <2>1, <2>4, CheckAllTimeToLiveStep
    <3> QED BY <2>1, <3>1 DEF BaseInv, RecordIsNewest, PurgedInTime
  <2> QED BY <2>2, <2>3, <2>4 DEF BaseInv, RecordIsNewest, PurgedInTime, Present
<1>4. ASSUME NEW n \in Nodes, NEW c \in Cells, NEW created \in 0..now,
             ReceiveBeacon(n, c, created)
      PROVE  BaseInv'
  <2>1. /\ fault = "none" /\ created > lastSeq[n]
        /\ lastSeq' = [lastSeq EXCEPT ![n] = created]
        /\ UNCHANGED <<now, ttlTimer, app, lastAged>>
        /\ created \in Nat /\ created <= now
    BY <1>0, <1>4 DEF ReceiveBeacon, InOrder
  <2>2. /\ lastSeq' \in [Nodes -> Nat \cup {-1}] /\ lastSeq'[n] = created
        /\ \A k \in Nodes : k # n => lastSeq'[k] = lastSeq[k]
    BY <2>1 DEF BaseInv, TypeOK
  <2>3. TimerAhead' /\ MeteredInThePast'
    BY <1>0, <2>1, <2>2 DEF BaseInv, TimerAhead, MeteredInThePast
  <2>4. CASE TtlReached(created)
    <3> DEFINE S == {n} \cap {k \in Nodes : Present(k)}
    <3>1. Purge({n}) /\ EmitRemoved(S)
      BY <1>4, <2>4 DEF ReceiveBeacon, DropInfo
    <3>2. /\ table' \in [Nodes -> Record] /\ ~Present(n)'
          /\ \A k \in Nodes : k # n => table'[k] = table[k]
      BY <3>1, PurgeStep DEF BaseInv, TypeOK
    <3>3. map' \in DensityMap /\ Consistent(map') /\ fault' \in FaultSites
      BY <2>1, <3>1, EmitRemovedStep DEF BaseInv, TypeOK
    <3>4. TypeOK' /\ Consistent(map)'
      BY <1>0, <2>1, <2>2, <3>2, <3>3 DEF TypeOK, Consistent
    <3>5. RecordIsNewest' /\ PurgedInTime'
      BY <2>1, <2>2, <3>2 DEF BaseInv, RecordIsNewest, PurgedInTime, Present
    <3> QED BY <2>3, <3>4, <3>5 DEF BaseInv
  <2>5. CASE ~TtlReached(created)
    <3> DEFINE new == [cell |-> c, created |-> created]
    <3>1. table' = [table EXCEPT ![n] = new] /\ Notify(n, c, created)
      BY <1>4, <2>5 DEF ReceiveBeacon, SaveInfo
    <3>2. new \in Record /\ new.created = created
      BY <2>1 DEF Record
    <3>3. /\ table' \in [Nodes -> Record] /\ table'[n] = new
          /\ \A k \in Nodes : k # n => table'[k] = table[k]
      BY <3>1, <3>2 DEF BaseInv, TypeOK
    <3>4. map' \in DensityMap /\ Consistent(map') /\ fault' \in FaultSites
      BY <2>1, <3>1, NotifyStep DEF BaseInv, TypeOK
    <3>5. TypeOK' /\ Consistent(map)'
      BY <1>0, <2>1, <2>2, <3>3, <3>4 DEF TypeOK, Consistent
    <3>6. ttlTimer <= created + 2 * MaxAge
      BY <1>0, <2>1, <2>5 DEF TtlReached, BaseInv, TimerAhead
    <3>7. RecordIsNewest' /\ PurgedInTime'
      BY <2>1, <2>2, <3>2, <3>3, <3>6 DEF BaseInv, RecordIsNewest, PurgedInTime, Present
    <3> QED BY <2>3, <3>5, <3>7 DEF BaseInv
  <2> QED BY <2>4, <2>5
<1>5. CASE Setup
  <2>1. /\ app' = "running" /\ lastAged' = -1 /\ Purge(Expired) /\ fault = "none"
        /\ UNCHANGED <<now, ttlTimer, lastSeq>>
        /\ \/ fault' = "setup" /\ map' = EmptyMap
           \/ fault' = fault /\ map' = Initialised
    BY <1>5 DEF Setup
  <2>2. Expired \in SUBSET Nodes
    BY DEF Expired
  <2>3. /\ table' \in [Nodes -> Record]
        /\ \A n \in Nodes : n \in Expired => ~Present(n)'
        /\ \A n \in Nodes : n \notin Expired => table'[n] = table[n]
    BY <2>1, <2>2, PurgeStep DEF BaseInv, TypeOK
  <2>4. map' \in DensityMap /\ Consistent(map') /\ fault' \in FaultSites
    BY <1>0, <2>1, EmptyMapConsistent, InitialisedKeeps DEF TypeOK, FaultSites
  <2>5. TypeOK' /\ Consistent(map)'
    BY <1>0, <2>1, <2>3, <2>4 DEF TypeOK, Consistent
  <2>6. TimerAhead' /\ MeteredInThePast'
    BY <2>1 DEF BaseInv, TimerAhead, MeteredInThePast
  <2>7. RecordIsNewest' /\ PurgedInTime'
    BY <2>1, <2>3 DEF BaseInv, RecordIsNewest, PurgedInTime, Present
  <2> QED BY <2>5, <2>6, <2>7 DEF BaseInv
<1>6. CASE Teardown
  <2>1. app' = "stopped" /\ UNCHANGED <<now, ttlTimer, lastSeq, table, map, lastAged, fault>>
    BY <1>6 DEF Teardown
  <2>2. TypeOK'
    BY <1>0, <2>1 DEF TypeOK
  <2>3. /\ TimerAhead' /\ MeteredInThePast' /\ RecordIsNewest' /\ PurgedInTime'
        /\ Consistent(map)'
    BY <2>1 DEF BaseInv, TimerAhead, MeteredInThePast, RecordIsNewest, PurgedInTime,
                Present, Consistent
  <2> QED BY <2>2, <2>3 DEF BaseInv
<1>7. CASE ComputeValues
  <2> DEFINE purged == IF Running THEN Removed(map, Expired) ELSE map
  <2>1. /\ fault = "none" /\ Purge(Expired)
        /\ UNCHANGED <<now, ttlTimer, lastSeq, app>>
    BY <1>7 DEF ComputeValues
  <2>2. Expired \in SUBSET Nodes
    BY DEF Expired
  <2>3. /\ table' \in [Nodes -> Record]
        /\ \A n \in Nodes : n \in Expired => ~Present(n)'
        /\ \A n \in Nodes : n \notin Expired => table'[n] = table[n]
    BY <2>1, <2>2, PurgeStep DEF BaseInv, TypeOK
  <2>4. /\ map' \in DensityMap /\ Consistent(map') /\ fault' \in FaultSites
        /\ lastAged' \in Nat \cup {-1}
    <3>1. CASE Running /\ RemovedFails(map, Expired)
      BY <1>0, <1>7, <3>1 DEF ComputeValues, BaseInv, TypeOK, FaultSites
    <3>2. CASE ~(Running /\ RemovedFails(map, Expired))
      <4>1. purged \in DensityMap /\ Consistent(purged)
        <5>1. CASE ~Running
          BY <1>0, <5>1 DEF BaseInv, TypeOK
        <5>2. CASE Running
          <6>1. \A n \in Expired : map.nb[n] # NoCell
            BY <3>2, <5>2 DEF RemovedFails
          <6> QED BY <1>0, <2>2, <5>2, <6>1, RemovedKeeps DEF BaseInv, TypeOK
        <5> QED BY <5>1, <5>2
      <4>2. AgeHandled(purged) \in DensityMap /\ Consistent(AgeHandled(purged))
        <5> HIDE DEF purged
        <5> QED BY <1>0, <4>1, AgeHandledKeeps
      <4>3. /\ map' = IF now > lastAged THEN AgeHandled(purged) ELSE purged
            /\ lastAged' = now /\ fault' = "none"
        BY <1>7, <2>1, <3>2 DEF ComputeValues
      <4> HIDE DEF purged
      <4> QED BY <1>0, <4>1, <4>2, <4>3 DEF FaultSites
    <3> QED BY <3>1, <3>2
  <2>5. TypeOK' /\ Consistent(map)'
    BY <1>0, <2>1, <2>3, <2>4 DEF TypeOK, Consistent
  <2>6. TimerAhead' /\ MeteredInThePast'
    BY <2>1 DEF BaseInv, TimerAhead, MeteredInThePast
  <2>7. RecordIsNewest' /\ PurgedInTime'
    BY <2>1, <2>3 DEF BaseInv, RecordIsNewest, PurgedInTime, Present
  <2> QED BY <2>5, <2>6, <2>7 DEF BaseInv
<1>8. CASE UNCHANGED vars
  BY <1>8 DEF vars, BaseInv, TypeOK, TimerAhead, MeteredInThePast, RecordIsNewest,
              PurgedInTime, Present, Consistent
<1> QED BY <1>1, <1>2, <1>3, <1>4, <1>5, <1>6, <1>7, <1>8 DEF Next

(* The base invariant: in every reachable state, whatever the times, every *)
(* part of BaseInv holds.                                                  *)
THEOREM BaseInvariant == Spec => []BaseInv
BY BaseInit, BaseStep, PTL DEF Spec

(* Every variable of the table, of the map and of the application keeps    *)
(* its type; in particular no count becomes negative (decrementCount).     *)
THEOREM TypeCorrect == Spec => []TypeOK
<1>1. BaseInv => TypeOK
  BY DEF BaseInv
<1> QED BY <1>1, BaseInvariant, PTL

(* A late or repeated beacon never brings an older position back           *)
(* (NeighborhoodTable::processInfo).                                       *)
THEOREM NewestKept == Spec => NeverOlder
<1>1. ASSUME BaseInv, [Next]_vars
      PROVE  [\A n \in Nodes : Present(n)' => lastSeq[n] <= table'[n].created]_vars
  <2> SUFFICES ASSUME NEW n \in Nodes, Present(n)'
               PROVE  lastSeq[n] <= table'[n].created
    OBVIOUS
  <2>1. table'[n].created = lastSeq'[n]
    BY <1>1, BaseStep DEF BaseInv, RecordIsNewest
  <2>2. lastSeq'[n] >= lastSeq[n]
    <3>1. lastSeq \in [Nodes -> Nat \cup {-1}]
      BY <1>1 DEF BaseInv, TypeOK
    <3>2. ASSUME NEW k \in Nodes, NEW c \in Cells, NEW created \in 0..now,
                 ReceiveBeacon(k, c, created)
          PROVE  lastSeq'[n] >= lastSeq[n]
      <4>1. lastSeq' = [lastSeq EXCEPT ![k] = created] /\ created > lastSeq[k]
        BY <3>2 DEF ReceiveBeacon, InOrder
      <4> QED BY <3>1, <4>1
    <3>3. CASE UNCHANGED lastSeq
      BY <3>1, <3>3
    <3> QED BY <1>1, <3>2, <3>3
          DEF Next, vars, Tick, TtlTimer, GetSize, Setup, Teardown, ComputeValues
  <2>3. lastSeq[n] \in Int /\ lastSeq'[n] \in Int
    BY <1>1, BaseStep DEF BaseInv, TypeOK
  <2> QED BY <2>1, <2>2, <2>3
<1> QED BY <1>1, BaseInvariant, PTL DEF Spec, NeverOlder

(* No record outlives its time-to-live by a timer period or more           *)
(* (NeighborhoodTable::handleMessage).                                     *)
THEOREM StalenessBounded == Spec => []BoundedStaleness
<1>1. BaseInv => BoundedStaleness
  <2> SUFFICES ASSUME BaseInv, NEW n \in Nodes, Present(n)
               PROVE  now <= table[n].created + 2 * MaxAge
    BY DEF BoundedStaleness
  <2>1. now \in Nat /\ ttlTimer \in Nat /\ table[n].created \in Nat /\ MaxAge \in Nat
    BY TimesAssumption DEF BaseInv, TypeOK, Record
  <2>2. now <= ttlTimer /\ ttlTimer <= table[n].created + 2 * MaxAge
    BY DEF BaseInv, TimerAhead, PurgedInTime
  <2> QED BY <2>1, <2>2
<1> QED BY <1>1, BaseInvariant, PTL

(* Every count of the local map is the size of its neighborhood: no beacon *)
(* counts a node twice and no departure is missed (incrementCount,         *)
(* decrementCount), also when the age handler resets an occupied cell.     *)
THEOREM CountsCorrect == Spec => []CountIsNeighborhood
<1>1. BaseInv => CountIsNeighborhood
  BY DEF BaseInv, Consistent, CountIsNeighborhood
<1> QED BY <1>1, BaseInvariant, PTL

(* A node leaves the table only when its own newest record has expired     *)
(* (NeighborhoodTable::removeInfo, checkAllTimeToLive).                    *)
THEOREM RemovalJustified == Spec => RemovedOnlyWhenExpired
<1>1. ASSUME BaseInv, [Next]_vars
      PROVE  [\A n \in Nodes : Present(n) /\ ~Present(n)' => table[n].created + MaxAge < now]_vars
  <2> SUFFICES ASSUME NEW n \in Nodes, Present(n), ~Present(n)'
               PROVE  table[n].created + MaxAge < now
    OBVIOUS
  <2>0. now \in Nat /\ MaxAge \in Nat /\ table[n].created \in Nat
    BY <1>1, TimesAssumption DEF BaseInv, TypeOK, Record
  <2>1. CASE Purge(Expired)
    <3>1. n \in Expired
      BY <2>1 DEF Purge, Present
    <3> QED BY <3>1 DEF Expired, TtlReached
  <2>2. CASE UNCHANGED table
    BY <2>2 DEF Present
  <2>3. ASSUME NEW k \in Nodes, NEW c \in Cells, NEW created \in 0..now,
               ReceiveBeacon(k, c, created)
        PROVE  table[n].created + MaxAge < now
    <3>1. CASE TtlReached(created)
      <4>1. n = k
        BY <2>3, <3>1 DEF ReceiveBeacon, DropInfo, Purge, Present
      <4>2. table[n].created < created
        BY <1>1, <2>3, <4>1 DEF ReceiveBeacon, InOrder, BaseInv, RecordIsNewest
      <4> QED BY <2>0, <3>1, <4>2 DEF TtlReached
    <3>2. CASE ~TtlReached(created)
      <4>1. table' = [table EXCEPT ![k] = [cell |-> c, created |-> created]]
        BY <2>3, <3>2 DEF ReceiveBeacon, SaveInfo
      <4>2. table \in [Nodes -> Record]
        BY <1>1 DEF BaseInv, TypeOK
      <4>3. Present(n)'
        BY <4>1, <4>2, CellsAssumption DEF Present
      <4> QED BY <4>3
    <3> QED BY <3>1, <3>2
  <2>4. CASE Tick
    BY <2>2, <2>4 DEF Tick
  <2>5. CASE Teardown
    BY <2>2, <2>5 DEF Teardown
  <2>6. CASE TtlTimer \/ GetSize \/ Setup \/ ComputeValues
    BY <2>1, <2>6 DEF TtlTimer, GetSize, CheckAllTimeToLive, Setup, ComputeValues
  <2>7. CASE UNCHANGED vars
    BY <2>2, <2>7 DEF vars
  <2> QED BY <1>1, <2>3, <2>4, <2>5, <2>6, <2>7 DEF Next
<1> QED BY <1>1, BaseInvariant, PTL DEF Spec, RemovedOnlyWhenExpired

-----------------------------------------------------------------------------
(* The map and the table.  A purge of nodes that both know is followed by  *)
(* both.                                                                   *)
LEMMA RemovedFollows ==
  ASSUME BaseInv, RunInv, Running, fault = "none",
         NEW S \in SUBSET Nodes, \A n \in S : Present(n), Purge(S)
  PROVE  /\ ~RemovedFails(map, S)
         /\ Removed(map, S) \in DensityMap
         /\ \A n \in Nodes : Removed(map, S).nb[n] = table'[n].cell
         /\ Fresh(Removed(map, S), table')
<1> DEFINE mm == Removed(map, S)
<1>1. \A n \in S : map.nb[n] # NoCell
  BY DEF RunInv, MapAgreesWithTable, Present
<1>2. ~RemovedFails(map, S) /\ mm \in DensityMap
  BY <1>1, RemovedKeeps DEF BaseInv, TypeOK
<1>3. /\ table' \in [Nodes -> Record]
      /\ \A n \in Nodes : n \in S => table'[n].cell = NoCell
      /\ \A n \in Nodes : n \notin S => table'[n] = table[n]
  BY PurgeStep DEF BaseInv, TypeOK, Present
<1>4. \A n \in Nodes : mm.nb[n] = IF n \in S THEN NoCell ELSE map.nb[n]
  BY DEF Removed
<1>5. \A n \in Nodes : mm.nb[n] = table'[n].cell
  BY <1>3, <1>4 DEF RunInv, MapAgreesWithTable
<1>6. Newer(map, mm)
  BY <1>2, RemovedNewer DEF BaseInv, TypeOK
<1>7. Fresh(mm, table')
  <2> HIDE DEF mm
  <2>1. map \in DensityMap /\ table \in [Nodes -> Record] /\ Fresh(map, table)
    BY DEF BaseInv, TypeOK, RunInv
  <2>2. \A n \in Nodes : n \notin S /\ mm.nb[n] # NoCell =>
           /\ mm.entry[mm.nb[n]].exists
           /\ mm.entry[mm.nb[n]].valid
           /\ table'[n].created <= mm.entry[mm.nb[n]].measured
    BY <1>2, <1>3, <1>4, <1>6, <2>1, FreshKept
  <2> QED BY <1>4, <2>2 DEF Fresh
<1> QED BY <1>2, <1>5, <1>7

(* emitRemoved of nodes that the table holds never throws.                 *)
LEMMA PurgeKeepsRunInv ==
  ASSUME BaseInv, RunInv, fault = "none", app' = app,
         NEW S \in SUBSET Nodes, \A n \in S : Present(n), Purge(S), EmitRemoved(S)
  PROVE  RunInv'
<1>1. CASE Running
  <2>1. map' = Removed(map, S) /\ fault' = fault
    BY <1>1, RemovedFollows DEF EmitRemoved
  <2> QED BY <1>1, <2>1, RemovedFollows
        DEF RunInv, CallbacksNeverFail, MapAgreesWithTable, Fresh
<1>2. CASE ~Running
  BY <1>2 DEF EmitRemoved, RunInv, CallbacksNeverFail, MapAgreesWithTable, Running
<1> QED BY <1>1, <1>2

(* The enter, leave and stay callbacks follow a table that saves a record. *)
LEMMA NotifyKeepsRunInv ==
  ASSUME BaseInv, RunInv, fault = "none", app' = app,
         NEW n \in Nodes, NEW c \in Cells, NEW created \in Nat,
         SaveInfo(n, c, created), Notify(n, c, created)
  PROVE  RunInv'
<1> DEFINE old   == table[n].cell
           moved == Left(map, n, old, created)
           new   == [cell |-> c, created |-> created]
<1>0. /\ now \in Nat /\ map \in DensityMap /\ Consistent(map)
      /\ table \in [Nodes -> Record] /\ new \in Record
  BY DEF BaseInv, TypeOK, Record
<1>1. /\ table' \in [Nodes -> Record] /\ table'[n] = new
      /\ \A k \in Nodes : k # n => table'[k] = table[k]
  BY <1>0 DEF SaveInfo
<1>2. CASE ~Running
  BY <1>2 DEF Notify, RunInv, CallbacksNeverFail, MapAgreesWithTable, Running
<1>3. CASE Running
  <2>0. /\ \A k \in Nodes : map.nb[k] = table[k].cell
        /\ Fresh(map, table)
    BY <1>3 DEF RunInv, MapAgreesWithTable
  (* it is enough that the new map has the node in its new cell, the       *)
  (* others where they were, and entries that only got newer               *)
  <2>1. ASSUME NEW mm \in DensityMap, map' = mm, fault' = "none",
               mm.nb[n] = c, \A k \in Nodes : k # n => mm.nb[k] = map.nb[k],
               Newer(map, mm), mm.entry[c].exists, mm.entry[c].valid,
               created <= mm.entry[c].measured
        PROVE  RunInv'
    <3>1. \A k \in Nodes : mm.nb[k] = table'[k].cell
      BY <1>1, <2>0, <2>1
    <3>2. \A k \in Nodes : k \notin {n} /\ mm.nb[k] # NoCell =>
             /\ mm.entry[mm.nb[k]].exists
             /\ mm.entry[mm.nb[k]].valid
             /\ table'[k].created <= mm.entry[mm.nb[k]].measured
      <4> DEFINE S == {n}
      <4>1. /\ S \in SUBSET Nodes
            /\ \A k \in Nodes : k \in S \/ (mm.nb[k] \in {map.nb[k], NoCell} /\ table'[k] = table[k])
        BY <1>1, <2>1
      <4> HIDE DEF S
      <4>2. \A k \in Nodes : k \notin S /\ mm.nb[k] # NoCell =>
             /\ mm.entry[mm.nb[k]].exists
             /\ mm.entry[mm.nb[k]].valid
             /\ table'[k].created <= mm.entry[mm.nb[k]].measured
        BY <1>0, <1>1, <2>0, <2>1, <4>1, FreshKept
      <4> QED BY <4>2 DEF S
    <3>3. Fresh(mm, table')
      BY <1>1, <2>1, <3>2 DEF Fresh
    <3> QED BY <2>1, <3>1, <3>3 DEF RunInv, CallbacksNeverFail, MapAgreesWithTable, Fresh
  <2>2. CASE old = NoCell
    <3>1. ~EnteredFails(map, n)
      BY <2>0, <2>2 DEF EnteredFails
    <3>2. map' = Entered(map, n, c, created) /\ fault' = "none"
      BY <1>3, <2>2, <3>1, CellsAssumption DEF Notify
    <3>3. Entered(map, n, c, created) \in DensityMap
      BY <1>0, <2>0, <2>2, EnteredKeeps
    <3>4. /\ Newer(map, Entered(map, n, c, created))
          /\ Entered(map, n, c, created).entry[c].exists
          /\ Entered(map, n, c, created).entry[c].valid
          /\ created <= Entered(map, n, c, created).entry[c].measured
      BY <1>0, EnteredNewer
    <3>5. /\ Entered(map, n, c, created).nb[n] = c
          /\ \A k \in Nodes : k # n => Entered(map, n, c, created).nb[k] = map.nb[k]
      BY <1>0, EnteredPlace
    <3> QED BY <2>1, <3>2, <3>3, <3>4, <3>5
  <2>3. CASE old = c
    <3>1. ~StayedFails(map, n, c)
      BY <2>0, <2>3 DEF StayedFails
    <3>2. map' = Stayed(map, n, c, created) /\ fault' = "none"
      BY <1>3, <2>3, <3>1, CellsAssumption DEF Notify
    <3>3. Stayed(map, n, c, created) \in DensityMap
      BY <1>0, StayedKeeps
    <3>4. /\ Newer(map, Stayed(map, n, c, created))
          /\ Stayed(map, n, c, created).entry[c].exists
          /\ Stayed(map, n, c, created).entry[c].valid
          /\ created <= Stayed(map, n, c, created).entry[c].measured
      BY <1>0, StayedNewer
    <3>5. Stayed(map, n, c, created).nb = map.nb /\ map.nb[n] = c
      BY <1>0, <2>0, <2>3 DEF Stayed, DensityMap
    <3> QED BY <2>1, <3>2, <3>3, <3>4, <3>5
  <2>4. CASE old \notin {c, NoCell}
    <3>1. map.nb[n] = old /\ old \in Cells
      BY <1>0, <2>0, <2>4 DEF Record
    <3>2. /\ ~LeftFails(map, n, old)
          /\ moved \in DensityMap /\ Consistent(moved)
      BY <1>0, <3>1, LeftKeeps
    <3>3. Newer(map, moved)
      BY <1>0, <3>1, <3>2, LeftNewer
    <3>4. /\ moved.nb[n] = NoCell
          /\ \A k \in Nodes : k # n => moved.nb[k] = map.nb[k]
      BY <1>0, LeftPlace
    <3>5. map' = Entered(moved, n, c, created) /\ fault' = "none"
      BY <1>3, <2>4, <3>2 DEF Notify
    <3> HIDE DEF moved
    <3>6. Entered(moved, n, c, created) \in DensityMap
      BY <1>0, <3>2, <3>4, EnteredKeeps
    <3>7. /\ Newer(moved, Entered(moved, n, c, created))
          /\ Entered(moved, n, c, created).entry[c].exists
          /\ Entered(moved, n, c, created).entry[c].valid
          /\ created <= Entered(moved, n, c, created).entry[c].measured
      BY <1>0, <3>2, EnteredNewer
    <3>8. Newer(map, Entered(moved, n, c, created))
      <4> DEFINE final == Entered(moved, n, c, created)
      <4>1. \A d \in Cells : /\ map.entry[d].measured \in Nat
                             /\ moved.entry[d].measured \in Nat
                             /\ final.entry[d].measured \in Nat
        BY <1>0, <3>2, <3>6 DEF DensityMap, Entry
      <4> HIDE DEF final
      <4>2. Newer(moved, final)
        BY <3>7 DEF final
      <4>3. Newer(map, final)
        BY <3>3, <4>1, <4>2 DEF Newer
      <4> QED BY <4>3 DEF final
    <3>9. /\ Entered(moved, n, c, created).nb[n] = c
          /\ \A k \in Nodes : k # n => Entered(moved, n, c, created).nb[k] = map.nb[k]
      BY <3>2, <3>4, EnteredPlace
    <3> QED BY <2>1, <3>5, <3>6, <3>7, <3>8, <3>9
  <2> QED BY <2>2, <2>3, <2>4
<1> QED BY <1>2, <1>3

(* initLocalMap on a table without expired records.                        *)
LEMMA InitialisedFresh ==
  ASSUME now \in Nat, table \in [Nodes -> Record],
         \A n \in Nodes : Present(n) => table[n].created <= now
  PROVE  Fresh(Initialised, table)
<1> SUFFICES ASSUME NEW n \in Nodes, Initialised.nb[n] # NoCell
             PROVE  /\ Initialised.entry[Initialised.nb[n]].exists
                    /\ Initialised.entry[Initialised.nb[n]].valid
                    /\ table[n].created <= Initialised.entry[Initialised.nb[n]].measured
  BY DEF Fresh
<1> DEFINE c    == table[n].cell
           here == {k \in Nodes : table[k].cell = c}
           e    == GetOrCreate(NoEntry, now)
<1>1. Initialised.nb[n] = c /\ c \in Cells /\ Present(n)
  BY DEF Initialised, Record, Present
<1>2. Cardinality(here) \in Nat /\ here # {}
  <2>1. here = Neighbors([k \in Nodes |-> table[k].cell], c)
    BY DEF Neighbors
  <2> QED BY <2>1, NeighborsFinite
<1>3. Initialised.entry[c] = Increment(e, Cardinality(here), 0)
  BY <1>1, <1>2 DEF Initialised
<1>4. e \in Entry /\ e.exists /\ e.measured = now
  BY DEF GetOrCreate, NoEntry, Entry
<1>5. table[n].created \in Nat /\ table[n].created <= now
  BY <1>1 DEF Record
<1> DEFINE i == Increment(e, Cardinality(here), 0)
<1>6. i.exists /\ i.valid /\ e.measured <= i.measured /\ i \in Entry
  <2>1. 0 \in Nat
    OBVIOUS
  <2> DEFINE k == Cardinality(here)
  <2>2. k \in Nat
    BY <1>2
  <2> HIDE DEF e, k
  <2>3. Increment(e, k, 0) \in Entry
    BY <1>4, <2>1, <2>2, EntryOps
  <2>4. /\ Increment(e, k, 0).exists /\ Increment(e, k, 0).valid
        /\ e.measured <= Increment(e, k, 0).measured
    BY <1>4, <2>1, <2>2, IncrementFields
  <2> QED BY <2>3, <2>4 DEF k
<1>7. Initialised.entry[c] = i
  BY <1>3
<1> HIDE DEF i, e
<1>8. i.measured \in Nat
  BY <1>6 DEF Entry
<1> QED BY <1>1, <1>4, <1>5, <1>6, <1>7, <1>8

-----------------------------------------------------------------------------
(* A cell lives at least as long as a record of the table, or forever.     *)
CellsOutliveRecords == CellTTL = 0 \/ MaxAge <= CellTTL

LEMMA RunInit == Init => RunInv
BY DEF Init, RunInv, CallbacksNeverFail, MapAgreesWithTable, Running

LEMMA RunStep ==
  ASSUME CellsOutliveRecords, BaseInv, RunInv, [Next]_vars
  PROVE  RunInv'
<1>1. CASE Tick \/ UNCHANGED vars
  BY <1>1 DEF Tick, vars, RunInv, CallbacksNeverFail, MapAgreesWithTable, Running, Fresh
<1>2. CASE TtlTimer \/ GetSize
  <2>1. fault = "none" /\ app' = app /\ Purge(Expired) /\ EmitRemoved(Expired)
    BY <1>2 DEF TtlTimer, GetSize, CheckAllTimeToLive
  <2>2. Expired \in SUBSET Nodes /\ \A n \in Expired : Present(n)
    BY DEF Expired
  <2> QED BY <2>1, <2>2, PurgeKeepsRunInv
<1>3. ASSUME NEW n \in Nodes, NEW c \in Cells, NEW created \in 0..now,
             ReceiveBeacon(n, c, created)
      PROVE  RunInv'
  <2>1. fault = "none" /\ app' = app /\ created \in Nat
    BY <1>3 DEF ReceiveBeacon, BaseInv, TypeOK
  <2>2. CASE TtlReached(created)
    <3> DEFINE S == {n} \cap {k \in Nodes : Present(k)}
    <3>1. Purge({n}) /\ EmitRemoved(S)
      BY <1>3, <2>2 DEF ReceiveBeacon, DropInfo
    <3>2. S \in SUBSET Nodes /\ \A k \in S : Present(k)
      OBVIOUS
    <3>4. CASE Present(n)
      <4>1. S = {n}
        BY <3>4
      <4> QED BY <2>1, <3>1, <3>2, <4>1, PurgeKeepsRunInv
    <3>5. CASE ~Present(n)
      <4>1. S = {} /\ table' \in [Nodes -> Record]
        BY <3>1, <3>5, PurgeStep DEF BaseInv, TypeOK
      <4>2. CASE ~Running
        BY <2>1, <3>1, <4>2 DEF EmitRemoved, RunInv, CallbacksNeverFail, MapAgreesWithTable, Running
      <4>3. CASE Running
        <5>1. map' = Removed(map, {}) /\ fault' = "none"
          <6>1. Removed(map, {}) \in DensityMap /\ ~RemovedFails(map, {})
            BY RemovedKeeps DEF BaseInv, TypeOK
          <6> QED BY <2>1, <3>1, <4>1, <4>3, <6>1 DEF EmitRemoved
        <5>2. Removed(map, {}) = map
          BY DEF Removed, BaseInv, TypeOK, DensityMap
        <5>3. \A k \in Nodes : map.nb[k] = table[k].cell
          BY <2>1, <4>3 DEF RunInv, MapAgreesWithTable
        <5>4. \A k \in Nodes : table'[k].cell = table[k].cell
          BY <3>1, <3>5 DEF Purge, Present, Absent
        <5>5. \A k \in Nodes : map.nb[k] # NoCell => table'[k] = table[k]
          BY <3>1, <3>5, <5>3 DEF Purge, Present
        <5> QED BY <2>1, <4>3, <5>1, <5>2, <5>3, <5>4, <5>5
              DEF RunInv, CallbacksNeverFail, MapAgreesWithTable, Running, Fresh
      <4> QED BY <4>2, <4>3
    <3> QED BY <3>4, <3>5
  <2>3. CASE ~TtlReached(created)
    <3>1. SaveInfo(n, c, created) /\ Notify(n, c, created)
      BY <1>3, <2>3 DEF ReceiveBeacon
    <3> QED BY <2>1, <3>1, NotifyKeepsRunInv
  <2> QED BY <2>2, <2>3
<1>4. CASE Setup
  <2>1. CASE RemovedFails(EmptyMap, Expired)
    BY <1>4, <2>1 DEF Setup, RunInv, CallbacksNeverFail, MapAgreesWithTable
  <2>2. CASE ~RemovedFails(EmptyMap, Expired)
    <3>1. map' = Initialised /\ fault' = "none" /\ Purge(Expired)
      BY <1>4, <2>2 DEF Setup
    <3>2. Expired = {}
      BY <2>2 DEF RemovedFails, EmptyMap, Expired
    <3>3. table' = table
      BY <3>1, <3>2 DEF Purge, BaseInv, TypeOK
    <3>4. \A n \in Nodes : Present(n) => table[n].created <= now
      BY DEF BaseInv, RecordIsNewest, MeteredInThePast
    <3>5. Fresh(Initialised, table)
      BY <3>4, InitialisedFresh DEF BaseInv, TypeOK
    <3>6. \A n \in Nodes : Initialised.nb[n] = table[n].cell
      BY DEF Initialised
    <3> QED BY <3>1, <3>3, <3>5, <3>6
          DEF RunInv, CallbacksNeverFail, MapAgreesWithTable, Fresh
  <2> QED BY <2>1, <2>2
<1>5. CASE Teardown
  BY <1>5 DEF Teardown, RunInv, CallbacksNeverFail, MapAgreesWithTable, Running
<1>6. CASE ComputeValues
  <2> DEFINE mm == Removed(map, Expired)
  <2>1. fault = "none" /\ Purge(Expired) /\ app' = app /\ now' = now
    BY <1>6 DEF ComputeValues
  <2>2. Expired \in SUBSET Nodes /\ \A n \in Expired : Present(n)
    BY DEF Expired
  <2>3. CASE ~Running
    BY <1>6, <2>1, <2>3 DEF ComputeValues, RunInv, CallbacksNeverFail, MapAgreesWithTable, Running
  <2>4. CASE Running
    <3>1. /\ ~RemovedFails(map, Expired) /\ mm \in DensityMap
          /\ \A n \in Nodes : mm.nb[n] = table'[n].cell
          /\ Fresh(mm, table')
      BY <2>1, <2>2, <2>4, RemovedFollows
    <3>2. /\ map' = IF now > lastAged THEN AgeHandled(mm) ELSE mm
          /\ fault' = "none"
      BY <1>6, <2>1, <2>4, <3>1 DEF ComputeValues
    <3>3. /\ table' \in [Nodes -> Record]
          /\ \A n \in Nodes : n \in Expired => ~Present(n)'
          /\ \A n \in Nodes : n \notin Expired => table'[n] = table[n]
      BY <2>1, <2>2, PurgeStep DEF BaseInv, TypeOK
    <3>4. ASSUME NEW n \in Nodes, mm.nb[n] # NoCell
          PROVE  now <= table'[n].created + MaxAge
      <4>1. Present(n)'
        BY <3>1, <3>4 DEF Present
      <4>2. table'[n] = table[n] /\ ~TtlReached(table[n].created)
        BY <3>3, <4>1 DEF Expired, Present
      <4>3. now \in Nat /\ table[n].created \in Nat /\ MaxAge \in Nat
        BY TimesAssumption DEF BaseInv, TypeOK, Record
      <4> QED BY <4>2, <4>3 DEF TtlReached
    <3>5. now \in Nat
      BY DEF BaseInv, TypeOK
    <3> HIDE DEF mm
    <3>6. AgeHandled(mm).nb = mm.nb /\ Fresh(AgeHandled(mm), table')
      BY <3>1, <3>3, <3>4, <3>5, AgeHandledFresh DEF CellsOutliveRecords
    <3>7. (\A n \in Nodes : map'.nb[n] = table'[n].cell) /\ Fresh(map', table')
      BY <3>1, <3>2, <3>6
    <3> QED BY <3>2, <3>7 DEF RunInv, CallbacksNeverFail, MapAgreesWithTable, Fresh
  <2> QED BY <2>3, <2>4
<1> QED BY <1>1, <1>2, <1>3, <1>4, <1>5, <1>6 DEF Next

(* If cells outlive records, the map follows the table in every reachable  *)
(* state.                                                                  *)
THEOREM RunInvariant ==
  ASSUME CellsOutliveRecords
  PROVE  Spec => []RunInv
<1>1. BaseInv /\ RunInv /\ [Next]_vars => RunInv'
  BY RunStep
<1> QED BY <1>1, RunInit, BaseInvariant, PTL DEF Spec

(* If cells outlive records, the callbacks alone keep the map and the      *)
(* table in agreement on where every node is (the emit functions of        *)
(* INeighborhoodTable against the callbacks of DensityMapAppSimple).       *)
THEOREM MapFollowsTable ==
  ASSUME CellsOutliveRecords
  PROVE  Spec => []MapAgreesWithTable
<1>1. RunInv => MapAgreesWithTable
  BY DEF RunInv
<1> QED BY <1>1, RunInvariant, PTL

(* If cells outlive records, the age handler forgets no neighbor that the  *)
(* table still holds (TTLCellAgeHandler::applyIfChanged).                  *)
THEOREM OccupiedCellsFresh ==
  ASSUME CellsOutliveRecords
  PROVE  Spec => []OccupiedCellIsFresh
<1>1. RunInv => OccupiedCellIsFresh
  BY DEF RunInv, Fresh, OccupiedCellIsFresh
<1> QED BY <1>1, RunInvariant, PTL

(* If cells outlive records, no callback throws after the set up (the      *)
(* cRuntimeErrors of DensityMapAppSimple and of decrementCount).           *)
THEOREM NoCallbackFails ==
  ASSUME CellsOutliveRecords
  PROVE  Spec => []CallbacksNeverFail
<1>1. RunInv => CallbacksNeverFail
  BY DEF RunInv
<1> QED BY <1>1, RunInvariant, PTL
=============================================================================
