------------------------------ MODULE LocalMap ------------------------------
(***************************************************************************)
(* One node's view of its surroundings: the NeighborhoodTable, filled by   *)
(* beacons and purged by a time-to-live, and the local layer of the        *)
(* density map, which DensityMapAppSimple keeps in step with the table     *)
(* through the table's listener callbacks.                                 *)
(*                                                                         *)
(* The network is not a variable: ReceiveBeacon takes any beacon a sender  *)
(* may have emitted up to now, so a beacon may be lost (never received),   *)
(* delayed for as long as one likes, overtaken and duplicated.  A node     *)
(* emits at most one beacon per tick, so the creation tick of a beacon     *)
(* stands for its sequence number as well; the 16 bit wrap of the number   *)
(* is the subject of module Reception.                                     *)
(*                                                                         *)
(* A cRuntimeError ends the simulation: `fault' names the callback that    *)
(* raised it and no action is enabled afterwards.                          *)
(***************************************************************************)
EXTENDS CellEntries, Integers, FiniteSets

CONSTANTS
  Nodes,    \* the nodes whose beacons this node can receive (itself included)
  Cells,    \* the cells of the grid
  NoCell,   \* "no cell": the node is absent from the table or from the map
  MaxAge,   \* NeighborhoodTable.maxAge
  CellTTL,  \* MapCfg.cellAgeTTL, 0 when the age handler is disabled
  MaxTime   \* sim-time-limit

ASSUME NodesAssumption == IsFiniteSet(Nodes)
ASSUME CellsAssumption == NoCell \notin Cells
ASSUME TimesAssumption == MaxAge \in Nat \ {0} /\ CellTTL \in Nat /\ MaxTime \in Nat

VARIABLES
  now,       \* simTime()
  ttlTimer,  \* when NeighborhoodTable::ttl_msg fires
  lastSeq,   \* highest sequence number metered per source, -1 if none
  table,     \* NeighborhoodTable::_table: cell and creation time per node
  app,       \* BaseApp's root state: not yet set up, running, torn down
  map,       \* the DcDMap: [nb: node -> cell, entry: cell -> local entry]
  lastAged,  \* time of the age handler's last visit, -1 if none
  fault      \* the callback that threw, "none" so far

vars == <<now, ttlTimer, lastSeq, table, app, map, lastAged, fault>>

Absent == [cell |-> NoCell, created |-> 0]
EmptyMap == [nb |-> [n \in Nodes |-> NoCell], entry |-> [c \in Cells |-> NoEntry]]

Running == app = "running"
Present(n) == table[n].cell # NoCell
Neighbors(nb, c) == {n \in Nodes : nb[n] = c}

-----------------------------------------------------------------------------
(* The table's time-to-live.                                               *)

(* Fault: the time-to-live is reached one tick early.                      *)
TtlReachedEarly(created) == created + MaxAge <= now

(* BeaconReceptionInfo::checkCurrentTtlReached                             *)
TtlReached(created) == created + MaxAge < now
Expired == {n \in Nodes : Present(n) /\ TtlReached(table[n].created)}

-----------------------------------------------------------------------------
(* The listener callbacks of DensityMapAppSimple.  XFails says when the    *)
(* callback throws, X gives the map it leaves otherwise.                   *)

(* neighborhoodEntryRemoved, once for each node of S                       *)
RemovedFails(m, S) ==
  \/ \E n \in S : m.nb[n] = NoCell
  \/ \E c \in Cells :
       GetOrCreate(m.entry[c], now).count < Cardinality(S \cap Neighbors(m.nb, c))
Removed(m, S) ==
  [nb    |-> [n \in Nodes |-> IF n \in S THEN NoCell ELSE m.nb[n]],
   entry |-> [c \in Cells |->
                LET gone == S \cap Neighbors(m.nb, c) IN
                IF gone = {} THEN m.entry[c]
                ELSE Decrement(GetOrCreate(m.entry[c], now), Cardinality(gone), now)]]

(* Fault: the cell that was left keeps its count.                          *)
LeftUncounted(m, n, c, created) ==
  [nb    |-> [m.nb EXCEPT ![n] = NoCell],
   entry |-> [m.entry EXCEPT ![c] = Touch(GetOrCreate(@, now), created)]]

(* neighborhoodEntryLeaveCell: the node leaves cell c                      *)
LeftFails(m, n, c) == m.nb[n] # c \/ GetOrCreate(m.entry[c], now).count < 1
Left(m, n, c, created) ==
  [nb    |-> [m.nb EXCEPT ![n] = NoCell],
   entry |-> [m.entry EXCEPT ![c] = Decrement(GetOrCreate(@, now), 1, created)]]

(* neighborhoodEntryEnterCell: the node is counted in cell c               *)
EnteredFails(m, n) == m.nb[n] # NoCell
Entered(m, n, c, created) ==
  [nb    |-> [m.nb EXCEPT ![n] = c],
   entry |-> [m.entry EXCEPT ![c] = Increment(GetOrCreate(@, now), 1, created)]]

(* neighborhoodEntryStayInCell: the node is still in cell c                *)
StayedFails(m, n, c) == m.nb[n] # c
Stayed(m, n, c, created) ==
  [m EXCEPT !.entry[c] = Touch(GetOrCreate(@, now), created)]

(* initLocalMap on a new map: neighborhoodEntryEnterCell for each node of  *)
(* the table.  A new entry is stamped with the current time, and no beacon *)
(* was created after it.                                                   *)
Initialised ==
  [nb    |-> [n \in Nodes |-> table[n].cell],
   entry |-> [c \in Cells |->
                LET here == {n \in Nodes : table[n].cell = c} IN
                IF here = {} THEN NoEntry
                ELSE Increment(GetOrCreate(NoEntry, now), Cardinality(here), 0)]]

(* TTLCellAgeHandler on every cell: an aged local entry is reset and its   *)
(* neighbors are forgotten.                                                *)
AgeHandled(m) ==
  [nb    |-> [n \in Nodes |->
                IF m.nb[n] # NoCell /\ Aged(m.entry[m.nb[n]], CellTTL, now)
                THEN NoCell ELSE m.nb[n]],
   entry |-> [c \in Cells |->
                IF Aged(m.entry[c], CellTTL, now) THEN Reset(m.entry[c]) ELSE m.entry[c]]]

-----------------------------------------------------------------------------
Init ==
  /\ now = 0
  /\ ttlTimer = MaxAge
  /\ lastSeq = [n \in Nodes |-> -1]
  /\ table = [n \in Nodes |-> Absent]
  /\ app = "init"
  /\ map = EmptyMap
  /\ lastAged = -1
  /\ fault = "none"

(* Time passes when every timer due now has fired.                         *)
Tick ==
  /\ fault = "none"
  /\ now < MaxTime
  /\ now < ttlTimer
  /\ now' = now + 1
  /\ UNCHANGED <<ttlTimer, lastSeq, table, app, map, lastAged, fault>>

(* What emitRemoved does for the nodes S: the callback acts only while the *)
(* application is running.                                                 *)
EmitRemoved(S) ==
  IF Running /\ RemovedFails(map, S)
  THEN fault' = "removed" /\ UNCHANGED map
  ELSE map' = (IF Running THEN Removed(map, S) ELSE map) /\ UNCHANGED fault

Purge(S) == table' = [n \in Nodes |-> IF n \in S THEN Absent ELSE table[n]]

(* checkAllTimeToLive as BeaconDynamic::createPacket calls it through      *)
(* NeighborhoodTable::getSize.                                             *)
CheckAllTimeToLive ==
  /\ fault = "none"
  /\ Purge(Expired)
  /\ EmitRemoved(Expired)

GetSize ==
  /\ CheckAllTimeToLive
  /\ UNCHANGED <<now, ttlTimer, lastSeq, app, lastAged>>

(* Fault: the timer skips every other purge.                               *)
TtlTimerSlow ==
  /\ ttlTimer = now
  /\ CheckAllTimeToLive
  /\ ttlTimer' = now + 2 * MaxAge
  /\ UNCHANGED <<now, lastSeq, app, lastAged>>

(* NeighborhoodTable::handleMessage                                        *)
TtlTimer ==
  /\ ttlTimer = now
  /\ CheckAllTimeToLive
  /\ ttlTimer' = now + MaxAge
  /\ UNCHANGED <<now, lastSeq, app, lastAged>>

(* Fault: only the repetition of the newest beacon is recognised.          *)
InOrderIfNew(n, created) == created # lastSeq[n]

(* AppRxInfoPerSource::checkOutOfOrder, without the wrap                   *)
InOrder(n, created) == created > lastSeq[n]

(* Fault: the map is never told that removeInfo took a record away.        *)
DropInfoSilently(n) == Purge({n}) /\ UNCHANGED <<map, fault>>

(* removeInfo: the beacon is too old on arrival.  It replaced the record   *)
(* of its node in the table and goes with it; the map is told only if      *)
(* there was a record.                                                     *)
DropInfo(n) ==
  /\ Purge({n})
  /\ EmitRemoved({n} \cap {k \in Nodes : Present(k)})

SaveInfo(n, c, created) == table' = [table EXCEPT ![n] = [cell |-> c, created |-> created]]

(* emitEnterCell, emitLeaveCell and emitStayInCell                         *)
Notify(n, c, created) ==
  LET old   == table[n].cell
      moved == Left(map, n, old, created)
      site  == CASE old = NoCell /\ EnteredFails(map, n)             -> "enter"
                 [] old = c /\ StayedFails(map, n, c)                -> "stay"
                 [] old \notin {c, NoCell} /\ LeftFails(map, n, old) -> "leave"
                 [] OTHER                                            -> "none"
      next  == CASE old = NoCell -> Entered(map, n, c, created)
                 [] old = c      -> Stayed(map, n, c, created)
                 [] OTHER        -> Entered(moved, n, c, created)
  IN  IF ~Running THEN UNCHANGED <<map, fault>>
      ELSE /\ fault' = site
           /\ map' = IF site = "none" THEN next ELSE map

(* The beacon application passes a metered beacon to processInfo.          *)
ReceiveBeacon(n, c, created) ==
  /\ fault = "none"
  /\ InOrder(n, created)
  /\ lastSeq' = [lastSeq EXCEPT ![n] = created]
  /\ IF TtlReached(created)
     THEN DropInfo(n)
     ELSE SaveInfo(n, c, created) /\ Notify(n, c, created)
  /\ UNCHANGED <<now, ttlTimer, app, lastAged>>

(* DensityMapAppSimple::fsmSetup.  BaseApp::fsmSetup has set _isRunning    *)
(* when initLocalMap purges the table, so a record that has expired but    *)
(* was not purged yet is looked up in the new, empty map.                  *)
Setup ==
  /\ fault = "none"
  /\ app = "init"
  /\ app' = "running"
  /\ lastAged' = -1
  /\ Purge(Expired)
  /\ IF RemovedFails(EmptyMap, Expired)
     THEN fault' = "setup" /\ map' = EmptyMap
     ELSE map' = Initialised /\ UNCHANGED fault
  /\ UNCHANGED <<now, ttlTimer, lastSeq>>

(* BaseApp::fsmTeardown                                                    *)
Teardown ==
  /\ fault = "none"
  /\ Running
  /\ app' = "stopped"
  /\ UNCHANGED <<now, ttlTimer, lastSeq, table, map, lastAged, fault>>

(* DensityMapAppSimple::computeValues: purge the table, then let the age   *)
(* handler visit the map once per point in time.  The map exists from the  *)
(* set up on.                                                              *)
ComputeValues ==
  LET purged == IF Running THEN Removed(map, Expired) ELSE map IN
  /\ fault = "none"
  /\ app # "init"
  /\ Purge(Expired)
  /\ IF Running /\ RemovedFails(map, Expired)
     THEN fault' = "removed" /\ UNCHANGED <<map, lastAged>>
     ELSE /\ map' = IF now > lastAged THEN AgeHandled(purged) ELSE purged
          /\ lastAged' = now
          /\ UNCHANGED fault
  /\ UNCHANGED <<now, ttlTimer, lastSeq, app>>

Next ==
  \/ Tick
  \/ TtlTimer
  \/ GetSize
  \/ \E n \in Nodes, c \in Cells, created \in 0..now : ReceiveBeacon(n, c, created)
  \/ Setup
  \/ Teardown
  \/ ComputeValues

Spec == Init /\ [][Next]_vars

-----------------------------------------------------------------------------
FaultSites == {"none", "setup", "removed", "enter", "leave", "stay"}
Record == [cell : Cells \cup {NoCell}, created : Nat]
DensityMap == [nb : [Nodes -> Cells \cup {NoCell}], entry : [Cells -> Entry]]

TypeOK ==
  /\ now \in Nat
  /\ ttlTimer \in Nat
  /\ lastSeq \in [Nodes -> Nat \cup {-1}]
  /\ table \in [Nodes -> Record]
  /\ app \in {"init", "running", "stopped"}
  /\ map \in DensityMap
  /\ lastAged \in Nat \cup {-1}
  /\ fault \in FaultSites

(* A record outlives its time-to-live by less than one timer period,       *)
(* although nothing but the periodic purge removes a silent node           *)
(* (NeighborhoodTable::handleMessage).                                     *)
BoundedStaleness == \A n \in Nodes : Present(n) => now <= table[n].created + 2 * MaxAge

(* While the application runs, the density map and the table agree on      *)
(* which node is where, though only callbacks connect them and two of the  *)
(* table's operations may forget a node (removeInfo, checkAllTimeToLive).  *)
MapAgreesWithTable ==
  Running /\ fault = "none" => \A n \in Nodes : map.nb[n] = table[n].cell

(* The local count of a cell is the number of neighbors in it: no beacon   *)
(* is counted twice and no departure is missed (incrementCount and         *)
(* decrementCount of the callbacks against the neighborhood of the map).   *)
CountIsNeighborhood ==
  fault = "none" /\ app # "init" =>
    \A c \in Cells : map.entry[c].count = Cardinality(Neighbors(map.nb, c))

(* The entry of an occupied cell is valid and at least as new as every     *)
(* beacon counted in it, so the age handler, which resets a cell by the    *)
(* time of its entry, cannot forget a neighbor the table still holds.      *)
OccupiedCellIsFresh ==
  Running /\ fault = "none" =>
    \A n \in Nodes : map.nb[n] # NoCell =>
      LET e == map.entry[map.nb[n]] IN e.valid /\ table[n].created <= e.measured

(* No callback throws once the application is set up: the five             *)
(* cRuntimeErrors of DensityMapAppSimple and the one of decrementCount are *)
(* unreachable if a cell lives at least as long as a record of the table.  *)
CallbacksNeverFail == fault \in {"none", "setup"}

(* A node leaves the table only when its newest beacon has reached the     *)
(* time-to-live, also when a beacon that is too old on arrival removes it  *)
(* (the argument in the comment of NeighborhoodTable::removeInfo).         *)
RemovedOnlyWhenExpired ==
  [][\A n \in Nodes : Present(n) /\ ~Present(n)' => table[n].created + MaxAge < now]_vars

(* The table never holds a position older than the newest one metered for  *)
(* the node: a late or repeated beacon replaces nothing, not even after    *)
(* its node was purged (NeighborhoodTable::processInfo, the isUpdated      *)
(* test).                                                                  *)
NeverOlder == [][\A n \in Nodes : Present(n)' => lastSeq[n] <= table'[n].created]_vars

(* "Read already existing neighborhood into density map": the set up takes *)
(* over the table without an error (DensityMapAppSimple::initLocalMap).    *)
SetupReadsTable == fault # "setup"
=============================================================================
