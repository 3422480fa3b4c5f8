------------------------------- MODULE Guidance -------------------------------
(***************************************************************************)
(* The guidance of a crowd: Vadere moves the pedestrians, the coupling     *)
(* creates and removes their nodes and calls the controller when its time  *)
(* has come, and a recommendation reaches the pedestrians                  *)
(*   - in Vadere, as an order for an area (LocalController),               *)
(*   - in Vadere, as a new target of everyone (PingPong), or               *)
(*   - over the air, from the control application of a station to the      *)
(*     pedestrians' ones, which give it to Vadere (AvoidShort of           *)
(*     mucFreiheit_route_choice_app, ChangeTarget).                        *)
(*                                                                         *)
(* The controller runs within the event of the coupling: the two processes *)
(* answer each other in turn (ControlTraCiApi::handleControlLoop).         *)
(***************************************************************************)
EXTENDS Controllers

CONSTANTS
  Persons,   \* ids of pedestrians
  Station,   \* the node of the sending application (misc[0])
  Area,      \* the addressee of an order for an area
  Dt,        \* m_updateInterval
  Frame,     \* how long an order for an area is valid
  HopCount   \* BaseBroadcast::initialHopCount of the station

ASSUME GuidanceAssumption ==
  /\ Station \notin Persons
  /\ Area \notin Persons
  /\ Dt \in Nat \ {0}
  /\ Frame \in Nat
  /\ HopCount \in Nat

(* "adjust the value here if you adjust the time stepping": the values of  *)
(* the controllers are 1.6 s, 2 s and the 0.4 s of the coupling.           *)
ASSUME SteppingAssumption ==
  /\ Dt <= Step
  /\ Frame <= Step - Dt

VARIABLES
  now,        \* simTime() of the last event of the coupling
  seen,       \* the pedestrians that have departed so far
  persons,    \* the pedestrians in Vadere
  nodes,      \* VadereNodeManager::m_nodes
  densities,  \* the data processors of Vadere, or the map that is asked for
  orders,     \* the orders Vadere follows
  targetOf,   \* the target a pedestrian was given by name
  gate,       \* messages at the control gate of the station
  air,        \* broadcast packets under way
  calls,      \* history: how often the controller was called
  calledAt    \* history: when it was called last

world == <<seen, persons, nodes, densities>>
history == <<calls, calledAt>>
vars == <<controllerVars, now, world, orders, targetOf, gate, air, history>>

Advice == [time : Nat, target : Routes]
Orders == [who : Persons \cup {Area}, from : Nat, until : Nat, target : Routes]
Packets == [to : Persons \cup {Station}, hops : Int, advice : Advice]

Init ==
  /\ InitController
  /\ now = 0
  /\ seen \in SUBSET Persons
  /\ persons = seen
  /\ nodes = seen
  /\ densities \in [Routes -> Levels]
  /\ orders = {}
  /\ targetOf = [p \in Persons |-> None]
  /\ gate = {}
  /\ air = {}
  /\ calls = 0
  /\ calledAt = 0

-----------------------------------------------------------------------------
(* Vadere moves on: pedestrians depart and arrive, densities change.       *)
VadereStep(departed, arrived) ==
  /\ departed \subseteq Persons \ seen
  /\ arrived \subseteq persons
  /\ seen' = seen \cup departed
  /\ persons' = (persons \cup departed) \ arrived
  /\ densities' \in [Routes -> Levels]

(* Fault: the nodes of those that arrived are kept.                        *)
TraciStepNoRemoval(departed, arrived) == nodes' = nodes \cup departed

(* VadereNodeManager::traciStep                                            *)
TraciStep(departed, arrived) == nodes' = (nodes \cup departed) \ arrived

(* Fault: the controller is called one event late.                         *)
DueStrict(t) == nextTime <= 0 \/ t > nextTime

(* Fault: the controller is called at every event.                         *)
DueAlways(t) == nextTime <= Horizon

(* ControlManager::traciStep                                               *)
Due(t) == nextTime <= 0 \/ t >= nextTime

(* Orders that are over, and those of pedestrians that have left.          *)
Standing(t) == {o \in orders : o.until >= t /\ o.who \in persons' \cup {Area}}

(* apply_redirection_measure: an order for the area, if there is a route   *)
(* to recommend.                                                           *)
OrderArea(t) ==
  orders' = Standing(t) \cup
    {[who |-> Area, from |-> t, until |-> t + Frame, target |-> r] :
       r \in {currentTarget'} \ {None}}

(* Pedestrians that have left have no target any more.                     *)
Keep == [p \in Persons |-> IF p \in persons' THEN targetOf[p] ELSE None]

(* PingPong: everybody who is there gets the target.                       *)
TellEverybody ==
  targetOf' = [p \in Persons |-> IF p \in persons' THEN currentTarget' ELSE None]

(* send_recommendation_if_necessary: ControlManager::handleActionCommand   *)
(* hands the advice to the control gate of the station.                    *)
SendControl(t) ==
  gate' = gate \cup {[time |-> t, target |-> r] : r \in {currentTarget'} \ {None}}

(* The recommendation takes one of three ways.                             *)
Recommend(t) ==
  /\ IF strategy \in Local THEN OrderArea(t) ELSE orders' = Standing(t)
  /\ IF strategy = "PingPong" THEN TellEverybody ELSE targetOf' = Keep
  /\ IF strategy \in ByPacket THEN SendControl(t) ELSE UNCHANGED gate

(* VadereCore::handleMessage: one event of the coupling, with everything   *)
(* that is called in it.  A message at the gate is handled before, at the  *)
(* time it was sent.                                                       *)
Coupling(departed, arrived) ==
  LET t == now + Dt IN
  /\ t <= Horizon
  /\ gate = {}
  /\ now' = t
  /\ VadereStep(departed, arrived)
  /\ TraciStep(departed, arrived)
  /\ air' = {k \in air : k.to \in nodes' \cup {Station}}
  /\ IF Due(t)
     THEN /\ HandleSimStep(t, densities')
          /\ Recommend(t)
          /\ calls' = calls + 1
          /\ calledAt' = t
     ELSE /\ orders' = Standing(t)
          /\ targetOf' = Keep
          /\ UNCHANGED <<controllerVars, gate, history>>

-----------------------------------------------------------------------------
(* A broadcast is heard by every other node that has the application.      *)
Broadcast(n, hops, advice) ==
  {[to |-> m, hops |-> hops, advice |-> advice] : m \in (nodes \cup {Station}) \ {n}}

(* BroadcastControlApp::fsmHandleSubState                                  *)
HandleControl ==
  /\ \E a \in gate :
       /\ gate' = gate \ {a}
       /\ air' = air \cup Broadcast(Station, HopCount, a)
  /\ UNCHANGED <<controllerVars, now, world, orders, targetOf, history>>

(* Fault: the hops are not counted down.                                   *)
RebroadcastAlways(k) ==
  IF k.hops - 1 > 0 THEN Broadcast(k.to, k.hops, k.advice) ELSE {}

(* BaseBroadcast::handleDataArrived: passed on while hops are left.  A     *)
(* packet heard before is passed on again.                                 *)
Rebroadcast(k) ==
  IF k.hops - 1 > 0 THEN Broadcast(k.to, k.hops - 1, k.advice) ELSE {}

(* BroadcastControlApp::handlePayload: a pedestrian's application gives    *)
(* the advice to Vadere, where it stays in force.                          *)
HandlePayload(k) ==
  orders' = IF k.to = Station THEN orders
            ELSE orders \cup {[who |-> k.to, from |-> k.advice.time, until |-> Horizon,
                               target |-> k.advice.target]}

Receive ==
  /\ \E k \in air :
       /\ air' = (air \ {k}) \cup Rebroadcast(k)
       /\ HandlePayload(k)
  /\ UNCHANGED <<controllerVars, now, world, targetOf, gate, history>>

(* The packet is not received.                                             *)
Lose ==
  /\ \E k \in air : air' = air \ {k}
  /\ UNCHANGED <<controllerVars, now, world, orders, targetOf, gate, history>>

Next ==
  \/ \E departed, arrived \in SUBSET Persons : Coupling(departed, arrived)
  \/ HandleControl
  \/ Receive
  \/ Lose

Spec == Init /\ [][Next]_vars

(* The event loop processes every event; a packet is received or lost.     *)
Fairness ==
  /\ WF_vars(\E departed, arrived \in SUBSET Persons : Coupling(departed, arrived))
  /\ WF_vars(HandleControl)
  /\ WF_vars(Receive)

FairSpec == Spec /\ Fairness

-----------------------------------------------------------------------------
TypeOK ==
  /\ ControllerTypeOK
  /\ now \in Nat
  /\ seen \subseteq Persons
  /\ persons \subseteq seen
  /\ nodes \subseteq Persons
  /\ densities \in [Routes -> Levels]
  /\ orders \subseteq Orders
  /\ targetOf \in [Persons -> Choices]
  /\ gate \subseteq Advice
  /\ air \subseteq Packets
  /\ calls \in Nat
  /\ calledAt \in Nat

(* The k-th call comes with the first event of the coupling at or after    *)
(* its planned time, whatever the step of the coupling is: calls neither   *)
(* drift nor are left out, and none comes after the end (forward_time,     *)
(* ControlManager::traciStep).                                             *)
Planned == Start + calls * Step
ControllerOnTime == [][now' # now =>
  /\ calls' = calls + 1 <=> Planned <= now' /\ (Planned <= EndTime \/ calls = 0)
  /\ calls' # calls => calls' = calls + 1 /\ now < Planned]_vars

(* No two recommendations contradict each other: an order for the area is  *)
(* over when the next one is given, and all pedestrians that PingPong has  *)
(* told have the same target.                                              *)
OneRecommendation ==
  /\ \A o, q \in orders : o.who = Area /\ q.who = Area => o.target = q.target
  /\ \A p \in persons : targetOf[p] \in {None, currentTarget}

(* A row of the log tells the truth: it has the densities of its time, and *)
(* the route that was recommended then, if and only if one was; a closed   *)
(* loop recommends a route of least density.                               *)
GivenAt(t) == {o.target : o \in {q \in orders : q.from = t}} \cup {a.target : a \in gate}
RowsTellTheTruth == [][calls' # calls /\ strategy \in Logging =>
  /\ row'.time = now'
  /\ row'.densities = densities'
  /\ GivenAt(now)' = {row'.choice} \ {None}
  /\ strategy = "ClosedLoop" => row'.choice \in Minimal(densities')]_vars

(* Every order in force, every packet and every message was logged when it *)
(* was given, and is for somebody who is there: late packets and copies    *)
(* that go round cannot make up advice, and nothing is left of pedestrians *)
(* that have arrived.                                                      *)
OnlyLoggedOrders ==
  /\ strategy \in Logging =>
       /\ \A o \in orders : <<o.from, o.target>> \in log
       /\ \A k \in air : <<k.advice.time, k.advice.target>> \in log
  /\ \A o \in orders : o.who \in persons \cup {Area}
  /\ \A k \in air : k.to \in persons \cup {Station}

(* Broadcasts die out: nobody remembers what it has passed on, the count   *)
(* of hops alone ends a packet.                                            *)
PacketsDieOut == <>[](air = {} /\ gate = {})
=============================================================================
