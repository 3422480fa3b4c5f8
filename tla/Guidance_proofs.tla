--------------------------- MODULE Guidance_proofs ---------------------------
(***************************************************************************)
(* The safety properties of Guidance for every controller, any number of   *)
(* routes, pedestrians and hops, and any times that fit each other.  Inv   *)
(* says when the next call is planned, and that a call has left nothing of *)
(* the ones before it in the area.                                         *)
(***************************************************************************)
EXTENDS Guidance, TLAPS

(* The plan of the calls.                                                  *)
Plan ==
  /\ now < nextTime
  /\ calls = 0 => nextTime = Start
  /\ calls > 0 => nextTime = IF Planned <= EndTime THEN Planned ELSE Horizon + 1

(* The order for the area is the one of the last call, which was late by   *)
(* less than one step of the coupling.                                     *)
AreaOrder == \A o \in orders : o.who = Area =>
  /\ o.target = currentTarget
  /\ o.until = o.from + Frame
  /\ nextTime <= Horizon => o.from < nextTime - Step + Dt

(* Only PingPong gives targets to pedestrians by name.                     *)
Told == \A p \in Persons :
  targetOf[p] \in IF strategy = "PingPong" THEN {None, currentTarget} ELSE {None}

Past ==
  /\ \A o \in orders : o.from <= now
  /\ \A a \in gate : a.time <= now
  /\ \A k \in air : k.advice.time <= now

(* Messages at the gate are logged, too.                                   *)
GateLogged == strategy \in Logging => \A a \in gate : <<a.time, a.target>> \in log

Inv ==
  /\ TypeOK
  /\ Plan
  /\ AreaOrder
  /\ Told
  /\ Past
  /\ GateLogged
  /\ OnlyLoggedOrders
  /\ nodes = persons

-----------------------------------------------------------------------------
LEMMA EndTimeNat == EndTime \in Nat
  BY ControllerAssumption DEF EndTime

LEMMA RoutesFacts == 0 \in Routes /\ Alternative \in Routes /\ None \notin Routes
  BY ControllerAssumption DEF Routes, Alternative

LEMMA InitInv == Init => Inv
<1> SUFFICES ASSUME Init PROVE Inv
  OBVIOUS
<1>1. ControllerTypeOK
  BY RoutesFacts, ControllerAssumption
  DEF Init, InitController, ControllerTypeOK, Rows, Choices
<1>2. TypeOK
  BY <1>1, GuidanceAssumption DEF Init, TypeOK, Choices
<1>3. Plan
  BY ControllerAssumption DEF Init, InitController, Plan
<1>4. Told
  BY DEF Init, Told
<1> QED
  BY <1>2, <1>3, <1>4
  DEF Init, Inv, AreaOrder, Past, GateLogged, OnlyLoggedOrders

(* A call of the controller chooses a route or none, logs it, and plans    *)
(* the next call.                                                          *)
LEMMA CallFacts ==
  ASSUME TypeOK, NEW t \in Nat, HandleSimStep(t, densities'),
         densities' \in [Routes -> Levels]
  PROVE  /\ ControllerTypeOK'
         /\ strategy' = strategy
         /\ nextTime' = IF nextTime + Step <= EndTime THEN nextTime + Step ELSE Horizon + 1
         /\ log \subseteq log'
         /\ strategy \in Logging =>
              /\ <<t, currentTarget'>> \in log'
              /\ row' = [time |-> t, densities |-> densities', choice |-> currentTarget']
         /\ strategy = "ClosedLoop" => currentTarget' \in Minimal(densities')
<1>1. strategy' = strategy /\ densitiesLast' \in [Routes -> Levels]
  BY DEF HandleSimStep, MeasureState, TypeOK, ControllerTypeOK
<1>2. strategy \in Logging => densitiesLast' = densities'
  BY DEF HandleSimStep, MeasureState
<1>3. /\ currentTarget' \in Choices
      /\ turn' \in Routes
      /\ strategy = "ClosedLoop" => currentTarget' \in Minimal(densitiesLast')
  <2>1. CASE strategy \in {"NoController", "ChangeTarget"} /\ UNCHANGED <<currentTarget, turn>>
    BY <2>1 DEF TypeOK, ControllerTypeOK
  <2>2. CASE strategy \in {"OpenLoop", "PingPong"} /\ Alternate
    <3>1. (turn + 1) % N \in 0 .. N - 1
      BY ControllerAssumption DEF TypeOK, ControllerTypeOK, Routes
    <3> QED
      BY <2>2, <3>1 DEF Alternate, TypeOK, ControllerTypeOK, Choices, Routes
  <2>3. CASE /\ strategy = "ClosedLoop"
             /\ currentTarget' \in Minimal(densitiesLast')
             /\ UNCHANGED turn
    BY <2>3 DEF Minimal, Choices, TypeOK, ControllerTypeOK
  <2>4. CASE /\ strategy \in {"AvoidShort", "AvoidShortMuc"}
             /\ currentTarget' \in {None, Alternative}
             /\ UNCHANGED turn
    BY <2>4, RoutesFacts DEF Choices, TypeOK, ControllerTypeOK
  <2>5. ComputeNextCorridorChoice
    BY DEF HandleSimStep
  <2> QED
    BY <2>1, <2>2, <2>3, <2>4, <2>5 DEF ComputeNextCorridorChoice
<1>4. nextTime' = IF nextTime + Step <= EndTime THEN nextTime + Step ELSE Horizon + 1
  BY DEF HandleSimStep, ForwardTime
<1>5. nextTime' \in Nat
  BY <1>4, ControllerAssumption DEF TypeOK, ControllerTypeOK
<1>6. CASE strategy \in Logging
  <2>1. /\ row' = [time |-> t, densities |-> densitiesLast', choice |-> currentTarget']
        /\ log' = log \cup {<<t, currentTarget'>>}
    BY <1>6 DEF HandleSimStep, WriteData
  <2>2. row' \in Rows /\ log' \subseteq Nat \X Choices
    BY <2>1, <1>1, <1>3 DEF Rows, TypeOK, ControllerTypeOK
  <2>3. ControllerTypeOK'
    BY <2>2, <1>1, <1>3, <1>5 DEF ControllerTypeOK, TypeOK
  <2>4. /\ strategy = "ClosedLoop" => currentTarget' \in Minimal(densities')
        /\ row' = [time |-> t, densities |-> densities', choice |-> currentTarget']
    BY <2>1, <1>2, <1>3, <1>6 DEF Minimal
  <2>5. log \subseteq log' /\ <<t, currentTarget'>> \in log'
    BY <2>1
  <2> QED
    BY <2>3, <2>4, <2>5, <1>1, <1>4
<1>7. CASE strategy \notin Logging
  <2>1. row' = row /\ log' = log
    BY <1>7 DEF HandleSimStep, WriteData
  <2>2. strategy # "ClosedLoop"
    BY <1>7 DEF Logging, Local
  <2> QED
    BY <2>1, <2>2, <1>1, <1>3, <1>4, <1>5, <1>7 DEF ControllerTypeOK, TypeOK
<1> QED
  BY <1>6, <1>7

(* The fields of an order, an advice and a packet.                         *)
LEMMA Fields ==
  ASSUME TypeOK
  PROVE  /\ \A o \in orders : /\ o.from \in Nat /\ o.until \in Nat /\ o.target \in Routes
                              /\ o.who \in Persons \cup {Area}
         /\ \A a \in gate : a.time \in Nat /\ a.target \in Routes
         /\ \A k \in air : /\ k.to \in Persons \cup {Station} /\ k.hops \in Int
                           /\ k.advice \in Advice
                           /\ k.advice.time \in Nat /\ k.advice.target \in Routes
  BY DEF TypeOK, Orders, Packets, Advice

(* Orders that stand were given before and are not over.                   *)
LEMMA StandingFacts ==
  ASSUME TypeOK, NEW t \in Nat, NEW o \in Standing(t)
  PROVE  o \in orders /\ o.until >= t /\ o.who \in persons' \cup {Area}
  BY DEF Standing

-----------------------------------------------------------------------------
(* The part of an event of the coupling that is the same with and without  *)
(* a call.                                                                 *)
LEMMA CouplingFacts ==
  ASSUME Inv, NEW departed \in SUBSET Persons, NEW arrived \in SUBSET Persons,
         Coupling(departed, arrived)
  PROVE  /\ now' = now + Dt /\ now' <= Horizon /\ now' \in Nat
         /\ gate = {}
         /\ seen' \subseteq Persons /\ persons' \subseteq seen'
         /\ nodes' = persons'
         /\ densities' \in [Routes -> Levels]
         /\ air' \subseteq air
         /\ \A k \in air' : k.to \in persons' \cup {Station}
<1>1. /\ now' = now + Dt /\ now' <= Horizon /\ gate = {}
      /\ VadereStep(departed, arrived) /\ TraciStep(departed, arrived)
      /\ air' = {k \in air : k.to \in nodes' \cup {Station}}
  BY DEF Coupling
<1>2. now' \in Nat
  BY <1>1, GuidanceAssumption DEF Inv, TypeOK
<1>3. seen' \subseteq Persons /\ persons' \subseteq seen' /\ densities' \in [Routes -> Levels]
  BY <1>1 DEF VadereStep, Inv, TypeOK
<1>4. nodes' = persons'
  BY <1>1 DEF VadereStep, TraciStep, Inv
<1> QED
  BY <1>1, <1>2, <1>3, <1>4

(* An event without a call.                                                *)
LEMMA QuietInv ==
  ASSUME Inv, NEW departed \in SUBSET Persons, NEW arrived \in SUBSET Persons,
         Coupling(departed, arrived), ~Due(now + Dt)
  PROVE  Inv' /\ calls' = calls
<1>0. /\ Past
      /\ \A o \in orders : o.from \in Nat
      /\ \A a \in gate : a.time \in Nat
      /\ \A k \in air : k.advice.time \in Nat
  BY Fields DEF Inv
<1>1. /\ orders' = Standing(now') /\ targetOf' = Keep
      /\ UNCHANGED <<controllerVars, gate, history>>
  BY CouplingFacts DEF Coupling
<1>2. /\ strategy' = strategy /\ currentTarget' = currentTarget /\ nextTime' = nextTime
      /\ log' = log /\ gate' = gate /\ calls' = calls /\ calledAt' = calledAt
      /\ ControllerTypeOK'
  BY <1>1 DEF controllerVars, history, Inv, TypeOK, ControllerTypeOK, Rows, Routes, Choices
<1>3. orders' \subseteq orders /\ \A o \in orders' : o.who \in persons' \cup {Area}
  BY <1>1 DEF Standing
<1>4. targetOf' \in [Persons -> Choices] /\ Told'
  BY <1>1, <1>2 DEF Keep, Inv, TypeOK, Told, Choices
<1>5. TypeOK'
  BY <1>2, <1>3, <1>4, CouplingFacts DEF Inv, TypeOK
<1>6. Plan'
  <2>0. now \in Nat /\ nextTime \in Nat /\ now' = now + Dt
    BY CouplingFacts DEF Inv, TypeOK, ControllerTypeOK
  <2>1. now' < nextTime
    BY <2>0, GuidanceAssumption DEF Due
  <2>2. EndTime' = EndTime /\ Planned' = Planned
    BY <1>2 DEF EndTime, Planned
  <2>3. Plan
    BY DEF Inv
  <2> QED
    BY <2>1, <2>2, <2>3, <1>2 DEF Plan
<1>7. AreaOrder'
  BY <1>2, <1>3 DEF Inv, AreaOrder
<1>8. Past'
  <2>1. /\ now \in Nat /\ now' \in Nat /\ now <= now'
        /\ gate' = {} /\ air' \subseteq air
    <3>1. now \in Nat
      BY DEF Inv, TypeOK
    <3>2. now' = now + Dt /\ now' \in Nat /\ gate = {} /\ air' \subseteq air
      BY CouplingFacts
    <3>3. now <= now'
      BY <3>1, <3>2, GuidanceAssumption
    <3> QED
      BY <3>1, <3>2, <3>3, <1>2
  <2>2. \A o \in orders : o.from <= now'
    BY <2>1, <1>0 DEF Past
  <2>3. \A k \in air : k.advice.time <= now'
    BY <2>1, <1>0 DEF Past
  <2> QED
    BY <1>3, <2>1, <2>2, <2>3 DEF Past
<1>9. GateLogged' /\ OnlyLoggedOrders'
  BY <1>2, <1>3, CouplingFacts DEF Inv, GateLogged, OnlyLoggedOrders
<1> QED
  BY <1>2, <1>4, <1>5, <1>6, <1>7, <1>8, <1>9, CouplingFacts DEF Inv

(* An event with a call.                                                   *)
LEMMA CallInv ==
  ASSUME Inv, NEW departed \in SUBSET Persons, NEW arrived \in SUBSET Persons,
         Coupling(departed, arrived), Due(now + Dt)
  PROVE  /\ Inv'
         /\ calls' = calls + 1
         /\ nextTime = Planned /\ Planned <= now'
         /\ Planned <= EndTime \/ calls = 0
         /\ strategy \in Logging =>
              /\ row' = [time |-> now', densities |-> densities', choice |-> currentTarget']
              /\ GivenAt(now)' = {currentTarget'} \ {None}
         /\ strategy = "ClosedLoop" => currentTarget' \in Minimal(densities')
<1>0. /\ TypeOK /\ Plan /\ AreaOrder /\ Told /\ Past /\ GateLogged /\ OnlyLoggedOrders
      /\ now \in Nat /\ nextTime \in Nat /\ calls \in Nat
      /\ now' = now + Dt /\ now' <= Horizon /\ now' \in Nat
  BY CouplingFacts DEF Inv, TypeOK, ControllerTypeOK
<1>1. /\ HandleSimStep(now', densities') /\ Recommend(now')
      /\ calls' = calls + 1 /\ calledAt' = now'
  BY <1>0 DEF Coupling
<1>2. /\ ControllerTypeOK'
      /\ strategy' = strategy
      /\ nextTime' = IF nextTime + Step <= EndTime THEN nextTime + Step ELSE Horizon + 1
      /\ log \subseteq log'
      /\ strategy \in Logging =>
           /\ <<now', currentTarget'>> \in log'
           /\ row' = [time |-> now', densities |-> densities', choice |-> currentTarget']
      /\ strategy = "ClosedLoop" => currentTarget' \in Minimal(densities')
  BY <1>0, <1>1, CallFacts, CouplingFacts
<1>3. currentTarget' \in Choices /\ nextTime' \in Nat
  BY <1>2 DEF ControllerTypeOK
<1>4. nextTime = Planned /\ Planned <= now' /\ (Planned <= EndTime \/ calls = 0)
  <2>1. nextTime <= now' /\ nextTime <= Horizon
    BY <1>0, ControllerAssumption DEF Due, Plan
  <2>2. CASE calls = 0
    <3>1. Planned = Start
      BY <2>2, ControllerAssumption DEF Planned
    <3> QED
      BY <3>1, <2>1, <2>2, <1>0 DEF Plan
  <2>3. CASE calls # 0
    <3>1. nextTime = IF Planned <= EndTime THEN Planned ELSE Horizon + 1
      BY <2>3, <1>0 DEF Plan
    <3> QED
      BY <3>1, <2>1, ControllerAssumption
  <2> QED
    BY <2>2, <2>3
<1>5. Planned' = Planned + Step /\ EndTime' = EndTime
  <2>1. (calls + 1) * Step = calls * Step + Step
    BY <1>0, ControllerAssumption
  <2>2. calls * Step \in Nat
    BY <1>0, ControllerAssumption
  <2> QED
    BY <2>1, <2>2, <1>1, <1>2, ControllerAssumption DEF Planned, EndTime
<1>6. Plan'
  <2>1. now' < nextTime + Step
    BY <1>0, GuidanceAssumption, SteppingAssumption, ControllerAssumption DEF Plan
  <2>2. now' < nextTime'
    BY <2>1, <1>0, <1>2, ControllerAssumption
  <2>3. calls' > 0 /\ calls' # 0
    BY <1>0, <1>1
  <2>4. nextTime' = IF Planned' <= EndTime' THEN Planned' ELSE Horizon + 1
    BY <1>2, <1>4, <1>5
  <2> QED
    BY <2>2, <2>3, <2>4 DEF Plan
<1>7. \A o \in Standing(now') : o \in orders /\ o.who # Area /\ o.who \in persons'
  <2> TAKE o \in Standing(now')
  <2>1. o \in orders /\ o.until >= now' /\ o.who \in persons' \cup {Area}
    BY DEF Standing
  <2>2. o.from \in Nat /\ o.until \in Nat
    BY <2>1, <1>0, Fields
  <2>3. ASSUME o.who = Area PROVE FALSE
    <3>1. nextTime <= Horizon
      BY <1>0, ControllerAssumption DEF Due, Plan
    <3>2. o.until = o.from + Frame /\ o.from < nextTime - Step + Dt
      BY <2>1, <2>3, <3>1, <1>0 DEF AreaOrder
    <3>3. nextTime <= now'
      BY <1>0 DEF Due, Plan
    <3> QED
      BY <2>1, <2>2, <3>2, <3>3, <1>0, GuidanceAssumption, ControllerAssumption,
         SteppingAssumption
  <2> QED
    BY <2>1, <2>3
<1> DEFINE New == {[who |-> Area, from |-> now', until |-> now' + Frame, target |-> r] :
                     r \in {currentTarget'} \ {None}}
<1>8. /\ orders' = Standing(now') \cup (IF strategy \in Local THEN New ELSE {})
      /\ targetOf' = IF strategy = "PingPong"
                     THEN [p \in Persons |-> IF p \in persons' THEN currentTarget' ELSE None]
                     ELSE Keep
      /\ gate' = IF strategy \in ByPacket
                 THEN {[time |-> now', target |-> r] : r \in {currentTarget'} \ {None}}
                 ELSE {}
  BY <1>1, CouplingFacts DEF Recommend, OrderArea, TellEverybody, SendControl
<1>9. /\ New \subseteq Orders
      /\ \A o \in New : /\ o.who = Area /\ o.from = now' /\ o.until = now' + Frame
                        /\ o.target = currentTarget' /\ o.target # None
      /\ \A r \in {currentTarget'} \ {None} : r \in Routes
  BY <1>0, <1>3, GuidanceAssumption DEF Orders, Choices
<1>10. /\ gate' \subseteq Advice
       /\ \A a \in gate' : a.time = now' /\ a.target = currentTarget' /\ a.target # None
  BY <1>0, <1>8, <1>9 DEF Advice
<1>11. targetOf' \in [Persons -> Choices] /\ Told'
  <2>1. CASE strategy = "PingPong"
    BY <2>1, <1>2, <1>3, <1>8 DEF Told, Choices
  <2>2. CASE strategy # "PingPong"
    BY <2>2, <1>0, <1>2, <1>8 DEF Told, Keep, Choices
  <2> QED
    BY <2>1, <2>2
<1>12. orders' \subseteq Orders
  BY <1>0, <1>7, <1>8, <1>9 DEF TypeOK
<1>13. TypeOK'
  <2>1. seen' \subseteq Persons /\ persons' \subseteq seen' /\ nodes' \subseteq Persons
    BY CouplingFacts
  <2>2. air' \subseteq Packets /\ densities' \in [Routes -> Levels]
    BY <1>0, CouplingFacts DEF TypeOK
  <2>3. calls' \in Nat /\ calledAt' \in Nat /\ now' \in Nat
    BY <1>0, <1>1
  <2> QED
    BY <2>1, <2>2, <2>3, <1>2, <1>10, <1>11, <1>12 DEF TypeOK
<1> HIDE DEF New
<1>14. AreaOrder'
  <2>1. now' < nextTime' - Step + Dt \/ nextTime' > Horizon
    <3>1. now' < nextTime + Dt
      BY <1>0, GuidanceAssumption DEF Plan
    <3> QED
      BY <3>1, <1>0, <1>2, GuidanceAssumption, ControllerAssumption
  <2> SUFFICES ASSUME NEW o \in orders', o.who = Area
               PROVE  /\ o.target = currentTarget'
                      /\ o.until = o.from + Frame
                      /\ nextTime' <= Horizon => o.from < nextTime' - Step + Dt
    BY DEF AreaOrder
  <2>2. o \in New
    BY <1>7, <1>8
  <2> QED
    BY <2>1, <2>2, <1>3, <1>9, ControllerAssumption
<1>15. Past'
  <2>1. \A o \in Standing(now') : o.from <= now'
    <3> TAKE o \in Standing(now')
    <3>1. o \in orders /\ o.from \in Nat /\ o.from <= now
      BY <1>0, <1>7, Fields DEF Past
    <3> QED
      BY <3>1, <1>0, GuidanceAssumption
  <2>2. \A k \in air' : k.advice.time <= now'
    <3> TAKE k \in air'
    <3>1. k \in air /\ k.advice.time \in Nat /\ k.advice.time <= now
      BY <1>0, CouplingFacts, Fields DEF Past
    <3> QED
      BY <3>1, <1>0, GuidanceAssumption
  <2>3. \A o \in orders' : o.from <= now'
    BY <2>1, <1>0, <1>8, <1>9
  <2>4. \A a \in gate' : a.time <= now'
    BY <1>0, <1>10
  <2> QED
    BY <2>2, <2>3, <2>4 DEF Past
<1>16. GateLogged'
  BY <1>2, <1>10 DEF GateLogged
<1>17. OnlyLoggedOrders'
  <2>1. \A o \in orders' : o.who \in persons' \cup {Area}
    BY <1>7, <1>8, <1>9
  <2>2. strategy \in Logging => \A o \in orders' : <<o.from, o.target>> \in log'
    BY <1>0, <1>2, <1>7, <1>8, <1>9 DEF OnlyLoggedOrders
  <2>3. strategy \in Logging => \A k \in air' : <<k.advice.time, k.advice.target>> \in log'
    BY <1>0, <1>2, CouplingFacts DEF OnlyLoggedOrders
  <2> QED
    BY <2>1, <2>2, <2>3, <1>2, CouplingFacts DEF OnlyLoggedOrders
<1>18. strategy \in Logging => GivenAt(now)' = {currentTarget'} \ {None}
  <2> SUFFICES ASSUME strategy \in Logging PROVE GivenAt(now)' = {currentTarget'} \ {None}
    OBVIOUS
  <2>1. \A o \in Standing(now') : o.from # now'
    <3> TAKE o \in Standing(now')
    <3>1. o \in orders /\ o.from \in Nat /\ o.from <= now
      BY <1>0, <1>7, Fields DEF Past
    <3> QED
      BY <3>1, <1>0, GuidanceAssumption
  <2>2. GivenAt(now)' \subseteq {currentTarget'} \ {None}
    BY <2>1, <1>8, <1>9, <1>10 DEF GivenAt
  <2>3. ASSUME currentTarget' # None PROVE currentTarget' \in GivenAt(now)'
    <3>1. CASE strategy \in Local
      <4>1. [who |-> Area, from |-> now', until |-> now' + Frame, target |-> currentTarget']
              \in orders'
        BY <2>3, <3>1, <1>8 DEF New
      <4> QED
        BY <4>1 DEF GivenAt
    <3>2. CASE strategy \notin Local
      <4>1. strategy \in ByPacket
        BY <3>2 DEF Logging, ByPacket
      <4>2. [time |-> now', target |-> currentTarget'] \in gate'
        BY <2>3, <4>1, <1>8
      <4> QED
        BY <4>2 DEF GivenAt
    <3> QED
      BY <3>1, <3>2
  <2> QED
    BY <2>2, <2>3
<1> QED
  BY <1>1, <1>2, <1>4, <1>6, <1>11, <1>13, <1>14, <1>15, <1>16, <1>17, <1>18,
     CouplingFacts DEF Inv

-----------------------------------------------------------------------------
(* A broadcast is addressed to the others that are there.                  *)
LEMMA BroadcastFacts ==
  ASSUME Inv, NEW n, NEW hops \in Int, NEW advice \in Advice
  PROVE  /\ Broadcast(n, hops, advice) \subseteq Packets
         /\ \A k \in Broadcast(n, hops, advice) :
              k.advice = advice /\ k.to \in persons \cup {Station}
<1>1. nodes = persons /\ persons \subseteq Persons
  BY DEF Inv, TypeOK
<1> QED
  BY <1>1 DEF Broadcast, Packets

(* The steps that concern packets only add packets with advice that is     *)
(* already under way, and orders that give this advice to a pedestrian.    *)
PacketStep(given) ==
  /\ UNCHANGED <<controllerVars, now, world, targetOf, history>>
  /\ gate' \subseteq gate
  /\ orders \subseteq orders'
  /\ orders' \subseteq Orders
  /\ air' \subseteq Packets
  /\ \A a \in given :
       /\ a.time <= now
       /\ strategy \in Logging => <<a.time, a.target>> \in log
  /\ \A k \in air' : k \in air \/ (k.advice \in given /\ k.to \in persons \cup {Station})
  /\ \A o \in orders' : o \in orders \/
       /\ o.who \in persons
       /\ \E a \in given : o.from = a.time /\ o.target = a.target

LEMMA PacketInv ==
  ASSUME Inv, NEW given \in SUBSET Advice, PacketStep(given)
  PROVE  Inv'
<1>1. /\ strategy' = strategy /\ currentTarget' = currentTarget /\ nextTime' = nextTime
      /\ log' = log /\ calls' = calls /\ calledAt' = calledAt
      /\ densitiesLast' = densitiesLast /\ turn' = turn /\ row' = row
      /\ now' = now /\ seen' = seen /\ persons' = persons /\ nodes' = nodes
      /\ densities' = densities /\ targetOf' = targetOf
  BY DEF PacketStep, controllerVars, history, world
<1>2. TypeOK'
  BY <1>1 DEF PacketStep, Inv, TypeOK, ControllerTypeOK
<1>3. Plan'
  BY <1>1 DEF PacketStep, Inv, Plan, Planned, EndTime
<1>4. AreaOrder'
  <2>1. persons \subseteq Persons
    BY DEF Inv, TypeOK
  <2>2. Area \notin persons
    BY <2>1, GuidanceAssumption
  <2> QED
    BY <1>1, <2>2 DEF PacketStep, Inv, AreaOrder
<1>5. Told'
  BY <1>1 DEF PacketStep, Inv, Told
<1>6. Past'
  BY <1>1 DEF PacketStep, Inv, Past
<1>7. GateLogged'
  BY <1>1 DEF PacketStep, Inv, GateLogged
<1>8. OnlyLoggedOrders'
  BY <1>1 DEF PacketStep, Inv, OnlyLoggedOrders
<1> QED
  BY <1>1, <1>2, <1>3, <1>4, <1>5, <1>6, <1>7, <1>8 DEF Inv

LEMMA HandleControlInv == Inv /\ HandleControl => Inv'
<1> SUFFICES ASSUME Inv, HandleControl PROVE Inv'
  OBVIOUS
<1>1. PICK a \in gate : /\ gate' = gate \ {a}
                        /\ air' = air \cup Broadcast(Station, HopCount, a)
  BY DEF HandleControl
<1>2. /\ UNCHANGED <<controllerVars, now, world, targetOf, history>>
      /\ orders' = orders
  BY DEF HandleControl
<1>3. a \in Advice /\ orders \subseteq Orders /\ air \subseteq Packets
  BY <1>1 DEF Inv, TypeOK
<1>4. HopCount \in Int
  BY GuidanceAssumption
<1>5. /\ air' \subseteq Packets
      /\ \A k \in air' : k \in air \/ (k.advice \in {a} /\ k.to \in persons \cup {Station})
  BY <1>1, <1>3, <1>4, BroadcastFacts
<1>6. a.time <= now /\ (strategy \in Logging => <<a.time, a.target>> \in log)
  BY <1>1 DEF Inv, Past, GateLogged
<1>7. {a} \in SUBSET Advice
  BY <1>3
<1>8. PacketStep({a})
  BY <1>1, <1>2, <1>3, <1>5, <1>6 DEF PacketStep
<1> QED
  BY <1>7, <1>8, PacketInv

LEMMA ReceiveInv == Inv /\ Receive => Inv'
<1> SUFFICES ASSUME Inv, Receive PROVE Inv'
  OBVIOUS
<1>1. PICK k \in air : air' = (air \ {k}) \cup Rebroadcast(k) /\ HandlePayload(k)
  BY DEF Receive
<1>2. UNCHANGED <<controllerVars, now, world, targetOf, history>> /\ gate' = gate
  BY DEF Receive
<1> DEFINE a == k.advice
<1>3. /\ a \in Advice /\ a.time \in Nat /\ a.target \in Routes /\ k.hops \in Int
      /\ k.to \in Persons \cup {Station}
      /\ orders \subseteq Orders /\ air \subseteq Packets
  BY <1>1, Fields DEF Inv, TypeOK
<1>4. /\ a.time <= now /\ (strategy \in Logging => <<a.time, a.target>> \in log)
      /\ k.to \in persons \cup {Station}
  BY <1>1 DEF Inv, Past, OnlyLoggedOrders
<1>5. k.hops - 1 \in Int
  BY <1>3
<1>6. /\ air' \subseteq Packets
      /\ \A q \in air' : q \in air \/ (q.advice \in {a} /\ q.to \in persons \cup {Station})
  BY <1>1, <1>3, <1>5, BroadcastFacts DEF Rebroadcast
<1>7. /\ orders \subseteq orders' /\ orders' \subseteq Orders
      /\ \A o \in orders' : o \in orders \/
           /\ o.who \in persons
           /\ \E b \in {a} : o.from = b.time /\ o.target = b.target
  <2>1. CASE k.to = Station
    BY <2>1, <1>1, <1>3 DEF HandlePayload
  <2>2. CASE k.to # Station
    <3> DEFINE o == [who |-> k.to, from |-> a.time, until |-> Horizon, target |-> a.target]
    <3>1. orders' = orders \cup {o}
      BY <2>2, <1>1 DEF HandlePayload
    <3>2. o \in Orders
      BY <2>2, <1>3, ControllerAssumption DEF Orders
    <3>3. o.who \in persons /\ o.from = a.time /\ o.target = a.target
      BY <2>2, <1>4
    <3> HIDE DEF o
    <3> QED
      BY <3>1, <3>2, <3>3, <1>3
  <2> QED
    BY <2>1, <2>2
<1>8. {a} \in SUBSET Advice
  BY <1>3
<1> HIDE DEF a
<1>9. PacketStep({a})
  BY <1>2, <1>4, <1>6, <1>7 DEF PacketStep
<1> QED
  BY <1>8, <1>9, PacketInv

LEMMA LoseInv == Inv /\ Lose => Inv'
<1> SUFFICES ASSUME Inv, Lose PROVE Inv'
  OBVIOUS
<1>1. air' \subseteq air
  BY DEF Lose
<1>2. /\ UNCHANGED <<controllerVars, now, world, targetOf, history>>
      /\ orders' = orders /\ gate' = gate
  BY DEF Lose
<1>3. orders \subseteq Orders /\ air \subseteq Packets
  BY DEF Inv, TypeOK
<1>4. {} \in SUBSET Advice
  OBVIOUS
<1>5. PacketStep({})
  BY <1>1, <1>2, <1>3 DEF PacketStep
<1> QED
  BY <1>4, <1>5, PacketInv

LEMMA StutterInv == Inv /\ UNCHANGED vars => Inv'
<1> SUFFICES ASSUME Inv, UNCHANGED vars PROVE Inv'
  OBVIOUS
<1>1. /\ UNCHANGED <<controllerVars, now, world, targetOf, history>>
      /\ orders' = orders /\ gate' = gate /\ air' = air
  BY DEF vars
<1>2. orders \subseteq Orders /\ air \subseteq Packets
  BY DEF Inv, TypeOK
<1>3. {} \in SUBSET Advice
  OBVIOUS
<1>4. PacketStep({})
  BY <1>1, <1>2 DEF PacketStep
<1> QED
  BY <1>3, <1>4, PacketInv

-----------------------------------------------------------------------------
LEMMA NextInv == Inv /\ [Next]_vars => Inv'
<1> SUFFICES ASSUME Inv, [Next]_vars PROVE Inv'
  OBVIOUS
<1>1. ASSUME NEW departed \in SUBSET Persons, NEW arrived \in SUBSET Persons,
             Coupling(departed, arrived)
      PROVE  Inv'
  BY <1>1, QuietInv, CallInv
<1> QED
  BY <1>1, HandleControlInv, ReceiveInv, LoseInv, StutterInv DEF Next

LEMMA Invariance == Spec => []Inv
<1> QED
  BY InitInv, NextInv, PTL DEF Spec

(* No variable leaves its type.                                            *)
THEOREM TypeCorrect == Spec => []TypeOK
<1>1. Inv => TypeOK
  BY DEF Inv
<1> QED
  BY <1>1, Invariance, PTL

(* No two recommendations contradict each other, if the validity of an     *)
(* order and the step of the coupling fit the step of the controller.      *)
THEOREM NoContradiction == Spec => []OneRecommendation
<1>1. Inv => OneRecommendation
  <2> SUFFICES ASSUME Inv PROVE OneRecommendation
    OBVIOUS
  <2>1. persons \subseteq Persons
    BY DEF Inv, TypeOK
  <2> QED
    BY <2>1 DEF Inv, AreaOrder, Told, OneRecommendation
<1> QED
  BY <1>1, Invariance, PTL

(* Whatever is in force or under way has been logged.                      *)
THEOREM NothingMadeUp == Spec => []OnlyLoggedOrders
<1>1. Inv => OnlyLoggedOrders
  BY DEF Inv
<1> QED
  BY <1>1, Invariance, PTL

(* Time passes with the events of the coupling only, and so do the calls.  *)
LEMMA OtherSteps ==
  ASSUME HandleControl \/ Receive \/ Lose \/ UNCHANGED vars
  PROVE  now' = now /\ calls' = calls
  BY DEF HandleControl, Receive, Lose, vars, history

(* No call is late by a step of the coupling, none is left out, and the    *)
(* calls do not drift.                                                     *)
THEOREM CallsOnTime == Spec => ControllerOnTime
<1> DEFINE OnTime == now' # now =>
      /\ calls' = calls + 1 <=> Planned <= now' /\ (Planned <= EndTime \/ calls = 0)
      /\ calls' # calls => calls' = calls + 1 /\ now < Planned
<1>1. Inv /\ [Next]_vars => [OnTime]_vars
  <2> SUFFICES ASSUME Inv, [Next]_vars PROVE OnTime
    OBVIOUS
  <2>1. ASSUME NEW departed \in SUBSET Persons, NEW arrived \in SUBSET Persons,
               Coupling(departed, arrived)
        PROVE  OnTime
    <3>0. /\ calls \in Nat /\ now \in Nat /\ nextTime \in Nat /\ now' = now + Dt
          /\ now' <= Horizon /\ Plan
      BY <2>1, CouplingFacts DEF Inv, TypeOK, ControllerTypeOK
    <3>1. CASE Due(now + Dt)
      <4>1. /\ calls' = calls + 1 /\ nextTime = Planned /\ Planned <= now'
            /\ Planned <= EndTime \/ calls = 0
        BY <2>1, <3>1, CallInv
      <4>2. now < Planned
        BY <3>0, <4>1 DEF Plan
      <4> QED
        BY <4>1, <4>2
    <3>2. CASE ~Due(now + Dt)
      <4>1. calls' = calls
        BY <2>1, <3>2, QuietInv
      <4>2. now' < nextTime
        BY <3>0, <3>2, GuidanceAssumption DEF Due
      <4>3. CASE calls = 0
        <5>1. Planned = Start
          BY <4>3, ControllerAssumption DEF Planned
        <5> QED
          BY <5>1, <4>1, <4>2, <4>3, <3>0, ControllerAssumption DEF Plan
      <4>4. CASE calls # 0
        <5>1. nextTime = IF Planned <= EndTime THEN Planned ELSE Horizon + 1
          BY <4>4, <3>0 DEF Plan
        <5>2. calls * Step \in Nat
          BY <3>0, ControllerAssumption
        <5>3. Planned \in Nat
          BY <5>2, ControllerAssumption DEF Planned
        <5> QED
          BY <5>1, <5>3, <4>1, <4>2, <4>4, <3>0
      <4> QED
        BY <4>3, <4>4
    <3> QED
      BY <3>1, <3>2
  <2> QED
    BY <2>1, OtherSteps DEF Next
<1> QED
  BY <1>1, Invariance, PTL DEF Spec, ControllerOnTime

(* Each row of the log has the densities and the recommendation of its     *)
(* time.                                                                   *)
THEOREM RowsAreTrue == Spec => RowsTellTheTruth
<1> DEFINE True == calls' # calls /\ strategy \in Logging =>
      /\ row'.time = now'
      /\ row'.densities = densities'
      /\ GivenAt(now)' = {row'.choice} \ {None}
      /\ strategy = "ClosedLoop" => row'.choice \in Minimal(densities')
<1>1. Inv /\ [Next]_vars => [True]_vars
  <2> SUFFICES ASSUME Inv, [Next]_vars, calls' # calls, strategy \in Logging
               PROVE  True
    OBVIOUS
  <2>1. PICK departed \in SUBSET Persons, arrived \in SUBSET Persons :
          Coupling(departed, arrived)
    BY OtherSteps DEF Next
  <2>2. Due(now + Dt)
    BY <2>1, QuietInv
  <2>3. /\ row' = [time |-> now', densities |-> densities', choice |-> currentTarget']
        /\ GivenAt(now)' = {currentTarget'} \ {None}
        /\ strategy = "ClosedLoop" => currentTarget' \in Minimal(densities')
    BY <2>1, <2>2, CallInv
  <2> QED
    BY <2>3
<1> QED
  BY <1>1, Invariance, PTL DEF Spec, RowsTellTheTruth

(* A packet on its way has no more hops left than the station gave it.     *)
HopsLeft == \A k \in air : k.hops \in 0..HopCount

(* Every new packet uses up something that is gone: a message of the gate, *)
(* with all hops left, or a packet with one hop more and the same advice.  *)
HopsCounted == [][\A q \in air' \ air :
  \/ q.hops = HopCount /\ q.advice \in gate \ gate'
  \/ /\ q.hops > 0
     /\ \E k \in air \ air' : q.hops = k.hops - 1 /\ q.advice = k.advice]_vars

(* Only the two handlers of a packet put packets into the air.             *)
LEMMA NewPackets ==
  ASSUME [Next]_vars, ~HandleControl, ~Receive
  PROVE  air' \subseteq air
<1>1. \A departed, arrived \in SUBSET Persons : Coupling(departed, arrived) => air' \subseteq air
  BY DEF Coupling
<1>2. Lose => air' \subseteq air
  BY DEF Lose
<1>3. UNCHANGED vars => air' \subseteq air
  BY DEF vars
<1> QED
  BY <1>1, <1>2, <1>3 DEF Next

(* What the control application of the station sends has all hops left.    *)
LEMMA HandleControlHops ==
  ASSUME HandleControl
  PROVE  \A q \in air' \ air : q.hops = HopCount /\ q.advice \in gate \ gate'
<1>1. PICK a \in gate : /\ gate' = gate \ {a}
                        /\ air' = air \cup Broadcast(Station, HopCount, a)
  BY DEF HandleControl
<1>2. a \in gate \ gate'
  BY <1>1
<1> QED
  BY <1>1, <1>2 DEF Broadcast

(* A packet that is passed on is gone, and its copies have a hop less.     *)
LEMMA ReceiveHops ==
  ASSUME Inv, Receive
  PROVE  \A q \in air' \ air :
           /\ q.hops > 0
           /\ \E k \in air \ air' : q.hops = k.hops - 1 /\ q.advice = k.advice
<1>1. PICK k \in air : air' = (air \ {k}) \cup Rebroadcast(k)
  BY DEF Receive
<1>2. k.hops \in Int
  BY <1>1 DEF Inv, TypeOK, Packets
<1>3. \A q \in Rebroadcast(k) :
        q.hops = k.hops - 1 /\ q.hops > 0 /\ q.advice = k.advice
  BY DEF Rebroadcast, Broadcast
<1>4. k \in air \ air'
  BY <1>1, <1>2, <1>3
<1> QED
  BY <1>1, <1>3, <1>4

(* The hops left stay within those the station gave, whatever is lost.     *)
THEOREM HopsBounded == Spec => []HopsLeft
<1>1. Init => HopsLeft
  BY DEF Init, HopsLeft
<1>2. Inv /\ HopsLeft /\ [Next]_vars => HopsLeft'
  <2> SUFFICES ASSUME Inv, HopsLeft, [Next]_vars, NEW q \in air'
               PROVE  q.hops \in 0..HopCount
    BY GuidanceAssumption DEF HopsLeft
  <2>1. CASE q \in air
    BY <2>1 DEF HopsLeft
  <2>2. CASE q \notin air /\ HandleControl
    BY <2>2, HandleControlHops, GuidanceAssumption
  <2>3. CASE q \notin air /\ Receive
    <3>1. PICK k \in air : q.hops > 0 /\ q.hops = k.hops - 1
      BY <2>3, ReceiveHops
    <3>2. k.hops \in 0..HopCount
      BY <3>1 DEF HopsLeft
    <3> QED
      BY <3>1, <3>2, GuidanceAssumption
  <2> QED
    BY <2>1, <2>2, <2>3, NewPackets
<1> QED
  BY <1>1, <1>2, Invariance, PTL DEF Spec

(* Every step that sends packets uses up a message or a hop: the broadcast *)
(* of a message ends although nobody remembers what it has passed on.      *)
THEOREM HopsCountDown == Spec => HopsCounted
<1> DEFINE UsedUp == \A q \in air' \ air :
      \/ q.hops = HopCount /\ q.advice \in gate \ gate'
      \/ /\ q.hops > 0
         /\ \E k \in air \ air' : q.hops = k.hops - 1 /\ q.advice = k.advice
<1>1. Inv /\ [Next]_vars => [UsedUp]_vars
  <2> SUFFICES ASSUME Inv, [Next]_vars PROVE UsedUp
    OBVIOUS
  <2>1. CASE HandleControl
    BY <2>1, HandleControlHops
  <2>2. CASE Receive
    BY <2>2, ReceiveHops
  <2>3. CASE ~HandleControl /\ ~Receive
    BY <2>3, NewPackets
  <2> QED
    BY <2>1, <2>2, <2>3
<1> QED
  BY <1>1, Invariance, PTL DEF Spec, HopsCounted
=============================================================================
