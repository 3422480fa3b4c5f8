-------------------------------- MODULE Detour --------------------------------
(***************************************************************************)
(* The detour application: a fixed node announces an incident ("target T   *)
(* is closed, take this route"), every node that hears of it repeats it    *)
(* for a while, and a pedestrian that was going to T changes its targets.  *)
(* Pedestrians enter and leave at any time, packets are lost and delayed.  *)
(*                                                                         *)
(* Every node sends to the multicast group (destAddresses is not empty),   *)
(* one application has at most one incident, and no two have the same      *)
(* reason ("unique identifier").  A packet is its reason: the rest of an   *)
(* incident is copied from hop to hop, and packets of type INCIDENT and    *)
(* PROPAGATE are handled alike.                                            *)
(***************************************************************************)
EXTENDS Integers

CONSTANTS
  Nodes,            \* the nodes that run the application
  Reasons,          \* DetourAppPacket.incidentReason
  Targets,          \* the targets of the pedestrians
  Source,           \* the node that announces a reason
  IncidentTime,     \* UdpDetourApp.incidentTime of that node
  ClosedTarget,     \* UdpDetourApp.closedTarget
  AlternativeRoute, \* UdpDetourApp.alternativeRoute
  RepeatTime,       \* UdpDetourApp.repeatTime
  RepeatInterval,   \* UdpDetourApp.repeateInterval
  StartTimes,       \* the values UdpDetourApp.startTime is tried with
  Routes,           \* the target lists a pedestrian may enter with
  Reliable,         \* nodes that no packet is lost for
  MaxTime,          \* sim-time-limit
  Never             \* the time of a timer that is not scheduled

(* The parameters of a source, as initialize checks them.                  *)
ASSUME SenderAssumption ==
  /\ Source \in [Reasons -> Nodes]
  /\ \A r, q \in Reasons : Source[r] = Source[q] => r = q
  /\ IncidentTime \in [Reasons -> Nat \ {0}]
  /\ RepeatTime \in [Reasons -> Nat \ {0}]
  /\ RepeatInterval \in [Reasons -> Nat \ {0}]
  /\ ClosedTarget \in [Reasons -> Targets]
  /\ AlternativeRoute \in [Reasons -> SUBSET Targets]
  /\ Routes \subseteq SUBSET Targets

ASSUME TimeAssumption ==
  /\ StartTimes \subseteq Nat
  /\ MaxTime \in Nat
  /\ Never \notin Int

VARIABLES
  startTime,   \* UdpDetourApp.startTime, the same for all and never changed
  now,         \* simTime()
  phase,       \* fsm of a node that exists: "init" or "active" (WAIT_ACTIVE)
  startAt,     \* when selfMsg fires
  incidentAt,  \* when selfMsgIncident of the source of a reason fires
  known,       \* the nodes with a handle for the reason in their handlerMap
  rest,        \* PropagationHandle.restTime
  repeatAt,    \* when PropagationHandle.msg fires
  net,         \* packets under way: <<receiver, reason>>
  targets,     \* the target list of a person in Vadere
  heardAt,     \* history: when the handle was registered
  repeated,    \* history: how often the incident was propagated
  fault        \* the simulation has ended with an error

life == <<phase, startAt>>
handles == <<known, rest, repeatAt, heardAt>>
vars == <<startTime, now, life, incidentAt, handles, net, targets, repeated, fault>>

Sources == {Source[r] : r \in Reasons}
Pedestrians == Nodes \ Sources
Pairs == Nodes \X Reasons
Later(s, t) == IF s <= t THEN t ELSE s

-----------------------------------------------------------------------------
(* UdpDetourApp::handleStartOperation for the nodes of the network file.   *)
Init ==
  /\ startTime \in StartTimes
  /\ now = 0
  /\ phase = [n \in Nodes |-> IF n \in Sources THEN "init" ELSE "absent"]
  /\ startAt = [n \in Nodes |-> IF n \in Sources THEN startTime ELSE Never]
  /\ incidentAt = IncidentTime
  /\ known = [r \in Reasons |-> {}]
  /\ rest = [p \in Pairs |-> 0]
  /\ repeatAt = [p \in Pairs |-> Never]
  /\ net = {}
  /\ targets \in [Nodes -> Routes \cup {{}}]
  /\ \A n \in Sources : targets[n] = {}
  /\ heardAt = [p \in Pairs |-> 0]
  /\ repeated = [p \in Pairs |-> 0]
  /\ fault = FALSE

(* Time passes when no timer is due.                                       *)
Tick ==
  /\ ~fault
  /\ now < MaxTime
  /\ \A n \in Nodes : startAt[n] # now
  /\ \A r \in Reasons : incidentAt[r] # now
  /\ \A p \in Pairs : repeatAt[p] # now
  /\ now' = now + 1
  /\ UNCHANGED <<startTime, life, incidentAt, handles, net, targets, repeated, fault>>

(* A pedestrian is created by the node manager: handleStartOperation.      *)
Enter(n) ==
  /\ ~fault
  /\ n \in Pedestrians
  /\ phase[n] = "absent"
  /\ phase' = [phase EXCEPT ![n] = "init"]
  /\ startAt' = [startAt EXCEPT ![n] = Later(startTime, now)]
  /\ UNCHANGED <<startTime, now, incidentAt, handles, net, targets, repeated, fault>>

(* The module of a pedestrian is deleted, its timers and packets with it.  *)
Leave(n) ==
  /\ ~fault
  /\ n \in Pedestrians
  /\ phase[n] \in {"init", "active"}
  /\ phase' = [phase EXCEPT ![n] = "gone"]
  /\ startAt' = [startAt EXCEPT ![n] = Never]
  /\ repeatAt' = [p \in Pairs |-> IF p[1] = n THEN Never ELSE repeatAt[p]]
  /\ net' = {p \in net : p[1] # n}
  /\ UNCHANGED <<startTime, now, incidentAt, known, rest, heardAt, targets,
                 repeated, fault>>

(* A pedestrian reaches one of its targets.                                *)
Walk(n) ==
  /\ ~fault
  /\ phase[n] \in {"init", "active"}
  /\ \E t \in targets[n] : targets' = [targets EXCEPT ![n] = @ \ {t}]
  /\ UNCHANGED <<startTime, now, life, incidentAt, handles, net, repeated, fault>>

(* selfMsg of kind SETUP.  A second set up binds the socket again.         *)
SetUp(n) ==
  /\ ~fault
  /\ startAt[n] = now
  /\ startAt' = [startAt EXCEPT ![n] = Never]
  /\ phase' = [phase EXCEPT ![n] = "active"]
  /\ fault' = (phase[n] = "active")
  /\ UNCHANGED <<startTime, now, incidentAt, handles, net, targets, repeated>>

-----------------------------------------------------------------------------
(* The group address reaches whoever is set up.                            *)
Hearers(n) == {m \in Nodes \ {n} : phase[m] = "active"}

(* Fault: the fields of a packet swapped.                                  *)
SendSwapped(n, r) == net' = net \cup {<<r, m>> : m \in Hearers(n)}

(* sendPayload                                                             *)
SendPayload(n, r) == net' = net \cup {<<m, r>> : m \in Hearers(n)}

(* Fault: the first interval is not taken from the budget.                 *)
RegisterFullBudget(n, r) ==
  /\ known' = [known EXCEPT ![r] = @ \cup {n}]
  /\ rest' = [rest EXCEPT ![<<n, r>>] = RepeatTime[r]]
  /\ repeatAt' = [repeatAt EXCEPT ![<<n, r>>] = now + RepeatInterval[r]]
  /\ heardAt' = [heardAt EXCEPT ![<<n, r>>] = now]

(* Fault: the handle is not stored when no budget is left after the first  *)
(* interval.                                                               *)
RegisterIfBudget(n, r) ==
  /\ known' = IF RepeatTime[r] > RepeatInterval[r]
              THEN [known EXCEPT ![r] = @ \cup {n}] ELSE known
  /\ rest' = [rest EXCEPT ![<<n, r>>] = RepeatTime[r] - RepeatInterval[r]]
  /\ repeatAt' = [repeatAt EXCEPT ![<<n, r>>] = now + RepeatInterval[r]]
  /\ heardAt' = [heardAt EXCEPT ![<<n, r>>] = now]

(* registerPropagationTimer                                                *)
RegisterPropagationTimer(n, r) ==
  /\ known' = [known EXCEPT ![r] = @ \cup {n}]
  /\ rest' = [rest EXCEPT ![<<n, r>>] = RepeatTime[r] - RepeatInterval[r]]
  /\ repeatAt' = [repeatAt EXCEPT ![<<n, r>>] = now + RepeatInterval[r]]
  /\ heardAt' = [heardAt EXCEPT ![<<n, r>>] = now]

(* Fault: the order of the two timers of a source reversed.                *)
IncidentFirst(r) ==
  LET n == Source[r] IN
  /\ ~fault
  /\ incidentAt[r] = now
  /\ incidentAt' = [incidentAt EXCEPT ![r] = Never]
  /\ IF phase[n] = "init"
     THEN /\ phase' = [phase EXCEPT ![n] = "active"]
          /\ UNCHANGED <<handles, net>>
     ELSE /\ SendPayload(n, r)
          /\ RegisterPropagationTimer(n, r)
          /\ UNCHANGED phase
  /\ UNCHANGED <<startTime, now, startAt, targets, repeated, fault>>

(* selfMsgIncident: the application is set up if it is not yet, and the    *)
(* incident is announced otherwise (fsmIncidentTxExit).  selfMsg was       *)
(* scheduled before selfMsgIncident.                                       *)
Incident(r) ==
  LET n == Source[r] IN
  /\ ~fault
  /\ incidentAt[r] = now
  /\ startAt[n] # now
  /\ incidentAt' = [incidentAt EXCEPT ![r] = Never]
  /\ IF phase[n] = "init"
     THEN /\ phase' = [phase EXCEPT ![n] = "active"]
          /\ UNCHANGED <<handles, net>>
     ELSE /\ SendPayload(n, r)
          /\ RegisterPropagationTimer(n, r)
          /\ UNCHANGED phase
  /\ UNCHANGED <<startTime, now, startAt, targets, repeated, fault>>

(* Fault: the alternative is appended and the closed target stays.         *)
AppendAlternative(n, r) ==
  targets' = [targets EXCEPT ![n] =
    IF ClosedTarget[r] \in @ THEN @ \cup AlternativeRoute[r] ELSE @]

(* UdpDetourAppVadere::actOnIncident; a source runs UdpDetourApp, which    *)
(* does nothing, and has no targets.                                       *)
ActOnIncident(n, r) ==
  targets' = [targets EXCEPT ![n] =
    IF ClosedTarget[r] \in @ THEN AlternativeRoute[r] ELSE @]

(* Fault: a known incident is acted on again.                              *)
ActAlways(n, r) ==
  /\ ActOnIncident(n, r)
  /\ IF n \in known[r] THEN UNCHANGED handles ELSE RegisterPropagationTimer(n, r)

(* fsmIncidentRxExit: only news is acted on and repeated.                  *)
IncidentRx(n, r) ==
  IF n \in known[r] THEN UNCHANGED <<targets, handles>>
  ELSE ActOnIncident(n, r) /\ RegisterPropagationTimer(n, r)

(* socketDataArrived                                                       *)
Receive(n, r) ==
  /\ ~fault
  /\ <<n, r>> \in net
  /\ net' = net \ {<<n, r>>}
  /\ IncidentRx(n, r)
  /\ UNCHANGED <<startTime, now, life, incidentAt, repeated, fault>>

(* The packet is not received, for the radio channel or a collision.       *)
Lose(n, r) ==
  /\ ~fault
  /\ <<n, r>> \in net
  /\ n \notin Reliable
  /\ net' = net \ {<<n, r>>}
  /\ UNCHANGED <<startTime, now, life, incidentAt, handles, targets, repeated, fault>>

(* Fault: the budget is compared before it is reduced.                     *)
SpendLate(n, r) ==
  /\ rest' = [rest EXCEPT ![<<n, r>>] = @ - RepeatInterval[r]]
  /\ repeatAt' = [repeatAt EXCEPT ![<<n, r>>] =
       IF rest[<<n, r>>] > 0 THEN now + RepeatInterval[r] ELSE Never]

(* Fault: the timer is set again without end.                              *)
SpendNothing(n, r) ==
  /\ repeatAt' = [repeatAt EXCEPT ![<<n, r>>] = now + RepeatInterval[r]]
  /\ UNCHANGED rest

(* The budget of a handle after one more interval.                         *)
Spend(n, r) ==
  LET left == rest[<<n, r>>] - RepeatInterval[r] IN
  /\ rest' = [rest EXCEPT ![<<n, r>>] = left]
  /\ repeatAt' = [repeatAt EXCEPT ![<<n, r>>] =
       IF left > 0 THEN now + RepeatInterval[r] ELSE Never]

(* Fault: the timer is set again, but nothing is sent.                     *)
PropagateSilently(n, r) ==
  /\ ~fault
  /\ repeatAt[<<n, r>>] = now
  /\ Spend(n, r)
  /\ repeated' = [repeated EXCEPT ![<<n, r>>] = @ + 1]
  /\ UNCHANGED <<startTime, now, life, incidentAt, known, heardAt, net, targets, fault>>

(* fsmPropagateTxExit                                                      *)
Propagate(n, r) ==
  /\ ~fault
  /\ repeatAt[<<n, r>>] = now
  /\ SendPayload(n, r)
  /\ Spend(n, r)
  /\ repeated' = [repeated EXCEPT ![<<n, r>>] = @ + 1]
  /\ UNCHANGED <<startTime, now, life, incidentAt, known, heardAt, targets, fault>>

Next ==
  \/ Tick
  \/ \E n \in Nodes : Enter(n) \/ Leave(n) \/ Walk(n) \/ SetUp(n)
  \/ \E r \in Reasons : Incident(r)
  \/ \E n \in Nodes, r \in Reasons : Receive(n, r) \/ Lose(n, r) \/ Propagate(n, r)

Spec == Init /\ [][Next]_vars

(* The event loop never stops: the next timer fires, or time passes, and   *)
(* the packets under way are received one after the other, unless lost.    *)
EventLoop ==
  \/ Tick
  \/ \E n \in Nodes : SetUp(n)
  \/ \E r \in Reasons : Incident(r)
  \/ \E n \in Nodes, r \in Reasons : Propagate(n, r)

Fairness ==
  /\ WF_vars(EventLoop)
  /\ WF_vars(\E n \in Nodes, r \in Reasons : Receive(n, r))

FairSpec == Spec /\ Fairness

-----------------------------------------------------------------------------
TypeOK ==
  /\ startTime \in StartTimes
  /\ now \in Nat
  /\ phase \in [Nodes -> {"absent", "init", "active", "gone"}]
  /\ startAt \in [Nodes -> Nat \cup {Never}]
  /\ incidentAt \in [Reasons -> Nat \cup {Never}]
  /\ known \in [Reasons -> SUBSET Nodes]
  /\ rest \in [Pairs -> Int]
  /\ repeatAt \in [Pairs -> Nat \cup {Never}]
  /\ net \subseteq Pairs
  /\ targets \in [Nodes -> SUBSET Targets]
  /\ heardAt \in [Pairs -> Nat]
  /\ repeated \in [Pairs -> Nat]
  /\ fault \in BOOLEAN

(* An incident that is not before the start of its application is announced*)
(* when its time has come: the one message that sets the application up is *)
(* not the one that stands for the incident, and the second set up that    *)
(* ends the simulation comes with no such incident.                        *)
IncidentAnnounced ==
  (\A r \in Reasons : startTime <= IncidentTime[r]) =>
    /\ ~fault
    /\ \A r \in Reasons :
         incidentAt[r] = Never \/ now > IncidentTime[r] => Source[r] \in known[r]

(* The budget of repetitions: one is always made, and every further one    *)
(* starts before the repeat time is over (fsmPropagateTxExit).             *)
RepeatBudget == \A n \in Nodes, r \in Reasons :
  repeated[<<n, r>>] > 1 => repeated[<<n, r>>] * RepeatInterval[r] < RepeatTime[r]

(* A pedestrian that knows that a target is closed does not go there, if no*)
(* alternative leads there (UdpDetourAppVadere::actOnIncident).  A target  *)
(* that is itself an alternative is no exception in the code by chance: it *)
(* depends on which news comes last.                                       *)
NotAnAlternative(r) == \A q \in Reasons : ClosedTarget[r] \notin AlternativeRoute[q]
AvoidsClosedTarget == \A n \in Nodes, r \in Reasons :
  NotAnAlternative(r) /\ n \in known[r] => ClosedTarget[r] \notin targets[n]

(* An incident is repeated in steps of its interval from when it was heard,*)
(* and after the first time only within the repeat time.                   *)
RepeatedInTime == [][\A n \in Nodes, r \in Reasons :
  repeated[<<n, r>>]' # repeated[<<n, r>>] =>
    /\ n \in known[r]
    /\ IF repeated[<<n, r>>] = 0 THEN now = heardAt[<<n, r>>] + RepeatInterval[r]
       ELSE now < heardAt[<<n, r>>] + RepeatTime[r]]_vars

(* Whatever the network does, news spreads from its source, and a          *)
(* pedestrian changes its route for it once, when it learns of it: the     *)
(* handles implement the abstract rumor.                                   *)
R == INSTANCE Rumor
ImplementsRumor == R!Spec

(* The news dies out: no node repeats an incident for ever, whoever else   *)
(* repeats it to the node.                                                 *)
DiesOut == <>[](\A n \in Nodes, r \in Reasons :
  \/ repeatAt[<<n, r>>] = Never
  \/ heardAt[<<n, r>>] + Later(RepeatTime[r], RepeatInterval[r]) > MaxTime
  \/ fault)

(* A pedestrian that enters while a source still repeats an incident hears *)
(* of it, if it loses no packet and does not leave.                        *)
NewcomerHears == \A n \in Reliable, r \in Reasons :
  /\ phase[n] = "active"
  /\ \E m \in Sources \ {n} : repeatAt[<<m, r>>] # Never /\ repeatAt[<<m, r>>] <= MaxTime
  ~> n \in known[r] \/ phase[n] = "gone" \/ fault
=============================================================================
