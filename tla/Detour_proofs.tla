---------------------------- MODULE Detour_proofs ----------------------------
(***************************************************************************)
(* The safety properties of Detour for any nodes, incidents, times and     *)
(* network, and that it implements Rumor.  Inv ties a handle's budget to   *)
(* the time that is left (so that the repetitions are counted by the       *)
(* clock), and follows the news back to a source that has announced it.    *)
(***************************************************************************)
EXTENDS Detour, TLAPS

(* No timer is missed, and the one of an incident is never moved.          *)
TimersAhead ==
  /\ \A n \in Nodes : startAt[n] # Never => now <= startAt[n]
  /\ \A r \in Reasons :
       incidentAt[r] # Never => incidentAt[r] = IncidentTime[r] /\ now <= incidentAt[r]
  /\ \A n \in Nodes, r \in Reasons : repeatAt[<<n, r>>] # Never => now <= repeatAt[<<n, r>>]

OnTime == \A r \in Reasons : startTime <= IncidentTime[r]

(* The life of an application that is set up by its own timer.             *)
SetUpOnce ==
  /\ \A n \in Sources : startAt[n] \in {Never, startTime}
  /\ OnTime => /\ ~fault
               /\ \A n \in Nodes : phase[n] = "init" <=> startAt[n] # Never

Announced == OnTime =>
  \A r \in Reasons : incidentAt[r] = Never => Source[r] \in known[r]

(* News has a source that has announced it.                                *)
HasSource ==
  /\ \A r \in Reasons : incidentAt[r] # Never => known[r] = {}
  /\ \A n \in Nodes, r \in Reasons : <<n, r>> \in net => known[r] # {}

(* The handle of an incident on the clock.                                 *)
Budget == \A n \in Nodes, r \in Reasons :
  /\ n \notin known[r] => repeated[<<n, r>>] = 0
  /\ repeatAt[<<n, r>>] # Never =>
       /\ n \in known[r]
       /\ repeatAt[<<n, r>>] = heardAt[<<n, r>>] + (repeated[<<n, r>>] + 1) * RepeatInterval[r]
       /\ rest[<<n, r>>] = RepeatTime[r] - (repeatAt[<<n, r>>] - heardAt[<<n, r>>])
       /\ repeated[<<n, r>>] > 0 => rest[<<n, r>>] > 0

SourceStands == \A n \in Sources : targets[n] = {}

Inv ==
  /\ TypeOK
  /\ TimersAhead
  /\ SetUpOnce
  /\ Announced
  /\ HasSource
  /\ Budget
  /\ RepeatBudget
  /\ SourceStands
  /\ AvoidsClosedTarget

-----------------------------------------------------------------------------
LEMMA TypeOKInit == Init => TypeOK
<1> SUFFICES ASSUME Init PROVE TypeOK
  OBVIOUS
<1>1. targets \in [Nodes -> SUBSET Targets]
  <2>1. Routes \cup {{}} \subseteq SUBSET Targets
    BY SenderAssumption
  <2> QED
    BY <2>1 DEF Init
<1>2. incidentAt \in [Reasons -> Nat \cup {Never}]
  BY SenderAssumption DEF Init
<1>3. /\ phase \in [Nodes -> {"absent", "init", "active", "gone"}]
      /\ startAt \in [Nodes -> Nat \cup {Never}]
  BY TimeAssumption DEF Init
<1>4. /\ startTime \in StartTimes /\ now \in Nat
      /\ known \in [Reasons -> SUBSET Nodes]
      /\ rest \in [Pairs -> Int]
      /\ repeatAt \in [Pairs -> Nat \cup {Never}]
      /\ net \subseteq Pairs
      /\ heardAt \in [Pairs -> Nat]
      /\ repeated \in [Pairs -> Nat]
  BY DEF Init
<1>5. fault \in BOOLEAN
  BY Zenon DEF Init
<1> QED
  BY <1>1, <1>2, <1>3, <1>4, <1>5 DEF TypeOK

(* Registering keeps the types.                                            *)
LEMMA RegisterTyped ==
  ASSUME TypeOK, NEW n \in Nodes, NEW r \in Reasons, RegisterPropagationTimer(n, r)
  PROVE  /\ known' \in [Reasons -> SUBSET Nodes]
         /\ rest' \in [Pairs -> Int]
         /\ repeatAt' \in [Pairs -> Nat \cup {Never}]
         /\ heardAt' \in [Pairs -> Nat]
<1>1. RepeatTime[r] \in Nat /\ RepeatInterval[r] \in Nat
  BY SenderAssumption
<1>2. known' \in [Reasons -> SUBSET Nodes]
  BY DEF TypeOK, RegisterPropagationTimer
<1>3. /\ rest' \in [Pairs -> Int]
      /\ repeatAt' \in [Pairs -> Nat \cup {Never}]
      /\ heardAt' \in [Pairs -> Nat]
  BY <1>1 DEF TypeOK, RegisterPropagationTimer, Pairs
<1> QED
  BY <1>2, <1>3

LEMMA SpendTyped ==
  ASSUME TypeOK, NEW n \in Nodes, NEW r \in Reasons, Spend(n, r)
  PROVE  /\ rest' \in [Pairs -> Int]
         /\ repeatAt' \in [Pairs -> Nat \cup {Never}]
<1>1. RepeatInterval[r] \in Nat
  BY SenderAssumption
<1>2. <<n, r>> \in Pairs
  BY DEF Pairs
<1>3. rest[<<n, r>>] \in Int
  BY <1>2 DEF TypeOK
<1>4. rest' \in [Pairs -> Int]
  BY <1>1, <1>2, <1>3 DEF TypeOK, Spend
<1>5. repeatAt' \in [Pairs -> Nat \cup {Never}]
  BY <1>1, <1>2 DEF TypeOK, Spend
<1> QED
  BY <1>4, <1>5

LEMMA SendTyped ==
  ASSUME TypeOK, NEW n \in Nodes, NEW r \in Reasons, SendPayload(n, r)
  PROVE  net' \subseteq Pairs
BY DEF TypeOK, SendPayload, Hearers, Pairs

LEMMA ActTyped ==
  ASSUME TypeOK, NEW n \in Nodes, NEW r \in Reasons, ActOnIncident(n, r)
  PROVE  targets' \in [Nodes -> SUBSET Targets]
<1>1. AlternativeRoute[r] \in SUBSET Targets
  BY SenderAssumption
<1> QED
  BY <1>1 DEF TypeOK, ActOnIncident

LEMMA TypeOKStep == TypeOK /\ [Next]_vars => TypeOK'
<1> SUFFICES ASSUME TypeOK, [Next]_vars PROVE TypeOK'
  OBVIOUS
<1>1. CASE Tick
  BY <1>1 DEF TypeOK, Tick, life, handles
<1>2. ASSUME NEW n \in Nodes, Enter(n) PROVE TypeOK'
  <2>1. Later(startTime, now) \in Nat
    BY TimeAssumption DEF TypeOK, Later
  <2> QED
    BY <1>2, <2>1 DEF TypeOK, Enter, handles
<1>3. ASSUME NEW n \in Nodes, Leave(n) PROVE TypeOK'
  BY <1>3 DEF TypeOK, Leave, Pairs
<1>4. ASSUME NEW n \in Nodes, Walk(n) PROVE TypeOK'
  BY <1>4 DEF TypeOK, Walk, life, handles
<1>5. ASSUME NEW n \in Nodes, SetUp(n) PROVE TypeOK'
  BY <1>5 DEF TypeOK, SetUp, handles
<1>6. ASSUME NEW r \in Reasons, Incident(r) PROVE TypeOK'
  <2>1. Source[r] \in Nodes
    BY SenderAssumption
  <2>2. /\ incidentAt' \in [Reasons -> Nat \cup {Never}]
        /\ phase' \in [Nodes -> {"absent", "init", "active", "gone"}]
    BY <1>6 DEF TypeOK, Incident
  <2>3. CASE phase[Source[r]] = "init"
    BY <1>6, <2>2, <2>3 DEF TypeOK, Incident, handles
  <2>4. CASE phase[Source[r]] # "init"
    <3>1. SendPayload(Source[r], r) /\ RegisterPropagationTimer(Source[r], r)
      BY <1>6, <2>4 DEF Incident
    <3>2. /\ net' \subseteq Pairs
          /\ known' \in [Reasons -> SUBSET Nodes]
          /\ rest' \in [Pairs -> Int]
          /\ repeatAt' \in [Pairs -> Nat \cup {Never}]
          /\ heardAt' \in [Pairs -> Nat]
      BY <2>1, <3>1, RegisterTyped, SendTyped
    <3> QED
      BY <1>6, <2>2, <3>2 DEF TypeOK, Incident
  <2> QED
    BY <2>3, <2>4
<1>7. ASSUME NEW n \in Nodes, NEW r \in Reasons, Receive(n, r) PROVE TypeOK'
  <2>1. CASE n \in known[r]
    BY <1>7, <2>1 DEF TypeOK, Receive, IncidentRx, life, handles
  <2>2. CASE n \notin known[r]
    <3>1. ActOnIncident(n, r) /\ RegisterPropagationTimer(n, r)
      BY <1>7, <2>2 DEF Receive, IncidentRx
    <3>2. /\ targets' \in [Nodes -> SUBSET Targets]
          /\ known' \in [Reasons -> SUBSET Nodes]
          /\ rest' \in [Pairs -> Int]
          /\ repeatAt' \in [Pairs -> Nat \cup {Never}]
          /\ heardAt' \in [Pairs -> Nat]
      BY <3>1, RegisterTyped, ActTyped
    <3> QED
      BY <1>7, <3>2 DEF TypeOK, Receive, life
  <2> QED
    BY <2>1, <2>2
<1>8. ASSUME NEW n \in Nodes, NEW r \in Reasons, Lose(n, r) PROVE TypeOK'
  BY <1>8 DEF TypeOK, Lose, life, handles
<1>9. ASSUME NEW n \in Nodes, NEW r \in Reasons, Propagate(n, r) PROVE TypeOK'
  <2>1. /\ net' \subseteq Pairs
        /\ rest' \in [Pairs -> Int]
        /\ repeatAt' \in [Pairs -> Nat \cup {Never}]
    BY <1>9, SendTyped, SpendTyped DEF Propagate
  <2>2. repeated' \in [Pairs -> Nat]
    <3>1. <<n, r>> \in Pairs /\ repeated \in [Pairs -> Nat]
      BY DEF TypeOK, Pairs
    <3>2. repeated' = [repeated EXCEPT ![<<n, r>>] = @ + 1]
      BY <1>9 DEF Propagate
    <3>3. repeated[<<n, r>>] + 1 \in Nat
      BY <3>1
    <3> QED
      BY <3>1, <3>2, <3>3
  <2> QED
    BY <1>9, <2>1, <2>2 DEF TypeOK, Propagate, life
<1>10. CASE UNCHANGED vars
  BY <1>10 DEF TypeOK, vars, life, handles
<1> QED
  BY <1>1, <1>2, <1>3, <1>4, <1>5, <1>6, <1>7, <1>8, <1>9, <1>10 DEF Next

(* Every variable keeps its type.                                          *)
THEOREM TypeCorrect == Spec => []TypeOK
<1> QED
  BY TypeOKInit, TypeOKStep, PTL DEF Spec

-----------------------------------------------------------------------------
LEMMA InvInit == Init => Inv
<1> SUFFICES ASSUME Init PROVE Inv
  OBVIOUS
<1>1. TypeOK
  BY TypeOKInit
<1>2. \A r \in Reasons : Source[r] \in Nodes /\ Source[r] \in Sources /\ IncidentTime[r] \in Nat
  BY SenderAssumption DEF Sources
<1>3. startTime \in Nat /\ Never \notin Int
  BY <1>1, TimeAssumption DEF TypeOK
<1>4. \A n \in Nodes, r \in Reasons : <<n, r>> \in Pairs
  BY DEF Pairs
<1>5. TimersAhead
  BY <1>2, <1>3, <1>4 DEF Init, TimersAhead
<1>6. SetUpOnce
  <2>1. ASSUME NEW n \in Nodes PROVE phase[n] = "init" <=> startAt[n] # Never
    <3>1. startTime # Never
      BY <1>3
    <3>2. CASE n \in Sources
      <4>1. phase[n] = "init" /\ startAt[n] = startTime
        BY <3>2 DEF Init
      <4> QED
        BY <3>1, <4>1
    <3>3. CASE n \notin Sources
      <4>1. phase[n] = "absent" /\ startAt[n] = Never
        BY <3>3 DEF Init
      <4> QED
        BY <4>1
    <3> QED
      BY <3>2, <3>3
  <2>2. \A n \in Sources : startAt[n] = startTime
    BY <1>2 DEF Init, Sources
  <2>3. ~fault
    BY Zenon DEF Init
  <2> QED
    BY <2>1, <2>2, <2>3 DEF SetUpOnce
<1>7. Announced /\ HasSource
  BY <1>2, <1>3 DEF Init, Announced, HasSource
<1>8. Budget /\ RepeatBudget
  BY <1>4 DEF Init, Budget, RepeatBudget
<1>9. SourceStands /\ AvoidsClosedTarget
  BY DEF Init, SourceStands, AvoidsClosedTarget
<1> QED
  BY <1>1, <1>5, <1>6, <1>7, <1>8, <1>9 DEF Inv

(* A node registers an incident at most once.                              *)
LEMMA HandleSteps ==
  ASSUME Inv, [Next]_vars
  PROVE  \/ UNCHANGED <<handles, repeated>>
         \/ \E n \in Nodes : Leave(n)
         \/ \E n \in Nodes, r \in Reasons :
              n \notin known[r] /\ RegisterPropagationTimer(n, r) /\ UNCHANGED repeated
         \/ \E n \in Nodes, r \in Reasons : Propagate(n, r)
<1>1. CASE \/ Tick \/ UNCHANGED vars
           \/ \E n \in Nodes : Enter(n) \/ Walk(n) \/ SetUp(n)
           \/ \E n \in Nodes, r \in Reasons : Lose(n, r)
  BY <1>1 DEF Tick, vars, Enter, Walk, SetUp, Lose
<1>2. ASSUME NEW r \in Reasons, Incident(r)
      PROVE  \/ UNCHANGED <<handles, repeated>>
             \/ \E n \in Nodes :
                  n \notin known[r] /\ RegisterPropagationTimer(n, r) /\ UNCHANGED repeated
  <2>1. CASE phase[Source[r]] = "init"
    BY <1>2, <2>1 DEF Incident
  <2>2. CASE phase[Source[r]] # "init"
    <3>1. Source[r] \in Nodes
      BY SenderAssumption
    <3>2. incidentAt[r] # Never
      BY <1>2, TimeAssumption DEF Incident, Inv, TypeOK
    <3>3. Source[r] \notin known[r]
      BY <3>2 DEF Inv, HasSource
    <3> QED
      BY <1>2, <2>2, <3>1, <3>3 DEF Incident
  <2> QED
    BY <2>1, <2>2
<1>3. ASSUME NEW n \in Nodes, NEW r \in Reasons, Receive(n, r)
      PROVE  \/ UNCHANGED <<handles, repeated>>
             \/ n \notin known[r] /\ RegisterPropagationTimer(n, r) /\ UNCHANGED repeated
  BY <1>3 DEF Receive, IncidentRx
<1> QED
  BY <1>1, <1>2, <1>3 DEF Next

(* What registering a handle changes.                                      *)
LEMMA RegisterEffect ==
  ASSUME TypeOK, NEW n \in Nodes, NEW r \in Reasons, RegisterPropagationTimer(n, r),
         NEW m \in Nodes, NEW q \in Reasons
  PROVE  /\ known'[q] = IF q = r THEN known[q] \cup {n} ELSE known[q]
         /\ rest'[<<m, q>>] =
              IF m = n /\ q = r THEN RepeatTime[r] - RepeatInterval[r] ELSE rest[<<m, q>>]
         /\ repeatAt'[<<m, q>>] =
              IF m = n /\ q = r THEN now + RepeatInterval[r] ELSE repeatAt[<<m, q>>]
         /\ heardAt'[<<m, q>>] = IF m = n /\ q = r THEN now ELSE heardAt[<<m, q>>]
<1>1. <<m, q>> \in Pairs /\ <<n, r>> \in Pairs
  BY DEF Pairs
<1>2. <<m, q>> = <<n, r>> <=> m = n /\ q = r
  OBVIOUS
<1> QED
  BY <1>1, <1>2 DEF TypeOK, RegisterPropagationTimer

(* What one repetition changes.                                            *)
LEMMA PropagateEffect ==
  ASSUME TypeOK, NEW n \in Nodes, NEW r \in Reasons, Propagate(n, r),
         NEW m \in Nodes, NEW q \in Reasons
  PROVE  /\ repeated'[<<m, q>>] =
              IF m = n /\ q = r THEN repeated[<<m, q>>] + 1 ELSE repeated[<<m, q>>]
         /\ rest'[<<m, q>>] =
              IF m = n /\ q = r THEN rest[<<m, q>>] - RepeatInterval[r] ELSE rest[<<m, q>>]
         /\ repeatAt'[<<m, q>>] =
              IF m = n /\ q = r
              THEN IF rest[<<m, q>>] - RepeatInterval[r] > 0
                   THEN now + RepeatInterval[r] ELSE Never
              ELSE repeatAt[<<m, q>>]
<1>1. <<m, q>> \in Pairs /\ <<n, r>> \in Pairs
  BY DEF Pairs
<1>2. <<m, q>> = <<n, r>> <=> m = n /\ q = r
  OBVIOUS
<1>3. repeated'[<<m, q>>] =
        IF m = n /\ q = r THEN repeated[<<m, q>>] + 1 ELSE repeated[<<m, q>>]
  BY <1>1, <1>2 DEF TypeOK, Propagate
<1> QED
  BY <1>1, <1>2, <1>3 DEF TypeOK, Propagate, Spend

(* What a node that leaves changes.                                        *)
LEMMA LeaveEffect ==
  ASSUME TypeOK, NEW n \in Nodes, Leave(n), NEW m \in Nodes, NEW q \in Reasons
  PROVE  /\ repeatAt'[<<m, q>>] = IF m = n THEN Never ELSE repeatAt[<<m, q>>]
         /\ UNCHANGED <<known, rest, heardAt, repeated, now>>
<1>1. <<m, q>> \in Pairs /\ <<m, q>>[1] = m
  BY DEF Pairs
<1> QED
  BY <1>1 DEF Leave

(* One more interval, by the rule that it is added once.                   *)
LEMMA OneMoreInterval ==
  ASSUME NEW k \in Nat, NEW i \in Nat
  PROVE  /\ (k + 1) * i = k * i + i
         /\ ((k + 1) + 1) * i = (k + 1) * i + i
         /\ (0 + 1) * i = i
         /\ (k + 1) * i \in Nat
  OBVIOUS

LEMMA BudgetStep == Inv /\ [Next]_vars => Budget'
<1> SUFFICES ASSUME Inv, [Next]_vars, NEW m \in Nodes, NEW q \in Reasons
    PROVE  /\ m \notin known'[q] => repeated'[<<m, q>>] = 0
           /\ repeatAt'[<<m, q>>] # Never =>
                /\ m \in known'[q]
                /\ repeatAt'[<<m, q>>] =
                     heardAt'[<<m, q>>] + (repeated'[<<m, q>>] + 1) * RepeatInterval[q]
                /\ rest'[<<m, q>>] =
                     RepeatTime[q] - (repeatAt'[<<m, q>>] - heardAt'[<<m, q>>])
                /\ repeated'[<<m, q>>] > 0 => rest'[<<m, q>>] > 0
  BY DEF Budget
<1>t. TypeOK /\ Budget
  BY DEF Inv
<1>b. /\ m \notin known[q] => repeated[<<m, q>>] = 0
      /\ repeatAt[<<m, q>>] # Never =>
           /\ m \in known[q]
           /\ repeatAt[<<m, q>>] =
                heardAt[<<m, q>>] + (repeated[<<m, q>>] + 1) * RepeatInterval[q]
           /\ rest[<<m, q>>] = RepeatTime[q] - (repeatAt[<<m, q>>] - heardAt[<<m, q>>])
           /\ repeated[<<m, q>>] > 0 => rest[<<m, q>>] > 0
  BY <1>t DEF Budget
<1>n. /\ <<m, q>> \in Pairs
      /\ now \in Nat /\ repeated[<<m, q>>] \in Nat /\ heardAt[<<m, q>>] \in Nat
      /\ rest[<<m, q>>] \in Int
      /\ RepeatInterval[q] \in Nat /\ RepeatTime[q] \in Nat
      /\ Never \notin Int
  BY <1>t, SenderAssumption, TimeAssumption DEF TypeOK, Pairs
<1>1. CASE UNCHANGED <<handles, repeated>>
  BY <1>1, <1>b DEF handles
<1>2. ASSUME NEW n \in Nodes, Leave(n)
      PROVE  /\ repeatAt'[<<m, q>>] # Never => repeatAt'[<<m, q>>] = repeatAt[<<m, q>>]
             /\ UNCHANGED <<known, rest, heardAt, repeated>>
  BY <1>2, <1>t, LeaveEffect
<1>3. ASSUME NEW n \in Nodes, NEW r \in Reasons, n \notin known[r],
             RegisterPropagationTimer(n, r), UNCHANGED repeated, m = n, q = r
      PROVE  /\ m \in known'[q]
             /\ repeated'[<<m, q>>] = 0
             /\ repeatAt'[<<m, q>>] =
                  heardAt'[<<m, q>>] + (repeated'[<<m, q>>] + 1) * RepeatInterval[q]
             /\ rest'[<<m, q>>] = RepeatTime[q] - (repeatAt'[<<m, q>>] - heardAt'[<<m, q>>])
  <2>1. /\ known'[q] = known[q] \cup {n}
        /\ rest'[<<m, q>>] = RepeatTime[q] - RepeatInterval[q]
        /\ repeatAt'[<<m, q>>] = now + RepeatInterval[q]
        /\ heardAt'[<<m, q>>] = now
    <3>1. RegisterPropagationTimer(m, q) /\ m = n /\ q = r
      BY <1>3
    <3> QED
      BY <3>1, <1>n, <1>t DEF TypeOK, RegisterPropagationTimer
  <2>2. repeated'[<<m, q>>] = 0
    BY <1>3, <1>b
  <2>3. (0 + 1) * RepeatInterval[q] = RepeatInterval[q]
    <3>1. RepeatInterval[q] \in Nat
      BY <1>n
    <3>2. 0 \in Nat
      OBVIOUS
    <3> QED
      BY ONLY <3>1, <3>2, OneMoreInterval
  <2>4. m \in known'[q]
    BY <2>1, <1>3
  <2>5. repeatAt'[<<m, q>>] =
          heardAt'[<<m, q>>] + (repeated'[<<m, q>>] + 1) * RepeatInterval[q]
    BY <2>1, <2>2, <2>3
  <2>6. rest'[<<m, q>>] = RepeatTime[q] - (repeatAt'[<<m, q>>] - heardAt'[<<m, q>>])
    BY <2>1, <1>n
  <2> QED
    BY <2>2, <2>4, <2>5, <2>6
<1>4. ASSUME NEW n \in Nodes, NEW r \in Reasons, n \notin known[r],
             RegisterPropagationTimer(n, r), UNCHANGED repeated, ~(m = n /\ q = r)
      PROVE  /\ known[q] \subseteq known'[q]
             /\ m \in known'[q] <=> m \in known[q]
             /\ rest'[<<m, q>>] = rest[<<m, q>>]
             /\ repeatAt'[<<m, q>>] = repeatAt[<<m, q>>]
             /\ heardAt'[<<m, q>>] = heardAt[<<m, q>>]
             /\ repeated' = repeated
  <2>1. /\ known'[q] = IF q = r THEN known[q] \cup {n} ELSE known[q]
        /\ rest'[<<m, q>>] = rest[<<m, q>>]
        /\ repeatAt'[<<m, q>>] = repeatAt[<<m, q>>]
        /\ heardAt'[<<m, q>>] = heardAt[<<m, q>>]
    BY <1>4, <1>t, RegisterEffect
  <2>2. known[q] \subseteq known'[q] /\ (m \in known'[q] <=> m \in known[q])
    BY <2>1, <1>4
  <2> QED
    BY <2>1, <2>2, <1>4
<1>5. ASSUME NEW n \in Nodes, NEW r \in Reasons, Propagate(n, r), m = n, q = r
      PROVE  /\ m \in known'[q]
             /\ repeatAt'[<<m, q>>] # Never =>
                  /\ repeatAt'[<<m, q>>] =
                       heardAt'[<<m, q>>] + (repeated'[<<m, q>>] + 1) * RepeatInterval[q]
                  /\ rest'[<<m, q>>] =
                       RepeatTime[q] - (repeatAt'[<<m, q>>] - heardAt'[<<m, q>>])
                  /\ rest'[<<m, q>>] > 0
  <2> DEFINE left == rest[<<m, q>>] - RepeatInterval[q]
             k == repeated[<<m, q>>]
             h == heardAt[<<m, q>>]
             i == RepeatInterval[q]
  <2>1. /\ repeated'[<<m, q>>] = k + 1
        /\ rest'[<<m, q>>] = left
        /\ repeatAt'[<<m, q>>] = IF left > 0 THEN now + i ELSE Never
    BY <1>5, <1>t, PropagateEffect
  <2>2. UNCHANGED <<known, heardAt>> /\ repeatAt[<<m, q>>] = now
    BY <1>5 DEF Propagate
  <2>3. repeatAt[<<m, q>>] # Never
    BY <2>2, <1>n
  <2>4. /\ m \in known[q]
        /\ now = h + (k + 1) * i
        /\ rest[<<m, q>>] = RepeatTime[q] - (now - h)
    BY <2>2, <2>3, <1>b
  <2>5. ((k + 1) + 1) * i = (k + 1) * i + i /\ (k + 1) * i \in Nat
    BY <1>n, OneMoreInterval
  <2>6. heardAt'[<<m, q>>] = h /\ left \in Int /\ h \in Nat
    BY <2>2, <1>n
  <2>7. repeatAt'[<<m, q>>] # Never => left > 0 /\ repeatAt'[<<m, q>>] = now + i
    BY <2>1
  <2>8. now + i = h + ((k + 1) + 1) * i
    <3> HIDE DEF k, h, i, left
    <3>1. ASSUME NEW x \in Nat, NEW y \in Nat, x = y + i, now = h + y, i \in Nat, h \in Nat, now \in Nat
          PROVE  now + i = h + x
      BY <3>1
    <3>2. i \in Nat
      BY <1>n DEF i
    <3>3. (k + 1) * i + i \in Nat
      BY <2>5, <3>2
    <3> QED
      BY <3>1, <3>2, <3>3, <2>4, <2>5, <2>6, <1>n
  <2>9. left = RepeatTime[q] - ((now + i) - h)
    <3>1. i \in Int /\ h \in Int
      BY <1>n
    <3> QED
      BY <2>4, <3>1, <1>n
  <2> HIDE DEF k, h, i, left
  <2> QED
    BY <2>1, <2>2, <2>4, <2>6, <2>7, <2>8, <2>9 DEF i
<1>6. ASSUME NEW n \in Nodes, NEW r \in Reasons, Propagate(n, r), ~(m = n /\ q = r)
      PROVE  /\ known' = known /\ heardAt' = heardAt
             /\ rest'[<<m, q>>] = rest[<<m, q>>]
             /\ repeatAt'[<<m, q>>] = repeatAt[<<m, q>>]
             /\ repeated'[<<m, q>>] = repeated[<<m, q>>]
  <2>1. known' = known /\ heardAt' = heardAt
    BY <1>6 DEF Propagate
  <2>2. /\ rest'[<<m, q>>] = rest[<<m, q>>]
        /\ repeatAt'[<<m, q>>] = repeatAt[<<m, q>>]
        /\ repeated'[<<m, q>>] = repeated[<<m, q>>]
    BY <1>6, <1>t, PropagateEffect
  <2> QED
    BY <2>1, <2>2
<1>7. CASE \E n \in Nodes : Leave(n)
  BY <1>7, <1>2, <1>b
<1>8. CASE \E n \in Nodes, r \in Reasons :
             n \notin known[r] /\ RegisterPropagationTimer(n, r) /\ UNCHANGED repeated
  <2>1. PICK n \in Nodes, r \in Reasons :
             n \notin known[r] /\ RegisterPropagationTimer(n, r) /\ UNCHANGED repeated
    BY <1>8
  <2>2. CASE m = n /\ q = r
    BY <2>1, <2>2, <1>3
  <2>3. CASE ~(m = n /\ q = r)
    BY <2>1, <2>3, <1>4, <1>b
  <2> QED
    BY <2>2, <2>3
<1>9. CASE \E n \in Nodes, r \in Reasons : Propagate(n, r)
  <2>1. PICK n \in Nodes, r \in Reasons : Propagate(n, r)
    BY <1>9
  <2>2. CASE m = n /\ q = r
    BY <2>1, <2>2, <1>5
  <2>3. CASE ~(m = n /\ q = r)
    BY <2>1, <2>3, <1>6, <1>b
  <2> QED
    BY <2>2, <2>3
<1> QED
  BY <1>1, <1>7, <1>8, <1>9, HandleSteps

-----------------------------------------------------------------------------
(* Which steps move the clock and the timers of the life cycle.            *)
LEMMA TickMeetsNoTimer ==
  ASSUME Inv, Tick
  PROVE  TimersAhead'
<1>1. now' = now + 1 /\ UNCHANGED <<startAt, incidentAt, repeatAt>>
  BY DEF Tick, life, handles
<1>2. TimersAhead /\ TypeOK
  BY DEF Inv
<1>3. now \in Nat
  BY <1>2 DEF TypeOK
<1>4. ASSUME NEW n \in Nodes, startAt[n] # Never PROVE now + 1 <= startAt[n]
  <2>1. startAt[n] \in Nat /\ startAt[n] # now
    BY <1>2, <1>4 DEF TypeOK, Tick
  <2> QED
    BY <1>2, <1>3, <1>4, <2>1 DEF TimersAhead
<1>5. ASSUME NEW r \in Reasons, incidentAt[r] # Never
      PROVE  incidentAt[r] = IncidentTime[r] /\ now + 1 <= incidentAt[r]
  <2>1. incidentAt[r] \in Nat /\ incidentAt[r] # now
    BY <1>2, <1>5 DEF TypeOK, Tick
  <2> QED
    BY <1>2, <1>3, <1>5, <2>1 DEF TimersAhead
<1>6. ASSUME NEW n \in Nodes, NEW r \in Reasons, repeatAt[<<n, r>>] # Never
      PROVE  now + 1 <= repeatAt[<<n, r>>]
  <2>1. <<n, r>> \in Pairs
    BY DEF Pairs
  <2>2. repeatAt[<<n, r>>] \in Nat /\ repeatAt[<<n, r>>] # now
    BY <1>2, <1>6, <2>1 DEF TypeOK, Tick
  <2> QED
    BY <1>2, <1>3, <1>6, <2>2 DEF TimersAhead
<1> QED
  BY <1>1, <1>4, <1>5, <1>6 DEF TimersAhead

LEMMA RepeatAhead ==
  ASSUME Inv, [Next]_vars, now' = now, NEW m \in Nodes, NEW q \in Reasons,
         repeatAt'[<<m, q>>] # Never
  PROVE  now <= repeatAt'[<<m, q>>]
<1>1. TypeOK /\ TimersAhead
  BY DEF Inv
<1>2. now \in Nat /\ RepeatInterval[q] \in Nat
  BY <1>1, SenderAssumption DEF TypeOK
<1>3. now <= now + RepeatInterval[q]
  BY <1>2
<1>4. repeatAt[<<m, q>>] # Never => now <= repeatAt[<<m, q>>]
  BY <1>1 DEF TimersAhead
<1>5. repeatAt'[<<m, q>>] = repeatAt[<<m, q>>] \/ repeatAt'[<<m, q>>] = now + RepeatInterval[q]
  <2>1. CASE UNCHANGED <<handles, repeated>>
    BY <2>1 DEF handles
  <2>2. ASSUME NEW n \in Nodes, Leave(n)
        PROVE  repeatAt'[<<m, q>>] = repeatAt[<<m, q>>]
    <3>1. repeatAt'[<<m, q>>] = IF m = n THEN Never ELSE repeatAt[<<m, q>>]
      BY <2>2, <1>1, LeaveEffect
    <3> QED
      BY <3>1
  <2>3. ASSUME NEW n \in Nodes, NEW r \in Reasons, RegisterPropagationTimer(n, r)
        PROVE  \/ repeatAt'[<<m, q>>] = repeatAt[<<m, q>>]
               \/ repeatAt'[<<m, q>>] = now + RepeatInterval[q]
    <3>1. repeatAt'[<<m, q>>] =
            IF m = n /\ q = r THEN now + RepeatInterval[r] ELSE repeatAt[<<m, q>>]
      <4>1. <<m, q>> \in Pairs /\ (<<m, q>> = <<n, r>> <=> m = n /\ q = r)
        BY DEF Pairs
      <4>2. /\ repeatAt \in [Pairs -> Nat \cup {Never}]
            /\ repeatAt' = [repeatAt EXCEPT ![<<n, r>>] = now + RepeatInterval[r]]
        BY <2>3, <1>1 DEF TypeOK, RegisterPropagationTimer
      <4> QED
        BY <4>1, <4>2
    <3>2. CASE m = n /\ q = r
      BY <3>1, <3>2
    <3>3. CASE ~(m = n /\ q = r)
      BY <3>1, <3>3
    <3> QED
      BY <3>2, <3>3
  <2>4. ASSUME NEW n \in Nodes, NEW r \in Reasons, Propagate(n, r)
        PROVE  \/ repeatAt'[<<m, q>>] = repeatAt[<<m, q>>]
               \/ repeatAt'[<<m, q>>] = now + RepeatInterval[q]
    <3>1. repeatAt'[<<m, q>>] =
            IF m = n /\ q = r
            THEN IF rest[<<m, q>>] - RepeatInterval[r] > 0
                 THEN now + RepeatInterval[r] ELSE Never
            ELSE repeatAt[<<m, q>>]
      BY <2>4, <1>1, PropagateEffect
    <3> QED
      BY <3>1
  <2> QED
    BY <2>1, <2>2, <2>3, <2>4, HandleSteps
<1> QED
  BY <1>3, <1>4, <1>5

LEMMA TimersStep == Inv /\ [Next]_vars => TimersAhead'
<1> SUFFICES ASSUME Inv, [Next]_vars PROVE TimersAhead'
  OBVIOUS
<1>1. CASE Tick
  BY <1>1, TickMeetsNoTimer
<1>2. CASE ~Tick
  <2>1. /\ now' = now /\ startTime' = startTime
        /\ \/ startAt' = startAt
           \/ \E n \in Nodes : startAt' = [startAt EXCEPT ![n] = Later(startTime, now)]
           \/ \E n \in Nodes : startAt' = [startAt EXCEPT ![n] = Never]
        /\ \/ incidentAt' = incidentAt
           \/ \E r \in Reasons : incidentAt' = [incidentAt EXCEPT ![r] = Never]
    <3>1. CASE UNCHANGED vars
      BY <3>1 DEF vars, life
    <3>2. ASSUME NEW n \in Nodes, Enter(n) \/ Leave(n) \/ Walk(n) \/ SetUp(n)
          PROVE  /\ now' = now /\ startTime' = startTime /\ incidentAt' = incidentAt
                 /\ \/ startAt' = startAt
                    \/ startAt' = [startAt EXCEPT ![n] = Later(startTime, now)]
                    \/ startAt' = [startAt EXCEPT ![n] = Never]
      BY <3>2 DEF Enter, Leave, Walk, SetUp, life
    <3>3. ASSUME NEW r \in Reasons, Incident(r)
          PROVE  /\ now' = now /\ startTime' = startTime /\ startAt' = startAt
                 /\ incidentAt' = [incidentAt EXCEPT ![r] = Never]
      BY <3>3 DEF Incident
    <3>4. ASSUME NEW n \in Nodes, NEW r \in Reasons, Receive(n, r) \/ Lose(n, r) \/ Propagate(n, r)
          PROVE  UNCHANGED <<now, startTime, startAt, incidentAt>>
      BY <3>4 DEF Receive, Lose, Propagate, life
    <3> QED
      BY <1>2, <3>1, <3>2, <3>3, <3>4 DEF Next
  <2>2. TypeOK /\ TimersAhead
    BY DEF Inv
  <2>3. now \in Nat /\ now <= Later(startTime, now)
    BY <2>2, TimeAssumption DEF TypeOK, Later
  <2>4. \A n \in Nodes : startAt'[n] # Never => now' <= startAt'[n]
    BY <2>1, <2>2, <2>3 DEF TypeOK, TimersAhead
  <2>5. \A r \in Reasons :
          incidentAt'[r] # Never => incidentAt'[r] = IncidentTime[r] /\ now' <= incidentAt'[r]
    BY <2>1, <2>2 DEF TypeOK, TimersAhead
  <2>6. \A n \in Nodes, r \in Reasons :
          repeatAt'[<<n, r>>] # Never => now' <= repeatAt'[<<n, r>>]
    BY <2>1, RepeatAhead
  <2> QED
    BY <2>4, <2>5, <2>6 DEF TimersAhead
<1> QED
  BY <1>1, <1>2

(* An incident that is due finds its application set up.                   *)
LEMMA IncidentFindsActive ==
  ASSUME Inv, OnTime, NEW r \in Reasons, Incident(r)
  PROVE  phase[Source[r]] # "init"
<1>1. SUFFICES ASSUME phase[Source[r]] = "init" PROVE FALSE
  OBVIOUS
<1>2. Source[r] \in Nodes /\ Source[r] \in Sources
  BY SenderAssumption DEF Sources
<1>3. startAt[Source[r]] # Never /\ startAt[Source[r]] = startTime
  BY <1>1, <1>2 DEF Inv, SetUpOnce
<1>4. now <= startTime
  BY <1>2, <1>3 DEF Inv, TimersAhead
<1>5. incidentAt[r] = now /\ startAt[Source[r]] # now
  BY DEF Incident
<1>6. now = IncidentTime[r] /\ now \in Nat
  BY <1>5, TimeAssumption DEF Inv, TypeOK, TimersAhead
<1>7. startTime <= now /\ startTime \in Nat
  BY <1>6, TimeAssumption DEF OnTime, Inv, TypeOK
<1> QED
  BY <1>3, <1>4, <1>5, <1>6, <1>7

LEMMA SetUpOnceStep == Inv /\ [Next]_vars => SetUpOnce'
<1> SUFFICES ASSUME Inv, [Next]_vars PROVE SetUpOnce'
  OBVIOUS
<1>t. TypeOK /\ SetUpOnce
  BY DEF Inv
<1>0. startTime' = startTime
  BY DEF Next, Tick, Enter, Leave, Walk, SetUp, Incident, Receive, Lose, Propagate, vars
<1>o. OnTime' = OnTime
  BY <1>0 DEF OnTime
<1>n. \A n \in Sources : n \in Nodes /\ n \notin Pedestrians
  BY SenderAssumption DEF Sources, Pedestrians
<1>1. CASE \/ Tick \/ UNCHANGED vars
           \/ \E n \in Nodes : Walk(n)
           \/ \E n \in Nodes, r \in Reasons : Receive(n, r) \/ Lose(n, r) \/ Propagate(n, r)
  <2>1. UNCHANGED <<phase, startAt>>
    BY <1>1 DEF Tick, Walk, Receive, Lose, Propagate, vars, life
  <2>2. fault' = fault
    BY <1>1, Zenon DEF Tick, Walk, Receive, Lose, Propagate, vars, life
  <2> QED
    BY <2>1, <2>2, <1>0, <1>o, <1>t, Zenon DEF SetUpOnce
<1>2. ASSUME NEW n \in Nodes, Enter(n) PROVE SetUpOnce'
  <2>1. Later(startTime, now) # Never
    BY <1>t, TimeAssumption DEF TypeOK, Later
  <2>2. \A m \in Sources : startAt'[m] = startAt[m]
    BY <1>2, <1>n, <1>t DEF Enter, TypeOK
  <2>3. \A m \in Nodes : /\ m # n => phase'[m] = phase[m] /\ startAt'[m] = startAt[m]
                         /\ m = n => phase'[m] = "init" /\ startAt'[m] # Never
    BY <1>2, <1>t, <2>1 DEF Enter, TypeOK
  <2>4. fault' = fault
    BY <1>2, Zenon DEF Enter
  <2>5. OnTime => \A m \in Nodes : phase'[m] = "init" <=> startAt'[m] # Never
    BY <2>3, <1>t DEF SetUpOnce
  <2> QED
    BY <2>2, <2>4, <2>5, <1>0, <1>o, <1>t, Zenon DEF SetUpOnce
<1>3. ASSUME NEW n \in Nodes, Leave(n) PROVE SetUpOnce'
  <2>2. \A m \in Sources : startAt'[m] = startAt[m]
    BY <1>3, <1>n, <1>t DEF Leave, TypeOK
  <2>3. \A m \in Nodes : /\ m # n => phase'[m] = phase[m] /\ startAt'[m] = startAt[m]
                         /\ m = n => phase'[m] # "init" /\ startAt'[m] = Never
    BY <1>3, <1>t DEF Leave, TypeOK
  <2>4. fault' = fault
    BY <1>3, Zenon DEF Leave
  <2>5. OnTime => \A m \in Nodes : phase'[m] = "init" <=> startAt'[m] # Never
    BY <2>3, <1>t DEF SetUpOnce
  <2> QED
    BY <2>2, <2>4, <2>5, <1>0, <1>o, <1>t, Zenon DEF SetUpOnce
<1>4. ASSUME NEW n \in Nodes, SetUp(n) PROVE SetUpOnce'
  <2>1. startAt[n] # Never
    BY <1>4, <1>t, TimeAssumption DEF SetUp, TypeOK
  <2>2. \A m \in Sources : startAt'[m] = startAt[m] \/ startAt'[m] = Never
    BY <1>4, <1>n, <1>t DEF SetUp, TypeOK
  <2>3. \A m \in Nodes : /\ m # n => phase'[m] = phase[m] /\ startAt'[m] = startAt[m]
                         /\ m = n => phase'[m] # "init" /\ startAt'[m] = Never
    BY <1>4, <1>t DEF SetUp, TypeOK
  <2>4. OnTime => ~fault'
    <3>1. OnTime => phase[n] # "active"
      BY <2>1, <1>t DEF SetUpOnce
    <3>2. fault' = (phase[n] = "active")
      BY <1>4, Zenon DEF SetUp
    <3> QED
      BY <3>1, <3>2, Zenon
  <2>5. OnTime => \A m \in Nodes : phase'[m] = "init" <=> startAt'[m] # Never
    BY <2>3, <1>t DEF SetUpOnce
  <2>6. \A m \in Sources : startAt'[m] \in {Never, startTime}
    BY <2>2, <1>t DEF SetUpOnce
  <2> QED
    BY <2>6, <2>4, <2>5, <1>0, <1>o, Zenon DEF SetUpOnce
<1>5. ASSUME NEW r \in Reasons, Incident(r) PROVE SetUpOnce'
  <2>1. startAt' = startAt /\ (OnTime => phase' = phase)
    BY <1>5, IncidentFindsActive DEF Incident
  <2>2. fault' = fault
    BY <1>5, Zenon DEF Incident
  <2> QED
    BY <2>1, <2>2, <1>0, <1>o, <1>t, Zenon DEF SetUpOnce
<1> QED
  BY <1>1, <1>2, <1>3, <1>4, <1>5 DEF Next

-----------------------------------------------------------------------------
(* Nobody forgets an incident.                                             *)
LEMMA KnownGrows ==
  ASSUME Inv, [Next]_vars, NEW q \in Reasons
  PROVE  known[q] \subseteq known'[q]
<1>t. TypeOK
  BY DEF Inv
<1>1. ASSUME NEW n \in Nodes, NEW r \in Reasons, RegisterPropagationTimer(n, r)
      PROVE  known[q] \subseteq known'[q]
  BY <1>1, <1>t DEF RegisterPropagationTimer, TypeOK
<1> QED
  BY <1>1, HandleSteps DEF handles, Leave, Propagate

LEMMA AnnouncedStep == Inv /\ [Next]_vars => Announced'
<1> SUFFICES ASSUME Inv, [Next]_vars, OnTime', NEW q \in Reasons, incidentAt'[q] = Never
             PROVE  Source[q] \in known'[q]
  BY DEF Announced
<1>t. TypeOK /\ Announced
  BY DEF Inv
<1>0. OnTime
  BY DEF OnTime, Next, Tick, Enter, Leave, Walk, SetUp, Incident, Receive, Lose, Propagate, vars
<1>1. CASE incidentAt[q] = Never
  BY <1>0, <1>1, <1>t, KnownGrows DEF Announced
<1>2. CASE incidentAt[q] # Never
  <2>1. \E r \in Reasons : Incident(r)
    BY <1>2 DEF Next, Tick, Enter, Leave, Walk, SetUp, Receive, Lose, Propagate, vars
  <2>2. PICK r \in Reasons : Incident(r)
    BY <2>1
  <2>3. r = q
    BY <1>2, <1>t, <2>2 DEF Incident, TypeOK
  <2>4. RegisterPropagationTimer(Source[q], q)
    BY <2>2, <2>3, <1>0, IncidentFindsActive DEF Incident
  <2>5. known'[q] = known[q] \cup {Source[q]}
    BY <2>4, <1>t DEF RegisterPropagationTimer, TypeOK
  <2> QED
    BY <2>5
<1> QED
  BY <1>1, <1>2

LEMMA HasSourceStep == Inv /\ [Next]_vars => HasSource'
<1> SUFFICES ASSUME Inv, [Next]_vars PROVE HasSource'
  OBVIOUS
<1>t. TypeOK /\ HasSource /\ Budget
  BY DEF Inv
<1>1. ASSUME NEW q \in Reasons, incidentAt'[q] # Never PROVE known'[q] = {}
  <2>1. incidentAt[q] # Never /\ ~Incident(q)
    BY <1>1, <1>t
    DEF Next, Tick, Enter, Leave, Walk, SetUp, Incident, Receive, Lose, Propagate, vars, TypeOK
  <2>2. known[q] = {} /\ \A n \in Nodes : <<n, q>> \notin net
    BY <2>1, <1>t DEF HasSource
  <2>3. known'[q] = known[q]
    <3>1. CASE Tick \/ UNCHANGED vars
      BY <3>1 DEF Tick, vars, handles
    <3>2. ASSUME NEW n \in Nodes, Enter(n) \/ Leave(n) \/ Walk(n) \/ SetUp(n)
          PROVE  known'[q] = known[q]
      BY <3>2 DEF Enter, Leave, Walk, SetUp, handles
    <3>3. ASSUME NEW r \in Reasons, Incident(r) PROVE known'[q] = known[q]
      <4>1. r # q
        BY <3>3, <2>1
      <4> QED
        BY <3>3, <4>1, <1>t DEF Incident, RegisterPropagationTimer, handles, TypeOK
    <3>4. ASSUME NEW n \in Nodes, NEW r \in Reasons, Receive(n, r) PROVE known'[q] = known[q]
      <4>1. r # q
        BY <3>4, <2>2 DEF Receive
      <4> QED
        BY <3>4, <4>1, <1>t DEF Receive, IncidentRx, RegisterPropagationTimer, handles, TypeOK
    <3>5. ASSUME NEW n \in Nodes, NEW r \in Reasons, Lose(n, r) \/ Propagate(n, r)
          PROVE  known'[q] = known[q]
      BY <3>5 DEF Lose, Propagate, handles
    <3> QED
      BY <3>1, <3>2, <3>3, <3>4, <3>5 DEF Next
  <2> QED
    BY <2>2, <2>3
<1>2. ASSUME NEW m \in Nodes, NEW q \in Reasons, <<m, q>> \in net' PROVE known'[q] # {}
  <2>1. CASE <<m, q>> \in net
    BY <2>1, <1>t, KnownGrows DEF HasSource
  <2>2. CASE <<m, q>> \notin net
    <3>1. \/ Incident(q) /\ SendPayload(Source[q], q) /\ RegisterPropagationTimer(Source[q], q)
          \/ \E n \in Nodes : Propagate(n, q)
      <4>1. ASSUME NEW r \in Reasons, Incident(r)
            PROVE  /\ r = q
                   /\ SendPayload(Source[q], q) /\ RegisterPropagationTimer(Source[q], q)
        BY <4>1, <1>2, <2>2 DEF Incident, SendPayload
      <4>2. ASSUME NEW n \in Nodes, NEW r \in Reasons, Propagate(n, r)
            PROVE  r = q
        BY <4>2, <1>2, <2>2 DEF Propagate, SendPayload
      <4>3. ~Tick /\ vars' # vars
        BY <1>2, <2>2 DEF Tick, vars
      <4>4. \A n \in Nodes : ~Enter(n) /\ ~Leave(n) /\ ~Walk(n) /\ ~SetUp(n)
        BY <1>2, <2>2 DEF Enter, Leave, Walk, SetUp
      <4>5. \A n \in Nodes, r \in Reasons : ~Receive(n, r) /\ ~Lose(n, r)
        BY <1>2, <2>2 DEF Receive, Lose
      <4> QED
        BY <4>1, <4>2, <4>3, <4>4, <4>5 DEF Next
    <3>2. CASE RegisterPropagationTimer(Source[q], q)
      BY <3>2, <1>t DEF RegisterPropagationTimer, TypeOK
    <3>3. ASSUME NEW n \in Nodes, Propagate(n, q) PROVE known'[q] # {}
      <4>1. repeatAt[<<n, q>>] # Never
        BY <3>3, <1>t, TimeAssumption DEF Propagate, TypeOK
      <4>2. n \in known[q]
        BY <4>1, <1>t DEF Budget
      <4> QED
        BY <4>2, KnownGrows
    <3> QED
      BY <3>1, <3>2, <3>3
  <2> QED
    BY <2>1, <2>2
<1> QED
  BY <1>1, <1>2 DEF HasSource

(* A repetition happens with a pending handle.                             *)
LEMMA RepetitionOnTheClock ==
  ASSUME Inv, NEW n \in Nodes, NEW r \in Reasons, Propagate(n, r)
  PROVE  /\ n \in known[r]
         /\ now = heardAt[<<n, r>>] + (repeated[<<n, r>>] + 1) * RepeatInterval[r]
         /\ repeated[<<n, r>>] > 0 => now < heardAt[<<n, r>>] + RepeatTime[r]
<1>1. TypeOK /\ Budget
  BY DEF Inv
<1>2. repeatAt[<<n, r>>] = now /\ now # Never
  BY <1>1, TimeAssumption DEF Propagate, TypeOK
<1>3. /\ n \in known[r]
      /\ now = heardAt[<<n, r>>] + (repeated[<<n, r>>] + 1) * RepeatInterval[r]
      /\ rest[<<n, r>>] = RepeatTime[r] - (now - heardAt[<<n, r>>])
      /\ repeated[<<n, r>>] > 0 => rest[<<n, r>>] > 0
  BY <1>1, <1>2 DEF Budget
<1>4. now \in Nat /\ heardAt[<<n, r>>] \in Nat /\ RepeatTime[r] \in Nat
  BY <1>1, SenderAssumption DEF TypeOK, Pairs
<1>5. RepeatTime[r] - (now - heardAt[<<n, r>>]) > 0 => now < heardAt[<<n, r>>] + RepeatTime[r]
  BY <1>4
<1> QED
  BY <1>3, <1>5

LEMMA RepeatBudgetStep == Inv /\ [Next]_vars => RepeatBudget'
<1> SUFFICES ASSUME Inv, [Next]_vars, NEW m \in Nodes, NEW q \in Reasons,
                    repeated'[<<m, q>>] > 1
             PROVE  repeated'[<<m, q>>] * RepeatInterval[q] < RepeatTime[q]
  BY DEF RepeatBudget
<1>t. TypeOK /\ RepeatBudget
  BY DEF Inv
<1>1. CASE repeated'[<<m, q>>] = repeated[<<m, q>>]
  BY <1>1, <1>t DEF RepeatBudget
<1>2. CASE repeated'[<<m, q>>] # repeated[<<m, q>>]
  <2>1. PICK n \in Nodes, r \in Reasons : Propagate(n, r)
    BY <1>2, HandleSteps DEF Leave
  <2>2. n = m /\ r = q /\ repeated'[<<m, q>>] = repeated[<<m, q>>] + 1
    <3>1. repeated'[<<m, q>>] =
            IF m = n /\ q = r THEN repeated[<<m, q>>] + 1 ELSE repeated[<<m, q>>]
      BY <2>1, <1>t, PropagateEffect
    <3> QED
      BY <3>1, <1>2
  <2> DEFINE k == repeated[<<m, q>>]
             h == heardAt[<<m, q>>]
  <2>3. /\ now = h + (k + 1) * RepeatInterval[q]
        /\ k > 0 => now < h + RepeatTime[q]
    BY <2>1, <2>2, RepetitionOnTheClock
  <2>4. k \in Nat /\ h \in Nat /\ RepeatInterval[q] \in Nat /\ RepeatTime[q] \in Nat
    BY <1>t, SenderAssumption DEF TypeOK, Pairs
  <2>5. (k + 1) * RepeatInterval[q] \in Nat
    BY <2>4, OneMoreInterval
  <2> HIDE DEF k, h
  <2>6. k > 0
    BY <2>2, <2>4 DEF k
  <2>7. ASSUME NEW x \in Nat, now = h + x, now < h + RepeatTime[q] PROVE x < RepeatTime[q]
    BY <2>4, <2>7
  <2>8. (k + 1) * RepeatInterval[q] < RepeatTime[q]
    BY <2>3, <2>5, <2>6, <2>7
  <2> QED
    BY <2>2, <2>8 DEF k
<1> QED
  BY <1>1, <1>2

LEMMA RoutesStep == Inv /\ [Next]_vars => SourceStands' /\ AvoidsClosedTarget'
<1> SUFFICES ASSUME Inv, [Next]_vars PROVE SourceStands' /\ AvoidsClosedTarget'
  OBVIOUS
<1>t. TypeOK /\ SourceStands /\ AvoidsClosedTarget /\ Sources \subseteq Nodes
  BY SenderAssumption DEF Inv, Sources
<1>1. CASE UNCHANGED <<targets, known>>
  BY <1>1, <1>t DEF SourceStands, AvoidsClosedTarget, NotAnAlternative
<1>2. ASSUME NEW n \in Nodes, Walk(n) PROVE SourceStands' /\ AvoidsClosedTarget'
  <2>1. known' = known /\ \A m \in Nodes : targets'[m] \subseteq targets[m]
    BY <1>2, <1>t DEF Walk, handles, TypeOK
  <2> QED
    BY <2>1, <1>t DEF SourceStands, AvoidsClosedTarget, NotAnAlternative
<1>3. ASSUME NEW r \in Reasons, Incident(r) PROVE SourceStands' /\ AvoidsClosedTarget'
  <2>1. targets' = targets
    BY <1>3 DEF Incident
  <2>2. \A q \in Reasons : known'[q] \subseteq known[q] \cup Sources
    <3>1. Source[r] \in Sources
      BY DEF Sources
    <3> QED
      BY <1>3, <1>t, <3>1 DEF Incident, RegisterPropagationTimer, handles, TypeOK
  <2> QED
    BY <2>1, <2>2, <1>t DEF SourceStands, AvoidsClosedTarget, NotAnAlternative
<1>4. ASSUME NEW n \in Nodes, NEW r \in Reasons, Receive(n, r), n \notin known[r]
      PROVE  SourceStands' /\ AvoidsClosedTarget'
  <2>1. ActOnIncident(n, r) /\ RegisterPropagationTimer(n, r)
    BY <1>4 DEF Receive, IncidentRx
  <2>2. \A m \in Nodes : targets'[m] =
          IF m = n /\ ClosedTarget[r] \in targets[m] THEN AlternativeRoute[r] ELSE targets[m]
    BY <2>1, <1>t DEF ActOnIncident, TypeOK
  <2>3. \A q \in Reasons : known'[q] = IF q = r THEN known[q] \cup {n} ELSE known[q]
    BY <2>1, <1>t DEF RegisterPropagationTimer, TypeOK
  <2>4. SourceStands'
    BY <2>2, <1>t DEF SourceStands
  <2>5. ASSUME NEW m \in Nodes, NEW q \in Reasons, NotAnAlternative(q), m \in known'[q]
        PROVE  ClosedTarget[q] \notin targets'[m]
    <3>1. ClosedTarget[q] \notin AlternativeRoute[r]
      BY <2>5 DEF NotAnAlternative
    <3>2. CASE m \in known[q]
      BY <3>1, <3>2, <2>2, <2>5, <1>t DEF AvoidsClosedTarget
    <3>3. CASE m \notin known[q]
      BY <3>1, <3>3, <2>2, <2>3, <2>5
    <3> QED
      BY <3>2, <3>3
  <2> QED
    BY <2>4, <2>5 DEF AvoidsClosedTarget, NotAnAlternative
<1>5. CASE \/ Tick
           \/ \E n \in Nodes : Enter(n) \/ Leave(n) \/ SetUp(n)
           \/ \E n \in Nodes, r \in Reasons :
                Lose(n, r) \/ Propagate(n, r) \/ (Receive(n, r) /\ n \in known[r])
  BY <1>1, <1>5 DEF Tick, Enter, Leave, SetUp, Lose, Propagate, Receive, IncidentRx, handles
<1>6. CASE UNCHANGED vars
  BY <1>1, <1>6 DEF vars, handles
<1> QED
  BY <1>2, <1>3, <1>4, <1>5, <1>6 DEF Next

LEMMA InvStep == Inv /\ [Next]_vars => Inv'
<1> SUFFICES ASSUME Inv, [Next]_vars PROVE Inv'
  OBVIOUS
<1>1. TypeOK'
  BY TypeOKStep DEF Inv
<1>2. TimersAhead' /\ SetUpOnce' /\ Announced' /\ HasSource'
  BY TimersStep, SetUpOnceStep, AnnouncedStep, HasSourceStep
<1>3. Budget' /\ RepeatBudget'
  BY BudgetStep, RepeatBudgetStep
<1>4. SourceStands' /\ AvoidsClosedTarget'
  BY RoutesStep
<1> QED
  BY <1>1, <1>2, <1>3, <1>4 DEF Inv

LEMMA Invariance == Spec => []Inv
<1> QED
  BY InvInit, InvStep, PTL DEF Spec

-----------------------------------------------------------------------------
(* Every incident is announced, and no second set up ends the simulation.  *)
THEOREM EveryIncidentAnnounced == Spec => []IncidentAnnounced
<1>1. Inv => IncidentAnnounced
  <2> SUFFICES ASSUME Inv, OnTime
               PROVE  /\ ~fault
                      /\ \A r \in Reasons :
                           incidentAt[r] = Never \/ now > IncidentTime[r] =>
                             Source[r] \in known[r]
    BY DEF IncidentAnnounced, OnTime
  <2>1. ~fault
    BY Zenon DEF Inv, SetUpOnce
  <2>2. ASSUME NEW r \in Reasons, now > IncidentTime[r] PROVE incidentAt[r] = Never
    <3>1. now \in Nat /\ IncidentTime[r] \in Nat
      BY SenderAssumption DEF Inv, TypeOK
    <3>2. incidentAt[r] # Never => IncidentTime[r] = incidentAt[r] /\ now <= incidentAt[r]
      BY DEF Inv, TimersAhead
    <3> QED
      BY <2>2, <3>1, <3>2
  <2> QED
    BY <2>1, <2>2 DEF Inv, Announced
<1> QED
  BY <1>1, Invariance, PTL

(* A node repeats an incident within its budget.                           *)
THEOREM RepetitionsBounded == Spec => []RepeatBudget
<1>1. Inv => RepeatBudget
  BY DEF Inv
<1> QED
  BY <1>1, Invariance, PTL

(* Who knows that a target is closed does not go there.                    *)
THEOREM ClosedTargetAvoided == Spec => []AvoidsClosedTarget
<1>1. Inv => AvoidsClosedTarget
  BY DEF Inv
<1> QED
  BY <1>1, Invariance, PTL

(* What DiesOut rests on: a node says nothing more of an incident once the *)
(* repeat time, or the interval if that is longer, has passed since it     *)
(* heard of it (fsmPropagateTxExit), and it hears of it once               *)
(* (fsmIncidentRxExit): nobody else can start its repetitions again.       *)
SilentInTime == \A n \in Nodes, r \in Reasons :
  now > heardAt[<<n, r>>] + Later(RepeatTime[r], RepeatInterval[r]) =>
    repeatAt[<<n, r>>] = Never

HeardOnce == [][\A n \in Nodes, r \in Reasons :
  n \in known[r] => n \in known[r]' /\ heardAt[<<n, r>>]' = heardAt[<<n, r>>]]_vars

(* No repetition is planned when the repeat time of the news is over.      *)
THEOREM SilenceHolds == Spec => []SilentInTime
<1>1. Inv => SilentInTime
  <2> SUFFICES ASSUME Inv, NEW n \in Nodes, NEW r \in Reasons, repeatAt[<<n, r>>] # Never
               PROVE  now <= heardAt[<<n, r>>] + Later(RepeatTime[r], RepeatInterval[r])
    <3>1. ASSUME Inv, NEW n \in Nodes, NEW r \in Reasons
          PROVE  /\ now \in Nat
                 /\ heardAt[<<n, r>>] + Later(RepeatTime[r], RepeatInterval[r]) \in Nat
      <4>1. heardAt[<<n, r>>] \in Nat /\ now \in Nat
        BY <3>1 DEF Inv, TypeOK, Pairs
      <4>2. Later(RepeatTime[r], RepeatInterval[r]) \in Nat
        BY SenderAssumption DEF Later
      <4> QED
        BY <4>1, <4>2
    <3>2. ASSUME NEW s \in Nat, NEW t \in Nat, s <= t PROVE ~(s > t)
      BY <3>2
    <3> QED
      BY <3>1, <3>2 DEF SilentInTime
  <2> DEFINE p == <<n, r>>
             k == repeated[p]
  <2>1. /\ repeatAt[p] \in Nat /\ heardAt[p] \in Nat /\ k \in Nat /\ now \in Nat
        /\ RepeatTime[r] \in Nat /\ RepeatInterval[r] \in Nat
    <3>1. p \in Pairs
      BY DEF Pairs
    <3> QED
      BY <3>1, SenderAssumption DEF Inv, TypeOK
  <2>2. /\ repeatAt[p] = heardAt[p] + (k + 1) * RepeatInterval[r]
        /\ rest[p] = RepeatTime[r] - (repeatAt[p] - heardAt[p])
        /\ k > 0 => rest[p] > 0
    BY DEF Inv, Budget
  <2>3. now <= repeatAt[p]
    BY DEF Inv, TimersAhead
  <2> HIDE DEF p, k
  <2>4. CASE k > 0
    BY <2>1, <2>2, <2>3, <2>4 DEF Later, p
  <2>5. CASE k = 0
    <3>1. (k + 1) * RepeatInterval[r] = RepeatInterval[r]
      BY <2>1, <2>5
    <3> QED
      BY <2>1, <2>2, <2>3, <3>1 DEF Later, p
  <2> QED
    BY <2>1, <2>4, <2>5
<1> QED
  BY <1>1, Invariance, PTL

(* ... and hears of an incident once.                                      *)
THEOREM HeardOnceHolds == Spec => HeardOnce
<1>1. ASSUME Inv, [Next]_vars, NEW m \in Nodes, NEW q \in Reasons, m \in known[q]
      PROVE  m \in known'[q] /\ heardAt'[<<m, q>>] = heardAt[<<m, q>>]
  <2>1. CASE UNCHANGED <<handles, repeated>>
    BY <1>1, <2>1 DEF handles
  <2>2. ASSUME NEW n \in Nodes, Leave(n) PROVE UNCHANGED <<known, heardAt>>
    BY <2>2 DEF Leave
  <2>3. ASSUME NEW n \in Nodes, NEW r \in Reasons, n \notin known[r],
               RegisterPropagationTimer(n, r)
        PROVE  m \in known'[q] /\ heardAt'[<<m, q>>] = heardAt[<<m, q>>]
    <3>1. ~(m = n /\ q = r)
      BY <1>1, <2>3
    <3>2. /\ known'[q] = IF q = r THEN known[q] \cup {n} ELSE known[q]
          /\ heardAt'[<<m, q>>] = IF m = n /\ q = r THEN now ELSE heardAt[<<m, q>>]
      BY <1>1, <2>3, RegisterEffect DEF Inv
    <3> QED
      BY <1>1, <3>1, <3>2
  <2>4. ASSUME NEW n \in Nodes, NEW r \in Reasons, Propagate(n, r)
        PROVE  UNCHANGED <<known, heardAt>>
    BY <2>4 DEF Propagate
  <2> QED
    BY <1>1, <2>1, <2>2, <2>3, <2>4, HandleSteps
<1>2. ASSUME Inv, [Next]_vars
      PROVE  [\A n \in Nodes, r \in Reasons : n \in known[r] =>
                n \in known[r]' /\ heardAt[<<n, r>>]' = heardAt[<<n, r>>]]_vars
  BY <1>1, <1>2
<1> QED
  BY <1>2, Invariance, PTL DEF Spec, HeardOnce

(* Repetitions keep to the interval and to the repeat time.                *)
THEOREM RepetitionsInTime == Spec => RepeatedInTime
<1> DEFINE A == \A n \in Nodes, r \in Reasons :
      repeated[<<n, r>>]' # repeated[<<n, r>>] =>
        /\ n \in known[r]
        /\ IF repeated[<<n, r>>] = 0 THEN now = heardAt[<<n, r>>] + RepeatInterval[r]
           ELSE now < heardAt[<<n, r>>] + RepeatTime[r]
<1>1. Inv /\ [Next]_vars => [A]_vars
  <2> SUFFICES ASSUME Inv, [Next]_vars, NEW m \in Nodes, NEW q \in Reasons,
                      repeated[<<m, q>>]' # repeated[<<m, q>>]
               PROVE  /\ m \in known[q]
                      /\ repeated[<<m, q>>] = 0 => now = heardAt[<<m, q>>] + RepeatInterval[q]
                      /\ repeated[<<m, q>>] # 0 => now < heardAt[<<m, q>>] + RepeatTime[q]
    OBVIOUS
  <2>t. TypeOK
    BY DEF Inv
  <2>1. PICK n \in Nodes, r \in Reasons : Propagate(n, r)
    BY HandleSteps DEF Leave
  <2>2. n = m /\ r = q
    <3>1. repeated'[<<m, q>>] =
            IF m = n /\ q = r THEN repeated[<<m, q>>] + 1 ELSE repeated[<<m, q>>]
      BY <2>1, <2>t, PropagateEffect
    <3> QED
      BY <3>1
  <2> DEFINE k == repeated[<<m, q>>]
             h == heardAt[<<m, q>>]
  <2>3. /\ m \in known[q]
        /\ now = h + (k + 1) * RepeatInterval[q]
        /\ k > 0 => now < h + RepeatTime[q]
    BY <2>1, <2>2, RepetitionOnTheClock
  <2>4. k \in Nat /\ h \in Nat /\ RepeatInterval[q] \in Nat
    BY <2>t, SenderAssumption DEF TypeOK, Pairs
  <2>5. (0 + 1) * RepeatInterval[q] = RepeatInterval[q]
    BY <2>4
  <2> HIDE DEF k, h
  <2>6. k = 0 => now = h + RepeatInterval[q]
    <3>1. k = 0 => now = h + (0 + 1) * RepeatInterval[q]
      BY <2>3
    <3> QED
      BY <3>1, <2>5
  <2>7. k # 0 => now < h + RepeatTime[q]
    BY <2>3, <2>4
  <2> QED
    BY <2>3, <2>6, <2>7 DEF k, h
<1> QED
  BY <1>1, Invariance, PTL DEF Spec, RepeatedInTime

-----------------------------------------------------------------------------
LEMMA InitMaps == Init => R!Init
<1> SUFFICES ASSUME Init PROVE R!Init
  OBVIOUS
<1>1. targets \in [Nodes -> SUBSET Targets]
  BY TypeOKInit DEF TypeOK
<1> QED
  BY <1>1 DEF Init, R!Init

(* A packet that is news is a learning step of the rumor.                  *)
LEMMA ReceiveMaps ==
  ASSUME Inv, NEW n \in Nodes, NEW r \in Reasons, Receive(n, r)
  PROVE  R!Next \/ UNCHANGED R!vars
<1>1. CASE n \in known[r]
  BY <1>1 DEF Receive, IncidentRx, handles, R!vars
<1>2. CASE n \notin known[r]
  <2>1. /\ known' = [known EXCEPT ![r] = @ \cup {n}]
        /\ targets' = [targets EXCEPT ![n] =
             IF ClosedTarget[r] \in @ THEN AlternativeRoute[r] ELSE @]
    BY <1>2 DEF Receive, IncidentRx, ActOnIncident, RegisterPropagationTimer
  <2>2. known[r] # {}
    BY DEF Receive, Inv, HasSource
  <2>3. R!Learn(n, r)
    BY <1>2, <2>1, <2>2 DEF R!Learn, R!Detour
  <2> QED
    BY <2>3 DEF R!Next
<1> QED
  BY <1>1, <1>2

LEMMA StepMaps == Inv /\ [Next]_vars => [R!Next]_(R!vars)
<1> SUFFICES ASSUME Inv, [Next]_vars PROVE R!Next \/ UNCHANGED R!vars
  OBVIOUS
<1>1. CASE \/ Tick \/ UNCHANGED vars
           \/ \E n \in Nodes : Enter(n) \/ Leave(n) \/ SetUp(n)
           \/ \E n \in Nodes, r \in Reasons : Lose(n, r) \/ Propagate(n, r)
  BY <1>1 DEF Tick, vars, Enter, Leave, SetUp, Lose, Propagate, handles, R!vars
<1>2. ASSUME NEW n \in Nodes, Walk(n) PROVE R!Next
  <2>1. R!Walk(n)
    BY <1>2 DEF Walk, handles, R!Walk
  <2> QED
    BY <2>1 DEF R!Next
<1>3. ASSUME NEW r \in Reasons, Incident(r) PROVE R!Next \/ UNCHANGED R!vars
  <2>1. CASE phase[Source[r]] = "init"
    BY <1>3, <2>1 DEF Incident, handles, R!vars
  <2>2. CASE phase[Source[r]] # "init"
    <3>1. known' = [known EXCEPT ![r] = @ \cup {Source[r]}] /\ targets' = targets
      BY <1>3, <2>2 DEF Incident, RegisterPropagationTimer
    <3>2. incidentAt[r] # Never
      BY <1>3, TimeAssumption DEF Incident, Inv, TypeOK
    <3>3. known[r] = {} /\ known \in [Reasons -> SUBSET Nodes]
      BY <3>2 DEF Inv, HasSource, TypeOK
    <3>4. known' = [known EXCEPT ![r] = {Source[r]}]
      BY <3>1, <3>3
    <3>5. R!Start(r)
      BY <3>1, <3>3, <3>4 DEF R!Start
    <3> QED
      BY <3>5 DEF R!Next
  <2> QED
    BY <2>1, <2>2
<1>4. ASSUME NEW n \in Nodes, NEW r \in Reasons, Receive(n, r)
      PROVE  R!Next \/ UNCHANGED R!vars
  BY <1>4, ReceiveMaps
<1> QED
  BY <1>1, <1>2, <1>3, <1>4 DEF Next

(* The detour application implements the rumor: the handles suppress every *)
(* repetition that is not news, on a network that loses, delays, repeats   *)
(* and reorders.                                                           *)
THEOREM DetourImplementsRumor == Spec => ImplementsRumor
<1> QED
  BY InitMaps, StepMaps, Invariance, PTL DEF Spec, ImplementsRumor, R!Spec
=============================================================================
