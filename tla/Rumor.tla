-------------------------------- MODULE Rumor --------------------------------
(***************************************************************************)
(* What the detour application promises, whatever the network does: news   *)
(* of a closed target spreads from its source, nobody learns of it before  *)
(* the source did, and a pedestrian changes its route for it at most once, *)
(* when it first learns of it.                                             *)
(***************************************************************************)
CONSTANTS Nodes, Reasons, Targets, Source, ClosedTarget, AlternativeRoute

VARIABLES
  known,    \* who knows of an incident
  targets   \* where a pedestrian is going

vars == <<known, targets>>

Init ==
  /\ known = [r \in Reasons |-> {}]
  /\ targets \in [Nodes -> SUBSET Targets]

Start(r) ==
  /\ known[r] = {}
  /\ known' = [known EXCEPT ![r] = {Source[r]}]
  /\ UNCHANGED targets

Detour(n, r) ==
  IF ClosedTarget[r] \in targets[n] THEN AlternativeRoute[r] ELSE targets[n]

Learn(n, r) ==
  /\ known[r] # {}
  /\ n \notin known[r]
  /\ known' = [known EXCEPT ![r] = @ \cup {n}]
  /\ targets' = [targets EXCEPT ![n] = Detour(n, r)]

(* A target is reached.                                                    *)
Walk(n) ==
  /\ \E t \in targets[n] : targets' = [targets EXCEPT ![n] = @ \ {t}]
  /\ UNCHANGED known

Next ==
  \/ \E r \in Reasons : Start(r)
  \/ \E n \in Nodes, r \in Reasons : Learn(n, r)
  \/ \E n \in Nodes : Walk(n)

Spec == Init /\ [][Next]_vars
=============================================================================
