-------------------------------- MODULE Outbox --------------------------------
(***************************************************************************)
(* What the sender of density maps promises, whatever the order in which   *)
(* it looks at its cells.  `pending' are the cells with a valid value that *)
(* were not sent at the current point in time.  A request to send is       *)
(* turned down only if nothing is pending, no packet is empty, a packet is *)
(* closed only when it is full or nothing is pending any more, and a cell  *)
(* travels at most once per point in time.                                 *)
(***************************************************************************)
EXTENDS Naturals

CONSTANTS Cells, MaxRoom   \* the cells of the map, the cells of a full packet

VARIABLES
  phase,     \* "idle", "asked": a request waits, "open": a packet is filled
  pending,   \* cells that may be sent
  carried,   \* cells sent at this point in time
  room       \* cells that still fit into the open packet

vars == <<phase, pending, carried, room>>

Init ==
  /\ phase = "idle"
  /\ pending = {}
  /\ carried = {}
  /\ room = 0

(* A new point in time: everything may be sent again.                      *)
Renew ==
  /\ phase = "idle"
  /\ carried' = {}
  /\ pending' \in SUBSET Cells
  /\ UNCHANGED <<phase, room>>

(* The values of the cells are computed before the first cell is sent.     *)
Refresh ==
  \/ UNCHANGED pending
  \/ carried = {} /\ pending' \in SUBSET Cells

Compute ==
  /\ phase = "idle"
  /\ Refresh
  /\ UNCHANGED <<phase, carried, room>>

Ask ==
  /\ phase = "idle"
  /\ phase' = "asked"
  /\ Refresh
  /\ UNCHANGED <<carried, room>>

TurnDown ==
  /\ phase = "asked"
  /\ pending = {}
  /\ phase' = "idle"
  /\ UNCHANGED <<pending, carried, room>>

Open ==
  /\ phase = "asked"
  /\ pending # {}
  /\ phase' = "open"
  /\ room' \in 1..MaxRoom
  /\ UNCHANGED <<pending, carried>>

Send(c) ==
  /\ phase = "open"
  /\ room > 0
  /\ c \in pending
  /\ pending' = pending \ {c}
  /\ carried' = carried \cup {c}
  /\ room' = room - 1
  /\ UNCHANGED phase

(* The packet is closed; more may follow at once (NextPacket) or be asked  *)
(* for again.                                                              *)
Complete == phase = "open" /\ (room = 0 \/ pending = {})

Close ==
  /\ Complete
  /\ phase' \in {"idle", "asked"}
  /\ room' = 0
  /\ UNCHANGED <<pending, carried>>

NextPacket ==
  /\ Complete
  /\ pending # {}
  /\ room' \in 1..MaxRoom
  /\ UNCHANGED <<phase, pending, carried>>

Next ==
  \/ Renew
  \/ Compute
  \/ Ask
  \/ TurnDown
  \/ Open
  \/ \E c \in Cells : Send(c)
  \/ Close
  \/ NextPacket

Spec == Init /\ [][Next]_vars
=============================================================================
