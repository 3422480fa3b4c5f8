------------------------------- MODULE Reception -------------------------------
(***************************************************************************)
(* One node sends the packets of its density map over a network that       *)
(* loses, delays and reorders them.  The receiver's meter tells from the   *)
(* wrapping sequence number which packets are late and how many are lost;  *)
(* its map takes over the measurement of every packet, late or not.        *)
(*                                                                         *)
(* One cell and one sender: entries of other cells and sources are apart.  *)
(* The sender sends what it has measured itself, which only gets younger.  *)
(* (What it has heard and passes on may get older with any packet, if the  *)
(* aggregation picks another source.)                                      *)
(* Packets are numbered from 1 without a wrap; what a packet carries is    *)
(* its number modulo M (uint16_t in the code).                             *)
(***************************************************************************)
EXTENDS CellEntries, Integers, FiniteSets

CONSTANTS
  M,           \* sequence numbers are taken modulo M: 0x10000
  W,           \* the width of the windows at the wrap: 0x10
  Unit,        \* ages travel in units of 10 ms
  Saturation,  \* the largest age that can be sent: 0xFFFF
  TTL,         \* cellAgeTTL, 0: never
  Gap,         \* how far a packet may be from the newest one received
  Before,      \* packets sent before the receiver came into reach
  MaxSent, MaxFlight, Horizon   \* bounds

(* The comments at the wrap assume that gaps are small: "Distance over the *)
(* wrap is small therefore assum overflow" (AppRxInfoPerSource.cc:77).     *)
ASSUME ReceptionAssumption ==
  /\ {M, W, Unit, Saturation, TTL, Gap, Before} \subseteq Nat
  /\ {MaxSent, MaxFlight, Horizon} \subseteq Nat
  /\ M > 0
  /\ Unit > 0
  /\ Before <= MaxSent
  /\ Gap <= W
  /\ Gap < M - 2 * W + 1

VARIABLES
  now,         \* simTime()
  measured,    \* when the sender measured the cell
  sent,        \* packets sent so far; AppInfoLocal::sequencenumber is sent % M
  net,         \* packets under way
  meter,       \* AppRxInfoPerSource of the sender
  outOfOrder,  \* currentPkt->outOfOrder
  entry,       \* the entry of the sender in the receiver's cell
  aged,        \* the age handler has visited the cell at this time
  first,       \* history: the number of the first packet received
  highest,     \* history: the highest number received
  early        \* history: how many received packets were sent before the first

sender == <<measured, sent>>
receiver == <<meter, outOfOrder, first, highest, early>>
vars == <<now, sender, net, receiver, entry, aged>>

Meters == [received : Nat, init : 0 .. M - 1, max : 0 .. M - 1, cycle : Nat]
Packets == [n : 1 .. MaxSent, created : 0 .. Horizon, delta : 0 .. Saturation]

Init ==
  /\ now = 0
  /\ measured = 0
  /\ sent = Before
  /\ net = {}
  /\ meter = [received |-> 0, init |-> 0, max |-> 0, cycle |-> 0]
  /\ outOfOrder = FALSE
  /\ entry = NoEntry
  /\ aged = FALSE
  /\ first = 0
  /\ highest = 0
  /\ early = 0

Tick ==
  /\ now < Horizon
  /\ now' = now + 1
  /\ aged' = FALSE
  /\ UNCHANGED <<sender, net, receiver, entry>>

(* The sender measures the cell anew (updateLocalMap, module LocalMap),    *)
(* from beacons that are some time old.                                    *)
Measure ==
  /\ measured' \in measured + 1 .. now
  /\ UNCHANGED <<now, sent, net, receiver, entry, aged>>

(* DcDCell::setDeltaCreation: the age in units, rounded down, saturating.  *)
Encode(age) == IF age \div Unit > Saturation THEN Saturation ELSE age \div Unit

(* BaseDensityMapApp::buildHeader takes the next number, buildPayload the  *)
(* measurement.                                                            *)
Send ==
  /\ sent < MaxSent
  /\ Cardinality(net) < MaxFlight
  /\ sent' = sent + 1
  /\ net' = net \cup
       {[n |-> sent', created |-> now, delta |-> Encode(now - measured)]}
  /\ UNCHANGED <<now, measured, receiver, entry, aged>>

Lose ==
  /\ \E k \in net : net' = net \ {k}
  /\ UNCHANGED <<now, sender, receiver, entry, aged>>

-----------------------------------------------------------------------------
(* Around the wrap a large number is an old one ...                        *)
OldOne(seq) == seq >= M - W /\ meter.max < W

(* Fault: the window before the wrap is one number short.                  *)
WrappedShort(seq) == seq < W /\ meter.max > M - W

(* ... and a small number a new one.                                       *)
Wrapped(seq) == seq < W /\ meter.max >= M - W

(* AppRxInfoPerSource::checkOutOfOrder, after the first packet.            *)
CheckOutOfOrder(seq) ==
  \/ /\ seq > meter.max /\ ~OldOne(seq)
     /\ outOfOrder' = FALSE
     /\ meter' = [meter EXCEPT !.received = @ + 1, !.max = seq]
  \/ /\ seq <= meter.max /\ Wrapped(seq)
     /\ outOfOrder' = FALSE
     /\ meter' = [meter EXCEPT !.received = @ + 1, !.max = seq, !.cycle = @ + M]
  \/ /\ IF seq > meter.max THEN OldOne(seq) ELSE ~Wrapped(seq)
     /\ outOfOrder' = TRUE
     /\ meter' = [meter EXCEPT !.received = @ + 1]

(* ... and the first packet of a source.                                   *)
StartMeter(seq) ==
  /\ outOfOrder' = FALSE
  /\ meter' = [received |-> 1, init |-> seq, max |-> seq, cycle |-> 0]

(* AppRxInfoPerSource::calcPacketLoss: totalSentPacketCount ...            *)
TotalSent ==
  meter.cycle + (IF meter.max < meter.init
                 THEN M - 1 - meter.init + meter.max + 1
                 ELSE meter.max - meter.init + 1)

(* ... and packetsLossCount.                                               *)
LossCount ==
  IF TotalSent > meter.received THEN TotalSent - meter.received ELSE 0

-----------------------------------------------------------------------------
(* Fault: the age is subtracted from the time of reception.                *)
DecodeAtReceipt(k) == now - k.delta * Unit

(* DcDCell::getCreationTime                                                *)
Decode(k) == k.created - k.delta * Unit

(* BaseDensityMapApp::mergeReceivedMap: the entry is made if there is none *)
(* and takes the time of the measurement, whatever it had; its validity is *)
(* not touched.                                                            *)
MergeReceivedMap(k) ==
  entry' = [GetOrCreate(entry, now) EXCEPT !.measured = Decode(k)]

(* What the assumption on gaps lets through.                               *)
InReach(k) == meter.received > 0 => k.n - highest \in -Gap .. Gap

(* ApplicationPacketMeterIn::meterPacket on the way to the application,    *)
(* and the application's merge, if the cell is one of those in the packet. *)
Receive ==
  \E k \in net :
    /\ InReach(k)
    /\ net' = net \ {k}
    /\ IF meter.received = 0 THEN StartMeter(k.n % M)
                             ELSE CheckOutOfOrder(k.n % M)
    /\ MergeReceivedMap(k) \/ UNCHANGED entry
    /\ first' = IF meter.received = 0 THEN k.n ELSE first
    /\ highest' = IF k.n > highest THEN k.n ELSE highest
    /\ early' = IF k.n < first THEN early + 1 ELSE early
    /\ UNCHANGED <<now, sender, aged>>

(* TTLCellAgeHandler, called by the receiver's computeValues; it visits    *)
(* the cells once at a time.                                               *)
ComputeValues ==
  /\ ~aged
  /\ aged' = TRUE
  /\ entry' = IF Aged(entry, TTL, now) THEN Reset(entry) ELSE entry
  /\ UNCHANGED <<now, sender, net, receiver>>

Next == Tick \/ Measure \/ Send \/ Lose \/ Receive \/ ComputeValues

Spec == Init /\ [][Next]_vars

-----------------------------------------------------------------------------
TypeOK ==
  /\ now \in 0 .. Horizon
  /\ measured \in 0 .. now
  /\ sent \in 0 .. MaxSent
  /\ net \subseteq Packets
  /\ meter \in Meters
  /\ {outOfOrder, aged} \subseteq BOOLEAN
  /\ entry \in Entry
  /\ {first, highest, early} \subseteq 0 .. MaxSent

(* The meter counts what was really sent between the first and the newest  *)
(* packet, over any number of wraps, and loses sight only of packets that  *)
(* were overtaken by the first one.  As long as the newest number is below *)
(* the first one (the first branch of calcPacketLoss) it counts M - 1 too  *)
(* many: the wrap is in the cycles and in the number of the cycle.         *)
Missing == highest - first + 1 - (meter.received - early)
LossCounted ==
  /\ TypeOK
  /\ meter.received > 0 =>
       /\ IF meter.max < meter.init
          THEN TotalSent = highest - first + 1 + M - 1
          ELSE /\ TotalSent = highest - first + 1
               /\ LossCount \in Missing - early .. Missing
       /\ meter.max = highest % M

(* A measurement of the receiver's map goes back in time, by more than the *)
(* rounding of an age, only by a packet the meter has marked as out of     *)
(* order: mergeReceivedMap itself compares nothing.                        *)
MeasureTimeKept == [][
  entry.exists /\ meter' # meter /\ entry'.measured + Unit <= entry.measured
    => outOfOrder']_vars
=============================================================================
