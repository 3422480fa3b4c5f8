--------------------------- MODULE Reception_proofs ---------------------------
(***************************************************************************)
(* What module Reception promises, for any width of the sequence number    *)
(* and of the windows at its wrap, and any unit of the ages.               *)
(*                                                                         *)
(* The invariant has two parts.  MeterInv says that the meter's numbers    *)
(* are those of numbers that do not wrap, and counts: the packets under    *)
(* way from a stretch of numbers, with those received from it, are no more *)
(* than its numbers.  TimeInv says that the times a packet or an entry     *)
(* carries are no younger than the next packet's by a unit.                *)
(***************************************************************************)
EXTENDS Reception, FiniteSetTheorems, TLAPS

(* The packets of s with a number from a to b.                             *)
Between(s, a, b) == {k \in s : k.n \in a .. b}

NetInv ==
  /\ IsFiniteSet(net)
  /\ \A k \in net : k.n <= sent /\ k.created <= now /\ k.delta * Unit <= k.created
  /\ \A j, k \in net : j.n = k.n => j = k

(* The multiple of M at which the cycle of number n began.                 *)
Lap(n) == n - (n % M)

Unheard == first = 0 /\ highest = 0 /\ early = 0 /\ ~entry.exists

Heard ==
  /\ first \in 1 .. highest
  /\ highest <= sent
  /\ meter.init = first % M
  /\ meter.max = highest % M
  /\ meter.cycle = Lap(highest) - Lap(first)
  /\ \A k \in net : k.n # highest
  /\ Cardinality(Between(net, first, highest)) + meter.received - early
       <= highest - first + 1
  /\ Cardinality(Between(net, 1, first - 1)) + early <= first - 1

MeterInv == IF meter.received = 0 THEN Unheard ELSE Heard

(* A time that a packet sent from now on does not undercut by a unit.      *)
Behind(t) == t < measured + Unit \/ t <= now - Saturation * Unit

TimeInv ==
  /\ \A k \in net : Behind(Decode(k))
  /\ \A j, k \in net : j.n < k.n => Decode(j) < Decode(k) + Unit
  /\ entry.exists =>
       /\ Behind(entry.measured)
       /\ \A k \in net : k.n > highest => entry.measured < Decode(k) + Unit

Inv == TypeOK /\ NetInv /\ MeterInv /\ TimeInv

-----------------------------------------------------------------------------
(* Arithmetic of the wrap and of the ages.                                 *)

(* The constants are natural numbers.                                      *)
LEMMA ConstantTypes ==
  /\ {M, W, Unit, Saturation, TTL, Gap, Before} \subseteq Nat
  /\ {MaxSent, MaxFlight, Horizon} \subseteq Nat
  /\ M > 0 /\ Unit > 0 /\ Before <= MaxSent
  /\ Gap <= W /\ Gap < M - 2 * W + 1
BY ReceptionAssumption

(* A product with M of an integer other than 0 and 1 is out of every range *)
(* that two numbers of one or two neighboring cycles can span.             *)
LEMMA MultiplesApart ==
  ASSUME NEW d \in Int, NEW c \in Nat, c > 0
  PROVE  /\ d < 0 => c * d <= -c
         /\ d > 1 => c * d >= 2 * c
  OBVIOUS

(* Numbers that are less than M apart are in the same cycle or in two      *)
(* successive ones.                                                        *)
LEMMA NextCycle ==
  ASSUME NEW h \in Nat, NEW n \in Nat, h <= n, n - h < M
  PROVE  /\ h % M \in 0 .. M - 1
         /\ n % M \in 0 .. M - 1
         /\ n % M \in {(h % M) + (n - h), (h % M) + (n - h) - M}
<1>1. M \in Nat /\ M > 0
  BY ConstantTypes
<1> DEFINE p == h \div M
           q == n \div M
<1>2. p \in Nat /\ h = M * p + (h % M) /\ h % M \in 0 .. M - 1
  BY <1>1
<1>3. q \in Nat /\ n = M * q + (n % M) /\ n % M \in 0 .. M - 1
  BY <1>1
<1> DEFINE r == h % M
           s == n % M
<1> HIDE DEF p, q, r, s
<1>4. p \in Nat /\ q \in Nat /\ r \in 0 .. M - 1 /\ s \in 0 .. M - 1
  BY <1>2, <1>3 DEF r, s
<1>5. M * q - M * p = (n - h) + r - s
  BY <1>1, <1>2, <1>3, <1>4 DEF r, s
<1>6. M * (q - p) = (n - h) + r - s
  BY <1>1, <1>4, <1>5
<1>7. q - p \in {0, 1}
  <2>1. q - p \in Int
    BY <1>4
  <2>2. (n - h) + r - s \in (1 - M) .. (2 * M - 2)
    BY <1>1, <1>4
  <2>3. ~(q - p < 0) /\ ~(q - p > 1)
    BY <2>1, <2>2, <1>1, <1>6, MultiplesApart
  <2> QED BY <2>1, <2>3
<1>8. CASE q - p = 0
  BY <1>8, <1>1, <1>4, <1>6 DEF r, s
<1>9. CASE q - p = 1
  BY <1>9, <1>1, <1>4, <1>6 DEF r, s
<1> QED BY <1>4, <1>7, <1>8, <1>9 DEF r, s

(* An age is rounded down to a unit, unless it saturates.                  *)
LEMMA EncodeRoundsDown ==
  ASSUME NEW age \in Nat
  PROVE  /\ Encode(age) \in 0 .. Saturation
         /\ Encode(age) * Unit \in Nat
         /\ Encode(age) * Unit <= age
         /\ Encode(age) * Unit <= Saturation * Unit
         /\ age < Encode(age) * Unit + Unit \/ Encode(age) = Saturation
<1>1. Unit \in Nat /\ Unit > 0 /\ Saturation \in Nat
  BY ConstantTypes
<1> DEFINE u == age \div Unit
<1>2. u \in Nat /\ u * Unit <= age /\ age < u * Unit + Unit
  BY <1>1
<1> HIDE DEF u
<1>3. CASE u > Saturation
  <2>1. Encode(age) = Saturation
    BY <1>3 DEF Encode, u
  <2>2. Saturation * Unit <= u * Unit
    BY <1>1, <1>2, <1>3
  <2> QED BY <2>1, <2>2, <1>1, <1>2
<1>4. CASE ~(u > Saturation)
  <2>1. Encode(age) = u
    BY <1>4 DEF Encode, u
  <2>2. u * Unit <= Saturation * Unit
    BY <1>1, <1>2, <1>4
  <2> QED BY <2>1, <2>2, <1>1, <1>2, <1>4
<1> QED BY <1>3, <1>4

-----------------------------------------------------------------------------
(* Counting packets by their numbers.                                      *)

(* As many packets as numbers, if no two have the same.                    *)
LEMMA DistinctNumbers ==
  ASSUME NEW s, IsFiniteSet(s), \A j, k \in s : j.n = k.n => j = k,
         NEW a \in Nat, NEW b \in Int, a <= b + 1
  PROVE  /\ IsFiniteSet(Between(s, a, b))
         /\ Cardinality(Between(s, a, b)) \in Nat
         /\ Cardinality(Between(s, a, b)) <= b - a + 1
<1> DEFINE p == Between(s, a, b)
           f == [k \in p |-> k.n]
<1>1. p \subseteq s /\ \A k \in p : k.n \in a .. b
  BY DEF Between
<1>2. IsFiniteSet(p) /\ Cardinality(p) \in Nat
  BY <1>1, FS_Subset, FS_CardinalityType
<1>3. IsFiniteSet(a .. b) /\ Cardinality(a .. b) = b - a + 1
  <2>1. CASE a > b
    BY <2>1, FS_Interval
  <2>2. CASE ~(a > b)
    BY <2>2, FS_Interval
  <2> QED BY <2>1, <2>2
<1>4. f \in Injection(p, a .. b)
  <2>1. f \in [p -> a .. b]
    BY <1>1
  <2>2. \A j, k \in p : f[j] = f[k] => j = k
    BY <1>1
  <2> HIDE DEF f
  <2> QED BY <2>1, <2>2 DEF Injection, IsInjective
<1>5. Cardinality(p) <= Cardinality(a .. b)
  BY <1>3, <1>4, FS_Injection
<1> QED BY <1>2, <1>3, <1>5

(* A packet taken out is one less if its number is in the range.           *)
LEMMA TakenOut ==
  ASSUME NEW s, IsFiniteSet(s), NEW k \in s, NEW a \in Nat, NEW b \in Int
  PROVE  /\ Cardinality(Between(s \ {k}, a, b)) \in Nat
         /\ Cardinality(Between(s, a, b)) \in Nat
         /\ k.n \in a .. b => Cardinality(Between(s \ {k}, a, b))
                                = Cardinality(Between(s, a, b)) - 1
         /\ k.n \notin a .. b => Cardinality(Between(s \ {k}, a, b))
                                   = Cardinality(Between(s, a, b))
<1> DEFINE p == Between(s, a, b)
<1>1. IsFiniteSet(p) /\ Cardinality(p) \in Nat
  BY FS_Subset, FS_CardinalityType DEF Between
<1>2. Between(s \ {k}, a, b) = p \ {k}
  BY DEF Between
<1>3. k \in p <=> k.n \in a .. b
  BY DEF Between
<1> HIDE DEF p
<1>4. /\ Cardinality(p \ {k}) \in Nat
      /\ k \in p => Cardinality(p \ {k}) = Cardinality(p) - 1
      /\ k \notin p => Cardinality(p \ {k}) = Cardinality(p)
  BY <1>1, FS_RemoveElement, FS_CardinalityType
<1> QED BY <1>1, <1>2, <1>3, <1>4 DEF p

(* A packet added outside the range does not count.                        *)
LEMMA AddedOutside ==
  ASSUME NEW s, NEW k, NEW a, NEW b, k.n \notin a .. b
  PROVE  Between(s \cup {k}, a, b) = Between(s, a, b)
BY DEF Between

(* A range in two parts, whose upper number no packet has.                 *)
LEMMA RangeGrows ==
  ASSUME NEW s, IsFiniteSet(s), \A j, k \in s : j.n = k.n => j = k,
         NEW a \in Nat, NEW b \in Nat, NEW c \in Nat, b < c,
         \A k \in s : k.n # c
  PROVE  Cardinality(Between(s, a, c)) <= Cardinality(Between(s, a, b)) + (c - b - 1)
<1> DEFINE l == Between(s, a, b)
           u == Between(s, b + 1, c - 1)
<1>1. IsFiniteSet(l) /\ Cardinality(l) \in Nat
  BY FS_Subset, FS_CardinalityType DEF Between
<1>2. IsFiniteSet(u) /\ Cardinality(u) \in Nat /\ Cardinality(u) <= c - b - 1
  <2>1. b + 1 \in Nat /\ c - 1 \in Int /\ b + 1 <= (c - 1) + 1
    OBVIOUS
  <2>2. /\ IsFiniteSet(u) /\ Cardinality(u) \in Nat
        /\ Cardinality(u) <= (c - 1) - (b + 1) + 1
    BY <2>1, DistinctNumbers
  <2> HIDE DEF u
  <2> QED BY <2>2
<1>3. Between(s, a, c) \subseteq l \cup u
  BY DEF Between
<1>4. /\ IsFiniteSet(l \cup u)
      /\ Cardinality(l \cup u) = Cardinality(l) + Cardinality(u) - Cardinality(l \cap u)
      /\ Cardinality(l \cap u) \in Nat
  <2>1. IsFiniteSet(l \cap u)
    BY <1>1, FS_Subset
  <2> QED BY <2>1, <1>1, <1>2, FS_Union, FS_CardinalityType
<1>5. /\ Cardinality(Between(s, a, c)) <= Cardinality(l \cup u)
      /\ Cardinality(Between(s, a, c)) \in Nat
  BY <1>3, <1>4, FS_Subset, FS_CardinalityType
<1> HIDE DEF l, u
<1> QED BY <1>1, <1>2, <1>4, <1>5 DEF l

-----------------------------------------------------------------------------
(* The windows at the wrap.                                                *)

(* The windows tell a new number from an old one, on either side of the    *)
(* wrap, as long as numbers are within Gap of the newest: a gap no wider   *)
(* than a window, and windows that leave room for it between them.         *)
LEMMA WindowsTell ==
  ASSUME NEW n \in Nat, highest \in Nat, n # highest, n - highest \in -Gap .. Gap,
         meter.max = highest % M
  PROVE  /\ n > highest =>
              \/ /\ n % M > meter.max /\ ~OldOne(n % M)
                 /\ Lap(n) = Lap(highest)
              \/ /\ n % M <= meter.max /\ Wrapped(n % M)
                 /\ Lap(n) = Lap(highest) + M
         /\ n < highest =>
              IF n % M > meter.max THEN OldOne(n % M) ELSE ~Wrapped(n % M)
<1>1. /\ {M, W, Gap} \subseteq Nat
      /\ M > 0 /\ Gap <= W /\ Gap < M - 2 * W + 1
  BY ConstantTypes
<1>2. Gap < M
  BY <1>1
<1> DEFINE x == meter.max
           s == n % M
<1>3. ASSUME n > highest
      PROVE  \/ s > x /\ ~OldOne(s) /\ Lap(n) = Lap(highest)
             \/ s <= x /\ Wrapped(s) /\ Lap(n) = Lap(highest) + M
  <2>1. /\ x \in 0 .. M - 1 /\ s \in 0 .. M - 1
        /\ s \in {x + (n - highest), x + (n - highest) - M}
    BY <1>1, <1>2, <1>3, NextCycle
  <2>2. Lap(n) = n - s /\ Lap(highest) = highest - x
    BY DEF Lap
  <2>3. n - highest \in 1 .. Gap
    BY <1>1, <1>3
  <2> HIDE DEF x, s
  <2>4. CASE s = x + (n - highest)
    BY <2>1, <2>2, <2>3, <2>4, <1>1 DEF OldOne, x
  <2>5. CASE s = x + (n - highest) - M
    BY <2>1, <2>2, <2>3, <2>5, <1>1 DEF Wrapped, x
  <2> QED BY <2>1, <2>4, <2>5
<1>4. ASSUME n < highest
      PROVE  IF s > x THEN OldOne(s) ELSE ~Wrapped(s)
  <2>1. /\ x \in 0 .. M - 1 /\ s \in 0 .. M - 1
        /\ x \in {s + (highest - n), s + (highest - n) - M}
    BY <1>1, <1>2, <1>4, NextCycle
  <2>2. highest - n \in 1 .. Gap
    BY <1>1, <1>4
  <2> HIDE DEF x, s
  <2>3. CASE x = s + (highest - n)
    BY <2>1, <2>2, <2>3, <1>1 DEF Wrapped, x
  <2>4. CASE x = s + (highest - n) - M
    BY <2>1, <2>2, <2>4, <1>1 DEF OldOne, x
  <2> QED BY <2>1, <2>3, <2>4
<1> QED BY <1>3, <1>4

(* The meter stays a meter.                                                *)
LEMMA MeterTypes ==
  ASSUME meter \in Meters, NEW seq \in 0 .. M - 1, CheckOutOfOrder(seq)
  PROVE  meter' \in Meters /\ outOfOrder' \in BOOLEAN
<1>1. M \in Nat
  BY ConstantTypes
<1>2. outOfOrder' \in BOOLEAN
  BY DEF CheckOutOfOrder
<1>3. \/ meter' = [meter EXCEPT !.received = @ + 1, !.max = seq]
      \/ meter' = [meter EXCEPT !.received = @ + 1, !.max = seq, !.cycle = @ + M]
      \/ meter' = [meter EXCEPT !.received = @ + 1]
  BY DEF CheckOutOfOrder
<1>4. meter' \in Meters
  <2>1. CASE meter' = [meter EXCEPT !.received = @ + 1, !.max = seq]
    <3>1. meter' = [received |-> meter.received + 1, init |-> meter.init,
                    max |-> seq, cycle |-> meter.cycle]
      BY <2>1 DEF Meters
    <3> QED BY <3>1, <1>1 DEF Meters
  <2>2. CASE meter' = [meter EXCEPT !.received = @ + 1, !.max = seq, !.cycle = @ + M]
    <3>1. meter' = [received |-> meter.received + 1, init |-> meter.init,
                    max |-> seq, cycle |-> meter.cycle + M]
      BY <2>2 DEF Meters
    <3> QED BY <3>1, <1>1 DEF Meters
  <2>3. CASE meter' = [meter EXCEPT !.received = @ + 1]
    BY <2>3, <1>1 DEF Meters
  <2> QED BY <1>3, <2>1, <2>2, <2>3
<1> QED BY <1>2, <1>4

(* What a packet does to the meter of a sender that has been heard: it is  *)
(* late exactly if a higher number has been received.                      *)
LEMMA MeterFollows ==
  ASSUME meter \in Meters, highest \in Nat, Heard, NEW k \in net, k.n \in Nat,
         k.n - highest \in -Gap .. Gap, CheckOutOfOrder(k.n % M)
  PROVE  /\ outOfOrder' <=> k.n < highest
         /\ meter'.received = meter.received + 1
         /\ meter'.init = meter.init
         /\ k.n > highest => /\ meter'.max = k.n % M
                             /\ meter'.cycle = Lap(k.n) - Lap(first)
         /\ k.n < highest => /\ meter'.max = meter.max
                             /\ meter'.cycle = meter.cycle
<1>1. highest \in Nat /\ k.n # highest /\ meter.max = highest % M
  BY DEF Heard
<1>2. /\ meter.cycle = Lap(highest) - Lap(first)
      /\ M \in Nat /\ M > 0 /\ first \in Nat
  BY ConstantTypes DEF Heard
<1>3. /\ Lap(highest) \in Int /\ Lap(first) \in Int
      /\ highest % M \in 0 .. M - 1 /\ k.n % M \in 0 .. M - 1
  BY <1>1, <1>2 DEF Lap
<1>4. CASE k.n > highest
  <2>1. \/ /\ k.n % M > meter.max /\ ~OldOne(k.n % M)
           /\ Lap(k.n) = Lap(highest)
        \/ /\ k.n % M <= meter.max /\ Wrapped(k.n % M)
           /\ Lap(k.n) = Lap(highest) + M
    BY <1>1, <1>4, WindowsTell
  <2>2. CASE /\ k.n % M > meter.max /\ ~OldOne(k.n % M)
             /\ Lap(k.n) = Lap(highest)
    <3>1. /\ outOfOrder' = FALSE
          /\ meter' = [meter EXCEPT !.received = @ + 1, !.max = k.n % M]
      BY <2>2, <1>1, <1>3 DEF CheckOutOfOrder
    <3> QED BY <3>1, <2>2, <1>1, <1>2, <1>4 DEF Meters
  <2>3. CASE /\ k.n % M <= meter.max /\ Wrapped(k.n % M)
             /\ Lap(k.n) = Lap(highest) + M
    <3>1. /\ outOfOrder' = FALSE
          /\ meter' = [meter EXCEPT !.received = @ + 1, !.max = k.n % M,
                                    !.cycle = @ + M]
      BY <2>3, <1>1, <1>3 DEF CheckOutOfOrder
    <3>2. meter'.cycle = meter.cycle + M
      BY <3>1 DEF Meters
    <3> QED BY <3>1, <3>2, <2>3, <1>1, <1>2, <1>3, <1>4 DEF Meters
  <2> QED BY <2>1, <2>2, <2>3
<1>5. CASE k.n < highest
  <2>1. IF k.n % M > meter.max THEN OldOne(k.n % M) ELSE ~Wrapped(k.n % M)
    BY <1>1, <1>5, WindowsTell
  <2>2. outOfOrder' = TRUE /\ meter' = [meter EXCEPT !.received = @ + 1]
    BY <2>1, <1>1, <1>3 DEF CheckOutOfOrder
  <2> QED BY <2>2, <1>1, <1>5 DEF Meters
<1> QED BY <1>1, <1>4, <1>5

-----------------------------------------------------------------------------
(* Every action keeps the invariant.                                       *)

(* The packets carry natural numbers.                                      *)
LEMMA PacketTypes ==
  ASSUME TypeOK, NetInv, NEW k \in net
  PROVE  /\ k \in Packets
         /\ k.n \in Nat /\ k.n > 0
         /\ k.created \in Nat
         /\ k.delta \in 0 .. Saturation
         /\ Decode(k) \in Nat
<1>1. k \in Packets /\ k.delta * Unit <= k.created
  BY DEF TypeOK, NetInv
<1>2. k.n \in Nat /\ k.n > 0 /\ k.created \in Nat /\ k.delta \in Nat
  BY <1>1, ConstantTypes DEF Packets
<1>3. k.delta * Unit \in Nat
  BY <1>2, ConstantTypes
<1>4. Decode(k) \in Nat
  BY <1>1, <1>2, <1>3 DEF Decode
<1>5. k.delta \in 0 .. Saturation
  BY <1>1 DEF Packets
<1> QED BY <1>1, <1>2, <1>4, <1>5

(* Time only brings a time further behind.                                 *)
LEMMA BehindStays ==
  ASSUME {now, measured, now', measured'} \subseteq Nat,
         now <= now', measured <= measured', NEW t \in Nat, Behind(t)
  PROVE  Behind(t)'
<1>1. Unit \in Nat /\ Saturation * Unit \in Nat
  BY ConstantTypes
<1> QED BY <1>1 DEF Behind

(* Nothing has been heard and nothing is under way.                        *)
LEMMA InitInv == Init => Inv
<1> SUFFICES ASSUME Init PROVE Inv
  OBVIOUS
<1> USE DEF Init
<1>1. TypeOK
  <2>1. M \in Nat /\ M > 0 /\ Horizon \in Nat /\ Before \in 0 .. MaxSent /\ MaxSent \in Nat
    BY ConstantTypes
  <2>2. meter \in Meters
    BY <2>1 DEF Meters
  <2>3. entry \in Entry
    BY DEF Entry, NoEntry
  <2>4. /\ now \in 0 .. Horizon /\ measured \in 0 .. now /\ sent \in 0 .. MaxSent
        /\ {first, highest, early} \subseteq 0 .. MaxSent
    BY <2>1
  <2>5. net \subseteq Packets /\ {outOfOrder, aged} \subseteq BOOLEAN
    OBVIOUS
  <2> HIDE DEF Init
  <2> QED BY <2>2, <2>3, <2>4, <2>5 DEF TypeOK
<1>2. NetInv
  BY FS_EmptySet DEF NetInv
<1>3. MeterInv
  BY DEF MeterInv, Unheard, NoEntry
<1>4. TimeInv
  BY DEF TimeInv, NoEntry
<1> QED BY <1>1, <1>2, <1>3, <1>4 DEF Inv

(* Tick and Measure only move the clock and the time of the measurement.   *)
LEMMA ClockInv ==
  ASSUME Inv, Tick \/ Measure
  PROVE  Inv'
<1> USE DEF sender, receiver
<1>1. /\ {now, measured, now', measured'} \subseteq Nat
      /\ now <= now' /\ measured <= measured' /\ measured' <= now' /\ now' <= Horizon
  <2>1. now \in 0 .. Horizon /\ measured \in 0 .. now /\ Horizon \in Nat
    BY ConstantTypes DEF Inv, TypeOK
  <2>2. CASE Tick
    <3>1. now' = now + 1 /\ now < Horizon /\ measured' = measured
      BY <2>2 DEF Tick
    <3> QED BY <2>1, <3>1
  <2>3. CASE Measure
    <3>1. now' = now /\ measured' \in measured + 1 .. now
      BY <2>3 DEF Measure
    <3> QED BY <2>1, <3>1
  <2> QED BY <2>2, <2>3
<1>a. aged' \in BOOLEAN
  BY DEF Inv, TypeOK, Tick, Measure
<1>2. UNCHANGED <<sent, net, meter, outOfOrder, entry, first, highest, early>>
  BY DEF Tick, Measure
<1>3. TypeOK /\ NetInv /\ MeterInv /\ TimeInv
  BY DEF Inv
<1>4. TypeOK'
  <2>1. /\ now' \in 0 .. Horizon /\ measured' \in 0 .. now'
    BY <1>1, ConstantTypes
  <2> QED BY <2>1, <1>a, <1>2, <1>3 DEF TypeOK
<1>5. NetInv'
  <2>1. \A k \in net : k.created \in Nat
    BY <1>3, PacketTypes
  <2> QED BY <2>1, <1>1, <1>2, <1>3 DEF NetInv
<1>6. MeterInv'
  BY <1>2, <1>3 DEF MeterInv, Unheard, Heard, Between, Lap
<1>7. TimeInv'
  <2>1. \A k \in net : Behind(Decode(k))'
    BY <1>1, <1>3, PacketTypes, BehindStays DEF TimeInv, Decode
  <2>2. entry.exists => Behind(entry.measured)'
    <3>1. entry.measured \in Nat
      BY <1>3 DEF TypeOK, Entry
    <3> QED BY <3>1, <1>1, <1>2, <1>3, BehindStays DEF TimeInv, Behind
  <2> QED BY <2>1, <2>2, <1>2, <1>3 DEF TimeInv, Decode
<1> QED BY <1>4, <1>5, <1>6, <1>7 DEF Inv

(* A new packet has a number above all others, and a time that no earlier  *)
(* one exceeds by a unit.                                                  *)
LEMMA SendInv ==
  ASSUME Inv, Send
  PROVE  Inv'
<1> USE DEF sender, receiver
<1> DEFINE p == [n |-> sent + 1, created |-> now, delta |-> Encode(now - measured)]
<1>1. TypeOK /\ NetInv /\ MeterInv /\ TimeInv
  BY DEF Inv
<1>2. /\ sent' = sent + 1 /\ sent < MaxSent
      /\ net' = net \cup {p}
      /\ UNCHANGED <<now, measured, meter, outOfOrder, entry, aged, first, highest, early>>
  BY DEF Send
<1>3. /\ {now, measured, sent} \subseteq Nat /\ now - measured \in Nat
      /\ now \in 0 .. Horizon /\ sent \in 0 .. MaxSent /\ MaxSent \in Nat
  BY <1>1, ConstantTypes DEF TypeOK
<1>4. /\ p.n = sent + 1 /\ p.created = now /\ p.delta = Encode(now - measured)
  OBVIOUS
<1>5. /\ p.delta \in 0 .. Saturation
      /\ p.delta * Unit \in Nat
      /\ p.delta * Unit <= now - measured
      /\ p.delta * Unit <= Saturation * Unit
      /\ now - measured < p.delta * Unit + Unit \/ p.delta = Saturation
  BY <1>3, <1>4, EncodeRoundsDown
<1>6. p \in Packets
  BY <1>2, <1>3, <1>5 DEF Packets
<1>7. \A k \in net : k.n \in Nat /\ k.n < p.n /\ Decode(k) \in Nat
  BY <1>1, <1>3, PacketTypes DEF NetInv
<1> HIDE DEF p
<1>8. TypeOK'
  BY <1>1, <1>2, <1>3, <1>6 DEF TypeOK
<1>9. NetInv'
  <2>1. IsFiniteSet(net')
    BY <1>1, <1>2, FS_AddElement DEF NetInv
  <2>2. \A k \in net' : k.n <= sent' /\ k.created <= now' /\ k.delta * Unit <= k.created
    <3>1. p.n <= sent' /\ p.created <= now' /\ p.delta * Unit <= p.created
      BY <1>2, <1>3, <1>4, <1>5
    <3>2. \A k \in net : k.n <= sent'
      BY <1>2, <1>3, <1>4, <1>7
    <3> QED BY <3>1, <3>2, <1>1, <1>2 DEF NetInv
  <2>3. \A j, k \in net' : j.n = k.n => j = k
    <3>1. \A k \in net : k.n # p.n
      BY <1>3, <1>4, <1>7
    <3> QED BY <3>1, <1>1, <1>2 DEF NetInv
  <2> QED BY <2>1, <2>2, <2>3 DEF NetInv
<1>10. MeterInv'
  <2>1. CASE meter.received = 0
    BY <2>1, <1>1, <1>2 DEF MeterInv, Unheard
  <2>2. CASE meter.received # 0
    <3>1. Heard /\ {first, highest} \subseteq Nat
      BY <2>2, <1>1, ConstantTypes DEF MeterInv, TypeOK
    <3>2. p.n \notin first .. highest /\ p.n \notin 1 .. first - 1 /\ p.n # highest
      BY <3>1, <1>3, <1>4 DEF Heard
    <3>3. /\ Between(net', first, highest) = Between(net, first, highest)
          /\ Between(net', 1, first - 1) = Between(net, 1, first - 1)
      <4>1. Between(net \cup {p}, first, highest) = Between(net, first, highest)
        BY <3>2, AddedOutside
      <4>2. Between(net \cup {p}, 1, first - 1) = Between(net, 1, first - 1)
        BY <3>2, AddedOutside
      <4> QED BY <4>1, <4>2, <1>2
    <3>4. highest <= sent'
      BY <3>1, <1>2, <1>3 DEF Heard
    <3>5. \A k \in net' : k.n # highest
      BY <3>1, <3>2, <1>2 DEF Heard
    <3>6. Heard'
      BY <3>1, <3>3, <3>4, <3>5, <1>2 DEF Heard, Lap
    <3> QED BY <3>6, <2>2, <1>2 DEF MeterInv
  <2> QED BY <2>1, <2>2
<1>11. TimeInv'
  <2> DEFINE su == Saturation * Unit
             du == p.delta * Unit
  <2>1. Unit \in Nat /\ Unit > 0 /\ su \in Nat
    BY ConstantTypes
  <2>2. Decode(p) = now - du
    BY <1>4 DEF Decode
  <2>3. /\ du \in Nat /\ du <= now - measured /\ du <= su
        /\ now - measured < du + Unit \/ du = su
    BY <1>5
  <2>4. \A t : Behind(t) <=> (t < measured + Unit \/ t <= now - su)
    BY DEF Behind
  <2> HIDE DEF su, du
  <2>5. Behind(Decode(p))
    BY <2>1, <2>2, <2>3, <2>4, <1>3
  <2>6. \A t \in Nat : Behind(t) => t < Decode(p) + Unit
    BY <2>1, <2>2, <2>3, <2>4, <1>3
  <2>7. \A t : Behind(t)' <=> Behind(t)
    BY <1>2 DEF Behind
  <2>8. \A k \in net' : Behind(Decode(k))'
    BY <2>5, <2>7, <1>1, <1>2 DEF TimeInv, Decode
  <2>9. ASSUME NEW j \in net', NEW k \in net', j.n < k.n
        PROVE  Decode(j) < Decode(k) + Unit
    <3>1. CASE j \in net /\ k \in net
      BY <3>1, <2>9, <1>1 DEF TimeInv
    <3>2. CASE j \in net /\ k = p
      BY <3>2, <2>6, <1>1, <1>7 DEF TimeInv
    <3>3. ~(j = p)
      BY <2>9, <1>2, <1>3, <1>4, <1>7
    <3> QED BY <3>1, <3>2, <3>3, <1>2
  <2>10. ASSUME entry.exists
         PROVE  /\ Behind(entry.measured)
                /\ \A k \in net' : k.n > highest => entry.measured < Decode(k) + Unit
    <3>1. Behind(entry.measured) /\ entry.measured \in Nat
      BY <2>10, <1>1 DEF TimeInv, TypeOK, Entry
    <3>2. entry.measured < Decode(p) + Unit
      BY <3>1, <2>6
    <3> QED BY <2>10, <3>1, <3>2, <1>1, <1>2 DEF TimeInv
  <2>11. entry.exists => Behind(entry.measured)'
    BY <2>10, <1>2 DEF Behind
  <2> QED BY <2>8, <2>9, <2>10, <2>11, <1>2 DEF TimeInv, Decode
<1> QED BY <1>8, <1>9, <1>10, <1>11 DEF Inv

(* A packet less under way, whether it is lost or received.                *)
LEMMA PacketGone ==
  ASSUME TypeOK, NetInv, NEW k \in net, net' = net \ {k}, UNCHANGED <<now, sent>>
  PROVE  net' \subseteq Packets /\ NetInv'
<1>1. IsFiniteSet(net')
  BY FS_RemoveElement DEF NetInv
<1> QED BY <1>1 DEF TypeOK, NetInv

(* A lost packet only makes room in what is counted.                       *)
LEMMA LoseInv ==
  ASSUME Inv, Lose
  PROVE  Inv'
<1> USE DEF sender, receiver
<1>1. TypeOK /\ NetInv /\ MeterInv /\ TimeInv
  BY DEF Inv
<1>2. PICK k \in net : net' = net \ {k}
  BY DEF Lose
<1>3. UNCHANGED <<now, measured, sent, meter, outOfOrder, entry, aged, first, highest, early>>
  BY DEF Lose
<1>4. net' \subseteq Packets /\ NetInv'
  BY <1>1, <1>2, <1>3, PacketGone
<1>5. TypeOK'
  BY <1>1, <1>3, <1>4 DEF TypeOK
<1>6. MeterInv'
  <2>1. CASE meter.received = 0
    BY <2>1, <1>1, <1>3 DEF MeterInv, Unheard
  <2>2. CASE meter.received # 0
    <3>1. Heard /\ {first, highest, early} \subseteq Nat /\ meter.received \in Nat
      BY <2>2, <1>1, ConstantTypes DEF MeterInv, TypeOK, Meters
    <3> DEFINE c(s, a, b) == Cardinality(Between(s, a, b))
    <3>2. /\ c(net', first, highest) <= c(net, first, highest)
          /\ c(net', 1, first - 1) <= c(net, 1, first - 1)
          /\ c(net', first, highest) \in Nat /\ c(net, first, highest) \in Nat
          /\ c(net', 1, first - 1) \in Nat /\ c(net, 1, first - 1) \in Nat
      <4>1. ASSUME NEW a, NEW b
            PROVE  /\ c(net', a, b) <= c(net, a, b)
                   /\ c(net', a, b) \in Nat /\ c(net, a, b) \in Nat
        <5>1. IsFiniteSet(Between(net, a, b)) /\ Between(net', a, b) \subseteq Between(net, a, b)
          BY <1>1, <1>2, FS_Subset DEF NetInv, Between
        <5> QED BY <5>1, FS_Subset, FS_CardinalityType
      <4> QED BY <4>1
    <3>3. /\ c(net, first, highest) + meter.received - early <= highest - first + 1
          /\ c(net, 1, first - 1) + early <= first - 1
      BY <3>1 DEF Heard
    <3>4. /\ c(net', first, highest) + meter.received - early <= highest - first + 1
          /\ c(net', 1, first - 1) + early <= first - 1
      <4> HIDE DEF c
      <4> QED BY <3>1, <3>2, <3>3
    <3>5. Heard'
      BY <3>1, <3>4, <1>2, <1>3 DEF Heard, Lap
    <3> QED BY <3>5, <2>2, <1>3 DEF MeterInv
  <2> QED BY <2>1, <2>2
<1>7. TimeInv'
  BY <1>1, <1>2, <1>3 DEF TimeInv, Behind, Decode
<1> QED BY <1>4, <1>5, <1>6, <1>7 DEF Inv

(* An entry that is reset carries the time 0, which no packet undercuts.   *)
LEMMA ComputeValuesInv ==
  ASSUME Inv, ComputeValues
  PROVE  Inv'
<1> USE DEF sender, receiver
<1>1. TypeOK /\ NetInv /\ MeterInv /\ TimeInv
  BY DEF Inv
<1>2. /\ entry' = IF Aged(entry, TTL, now) THEN Reset(entry) ELSE entry
      /\ UNCHANGED <<now, measured, sent, net, meter, outOfOrder, first, highest, early>>
      /\ aged' = TRUE
  BY DEF ComputeValues
<1>3. /\ entry' \in Entry
      /\ entry'.exists = entry.exists
      /\ entry'.measured = 0 \/ entry'.measured = entry.measured
  BY <1>1, <1>2 DEF TypeOK, Entry, Reset
<1>4. TypeOK'
  BY <1>1, <1>2, <1>3 DEF TypeOK
<1>5. NetInv'
  BY <1>1, <1>2 DEF NetInv
<1>6. MeterInv'
  BY <1>1, <1>2, <1>3 DEF MeterInv, Unheard, Heard, Between, Lap
<1>7. TimeInv'
  <2>1. ASSUME entry.exists
        PROVE  /\ Behind(entry'.measured)
               /\ \A k \in net : k.n > highest => entry'.measured < Decode(k) + Unit
    <3>1. CASE entry'.measured = 0
      <4>1. Unit \in Nat /\ Unit > 0 /\ measured \in Nat
        BY <1>1, ConstantTypes DEF TypeOK
      <4>2. \A k \in net : Decode(k) \in Nat
        BY <1>1, PacketTypes
      <4> QED BY <3>1, <4>1, <4>2 DEF Behind
    <3>2. CASE entry'.measured = entry.measured
      BY <2>1, <3>2, <1>1 DEF TimeInv
    <3> QED BY <3>1, <3>2, <1>3
  <2> QED BY <2>1, <1>1, <1>2, <1>3 DEF TimeInv, Behind, Decode
<1> QED BY <1>4, <1>5, <1>6, <1>7 DEF Inv

(* The first packet of a sender: the range of numbers is its own.          *)
LEMMA FirstHeard ==
  ASSUME TypeOK, NetInv, MeterInv, meter.received = 0,
         NEW k \in net, StartMeter(k.n % M), net' = net \ {k}, sent' = sent,
         first' = k.n, highest' = k.n, early' = early
  PROVE  /\ meter' \in Meters /\ outOfOrder' \in BOOLEAN
         /\ meter'.received = 1
         /\ Heard'
<1>1. /\ k.n \in Nat /\ k.n > 0 /\ k.n <= sent
      /\ IsFiniteSet(net) /\ IsFiniteSet(net \ {k})
      /\ \A j \in net \ {k} : j.n # k.n
      /\ \A i, j \in net \ {k} : i.n = j.n => i = j
  BY PacketTypes, FS_RemoveElement DEF NetInv
<1>2. M \in Nat /\ M > 0 /\ k.n % M \in 0 .. M - 1 /\ early = 0
  BY <1>1, ConstantTypes DEF MeterInv, Unheard
<1>3. meter' = [received |-> 1, init |-> k.n % M, max |-> k.n % M, cycle |-> 0]
  BY DEF StartMeter
<1>4. meter' \in Meters
  BY <1>2, <1>3 DEF Meters
<1>5. Between(net \ {k}, k.n, k.n) = {}
  BY <1>1 DEF Between
<1>6. /\ Cardinality(Between(net \ {k}, 1, k.n - 1)) <= (k.n - 1) - 1 + 1
      /\ Cardinality(Between(net \ {k}, 1, k.n - 1)) \in Nat
  <2>1. k.n - 1 \in Int /\ 1 <= (k.n - 1) + 1
    BY <1>1
  <2>2. \A a \in Nat, b \in Int : a <= b + 1 =>
          /\ Cardinality(Between(net \ {k}, a, b)) \in Nat
          /\ Cardinality(Between(net \ {k}, a, b)) <= b - a + 1
    BY <1>1, DistinctNumbers
  <2> QED BY <2>1, <2>2
<1>7. meter'.cycle = Lap(k.n) - Lap(k.n)
  BY <1>1, <1>2, <1>3 DEF Lap
<1>8. Cardinality(Between(net', first', highest')) = 0
  BY <1>5, FS_EmptySet
<1>9. Cardinality(Between(net', 1, first' - 1)) + early' <= first' - 1
  BY <1>1, <1>2, <1>6
<1>10. /\ first' \in 1 .. highest' /\ highest' <= sent'
       /\ \A j \in net' : j.n # highest'
  BY <1>1
<1>11. meter'.received = 1 /\ meter'.init = first' % M /\ meter'.max = highest' % M
  BY <1>3
<1>12. Cardinality(Between(net', first', highest')) + meter'.received - early'
         <= highest' - first' + 1
  BY <1>1, <1>2, <1>8, <1>11
<1>13. outOfOrder' \in BOOLEAN
  BY DEF StartMeter
<1>14. Heard'
  BY <1>7, <1>9, <1>10, <1>11, <1>12 DEF Heard, Lap
<1> QED BY <1>4, <1>11, <1>13, <1>14

(* A later packet: it moves from those under way to those received, and a  *)
(* new highest number brings in the numbers up to it.                      *)
LEMMA NextHeard ==
  ASSUME TypeOK, NetInv, Heard, NEW k \in net,
         InReach(k), meter.received > 0, CheckOutOfOrder(k.n % M),
         net' = net \ {k}, sent' = sent, first' = first,
         highest' = (IF k.n > highest THEN k.n ELSE highest),
         early' = (IF k.n < first THEN early + 1 ELSE early)
  PROVE  /\ meter' \in Meters /\ outOfOrder' \in BOOLEAN
         /\ meter'.received = meter.received + 1
         /\ Heard'
<1> DEFINE net1 == net \ {k}
           c(s, a, b) == Cardinality(Between(s, a, b))
<1>1. /\ k.n \in Nat /\ k.n > 0 /\ k.n <= sent /\ k.n # highest
      /\ {first, highest, early} \subseteq Nat /\ meter.received \in Nat
      /\ first > 0 /\ first <= highest /\ highest <= sent
      /\ meter \in Meters
  BY PacketTypes, ConstantTypes DEF TypeOK, NetInv, Meters, Heard
<1>2. /\ IsFiniteSet(net) /\ IsFiniteSet(net1)
      /\ \A j \in net1 : j.n # k.n
      /\ \A i, j \in net1 : i.n = j.n => i = j
  BY FS_RemoveElement DEF NetInv
<1>3. meter' \in Meters /\ outOfOrder' \in BOOLEAN
  <2>1. k.n % M \in 0 .. M - 1
    BY <1>1, ConstantTypes
  <2> QED BY <2>1, <1>1, MeterTypes
<1>4. /\ meter'.received = meter.received + 1
      /\ meter'.init = meter.init
      /\ k.n > highest => /\ meter'.max = k.n % M
                          /\ meter'.cycle = Lap(k.n) - Lap(first)
      /\ k.n < highest => /\ meter'.max = meter.max
                          /\ meter'.cycle = meter.cycle
  BY <1>1, MeterFollows DEF InReach
<1>5. ASSUME NEW a \in Nat, NEW b \in Int
      PROVE  /\ c(net1, a, b) \in Nat /\ c(net, a, b) \in Nat
             /\ k.n \in a .. b => c(net1, a, b) = c(net, a, b) - 1
             /\ k.n \notin a .. b => c(net1, a, b) = c(net, a, b)
  <2>1. IsFiniteSet(net)
    BY <1>2
  <2> QED BY <2>1, TakenOut
<1>6. /\ c(net, first, highest) + meter.received - early <= highest - first + 1
      /\ c(net, 1, first - 1) + early <= first - 1
  BY DEF Heard
<1>7. /\ c(net1, first, highest) \in Nat /\ c(net, first, highest) \in Nat
      /\ k.n \in first .. highest => c(net1, first, highest) = c(net, first, highest) - 1
      /\ k.n \notin first .. highest => c(net1, first, highest) = c(net, first, highest)
      /\ c(net1, 1, first - 1) \in Nat /\ c(net, 1, first - 1) \in Nat
      /\ k.n \in 1 .. first - 1 => c(net1, 1, first - 1) = c(net, 1, first - 1) - 1
      /\ k.n \notin 1 .. first - 1 => c(net1, 1, first - 1) = c(net, 1, first - 1)
  <2>1. first \in Nat /\ highest \in Int /\ 1 \in Nat /\ first - 1 \in Int
    BY <1>1
  <2> HIDE DEF c, net1
  <2> QED BY <2>1, <1>5
<1>8. k.n > highest => c(net1, first, k.n) <= c(net1, first, highest) + (k.n - highest - 1)
  BY <1>1, <1>2, RangeGrows
<1> HIDE DEF c, net1
<1>a. c(net1, first, k.n) \in Nat
  <2>1. first \in Nat /\ k.n \in Int
    BY <1>1
  <2> QED BY <2>1, <1>5
<1>9. c(net1, first, highest') + (meter.received + 1) - early' <= highest' - first + 1
  <2>1. CASE k.n > highest
    <3>1. highest' = k.n /\ early' = early
      BY <2>1, <1>1
    <3>2. c(net1, first, k.n) + (meter.received + 1) - early <= k.n - first + 1
      BY <2>1, <1>1, <1>6, <1>7, <1>8, <1>a
    <3> QED BY <3>1, <3>2
  <2>2. CASE k.n < first
    BY <2>2, <1>1, <1>6, <1>7
  <2>3. CASE ~(k.n > highest) /\ ~(k.n < first)
    BY <2>3, <1>1, <1>6, <1>7
  <2> QED BY <2>1, <2>2, <2>3
<1>10. c(net1, 1, first - 1) + early' <= first - 1
  <2>1. CASE k.n < first
    BY <2>1, <1>1, <1>6, <1>7
  <2>2. CASE ~(k.n < first)
    BY <2>2, <1>1, <1>6, <1>7
  <2> QED BY <2>1, <2>2
<1>11. /\ first' \in 1 .. highest' /\ highest' <= sent'
       /\ meter'.init = first' % M
       /\ meter'.max = highest' % M
       /\ meter'.cycle = Lap(highest') - Lap(first')
  <2>1. CASE k.n > highest
    BY <2>1, <1>1, <1>4 DEF Heard
  <2>2. CASE k.n < highest
    BY <2>2, <1>1, <1>4 DEF Heard
  <2> QED BY <2>1, <2>2, <1>1
<1>12. \A j \in net' : j.n # highest'
  BY <1>2 DEF Heard, net1
<1>13. Heard'
  BY <1>4, <1>9, <1>10, <1>11, <1>12 DEF Heard, Lap, c, net1
<1> QED BY <1>3, <1>4, <1>13

(* A packet the map takes over is behind every later one: the packets      *)
(* under way with a number above it were sent after it.                    *)
LEMMA ReceiveInv ==
  ASSUME Inv, Receive
  PROVE  Inv'
<1> USE DEF sender, receiver
<1>1. TypeOK /\ NetInv /\ MeterInv /\ TimeInv
  BY DEF Inv
<1>2. PICK k \in net :
        /\ InReach(k)
        /\ net' = net \ {k}
        /\ IF meter.received = 0 THEN StartMeter(k.n % M)
                                 ELSE CheckOutOfOrder(k.n % M)
        /\ MergeReceivedMap(k) \/ UNCHANGED entry
        /\ first' = (IF meter.received = 0 THEN k.n ELSE first)
        /\ highest' = (IF k.n > highest THEN k.n ELSE highest)
        /\ early' = (IF k.n < first THEN early + 1 ELSE early)
        /\ UNCHANGED <<now, measured, sent, aged>>
  BY DEF Receive
<1>3. /\ {highest, first, early} \subseteq Nat
      /\ meter.received \in Nat
      /\ k.n \in Nat /\ k.n > 0 /\ Decode(k) \in Nat
      /\ now \in Nat
  BY <1>1, PacketTypes, ConstantTypes DEF TypeOK, Meters
<1>4. net' \subseteq Packets /\ NetInv'
  BY <1>1, <1>2, PacketGone
<1>5. /\ meter' \in Meters /\ outOfOrder' \in BOOLEAN
      /\ meter'.received = meter.received + 1
      /\ Heard'
  <2>1. CASE meter.received = 0
    <3>1. highest = 0 /\ first = 0
      BY <2>1, <1>1 DEF MeterInv, Unheard
    <3>2. StartMeter(k.n % M) /\ first' = k.n /\ highest' = k.n /\ early' = early
      BY <2>1, <3>1, <1>2, <1>3
    <3>3. net' = net \ {k} /\ sent' = sent
      BY <1>2
    <3>4. /\ meter' \in Meters /\ outOfOrder' \in BOOLEAN
          /\ meter'.received = 1
          /\ Heard'
      BY <2>1, <3>2, <3>3, <1>1, FirstHeard
    <3> QED BY <2>1, <3>4
  <2>2. CASE meter.received # 0
    <3>1. Heard /\ meter.received > 0
      BY <2>2, <1>1, <1>3 DEF MeterInv
    <3> QED BY <2>2, <3>1, <1>1, <1>2, NextHeard
  <2> QED BY <2>1, <2>2
<1>6. /\ entry' \in Entry
      /\ entry' = entry \/ (entry'.exists /\ entry'.measured = Decode(k))
  <2>1. GetOrCreate(entry, now) \in Entry /\ GetOrCreate(entry, now).exists
    BY <1>1, <1>3 DEF TypeOK, Entry, GetOrCreate
  <2>2. CASE MergeReceivedMap(k)
    BY <2>1, <2>2, <1>3 DEF MergeReceivedMap, Entry
  <2>3. CASE UNCHANGED entry
    BY <2>3, <1>1 DEF TypeOK
  <2> QED BY <2>2, <2>3, <1>2
<1>7. MeterInv'
  BY <1>3, <1>5 DEF MeterInv
<1>8. TypeOK'
  <2>1. {first', highest', early'} \subseteq 0 .. MaxSent
    <3>1. MaxSent \in Nat /\ sent' \in 0 .. MaxSent
      BY <1>1, <1>2, ConstantTypes DEF TypeOK
    <3>2. {first', highest', early'} \subseteq Nat
      BY <1>2, <1>3
    <3>3. first' <= highest' /\ highest' <= sent'
      BY <1>5, <3>2 DEF Heard
    <3>4. /\ Cardinality(Between(net', 1, first' - 1)) \in Nat
          /\ Cardinality(Between(net', 1, first' - 1)) + early' <= first' - 1
      <4>1. IsFiniteSet(Between(net', 1, first' - 1))
        BY <1>4, FS_Subset DEF NetInv, Between
      <4>2. Cardinality(Between(net', 1, first' - 1)) \in Nat
        BY <4>1, FS_CardinalityType
      <4>3. Cardinality(Between(net', 1, first' - 1)) + early' <= first' - 1
        BY <1>5 DEF Heard
      <4> QED BY <4>2, <4>3
    <3> QED BY <3>1, <3>2, <3>3, <3>4
  <2> QED BY <2>1, <1>1, <1>2, <1>4, <1>5, <1>6 DEF TypeOK
<1>9. TimeInv'
  <2>1. highest' \in Nat /\ highest <= highest' /\ k.n <= highest'
    BY <1>2, <1>3
  <2>2. \A j \in net : j.n \in Nat
    BY <1>1, PacketTypes
  <2>3. ASSUME entry'.exists
        PROVE  /\ Behind(entry'.measured)
               /\ \A j \in net' : j.n > highest' => entry'.measured < Decode(j) + Unit
    <3>1. CASE entry' = entry
      BY <2>1, <2>2, <2>3, <3>1, <1>1, <1>2, <1>3 DEF TimeInv
    <3>2. CASE entry'.measured = Decode(k)
      BY <2>1, <2>2, <3>2, <1>1, <1>2, <1>3 DEF TimeInv
    <3> QED BY <3>1, <3>2, <1>6
  <2>4. \A t : Behind(t)' <=> Behind(t)
    BY <1>2 DEF Behind
  <2>5. entry'.exists => Behind(entry.measured)'
    BY <2>3, <1>2 DEF Behind
  <2>6. \A j \in net' : Behind(Decode(j))'
    BY <2>4, <1>1, <1>2 DEF TimeInv, Decode
  <2> QED BY <2>3, <2>5, <2>6, <1>1, <1>2 DEF TimeInv, Decode
<1> QED BY <1>4, <1>7, <1>8, <1>9 DEF Inv

(* A step that changes nothing.                                            *)
LEMMA StutterInv ==
  ASSUME Inv, UNCHANGED vars
  PROVE  Inv'
BY DEF Inv, TypeOK, NetInv, MeterInv, TimeInv, Unheard, Heard, Between, Lap,
       Behind, Decode, vars, sender, receiver

(* Every step.                                                             *)
LEMMA StepInv == Inv /\ [Next]_vars => Inv'
<1> SUFFICES ASSUME Inv, [Next]_vars PROVE Inv'
  OBVIOUS
<1> QED BY ClockInv, SendInv, LoseInv, ReceiveInv, ComputeValuesInv, StutterInv DEF Next

-----------------------------------------------------------------------------
(* The theorems.                                                           *)

(* The meter's wrapping numbers, the packets under way and the times they  *)
(* carry stay as Inv relates them.                                         *)
THEOREM Invariance == Spec => []Inv
BY InitInv, StepInv, PTL DEF Spec

(* What calcPacketLoss computes from numbers that wrap, if they do as      *)
(* MeterInv says.                                                          *)
LEMMA LossFollows ==
  ASSUME Inv
  PROVE  LossCounted
<1>1. TypeOK /\ NetInv /\ MeterInv
  BY DEF Inv
<1> SUFFICES ASSUME meter.received > 0
             PROVE  /\ IF meter.max < meter.init
                       THEN TotalSent = highest - first + 1 + M - 1
                       ELSE /\ TotalSent = highest - first + 1
                            /\ LossCount \in Missing - early .. Missing
                    /\ meter.max = highest % M
  BY <1>1 DEF LossCounted
<1>2. /\ Heard
      /\ {first, highest, early} \subseteq Nat /\ meter.received \in Nat
      /\ M \in Nat /\ M > 0
  BY <1>1, ConstantTypes DEF MeterInv, TypeOK, Meters
<1> DEFINE i == meter.init
           x == meter.max
<1>3. /\ i \in Int /\ x \in Int
      /\ meter.cycle = highest - x - (first - i)
  BY <1>2 DEF Heard, Lap
<1>4. x = highest % M
  BY <1>2 DEF Heard
<1>5. meter.received - early <= highest - first + 1
  <2>1. IsFiniteSet(Between(net, first, highest))
    BY <1>1, FS_Subset DEF NetInv, Between
  <2>2. Cardinality(Between(net, first, highest)) \in Nat
    BY <2>1, FS_CardinalityType
  <2> QED BY <2>2, <1>2 DEF Heard
<1> HIDE DEF i, x
<1>6. CASE x < i
  <2>1. TotalSent = meter.cycle + (M - 1 - i + x + 1)
    BY <1>6 DEF TotalSent, i, x
  <2>2. TotalSent = highest - first + 1 + M - 1
    BY <2>1, <1>2, <1>3
  <2> QED BY <2>2, <1>4, <1>6 DEF i, x
<1>7. CASE ~(x < i)
  <2>1. TotalSent = meter.cycle + (x - i + 1)
    BY <1>7 DEF TotalSent, i, x
  <2>2. TotalSent = highest - first + 1
    BY <2>1, <1>2, <1>3
  <2>3. Missing = highest - first + 1 - (meter.received - early)
    BY DEF Missing
  <2>4. LossCount = IF TotalSent > meter.received THEN TotalSent - meter.received ELSE 0
    BY DEF LossCount
  <2> HIDE DEF Missing, LossCount, TotalSent
  <2>5. LossCount \in Missing - early .. Missing
    BY <2>2, <2>3, <2>4, <1>2, <1>5
  <2> QED BY <2>2, <2>5, <1>4, <1>7 DEF i, x
<1> QED BY <1>6, <1>7

(* The meter's count of sent packets is exact over any number of wraps,    *)
(* for any width of the number and of the windows, as long as reordering   *)
(* stays within a window; the loss it reports misses at most the packets   *)
(* that were overtaken by the first one (calcPacketLoss).                  *)
THEOREM LossCountedHolds == Spec => []LossCounted
BY Invariance, LossFollows, PTL

(* The map takes an older measurement over only from a packet that the     *)
(* meter has marked as out of order (mergeReceivedMap, checkOutOfOrder).   *)
THEOREM MeasureTimeKeptHolds == Spec => MeasureTimeKept
<1>1. ASSUME Inv, [Next]_vars
      PROVE  [entry.exists /\ meter' # meter /\ entry'.measured + Unit <= entry.measured
                => outOfOrder']_vars
  <2> SUFFICES ASSUME Next, entry.exists, meter' # meter,
                      entry'.measured + Unit <= entry.measured
               PROVE  outOfOrder'
    BY <1>1
  <2>1. TypeOK /\ NetInv /\ MeterInv /\ TimeInv
    BY <1>1 DEF Inv
  <2>2. Receive
    BY DEF Next, Tick, Measure, Send, Lose, ComputeValues, receiver
  <2>3. PICK k \in net :
          /\ InReach(k)
          /\ IF meter.received = 0 THEN StartMeter(k.n % M)
                                   ELSE CheckOutOfOrder(k.n % M)
          /\ MergeReceivedMap(k) \/ UNCHANGED entry
    BY <2>2 DEF Receive
  <2>4. meter.received # 0 /\ meter.received \in Nat /\ Heard
    BY <2>1 DEF MeterInv, Unheard, TypeOK, Meters
  <2>5. /\ entry.measured \in Nat /\ Decode(k) \in Nat
        /\ k.n \in Nat /\ highest \in Nat /\ Unit \in Nat /\ Unit > 0
    BY <2>1, PacketTypes, ConstantTypes DEF TypeOK, Entry
  <2>6. entry'.measured = Decode(k)
    <3>1. entry' # entry
      BY <2>5
    <3> QED BY <3>1, <2>1, <2>3 DEF MergeReceivedMap, GetOrCreate, TypeOK, Entry
  <2>7. ~(k.n > highest)
    BY <2>1, <2>5, <2>6 DEF TimeInv
  <2>8. k.n < highest
    BY <2>4, <2>5, <2>7 DEF Heard
  <2> QED BY <2>1, <2>3, <2>4, <2>5, <2>8, MeterFollows DEF InReach, TypeOK
<1> QED BY <1>1, Invariance, PTL DEF Spec, MeasureTimeKept

(* A packet is marked as out of order exactly if a packet with a higher    *)
(* number has been received before it: the windows at the wrap never take  *)
(* an old number for a new one or a new one for an old one                 *)
(* (checkOutOfOrder).                                                      *)
OrderTold == [][\A k \in net \ net' :
                  meter' # meter => (outOfOrder' <=> k.n < highest)]_vars

(* ... for any numbers, windows and gaps that the assumption allows.       *)
THEOREM OrderToldHolds == Spec => OrderTold
<1>1. ASSUME Inv, [Next]_vars
      PROVE  [\A k \in net \ net' :
                meter' # meter => (outOfOrder' <=> k.n < highest)]_vars
  <2> SUFFICES ASSUME Next, NEW k \in net \ net', meter' # meter
               PROVE  outOfOrder' <=> k.n < highest
    BY <1>1
  <2>1. TypeOK /\ NetInv /\ MeterInv
    BY <1>1 DEF Inv
  <2>2. Receive
    BY DEF Next, Tick, Measure, Send, Lose, ComputeValues, receiver
  <2>3. /\ InReach(k)
        /\ IF meter.received = 0 THEN StartMeter(k.n % M)
                                 ELSE CheckOutOfOrder(k.n % M)
    BY <2>2 DEF Receive
  <2>4. k.n \in Nat /\ k.n > 0 /\ highest \in Nat /\ meter.received \in Nat
    BY <2>1, PacketTypes, ConstantTypes DEF TypeOK, Meters
  <2>5. CASE meter.received = 0
    BY <2>1, <2>3, <2>4, <2>5 DEF MeterInv, Unheard, StartMeter
  <2>6. CASE meter.received # 0
    BY <2>1, <2>3, <2>4, <2>6, MeterFollows DEF MeterInv, InReach, TypeOK
  <2> QED BY <2>5, <2>6
<1> QED BY <1>1, Invariance, PTL DEF Spec, OrderTold
=============================================================================
