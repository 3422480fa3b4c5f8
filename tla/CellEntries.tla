----------------------------- MODULE CellEntries -----------------------------
(***************************************************************************)
(* The measurements of a density map.  A cell of the map holds one entry   *)
(* per source node: a count, the time of the measurement and a validity    *)
(* flag (crownet/common/Entry.h).  The operators of this module are the    *)
(* operations the map applies to one entry; each returns the new entry.    *)
(*                                                                         *)
(* Time is a natural number of ticks, 0 being simtime_t::ZERO.  The        *)
(* received time, the distances and the resource sharing domain of an      *)
(* entry decide nothing in the modules that use this one and are left out. *)
(***************************************************************************)
EXTENDS Naturals

(* A cell that holds no entry of the source yet.                           *)
NoEntry == [exists |-> FALSE, count |-> 0, measured |-> 0, valid |-> FALSE]

Entry == [exists : BOOLEAN, count : Nat, measured : Nat, valid : BOOLEAN]

(* Cell::getOrCreate: a new entry counts nobody, is valid and is stamped   *)
(* with the current time.                                                  *)
GetOrCreate(e, now) ==
  IF e.exists THEN e
  ELSE [exists |-> TRUE, count |-> 0, measured |-> now, valid |-> TRUE]

(* Fault: the comparison of touch reversed.                                *)
TouchReversed(e, sent) ==
  [e EXCEPT !.measured = IF @ <= sent THEN @ ELSE sent,
            !.valid    = TRUE]

(* IEntry::touch: time never runs backwards, the entry becomes valid.      *)
Touch(e, sent) ==
  [e EXCEPT !.measured = IF @ <= sent THEN sent ELSE @,
            !.valid    = TRUE]

(* Fault: the sign of incrementCount swapped.                              *)
IncrementSwapped(e, k, sent) == Touch([e EXCEPT !.count = @ - k], sent)

(* IEntry::incrementCount and decrementCount (k nodes at once).            *)
Increment(e, k, sent) == Touch([e EXCEPT !.count = @ + k], sent)
Decrement(e, k, sent) == Touch([e EXCEPT !.count = @ - k], sent)

(* IEntry::reset(t) with t = simtime_t::ZERO.                              *)
Reset(e) == [e EXCEPT !.count = 0, !.measured = 0, !.valid = FALSE]

(* Fault: the age test without the time-to-live.                           *)
AgedAtOnce(e, ttl, now) == e.exists /\ ttl > 0 /\ now > e.measured

(* The age test of TTLCellAgeHandler::applyIfChanged; ttl = 0 disables it. *)
Aged(e, ttl, now) == e.exists /\ ttl > 0 /\ now > ttl + e.measured
=============================================================================
