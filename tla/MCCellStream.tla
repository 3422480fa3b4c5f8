---------------------------- MODULE MCCellStream ----------------------------
(* Model checking of CellStream with amounts of data that suit the sizes   *)
(* of the packets.                                                         *)
EXTENDS CellStream

ASSUME FitAssumption == AmountsFit
=============================================================================
