------------------------------ MODULE MCReception ------------------------------
(* Model checking of Reception: a sequence number of six values and        *)
(* windows of two, so that a few packets wrap twice.                       *)
EXTENDS Reception
=============================================================================
