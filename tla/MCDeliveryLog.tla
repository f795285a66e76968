---------------------------- MODULE MCDeliveryLog ----------------------------
(***************************************************************************)
(* Instances of DeliveryLog for TLC: three readings, the first on the last *)
(* day of a September, the others in October.                              *)
(***************************************************************************)
EXTENDS DeliveryLog

CONSTANTS sept30, oct10

DayOfThree == <<sept30, oct10, oct10>>
=============================================================================
