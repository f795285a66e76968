---------------------------- MODULE MCIngestServer ----------------------------
(***************************************************************************)
(* Instance of IngestServer for TLC: the machine ts is in the catalogue    *)
(* with both sensors, with one, or not at all.                             *)
(***************************************************************************)
EXTENDS IngestServer

CONSTANTS ts, press, temp

OneMachine == {<<ts, press>>, <<ts, temp>>}
NoTemp     == {<<ts, press>>}
MCGateways == {ts}
MCSensors  == {press, temp}
MCCatalogues == {OneMachine, NoTemp, {}}
=============================================================================
