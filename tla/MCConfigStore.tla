---------------------------- MODULE MCConfigStore ----------------------------
(***************************************************************************)
(* Instances of ConfigStore for TLC: a text, a longer text that begins     *)
(* with it, and the empty one.                                             *)
(***************************************************************************)
EXTENDS ConfigStore

CONSTANTS net, network, none

Texts3   == {net, network, none}
Prefixes == {<<v, v>> : v \in Texts3} \cup {<<none, v>> : v \in Texts3 \cup {Blank}}
              \cup {<<net, network>>}
Factory  == [f \in Fields |-> IF f = "apSSID" THEN network ELSE net]
=============================================================================
