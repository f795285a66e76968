---------------------------- MODULE MCPlcPayload ----------------------------
(***************************************************************************)
(* PlcPayload for a TS device and for a TK device whose number has the     *)
(* bytes 2 and 3, with frames in which one word, or every word, holds      *)
(* bytes that look like STX and ETX, or large ones; the other words hold   *)
(* their numbers.  Listed are the machines of init_facilities_info, the TK *)
(* device, and every machine whose name a misplaced chunk might find in    *)
(* values, headers and function names, with all codes a device has.        *)
(***************************************************************************)
EXTENDS PlcPayload

MCValues == { <<2, 3, 0, 0>>, <<3, 2, 3, 2>>, <<2, 2, 3, 3>>, <<3, 3, 2, 2>>,
              <<255, 254, 253, 252>> }
MCFrames == { [w \in Words |-> IF w \in special THEN value ELSE <<w, 0, 0, 0>>] :
                special \in {{w} : w \in Words} \cup {Words}, value \in MCValues }
MCDevices == {[type |-> "TS", num |-> 3], [type |-> "TK", num |-> 515]}
MCMachines == {<<84, 83, 0, n>> : n \in {1, 2, 3, 8}} \cup {<<84, 75, 2, 3>>}
                \cup [1..4 -> {0, 2, 3, 86}]
MCCatalogue == MCMachines \X (1..19)
=============================================================================
