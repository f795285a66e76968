---------------------------- MODULE SendChannel ----------------------------
(***************************************************************************)
(* What the gateway's link promises to the PLC thread, without threads,    *)
(* timers or a modem: a stop-and-wait channel.  A sample is pending from   *)
(* the moment SendData accepts it until the acknowledgement of the server  *)
(* has been processed; a reset gives it up.                                *)
(***************************************************************************)
EXTENDS Integers

CONSTANT LastCode            \* last sensor code of the device type

Samples  == 1..LastCode
NoSample == 0

VARIABLES
  pending,                   \* the sample accepted and not yet acknowledged
  got                        \* the last sample the server has received

vars == <<pending, got>>

Init == pending = NoSample /\ got = NoSample

\* SendData in STATUS_STANDBY_SEND: a sample that is not the one just delivered.
Accept ==
  /\ pending = NoSample
  /\ pending' \in Samples \ {got}
  /\ UNCHANGED got

\* The payload reaches the server, once or again after a retry.
Deliver == pending # NoSample /\ got' = pending /\ UNCHANGED pending

\* The server's answer, STATUS_RECEIVE_DATA: only for what it has received.
Acknowledge == pending # NoSample /\ got = pending /\ pending' = NoSample /\ UNCHANGED got

\* A reset of the gateway.
GiveUp == pending' = NoSample /\ got' = NoSample

Next == Accept \/ Deliver \/ Acknowledge \/ GiveUp

Spec == Init /\ [][Next]_vars
=============================================================================
