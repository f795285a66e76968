---------------------------- MODULE MCGatewayLink ----------------------------
(***************************************************************************)
(* Instances of GatewayLink for TLC: the sets of faults of the runs.       *)
(***************************************************************************)
EXTENDS GatewayUnpaced

\* What the server, the modem and the air do after a payload has been accepted,
\* and the loss of the connection: the code recovers from all of it.
RecoverableFaults == {"noack", "refuse", "garbled", "sendfail", "drop"}

\* The same and a modem that refuses a command or leaves it unanswered.
AnswerFaults == RecoverableFaults \cup {"silent", "error"}

OneSilence == {"silent"}

\* A payload that fails and threads or a modem so late that a timer comes first.
LateFaults == {"sendfail", "late"}

\* All but a timer that comes too late.
PunctualFaults == FaultKinds \ {"late"}
=============================================================================
