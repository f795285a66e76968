--------------------------- MODULE GatewayUnpaced ---------------------------
(***************************************************************************)
(* Why no reset is pending when the gateway is ready for a sample, however *)
(* the threads, the lines of the modem and its faults interleave, as long  *)
(* as no timer comes too late.                                             *)
(*                                                                         *)
(* Ready again after the response timer was started means acknowledged,    *)
(* which stops the timer, or connected anew.  So the argument is about two *)
(* things the driver may be doing when the manager has set its flag aside  *)
(* for a retry: carrying a payload, or bringing the connection back.       *)
(* While the timer runs and the flag is off, it is never the second.       *)
(***************************************************************************)
EXTENDS GatewayPhases

\* No timer comes too late.
Punctual == "late" \notin Faults

TcpStatuses     == {"TCP_CONNECT", "TCP_DISCONNECT"}
PayloadStatuses == DataStatuses \cup {"REFUSE_DATA", "NONE"}

\* What the modem says to a command, and what it says once it is connected.
CommandLines == Lines \ ({"SEND_OK", "SEND_FAIL", "PROMPT"} \cup ServerLines)
DataLines    == {"OK", "ERROR", "SEND_OK", "SEND_FAIL", "PROMPT", "OTHER"} \cup ServerLines

\* All that is unread is in S.
Hear(S) == fifo \in Seq(S) /\ line \in Seq(S)

OnlyOther   == Hear({"OTHER"})
NoOk        == Hear(DataLines \ {"OK", "SEND_OK"})
CommandTalk == Hear(CommandLines)
DataTalk    == Hear(DataLines)

\* Nothing that matters is unread or not passed on; nothing is about to be written.
Heard == OnlyOther /\ response = "MAX"
Quiet == Heard /\ (Sending => txBuf = "NONE")

-----------------------------------------------------------------------------
(* The driver *)

\* What the driver has not read it will read, and it reports no timeout itself.
ReaderOK ==
  /\ wifiEv.blocked => wifiEv.latch = {} /\ wifiEv.set = {}
  /\ fifo # <<>> => wifiPc = "read" \/ "RX" \in wifiEv.latch \cup wifiEv.set
  /\ wifiPc = "read" => ~wifiEv.blocked
  /\ response # "MAX" => wifiPc = "read" /\ response # "TIMEOUT"

\* After a delay of the manager everything has been read and written.
AfterDelay == netPc # "recv" /\ "delay" \notin armed => Quiet

-----------------------------------------------------------------------------
(* Before the first connection: one command at a time *)

\* An answer of the modem is the last that matters of what it says.
Final(l) == \A i, j \in DOMAIN l : l[i] \in {"OK", "ERROR"} /\ i < j => l[j] = "OTHER"

JoinCommand == netPc = "cmd" /\ mq = <<>> /\ ~Sending /\ Heard /\ "wifi" \notin armed
JoinWrite   == /\ netPc = "recv" /\ mq = <<>> /\ Heard /\ "wifi" \notin armed
               /\ txBuf \in WifiCommands /\ wifiStatus = CommandStatus(txBuf)
               /\ "TX" \notin wifiEv.latch \cap wifiEv.set
JoinAnswer  == /\ netPc = "recv" /\ mq = <<>> /\ ~Sending /\ Final(Said)
               /\ response # "MAX" => OnlyOther
               /\ txBuf # "NONE" => Heard
JoinPosted  == /\ netPc = "recv" /\ mq = <<"wifi">> /\ ~Sending /\ Heard
               /\ "wifi" \notin armed /\ slot.stat = wifiStatus
               /\ slot.msg = "OK" => txBuf = "NONE"

Joining ==
  /\ ~tcpOn /\ armed \subseteq {"delay", "wifi"}
  /\ wifiStatus \notin DataStatuses \cup {"REFUSE_DATA"}
  /\ slot.stat \notin DataStatuses \cup {"REFUSE_DATA"}
  /\ txBuf \in WifiCommands \cup {"NONE"} /\ CommandTalk
  /\ JoinCommand \/ JoinWrite \/ JoinAnswer \/ JoinPosted \/ netPc = "reboot"

-----------------------------------------------------------------------------
(* After it: payloads, and the connection given up and brought back *)

JoinedTypes ==
  /\ wifiStatus \in PayloadStatuses \cup TcpStatuses
  /\ slot.stat \in PayloadStatuses \cup TcpStatuses
  /\ netPc = "cmd" => netCmd \in TcpStatuses
  /\ txBuf \in TcpStatuses \cup {"CIPSEND", "DATA", "NONE"}
  /\ DataTalk

\* The status and the buffer agree on what is written.
StatusOfBuffer ==
  /\ wifiStatus \in TcpStatuses => txBuf \in TcpStatuses \cup {"NONE"}
  /\ wifiStatus = "SEND_DATA" => txBuf \in {"DATA", "NONE"}

\* The connection is being brought back, or given up.
Reconnecting == netPc = "cmd" \/ wifiStatus \in TcpStatuses \/ txBuf \in TcpStatuses

\* Nothing but a payload is on its way, or reported.
Carrying ==
  /\ netPc # "cmd" /\ txBuf \notin TcpStatuses
  /\ wifiStatus \in PayloadStatuses /\ slot.stat \in PayloadStatuses

\* Nothing that is still to come reports a payload sent, or connects.
NoOkToCome == ~prompt /\ response # "OK" /\ NoOk
Harmless   == (Quiet /\ "send" \notin armed) \/ NoOkToCome

Slot(msg, stat) == slot.msg = msg /\ slot.stat = stat
SlotTimeout     == slot.msg = "TIMEOUT" /\ "send" \notin armed

\* A modem that still answers a TCP command is not waiting for a payload.
PromptOver == wifiStatus \in TcpStatuses /\ ~Heard => ~prompt

\* No payload is reported as sent while the connection is brought back.
SentOK == Slot("OK", "SEND_DATA") => ~Reconnecting

\* A command that replaces a payload comes when the payload has had its answer.
ReplacedOK ==
  netPc = "cmd" /\ wifiStatus = "SEND_DATA" =>
    Harmless \/ (Quiet /\ netCmd = "TCP_DISCONNECT")

\* A payload on its way next to a report about something else.
ReportOnOK ==
  tcpOn /\ wifiStatus = "SEND_DATA" =>
    /\ slot.msg = "TIMEOUT" => Quiet
    /\ slot.msg = "ERROR" /\ slot.stat \notin {"SEND_DATA", "READY_TO_SEND_DATA"}
         => Quiet /\ "send" \notin armed
    /\ ~Slot("OK", "TCP_DISCONNECT")

ReportOffOK ==
  ~tcpOn /\ wifiStatus = "SEND_DATA"
  /\ (Slot("ERROR", "TCP_CONNECT") \/ Slot("OK", "TCP_DISCONNECT")) => Harmless

\* A payload to be written again, into a connection that is being brought back.
ResendOK ==
  netPc = "resend" =>
    /\ Slot("OK", "TCP_DISCONNECT") \/ slot.stat = "TCP_CONNECT"
       \/ wifiStatus = "TCP_CONNECT" => ~prompt
    /\ slot.stat \in TcpStatuses => txBuf \in TcpStatuses \cup {"NONE"}

\* A connection attempt next to a report about a payload.
ConnectOK ==
  slot.stat = "SEND_DATA" =>
    /\ wifiStatus = "TCP_CONNECT" \/ (netPc = "cmd" /\ netCmd = "TCP_CONNECT")
         => SlotTimeout \/ ~prompt
    /\ netPc = "cmd" /\ netCmd = "TCP_CONNECT" => txBuf # "CIPSEND"

\* The payload is watched longer than its transmission.
WatchOK ==
  tcpOn /\ slot.stat = "SEND_DATA" /\ {"send", "wifi"} \subseteq armed
    => "send" \in older["wifi"]

\* While the response timer runs the send timer comes after it, or before the
\* timeout of the transmission; and while the connection is brought back the send
\* timer, which would post the report about the payload once more, comes after it.
SendAfterResp == "send" \in armed => "resp" \in older["send"]

RespOnOK ==
  tcpOn /\ "resp" \in armed =>
    /\ wifiStatus = "SEND_DATA" => slot.stat \in {"READY_TO_SEND_DATA", "SEND_DATA"}
    /\ wifiStatus = "SEND_DATA" /\ slot.msg = "TIMEOUT" => slot.stat = "SEND_DATA"
    /\ SendAfterResp \/ ("wifi" \in armed => "send" \in older["wifi"])
    /\ Slot("TIMEOUT", "SEND_DATA") => SendAfterResp
    /\ ~Carrying /\ slot.stat = "SEND_DATA" => slot.msg # "ERROR" /\ SendAfterResp
    /\ ~Carrying /\ wifiStatus = "SEND_DATA" => slot.msg = "TIMEOUT"

\* While it runs and the flag is off, or about to be, only a payload is on its way.
RespOffOK == "resp" \in armed /\ (~tcpOn \/ netPc = "resend") => Carrying

Joined ==
  /\ JoinedTypes /\ StatusOfBuffer /\ PromptOver /\ SentOK /\ ReplacedOK
  /\ ReportOnOK /\ ReportOffOK /\ ResendOK /\ ConnectOK /\ WatchOK
  /\ RespOnOK /\ RespOffOK

UnpacedInvariant ==
  /\ ReadyInvariant
  /\ Punctual => ReaderOK /\ AfterDelay /\ NoResetWhenReady /\ (Joining \/ Joined)
=============================================================================
