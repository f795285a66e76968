--------------------------- MODULE GatewayPhases ---------------------------
(***************************************************************************)
(* The phases of the gateway's data path in an orderly environment: the    *)
(* threads come to rest before the next line of the modem, no timer comes  *)
(* too late, the server answers a payload after the modem has reported it  *)
(* sent, and a modem that refuses a payload no longer waits for it.        *)
(*                                                                         *)
(* One thing is on its way at a time: a command in the manager's delay,    *)
(* its transmission, its answer, the message about the answer.  A phase    *)
(* says which, and which timers run in it.                                 *)
(***************************************************************************)
EXTENDS GatewayLink

\* What an orderly environment never does.
Untimely == {"late", "early", "again"}

\* The environment these phases are about, at least until its first fault.
Orderly == PacedLines /\ (faults = 0 \/ Faults \cap Untimely = {})

-----------------------------------------------------------------------------
(* Vocabulary *)

\* What the modem has said and the parser has not seen.
Said == fifo \o line

\* Nothing of it matters: at most the loss of the connection is reported.
Rest(l) == l \in Seq({"OTHER"}) /\ (faults = 0 => l = <<>>)

\* One line that matters.
Only(x, l) == l # <<>> /\ Head(l) = x /\ Rest(Tail(l))

\* The driver has been asked to transmit.
Sending == "TX" \in wifiEv.latch \cup wifiEv.set
SendingOnce == Sending /\ (wifiEv.latch = {"TX"} => wifiEv.set = {})

\* Nobody has told the manager yet / the driver has, and reads no further.
Waits   == netPc = "recv" /\ mq = <<>> /\ ~Sending
Posted  == netPc = "recv" /\ mq = <<"wifi">> /\ ~Sending /\ fifo = <<>> /\ response = "MAX"
Busy    == networkStatus # "STANDBY_SEND"
AtPrompt == faults = 0 => prompt

\* The statuses in which OK takes the manager on.
Leads(stat) == NextCommand(stat, TRUE) # "NONE" \/ stat = "TCP_CONNECT"

\* The statuses in which a command, or the length request, is answered.
AskStatuses == {CommandStatus(c) : c \in WifiCommands} \cup
               {"GET_WIFI_MODE", "GET_DHCP_INFO", "GET_AP_INFO", "GET_LOCAL_INFO",
                "SET_SEND_DATA_LENGTH"}

ServerLines == {"IPD_OK", "IPD_ER", "IPD_ELSE"}

-----------------------------------------------------------------------------
(* The driver, in every phase *)

\* Flags reach the driver one at a time, so no transmission is forgotten; what it
\* has not read it will read; a response is passed on before the next line.
DriverOK ==
  /\ wifiEv.set \subseteq {"TX"} /\ wifiEv.latch \in {{}, {"RX"}, {"TX"}}
  /\ wifiEv.blocked => wifiEv.latch = {} /\ wifiEv.set = {}
  /\ Len(fifo) <= 1
  /\ fifo # <<>> => wifiPc = "read" \/ wifiEv.latch = {"RX"}
  /\ wifiPc = "read" => ~wifiEv.blocked /\ wifiEv.latch = {}
  /\ response # "MAX" => wifiPc = "read" /\ fifo = <<>>

\* Before the first command that sets responseLen the '+' lines are not read; no
\* status that waits for one is reached earlier.
EarlyCommands == {"RESTART", "ECHO_OFF", "SET_POWER", "DISABLE_SLEEP_MODE"}
EarlyStatuses == {"NONE"} \cup {CommandStatus(c) : c \in EarlyCommands}

ResponseLenOK ==
  \/ responseLen = 1
  \/ /\ ~tcpOn /\ netPc # "resend"
     /\ netPc = "cmd" => netCmd \in EarlyCommands \cup SetsResponseLen
     /\ wifiStatus \in EarlyStatuses /\ slot.stat \in EarlyStatuses

-----------------------------------------------------------------------------
(* The phases *)

\* A command in the manager's delay.
Commanding ==
  /\ netPc = "cmd" /\ mq = <<>> /\ ~Sending /\ Busy
  /\ armed \subseteq {"delay"} /\ response = "MAX" /\ Rest(Said)

\* A command, or the length request, on its way to the modem.
Transmitting ==
  /\ netPc = "recv" /\ mq = <<>> /\ SendingOnce /\ Busy
  /\ armed = {} /\ response = "MAX" /\ Rest(Said)
  /\ \/ txBuf \in WifiCommands /\ wifiStatus = CommandStatus(txBuf)
     \/ txBuf = "CIPSEND" /\ wifiStatus = "SET_SEND_DATA_LENGTH" /\ tcpOn

\* Its answer: nothing (any more), a refusal, OK, OK behind a line of data, or OK
\* before the prompt.
PromptDue(l) ==
  wifiStatus = "SET_SEND_DATA_LENGTH" /\ tcpOn /\ AtPrompt /\ Only("PROMPT", l)

Answer1(l) == \/ Rest(l) \/ Only("ERROR", l)
              \/ Only("OK", l) /\ Leads(wifiStatus)

Answer2(l) ==
  /\ l # <<>>
  /\ \/ /\ Head(l) \in {"MODE_STATION", "MODE_OTHER", "DHCP_SAME", "DHCP_DIFFERENT",
                        "AP", "LOCAL", "OTHER"}
        /\ Only("OK", Tail(l)) /\ Leads(StatusAfter(Head(l)))
     \/ Head(l) = "OK" /\ PromptDue(Tail(l))

Asked ==
  /\ Waits /\ Busy /\ armed = {"wifi"} /\ wifiStatus \in AskStatuses
  /\ \/ response = "MAX" /\ (Answer1(Said) \/ Answer2(Said))
     \/ response = "ERROR" /\ Rest(Said)
     \/ response = "OK" /\ Leads(wifiStatus) /\ Rest(Said)
     \/ response = "OK" /\ PromptDue(Said)

\* The message about it.  Behind the OK of the length request the prompt follows,
\* and no timer runs until it has come.
Answered ==
  /\ Posted /\ Busy /\ armed = {}
  /\ \/ slot.msg = "OK" /\ Leads(slot.stat) /\ Rest(Said)
     \/ slot.msg \in {"ERROR", "TIMEOUT"} /\ slot.stat \in AskStatuses /\ Rest(Said)
     \/ slot.msg = "OK" /\ slot.stat = "SET_SEND_DATA_LENGTH" /\ PromptDue(Said)
     \/ slot.msg = "OK" /\ slot.stat = "READY_TO_SEND_DATA" /\ tcpOn
        /\ AtPrompt /\ Rest(Said)

\* Connected and nothing to do, or about to read the prompt.
Idle ==
  /\ Waits /\ tcpOn /\ armed = {}
  /\ \/ response = "MAX" /\ Rest(Said)
     \/ Busy /\ response = "MAX" /\ PromptDue(Said)
     \/ /\ Busy /\ response = "OK" /\ wifiStatus = "READY_TO_SEND_DATA"
        /\ AtPrompt /\ Rest(Said)

\* A sample in the manager's queue.
Sampled ==
  /\ netPc = "recv" /\ mq = <<"plc">> /\ ~Sending /\ Busy /\ tcpOn
  /\ armed = {} /\ response = "MAX" /\ Rest(Said)

\* The payload on its way to the modem, for the first time or again.
PayloadDue ==
  /\ netPc = "recv" /\ mq = <<>> /\ SendingOnce /\ Busy /\ tcpOn
  /\ txBuf = "DATA" /\ wifiStatus = "SEND_DATA" /\ slot.stat = "READY_TO_SEND_DATA"
  /\ armed \in {{"send"}, {"send", "wifi"}} /\ response = "MAX" /\ Rest(Said) /\ AtPrompt

\* The answer of the server is due, or never comes.
AckDue == \/ Rest(Said) /\ faults > 0
          \/ \E x \in ServerLines : Only(x, Said)

\* What the modem says to the payload.
PayloadSaid(l) ==
  \/ Rest(l) /\ faults > 0
  \/ Only("SEND_FAIL", l)
  \/ ~prompt /\ faults > 0 /\ (Only("SEND_OK", l) \/ Only("ERROR", l))
  \/ /\ ~prompt /\ l # <<>> /\ Head(l) = "SEND_OK"
     /\ \E x \in ServerLines : Only(x, Tail(l))

PayloadSent ==
  /\ Waits /\ Busy /\ tcpOn /\ wifiStatus = "SEND_DATA" /\ slot.stat = "READY_TO_SEND_DATA"
  /\ armed = {"send", "wifi"} /\ "send" \in older["wifi"]
  /\ \/ response = "MAX" /\ PayloadSaid(Said)
     \/ response = "FAIL" /\ Rest(Said)
     \/ ~prompt /\ response = "OK" /\ AckDue
     \/ ~prompt /\ response = "ERROR" /\ Rest(Said) /\ faults > 0

PayloadAnswered ==
  /\ Posted /\ Busy /\ tcpOn /\ wifiStatus = "SEND_DATA"
  /\ \/ /\ armed = {"send"} /\ slot.stat = "SEND_DATA"
        /\ \/ slot.msg = "FAIL"
           \/ ~prompt /\ slot.msg = "OK" /\ AckDue
           \/ ~prompt /\ slot.msg = "ERROR" /\ Rest(Said) /\ faults > 0
     \/ /\ armed = {"wifi"} /\ slot.stat = "READY_TO_SEND_DATA"
        /\ slot.msg = "ERROR" /\ Rest(Said) /\ faults > 0

\* Sent; the server's answer stops the send timer.
AwaitingAck ==
  /\ Waits /\ Busy /\ tcpOn /\ wifiStatus = "SEND_DATA" /\ slot.stat = "SEND_DATA"
  /\ armed = {"send", "resp"} /\ "send" \in older["resp"]
  /\ response = "MAX" /\ ~prompt /\ AckDue

AckRead ==
  /\ Waits /\ Busy /\ tcpOn /\ armed = {"resp"} /\ Rest(Said)
  /\ \/ response = "OK" /\ wifiStatus = "RECEIVE_DATA"
     \/ response = "ERROR" /\ wifiStatus = "REFUSE_DATA"
     \/ response = "MAX" /\ wifiStatus = "NONE"

AckPosted ==
  /\ Posted /\ Busy /\ tcpOn /\ armed = {"resp"} /\ Rest(Said)
  /\ \/ slot.msg = "OK" /\ slot.stat = "RECEIVE_DATA"
     \/ slot.msg = "ERROR" /\ slot.stat = "REFUSE_DATA"
     \/ /\ slot.msg = "ERROR" /\ slot.stat = "SEND_DATA"
        /\ wifiStatus = "SEND_DATA" /\ ~prompt /\ faults > 0

\* The payload is written into command mode, over and over: the modem answers ERROR
\* or not at all, and the manager can only retry or reset.  Messages may pile up.
Retrying ==
  /\ Busy /\ ~prompt /\ faults > 0
  /\ netPc = "resend" \/ (netPc = "recv" /\ ~tcpOn)
  /\ mq \in Seq({"wifi"}) /\ (mq # <<>> => slot.msg \in {"ERROR", "TIMEOUT"})
  /\ wifiStatus = "SEND_DATA" /\ slot.stat = "SEND_DATA"
  /\ Sending => txBuf \in {"DATA", "NONE"}
  /\ response \in {"MAX", "ERROR"}
  /\ Said \in Seq({"OTHER", "ERROR"})
  /\ netPc = "recv" /\ mq = <<>> => Sending \/ "wifi" \in armed

\* The manager sleeps before its reset; the others go on until it has slept.
Rebooting ==
  /\ netPc = "reboot" /\ Busy
  /\ Sending => faults > 0
  /\ "delay" \in armed \/ (~Sending /\ Rest(Said))

Phase ==
  \/ Commanding \/ Transmitting \/ Asked \/ Answered \/ Idle \/ Sampled
  \/ PayloadDue \/ PayloadSent \/ PayloadAnswered
  \/ AwaitingAck \/ AckRead \/ AckPosted \/ Retrying \/ Rebooting

-----------------------------------------------------------------------------
(* The sample on its way *)

\* The manager keeps the sample that the PLC thread has posted last.
KeptOK == (netPc = "recv" /\ mq = <<"plc">>) \/ tcpSend = plcData

\* An answer of the server among the lines.
HasAnswer(l) == \E i \in DOMAIN l : l[i] \in ServerLines

\* The statuses in which a sample is on its way, or back.
DataStatuses == {"SET_SEND_DATA_LENGTH", "READY_TO_SEND_DATA", "SEND_DATA", "RECEIVE_DATA"}

IncPending == "INC" \in plcEv.latch \cup plcEv.set

\* Before the first sample there is none on its way, and none due.
NoneYetOK ==
  plcData = NoSample =>
    /\ txBuf # "DATA" /\ netPc # "resend" /\ (Busy => ~tcpOn) /\ ~HasAnswer(Said)
    /\ wifiStatus \notin DataStatuses /\ slot.stat \notin DataStatuses
    /\ sensorCodeCount = 1 /\ ~IncPending

\* The server answers what it has received, and only that is reported to the manager.
DeliveredOK ==
  \/ HasAnswer(Said)
  \/ netPc = "recv" /\ Busy /\ wifiStatus = "RECEIVE_DATA" /\ mq # <<"plc">>
  \/ netPc = "recv" /\ Busy /\ slot.stat = "RECEIVE_DATA" /\ mq = <<"wifi">>
  => received = plcData

\* One acknowledgement at a time is unread, and none when the next one comes.
TokenOK ==
  /\ plcEv.latch \in {{}, {"RX"}, {"INC"}} /\ plcEv.set \subseteq {"INC"}
  /\ plcEv.latch = {"INC"} => plcEv.set = {}
  /\ plcEv.blocked => plcEv.latch = {} /\ plcEv.set = {}
  /\ fifo # <<>> \/ response # "MAX" \/ (mq # <<>> /\ Head(mq) = "wifi") => ~IncPending

\* The count is one ahead of the last sample, or two after the frame of the next
\* round or the unread acknowledgement of the round before has moved it on.
CountOK ==
  plcData # NoSample =>
    /\ \/ sensorCodeCount = NextSensor(plcData)
       \/ /\ sensorCodeCount = NextSensor(NextSensor(plcData))
          /\ plcData \in {1, LastCode}
    /\ Busy /\ IncPending => plcData = 1 /\ sensorCodeCount = 2

\* No sample has been taken unless the gateway is connected, or about to reset.
UnconnectedOK == ~tcpOn => plcData = NoSample \/ Retrying \/ Rebooting

\* When the manager is ready for a sample the server has the one before, if any.
RecordedOK == ~Busy \/ plcData = NoSample => received = plcData

SampleOK ==
  /\ KeptOK /\ NoneYetOK /\ DeliveredOK /\ TokenOK /\ UnconnectedOK /\ RecordedOK
  /\ LastCode > 2 => CountOK

\* In an orderly environment the data path is always in one of its phases, and the
\* sample on its way is the one that is counted, kept, sent and acknowledged.
PhaseOK == Orderly => DriverOK /\ ResponseLenOK /\ Phase /\ SampleOK

\* What makes it inductive: the types, and that only the manager sets its own status.
PhaseInvariant == ReadyInvariant /\ PhaseOK
=============================================================================
