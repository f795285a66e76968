----------------------------- MODULE GatewayLink -----------------------------
(***************************************************************************)
(* The data path of the gateway firmware: the PLC thread that samples the  *)
(* machine (plccomm.c), the network-manager thread that drives the Wi-Fi   *)
(* modem (networkmanager.c), the Wi-Fi driver thread that parses what the  *)
(* modem says (wifi.c), the one-shot timers that watch them, and the ESP   *)
(* AT modem with the server behind it (external).                          *)
(*                                                                         *)
(* Granularity: a thread runs atomically from one blocking call to the     *)
(* next (a receive or a delay); the Wi-Fi driver also yields between two   *)
(* reads of its UART, because the receive interrupt and the timer          *)
(* interrupts change what the next read finds.  Interrupts happen between  *)
(* any two steps.                                                          *)
(*                                                                         *)
(* Messages are POINTERS: the driver posts the address of its one slot     *)
(* (wifiInfo.mqData) and the PLC thread the address of a stack object, so  *)
(* a message has the content its slot has when it is RECEIVED.             *)
(***************************************************************************)
EXTENDS Integers, Sequences

CONSTANTS
  MqSize,      \* NETWORKMANAGER_MQ_SIZE, pointers the manager's queue holds
  RetryMax,    \* RETRY_MAX
  LastCode,    \* last sensor code of the device type (11 for TS, 19 for TK)
  Dhcp,        \* GetDhcpMode(): is the gateway configured for DHCP
  PacedLines,  \* do all threads come to rest before the next line arrives
  Faults,      \* what the modem, the server or the air may do wrong
  MaxFaults    \* bound: how often they may do it

FaultKinds == {"silent", "error", "sendfail", "noack", "refuse", "garbled",
               "early", "drop", "late", "again"}

ASSUME ConstantsOK ==
  /\ MqSize \in Nat \ {0}
  /\ RetryMax \in Nat
  /\ LastCode \in Nat \ {0}
  /\ Dhcp \in BOOLEAN
  /\ PacedLines \in BOOLEAN
  /\ Faults \subseteq FaultKinds
  /\ MaxFaults \in Nat

Samples  == 1..LastCode          \* a sample is the sensor code it carries
NoSample == 0

\* wifiCommandID.
WifiCommands == {"RESTART", "ECHO_OFF", "SET_POWER", "DISABLE_SLEEP_MODE",
                 "QUERY_MODE", "SET_MODE", "QUERY_DHCP", "SET_DHCP", "CONNECT_AP",
                 "QUERY_AP_INFO", "QUERY_LOCAL_INFO", "SET_LOCAL_INFO",
                 "TCP_CONNECT", "TCP_DISCONNECT"}

\* What txBuf holds: a command, the length request, the payload, or nothing
\* (txLen = 0).
Commands == WifiCommands \cup {"CIPSEND", "DATA", "NONE"}

\* NetworkStatus, the members this code ever stores.
Statuses == {"NONE", "WIFI_RESTART", "ECHO_OFF", "SET_RFPOWER",
             "DISABLE_SLEEP_MODE", "CHECK_WIFI_MODE", "GET_WIFI_MODE",
             "SET_WIFI_MODE", "CONNECT_WIFI", "SET_DHCP", "QUERY_DHCP_INFO",
             "GET_DHCP_INFO", "QUERY_AP_INFO", "GET_AP_INFO",
             "SET_LOCAL_INFO", "QUERY_LOCAL_INFO", "GET_LOCAL_INFO",
             "TCP_CONNECT", "SET_SEND_DATA_LENGTH", "READY_TO_SEND_DATA",
             "SEND_DATA", "WAIT_ACK", "STANDBY_SEND", "RECEIVE_DATA",
             "REFUSE_DATA", "TCP_DISCONNECT"}

Messages == {"OK", "ERROR", "FAIL", "TIMEOUT"}   \* SMSG_WIFI_*
Timers   == {"delay", "send", "resp", "wifi"}

\* What a line of the modem is to the parser.  OTHER is a line with a start
\* character that matches nothing (CONNECT, CLOSED, WIFI GOT IP).  A line with
\* no start character, FAIL among them, has no effect and is left out.
Lines == {"OK", "ERROR", "SEND_OK", "SEND_FAIL", "PROMPT", "MODE_STATION",
          "MODE_OTHER", "DHCP_SAME", "DHCP_DIFFERENT", "AP", "LOCAL",
          "IPD_OK", "IPD_ER", "IPD_ELSE", "OTHER"}

VARIABLES
  netPc, netCmd,                        \* manager: where it blocks; the pending command
  networkStatus, retryCount, tcpSend,   \* networkInfo
  mq,                                   \* networkManagerMq: a sequence of pointers
  tcpOn, sensorCodeCount, plcData, plcEv,      \* plcCommInfo; plcData: the posted stack object
  wifiPc, wifiStatus, response, flag, slot, txBuf, responseLen, wifiEv,  \* wifiInfo
  armed, older,                         \* hard timers
  line, fifo,                           \* lines on the wire and in the UART buffer
  link, prompt, received, faults        \* modem and server

netVars   == <<netPc, netCmd, retryCount, tcpSend>>
plcVars   == <<tcpOn, sensorCodeCount, plcData, plcEv>>
wifiVars  == <<wifiPc, wifiStatus, response, flag, slot, txBuf, responseLen,
               wifiEv>>
timerVars == <<armed, older>>
modemVars == <<line, link, prompt, received, faults>>
vars == <<netVars, networkStatus, mq, plcVars, wifiVars, timerVars, fifo,
          modemVars>>

-----------------------------------------------------------------------------
(* Kernel objects *)

\* An RT-Thread event: flags sent while the thread is suspended in the receive
\* wake it with exactly those; flags sent later gather until the next receive.
Suspended == [blocked |-> TRUE, latch |-> {}, set |-> {}]

EventSend(ev, f) ==
  IF ev.blocked THEN [blocked |-> FALSE, latch |-> {f}, set |-> ev.set]
                ELSE [ev EXCEPT !.set = @ \cup {f}]

EventFlags(ev) == IF ev.latch # {} THEN ev.latch ELSE ev.set

EventRecv(ev) ==
  IF ev.latch # {}
    THEN [ev EXCEPT !.latch = {}]
    ELSE [blocked |-> ev.set = {}, latch |-> {}, set |-> {}]

\* Mutant: the bound of the queue is off by one.
PostOneTooMany(q, p) == IF Len(q) <= MqSize THEN Append(q, p) ELSE q

\* rt_mq_send: a full queue throws the message away.
Post(q, p) == IF Len(q) < MqSize THEN Append(q, p) ELSE q

\* Deadlines are abstracted to their order: a timer cannot expire before the
\* timers that were started earlier with a delay that is not longer.
Delay == [delay |-> 1, send |-> 2, resp |-> 2, wifi |-> 3]

StartTimer(t) ==
  /\ armed' = armed \cup {t}
  /\ older' = [u \in Timers |->
                 IF u = t THEN {v \in armed \ {t} : Delay[v] <= Delay[t]}
                          ELSE older[u] \ {t}]

StopTimer(t) ==
  /\ armed' = armed \ {t}
  /\ older' = [u \in Timers |-> IF u = t THEN {} ELSE older[u] \ {t}]

\* The manager waits on its queue or in a delay.
NetBlocked == IF netPc = "recv" THEN mq = <<>> ELSE "delay" \in armed

AtRest == NetBlocked /\ wifiPc = "recv" /\ wifiEv.blocked /\ plcEv.blocked

-----------------------------------------------------------------------------
(* Start and reset *)

\* The driver's slot before its first message.
EmptySlot == [msg |-> "OK", stat |-> "NONE", flag |-> FALSE]

\* StartNetworkManager waits for the modem; the manager begins with CMD_RESTART.
Init ==
  /\ netPc = "cmd" /\ netCmd = "RESTART"
  /\ networkStatus = "NONE" /\ retryCount = 0 /\ tcpSend = NoSample
  /\ mq = <<>>
  /\ tcpOn = FALSE /\ sensorCodeCount = 1 /\ plcData = NoSample
  /\ plcEv = Suspended
  /\ wifiPc = "recv" /\ wifiStatus = "NONE" /\ response = "MAX"
  /\ flag = FALSE /\ slot = EmptySlot
  /\ txBuf = "NONE" /\ responseLen = 0 /\ wifiEv = Suspended
  /\ armed = {"delay"} /\ older = [t \in Timers |-> {}]
  /\ line = <<>> /\ fifo = <<>>
  /\ link = FALSE /\ prompt = FALSE /\ received = NoSample /\ faults = 0

\* NVIC_SystemReset: the gateway starts over.  The modem lives on; what it is
\* saying is lost during the boot or arrives after it.
Reset ==
  /\ netPc' = "cmd" /\ netCmd' = "RESTART"
  /\ networkStatus' = "NONE" /\ retryCount' = 0 /\ tcpSend' = NoSample
  /\ mq' = <<>>
  /\ tcpOn' = FALSE /\ sensorCodeCount' = 1 /\ plcData' = NoSample
  /\ plcEv' = Suspended
  /\ wifiPc' = "recv" /\ wifiStatus' = "NONE" /\ response' = "MAX"
  /\ flag' = FALSE /\ slot' = EmptySlot
  /\ txBuf' = "NONE" /\ responseLen' = 0 /\ wifiEv' = Suspended
  /\ armed' = {"delay"} /\ older' = [t \in Timers |-> {}]
  /\ (line' = line \/ line' = <<>>) /\ fifo' = <<>>
  /\ received' = NoSample
  /\ UNCHANGED <<link, prompt>>

-----------------------------------------------------------------------------
(* The manager's thread: networkmanager.c *)

\* rt_mq_recv and the two copies out of the slot.  The copy over networkInfoData
\* happens for every message: a payload leaves STATUS_NONE there, because its
\* second byte is a zero of the time field.
NetRecv(msg) ==
  /\ netPc = "recv" /\ mq # <<>>
  /\ Head(mq) = "wifi" /\ slot.msg = msg
  /\ mq' = Tail(mq)

\* SendWifiCommand sleeps before it touches the driver's state.
DelayCommand(cmd) ==
  /\ netPc' = "cmd" /\ netCmd' = cmd
  /\ StartTimer("delay")

\* DeviceReboot, from the manager: it sleeps too, and other threads go on.
Reboot == netPc' = "reboot" /\ netCmd' = "NONE" /\ StartTimer("delay")

Stay == UNCHANGED <<netPc, netCmd>>

\* The command that follows the success of a status, "NONE" where there is none.
\* The branch of GET_LOCAL_INFO to CMD_SET_LOCAL_INFO is dead: the parser compares
\* sizeof("ip") bytes, the terminating zero included, with "ip:", so no mismatch
\* is ever flagged.
NextCommand(stat, value) ==
  CASE stat = "WIFI_RESTART"       -> "ECHO_OFF"
    [] stat = "ECHO_OFF"           -> "SET_POWER"
    [] stat = "SET_RFPOWER"        -> "DISABLE_SLEEP_MODE"
    [] stat = "DISABLE_SLEEP_MODE" -> "QUERY_MODE"
    [] stat = "GET_WIFI_MODE"      -> IF value THEN "QUERY_DHCP" ELSE "SET_MODE"
    [] stat = "SET_WIFI_MODE"      -> "QUERY_DHCP"
    [] stat = "GET_DHCP_INFO"      -> IF value THEN "CONNECT_AP" ELSE "SET_DHCP"
    [] stat = "SET_DHCP"           -> "CONNECT_AP"
    [] stat = "CONNECT_WIFI"       -> "QUERY_AP_INFO"
    [] stat = "GET_AP_INFO"        -> IF value THEN "TCP_CONNECT"
                                               ELSE "QUERY_LOCAL_INFO"
    [] stat = "SET_LOCAL_INFO"     -> "QUERY_LOCAL_INFO"
    [] stat = "GET_LOCAL_INFO"     -> "TCP_CONNECT"
    [] stat = "TCP_DISCONNECT"     -> "TCP_CONNECT"
    [] OTHER                       -> "NONE"

SetTcpStatus(on) == tcpOn' = on

\* Mutant: the acknowledgement is not passed on to the PLC thread.
NoSendEvent == UNCHANGED plcEv

SetSendEvent == plcEv' = EventSend(plcEv, "INC")

\* SMSG_WIFI_OK whose status calls for the next command.
NetOkCommand ==
  /\ NetRecv("OK")
  /\ NextCommand(slot.stat, slot.flag) # "NONE"
  /\ DelayCommand(NextCommand(slot.stat, slot.flag))
  /\ retryCount' = 0 /\ networkStatus' = slot.stat
  /\ UNCHANGED <<tcpSend, plcVars, wifiVars, fifo, modemVars>>

\* The TCP connection stands: sampling starts, unless tcpOn was never cleared.
NetOkConnected ==
  /\ NetRecv("OK") /\ slot.stat = "TCP_CONNECT"
  /\ retryCount' = 0
  /\ networkStatus' = IF tcpOn THEN "TCP_CONNECT" ELSE "STANDBY_SEND"
  /\ SetTcpStatus(TRUE)
  /\ Stay
  /\ UNCHANGED <<tcpSend, sensorCodeCount, plcData, plcEv, wifiVars, timerVars,
                 fifo, modemVars>>

\* TcpSendData: the payload goes to the driver and the send timer starts.
TcpSendData ==
  /\ StartTimer("send")
  /\ txBuf' = "DATA" /\ wifiStatus' = "SEND_DATA"
  /\ wifiEv' = EventSend(wifiEv, "TX")
  /\ UNCHANGED <<wifiPc, response, flag, slot, responseLen>>

NetOkReady ==
  /\ NetRecv("OK") /\ slot.stat = "READY_TO_SEND_DATA"
  /\ TcpSendData
  /\ retryCount' = 0 /\ networkStatus' = "READY_TO_SEND_DATA"
  /\ Stay
  /\ UNCHANGED <<tcpSend, plcVars, fifo, modemVars>>

\* The modem has sent the payload: wait for the server's answer.
NetOkSent ==
  /\ NetRecv("OK") /\ slot.stat = "SEND_DATA"
  /\ StartTimer("resp")
  /\ retryCount' = 0 /\ networkStatus' = "WAIT_ACK"
  /\ Stay
  /\ UNCHANGED <<tcpSend, plcVars, wifiVars, fifo, modemVars>>

\* Mutant: the response timer runs on after the acknowledgement.
ResponseTimerRunsOn == UNCHANGED timerVars

StopResponseTimer == StopTimer("resp")

\* Mutant: the flag that a resend cleared is not set again.
ReceivedWithoutStatus ==
  /\ NetRecv("OK") /\ slot.stat = "RECEIVE_DATA"
  /\ StopResponseTimer
  /\ retryCount' = 0 /\ networkStatus' = "STANDBY_SEND"
  /\ SetSendEvent
  /\ Stay
  /\ UNCHANGED <<tcpSend, tcpOn, sensorCodeCount, plcData, wifiVars, fifo,
                 modemVars>>

\* The server has acknowledged: ready for the next sample.
NetOkReceived ==
  /\ NetRecv("OK") /\ slot.stat = "RECEIVE_DATA"
  /\ SetTcpStatus(TRUE)
  /\ StopResponseTimer
  /\ retryCount' = 0 /\ networkStatus' = "STANDBY_SEND"
  /\ SetSendEvent
  /\ Stay
  /\ UNCHANGED <<tcpSend, sensorCodeCount, plcData, wifiVars, fifo, modemVars>>

NetOkIgnored ==
  /\ NetRecv("OK")
  /\ NextCommand(slot.stat, slot.flag) = "NONE"
  /\ slot.stat \notin {"TCP_CONNECT", "READY_TO_SEND_DATA", "SEND_DATA",
                       "RECEIVE_DATA"}
  /\ retryCount' = 0 /\ networkStatus' = slot.stat
  /\ Stay
  /\ UNCHANGED <<tcpSend, plcVars, wifiVars, timerVars, fifo, modemVars>>

\* The failures that are tried again before the gateway resets: the payload after
\* two seconds or at once, the connection to the server, the connection to the AP.
NetRetry ==
  /\ \/ NetRecv("ERROR") /\ slot.stat \in {"SEND_DATA", "READY_TO_SEND_DATA",
                                           "TCP_CONNECT"}
     \/ (NetRecv("FAIL") \/ NetRecv("TIMEOUT")) /\ slot.stat = "CONNECT_WIFI"
  /\ networkStatus' = slot.stat
  /\ retryCount' = retryCount + 1
  /\ IF retryCount >= RetryMax THEN Reboot /\ UNCHANGED wifiVars
     ELSE CASE slot.stat = "SEND_DATA" ->
                 /\ netPc' = "resend" /\ netCmd' = "DATA"
                 /\ StartTimer("delay") /\ UNCHANGED wifiVars
            [] slot.stat = "READY_TO_SEND_DATA" -> TcpSendData /\ Stay
            [] slot.stat = "TCP_CONNECT" ->
                 DelayCommand("TCP_CONNECT") /\ UNCHANGED wifiVars
            [] slot.stat = "CONNECT_WIFI" ->
                 DelayCommand("CONNECT_AP") /\ UNCHANGED wifiVars
  /\ UNCHANGED <<tcpSend, plcVars, fifo, modemVars>>

\* The failures that reset at once, and those that drop the TCP connection first
\* when there is one.
NetGiveUp ==
  /\ \/ /\ NetRecv("ERROR")
        /\ slot.stat \notin {"SEND_DATA", "READY_TO_SEND_DATA", "TCP_CONNECT"}
     \/ NetRecv("FAIL") /\ slot.stat = "SEND_DATA"
     \/ NetRecv("TIMEOUT") /\ slot.stat # "CONNECT_WIFI"
  /\ networkStatus' = slot.stat
  /\ IF \/ slot.msg = "FAIL"
        \/ slot.msg = "ERROR" /\ slot.stat \in {"TCP_DISCONNECT", "REFUSE_DATA"}
        \/ ~tcpOn
       THEN Reboot
       ELSE DelayCommand("TCP_DISCONNECT")
  /\ UNCHANGED <<retryCount, tcpSend, plcVars, wifiVars, fifo, modemVars>>

NetFailIgnored ==
  /\ NetRecv("FAIL") /\ slot.stat \notin {"CONNECT_WIFI", "SEND_DATA"}
  /\ networkStatus' = slot.stat
  /\ Stay
  /\ UNCHANGED <<retryCount, tcpSend, plcVars, wifiVars, timerVars, fifo,
                 modemVars>>

KeepPayload == tcpSend' = plcData

\* SMSG_TCP_SEND_DATA: keep the payload for retries and ask the modem for the
\* length; no delay and, unlike the commands, no change of the manager's own
\* status beyond the copy.
NetSendData ==
  /\ netPc = "recv" /\ mq # <<>> /\ Head(mq) = "plc"
  /\ mq' = Tail(mq)
  /\ networkStatus' = "NONE" /\ KeepPayload
  /\ wifiStatus' = "SET_SEND_DATA_LENGTH" /\ txBuf' = "CIPSEND"
  /\ wifiEv' = EventSend(wifiEv, "TX")
  /\ UNCHANGED <<netPc, netCmd, retryCount, plcVars, wifiPc, response, flag,
                 slot, responseLen, timerVars, fifo, modemVars>>

\* The driver's status while the answer to a command is awaited.
CommandStatus(cmd) ==
  CASE cmd = "RESTART"          -> "WIFI_RESTART"
    [] cmd = "SET_POWER"        -> "SET_RFPOWER"
    [] cmd = "QUERY_MODE"       -> "CHECK_WIFI_MODE"
    [] cmd = "SET_MODE"         -> "SET_WIFI_MODE"
    [] cmd = "QUERY_DHCP"       -> "QUERY_DHCP_INFO"
    [] cmd = "CONNECT_AP"       -> "CONNECT_WIFI"
    [] OTHER                    -> cmd

\* The commands that say how much of a '+' line names its command.
SetsResponseLen == {"QUERY_MODE", "QUERY_DHCP", "QUERY_LOCAL_INFO",
                    "CONNECT_AP", "TCP_DISCONNECT"}

\* SendWifiCommand after its half second.
NetCommand ==
  /\ netPc = "cmd" /\ "delay" \notin armed
  /\ netPc' = "recv" /\ netCmd' = "NONE"
  /\ wifiStatus' = CommandStatus(netCmd) /\ txBuf' = netCmd
  /\ responseLen' = IF netCmd \in SetsResponseLen THEN 1 ELSE responseLen
  /\ wifiEv' = EventSend(wifiEv, "TX")
  /\ UNCHANGED <<networkStatus, retryCount, tcpSend, mq, plcVars, wifiPc,
                 response, flag, slot, timerVars, fifo, modemVars>>

\* The retry of a payload after its two seconds; sampling stops until an answer.
NetResend ==
  /\ netPc = "resend" /\ "delay" \notin armed
  /\ netPc' = "recv" /\ netCmd' = "NONE"
  /\ SetTcpStatus(FALSE)
  /\ TcpSendData
  /\ UNCHANGED <<networkStatus, retryCount, tcpSend, mq, sensorCodeCount,
                 plcData, plcEv, fifo, modemVars>>

NetReset ==
  /\ netPc = "reboot" /\ "delay" \notin armed
  /\ Reset /\ UNCHANGED faults

NetStep ==
  \/ NetOkCommand \/ NetOkConnected \/ NetOkReady \/ NetOkSent
  \/ NetOkReceived \/ NetOkIgnored \/ NetRetry \/ NetGiveUp \/ NetFailIgnored
  \/ NetSendData \/ NetCommand \/ NetResend \/ NetReset

-----------------------------------------------------------------------------
(* The Wi-Fi driver's thread: WifiRxThread *)

WifiAwake == wifiPc = "recv" /\ ~wifiEv.blocked

WifiSuspend ==
  /\ WifiAwake /\ EventFlags(wifiEv) = {}
  /\ wifiEv' = EventRecv(wifiEv)
  /\ UNCHANGED <<netVars, networkStatus, mq, plcVars, wifiPc, wifiStatus,
                 response, flag, slot, txBuf, responseLen, timerVars, fifo,
                 modemVars>>

\* SMSG_RX_DATA is looked at first: a transmission asked for in the same set of
\* flags is forgotten.
WifiRx ==
  /\ WifiAwake /\ "RX" \in EventFlags(wifiEv)
  /\ wifiEv' = EventRecv(wifiEv)
  /\ wifiPc' = "read"
  /\ UNCHANGED <<netVars, networkStatus, mq, plcVars, wifiStatus, response,
                 flag, slot, txBuf, responseLen, timerVars, fifo, modemVars>>

\* Mutant: the OK that precedes the prompt is taken for the prompt.
StatusAfterOk(l) ==
  IF responseLen = 0 /\ l \notin {"PROMPT", "OK"} THEN wifiStatus
  ELSE
  CASE l \in {"PROMPT", "OK"} /\ wifiStatus = "SET_SEND_DATA_LENGTH" ->
                                                       "READY_TO_SEND_DATA"
    [] l \in {"MODE_STATION", "MODE_OTHER"}        -> "GET_WIFI_MODE"
    [] l \in {"DHCP_SAME", "DHCP_DIFFERENT"}       -> "GET_DHCP_INFO"
    [] l = "AP" /\ wifiStatus = "QUERY_AP_INFO"    -> "GET_AP_INFO"
    [] l = "LOCAL"                                 -> "GET_LOCAL_INFO"
    [] l = "IPD_OK"                                -> "RECEIVE_DATA"
    [] l = "IPD_ER"                                -> "REFUSE_DATA"
    [] l = "IPD_ELSE"                              -> "NONE"
    [] OTHER                                       -> wifiStatus

\* One line through ParserWifiData: the driver's status, its response and its
\* data byte.  A '+' line is recognised once some command has set responseLen.
StatusAfter(l) ==
  IF responseLen = 0 /\ l # "PROMPT" THEN wifiStatus
  ELSE
  CASE l = "PROMPT" /\ wifiStatus = "SET_SEND_DATA_LENGTH" -> "READY_TO_SEND_DATA"
    [] l \in {"MODE_STATION", "MODE_OTHER"}        -> "GET_WIFI_MODE"
    [] l \in {"DHCP_SAME", "DHCP_DIFFERENT"}       -> "GET_DHCP_INFO"
    [] l = "AP" /\ wifiStatus = "QUERY_AP_INFO"    -> "GET_AP_INFO"
    [] l = "LOCAL"                                 -> "GET_LOCAL_INFO"
    [] l = "IPD_OK"                                -> "RECEIVE_DATA"
    [] l = "IPD_ER"                                -> "REFUSE_DATA"
    [] l = "IPD_ELSE"                              -> "NONE"
    [] OTHER                                       -> wifiStatus

IsReceive(l) == responseLen # 0 /\ l \in {"IPD_OK", "IPD_ER", "IPD_ELSE"}

\* Mutant: only a refusal stops the send timer.
StopsOnRefusal(l) == responseLen # 0 /\ l = "IPD_ER"

\* Every answer of the server stops the send timer, whatever it says.
StopsSendTimer(l) == IsReceive(l)

ResponseAfter(l) ==
  CASE l \in {"OK", "SEND_OK"}                                  -> "OK"
    [] l = "PROMPT" /\ wifiStatus = "SET_SEND_DATA_LENGTH"      -> "OK"
    [] l = "ERROR"                                              -> "ERROR"
    [] l = "SEND_FAIL"                                          -> "FAIL"
    [] l = "IPD_OK" /\ IsReceive(l)                             -> "OK"
    [] l = "IPD_ER" /\ IsReceive(l)                             -> "ERROR"
    [] OTHER                                                    -> response

FlagAfter(l) ==
  IF responseLen = 0 THEN flag
  ELSE
  CASE l \in {"MODE_STATION", "DHCP_SAME"}              -> TRUE
    [] l \in {"MODE_OTHER", "DHCP_DIFFERENT"}           -> FALSE
    [] l = "AP" /\ wifiStatus = "QUERY_AP_INFO"         -> Dhcp
    [] OTHER                                            -> flag

\* One read takes all the UART has received; the parser keeps the start of the
\* first line that has a start character, so the lines behind it in the same read
\* are compared at the wrong place and have no effect.
WifiRead ==
  /\ wifiPc = "read" /\ fifo # <<>>
  /\ LET l == Head(fifo) IN
       /\ wifiStatus' = StatusAfter(l)
       /\ response' = ResponseAfter(l)
       /\ flag' = FlagAfter(l)
       /\ IF StopsSendTimer(l) THEN StopTimer("send") ELSE UNCHANGED timerVars
  /\ fifo' = <<>>
  /\ UNCHANGED <<netVars, networkStatus, mq, plcVars, wifiPc, slot, txBuf,
                 responseLen, wifiEv, modemVars>>

\* Nothing left to read: a response goes to the manager through the slot.
WifiRespond ==
  /\ wifiPc = "read" /\ fifo = <<>> /\ response # "MAX"
  /\ wifiPc' = "recv"
  /\ slot' = [msg |-> response, stat |-> wifiStatus, flag |-> flag]
  /\ response' = "MAX"
  /\ StopTimer("wifi")
  /\ mq' = Post(mq, "wifi")
  /\ UNCHANGED <<netVars, networkStatus, plcVars, wifiStatus, flag, txBuf,
                 responseLen, wifiEv, fifo, modemVars>>

WifiReadDone ==
  /\ wifiPc = "read" /\ fifo = <<>> /\ response = "MAX"
  /\ wifiPc' = "recv"
  /\ UNCHANGED <<netVars, networkStatus, mq, plcVars, wifiStatus, response,
                 flag, slot, txBuf, responseLen, wifiEv, timerVars, fifo,
                 modemVars>>

-----------------------------------------------------------------------------
(* The modem and the server (external) *)

Answer(lines)      == line' = line \o lines
NoFault            == UNCHANGED faults
Fault(kind)        == kind \in Faults /\ faults < MaxFaults /\ faults' = faults + 1
SameLink           == UNCHANGED <<link, prompt>>

\* What an idle modem answers to a command that is not payload.
Replies(cmd) ==
  CASE cmd = "QUERY_MODE" -> {<<"MODE_STATION", "OK">>, <<"MODE_OTHER", "OK">>}
    [] cmd = "QUERY_DHCP" -> {<<"DHCP_SAME", "OK">>, <<"DHCP_DIFFERENT", "OK">>}
    [] cmd = "QUERY_AP_INFO"    -> {<<"AP", "OK">>}
    [] cmd = "QUERY_LOCAL_INFO" -> {<<"LOCAL", "OK">>}
    [] cmd = "CONNECT_AP"       -> {<<"OTHER", "OK">>}
    [] cmd = "TCP_CONNECT"      -> IF link THEN {<<"ERROR">>} ELSE {<<"OTHER", "OK">>}
    [] cmd = "TCP_DISCONNECT"   -> IF link THEN {<<"OTHER", "OK">>} ELSE {<<"ERROR">>}
    [] cmd = "CIPSEND"          -> IF link THEN {<<"OK", "PROMPT">>} ELSE {<<"ERROR">>}
    [] cmd = "DATA"             -> {<<"ERROR">>}
    [] OTHER                    -> {<<"OK">>}

ModemCommand(cmd) ==
  /\ ~prompt
  /\ \E r \in Replies(cmd) : Answer(r)
  /\ link' = (cmd = "TCP_CONNECT" \/ (link /\ cmd \notin {"RESTART", "TCP_DISCONNECT"}))
  /\ prompt' = (cmd = "CIPSEND" /\ link)
  /\ NoFault /\ UNCHANGED received

\* Payload after the prompt: sent, received by the server, acknowledged.
ModemPayload ==
  /\ prompt /\ link
  /\ prompt' = FALSE /\ UNCHANGED link
  /\ received' = tcpSend
  /\ \/ NoFault /\ Answer(<<"SEND_OK", "IPD_OK">>)
     \/ Fault("noack")    /\ Answer(<<"SEND_OK">>)
     \/ Fault("refuse")   /\ Answer(<<"SEND_OK", "IPD_ER">>)
     \/ Fault("garbled")  /\ Answer(<<"SEND_OK", "IPD_ELSE">>)
     \/ Fault("early")    /\ Answer(<<"IPD_OK", "SEND_OK">>)

\* The connection broke under the payload.
ModemSendFails ==
  /\ prompt
  /\ prompt' = FALSE /\ UNCHANGED <<link, received>>
  /\ \/ ~link /\ NoFault
     \/ Fault("sendfail")
  /\ Answer(<<"SEND_FAIL">>)

\* A command in place of the payload is taken for payload.
ModemSwallow ==
  /\ prompt /\ prompt' \in BOOLEAN
  /\ Answer(<<>>) /\ NoFault /\ UNCHANGED <<link, received>>

\* While it still has something to say the modem is busy and takes no command.
ModemBusy == line # <<>> /\ UNCHANGED modemVars

ModemSilent  == Fault("silent") /\ Answer(<<>>) /\ SameLink /\ UNCHANGED received

\* A modem that refuses what it was sent is, or is again, in command mode.
ModemRefuses ==
  Fault("error") /\ Answer(<<"ERROR">>) /\ prompt' = FALSE /\ UNCHANGED <<link, received>>

\* What the retry of a payload without a new length request supposes: the modem
\* reports an error and still waits for the payload.
ModemAsksAgain ==
  prompt /\ Fault("again") /\ Answer(<<"ERROR">>) /\ SameLink /\ UNCHANGED received

\* The connection to the server drops on its own ("CLOSED").
LinkDrop ==
  /\ link /\ Fault("drop")
  /\ link' = FALSE /\ Answer(<<"OTHER">>)
  /\ UNCHANGED <<netVars, networkStatus, mq, plcVars, wifiVars, timerVars, fifo,
                 prompt, received>>

\* Mutant: a transmission is not watched.
NotWatched == UNCHANGED timerVars

WatchTransmission == StartTimer("wifi")

\* The UART write, and the modem's reaction to it; an empty txBuf writes nothing
\* but starts the timer all the same.
WifiTx ==
  /\ WifiAwake /\ EventFlags(wifiEv) = {"TX"}
  /\ wifiEv' = EventRecv(wifiEv)
  /\ WatchTransmission
  /\ txBuf' = "NONE"
  /\ IF txBuf = "NONE" THEN UNCHANGED modemVars
     ELSE IF line # <<>> THEN ModemBusy
     ELSE \/ ModemCommand(txBuf)
          \/ txBuf = "DATA" /\ (ModemPayload \/ ModemSendFails)
          \/ txBuf # "DATA" /\ ModemSwallow
          \/ ModemSilent
          \/ ModemRefuses
          \/ txBuf = "DATA" /\ ModemAsksAgain
  /\ UNCHANGED <<netVars, networkStatus, mq, plcVars, wifiPc, wifiStatus,
                 response, flag, slot, responseLen, fifo>>

WifiStep ==
  WifiSuspend \/ WifiRx \/ WifiRead \/ WifiRespond \/ WifiReadDone \/ WifiTx

\* A line reaches the UART.  Its first byte raises the event; unless the threads
\* are at rest between lines, later bytes may raise it again.
LineArrives ==
  /\ line # <<>> /\ (PacedLines => AtRest)
  /\ line' = Tail(line) /\ fifo' = Append(fifo, Head(line))
  /\ \/ wifiEv' = EventSend(wifiEv, "RX")
     \/ ~PacedLines /\ wifiEv' = EventSend(EventSend(wifiEv, "RX"), "RX")
  /\ UNCHANGED <<netVars, networkStatus, mq, plcVars, wifiPc, wifiStatus,
                 response, flag, slot, txBuf, responseLen, timerVars, link,
                 prompt, received, faults>>

-----------------------------------------------------------------------------
(* The PLC thread: plccomm_rx_thread *)

PlcFlags == EventFlags(plcEv)
OthersUnchangedByPlc ==
  UNCHANGED <<netVars, wifiVars, timerVars, fifo, modemVars>>

\* Bytes of the machine.  Those that come while the thread is awake are taken to
\* come when it sleeps again: one set of flags serves one event, so a flag RX next
\* to INC is either the only one looked at or forgotten.
PlcBytesArrive ==
  /\ plcEv.blocked /\ plcEv' = EventSend(plcEv, "RX")
  /\ UNCHANGED <<networkStatus, mq, tcpOn, sensorCodeCount, plcData>>
  /\ OthersUnchangedByPlc

\* Mutant: received bytes, too, are taken for the sign to send the next sensor.
DueOnAnything ==
  (sensorCodeCount = 1 /\ "RX" \in PlcFlags) \/ sensorCodeCount > 1

\* A new round starts from a valid frame, the next sensors of the round from the
\* acknowledgement of the one before.
PlcDue == \/ sensorCodeCount = 1 /\ "RX" \in PlcFlags
          \/ sensorCodeCount > 1 /\ "INC" \in PlcFlags

\* The flags are consumed in any case: nothing is done while tcpOn is off, and
\* received bytes may not complete a frame.
PlcIdle ==
  /\ ~plcEv.blocked
  /\ ~tcpOn \/ ~PlcDue \/ sensorCodeCount = 1
  /\ plcEv' = EventRecv(plcEv)
  /\ UNCHANGED <<networkStatus, mq, tcpOn, sensorCodeCount, plcData>>
  /\ OthersUnchangedByPlc

\* Mutant: the sample is not dropped while another one is on its way.
SendAnyway(code) ==
  networkStatus' = "SET_SEND_DATA_LENGTH" /\ plcData' = code /\ mq' = Post(mq, "plc")

\* SendData: silently drops the sample unless the manager is ready for it.
SendData(code) ==
  IF networkStatus = "STANDBY_SEND"
    THEN /\ networkStatus' = "SET_SEND_DATA_LENGTH"
         /\ plcData' = code
         /\ mq' = Post(mq, "plc")
    ELSE UNCHANGED <<networkStatus, plcData, mq>>

NextSensor(code) == IF code >= LastCode THEN 1 ELSE code + 1

\* One sensor value of the round; the count moves on even if it was dropped.
PlcSample ==
  /\ ~plcEv.blocked /\ tcpOn /\ PlcDue
  /\ plcEv' = EventRecv(plcEv)
  /\ SendData(sensorCodeCount)
  /\ sensorCodeCount' = NextSensor(sensorCodeCount)
  /\ UNCHANGED tcpOn
  /\ OthersUnchangedByPlc

PlcStep == PlcIdle \/ PlcSample

-----------------------------------------------------------------------------
(* Timers: their callbacks run in the tick interrupt *)

\* A delay or a timeout ends when the threads have come to rest and the line is
\* silent, unless the modem, the server or the threads were that late.
Expires(t) ==
  /\ t \in armed /\ older[t] = {}
  /\ \/ AtRest /\ line = <<>> /\ UNCHANGED faults
     \/ Fault("late")

DelayOver ==
  /\ Expires("delay") /\ StopTimer("delay")
  /\ UNCHANGED <<netVars, networkStatus, mq, plcVars, wifiVars, fifo, line,
                 link, prompt, received>>

\* WifiTimeoutTimer: fills the slot and posts it.
WifiTimeout ==
  /\ Expires("wifi") /\ StopTimer("wifi")
  /\ slot' = [msg |-> "TIMEOUT", stat |-> wifiStatus, flag |-> flag]
  /\ mq' = Post(mq, "wifi")
  /\ response' = "MAX"
  /\ UNCHANGED <<netVars, networkStatus, plcVars, wifiPc, wifiStatus, flag,
                 txBuf, responseLen, wifiEv, fifo, line,
                 link, prompt, received>>

\* SendTimeoutTimer: posts the slot as an error with the data of the last message.
SendTimeout ==
  /\ Expires("send") /\ StopTimer("send")
  /\ slot' = [slot EXCEPT !.msg = "ERROR"]
  /\ mq' = Post(mq, "wifi")
  /\ response' = "MAX"
  /\ UNCHANGED <<netVars, networkStatus, plcVars, wifiPc, wifiStatus, flag,
                 txBuf, responseLen, wifiEv, fifo, line,
                 link, prompt, received>>

\* ResponseTimeoutTimer: DeviceReboot from an interrupt resets at once.
ResponseTimeout == Expires("resp") /\ Reset

TimerStep == DelayOver \/ WifiTimeout \/ SendTimeout \/ ResponseTimeout

-----------------------------------------------------------------------------
Next ==
  \/ NetStep \/ WifiStep \/ PlcStep \/ TimerStep
  \/ LineArrives \/ PlcBytesArrive \/ LinkDrop

Spec == Init /\ [][Next]_vars

\* Every thread that can run does run, complete frames keep coming, and the PLC
\* thread's activity cannot hold up the line or the timers: interrupts are served
\* and time passes, however often the threads are found busy.
Fairness ==
  /\ WF_vars(NetStep) /\ WF_vars(WifiStep) /\ WF_vars(PlcStep)
  /\ WF_vars(PlcBytesArrive)
  /\ SF_vars(PlcSample) /\ SF_vars(LineArrives) /\ SF_vars(TimerStep)

FairSpec == Spec /\ Fairness

-----------------------------------------------------------------------------
Event(flags) == [blocked : BOOLEAN, latch : SUBSET flags, set : SUBSET flags]

NetTypeOK ==
  /\ netPc \in {"recv", "cmd", "resend", "reboot"} /\ netCmd \in Commands
  /\ netPc = "cmd" => netCmd \in WifiCommands
  /\ networkStatus \in Statuses /\ retryCount \in Nat
  /\ tcpSend \in Samples \cup {NoSample}

FlagTypeOK ==
  /\ tcpOn \in BOOLEAN /\ flag \in BOOLEAN
  /\ link \in BOOLEAN /\ prompt \in BOOLEAN

QueueTypeOK == mq \in Seq({"wifi", "plc"}) /\ Len(mq) <= MqSize

PlcTypeOK ==
  /\ sensorCodeCount \in Samples
  /\ plcData \in Samples \cup {NoSample} /\ plcEv \in Event({"RX", "INC"})

WifiTypeOK ==
  /\ wifiPc \in {"recv", "read"} /\ wifiStatus \in Statuses
  /\ response \in Messages \cup {"MAX"}
  /\ slot \in [msg : Messages, stat : Statuses, flag : BOOLEAN]
  /\ txBuf \in Commands /\ responseLen \in {0, 1}
  /\ wifiEv \in Event({"RX", "TX"})

TimerTypeOK == armed \subseteq Timers /\ older \in [Timers -> SUBSET armed]

ModemTypeOK ==
  /\ line \in Seq(Lines) /\ fifo \in Seq(Lines)
  /\ received \in Samples \cup {NoSample} /\ faults \in 0..MaxFaults

\* Type correctness of the whole data path, with the bounds that matter: the
\* manager's queue never outgrows NETWORKMANAGER_MQ_SIZE and a deadline is only
\* ever ordered after a timer that is armed.
TypeOK == /\ NetTypeOK /\ FlagTypeOK /\ QueueTypeOK /\ PlcTypeOK /\ WifiTypeOK
          /\ TimerTypeOK /\ ModemTypeOK

\* The gateway accepts samples only while its own flag says it is connected:
\* SendData (networkmanager.c) looks at the status alone, the PLC thread at the
\* flag alone, and three threads' worth of handlers set them apart.
ReadyImpliesConnected == networkStatus = "STANDBY_SEND" => tcpOn

\* Why that holds: the status comes into being only where the flag is set or found
\* set, the driver never reports it, and a pending resend, the only place that
\* clears the flag, has left it.
ReadyInvariant ==
  /\ TypeOK
  /\ ReadyImpliesConnected
  /\ wifiStatus # "STANDBY_SEND" /\ slot.stat # "STANDBY_SEND"
  /\ netPc = "resend" => networkStatus # "STANDBY_SEND"

\* A gateway that is ready for the next sample has no timer running that could
\* report a failure of, or reset it for, a transmission that is already over.
IdleIsQuiet == networkStatus = "STANDBY_SEND" => armed = {}

\* The part of it that survives every interleaving of threads and lines, as long as
\* no timer comes too late: no pending reset.
NoResetWhenReady == networkStatus = "STANDBY_SEND" => "resp" \notin armed

Silent == AtRest /\ line = <<>> /\ fifo = <<>>

\* Until the gateway counts as connected it never waits for something nobody
\* watches: with the threads at rest and the line silent some timer is armed, so
\* it goes on or resets.
WatchedUntilConnected == Silent /\ ~tcpOn => armed # {}

\* Before the first fault, payload is written to the modem only at its prompt, never
\* into command mode.  After a fault it may be: the retry of a payload writes it
\* without a new length request.
DataOnlyAtPrompt ==
  [][WifiTx /\ txBuf = "DATA" /\ faults = 0 => prompt /\ line = <<>>]_vars

\* Before the first fault samples leave in sensor order and at most one sensor in a
\* row is missed, although SendData drops samples and the count moves on: the
\* first of a round, when its frame comes before the last acknowledgement, or the
\* second, when that acknowledgement is still unread when the first has left.
MissesAtMostOne ==
  [][networkStatus = "STANDBY_SEND" /\ networkStatus' = "SET_SEND_DATA_LENGTH"
     /\ faults = 0
       => LET next == IF plcData = NoSample THEN 1 ELSE NextSensor(plcData)
          IN  plcData' \in {next, NextSensor(next)}]_vars

\* The server keeps receiving rounds of samples.
KeepsDelivering == []<>(received = LastCode) /\ []<>(received # LastCode)

\* What the link promises its user (SendChannel): one sample at a time, delivered
\* before it counts as acknowledged.
Channel == INSTANCE SendChannel WITH
  pending <- IF networkStatus = "STANDBY_SEND" THEN NoSample ELSE plcData,
  got     <- received
ImplementsChannel == Channel!Spec
=============================================================================
