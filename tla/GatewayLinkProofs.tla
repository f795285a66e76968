-------------------------- MODULE GatewayLinkProofs --------------------------
(***************************************************************************)
(* Theorems of GatewayLink, for every size of the queue, number of         *)
(* retries, number of sensors and set of faults: the types and the status  *)
(* first; then, in an orderly environment, that the data path is always in *)
(* one of the phases of GatewayPhases, so it is quiet when ready, watched  *)
(* until connected and a stop-and-wait channel; and last, whatever         *)
(* interleaves, that no reset is pending when it is ready.                 *)
(***************************************************************************)
EXTENDS GatewayUnpaced, TLAPS

-----------------------------------------------------------------------------
(* The kernel objects keep their types. *)

\* rt_event_send gives an event whose flags are those it had and the new one.
LEMMA EventSendType ==
  ASSUME NEW F, NEW ev \in Event(F), NEW f \in F
  PROVE  EventSend(ev, f) \in Event(F)
BY DEF EventSend, Event

\* rt_event_recv takes flags out and adds none.
LEMMA EventRecvType ==
  ASSUME NEW F, NEW ev \in Event(F)
  PROVE  EventRecv(ev) \in Event(F)
BY DEF EventRecv, Event

\* A posted message never takes the queue beyond its size.
LEMMA PostType ==
  ASSUME QueueTypeOK, NEW p \in {"wifi", "plc"}, mq' = Post(mq, p)
  PROVE  QueueTypeOK'
BY ConstantsOK DEF ConstantsOK, QueueTypeOK, Post

\* Taking a message out neither.
LEMMA TailType ==
  ASSUME QueueTypeOK, mq # <<>>, mq' = Tail(mq)
  PROVE  QueueTypeOK'
BY ConstantsOK DEF ConstantsOK, QueueTypeOK

\* A started timer is ordered after armed timers only.
LEMMA StartTimerType ==
  ASSUME TimerTypeOK, NEW t \in Timers, StartTimer(t)
  PROVE  TimerTypeOK'
<1>1. armed' \subseteq Timers
  BY DEF TimerTypeOK, StartTimer
<1>2. ASSUME NEW u \in Timers
      PROVE  (IF u = t THEN {v \in armed \ {t} : Delay[v] <= Delay[t]}
                       ELSE older[u] \ {t}) \in SUBSET armed'
  BY DEF TimerTypeOK, StartTimer
<1>3. older' \in [Timers -> SUBSET armed']
  BY <1>2 DEF StartTimer
<1> QED BY <1>1, <1>3 DEF TimerTypeOK

\* A stopped timer leaves the order.
LEMMA StopTimerType ==
  ASSUME TimerTypeOK, NEW t \in Timers, StopTimer(t)
  PROVE  TimerTypeOK'
<1>1. armed' \subseteq Timers
  BY DEF TimerTypeOK, StopTimer
<1>2. ASSUME NEW u \in Timers
      PROVE  (IF u = t THEN {} ELSE older[u] \ {t}) \in SUBSET armed'
  BY DEF TimerTypeOK, StopTimer
<1>3. older' \in [Timers -> SUBSET armed']
  BY <1>2 DEF StopTimer
<1> QED BY <1>1, <1>3 DEF TimerTypeOK

\* The initial state, and the state after a reset, are well typed.
LEMMA InitType == Init => TypeOK
<1> SUFFICES ASSUME Init PROVE TypeOK
  OBVIOUS
<1> USE ConstantsOK DEF Init, ConstantsOK
<1>1. NetTypeOK
  BY DEF NetTypeOK, Commands, WifiCommands, Statuses, NoSample
<1>2. QueueTypeOK
  BY DEF QueueTypeOK
<1>3. PlcTypeOK
  BY DEF PlcTypeOK, Suspended, Event, Samples, NoSample
<1>4. WifiTypeOK
  BY DEF WifiTypeOK, Suspended, Event, EmptySlot, Messages, Commands, WifiCommands, Statuses
<1>5. TimerTypeOK
  BY DEF TimerTypeOK, Timers
<1>7. FlagTypeOK
  BY DEF FlagTypeOK
<1>6. ModemTypeOK
  BY DEF ModemTypeOK, NoSample
<1> QED BY <1>1, <1>2, <1>3, <1>4, <1>5, <1>6, <1>7 DEF TypeOK

LEMMA ResetType ==
  ASSUME TypeOK, Reset, faults' \in 0..MaxFaults
  PROVE  TypeOK'
<1> USE ConstantsOK DEF Reset, ConstantsOK
<1>1. NetTypeOK'
  BY DEF NetTypeOK, Commands, WifiCommands, Statuses, NoSample
<1>2. QueueTypeOK'
  BY DEF QueueTypeOK
<1>3. PlcTypeOK'
  BY DEF PlcTypeOK, Suspended, Event, Samples, NoSample
<1>4. WifiTypeOK'
  BY DEF WifiTypeOK, Suspended, Event, EmptySlot, Messages, Commands, WifiCommands, Statuses
<1>5. TimerTypeOK'
  BY DEF TimerTypeOK, Timers
<1>7. FlagTypeOK'
  BY DEF TypeOK, FlagTypeOK
<1>6. ModemTypeOK'
  <2>1. line' \in Seq(Lines) /\ fifo' \in Seq(Lines)
    <3>1. CASE line' = line
      BY <3>1 DEF TypeOK, ModemTypeOK
    <3>2. CASE line' = <<>>
      BY <3>2
    <3> QED BY <3>1, <3>2
  <2>2. received' = NoSample
    OBVIOUS
  <2> QED BY <2>1, <2>2 DEF ModemTypeOK
<1> QED BY <1>1, <1>2, <1>3, <1>4, <1>5, <1>6, <1>7 DEF TypeOK

-----------------------------------------------------------------------------
(* The operators of the handlers return what the variables hold. *)

LEMMA NextCommandType ==
  ASSUME NEW stat, NEW value, NextCommand(stat, value) # "NONE"
  PROVE  NextCommand(stat, value) \in WifiCommands
BY DEF NextCommand, WifiCommands

LEMMA CommandStatusType ==
  ASSUME NEW cmd \in WifiCommands
  PROVE  CommandStatus(cmd) \in Statuses \ {"STANDBY_SEND"}
BY DEF CommandStatus, WifiCommands, Statuses

LEMMA StatusAfterType ==
  ASSUME NEW l \in Lines, wifiStatus \in Statuses
  PROVE  /\ StatusAfter(l) \in Statuses
         /\ StatusAfter(l) = "STANDBY_SEND" => wifiStatus = "STANDBY_SEND"
BY DEF StatusAfter, Lines, Statuses

LEMMA ResponseAfterType ==
  ASSUME NEW l \in Lines, response \in Messages \cup {"MAX"}
  PROVE  ResponseAfter(l) \in Messages \cup {"MAX"}
BY DEF ResponseAfter, Messages

LEMMA FlagAfterType ==
  ASSUME NEW l \in Lines, flag \in BOOLEAN
  PROVE  FlagAfter(l) \in BOOLEAN
BY ConstantsOK DEF FlagAfter, ConstantsOK

LEMMA RepliesType ==
  ASSUME NEW cmd, NEW r \in Replies(cmd)
  PROVE  r \in Seq(Lines)
<1>1. \/ r = <<"MODE_STATION", "OK">> \/ r = <<"MODE_OTHER", "OK">>
      \/ r = <<"DHCP_SAME", "OK">> \/ r = <<"DHCP_DIFFERENT", "OK">>
      \/ r = <<"AP", "OK">> \/ r = <<"LOCAL", "OK">> \/ r = <<"OTHER", "OK">>
      \/ r = <<"OK", "PROMPT">> \/ r = <<"ERROR">> \/ r = <<"OK">>
  BY Zenon DEF Replies
<1>2. CASE r = <<"ERROR">> \/ r = <<"OK">>
  BY <1>2 DEF Lines
<1>3. \A x, y \in Lines : <<x, y>> \in Seq(Lines)
  OBVIOUS
<1>4. CASE ~(r = <<"ERROR">> \/ r = <<"OK">>)
  <2>1. PICK x \in Lines, y \in Lines : r = <<x, y>>
    BY <1>1, <1>4, SMTT(15) DEF Lines
  <2> QED BY <1>3, <2>1
<1> QED BY <1>2, <1>4

LEMMA AnswerType ==
  ASSUME line \in Seq(Lines), NEW r \in Seq(Lines), Answer(r)
  PROVE  line' \in Seq(Lines)
BY DEF Answer

LEMMA FaultType ==
  ASSUME faults \in 0..MaxFaults, NEW kind, Fault(kind)
  PROVE  faults' \in 0..MaxFaults
BY ConstantsOK DEF ConstantsOK, Fault

-----------------------------------------------------------------------------
(* One lemma per action: every part of TypeOK survives it. *)

\* The next command of the connection.
LEMMA NetOkCommandType == TypeOK /\ NetOkCommand => TypeOK'
<1> SUFFICES ASSUME TypeOK, NetOkCommand PROVE TypeOK'
  OBVIOUS
<1> USE DEF TypeOK, NetOkCommand, NetRecv, DelayCommand, plcVars, wifiVars, modemVars
<1>1. NetTypeOK'
  BY NextCommandType DEF NetTypeOK, WifiTypeOK, Commands
<1>2. FlagTypeOK'
  BY DEF FlagTypeOK
<1>3. QueueTypeOK'
  BY TailType DEF QueueTypeOK
<1>4. PlcTypeOK'
  BY DEF PlcTypeOK
<1>5. WifiTypeOK'
  BY DEF WifiTypeOK
<1>6. TimerTypeOK'
  BY StartTimerType DEF TimerTypeOK, Timers
<1>7. ModemTypeOK'
  BY DEF ModemTypeOK
<1> QED BY <1>1, <1>2, <1>3, <1>4, <1>5, <1>6, <1>7

\* The connection stands.
LEMMA NetOkConnectedType == TypeOK /\ NetOkConnected => TypeOK'
<1> SUFFICES ASSUME TypeOK, NetOkConnected PROVE TypeOK'
  OBVIOUS
<1> USE DEF TypeOK, NetOkConnected, NetRecv, Stay, SetTcpStatus, wifiVars, modemVars, timerVars
<1>1. NetTypeOK'
  BY DEF NetTypeOK, Statuses
<1>2. FlagTypeOK'
  BY DEF FlagTypeOK
<1>3. QueueTypeOK'
  BY TailType DEF QueueTypeOK
<1>4. PlcTypeOK'
  BY DEF PlcTypeOK
<1>5. WifiTypeOK'
  BY DEF WifiTypeOK
<1>6. TimerTypeOK'
  BY DEF TimerTypeOK
<1>7. ModemTypeOK'
  BY DEF ModemTypeOK
<1> QED BY <1>1, <1>2, <1>3, <1>4, <1>5, <1>6, <1>7

\* The payload goes to the driver.
LEMMA NetOkReadyType == TypeOK /\ NetOkReady => TypeOK'
<1> SUFFICES ASSUME TypeOK, NetOkReady PROVE TypeOK'
  OBVIOUS
<1> USE DEF TypeOK, NetOkReady, NetRecv, Stay, TcpSendData, plcVars, modemVars
<1>1. NetTypeOK'
  BY DEF NetTypeOK, Statuses
<1>2. FlagTypeOK'
  BY DEF FlagTypeOK
<1>3. QueueTypeOK'
  BY TailType DEF QueueTypeOK
<1>4. PlcTypeOK'
  BY DEF PlcTypeOK
<1>5. WifiTypeOK'
  BY EventSendType DEF WifiTypeOK, Statuses, Commands
<1>6. TimerTypeOK'
  BY StartTimerType DEF TimerTypeOK, Timers
<1>7. ModemTypeOK'
  BY DEF ModemTypeOK
<1> QED BY <1>1, <1>2, <1>3, <1>4, <1>5, <1>6, <1>7

\* The payload is sent.
LEMMA NetOkSentType == TypeOK /\ NetOkSent => TypeOK'
<1> SUFFICES ASSUME TypeOK, NetOkSent PROVE TypeOK'
  OBVIOUS
<1> USE DEF TypeOK, NetOkSent, NetRecv, Stay, plcVars, wifiVars, modemVars
<1>1. NetTypeOK'
  BY DEF NetTypeOK, Statuses
<1>2. FlagTypeOK'
  BY DEF FlagTypeOK
<1>3. QueueTypeOK'
  BY TailType DEF QueueTypeOK
<1>4. PlcTypeOK'
  BY DEF PlcTypeOK
<1>5. WifiTypeOK'
  BY DEF WifiTypeOK
<1>6. TimerTypeOK'
  BY StartTimerType DEF TimerTypeOK, Timers
<1>7. ModemTypeOK'
  BY DEF ModemTypeOK
<1> QED BY <1>1, <1>2, <1>3, <1>4, <1>5, <1>6, <1>7

\* The sample is acknowledged.
LEMMA NetOkReceivedType == TypeOK /\ NetOkReceived => TypeOK'
<1> SUFFICES ASSUME TypeOK, NetOkReceived PROVE TypeOK'
  OBVIOUS
<1> USE DEF TypeOK, NetOkReceived, NetRecv, Stay, SetTcpStatus, SetSendEvent, StopResponseTimer, wifiVars, modemVars
<1>1. NetTypeOK'
  BY DEF NetTypeOK, Statuses
<1>2. FlagTypeOK'
  BY DEF FlagTypeOK
<1>3. QueueTypeOK'
  BY TailType DEF QueueTypeOK
<1>4. PlcTypeOK'
  BY EventSendType DEF PlcTypeOK
<1>5. WifiTypeOK'
  BY DEF WifiTypeOK
<1>6. TimerTypeOK'
  BY StopTimerType DEF TimerTypeOK, Timers
<1>7. ModemTypeOK'
  BY DEF ModemTypeOK
<1> QED BY <1>1, <1>2, <1>3, <1>4, <1>5, <1>6, <1>7

\* An OK that means nothing to the manager.
LEMMA NetOkIgnoredType == TypeOK /\ NetOkIgnored => TypeOK'
<1> SUFFICES ASSUME TypeOK, NetOkIgnored PROVE TypeOK'
  OBVIOUS
<1> USE DEF TypeOK, NetOkIgnored, NetRecv, Stay, timerVars, plcVars, wifiVars, modemVars
<1>1. NetTypeOK'
  BY DEF NetTypeOK, WifiTypeOK
<1>2. FlagTypeOK'
  BY DEF FlagTypeOK
<1>3. QueueTypeOK'
  BY TailType DEF QueueTypeOK
<1>4. PlcTypeOK'
  BY DEF PlcTypeOK
<1>5. WifiTypeOK'
  BY DEF WifiTypeOK
<1>6. TimerTypeOK'
  BY DEF TimerTypeOK
<1>7. ModemTypeOK'
  BY DEF ModemTypeOK
<1> QED BY <1>1, <1>2, <1>3, <1>4, <1>5, <1>6, <1>7

\* A failure that ends the connection.
LEMMA NetGiveUpType == TypeOK /\ NetGiveUp => TypeOK'
<1> SUFFICES ASSUME TypeOK, NetGiveUp PROVE TypeOK'
  OBVIOUS
<1> USE DEF TypeOK, NetGiveUp, NetRecv, Reboot, DelayCommand, plcVars, wifiVars, modemVars
<1>1. NetTypeOK'
  BY DEF NetTypeOK, WifiTypeOK, Commands, WifiCommands
<1>2. FlagTypeOK'
  BY DEF FlagTypeOK
<1>3. QueueTypeOK'
  BY TailType DEF QueueTypeOK
<1>4. PlcTypeOK'
  BY DEF PlcTypeOK
<1>5. WifiTypeOK'
  BY DEF WifiTypeOK
<1>6. TimerTypeOK'
  BY StartTimerType DEF TimerTypeOK, Timers
<1>7. ModemTypeOK'
  BY DEF ModemTypeOK
<1> QED BY <1>1, <1>2, <1>3, <1>4, <1>5, <1>6, <1>7

\* A failure that means nothing to the manager.
LEMMA NetFailIgnoredType == TypeOK /\ NetFailIgnored => TypeOK'
<1> SUFFICES ASSUME TypeOK, NetFailIgnored PROVE TypeOK'
  OBVIOUS
<1> USE DEF TypeOK, NetFailIgnored, NetRecv, Stay, timerVars, plcVars, wifiVars, modemVars
<1>1. NetTypeOK'
  BY DEF NetTypeOK, WifiTypeOK
<1>2. FlagTypeOK'
  BY DEF FlagTypeOK
<1>3. QueueTypeOK'
  BY TailType DEF QueueTypeOK
<1>4. PlcTypeOK'
  BY DEF PlcTypeOK
<1>5. WifiTypeOK'
  BY DEF WifiTypeOK
<1>6. TimerTypeOK'
  BY DEF TimerTypeOK
<1>7. ModemTypeOK'
  BY DEF ModemTypeOK
<1> QED BY <1>1, <1>2, <1>3, <1>4, <1>5, <1>6, <1>7

\* A sample is taken over.
LEMMA NetSendDataType == TypeOK /\ NetSendData => TypeOK'
<1> SUFFICES ASSUME TypeOK, NetSendData PROVE TypeOK'
  OBVIOUS
<1> USE DEF TypeOK, NetSendData, KeepPayload, plcVars, timerVars, modemVars
<1>1. NetTypeOK'
  BY DEF NetTypeOK, PlcTypeOK, Statuses
<1>2. FlagTypeOK'
  BY DEF FlagTypeOK
<1>3. QueueTypeOK'
  BY TailType DEF QueueTypeOK
<1>4. PlcTypeOK'
  BY DEF PlcTypeOK
<1>5. WifiTypeOK'
  BY EventSendType DEF WifiTypeOK, Statuses, Commands
<1>6. TimerTypeOK'
  BY DEF TimerTypeOK
<1>7. ModemTypeOK'
  BY DEF ModemTypeOK
<1> QED BY <1>1, <1>2, <1>3, <1>4, <1>5, <1>6, <1>7

\* A command goes to the driver.
LEMMA NetCommandType == TypeOK /\ NetCommand => TypeOK'
<1> SUFFICES ASSUME TypeOK, NetCommand PROVE TypeOK'
  OBVIOUS
<1> USE DEF TypeOK, NetCommand, plcVars, timerVars, modemVars
<1>1. NetTypeOK'
  BY DEF NetTypeOK, Commands
<1>2. FlagTypeOK'
  BY DEF FlagTypeOK
<1>3. QueueTypeOK'
  BY DEF QueueTypeOK
<1>4. PlcTypeOK'
  BY DEF PlcTypeOK
<1>5. WifiTypeOK'
  BY EventSendType, CommandStatusType DEF WifiTypeOK, NetTypeOK
<1>6. TimerTypeOK'
  BY DEF TimerTypeOK
<1>7. ModemTypeOK'
  BY DEF ModemTypeOK
<1> QED BY <1>1, <1>2, <1>3, <1>4, <1>5, <1>6, <1>7

\* The payload goes to the driver again.
LEMMA NetResendType == TypeOK /\ NetResend => TypeOK'
<1> SUFFICES ASSUME TypeOK, NetResend PROVE TypeOK'
  OBVIOUS
<1> USE DEF TypeOK, NetResend, SetTcpStatus, TcpSendData, modemVars
<1>1. NetTypeOK'
  BY DEF NetTypeOK, Commands
<1>2. FlagTypeOK'
  BY DEF FlagTypeOK
<1>3. QueueTypeOK'
  BY DEF QueueTypeOK
<1>4. PlcTypeOK'
  BY DEF PlcTypeOK
<1>5. WifiTypeOK'
  BY EventSendType DEF WifiTypeOK, Statuses, Commands
<1>6. TimerTypeOK'
  BY StartTimerType DEF TimerTypeOK, Timers
<1>7. ModemTypeOK'
  BY DEF ModemTypeOK
<1> QED BY <1>1, <1>2, <1>3, <1>4, <1>5, <1>6, <1>7

\* A failure that is tried again, or one time too many.
LEMMA NetRetryOutcomes ==
  ASSUME NetRetry
  PROVE  \/ Reboot /\ UNCHANGED wifiVars
         \/ /\ netPc' = "resend" /\ netCmd' = "DATA" /\ slot.stat = "SEND_DATA"
            /\ StartTimer("delay") /\ UNCHANGED wifiVars
         \/ TcpSendData /\ Stay
         \/ \E cmd \in {"TCP_CONNECT", "CONNECT_AP"} :
              DelayCommand(cmd) /\ UNCHANGED wifiVars
<1>1. slot.stat \in {"SEND_DATA", "READY_TO_SEND_DATA", "TCP_CONNECT",
                     "CONNECT_WIFI"}
  BY DEF NetRetry
<1>2. CASE retryCount >= RetryMax
  BY <1>2, Zenon DEF NetRetry
<1>3. CASE ~(retryCount >= RetryMax) /\ slot.stat = "SEND_DATA"
  BY <1>3 DEF NetRetry
<1>4. CASE ~(retryCount >= RetryMax) /\ slot.stat = "READY_TO_SEND_DATA"
  BY <1>4 DEF NetRetry
<1>5. CASE ~(retryCount >= RetryMax) /\ slot.stat = "TCP_CONNECT"
  BY <1>5 DEF NetRetry
<1>6. CASE ~(retryCount >= RetryMax) /\ slot.stat = "CONNECT_WIFI"
  BY <1>6 DEF NetRetry
<1> QED BY <1>1, <1>2, <1>3, <1>4, <1>5, <1>6

LEMMA NetRetryType == TypeOK /\ NetRetry => TypeOK'
<1> SUFFICES ASSUME TypeOK, NetRetry PROVE TypeOK'
  OBVIOUS
<1> USE DEF TypeOK, NetRecv, plcVars, modemVars, wifiVars
<1>1. NetTypeOK'
  <2>1. /\ netPc' \in {"recv", "cmd", "resend", "reboot"} /\ netCmd' \in Commands
        /\ netPc' = "cmd" => netCmd' \in WifiCommands
    BY NetRetryOutcomes DEF NetTypeOK, Reboot, Stay, DelayCommand, Commands,
                            WifiCommands
  <2>2. networkStatus' \in Statuses /\ tcpSend' \in Samples \cup {NoSample}
    BY DEF NetRetry, NetTypeOK, WifiTypeOK
  <2>3. retryCount' \in Nat
    BY DEF NetRetry, NetTypeOK
  <2> QED BY <2>1, <2>2, <2>3 DEF NetTypeOK
<1>2. FlagTypeOK'
  <2>1. flag' = flag
    BY NetRetryOutcomes DEF TcpSendData
  <2> QED BY <2>1 DEF NetRetry, FlagTypeOK
<1>3. QueueTypeOK'
  BY TailType DEF NetRetry
<1>4. PlcTypeOK'
  BY DEF NetRetry, PlcTypeOK
<1>5. WifiTypeOK'
  <2>1. CASE UNCHANGED wifiVars
    BY <2>1 DEF WifiTypeOK
  <2>2. CASE TcpSendData
    BY <2>2, EventSendType DEF TcpSendData, WifiTypeOK, Statuses, Commands
  <2> QED BY <2>1, <2>2, NetRetryOutcomes
<1>6. TimerTypeOK'
  <2>1. StartTimer("delay") \/ StartTimer("send")
    BY NetRetryOutcomes DEF Reboot, TcpSendData, DelayCommand
  <2> QED BY <2>1, StartTimerType DEF Timers
<1>7. ModemTypeOK'
  BY DEF NetRetry, ModemTypeOK
<1> QED BY <1>1, <1>2, <1>3, <1>4, <1>5, <1>6, <1>7


\* Nothing to do for the driver.
LEMMA WifiSuspendType == TypeOK /\ WifiSuspend => TypeOK'
<1> SUFFICES ASSUME TypeOK, WifiSuspend PROVE TypeOK'
  OBVIOUS
<1> USE DEF TypeOK, WifiSuspend, WifiAwake, netVars, timerVars, plcVars, modemVars
<1>1. NetTypeOK'
  BY DEF NetTypeOK
<1>2. FlagTypeOK'
  BY DEF FlagTypeOK
<1>3. QueueTypeOK'
  BY DEF QueueTypeOK
<1>4. PlcTypeOK'
  BY DEF PlcTypeOK
<1>5. WifiTypeOK'
  BY EventRecvType DEF WifiTypeOK
<1>6. TimerTypeOK'
  BY DEF TimerTypeOK
<1>7. ModemTypeOK'
  BY DEF ModemTypeOK
<1> QED BY <1>1, <1>2, <1>3, <1>4, <1>5, <1>6, <1>7

\* The driver starts to read.
LEMMA WifiRxType == TypeOK /\ WifiRx => TypeOK'
<1> SUFFICES ASSUME TypeOK, WifiRx PROVE TypeOK'
  OBVIOUS
<1> USE DEF TypeOK, WifiRx, WifiAwake, netVars, timerVars, plcVars, modemVars
<1>1. NetTypeOK'
  BY DEF NetTypeOK
<1>2. FlagTypeOK'
  BY DEF FlagTypeOK
<1>3. QueueTypeOK'
  BY DEF QueueTypeOK
<1>4. PlcTypeOK'
  BY DEF PlcTypeOK
<1>5. WifiTypeOK'
  BY EventRecvType DEF WifiTypeOK
<1>6. TimerTypeOK'
  BY DEF TimerTypeOK
<1>7. ModemTypeOK'
  BY DEF ModemTypeOK
<1> QED BY <1>1, <1>2, <1>3, <1>4, <1>5, <1>6, <1>7

\* A response is posted.
LEMMA WifiRespondType == TypeOK /\ WifiRespond => TypeOK'
<1> SUFFICES ASSUME TypeOK, WifiRespond PROVE TypeOK'
  OBVIOUS
<1> USE DEF TypeOK, WifiRespond, netVars, plcVars, modemVars
<1>1. NetTypeOK'
  BY DEF NetTypeOK
<1>2. FlagTypeOK'
  BY DEF FlagTypeOK
<1>3. QueueTypeOK'
  BY PostType DEF QueueTypeOK
<1>4. PlcTypeOK'
  BY DEF PlcTypeOK
<1>5. WifiTypeOK'
  BY EventRecvType DEF WifiTypeOK, FlagTypeOK, Messages
<1>6. TimerTypeOK'
  BY StopTimerType DEF TimerTypeOK, Timers
<1>7. ModemTypeOK'
  BY DEF ModemTypeOK
<1> QED BY <1>1, <1>2, <1>3, <1>4, <1>5, <1>6, <1>7

\* Nothing to respond.
LEMMA WifiReadDoneType == TypeOK /\ WifiReadDone => TypeOK'
<1> SUFFICES ASSUME TypeOK, WifiReadDone PROVE TypeOK'
  OBVIOUS
<1> USE DEF TypeOK, WifiReadDone, netVars, timerVars, plcVars, modemVars
<1>1. NetTypeOK'
  BY DEF NetTypeOK
<1>2. FlagTypeOK'
  BY DEF FlagTypeOK
<1>3. QueueTypeOK'
  BY DEF QueueTypeOK
<1>4. PlcTypeOK'
  BY DEF PlcTypeOK
<1>5. WifiTypeOK'
  BY DEF WifiTypeOK
<1>6. TimerTypeOK'
  BY DEF TimerTypeOK
<1>7. ModemTypeOK'
  BY DEF ModemTypeOK
<1> QED BY <1>1, <1>2, <1>3, <1>4, <1>5, <1>6, <1>7

\* Bytes of the machine.
LEMMA PlcBytesArriveType == TypeOK /\ PlcBytesArrive => TypeOK'
<1> SUFFICES ASSUME TypeOK, PlcBytesArrive PROVE TypeOK'
  OBVIOUS
<1> USE DEF TypeOK, PlcBytesArrive, OthersUnchangedByPlc, netVars, timerVars, wifiVars, modemVars
<1>1. NetTypeOK'
  BY DEF NetTypeOK
<1>2. FlagTypeOK'
  BY DEF FlagTypeOK
<1>3. QueueTypeOK'
  BY DEF QueueTypeOK
<1>4. PlcTypeOK'
  BY EventSendType DEF PlcTypeOK
<1>5. WifiTypeOK'
  BY DEF WifiTypeOK
<1>6. TimerTypeOK'
  BY DEF TimerTypeOK
<1>7. ModemTypeOK'
  BY DEF ModemTypeOK
<1> QED BY <1>1, <1>2, <1>3, <1>4, <1>5, <1>6, <1>7

\* Flags that lead to nothing.
LEMMA PlcIdleType == TypeOK /\ PlcIdle => TypeOK'
<1> SUFFICES ASSUME TypeOK, PlcIdle PROVE TypeOK'
  OBVIOUS
<1> USE DEF TypeOK, PlcIdle, OthersUnchangedByPlc, netVars, timerVars, wifiVars, modemVars
<1>1. NetTypeOK'
  BY DEF NetTypeOK
<1>2. FlagTypeOK'
  BY DEF FlagTypeOK
<1>3. QueueTypeOK'
  BY DEF QueueTypeOK
<1>4. PlcTypeOK'
  BY EventRecvType DEF PlcTypeOK
<1>5. WifiTypeOK'
  BY DEF WifiTypeOK
<1>6. TimerTypeOK'
  BY DEF TimerTypeOK
<1>7. ModemTypeOK'
  BY DEF ModemTypeOK
<1> QED BY <1>1, <1>2, <1>3, <1>4, <1>5, <1>6, <1>7

\* A sensor's turn.
LEMMA PlcSampleType == TypeOK /\ PlcSample => TypeOK'
<1> SUFFICES ASSUME TypeOK, PlcSample PROVE TypeOK'
  OBVIOUS
<1> USE DEF TypeOK, PlcSample, OthersUnchangedByPlc, SendData, NextSensor, netVars, timerVars, wifiVars, modemVars
<1>1. NetTypeOK'
  BY DEF NetTypeOK, Statuses
<1>2. FlagTypeOK'
  BY DEF FlagTypeOK
<1>3. QueueTypeOK'
  BY PostType DEF QueueTypeOK
<1>4. PlcTypeOK'
  BY EventRecvType, ConstantsOK DEF PlcTypeOK, ConstantsOK, Samples
<1>5. WifiTypeOK'
  BY DEF WifiTypeOK
<1>6. TimerTypeOK'
  BY DEF TimerTypeOK
<1>7. ModemTypeOK'
  BY DEF ModemTypeOK
<1> QED BY <1>1, <1>2, <1>3, <1>4, <1>5, <1>6, <1>7

\* A delay ends.
LEMMA DelayOverType == TypeOK /\ DelayOver => TypeOK'
<1> SUFFICES ASSUME TypeOK, DelayOver PROVE TypeOK'
  OBVIOUS
<1> USE DEF TypeOK, DelayOver, Expires, netVars, plcVars, wifiVars
<1>1. NetTypeOK'
  BY DEF NetTypeOK
<1>2. FlagTypeOK'
  BY DEF FlagTypeOK
<1>3. QueueTypeOK'
  BY DEF QueueTypeOK
<1>4. PlcTypeOK'
  BY DEF PlcTypeOK
<1>5. WifiTypeOK'
  BY DEF WifiTypeOK
<1>6. TimerTypeOK'
  BY StopTimerType DEF TimerTypeOK, Timers
<1>7. ModemTypeOK'
  BY FaultType DEF ModemTypeOK
<1> QED BY <1>1, <1>2, <1>3, <1>4, <1>5, <1>6, <1>7

\* A transmission was not answered.
LEMMA WifiTimeoutType == TypeOK /\ WifiTimeout => TypeOK'
<1> SUFFICES ASSUME TypeOK, WifiTimeout PROVE TypeOK'
  OBVIOUS
<1> USE DEF TypeOK, WifiTimeout, Expires, netVars, plcVars
<1>1. NetTypeOK'
  BY DEF NetTypeOK
<1>2. FlagTypeOK'
  BY DEF FlagTypeOK
<1>3. QueueTypeOK'
  BY PostType DEF QueueTypeOK
<1>4. PlcTypeOK'
  BY DEF PlcTypeOK
<1>5. WifiTypeOK'
  BY DEF WifiTypeOK, FlagTypeOK, Messages
<1>6. TimerTypeOK'
  BY StopTimerType DEF TimerTypeOK, Timers
<1>7. ModemTypeOK'
  BY FaultType DEF ModemTypeOK
<1> QED BY <1>1, <1>2, <1>3, <1>4, <1>5, <1>6, <1>7

\* A payload was not acknowledged.
LEMMA SendTimeoutType == TypeOK /\ SendTimeout => TypeOK'
<1> SUFFICES ASSUME TypeOK, SendTimeout PROVE TypeOK'
  OBVIOUS
<1> USE DEF TypeOK, SendTimeout, Expires, netVars, plcVars
<1>1. NetTypeOK'
  BY DEF NetTypeOK
<1>2. FlagTypeOK'
  BY DEF FlagTypeOK
<1>3. QueueTypeOK'
  BY PostType DEF QueueTypeOK
<1>4. PlcTypeOK'
  BY DEF PlcTypeOK
<1>5. WifiTypeOK'
  BY DEF WifiTypeOK, Messages
<1>6. TimerTypeOK'
  BY StopTimerType DEF TimerTypeOK, Timers
<1>7. ModemTypeOK'
  BY FaultType DEF ModemTypeOK
<1> QED BY <1>1, <1>2, <1>3, <1>4, <1>5, <1>6, <1>7


\* A line is parsed.
LEMMA WifiReadType == TypeOK /\ WifiRead => TypeOK'
<1> SUFFICES ASSUME TypeOK, WifiRead PROVE TypeOK'
  OBVIOUS
<1> DEFINE l == Head(fifo)
<1> USE DEF TypeOK, netVars, plcVars, modemVars, timerVars
<1>0. l \in Lines
  BY DEF ModemTypeOK, WifiRead
<1>1. NetTypeOK'
  BY DEF NetTypeOK, WifiRead
<1>2. FlagTypeOK'
  <2>1. flag' = FlagAfter(l)
    BY DEF WifiRead
  <2>2. flag' \in BOOLEAN
    BY <1>0, <2>1, FlagAfterType DEF FlagTypeOK
  <2> QED BY <2>2 DEF FlagTypeOK, WifiRead
<1>3. QueueTypeOK'
  BY DEF QueueTypeOK, WifiRead
<1>4. PlcTypeOK'
  BY DEF PlcTypeOK, WifiRead
<1>5. WifiTypeOK'
  <2>1. wifiStatus' \in Statuses
    BY <1>0, StatusAfterType DEF WifiTypeOK, WifiRead
  <2>2. response' \in Messages \cup {"MAX"}
    BY <1>0, ResponseAfterType DEF WifiTypeOK, WifiRead
  <2> QED BY <2>1, <2>2 DEF WifiTypeOK, WifiRead
<1>6. TimerTypeOK'
  <2>1. StopTimer("send") \/ UNCHANGED timerVars
    BY DEF WifiRead
  <2>2. CASE UNCHANGED timerVars
    BY <2>2 DEF TimerTypeOK
  <2> QED BY <2>1, <2>2, StopTimerType DEF Timers
<1>7. ModemTypeOK'
  BY DEF ModemTypeOK, WifiRead
<1> QED BY <1>1, <1>2, <1>3, <1>4, <1>5, <1>6, <1>7

\* Whatever the modem does with what is written to it, it stays well typed.
LEMMA ModemReacts ==
  ASSUME TypeOK, WifiTx
  PROVE  ModemTypeOK' /\ link' \in BOOLEAN /\ prompt' \in BOOLEAN
<1> USE DEF TypeOK
<1>1. fifo' = fifo
  BY DEF WifiTx
<1>2. \/ UNCHANGED modemVars
      \/ ModemCommand(txBuf) \/ ModemPayload \/ ModemSendFails
      \/ ModemSwallow \/ ModemSilent \/ ModemRefuses \/ ModemAsksAgain
  BY DEF WifiTx, ModemBusy
<1>3. line \in Seq(Lines) /\ faults \in 0..MaxFaults
      /\ received \in Samples \cup {NoSample} /\ tcpSend \in Samples \cup {NoSample}
  BY DEF ModemTypeOK, NetTypeOK
<1>4. <<>> \in Seq(Lines) /\ <<"ERROR">> \in Seq(Lines)
      /\ <<"SEND_FAIL">> \in Seq(Lines) /\ <<"SEND_OK">> \in Seq(Lines)
  BY DEF Lines
<1>5. /\ <<"SEND_OK", "IPD_OK">> \in Seq(Lines) /\ <<"SEND_OK", "IPD_ER">> \in Seq(Lines)
      /\ <<"SEND_OK", "IPD_ELSE">> \in Seq(Lines) /\ <<"IPD_OK", "SEND_OK">> \in Seq(Lines)
  BY DEF Lines
<1>6. line' \in Seq(Lines)
  <2>1. CASE UNCHANGED modemVars
    BY <1>3, <2>1 DEF modemVars
  <2>2. CASE ModemCommand(txBuf)
    BY <1>3, <2>2, RepliesType, AnswerType DEF ModemCommand
  <2>3. CASE ModemPayload
    BY <1>3, <1>4, <1>5, <2>3, AnswerType DEF ModemPayload
  <2>4. CASE ModemSendFails \/ ModemSwallow \/ ModemSilent \/ ModemRefuses \/ ModemAsksAgain
    BY <1>3, <1>4, <2>4, AnswerType
       DEF ModemSendFails, ModemSwallow, ModemSilent, ModemRefuses, ModemAsksAgain
  <2> QED BY <1>2, <2>1, <2>2, <2>3, <2>4
<1>7. faults' \in 0..MaxFaults
  BY <1>2, <1>3, FaultType DEF ModemCommand, ModemPayload, ModemSendFails,
       ModemSwallow, ModemSilent, ModemRefuses, ModemAsksAgain, NoFault, modemVars
<1>8. received' \in Samples \cup {NoSample}
  BY <1>2, <1>3 DEF ModemCommand, ModemPayload, ModemSendFails, ModemSwallow,
       ModemSilent, ModemRefuses, ModemAsksAgain, modemVars
<1>9. link' \in BOOLEAN /\ prompt' \in BOOLEAN
  <2>1. link \in BOOLEAN /\ prompt \in BOOLEAN
    BY DEF FlagTypeOK
  <2> QED BY <1>2, <2>1 DEF ModemCommand, ModemPayload, ModemSendFails,
        ModemSwallow, ModemSilent, ModemRefuses, ModemAsksAgain, SameLink, modemVars
<1>10. ModemTypeOK'
  BY <1>1, <1>6, <1>7, <1>8 DEF ModemTypeOK
<1> QED BY <1>9, <1>10

\* A transmission is written.
LEMMA WifiTxType == TypeOK /\ WifiTx => TypeOK'
<1> SUFFICES ASSUME TypeOK, WifiTx PROVE TypeOK'
  OBVIOUS
<1> USE DEF TypeOK, WifiTx, WifiAwake, netVars, plcVars
<1>1. NetTypeOK'
  BY DEF NetTypeOK
<1>2. FlagTypeOK'
  BY ModemReacts DEF FlagTypeOK
<1>3. QueueTypeOK'
  BY DEF QueueTypeOK
<1>4. PlcTypeOK'
  BY DEF PlcTypeOK
<1>5. WifiTypeOK'
  BY EventRecvType DEF WifiTypeOK, Commands
<1>6. TimerTypeOK'
  BY StartTimerType DEF Timers, WatchTransmission
<1>7. ModemTypeOK'
  BY ModemReacts
<1> QED BY <1>1, <1>2, <1>3, <1>4, <1>5, <1>6, <1>7

\* A line reaches the UART.
LEMMA LineArrivesType == TypeOK /\ LineArrives => TypeOK'
<1> SUFFICES ASSUME TypeOK, LineArrives PROVE TypeOK'
  OBVIOUS
<1> USE DEF TypeOK, LineArrives, netVars, plcVars, timerVars
<1>1. NetTypeOK'
  BY DEF NetTypeOK
<1>2. FlagTypeOK'
  BY DEF FlagTypeOK
<1>3. QueueTypeOK'
  BY DEF QueueTypeOK
<1>4. PlcTypeOK'
  BY DEF PlcTypeOK
<1>5. WifiTypeOK'
  <2>1. wifiEv' \in Event({"RX", "TX"})
    BY EventSendType DEF WifiTypeOK
  <2> QED BY <2>1 DEF WifiTypeOK
<1>6. TimerTypeOK'
  BY DEF TimerTypeOK
<1>7. ModemTypeOK'
  <2>1. line' \in Seq(Lines) /\ fifo' \in Seq(Lines)
    BY DEF ModemTypeOK
  <2> QED BY <2>1 DEF ModemTypeOK
<1> QED BY <1>1, <1>2, <1>3, <1>4, <1>5, <1>6, <1>7

\* The connection drops.
LEMMA LinkDropType == TypeOK /\ LinkDrop => TypeOK'
<1> SUFFICES ASSUME TypeOK, LinkDrop PROVE TypeOK'
  OBVIOUS
<1> USE DEF TypeOK, LinkDrop, netVars, plcVars, wifiVars, timerVars
<1>1. NetTypeOK'
  BY DEF NetTypeOK
<1>2. FlagTypeOK'
  BY DEF FlagTypeOK
<1>3. QueueTypeOK'
  BY DEF QueueTypeOK
<1>4. PlcTypeOK'
  BY DEF PlcTypeOK
<1>5. WifiTypeOK'
  BY DEF WifiTypeOK
<1>6. TimerTypeOK'
  BY DEF TimerTypeOK
<1>7. ModemTypeOK'
  <2>1. <<"OTHER">> \in Seq(Lines)
    BY DEF Lines
  <2> QED BY <2>1, AnswerType, FaultType DEF ModemTypeOK
<1> QED BY <1>1, <1>2, <1>3, <1>4, <1>5, <1>6, <1>7


-----------------------------------------------------------------------------
(* Theorems *)

\* No handler, interrupt or answer of the modem takes a variable out of its type.
LEMMA TypeStep == TypeOK /\ [Next]_vars => TypeOK'
<1> SUFFICES ASSUME TypeOK, [Next]_vars PROVE TypeOK'
  OBVIOUS
<1>1. CASE NetStep
  <2>1. CASE NetReset
    BY <2>1, ResetType DEF NetReset, TypeOK, ModemTypeOK
  <2> QED BY <1>1, <2>1, NetOkCommandType, NetOkConnectedType, NetOkReadyType,
        NetOkSentType, NetOkReceivedType, NetOkIgnoredType, NetRetryType,
        NetGiveUpType, NetFailIgnoredType, NetSendDataType, NetCommandType,
        NetResendType DEF NetStep
<1>2. CASE WifiStep
  BY <1>2, WifiSuspendType, WifiRxType, WifiReadType, WifiRespondType,
     WifiReadDoneType, WifiTxType DEF WifiStep
<1>3. CASE PlcStep
  BY <1>3, PlcIdleType, PlcSampleType DEF PlcStep
<1>4. CASE TimerStep
  <2>1. CASE ResponseTimeout
    <3>1. faults' \in 0..MaxFaults
      BY <2>1, FaultType DEF ResponseTimeout, Expires, TypeOK, ModemTypeOK
    <3> QED BY <2>1, <3>1, ResetType DEF ResponseTimeout
  <2> QED BY <1>4, <2>1, DelayOverType, WifiTimeoutType, SendTimeoutType
        DEF TimerStep
<1>5. CASE LineArrives \/ PlcBytesArrive \/ LinkDrop
  BY <1>5, LineArrivesType, PlcBytesArriveType, LinkDropType
<1>6. CASE UNCHANGED vars
  <2> USE <1>6 DEF vars, TypeOK, netVars, plcVars, wifiVars, timerVars, modemVars
  <2>1. NetTypeOK' /\ QueueTypeOK'
    BY DEF NetTypeOK, QueueTypeOK
  <2>2. FlagTypeOK'
    BY DEF FlagTypeOK
  <2>3. PlcTypeOK' /\ WifiTypeOK'
    BY DEF PlcTypeOK, WifiTypeOK
  <2>4. TimerTypeOK' /\ ModemTypeOK'
    BY DEF TimerTypeOK, ModemTypeOK
  <2> QED BY <2>1, <2>2, <2>3, <2>4
<1> QED BY <1>1, <1>2, <1>3, <1>4, <1>5, <1>6 DEF Next

\* Type correctness for every queue size, number of sensors and set of faults: the
\* manager's queue stays within NETWORKMANAGER_MQ_SIZE whoever posts to it, thread
\* or interrupt.
THEOREM TypeCorrect == Spec => []TypeOK
<1>1. Init => TypeOK
  BY InitType
<1>2. TypeOK /\ [Next]_vars => TypeOK'
  BY TypeStep
<1> QED BY <1>1, <1>2, PTL DEF Spec

LEMMA ReadyInit == Init => ReadyInvariant
<1> SUFFICES ASSUME Init PROVE ReadyInvariant
  OBVIOUS
<1>1. TypeOK
  BY InitType
<1>2. ReadyImpliesConnected
  BY DEF Init, ReadyImpliesConnected
<1>3. wifiStatus # "STANDBY_SEND" /\ slot.stat # "STANDBY_SEND"
  BY DEF Init, EmptySlot
<1>4. netPc = "resend" => networkStatus # "STANDBY_SEND"
  BY DEF Init
<1> QED BY <1>1, <1>2, <1>3, <1>4 DEF ReadyInvariant

\* The driver never claims the status that is the manager's own.
LEMMA DriverNeverReady ==
  ASSUME ReadyInvariant, [Next]_vars
  PROVE  wifiStatus' # "STANDBY_SEND" /\ slot'.stat # "STANDBY_SEND"
<1> USE DEF ReadyInvariant, TypeOK
<1>1. CASE NetStep
  <2> USE DEF wifiVars
  <2>1. CASE NetCommand
    <3>1. netCmd \in WifiCommands
      BY <2>1 DEF NetCommand, NetTypeOK
    <3> QED BY <2>1, <3>1, CommandStatusType DEF NetCommand
  <2>2. CASE NetOkReady \/ NetResend
    BY <2>2 DEF NetOkReady, NetResend, TcpSendData
  <2>3. CASE NetRetry
    BY <2>3, NetRetryOutcomes DEF TcpSendData
  <2>4. CASE NetSendData
    BY <2>4 DEF NetSendData
  <2>5. CASE NetReset
    BY <2>5 DEF NetReset, Reset, EmptySlot
  <2>6. CASE NetOkCommand \/ NetOkConnected \/ NetOkSent \/ NetOkReceived
             \/ NetOkIgnored \/ NetGiveUp \/ NetFailIgnored
    BY <2>6 DEF NetOkCommand, NetOkConnected, NetOkSent, NetOkReceived,
         NetOkIgnored, NetGiveUp, NetFailIgnored
  <2> QED BY <1>1, <2>1, <2>2, <2>3, <2>4, <2>5, <2>6 DEF NetStep
<1>2. CASE WifiStep
  <2>1. CASE WifiRead
    <3>1. Head(fifo) \in Lines
      BY <2>1 DEF WifiRead, ModemTypeOK
    <3>2. wifiStatus' = StatusAfter(Head(fifo)) /\ UNCHANGED slot
      BY <2>1 DEF WifiRead
    <3> QED BY <3>1, <3>2, StatusAfterType DEF WifiTypeOK
  <2>2. CASE WifiRespond
    BY <2>2 DEF WifiRespond
  <2>3. CASE WifiSuspend \/ WifiRx \/ WifiReadDone \/ WifiTx
    BY <2>3 DEF WifiSuspend, WifiRx, WifiReadDone, WifiTx
  <2> QED BY <1>2, <2>1, <2>2, <2>3 DEF WifiStep
<1>3. CASE PlcStep
  BY <1>3 DEF PlcStep, PlcIdle, PlcSample, OthersUnchangedByPlc, wifiVars
<1>4. CASE TimerStep
  <2>1. CASE DelayOver \/ WifiTimeout
    BY <2>1 DEF DelayOver, WifiTimeout, wifiVars
  <2>2. CASE SendTimeout
    BY <2>2 DEF SendTimeout, WifiTypeOK
  <2>3. CASE ResponseTimeout
    BY <2>3 DEF ResponseTimeout, Reset, EmptySlot
  <2> QED BY <1>4, <2>1, <2>2, <2>3 DEF TimerStep
<1>5. CASE LineArrives \/ PlcBytesArrive \/ LinkDrop
  BY <1>5 DEF LineArrives, PlcBytesArrive, OthersUnchangedByPlc, LinkDrop, wifiVars
<1>6. CASE UNCHANGED vars
  BY <1>6 DEF vars, wifiVars
<1> QED BY <1>1, <1>2, <1>3, <1>4, <1>5, <1>6 DEF Next

\* Which steps make the gateway ready, clear its flag, or wait for a resend.
LEMMA ReadyStep == ReadyInvariant /\ [Next]_vars => ReadyInvariant'
<1> SUFFICES ASSUME ReadyInvariant, [Next]_vars PROVE ReadyInvariant'
  OBVIOUS
<1>1. TypeOK'
  BY TypeStep DEF ReadyInvariant
<1>2. wifiStatus' # "STANDBY_SEND" /\ slot'.stat # "STANDBY_SEND"
  BY DriverNeverReady
<1>3. /\ networkStatus' = "STANDBY_SEND" => tcpOn' = TRUE
      /\ netPc' = "resend" => networkStatus' # "STANDBY_SEND"
  <2>0. /\ networkStatus = "STANDBY_SEND" => tcpOn = TRUE
        /\ netPc = "resend" => networkStatus # "STANDBY_SEND"
        /\ slot.stat # "STANDBY_SEND"
    BY DEF ReadyInvariant, ReadyImpliesConnected, TypeOK, FlagTypeOK
  <2>1. CASE NetOkCommand \/ NetOkReady \/ NetOkSent \/ NetOkIgnored
    BY <2>0, <2>1 DEF NetOkCommand, NetOkReady, NetOkSent, NetOkIgnored, NetRecv,
         DelayCommand, Stay
  <2>2. CASE NetOkConnected \/ NetOkReceived
    BY <2>2 DEF NetOkConnected, NetOkReceived, NetRecv, Stay, SetTcpStatus
  <2>3. CASE NetRetry \/ NetGiveUp \/ NetFailIgnored
    BY <2>0, <2>3 DEF NetRetry, NetGiveUp, NetFailIgnored
  <2>4. CASE NetSendData
    BY <2>4 DEF NetSendData
  <2>5. CASE NetCommand
    BY <2>0, <2>5 DEF NetCommand, plcVars
  <2>6. CASE NetResend
    BY <2>0, <2>6 DEF NetResend
  <2>7. CASE NetReset \/ ResponseTimeout
    BY <2>7 DEF NetReset, ResponseTimeout, Reset
  <2>8. CASE PlcIdle \/ PlcSample
    BY <2>0, <2>8 DEF PlcIdle, PlcSample, OthersUnchangedByPlc, SendData, netVars
  <2>9. CASE WifiStep
    BY <2>0, <2>9 DEF WifiStep, WifiSuspend, WifiRx, WifiRead, WifiRespond,
         WifiReadDone, WifiTx, netVars, plcVars
  <2>10. CASE DelayOver \/ WifiTimeout \/ SendTimeout
    BY <2>0, <2>10 DEF DelayOver, WifiTimeout, SendTimeout, netVars, plcVars
  <2>11. CASE LineArrives \/ PlcBytesArrive \/ LinkDrop
    BY <2>0, <2>11 DEF LineArrives, PlcBytesArrive, OthersUnchangedByPlc, LinkDrop,
         netVars, plcVars
  <2>12. CASE UNCHANGED vars
    BY <2>0, <2>12 DEF vars, netVars, plcVars
  <2> QED BY <2>1, <2>2, <2>3, <2>4, <2>5, <2>6, <2>7, <2>8, <2>9, <2>10,
        <2>11, <2>12 DEF Next, NetStep, PlcStep, TimerStep
<1> QED BY <1>1, <1>2, <1>3 DEF ReadyInvariant, ReadyImpliesConnected

\* SendData (networkmanager.c) accepts samples by the manager's status alone, the
\* PLC thread samples by its flag alone: whatever the modem and the timers do, the
\* status never says ready while the flag says disconnected.
THEOREM ReadyCorrect == Spec => []ReadyImpliesConnected
<1>1. Init => ReadyInvariant
  BY ReadyInit
<1>2. ReadyInvariant /\ [Next]_vars => ReadyInvariant'
  BY ReadyStep
<1>3. ReadyInvariant => ReadyImpliesConnected
  BY DEF ReadyInvariant
<1> QED BY <1>1, <1>2, <1>3, PTL DEF Spec

-----------------------------------------------------------------------------
(* What is said *)

\* Lines that do not matter stay so when one more arrives or one is taken.
LEMMA OtherLines ==
  ASSUME NEW l \in Seq({"OTHER"})
  PROVE  l \o <<"OTHER">> \in Seq({"OTHER"}) /\ (l # <<>> => Tail(l) \in Seq({"OTHER"}) /\ Head(l) = "OTHER")
OBVIOUS

\* An empty buffer adds nothing to what is said.
LEMMA SaidEmpty ==
  ASSUME ModemTypeOK, fifo = <<>>
  PROVE  Said = line
BY DEF ModemTypeOK, Said

\* A line that moves from the wire to the buffer changes nothing of what is said.
LEMMA SaidArrives ==
  ASSUME ModemTypeOK, fifo = <<>>, line # <<>>,
         line' = Tail(line), fifo' = Append(fifo, Head(line))
  PROVE  Said' = Said
<1>1. Said = line
  BY SaidEmpty
<1>2. fifo' = <<Head(line)>>
  BY DEF ModemTypeOK
<1>3. Said' = <<Head(line)>> \o Tail(line)
  BY <1>2 DEF Said
<1>4. line \in Seq(Lines)
  BY DEF ModemTypeOK
<1>5. <<Head(line)>> \o Tail(line) = line
  BY <1>4
<1> QED BY <1>1, <1>3, <1>5

\* A read takes the first line of what is said.
LEMMA SaidRead ==
  ASSUME ModemTypeOK, DriverOK, fifo # <<>>, fifo' = <<>>, line' = line
  PROVE  Said # <<>> /\ Head(Said) = Head(fifo) /\ Said' = Tail(Said) /\ Head(fifo) \in Lines
<1>1. fifo \in Seq(Lines) /\ line \in Seq(Lines)
  BY DEF ModemTypeOK
<1>2. Len(fifo) = 1
  <2>1. Len(fifo) <= 1
    BY DEF DriverOK
  <2>2. Len(fifo) # 0
    BY <1>1
  <2>3. Len(fifo) \in Nat
    BY <1>1
  <2>4. \A n \in Nat : n <= 1 /\ n # 0 => n = 1
    OBVIOUS
  <2> QED BY ONLY <2>1, <2>2, <2>3, <2>4
<1>3. PICK x \in Lines : fifo = <<x>>
  <2>1. fifo[1] \in Lines /\ fifo = <<fifo[1]>>
    BY <1>1, <1>2
  <2> QED BY <2>1
<1>4. Head(<<x>> \o line) = x /\ Tail(<<x>> \o line) = line /\ <<x>> \o line # <<>>
  BY <1>1
<1>5. Said = <<x>> \o line /\ Said' = line
  BY <1>1, <1>3 DEF Said
<1> QED BY <1>3, <1>4, <1>5

\* The report of a lost connection comes last.
LEMMA SaidDrop ==
  ASSUME ModemTypeOK, line' = line \o <<"OTHER">>, fifo' = fifo
  PROVE  Said' = Said \o <<"OTHER">>
BY DEF ModemTypeOK, Said

-----------------------------------------------------------------------------
(* The driver in every phase *)

\* A step of another thread leaves the driver's part alone.
LEMMA DriverSame ==
  ASSUME DriverOK, UNCHANGED <<wifiPc, fifo, wifiEv>>, response' \in {response, "MAX"}
  PROVE  DriverOK'
BY DEF DriverOK

\* A request to transmit reaches the driver without overtaking a line.
LEMMA DriverAsked ==
  ASSUME DriverOK, UNCHANGED <<wifiPc, fifo, response>>, wifiEv' = EventSend(wifiEv, "TX"),
         WifiTypeOK
  PROVE  DriverOK'
<1>1. wifiEv \in [blocked : BOOLEAN, latch : SUBSET {"RX", "TX"}, set : SUBSET {"RX", "TX"}]
  BY DEF WifiTypeOK, Event
<1>2. CASE wifiEv.blocked
  BY <1>1, <1>2 DEF DriverOK, EventSend
<1>3. CASE ~wifiEv.blocked
  BY <1>1, <1>3 DEF DriverOK, EventSend
<1> QED BY <1>2, <1>3

\* A reset leaves the driver waiting.
LEMMA DriverReset ==
  ASSUME Reset
  PROVE  DriverOK'
BY DEF Reset, DriverOK, Suspended

\* The driver's own steps keep its part.
LEMMA DriverWifi ==
  ASSUME DriverOK, TypeOK, WifiStep
  PROVE  DriverOK'
<1>1. wifiEv \in [blocked : BOOLEAN, latch : SUBSET {"RX", "TX"}, set : SUBSET {"RX", "TX"}]
  BY DEF TypeOK, WifiTypeOK, Event
<1>2. CASE WifiSuspend
  BY <1>1, <1>2 DEF DriverOK, WifiSuspend, WifiAwake, EventFlags, EventRecv
<1>3. CASE WifiRx
  BY <1>1, <1>3 DEF DriverOK, WifiRx, WifiAwake, EventFlags, EventRecv
<1>4. CASE WifiRead
  <2>1. fifo' = <<>> /\ UNCHANGED <<wifiPc, wifiEv>> /\ wifiPc = "read"
    BY <1>4 DEF WifiRead
  <2> QED BY <2>1 DEF DriverOK
<1>5. CASE WifiRespond
  BY <1>1, <1>5 DEF DriverOK, WifiRespond
<1>6. CASE WifiReadDone
  BY <1>1, <1>6 DEF DriverOK, WifiReadDone
<1>7. CASE WifiTx
  BY <1>1, <1>7 DEF DriverOK, WifiTx, WifiAwake, EventFlags, EventRecv
<1> QED BY <1>2, <1>3, <1>4, <1>5, <1>6, <1>7 DEF WifiStep

\* A line arrives at a driver that waits, with nothing else to do.
LEMMA DriverArrives ==
  ASSUME DriverOK, TypeOK, PacedLines, LineArrives
  PROVE  DriverOK' /\ AtRest /\ fifo = <<>> /\ ~Sending /\ ~Sending' /\ response = "MAX"
<1>1. wifiEv \in [blocked : BOOLEAN, latch : SUBSET {"RX", "TX"}, set : SUBSET {"RX", "TX"}]
  BY DEF TypeOK, WifiTypeOK, Event
<1>2. AtRest /\ wifiPc = "recv" /\ wifiEv.blocked
  BY DEF LineArrives, AtRest
<1>3. wifiEv.latch = {} /\ wifiEv.set = {} /\ fifo = <<>> /\ response = "MAX"
  BY <1>2 DEF DriverOK
<1>4. wifiEv' = [blocked |-> FALSE, latch |-> {"RX"}, set |-> {}]
  BY <1>2, <1>3 DEF LineArrives, EventSend
<1>5. fifo' = Append(<<>>, Head(line)) /\ UNCHANGED <<wifiPc, response>>
  BY <1>3 DEF LineArrives
<1>6. Len(fifo') = 1 /\ fifo' # <<>>
  <2>1. line \in Seq(Lines) /\ line # <<>>
    BY DEF TypeOK, ModemTypeOK, LineArrives
  <2>2. fifo' = <<Head(line)>>
    BY <1>5, <2>1
  <2> QED BY <2>2
<1>7. DriverOK'
  BY <1>2, <1>3, <1>4, <1>5, <1>6 DEF DriverOK
<1> QED BY <1>2, <1>3, <1>4, <1>7 DEF Sending

\* DriverOK is kept, as long as the lines are paced.
LEMMA DriverStep ==
  ASSUME DriverOK, TypeOK, PacedLines, Next
  PROVE  DriverOK'
<1>1. CASE NetStep
  <2>1. CASE NetReset
    BY <2>1, DriverReset DEF NetReset
  <2>2. CASE NetOkReady
    BY <2>2, DriverAsked DEF NetOkReady, TcpSendData, TypeOK
  <2>3. CASE NetResend
    BY <2>3, DriverAsked DEF NetResend, TcpSendData, TypeOK
  <2>4. CASE NetSendData
    BY <2>4, DriverAsked DEF NetSendData, TypeOK
  <2>5. CASE NetCommand
    BY <2>5, DriverAsked DEF NetCommand, TypeOK
  <2>6. CASE NetRetry
    <3>1. UNCHANGED wifiVars \/ TcpSendData
      BY <2>6 DEF NetRetry
    <3>2. fifo' = fifo
      BY <2>6 DEF NetRetry
    <3> QED BY <3>1, <3>2, DriverSame, DriverAsked DEF wifiVars, TcpSendData, TypeOK
  <2>7. CASE \/ NetOkCommand \/ NetOkConnected \/ NetOkSent
             \/ NetOkReceived \/ NetOkIgnored \/ NetGiveUp \/ NetFailIgnored
    BY <2>7, DriverSame DEF NetOkCommand, NetOkConnected, NetOkSent,
       NetOkReceived, NetOkIgnored, NetGiveUp, NetFailIgnored, wifiVars
  <2> QED BY <1>1, <2>1, <2>2, <2>3, <2>4, <2>5, <2>6, <2>7 DEF NetStep
<1>2. CASE WifiStep
  BY <1>2, DriverWifi
<1>3. CASE PlcStep \/ PlcBytesArrive
  BY <1>3, DriverSame DEF PlcStep, PlcIdle, PlcSample, PlcBytesArrive, OthersUnchangedByPlc, wifiVars
<1>4. CASE TimerStep
  BY <1>4, DriverSame, DriverReset
     DEF TimerStep, DelayOver, WifiTimeout, SendTimeout, ResponseTimeout, wifiVars
<1>5. CASE LineArrives
  BY <1>5, DriverArrives
<1>6. CASE LinkDrop
  BY <1>6, DriverSame DEF LinkDrop, wifiVars
<1> QED BY <1>1, <1>2, <1>3, <1>4, <1>5, <1>6 DEF Next

-----------------------------------------------------------------------------
(* The data lines are read when a command waits for them. *)

\* At the start no '+' line has been asked for.
LEMMA ResponseLenInit == Init => ResponseLenOK
BY DEF Init, ResponseLenOK, EarlyCommands, EarlyStatuses, EmptySlot

\* The statuses that ask for a command before any that sets responseLen.
LEMMA EarlyNext ==
  ASSUME NEW stat \in EarlyStatuses, NEW value
  PROVE  NextCommand(stat, value) \in EarlyCommands \cup SetsResponseLen \cup {"NONE"}
BY DEF EarlyStatuses, EarlyCommands, CommandStatus, NextCommand, SetsResponseLen

\* The '+' lines are read before a status that waits for one is reached.
LEMMA ResponseLenStep ==
  ASSUME ResponseLenOK, TypeOK, Next,
         netPc = "recv" /\ mq # <<>> => (Head(mq) = "plc" => tcpOn)
  PROVE  ResponseLenOK'
<1>0. responseLen \in {0, 1}
  BY DEF TypeOK, WifiTypeOK
<1>1. CASE Reset
  BY <1>1 DEF Reset, ResponseLenOK, EarlyCommands, EarlyStatuses, EmptySlot
<1>2. CASE ~Reset /\ responseLen = 1
  <2>1. responseLen' = 1
    BY <1>2 DEF Next, NetStep, WifiStep, PlcStep, TimerStep,
      NetOkCommand, NetOkConnected, NetOkReady, NetOkSent, NetOkReceived, NetOkIgnored,
      NetRetry, NetGiveUp, NetFailIgnored, NetSendData, NetCommand, NetResend, NetReset,
      WifiSuspend, WifiRx, WifiRead, WifiRespond, WifiReadDone, WifiTx,
      PlcIdle, PlcSample, PlcBytesArrive, DelayOver, WifiTimeout, SendTimeout,
      ResponseTimeout, LineArrives, LinkDrop, TcpSendData, OthersUnchangedByPlc, wifiVars
  <2> QED BY <2>1 DEF ResponseLenOK
<1>3. CASE ~Reset /\ responseLen = 0
  <2> USE <1>3
  <2>0. /\ ~tcpOn /\ netPc # "resend"
        /\ netPc = "cmd" => netCmd \in EarlyCommands \cup SetsResponseLen
        /\ wifiStatus \in EarlyStatuses /\ slot.stat \in EarlyStatuses
    BY DEF ResponseLenOK
  <2>e. EarlyStatuses = {"NONE", "WIFI_RESTART", "ECHO_OFF", "SET_RFPOWER", "DISABLE_SLEEP_MODE"}
    BY DEF EarlyStatuses, EarlyCommands, CommandStatus
  <2>1. CASE NetOkCommand
    <3>1. NextCommand(slot.stat, slot.flag) \in EarlyCommands \cup SetsResponseLen
      BY <2>0, <2>1, EarlyNext DEF NetOkCommand
    <3> QED BY <2>0, <2>1, <3>1 DEF NetOkCommand, DelayCommand, ResponseLenOK, plcVars, wifiVars
  <2>2. CASE NetGiveUp
    <3>1. Reboot \/ DelayCommand("TCP_DISCONNECT")
      BY <2>2 DEF NetGiveUp
    <3> QED BY <2>0, <2>2, <3>1 DEF NetGiveUp, DelayCommand, Reboot, ResponseLenOK, plcVars, wifiVars, SetsResponseLen
  <2>3. CASE NetRetry
    BY <2>0, <2>e, <2>3 DEF NetRetry
  <2>4. CASE \/ NetOkConnected \/ NetOkReady \/ NetOkSent \/ NetOkReceived \/ NetOkIgnored
             \/ NetFailIgnored
    <3>1. ~NetOkConnected /\ ~NetOkReady /\ ~NetOkReceived /\ ~NetOkSent
      BY <2>0, <2>e DEF NetOkConnected, NetOkReady, NetOkReceived, NetOkSent
    <3> QED BY <2>0, <2>4, <3>1 DEF NetOkIgnored, NetFailIgnored, Stay, ResponseLenOK, plcVars, wifiVars
  <2>5. CASE NetSendData
    BY <2>0, <2>5 DEF NetSendData
  <2>6. CASE NetCommand
    <3>1. CASE netCmd \in SetsResponseLen
      BY <2>6, <3>1 DEF NetCommand, ResponseLenOK
    <3>2. CASE netCmd \in EarlyCommands
      <4>1. CommandStatus(netCmd) \in EarlyStatuses
        BY <3>2 DEF EarlyStatuses
      <4> QED BY <2>0, <2>6, <4>1 DEF NetCommand, ResponseLenOK, plcVars
    <3> QED BY <2>0, <2>6, <3>1, <3>2 DEF NetCommand
  <2>7. CASE NetResend
    BY <2>0, <2>7 DEF NetResend
  <2>8. CASE WifiRead
    <3>1. wifiStatus' = wifiStatus
      BY <2>0, <2>e, <2>8 DEF WifiRead, StatusAfter
    <3> QED BY <2>0, <2>8, <3>1 DEF WifiRead, ResponseLenOK, netVars, plcVars
  <2>9. CASE WifiSuspend \/ WifiRx \/ WifiRespond \/ WifiReadDone \/ WifiTx
    <3>1. slot' = slot \/ slot'.stat = wifiStatus
      BY <2>9 DEF WifiSuspend, WifiRx, WifiRespond, WifiReadDone, WifiTx
    <3> QED BY <2>0, <2>9, <3>1 DEF WifiSuspend, WifiRx, WifiRespond, WifiReadDone, WifiTx,
          ResponseLenOK, netVars, plcVars
  <2>10. CASE PlcStep \/ PlcBytesArrive \/ LineArrives \/ LinkDrop \/ DelayOver
    BY <2>0, <2>10 DEF PlcStep, PlcIdle, PlcSample, PlcBytesArrive, LineArrives, LinkDrop, DelayOver,
       OthersUnchangedByPlc, ResponseLenOK, netVars, plcVars, wifiVars
  <2>11. CASE WifiTimeout
    BY <2>0, <2>11 DEF WifiTimeout, ResponseLenOK, netVars, plcVars
  <2>12. CASE SendTimeout
    <3>1. slot'.stat = slot.stat
      BY <2>12 DEF SendTimeout, TypeOK, WifiTypeOK
    <3> QED BY <2>0, <2>12, <3>1 DEF SendTimeout, ResponseLenOK, netVars, plcVars
  <2> QED BY <2>1, <2>2, <2>3, <2>4, <2>5, <2>6, <2>7, <2>8, <2>9, <2>10, <2>11, <2>12
       DEF Next, NetStep, WifiStep, TimerStep, NetReset, ResponseTimeout
<1> QED BY <1>0, <1>1, <1>2, <1>3

-----------------------------------------------------------------------------
(* Steps that leave the phase alone *)

\* What the phases speak about, other than the lines and the driver's event.
PhaseVars == <<netPc, networkStatus, mq, tcpOn, wifiStatus, response, slot, txBuf,
               responseLen, armed, older, prompt, faults>>

\* A phase outlives a step that touches none of what it speaks about.
LEMMA Frame ==
  ASSUME Phase, UNCHANGED PhaseVars, Said' = Said, Sending' = Sending,
         SendingOnce => SendingOnce', Posted => fifo' = <<>>
  PROVE  Phase'
<1> USE DEF PhaseVars, Busy, Waits, Rest, Only, AtPrompt, PromptDue
<1>1. CASE Commanding
  BY <1>1 DEF Commanding, Phase
<1>2. CASE Transmitting
  BY <1>2 DEF Transmitting, Phase
<1>3. CASE Asked
  BY <1>3 DEF Asked, Answer1, Answer2, StatusAfter, Phase
<1>4. CASE Answered
  BY <1>4 DEF Answered, Posted, Phase
<1>5. CASE Idle
  BY <1>5 DEF Idle, Phase
<1>6. CASE Sampled
  BY <1>6 DEF Sampled, Phase
<1>7. CASE PayloadDue
  BY <1>7 DEF PayloadDue, Phase
<1>8. CASE PayloadSent
  BY <1>8 DEF PayloadSent, PayloadSaid, AckDue, Phase
<1>9. CASE PayloadAnswered
  BY <1>9 DEF PayloadAnswered, Posted, AckDue, Phase
<1>10. CASE AwaitingAck
  BY <1>10 DEF AwaitingAck, AckDue, Phase
<1>11. CASE AckRead
  BY <1>11 DEF AckRead, Phase
<1>12. CASE AckPosted
  BY <1>12 DEF AckPosted, Posted, Phase
<1>13. CASE Retrying
  BY <1>13 DEF Retrying, Phase
<1>14. CASE Rebooting
  BY <1>14 DEF Rebooting, Phase
<1> QED BY <1>1, <1>2, <1>3, <1>4, <1>5, <1>6, <1>7, <1>8, <1>9, <1>10, <1>11, <1>12,
           <1>13, <1>14 DEF Phase

\* Appending a line changes neither the head nor the kind of what is there.
LEMMA Dropped ==
  ASSUME NEW S, NEW x \in S, NEW l \in Seq(S)
  PROVE  /\ l \o <<x>> \in Seq(S) /\ l \o <<x>> # <<>>
         /\ l # <<>> => /\ Head(l \o <<x>>) = Head(l) /\ Tail(l) \in Seq(S)
                        /\ Tail(l \o <<x>>) = Tail(l) \o <<x>>
OBVIOUS

\* The loss of the connection is reported behind everything else.
LEMMA PhaseLinkDrop ==
  ASSUME Phase, TypeOK, LinkDrop
  PROVE  Phase'
<1>1. /\ UNCHANGED <<netPc, networkStatus, mq, tcpOn, wifiStatus, response, slot, txBuf,
                     responseLen, armed, older, prompt, wifiEv, fifo>>
      /\ line' = line \o <<"OTHER">> /\ faults' = faults + 1
  BY DEF LinkDrop, Answer, Fault, netVars, plcVars, wifiVars, timerVars
<1>2. Said' = Said \o <<"OTHER">> /\ Said \in Seq(Lines) /\ faults' > 0 /\ faults \in Nat
  BY <1>1, SaidDrop DEF TypeOK, ModemTypeOK, Said
<1>d. ASSUME NEW S, NEW l \in Seq(S), "OTHER" \in S
      PROVE  /\ l \o <<"OTHER">> \in Seq(S) /\ l \o <<"OTHER">> # <<>>
             /\ l # <<>> => /\ Head(l \o <<"OTHER">>) = Head(l) /\ Tail(l) \in Seq(S)
                            /\ Tail(l \o <<"OTHER">>) = Tail(l) \o <<"OTHER">>
  BY <1>d, Dropped
<1>3. Said # <<>> => Said' # <<>> /\ Head(Said') = Head(Said)
                     /\ Tail(Said') = Tail(Said) \o <<"OTHER">> /\ Tail(Said) \in Seq(Lines)
  BY <1>2, <1>d DEF Lines
<1>4. Rest(Said) => Rest(Said)'
  BY <1>2, <1>d DEF Rest
<1>5. Said # <<>> /\ Rest(Tail(Said)) => Rest(Tail(Said))'
  BY <1>2, <1>3, <1>d DEF Rest
<1>6. \A x : Only(x, Said) => Only(x, Said)'
  BY <1>3, <1>5 DEF Only
<1>7. ASSUME NEW x, Said # <<>>, Only(x, Tail(Said))
      PROVE  Only(x, Tail(Said))'
  <2>1. Tail(Said) # <<>> /\ Head(Tail(Said)) = x /\ Rest(Tail(Tail(Said)))
    BY <1>7 DEF Only
  <2>2. Tail(Said') # <<>> /\ Head(Tail(Said')) = x
        /\ Tail(Tail(Said')) = Tail(Tail(Said)) \o <<"OTHER">>
    BY <1>3, <1>7, <2>1, Dropped DEF Lines
  <2>3. Rest(Tail(Tail(Said)))'
    BY <1>2, <2>1, <2>2, <1>d DEF Rest
  <2> QED BY <2>2, <2>3 DEF Only
<1>8. Said \in Seq({"OTHER", "ERROR"}) => Said' \in Seq({"OTHER", "ERROR"})
  BY <1>2, <1>d
<1>9. Sending' = Sending /\ (SendingOnce => SendingOnce') /\ (AtPrompt => AtPrompt')
  BY <1>1, <1>2 DEF Sending, SendingOnce, AtPrompt
<1>10. faults > 0 => faults' > 0
  BY <1>2
<1> USE <1>1, <1>9 DEF Busy, Waits
<1>11. \A l : StatusAfter(l)' = StatusAfter(l)
  BY DEF StatusAfter
<1>12. CASE Commanding
  BY <1>12, <1>4 DEF Commanding, Phase
<1>13. CASE Transmitting
  BY <1>13, <1>4 DEF Transmitting, Phase
<1>14. CASE Asked
  <2>1. Answer1(Said) => Answer1(Said)'
    BY <1>4, <1>6 DEF Answer1
  <2>2. PromptDue(Said) => PromptDue(Said)'
    BY <1>6 DEF PromptDue
  <2>3. Answer2(Said) => Answer2(Said)'
    BY <1>3, <1>7, <1>11 DEF Answer2, PromptDue
  <2> QED BY <1>14, <2>1, <2>2, <2>3, <1>4 DEF Asked, Phase
<1>15. CASE Answered
  BY <1>15, <1>4, <1>6 DEF Answered, PromptDue, Posted, Phase
<1>16. CASE Idle
  BY <1>16, <1>4, <1>6 DEF Idle, PromptDue, Phase
<1>17. CASE Sampled
  BY <1>17, <1>4 DEF Sampled, Phase
<1>18. CASE PayloadDue
  BY <1>18, <1>4 DEF PayloadDue, Phase
<1>19. AckDue => AckDue'
  BY <1>4, <1>6, <1>10 DEF AckDue
<1>20. CASE PayloadSent
  <2>1. PayloadSaid(Said) => PayloadSaid(Said)'
    BY <1>3, <1>4, <1>6, <1>7, <1>10 DEF PayloadSaid
  <2> QED BY <1>20, <2>1, <1>4, <1>10, <1>19 DEF PayloadSent, Phase
<1>21. CASE PayloadAnswered
  BY <1>21, <1>4, <1>10, <1>19 DEF PayloadAnswered, Posted, Phase
<1>22. CASE AwaitingAck
  BY <1>22, <1>19 DEF AwaitingAck, Phase
<1>23. CASE AckRead
  BY <1>23, <1>4 DEF AckRead, Phase
<1>24. CASE AckPosted
  BY <1>24, <1>4, <1>10 DEF AckPosted, Posted, Phase
<1>25. CASE Retrying
  BY <1>25, <1>8, <1>10 DEF Retrying, Phase
<1>26. CASE Rebooting
  BY <1>26, <1>4, <1>10 DEF Rebooting, Phase
<1> QED BY <1>12, <1>13, <1>14, <1>15, <1>16, <1>17, <1>18, <1>20, <1>21, <1>22, <1>23,
           <1>24, <1>25, <1>26 DEF Phase

\* The driver's steps between two reads change no phase.
LEMMA PhaseDriverMoves ==
  ASSUME Phase, DriverOK, TypeOK, WifiSuspend \/ WifiRx \/ WifiReadDone
  PROVE  Phase'
<1>1. UNCHANGED PhaseVars /\ UNCHANGED <<fifo, line>>
  BY DEF PhaseVars, WifiSuspend, WifiRx, WifiReadDone, netVars, plcVars, timerVars, modemVars
<1>2. Said' = Said /\ (Posted => fifo' = <<>>)
  BY <1>1 DEF Said, Posted
<1>3. Sending' = Sending /\ (SendingOnce => SendingOnce')
  <2>1. wifiEv \in [blocked : BOOLEAN, latch : SUBSET {"RX", "TX"}, set : SUBSET {"RX", "TX"}]
    BY DEF TypeOK, WifiTypeOK, Event
  <2> QED BY <2>1 DEF WifiSuspend, WifiRx, WifiReadDone, Sending, SendingOnce, EventRecv,
            EventFlags, DriverOK
<1> QED BY <1>1, <1>2, <1>3, Frame

\* The arrival of a line changes no phase.
LEMMA PhaseArrives ==
  ASSUME Phase, DriverOK, TypeOK, PacedLines, LineArrives
  PROVE  Phase'
<1>1. UNCHANGED PhaseVars
  BY DEF PhaseVars, LineArrives, netVars, plcVars, timerVars
<1>2. AtRest /\ fifo = <<>> /\ ~Sending /\ ~Sending'
  BY DriverArrives
<1>3. Said' = Said
  BY <1>2, SaidArrives DEF LineArrives, TypeOK
<1>4. ~Posted
  BY <1>2 DEF AtRest, NetBlocked, Posted
<1>5. Sending' = Sending
  BY <1>2 DEF Sending
<1> QED BY <1>1, <1>2, <1>3, <1>4, <1>5, Frame DEF SendingOnce

\* A sample enters the queue only when the gateway is ready.
LEMMA PhasePlc ==
  ASSUME Phase, PlcStep \/ PlcBytesArrive
  PROVE  Phase'
<1>1. /\ UNCHANGED <<netPc, tcpOn, wifiStatus, response, slot, txBuf,
                     responseLen, armed, older, prompt, faults, wifiEv, fifo, line>>
  BY DEF PlcStep, PlcIdle, PlcSample, PlcBytesArrive, OthersUnchangedByPlc, netVars, wifiVars,
     timerVars, modemVars
<1>2. Said' = Said /\ Sending' = Sending /\ SendingOnce' = SendingOnce
  BY <1>1 DEF Said, Sending, SendingOnce
<1>3. CASE UNCHANGED <<networkStatus, mq>>
  BY <1>1, <1>2, <1>3, Frame DEF PhaseVars, Posted
<1>4. CASE ~UNCHANGED <<networkStatus, mq>>
  <2>1. ~Busy /\ networkStatus' = "SET_SEND_DATA_LENGTH" /\ mq' = Post(mq, "plc")
    BY <1>4 DEF PlcStep, PlcIdle, PlcSample, PlcBytesArrive, SendData, Busy
  <2>2. Idle /\ response = "MAX" /\ Rest(Said)
    BY <2>1 DEF Phase, Commanding, Transmitting, Asked, Answered, Idle, Sampled, PayloadDue,
       PayloadSent, PayloadAnswered, AwaitingAck, AckRead, AckPosted, Retrying, Rebooting
  <2>3. mq' = <<"plc">>
    BY <2>1, <2>2, ConstantsOK DEF Post, Idle, Waits, ConstantsOK
  <2>4. Rest(Said)'
    BY <1>1, <1>2, <2>2 DEF Rest
  <2>5. Sampled'
    BY <1>1, <1>2, <2>1, <2>2, <2>3, <2>4 DEF Sampled, Idle, Waits, Busy
  <2> QED BY <2>5 DEF Phase
<1> QED BY <1>3, <1>4

-----------------------------------------------------------------------------
(* Faults *)

\* The count of faults only grows.
LEMMA FaultsGrow ==
  ASSUME TypeOK, Next
  PROVE  faults' \in {faults, faults + 1}
<1>1. CASE NetStep
  BY <1>1 DEF NetStep, NetOkCommand, NetOkConnected, NetOkReady, NetOkSent, NetOkReceived,
     NetOkIgnored, NetRetry, NetGiveUp, NetFailIgnored, NetSendData, NetCommand, NetResend,
     NetReset, modemVars
<1>2. CASE WifiTx
  <2>1. \/ UNCHANGED modemVars \/ ModemCommand(txBuf) \/ ModemPayload \/ ModemSendFails
        \/ ModemSwallow \/ ModemSilent \/ ModemRefuses \/ ModemAsksAgain
    BY <1>2 DEF WifiTx, ModemBusy
  <2> QED BY <2>1 DEF ModemCommand, ModemPayload, ModemSendFails, ModemSwallow, ModemSilent,
        ModemRefuses, ModemAsksAgain, NoFault, Fault, modemVars
<1>3. CASE WifiSuspend \/ WifiRx \/ WifiRead \/ WifiRespond \/ WifiReadDone
  BY <1>3 DEF WifiSuspend, WifiRx, WifiRead, WifiRespond, WifiReadDone, modemVars
<1>4. CASE PlcStep \/ PlcBytesArrive \/ LineArrives \/ LinkDrop
  BY <1>4 DEF PlcStep, PlcIdle, PlcSample, PlcBytesArrive, OthersUnchangedByPlc, LineArrives,
     LinkDrop, Fault, modemVars
<1>5. CASE TimerStep
  BY <1>5 DEF TimerStep, DelayOver, WifiTimeout, SendTimeout, ResponseTimeout, Expires, Fault
<1> QED BY <1>1, <1>2, <1>3, <1>4, <1>5 DEF Next, WifiStep

\* What is orderly after a step was so before it.
LEMMA OrderlyBefore ==
  ASSUME TypeOK, Next, Orderly'
  PROVE  Orderly
<1>1. faults \in Nat /\ faults' \in {faults, faults + 1}
  BY FaultsGrow DEF TypeOK, ModemTypeOK
<1>2. faults' = 0 => faults = 0
  BY <1>1
<1> QED BY <1>2 DEF Orderly

\* As long as the environment is orderly none of its untimely faults happens.
LEMMA Timely ==
  ASSUME Orderly', faults \in Nat, NEW k \in Untimely
  PROVE  ~Fault(k)
<1> SUFFICES ASSUME Fault(k) PROVE FALSE
  OBVIOUS
<1>1. k \in Faults /\ faults' = faults + 1
  BY DEF Fault
<1>2. faults' # 0
  BY <1>1
<1> QED BY <1>1, <1>2 DEF Orderly

-----------------------------------------------------------------------------
(* The timers *)

\* In an orderly environment a timer expires when everything is at rest.
LEMMA ExpiresAtRest ==
  ASSUME Orderly', TypeOK, DriverOK, NEW t, Expires(t)
  PROVE  /\ AtRest /\ line = <<>> /\ fifo = <<>> /\ Said = <<>> /\ response = "MAX" /\ ~Sending
         /\ faults' = faults /\ t \in armed /\ older[t] = {}
<1>1. AtRest /\ line = <<>> /\ UNCHANGED faults /\ t \in armed /\ older[t] = {}
  BY Timely DEF Expires, Untimely, TypeOK, ModemTypeOK
<1>2. fifo = <<>> /\ response = "MAX" /\ ~Sending
  BY <1>1 DEF AtRest, DriverOK, Sending
<1> QED BY <1>1, <1>2 DEF Said

\* Nothing has been said: the answers that may still come are none.
LEMMA SilentShapes ==
  ASSUME Said = <<>>
  PROVE  /\ \A x : ~Only(x, Said)
         /\ ~Answer2(Said)
         /\ (Answer1(Said) => Rest(Said))
         /\ (PayloadSaid(Said) => Rest(Said) /\ faults > 0)
         /\ (AckDue => Rest(Said) /\ faults > 0)
         /\ ~PromptDue(Said)
BY DEF Only, Answer1, Answer2, PayloadSaid, AckDue, PromptDue

\* The end of the manager's delay keeps it in Commanding, Retrying or Rebooting.
LEMMA PhaseDelayOver ==
  ASSUME Phase, DriverOK, TypeOK, Orderly', DelayOver
  PROVE  Phase'
<1>1. /\ AtRest /\ fifo = <<>> /\ Said = <<>> /\ ~Sending /\ faults' = faults /\ "delay" \in armed
      /\ line = <<>>
  BY ExpiresAtRest DEF DelayOver
<1>2. /\ UNCHANGED <<netPc, networkStatus, mq, tcpOn, wifiStatus, response, slot, txBuf,
                     responseLen, prompt, wifiEv, fifo, line>>
      /\ armed' = armed \ {"delay"}
  BY DEF DelayOver, StopTimer, netVars, plcVars, wifiVars
<1>3. Said' = Said /\ ~Sending'
  BY <1>1, <1>2 DEF Said, Sending
<1>4. Commanding \/ Retrying \/ Rebooting
  BY <1>1 DEF Phase, Commanding, Transmitting, Asked, Answered, Idle, Sampled, PayloadDue,
       PayloadSent, PayloadAnswered, AwaitingAck, AckRead, AckPosted, SendingOnce
<1>5. Rest(Said)'
  BY <1>1, <1>3 DEF Rest
<1>6. CASE Commanding
  BY <1>1, <1>2, <1>3, <1>5, <1>6 DEF Commanding, Phase, Busy
<1>7. CASE Retrying
  BY <1>1, <1>2, <1>3, <1>7 DEF Retrying, Phase, Busy
<1>8. CASE Rebooting
  BY <1>1, <1>2, <1>3, <1>5, <1>8 DEF Rebooting, Phase, Busy
<1> QED BY <1>4, <1>6, <1>7, <1>8

\* A message posted to an empty queue is the only one.
LEMMA PostedFirst ==
  ASSUME mq = <<>>
  PROVE  Post(mq, "wifi") = <<"wifi">>
BY ConstantsOK DEF ConstantsOK, Post

\* A queue of the driver's messages takes another one, or throws it away.
LEMMA PostedMore ==
  ASSUME mq \in Seq({"wifi"})
  PROVE  Post(mq, "wifi") \in Seq({"wifi"})
BY DEF Post

\* An unanswered transmission is reported: Asked to Answered, or it is retried.
LEMMA PhaseWifiTimeout ==
  ASSUME Phase, DriverOK, TypeOK, Orderly', WifiTimeout
  PROVE  Phase'
<1>1. /\ AtRest /\ fifo = <<>> /\ Said = <<>> /\ ~Sending /\ faults' = faults /\ "wifi" \in armed
      /\ line = <<>> /\ response = "MAX" /\ older["wifi"] = {}
  BY ExpiresAtRest DEF WifiTimeout
<1>2. /\ UNCHANGED <<netPc, networkStatus, tcpOn, wifiStatus, txBuf,
                     responseLen, prompt, wifiEv, fifo, line>>
      /\ armed' = armed \ {"wifi"} /\ response' = "MAX" /\ mq' = Post(mq, "wifi")
      /\ slot'.msg = "TIMEOUT" /\ slot'.stat = wifiStatus
  BY DEF WifiTimeout, StopTimer, netVars, plcVars
<1>3. Said' = Said /\ ~Sending'
  BY <1>1, <1>2 DEF Said, Sending
<1>4. Asked \/ Retrying \/ Rebooting
  <2>1. ~PayloadSent
    BY <1>1 DEF PayloadSent
  <2>p. ~Posted
    BY <1>1 DEF Posted, AtRest, NetBlocked
  <2>2. ~Answered /\ ~PayloadAnswered /\ ~AckPosted
    BY <2>p DEF Answered, PayloadAnswered, AckPosted
  <2>3. ~Transmitting /\ ~PayloadDue
    BY <1>1 DEF Transmitting, PayloadDue, SendingOnce
  <2>4. ~Commanding /\ ~Idle /\ ~Sampled /\ ~AwaitingAck /\ ~AckRead
    BY <1>1 DEF Commanding, Idle, Sampled, AwaitingAck, AckRead
  <2> QED BY <2>1, <2>2, <2>3, <2>4 DEF Phase
<1>5. CASE Asked
  <2>1. Rest(Said) /\ mq = <<>> /\ netPc = "recv" /\ armed = {"wifi"} /\ wifiStatus \in AskStatuses
    BY <1>1, <1>5, SilentShapes DEF Asked, Waits
  <2>2. mq' = <<"wifi">>
    BY <1>2, <2>1, PostedFirst
  <2>3. Rest(Said)'
    BY <1>1, <1>3, <2>1 DEF Rest
  <2>4. Answered'
    BY <1>1, <1>2, <1>3, <1>5, <2>1, <2>2, <2>3 DEF Answered, Posted, Asked, Busy, AskStatuses
  <2> QED BY <2>4 DEF Phase
<1>6. CASE Retrying
  <2>1. mq' \in Seq({"wifi"}) /\ mq' # <<>>
    <3>1. mq \in Seq({"wifi"})
      BY <1>6 DEF Retrying
    <3>2. CASE mq = <<>>
      <4>1. mq' = <<"wifi">>
        BY <1>2, <3>2, PostedFirst
      <4> QED BY <4>1
    <3>3. CASE mq # <<>>
      <4>1. mq' \in Seq({"wifi"}) /\ (mq' = mq \/ mq' = Append(mq, "wifi"))
        BY <1>2, <3>1, PostedMore DEF Post
      <4>2. Append(mq, "wifi") # <<>>
        BY <3>1
      <4> QED BY <3>3, <4>1, <4>2
    <3> QED BY <3>2, <3>3
  <2> QED BY <1>1, <1>2, <1>3, <1>6, <2>1 DEF Retrying, Phase, Busy
<1>7. CASE Rebooting
  <2>1. Rest(Said)'
    BY <1>1, <1>3 DEF Rest
  <2> QED BY <1>1, <1>2, <1>3, <1>7, <2>1 DEF Rebooting, Phase, Busy
<1> QED BY <1>4, <1>5, <1>6, <1>7

\* A payload without an answer is reported as an error.
LEMMA PhaseSendTimeout ==
  ASSUME Phase, DriverOK, TypeOK, Orderly', SendTimeout
  PROVE  Phase'
<1>1. /\ AtRest /\ fifo = <<>> /\ Said = <<>> /\ ~Sending /\ faults' = faults /\ "send" \in armed
      /\ line = <<>> /\ response = "MAX"
  BY ExpiresAtRest DEF SendTimeout
<1>2. /\ UNCHANGED <<netPc, networkStatus, tcpOn, wifiStatus, txBuf,
                     responseLen, prompt, wifiEv, fifo, line>>
      /\ armed' = armed \ {"send"} /\ response' = "MAX" /\ mq' = Post(mq, "wifi")
      /\ slot'.msg = "ERROR" /\ slot'.stat = slot.stat
  BY DEF SendTimeout, StopTimer, netVars, plcVars, TypeOK, WifiTypeOK
<1>3. Said' = Said /\ ~Sending'
  BY <1>1, <1>2 DEF Said, Sending
<1>4. Rest(Said) => Rest(Said)'
  BY <1>1, <1>3 DEF Rest
<1>5. PayloadSent \/ AwaitingAck \/ Retrying \/ Rebooting
  BY <1>1 DEF Phase, Commanding, Transmitting, Asked, Answered, Idle, Sampled, PayloadDue,
       PayloadAnswered, AckRead, AckPosted, SendingOnce, Posted, AtRest, NetBlocked
<1>6. CASE PayloadSent
  <2>1. /\ Rest(Said) /\ faults > 0 /\ mq = <<>> /\ netPc = "recv" /\ armed = {"send", "wifi"}
        /\ wifiStatus = "SEND_DATA" /\ slot.stat = "READY_TO_SEND_DATA" /\ Busy /\ tcpOn
    BY <1>1, <1>6, SilentShapes DEF PayloadSent, Waits
  <2>2. mq' = <<"wifi">>
    BY <1>2, <2>1, PostedFirst
  <2>3. PayloadAnswered'
    BY <1>1, <1>2, <1>3, <1>4, <2>1, <2>2 DEF PayloadAnswered, Posted, Busy
  <2> QED BY <2>3 DEF Phase
<1>7. CASE AwaitingAck
  <2>1. /\ Rest(Said) /\ faults > 0 /\ mq = <<>> /\ netPc = "recv" /\ armed = {"send", "resp"}
        /\ wifiStatus = "SEND_DATA" /\ slot.stat = "SEND_DATA" /\ Busy /\ tcpOn /\ ~prompt
    BY <1>1, <1>7, SilentShapes DEF AwaitingAck, Waits
  <2>2. mq' = <<"wifi">>
    BY <1>2, <2>1, PostedFirst
  <2>3. AckPosted'
    BY <1>1, <1>2, <1>3, <1>4, <2>1, <2>2 DEF AckPosted, Posted, Busy
  <2> QED BY <2>3 DEF Phase
<1>8. CASE Retrying
  <2>1. mq' \in Seq({"wifi"})
    BY <1>2, <1>8, PostedMore DEF Retrying
  <2>2. netPc = "recv" => mq' # <<>>
    <3>1. netPc = "recv" => mq = <<>>
      BY <1>1 DEF AtRest, NetBlocked
    <3> QED BY <1>2, <3>1, PostedFirst
  <2>3. mq' # <<>> => slot'.msg \in {"ERROR", "TIMEOUT"}
    BY <1>2
  <2>4. slot'.stat = "SEND_DATA" /\ wifiStatus' = "SEND_DATA"
    BY <1>2, <1>8 DEF Retrying
  <2> QED BY <1>1, <1>2, <1>3, <1>8, <2>1, <2>2, <2>3, <2>4 DEF Retrying, Phase, Busy
<1>9. CASE Rebooting
  <2>1. Rest(Said)'
    BY <1>1, <1>3 DEF Rest
  <2> QED BY <1>1, <1>2, <1>3, <1>9, <2>1 DEF Rebooting, Phase, Busy
<1> QED BY <1>5, <1>6, <1>7, <1>8, <1>9

\* A reset starts over; what the modem still says does not matter.
LEMMA PhaseReset ==
  ASSUME Reset, Rest(line), faults' = faults
  PROVE  Phase'
<1>1. Rest(line)'
  <2>1. CASE line' = line
    BY <2>1 DEF Rest
  <2>2. CASE line' = <<>>
    BY <2>2 DEF Rest
  <2> QED BY <2>1, <2>2 DEF Reset
<1>2. Said' = line'
  <2>1. fifo' = <<>> /\ line' \in Seq({"OTHER"})
    BY <1>1 DEF Reset, Rest
  <2> QED BY <2>1 DEF Said
<1>3. Rest(Said)'
  BY <1>1, <1>2 DEF Rest
<1>4. Commanding'
  BY <1>3 DEF Reset, Commanding, Sending, Suspended, Busy
<1> QED BY <1>4 DEF Phase

\* A missing acknowledgement resets the gateway.
LEMMA PhaseResponseTimeout ==
  ASSUME DriverOK, TypeOK, Orderly', ResponseTimeout
  PROVE  Phase'
<1>1. Said = <<>> /\ line = <<>> /\ faults' = faults
  BY ExpiresAtRest DEF ResponseTimeout
<1>2. Rest(line)
  BY <1>1 DEF Rest
<1> QED BY <1>1, <1>2, PhaseReset DEF ResponseTimeout

-----------------------------------------------------------------------------
(* The driver reads a line. *)

\* A line that does not matter changes nothing.
LEMMA OtherIsNeutral ==
  /\ StatusAfter("OTHER") = wifiStatus /\ ResponseAfter("OTHER") = response
  /\ ~StopsSendTimer("OTHER")
BY DEF StatusAfter, ResponseAfter, StopsSendTimer, IsReceive

\* Reading a line that does not matter leaves lines that do not matter.
LEMMA RestRead ==
  ASSUME Rest(Said), Said # <<>>, Said' = Tail(Said), faults' = faults
  PROVE  Head(Said) = "OTHER" /\ Rest(Said)'
<1>1. Said \in Seq({"OTHER"}) /\ (faults = 0 => Said = <<>>)
  BY DEF Rest
<1>2. Head(Said) = "OTHER" /\ Tail(Said) \in Seq({"OTHER"})
  BY <1>1, OtherLines
<1> QED BY <1>1, <1>2 DEF Rest

\* Reading the one line that matters leaves lines that do not.
LEMMA OnlyRead ==
  ASSUME NEW x, Only(x, Said), Said' = Tail(Said), faults' = faults
  PROVE  Head(Said) = x /\ Rest(Said)'
BY DEF Only, Rest

\* Each line that can come in a phase leads to a phase.
LEMMA PhaseRead ==
  ASSUME Phase, DriverOK, ResponseLenOK, TypeOK, WifiRead
  PROVE  Phase'
<1> DEFINE x == Head(fifo)
<1>1. /\ UNCHANGED <<netPc, networkStatus, mq, tcpOn, slot, txBuf, responseLen, prompt, faults,
                     wifiEv, line>>
      /\ fifo # <<>> /\ fifo' = <<>> /\ wifiStatus' = StatusAfter(x) /\ response' = ResponseAfter(x)
      /\ IF StopsSendTimer(x) THEN StopTimer("send") ELSE UNCHANGED timerVars
  BY DEF WifiRead, netVars, plcVars, modemVars
<1>2. Said # <<>> /\ Head(Said) = x /\ Said' = Tail(Said) /\ x \in Lines
  BY <1>1, SaidRead DEF TypeOK
<1>3. response = "MAX" /\ ~Posted
  BY <1>1 DEF DriverOK, Posted
<1>4. /\ Sending' = Sending /\ SendingOnce' = SendingOnce /\ Busy' = Busy /\ Waits' = Waits
      /\ AtPrompt' = AtPrompt
  BY <1>1 DEF Sending, SendingOnce, Busy, Waits, AtPrompt
<1>5. armed' \in {armed, armed \ {"send"}}
  BY <1>1 DEF StopTimer, timerVars
<1>6. CASE Rest(Said)
  <2>1. x = "OTHER" /\ Rest(Said)'
    BY <1>1, <1>2, <1>6, RestRead
  <2>2. wifiStatus' = wifiStatus /\ response' = "MAX" /\ UNCHANGED <<armed, older>>
    BY <1>1, <1>3, <2>1, OtherIsNeutral DEF timerVars
  <2>3. \A l : StatusAfter(l)' = StatusAfter(l)
    BY <1>1, <2>2 DEF StatusAfter
  <2> USE <1>1, <1>3, <1>4, <1>6, <2>1, <2>2
  <2>4. CASE Commanding
    BY <2>4 DEF Commanding, Phase
  <2>5. CASE Transmitting
    BY <2>5 DEF Transmitting, Phase
  <2>6. CASE Asked
    BY <2>6 DEF Asked, Answer1, Phase
  <2>7. CASE Idle
    BY <2>7 DEF Idle, Phase
  <2>8. CASE Sampled
    BY <2>8 DEF Sampled, Phase
  <2>9. CASE PayloadDue
    BY <2>9 DEF PayloadDue, Phase
  <2>10. CASE PayloadSent
    <3>1. PayloadSaid(Said) => faults > 0
      BY <1>2 DEF PayloadSaid, Rest, Only
    <3>2. PayloadSaid(Said) => PayloadSaid(Said)'
      BY <3>1 DEF PayloadSaid
    <3> QED BY <2>10, <3>2 DEF PayloadSent, Phase
  <2>11. CASE AwaitingAck
    <3>1. faults > 0
      <4>1. faults # 0 /\ faults \in Nat
        BY <1>2 DEF Rest, TypeOK, ModemTypeOK
      <4> QED BY <4>1
    <3>2. AckDue'
      BY <3>1 DEF AckDue
    <3> QED BY <2>11, <3>2 DEF AwaitingAck, Phase
  <2>12. CASE AckRead
    BY <2>12 DEF AckRead, Phase
  <2>13. CASE Retrying
    <3>1. Said' \in Seq({"OTHER", "ERROR"})
      BY <2>1 DEF Rest
    <3> QED BY <2>13, <3>1 DEF Retrying, Phase
  <2>14. CASE Rebooting
    BY <2>14 DEF Rebooting, Phase
  <2> QED BY <2>4, <2>5, <2>6, <2>7, <2>8, <2>9, <2>10, <2>11, <2>12, <2>13, <2>14
          DEF Phase, Answered, PayloadAnswered, AckPosted
<1>7. CASE ~Rest(Said)
  <2> USE <1>1, <1>2, <1>3, <1>4
  <2>1. Asked \/ Idle \/ PayloadSent \/ AwaitingAck \/ Retrying \/ Rebooting
    BY <1>7 DEF Phase, Commanding, Transmitting, Answered, Sampled, PayloadDue, PayloadAnswered,
       AckRead, AckPosted
  <2>2. CASE Asked
    <3>0. wifiStatus \in AskStatuses /\ armed = {"wifi"} /\ Waits /\ Busy
      BY <2>2 DEF Asked
    <3>1. CASE Only("ERROR", Said)
      <4>1. x = "ERROR" /\ Rest(Said)'
        BY <3>1, OnlyRead
      <4>2. wifiStatus' = wifiStatus /\ response' = "ERROR" /\ UNCHANGED timerVars
        BY <4>1 DEF StatusAfter, ResponseAfter, StopsSendTimer, IsReceive
      <4>3. Asked'
        BY <3>0, <4>1, <4>2 DEF Asked, timerVars, AskStatuses
      <4> QED BY <4>3 DEF Phase
    <3>2. CASE Only("OK", Said) /\ Leads(wifiStatus)
      <4>1. x = "OK" /\ Rest(Said)'
        BY <3>2, OnlyRead
      <4>2. wifiStatus' = wifiStatus /\ response' = "OK" /\ UNCHANGED timerVars
        BY <4>1 DEF StatusAfter, ResponseAfter, StopsSendTimer, IsReceive
      <4>3. Asked'
        BY <3>0, <3>2, <4>1, <4>2 DEF Asked, timerVars, AskStatuses
      <4> QED BY <4>3 DEF Phase
    <3>3. CASE /\ x \in {"MODE_STATION", "MODE_OTHER", "DHCP_SAME", "DHCP_DIFFERENT",
                          "AP", "LOCAL", "OTHER"}
               /\ Only("OK", Tail(Said)) /\ Leads(StatusAfter(x))
      <4>1. Only("OK", Said)' /\ Leads(wifiStatus)'
        BY <3>3 DEF Only, Rest
      <4>2. response' = "MAX" /\ UNCHANGED timerVars
        BY <3>3 DEF ResponseAfter, StopsSendTimer, IsReceive
      <4>3. wifiStatus' \in AskStatuses
        <5>1. wifiStatus' \in {wifiStatus, "GET_WIFI_MODE", "GET_DHCP_INFO", "GET_AP_INFO",
                              "GET_LOCAL_INFO"}
          BY <3>3 DEF StatusAfter
        <5> QED BY <3>0, <5>1 DEF AskStatuses
      <4>4. Answer1(Said)'
        BY <4>1 DEF Answer1
      <4>5. Asked'
        BY <3>0, <4>2, <4>3, <4>4 DEF Asked, timerVars, AskStatuses
      <4> QED BY <4>5 DEF Phase
    <3>4. CASE x = "OK" /\ PromptDue(Tail(Said))
      <4>1. wifiStatus' = wifiStatus /\ response' = "OK" /\ UNCHANGED timerVars
        BY <3>4 DEF StatusAfter, ResponseAfter, StopsSendTimer, IsReceive
      <4>2. PromptDue(Said)'
        BY <3>4, <4>1 DEF PromptDue, Only, Rest
      <4>3. Asked'
        BY <3>0, <4>1, <4>2 DEF Asked, timerVars, AskStatuses
      <4> QED BY <4>3 DEF Phase
    <3> QED BY <1>7, <2>2, <3>1, <3>2, <3>3, <3>4 DEF Asked, Answer1, Answer2
  <2>3. CASE Idle
    <3>1. PromptDue(Said) /\ Busy
      BY <1>7, <2>3 DEF Idle
    <3>2. x = "PROMPT" /\ Rest(Said)'
      BY <3>1, OnlyRead DEF PromptDue
    <3>3. wifiStatus' = "READY_TO_SEND_DATA" /\ response' = "OK" /\ UNCHANGED timerVars
      BY <3>1, <3>2 DEF PromptDue, StatusAfter, ResponseAfter, StopsSendTimer, IsReceive
    <3>4. Idle'
      BY <2>3, <3>1, <3>2, <3>3 DEF Idle, PromptDue, timerVars
    <3> QED BY <3>4 DEF Phase
  <2>4. CASE PayloadSent
    <3>0. /\ Waits /\ Busy /\ tcpOn /\ wifiStatus = "SEND_DATA"
          /\ slot.stat = "READY_TO_SEND_DATA" /\ armed = {"send", "wifi"} /\ "send" \in older["wifi"] /\ PayloadSaid(Said)
      BY <1>7, <2>4 DEF PayloadSent
    <3>1. x \in {"SEND_FAIL", "SEND_OK", "ERROR"}
      BY <1>7, <3>0, OnlyRead DEF PayloadSaid
    <3>2. wifiStatus' = wifiStatus /\ UNCHANGED timerVars
      BY <3>1 DEF StatusAfter, StopsSendTimer, IsReceive
    <3>3. CASE Only("SEND_FAIL", Said)
      <4>1. response' = "FAIL" /\ Rest(Said)'
        BY <3>3, OnlyRead DEF ResponseAfter
      <4> QED BY <3>0, <3>2, <4>1 DEF PayloadSent, Phase, timerVars
    <3>4. CASE ~prompt /\ faults > 0 /\ Only("SEND_OK", Said)
      <4>1. response' = "OK" /\ Rest(Said)'
        BY <3>4, OnlyRead DEF ResponseAfter
      <4>2. AckDue'
        BY <3>4, <4>1 DEF AckDue
      <4> QED BY <3>0, <3>2, <3>4, <4>1, <4>2 DEF PayloadSent, Phase, timerVars
    <3>5. CASE ~prompt /\ faults > 0 /\ Only("ERROR", Said)
      <4>1. response' = "ERROR" /\ Rest(Said)'
        BY <3>5, OnlyRead DEF ResponseAfter
      <4> QED BY <3>0, <3>2, <3>5, <4>1 DEF PayloadSent, Phase, timerVars
    <3>6. CASE ~prompt /\ x = "SEND_OK" /\ \E y \in ServerLines : Only(y, Tail(Said))
      <4>1. response' = "OK"
        BY <3>6 DEF ResponseAfter
      <4>2. AckDue'
        BY <3>6 DEF AckDue, Only, Rest, ServerLines
      <4> QED BY <3>0, <3>2, <3>6, <4>1, <4>2 DEF PayloadSent, Phase, timerVars
    <3> QED BY <1>7, <3>0, <3>3, <3>4, <3>5, <3>6 DEF PayloadSaid
  <2>5. CASE AwaitingAck
    <3>1. PICK y \in ServerLines : Only(y, Said)
      BY <1>7, <2>5 DEF AwaitingAck, AckDue
    <3>2. x \in ServerLines /\ Rest(Said)'
      BY <3>1, OnlyRead
    <3>3. responseLen = 1
      BY <2>5 DEF AwaitingAck, ResponseLenOK, EarlyStatuses, EarlyCommands, CommandStatus
    <3>4. StopTimer("send")
      BY <3>2, <3>3 DEF StopsSendTimer, IsReceive, ServerLines
    <3>5. armed' = {"resp"}
      BY <2>5, <3>4 DEF AwaitingAck, StopTimer
    <3>6. \/ response' = "OK" /\ wifiStatus' = "RECEIVE_DATA"
          \/ response' = "ERROR" /\ wifiStatus' = "REFUSE_DATA"
          \/ response' = "MAX" /\ wifiStatus' = "NONE"
      BY <3>2, <3>3 DEF ServerLines, StatusAfter, ResponseAfter, IsReceive
    <3>7. AckRead'
      BY <2>5, <3>2, <3>5, <3>6 DEF AwaitingAck, AckRead
    <3> QED BY <3>7 DEF Phase
  <2>6. CASE Retrying
    <3>1. x \in {"OTHER", "ERROR"} /\ Said' \in Seq({"OTHER", "ERROR"})
      BY <2>6 DEF Retrying
    <3>2. wifiStatus' = wifiStatus /\ response' \in {"MAX", "ERROR"} /\ UNCHANGED timerVars
      BY <3>1 DEF StatusAfter, ResponseAfter, StopsSendTimer, IsReceive
    <3> QED BY <2>6, <3>1, <3>2 DEF Retrying, Phase, timerVars
  <2>7. CASE Rebooting
    <3>1. "delay" \in armed'
      BY <1>5, <1>7, <2>7 DEF Rebooting
    <3> QED BY <2>7, <3>1 DEF Rebooting, Phase
  <2> QED BY <2>1, <2>2, <2>3, <2>4, <2>5, <2>6, <2>7
<1> QED BY <1>6, <1>7

-----------------------------------------------------------------------------
(* The driver tells the manager, or transmits. *)

\* The driver passes a response on: the phase of the message about it.
LEMMA PhaseRespond ==
  ASSUME Phase, DriverOK, WifiRespond
  PROVE  Phase'
<1>1. /\ UNCHANGED <<netPc, networkStatus, tcpOn, wifiStatus, txBuf, responseLen, prompt, faults,
                     wifiEv, fifo, line>>
      /\ fifo = <<>> /\ response # "MAX" /\ response' = "MAX" /\ mq' = Post(mq, "wifi")
      /\ slot'.msg = response /\ slot'.stat = wifiStatus /\ StopTimer("wifi")
  BY DEF WifiRespond, netVars, plcVars, modemVars
<1>2. Said' = Said /\ Sending' = Sending /\ armed' = armed \ {"wifi"}
  BY <1>1 DEF Said, Sending, StopTimer
<1>3. (Rest(Said) => Rest(Said)') /\ (AckDue => AckDue') /\ (PromptDue(Said) => PromptDue(Said)')
      /\ (AtPrompt => AtPrompt')
  BY <1>1, <1>2 DEF Rest, AckDue, Only, PromptDue, AtPrompt
<1>4. Asked \/ Idle \/ PayloadSent \/ AckRead \/ Retrying \/ Rebooting
  BY <1>1 DEF Phase, Commanding, Transmitting, Answered, Sampled, PayloadDue, PayloadAnswered,
     AwaitingAck, AckPosted, Posted
<1>5. CASE Asked \/ Idle
  <2>1. mq' = <<"wifi">> /\ netPc = "recv" /\ ~Sending /\ Busy /\ armed' = {}
    BY <1>1, <1>2, <1>5, PostedFirst DEF Asked, Idle, Waits
  <2>2. \/ response = "OK" /\ Leads(wifiStatus) /\ Rest(Said)
        \/ response = "ERROR" /\ wifiStatus \in AskStatuses /\ Rest(Said)
        \/ response = "OK" /\ wifiStatus = "SET_SEND_DATA_LENGTH" /\ PromptDue(Said)
        \/ response = "OK" /\ wifiStatus = "READY_TO_SEND_DATA" /\ tcpOn /\ AtPrompt /\ Rest(Said)
    BY <1>1, <1>5 DEF Asked, Idle, PromptDue
  <2>3. Answered'
    BY <1>1, <1>2, <1>3, <2>1, <2>2 DEF Answered, Posted, Busy, AskStatuses
  <2> QED BY <2>3 DEF Phase
<1>6. CASE PayloadSent
  <2>1. mq' = <<"wifi">> /\ netPc = "recv" /\ ~Sending /\ Busy /\ armed' = {"send"}
    BY <1>1, <1>2, <1>6, PostedFirst DEF PayloadSent, Waits
  <2>2. PayloadAnswered'
    BY <1>1, <1>2, <1>3, <1>6, <2>1 DEF PayloadSent, PayloadAnswered, Posted, Busy
  <2> QED BY <2>2 DEF Phase
<1>7. CASE AckRead
  <2>1. mq' = <<"wifi">> /\ netPc = "recv" /\ ~Sending /\ Busy /\ armed' = {"resp"}
    BY <1>1, <1>2, <1>7, PostedFirst DEF AckRead, Waits
  <2>2. AckPosted'
    BY <1>1, <1>2, <1>3, <1>7, <2>1 DEF AckRead, AckPosted, Posted, Busy
  <2> QED BY <2>2 DEF Phase
<1>8. CASE Retrying
  <2>1. mq \in Seq({"wifi"}) /\ mq' \in Seq({"wifi"}) /\ mq' # <<>>
    <3>1. mq \in Seq({"wifi"}) /\ mq' \in Seq({"wifi"})
      BY <1>1, <1>8, PostedMore DEF Retrying
    <3>2. CASE mq = <<>>
      <4>1. mq' = <<"wifi">>
        BY <1>1, <3>2, PostedFirst
      <4> QED BY <3>1, <4>1
    <3>3. CASE mq # <<>>
      <4>1. mq' = mq \/ mq' = Append(mq, "wifi")
        BY <1>1 DEF Post
      <4>2. Append(mq, "wifi") # <<>>
        BY <3>1
      <4> QED BY <3>1, <3>3, <4>1, <4>2
    <3> QED BY <3>2, <3>3
  <2> QED BY <1>1, <1>2, <1>8, <2>1 DEF Retrying, Phase, Busy
<1>9. CASE Rebooting
  BY <1>1, <1>2, <1>3, <1>9 DEF Rebooting, Phase, Busy
<1> QED BY <1>4, <1>5, <1>6, <1>7, <1>8, <1>9

\* Short answers of the modem.
LEMMA ShortAnswers ==
  ASSUME NEW a, NEW b
  PROVE  /\ <<a>> # <<>> /\ Head(<<a>>) = a /\ Tail(<<a>>) = <<>>
         /\ <<a, b>> # <<>> /\ Head(<<a, b>>) = a /\ Tail(<<a, b>>) = <<b>>
         /\ <<>> \o <<a>> = <<a>> /\ <<>> \o <<a, b>> = <<a, b>> /\ <<>> \o <<>> = <<>>
         /\ <<>> \in Seq({"OTHER"})
OBVIOUS

\* The OK of every command of the connection leads to the next one.
LEMMA EventuallyLeads ==
  /\ \A c \in EarlyCommands \cup {"SET_MODE", "CONNECT_AP", "SET_DHCP", "SET_LOCAL_INFO",
                                  "TCP_CONNECT", "TCP_DISCONNECT"} : Leads(CommandStatus(c))
  /\ Leads("GET_WIFI_MODE") /\ Leads("GET_DHCP_INFO") /\ Leads("GET_AP_INFO")
  /\ Leads("GET_LOCAL_INFO")
BY DEF Leads, NextCommand, CommandStatus, EarlyCommands

\* A transmission starts its timer, behind those that are not longer.
LEMMA TransmittedTimer ==
  ASSUME TypeOK, WifiTx
  PROVE  armed' = armed \cup {"wifi"} /\ older'["wifi"] = {v \in armed \ {"wifi"} : Delay[v] <= 3}
<1>1. StartTimer("wifi")
  BY DEF WifiTx, WatchTransmission
<1> QED BY <1>1 DEF StartTimer, Timers, Delay

\* What a transmission finds and leaves.
LEMMA TransmitFacts ==
  ASSUME DriverOK, TypeOK, WifiTx
  PROVE  /\ Sending /\ fifo = <<>> /\ fifo' = <<>> /\ response = "MAX"
         /\ (SendingOnce => ~Sending')
         /\ UNCHANGED <<netPc, networkStatus, mq, tcpOn, wifiStatus, response, slot, responseLen>>
         /\ txBuf' = "NONE"
<1>1. wifiEv \in [blocked : BOOLEAN, latch : SUBSET {"RX", "TX"}, set : SUBSET {"RX", "TX"}]
  BY DEF TypeOK, WifiTypeOK, Event
<1>2. /\ wifiPc = "recv" /\ EventFlags(wifiEv) = {"TX"} /\ wifiEv' = EventRecv(wifiEv)
      /\ fifo' = fifo /\ txBuf' = "NONE"
      /\ UNCHANGED <<netPc, networkStatus, mq, tcpOn, wifiStatus, response, slot, responseLen>>
  BY DEF WifiTx, WifiAwake, netVars, plcVars
<1>3. Sending /\ fifo = <<>> /\ response = "MAX"
  BY <1>1, <1>2 DEF DriverOK, EventFlags, Sending
<1>4. SendingOnce => ~Sending'
  BY <1>1, <1>2 DEF DriverOK, EventFlags, EventRecv, Sending, SendingOnce
<1> QED BY <1>2, <1>3, <1>4

\* The modem answers a command with something the manager can go on from.
LEMMA CommandAnswered ==
  ASSUME Transmitting, ResponseLenOK, TypeOK, line = <<>>, ModemCommand(txBuf),
         UNCHANGED <<wifiStatus, responseLen, tcpOn>>
  PROVE  Answer1(line)' \/ Answer2(line)'
<1>1. PICK r \in Replies(txBuf) : line' = r
  <2>1. PICK r \in Replies(txBuf) : line' = <<>> \o r
    BY DEF ModemCommand, Answer
  <2>2. r \in Seq(Lines)
    BY <2>1, RepliesType
  <2> QED BY <2>1, <2>2
<1>2. Rest(<<>>)'
  BY ShortAnswers DEF Rest
<1>3. \A x : Only(x, <<x>>)'
  BY <1>2, ShortAnswers DEF Only
<1>4. CASE r = <<"ERROR">>
  BY <1>1, <1>3, <1>4 DEF Answer1
<1>5. CASE r = <<"OK">>
  <2>1. Leads(wifiStatus)
    BY <1>5, ShortAnswers, EventuallyLeads DEF Transmitting, Replies, WifiCommands, EarlyCommands
  <2> QED BY <1>1, <1>3, <1>5, <2>1 DEF Answer1
<1>6. CASE r = <<"OK", "PROMPT">>
  <2>1. txBuf = "CIPSEND" /\ link
    BY <1>6, ShortAnswers DEF Replies
  <2>2. PromptDue(<<"PROMPT">>)'
    BY <1>3, <2>1 DEF Transmitting, ModemCommand, PromptDue, AtPrompt, WifiCommands
  <2> QED BY <1>1, <1>6, <2>2, ShortAnswers DEF Answer2
<1>7. CASE \E x \in {"MODE_STATION", "MODE_OTHER", "DHCP_SAME", "DHCP_DIFFERENT",
                     "AP", "LOCAL", "OTHER"} : r = <<x, "OK">>
  <2>1. PICK x \in {"MODE_STATION", "MODE_OTHER", "DHCP_SAME", "DHCP_DIFFERENT",
                    "AP", "LOCAL", "OTHER"} : r = <<x, "OK">>
    BY <1>7
  <2>2. Leads(StatusAfter(x))
    <3>1. r = <<x, "OK">> /\ r # <<"OK">> /\ r # <<"ERROR">> /\ r # <<"OK", "PROMPT">>
      BY <2>1, ShortAnswers
    <3>2. \/ txBuf = "QUERY_MODE" /\ x \in {"MODE_STATION", "MODE_OTHER"}
          \/ txBuf = "QUERY_DHCP" /\ x \in {"DHCP_SAME", "DHCP_DIFFERENT"}
          \/ txBuf = "QUERY_AP_INFO" /\ x = "AP"
          \/ txBuf = "QUERY_LOCAL_INFO" /\ x = "LOCAL"
          \/ txBuf \in {"CONNECT_AP", "TCP_CONNECT", "TCP_DISCONNECT"} /\ x = "OTHER"
      BY <3>1 DEF Replies
    <3>3. txBuf \in WifiCommands /\ wifiStatus = CommandStatus(txBuf)
      BY <3>2 DEF Transmitting
    <3>4. CASE x = "OTHER"
      BY <3>2, <3>3, <3>4, OtherIsNeutral, EventuallyLeads
    <3>5. CASE x # "OTHER"
      <4>1. responseLen = 1
        BY <3>2, <3>3, <3>5 DEF ResponseLenOK, EarlyStatuses, EarlyCommands, CommandStatus
      <4> QED BY <3>2, <3>3, <3>5, <4>1, EventuallyLeads DEF StatusAfter, CommandStatus
    <3> QED BY <3>4, <3>5
  <2>3. Leads(StatusAfter(x))'
    BY <2>2 DEF StatusAfter
  <2>4. line' # <<>> /\ Head(line') = x /\ Tail(line') = <<"OK">>
    BY <1>1, <2>1, ShortAnswers
  <2>5. Only("OK", <<"OK">>)'
    BY <1>3
  <2> QED BY <2>1, <2>3, <2>4, <2>5 DEF Answer2
<1> QED BY <1>1, <1>4, <1>5, <1>6, <1>7 DEF Replies

\* What the modem may do with what is written to it.
LEMMA ModemMoves ==
  ASSUME TypeOK, WifiTx, fifo = <<>>, txBuf # "NONE"
  PROVE  \/ line # <<>> /\ UNCHANGED modemVars
         \/ /\ line = <<>>
            /\ \/ ModemCommand(txBuf)
               \/ txBuf = "DATA" /\ (ModemPayload \/ ModemSendFails \/ ModemAsksAgain)
               \/ txBuf # "DATA" /\ ModemSwallow
               \/ ModemSilent
               \/ ModemRefuses
BY DEF WifiTx, ModemBusy

\* An answer on a silent line is all there is.
LEMMA AnswerAlone ==
  ASSUME line = <<>>, NEW l \in Seq(Lines), Answer(l)
  PROVE  line' = l
BY DEF Answer

\* One line alone is the only one that matters.
LEMMA OnlyOne ==
  ASSUME NEW x
  PROVE  Rest(<<>>)' /\ Only(x, <<x>>)'
<1>1. Rest(<<>>)'
  BY ShortAnswers DEF Rest
<1> QED BY <1>1, ShortAnswers DEF Only

\* What the modem says is lines.
LEMMA ModemLines ==
  /\ <<>> \in Seq(Lines) /\ <<"ERROR">> \in Seq(Lines)
  /\ <<"SEND_FAIL">> \in Seq(Lines) /\ <<"SEND_OK">> \in Seq(Lines)
  /\ \A x \in Lines : <<"SEND_OK", x>> \in Seq(Lines)
BY DEF Lines

\* A transmission leads from the phase of the request to that of the answer.
LEMMA PhaseTransmit ==
  ASSUME Phase, DriverOK, ResponseLenOK, TypeOK, Orderly', WifiTx
  PROVE  Phase'
<1>1. /\ Sending /\ fifo = <<>> /\ fifo' = <<>> /\ response = "MAX"
      /\ (SendingOnce => ~Sending')
      /\ UNCHANGED <<netPc, networkStatus, mq, tcpOn, wifiStatus, response, slot, responseLen>>
      /\ txBuf' = "NONE"
  BY TransmitFacts
<1>2. armed' = armed \cup {"wifi"} /\ older'["wifi"] = {v \in armed \ {"wifi"} : Delay[v] <= 3}
  BY TransmittedTimer
<1>3. Said = line /\ Said' = line' /\ line \in Seq(Lines)
  <2>1. line \in Seq(Lines) /\ line' \in Seq(Lines)
    BY TypeStep DEF TypeOK, ModemTypeOK, Next, WifiStep
  <2> QED BY <1>1, <2>1 DEF Said
<1>4. faults \in Nat /\ faults' \in Nat
  BY TypeStep DEF TypeOK, ModemTypeOK, Next, WifiStep, ConstantsOK
<1>f. \A k : Fault(k) => faults' > 0
  BY <1>4 DEF Fault
<1>5. Transmitting \/ PayloadDue \/ Retrying \/ Rebooting
  BY <1>1 DEF Phase, Commanding, Asked, Answered, Idle, Sampled, PayloadSent, PayloadAnswered,
     AwaitingAck, AckRead, AckPosted, Waits, Posted
<1>6. CASE Transmitting
  <2>1. Waits' /\ Busy' /\ armed' = {"wifi"} /\ response' = "MAX" /\ Rest(line)
    BY <1>1, <1>2, <1>3, <1>6 DEF Transmitting, Waits, Busy
  <2>2. wifiStatus' \in AskStatuses
    BY <1>1, <1>6 DEF Transmitting, AskStatuses
  <2>3. txBuf # "NONE" /\ txBuf # "DATA"
    BY <1>6 DEF Transmitting, WifiCommands
  <2>4. Answer1(line)' \/ Answer2(line)'
    <3>1. CASE UNCHANGED modemVars
      BY <2>1, <3>1 DEF modemVars, Answer1, Rest
    <3>2. CASE line = <<>> /\ ModemCommand(txBuf)
      BY <1>1, <1>6, <3>2, CommandAnswered
    <3>3. CASE line = <<>> /\ (ModemSwallow \/ ModemSilent)
      <4>1. line' = <<>>
        BY <3>3, ModemLines, AnswerAlone DEF ModemSwallow, ModemSilent
      <4> QED BY <4>1, OnlyOne DEF Answer1
    <3>4. CASE line = <<>> /\ ModemRefuses
      <4>1. line' = <<"ERROR">>
        BY <3>4, ModemLines, AnswerAlone DEF ModemRefuses
      <4> QED BY <4>1, OnlyOne DEF Answer1
    <3> QED BY <1>1, <2>3, <3>1, <3>2, <3>3, <3>4, ModemMoves
  <2>5. Answer1(Said)' \/ Answer2(Said)'
    BY <1>3, <2>4 DEF Answer1, Answer2, Rest, Only, PromptDue
  <2>6. Asked'
    BY <2>1, <2>2, <2>5 DEF Asked
  <2> QED BY <2>6 DEF Phase
<1>7. CASE PayloadDue
  <2>1. /\ Waits' /\ Busy' /\ armed' = {"send", "wifi"} /\ response' = "MAX" /\ Rest(line)
        /\ wifiStatus' = "SEND_DATA" /\ slot'.stat = "READY_TO_SEND_DATA" /\ txBuf = "DATA" /\ tcpOn'
    BY <1>1, <1>2, <1>3, <1>7 DEF PayloadDue, Waits, Busy
  <2>2. "send" \in older'["wifi"]
    BY <1>2, <1>7 DEF PayloadDue, Delay
  <2>3. PayloadSaid(line)'
    <3>1. CASE line # <<>> /\ UNCHANGED modemVars
      <4>1. faults > 0
        BY <1>4, <2>1, <3>1 DEF Rest
      <4> QED BY <2>1, <3>1, <4>1 DEF modemVars, PayloadSaid, Rest
    <3>2. CASE line = <<>> /\ ModemCommand(txBuf)
      <4>0. ~prompt /\ faults' = faults /\ prompt' = FALSE
        BY <2>1, <3>2 DEF ModemCommand, NoFault
      <4>1. ~prompt /\ faults' = faults /\ faults > 0 /\ prompt' = FALSE
        <5>1. faults # 0
          BY <1>7, <4>0 DEF PayloadDue, AtPrompt
        <5> QED BY <1>4, <4>0, <5>1
      <4>2. line' = <<"ERROR">>
        <5>1. Answer(<<"ERROR">>)
          BY <2>1, <3>2 DEF ModemCommand, Replies
        <5> QED BY <3>2, <5>1, ModemLines, AnswerAlone
      <4> QED BY <4>1, <4>2, OnlyOne DEF PayloadSaid
    <3>3. CASE line = <<>> /\ ModemPayload
      <4>1. prompt' = FALSE
        BY <3>3 DEF ModemPayload
      <4>2. CASE \E x \in ServerLines : Answer(<<"SEND_OK", x>>)
        <5>1. PICK x \in ServerLines : Answer(<<"SEND_OK", x>>)
          BY <4>2
        <5>2. line' = <<"SEND_OK", x>>
          BY <3>3, <5>1, ModemLines, AnswerAlone DEF ServerLines, Lines
        <5>3. line' # <<>> /\ Head(line') = "SEND_OK" /\ Tail(line') = <<x>> /\ Only(x, <<x>>)'
          BY <5>2, ShortAnswers, OnlyOne
        <5> QED BY <4>1, <5>3 DEF PayloadSaid
      <4>3. CASE Fault("noack") /\ Answer(<<"SEND_OK">>)
        <5>1. line' = <<"SEND_OK">> /\ faults' > 0
          BY <1>f, <3>3, <4>3, ModemLines, AnswerAlone
        <5> QED BY <4>1, <5>1, OnlyOne DEF PayloadSaid
      <4>4. ~Fault("early")
        BY <1>4, Timely DEF Untimely
      <4> QED BY <3>3, <4>2, <4>3, <4>4 DEF ModemPayload, ServerLines
    <3>4. CASE line = <<>> /\ ModemSendFails
      <4>1. line' = <<"SEND_FAIL">>
        BY <3>4, ModemLines, AnswerAlone DEF ModemSendFails
      <4> QED BY <4>1, OnlyOne DEF PayloadSaid
    <3>5. CASE line = <<>> /\ ModemSilent
      <4>1. line' = <<>> /\ faults' > 0
        BY <1>f, <3>5, ModemLines, AnswerAlone DEF ModemSilent
      <4> QED BY <4>1, OnlyOne DEF PayloadSaid
    <3>6. CASE line = <<>> /\ ModemRefuses
      <4>1. line' = <<"ERROR">> /\ faults' > 0 /\ prompt' = FALSE
        BY <1>f, <3>6, ModemLines, AnswerAlone DEF ModemRefuses
      <4> QED BY <4>1, OnlyOne DEF PayloadSaid
    <3>7. ~ModemAsksAgain
      BY <1>4, Timely DEF Untimely, ModemAsksAgain
    <3> QED BY <1>1, <2>1, <3>1, <3>2, <3>3, <3>4, <3>5, <3>6, <3>7, ModemMoves
  <2>4. PayloadSaid(Said)'
    BY <1>3, <2>3 DEF PayloadSaid, Rest, Only
  <2>5. PayloadSent'
    BY <2>1, <2>2, <2>4 DEF PayloadSent
  <2> QED BY <2>5 DEF Phase
<1>8. CASE Retrying
  <2>1. ~prompt /\ faults > 0 /\ line \in Seq({"OTHER", "ERROR"}) /\ txBuf \in {"DATA", "NONE"}
    BY <1>1, <1>3, <1>8 DEF Retrying
  <2>2. ~prompt' /\ faults' > 0 /\ line' \in Seq({"OTHER", "ERROR"})
    <3>1. CASE UNCHANGED modemVars
      BY <2>1, <3>1 DEF modemVars
    <3>2. CASE line = <<>> /\ ModemCommand("DATA")
      <4>1. Answer(<<"ERROR">>) /\ prompt' = FALSE /\ faults' = faults
        BY <3>2 DEF ModemCommand, Replies, NoFault
      <4>2. line' = <<"ERROR">>
        BY <3>2, <4>1, ModemLines, AnswerAlone
      <4> QED BY <2>1, <4>1, <4>2
    <3>3. CASE line = <<>> /\ ModemSilent
      <4>1. line' = <<>> /\ faults' > 0 /\ ~prompt'
        BY <1>f, <2>1, <3>3, ModemLines, AnswerAlone DEF ModemSilent, SameLink
      <4> QED BY <4>1
    <3>4. CASE line = <<>> /\ ModemRefuses
      <4>1. line' = <<"ERROR">> /\ faults' > 0 /\ prompt' = FALSE
        BY <1>f, <3>4, ModemLines, AnswerAlone DEF ModemRefuses
      <4> QED BY <4>1
    <3>5. ~ModemPayload /\ ~ModemSendFails /\ ~ModemAsksAgain
      BY <2>1 DEF ModemPayload, ModemSendFails, ModemAsksAgain
    <3>6. txBuf = "NONE" => UNCHANGED modemVars
      BY DEF WifiTx
    <3> QED BY <1>1, <2>1, <3>1, <3>2, <3>3, <3>4, <3>5, <3>6, ModemMoves
  <2>3. "wifi" \in armed'
    BY <1>2
  <2> QED BY <1>1, <1>3, <1>8, <2>2, <2>3 DEF Retrying, Phase, Busy
<1>9. CASE Rebooting
  <2>1. faults > 0 /\ "delay" \in armed
    BY <1>1, <1>9 DEF Rebooting
  <2>2. faults' > 0
    BY <1>4, <2>1, FaultsGrow DEF Next, WifiStep
  <2> QED BY <1>1, <1>2, <1>9, <2>1, <2>2 DEF Rebooting, Phase, Busy
<1> QED BY <1>5, <1>6, <1>7, <1>8, <1>9

-----------------------------------------------------------------------------
(* The manager *)

\* A message of the driver reaches the manager in these phases.
LEMMA ReceivedIn ==
  ASSUME Phase, NEW msg, NetRecv(msg)
  PROVE  /\ netPc = "recv" /\ slot.msg = msg
         /\ \/ (Answered \/ PayloadAnswered \/ AckPosted) /\ Posted /\ mq' = <<>>
            \/ Retrying /\ mq' \in Seq({"wifi"})
<1>1. netPc = "recv" /\ mq # <<>> /\ Head(mq) = "wifi" /\ slot.msg = msg /\ mq' = Tail(mq)
  BY DEF NetRecv
<1>2. Posted => mq' = <<>>
  BY <1>1 DEF Posted
<1>3. ~Sampled
  BY <1>1 DEF Sampled
<1>4. Retrying => mq' \in Seq({"wifi"})
  BY <1>1 DEF Retrying
<1>5. Answered \/ PayloadAnswered \/ AckPosted \/ Retrying
  BY <1>1, <1>3 DEF Phase, Commanding, Transmitting, Asked, Idle, PayloadDue, PayloadSent,
     AwaitingAck, AckRead, Waits, Rebooting
<1>6. Answered \/ PayloadAnswered \/ AckPosted => Posted
  BY DEF Answered, PayloadAnswered, AckPosted
<1> QED BY <1>1, <1>2, <1>4, <1>5, <1>6

\* The manager changes nothing of what is said.
LEMMA SaidStays ==
  ASSUME UNCHANGED fifo, UNCHANGED modemVars
  PROVE  /\ Said' = Said /\ faults' = faults /\ prompt' = prompt
         /\ (Rest(Said) => Rest(Said)') /\ (AckDue => AckDue') /\ (AtPrompt => AtPrompt')
<1>1. Said' = Said /\ faults' = faults /\ prompt' = prompt
  BY DEF Said, modemVars
<1> QED BY <1>1 DEF Rest, AckDue, Only, AtPrompt

\* A driver that is asked once transmits once.
LEMMA AskedOnce ==
  ASSUME DriverOK, TypeOK, ~Sending, wifiEv' = EventSend(wifiEv, "TX")
  PROVE  Sending' /\ SendingOnce'
<1>1. wifiEv \in [blocked : BOOLEAN, latch : SUBSET {"RX", "TX"}, set : SUBSET {"RX", "TX"}]
  BY DEF TypeOK, WifiTypeOK, Event
<1>2. wifiEv.set = {} /\ wifiEv.latch \in {{}, {"RX"}}
  BY DEF DriverOK, Sending
<1>3. CASE wifiEv.blocked
  <2>1. wifiEv' = [blocked |-> FALSE, latch |-> {"TX"}, set |-> {}]
    BY <1>2, <1>3 DEF EventSend
  <2> QED BY <2>1 DEF Sending, SendingOnce
<1>4. CASE ~wifiEv.blocked
  <2>1. wifiEv'.set = {"TX"} /\ wifiEv'.latch = wifiEv.latch
    BY <1>1, <1>2, <1>4 DEF EventSend
  <2> QED BY <1>2, <2>1 DEF Sending, SendingOnce
<1> QED BY <1>3, <1>4

\* A driver that is asked transmits.
LEMMA AskedAgain ==
  ASSUME TypeOK, wifiEv' = EventSend(wifiEv, "TX")
  PROVE  Sending'
<1>1. wifiEv \in [blocked : BOOLEAN, latch : SUBSET {"RX", "TX"}, set : SUBSET {"RX", "TX"}]
  BY DEF TypeOK, WifiTypeOK, Event
<1> QED BY <1>1 DEF EventSend, Sending

\* Success of a command: Answered to Commanding.
LEMMA PhaseNetOkCommand ==
  ASSUME Phase, NetOkCommand
  PROVE  Phase'
<1>1. /\ NetRecv("OK") /\ NextCommand(slot.stat, slot.flag) # "NONE"
      /\ netPc' = "cmd" /\ armed' = armed \cup {"delay"} /\ networkStatus' = slot.stat
      /\ UNCHANGED wifiVars /\ UNCHANGED fifo /\ UNCHANGED modemVars
  BY DEF NetOkCommand, DelayCommand, StartTimer
<1>2. slot.stat \notin {"SET_SEND_DATA_LENGTH", "READY_TO_SEND_DATA", "SEND_DATA", "RECEIVE_DATA",
                        "STANDBY_SEND"}
  BY <1>1 DEF NextCommand
<1>3. slot.msg = "OK" /\ Answered /\ Posted /\ mq' = <<>>
  BY <1>1, <1>2, ReceivedIn DEF PayloadAnswered, AckPosted, Retrying
<1>4. Rest(Said)'
  BY <1>1, <1>2, <1>3, SaidStays DEF Answered
<1>5. Commanding'
  BY <1>1, <1>2, <1>3, <1>4 DEF Commanding, Answered, Posted, Sending, Busy, wifiVars
<1> QED BY <1>5 DEF Phase

\* The connection stands: Answered to Idle.
LEMMA PhaseNetOkConnected ==
  ASSUME Phase, NetOkConnected
  PROVE  Phase'
<1>1. /\ NetRecv("OK") /\ slot.stat = "TCP_CONNECT" /\ tcpOn'
      /\ UNCHANGED <<netPc, armed>>
      /\ UNCHANGED wifiVars /\ UNCHANGED fifo /\ UNCHANGED modemVars
  BY DEF NetOkConnected, SetTcpStatus, Stay, timerVars
<1>2. slot.msg = "OK" /\ Answered /\ Posted /\ mq' = <<>>
  BY <1>1, ReceivedIn DEF PayloadAnswered, AckPosted, Retrying
<1>3. Rest(Said)'
  BY <1>1, <1>2, SaidStays DEF Answered
<1>4. Idle'
  BY <1>1, <1>2, <1>3 DEF Idle, Answered, Posted, Waits, Sending, wifiVars
<1> QED BY <1>4 DEF Phase

\* The prompt: Answered to PayloadDue.
LEMMA PhaseNetOkReady ==
  ASSUME Phase, DriverOK, TypeOK, NetOkReady
  PROVE  Phase'
<1>1. /\ NetRecv("OK") /\ slot.stat = "READY_TO_SEND_DATA"
      /\ armed' = armed \cup {"send"} /\ txBuf' = "DATA" /\ wifiStatus' = "SEND_DATA"
      /\ wifiEv' = EventSend(wifiEv, "TX") /\ UNCHANGED <<netPc, response, slot>>
      /\ networkStatus' = "READY_TO_SEND_DATA" /\ UNCHANGED fifo /\ UNCHANGED modemVars
      /\ UNCHANGED tcpOn
  BY DEF NetOkReady, TcpSendData, StartTimer, Stay, plcVars
<1>2. slot.msg = "OK" /\ Answered /\ Posted /\ mq' = <<>>
  BY <1>1, ReceivedIn DEF PayloadAnswered, AckPosted, Retrying
<1>3. AtPrompt /\ Rest(Said) /\ armed = {} /\ tcpOn
  BY <1>1, <1>2 DEF Answered, Leads, NextCommand
<1>4. Rest(Said)' /\ AtPrompt'
  BY <1>1, <1>3, SaidStays
<1>5. SendingOnce'
  BY <1>1, <1>2, AskedOnce DEF Posted
<1>6. PayloadDue'
  BY <1>1, <1>2, <1>3, <1>4, <1>5 DEF PayloadDue, Posted, Busy
<1> QED BY <1>6 DEF Phase

\* The payload is sent: PayloadAnswered to AwaitingAck.
LEMMA PhaseNetOkSent ==
  ASSUME Phase, NetOkSent
  PROVE  Phase'
<1>1. /\ NetRecv("OK") /\ slot.stat = "SEND_DATA" /\ StartTimer("resp")
      /\ UNCHANGED netPc /\ UNCHANGED wifiVars /\ UNCHANGED fifo /\ UNCHANGED modemVars
      /\ networkStatus' = "WAIT_ACK" /\ UNCHANGED tcpOn
  BY DEF NetOkSent, Stay, plcVars
<1>0. ~Leads("SEND_DATA")
  BY DEF Leads, NextCommand
<1>2. slot.msg = "OK" /\ PayloadAnswered /\ Posted /\ mq' = <<>>
  <2>1. slot.msg = "OK" /\ slot.stat = "SEND_DATA"
    BY <1>1, ReceivedIn
  <2>2. ~Answered
    BY <1>0, <2>1 DEF Answered
  <2>4. ~AckPosted
    BY <2>1 DEF AckPosted
  <2>5. mq # <<>> /\ NetRecv("OK")
    BY <1>1 DEF NetRecv
  <2>6. ~Retrying
    BY <2>1, <2>5 DEF Retrying
  <2> QED BY <1>1, <2>1, <2>2, <2>4, <2>6, ReceivedIn
<1>3. ~prompt /\ tcpOn /\ AckDue /\ armed = {"send"} /\ wifiStatus = "SEND_DATA"
  BY <1>1, <1>2 DEF PayloadAnswered
<1>4. armed' = {"send", "resp"} /\ "send" \in older'["resp"]
  BY <1>1, <1>3 DEF StartTimer, Delay, Timers
<1>5. AckDue' /\ prompt' = prompt
  BY <1>1, <1>3, SaidStays
<1>6. AwaitingAck'
  BY <1>1, <1>2, <1>3, <1>4, <1>5 DEF AwaitingAck, Posted, Waits, Sending, Busy, wifiVars
<1> QED BY <1>6 DEF Phase

\* The acknowledgement: AckPosted to Idle.
LEMMA PhaseNetOkReceived ==
  ASSUME Phase, NetOkReceived
  PROVE  Phase'
<1>1. /\ NetRecv("OK") /\ slot.stat = "RECEIVE_DATA" /\ armed' = armed \ {"resp"} /\ tcpOn'
      /\ UNCHANGED netPc /\ UNCHANGED wifiVars /\ UNCHANGED fifo /\ UNCHANGED modemVars
  BY DEF NetOkReceived, Stay, StopResponseTimer, StopTimer, SetTcpStatus
<1>2. slot.msg = "OK" /\ AckPosted /\ Posted /\ mq' = <<>>
  BY <1>1, ReceivedIn DEF Answered, PayloadAnswered, Retrying, Leads, NextCommand
<1>3. Rest(Said)' /\ armed' = {}
  BY <1>1, <1>2, SaidStays DEF AckPosted
<1>4. Idle'
  BY <1>1, <1>2, <1>3 DEF Idle, Posted, Waits, Sending, wifiVars
<1> QED BY <1>4 DEF Phase

\* The OK of the length request: Answered to Idle, the prompt still due.
LEMMA PhaseNetOkIgnored ==
  ASSUME Phase, NetOkIgnored
  PROVE  Phase'
<1>1. /\ NetRecv("OK") /\ NextCommand(slot.stat, slot.flag) = "NONE"
      /\ slot.stat \notin {"TCP_CONNECT", "READY_TO_SEND_DATA", "SEND_DATA", "RECEIVE_DATA"}
      /\ UNCHANGED <<netPc, armed, tcpOn>> /\ networkStatus' = slot.stat
      /\ UNCHANGED wifiVars /\ UNCHANGED fifo /\ UNCHANGED modemVars
  BY DEF NetOkIgnored, Stay, timerVars, plcVars
<1>2. slot.msg = "OK" /\ Answered /\ Posted /\ mq' = <<>>
  BY <1>1, ReceivedIn DEF PayloadAnswered, AckPosted, Retrying
<1>3. ~Leads(slot.stat)
  BY <1>1 DEF Leads, NextCommand
<1>4. slot.stat = "SET_SEND_DATA_LENGTH" /\ PromptDue(Said) /\ armed = {}
  BY <1>1, <1>2, <1>3 DEF Answered
<1>5. Said' = Said /\ PromptDue(Said)'
  BY <1>1, <1>4, SaidStays DEF PromptDue, AtPrompt, Only, Rest, wifiVars
<1>6. Idle'
  BY <1>1, <1>2, <1>4, <1>5 DEF Idle, Posted, Waits, Sending, Busy, wifiVars, PromptDue
<1> QED BY <1>6 DEF Phase

\* A failure is tried again, or the manager sleeps before its reset.
LEMMA RetryOutcomes ==
  ASSUME NetRetry
  PROVE  \/ netPc' = "reboot" /\ armed' = armed \cup {"delay"} /\ UNCHANGED wifiVars
         \/ /\ slot.stat = "SEND_DATA" /\ netPc' = "resend" /\ UNCHANGED wifiVars
         \/ slot.stat = "READY_TO_SEND_DATA" /\ TcpSendData /\ UNCHANGED netPc
         \/ /\ slot.stat \in {"TCP_CONNECT", "CONNECT_WIFI"} /\ netPc' = "cmd"
            /\ armed' = armed \cup {"delay"} /\ UNCHANGED wifiVars
<1>1. slot.stat \in {"SEND_DATA", "READY_TO_SEND_DATA", "TCP_CONNECT", "CONNECT_WIFI"}
  BY DEF NetRetry
<1>2. CASE retryCount >= RetryMax
  <2>1. Reboot /\ UNCHANGED wifiVars
    BY <1>2, Zenon DEF NetRetry
  <2> QED BY <2>1 DEF Reboot, StartTimer
<1>3. CASE ~(retryCount >= RetryMax) /\ slot.stat = "SEND_DATA"
  BY <1>3 DEF NetRetry
<1>4. CASE ~(retryCount >= RetryMax) /\ slot.stat = "READY_TO_SEND_DATA"
  BY <1>4 DEF NetRetry, Stay
<1>5. CASE ~(retryCount >= RetryMax) /\ slot.stat = "TCP_CONNECT"
  <2>1. DelayCommand("TCP_CONNECT") /\ UNCHANGED wifiVars
    BY <1>5 DEF NetRetry
  <2> QED BY <1>5, <2>1 DEF DelayCommand, StartTimer
<1>6. CASE ~(retryCount >= RetryMax) /\ slot.stat = "CONNECT_WIFI"
  <2>1. DelayCommand("CONNECT_AP") /\ UNCHANGED wifiVars
    BY <1>6 DEF NetRetry
  <2> QED BY <1>6, <2>1 DEF DelayCommand, StartTimer
<1> QED BY <1>1, <1>2, <1>3, <1>4, <1>5, <1>6

\* A reset in preparation.
LEMMA ToReboot ==
  ASSUME netPc' = "reboot", "delay" \in armed', networkStatus' # "STANDBY_SEND",
         Sending' => faults' > 0
  PROVE  Phase'
BY DEF Rebooting, Phase, Busy

\* A failure that is tried again: to Commanding, PayloadDue, Retrying or Rebooting.
LEMMA PhaseNetRetry ==
  ASSUME Phase, DriverOK, TypeOK, NetRetry
  PROVE  Phase'
<1>1. /\ \/ NetRecv("ERROR") /\ slot.stat \in {"SEND_DATA", "READY_TO_SEND_DATA", "TCP_CONNECT"}
         \/ (NetRecv("FAIL") \/ NetRecv("TIMEOUT")) /\ slot.stat = "CONNECT_WIFI"
      /\ networkStatus' = slot.stat /\ UNCHANGED fifo /\ UNCHANGED modemVars /\ UNCHANGED tcpOn
  BY DEF NetRetry, plcVars
<1>2. Busy'
  BY <1>1 DEF Busy
<1>3. /\ netPc = "recv"
      /\ \/ (Answered \/ PayloadAnswered \/ AckPosted) /\ Posted /\ mq' = <<>>
         \/ Retrying /\ mq' \in Seq({"wifi"})
      /\ slot.msg \in {"ERROR", "FAIL", "TIMEOUT"}
      /\ slot.msg = "ERROR" => slot.stat \in {"SEND_DATA", "READY_TO_SEND_DATA", "TCP_CONNECT"}
      /\ slot.msg # "ERROR" => slot.stat = "CONNECT_WIFI"
  BY <1>1, ReceivedIn
<1>4. CASE netPc' = "reboot" /\ armed' = armed \cup {"delay"} /\ UNCHANGED wifiVars
  <2>1. Sending => faults > 0
    BY <1>3 DEF Posted, Retrying
  <2>2. Sending' => faults' > 0
    BY <1>1, <1>4, <2>1, SaidStays DEF Sending, wifiVars
  <2> QED BY <1>2, <1>4, <2>2, ToReboot DEF Busy
<1>5. CASE slot.stat = "SEND_DATA" /\ netPc' = "resend" /\ UNCHANGED wifiVars
  <2>1. /\ ~prompt /\ faults > 0 /\ wifiStatus = "SEND_DATA" /\ response \in {"MAX", "ERROR"}
        /\ Said \in Seq({"OTHER", "ERROR"}) /\ (Sending => txBuf \in {"DATA", "NONE"})
        /\ slot.msg = "ERROR" /\ mq' \in Seq({"wifi"})
    <3>0. "SEND_DATA" \notin AskStatuses
      BY DEF AskStatuses, CommandStatus, WifiCommands
    <3>m. slot.msg = "ERROR" /\ mq' \in Seq({"wifi"})
      <4>1. slot.msg = "ERROR"
        BY <1>3, <1>5
      <4>2. mq' = <<>> \/ mq' \in Seq({"wifi"})
        BY <1>3
      <4>3. <<>> \in Seq({"wifi"})
        OBVIOUS
      <4> QED BY ONLY <4>1, <4>2, <4>3
    <3>1. CASE PayloadAnswered \/ AckPosted
      <4>1. /\ ~prompt /\ faults > 0 /\ wifiStatus = "SEND_DATA" /\ Rest(Said)
            /\ response = "MAX" /\ ~Sending
        BY <1>5, <3>m, <3>1 DEF PayloadAnswered, AckPosted, Posted
      <4>2. Said \in Seq({"OTHER", "ERROR"})
        BY <4>1 DEF Rest
      <4> QED BY <3>m, <4>1, <4>2
    <3>2. CASE Retrying
      BY <3>m, <3>2 DEF Retrying
    <3>3. ~Answered
      BY <1>3, <1>5, <3>0 DEF Answered
    <3> QED BY <1>3, <3>1, <3>2, <3>3
  <2>2. Said' = Said /\ faults' = faults /\ prompt' = prompt
    BY <1>1, SaidStays
  <2>3. Retrying'
    BY <1>2, <1>5, <2>1, <2>2 DEF Retrying, wifiVars, Sending
  <2> QED BY <2>3 DEF Phase
<1>6. CASE slot.stat = "READY_TO_SEND_DATA" /\ TcpSendData /\ UNCHANGED netPc
  <2>1. /\ armed = {"wifi"} /\ Rest(Said) /\ faults > 0 /\ Posted /\ mq' = <<>> /\ tcpOn
    <3>0. "READY_TO_SEND_DATA" \notin AskStatuses
      BY DEF AskStatuses, CommandStatus, WifiCommands
    <3>1. PayloadAnswered
      BY <1>3, <1>6, <3>0 DEF Answered, AckPosted, Retrying
    <3>2. ~Retrying
      BY <1>6 DEF Retrying
    <3>3. armed = {"wifi"} /\ Rest(Said) /\ faults > 0 /\ tcpOn
      BY <1>6, <3>1 DEF PayloadAnswered
    <3> QED BY <1>3, <3>2, <3>3
  <2>2. Rest(Said)' /\ faults' > 0
    BY <1>1, <2>1, SaidStays
  <2>3. /\ armed' = {"send", "wifi"} /\ txBuf' = "DATA" /\ wifiStatus' = "SEND_DATA"
        /\ wifiEv' = EventSend(wifiEv, "TX") /\ UNCHANGED <<response, slot>>
    BY <1>6, <2>1 DEF TcpSendData, StartTimer
  <2>4. SendingOnce'
    BY <2>1, <2>3, AskedOnce DEF Posted
  <2>5. PayloadDue'
    BY <1>1, <1>2, <1>3, <1>6, <2>1, <2>2, <2>3, <2>4 DEF PayloadDue, Posted, AtPrompt
  <2> QED BY <2>5 DEF Phase
<1>7. CASE /\ slot.stat \in {"TCP_CONNECT", "CONNECT_WIFI"} /\ netPc' = "cmd"
           /\ armed' = armed \cup {"delay"} /\ UNCHANGED wifiVars
  <2>1. Answered /\ Posted /\ Rest(Said) /\ mq' = <<>>
    BY <1>3, <1>7 DEF Answered, PayloadAnswered, AckPosted, Retrying
  <2>2. Rest(Said)'
    BY <1>1, <2>1, SaidStays
  <2>3. Commanding'
    BY <1>2, <1>7, <2>1, <2>2 DEF Commanding, Answered, Posted, Sending, wifiVars
  <2> QED BY <2>3 DEF Phase
<1> QED BY <1>4, <1>5, <1>6, <1>7, RetryOutcomes

\* A failure that is not: to Commanding (disconnect) or Rebooting.
LEMMA PhaseNetGiveUp ==
  ASSUME Phase, NetGiveUp
  PROVE  Phase'
<1>1. /\ \/ /\ NetRecv("ERROR")
            /\ slot.stat \notin {"SEND_DATA", "READY_TO_SEND_DATA", "TCP_CONNECT"}
         \/ NetRecv("FAIL") /\ slot.stat = "SEND_DATA"
         \/ NetRecv("TIMEOUT") /\ slot.stat # "CONNECT_WIFI"
      /\ networkStatus' = slot.stat /\ armed' = armed \cup {"delay"}
      /\ UNCHANGED wifiVars /\ UNCHANGED fifo /\ UNCHANGED modemVars
  BY DEF NetGiveUp, Reboot, DelayCommand, StartTimer
<1>2. /\ netPc = "recv"
      /\ \/ (Answered \/ PayloadAnswered \/ AckPosted) /\ Posted /\ mq' = <<>>
         \/ Retrying /\ mq' \in Seq({"wifi"})
      /\ slot.msg \in {"ERROR", "FAIL", "TIMEOUT"}
      /\ slot.msg = "ERROR" => slot.stat \notin {"SEND_DATA", "READY_TO_SEND_DATA", "TCP_CONNECT"}
      /\ slot.msg = "FAIL" => slot.stat = "SEND_DATA"
  BY <1>1, ReceivedIn
<1>s. Sending' => faults' > 0
  <2>1. Sending => faults > 0
    BY <1>2 DEF Posted, Retrying
  <2> QED BY <1>1, <2>1, SaidStays DEF Sending, wifiVars
<1>3. CASE Answered
  <2>1. slot.stat \in AskStatuses /\ Rest(Said) /\ Posted
    BY <1>2, <1>3 DEF Answered
  <2>2. mq' = <<>>
    BY <1>1, <2>1 DEF Posted, NetRecv
  <2>3. "STANDBY_SEND" \notin AskStatuses
    BY DEF AskStatuses, CommandStatus, WifiCommands
  <2>4. Busy'
    BY <1>1, <2>1, <2>3 DEF Busy
  <2>5. CASE netPc' = "reboot"
    BY <1>1, <1>s, <2>4, <2>5, ToReboot DEF Busy
  <2>6. CASE netPc' = "cmd"
    <3>1. Rest(Said)'
      BY <1>1, <2>1, SaidStays
    <3>2. Commanding'
      BY <1>1, <1>3, <2>1, <2>2, <2>4, <2>6, <3>1 DEF Commanding, Answered, Posted, Sending, wifiVars
    <3> QED BY <3>2 DEF Phase
  <2> QED BY <2>5, <2>6 DEF NetGiveUp, Reboot, DelayCommand
<1>4. CASE PayloadAnswered \/ AckPosted
  <2>1. slot.msg = "FAIL" \/ (slot.msg = "ERROR" /\ slot.stat = "REFUSE_DATA")
    BY <1>2, <1>4 DEF PayloadAnswered, AckPosted
  <2>2. netPc' = "reboot"
    BY <2>1 DEF NetGiveUp, Reboot
  <2> QED BY <1>1, <1>2, <1>s, <2>1, <2>2, ToReboot
<1>5. CASE Retrying
  <2>1. netPc' = "reboot"
    BY <1>2, <1>5 DEF Retrying, NetGiveUp, Reboot
  <2> QED BY <1>1, <1>5, <1>s, <2>1, ToReboot DEF Retrying
<1> QED BY <1>2, <1>3, <1>4, <1>5

\* In an orderly environment no FAIL is ignored.
LEMMA PhaseNetFailIgnored ==
  ASSUME Phase
  PROVE  ~NetFailIgnored
<1>1. SUFFICES ASSUME NetFailIgnored PROVE FALSE
  OBVIOUS
<1>2. NetRecv("FAIL") /\ slot.stat # "SEND_DATA"
  BY <1>1 DEF NetFailIgnored
<1> QED BY <1>2, ReceivedIn DEF Answered, PayloadAnswered, AckPosted, Retrying

\* The sample is taken from the queue: Sampled to Transmitting.
LEMMA PhaseNetSendData ==
  ASSUME Phase, DriverOK, TypeOK, NetSendData
  PROVE  Phase'
<1>1. /\ netPc = "recv" /\ mq # <<>> /\ Head(mq) = "plc" /\ mq' = Tail(mq)
      /\ networkStatus' = "NONE" /\ wifiStatus' = "SET_SEND_DATA_LENGTH" /\ txBuf' = "CIPSEND"
      /\ wifiEv' = EventSend(wifiEv, "TX")
      /\ UNCHANGED <<netPc, tcpOn, response, armed>> /\ UNCHANGED fifo /\ UNCHANGED modemVars
  BY DEF NetSendData, plcVars, timerVars
<1>2. Sampled
  <2>1. ~Posted /\ ~Retrying
    BY <1>1 DEF Posted, Retrying
  <2> QED BY <1>1, <2>1 DEF Phase, Commanding, Transmitting, Asked, Answered, Idle, PayloadDue,
       PayloadSent, PayloadAnswered, AwaitingAck, AckRead, AckPosted, Waits, Rebooting
<1>3. mq' = <<>> /\ Rest(Said)'
  BY <1>1, <1>2, SaidStays DEF Sampled
<1>4. SendingOnce'
  BY <1>1, <1>2, AskedOnce DEF Sampled
<1>5. Transmitting'
  BY <1>1, <1>2, <1>3, <1>4 DEF Sampled, Transmitting, Busy
<1> QED BY <1>5 DEF Phase

\* The delay is over: Commanding to Transmitting.
LEMMA PhaseNetCommand ==
  ASSUME Phase, DriverOK, TypeOK, NetCommand
  PROVE  Phase'
<1>1. /\ netPc = "cmd" /\ "delay" \notin armed /\ netPc' = "recv"
      /\ wifiStatus' = CommandStatus(netCmd) /\ txBuf' = netCmd
      /\ wifiEv' = EventSend(wifiEv, "TX")
      /\ UNCHANGED <<networkStatus, mq, response, armed>> /\ UNCHANGED fifo /\ UNCHANGED modemVars
      /\ netCmd \in WifiCommands
  BY DEF NetCommand, timerVars, TypeOK, NetTypeOK
<1>2. Commanding
  BY <1>1 DEF Phase, Commanding, Transmitting, Asked, Answered, Idle, Sampled, PayloadDue,
       PayloadSent, PayloadAnswered, AwaitingAck, AckRead, AckPosted, Waits, Posted, Retrying, Rebooting
<1>3. Rest(Said)'
  BY <1>1, <1>2, SaidStays DEF Commanding
<1>4. SendingOnce'
  BY <1>1, <1>2, AskedOnce DEF Commanding
<1>5. armed' = {}
  BY <1>1, <1>2 DEF Commanding
<1>6. Transmitting'
  BY <1>1, <1>2, <1>3, <1>4, <1>5 DEF Commanding, Transmitting, Busy
<1> QED BY <1>6 DEF Phase

\* The two seconds are over: Retrying goes on.
LEMMA PhaseNetResend ==
  ASSUME Phase, TypeOK, NetResend
  PROVE  Phase'
<1>1. /\ netPc = "resend" /\ netPc' = "recv" /\ tcpOn' = FALSE
      /\ txBuf' = "DATA" /\ wifiStatus' = "SEND_DATA" /\ wifiEv' = EventSend(wifiEv, "TX")
      /\ UNCHANGED <<networkStatus, mq, response, slot>> /\ UNCHANGED fifo /\ UNCHANGED modemVars
  BY DEF NetResend, TcpSendData, SetTcpStatus
<1>2. Retrying
  BY <1>1 DEF Phase, Commanding, Transmitting, Asked, Answered, Idle, Sampled, PayloadDue,
       PayloadSent, PayloadAnswered, AwaitingAck, AckRead, AckPosted, Waits, Posted, Rebooting
<1>3. Sending'
  BY <1>1, AskedAgain
<1>4. Said' = Said /\ prompt' = prompt /\ faults' = faults
  BY <1>1, SaidStays
<1>5. Retrying'
  BY <1>1, <1>2, <1>3, <1>4 DEF Retrying, Busy
<1> QED BY <1>5 DEF Phase

\* What does not matter behind the first line does not matter.
LEMMA RestOfLine ==
  ASSUME TypeOK, Rest(Said)
  PROVE  Rest(line)
<1>1. line \in Seq({"OTHER"}) /\ (Said = <<>> => line = <<>>)
  <2>1. line \in Seq(Lines) /\ fifo \in Seq(Lines) /\ fifo \o line \in Seq({"OTHER"})
    BY DEF TypeOK, ModemTypeOK, Rest, Said
  <2>2. \A i \in 1..Len(line) : line[i] = (fifo \o line)[Len(fifo) + i]
    BY <2>1
  <2>3. \A i \in 1..Len(line) : line[i] = "OTHER"
    <3>1. \A i \in 1..Len(line) : Len(fifo) + i \in 1..Len(fifo \o line)
      BY <2>1
    <3>2. \A j \in 1..Len(fifo \o line) : (fifo \o line)[j] = "OTHER"
      BY <2>1
    <3> QED BY <2>2, <3>1, <3>2
  <2>4. line \in Seq({"OTHER"})
    BY <2>1, <2>3
  <2>5. Said = <<>> => line = <<>>
    BY <2>1 DEF Said
  <2> QED BY <2>4, <2>5
<1> QED BY <1>1 DEF Rest

\* The reboot's delay is over: Rebooting to Commanding.
LEMMA PhaseNetReset ==
  ASSUME Phase, TypeOK, NetReset
  PROVE  Phase'
<1>1. netPc = "reboot" /\ "delay" \notin armed /\ Reset /\ faults' = faults
  BY DEF NetReset
<1>2. Rest(Said)
  BY <1>1 DEF Phase, Commanding, Transmitting, Asked, Answered, Idle, Sampled, PayloadDue,
       PayloadSent, PayloadAnswered, AwaitingAck, AckRead, AckPosted, Waits, Posted, Retrying, Rebooting
<1>4. Rest(line)
  BY <1>2, RestOfLine
<1> QED BY <1>1, <1>4, PhaseReset

-----------------------------------------------------------------------------
(* Every step leads from a phase to a phase. *)

\* The gateway starts in Commanding.
LEMMA PhaseInit == Init => DriverOK /\ Phase
<1> SUFFICES ASSUME Init PROVE DriverOK /\ Phase
  OBVIOUS
<1>1. Said = <<>> /\ Rest(Said)
  BY DEF Init, Said, Rest
<1>2. DriverOK
  BY DEF Init, DriverOK, Suspended
<1>3. Commanding
  BY <1>1 DEF Init, Commanding, Sending, Suspended, Busy
<1> QED BY <1>2, <1>3 DEF Phase

\* Every step of the manager leads from a phase to a phase.
LEMMA PhaseManager ==
  ASSUME Phase, DriverOK, TypeOK, NetStep
  PROVE  Phase'
BY PhaseNetOkCommand, PhaseNetOkConnected, PhaseNetOkReady, PhaseNetOkSent,
   PhaseNetOkReceived, PhaseNetOkIgnored, PhaseNetRetry, PhaseNetGiveUp,
   PhaseNetFailIgnored, PhaseNetSendData, PhaseNetCommand, PhaseNetResend, PhaseNetReset
   DEF NetStep

\* Every step leads from a phase to a phase, as long as the environment is orderly.
LEMMA PhaseStep ==
  ASSUME Phase, DriverOK, ResponseLenOK, TypeOK, Orderly', Next
  PROVE  Phase'
<1>1. CASE NetStep
  BY <1>1, PhaseManager
<1>2. CASE WifiStep
  BY <1>2, PhaseDriverMoves, PhaseRead, PhaseRespond, PhaseTransmit DEF WifiStep
<1>3. CASE PlcStep \/ PlcBytesArrive
  BY <1>3, PhasePlc
<1>4. CASE TimerStep
  BY <1>4, PhaseDelayOver, PhaseWifiTimeout, PhaseSendTimeout, PhaseResponseTimeout DEF TimerStep
<1>5. CASE LineArrives
  <2>1. PacedLines
    BY DEF Orderly
  <2> QED BY <1>5, <2>1, PhaseArrives
<1>6. CASE LinkDrop
  BY <1>6, PhaseLinkDrop
<1> QED BY <1>1, <1>2, <1>3, <1>4, <1>5, <1>6 DEF Next

\* A sample in the queue was accepted on a standing connection.
LEMMA SampleOnConnection ==
  ASSUME Phase, netPc # "reboot"
  PROVE  mq # <<>> => (Head(mq) = "plc" => tcpOn)
<1> SUFFICES ASSUME mq # <<>>, Head(mq) = "plc" PROVE tcpOn
  OBVIOUS
<1>1. ~Posted /\ ~Retrying
  BY DEF Posted, Retrying
<1>2. Sampled
  BY <1>1 DEF Phase, Commanding, Transmitting, Asked, Answered, Idle, PayloadDue,
     PayloadSent, PayloadAnswered, AwaitingAck, AckRead, AckPosted, Waits, Rebooting
<1> QED BY <1>2 DEF Sampled

-----------------------------------------------------------------------------
(* The sample on its way *)

\* An answer of the server in a tail, or before one more line, is one of the whole.
LEMMA AnswerShapes ==
  ASSUME NEW l \in Seq(Lines)
  PROVE  /\ l # <<>> /\ HasAnswer(Tail(l)) => HasAnswer(l)
         /\ l # <<>> /\ Head(l) \in ServerLines => HasAnswer(l)
         /\ HasAnswer(l \o <<"OTHER">>) => HasAnswer(l)
<1>1. ASSUME l # <<>>, HasAnswer(Tail(l)) PROVE HasAnswer(l)
  <2>1. PICK i \in DOMAIN Tail(l) : Tail(l)[i] \in ServerLines
    BY <1>1 DEF HasAnswer
  <2>2. i + 1 \in DOMAIN l /\ l[i + 1] = Tail(l)[i]
    BY <1>1
  <2> QED BY <2>1, <2>2 DEF HasAnswer
<1>2. ASSUME l # <<>>, Head(l) \in ServerLines PROVE HasAnswer(l)
  <2>1. 1 \in DOMAIN l /\ l[1] = Head(l)
    BY <1>2
  <2> QED BY <1>2, <2>1 DEF HasAnswer
<1>3. ASSUME HasAnswer(l \o <<"OTHER">>) PROVE HasAnswer(l)
  <2>1. PICK i \in DOMAIN (l \o <<"OTHER">>) : (l \o <<"OTHER">>)[i] \in ServerLines
    BY <1>3 DEF HasAnswer
  <2>2. (i \in DOMAIN l /\ (l \o <<"OTHER">>)[i] = l[i]) \/ (l \o <<"OTHER">>)[i] = "OTHER"
    OBVIOUS
  <2>3. "OTHER" \notin ServerLines
    BY DEF ServerLines
  <2> QED BY <2>1, <2>2, <2>3 DEF HasAnswer
<1> QED BY <1>1, <1>2, <1>3

\* Lines that do not matter hold no answer of the server.
LEMMA RestNoAnswer ==
  ASSUME NEW l, l \in Seq({"OTHER"})
  PROVE  ~HasAnswer(l)
<1>1. \A i \in DOMAIN l : l[i] = "OTHER"
  OBVIOUS
<1> QED BY <1>1 DEF HasAnswer, ServerLines

\* What a modem that was not given a payload says is no answer of the server.
LEMMA ShortNoAnswer ==
  /\ ~HasAnswer(<<>>) /\ ~HasAnswer(<<"ERROR">>) /\ ~HasAnswer(<<"SEND_FAIL">>)
  /\ \A cmd : \A r \in Replies(cmd) : ~HasAnswer(r)
<1>0. \A x \in {"MODE_STATION", "MODE_OTHER", "DHCP_SAME", "DHCP_DIFFERENT", "AP", "LOCAL",
                "OTHER", "OK", "PROMPT", "ERROR", "SEND_FAIL"} : x \notin ServerLines
  BY DEF ServerLines
<1>1. ASSUME NEW a, a \notin ServerLines
      PROVE  /\ ~HasAnswer(<<a>>)
             /\ \A b : b \notin ServerLines => ~HasAnswer(<<a, b>>)
  BY <1>1 DEF HasAnswer
<1>2. ~HasAnswer(<<>>)
  BY DEF HasAnswer
<1>3. ~HasAnswer(<<"ERROR">>) /\ ~HasAnswer(<<"SEND_FAIL">>)
  BY <1>0, <1>1
<1>4. ASSUME NEW cmd, NEW r \in Replies(cmd) PROVE ~HasAnswer(r)
  <2>1. \/ r = <<"MODE_STATION", "OK">> \/ r = <<"MODE_OTHER", "OK">>
        \/ r = <<"DHCP_SAME", "OK">> \/ r = <<"DHCP_DIFFERENT", "OK">>
        \/ r = <<"AP", "OK">> \/ r = <<"LOCAL", "OK">> \/ r = <<"OTHER", "OK">>
        \/ r = <<"OK", "PROMPT">> \/ r = <<"ERROR">> \/ r = <<"OK">>
    BY Zenon DEF Replies
  <2>2. /\ ~HasAnswer(<<"MODE_STATION", "OK">>) /\ ~HasAnswer(<<"MODE_OTHER", "OK">>)
        /\ ~HasAnswer(<<"DHCP_SAME", "OK">>) /\ ~HasAnswer(<<"DHCP_DIFFERENT", "OK">>)
        /\ ~HasAnswer(<<"AP", "OK">>) /\ ~HasAnswer(<<"LOCAL", "OK">>)
        /\ ~HasAnswer(<<"OTHER", "OK">>) /\ ~HasAnswer(<<"OK", "PROMPT">>)
        /\ ~HasAnswer(<<"OK">>)
    BY <1>0, <1>1
  <2> QED BY <1>3, <2>1, <2>2
<1> QED BY <1>2, <1>3, <1>4

\* While the gateway is ready it has nothing to do.
LEMMA ReadyIsIdle ==
  ASSUME Phase, ~Busy
  PROVE  /\ Idle /\ netPc = "recv" /\ mq = <<>> /\ tcpOn /\ armed = {} /\ response = "MAX"
         /\ Rest(Said) /\ ~Sending
BY DEF Phase, Commanding, Transmitting, Asked, Answered, Idle, Sampled, PayloadDue,
   PayloadSent, PayloadAnswered, AwaitingAck, AckRead, AckPosted, Retrying, Rebooting, Waits

\* So the manager acts only when the gateway is not ready.
LEMMA ManagerBusy ==
  ASSUME Phase, NetStep
  PROVE  Busy
<1>1. netPc = "recv" => mq # <<>>
  BY DEF NetStep, NetOkCommand, NetOkConnected, NetOkReady, NetOkSent, NetOkReceived,
     NetOkIgnored, NetRetry, NetGiveUp, NetFailIgnored, NetSendData, NetCommand, NetResend,
     NetReset, NetRecv
<1> QED BY <1>1, ReadyIsIdle

\* With a sample in the queue the driver has nothing to do.
LEMMA SampledQuiet ==
  ASSUME Phase, netPc = "recv", mq = <<"plc">>
  PROVE  Sampled
<1>1. ~Posted /\ ~Retrying
  BY DEF Posted, Retrying
<1> QED BY <1>1 DEF Phase, Commanding, Transmitting, Asked, Answered, Idle, PayloadDue,
       PayloadSent, PayloadAnswered, AwaitingAck, AckRead, AckPosted, Waits, Rebooting

\* KeptOK is kept.
LEMMA KeptStep ==
  ASSUME Phase, KeptOK, DriverOK, Orderly', TypeOK, Next
  PROVE  KeptOK'
<1>1. CASE Reset
  BY <1>1 DEF Reset, KeptOK
<1>2. CASE NetSendData
  BY <1>2 DEF NetSendData, KeepPayload, KeptOK, plcVars
<1>3. CASE NetStep /\ ~Reset /\ ~NetSendData
  <2>1. UNCHANGED <<tcpSend, plcData>>
    BY <1>3 DEF NetStep, NetOkCommand, NetOkConnected, NetOkReady, NetOkSent, NetOkReceived,
       NetOkIgnored, NetRetry, NetGiveUp, NetFailIgnored, NetCommand, NetResend, NetReset, plcVars
  <2>2. ~(netPc = "recv" /\ mq = <<"plc">>)
    <3>1. netPc # "recv" \/ \E msg : NetRecv(msg)
      BY <1>3 DEF NetStep, NetOkCommand, NetOkConnected, NetOkReady, NetOkSent, NetOkReceived,
         NetOkIgnored, NetRetry, NetGiveUp, NetFailIgnored, NetCommand, NetResend, NetReset
    <3>2. (\E msg : NetRecv(msg)) => Head(mq) = "wifi"
      BY DEF NetRecv
    <3> QED BY <3>1, <3>2
  <2> QED BY <2>1, <2>2 DEF KeptOK
<1>4. CASE WifiStep
  <2>1. UNCHANGED <<tcpSend, plcData, netPc>> /\ (WifiRespond \/ UNCHANGED mq)
    BY <1>4 DEF WifiStep, WifiSuspend, WifiRx, WifiRead, WifiRespond, WifiReadDone, WifiTx,
       netVars, plcVars
  <2>2. WifiRespond => ~Sampled
    BY DEF WifiRespond, Sampled
  <2> QED BY <2>1, <2>2, SampledQuiet DEF KeptOK
<1>5. CASE PlcStep \/ PlcBytesArrive
  <2>1. UNCHANGED <<tcpSend, netPc>>
    BY <1>5 DEF PlcStep, PlcIdle, PlcSample, PlcBytesArrive, OthersUnchangedByPlc, netVars
  <2>2. CASE UNCHANGED <<plcData, mq>>
    BY <2>1, <2>2 DEF KeptOK
  <2>3. CASE ~UNCHANGED <<plcData, mq>>
    <3>1. ~Busy /\ mq' = Post(mq, "plc")
      BY <1>5, <2>3 DEF PlcStep, PlcIdle, PlcSample, PlcBytesArrive, SendData, Busy
    <3>2. netPc = "recv" /\ mq' = <<"plc">>
      BY <3>1, ReadyIsIdle, ConstantsOK DEF Post, ConstantsOK
    <3> QED BY <2>1, <3>2 DEF KeptOK
  <2> QED BY <2>2, <2>3
<1>6. CASE TimerStep /\ ~Reset
  <2>1. /\ UNCHANGED <<tcpSend, plcData, netPc>> /\ (WifiTimeout \/ SendTimeout \/ UNCHANGED mq)
    BY <1>6 DEF TimerStep, DelayOver, WifiTimeout, SendTimeout, ResponseTimeout, netVars, plcVars
  <2>2. WifiTimeout \/ SendTimeout => ~Sampled
    BY DEF WifiTimeout, SendTimeout, Expires, Sampled
  <2> QED BY <2>1, <2>2, SampledQuiet DEF KeptOK
<1>7. CASE LineArrives \/ LinkDrop
  BY <1>7 DEF LineArrives, LinkDrop, netVars, plcVars, KeptOK
<1> QED BY <1>1, <1>2, <1>3, <1>4, <1>5, <1>6, <1>7 DEF Next

\* A reset finds nothing that matters on the line.
LEMMA ResetAtRest ==
  ASSUME Phase, DriverOK, TypeOK, Orderly', NetReset \/ ResponseTimeout
  PROVE  Reset /\ Rest(line)
<1>1. CASE NetReset
  <2>1. netPc = "reboot" /\ "delay" \notin armed /\ Reset
    BY <1>1 DEF NetReset
  <2>2. Rest(Said)
    BY <2>1 DEF Phase, Commanding, Transmitting, Asked, Answered, Idle, Sampled, PayloadDue,
       PayloadSent, PayloadAnswered, AwaitingAck, AckRead, AckPosted, Waits, Posted, Retrying, Rebooting
  <2> QED BY <2>1, <2>2, RestOfLine
<1>2. CASE ResponseTimeout
  <2>1. line = <<>> /\ Reset
    BY <1>2, ExpiresAtRest DEF ResponseTimeout
  <2> QED BY <2>1 DEF Rest
<1> QED BY <1>1, <1>2

\* After it the PLC thread has no flags, and nothing is said.
LEMMA ResetSilent ==
  ASSUME Reset, Rest(line)
  PROVE  ~HasAnswer(Said)' /\ ~IncPending' /\ Said' \in Seq({"OTHER"})
<1>1. line' \in Seq({"OTHER"}) /\ fifo' = <<>>
  <2>1. line \in Seq({"OTHER"}) /\ <<>> \in Seq({"OTHER"})
    BY DEF Rest
  <2>2. (line' = line \/ line' = <<>>) /\ fifo' = <<>>
    BY DEF Reset
  <2> QED BY <2>1, <2>2
<1>2. Said' \in Seq({"OTHER"})
  BY <1>1 DEF Said
<1>3. ~HasAnswer(Said)'
  BY <1>2, RestNoAnswer DEF HasAnswer
<1> QED BY <1>2, <1>3 DEF Reset, Suspended, IncPending

\* The PLC thread looks at a set of flags.
LEMMA PlcTakes ==
  ASSUME TypeOK, TokenOK, ~plcEv.blocked, plcEv' = EventRecv(plcEv)
  PROVE  /\ IncPending' => IncPending
         /\ "INC" \in PlcFlags => IncPending /\ ~IncPending'
         /\ plcEv'.latch = {} /\ plcEv'.set \subseteq {"INC"}
         /\ plcEv'.blocked => plcEv'.set = {}
<1>1. plcEv \in [blocked : BOOLEAN, latch : SUBSET {"RX", "INC"}, set : SUBSET {"RX", "INC"}]
  BY DEF TypeOK, PlcTypeOK, Event
<1>2. CASE plcEv.latch = {}
  <2>1. plcEv' = [blocked |-> plcEv.set = {}, latch |-> {}, set |-> {}] /\ PlcFlags = plcEv.set
    BY <1>2 DEF EventRecv, EventFlags, PlcFlags
  <2> QED BY <1>2, <2>1 DEF TokenOK, IncPending
<1>3. CASE plcEv.latch # {}
  <2>1. plcEv' = [plcEv EXCEPT !.latch = {}] /\ PlcFlags = plcEv.latch
    BY <1>3 DEF EventRecv, EventFlags, PlcFlags
  <2>2. plcEv'.latch = {} /\ plcEv'.set = plcEv.set /\ plcEv'.blocked = plcEv.blocked
    BY <1>1, <2>1
  <2> QED BY <1>3, <2>1, <2>2 DEF TokenOK, IncPending
<1> QED BY <1>2, <1>3

\* Bytes of the machine wake it.
LEMMA PlcWakes ==
  ASSUME TypeOK, TokenOK, PlcBytesArrive
  PROVE  plcEv' = [blocked |-> FALSE, latch |-> {"RX"}, set |-> {}] /\ ~IncPending /\ ~IncPending'
<1>1. plcEv.blocked /\ plcEv' = EventSend(plcEv, "RX")
  BY DEF PlcBytesArrive
<1>2. plcEv.set = {} /\ plcEv.latch = {}
  BY <1>1 DEF TokenOK
<1>3. plcEv' = [blocked |-> FALSE, latch |-> {"RX"}, set |-> {}]
  BY <1>1, <1>2 DEF EventSend
<1> QED BY <1>2, <1>3 DEF IncPending

\* The acknowledgement reaches the PLC thread.
LEMMA PlcAcknowledged ==
  ASSUME TypeOK, TokenOK, ~IncPending, plcEv' = EventSend(plcEv, "INC")
  PROVE  /\ plcEv'.latch \in {{}, {"RX"}, {"INC"}} /\ plcEv'.set \subseteq {"INC"}
         /\ (plcEv'.latch = {"INC"} => plcEv'.set = {}) /\ ~plcEv'.blocked
<1>1. plcEv \in [blocked : BOOLEAN, latch : SUBSET {"RX", "INC"}, set : SUBSET {"RX", "INC"}]
  BY DEF TypeOK, PlcTypeOK, Event
<1>2. plcEv.set = {} /\ plcEv.latch \in {{}, {"RX"}}
  BY DEF TokenOK, IncPending
<1>3. CASE plcEv.blocked
  <2>1. plcEv' = [blocked |-> FALSE, latch |-> {"INC"}, set |-> {}]
    BY <1>2, <1>3 DEF EventSend
  <2> QED BY <2>1
<1>4. CASE ~plcEv.blocked
  <2>1. plcEv' = [plcEv EXCEPT !.set = plcEv.set \cup {"INC"}]
    BY <1>4 DEF EventSend
  <2>2. plcEv'.set = {"INC"} /\ plcEv'.latch = plcEv.latch /\ ~plcEv'.blocked
    BY <1>1, <1>2, <1>4, <2>1
  <2> QED BY <1>2, <2>2
<1> QED BY <1>3, <1>4

\* TokenOK is kept: an acknowledgement is reported only when the last one is consumed.
LEMMA TokenStep ==
  ASSUME Phase, TokenOK, DriverOK, Orderly', TypeOK, Next
  PROVE  TokenOK'
<1>0. PacedLines
  BY DEF Orderly
<1>1. CASE NetReset \/ ResponseTimeout
  <2>1. Reset
    BY <1>1 DEF NetReset, ResponseTimeout
  <2> QED BY <2>1 DEF Reset, TokenOK, Suspended, IncPending
<1>2. CASE NetOkReceived
  <2>1. NetRecv("OK") /\ slot.stat = "RECEIVE_DATA" /\ plcEv' = EventSend(plcEv, "INC")
        /\ UNCHANGED wifiVars /\ UNCHANGED fifo
    BY <1>2 DEF NetOkReceived, SetSendEvent
  <2>2. ~IncPending
    BY <2>1 DEF TokenOK, NetRecv
  <2>3. mq' = <<>> /\ fifo' = <<>> /\ response' = "MAX"
    BY <2>1, ReceivedIn DEF Posted, Retrying, wifiVars
  <2> QED BY <2>1, <2>2, <2>3, PlcAcknowledged DEF TokenOK
<1>3. CASE NetStep /\ ~NetOkReceived /\ ~NetReset
  <2>1. UNCHANGED <<plcEv, fifo, response>>
    <3>1. CASE NetRetry
      BY <3>1, RetryOutcomes DEF NetRetry, TcpSendData, wifiVars, plcVars
    <3> QED BY <1>3, <3>1 DEF NetStep, NetOkCommand, NetOkConnected, NetOkReady, NetOkSent,
       NetOkIgnored, NetGiveUp, NetFailIgnored, NetSendData, NetCommand, NetResend, TcpSendData,
       wifiVars, plcVars
  <2>2. mq' = mq \/ NetSendData \/ \E msg : NetRecv(msg)
    BY <1>3 DEF NetStep, NetOkCommand, NetOkConnected, NetOkReady, NetOkSent, NetOkIgnored,
       NetRetry, NetGiveUp, NetFailIgnored, NetCommand, NetResend
  <2>3. (\E msg : NetRecv(msg)) => mq # <<>> /\ Head(mq) = "wifi"
    BY DEF NetRecv
  <2>4. CASE NetSendData
    <3>1. netPc = "recv" /\ mq # <<>> /\ Head(mq) = "plc" /\ mq' = Tail(mq)
      BY <2>4 DEF NetSendData
    <3>2. ~Posted /\ ~Retrying
      BY <3>1 DEF Posted, Retrying
    <3>3. Sampled
      BY <3>1, <3>2 DEF Phase, Commanding, Transmitting, Asked, Answered, Idle, PayloadDue,
         PayloadSent, PayloadAnswered, AwaitingAck, AckRead, AckPosted, Waits, Rebooting
    <3>4. mq' = <<>>
      BY <3>1, <3>3 DEF Sampled
    <3> QED BY <2>1, <3>4 DEF TokenOK, IncPending
  <2> QED BY <2>1, <2>2, <2>3, <2>4 DEF TokenOK, IncPending
<1>4. CASE WifiRespond
  <2>1. response # "MAX" /\ response' = "MAX" /\ UNCHANGED <<plcEv, fifo>>
    BY <1>4 DEF WifiRespond, plcVars
  <2> QED BY <2>1 DEF TokenOK, IncPending
<1>5. CASE WifiStep /\ ~WifiRespond
  <2>1. UNCHANGED <<plcEv, mq>> /\ (UNCHANGED <<fifo, response>> \/ fifo # <<>>)
    BY <1>5 DEF WifiStep, WifiSuspend, WifiRx, WifiRead, WifiReadDone, WifiTx, plcVars
  <2> QED BY <2>1 DEF TokenOK, IncPending
<1>6. CASE PlcStep
  <2>1. ~plcEv.blocked /\ plcEv' = EventRecv(plcEv) /\ UNCHANGED <<fifo, response>>
    BY <1>6 DEF PlcStep, PlcIdle, PlcSample, OthersUnchangedByPlc, wifiVars
  <2>2. mq' = mq \/ (mq = <<>> /\ mq' = <<"plc">>)
    <3>1. mq' = mq \/ (~Busy /\ mq' = Post(mq, "plc"))
      BY <1>6 DEF PlcStep, PlcIdle, PlcSample, SendData, Busy
    <3>2. CASE ~Busy /\ mq' = Post(mq, "plc")
      <4>1. mq = <<>>
        BY <3>2, ReadyIsIdle
      <4>2. mq' = <<"plc">>
        BY <3>2, <4>1, ConstantsOK DEF Post, ConstantsOK
      <4> QED BY <4>1, <4>2
    <3> QED BY <3>1, <3>2
  <2> QED BY <2>1, <2>2, PlcTakes DEF TokenOK
<1>7. CASE PlcBytesArrive
  <2>1. UNCHANGED <<fifo, response, mq>>
    BY <1>7 DEF PlcBytesArrive, OthersUnchangedByPlc, wifiVars
  <2> QED BY <1>7, <2>1, PlcWakes DEF TokenOK
<1>8. CASE TimerStep /\ ~ResponseTimeout
  <2>1. UNCHANGED <<plcEv, fifo>> /\ response' \in {response, "MAX"}
    BY <1>8 DEF TimerStep, DelayOver, WifiTimeout, SendTimeout, plcVars, wifiVars
  <2>2. AtRest
    BY <1>8, ExpiresAtRest DEF TimerStep, DelayOver, WifiTimeout, SendTimeout
  <2>3. ~IncPending
    BY <2>2 DEF AtRest, TokenOK, IncPending
  <2> QED BY <2>1, <2>3 DEF TokenOK, IncPending
<1>9. CASE LineArrives
  <2>1. UNCHANGED <<plcEv, mq, response>> /\ AtRest
    BY <1>0, <1>9 DEF LineArrives, plcVars
  <2>2. ~IncPending
    BY <2>1 DEF AtRest, TokenOK, IncPending
  <2> QED BY <2>1, <2>2 DEF TokenOK, IncPending
<1>10. CASE LinkDrop
  BY <1>10 DEF LinkDrop, plcVars, wifiVars, TokenOK, IncPending
<1> QED BY <1>1, <1>2, <1>3, <1>4, <1>5, <1>6, <1>7, <1>8, <1>9, <1>10 DEF Next, TimerStep

\* The sensors of a round follow each other.
LEMMA Successors ==
  ASSUME LastCode > 2
  PROVE  /\ NextSensor(1) = 2 /\ NextSensor(2) = 3 /\ NextSensor(LastCode) = 1
         /\ \A c \in Samples : NextSensor(c) \in Samples /\ (NextSensor(c) = 1 => c = LastCode)
BY ConstantsOK DEF ConstantsOK, NextSensor, Samples

\* Taking a sample moves the count on as CountOK says.
LEMMA CountSample ==
  ASSUME LastCode > 2, TypeOK, TokenOK, CountOK, PlcSample
  PROVE  CountOK'
<1>1. /\ ~plcEv.blocked /\ PlcDue /\ plcEv' = EventRecv(plcEv)
      /\ SendData(sensorCodeCount) /\ sensorCodeCount' = NextSensor(sensorCodeCount)
  BY DEF PlcSample
<1>2. plcData \in Samples \cup {NoSample} /\ sensorCodeCount \in Samples /\ NoSample \notin Samples
  BY DEF TypeOK, PlcTypeOK, NoSample, Samples
<1>3. /\ IncPending' => IncPending
      /\ "INC" \in PlcFlags => IncPending /\ ~IncPending'
  BY <1>1, PlcTakes
<1>4. CASE networkStatus = "STANDBY_SEND"
  <2>1. plcData' = sensorCodeCount
    BY <1>1, <1>4 DEF SendData
  <2>2. IncPending' => sensorCodeCount = 1
    BY <1>1, <1>3 DEF PlcDue
  <2> QED BY <1>1, <1>3, <2>1, <2>2, Successors DEF CountOK
<1>5. CASE networkStatus # "STANDBY_SEND"
  <2>1. UNCHANGED plcData /\ Busy
    BY <1>1, <1>5 DEF SendData, Busy
  <2> SUFFICES ASSUME plcData # NoSample PROVE CountOK'
    BY <2>1 DEF CountOK
  <2>2. plcData \in Samples
    BY <1>2
  <2>3. CASE "INC" \in PlcFlags
    <3>1. plcData = 1 /\ sensorCodeCount = 2 /\ ~IncPending'
      BY <1>3, <2>1, <2>3 DEF CountOK
    <3>2. sensorCodeCount' = NextSensor(NextSensor(plcData'))
      BY <1>1, <2>1, <3>1, Successors
    <3> QED BY <2>1, <3>1, <3>2 DEF CountOK
  <2>4. CASE sensorCodeCount = 1
    <3>1. NextSensor(plcData) = 1
      <4>1. NextSensor(NextSensor(1)) = 3 /\ NextSensor(NextSensor(LastCode)) = 2
        BY Successors
      <4> QED BY <2>4, <4>1 DEF CountOK
    <3>2. plcData = LastCode /\ LastCode # 1
      BY <2>2, <3>1, Successors
    <3>3. ~IncPending'
      BY <1>3, <2>1, <3>2 DEF CountOK
    <3>4. sensorCodeCount' = NextSensor(NextSensor(plcData'))
      BY <1>1, <2>1, <2>4, <3>1
    <3> QED BY <2>1, <3>2, <3>3, <3>4 DEF CountOK
  <2> QED BY <1>1, <2>3, <2>4 DEF PlcDue
<1> QED BY <1>4, <1>5

\* CountOK is kept.
LEMMA CountStep ==
  ASSUME LastCode > 2, Phase, TokenOK, CountOK, TypeOK, Next
  PROVE  CountOK'
<1>1. CASE Reset
  BY <1>1 DEF Reset, CountOK
<1>2. CASE NetStep /\ ~Reset
  <2>1. UNCHANGED <<plcData, sensorCodeCount>> /\ Busy
    BY <1>2, ManagerBusy DEF NetStep, NetOkCommand, NetOkConnected, NetOkReady, NetOkSent,
       NetOkReceived, NetOkIgnored, NetRetry, NetGiveUp, NetFailIgnored, NetSendData, NetCommand,
       NetResend, NetReset, plcVars
  <2>2. UNCHANGED plcEv \/ ~Busy'
    BY <1>2 DEF NetStep, NetOkCommand, NetOkConnected, NetOkReady, NetOkSent,
       NetOkReceived, NetOkIgnored, NetRetry, NetGiveUp, NetFailIgnored, NetSendData, NetCommand,
       NetResend, NetReset, plcVars, Busy
  <2> QED BY <2>1, <2>2 DEF CountOK, IncPending
<1>3. CASE WifiStep \/ LineArrives \/ LinkDrop \/ (TimerStep /\ ~Reset)
  <2>1. UNCHANGED <<plcData, sensorCodeCount, plcEv, networkStatus>>
    BY <1>3 DEF WifiStep, WifiSuspend, WifiRx, WifiRead, WifiRespond, WifiReadDone, WifiTx,
       LineArrives, LinkDrop, TimerStep, DelayOver, WifiTimeout, SendTimeout, ResponseTimeout, plcVars
  <2> QED BY <2>1 DEF CountOK, IncPending, Busy
<1>4. CASE PlcSample
  BY <1>4, CountSample
<1>5. CASE PlcIdle
  <2>1. UNCHANGED <<plcData, sensorCodeCount, networkStatus>> /\ ~plcEv.blocked
        /\ plcEv' = EventRecv(plcEv)
    BY <1>5 DEF PlcIdle
  <2>2. IncPending' => IncPending
    BY <2>1, PlcTakes
  <2> QED BY <2>1, <2>2 DEF CountOK, Busy
<1>6. CASE PlcBytesArrive
  <2>1. UNCHANGED <<plcData, sensorCodeCount, networkStatus>> /\ ~IncPending'
    BY <1>6, PlcWakes DEF PlcBytesArrive
  <2> QED BY <2>1 DEF CountOK, Busy
<1> QED BY <1>1, <1>2, <1>3, <1>4, <1>5, <1>6 DEF Next, PlcStep

\* Only a payload makes the server answer.
LEMMA PayloadAnswers ==
  ASSUME TypeOK, DriverOK, WifiTx, HasAnswer(Said)'
  PROVE  HasAnswer(Said) \/ (txBuf = "DATA" /\ ModemPayload)
<1>1. fifo = <<>> /\ fifo' = <<>>
  BY TransmitFacts
<1>2. Said = line /\ Said' = line'
  <2>1. line \in Seq(Lines) /\ line' \in Seq(Lines)
    BY TypeStep DEF TypeOK, ModemTypeOK, Next, WifiStep
  <2> QED BY <1>1, <2>1 DEF Said
<1>3. HasAnswer(line')
  BY <1>2 DEF HasAnswer
<1>4. CASE UNCHANGED modemVars
  BY <1>2, <1>3, <1>4 DEF modemVars
<1>5. CASE line = <<>> /\ ModemCommand(txBuf)
  <2>1. PICK r \in Replies(txBuf) : Answer(r)
    BY <1>5 DEF ModemCommand
  <2>2. line' = r
    BY <1>5, <2>1, RepliesType, AnswerAlone
  <2> QED BY <1>3, <2>2, ShortNoAnswer
<1>6. CASE line = <<>> /\ (ModemSwallow \/ ModemSilent)
  <2>1. line' = <<>>
    BY <1>6, ModemLines, AnswerAlone DEF ModemSwallow, ModemSilent
  <2> QED BY <1>3, <2>1, ShortNoAnswer
<1>7. CASE line = <<>> /\ ModemSendFails
  <2>1. line' = <<"SEND_FAIL">>
    BY <1>7, ModemLines, AnswerAlone DEF ModemSendFails
  <2> QED BY <1>3, <2>1, ShortNoAnswer
<1>8. CASE line = <<>> /\ (ModemRefuses \/ ModemAsksAgain)
  <2>1. line' = <<"ERROR">>
    BY <1>8, ModemLines, AnswerAlone DEF ModemRefuses, ModemAsksAgain
  <2> QED BY <1>3, <2>1, ShortNoAnswer
<1>9. txBuf = "NONE" => UNCHANGED modemVars
  BY DEF WifiTx
<1> QED BY <1>1, <1>4, <1>5, <1>6, <1>7, <1>8, <1>9, ModemMoves

\* What is said depends on the buffer and the wire alone.
LEMMA SaidUnchanged ==
  ASSUME UNCHANGED <<fifo, line>>
  PROVE  Said' = Said /\ (HasAnswer(Said)' <=> HasAnswer(Said))
BY DEF Said, HasAnswer

\* A line that is read takes its place in what is said.
LEMMA ReadAnswers ==
  ASSUME TypeOK, DriverOK, WifiRead
  PROVE  /\ HasAnswer(Said)' => HasAnswer(Said)
         /\ Head(fifo) \in ServerLines => HasAnswer(Said)
         /\ Head(fifo) \in Lines
<1>1. fifo # <<>> /\ fifo' = <<>> /\ line' = line
  BY DEF WifiRead, modemVars
<1>2. Said # <<>> /\ Head(Said) = Head(fifo) /\ Said' = Tail(Said) /\ Head(fifo) \in Lines
  BY <1>1, SaidRead DEF TypeOK
<1>3. Said \in Seq(Lines)
  BY DEF TypeOK, ModemTypeOK, Said
<1>4. HasAnswer(Said)' => HasAnswer(Tail(Said))
  BY <1>2 DEF HasAnswer
<1> QED BY <1>2, <1>3, <1>4, AnswerShapes

\* NoneYetOK is kept.
LEMMA NoneYetStep ==
  ASSUME Phase, NoneYetOK, TokenOK, DriverOK, Orderly', TypeOK, Next
  PROVE  NoneYetOK'
<1>0. PacedLines
  BY DEF Orderly
<1>1. CASE NetReset \/ ResponseTimeout
  <2>1. Reset /\ ~HasAnswer(Said)' /\ ~IncPending'
    BY <1>1, ResetAtRest, ResetSilent
  <2> QED BY <2>1 DEF NoneYetOK, Reset, EmptySlot, DataStatuses
<1>2. CASE ~UNCHANGED plcData /\ ~NetReset /\ ~ResponseTimeout
  <2>1. PlcSample
    BY <1>2 DEF Next, NetStep, NetOkCommand, NetOkConnected, NetOkReady, NetOkSent,
       NetOkReceived, NetOkIgnored, NetRetry, NetGiveUp, NetFailIgnored, NetSendData, NetCommand,
       NetResend, WifiStep, WifiSuspend, WifiRx, WifiRead, WifiRespond, WifiReadDone, WifiTx,
       LineArrives, LinkDrop, TimerStep, DelayOver, WifiTimeout, SendTimeout, PlcStep, PlcIdle,
       PlcBytesArrive, plcVars
  <2>2. plcData' \in Samples
    BY <1>2, <2>1 DEF PlcSample, SendData, TypeOK, PlcTypeOK
  <2>3. plcData' # NoSample
    BY <2>2 DEF Samples, NoSample
  <2> QED BY <2>3 DEF NoneYetOK
<1>3. CASE UNCHANGED plcData /\ plcData # NoSample
  BY <1>3 DEF NoneYetOK
<1>4. CASE UNCHANGED plcData /\ plcData = NoSample /\ ~NetReset /\ ~ResponseTimeout
  <2>0. /\ txBuf # "DATA" /\ netPc # "resend" /\ (Busy => ~tcpOn) /\ ~HasAnswer(Said)
        /\ wifiStatus \notin DataStatuses /\ slot.stat \notin DataStatuses
        /\ sensorCodeCount = 1 /\ ~IncPending
    BY <1>4 DEF NoneYetOK
  <2>d. DataStatuses = {"SET_SEND_DATA_LENGTH", "READY_TO_SEND_DATA", "SEND_DATA", "RECEIVE_DATA"}
    BY DEF DataStatuses
  <2>1. CASE NetStep
    <3>1. Busy /\ ~tcpOn
      BY <2>0, <2>1, ManagerBusy
    <3>2. ~NetOkReady /\ ~NetOkSent /\ ~NetOkReceived /\ ~NetResend
      BY <2>0, <2>d DEF NetOkReady, NetOkSent, NetOkReceived, NetResend
    <3>3. ~NetSendData
      <4>1. NetSendData => netPc = "recv" /\ mq # <<>> /\ Head(mq) = "plc"
        BY DEF NetSendData
      <4> QED BY <3>1, <4>1, SampleOnConnection
    <3>4. UNCHANGED <<sensorCodeCount, plcEv, fifo, line>>
      BY <1>4, <2>1, <3>2, <3>3 DEF NetStep, NetOkCommand, NetOkConnected, NetOkIgnored,
         NetRetry, NetGiveUp, NetFailIgnored, NetCommand, plcVars, modemVars
    <3>5. ~HasAnswer(Said)' /\ ~IncPending'
      BY <2>0, <3>4, SaidUnchanged DEF IncPending
    <3>6. CASE NetCommand
      <4>1. /\ wifiStatus' = CommandStatus(netCmd) /\ txBuf' = netCmd /\ netPc' = "recv"
            /\ UNCHANGED <<tcpOn, slot>> /\ netCmd \in WifiCommands
        BY <3>6 DEF NetCommand, plcVars, TypeOK, NetTypeOK
      <4>2. CommandStatus(netCmd) \notin DataStatuses /\ netCmd # "DATA"
        BY <4>1, <2>d DEF CommandStatus, WifiCommands
      <4> QED BY <2>0, <3>1, <3>4, <3>5, <4>1, <4>2 DEF NoneYetOK
    <3>7. CASE NetOkConnected
      <4>1. UNCHANGED netPc /\ UNCHANGED wifiVars /\ networkStatus' = "STANDBY_SEND"
        BY <3>1, <3>7 DEF NetOkConnected, Stay
      <4> QED BY <2>0, <3>4, <3>5, <4>1 DEF NoneYetOK, wifiVars, Busy
    <3>8. CASE NetOkCommand \/ NetOkIgnored \/ NetRetry \/ NetGiveUp \/ NetFailIgnored
      <4>1. UNCHANGED wifiVars /\ UNCHANGED tcpOn /\ netPc' # "resend"
        <5>1. CASE NetRetry
          <6>1. slot.stat # "SEND_DATA" /\ slot.stat # "READY_TO_SEND_DATA"
            BY <2>0, <2>d
          <6> QED BY <5>1, <6>1, RetryOutcomes DEF NetRetry, plcVars
        <5>2. CASE NetGiveUp
          BY <5>2 DEF NetGiveUp, Reboot, DelayCommand, plcVars
        <5> QED BY <2>0, <3>8, <5>1, <5>2 DEF NetOkCommand, NetOkIgnored, NetFailIgnored,
              DelayCommand, Stay, plcVars
      <4> QED BY <2>0, <3>1, <3>4, <3>5, <4>1 DEF NoneYetOK, wifiVars
    <3> QED BY <1>4, <2>1, <3>2, <3>3, <3>6, <3>7, <3>8 DEF NetStep
  <2>2. CASE WifiRead
    <3>1. ~HasAnswer(Said)' /\ Head(fifo) \notin ServerLines
      BY <2>0, <2>2, ReadAnswers
    <3>2. wifiStatus' \notin DataStatuses
      BY <2>0, <2>d, <2>2, <3>1 DEF WifiRead, StatusAfter, ServerLines
    <3>3. UNCHANGED <<txBuf, netPc, networkStatus, tcpOn, slot, sensorCodeCount, plcEv>>
      BY <2>2 DEF WifiRead, netVars, plcVars
    <3> QED BY <2>0, <3>1, <3>2, <3>3 DEF NoneYetOK, Busy, IncPending
  <2>3. CASE WifiTx
    <3>1. ~HasAnswer(Said)'
      BY <2>0, <2>3, PayloadAnswers
    <3>2. /\ UNCHANGED <<netPc, networkStatus, tcpOn, slot, sensorCodeCount, plcEv, wifiStatus>>
          /\ txBuf' = "NONE"
      BY <2>3 DEF WifiTx, netVars, plcVars
    <3> QED BY <2>0, <3>1, <3>2 DEF NoneYetOK, Busy, IncPending
  <2>4. CASE WifiSuspend \/ WifiRx \/ WifiRespond \/ WifiReadDone \/ DelayOver \/ WifiTimeout
             \/ SendTimeout
    <3>1. /\ UNCHANGED <<netPc, networkStatus, tcpOn, sensorCodeCount, plcEv, wifiStatus, txBuf>>
          /\ UNCHANGED <<fifo, line>>
          /\ slot'.stat \in {slot.stat, wifiStatus}
      BY <2>4 DEF WifiSuspend, WifiRx, WifiRespond, WifiReadDone, DelayOver, WifiTimeout,
         SendTimeout, netVars, plcVars, wifiVars, modemVars, TypeOK, WifiTypeOK
    <3> QED BY <2>0, <3>1, SaidUnchanged DEF NoneYetOK, Busy, IncPending
  <2>5. CASE PlcStep \/ PlcBytesArrive
    <3>1. UNCHANGED <<netPc, tcpOn, wifiStatus, txBuf, slot, fifo, line>>
      BY <2>5 DEF PlcStep, PlcIdle, PlcSample, PlcBytesArrive, OthersUnchangedByPlc, netVars,
         wifiVars, modemVars
    <3>2. UNCHANGED <<networkStatus, sensorCodeCount>>
      <4>1. ~PlcSample
        <5>1. PlcSample => tcpOn /\ SendData(sensorCodeCount) /\ sensorCodeCount \in Samples
          BY DEF PlcSample, TypeOK, PlcTypeOK
        <5>2. tcpOn => networkStatus = "STANDBY_SEND"
          BY <2>0 DEF Busy
        <5> QED BY <1>4, <5>1, <5>2 DEF SendData, Samples, NoSample
      <4> QED BY <2>5, <4>1 DEF PlcStep, PlcIdle, PlcBytesArrive
    <3>3. ~IncPending'
      <4>1. CASE PlcStep
        BY <2>0, <4>1, PlcTakes DEF PlcStep, PlcIdle, PlcSample
      <4>2. CASE PlcBytesArrive
        BY <4>2, PlcWakes
      <4> QED BY <2>5, <4>1, <4>2
    <3> QED BY <2>0, <3>1, <3>2, <3>3, SaidUnchanged DEF NoneYetOK, Busy
  <2>6. CASE LineArrives \/ LinkDrop
    <3>1. UNCHANGED <<netPc, networkStatus, tcpOn, sensorCodeCount, plcEv, wifiStatus, txBuf, slot>>
      BY <2>6 DEF LineArrives, LinkDrop, netVars, plcVars, wifiVars
    <3>2. ~HasAnswer(Said)'
      <4>1. Said \in Seq(Lines)
        BY DEF TypeOK, ModemTypeOK, Said
      <4>2. CASE LineArrives
        <5>1. Said' = Said
          BY <1>0, <4>2, DriverArrives, SaidArrives DEF LineArrives, TypeOK
        <5> QED BY <2>0, <5>1 DEF HasAnswer
      <4>3. CASE LinkDrop
        <5>1. Said' = Said \o <<"OTHER">>
          BY <4>3, SaidDrop DEF LinkDrop, Answer, TypeOK
        <5>2. ~HasAnswer(Said \o <<"OTHER">>)
          BY <2>0, <4>1, AnswerShapes
        <5> QED BY <5>1, <5>2 DEF HasAnswer
      <4> QED BY <2>6, <4>2, <4>3
    <3> QED BY <2>0, <3>1, <3>2 DEF NoneYetOK, Busy, IncPending
  <2> QED BY <1>4, <2>1, <2>2, <2>3, <2>4, <2>5, <2>6 DEF Next, WifiStep, TimerStep
<1> QED BY <1>1, <1>2, <1>3, <1>4

\* Answers of the server do not appear of themselves.
LEMMA SaidGrows ==
  ASSUME Phase, TypeOK, DriverOK, Orderly', Next, HasAnswer(Said)'
  PROVE  HasAnswer(Said) \/ (WifiTx /\ txBuf = "DATA" /\ ModemPayload)
<1>0. PacedLines
  BY DEF Orderly
<1>1. CASE NetReset \/ ResponseTimeout
  BY <1>1, ResetAtRest, ResetSilent
<1>2. CASE NetStep /\ ~NetReset
  <2>1. UNCHANGED <<fifo, line>>
    BY <1>2 DEF NetStep, NetOkCommand, NetOkConnected, NetOkReady, NetOkSent,
       NetOkReceived, NetOkIgnored, NetRetry, NetGiveUp, NetFailIgnored, NetSendData, NetCommand,
       NetResend, modemVars
  <2> QED BY <2>1, SaidUnchanged
<1>3. CASE WifiTx
  BY <1>3, PayloadAnswers
<1>4. CASE WifiRead
  BY <1>4, ReadAnswers
<1>5. CASE \/ WifiSuspend \/ WifiRx \/ WifiRespond \/ WifiReadDone \/ PlcStep \/ PlcBytesArrive
           \/ (TimerStep /\ ~ResponseTimeout)
  <2>1. UNCHANGED <<fifo, line>>
    BY <1>5 DEF WifiSuspend, WifiRx, WifiRespond, WifiReadDone, PlcStep, PlcIdle, PlcSample,
       PlcBytesArrive, OthersUnchangedByPlc, TimerStep, DelayOver, WifiTimeout, SendTimeout, modemVars
  <2> QED BY <2>1, SaidUnchanged
<1>6. CASE LineArrives
  <2>1. Said' = Said
    BY <1>0, <1>6, DriverArrives, SaidArrives DEF LineArrives, TypeOK
  <2> QED BY <2>1 DEF HasAnswer
<1>7. CASE LinkDrop
  <2>1. Said' = Said \o <<"OTHER">> /\ Said \in Seq(Lines)
    BY <1>7, SaidDrop DEF LinkDrop, Answer, TypeOK, ModemTypeOK, Said
  <2>2. HasAnswer(Said \o <<"OTHER">>)
    BY <2>1 DEF HasAnswer
  <2> QED BY <2>1, <2>2, AnswerShapes
<1> QED BY <1>1, <1>2, <1>3, <1>4, <1>5, <1>6, <1>7 DEF Next, WifiStep

\* What the server has received changes with a payload and a reset only.
LEMMA ReceivedChanges ==
  ASSUME Next, received' # received
  PROVE  Reset \/ (WifiTx /\ txBuf = "DATA" /\ ModemPayload)
<1>1. CASE WifiTx
  BY <1>1 DEF WifiTx, ModemBusy, ModemCommand, ModemSendFails, ModemSwallow, ModemSilent,
     ModemRefuses, ModemAsksAgain, modemVars
<1>2. CASE NetStep
  BY <1>2 DEF NetStep, NetOkCommand, NetOkConnected, NetOkReady, NetOkSent,
       NetOkReceived, NetOkIgnored, NetRetry, NetGiveUp, NetFailIgnored, NetSendData, NetCommand,
       NetResend, NetReset, modemVars
<1>3. CASE WifiStep /\ ~WifiTx
  BY <1>3 DEF WifiStep, WifiSuspend, WifiRx, WifiRead, WifiRespond, WifiReadDone, modemVars
<1>4. CASE PlcStep \/ PlcBytesArrive \/ TimerStep \/ LineArrives \/ LinkDrop
  BY <1>4 DEF PlcStep, PlcIdle, PlcSample, PlcBytesArrive, OthersUnchangedByPlc, TimerStep,
     DelayOver, WifiTimeout, SendTimeout, ResponseTimeout, LineArrives, LinkDrop, modemVars
<1> QED BY <1>1, <1>2, <1>3, <1>4 DEF Next

\* What is delivered is the sample on its way.
LEMMA PayloadDelivers ==
  ASSUME Phase, KeptOK, TypeOK, DriverOK, WifiTx, ModemPayload
  PROVE  received' = plcData /\ plcData' = plcData
<1>1. Sending
  BY TransmitFacts
<1>2. ~(netPc = "recv" /\ mq = <<"plc">>)
  BY <1>1, SampledQuiet DEF Sampled
<1> QED BY <1>2 DEF KeptOK, ModemPayload, WifiTx, plcVars

\* The sample changes when the gateway is ready for it.
LEMMA SampleChanges ==
  ASSUME Phase, Next, plcData' # plcData
  PROVE  \/ Reset
         \/ /\ ~Busy /\ PlcSample /\ Rest(Said) /\ Said' = Said
            /\ netPc' = "recv" /\ mq' = <<"plc">> /\ UNCHANGED <<wifiStatus, slot>>
<1>1. Reset \/ PlcSample
  BY DEF Next, NetStep, NetOkCommand, NetOkConnected, NetOkReady, NetOkSent,
       NetOkReceived, NetOkIgnored, NetRetry, NetGiveUp, NetFailIgnored, NetSendData, NetCommand,
       NetResend, NetReset, WifiStep, WifiSuspend, WifiRx, WifiRead, WifiRespond, WifiReadDone, WifiTx,
       LineArrives, LinkDrop, TimerStep, DelayOver, WifiTimeout, SendTimeout, ResponseTimeout,
       PlcStep, PlcIdle, PlcBytesArrive, plcVars
<1>2. CASE PlcSample
  <2>1. ~Busy /\ mq' = Post(mq, "plc") /\ UNCHANGED <<netPc, wifiStatus, slot, fifo, line>>
    BY <1>2 DEF PlcSample, SendData, Busy, OthersUnchangedByPlc, netVars, wifiVars, modemVars
  <2>2. mq = <<>> /\ netPc = "recv" /\ Rest(Said)
    BY <2>1, ReadyIsIdle
  <2>3. mq' = <<"plc">>
    BY <2>1, <2>2, ConstantsOK DEF Post, ConstantsOK
  <2> QED BY <1>2, <2>1, <2>2, <2>3, SaidUnchanged
<1> QED BY <1>1, <1>2

\* The gateway stays busy until an answer of the server, or a connection, makes it ready.
LEMMA BusyComes ==
  ASSUME Phase, Next, Busy', ~Busy
  PROVE  plcData' # plcData \/ Reset \/ (PlcSample /\ mq' = <<"plc">> /\ netPc' = "recv")
<1>1. ~NetStep
  BY ManagerBusy
<1>2. Reset \/ PlcSample
  BY <1>1 DEF Next, WifiStep, WifiSuspend, WifiRx, WifiRead, WifiRespond, WifiReadDone, WifiTx,
       LineArrives, LinkDrop, TimerStep, DelayOver, WifiTimeout, SendTimeout, ResponseTimeout,
       PlcStep, PlcIdle, PlcBytesArrive, Busy
<1>3. CASE PlcSample
  <2>1. mq' = Post(mq, "plc") /\ UNCHANGED netPc
    BY <1>3 DEF PlcSample, SendData, Busy, OthersUnchangedByPlc, netVars
  <2>2. mq = <<>> /\ netPc = "recv"
    BY ReadyIsIdle
  <2>3. mq' = <<"plc">>
    BY <2>1, <2>2, ConstantsOK DEF Post, ConstantsOK
  <2> QED BY <1>3, <2>1, <2>2, <2>3
<1> QED BY <1>2, <1>3

\* DeliveredOK is kept.
LEMMA DeliveredStep ==
  ASSUME Phase, KeptOK, DeliveredOK, TypeOK, DriverOK, Orderly', Next
  PROVE  DeliveredOK'
<1>1. CASE Reset
  BY <1>1 DEF Reset, DeliveredOK
<1>2. CASE WifiTx /\ ModemPayload
  BY <1>2, PayloadDelivers DEF DeliveredOK
<1>3. CASE plcData' # plcData /\ ~Reset
  <2>1. /\ Rest(Said) /\ Said' = Said /\ netPc' = "recv" /\ mq' = <<"plc">>
    BY <1>3, SampleChanges
  <2>2. ~HasAnswer(Said)'
    BY <2>1, RestNoAnswer DEF Rest, HasAnswer
  <2>3. mq' # <<"wifi">>
    BY <2>1
  <2> QED BY <2>1, <2>2, <2>3 DEF DeliveredOK
<1>4. CASE plcData' = plcData /\ ~Reset /\ ~(WifiTx /\ ModemPayload)
  <2>1. received' = received
    BY <1>4, ReceivedChanges
  <2>2. HasAnswer(Said)' => HasAnswer(Said)
    BY <1>4, SaidGrows
  <2>3. ~NetReset /\ ~ResponseTimeout
    BY <1>4 DEF NetReset, ResponseTimeout
  <2>b. Busy' => Busy \/ mq' = <<"plc">>
    BY <1>4, BusyComes
  <2>4. ASSUME netPc' = "recv", Busy', wifiStatus' = "RECEIVE_DATA", mq' # <<"plc">>
        PROVE  received = plcData
    <3>0. Busy
      BY <2>4, <2>b
    <3>1. ~NetCommand /\ ~NetResend /\ ~NetSendData
      BY <2>4 DEF NetCommand, NetResend, NetSendData, TcpSendData, CommandStatus, TypeOK, NetTypeOK,
         WifiCommands
    <3>2. netPc = "recv"
      BY <2>3, <2>4, <3>1 DEF Next, NetStep, NetOkCommand, NetOkConnected, NetOkReady, NetOkSent,
         NetOkReceived, NetOkIgnored, NetRetry, NetGiveUp, NetFailIgnored, NetRecv, WifiStep,
         WifiSuspend, WifiRx, WifiRead, WifiRespond, WifiReadDone, WifiTx, LineArrives, LinkDrop,
         TimerStep, DelayOver, WifiTimeout, SendTimeout, PlcStep, PlcIdle, PlcSample,
         PlcBytesArrive, OthersUnchangedByPlc, netVars
    <3>3. mq # <<"plc">>
      <4> SUFFICES ASSUME mq = <<"plc">> PROVE FALSE
        OBVIOUS
      <4>1. Sampled
        BY <3>2, SampledQuiet
      <4>2. Head(mq) = "plc" /\ response = "MAX" /\ armed = {}
        BY <4>1 DEF Sampled
      <4>3. ~NetRecv("OK") /\ ~NetRecv("ERROR") /\ ~NetRecv("FAIL") /\ ~NetRecv("TIMEOUT")
        BY <4>2 DEF NetRecv
      <4>4. ~WifiRespond /\ ~WifiTimeout /\ ~SendTimeout
        BY <4>2 DEF WifiRespond, WifiTimeout, SendTimeout, Expires
      <4>5. ~NetStep
        BY <2>3, <3>1, <4>3 DEF NetStep, NetOkCommand, NetOkConnected, NetOkReady, NetOkSent,
           NetOkReceived, NetOkIgnored, NetRetry, NetGiveUp, NetFailIgnored
      <4>6. mq' = mq
        BY <2>3, <3>0, <4>4, <4>5 DEF Next, WifiStep, WifiSuspend, WifiRx, WifiRead, WifiReadDone,
           WifiTx, LineArrives, LinkDrop, TimerStep, DelayOver, PlcStep, PlcIdle, PlcSample,
           SendData, PlcBytesArrive, Busy
      <4> QED BY <2>4, <4>6
    <3>4. wifiStatus = "RECEIVE_DATA" \/ HasAnswer(Said)
      <4>1. CASE WifiRead
        <5>1. Head(fifo) \in ServerLines => HasAnswer(Said)
          BY <4>1, ReadAnswers
        <5> QED BY <2>4, <4>1, <5>1 DEF WifiRead, StatusAfter, ServerLines
      <4>2. CASE ~WifiRead
        <5>1. ~TcpSendData
          BY <2>4 DEF TcpSendData
        <5>2. UNCHANGED wifiStatus
          <6>1. CASE NetRetry
            BY <5>1, <6>1, RetryOutcomes DEF wifiVars
          <6> QED BY <2>3, <3>1, <4>2, <5>1, <6>1 DEF Next, NetStep, NetOkCommand, NetOkConnected,
               NetOkReady, NetOkSent, NetOkReceived, NetOkIgnored, NetGiveUp, NetFailIgnored,
               WifiStep, WifiSuspend, WifiRx, WifiRespond, WifiReadDone, WifiTx, LineArrives,
               LinkDrop, TimerStep, DelayOver, WifiTimeout, SendTimeout, PlcStep, PlcIdle,
               PlcSample, PlcBytesArrive, OthersUnchangedByPlc, wifiVars
        <5> QED BY <2>4, <5>2
      <4> QED BY <4>1, <4>2
    <3> QED BY <3>0, <3>2, <3>3, <3>4 DEF DeliveredOK
  <2>5. ASSUME netPc' = "recv", Busy', slot'.stat = "RECEIVE_DATA", mq' = <<"wifi">>
        PROVE  received = plcData
    <3>0. Busy
      BY <2>5, <2>b
    <3>1. CASE NetStep
      <4>1. UNCHANGED slot
        <5>1. CASE NetRetry
          BY <5>1, RetryOutcomes DEF wifiVars, TcpSendData
        <5> QED BY <2>3, <3>1, <5>1 DEF NetStep, NetOkCommand, NetOkConnected, NetOkReady, NetOkSent,
             NetOkReceived, NetOkIgnored, NetGiveUp, NetFailIgnored, NetSendData, NetCommand,
             NetResend, TcpSendData, wifiVars
      <4>2. ~Retrying
        BY <2>5, <4>1 DEF Retrying
      <4>3. \A msg : NetRecv(msg) => mq' = <<>>
        BY <4>2, ReceivedIn
      <4>4. CASE NetCommand \/ NetResend
        <5>1. netPc \in {"cmd", "resend"} /\ mq' = mq
          BY <4>4 DEF NetCommand, NetResend
        <5>2. Commanding
          BY <4>2, <5>1 DEF Phase, Transmitting, Asked, Answered, Idle, Sampled, PayloadDue,
             PayloadSent, PayloadAnswered, AwaitingAck, AckRead, AckPosted, Waits, Posted, Rebooting
        <5> QED BY <2>5, <5>1, <5>2 DEF Commanding
      <4>5. CASE NetSendData
        <5>1. netPc = "recv" /\ mq # <<>> /\ Head(mq) = "plc" /\ mq' = Tail(mq)
          BY <4>5 DEF NetSendData
        <5>2. ~Posted
          BY <5>1 DEF Posted
        <5>3. Sampled
          BY <4>2, <5>1, <5>2 DEF Phase, Commanding, Transmitting, Asked, Answered, Idle, PayloadDue,
             PayloadSent, PayloadAnswered, AwaitingAck, AckRead, AckPosted, Waits, Rebooting
        <5> QED BY <2>5, <5>1, <5>3 DEF Sampled
      <4>6. CASE \E msg : NetRecv(msg)
        BY <2>5, <4>3, <4>6
      <4> QED BY <2>3, <3>1, <4>4, <4>5, <4>6 DEF NetStep, NetOkCommand, NetOkConnected, NetOkReady,
            NetOkSent, NetOkReceived, NetOkIgnored, NetRetry, NetGiveUp, NetFailIgnored
    <3>2. CASE WifiRespond \/ WifiTimeout
      <4>1. netPc = "recv" /\ wifiStatus = "RECEIVE_DATA" /\ mq' = Post(mq, "wifi")
        BY <2>5, <3>2 DEF WifiRespond, WifiTimeout, netVars
      <4>2. mq # <<"plc">>
        <5>1. Head(<<"plc">>) = "plc" /\ Head(<<"wifi">>) = "wifi"
          OBVIOUS
        <5>2. Head(Post(<<"plc">>, "wifi")) = "plc"
          <6>1. Post(<<"plc">>, "wifi") \in {<<"plc">>, Append(<<"plc">>, "wifi")}
            BY DEF Post
          <6>2. Head(Append(<<"plc">>, "wifi")) = "plc"
            OBVIOUS
          <6> QED BY <5>1, <6>1, <6>2
        <5> QED BY <2>5, <4>1, <5>1, <5>2
      <4> QED BY <3>0, <4>1, <4>2 DEF DeliveredOK
    <3>3. CASE SendTimeout
      <4>1. slot.stat = "RECEIVE_DATA" /\ netPc = "recv"
        BY <2>5, <3>3 DEF SendTimeout, netVars, TypeOK, WifiTypeOK
      <4>2. "send" \in armed /\ AtRest /\ ~Sending
        BY <3>3, ExpiresAtRest DEF SendTimeout
      <4>3. ~PayloadSent /\ ~AwaitingAck /\ ~Retrying /\ ~Rebooting
        BY <4>1 DEF PayloadSent, AwaitingAck, Retrying, Rebooting
      <4> QED BY <4>2, <4>3 DEF Phase, Commanding, Transmitting, Asked, Answered, Idle, Sampled,
            PayloadDue, PayloadAnswered, AckRead, AckPosted, SendingOnce, Posted, AtRest, NetBlocked
    <3>4. CASE ~NetStep /\ ~WifiRespond /\ ~WifiTimeout /\ ~SendTimeout
      <4>1. UNCHANGED <<netPc, slot, mq>>
        BY <2>3, <3>0, <3>4 DEF Next, WifiStep, WifiSuspend, WifiRx, WifiRead, WifiReadDone, WifiTx,
           LineArrives, LinkDrop, TimerStep, DelayOver, PlcStep, PlcIdle, PlcSample, SendData,
           PlcBytesArrive, OthersUnchangedByPlc, Busy, netVars, wifiVars
      <4> QED BY <2>5, <3>0, <4>1 DEF DeliveredOK
    <3> QED BY <3>1, <3>2, <3>3, <3>4
  <2>6. HasAnswer(Said) => received = plcData
    BY DEF DeliveredOK
  <2> QED BY <1>4, <2>1, <2>2, <2>4, <2>5, <2>6 DEF DeliveredOK
<1> QED BY <1>1, <1>2, <1>3, <1>4

\* Only the connection, the server's answer or a reset makes the manager ready.
LEMMA ReadyComes ==
  ASSUME Next, slot.stat # "STANDBY_SEND", Busy, ~Busy'
  PROVE  (NetOkConnected /\ ~tcpOn) \/ NetOkReceived \/ Reset
BY DEF Next, NetStep, NetOkCommand, NetOkConnected, NetOkReady, NetOkSent, NetOkReceived,
   NetOkIgnored, NetRetry, NetGiveUp, NetFailIgnored, NetSendData, NetCommand, NetResend, NetReset,
   WifiStep, WifiSuspend, WifiRx, WifiRead, WifiRespond, WifiReadDone, WifiTx, LineArrives,
   LinkDrop, TimerStep, DelayOver, WifiTimeout, SendTimeout, ResponseTimeout, PlcStep, PlcIdle,
   PlcSample, SendData, PlcBytesArrive, Busy

\* RecordedOK is kept.
LEMMA RecordedStep ==
  ASSUME Phase, KeptOK, NoneYetOK, DeliveredOK, UnconnectedOK, RecordedOK, TypeOK, DriverOK,
         slot.stat # "STANDBY_SEND", Orderly', Next
  PROVE  RecordedOK'
<1>1. CASE Reset
  BY <1>1 DEF Reset, RecordedOK
<1>2. CASE ~Reset
  <2>1. CASE plcData' # plcData
    <3>1. ~Busy /\ PlcSample
      BY <1>2, <2>1, SampleChanges
    <3>2. Busy' /\ plcData' \in Samples /\ NoSample \notin Samples
      BY <3>1 DEF PlcSample, SendData, Busy, TypeOK, PlcTypeOK, Samples, NoSample
    <3> QED BY <3>2 DEF RecordedOK
  <2>2. CASE plcData' = plcData /\ received' # received
    <3>1. WifiTx /\ txBuf = "DATA" /\ ModemPayload
      BY <1>2, <2>2, ReceivedChanges
    <3> QED BY <3>1, PayloadDelivers DEF RecordedOK
  <2>3. CASE UNCHANGED <<plcData, received>>
    <3>1. CASE Busy /\ ~Busy'
      <4>1. CASE NetOkConnected /\ ~tcpOn
        <5>1. plcData = NoSample
          <6>1. netPc = "recv" /\ slot.stat = "TCP_CONNECT"
            BY <4>1 DEF NetOkConnected, NetRecv
          <6> QED BY <4>1, <6>1 DEF UnconnectedOK, Retrying, Rebooting
        <5> QED BY <2>3, <5>1 DEF RecordedOK
      <4>2. CASE NetOkReceived
        <5>1. NetRecv("OK") /\ slot.stat = "RECEIVE_DATA"
          BY <4>2 DEF NetOkReceived
        <5>2. netPc = "recv" /\ mq = <<"wifi">>
          BY <5>1, ReceivedIn DEF Posted, Retrying
        <5> QED BY <2>3, <3>1, <5>1, <5>2 DEF DeliveredOK, RecordedOK
      <4> QED BY <1>2, <3>1, <4>1, <4>2, ReadyComes
    <3>2. CASE ~(Busy /\ ~Busy')
      BY <2>3, <3>2 DEF RecordedOK
    <3> QED BY <3>1, <3>2
  <2> QED BY <2>1, <2>2, <2>3
<1> QED BY <1>1, <1>2

\* The connection is dropped by a resend, and only a reset leads out of that.
LEMMA UnconnectedStep ==
  ASSUME Phase, UnconnectedOK, ResponseLenOK, TypeOK, DriverOK, Orderly', Next, Phase'
  PROVE  UnconnectedOK'
<1> SUFFICES ASSUME ~tcpOn', ~Reset, plcData' # NoSample
             PROVE  Retrying' \/ Rebooting'
  BY DEF UnconnectedOK, Reset
<1>1. CASE tcpOn
  <2>1. NetResend
    BY <1>1 DEF Next, NetStep, NetOkCommand, NetOkConnected, NetOkReady, NetOkSent, NetOkReceived,
       NetOkIgnored, NetRetry, NetGiveUp, NetFailIgnored, NetSendData, NetCommand, NetReset,
       WifiStep, WifiSuspend, WifiRx, WifiRead, WifiRespond, WifiReadDone, WifiTx, LineArrives,
       LinkDrop, TimerStep, DelayOver, WifiTimeout, SendTimeout, ResponseTimeout, PlcStep, PlcIdle,
       PlcSample, PlcBytesArrive, OthersUnchangedByPlc, plcVars, SetTcpStatus
  <2>2. netPc' = "recv" /\ wifiStatus' = "SEND_DATA" /\ Sending' /\ slot' = slot /\ mq' = mq
    BY <2>1, AskedAgain DEF NetResend, TcpSendData
  <2>3. "SEND_DATA" \notin AskStatuses
    BY DEF AskStatuses, CommandStatus, WifiCommands
  <2> QED BY <2>2, <2>3 DEF Phase, Commanding, Transmitting, Asked, Answered, Idle, Sampled,
        PayloadDue, PayloadSent, PayloadAnswered, AwaitingAck, AckRead, AckPosted, Waits, Posted,
        AskStatuses
<1>2. CASE ~tcpOn
  <2>1. plcData' = plcData
    BY <1>2, SampleChanges DEF PlcSample
  <2>2. Retrying \/ Rebooting
    BY <1>2, <2>1 DEF UnconnectedOK
  <2>3. netPc' = "reboot" \/ (netPc' # "cmd" /\ wifiStatus' = "SEND_DATA" /\ slot'.stat = "SEND_DATA")
    <3>1. CASE netPc = "reboot"
      <4>1. UNCHANGED netPc
        BY <3>1 DEF Next, NetStep, NetOkCommand, NetOkConnected, NetOkReady, NetOkSent,
           NetOkReceived, NetOkIgnored, NetRetry, NetGiveUp, NetFailIgnored, NetSendData, NetRecv,
           NetCommand, NetResend, NetReset, WifiStep, WifiSuspend, WifiRx, WifiRead, WifiRespond,
           WifiReadDone, WifiTx, LineArrives, LinkDrop, TimerStep, DelayOver, WifiTimeout,
           SendTimeout, ResponseTimeout, PlcStep, PlcIdle, PlcSample, PlcBytesArrive,
           OthersUnchangedByPlc, netVars
      <4> QED BY <3>1, <4>1
    <3>2. CASE Retrying
      <4>0. wifiStatus = "SEND_DATA" /\ slot.stat = "SEND_DATA" /\ netPc # "cmd"
        BY <3>2 DEF Retrying
      <4>1. CASE NetRetry
        BY <4>0, <4>1, RetryOutcomes DEF wifiVars
      <4>2. CASE NetGiveUp
        BY <1>2, <4>2 DEF NetGiveUp, Reboot
      <4>5. CASE NetStep /\ ~NetRetry /\ ~NetGiveUp
        <5>1. mq # <<>> => slot.msg \in {"ERROR", "TIMEOUT"} /\ Head(mq) = "wifi"
          BY <3>2 DEF Retrying
        <5>2. NetResend
          BY <4>0, <4>5, <5>1 DEF NetStep, NetOkCommand, NetOkConnected, NetOkReady, NetOkSent,
             NetOkReceived, NetOkIgnored, NetFailIgnored, NetRecv, NetSendData, NetCommand, NetReset
        <5> QED BY <4>0, <5>2 DEF NetResend, TcpSendData
      <4>3. CASE WifiRead
        <5>1. fifo # <<>> /\ wifiStatus' = StatusAfter(Head(fifo)) /\ UNCHANGED <<netPc, slot>>
          BY <4>3 DEF WifiRead, netVars
        <5>2. Head(fifo) \in {"OTHER", "ERROR"}
          <6>1. Said # <<>> /\ Head(Said) = Head(fifo)
            BY <4>3, SaidRead DEF WifiRead, modemVars, TypeOK
          <6> QED BY <3>2, <6>1 DEF Retrying
        <5> QED BY <4>0, <5>1, <5>2 DEF StatusAfter
      <4>4. CASE ~NetStep /\ ~WifiRead
        BY <1>2, <4>0, <4>4 DEF Next, WifiStep, WifiSuspend, WifiRx, WifiRespond, WifiReadDone,
           WifiTx, LineArrives, LinkDrop, TimerStep, DelayOver, WifiTimeout, SendTimeout,
           ResponseTimeout, PlcStep, PlcIdle, PlcSample, PlcBytesArrive, OthersUnchangedByPlc,
           netVars, wifiVars, TypeOK, WifiTypeOK
      <4> QED BY <4>1, <4>2, <4>3, <4>4, <4>5
    <3> QED BY <2>2, <3>1, <3>2 DEF Rebooting
  <2>4. "SEND_DATA" \notin AskStatuses /\ ~Leads("SEND_DATA")
    BY DEF AskStatuses, CommandStatus, WifiCommands, Leads, NextCommand
  <2> QED BY <2>3, <2>4 DEF Phase, Commanding, Transmitting, Asked, Answered, Idle, Sampled,
        PayloadDue, PayloadSent, PayloadAnswered, AwaitingAck, AckRead, AckPosted, Waits, Posted,
        AskStatuses
<1> QED BY <1>1, <1>2

\* At the start no sample is on its way.
LEMMA SampleInit == Init => SampleOK
<1> SUFFICES ASSUME Init PROVE SampleOK
  OBVIOUS
<1>1. KeptOK /\ UnconnectedOK /\ RecordedOK
  BY DEF Init, KeptOK, UnconnectedOK, RecordedOK
<1>2. ~HasAnswer(Said)
  BY ShortNoAnswer DEF Init, Said
<1>3. ~IncPending
  BY DEF Init, IncPending, Suspended
<1>4. NoneYetOK
  BY <1>2, <1>3 DEF Init, NoneYetOK, DataStatuses, EmptySlot
<1>5. DeliveredOK
  BY <1>2 DEF Init, DeliveredOK, EmptySlot
<1>6. TokenOK
  BY <1>3 DEF Init, TokenOK, Suspended
<1>7. CountOK
  BY DEF Init, CountOK, NoSample
<1> QED BY <1>1, <1>4, <1>5, <1>6, <1>7 DEF SampleOK

\* PhaseInvariant holds at the start.
LEMMA PhaseOKInit == Init => PhaseInvariant
BY PhaseInit, ResponseLenInit, SampleInit, ReadyInit DEF PhaseInvariant, PhaseOK

\* A stuttering step keeps everything.
LEMMA PhaseStutter ==
  ASSUME PhaseOK, UNCHANGED vars
  PROVE  PhaseOK'
<1> USE DEF vars, netVars, plcVars, wifiVars, timerVars, modemVars
<1>1. Said' = Said /\ Sending' = Sending /\ SendingOnce' = SendingOnce
  BY DEF Said, Sending, SendingOnce
<1>2. Orderly' = Orderly
  BY DEF Orderly
<1>3. DriverOK => DriverOK'
  BY DEF DriverOK
<1>4. ResponseLenOK => ResponseLenOK'
  BY DEF ResponseLenOK
<1>5. Phase => Phase'
  BY <1>1, Frame DEF PhaseVars, Posted
<1>6. SampleOK => SampleOK'
  <2>1. HasAnswer(Said)' = HasAnswer(Said) /\ IncPending' = IncPending /\ Busy' = Busy
    BY SaidUnchanged DEF HasAnswer, IncPending, Busy
  <2>2. Retrying' = Retrying /\ Rebooting' = Rebooting
    BY <1>1 DEF Retrying, Rebooting, Busy, Rest
  <2> QED BY <2>1, <2>2 DEF SampleOK, KeptOK, NoneYetOK, DeliveredOK, TokenOK, UnconnectedOK,
        RecordedOK, CountOK
<1> QED BY <1>2, <1>3, <1>4, <1>5, <1>6 DEF PhaseOK

\* PhaseInvariant is inductive.
LEMMA PhaseOKStep == PhaseInvariant /\ [Next]_vars => PhaseInvariant'
<1> SUFFICES ASSUME PhaseInvariant, [Next]_vars PROVE PhaseInvariant'
  OBVIOUS
<1>1. ReadyInvariant'
  BY ReadyStep DEF PhaseInvariant
<1>2. CASE UNCHANGED vars
  BY <1>1, <1>2, PhaseStutter DEF PhaseInvariant
<1>3. CASE Next
  <2> SUFFICES ASSUME Orderly' PROVE DriverOK' /\ ResponseLenOK' /\ Phase' /\ SampleOK'
    BY <1>1 DEF PhaseInvariant, PhaseOK
  <2>1. TypeOK /\ slot.stat # "STANDBY_SEND"
    BY DEF PhaseInvariant, ReadyInvariant
  <2>2. DriverOK /\ ResponseLenOK /\ Phase /\ SampleOK /\ PacedLines
    BY <1>3, <2>1, OrderlyBefore DEF PhaseInvariant, PhaseOK, Orderly
  <2>3. DriverOK'
    BY <1>3, <2>1, <2>2, DriverStep
  <2>4. ResponseLenOK'
    BY <1>3, <2>1, <2>2, ResponseLenStep, SampleOnConnection
  <2>5. Phase'
    BY <1>3, <2>1, <2>2, PhaseStep
  <2>6. KeptOK' /\ TokenOK' /\ NoneYetOK' /\ DeliveredOK'
    BY <1>3, <2>1, <2>2, KeptStep, TokenStep, NoneYetStep, DeliveredStep DEF SampleOK
  <2>7. LastCode > 2 => CountOK'
    BY <1>3, <2>1, <2>2, CountStep DEF SampleOK
  <2>8. UnconnectedOK' /\ RecordedOK'
    BY <1>3, <2>1, <2>2, <2>5, UnconnectedStep, RecordedStep DEF SampleOK
  <2> QED BY <2>3, <2>4, <2>5, <2>6, <2>7, <2>8 DEF SampleOK
<1> QED BY <1>2, <1>3

\* PhaseOK holds in every reachable state, whatever the constants.
THEOREM PhaseCorrect == Spec => []PhaseOK
<1>1. Init => PhaseInvariant
  BY PhaseOKInit
<1>2. PhaseInvariant /\ [Next]_vars => PhaseInvariant'
  BY PhaseOKStep
<1>3. PhaseInvariant => PhaseOK
  BY DEF PhaseInvariant
<1> QED BY <1>1, <1>2, <1>3, PTL DEF Spec

-----------------------------------------------------------------------------
(* What follows for the properties *)

\* In an orderly environment the gateway is ready only in the idle phase, where no
\* timer runs.
LEMMA ReadyQuiet ==
  ASSUME PhaseInvariant, Orderly
  PROVE  IdleIsQuiet
BY ReadyIsIdle DEF PhaseInvariant, PhaseOK, IdleIsQuiet, Busy

\* With everything at rest a phase before the connection waits for a timer.
LEMMA RestWatched ==
  ASSUME PhaseInvariant, Orderly
  PROVE  WatchedUntilConnected
<1> SUFFICES ASSUME AtRest, line = <<>>, fifo = <<>>, ~tcpOn PROVE armed # {}
  BY DEF WatchedUntilConnected, Silent
<1>1. Phase
  BY DEF PhaseInvariant, PhaseOK
<1>2. ~Sending /\ (netPc = "recv" => mq = <<>>) /\ (netPc # "recv" => "delay" \in armed)
  <2>1. DriverOK
    BY DEF PhaseInvariant, PhaseOK
  <2> QED BY <2>1 DEF DriverOK, AtRest, NetBlocked, Sending
<1> QED BY <1>1, <1>2 DEF Phase, Commanding, Transmitting, Asked, Answered, Idle, Sampled,
      PayloadDue, PayloadSent, PayloadAnswered, AwaitingAck, AckRead, AckPosted, Retrying,
      Rebooting, SendingOnce, Posted

\* In an orderly environment the gateway that is ready has no timer running.
THEOREM QuietWhenIdle ==
  ASSUME PacedLines, Faults \cap Untimely = {}
  PROVE  Spec => []IdleIsQuiet
<1>1. Init => PhaseInvariant
  BY PhaseOKInit
<1>2. PhaseInvariant /\ [Next]_vars => PhaseInvariant'
  BY PhaseOKStep
<1>3. PhaseInvariant => IdleIsQuiet
  BY ReadyQuiet DEF Orderly
<1> QED BY <1>1, <1>2, <1>3, PTL DEF Spec

\* In an orderly environment an unconnected gateway never waits unwatched.
THEOREM WatchedBeforeConnected ==
  ASSUME PacedLines, Faults \cap Untimely = {}
  PROVE  Spec => []WatchedUntilConnected
<1>1. Init => PhaseInvariant
  BY PhaseOKInit
<1>2. PhaseInvariant /\ [Next]_vars => PhaseInvariant'
  BY PhaseOKStep
<1>3. PhaseInvariant => WatchedUntilConnected
  BY RestWatched DEF Orderly
<1> QED BY <1>1, <1>2, <1>3, PTL DEF Spec

\* Before the first fault the payload is written at the prompt of a quiet modem.
LEMMA PayloadAtPrompt ==
  ASSUME PacedLines, PhaseInvariant, WifiTx, txBuf = "DATA", faults = 0
  PROVE  prompt /\ line = <<>>
<1>1. Phase /\ DriverOK /\ TypeOK
  BY DEF PhaseInvariant, ReadyInvariant, PhaseOK, Orderly
<1>2. Sending /\ fifo = <<>>
  BY <1>1, TransmitFacts
<1>3. PayloadDue
  BY <1>1, <1>2 DEF Phase, Commanding, Transmitting, Asked, Answered, Idle, Sampled, PayloadSent,
     PayloadAnswered, AwaitingAck, AckRead, AckPosted, Retrying, Rebooting, Waits, Posted,
     WifiCommands
<1>4. Said = <<>> /\ prompt
  BY <1>3 DEF PayloadDue, Rest, AtPrompt
<1>5. Said = line
  BY <1>1, <1>2, SaidEmpty DEF TypeOK
<1> QED BY <1>4, <1>5

\* Before the first fault the payload leaves at the prompt only.
THEOREM DataAtPrompt ==
  ASSUME PacedLines
  PROVE  Spec => DataOnlyAtPrompt
<1>1. Init => PhaseInvariant
  BY PhaseOKInit
<1>2. PhaseInvariant /\ [Next]_vars => PhaseInvariant'
  BY PhaseOKStep
<1>3. PhaseInvariant /\ [Next]_vars
        => [WifiTx /\ txBuf = "DATA" /\ faults = 0 => prompt /\ line = <<>>]_vars
  BY PayloadAtPrompt
<1> QED BY <1>1, <1>2, <1>3, PTL DEF Spec, DataOnlyAtPrompt

\* Only the PLC thread takes the gateway out of the ready status for a sample.
LEMMA Accepted ==
  ASSUME Phase, Next, ~Busy, Busy', ~Reset
  PROVE  PlcSample /\ plcData' = sensorCodeCount
<1>1. ~NetStep
  BY ManagerBusy
<1> QED BY <1>1 DEF Next, WifiStep, WifiSuspend, WifiRx, WifiRead, WifiRespond, WifiReadDone,
      WifiTx, LineArrives, LinkDrop, TimerStep, DelayOver, WifiTimeout, SendTimeout,
      ResponseTimeout, PlcStep, PlcIdle, PlcSample, SendData, PlcBytesArrive, Busy

\* Before the first fault a sample is the next one or the one after it.
LEMMA NextOrNextButOne ==
  ASSUME PacedLines, PhaseInvariant, Next, faults = 0,
         networkStatus = "STANDBY_SEND", networkStatus' = "SET_SEND_DATA_LENGTH"
  PROVE  plcData' \in LET next == IF plcData = NoSample THEN 1 ELSE NextSensor(plcData)
                      IN  {next, NextSensor(next)}
<1>1. Phase /\ NoneYetOK /\ (LastCode > 2 => CountOK) /\ TypeOK
  BY DEF PhaseInvariant, ReadyInvariant, PhaseOK, Orderly, SampleOK
<1>2. plcData' = sensorCodeCount
  BY <1>1, Accepted DEF Busy, Reset
<1>3. CASE plcData = NoSample
  BY <1>1, <1>2, <1>3 DEF NoneYetOK
<1>4. CASE plcData # NoSample /\ LastCode > 2
  BY <1>1, <1>2, <1>4 DEF CountOK
<1>5. CASE plcData # NoSample /\ LastCode \in {1, 2}
  BY <1>1, <1>2, <1>5 DEF TypeOK, PlcTypeOK, Samples, NoSample, NextSensor
<1> QED BY <1>3, <1>4, <1>5, ConstantsOK

\* Before the first fault samples leave in order and at most one in a row is missed.
THEOREM MissesFew ==
  ASSUME PacedLines
  PROVE  Spec => MissesAtMostOne
<1>1. Init => PhaseInvariant
  BY PhaseOKInit
<1>2. PhaseInvariant /\ [Next]_vars => PhaseInvariant'
  BY PhaseOKStep
<1>3. PhaseInvariant /\ [Next]_vars
        => [networkStatus = "STANDBY_SEND" /\ networkStatus' = "SET_SEND_DATA_LENGTH"
            /\ faults = 0
              => LET next == IF plcData = NoSample THEN 1 ELSE NextSensor(plcData)
                 IN  plcData' \in {next, NextSensor(next)}]_vars
  BY NextOrNextButOne
<1> QED BY <1>1, <1>2, <1>3, PTL DEF Spec, MissesAtMostOne

\* The gateway starts as the channel does: no sample pending, none received.
LEMMA ChannelInit == Init => Channel!Init
BY DEF Init, Channel!Init, Channel!NoSample, NoSample

\* With more than two sensors a sample is never followed by itself.
LEMMA NeverTheSame ==
  ASSUME LastCode > 2, TypeOK, CountOK, NoneYetOK, RecordedOK, ~Busy
  PROVE  sensorCodeCount \in Samples /\ sensorCodeCount # received
<1>1. sensorCodeCount \in Samples /\ received = plcData
  BY DEF TypeOK, PlcTypeOK, RecordedOK
<1>2. \A c \in Samples : NextSensor(c) # c /\ NextSensor(NextSensor(c)) # c
  BY ConstantsOK DEF Samples, NextSensor
<1> QED BY <1>1, <1>2 DEF CountOK, NoSample, Samples, TypeOK, PlcTypeOK

\* Each step of the gateway is one of the channel, or none.
LEMMA ChannelStep ==
  ASSUME LastCode > 2, PhaseInvariant, Orderly', Next
  PROVE  [Channel!Next]_(Channel!vars)
<1> USE DEF Channel!NoSample, NoSample
<1> DEFINE pending == IF networkStatus = "STANDBY_SEND" THEN NoSample ELSE plcData
<1>0. /\ Phase /\ KeptOK /\ NoneYetOK /\ DeliveredOK /\ UnconnectedOK /\ RecordedOK /\ CountOK
      /\ TypeOK /\ DriverOK /\ slot.stat # "STANDBY_SEND"
  <2>1. Orderly
    BY OrderlyBefore DEF PhaseInvariant, ReadyInvariant
  <2> QED BY <2>1 DEF PhaseInvariant, ReadyInvariant, PhaseOK, SampleOK
<1>1. CASE Reset
  <2>1. pending' = NoSample /\ received' = NoSample
    BY <1>1 DEF Reset
  <2> QED BY <2>1 DEF Channel!Next, Channel!GiveUp
<1>2. CASE ~Reset /\ received' # received
  <2>1. WifiTx /\ txBuf = "DATA" /\ ModemPayload
    BY <1>2, ReceivedChanges
  <2>2. received' = plcData /\ plcData' = plcData /\ networkStatus' = networkStatus
    BY <1>0, <2>1, PayloadDelivers DEF WifiTx
  <2>3. Busy
    <3>1. Sending
      BY <1>0, <2>1, TransmitFacts
    <3> QED BY <1>0, <3>1, ReadyIsIdle
  <2>4. plcData # NoSample
    BY <1>0, <2>1 DEF NoneYetOK
  <2>5. pending = plcData /\ pending' = plcData
    BY <2>2, <2>3 DEF Busy
  <2> QED BY <2>2, <2>4, <2>5 DEF Channel!Next, Channel!Deliver
<1>3. CASE ~Reset /\ UNCHANGED received /\ ~Busy /\ Busy'
  <2>1. plcData' = sensorCodeCount
    BY <1>0, <1>3, Accepted
  <2>2. sensorCodeCount \in Samples \ {received}
    BY <1>0, <1>3, NeverTheSame
  <2>3. pending = NoSample /\ pending' = sensorCodeCount
    BY <1>3, <2>1 DEF Busy
  <2> QED BY <1>3, <2>2, <2>3 DEF Channel!Next, Channel!Accept, Channel!Samples, Samples
<1>4. CASE ~Reset /\ UNCHANGED received /\ ~Busy /\ ~Busy'
  BY <1>4 DEF Busy, Channel!vars
<1>5. CASE ~Reset /\ UNCHANGED received /\ Busy
  <2>1. plcData' = plcData
    BY <1>0, <1>5, SampleChanges
  <2>2. CASE Busy'
    BY <1>5, <2>1, <2>2 DEF Busy, Channel!vars
  <2>3. CASE NetOkConnected /\ ~tcpOn
    <3>1. netPc = "recv" /\ slot.stat = "TCP_CONNECT"
      BY <2>3 DEF NetOkConnected, NetRecv
    <3>2. plcData = NoSample
      BY <1>0, <2>3, <3>1 DEF UnconnectedOK, Retrying, Rebooting
    <3> QED BY <1>5, <2>1, <3>2 DEF Busy, Channel!vars
  <2>4. CASE NetOkReceived /\ ~Busy'
    <3>1. NetRecv("OK") /\ slot.stat = "RECEIVE_DATA"
      BY <2>4 DEF NetOkReceived
    <3>2. netPc = "recv" /\ mq = <<"wifi">>
      BY <1>0, <3>1, ReceivedIn DEF Posted, Retrying
    <3>3. received = plcData
      BY <1>0, <1>5, <3>1, <3>2 DEF DeliveredOK
    <3>4. pending = plcData /\ pending' = NoSample
      BY <1>5, <2>4 DEF Busy
    <3> QED BY <1>5, <3>3, <3>4 DEF Channel!Next, Channel!Acknowledge, Channel!vars
  <2> QED BY <1>0, <1>5, <2>2, <2>3, <2>4, ReadyComes
<1> QED BY <1>1, <1>2, <1>3, <1>4, <1>5

\* In an orderly environment, with at least three sensors (the devices have 11 and
\* 19), the link is the stop-and-wait channel it promises to be.
THEOREM ChannelRefined ==
  ASSUME PacedLines, Faults \cap Untimely = {}, LastCode > 2
  PROVE  Spec => ImplementsChannel
<1>1. Init => PhaseInvariant /\ Channel!Init
  BY PhaseOKInit, ChannelInit
<1>2. PhaseInvariant /\ [Next]_vars => PhaseInvariant'
  BY PhaseOKStep
<1>3. PhaseInvariant /\ [Next]_vars => [Channel!Next]_(Channel!vars)
  <2> SUFFICES ASSUME PhaseInvariant, [Next]_vars PROVE [Channel!Next]_(Channel!vars)
    OBVIOUS
  <2>1. Orderly'
    BY DEF Orderly
  <2>2. CASE UNCHANGED vars
    BY <2>2 DEF vars, plcVars, modemVars, Channel!vars
  <2> QED BY <2>1, <2>2, ChannelStep
<1> QED BY <1>1, <1>2, <1>3, PTL DEF Spec, ImplementsChannel, Channel!Spec

-----------------------------------------------------------------------------
(* Ready without a pending reset, whatever interleaves *)

\* A step that leaves the lines alone leaves what is heard.
LEMMA TalkKept ==
  ASSUME UNCHANGED <<fifo, line>>
  PROVE  /\ OnlyOther' = OnlyOther /\ NoOk' = NoOk
         /\ CommandTalk' = CommandTalk /\ DataTalk' = DataTalk
BY DEF OnlyOther, NoOk, CommandTalk, DataTalk, Hear

\* What the steps that follow leave alone, the timers and the lines apart.
LinkView == <<netPc, netCmd, tcpOn, wifiStatus, slot, txBuf, prompt, response>>

\* Steps that only let lines without consequence arrive, or forget a transmission.
USE DEF LinkView, Heard, Quiet, Harmless, NoOkToCome, Carrying, Reconnecting, Slot, SlotTimeout,
    SendAfterResp, PayloadStatuses, TcpStatuses, DataStatuses

\* A step that leaves manager, driver and timers alone, and adds nothing but lines
\* without consequence, keeps what holds after the first connection.
LEMMA JoinedFrame ==
  ASSUME Joined, UNCHANGED <<LinkView, armed, older>>, OnlyOther => OnlyOther', NoOk => NoOk',
         DataTalk => DataTalk', Sending' => Sending
  PROVE  Joined'
<1>1. /\ JoinedTypes' /\ StatusOfBuffer' /\ Carrying' = Carrying /\ Reconnecting' = Reconnecting
  BY DEF Joined, JoinedTypes, StatusOfBuffer
<1>2. (Heard => Heard') /\ (Quiet => Quiet') /\ (Harmless => Harmless')
  OBVIOUS
<1>3. PromptOver' /\ SentOK' /\ ReplacedOK' /\ ReportOnOK' /\ ReportOffOK'
  BY <1>1, <1>2 DEF Joined, PromptOver, SentOK, ReplacedOK, ReportOnOK, ReportOffOK
<1>4. ResendOK' /\ ConnectOK' /\ WatchOK' /\ RespOnOK' /\ RespOffOK'
  BY <1>1 DEF Joined, ResendOK, ConnectOK, WatchOK, RespOnOK, RespOffOK
<1> QED BY <1>1, <1>3, <1>4 DEF Joined

\* A timer more, and what was ordered after it before it is not any more.
LEMMA Started ==
  ASSUME TypeOK, NEW t \in Timers, StartTimer(t)
  PROVE  /\ armed' = armed \cup {t}
         /\ \A u \in Timers \ {t} : older'[u] = older[u] \ {t}
         /\ older'[t] = {v \in armed \ {t} : Delay[v] <= Delay[t]}
BY DEF StartTimer

\* The payload is sent and the response timer starts: no connection is being brought
\* back (SentOK), and a send timer that still runs ends before the transmission's (WatchOK).
LEMMA JoinedOkSent ==
  ASSUME TypeOK, Joined, NetOkSent
  PROVE  Joined'
<1>1. netPc = "recv" /\ slot.msg = "OK" /\ slot.stat = "SEND_DATA"
      /\ UNCHANGED <<LinkView, wifiEv, fifo, line>>
  BY DEF NetOkSent, NetRecv, Stay, wifiVars, plcVars, modemVars
<1>2. /\ armed' = armed \cup {"resp"}
      /\ older'["send"] = older["send"] \ {"resp"} /\ older'["wifi"] = older["wifi"] \ {"resp"}
  BY Started DEF NetOkSent, Timers
<1>3. OnlyOther' = OnlyOther /\ NoOk' = NoOk /\ DataTalk' = DataTalk /\ Sending' = Sending
  BY <1>1, TalkKept DEF Sending
<1>4. JoinedTypes' /\ StatusOfBuffer' /\ PromptOver' /\ SentOK'
  BY <1>1, <1>3 DEF Joined, JoinedTypes, StatusOfBuffer, PromptOver, SentOK
<1>5. ReplacedOK' /\ ReportOnOK' /\ ReportOffOK'
  BY <1>1 DEF Joined, ReplacedOK, ReportOnOK, ReportOffOK
<1>6. ResendOK' /\ ConnectOK'
  BY <1>1 DEF Joined, ConnectOK, ResendOK
<1>7. WatchOK' /\ RespOnOK' /\ RespOffOK'
  BY <1>1, <1>2 DEF Joined, JoinedTypes, SentOK, WatchOK, RespOnOK, RespOffOK
<1> QED BY <1>4, <1>5, <1>6, <1>7 DEF Joined

\* A timer less.
LEMMA Stopped ==
  ASSUME TypeOK, NEW t \in Timers, StopTimer(t)
  PROVE  /\ armed' = armed \ {t}
         /\ \A u \in Timers \ {t} : older'[u] = older[u] \ {t}
BY DEF StopTimer

\* Lines without consequence are lines of any kind.
LEMMA OtherTalk ==
  OnlyOther => NoOk /\ DataTalk
<1>1. Seq({"OTHER"}) \subseteq Seq(DataLines \ {"OK", "SEND_OK"}) /\ Seq({"OTHER"}) \subseteq Seq(DataLines)
  BY DEF DataLines
<1> QED BY <1>1 DEF OnlyOther, NoOk, DataTalk, Hear

\* What a retry does.
LEMMA RetryCases ==
  ASSUME NetRetry
  PROVE  \/ Reboot /\ UNCHANGED wifiVars
         \/ slot.stat = "SEND_DATA" /\ netPc' = "resend" /\ StartTimer("delay") /\ UNCHANGED wifiVars
         \/ slot.stat = "TCP_CONNECT" /\ DelayCommand("TCP_CONNECT") /\ UNCHANGED wifiVars
         \/ slot.stat = "CONNECT_WIFI" /\ DelayCommand("CONNECT_AP") /\ UNCHANGED wifiVars
         \/ slot.stat = "READY_TO_SEND_DATA" /\ TcpSendData /\ Stay
BY DEF NetRetry

\* The connection is closed: the next command is TCP_CONNECT, in the manager's delay.
LEMMA JoinedOkCommand ==
  ASSUME TypeOK, Joined, NetOkCommand
  PROVE  Joined'
<1>1. netPc = "recv" /\ netPc' = "cmd" /\ netCmd' = NextCommand(slot.stat, slot.flag) /\ slot.msg = "OK"
      /\ UNCHANGED <<tcpOn, wifiStatus, slot, txBuf, prompt, response, wifiEv, fifo, line>>
  BY DEF NetOkCommand, NetRecv, DelayCommand, wifiVars, plcVars, modemVars
<1>2. slot.stat = "TCP_DISCONNECT" /\ netCmd' = "TCP_CONNECT"
  BY <1>1 DEF NetOkCommand, NextCommand, Joined, JoinedTypes
<1>3. /\ armed' = armed \cup {"delay"}
      /\ older'["send"] = older["send"] \ {"delay"} /\ older'["wifi"] = older["wifi"] \ {"delay"}
  BY Started DEF NetOkCommand, DelayCommand, Timers
<1>4. OnlyOther' = OnlyOther /\ NoOk' = NoOk /\ DataTalk' = DataTalk /\ Sending' = Sending
  BY <1>1, TalkKept DEF Sending
<1>5. JoinedTypes' /\ StatusOfBuffer' /\ PromptOver' /\ SentOK'
  BY <1>1, <1>2, <1>4 DEF Joined, JoinedTypes, StatusOfBuffer, PromptOver, SentOK
<1>6. ReplacedOK' /\ ReportOnOK' /\ ReportOffOK'
  BY <1>1, <1>2, <1>3, <1>4 DEF Joined, ReplacedOK, ReportOnOK, ReportOffOK
<1>7. ResendOK' /\ ConnectOK'
  BY <1>1, <1>2 DEF Joined, ConnectOK, ResendOK
<1>8. WatchOK' /\ RespOnOK' /\ RespOffOK'
  BY <1>1, <1>2, <1>3 DEF Joined, WatchOK, RespOnOK, RespOffOK
<1> QED BY <1>5, <1>6, <1>7, <1>8 DEF Joined

\* Connected again: the flag is set, so the response timer does not run (RespOffOK).
LEMMA JoinedOkConnected ==
  ASSUME TypeOK, Joined, NetOkConnected
  PROVE  Joined'
<1>1. netPc = "recv" /\ slot.msg = "OK" /\ slot.stat = "TCP_CONNECT" /\ tcpOn' = TRUE
      /\ UNCHANGED <<netPc, netCmd, wifiStatus, slot, txBuf, prompt, response, wifiEv, fifo, line, armed,
             older>>
  BY DEF NetOkConnected, NetRecv, Stay, SetTcpStatus, wifiVars, modemVars, timerVars
<1>4. OnlyOther' = OnlyOther /\ NoOk' = NoOk /\ DataTalk' = DataTalk /\ Sending' = Sending
  BY <1>1, TalkKept DEF Sending
<1>5. JoinedTypes' /\ StatusOfBuffer' /\ PromptOver' /\ SentOK'
  BY <1>1, <1>4 DEF Joined, JoinedTypes, StatusOfBuffer, PromptOver, SentOK
<1>6. ReplacedOK' /\ ReportOnOK' /\ ReportOffOK'
  BY <1>1 DEF Joined, ReplacedOK, ReportOnOK, ReportOffOK
<1>7. ResendOK' /\ ConnectOK'
  BY <1>1 DEF Joined, ConnectOK, ResendOK
<1>8. WatchOK' /\ RespOnOK' /\ RespOffOK'
  BY <1>1 DEF Joined, WatchOK, RespOnOK, RespOffOK
<1> QED BY <1>5, <1>6, <1>7, <1>8 DEF Joined

\* The prompt: the payload is written and the send timer ends after the response timer.
LEMMA JoinedOkReady ==
  ASSUME TypeOK, Joined, NetOkReady
  PROVE  Joined'
<1>1. netPc = "recv" /\ slot.msg = "OK" /\ slot.stat = "READY_TO_SEND_DATA" /\ wifiStatus' = "SEND_DATA"
      /\ txBuf' = "DATA"
      /\ UNCHANGED <<netPc, netCmd, tcpOn, slot, prompt, response, fifo, line>>
  BY DEF NetOkReady, NetRecv, Stay, TcpSendData, plcVars, modemVars
<1>3. /\ armed' = armed \cup {"send"}
      /\ older'["wifi"] = older["wifi"] \ {"send"}
      /\ "resp" \in armed => "resp" \in older'["send"]
  BY Started DEF NetOkReady, TcpSendData, Timers, Delay
<1>4. OnlyOther' = OnlyOther /\ NoOk' = NoOk /\ DataTalk' = DataTalk
  BY <1>1, TalkKept
<1>5. JoinedTypes' /\ StatusOfBuffer' /\ PromptOver' /\ SentOK'
  BY <1>1, <1>4 DEF Joined, JoinedTypes, StatusOfBuffer, PromptOver, SentOK
<1>6. ReplacedOK' /\ ReportOnOK' /\ ReportOffOK'
  BY <1>1 DEF Joined, ReplacedOK, ReportOnOK, ReportOffOK
<1>7. ResendOK' /\ ConnectOK'
  BY <1>1 DEF Joined, ConnectOK, ResendOK
<1>8. WatchOK' /\ RespOnOK' /\ RespOffOK'
  BY <1>1, <1>3 DEF Joined, WatchOK, RespOnOK, RespOffOK
<1> QED BY <1>5, <1>6, <1>7, <1>8 DEF Joined

\* The acknowledgement stops the response timer.
LEMMA JoinedOkReceived ==
  ASSUME TypeOK, Joined, NetOkReceived
  PROVE  Joined'
<1>1. netPc = "recv" /\ slot.msg = "OK" /\ slot.stat = "RECEIVE_DATA" /\ tcpOn' = TRUE
      /\ UNCHANGED <<netPc, netCmd, wifiStatus, slot, txBuf, prompt, response, wifiEv, fifo, line>>
  BY DEF NetOkReceived, NetRecv, Stay, SetTcpStatus, wifiVars, modemVars
<1>3. /\ armed' = armed \ {"resp"}
      /\ older'["send"] = older["send"] \ {"resp"} /\ older'["wifi"] = older["wifi"] \ {"resp"}
  BY Stopped DEF NetOkReceived, StopResponseTimer, Timers
<1>4. OnlyOther' = OnlyOther /\ NoOk' = NoOk /\ DataTalk' = DataTalk /\ Sending' = Sending
  BY <1>1, TalkKept DEF Sending
<1>5. JoinedTypes' /\ StatusOfBuffer' /\ PromptOver' /\ SentOK'
  BY <1>1, <1>4 DEF Joined, JoinedTypes, StatusOfBuffer, PromptOver, SentOK
<1>6. ReplacedOK' /\ ReportOnOK' /\ ReportOffOK'
  BY <1>1 DEF Joined, ReplacedOK, ReportOnOK, ReportOffOK
<1>7. ResendOK' /\ ConnectOK'
  BY <1>1 DEF Joined, ConnectOK, ResendOK
<1>8. WatchOK' /\ RespOnOK' /\ RespOffOK'
  BY <1>1, <1>3 DEF Joined, WatchOK, RespOnOK, RespOffOK
<1> QED BY <1>5, <1>6, <1>7, <1>8 DEF Joined

\* A message without consequence.
LEMMA JoinedIgnored ==
  ASSUME Joined, NetOkIgnored \/ NetFailIgnored
  PROVE  Joined'
<1>1. UNCHANGED <<LinkView, armed, older, wifiEv, fifo, line>>
  BY DEF NetOkIgnored, NetFailIgnored, NetRecv, Stay, wifiVars, plcVars, modemVars, timerVars
<1> QED BY <1>1, TalkKept, JoinedFrame DEF Sending

\* A retry: a reset, the payload again after a delay, TCP_CONNECT again after a
\* delay, or the payload at once when its length request had failed.
LEMMA JoinedRetry ==
  ASSUME TypeOK, Joined, NetRetry
  PROVE  Joined'
<1>1. netPc = "recv" /\ slot.msg = "ERROR"
      /\ slot.stat \in {"SEND_DATA", "READY_TO_SEND_DATA", "TCP_CONNECT"}
      /\ UNCHANGED <<tcpOn, slot, prompt, response, fifo, line>>
  BY DEF NetRetry, NetRecv, wifiVars, plcVars, modemVars, TcpSendData, Joined, JoinedTypes
<1>2. OnlyOther' = OnlyOther /\ NoOk' = NoOk /\ DataTalk' = DataTalk
  BY <1>1, TalkKept
<1>3. CASE /\ UNCHANGED wifiVars
           /\ \/ Reboot
              \/ slot.stat = "SEND_DATA" /\ netPc' = "resend" /\ StartTimer("delay")
              \/ slot.stat = "TCP_CONNECT" /\ DelayCommand("TCP_CONNECT")
  <2>1. StartTimer("delay") /\ UNCHANGED wifiVars
    BY <1>3 DEF Reboot, DelayCommand
  <2>2. /\ armed' = armed \cup {"delay"}
        /\ older'["send"] = older["send"] \ {"delay"} /\ older'["wifi"] = older["wifi"] \ {"delay"}
    BY <2>1, Started DEF Timers
  <2>3. \/ netPc' = "reboot"
        \/ slot.stat = "SEND_DATA" /\ netPc' = "resend"
        \/ slot.stat = "TCP_CONNECT" /\ netPc' = "cmd" /\ netCmd' = "TCP_CONNECT"
    BY <1>3 DEF Reboot, DelayCommand
  <2>4. UNCHANGED <<wifiStatus, txBuf>> /\ Sending' = Sending
    BY <2>1 DEF wifiVars, Sending
  <2>5. JoinedTypes' /\ StatusOfBuffer' /\ PromptOver' /\ SentOK'
    BY <1>1, <1>2, <2>3, <2>4 DEF Joined, JoinedTypes, StatusOfBuffer, PromptOver, SentOK
  <2>6. ReplacedOK' /\ ReportOnOK' /\ ReportOffOK'
    BY <1>1, <1>2, <2>2, <2>3, <2>4 DEF Joined, ReplacedOK, ReportOnOK, ReportOffOK
  <2>7. ResendOK' /\ ConnectOK'
    BY <1>1, <2>3, <2>4 DEF Joined, ConnectOK, ResendOK
  <2>8. WatchOK' /\ RespOnOK' /\ RespOffOK'
    BY <1>1, <2>2, <2>3, <2>4 DEF Joined, WatchOK, RespOnOK, RespOffOK
  <2> QED BY <2>5, <2>6, <2>7, <2>8 DEF Joined
<1>4. CASE slot.stat = "READY_TO_SEND_DATA" /\ TcpSendData /\ Stay
  <2>1. wifiStatus' = "SEND_DATA" /\ txBuf' = "DATA" /\ UNCHANGED <<netPc, netCmd>>
    BY <1>4 DEF TcpSendData, Stay
  <2>2. /\ armed' = armed \cup {"send"}
        /\ older'["wifi"] = older["wifi"] \ {"send"}
        /\ "resp" \in armed => "resp" \in older'["send"]
    BY <1>4, Started DEF TcpSendData, Timers, Delay
  <2>3. JoinedTypes' /\ StatusOfBuffer' /\ PromptOver' /\ SentOK'
    BY <1>1, <1>2, <2>1 DEF Joined, JoinedTypes, StatusOfBuffer, PromptOver, SentOK
  <2>4. ReplacedOK' /\ ReportOnOK' /\ ReportOffOK'
    BY <1>1, <1>4, <2>1 DEF Joined, ReplacedOK, ReportOnOK, ReportOffOK
  <2>5. ResendOK' /\ ConnectOK'
    BY <1>1, <2>1 DEF Joined, ConnectOK, ResendOK
  <2>6. WatchOK' /\ RespOnOK' /\ RespOffOK'
    BY <1>1, <1>4, <2>1, <2>2 DEF Joined, WatchOK, RespOnOK, RespOffOK
  <2> QED BY <2>3, <2>4, <2>5, <2>6 DEF Joined
<1> QED BY <1>1, <1>3, <1>4, RetryCases

\* A command that failed, or an answer that never came: a reset, or the connection is
\* closed.
LEMMA JoinedGiveUp ==
  ASSUME TypeOK, Joined, NetGiveUp
  PROVE  Joined'
<1>1. netPc = "recv" /\ UNCHANGED <<tcpOn, wifiStatus, slot, txBuf, prompt, response, wifiEv, fifo, line>>
      /\ \/ slot.msg = "ERROR" /\ slot.stat \notin {"SEND_DATA", "READY_TO_SEND_DATA", "TCP_CONNECT"}
         \/ slot.msg \in {"FAIL", "TIMEOUT"}
      /\ (Reboot \/ (tcpOn /\ slot.msg # "FAIL" /\ DelayCommand("TCP_DISCONNECT")))
  BY DEF NetGiveUp, NetRecv, wifiVars, plcVars, modemVars
<1>2. \/ netPc' = "reboot"
      \/ tcpOn /\ slot.msg # "FAIL" /\ netPc' = "cmd" /\ netCmd' = "TCP_DISCONNECT"
  BY <1>1 DEF Reboot, DelayCommand
<1>3. /\ armed' = armed \cup {"delay"}
      /\ older'["send"] = older["send"] \ {"delay"} /\ older'["wifi"] = older["wifi"] \ {"delay"}
  BY <1>1, Started DEF Reboot, DelayCommand, Timers
<1>4. OnlyOther' = OnlyOther /\ NoOk' = NoOk /\ DataTalk' = DataTalk /\ Sending' = Sending
  BY <1>1, TalkKept DEF Sending
<1>5. JoinedTypes' /\ StatusOfBuffer' /\ PromptOver' /\ SentOK'
  BY <1>1, <1>2, <1>4 DEF Joined, JoinedTypes, StatusOfBuffer, PromptOver, SentOK
<1>6. ReplacedOK' /\ ReportOnOK' /\ ReportOffOK'
  BY <1>1, <1>2, <1>3, <1>4 DEF Joined, ReplacedOK, ReportOnOK, ReportOffOK
<1>7. ResendOK' /\ ConnectOK'
  BY <1>1, <1>2, <1>3 DEF Joined, ConnectOK, ResendOK
<1>8. WatchOK' /\ RespOnOK' /\ RespOffOK'
  BY <1>1, <1>2, <1>3 DEF Joined, WatchOK, RespOnOK, RespOffOK
<1> QED BY <1>5, <1>6, <1>7, <1>8 DEF Joined

\* A sample is accepted: its length is asked for.
LEMMA JoinedSendData ==
  ASSUME TypeOK, Joined, NetSendData
  PROVE  Joined'
<1>1. netPc = "recv" /\ wifiStatus' = "SET_SEND_DATA_LENGTH" /\ txBuf' = "CIPSEND"
      /\ UNCHANGED <<netPc, netCmd, tcpOn, slot, prompt, response, armed, older, fifo, line>>
  BY DEF NetSendData, plcVars, modemVars, timerVars
<1>4. OnlyOther' = OnlyOther /\ NoOk' = NoOk /\ DataTalk' = DataTalk
  BY <1>1, TalkKept
<1>5. JoinedTypes' /\ StatusOfBuffer' /\ PromptOver' /\ SentOK'
  BY <1>1, <1>4 DEF Joined, JoinedTypes, StatusOfBuffer, PromptOver, SentOK
<1>6. ReplacedOK' /\ ReportOnOK' /\ ReportOffOK'
  BY <1>1 DEF Joined, ReplacedOK, ReportOnOK, ReportOffOK
<1>7. ResendOK' /\ ConnectOK'
  BY <1>1 DEF Joined, ConnectOK, ResendOK
<1>8. WatchOK' /\ RespOnOK' /\ RespOffOK'
  BY <1>1 DEF Joined, WatchOK, RespOnOK, RespOffOK
<1> QED BY <1>5, <1>6, <1>7, <1>8 DEF Joined

\* The delay of a command is over: all is quiet, and the command is written.
LEMMA JoinedCommand ==
  ASSUME TypeOK, Joined, AfterDelay, NetCommand
  PROVE  Joined'
<1>1. netPc = "cmd" /\ netPc' = "recv" /\ "delay" \notin armed /\ wifiStatus' = CommandStatus(netCmd)
      /\ txBuf' = netCmd
      /\ UNCHANGED <<tcpOn, slot, prompt, response, armed, older, fifo, line>>
  BY DEF NetCommand, plcVars, modemVars, timerVars
<1>2. Quiet /\ wifiStatus' = netCmd /\ netCmd \in TcpStatuses
  BY <1>1 DEF AfterDelay, Joined, JoinedTypes, CommandStatus
<1>4. OnlyOther' = OnlyOther /\ NoOk' = NoOk /\ DataTalk' = DataTalk
  BY <1>1, TalkKept
<1>5. JoinedTypes' /\ StatusOfBuffer' /\ PromptOver' /\ SentOK'
  BY <1>1, <1>2, <1>4 DEF Joined, JoinedTypes, StatusOfBuffer, PromptOver, SentOK
<1>6. ReplacedOK' /\ ReportOnOK' /\ ReportOffOK'
  BY <1>2 DEF Joined, ReplacedOK, ReportOnOK, ReportOffOK
<1>7. ResendOK' /\ ConnectOK'
  BY <1>1, <1>2 DEF Joined, ConnectOK, ResendOK
<1>8. WatchOK' /\ RespOnOK' /\ RespOffOK'
  BY <1>1, <1>2 DEF Joined, WatchOK, RespOnOK, RespOffOK
<1> QED BY <1>5, <1>6, <1>7, <1>8 DEF Joined

\* The delay of a resend is over: all is quiet, the payload is written, the flag off.
\* From here on nothing but the payload is on its way while the response timer runs.
LEMMA JoinedResend ==
  ASSUME TypeOK, Joined, AfterDelay, NetResend
  PROVE  Joined'
<1>1. netPc = "resend" /\ netPc' = "recv" /\ "delay" \notin armed /\ wifiStatus' = "SEND_DATA"
      /\ txBuf' = "DATA"
      /\ tcpOn' = FALSE /\ UNCHANGED <<slot, prompt, response, fifo, line>>
  BY DEF NetResend, TcpSendData, SetTcpStatus, modemVars
<1>2. Quiet
  BY <1>1 DEF AfterDelay
<1>3. /\ armed' = armed \cup {"send"}
  BY Started DEF NetResend, TcpSendData, Timers, Delay
<1>4. OnlyOther' = OnlyOther /\ NoOk' = NoOk /\ DataTalk' = DataTalk /\ (OnlyOther => NoOk)
  BY <1>1, TalkKept, OtherTalk
<1>5. JoinedTypes' /\ StatusOfBuffer' /\ PromptOver' /\ SentOK'
  BY <1>1, <1>4 DEF Joined, JoinedTypes, StatusOfBuffer, PromptOver, SentOK
<1>6. ReplacedOK' /\ ReportOnOK' /\ ReportOffOK'
  BY <1>1, <1>2, <1>4 DEF Joined, ReplacedOK, ReportOnOK, ReportOffOK, ResendOK
<1>7. ResendOK' /\ ConnectOK'
  BY <1>1 DEF Joined, ConnectOK, ResendOK
<1>8. WatchOK' /\ RespOnOK' /\ RespOffOK'
  BY <1>1, <1>3 DEF Joined, WatchOK, RespOnOK, RespOffOK
<1> QED BY <1>5, <1>6, <1>7, <1>8 DEF Joined

-----------------------------------------------------------------------------

\* A read takes the first line.
LEMMA TalkRead ==
  ASSUME ModemTypeOK, fifo # <<>>, fifo' = <<>>, line' = line
  PROVE  /\ OnlyOther => OnlyOther' /\ Head(fifo) = "OTHER"
         /\ NoOk => NoOk' /\ Head(fifo) \in DataLines \ {"OK", "SEND_OK"}
         /\ DataTalk => DataTalk' /\ Head(fifo) \in DataLines
         /\ CommandTalk => CommandTalk' /\ Head(fifo) \in CommandLines
<1>1. ASSUME NEW S, Hear(S)
      PROVE  fifo' \in Seq(S) /\ line' \in Seq(S) /\ Head(fifo) \in S
  BY <1>1 DEF Hear
<1> QED BY <1>1 DEF OnlyOther, NoOk, DataTalk, CommandTalk, Hear

\* A line arrives.
LEMMA TalkArrives ==
  ASSUME line # <<>>, line' = Tail(line), fifo' = Append(fifo, Head(line))
  PROVE  /\ OnlyOther => OnlyOther'
         /\ NoOk => NoOk'
         /\ DataTalk => DataTalk'
         /\ CommandTalk => CommandTalk'
<1>1. ASSUME NEW S, Hear(S)
      PROVE  fifo' \in Seq(S) /\ line' \in Seq(S)
  BY <1>1 DEF Hear
<1> QED BY <1>1 DEF OnlyOther, NoOk, DataTalk, CommandTalk, Hear

\* The modem says more.
LEMMA TalkGrows ==
  ASSUME NEW l, line' = line \o l, fifo' = fifo
  PROVE  /\ OnlyOther /\ l \in Seq({"OTHER"}) => OnlyOther'
         /\ NoOk /\ l \in Seq(DataLines \ {"OK", "SEND_OK"}) => NoOk'
         /\ DataTalk /\ l \in Seq(DataLines) => DataTalk'
         /\ CommandTalk /\ l \in Seq(CommandLines) => CommandTalk'
<1>1. ASSUME NEW S, Hear(S), l \in Seq(S)
      PROVE  fifo' \in Seq(S) /\ line' \in Seq(S)
  BY <1>1 DEF Hear
<1> QED BY <1>1 DEF OnlyOther, NoOk, DataTalk, CommandTalk, Hear

\* The driver parses a line.
LEMMA JoinedRead ==
  ASSUME TypeOK, Joined, WifiRead
  PROVE  Joined'
<1> DEFINE l == Head(fifo)
<1>1. /\ fifo # <<>> /\ fifo' = <<>> /\ line' = line
      /\ UNCHANGED <<netPc, netCmd, tcpOn, slot, txBuf, prompt, wifiEv>>
      /\ wifiStatus' = StatusAfter(l) /\ response' = ResponseAfter(l)
  BY DEF WifiRead, netVars, plcVars, modemVars
<1>2. /\ OnlyOther => OnlyOther' /\ l = "OTHER"
      /\ NoOk => NoOk' /\ l \in DataLines \ {"OK", "SEND_OK"}
      /\ DataTalk' /\ l \in DataLines
  BY <1>1, TalkRead DEF TypeOK, Joined, JoinedTypes
<1>3. /\ armed' \subseteq armed /\ armed \subseteq armed' \cup {"send"}
      /\ "send" \in armed' => "send" \in armed /\ UNCHANGED older
  <2>1. CASE UNCHANGED timerVars
    BY <2>1 DEF timerVars
  <2>2. CASE StopTimer("send")
    BY <2>2 DEF StopTimer
  <2> QED BY <2>1, <2>2 DEF WifiRead
<1>4. /\ l = "OTHER" => UNCHANGED <<wifiStatus, response>>
      /\ \/ wifiStatus' = wifiStatus
         \/ wifiStatus = "SET_SEND_DATA_LENGTH" /\ wifiStatus' = "READY_TO_SEND_DATA"
         \/ wifiStatus' \in {"RECEIVE_DATA", "REFUSE_DATA", "NONE"}
      /\ wifiStatus' = "SEND_DATA" /\ l \notin {"OK", "SEND_OK"}
           => response' \in {response, "ERROR", "FAIL"}
  BY <1>1, <1>2 DEF StatusAfter, ResponseAfter, IsReceive, DataLines, ServerLines
<1>5. Sending' = Sending
  BY <1>1 DEF Sending
<1> HIDE DEF l
<1>6. JoinedTypes' /\ StatusOfBuffer' /\ PromptOver' /\ SentOK'
  BY <1>1, <1>2, <1>4 DEF Joined, JoinedTypes, StatusOfBuffer, PromptOver, SentOK
<1>7. ReplacedOK' /\ ReportOnOK' /\ ReportOffOK'
  BY <1>1, <1>2, <1>3, <1>4, <1>5 DEF Joined, ReplacedOK, ReportOnOK, ReportOffOK
<1>8. ResendOK' /\ ConnectOK'
  BY <1>1, <1>3, <1>4 DEF Joined, ConnectOK, ResendOK
<1>9. WatchOK' /\ RespOnOK' /\ RespOffOK'
  BY <1>1, <1>3, <1>4 DEF Joined, WatchOK, RespOnOK, RespOffOK
<1> QED BY <1>6, <1>7, <1>8, <1>9 DEF Joined

\* The driver reports an answer in its one slot, under the status it has by now.
LEMMA JoinedRespond ==
  ASSUME TypeOK, ReaderOK, Joined, WifiRespond
  PROVE  Joined'
<1>1. /\ UNCHANGED <<netPc, netCmd, tcpOn, wifiStatus, txBuf, prompt, wifiEv, fifo, line>>
      /\ response \in {"OK", "ERROR", "FAIL"} /\ response' = "MAX"
      /\ slot'.msg = response /\ slot'.stat = wifiStatus
  BY DEF WifiRespond, ReaderOK, TypeOK, WifiTypeOK, Messages, netVars, plcVars, modemVars
<1>2. /\ armed' = armed \ {"wifi"} /\ older'["send"] = older["send"] \ {"wifi"}
  BY Stopped DEF WifiRespond, Timers
<1>3. OnlyOther' = OnlyOther /\ NoOk' = NoOk /\ DataTalk' = DataTalk /\ Sending' = Sending
  BY <1>1, TalkKept DEF Sending
<1>4. JoinedTypes' /\ StatusOfBuffer' /\ PromptOver' /\ SentOK'
  BY <1>1, <1>3 DEF Joined, JoinedTypes, StatusOfBuffer, PromptOver, SentOK, ReplacedOK
<1>5. ReplacedOK' /\ ReportOnOK' /\ ReportOffOK'
  BY <1>1, <1>3 DEF Joined, ReplacedOK, ReportOnOK, ReportOffOK
<1>6. ResendOK' /\ ConnectOK'
  BY <1>1 DEF Joined, StatusOfBuffer, PromptOver, ReplacedOK, ConnectOK, ResendOK
<1>7. WatchOK' /\ RespOnOK' /\ RespOffOK'
  BY <1>1, <1>2 DEF Joined, ReportOnOK, WatchOK, RespOnOK, RespOffOK
<1> QED BY <1>4, <1>5, <1>6, <1>7 DEF Joined

\* A timer that is not late ends when all has come to rest, and is the first to end.
LEMMA AtRestQuiet ==
  ASSUME Punctual, ReaderOK, NEW t, Expires(t)
  PROVE  /\ Quiet /\ ~Sending /\ fifo = <<>> /\ line = <<>> /\ response = "MAX"
         /\ NetBlocked /\ wifiPc = "recv" /\ t \in armed /\ older[t] = {} /\ faults' = faults
<1>1. AtRest /\ line = <<>> /\ UNCHANGED faults /\ t \in armed /\ older[t] = {}
  BY DEF Expires, Fault, Punctual
<1>2. fifo = <<>> /\ response = "MAX" /\ ~Sending /\ NetBlocked /\ wifiPc = "recv"
  BY <1>1 DEF AtRest, ReaderOK, Sending
<1>3. OnlyOther
  BY <1>1, <1>2 DEF OnlyOther, Hear
<1> QED BY <1>1, <1>2, <1>3

\* The manager's delay ends.
LEMMA JoinedDelayOver ==
  ASSUME TypeOK, Joined, DelayOver
  PROVE  Joined'
<1>1. UNCHANGED <<LinkView, wifiEv, fifo, line>>
  BY DEF DelayOver, netVars, plcVars, wifiVars
<1>2. /\ armed' = armed \ {"delay"}
      /\ older'["send"] = older["send"] \ {"delay"} /\ older'["wifi"] = older["wifi"] \ {"delay"}
  BY Stopped DEF DelayOver, Timers
<1>3. OnlyOther' = OnlyOther /\ NoOk' = NoOk /\ DataTalk' = DataTalk /\ Sending' = Sending
  BY <1>1, TalkKept DEF Sending
<1>4. JoinedTypes' /\ StatusOfBuffer' /\ PromptOver' /\ SentOK'
  BY <1>1, <1>3 DEF Joined, JoinedTypes, StatusOfBuffer, PromptOver, SentOK
<1>5. ReplacedOK' /\ ReportOnOK' /\ ReportOffOK'
  BY <1>1, <1>2, <1>3 DEF Joined, ReplacedOK, ReportOnOK, ReportOffOK
<1>6. ResendOK' /\ ConnectOK'
  BY <1>1, <1>2 DEF Joined, ConnectOK, ResendOK
<1>7. WatchOK' /\ RespOnOK' /\ RespOffOK'
  BY <1>1, <1>2 DEF Joined, WatchOK, RespOnOK, RespOffOK
<1> QED BY <1>4, <1>5, <1>6, <1>7 DEF Joined

\* The transmission was not answered. A send timer that was ordered before the
\* transmission's is gone by now (WatchOK).
LEMMA JoinedWifiTimeout ==
  ASSUME TypeOK, Punctual, ReaderOK, Joined, WifiTimeout
  PROVE  Joined'
<1>1. /\ UNCHANGED <<netPc, netCmd, tcpOn, wifiStatus, txBuf, prompt, wifiEv, fifo, line>>
      /\ response' = "MAX" /\ slot'.msg = "TIMEOUT" /\ slot'.stat = wifiStatus
  BY DEF WifiTimeout, netVars, plcVars
<1>2. /\ armed' = armed \ {"wifi"} /\ older'["send"] = older["send"] \ {"wifi"}
  BY Stopped DEF WifiTimeout, Timers
<1>3. OnlyOther' = OnlyOther /\ NoOk' = NoOk /\ DataTalk' = DataTalk /\ Sending' = Sending
  BY <1>1, TalkKept DEF Sending
<1>4. Quiet /\ older["wifi"] = {} /\ "wifi" \in armed /\ (OnlyOther => NoOk)
  BY AtRestQuiet, OtherTalk DEF WifiTimeout
<1>5. JoinedTypes' /\ StatusOfBuffer' /\ PromptOver' /\ SentOK'
  BY <1>1, <1>3 DEF Joined, JoinedTypes, StatusOfBuffer, PromptOver, SentOK
<1>6. ReplacedOK' /\ ReportOnOK' /\ ReportOffOK'
  BY <1>1, <1>2, <1>3, <1>4 DEF Joined, ReplacedOK, ReportOnOK, ReportOffOK
<1>7. ResendOK' /\ ConnectOK'
  BY <1>1, <1>2 DEF Joined, StatusOfBuffer, ReplacedOK, ConnectOK, ResendOK
<1>8. WatchOK' /\ RespOnOK' /\ RespOffOK'
  BY <1>1, <1>2, <1>4 DEF Joined, WatchOK, RespOnOK, RespOffOK
<1> QED BY <1>5, <1>6, <1>7, <1>8 DEF Joined

\* The payload was not acknowledged by the modem: the slot is posted as an error, with
\* whatever status it has.
LEMMA JoinedSendTimeout ==
  ASSUME TypeOK, Punctual, ReaderOK, Joined, SendTimeout
  PROVE  Joined'
<1>1. /\ UNCHANGED <<netPc, netCmd, tcpOn, wifiStatus, txBuf, prompt, wifiEv, fifo, line>>
      /\ response' = "MAX" /\ slot'.msg = "ERROR" /\ slot'.stat = slot.stat
  BY DEF SendTimeout, netVars, plcVars, TypeOK, WifiTypeOK
<1>2. /\ armed' = armed \ {"send"} /\ older'["wifi"] = older["wifi"] \ {"send"}
  BY Stopped DEF SendTimeout, Timers
<1>3. OnlyOther' = OnlyOther /\ NoOk' = NoOk /\ DataTalk' = DataTalk /\ Sending' = Sending
  BY <1>1, TalkKept DEF Sending
<1>4. Quiet /\ older["send"] = {} /\ "send" \in armed /\ (OnlyOther => NoOk)
  BY AtRestQuiet, OtherTalk DEF SendTimeout
<1>5. JoinedTypes' /\ StatusOfBuffer' /\ PromptOver' /\ SentOK'
  BY <1>1, <1>3 DEF Joined, JoinedTypes, StatusOfBuffer, PromptOver, SentOK
<1>6. ReplacedOK' /\ ReportOnOK' /\ ReportOffOK'
  BY <1>1, <1>2, <1>3, <1>4 DEF Joined, ReplacedOK, ReportOnOK, ReportOffOK
<1>7. ResendOK' /\ ConnectOK'
  BY <1>1, <1>4 DEF Joined, ConnectOK, ResendOK
<1>8. WatchOK' /\ RespOnOK' /\ RespOffOK'
  BY <1>1, <1>2, <1>4 DEF Joined, WatchOK, RespOnOK, RespOffOK
<1> QED BY <1>5, <1>6, <1>7, <1>8 DEF Joined

\* The driver's and the PLC thread's other steps, lines that arrive, a lost connection.
LEMMA JoinedOthers ==
  ASSUME TypeOK, ReaderOK, Joined,
         WifiSuspend \/ WifiRx \/ WifiReadDone \/ PlcStep \/ PlcBytesArrive \/ LineArrives \/ LinkDrop
  PROVE  Joined'
<1>1. UNCHANGED <<LinkView, armed, older>>
  BY DEF WifiSuspend, WifiRx, WifiReadDone, PlcStep, PlcIdle, PlcSample, PlcBytesArrive, LineArrives,
      LinkDrop, OthersUnchangedByPlc, netVars, plcVars, wifiVars, timerVars, modemVars
<1>2. CASE LineArrives
  <2>1. Sending' => Sending
    <3>1. wifiEv \in [blocked : BOOLEAN, latch : SUBSET {"RX", "TX"}, set : SUBSET {"RX", "TX"}]
      BY DEF TypeOK, WifiTypeOK, Event
    <3> QED BY <1>2, <3>1 DEF LineArrives, EventSend, Sending
  <2> QED BY <1>1, <1>2, <2>1, TalkArrives, JoinedFrame DEF LineArrives
<1>3. CASE LinkDrop
  <2>1. line' = line \o <<"OTHER">> /\ fifo' = fifo /\ wifiEv' = wifiEv
    BY <1>3 DEF LinkDrop, Answer, wifiVars
  <2>2. <<"OTHER">> \in Seq({"OTHER"}) /\ <<"OTHER">> \in Seq(DataLines \ {"OK", "SEND_OK"})
        /\ <<"OTHER">> \in Seq(DataLines)
    BY DEF DataLines
  <2> QED BY <1>1, <2>1, <2>2, TalkGrows, JoinedFrame DEF Sending
<1>4. CASE WifiSuspend \/ WifiRx \/ WifiReadDone \/ PlcStep \/ PlcBytesArrive
  <2>1. UNCHANGED <<fifo, line>>
    BY <1>4
          DEF WifiSuspend, WifiRx, WifiReadDone, PlcStep, PlcIdle, PlcSample, PlcBytesArrive,
              OthersUnchangedByPlc, modemVars
  <2>2. Sending' => Sending
    <3>1. wifiEv \in [blocked : BOOLEAN, latch : SUBSET {"RX", "TX"}, set : SUBSET {"RX", "TX"}]
      BY DEF TypeOK, WifiTypeOK, Event
    <3>2. wifiEv' = wifiEv \/ wifiEv' = EventRecv(wifiEv)
      BY <1>4
            DEF WifiSuspend, WifiRx, WifiReadDone, PlcStep, PlcIdle, PlcSample, PlcBytesArrive,
                OthersUnchangedByPlc, wifiVars
    <3> QED BY <3>1, <3>2 DEF EventRecv, Sending
  <2> QED BY <1>1, <2>1, <2>2, TalkKept, JoinedFrame
<1> QED BY <1>2, <1>3, <1>4

\* What a modem that is connected or being connected answers.
LEMMA RepliesTalk ==
  ASSUME NEW cmd \in TcpStatuses \cup {"CIPSEND", "DATA"}, NEW r \in Replies(cmd)
  PROVE  /\ r \in Seq(DataLines)
         /\ cmd = "DATA" => r \in Seq(DataLines \ {"OK", "SEND_OK"})
<1>1. /\ <<"ERROR">> \in Seq(DataLines \ {"OK", "SEND_OK"}) /\ <<"ERROR">> \in Seq(DataLines)
      /\ <<"OTHER", "OK">> \in Seq(DataLines) /\ <<"OK", "PROMPT">> \in Seq(DataLines)
  BY DEF DataLines
<1>2. r \in {<<"ERROR">>, <<"OTHER", "OK">>, <<"OK", "PROMPT">>} /\ (cmd = "DATA" => r = <<"ERROR">>)
  BY DEF Replies
<1> QED BY <1>1, <1>2

\* What a transmission leaves of the modem's promises, whatever the modem does.
LEMMA TransmissionTalk ==
  ASSUME TypeOK, WifiTx, txBuf \in TcpStatuses \cup {"CIPSEND", "DATA", "NONE"}, DataTalk
  PROVE  /\ DataTalk'
         /\ prompt' => prompt \/ txBuf = "CIPSEND"
         /\ txBuf = "NONE" => UNCHANGED <<line, prompt>>
         /\ txBuf \in TcpStatuses => line' = line \/ ~prompt'
         /\ txBuf \in {"DATA", "NONE"} /\ ~prompt /\ NoOk => NoOk'
<1>1. fifo' = fifo
  BY DEF WifiTx
<1>2. CASE UNCHANGED modemVars
  <2>1. UNCHANGED <<line, prompt>>
    BY <1>2 DEF modemVars
  <2> QED BY <1>1, <2>1, TalkKept
<1>3. CASE txBuf # "NONE" /\ ModemCommand(txBuf)
  <2>1. PICK r \in Replies(txBuf) : line' = line \o r
    BY <1>3 DEF ModemCommand, Answer
  <2>2. prompt' => txBuf = "CIPSEND"
    BY <1>3 DEF ModemCommand
  <2>3. txBuf \in TcpStatuses \cup {"CIPSEND", "DATA"}
    BY <1>3
  <2> QED BY <1>1, <1>3, <2>1, <2>2, <2>3, RepliesTalk, TalkGrows
<1>4. CASE txBuf = "DATA" /\ (ModemPayload \/ ModemSendFails)
  <2>1. prompt /\ ~prompt'
    BY <1>4 DEF ModemPayload, ModemSendFails
  <2>2. PICK r \in {<<"SEND_OK", "IPD_OK">>, <<"SEND_OK">>, <<"SEND_OK", "IPD_ER">>,
                     <<"SEND_OK", "IPD_ELSE">>, <<"IPD_OK", "SEND_OK">>, <<"SEND_FAIL">>} : line' = line \o r
    BY <1>4 DEF ModemPayload, ModemSendFails, Answer
  <2>3. <<"SEND_OK", "IPD_OK">> \in Seq(DataLines) /\ <<"SEND_OK", "IPD_ER">> \in Seq(DataLines)
        /\ <<"SEND_OK", "IPD_ELSE">> \in Seq(DataLines) /\ <<"IPD_OK", "SEND_OK">> \in Seq(DataLines)
        /\ <<"SEND_OK">> \in Seq(DataLines) /\ <<"SEND_FAIL">> \in Seq(DataLines)
    BY DEF DataLines, ServerLines
  <2> QED BY <1>1, <1>4, <2>1, <2>2, <2>3, TalkGrows
<1>5. CASE txBuf # "NONE" /\ ((txBuf # "DATA" /\ ModemSwallow) \/ ModemSilent)
  <2>1. line' = line \o <<>> /\ (prompt' => prompt)
    BY <1>5 DEF ModemSwallow, ModemSilent, SameLink, Answer
  <2>2. line' = line
    BY <2>1 DEF TypeOK, ModemTypeOK
  <2> QED BY <1>1, <1>5, <2>1, <2>2, TalkKept
<1>6. CASE txBuf # "NONE" /\ (ModemRefuses \/ (txBuf = "DATA" /\ ModemAsksAgain))
  <2>1. line' = line \o <<"ERROR">> /\ (prompt' => prompt) /\ (txBuf # "DATA" => ~prompt')
    BY <1>6 DEF ModemRefuses, ModemAsksAgain, SameLink, Answer
  <2>2. <<"ERROR">> \in Seq(DataLines) /\ <<"ERROR">> \in Seq(DataLines \ {"OK", "SEND_OK"})
    BY DEF DataLines
  <2> QED BY <1>1, <1>6, <2>1, <2>2, TalkGrows
<1>7. \/ UNCHANGED modemVars
      \/ txBuf # "NONE" /\ ModemCommand(txBuf)
      \/ txBuf = "DATA" /\ (ModemPayload \/ ModemSendFails)
      \/ txBuf # "NONE" /\ ((txBuf # "DATA" /\ ModemSwallow) \/ ModemSilent)
      \/ txBuf # "NONE" /\ (ModemRefuses \/ (txBuf = "DATA" /\ ModemAsksAgain))
  BY DEF WifiTx, ModemBusy
<1> QED BY <1>2, <1>3, <1>4, <1>5, <1>6, <1>7

\* The driver writes what it was given, and watches it.
LEMMA JoinedTransmit ==
  ASSUME TypeOK, ReaderOK, Joined, WifiTx
  PROVE  Joined'
<1>1. /\ UNCHANGED <<netPc, netCmd, tcpOn, wifiStatus, response, slot, fifo>>
      /\ txBuf' = "NONE" /\ wifiPc = "recv"
  BY DEF WifiTx, WifiAwake, netVars, plcVars
<1>2. Sending /\ response = "MAX"
  <2>1. wifiEv \in [blocked : BOOLEAN, latch : SUBSET {"RX", "TX"}, set : SUBSET {"RX", "TX"}]
    BY DEF TypeOK, WifiTypeOK, Event
  <2> QED BY <1>1, <2>1 DEF WifiTx, EventFlags, Sending, ReaderOK
<1>3. /\ DataTalk'
      /\ prompt' => prompt \/ txBuf = "CIPSEND"
      /\ txBuf = "NONE" => UNCHANGED <<line, prompt>>
      /\ txBuf \in TcpStatuses => line' = line \/ ~prompt'
      /\ txBuf \in {"DATA", "NONE"} /\ ~prompt /\ NoOk => NoOk'
  BY TransmissionTalk DEF Joined, JoinedTypes
<1>4. line' = line => OnlyOther' = OnlyOther
  BY <1>1, TalkKept
<1>5. /\ armed' = armed \cup {"wifi"} /\ older'["send"] = older["send"] \ {"wifi"}
      /\ "send" \in armed => "send" \in older'["wifi"]
  BY Started DEF WifiTx, WatchTransmission, Timers, Delay
<1>6. JoinedTypes' /\ StatusOfBuffer' /\ PromptOver' /\ SentOK'
  BY <1>1, <1>3, <1>4 DEF Joined, JoinedTypes, StatusOfBuffer, PromptOver, SentOK
<1>7. ReplacedOK' /\ ReportOnOK' /\ ReportOffOK'
  BY <1>1, <1>2, <1>3, <1>4, <1>5 DEF Joined, StatusOfBuffer, ReplacedOK, ReportOnOK, ReportOffOK
<1>8. ResendOK' /\ ConnectOK'
  BY <1>1, <1>3, <1>5 DEF Joined, StatusOfBuffer, ConnectOK, ResendOK
<1>9. WatchOK' /\ RespOnOK' /\ RespOffOK'
  BY <1>1, <1>5 DEF Joined, WatchOK, RespOnOK, RespOffOK
<1> QED BY <1>6, <1>7, <1>8, <1>9 DEF Joined

-----------------------------------------------------------------------------

\* The flags of the driver.
LEMMA DriverFlags ==
  ASSUME TypeOK
  PROVE  wifiEv \in [blocked : BOOLEAN, latch : SUBSET {"RX", "TX"}, set : SUBSET {"RX", "TX"}]
BY DEF TypeOK, WifiTypeOK, Event

\* A driver that is told to transmit, or another thread that moves, keeps what is unread.
LEMMA ReaderKept ==
  ASSUME TypeOK, ReaderOK, UNCHANGED <<wifiPc, fifo>>, response' \in {response, "MAX"},
         wifiEv' = wifiEv \/ wifiEv' = EventSend(wifiEv, "TX")
  PROVE  ReaderOK'
BY DriverFlags DEF ReaderOK, EventSend

\* The driver reads what it is told of, whatever else its flags say.
LEMMA ReaderDriver ==
  ASSUME TypeOK, ReaderOK, WifiStep
  PROVE  ReaderOK'
<1>1. wifiEv \in [blocked : BOOLEAN, latch : SUBSET {"RX", "TX"}, set : SUBSET {"RX", "TX"}]
  BY DriverFlags
<1>2. CASE WifiSuspend
  BY <1>1, <1>2 DEF ReaderOK, WifiSuspend, WifiAwake, EventFlags, EventRecv
<1>3. CASE WifiRx
  BY <1>1, <1>3 DEF ReaderOK, WifiRx, WifiAwake, EventFlags, EventRecv
<1>4. CASE WifiRead
  <2>1. fifo' = <<>> /\ UNCHANGED <<wifiPc, wifiEv>> /\ wifiPc = "read"
        /\ response' = ResponseAfter(Head(fifo))
    BY <1>4 DEF WifiRead
  <2>2. response' \in {response, "OK", "ERROR", "FAIL"}
    BY <2>1 DEF ResponseAfter
  <2> QED BY <2>1, <2>2 DEF ReaderOK
<1>5. CASE WifiRespond
  BY <1>1, <1>5 DEF ReaderOK, WifiRespond
<1>6. CASE WifiReadDone
  BY <1>1, <1>6 DEF ReaderOK, WifiReadDone
<1>7. CASE WifiTx
  BY <1>1, <1>7 DEF ReaderOK, WifiTx, WifiAwake, EventFlags, EventRecv
<1> QED BY <1>2, <1>3, <1>4, <1>5, <1>6, <1>7 DEF WifiStep

\* No step leaves a line in the ring that the driver is not told of.
LEMMA ReaderStep ==
  ASSUME TypeOK, ReaderOK, Next
  PROVE  ReaderOK'
<1>1. CASE Reset
  BY <1>1 DEF Reset, ReaderOK, Suspended
<1>2. CASE NetStep /\ ~Reset
  <2>1. UNCHANGED <<wifiPc, fifo, response>> /\ (wifiEv' = wifiEv \/ wifiEv' = EventSend(wifiEv, "TX"))
    <3>1. CASE NetRetry
      <4>1. UNCHANGED wifiVars \/ TcpSendData
        BY <3>1, RetryCases
      <4> QED BY <3>1, <4>1 DEF NetRetry, wifiVars, TcpSendData
    <3>2. CASE NetOkReady \/ NetResend \/ NetSendData \/ NetCommand
      BY <3>2 DEF NetOkReady, NetResend, NetSendData, NetCommand, TcpSendData
    <3>3. CASE \/ NetOkCommand \/ NetOkConnected \/ NetOkSent
             \/ NetOkReceived \/ NetOkIgnored \/ NetGiveUp \/ NetFailIgnored
      BY <3>3
            DEF NetOkCommand, NetOkConnected, NetOkSent, NetOkReceived, NetOkIgnored, NetGiveUp,
                NetFailIgnored, wifiVars
    <3> QED BY <1>2, <3>1, <3>2, <3>3 DEF NetStep, NetReset
  <2> QED BY <2>1, ReaderKept
<1>3. CASE WifiStep
  BY <1>3, ReaderDriver
<1>4. CASE PlcStep \/ PlcBytesArrive \/ LinkDrop
  BY <1>4, ReaderKept
        DEF PlcStep, PlcIdle, PlcSample, PlcBytesArrive, OthersUnchangedByPlc, LinkDrop, wifiVars
<1>5. CASE TimerStep /\ ~Reset
  BY <1>5, ReaderKept DEF TimerStep, DelayOver, WifiTimeout, SendTimeout, ResponseTimeout, wifiVars
<1>6. CASE LineArrives
  <2>1. /\ UNCHANGED <<wifiPc, response>>
        /\ wifiEv' = EventSend(wifiEv, "RX") \/ wifiEv' = EventSend(EventSend(wifiEv, "RX"), "RX")
    BY <1>6 DEF LineArrives
  <2> QED BY <2>1, DriverFlags DEF ReaderOK, EventSend
<1> QED BY <1>1, <1>2, <1>3, <1>4, <1>5, <1>6 DEF Next

\* Quiet lasts until the manager acts.
LEMMA QuietStays ==
  ASSUME TypeOK, ReaderOK, Punctual, Quiet, Next, ~NetStep, ~Reset
  PROVE  Quiet'
<1>0. wifiEv \in [blocked : BOOLEAN, latch : SUBSET {"RX", "TX"}, set : SUBSET {"RX", "TX"}]
  BY DriverFlags
<1>1. OnlyOther /\ response = "MAX" /\ (Sending => txBuf = "NONE")
  OBVIOUS
<1>2. CASE WifiSuspend \/ WifiRx \/ WifiReadDone \/ PlcStep \/ PlcBytesArrive
  <2>1. UNCHANGED <<fifo, line, response, txBuf>> /\ (wifiEv' = wifiEv \/ wifiEv' = EventRecv(wifiEv))
    BY <1>2
          DEF WifiSuspend, WifiRx, WifiReadDone, PlcStep, PlcIdle, PlcSample, PlcBytesArrive,
              OthersUnchangedByPlc, modemVars, wifiVars
  <2>2. Sending' => Sending
    BY <1>0, <2>1 DEF EventRecv, Sending
  <2> QED BY <1>1, <2>1, <2>2, TalkKept
<1>3. CASE WifiRead
  <2>1. fifo # <<>> /\ fifo' = <<>> /\ line' = line /\ response' = ResponseAfter(Head(fifo))
        /\ UNCHANGED <<txBuf, wifiEv>>
    BY <1>3 DEF WifiRead, modemVars
  <2>2. OnlyOther' /\ Head(fifo) = "OTHER"
    BY <1>1, <2>1, TalkRead DEF TypeOK
  <2> QED BY <1>1, <2>1, <2>2 DEF Sending, ResponseAfter
<1>4. CASE WifiRespond
  BY <1>1, <1>4 DEF WifiRespond
<1>5. CASE WifiTx
  <2>1. Sending
    BY <1>0, <1>5 DEF WifiTx, EventFlags, Sending
  <2>2. UNCHANGED <<fifo, line, response>> /\ txBuf' = "NONE"
    BY <1>1, <1>5, <2>1 DEF WifiTx, modemVars
  <2> QED BY <1>1, <2>2, TalkKept
<1>6. CASE DelayOver \/ WifiTimeout \/ SendTimeout
  <2>1. UNCHANGED <<fifo, line, txBuf, wifiEv>> /\ response' \in {response, "MAX"}
    BY <1>6 DEF DelayOver, WifiTimeout, SendTimeout, wifiVars
  <2> QED BY <1>1, <2>1, TalkKept DEF Sending
<1>7. CASE LineArrives
  <2>1. OnlyOther' /\ UNCHANGED <<txBuf, response>>
    BY <1>1, <1>7, TalkArrives DEF LineArrives
  <2>2. Sending' => Sending
    BY <1>0, <1>7 DEF LineArrives, EventSend, Sending
  <2> QED BY <1>1, <2>1, <2>2
<1>8. CASE LinkDrop
  <2>1. line' = line \o <<"OTHER">> /\ UNCHANGED <<fifo, response, txBuf, wifiEv>>
    BY <1>8 DEF LinkDrop, Answer, wifiVars
  <2>2. <<"OTHER">> \in Seq({"OTHER"})
    OBVIOUS
  <2>3. OnlyOther'
    BY <1>1, <2>1, <2>2, TalkGrows
  <2> QED BY <1>1, <2>1, <2>3 DEF Sending
<1> QED BY <1>2, <1>3, <1>4, <1>5, <1>6, <1>7, <1>8 DEF Next, WifiStep, TimerStep, ResponseTimeout

\* A delay outlasts what is unread: when it ends the threads are at rest, and stay
\* quiet until the manager acts.
LEMMA AfterDelayStep ==
  ASSUME TypeOK, ReaderOK, Punctual, AfterDelay, Next
  PROVE  AfterDelay'
<1>1. CASE Reset
  BY <1>1 DEF Reset, AfterDelay
<1>2. CASE NetStep /\ ~Reset
  <2>1. CASE NetRetry
    <3>1. netPc = "recv"
      BY <2>1 DEF NetRetry, NetRecv
    <3>2. \/ "delay" \in armed' \/ netPc' = netPc
      BY <2>1, RetryCases DEF Reboot, DelayCommand, StartTimer, Stay
    <3> QED BY <3>1, <3>2 DEF AfterDelay
  <2>2. CASE NetOkCommand \/ NetGiveUp
    <3>1. "delay" \in armed'
      BY <2>2 DEF NetOkCommand, NetGiveUp, Reboot, DelayCommand, StartTimer
    <3> QED BY <3>1 DEF AfterDelay
  <2>3. CASE \/ NetOkConnected \/ NetOkReady \/ NetOkSent \/ NetOkReceived \/ NetOkIgnored
             \/ NetFailIgnored \/ NetSendData \/ NetCommand \/ NetResend
    <3>1. netPc' = "recv"
      BY <2>3
            DEF NetOkConnected, NetOkReady, NetOkSent, NetOkReceived, NetOkIgnored, NetFailIgnored,
                NetSendData, NetCommand, NetResend, NetRecv, Stay
    <3> QED BY <3>1 DEF AfterDelay
  <2> QED BY <1>2, <2>1, <2>2, <2>3 DEF NetStep, NetReset
<1>3. CASE ~NetStep /\ ~Reset
  <2>1. netPc' = netPc
    BY <1>3
          DEF Next, WifiStep, WifiSuspend, WifiRx, WifiRead, WifiRespond, WifiReadDone, WifiTx, PlcStep,
              PlcIdle, PlcSample, PlcBytesArrive, OthersUnchangedByPlc, LineArrives, LinkDrop, TimerStep,
              DelayOver, WifiTimeout, SendTimeout, ResponseTimeout, netVars
  <2>2. CASE DelayOver
    <3>1. Quiet
      BY <2>2, AtRestQuiet DEF DelayOver
    <3> QED BY <1>3, <3>1, QuietStays DEF AfterDelay
  <2>3. CASE ~DelayOver
    <3>1. "delay" \in armed => "delay" \in armed'
      BY <1>3, <2>3
            DEF Next, WifiStep, WifiSuspend, WifiRx, WifiRead, WifiRespond, WifiReadDone, WifiTx, PlcStep,
                PlcIdle, PlcSample, PlcBytesArrive, OthersUnchangedByPlc, LineArrives, LinkDrop, TimerStep,
                WifiTimeout, SendTimeout, ResponseTimeout, timerVars, StopTimer, StartTimer,
                WatchTransmission
    <3> QED BY <1>3, <2>1, <3>1, QuietStays DEF AfterDelay
  <2> QED BY <2>2, <2>3
<1> QED BY <1>1, <1>2, <1>3

-----------------------------------------------------------------------------
(* Before the first connection *)

\* The statuses of a payload, which the driver does not have before.
LEMMA JoinStatuses ==
  ASSUME NEW c \in WifiCommands
  PROVE  CommandStatus(c) \notin DataStatuses \cup {"REFUSE_DATA"}
BY DEF WifiCommands, CommandStatus

\* Lines without consequence, as what is said.
LEMMA OtherSaid ==
  OnlyOther => CommandTalk /\ Said \in Seq({"OTHER"}) /\ Final(Said)
<1> SUFFICES ASSUME OnlyOther PROVE CommandTalk /\ Said \in Seq({"OTHER"}) /\ Final(Said)
  OBVIOUS
<1>1. Seq({"OTHER"}) \subseteq Seq(CommandLines)
  BY DEF CommandLines, Lines, ServerLines
<1>2. Said \in Seq({"OTHER"})
  BY DEF OnlyOther, Hear, Said
<1>3. \A i \in DOMAIN Said : Said[i] = "OTHER"
  BY <1>2
<1> QED BY <1>1, <1>2, <1>3 DEF OnlyOther, CommandTalk, Hear, Final

\* A reset starts anew, with nothing but noise on the line.
LEMMA JoiningReset ==
  ASSUME TypeOK, OnlyOther, Reset
  PROVE  Joining'
<1>1. OnlyOther'
  <2>1. <<>> \in Seq({"OTHER"})
    OBVIOUS
  <2> QED BY <2>1 DEF Reset, OnlyOther, Hear
<1>2. OnlyOther' => CommandTalk'
  BY OtherSaid, PTL
<1>3. JoinCommand'
  BY <1>1 DEF Reset, JoinCommand, Sending, Suspended
<1> QED BY <1>1, <1>2, <1>3 DEF Reset, Joining, EmptySlot

\* A message about a command: the next one, a retry, a reset, or the connection.
LEMMA JoiningManager ==
  ASSUME TypeOK, AfterDelay, Joining, NetStep
  PROVE  Joining' \/ Joined'
<1>1. netPc # "resend" /\ ~tcpOn /\ armed \subseteq {"delay", "wifi"}
      /\ (mq = <<>> \/ netPc = "reboot" \/ JoinPosted)
  BY DEF Joining, JoinCommand, JoinWrite, JoinAnswer, JoinPosted
<1>2. ASSUME netPc = "recv", mq # <<>>
      PROVE  /\ mq = <<"wifi">> /\ Tail(mq) = <<>> /\ ~Sending /\ OnlyOther /\ response = "MAX"
             /\ "wifi" \notin armed /\ slot.stat = wifiStatus /\ (slot.msg = "OK" => txBuf = "NONE")
             /\ slot.stat \notin DataStatuses \cup {"REFUSE_DATA"} /\ Head(mq) = "wifi"
  <2>1. JoinPosted
    BY <1>1, <1>2
  <2>2. Tail(<<"wifi">>) = <<>> /\ Head(<<"wifi">>) = "wifi"
    OBVIOUS
  <2> QED BY <2>1, <2>2 DEF JoinPosted, Joining
<1>3. CASE NetOkCommand \/ NetRetry \/ NetGiveUp
  <2>1. /\ netPc = "recv" /\ mq # <<>> /\ mq' = Tail(mq)
        /\ UNCHANGED <<tcpOn, wifiStatus, slot, txBuf, response, wifiEv, fifo, line>>
        /\ StartTimer("delay") /\ netPc' \in {"cmd", "reboot"}
    <3>1. CASE NetOkCommand
      BY <3>1 DEF NetOkCommand, NetRecv, DelayCommand, wifiVars, plcVars, modemVars
    <3>2. CASE NetRetry
      <4>1. slot.stat # "READY_TO_SEND_DATA" /\ slot.stat # "SEND_DATA"
        BY <1>2, <3>2 DEF NetRetry, NetRecv
      <4>2. /\ netPc = "recv" /\ mq # <<>> /\ mq' = Tail(mq) /\ UNCHANGED <<plcVars, fifo, modemVars>>
        BY <3>2 DEF NetRetry, NetRecv
      <4> QED BY <3>2, <4>1, <4>2, RetryCases DEF Reboot, DelayCommand, wifiVars, plcVars, modemVars
    <3>3. CASE NetGiveUp
      BY <1>1, <3>3 DEF NetGiveUp, NetRecv, Reboot, wifiVars, plcVars, modemVars
    <3> QED BY <1>3, <3>1, <3>2, <3>3
  <2>2. armed' = armed \cup {"delay"}
    BY <2>1 DEF StartTimer
  <2>3. OnlyOther' = OnlyOther /\ CommandTalk' = CommandTalk /\ Sending' = Sending
    BY <2>1, TalkKept DEF Sending
  <2> QED BY <1>1, <1>2, <2>1, <2>2, <2>3 DEF Joining, JoinCommand, JoinWrite, JoinAnswer, JoinPosted
<1>4. CASE NetOkConnected
  <2>1. /\ netPc = "recv" /\ mq # <<>> /\ slot.msg = "OK" /\ slot.stat = "TCP_CONNECT" /\ tcpOn' = TRUE
        /\ UNCHANGED <<netPc, netCmd, wifiStatus, slot, txBuf, prompt, response, wifiEv, fifo, line, armed,
               older>>
    BY <1>4 DEF NetOkConnected, NetRecv, Stay, SetTcpStatus, wifiVars, modemVars, timerVars
  <2>2. OnlyOther' = OnlyOther /\ NoOk' = NoOk /\ DataTalk' = DataTalk /\ Sending' = Sending
    BY <2>1, TalkKept DEF Sending
  <2>3. /\ ~Sending /\ OnlyOther /\ response = "MAX" /\ wifiStatus = "TCP_CONNECT" /\ txBuf = "NONE"
           /\ NoOk /\ DataTalk
    BY <1>2, <2>1, OtherTalk
  <2>4. JoinedTypes' /\ StatusOfBuffer' /\ PromptOver' /\ SentOK'
    BY <2>1, <2>2, <2>3 DEF Joined, JoinedTypes, StatusOfBuffer, PromptOver, SentOK
  <2>5. ReplacedOK' /\ ReportOnOK' /\ ReportOffOK'
    BY <2>1 DEF Joined, ReplacedOK, ReportOnOK, ReportOffOK
  <2>6. ResendOK' /\ ConnectOK'
    BY <2>1 DEF Joined, ConnectOK, ResendOK
  <2>7. WatchOK' /\ RespOnOK' /\ RespOffOK'
    BY <1>1, <2>1 DEF Joined, WatchOK, RespOnOK, RespOffOK
  <2> QED BY <2>4, <2>5, <2>6, <2>7 DEF Joined
<1>5. CASE NetOkIgnored \/ NetFailIgnored
  <2>1. /\ netPc = "recv" /\ mq # <<>> /\ mq' = Tail(mq)
        /\ UNCHANGED <<netPc, tcpOn, wifiStatus, slot, txBuf, response, wifiEv, fifo, line, armed>>
    BY <1>5 DEF NetOkIgnored, NetFailIgnored, NetRecv, Stay, wifiVars, plcVars, modemVars, timerVars
  <2>2. OnlyOther' = OnlyOther /\ CommandTalk' = CommandTalk /\ Sending' = Sending
    BY <2>1, TalkKept DEF Sending
  <2>3. Said' = Said
    BY <2>1 DEF Said
  <2>4. Final(Said)
    BY <1>2, <2>1, OtherSaid
  <2>5. Final(Said)'
    BY <2>3, <2>4 DEF Final
  <2> QED BY <1>1, <1>2, <2>1, <2>2, <2>5 DEF Joining, JoinCommand, JoinWrite, JoinAnswer, JoinPosted
<1>6. CASE NetCommand
  <2>1. /\ netPc = "cmd" /\ netPc' = "recv" /\ "delay" \notin armed
        /\ wifiStatus' = CommandStatus(netCmd) /\ txBuf' = netCmd /\ wifiEv' = EventSend(wifiEv, "TX")
        /\ UNCHANGED <<tcpOn, mq, slot, response, fifo, line, armed>>
    BY <1>6 DEF NetCommand, plcVars, modemVars, timerVars
  <2>2. netCmd \in WifiCommands
    BY <2>1 DEF TypeOK, NetTypeOK
  <2>3. OnlyOther' = OnlyOther /\ CommandTalk' = CommandTalk
    BY <2>1, TalkKept
  <2>4. JoinCommand
    BY <2>1 DEF Joining, JoinCommand, JoinWrite, JoinAnswer, JoinPosted
  <2>5. "TX" \notin wifiEv'.latch \cap wifiEv'.set
    BY <2>1, <2>4, DriverFlags DEF JoinCommand, Sending, EventSend
  <2> QED BY <1>1, <2>1, <2>2, <2>3, <2>4, <2>5, JoinStatuses
        DEF Joining, JoinCommand, JoinWrite, JoinAnswer, JoinPosted
<1>7. CASE NetReset
  <2>1. OnlyOther
    BY <1>7 DEF NetReset, AfterDelay
  <2> QED BY <1>7, <2>1, JoiningReset DEF NetReset
<1>8. ~NetOkReady /\ ~NetOkSent /\ ~NetOkReceived /\ ~NetSendData /\ ~NetResend
  BY <1>1, <1>2 DEF NetOkReady, NetOkSent, NetOkReceived, NetSendData, NetResend, NetRecv
<1> QED BY <1>3, <1>4, <1>5, <1>6, <1>7, <1>8 DEF NetStep

\* Steps that let a line without consequence arrive, or forget a transmission.
LEMMA JoiningFrame ==
  ASSUME Joining, UNCHANGED <<netPc, mq, tcpOn, wifiStatus, slot, txBuf, response>>, armed' \subseteq armed,
         OnlyOther => OnlyOther', CommandTalk => CommandTalk', Final(Said) => Final(Said)',
         Sending' => Sending,
         "TX" \in wifiEv'.latch \cap wifiEv'.set => "TX" \in wifiEv.latch \cap wifiEv.set
  PROVE  Joining'
BY DEF Joining, JoinCommand, JoinWrite, JoinAnswer, JoinPosted

\* What is said, when a line arrives, is read or comes last.
LEMMA FinalSaid ==
  ASSUME ModemTypeOK, Final(Said)
  PROVE  /\ UNCHANGED <<fifo, line>> => Final(Said)'
         /\ line # <<>> /\ line' = Tail(line) /\ fifo' = Append(fifo, Head(line)) => Final(Said)'
         /\ fifo' = fifo /\ line' = line \o <<"OTHER">> => Final(Said)'
         /\ fifo # <<>> /\ fifo' = <<>> /\ line' = line =>
              Final(Said)' /\ (Head(fifo) \in {"OK", "ERROR"} => OnlyOther')
<1>0. fifo \in Seq(Lines) /\ line \in Seq(Lines)
  BY DEF ModemTypeOK
<1>1. ASSUME UNCHANGED <<fifo, line>>
      PROVE  Final(Said)'
  BY <1>1 DEF Said, Final
<1>2. ASSUME line # <<>>, line' = Tail(line), fifo' = Append(fifo, Head(line))
      PROVE  Final(Said)'
  <2>1. Append(fifo, Head(line)) \o Tail(line) = fifo \o line
    BY <1>0, <1>2
  <2>2. Said' = Said
    BY <1>2, <2>1 DEF Said
  <2> QED BY <2>2 DEF Final
<1>3. ASSUME fifo' = fifo, line' = line \o <<"OTHER">>
      PROVE  Final(Said)'
  <2>1. Said' = Said \o <<"OTHER">> /\ Said \in Seq(Lines)
    BY <1>0, <1>3 DEF Said
  <2>2. \A i \in DOMAIN (Said \o <<"OTHER">>) :
           (Said \o <<"OTHER">>)[i] = "OTHER" \/ (i \in DOMAIN Said /\ (Said \o <<"OTHER">>)[i] = Said[i])
    BY <2>1
  <2>3. Final(Said \o <<"OTHER">>)
    BY <2>2 DEF Final
  <2> QED BY <2>1, <2>3 DEF Final
<1>4. ASSUME fifo # <<>>, fifo' = <<>>, line' = line
      PROVE  Final(Said)' /\ (Head(fifo) \in {"OK", "ERROR"} => OnlyOther')
  <2>1. Said' = line
    BY <1>0, <1>4 DEF Said
  <2>2. \A i \in DOMAIN line : i + Len(fifo) \in DOMAIN Said /\ Said[i + Len(fifo)] = line[i]
        /\ i + Len(fifo) > 1
    BY <1>0, <1>4 DEF Said
  <2>3. Len(fifo) \in Nat /\ DOMAIN line \subseteq Nat
    BY <1>0
  <2>4. Final(line)
    BY <2>2, <2>3 DEF Final
  <2>5. ASSUME Head(fifo) \in {"OK", "ERROR"}
        PROVE  OnlyOther'
    <3>1. 1 \in DOMAIN Said /\ Said[1] = Head(fifo)
      BY <1>0, <1>4 DEF Said
    <3>2. \A i \in DOMAIN line : line[i] = "OTHER"
      BY <2>2, <2>3, <2>5, <3>1 DEF Final
    <3>3. line \in Seq({"OTHER"}) /\ <<>> \in Seq({"OTHER"})
      BY <1>0, <3>2
    <3> QED BY <1>4, <3>3 DEF OnlyOther, Hear
  <2> QED BY <2>1, <2>4, <2>5 DEF Final
<1> QED BY <1>1, <1>2, <1>3, <1>4

\* The driver parses a line of an answer; behind OK and ERROR nothing matters.
LEMMA JoiningRead ==
  ASSUME TypeOK, Joining, WifiRead
  PROVE  Joining'
<1> DEFINE l == Head(fifo)
<1>1. /\ fifo # <<>> /\ fifo' = <<>> /\ line' = line
      /\ UNCHANGED <<netPc, mq, tcpOn, slot, txBuf, wifiEv>>
      /\ wifiStatus' = StatusAfter(l) /\ response' = ResponseAfter(l)
  BY DEF WifiRead, netVars, plcVars, modemVars
<1>2. /\ OnlyOther => OnlyOther' /\ l = "OTHER"
      /\ CommandTalk' /\ l \in CommandLines
  BY <1>1, TalkRead DEF TypeOK, Joining
<1>3. armed' \subseteq armed
  BY DEF WifiRead, StopTimer, timerVars
<1>4. /\ l = "OTHER" => UNCHANGED <<wifiStatus, response>>
      /\ wifiStatus' \in {wifiStatus, "GET_WIFI_MODE", "GET_DHCP_INFO", "GET_AP_INFO", "GET_LOCAL_INFO"}
      /\ response' # response => l \in {"OK", "ERROR"}
  BY <1>1, <1>2 DEF StatusAfter, ResponseAfter, IsReceive, CommandLines, Lines, ServerLines
<1>5. Sending' = Sending
  BY <1>1 DEF Sending
<1>6. Final(Said) => Final(Said)' /\ (l \in {"OK", "ERROR"} => OnlyOther')
  BY <1>1, FinalSaid DEF TypeOK
<1>7. wifiStatus' \notin DataStatuses \cup {"REFUSE_DATA"}
  BY <1>4 DEF Joining
<1> HIDE DEF l
<1> QED BY <1>1, <1>2, <1>3, <1>4, <1>5, <1>6, <1>7
      DEF Joining, JoinCommand, JoinWrite, JoinAnswer, JoinPosted

\* A posted message, where there was none.
LEMMA PostedAlone ==
  ASSUME mq = <<>>, mq' = Post(mq, "wifi")
  PROVE  mq' = <<"wifi">>
<1>1. Len(<<>>) = 0 /\ Append(<<>>, "wifi") = <<"wifi">>
  OBVIOUS
<1> QED BY <1>1, ConstantsOK DEF ConstantsOK, Post

\* The driver reports the answer: the only message in the queue.
LEMMA JoiningRespond ==
  ASSUME TypeOK, Joining, WifiRespond
  PROVE  Joining'
<1>1. /\ UNCHANGED <<netPc, tcpOn, wifiStatus, txBuf, wifiEv, fifo, line>>
      /\ response # "MAX" /\ response' = "MAX" /\ mq' = Post(mq, "wifi")
      /\ slot'.msg = response /\ slot'.stat = wifiStatus /\ armed' = armed \ {"wifi"}
  BY DEF WifiRespond, StopTimer, netVars, plcVars, modemVars
<1>2. OnlyOther' = OnlyOther /\ CommandTalk' = CommandTalk /\ Sending' = Sending
  BY <1>1, TalkKept DEF Sending
<1>3. JoinAnswer \/ netPc = "reboot"
  BY <1>1 DEF Joining, JoinCommand, JoinWrite, JoinAnswer, JoinPosted
<1>4. JoinAnswer => mq' = <<"wifi">>
  BY <1>1, PostedAlone DEF JoinAnswer
<1> QED BY <1>1, <1>2, <1>3, <1>4 DEF Joining, JoinCommand, JoinWrite, JoinAnswer, JoinPosted

\* The command was not answered: the only message in the queue says so.
LEMMA JoiningWifiTimeout ==
  ASSUME TypeOK, Punctual, ReaderOK, Joining, WifiTimeout
  PROVE  Joining'
<1>1. /\ UNCHANGED <<netPc, tcpOn, wifiStatus, txBuf, wifiEv, fifo, line>>
      /\ response' = "MAX" /\ mq' = Post(mq, "wifi")
      /\ slot'.msg = "TIMEOUT" /\ slot'.stat = wifiStatus /\ armed' = armed \ {"wifi"}
  BY DEF WifiTimeout, StopTimer, netVars, plcVars
<1>2. OnlyOther' = OnlyOther /\ CommandTalk' = CommandTalk /\ Sending' = Sending
  BY <1>1, TalkKept DEF Sending
<1>3. "wifi" \in armed /\ OnlyOther
  BY AtRestQuiet DEF WifiTimeout
<1>4. JoinAnswer \/ netPc = "reboot"
  BY <1>3 DEF Joining, JoinCommand, JoinWrite, JoinAnswer, JoinPosted
<1>5. JoinAnswer => mq' = <<"wifi">>
  BY <1>1, PostedAlone DEF JoinAnswer
<1> QED BY <1>1, <1>2, <1>3, <1>4, <1>5 DEF Joining, JoinCommand, JoinWrite, JoinAnswer, JoinPosted

\* The other steps of threads and line.
LEMMA JoiningOthers ==
  ASSUME TypeOK, ReaderOK, Joining,
         \/ WifiSuspend \/ WifiRx \/ WifiReadDone \/ PlcStep \/ PlcBytesArrive
         \/ LineArrives \/ LinkDrop \/ DelayOver
  PROVE  Joining'
<1>0. ~tcpOn
  BY DEF Joining
<1>1. UNCHANGED <<netPc, mq, tcpOn, wifiStatus, slot, txBuf, response>> /\ armed' \subseteq armed
  BY <1>0
        DEF WifiSuspend, WifiRx, WifiReadDone, PlcStep, PlcIdle, PlcSample, PlcBytesArrive, LineArrives,
            LinkDrop, DelayOver, StopTimer, OthersUnchangedByPlc, netVars, plcVars, wifiVars, timerVars,
            modemVars
<1>2. CASE LineArrives
  <2>1. (Sending' => Sending)
        /\ ("TX" \in wifiEv'.latch \cap wifiEv'.set => "TX" \in wifiEv.latch \cap wifiEv.set)
    BY <1>2, DriverFlags DEF LineArrives, EventSend, Sending, ReaderOK
  <2>2. line # <<>> /\ line' = Tail(line) /\ fifo' = Append(fifo, Head(line))
    BY <1>2 DEF LineArrives
  <2>3. Final(Said) => Final(Said)'
    BY <2>2, FinalSaid DEF TypeOK
  <2> QED BY <1>1, <2>1, <2>2, <2>3, TalkArrives, JoiningFrame
<1>3. CASE LinkDrop
  <2>1. line' = line \o <<"OTHER">> /\ fifo' = fifo /\ wifiEv' = wifiEv
    BY <1>3 DEF LinkDrop, Answer, wifiVars
  <2>2. <<"OTHER">> \in Seq({"OTHER"}) /\ <<"OTHER">> \in Seq(CommandLines)
    BY DEF CommandLines, Lines, ServerLines
  <2>3. Final(Said) => Final(Said)'
    BY <2>1, FinalSaid DEF TypeOK
  <2>4. Sending' = Sending
    BY <2>1 DEF Sending
  <2> QED BY <1>1, <2>1, <2>2, <2>3, <2>4, TalkGrows, JoiningFrame
<1>4. CASE WifiSuspend \/ WifiRx \/ WifiReadDone \/ PlcStep \/ PlcBytesArrive \/ DelayOver
  <2>1. UNCHANGED <<fifo, line>>
    BY <1>4
          DEF WifiSuspend, WifiRx, WifiReadDone, PlcStep, PlcIdle, PlcSample, PlcBytesArrive,
              OthersUnchangedByPlc, modemVars, DelayOver
  <2>2. (Sending' => Sending)
        /\ ("TX" \in wifiEv'.latch \cap wifiEv'.set => "TX" \in wifiEv.latch \cap wifiEv.set)
    <3>1. wifiEv' = wifiEv \/ wifiEv' = EventRecv(wifiEv)
      BY <1>4
            DEF WifiSuspend, WifiRx, WifiReadDone, PlcStep, PlcIdle, PlcSample, PlcBytesArrive,
                OthersUnchangedByPlc, wifiVars, DelayOver
    <3> QED BY <3>1, DriverFlags DEF EventRecv, Sending
  <2>3. Final(Said) => Final(Said)'
    BY <2>1, FinalSaid DEF TypeOK
  <2> QED BY <1>1, <2>1, <2>2, <2>3, TalkKept, JoiningFrame
<1> QED BY <1>2, <1>3, <1>4

\* The answer to a command of the connection.
LEMMA RepliesFinal ==
  ASSUME NEW cmd \in WifiCommands, NEW r \in Replies(cmd)
  PROVE  /\ r \in Seq(CommandLines)
         /\ r \in {<<"ERROR">>, <<"OK">>} \/ \E x \in CommandLines \ {"OK", "ERROR"} : r = <<x, "OK">>
<1>1. r \in {<<"ERROR">>, <<"OK">>} \/ \E x \in {"MODE_STATION", "MODE_OTHER", "DHCP_SAME",
          "DHCP_DIFFERENT",
                     "AP", "LOCAL", "OTHER"} : r = <<x, "OK">>
  BY DEF Replies, WifiCommands
<1>2. {"MODE_STATION", "MODE_OTHER", "DHCP_SAME", "DHCP_DIFFERENT", "AP", "LOCAL", "OTHER"}
        \subseteq CommandLines \ {"OK", "ERROR"}
      /\ {"OK", "ERROR"} \subseteq CommandLines
  BY DEF CommandLines, Lines, ServerLines
<1>3. /\ <<"OK">> \in Seq(CommandLines) /\ <<"ERROR">> \in Seq(CommandLines)
      /\ \A x \in CommandLines : <<x, "OK">> \in Seq(CommandLines)
  BY <1>2
<1> QED BY <1>1, <1>2, <1>3

\* An answer behind lines without consequence is the last that matters.
LEMMA AnswerFinal ==
  ASSUME NEW f \in Seq({"OTHER"})
  PROVE  /\ \A x : Final(f \o <<x>>)
         /\ \A x, y : x \notin {"OK", "ERROR"} => Final(f \o <<x, y>>)
<1>1. ASSUME NEW x
      PROVE  \A i \in DOMAIN (f \o <<x>>) : (f \o <<x>>)[i] = "OTHER" \/ i = Len(f) + 1
  OBVIOUS
<1>2. ASSUME NEW x, NEW y
      PROVE  \A i \in DOMAIN (f \o <<x, y>>) :
                (f \o <<x, y>>)[i] \in {"OTHER", x} \/ i = Len(f) + 2
  OBVIOUS
<1>3. Len(f) \in Nat
  OBVIOUS
<1>4. ASSUME NEW x
      PROVE  DOMAIN (f \o <<x>>) = 1..(Len(f) + 1)
  OBVIOUS
<1>5. ASSUME NEW x, NEW y
      PROVE  DOMAIN (f \o <<x, y>>) = 1..(Len(f) + 2)
  OBVIOUS
<1> QED BY <1>1, <1>2, <1>3, <1>4, <1>5 DEF Final

\* The driver writes the command; or the command shares a set of flags with received
\* bytes and is never written (wifi.c:573).
LEMMA JoiningTransmit ==
  ASSUME TypeOK, ReaderOK, Joining, WifiTx
  PROVE  Joining'
<1>0. wifiEv \in [blocked : BOOLEAN, latch : SUBSET {"RX", "TX"}, set : SUBSET {"RX", "TX"}]
  BY DriverFlags
<1>1. /\ UNCHANGED <<netPc, mq, tcpOn, wifiStatus, response, slot, fifo>>
      /\ txBuf' = "NONE" /\ wifiPc = "recv" /\ EventFlags(wifiEv) = {"TX"} /\ wifiEv' = EventRecv(wifiEv)
      /\ armed' = armed \cup {"wifi"}
  BY DEF WifiTx, WifiAwake, WatchTransmission, StartTimer, netVars, plcVars
<1>2. Sending /\ response = "MAX"
  BY <1>0, <1>1 DEF EventFlags, Sending, ReaderOK
<1>3. JoinWrite \/ netPc = "reboot"
  BY <1>2 DEF Joining, JoinCommand, JoinWrite, JoinAnswer, JoinPosted
<1>4. txBuf \in WifiCommands \cup {"NONE"} /\ CommandTalk /\ "DATA" \notin WifiCommands
  BY DEF Joining, WifiCommands
<1>5. \/ line' = line
      \/ txBuf \in WifiCommands /\ line = <<>> /\ \E r \in Replies(txBuf) : line' = line \o r
      \/ line = <<>> /\ line' = line \o <<"ERROR">>
  <2>1. \/ UNCHANGED modemVars
        \/ txBuf # "NONE" /\ line = <<>> /\ (ModemCommand(txBuf) \/ ModemSwallow \/ ModemSilent
           \/ ModemRefuses)
    BY <1>4 DEF WifiTx, ModemBusy
  <2>2. line \o <<>> = line
    BY DEF TypeOK, ModemTypeOK
  <2> QED BY <1>4, <2>1, <2>2 DEF modemVars, ModemCommand, ModemSwallow, ModemSilent, ModemRefuses, Answer
<1>6. CommandTalk'
  <2>1. <<"ERROR">> \in Seq(CommandLines)
    BY DEF CommandLines, Lines, ServerLines
  <2> QED BY <1>1, <1>4, <1>5, <2>1, RepliesFinal, TalkGrows, TalkKept
<1>7. OnlyOther => Final(Said)'
  <2>1. ASSUME OnlyOther
        PROVE  fifo \in Seq({"OTHER"}) /\ fifo \in Seq(Lines) /\ Final(Said)
    BY <2>1, OtherSaid DEF OnlyOther, Hear, TypeOK, ModemTypeOK
  <2>2. ASSUME line' = line, OnlyOther
        PROVE  Final(Said)'
    BY <1>1, <2>1, <2>2, FinalSaid DEF TypeOK
  <2>3. ASSUME NEW r, r \in {<<"ERROR">>, <<"OK">>}
               \/ \E x \in CommandLines \ {"OK", "ERROR"} : r = <<x, "OK">>,
               line = <<>>, line' = line \o r, OnlyOther
        PROVE  Final(Said)'
    <3>1. line' = r
      BY <2>3, ShortAnswers
    <3>2. Said' = fifo \o r
      BY <1>1, <3>1 DEF Said
    <3>3. Final(fifo \o r)
      BY <2>1, <2>3, AnswerFinal
    <3> QED BY <3>2, <3>3 DEF Final
  <2> QED BY <1>5, <2>2, <2>3, RepliesFinal
<1>8. JoinWrite => ~Sending'
  BY <1>0, <1>1 DEF JoinWrite, EventFlags, EventRecv, Sending
<1> QED BY <1>1, <1>2, <1>3, <1>6, <1>7, <1>8 DEF Joining, JoinCommand, JoinWrite, JoinAnswer, JoinPosted

-----------------------------------------------------------------------------

\* Before the first connection one command follows the other, until connected.
LEMMA JoiningStep ==
  ASSUME TypeOK, Punctual, ReaderOK, AfterDelay, Joining, Next
  PROVE  Joining' \/ Joined'
<1>1. "send" \notin armed /\ "resp" \notin armed
  BY DEF Joining
<1>2. ~SendTimeout /\ ~ResponseTimeout
  BY <1>1 DEF SendTimeout, ResponseTimeout, Expires
<1> QED BY <1>2, JoiningManager, JoiningRead, JoiningRespond, JoiningTransmit, JoiningWifiTimeout,
    JoiningOthers
        DEF Next, WifiStep, TimerStep

\* After it, every step keeps the invariant or resets the gateway.
LEMMA JoinedStep ==
  ASSUME TypeOK, Punctual, ReaderOK, AfterDelay, Joined, Next
  PROVE  Joining' \/ Joined'
<1>1. CASE NetStep
  <2>1. CASE NetReset
    BY <2>1, JoiningReset DEF NetReset, AfterDelay
  <2> QED BY <1>1, <2>1, JoinedOkCommand, JoinedOkConnected, JoinedOkReady, JoinedOkSent, JoinedOkReceived,
        JoinedIgnored, JoinedRetry, JoinedGiveUp, JoinedSendData, JoinedCommand, JoinedResend DEF NetStep
<1>2. CASE WifiStep
  BY <1>2, JoinedOthers, JoinedRead, JoinedRespond, JoinedTransmit DEF WifiStep
<1>3. CASE TimerStep
  <2>1. CASE ResponseTimeout
    BY <2>1, AtRestQuiet, JoiningReset DEF ResponseTimeout
  <2> QED BY <1>3, <2>1, JoinedDelayOver, JoinedWifiTimeout, JoinedSendTimeout DEF TimerStep
<1>4. CASE PlcStep \/ LineArrives \/ PlcBytesArrive \/ LinkDrop
  BY <1>4, JoinedOthers
<1> QED BY <1>1, <1>2, <1>3, <1>4 DEF Next

\* The response timer starts when the manager waits for an answer.
LEMMA ResponseStarts ==
  ASSUME Next, "resp" \notin armed, "resp" \in armed'
  PROVE  networkStatus' = "WAIT_ACK"
<1>1. CASE NetRetry
  BY <1>1, RetryCases DEF Reboot, DelayCommand, StartTimer, TcpSendData
<1>2. CASE NetOkSent
  BY <1>2 DEF NetOkSent
<1>3. CASE Reset
  BY <1>3 DEF Reset
<1>4. CASE NetStep /\ ~NetRetry /\ ~NetOkSent /\ ~Reset
  <2>1. CASE NetOkCommand \/ NetGiveUp
    BY <2>1 DEF NetOkCommand, NetGiveUp, Reboot, DelayCommand, StartTimer
  <2>2. CASE NetOkReady \/ NetResend
    BY <2>2 DEF NetOkReady, NetResend, TcpSendData, StartTimer
  <2>3. CASE NetOkReceived
    BY <2>3 DEF NetOkReceived, StopResponseTimer, StopTimer
  <2>4. CASE NetOkConnected \/ NetOkIgnored \/ NetFailIgnored \/ NetSendData \/ NetCommand
    BY <2>4 DEF NetOkConnected, NetOkIgnored, NetFailIgnored, NetSendData, NetCommand, timerVars
  <2> QED BY <1>4, <2>1, <2>2, <2>3, <2>4 DEF NetStep, NetReset
<1>5. CASE ~NetStep /\ ~Reset
  BY <1>5
        DEF Next, WifiStep, WifiSuspend, WifiRx, WifiRead, WifiRespond, WifiReadDone, WifiTx, PlcStep,
            PlcIdle, PlcSample, PlcBytesArrive, OthersUnchangedByPlc, LineArrives, LinkDrop, TimerStep,
            DelayOver, WifiTimeout, SendTimeout, ResponseTimeout, timerVars, StopTimer, StartTimer,
            WatchTransmission
<1> QED BY <1>1, <1>2, <1>3, <1>4, <1>5

\* Ready again means acknowledged, which stops the response timer, or connected with
\* the flag off, which RespOffOK excludes while the timer runs.
LEMMA NoResetStep ==
  ASSUME TypeOK, slot.stat # "STANDBY_SEND", Joining \/ Joined, NoResetWhenReady, Next
  PROVE  NoResetWhenReady'
<1> SUFFICES ASSUME ~Busy', "resp" \in armed' PROVE FALSE
  BY DEF NoResetWhenReady, Busy
<1>1. "resp" \in armed
  BY ResponseStarts DEF Busy
<1>2. Busy
  BY <1>1 DEF NoResetWhenReady, Busy
<1>3. Joined
  BY <1>1 DEF Joining
<1>4. CASE NetOkConnected /\ ~tcpOn
  <2>1. slot.stat = "TCP_CONNECT" /\ ~tcpOn
    BY <1>4 DEF NetOkConnected
  <2> QED BY <1>1, <1>3, <2>1 DEF Joined, RespOffOK
<1>5. CASE NetOkReceived
  BY <1>5 DEF NetOkReceived, StopResponseTimer, StopTimer
<1>6. CASE Reset
  BY <1>6 DEF Reset
<1> QED BY <1>2, <1>4, <1>5, <1>6, ReadyComes

\* The gateway starts with its first command in the delay.
LEMMA UnpacedInit == Init => UnpacedInvariant
<1> SUFFICES ASSUME Init PROVE UnpacedInvariant
  OBVIOUS
<1>1. ReadyInvariant
  BY ReadyInit
<1>2. <<>> \in Seq({"OTHER"}) /\ <<>> \in Seq(CommandLines)
  OBVIOUS
<1>3. OnlyOther /\ CommandTalk /\ ~Sending
  BY <1>2 DEF Init, OnlyOther, CommandTalk, Hear, Sending, Suspended
<1>4. ReaderOK /\ AfterDelay /\ NoResetWhenReady
  BY DEF Init, ReaderOK, AfterDelay, NoResetWhenReady, Suspended
<1>5. Joining
  BY <1>3 DEF Init, Joining, JoinCommand, EmptySlot
<1> QED BY <1>1, <1>4, <1>5 DEF UnpacedInvariant

\* Every step of every thread, timer, modem and fault keeps the invariant.
LEMMA UnpacedStep == UnpacedInvariant /\ [Next]_vars => UnpacedInvariant'
<1> SUFFICES ASSUME UnpacedInvariant, [Next]_vars PROVE UnpacedInvariant'
  OBVIOUS
<1>1. ReadyInvariant'
  BY ReadyStep DEF UnpacedInvariant
<1>2. TypeOK /\ slot.stat # "STANDBY_SEND"
  BY DEF UnpacedInvariant, ReadyInvariant
<1>3. ASSUME Punctual
      PROVE  ReaderOK' /\ AfterDelay' /\ NoResetWhenReady' /\ (Joining' \/ Joined')
  <2>1. ReaderOK /\ AfterDelay /\ NoResetWhenReady /\ (Joining \/ Joined)
    BY <1>3 DEF UnpacedInvariant
  <2>2. CASE Next
    BY <1>2, <1>3, <2>1, <2>2, ReaderStep, AfterDelayStep, NoResetStep, JoiningStep, JoinedStep
  <2>3. CASE UNCHANGED vars
    <3>1. UNCHANGED <<LinkView, mq, armed, older, wifiEv, fifo, line>>
      BY <2>3 DEF vars, netVars, plcVars, wifiVars, timerVars, modemVars
    <3>2. UNCHANGED <<wifiPc, networkStatus>>
      BY <2>3 DEF vars, wifiVars
    <3>3. OnlyOther' = OnlyOther /\ NoOk' = NoOk /\ DataTalk' = DataTalk /\ CommandTalk' = CommandTalk
          /\ Sending' = Sending
      BY <3>1, TalkKept DEF Sending
    <3>4. ReaderOK' /\ AfterDelay' /\ NoResetWhenReady'
      BY <2>1, <3>1, <3>2, <3>3 DEF ReaderOK, AfterDelay, NoResetWhenReady
    <3>5. Joined => Joined'
      BY <3>1, <3>3, JoinedFrame
    <3>6. Joining => Joining'
      BY <1>2, <3>1, <3>3, FinalSaid, JoiningFrame DEF TypeOK
    <3> QED BY <2>1, <3>4, <3>5, <3>6
  <2> QED BY <2>2, <2>3
<1> QED BY <1>1, <1>3 DEF UnpacedInvariant, Punctual

\* The inductive invariant of every interleaving: types and status for any faults;
\* and, unless a timer may come too late, the driver reads all it is told of, delays
\* outlast what is unread, and the gateway is joining with one command at a time or
\* carries payloads and brings its connection back as Joined says (networkmanager.c,
\* wifi.c; paced lines or not).
THEOREM UnpacedCorrect == Spec => []UnpacedInvariant
<1>1. Init => UnpacedInvariant
  BY UnpacedInit
<1>2. UnpacedInvariant /\ [Next]_vars => UnpacedInvariant'
  BY UnpacedStep
<1> QED BY <1>1, <1>2, PTL DEF Spec

\* No response timer runs that would reset a gateway which is ready for the next
\* sample (networkmanager.c:179), however threads, interrupts, lines and faults
\* interleave, as long as no timer comes too late.
THEOREM NoResetCorrect ==
  ASSUME Punctual
  PROVE  Spec => []NoResetWhenReady
<1>1. UnpacedInvariant => NoResetWhenReady
  BY DEF UnpacedInvariant
<1> QED BY <1>1, UnpacedCorrect, PTL
==============================================================================
