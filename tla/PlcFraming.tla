----------------------------- MODULE PlcFraming -----------------------------
(***************************************************************************)
(* How the gateway finds the frames of the PLC in the bytes of its serial  *)
(* line: the ring the interrupt fills (serial.c), the read loop of         *)
(* plccomm_rx_thread, ParserReceiveData, and the buffer from which the     *)
(* packets of a round are made (plccomm.c).                                *)
(*                                                                         *)
(* A byte is <<f, i>>, the i-th byte of the f-th frame; its first byte is  *)
(* STX and its last the sum of the others.  StxAt holds the positions      *)
(* whose data happen to have the value of STX.  A sum is right for a whole *)
(* frame and for a window of zeros; that other windows may add up by       *)
(* accident is left out.                                                   *)
(***************************************************************************)
EXTENDS Naturals, Sequences

CONSTANTS DataLen,  \* PLC_DATA_LEN, 79: the bytes of a frame
          BufSize,  \* PLC_BUFF_SIZE, 512: the bytes of rxBuf
          RingSize, \* RT_SERIAL_RB_BUFSZ, 1024 (rtconfig.h): the cells of the serial
                    \* ring, which may hold more than rxBuf or less
          Sensors,  \* the packets of a round
          Frames,   \* frames are numbered 1..Frames, over and over
          StxAt     \* the positions, after the first, that look like STX

ASSUME FramingConstantsOK ==
  /\ DataLen \in Nat \ {0, 1} /\ BufSize \in Nat /\ RingSize \in Nat \ {0, 1}
  /\ DataLen < BufSize
  /\ Sensors \in Nat \ {0, 1} /\ Frames \in Nat \ {0}
  /\ StxAt \subseteq 2..DataLen

VARIABLES
  coming,           \* the byte the PLC sends next
  ring,             \* serial_rx: the bytes not read yet, the oldest first
  events,           \* rx_event
  tcpOn,            \* tcpOn
  reading,          \* the thread is in its read loop
  rxBuf,            \* rxBuf
  uRemain,          \* uRemain
  findStart,        \* findStart
  valid,            \* plDataInfo.valid
  sensorCodeCount,  \* sensorCodeCount
  paced             \* history: every byte that looks like STX has found the thread
                    \* waiting for it, and the connection has never been lost

vars == <<coming, ring, events, tcpOn, reading, rxBuf, uRemain, findStart,
          valid, sensorCodeCount, paced>>

Zero == <<0, 0>>
Byte == (1..Frames) \X (1..DataLen)
Frame(f) == [i \in 1..DataLen |-> <<f, i>>]
Zeros(n) == [i \in 1..n |-> Zero]
Window(buf, begin) == SubSeq(buf, begin, begin + DataLen - 1)

IsStx(byte) == byte[2] \in {1} \cup StxAt

\* The sum of a window's data is its last byte.
SumTakesLastToo(window) == window = Zeros(DataLen)
SumIsRight(window) ==
  \/ window = Zeros(DataLen)
  \/ \E f \in 1..Frames : window = Frame(f)

\* What the parser marks: where the last window starts, whether it is still open,
\* and whether a frame has been seen.
Mark == [begin : Nat, findStart : BOOLEAN, valid : BOOLEAN]

\* One turn of the loop of ParserReceiveData, over the byte at end: it starts a
\* window, or closes the one of the DataLen bytes before it, and is then looked at
\* no further.
LookedStaysOpen(p, buf, end) ==
  IF IsStx(buf[end]) /\ ~p.findStart
  THEN [begin |-> end, findStart |-> TRUE, valid |-> p.valid]
  ELSE IF p.findStart /\ end - p.begin = DataLen /\ SumIsRight(Window(buf, p.begin))
  THEN [begin |-> p.begin, findStart |-> FALSE, valid |-> TRUE]
  ELSE p
Looked(p, buf, end) ==
  IF IsStx(buf[end]) /\ ~p.findStart
  THEN [begin |-> end, findStart |-> TRUE, valid |-> p.valid]
  ELSE IF p.findStart /\ end - p.begin = DataLen
  THEN [begin |-> p.begin, findStart |-> FALSE,
        valid |-> p.valid \/ SumIsRight(Window(buf, p.begin))]
  ELSE p

\* ParserReceiveData: one pass over the size bytes of buf.  It always starts at
\* the first of them, and findStart and valid outlive it.  (The turn is applied as a
\* function, and so evaluated once.)
ParserReceiveData(buf, size) ==
  LET Look[end \in 0..size] ==
        IF end = 0 THEN [begin |-> 1, findStart |-> findStart, valid |-> valid]
        ELSE [p \in Mark |-> Looked(p, buf, end)][Look[end - 1]]
  IN Look[size]

\* The ring holds one byte less than it has cells, and a byte that finds it full
\* pushes the oldest out.
PushedNoDiscard(bytes, byte) == Append(bytes, byte)
Pushed(bytes, byte) ==
  IF Len(bytes) + 1 = RingSize THEN Append(Tail(bytes), byte)
  ELSE Append(bytes, byte)

\* memmove: the bytes from begin to size come to the front, and what it does not
\* write over stays behind them.
MovedNowhere(buf, begin, size) == buf
Moved(buf, begin, size) ==
  SubSeq(buf, begin, size) \o SubSeq(buf, size - begin + 2, BufSize)

-----------------------------------------------------------------------------
Init ==
  /\ coming = <<1, 1>>
  /\ ring = <<>>
  /\ events = {}
  /\ tcpOn = TRUE
  /\ reading = FALSE
  /\ rxBuf = Zeros(BufSize)
  /\ uRemain = 0
  /\ findStart = FALSE
  /\ valid = FALSE
  /\ sensorCodeCount = 1
  /\ paced = TRUE

\* No round is running, and the thread has seen every byte there was.
Waiting == sensorCodeCount = 1 /\ ~reading /\ "RX" \notin events

\* rt_hw_serial_isr and plccomm_rx_ind.
RxInterrupt ==
  /\ paced' = (paced /\ (IsStx(coming) => Waiting))
  /\ ring' = Pushed(ring, coming)
  /\ coming' = IF coming[2] < DataLen THEN <<coming[1], coming[2] + 1>>
               ELSE <<(coming[1] % Frames) + 1, 1>>
  /\ events' = events \cup {"RX"}
  /\ UNCHANGED <<tcpOn, reading, rxBuf, uRemain, findStart, valid,
                 sensorCodeCount>>

\* SetSendEvent, called by the Wi-Fi driver while a round is being sent.
SetSendEvent ==
  /\ sensorCodeCount > 1
  /\ events' = events \cup {"INC"}
  /\ UNCHANGED <<coming, ring, tcpOn, reading, rxBuf, uRemain, findStart,
                 valid, sensorCodeCount, paced>>

\* SetTcpStatus, called by the network manager.
SetTcpStatus ==
  /\ tcpOn' = ~tcpOn /\ paced' = FALSE
  /\ UNCHANGED <<coming, ring, events, reading, rxBuf, uRemain, findStart,
                 valid, sensorCodeCount>>

\* The last part of the loop: a packet is made of the front of rxBuf, and the
\* buffer, but neither uRemain nor findStart, is cleared after the last one.
MakePacket ==
  IF sensorCodeCount < Sensors
  THEN sensorCodeCount' = sensorCodeCount + 1 /\ UNCHANGED rxBuf
  ELSE sensorCodeCount' = 1 /\ rxBuf' = Zeros(BufSize)

\* A frame is looked for between rounds, a round goes on when the driver says so.
LooksForFrameEver == tcpOn /\ "RX" \in events
LooksForFrame == tcpOn /\ "RX" \in events /\ sensorCodeCount = 1
GoesOn == tcpOn /\ "INC" \in events /\ sensorCodeCount > 1 /\ ~LooksForFrame

\* plccomm_rx_thread takes its events: they are gone, whether it acts on them or
\* not.
ReceiveEvents ==
  /\ ~reading /\ events # {}
  /\ events' = {}
  /\ \/ /\ LooksForFrame
        /\ reading' = TRUE
        /\ uRemain' = IF BufSize <= uRemain THEN 0 ELSE uRemain
        /\ UNCHANGED <<rxBuf, sensorCodeCount>>
     \/ /\ GoesOn
        /\ MakePacket
        /\ UNCHANGED <<reading, uRemain>>
     \/ /\ ~LooksForFrame /\ ~GoesOn
        /\ UNCHANGED <<reading, rxBuf, uRemain, sensorCodeCount>>
  /\ UNCHANGED <<coming, ring, tcpOn, findStart, valid, paced>>

\* One turn of the read loop that gets bytes: they go behind the ones kept, all
\* of them are looked at again, and those before the last start are dropped.
ReadSome ==
  LET room == BufSize - uRemain
      n    == IF Len(ring) < room THEN Len(ring) ELSE room
      size == uRemain + n
      buf  == SubSeq(rxBuf, 1, uRemain) \o SubSeq(ring, 1, n)
                \o SubSeq(rxBuf, size + 1, BufSize)
      p    == ParserReceiveData(buf, size)
  IN /\ reading /\ n > 0
     /\ ring' = SubSeq(ring, n + 1, Len(ring))
     /\ findStart' = p.findStart
     /\ valid' = p.valid
     /\ uRemain' = size + 1 - p.begin
     /\ rxBuf' = Moved(buf, p.begin, size)
     /\ UNCHANGED <<coming, events, tcpOn, reading, sensorCodeCount, paced>>

\* The turn that gets none ends the loop; a frame seen in it starts a round.
ReadNone ==
  /\ reading /\ (ring = <<>> \/ uRemain = BufSize)
  /\ reading' = FALSE
  /\ valid' = FALSE
  /\ IF valid THEN MakePacket ELSE UNCHANGED <<rxBuf, sensorCodeCount>>
  /\ UNCHANGED <<coming, ring, events, tcpOn, uRemain, findStart, paced>>

Thread == ReceiveEvents \/ ReadSome \/ ReadNone

Next == RxInterrupt \/ SetSendEvent \/ SetTcpStatus \/ Thread

Spec == Init /\ [][Next]_vars

\* The thread runs when it has something to do.  The PLC keeps sending and the
\* driver keeps telling the thread to go on with a round, which they do not owe
\* to this code.
FairSpec == Spec /\ WF_vars(Thread) /\ WF_vars(RxInterrupt)
                 /\ WF_vars(SetSendEvent)

-----------------------------------------------------------------------------
\* Types; the bytes kept never exceed the buffer, and the ring its cells.
TypeOK ==
  /\ coming \in Byte
  /\ ring \in Seq(Byte) /\ Len(ring) < RingSize
  /\ events \subseteq {"RX", "INC"}
  /\ tcpOn \in BOOLEAN /\ reading \in BOOLEAN
  /\ rxBuf \in Seq(Byte \cup {Zero}) /\ Len(rxBuf) = BufSize
  /\ uRemain \in 0..BufSize
  /\ findStart \in BOOLEAN /\ valid \in BOOLEAN
  /\ sensorCodeCount \in 1..Sensors /\ paced \in BOOLEAN

\* The bytes a packet is made of.
PacketBytes == Window(rxBuf, 1)

-----------------------------------------------------------------------------
(* What the thread holds of the line.  Bytes that look like STX come one at a *)
(* time while it is paced, so a window is closed before the next one starts.  *)

Stxs(bytes) == {i \in DOMAIN bytes : IsStx(bytes[i])}
NoStx(bytes) == Stxs(bytes) = {}
OneStx(bytes) == \A i, j \in Stxs(bytes) : i = j
\* A window that starts at one of them is closed by the last at the latest.
NearStxs(bytes) == \A i, j \in Stxs(bytes) : j <= i + DataLen

Following(byte) == IF byte[2] < DataLen THEN <<byte[1], byte[2] + 1>>
                   ELSE <<(byte[1] % Frames) + 1, 1>>

\* The ring holds the last bytes of the line, without a gap.
RingInLine ==
  \A i \in 1..Len(ring) :
    Following(ring[i]) = IF i < Len(ring) THEN ring[i + 1] ELSE coming

IsFrame(window) == \E f \in 1..Frames : window = Frame(f)

\* Nothing of rxBuf counts: it will be read over.
BufferIsFree == uRemain = 0 \/ (~reading /\ uRemain = BufSize)

\* No byte between these positions of rxBuf looks like STX.
NoStxIn(first, last) == \A i \in first..last : ~IsStx(rxBuf[i])

\* A window is open at the front of rxBuf, and what looks like STX lies in it or
\* closes it.
WindowOpen ==
  /\ findStart /\ ~valid /\ uRemain <= DataLen /\ IsStx(rxBuf[1])
  /\ \A i \in Stxs(ring) : uRemain + i <= DataLen + 1
  /\ Waiting => ring = <<>>
\* It has been closed and was not a frame.
WindowBad ==
  /\ ~findStart /\ ~valid /\ uRemain > DataLen /\ IsStx(rxBuf[1])
  /\ ~IsFrame(Window(rxBuf, 1)) /\ NoStxIn(DataLen + 2, uRemain)
\* It was one.
WindowGood ==
  /\ ~findStart /\ valid /\ reading /\ uRemain > DataLen
  /\ IsFrame(Window(rxBuf, 1)) /\ NoStxIn(DataLen + 2, uRemain)
  /\ NoStx(ring)
\* None has been started.
NoWindow == ~findStart /\ ~valid /\ NoStxIn(1, uRemain)

\* Between rounds.
LooksOK ==
  IF BufferIsFree
  THEN ~findStart /\ ~valid /\ NearStxs(ring) /\ (Waiting => OneStx(ring))
  ELSE /\ WindowOpen \/ WindowBad \/ WindowGood \/ NoWindow
       /\ OneStx(ring) /\ (Waiting => NoStx(ring))
\* In a round.
RoundOK ==
  /\ ~reading /\ ~findStart /\ ~valid /\ NoStx(ring)
  /\ IsFrame(Window(rxBuf, 1))

BufferOK ==
  /\ RingInLine
  /\ paced => /\ tcpOn
              /\ IF sensorCodeCount = 1 THEN LooksOK ELSE RoundOK

\* The buffers keep their bounds and, while the PLC is paced, what the thread holds of
\* the line is in order.
FramingInvariant == TypeOK /\ BufferOK

\* Every packet is made of the bytes of one frame, as the PLC sent it, as long as
\* the PLC leaves the thread the time for a round before a byte that looks like STX
\* and the connection stands.  Otherwise a round may mix two frames, read at once,
\* or report a window of zeros, a frame cleared at the end of the round before.
RoundIsOneFrame ==
  [][(paced /\ sensorCodeCount' # sensorCodeCount) =>
       \E f \in 1..Frames : PacketBytes = Frame(f)]_vars

\* The packets of a round are made of the same bytes, however many frames come
\* in while it is sent and whether or not the connection is lost in it.
RoundKeepsItsBytes ==
  [][(sensorCodeCount > 1 /\ sensorCodeCount' > 1) => PacketBytes' = PacketBytes]_vars

\* The thread keeps up with the line: the ring is not about to lose a byte.
KeepsUp == tcpOn /\ Len(ring) < RingSize - 1

\* However the bytes of a frame look, whatever was pushed out of the ring before
\* and whatever the last round left in the buffer: a parser that keeps up with a
\* PLC that keeps sending does not look for a frame forever, and the round it
\* starts ends.  The read loop, faster than a line of 19200 baud, must find the
\* ring empty now and then.
RoundsKeepStarting ==
  []<>~reading => /\ []<>(~KeepsUp \/ sensorCodeCount > 1)
                  /\ []<>(~tcpOn \/ sensorCodeCount = 1)
=============================================================================
