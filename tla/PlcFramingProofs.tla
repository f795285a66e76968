-------------------------- MODULE PlcFramingProofs --------------------------
(***************************************************************************)
(* Proofs about PlcFraming, for every length of the frames and every size  *)
(* of the buffers: types, that a round keeps its bytes, and that they are  *)
(* those of one frame.                                                     *)
(***************************************************************************)
EXTENDS PlcFraming, SequenceTheorems, WellFoundedInduction, TLAPS

-----------------------------------------------------------------------------
(* What the parser does *)

\* A set of numbers that is not empty has a least one.
LEMMA Least ==
  ASSUME NEW T, T \subseteq Nat, T # {}
  PROVE  \E x \in T : \A y \in T : x <= y
<1>1. IsWellFoundedOn(OpToRel(<,Nat), Nat)
  BY NatLessThanWellFounded
<1>2. PICK x \in T : \A y \in T : ~(<<y, x>> \in OpToRel(<,Nat))
  BY <1>1, WFMin
<1>3. \A y \in T : ~(y < x)
  BY <1>2 DEF OpToRel
<1>4. \A y \in T : x <= y
  BY ONLY <1>3, T \subseteq Nat, x \in T
<1> QED BY ONLY <1>4, x \in T

\* What the loop starts with, and what it has after every byte.
Start == [begin |-> 1, findStart |-> findStart, valid |-> valid]
Turned(p, buf, end) == [q \in Mark |-> Looked(q, buf, end)][p]
Turns(look, buf, size) ==
  look = [end \in 0..size |-> IF end = 0 THEN Start ELSE Turned(look[end - 1], buf, end)]

\* The loop takes its turns, however many bytes there are.
LEMMA TurnsExist ==
  ASSUME NEW buf, NEW size \in Nat
  PROVE  \E look : Turns(look, buf, size)
<1> DEFINE T == {n \in Nat : ~ \E look : Turns(look, buf, n)}
<1> SUFFICES ASSUME T # {} PROVE FALSE
  OBVIOUS
<1>1. PICK n \in T : \A m \in T : n <= m
  BY Least
<1>2. n # 0
  <2>1. Turns([end \in 0..0 |-> Start], buf, 0)
    BY DEF Turns
  <2> QED BY <1>1, <2>1
<1>3. n - 1 \in Nat /\ n - 1 \notin T /\ n \in Nat
  BY <1>1, <1>2
<1>4. PICK look : Turns(look, buf, n - 1)
  BY <1>3
<1> DEFINE next == [end \in 0..n |-> IF end = n THEN Turned(look[n - 1], buf, n) ELSE look[end]]
<1>5. ASSUME NEW end \in 0..n
      PROVE  next[end] = IF end = 0 THEN Start ELSE Turned(next[end - 1], buf, end)
  <2>1. CASE end = n
    <3>1. n - 1 \in 0..n /\ n - 1 # n
      BY <1>3
    <3>2. next[n - 1] = look[n - 1]
      BY <3>1
    <3>3. next[n] = Turned(look[n - 1], buf, n)
      BY <1>3
    <3> QED BY <1>2, <2>1, <3>2, <3>3
  <2>2. CASE end # n
    <3>1. end \in 0..(n - 1) /\ (end # 0 => end - 1 \in 0..n /\ end - 1 # n)
      BY <1>3, <2>2
    <3>2. look[end] = IF end = 0 THEN Start ELSE Turned(look[end - 1], buf, end)
      BY <1>4, <3>1 DEF Turns
    <3>3. next[end] = look[end] /\ (end # 0 => next[end - 1] = look[end - 1])
      BY <2>2, <3>1
    <3> QED BY <3>2, <3>3
  <2> QED BY <2>1, <2>2
<1>6. next = [end \in 0..n |-> next[end]]
  OBVIOUS
<1> HIDE DEF next
<1>7. Turns(next, buf, n)
  BY <1>5, <1>6 DEF Turns
<1> QED BY <1>1, <1>7

\* One pass of the loop over size bytes.
Passed(look, buf, size) ==
  /\ look[0] = Start
  /\ \A end \in 1..size : look[end] = Looked(look[end - 1], buf, end)

\* What holds before the first byte and is kept by every turn holds after the last.
LEMMA Kept ==
  ASSUME NEW buf, NEW a \in Nat, NEW size \in Nat, a <= size, NEW look, NEW Good,
         look[a] \in Good,
         \A end \in (a + 1)..size : look[end - 1] \in Good => look[end] \in Good
  PROVE  \A end \in a..size : look[end] \in Good
<1> DEFINE T == {n \in a..size : look[n] \notin Good}
<1> SUFFICES ASSUME T # {} PROVE FALSE
  OBVIOUS
<1>1. T \subseteq Nat
  OBVIOUS
<1>2. PICK n \in T : \A m \in T : n <= m
  BY <1>1, Least
<1>3. n \in (a + 1)..size /\ n - 1 \in a..size /\ ~(n <= n - 1)
  <2>1. n \in a..size /\ n # a
    BY <1>2
  <2> QED BY <2>1
<1>4. n - 1 \notin T
  BY <1>2, <1>3
<1>5. look[n - 1] \in Good
  BY <1>3, <1>4
<1> QED BY <1>2, <1>3, <1>5

\* ParserReceiveData is such a pass.
LEMMA Pass ==
  ASSUME findStart \in BOOLEAN, valid \in BOOLEAN, NEW buf, NEW size \in Nat
  PROVE  \E look : Passed(look, buf, size) /\ ParserReceiveData(buf, size) = look[size]
<1> DEFINE look == CHOOSE look : Turns(look, buf, size)
<1>1. Turns(look, buf, size)
  BY TurnsExist
<1>2. ParserReceiveData(buf, size) = look[size]
  BY DEF ParserReceiveData, Turns, Turned, Start
<1> HIDE DEF look
<1>3. /\ look[0] = Start
      /\ \A end \in 1..size : look[end] = Turned(look[end - 1], buf, end)
  <2>1. 0 \in 0..size
    OBVIOUS
  <2>2. \A end \in 1..size : end \in 0..size /\ end # 0
    OBVIOUS
  <2> QED BY <1>1, <2>1, <2>2 DEF Turns
<1>4. ASSUME NEW end \in (0 + 1)..size, look[end - 1] \in Mark
      PROVE  look[end] \in Mark /\ look[end] = Looked(look[end - 1], buf, end)
  <2> DEFINE p == look[end - 1]
  <2>1. p \in Mark /\ end \in 1..size /\ end \in Nat
    BY <1>4
  <2>2. look[end] = Looked(p, buf, end)
    BY <1>3, <2>1 DEF Turned
  <2> HIDE DEF p
  <2>3. SumIsRight(Window(buf, p.begin)) \in BOOLEAN
    BY DEF SumIsRight
  <2>4. look[end] \in Mark
    BY <2>1, <2>2, <2>3 DEF Looked, Mark
  <2> QED BY <2>2, <2>4 DEF p
<1>5. look[0] \in Mark
  BY <1>3 DEF Start, Mark
<1>6. \A end \in (0 + 1)..size : look[end - 1] \in Mark => look[end] \in Mark
  BY <1>4
<1>7. \A end \in 0..size : look[end] \in Mark
  <2> HIDE DEF Mark
  <2>1. 0 \in Nat /\ 0 <= size
    OBVIOUS
  <2> QED BY <1>5, <1>6, <2>1, Kept
<1>8. Passed(look, buf, size)
  <2>1. \A end \in 1..size : end \in (0 + 1)..size /\ end - 1 \in 0..size
    OBVIOUS
  <2> QED BY <1>3, <1>4, <1>7, <2>1 DEF Passed
<1> QED BY <1>2, <1>8

\* What a pass over size bytes may end with.
Marks(size) == [begin : 1..size, findStart : BOOLEAN, valid : BOOLEAN]

LEMMA PassType ==
  ASSUME findStart \in BOOLEAN, valid \in BOOLEAN, NEW buf, NEW size \in Nat, size # 0,
         NEW look, Passed(look, buf, size)
  PROVE  \A end \in 0..size : look[end] \in Marks(size)
<1>1. look[0] \in Marks(size)
  BY DEF Passed, Start, Marks
<1>2. ASSUME NEW end \in (0 + 1)..size, look[end - 1] \in Marks(size)
      PROVE  look[end] \in Marks(size)
  <2> DEFINE p == look[end - 1]
  <2>1. p \in Marks(size) /\ end \in 1..size
    BY <1>2
  <2>2. look[end] = Looked(p, buf, end)
    BY <2>1 DEF Passed
  <2> HIDE DEF p
  <2>3. SumIsRight(Window(buf, p.begin)) \in BOOLEAN
    BY DEF SumIsRight
  <2> QED BY <2>1, <2>2, <2>3 DEF Looked, Marks
<1>3. \A end \in (0 + 1)..size : look[end - 1] \in Marks(size) => look[end] \in Marks(size)
  BY <1>2
<1>4. 0 \in Nat /\ size \in Nat /\ 0 <= size
  OBVIOUS
<1> HIDE DEF Marks
<1> QED BY ONLY <1>1, <1>3, <1>4, Kept

\* The mark of a window that starts at t, open or closed, when a frame had been seen
\* before it or not.
Opened(t, seen) == [begin |-> t, findStart |-> TRUE, valid |-> seen]
Closed(buf, t, seen) ==
  [begin |-> t, findStart |-> FALSE, valid |-> seen \/ SumIsRight(Window(buf, t))]

\* Where no window is open and no byte looks like STX, nothing is marked.
LEMMA Idle ==
  ASSUME NEW buf, NEW size \in Nat, NEW look, Passed(look, buf, size),
         NEW a \in 0..size, NEW b \in a..size, ~look[a].findStart,
         \A i \in (a + 1)..b : ~IsStx(buf[i])
  PROVE  look[b] = look[a]
<1>1. ASSUME NEW end \in (a + 1)..b, look[end - 1] \in {look[a]}
      PROVE  look[end] \in {look[a]}
  <2>1. end \in 1..size
    OBVIOUS
  <2>2. look[end] = Looked(look[a], buf, end)
    BY <1>1, <2>1 DEF Passed
  <2> QED BY <1>1, <2>2 DEF Looked
<1>2. a \in Nat /\ b \in Nat /\ a <= b /\ b \in a..b
  OBVIOUS
<1>3. \A end \in a..b : look[end] \in {look[a]}
  BY ONLY <1>1, <1>2, Kept
<1> QED BY <1>2, <1>3

\* An open window stays so until DataLen bytes are behind its start.
LEMMA Running ==
  ASSUME NEW buf, NEW size \in Nat, NEW look, Passed(look, buf, size),
         NEW t \in 1..size, NEW seen, NEW a \in 0..size, look[a] = Opened(t, seen),
         NEW b \in a..size, b < t + DataLen
  PROVE  look[b] = look[a]
<1>1. ASSUME NEW end \in (a + 1)..b, look[end - 1] \in {look[a]}
      PROVE  look[end] \in {look[a]}
  <2>1. end \in 1..size /\ end - t # DataLen
    BY FramingConstantsOK DEF FramingConstantsOK
  <2>2. look[end] = Looked(look[a], buf, end)
    BY <1>1, <2>1 DEF Passed
  <2> QED BY <2>1, <2>2 DEF Looked, Opened
<1>2. a \in Nat /\ b \in Nat /\ a <= b /\ b \in a..b
  OBVIOUS
<1>3. \A end \in a..b : look[end] \in {look[a]}
  BY ONLY <1>1, <1>2, Kept
<1> QED BY <1>2, <1>3

\* A byte that looks like STX opens a window where none is open.
LEMMA Opens ==
  ASSUME NEW buf, NEW size \in Nat, NEW look, Passed(look, buf, size),
         NEW t \in 1..size, NEW seen, ~look[t - 1].findStart,
         look[t - 1].valid = seen, IsStx(buf[t])
  PROVE  look[t] = Opened(t, seen)
<1> DEFINE p == look[t - 1]
<1>1. look[t] = Looked(p, buf, t)
  BY DEF Passed
<1>2. ~p.findStart /\ p.valid = seen
  OBVIOUS
<1> HIDE DEF p
<1>3. Looked(p, buf, t) = Opened(t, seen)
  BY <1>2 DEF Looked, Opened
<1> QED BY <1>1, <1>3

\* A window opened at t is closed by the byte DataLen behind it.
LEMMA Closes ==
  ASSUME NEW buf, NEW size \in Nat, NEW look, Passed(look, buf, size),
         NEW t \in 1..size, NEW seen, look[t] = Opened(t, seen), t + DataLen <= size
  PROVE  look[t + DataLen] = Closed(buf, t, seen)
<1> DEFINE end == t + DataLen
<1>1. DataLen \in Nat /\ DataLen > 1
  BY FramingConstantsOK DEF FramingConstantsOK
<1>2. end \in 1..size /\ end - 1 \in t..size /\ end - 1 < t + DataLen /\ end - t = DataLen
      /\ t \in 0..size
  BY <1>1
<1> HIDE DEF end
<1>3. look[end - 1] = look[t]
  <2> DEFINE b == end - 1
  <2>1. /\ size \in Nat /\ Passed(look, buf, size) /\ t \in 1..size /\ t \in 0..size
        /\ look[t] = Opened(t, seen) /\ b \in t..size /\ b < t + DataLen
    BY <1>2
  <2> HIDE DEF b
  <2>2. look[b] = look[t]
    BY ONLY <2>1, Running
  <2> QED BY <2>2 DEF b
<1>4. look[end] = Looked(look[t], buf, end)
  BY <1>2, <1>3 DEF Passed
<1>5. look[end] = Closed(buf, t, seen)
  <2> DEFINE p == look[t]
  <2>1. p = Opened(t, seen)
    OBVIOUS
  <2>2. look[end] = Looked(p, buf, end)
    BY <1>4
  <2>3. p.begin = t /\ p.findStart = TRUE /\ p.valid = seen
    BY <2>1 DEF Opened
  <2> HIDE DEF p
  <2>4. Looked(p, buf, end) = Closed(buf, t, seen)
    BY <1>2, <2>3 DEF Looked, Closed
  <2> QED BY <2>2, <2>4
<1> QED BY <1>5 DEF end

\* The only window of the bytes from t to last: open, or closed with what its sum
\* says.
LEMMA OneWindow ==
  ASSUME NEW buf, NEW size \in Nat, NEW look, Passed(look, buf, size),
         NEW t \in 1..size, NEW seen, look[t] = Opened(t, seen),
         NEW last \in t..size, \A i \in (t + DataLen + 1)..last : ~IsStx(buf[i])
  PROVE  /\ last < t + DataLen => look[last] = Opened(t, seen)
         /\ ~(last < t + DataLen) =>
              look[last] = Closed(buf, t, seen)
<1>1. DataLen \in Nat /\ t \in 0..size
  BY FramingConstantsOK DEF FramingConstantsOK
<1>2. CASE last < t + DataLen
  BY <1>1, <1>2, Running
<1>3. CASE ~(last < t + DataLen)
  <2>1. t + DataLen <= size /\ t + DataLen \in 0..size /\ last \in (t + DataLen)..size
    BY <1>1, <1>3
  <2>2. look[t + DataLen] = Closed(buf, t, seen)
    BY <2>1, Closes
  <2>3. ~look[t + DataLen].findStart
    BY <2>2 DEF Closed
  <2> DEFINE end == t + DataLen
  <2>4. end \in 0..size /\ last \in end..size /\ ~look[end].findStart
        /\ \A i \in (end + 1)..last : ~IsStx(buf[i])
    BY <2>1, <2>3
  <2>5. look[last] = look[end]
    <3> HIDE DEF end
    <3> QED BY ONLY <2>4, Idle, size \in Nat, Passed(look, buf, size)
  <2> QED BY <1>3, <2>2, <2>5
<1> QED BY <1>2, <1>3

-----------------------------------------------------------------------------
(* The bytes that move *)

\* One sequence behind another.
LEMMA Joined ==
  ASSUME NEW S, NEW s \in Seq(S), NEW t \in Seq(S)
  PROVE  /\ s \o t \in Seq(S) /\ Len(s \o t) = Len(s) + Len(t)
         /\ \A i \in 1..Len(s) : (s \o t)[i] = s[i]
         /\ \A i \in 1..Len(t) : (s \o t)[Len(s) + i] = t[i]
OBVIOUS

\* A piece of a sequence.
LEMMA Piece ==
  ASSUME NEW S, NEW s \in Seq(S), NEW a \in Nat, NEW c \in Nat, a <= c, c <= Len(s)
  PROVE  /\ SubSeq(s, a + 1, c) \in Seq(S)
         /\ Len(SubSeq(s, a + 1, c)) = c - a
         /\ \A i \in 1..(c - a) : SubSeq(s, a + 1, c)[i] = s[a + i]
OBVIOUS

Cell == Byte \cup {Zero}
IsBuffer(buf) == buf \in Seq(Cell) /\ Len(buf) = BufSize

\* What ReadSome reads and what it has then.
Room == BufSize - uRemain
Count == IF Len(ring) < Room THEN Len(ring) ELSE Room
Size == uRemain + Count
Filled == SubSeq(rxBuf, 1, uRemain) \o SubSeq(ring, 1, Count) \o SubSeq(rxBuf, Size + 1, BufSize)

\* The bytes kept, and those of the ring behind them.
LEMMA FilledBytes ==
  ASSUME TypeOK
  PROVE  /\ Count \in Nat /\ Count <= Len(ring) /\ Size \in Nat /\ Size <= BufSize
         /\ IsBuffer(Filled)
         /\ \A i \in 1..uRemain : Filled[i] = rxBuf[i]
         /\ \A i \in 1..Count : Filled[uRemain + i] = ring[i]
<1> DEFINE a == SubSeq(rxBuf, 0 + 1, uRemain)
           b == SubSeq(ring, 0 + 1, Count)
           c == SubSeq(rxBuf, Size + 1, BufSize)
<1>1. /\ uRemain \in Nat /\ uRemain <= BufSize /\ BufSize \in Nat
      /\ rxBuf \in Seq(Cell) /\ Len(rxBuf) = BufSize
  BY FramingConstantsOK DEF FramingConstantsOK, TypeOK, Cell
<1>2. ring \in Seq(Cell) /\ Len(ring) \in Nat
  <2>1. ring \in Seq(Byte) /\ Byte \subseteq Cell
    BY DEF TypeOK, Cell
  <2> HIDE DEF Cell
  <2> QED BY <2>1
<1>3. Count \in Nat /\ Count <= Len(ring) /\ Size \in Nat /\ Size <= BufSize
  BY <1>1, <1>2 DEF Count, Room, Size
<1>4. a \in Seq(Cell) /\ Len(a) = uRemain /\ \A i \in 1..uRemain : a[i] = rxBuf[0 + i]
  BY <1>1, Piece
<1>5. b \in Seq(Cell) /\ Len(b) = Count /\ \A i \in 1..Count : b[i] = ring[0 + i]
  BY <1>2, <1>3, Piece
<1>6. c \in Seq(Cell) /\ Len(c) = BufSize - Size
  BY <1>1, <1>3, Piece
<1>7. Filled = (a \o b) \o c
  BY DEF Filled
<1> HIDE DEF a, b, c
<1> DEFINE ab == a \o b
<1>8. /\ ab \in Seq(Cell) /\ Len(ab) = Size
      /\ \A i \in 1..uRemain : ab[i] = a[i]
      /\ \A i \in 1..Count : ab[uRemain + i] = b[i]
  <2>1. uRemain \in Nat /\ Count \in Nat /\ Size = uRemain + Count
    BY <1>1, <1>3 DEF Size
  <2>2. a \in Seq(Cell) /\ Len(a) = uRemain /\ b \in Seq(Cell) /\ Len(b) = Count
    BY <1>4, <1>5
  <2>3. /\ ab \in Seq(Cell) /\ Len(ab) = Len(a) + Len(b)
        /\ \A i \in 1..Len(a) : ab[i] = a[i]
        /\ \A i \in 1..Len(b) : ab[Len(a) + i] = b[i]
    <3> HIDE DEF ab
    <3>1. ab = a \o b
      BY DEF ab
    <3>2. a \in Seq(Cell) /\ b \in Seq(Cell)
      BY <2>2
    <3> QED BY ONLY <3>1, <3>2, Joined
  <2> QED BY ONLY <2>1, <2>2, <2>3
<1> HIDE DEF ab
<1>9. /\ ab \o c \in Seq(Cell) /\ Len(ab \o c) = Size + (BufSize - Size)
      /\ \A i \in 1..Size : (ab \o c)[i] = ab[i]
  <2>1. ab \in Seq(Cell) /\ c \in Seq(Cell)
    BY <1>6, <1>8
  <2>2. /\ ab \o c \in Seq(Cell) /\ Len(ab \o c) = Len(ab) + Len(c)
        /\ \A i \in 1..Len(ab) : (ab \o c)[i] = ab[i]
    BY ONLY <2>1, Joined
  <2> QED BY <1>6, <1>8, <2>2
<1>10. Len(ab \o c) = BufSize
  BY <1>1, <1>3, <1>9
<1>11. Filled = ab \o c
  BY <1>7 DEF ab
<1>12. IsBuffer(Filled)
  BY <1>9, <1>10, <1>11 DEF IsBuffer
<1>13. ASSUME NEW i \in 1..uRemain
       PROVE  Filled[i] = rxBuf[i]
  <2>1. i \in 1..Size /\ 0 + i = i
    BY <1>1, <1>3 DEF Size
  <2> QED BY <1>4, <1>8, <1>9, <1>11, <2>1
<1>14. ASSUME NEW i \in 1..Count
       PROVE  Filled[uRemain + i] = ring[i]
  <2>1. uRemain + i \in 1..Size /\ 0 + i = i
    BY <1>1, <1>3 DEF Size
  <2> QED BY <1>5, <1>8, <1>9, <1>11, <2>1
<1> QED BY <1>3, <1>12, <1>13, <1>14

\* What memmove leaves: the bytes from begin to size at the front.
LEMMA MovedBytes ==
  ASSUME NEW buf, IsBuffer(buf), NEW size \in 1..BufSize, NEW begin \in 1..size
  PROVE  /\ IsBuffer(Moved(buf, begin, size))
         /\ \A i \in 1..(size + 1 - begin) : Moved(buf, begin, size)[i] = buf[(begin - 1) + i]
<1> DEFINE n == size + 1 - begin
           a == SubSeq(buf, (begin - 1) + 1, size)
           b == SubSeq(buf, n + 1, BufSize)
<1>1. BufSize \in Nat /\ buf \in Seq(Cell) /\ Len(buf) = BufSize
  BY FramingConstantsOK DEF FramingConstantsOK, IsBuffer
<1>2. /\ size \in Nat /\ size <= BufSize /\ begin - 1 \in Nat /\ begin - 1 <= size
      /\ n \in Nat /\ n <= BufSize /\ size - (begin - 1) = n
  BY <1>1
<1>3. a \in Seq(Cell) /\ Len(a) = n /\ \A i \in 1..n : a[i] = buf[(begin - 1) + i]
  <2>1. begin - 1 \in Nat /\ size \in Nat /\ begin - 1 <= size /\ size <= Len(buf)
    BY <1>1, <1>2
  <2>2. a \in Seq(Cell) /\ Len(a) = size - (begin - 1)
        /\ \A i \in 1..(size - (begin - 1)) : a[i] = buf[(begin - 1) + i]
    BY ONLY <1>1, <2>1, Piece
  <2> QED BY <1>2, <2>2
<1>4. b \in Seq(Cell) /\ Len(b) = BufSize - n
  <2>1. n \in Nat /\ n <= BufSize /\ BufSize <= Len(buf)
    BY <1>1, <1>2
  <2> HIDE DEF n
  <2> QED BY ONLY <1>1, <2>1, Piece
<1>5. Moved(buf, begin, size) = a \o b
  <2>1. (begin - 1) + 1 = begin /\ size - begin + 2 = n + 1
    BY <1>1
  <2> QED BY <2>1 DEF Moved
<1> HIDE DEF a, b, n
<1>6. /\ a \o b \in Seq(Cell) /\ Len(a \o b) = n + (BufSize - n)
      /\ \A i \in 1..n : (a \o b)[i] = a[i]
  <2>1. a \in Seq(Cell) /\ b \in Seq(Cell)
    BY <1>3, <1>4
  <2>2. /\ a \o b \in Seq(Cell) /\ Len(a \o b) = Len(a) + Len(b)
        /\ \A i \in 1..Len(a) : (a \o b)[i] = a[i]
    BY ONLY <2>1, Joined
  <2> QED BY <1>3, <1>4, <2>2
<1>7. Len(a \o b) = BufSize
  BY <1>1, <1>2, <1>6
<1> QED BY <1>3, <1>5, <1>6, <1>7 DEF IsBuffer, n

\* The ring without its first bytes.
LEMMA RingRest ==
  ASSUME TypeOK, NEW n \in Nat, n <= Len(ring)
  PROVE  LET rest == SubSeq(ring, n + 1, Len(ring))
         IN /\ rest \in Seq(Byte) /\ Len(rest) = Len(ring) - n
            /\ \A i \in 1..Len(rest) : rest[i] = ring[n + i]
<1>1. ring \in Seq(Byte) /\ Len(ring) \in Nat /\ Len(ring) <= Len(ring)
  BY DEF TypeOK
<1> QED BY <1>1, Piece

\* The ring once a byte is pushed: the bytes it held, without the oldest of a full
\* ring, and then that byte.
Dropped == IF Len(ring) + 1 = RingSize THEN 1 ELSE 0
LEMMA PushedBytes ==
  ASSUME TypeOK
  PROVE  /\ Pushed(ring, coming) \in Seq(Byte)
         /\ Len(Pushed(ring, coming)) = Len(ring) + 1 - Dropped
         /\ Len(Pushed(ring, coming)) \in 1..(RingSize - 1)
         /\ Pushed(ring, coming)[Len(Pushed(ring, coming))] = coming
         /\ \A i \in 1..(Len(Pushed(ring, coming)) - 1) :
              i + Dropped \in 1..Len(ring) /\ Pushed(ring, coming)[i] = ring[i + Dropped]
<1>1. ring \in Seq(Byte) /\ coming \in Byte /\ Len(ring) \in Nat /\ Len(ring) < RingSize
  BY DEF TypeOK
<1>2. RingSize \in Nat /\ RingSize > 1
  BY FramingConstantsOK DEF FramingConstantsOK
<1>3. CASE Len(ring) + 1 = RingSize
  <2> DEFINE t == Tail(ring)
  <2>1. ring # <<>> /\ Dropped = 1 /\ Pushed(ring, coming) = Append(t, coming)
    BY <1>1, <1>2, <1>3 DEF Dropped, Pushed
  <2>2. t \in Seq(Byte) /\ Len(t) = Len(ring) - 1 /\ \A i \in 1..Len(t) : t[i] = ring[i + 1]
    BY <1>1, <2>1
  <2> HIDE DEF t
  <2>3. /\ Append(t, coming) \in Seq(Byte) /\ Len(Append(t, coming)) = Len(t) + 1
        /\ Append(t, coming)[Len(t) + 1] = coming
        /\ \A i \in 1..Len(t) : Append(t, coming)[i] = t[i]
    BY <1>1, <2>2
  <2> QED BY <1>1, <1>2, <1>3, <2>1, <2>2, <2>3
<1>4. CASE Len(ring) + 1 # RingSize
  <2>1. Dropped = 0 /\ Pushed(ring, coming) = Append(ring, coming)
    BY <1>4 DEF Dropped, Pushed
  <2>2. /\ Append(ring, coming) \in Seq(Byte) /\ Len(Append(ring, coming)) = Len(ring) + 1
        /\ Append(ring, coming)[Len(ring) + 1] = coming
        /\ \A i \in 1..Len(ring) : Append(ring, coming)[i] = ring[i]
    BY <1>1
  <2> QED BY <1>1, <1>2, <1>4, <2>1, <2>2
<1> QED BY <1>3, <1>4

LEMMA ZerosBuffer == IsBuffer(Zeros(BufSize))
<1>1. BufSize \in Nat
  BY FramingConstantsOK DEF FramingConstantsOK
<1>2. Zeros(BufSize) \in [1..BufSize -> Cell]
  BY DEF Zeros, Cell
<1> QED BY <1>1, <1>2 DEF IsBuffer

-----------------------------------------------------------------------------
(* Types *)

\* One turn of the read loop, in terms of what it has then.
LEMMA ReadSomeReads ==
  ASSUME ReadSome
  PROVE  /\ reading /\ Count > 0
         /\ ring' = SubSeq(ring, Count + 1, Len(ring))
         /\ findStart' = ParserReceiveData(Filled, Size).findStart
         /\ valid' = ParserReceiveData(Filled, Size).valid
         /\ uRemain' = Size + 1 - ParserReceiveData(Filled, Size).begin
         /\ rxBuf' = Moved(Filled, ParserReceiveData(Filled, Size).begin, Size)
         /\ UNCHANGED <<coming, events, tcpOn, reading, sensorCodeCount, paced>>
BY DEF ReadSome, Count, Room, Size, Filled

\* And the pass of the parser over it.
LEMMA ReadPass ==
  ASSUME TypeOK, ReadSome
  PROVE  \E look : Passed(look, Filled, Size) /\ ParserReceiveData(Filled, Size) = look[Size]
<1>1. findStart \in BOOLEAN /\ valid \in BOOLEAN /\ Size \in Nat
  BY FilledBytes DEF TypeOK
<1> QED BY <1>1, Pass

LEMMA MakePacketType ==
  ASSUME TypeOK, MakePacket
  PROVE  sensorCodeCount' \in 1..Sensors /\ IsBuffer(rxBuf')
<1>1. Sensors \in Nat \ {0, 1} /\ sensorCodeCount \in 1..Sensors /\ IsBuffer(rxBuf)
  BY FramingConstantsOK DEF FramingConstantsOK, TypeOK, IsBuffer, Cell
<1>2. CASE sensorCodeCount < Sensors
  BY <1>1, <1>2 DEF MakePacket
<1>3. CASE ~(sensorCodeCount < Sensors)
  BY <1>1, <1>3, ZerosBuffer DEF MakePacket
<1> QED BY <1>2, <1>3

\* What a turn of the read loop leaves, which is never nothing.
LEMMA ReadSomeType ==
  ASSUME TypeOK, ReadSome
  PROVE  TypeOK' /\ uRemain' # 0
<1>1. /\ Count \in Nat /\ Count <= Len(ring) /\ Size \in Nat /\ Size <= BufSize
      /\ IsBuffer(Filled)
  BY FilledBytes
<1>2. Size \in 1..BufSize /\ Size # 0 /\ BufSize \in Nat
  BY <1>1, ReadSomeReads, FramingConstantsOK DEF Size, TypeOK, FramingConstantsOK
<1> DEFINE p == ParserReceiveData(Filled, Size)
<1>3. p \in Marks(Size)
  <2>1. PICK look : Passed(look, Filled, Size) /\ p = look[Size]
    BY ReadPass
  <2>2. findStart \in BOOLEAN /\ valid \in BOOLEAN /\ Size \in 0..Size
    BY <1>1 DEF TypeOK
  <2> HIDE DEF p
  <2> QED BY <1>1, <1>2, <2>1, <2>2, PassType
<1> HIDE DEF p
<1>4. p.begin \in 1..Size /\ p.findStart \in BOOLEAN /\ p.valid \in BOOLEAN
  BY <1>3 DEF Marks
<1>5. IsBuffer(Moved(Filled, p.begin, Size))
  BY <1>1, <1>2, <1>4, MovedBytes
<1>6. /\ findStart' = p.findStart /\ valid' = p.valid
      /\ uRemain' = Size + 1 - p.begin
      /\ rxBuf' = Moved(Filled, p.begin, Size)
  BY ReadSomeReads DEF p
<1>7. ring' \in Seq(Byte) /\ Len(ring') <= Len(ring) /\ Len(ring) \in Nat /\ Len(ring') \in Nat
  <2>1. ring' \in Seq(Byte) /\ Len(ring') = Len(ring) - Count
    BY <1>1, ReadSomeReads, RingRest
  <2>2. Len(ring) \in Nat
    BY DEF TypeOK
  <2> QED BY <1>1, <2>1, <2>2
<1>8. uRemain' \in 0..BufSize /\ uRemain' # 0
  BY <1>2, <1>4, <1>6
<1>9. RingSize \in Nat /\ Len(ring') < RingSize
  BY <1>7, FramingConstantsOK DEF FramingConstantsOK, TypeOK
<1>10. UNCHANGED <<coming, events, tcpOn, reading, sensorCodeCount, paced>>
  BY ReadSomeReads
<1>11. rxBuf' \in Seq(Byte \cup {Zero}) /\ Len(rxBuf') = BufSize
  BY <1>5, <1>6 DEF IsBuffer, Cell
<1> QED BY <1>4, <1>6, <1>7, <1>8, <1>9, <1>10, <1>11 DEF TypeOK

\* The variables have their types, the bytes kept never exceed the buffer and the
\* ring its cells, whatever the bytes of the line and of a buffer not cleared.
THEOREM TypeCorrect == Spec => []TypeOK
<1>1. Init => TypeOK
  <2> SUFFICES ASSUME Init PROVE TypeOK
    OBVIOUS
  <2>1. IsBuffer(rxBuf)
    BY ZerosBuffer DEF Init
  <2>2. coming \in Byte
    BY FramingConstantsOK DEF FramingConstantsOK, Init, Byte
  <2>3. ring \in Seq(Byte) /\ Len(ring) = 0
    BY DEF Init
  <2>4. Len(ring) < RingSize /\ 0 \in 0..BufSize /\ 1 \in 1..Sensors
    BY <2>3, FramingConstantsOK DEF FramingConstantsOK
  <2>5. rxBuf \in Seq(Byte \cup {Zero}) /\ Len(rxBuf) = BufSize
    BY <2>1 DEF IsBuffer, Cell
  <2> QED BY <2>2, <2>3, <2>4, <2>5 DEF Init, TypeOK
<1>2. TypeOK /\ [Next]_vars => TypeOK'
  <2> SUFFICES ASSUME TypeOK, [Next]_vars
               PROVE  TypeOK'
    OBVIOUS
  <2>1. CASE RxInterrupt
    <3>1. coming' \in Byte
      BY <2>1, FramingConstantsOK DEF FramingConstantsOK, RxInterrupt, TypeOK, Byte
    <3>2. ring' \in Seq(Byte) /\ Len(ring') < RingSize
      BY <2>1, PushedBytes, FramingConstantsOK DEF FramingConstantsOK, RxInterrupt
    <3>3. paced' \in BOOLEAN /\ events' \subseteq {"RX", "INC"}
      BY <2>1 DEF RxInterrupt, TypeOK, IsStx, Waiting
    <3> QED BY <2>1, <3>1, <3>2, <3>3 DEF RxInterrupt, TypeOK
  <2>2. CASE SetSendEvent
    BY <2>2 DEF SetSendEvent, TypeOK
  <2>3. CASE SetTcpStatus
    BY <2>3 DEF SetTcpStatus, TypeOK
  <2>4. CASE ReceiveEvents
    <3>1. CASE LooksForFrame /\ reading' = TRUE /\ uRemain' = (IF BufSize <= uRemain THEN 0 ELSE uRemain)
               /\ UNCHANGED <<rxBuf, sensorCodeCount>>
      BY <2>4, <3>1, FramingConstantsOK DEF ReceiveEvents, TypeOK, FramingConstantsOK
    <3>2. CASE MakePacket /\ UNCHANGED <<reading, uRemain>>
      BY <2>4, <3>2, MakePacketType DEF ReceiveEvents, TypeOK, IsBuffer, Cell
    <3>3. CASE UNCHANGED <<reading, rxBuf, uRemain, sensorCodeCount>>
      BY <2>4, <3>3 DEF ReceiveEvents, TypeOK
    <3> QED BY <2>4, <3>1, <3>2, <3>3 DEF ReceiveEvents
  <2>5. CASE ReadSome
    BY <2>5, ReadSomeType
  <2>6. CASE ReadNone
    <3>1. sensorCodeCount' \in 1..Sensors /\ IsBuffer(rxBuf')
      BY <2>6, MakePacketType DEF ReadNone, TypeOK, IsBuffer, Cell
    <3> QED BY <2>6, <3>1 DEF ReadNone, TypeOK, IsBuffer, Cell
  <2>7. CASE UNCHANGED vars
    BY <2>7 DEF vars, TypeOK
  <2>8. QED
    BY <2>1, <2>2, <2>3, <2>4, <2>5, <2>6, <2>7 DEF Next, Thread
<1>3. QED
  BY <1>1, <1>2, PTL DEF Spec

-----------------------------------------------------------------------------
(* A round keeps its bytes *)

\* The thread reads the line only between rounds.
ReadsBetweenRounds == reading => sensorCodeCount = 1

\* The read loop is entered between rounds, and no other step starts a round.
LEMMA ReadsBetweenRoundsHolds == Spec => []ReadsBetweenRounds
<1>1. Init => ReadsBetweenRounds
  BY DEF Init, ReadsBetweenRounds
<1>2. ReadsBetweenRounds /\ [Next]_vars => ReadsBetweenRounds'
  <2> SUFFICES ASSUME ReadsBetweenRounds, [Next]_vars
               PROVE  ReadsBetweenRounds'
    OBVIOUS
  <2>1. CASE RxInterrupt
    BY <2>1 DEF RxInterrupt, ReadsBetweenRounds
  <2>2. CASE SetSendEvent
    BY <2>2 DEF SetSendEvent, ReadsBetweenRounds
  <2>3. CASE SetTcpStatus
    BY <2>3 DEF SetTcpStatus, ReadsBetweenRounds
  <2>4. CASE ReceiveEvents
    <3>1. CASE LooksForFrame /\ UNCHANGED <<rxBuf, sensorCodeCount>>
      BY <3>1 DEF LooksForFrame, ReadsBetweenRounds
    <3>2. CASE UNCHANGED reading
      BY <2>4, <3>2 DEF ReceiveEvents, ReadsBetweenRounds
    <3>3. QED
      BY <2>4, <3>1, <3>2 DEF ReceiveEvents
  <2>5. CASE ReadSome
    BY <2>5 DEF ReadSome, ReadsBetweenRounds
  <2>6. CASE ReadNone
    BY <2>6 DEF ReadNone, ReadsBetweenRounds
  <2>7. CASE UNCHANGED vars
    BY <2>7 DEF vars, ReadsBetweenRounds
  <2>8. QED
    BY <2>1, <2>2, <2>3, <2>4, <2>5, <2>6, <2>7 DEF Next, Thread
<1>3. QED
  BY <1>1, <1>2, PTL DEF Spec

\* However many frames come in while a round is sent, and whether or not the
\* connection is lost in it, its packets are made of the same bytes: within a
\* round only the last step of it writes the buffer.
THEOREM RoundKeepsItsBytesCorrect == Spec => RoundKeepsItsBytes
<1>1. ReadsBetweenRounds /\ [Next]_vars =>
        [(sensorCodeCount > 1 /\ sensorCodeCount' > 1)
           => PacketBytes' = PacketBytes]_vars
  <2> SUFFICES ASSUME ReadsBetweenRounds, [Next]_vars,
                      sensorCodeCount > 1, sensorCodeCount' > 1
               PROVE  rxBuf' = rxBuf
    BY DEF PacketBytes
  <2>1. CASE RxInterrupt
    BY <2>1 DEF RxInterrupt
  <2>2. CASE SetSendEvent
    BY <2>2 DEF SetSendEvent
  <2>3. CASE SetTcpStatus
    BY <2>3 DEF SetTcpStatus
  <2>4. CASE ReceiveEvents
    <3>1. MakePacket => rxBuf' = rxBuf
      BY DEF MakePacket
    <3>2. QED
      BY <2>4, <3>1 DEF ReceiveEvents
  <2>5. ~reading
    BY DEF ReadsBetweenRounds
  <2>6. CASE ReadSome \/ ReadNone
    BY <2>5, <2>6 DEF ReadSome, ReadNone
  <2>7. CASE UNCHANGED vars
    BY <2>7 DEF vars
  <2>8. QED
    BY <2>1, <2>2, <2>3, <2>4, <2>6, <2>7 DEF Next, Thread
<1>2. QED
  BY <1>1, ReadsBetweenRoundsHolds, PTL DEF Spec, RoundKeepsItsBytes

-----------------------------------------------------------------------------
(* A round is made of one frame *)

\* The same bytes make the same window.
LEMMA SameWindow ==
  ASSUME NEW s, IsBuffer(s), NEW t, IsBuffer(t), NEW a \in Nat, NEW b \in Nat,
         a + DataLen <= BufSize, b + DataLen <= BufSize,
         \A i \in 1..DataLen : s[a + i] = t[b + i]
  PROVE  Window(s, a + 1) = Window(t, b + 1)
<1> DEFINE v == SubSeq(s, a + 1, a + DataLen)
           w == SubSeq(t, b + 1, b + DataLen)
<1>1. DataLen \in Nat /\ BufSize \in Nat
  BY FramingConstantsOK DEF FramingConstantsOK
<1>2. v \in Seq(Cell) /\ Len(v) = DataLen /\ \A i \in 1..DataLen : v[i] = s[a + i]
  <2>1. a + DataLen \in Nat /\ a <= a + DataLen /\ s \in Seq(Cell) /\ a + DataLen <= Len(s)
        /\ (a + DataLen) - a = DataLen
    BY <1>1 DEF IsBuffer
  <2> DEFINE c == a + DataLen
  <2>2. v \in Seq(Cell) /\ Len(v) = c - a /\ \A i \in 1..(c - a) : v[i] = s[a + i]
    BY <2>1, Piece
  <2> QED BY <2>1, <2>2
<1>3. w \in Seq(Cell) /\ Len(w) = DataLen /\ \A i \in 1..DataLen : w[i] = t[b + i]
  <2>1. b + DataLen \in Nat /\ b <= b + DataLen /\ t \in Seq(Cell) /\ b + DataLen <= Len(t)
        /\ (b + DataLen) - b = DataLen
    BY <1>1 DEF IsBuffer
  <2> DEFINE c == b + DataLen
  <2>2. w \in Seq(Cell) /\ Len(w) = c - b /\ \A i \in 1..(c - b) : w[i] = t[b + i]
    BY <2>1, Piece, SMTT(40)
  <2> QED BY <2>1, <2>2
<1>4. Window(s, a + 1) = v /\ Window(t, b + 1) = w
  <2>1. (a + 1) + DataLen - 1 = a + DataLen /\ (b + 1) + DataLen - 1 = b + DataLen
    BY <1>1
  <2> QED BY <2>1 DEF Window
<1> HIDE DEF v, w
<1>5. v = w
  BY <1>2, <1>3, SeqEqual
<1> QED BY <1>4, <1>5

\* A window that starts with what looks like STX is not one of zeros, so its sum
\* is right only for a frame.
LEMMA OnlyFrames ==
  ASSUME NEW buf, IsBuffer(buf), NEW a \in Nat, a + DataLen <= BufSize, IsStx(buf[a + 1])
  PROVE  SumIsRight(Window(buf, a + 1)) <=> IsFrame(Window(buf, a + 1))
<1> DEFINE w == SubSeq(buf, a + 1, a + DataLen)
<1>1. DataLen \in Nat /\ DataLen > 1 /\ StxAt \subseteq 2..DataLen
  BY FramingConstantsOK DEF FramingConstantsOK
<1>2. w[1] = buf[a + 1]
  <2>1. a + DataLen \in Nat /\ a <= a + DataLen /\ buf \in Seq(Cell) /\ a + DataLen <= Len(buf)
        /\ 1 \in 1..((a + DataLen) - a)
    BY <1>1 DEF IsBuffer
  <2> DEFINE c == a + DataLen
  <2>2. \A i \in 1..(c - a) : w[i] = buf[a + i]
    BY <2>1, Piece
  <2> QED BY <2>1, <2>2
<1>3. Window(buf, a + 1) = w
  <2>1. (a + 1) + DataLen - 1 = a + DataLen
    BY <1>1
  <2> QED BY <2>1 DEF Window
<1> HIDE DEF w
<1>4. ~IsStx(Zero)
  BY <1>1 DEF IsStx, Zero
<1>5. Zeros(DataLen)[1] = Zero
  BY <1>1 DEF Zeros
<1>6. w # Zeros(DataLen)
  BY <1>2, <1>4, <1>5
<1> QED BY <1>3, <1>6 DEF SumIsRight, IsFrame

\* What a turn of the read loop makes of the mark of the parser.
LEMMA ReadOutcome ==
  ASSUME TypeOK, ReadSome, NEW p, p = ParserReceiveData(Filled, Size), p.begin \in 1..Size
  PROVE  /\ findStart' = p.findStart /\ valid' = p.valid /\ uRemain' = Size + 1 - p.begin
         /\ IsBuffer(rxBuf')
         /\ \A i \in 1..(Size + 1 - p.begin) : rxBuf'[i] = Filled[(p.begin - 1) + i]
<1>1. /\ findStart' = p.findStart /\ valid' = p.valid /\ uRemain' = Size + 1 - p.begin
      /\ rxBuf' = Moved(Filled, p.begin, Size)
  BY ReadSomeReads
<1>2. IsBuffer(Filled) /\ Size \in 1..BufSize
  BY FilledBytes, FramingConstantsOK DEF FramingConstantsOK
<1>3. /\ IsBuffer(Moved(Filled, p.begin, Size))
      /\ \A i \in 1..(Size + 1 - p.begin) :
           Moved(Filled, p.begin, Size)[i] = Filled[(p.begin - 1) + i]
  BY <1>2, MovedBytes
<1> QED BY <1>1, <1>3

\* A window that starts at t, without a byte behind it that looks like STX: still
\* open, or closed, a frame or not.
LEMMA ReadWindow ==
  ASSUME TypeOK, ReadSome,
         NEW look, Passed(look, Filled, Size), ParserReceiveData(Filled, Size) = look[Size],
         NEW t \in 1..Size, NEW seen, look[t] = Opened(t, seen), IsStx(Filled[t]),
         \A i \in (t + DataLen + 1)..Size : ~IsStx(Filled[i])
  PROVE  /\ uRemain' = Size + 1 - t /\ IsStx(rxBuf'[1])
         /\ Size < t + DataLen => findStart' = TRUE /\ valid' = seen
         /\ ~(Size < t + DataLen) =>
              /\ findStart' = FALSE
              /\ valid' = (seen \/ IsFrame(Window(Filled, t)))
              /\ Window(rxBuf', 1) = Window(Filled, t)
              /\ \A i \in (DataLen + 2)..(Size + 1 - t) : ~IsStx(rxBuf'[i])
<1>1. /\ Size \in Nat /\ Size <= BufSize /\ IsBuffer(Filled)
      /\ DataLen \in Nat /\ DataLen > 1 /\ BufSize \in Nat
  BY FilledBytes, FramingConstantsOK DEF FramingConstantsOK
<1>2. /\ Size < t + DataLen => look[Size] = Opened(t, seen)
      /\ ~(Size < t + DataLen) =>
           look[Size] = Closed(Filled, t, seen)
  <2>1. Size \in t..Size /\ Size \in Nat
    BY <1>1
  <2> QED BY <2>1, OneWindow
<1>3. 1 \in 1..(Size + 1 - t) /\ (t - 1) + 1 = t
  BY <1>1
<1>4. CASE Size < t + DataLen
  <2>1. /\ findStart' = TRUE /\ valid' = seen /\ uRemain' = Size + 1 - t
        /\ \A i \in 1..(Size + 1 - t) : rxBuf'[i] = Filled[(t - 1) + i]
    <3> DEFINE p == look[Size]
    <3>1. p.begin = t /\ p.findStart = TRUE /\ p.valid = seen
      BY <1>2, <1>4 DEF Opened
    <3>2. p = ParserReceiveData(Filled, Size) /\ p.begin \in 1..Size
      BY <3>1
    <3> HIDE DEF p
    <3> QED BY <3>1, <3>2, ReadOutcome
  <2>2. rxBuf'[1] = Filled[t]
    BY <1>3, <2>1
  <2> QED BY <1>4, <2>1, <2>2
<1>5. CASE ~(Size < t + DataLen)
  <2> DEFINE good == seen \/ SumIsRight(Window(Filled, t))
             a == t - 1
  <2>1. /\ findStart' = FALSE /\ valid' = good /\ uRemain' = Size + 1 - t
        /\ IsBuffer(rxBuf')
        /\ \A i \in 1..(Size + 1 - t) : rxBuf'[i] = Filled[(t - 1) + i]
    <3> DEFINE p == look[Size]
    <3>1. p.begin = t /\ p.findStart = FALSE /\ p.valid = good
      BY <1>2, <1>5 DEF Closed
    <3>2. p = ParserReceiveData(Filled, Size) /\ p.begin \in 1..Size
      BY <3>1
    <3> HIDE DEF p, good
    <3> QED BY <3>1, <3>2, ReadOutcome
  <2>2. rxBuf'[1] = Filled[t]
    BY <1>3, <2>1
  <2>3. a \in Nat /\ a + 1 = t /\ a + DataLen <= BufSize /\ 0 + DataLen <= BufSize /\ 0 \in Nat
        /\ 0 + 1 = 1
    BY <1>1, <1>5
  <2>4. \A i \in 1..DataLen : rxBuf'[0 + i] = Filled[a + i]
    <3>1. \A i \in 1..DataLen : i \in 1..(Size + 1 - t) /\ 0 + i = i
      BY <1>1, <1>5
    <3> QED BY <2>1, <3>1
  <2>5. SumIsRight(Window(Filled, t)) <=> IsFrame(Window(Filled, t))
    <3> HIDE DEF a
    <3>1. SumIsRight(Window(Filled, a + 1)) <=> IsFrame(Window(Filled, a + 1))
      BY <1>1, <2>3, OnlyFrames
    <3> QED BY <2>3, <3>1
  <2>6. Window(rxBuf', 1) = Window(Filled, t)
    <3> HIDE DEF a
    <3>1. Window(rxBuf', 0 + 1) = Window(Filled, a + 1)
      BY <1>1, <2>1, <2>3, <2>4, SameWindow
    <3> QED BY <2>3, <3>1
  <2>7. \A i \in (DataLen + 2)..(Size + 1 - t) : ~IsStx(rxBuf'[i])
    <3>1. ASSUME NEW i \in (DataLen + 2)..(Size + 1 - t)
          PROVE  ~IsStx(rxBuf'[i])
      <4>1. i \in 1..(Size + 1 - t) /\ (t - 1) + i \in (t + DataLen + 1)..Size
        BY <1>1
      <4>2. rxBuf'[i] = Filled[(t - 1) + i]
        BY <2>1, <4>1
      <4> QED BY <4>1, <4>2
    <3> QED BY <3>1
  <2>8. valid' = (seen \/ IsFrame(Window(Filled, t)))
    BY <2>1, <2>5
  <2> QED BY <1>5, <2>1, <2>2, <2>6, <2>7, <2>8
<1> QED BY <1>4, <1>5

\* Positions of a sequence that look like STX.
LEMMA StxsOf ==
  ASSUME NEW bytes \in Seq(Byte), NEW i
  PROVE  i \in Stxs(bytes) <=> (i \in 1..Len(bytes) /\ IsStx(bytes[i]))
BY DEF Stxs

\* What the ring keeps of them when its first bytes are read.
LEMMA RestStxs ==
  ASSUME TypeOK, ReadSome
  PROVE  /\ Count \in Nat /\ Count <= Len(ring) /\ Len(ring) \in Nat
         /\ ring' \in Seq(Byte) /\ Len(ring') = Len(ring) - Count
         /\ \A i \in 1..Len(ring') : ring'[i] = ring[Count + i]
         /\ \A i : i \in Stxs(ring)' <=> (i \in 1..Len(ring') /\ Count + i \in Stxs(ring))
<1>1. Count \in Nat /\ Count <= Len(ring) /\ ring \in Seq(Byte) /\ Len(ring) \in Nat
  BY FilledBytes DEF TypeOK
<1>2. /\ ring' \in Seq(Byte) /\ Len(ring') = Len(ring) - Count
      /\ \A i \in 1..Len(ring') : ring'[i] = ring[Count + i]
  BY <1>1, ReadSomeReads, RingRest
<1>3. ASSUME NEW i
      PROVE  i \in Stxs(ring)' <=> (i \in 1..Len(ring') /\ Count + i \in Stxs(ring))
  <2>1. i \in Stxs(ring)' <=> (i \in 1..Len(ring') /\ IsStx(ring'[i]))
    BY <1>2 DEF Stxs
  <2>2. i \in 1..Len(ring') => ring'[i] = ring[Count + i] /\ Count + i \in 1..Len(ring)
    BY <1>1, <1>2
  <2>3. Count + i \in Stxs(ring) <=> (Count + i \in 1..Len(ring) /\ IsStx(ring[Count + i]))
    BY <1>1, StxsOf
  <2> QED BY <2>1, <2>2, <2>3
<1> QED BY <1>1, <1>2, <1>3

\* A window that starts at t, the first in which a frame can be seen.
LEMMA NewWindow ==
  ASSUME TypeOK, ReadSome, ~valid,
         NEW look, Passed(look, Filled, Size), ParserReceiveData(Filled, Size) = look[Size],
         NEW t \in 1..Size, look[t] = Opened(t, valid), IsStx(Filled[t]),
         \A i \in (t + DataLen + 1)..Size : ~IsStx(Filled[i]),
         \A i \in Stxs(ring)' : (Size + 1 - t) + i <= DataLen + 1
  PROVE  (WindowOpen \/ WindowBad \/ WindowGood)'
<1>1. /\ uRemain' = Size + 1 - t /\ IsStx(rxBuf'[1])
      /\ Size < t + DataLen => findStart' = TRUE /\ valid' = valid
      /\ ~(Size < t + DataLen) =>
           /\ findStart' = FALSE
           /\ valid' = (valid \/ IsFrame(Window(Filled, t)))
           /\ Window(rxBuf', 1) = Window(Filled, t)
           /\ \A i \in (DataLen + 2)..(Size + 1 - t) : ~IsStx(rxBuf'[i])
  BY ReadWindow
<1>2. /\ Size \in Nat /\ DataLen \in Nat /\ DataLen > 1 /\ uRemain' \in Nat
      /\ valid = FALSE
  BY <1>1, FilledBytes, FramingConstantsOK DEF FramingConstantsOK, TypeOK
<1>3. reading' /\ ~Waiting'
  BY ReadSomeReads DEF Waiting
<1>4. CASE Size < t + DataLen
  <2>1. findStart' /\ ~valid' /\ uRemain' <= DataLen /\ IsStx(rxBuf'[1])
    BY <1>1, <1>2, <1>4
  <2>2. \A i \in Stxs(ring)' : uRemain' + i <= DataLen + 1
    BY <1>1
  <2>3. WindowOpen'
    BY <1>3, <2>1, <2>2 DEF WindowOpen
  <2> QED BY <2>3
<1>5. CASE ~(Size < t + DataLen)
  <2>1. ~findStart' /\ uRemain' > DataLen /\ IsStx(rxBuf'[1])
    BY <1>1, <1>2, <1>5
  <2>2. NoStxIn(DataLen + 2, uRemain)'
    BY <1>1, <1>5 DEF NoStxIn
  <2>3. NoStx(ring)'
    <3>1. ASSUME NEW i \in Stxs(ring)'
          PROVE  FALSE
      <4>1. i \in 1..Len(ring') /\ Len(ring') \in Nat
        BY RestStxs
      <4>2. (Size + 1 - t) + i <= DataLen + 1
        BY <3>1
      <4> QED BY <1>2, <1>5, <4>1, <4>2
    <3> QED BY <3>1 DEF NoStx
  <2>4. CASE IsFrame(Window(Filled, t))
    <3>1. valid' /\ IsFrame(Window(rxBuf', 1))
      BY <1>1, <1>5, <2>4
    <3>2. WindowGood'
      BY <1>3, <2>1, <2>2, <2>3, <3>1 DEF WindowGood
    <3> QED BY <3>2
  <2>5. CASE ~IsFrame(Window(Filled, t))
    <3>1. ~valid' /\ ~IsFrame(Window(rxBuf', 1))
      BY <1>1, <1>2, <1>5, <2>5
    <3>2. WindowBad'
      BY <2>1, <2>2, <3>1 DEF WindowBad
    <3> QED BY <3>2
  <2> QED BY <2>4, <2>5
<1> QED BY <1>4, <1>5

\* Nothing that looks like STX has been kept or is read.
LEMMA NoneStarted ==
  ASSUME TypeOK, ReadSome, ~findStart, ~valid, \A i \in 1..Size : ~IsStx(Filled[i])
  PROVE  NoWindow' /\ uRemain' = Size
<1>1. Size \in Nat /\ Size \in 1..Size /\ uRemain \in Nat
  BY FilledBytes, ReadSomeReads DEF Size, TypeOK
<1>2. PICK look : Passed(look, Filled, Size) /\ ParserReceiveData(Filled, Size) = look[Size]
  BY ReadPass
<1>3. look[0] = Start /\ ~look[0].findStart
  BY <1>2 DEF Passed, Start
<1>4. look[Size] = look[0]
  <2>1. 0 \in 0..Size /\ Size \in 0..Size /\ \A i \in (0 + 1)..Size : ~IsStx(Filled[i])
    BY <1>1
  <2> QED BY <1>1, <1>2, <1>3, <2>1, Idle
<1> DEFINE p == look[Size]
<1>5. p = ParserReceiveData(Filled, Size) /\ p.begin = 1 /\ ~p.findStart /\ ~p.valid
  BY <1>2, <1>3, <1>4 DEF Start
<1> HIDE DEF p
<1>6. /\ findStart' = p.findStart /\ valid' = p.valid /\ uRemain' = Size + 1 - p.begin
      /\ \A i \in 1..(Size + 1 - p.begin) : rxBuf'[i] = Filled[(p.begin - 1) + i]
  BY <1>1, <1>5, ReadOutcome
<1>7. uRemain' = Size /\ \A i \in 1..Size : rxBuf'[i] = Filled[i]
  <2>1. Size + 1 - 1 = Size /\ \A i \in 1..Size : (1 - 1) + i = i
    BY <1>1
  <2> QED BY <1>5, <1>6, <2>1
<1>8. NoStxIn(1, uRemain)'
  BY <1>7 DEF NoStxIn
<1> QED BY <1>5, <1>6, <1>7, <1>8 DEF NoWindow

\* A window of the bytes kept is still the same one once more are read behind it.
LEMMA FrontKept ==
  ASSUME TypeOK, uRemain > DataLen
  PROVE  Window(Filled, 1) = Window(rxBuf, 1)
<1>1. /\ IsBuffer(Filled) /\ IsBuffer(rxBuf) /\ uRemain \in 0..BufSize
      /\ \A i \in 1..uRemain : Filled[i] = rxBuf[i]
  BY FilledBytes DEF TypeOK, IsBuffer, Cell
<1>2. DataLen \in Nat /\ BufSize \in Nat /\ 0 \in Nat /\ 0 + DataLen <= BufSize /\ 0 + 1 = 1
  BY FramingConstantsOK DEF FramingConstantsOK
<1>3. \A i \in 1..DataLen : Filled[0 + i] = rxBuf[0 + i]
  <2>1. \A i \in 1..DataLen : i \in 1..uRemain /\ 0 + i = i
    BY <1>1, <1>2
  <2> QED BY <1>1, <2>1
<1>4. Window(Filled, 0 + 1) = Window(rxBuf, 0 + 1)
  BY <1>1, <1>2, <1>3, SameWindow
<1> QED BY <1>2, <1>4

\* Everything kept, and all the ring brings, at its place.
LEMMA ReadPlaces ==
  ASSUME TypeOK, ReadSome
  PROVE  /\ Size = uRemain + Count /\ Size \in Nat /\ Size # 0 /\ Count \in Nat /\ Count # 0
         /\ uRemain \in Nat /\ DataLen \in Nat /\ DataLen > 1
         /\ \A i \in 1..uRemain : i \in 1..Size /\ Filled[i] = rxBuf[i]
         /\ \A i \in 1..Count : i \in 1..Len(ring) /\ (IsStx(Filled[uRemain + i]) <=> i \in Stxs(ring))
         /\ \A j \in 1..Size : j \in 1..uRemain \/ (j - uRemain \in 1..Count /\ uRemain + (j - uRemain) = j)
<1>1. /\ Count \in Nat /\ Count <= Len(ring) /\ Count > 0 /\ Size = uRemain + Count
      /\ uRemain \in Nat /\ Len(ring) \in Nat /\ ring \in Seq(Byte)
  BY FilledBytes, ReadSomeReads DEF TypeOK, Size
<1>2. DataLen \in Nat /\ DataLen > 1
  BY FramingConstantsOK DEF FramingConstantsOK
<1>3. \A i \in 1..uRemain : i \in 1..Size /\ Filled[i] = rxBuf[i]
  BY <1>1, FilledBytes
<1>4. ASSUME NEW i \in 1..Count
      PROVE  i \in 1..Len(ring) /\ (IsStx(Filled[uRemain + i]) <=> i \in Stxs(ring))
  <2>1. i \in 1..Len(ring) /\ Filled[uRemain + i] = ring[i]
    BY <1>1, FilledBytes
  <2> QED BY <1>1, <2>1, StxsOf
<1>5. \A j \in 1..Size : j \in 1..uRemain \/ (j - uRemain \in 1..Count /\ uRemain + (j - uRemain) = j)
  BY <1>1
<1> QED BY <1>1, <1>2, <1>3, <1>4, <1>5

\* Along the line a byte's position grows up to the end of its frame,
LEMMA Runs ==
  ASSUME NEW bytes \in Seq(Byte), NEW i \in 1..Len(bytes),
         NEW n \in 0..(DataLen - bytes[i][2]), i + n <= Len(bytes),
         \A j \in 1..(Len(bytes) - 1) : Following(bytes[j]) = bytes[j + 1]
  PROVE  bytes[i + n][2] = bytes[i][2] + n
<1>1. DataLen \in Nat /\ DataLen > 1 /\ Len(bytes) \in Nat /\ bytes[i][2] \in 1..DataLen
  <2>1. bytes[i] \in Byte
    OBVIOUS
  <2>2. \A b \in Byte : b[2] \in 1..DataLen
    BY DEF Byte
  <2> QED BY <2>1, <2>2, FramingConstantsOK DEF FramingConstantsOK
<1> DEFINE q == bytes[i][2]
<1>2. q \in 1..DataLen /\ n \in 0..(DataLen - q)
  BY <1>1
<1> DEFINE T == {m \in 0..n : bytes[i + m][2] # q + m}
<1> SUFFICES ASSUME T # {} PROVE FALSE
  BY <1>2
<1>3. T \subseteq Nat
  BY <1>1, <1>2
<1>4. PICK m \in T : \A l \in T : m <= l
  BY <1>3, Least
<1>5. m \in 0..n /\ bytes[i + m][2] # q + m /\ i + 0 = i /\ q + 0 = q
  BY <1>2, <1>4
<1>6. m # 0
  BY <1>5
<1> HIDE DEF q
<1>7. m - 1 \in 0..n /\ ~(m <= m - 1)
  BY ONLY <1>1, <1>2, <1>5, <1>6
<1>8. bytes[i + (m - 1)][2] = q + (m - 1)
  BY <1>4, <1>7
<1> HIDE DEF T
<1> DEFINE j == i + (m - 1)
<1>9. j \in 1..(Len(bytes) - 1) /\ j + 1 = i + m /\ q + (m - 1) < DataLen /\ (q + (m - 1)) + 1 = q + m
  BY <1>1, <1>2, <1>5, <1>6
<1>10. bytes[j][2] < DataLen /\ bytes[j][2] + 1 = q + m /\ Following(bytes[j]) = bytes[j + 1]
  BY <1>8, <1>9
<1> HIDE DEF j
<1>11. bytes[j + 1][2] = bytes[j][2] + 1
  <2>1. Following(bytes[j]) = <<bytes[j][1], bytes[j][2] + 1>>
    BY <1>10 DEF Following
  <2> QED BY <1>10, <2>1
<1> QED BY <1>5, <1>9, <1>10, <1>11

\* and behind the last comes the first of the next frame.
LEMMA NextFrame ==
  ASSUME NEW bytes \in Seq(Byte), NEW i \in 1..Len(bytes), i < Len(bytes), bytes[i][2] = DataLen,
         \A j \in 1..(Len(bytes) - 1) : Following(bytes[j]) = bytes[j + 1]
  PROVE  bytes[i + 1][2] = 1
<1>1. DataLen \in Nat /\ i \in 1..(Len(bytes) - 1)
  BY FramingConstantsOK DEF FramingConstantsOK
<1>2. Following(bytes[i]) = <<(bytes[i][1] % Frames) + 1, 1>>
  BY <1>1 DEF Following
<1> QED BY <1>1, <1>2

\* So bytes look the same, STX or not, from frame to frame,
LEMMA Period ==
  ASSUME NEW bytes \in Seq(Byte), NEW i \in 1..Len(bytes), i + DataLen <= Len(bytes),
         \A j \in 1..(Len(bytes) - 1) : Following(bytes[j]) = bytes[j + 1]
  PROVE  bytes[i + DataLen][2] = bytes[i][2]
<1>1. DataLen \in Nat /\ DataLen > 1 /\ Len(bytes) \in Nat /\ bytes[i][2] \in 1..DataLen
  <2>1. bytes[i] \in Byte
    OBVIOUS
  <2>2. \A b \in Byte : b[2] \in 1..DataLen
    BY DEF Byte
  <2> QED BY <2>1, <2>2, FramingConstantsOK DEF FramingConstantsOK
<1> DEFINE q == bytes[i][2]
           n == DataLen - q
           l == i + n
           k == l + 1
           r == q - 1
<1>2. n \in 0..(DataLen - bytes[i][2]) /\ i + n <= Len(bytes) /\ q + n = DataLen
  BY <1>1
<1>3. bytes[l][2] = DataLen
  <2> HIDE DEF n
  <2>1. bytes[i + n][2] = q + n
    BY <1>2, Runs
  <2> QED BY <1>2, <2>1
<1>4. l \in 1..Len(bytes) /\ l < Len(bytes) /\ k \in 1..Len(bytes)
  <2> DEFINE len == Len(bytes)
  <2>1. /\ q \in 1..DataLen /\ i \in 1..len /\ i + DataLen <= len
        /\ len \in Nat /\ DataLen \in Nat
    BY <1>1
  <2> HIDE DEF q, len
  <2>2. l \in 1..len /\ l < len /\ k \in 1..len
    BY ONLY <2>1
  <2> QED BY <2>2 DEF len
<1>5. bytes[k][2] = 1
  <2> HIDE DEF l
  <2> QED BY <1>3, <1>4, NextFrame
<1>6. r \in 0..(DataLen - bytes[k][2]) /\ k + r <= Len(bytes) /\ 1 + r = q /\ k + r = i + DataLen
  <2>1. q \in 1..DataLen /\ i \in 1..Len(bytes) /\ i + DataLen <= Len(bytes)
    BY <1>1
  <2> HIDE DEF q
  <2>2. r \in 0..(DataLen - 1) /\ k + r <= Len(bytes) /\ 1 + r = q /\ k + r = i + DataLen
    BY ONLY <1>1, <2>1
  <2> HIDE DEF r, k
  <2> QED BY <1>5, <2>2
<1>7. bytes[k + r][2] = bytes[k][2] + r
  <2> HIDE DEF k, r
  <2> QED BY <1>4, <1>6, Runs
<1> QED BY <1>5, <1>6, <1>7

\* and after DataLen of them at most comes one that looks like STX.
LEMMA StxComes ==
  ASSUME NEW bytes \in Seq(Byte), NEW i \in 1..Len(bytes), i + DataLen < Len(bytes),
         \A j \in 1..(Len(bytes) - 1) : Following(bytes[j]) = bytes[j + 1]
  PROVE  \E k \in (i + 1)..(i + DataLen) : k \in Stxs(bytes)
<1>1. DataLen \in Nat /\ DataLen > 1 /\ Len(bytes) \in Nat /\ bytes[i][2] \in 1..DataLen
  <2>1. bytes[i] \in Byte
    OBVIOUS
  <2>2. \A b \in Byte : b[2] \in 1..DataLen
    BY DEF Byte
  <2> QED BY <2>1, <2>2, FramingConstantsOK DEF FramingConstantsOK
<1> DEFINE q == bytes[i][2]
           n == DataLen - q
           l == i + n
<1>2. n \in 0..(DataLen - bytes[i][2]) /\ i + n <= Len(bytes) /\ q + n = DataLen
  BY <1>1
<1>3. bytes[l][2] = DataLen
  <2> HIDE DEF n
  <2>1. bytes[i + n][2] = q + n
    BY <1>2, Runs
  <2> QED BY <1>2, <2>1
<1>4. l \in 1..Len(bytes) /\ l < Len(bytes) /\ l + 1 \in 1..Len(bytes) /\ l + 1 \in (i + 1)..(i + DataLen)
  <2> DEFINE len == Len(bytes)
  <2>1. /\ q \in 1..DataLen /\ i \in 1..len /\ i + DataLen < len
        /\ len \in Nat /\ DataLen \in Nat
    BY <1>1
  <2> HIDE DEF q, len
  <2>2. l \in 1..len /\ l < len /\ l + 1 \in 1..len /\ l + 1 \in (i + 1)..(i + DataLen)
    BY ONLY <2>1
  <2> QED BY <2>2 DEF len
<1> HIDE DEF l
<1>5. IsStx(bytes[l + 1])
  <2>1. bytes[l + 1][2] = 1
    BY <1>3, <1>4, NextFrame
  <2> QED BY <2>1 DEF IsStx
<1> QED BY <1>4, <1>5, StxsOf

\* The line without its gap, as a fact about the ring alone.
LEMMA RingFollows ==
  ASSUME TypeOK, RingInLine
  PROVE  /\ ring \in Seq(Byte) /\ Len(ring) \in Nat
         /\ \A j \in 1..(Len(ring) - 1) : Following(ring[j]) = ring[j + 1]
<1>1. ring \in Seq(Byte) /\ Len(ring) \in Nat
  BY DEF TypeOK
<1>2. \A j \in 1..(Len(ring) - 1) : j \in 1..Len(ring) /\ j < Len(ring)
  BY <1>1
<1> QED BY <1>1, <1>2 DEF RingInLine

\* What is left in the ring after a buffer full of it has been read: what looks like
\* STX in it has another one DataLen before it.
LEMMA RestRepeats ==
  ASSUME TypeOK, RingInLine, ReadSome, uRemain = 0, NEW i \in Stxs(ring)'
  PROVE  /\ i \in Nat /\ i > 0 /\ Count > DataLen
         /\ Count + i \in Stxs(ring) /\ Count + i - DataLen \in Stxs(ring)
<1>1. /\ i \in 1..Len(ring') /\ Count + i \in Stxs(ring) /\ Len(ring') = Len(ring) - Count
      /\ Count \in Nat /\ Len(ring) \in Nat
  BY RestStxs
<1>2. Count > DataLen /\ DataLen \in Nat
  BY <1>1, FramingConstantsOK DEF TypeOK, FramingConstantsOK, Count, Room
<1> DEFINE j == Count + i - DataLen
<1>3. j \in 1..Len(ring) /\ j + DataLen = Count + i /\ j + DataLen <= Len(ring)
  BY <1>1, <1>2
<1>4. Count + i - DataLen = j
  OBVIOUS
<1> HIDE DEF j
<1>5. ring[j + DataLen][2] = ring[j][2]
  BY <1>3, RingFollows, Period
<1>6. IsStx(ring[j])
  <2>1. IsStx(ring[j + DataLen])
    BY <1>1, <1>3, RingFollows, StxsOf
  <2> QED BY <1>5, <2>1 DEF IsStx
<1>7. j \in Stxs(ring)
  BY <1>3, <1>6, RingFollows, StxsOf
<1> QED BY <1>1, <1>2, <1>4, <1>7

\* The buffer was free: the first byte of the ring that looks like STX is read and
\* starts the window.
LEMMA ReadFree ==
  ASSUME TypeOK, RingInLine, ReadSome, uRemain = 0, ~findStart, ~valid, NearStxs(ring)
  PROVE  (WindowOpen \/ WindowBad \/ WindowGood \/ NoWindow)' /\ OneStx(ring)'
<1> USE ReadPlaces
<1>1. ASSUME NEW i \in Stxs(ring)', NEW j \in Stxs(ring)', i < j
      PROVE  FALSE
  <2>1. /\ i \in Nat /\ j \in Nat /\ Count + j \in Stxs(ring) /\ Count + i - DataLen \in Stxs(ring)
    BY <1>1, RestRepeats
  <2>2. Count + j <= (Count + i - DataLen) + DataLen
    BY <2>1 DEF NearStxs
  <2> QED BY <1>1, <2>1, <2>2
<1>2. \A i \in Stxs(ring)' : i \in Nat
  BY RestRepeats
<1>3. OneStx(ring)'
  <2>1. ASSUME NEW i \in Stxs(ring)', NEW j \in Stxs(ring)' PROVE i = j
    BY <1>1, <1>2, <2>1
  <2> QED BY <2>1 DEF OneStx
<1>4. \A i \in 1..Size : IsStx(Filled[i]) <=> i \in Stxs(ring)
  <2>1. Size = Count /\ \A i \in 1..Size : 0 + i = i
    OBVIOUS
  <2> QED BY <2>1
<1>5. CASE \A i \in 1..Size : ~IsStx(Filled[i])
  BY <1>3, <1>5, NoneStarted
<1>6. CASE \E i \in 1..Size : IsStx(Filled[i])
  <2> DEFINE T == {i \in 1..Size : IsStx(Filled[i])}
  <2>1. T \subseteq Nat /\ T # {}
    BY <1>6
  <2>2. PICK t \in T : \A i \in T : t <= i
    BY <2>1, Least
  <2>3. t \in 1..Size /\ IsStx(Filled[t]) /\ t - 1 \in 0..Size /\ t \in Nat
    BY <2>2
  <2>4. PICK look : Passed(look, Filled, Size) /\ ParserReceiveData(Filled, Size) = look[Size]
    BY ReadPass
  <2>5. look[0] = Start /\ ~look[0].findStart /\ look[0].valid = valid
    BY <2>4 DEF Passed, Start
  <2>6. look[t - 1] = look[0]
    <3>1. ASSUME NEW i \in (0 + 1)..(t - 1) PROVE ~IsStx(Filled[i])
      <4>1. i \in 1..Size /\ ~(t <= i)
        BY <2>3
      <4> QED BY <2>2, <4>1
    <3> DEFINE b == t - 1
    <3>2. Size \in Nat /\ 0 \in 0..Size /\ b \in 0..Size /\ \A i \in (0 + 1)..b : ~IsStx(Filled[i])
      BY <2>3, <3>1
    <3> HIDE DEF b
    <3>3. look[b] = look[0]
      BY ONLY <2>4, <2>5, <3>2, Idle
    <3> QED BY <3>3 DEF b
  <2>7. look[t] = Opened(t, valid)
    BY <2>3, <2>4, <2>5, <2>6, Opens
  <2>8. ASSUME NEW j \in (t + DataLen + 1)..Size PROVE ~IsStx(Filled[j])
    <3>1. j \in 1..Size /\ ~(j <= t + DataLen)
      BY <2>3
    <3> QED BY <1>4, <2>3, <3>1 DEF NearStxs
  <2>9. ASSUME NEW i \in Stxs(ring)'
        PROVE  (Size + 1 - t) + i <= DataLen + 1
    <3>1. i \in Nat /\ Count + i \in Stxs(ring) /\ t \in Stxs(ring) /\ Size = Count
      BY <1>4, <2>3, RestRepeats
    <3>2. Count + i <= t + DataLen
      BY <3>1 DEF NearStxs
    <3> QED BY <2>3, <3>1, <3>2
  <2>10. (WindowOpen \/ WindowBad \/ WindowGood)'
    BY <2>3, <2>4, <2>7, <2>8, <2>9, NewWindow
  <2> QED BY <1>3, <2>10
<1> QED BY <1>5, <1>6

\* An open window goes on.
LEMMA ReadOpen ==
  ASSUME TypeOK, ReadSome, uRemain # 0, WindowOpen
  PROVE  (WindowOpen \/ WindowBad \/ WindowGood)'
<1> USE ReadPlaces
<1>1. findStart = TRUE /\ ~valid /\ uRemain <= DataLen /\ IsStx(rxBuf[1])
      /\ \A i \in Stxs(ring) : uRemain + i <= DataLen + 1
  BY DEF WindowOpen, TypeOK
<1>2. PICK look : Passed(look, Filled, Size) /\ ParserReceiveData(Filled, Size) = look[Size]
  BY ReadPass
<1>3. look[0] = Opened(1, valid)
  BY <1>1, <1>2 DEF Passed, Start, Opened
<1>4. 1 \in 1..Size /\ 1 \in 0..Size /\ 0 \in 0..Size /\ 1 < 1 + DataLen /\ 1 \in 1..uRemain
  OBVIOUS
<1>5. look[1] = Opened(1, valid)
  <2>1. Size \in Nat /\ 1 \in 0..Size
    OBVIOUS
  <2> QED BY ONLY <1>2, <1>3, <1>4, <2>1, Running
<1>6. IsStx(Filled[1])
  BY <1>1, <1>4
<1>7. ASSUME NEW j \in (1 + DataLen + 1)..Size PROVE ~IsStx(Filled[j])
  <2>1. j \in 1..Size /\ ~(j <= uRemain) /\ ~(j <= DataLen + 1)
    BY <1>1
  <2>2. j - uRemain \in 1..Count /\ uRemain + (j - uRemain) = j
    BY <2>1
  <2> QED BY <1>1, <2>1, <2>2
<1>8. ASSUME NEW i \in Stxs(ring)' PROVE (Size + 1 - 1) + i <= DataLen + 1
  <2>1. Count + i \in Stxs(ring) /\ i \in Nat
    BY RestStxs
  <2>2. uRemain + (Count + i) <= DataLen + 1
    BY <1>1, <2>1
  <2> QED BY <2>1, <2>2
<1> QED BY <1>1, <1>2, <1>4, <1>5, <1>6, <1>7, <1>8, NewWindow

\* No window is open where the one byte of the ring that looks like STX comes.
LEMMA ReadLater ==
  ASSUME TypeOK, ReadSome, ~valid, OneStx(ring),
         NEW look, Passed(look, Filled, Size), ParserReceiveData(Filled, Size) = look[Size],
         NEW k \in 1..Count, k \in Stxs(ring),
         ~look[uRemain + k - 1].findStart, look[uRemain + k - 1].valid = valid
  PROVE  (WindowOpen \/ WindowBad \/ WindowGood)'
<1> USE ReadPlaces
<1> DEFINE t == uRemain + k
<1>1. t \in 1..Size /\ IsStx(Filled[t]) /\ t > uRemain
  OBVIOUS
<1>2. look[t] = Opened(t, valid)
  <2>1. ~look[t - 1].findStart /\ look[t - 1].valid = valid
    OBVIOUS
  <2> HIDE DEF t
  <2> QED BY <1>1, <2>1, Opens, SMTT(40)
<1>3. ASSUME NEW j \in (t + DataLen + 1)..Size PROVE ~IsStx(Filled[j])
  <2>1. j \in 1..Size /\ ~(j \in 1..uRemain) /\ j - uRemain # k
    BY <1>1
  <2>2. j - uRemain \in 1..Count /\ uRemain + (j - uRemain) = j
    BY <2>1
  <2> HIDE DEF t
  <2> QED BY <2>1, <2>2 DEF OneStx
<1>4. ASSUME NEW i \in Stxs(ring)' PROVE (Size + 1 - t) + i <= DataLen + 1
  <2>1. Count + i \in Stxs(ring) /\ i \in 1..Len(ring') /\ Len(ring') \in Nat
    BY RestStxs
  <2>2. Count + i = k
    BY <2>1 DEF OneStx
  <2> QED BY <2>1, <2>2
<1> HIDE DEF t
<1> QED BY <1>1, <1>2, <1>3, <1>4, NewWindow

\* A window that was no frame is looked at again, and the next one starts behind it.
LEMMA ReadBad ==
  ASSUME TypeOK, ReadSome, WindowBad, OneStx(ring)
  PROVE  (WindowOpen \/ WindowBad \/ WindowGood)'
<1> USE ReadPlaces
<1>1. /\ findStart = FALSE /\ valid = FALSE /\ uRemain > DataLen /\ IsStx(rxBuf[1])
      /\ ~IsFrame(Window(rxBuf, 1))
      /\ \A i \in (DataLen + 2)..uRemain : ~IsStx(rxBuf[i])
  BY DEF WindowBad, TypeOK, NoStxIn
<1>2. PICK look : Passed(look, Filled, Size) /\ ParserReceiveData(Filled, Size) = look[Size]
  BY ReadPass
<1>3. ~look[1 - 1].findStart /\ look[1 - 1].valid = valid
  BY <1>1, <1>2 DEF Passed, Start
<1>4. 1 \in 1..Size /\ 1 \in 1..uRemain /\ Size \in Nat /\ Size > DataLen
  BY <1>1
<1>5. IsStx(Filled[1])
  BY <1>1, <1>4
<1>6. look[1] = Opened(1, valid)
  BY ONLY <1>2, <1>3, <1>4, <1>5, Opens
<1>7. Window(Filled, 1) = Window(rxBuf, 1)
  BY <1>1, FrontKept
<1>8. CASE \E k \in 1..Count : k \in Stxs(ring)
  <2>1. PICK k \in 1..Count : k \in Stxs(ring)
    BY <1>8
  <2> DEFINE last == uRemain + k - 1
  <2>2. last \in 1..Size /\ ~(last < 1 + DataLen)
    BY <1>1
  <2>3. ASSUME NEW j \in (1 + DataLen + 1)..last PROVE ~IsStx(Filled[j])
    <3>1. j \in 1..Size /\ j - uRemain # k
      BY <1>1
    <3>2. CASE j \in 1..uRemain
      <4>1. j \in (DataLen + 2)..uRemain
        BY <3>2
      <4> QED BY <1>1, <3>2, <4>1
    <3>3. CASE ~(j \in 1..uRemain)
      <4>1. j - uRemain \in 1..Count /\ uRemain + (j - uRemain) = j
        BY <3>1, <3>3
      <4> QED BY <2>1, <3>1, <4>1 DEF OneStx
    <3> HIDE DEF last
    <3> QED BY <3>2, <3>3
  <2> HIDE DEF last
  <2>4. look[last] = Closed(Filled, 1, valid)
    BY ONLY <1>2, <1>4, <1>6, <2>2, <2>3, OneWindow
  <2>5. SumIsRight(Window(Filled, 0 + 1)) <=> IsFrame(Window(Filled, 0 + 1))
    <3>1. IsBuffer(Filled) /\ 0 \in Nat /\ 0 + DataLen <= BufSize /\ IsStx(Filled[0 + 1])
      BY <1>5, FilledBytes, FramingConstantsOK DEF FramingConstantsOK
    <3> QED BY <3>1, OnlyFrames
  <2>6. ~SumIsRight(Window(Filled, 1))
    BY <1>1, <1>7, <2>5
  <2>7. ~look[last].findStart /\ look[last].valid = valid
    <3>1. (valid \/ SumIsRight(Window(Filled, 1))) = valid
      BY <1>1, <2>6
    <3> QED BY <2>4, <3>1 DEF Closed
  <2>8. ~look[uRemain + k - 1].findStart /\ look[uRemain + k - 1].valid = valid
    BY <2>7 DEF last
  <2> QED BY <1>1, <1>2, <2>1, <2>8, ReadLater
<1>9. CASE \A k \in 1..Count : k \notin Stxs(ring)
  <2>1. ASSUME NEW j \in (1 + DataLen + 1)..Size PROVE ~IsStx(Filled[j])
    <3>1. j \in 1..Size
      OBVIOUS
    <3>2. CASE j \in 1..uRemain
      <4>1. j \in (DataLen + 2)..uRemain
        BY <3>2
      <4> QED BY <1>1, <3>2, <4>1
    <3>3. CASE ~(j \in 1..uRemain)
      <4>1. j - uRemain \in 1..Count /\ uRemain + (j - uRemain) = j
        BY <3>1, <3>3
      <4> QED BY <1>9, <3>1, <4>1
    <3> QED BY <3>2, <3>3
  <2>2. ~(Size < 1 + DataLen)
    BY <1>4
  <2>3. /\ uRemain' = Size + 1 - 1 /\ IsStx(rxBuf'[1])
        /\ findStart' = FALSE
        /\ valid' = (valid \/ IsFrame(Window(Filled, 1)))
        /\ Window(rxBuf', 1) = Window(Filled, 1)
        /\ \A i \in (DataLen + 2)..(Size + 1 - 1) : ~IsStx(rxBuf'[i])
    <3> DEFINE t == 1
    <3>1. /\ t \in 1..Size /\ look[t] = Opened(t, valid) /\ IsStx(Filled[t])
          /\ \A i \in (t + DataLen + 1)..Size : ~IsStx(Filled[i])
          /\ ~(Size < t + DataLen)
      BY <1>4, <1>5, <1>6, <2>1, <2>2
    <3> HIDE DEF t
    <3>2. /\ uRemain' = Size + 1 - t /\ IsStx(rxBuf'[1])
          /\ findStart' = FALSE
          /\ valid' = (valid \/ IsFrame(Window(Filled, t)))
          /\ Window(rxBuf', 1) = Window(Filled, t)
          /\ \A i \in (DataLen + 2)..(Size + 1 - t) : ~IsStx(rxBuf'[i])
      BY ONLY TypeOK, ReadSome, <1>2, <3>1, ReadWindow
    <3> QED BY <3>2 DEF t
  <2>4. ~valid' /\ ~IsFrame(Window(rxBuf', 1)) /\ uRemain' > DataLen
    <3>1. Size + 1 - 1 = Size
      BY <1>4
    <3> QED BY ONLY <1>1, <1>4, <1>7, <2>3, <3>1
  <2>5. NoStxIn(DataLen + 2, uRemain)'
    BY <2>3 DEF NoStxIn
  <2>6. WindowBad'
    BY <2>3, <2>4, <2>5 DEF WindowBad
  <2> QED BY <2>6
<1> QED BY <1>8, <1>9

\* A frame that was seen stays so until the read loop ends.
LEMMA ReadGood ==
  ASSUME TypeOK, ReadSome, WindowGood
  PROVE  WindowGood'
<1> USE ReadPlaces
<1>1. /\ findStart = FALSE /\ valid = TRUE /\ reading /\ uRemain > DataLen
      /\ IsFrame(Window(rxBuf, 1)) /\ NoStx(ring)
      /\ \A i \in (DataLen + 2)..uRemain : ~IsStx(rxBuf[i])
  BY DEF WindowGood, TypeOK, NoStxIn
<1>2. PICK look : Passed(look, Filled, Size) /\ ParserReceiveData(Filled, Size) = look[Size]
  BY ReadPass
<1>3. ~look[1 - 1].findStart /\ look[1 - 1].valid = valid
  <2>1. look[0] = Start /\ 1 - 1 = 0
    BY <1>2 DEF Passed
  <2>2. Start.findStart = findStart /\ Start.valid = valid
    BY DEF Start
  <2> QED BY ONLY <1>1, <2>1, <2>2
<1>4. 1 \in 1..Size /\ 1 \in 1..uRemain /\ Size \in Nat /\ Size > DataLen
  BY <1>1
<1>5. IsStx(rxBuf[1]) /\ IsStx(Filled[1])
  <2>1. PICK f \in 1..Frames : Window(rxBuf, 0 + 1) = Frame(f)
    BY <1>1 DEF IsFrame
  <2> DEFINE w == SubSeq(rxBuf, 0 + 1, DataLen)
  <2>2. rxBuf \in Seq(Cell) /\ 0 \in Nat /\ 0 <= DataLen /\ DataLen <= Len(rxBuf) /\ 1 \in 1..(DataLen - 0)
        /\ (0 + 1) + DataLen - 1 = DataLen /\ 0 + 1 = 1
    BY FramingConstantsOK DEF FramingConstantsOK, TypeOK, Cell
  <2>3. \A i \in 1..(DataLen - 0) : w[i] = rxBuf[0 + i]
    <3>1. DataLen \in Nat
      OBVIOUS
    <3> QED BY ONLY <2>2, <3>1, Piece
  <2>4. w = Frame(f)
    BY <2>1, <2>2 DEF Window
  <2> HIDE DEF w
  <2>5. rxBuf[1] = Frame(f)[1]
    BY <2>2, <2>3, <2>4
  <2>6. IsStx(Frame(f)[1])
    BY DEF Frame, IsStx
  <2> QED BY <1>4, <2>5, <2>6
<1>6. look[1] = Opened(1, valid)
  BY ONLY <1>2, <1>3, <1>4, <1>5, Opens
<1>7. Window(Filled, 1) = Window(rxBuf, 1)
  BY <1>1, FrontKept
<1>8. ASSUME NEW j \in (1 + DataLen + 1)..Size PROVE ~IsStx(Filled[j])
  <2>1. j \in 1..Size
    OBVIOUS
  <2>2. CASE j \in 1..uRemain
    <3>1. j \in (DataLen + 2)..uRemain
      BY <2>2
    <3> QED BY <1>1, <2>2, <3>1
  <2>3. CASE ~(j \in 1..uRemain)
    <3>1. j - uRemain \in 1..Count /\ uRemain + (j - uRemain) = j
      BY <2>1, <2>3
    <3> QED BY <1>1, <2>1, <3>1 DEF NoStx
  <2> QED BY <2>2, <2>3
<1>9. ~(Size < 1 + DataLen)
  BY <1>4
<1>10. /\ uRemain' = Size + 1 - 1 /\ IsStx(rxBuf'[1])
       /\ findStart' = FALSE
       /\ valid' = (valid \/ IsFrame(Window(Filled, 1)))
       /\ Window(rxBuf', 1) = Window(Filled, 1)
       /\ \A i \in (DataLen + 2)..(Size + 1 - 1) : ~IsStx(rxBuf'[i])
  <2> DEFINE t == 1
  <2>1. /\ t \in 1..Size /\ look[t] = Opened(t, valid) /\ IsStx(Filled[t])
        /\ \A i \in (t + DataLen + 1)..Size : ~IsStx(Filled[i])
        /\ ~(Size < t + DataLen)
    BY <1>4, <1>5, <1>6, <1>8, <1>9
  <2> HIDE DEF t
  <2>2. /\ uRemain' = Size + 1 - t /\ IsStx(rxBuf'[1])
        /\ findStart' = FALSE
        /\ valid' = (valid \/ IsFrame(Window(Filled, t)))
        /\ Window(rxBuf', 1) = Window(Filled, t)
        /\ \A i \in (DataLen + 2)..(Size + 1 - t) : ~IsStx(rxBuf'[i])
    BY ONLY TypeOK, ReadSome, <1>2, <2>1, ReadWindow
  <2> QED BY <2>2 DEF t
<1>11. valid' /\ IsFrame(Window(rxBuf', 1)) /\ uRemain' > DataLen /\ reading'
  <2>1. Size + 1 - 1 = Size /\ reading'
    BY <1>1, <1>4, ReadSomeReads
  <2> QED BY ONLY <1>1, <1>4, <1>7, <1>10, <2>1
<1>12. NoStxIn(DataLen + 2, uRemain)'
  BY <1>10 DEF NoStxIn
<1>13. NoStx(ring)'
  BY <1>1, RestStxs DEF NoStx
<1> QED BY <1>10, <1>11, <1>12, <1>13 DEF WindowGood

\* Nothing that is kept looks like STX: a window starts where the ring says so.
LEMMA ReadNoWindow ==
  ASSUME TypeOK, ReadSome, NoWindow, OneStx(ring)
  PROVE  (WindowOpen \/ WindowBad \/ WindowGood \/ NoWindow)'
<1> USE ReadPlaces
<1>1. /\ findStart = FALSE /\ valid = FALSE
      /\ \A i \in 1..uRemain : ~IsStx(rxBuf[i])
  BY DEF NoWindow, TypeOK, NoStxIn
<1>2. CASE \E k \in 1..Count : k \in Stxs(ring)
  <2>1. PICK k \in 1..Count : k \in Stxs(ring)
    BY <1>2
  <2>2. PICK look : Passed(look, Filled, Size) /\ ParserReceiveData(Filled, Size) = look[Size]
    BY ReadPass
  <2>3. look[0] = Start /\ ~look[0].findStart /\ look[0].valid = valid
    BY <1>1, <2>2 DEF Passed, Start
  <2> DEFINE last == uRemain + k - 1
  <2>4. last \in 0..Size /\ 0 \in 0..Size /\ Size \in Nat
    OBVIOUS
  <2>5. ASSUME NEW j \in (0 + 1)..last PROVE ~IsStx(Filled[j])
    <3>1. j \in 1..Size /\ j - uRemain # k
      OBVIOUS
    <3>2. CASE j \in 1..uRemain
      BY <1>1, <3>2
    <3>3. CASE ~(j \in 1..uRemain)
      <4>1. j - uRemain \in 1..Count /\ uRemain + (j - uRemain) = j
        BY <3>1, <3>3
      <4> QED BY <2>1, <3>1, <4>1 DEF OneStx
    <3> HIDE DEF last
    <3> QED BY <3>2, <3>3
  <2> HIDE DEF last
  <2>6. look[last] = look[0]
    BY ONLY <2>2, <2>3, <2>4, <2>5, Idle
  <2>7. ~look[uRemain + k - 1].findStart /\ look[uRemain + k - 1].valid = valid
    BY <2>3, <2>6 DEF last
  <2> QED BY <1>1, <2>1, <2>2, <2>7, ReadLater
<1>3. CASE \A k \in 1..Count : k \notin Stxs(ring)
  <2>1. ASSUME NEW j \in 1..Size PROVE ~IsStx(Filled[j])
    <3>1. CASE j \in 1..uRemain
      BY <1>1, <3>1
    <3>2. CASE ~(j \in 1..uRemain)
      <4>1. j - uRemain \in 1..Count /\ uRemain + (j - uRemain) = j
        BY <3>2
      <4> QED BY <1>3, <4>1
    <3> QED BY <3>1, <3>2
  <2> QED BY <1>1, <2>1, NoneStarted
<1> QED BY <1>2, <1>3

\* Every turn of the read loop leaves what is kept in order.
LEMMA ReadSomeLooks ==
  ASSUME TypeOK, RingInLine, LooksOK, ReadSome
  PROVE  LooksOK'
<1>1. reading /\ reading' /\ ~Waiting' /\ uRemain' # 0
  BY ReadSomeReads, ReadSomeType DEF Waiting
<1>2. ~BufferIsFree'
  BY <1>1 DEF BufferIsFree
<1>3. (WindowOpen \/ WindowBad \/ WindowGood \/ NoWindow)' /\ OneStx(ring)'
  <2>1. CASE BufferIsFree
    <3>1. uRemain = 0 /\ ~findStart /\ ~valid /\ NearStxs(ring)
      BY <1>1, <2>1 DEF LooksOK, BufferIsFree
    <3> QED BY <3>1, ReadFree
  <2>2. CASE ~BufferIsFree
    <3>1. OneStx(ring) /\ uRemain # 0
      BY <2>2 DEF LooksOK, BufferIsFree
    <3>2. OneStx(ring)'
      <4>1. ASSUME NEW i \in Stxs(ring)', NEW j \in Stxs(ring)' PROVE i = j
        <5>1. Count + i \in Stxs(ring) /\ Count + j \in Stxs(ring) /\ i \in Nat /\ j \in Nat /\ Count \in Nat
          BY RestStxs
        <5> QED BY <3>1, <5>1 DEF OneStx
      <4> QED BY <4>1 DEF OneStx
    <3>3. CASE WindowOpen
      BY <3>1, <3>2, <3>3, ReadOpen
    <3>4. CASE WindowBad
      BY <3>1, <3>2, <3>4, ReadBad
    <3>5. CASE WindowGood
      BY <3>2, <3>5, ReadGood
    <3>6. CASE NoWindow
      BY <3>1, <3>2, <3>6, ReadNoWindow
    <3> QED BY <2>2, <3>3, <3>4, <3>5, <3>6 DEF LooksOK
  <2> QED BY <2>1, <2>2
<1> QED BY <1>1, <1>2, <1>3 DEF LooksOK

\* The positions in the ring that look like STX once a byte is pushed.
LEMMA PushedStxs ==
  ASSUME TypeOK, NEW i
  PROVE  i \in Stxs(Pushed(ring, coming)) <=>
           \/ i \in 1..(Len(Pushed(ring, coming)) - 1) /\ i + Dropped \in Stxs(ring)
           \/ i = Len(Pushed(ring, coming)) /\ IsStx(coming)
<1> DEFINE r == Pushed(ring, coming)
<1>1. /\ r \in Seq(Byte) /\ Len(r) \in Nat /\ Len(r) > 0 /\ r[Len(r)] = coming
      /\ \A j \in 1..(Len(r) - 1) : j + Dropped \in 1..Len(ring) /\ r[j] = ring[j + Dropped]
  BY PushedBytes
<1>2. ring \in Seq(Byte)
  BY DEF TypeOK
<1> HIDE DEF r
<1>3. i \in Stxs(r) <=> (i \in 1..Len(r) /\ IsStx(r[i]))
  BY <1>1, StxsOf
<1>4. CASE i \in 1..(Len(r) - 1)
  <2>1. i \in 1..Len(r) /\ i # Len(r) /\ r[i] = ring[i + Dropped] /\ i + Dropped \in 1..Len(ring)
    BY <1>1, <1>4
  <2>2. i + Dropped \in Stxs(ring) <=> (i + Dropped \in 1..Len(ring) /\ IsStx(ring[i + Dropped]))
    BY <1>2, StxsOf
  <2>3. (i \in 1..(Len(r) - 1) /\ i + Dropped \in Stxs(ring)) \/ (i = Len(r) /\ IsStx(coming))
        <=> i \in Stxs(r)
    BY <1>3, <1>4, <2>1, <2>2
  <2> QED BY <2>3 DEF r
<1>5. CASE ~(i \in 1..(Len(r) - 1))
  <2>1. i \in 1..Len(r) <=> i = Len(r)
    BY <1>1, <1>5
  <2>2. (i \in 1..(Len(r) - 1) /\ i + Dropped \in Stxs(ring)) \/ (i = Len(r) /\ IsStx(coming))
        <=> i \in Stxs(r)
    BY <1>1, <1>3, <1>5, <2>1
  <2> QED BY <2>2 DEF r
<1> QED BY <1>4, <1>5

\* The bytes of the ring follow one another, and the coming one follows them.
LEMMA PushedInLine ==
  ASSUME TypeOK, RingInLine, RxInterrupt
  PROVE  RingInLine'
<1>1. /\ ring' \in Seq(Byte) /\ Len(ring') = Len(ring) + 1 - Dropped /\ Len(ring') \in Nat
      /\ ring'[Len(ring')] = coming /\ Dropped \in {0, 1} /\ Len(ring) \in Nat
      /\ \A i \in 1..(Len(ring') - 1) :
           i + Dropped \in 1..Len(ring) /\ ring'[i] = ring[i + Dropped]
  BY PushedBytes DEF RxInterrupt, Dropped, TypeOK
<1>2. coming' = Following(coming)
  BY DEF RxInterrupt, Following
<1>3. ASSUME NEW i \in 1..Len(ring')
      PROVE  Following(ring'[i]) = IF i < Len(ring') THEN ring'[i + 1] ELSE coming'
  <2>1. CASE i = Len(ring')
    BY <1>1, <1>2, <2>1
  <2>2. CASE i # Len(ring')
    <3> DEFINE j == i + Dropped
    <3>1. i \in 1..(Len(ring') - 1) /\ i < Len(ring') /\ i + 1 \in 1..Len(ring') /\ j \in 1..Len(ring)
          /\ ring'[i] = ring[j]
      BY <1>1, <2>2
    <3>2. Following(ring[j]) = IF j < Len(ring) THEN ring[j + 1] ELSE coming
      BY <3>1 DEF RingInLine
    <3>3. CASE i + 1 = Len(ring')
      <4>1. ~(j < Len(ring)) /\ ring'[i + 1] = coming
        BY <1>1, <3>1, <3>3
      <4> QED BY <3>1, <3>2, <4>1
    <3>4. CASE i + 1 # Len(ring')
      <4>1. i + 1 \in 1..(Len(ring') - 1) /\ (i + 1) + Dropped = j + 1 /\ j < Len(ring)
        BY <1>1, <3>1, <3>4
      <4>2. ring'[i + 1] = ring[j + 1]
        BY <1>1, <4>1
      <4> QED BY <3>1, <3>2, <4>1, <4>2
    <3> QED BY <3>3, <3>4
  <2> QED BY <2>1, <2>2
<1> QED BY <1>3 DEF RingInLine, Following

\* So do the ones that the read loop leaves.
LEMMA RestInLine ==
  ASSUME TypeOK, RingInLine, ReadSome
  PROVE  RingInLine'
<1>1. /\ Count \in Nat /\ Count <= Len(ring) /\ Len(ring) \in Nat /\ Len(ring') = Len(ring) - Count
      /\ \A i \in 1..Len(ring') : ring'[i] = ring[Count + i]
  BY RestStxs
<1>2. coming' = coming
  BY ReadSomeReads
<1>3. ASSUME NEW i \in 1..Len(ring')
      PROVE  Following(ring'[i]) = IF i < Len(ring') THEN ring'[i + 1] ELSE coming'
  <2> DEFINE j == Count + i
  <2>1. j \in 1..Len(ring) /\ ring'[i] = ring[j] /\ (j < Len(ring) <=> i < Len(ring'))
    BY <1>1
  <2>2. i < Len(ring') => ring'[i + 1] = ring[j + 1]
    <3>1. i < Len(ring') => i + 1 \in 1..Len(ring') /\ Count + (i + 1) = j + 1
      BY <1>1
    <3> QED BY <1>1, <3>1
  <2>3. Following(ring[j]) = IF j < Len(ring) THEN ring[j + 1] ELSE coming
    BY <2>1 DEF RingInLine
  <2> QED BY <1>2, <2>1, <2>2, <2>3
<1> QED BY <1>3 DEF RingInLine, Following

\* A byte of the line comes in between rounds.
LEMMA RxLooks ==
  ASSUME TypeOK, RingInLine, LooksOK, RxInterrupt, IsStx(coming) => Waiting
  PROVE  LooksOK'
<1> DEFINE n == Len(ring')
<1>1. /\ ring' = Pushed(ring, coming) /\ ring' \in Seq(Byte) /\ n \in Nat /\ n > 0
      /\ n = Len(ring) + 1 - Dropped /\ Dropped \in {0, 1} /\ Len(ring) \in Nat
  BY PushedBytes DEF RxInterrupt, Dropped, TypeOK
<1>2. ASSUME NEW i \in Stxs(ring)'
      PROVE  \/ i \in 1..(n - 1) /\ i + Dropped \in Stxs(ring)
             \/ i = n /\ IsStx(coming) /\ Waiting
  <2>1. i \in Stxs(ring')
    BY DEF Stxs, IsStx
  <2> QED BY <1>1, <2>1, PushedStxs
<1>3. /\ ~Waiting' /\ UNCHANGED <<reading, rxBuf, uRemain, findStart, valid>>
  BY DEF RxInterrupt, Waiting
<1>4. BufferIsFree' <=> BufferIsFree
  BY <1>3 DEF BufferIsFree
<1>5. DataLen \in Nat /\ DataLen > 1
  BY FramingConstantsOK DEF FramingConstantsOK
<1>6. CASE BufferIsFree
  <2>1. ~findStart /\ ~valid /\ NearStxs(ring) /\ (Waiting => OneStx(ring))
    BY <1>6 DEF LooksOK
  <2>2. ASSUME NEW i \in Stxs(ring)', NEW j \in Stxs(ring)'
        PROVE  j <= i + DataLen
    <3>1. i \in 1..n /\ j \in 1..n
      BY <1>1, <1>2
    <3>2. CASE i = n \/ j <= i
      BY <1>1, <1>5, <3>1, <3>2
    <3>3. CASE i \in 1..(n - 1) /\ j \in 1..(n - 1)
      <4>1. i + Dropped \in Stxs(ring) /\ j + Dropped \in Stxs(ring)
        BY <1>1, <1>2, <3>3
      <4>2. j + Dropped <= (i + Dropped) + DataLen
        BY <2>1, <4>1 DEF NearStxs
      <4> QED BY <1>1, <1>5, <3>1, <4>2
    <3>4. CASE i \in 1..(n - 1) /\ j = n
      <4>1. i + Dropped \in Stxs(ring) /\ Waiting /\ OneStx(ring)
        BY <1>1, <1>2, <2>1, <3>4
      <4>2. SUFFICES ASSUME i + DataLen < n PROVE FALSE
        BY <1>1, <1>5, <3>1, <3>4
      <4>3. \A l \in 1..(n - 1) : Following(ring'[l]) = ring'[l + 1]
        <5>1. RingInLine'
          BY PushedInLine
        <5>2. \A l \in 1..(n - 1) : l \in 1..n /\ l < n
          BY <1>1
        <5> QED BY <5>1, <5>2 DEF RingInLine, Following
      <4>4. PICK k \in (i + 1)..(i + DataLen) : k \in Stxs(ring')
        BY <1>1, <3>1, <4>2, <4>3, StxComes
      <4>5. k \in Stxs(ring)' /\ k \in 1..(n - 1) /\ k # i
        <5>1. k \in Stxs(ring)'
          BY <4>4 DEF Stxs, IsStx
        <5>2. k \in 1..(n - 1) /\ k # i
          BY <1>1, <1>5, <3>1, <4>2
        <5> QED BY <5>1, <5>2
      <4>6. k + Dropped \in Stxs(ring)
        BY <1>1, <1>2, <4>5
      <4> QED BY <1>1, <3>1, <4>1, <4>5, <4>6 DEF OneStx
    <3> QED BY <1>1, <3>1, <3>2, <3>3, <3>4
  <2>3. NearStxs(ring)'
    BY <2>2 DEF NearStxs
  <2> QED BY <1>3, <1>4, <1>6, <2>1, <2>3 DEF LooksOK
<1>7. CASE ~BufferIsFree
  <2>1. /\ WindowOpen \/ WindowBad \/ WindowGood \/ NoWindow
        /\ OneStx(ring) /\ (Waiting => NoStx(ring))
    BY <1>7 DEF LooksOK
  <2>2. ASSUME NEW i \in Stxs(ring)', NEW j \in Stxs(ring)'
        PROVE  i = j
    <3>1. CASE i = n /\ j = n
      BY <3>1
    <3>2. CASE i # n /\ j # n
      <4>1. i \in Nat /\ j \in Nat /\ i + Dropped \in Stxs(ring) /\ j + Dropped \in Stxs(ring)
        BY <1>1, <1>2, <3>2
      <4> QED BY <1>1, <2>1, <4>1 DEF OneStx
    <3>3. CASE (i = n /\ j # n) \/ (i # n /\ j = n)
      BY <1>1, <1>2, <2>1, <3>3 DEF NoStx
    <3> QED BY <3>1, <3>2, <3>3
  <2>3. OneStx(ring)'
    BY <2>2 DEF OneStx
  <2>4. CASE WindowOpen
    <3>1. findStart /\ ~valid /\ uRemain <= DataLen /\ IsStx(rxBuf[1]) /\ uRemain \in Nat
          /\ (\A i \in Stxs(ring) : uRemain + i <= DataLen + 1) /\ (Waiting => ring = <<>>)
      BY <2>4 DEF WindowOpen, TypeOK
    <3>2. ASSUME NEW i \in Stxs(ring)' PROVE uRemain' + i <= DataLen + 1
      <4>1. CASE i \in 1..(n - 1) /\ i + Dropped \in Stxs(ring)
        BY <1>1, <1>3, <1>5, <3>1, <4>1
      <4>2. CASE i = n /\ Waiting
        <5>1. Len(ring) = 0
          BY <3>1, <4>2
        <5>2. n = 1
          BY <1>1, <5>1
        <5> QED BY <1>3, <1>5, <3>1, <4>2, <5>2
      <4> QED BY <1>2, <4>1, <4>2
    <3>3. WindowOpen'
      BY <1>3, <3>1, <3>2 DEF WindowOpen, IsStx
    <3> QED BY <1>3, <1>4, <1>7, <2>3, <3>3 DEF LooksOK
  <2>5. CASE WindowBad
    <3>1. WindowBad'
      BY <1>3, <2>5 DEF WindowBad, NoStxIn, IsStx, IsFrame, Window, Frame
    <3> QED BY <1>3, <1>4, <1>7, <2>3, <3>1 DEF LooksOK
  <2>6. CASE WindowGood
    <3>1. NoStx(ring) /\ ~Waiting
      BY <2>6 DEF WindowGood, Waiting
    <3>2. NoStx(ring)'
      BY <1>2, <3>1 DEF NoStx
    <3>3. WindowGood'
      BY <1>3, <2>6, <3>2 DEF WindowGood, NoStxIn, IsStx, IsFrame, Window, Frame
    <3> QED BY <1>3, <1>4, <1>7, <2>3, <3>3 DEF LooksOK
  <2>7. CASE NoWindow
    <3>1. NoWindow'
      BY <1>3, <2>7 DEF NoWindow, NoStxIn, IsStx
    <3> QED BY <1>3, <1>4, <1>7, <2>3, <3>1 DEF LooksOK
  <2> QED BY <2>1, <2>4, <2>5, <2>6, <2>7
<1> QED BY <1>6, <1>7

\* A byte of the line comes in during a round, and does not look like STX.
LEMMA RxRound ==
  ASSUME TypeOK, RoundOK, RxInterrupt, ~IsStx(coming)
  PROVE  RoundOK'
<1>1. ring' = Pushed(ring, coming)
  BY DEF RxInterrupt
<1>2. ASSUME NEW i \in Stxs(ring)' PROVE FALSE
  <2>1. i \in Stxs(ring')
    BY DEF Stxs, IsStx
  <2>2. i + Dropped \in Stxs(ring)
    BY <1>1, <2>1, PushedStxs
  <2> QED BY <2>2 DEF RoundOK, NoStx
<1>3. NoStx(ring)'
  BY <1>2 DEF NoStx
<1>4. UNCHANGED <<reading, rxBuf, findStart, valid>>
  BY DEF RxInterrupt
<1> QED BY <1>3, <1>4 DEF RoundOK, IsFrame, Window, Frame

\* The definitions speak of the same bytes when they are unchanged.
LEMMA SameBytes ==
  ASSUME UNCHANGED <<rxBuf, ring>>
  PROVE  /\ Stxs(ring)' = Stxs(ring) /\ NoStx(ring)' = NoStx(ring)
         /\ OneStx(ring)' = OneStx(ring) /\ NearStxs(ring)' = NearStxs(ring)
         /\ IsFrame(Window(rxBuf, 1))' = IsFrame(Window(rxBuf, 1))
         /\ IsStx(rxBuf[1])' = IsStx(rxBuf[1])
         /\ (\A first, last : NoStxIn(first, last)' <=> NoStxIn(first, last))
<1>1. Stxs(ring)' = Stxs(ring)
  BY DEF Stxs, IsStx
<1>2. IsFrame(Window(rxBuf, 1))' = IsFrame(Window(rxBuf, 1))
  BY DEF IsFrame, Window, Frame
<1>3. IsStx(rxBuf[1])' = IsStx(rxBuf[1])
  BY DEF IsStx
<1>4. \A first, last : NoStxIn(first, last)' <=> NoStxIn(first, last)
  BY DEF NoStxIn, IsStx
<1>5. NoStx(ring)' = NoStx(ring)
  BY <1>1 DEF NoStx
<1>6. OneStx(ring)' = OneStx(ring)
  BY <1>1 DEF OneStx
<1>7. NearStxs(ring)' = NearStxs(ring)
  BY <1>1 DEF NearStxs
<1> QED BY <1>1, <1>2, <1>3, <1>4, <1>5, <1>6, <1>7

\* The thread takes its events: it starts to read, makes a packet, or does nothing.
LEMMA ReceiveKeeps ==
  ASSUME TypeOK, tcpOn, IF sensorCodeCount = 1 THEN LooksOK ELSE RoundOK, ReceiveEvents
  PROVE  IF sensorCodeCount' = 1 THEN LooksOK' ELSE RoundOK'
<1>1. /\ ~reading /\ UNCHANGED <<ring, tcpOn, findStart, valid>>
      /\ BufSize \in Nat /\ uRemain \in 0..BufSize /\ sensorCodeCount \in 1..Sensors
  BY FramingConstantsOK DEF FramingConstantsOK, TypeOK, ReceiveEvents
<1>2. CASE /\ LooksForFrame /\ reading' = TRUE
           /\ uRemain' = (IF BufSize <= uRemain THEN 0 ELSE uRemain)
           /\ UNCHANGED <<rxBuf, sensorCodeCount>>
  <2>1. sensorCodeCount = 1 /\ sensorCodeCount' = 1 /\ LooksOK
    BY <1>2 DEF LooksForFrame
  <2>2. ~Waiting'
    BY <1>2 DEF Waiting
  <2>3. CASE BufferIsFree
    <3>1. uRemain' = 0
      BY <1>1, <1>2, <2>3 DEF BufferIsFree
    <3>2. BufferIsFree'
      BY <3>1 DEF BufferIsFree
    <3>3. ~findStart' /\ ~valid' /\ NearStxs(ring)'
      BY <1>1, <1>2, <2>1, <2>3, SameBytes DEF LooksOK
    <3> QED BY <2>1, <2>2, <3>2, <3>3 DEF LooksOK
  <2>4. CASE ~BufferIsFree
    <3>1. uRemain' = uRemain /\ ~BufferIsFree'
      BY <1>1, <1>2, <2>4 DEF BufferIsFree
    <3>2. (WindowOpen \/ WindowBad \/ NoWindow) /\ OneStx(ring)'
      BY <1>1, <1>2, <2>1, <2>4, SameBytes DEF LooksOK, WindowGood
    <3>3. CASE WindowOpen
      <4>1. WindowOpen'
        BY <1>1, <1>2, <2>2, <3>1, <3>3, SameBytes DEF WindowOpen
      <4> QED BY <2>1, <2>2, <3>1, <3>2, <4>1 DEF LooksOK
    <3>4. CASE WindowBad
      <4>1. WindowBad'
        BY <1>1, <1>2, <3>1, <3>4, SameBytes DEF WindowBad
      <4> QED BY <2>1, <2>2, <3>1, <3>2, <4>1 DEF LooksOK
    <3>5. CASE NoWindow
      <4>1. NoWindow'
        BY <1>1, <1>2, <3>1, <3>5, SameBytes DEF NoWindow
      <4> QED BY <2>1, <2>2, <3>1, <3>2, <4>1 DEF LooksOK
    <3> QED BY <3>2, <3>3, <3>4, <3>5
  <2> QED BY <2>3, <2>4
<1>3. CASE GoesOn /\ MakePacket /\ UNCHANGED <<reading, uRemain>>
  <2>1. sensorCodeCount > 1 /\ sensorCodeCount # 1 /\ RoundOK
    BY <1>1, <1>3 DEF GoesOn
  <2>2. CASE sensorCodeCount < Sensors
    <3>1. sensorCodeCount' # 1 /\ rxBuf' = rxBuf
      BY <1>1, <1>3, <2>1, <2>2 DEF MakePacket
    <3>2. RoundOK'
      BY <1>1, <1>3, <2>1, <3>1, SameBytes DEF RoundOK
    <3> QED BY <3>1, <3>2
  <2>3. CASE ~(sensorCodeCount < Sensors)
    <3>1. sensorCodeCount' = 1 /\ rxBuf' = Zeros(BufSize)
      BY <1>3, <2>3 DEF MakePacket
    <3>2. Stxs(ring)' = {} /\ ~findStart' /\ ~valid'
      <4>1. Stxs(ring)' = Stxs(ring)
        BY <1>1 DEF Stxs, IsStx
      <4> QED BY <1>1, <2>1, <4>1 DEF RoundOK, NoStx
    <3>3. (NoStx(ring) /\ OneStx(ring) /\ NearStxs(ring))'
      BY <3>2 DEF NoStx, OneStx, NearStxs
    <3>4. NoStxIn(1, uRemain)'
      <4>1. ASSUME NEW i \in 1..uRemain PROVE ~IsStx(Zeros(BufSize)[i])
        <5>1. Zeros(BufSize)[i] = Zero
          BY <1>1 DEF Zeros
        <5>2. ~IsStx(Zero)
          BY FramingConstantsOK DEF FramingConstantsOK, IsStx, Zero
        <5> QED BY <5>1, <5>2
      <4> QED BY <1>3, <3>1, <4>1 DEF NoStxIn, IsStx
    <3>5. NoWindow'
      BY <3>2, <3>4 DEF NoWindow
    <3> QED BY <3>1, <3>2, <3>3, <3>5 DEF LooksOK
  <2> QED BY <2>2, <2>3
<1>4. CASE ~LooksForFrame /\ ~GoesOn /\ UNCHANGED <<reading, rxBuf, uRemain, sensorCodeCount>>
  <2>1. CASE sensorCodeCount = 1
    <3>1. Waiting /\ LooksOK
      BY <1>1, <1>4, <2>1 DEF LooksForFrame, Waiting
    <3>2. BufferIsFree' <=> BufferIsFree
      BY <1>4 DEF BufferIsFree
    <3>3. CASE BufferIsFree
      <4>1. ~findStart' /\ ~valid' /\ NearStxs(ring)' /\ OneStx(ring)'
        BY <1>1, <1>4, <3>1, <3>3, SameBytes DEF LooksOK
      <4> QED BY <1>4, <2>1, <3>2, <3>3, <4>1 DEF LooksOK
    <3>4. CASE ~BufferIsFree
      <4>1. (WindowOpen \/ WindowBad \/ NoWindow) /\ OneStx(ring)' /\ NoStx(ring)'
        BY <1>1, <1>4, <3>1, <3>4, SameBytes DEF LooksOK, WindowGood
      <4>2. CASE WindowOpen
        <5>1. WindowOpen'
          BY <1>1, <1>4, <3>1, <4>2, SameBytes DEF WindowOpen
        <5> QED BY <1>4, <2>1, <3>2, <3>4, <4>1, <5>1 DEF LooksOK
      <4>3. CASE WindowBad
        <5>1. WindowBad'
          BY <1>1, <1>4, <4>3, SameBytes DEF WindowBad
        <5> QED BY <1>4, <2>1, <3>2, <3>4, <4>1, <5>1 DEF LooksOK
      <4>4. CASE NoWindow
        <5>1. NoWindow'
          BY <1>1, <1>4, <4>4, SameBytes DEF NoWindow
        <5> QED BY <1>4, <2>1, <3>2, <3>4, <4>1, <5>1 DEF LooksOK
      <4> QED BY <4>1, <4>2, <4>3, <4>4
    <3> QED BY <3>3, <3>4
  <2>2. CASE sensorCodeCount # 1
    <3>1. RoundOK'
      BY <1>1, <1>4, <2>2, SameBytes DEF RoundOK
    <3> QED BY <1>4, <2>2, <3>1
  <2> QED BY <2>1, <2>2
<1> QED BY <1>2, <1>3, <1>4 DEF ReceiveEvents

\* The read loop ends: a frame that was seen starts a round, or the thread waits.
LEMMA ReadNoneKeeps ==
  ASSUME TypeOK, tcpOn, IF sensorCodeCount = 1 THEN LooksOK ELSE RoundOK, ReadNone
  PROVE  IF sensorCodeCount' = 1 THEN LooksOK' ELSE RoundOK'
<1>1. /\ reading /\ ~reading' /\ ~valid' /\ UNCHANGED <<ring, uRemain, findStart>>
      /\ (ring = <<>> \/ uRemain = BufSize)
      /\ BufSize \in Nat /\ uRemain \in 0..BufSize /\ Sensors > 1
      /\ DataLen \in Nat /\ DataLen > 1 /\ DataLen < BufSize
  BY FramingConstantsOK DEF FramingConstantsOK, TypeOK, ReadNone
<1>2. sensorCodeCount = 1 /\ LooksOK
  BY <1>1 DEF RoundOK
<1>3. CASE valid
  <2>1. WindowGood
    BY <1>2, <1>3 DEF LooksOK, WindowOpen, WindowBad, NoWindow
  <2>2. sensorCodeCount' = 2 /\ rxBuf' = rxBuf
    BY <1>1, <1>2, <1>3 DEF ReadNone, MakePacket
  <2>3. RoundOK'
    BY <1>1, <2>1, <2>2, SameBytes DEF RoundOK, WindowGood
  <2> QED BY <2>2, <2>3
<1>4. CASE ~valid
  <2>1. sensorCodeCount' = 1 /\ rxBuf' = rxBuf
    BY <1>2, <1>4 DEF ReadNone
  <2>2. ring = <<>> => (NoStx(ring) /\ OneStx(ring) /\ NearStxs(ring))'
    <3> SUFFICES ASSUME ring = <<>> PROVE (NoStx(ring) /\ OneStx(ring) /\ NearStxs(ring))'
      OBVIOUS
    <3>1. Stxs(ring)' = {}
      BY <1>1 DEF Stxs
    <3> QED BY <3>1 DEF NoStx, OneStx, NearStxs
  <2>3. OneStx(ring) => NearStxs(ring)'
    <3> SUFFICES ASSUME OneStx(ring) PROVE NearStxs(ring)
      BY <1>1, <2>1, SameBytes
    <3>1. \A i \in Stxs(ring) : i \in Nat
      BY DEF Stxs, TypeOK
    <3> QED BY <1>1, <3>1 DEF OneStx, NearStxs
  <2>4. CASE BufferIsFree
    <3>1. uRemain = 0 /\ ring = <<>> /\ ~findStart'
      BY <1>1, <1>2, <2>4 DEF BufferIsFree, LooksOK
    <3>2. BufferIsFree'
      BY <1>1, <3>1 DEF BufferIsFree
    <3> QED BY <1>1, <2>1, <2>2, <3>1, <3>2 DEF LooksOK
  <2>5. CASE ~BufferIsFree
    <3>1. (WindowOpen \/ WindowBad \/ NoWindow) /\ OneStx(ring) /\ OneStx(ring)'
      BY <1>1, <1>2, <1>4, <2>1, <2>5, SameBytes DEF LooksOK, WindowGood
    <3>2. CASE uRemain = BufSize
      <4>1. ~findStart'
        BY <1>1, <3>1, <3>2 DEF WindowOpen, WindowBad, NoWindow
      <4>2. BufferIsFree'
        BY <1>1, <3>2 DEF BufferIsFree
      <4> QED BY <1>1, <2>1, <2>3, <3>1, <4>1, <4>2 DEF LooksOK
    <3>3. CASE uRemain # BufSize
      <4>1. ring = <<>> /\ ring' = <<>> /\ NoStx(ring)' /\ ~BufferIsFree'
        BY <1>1, <2>2, <2>5, <3>3 DEF BufferIsFree
      <4>2. CASE WindowOpen
        <5>1. WindowOpen'
          BY <1>1, <2>1, <4>1, <4>2, SameBytes DEF WindowOpen
        <5> QED BY <2>1, <3>1, <4>1, <5>1 DEF LooksOK
      <4>3. CASE WindowBad
        <5>1. WindowBad'
          BY <1>1, <2>1, <4>3, SameBytes DEF WindowBad
        <5> QED BY <2>1, <3>1, <4>1, <5>1 DEF LooksOK
      <4>4. CASE NoWindow
        <5>1. NoWindow'
          BY <1>1, <2>1, <4>4, SameBytes DEF NoWindow
        <5> QED BY <2>1, <3>1, <4>1, <5>1 DEF LooksOK
      <4> QED BY <3>1, <4>2, <4>3, <4>4
    <3> QED BY <3>2, <3>3
  <2> QED BY <2>4, <2>5
<1> QED BY <1>3, <1>4

\* What the thread holds of the line: the last bytes in the ring without a gap and,
\* while it is paced, a window that is closed before another starts, and in a round
\* the frame at the front of the buffer and nothing behind it that looks like STX.
THEOREM BufferCorrect == Spec => []BufferOK
<1>1. Init => BufferOK
  <2> SUFFICES ASSUME Init PROVE BufferOK
    OBVIOUS
  <2>1. RingInLine
    BY DEF Init, RingInLine
  <2>2. Stxs(ring) = {}
    BY DEF Init, Stxs
  <2>3. (Waiting => OneStx(ring)) /\ NearStxs(ring)
    BY <2>2 DEF OneStx, NearStxs
  <2>4. LooksOK
    BY <2>3 DEF Init, LooksOK, BufferIsFree
  <2> QED BY <2>1, <2>4 DEF Init, BufferOK
<1>2. TypeOK /\ BufferOK /\ [Next]_vars => BufferOK'
  <2> SUFFICES ASSUME TypeOK, BufferOK, [Next]_vars
               PROVE  BufferOK'
    OBVIOUS
  <2>1. RingInLine
    BY DEF BufferOK
  <2>2. paced => tcpOn /\ IF sensorCodeCount = 1 THEN LooksOK ELSE RoundOK
    BY DEF BufferOK
  <2>3. CASE RxInterrupt
    <3>1. RingInLine'
      BY <2>1, <2>3, PushedInLine
    <3>2. paced' => paced /\ (IsStx(coming) => Waiting) /\ tcpOn' = tcpOn
                    /\ sensorCodeCount' = sensorCodeCount
      BY <2>3 DEF RxInterrupt
    <3>3. CASE paced' /\ sensorCodeCount = 1
      BY <2>1, <2>2, <2>3, <3>1, <3>2, <3>3, RxLooks DEF BufferOK
    <3>4. CASE paced' /\ sensorCodeCount # 1
      <4>1. ~IsStx(coming)
        BY <3>2, <3>4 DEF Waiting
      <4> QED BY <2>2, <2>3, <3>1, <3>2, <3>4, <4>1, RxRound DEF BufferOK
    <3> QED BY <3>1, <3>3, <3>4 DEF BufferOK
  <2>4. CASE SetSendEvent
    <3>1. sensorCodeCount > 1 /\ UNCHANGED <<coming, ring, tcpOn, reading, rxBuf, uRemain,
                                             findStart, valid, sensorCodeCount, paced>>
      BY <2>4 DEF SetSendEvent
    <3>2. RingInLine'
      BY <2>1, <3>1 DEF RingInLine, Following
    <3>3. sensorCodeCount # 1 /\ sensorCodeCount' # 1
      BY <3>1 DEF TypeOK
    <3>4. RoundOK => RoundOK'
      BY <3>1, SameBytes DEF RoundOK
    <3> QED BY <2>2, <3>1, <3>2, <3>3, <3>4 DEF BufferOK
  <2>5. CASE SetTcpStatus
    <3>1. RingInLine' /\ ~paced'
      BY <2>1, <2>5 DEF SetTcpStatus, RingInLine, Following
    <3> QED BY <3>1 DEF BufferOK
  <2>6. CASE ReceiveEvents
    <3>1. RingInLine' /\ paced' = paced /\ tcpOn' = tcpOn
      BY <2>1, <2>6 DEF ReceiveEvents, RingInLine, Following
    <3> QED BY <2>2, <2>6, <3>1, ReceiveKeeps DEF BufferOK
  <2>7. CASE ReadSome
    <3>1. RingInLine'
      BY <2>1, <2>7, RestInLine
    <3>2. reading /\ UNCHANGED <<paced, tcpOn, sensorCodeCount>>
      BY <2>7, ReadSomeReads
    <3>3. paced => tcpOn /\ sensorCodeCount = 1 /\ LooksOK
      BY <2>2, <3>2 DEF RoundOK
    <3>4. paced => LooksOK'
      BY <2>1, <2>7, <3>3, ReadSomeLooks
    <3> QED BY <3>1, <3>2, <3>3, <3>4 DEF BufferOK
  <2>8. CASE ReadNone
    <3>1. RingInLine' /\ paced' = paced /\ tcpOn' = tcpOn
      BY <2>1, <2>8 DEF ReadNone, RingInLine, Following
    <3> QED BY <2>2, <2>8, <3>1, ReadNoneKeeps DEF BufferOK
  <2>9. CASE UNCHANGED vars
    <3>1. RingInLine'
      BY <2>1, <2>9 DEF vars, RingInLine, Following
    <3>2. BufferIsFree' = BufferIsFree /\ Waiting' = Waiting
      BY <2>9 DEF vars, BufferIsFree, Waiting
    <3>3. /\ WindowOpen' = WindowOpen /\ WindowBad' = WindowBad
          /\ WindowGood' = WindowGood /\ NoWindow' = NoWindow
      <4>1. UNCHANGED <<rxBuf, ring, uRemain, reading, findStart, valid>>
        BY <2>9 DEF vars
      <4>2. Stxs(ring)' = Stxs(ring) /\ Waiting' = Waiting
        BY <3>2, <4>1, SameBytes
      <4>3. WindowOpen' = WindowOpen
        BY <4>1, <4>2, SameBytes DEF WindowOpen
      <4>4. WindowBad' = WindowBad
        BY <4>1, SameBytes DEF WindowBad
      <4>5. WindowGood' = WindowGood
        BY <4>1, SameBytes DEF WindowGood
      <4>6. NoWindow' = NoWindow
        BY <4>1, SameBytes DEF NoWindow
      <4> QED BY <4>3, <4>4, <4>5, <4>6
    <3>4. LooksOK' = LooksOK
      BY <2>9, <3>2, <3>3, SameBytes DEF vars, LooksOK
    <3>5. RoundOK' = RoundOK
      BY <2>9, SameBytes DEF vars, RoundOK
    <3> QED BY <2>2, <2>9, <3>1, <3>4, <3>5 DEF vars, BufferOK
  <2> QED BY <2>3, <2>4, <2>5, <2>6, <2>7, <2>8, <2>9 DEF Next, Thread
<1>3. QED
  BY <1>1, <1>2, TypeCorrect, PTL DEF Spec

\* The invariant the run checks: the types and what the thread holds of the line, for
\* every length of frames, buffer and ring.
THEOREM InvariantCorrect == Spec => []FramingInvariant
BY TypeCorrect, BufferCorrect, PTL DEF FramingInvariant

\* Whatever bytes of a frame look like STX and however the line cuts it into turns
\* of the read loop: while the PLC leaves the thread the time for a round and the
\* connection stands, every packet is made of the bytes of one frame.
THEOREM RoundIsOneFrameCorrect == Spec => RoundIsOneFrame
<1>1. BufferOK /\ TypeOK /\ [Next]_vars =>
        [(paced /\ sensorCodeCount' # sensorCodeCount) =>
           \E f \in 1..Frames : PacketBytes = Frame(f)]_vars
  <2> SUFFICES ASSUME BufferOK, TypeOK, Next, paced, sensorCodeCount' # sensorCodeCount
               PROVE  IsFrame(Window(rxBuf, 1))
    BY DEF PacketBytes, IsFrame, vars
  <2>1. IF sensorCodeCount = 1 THEN LooksOK ELSE RoundOK
    BY DEF BufferOK
  <2>2. CASE RxInterrupt \/ SetSendEvent \/ SetTcpStatus \/ ReadSome
    BY <2>2, ReadSomeReads DEF RxInterrupt, SetSendEvent, SetTcpStatus
  <2>3. CASE ReceiveEvents
    <3>1. GoesOn
      BY <2>3 DEF ReceiveEvents
    <3>2. sensorCodeCount # 1
      BY <3>1 DEF GoesOn, TypeOK
    <3> QED BY <2>1, <3>2 DEF RoundOK
  <2>4. CASE ReadNone
    <3>1. valid
      BY <2>4 DEF ReadNone
    <3> QED BY <2>1, <3>1 DEF LooksOK, RoundOK, WindowOpen, WindowBad, WindowGood, NoWindow
  <2> QED BY <2>2, <2>3, <2>4 DEF Next, Thread
<1>2. QED
  BY <1>1, BufferCorrect, TypeCorrect, PTL DEF Spec, RoundIsOneFrame
=============================================================================
