-------------------------- MODULE PlcPayloadProofs --------------------------
(***************************************************************************)
(* Proofs about PlcPayload, for every device number, every content of the  *)
(* frames and every catalogue.                                             *)
(***************************************************************************)
EXTENDS PlcPayload, SequenceTheorems, TLAPS

\* What the assumption on the constants says of a device and of a frame.
IsDevice(d) == d \in Identities
Word == [1..4 -> Bytes]
IsFrame(f) == f \in [Words -> Word]

\* The bytes of a packet.
IsPacket(p, code, word) ==
  /\ p \in [1..19 -> Bytes]
  /\ p[1] = 2
  /\ p[2] = 0 /\ p[3] = 0 /\ p[4] = 0 /\ p[5] = 0
  /\ p[6] = 84
  /\ p[7] = IF device.type = "TS" THEN 83 ELSE 75
  /\ p[8] = device.num \div 256 /\ p[9] = device.num % 256
  /\ p[10] = 0 /\ p[11] = code
  /\ p[12] = 80 /\ p[13] = 86
  /\ p[14] = word[4] /\ p[15] = word[3] /\ p[16] = word[2] /\ p[17] = word[1]
  /\ p[18] = IF code \in PressCodes THEN 3 ELSE 1
  /\ p[19] = 3

\* A function on 1..n is a sequence of length n.
LEMMA FunctionIsSeq ==
  ASSUME NEW S, NEW n \in Nat, NEW g \in [1..n -> S]
  PROVE  g \in Seq(S) /\ Len(g) = n
<1>1. g \in Seq(S)
  BY SeqDef
<1> QED BY <1>1

\* One element before a sequence.
LEMMA Led ==
  ASSUME NEW S, NEW x \in S, NEW s \in Seq(S), NEW n \in Nat, Len(s) = n
  PROVE  <<x>> \o s \in Seq(S) /\ Len(<<x>> \o s) = n + 1
OBVIOUS

\* A word turned round has its four bytes in the other order.
LEMMA ValueBytes ==
  ASSUME NEW word \in Word
  PROVE  /\ Value(word) \in Seq(Bytes) /\ Len(Value(word)) = 4
         /\ Value(word)[1] = word[4] /\ Value(word)[2] = word[3]
         /\ Value(word)[3] = word[2] /\ Value(word)[4] = word[1]
<1>1. word \in Seq(Bytes)
  BY SeqDef DEF Word
<1>2. Len(word) = 4
  BY <1>1 DEF Word
<1>3. Value(word) = [i \in 1..4 |-> word[(4 - i) + 1]]
  BY <1>2 DEF Value, Reverse
<1>4. Value(word) \in [1..4 -> Bytes]
  BY <1>3 DEF Word
<1>5. Value(word) \in Seq(Bytes)
  BY <1>4, SeqDef
<1>6. Len(Value(word)) = 4
  BY <1>4, <1>5
<1> QED BY <1>3, <1>5, <1>6

\* The two bytes of a number.
LEMMA ShortBytes ==
  ASSUME NEW n \in Int, 0 <= n, n <= 65535
  PROVE  /\ Short(n)[1] \in Bytes /\ Short(n)[2] \in Bytes
         /\ Short(n)[1] = n \div 256 /\ Short(n)[2] = n % 256
<1>1. n \div 256 \in Int /\ n \div 256 >= 0 /\ n % 256 \in 0..255
  OBVIOUS
<1>2. n \div 256 <= 255
  BY SMT
<1> QED BY <1>1, <1>2 DEF Short, Bytes

\* The four bytes of an equipment's identity.
LEMMA DevInfoBytes ==
  ASSUME IsDevice(device)
  PROVE  /\ \A i \in 1..4 : DevInfo[i] \in Bytes
         /\ DevInfo[1] = 84 /\ DevInfo[2] = IF device.type = "TS" THEN 83 ELSE 75
         /\ DevInfo[3] = device.num \div 256 /\ DevInfo[4] = device.num % 256
<1>1. device.num \in Int /\ 0 <= device.num /\ device.num <= 65535
  <2> DEFINE n == device.num
  <2>1. n \in DevNums
    BY ONLY IsDevice(device) DEF IsDevice, Identities
  <2> HIDE DEF n
  <2>2. n \in Int /\ 0 <= n /\ n <= 65535
    BY ONLY <2>1 DEF DevNums
  <2> QED BY <2>2 DEF n
<1> DEFINE second == IF device.type = "TS" THEN 83 ELSE 75
<1>2. second \in Bytes /\ 84 \in Bytes
  BY DEF Bytes
<1>3. Letters[1] = 84 /\ Letters[2] = second
  BY DEF Letters
<1> HIDE DEF second
<1>4. /\ DevInfo[1] = 84 /\ DevInfo[2] = second
      /\ DevInfo[3] = Short(device.num)[1] /\ DevInfo[4] = Short(device.num)[2]
  BY <1>3 DEF DevInfo
<1>5. DevInfo[3] = device.num \div 256 /\ DevInfo[4] = device.num % 256
  BY <1>1, <1>4, ShortBytes
<1>6. \A i \in 1..4 : DevInfo[i] \in Bytes
  BY <1>1, <1>2, <1>4, ShortBytes
<1> QED BY <1>4, <1>5, <1>6 DEF second

\* What MakeSensorValue writes, byte by byte.
LEMMA PacketBytes ==
  ASSUME IsDevice(device), NEW code \in 1..19, NEW word \in Word
  PROVE  IsPacket(MakeSensorValue(code, word), code, word)
<1> DEFINE p == MakeSensorValue(code, word)
<1>1. /\ p[1] = 2 /\ p[2] = 0 /\ p[3] = 0 /\ p[4] = 0 /\ p[5] = 0
      /\ p[6] = DevInfo[1] /\ p[7] = DevInfo[2] /\ p[8] = DevInfo[3] /\ p[9] = DevInfo[4]
      /\ p[10] = Short(code)[1] /\ p[11] = Short(code)[2] /\ p[12] = 80 /\ p[13] = 86
      /\ p[14] = Value(word)[1] /\ p[15] = Value(word)[2]
      /\ p[16] = Value(word)[3] /\ p[17] = Value(word)[4]
      /\ p[18] = Decimals(code) /\ p[19] = 3
  BY DEF MakeSensorValue, STX, ETX, PV
<1>2. p = [i \in 1..19 |-> p[i]]
  BY DEF MakeSensorValue
<1> HIDE DEF p
<1>3. Short(code)[1] = 0 /\ Short(code)[2] = code
  <2>1. code \div 256 = 0 /\ code % 256 = code
    OBVIOUS
  <2> QED BY <2>1 DEF Short
<1>4. /\ Value(word)[1] = word[4] /\ Value(word)[2] = word[3]
      /\ Value(word)[3] = word[2] /\ Value(word)[4] = word[1]
  BY ValueBytes
<1>5. p[18] = IF code \in PressCodes THEN 3 ELSE 1
  BY <1>1 DEF Decimals
<1>6. word[1] \in Bytes /\ word[2] \in Bytes /\ word[3] \in Bytes /\ word[4] \in Bytes
  BY DEF Word
<1>7. \A i \in 1..19 : p[i] \in Bytes
  <2>1. \A n \in {0, 1, 2, 3, 80, 84, 86} \cup 1..19 : n \in Bytes
    BY DEF Bytes
  <2>2. p[6] \in Bytes /\ p[7] \in Bytes /\ p[8] \in Bytes /\ p[9] \in Bytes
    BY <1>1, DevInfoBytes
  <2>3. /\ p[1] \in Bytes /\ p[2] \in Bytes /\ p[3] \in Bytes /\ p[4] \in Bytes /\ p[5] \in Bytes
        /\ p[10] \in Bytes /\ p[11] \in Bytes /\ p[12] \in Bytes /\ p[13] \in Bytes
        /\ p[18] \in Bytes /\ p[19] \in Bytes
    BY <1>1, <1>3, <1>5, <2>1
  <2>4. p[14] \in Bytes /\ p[15] \in Bytes /\ p[16] \in Bytes /\ p[17] \in Bytes
    BY <1>1, <1>4, <1>6
  <2> QED BY <2>2, <2>3, <2>4
<1>8. p \in [1..19 -> Bytes]
  BY <1>2, <1>7
<1> QED BY <1>1, <1>3, <1>4, <1>5, <1>8, DevInfoBytes DEF IsPacket, p

-----------------------------------------------------------------------------
(* A payload *)

\* The words of a TS device and their codes.
LEMMA TsCodes ==
  ASSUME device.type = "TS"
  PROVE  \A c \in 1..11 : /\ TsWord(c) \in Words /\ Codes[TsWord(c)] = c
                          /\ \A w \in Words : Codes[w] = c => w = TsWord(c)
<1>1. /\ Codes[1] = 1 /\ Codes[2] = 2 /\ Codes[3] = 3 /\ Codes[4] = 4 /\ Codes[5] = 5
      /\ Codes[6] = 6 /\ Codes[7] = 0 /\ Codes[8] = 0 /\ Codes[9] = 0 /\ Codes[10] = 0
      /\ Codes[11] = 0 /\ Codes[12] = 0 /\ Codes[13] = 7 /\ Codes[14] = 8 /\ Codes[15] = 9
      /\ Codes[16] = 10 /\ Codes[17] = 0 /\ Codes[18] = 0 /\ Codes[19] = 11
  BY DEF Codes
<1> QED BY <1>1 DEF TsWord, Words

\* The packets of a payload: at most fourteen, each of a word that has a code.
Packs(words) ==
  /\ words \in Seq(Words) /\ Len(words) \in 1..14
  /\ \A i \in 1..Len(words) : Codes[words[i]] \in 1..19

\* The words packed at a step are such.
LEMMA PackedWordsPack ==
  ASSUME IsDevice(device), NEW step \in 1..LastCode
  PROVE  Packs(PackedWords(step))
<1>1. CASE device.type = "TS"
  <2>1. step \in 1..11
    BY <1>1 DEF LastCode
  <2>2. PackedWords(step) = <<TsWord(step)>>
    <3>1. (CHOOSE w \in Words : Codes[w] = step) = TsWord(step)
      BY <1>1, <2>1, TsCodes
    <3> QED BY <1>1, <3>1 DEF PackedWords
  <2>3. Codes[TsWord(step)] = step /\ TsWord(step) \in Words
    BY <1>1, <2>1, TsCodes
  <2>4. step \in 1..19
    BY <2>1
  <2> DEFINE w == TsWord(step)
  <2> HIDE DEF w
  <2>5. <<w>> \in Seq(Words) /\ Len(<<w>>) = 1 /\ \A i \in 1..1 : Codes[<<w>>[i]] \in 1..19
    BY <2>3, <2>4 DEF w
  <2>6. Len(<<w>>) \in 1..14
    BY <2>5
  <2> QED BY <2>2, <2>5, <2>6 DEF Packs, w
<1>2. CASE device.type # "TS"
  <2>1. step \in Words
    BY <1>2 DEF LastCode, Words
  <2>2. \A w \in Words : Codes[w] \in 1..19
    BY <1>2 DEF Codes, Words
  <2> DEFINE rest == [i \in 1..13 |-> i + 6]
  <2>3. rest \in Seq(Words) /\ Len(rest) = 13
    <3>1. rest \in [1..13 -> Words]
      BY DEF Words
    <3> HIDE DEF rest
    <3> QED BY <3>1, FunctionIsSeq
  <2>4. CASE step < 7
    <3>1. PackedWords(step) = <<step>> \o rest
      BY <1>2, <2>4 DEF PackedWords
    <3> HIDE DEF rest
    <3>2. <<step>> \o rest \in Seq(Words) /\ Len(<<step>> \o rest) = 13 + 1
      BY <2>1, <2>3, Led
    <3>3. 13 + 1 \in 1..14
      OBVIOUS
    <3>4. Len(<<step>> \o rest) \in 1..14
      BY ONLY <3>2, <3>3
    <3> QED BY <2>2, <3>1, <3>2, <3>4, SMTT(40) DEF Packs
  <2>5. CASE ~(step < 7)
    <3>1. PackedWords(step) = <<>> \o rest
      BY <1>2, <2>5 DEF PackedWords
    <3>2. PackedWords(step) = rest
      BY <2>3, <3>1
    <3> HIDE DEF rest
    <3>3. 13 \in 1..14
      OBVIOUS
    <3>4. Len(rest) \in 1..14
      BY ONLY <2>3, <3>3
    <3>5. rest \in Seq(Words)
      BY <2>3
    <3>6. \A i \in 1..Len(rest) : rest[i] \in Words
      BY ONLY <3>5
    <3>7. \A i \in 1..Len(rest) : Codes[rest[i]] \in 1..19
      BY ONLY <2>2, <3>6
    <3> QED BY ONLY <3>2, <3>4, <3>5, <3>7 DEF Packs
  <2> QED BY <2>4, <2>5
<1> QED BY <1>1, <1>2

\* The packet of the q-th word, counted from 0.
PacketOf(f, words, q) == MakeSensorValue(Codes[words[q + 1]], f[words[q + 1]])

\* A payload is the packets of its words, one after the other.
LEMMA PayloadBytes ==
  ASSUME IsDevice(device), NEW f, IsFrame(f), NEW step \in 1..LastCode
  PROVE  LET words   == PackedWords(step)
             payload == MakeSensorPayloadData(f, step)
         IN /\ payload \in Seq(Bytes) /\ Len(payload) = 19 * Len(words)
            /\ \A q \in 0..(Len(words) - 1), r \in 1..19 :
                 payload[19 * q + r] = PacketOf(f, words, q)[r]
<1> DEFINE words   == PackedWords(step)
           payload == MakeSensorPayloadData(f, step)
           packets == [i \in 1..Len(words) |-> MakeSensorValue(Codes[words[i]], f[words[i]])]
           total   == 19 * Len(words)
<1>1. payload = [b \in 1..total |-> packets[((b - 1) \div 19) + 1][((b - 1) % 19) + 1]]
  BY DEF MakeSensorPayloadData, PacketLen
<1> DEFINE n == Len(words)
<1>2. /\ words \in Seq(Words) /\ n \in 1..14
      /\ \A i \in 1..n : Codes[words[i]] \in 1..19
  BY PackedWordsPack DEF Packs
<1>3. ASSUME NEW i \in 1..n
      PROVE  packets[i] \in [1..19 -> Bytes]
  <2>1. words[i] \in Words /\ Codes[words[i]] \in 1..19
    BY <1>2, <1>3
  <2>2. f[words[i]] \in Word
    BY <2>1 DEF IsFrame
  <2>3. packets[i] = MakeSensorValue(Codes[words[i]], f[words[i]])
    BY <1>2
  <2> HIDE DEF words, packets, n
  <2> QED BY <2>1, <2>2, <2>3, PacketBytes DEF IsPacket
<1>4. ASSUME NEW b \in 1..total
      PROVE  payload[b] \in Bytes
  <2> HIDE DEF payload, packets, words, n, total
  <2>1. payload[b] = packets[((b - 1) \div 19) + 1][((b - 1) % 19) + 1]
    BY <1>1
  <2>2. n \in Int /\ b - 1 \in Int /\ 0 <= b - 1 /\ b - 1 <= 19 * n - 1
    BY <1>2 DEF total, n
  <2>3. ((b - 1) \div 19) + 1 \in 1..n
    BY ONLY <2>2, SMT
  <2>4. ((b - 1) % 19) + 1 \in 1..19
    BY ONLY <2>2, SMT
  <2> QED BY <1>3, <2>1, <2>3, <2>4
<1>5. payload \in Seq(Bytes) /\ Len(payload) = total
  <2>1. total \in Nat
    BY <1>2 DEF total
  <2> HIDE DEF packets, words, n, total
  <2>2. payload \in [1..total -> Bytes]
    BY <1>1, <1>4
  <2> HIDE DEF payload
  <2>3. payload \in Seq(Bytes)
    BY <2>1, <2>2, SeqDef
  <2> QED BY <2>1, <2>2, <2>3
<1>6. ASSUME NEW q \in 0..(n - 1), NEW r \in 1..19
      PROVE  payload[19 * q + r] = packets[q + 1][r]
  <2>1. q \in Int /\ r - 1 \in Int /\ 0 <= r - 1 /\ r - 1 < 19
    OBVIOUS
  <2>2. (19 * q + (r - 1)) \div 19 = q /\ (19 * q + (r - 1)) % 19 = r - 1
    BY ONLY <2>1, SMT
  <2>3. 19 * q + r \in 1..total /\ (19 * q + r) - 1 = 19 * q + (r - 1)
    BY <1>2
  <2> HIDE DEF payload, packets, words, n, total
  <2> QED BY <1>1, <2>2, <2>3
<1>7. ASSUME NEW q \in 0..(n - 1)
      PROVE  packets[q + 1] = PacketOf(f, words, q)
  BY <1>2 DEF PacketOf
<1> HIDE DEF payload, packets, words
<1> QED BY <1>2, <1>5, <1>6, <1>7 DEF payload, words

-----------------------------------------------------------------------------
(* A chunk of it *)

\* A piece of a byte sequence.
LEMMA Piece ==
  ASSUME NEW s \in Seq(Bytes), NEW a \in Nat, NEW c \in Nat, a <= c, c <= Len(s)
  PROVE  /\ SubSeq(s, a + 1, c) \in Seq(Bytes)
         /\ Len(SubSeq(s, a + 1, c)) = c - a
         /\ \A i \in 1..(c - a) : SubSeq(s, a + 1, c)[i] = s[a + i]
OBVIOUS

\* A piece of so many bytes.
LEMMA PieceOf ==
  ASSUME NEW s \in Seq(Bytes), NEW a \in Nat, NEW c \in Nat, NEW n \in Nat,
         c = a + n, c <= Len(s)
  PROVE  /\ SubSeq(s, a + 1, c) \in Seq(Bytes)
         /\ Len(SubSeq(s, a + 1, c)) = n
         /\ \A i \in 1..n : SubSeq(s, a + 1, c)[i] = s[a + i]
<1>1. c - a = n /\ a <= c
  OBVIOUS
<1> QED BY <1>1, Piece

\* What a chunk that is published holds of the payload: it has 18 bytes or more,
\* and they are read where the chunk begins.
ChunkAt(chunk, payload, k) ==
  /\ Len(chunk) >= 18 /\ 27 * k + Len(chunk) <= Len(payload)
  /\ \A j \in 1..Len(chunk) : chunk[j] = payload[27 * k + j]

\* The bytes of a chunk of the part of a payload that is sent.
LEMMA ChunkBytes ==
  ASSUME NEW payload \in Seq(Bytes), NEW k \in DOMAIN Chunks(Handed(payload)),
         Accepts(Chunks(Handed(payload))[k])
  PROVE  /\ k - 1 \in Nat /\ Chunks(Handed(payload))[k] \in Seq(Bytes)
         /\ ChunkAt(Chunks(Handed(payload))[k], payload, k - 1)
<1> DEFINE part == Handed(payload)
           m    == Len(payload) % 256
           c    == IF 27 * k < m THEN 27 * k ELSE m
           a    == 27 * (k - 1)
           chunk == Chunks(part)[k]
<1>1. m \in Nat /\ m <= Len(payload)
  <2>1. Len(payload) \in Int /\ 0 <= Len(payload)
    OBVIOUS
  <2> QED BY ONLY <2>1, SMT
<1>2. /\ part \in Seq(Bytes) /\ Len(part) = m
      /\ \A i \in 1..m : part[i] = payload[i]
  <2> HIDE DEF m
  <2>1. part = SubSeq(payload, 0 + 1, m)
    BY DEF Handed, m
  <2> HIDE DEF part
  <2> QED BY <1>1, <2>1, Piece
<1> HIDE DEF m, part
<1>3. k \in 1..((m + 26) \div 27)
  BY <1>2 DEF Chunks, part
<1>4. k \in Nat /\ 1 <= k /\ a \in Nat /\ a < m
  <2>1. k \in Int /\ 1 <= k /\ k <= (m + 26) \div 27
    BY <1>1, <1>3
  <2>2. a < m
    BY ONLY <1>1, <2>1, SMT
  <2> QED BY <2>1, <2>2
<1>5. chunk = SubSeq(part, a + 1, c)
  BY <1>2, <1>3 DEF Chunks
<1>6. c \in Nat /\ a <= c /\ c <= m
  BY <1>1, <1>4
<1> HIDE DEF c, a
<1>7. chunk \in Seq(Bytes) /\ Len(chunk) = c - a /\ \A i \in 1..(c - a) : chunk[i] = part[a + i]
  BY <1>2, <1>4, <1>5, <1>6, Piece
<1>8. 18 <= c - a
  BY <1>7 DEF Accepts, part
<1>9. a + (c - a) <= m /\ Len(chunk) = c - a
  BY <1>1, <1>4, <1>6, <1>7
<1>10. ASSUME NEW j \in 1..Len(chunk)
       PROVE  chunk[j] = payload[a + j]
  <2>1. j \in 1..(c - a) /\ a + j \in 1..m
    BY <1>1, <1>4, <1>6, <1>8, <1>9
  <2> QED BY <1>2, <1>7, <2>1
<1> HIDE DEF chunk
<1>11. Len(chunk) >= 18 /\ a + Len(chunk) <= Len(payload)
  BY <1>1, <1>4, <1>6, <1>8, <1>9
<1> QED BY <1>4, <1>7, <1>10, <1>11 DEF ChunkAt, chunk, part, a

\* A reading is that of a word of the frame.
Measured(reading, f) ==
  \E w \in Words :
    /\ reading.machine = DevInfo
    /\ Codes[w] = reading.code
    /\ Reverse(f[w]) = reading.value
    /\ reading.decimals = IF Codes[w] \in PressCodes THEN 3 ELSE 1

\* The catalogue has codes of one byte only.
LEMMA CatalogueBytes ==
  ASSUME NEW chunk \in Seq(Bytes), 18 <= Len(chunk), InCatalogue(chunk)
  PROVE  chunk[10] = 0 /\ chunk[11] # 0
<1> DEFINE h == chunk[10]
           l == chunk[11]
<1>1. h \in 0..255 /\ l \in 0..255
  <2>1. 10 \in 1..Len(chunk) /\ 11 \in 1..Len(chunk)
    OBVIOUS
  <2>2. h \in Bytes /\ l \in Bytes
    BY <2>1
  <2> QED BY <2>2 DEF Bytes
<1>2. 256 * h + l \in 1..255
  <2> DEFINE entry == <<Machine(chunk), Code(chunk)>>
  <2>1. entry \in Catalogue
    BY DEF InCatalogue
  <2>2. Code(chunk) \in 1..255
    <3> HIDE DEF entry
    <3>1. \A e \in Catalogue : e \in [1..4 -> Bytes] \X (1..255)
      BY PayloadConstantsOK DEF PayloadConstantsOK
    <3>2. entry \in [1..4 -> Bytes] \X (1..255)
      BY <2>1, <3>1
    <3>3. entry[2] \in 1..255
      BY ONLY <3>2
    <3> QED BY ONLY <3>3 DEF entry
  <2> QED BY <2>2 DEF Code
<1> HIDE DEF h, l
<1>3. h = 0 /\ l # 0
  BY ONLY <1>1, <1>2, SMT
<1> QED BY <1>3 DEF h, l

\* A chunk with the bytes of the device's identity in their place is its own.
LEMMA MachineIs ==
  ASSUME IsDevice(device), NEW chunk \in Seq(Bytes), 9 <= Len(chunk),
         chunk[6] = DevInfo[1], chunk[7] = DevInfo[2],
         chunk[8] = DevInfo[3], chunk[9] = DevInfo[4]
  PROVE  Machine(chunk) = DevInfo
<1> DEFINE s == SubSeq(chunk, 5 + 1, 9)
<1>1. 5 \in Nat /\ 9 \in Nat /\ 4 \in Nat /\ 9 = 5 + 4
  OBVIOUS
<1>2. s \in Seq(Bytes) /\ Len(s) = 4 /\ \A i \in 1..4 : s[i] = chunk[5 + i]
  BY ONLY <1>1, chunk \in Seq(Bytes), 9 <= Len(chunk), PieceOf
<1>3. DevInfo \in Seq(Bytes) /\ Len(DevInfo) = 4
  <2>1. DevInfo = [i \in 1..4 |-> DevInfo[i]]
    BY DEF DevInfo
  <2>2. DevInfo \in [1..4 -> Bytes]
    BY <2>1, DevInfoBytes
  <2> QED BY ONLY <2>2, 4 \in Nat, FunctionIsSeq
<1>4. \A i \in 1..4 : s[i] = DevInfo[i]
  <2> HIDE DEF s
  <2>1. s[1] = chunk[6] /\ s[2] = chunk[7] /\ s[3] = chunk[8] /\ s[4] = chunk[9]
    BY <1>2
  <2> QED BY <2>1
<1>5. Machine(chunk) = s
  BY DEF Machine
<1> HIDE DEF s
<1> QED BY <1>2, <1>3, <1>4, <1>5

\* The bytes of a chunk lie in two packets, from the (o+1)-th of the first one on.
Straddles(chunk, p, q, o) ==
  \A j \in 1..18 : chunk[j] = IF o + j <= 19 THEN p[o + j] ELSE q[o + j - 19]

\* A chunk whose bytes lie so and which is taken for a packet begins where the first one
\* does: elsewhere it has no STX in front, or no ETX, or a code of two bytes or none.
LEMMA ChunkBeginsPacket ==
  ASSUME IsDevice(device), NEW o \in 0..18, o # 14, NEW chunk,
         NEW p, NEW q, NEW codeP \in 1..19, NEW codeQ, NEW wordP, NEW wordQ,
         IsPacket(p, codeP, wordP), o # 0 => IsPacket(q, codeQ, wordQ),
         Straddles(chunk, p, q, o), chunk[1] = 2, chunk[10] = 0, chunk[11] # 0,
         chunk[17] = 3 \/ (o = 7 => q[7] = 3)
  PROVE  o = 0
<1>1. chunk[1] = p[o + 1]
  BY o + 1 <= 19, 1 \in 1..18 DEF Straddles
<1>2. p[o + 1] = 2
  BY <1>1
<1>3. ASSUME o # 0
      PROVE  FALSE
  <2>1. o \in {7, 8, 10, 13, 15, 16}
    <3>1. o \notin {1, 2, 3, 4}
      BY <1>2 DEF IsPacket, Straddles
    <3>2. o \notin {5, 6}
      BY <1>2 DEF IsPacket, Straddles
    <3>3. o \notin {9, 11, 12, 18}
      BY <1>2 DEF IsPacket, Straddles
    <3>4. o # 17
      BY <1>2 DEF IsPacket, Straddles
    <3> QED BY <1>3, <3>1, <3>2, <3>3, <3>4
  <2>2. IsPacket(q, codeQ, wordQ)
    BY <1>3
  <2>3. CASE o = 7
    <3>1. chunk[17] = q[5]
      BY <2>3 DEF Straddles
    <3> QED BY <2>2, <2>3, <3>1 DEF IsPacket
  <2>4. CASE o = 8
    BY <2>4 DEF IsPacket, Straddles
  <2>5. CASE o = 10
    <3>1. chunk[10] = q[1]
      BY <2>5 DEF Straddles
    <3> QED BY <2>2, <3>1 DEF IsPacket, Straddles
  <2>6. CASE o = 13
    <3>1. chunk[11] = q[5]
      BY <2>6 DEF Straddles
    <3> QED BY <2>2, <3>1 DEF IsPacket, Straddles
  <2>7. CASE o = 15
    <3>1. chunk[10] = q[6]
      BY <2>7 DEF Straddles
    <3> QED BY <2>2, <3>1 DEF IsPacket, Straddles
  <2>8. CASE o = 16
    <3>1. chunk[10] = q[7]
      BY <2>8 DEF Straddles
    <3> QED BY <2>2, <3>1 DEF IsPacket, Straddles
  <2> QED BY <2>1, <2>3, <2>4, <2>5, <2>6, <2>7, <2>8
<1> QED BY <1>3

\* What the server publishes of a chunk was measured.
LEMMA ChunkMeasured ==
  ASSUME IsDevice(device), NEW f, IsFrame(f), NEW step \in 1..LastCode,
         NEW chunk \in Seq(Bytes), NEW k \in Nat,
         ChunkAt(chunk, MakeSensorPayloadData(f, step), k),
         Accepts(chunk), InCatalogue(chunk)
  PROVE  Measured(Converted(chunk), f)
<1> DEFINE payload == MakeSensorPayloadData(f, step)
           words   == PackedWords(step)
           n == Len(words)
           o == (27 * k) % 19
           q == (27 * k) \div 19
           p(i) == PacketOf(f, words, i)
           code(i) == Codes[words[i + 1]]
           word(i) == f[words[i + 1]]
<1>1. /\ Len(payload) = 19 * n
      /\ \A i \in 0..(n - 1), r \in 1..19 : payload[19 * i + r] = p(i)[r]
  BY PayloadBytes
<1>2. n \in 1..14 /\ \A i \in 0..(n - 1) : words[i + 1] \in Words /\ code(i) \in 1..19
  <2>1. Packs(words)
    BY PackedWordsPack
  <2> HIDE DEF words
  <2>2. n \in 1..14 /\ words \in Seq(Words)
    BY <2>1 DEF Packs
  <2>3. ASSUME NEW i \in 0..(n - 1)
        PROVE  words[i + 1] \in Words /\ code(i) \in 1..19
    <3>1. i + 1 \in 1..n
      BY <2>2
    <3>2. words[i + 1] \in Words
      BY <2>2, <3>1
    <3>3. Codes[words[i + 1]] \in 1..19
      BY <2>1, <3>1 DEF Packs
    <3> QED BY <3>2, <3>3
  <2> HIDE DEF n, code
  <2> QED BY <2>2, <2>3
<1>3. \A i \in 0..(n - 1) : IsPacket(p(i), code(i), word(i))
  <2> HIDE DEF words, n
  <2>1. \A i \in 0..(n - 1) : words[i + 1] \in Words /\ word(i) \in Word
    BY <1>2 DEF IsFrame
  <2> QED BY <1>2, <2>1, PacketBytes DEF PacketOf
<1>4. /\ Len(chunk) \in Nat /\ Len(chunk) >= 18 /\ 27 * k + Len(chunk) <= 19 * n
      /\ \A j \in 1..Len(chunk) : chunk[j] = payload[27 * k + j]
  BY <1>1 DEF ChunkAt
<1>5. 27 * k = 19 * q + o /\ o \in 0..18 /\ q \in Nat
  <2>1. k \in Int /\ 0 <= k
    OBVIOUS
  <2> QED BY ONLY <2>1, SMT
<1>6. /\ 18 <= Len(chunk) /\ chunk[1] = 2
      /\ chunk[17] = 3 \/ (Len(chunk) >= 19 /\ chunk[19] = 3)
  BY DEF Accepts, STX, ETX
<1>7. chunk[10] = 0 /\ chunk[11] # 0
  BY <1>6, CatalogueBytes
<1> HIDE DEF payload, words, n, o, q, p, code, word
<1>8. q \in 0..(n - 1) /\ (o > 1 => q + 1 \in 0..(n - 1))
  <2>1. n \in Int /\ q \in Int /\ 0 <= q /\ o \in Int /\ 0 <= o
    BY <1>2, <1>5
  <2>2. 19 * q + o + 18 <= 19 * n
    BY ONLY <1>4, <1>5, <2>1
  <2>3. q <= n - 1 /\ (o > 1 => q + 1 <= n - 1)
    BY ONLY <2>1, <2>2, SMT
  <2> QED BY <2>1, <2>3
\* A payload of 14 packets is too short for a chunk that begins there.
<1>9. o # 14
  <2>1. n \in 1..14 /\ k \in Int /\ 0 <= k /\ q \in Int /\ 27 * k + 18 <= 19 * n
    BY <1>2, <1>4, <1>5
  <2>2. 27 * k # 19 * q + 14
    BY ONLY <2>1, SMT
  <2> QED BY <1>5, <2>2
<1>10. ASSUME NEW j \in 1..19, j <= Len(chunk), o + j <= 19
      PROVE  chunk[j] = p(q)[o + j]
  <2>1. o + j \in 1..19 /\ 27 * k + j = 19 * q + (o + j) /\ j \in 1..Len(chunk)
    BY <1>4, <1>5, <1>10
  <2>2. chunk[j] = payload[19 * q + (o + j)]
    BY <1>4, <2>1
  <2> QED BY <1>1, <1>8, <2>1, <2>2
<1>11. ASSUME NEW j \in 1..19, j <= Len(chunk), o > 1, ~(o + j <= 19)
       PROVE  chunk[j] = p(q + 1)[o + j - 19]
  <2>1. o > 1 /\ o + j - 19 \in 1..19 /\ 27 * k + j = 19 * (q + 1) + (o + j - 19)
        /\ j \in 1..Len(chunk)
    BY <1>4, <1>5, <1>11
  <2>2. chunk[j] = payload[19 * (q + 1) + (o + j - 19)]
    BY <1>4, <2>1
  <2> QED BY <1>1, <1>8, <2>1, <2>2
<1>12. o = 0
  <2>1. CASE o = 1
    <3>1. chunk[1] = p(q)[2]
      <4>1. 1 \in 1..19 /\ 1 <= Len(chunk) /\ o + 1 <= 19 /\ o + 1 = 2
        BY ONLY <1>4, <2>1
      <4> QED BY <1>10, <4>1
    <3>2. p(q)[2] = 0
      BY <1>3, <1>8 DEF IsPacket
    <3> QED BY <1>6, <3>1, <3>2
  <2>2. CASE o # 1
    <3>1. o # 0 => IsPacket(p(q + 1), code(q + 1), word(q + 1))
      BY <1>3, <1>5, <1>8, <2>2
    <3>2. IsPacket(p(q), code(q), word(q)) /\ code(q) \in 1..19
      BY <1>2, <1>3, <1>8
    <3>3. Straddles(chunk, p(q), p(q + 1), o)
      <4>1. ASSUME NEW j \in 1..18
            PROVE  chunk[j] = IF o + j <= 19 THEN p(q)[o + j] ELSE p(q + 1)[o + j - 19]
        <5>1. j \in 1..19 /\ j <= Len(chunk) /\ (~(o + j <= 19) => o > 1)
          BY <1>4, <1>5
        <5>2. CASE o + j <= 19
          BY <1>10, <5>1, <5>2
        <5>3. CASE ~(o + j <= 19)
          BY <1>11, <5>1, <5>3
        <5> QED BY <5>2, <5>3
      <4> QED BY <4>1 DEF Straddles
    <3>4. chunk[17] = 3 \/ (o = 7 => p(q + 1)[7] = 3)
      <4>1. CASE Len(chunk) >= 19 /\ chunk[19] = 3 /\ o = 7
        <5>1. chunk[19] = p(q + 1)[o + 19 - 19]
          BY <1>11, <4>1
        <5> QED BY <4>1, <5>1
      <4> QED BY <1>6, <4>1
    <3> QED BY <1>5, <1>6, <1>7, <1>9, <3>1, <3>2, <3>3, <3>4, ChunkBeginsPacket, ZenonT(40)
  <2> QED BY <2>1, <2>2
<1>13. \A j \in 1..18 : chunk[j] = p(q)[j]
  <2>1. \A j \in 1..18 : j \in 1..19 /\ j <= Len(chunk) /\ 0 + j <= 19 /\ 0 + j = j
    BY <1>4
  <2> QED BY <1>10, <1>12, <2>1
<1> DEFINE w == words[q + 1]
<1>14. w \in Words /\ Codes[w] \in 1..19 /\ f[w] \in Word /\ IsPacket(p(q), Codes[w], f[w])
  BY <1>2, <1>3, <1>8 DEF code, word, IsFrame
<1>15. /\ chunk[10] = 0 /\ chunk[11] = Codes[w]
       /\ chunk[14] = f[w][4] /\ chunk[15] = f[w][3]
       /\ chunk[16] = f[w][2] /\ chunk[17] = f[w][1]
       /\ chunk[18] = IF Codes[w] \in PressCodes THEN 3 ELSE 1
  <2> HIDE DEF w
  <2>1. /\ chunk[10] = p(q)[10] /\ chunk[11] = p(q)[11] /\ chunk[14] = p(q)[14]
        /\ chunk[15] = p(q)[15] /\ chunk[16] = p(q)[16] /\ chunk[17] = p(q)[17]
        /\ chunk[18] = p(q)[18]
    BY <1>13
  <2> QED BY ONLY <1>14, <2>1 DEF IsPacket
<1>16. SubSeq(chunk, 14, 17) = Reverse(f[w])
  <2> DEFINE s == SubSeq(chunk, 13 + 1, 17)
             t == Value(f[w])
  <2>1. 13 \in Nat /\ 17 \in Nat /\ 13 <= 17 /\ 17 <= Len(chunk) /\ 17 - 13 = 4
    BY <1>6
  <2>2. s \in Seq(Bytes) /\ Len(s) = 4 /\ \A i \in 1..4 : s[i] = chunk[13 + i]
    BY <2>1, Piece
  <2> HIDE DEF w
  <2>3. /\ t \in Seq(Bytes) /\ Len(t) = 4
        /\ t[1] = f[w][4] /\ t[2] = f[w][3] /\ t[3] = f[w][2] /\ t[4] = f[w][1]
    BY <1>14, ValueBytes
  <2> HIDE DEF s, t
  <2>4. \A i \in 1..4 : s[i] = t[i]
    <3>1. s[1] = chunk[14] /\ s[2] = chunk[15] /\ s[3] = chunk[16] /\ s[4] = chunk[17]
      BY ONLY <2>2
    <3>2. s[1] = t[1] /\ s[2] = t[2] /\ s[3] = t[3] /\ s[4] = t[4]
      BY ONLY <1>15, <2>3, <3>1
    <3> QED BY ONLY <3>2
  <2>5. s = t
    BY ONLY <2>2, <2>3, <2>4, SeqEqual
  <2> QED BY <2>5 DEF s, t, Value
<1> HIDE DEF w
<1>17. 256 * chunk[10] + chunk[11] = Codes[w]
  <2>1. \A c \in 1..19 : 256 * 0 + c = c
    OBVIOUS
  <2>2. Codes[w] \in 1..19 /\ chunk[10] = 0 /\ chunk[11] = Codes[w]
    BY <1>14, <1>15
  <2> QED BY ONLY <2>1, <2>2, ZenonT(40)
<1>18. Machine(chunk) = DevInfo
  <2>1. /\ chunk[6] = p(q)[6] /\ chunk[7] = p(q)[7]
        /\ chunk[8] = p(q)[8] /\ chunk[9] = p(q)[9]
    BY <1>13
  <2>2. /\ p(q)[6] = DevInfo[1] /\ p(q)[7] = DevInfo[2]
        /\ p(q)[8] = DevInfo[3] /\ p(q)[9] = DevInfo[4]
    <3>1. IsPacket(p(q), Codes[w], f[w])
      BY <1>14
    <3> DEFINE packet == p(q)
    <3>2. /\ packet[6] = 84 /\ packet[7] = IF device.type = "TS" THEN 83 ELSE 75
          /\ packet[8] = device.num \div 256 /\ packet[9] = device.num % 256
      BY ONLY <3>1, Zenon DEF IsPacket
    <3>3. /\ DevInfo[1] = 84 /\ DevInfo[2] = IF device.type = "TS" THEN 83 ELSE 75
          /\ DevInfo[3] = device.num \div 256 /\ DevInfo[4] = device.num % 256
      BY DevInfoBytes, Zenon
    <3> HIDE DEF packet
    <3>4. /\ packet[6] = DevInfo[1] /\ packet[7] = DevInfo[2]
          /\ packet[8] = DevInfo[3] /\ packet[9] = DevInfo[4]
      BY ONLY <3>2, <3>3, ZenonT(40)
    <3> QED BY <3>4 DEF packet
  <2>3. 9 <= Len(chunk)
    BY <1>4
  <2> QED BY <2>1, <2>2, <2>3, MachineIs
<1> QED BY <1>14, <1>15, <1>16, <1>17, <1>18 DEF Measured, Converted, Reading, Code

\* So whatever the server publishes of a payload was measured.
LEMMA PayloadMeasured ==
  ASSUME IsDevice(device), NEW f, IsFrame(f), NEW step \in 1..LastCode
  PROVE  LET pub == Published(Handed(MakeSensorPayloadData(f, step)))
         IN \A i \in DOMAIN pub : Measured(pub[i], f)
<1> DEFINE payload == MakeSensorPayloadData(f, step)
           chunks  == Chunks(Handed(payload))
           pub     == Published(Handed(payload))
<1>1. payload \in Seq(Bytes)
  BY PayloadBytes
<1> SUFFICES ASSUME NEW i \in DOMAIN pub
             PROVE  Measured(pub[i], f)
  OBVIOUS
<1>2. /\ i \in DOMAIN chunks /\ Accepts(chunks[i]) /\ InCatalogue(chunks[i])
      /\ pub[i] = Converted(chunks[i])
  BY DEF Published
<1> HIDE DEF pub
<1>3. i - 1 \in Nat /\ chunks[i] \in Seq(Bytes) /\ ChunkAt(chunks[i], payload, i - 1)
  <2> HIDE DEF payload
  <2> QED BY <1>1, <1>2, ChunkBytes
<1> HIDE DEF chunks
<1> QED BY <1>2, <1>3, ChunkMeasured

-----------------------------------------------------------------------------
(* A step of a TS device *)

\* The payload of a TS device is one packet, one chunk, one reading.
LEMMA TsPublishes ==
  ASSUME IsDevice(device), device.type = "TS", NEW f, IsFrame(f), NEW step \in 1..LastCode,
         <<DevInfo, step>> \in Catalogue
  PROVE  Published(Handed(MakeSensorPayloadData(f, step))) =
           <<Reading(DevInfo, step, Reverse(f[TsWord(step)]), IF step \in {7, 8} THEN 3 ELSE 1)>>
<1> DEFINE payload == MakeSensorPayloadData(f, step)
           part    == Handed(payload)
           chunk   == Chunks(part)[1]
           w       == TsWord(step)
           pub     == Published(part)
           wanted  == Reading(DevInfo, step, Reverse(f[w]), IF step \in {7, 8} THEN 3 ELSE 1)
<1>1. step \in 1..11 /\ step \in 1..19
  BY DEF LastCode
<1>2. w \in Words /\ Codes[w] = step /\ \A v \in Words : Codes[v] = step => v = w
  BY <1>1, TsCodes
<1>3. PackedWords(step) = <<w>>
  <2>1. (CHOOSE v \in Words : Codes[v] = step) = w
    BY <1>2
  <2> QED BY <2>1 DEF PackedWords
<1> HIDE DEF w
<1>4. /\ payload \in Seq(Bytes) /\ Len(payload) = 19
      /\ \A r \in 1..19 : payload[r] = MakeSensorValue(step, f[w])[r]
  <2>1. Len(<<w>>) = 1 /\ <<w>>[0 + 1] = w /\ 19 * 1 = 19 /\ 0 \in 0..(1 - 1)
    OBVIOUS
  <2>2. /\ payload \in Seq(Bytes) /\ Len(payload) = 19 * 1
        /\ \A q \in 0..(1 - 1), r \in 1..19 : payload[19 * q + r] = PacketOf(f, <<w>>, q)[r]
    <3> DEFINE words == PackedWords(step)
    <3>1. /\ payload \in Seq(Bytes) /\ Len(payload) = 19 * Len(words)
          /\ \A q \in 0..(Len(words) - 1), r \in 1..19 : payload[19 * q + r] = PacketOf(f, words, q)[r]
      BY PayloadBytes
    <3>2. words = <<w>> /\ Len(words) = 1
      BY <1>3, <2>1
    <3> HIDE DEF words, payload
    <3> QED BY <3>1, <3>2
  <2>3. PacketOf(f, <<w>>, 0) = MakeSensorValue(step, f[w])
    BY <1>2, <2>1 DEF PacketOf
  <2>4. \A r \in 1..19 : 19 * 0 + r = r
    OBVIOUS
  <2> HIDE DEF payload
  <2> QED BY <2>1, <2>2, <2>3, <2>4
<1>5. IsPacket(MakeSensorValue(step, f[w]), step, f[w])
  BY <1>1, <1>2, PacketBytes DEF IsFrame
<1>6. /\ payload[1] = 2 /\ payload[6] = DevInfo[1] /\ payload[7] = DevInfo[2]
      /\ payload[8] = DevInfo[3] /\ payload[9] = DevInfo[4]
      /\ payload[10] = 0 /\ payload[11] = step /\ payload[19] = 3
  <2>1. \A r \in {1, 6, 7, 8, 9, 10, 11, 19} : payload[r] = MakeSensorValue(step, f[w])[r]
    BY <1>4
  <2> HIDE DEF payload
  <2> QED BY <1>5, <2>1, DevInfoBytes DEF IsPacket
<1> HIDE DEF payload
<1>7. part \in Seq(Bytes) /\ Len(part) = 19 /\ \A i \in 1..19 : part[i] = payload[i]
  <2>1. 19 % 256 = 19 /\ 0 \in Nat /\ 19 \in Nat /\ 19 <= 19 /\ 19 = 0 + 19 /\ 0 + 1 = 1
    OBVIOUS
  <2>2. part = SubSeq(payload, 0 + 1, 19)
    BY <1>4, <2>1 DEF Handed
  <2>3. \A i \in 1..19 : 0 + i = i
    OBVIOUS
  <2> HIDE DEF part
  <2>4. part \in Seq(Bytes) /\ Len(part) = 19 /\ \A i \in 1..19 : part[i] = payload[0 + i]
    <3>1. payload \in Seq(Bytes) /\ 19 <= Len(payload)
      BY <1>4, <2>1
    <3>2. 0 \in Nat /\ 19 \in Nat /\ 19 = 0 + 19
      BY <2>1
    <3> QED BY ONLY <2>2, <3>1, <3>2, PieceOf, ZenonT(40)
  <2> QED BY <2>3, <2>4
<1> HIDE DEF part
<1>8. DOMAIN Chunks(part) = {1} /\ chunk = SubSeq(part, 0 + 1, 19)
  <2>1. (19 + 26) \div 27 = 1 /\ 1..1 = {1} /\ 27 * (1 - 1) + 1 = 0 + 1 /\ ~(27 * 1 < 19)
    OBVIOUS
  <2>2. Chunks(part) = [k \in {1} |-> SubSeq(part, 27 * (k - 1) + 1, IF 27 * k < 19 THEN 27 * k ELSE 19)]
    BY <1>7, <2>1 DEF Chunks
  <2> QED BY <2>1, <2>2
<1>9. chunk \in Seq(Bytes) /\ Len(chunk) = 19 /\ \A i \in 1..19 : chunk[i] = payload[i]
  <2>1. 0 \in Nat /\ 19 \in Nat /\ 19 <= 19 /\ 19 = 0 + 19
    OBVIOUS
  <2>2. \A i \in 1..19 : 0 + i = i
    OBVIOUS
  <2> HIDE DEF chunk
  <2>3. chunk \in Seq(Bytes) /\ Len(chunk) = 19 /\ \A i \in 1..19 : chunk[i] = part[0 + i]
    <3>1. part \in Seq(Bytes) /\ 19 <= Len(part)
      BY <1>7, <2>1
    <3>2. chunk = SubSeq(part, 0 + 1, 19)
      BY <1>8
    <3> QED BY ONLY <2>1, <3>1, <3>2, PieceOf, ZenonT(40)
  <2> QED BY <1>7, <2>2, <2>3
<1> HIDE DEF chunk
<1>10. \A i \in {1, 6, 7, 8, 9, 10, 11, 19} : chunk[i] = payload[i]
  BY <1>9
<1>11. Accepts(chunk)
  <2>1. Len(chunk) >= 18 /\ Len(chunk) >= 19
    BY ONLY <1>9
  <2>2. chunk[1] = 2 /\ chunk[19] = 3
    BY ONLY <1>6, <1>10
  <2> QED BY ONLY <2>1, <2>2 DEF Accepts, STX, ETX
<1>12. 256 * chunk[10] + chunk[11] = step
  BY <1>1, <1>6, <1>10
<1>13. InCatalogue(chunk)
  <2>1. Machine(chunk) = DevInfo
    <3>1. 9 <= Len(chunk) /\ chunk \in Seq(Bytes)
      BY <1>9
    <3>2. /\ chunk[6] = DevInfo[1] /\ chunk[7] = DevInfo[2]
          /\ chunk[8] = DevInfo[3] /\ chunk[9] = DevInfo[4]
      BY <1>6, <1>10
    <3> QED BY <3>1, <3>2, MachineIs
  <2> QED BY <1>12, <2>1 DEF InCatalogue, Code
<1>14. pub = [k \in {1} |-> Converted(chunk)]
  <2>1. \A k \in DOMAIN Chunks(part) : Chunks(part)[k] = chunk
    BY <1>8 DEF chunk
  <2> QED BY <1>8, <1>11, <1>13, <2>1 DEF Published
<1>15. Converted(chunk) = wanted
  <2>1. Measured(pub[1], f)
    <3>1. 1 \in DOMAIN pub
      BY <1>14
    <3> QED BY <3>1, PayloadMeasured DEF part, payload
  <2>2. PICK v \in Words :
          /\ Converted(chunk).machine = DevInfo
          /\ Codes[v] = Converted(chunk).code
          /\ Reverse(f[v]) = Converted(chunk).value
          /\ Converted(chunk).decimals = IF Codes[v] \in PressCodes THEN 3 ELSE 1
    BY <1>14, <2>1 DEF Measured
  <2>3. Converted(chunk).code = step
    BY <1>12 DEF Converted, Reading, Code
  <2>4. v = w
    BY <1>2, <2>2, <2>3
  <2>5. PressCodes = {7, 8}
    BY DEF PressCodes
  <2>6. Converted(chunk) = [machine |-> Converted(chunk).machine, code |-> Converted(chunk).code,
                            value |-> Converted(chunk).value,
                            decimals |-> Converted(chunk).decimals]
    BY DEF Converted, Reading
  <2> QED BY <2>2, <2>3, <2>4, <2>5, <2>6 DEF Reading
<1> HIDE DEF wanted, pub
<1>16. pub = <<wanted>>
  BY <1>14, <1>15
<1> QED BY <1>16 DEF pub, wanted, part, payload, w

-----------------------------------------------------------------------------
(* Theorems *)

\* The constants are devices and frames.
LEMMA Constants ==
  ASSUME TypeOK
  PROVE  IsDevice(device) /\ \A f \in Frames : IsFrame(f)
<1>1. IsDevice(device)
  BY PayloadConstantsOK DEF PayloadConstantsOK, TypeOK, IsDevice
<1>2. \A f \in Frames : IsFrame(f)
  BY PayloadConstantsOK DEF PayloadConstantsOK, IsFrame, Word
<1> QED BY <1>1, <1>2

\* The frame and the code a step is about.
LEMMA StepIsTyped ==
  ASSUME TypeOK, Step
  PROVE  /\ IsFrame(frame') /\ sensorCodeCount \in 1..LastCode
         /\ made' \in Seq(Bytes) /\ sent' \in Seq(Bytes)
         /\ frame' \in Frames /\ sensorCodeCount' \in 1..LastCode
<1>1. frame' \in Frames
  BY DEF TypeOK, Step
<1>2. IsFrame(frame')
  BY <1>1, Constants
<1>3. made' \in Seq(Bytes)
  BY <1>2, Constants, PayloadBytes DEF Step, TypeOK
<1>4. sent' \in Seq(Bytes)
  <2>1. Len(made') \in Int /\ 0 <= Len(made')
    BY <1>3
  <2> DEFINE m == Len(made') % 256
  <2>2. m \in Nat /\ m <= Len(made')
    BY ONLY <2>1, SMT
  <2>3. sent' = SubSeq(made', 0 + 1, m)
    BY DEF Step, Handed
  <2> HIDE DEF m
  <2> QED BY <1>3, <2>2, <2>3, Piece
<1>5. sensorCodeCount' \in 1..LastCode
  <2>1. LastCode \in {11, 19}
    BY DEF LastCode
  <2> QED BY <2>1 DEF Step, NextCode, TypeOK
<1> QED BY <1>1, <1>2, <1>3, <1>4, <1>5 DEF TypeOK

\* Types: a step packs and hands over bytes only, and its code is one the device
\* has, for every device number and every frame.
THEOREM TypeCorrect == Spec => []TypeOK
<1>1. Init => TypeOK
  <2>1. LastCode \in {11, 19}
    BY DEF LastCode
  <2> QED BY <2>1 DEF Init, TypeOK
<1>2. TypeOK /\ [Next]_vars => TypeOK'
  <2> SUFFICES ASSUME TypeOK, [Next]_vars PROVE TypeOK'
    OBVIOUS
  <2>1. CASE Step
    <3>1. device' = device /\ LastCode' = LastCode
      BY <2>1 DEF Step, LastCode
    <3> QED BY <2>1, <3>1, StepIsTyped DEF TypeOK
  <2>2. CASE UNCHANGED vars
    BY <2>2 DEF vars, TypeOK, LastCode
  <2> QED BY <2>1, <2>2 DEF Next
<1> QED BY <1>1, <1>2, PTL DEF Spec

\* Whatever the server publishes was measured by the device: whatever bytes the
\* numbers have, whatever the device's number is and whatever machines are listed, a
\* chunk of a payload that does not begin where a packet does is refused.
THEOREM MeasuredCorrect == Spec => []PublishedWasMeasured
<1>1. Init => PublishedWasMeasured
  BY DEF Init, PublishedWasMeasured
<1>2. TypeOK /\ PublishedWasMeasured /\ [Next]_vars => PublishedWasMeasured'
  <2> SUFFICES ASSUME TypeOK, PublishedWasMeasured, [Next]_vars
               PROVE  PublishedWasMeasured'
    OBVIOUS
  <2>1. CASE Step
    <3>1. published' = Published(Handed(MakeSensorPayloadData(frame', sensorCodeCount)))
      BY <2>1 DEF Step
    <3>2. \A i \in DOMAIN published' : Measured(published'[i], frame')
      BY <2>1, <3>1, Constants, StepIsTyped, PayloadMeasured
    <3>3. Codes' = Codes /\ PressCodes' = PressCodes /\ DevInfo' = DevInfo
      BY <2>1 DEF Step, Codes, PressCodes, DevInfo, Letters
    <3> QED BY <3>2, <3>3 DEF Measured, PublishedWasMeasured
  <2>2. CASE UNCHANGED vars
    BY <2>2 DEF vars, PublishedWasMeasured, Codes, PressCodes, DevInfo, Letters
  <2> QED BY <2>1, <2>2 DEF Next
<1> QED BY <1>1, <1>2, TypeCorrect, PTL DEF Spec

\* A step of a TS device whose sensor is listed publishes the reading of the sensor
\* whose turn it is, and no other, with the number that was in its word of the frame.
THEOREM TurnCorrect == Spec => TurnIsPublished
<1> DEFINE wanted(code) == <<Reading(DevInfo, code, Reverse(frame'[TsWord(code)]),
                                     IF code \in {7, 8} THEN 3 ELSE 1)>>
<1>1. TypeOK /\ [Next]_vars =>
        [LET code == sensorCodeCount
         IN device.type = "TS" /\ <<DevInfo, code>> \in Catalogue =>
              published' = <<Reading(DevInfo, code, Reverse(frame'[TsWord(code)]),
                                     IF code \in {7, 8} THEN 3 ELSE 1)>>]_vars
  <2> SUFFICES ASSUME TypeOK, Step, device.type = "TS",
                      <<DevInfo, sensorCodeCount>> \in Catalogue
               PROVE  published' = wanted(sensorCodeCount)
    BY DEF Next
  <2>1. published' = Published(Handed(MakeSensorPayloadData(frame', sensorCodeCount)))
    BY DEF Step
  <2> QED BY <2>1, Constants, StepIsTyped, TsPublishes
<1> QED BY <1>1, TypeCorrect, PTL DEF Spec, TurnIsPublished
=============================================================================
