------------------------- MODULE IngestServerProofs -------------------------
(***************************************************************************)
(* Proofs about IngestServer, for any gateways, sensors and catalogues and *)
(* any bounds: its types, that what is acknowledged was published, that a  *)
(* task's messages never go back, and how many readings may be lost.       *)
(***************************************************************************)
EXTENDS IngestServer, TLAPS, SequenceTheorems

-----------------------------------------------------------------------------
(* The operators the actions share *)

LEMMA Numbers ==
  /\ Conns \subseteq Nat \ {0} /\ Ids \subseteq Nat \ {0}
  /\ MaxReadings \in Nat /\ MaxConns \in Nat /\ MaxSplits \in Nat /\ MaxFaults \in Nat
  BY IngestConstantsOK DEF IngestConstantsOK, Conns, Ids

LEMMA ArrivesType ==
  ASSUME TypeOK, NEW g \in Gateways, conn[g] \in Conns, NEW p \in Packets, Arrives(g, p)
  PROVE  /\ inbox' \in [Conns -> Seq(Chunks)] /\ splits' \in 0..MaxSplits
         /\ cuts' \in [Gateways -> Nat]
<1> DEFINE c == conn[g]
<1>0. /\ inbox \in [Conns -> Seq(Chunks)] /\ splits \in 0..MaxSplits
      /\ cuts \in [Gateways -> Nat]
  BY DEF TypeOK
<1>1. p \in Chunks /\ Piece \in Chunks
  BY DEF Chunks
<1>2. <<Piece, Piece>> \in Seq(Chunks)
  BY <1>1
<1>3. Append(inbox[c], p) \in Seq(Chunks) /\ inbox[c] \o <<Piece, Piece>> \in Seq(Chunks)
  BY <1>0, <1>1, <1>2
<1>4. inbox' \in [Conns -> Seq(Chunks)]
  BY <1>0, <1>3 DEF Arrives
<1>5. splits' \in 0..MaxSplits
  BY <1>0, Numbers DEF Arrives
<1>6. cuts' \in [Gateways -> Nat]
  BY <1>0 DEF Arrives
<1> QED BY <1>4, <1>5, <1>6

LEMMA ReceivesType ==
  ASSUME inbox \in [Conns -> Seq(Chunks)], NEW c \in Conns, NEW p, Receives(c, p)
  PROVE  inbox' \in [Conns -> Seq(Chunks)]
<1>1. Tail(inbox[c]) \in Seq(Chunks)
  BY DEF Receives
<1> QED BY <1>1 DEF Receives

LEMMA RepliesType ==
  ASSUME reply \in [Conns -> Seq(Answers)], NEW c \in Conns, NEW a \in Answers,
         Replies(c, a)
  PROVE  reply' \in [Conns -> Seq(Answers)] /\ task' = task
<1>1. Append(reply[c], a) \in Seq(Answers)
  OBVIOUS
<1> QED BY <1>1 DEF Replies

LEMMA ConfigFacMsgType ==
  ASSUME facDaq \in [Conns -> [Gateways -> Messages]], NEW c \in Conns,
         NEW p \in Packets, ConfigFacMsg(c, p)
  PROVE  /\ facDaq' \in [Conns -> [Gateways -> Messages]]
         /\ p.machine \in Gateways /\ p.id \in Ids
<1>1. p.machine \in Gateways /\ p.sensor \in Sensors /\ p.id \in Ids
  BY DEF Packets
<1>2. facDaq[c][p.machine] \in Messages
  BY <1>1
<1>3. [facDaq[c][p.machine] EXCEPT ![p.sensor] = p.id] \in Messages
  BY <1>1, <1>2 DEF Messages
<1>4. [facDaq[c] EXCEPT ![p.machine] = [facDaq[c][p.machine] EXCEPT ![p.sensor] = p.id]]
        \in [Gateways -> Messages]
  BY <1>1, <1>3
<1> QED BY <1>1, <1>4 DEF ConfigFacMsg

LEMMA AppendOne ==
  ASSUME NEW x, NEW y
  PROVE  Head(<<x>>) = x /\ Tail(<<x>>) = <<>> /\ Append(<<x>>, y) = <<x, y>>
<1>1. /\ <<x>> \in Seq({x, y}) /\ <<x, y>> \in Seq({x, y})
      /\ Append(<<x>>, y) \in Seq({x, y})
  OBVIOUS
<1>2. Len(<<x, y>>) = 2 /\ Len(Append(<<x>>, y)) = 2
  BY <1>1
<1>3. \A i \in 1..2 : Append(<<x>>, y)[i] = <<x, y>>[i]
  BY <1>1
<1>4. Append(<<x>>, y) = <<x, y>>
  BY <1>1, <1>2, <1>3, SeqEqual
<1>5. Head(<<x>>) = x /\ Tail(<<x>>) = <<>>
  OBVIOUS
<1> QED BY <1>4, <1>5

LEMMA AnswersAre == {"OK", "NX", "ER", "RAW"} = Answers
  BY DEF Answers

LEMMA BlankType == Blank \in Messages /\ [m \in Gateways |-> Blank] \in [Gateways -> Messages]
  BY DEF Blank, Messages

-----------------------------------------------------------------------------
(* Types *)

LEMMA TypeInit == Init => TypeOK
<1> SUFFICES ASSUME Init PROVE TypeOK
  OBVIOUS
<1> USE Numbers, BlankType, IngestConstantsOK DEF Init
<1>1. /\ catalogue \in Catalogues \cup {NoCatalogue} /\ brokerUp \in BOOLEAN
      /\ mongoUp \in BOOLEAN
  BY DEF IngestConstantsOK
<1>2. /\ task \in [Conns -> {"none", "recv", "ended"}]
      /\ inbox \in [Conns -> Seq(Chunks)] /\ reply \in [Conns -> Seq(Answers)]
      /\ listed \in [Conns -> SUBSET Gateways]
  OBVIOUS
<1>3. /\ facDaq \in [Conns -> [Gateways -> Messages]]
      /\ series \in [Gateways -> Messages]
  OBVIOUS
<1>4. /\ using \in [Conns -> Conns \cup {0}]
      /\ channel \in [Conns \cup {0} -> {"open", "broken", "closed"}]
      /\ conn \in [Gateways -> Conns \cup {0}]
      /\ publisher \in [Gateways -> Conns \cup {0}]
  OBVIOUS
<1>5. /\ waits \in [Gateways -> {<<>>} \cup {<<p>> : p \in Packets}]
      /\ \A g \in Gateways : conn[g] = 0 => waits[g] = <<>>
  OBVIOUS
<1>6. /\ published \subseteq Ids /\ swallowed \subseteq Ids /\ acked \subseteq Ids
      /\ misses \in [Gateways -> Nat] /\ cuts \in [Gateways -> Nat]
  OBVIOUS
<1>7. count \in 0..MaxReadings /\ splits \in 0..MaxSplits /\ faults \in 0..MaxFaults
  OBVIOUS
<1> QED BY ONLY <1>1, <1>2, <1>3, <1>4, <1>5, <1>6, <1>7 DEF TypeOK

LEMMA ConnectType ==
  ASSUME TypeOK, NEW g \in Gateways, Connect(g) PROVE TypeOK'
<1>1. PICK c \in Conns :
        /\ conn' = [conn EXCEPT ![g] = c]
        /\ IF catalogue = NoCatalogue
             THEN /\ task' = [task EXCEPT ![c] = "ended"] /\ catalogue' = Default
                  /\ UNCHANGED listed
             ELSE /\ task' = [task EXCEPT ![c] = "recv"]
                  /\ listed' = [listed EXCEPT ![c] = Known(catalogue)]
                  /\ UNCHANGED catalogue
  BY DEF Connect
<1>2. catalogue # NoCatalogue => Known(catalogue) \in SUBSET Gateways
  BY IngestConstantsOK DEF IngestConstantsOK, Known, TypeOK
<1>3. /\ catalogue' \in Catalogues \cup {NoCatalogue}
      /\ task' \in [Conns -> {"none", "recv", "ended"}]
      /\ listed' \in [Conns -> SUBSET Gateways]
  <2>1. CASE catalogue = NoCatalogue
    BY <1>1, <2>1, IngestConstantsOK DEF IngestConstantsOK, TypeOK
  <2>2. CASE catalogue # NoCatalogue
    <3>1. listed' = [listed EXCEPT ![c] = Known(catalogue)]
      BY <1>1, <2>2
    <3>2. listed' \in [Conns -> SUBSET Gateways]
      BY <1>2, <2>2, <3>1 DEF TypeOK
    <3> QED BY <1>1, <2>2, <3>2 DEF TypeOK
  <2> QED BY <2>1, <2>2
<1>4. /\ conn' \in [Gateways -> Conns \cup {0}]
      /\ \A h \in Gateways : conn'[h] = 0 => waits[h] = <<>>
  BY <1>1, Numbers DEF TypeOK
<1> QED BY <1>3, <1>4 DEF TypeOK, Connect, rabbit, outcome

LEMMA SendType ==
  ASSUME TypeOK, NEW g \in Gateways, Send(g) PROVE TypeOK'
<1>1. count' \in 1..MaxReadings
  BY Numbers DEF Send, TypeOK
<1>2. PICK s \in Sensors :
        LET p == [machine |-> g, sensor |-> s, id |-> count'] IN
        waits' = [waits EXCEPT ![g] = <<p>>] /\ Arrives(g, p)
  BY DEF Send
<1> DEFINE p == [machine |-> g, sensor |-> s, id |-> count']
<1>3. p \in Packets
  BY <1>1 DEF Packets, Ids
<1>4. conn[g] \in Conns /\ conn[g] # 0
  BY DEF Send, TypeOK
<1>5. /\ inbox' \in [Conns -> Seq(Chunks)] /\ splits' \in 0..MaxSplits
      /\ cuts' \in [Gateways -> Nat]
  BY <1>2, <1>3, <1>4, ArrivesType
<1>6. waits' \in [Gateways -> {<<>>} \cup {<<q>> : q \in Packets}]
  BY <1>2, <1>3 DEF TypeOK
<1>7. \A h \in Gateways : conn[h] = 0 => waits'[h] = <<>>
  BY <1>2, <1>4 DEF TypeOK
<1> QED BY <1>1, <1>5, <1>6, <1>7 DEF TypeOK, Send, rabbit, outcome

\* What a gateway waits for is a packet.
LEMMA WaitsForPacket ==
  ASSUME TypeOK, NEW g \in Gateways, waits[g] # <<>>
  PROVE  waits[g][1] \in Packets /\ waits[g] = <<waits[g][1]>> /\ conn[g] \in Conns
<1>1. PICK p \in Packets : waits[g] = <<p>>
  BY DEF TypeOK
<1>2. waits[g][1] = p
  BY <1>1
<1>3. conn[g] \in Conns
  BY DEF TypeOK
<1> QED BY <1>1, <1>2, <1>3

LEMMA HearType ==
  ASSUME TypeOK, NEW g \in Gateways, Hear(g) PROVE TypeOK'
<1> DEFINE c == conn[g]
<1>1. waits[g][1] \in Packets /\ waits[g][1].id \in Ids /\ c \in Conns
  BY WaitsForPacket DEF Hear, Packets
<1>2. reply' \in [Conns -> Seq(Answers)]
  <2>1. reply \in [Conns -> Seq(Answers)] /\ reply[c] # <<>>
    BY DEF Hear, TypeOK
  <2>2. Tail(reply[c]) \in Seq(Answers)
    BY <1>1, <2>1
  <2>3. reply' = [reply EXCEPT ![c] = Tail(reply[c])]
    BY DEF Hear
  <2> QED BY ONLY <2>1, <2>2, <2>3
<1>3. /\ waits' \in {waits, [waits EXCEPT ![g] = <<>>]}
      /\ acked' \in {acked, acked \cup {waits[g][1].id}}
  BY DEF Hear
<1>4. /\ waits' \in [Gateways -> {<<>>} \cup {<<q>> : q \in Packets}]
      /\ \A h \in Gateways : conn[h] = 0 => waits'[h] = <<>>
      /\ acked' \subseteq Ids
  BY <1>1, <1>3 DEF TypeOK
<1> QED BY <1>2, <1>4 DEF TypeOK, Hear, rabbit, outcome

LEMMA RebootsType ==
  ASSUME TypeOK, NEW g \in Gateways, Refused(g) \/ GiveUp(g) PROVE TypeOK'
<1>1. /\ Reboots(g) /\ misses' \in {misses, [misses EXCEPT ![g] = @ + 1]}
  BY DEF Refused, GiveUp
<1>2. /\ conn' \in [Gateways -> Conns \cup {0}]
      /\ waits' \in [Gateways -> {<<>>} \cup {<<p>> : p \in Packets}]
      /\ \A h \in Gateways : conn'[h] = 0 => waits'[h] = <<>>
  BY <1>1 DEF TypeOK, Reboots
<1>3. reply' \in [Conns -> Seq(Answers)]
  <2>1. reply \in [Conns -> Seq(Answers)] /\ <<>> \in Seq(Answers)
    BY DEF TypeOK
  <2>2. reply' = [reply EXCEPT ![conn[g]] = <<>>]
    BY <1>1 DEF Reboots
  <2> QED BY ONLY <2>1, <2>2
<1>4. misses' \in [Gateways -> Nat]
  <2>1. misses \in [Gateways -> Nat] /\ misses[g] + 1 \in Nat
    BY DEF TypeOK
  <2>2. misses' \in {misses, [misses EXCEPT ![g] = misses[g] + 1]}
    BY <1>1
  <2> QED BY ONLY <2>1, <2>2
<1> QED BY <1>1, <1>2, <1>3, <1>4 DEF TypeOK, Reboots, rabbit, outcome

\* What a served chunk changes of the task's own state.
LEMMA ServedType ==
  ASSUME TypeOK, NEW c \in Conns, NEW p, NEW a \in Answers,
         Receives(c, p), Replies(c, a)
  PROVE  /\ inbox' \in [Conns -> Seq(Chunks)] /\ reply' \in [Conns -> Seq(Answers)]
         /\ task' = task
BY ReceivesType, RepliesType DEF TypeOK

LEMMA UnservedType ==
  ASSUME TypeOK, NEW c \in Conns, Unconverted(c) \/ Unlisted(c) \/ LookupFails(c)
  PROVE  TypeOK'
<1>1. \E p : \E a \in Answers : Receives(c, p) /\ Replies(c, a)
  BY AnswersAre DEF Unconverted, Unlisted, LookupFails, Converts
<1>2. /\ inbox' \in [Conns -> Seq(Chunks)] /\ reply' \in [Conns -> Seq(Answers)]
      /\ task' = task
  BY <1>1, ServedType
<1>3. UNCHANGED <<facDaq, gateVars, rabbit, mongoUp, outcome, Aside>>
  BY DEF Unconverted, Unlisted, LookupFails
<1> QED BY <1>2, <1>3 DEF TypeOK, gateVars, rabbit, outcome, Aside

LEMMA PublishType ==
  ASSUME TypeOK, NEW c \in Conns, Publish(c) PROVE TypeOK'
<1>1. PICK p \in Packets :
        /\ Receives(c, p) /\ ConfigFacMsg(c, p)
        /\ \/ channel[using[c]] = "open" /\ UNCHANGED <<using, channel>>
           \/ /\ using' = [using EXCEPT ![c] = c]
              /\ channel' = [channel EXCEPT ![c] = "open"]
        /\ series' = [series EXCEPT ![p.machine] = facDaq'[c][p.machine]]
        /\ publisher' = [publisher EXCEPT ![p.machine] = c]
        /\ published' = published \cup {p.id}
        /\ misses' = [misses EXCEPT ![p.machine] = 0]
        /\ cuts' = [cuts EXCEPT ![p.machine] = 0]
        /\ Replies(c, "OK")
  BY DEF Publish, Converts
<1>2. /\ inbox' \in [Conns -> Seq(Chunks)] /\ reply' \in [Conns -> Seq(Answers)]
      /\ task' = task
  BY <1>1, ServedType, AnswersAre
<1>3. /\ facDaq' \in [Conns -> [Gateways -> Messages]]
      /\ p.machine \in Gateways /\ p.id \in Ids
  BY <1>1, ConfigFacMsgType DEF TypeOK
<1>4. /\ using' \in [Conns -> Conns \cup {0}]
      /\ channel' \in [Conns \cup {0} -> {"open", "broken", "closed"}]
  <2>1. using' \in {using, [using EXCEPT ![c] = c]}
    BY <1>1
  <2>2. channel' \in {channel, [channel EXCEPT ![c] = "open"]}
    BY <1>1
  <2>3. /\ using \in [Conns -> Conns \cup {0}]
        /\ channel \in [Conns \cup {0} -> {"open", "broken", "closed"}]
    BY DEF TypeOK
  <2> QED BY ONLY <2>1, <2>2, <2>3, c \in Conns
<1>5. /\ series' \in [Gateways -> Messages]
      /\ publisher' \in [Gateways -> Conns \cup {0}]
  BY <1>1, <1>3 DEF TypeOK
<1>6. /\ published' \subseteq Ids /\ misses' \in [Gateways -> Nat]
      /\ cuts' \in [Gateways -> Nat]
  BY <1>1, <1>3 DEF TypeOK
<1>7. UNCHANGED <<catalogue, listed, conn, waits, count, acked, brokerUp, mongoUp,
                  swallowed, splits, faults>>
  BY DEF Publish
<1> QED BY <1>2, <1>3, <1>4, <1>5, <1>6, <1>7 DEF TypeOK

LEMMA UnpublishedType ==
  ASSUME TypeOK, NEW c \in Conns, PublishIntoVoid(c) \/ PublishRaises(c)
  PROVE  TypeOK'
<1>1. PICK p \in Packets, a \in Answers :
        /\ Receives(c, p) /\ ConfigFacMsg(c, p) /\ Replies(c, a)
        /\ swallowed' \in {swallowed, swallowed \cup {p.id}}
  BY AnswersAre DEF PublishIntoVoid, PublishRaises, Converts, outcome
<1>2. /\ inbox' \in [Conns -> Seq(Chunks)] /\ reply' \in [Conns -> Seq(Answers)]
      /\ task' = task
  BY <1>1, ServedType
<1>3. /\ facDaq' \in [Conns -> [Gateways -> Messages]]
      /\ p.machine \in Gateways /\ p.id \in Ids
  BY <1>1, ConfigFacMsgType DEF TypeOK
<1>4. /\ channel' \in [Conns \cup {0} -> {"open", "broken", "closed"}]
      /\ swallowed' \subseteq Ids
  BY <1>1, <1>3 DEF PublishIntoVoid, PublishRaises, rabbit, TypeOK
<1>5. UNCHANGED <<gateVars, brokerUp, mongoUp, series, publisher, published, Aside>>
  BY DEF PublishIntoVoid, PublishRaises, rabbit, outcome
<1> QED BY <1>2, <1>3, <1>4, <1>5 DEF TypeOK, gateVars, Aside

LEMMA TaskEndsType ==
  ASSUME TypeOK, NEW c \in Conns, TaskEnds(c) PROVE TypeOK'
<1>1. /\ task' \in [Conns -> {"none", "recv", "ended"}]
      /\ listed' \in [Conns -> SUBSET Gateways]
  BY DEF TaskEnds, TypeOK
<1>2. inbox' \in [Conns -> Seq(Chunks)]
  <2>1. inbox \in [Conns -> Seq(Chunks)] /\ <<>> \in Seq(Chunks)
    BY DEF TypeOK
  <2>2. inbox' = [inbox EXCEPT ![c] = <<>>]
    BY DEF TaskEnds
  <2> QED BY ONLY <2>1, <2>2
<1>3. facDaq' \in [Conns -> [Gateways -> Messages]]
  BY BlankType DEF TaskEnds, TypeOK
<1> QED BY <1>1, <1>2, <1>3 DEF TaskEnds, TypeOK, gateVars, rabbit, outcome

LEMMA FaultType ==
  ASSUME TypeOK, Fault \/ (NoneMissed /\ UNCHANGED faults)
  PROVE  /\ faults' \in 0..MaxFaults
         /\ misses' \in [Gateways -> Nat] /\ cuts' \in [Gateways -> Nat]
<1>1. faults' \in 0..MaxFaults
  BY Numbers DEF Fault, TypeOK
<1> QED BY <1>1 DEF Fault, NoneMissed

LEMMA EnvironmentType ==
  ASSUME TypeOK, Environment PROVE TypeOK'
<1> USE DEF BrokerFails, BrokerReturns, ConnectionTimesOut, MongoFails, MongoReturns,
            CatalogueChanges
<1>1. channel' \in [Conns \cup {0} -> {"open", "broken", "closed"}]
  <2>1. channel \in [Conns \cup {0} -> {"open", "broken", "closed"}]
    BY DEF TypeOK
  <2>2. ASSUME NEW dead, ChannelsBreak(dead)
        PROVE  channel' \in [Conns \cup {0} -> {"open", "broken", "closed"}]
    BY <2>1, <2>2 DEF ChannelsBreak
  <2>3. (\E dead : ChannelsBreak(dead)) \/ UNCHANGED channel
    BY DEF Environment, rabbit
  <2> QED BY <2>1, <2>2, <2>3
<1>2. brokerUp' \in BOOLEAN /\ mongoUp' \in BOOLEAN
  BY DEF Environment, rabbit, TypeOK
<1>3. catalogue' \in Catalogues \cup {NoCatalogue}
  BY DEF Environment, TypeOK
<1>4. Fault \/ (NoneMissed /\ UNCHANGED faults)
  BY DEF Environment
<1>5. UNCHANGED <<taskVars, conn, waits, count, acked, outcome, splits>>
  BY DEF Environment
<1> QED BY <1>1, <1>2, <1>3, <1>4, <1>5, FaultType DEF TypeOK, taskVars, outcome

LEMMA TypeStep == TypeOK /\ [Next]_vars => TypeOK'
<1> SUFFICES ASSUME TypeOK, [Next]_vars PROVE TypeOK'
  OBVIOUS
<1>1. CASE UNCHANGED vars
  BY <1>1 DEF TypeOK, vars, taskVars, gateVars, rabbit, outcome
<1>2. CASE \E g \in Gateways : \/ Connect(g) \/ Send(g) \/ Hear(g)
                               \/ Refused(g) \/ GiveUp(g)
  BY <1>2, ConnectType, SendType, HearType, RebootsType
<1>3. CASE \E c \in Conns : Serve(c) \/ TaskEnds(c)
  BY <1>3, UnservedType, PublishType, UnpublishedType, TaskEndsType DEF Serve
<1>4. CASE Environment
  BY <1>4, EnvironmentType
<1> QED BY <1>1, <1>2, <1>3, <1>4 DEF Next

\* The server's and the gateways' variables keep their types
\* (iiot_tcp_async_server.py).
THEOREM TypeCorrect == Spec => []TypeOK
BY TypeInit, TypeStep, PTL DEF Spec

-----------------------------------------------------------------------------
(* Acknowledgements *)

\* A connection on which nothing happens, and whose gateway waits for the same
\* packet, keeps its exchange.
LEMMA ExchangeKept ==
  ASSUME NEW g, NEW c, ExchangeOn(g, c),
         inbox'[c] = inbox[c], reply'[c] = reply[c], waits'[g] = waits[g],
         published \subseteq published', swallowed \subseteq swallowed'
  PROVE  ExchangeOn(g, c)'
BY DEF ExchangeOn, AnswerIsTrue

\* A task takes the packet of its connection's gateway and answers it.
LEMMA AnswerKeepsExchange ==
  ASSUME AckedInvariant, NEW c \in Conns, NEW p, NEW a \in Answers,
         Receives(c, p), Replies(c, a), UNCHANGED <<conn, waits, acked>>,
         p = Piece => a = "ER",
         published \subseteq published', swallowed \subseteq swallowed',
         a = "OK" => p.id \in published' \cup swallowed'
  PROVE  Connected' /\ Exchange' /\ AckedIsPublished'
<1> USE DEF AckedInvariant
<1>1. task' = task /\ task[c] = "recv"
  BY DEF Receives, Replies
<1>2. \A d \in Conns : d # c => inbox'[d] = inbox[d] /\ reply'[d] = reply[d]
  BY DEF Receives, Replies, TypeOK
<1>3. Connected'
  BY <1>1, <1>2 DEF Connected
<1>4. ASSUME NEW g \in Gateways, conn[g] # 0 PROVE ExchangeOn(g, conn[g])'
  <2>0. ExchangeOn(g, conn[g]) /\ conn[g] \in Conns /\ conn' = conn /\ waits' = waits
    BY <1>4 DEF Exchange, TypeOK
  <2>1. CASE conn[g] # c
    <3>1. ExchangeOn(g, conn[g])'
      BY <1>2, <2>0, <2>1, ExchangeKept
    <3> QED BY <2>0, <3>1
  <2>2. CASE conn[g] = c
    <3>1. inbox[c] # <<>> /\ p = Head(inbox[c]) /\ inbox'[c] = Tail(inbox[c])
      BY DEF Receives, TypeOK
    <3>2. reply'[c] = Append(reply[c], a)
      <4>1. Held(c)
        BY <2>2 DEF Held
      <4> QED BY <4>1 DEF Replies, TypeOK
    <3>3. waits[g] # <<>>
      BY <2>0, <2>2, <3>1 DEF ExchangeOn
    <3>4. CASE inbox[c] = waits[g] /\ reply[c] = <<>>
      <4>1. p = waits[g][1] /\ inbox'[c] = <<>>
        <5>1. PICK q \in Packets : waits[g] = <<q>>
          BY <3>3, WaitsForPacket
        <5>2. Head(<<q>>) = q /\ Tail(<<q>>) = <<>> /\ <<q>>[1] = q
          OBVIOUS
        <5> QED BY <3>1, <3>4, <5>1, <5>2
      <4>2. reply'[c] = <<a>>
        BY <3>2, <3>4
      <4>3. <<a>> = <<"OK">> => a = "OK"
        OBVIOUS
      <4> QED BY <2>0, <2>2, <3>3, <4>1, <4>2, <4>3 DEF ExchangeOn, AnswerIsTrue
    <3>5. CASE inbox[c] = <<Piece, Piece>> /\ reply[c] = <<>>
      <4>1. Head(<<Piece, Piece>>) = Piece /\ Tail(<<Piece, Piece>>) = <<Piece>>
            /\ Append(<<>>, "ER") = <<"ER">>
        OBVIOUS
      <4>2. inbox'[c] = <<Piece>> /\ reply'[c] = <<"ER">>
        BY <3>1, <3>2, <3>5, <4>1
      <4> QED BY <2>0, <2>2, <3>3, <4>2 DEF ExchangeOn
    <3>6. CASE inbox[c] = <<Piece>> /\ reply[c] = <<"ER">>
      <4>1. Head(<<Piece>>) = Piece /\ Tail(<<Piece>>) = <<>>
            /\ Append(<<"ER">>, "ER") = <<"ER", "ER">>
        BY AppendOne
      <4>2. inbox'[c] = <<>> /\ reply'[c] = <<"ER", "ER">>
        BY <3>1, <3>2, <3>6, <4>1
      <4> QED BY <2>0, <2>2, <3>3, <4>2 DEF ExchangeOn
    <3> QED BY <2>0, <2>2, <3>1, <3>4, <3>5, <3>6 DEF ExchangeOn
  <2> QED BY <2>1, <2>2
<1>5. Exchange'
  BY <1>4 DEF Exchange
<1>6. AckedIsPublished'
  BY DEF AckedIsPublished
<1> QED BY <1>3, <1>5, <1>6

\* A packet has a number, a piece has none.
LEMMA PacketNoPiece == \A p \in Packets : p # Piece
<1> SUFFICES ASSUME NEW p \in Packets PROVE p.id # Piece.id
  OBVIOUS
<1> QED BY Numbers DEF Packets, Piece

LEMMA ServeAcked ==
  ASSUME AckedInvariant, NEW c \in Conns, Serve(c)
  PROVE  Connected' /\ Exchange' /\ AckedIsPublished'
<1> USE AnswersAre, PacketNoPiece DEF gateVars, outcome
<1>1. CASE Unconverted(c) \/ Unlisted(c) \/ LookupFails(c)
  <2>1. \E p : \E a \in Answers \ {"OK"} :
          Receives(c, p) /\ Replies(c, a) /\ (p = Piece => a = "ER")
    BY <1>1 DEF Unconverted, Unlisted, LookupFails, Converts
  <2>2. UNCHANGED <<conn, waits, acked, published, swallowed>>
    BY <1>1 DEF Unconverted, Unlisted, LookupFails
  <2> QED BY <2>1, <2>2, AnswerKeepsExchange
<1>2. CASE Publish(c)
  <2>1. \E p : /\ Receives(c, p) /\ Replies(c, "OK") /\ p # Piece
               /\ published' = published \cup {p.id}
    BY <1>2 DEF Publish, Converts
  <2>2. UNCHANGED <<conn, waits, acked, swallowed>>
    BY <1>2 DEF Publish
  <2> QED BY <2>1, <2>2, AnswerKeepsExchange
<1>3. CASE PublishIntoVoid(c)
  <2>1. \E p : /\ Receives(c, p) /\ Replies(c, "OK") /\ p # Piece
               /\ swallowed' = swallowed \cup {p.id}
    BY <1>3 DEF PublishIntoVoid, Converts
  <2>2. UNCHANGED <<conn, waits, acked, published>>
    BY <1>3 DEF PublishIntoVoid
  <2> QED BY <2>1, <2>2, AnswerKeepsExchange
<1>4. CASE PublishRaises(c)
  <2>1. \E p : Receives(c, p) /\ Replies(c, "RAW") /\ p # Piece
    BY <1>4 DEF PublishRaises, Converts
  <2>2. UNCHANGED <<conn, waits, acked, published, swallowed>>
    BY <1>4 DEF PublishRaises
  <2> QED BY <2>1, <2>2, AnswerKeepsExchange
<1> QED BY <1>1, <1>2, <1>3, <1>4 DEF Serve

\* The connection of a gateway is new, so nothing is on it.
LEMMA ConnectAcked ==
  ASSUME AckedInvariant, NEW g \in Gateways, Connect(g)
  PROVE  Connected' /\ Exchange' /\ AckedIsPublished'
<1> USE DEF AckedInvariant
<1>1. PICK c \in Conns :
        /\ task[c] = "none" /\ conn' = [conn EXCEPT ![g] = c]
        /\ task' \in {[task EXCEPT ![c] = "ended"], [task EXCEPT ![c] = "recv"]}
  BY DEF Connect
<1>2. UNCHANGED <<inbox, reply, waits, acked, published, swallowed>>
  BY DEF Connect, outcome
<1>3. inbox[c] = <<>> /\ reply[c] = <<>> /\ c # 0
  BY <1>1, Numbers DEF Connected
<1>4. \A h \in Gateways : h # g => conn'[h] = conn[h] /\ conn[h] # c
  BY <1>1, <1>3 DEF Connected, TypeOK
<1>5. conn'[g] = c /\ task'[c] # "none"
      /\ \A d \in Conns : d # c => task'[d] = task[d]
  BY <1>1 DEF TypeOK
<1>6. Connected'
  <2>1. \A d \in Conns : task'[d] = "none" => inbox'[d] = <<>> /\ reply'[d] = <<>>
    BY <1>2, <1>5 DEF Connected
  <2>2. ASSUME NEW h \in Gateways, conn'[h] # 0 PROVE task'[conn'[h]] # "none"
    <3>1. CASE h = g
      BY <1>5, <3>1
    <3>2. CASE h # g
      <4>1. /\ conn'[h] = conn[h] /\ conn[h] # c
            /\ conn[h] \in Conns /\ task[conn[h]] # "none"
        BY <1>4, <2>2, <3>2 DEF Connected, TypeOK
      <4> QED BY <1>5, <4>1
    <3> QED BY <3>1, <3>2
  <2>3. ASSUME NEW h \in Gateways, NEW k \in Gateways, conn'[h] # 0, conn'[k] = conn'[h]
        PROVE  k = h
    BY <1>4, <1>5, <2>3 DEF Connected
  <2> QED BY <2>1, <2>2, <2>3 DEF Connected
<1>7. ASSUME NEW h \in Gateways, (conn[h] # 0)'
      PROVE  ExchangeOn(h, conn[h])'
  <2>1. CASE h = g
    BY <1>2, <1>3, <1>5, <2>1 DEF ExchangeOn
  <2>2. CASE h # g
    <3>1. conn'[h] = conn[h] /\ ExchangeOn(h, conn[h])
      BY <1>4, <1>7, <2>2 DEF Exchange
    <3>2. ASSUME NEW d, ExchangeOn(h, d) PROVE ExchangeOn(h, d)'
      BY <1>2, <3>2, ExchangeKept
    <3> QED BY <3>1, <3>2 DEF ExchangeOn, AnswerIsTrue
  <2> QED BY <2>1, <2>2
<1>8. Exchange'
  BY <1>2, <1>7 DEF Exchange
<1> QED BY <1>2, <1>6, <1>8 DEF AckedIsPublished

\* What arrives at a task that is there is all that is on its way.
LEMMA ArrivesAlone ==
  ASSUME TypeOK, NEW g \in Gateways, conn[g] \in Conns, NEW p \in Packets, Arrives(g, p),
         inbox[conn[g]] = <<>>
  PROVE  /\ inbox'[conn[g]] \in {<<>>, <<p>>, <<Piece, Piece>>}
         /\ \A d \in Conns : d # conn[g] => inbox'[d] = inbox[d]
<1>1. inbox' \in {inbox, [inbox EXCEPT ![conn[g]] = Append(<<>>, p)],
                  [inbox EXCEPT ![conn[g]] = <<>> \o <<Piece, Piece>>]}
  BY DEF Arrives, TypeOK
<1>2. Append(<<>>, p) = <<p>> /\ <<>> \o <<Piece, Piece>> = <<Piece, Piece>>
  OBVIOUS
<1> QED BY <1>1, <1>2 DEF TypeOK

\* A gateway's step changes at most its own connection.
LEMMA OthersKeepExchange ==
  ASSUME AckedInvariant, NEW g \in Gateways, conn[g] \in Conns,
         \A d \in Conns : d # conn[g] => inbox'[d] = inbox[d] /\ reply'[d] = reply[d],
         \A h \in Gateways : h # g => conn'[h] = conn[h] /\ waits'[h] = waits[h],
         UNCHANGED <<published, swallowed>>,
         conn'[g] # 0 => conn'[g] = conn[g] /\ ExchangeOn(g, conn[g])'
  PROVE  \A h \in Gateways : (conn[h] # 0 => ExchangeOn(h, conn[h]))'
<1> SUFFICES ASSUME NEW h \in Gateways, (conn[h] # 0)' PROVE ExchangeOn(h, conn[h])'
  OBVIOUS
<1>1. CASE h = g
  BY <1>1
<1>2. CASE h # g
  <2>1. conn'[h] = conn[h] /\ conn[h] # conn[g] /\ conn[h] \in Conns
    BY <1>2, Numbers DEF AckedInvariant, Connected, TypeOK
  <2>2. ExchangeOn(h, conn[h])
    BY <2>1, Numbers DEF AckedInvariant, Exchange
  <2> QED BY <1>2, <2>1, <2>2 DEF ExchangeOn, AnswerIsTrue
<1> QED BY <1>1, <1>2

LEMMA SendAcked ==
  ASSUME AckedInvariant, NEW g \in Gateways, Send(g)
  PROVE  Connected' /\ Exchange' /\ AckedIsPublished'
<1> USE DEF AckedInvariant
<1>1. PICK p \in Packets : waits' = [waits EXCEPT ![g] = <<p>>] /\ Arrives(g, p)
  <2>1. count' \in Ids
    BY Numbers DEF Send, TypeOK, Ids
  <2> QED BY <2>1 DEF Send, Packets
<1>2. /\ conn[g] \in Conns /\ conn[g] # 0 /\ waits[g] = <<>>
      /\ UNCHANGED <<task, reply, conn, acked, published, swallowed>>
  BY DEF Send, TypeOK, outcome
<1>3. Connected'
  BY <1>1, <1>2 DEF Connected, Arrives, TypeOK
<1>4. inbox[conn[g]] = <<>> /\ reply[conn[g]] = <<>>
  BY <1>2 DEF Exchange, ExchangeOn
<1>5. /\ inbox'[conn[g]] \in {<<>>, <<p>>, <<Piece, Piece>>}
      /\ \A d \in Conns : d # conn[g] => inbox'[d] = inbox[d]
  BY <1>1, <1>2, <1>4, ArrivesAlone
<1>6. waits'[g] = <<p>> /\ <<p>> # <<>>
      /\ \A h \in Gateways : h # g => waits'[h] = waits[h]
  BY <1>1 DEF TypeOK
<1>7. ExchangeOn(g, conn[g])'
  BY <1>2, <1>4, <1>5, <1>6 DEF ExchangeOn
<1>8. Exchange'
  BY <1>2, <1>5, <1>6, <1>7, OthersKeepExchange DEF Exchange
<1> QED BY <1>2, <1>3, <1>8 DEF AckedIsPublished

LEMMA HearAcked ==
  ASSUME AckedInvariant, NEW g \in Gateways, Hear(g)
  PROVE  Connected' /\ Exchange' /\ AckedIsPublished'
<1> USE DEF AckedInvariant
<1> DEFINE c == conn[g]
           answer == Head(reply[c])
<1>1. c \in Conns /\ c # 0 /\ reply[c] # <<>> /\ answer # "ER"
  BY DEF Hear, TypeOK
<1>2. /\ reply' = [reply EXCEPT ![c] = Tail(@)]
      /\ waits' \in {waits, [waits EXCEPT ![g] = <<>>]}
      /\ acked' \in {acked, acked \cup {waits[g][1].id}}
      /\ acked' # acked => answer = "OK"
      /\ UNCHANGED <<task, inbox, conn, published, swallowed>>
  BY DEF Hear, outcome
<1>3. /\ \A d \in Conns : d # c => inbox'[d] = inbox[d] /\ reply'[d] = reply[d]
      /\ \A h \in Gateways : h # g => waits'[h] = waits[h]
  BY <1>2 DEF TypeOK
<1>4. Connected'
  BY <1>1, <1>2, <1>3 DEF Connected
<1>5. PICK a \in Answers : reply[c] = <<a>> /\ inbox[c] = <<>> /\ AnswerIsTrue(g, c)
  <2>1. Head(<<"ER">>) = "ER" /\ Head(<<"ER", "ER">>) = "ER"
    OBVIOUS
  <2> QED BY <1>1, <2>1 DEF Exchange, ExchangeOn
<1>6. answer = a /\ reply'[c] = <<>>
  <2>1. Head(<<a>>) = a /\ Tail(<<a>>) = <<>>
    OBVIOUS
  <2> QED BY <1>1, <1>2, <1>5, <2>1 DEF TypeOK
<1>7. ExchangeOn(g, c)'
  BY <1>2, <1>5, <1>6 DEF ExchangeOn
<1>8. Exchange'
  BY <1>1, <1>2, <1>3, <1>7, OthersKeepExchange DEF Exchange
<1>9. answer = "OK" => waits[g][1].id \in published \cup swallowed
  BY <1>5, <1>6 DEF AnswerIsTrue
<1>10. AckedIsPublished'
  BY <1>2, <1>9 DEF AckedIsPublished
<1> QED BY <1>4, <1>8, <1>10

LEMMA RebootsAcked ==
  ASSUME AckedInvariant, NEW g \in Gateways, Refused(g) \/ GiveUp(g)
  PROVE  Connected' /\ Exchange' /\ AckedIsPublished'
<1> USE DEF AckedInvariant
<1>1. conn[g] \in Conns /\ conn[g] # 0 /\ Reboots(g)
  BY DEF Refused, GiveUp, TypeOK
<1>2. /\ reply' = [reply EXCEPT ![conn[g]] = <<>>] /\ waits' = [waits EXCEPT ![g] = <<>>]
      /\ conn' = [conn EXCEPT ![g] = 0]
      /\ UNCHANGED <<task, inbox, acked, published, swallowed>>
  BY <1>1 DEF Reboots, outcome
<1>3. /\ \A d \in Conns : d # conn[g] => inbox'[d] = inbox[d] /\ reply'[d] = reply[d]
      /\ \A h \in Gateways : h # g => conn'[h] = conn[h] /\ waits'[h] = waits[h]
      /\ conn'[g] = 0
  BY <1>1, <1>2 DEF TypeOK
<1>4. Connected'
  BY <1>1, <1>2, <1>3 DEF Connected, TypeOK
<1>5. Exchange'
  BY <1>1, <1>2, <1>3, OthersKeepExchange DEF Exchange
<1> QED BY <1>2, <1>4, <1>5 DEF AckedIsPublished

LEMMA TaskEndsAcked ==
  ASSUME AckedInvariant, NEW c \in Conns, TaskEnds(c)
  PROVE  Connected' /\ Exchange' /\ AckedIsPublished'
<1> USE DEF AckedInvariant
<1>1. /\ task' = [task EXCEPT ![c] = "ended"] /\ inbox' = [inbox EXCEPT ![c] = <<>>]
      /\ UNCHANGED <<reply, conn, waits, acked, published, swallowed>>
  BY DEF TaskEnds, gateVars, outcome
<1>2. /\ \A d \in Conns : d # c => inbox'[d] = inbox[d] /\ task'[d] = task[d]
      /\ task'[c] = "ended"
  BY <1>1 DEF TypeOK
<1>3. \A g \in Gateways : conn[g] # c
  BY DEF TaskEnds, Held
<1>4. Connected'
  BY <1>1, <1>2, <1>3 DEF Connected, TypeOK
<1>5. ASSUME NEW g \in Gateways, conn[g] # 0 PROVE ExchangeOn(g, conn[g])'
  BY <1>1, <1>2, <1>3, <1>5 DEF Exchange, ExchangeOn, AnswerIsTrue, TypeOK
<1>6. Exchange'
  BY <1>1, <1>5 DEF Exchange
<1> QED BY <1>1, <1>4, <1>6 DEF AckedIsPublished

LEMMA AckedStep == AckedInvariant /\ [Next]_vars => AckedInvariant'
<1> SUFFICES ASSUME AckedInvariant, [Next]_vars
             PROVE  Connected' /\ Exchange' /\ AckedIsPublished'
  BY TypeStep DEF AckedInvariant
<1>1. CASE UNCHANGED <<task, inbox, reply, conn, waits, acked, published, swallowed>>
  BY <1>1 DEF AckedInvariant, Connected, Exchange, ExchangeOn, AnswerIsTrue,
              AckedIsPublished
<1>2. CASE UNCHANGED vars
  BY <1>1, <1>2 DEF vars, taskVars, gateVars, outcome
<1>3. CASE \E g \in Gateways : \/ Connect(g) \/ Send(g) \/ Hear(g)
                               \/ Refused(g) \/ GiveUp(g)
  BY <1>3, ConnectAcked, SendAcked, HearAcked, RebootsAcked
<1>4. CASE \E c \in Conns : Serve(c) \/ TaskEnds(c)
  BY <1>4, ServeAcked, TaskEndsAcked
<1>5. CASE Environment
  BY <1>1, <1>5 DEF Environment, BrokerFails, BrokerReturns, ConnectionTimesOut,
                    MongoFails, MongoReturns, CatalogueChanges, taskVars, outcome
<1> QED BY <1>2, <1>3, <1>4, <1>5 DEF Next

\* What a gateway takes for acknowledged was published, or given to a connection that
\* was dead without anybody knowing, whatever is cut in two, refused or lost
\* (manage_client, iiot_tcp_async_server.py).
THEOREM AckedCorrect == Spec => []AckedIsPublished
<1>1. Init => AckedInvariant
  <2>1. Init => Connected /\ Exchange /\ AckedIsPublished
    BY DEF Init, Connected, Exchange, AckedIsPublished
  <2> QED BY <2>1, TypeInit DEF AckedInvariant
<1>2. AckedInvariant => AckedIsPublished
  BY DEF AckedInvariant
<1> QED BY <1>1, <1>2, AckedStep, PTL DEF Spec
-----------------------------------------------------------------------------
(* The order of what is published *)

\* Numbers of chunks and of values are natural numbers; a packet is no piece.
LEMMA NumbersOf ==
  ASSUME TypeOK
  PROVE  /\ count \in Nat
         /\ \A c \in Conns : /\ inbox[c] \in Seq(Chunks)
                             /\ \A k \in DOMAIN inbox[c] : inbox[c][k].id \in Nat
         /\ \A c \in Conns, m \in Gateways, s \in Sensors : facDaq[c][m][s] \in Nat
         /\ \A p \in Packets : p.id \in Ids /\ p.id \in Nat /\ p # Piece
         /\ Piece.id = 0
<1>1. \A p \in Packets : p.id \in Ids /\ p.id \in Nat /\ p.id # 0
  BY Numbers DEF Packets
<1>2. Piece.id = 0
  BY DEF Piece
<1>3. \A x \in Chunks : x.id \in Nat
  BY <1>1, <1>2 DEF Chunks
<1>4. \A c \in Conns : inbox[c] \in Seq(Chunks)
  BY DEF TypeOK
<1>5. ASSUME NEW c \in Conns, NEW k \in DOMAIN inbox[c] PROVE inbox[c][k].id \in Nat
  <2>1. inbox[c][k] \in Chunks
    BY <1>4, <1>5
  <2> QED BY <1>3, <2>1
<1>6. \A c \in Conns, m \in Gateways, s \in Sensors : facDaq[c][m][s] \in Nat
  <2>0. Ids \cup {0} \subseteq Nat
    BY Numbers
  <2>1. \A x \in Messages, s \in Sensors : x[s] \in Nat
    BY ONLY <2>0 DEF Messages
  <2>2. \A c \in Conns, m \in Gateways : facDaq[c][m] \in Messages
    BY DEF TypeOK
  <2> QED BY <2>1, <2>2
<1>7. count \in Nat
  BY Numbers DEF TypeOK
<1> QED BY <1>1, <1>2, <1>4, <1>5, <1>6, <1>7

\* Nothing changes at a task.
LEMMA OrderKept ==
  ASSUME NEW c, inbox'[c] = inbox[c], facDaq'[c] = facDaq[c]
  PROVE  (InOrder(c) => InOrder(c)') /\ \A n : UpTo(c, n) => UpTo(c, n)'
BY DEF InOrder, UpTo

\* A packet that is not behind what came before it arrives.
LEMMA ArrivesInOrder ==
  ASSUME TypeOK, NEW g \in Gateways, NEW c \in Conns, conn[g] = c, NEW p \in Packets,
         NEW n \in Nat, Arrives(g, p), UNCHANGED facDaq,
         InOrder(c), UpTo(c, p.id), p.id <= n
  PROVE  InOrder(c)' /\ UpTo(c, n)'
<1> DEFINE old == inbox[c]
<1>0. /\ p.id \in Nat /\ p # Piece /\ Piece.id = 0
      /\ old \in Seq(Chunks) /\ \A k \in DOMAIN old : old[k].id \in Nat
      /\ \A m \in Gateways, s \in Sensors : facDaq[c][m][s] \in Nat
  BY NumbersOf
<1>1. \A m \in Gateways, s \in Sensors : facDaq[c][m][s] <= p.id /\ facDaq[c][m][s] <= n
  BY <1>0 DEF UpTo
<1>2. \A k \in DOMAIN old : old[k].id <= p.id /\ old[k].id <= n
  BY <1>0 DEF UpTo
<1>3. CASE inbox'[c] = old
  BY <1>1, <1>2, <1>3 DEF InOrder, UpTo
<1>4. CASE inbox'[c] = Append(old, p)
  <2>1. /\ DOMAIN Append(old, p) = 1..(Len(old) + 1) /\ DOMAIN old = 1..Len(old)
        /\ Len(old) \in Nat
        /\ Append(old, p)[Len(old) + 1] = p
        /\ \A k \in DOMAIN old : Append(old, p)[k] = old[k]
    BY <1>0
  <2>2. \A k \in DOMAIN inbox'[c] :
          \/ k \in DOMAIN old /\ inbox'[c][k] = old[k]
          \/ k = Len(old) + 1 /\ inbox'[c][k] = p
    BY <1>4, <2>1
  <2>3. UpTo(c, n)'
    BY <1>1, <1>2, <2>2 DEF UpTo
  <2>4. ASSUME NEW k \in DOMAIN inbox'[c], inbox'[c][k] # Piece
        PROVE  /\ \A m \in Gateways, s \in Sensors : facDaq[c][m][s] <= inbox'[c][k].id
               /\ \A j \in DOMAIN inbox'[c] : j < k => inbox'[c][j].id <= inbox'[c][k].id
    <3>1. CASE k \in DOMAIN old /\ inbox'[c][k] = old[k]
      <4>1. \A j \in DOMAIN inbox'[c] : j < k => j \in DOMAIN old /\ inbox'[c][j] = old[j]
        BY <2>1, <2>2, <3>1
      <4> QED BY <2>4, <3>1, <4>1 DEF InOrder
    <3>2. CASE k = Len(old) + 1 /\ inbox'[c][k] = p
      <4>1. \A j \in DOMAIN inbox'[c] : j < k => j \in DOMAIN old /\ inbox'[c][j] = old[j]
        BY <2>1, <2>2, <3>2
      <4> QED BY <1>1, <1>2, <3>2, <4>1
    <3> QED BY <2>2, <3>1, <3>2
  <2>5. InOrder(c)'
    BY <2>4 DEF InOrder
  <2> QED BY <2>3, <2>5
<1>5. CASE inbox'[c] = old \o <<Piece, Piece>>
  <2> DEFINE new == old \o <<Piece, Piece>>
  <2>1. /\ DOMAIN new = 1..(Len(old) + 2) /\ DOMAIN old = 1..Len(old) /\ Len(old) \in Nat
        /\ \A k \in DOMAIN old : new[k] = old[k]
        /\ new[Len(old) + 1] = Piece /\ new[Len(old) + 2] = Piece
    <3>1. /\ <<Piece, Piece>> \in Seq(Chunks) /\ Len(<<Piece, Piece>>) = 2
          /\ <<Piece, Piece>>[1] = Piece /\ <<Piece, Piece>>[2] = Piece
      BY DEF Chunks
    <3>2. /\ Len(new) = Len(old) + 2 /\ new \in Seq(Chunks)
          /\ \A k \in 1..(Len(old) + 2) :
               new[k] = IF k <= Len(old) THEN old[k] ELSE <<Piece, Piece>>[k - Len(old)]
      BY <1>0, <3>1
    <3> QED BY <1>0, <3>1, <3>2
  <2>2. \A k \in DOMAIN inbox'[c] :
          \/ k \in DOMAIN old /\ inbox'[c][k] = old[k]
          \/ inbox'[c][k] = Piece
    <3>1. inbox'[c] = new
      BY <1>5
    <3>2. \A k \in DOMAIN new : k \in DOMAIN old \/ k = Len(old) + 1 \/ k = Len(old) + 2
      BY ONLY <2>1
    <3> QED BY ONLY <2>1, <3>1, <3>2
  <2>3. UpTo(c, n)'
    BY <1>0, <1>1, <1>2, <2>2 DEF UpTo
  <2>4. ASSUME NEW k \in DOMAIN inbox'[c], inbox'[c][k] # Piece
        PROVE  /\ \A m \in Gateways, s \in Sensors : facDaq[c][m][s] <= inbox'[c][k].id
               /\ \A j \in DOMAIN inbox'[c] : j < k => inbox'[c][j].id <= inbox'[c][k].id
    <3>1. k \in DOMAIN old /\ inbox'[c][k] = old[k]
      BY <2>2, <2>4
    <3>2. \A j \in DOMAIN inbox'[c] : j < k => j \in DOMAIN old /\ inbox'[c][j] = old[j]
      BY <1>5, <2>1, <3>1
    <3> QED BY <2>4, <3>1, <3>2 DEF InOrder
  <2>5. InOrder(c)'
    BY <2>4 DEF InOrder
  <2> QED BY <2>3, <2>5
<1> QED BY <1>3, <1>4, <1>5 DEF Arrives, TypeOK

\* What the task does with a chunk: its copy takes the value or stays as it is.
TakesOrLeaves(c, p) == facDaq' = facDaq \/ (p \in Packets /\ ConfigFacMsg(c, p))

LEMMA ServedInOrder ==
  ASSUME TypeOK, NEW c \in Conns, NEW p, Receives(c, p), TakesOrLeaves(c, p),
         InOrder(c)
  PROVE  /\ InOrder(c)' /\ \A n \in Nat : UpTo(c, n) => UpTo(c, n)'
         /\ \A d \in Conns, m \in Gateways, s \in Sensors :
              facDaq[d][m][s] <= facDaq'[d][m][s]
         /\ \A d \in Conns : d # c => facDaq'[d] = facDaq[d] /\ inbox'[d] = inbox[d]
<1> DEFINE old == inbox[c]
<1>0. /\ old \in Seq(Chunks) /\ \A k \in DOMAIN old : old[k].id \in Nat
      /\ \A d \in Conns, m \in Gateways, s \in Sensors : facDaq[d][m][s] \in Nat
      /\ \A q \in Packets : q # Piece /\ q.id \in Nat
  BY NumbersOf
<1>1. /\ old # <<>> /\ p = old[1] /\ inbox'[c] = Tail(old)
      /\ \A d \in Conns : d # c => inbox'[d] = inbox[d]
  BY <1>0 DEF Receives, TypeOK
<1>2. /\ 1 \in DOMAIN old
      /\ \A k \in DOMAIN Tail(old) :
           /\ k + 1 \in DOMAIN old /\ Tail(old)[k] = old[k + 1] /\ k \in Nat /\ 1 < k + 1
  BY <1>0, <1>1
<1>3. \A d \in Conns, m \in Gateways, s \in Sensors :
        \/ facDaq'[d][m][s] = facDaq[d][m][s]
        \/ d = c /\ p \in Packets /\ facDaq'[d][m][s] = p.id
  <2>1. CASE UNCHANGED facDaq
    BY <2>1
  <2>2. CASE p \in Packets /\ ConfigFacMsg(c, p)
    <3>1. facDaq \in [Conns -> [Gateways -> [Sensors -> Ids \cup {0}]]]
      BY DEF TypeOK, Messages
    <3>2. p.machine \in Gateways /\ p.sensor \in Sensors
      BY <2>2 DEF Packets
    <3> QED BY <2>2, <3>1, <3>2 DEF ConfigFacMsg
  <2> QED BY <2>1, <2>2 DEF TakesOrLeaves
<1>4. \A d \in Conns : d # c => facDaq'[d] = facDaq[d]
  BY DEF TakesOrLeaves, ConfigFacMsg, TypeOK
<1>5. \A d \in Conns, m \in Gateways, s \in Sensors : facDaq[d][m][s] <= facDaq'[d][m][s]
  BY <1>0, <1>1, <1>2, <1>3 DEF InOrder
<1>6. ASSUME NEW n \in Nat, UpTo(c, n) PROVE UpTo(c, n)'
  BY <1>1, <1>2, <1>3, <1>6 DEF UpTo
<1>7. ASSUME NEW k \in DOMAIN Tail(old), Tail(old)[k] # Piece
      PROVE  /\ \A m \in Gateways, s \in Sensors : facDaq'[c][m][s] <= Tail(old)[k].id
             /\ \A j \in DOMAIN Tail(old) : j < k => Tail(old)[j].id <= Tail(old)[k].id
  <2>1. k + 1 \in DOMAIN old /\ old[k + 1] # Piece /\ Tail(old)[k] = old[k + 1]
    BY <1>2, <1>7
  <2>2. /\ \A m \in Gateways, s \in Sensors : facDaq[c][m][s] <= old[k + 1].id
        /\ \A j \in DOMAIN old : j < k + 1 => old[j].id <= old[k + 1].id
    BY <2>1 DEF InOrder
  <2>3. p.id <= old[k + 1].id
    BY <1>1, <1>2, <2>2
  <2>4. \A j \in DOMAIN Tail(old) : j < k => Tail(old)[j].id <= old[k + 1].id
    BY <1>2, <2>2
  <2> QED BY <1>3, <2>1, <2>2, <2>3, <2>4
<1>8. InOrder(c)'
  BY <1>1, <1>7 DEF InOrder
<1> QED BY <1>1, <1>4, <1>5, <1>6, <1>8

\* What serving a chunk may publish: nothing, or the copy that took it.
PublishesOrNot(c, p) ==
  \/ series' = series /\ publisher' = publisher
  \/ /\ p \in Packets
     /\ series' = [series EXCEPT ![p.machine] = facDaq'[c][p.machine]]
     /\ publisher' = [publisher EXCEPT ![p.machine] = c]

LEMMA ServeKinds ==
  ASSUME NEW c \in Conns, Serve(c)
  PROVE  /\ \E p : Receives(c, p) /\ TakesOrLeaves(c, p) /\ PublishesOrNot(c, p)
         /\ task[c] = "recv" /\ UNCHANGED <<task, conn, waits, count>>
<1>1. CASE Unconverted(c) \/ Unlisted(c) \/ LookupFails(c)
  <2>1. /\ facDaq' = facDaq /\ series' = series /\ publisher' = publisher
        /\ UNCHANGED <<conn, waits, count>>
    BY <1>1 DEF Unconverted, Unlisted, LookupFails, gateVars, outcome
  <2>2. PICK p : Receives(c, p) /\ \E a : Replies(c, a)
    BY <1>1 DEF Unconverted, Unlisted, LookupFails, Converts
  <2>3. task[c] = "recv" /\ task' = task
    BY <2>2 DEF Receives, Replies
  <2>4. TakesOrLeaves(c, p) /\ PublishesOrNot(c, p)
    BY ONLY <2>1, Zenon DEF TakesOrLeaves, PublishesOrNot
  <2> QED BY ONLY <2>1, <2>2, <2>3, <2>4
<1>2. CASE Publish(c)
  BY <1>2 DEF Publish, Converts, Receives, Replies, TakesOrLeaves, PublishesOrNot
<1>3. CASE PublishIntoVoid(c)
  BY <1>3 DEF PublishIntoVoid, Converts, Receives, Replies, TakesOrLeaves,
              PublishesOrNot, gateVars
<1>4. CASE PublishRaises(c)
  BY <1>4 DEF PublishRaises, Converts, Receives, Replies, TakesOrLeaves, PublishesOrNot,
              gateVars, outcome
<1> QED BY <1>1, <1>2, <1>3, <1>4 DEF Serve

\* A gateway's packets and its connection stay, and so do the tasks' copies: what is
\* left is the order on the connection whose chunks changed.
LEMMA SteadyOrder ==
  ASSUME OrderInvariant, NEW c \in Conns,
         \A d \in Conns : d # c => inbox'[d] = inbox[d] /\ facDaq'[d] = facDaq[d],
         UNCHANGED <<conn, waits, count>>,
         InOrder(c)', \A n \in Nat : UpTo(c, n) => UpTo(c, n)'
  PROVE  Ordered'
<1> USE DEF OrderInvariant, AckedInvariant
<1>0. count \in Nat
  BY NumbersOf
<1>1. ASSUME NEW d \in Conns PROVE InOrder(d)' /\ \A n \in Nat : UpTo(d, n) => UpTo(d, n)'
  <2>1. CASE d = c
    BY <2>1
  <2>2. CASE d # c
    BY <2>2, OrderKept DEF Ordered
  <2> QED BY <2>1, <2>2
<1>2. \A d \in Conns : (InOrder(d) /\ UpTo(d, count))'
  <2>1. \A d \in Conns : UpTo(d, count)'
    BY <1>0, <1>1 DEF Ordered, UpTo
  <2> QED BY <1>1, <2>1 DEF Ordered
<1>3. ASSUME NEW g \in Gateways, waits[g] # <<>>
      PROVE  waits[g][1].id <= count /\ UpTo(conn[g], waits[g][1].id)'
  <2>1. waits[g][1] \in Packets /\ conn[g] \in Conns /\ waits[g][1].id \in Nat
    BY <1>3, WaitsForPacket, NumbersOf
  <2>2. waits[g][1].id <= count /\ UpTo(conn[g], waits[g][1].id)
    BY <1>3 DEF Ordered
  <2> QED BY <1>1, <2>1, <2>2 DEF UpTo
<1> QED BY <1>2, <1>3 DEF Ordered

LEMMA ServeOrder ==
  ASSUME OrderInvariant, NEW c \in Conns, Serve(c)
  PROVE  Ordered' /\ SeriesBehind' /\ Unused'
<1> USE DEF OrderInvariant, AckedInvariant
<1>1. PICK p : Receives(c, p) /\ TakesOrLeaves(c, p) /\ PublishesOrNot(c, p)
  BY ServeKinds
<1>2. task[c] = "recv" /\ UNCHANGED <<task, conn, waits, count>>
  BY ServeKinds
<1>3. /\ InOrder(c)' /\ \A n \in Nat : UpTo(c, n) => UpTo(c, n)'
      /\ \A d \in Conns, m \in Gateways, s \in Sensors :
           facDaq[d][m][s] <= facDaq'[d][m][s]
      /\ \A d \in Conns : d # c => facDaq'[d] = facDaq[d] /\ inbox'[d] = inbox[d]
  BY <1>1, ServedInOrder DEF Ordered
<1>4. Ordered'
  BY <1>2, <1>3, SteadyOrder
<1>5. Unused'
  BY <1>2, <1>3 DEF Unused
<1>6. SeriesBehind'
  <2>1. /\ \A d \in Conns, m \in Gateways, s \in Sensors :
             facDaq'[d][m][s] \in Nat /\ facDaq[d][m][s] \in Nat
        /\ \A m \in Gateways, s \in Sensors : series[m][s] \in Nat
        /\ \A m \in Gateways : publisher[m] \in Conns \cup {0}
    <3>1. TypeOK'
      BY TypeStep DEF Next
    <3>2. \A x \in Messages, s \in Sensors : x[s] \in Nat
      <4>1. Ids \cup {0} \subseteq Nat
        BY Numbers
      <4> QED BY ONLY <4>1 DEF Messages
    <3>3. /\ \A d \in Conns, m \in Gateways : facDaq'[d][m] \in Messages
          /\ \A m \in Gateways : series[m] \in Messages
          /\ \A m \in Gateways : publisher[m] \in Conns \cup {0}
      BY <3>1 DEF TypeOK
    <3>4. \A d \in Conns, m \in Gateways : facDaq[d][m] \in Messages
      BY DEF TypeOK
    <3> QED BY <3>2, <3>3, <3>4
  <2>2. CASE UNCHANGED <<series, publisher>>
    <3>1. ASSUME NEW g \in Gateways, publisher[g] # 0, task[publisher[g]] = "recv",
                 NEW s \in Sensors
          PROVE  series[g][s] <= facDaq'[publisher[g]][g][s]
      BY <1>3, <2>1, <3>1 DEF SeriesBehind
    <3> QED BY <1>2, <2>2, <3>1 DEF SeriesBehind
  <2>3. CASE /\ p \in Packets
             /\ series' = [series EXCEPT ![p.machine] = facDaq'[c][p.machine]]
             /\ publisher' = [publisher EXCEPT ![p.machine] = c]
    <3>1. p.machine \in Gateways
      BY <2>3 DEF Packets
    <3>2. ASSUME NEW g \in Gateways, publisher'[g] # 0
          PROVE  /\ task[publisher'[g]] # "none"
                 /\ task[publisher'[g]] = "recv" => \A s \in Sensors :
                      series'[g][s] <= facDaq'[publisher'[g]][g][s]
      <4>1. CASE g = p.machine
        <5>1. publisher'[g] = c /\ series'[g] = facDaq'[c][g]
          BY <2>3, <3>1, <4>1 DEF TypeOK
        <5> QED BY <1>2, <2>1, <5>1
      <4>2. CASE g # p.machine
        <5>1. publisher'[g] = publisher[g] /\ series'[g] = series[g]
          BY <2>3, <4>2 DEF TypeOK
        <5>2. ASSUME task[publisher[g]] = "recv", NEW s \in Sensors
              PROVE  series[g][s] <= facDaq'[publisher[g]][g][s]
          BY <1>3, <2>1, <3>2, <5>1, <5>2 DEF SeriesBehind
        <5> QED BY <3>2, <5>1, <5>2 DEF SeriesBehind
      <4> QED BY <4>1, <4>2
    <3> QED BY <1>2, <3>2 DEF SeriesBehind
  <2> QED BY <1>1, <2>2, <2>3 DEF PublishesOrNot
<1> QED BY <1>4, <1>5, <1>6

LEMMA ConnectOrder ==
  ASSUME OrderInvariant, NEW g \in Gateways, Connect(g)
  PROVE  Ordered' /\ SeriesBehind' /\ Unused'
<1> USE DEF OrderInvariant, AckedInvariant
<1>1. PICK c \in Conns :
        /\ task[c] = "none" /\ conn' = [conn EXCEPT ![g] = c]
        /\ task' \in {[task EXCEPT ![c] = "ended"], [task EXCEPT ![c] = "recv"]}
  BY DEF Connect
<1>2. UNCHANGED <<inbox, facDaq, waits, count, series, publisher>> /\ conn[g] = 0
  BY DEF Connect, outcome
<1>3. waits[g] = <<>> /\ \A h \in Gateways : h # g => conn'[h] = conn[h]
  BY <1>1, <1>2 DEF TypeOK
<1>4. \A d \in Conns : d # c => task'[d] = task[d]
  BY <1>1 DEF TypeOK
<1>5. Ordered'
  <2>1. \A d, n : (InOrder(d) <=> InOrder(d)') /\ (UpTo(d, n) <=> UpTo(d, n)')
    BY <1>2 DEF InOrder, UpTo
  <2>2. \A d \in Conns : (InOrder(d) /\ UpTo(d, count))'
    BY <1>2 DEF Ordered, InOrder, UpTo
  <2>3. ASSUME NEW h \in Gateways, waits[h] # <<>>
        PROVE  waits[h][1].id <= count /\ UpTo(conn[h], waits[h][1].id)'
    <3>1. conn'[h] = conn[h]
      BY <1>3, <2>3
    <3>2. waits[h][1].id <= count /\ UpTo(conn[h], waits[h][1].id)
      BY <2>3 DEF Ordered
    <3> QED BY <1>2, <3>1, <3>2 DEF UpTo
  <2> QED BY <1>2, <2>2, <2>3 DEF Ordered
<1>6. SeriesBehind'
  <2>1. ASSUME NEW h \in Gateways, publisher[h] # 0
        PROVE  /\ task[publisher[h]] # "none" /\ task'[publisher[h]] = task[publisher[h]]
               /\ task[publisher[h]] = "recv" =>
                    \A s \in Sensors : series[h][s] <= facDaq[publisher[h]][h][s]
    <3>1. publisher[h] \in Conns
      BY <2>1 DEF TypeOK
    <3>2. /\ task[publisher[h]] # "none"
          /\ task[publisher[h]] = "recv" =>
               \A s \in Sensors : series[h][s] <= facDaq[publisher[h]][h][s]
      BY <2>1 DEF SeriesBehind
    <3> QED BY <1>1, <1>4, <3>1, <3>2
  <2> QED BY <1>2, <2>1 DEF SeriesBehind
<1>7. Unused'
  BY <1>1, <1>2, <1>4 DEF Unused
<1> QED BY <1>5, <1>6, <1>7

LEMMA RebootsOrder ==
  ASSUME OrderInvariant, NEW g \in Gateways, Refused(g) \/ GiveUp(g)
  PROVE  Ordered' /\ SeriesBehind' /\ Unused'
<1> USE DEF OrderInvariant, AckedInvariant
<1>1. /\ conn' = [conn EXCEPT ![g] = 0] /\ waits' = [waits EXCEPT ![g] = <<>>]
      /\ UNCHANGED <<task, inbox, facDaq, count, series, publisher>>
  BY DEF Refused, GiveUp, Reboots, outcome
<1>2. /\ waits'[g] = <<>>
      /\ \A h \in Gateways : h # g => conn'[h] = conn[h] /\ waits'[h] = waits[h]
  BY <1>1 DEF TypeOK
<1>3. \A d \in Conns : (InOrder(d) /\ UpTo(d, count))'
  BY <1>1 DEF Ordered, InOrder, UpTo
<1>4. ASSUME NEW h \in Gateways, waits'[h] # <<>>
      PROVE  waits'[h][1].id <= count /\ UpTo(conn[h], waits[h][1].id)'
  <2>1. conn'[h] = conn[h] /\ waits'[h] = waits[h]
    BY <1>2, <1>4
  <2>2. waits[h][1].id <= count /\ UpTo(conn[h], waits[h][1].id)
    BY <1>4, <2>1 DEF Ordered
  <2> QED BY <1>1, <2>1, <2>2 DEF UpTo
<1>5. Ordered'
  BY <1>1, <1>3, <1>4 DEF Ordered
<1> QED BY <1>1, <1>5 DEF SeriesBehind, Unused

LEMMA TaskEndsOrder ==
  ASSUME OrderInvariant, NEW c \in Conns, TaskEnds(c)
  PROVE  Ordered' /\ SeriesBehind' /\ Unused'
<1> USE DEF OrderInvariant, AckedInvariant
<1>1. /\ task' = [task EXCEPT ![c] = "ended"] /\ inbox' = [inbox EXCEPT ![c] = <<>>]
      /\ facDaq' = [facDaq EXCEPT ![c] = [m \in Gateways |-> Blank]]
      /\ UNCHANGED <<conn, waits, count, series, publisher>>
  BY DEF TaskEnds, gateVars, outcome
<1>2. /\ task'[c] = "ended" /\ inbox'[c] = <<>> /\ facDaq'[c] = [m \in Gateways |-> Blank]
      /\ \A d \in Conns : d # c => /\ task'[d] = task[d] /\ inbox'[d] = inbox[d]
                                   /\ facDaq'[d] = facDaq[d]
  BY <1>1 DEF TypeOK
<1>3. \A m \in Gateways, s \in Sensors : facDaq'[c][m][s] = 0
  BY <1>2 DEF Blank
<1>4. Ordered'
  <2>1. InOrder(c)' /\ \A n \in Nat : UpTo(c, n) => UpTo(c, n)'
    BY <1>2, <1>3 DEF InOrder, UpTo
  <2> QED BY <1>1, <1>2, <2>1, SteadyOrder
<1>5. Unused'
  BY <1>2, <1>3 DEF Unused
<1>6. SeriesBehind'
  BY <1>1, <1>2 DEF SeriesBehind, TypeOK
<1> QED BY <1>4, <1>5, <1>6

\* A packet only arrives at a task that runs.
LEMMA ArrivesUnused ==
  ASSUME TypeOK, Unused, NEW g \in Gateways, conn[g] \in Conns, NEW p, Arrives(g, p),
         UNCHANGED <<task, facDaq>>
  PROVE  Unused' /\ \A d \in Conns : d # conn[g] => inbox'[d] = inbox[d]
<1>1. /\ inbox \in [Conns -> Seq(Chunks)]
      /\ \E x : inbox' = [inbox EXCEPT ![conn[g]] = x]
      /\ task[conn[g]] # "recv" => inbox' = [inbox EXCEPT ![conn[g]] = inbox[conn[g]]]
  BY DEF Arrives, TypeOK
<1>2. \A d \in Conns : d # conn[g] \/ task[d] # "recv" => inbox'[d] = inbox[d]
  BY <1>1
<1> QED BY <1>2 DEF Unused

LEMMA SendOrder ==
  ASSUME OrderInvariant, NEW g \in Gateways, Send(g)
  PROVE  Ordered' /\ SeriesBehind' /\ Unused'
<1> USE DEF OrderInvariant, AckedInvariant
<1>1. PICK p \in Packets : /\ p.id = count'
                           /\ waits' = [waits EXCEPT ![g] = <<p>>] /\ Arrives(g, p)
  <2>1. count' \in Ids
    BY Numbers DEF Send, TypeOK, Ids
  <2> QED BY <2>1 DEF Send, Packets
<1>2. /\ conn[g] \in Conns /\ conn[g] # 0 /\ count' = count + 1 /\ count \in Nat
      /\ UNCHANGED <<task, facDaq, conn, series, publisher>>
  BY NumbersOf DEF Send, TypeOK, outcome
<1>3. Unused' /\ \A d \in Conns : d # conn[g] => inbox'[d] = inbox[d]
  BY <1>1, <1>2, ArrivesUnused
<1>4. \A d \in Conns, n \in Nat : UpTo(d, n) => UpTo(d, n + 1)
  BY NumbersOf DEF UpTo
<1>5. InOrder(conn[g])' /\ UpTo(conn[g], p.id)'
  <2>1. InOrder(conn[g]) /\ UpTo(conn[g], p.id)
    BY <1>1, <1>2, <1>4 DEF Ordered
  <2> QED BY <1>1, <1>2, <2>1, ArrivesInOrder
<1>6. ASSUME NEW d \in Conns PROVE (InOrder(d) /\ UpTo(d, count))'
  <2>1. CASE d = conn[g]
    BY <1>1, <1>2, <1>5, <2>1 DEF UpTo, InOrder
  <2>2. CASE d # conn[g]
    <3>1. InOrder(d) /\ UpTo(d, count + 1)
      BY <1>2, <1>4 DEF Ordered
    <3>2. inbox'[d] = inbox[d] /\ facDaq'[d] = facDaq[d]
      BY <1>2, <1>3, <2>2
    <3> QED BY <1>2, <3>1, <3>2, OrderKept DEF UpTo
  <2> QED BY <2>1, <2>2
<1>7. ASSUME NEW h \in Gateways, waits'[h] # <<>>
      PROVE  (waits[h][1].id <= count /\ UpTo(conn[h], waits[h][1].id))'
  <2>1. CASE h = g
    <3>1. waits'[h][1] = p
      BY <1>1, <2>1 DEF TypeOK
    <3> QED BY <1>1, <1>2, <1>5, <2>1, <3>1 DEF UpTo
  <2>2. CASE h # g
    <3>1. waits'[h] = waits[h] /\ conn'[h] = conn[h]
      BY <1>1, <1>2, <2>2 DEF TypeOK
    <3>2. /\ waits[h][1].id \in Nat /\ waits[h][1].id <= count
          /\ conn[h] \in Conns /\ UpTo(conn[h], waits[h][1].id)
      BY <1>7, <3>1, WaitsForPacket, NumbersOf DEF Ordered
    <3>3. conn[h] # conn[g]
      BY <1>2, <2>2 DEF Connected
    <3>4. inbox'[conn[h]] = inbox[conn[h]] /\ facDaq'[conn[h]] = facDaq[conn[h]]
      BY <1>2, <1>3, <3>2, <3>3
    <3> QED BY <1>2, <3>1, <3>2, <3>4, OrderKept DEF UpTo
  <2> QED BY <2>1, <2>2
<1>8. Ordered'
  BY <1>6, <1>7 DEF Ordered
<1> QED BY <1>2, <1>3, <1>8 DEF SeriesBehind

LEMMA HearOrder ==
  ASSUME OrderInvariant, NEW g \in Gateways, Hear(g)
  PROVE  Ordered' /\ SeriesBehind' /\ Unused'
<1> USE DEF OrderInvariant, AckedInvariant
<1>1. /\ UNCHANGED <<task, inbox, facDaq, conn, count, series, publisher>>
      /\ waits' \in {waits, [waits EXCEPT ![g] = <<>>]}
  BY DEF Hear, outcome
<1>2. \A h \in Gateways : waits'[h] # <<>> => waits'[h] = waits[h]
  BY <1>1 DEF TypeOK
<1>3. \A d \in Conns : (InOrder(d) /\ UpTo(d, count))'
  BY <1>1 DEF Ordered, InOrder, UpTo
<1>4. ASSUME NEW h \in Gateways, waits'[h] # <<>>
      PROVE  waits'[h][1].id <= count /\ UpTo(conn[h], waits[h][1].id)'
  <2>1. waits[h][1].id <= count /\ UpTo(conn[h], waits[h][1].id)
    BY <1>2, <1>4 DEF Ordered
  <2>2. waits'[h] = waits[h]
    BY <1>2, <1>4
  <2> QED BY <1>1, <2>1, <2>2 DEF UpTo
<1>5. Ordered'
  BY <1>1, <1>3, <1>4 DEF Ordered
<1> QED BY <1>1, <1>5 DEF SeriesBehind, Unused

LEMMA OrderStep == OrderInvariant /\ [Next]_vars => OrderInvariant'
<1> SUFFICES ASSUME OrderInvariant, [Next]_vars
             PROVE  Ordered' /\ SeriesBehind' /\ Unused'
  BY AckedStep DEF OrderInvariant
<1>1. CASE UNCHANGED <<task, inbox, facDaq, conn, waits, count, series, publisher>>
  BY <1>1 DEF OrderInvariant, Ordered, InOrder, UpTo, SeriesBehind, Unused
<1>2. CASE UNCHANGED vars
  BY <1>1, <1>2 DEF vars, taskVars, gateVars, outcome
<1>3. CASE \E g \in Gateways : \/ Connect(g) \/ Send(g) \/ Hear(g)
                               \/ Refused(g) \/ GiveUp(g)
  BY <1>3, ConnectOrder, SendOrder, HearOrder, RebootsOrder
<1>4. CASE \E c \in Conns : Serve(c) \/ TaskEnds(c)
  BY <1>4, ServeOrder, TaskEndsOrder
<1>5. CASE Environment
  BY <1>1, <1>5 DEF Environment, BrokerFails, BrokerReturns, ConnectionTimesOut,
                    MongoFails, MongoReturns, CatalogueChanges, taskVars, outcome
<1> QED BY <1>2, <1>3, <1>4, <1>5 DEF Next

\* Only a publication changes what is published, and it does not go behind what the
\* same task published before.
LEMMA ServeAhead ==
  ASSUME OrderInvariant, NEW c \in Conns, Serve(c), NEW g \in Gateways, NEW s \in Sensors,
         publisher'[g] = publisher[g]
  PROVE  ~(series'[g][s] < series[g][s])
<1> USE DEF OrderInvariant, AckedInvariant
<1>1. PICK p : Receives(c, p) /\ TakesOrLeaves(c, p) /\ PublishesOrNot(c, p)
  BY ServeKinds
<1>2. task[c] = "recv" /\ c # 0
  BY ServeKinds, Numbers
<1>3. /\ \A m \in Gateways : facDaq[c][m][s] <= facDaq'[c][m][s]
  BY <1>1, ServedInOrder DEF Ordered
<1>4. series[g][s] \in Nat /\ facDaq[c][g][s] \in Nat /\ facDaq'[c][g][s] \in Nat
  <2>1. TypeOK'
    BY TypeStep DEF Next
  <2>2. \A x \in Messages : x[s] \in Nat
    <3>1. Ids \cup {0} \subseteq Nat
      BY Numbers
    <3> QED BY ONLY <3>1, s \in Sensors DEF Messages
  <2>3. series[g] \in Messages /\ facDaq[c][g] \in Messages
    BY DEF TypeOK
  <2>4. facDaq'[c][g] \in Messages
    BY <2>1 DEF TypeOK
  <2> QED BY <2>2, <2>3, <2>4
<1>5. CASE UNCHANGED <<series, publisher>>
  BY <1>4, <1>5
<1>6. CASE /\ p \in Packets
           /\ series' = [series EXCEPT ![p.machine] = facDaq'[c][p.machine]]
           /\ publisher' = [publisher EXCEPT ![p.machine] = c]
  <2>1. CASE g = p.machine
    <3>1. publisher'[g] = c /\ series'[g] = facDaq'[c][g]
      BY <1>6, <2>1 DEF TypeOK
    <3>2. series[g][s] <= facDaq[c][g][s]
      BY <1>2, <3>1 DEF SeriesBehind
    <3> QED BY <1>3, <1>4, <3>1, <3>2
  <2>2. CASE g # p.machine
    <3>1. series'[g] = series[g]
      BY <1>6, <2>2 DEF TypeOK
    <3> QED BY <1>4, <3>1
  <2> QED BY <2>1, <2>2
<1> QED BY <1>1, <1>5, <1>6 DEF PublishesOrNot

LEMMA OthersPublishNothing ==
  ASSUME [Next]_vars, \A c \in Conns : ~Serve(c) PROVE UNCHANGED series
<1>1. CASE UNCHANGED vars
  BY <1>1 DEF vars, outcome
<1>2. CASE \E g \in Gateways : \/ Connect(g) \/ Send(g) \/ Hear(g)
                               \/ Refused(g) \/ GiveUp(g)
  BY <1>2 DEF outcome, Connect, Send, Hear, Refused, GiveUp, Reboots
<1>3. CASE Environment \/ \E c \in Conns : TaskEnds(c)
  BY <1>3 DEF outcome, TaskEnds, Environment, BrokerFails, BrokerReturns,
              ConnectionTimesOut, MongoFails, MongoReturns, CatalogueChanges
<1> QED BY <1>1, <1>2, <1>3 DEF Next

\* What a task publishes of a sensor never goes back (config_fac_msg,
\* iiot_tcp_async_server.py).
THEOREM NeverBackCorrect == Spec => NeverBack
<1>1. Init => OrderInvariant
  <2> SUFFICES ASSUME Init PROVE OrderInvariant
    OBVIOUS
  <2>1. AckedInvariant
    BY TypeInit DEF Init, AckedInvariant, Connected, Exchange, AckedIsPublished
  <2>2. /\ count = 0 /\ \A c \in Conns : inbox[c] = <<>>
        /\ \A c \in Conns, m \in Gateways, s \in Sensors : facDaq[c][m][s] = 0
        /\ \A g \in Gateways : waits[g] = <<>> /\ publisher[g] = 0
    BY DEF Init, Blank
  <2>3. Ordered /\ SeriesBehind /\ Unused
    BY <2>2 DEF Ordered, InOrder, UpTo, SeriesBehind, Unused
  <2> QED BY <2>1, <2>3 DEF OrderInvariant
<1>2. OrderInvariant /\ [Next]_vars =>
        [\A g \in Gateways, s \in Sensors :
           series'[g][s] < series[g][s] => publisher'[g] # publisher[g]]_vars
  <2> SUFFICES ASSUME OrderInvariant, [Next]_vars, NEW g \in Gateways, NEW s \in Sensors,
                      publisher'[g] = publisher[g]
               PROVE  ~(series'[g][s] < series[g][s])
    OBVIOUS
  <2>1. CASE \E c \in Conns : Serve(c)
    BY <2>1, ServeAhead
  <2>2. CASE \A c \in Conns : ~Serve(c)
    <3>1. series' = series
      BY <2>2, OthersPublishNothing
    <3>2. series[g][s] \in Nat
      <4>1. Ids \cup {0} \subseteq Nat
        BY Numbers
      <4>2. series[g] \in Messages
        BY DEF OrderInvariant, AckedInvariant, TypeOK
      <4> QED BY ONLY <4>1, <4>2, s \in Sensors DEF Messages
    <3> QED BY <3>1, <3>2
  <2> QED BY <2>1, <2>2
<1> QED BY <1>1, <1>2, OrderStep, PTL DEF Spec, NeverBack

-----------------------------------------------------------------------------
(* Losses *)

LEMMA Counts ==
  ASSUME TypeOK
  PROVE  /\ \A g \in Gateways : /\ misses[g] \in Nat /\ cuts[g] \in Nat
                                /\ Ailing(g) \in {0, 1} /\ Ailing(g)' \in {0, 1}
         /\ SharedBroken \in {0, 1} /\ SharedBroken' \in {0, 1}
BY DEF TypeOK, Ailing, SharedBroken

\* Nothing is lost yet.
LEMMA NoneCounted ==
  ASSUME TypeOK, \A g \in Gateways : misses'[g] = 0 /\ cuts'[g] \in Nat
  PROVE  LossesCounted'
BY Counts DEF LossesCounted

\* Nothing is lost and the shared channel does not break; no connection begins to ail,
\* unless its packet came in two chunks.
LEMMA NoneWorse ==
  ASSUME LossesInvariant, brokerUp' /\ mongoUp' => brokerUp /\ mongoUp,
         catalogue' = NoCatalogue => catalogue = NoCatalogue,
         channel'[0] = "broken" => channel[0] = "broken",
         \A g \in Gateways :
           \/ misses'[g] = 0 /\ cuts'[g] \in Nat
           \/ misses'[g] = misses[g] /\ cuts'[g] = cuts[g] + 1
           \/ /\ misses'[g] = misses[g] /\ cuts'[g] = cuts[g]
              /\ (conn'[g] # 0 /\ ~Healthy(g)') => (conn[g] # 0 /\ ~Healthy(g))
  PROVE  LossesCounted'
<1>1. \A g \in Gateways : /\ misses[g] \in Nat /\ cuts[g] \in Nat
                          /\ Ailing(g) \in {0, 1} /\ Ailing(g)' \in {0, 1}
  BY Counts DEF LossesInvariant, AckedInvariant
<1>2. /\ SharedBroken \in {0, 1} /\ SharedBroken' \in {0, 1}
      /\ SharedBroken' <= SharedBroken
  BY DEF SharedBroken
<1>3. \A g \in Gateways :
        (conn'[g] # 0 /\ ~Healthy(g)' => conn[g] # 0 /\ ~Healthy(g)) =>
          Ailing(g)' <= Ailing(g)
  BY DEF Ailing
<1>4. ASSUME brokerUp', mongoUp', NEW g \in Gateways
      PROVE  misses'[g] + Ailing(g)' + SharedBroken' <= 2 + cuts'[g]
  <2>1. misses[g] + Ailing(g) + SharedBroken <= 2 + cuts[g]
    BY <1>4 DEF LossesInvariant, LossesCounted
  <2> QED BY <1>1, <1>2, <1>3, <2>1
<1>5. catalogue' = NoCatalogue => \A g \in Gateways : misses'[g] = 0
  BY DEF LossesInvariant, LossesCounted
<1> QED BY <1>4, <1>5 DEF LossesCounted

\* What a healthy connection needs to stay so.
LEMMA StaysHealthy ==
  ASSUME NEW g, Healthy(g), conn'[g] = conn[g], catalogue' = catalogue,
         task'[conn[g]] = task[conn[g]], listed'[conn[g]] = listed[conn[g]],
         using'[conn[g]] # 0 /\ channel'[using'[conn[g]]] = "broken" =>
           using[conn[g]] # 0 /\ channel[using[conn[g]]] = "broken",
         Waited(g)' => OnItsWay(g)'
  PROVE  Healthy(g)'
BY DEF Healthy

\* A connection on which nothing happens.
LEMMA StaysOnItsWay ==
  ASSUME NEW g, Healthy(g), conn'[g] = conn[g], catalogue' = catalogue,
         waits'[g] = waits[g], published \subseteq published',
         inbox'[conn[g]] = inbox[conn[g]], reply'[conn[g]] = reply[conn[g]]
  PROVE  Waited(g)' => OnItsWay(g)'
<1>1. Waited(g)' => Waited(g)
  BY DEF Waited, Wanted
<1>2. OnItsWay(g) => OnItsWay(g)'
  BY DEF OnItsWay
<1> QED BY <1>1, <1>2 DEF Healthy

\* What is on its way is all there is between gateway and task.
LEMMA OnlyOnItsWay ==
  ASSUME AckedInvariant, NEW g \in Gateways, conn[g] # 0, waits[g] # <<>>, OnItsWay(g)
  PROVE  \/ /\ inbox[conn[g]] = waits[g] /\ inbox[conn[g]] = <<waits[g][1]>>
            /\ reply[conn[g]] = <<>>
         \/ /\ inbox[conn[g]] = <<>>
            /\ \E a \in {"OK", "NX"} : reply[conn[g]] = <<a>> /\ Head(reply[conn[g]]) = a
<1> DEFINE c == conn[g]
<1>1. PICK p \in Packets : waits[g] = <<p>> /\ waits[g][1] = p
  BY WaitsForPacket DEF AckedInvariant
<1>2. /\ <<p>> # <<Piece>> /\ <<p>> # <<Piece, Piece>> /\ <<p>> # <<>>
  <2>1. p # Piece /\ Len(<<p>>) = 1 /\ Len(<<Piece, Piece>>) = 2
    BY PacketNoPiece
  <2>2. <<p>>[1] = p /\ <<Piece>>[1] = Piece
    OBVIOUS
  <2> QED BY <2>1, <2>2
<1>3. ExchangeOn(g, c)
  BY DEF AckedInvariant, Exchange
<1>4. CASE inbox[c] = waits[g]
  BY <1>1, <1>2, <1>3, <1>4 DEF ExchangeOn
<1>5. ASSUME NEW a \in {"OK", "NX"}, reply[c] = <<a>>
      PROVE  inbox[c] = <<>> /\ Head(reply[c]) = a
  <2>1. <<a>> # <<>> /\ <<a>> # <<"ER">> /\ <<a>> # <<"ER", "ER">> /\ Head(<<a>>) = a
    <3>1. /\ <<a>>[1] = a /\ <<"ER">>[1] = "ER" /\ a # "ER" /\ Head(<<a>>) = a
          /\ Len(<<a>>) = 1 /\ Len(<<"ER", "ER">>) = 2
      BY <1>5
    <3> QED BY <3>1
  <2> QED BY <1>3, <1>5, <2>1 DEF ExchangeOn
<1> QED BY <1>1, <1>4, <1>5 DEF OnItsWay

LEMMA ConnectLosses ==
  ASSUME LossesInvariant, NEW g \in Gateways, Connect(g)
  PROVE  OwnOnly' /\ LossesCounted'
<1> USE DEF LossesInvariant, AckedInvariant
<1>1. PICK c \in Conns :
        /\ task[c] = "none" /\ conn' = [conn EXCEPT ![g] = c]
        /\ IF catalogue = NoCatalogue
             THEN /\ task' = [task EXCEPT ![c] = "ended"] /\ catalogue' = Default
                  /\ UNCHANGED listed
             ELSE /\ task' = [task EXCEPT ![c] = "recv"]
                  /\ listed' = [listed EXCEPT ![c] = Known(catalogue)]
                  /\ UNCHANGED catalogue
  BY DEF Connect
<1>2. UNCHANGED <<inbox, reply, using, waits, misses, cuts, channel, brokerUp, mongoUp,
                  published>>
  BY DEF Connect, rabbit, outcome
<1>3. OwnOnly'
  <2>1. \A d \in Conns : task'[d] = "none" => task[d] = "none"
    BY <1>1 DEF TypeOK
  <2> QED BY <1>2, <2>1 DEF OwnOnly
<1>4. CASE catalogue = NoCatalogue
  <2>1. \A h \in Gateways : misses'[h] = 0 /\ cuts'[h] \in Nat
    BY <1>2, <1>4 DEF LossesCounted, TypeOK
  <2>2. LossesCounted'
    BY <2>1, NoneCounted
  <2> QED BY <1>3, <2>2
<1>5. CASE catalogue # NoCatalogue
  <2>1. /\ conn'[g] = c /\ task'[c] = "recv" /\ listed'[c] = Known(catalogue)
        /\ catalogue' = catalogue /\ using[c] = 0 /\ waits[g] = <<>>
        /\ \A d \in Conns : d # c => task'[d] = task[d] /\ listed'[d] = listed[d]
        /\ \A h \in Gateways : h # g => conn'[h] = conn[h]
    BY <1>1, <1>5 DEF Connect, OwnOnly, TypeOK
  <2>2. Healthy(g)'
    BY <1>2, <2>1 DEF Healthy, Waited
  <2>3. ASSUME NEW h \in Gateways, conn'[h] # 0, ~Healthy(h)'
        PROVE  conn[h] # 0 /\ ~Healthy(h)
    <3>1. h # g /\ conn'[h] = conn[h]
      BY <2>1, <2>2, <2>3
    <3>2. conn[h] \in Conns /\ conn[h] # c
      BY <1>1, <2>3, <3>1 DEF Connected, TypeOK
    <3>3. Healthy(h) => Healthy(h)'
      BY <1>2, <2>1, <3>1, <3>2, StaysHealthy, StaysOnItsWay
    <3> QED BY <2>3, <3>1, <3>3
  <2> QED BY <1>2, <1>3, <2>1, <2>3, NoneWorse
<1> QED BY <1>3, <1>4, <1>5

\* A step of a gateway leaves the others' connections alone.
LEMMA OthersStayHealthy ==
  ASSUME LossesInvariant, NEW g \in Gateways, conn[g] \in Conns, conn[g] # 0,
         \A d \in Conns : d # conn[g] => inbox'[d] = inbox[d] /\ reply'[d] = reply[d],
         \A h \in Gateways : h # g => conn'[h] = conn[h] /\ waits'[h] = waits[h],
         UNCHANGED <<catalogue, task, listed, using, channel, published>>,
         NEW h \in Gateways, h # g, conn[h] # 0, Healthy(h)
  PROVE  Healthy(h)'
<1>1. conn[h] # conn[g] /\ conn[h] \in Conns
  BY DEF LossesInvariant, AckedInvariant, Connected, TypeOK
<1> QED BY <1>1, StaysHealthy, StaysOnItsWay

LEMMA SendLosses ==
  ASSUME LossesInvariant, NEW g \in Gateways, Send(g)
  PROVE  OwnOnly' /\ LossesCounted'
<1> USE DEF LossesInvariant, AckedInvariant
<1>1. PICK p \in Packets : /\ p.machine = g
                           /\ waits' = [waits EXCEPT ![g] = <<p>>] /\ Arrives(g, p)
  <2>1. count' \in Ids
    BY Numbers DEF Send, TypeOK, Ids
  <2> QED BY <2>1 DEF Send, Packets
<1>2. /\ conn[g] \in Conns /\ conn[g] # 0 /\ waits[g] = <<>>
      /\ UNCHANGED <<catalogue, task, reply, listed, using, conn, misses, channel,
                     brokerUp, mongoUp, published>>
  BY DEF Send, TypeOK, rabbit, outcome
<1>3. /\ waits'[g] = <<p>> /\ <<p>>[1] = p
      /\ \A h \in Gateways : h # g => waits'[h] = waits[h]
      /\ \A d \in Conns : d # conn[g] => inbox'[d] = inbox[d]
  BY <1>1 DEF Arrives, TypeOK
<1>4. OwnOnly'
  BY <1>1, <1>2, <1>3 DEF OwnOnly
<1>5. ASSUME NEW h \in Gateways, h # g, conn[h] # 0, Healthy(h) PROVE Healthy(h)'
  BY <1>2, <1>3, <1>5, OthersStayHealthy
<1>6. CASE /\ inbox' = [inbox EXCEPT ![conn[g]] =
                           IF task[conn[g]] = "recv" THEN Append(@, p) ELSE @]
           /\ UNCHANGED cuts
  <2>1. ASSUME Healthy(g) PROVE Healthy(g)'
    <3>1. task[conn[g]] = "recv"
      BY <2>1 DEF Healthy
    <3>2. inbox[conn[g]] = <<>> /\ Append(<<>>, p) = <<p>>
      BY <1>2 DEF Exchange, ExchangeOn
    <3>3. inbox'[conn[g]] = <<p>>
      BY <1>2, <1>6, <3>1, <3>2 DEF TypeOK
    <3>4. OnItsWay(g)'
      BY <1>2, <1>3, <3>3 DEF OnItsWay
    <3> QED BY <1>2, <2>1, <3>4, StaysHealthy
  <2>2. ASSUME NEW h \in Gateways, conn[h] # 0, Healthy(h) PROVE Healthy(h)'
    BY <1>5, <2>1, <2>2
  <2>3. LossesCounted'
    BY <1>2, <1>6, <2>2, NoneWorse
  <2> QED BY <1>4, <2>3
<1>7. CASE cuts' = [cuts EXCEPT ![g] = @ + 1]
  <2>1. cuts'[g] = cuts[g] + 1 /\ \A h \in Gateways : h # g => cuts'[h] = cuts[h]
    BY <1>7 DEF TypeOK
  <2>2. LossesCounted'
    BY <1>2, <1>5, <2>1, NoneWorse
  <2> QED BY <1>4, <2>2
<1> QED BY <1>1, <1>6, <1>7 DEF Arrives

LEMMA HearLosses ==
  ASSUME LossesInvariant, NEW g \in Gateways, Hear(g)
  PROVE  OwnOnly' /\ LossesCounted'
<1> USE DEF LossesInvariant, AckedInvariant
<1> DEFINE c == conn[g]
           answer == Head(reply[c])
<1>1. c \in Conns /\ c # 0 /\ waits[g] # <<>> /\ reply[c] # <<>>
  BY DEF Hear, TypeOK
<1>2. /\ reply' = [reply EXCEPT ![c] = Tail(@)]
      /\ waits' = IF answer = "RAW" THEN waits ELSE [waits EXCEPT ![g] = <<>>]
      /\ UNCHANGED <<catalogue, task, inbox, listed, using, conn, misses, cuts, channel,
                     brokerUp, mongoUp, published>>
  BY DEF Hear, rabbit, outcome
<1>3. /\ \A d \in Conns : d # c => inbox'[d] = inbox[d] /\ reply'[d] = reply[d]
      /\ \A h \in Gateways : h # g => waits'[h] = waits[h]
      /\ waits'[g] = IF answer = "RAW" THEN waits[g] ELSE <<>>
  BY <1>2 DEF TypeOK
<1>4. OwnOnly'
  BY <1>2, <1>3 DEF OwnOnly
<1>5. ASSUME Healthy(g), Waited(g)' PROVE FALSE
  <2>1. answer = "RAW" /\ waits'[g] = waits[g]
    BY <1>3, <1>5 DEF Waited
  <2>2. Waited(g)
    BY <1>2, <1>5, <2>1 DEF Waited, Wanted
  <2>3. OnItsWay(g)
    BY <1>5, <2>2 DEF Healthy
  <2> QED BY <1>1, <2>1, <2>3, OnlyOnItsWay
<1>6. ASSUME NEW h \in Gateways, conn[h] # 0, Healthy(h) PROVE Healthy(h)'
  <2>1. CASE h = g
    BY <1>2, <1>5, <1>6, <2>1, StaysHealthy
  <2>2. CASE h # g
    BY <1>1, <1>2, <1>3, <1>6, <2>2, OthersStayHealthy
  <2> QED BY <2>1, <2>2
<1>7. LossesCounted'
  BY <1>2, <1>6, NoneWorse
<1> QED BY <1>4, <1>7

\* What counts as lost was on a connection that ailed, and goes with it.
LEMMA RebootsLosses ==
  ASSUME LossesInvariant, NEW g \in Gateways, Refused(g) \/ GiveUp(g)
  PROVE  OwnOnly' /\ LossesCounted'
<1> USE DEF LossesInvariant, AckedInvariant
<1>1. /\ conn[g] \in Conns /\ conn[g] # 0 /\ waits[g] # <<>>
      /\ conn' = [conn EXCEPT ![g] = 0] /\ waits' = [waits EXCEPT ![g] = <<>>]
      /\ reply' = [reply EXCEPT ![conn[g]] = <<>>]
      /\ UNCHANGED <<catalogue, task, inbox, listed, using, channel, cuts, brokerUp,
                     mongoUp, published>>
  BY DEF Refused, GiveUp, Reboots, rabbit, outcome, TypeOK
<1>2. /\ conn'[g] = 0 /\ waits'[g] = <<>>
      /\ \A h \in Gateways : h # g => conn'[h] = conn[h] /\ waits'[h] = waits[h]
      /\ \A d \in Conns : d # conn[g] => inbox'[d] = inbox[d] /\ reply'[d] = reply[d]
  BY <1>1 DEF TypeOK
<1>3. OwnOnly'
  BY <1>1, <1>2 DEF OwnOnly
<1>4. ASSUME NEW h \in Gateways, conn'[h] # 0, ~Healthy(h)'
      PROVE  conn[h] # 0 /\ ~Healthy(h)
  <2>1. h # g /\ conn[h] # 0
    BY <1>2, <1>4
  <2>2. Healthy(h) => Healthy(h)'
    BY <1>1, <1>2, <2>1, OthersStayHealthy
  <2> QED BY <1>4, <2>1, <2>2
<1>5. CASE misses' = misses
  BY <1>1, <1>3, <1>4, <1>5, NoneWorse
<1>6. CASE misses' # misses
  <2>1. /\ misses' = [misses EXCEPT ![g] = @ + 1] /\ Waited(g) /\ catalogue # NoCatalogue
        /\ \/ reply[conn[g]] # <<>> /\ Head(reply[conn[g]]) = "ER"
           \/ Unanswered(conn[g])
    BY <1>1, <1>6 DEF Refused, GiveUp, Waited, Wanted
  <2>2. ~Healthy(g)
    <3> SUFFICES ASSUME Healthy(g) PROVE FALSE
      OBVIOUS
    <3>1. OnItsWay(g) /\ task[conn[g]] = "recv"
      BY <2>1 DEF Healthy
    <3>2. <<waits[g][1]>> # <<>> /\ \A a : <<a>> # <<>>
      OBVIOUS
    <3> QED BY <1>1, <2>1, <3>1, <3>2, OnlyOnItsWay DEF Unanswered
  <2>3. Ailing(g) = 1 /\ Ailing(g)' = 0
    BY <1>1, <1>2, <2>2 DEF Ailing
  <2>4. \A h \in Gateways : h # g => /\ Ailing(h)' <= Ailing(h)
                                     /\ Ailing(h) \in {0, 1} /\ Ailing(h)' \in {0, 1}
    BY <1>4 DEF Ailing
  <2>5. SharedBroken' = SharedBroken /\ SharedBroken \in {0, 1}
    BY <1>1 DEF SharedBroken
  <2>6. \A h \in Gateways : misses[h] \in Nat /\ cuts[h] \in Nat
    BY DEF TypeOK
  <2>7. misses'[g] = misses[g] + 1 /\ \A h \in Gateways : h # g => misses'[h] = misses[h]
    BY <2>1 DEF TypeOK
  <2>8. ASSUME brokerUp, mongoUp, NEW h \in Gateways
        PROVE  misses'[h] + Ailing(h)' + SharedBroken' <= 2 + cuts[h]
    <3>1. misses[h] + Ailing(h) + SharedBroken <= 2 + cuts[h]
      BY <2>8 DEF LossesCounted
    <3>2. CASE h = g
      BY <2>3, <2>5, <2>6, <2>7, <3>1, <3>2
    <3>3. CASE h # g
      BY <2>4, <2>5, <2>6, <2>7, <3>1, <3>3
    <3> QED BY <3>2, <3>3
  <2>9. LossesCounted'
    BY <1>1, <2>1, <2>8 DEF LossesCounted
  <2> QED BY <1>3, <2>9
<1> QED BY <1>5, <1>6

\* A reading that is served stays on its way if it is answered OK.
LEMMA ServedOnItsWay ==
  ASSUME LossesInvariant, NEW c \in Conns, NEW p, NEW a,
         Receives(c, p), Replies(c, a), UNCHANGED <<catalogue, conn, waits>>,
         published \subseteq published', NEW g \in Gateways, conn[g] = c, c # 0,
         Healthy(g), Waited(g)',
         Waited(g) /\ p = waits[g][1] => a \in {"OK", "NX"}
  PROVE  OnItsWay(g)'
<1> USE DEF LossesInvariant, AckedInvariant
<1>1. Waited(g) /\ OnItsWay(g) /\ conn'[g] = c /\ waits'[g] = waits[g]
  BY DEF Waited, Wanted, Healthy
<1>2. inbox[c] # <<>> /\ p = Head(inbox[c])
  BY DEF Receives
<1>3. /\ inbox[c] = <<waits[g][1]>> /\ reply[c] = <<>>
      /\ \A x : Head(<<x>>) = x /\ Append(<<>>, x) = <<x>>
  BY <1>1, <1>2, OnlyOnItsWay DEF Waited
<1>4. a \in {"OK", "NX"}
  BY <1>1, <1>2, <1>3
<1>5. reply'[c] = <<a>>
  <2>1. Held(c)
    BY DEF Held
  <2> QED BY <1>3, <2>1 DEF Replies, TypeOK
<1> QED BY <1>1, <1>4, <1>5 DEF OnItsWay

\* What serving changes of all that matters to losses, a raised publication aside.
LEMMA ServeKeepsHealth ==
  ASSUME LossesInvariant, NEW c \in Conns, NEW p, NEW a \in Answers,
         Receives(c, p), Replies(c, a),
         UNCHANGED <<catalogue, listed, conn, waits>>,
         published \subseteq published',
         \A d \in Conns : d # c => using'[d] = using[d],
         \A d \in Conns : using'[d] # 0 /\ channel'[using'[d]] = "broken" =>
           using[d] # 0 /\ channel[using[d]] = "broken",
         NEW g \in Gateways, conn[g] # 0, Healthy(g),
         conn[g] = c /\ Waited(g) /\ p = waits[g][1] => a \in {"OK", "NX"}
  PROVE  Healthy(g)'
<1> USE DEF LossesInvariant, AckedInvariant
<1>1. conn[g] \in Conns /\ task' = task
  BY DEF Replies, TypeOK
<1>2. CASE conn[g] = c
  <2>1. Waited(g)' => OnItsWay(g)'
    BY <1>2, ServedOnItsWay
  <2> QED BY <1>1, <2>1, StaysHealthy
<1>3. CASE conn[g] # c
  <2>1. inbox'[conn[g]] = inbox[conn[g]] /\ reply'[conn[g]] = reply[conn[g]]
    BY <1>1, <1>3 DEF Receives, Replies, TypeOK
  <2>2. Waited(g)' => OnItsWay(g)'
    BY <2>1, StaysOnItsWay
  <2> QED BY <1>1, <2>2, StaysHealthy
<1> QED BY <1>2, <1>3

\* A packet that its gateway waits for is not answered alone as long as the connection
\* is healthy, and not ER as long as readings can be logged.
LEMMA UnservedLosses ==
  ASSUME LossesInvariant, NEW c \in Conns, Unconverted(c) \/ Unlisted(c) \/ LookupFails(c)
  PROVE  OwnOnly' /\ LossesCounted'
<1> USE DEF LossesInvariant, AckedInvariant
<1>1. UNCHANGED <<catalogue, listed, using, channel, conn, waits, misses, cuts, brokerUp,
                  mongoUp, published>>
  BY DEF Unconverted, Unlisted, LookupFails, gateVars, rabbit, outcome, Aside
<1>2. PICK p : \E a \in Answers :
        /\ Receives(c, p) /\ Replies(c, a)
        /\ \/ p = Piece \/ ~mongoUp \/ a = "NX"
           \/ catalogue # NoCatalogue => p.machine \in Known(catalogue) /\ ~Listed(c, p)
  <2>1. CASE Unconverted(c)
    BY <2>1, AnswersAre DEF Unconverted
  <2>2. CASE Unlisted(c)
    BY <2>2, AnswersAre DEF Unlisted, Converts
  <2>3. CASE LookupFails(c)
    BY <2>3, AnswersAre DEF LookupFails, Converts
  <2> QED BY <2>1, <2>2, <2>3
<1>3. PICK a \in Answers :
        /\ Receives(c, p) /\ Replies(c, a)
        /\ \/ p = Piece \/ ~mongoUp \/ a = "NX"
           \/ catalogue # NoCatalogue => p.machine \in Known(catalogue) /\ ~Listed(c, p)
  BY <1>2
<1>4. OwnOnly'
  BY <1>1, <1>3 DEF OwnOnly, Replies
<1>5. CASE ~mongoUp
  BY <1>1, <1>4, <1>5 DEF LossesCounted
<1>6. CASE mongoUp
  <2>1. ASSUME NEW g \in Gateways, Healthy(g), conn[g] = c, Waited(g), p = waits[g][1]
        PROVE  a \in {"OK", "NX"}
    <3>1. p # Piece
      BY <2>1, WaitsForPacket, PacketNoPiece DEF Waited
    <3>2. p.machine = g /\ <<p.machine, p.sensor>> \in catalogue /\ catalogue # NoCatalogue
      BY <2>1 DEF Waited, Wanted, OwnOnly
    <3>3. g \in Known(catalogue) => g \in listed[c]
      BY <2>1, <3>2 DEF Healthy
    <3> QED BY <1>3, <1>6, <3>1, <3>2, <3>3 DEF Listed
  <2>2. ASSUME NEW g \in Gateways, conn[g] # 0, Healthy(g) PROVE Healthy(g)'
    BY <1>1, <1>3, <2>1, <2>2, ServeKeepsHealth
  <2>3. LossesCounted'
    BY <1>1, <2>2, NoneWorse
  <2> QED BY <1>4, <2>3
<1> QED BY <1>5, <1>6

LEMMA PublishLosses ==
  ASSUME LossesInvariant, NEW c \in Conns, Publish(c) \/ PublishIntoVoid(c)
  PROVE  OwnOnly' /\ LossesCounted'
<1> USE DEF LossesInvariant, AckedInvariant
<1>1. \E p : Receives(c, p) /\ Replies(c, "OK")
  <2>1. CASE Publish(c)
    BY <2>1 DEF Publish, Converts
  <2>2. CASE PublishIntoVoid(c)
    BY <2>2 DEF PublishIntoVoid, Converts
  <2> QED BY <2>1, <2>2
<1>2. /\ UNCHANGED <<catalogue, listed, conn, waits, brokerUp, mongoUp>>
      /\ published \subseteq published'
  BY DEF Publish, PublishIntoVoid, gateVars, rabbit, Aside
<1>3. \/ UNCHANGED <<using, channel>>
      \/ /\ using' = [using EXCEPT ![c] = c]
         /\ channel' = [channel EXCEPT ![c] = "open"]
  BY DEF Publish, PublishIntoVoid, rabbit, Aside
<1>4. \A g \in Gateways :
        \/ misses'[g] = 0 /\ cuts'[g] \in Nat
        \/ misses'[g] = misses[g] /\ cuts'[g] = cuts[g]
  BY DEF Publish, PublishIntoVoid, gateVars, TypeOK
<1>5. /\ \A d \in Conns : d # c => using'[d] = using[d]
      /\ using'[c] \in {using[c], c}
      /\ \A d \in Conns \cup {0} : channel'[d] = "broken" => channel[d] = "broken"
      /\ using'[c] # using[c] => channel'[using'[c]] = "open"
  BY <1>3 DEF TypeOK
<1>6. \A d \in Conns : using'[d] # 0 /\ channel'[using'[d]] = "broken" =>
        using[d] # 0 /\ channel[using[d]] = "broken"
  BY <1>5 DEF TypeOK
<1>7. OwnOnly'
  <2>1. task' = task
    BY <1>1 DEF Replies
  <2>2. task[c] = "recv"
    BY <1>1 DEF Receives
  <2> QED BY <1>2, <1>5, <2>1, <2>2 DEF OwnOnly
<1>8. ASSUME NEW g \in Gateways, conn[g] # 0, Healthy(g) PROVE Healthy(g)'
  BY <1>1, <1>2, <1>5, <1>6, <1>8, AnswersAre, ServeKeepsHealth
<1>9. LossesCounted'
  BY <1>2, <1>4, <1>5, <1>8, NoneWorse
<1> QED BY <1>7, <1>9

\* The loss of a raised publication is counted on its connection; if its channel was
\* the one that every task starts with, that one is broken no longer.
LEMMA RaisesLosses ==
  ASSUME LossesInvariant, NEW c \in Conns, PublishRaises(c)
  PROVE  OwnOnly' /\ LossesCounted'
<1> USE DEF LossesInvariant, AckedInvariant
<1>1. PICK p : /\ Receives(c, p) /\ Replies(c, "RAW")
               /\ \/ /\ channel[using[c]] = "broken"
                     /\ channel' = [channel EXCEPT ![using[c]] = "closed"]
                  \/ channel[using[c]] = "closed" /\ ~brokerUp /\ UNCHANGED channel
  BY DEF PublishRaises, Converts
<1>2. UNCHANGED <<catalogue, listed, using, conn, waits, misses, cuts, brokerUp, mongoUp,
                  published>>
  BY DEF PublishRaises, gateVars, outcome, Aside
<1>3. OwnOnly'
  BY <1>1, <1>2 DEF OwnOnly, Replies
<1>4. CASE ~brokerUp
  BY <1>2, <1>3, <1>4 DEF LossesCounted
<1>5. CASE channel[using[c]] = "broken" /\ channel' = [channel EXCEPT ![using[c]] = "closed"]
  <2>1. \A d \in Conns \cup {0} : channel'[d] = "broken" => channel[d] = "broken"
    BY <1>5 DEF TypeOK
  <2>2. CASE using[c] # 0
    <3>1. ASSUME NEW g \in Gateways, conn[g] # 0, Healthy(g) PROVE Healthy(g)'
      <4>1. conn[g] # c
        BY <1>5, <2>2, <3>1 DEF Healthy
      <4>2. \A d \in Conns : using'[d] # 0 /\ channel'[using'[d]] = "broken" =>
              using[d] # 0 /\ channel[using[d]] = "broken"
        BY <1>2, <2>1 DEF TypeOK
      <4> QED BY <1>1, <1>2, <3>1, <4>1, <4>2, AnswersAre, ServeKeepsHealth
    <3>2. LossesCounted'
      BY <1>2, <2>1, <3>1, NoneWorse
    <3> QED BY <1>3, <3>2
  <2>3. CASE using[c] = 0
    <3>1. SharedBroken = 1 /\ SharedBroken' = 0
      BY <1>5, <2>3 DEF SharedBroken, TypeOK
    <3>2. \A g \in Gateways : /\ misses[g] \in Nat /\ cuts[g] \in Nat
                              /\ Ailing(g) \in {0, 1} /\ Ailing(g)' \in {0, 1}
      BY DEF Ailing, TypeOK
    <3>3. LossesCounted'
      BY <1>2, <3>1, <3>2 DEF LossesCounted
    <3> QED BY <1>3, <3>3
  <2> QED BY <2>2, <2>3
<1> QED BY <1>1, <1>4, <1>5

\* A task ends when no gateway has its connection.
LEMMA TaskEndsLosses ==
  ASSUME LossesInvariant, NEW c \in Conns, TaskEnds(c)
  PROVE  OwnOnly' /\ LossesCounted'
<1> USE DEF LossesInvariant, AckedInvariant
<1>1. /\ task' = [task EXCEPT ![c] = "ended"] /\ inbox' = [inbox EXCEPT ![c] = <<>>]
      /\ listed' = [listed EXCEPT ![c] = {}]
      /\ UNCHANGED <<catalogue, reply, using, channel, conn, waits, misses, cuts,
                     brokerUp, mongoUp, published>>
  BY DEF TaskEnds, gateVars, rabbit, outcome
<1>2. /\ task'[c] = "ended"
      /\ \A d \in Conns : d # c => /\ inbox'[d] = inbox[d] /\ task'[d] = task[d]
                                   /\ listed'[d] = listed[d]
  BY <1>1 DEF TypeOK
<1>3. OwnOnly'
  BY <1>1, <1>2 DEF OwnOnly
<1>4. ASSUME NEW g \in Gateways, conn[g] # 0, Healthy(g) PROVE Healthy(g)'
  <2>1. conn[g] \in Conns /\ conn[g] # c
    BY <1>4 DEF TaskEnds, Held, TypeOK
  <2>2. Waited(g)' => OnItsWay(g)'
    BY <1>1, <1>2, <1>4, <2>1, StaysOnItsWay
  <2> QED BY <1>1, <1>2, <1>4, <2>1, <2>2, StaysHealthy
<1>5. LossesCounted'
  BY <1>1, <1>4, NoneWorse
<1> QED BY <1>3, <1>5

LEMMA EnvironmentLosses ==
  ASSUME LossesInvariant, Environment PROVE OwnOnly' /\ LossesCounted'
<1>1. NoneMissed /\ UNCHANGED <<task, using, waits>>
  <2>1. CASE BrokerFails \/ BrokerReturns \/ ConnectionTimesOut
    BY <2>1 DEF BrokerFails, BrokerReturns, ConnectionTimesOut, Fault, taskVars
  <2>2. CASE MongoFails \/ MongoReturns \/ CatalogueChanges
    BY <2>2 DEF MongoFails, MongoReturns, CatalogueChanges, Fault, taskVars
  <2> QED BY <2>1, <2>2 DEF Environment
<1>2. LossesCounted'
  BY <1>1, NoneCounted DEF NoneMissed, LossesInvariant, AckedInvariant
<1> QED BY <1>1, <1>2 DEF LossesInvariant, OwnOnly

LEMMA LossesStep == LossesInvariant /\ [Next]_vars => LossesInvariant'
<1> SUFFICES ASSUME LossesInvariant, [Next]_vars PROVE OwnOnly' /\ LossesCounted'
  BY AckedStep DEF LossesInvariant
<1>1. CASE UNCHANGED vars
  BY <1>1 DEF vars, taskVars, gateVars, rabbit, outcome, LossesInvariant, OwnOnly,
              LossesCounted, Ailing, Healthy, Waited, Wanted, OnItsWay, SharedBroken
<1>2. CASE \E g \in Gateways : \/ Connect(g) \/ Send(g) \/ Hear(g)
                               \/ Refused(g) \/ GiveUp(g)
  BY <1>2, ConnectLosses, SendLosses, HearLosses, RebootsLosses
<1>3. CASE \E c \in Conns : Serve(c) \/ TaskEnds(c)
  BY <1>3, UnservedLosses, PublishLosses, RaisesLosses, TaskEndsLosses DEF Serve
<1>4. CASE Environment
  BY <1>4, EnvironmentLosses
<1> QED BY <1>1, <1>2, <1>3, <1>4 DEF Next

\* At most two readings in a row of a listed sensor are lost, and one more for every
\* packet that came in two chunks in that time, once RabbitMQ, MongoDB and the
\* catalogue are left alone (manage_client, convert_hex2decimal,
\* publish_facility_msg), however many gateways there are.
THEOREM LossesCorrect == Spec => []LossesBounded
<1>1. Init => LossesInvariant
  <2>1. Init => Connected /\ Exchange /\ AckedIsPublished
    BY DEF Init, Connected, Exchange, AckedIsPublished
  <2>2. ASSUME Init PROVE OwnOnly /\ LossesCounted
    <3>1. \A g \in Gateways :
            misses[g] = 0 /\ cuts[g] = 0 /\ conn[g] = 0 /\ waits[g] = <<>>
      BY <2>2 DEF Init
    <3>2. SharedBroken = 0 /\ \A g \in Gateways : Ailing(g) = 0
      BY <2>2, <3>1 DEF Init, SharedBroken, Ailing
    <3> QED BY <2>2, <3>1, <3>2 DEF Init, OwnOnly, LossesCounted
  <2> QED BY <2>1, <2>2, TypeInit DEF LossesInvariant, AckedInvariant
<1>2. LossesInvariant => LossesBounded
  <2> SUFFICES ASSUME LossesInvariant, brokerUp, mongoUp, NEW g \in Gateways
               PROVE  misses[g] <= 2 + cuts[g]
    BY DEF LossesBounded
  <2>1. /\ misses[g] \in Nat /\ cuts[g] \in Nat
        /\ Ailing(g) \in {0, 1} /\ SharedBroken \in {0, 1}
    BY Counts DEF LossesInvariant, AckedInvariant
  <2> QED BY <2>1 DEF LossesInvariant, LossesCounted
<1> QED BY <1>1, <1>2, LossesStep, PTL DEF Spec
=============================================================================
