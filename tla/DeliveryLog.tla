----------------------------- MODULE DeliveryLog -----------------------------
(***************************************************************************)
(* One machine's readings on their way from the server to the time series: *)
(* the server logs a reading in the day's document of MongoDB              *)
(* (mongo_manager.py) and publishes it (iiot_tcp_async_server.py), the     *)
(* agent takes it from a queue per facility, confirms it in the document   *)
(* and stores it (iiot_mqtt_agent.py).                                     *)
(*                                                                         *)
(* Granularity: a request to MongoDB, RabbitMQ or InfluxDB is a step.  The *)
(* server's tasks do not interleave here: between its two requests for a   *)
(* document and the publication there is no await.                         *)
(***************************************************************************)
EXTENDS Integers, Sequences, FiniteSets

CONSTANTS
  Facilities,   \* keys of the catalogue: the agent has a queue for each
  Readings,     \* bound: readings of the machine, numbered in order of their time
  DayOf,        \* the day of each reading
  Short,        \* days with a month or a day of one digit
  MaxFailures,  \* bound: requests of the server or to InfluxDB that fail
  MaxCrashes    \* bound: crashes of the agent

Times == 1..Readings
Days  == {DayOf[t] : t \in Times}

ASSUME DeliveryConstantsOK ==
  /\ Readings \in Nat /\ MaxFailures \in Nat /\ MaxCrashes \in Nat
  /\ DOMAIN DayOf = Times
  /\ IsFiniteSet(Facilities)

\* What stands behind a time in LOG: nothing, {'SENT': ''}, {'SENT': 'RECEIVED'},
\* or the text 'CHECK'.
Marks == {"none", "sent", "received", "check"}
Logs  == [Times -> Marks]

\* A document of the collection; its day in one of the two spellings.
Document == [day : Days \X {"bare", "padded"}, log : Logs]

VARIABLES
  docs,      \* the machine's collection, in the order of _id
  clock,     \* readings so far
  spc,       \* server: "idle", "find", "write", "publish"
  sdoc,      \* the document it works on: its index (0: none) and a copy of LOG
  queue,     \* the agent's queue of each facility
  bound,     \* queues that are bound to the exchange
  apc,       \* agent: "down", "bind", "consume", "find", "write", "store"
  msg,       \* the reading it has in hand
  adoc,      \* its document, like sdoc
  points,    \* points stored in the time series, per reading
  taken,     \* readings the agent has taken from a queue
  handled,   \* readings it is done with
  failures, crashes,
  overlapped \* history: a process has read a document that the other was about
             \* to write

server == <<clock, spc, sdoc>>
agent  == <<apc, msg, adoc, taken, handled>>
broker == <<queue, bound>>
vars   == <<docs, server, broker, agent, points, failures, crashes,
            overlapped>>

NoDoc == [id |-> 0, log |-> [t \in Times |-> "none"]]

Init ==
  /\ docs = <<>> /\ clock = 0 /\ spc = "idle" /\ sdoc = NoDoc
  /\ queue = [f \in Facilities |-> <<>>] /\ bound = {}
  /\ apc = "down" /\ msg = 0 /\ adoc = NoDoc
  /\ points = [t \in Times |-> 0] /\ taken = {} /\ handled = {}
  /\ failures = 0 /\ crashes = 0 /\ overlapped = FALSE

-----------------------------------------------------------------------------
(* mongo_manager.py *)

\* The server writes the date as year-month-day without zeros, the agent cuts it
\* off str(datetime), which has them.
DocKey(d)  == <<d, IF d \in Short THEN "bare" ELSE "padded">>

\* Mutant: the agent cuts the zeros off as well.
DayPartBare(d) == <<d, "bare">>

DayPart(d) == <<d, "padded">>

Matches(key) == {i \in DOMAIN docs : docs[i].day = key}

\* find_one: any document that matches.
FindOne(key, found) ==
  \/ Matches(key) = {} /\ found = NoDoc
  \/ \E i \in Matches(key) : found = [id |-> i, log |-> docs[i].log]

\* Mutant: the document is not written whole, as one LOG, but begun again.
BeginAgain(doc, key, t, status) ==
  docs' = IF doc.id = 0
            THEN Append(docs, [day |-> key, log |-> [NoDoc.log EXCEPT ![t] = status]])
            ELSE [docs EXCEPT ![doc.id].log = [NoDoc.log EXCEPT ![t] =
                    IF doc.log[t] = "none" THEN "sent" ELSE "received"]]

\* Mutant: everything logged for the day is confirmed.
ConfirmDay(doc, key, t, status) ==
  docs' = IF doc.id = 0
            THEN Append(docs, [day |-> key, log |-> [NoDoc.log EXCEPT ![t] = status]])
            ELSE [docs EXCEPT ![doc.id].log = [u \in Times |->
                    IF doc.log[u] = "sent" \/ u = t THEN "received" ELSE doc.log[u]]]

\* Mutant: an entry that is there is written as sent once more.
SendAgain(doc, key, t, status) ==
  docs' = IF doc.id = 0
            THEN Append(docs, [day |-> key, log |-> [NoDoc.log EXCEPT ![t] = status]])
            ELSE [docs EXCEPT ![doc.id].log = [doc.log EXCEPT ![t] = "sent"]]

\* The second half of document_upsert, for a document found before: insert it,
\* or add or confirm the entry and write LOG back as a whole.
Upsert(doc, key, t, status) ==
  docs' = IF doc.id = 0
            THEN Append(docs, [day |-> key, log |-> [NoDoc.log EXCEPT ![t] = status]])
            ELSE [docs EXCEPT ![doc.id].log =
                    IF doc.log[t] = "check" THEN @
                    ELSE [doc.log EXCEPT ![t] = IF @ = "none" THEN "sent" ELSE "received"]]

-----------------------------------------------------------------------------
(* iiot_tcp_async_server.py: convert_hex2decimal and publish_facility_msg *)

\* A packet with a reading.
Packet ==
  /\ spc = "idle" /\ clock < Readings
  /\ clock' = clock + 1 /\ spc' = "find"
  /\ UNCHANGED <<docs, sdoc, broker, agent, points, failures, crashes, overlapped>>

ServerFind ==
  /\ spc = "find" /\ spc' = "write"
  /\ FindOne(DocKey(DayOf[clock]), sdoc')
  /\ overlapped' = (overlapped \/ apc = "write")
  /\ UNCHANGED <<docs, clock, broker, agent, points, failures, crashes>>

ServerWrite ==
  /\ spc = "write"
  /\ Upsert(sdoc, DocKey(DayOf[clock]), clock, "sent")
  /\ spc' = "publish" /\ sdoc' = NoDoc
  /\ UNCHANGED <<clock, broker, agent, points, failures, crashes, overlapped>>

\* A fanout: every bound queue gets a copy; nobody's if the agent is down.
Publish ==
  /\ spc = "publish" /\ spc' = "idle"
  /\ queue' = [f \in Facilities |->
                 IF f \in bound THEN Append(queue[f], clock) ELSE queue[f]]
  /\ UNCHANGED <<docs, clock, sdoc, bound, agent, points, failures, crashes, overlapped>>

\* MongoDB or RabbitMQ refuses, or the machine is not in the catalogue: the
\* reading is not published, whatever the log says by now.
ServerFails ==
  /\ spc # "idle" /\ failures < MaxFailures /\ failures' = failures + 1
  /\ spc' = "idle" /\ sdoc' = NoDoc
  /\ UNCHANGED <<docs, clock, broker, agent, points, crashes, overlapped>>

-----------------------------------------------------------------------------
(* iiot_mqtt_agent.py *)

Start ==
  /\ apc = "down" /\ apc' = "bind"
  /\ UNCHANGED <<docs, server, broker, msg, adoc, taken, handled, points, failures,
                 crashes, overlapped>>

\* syncmessage: one queue after the other, then start_consuming.
BindQueue ==
  /\ apc = "bind"
  /\ \E f \in Facilities \ bound : bound' = bound \cup {f}
  /\ apc' = IF bound' = Facilities THEN "consume" ELSE "bind"
  /\ UNCHANGED <<docs, server, queue, msg, adoc, taken, handled, points, failures,
                 crashes, overlapped>>

\* Mutant: does not ask whether the day has a document.
TakeUnasked ==
  /\ apc = "consume"
  /\ \E f \in Facilities :
       /\ queue[f] # <<>> /\ msg' = Head(queue[f])
       /\ queue' = [queue EXCEPT ![f] = Tail(@)]
  /\ taken' = taken \cup {msg'}
  /\ apc' = "find"
  /\ UNCHANGED <<docs, server, bound, adoc, handled, points, failures, crashes, overlapped>>

\* callback_mqreceive: a message, and whether its day has a document.
Take ==
  /\ apc = "consume"
  /\ \E f \in Facilities :
       /\ queue[f] # <<>> /\ msg' = Head(queue[f])
       /\ queue' = [queue EXCEPT ![f] = Tail(@)]
  /\ taken' = taken \cup {msg'}
  /\ apc' = IF Matches(DayPart(DayOf[msg'])) = {} THEN "store" ELSE "find"
  /\ UNCHANGED <<docs, server, bound, adoc, handled, points, failures, crashes, overlapped>>

AgentFind ==
  /\ apc = "find" /\ apc' = "write"
  /\ FindOne(DayPart(DayOf[msg]), adoc')
  /\ overlapped' = (overlapped \/ spc = "write")
  /\ UNCHANGED <<docs, server, broker, msg, taken, handled, points, failures, crashes>>

AgentWrite ==
  /\ apc = "write"
  /\ Upsert(adoc, DayPart(DayOf[msg]), msg, "check")
  /\ apc' = "store" /\ adoc' = NoDoc
  /\ UNCHANGED <<server, broker, msg, taken, handled, points, failures, crashes, overlapped>>

\* Mutant: the message stays in hand.
StoreKeeps ==
  /\ apc = "store" /\ apc' = "consume" /\ handled' = handled \cup {msg}
  /\ points' = [points EXCEPT ![msg] = @ + 1]
  /\ UNCHANGED <<docs, server, broker, adoc, msg, taken, failures, crashes, overlapped>>

\* The time series may refuse the point; the agent goes on.
Store ==
  /\ apc = "store" /\ apc' = "consume" /\ handled' = handled \cup {msg} /\ msg' = 0
  /\ \/ points' = [points EXCEPT ![msg] = @ + 1] /\ UNCHANGED failures
     \/ failures < MaxFailures /\ failures' = failures + 1 /\ UNCHANGED points
  /\ UNCHANGED <<docs, server, broker, adoc, taken, crashes, overlapped>>

\* Mutant: the queues are not exclusive, so they keep what was not acknowledged.
CrashRequeues ==
  /\ apc # "down" /\ crashes < MaxCrashes /\ crashes' = crashes + 1
  /\ apc' = "down" /\ adoc' = NoDoc /\ msg' = 0 /\ bound' = {}
  /\ queue' = [f \in Facilities |-> IF msg = 0 THEN queue[f] ELSE <<msg>> \o queue[f]]
  /\ UNCHANGED <<docs, server, taken, handled, points, failures, overlapped>>

\* The agent or its connection dies, by an exception of MongoDB for instance.
\* Its queues are exclusive: they and all that is in them go with it.
Crash ==
  /\ apc # "down" /\ crashes < MaxCrashes /\ crashes' = crashes + 1
  /\ apc' = "down" /\ adoc' = NoDoc /\ msg' = 0 /\ bound' = {}
  /\ queue' = [f \in Facilities |-> <<>>]
  /\ UNCHANGED <<docs, server, taken, handled, points, failures, overlapped>>

ServerStep == ServerFind \/ ServerWrite \/ Publish
AgentStep  == BindQueue \/ Take \/ AgentFind \/ AgentWrite \/ Store

Next == Packet \/ ServerStep \/ ServerFails \/ Start \/ AgentStep \/ Crash

Spec == Init /\ [][Next]_vars

\* Both processes run on; nobody has to send a packet or to start the agent.
FairSpec == Spec /\ WF_vars(ServerStep) /\ WF_vars(AgentStep)

-----------------------------------------------------------------------------
DocTypeOK(d) == d.id \in 0..Len(docs) /\ d.log \in Logs

TypeOK ==
  /\ docs \in Seq(Document)
  /\ clock \in 0..Readings /\ spc \in {"idle", "find", "write", "publish"}
  /\ spc # "idle" => clock \in Times
  /\ DocTypeOK(sdoc) /\ DocTypeOK(adoc)
  /\ queue \in [Facilities -> Seq(Times)] /\ bound \subseteq Facilities
  /\ apc \in {"down", "bind", "consume", "find", "write", "store"}
  /\ msg \in Times \cup {0} /\ (apc \in {"find", "write", "store"} <=> msg # 0)
  /\ points \in [Times -> Nat] /\ taken \subseteq Times /\ handled \subseteq Times
  /\ failures \in 0..MaxFailures /\ crashes \in 0..MaxCrashes
  /\ overlapped \in BOOLEAN

MarksOf(t) == {docs[i].log[t] : i \in Matches(DocKey(DayOf[t]))} \ {"none"}

\* No false confirmation: an entry says RECEIVED only of a reading the agent has
\* taken from a queue, whatever copies of the document were written over it
\* (document_upsert, mongo_manager.py).
ReceivedOnlyTaken ==
  \A i \in DOMAIN docs, t \in Times : docs[i].log[t] = "received" => t \in taken

\* The collection has one document a day and only entries of the server: the
\* agent, which may spell the day differently, never makes one.
OneDocumentADay ==
  /\ \A i, j \in DOMAIN docs : docs[i].day[1] = docs[j].day[1] => i = j
  /\ \A i \in DOMAIN docs, t \in Times :
       docs[i].log[t] # "check"
         /\ (docs[i].log[t] # "none" => docs[i].day = DocKey(DayOf[t]))

\* Why no confirmation is false: a reading that is not yet logged is nowhere, and
\* the copies in hand are no more wrong than the documents.
Fresh == {t \in Times : t > clock \/ (t = clock /\ spc \in {"find", "write"})}

Untouched ==
  \A t \in Fresh :
    /\ sdoc.log[t] = "none" /\ adoc.log[t] = "none" /\ msg # t
    /\ \A i \in DOMAIN docs : docs[i].log[t] = "none"
    /\ \A f \in Facilities : \A k \in DOMAIN queue[f] : queue[f][k] # t

CopiesTrue ==
  /\ msg # 0 => msg \in taken
  /\ \A t \in Times :
       sdoc.log[t] = "received" \/ adoc.log[t] = "received" => t \in taken

ReceivedInvariant == TypeOK /\ Untouched /\ CopiesTrue /\ ReceivedOnlyTaken

\* Why there is one document a day: the server inserts only what nobody has, and
\* the agent's document is there before it asks to change it.
Sound(d, key) ==
  \A t \in Times :
    d.log[t] # "none" => /\ d.log[t] # "check"
                         /\ d.id # 0 /\ key = DocKey(DayOf[t])

ServerDoc ==
  spc = "write" =>
    IF sdoc.id = 0
      THEN Matches(DocKey(DayOf[clock])) = {} /\ sdoc = NoDoc
      ELSE docs[sdoc.id].day = DocKey(DayOf[clock]) /\ Sound(sdoc, docs[sdoc.id].day)

AgentDoc ==
  /\ apc = "find" => Matches(DayPart(DayOf[msg])) # {}
  /\ apc = "write" => /\ adoc.id # 0 /\ docs[adoc.id].day = DayPart(DayOf[msg])
                      /\ Sound(adoc, docs[adoc.id].day)

Keyed == \A i \in DOMAIN docs : docs[i].day = DocKey(docs[i].day[1])

DayInvariant == TypeOK /\ Keyed /\ ServerDoc /\ AgentDoc /\ OneDocumentADay

\* A reading becomes at most one point per facility, although messages are never
\* acknowledged and the agent may crash with some in hand.
NoExtraPoints == \A t \in Times : points[t] <= Cardinality(Facilities)

\* Why: a reading is in a queue at most once and nowhere before it is published, and
\* a point needs a copy, which it uses up.
InQueue(f, t) == \E k \in DOMAIN queue[f] : queue[f][k] = t
Holding(t)    == {f \in Facilities : InQueue(f, t)}
InHand(t)     == IF msg = t THEN 1 ELSE 0

OnceEach ==
  \A f \in Facilities : \A j, k \in DOMAIN queue[f] : queue[f][j] = queue[f][k] => j = k

Unpublished ==
  \A t \in Times : t > clock \/ (t = clock /\ spc # "idle") =>
    points[t] = 0 /\ Holding(t) = {} /\ msg # t

CopiesCounted ==
  \A t \in Times : points[t] + Cardinality(Holding(t)) + InHand(t) <= Cardinality(Facilities)

PointsInvariant == TypeOK /\ OnceEach /\ Unpublished /\ CopiesCounted

\* What the agent is done with is confirmed, the log is right as soon as the time
\* series is (callback_mqreceive, iiot_mqtt_agent.py), as long as neither process
\* has read what the other was about to write, and on days whose key the two spell
\* alike; on the others nothing is ever confirmed.
HandledIsConfirmed ==
  ~overlapped => \A t \in handled : DayOf[t] \notin Short => MarksOf(t) = {"received"}

\* Why: until then a copy in hand is what the document holds, and what is on its
\* way to the agent has an entry.
InTurn ==
  ~overlapped =>
    /\ ~(spc = "write" /\ apc = "write")
    /\ spc = "write" /\ sdoc.id # 0 => docs[sdoc.id].log = sdoc.log
    /\ apc = "write" => docs[adoc.id].log = adoc.log

EntriesFirst ==
  ~overlapped =>
    /\ spc = "publish" => MarksOf(clock) # {}
    /\ \A f \in Facilities : \A k \in DOMAIN queue[f] : MarksOf(queue[f][k]) # {}
    /\ apc \in {"find", "write"} => MarksOf(msg) # {}
    /\ apc = "store" /\ DayOf[msg] \notin Short => MarksOf(msg) = {"received"}

TurnsInvariant == DayInvariant /\ InTurn /\ EntriesFirst /\ HandledIsConfirmed

\* A message that has reached a queue is confirmed unless the agent goes down, with
\* the same two exceptions.
QueuedGetsConfirmed ==
  \A t \in {u \in Times : DayOf[u] \notin Short} :
    (\E f \in Facilities : \E k \in DOMAIN queue[f] : queue[f][k] = t)
      ~> ("received" \in MarksOf(t) \/ apc = "down" \/ overlapped)

\* The daily documents are a log to which entries are added and in which they are
\* confirmed, and from which nothing is lost until the two processes overlap
\* (AtomicLog).
Log == INSTANCE AtomicLog WITH
  sent <- {t \in Times : MarksOf(t) # {}},
  confirmed <- {t \in Times : "received" \in MarksOf(t)},
  serial <- ~overlapped
ImplementsAtomicLog == Log!Spec
=============================================================================
