---------------------------- MODULE IngestServer ----------------------------
(***************************************************************************)
(* The server's TCP side (iiot_tcp_async_server.py): a task per connection *)
(* that decodes what it receives, asks the catalogue in Redis, publishes   *)
(* to RabbitMQ and answers; and the gateways in front of it, which send a  *)
(* reading, wait for its answer and connect anew when none comes.          *)
(*                                                                         *)
(* Granularity: between two sock_recv a task never awaits, so all that it  *)
(* does with a chunk is one step.                                          *)
(***************************************************************************)
EXTENDS Integers, Sequences, FiniteSets

CONSTANTS
  Gateways,     \* each at one machine, whose name it bears
  Sensors,      \* sensor codes
  Catalogues,   \* what facilities_info may be: sets of <<machine, sensor>>
  Default,      \* the catalogue of init_facilities_info, one of Catalogues
  NoCatalogue,  \* Redis has no facilities_info
  MaxReadings,  \* bound: readings, all gateways together
  MaxConns,     \* bound: connections
  MaxSplits,    \* bound: packets that arrive in two chunks
  MaxFaults     \* bound: losses of RabbitMQ or MongoDB, changes of the catalogue

Conns == 1..MaxConns
Ids   == 1..MaxReadings

ASSUME IngestConstantsOK ==
  /\ Default \in Catalogues /\ NoCatalogue \notin Catalogues
  /\ \A k \in Catalogues : k \subseteq Gateways \X Sensors
  /\ {MaxReadings, MaxConns, MaxSplits, MaxFaults} \subseteq Nat

\* Chunks: a packet, or a piece of one, which is no packet (at most 27 bytes are
\* received at a time, a packet has 19).
Packets == [machine : Gateways, sensor : Sensors, id : Ids]
Piece   == [id |-> 0]
Chunks  == Packets \cup {Piece}

\* "OK" and the packet; "NX", OK and a packet of an unknown machine; "ER" and what
\* could not be converted; the packet alone, after an exception further on.
Answers == {"OK", "NX", "ER", "RAW"}

\* A facility's message: the last value of each sensor, here the reading it comes
\* from; 0 for the initial 0.0.
Messages == [Sensors -> Ids \cup {0}]
Blank    == [s \in Sensors |-> 0]

VARIABLES
  catalogue,  \* facilities_info
  task,       \* client tasks: "none", "recv", "ended"
  inbox,      \* chunks on their way to each task
  reply,      \* answers on their way back
  listed,     \* machines in the task's fac_daq
  facDaq,     \* the values in it: [machine -> message]
  using,      \* the task's rabbit_channel: 0 is the one all tasks start with
  channel,    \* "open"; "broken", dead but is_open; "closed"
  brokerUp,   \* does RabbitMQ accept connections
  mongoUp,    \* does document_upsert succeed
  conn,       \* each gateway's connection, 0 for none
  waits,      \* the packet it waits for an answer to, <<>> for none
  count,      \* readings so far
  series,     \* the last message published for each machine
  publisher,  \* the task that published it, 0 for none
  published,  \* readings that were part of a message when they came
  swallowed,  \* readings whose message a dead connection took
  acked,      \* readings answered OK, as their gateways see it
  misses,     \* readings given up or refused in a row since the last fault
  cuts,       \* packets that arrived in two chunks in that time
  splits, faults

taskVars == <<task, inbox, reply, listed, facDaq, using>>
gateVars == <<conn, waits, count, acked, misses, cuts>>
rabbit   == <<channel, brokerUp>>
outcome  == <<series, publisher, published, swallowed>>
vars     == <<catalogue, taskVars, gateVars, rabbit, mongoUp, outcome, splits, faults>>

Known(k) == {p[1] : p \in k}

Init ==
  /\ catalogue = Default
  /\ task = [c \in Conns |-> "none"] /\ inbox = [c \in Conns |-> <<>>]
  /\ reply = [c \in Conns |-> <<>>] /\ listed = [c \in Conns |-> {}]
  /\ facDaq = [c \in Conns |-> [m \in Gateways |-> Blank]]
  /\ using = [c \in Conns |-> 0]
  /\ channel = [c \in Conns \cup {0} |-> IF c = 0 THEN "open" ELSE "closed"]
  /\ brokerUp = TRUE /\ mongoUp = TRUE
  /\ conn = [g \in Gateways |-> 0] /\ waits = [g \in Gateways |-> <<>>] /\ count = 0
  /\ series = [g \in Gateways |-> Blank] /\ publisher = [g \in Gateways |-> 0]
  /\ published = {} /\ swallowed = {} /\ acked = {}
  /\ misses = [g \in Gateways |-> 0] /\ cuts = [g \in Gateways |-> 0]
  /\ splits = 0 /\ faults = 0

-----------------------------------------------------------------------------
(* Gateways, as the network manager behaves (networkmanager.c, wifi.c) *)

\* get_client accepts and manage_client takes its snapshot of the catalogue.  If
\* there is none it stores the default one and fails on the one it has not got.
Connect(g) ==
  /\ conn[g] = 0
  /\ \E c \in Conns :
       /\ task[c] = "none" /\ \A b \in Conns : b < c => task[b] # "none"
       /\ conn' = [conn EXCEPT ![g] = c]
       /\ IF catalogue = NoCatalogue
            THEN /\ task' = [task EXCEPT ![c] = "ended"] /\ catalogue' = Default
                 /\ UNCHANGED listed
            ELSE /\ task' = [task EXCEPT ![c] = "recv"]
                 /\ listed' = [listed EXCEPT ![c] = Known(catalogue)]
                 /\ UNCHANGED catalogue
  /\ UNCHANGED <<inbox, reply, facDaq, using, waits, count, acked, misses, cuts, rabbit,
                 mongoUp, outcome, splits, faults>>

\* g's packet arrives as one chunk or as two; at a task that has ended, not at all.
Arrives(g, p) ==
  LET c == conn[g] IN
  \/ inbox' = [inbox EXCEPT ![c] = IF task[c] = "recv" THEN Append(@, p) ELSE @]
     /\ UNCHANGED <<splits, cuts>>
  \/ /\ splits < MaxSplits /\ task[c] = "recv"
     /\ splits' = splits + 1 /\ cuts' = [cuts EXCEPT ![g] = @ + 1]
     /\ inbox' = [inbox EXCEPT ![c] = @ \o <<Piece, Piece>>]

Send(g) ==
  /\ conn[g] # 0 /\ waits[g] = <<>> /\ count < MaxReadings
  /\ count' = count + 1
  /\ \E s \in Sensors :
       LET p == [machine |-> g, sensor |-> s, id |-> count'] IN
       waits' = [waits EXCEPT ![g] = <<p>>] /\ Arrives(g, p)
  /\ UNCHANGED <<catalogue, task, reply, listed, facDaq, using, conn, acked, misses,
                 rabbit, mongoUp, outcome, faults>>

\* The next answer: OK acknowledges; the packet alone is not looked at, which leaves
\* the reading to the response timer.
Hear(g) ==
  /\ conn[g] # 0 /\ waits[g] # <<>>
  /\ reply[conn[g]] # <<>> /\ Head(reply[conn[g]]) # "ER"
  /\ reply' = [reply EXCEPT ![conn[g]] = Tail(@)]
  /\ LET answer == Head(reply[conn[g]]) IN
     /\ waits' = IF answer = "RAW" THEN waits ELSE [waits EXCEPT ![g] = <<>>]
     /\ acked' = IF answer = "OK" THEN acked \cup {waits[g][1].id} ELSE acked
  /\ UNCHANGED <<catalogue, task, inbox, listed, facDaq, using, conn, count, misses, cuts,
                 rabbit, mongoUp, outcome, splits, faults>>

\* Is a reading that is given up a loss of one the server should have published?
Wanted(p) ==
  /\ p.id \notin published
  /\ catalogue # NoCatalogue /\ <<p.machine, p.sensor>> \in catalogue

\* Mutant: the connection is dropped, but the packet is still waited for.
RebootsKeeping(g) ==
  /\ conn' = [conn EXCEPT ![g] = 0]
  /\ UNCHANGED <<catalogue, taskVars, waits, count, acked, cuts, rabbit, mongoUp, outcome,
                 splits, faults>>

\* DeviceReboot: connection and reading are lost, the gateway starts anew.
Reboots(g) ==
  /\ conn' = [conn EXCEPT ![g] = 0] /\ waits' = [waits EXCEPT ![g] = <<>>]
  /\ reply' = [reply EXCEPT ![conn[g]] = <<>>]
  /\ UNCHANGED <<catalogue, task, inbox, listed, facDaq, using, count, acked, cuts,
                 rabbit, mongoUp, outcome, splits, faults>>

\* ER: STATUS_REFUSE_DATA with an error, on which the manager reboots.
Refused(g) ==
  /\ conn[g] # 0 /\ waits[g] # <<>>
  /\ reply[conn[g]] # <<>> /\ Head(reply[conn[g]]) = "ER"
  /\ misses' = IF Wanted(waits[g][1]) THEN [misses EXCEPT ![g] = @ + 1] ELSE misses
  /\ Reboots(g)

Unanswered(c) == reply[c] = <<>> /\ (inbox[c] = <<>> \/ task[c] # "recv")

\* The response timer.  It counts as the server's loss if no answer was on its way.
GiveUp(g) ==
  /\ conn[g] # 0 /\ waits[g] # <<>>
  /\ misses' = IF Wanted(waits[g][1]) /\ Unanswered(conn[g])
                 THEN [misses EXCEPT ![g] = @ + 1] ELSE misses
  /\ Reboots(g)

-----------------------------------------------------------------------------
(* The task: manage_client, convert_hex2decimal, config_fac_msg,
   publish_facility_msg *)

\* The chunk c's task has received.
Receives(c, p) ==
  /\ task[c] = "recv" /\ inbox[c] # <<>> /\ p = Head(inbox[c])
  /\ inbox' = [inbox EXCEPT ![c] = Tail(@)]

Held(c) == \E g \in Gateways : conn[g] = c

\* sendall.  When the other side is gone the answer gets lost.
Replies(c, answer) ==
  /\ reply' = IF Held(c) THEN [reply EXCEPT ![c] = Append(@, answer)] ELSE reply
  /\ UNCHANGED task

\* Everything but the task's own chunk, answer and copies.
Aside == <<catalogue, listed, using, splits, faults>>

\* What is no packet: no STX in front, no ETX, or too short; and any packet whose
\* reading document_upsert fails to log.
Unconverted(c) ==
  \E p \in Chunks :
    /\ Receives(c, p) /\ (p = Piece \/ ~mongoUp)
    /\ Replies(c, "ER")
    /\ UNCHANGED <<facDaq, gateVars, rabbit, mongoUp, outcome, Aside>>

\* convert_hex2decimal's OK: a packet, and its reading is logged.
Converts(c, p) == Receives(c, p) /\ mongoUp

\* The machine is not in the catalogue; it is answered OK all the same.
Unlisted(c) ==
  \E p \in Packets :
    /\ Converts(c, p)
    /\ catalogue # NoCatalogue /\ p.machine \notin Known(catalogue)
    /\ Replies(c, "NX")
    /\ UNCHANGED <<facDaq, gateVars, rabbit, mongoUp, outcome, Aside>>

Listed(c, p) == <<p.machine, p.sensor>> \in catalogue /\ p.machine \in listed[c]

\* No catalogue, a sensor it does not have, or a machine it has not had when the
\* task began: KeyError or TypeError.
LookupFails(c) ==
  \E p \in Packets :
    /\ Converts(c, p)
    /\ catalogue # NoCatalogue => p.machine \in Known(catalogue) /\ ~Listed(c, p)
    /\ Replies(c, "RAW")
    /\ UNCHANGED <<facDaq, gateVars, rabbit, mongoUp, outcome, Aside>>

\* Mutant: the message holds the new value only.
ConfigNewFacMsg(c, p) ==
  facDaq' = [facDaq EXCEPT ![c][p.machine] = [Blank EXCEPT ![p.sensor] = p.id]]

\* The task's copy of the facility takes the value, whether or not it is published.
ConfigFacMsg(c, p) == facDaq' = [facDaq EXCEPT ![c][p.machine][p.sensor] = p.id]

\* A channel that is open, or one of its own in place of a closed one.
Publish(c) ==
  \E p \in Packets :
    /\ Converts(c, p) /\ catalogue # NoCatalogue /\ Listed(c, p)
    /\ ConfigFacMsg(c, p)
    /\ \/ channel[using[c]] = "open" /\ UNCHANGED <<using, channel>>
       \/ /\ channel[using[c]] = "closed" /\ brokerUp
          /\ using' = [using EXCEPT ![c] = c]
          /\ channel' = [channel EXCEPT ![c] = "open"]
    /\ series' = [series EXCEPT ![p.machine] = facDaq'[c][p.machine]]
    /\ publisher' = [publisher EXCEPT ![p.machine] = c]
    /\ published' = published \cup {p.id}
    /\ misses' = [misses EXCEPT ![p.machine] = 0]
    /\ cuts' = [cuts EXCEPT ![p.machine] = 0]
    /\ Replies(c, "OK")
    /\ UNCHANGED <<catalogue, listed, conn, waits, count, acked, brokerUp, mongoUp,
                   swallowed, splits, faults>>

\* A dead connection that has not been noticed may take the message and lose it.
PublishIntoVoid(c) ==
  \E p \in Packets :
    /\ Converts(c, p) /\ catalogue # NoCatalogue /\ Listed(c, p)
    /\ ConfigFacMsg(c, p)
    /\ channel[using[c]] = "broken"
    /\ swallowed' = swallowed \cup {p.id}
    /\ Replies(c, "OK")
    /\ UNCHANGED <<gateVars, rabbit, mongoUp, series, publisher, published, Aside>>

\* Mutant: the result of the publication is not looked at.
RaisesUnnoticed(c) ==
  \E p \in Packets :
    /\ Converts(c, p) /\ catalogue # NoCatalogue /\ Listed(c, p)
    /\ ConfigFacMsg(c, p)
    /\ channel[using[c]] = "broken"
    /\ channel' = [channel EXCEPT ![using[c]] = "closed"] /\ Replies(c, "OK")
    /\ UNCHANGED <<gateVars, brokerUp, mongoUp, outcome, Aside>>

\* Mutant: a channel that has been closed is used again instead of replaced.
RaisesWhenClosed(c) ==
  \E p \in Packets :
    /\ Converts(c, p) /\ catalogue # NoCatalogue /\ Listed(c, p)
    /\ ConfigFacMsg(c, p)
    /\ channel[using[c]] # "open"
    /\ channel' = [channel EXCEPT ![using[c]] = "closed"] /\ Replies(c, "RAW")
    /\ UNCHANGED <<gateVars, brokerUp, mongoUp, outcome, Aside>>

\* basic_publish raises, which closes the channel, or RabbitMQ does not accept a
\* new connection: the result cannot be unpacked, the packet alone is answered.
PublishRaises(c) ==
  \E p \in Packets :
    /\ Converts(c, p) /\ catalogue # NoCatalogue /\ Listed(c, p)
    /\ ConfigFacMsg(c, p)
    /\ \/ /\ channel[using[c]] = "broken"
          /\ channel' = [channel EXCEPT ![using[c]] = "closed"]
       \/ channel[using[c]] = "closed" /\ ~brokerUp /\ UNCHANGED channel
    /\ Replies(c, "RAW")
    /\ UNCHANGED <<gateVars, brokerUp, mongoUp, outcome, Aside>>

\* The gateway is gone: the empty packet, or an exception of sock_recv, getpeername
\* or sendall, which may come before all chunks are read.  Its locals go with the task.
TaskEnds(c) ==
  /\ task[c] = "recv" /\ ~Held(c)
  /\ task' = [task EXCEPT ![c] = "ended"] /\ inbox' = [inbox EXCEPT ![c] = <<>>]
  /\ listed' = [listed EXCEPT ![c] = {}]
  /\ facDaq' = [facDaq EXCEPT ![c] = [m \in Gateways |-> Blank]]
  /\ UNCHANGED <<catalogue, reply, using, gateVars, rabbit, mongoUp, outcome, splits, faults>>

Serve(c) ==
  \/ Unconverted(c) \/ Unlisted(c) \/ LookupFails(c)
  \/ Publish(c) \/ PublishIntoVoid(c) \/ PublishRaises(c)

-----------------------------------------------------------------------------
(* RabbitMQ, MongoDB and Redis *)

NoneMissed ==
  misses' = [g \in Gateways |-> 0] /\ cuts' = [g \in Gateways |-> 0]

Fault == faults < MaxFaults /\ faults' = faults + 1 /\ NoneMissed

\* Connections die, with RabbitMQ or alone; is_open does not tell.
ChannelsBreak(dead) ==
  channel' = [c \in DOMAIN channel |->
                IF c \in dead /\ channel[c] = "open" THEN "broken" ELSE channel[c]]

BrokerFails ==
  /\ Fault /\ brokerUp /\ brokerUp' = FALSE
  /\ ChannelsBreak(DOMAIN channel)
  /\ UNCHANGED <<catalogue, taskVars, conn, waits, count, acked, mongoUp, outcome, splits>>

BrokerReturns ==
  /\ ~brokerUp /\ brokerUp' = TRUE /\ NoneMissed
  /\ UNCHANGED <<catalogue, taskVars, conn, waits, count, acked, channel, mongoUp,
                 outcome, splits, faults>>

\* The server never answers RabbitMQ's heartbeats between publications.
ConnectionTimesOut ==
  /\ Fault
  /\ \E c \in DOMAIN channel : channel[c] = "open" /\ ChannelsBreak({c})
  /\ UNCHANGED <<catalogue, taskVars, conn, waits, count, acked, brokerUp, mongoUp,
                 outcome, splits>>

MongoFails ==
  /\ Fault /\ mongoUp /\ mongoUp' = FALSE
  /\ UNCHANGED <<catalogue, taskVars, conn, waits, count, acked, rabbit, outcome, splits>>

MongoReturns ==
  /\ ~mongoUp /\ mongoUp' = TRUE /\ NoneMissed
  /\ UNCHANGED <<catalogue, taskVars, conn, waits, count, acked, rabbit, outcome, splits,
                 faults>>

\* system_config.py, or Redis loses the key.
CatalogueChanges ==
  /\ Fault
  /\ catalogue' \in (Catalogues \cup {NoCatalogue}) \ {catalogue}
  /\ UNCHANGED <<taskVars, conn, waits, count, acked, rabbit, mongoUp, outcome, splits>>

Environment ==
  \/ BrokerFails \/ BrokerReturns \/ ConnectionTimesOut
  \/ MongoFails \/ MongoReturns \/ CatalogueChanges

Next ==
  \/ \E g \in Gateways : Connect(g) \/ Send(g) \/ Hear(g) \/ Refused(g) \/ GiveUp(g)
  \/ \E c \in Conns : Serve(c) \/ TaskEnds(c)
  \/ Environment

Spec == Init /\ [][Next]_vars

-----------------------------------------------------------------------------
TypeOK ==
  /\ catalogue \in Catalogues \cup {NoCatalogue}
  /\ task \in [Conns -> {"none", "recv", "ended"}]
  /\ inbox \in [Conns -> Seq(Chunks)] /\ reply \in [Conns -> Seq(Answers)]
  /\ listed \in [Conns -> SUBSET Gateways]
  /\ facDaq \in [Conns -> [Gateways -> Messages]]
  /\ using \in [Conns -> Conns \cup {0}]
  /\ channel \in [Conns \cup {0} -> {"open", "broken", "closed"}]
  /\ brokerUp \in BOOLEAN /\ mongoUp \in BOOLEAN
  /\ conn \in [Gateways -> Conns \cup {0}]
  /\ waits \in [Gateways -> {<<>>} \cup {<<p>> : p \in Packets}]
  /\ \A g \in Gateways : conn[g] = 0 => waits[g] = <<>>
  /\ series \in [Gateways -> Messages] /\ publisher \in [Gateways -> Conns \cup {0}]
  /\ published \subseteq Ids /\ swallowed \subseteq Ids /\ acked \subseteq Ids
  /\ misses \in [Gateways -> Nat] /\ cuts \in [Gateways -> Nat]
  /\ count \in 0..MaxReadings /\ splits \in 0..MaxSplits /\ faults \in 0..MaxFaults

\* What a gateway takes for acknowledged has been published, or given to a
\* connection nobody could know to be dead: an exception on the way is never
\* answered OK, and an answer never comes for the reading before, for the second
\* answer to a packet that came in two chunks goes with the connection
\* (manage_client, iiot_tcp_async_server.py; ParserWifiData, wifi.c).
AckedIsPublished == acked \subseteq published \cup swallowed

\* Why: a connection is its gateway's alone and begins with nothing on its way,
Connected ==
  /\ \A c \in Conns : task[c] = "none" => inbox[c] = <<>> /\ reply[c] = <<>>
  /\ \A g \in Gateways : conn[g] # 0 =>
       /\ task[conn[g]] # "none"
       /\ \A h \in Gateways : conn[h] = conn[g] => h = g

\* and on it is the packet its gateway waits for, or the answer to it, or nothing.
AnswerIsTrue(g, c) ==
  reply[c] = <<"OK">> => waits[g][1].id \in published \cup swallowed

ExchangeOn(g, c) ==
  \/ inbox[c] = <<>> /\ reply[c] = <<>>
  \/ waits[g] # <<>> /\ inbox[c] = waits[g] /\ reply[c] = <<>>
  \/ /\ waits[g] # <<>> /\ inbox[c] = <<>>
     /\ reply[c] \in {<<a>> : a \in Answers} /\ AnswerIsTrue(g, c)
  \/ /\ waits[g] # <<>>
     /\ \/ inbox[c] = <<Piece, Piece>> /\ reply[c] = <<>>
        \/ inbox[c] = <<Piece>> /\ reply[c] = <<"ER">>
        \/ inbox[c] = <<>> /\ reply[c] = <<"ER", "ER">>

Exchange == \A g \in Gateways : conn[g] # 0 => ExchangeOn(g, conn[g])

AckedInvariant == TypeOK /\ Connected /\ Exchange /\ AckedIsPublished

\* After the last loss of RabbitMQ or MongoDB or change of the catalogue at most two
\* readings in a row of a sensor that is listed are lost, and one more for every
\* packet that came in two chunks, which is refused: one on what the connection had
\* before (its channel, its list of machines, an answer), or on the catalogue it finds
\* missing, one on the dead channel that every task starts with
\* (publish_facility_msg).
LossesBounded == brokerUp /\ mongoUp => \A g \in Gateways : misses[g] <= 2 + cuts[g]

\* Why: on a healthy connection a reading that is listed and waited for is on its way
\* to the task as a whole, or it is answered OK.
Waited(g) == waits[g] # <<>> /\ Wanted(waits[g][1])

OnItsWay(g) ==
  \/ inbox[conn[g]] = waits[g]
  \/ \E a \in {"OK", "NX"} : reply[conn[g]] = <<a>>

Healthy(g) ==
  /\ task[conn[g]] = "recv"
  /\ catalogue # NoCatalogue /\ g \in Known(catalogue) => g \in listed[conn[g]]
  /\ using[conn[g]] # 0 => channel[using[conn[g]]] # "broken"
  /\ Waited(g) => OnItsWay(g)

\* A loss needs a connection that is not healthy, which goes with it, or the channel that
\* every task starts with, which is closed by it.
Ailing(g) == IF conn[g] # 0 /\ ~Healthy(g) THEN 1 ELSE 0
SharedBroken == IF channel[0] = "broken" THEN 1 ELSE 0

LossesCounted ==
  /\ brokerUp /\ mongoUp => \A g \in Gateways :
       misses[g] + Ailing(g) + SharedBroken <= 2 + cuts[g]
  /\ catalogue = NoCatalogue => \A g \in Gateways : misses[g] = 0

OwnOnly ==
  /\ \A c \in Conns : using[c] \in {0, c} /\ (task[c] = "none" => using[c] = 0)
  /\ \A g \in Gateways : waits[g] # <<>> => waits[g][1].machine = g

LossesInvariant == AckedInvariant /\ OwnOnly /\ LossesCounted

\* Why what a task publishes never goes back (NeverBack): the packets on their way
\* to it come in the order of their readings, none behind its copy of the facility,
InOrder(c) ==
  \A k \in DOMAIN inbox[c] : inbox[c][k] # Piece =>
    /\ \A m \in Gateways, s \in Sensors : facDaq[c][m][s] <= inbox[c][k].id
    /\ \A j \in DOMAIN inbox[c] : j < k => inbox[c][j].id <= inbox[c][k].id

\* the one its gateway waits for is the latest of all,
UpTo(c, n) ==
  /\ \A k \in DOMAIN inbox[c] : inbox[c][k].id <= n
  /\ \A m \in Gateways, s \in Sensors : facDaq[c][m][s] <= n

Ordered ==
  /\ \A c \in Conns : InOrder(c) /\ UpTo(c, count)
  /\ \A g \in Gateways : waits[g] # <<>> =>
       waits[g][1].id <= count /\ UpTo(conn[g], waits[g][1].id)

\* what has been published is not ahead of the copy,
SeriesBehind ==
  \A g \in Gateways : publisher[g] # 0 =>
    /\ task[publisher[g]] # "none"
    /\ task[publisher[g]] = "recv" =>
         \A s \in Sensors : series[g][s] <= facDaq[publisher[g]][g][s]

\* and only a running task has a copy.
Unused ==
  \A c \in Conns : task[c] # "recv" =>
    inbox[c] = <<>> /\ \A m \in Gateways, s \in Sensors : facDaq[c][m][s] = 0

OrderInvariant == AckedInvariant /\ Ordered /\ SeriesBehind /\ Unused

\* What is published of a sensor never goes back, neither to an older reading nor
\* to none, as long as the same task publishes: its message carries the latest value
\* of every sensor, those of failed publications included, also while it works off
\* what a gateway that has reset since had sent (config_fac_msg,
\* iiot_tcp_async_server.py).  The first message after a
\* reconnection does go back: it is 0.0 for every sensor but one.
NeverBack ==
  [][\A g \in Gateways, s \in Sensors :
       series'[g][s] < series[g][s] => publisher'[g] # publisher[g]]_vars
=============================================================================
