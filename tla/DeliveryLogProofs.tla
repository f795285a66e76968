-------------------------- MODULE DeliveryLogProofs --------------------------
(***************************************************************************)
(* Proofs about DeliveryLog, for every number of readings, any days, any   *)
(* set of facilities and any number of failures and crashes, with the two  *)
(* processes overlapping as they like.                                     *)
(***************************************************************************)
EXTENDS DeliveryLog, FiniteSetTheorems, TLAPS

LEMMA NoDocType == NoDoc \in [id : Nat, log : Logs] /\ NoDoc.id = 0
                   /\ \A t \in Times : NoDoc.log[t] = "none"
  BY DEF NoDoc, Logs, Marks

LEMMA KeyType ==
  ASSUME NEW d \in Days
  PROVE  /\ DocKey(d) \in Days \X {"bare", "padded"} /\ DocKey(d)[1] = d
         /\ DayPart(d) \in Days \X {"bare", "padded"} /\ DayPart(d)[1] = d
  BY DEF DocKey, DayPart

LEMMA DayType == \A t \in Times : DayOf[t] \in Days
  BY DEF Days

\* What find_one returns: nothing if no document matches, a copy of one that
\* does otherwise.
LEMMA FindOneFinds ==
  ASSUME TypeOK, NEW key, NEW found, FindOne(key, found)
  PROVE  /\ found.id \in 0..Len(docs) /\ found.log \in Logs
         /\ found.id = 0 <=> Matches(key) = {}
         /\ found.id = 0 => found = NoDoc
         /\ found.id # 0 => /\ found.id \in DOMAIN docs
                            /\ docs[found.id].day = key
                            /\ found.log = docs[found.id].log
  <1>1. CASE Matches(key) = {} /\ found = NoDoc
    BY <1>1, NoDocType DEF TypeOK
  <1>2. CASE \E i \in Matches(key) : found = [id |-> i, log |-> docs[i].log]
    <2>1. PICK i \in Matches(key) : found = [id |-> i, log |-> docs[i].log]
      BY <1>2
    <2>2. i \in DOMAIN docs /\ docs[i].day = key /\ i \in 1..Len(docs)
      BY DEF Matches, TypeOK
    <2>3. docs[i] \in Document
      BY <2>2 DEF TypeOK
    <2>4. docs[i].log \in Logs
      BY <2>3 DEF Document
    <2> QED BY <2>1, <2>2, <2>4
  <1> QED BY <1>1, <1>2 DEF FindOne

\* What the second half of document_upsert does to the collection: it adds a
\* document or changes one in place, where entries other than t are the copy's.
LEMMA UpsertEffect ==
  ASSUME TypeOK, NEW doc, DocTypeOK(doc), NEW key \in Days \X {"bare", "padded"},
         NEW t \in Times, NEW status \in {"sent", "check"},
         Upsert(doc, key, t, status)
  PROVE  /\ docs' \in Seq(Document) /\ Len(docs') \in Nat /\ Len(docs) \in Nat
         /\ DOMAIN docs \subseteq DOMAIN docs' /\ Len(docs) <= Len(docs')
         /\ \A i \in DOMAIN docs : docs'[i].day = docs[i].day
         /\ \A i \in DOMAIN docs : i # doc.id => docs'[i] = docs[i]
         /\ doc.id # 0 => /\ DOMAIN docs' = DOMAIN docs
                          /\ \A u \in Times \ {t} :
                               \/ docs'[doc.id].log[u] = doc.log[u]
                               \/ docs'[doc.id].log[u] = docs[doc.id].log[u]
                          /\ \/ docs'[doc.id].log[t] = docs[doc.id].log[t]
                             \/ /\ doc.log[t] = "none" /\ docs'[doc.id].log[t] = "sent"
                             \/ doc.log[t] # "none" /\ docs'[doc.id].log[t] = "received"
         /\ doc.id = 0 => /\ DOMAIN docs' = DOMAIN docs \cup {Len(docs) + 1}
                          /\ docs'[Len(docs) + 1].day = key
                          /\ docs'[Len(docs) + 1].log[t] = status
                          /\ \A u \in Times \ {t} : docs'[Len(docs) + 1].log[u] = "none"
  <1> DEFINE new == [day |-> key, log |-> [NoDoc.log EXCEPT ![t] = status]]
  <1> DEFINE log == IF doc.log[t] = "check" THEN docs[doc.id].log
                    ELSE [doc.log EXCEPT ![t] = IF @ = "none" THEN "sent" ELSE "received"]
  <1>1. docs \in Seq(Document)
    BY DEF TypeOK
  <1>2. new \in Document
    BY NoDocType DEF Document, Logs, Marks
  <1>3. doc.id \in 0..Len(docs) /\ doc.log \in Logs
    BY DEF DocTypeOK
  <1>4. CASE doc.id = 0
    <2>1. docs' = Append(docs, new)
      BY <1>4 DEF Upsert
    <2>2. new.day = key /\ new.log[t] = status /\ \A u \in Times \ {t} : new.log[u] = "none"
      BY NoDocType DEF Logs
    <2>3. /\ docs' \in Seq(Document) /\ Len(docs) \in Nat /\ Len(docs') = Len(docs) + 1
          /\ DOMAIN docs' = DOMAIN docs \cup {Len(docs) + 1}
          /\ docs'[Len(docs) + 1] = new
          /\ \A i \in DOMAIN docs : docs'[i] = docs[i]
      <3> HIDE DEF new
      <3> QED BY <2>1, <1>1, <1>2
    <2> QED BY <1>4, <2>2, <2>3
  <1>5. CASE doc.id # 0
    <2>1. doc.id \in DOMAIN docs /\ docs[doc.id] \in Document
      BY <1>1, <1>3, <1>5
    <2>2. docs' = [docs EXCEPT ![doc.id].log = log]
      BY <1>5 DEF Upsert
    <2>3. docs' = [docs EXCEPT ![doc.id] = [docs[doc.id] EXCEPT !.log = log]]
      BY <2>2
    <2>4. log \in Logs
      BY <2>1, <1>3 DEF Logs, Marks, Document
    <2>5. [docs[doc.id] EXCEPT !.log = log] \in Document
      <3> HIDE DEF log
      <3> QED BY <2>1, <2>4 DEF Document
    <2>6. /\ docs' \in Seq(Document) /\ Len(docs') = Len(docs) /\ Len(docs) \in Nat
          /\ DOMAIN docs' = DOMAIN docs
          /\ \A i \in DOMAIN docs : i # doc.id => docs'[i] = docs[i]
          /\ docs'[doc.id] = [docs[doc.id] EXCEPT !.log = log]
      <3> HIDE DEF log
      <3> QED BY <2>1, <2>3, <2>5, <1>1
    <2>7. docs'[doc.id].log = log /\ docs'[doc.id].day = docs[doc.id].day
      <3> HIDE DEF log
      <3> QED BY <2>1, <2>6 DEF Document
    <2>8. \A u \in Times \ {t} : log[u] = doc.log[u] \/ log[u] = docs[doc.id].log[u]
      BY <1>3 DEF Logs
    <2>9. \/ log[t] = docs[doc.id].log[t]
          \/ doc.log[t] = "none" /\ log[t] = "sent"
          \/ doc.log[t] # "none" /\ log[t] = "received"
      BY <1>3 DEF Logs
    <2>10. \A i \in DOMAIN docs : docs'[i].day = docs[i].day
      BY ONLY <2>6, <2>7
    <2>11. \A u \in Times \ {t} : \/ docs'[doc.id].log[u] = doc.log[u]
                                 \/ docs'[doc.id].log[u] = docs[doc.id].log[u]
      BY ONLY <2>7, <2>8
    <2>12. \/ docs'[doc.id].log[t] = docs[doc.id].log[t]
           \/ doc.log[t] = "none" /\ docs'[doc.id].log[t] = "sent"
           \/ doc.log[t] # "none" /\ docs'[doc.id].log[t] = "received"
      BY ONLY <2>7, <2>9
    <2>13. DOMAIN docs \subseteq DOMAIN docs' /\ Len(docs) <= Len(docs') /\ Len(docs') \in Nat
      BY ONLY <2>6
    <2> QED BY ONLY <1>5, <2>6, <2>10, <2>11, <2>12, <2>13
  <1> QED BY <1>3, <1>4, <1>5

-----------------------------------------------------------------------------
(* Types *)

LEMMA TypeInit == Init => TypeOK
  <1> SUFFICES ASSUME Init PROVE TypeOK
    OBVIOUS
  <1>1. docs \in Seq(Document) /\ Len(docs) = 0
    BY DEF Init
  <1>2. DocTypeOK(sdoc) /\ DocTypeOK(adoc)
    BY <1>1, NoDocType DEF Init, DocTypeOK
  <1>3. queue \in [Facilities -> Seq(Times)] /\ points \in [Times -> Nat]
    BY DEF Init
  <1>4. msg = 0 /\ apc = "down" /\ overlapped \in BOOLEAN
    BY DEF Init
  <1>5. clock \in 0..Readings /\ failures \in 0..MaxFailures /\ crashes \in 0..MaxCrashes
    BY DeliveryConstantsOK DEF Init, DeliveryConstantsOK
  <1> QED BY <1>1, <1>2, <1>3, <1>4, <1>5 DEF Init, TypeOK

LEMMA ServerTypes ==
  ASSUME TypeOK, Packet \/ ServerFind \/ ServerFails \/ Publish
  PROVE  TypeOK'
  <1> USE DEF server, agent, broker
  <1>1. CASE Packet
    BY <1>1, DeliveryConstantsOK DEF Packet, TypeOK, DocTypeOK, DeliveryConstantsOK, Times
  <1>2. CASE ServerFind
    <2>1. sdoc'.id \in 0..Len(docs) /\ sdoc'.log \in Logs
      BY <1>2, FindOneFinds DEF ServerFind
    <2> QED BY <1>2, <2>1 DEF ServerFind, TypeOK, DocTypeOK
  <1>3. CASE ServerFails
    <2>1. DocTypeOK(sdoc)'
      BY <1>3, NoDocType DEF ServerFails, TypeOK, DocTypeOK
    <2> QED BY <1>3, <2>1, DeliveryConstantsOK
         DEF ServerFails, TypeOK, DocTypeOK, DeliveryConstantsOK
  <1>4. CASE Publish
    <2>1. clock \in Times
      BY <1>4 DEF Publish, TypeOK
    <2>2. queue' \in [Facilities -> Seq(Times)]
      BY <1>4, <2>1 DEF Publish, TypeOK
    <2> QED BY <1>4, <2>2 DEF Publish, TypeOK, DocTypeOK
  <1> QED BY <1>1, <1>2, <1>3, <1>4

LEMMA WriteTypes ==
  ASSUME TypeOK, ServerWrite \/ AgentWrite
  PROVE  TypeOK'
  <1> USE DEF server, agent, broker
  <1>1. CASE ServerWrite
    <2>1. clock \in Times /\ DayOf[clock] \in Days /\ DocTypeOK(sdoc)
      BY <1>1, DayType DEF ServerWrite, TypeOK
    <2>2. docs' \in Seq(Document) /\ Len(docs) <= Len(docs') /\ Len(docs') \in Nat
          /\ Len(docs) \in Nat
      BY <1>1, <2>1, KeyType, UpsertEffect DEF ServerWrite
    <2>3. DocTypeOK(sdoc)' /\ DocTypeOK(adoc)'
      BY <1>1, <2>2, NoDocType DEF ServerWrite, TypeOK, DocTypeOK
    <2> QED BY <1>1, <2>2, <2>3 DEF ServerWrite, TypeOK
  <1>2. CASE AgentWrite
    <2>1. msg \in Times /\ DayOf[msg] \in Days /\ DocTypeOK(adoc)
      BY <1>2, DayType DEF AgentWrite, TypeOK
    <2>2. docs' \in Seq(Document) /\ Len(docs) <= Len(docs') /\ Len(docs') \in Nat
          /\ Len(docs) \in Nat
      BY <1>2, <2>1, KeyType, UpsertEffect DEF AgentWrite
    <2>3. DocTypeOK(sdoc)' /\ DocTypeOK(adoc)'
      BY <1>2, <2>2, NoDocType DEF AgentWrite, TypeOK, DocTypeOK
    <2> QED BY <1>2, <2>2, <2>3 DEF AgentWrite, TypeOK
  <1> QED BY <1>1, <1>2

\* What the agent takes is a reading, and the rest of the queues stays.
LEMMA TakeTakes ==
  ASSUME TypeOK, Take
  PROVE  /\ msg' \in Times /\ taken' = taken \cup {msg'}
         /\ queue' \in [Facilities -> Seq(Times)]
         /\ \E f \in Facilities : \E k \in DOMAIN queue[f] : msg' = queue[f][k]
         /\ \A f \in Facilities : \A k \in DOMAIN queue'[f] :
              \E j \in DOMAIN queue[f] : queue'[f][k] = queue[f][j]
  <1>1. PICK f \in Facilities : /\ queue[f] # <<>> /\ msg' = Head(queue[f])
                                /\ queue' = [queue EXCEPT ![f] = Tail(@)]
    BY DEF Take
  <1>2. queue[f] \in Seq(Times) /\ queue[f] # <<>>
    BY <1>1 DEF TypeOK
  <1>3. /\ Head(queue[f]) \in Times /\ Tail(queue[f]) \in Seq(Times)
        /\ 1 \in DOMAIN queue[f] /\ Head(queue[f]) = queue[f][1]
        /\ \A k \in DOMAIN Tail(queue[f]) :
             k + 1 \in DOMAIN queue[f] /\ Tail(queue[f])[k] = queue[f][k + 1]
    BY <1>2
  <1>4. /\ queue' \in [Facilities -> Seq(Times)] /\ queue'[f] = Tail(queue[f])
        /\ \A g \in Facilities : g # f => queue'[g] = queue[g]
    BY <1>1, <1>3 DEF TypeOK
  <1>5. \A g \in Facilities : \A k \in DOMAIN queue'[g] :
          \E j \in DOMAIN queue[g] : queue'[g][k] = queue[g][j]
    <2> TAKE g \in Facilities
    <2> TAKE k \in DOMAIN queue'[g]
    <2>1. CASE g = f
      <3>1. k \in DOMAIN Tail(queue[f])
        BY <1>4, <2>1
      <3>2. k + 1 \in DOMAIN queue[f] /\ queue'[f][k] = queue[f][k + 1]
        BY <1>3, <1>4, <3>1
      <3> QED BY <2>1, <3>2
    <2>2. CASE g # f
      BY <1>4, <2>2
    <2> QED BY <2>1, <2>2
  <1>6. \E g \in Facilities : \E k \in DOMAIN queue[g] : msg' = queue[g][k]
    BY <1>1, <1>3
  <1>7. msg' \in Times /\ taken' = taken \cup {msg'}
    BY <1>1, <1>3 DEF Take
  <1> QED BY ONLY <1>4, <1>5, <1>6, <1>7

LEMMA AgentTypes ==
  ASSUME TypeOK, Start \/ BindQueue \/ Take \/ AgentFind \/ Store \/ Crash
  PROVE  TypeOK'
  <1> USE DEF server, agent, broker
  <1>1. CASE Start
    BY <1>1 DEF Start, TypeOK, DocTypeOK
  <1>2. CASE BindQueue
    BY <1>2 DEF BindQueue, TypeOK, DocTypeOK
  <1>3. CASE Take
    <2>1. msg' # 0
      BY <1>3, TakeTakes, DeliveryConstantsOK DEF Times, DeliveryConstantsOK
    <2> QED BY <1>3, <2>1, TakeTakes DEF Take, TypeOK, DocTypeOK
  <1>4. CASE AgentFind
    <2>1. adoc'.id \in 0..Len(docs) /\ adoc'.log \in Logs
      BY <1>4, FindOneFinds DEF AgentFind
    <2> QED BY <1>4, <2>1 DEF AgentFind, TypeOK, DocTypeOK
  <1>5. CASE Store
    <2>1. msg \in Times
      BY <1>5 DEF Store, TypeOK
    <2>2. points' \in [Times -> Nat] /\ failures' \in 0..MaxFailures
      BY <1>5, <2>1, DeliveryConstantsOK DEF Store, TypeOK, DeliveryConstantsOK
    <2> QED BY <1>5, <2>1, <2>2 DEF Store, TypeOK, DocTypeOK
  <1>6. CASE Crash
    <2>1. DocTypeOK(adoc)'
      BY <1>6, NoDocType DEF Crash, TypeOK, DocTypeOK
    <2> QED BY <1>6, <2>1, DeliveryConstantsOK
         DEF Crash, TypeOK, DocTypeOK, DeliveryConstantsOK
  <1> QED BY <1>1, <1>2, <1>3, <1>4, <1>5, <1>6

LEMMA TypeStep == TypeOK /\ [Next]_vars => TypeOK'
  <1> SUFFICES ASSUME TypeOK, [Next]_vars PROVE TypeOK'
    OBVIOUS
  <1>1. CASE UNCHANGED vars
    BY <1>1 DEF vars, server, agent, broker, TypeOK, DocTypeOK
  <1> QED BY <1>1, ServerTypes, WriteTypes, AgentTypes DEF Next, ServerStep, AgentStep

\* The types of the delivery log's variables (mongo_manager.py, server and agent).
THEOREM TypeCorrect == Spec => []TypeOK
  BY TypeInit, TypeStep, PTL DEF Spec

-----------------------------------------------------------------------------
(* No false confirmation *)

\* Where the entries of the collection come from after a write.
LEMMA UpsertEntries ==
  ASSUME TypeOK, NEW doc, DocTypeOK(doc), NEW key \in Days \X {"bare", "padded"},
         NEW t \in Times, NEW status \in {"sent", "check"},
         Upsert(doc, key, t, status),
         NEW i \in DOMAIN docs', NEW u \in Times
  PROVE  \/ docs'[i].log[u] = "none"
         \/ i \in DOMAIN docs /\ docs'[i].log[u] = docs[i].log[u]
         \/ doc.id # 0 /\ i = doc.id /\ u # t /\ docs'[i].log[u] = doc.log[u]
         \/ doc.id = 0 /\ i = Len(docs) + 1 /\ u = t /\ docs'[i].log[u] = status
         \/ doc.id # 0 /\ i = doc.id /\ u = t /\ docs'[i].log[u] = "sent"
         \/ doc.id # 0 /\ i = doc.id /\ u = t /\ docs'[i].log[u] = "received"
              /\ doc.log[t] # "none"
  <1>1. CASE doc.id = 0
    <2>1. i \in DOMAIN docs \/ i = Len(docs) + 1
      BY <1>1, UpsertEffect
    <2>2. CASE i \in DOMAIN docs
      <3>1. i \in 1..Len(docs) /\ Len(docs) \in Nat
        BY <2>2 DEF TypeOK
      <3> QED BY <1>1, <2>2, <3>1, UpsertEffect
    <2> QED BY <1>1, <2>1, <2>2, UpsertEffect
  <1>2. CASE doc.id # 0
    <2>1. i \in DOMAIN docs
      BY <1>2, UpsertEffect
    <2>2. CASE i # doc.id
      BY <2>1, <2>2, UpsertEffect
    <2>3. CASE i = doc.id /\ u # t
      BY <1>2, <2>1, <2>3, UpsertEffect
    <2>4. CASE i = doc.id /\ u = t
      BY <1>2, <2>1, <2>4, UpsertEffect
    <2> QED BY <2>2, <2>3, <2>4
  <1> QED BY <1>1, <1>2

LEMMA FreshShrinks ==
  ASSUME TypeOK, Next
  PROVE  Fresh' \subseteq Fresh
  <1>1. clock \in Nat /\ \A t \in Times : t \in Nat
    BY DeliveryConstantsOK DEF TypeOK, Times, DeliveryConstantsOK
  <1>2. CASE Packet
    BY <1>1, <1>2 DEF Packet, Fresh
  <1>3. CASE spc' = spc /\ clock' = clock
    BY <1>3 DEF Fresh
  <1>4. CASE clock' = clock /\ spc' \in {"idle", "publish"}
    BY <1>1, <1>4 DEF Fresh
  <1>5. CASE ServerFind
    BY <1>1, <1>5 DEF ServerFind, Fresh
  <1>6. ServerWrite \/ Publish \/ ServerFails => clock' = clock /\ spc' \in {"idle", "publish"}
    BY DEF ServerWrite, Publish, ServerFails
  <1>7. Start \/ AgentStep \/ Crash => spc' = spc /\ clock' = clock
    BY DEF Start, AgentStep, BindQueue, Take, AgentFind, AgentWrite, Store, Crash, server
  <1> QED BY <1>2, <1>3, <1>4, <1>5, <1>6, <1>7 DEF Next, ServerStep

LEMMA ReceivedWrite ==
  ASSUME ReceivedInvariant, Fresh' \subseteq Fresh, ServerWrite \/ AgentWrite
  PROVE  /\ \A t \in Fresh', i \in DOMAIN docs' : docs'[i].log[t] = "none"
         /\ ReceivedOnlyTaken'
  <1> USE DEF ReceivedInvariant
  <1>0. Fresh \subseteq Times
    BY DEF Fresh
  <1>1. CASE ServerWrite
    <2>1. clock \in Times /\ DayOf[clock] \in Days /\ DocTypeOK(sdoc)
      BY <1>1, DayType DEF ServerWrite, TypeOK
    <2>2. clock \in Fresh /\ sdoc.log[clock] = "none" /\ clock \notin Fresh'
      BY <1>1, <2>1, DeliveryConstantsOK DEF ServerWrite, Fresh, Untouched, Times, DeliveryConstantsOK
    <2>3. Upsert(sdoc, DocKey(DayOf[clock]), clock, "sent")
          /\ DocKey(DayOf[clock]) \in Days \X {"bare", "padded"} /\ taken' = taken
      BY <1>1, <2>1, KeyType DEF ServerWrite, agent
    <2>4. \A i \in DOMAIN docs', u \in Times :
             \/ docs'[i].log[u] \in {"none", "sent"}
             \/ i \in DOMAIN docs /\ docs'[i].log[u] = docs[i].log[u]
             \/ docs'[i].log[u] = sdoc.log[u]
      BY <2>1, <2>2, <2>3, UpsertEntries
    <2>5. \A i \in DOMAIN docs', u \in Times \ {clock} :
             \/ docs'[i].log[u] = "none"
             \/ i \in DOMAIN docs /\ docs'[i].log[u] = docs[i].log[u]
             \/ docs'[i].log[u] = sdoc.log[u]
      BY <2>1, <2>2, <2>3, UpsertEntries
    <2>6. ReceivedOnlyTaken'
      BY <2>3, <2>4 DEF ReceivedOnlyTaken, CopiesTrue
    <2> QED BY <1>0, <2>2, <2>5, <2>6 DEF Untouched
  <1>2. CASE AgentWrite
    <2>1. msg \in Times /\ DayOf[msg] \in Days /\ DocTypeOK(adoc) /\ msg \in taken
      BY <1>2, DayType DEF AgentWrite, TypeOK, CopiesTrue
    <2>2. Upsert(adoc, DayPart(DayOf[msg]), msg, "check")
          /\ DayPart(DayOf[msg]) \in Days \X {"bare", "padded"} /\ taken' = taken
      BY <1>2, <2>1, KeyType DEF AgentWrite
    <2>3. msg \notin Fresh
      BY DEF Untouched
    <2>4. \A i \in DOMAIN docs', u \in Times \ {msg} :
             \/ docs'[i].log[u] = "none"
             \/ i \in DOMAIN docs /\ docs'[i].log[u] = docs[i].log[u]
             \/ docs'[i].log[u] = adoc.log[u]
      BY <2>1, <2>2, UpsertEntries
    <2>5. ReceivedOnlyTaken'
      BY <2>1, <2>2, <2>4 DEF ReceivedOnlyTaken, CopiesTrue
    <2> QED BY <1>0, <2>3, <2>4, <2>5 DEF Untouched
  <1> QED BY <1>1, <1>2

\* What find_one hands out is no more wrong than the collection.
LEMMA FoundTrue ==
  ASSUME ReceivedInvariant, NEW key, NEW found, FindOne(key, found)
  PROVE  /\ \A t \in Fresh : found.log[t] = "none"
         /\ \A t \in Times : found.log[t] = "received" => t \in taken
  <1> USE DEF ReceivedInvariant
  <1>1. CASE found.id = 0
    BY <1>1, FindOneFinds, NoDocType DEF Fresh
  <1>2. CASE found.id # 0
    <2>1. found.id \in DOMAIN docs /\ found.log = docs[found.id].log
      BY <1>2, FindOneFinds
    <2> QED BY <2>1 DEF Untouched, ReceivedOnlyTaken
  <1> QED BY <1>1, <1>2

LEMMA ReceivedServer ==
  ASSUME ReceivedInvariant, Fresh' \subseteq Fresh,
         Packet \/ ServerFind \/ ServerFails \/ Publish
  PROVE  Untouched' /\ CopiesTrue' /\ ReceivedOnlyTaken'
  <1> USE DEF ReceivedInvariant, agent, broker
  <1>0. Fresh \subseteq Times
    BY DEF Fresh
  <1>1. CASE Packet
    BY <1>1 DEF Packet, Untouched, CopiesTrue, ReceivedOnlyTaken
  <1>2. CASE ServerFind
    <2>1. /\ \A t \in Fresh : sdoc'.log[t] = "none"
          /\ \A t \in Times : sdoc'.log[t] = "received" => t \in taken
      BY <1>2, FoundTrue DEF ServerFind
    <2> QED BY <1>2, <2>1 DEF ServerFind, Untouched, CopiesTrue, ReceivedOnlyTaken
  <1>3. CASE ServerFails
    BY <1>0, <1>3, NoDocType DEF ServerFails, Untouched, CopiesTrue, ReceivedOnlyTaken
  <1>4. CASE Publish
    <2>1. clock \in Times /\ clock \notin Fresh'
      BY <1>4, DeliveryConstantsOK DEF Publish, TypeOK, Fresh, Times, DeliveryConstantsOK
    <2>2. ASSUME NEW f \in Facilities, NEW k \in DOMAIN queue'[f]
          PROVE  queue'[f][k] = clock \/ (k \in DOMAIN queue[f] /\ queue'[f][k] = queue[f][k])
      <3>1. queue[f] \in Seq(Times)
        BY DEF TypeOK
      <3>2. queue'[f] = IF f \in bound THEN Append(queue[f], clock) ELSE queue[f]
        BY <1>4 DEF Publish
      <3> QED BY <2>1, <3>1, <3>2
    <2>3. \A t \in Fresh' : \A f \in Facilities : \A k \in DOMAIN queue'[f] : queue'[f][k] # t
      BY <2>1, <2>2 DEF Untouched
    <2> QED BY <1>4, <2>3 DEF Publish, Untouched, CopiesTrue, ReceivedOnlyTaken
  <1> QED BY <1>1, <1>2, <1>3, <1>4

LEMMA ReceivedAgent ==
  ASSUME ReceivedInvariant, Fresh' \subseteq Fresh,
         Start \/ BindQueue \/ Take \/ AgentFind \/ Store \/ Crash
  PROVE  Untouched' /\ CopiesTrue' /\ ReceivedOnlyTaken'
  <1> USE DEF ReceivedInvariant, server, broker
  <1>0. Fresh \subseteq Times /\ 0 \notin Times
    BY DeliveryConstantsOK DEF Fresh, Times, DeliveryConstantsOK
  <1>1. CASE Start
    BY <1>1 DEF Start, Untouched, CopiesTrue, ReceivedOnlyTaken
  <1>2. CASE BindQueue
    BY <1>2 DEF BindQueue, Untouched, CopiesTrue, ReceivedOnlyTaken
  <1>3. CASE Take
    <2>1. msg' \in taken' /\ taken \subseteq taken'
      BY <1>3, TakeTakes
    <2>2. \A t \in Fresh : msg' # t
      BY <1>3, TakeTakes DEF Untouched
    <2>3. \A t \in Fresh : \A f \in Facilities : \A k \in DOMAIN queue'[f] : queue'[f][k] # t
      BY <1>3, TakeTakes DEF Untouched
    <2>4. docs' = docs /\ sdoc' = sdoc /\ adoc' = adoc
      BY <1>3 DEF Take
    <2> QED BY <2>1, <2>2, <2>3, <2>4 DEF Untouched, CopiesTrue, ReceivedOnlyTaken
  <1>4. CASE AgentFind
    <2>1. /\ \A t \in Fresh : adoc'.log[t] = "none"
          /\ \A t \in Times : adoc'.log[t] = "received" => t \in taken
      BY <1>4, FoundTrue DEF AgentFind
    <2> QED BY <1>4, <2>1 DEF AgentFind, Untouched, CopiesTrue, ReceivedOnlyTaken
  <1>5. CASE Store
    BY <1>0, <1>5 DEF Store, Untouched, CopiesTrue, ReceivedOnlyTaken
  <1>6. CASE Crash
    BY <1>0, <1>6, NoDocType DEF Crash, Untouched, CopiesTrue, ReceivedOnlyTaken
  <1> QED BY <1>1, <1>2, <1>3, <1>4, <1>5, <1>6

LEMMA ReceivedStep == ReceivedInvariant /\ [Next]_vars => ReceivedInvariant'
  <1> SUFFICES ASSUME ReceivedInvariant, [Next]_vars PROVE ReceivedInvariant'
    OBVIOUS
  <1>1. TypeOK'
    BY TypeStep DEF ReceivedInvariant
  <1>2. CASE UNCHANGED vars
    BY <1>1, <1>2 DEF vars, server, agent, broker, ReceivedInvariant, Untouched,
                      CopiesTrue, ReceivedOnlyTaken, Fresh
  <1>3. CASE Next
    <2>1. Fresh' \subseteq Fresh /\ Fresh \subseteq Times
      BY <1>3, FreshShrinks DEF ReceivedInvariant, Fresh
    <2>2. CASE ServerWrite \/ AgentWrite
      <3>1. /\ \A t \in Fresh', i \in DOMAIN docs' : docs'[i].log[t] = "none"
            /\ ReceivedOnlyTaken'
        BY <2>1, <2>2, ReceivedWrite
      <3>2. CASE ServerWrite
        <4>1. Untouched'
          BY <2>1, <3>1, <3>2, NoDocType
             DEF ServerWrite, ReceivedInvariant, Untouched, broker, agent
        <4>2. CopiesTrue'
          BY <3>2, NoDocType DEF ServerWrite, ReceivedInvariant, CopiesTrue, agent
        <4> QED BY <1>1, <3>1, <4>1, <4>2 DEF ReceivedInvariant
      <3>3. CASE AgentWrite
        <4>1. Untouched'
          BY <2>1, <3>1, <3>3, NoDocType
             DEF AgentWrite, ReceivedInvariant, Untouched, broker, server
        <4>2. CopiesTrue'
          BY <3>3, NoDocType DEF AgentWrite, ReceivedInvariant, CopiesTrue, server
        <4> QED BY <1>1, <3>1, <4>1, <4>2 DEF ReceivedInvariant
      <3> QED BY <2>2, <3>2, <3>3
    <2>3. CASE Packet \/ ServerFind \/ ServerFails \/ Publish
      BY <1>1, <2>1, <2>3, ReceivedServer DEF ReceivedInvariant
    <2>4. CASE Start \/ BindQueue \/ Take \/ AgentFind \/ Store \/ Crash
      BY <1>1, <2>1, <2>4, ReceivedAgent DEF ReceivedInvariant
    <2> QED BY <1>3, <2>2, <2>3, <2>4 DEF Next, ServerStep, AgentStep
  <1> QED BY <1>2, <1>3

\* No entry says RECEIVED of a reading the agent has not taken from a queue
\* (document_upsert, mongo_manager.py), whatever overlaps, fails or crashes.
THEOREM ReceivedCorrect == Spec => []ReceivedOnlyTaken
  <1>1. Init => ReceivedInvariant
    <2> SUFFICES ASSUME Init PROVE ReceivedInvariant
      OBVIOUS
    <2>1. DOMAIN docs = {} /\ \A f \in Facilities : DOMAIN queue[f] = {}
      BY DEF Init
    <2>2. Fresh \subseteq Times /\ 0 \notin Times
      BY DeliveryConstantsOK DEF Fresh, Times, DeliveryConstantsOK
    <2> QED BY <2>1, <2>2, TypeInit, NoDocType
         DEF Init, ReceivedInvariant, Untouched, CopiesTrue, ReceivedOnlyTaken
  <1>2. ReceivedInvariant => ReceivedOnlyTaken
    BY DEF ReceivedInvariant
  <1> QED BY <1>1, <1>2, ReceivedStep, PTL DEF Spec

-----------------------------------------------------------------------------
(* One document a day *)

\* A copy that find_one has handed out is sound.
LEMMA FoundSound ==
  ASSUME DayInvariant, NEW key, NEW found, FindOne(key, found), found.id # 0
  PROVE  docs[found.id].day = key /\ Sound(found, docs[found.id].day)
  <1>1. TypeOK /\ OneDocumentADay
    BY DEF DayInvariant
  <1>2. /\ found.id \in DOMAIN docs /\ docs[found.id].day = key
        /\ found.log = docs[found.id].log
    BY <1>1, FindOneFinds
  <1> QED BY <1>1, <1>2 DEF OneDocumentADay, Sound

\* A write in place leaves the days and who has which.
LEMMA InPlace ==
  ASSUME DayInvariant, NEW doc, DocTypeOK(doc), NEW key \in Days \X {"bare", "padded"},
         NEW t \in Times, NEW status \in {"sent", "check"},
         Upsert(doc, key, t, status),
         doc.id # 0, docs[doc.id].day = DocKey(DayOf[t]), Sound(doc, docs[doc.id].day)
  PROVE  /\ Keyed' /\ OneDocumentADay' /\ DOMAIN docs' = DOMAIN docs
         /\ \A i \in DOMAIN docs : docs'[i].day = docs[i].day
         /\ \A k : Matches(k)' = Matches(k)
  <1>1. TypeOK /\ Keyed /\ OneDocumentADay
    BY DEF DayInvariant
  <1>2. DOMAIN docs' = DOMAIN docs /\ \A i \in DOMAIN docs : docs'[i].day = docs[i].day
    BY <1>1, UpsertEffect
  <1>3. ASSUME NEW i \in DOMAIN docs', NEW u \in Times
        PROVE  /\ docs'[i].log[u] # "check"
               /\ docs'[i].log[u] # "none" => docs'[i].day = DocKey(DayOf[u])
    <2>1. \/ docs'[i].log[u] = "none"
          \/ docs'[i].log[u] = docs[i].log[u]
          \/ i = doc.id /\ docs'[i].log[u] = doc.log[u]
          \/ i = doc.id /\ u = t /\ docs'[i].log[u] \in {"sent", "received"}
      BY <1>1, UpsertEntries
    <2>2. docs'[i].day = docs[i].day /\ i \in DOMAIN docs
      BY <1>2
    <2>3. CASE docs'[i].log[u] = docs[i].log[u]
      BY <1>1, <2>2, <2>3 DEF OneDocumentADay
    <2>4. CASE i = doc.id /\ docs'[i].log[u] = doc.log[u]
      BY <2>2, <2>4 DEF Sound
    <2> QED BY <2>1, <2>2, <2>3, <2>4
  <1>4. OneDocumentADay'
    BY <1>1, <1>2, <1>3 DEF OneDocumentADay
  <1>5. Keyed'
    BY <1>1, <1>2 DEF Keyed
  <1>6. \A k : Matches(k)' = Matches(k)
    BY <1>2 DEF Matches
  <1> QED BY <1>2, <1>4, <1>5, <1>6

\* The server's insertion.
LEMMA Insertion ==
  ASSUME DayInvariant, ServerWrite, sdoc.id = 0
  PROVE  Keyed' /\ OneDocumentADay' /\ AgentDoc'
  <1> DEFINE K == DocKey(DayOf[clock])
  <1>1. TypeOK /\ Keyed /\ OneDocumentADay /\ AgentDoc
    BY DEF DayInvariant
  <1>2. clock \in Times /\ DayOf[clock] \in Days /\ DocTypeOK(sdoc)
    BY <1>1, DayType DEF ServerWrite, TypeOK
  <1>3. K \in Days \X {"bare", "padded"} /\ K[1] = DayOf[clock]
    BY <1>2, KeyType
  <1>4. Upsert(sdoc, K, clock, "sent") /\ Matches(K) = {}
    BY DEF ServerWrite, DayInvariant, ServerDoc
  <1>5. /\ DOMAIN docs' = DOMAIN docs \cup {Len(docs) + 1}
        /\ docs'[Len(docs) + 1].day = K
        /\ \A i \in DOMAIN docs : docs'[i].day = docs[i].day
    <2> HIDE DEF K
    <2> QED BY <1>1, <1>2, <1>3, <1>4, UpsertEffect
  <1>6. \A i \in DOMAIN docs : docs[i].day[1] # K[1]
    <2> SUFFICES ASSUME NEW i \in DOMAIN docs, docs[i].day[1] = K[1] PROVE FALSE
      OBVIOUS
    <2>1. docs[i].day = DocKey(K[1])
      BY <1>1 DEF Keyed
    <2>2. docs[i].day = K
      BY <1>3, <2>1
    <2> QED BY <1>4, <2>2 DEF Matches
  <1>7. Keyed'
    <2>1. docs'[Len(docs) + 1].day = DocKey(docs'[Len(docs) + 1].day[1])
      BY <1>3, <1>5
    <2> QED BY <1>1, <1>5, <2>1 DEF Keyed
  <1>8. \A i, j \in DOMAIN docs' : docs'[i].day[1] = docs'[j].day[1] => i = j
    <2> HIDE DEF K
    <2> QED BY <1>1, <1>5, <1>6 DEF OneDocumentADay
  <1>9. ASSUME NEW i \in DOMAIN docs', NEW u \in Times
        PROVE  /\ docs'[i].log[u] # "check"
               /\ docs'[i].log[u] # "none" => docs'[i].day = DocKey(DayOf[u])
    <2>1. \/ docs'[i].log[u] = "none"
          \/ i \in DOMAIN docs /\ docs'[i].log[u] = docs[i].log[u]
          \/ i = Len(docs) + 1 /\ u = clock /\ docs'[i].log[u] = "sent"
      <3> HIDE DEF K
      <3> QED BY <1>1, <1>2, <1>3, <1>4, UpsertEntries
    <2>2. CASE i \in DOMAIN docs /\ docs'[i].log[u] = docs[i].log[u]
      BY <1>1, <1>5, <2>2 DEF OneDocumentADay
    <2>3. CASE i = Len(docs) + 1 /\ u = clock /\ docs'[i].log[u] = "sent"
      BY <1>5, <2>3
    <2> QED BY <2>1, <2>2, <2>3
  <1>10. OneDocumentADay'
    BY <1>8, <1>9 DEF OneDocumentADay
  <1>11. AgentDoc'
    <2>1. apc' = apc /\ msg' = msg /\ adoc' = adoc
      BY DEF ServerWrite, agent
    <2>2. \A k : Matches(k) \subseteq Matches(k)'
      BY <1>5 DEF Matches
    <2>3. apc = "write" => adoc.id \in DOMAIN docs
      BY <1>1 DEF AgentDoc, TypeOK, DocTypeOK
    <2>4. apc' = "find" => Matches(DayPart(DayOf[msg]))' # {}
      BY <1>1, <2>1, <2>2 DEF AgentDoc
    <2>5. apc' = "write" => /\ adoc'.id # 0 /\ docs'[adoc'.id].day = DayPart(DayOf[msg'])
                            /\ Sound(adoc', docs'[adoc'.id].day)
      BY <1>1, <1>5, <2>1, <2>3 DEF AgentDoc, Sound
    <2>6. Matches(DayPart(DayOf[msg]))' = {i \in DOMAIN docs' : docs'[i].day = DayPart(DayOf[msg'])}
      BY DEF Matches
    <2> QED BY <2>1, <2>4, <2>5, <2>6 DEF AgentDoc, Sound, Matches
  <1> QED BY <1>7, <1>10, <1>11

LEMMA DayServerWrite ==
  ASSUME DayInvariant, ServerWrite
  PROVE  Keyed' /\ OneDocumentADay' /\ AgentDoc' /\ ServerDoc'
  <1>1. TypeOK /\ AgentDoc /\ ServerDoc
    BY DEF DayInvariant
  <1>2. ServerDoc'
    BY DEF ServerWrite, ServerDoc
  <1>3. CASE sdoc.id # 0
    <2>1. clock \in Times /\ DayOf[clock] \in Days /\ DocTypeOK(sdoc)
      BY <1>1, DayType DEF ServerWrite, TypeOK
    <2>2. /\ Upsert(sdoc, DocKey(DayOf[clock]), clock, "sent")
          /\ docs[sdoc.id].day = DocKey(DayOf[clock]) /\ Sound(sdoc, docs[sdoc.id].day)
      BY <1>1, <1>3 DEF ServerWrite, ServerDoc
    <2>3. /\ Keyed' /\ OneDocumentADay' /\ DOMAIN docs' = DOMAIN docs
          /\ \A i \in DOMAIN docs : docs'[i].day = docs[i].day
      BY <1>3, <2>1, <2>2, KeyType, InPlace
    <2>4. apc' = apc /\ msg' = msg /\ adoc' = adoc
      BY DEF ServerWrite, agent
    <2>5. apc = "write" => adoc.id \in DOMAIN docs
      BY <1>1 DEF AgentDoc, TypeOK, DocTypeOK
    <2>6. AgentDoc'
      BY <1>1, <2>3, <2>4, <2>5 DEF AgentDoc, Sound, Matches
    <2> QED BY <1>2, <2>3, <2>6
  <1> QED BY <1>2, <1>3, Insertion

LEMMA DayAgentWrite ==
  ASSUME DayInvariant, AgentWrite
  PROVE  Keyed' /\ OneDocumentADay' /\ AgentDoc' /\ ServerDoc'
  <1>1. TypeOK /\ AgentDoc /\ ServerDoc /\ Keyed
    BY DEF DayInvariant
  <1>2. AgentDoc'
    BY DEF AgentWrite, AgentDoc
  <1>3. msg \in Times /\ DayOf[msg] \in Days /\ DocTypeOK(adoc)
    BY <1>1, DayType DEF AgentWrite, TypeOK
  <1>4. /\ Upsert(adoc, DayPart(DayOf[msg]), msg, "check")
        /\ adoc.id # 0 /\ docs[adoc.id].day = DayPart(DayOf[msg])
        /\ Sound(adoc, docs[adoc.id].day)
    BY <1>1 DEF AgentWrite, AgentDoc
  <1>5. docs[adoc.id].day = DocKey(DayOf[msg])
    <2>1. adoc.id \in DOMAIN docs
      BY <1>3, <1>4, <1>1 DEF DocTypeOK, TypeOK
    <2>2. docs[adoc.id].day[1] = DayOf[msg]
      BY <1>3, <1>4, KeyType
    <2> QED BY <1>1, <2>1, <2>2 DEF Keyed
  <1>6. /\ Keyed' /\ OneDocumentADay' /\ DOMAIN docs' = DOMAIN docs
        /\ \A i \in DOMAIN docs : docs'[i].day = docs[i].day
    BY <1>3, <1>4, <1>5, KeyType, InPlace
  <1>7. spc' = spc /\ clock' = clock /\ sdoc' = sdoc
    BY DEF AgentWrite, server
  <1>8. sdoc.id # 0 => sdoc.id \in DOMAIN docs
    BY <1>1 DEF TypeOK, DocTypeOK
  <1>9. ServerDoc'
    BY <1>1, <1>6, <1>7, <1>8 DEF ServerDoc, Sound, Matches, NoDoc
  <1> QED BY <1>2, <1>6, <1>9

LEMMA DayStep == DayInvariant /\ [Next]_vars => DayInvariant'
  <1> SUFFICES ASSUME DayInvariant, [Next]_vars PROVE DayInvariant'
    OBVIOUS
  <1>1. TypeOK'
    BY TypeStep DEF DayInvariant
  <1>2. TypeOK /\ Keyed /\ OneDocumentADay /\ ServerDoc /\ AgentDoc
    BY DEF DayInvariant
  <1>3. CASE docs' = docs
    <2>1. Keyed' /\ OneDocumentADay'
      BY <1>2, <1>3 DEF Keyed, OneDocumentADay
    <2>2. \A k : Matches(k)' = Matches(k)
      BY <1>3 DEF Matches
    <2>3. ServerDoc'
      <3>1. CASE UNCHANGED server
        BY <1>2, <1>3, <3>1 DEF server, ServerDoc, Sound, Matches, NoDoc
      <3>2. CASE Packet \/ ServerFails \/ Publish
        BY <3>2 DEF Packet, ServerFails, Publish, ServerDoc
      <3>3. CASE ServerFind
        <4>1. FindOne(DocKey(DayOf[clock]), sdoc') /\ clock' = clock
          BY <3>3 DEF ServerFind
        <4>2. CASE sdoc'.id = 0
          <5>1. Matches(DocKey(DayOf[clock])) = {} /\ sdoc' = NoDoc
            BY <1>2, <4>1, <4>2, FindOneFinds
          <5> QED BY <1>3, <4>1, <4>2, <5>1 DEF ServerDoc, Matches, NoDoc
        <4>3. CASE sdoc'.id # 0
          <5>1. docs[sdoc'.id].day = DocKey(DayOf[clock]) /\ Sound(sdoc', docs[sdoc'.id].day)
            BY <4>1, <4>3, FoundSound
          <5> QED BY <1>3, <4>1, <4>3, <5>1 DEF ServerDoc, Sound
        <4> QED BY <4>2, <4>3
      <3>4. CASE ServerWrite
        BY <3>4 DEF ServerWrite, ServerDoc
      <3> QED BY <3>1, <3>2, <3>3, <3>4
           DEF Next, ServerStep, AgentStep, Start, BindQueue, Take, AgentFind,
               AgentWrite, Store, Crash, vars
    <2>4. AgentDoc'
      <3>1. CASE UNCHANGED agent
        BY <1>2, <1>3, <3>1 DEF agent, AgentDoc, Sound, Matches
      <3>2. CASE Start \/ BindQueue \/ Store \/ Crash \/ AgentWrite
        BY <3>2 DEF Start, BindQueue, Store, Crash, AgentWrite, AgentDoc
      <3>3. CASE Take
        BY <1>3, <3>3 DEF Take, AgentDoc, Matches
      <3>4. CASE AgentFind
        <4>1. FindOne(DayPart(DayOf[msg]), adoc') /\ msg' = msg /\ apc' = "write"
              /\ Matches(DayPart(DayOf[msg])) # {}
          BY <1>2, <3>4 DEF AgentFind, AgentDoc
        <4>2. adoc'.id # 0
          BY <1>2, <4>1, FindOneFinds
        <4>3. docs[adoc'.id].day = DayPart(DayOf[msg]) /\ Sound(adoc', docs[adoc'.id].day)
          BY <4>1, <4>2, FoundSound
        <4> QED BY <1>3, <4>1, <4>2, <4>3 DEF AgentDoc, Sound
      <3> QED BY <3>1, <3>2, <3>3, <3>4
           DEF Next, ServerStep, AgentStep, Packet, ServerFind, ServerWrite, Publish,
               ServerFails, vars
    <2> QED BY <1>1, <2>1, <2>3, <2>4 DEF DayInvariant
  <1>4. CASE ServerWrite
    BY <1>1, <1>4, DayServerWrite DEF DayInvariant
  <1>5. CASE AgentWrite
    BY <1>1, <1>5, DayAgentWrite DEF DayInvariant
  <1> QED BY <1>3, <1>4, <1>5
       DEF Next, ServerStep, AgentStep, Packet, ServerFind, Publish, ServerFails, Start,
           BindQueue, Take, AgentFind, Store, Crash, vars

\* One document a day, with the server's entries only: the agent's half of
\* document_upsert never inserts (iiot_mqtt_agent.py, the test before the call).
THEOREM OneDocumentCorrect == Spec => []OneDocumentADay
  <1>1. Init => DayInvariant
    BY TypeInit DEF Init, DayInvariant, Keyed, ServerDoc, AgentDoc, OneDocumentADay
  <1>2. DayInvariant => OneDocumentADay
    BY DEF DayInvariant
  <1> QED BY <1>1, <1>2, DayStep, PTL DEF Spec

-----------------------------------------------------------------------------
(* At most one point per facility *)

LEMMA HoldingCount ==
  ASSUME NEW t
  PROVE  /\ IsFiniteSet(Holding(t)) /\ Cardinality(Holding(t)) \in Nat
         /\ Cardinality(Holding(t)) <= Cardinality(Facilities)
         /\ Cardinality(Facilities) \in Nat
  <1>1. IsFiniteSet(Facilities) /\ Holding(t) \in SUBSET Facilities
    BY DeliveryConstantsOK DEF DeliveryConstantsOK, Holding
  <1> QED BY <1>1, FS_Subset, FS_CardinalityType

\* The queues, the hand and the points stay.
LEMMA PointsKept ==
  ASSUME PointsInvariant, UNCHANGED <<queue, msg, points>>,
         \A t \in Times : (t > clock \/ (t = clock /\ spc # "idle"))' =>
                            t > clock \/ (t = clock /\ spc # "idle")
  PROVE  OnceEach' /\ Unpublished' /\ CopiesCounted'
  <1>1. \A t : Holding(t)' = Holding(t) /\ InHand(t)' = InHand(t)
    BY DEF Holding, InQueue, InHand
  <1> QED BY <1>1 DEF PointsInvariant, OnceEach, Unpublished, CopiesCounted

LEMMA PublishCounted ==
  ASSUME PointsInvariant, Publish
  PROVE  OnceEach' /\ Unpublished' /\ CopiesCounted'
  <1> USE DEF PointsInvariant
  <1>1. /\ clock \in Times /\ clock \in Nat /\ clock' = clock /\ spc' = "idle" /\ spc # "idle"
        /\ UNCHANGED <<msg, points>>
    BY DeliveryConstantsOK DEF Publish, TypeOK, agent, Times, DeliveryConstantsOK
  <1>2. points[clock] = 0 /\ Holding(clock) = {} /\ msg # clock
    BY <1>1 DEF Unpublished
  <1>3. ASSUME NEW f \in Facilities
        PROVE  \/ queue'[f] = queue[f]
               \/ /\ Len(queue[f]) \in Nat /\ DOMAIN queue[f] = 1..Len(queue[f])
                  /\ DOMAIN queue'[f] = 1..(Len(queue[f]) + 1)
                  /\ queue'[f][Len(queue[f]) + 1] = clock
                  /\ \A k \in DOMAIN queue[f] : queue'[f][k] = queue[f][k]
    <2>1. queue[f] \in Seq(Times) /\ (queue'[f] = queue[f] \/ queue'[f] = Append(queue[f], clock))
      BY DEF Publish, TypeOK
    <2> QED BY <1>1, <2>1
  <1>4. OnceEach'
    <2> SUFFICES ASSUME NEW f \in Facilities, NEW j \in DOMAIN queue'[f],
                        NEW k \in DOMAIN queue'[f], queue'[f][j] = queue'[f][k]
                 PROVE  j = k
      BY DEF OnceEach
    <2>1. \A i \in DOMAIN queue[f] : queue[f][i] # clock
      BY <1>2 DEF Holding, InQueue
    <2> QED BY <1>3, <2>1 DEF OnceEach
  <1>5. ASSUME NEW t \in Times, t # clock PROVE Holding(t)' = Holding(t)
    <2>1. ASSUME NEW f \in Facilities PROVE InQueue(f, t)' <=> InQueue(f, t)
      BY <1>3, <1>5 DEF InQueue
    <2> QED BY <2>1 DEF Holding
  <1>6. Unpublished'
    BY <1>1, <1>5, DeliveryConstantsOK DEF Unpublished, Times, DeliveryConstantsOK
  <1>7. \A t : InHand(t)' = InHand(t)
    BY <1>1 DEF InHand
  <1>8. Cardinality(Holding(clock)') <= Cardinality(Facilities)
        /\ Cardinality(Holding(clock)') \in Nat
    <2>1. IsFiniteSet(Facilities) /\ Holding(clock)' \in SUBSET Facilities
      BY DeliveryConstantsOK DEF DeliveryConstantsOK, Holding
    <2> QED BY <2>1, FS_Subset, FS_CardinalityType
  <1>9. ASSUME NEW t \in Times
        PROVE  points'[t] + Cardinality(Holding(t)') + InHand(t)' <= Cardinality(Facilities)
    <2>1. CASE t = clock
      <3>1. points'[t] = 0 /\ InHand(t)' = 0
        BY <1>1, <1>2, <2>1 DEF InHand
      <3>2. Holding(t)' = Holding(clock)'
        BY <1>1, <2>1 DEF Holding, InQueue
      <3> QED BY <1>8, <3>1, <3>2, HoldingCount
    <2>2. CASE t # clock
      BY <1>1, <1>5, <1>7, <2>2 DEF CopiesCounted
    <2> QED BY <2>1, <2>2
  <1>10. CopiesCounted'
    BY <1>9 DEF CopiesCounted
  <1> QED BY <1>4, <1>6, <1>10

\* The copy that is taken leaves its queue for the agent's hand.
LEMMA TakeCounted ==
  ASSUME PointsInvariant, Take
  PROVE  OnceEach' /\ Unpublished' /\ CopiesCounted'
  <1> USE DEF PointsInvariant
  <1>0. PICK m : m = msg'
    OBVIOUS
  <1>1. PICK f \in Facilities : /\ queue[f] # <<>> /\ msg' = Head(queue[f])
                                /\ queue' = [queue EXCEPT ![f] = Tail(@)]
    BY DEF Take
  <1>2. queue[f] \in Seq(Times) /\ queue[f] # <<>>
    BY <1>1 DEF TypeOK
  <1>3. /\ m \in Times /\ 1 \in DOMAIN queue[f] /\ m = queue[f][1]
        /\ queue'[f] = Tail(queue[f])
        /\ \A g \in Facilities : g # f => queue'[g] = queue[g]
    BY <1>0, <1>1, <1>2 DEF TypeOK
  <1>4. /\ \A k \in DOMAIN queue'[f] : /\ k \in Nat /\ k >= 1 /\ k + 1 \in DOMAIN queue[f]
                                      /\ queue'[f][k] = queue[f][k + 1]
        /\ \A k \in DOMAIN queue[f] : k \in Nat /\ (k # 1 => /\ k - 1 \in DOMAIN queue'[f]
                                                             /\ queue'[f][k - 1] = queue[f][k])
    BY <1>2, <1>3
  <1>5. UNCHANGED <<points, clock, spc>> /\ msg = 0
    BY DEF Take, server, TypeOK
  <1>6. ~InQueue(f, m)' /\ InQueue(f, m)
    <2>1. \A k \in DOMAIN queue'[f] : queue'[f][k] # m
      BY <1>3, <1>4 DEF OnceEach
    <2> QED BY <1>3, <2>1 DEF InQueue
  <1>7. \A g \in Facilities : g # f => \A t : (InQueue(g, t)' <=> InQueue(g, t))
    BY <1>3 DEF InQueue
  <1>8. ASSUME NEW t, t # m PROVE InQueue(f, t)' <=> InQueue(f, t)
    <2>1. InQueue(f, t)' => InQueue(f, t)
      BY <1>4 DEF InQueue
    <2>2. ASSUME NEW k \in DOMAIN queue[f], queue[f][k] = t PROVE InQueue(f, t)'
      <3>1. k # 1
        BY <1>3, <1>8, <2>2
      <3> QED BY <1>4, <2>2, <3>1 DEF InQueue
    <2> QED BY <2>1, <2>2 DEF InQueue
  <1>9. OnceEach'
    <2> SUFFICES ASSUME NEW g \in Facilities, NEW j \in DOMAIN queue'[g],
                        NEW k \in DOMAIN queue'[g], queue'[g][j] = queue'[g][k]
                 PROVE  j = k
      BY DEF OnceEach
    <2>1. CASE g = f
      <3>1. j + 1 = k + 1
        BY <1>4, <2>1 DEF OnceEach
      <3> QED BY <1>4, <2>1, <3>1
    <2>2. CASE g # f
      BY <1>3, <2>2 DEF OnceEach
    <2> QED BY <2>1, <2>2
  <1>10. \A t \in Times \ {m} : Holding(t)' = Holding(t)
    BY <1>7, <1>8 DEF Holding
  <1>11. Cardinality(Holding(m)') = Cardinality(Holding(m)) - 1
    <2>1. Holding(m)' = Holding(m) \ {f} /\ f \in Holding(m)
      BY <1>6, <1>7 DEF Holding
    <2> QED BY <2>1, HoldingCount, FS_RemoveElement
  <1>12. Holding(m) # {}
    BY <1>6 DEF Holding
  <1>13. ~(m > clock \/ (m = clock /\ spc # "idle"))
    BY <1>3, <1>12 DEF Unpublished
  <1>14. Unpublished'
    BY <1>0, <1>5, <1>10, <1>13 DEF Unpublished
  <1>15. ASSUME NEW t \in Times
         PROVE  points'[t] + Cardinality(Holding(t)') + InHand(t)' <= Cardinality(Facilities)
    <2>0. /\ points[t] + Cardinality(Holding(t)) + InHand(t) <= Cardinality(Facilities)
          /\ points[t] \in Nat /\ t # 0
      BY DeliveryConstantsOK DEF CopiesCounted, TypeOK, Times, DeliveryConstantsOK
    <2>1. InHand(t) = 0 /\ InHand(t)' = (IF t = m THEN 1 ELSE 0)
      BY <1>0, <1>5, <2>0 DEF InHand
    <2>2. CASE t = m
      BY <1>5, <1>11, <2>0, <2>1, <2>2, HoldingCount
    <2>3. CASE t # m
      BY <1>5, <1>10, <2>0, <2>1, <2>3, HoldingCount
    <2> QED BY <2>2, <2>3
  <1>16. CopiesCounted'
    BY <1>15 DEF CopiesCounted
  <1> QED BY <1>9, <1>14, <1>16

LEMMA StoreCounted ==
  ASSUME PointsInvariant, Store
  PROVE  OnceEach' /\ Unpublished' /\ CopiesCounted'
  <1> USE DEF PointsInvariant
  <1>1. /\ msg \in Times /\ msg # 0 /\ msg' = 0 /\ UNCHANGED <<queue, clock, spc>>
        /\ points' = points \/ points' = [points EXCEPT ![msg] = @ + 1]
    BY DEF Store, TypeOK, server, broker
  <1>2. /\ \A t : Holding(t)' = Holding(t)
        /\ \A t \in Times : InHand(t)' = 0 /\ InHand(t) = (IF t = msg THEN 1 ELSE 0)
        /\ \A t \in Times : t # msg => points'[t] = points[t]
        /\ points'[msg] \in {points[msg], points[msg] + 1}
    BY <1>1, DeliveryConstantsOK
       DEF Holding, InQueue, InHand, TypeOK, Times, DeliveryConstantsOK
  <1>3. OnceEach'
    BY <1>1 DEF OnceEach
  <1>4. Unpublished'
    BY <1>1, <1>2, DeliveryConstantsOK DEF Unpublished, Times, DeliveryConstantsOK
  <1>5. ASSUME NEW t \in Times
        PROVE  points'[t] + Cardinality(Holding(t)) <= Cardinality(Facilities)
    <2>1. /\ points[t] + Cardinality(Holding(t)) + InHand(t) <= Cardinality(Facilities)
          /\ points[t] \in Nat
      BY DEF CopiesCounted, TypeOK
    <2> QED BY <1>2, <2>1, HoldingCount
  <1>6. CopiesCounted'
    BY <1>2, <1>5, HoldingCount DEF CopiesCounted, TypeOK
  <1> QED BY <1>3, <1>4, <1>6

LEMMA CrashCounted ==
  ASSUME PointsInvariant, Crash
  PROVE  OnceEach' /\ Unpublished' /\ CopiesCounted'
  <1> USE DEF PointsInvariant
  <1>1. /\ queue' = [f \in Facilities |-> <<>>] /\ msg' = 0
        /\ UNCHANGED <<points, clock, spc>>
    BY DEF Crash, server
  <1>2. /\ \A t \in Times : Holding(t)' = {} /\ InHand(t)' = 0
        /\ Cardinality({}) = 0
    BY <1>1, FS_EmptySet, DeliveryConstantsOK
       DEF Holding, InQueue, InHand, Times, DeliveryConstantsOK
  <1>3. ASSUME NEW t \in Times PROVE points[t] + 0 + 0 <= Cardinality(Facilities)
    <2>1. /\ points[t] + Cardinality(Holding(t)) + InHand(t) <= Cardinality(Facilities)
          /\ points[t] \in Nat /\ InHand(t) \in {0, 1}
      BY DEF CopiesCounted, TypeOK, InHand
    <2> QED BY <2>1, HoldingCount
  <1>4. OnceEach'
    BY <1>1 DEF OnceEach
  <1>5. Unpublished'
    BY <1>1, <1>2, DeliveryConstantsOK DEF Unpublished, Times, DeliveryConstantsOK
  <1>6. CopiesCounted'
    BY <1>1, <1>2, <1>3 DEF CopiesCounted
  <1> QED BY <1>4, <1>5, <1>6

LEMMA PointsStep == PointsInvariant /\ [Next]_vars => PointsInvariant'
  <1> SUFFICES ASSUME PointsInvariant, [Next]_vars
               PROVE  OnceEach' /\ Unpublished' /\ CopiesCounted'
    BY TypeStep DEF PointsInvariant
  <1> USE DEF server, agent, broker
  <1>0. clock \in Nat
    BY DeliveryConstantsOK DEF PointsInvariant, TypeOK, DeliveryConstantsOK
  <1>1. CASE UNCHANGED vars
    BY <1>1, PointsKept DEF vars
  <1>2. CASE Packet
    <2>1. /\ UNCHANGED <<queue, msg, points>> /\ clock' = clock + 1
          /\ \A t \in Times : t \in Int
      BY <1>2 DEF Packet, Times
    <2> QED BY <1>0, <2>1, PointsKept
  <1>3. CASE ServerFind \/ ServerWrite \/ ServerFails
    BY <1>3, PointsKept DEF ServerFind, ServerWrite, ServerFails
  <1>4. CASE Start \/ BindQueue \/ AgentFind \/ AgentWrite
    BY <1>4, PointsKept DEF Start, BindQueue, AgentFind, AgentWrite
  <1> QED BY <1>1, <1>2, <1>3, <1>4, PublishCounted, TakeCounted, StoreCounted,
             CrashCounted DEF Next, ServerStep, AgentStep

\* For every number of readings, facilities, failures and crashes, a reading becomes at
\* most one point per facility (callback_mqreceive, iiot_mqtt_agent.py).
THEOREM PointsCorrect == Spec => []NoExtraPoints
  <1>1. Init => PointsInvariant
    <2> SUFFICES ASSUME Init PROVE OnceEach /\ Unpublished /\ CopiesCounted
      BY TypeInit DEF PointsInvariant
    <2>1. /\ \A t \in Times : Holding(t) = {} /\ InHand(t) = 0 /\ points[t] = 0 /\ msg # t
          /\ Cardinality({}) = 0
      BY FS_EmptySet, DeliveryConstantsOK
         DEF Init, Holding, InQueue, InHand, Times, DeliveryConstantsOK
    <2>2. OnceEach
      BY DEF Init, OnceEach
    <2> QED BY <2>1, <2>2, HoldingCount DEF Unpublished, CopiesCounted
  <1>2. PointsInvariant => NoExtraPoints
    <2> SUFFICES ASSUME PointsInvariant, NEW t \in Times
                 PROVE  points[t] <= Cardinality(Facilities)
      BY DEF NoExtraPoints
    <2>1. /\ points[t] + Cardinality(Holding(t)) + InHand(t) <= Cardinality(Facilities)
          /\ points[t] \in Nat /\ InHand(t) \in {0, 1}
      BY DEF PointsInvariant, CopiesCounted, TypeOK, InHand
    <2> QED BY <2>1, HoldingCount
  <1> QED BY <1>1, <1>2, PointsStep, PTL DEF Spec

-----------------------------------------------------------------------------
(***************************************************************************)
(* DeliveryLog implements AtomicLog, and what the agent is done with is    *)
(* confirmed, as long as the two processes take turns: for every number of *)
(* readings, any days, facilities, failures and crashes.                   *)
(***************************************************************************)

\* A day has at most one document, so a reading has at most one mark.
LEMMA OneMark ==
  ASSUME DayInvariant, NEW t \in Times, NEW i \in DOMAIN docs,
         docs[i].day = DocKey(DayOf[t])
  PROVE  Matches(DocKey(DayOf[t])) = {i} /\ MarksOf(t) = {docs[i].log[t]} \ {"none"}
<1>1. OneDocumentADay
  BY DEF DayInvariant
<1>2. \A j \in DOMAIN docs : docs[j].day = docs[i].day => j = i
  BY <1>1 DEF OneDocumentADay
<1>3. Matches(DocKey(DayOf[t])) = {i}
  BY <1>2 DEF Matches
<1> QED BY <1>3 DEF MarksOf

\* What a write in turn does to the marks: those of other readings stay, this one
\* gets an entry, or is confirmed if it had one.
MarksChange(t) ==
  /\ \A u \in Times \ {t} : MarksOf(u)' = MarksOf(u)
  /\ MarksOf(t)' = IF MarksOf(t) = {} THEN {"sent"} ELSE {"received"}
  /\ MarksOf(t) \in {{}, {"sent"}, {"received"}}

LEMMA WriteInPlace ==
  ASSUME DayInvariant, DayInvariant', NEW doc, DocTypeOK(doc),
         NEW key, NEW t \in Times, NEW status,
         Upsert(doc, key, t, status), doc.id # 0,
         docs[doc.id].day = DocKey(DayOf[t]), docs[doc.id].log = doc.log
  PROVE  MarksChange(t)
<1> DEFINE i == doc.id
           new == [doc.log EXCEPT ![t] = IF @ = "none" THEN "sent" ELSE "received"]
<1>1. docs \in Seq(Document) /\ doc.log \in Logs /\ i \in DOMAIN docs
  BY DEF DayInvariant, TypeOK, DocTypeOK
<1>2. doc.log[t] \in {"none", "sent", "received"}
  <2>1. doc.log[t] # "check"
    BY <1>1 DEF DayInvariant, OneDocumentADay
  <2> QED BY <1>1, <2>1 DEF Logs, Marks
<1>3. docs' = [docs EXCEPT ![i].log = new]
  BY <1>2 DEF Upsert
<1>4. docs[i] \in Document
  BY <1>1
<1>5. /\ DOMAIN docs' = DOMAIN docs
      /\ \A j \in DOMAIN docs : j # i => docs'[j] = docs[j]
      /\ docs'[i].day = docs[i].day /\ docs'[i].log = new
  BY <1>1, <1>3, <1>4 DEF Document
<1>6. /\ new[t] = IF doc.log[t] = "none" THEN "sent" ELSE "received"
      /\ \A u \in Times \ {t} : new[u] = doc.log[u]
  BY <1>1 DEF Logs
<1>7. MarksOf(t) = {doc.log[t]} \ {"none"}
  BY <1>1, OneMark
<1>8. MarksOf(t)' = {new[t]} \ {"none"}
  <2>1. Matches(DocKey(DayOf[t]))' = Matches(DocKey(DayOf[t]))
    BY <1>5 DEF Matches
  <2>2. Matches(DocKey(DayOf[t])) = {i}
    BY <1>1, OneMark
  <2>3. MarksOf(t)' = {docs'[j].log[t] : j \in Matches(DocKey(DayOf[t]))'} \ {"none"}
    BY DEF MarksOf
  <2>4. MarksOf(t)' = {docs'[i].log[t]} \ {"none"}
    BY <2>1, <2>2, <2>3
  <2> QED BY <1>5, <2>4
<1>9. ASSUME NEW u \in Times \ {t} PROVE MarksOf(u)' = MarksOf(u)
  <2>1. Matches(DocKey(DayOf[u]))' = Matches(DocKey(DayOf[u]))
    BY <1>5 DEF Matches
  <2>2. \A j \in Matches(DocKey(DayOf[u])) : docs'[j].log[u] = docs[j].log[u]
    BY <1>5, <1>6 DEF Matches
  <2> QED BY <2>1, <2>2 DEF MarksOf
<1> QED BY <1>2, <1>6, <1>7, <1>8, <1>9 DEF MarksChange

LEMMA WriteNew ==
  ASSUME DayInvariant, ServerWrite, sdoc.id = 0
  PROVE  MarksChange(clock)
<1> DEFINE n == Len(docs) + 1
           K == DocKey(DayOf[clock])
<1>1. /\ clock \in Times /\ TypeOK /\ DocTypeOK(sdoc)
      /\ K \in Days \X {"bare", "padded"}
      /\ Upsert(sdoc, K, clock, "sent") /\ Matches(K) = {}
  BY DayType, KeyType DEF DayInvariant, ServerDoc, ServerWrite, TypeOK
<1>2. /\ DOMAIN docs' = DOMAIN docs \cup {n} /\ n \notin DOMAIN docs
      /\ \A i \in DOMAIN docs : docs'[i] = docs[i]
      /\ docs'[n].day = K /\ docs'[n].log[clock] = "sent"
      /\ \A u \in Times \ {clock} : docs'[n].log[u] = "none"
  <2>1. n \notin DOMAIN docs /\ 0 \notin DOMAIN docs
    BY <1>1 DEF TypeOK
  <2>2. /\ \A i \in DOMAIN docs : i # sdoc.id => docs'[i] = docs[i]
        /\ sdoc.id = 0 => /\ DOMAIN docs' = DOMAIN docs \cup {n}
                          /\ docs'[n].day = K /\ docs'[n].log[clock] = "sent"
                          /\ \A u \in Times \ {clock} : docs'[n].log[u] = "none"
    <3> HIDE DEF K
    <3> QED BY <1>1, UpsertEffect
  <2>3. \A i \in DOMAIN docs : docs'[i] = docs[i]
    BY <2>1, <2>2
  <2> HIDE DEF K, n
  <2> QED BY <2>1, <2>2, <2>3
<1>3. MarksOf(clock) = {}
  BY <1>1 DEF MarksOf
<1>4. MarksOf(clock)' = {"sent"}
  <2>1. clock' = clock
    BY DEF ServerWrite
  <2>2. {i \in DOMAIN docs' : docs'[i].day = K} = {n}
    BY <1>1, <1>2 DEF Matches
  <2>3. MarksOf(clock)' = {docs'[i].log[clock] : i \in {n}} \ {"none"}
    BY <2>1, <2>2 DEF MarksOf, Matches
  <2> QED BY <1>2, <2>3
<1>5. ASSUME NEW u \in Times \ {clock} PROVE MarksOf(u)' = MarksOf(u)
  <2>1. /\ Matches(DocKey(DayOf[u])) \subseteq Matches(DocKey(DayOf[u]))'
        /\ Matches(DocKey(DayOf[u]))' \subseteq Matches(DocKey(DayOf[u])) \cup {n}
        /\ Matches(DocKey(DayOf[u])) \subseteq DOMAIN docs
    BY <1>2 DEF Matches
  <2> QED BY <1>2, <2>1 DEF MarksOf
<1> QED BY <1>3, <1>4, <1>5 DEF MarksChange

LEMMA ServerWriteInTurn ==
  ASSUME DayInvariant, DayInvariant', InTurn, ~overlapped, ServerWrite
  PROVE  MarksChange(clock)
<1>1. CASE sdoc.id = 0
  BY <1>1, WriteNew
<1>2. CASE sdoc.id # 0
  <2>1. /\ clock \in Times /\ DocTypeOK(sdoc)
        /\ Upsert(sdoc, DocKey(DayOf[clock]), clock, "sent")
        /\ docs[sdoc.id].day = DocKey(DayOf[clock])
    BY <1>2 DEF ServerWrite, DayInvariant, ServerDoc, TypeOK
  <2>2. docs[sdoc.id].log = sdoc.log
    BY <1>2 DEF ServerWrite, InTurn
  <2> QED BY <1>2, <2>1, <2>2, WriteInPlace
<1> QED BY <1>1, <1>2

LEMMA AgentWriteInTurn ==
  ASSUME DayInvariant, DayInvariant', InTurn, ~overlapped, AgentWrite
  PROVE  MarksChange(msg)
<1>1. /\ msg \in Times /\ DocTypeOK(adoc) /\ adoc.id \in DOMAIN docs
      /\ Upsert(adoc, DayPart(DayOf[msg]), msg, "check")
      /\ adoc.id # 0 /\ docs[adoc.id].day = DayPart(DayOf[msg])
  BY DEF AgentWrite, DayInvariant, AgentDoc, TypeOK, DocTypeOK
<1>2. docs[adoc.id].log = adoc.log
  BY DEF AgentWrite, InTurn
<1>3. docs[adoc.id].day = DocKey(DayOf[msg])
  BY <1>1, DayType, KeyType DEF DayInvariant, Keyed
<1> QED BY <1>1, <1>2, <1>3, WriteInPlace

\* A step that writes no document changes no mark.
LEMMA MarksKept ==
  ASSUME docs' = docs
  PROVE  \A t \in Times : MarksOf(t)' = MarksOf(t)
BY DEF MarksOf, Matches

LEMMA OthersDoNotWrite ==
  ASSUME [Next]_vars, ~ServerWrite, ~AgentWrite
  PROVE  docs' = docs
BY DEF Next, ServerStep, AgentStep, Packet, ServerFind, Publish, ServerFails, Start,
       BindQueue, Take, AgentFind, Store, Crash, vars

LEMMA OverlapStays == [Next]_vars /\ overlapped => overlapped'
  BY DEF Next, ServerStep, AgentStep, Packet, ServerFind, ServerWrite, Publish,
         ServerFails, Start, BindQueue, Take, AgentFind, AgentWrite, Store, Crash, vars

LEMMA InTurnStep ==
  ASSUME DayInvariant, InTurn, [Next]_vars
  PROVE  InTurn'
<1> SUFFICES ASSUME ~overlapped, ~overlapped' PROVE InTurn'
  BY OverlapStays DEF InTurn
<1> USE DEF InTurn
<1>1. CASE ServerWrite
  BY <1>1 DEF ServerWrite, agent
<1>2. CASE AgentWrite
  BY <1>2 DEF AgentWrite, server
<1>3. CASE ServerFind
  <2>1. FindOne(DocKey(DayOf[clock]), sdoc') /\ apc # "write"
        /\ UNCHANGED <<docs, apc, adoc>>
    BY <1>3 DEF ServerFind, agent
  <2>2. sdoc'.id # 0 => docs[sdoc'.id].log = sdoc'.log
    BY <2>1, FindOneFinds DEF DayInvariant
  <2> QED BY <2>1, <2>2
<1>4. CASE AgentFind
  <2>1. FindOne(DayPart(DayOf[msg]), adoc') /\ spc # "write"
        /\ UNCHANGED <<docs, spc, sdoc>>
        /\ Matches(DayPart(DayOf[msg])) # {}
    BY <1>4 DEF AgentFind, server, DayInvariant, AgentDoc
  <2>2. docs[adoc'.id].log = adoc'.log
    BY <2>1, FindOneFinds DEF DayInvariant
  <2> QED BY <2>1, <2>2
<1>5. CASE Packet \/ Publish \/ ServerFails
  BY <1>5 DEF Packet, Publish, ServerFails, agent
<1>6. CASE Start \/ BindQueue \/ Take \/ Store \/ Crash
  BY <1>6 DEF Start, BindQueue, Take, Store, Crash, server
<1>7. CASE UNCHANGED vars
  BY <1>7 DEF vars, server, agent
<1> QED BY <1>1, <1>2, <1>3, <1>4, <1>5, <1>6, <1>7 DEF Next, ServerStep, AgentStep

-----------------------------------------------------------------------------
(* The refinement *)

\* Until they overlap a step adds an entry, confirms one, or does nothing to the
\* log; from then on AtomicLog allows anything.
LEMMA LogStep ==
  ASSUME DayInvariant, DayInvariant', InTurn, [Next]_vars
  PROVE  [Log!Next]_(Log!vars)
<1> DEFINE Sent == {t \in Times : MarksOf(t) # {}}
           Confirmed == {t \in Times : "received" \in MarksOf(t)}
<1>1. CASE overlapped'
  <2>1. (~overlapped)' = FALSE /\ Sent' \in SUBSET Times /\ Confirmed' \in SUBSET Sent'
    BY <1>1
  <2>2. Log!Overlap
    BY <2>1 DEF Log!Overlap
  <2> QED BY <2>2 DEF Log!Next
<1>2. CASE ~overlapped'
  <2>0. ~overlapped /\ UNCHANGED overlapped
    BY <1>2, OverlapStays DEF DayInvariant, TypeOK
  <2>1. ASSUME NEW t \in Times, MarksChange(t) PROVE [Log!Next]_(Log!vars)
    <3>1. CASE MarksOf(t) = {}
      <4>1. MarksOf(t)' = {"sent"} /\ \A u \in Times \ {t} : MarksOf(u)' = MarksOf(u)
        BY <2>1, <3>1 DEF MarksChange
      <4>2. t \in Times \ Sent /\ Sent' = Sent \cup {t} /\ Confirmed' = Confirmed
        BY <3>1, <4>1
      <4>3. Log!Add
        BY <2>0, <4>2 DEF Log!Add
      <4> QED BY <4>3 DEF Log!Next
    <3>2. CASE MarksOf(t) = {"sent"}
      <4>1. MarksOf(t)' = {"received"} /\ \A u \in Times \ {t} : MarksOf(u)' = MarksOf(u)
        BY <2>1, <3>2 DEF MarksChange
      <4>2. t \in Sent \ Confirmed /\ Sent' = Sent /\ Confirmed' = Confirmed \cup {t}
        BY <3>2, <4>1
      <4>3. Log!Confirm
        BY <2>0, <4>2 DEF Log!Confirm
      <4> QED BY <4>3 DEF Log!Next
    <3>3. CASE MarksOf(t) = {"received"}
      <4>1. \A u \in Times : MarksOf(u)' = MarksOf(u)
        BY <2>1, <3>3 DEF MarksChange
      <4>2. Sent' = Sent /\ Confirmed' = Confirmed
        BY <4>1
      <4> QED BY <2>0, <4>2 DEF Log!vars
    <3> QED BY <2>1, <3>1, <3>2, <3>3 DEF MarksChange
  <2>2. CASE ServerWrite
    BY <2>0, <2>1, <2>2, ServerWriteInTurn DEF ServerWrite, DayInvariant, TypeOK
  <2>3. CASE AgentWrite
    BY <2>0, <2>1, <2>3, AgentWriteInTurn DEF AgentWrite, DayInvariant, TypeOK
  <2>4. CASE ~ServerWrite /\ ~AgentWrite
    <3>1. \A t \in Times : MarksOf(t)' = MarksOf(t)
      BY <2>4, OthersDoNotWrite, MarksKept
    <3>2. Sent' = Sent /\ Confirmed' = Confirmed
      BY <3>1
    <3> QED BY <2>0, <3>2 DEF Log!vars
  <2> QED BY <2>2, <2>3, <2>4
<1> QED BY <1>1, <1>2

\* The daily documents are a log from which nothing is lost and in which nothing is
\* taken back, as long as its writers take turns (mongo_manager.py).
THEOREM AtomicLogCorrect == Spec => ImplementsAtomicLog
<1>1. Init => DayInvariant /\ InTurn
  BY TypeInit DEF Init, DayInvariant, Keyed, ServerDoc, AgentDoc, OneDocumentADay, InTurn
<1>2. Init => Log!Init
  BY DEF Init, Log!Init, MarksOf, Matches
<1>3. DayInvariant /\ InTurn /\ [Next]_vars => DayInvariant' /\ InTurn'
  BY DayStep, InTurnStep
<1>4. DayInvariant /\ DayInvariant' /\ InTurn /\ [Next]_vars => [Log!Next]_(Log!vars)
  BY LogStep
<1> QED BY <1>1, <1>2, <1>3, <1>4, PTL DEF Spec, ImplementsAtomicLog, Log!Spec

-----------------------------------------------------------------------------
(* Confirmations *)

\* No step in turn takes a mark from a reading, or a confirmation.
LEMMA MarksGrow ==
  ASSUME DayInvariant, DayInvariant', InTurn, [Next]_vars, ~overlapped, NEW u \in Times
  PROVE  /\ MarksOf(u) # {} => MarksOf(u)' # {}
         /\ MarksOf(u) = {"received"} => MarksOf(u)' = {"received"}
<1>1. ASSUME NEW t \in Times, MarksChange(t)
      PROVE  /\ MarksOf(u) # {} => MarksOf(u)' # {}
             /\ MarksOf(u) = {"received"} => MarksOf(u)' = {"received"}
  BY <1>1 DEF MarksChange
<1>2. CASE ServerWrite
  BY <1>1, <1>2, ServerWriteInTurn DEF ServerWrite, DayInvariant, TypeOK
<1>3. CASE AgentWrite
  BY <1>1, <1>3, AgentWriteInTurn DEF AgentWrite, DayInvariant, TypeOK
<1>4. CASE ~ServerWrite /\ ~AgentWrite
  BY <1>4, OthersDoNotWrite, MarksKept
<1> QED BY <1>2, <1>3, <1>4

\* The three places a reading passes through, each a part of EntriesFirst.
PublishMarked == spc = "publish" => MarksOf(clock) # {}
QueueMarked ==
  \A f \in Facilities : \A k \in DOMAIN queue[f] : MarksOf(queue[f][k]) # {}
HandMarked ==
  /\ apc \in {"find", "write"} => MarksOf(msg) # {}
  /\ apc = "store" /\ DayOf[msg] \notin Short => MarksOf(msg) = {"received"}

LEMMA PublishMarkedStep ==
  ASSUME TurnsInvariant, DayInvariant', [Next]_vars, ~overlapped
  PROVE  PublishMarked'
<1>1. DayInvariant /\ InTurn /\ PublishMarked /\ TypeOK
  BY DEF TurnsInvariant, EntriesFirst, PublishMarked, DayInvariant
<1>2. CASE ServerWrite
  <2>1. clock \in Times /\ clock' = clock
    BY <1>1, <1>2 DEF ServerWrite, TypeOK
  <2>2. MarksChange(clock)
    BY <1>1, <1>2, ServerWriteInTurn
  <2>3. \A c \in Times : c = clock => MarksOf(c)' # {}
    BY <2>1, <2>2 DEF MarksChange
  <2> QED BY <2>1, <2>3 DEF PublishMarked
<1>3. CASE UNCHANGED server
  <2>1. spc' = "publish" => clock \in Times /\ MarksOf(clock) # {}
    BY <1>1, <1>3 DEF server, PublishMarked, TypeOK
  <2>2. \A c \in Times : MarksOf(c) # {} => MarksOf(c)' # {}
    BY <1>1, MarksGrow
  <2>3. clock' = clock
    BY <1>3 DEF server
  <2> QED BY <2>1, <2>2, <2>3 DEF PublishMarked
<1>4. CASE Packet \/ ServerFind \/ Publish \/ ServerFails
  BY <1>4 DEF Packet, ServerFind, Publish, ServerFails, PublishMarked
<1> QED BY <1>2, <1>3, <1>4
     DEF Next, ServerStep, AgentStep, Start, BindQueue, Take, AgentFind, AgentWrite,
         Store, Crash, vars

LEMMA QueueMarkedStep ==
  ASSUME TurnsInvariant, DayInvariant', [Next]_vars, ~overlapped
  PROVE  QueueMarked'
<1>1. DayInvariant /\ InTurn /\ PublishMarked /\ QueueMarked /\ TypeOK
  BY DEF TurnsInvariant, EntriesFirst, PublishMarked, QueueMarked, DayInvariant
<1>2. \A u \in Times : MarksOf(u) # {} => MarksOf(u)' # {}
  BY <1>1, MarksGrow
<1>3. \A f \in Facilities : queue[f] \in Seq(Times)
  BY <1>1 DEF TypeOK
<1>4. ASSUME NEW f \in Facilities, NEW k \in DOMAIN queue'[f]
      PROVE  queue'[f][k] \in Times /\ MarksOf(queue'[f][k]) # {}
  <2>1. CASE UNCHANGED queue
    BY <1>1, <1>3, <1>4, <2>1 DEF QueueMarked
  <2>2. CASE Publish
    <3>1. clock \in Times /\ MarksOf(clock) # {}
      BY <1>1, <2>2 DEF Publish, PublishMarked, TypeOK
    <3>2. queue'[f] = queue[f] \/ queue'[f] = Append(queue[f], clock)
      BY <2>2 DEF Publish
    <3>3. queue'[f][k] = clock \/ \E j \in DOMAIN queue[f] : queue'[f][k] = queue[f][j]
      BY <1>3, <1>4, <3>1, <3>2
    <3> QED BY <1>1, <1>3, <3>1, <3>3 DEF QueueMarked
  <2>3. CASE Take
    <3>1. PICK g \in Facilities : queue[g] # <<>> /\ queue' = [queue EXCEPT ![g] = Tail(@)]
      BY <2>3 DEF Take
    <3>2. queue'[f] = queue[f] \/ (queue[f] # <<>> /\ queue'[f] = Tail(queue[f]))
      BY <1>1, <3>1 DEF TypeOK
    <3>3. \E j \in DOMAIN queue[f] : queue'[f][k] = queue[f][j]
      <4>1. CASE queue'[f] = queue[f]
        BY <1>4, <4>1
      <4>2. CASE queue[f] # <<>> /\ queue'[f] = Tail(queue[f])
        <5>1. k \in 1..(Len(queue[f]) - 1) /\ DOMAIN queue[f] = 1..Len(queue[f])
              /\ Len(queue[f]) \in Nat
          BY <1>3, <1>4, <4>2
        <5>2. k + 1 \in DOMAIN queue[f] /\ queue'[f][k] = queue[f][k + 1]
          BY <1>3, <4>2, <5>1
        <5> QED BY <5>2
      <4> QED BY <3>2, <4>1, <4>2
    <3> QED BY <1>1, <1>3, <3>3 DEF QueueMarked
  <2>4. CASE Crash
    BY <1>4, <2>4 DEF Crash
  <2> QED BY <2>1, <2>2, <2>3, <2>4
       DEF Next, ServerStep, AgentStep, Packet, ServerFind, ServerWrite, ServerFails,
           Start, BindQueue, AgentFind, AgentWrite, Store, vars, broker
<1> QED BY <1>2, <1>4 DEF QueueMarked

LEMMA HandMarkedStep ==
  ASSUME TurnsInvariant, DayInvariant', [Next]_vars, ~overlapped
  PROVE  HandMarked'
<1>1. DayInvariant /\ InTurn /\ QueueMarked /\ HandMarked /\ TypeOK
  BY DEF TurnsInvariant, EntriesFirst, HandMarked, QueueMarked, DayInvariant
<1>2. \A u \in Times : /\ MarksOf(u) # {} => MarksOf(u)' # {}
                       /\ MarksOf(u) = {"received"} => MarksOf(u)' = {"received"}
  BY <1>1, MarksGrow
<1>3. CASE UNCHANGED <<apc, msg>>
  <2>1. apc \in {"find", "write", "store"} => msg \in Times
    BY <1>1 DEF TypeOK
  <2> QED BY <1>1, <1>2, <1>3, <2>1 DEF HandMarked
<1>4. CASE Take
  <2>1. msg' \in Times /\ MarksOf(msg') # {}
    <3>1. PICK g \in Facilities : queue[g] # <<>> /\ msg' = Head(queue[g])
      BY <1>4 DEF Take
    <3>2. queue[g] \in Seq(Times)
      BY <1>1 DEF TypeOK
    <3>3. msg' = queue[g][1] /\ 1 \in DOMAIN queue[g] /\ msg' \in Times
      BY <3>1, <3>2
    <3> QED BY <1>1, <3>3 DEF QueueMarked
  <2>2. Matches(DocKey(DayOf[msg'])) # {}
    BY <2>1 DEF MarksOf
  <2>3. DayOf[msg'] \notin Short => DayPart(DayOf[msg']) = DocKey(DayOf[msg'])
    BY DEF DayPart, DocKey
  <2>4. apc' = "store" => DayOf[msg'] \in Short
    BY <1>4, <2>2, <2>3 DEF Take
  <2>5. apc' \in {"find", "store"}
    BY <1>4 DEF Take
  <2> QED BY <1>2, <2>1, <2>4, <2>5 DEF HandMarked
<1>5. CASE AgentFind
  <2>1. msg \in Times /\ msg' = msg /\ apc' = "write" /\ MarksOf(msg) # {}
    BY <1>1, <1>5 DEF AgentFind, HandMarked, TypeOK
  <2> QED BY <1>2, <2>1 DEF HandMarked
<1>6. CASE AgentWrite
  <2>1. msg \in Times /\ msg' = msg /\ apc' = "store" /\ MarksOf(msg) # {}
    BY <1>1, <1>6 DEF AgentWrite, HandMarked, TypeOK
  <2>2. MarksChange(msg)
    BY <1>1, <1>6, AgentWriteInTurn
  <2>3. \A c \in Times : c = msg => MarksOf(c)' = {"received"}
    BY <2>1, <2>2 DEF MarksChange
  <2> QED BY <2>1, <2>3 DEF HandMarked
<1>7. CASE Start \/ BindQueue \/ Store \/ Crash
  BY <1>7 DEF Start, BindQueue, Store, Crash, HandMarked
<1> QED BY <1>3, <1>4, <1>5, <1>6, <1>7
     DEF Next, ServerStep, AgentStep, Packet, ServerFind, ServerWrite, Publish,
         ServerFails, vars, agent

LEMMA HandledStep ==
  ASSUME TurnsInvariant, DayInvariant', [Next]_vars, ~overlapped
  PROVE  HandledIsConfirmed'
<1>1. DayInvariant /\ InTurn /\ HandMarked /\ TypeOK
      /\ \A t \in handled : DayOf[t] \notin Short => MarksOf(t) = {"received"}
  BY DEF TurnsInvariant, EntriesFirst, HandMarked, HandledIsConfirmed, DayInvariant
<1>2. \A u \in Times : MarksOf(u) = {"received"} => MarksOf(u)' = {"received"}
  BY <1>1, MarksGrow
<1>3. ASSUME NEW t \in handled', DayOf[t] \notin Short
      PROVE  t \in Times /\ MarksOf(t) = {"received"}
  <2>1. CASE UNCHANGED handled
    BY <1>1, <1>3, <2>1 DEF TypeOK
  <2>2. CASE Store
    <3>1. handled' = handled \cup {msg} /\ apc = "store" /\ msg \in Times
      BY <1>1, <2>2 DEF Store, TypeOK
    <3>2. CASE t \in handled
      BY <1>1, <1>3, <3>2 DEF TypeOK
    <3>3. CASE t = msg
      BY <1>1, <1>3, <3>1, <3>3 DEF HandMarked
    <3> QED BY <1>3, <3>1, <3>2, <3>3
  <2> QED BY <2>1, <2>2
       DEF Next, ServerStep, AgentStep, Packet, ServerFind, ServerWrite, Publish,
           ServerFails, Start, BindQueue, Take, AgentFind, AgentWrite, Crash, vars, agent
<1> QED BY <1>2, <1>3 DEF HandledIsConfirmed

LEMMA TurnsStep == TurnsInvariant /\ [Next]_vars => TurnsInvariant'
<1> SUFFICES ASSUME TurnsInvariant, [Next]_vars PROVE TurnsInvariant'
  OBVIOUS
<1>1. DayInvariant' /\ InTurn'
  BY DayStep, InTurnStep DEF TurnsInvariant
<1>2. CASE overlapped
  BY <1>1, <1>2, OverlapStays DEF TurnsInvariant, EntriesFirst, HandledIsConfirmed
<1>3. CASE ~overlapped
  <2>1. PublishMarked' /\ QueueMarked' /\ HandMarked' /\ HandledIsConfirmed'
    BY <1>1, <1>3, PublishMarkedStep, QueueMarkedStep, HandMarkedStep, HandledStep
  <2> QED BY <1>1, <2>1
       DEF TurnsInvariant, EntriesFirst, PublishMarked, QueueMarked, HandMarked
<1> QED BY <1>2, <1>3

\* What the agent is done with is confirmed in the log, as long as the two processes
\* take turns and spell the day alike (callback_mqreceive, iiot_mqtt_agent.py).
THEOREM HandledCorrect == Spec => []HandledIsConfirmed
<1>1. Init => TurnsInvariant
  BY TypeInit DEF Init, TurnsInvariant, DayInvariant, Keyed, ServerDoc, AgentDoc,
                  OneDocumentADay, InTurn, EntriesFirst, HandledIsConfirmed
<1>2. TurnsInvariant => HandledIsConfirmed
  BY DEF TurnsInvariant
<1> QED BY <1>1, <1>2, TurnsStep, PTL DEF Spec
=============================================================================
