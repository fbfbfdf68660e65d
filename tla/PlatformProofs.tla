--------------------------- MODULE PlatformProofs ---------------------------
(***************************************************************************)
(* Lemmas about what consumer and job share: what the builders of messages *)
(* and events build, and what the writes do to log, queue, topic and       *)
(* emails.                                                                 *)
(***************************************************************************)
EXTENDS CommsPlatform, TLAPS

-----------------------------------------------------------------------------
(* What the builders of messages and events build. *)

LEMMA CorrelationType ==
  ASSUME NEW m \in Message
  PROVE  CorrelationOf(m) \in Uuids \cup {None}
BY DEF CorrelationOf, Message

LEMMA RetryMessageType ==
  ASSUME NEW m \in Message, NEW retryId \in Uuids \cup {None}
  PROVE  buildRetryMessage(m, retryId) \in Message
BY CorrelationType DEF buildRetryMessage, Message

LEMMA EventType ==
  ASSUME NEW m \in Message, NEW type \in publishedEvents,
         NEW status \in notifyStatuses \cup {None}
  PROVE  buildEvent(m, type, status) \in Event
BY CorrelationType DEF buildEvent, Event

LEMMA UpdateMessageType ==
  ASSUME NEW m \in Message, NEW status \in notifyStatuses
  PROVE  buildUpdateMessage(m, status) \in Event
<1>1. statusToEventMap[status] \in publishedEvents
  BY DEF statusToEventMap, publishedEvents, notifyStatuses
<1> QED
  BY <1>1, EventType DEF buildUpdateMessage

LEMMA ExpiredMessageType ==
  ASSUME NEW m \in Message
  PROVE  buildExpiredMessage(m) \in Event
BY EventType DEF buildExpiredMessage, publishedEvents

LEMMA ReceivedMessageType ==
  ASSUME NEW m \in Message
  PROVE  buildReceivedMessage(m) \in Event
BY EventType DEF buildReceivedMessage, publishedEvents

LEMMA InvalidMessageType ==
  ASSUME NEW m \in Message
  PROVE  buildInvalidMessage(m) \in Event
BY EventType DEF buildInvalidMessage, publishedEvents, notifyStatuses

-----------------------------------------------------------------------------
(* What the repository's writes do to the log: they keep its type, and no  *)
(* write takes a message out of it.                                        *)

Keeps(before, after) ==
  \A d \in before : \E e \in after : e.message = d.message

LEMMA AddKeeps ==
  ASSUME NEW m \in Message, docs \subseteq Doc, now \in Nat,
         addNotificationRequest(m, now)
  PROVE  /\ docs' \subseteq Doc
         /\ Keeps(docs, docs')
         /\ \E d \in docs' : d.message = m
<1>1. PICK uuid \in FreshUuids :
        docs' = docs \cup {[id |-> uuid, message |-> m, createdAt |-> now,
                            status |-> "pending-publish", notificationId |-> 0,
                            completed |-> FALSE]}
  BY DEF addNotificationRequest
<1> DEFINE doc == [id |-> uuid, message |-> m, createdAt |-> now,
                   status |-> "pending-publish", notificationId |-> 0,
                   completed |-> FALSE]
<1>2. uuid \in Uuids
  BY DEF FreshUuids
<1>3. doc \in Doc /\ doc.message = m
  BY <1>2 DEF Doc, notifyStatuses
<1>4. docs' = docs \cup {doc}
  BY <1>1
<1> HIDE DEF doc
<1> QED
  BY <1>3, <1>4 DEF Keeps

(* A document stays the same notification whatever its status becomes.     *)
SameNotification(d, e) ==
  e.id = d.id /\ e.message = d.message /\ e.createdAt = d.createdAt

Replaces(d, new) ==
  /\ d \in docs /\ new \in Doc
  /\ SameNotification(d, new)
  /\ docs' = (docs \ {d}) \cup {new}

(* What updateOne makes of document d. *)
Updates(d, new, status, notificationId) ==
  /\ Replaces(d, new)
  /\ new.status = status
  /\ new.notificationId =
       IF notificationId = 0 THEN d.notificationId ELSE notificationId

LEMMA UpdateWrites ==
  ASSUME NEW m, NEW status \in notifyStatuses,
         NEW notificationId \in Nat, docs \subseteq Doc,
         updateNotificationStatus(m, status, notificationId)
  PROVE  \/ Matching(docs, m.source, m.id) = {} /\ UNCHANGED docs
         \/ \E d \in Matching(docs, m.source, m.id), new \in Doc :
              Updates(d, new, status, notificationId)
<1> DEFINE n(d) == IF notificationId = 0 THEN d.notificationId
                                         ELSE notificationId
           c == status \in finishedStatus
           New(d) == [d EXCEPT !.status = status, !.notificationId = n(d),
                               !.completed = c]
<1>1. CASE \E d \in Matching(docs, m.source, m.id) :
             docs' = (docs \ {d}) \cup {New(d)}
  <2>1. PICK d \in Matching(docs, m.source, m.id) :
               docs' = (docs \ {d}) \cup {New(d)}
    BY <1>1
  <2>2. d \in docs /\ d \in Doc
    BY DEF Matching
  <2>3. n(d) \in Nat /\ c \in BOOLEAN
    BY <2>2 DEF Doc
  <2> HIDE DEF n, c
  <2>4. /\ New(d) \in Doc /\ SameNotification(d, New(d))
        /\ New(d).status = status /\ New(d).notificationId = n(d)
    BY <2>2, <2>3 DEF Doc, SameNotification
  <2> HIDE DEF New
  <2>5. Replaces(d, New(d))
    BY <2>1, <2>2, <2>4 DEF Replaces
  <2> QED
    BY <2>4, <2>5 DEF n, Updates
<1>2. CASE Matching(docs, m.source, m.id) = {} /\ UNCHANGED docs
  BY <1>2
<1> QED
  BY <1>1, <1>2 DEF updateNotificationStatus

LEMMA UpdateKeeps ==
  ASSUME NEW m, NEW status \in notifyStatuses,
         NEW notificationId \in Nat, docs \subseteq Doc,
         updateNotificationStatus(m, status, notificationId)
  PROVE  docs' \subseteq Doc /\ Keeps(docs, docs')
<1>1. UNCHANGED docs \/ \E d, new : Replaces(d, new)
  BY UpdateWrites DEF Updates
<1> QED
  BY <1>1 DEF Replaces, SameNotification, Keeps

LEMMA PublishType ==
  ASSUME NEW event \in Event, topic \in Seq(Event), Publish(event)
  PROVE  topic' \in Seq(Event)
BY DEF Publish

LEMMA AcceptEmailType ==
  ASSUME NEW m \in Message, emails \in Seq(Email), AcceptEmail(m)
  PROVE  emails' \in Seq(Email)
<1> DEFINE email == [message |-> m, reference |-> CorrelationOf(m),
                     status |-> "created"]
<1>1. email \in Email
  BY CorrelationType DEF Email, publishedStatus
<1>2. emails' = Append(emails, email)
  BY DEF AcceptEmail
<1> HIDE DEF email
<1> QED
  BY <1>1, <1>2

LEMMA PublishRetryType ==
  ASSUME NEW m \in Message, NEW retryId \in Uuids \cup {None},
         now \in Nat, queue \subseteq Entry, faulted \subseteq Message,
         publishRetryRequest(m, retryId)
  PROVE  queue' \subseteq Entry /\ faulted' \subseteq Message
<1>1. [message |-> buildRetryMessage(m, retryId), due |-> now + RetryDelay]
        \in Entry
  BY RetryMessageType, TypesAssumption DEF Entry, TypesAssumption
<1> QED
  BY <1>1 DEF publishRetryRequest, Fault
=============================================================================
