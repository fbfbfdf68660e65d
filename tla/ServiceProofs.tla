---------------------------- MODULE ServiceProofs -----------------------------
(***************************************************************************)
(* Theorems about the whole service, for every number of processes, of     *)
(* callbacks, of requests and of faults.  First: consumers and jobs over   *)
(* one log keep what each of them promises alone.  Then retries: where a   *)
(* message comes from, that a retry waits for its delay, that the emails   *)
(* of one request follow each other, each after the failure of the one     *)
(* before, and that they fit into the window that the first request opens. *)
(***************************************************************************)
EXTENDS CommsService, CommsRequestProofs, StatusCheckProofs, FiniteSetTheorems

-----------------------------------------------------------------------------
(* The steps.  The processes of ServiceLifetime take the same ones, and    *)
(* may find a message gone from the queue.                                 *)

ConsumerMoves(p) == ConsumerStep(p) /\ UNCHANGED <<mutex, job>>

RunMoves(p, r) == (CronTick(p, r) \/ RunStep(p, r)) /\ UNCHANGED consumer

(* A process loses its memory. *)
Ends(p) ==
  /\ consumer' = [consumer EXCEPT ![p] = Idle]
  /\ CrashJob(p)
  /\ faulted' = faulted \cup InHand(p) \cup
                (IF consumer[p].current = None THEN {} ELSE {Current(p)})
  /\ UNCHANGED <<docs, replica, queue, topic, emails, now>>

QueueShrinksOnly ==
  /\ queue' \subseteq queue
  /\ UNCHANGED <<docs, replica, topic, emails, now, faulted>>
  /\ UNCHANGED <<consumer, mutex, job>>

ServiceStep ==
  \/ \E p \in Processes : ConsumerMoves(p) \/ Ends(p)
  \/ \E p \in Processes, r \in Runs : RunMoves(p, r)
  \/ Environment
  \/ QueueShrinksOnly

LEMMA ServiceStepOfNext ==
  ASSUME [ServiceNext]_serviceVars
  PROVE  ServiceStep
<1>1. ASSUME NEW p \in Processes,
             ConsumerStep(p) /\ UNCHANGED <<mutex, job>>
      PROVE  ServiceStep
  BY <1>1 DEF ServiceStep, ConsumerMoves
<1>2. ASSUME NEW p \in Processes, JobStep(p) /\ UNCHANGED consumer
      PROVE  ServiceStep
  BY <1>2 DEF ServiceStep, RunMoves, JobStep
<1>3. ASSUME NEW p \in Processes, Crash(p)
      PROVE  ServiceStep
  BY <1>3 DEF ServiceStep, Ends, Crash
<1>4. CASE Environment
  BY <1>4 DEF ServiceStep
<1>5. CASE UNCHANGED serviceVars
  BY <1>5 DEF ServiceStep, QueueShrinksOnly, serviceVars, platform
<1> QED
  BY <1>1, <1>2, <1>3, <1>4, <1>5 DEF ServiceNext

-----------------------------------------------------------------------------
(* The invariant.  Whatever the job writes, it writes into documents that  *)
(* were sent, and the consumer into documents still to be sent: the        *)
(* notification id tells them apart.                                       *)

(* Document d says of its email what Notify said.                          *)
NoteOK(d) ==
  /\ d.status = "pending-publish" => d.notificationId = 0
  /\ d.notificationId = 0 =>
       d.status \in {"pending-publish", "internal-failure",
                     "technical-failure"}
  /\ d.notificationId # 0 =>
       /\ d.notificationId \in DOMAIN emails
       /\ emails[d.notificationId].message = d.message
       /\ d.status \in NotifyStatus
       /\ d.status \in notifyFinal =>
            emails[d.notificationId].status = d.status

(* From the insert until the outcome is recorded the document of the       *)
(* request a consumer has in hand is as the insert left it.                *)
Holds(p) ==
  consumer[p].pc \in PendingPlaces =>
    /\ \E d \in docs : /\ d.message = Current(p)
                       /\ d.status = "pending-publish"
    /\ Unsent(p) => NotEmailed(Current(p))
    /\ consumer[p].pc = "sent" =>
         /\ consumer[p].notificationId \in DOMAIN emails
         /\ emails[consumer[p].notificationId].message = Current(p)

OneHolder ==
  \A p, q \in Processes :
    /\ consumer[p].pc \in PendingPlaces /\ consumer[q].pc \in PendingPlaces
    /\ SameKey(Current(p), Current(q))
    => p = q

OneId == \A d, e \in docs : d.id = e.id => d = e

EmailsLogged == \A i \in DOMAIN emails : \E d \in docs :
                  d.message = emails[i].message

PipelineInv ==
  /\ \A p \in Processes : Checked(p)
  /\ \A p \in Processes : Holds(p)
  /\ OneHolder
  /\ OneDocument
  /\ OneId
  /\ EmailsLogged
  /\ AtMostOneEmail
  /\ \A d \in docs : Accounted(d)

NotesOK == \A d \in docs : NoteOK(d)

LogInv ==
  RequestTypeOK /\ JobInv /\ NotesOK /\ PipelineInv /\ InsertsFresh

-----------------------------------------------------------------------------
(* What a step of a consumer does to log and emails.                       *)

Rests(p) ==
  /\ UNCHANGED <<docs, emails>>
  /\ consumer'[p].pc \in PendingPlaces =>
       /\ consumer[p].pc \in PendingPlaces
       /\ Current(p)' = Current(p)
       /\ Unsent(p)' => Unsent(p)
       /\ consumer'[p].pc # "sent"
  /\ consumer[p].pc \in PendingPlaces =>
       consumer'[p].pc \in PendingPlaces \/ Current(p) \in faulted'

Inserted(doc, m) ==
  /\ doc \in Doc /\ doc.id \in FreshUuids
  /\ doc.message = m /\ doc.createdAt = now
  /\ doc.status = "pending-publish" /\ doc.notificationId = 0
  /\ docs' = docs \cup {doc}

Inserts(p) ==
  /\ consumer[p].pc = "insert"
  /\ \A d \in docs : ~SameKey(d.message, Current(p))
  /\ \E doc : Inserted(doc, Current(p))
  /\ UNCHANGED emails
  /\ \/ consumer'[p].pc = "received" /\ Current(p)' = Current(p)
     \/ consumer'[p].pc = "next" /\ Current(p) \in faulted'

Accepts(p) ==
  /\ consumer[p].pc = "send"
  /\ UNCHANGED docs
  /\ AcceptEmail(Current(p))
  /\ \/ /\ Current(p)' = Current(p)
        /\ \/ /\ consumer'[p].pc = "sent"
              /\ consumer'[p].notificationId = Len(emails) + 1
           \/ consumer'[p].pc = "failed" /\ ~Unsent(p)'
     \/ consumer'[p].pc = "next" /\ Current(p) \in faulted'

(* The outcome of sendEmail is in the log. *)
Settled(p, d, new) ==
  \/ /\ consumer[p].pc = "sent"
     /\ Updates(d, new, "sending", consumer[p].notificationId)
  \/ /\ consumer[p].pc = "failed"
     /\ Updates(d, new, consumer[p].failure, 0)

Settles(p) ==
  /\ consumer'[p].pc \in {"sending", "failure", "next"}
  /\ UNCHANGED emails
  /\ \E d \in docs, new \in Doc : d.message = Current(p) /\ Settled(p, d, new)

LEMMA InsertWrites ==
  ASSUME RequestTypeOK, NEW m \in Message, addNotificationRequest(m, now)
  PROVE  \E doc : Inserted(doc, m)
<1>1. PICK uuid \in FreshUuids :
        docs' = docs \cup {[id |-> uuid, message |-> m, createdAt |-> now,
                            status |-> "pending-publish", notificationId |-> 0,
                            completed |-> FALSE]}
  BY DEF addNotificationRequest
<1> DEFINE doc == [id |-> uuid, message |-> m, createdAt |-> now,
                   status |-> "pending-publish", notificationId |-> 0,
                   completed |-> FALSE]
<1>2. uuid \in Uuids /\ now \in Nat
  BY DEF FreshUuids, RequestTypeOK, PlatformTypeOK
<1>3. /\ doc \in Doc /\ doc.id = uuid /\ doc.message = m
      /\ doc.createdAt = now
      /\ doc.status = "pending-publish" /\ doc.notificationId = 0
  BY <1>2 DEF Doc, notifyStatuses
<1>4. docs' = docs \cup {doc}
  BY <1>1
<1> HIDE DEF doc
<1> QED
  BY <1>3, <1>4 DEF Inserted

LEMMA ConsumerEffect ==
  ASSUME InsertsFresh, RequestTypeOK, OneDocument, NEW p \in Processes,
         Checked(p), Holds(p), ConsumerStep(p)
  PROVE  /\ Others(p) /\ Checked(p)' /\ faulted \subseteq faulted'
         /\ UNCHANGED <<replica, now>>
         /\ Rests(p) \/ Inserts(p) \/ Accepts(p) \/ Settles(p)
<1>0. /\ consumer[p] \in ConsumerState
      /\ consumer[p].pc \notin {"idle", "next"} =>
           consumer[p].current \in Entry /\ Current(p) \in Message
      /\ UNCHANGED <<replica, now>>
  BY DEF RequestTypeOK, Current, Entry, ConsumerStep, Poll, NextMessage,
         DeleteBatch, PublishInvalidRequest, CheckIdempotency, AddRequest,
         PublishReceived, SendEmail, RecordSending, RecordFailure, Record,
         PublishSending, PublishFailure, RetryFailure, platform
<1>a. ASSUME Complete(p)
      PROVE  /\ Others(p) /\ Checked(p)'
             /\ consumer'[p].pc = "next"
  BY <1>a DEF Complete, Idle, Others, Checked, RequestTypeOK, ConsumerState
<1> USE DEF PendingPlaces
<1>1. CASE Poll(p)
  <2>1. /\ Others(p) /\ Checked(p)' /\ consumer'[p].pc = "next"
        /\ consumer[p].pc = "idle"
    BY <1>1, <1>0 DEF Poll, At, Others, Checked, ConsumerState, RequestTypeOK
  <2> QED
    BY <1>0, <1>1, <2>1 DEF Poll, platform, Rests
<1>2. CASE NextMessage(p)
  <2>1. PICK e \in consumer[p].batch :
          LET m == e.message
              processed == m.body # "unparseable" /\ m.type \in processorMap
          IN consumer' = [consumer EXCEPT
               ![p].batch = @ \ {e},
               ![p].current = IF processed THEN e ELSE None,
               ![p].completed = IF processed THEN @ ELSE @ \cup {e},
               ![p].pc = IF ~processed THEN "next"
                         ELSE IF v1(m) THEN "check" ELSE "invalid"]
    BY <1>2 DEF NextMessage
  <2>2. /\ Others(p) /\ Checked(p)'
        /\ consumer'[p].pc \in {"next", "check", "invalid"}
        /\ consumer[p].pc = "next"
    BY <1>2, <2>1, <1>0
    DEF NextMessage, At, Others, Checked, Current, ConsumerState, RequestTypeOK
  <2> QED
    BY <1>0, <1>2, <2>2 DEF NextMessage, platform, Rests
<1>3. CASE DeleteBatch(p)
  BY <1>3, <1>0
  DEF DeleteBatch, Idle, Others, Checked, At, RequestTypeOK, Rests
<1>4. CASE PublishInvalidRequest(p)
  BY <1>4, <1>0, <1>a DEF PublishInvalidRequest, At, Rests
<1>5. CASE CheckIdempotency(p)
  <2>1. Complete(p) \/ Goto(p, "insert")
    BY <1>5 DEF CheckIdempotency
  <2>2. Others(p) /\ Checked(p)' /\ consumer'[p].pc \in {"next", "insert"}
    BY <1>5, <2>1, <1>a, GotoKeeps DEF Checked, CheckIdempotency, At
  <2> QED
    BY <1>5, <1>0, <2>2 DEF CheckIdempotency, At, Fault, Rests
<1>6. CASE AddRequest(p)
  <2>1. consumer[p].pc = "insert" /\ UNCHANGED emails /\ faulted \subseteq faulted'
    BY <1>6 DEF AddRequest, At, Fault
  <2>2. /\ Others(p) /\ Checked(p)'
        /\ \/ consumer'[p].pc = "received" /\ Current(p)' = Current(p)
           \/ consumer'[p].pc = "next"
    <3>1. Complete(p) \/ Goto(p, "received")
      BY <1>6 DEF AddRequest
    <3> QED
      BY <2>1, <3>1, <1>a, GotoKeeps DEF Checked
  <2>3. CASE UNCHANGED docs /\ Complete(p)
    BY <1>0, <1>a, <2>1, <2>2, <2>3 DEF Rests
  <2>4. CASE ~DuplicateKey(Current(p)) /\ addNotificationRequest(Current(p), now)
    <3>1. \A d \in docs : ~SameKey(d.message, Current(p))
      BY <1>6, <2>4 DEF AddRequest, At, InsertsFresh
    <3>2. \E doc : Inserted(doc, Current(p))
      BY <1>0, <2>1, <2>4, InsertWrites
    <3>3. Goto(p, "received") \/ (Fault(Current(p)) /\ Complete(p))
      BY <1>6, <2>4 DEF AddRequest
    <3>4. \/ consumer'[p].pc = "received" /\ Current(p)' = Current(p)
          \/ consumer'[p].pc = "next" /\ Current(p) \in faulted'
      BY <3>3, <1>a, GotoKeeps DEF Fault
    <3> QED
      BY <1>0, <2>1, <2>2, <3>1, <3>2, <3>4 DEF Inserts
  <2> QED
    BY <1>6, <2>3, <2>4 DEF AddRequest
<1>7. CASE PublishReceived(p)
  <2>1. /\ Others(p) /\ consumer'[p].pc = "send" /\ Current(p)' = Current(p)
        /\ consumer[p].pc = "received"
    BY <1>7, GotoKeeps DEF PublishReceived, At
  <2> QED
    BY <1>7, <1>0, <2>1 DEF PublishReceived, Checked, Unsent, Rests
<1>8. CASE SendEmail(p)
  <2>1. /\ Others(p) /\ UNCHANGED docs /\ faulted \subseteq faulted'
        /\ consumer[p].pc = "send"
    BY <1>8, SendEmailPlaces DEF SendEmail, At
  <2>2. \/ consumer'[p].pc = "next" /\ Current(p) \in faulted' /\ Checked(p)'
        \/ /\ Current(p)' = Current(p) /\ Checked(p)'
           /\ consumer'[p].pc = "sent"
           /\ consumer'[p].notificationId = Len(emails) + 1
           /\ AcceptEmail(Current(p))
        \/ /\ Current(p)' = Current(p) /\ Checked(p)'
           /\ consumer'[p].pc = "failed"
           /\ ~Unsent(p)' \/ UNCHANGED emails
    <3>1. CASE Complete(p) /\ Fault(Current(p))
      BY <1>a, <3>1 DEF Fault
    <3>2. CASE /\ AcceptEmail(Current(p))
               /\ consumer' = [consumer EXCEPT ![p].pc = "sent",
                                          ![p].notificationId = Len(emails) + 1]
      <4>1. /\ consumer'[p].pc = "sent"
            /\ consumer'[p].notificationId = Len(emails) + 1
            /\ Current(p)' = Current(p)
        BY <3>2, <1>0 DEF RequestTypeOK, ConsumerState, Current
      <4> QED
        BY <2>1, <3>2, <4>1 DEF Checked
    <3>3. ASSUME NEW status,
                 consumer' = [consumer EXCEPT ![p].pc = "failed",
                                              ![p].failure = status],
                 status = "technical-failure" \/ UNCHANGED emails
          PROVE  /\ Current(p)' = Current(p) /\ Checked(p)'
                 /\ consumer'[p].pc = "failed"
                 /\ ~Unsent(p)' \/ UNCHANGED emails
      <4>1. /\ consumer'[p].pc = "failed" /\ Current(p)' = Current(p)
            /\ consumer'[p].failure = status
        BY <3>3, <1>0 DEF RequestTypeOK, ConsumerState, Current
      <4> QED
        BY <2>1, <3>3, <4>1 DEF Checked, Unsent
    <3> QED
      BY <1>8, <3>1, <3>2, <3>3 DEF SendEmail
  <2>3. AcceptEmail(Current(p)) \/ UNCHANGED emails
    BY <1>8, SendEmailPlaces
  <2>4. CASE UNCHANGED emails /\ consumer'[p].pc # "sent"
    BY <1>0, <2>1, <2>2, <2>4 DEF Rests, Unsent
  <2>5. CASE AcceptEmail(Current(p))
    <3>1. ~UNCHANGED emails
      BY <2>5 DEF AcceptEmail, RequestTypeOK, PlatformTypeOK
    <3> QED
      BY <1>0, <2>1, <2>2, <2>5, <3>1 DEF Accepts
  <2> QED
    BY <2>2, <2>3, <2>4, <2>5
<1>9. CASE RecordSending(p) \/ RecordFailure(p)
  <2>1. PICK status, notificationId, label :
          /\ Record(p, status, notificationId, label)
          /\ \/ /\ consumer[p].pc = "sent" /\ label = "sending"
                /\ status = "sending"
                /\ notificationId = consumer[p].notificationId
             \/ /\ consumer[p].pc = "failed" /\ label = "failure"
                /\ status = consumer[p].failure
                /\ notificationId = 0
    BY <1>9 DEF RecordSending, RecordFailure, At
  <2>2. status \in notifyStatuses /\ notificationId \in Nat
    BY <1>0, <2>1 DEF RequestTypeOK, ConsumerState, notifyStatuses
  <2>3. /\ Others(p) /\ consumer'[p].pc \in {"sending", "failure", "next"}
        /\ Checked(p)'
        /\ UNCHANGED emails /\ faulted \subseteq faulted'
    <3>1. Complete(p) \/ Goto(p, label)
      BY <2>1 DEF Record
    <3> QED
      BY <2>1, <3>1, <1>a, GotoKeeps DEF Checked, Record, Fault
  <2>4. CASE UNCHANGED docs /\ Fault(Current(p))
    BY <1>0, <2>3, <2>4 DEF Rests, Fault
  <2>5. CASE updateNotificationStatus(Current(p), status, notificationId)
    <3>1. PICK d \in docs : d.message = Current(p)
      BY <2>1 DEF Holds
    <3>2. PICK new \in Doc : Updates(d, new, status, notificationId)
      BY <2>2, <2>5, <3>1, UpdateReplaces
    <3> QED
      BY <1>0, <2>1, <2>3, <3>1, <3>2 DEF Settles, Settled
  <2> QED
    BY <2>1, <2>4, <2>5 DEF Record
<1>10. CASE PublishSending(p)
  BY <1>10, <1>0, <1>a DEF PublishSending, At, Rests
<1>11. CASE PublishFailure(p)
  <2>1. Complete(p) \/ Goto(p, "retry")
    BY <1>11 DEF PublishFailure
  <2>2. Others(p) /\ Checked(p)' /\ consumer'[p].pc \in {"next", "retry"}
    BY <1>11, <2>1, <1>a, GotoKeeps DEF Checked, PublishFailure, At
  <2> QED
    BY <1>11, <1>0, <2>2 DEF PublishFailure, At, Rests
<1>12. CASE RetryFailure(p)
  BY <1>12, <1>0, <1>a DEF RetryFailure, publishRetryRequest, At, Rests, Fault
<1> QED
  BY <1>1, <1>2, <1>3, <1>4, <1>5, <1>6, <1>7, <1>8, <1>9, <1>10, <1>11,
     <1>12 DEF ConsumerStep

-----------------------------------------------------------------------------
(* What every one of these steps leaves of log and emails.                 *)

LEMMA SameLogKept ==
  ASSUME UNCHANGED docs
  PROVE  LogKept
BY DEF LogKept, SameNotification

LEMMA SameEmailsKept ==
  ASSUME UNCHANGED emails
  PROVE  EmailsKept
BY DEF EmailsKept

LEMMA ReplacesKept ==
  ASSUME NEW d, NEW new, Replaces(d, new),
         new.notificationId = d.notificationId
           \/ d.notificationId \notin DOMAIN emails
  PROVE  LogKept
BY DEF LogKept, Replaces, SameNotification

LEMMA AcceptKept ==
  ASSUME PlatformTypeOK, NEW m, AcceptEmail(m)
  PROVE  /\ EmailsKept
         /\ Len(emails) + 1 \in DOMAIN emails'
         /\ emails'[Len(emails) + 1].message = m
         /\ \A i \in DOMAIN emails' : i \in DOMAIN emails \/ i = Len(emails) + 1
BY DEF AcceptEmail, EmailsKept, PlatformTypeOK

(* What a consumer updates was not sent before, as far as the log knows.   *)
LEMMA SettlesUnsent ==
  ASSUME PlatformTypeOK, NotesOK, NEW p, Holds(p), NEW d \in docs, NEW new,
         OneDocument,
         d.message = Current(p), Settled(p, d, new)
  PROVE  /\ Replaces(d, new)
         /\ d.status = "pending-publish" /\ d.notificationId = 0
         /\ 0 \notin DOMAIN emails
         /\ new.message = Current(p)
         /\ \/ /\ consumer[p].pc = "sent" /\ new.status = "sending"
               /\ new.notificationId = consumer[p].notificationId
            \/ /\ consumer[p].pc = "failed" /\ new.notificationId = 0
               /\ new.status = consumer[p].failure
<1>1. consumer[p].pc \in {"sent", "failed"} /\ Replaces(d, new)
  BY DEF Settled, Updates
<1>2. PICK e \in docs : e.message = Current(p) /\ e.status = "pending-publish"
  BY <1>1 DEF Holds, PendingPlaces
<1>3. e = d
  BY <1>2 DEF OneDocument, SameKey
<1>4. d.notificationId = 0 /\ 0 \notin DOMAIN emails
  BY <1>2, <1>3 DEF NotesOK, NoteOK, PlatformTypeOK
<1>5. new.message = Current(p)
  BY <1>1 DEF Replaces, SameNotification
<1>6. CASE consumer[p].pc = "failed"
  <2>1. Updates(d, new, consumer[p].failure, 0)
    BY <1>6 DEF Settled
  <2> QED
    BY <1>1, <1>2, <1>3, <1>4, <1>5, <1>6, <2>1 DEF Updates
<1>7. CASE consumer[p].pc = "sent"
  <2>1. Updates(d, new, "sending", consumer[p].notificationId)
    BY <1>7 DEF Settled
  <2>2. new.notificationId = consumer[p].notificationId
    BY <1>4, <2>1 DEF Updates
  <2> QED
    BY <1>1, <1>2, <1>3, <1>4, <1>5, <1>7, <2>1, <2>2 DEF Updates
<1> QED
  BY <1>1, <1>6, <1>7

LEMMA ConsumerKept ==
  ASSUME PlatformTypeOK, NotesOK, OneDocument, NEW p, Holds(p),
         Rests(p) \/ Inserts(p) \/ Accepts(p) \/ Settles(p)
  PROVE  LogKept /\ EmailsKept
<1>1. CASE Rests(p)
  BY <1>1, SameLogKept, SameEmailsKept DEF Rests
<1>2. CASE Inserts(p)
  <2>1. docs \subseteq docs'
    BY <1>2 DEF Inserts, Inserted
  <2>2. LogKept
    BY <2>1 DEF LogKept, SameNotification
  <2> QED
    BY <1>2, <2>2, SameEmailsKept DEF Inserts
<1>3. CASE Accepts(p)
  BY <1>3, SameLogKept, AcceptKept DEF Accepts
<1>4. CASE Settles(p)
  <2>1. PICK d \in docs, new \in Doc :
          d.message = Current(p) /\ Settled(p, d, new)
    BY <1>4 DEF Settles
  <2>2. LogKept
    BY <2>1, SettlesUnsent, ReplacesKept
  <2> QED
    BY <1>4, <2>2, SameEmailsKept DEF Settles
<1> QED
  BY <1>1, <1>2, <1>3, <1>4

(* The document a run updates is that of the notification it looks at,     *)
(* which was sent: no consumer is waiting for it.                          *)
LEMMA RunUpdatesTied ==
  ASSUME JobInv, NotesOK, OneDocument, NEW p \in Processes, NEW r \in Runs,
         RunWrites(p, r), docs' # docs
  PROVE  \E d \in docs, new \in Doc :
           /\ Replaces(d, new)
           /\ SameNotification(Notification(p, r), d)
           /\ d.notificationId # 0
           /\ d.status # "pending-publish"
           /\ d.notificationId \in DOMAIN emails
           /\ d.notificationId = Notification(p, r).notificationId
           /\ new.notificationId = d.notificationId
           /\ job[p][r].pc = "record"
           /\ new.status = job[p][r].status
           /\ new.status \in NotifyStatus
           /\ new.status \in notifyFinal =>
                emails[d.notificationId].status = new.status
<1> DEFINE c == job[p][r]
           n == Notification(p, r)
<1>1. PICK d \in docs, new \in Doc :
        /\ c.pc = "record"
        /\ Updates(d, new, c.status, 0)
        /\ SameKey(d.message, n.message)
  BY DEF RunWrites, RunAt
<1>2. /\ Tied(n) /\ c.status \in NotifyStatus
      /\ c.status \in notifyFinal => emails[n.notificationId].status = c.status
  <2>1. RunOK(c)
    BY DEF JobInv
  <2> QED
    BY <1>1, <2>1 DEF RunOK, Notification
<1>3. PICK e \in docs : /\ SameNotification(n, e)
                        /\ e.notificationId = n.notificationId
  BY <1>2 DEF Tied
<1>4. e = d
  BY <1>1, <1>3 DEF OneDocument, SameKey, SameNotification
<1>5. d.notificationId \in DOMAIN emails /\ 0 \notin DOMAIN emails
  BY <1>2, <1>3, <1>4 DEF Tied, JobInv, PlatformTypeOK
<1>6. d.status # "pending-publish"
  BY <1>5 DEF NotesOK, NoteOK
<1>7. /\ Replaces(d, new) /\ new.notificationId = d.notificationId
      /\ new.status = c.status
  BY <1>1 DEF Updates
<1> HIDE DEF c, n
<1> QED
  BY <1>1, <1>2, <1>3, <1>4, <1>5, <1>6, <1>7 DEF c, n

-----------------------------------------------------------------------------
(* The documents: what they say of their emails stays true.                *)

LEMMA NoteKept ==
  ASSUME EmailsKept, NEW d, NoteOK(d)
  PROVE  NoteOK(d)'
BY DEF NoteOK, EmailsKept

LEMMA ConsumerNotes ==
  ASSUME PlatformTypeOK, NotesOK, OneDocument, NEW p, Holds(p),
         RequestTypeOK, p \in Processes,
         Rests(p) \/ Inserts(p) \/ Accepts(p) \/ Settles(p)
  PROVE  NotesOK'
<1>1. EmailsKept
  BY ConsumerKept
<1>2. \A d \in docs : NoteOK(d)'
  BY <1>1, NoteKept DEF NotesOK
<1>3. CASE UNCHANGED docs
  BY <1>2, <1>3 DEF NotesOK
<1>4. CASE Inserts(p)
  <2>1. PICK doc : Inserted(doc, Current(p))
    BY <1>4 DEF Inserts
  <2>2. NoteOK(doc)'
    BY <2>1 DEF Inserted, NoteOK
  <2> QED
    BY <1>2, <2>1, <2>2 DEF Inserted, NotesOK
<1>5. CASE Settles(p)
  <2>1. PICK d \in docs, new \in Doc :
          d.message = Current(p) /\ Settled(p, d, new)
    BY <1>5 DEF Settles
  <2>2. /\ Replaces(d, new) /\ 0 \notin DOMAIN emails
        /\ new.message = Current(p)
        /\ \/ /\ consumer[p].pc = "sent" /\ new.status = "sending"
              /\ new.notificationId = consumer[p].notificationId
           \/ /\ consumer[p].pc = "failed" /\ new.notificationId = 0
              /\ new.status = consumer[p].failure
    BY <2>1, SettlesUnsent
  <2>3. consumer[p].pc = "failed" =>
          consumer[p].failure \in {"internal-failure", "technical-failure"}
    BY DEF RequestTypeOK, ConsumerState
  <2>4. ASSUME consumer[p].pc = "sent"
        PROVE  /\ new.notificationId \in DOMAIN emails
               /\ emails[new.notificationId].message = new.message
    BY <2>2, <2>4 DEF Holds, PendingPlaces
  <2>5. NoteOK(new)
    BY <2>2, <2>3, <2>4
    DEF NoteOK, NotifyStatus, publishedStatus, notifyFinal
  <2>6. NoteOK(new)'
    BY <1>1, <2>5, NoteKept
  <2> QED
    BY <1>2, <2>2, <2>6 DEF Replaces, NotesOK
<1> QED
  BY <1>3, <1>4, <1>5 DEF Rests, Accepts

LEMMA RunNotes ==
  ASSUME JobInv, NotesOK, OneDocument, NEW p \in Processes, NEW r \in Runs,
         RunWrites(p, r), UNCHANGED emails
  PROVE  NotesOK'
<1>1. \A d \in docs : NoteOK(d)'
  BY SameEmailsKept, NoteKept DEF NotesOK
<1>2. CASE docs' # docs
  <2>1. PICK d \in docs, new \in Doc :
          /\ Replaces(d, new)
          /\ d.notificationId # 0
          /\ d.notificationId \in DOMAIN emails
          /\ new.notificationId = d.notificationId
          /\ new.status \in NotifyStatus
          /\ new.status \in notifyFinal =>
               emails[d.notificationId].status = new.status
    BY <1>2, RunUpdatesTied
  <2>2. emails[d.notificationId].message = d.message
    BY <2>1 DEF NotesOK, NoteOK
  <2>3. new.message = d.message
    BY <2>1 DEF Replaces, SameNotification
  <2>4. new.status # "pending-publish"
    BY <2>1 DEF NotifyStatus, publishedStatus, notifyFinal
  <2>5. NoteOK(new)
    BY <2>1, <2>2, <2>3, <2>4 DEF NoteOK
  <2> QED
    BY <1>1, <2>1, <2>5, SameEmailsKept, NoteKept DEF Replaces, NotesOK
<1> QED
  BY <1>1, <1>2 DEF NotesOK

-----------------------------------------------------------------------------
(* The job, whatever moved: documents in progress are tied to their email. *)

LEMMA JobInvKept ==
  ASSUME JobInv, LogKept, EmailsKept, PlatformTypeOK', NotesOK',
         0 \notin DOMAIN emails',
         replica' \subseteq replica \cup docs',
         mutex' \in [Processes -> BOOLEAN],
         job' \in [Processes -> [Runs -> RunState]],
         \A q \in Processes, s \in Runs :
           job'[q][s] = job[q][s] \/ RunOK(job'[q][s])
  PROVE  JobInv'
<1>1. \A q \in Processes, s \in Runs : RunOK(job[q][s])'
  BY RunsKept
<1>2. ASSUME NEW d \in docs', d.status \in publishedStatus
      PROVE  Tied(d)'
  <2>1. NoteOK(d)'
    BY DEF NotesOK
  <2>2. d.status \notin {"pending-publish", "internal-failure",
                         "technical-failure"}
    BY <1>2 DEF publishedStatus
  <2>3. d.notificationId # 0
    BY <2>1, <2>2 DEF NoteOK
  <2> QED
    BY <2>1, <2>3 DEF NoteOK, Tied, SameNotification
<1>3. ASSUME NEW d \in replica, d.status \in publishedStatus
      PROVE  Tied(d)'
  BY <1>3, TiedKept DEF JobInv
<1>4. \A d \in (docs \cup replica)' : d.status \in publishedStatus => Tied(d)'
  BY <1>2, <1>3
<1> QED
  BY <1>1, <1>4 DEF JobInv

-----------------------------------------------------------------------------
(* The consumers: one holds a request, and one document, one id and one    *)
(* email stand for it.                                                     *)

LEMMA HoldsKept ==
  ASSUME NEW q, Holds(q), consumer'[q] = consumer[q], EmailsKept,
         \A d \in docs : /\ d.message = Current(q)
                         /\ d.status = "pending-publish"
                         => d \in docs',
         consumer[q].pc \in PendingPlaces /\ NotEmailed(Current(q)) =>
           NotEmailed(Current(q))'
  PROVE  Holds(q)'
<1>1. Current(q)' = Current(q) /\ (Unsent(q)' <=> Unsent(q))
  BY DEF Current, Unsent
<1> QED
  BY <1>1 DEF Holds, EmailsKept

LEMMA AccountedKept ==
  ASSUME NEW p \in Processes, Others(p), faulted \subseteq faulted',
         NEW d, Accounted(d),
         consumer[p].pc \in PendingPlaces /\ SameKey(d.message, Current(p)) =>
           Accounted(d)'
  PROVE  Accounted(d)'
<1>1. CASE d.status # "pending-publish"
           \/ \E m \in faulted : SameKey(d.message, m)
  BY <1>1 DEF Accounted, SameKey
<1>2. ASSUME NEW q \in Processes, consumer[q].pc \in PendingPlaces,
             SameKey(d.message, Current(q)), q # p
      PROVE  Accounted(d)'
  <2>1. consumer'[q] = consumer[q]
    BY <1>2 DEF Others
  <2> QED
    BY <1>2, <2>1 DEF Accounted, Current, SameKey
<1> QED
  BY <1>1, <1>2 DEF Accounted

(* What does not depend on the kind of the step.                           *)
LEMMA PipelineFrame ==
  ASSUME PipelineInv, NEW p \in Processes, Others(p), Checked(p)',
         Holds(p)', \A q \in Processes \ {p} : Holds(q)',
         consumer'[p].pc \in PendingPlaces =>
           /\ Current(p)' = Current(p)
           /\ \A q \in Processes \ {p} : consumer[q].pc \in PendingPlaces =>
                ~SameKey(Current(p), Current(q))
  PROVE  /\ \A q \in Processes : Checked(q)'
         /\ \A q \in Processes : Holds(q)'
         /\ OneHolder'
<1>1. \A q \in Processes : Checked(q)'
  BY DEF PipelineInv, Checked, Others, Current
<1>2. ASSUME NEW q \in Processes, NEW s \in Processes,
             consumer'[q].pc \in PendingPlaces,
             consumer'[s].pc \in PendingPlaces,
             SameKey(Current(q)', Current(s)')
      PROVE  q = s
  <2>1. CASE q # p /\ s # p
    BY <1>2, <2>1 DEF PipelineInv, OneHolder, Others, Current, SameKey
  <2>2. CASE q # p /\ s = p
    <3>1. consumer'[q] = consumer[q] /\ Current(q)' = Current(q)
      BY <2>2 DEF Others, Current
    <3> QED
      BY <1>2, <2>2, <3>1 DEF SameKey
  <2>3. CASE q = p /\ s # p
    <3>1. consumer'[s] = consumer[s] /\ Current(s)' = Current(s)
      BY <2>3 DEF Others, Current
    <3> QED
      BY <1>2, <2>3, <3>1 DEF SameKey
  <2> QED
    BY <2>1, <2>2, <2>3
<1>3. OneHolder'
  BY <1>2 DEF OneHolder, SameKey
<1> QED
  BY <1>1, <1>3

LEMMA PipelineRests ==
  ASSUME PipelineInv, NEW p \in Processes, Others(p), Checked(p)',
         faulted \subseteq faulted', Rests(p)
  PROVE  PipelineInv'
<1> USE DEF Rests
<1>1. \A q \in Processes \ {p} : Holds(q)'
  BY HoldsKept, SameEmailsKept DEF PipelineInv, Others, NotEmailed, Current
<1>2. Holds(p)'
  BY DEF PipelineInv, Holds, NotEmailed
<1>3. /\ \A q \in Processes : Checked(q)'
      /\ \A q \in Processes : Holds(q)'
      /\ OneHolder'
  BY <1>1, <1>2, PipelineFrame DEF PipelineInv, OneHolder
<1>4. OneDocument' /\ OneId' /\ EmailsLogged' /\ AtMostOneEmail'
  BY DEF PipelineInv, OneDocument, OneId, EmailsLogged, AtMostOneEmail, SameKey
<1>5. ASSUME NEW d \in docs'
      PROVE  Accounted(d)'
  <2>1. consumer[p].pc \in PendingPlaces /\ SameKey(d.message, Current(p)) =>
           Accounted(d)'
    BY DEF Accounted, SameKey
  <2> QED
    BY <2>1, AccountedKept DEF PipelineInv
<1> QED
  BY <1>3, <1>4, <1>5 DEF PipelineInv

LEMMA PipelineInserts ==
  ASSUME PipelineInv, NEW p \in Processes, Others(p), Checked(p)',
         faulted \subseteq faulted', Inserts(p)
  PROVE  PipelineInv'
<1>1. PICK doc : Inserted(doc, Current(p))
  BY DEF Inserts
<1>2. /\ docs' = docs \cup {doc} /\ doc.message = Current(p)
      /\ doc.status = "pending-publish"
      /\ \A d \in docs : ~SameKey(d.message, Current(p)) /\ d.id # doc.id
      /\ UNCHANGED emails
  BY <1>1 DEF Inserted, Inserts, FreshUuids
<1>3. NotEmailed(Current(p))
  BY <1>2 DEF NotEmailed, PipelineInv, EmailsLogged
<1>4. \A q \in Processes \ {p} : Holds(q)'
  BY <1>2, HoldsKept, SameEmailsKept
  DEF PipelineInv, Others, NotEmailed, Current
<1>5. Holds(p)'
  BY <1>2, <1>3 DEF Inserts, Holds, NotEmailed, PendingPlaces
<1>6. \A q \in Processes \ {p} : consumer[q].pc \in PendingPlaces =>
        ~SameKey(Current(p), Current(q))
  BY <1>2 DEF PipelineInv, Holds, SameKey
<1>7. /\ \A q \in Processes : Checked(q)'
      /\ \A q \in Processes : Holds(q)'
      /\ OneHolder'
  BY <1>4, <1>5, <1>6, PipelineFrame DEF Inserts, PendingPlaces
<1>8. OneDocument' /\ OneId' /\ EmailsLogged' /\ AtMostOneEmail'
  BY <1>2
  DEF PipelineInv, OneDocument, OneId, EmailsLogged, AtMostOneEmail, SameKey
<1>9. ASSUME NEW d \in docs
      PROVE  Accounted(d)'
  BY AccountedKept DEF PipelineInv, Inserts, PendingPlaces
<1>10. Accounted(doc)'
  BY <1>2 DEF Accounted, Inserts, PendingPlaces, SameKey
<1> QED
  BY <1>2, <1>7, <1>8, <1>9, <1>10 DEF PipelineInv

LEMMA PipelineAccepts ==
  ASSUME PlatformTypeOK, PipelineInv, NEW p \in Processes, Others(p),
         Checked(p)', faulted \subseteq faulted', Accepts(p)
  PROVE  PipelineInv'
<1>1. /\ EmailsKept
      /\ Len(emails) + 1 \in DOMAIN emails'
      /\ emails'[Len(emails) + 1].message = Current(p)
      /\ \A i \in DOMAIN emails' : i \in DOMAIN emails \/ i = Len(emails) + 1
      /\ UNCHANGED docs
  BY AcceptKept DEF Accepts
<1>2. /\ consumer[p].pc \in PendingPlaces
      /\ NotEmailed(Current(p))
      /\ \E d \in docs : d.message = Current(p) /\ d.status = "pending-publish"
  BY DEF Accepts, PipelineInv, Holds, PendingPlaces, Unsent
<1>3. \A q \in Processes \ {p} : consumer[q].pc \in PendingPlaces =>
        ~SameKey(Current(p), Current(q))
  BY <1>2 DEF PipelineInv, OneHolder
<1>4. ASSUME NEW q \in Processes \ {p}
      PROVE  Holds(q)'
  <2>1. consumer[q].pc \in PendingPlaces /\ NotEmailed(Current(q)) =>
           NotEmailed(Current(q))'
    BY <1>1, <1>3 DEF NotEmailed, EmailsKept, Others, Current
  <2> QED
    BY <1>1, <2>1, HoldsKept DEF PipelineInv, Others
<1>5. Holds(p)'
  BY <1>1, <1>2 DEF Accepts, Holds, PendingPlaces, Unsent
<1>6. /\ \A q \in Processes : Checked(q)'
      /\ \A q \in Processes : Holds(q)'
      /\ OneHolder'
  BY <1>3, <1>4, <1>5, PipelineFrame DEF Accepts, PendingPlaces
<1>7. OneDocument' /\ OneId'
  BY <1>1 DEF PipelineInv, OneDocument, OneId, SameKey
<1>8. EmailsLogged'
  BY <1>1, <1>2 DEF PipelineInv, EmailsLogged, EmailsKept
<1>9. AtMostOneEmail'
  BY <1>1, <1>2
  DEF PipelineInv, AtMostOneEmail, EmailsKept, NotEmailed, SameKey
<1>10. ASSUME NEW d \in docs'
      PROVE  Accounted(d)'
  <2>1. consumer[p].pc \in PendingPlaces /\ SameKey(d.message, Current(p)) =>
           Accounted(d)'
    BY DEF Accounted, SameKey, Accepts, PendingPlaces
  <2> QED
    BY <1>1, <2>1, AccountedKept DEF PipelineInv
<1> QED
  BY <1>6, <1>7, <1>8, <1>9, <1>10 DEF PipelineInv

LEMMA PipelineSettles ==
  ASSUME PlatformTypeOK, NotesOK, PipelineInv, NEW p \in Processes, Others(p),
         Checked(p)', faulted \subseteq faulted', RequestTypeOK, Settles(p)
  PROVE  PipelineInv'
<1>1. PICK d \in docs, new \in Doc :
        d.message = Current(p) /\ Settled(p, d, new)
  BY DEF Settles
<1>2. /\ SameNotification(d, new) /\ docs' = (docs \ {d}) \cup {new}
      /\ new.message = Current(p)
      /\ new.status # "pending-publish"
      /\ consumer[p].pc \in PendingPlaces
      /\ UNCHANGED emails
  <2>1. /\ Replaces(d, new) /\ new.message = Current(p)
        /\ \/ consumer[p].pc = "sent" /\ new.status = "sending"
           \/ consumer[p].pc = "failed" /\ new.status = consumer[p].failure
    BY <1>1, SettlesUnsent DEF PipelineInv
  <2> QED
    BY <2>1
    DEF Replaces, Settles, PendingPlaces, RequestTypeOK, ConsumerState
<1>3. \A q \in Processes \ {p} : consumer[q].pc \in PendingPlaces =>
        ~SameKey(Current(p), Current(q))
  BY <1>2 DEF PipelineInv, OneHolder
<1>4. ASSUME NEW q \in Processes \ {p}
      PROVE  Holds(q)'
  <2>1. consumer'[q] = consumer[q] /\ EmailsKept
        /\ (NotEmailed(Current(q)) => NotEmailed(Current(q))')
    BY <1>2, SameEmailsKept DEF Others, NotEmailed, Current
  <2>2. CASE consumer[q].pc \in PendingPlaces
    <3>1. \A e \in docs : e.message = Current(q) => e \in docs'
      BY <1>1, <1>2, <1>3, <2>2 DEF SameKey
    <3> QED
      BY <2>1, <3>1, HoldsKept DEF PipelineInv
  <2> QED
    BY <2>1, <2>2 DEF Holds
<1>5. Holds(p)'
  BY DEF Settles, Holds, PendingPlaces
<1>6. /\ \A q \in Processes : Checked(q)'
      /\ \A q \in Processes : Holds(q)'
      /\ OneHolder'
  BY <1>4, <1>5, PipelineFrame DEF Settles, PendingPlaces
<1>7. OneDocument' /\ OneId' /\ EmailsLogged'
  BY <1>1, <1>2
  DEF PipelineInv, OneDocument, OneId, EmailsLogged, SameNotification, SameKey
<1>8. AtMostOneEmail'
  BY <1>2 DEF PipelineInv, AtMostOneEmail, SameKey
<1>9. ASSUME NEW e \in docs'
      PROVE  Accounted(e)'
  <2>1. CASE e = new
    BY <1>2, <2>1 DEF Accounted
  <2>2. CASE e # new
    <3>1. e \in docs /\ e # d
      BY <1>2, <2>2
    <3>2. ~SameKey(e.message, Current(p))
      BY <1>1, <3>1 DEF PipelineInv, OneDocument
    <3> QED
      BY <3>1, <3>2, AccountedKept DEF PipelineInv
  <2> QED
    BY <2>1, <2>2
<1> QED
  BY <1>6, <1>7, <1>8, <1>9 DEF PipelineInv

(* Steps of runs and of the world outside: a document no consumer holds    *)
(* may change its status, an email may.                                    *)
LEMMA PipelineQuiet ==
  ASSUME PipelineInv, UNCHANGED consumer, faulted \subseteq faulted',
         EmailsKept, DOMAIN emails' = DOMAIN emails,
         \/ UNCHANGED docs
         \/ \E d, new : /\ Replaces(d, new)
                        /\ d.status # "pending-publish"
                        /\ new.status # "pending-publish"
  PROVE  PipelineInv'
<1>1. /\ \A d \in docs : d.status = "pending-publish" => d \in docs'
      /\ \A d \in docs' : d \in docs \/ d.status # "pending-publish"
      /\ \A d \in docs' : \E e \in docs : SameNotification(e, d)
      /\ \A d \in docs : \E e \in docs' : SameNotification(d, e)
      /\ \A d, e \in docs' : d.id = e.id => d = e
      /\ \A d, e \in docs' : SameKey(d.message, e.message) => d = e
  BY DEF Replaces, SameNotification, PipelineInv, OneId, OneDocument, SameKey
<1>2. \A q \in Processes : Holds(q)'
  <2>1. ASSUME NEW q \in Processes
        PROVE  Holds(q)'
    <3>1. NotEmailed(Current(q)) => NotEmailed(Current(q))'
      BY DEF NotEmailed, EmailsKept, Current
    <3> QED
      BY <1>1, <3>1, HoldsKept DEF PipelineInv
  <2> QED
    BY <2>1
<1>3. (\A q \in Processes : Checked(q)') /\ OneHolder'
  BY DEF PipelineInv, Checked, OneHolder, Current, SameKey
<1>4. OneDocument' /\ OneId'
  BY <1>1 DEF OneDocument, OneId, SameKey
<1>5. EmailsLogged' /\ AtMostOneEmail'
  BY <1>1 DEF PipelineInv, EmailsLogged, AtMostOneEmail, EmailsKept,
              SameNotification, SameKey
<1>6. \A d \in docs' : Accounted(d)'
  BY <1>1 DEF PipelineInv, Accounted, Current, SameKey
<1> QED
  BY <1>2, <1>3, <1>4, <1>5, <1>6 DEF PipelineInv

-----------------------------------------------------------------------------
(* The invariant is one of every step of the service.                      *)

LEMMA NoZero ==
  ASSUME PlatformTypeOK
  PROVE  0 \notin DOMAIN emails
BY DEF PlatformTypeOK

LEMMA ConsumerMovesKeep ==
  ASSUME KeysGuarded, LogInv, NEW p \in Processes, ConsumerMoves(p)
  PROVE  LogInv' /\ LogKept /\ EmailsKept
<1>1. /\ Others(p) /\ Checked(p)' /\ faulted \subseteq faulted'
      /\ UNCHANGED <<replica, now>>
      /\ Rests(p) \/ Inserts(p) \/ Accepts(p) \/ Settles(p)
  BY ConsumerEffect DEF LogInv, PipelineInv, ConsumerMoves
<1>2. RequestTypeOK' /\ PlatformTypeOK' /\ PlatformTypeOK
  BY ConsumerStepType DEF LogInv, ConsumerMoves, RequestTypeOK
<1>3. LogKept /\ EmailsKept
  BY <1>1, <1>2, ConsumerKept DEF LogInv, PipelineInv
<1>4. NotesOK'
  BY <1>1, <1>2, ConsumerNotes DEF LogInv, PipelineInv
<1>5. PipelineInv'
  BY <1>1, <1>2, PipelineRests, PipelineInserts, PipelineAccepts,
     PipelineSettles DEF LogInv
<1>6. 0 \notin DOMAIN emails'
  BY <1>2 DEF PlatformTypeOK
<1>7. JobInv'
  BY <1>1, <1>2, <1>3, <1>4, <1>6, JobInvKept
  DEF LogInv, ConsumerMoves, JobInv
<1>8. InsertsFresh'
  BY ConsumerFresh DEF LogInv, ConsumerMoves
<1> QED
  BY <1>2, <1>3, <1>4, <1>5, <1>7, <1>8 DEF LogInv

LEMMA RunMovesKeep ==
  ASSUME KeysGuarded, LogInv, NEW p \in Processes, NEW r \in Runs, RunMoves(p, r)
  PROVE  LogInv' /\ LogKept /\ EmailsKept
<1>1. /\ PlatformTypeOK' /\ LogKept /\ RunWrites(p, r)
      /\ UNCHANGED <<emails, replica, now>>
  BY RunAround DEF LogInv, RunMoves
<1>2. EmailsKept
  BY <1>1, SameEmailsKept
<1>3. RequestTypeOK'
  BY <1>1 DEF LogInv, RequestTypeOK, RunMoves
<1>4. NotesOK'
  BY <1>1, RunNotes DEF LogInv, PipelineInv
<1>5. faulted \subseteq faulted'
  BY DEF RunMoves, CronTick, RunStep, FetchPending, FinishRun,
         GetNotifyStatus, RecordStatus, PublishStatus, PublishAndRetryIf,
         CheckRetry, PublishRetry, publishRetryRequest, PublishRetryExpired,
         Fault, platform
<1>6. PipelineInv'
  <2>1. \/ UNCHANGED docs
        \/ \E d, new : /\ Replaces(d, new)
                       /\ d.status # "pending-publish"
                       /\ new.status \in NotifyStatus
    BY <1>1, RunUpdatesTied DEF LogInv, PipelineInv
  <2>2. "pending-publish" \notin NotifyStatus
    BY DEF NotifyStatus, publishedStatus, notifyFinal
  <2> QED
    BY <1>1, <1>2, <1>5, <2>1, <2>2, PipelineQuiet DEF LogInv, RunMoves
<1>7. PICK c : Becomes(p, r, c)
  BY RunChange DEF LogInv, RunMoves
<1>8. /\ job' \in [Processes -> [Runs -> RunState]]
      /\ mutex' \in [Processes -> BOOLEAN]
      /\ \A q \in Processes, s \in Runs :
           job'[q][s] = job[q][s] \/ RunOK(job'[q][s])
  BY <1>7 DEF Becomes, MutexKind, LogInv, JobInv
<1>9. 0 \notin DOMAIN emails'
  BY <1>1 DEF PlatformTypeOK
<1>10. JobInv'
  BY <1>1, <1>2, <1>4, <1>8, <1>9, JobInvKept DEF LogInv
<1>11. InsertsFresh'
  <2>1. \A e \in docs' : \E d \in docs : d.message = e.message
    BY <1>1, WritesKept DEF LogInv, JobInv, PlatformTypeOK, SameNotification
  <2> QED
    BY <2>1, FreshStays DEF LogInv, RunMoves
<1> QED
  BY <1>1, <1>2, <1>3, <1>4, <1>6, <1>10, <1>11 DEF LogInv

LEMMA EndsKeep ==
  ASSUME KeysGuarded, LogInv, NEW p \in Processes, Ends(p)
  PROVE  LogInv' /\ LogKept /\ EmailsKept
<1>1. LogKept /\ EmailsKept
  BY SameLogKept, SameEmailsKept DEF Ends
<1>2. /\ Idle \in ConsumerState
      /\ InHand(p) \subseteq Message
      /\ consumer[p].current # None => Current(p) \in Message
  BY DEF Idle, ConsumerState, InHand, LogInv, JobInv, RunState, Doc,
         RequestTypeOK, Current, Entry
<1>3. PlatformTypeOK'
  BY <1>2 DEF Ends, LogInv, RequestTypeOK, PlatformTypeOK
<1>4. RequestTypeOK'
  BY <1>2, <1>3 DEF Ends, LogInv, RequestTypeOK, Idle
<1>5. Others(p) /\ Checked(p)' /\ faulted \subseteq faulted'
  BY DEF Ends, Others, Checked, Idle, LogInv, RequestTypeOK
<1>6. Rests(p)
  <2>1. consumer'[p].pc = "idle"
    BY DEF Ends, Idle, LogInv, RequestTypeOK
  <2>2. consumer[p].pc \in PendingPlaces => Current(p) \in faulted'
    BY PlatformAssumption
    DEF Ends, LogInv, RequestTypeOK, PlatformAssumption, PendingPlaces
  <2> QED
    BY <2>1, <2>2 DEF Rests, Ends, PendingPlaces
<1>7. PipelineInv'
  BY <1>5, <1>6, PipelineRests DEF LogInv
<1>8. NotesOK'
  BY <1>1, NoteKept DEF LogInv, NotesOK, Ends
<1>9. NoRun \in RunState /\ RunOK(NoRun)
  BY DEF NoRun, RunState, RunOK
<1>10. /\ job' \in [Processes -> [Runs -> RunState]]
       /\ mutex' \in [Processes -> BOOLEAN]
       /\ \A q \in Processes, s \in Runs :
            job'[q][s] = job[q][s] \/ RunOK(job'[q][s])
  BY <1>9 DEF Ends, CrashJob, LogInv, JobInv
<1>11. 0 \notin DOMAIN emails'
  BY <1>3 DEF PlatformTypeOK
<1>12. JobInv'
  BY <1>1, <1>3, <1>8, <1>10, <1>11, JobInvKept DEF LogInv, Ends
<1>13. InsertsFresh'
  BY IdleFresh DEF Ends, LogInv
<1> QED
  BY <1>1, <1>4, <1>7, <1>8, <1>12, <1>13 DEF LogInv

LEMMA OutsideKeeps ==
  ASSUME KeysGuarded, LogInv, Environment \/ QueueShrinksOnly
  PROVE  LogInv' /\ LogKept /\ EmailsKept
<1>1. /\ UNCHANGED <<docs, topic, faulted, consumer, mutex, job>>
      /\ replica' \subseteq replica \cup docs'
  BY DEF Environment, QueueShrinksOnly, Submit, Deliver, CatchUp, Replicate,
         Tick
<1>2. LogKept
  BY <1>1, SameLogKept
<1>3. /\ PlatformTypeOK' /\ EmailsKept /\ DOMAIN emails' = DOMAIN emails
  <2>0. PlatformTypeOK
    BY DEF LogInv, JobInv
  <2>1. ASSUME NEW n \in DOMAIN emails, Deliver(n)
        PROVE  /\ PlatformTypeOK' /\ EmailsKept
               /\ DOMAIN emails' = DOMAIN emails
    <3>1. DOMAIN emails' = DOMAIN emails
      BY <2>1 DEF Deliver
    <3> QED
      BY <2>1, <3>1, DeliverAround DEF LogInv
  <2>2. ASSUME NEW m \in Requests, Submit(m)
        PROVE  PlatformTypeOK' /\ UNCHANGED emails
    <3>1. [message |-> m, due |-> 0] \in Entry
      BY TypesAssumption DEF TypesAssumption, Entry
    <3> QED
      BY <2>0, <2>2, <3>1 DEF Submit, PlatformTypeOK
  <2>3. ASSUME CatchUp \/ Tick \/ QueueShrinksOnly
        PROVE  PlatformTypeOK' /\ UNCHANGED emails
    BY <2>0, <2>3
    DEF CatchUp, Replicate, Tick, QueueShrinksOnly, PlatformTypeOK
  <2> QED
    BY <2>1, <2>2, <2>3, SameEmailsKept DEF Environment
<1>4. RequestTypeOK'
  BY <1>1, <1>3 DEF LogInv, RequestTypeOK
<1>5. NotesOK'
  BY <1>1, <1>3, NoteKept DEF LogInv, NotesOK
<1>6. PipelineInv'
  BY <1>1, <1>3, PipelineQuiet DEF LogInv
<1>7. 0 \notin DOMAIN emails'
  BY <1>3 DEF PlatformTypeOK
<1>8. JobInv'
  BY <1>1, <1>2, <1>3, <1>5, <1>7, JobInvKept DEF LogInv, JobInv
<1>9. InsertsFresh'
  BY <1>1, FreshStays DEF LogInv
<1> QED
  BY <1>2, <1>3, <1>4, <1>5, <1>6, <1>8, <1>9 DEF LogInv

LEMMA LogInvStep ==
  ASSUME KeysGuarded, LogInv, ServiceStep
  PROVE  LogInv' /\ LogKept /\ EmailsKept
BY ConsumerMovesKeep, RunMovesKeep, EndsKeep, OutsideKeeps DEF ServiceStep

LEMMA LogInvInit == ServiceInit => LogInv
<1> SUFFICES ASSUME ServiceInit
             PROVE  LogInv
  OBVIOUS
<1>1. PlatformTypeOK
  BY DEF ServiceInit, PlatformInit, PlatformTypeOK
<1>2. RequestTypeOK
  BY <1>1 DEF ServiceInit, ConsumerInit, RequestTypeOK, ConsumerState, Idle
<1>3. JobInv
  BY <1>1 DEF ServiceInit, PlatformInit, JobInit, JobInv, NoRun, RunState,
              RunOK
<1>4. NotesOK /\ PipelineInv
  BY DEF ServiceInit, PlatformInit, ConsumerInit, NotesOK, PipelineInv,
         Checked, Holds, Idle, PendingPlaces, OneHolder, OneDocument, OneId,
         EmailsLogged, AtMostOneEmail, Accounted
<1>5. InsertsFresh
  BY DEF ServiceInit, ConsumerInit, InsertsFresh, Idle
<1> QED
  BY <1>2, <1>3, <1>4, <1>5 DEF LogInv

LEMMA LogInvariant == KeysGuarded => (ServiceSpec => []LogInv)
<1> SUFFICES ASSUME KeysGuarded
             PROVE  ServiceSpec => []LogInv
  OBVIOUS
<1>1. LogInv /\ [ServiceNext]_serviceVars => LogInv'
  BY LogInvStep, ServiceStepOfNext
<1> QED
  BY <1>1, LogInvInit, PTL DEF ServiceSpec

(* Types: every value of every variable of the service is one the code can *)
(* hold, with what the places of consumers and runs say of their state.    *)
THEOREM ServiceTypeCorrect ==
  KeysGuarded => (ServiceSpec => [](RequestTypeOK /\ StatusTypeOK))
<1>1. LogInv => RequestTypeOK /\ StatusTypeOK
  BY StatusSets DEF LogInv, JobInv, StatusTypeOK, RunOK
<1> QED
  BY <1>1, LogInvariant, PTL

(* One email for one request, in the whole service: the job's writes, its  *)
(* retries and the crashes of whole processes included.                    *)
THEOREM ServiceSendsOnce ==
  KeysGuarded => (ServiceSpec => []AtMostOneEmail)
<1>1. LogInv => AtMostOneEmail
  BY DEF LogInv, PipelineInv
<1> QED
  BY <1>1, LogInvariant, PTL

(* Every email of the service can be traced to a document of the log.      *)
THEOREM ServiceRecordsFirst ==
  KeysGuarded => (ServiceSpec => []RecordedBeforeSent)
<1>1. LogInv => RecordedBeforeSent
  BY DEF LogInv, PipelineInv, EmailsLogged, RecordedBeforeSent, SameKey
<1> QED
  BY <1>1, LogInvariant, PTL

(* The job never puts a document back to "pending-publish", and a crash    *)
(* leaves none there unnoticed.                                            *)
THEOREM ServiceStrandsNone ==
  KeysGuarded => (ServiceSpec => []StrandedOnlyByFault)
<1>1. LogInv => StrandedOnlyByFault
  BY DEF LogInv, PipelineInv, Accounted, StrandedOnlyByFault, PendingPlaces
<1> QED
  BY <1>1, LogInvariant, PTL

-----------------------------------------------------------------------------
(* What consumers say: what topic and queue gain in a step.                *)

ConsumerEvent(p, e) ==
  /\ e \in Event
  /\ topic' = Append(topic, e)
  /\ e.about = Current(p) /\ e.type # "retry.expired"
  /\ \/ e.status \in {None, "sending"}
     \/ e.status = "validation-failure" /\ consumer[p].pc = "invalid"
     \/ e.status = consumer[p].failure /\ consumer[p].pc = "failure"

ConsumerRetry(p, e) ==
  /\ e \in Entry
  /\ queue' = queue \cup {e}
  /\ e.message = buildRetryMessage(Current(p), None)
  /\ e.due = now + RetryDelay
  /\ consumer[p].pc = "retry"

LEMMA ConsumerSays ==
  ASSUME RequestTypeOK, NEW p \in Processes, ConsumerStep(p)
  PROVE  /\ topic' = topic \/ \E e : ConsumerEvent(p, e)
         /\ queue' \subseteq queue \/ \E e : ConsumerRetry(p, e)
<1>0. consumer[p].pc \notin {"idle", "next"} => Current(p) \in Message
  BY DEF RequestTypeOK, Current, Entry
<1>1. CASE PublishInvalidRequest(p)
  <2>1. /\ consumer[p].pc = "invalid" /\ queue' = queue
        /\ topic' = topic
             \/ topic' = Append(topic, buildInvalidMessage(Current(p)))
    BY <1>1 DEF PublishInvalidRequest, At, Publish
  <2>2. buildInvalidMessage(Current(p)) \in Event
    BY <1>0, <2>1, InvalidMessageType
  <2>3. /\ buildInvalidMessage(Current(p)).about = Current(p)
        /\ buildInvalidMessage(Current(p)).status = "validation-failure"
        /\ buildInvalidMessage(Current(p)).type # "retry.expired"
    BY DEF buildInvalidMessage, buildEvent
  <2> QED
    BY <2>1, <2>2, <2>3 DEF ConsumerEvent
<1>2. CASE PublishReceived(p)
  <2>1. /\ consumer[p].pc = "received" /\ queue' = queue
        /\ topic' = topic
             \/ topic' = Append(topic, buildReceivedMessage(Current(p)))
    BY <1>2 DEF PublishReceived, At, Publish
  <2>2. buildReceivedMessage(Current(p)) \in Event
    BY <1>0, <2>1, ReceivedMessageType
  <2>3. /\ buildReceivedMessage(Current(p)).about = Current(p)
        /\ buildReceivedMessage(Current(p)).status = None
        /\ buildReceivedMessage(Current(p)).type # "retry.expired"
    BY DEF buildReceivedMessage, buildEvent
  <2> QED
    BY <2>1, <2>2, <2>3 DEF ConsumerEvent
<1>3. CASE PublishSending(p) \/ PublishFailure(p)
  <2>1. PICK status \in {"sending", "internal-failure", "technical-failure"} :
          /\ Publish(buildUpdateMessage(Current(p), status))
          /\ consumer[p].pc \in {"sending", "failure"} /\ queue' = queue
          /\ status = "sending"
               \/ (status = consumer[p].failure /\ consumer[p].pc = "failure")
    BY <1>3 DEF PublishSending, PublishFailure, At, RequestTypeOK, ConsumerState
  <2> DEFINE event == buildUpdateMessage(Current(p), status)
  <2>2. event \in Event
    BY <1>0, <2>1, UpdateMessageType DEF notifyStatuses
  <2>3. /\ event.about = Current(p) /\ event.status = status
        /\ event.type # "retry.expired"
    BY <2>1, OutcomeEvent DEF buildUpdateMessage, buildEvent, statusToEventMap,
                              notifyStatuses
  <2>4. topic' = topic \/ topic' = Append(topic, event)
    BY <2>1 DEF Publish
  <2> HIDE DEF event
  <2> QED
    BY <2>1, <2>2, <2>3, <2>4 DEF ConsumerEvent
<1>4. CASE RetryFailure(p)
  <2> DEFINE e == [message |-> buildRetryMessage(Current(p), None),
                   due |-> now + RetryDelay]
  <2>1. /\ consumer[p].pc = "retry" /\ topic' = topic
        /\ queue' = queue \/ queue' = queue \cup {e}
    BY <1>4 DEF RetryFailure, At, publishRetryRequest
  <2>2. e \in Entry
    BY <1>0, <2>1, RetryMessageType, TypesAssumption
    DEF Entry, TypesAssumption, RequestTypeOK, PlatformTypeOK
  <2>3. /\ e.message = buildRetryMessage(Current(p), None)
        /\ e.due = now + RetryDelay
    OBVIOUS
  <2> HIDE DEF e
  <2> QED
    BY <2>1, <2>2, <2>3 DEF ConsumerRetry
<1>5. CASE topic' = topic /\ queue' \subseteq queue
  BY <1>5
<1> QED
  BY <1>1, <1>2, <1>3, <1>4, <1>5
  DEF ConsumerStep, Poll, NextMessage, DeleteBatch, CheckIdempotency,
      AddRequest, SendEmail, RecordSending, RecordFailure, Record, platform

-----------------------------------------------------------------------------
(* Outcomes and retries, told by consumers and jobs together.              *)

AllReported == \A i \in DOMAIN topic : Reported(topic[i])

LEMMA ReportedStep ==
  ASSUME KeysGuarded, LogInv, ServiceStep, AllReported
  PROVE  AllReported'
<1>1. EmailsKept /\ topic \in Seq(Event)
  BY LogInvStep DEF LogInv, JobInv, PlatformTypeOK
<1>2. UNCHANGED topic \/ \E e : Reported(e) /\ topic' = Append(topic, e)
  <2>1. ASSUME NEW p \in Processes, NEW r \in Runs, RunMoves(p, r)
        PROVE  UNCHANGED topic \/ \E e : Reported(e) /\ topic' = Append(topic, e)
    BY <2>1, RunSays DEF RunMoves, LogInv
  <2>2. ASSUME NEW p \in Processes, ConsumerMoves(p)
        PROVE  UNCHANGED topic \/ \E e : Reported(e) /\ topic' = Append(topic, e)
    <3>1. ASSUME NEW e, ConsumerEvent(p, e)
          PROVE  Reported(e)
      <4>1. /\ consumer[p].failure
                 \in {"internal-failure", "technical-failure", None}
            /\ None \notin {"delivered", "permanent-failure",
                            "temporary-failure"}
        BY StatusSets DEF LogInv, RequestTypeOK, ConsumerState, notifyStatuses
      <4>2. e.status \notin {"delivered", "permanent-failure",
                             "temporary-failure"}
        BY <3>1, <4>1 DEF ConsumerEvent
      <4> QED
        BY <4>2 DEF Reported
    <3> QED
      BY <2>2, <3>1, ConsumerSays DEF ConsumerMoves, LogInv, ConsumerEvent
  <2> QED
    BY <2>1, <2>2
    DEF ServiceStep, Ends, Environment, Submit, Deliver, CatchUp, Replicate,
        Tick, QueueShrinksOnly
<1>3. ASSUME NEW i \in DOMAIN topic'
      PROVE  Reported(topic[i])'
  <2>1. PICK e : e = topic'[i]
    OBVIOUS
  <2>2. Reported(e)
    BY <1>1, <1>2, <1>3, <2>1 DEF AllReported
  <2>3. Reported(e)'
    BY <1>1, <2>2, ReportedKept
  <2> QED
    BY <2>1, <2>3 DEF Reported
<1> QED
  BY <1>3 DEF AllReported

(* Whoever tells subscribers of the service of a delivery or a failure at  *)
(* the provider, consumer or job: Notify said so of that very message.     *)
THEOREM ServiceTellsTheTruth ==
  KeysGuarded => (ServiceSpec => []TruthfulOutcome)
<1> SUFFICES ASSUME KeysGuarded
             PROVE  ServiceSpec => []TruthfulOutcome
  OBVIOUS
<1>1. ServiceInit => AllReported
  BY DEF ServiceInit, PlatformInit, AllReported
<1>2. LogInv /\ AllReported /\ [ServiceNext]_serviceVars => AllReported'
  BY ReportedStep, ServiceStepOfNext
<1>3. AllReported => TruthfulOutcome
  BY DEF AllReported, Reported, TruthfulOutcome
<1> QED
  BY <1>1, <1>2, <1>3, LogInvariant, PTL DEF ServiceSpec

(* The publishers leave messages of type "retry" with an id to the service.*)
NoForeignRetries == \A m \in Requests : m.type = "retry" => m.id = None

LEMMA RetriesStep ==
  ASSUME KeysGuarded, NoForeignRetries, LogInv, ServiceStep,
         RetryOnlyAfterFailure
  PROVE  RetryOnlyAfterFailure'
<1>1. LogKept /\ EmailsKept /\ \A e \in queue : GivenUp(e)
  BY LogInvStep DEF RetryOnlyAfterFailure, GivenUp
<1>2. ASSUME NEW e \in queue'
      PROVE  e \in queue \/ GivenUp(e)
  <2>1. ASSUME NEW p \in Processes, NEW r \in Runs, RunMoves(p, r)
        PROVE  e \in queue \/ GivenUp(e)
    BY <1>2, <2>1, RunSays DEF RunMoves, LogInv
  <2>2. ASSUME NEW p \in Processes, ConsumerMoves(p)
        PROVE  e \in queue \/ GivenUp(e)
    <3>1. ASSUME ConsumerRetry(p, e)
          PROVE  e.message.id = None
      <4>1. Current(p) \in Message
        BY <3>1 DEF ConsumerRetry, LogInv, RequestTypeOK, Current, Entry
      <4> QED
        BY <3>1, <4>1 DEF ConsumerRetry, buildRetryMessage, Message
    <3> QED
      BY <1>2, <2>2, <3>1, ConsumerSays
      DEF ConsumerMoves, LogInv, ConsumerRetry, GivenUp
  <2>3. ASSUME NEW m \in Requests, Submit(m)
        PROVE  e \in queue \/ GivenUp(e)
    BY <1>2, <2>3 DEF Submit, NoForeignRetries, GivenUp
  <2> QED
    BY <1>2, <2>1, <2>2, <2>3
    DEF ServiceStep, Ends, Environment, Deliver, CatchUp, Replicate, Tick,
        QueueShrinksOnly
<1>3. \A e \in queue' : GivenUp(e)'
  BY <1>1, <1>2, GivenUpKept
<1> QED
  BY <1>3 DEF RetryOnlyAfterFailure, GivenUp

(* No consumer, redelivery or crash brings about a retry of an email that  *)
(* may still arrive.                                                       *)
THEOREM ServiceRetriesFailuresOnly ==
  KeysGuarded /\ NoForeignRetries => (ServiceSpec => []RetryOnlyAfterFailure)
<1> SUFFICES ASSUME KeysGuarded, NoForeignRetries
             PROVE  ServiceSpec => []RetryOnlyAfterFailure
  OBVIOUS
<1>1. ServiceInit => RetryOnlyAfterFailure
  BY DEF ServiceInit, PlatformInit, RetryOnlyAfterFailure
<1>2. LogInv /\ RetryOnlyAfterFailure /\ [ServiceNext]_serviceVars =>
        RetryOnlyAfterFailure'
  BY RetriesStep, ServiceStepOfNext
<1> QED
  BY <1>1, <1>2, LogInvariant, PTL DEF ServiceSpec

LEMMA MutexStep ==
  ASSUME LogInv, ServiceStep, OneRunAtATime
  PROVE  OneRunAtATime'
<1>1. ASSUME NEW p \in Processes, NEW r \in Runs, RunMoves(p, r)
      PROVE  OneRunAtATime'
  BY <1>1, RunChange, MutexKept DEF RunMoves, LogInv
<1>2. ASSUME NEW p \in Processes, Ends(p)
      PROVE  OneRunAtATime'
  BY <1>2, CrashFreesMutex DEF Ends, LogInv
<1>3. CASE UNCHANGED <<mutex, job>>
  BY <1>3 DEF OneRunAtATime
<1> QED
  BY <1>1, <1>2, <1>3
  DEF ServiceStep, ConsumerMoves, Environment, QueueShrinksOnly

(* In the whole service too the mutex is held exactly while a run is under *)
(* way, and only one is in a process.                                      *)
THEOREM ServiceRunsOneCheck ==
  KeysGuarded => (ServiceSpec => []OneRunAtATime)
<1> SUFFICES ASSUME KeysGuarded
             PROVE  ServiceSpec => []OneRunAtATime
  OBVIOUS
<1>1. ServiceInit => OneRunAtATime
  BY DEF ServiceInit, JobInit, OneRunAtATime, NoRun
<1>2. LogInv /\ OneRunAtATime /\ [ServiceNext]_serviceVars => OneRunAtATime'
  BY MutexStep, ServiceStepOfNext
<1> QED
  BY <1>1, <1>2, LogInvariant, PTL DEF ServiceSpec

-----------------------------------------------------------------------------
(* Nothing is dropped: deleting a batch is harmless although the jobs      *)
(* write the same log.                                                     *)

LEMMA FaultsRemembered ==
  ASSUME ServiceStep
  PROVE  faulted \subseteq faulted'
<1>1. ASSUME NEW p \in Processes, ConsumerMoves(p)
      PROVE  faulted \subseteq faulted'
  BY <1>1 DEF ConsumerMoves, ConsumerStep, Poll, NextMessage, DeleteBatch,
     PublishInvalidRequest, CheckIdempotency, AddRequest, PublishReceived,
     SendEmail, RecordSending, RecordFailure, Record, PublishSending,
     PublishFailure, RetryFailure, publishRetryRequest, Fault, platform
<1>2. ASSUME NEW p \in Processes, NEW r \in Runs, RunMoves(p, r)
      PROVE  faulted \subseteq faulted'
  BY <1>2 DEF RunMoves, CronTick, RunStep, FetchPending, FinishRun,
     GetNotifyStatus, RecordStatus, PublishStatus, PublishAndRetryIf,
     CheckRetry, PublishRetry, PublishRetryExpired, publishRetryRequest,
     Fault, platform
<1>3. CASE Environment \/ QueueShrinksOnly \/ \E p \in Processes : Ends(p)
  BY <1>3 DEF Ends, Environment, Submit, Deliver, CatchUp, Tick,
              QueueShrinksOnly
<1> QED
  BY <1>1, <1>2, <1>3 DEF ServiceStep

LEMMA DeliveryStep ==
  ASSUME KeysGuarded, LogInv, DeliveryInv, ServiceStep
  PROVE  DeliveryInv'
<1>1. Keeps(docs, docs') /\ faulted \subseteq faulted'
  BY LogInvStep, FaultsRemembered DEF LogKept, Keeps, SameNotification
<1>2. ASSUME replica' = replica \/ replica' = docs
      PROVE  Keeps(replica, docs)'
  BY <1>1, <1>2 DEF DeliveryInv, Keeps
<1>3. ASSUME NEW p \in Processes, ConsumerMoves(p)
      PROVE  DeliveryInv'
  <2>1. replica' = replica
    BY <1>3, ConsumerEffect DEF ConsumerMoves, LogInv, PipelineInv
  <2>2. Others(p) /\ Deletable(p)'
    BY <1>1, <1>3, ConsumerStepDeletable DEF ConsumerMoves, LogInv
  <2>3. \A q \in Processes \ {p} : Deletable(q)'
    BY <1>1, <2>2, DeletableElsewhere DEF DeliveryInv, Others
  <2> QED
    BY <1>2, <2>1, <2>2, <2>3 DEF DeliveryInv
<1>4. ASSUME NEW p \in Processes, Ends(p)
      PROVE  DeliveryInv'
  <2>1. /\ consumer'[p] = Idle /\ replica' = replica
        /\ \A q \in Processes \ {p} : consumer'[q] = consumer[q]
    BY <1>4 DEF Ends, LogInv, RequestTypeOK
  <2>2. Deletable(p)'
    BY <2>1 DEF Deletable, Idle
  <2>3. \A q \in Processes \ {p} : Deletable(q)'
    BY <1>1, <2>1, DeletableElsewhere DEF DeliveryInv
  <2> QED
    BY <1>2, <2>1, <2>2, <2>3 DEF DeliveryInv
<1>5. CASE UNCHANGED consumer /\ (replica' = replica \/ replica' = docs)
  <2>1. \A q \in Processes : Deletable(q)'
    BY <1>1, <1>5, DeletableElsewhere DEF DeliveryInv
  <2> QED
    BY <1>2, <1>5, <2>1 DEF DeliveryInv
<1>6. ASSUME NEW p \in Processes, NEW r \in Runs, RunMoves(p, r)
      PROVE  DeliveryInv'
  BY <1>5, <1>6, RunAround DEF RunMoves, LogInv
<1>7. CASE Environment \/ QueueShrinksOnly
  BY <1>5, <1>7 DEF Environment, Submit, Deliver, CatchUp, Replicate, Tick,
                    QueueShrinksOnly
<1> QED
  BY <1>3, <1>4, <1>6, <1>7 DEF ServiceStep

LEMMA DeliveryInit == ServiceInit => DeliveryInv
BY DEF ServiceInit, PlatformInit, ConsumerInit, DeliveryInv, Keeps, Deletable,
       Idle

(* Only the deletion of a batch takes messages from the queue, and only    *)
(* completed ones.                                                         *)
LEMMA QueueLoses ==
  ASSUME NEW e \in queue \ queue',
         \/ \E p \in Processes : ConsumerMoves(p) \/ Ends(p)
         \/ \E p \in Processes, r \in Runs : RunMoves(p, r)
         \/ Environment
  PROVE  \E p \in Processes :
           DeleteBatch(p) /\ e \in consumer[p].completed
<1>1. ASSUME NEW p \in Processes, ConsumerMoves(p)
      PROVE  DeleteBatch(p)
  BY <1>1 DEF ConsumerMoves, ConsumerStep, Poll, NextMessage,
     PublishInvalidRequest, CheckIdempotency, AddRequest, PublishReceived,
     SendEmail, RecordSending, RecordFailure, Record, PublishSending,
     PublishFailure, RetryFailure, publishRetryRequest, platform
<1>2. ASSUME NEW p \in Processes, NEW r \in Runs, RunMoves(p, r)
      PROVE  FALSE
  <2>1. queue \subseteq queue'
    <3>1. CASE PublishRetry(p, r)
      BY <3>1 DEF PublishRetry, publishRetryRequest
    <3> QED
      BY <1>2, <3>1
      DEF RunMoves, CronTick, RunStep, FetchPending, FinishRun,
          GetNotifyStatus, RecordStatus, PublishStatus, PublishAndRetryIf,
          CheckRetry, PublishRetryExpired, platform
  <2> QED
    BY <2>1
<1>3. ~(Environment \/ \E p \in Processes : Ends(p))
  BY DEF Ends, Environment, Submit, Deliver, CatchUp, Tick
<1>4. PICK p \in Processes : DeleteBatch(p)
  BY <1>1, <1>2, <1>3
<1>5. e \in consumer[p].completed
  BY <1>4 DEF DeleteBatch
<1> QED
  BY <1>4, <1>5

(* In the whole service too a request that satisfies the schema leaves the *)
(* queue only once the log has it, unless a fault hit it.                  *)
THEOREM ServiceDropsNone ==
  KeysGuarded => (ServiceSpec => DroppedOnlyByFault)
<1> SUFFICES ASSUME KeysGuarded
             PROVE  ServiceSpec => DroppedOnlyByFault
  OBVIOUS
<1>1. LogInv /\ DeliveryInv /\ [ServiceNext]_serviceVars => DeliveryInv'
  BY DeliveryStep, ServiceStepOfNext
<1>2. LogInv /\ DeliveryInv /\ [ServiceNext]_serviceVars =>
        [\A e \in queue \ queue' :
           v1(e.message) /\ e.message.type \in processorMap =>
             \/ e.message \in faulted
             \/ \E d \in docs : SameKey(d.message, e.message)]_consumerVars
  <2> SUFFICES ASSUME DeliveryInv, [ServiceNext]_serviceVars,
                      NEW e \in queue \ queue', Processable(e.message)
               PROVE  \/ e.message \in faulted
                      \/ \E d \in docs : SameKey(d.message, e.message)
    BY DEF Processable
  <2>1. \/ \E p \in Processes : ConsumerMoves(p) \/ Ends(p)
        \/ \E p \in Processes, r \in Runs : RunMoves(p, r)
        \/ Environment
    BY DEF ServiceNext, ConsumerMoves, RunMoves, JobStep, Crash, Ends,
           serviceVars, platform
  <2> QED
    BY <2>1, QueueLoses DEF DeliveryInv, Deletable, HandledMessage
<1> QED
  BY <1>1, <1>2, DeliveryInit, LogInvariant, PTL
  DEF ServiceSpec, DroppedOnlyByFault

-----------------------------------------------------------------------------
(* Where messages come from: publishers choose their ids and the service   *)
(* draws others, so that the id of a message tells requests, retries of a  *)
(* consumer (which have none) and retries of the job apart.                *)

(* The notification the job retried with m.                                *)
Parent(m, d) ==
  /\ d.id = m.id
  /\ d.message.source = m.source
  /\ CorrelationOf(d.message) = CorrelationOf(m)
  /\ d.notificationId \in DOMAIN emails
  /\ emails[d.notificationId].status \in retryableStatus

Origin(m) == m \in Requests \/ m.id = None \/ \E d \in docs : Parent(m, d)

EntryOK(e) ==
  /\ Origin(e.message)
  /\ \A d \in docs : d.id = e.message.id => e.due >= d.createdAt + RetryDelay

LoggedOK(d) ==
  /\ Origin(d.message) /\ v1(d.message)
  /\ d.createdAt <= now
  /\ \A m \in Requests : d.id # m.id /\ d.id # m.correlationId

Delayed(d, child) ==
  child.message.id = d.id => child.createdAt >= d.createdAt + RetryDelay

OriginInv ==
  /\ \A e \in queue : EntryOK(e)
  /\ \A p \in Processes : \A e \in Held(p) : EntryOK(e) /\ e.due <= now
  /\ \A d \in docs : LoggedOK(d)
  /\ \A d, child \in docs : Delayed(d, child)

-----------------------------------------------------------------------------
(* The log only gains a new notification or a status.                      *)

SameDocs == \A e \in docs' : \E d \in docs : SameNotification(d, e)

LEMMA DocsStep ==
  ASSUME KeysGuarded, LogInv, ServiceStep
  PROVE  SameDocs \/ \E p \in Processes : Inserts(p) /\ ConsumerMoves(p)
<1> USE DEF SameDocs
<1>1. ASSUME UNCHANGED docs
      PROVE  SameDocs
  BY <1>1 DEF SameNotification
<1>2. ASSUME NEW d, NEW new, Replaces(d, new)
      PROVE  SameDocs
  BY <1>2 DEF Replaces, SameNotification
<1>3. ASSUME NEW p \in Processes, ConsumerMoves(p)
      PROVE  SameDocs \/ Inserts(p)
  <2>1. Rests(p) \/ Inserts(p) \/ Accepts(p) \/ Settles(p)
    BY <1>3, ConsumerEffect DEF LogInv, PipelineInv, ConsumerMoves
  <2>2. CASE Settles(p)
    BY <1>2, <2>2 DEF Settles, Settled, Updates
  <2> QED
    BY <1>1, <2>1, <2>2 DEF Rests, Accepts
<1>4. ASSUME NEW p \in Processes, NEW r \in Runs, RunMoves(p, r)
      PROVE  SameDocs
  <2>1. RunWrites(p, r)
    BY <1>4, RunAround DEF LogInv, RunMoves
  <2> QED
    BY <1>1, <1>2, <2>1 DEF RunWrites, Updates
<1>5. UNCHANGED docs
        \/ \E p \in Processes : \/ ConsumerMoves(p)
                                \/ \E r \in Runs : RunMoves(p, r)
  BY DEF ServiceStep, Ends, Environment, Submit, Deliver, CatchUp, Replicate,
         Tick, QueueShrinksOnly
<1> QED
  BY <1>1, <1>3, <1>4, <1>5

LEMMA OriginKept ==
  ASSUME LogKept, EmailsKept, NEW m, Origin(m)
  PROVE  Origin(m)'
<1>1. ASSUME NEW d \in docs, Parent(m, d)
      PROVE  \E e \in docs' : Parent(m, e)'
  <2>1. PICK e \in docs' :
          /\ SameNotification(d, e)
          /\ d.notificationId \in DOMAIN emails =>
               e.notificationId = d.notificationId
    BY DEF LogKept
  <2> QED
    BY <1>1, <2>1, StatusSets DEF Parent, SameNotification, EmailsKept
<1> QED
  BY <1>1 DEF Origin

(* A new notification has an id no message ever had.                       *)
LEMMA FreshId ==
  ASSUME OriginInv, NEW doc, NEW m, Inserted(doc, m), NEW n, Origin(n)
  PROVE  n.id # doc.id
<1>1. doc.id \in FreshUuids
  BY DEF Inserted
<1> QED
  BY <1>1, TypesAssumption DEF FreshUuids, Origin, Parent, TypesAssumption

LEMMA EntryKept ==
  ASSUME LogKept, EmailsKept, OriginInv, NEW e, EntryOK(e),
         SameDocs \/ \E p : Inserts(p)
  PROVE  EntryOK(e)'
<1>1. Origin(e.message)'
  BY OriginKept DEF EntryOK
<1>2. CASE SameDocs
  BY <1>1, <1>2 DEF EntryOK, SameDocs, SameNotification
<1>3. ASSUME NEW p, Inserts(p)
      PROVE  EntryOK(e)'
  <2>1. PICK doc : Inserted(doc, Current(p))
    BY <1>3 DEF Inserts
  <2>2. doc.id # e.message.id
    BY <2>1, FreshId DEF EntryOK
  <2> QED
    BY <1>1, <2>1, <2>2 DEF EntryOK, Inserted
<1> QED
  BY <1>2, <1>3

-----------------------------------------------------------------------------
(* The entries a step brings into circulation.                             *)

LEMMA RunRetries ==
  ASSUME JobInv, NEW p \in Processes, NEW r \in Runs,
         CronTick(p, r) \/ RunStep(p, r)
  PROVE  LET n == Notification(p, r)
             e == [message |-> buildRetryMessage(n.message, n.id),
                   due |-> now + RetryDelay]
         IN \/ queue' = queue
            \/ /\ queue' = queue \cup {e}
               /\ job[p][r].pc = "resend"
               /\ n \in Doc /\ Tied(n)
               /\ emails[n.notificationId].status \in retryableStatus
<1>1. CASE PublishRetry(p, r)
  <2>1. job[p][r].pc = "resend"
    BY <1>1 DEF PublishRetry, RunAt
  <2>2. RunOK(job[p][r])
    BY DEF JobInv
  <2>3. /\ Notification(p, r) \in Doc /\ Tied(Notification(p, r))
        /\ emails[Notification(p, r).notificationId].status \in retryableStatus
    BY <2>1, <2>2, StatusSets DEF RunOK, Notification
  <2> QED
    BY <1>1, <2>1, <2>3 DEF PublishRetry, publishRetryRequest
<1>2. CASE queue' = queue
  BY <1>2
<1> QED
  BY <1>1, <1>2
  DEF CronTick, RunStep, FetchPending, FinishRun, GetNotifyStatus,
      RecordStatus, PublishStatus, PublishAndRetryIf, CheckRetry,
      PublishRetryExpired, platform

LEMMA RetryCorrelation ==
  ASSUME NEW m \in Message, v1(m), NEW id
  PROVE  LET retry == buildRetryMessage(m, id)
         IN /\ retry.id = id /\ retry.source = m.source
            /\ CorrelationOf(retry) = CorrelationOf(m)
BY DEF buildRetryMessage, Message, CorrelationOf, v1

LEMMA NewEntries ==
  ASSUME KeysGuarded, LogInv, OriginInv, ServiceStep, NEW e \in queue'
  PROVE  e \in queue \/ EntryOK(e)
<1>1. ASSUME NEW p \in Processes, NEW r \in Runs, RunMoves(p, r), e \notin queue
      PROVE  EntryOK(e)
  <2> DEFINE n == Notification(p, r)
  <2>1. /\ e = [message |-> buildRetryMessage(n.message, n.id),
                due |-> now + RetryDelay]
        /\ n \in Doc /\ Tied(n)
        /\ emails[n.notificationId].status \in retryableStatus
    BY <1>1, RunRetries DEF LogInv, RunMoves
  <2>2. PICK d \in docs : SameNotification(n, d)
                            /\ d.notificationId = n.notificationId
    BY <2>1 DEF Tied
  <2>3. /\ n.message \in Message /\ d.message = n.message /\ d.id = n.id
        /\ v1(d.message) /\ d.createdAt <= now
        /\ d.notificationId \in DOMAIN emails
        /\ emails[d.notificationId].status \in retryableStatus
    BY <2>1, <2>2 DEF Doc, SameNotification, OriginInv, LoggedOK, Tied
  <2> HIDE DEF n
  <2>4. /\ e.message.id = d.id /\ e.message.source = d.message.source
        /\ CorrelationOf(e.message) = CorrelationOf(d.message)
        /\ e.due = now + RetryDelay
    BY <2>1, <2>3, RetryCorrelation
  <2>5. Parent(e.message, d)
    BY <2>3, <2>4 DEF Parent
  <2>6. \A f \in docs : f.id = e.message.id => f = d
    BY <2>4 DEF LogInv, PipelineInv, OneId
  <2>7. now + RetryDelay >= d.createdAt + RetryDelay
    BY <2>3, TypesAssumption
    DEF TypesAssumption, LogInv, JobInv, PlatformTypeOK, Doc
  <2> QED
    BY <2>4, <2>5, <2>6, <2>7 DEF EntryOK, Origin
<1>2. ASSUME NEW p \in Processes, ConsumerMoves(p), e \notin queue
      PROVE  EntryOK(e)
  <2>1. ConsumerRetry(p, e)
    BY <1>2, ConsumerSays DEF ConsumerMoves, LogInv, ConsumerRetry
  <2>2. Current(p) \in Message
    BY <2>1 DEF ConsumerRetry, LogInv, RequestTypeOK, Current, Entry
  <2>3. e.message.id = None
    BY <2>1, <2>2 DEF ConsumerRetry, buildRetryMessage, Message
  <2>4. \A d \in docs : d.id # None
    BY TypesAssumption
    DEF TypesAssumption, LogInv, JobInv, PlatformTypeOK, Doc
  <2> QED
    BY <2>3, <2>4 DEF EntryOK, Origin
<1>3. ASSUME NEW m \in Requests, Submit(m), e \notin queue
      PROVE  EntryOK(e)
  BY <1>3 DEF Submit, EntryOK, Origin, OriginInv, LoggedOK
<1> QED
  BY <1>1, <1>2, <1>3
  DEF ServiceStep, Ends, Environment, Deliver, CatchUp, Replicate, Tick,
      QueueShrinksOnly

(* What a process holds it had before or took from the queue when due.     *)
LEMMA HeldStep ==
  ASSUME RequestTypeOK, ServiceStep, NEW p \in Processes, NEW e \in Held(p)'
  PROVE  e \in Held(p) \/ (e \in queue /\ e.due <= now)
<1>1. CASE UNCHANGED consumer
  BY <1>1 DEF Held
<1>2. ASSUME NEW q \in Processes, Ends(q)
      PROVE  e \in Held(p)
  <2>1. CASE p = q
    <3>1. consumer'[p] = Idle
      BY <1>2, <2>1 DEF Ends, RequestTypeOK
    <3> QED
      BY <3>1 DEF Held, Idle
  <2>2. CASE p # q
    <3>1. consumer'[p] = consumer[p]
      BY <1>2, <2>2 DEF Ends, RequestTypeOK
    <3> QED
      BY <3>1 DEF Held
  <2> QED
    BY <2>1, <2>2
<1>3. ASSUME NEW q \in Processes, ConsumerStep(q), q # p
      PROVE  e \in Held(p)
  <2>1. consumer'[p] = consumer[p]
    BY <1>3, SendEmailPlaces
    DEF ConsumerStep, Poll, NextMessage, DeleteBatch, PublishInvalidRequest,
        CheckIdempotency, AddRequest, PublishReceived, RecordSending,
        PublishSending, RecordFailure, Record, PublishFailure, RetryFailure,
        Complete, Goto, RequestTypeOK, Others
  <2> QED
    BY <2>1 DEF Held
<1>4. ASSUME ConsumerStep(p)
      PROVE  e \in Held(p) \/ (e \in queue /\ e.due <= now)
  <2>0. consumer[p] \in ConsumerState
    BY DEF RequestTypeOK
  <2>1. ASSUME Complete(p), consumer[p].current # None
        PROVE  e \in Held(p)
    <3>1. consumer'[p] = [Idle EXCEPT !.pc = "next",
             !.batch = consumer[p].batch,
             !.completed = consumer[p].completed \cup {consumer[p].current}]
      BY <2>1 DEF Complete, RequestTypeOK
    <3>2. /\ consumer'[p].batch = consumer[p].batch
          /\ consumer'[p].current = None
          /\ consumer'[p].completed
               = consumer[p].completed \cup {consumer[p].current}
      BY <3>1 DEF Idle
    <3> QED
      BY <2>1, <3>2 DEF Held
  <2>2. ASSUME consumer'[p].batch = consumer[p].batch,
               consumer'[p].completed = consumer[p].completed,
               consumer'[p].current = consumer[p].current
        PROVE  e \in Held(p)
    BY <2>2 DEF Held
  <2>3. ASSUME NEW label, Goto(p, label)
        PROVE  e \in Held(p)
    BY <2>0, <2>2, <2>3 DEF Goto, RequestTypeOK, ConsumerState
  <2>4. CASE Poll(p)
    <3>1. PICK batch \in SUBSET Receivable :
            consumer' = [consumer EXCEPT ![p].pc = "next", ![p].batch = batch]
      BY <2>4 DEF Poll
    <3>2. /\ consumer'[p].batch = batch
          /\ consumer'[p].completed = consumer[p].completed
          /\ consumer'[p].current = consumer[p].current
      BY <2>0, <3>1 DEF RequestTypeOK, ConsumerState
    <3>3. \A f \in batch : f \in queue /\ f.due <= now
      BY <3>1 DEF Receivable
    <3> QED
      BY <3>2, <3>3 DEF Held
  <2>5. CASE NextMessage(p)
    <3>1. PICK f \in consumer[p].batch :
          LET m == f.message
              processed == m.body # "unparseable" /\ m.type \in processorMap
          IN consumer' = [consumer EXCEPT
               ![p].batch = @ \ {f},
               ![p].current = IF processed THEN f ELSE None,
               ![p].completed = IF processed THEN @ ELSE @ \cup {f},
               ![p].pc = IF ~processed THEN "next"
                         ELSE IF v1(m) THEN "check" ELSE "invalid"]
      BY <2>5 DEF NextMessage
    <3>2. /\ consumer'[p].batch = consumer[p].batch \ {f}
          /\ consumer'[p].current \in {f, None}
          /\ consumer'[p].completed
               \in {consumer[p].completed, consumer[p].completed \cup {f}}
      BY <2>0, <3>1 DEF RequestTypeOK, ConsumerState
    <3>3. \/ e \in consumer'[p].batch \/ e \in consumer'[p].completed
          \/ consumer'[p].current # None /\ e = consumer'[p].current
      BY DEF Held
    <3>4. e \in consumer[p].batch \/ e \in consumer[p].completed
      BY <3>2, <3>3
    <3> QED
      BY <3>4 DEF Held
  <2>6. CASE DeleteBatch(p)
    <3>1. consumer'[p] = Idle
      BY <2>6 DEF DeleteBatch, RequestTypeOK
    <3> QED
      BY <3>1 DEF Held, Idle
  <2>7. ASSUME consumer[p].pc \notin {"idle", "next"}
        PROVE  consumer[p].current # None
    BY <2>7, PlatformAssumption DEF RequestTypeOK, PlatformAssumption
  <2>8. CASE SendEmail(p)
    <3>1. consumer[p].pc = "send"
      BY <2>8 DEF SendEmail, At
    <3>2. \/ Complete(p)
          \/ consumer' = [consumer EXCEPT ![p].pc = "sent",
                                          ![p].notificationId = Len(emails) + 1]
          \/ \E status : consumer' = [consumer EXCEPT ![p].pc = "failed",
                                                      ![p].failure = status]
      BY <2>8 DEF SendEmail
    <3> QED
      BY <2>0, <2>1, <2>2, <2>7, <3>1, <3>2 DEF RequestTypeOK, ConsumerState
  <2>9. CASE \/ PublishInvalidRequest(p) \/ CheckIdempotency(p)
             \/ AddRequest(p) \/ PublishReceived(p) \/ RecordSending(p)
             \/ PublishSending(p) \/ RecordFailure(p) \/ PublishFailure(p)
             \/ RetryFailure(p)
    <3>1. consumer[p].pc \notin {"idle", "next"}
      BY <2>9
      DEF PublishInvalidRequest, CheckIdempotency, AddRequest,
          PublishReceived, RecordSending, PublishSending, RecordFailure,
          PublishFailure, RetryFailure, At
    <3>2. Complete(p) \/ \E label : Goto(p, label)
      BY <2>9
      DEF PublishInvalidRequest, CheckIdempotency, AddRequest,
          PublishReceived, RecordSending, PublishSending, RecordFailure,
          Record, PublishFailure, RetryFailure
    <3> QED
      BY <2>1, <2>3, <2>7, <3>1, <3>2
  <2> QED
    BY <1>4, <2>4, <2>5, <2>6, <2>8, <2>9 DEF ConsumerStep
<1> QED
  BY <1>1, <1>2, <1>3, <1>4
  DEF ServiceStep, ConsumerMoves, RunMoves, Environment, QueueShrinksOnly

LEMMA ClockStep ==
  ASSUME LogInv, ServiceStep
  PROVE  now \in Nat /\ now' \in Nat /\ now <= now'
<1>1. ASSUME NEW p \in Processes, NEW r \in Runs, RunMoves(p, r)
      PROVE  now' = now
  BY <1>1, RunAround DEF RunMoves, LogInv
<1>2. now \in Nat /\ (now' = now \/ now' = now + 1)
  BY <1>1
  DEF LogInv, JobInv, PlatformTypeOK, ServiceStep, ConsumerMoves, ConsumerStep,
      Poll, NextMessage, DeleteBatch, PublishInvalidRequest, CheckIdempotency,
      AddRequest, PublishReceived, SendEmail, RecordSending, RecordFailure,
      Record, PublishSending, PublishFailure, RetryFailure, platform, Ends,
      Environment, Submit, Deliver, CatchUp, Tick, QueueShrinksOnly
<1> QED
  BY <1>2

LEMMA OriginStep ==
  ASSUME KeysGuarded, LogInv, OriginInv, ServiceStep
  PROVE  OriginInv'
<1>1. /\ LogKept /\ EmailsKept
      /\ SameDocs \/ \E p \in Processes : Inserts(p) /\ ConsumerMoves(p)
      /\ now \in Nat /\ now' \in Nat /\ now <= now'
      /\ docs \subseteq Doc /\ docs' \subseteq Doc
      /\ UNCHANGED now \/ UNCHANGED docs
  <2>1. UNCHANGED now \/ UNCHANGED docs
    <3>1. ASSUME NEW p \in Processes, NEW r \in Runs, RunMoves(p, r)
          PROVE  now' = now
      BY <3>1, RunAround DEF RunMoves, LogInv
    <3>2. ASSUME NEW p \in Processes, ConsumerMoves(p)
          PROVE  now' = now
      BY <3>2, ConsumerEffect DEF ConsumerMoves, LogInv, PipelineInv
    <3> QED
      BY <3>1, <3>2
      DEF ServiceStep, Ends, Environment, Submit, Deliver, CatchUp, Replicate,
          Tick, QueueShrinksOnly
  <2> QED
    BY <2>1, LogInvStep, DocsStep, ClockStep DEF LogInv, JobInv, PlatformTypeOK
<1>2. ASSUME NEW e, EntryOK(e)
      PROVE  EntryOK(e)'
  BY <1>1, <1>2, EntryKept
<1>3. \A e \in queue' : EntryOK(e)'
  BY <1>2, NewEntries DEF OriginInv
<1>4. ASSUME NEW p \in Processes, NEW e \in Held(p)'
      PROVE  EntryOK(e)' /\ e.due <= now'
  <2>1. e \in Held(p) \/ (e \in queue /\ e.due <= now)
    BY <1>4, HeldStep DEF LogInv
  <2>2. EntryOK(e) /\ e.due <= now
    BY <2>1 DEF OriginInv
  <2>3. e \in Entry
    BY <2>1 DEF Held, LogInv, RequestTypeOK, PlatformTypeOK, ConsumerState
  <2> QED
    BY <1>1, <1>2, <2>2, <2>3 DEF Entry
<1>5. ASSUME NEW d, d \in docs
      PROVE  LoggedOK(d)'
  BY <1>1, <1>5, OriginKept DEF OriginInv, LoggedOK, Doc
<1>6. CASE SameDocs
  <2>1. \A d \in docs' : LoggedOK(d)'
    <3>1. ASSUME NEW d \in docs'
          PROVE  LoggedOK(d)'
      <4>1. PICK c \in docs : SameNotification(c, d)
        BY <1>6 DEF SameDocs
      <4>2. LoggedOK(c)'
        BY <1>5
      <4>3. d.message = c.message /\ d.id = c.id /\ d.createdAt = c.createdAt
        BY <4>1 DEF SameNotification
      <4> QED
        BY <4>2, <4>3 DEF LoggedOK
    <3> QED
      BY <3>1
  <2>2. \A d, child \in docs' : Delayed(d, child)
    BY <1>6 DEF SameDocs, SameNotification, OriginInv, Delayed
  <2>3. \A d, child \in docs' : Delayed(d, child)'
    BY <2>2 DEF Delayed
  <2> QED
    BY <1>3, <1>4, <2>1, <2>3 DEF OriginInv
<1>7. ASSUME NEW p \in Processes, Inserts(p), ConsumerMoves(p)
      PROVE  OriginInv'
  <2> DEFINE e == consumer[p].current
  <2>1. /\ consumer[p].pc = "insert" /\ e \in Entry /\ e # None
        /\ Current(p) = e.message
    BY <1>7, PlatformAssumption
    DEF Inserts, LogInv, RequestTypeOK, PlatformAssumption, Current
  <2>2. EntryOK(e) /\ e.due <= now
    BY <2>1 DEF Held, OriginInv
  <2>3. PICK doc : Inserted(doc, Current(p))
    BY <1>7 DEF Inserts
  <2> HIDE DEF e
  <2>4. /\ doc.message = e.message /\ doc.createdAt = now
        /\ doc.id \in FreshUuids /\ docs' = docs \cup {doc}
        /\ doc \in Doc
    BY <2>1, <2>3 DEF Inserted
  <2>5. LoggedOK(doc)'
    <3>1. v1(doc.message)
      BY <2>1, <2>4 DEF LogInv, PipelineInv, Checked
    <3>2. Origin(doc.message)'
      BY <1>1, <2>2, <2>4, OriginKept DEF EntryOK
    <3>3. \A m \in Requests : doc.id # m.id /\ doc.id # m.correlationId
      BY <2>4 DEF FreshUuids
    <3> QED
      BY <1>1, <2>4, <3>1, <3>2, <3>3 DEF LoggedOK
  <2>6. \A n : Origin(n) => n.id # doc.id
    BY <2>3, FreshId
  <2>7. ASSUME NEW d \in docs
        PROVE  Delayed(d, doc)' /\ Delayed(doc, d)'
    <3>1. Delayed(d, doc)'
      BY <2>1, <2>2, <2>4, <1>1, TypesAssumption
      DEF EntryOK, Delayed, Doc, Entry, TypesAssumption
    <3>2. d.message.id # doc.id
      BY <2>6 DEF OriginInv, LoggedOK
    <3> QED
      BY <3>1, <3>2 DEF Delayed
  <2>8. Delayed(doc, doc)'
    BY <2>2, <2>4, <2>6 DEF EntryOK, Delayed
  <2>9. \A d, child \in docs : Delayed(d, child)'
    BY DEF OriginInv, Delayed
  <2>10. \A d, child \in docs' : Delayed(d, child)'
    BY <2>4, <2>7, <2>8, <2>9
  <2>11. \A d \in docs' : LoggedOK(d)'
    BY <1>5, <2>4, <2>5
  <2> QED
    BY <1>3, <1>4, <2>10, <2>11 DEF OriginInv
<1> QED
  BY <1>1, <1>6, <1>7

LEMMA OriginInvariant ==
  KeysGuarded => (ServiceSpec => [](LogInv /\ OriginInv))
<1> SUFFICES ASSUME KeysGuarded
             PROVE  ServiceSpec => [](LogInv /\ OriginInv)
  OBVIOUS
<1>1. ServiceInit => OriginInv
  BY DEF ServiceInit, PlatformInit, ConsumerInit, OriginInv, Held, Idle
<1>2. LogInv /\ OriginInv /\ [ServiceNext]_serviceVars => OriginInv'
  BY OriginStep, ServiceStepOfNext
<1> QED
  BY <1>1, <1>2, LogInvariant, PTL DEF ServiceSpec

(* A retry is logged no sooner than the retry delay after the notification *)
(* it repeats: the delay SQS is given holds in every process, and no id a  *)
(* publisher chose is taken for that of a notification.                    *)
THEOREM RetriesWait == KeysGuarded => (ServiceSpec => []RetryNotEarly)
<1>1. OriginInv => RetryNotEarly
  BY DEF OriginInv, Delayed, RetryNotEarly
<1> QED
  BY <1>1, OriginInvariant, PTL

-----------------------------------------------------------------------------
(* The emails of one request and its retries: a chain in which each but    *)
(* the first stands in for the one before, which failed.                   *)

(* Publishers correlate no two requests of theirs: those would be emails   *)
(* the customer is meant to get both of.                                   *)
DistinctWorkflows ==
  \A m1, m2 \in Requests :
    /\ v1(m1) /\ v1(m2) /\ m1.source = m2.source
    /\ CorrelationOf(m1) = CorrelationOf(m2)
    => SameKey(m1, m2)

SameChain(i, j) ==
  /\ emails[i].message.source = emails[j].message.source
  /\ emails[i].reference = emails[j].reference

(* Email k was sent for the retry of the notification of email i. *)
Follows(k, i) ==
  /\ emails[i].status \in retryableStatus
  /\ \E d \in docs :
       /\ d.notificationId = i
       /\ d.id = emails[k].message.id
       /\ d.message.source = emails[k].message.source

Referenced ==
  \A i \in DOMAIN emails :
    emails[i].reference = CorrelationOf(emails[i].message)

Rooted ==
  \A j \in DOMAIN emails : \E i \in DOMAIN emails :
    i <= j /\ SameChain(i, j) /\ emails[i].message \in Requests

Followed ==
  \A i, j \in DOMAIN emails : i < j /\ SameChain(i, j) =>
    \E k \in DOMAIN emails : i < k /\ k <= j /\ Follows(k, i)

ChainInv == Referenced /\ Rooted /\ Followed

LEMMA EmailsStep ==
  ASSUME KeysGuarded, LogInv, ServiceStep
  PROVE  \/ /\ DOMAIN emails' = DOMAIN emails
            /\ \A i \in DOMAIN emails :
                 emails'[i].reference = emails[i].reference
         \/ \E p \in Processes : Accepts(p) /\ ConsumerMoves(p)
<1>1. ASSUME NEW n \in DOMAIN emails, Deliver(n)
      PROVE  /\ DOMAIN emails' = DOMAIN emails
             /\ \A i \in DOMAIN emails :
                  emails'[i].reference = emails[i].reference
  <2>1. PICK s : emails' = [emails EXCEPT ![n].status = s]
    BY <1>1 DEF Deliver
  <2>2. emails[n] \in Email
    BY DEF LogInv, JobInv, PlatformTypeOK
  <2>3. [emails[n] EXCEPT !.status = s].reference = emails[n].reference
    BY <2>2 DEF Email
  <2> QED
    BY <2>1, <2>3
<1>2. ASSUME NEW p \in Processes, ConsumerMoves(p)
      PROVE  UNCHANGED emails \/ Accepts(p)
  <2>1. Rests(p) \/ Inserts(p) \/ Accepts(p) \/ Settles(p)
    BY <1>2, ConsumerEffect DEF LogInv, PipelineInv, ConsumerMoves
  <2> QED
    BY <2>1 DEF Rests, Inserts, Settles
<1>3. ASSUME NEW p \in Processes, NEW r \in Runs, RunMoves(p, r)
      PROVE  UNCHANGED emails
  BY <1>3, RunAround DEF LogInv, RunMoves
<1>4. \/ UNCHANGED emails
      \/ \E n \in DOMAIN emails : Deliver(n)
      \/ \E p \in Processes : Accepts(p) /\ ConsumerMoves(p)
  BY <1>2, <1>3
  DEF ServiceStep, Ends, Environment, Submit, CatchUp, Tick, QueueShrinksOnly
<1> QED
  BY <1>1, <1>4

LEMMA FollowsKept ==
  ASSUME LogKept, EmailsKept, NEW i \in DOMAIN emails, NEW k \in DOMAIN emails,
         Follows(k, i)
  PROVE  Follows(k, i)'
<1>1. emails'[i].status \in retryableStatus
  BY StatusSets DEF Follows, EmailsKept
<1>2. PICK d \in docs : /\ d.notificationId = i
                        /\ d.id = emails[k].message.id
                        /\ d.message.source = emails[k].message.source
  BY DEF Follows
<1>3. PICK e \in docs' : SameNotification(d, e) /\ e.notificationId = i
  BY <1>2 DEF LogKept
<1>4. emails'[k].message = emails[k].message
  BY DEF EmailsKept
<1> QED
  BY <1>1, <1>2, <1>3, <1>4 DEF Follows, SameNotification

LEMMA ChainStays ==
  ASSUME ChainInv, LogKept, EmailsKept, DOMAIN emails' = DOMAIN emails,
         \A i \in DOMAIN emails : emails'[i].reference = emails[i].reference
  PROVE  ChainInv'
<1>1. \A i, j \in DOMAIN emails : SameChain(i, j)' <=> SameChain(i, j)
  BY DEF SameChain, EmailsKept
<1>2. Referenced'
  BY DEF ChainInv, Referenced, EmailsKept
<1>3. Rooted'
  BY <1>1 DEF ChainInv, Rooted, EmailsKept
<1>4. Followed'
  BY <1>1, FollowsKept DEF ChainInv, Followed
<1> QED
  BY <1>2, <1>3, <1>4 DEF ChainInv

OfChain(i, m) == /\ emails[i].message.source = m.source
                 /\ CorrelationOf(emails[i].message) = CorrelationOf(m)

LEMMA SentIsChecked ==
  ASSUME LogInv, OriginInv, NEW p \in Processes, Accepts(p)
  PROVE  /\ NotEmailed(Current(p)) /\ v1(Current(p)) /\ Origin(Current(p))
         /\ \E d \in docs : d.message = Current(p)
<1>1. /\ consumer[p].pc = "send"
      /\ consumer[p].current \in Entry /\ consumer[p].current # None
  BY PlatformAssumption DEF Accepts, LogInv, RequestTypeOK, PlatformAssumption
<1>2. /\ NotEmailed(Current(p)) /\ v1(Current(p))
      /\ \E d \in docs : d.message = Current(p)
  BY <1>1 DEF LogInv, PipelineInv, Holds, Checked, PendingPlaces, Unsent
<1>3. consumer[p].current \in Held(p)
  BY <1>1 DEF Held
<1>4. Origin(Current(p))
  BY <1>3 DEF OriginInv, EntryOK, Current
<1> QED
  BY <1>2, <1>4

(* A chain goes on from its last email, with the retry of that one.        *)
LEMMA NextOfChain ==
  ASSUME DistinctWorkflows, LogInv, OriginInv, ChainInv,
         NEW p \in Processes, Accepts(p)
  PROVE  LET m == Current(p) IN
         \/ \A i \in DOMAIN emails : ~OfChain(i, m)
         \/ \E d \in docs : \E n \in DOMAIN emails :
              /\ Parent(m, d) /\ n = d.notificationId
              /\ emails[n].message = d.message /\ OfChain(n, m)
              /\ \A i \in DOMAIN emails : i > n => ~OfChain(i, m)
<1> DEFINE m == Current(p)
<1>1. NotEmailed(m) /\ v1(m) /\ Origin(m)
  BY SentIsChecked
<1>2. /\ emails \in Seq(Email) /\ DOMAIN emails \subseteq Nat \ {0}
      /\ \A i \in DOMAIN emails : v1(emails[i].message)
  BY DEF LogInv, JobInv, PlatformTypeOK, PipelineInv, EmailsLogged, OriginInv,
         LoggedOK
<1> HIDE DEF m
<1>3. \A i, j \in DOMAIN emails : OfChain(i, m) /\ OfChain(j, m) => SameChain(i, j)
  BY DEF OfChain, SameChain, ChainInv, Referenced
<1>4. ASSUME m \in Requests, NEW i \in DOMAIN emails, OfChain(i, m)
      PROVE  FALSE
  <2>1. PICK j \in DOMAIN emails : SameChain(j, i) /\ emails[j].message \in Requests
    BY <1>4 DEF ChainInv, Rooted
  <2>2. /\ emails[j].message.source = m.source
        /\ CorrelationOf(emails[j].message) = CorrelationOf(m)
    BY <1>4, <2>1 DEF OfChain, SameChain, ChainInv, Referenced
  <2>3. SameKey(emails[j].message, m)
    BY <1>1, <1>2, <1>4, <2>1, <2>2 DEF DistinctWorkflows
  <2> QED
    BY <1>1, <2>3 DEF NotEmailed
<1>5. ASSUME m \notin Requests
      PROVE  \E d \in docs : \E n \in DOMAIN emails :
               /\ Parent(m, d) /\ n = d.notificationId
               /\ emails[n].message = d.message /\ OfChain(n, m)
               /\ \A i \in DOMAIN emails : i > n => ~OfChain(i, m)
  <2>1. PICK d \in docs : Parent(m, d)
    BY <1>1, <1>5 DEF Origin, v1
  <2> DEFINE n == d.notificationId
  <2>2. n \in DOMAIN emails /\ emails[n].message = d.message
    <3>1. n \in DOMAIN emails /\ n # 0
      BY <1>2, <2>1 DEF Parent
    <3> QED
      BY <3>1 DEF LogInv, NotesOK, NoteOK
  <2>3. OfChain(n, m)
    BY <2>1, <2>2 DEF Parent, OfChain
  <2>4. ASSUME NEW i \in DOMAIN emails, i > n, OfChain(i, m)
        PROVE  FALSE
    <3>1. SameChain(n, i) /\ n < i
      BY <1>2, <1>3, <2>2, <2>3, <2>4
    <3>2. PICK k \in DOMAIN emails : Follows(k, n)
      BY <2>2, <3>1 DEF ChainInv, Followed
    <3>3. PICK c \in docs : /\ c.notificationId = n
                            /\ c.id = emails[k].message.id
                            /\ c.message.source = emails[k].message.source
      BY <3>2 DEF Follows
    <3>4. c.message = emails[n].message
      BY <1>2, <2>2, <3>3 DEF LogInv, NotesOK, NoteOK
    <3>5. c = d
      BY <2>2, <3>4 DEF LogInv, PipelineInv, OneDocument, SameKey
    <3>6. SameKey(emails[k].message, m)
      BY <2>1, <3>3, <3>5 DEF SameKey, Parent
    <3> QED
      BY <1>1, <3>6 DEF NotEmailed
  <2> QED
    BY <2>1, <2>2, <2>3, <2>4
<1> QED
  BY <1>4, <1>5 DEF m

LEMMA ChainGrows ==
  ASSUME DistinctWorkflows, LogInv, OriginInv, ChainInv,
         NEW p \in Processes, Accepts(p), LogKept, EmailsKept
  PROVE  ChainInv'
<1> DEFINE m == Current(p)
<1>0. PICK new : new = Len(emails) + 1
  OBVIOUS
<1>1. /\ emails \in Seq(Email) /\ Len(emails) \in Nat
      /\ DOMAIN emails = 1..Len(emails)
      /\ \A i \in DOMAIN emails : i \in Nat /\ i < new /\ i # new
      /\ \A i \in DOMAIN emails' : i \in DOMAIN emails \/ i = new
      /\ DOMAIN emails \subseteq DOMAIN emails'
      /\ new \in DOMAIN emails' /\ new \in Nat
      /\ \A i \in DOMAIN emails : emails'[i] = emails[i]
      /\ emails'[new].message = m
      /\ emails'[new].reference = CorrelationOf(m)
      /\ UNCHANGED docs
  BY <1>0 DEF LogInv, JobInv, PlatformTypeOK, Accepts, AcceptEmail
<1>2. v1(m) /\ Origin(m)
  BY SentIsChecked
<1> HIDE DEF m
<1>4. \A i, j \in DOMAIN emails : /\ SameChain(i, j)' <=> SameChain(i, j)
                                  /\ Follows(j, i)' <=> Follows(j, i)
  BY <1>1 DEF SameChain, Follows
<1> DEFINE InChain(i) == OfChain(i, m)
<1>5. \A i \in DOMAIN emails : SameChain(i, new)' <=> InChain(i)
  BY <1>1 DEF OfChain, SameChain, ChainInv, Referenced
<1>6. \A i, j \in DOMAIN emails : InChain(i) /\ InChain(j) => SameChain(i, j)
  BY DEF OfChain, SameChain, ChainInv, Referenced
<1>7. ASSUME m \in Requests, NEW i \in DOMAIN emails, InChain(i)
      PROVE  FALSE
  <2>1. PICK d \in docs : Parent(m, d)
    BY <1>7, NextOfChain DEF m
  <2> QED
    BY <1>7, <2>1 DEF OriginInv, LoggedOK, Parent
<1>8. ASSUME m \notin Requests
      PROVE  \E n \in DOMAIN emails : InChain(n) /\ Follows(new, n)'
               /\ \A i \in DOMAIN emails : i > n => ~InChain(i)
  <2>1. PICK c \in docs : Parent(m, c)
    BY <1>2, <1>8 DEF Origin, v1
  <2>2. /\ c.notificationId \in DOMAIN emails
        /\ OfChain(c.notificationId, m)
    <3>1. c.notificationId \in DOMAIN emails /\ c.notificationId # 0
      BY <1>1, <2>1 DEF Parent
    <3>2. emails[c.notificationId].message = c.message
      BY <3>1 DEF LogInv, NotesOK, NoteOK
    <3> QED
      BY <2>1, <3>1, <3>2 DEF Parent, OfChain
  <2>3. PICK d \in docs, n \in DOMAIN emails :
          /\ Parent(m, d) /\ n = d.notificationId /\ OfChain(n, m)
          /\ \A i \in DOMAIN emails : i > n => ~OfChain(i, m)
    BY <2>2, NextOfChain DEF m
  <2>4. Follows(new, n)'
    BY <1>1, <2>3 DEF Parent, Follows
  <2> QED
    BY <2>3, <2>4
<1> HIDE DEF InChain
<1>9. Referenced'
  BY <1>1 DEF ChainInv, Referenced
<1>10. ASSUME NEW j \in DOMAIN emails'
       PROVE  \E i \in DOMAIN emails' :
                i <= j /\ SameChain(i, j)' /\ emails'[i].message \in Requests
  <2>1. CASE j \in DOMAIN emails
    <3>1. PICK i \in DOMAIN emails :
            i <= j /\ SameChain(i, j) /\ emails[i].message \in Requests
      BY <2>1 DEF ChainInv, Rooted
    <3> QED
      BY <1>1, <1>4, <2>1, <3>1
  <2>2. CASE j = new /\ m \in Requests
    BY <1>1, <2>2 DEF SameChain
  <2>3. CASE j = new /\ m \notin Requests
    <3>1. PICK n \in DOMAIN emails : InChain(n)
      BY <1>8, <2>3
    <3>2. PICK i \in DOMAIN emails :
            i <= n /\ SameChain(i, n) /\ emails[i].message \in Requests
      BY <3>1 DEF ChainInv, Rooted
    <3>3. SameChain(n, new)' /\ SameChain(i, n)'
      BY <1>4, <1>5, <3>1, <3>2
    <3>4. SameChain(i, new)'
      BY <3>3 DEF SameChain
    <3> QED
      BY <1>1, <2>3, <3>2, <3>4
  <2> QED
    BY <1>1, <2>1, <2>2, <2>3
<1>11. Rooted'
  BY <1>10 DEF Rooted
<1>12. ASSUME NEW i \in DOMAIN emails', NEW j \in DOMAIN emails', i < j,
              SameChain(i, j)'
       PROVE  \E k \in DOMAIN emails' : i < k /\ k <= j /\ Follows(k, i)'
  <2>1. i \in DOMAIN emails
    BY <1>1, <1>12
  <2>2. CASE j \in DOMAIN emails
    <3>1. PICK k \in DOMAIN emails : i < k /\ k <= j /\ Follows(k, i)
      BY <1>4, <1>12, <2>1, <2>2 DEF ChainInv, Followed
    <3> QED
      BY <1>1, <1>4, <2>1, <3>1
  <2>3. CASE j = new
    <3>1. InChain(i)
      BY <1>5, <1>12, <2>1, <2>3
    <3>2. m \notin Requests
      BY <1>7, <2>1, <3>1
    <3>3. PICK n \in DOMAIN emails :
            /\ InChain(n) /\ Follows(new, n)'
            /\ \A l \in DOMAIN emails : l > n => ~InChain(l)
      BY <1>8, <3>2
    <3>4. CASE i = n
      BY <1>1, <2>1, <2>3, <3>3, <3>4
    <3>5. CASE i < n
      <4>1. PICK k \in DOMAIN emails : i < k /\ k <= n /\ Follows(k, i)
        BY <1>6, <2>1, <3>1, <3>3, <3>5 DEF ChainInv, Followed
      <4> QED
        BY <1>1, <1>4, <2>1, <2>3, <3>3, <4>1
    <3> QED
      BY <1>1, <2>1, <3>1, <3>3, <3>4, <3>5
  <2> QED
    BY <1>1, <2>2, <2>3
<1>13. Followed'
  BY <1>12 DEF Followed
<1> QED
  BY <1>9, <1>11, <1>13 DEF ChainInv

LEMMA ChainStep ==
  ASSUME KeysGuarded, DistinctWorkflows, LogInv, OriginInv, ChainInv,
         ServiceStep
  PROVE  ChainInv'
BY LogInvStep, EmailsStep, ChainStays, ChainGrows

LEMMA ChainInvariant ==
  KeysGuarded /\ DistinctWorkflows =>
    (ServiceSpec => [](LogInv /\ OriginInv /\ ChainInv))
<1> SUFFICES ASSUME KeysGuarded, DistinctWorkflows
             PROVE  ServiceSpec => [](LogInv /\ OriginInv /\ ChainInv)
  OBVIOUS
<1>1. ServiceInit => ChainInv
  BY DEF ServiceInit, PlatformInit, ChainInv, Referenced, Rooted, Followed
<1>2. LogInv /\ OriginInv /\ ChainInv /\ [ServiceNext]_serviceVars => ChainInv'
  BY ChainStep, ServiceStepOfNext
<1> QED
  BY <1>1, <1>2, OriginInvariant, PTL DEF ServiceSpec

(* Of the emails that stem from one request of a publisher no two are on   *)
(* their way or delivered at once, however many processes run, whatever is *)
(* delivered twice, read late, or retried twice: each was sent only after  *)
(* Notify gave up on the one before.                                       *)
THEOREM OneEmailAlive ==
  KeysGuarded /\ DistinctWorkflows =>
    (ServiceSpec => []OneLiveEmailPerRequest)
<1>1. ChainInv => OneLiveEmailPerRequest
  BY DEF ChainInv, Followed, SameChain, Follows, OneLiveEmailPerRequest
<1> QED
  BY <1>1, ChainInvariant, PTL

-----------------------------------------------------------------------------
(* Where a chain begins: at the document of the one request of a publisher *)
(* among those with its correlation, the oldest of the chain.  A secondary *)
(* that lags behind has it as soon as it has any document of the chain.    *)

First(f, m) ==
  /\ f.message \in Requests
  /\ f.message.source = m.source
  /\ CorrelationOf(f.message) = CorrelationOf(m)

HasFirst(collection, d) ==
  \E f \in collection : First(f, d.message) /\ f.createdAt <= d.createdAt

(* The service correlates its own messages. *)
Correlated(m) == m \in Requests \/ m.id = None \/ m.correlationId # None

RootInv ==
  /\ \A e \in queue : Correlated(e.message)
  /\ \A p \in Processes : \A e \in Held(p) : Correlated(e.message)
  /\ \A d \in docs : Correlated(d.message) /\ HasFirst(docs, d)
  /\ \A d \in replica : /\ HasFirst(replica, d)
                        /\ \E e \in docs : SameNotification(d, e)

LEMMA RetryIsCorrelated ==
  ASSUME NEW m \in Message, v1(m), NEW id
  PROVE  Correlated(buildRetryMessage(m, id))
BY TypesAssumption
DEF buildRetryMessage, Message, CorrelationOf, v1, Correlated, TypesAssumption

LEMMA NewCorrelated ==
  ASSUME LogInv, OriginInv, ServiceStep, NEW e \in queue'
  PROVE  e \in queue \/ Correlated(e.message)
<1>1. ASSUME NEW p \in Processes, NEW r \in Runs, RunMoves(p, r), e \notin queue
      PROVE  Correlated(e.message)
  <2> DEFINE n == Notification(p, r)
  <2>1. /\ e.message = buildRetryMessage(n.message, n.id)
        /\ n \in Doc /\ Tied(n)
    BY <1>1, RunRetries DEF LogInv, RunMoves
  <2>2. n.message \in Message /\ v1(n.message)
    BY <2>1 DEF Doc, Tied, SameNotification, OriginInv, LoggedOK
  <2> QED
    BY <2>1, <2>2, RetryIsCorrelated
<1>2. ASSUME NEW p \in Processes, ConsumerMoves(p), e \notin queue
      PROVE  Correlated(e.message)
  <2>1. ConsumerRetry(p, e)
    BY <1>2, ConsumerSays DEF ConsumerMoves, LogInv, ConsumerRetry
  <2>2. Current(p) \in Message
    BY <2>1 DEF ConsumerRetry, LogInv, RequestTypeOK, Current, Entry
  <2> QED
    BY <2>1, <2>2 DEF ConsumerRetry, buildRetryMessage, Message, Correlated
<1>3. ASSUME NEW m \in Requests, Submit(m), e \notin queue
      PROVE  Correlated(e.message)
  BY <1>3 DEF Submit, Correlated
<1> QED
  BY <1>1, <1>2, <1>3
  DEF ServiceStep, Ends, Environment, Deliver, CatchUp, Replicate, Tick,
      QueueShrinksOnly

LEMMA ReplicaStep ==
  ASSUME KeysGuarded, LogInv, ServiceStep
  PROVE  replica' = replica \/ replica' = docs
<1>1. ASSUME NEW p \in Processes, NEW r \in Runs, RunMoves(p, r)
      PROVE  replica' = replica
  BY <1>1, RunAround DEF RunMoves, LogInv
<1>2. ASSUME NEW p \in Processes, ConsumerMoves(p)
      PROVE  replica' = replica
  BY <1>2, ConsumerEffect DEF ConsumerMoves, LogInv, PipelineInv
<1> QED
  BY <1>1, <1>2
  DEF ServiceStep, Ends, Environment, Submit, Deliver, CatchUp, Replicate,
      Tick, QueueShrinksOnly

LEMMA RootStep ==
  ASSUME KeysGuarded, LogInv, OriginInv, RootInv, ServiceStep
  PROVE  RootInv'
<1>1. /\ LogKept /\ EmailsKept
      /\ SameDocs \/ \E p \in Processes : Inserts(p) /\ ConsumerMoves(p)
      /\ docs \subseteq Doc /\ docs' \subseteq Doc /\ now \in Nat
  BY LogInvStep, DocsStep DEF LogInv, JobInv, PlatformTypeOK
<1>2. \A e \in queue' : Correlated(e.message)
  BY NewCorrelated DEF RootInv
<1>3. \A p \in Processes : \A e \in Held(p)' : Correlated(e.message)
  BY HeldStep DEF RootInv, LogInv
<1>4. ASSUME NEW d, HasFirst(docs, d)
      PROVE  HasFirst(docs', d)
  BY <1>1, <1>4 DEF HasFirst, First, LogKept, SameNotification
<1>5. ASSUME SameDocs, NEW d \in docs'
      PROVE  Correlated(d.message) /\ HasFirst(docs', d)
  <2>1. PICK c \in docs : SameNotification(c, d)
    BY <1>5 DEF SameDocs
  <2>2. Correlated(c.message) /\ HasFirst(docs', c)
    BY <1>4 DEF RootInv
  <2> QED
    BY <2>1, <2>2 DEF SameNotification, HasFirst
<1>6. ASSUME NEW p \in Processes, Inserts(p), NEW d \in docs'
      PROVE  Correlated(d.message) /\ HasFirst(docs', d)
  <2>1. PICK doc : Inserted(doc, Current(p))
    BY <1>6 DEF Inserts
  <2>2. CASE d \in docs
    BY <1>4, <2>2 DEF RootInv
  <2>3. CASE d = doc
    <3> DEFINE e == consumer[p].current
    <3>1. /\ e \in Held(p) /\ doc.message = e.message
      BY <1>6, <2>1, PlatformAssumption
      DEF Inserts, Inserted, LogInv, RequestTypeOK, PlatformAssumption, Held,
          Current
    <3>2. Correlated(e.message) /\ Origin(e.message) /\ v1(e.message)
      BY <1>6, <3>1
      DEF RootInv, OriginInv, EntryOK, LogInv, PipelineInv, Checked, Inserts,
          Current
    <3> HIDE DEF e
    <3>3. CASE doc.message \in Requests
      BY <2>1, <2>3, <3>1, <3>2, <3>3 DEF Inserted, HasFirst, First, Doc
    <3>4. CASE doc.message \notin Requests
      <4>1. PICK c \in docs : Parent(doc.message, c)
        BY <3>1, <3>2, <3>4 DEF Origin, v1
      <4>2. PICK f \in docs' : First(f, c.message) /\ f.createdAt <= c.createdAt
        BY <1>4 DEF RootInv, HasFirst
      <4>3. First(f, doc.message)
        BY <4>1, <4>2 DEF First, Parent
      <4>4. f.createdAt <= doc.createdAt
        BY <1>1, <2>1, <4>2 DEF OriginInv, LoggedOK, Inserted, Doc
      <4> QED
        BY <2>3, <3>1, <3>2, <4>3, <4>4 DEF HasFirst
    <3> QED
      BY <3>3, <3>4
  <2> QED
    BY <2>1, <2>2, <2>3 DEF Inserted
<1>7. ASSUME NEW d \in replica'
      PROVE  /\ HasFirst(replica', d)
             /\ \E e \in docs' : SameNotification(d, e)
  <2>1. /\ HasFirst(replica', d)
        /\ \E e \in docs : SameNotification(d, e)
    BY <1>7, ReplicaStep DEF RootInv, SameNotification
  <2> QED
    BY <1>1, <2>1 DEF LogKept, SameNotification
<1>8. \A d \in docs' : Correlated(d.message) /\ HasFirst(docs', d)
  BY <1>1, <1>5, <1>6
<1> QED
  BY <1>2, <1>3, <1>7, <1>8 DEF RootInv, HasFirst, First

LEMMA RootInit == ServiceInit => RootInv
BY DEF ServiceInit, PlatformInit, ConsumerInit, RootInv, Held, Idle

LEMMA RootInvariant ==
  KeysGuarded => (ServiceSpec => [](LogInv /\ OriginInv /\ RootInv))
<1> SUFFICES ASSUME KeysGuarded
             PROVE  ServiceSpec => [](LogInv /\ OriginInv /\ RootInv)
  OBVIOUS
<1>1. LogInv /\ OriginInv /\ RootInv /\ [ServiceNext]_serviceVars => RootInv'
  BY RootStep, ServiceStepOfNext
<1> QED
  BY <1>1, RootInit, OriginInvariant, PTL DEF ServiceSpec

LEMMA OneFirst ==
  ASSUME DistinctWorkflows, LogInv, OriginInv, NEW m,
         NEW f \in docs, First(f, m), NEW g \in docs, First(g, m)
  PROVE  f = g
<1>1. v1(f.message) /\ v1(g.message)
  BY DEF OriginInv, LoggedOK
<1>2. SameKey(f.message, g.message)
  BY <1>1 DEF First, DistinctWorkflows
<1> QED
  BY <1>2 DEF LogInv, PipelineInv, OneDocument

LEMMA FirstIsOldest ==
  ASSUME DistinctWorkflows, LogInv, OriginInv, RootInv, NEW m,
         NEW f \in docs, First(f, m), NEW d \in Chain(m)
  PROVE  f.createdAt <= d.createdAt
<1>1. PICK g \in docs : First(g, d.message) /\ g.createdAt <= d.createdAt
  BY DEF Chain, RootInv, HasFirst
<1>2. First(g, m)
  BY <1>1 DEF First, Chain
<1> QED
  BY <1>1, <1>2, OneFirst

-----------------------------------------------------------------------------
(* The retry window starts with the first notification of a chain.         *)

(* A request another one names as what it is correlated with is the        *)
(* beginning of its workflow.                                              *)
NamesFirst ==
  \A m1, m2 \in Requests :
    v1(m1) /\ v1(m2) /\ m1.source = m2.source /\ m1.correlationId = m2.id
      => CorrelationOf(m2) = m2.id

LEMMA OriginalIsFirst ==
  ASSUME NamesFirst, LogInv, OriginInv, RootInv, NEW d \in docs,
         d.message.correlationId # None,
         NEW o \in getOriginalNotificationRequest(d.message.source,
                                                  d.message.correlationId)
  PROVE  \E f \in docs : First(f, d.message) /\ f.createdAt = o.createdAt
<1> DEFINE corr == d.message.correlationId
<1>1. PICK e \in docs : SameNotification(o, e)
  <2>1. o \in docs \cup replica
    BY DEF getOriginalNotificationRequest, Matching, Secondary
  <2> QED
    BY <2>1 DEF RootInv, SameNotification
<1>2. /\ e.message.id = corr /\ e.message.source = d.message.source
      /\ e.createdAt = o.createdAt
  BY <1>1 DEF SameNotification, getOriginalNotificationRequest, Matching
<1>3. PICK g \in docs : First(g, d.message)
  BY DEF RootInv, HasFirst
<1>4. /\ CorrelationOf(g.message) = corr /\ g.message.source = e.message.source
      /\ g.message \in Requests
      /\ v1(g.message) /\ v1(e.message)
  BY <1>2, <1>3 DEF First, CorrelationOf, OriginInv, LoggedOK
<1>5. corr = g.message.id \/ corr = g.message.correlationId
  BY <1>4 DEF CorrelationOf
<1>6. e.message \in Requests
  <2>1. ASSUME NEW c \in docs, Parent(e.message, c)
        PROVE  FALSE
    BY <1>2, <1>4, <1>5, <2>1 DEF Parent, OriginInv, LoggedOK
  <2> QED
    BY <1>2, <2>1 DEF OriginInv, LoggedOK, Origin
<1>7. CASE corr = g.message.id
  <2>1. SameKey(g.message, e.message)
    BY <1>2, <1>4, <1>7 DEF SameKey
  <2>2. g = e
    BY <2>1 DEF LogInv, PipelineInv, OneDocument
  <2> QED
    BY <1>2, <1>3, <2>2
<1>8. CASE corr = g.message.correlationId
  <2>1. CorrelationOf(e.message) = corr
    BY <1>2, <1>4, <1>6, <1>8 DEF NamesFirst
  <2>2. First(e, d.message)
    BY <1>2, <1>6, <2>1 DEF First, CorrelationOf
  <2> QED
    BY <1>2, <2>2
<1> QED
  BY <1>5, <1>7, <1>8

LEMMA CountsFromFirst ==
  ASSUME NamesFirst, LogInv, OriginInv, RootInv,
         NEW p \in Processes, NEW r \in Runs, CheckRetry(p, r),
         job'[p][r].pc \in {"resend", "expire"}
  PROVE  \E f \in docs :
           /\ First(f, Notification(p, r).message)
           /\ job'[p][r].pc = "resend" <=>
                checkRetryable(job[p][r].status, f.createdAt, now)
<1> DEFINE n == Notification(p, r)
           Decides(since) ==
             RunGoto(p, r, IF checkRetryable(job[p][r].status, since, now)
                           THEN "resend" ELSE "expire")
<1>1. ASSUME NEW since, Decides(since)
      PROVE  job'[p][r].pc = "resend" <=>
               checkRetryable(job[p][r].status, since, now)
  BY <1>1 DEF RunGoto, LogInv, JobInv
<1>2. PICK d \in docs : SameNotification(n, d)
  BY DEF CheckRetry, RunAt, LogInv, JobInv, RunOK, Notification, Tied
<1>3. /\ d.message = n.message /\ d.createdAt = n.createdAt
      /\ d.message \in Message
  BY <1>2 DEF SameNotification, LogInv, JobInv, PlatformTypeOK, Doc
<1>4. CASE n.message.correlationId = None /\ Decides(n.createdAt)
  <2>1. First(d, n.message)
    BY <1>3, <1>4 DEF RootInv, Correlated, OriginInv, LoggedOK, v1, First
  <2> QED
    BY <1>1, <1>3, <1>4, <2>1
<1>5. ASSUME n.message.correlationId # None,
             NEW o \in getOriginalNotificationRequest(n.message.source,
                                              n.message.correlationId),
             Decides(o.createdAt)
      PROVE  \E f \in docs :
               /\ First(f, n.message)
               /\ job'[p][r].pc = "resend" <=>
                    checkRetryable(job[p][r].status, f.createdAt, now)
  <2>1. PICK f \in docs : First(f, n.message) /\ f.createdAt = o.createdAt
    BY <1>3, <1>5, OriginalIsFirst
  <2> QED
    BY <1>1, <1>5, <2>1
<1>6. ~Continue(p, r)
  BY DEF Continue, LogInv, JobInv, NoRun
<1> QED
  BY <1>4, <1>5, <1>6 DEF CheckRetry

(* What a step of the service can do to a run that decides on a retry.     *)
LEMMA OnlyCheckDecides ==
  ASSUME LogInv, ServiceStep, NEW p \in Processes, NEW r \in Runs,
         RunAt(p, r, "retry"), job'[p][r].pc \in {"resend", "expire"}
  PROVE  CheckRetry(p, r)
<1>1. ASSUME NEW q \in Processes, NEW s \in Runs, RunMoves(q, s)
      PROVE  CheckRetry(p, r)
  <2>1. PICK c : Becomes(q, s, c)
    BY <1>1, RunChange DEF RunMoves, LogInv
  <2>2. q = p /\ s = r
    BY <2>1 DEF Becomes, RunAt, LogInv, JobInv
  <2> QED
    BY <1>1, <2>2 DEF RunMoves, CronTick, RunStep, RunAt, FetchPending,
       FinishRun, GetNotifyStatus, RecordStatus, PublishStatus,
       PublishAndRetryIf, PublishRetry, PublishRetryExpired
<1>2. ASSUME NEW q \in Processes, CrashJob(q)
      PROVE  FALSE
  BY <1>2 DEF CrashJob, RunAt, NoRun, LogInv, JobInv
<1>3. CASE UNCHANGED job
  BY <1>3 DEF RunAt
<1> QED
  BY <1>1, <1>2, <1>3
  DEF ServiceStep, Ends, ConsumerMoves, Environment, QueueShrinksOnly

LEMMA WindowStep ==
  ASSUME DistinctWorkflows, NamesFirst, LogInv, OriginInv, RootInv,
         ServiceStep, NEW p \in Processes, NEW r \in Runs,
         RunAt(p, r, "retry"), job[p][r].status = "temporary-failure",
         job'[p][r].pc \in {"resend", "expire"}
  PROVE  job'[p][r].pc = "resend" <=>
           \A d \in Chain(Notification(p, r).message) :
             now + RetryDelay < d.createdAt + TemporaryFailureTimeout
<1> DEFINE m == Notification(p, r).message
<1>1. PICK f \in docs :
        /\ First(f, m)
        /\ job'[p][r].pc = "resend" <=>
             checkRetryable(job[p][r].status, f.createdAt, now)
  BY OnlyCheckDecides, CountsFromFirst
<1>2. checkRetryable(job[p][r].status, f.createdAt, now) <=>
        now + RetryDelay < f.createdAt + TemporaryFailureTimeout
  BY DEF checkRetryable
<1>3. f \in Chain(m)
  BY <1>1 DEF First, Chain
<1>4. \A d \in Chain(m) : /\ f.createdAt <= d.createdAt
                          /\ f.createdAt \in Nat /\ d.createdAt \in Nat
  BY <1>1, FirstIsOldest DEF Chain, LogInv, JobInv, PlatformTypeOK, Doc
<1> QED
  BY <1>1, <1>2, <1>3, <1>4, TypesAssumption
  DEF TypesAssumption, LogInv, JobInv, PlatformTypeOK

(* However often a request was retried, and however stale the secondary is *)
(* that the job reads, its window is counted from the moment the first     *)
(* notification was logged: in the service as a whole, where every retry   *)
(* has gone through queue, consumer and log.                               *)
THEOREM WindowStartsOnce ==
  KeysGuarded /\ DistinctWorkflows /\ NamesFirst =>
    (ServiceSpec => WindowFromFirstRequest)
<1> SUFFICES ASSUME KeysGuarded, DistinctWorkflows, NamesFirst
             PROVE  ServiceSpec => WindowFromFirstRequest
  OBVIOUS
<1> DEFINE Chained(p, r) == Chain(Notification(p, r).message)
           InWindow(p, r) == \A d \in Chained(p, r) :
             now + RetryDelay < d.createdAt + TemporaryFailureTimeout
           Counted == \A p \in Processes, r \in Runs :
             RunAt(p, r, "retry") /\ job[p][r].status = "temporary-failure" =>
               /\ job'[p][r].pc = "resend" => InWindow(p, r)
               /\ job'[p][r].pc = "expire" => ~InWindow(p, r)
<1>1. ASSUME LogInv, OriginInv, RootInv, [ServiceNext]_serviceVars
      PROVE  [Counted]_jobVars
  <2>1. CASE ServiceStep
    BY <1>1, <2>1, WindowStep
  <2>2. CASE UNCHANGED serviceVars
    BY <2>2 DEF serviceVars, jobVars
  <2> QED
    BY <1>1, <2>1, <2>2, ServiceStepOfNext
<1>2. [Counted]_jobVars =>
        [\A p \in Processes, r \in Runs :
           LET chain == Chain(Notification(p, r).message)
               inWindow == \A d \in chain :
                 now + RetryDelay < d.createdAt + TemporaryFailureTimeout
           IN RunAt(p, r, "retry") /\ job[p][r].status = "temporary-failure" =>
                /\ job'[p][r].pc = "resend" => inWindow
                /\ job'[p][r].pc = "expire" => ~inWindow]_jobVars
  OBVIOUS
<1> HIDE DEF Counted
<1> QED
  BY <1>1, <1>2, RootInvariant, PTL DEF ServiceSpec, WindowFromFirstRequest

-----------------------------------------------------------------------------
(* How many emails a chain can have: the documents of a chain are logged   *)
(* at least the retry delay apart, and a retry after a temporary failure   *)
(* was decided on, hence its parent logged, in time.                       *)

InTime(d) == \E f \in docs :
  /\ First(f, d.message)
  /\ d.createdAt + RetryDelay < f.createdAt + TemporaryFailureTimeout

TemporarilyFailed(d) ==
  /\ d.notificationId \in DOMAIN emails
  /\ emails[d.notificationId].status = "temporary-failure"

Timely(m) == \A d \in docs : d.id = m.id /\ TemporarilyFailed(d) => InTime(d)

RunTimely(c) ==
  c.pc = "resend" /\ c.status = "temporary-failure" =>
    \E d \in docs : SameNotification(c.current, d) /\ InTime(d)

SpacedPair(i, j) == \A d, e \in docs :
  d.message = emails[i].message /\ e.message = emails[j].message =>
    e.createdAt >= d.createdAt + RetryDelay

Spaced == \A i, j \in DOMAIN emails :
            i < j /\ SameChain(i, j) => SpacedPair(i, j)

WindowInv ==
  /\ \A p \in Processes, r \in Runs : RunTimely(job[p][r])
  /\ \A e \in queue : Timely(e.message)
  /\ \A p \in Processes : \A e \in Held(p) : Timely(e.message)
  /\ \A d \in docs : Timely(d.message)
  /\ Spaced

LEMMA InTimeKept ==
  ASSUME LogKept, NEW d, InTime(d), NEW e, SameNotification(d, e)
  PROVE  InTime(e)'
BY DEF InTime, LogKept, SameNotification, First

(* No message with the id of a document was there before it.               *)
LEMMA TimelyKept ==
  ASSUME LogInv, LogInv', OriginInv, LogKept, EmailsKept,
         SameDocs \/ \E p : Inserts(p), NEW m, Origin(m), Timely(m)
  PROVE  Timely(m)'
<1> SUFFICES ASSUME NEW e \in docs', e.id = m.id, TemporarilyFailed(e)'
             PROVE  InTime(e)'
  BY DEF Timely
<1>1. PICK d \in docs : SameNotification(d, e)
  <2>1. CASE SameDocs
    BY <2>1 DEF SameDocs
  <2>2. ASSUME NEW p, Inserts(p)
        PROVE  e \in docs
    <3>1. PICK doc : Inserted(doc, Current(p))
      BY <2>2 DEF Inserts
    <3>2. doc.id # m.id
      BY <3>1, FreshId
    <3> QED
      BY <3>1, <3>2 DEF Inserted
  <2> QED
    BY <2>1, <2>2 DEF SameNotification
<1>2. d.id = m.id
  BY <1>1 DEF SameNotification
<1>3. m.id # None
  BY <1>2, TypesAssumption DEF TypesAssumption, LogInv, JobInv, PlatformTypeOK, Doc
<1>4. m \notin Requests
  BY <1>2 DEF OriginInv, LoggedOK
<1>5. Parent(m, d)
  <2>1. PICK c \in docs : Parent(m, c)
    BY <1>3, <1>4 DEF Origin
  <2>2. c = d
    BY <1>2, <2>1 DEF Parent, LogInv, PipelineInv, OneId
  <2> QED
    BY <2>1, <2>2
<1>6. e.notificationId = d.notificationId
  <2>1. PICK c \in docs' : /\ SameNotification(d, c)
                           /\ c.notificationId = d.notificationId
    BY <1>5 DEF LogKept, Parent
  <2>2. c = e
    BY <1>1, <2>1 DEF SameNotification, LogInv, PipelineInv, OneId
  <2> QED
    BY <2>1, <2>2
<1>7. TemporarilyFailed(d)
  BY <1>5, <1>6, StatusSets DEF Parent, TemporarilyFailed, EmailsKept
<1>8. InTime(d)
  BY <1>2, <1>7 DEF Timely
<1> QED
  BY <1>1, <1>8, InTimeKept

LEMMA SpacedStays ==
  ASSUME LogInv, LogInv', Spaced, LogKept, EmailsKept,
         SameDocs \/ \E p : Inserts(p), DOMAIN emails' = DOMAIN emails,
         \A i \in DOMAIN emails : emails'[i].reference = emails[i].reference
  PROVE  Spaced'
<1>1. ASSUME NEW i \in DOMAIN emails, NEW e \in docs',
             e.message = emails[i].message
      PROVE  \E d \in docs : SameNotification(d, e)
  <2>1. CASE SameDocs
    BY <2>1 DEF SameDocs
  <2>2. ASSUME NEW p, Inserts(p)
        PROVE  e \in docs
    BY <1>1, <2>2 DEF Inserts, Inserted, LogInv, PipelineInv, EmailsLogged, SameKey
  <2> QED
    BY <2>1, <2>2 DEF SameNotification
<1>2. ASSUME NEW i \in DOMAIN emails, NEW j \in DOMAIN emails, i < j,
             SameChain(i, j)'
      PROVE  SpacedPair(i, j)'
  <2>1. SpacedPair(i, j)
    BY <1>2 DEF Spaced, SameChain, EmailsKept
  <2> SUFFICES ASSUME NEW d \in docs', NEW e \in docs',
                      d.message = emails[i].message,
                      e.message = emails[j].message
               PROVE  e.createdAt >= d.createdAt + RetryDelay
    BY DEF SpacedPair, EmailsKept
  <2>2. PICK c \in docs : SameNotification(c, d)
    BY <1>1
  <2>3. PICK b \in docs : SameNotification(b, e)
    BY <1>1
  <2> QED
    BY <2>1, <2>2, <2>3 DEF SpacedPair, SameNotification
<1> QED
  BY <1>2 DEF Spaced

LEMMA SpacedGrows ==
  ASSUME DistinctWorkflows, LogInv, OriginInv, ChainInv, Spaced,
         NEW p \in Processes, Accepts(p)
  PROVE  Spaced'
<1> DEFINE m == Current(p)
<1>0. PICK new : new = Len(emails) + 1
  OBVIOUS
<1>1. /\ DOMAIN emails \subseteq Nat
      /\ \A i \in DOMAIN emails : i < new
      /\ \A i \in DOMAIN emails' : i \in DOMAIN emails \/ i = new
      /\ \A i \in DOMAIN emails : emails'[i] = emails[i]
      /\ emails'[new].message = m
      /\ emails'[new].reference = CorrelationOf(m)
      /\ new \in Nat /\ UNCHANGED docs
  BY <1>0 DEF LogInv, JobInv, PlatformTypeOK, Accepts, AcceptEmail
<1>2. \A d \in docs : d.createdAt \in Nat
  BY DEF LogInv, JobInv, PlatformTypeOK, Doc
<1>3. ASSUME NEW i \in DOMAIN emails, OfChain(i, m)
      PROVE  SpacedPair(i, new)'
  <2>1. PICK c \in docs, n \in DOMAIN emails :
          /\ Parent(m, c) /\ emails[n].message = c.message /\ OfChain(n, m)
          /\ \A k \in DOMAIN emails : k > n => ~OfChain(k, m)
    BY <1>3, NextOfChain
  <2> SUFFICES ASSUME NEW d \in docs, NEW e \in docs,
                      d.message = emails[i].message, e.message = m
               PROVE  e.createdAt >= d.createdAt + RetryDelay
    BY <1>1 DEF SpacedPair
  <2> HIDE DEF m
  <2>2. e.createdAt >= c.createdAt + RetryDelay
    BY <2>1 DEF Parent, OriginInv, Delayed
  <2>3. CASE i = n
    BY <2>1, <2>2, <2>3 DEF LogInv, PipelineInv, OneDocument, SameKey
  <2>4. CASE i < n
    <3>1. SameChain(i, n)
      BY <1>3, <2>1 DEF OfChain, SameChain, ChainInv, Referenced
    <3>2. c.createdAt >= d.createdAt + RetryDelay
      BY <2>1, <2>4, <3>1 DEF Spaced, SpacedPair
    <3> QED
      BY <1>2, <2>2, <3>2, TypesAssumption DEF TypesAssumption
  <2> QED
    BY <1>1, <1>3, <2>1, <2>3, <2>4
<1> HIDE DEF m
<1>4. ASSUME NEW i \in DOMAIN emails', NEW j \in DOMAIN emails', i < j,
             SameChain(i, j)'
      PROVE  SpacedPair(i, j)'
  <2>1. i \in DOMAIN emails
    BY <1>1, <1>4
  <2>2. CASE j \in DOMAIN emails
    BY <1>1, <1>4, <2>1, <2>2 DEF Spaced, SameChain, SpacedPair
  <2>3. CASE j = new
    <3>1. OfChain(i, m)
      BY <1>1, <1>4, <2>1, <2>3 DEF SameChain, OfChain, ChainInv, Referenced
    <3> QED
      BY <1>3, <2>1, <2>3, <3>1
  <2> QED
    BY <1>1, <2>2, <2>3
<1> QED
  BY <1>4 DEF Spaced

LEMMA ResendEnters ==
  ASSUME LogInv, ServiceStep, NEW p \in Processes, NEW r \in Runs,
         job'[p][r].pc = "resend", job'[p][r] # job[p][r]
  PROVE  /\ CheckRetry(p, r)
         /\ job'[p][r].current = job[p][r].current
         /\ job'[p][r].status = job[p][r].status
<1>0. /\ job[p][r] \in RunState
      /\ job \in [Processes -> [Runs -> RunState]]
  BY DEF LogInv, JobInv
<1>1. ~Continue(p, r)
  BY <1>0 DEF Continue, NoRun
<1>2. ASSUME NEW label, RunGoto(p, r, label)
      PROVE  /\ label = "resend"
             /\ job'[p][r].current = job[p][r].current
             /\ job'[p][r].status = job[p][r].status
  BY <1>0, <1>2 DEF RunGoto, RunState
<1>3. ASSUME NEW q \in Processes, NEW s \in Runs, RunMoves(q, s)
      PROVE  CheckRetry(p, r)
  <2>1. PICK c : Becomes(q, s, c)
    BY <1>3, RunChange DEF RunMoves, LogInv
  <2>2. q = p /\ s = r
    BY <1>0, <2>1 DEF Becomes
  <2>3. ~CronTick(p, r)
    BY <1>2 DEF CronTick
  <2>4. ~FetchPending(p, r)
    <3>1. ASSUME NEW pending, job' = [job EXCEPT ![p][r].pc = "next",
                                                 ![p][r].pending = pending]
          PROVE  FALSE
      <4>1. job'[p][r] = [job[p][r] EXCEPT !.pc = "next", !.pending = pending]
        BY <1>0, <3>1
      <4> QED
        BY <1>0, <4>1 DEF RunState
    <3> QED
      BY <1>2, <3>1 DEF FetchPending
  <2>5. ~FinishRun(p, r)
    BY <1>0 DEF FinishRun, NoRun
  <2>6. ~GetNotifyStatus(p, r)
    <3>1. ASSUME NEW d, job' = [job EXCEPT ![p][r].pending =
                                  job[p][r].pending \ {d}]
          PROVE  job'[p][r].pc = job[p][r].pc
      BY <1>0, <3>1 DEF RunState
    <3>2. ASSUME NEW c2, job' = [job EXCEPT ![p][r] = c2]
          PROVE  job'[p][r] = c2
      BY <1>0, <3>2
    <3> QED
      BY <3>1, <3>2 DEF GetNotifyStatus, RunAt
  <2>7. ~RecordStatus(p, r)
    BY <1>1, <1>2 DEF RecordStatus
  <2>8. ~PublishStatus(p, r)
    BY <1>1, <1>2 DEF PublishStatus, PublishAndRetryIf
  <2>9. ~PublishRetry(p, r) /\ ~PublishRetryExpired(p, r)
    BY <1>1 DEF PublishRetry, PublishRetryExpired
  <2> QED
    BY <1>3, <2>2, <2>3, <2>4, <2>5, <2>6, <2>7, <2>8, <2>9
    DEF RunMoves, RunStep
<1>4. ASSUME NEW q \in Processes, CrashJob(q)
      PROVE  FALSE
  BY <1>4 DEF CrashJob, NoRun, LogInv, JobInv
<1>5. CheckRetry(p, r)
  BY <1>3, <1>4
  DEF ServiceStep, Ends, ConsumerMoves, Environment, QueueShrinksOnly
<1>6. \E label : RunGoto(p, r, label)
  BY <1>1, <1>5 DEF CheckRetry
<1> QED
  BY <1>2, <1>5, <1>6

LEMMA ResendInTime ==
  ASSUME NamesFirst, LogInv, OriginInv, RootInv, WindowInv,
         ServiceStep, LogKept, NEW p \in Processes, NEW r \in Runs
  PROVE  RunTimely(job[p][r])'
<1> SUFFICES ASSUME job'[p][r].pc = "resend",
                    job'[p][r].status = "temporary-failure"
             PROVE  \E e \in docs' :
                      SameNotification(job'[p][r].current, e) /\ InTime(e)'
  BY DEF RunTimely
<1>1. PICK d \in docs :
        SameNotification(job'[p][r].current, d) /\ InTime(d)
  <2>1. CASE job'[p][r] = job[p][r]
    BY <2>1 DEF WindowInv, RunTimely
  <2>2. CASE job'[p][r] # job[p][r]
    <3>1. /\ CheckRetry(p, r)
          /\ job'[p][r].current = Notification(p, r)
          /\ job[p][r].status = "temporary-failure"
      BY <2>2, ResendEnters DEF Notification
    <3>2. PICK f \in docs :
            /\ First(f, Notification(p, r).message)
            /\ checkRetryable(job[p][r].status, f.createdAt, now)
      BY <3>1, CountsFromFirst
    <3>3. PICK d \in docs : SameNotification(Notification(p, r), d)
      BY <3>1
      DEF CheckRetry, RunAt, LogInv, JobInv, RunOK, Notification, Tied
    <3>4. d.createdAt <= now /\ d.createdAt \in Nat /\ now \in Nat
            /\ f.createdAt \in Nat
      BY DEF OriginInv, LoggedOK, LogInv, JobInv, PlatformTypeOK, Doc
    <3>5. d.createdAt + RetryDelay < f.createdAt + TemporaryFailureTimeout
      BY <3>1, <3>2, <3>4, TypesAssumption DEF checkRetryable, TypesAssumption
    <3> QED
      BY <3>1, <3>2, <3>3, <3>5 DEF InTime, SameNotification
  <2> QED
    BY <2>1, <2>2
<1>2. PICK e \in docs' : SameNotification(d, e)
  BY DEF LogKept
<1> QED
  BY <1>1, <1>2, InTimeKept DEF SameNotification

LEMMA NewTimely ==
  ASSUME LogInv, OriginInv, WindowInv, ServiceStep,
         NEW e \in queue', e \notin queue
  PROVE  Timely(e.message)
<1>1. ASSUME NEW p \in Processes, NEW r \in Runs, RunMoves(p, r)
      PROVE  Timely(e.message)
  <2> DEFINE n == Notification(p, r)
  <2>1. /\ e.message = buildRetryMessage(n.message, n.id)
        /\ n \in Doc /\ Tied(n) /\ job[p][r].pc = "resend"
    BY <1>1, RunRetries DEF LogInv, RunMoves
  <2>2. e.message.id = n.id
    BY <2>1 DEF buildRetryMessage, Doc, Message
  <2>3. job[p][r].status = emails[n.notificationId].status
    BY <2>1, StatusSets DEF LogInv, JobInv, RunOK, Notification
  <2>4. PICK c \in docs : /\ SameNotification(n, c)
                          /\ c.notificationId = n.notificationId
    BY <2>1 DEF Tied
  <2> SUFFICES ASSUME NEW d \in docs, d.id = n.id, TemporarilyFailed(d)
               PROVE  InTime(d)
    BY <2>2 DEF Timely
  <2>5. d = c
    BY <2>4 DEF SameNotification, LogInv, PipelineInv, OneId
  <2>6. job[p][r].status = "temporary-failure"
    BY <2>3, <2>4, <2>5 DEF TemporarilyFailed
  <2>7. PICK b \in docs : SameNotification(n, b) /\ InTime(b)
    BY <2>1, <2>6 DEF WindowInv, RunTimely, Notification
  <2>8. b = d
    BY <2>7 DEF SameNotification, LogInv, PipelineInv, OneId
  <2> QED
    BY <2>7, <2>8
<1>2. ASSUME NEW p \in Processes, ConsumerMoves(p)
      PROVE  Timely(e.message)
  <2>1. ConsumerRetry(p, e)
    BY <1>2, ConsumerSays DEF ConsumerMoves, LogInv, ConsumerRetry
  <2>2. Current(p) \in Message
    BY <2>1 DEF ConsumerRetry, LogInv, RequestTypeOK, Current, Entry
  <2>3. e.message.id = None
    BY <2>1, <2>2 DEF ConsumerRetry, buildRetryMessage, Message
  <2> QED
    BY <2>3, TypesAssumption
    DEF Timely, TypesAssumption, LogInv, JobInv, PlatformTypeOK, Doc
<1>3. ASSUME NEW m \in Requests, Submit(m)
      PROVE  Timely(e.message)
  BY <1>3 DEF Submit, Timely, OriginInv, LoggedOK
<1> QED
  BY <1>1, <1>2, <1>3
  DEF ServiceStep, Ends, Environment, Deliver, CatchUp, Replicate, Tick,
      QueueShrinksOnly

LEMMA WindowInvStep ==
  ASSUME KeysGuarded, DistinctWorkflows, NamesFirst, LogInv, OriginInv,
         ChainInv, RootInv, WindowInv, ServiceStep
  PROVE  WindowInv'
<1>1. /\ LogInv' /\ LogKept /\ EmailsKept
      /\ SameDocs \/ \E p \in Processes : Inserts(p) /\ ConsumerMoves(p)
  BY LogInvStep, DocsStep
<1>2. ASSUME NEW m, Origin(m), Timely(m)
      PROVE  Timely(m)'
  BY <1>1, <1>2, TimelyKept
<1>3. ASSUME NEW e \in queue'
      PROVE  Timely(e.message)'
  <2>1. Timely(e.message) /\ Origin(e.message)
    BY NewTimely, NewEntries DEF WindowInv, OriginInv, EntryOK
  <2> QED
    BY <1>2, <2>1
<1>4. ASSUME NEW p \in Processes, NEW e \in Held(p)'
      PROVE  Timely(e.message)'
  <2>1. Timely(e.message) /\ Origin(e.message)
    BY <1>4, HeldStep DEF WindowInv, OriginInv, EntryOK, LogInv
  <2> QED
    BY <1>2, <2>1
<1>5. ASSUME NEW d \in docs'
      PROVE  Timely(d.message)'
  <2>1. ASSUME NEW c \in docs
        PROVE  Timely(c.message)'
    BY <1>2 DEF WindowInv, OriginInv, LoggedOK
  <2>2. ASSUME NEW p \in Processes, Inserts(p), d \notin docs
        PROVE  Timely(d.message)'
    <3>1. d.message = Current(p)
      BY <2>2 DEF Inserts, Inserted
    <3>2. /\ consumer[p].current \in Held(p)
          /\ d.message = consumer[p].current.message
      BY <2>2, <3>1, PlatformAssumption
      DEF Inserts, LogInv, RequestTypeOK, PlatformAssumption, Held, Current
    <3>3. Timely(d.message) /\ Origin(d.message)
      BY <3>2 DEF WindowInv, OriginInv, EntryOK
    <3> QED
      BY <1>2, <3>3
  <2> QED
    BY <1>1, <2>1, <2>2 DEF SameDocs, SameNotification
<1>6. Spaced'
  <2>1. CASE \E p \in Processes : Accepts(p) /\ ConsumerMoves(p)
    BY <2>1, SpacedGrows DEF WindowInv
  <2>2. CASE /\ DOMAIN emails' = DOMAIN emails
             /\ \A i \in DOMAIN emails :
                  emails'[i].reference = emails[i].reference
    BY <1>1, <2>2, SpacedStays DEF WindowInv
  <2> QED
    BY <2>1, <2>2, EmailsStep
<1>7. \A p \in Processes, r \in Runs : RunTimely(job[p][r])'
  BY <1>1, ResendInTime
<1> QED
  BY <1>3, <1>4, <1>5, <1>6, <1>7 DEF WindowInv

LEMMA WindowInvariant ==
  KeysGuarded /\ DistinctWorkflows /\ NamesFirst =>
    (ServiceSpec => [](LogInv /\ OriginInv /\ ChainInv /\ RootInv /\ WindowInv))
<1> SUFFICES ASSUME KeysGuarded, DistinctWorkflows, NamesFirst
             PROVE  ServiceSpec =>
                      [](LogInv /\ OriginInv /\ ChainInv /\ RootInv /\ WindowInv)
  OBVIOUS
<1>1. ServiceInit => WindowInv
  BY DEF ServiceInit, PlatformInit, ConsumerInit, JobInit, WindowInv, Held,
         Idle, NoRun, RunTimely, Spaced
<1>2. LogInv /\ OriginInv /\ ChainInv /\ RootInv /\ WindowInv
        /\ [ServiceNext]_serviceVars => WindowInv'
  BY WindowInvStep, ServiceStepOfNext
<1> QED
  BY <1>1, <1>2, ChainInvariant, RootInvariant, PTL DEF ServiceSpec

LEMMA AtMostOne ==
  ASSUME NEW S, \A x, y \in S : x = y
  PROVE  IsFiniteSet(S) /\ Cardinality(S) \in {0, 1}
<1>1. CASE S = {}
  BY <1>1, FS_EmptySet
<1>2. ASSUME NEW x \in S
      PROVE  IsFiniteSet(S) /\ Cardinality(S) \in {0, 1}
  <2>1. S = {x}
    BY <1>2
  <2>2. IsFiniteSet({x}) /\ Cardinality({x}) = 1
    BY FS_Singleton
  <2> QED
    BY <2>1, <2>2
<1> QED
  BY <1>1, <1>2

LEMMA UnionBound ==
  ASSUME NEW S, NEW T, IsFiniteSet(S), IsFiniteSet(T)
  PROVE  /\ IsFiniteSet(S \cup T)
         /\ Cardinality(S \cup T) <= Cardinality(S) + Cardinality(T)
<1>1. /\ IsFiniteSet(S \cup T)
      /\ Cardinality(S \cup T) =
           Cardinality(S) + Cardinality(T) - Cardinality(S \cap T)
  BY FS_Union
<1>2. IsFiniteSet(S \cap T)
  BY FS_Subset
<1>3. /\ Cardinality(S \cap T) \in Nat /\ Cardinality(S) \in Nat
      /\ Cardinality(T) \in Nat
  BY <1>2, FS_CardinalityType
<1> QED
  BY <1>1, <1>3

LEMMA DivApart ==
  ASSUME NEW a \in Nat, NEW b \in Nat, NEW n \in Nat \ {0}, a + n <= b
  PROVE  a \div n \in Nat /\ a \div n < b \div n
OBVIOUS

(* Every email has its document.                                           *)
LogOf(j) == CHOOSE d \in docs : d.message = emails[j].message

LEMMA LogOfEmail ==
  ASSUME LogInv, NEW j \in DOMAIN emails
  PROVE  /\ LogOf(j) \in docs /\ LogOf(j).message = emails[j].message
         /\ LogOf(j).createdAt \in Nat
         /\ \A d \in docs : d.message = emails[j].message => d = LogOf(j)
<1>1. \E d \in docs : d.message = emails[j].message
  BY DEF LogInv, PipelineInv, EmailsLogged
<1>2. LogOf(j) \in docs /\ LogOf(j).message = emails[j].message
  BY <1>1 DEF LogOf
<1> QED
  BY <1>2
  DEF LogInv, PipelineInv, OneDocument, SameKey, JobInv, PlatformTypeOK, Doc

(* A temporary failure that was retried was logged well within the window. *)
LEMMA RetriedInTime ==
  ASSUME LogInv, OriginInv, ChainInv, RootInv, WindowInv, DistinctWorkflows,
         NEW j \in DOMAIN emails, NEW k \in DOMAIN emails, j < k,
         SameChain(j, k), emails[j].status = "temporary-failure",
         NEW f \in docs, First(f, emails[j].message)
  PROVE  LogOf(j).createdAt + RetryDelay
           < f.createdAt + TemporaryFailureTimeout
<1>1. PICK l \in DOMAIN emails : Follows(l, j)
  BY DEF ChainInv, Followed
<1>2. PICK c \in docs : /\ c.notificationId = j
                        /\ c.id = emails[l].message.id
  BY <1>1 DEF Follows
<1>3. c = LogOf(j)
  <2>1. j # 0
    BY DEF LogInv, JobInv, PlatformTypeOK
  <2>2. c.message = emails[j].message
    BY <1>2, <2>1 DEF LogInv, NotesOK, NoteOK
  <2> QED
    BY <2>2, LogOfEmail
<1>4. Timely(LogOf(l).message) /\ LogOf(l).message = emails[l].message
  BY LogOfEmail DEF WindowInv
<1>5. InTime(c)
  BY <1>2, <1>4 DEF Timely, TemporarilyFailed
<1>6. PICK g \in docs :
        /\ First(g, c.message)
        /\ c.createdAt + RetryDelay < g.createdAt + TemporaryFailureTimeout
  BY <1>5 DEF InTime
<1>7. g = f
  BY <1>3, <1>6, OneFirst, LogOfEmail
<1> QED
  BY <1>3, <1>6, <1>7

(* Each of these stands in a retry interval of its own.                    *)
LEMMA FewTemporaryFailures ==
  ASSUME LogInv, OriginInv, ChainInv, RootInv, WindowInv, DistinctWorkflows,
         RetryDelay > 0, TemporaryFailureTimeout > 0,
         NEW i \in DOMAIN emails, NEW T,
         \A j \in T : /\ j \in DOMAIN emails /\ SameChain(j, i)
                      /\ emails[j].status = "temporary-failure"
                      /\ \E k \in DOMAIN emails : j < k /\ SameChain(j, k)
  PROVE  /\ IsFiniteSet(T)
         /\ Cardinality(T) <= (TemporaryFailureTimeout - 1) \div RetryDelay
<1> DEFINE m == emails[i].message
           K == (TemporaryFailureTimeout - 1) \div RetryDelay
<1>1. /\ RetryDelay \in Nat \ {0} /\ TemporaryFailureTimeout \in Nat \ {0}
      /\ DOMAIN emails \subseteq Nat
  BY TypesAssumption DEF TypesAssumption, LogInv, JobInv, PlatformTypeOK
<1>2. PICK f \in docs : First(f, m)
  BY LogOfEmail DEF RootInv, HasFirst
<1>3. f.createdAt \in Nat
  BY DEF LogInv, JobInv, PlatformTypeOK, Doc
<1>4. \A j \in T : /\ j \in DOMAIN emails
                   /\ LogOf(j).createdAt \in Nat
                   /\ f.createdAt <= LogOf(j).createdAt
                   /\ LogOf(j).createdAt + RetryDelay
                        < f.createdAt + TemporaryFailureTimeout
  <2> SUFFICES ASSUME NEW j \in T
               PROVE  /\ f.createdAt <= LogOf(j).createdAt
                      /\ LogOf(j).createdAt + RetryDelay
                           < f.createdAt + TemporaryFailureTimeout
    BY LogOfEmail
  <2>1. /\ emails[j].message.source = m.source
        /\ CorrelationOf(emails[j].message) = CorrelationOf(m)
    BY DEF SameChain, ChainInv, Referenced
  <2>2. First(f, emails[j].message)
    BY <1>2, <2>1 DEF First
  <2>3. LogOf(j) \in Chain(m)
    BY <2>1, LogOfEmail DEF Chain
  <2> QED
    BY <1>2, <2>2, <2>3, FirstIsOldest, RetriedInTime
<1>5. \A j, k \in T : j < k =>
        LogOf(k).createdAt >= LogOf(j).createdAt + RetryDelay
  <2> SUFFICES ASSUME NEW j \in T, NEW k \in T, j < k
               PROVE  LogOf(k).createdAt >= LogOf(j).createdAt + RetryDelay
    OBVIOUS
  <2>1. SameChain(j, k)
    BY DEF SameChain
  <2> QED
    BY <2>1, LogOfEmail DEF WindowInv, Spaced, SpacedPair
<1> DEFINE slot == [j \in T |->
                      (LogOf(j).createdAt - f.createdAt) \div RetryDelay]
<1>6. K \in Nat /\ 0..(K - 1) \subseteq Nat
  BY <1>1
<1>7. slot \in [T -> 0..(K - 1)]
  <2> SUFFICES ASSUME NEW j \in T
               PROVE  slot[j] \in 0..(K - 1)
    OBVIOUS
  <2> DEFINE age == LogOf(j).createdAt - f.createdAt
  <2>1. /\ age \in Nat /\ TemporaryFailureTimeout - 1 \in Nat
        /\ age + RetryDelay <= TemporaryFailureTimeout - 1
    BY <1>1, <1>3, <1>4
  <2> HIDE DEF age
  <2>2. age \div RetryDelay \in Nat /\ age \div RetryDelay < K
    BY <1>1, <2>1, DivApart
  <2> USE DEF age
  <2> QED
    BY <1>6, <2>2
<1>8. ASSUME NEW j \in T, NEW k \in T, j < k
      PROVE  slot[j] < slot[k]
  <2> DEFINE a == LogOf(j).createdAt - f.createdAt
             b == LogOf(k).createdAt - f.createdAt
  <2>1. a \in Nat /\ b \in Nat /\ a + RetryDelay <= b
    BY <1>1, <1>3, <1>4, <1>5, <1>8
  <2>2. a \div RetryDelay < b \div RetryDelay
    BY <1>1, <2>1, DivApart
  <2> QED
    BY <2>2
<1>9. slot \in Injection(T, 0..(K - 1))
  <2> HIDE DEF slot
  <2>1. ASSUME NEW j \in T, NEW k \in T, slot[j] = slot[k]
        PROVE  j = k
    <3>1. j \in Nat /\ k \in Nat /\ slot[j] \in Int
      BY <1>1, <1>4, <1>7
    <3> QED
      BY <1>8, <2>1, <3>1
  <2> QED
    BY <1>7, <2>1 DEF Injection, IsInjective
<1>10. IsFiniteSet(0..(K - 1)) /\ Cardinality(0..(K - 1)) = K
  BY <1>6, FS_Interval
<1> QED
  BY <1>9, <1>10, FS_Injection

LEMMA BoundedChains ==
  ASSUME LogInv, OriginInv, ChainInv, RootInv, WindowInv, DistinctWorkflows,
         RetryDelay > 0, TemporaryFailureTimeout > 0
  PROVE  RetriesBounded
<1> SUFFICES ASSUME NEW i \in DOMAIN emails
             PROVE  LET sameChain == {j \in DOMAIN emails :
                          /\ emails[j].message.source = emails[i].message.source
                          /\ emails[j].reference = emails[i].reference}
                        technical == {j \in sameChain :
                                        emails[j].status = "technical-failure"}
                    IN Cardinality(sameChain) <= 1 + Cardinality(technical)
                         + (TemporaryFailureTimeout - 1) \div RetryDelay
  BY DEF RetriesBounded
<1> DEFINE chain == {j \in DOMAIN emails :
                       /\ emails[j].message.source = emails[i].message.source
                       /\ emails[j].reference = emails[i].reference}
           technical == {j \in chain : emails[j].status = "technical-failure"}
           temporary == {j \in chain :
                           /\ emails[j].status = "temporary-failure"
                           /\ \E k \in chain : j < k}
           last == {j \in chain : \A k \in chain : ~(j < k)}
           K == (TemporaryFailureTimeout - 1) \div RetryDelay
<1>1. IsFiniteSet(chain) /\ DOMAIN emails \subseteq Nat
  <2>1. DOMAIN emails = 1..Len(emails) /\ Len(emails) \in Nat
    BY DEF LogInv, JobInv, PlatformTypeOK
  <2>2. IsFiniteSet(1..Len(emails))
    BY <2>1, FS_Interval
  <2>3. chain \subseteq 1..Len(emails)
    BY <2>1
  <2> QED
    BY <2>1, <2>2, <2>3, FS_Subset
<1>2. chain \subseteq (technical \cup temporary) \cup last
  BY DEF ChainInv, Followed, SameChain, Follows, retryableStatus
<1>3. IsFiniteSet(temporary) /\ Cardinality(temporary) <= K
  <2>1. \A j \in temporary :
          /\ j \in DOMAIN emails /\ SameChain(j, i)
          /\ emails[j].status = "temporary-failure"
          /\ \E k \in DOMAIN emails : j < k /\ SameChain(j, k)
    BY DEF SameChain
  <2> HIDE DEF temporary
  <2> QED
    BY <2>1, FewTemporaryFailures
<1>4. IsFiniteSet(last) /\ Cardinality(last) \in {0, 1}
  <2>1. \A j, k \in last : j = k
    BY <1>1
  <2> QED
    BY <2>1, AtMostOne
<1>5. IsFiniteSet(technical)
  BY <1>1, FS_Subset
<1> HIDE DEF chain, technical, temporary, last
<1>6. /\ IsFiniteSet(technical \cup temporary)
      /\ Cardinality(technical \cup temporary)
           <= Cardinality(technical) + Cardinality(temporary)
  BY <1>3, <1>5, UnionBound
<1>7. /\ IsFiniteSet((technical \cup temporary) \cup last)
      /\ Cardinality((technical \cup temporary) \cup last)
           <= Cardinality(technical \cup temporary) + Cardinality(last)
  BY <1>4, <1>6, UnionBound
<1>8. Cardinality(chain) <= Cardinality((technical \cup temporary) \cup last)
  BY <1>2, <1>7, FS_Subset
<1>9. Cardinality(chain) <= 1 + Cardinality(technical) + K
  <2>1. /\ Cardinality(chain) \in Nat /\ Cardinality(technical) \in Nat
        /\ Cardinality(temporary) \in Nat /\ Cardinality(last) \in Nat
        /\ Cardinality(technical \cup temporary) \in Nat
        /\ Cardinality((technical \cup temporary) \cup last) \in Nat
    BY <1>1, <1>3, <1>4, <1>5, <1>6, <1>7, FS_CardinalityType
  <2>2. K \in Int
    BY TypesAssumption DEF TypesAssumption
  <2> HIDE DEF K
  <2> QED
    BY <1>3, <1>4, <1>6, <1>7, <1>8, <2>1, <2>2
<1> QED
  BY <1>9 DEF chain, technical

(* However often a request fails, its customer gets a bounded number of    *)
(* emails that failed for a temporary reason: as many as retry delays fit  *)
(* into the window, and one more; technical failures come on top of them.  *)
THEOREM ChainsAreBounded ==
  /\ KeysGuarded /\ DistinctWorkflows /\ NamesFirst
  /\ RetryDelay > 0 /\ TemporaryFailureTimeout > 0
  => (ServiceSpec => []RetriesBounded)
<1> SUFFICES ASSUME KeysGuarded, DistinctWorkflows, NamesFirst,
                    RetryDelay > 0, TemporaryFailureTimeout > 0
             PROVE  ServiceSpec => []RetriesBounded
  OBVIOUS
<1>1. LogInv /\ OriginInv /\ ChainInv /\ RootInv /\ WindowInv
        => RetriesBounded
  BY BoundedChains
<1> QED
  BY <1>1, WindowInvariant, PTL
=============================================================================
