---------------------------- MODULE CommsRequest ----------------------------
(***************************************************************************)
(* The comms request consumer: one sqs-consumer per process polls a batch, *)
(* handleCommRequestMessages processes it message by message and completes *)
(* every message whatever happened, then the batch is deleted.  An action  *)
(* is what runs between two awaits of processV1CommsRequest.               *)
(***************************************************************************)
EXTENDS CommsPlatform

CONSTANT BatchSize   \* messaging.batchSize

ASSUME BatchAssumption == BatchSize \in Nat \ {0}

VARIABLE consumer

consumerVars == <<platform, consumer>>

(* The consumer of process p: where it is, the messages of the batch still *)
(* to process, the one being processed, those completed, and the outcome   *)
(* of sendEmail.                                                           *)
ConsumerState ==
  [pc : {"idle", "next", "invalid", "check", "insert", "received", "send",
         "sent", "sending", "failed", "failure", "retry"},
   batch : SUBSET Entry, current : Entry \cup {None},
   completed : SUBSET Entry, notificationId : Nat,
   failure : {"internal-failure", "technical-failure", None}]

Idle == [pc |-> "idle", batch |-> {}, current |-> None, completed |-> {},
         notificationId |-> 0, failure |-> None]

Current(p) == consumer[p].current.message

At(p, label) == consumer[p].pc = label

Goto(p, label) == consumer' = [consumer EXCEPT ![p].pc = label]

(* Back to the loop over the batch; the message is pushed to completed,    *)
(* an error that reached the handler having been caught and logged.        *)
Complete(p) ==
  consumer' = [consumer EXCEPT
    ![p] = [Idle EXCEPT !.pc = "next", !.batch = consumer[p].batch,
              !.completed = consumer[p].completed \cup {consumer[p].current}]]

-----------------------------------------------------------------------------
(* SQS hides a received message from other receivers until its visibility  *)
(* timeout runs out or it is delivered twice all the same (redelivery).    *)
Held(p) == consumer[p].batch \cup consumer[p].completed \cup
           (IF consumer[p].current = None THEN {} ELSE {consumer[p].current})

Receivable ==
  {e \in queue :
     /\ e.due <= now
     /\ \/ "redelivery" \in Faults /\ Room
        \/ \A p \in Processes : e \notin Held(p)}

(* Mutant: the batch is deleted from the queue when it is received. *)
PollDeleting(p) ==
  /\ At(p, "idle")
  /\ \E batch \in SUBSET Receivable :
       /\ batch # {} /\ Cardinality(batch) <= BatchSize
       /\ consumer' = [consumer EXCEPT ![p].pc = "next", ![p].batch = batch]
       /\ queue' = queue \ batch
  /\ UNCHANGED <<docs, replica, topic, emails, now, faulted>>

Poll(p) ==
  /\ At(p, "idle")
  /\ \E batch \in SUBSET Receivable :
       /\ batch # {} /\ Cardinality(batch) <= BatchSize
       /\ consumer' = [consumer EXCEPT ![p].pc = "next", ![p].batch = batch]
  /\ UNCHANGED platform

(* Mutant: what cannot be processed is not completed. *)
NextMessageReturningBad(p) ==
  /\ At(p, "next")
  /\ \E e \in consumer[p].batch :
       LET m == e.message
           processed == m.body # "unparseable" /\ m.type \in processorMap
       IN consumer' = [consumer EXCEPT
            ![p].batch = @ \ {e},
            ![p].current = IF processed THEN e ELSE None,
            ![p].pc = IF ~processed THEN "next"
                      ELSE IF v1(m) THEN "check" ELSE "invalid"]
  /\ UNCHANGED platform

(* parseSqsMessage and getCommsProcessor throw for a body that does not    *)
(* parse or a type nobody handles: the message is completed unprocessed.   *)
NextMessage(p) ==
  /\ At(p, "next")
  /\ \E e \in consumer[p].batch :
       LET m == e.message
           processed == m.body # "unparseable" /\ m.type \in processorMap
       IN consumer' = [consumer EXCEPT
            ![p].batch = @ \ {e},
            ![p].current = IF processed THEN e ELSE None,
            ![p].completed = IF processed THEN @ ELSE @ \cup {e},
            ![p].pc = IF ~processed THEN "next"
                      ELSE IF v1(m) THEN "check" ELSE "invalid"]
  /\ UNCHANGED platform

(* sqs-consumer deletes what the handler returned; a delete that fails     *)
(* leaves the messages to be delivered again.                              *)
DeleteBatch(p) ==
  /\ At(p, "next") /\ consumer[p].batch = {}
  /\ \E kept \in SUBSET consumer[p].completed :
       /\ kept # {} => "sqs" \in Faults /\ Room
       /\ queue' = queue \ (consumer[p].completed \ kept)
  /\ consumer' = [consumer EXCEPT ![p] = Idle]
  /\ UNCHANGED <<docs, replica, topic, emails, now, faulted>>

-----------------------------------------------------------------------------
PublishInvalidRequest(p) ==
  /\ At(p, "invalid")
  /\ Publish(buildInvalidMessage(Current(p)))
  /\ Complete(p)
  /\ UNCHANGED <<docs, replica, queue, emails, now, faulted>>

(* Mutant: a repeated request is acknowledged to its publisher. *)
CheckIdempotencyAcknowledging(p) ==
  /\ At(p, "check")
  /\ IF checkNotificationIdempotency(Current(p))
     THEN Complete(p) /\ Publish(buildReceivedMessage(Current(p)))
     ELSE Goto(p, "insert") /\ UNCHANGED topic
  /\ UNCHANGED <<docs, replica, queue, emails, now, faulted>>

CheckIdempotency(p) ==
  /\ At(p, "check")
  /\ \/ /\ IF checkNotificationIdempotency(Current(p))
           THEN Complete(p)
           ELSE Goto(p, "insert")
        /\ UNCHANGED faulted
     \/ /\ "db" \in Faults
        /\ Complete(p)
        /\ Fault(Current(p))
  /\ UNCHANGED <<docs, replica, queue, topic, emails, now>>

(* Mutant: an error of the insert is logged and processing goes on. *)
AddRequestIgnoringError(p) ==
  /\ At(p, "insert")
  /\ \/ DuplicateKey(Current(p)) /\ UNCHANGED docs
     \/ ~DuplicateKey(Current(p)) /\ addNotificationRequest(Current(p), now)
     \/ "db" \in Faults /\ UNCHANGED docs
  /\ Goto(p, "received")
  /\ UNCHANGED <<replica, queue, topic, emails, now, faulted>>

AddRequest(p) ==
  LET m == Current(p) IN
  /\ At(p, "insert")
  /\ \/ /\ DuplicateKey(m)
        /\ Complete(p)
        /\ UNCHANGED <<docs, faulted>>
     \/ /\ ~DuplicateKey(m)
        /\ addNotificationRequest(m, now)
        /\ Goto(p, "received")
        /\ UNCHANGED faulted
     \/ /\ "db" \in Faults
        /\ \/ UNCHANGED docs
           \/ ~DuplicateKey(m) /\ addNotificationRequest(m, now)
        /\ Complete(p)
        /\ Fault(m)
  /\ UNCHANGED <<replica, queue, topic, emails, now>>

PublishReceived(p) ==
  /\ At(p, "received")
  /\ Publish(buildReceivedMessage(Current(p)))
  /\ Goto(p, "send")
  /\ UNCHANGED <<docs, replica, queue, emails, now, faulted>>

(* trySendViaNotify: a response, an error response of Notify (4xx: internal*)
(* failure, 5xx: technical failure), or an error without response, which   *)
(* is thrown through processV1CommsRequest to the handler.  After a 5xx or *)
(* no response Notify may have accepted the email all the same.            *)
SendEmail(p) ==
  LET m == Current(p)
      FailedWith(status) ==
        consumer' = [consumer EXCEPT ![p].pc = "failed", ![p].failure = status]
  IN
  /\ At(p, "send")
  /\ \/ /\ AcceptEmail(m)
        /\ consumer' = [consumer EXCEPT ![p].pc = "sent",
                                        ![p].notificationId = Len(emails) + 1]
        /\ UNCHANGED faulted
     \/ /\ \E status \in {"internal-failure", "technical-failure"} :
             FailedWith(status)
        /\ UNCHANGED <<emails, faulted>>
     \/ /\ "notify" \in Faults
        /\ AcceptEmail(m)
        /\ FailedWith("technical-failure")
        /\ Fault(m)
     \/ /\ "notify" \in Faults
        /\ AcceptEmail(m) \/ UNCHANGED emails
        /\ Complete(p)
        /\ Fault(m)
  /\ UNCHANGED <<docs, replica, queue, topic, now>>

-----------------------------------------------------------------------------
(* updateNotificationStatus, then "label" if it succeeded; otherwise       *)
(* processNotifySuccess and processNotifyError log the error and return.   *)
Record(p, status, notificationId, label) ==
  LET m == Current(p) IN
  /\ \/ /\ updateNotificationStatus(m, status, notificationId)
        /\ Goto(p, label)
        /\ UNCHANGED faulted
     \/ /\ "db" \in Faults
        /\ UNCHANGED docs \/ updateNotificationStatus(m, status, notificationId)
        /\ Complete(p)
        /\ Fault(m)
  /\ UNCHANGED <<replica, queue, topic, emails, now>>

RecordSending(p) ==
  At(p, "sent") /\ Record(p, "sending", consumer[p].notificationId, "sending")

PublishSending(p) ==
  /\ At(p, "sending")
  /\ Publish(buildUpdateMessage(Current(p), "sending"))
  /\ Complete(p)
  /\ UNCHANGED <<docs, replica, queue, emails, now, faulted>>

(* Mutant: only server errors are recorded. *)
RecordServerErrors(p) ==
  /\ At(p, "failed")
  /\ IF consumer[p].failure = "technical-failure"
     THEN Record(p, "technical-failure", 0, "failure")
     ELSE Complete(p) /\ UNCHANGED platform

RecordFailure(p) ==
  At(p, "failed") /\ Record(p, consumer[p].failure, 0, "failure")

PublishFailure(p) ==
  /\ At(p, "failure")
  /\ Publish(buildUpdateMessage(Current(p), consumer[p].failure))
  /\ IF consumer[p].failure = "technical-failure" THEN Goto(p, "retry")
                                                  ELSE Complete(p)
  /\ UNCHANGED <<docs, replica, queue, emails, now, faulted>>

(* processNotifyError calls publishRetryRequest without a retryId. *)
RetryFailure(p) ==
  /\ At(p, "retry")
  /\ publishRetryRequest(Current(p), None)
  /\ Complete(p)
  /\ UNCHANGED <<docs, replica, topic, emails, now>>

ConsumerStep(p) ==
  \/ Poll(p) \/ NextMessage(p) \/ DeleteBatch(p)
  \/ PublishInvalidRequest(p) \/ CheckIdempotency(p) \/ AddRequest(p)
  \/ PublishReceived(p) \/ SendEmail(p)
  \/ RecordSending(p) \/ PublishSending(p)
  \/ RecordFailure(p) \/ PublishFailure(p) \/ RetryFailure(p)

(* The process dies, or is stopped with a batch in flight: the messages it *)
(* held stay in the queue, the message it was processing stops half-way.   *)
CrashConsumer(p) ==
  /\ "crash" \in Faults /\ Room
  /\ consumer[p] # Idle
  /\ consumer' = [consumer EXCEPT ![p] = Idle]
  /\ faulted' = IF consumer[p].current = None THEN faulted
                ELSE faulted \cup {Current(p)}
  /\ UNCHANGED <<docs, replica, queue, topic, emails, now>>

ConsumerInit == consumer = [p \in Processes |-> Idle]

-----------------------------------------------------------------------------
(* Type correctness, with what the places of the pipeline say of the       *)
(* process-local state.                                                    *)
RequestTypeOK ==
  /\ PlatformTypeOK
  /\ consumer \in [Processes -> ConsumerState]
  /\ \A p \in Processes :
       /\ consumer[p].pc \notin {"idle", "next"} =>
            consumer[p].current \in Entry
       /\ consumer[p].pc \in {"failed", "failure", "retry"} =>
            consumer[p].failure # None

(* However often SQS delivers a request, to however many processes, with   *)
(* crashes and stale reads in between: Notify accepts at most one email    *)
(* for one (source, id).                                                   *)
AtMostOneEmail ==
  \A i, j \in DOMAIN emails :
    SameKey(emails[i].message, emails[j].message) => i = j

(* No email leaves without the request being in the log first: a crash     *)
(* right after sendEmail never leaves an email nobody can trace.           *)
RecordedBeforeSent ==
  \A i \in DOMAIN emails :
    \E d \in docs : SameKey(d.message, emails[i].message)

(* Process p has logged its request and not yet handed it to Notify. *)
Sending(p) == consumer[p].pc \in {"received", "send"}

(* From the insert into the log until sendEmail one consumer, and only     *)
(* one, owns the request: the log has it, Notify never saw it, and no      *)
(* other process is about to send it.  This is what makes AtMostOneEmail   *)
(* inductive.                                                              *)
ExclusiveSender ==
  \A p \in Processes : Sending(p) =>
    /\ \E d \in docs : SameKey(d.message, Current(p))
    /\ \A i \in DOMAIN emails : ~SameKey(emails[i].message, Current(p))
    /\ \A q \in Processes \ {p} :
         Sending(q) => ~SameKey(Current(q), Current(p))

(* A request stays "pending-publish" (which no job ever looks at again)    *)
(* only while a consumer is working on it or because a fault hit it.       *)
StrandedOnlyByFault ==
  \A d \in docs :
    \/ d.status # "pending-publish"
    \/ \E m \in faulted : SameKey(d.message, m)
    \/ \E p \in Processes :
         /\ consumer[p].pc \in {"received", "send", "sent", "failed"}
         /\ SameKey(d.message, Current(p))

(* A request that satisfies the schema leaves the queue only once it is in *)
(* the log, unless a fault hit it: nothing is dropped silently although    *)
(* every message is completed.                                             *)
DroppedOnlyByFault ==
  [][\A e \in queue \ queue' :
       v1(e.message) /\ e.message.type \in processorMap =>
         \/ e.message \in faulted
         \/ \E d \in docs : SameKey(d.message, e.message)]_consumerVars

(* What subscribers see of one valid request while it is being sent:       *)
(* received (or retry) first, then one outcome, each once at most.         *)
ReceivedThenOutcome ==
  \A i, j \in DOMAIN topic :
    /\ i < j
    /\ v1(topic[i].about) /\ v1(topic[j].about)
    /\ SameKey(topic[i].about, topic[j].about)
    => /\ topic[i].type \in {"received", "retry"}
       /\ topic[j].type \notin {"received", "retry"}

(* The retry messages the service puts on the request queue carry an id,   *)
(* which the AsyncAPI document and the schema v1 require.                   *)
RetryHasId == \A e \in queue : e.message.type = "retry" => e.message.id # None

-----------------------------------------------------------------------------
(* The component on its own: publishers send requests, time passes, the    *)
(* secondary catches up; nobody asks Notify for the status of an email.    *)
ConsumerEnvironment ==
  /\ \/ \E m \in Requests : Submit(m)
     \/ CatchUp
     \/ Tick
  /\ UNCHANGED consumer

RequestInit == PlatformInit /\ ConsumerInit

RequestNext ==
  \/ \E p \in Processes : ConsumerStep(p) \/ CrashConsumer(p)
  \/ ConsumerEnvironment

RequestSpec == RequestInit /\ [][RequestNext]_consumerVars
=============================================================================
