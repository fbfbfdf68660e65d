------------------------- MODULE CommsRequestProofs -------------------------
(***************************************************************************)
(* Theorems about the consumer, for every number of processes, of requests *)
(* and of faults.  First its types, and that no request is emailed twice.  *)
(* Then that the consumers implement NotificationLifecycle: from the       *)
(* insert on, one process has a claim on the request, and its place in the *)
(* pipeline says what log, emails and topic hold of it.  All of this needs *)
(* the keys of the log to be guarded, by the unique index or, without it,  *)
(* by the check of a process that is the only one.                         *)
(***************************************************************************)
EXTENDS CommsRequest, PlatformProofs

-----------------------------------------------------------------------------
(* The consumer keeps its types: the state of one process changes at a     *)
(* time, to a well-typed state.                                            *)

Placed(c) ==
  /\ c.pc \notin {"idle", "next"} => c.current \in Entry
  /\ c.pc \in {"failed", "failure", "retry"} => c.failure # None

LEMMA TypeByProcess ==
  RequestTypeOK <=> /\ PlatformTypeOK
                    /\ consumer \in [Processes -> ConsumerState]
                    /\ \A p \in Processes : Placed(consumer[p])
BY DEF RequestTypeOK, Placed

LEMMA ProcessUpdate ==
  ASSUME RequestTypeOK, NEW p \in Processes, NEW c \in ConsumerState,
         Placed(c), consumer' = [consumer EXCEPT ![p] = c]
  PROVE  /\ consumer' \in [Processes -> ConsumerState]
         /\ \A q \in Processes : Placed(consumer'[q])
BY TypeByProcess

LEMMA CompleteType ==
  ASSUME RequestTypeOK, NEW p \in Processes, Complete(p),
         consumer[p].current \in Entry
  PROVE  /\ consumer' \in [Processes -> ConsumerState]
         /\ \A q \in Processes : Placed(consumer'[q])
<1> DEFINE c == [Idle EXCEPT !.pc = "next", !.batch = consumer[p].batch,
              !.completed = consumer[p].completed \cup {consumer[p].current}]
<1>1. consumer[p] \in ConsumerState
  BY DEF RequestTypeOK
<1>2. c \in ConsumerState /\ Placed(c)
  BY <1>1 DEF Idle, ConsumerState, Placed
<1>3. consumer' = [consumer EXCEPT ![p] = c]
  BY DEF Complete
<1> HIDE DEF c
<1> QED
  BY <1>2, <1>3, ProcessUpdate

LEMMA GotoType ==
  ASSUME RequestTypeOK, NEW p \in Processes,
         NEW label \in {"insert", "received", "send", "sending", "failure",
                        "retry"},
         Goto(p, label), consumer[p].current \in Entry,
         label \in {"failure", "retry"} => consumer[p].failure # None
  PROVE  /\ consumer' \in [Processes -> ConsumerState]
         /\ \A q \in Processes : Placed(consumer'[q])
<1> DEFINE c == [consumer[p] EXCEPT !.pc = label]
<1>1. consumer[p] \in ConsumerState
  BY DEF RequestTypeOK
<1>2. c \in ConsumerState /\ Placed(c)
  BY <1>1 DEF ConsumerState, Placed
<1>3. consumer' = [consumer EXCEPT ![p] = c]
  BY DEF Goto
<1> HIDE DEF c
<1> QED
  BY <1>2, <1>3, ProcessUpdate

LEMMA RecordType ==
  ASSUME RequestTypeOK, NEW p \in Processes,
         NEW status \in notifyStatuses, NEW notificationId \in Nat,
         NEW label \in {"sending", "failure"},
         Record(p, status, notificationId, label),
         consumer[p].current \in Entry,
         label = "failure" => consumer[p].failure # None
  PROVE  RequestTypeOK'
<1> USE DEF PlatformTypeOK
<1>1. Current(p) \in Message
  BY DEF Current, Entry
<1>2. docs' \subseteq Doc
  BY <1>1, UpdateKeeps DEF RequestTypeOK, Record
<1>3. faulted' \subseteq Message
  BY <1>1 DEF RequestTypeOK, Record, Fault
<1>4. /\ consumer' \in [Processes -> ConsumerState]
      /\ \A q \in Processes : Placed(consumer'[q])
  BY CompleteType, GotoType DEF Record
<1> QED
  BY <1>2, <1>3, <1>4 DEF RequestTypeOK, Record, Placed

LEMMA ConsumerStepType ==
  ASSUME RequestTypeOK, NEW p \in Processes, ConsumerStep(p)
  PROVE  RequestTypeOK'
<1> DEFINE ConsumerOK == /\ consumer \in [Processes -> ConsumerState]
                         /\ \A q \in Processes : Placed(consumer[q])
<1> SUFFICES PlatformTypeOK' /\ ConsumerOK'
  BY DEF RequestTypeOK, Placed
<1>0. /\ consumer[p] \in ConsumerState
      /\ consumer[p].pc \notin {"idle", "next"} =>
           consumer[p].current \in Entry /\ Current(p) \in Message
      /\ consumer[p].pc \in {"failed", "failure", "retry"} =>
           consumer[p].failure \in {"internal-failure", "technical-failure"}
  BY DEF RequestTypeOK, Entry, Current, ConsumerState
<1>a. PlatformTypeOK
  BY DEF RequestTypeOK
<1>1. CASE Poll(p)
  <2>1. PICK batch \in SUBSET Receivable :
          consumer' = [consumer EXCEPT ![p].pc = "next", ![p].batch = batch]
    BY <1>1 DEF Poll
  <2> DEFINE c == [consumer[p] EXCEPT !.pc = "next", !.batch = batch]
  <2>2. c \in ConsumerState /\ Placed(c)
    BY <1>0, <1>a DEF ConsumerState, Placed, Receivable, PlatformTypeOK
  <2>3. consumer' = [consumer EXCEPT ![p] = c]
    BY <2>1
  <2> HIDE DEF c
  <2> QED
    BY <1>1, <1>a, <2>2, <2>3, ProcessUpdate DEF Poll, platform, PlatformTypeOK
<1>2. CASE NextMessage(p)
  <2>1. PICK e \in consumer[p].batch, processed \in BOOLEAN :
          consumer' = [consumer EXCEPT
            ![p].batch = @ \ {e},
            ![p].current = IF processed THEN e ELSE None,
            ![p].completed = IF processed THEN @ ELSE @ \cup {e},
            ![p].pc = IF ~processed THEN "next"
                      ELSE IF v1(e.message) THEN "check" ELSE "invalid"]
    BY <1>2 DEF NextMessage
  <2> DEFINE c == [consumer[p] EXCEPT
            !.batch = @ \ {e},
            !.current = IF processed THEN e ELSE None,
            !.completed = IF processed THEN @ ELSE @ \cup {e},
            !.pc = IF ~processed THEN "next"
                   ELSE IF v1(e.message) THEN "check" ELSE "invalid"]
  <2>2. c \in ConsumerState /\ Placed(c)
    BY <1>0 DEF ConsumerState, Placed
  <2>3. consumer' = [consumer EXCEPT ![p] = c]
    BY <2>1, <1>0
  <2> HIDE DEF c
  <2> QED
    BY <1>2, <1>a, <2>2, <2>3, ProcessUpdate
    DEF NextMessage, platform, PlatformTypeOK
<1>3. CASE DeleteBatch(p)
  <2>1. Idle \in ConsumerState /\ Placed(Idle)
    BY DEF Idle, ConsumerState, Placed
  <2> QED
    BY <1>3, <1>a, <2>1, ProcessUpdate DEF DeleteBatch, PlatformTypeOK
<1>4. CASE PublishInvalidRequest(p)
  BY <1>4, <1>0, <1>a, InvalidMessageType, PublishType, CompleteType
  DEF PublishInvalidRequest, PlatformTypeOK, At
<1>5. CASE CheckIdempotency(p)
  BY <1>5, <1>0, <1>a, CompleteType, GotoType
  DEF CheckIdempotency, PlatformTypeOK, At, Fault
<1>6. CASE AddRequest(p)
  <2>1. docs' \subseteq Doc
    BY <1>6, <1>0, <1>a, AddKeeps DEF AddRequest, At, PlatformTypeOK
  <2> QED
    BY <1>6, <1>0, <1>a, <2>1, CompleteType, GotoType
    DEF AddRequest, PlatformTypeOK, At, Fault
<1>7. CASE PublishReceived(p)
  BY <1>7, <1>0, <1>a, ReceivedMessageType, PublishType, GotoType
  DEF PublishReceived, PlatformTypeOK, At
<1>8. CASE SendEmail(p)
  <2>1. emails' \in Seq(Email)
    BY <1>8, <1>0, <1>a, AcceptEmailType DEF SendEmail, At, PlatformTypeOK
  <2>2. faulted' \subseteq Message
    BY <1>8, <1>0, <1>a DEF SendEmail, At, PlatformTypeOK, Fault
  <2>3. ConsumerOK'
    <3> DEFINE sent == [consumer[p] EXCEPT !.pc = "sent",
                                           !.notificationId = Len(emails) + 1]
               failed(status) == [consumer[p] EXCEPT !.pc = "failed",
                                                     !.failure = status]
    <3>1. consumer[p].current \in Entry
      BY <1>8, <1>0 DEF SendEmail, At
    <3>2. Len(emails) + 1 \in Nat
      BY <1>a DEF PlatformTypeOK
    <3>3. sent \in ConsumerState /\ Placed(sent)
      BY <3>1, <3>2, <1>0 DEF ConsumerState, Placed
    <3>4. \A status \in {"internal-failure", "technical-failure"} :
            failed(status) \in ConsumerState
      BY <1>0 DEF ConsumerState
    <3>5. \A status \in {"internal-failure", "technical-failure"} :
            Placed(failed(status))
      BY <3>1, <1>0, TypesAssumption
      DEF ConsumerState, Placed, TypesAssumption, notifyStatuses
    <3> HIDE DEF sent, failed
    <3>6. CASE Complete(p)
      BY <3>1, <3>6, CompleteType
    <3>7. CASE consumer' = [consumer EXCEPT ![p] = sent]
      BY <3>3, <3>7, ProcessUpdate
    <3>8. CASE \E status \in {"internal-failure", "technical-failure"} :
                 consumer' = [consumer EXCEPT ![p] = failed(status)]
      BY <3>4, <3>5, <3>8, ProcessUpdate
    <3> QED
      BY <1>8, <3>6, <3>7, <3>8 DEF SendEmail, sent, failed
  <2> QED
    BY <1>8, <1>a, <2>1, <2>2, <2>3 DEF SendEmail, PlatformTypeOK
<1>9. CASE RecordSending(p)
  <2>1. consumer[p].notificationId \in Nat /\ "sending" \in notifyStatuses
    BY <1>0 DEF ConsumerState, notifyStatuses
  <2>2. RequestTypeOK'
    BY <1>9, <1>0, <2>1, RecordType DEF RecordSending, At
  <2> QED
    BY <2>2 DEF RequestTypeOK, Placed
<1>10. CASE PublishSending(p)
  BY <1>10, <1>0, <1>a, UpdateMessageType, PublishType, CompleteType
  DEF PublishSending, PlatformTypeOK, At, notifyStatuses
<1>11. CASE RecordFailure(p)
  <2>1. /\ consumer[p].failure \in notifyStatuses
        /\ consumer[p].failure # None
        /\ 0 \in Nat
    <3>1. consumer[p].failure \in {"internal-failure", "technical-failure"}
      BY <1>11, <1>0 DEF RecordFailure, At
    <3> QED
      BY <3>1, TypesAssumption DEF notifyStatuses, TypesAssumption
  <2>2. RequestTypeOK'
    BY <1>11, <1>0, <2>1, RecordType DEF RecordFailure, At
  <2> QED
    BY <2>2 DEF RequestTypeOK, Placed
<1>12. CASE PublishFailure(p)
  <2>1. /\ consumer[p].failure \in notifyStatuses
        /\ consumer[p].failure # None
    <3>1. consumer[p].failure \in {"internal-failure", "technical-failure"}
      BY <1>12, <1>0 DEF PublishFailure, At
    <3> QED
      BY <3>1, TypesAssumption DEF notifyStatuses, TypesAssumption
  <2>2. topic' \in Seq(Event)
    BY <1>12, <1>0, <1>a, <2>1, UpdateMessageType, PublishType
    DEF PublishFailure, At, PlatformTypeOK
  <2>3. ConsumerOK'
    BY <1>12, <1>0, <2>1, CompleteType, GotoType DEF PublishFailure, At
  <2> QED
    BY <1>12, <1>a, <2>2, <2>3 DEF PublishFailure, PlatformTypeOK
<1>13. CASE RetryFailure(p)
  <2>1. /\ Current(p) \in Message
        /\ consumer[p].current \in Entry
    BY <1>13, <1>0 DEF RetryFailure, At
  <2>2. queue' \subseteq Entry /\ faulted' \subseteq Message
    BY <1>13, <1>a, <2>1, PublishRetryType DEF RetryFailure, PlatformTypeOK
  <2> QED
    BY <1>13, <1>a, <2>1, <2>2, CompleteType DEF RetryFailure, PlatformTypeOK
<1> QED
  BY <1>1, <1>2, <1>3, <1>4, <1>5, <1>6, <1>7, <1>8, <1>9, <1>10, <1>11,
     <1>12, <1>13 DEF ConsumerStep

LEMMA RequestNextType ==
  ASSUME RequestTypeOK, [RequestNext]_consumerVars
  PROVE  RequestTypeOK'
<1> USE DEF PlatformTypeOK
<1>1. ASSUME NEW p \in Processes, ConsumerStep(p)
      PROVE  RequestTypeOK'
  BY <1>1, ConsumerStepType
<1>2. ASSUME NEW p \in Processes, CrashConsumer(p)
      PROVE  RequestTypeOK'
  <2>1. Idle \in ConsumerState /\ Placed(Idle)
    BY DEF Idle, ConsumerState, Placed
  <2>2. /\ consumer' \in [Processes -> ConsumerState]
        /\ \A q \in Processes : Placed(consumer'[q])
    BY <1>2, <2>1, ProcessUpdate DEF CrashConsumer
  <2>3. faulted' \subseteq Message
    BY <1>2 DEF CrashConsumer, RequestTypeOK, ConsumerState, Current, Entry
  <2> QED
    BY <1>2, <2>2, <2>3 DEF CrashConsumer, RequestTypeOK, Placed
<1>3. ASSUME NEW m \in Requests, Submit(m), UNCHANGED consumer
      PROVE  RequestTypeOK'
  <2>1. [message |-> m, due |-> 0] \in Entry
    BY TypesAssumption DEF TypesAssumption, Entry
  <2> QED
    BY <1>3, <2>1 DEF Submit, RequestTypeOK
<1>4. CASE CatchUp /\ UNCHANGED consumer
  BY <1>4 DEF CatchUp, Replicate, RequestTypeOK
<1>5. CASE Tick /\ UNCHANGED consumer
  BY <1>5 DEF Tick, RequestTypeOK
<1>6. CASE UNCHANGED consumerVars
  BY <1>6 DEF consumerVars, platform, RequestTypeOK
<1> QED
  BY <1>1, <1>2, <1>3, <1>4, <1>5, <1>6 DEF RequestNext, ConsumerEnvironment

(* The state of the consumers, the log, the queue, the topic and Notify is *)
(* well typed in every state; the places of the pipeline between a         *)
(* message's start and its end hold a message, the failure places a        *)
(* failure.                                                                *)
THEOREM RequestTypeCorrect == RequestSpec => []RequestTypeOK
<1>1. RequestInit => RequestTypeOK
  <2>1. Idle \in ConsumerState
    BY DEF Idle, ConsumerState
  <2> QED
    BY <2>1 DEF RequestInit, PlatformInit, ConsumerInit, RequestTypeOK,
                PlatformTypeOK, Idle
<1>2. RequestTypeOK /\ [RequestNext]_consumerVars => RequestTypeOK'
  BY RequestNextType
<1> QED
  BY <1>1, <1>2, PTL DEF RequestSpec

-----------------------------------------------------------------------------
(* What a step means for the emails: it is quiet (it keeps the messages of *)
(* the log and of the emails, and no process starts to own a request), or  *)
(* it is a successful insert, or Notify accepts an email.                  *)

SameEmails ==
  /\ DOMAIN emails' = DOMAIN emails
  /\ \A i \in DOMAIN emails : emails'[i].message = emails[i].message

NoNewSender ==
  \A q \in Processes : Sending(q)' => Sending(q) /\ Current(q)' = Current(q)

QuietKind == Keeps(docs, docs') /\ SameEmails /\ NoNewSender

InsertKind(p) ==
  /\ consumer[p].pc = "insert"
  /\ consumer[p].current \in Entry
  /\ ~DuplicateKey(Current(p))
  /\ addNotificationRequest(Current(p), now)
  /\ Goto(p, "received")
  /\ UNCHANGED emails

AcceptKind(p) ==
  /\ Sending(p)
  /\ AcceptEmail(Current(p))
  /\ UNCHANGED docs
  /\ NoNewSender
  /\ ~Sending(p)'

LEMMA ProcessStep ==
  ASSUME RequestTypeOK, NEW p \in Processes, NEW c,
         consumer' = [consumer EXCEPT ![p] = c],
         c.pc \in {"received", "send"} =>
           Sending(p) /\ c.current = consumer[p].current
  PROVE  NoNewSender
BY DEF RequestTypeOK, NoNewSender, Sending, Current

LEMMA CompleteQuiet ==
  ASSUME RequestTypeOK, NEW p \in Processes, Complete(p)
  PROVE  NoNewSender
BY ProcessStep DEF Complete, Idle

LEMMA GotoQuiet ==
  ASSUME RequestTypeOK, NEW p \in Processes, NEW label, Goto(p, label),
         label \in {"received", "send"} => Sending(p)
  PROVE  NoNewSender
<1>1. consumer[p] \in ConsumerState
  BY DEF RequestTypeOK
<1> QED
  BY <1>1, ProcessStep DEF Goto, ConsumerState

LEMMA RecordQuiet ==
  ASSUME RequestTypeOK, NEW p \in Processes,
         NEW status \in notifyStatuses, NEW notificationId \in Nat,
         NEW label \in {"sending", "failure"},
         Record(p, status, notificationId, label),
         consumer[p].current \in Entry
  PROVE  Keeps(docs, docs') /\ SameEmails /\ NoNewSender
<1>1. Current(p) \in Message
  BY DEF Current, Entry
<1>2. Keeps(docs, docs')
  <2>1. docs \subseteq Doc
    BY DEF RequestTypeOK, PlatformTypeOK
  <2>2. CASE UNCHANGED docs
    BY <2>2 DEF Keeps
  <2>3. CASE updateNotificationStatus(Current(p), status, notificationId)
    BY <1>1, <2>1, <2>3, UpdateKeeps
  <2> QED
    BY <2>2, <2>3 DEF Record
<1>3. NoNewSender
  BY CompleteQuiet, GotoQuiet DEF Record
<1> QED
  BY <1>2, <1>3 DEF Record, SameEmails

LEMMA SendEmailKind ==
  ASSUME RequestTypeOK, NEW p \in Processes, SendEmail(p)
  PROVE  QuietKind \/ AcceptKind(p)
<1>0. /\ Sending(p)
      /\ consumer[p] \in ConsumerState
      /\ docs' = docs
  BY DEF SendEmail, At, Sending, RequestTypeOK
<1>1. NoNewSender /\ ~Sending(p)'
  <2>1. CASE Complete(p)
    BY <2>1, <1>0, CompleteQuiet
    DEF Complete, Idle, Sending, RequestTypeOK, ConsumerState
  <2>2. CASE \E label \in {"sent", "failed"} :
               \E c \in {consumer'[p]} :
                 /\ c.pc = label
                 /\ consumer' = [consumer EXCEPT ![p] = c]
    BY <2>2, ProcessStep DEF Sending, RequestTypeOK
  <2>3. \/ Complete(p)
        \/ \E status \in {"internal-failure", "technical-failure"} :
             consumer' = [consumer EXCEPT ![p].pc = "failed",
                                          ![p].failure = status]
        \/ consumer' = [consumer EXCEPT ![p].pc = "sent",
                                        ![p].notificationId = Len(emails) + 1]
    BY DEF SendEmail
  <2> QED
    BY <2>1, <2>2, <2>3, <1>0 DEF RequestTypeOK, ConsumerState
<1>2. CASE AcceptEmail(Current(p))
  BY <1>0, <1>1, <1>2 DEF AcceptKind
<1>3. CASE UNCHANGED emails
  BY <1>0, <1>1, <1>3 DEF QuietKind, Keeps, SameEmails
<1> QED
  BY <1>2, <1>3 DEF SendEmail

LEMMA ConsumerStepKind ==
  ASSUME RequestTypeOK, NEW p \in Processes, ConsumerStep(p)
  PROVE  QuietKind \/ InsertKind(p) \/ AcceptKind(p)
<1>0. /\ consumer[p] \in ConsumerState
      /\ consumer[p].pc \notin {"idle", "next"} =>
           consumer[p].current \in Entry
      /\ docs \subseteq Doc
  BY DEF RequestTypeOK, PlatformTypeOK
<1> SUFFICES ASSUME ~SendEmail(p), ~InsertKind(p)
             PROVE  Keeps(docs, docs') /\ SameEmails /\ NoNewSender
  BY SendEmailKind DEF QuietKind
<1>1. CASE Poll(p)
  BY <1>1, <1>0, ProcessStep
  DEF Poll, platform, Keeps, SameEmails, ConsumerState, NoNewSender, Sending,
      Current, RequestTypeOK
<1>2. CASE NextMessage(p)
  <2>1. \A q \in Processes \ {p} : consumer'[q] = consumer[q]
    BY <1>2 DEF NextMessage, RequestTypeOK
  <2>2. ~Sending(p)'
    BY <1>2, <1>0 DEF NextMessage, Sending, RequestTypeOK, ConsumerState
  <2> QED
    BY <1>2, <2>1, <2>2
    DEF NextMessage, platform, Keeps, SameEmails, NoNewSender, Sending, Current
<1>3. CASE DeleteBatch(p)
  BY <1>3, ProcessStep DEF DeleteBatch, Keeps, SameEmails, Idle
<1>4. CASE PublishInvalidRequest(p)
  BY <1>4, CompleteQuiet DEF PublishInvalidRequest, Keeps, SameEmails
<1>5. CASE CheckIdempotency(p)
  BY <1>5, CompleteQuiet, GotoQuiet DEF CheckIdempotency, Keeps, SameEmails
<1>6. CASE AddRequest(p)
  <2>1. Complete(p)
    BY <1>6, <1>0 DEF AddRequest, At, InsertKind
  <2>2. Keeps(docs, docs')
    BY <1>6, <1>0, AddKeeps
    DEF AddRequest, At, Keeps, Current, Entry, RequestTypeOK, PlatformTypeOK
  <2> QED
    BY <1>6, <2>1, <2>2, CompleteQuiet DEF AddRequest, SameEmails
<1>7. CASE PublishReceived(p)
  BY <1>7, GotoQuiet DEF PublishReceived, Keeps, SameEmails, At, Sending
<1>8. CASE RecordSending(p)
  <2>1. consumer[p].notificationId \in Nat /\ "sending" \in notifyStatuses
    BY <1>0 DEF ConsumerState, notifyStatuses
  <2> QED
    BY <1>8, <1>0, <2>1, RecordQuiet DEF RecordSending, At
<1>9. CASE PublishSending(p)
  BY <1>9, CompleteQuiet DEF PublishSending, Keeps, SameEmails
<1>10. CASE RecordFailure(p)
  <2>1. consumer[p].failure \in notifyStatuses /\ 0 \in Nat
    BY <1>10, <1>0 DEF RecordFailure, At, RequestTypeOK, ConsumerState,
       notifyStatuses
  <2> QED
    BY <1>10, <1>0, <2>1, RecordQuiet DEF RecordFailure, At
<1>11. CASE PublishFailure(p)
  BY <1>11, CompleteQuiet, GotoQuiet DEF PublishFailure, Keeps, SameEmails
<1>12. CASE RetryFailure(p)
  BY <1>12, CompleteQuiet DEF RetryFailure, Keeps, SameEmails
<1> QED
  BY <1>1, <1>2, <1>3, <1>4, <1>5, <1>6, <1>7, <1>8, <1>9, <1>10, <1>11,
     <1>12 DEF ConsumerStep

LEMMA RequestNextKind ==
  ASSUME RequestTypeOK, [RequestNext]_consumerVars
  PROVE  \/ QuietKind
         \/ \E p \in Processes : InsertKind(p) \/ AcceptKind(p)
<1>1. ASSUME NEW p \in Processes, ConsumerStep(p)
      PROVE  QuietKind \/ InsertKind(p) \/ AcceptKind(p)
  BY <1>1, ConsumerStepKind
<1>2. ASSUME NEW p \in Processes, CrashConsumer(p)
      PROVE  QuietKind
  BY <1>2, ProcessStep DEF CrashConsumer, QuietKind, Keeps, SameEmails, Idle
<1>3. CASE ConsumerEnvironment \/ UNCHANGED consumerVars
  <2>1. UNCHANGED <<docs, emails, consumer>>
    BY <1>3 DEF ConsumerEnvironment, Submit, CatchUp, Replicate, Tick,
       consumerVars, platform
  <2> QED
    BY <2>1 DEF QuietKind, Keeps, SameEmails, NoNewSender, Sending, Current
<1> QED
  BY <1>1, <1>2, <1>3 DEF RequestNext

-----------------------------------------------------------------------------
(* Every email has its request in the log: the sender of a request has     *)
(* logged it.  No index is needed for that.                                *)

RecordInv ==
  /\ RecordedBeforeSent
  /\ \A p \in Processes :
       Sending(p) => \E d \in docs : SameKey(d.message, Current(p))

LEMMA RecordQuietStep ==
  ASSUME RecordInv, QuietKind
  PROVE  RecordInv'
<1> USE DEF QuietKind
<1>1. RecordedBeforeSent'
  BY DEF RecordInv, RecordedBeforeSent, Keeps, SameEmails, SameKey
<1>2. ASSUME NEW p \in Processes, Sending(p)'
      PROVE  \E d \in docs' : SameKey(d.message, Current(p)')
  BY <1>2 DEF RecordInv, NoNewSender, Keeps, SameKey
<1> QED
  BY <1>1, <1>2 DEF RecordInv, SameKey

LEMMA RecordInsertStep ==
  ASSUME RequestTypeOK, RecordInv, NEW p \in Processes, InsertKind(p)
  PROVE  RecordInv'
<1> USE DEF InsertKind
<1>1. Current(p) \in Message
  BY DEF Current, Entry
<1>2. Keeps(docs, docs') /\ \E d \in docs' : d.message = Current(p)
  BY <1>1, AddKeeps DEF RequestTypeOK, PlatformTypeOK
<1>3. \A q \in Processes :
        Sending(q)' => Current(q)' = Current(q) /\ (q = p \/ Sending(q))
  BY DEF Goto, Current, Sending, RequestTypeOK, ConsumerState
<1>4. RecordedBeforeSent'
  BY <1>2 DEF RecordInv, RecordedBeforeSent, Keeps, SameKey
<1>5. ASSUME NEW q \in Processes, Sending(q)'
      PROVE  \E d \in docs' : SameKey(d.message, Current(q)')
  BY <1>2, <1>3, <1>5 DEF RecordInv, Keeps, SameKey
<1> QED
  BY <1>4, <1>5 DEF RecordInv, SameKey

LEMMA RecordAcceptStep ==
  ASSUME RequestTypeOK, RecordInv, NEW p \in Processes, AcceptKind(p)
  PROVE  RecordInv'
<1> USE DEF AcceptKind
<1> DEFINE email == [message |-> Current(p),
                     reference |-> CorrelationOf(Current(p)),
                     status |-> "created"]
<1>1. /\ emails \in Seq(Email)
      /\ emails' = Append(emails, email)
      /\ email.message = Current(p)
  BY DEF RequestTypeOK, PlatformTypeOK, AcceptEmail
<1> HIDE DEF email
<1>2. RecordedBeforeSent'
  BY <1>1 DEF RecordInv, RecordedBeforeSent, SameKey
<1> QED
  BY <1>2 DEF RecordInv, NoNewSender, SameKey

(* Every email Notify accepted has its request in the log, with or without *)
(* the unique index.                                                       *)
THEOREM EmailsAreRecorded == RequestSpec => []RecordedBeforeSent
<1>1. RequestInit => RecordInv
  BY DEF RequestInit, PlatformInit, ConsumerInit, RecordInv,
         RecordedBeforeSent, Sending, Idle
<1>2. RequestTypeOK /\ RecordInv /\ [RequestNext]_consumerVars => RecordInv'
  BY RequestNextKind, RecordQuietStep, RecordInsertStep, RecordAcceptStep
<1>3. RecordInv => RecordedBeforeSent
  BY DEF RecordInv
<1> QED
  BY <1>1, <1>2, <1>3, RequestTypeCorrect, PTL DEF RequestSpec

-----------------------------------------------------------------------------
(* What guards the keys of the log.  createIndex only logs that the unique *)
(* index could not be built; a single process that reads its own writes    *)
(* then still checks every request before it inserts it.                   *)

OneInstance == \A p, q \in Processes : p = q

NoLag == "lag" \notin Faults

KeysGuarded == UniqueIndex \/ (OneInstance /\ NoLag)

(* An insert that the index lets pass meets no document of its key.        *)
InsertsFresh ==
  \A p \in Processes :
    consumer[p].pc = "insert" /\ ~DuplicateKey(Current(p)) =>
      \A d \in docs : ~SameKey(d.message, Current(p))

(* Steps that send nobody to the insert and leave the keys of the log as   *)
(* they are.                                                               *)
LEMMA FreshStays ==
  ASSUME KeysGuarded, InsertsFresh,
         \A p \in Processes :
           consumer'[p].pc = "insert" => consumer'[p] = consumer[p],
         \A d \in docs' : \E e \in docs : e.message = d.message
  PROVE  InsertsFresh'
<1>1. CASE UniqueIndex
  BY <1>1 DEF InsertsFresh, DuplicateKey, Matching, SameKey
<1>2. CASE ~UniqueIndex
  BY <1>2 DEF InsertsFresh, DuplicateKey, Current, SameKey
<1> QED
  BY <1>1, <1>2

(* Steps of one process that do not lead it to the insert.                 *)
Passes(p) ==
  \A q \in Processes :
    IF q = p THEN consumer'[q].pc # "insert" ELSE consumer'[q] = consumer[q]

LEMMA UpdatePasses ==
  ASSUME RequestTypeOK, NEW p \in Processes, NEW c,
         consumer' = [consumer EXCEPT ![p] = c], c.pc # "insert"
  PROVE  Passes(p)
BY DEF RequestTypeOK, Passes

LEMMA CompletePasses ==
  ASSUME RequestTypeOK, NEW p \in Processes, Complete(p)
  PROVE  Passes(p)
BY DEF Complete, Idle, RequestTypeOK, Passes

LEMMA GotoPasses ==
  ASSUME RequestTypeOK, NEW p \in Processes, NEW label, Goto(p, label),
         label # "insert"
  PROVE  Passes(p)
<1>1. consumer[p] \in ConsumerState
  BY DEF RequestTypeOK
<1> QED
  BY <1>1, UpdatePasses DEF Goto, ConsumerState

LEMMA CheckFresh ==
  ASSUME KeysGuarded, RequestTypeOK, NEW p \in Processes, CheckIdempotency(p)
  PROVE  InsertsFresh'
<1>1. CASE UniqueIndex
  BY <1>1 DEF InsertsFresh, DuplicateKey, Matching, SameKey
<1>2. CASE ~UniqueIndex
  <2>1. /\ \A q \in Processes : q = p
        /\ Secondary = docs
    BY <1>2 DEF KeysGuarded, OneInstance, NoLag, Secondary
  <2>2. /\ consumer[p] \in ConsumerState
        /\ docs' = docs
    BY DEF RequestTypeOK, CheckIdempotency
  <2>3. CASE Complete(p)
    BY <2>1, <2>3, CompletePasses DEF InsertsFresh, Passes
  <2>4. CASE /\ ~checkNotificationIdempotency(Current(p))
             /\ Goto(p, "insert")
    <3>1. Current(p)' = Current(p)
      BY <2>4 DEF Goto, Current, RequestTypeOK, ConsumerState
    <3>2. \A d \in docs : ~SameKey(d.message, Current(p))
      BY <2>1, <2>4 DEF checkNotificationIdempotency, Matching, SameKey
    <3> QED
      BY <2>1, <2>2, <3>1, <3>2 DEF InsertsFresh
  <2> QED
    BY <2>3, <2>4 DEF CheckIdempotency
<1> QED
  BY <1>1, <1>2

(* The insert itself leaves no other process at an insert, or the index    *)
(* stands behind it.                                                       *)
LEMMA InsertFresh ==
  ASSUME KeysGuarded, RequestTypeOK, NEW p \in Processes, AddRequest(p)
  PROVE  InsertsFresh'
<1>1. CASE UniqueIndex
  BY <1>1 DEF InsertsFresh, DuplicateKey, Matching, SameKey
<1>2. CASE ~UniqueIndex
  <2>1. \A q \in Processes : q = p
    BY <1>2 DEF KeysGuarded, OneInstance
  <2>2. Passes(p)
    BY CompletePasses, GotoPasses DEF AddRequest
  <2> QED
    BY <2>1, <2>2 DEF InsertsFresh, Passes
<1> QED
  BY <1>1, <1>2

LEMMA UpdateSameKeys ==
  ASSUME docs \subseteq Doc, NEW m, NEW status, NEW notificationId,
         updateNotificationStatus(m, status, notificationId)
  PROVE  \A d \in docs' : \E e \in docs : e.message = d.message
<1>1. CASE UNCHANGED docs
  BY <1>1
<1>2. ASSUME NEW d \in docs, NEW new,
             \/ new = [d EXCEPT !.status = status,
                                !.notificationId = d.notificationId,
                                !.completed = status \in finishedStatus]
             \/ new = [d EXCEPT !.status = status,
                                !.notificationId = notificationId,
                                !.completed = status \in finishedStatus],
             docs' = (docs \ {d}) \cup {new}
      PROVE  \A e \in docs' : \E f \in docs : f.message = e.message
  <2>1. new.message = d.message
    BY <1>2 DEF Doc
  <2> QED
    BY <1>2, <2>1
<1> QED
  BY <1>1, <1>2 DEF updateNotificationStatus, Matching

LEMMA PassesFresh ==
  ASSUME KeysGuarded, InsertsFresh, NEW p \in Processes, Passes(p),
         \A d \in docs' : \E e \in docs : e.message = d.message
  PROVE  InsertsFresh'
BY FreshStays DEF Passes

LEMMA ConsumerFresh ==
  ASSUME KeysGuarded, RequestTypeOK, InsertsFresh, NEW p \in Processes,
         ConsumerStep(p)
  PROVE  InsertsFresh'
<1>0. consumer[p] \in ConsumerState
  BY DEF RequestTypeOK
<1>1. CASE Poll(p)
  <2>1. Passes(p)
    BY <1>0, <1>1 DEF Poll, Passes, RequestTypeOK, ConsumerState
  <2> QED
    BY <1>1, <2>1, PassesFresh DEF Poll, platform
<1>2. CASE NextMessage(p)
  <2>1. \A q \in Processes \ {p} : consumer'[q] = consumer[q]
    BY <1>2 DEF NextMessage, RequestTypeOK
  <2>2. consumer'[p].pc # "insert"
    BY <1>2, <1>0 DEF NextMessage, RequestTypeOK, ConsumerState
  <2> QED
    BY <1>2, <2>1, <2>2, PassesFresh DEF NextMessage, platform, Passes
<1>3. CASE DeleteBatch(p)
  <2>1. Passes(p)
    BY <1>3 DEF DeleteBatch, Idle, RequestTypeOK, Passes
  <2> QED
    BY <1>3, <2>1, PassesFresh DEF DeleteBatch
<1>4. CASE SendEmail(p)
  <2>1. \A q \in Processes \ {p} : consumer'[q] = consumer[q]
    BY <1>4 DEF SendEmail, Complete, RequestTypeOK
  <2>2. consumer'[p].pc # "insert"
    BY <1>4, <1>0, CompletePasses
    DEF SendEmail, Passes, RequestTypeOK, ConsumerState
  <2> QED
    BY <1>4, <2>1, <2>2, PassesFresh DEF SendEmail, Passes
<1>5. CASE \/ PublishInvalidRequest(p) \/ PublishReceived(p)
           \/ PublishSending(p) \/ PublishFailure(p) \/ RetryFailure(p)
  BY <1>5, CompletePasses, GotoPasses, PassesFresh
  DEF PublishInvalidRequest, PublishReceived, PublishSending, PublishFailure,
      RetryFailure
<1>6. CASE RecordSending(p) \/ RecordFailure(p)
  <2>1. \A d \in docs' : \E e \in docs : e.message = d.message
    BY <1>6, UpdateSameKeys
    DEF RecordSending, RecordFailure, Record, RequestTypeOK, PlatformTypeOK
  <2>2. Passes(p)
    BY <1>6, CompletePasses, GotoPasses DEF RecordSending, RecordFailure, Record
  <2> QED
    BY <2>1, <2>2, PassesFresh
<1> QED
  BY <1>1, <1>2, <1>3, <1>4, <1>5, <1>6, CheckFresh, InsertFresh
  DEF ConsumerStep

LEMMA IdleFresh ==
  ASSUME KeysGuarded, RequestTypeOK, InsertsFresh, NEW p \in Processes,
         consumer' = [consumer EXCEPT ![p] = Idle], docs' = docs
  PROVE  InsertsFresh'
<1>1. Passes(p)
  BY DEF Idle, RequestTypeOK, Passes
<1> QED
  BY <1>1, PassesFresh

LEMMA FreshInvariant == KeysGuarded => (RequestSpec => []InsertsFresh)
<1> SUFFICES ASSUME KeysGuarded
             PROVE  RequestSpec => []InsertsFresh
  OBVIOUS
<1>1. RequestInit => InsertsFresh
  BY DEF RequestInit, ConsumerInit, InsertsFresh, Idle
<1>2. RequestTypeOK /\ InsertsFresh /\ [RequestNext]_consumerVars =>
        InsertsFresh'
  <2> SUFFICES ASSUME RequestTypeOK, InsertsFresh, [RequestNext]_consumerVars
               PROVE  InsertsFresh'
    OBVIOUS
  <2>1. ASSUME NEW p \in Processes, CrashConsumer(p)
        PROVE  InsertsFresh'
    BY <2>1, IdleFresh DEF CrashConsumer
  <2>2. CASE ConsumerEnvironment \/ UNCHANGED consumerVars
    BY <2>2, FreshStays DEF ConsumerEnvironment, Submit, CatchUp, Replicate,
       Tick, consumerVars, platform
  <2> QED
    BY <2>1, <2>2, ConsumerFresh DEF RequestNext
<1> QED
  BY <1>1, <1>2, RequestTypeCorrect, PTL DEF RequestSpec

-----------------------------------------------------------------------------
(* At most one email.                                                      *)

SendInv == RecordedBeforeSent /\ ExclusiveSender /\ AtMostOneEmail

LEMMA QuietStep ==
  ASSUME SendInv, QuietKind
  PROVE  SendInv'
<1> USE DEF QuietKind
<1>1. RecordedBeforeSent'
  BY DEF SendInv, RecordedBeforeSent, Keeps, SameEmails, SameKey
<1>2. AtMostOneEmail'
  BY DEF SendInv, AtMostOneEmail, SameEmails, SameKey
<1>3. ASSUME NEW p \in Processes, Sending(p)'
      PROVE  /\ \E d \in docs' : SameKey(d.message, Current(p)')
             /\ \A i \in DOMAIN emails' :
                  ~SameKey(emails'[i].message, Current(p)')
             /\ \A q \in Processes \ {p} :
                  Sending(q)' => ~SameKey(Current(q)', Current(p)')
  <2>1. Sending(p) /\ Current(p)' = Current(p)
    BY <1>3 DEF NoNewSender
  <2>2. \E d \in docs' : SameKey(d.message, Current(p)')
    BY <2>1 DEF SendInv, ExclusiveSender, Keeps, SameKey
  <2>3. \A i \in DOMAIN emails' : ~SameKey(emails'[i].message, Current(p)')
    BY <2>1 DEF SendInv, ExclusiveSender, SameEmails
  <2>4. \A q \in Processes \ {p} :
          Sending(q)' => ~SameKey(Current(q)', Current(p)')
    BY <2>1 DEF SendInv, ExclusiveSender, NoNewSender
  <2> QED
    BY <2>2, <2>3, <2>4
<1> QED
  BY <1>1, <1>2, <1>3 DEF SendInv, ExclusiveSender, SameKey

(* The insert succeeds: no document has the key, so no email and no other  *)
(* sender does.                                                            *)
LEMMA InsertExclusive ==
  ASSUME InsertsFresh, RequestTypeOK, SendInv, NEW p \in Processes,
         InsertKind(p)
  PROVE  SendInv'
<1> USE DEF InsertKind
<1>1. \A d \in docs : ~SameKey(d.message, Current(p))
  BY DEF InsertsFresh
<1>2. Current(p) \in Message
  BY DEF Current, Entry
<1>3. Keeps(docs, docs') /\ \E d \in docs' : d.message = Current(p)
  BY <1>2, AddKeeps DEF RequestTypeOK, PlatformTypeOK
<1>4. /\ Current(p)' = Current(p)
      /\ \A q \in Processes \ {p} : consumer'[q] = consumer[q]
  BY DEF Goto, Current, RequestTypeOK, ConsumerState
<1>5. \A q \in Processes \ {p} :
        /\ Sending(q)' = Sending(q)
        /\ Current(q)' = Current(q)
  BY <1>4 DEF Sending, Current
<1>6. \A i \in DOMAIN emails : ~SameKey(emails[i].message, Current(p))
  BY <1>1 DEF SendInv, RecordedBeforeSent, SameKey
<1>7. \A q \in Processes \ {p} :
        Sending(q) => ~SameKey(Current(q), Current(p))
  BY <1>1 DEF SendInv, ExclusiveSender, SameKey
<1>8. RecordedBeforeSent' /\ AtMostOneEmail'
  BY <1>3 DEF SendInv, RecordedBeforeSent, AtMostOneEmail, Keeps, SameKey
<1>9. ASSUME NEW q \in Processes, Sending(q)'
      PROVE  /\ \E d \in docs' : SameKey(d.message, Current(q)')
             /\ \A i \in DOMAIN emails' :
                  ~SameKey(emails'[i].message, Current(q)')
             /\ \A r \in Processes \ {q} :
                  Sending(r)' => ~SameKey(Current(r)', Current(q)')
  <2>1. CASE q = p
    BY <2>1, <1>3, <1>4, <1>5, <1>6, <1>7 DEF SameKey
  <2>2. CASE q # p
    <3>1. Sending(q) /\ Current(q)' = Current(q)
      BY <2>2, <1>5, <1>9
    <3>2. \E d \in docs' : SameKey(d.message, Current(q)')
      BY <3>1, <1>3 DEF SendInv, ExclusiveSender, Keeps, SameKey
    <3>3. \A i \in DOMAIN emails' :
            ~SameKey(emails'[i].message, Current(q)')
      BY <3>1 DEF SendInv, ExclusiveSender
    <3>4. \A r \in Processes \ {q} :
            Sending(r)' => ~SameKey(Current(r)', Current(q)')
      BY <2>2, <3>1, <1>4, <1>5, <1>7 DEF SendInv, ExclusiveSender, SameKey
    <3> QED
      BY <3>2, <3>3, <3>4
  <2> QED
    BY <2>1, <2>2
<1> QED
  BY <1>8, <1>9 DEF SendInv, ExclusiveSender, SameKey

(* Notify accepts the email: the sender owned its request, and ceases to.  *)
LEMMA AcceptExclusive ==
  ASSUME RequestTypeOK, SendInv, NEW p \in Processes, AcceptKind(p)
  PROVE  SendInv'
<1> USE DEF AcceptKind
<1> DEFINE email == [message |-> Current(p),
                     reference |-> CorrelationOf(Current(p)),
                     status |-> "created"]
<1>1. /\ emails \in Seq(Email)
      /\ emails' = Append(emails, email)
      /\ email.message = Current(p)
  BY DEF RequestTypeOK, PlatformTypeOK, AcceptEmail
<1> HIDE DEF email
<1>2. \A i \in DOMAIN emails' :
        \/ i \in DOMAIN emails /\ emails'[i] = emails[i]
        \/ i = Len(emails) + 1 /\ emails'[i].message = Current(p)
  BY <1>1
<1>3. RecordedBeforeSent'
  BY <1>2 DEF SendInv, RecordedBeforeSent, ExclusiveSender, SameKey
<1>4. AtMostOneEmail'
  BY <1>2 DEF SendInv, AtMostOneEmail, ExclusiveSender, SameKey
<1>5. ASSUME NEW q \in Processes, Sending(q)'
      PROVE  /\ \E d \in docs' : SameKey(d.message, Current(q)')
             /\ \A i \in DOMAIN emails' :
                  ~SameKey(emails'[i].message, Current(q)')
             /\ \A r \in Processes \ {q} :
                  Sending(r)' => ~SameKey(Current(r)', Current(q)')
  <2>1. q # p /\ Sending(q) /\ Current(q)' = Current(q)
    BY <1>5 DEF NoNewSender
  <2>2. \E d \in docs' : SameKey(d.message, Current(q)')
    BY <2>1 DEF SendInv, ExclusiveSender
  <2>3. \A i \in DOMAIN emails' : ~SameKey(emails'[i].message, Current(q)')
    BY <1>2, <2>1 DEF SendInv, ExclusiveSender
  <2>4. \A r \in Processes \ {q} :
          Sending(r)' => ~SameKey(Current(r)', Current(q)')
    BY <2>1 DEF SendInv, ExclusiveSender, NoNewSender
  <2> QED
    BY <2>2, <2>3, <2>4
<1> QED
  BY <1>3, <1>4, <1>5 DEF SendInv, ExclusiveSender, SameKey

LEMMA SendInvInvariant == KeysGuarded => (RequestSpec => []SendInv)
<1> SUFFICES ASSUME KeysGuarded
             PROVE  RequestSpec => []SendInv
  OBVIOUS
<1>1. RequestInit => SendInv
  BY DEF RequestInit, PlatformInit, ConsumerInit, SendInv, RecordedBeforeSent,
         ExclusiveSender, AtMostOneEmail, Sending, Idle
<1>2. RequestTypeOK /\ InsertsFresh /\ SendInv /\ [RequestNext]_consumerVars =>
        SendInv'
  BY RequestNextKind, QuietStep, InsertExclusive, AcceptExclusive
<1> QED
  BY <1>1, <1>2, RequestTypeCorrect, FreshInvariant, PTL DEF RequestSpec

(* With guarded keys, Notify accepts at most one email for one             *)
(* (source, id), whatever the number of processes and deliveries, the age  *)
(* of reads, the calls that fail and the crashes in between.               *)
THEOREM NoSecondEmail == KeysGuarded => (RequestSpec => []AtMostOneEmail)
BY SendInvInvariant, PTL DEF SendInv

(* A consumer about to send a request is the only one.                     *)
THEOREM SenderIsExclusive == KeysGuarded => (RequestSpec => []ExclusiveSender)
BY SendInvInvariant, PTL DEF SendInv

-----------------------------------------------------------------------------
(* The claim of a consumer on its request.                                 *)

PendingPlaces == {"received", "send", "sent", "failed"}

Claiming(p) == consumer[p].pc \in PendingPlaces \cup {"sending", "failure"}

Unsent(p) ==
  \/ consumer[p].pc \in {"received", "send"}
  \/ consumer[p].pc = "failed" /\ consumer[p].failure = "internal-failure"

Logged(p) ==
  \E d \in docs :
    /\ d.message = Current(p)
    /\ consumer[p].pc \in PendingPlaces => d.status = "pending-publish"
    /\ consumer[p].pc = "failure" => d.status = consumer[p].failure

NotEmailed(m) == \A i \in DOMAIN emails : ~SameKey(emails[i].message, m)

EventsOf(m) == {i \in DOMAIN topic : /\ v1(topic[i].about)
                                     /\ SameKey(topic[i].about, m)}

Claim(p) ==
  /\ Logged(p)
  /\ Unsent(p) => NotEmailed(Current(p))
  /\ consumer[p].pc = "received" => EventsOf(Current(p)) = {}
  /\ \A i \in EventsOf(Current(p)) : topic[i].type \in {"received", "retry"}

(* The schema was checked: only a valid request of a known type gets past  *)
(* "invalid", and only an invalid one gets there.                          *)
Checked(p) ==
  consumer[p].pc \notin {"idle", "next"} =>
    /\ Current(p).type \in processorMap
    /\ v1(Current(p)) <=> consumer[p].pc # "invalid"

OneDocument == \A d, e \in docs : SameKey(d.message, e.message) => d = e

OneClaim ==
  \A p, q \in Processes :
    Claiming(p) /\ Claiming(q) /\ SameKey(Current(p), Current(q)) => p = q

EventsRecorded ==
  \A i \in DOMAIN topic : v1(topic[i].about) =>
    \E d \in docs : SameKey(d.message, topic[i].about)

Accounted(d) ==
  \/ d.status # "pending-publish"
  \/ \E m \in faulted : SameKey(d.message, m)
  \/ \E p \in Processes : /\ consumer[p].pc \in PendingPlaces
                          /\ SameKey(d.message, Current(p))

ClaimInv ==
  /\ \A p \in Processes : Checked(p)
  /\ \A p \in Processes : Claiming(p) => Claim(p)
  /\ OneDocument
  /\ OneClaim
  /\ RecordedBeforeSent
  /\ EventsRecorded
  /\ \A d \in docs : Accounted(d)
  /\ ReceivedThenOutcome

-----------------------------------------------------------------------------
(* Two kinds of steps.  A step is apart when no request is concerned: log  *)
(* and emails stay, no event about a valid request is published, and the   *)
(* process has no claim afterwards.  A step about the request of a process *)
(* that has, or takes, the claim leaves everything else alone.             *)

Others(p) == \A q \in Processes \ {p} : consumer'[q] = consumer[q]

Apart(p) ==
  /\ UNCHANGED <<docs, emails>>
  /\ \A i \in DOMAIN topic' : \/ i \in DOMAIN topic /\ topic'[i] = topic[i]
                              \/ ~v1(topic'[i].about)
  /\ faulted \subseteq faulted'
  /\ Others(p)
  /\ Checked(p)'
  /\ ~Claiming(p)'
  /\ consumer[p].pc \in PendingPlaces => Current(p) \in faulted'

About(p) ==
  /\ Others(p)
  /\ Claiming(p) \/ \A d \in docs : ~SameKey(d.message, Current(p))
  /\ faulted \subseteq faulted'
  /\ Checked(p)'
  /\ Claiming(p)' => Current(p)' = Current(p) /\ Claim(p)'
  /\ \A d \in docs : SameKey(d.message, Current(p)) \/ d \in docs'
  /\ \A d \in docs' : SameKey(d.message, Current(p)) \/ d \in docs
  /\ \A d, e \in docs' :
       SameKey(d.message, Current(p)) /\ SameKey(e.message, Current(p)) =>
         d = e
  /\ \A d \in docs' : SameKey(d.message, Current(p)) => Accounted(d)'
  /\ \E d \in docs' : SameKey(d.message, Current(p))
  /\ \A i \in DOMAIN emails' :
       \/ i \in DOMAIN emails /\ emails'[i].message = emails[i].message
       \/ emails'[i].message = Current(p)
  /\ \A i \in DOMAIN topic' :
       \/ i \in DOMAIN topic /\ topic'[i] = topic[i]
       \/ topic'[i].about = Current(p)
  /\ ReceivedThenOutcome'

LEMMA ApartKeeps ==
  ASSUME ClaimInv, NEW p \in Processes, Apart(p)
  PROVE  ClaimInv'
<1> USE DEF Apart, Others
<1>1. \A q \in Processes : Checked(q)'
  BY DEF ClaimInv, Checked, Current
<1>2. ASSUME NEW q \in Processes, Claiming(q)'
      PROVE  Claim(q)' /\ Claiming(q) /\ Current(q)' = Current(q)
  <2>1. q # p /\ consumer'[q] = consumer[q] /\ Claiming(q)
    BY <1>2 DEF Claiming
  <2>2. Claim(q)
    BY <2>1 DEF ClaimInv
  <2>3. EventsOf(Current(q))' \subseteq EventsOf(Current(q))
    BY <2>1 DEF EventsOf, Current
  <2>4. \A i \in EventsOf(Current(q))' : topic'[i] = topic[i]
    BY DEF EventsOf
  <2> QED
    BY <2>1, <2>2, <2>3, <2>4 DEF Claim, Logged, Unsent, NotEmailed, Current
<1>3. OneDocument' /\ RecordedBeforeSent'
  BY DEF ClaimInv, OneDocument, RecordedBeforeSent, SameKey
<1>4. OneClaim'
  BY <1>2 DEF ClaimInv, OneClaim
<1>5. EventsRecorded'
  BY DEF ClaimInv, EventsRecorded, SameKey
<1>6. ASSUME NEW d \in docs'
      PROVE  Accounted(d)'
  <2>1. Accounted(d)
    BY DEF ClaimInv
  <2>2. ASSUME NEW q \in Processes, consumer[q].pc \in PendingPlaces,
               SameKey(d.message, Current(q)), q # p
        PROVE  Accounted(d)'
    <3>1. consumer'[q] = consumer[q]
      BY <2>2
    <3> QED
      BY <2>2, <3>1 DEF Accounted, Current, SameKey
  <2> QED
    BY <2>1, <2>2 DEF Accounted, SameKey
<1>7. ReceivedThenOutcome'
  BY DEF ClaimInv, ReceivedThenOutcome
<1> QED
  BY <1>1, <1>2, <1>3, <1>4, <1>5, <1>6, <1>7 DEF ClaimInv

LEMMA AboutKeeps ==
  ASSUME ClaimInv, NEW p \in Processes, About(p)
  PROVE  ClaimInv'
<1> USE DEF About, Others
<1>1. \A q \in Processes : Checked(q)'
  BY DEF ClaimInv, Checked, Current
<1>2. ASSUME NEW q \in Processes \ {p}, Claiming(q)'
      PROVE  /\ Claiming(q) /\ Claim(q)
             /\ consumer'[q] = consumer[q]
             /\ ~SameKey(Current(q), Current(p))
  <2>1. consumer'[q] = consumer[q] /\ Claiming(q) /\ Claim(q)
    BY <1>2 DEF Claiming, ClaimInv
  <2>2. \E d \in docs : d.message = Current(q)
    BY <2>1 DEF Claim, Logged
  <2> QED
    BY <2>1, <2>2 DEF ClaimInv, OneClaim
<1>3. ASSUME NEW q \in Processes \ {p}, Claiming(q)'
      PROVE  Claim(q)'
  <2>1. /\ Claim(q) /\ consumer'[q] = consumer[q]
        /\ ~SameKey(Current(q), Current(p))
    BY <1>2, <1>3
  <2>2. Logged(q)'
    BY <2>1 DEF Claim, Logged, Current
  <2>3. Unsent(q)' => NotEmailed(Current(q))'
    BY <2>1 DEF Claim, Unsent, NotEmailed, Current, SameKey
  <2>4. /\ EventsOf(Current(q))' \subseteq EventsOf(Current(q))
        /\ \A i \in EventsOf(Current(q))' : topic'[i] = topic[i]
    BY <2>1 DEF EventsOf, Current, SameKey
  <2> QED
    BY <2>1, <2>2, <2>3, <2>4 DEF Claim
<1>4. OneDocument'
  BY DEF ClaimInv, OneDocument, SameKey
<1>5. OneClaim'
  <2>1. \A q \in Processes \ {p} : Claiming(q)' =>
          ~SameKey(Current(q)', Current(p)) /\ Claiming(q)
            /\ Current(q)' = Current(q)
    BY <1>2 DEF Current
  <2> QED
    BY <2>1 DEF ClaimInv, OneClaim, SameKey
<1>6. RecordedBeforeSent'
  BY DEF ClaimInv, RecordedBeforeSent, SameKey
<1>7. EventsRecorded'
  BY DEF ClaimInv, EventsRecorded, SameKey
<1>8. ASSUME NEW d \in docs'
      PROVE  Accounted(d)'
  <2>1. CASE SameKey(d.message, Current(p))
    BY <2>1
  <2>2. CASE ~SameKey(d.message, Current(p))
    <3>1. Accounted(d)
      BY <2>2 DEF ClaimInv
    <3>2. ASSUME NEW q \in Processes, consumer[q].pc \in PendingPlaces,
                 SameKey(d.message, Current(q))
          PROVE  Accounted(d)'
      <4>1. consumer'[q] = consumer[q]
        BY <2>2, <3>2
      <4> QED
        BY <3>2, <4>1 DEF Accounted, Current, SameKey
    <3> QED
      BY <3>1, <3>2 DEF Accounted, SameKey
  <2> QED
    BY <2>1, <2>2
<1> QED
  BY <1>1, <1>3, <1>4, <1>5, <1>6, <1>7, <1>8 DEF ClaimInv

-----------------------------------------------------------------------------
(* What the writes do to a log with one document per request.              *)

LEMMA InsertAdds ==
  ASSUME RequestTypeOK, NEW m \in Message, addNotificationRequest(m, now)
  PROVE  \E doc \in Doc : /\ doc.message = m
                          /\ doc.status = "pending-publish"
                          /\ docs' = docs \cup {doc}
<1>1. PICK uuid \in FreshUuids :
        docs' = docs \cup {[id |-> uuid, message |-> m, createdAt |-> now,
                            status |-> "pending-publish", notificationId |-> 0,
                            completed |-> FALSE]}
  BY DEF addNotificationRequest
<1> DEFINE doc == [id |-> uuid, message |-> m, createdAt |-> now,
                   status |-> "pending-publish", notificationId |-> 0,
                   completed |-> FALSE]
<1>2. uuid \in Uuids /\ now \in Nat
  BY DEF FreshUuids, RequestTypeOK, PlatformTypeOK
<1>3. doc \in Doc /\ doc.message = m /\ doc.status = "pending-publish"
  BY <1>2 DEF Doc, notifyStatuses
<1>4. docs' = docs \cup {doc}
  BY <1>1
<1> HIDE DEF doc
<1> QED
  BY <1>3, <1>4

LEMMA UpdateReplaces ==
  ASSUME RequestTypeOK, OneDocument, NEW d \in docs,
         NEW status \in notifyStatuses, NEW notificationId \in Nat,
         updateNotificationStatus(d.message, status, notificationId)
  PROVE  \E new \in Doc :
           /\ Updates(d, new, status, notificationId)
           /\ new.message = d.message
           /\ new.status = status
           /\ docs' = (docs \ {d}) \cup {new}
<1>1. Matching(docs, d.message.source, d.message.id) = {d}
  BY DEF Matching, OneDocument, SameKey
<1>2. docs \subseteq Doc
  BY DEF RequestTypeOK, PlatformTypeOK
<1>3. PICK new \in Doc : Updates(d, new, status, notificationId)
  BY <1>1, <1>2, UpdateWrites
<1>4. /\ new.message = d.message /\ new.status = status
      /\ docs' = (docs \ {d}) \cup {new}
  BY <1>3 DEF Updates, Replaces, SameNotification
<1> QED
  BY <1>3, <1>4

-----------------------------------------------------------------------------
(* Steps that concern no request.                                          *)

LEMMA CompleteLeaves ==
  ASSUME RequestTypeOK, NEW p \in Processes, Complete(p)
  PROVE  Others(p) /\ Checked(p)' /\ ~Claiming(p)'
BY DEF Complete, Idle, Others, Checked, Claiming, PendingPlaces, RequestTypeOK,
       ConsumerState

LEMMA GotoKeeps ==
  ASSUME RequestTypeOK, NEW p \in Processes, NEW label, Goto(p, label)
  PROVE  /\ Others(p)
         /\ consumer'[p].pc = label
         /\ consumer'[p].failure = consumer[p].failure
         /\ Current(p)' = Current(p)
BY DEF Goto, Others, Current, RequestTypeOK, ConsumerState

LEMMA ApartSteps ==
  ASSUME RequestTypeOK, ClaimInv, NEW p \in Processes,
         \/ Poll(p) \/ NextMessage(p) \/ DeleteBatch(p)
         \/ PublishInvalidRequest(p) \/ CheckIdempotency(p)
         \/ RetryFailure(p) \/ CrashConsumer(p)
  PROVE  Apart(p)
<1>0. /\ consumer[p] \in ConsumerState
      /\ Checked(p)
      /\ topic \in Seq(Event)
  BY DEF RequestTypeOK, PlatformTypeOK, ClaimInv
<1> USE DEF Apart, PendingPlaces, Claiming
<1>1. CASE Poll(p)
  <2>1. PICK batch \in SUBSET Receivable :
          consumer' = [consumer EXCEPT ![p].pc = "next", ![p].batch = batch]
    BY <1>1 DEF Poll
  <2>2. Others(p) /\ Checked(p)' /\ ~Claiming(p)'
    BY <2>1, <1>0 DEF Others, Checked, ConsumerState, RequestTypeOK
  <2> QED
    BY <1>1, <2>2 DEF Poll, At, platform
<1>2. CASE NextMessage(p)
  <2>1. PICK e \in consumer[p].batch :
          LET m == e.message
              processed == m.body # "unparseable" /\ m.type \in processorMap
          IN consumer' = [consumer EXCEPT
               ![p].batch = @ \ {e},
               ![p].current = IF processed THEN e ELSE None,
               ![p].completed = IF processed THEN @ ELSE @ \cup {e},
               ![p].pc = IF ~processed THEN "next"
                         ELSE IF v1(m) THEN "check" ELSE "invalid"]
    BY <1>2 DEF NextMessage
  <2>2. Others(p) /\ Checked(p)' /\ ~Claiming(p)'
    BY <2>1, <1>0 DEF Others, Checked, Current, ConsumerState, RequestTypeOK
  <2> QED
    BY <1>2, <2>2 DEF NextMessage, At, platform
<1>3. CASE DeleteBatch(p)
  BY <1>3, <1>0 DEF DeleteBatch, Idle, Others, Checked, At, RequestTypeOK
<1>4. CASE PublishInvalidRequest(p)
  <2>1. ~v1(Current(p)) /\ Complete(p) /\ Publish(buildInvalidMessage(Current(p)))
    BY <1>4, <1>0 DEF PublishInvalidRequest, Checked, At
  <2>2. \A i \in DOMAIN topic' :
          \/ i \in DOMAIN topic /\ topic'[i] = topic[i]
          \/ topic'[i].about = Current(p)
    BY <2>1, <1>0 DEF Publish, buildInvalidMessage, buildEvent
  <2> QED
    BY <1>4, <2>1, <2>2, CompleteLeaves DEF PublishInvalidRequest, At
<1>5. CASE CheckIdempotency(p)
  BY <1>5, <1>0, CompleteLeaves, GotoKeeps
  DEF CheckIdempotency, At, Fault, Checked
<1>6. CASE RetryFailure(p)
  BY <1>6, CompleteLeaves DEF RetryFailure, publishRetryRequest, At, Fault
<1>7. CASE CrashConsumer(p)
  <2>1. consumer[p].pc \in PendingPlaces => Current(p) \in faulted'
    BY <1>7, PlatformAssumption
    DEF CrashConsumer, RequestTypeOK, PlatformAssumption
  <2> QED
    BY <1>7, <2>1 DEF CrashConsumer, Idle, Others, Checked, RequestTypeOK
<1> QED
  BY <1>1, <1>2, <1>3, <1>4, <1>5, <1>6, <1>7

-----------------------------------------------------------------------------
(* The insert takes the claim: no document has the key, so no email, no    *)
(* event and no other claim is about it.                                   *)

LEMMA InsertStep ==
  ASSUME InsertsFresh, RequestTypeOK, ClaimInv, NEW p \in Processes,
         At(p, "insert"), ~DuplicateKey(Current(p)),
         addNotificationRequest(Current(p), now),
         UNCHANGED <<topic, emails>>,
         \/ Goto(p, "received") /\ UNCHANGED faulted
         \/ Complete(p) /\ Fault(Current(p))
  PROVE  About(p)
<1>0. /\ Current(p) \in Message
      /\ consumer[p] \in ConsumerState
      /\ Checked(p)
  BY DEF RequestTypeOK, At, Current, Entry, ClaimInv
<1>1. PICK doc \in Doc : /\ doc.message = Current(p)
                         /\ doc.status = "pending-publish"
                         /\ docs' = docs \cup {doc}
  BY <1>0, InsertAdds
<1>2. \A d \in docs : ~SameKey(d.message, Current(p))
  BY DEF At, InsertsFresh
<1>3. NotEmailed(Current(p)) /\ EventsOf(Current(p)) = {}
  BY <1>2 DEF ClaimInv, NotEmailed, RecordedBeforeSent, EventsRecorded,
              EventsOf, SameKey
<1>4. Others(p) /\ Checked(p)' /\ faulted \subseteq faulted'
  BY <1>0, CompleteLeaves, GotoKeeps DEF Fault, Checked, At
<1>5. Claiming(p)' => Current(p)' = Current(p) /\ Claim(p)'
  <2>1. CASE Goto(p, "received")
    <3>1. consumer'[p].pc = "received" /\ Current(p)' = Current(p)
      BY <2>1, GotoKeeps
    <3>2. Logged(p)'
      BY <1>1, <3>1 DEF Logged
    <3>3. NotEmailed(Current(p))' /\ EventsOf(Current(p))' = {}
      BY <1>3, <3>1 DEF NotEmailed, EventsOf
    <3> QED
      BY <3>1, <3>2, <3>3 DEF Claim
  <2> QED
    BY <2>1, CompleteLeaves
<1>6. \A d \in docs' : SameKey(d.message, Current(p)) => d = doc
  BY <1>1, <1>2
<1>7. Accounted(doc)'
  <2>1. CASE Goto(p, "received")
    BY <1>1, <2>1, GotoKeeps DEF Accounted, PendingPlaces, SameKey
  <2>2. CASE Fault(Current(p))
    BY <1>1, <2>2 DEF Accounted, Fault, SameKey
  <2> QED
    BY <2>1, <2>2
<1>8. \E d \in docs' : SameKey(d.message, Current(p))
  BY <1>1 DEF SameKey
<1>9. ReceivedThenOutcome'
  BY DEF ClaimInv, ReceivedThenOutcome
<1> QED
  BY <1>1, <1>2, <1>4, <1>5, <1>6, <1>7, <1>8, <1>9 DEF About

LEMMA AddRequestStep ==
  ASSUME InsertsFresh, RequestTypeOK, ClaimInv, NEW p \in Processes,
         AddRequest(p)
  PROVE  Apart(p) \/ About(p)
<1>1. CASE UNCHANGED docs /\ Complete(p)
  BY <1>1, CompleteLeaves DEF AddRequest, Apart, At, Fault, PendingPlaces
<1>2. CASE ~DuplicateKey(Current(p)) /\ addNotificationRequest(Current(p), now)
  BY <1>2, InsertStep DEF AddRequest
<1> QED
  BY <1>1, <1>2 DEF AddRequest

-----------------------------------------------------------------------------
(* Publishing about a claimed request.                                     *)

LEMMA PublishAppends ==
  ASSUME topic \in Seq(Event), NEW event, Publish(event)
  PROVE  \A i \in DOMAIN topic' :
           \/ i \in DOMAIN topic /\ topic'[i] = topic[i] /\ i <= Len(topic)
           \/ i = Len(topic) + 1 /\ topic'[i] = event
BY DEF Publish

LEMMA PublishStep ==
  ASSUME RequestTypeOK, ClaimInv, NEW p \in Processes, Claiming(p),
         NEW event, event.about = Current(p), Publish(event),
         \/ event.type \in {"received", "retry"} /\ EventsOf(Current(p)) = {}
         \/ event.type \notin {"received", "retry"},
         UNCHANGED <<docs, emails, faulted>>, Others(p), Checked(p)',
         Claiming(p)' => Current(p)' = Current(p) /\ Claim(p)',
         consumer[p].pc \in PendingPlaces =>
           consumer'[p].pc \in PendingPlaces /\ Current(p)' = Current(p)
  PROVE  About(p)
<1>1. \A i \in DOMAIN topic' :
           \/ i \in DOMAIN topic /\ topic'[i] = topic[i] /\ i <= Len(topic)
           \/ i = Len(topic) + 1 /\ topic'[i] = event
  BY PublishAppends DEF RequestTypeOK, PlatformTypeOK
<1>2. Claim(p)
  BY DEF ClaimInv
<1>3. ReceivedThenOutcome'
  <2>1. ASSUME NEW i \in DOMAIN topic', NEW j \in DOMAIN topic', i < j,
               v1(topic'[i].about), v1(topic'[j].about),
               SameKey(topic'[i].about, topic'[j].about)
        PROVE  /\ topic'[i].type \in {"received", "retry"}
               /\ topic'[j].type \notin {"received", "retry"}
    <3>1. CASE j \in DOMAIN topic /\ topic'[j] = topic[j] /\ j <= Len(topic)
      <4>1. i \in DOMAIN topic /\ topic'[i] = topic[i]
        BY <1>1, <2>1, <3>1 DEF RequestTypeOK, PlatformTypeOK
      <4> QED
        BY <2>1, <3>1, <4>1 DEF ClaimInv, ReceivedThenOutcome
    <3>2. CASE j = Len(topic) + 1 /\ topic'[j] = event
      <4>1. i \in DOMAIN topic /\ topic'[i] = topic[i]
        BY <1>1, <2>1, <3>2
      <4>2. i \in EventsOf(Current(p))
        BY <2>1, <3>2, <4>1 DEF EventsOf
      <4> QED
        BY <1>2, <3>2, <4>1, <4>2 DEF Claim
    <3> QED
      BY <1>1, <3>1, <3>2
  <2> QED
    BY <2>1 DEF ReceivedThenOutcome, SameKey
<1>4. \E d \in docs' : SameKey(d.message, Current(p))
  BY <1>2 DEF Claim, Logged, SameKey
<1>5. \A d, e \in docs' :
       SameKey(d.message, Current(p)) /\ SameKey(e.message, Current(p)) =>
         d = e
  BY DEF ClaimInv, OneDocument, SameKey
<1>6. \A d \in docs' : Accounted(d)'
  <2>1. ASSUME NEW d \in docs', NEW q \in Processes,
               consumer[q].pc \in PendingPlaces, SameKey(d.message, Current(q))
        PROVE  Accounted(d)'
    <3>1. consumer'[q].pc \in PendingPlaces /\ Current(q)' = Current(q)
      BY <2>1 DEF Others, Current
    <3> QED
      BY <2>1, <3>1 DEF Accounted, SameKey
  <2>2. \A d \in docs' : Accounted(d)
    BY DEF ClaimInv
  <2> QED
    BY <2>1, <2>2 DEF Accounted, SameKey
<1> QED
  BY <1>1, <1>3, <1>4, <1>5, <1>6 DEF About

LEMMA PublishReceivedStep ==
  ASSUME RequestTypeOK, ClaimInv, NEW p \in Processes, PublishReceived(p)
  PROVE  About(p)
<1> DEFINE event == buildReceivedMessage(Current(p))
<1>1. /\ event.about = Current(p)
      /\ event.type \in {"received", "retry"}
      /\ Publish(event)
  BY DEF buildReceivedMessage, buildEvent, PublishReceived
<1> HIDE DEF event
<1>2. /\ consumer[p].pc = "received"
      /\ Claiming(p) /\ Claim(p) /\ Checked(p)
  BY DEF PublishReceived, At, Claiming, PendingPlaces, ClaimInv
<1>3. /\ Others(p) /\ consumer'[p].pc = "send" /\ Current(p)' = Current(p)
      /\ UNCHANGED <<docs, emails, faulted>>
  BY GotoKeeps DEF PublishReceived
<1>4. EventsOf(Current(p)) = {}
  BY <1>2 DEF Claim
<1>5. Claim(p)'
  <2>1. Logged(p)' /\ NotEmailed(Current(p))'
    BY <1>2, <1>3 DEF Claim, Logged, Unsent, NotEmailed, PendingPlaces
  <2>2. \A i \in EventsOf(Current(p))' : topic'[i] = event
    BY <1>1, <1>3, <1>4, PublishAppends
    DEF EventsOf, RequestTypeOK, PlatformTypeOK
  <2> QED
    BY <1>1, <1>3, <2>1, <2>2 DEF Claim
<1> QED
  BY <1>1, <1>2, <1>3, <1>4, <1>5, PublishStep DEF Checked, PendingPlaces

(* The last events of a request end its claim. *)
LEMMA OutcomeEvent ==
  ASSUME NEW m, NEW status \in {"sending", "internal-failure",
                                "technical-failure"}
  PROVE  LET event == buildUpdateMessage(m, status)
         IN /\ event.about = m /\ event.status = status
            /\ event.type \notin {"received", "retry"}
BY DEF buildUpdateMessage, buildEvent, statusToEventMap, notifyStatuses

LEMMA PublishOutcomeStep ==
  ASSUME RequestTypeOK, ClaimInv, NEW p \in Processes,
         PublishSending(p) \/ PublishFailure(p)
  PROVE  About(p)
<1>1. /\ consumer[p].pc \in {"sending", "failure"}
      /\ Claiming(p) /\ Checked(p)
      /\ UNCHANGED <<docs, emails, faulted>>
  BY DEF PublishSending, PublishFailure, At, Claiming, ClaimInv
<1>2. PICK status \in {"sending", "internal-failure", "technical-failure"} :
        Publish(buildUpdateMessage(Current(p), status))
  BY DEF PublishSending, PublishFailure, At, RequestTypeOK, ConsumerState
<1>3. Others(p) /\ Checked(p)' /\ ~Claiming(p)'
  BY <1>1, CompleteLeaves, GotoKeeps
  DEF PublishSending, PublishFailure, Checked, Claiming, PendingPlaces
<1> DEFINE event == buildUpdateMessage(Current(p), status)
<1>4. event.about = Current(p) /\ event.type \notin {"received", "retry"}
  BY OutcomeEvent
<1> HIDE DEF event
<1> QED
  BY <1>1, <1>2, <1>3, <1>4, PublishStep DEF PendingPlaces, event

-----------------------------------------------------------------------------
(* Sending, and recording the outcome.                                     *)

LEMMA SendEmailPlaces ==
  ASSUME RequestTypeOK, NEW p \in Processes, SendEmail(p)
  PROVE  /\ Others(p)
         /\ UNCHANGED <<docs, topic>>
         /\ faulted \subseteq faulted'
         /\ \/ Complete(p) /\ Fault(Current(p))
            \/ /\ consumer'[p].pc \in {"sent", "failed"}
               /\ consumer'[p].current = consumer[p].current
               /\ ~Unsent(p)' \/ UNCHANGED emails
         /\ AcceptEmail(Current(p)) \/ UNCHANGED emails
<1>1. CASE Complete(p) /\ Fault(Current(p))
  BY <1>1, CompleteLeaves DEF SendEmail, Fault
<1>2. CASE consumer' = [consumer EXCEPT ![p].pc = "sent",
                                        ![p].notificationId = Len(emails) + 1]
  BY <1>2 DEF SendEmail, Fault, Others, Unsent, RequestTypeOK, ConsumerState
<1>3. ASSUME NEW status,
             consumer' = [consumer EXCEPT ![p].pc = "failed",
                                          ![p].failure = status],
             status = "technical-failure" \/ UNCHANGED emails
      PROVE  /\ Others(p)
             /\ consumer'[p].pc = "failed"
             /\ consumer'[p].current = consumer[p].current
             /\ ~Unsent(p)' \/ UNCHANGED emails
  BY <1>3 DEF Others, Unsent, RequestTypeOK, ConsumerState
<1> QED
  BY <1>1, <1>2, <1>3 DEF SendEmail, Fault

LEMMA SendEmailStep ==
  ASSUME RequestTypeOK, ClaimInv, NEW p \in Processes, SendEmail(p)
  PROVE  About(p)
<1>1. /\ consumer[p].pc = "send"
      /\ Claiming(p) /\ Claim(p) /\ Checked(p)
  BY DEF SendEmail, At, Claiming, PendingPlaces, ClaimInv
<1>2. \A i \in DOMAIN emails' :
        \/ i \in DOMAIN emails /\ emails'[i].message = emails[i].message
        \/ emails'[i].message = Current(p)
  <2>1. CASE AcceptEmail(Current(p))
    BY <2>1 DEF AcceptEmail, RequestTypeOK, PlatformTypeOK
  <2> QED
    BY <2>1, SendEmailPlaces
<1>3. /\ Others(p) /\ UNCHANGED <<docs, topic>> /\ faulted \subseteq faulted'
  BY SendEmailPlaces
<1>4. ASSUME ~Complete(p)
      PROVE  /\ consumer'[p].pc \in {"sent", "failed"}
             /\ Current(p)' = Current(p)
             /\ Claim(p)' /\ Checked(p)'
  <2>1. /\ consumer'[p].pc \in {"sent", "failed"}
        /\ Current(p)' = Current(p)
        /\ Unsent(p)' => UNCHANGED emails
    BY <1>4, SendEmailPlaces DEF Current
  <2>2. Logged(p)'
    BY <1>1, <1>3, <2>1 DEF Claim, Logged, PendingPlaces
  <2>3. Unsent(p)' => NotEmailed(Current(p))'
    BY <1>1, <2>1 DEF Claim, Unsent, NotEmailed
  <2>4. EventsOf(Current(p))' = EventsOf(Current(p))
    BY <1>3, <2>1 DEF EventsOf
  <2> QED
    BY <1>1, <1>3, <2>1, <2>2, <2>3, <2>4 DEF Claim, Checked
<1>5. /\ Checked(p)'
      /\ Claiming(p)' => Current(p)' = Current(p) /\ Claim(p)'
  BY <1>4, CompleteLeaves
<1>6. \A d \in docs' : SameKey(d.message, Current(p)) => Accounted(d)'
  <2>1. CASE Complete(p)
    <3>1. Current(p) \in faulted'
      BY <1>1, <2>1, SendEmailPlaces DEF Fault, Complete, Idle,
         RequestTypeOK, ConsumerState
    <3> QED
      BY <3>1 DEF Accounted, SameKey
  <2> QED
    BY <1>4, <2>1 DEF Accounted, PendingPlaces, SameKey
<1>7. \E d \in docs' : SameKey(d.message, Current(p))
  BY <1>1, <1>3 DEF Claim, Logged, SameKey
<1>8. \A d, e \in docs' :
       SameKey(d.message, Current(p)) /\ SameKey(e.message, Current(p)) =>
         d = e
  BY <1>3 DEF ClaimInv, OneDocument, SameKey
<1>9. ReceivedThenOutcome'
  BY <1>3 DEF ClaimInv, ReceivedThenOutcome
<1> QED
  BY <1>1, <1>2, <1>3, <1>5, <1>6, <1>7, <1>8, <1>9 DEF About

LEMMA UpdateStep ==
  ASSUME RequestTypeOK, ClaimInv, NEW p \in Processes,
         consumer[p].pc \in {"sent", "failed"},
         NEW status \in {"sending", "internal-failure", "technical-failure"},
         NEW notificationId \in Nat,
         updateNotificationStatus(Current(p), status, notificationId),
         UNCHANGED <<emails, topic>>, faulted \subseteq faulted',
         \/ Goto(p, "sending")
         \/ Goto(p, "failure") /\ status = consumer[p].failure
         \/ Complete(p)
  PROVE  About(p)
<1>1. Claiming(p) /\ Claim(p) /\ Checked(p)
  BY DEF Claiming, PendingPlaces, ClaimInv
<1>2. PICK d \in docs : d.message = Current(p)
  BY <1>1 DEF Claim, Logged
<1>3. PICK new \in Doc : /\ new.message = Current(p)
                         /\ new.status = status
                         /\ docs' = (docs \ {d}) \cup {new}
  BY <1>2, UpdateReplaces DEF ClaimInv, notifyStatuses
<1>4. \A e \in docs : SameKey(e.message, Current(p)) => e = d
  BY <1>2 DEF ClaimInv, OneDocument
<1>5. Others(p) /\ Checked(p)'
  BY <1>1, CompleteLeaves, GotoKeeps DEF Checked
<1>6. ASSUME Claiming(p)'
      PROVE  Current(p)' = Current(p) /\ Claim(p)'
  <2>1. /\ Current(p)' = Current(p)
        /\ consumer'[p].failure = consumer[p].failure
        /\ \/ consumer'[p].pc = "sending"
           \/ consumer'[p].pc = "failure" /\ status = consumer[p].failure
    BY <1>6, CompleteLeaves, GotoKeeps
  <2>2. Logged(p)'
    BY <1>3, <2>1 DEF Logged, PendingPlaces
  <2>3. ~Unsent(p)' /\ consumer'[p].pc # "received"
    BY <2>1 DEF Unsent
  <2>4. EventsOf(Current(p))' = EventsOf(Current(p))
    BY <2>1 DEF EventsOf
  <2> QED
    BY <1>1, <2>1, <2>2, <2>3, <2>4 DEF Claim
<1>7. \A e \in docs' : SameKey(e.message, Current(p)) => e = new
  BY <1>3, <1>4
<1>8. Accounted(new)'
  BY <1>3 DEF Accounted
<1>9. \E e \in docs' : SameKey(e.message, Current(p))
  BY <1>3 DEF SameKey
<1>10. /\ \A e \in docs : SameKey(e.message, Current(p)) \/ e \in docs'
       /\ \A e \in docs' : SameKey(e.message, Current(p)) \/ e \in docs
  BY <1>2, <1>3 DEF SameKey
<1>11. ReceivedThenOutcome'
  BY DEF ClaimInv, ReceivedThenOutcome
<1> QED
  BY <1>1, <1>5, <1>6, <1>7, <1>8, <1>9, <1>10, <1>11 DEF About

LEMMA RecordStep ==
  ASSUME RequestTypeOK, ClaimInv, NEW p \in Processes,
         RecordSending(p) \/ RecordFailure(p)
  PROVE  Apart(p) \/ About(p)
<1>1. PICK status \in {"sending", "internal-failure", "technical-failure"},
           notificationId \in Nat, label \in {"sending", "failure"} :
        /\ Record(p, status, notificationId, label)
        /\ consumer[p].pc \in {"sent", "failed"}
        /\ label = "failure" => status = consumer[p].failure
  <2>1. /\ consumer[p].notificationId \in Nat
        /\ consumer[p].pc = "failed" =>
             consumer[p].failure \in {"internal-failure", "technical-failure"}
    BY DEF RequestTypeOK, ConsumerState
  <2>2. CASE RecordSending(p)
    BY <2>1, <2>2 DEF RecordSending, At
  <2>3. CASE RecordFailure(p)
    BY <2>1, <2>3 DEF RecordFailure, At
  <2> QED
    BY <2>2, <2>3
<1>2. CASE UNCHANGED docs /\ Complete(p) /\ Fault(Current(p))
  BY <1>1, <1>2, CompleteLeaves DEF Record, Apart, Fault
<1>3. CASE updateNotificationStatus(Current(p), status, notificationId)
  BY <1>1, <1>3, UpdateStep DEF Record, Fault
<1> QED
  BY <1>1, <1>2, <1>3 DEF Record

-----------------------------------------------------------------------------
(* The invariant.                                                          *)

LEMMA ClaimInvStep ==
  ASSUME InsertsFresh, RequestTypeOK, ClaimInv, [RequestNext]_consumerVars
  PROVE  ClaimInv'
<1>1. ASSUME NEW p \in Processes, ConsumerStep(p) \/ CrashConsumer(p)
      PROVE  ClaimInv'
  BY <1>1, ApartKeeps, AboutKeeps, ApartSteps, AddRequestStep,
     PublishReceivedStep, PublishOutcomeStep, SendEmailStep, RecordStep
  DEF ConsumerStep
<1>2. CASE UNCHANGED <<docs, emails, topic, faulted, consumer>>
  BY <1>2 DEF ClaimInv, Checked, Claiming, Claim, Logged, Unsent, NotEmailed,
     EventsOf, OneDocument, OneClaim, RecordedBeforeSent, EventsRecorded,
     Accounted, ReceivedThenOutcome, Current
<1>3. CASE ConsumerEnvironment \/ UNCHANGED consumerVars
  BY <1>2, <1>3 DEF ConsumerEnvironment, Submit, CatchUp, Replicate, Tick,
     consumerVars, platform
<1> QED
  BY <1>1, <1>3 DEF RequestNext

LEMMA ClaimInvInvariant ==
  KeysGuarded =>
    (RequestSpec => [](RequestTypeOK /\ InsertsFresh /\ ClaimInv))
<1> SUFFICES ASSUME KeysGuarded
             PROVE  RequestSpec => [](RequestTypeOK /\ InsertsFresh /\ ClaimInv)
  OBVIOUS
<1>1. RequestInit => ClaimInv
  BY DEF RequestInit, PlatformInit, ConsumerInit, ClaimInv, Checked, Claiming,
     OneDocument, OneClaim, RecordedBeforeSent, EventsRecorded, Accounted,
     ReceivedThenOutcome, Idle, PendingPlaces
<1>2. RequestTypeOK /\ InsertsFresh /\ ClaimInv /\ [RequestNext]_consumerVars
        => ClaimInv'
  BY ClaimInvStep
<1> QED
  BY <1>1, <1>2, RequestTypeCorrect, FreshInvariant, PTL DEF RequestSpec

(* With guarded keys, a request stays "pending-publish" only while a       *)
(* consumer works on it or because a fault hit it: whatever the order of   *)
(* deliveries to any number of processes, none is forgotten half-way.      *)
THEOREM NoneStranded == KeysGuarded => (RequestSpec => []StrandedOnlyByFault)
<1> SUFFICES ASSUME KeysGuarded
             PROVE  RequestSpec => []StrandedOnlyByFault
  OBVIOUS
<1>1. ClaimInv => StrandedOnlyByFault
  BY DEF ClaimInv, Accounted, StrandedOnlyByFault, PendingPlaces
<1> QED
  BY <1>1, ClaimInvInvariant, PTL

(* With guarded keys, subscribers see received (or retry) before the       *)
(* outcome of a valid request, and each of them once at most.              *)
THEOREM EventsInOrder == KeysGuarded => (RequestSpec => []ReceivedThenOutcome)
BY ClaimInvInvariant, PTL DEF ClaimInv

-----------------------------------------------------------------------------
(* The refinement: what each step is for NotificationLifecycle.            *)

Requested == {d.message : d \in docs}

Outbox == [n \in DOMAIN emails |-> emails[n].message]

LEMMA LifecycleVariables ==
  Lifecycle!lifecycle = <<Requested, Outbox, Verdicts, Announced>>
BY DEF Lifecycle!lifecycle, Requested, Outbox

LEMMA InvisibleStep ==
  ASSUME UNCHANGED <<docs, emails>>, Announced' = Announced
  PROVE  UNCHANGED Lifecycle!lifecycle
BY DEF Lifecycle!lifecycle, Verdicts

LEMMA SilentAnnounced ==
  ASSUME topic \in Seq(Event), NEW event, Publish(event),
         ~v1(event.about) \/ event.status \notin finishedStatus
  PROVE  Announced' = Announced
<1>1. CASE topic' = Append(topic, event)
  <2>1. {j \in DOMAIN topic' : topic'[j].status \in finishedStatus
                                 /\ v1(topic'[j].about)}
        = {j \in DOMAIN topic : topic[j].status \in finishedStatus
                                 /\ v1(topic[j].about)}
    BY <1>1
  <2>2. \A j \in DOMAIN topic : topic'[j] = topic[j]
    BY <1>1
  <2> QED
    BY <2>1, <2>2 DEF Announced
<1>2. CASE UNCHANGED topic
  BY <1>2 DEF Announced
<1> QED
  BY <1>1, <1>2 DEF Publish

LEMMA ApartInvisible ==
  ASSUME RequestTypeOK, ClaimInv, NEW p \in Processes,
         \/ Poll(p) \/ NextMessage(p) \/ DeleteBatch(p)
         \/ PublishInvalidRequest(p) \/ CheckIdempotency(p)
         \/ RetryFailure(p) \/ CrashConsumer(p)
  PROVE  UNCHANGED Lifecycle!lifecycle
<1>1. UNCHANGED <<docs, emails>>
  BY ApartSteps DEF Apart
<1>2. CASE PublishInvalidRequest(p)
  <2>1. ~v1(Current(p)) /\ topic \in Seq(Event)
    BY <1>2 DEF PublishInvalidRequest, At, ClaimInv, Checked, RequestTypeOK,
                PlatformTypeOK
  <2>2. buildInvalidMessage(Current(p)).about = Current(p)
    BY DEF buildInvalidMessage, buildEvent
  <2>3. Announced' = Announced
    BY <1>2, <2>1, <2>2, SilentAnnounced DEF PublishInvalidRequest
  <2> QED
    BY <1>1, <2>3, InvisibleStep
<1>3. CASE UNCHANGED topic
  BY <1>1, <1>3, InvisibleStep DEF Announced
<1> QED
  BY <1>2, <1>3 DEF Poll, NextMessage, DeleteBatch, CheckIdempotency,
     RetryFailure, CrashConsumer, platform

LEMMA AddRequestAccepts ==
  ASSUME InsertsFresh, RequestTypeOK, ClaimInv, NEW p \in Processes,
         AddRequest(p)
  PROVE  Lifecycle!Accept(Current(p)) \/ UNCHANGED Lifecycle!lifecycle
<1>1. CASE UNCHANGED docs
  BY <1>1, InvisibleStep DEF AddRequest, Announced
<1>2. CASE ~DuplicateKey(Current(p)) /\ addNotificationRequest(Current(p), now)
  <2>1. /\ Current(p) \in Message /\ Current(p).type \in processorMap
        /\ v1(Current(p))
    BY DEF AddRequest, At, ClaimInv, Checked, RequestTypeOK, Current, Entry
  <2>2. PICK doc \in Doc : /\ doc.message = Current(p)
                           /\ doc.status = "pending-publish"
                           /\ docs' = docs \cup {doc}
    BY <1>2, <2>1, InsertAdds
  <2>3. \A d \in docs : ~SameKey(d.message, Current(p))
    BY <1>2 DEF AddRequest, At, InsertsFresh
  <2>4. Requested' = Requested \cup {Current(p)}
    BY <2>2 DEF Requested
  <2>5. Verdicts' = Verdicts
    BY <2>2 DEF Verdicts, finishedStatus
  <2>6. UNCHANGED <<Outbox, Announced>>
    BY DEF AddRequest, Outbox, Announced
  <2> QED
    BY <2>1, <2>3, <2>4, <2>5, <2>6
    DEF Lifecycle!Accept, Requested, Outbox, Lifecycle!v1, v1, SameKey,
        Lifecycle!processorMap, processorMap, Lifecycle!SameKey
<1> QED
  BY <1>1, <1>2 DEF AddRequest

LEMMA SendEmailSends ==
  ASSUME RequestTypeOK, ClaimInv, NEW p \in Processes, SendEmail(p)
  PROVE  Lifecycle!Send(Current(p)) \/ UNCHANGED Lifecycle!lifecycle
<1>1. CASE UNCHANGED emails
  BY <1>1, InvisibleStep DEF SendEmail, Announced
<1>2. CASE AcceptEmail(Current(p))
  <2>1. Logged(p) /\ NotEmailed(Current(p))
    BY DEF SendEmail, At, ClaimInv, Claiming, PendingPlaces, Claim, Unsent
  <2>2. Current(p) \in Requested
    BY <2>1 DEF Logged, Requested
  <2>3. Outbox' = Append(Outbox, Current(p))
    <3> DEFINE email == [message |-> Current(p),
                         reference |-> CorrelationOf(Current(p)),
                         status |-> "created"]
    <3>1. emails' = Append(emails, email) /\ email.message = Current(p)
      BY <1>2 DEF AcceptEmail
    <3> HIDE DEF email
    <3>2. emails \in Seq(Email)
      BY DEF RequestTypeOK, PlatformTypeOK
    <3>3. Outbox = [n \in 1..Len(emails) |-> emails[n].message]
      BY <3>2 DEF Outbox
    <3>4. Outbox' = [n \in 1..(Len(emails) + 1) |->
                       IF n \in 1..Len(emails) THEN emails[n].message
                                               ELSE Current(p)]
      BY <3>1, <3>2 DEF Outbox
    <3> QED
      BY <3>2, <3>3, <3>4
  <2>4. UNCHANGED <<Requested, Verdicts, Announced>>
    BY DEF SendEmail, Requested, Verdicts, Announced
  <2>5. \A i \in DOMAIN Outbox : ~SameKey(Outbox[i], Current(p))
    BY <2>1 DEF NotEmailed, Outbox
  <2> QED
    BY <2>2, <2>3, <2>4, <2>5
    DEF Lifecycle!Send, Lifecycle!Emailed, Requested, Outbox,
        Lifecycle!SameKey, SameKey
<1> QED
  BY <1>1, <1>2 DEF SendEmail

(* Recording that the email was sent changes nothing visible; recording a  *)
(* failure is the verdict.                                                 *)
LEMMA UpdateSettles ==
  ASSUME RequestTypeOK, ClaimInv, NEW p \in Processes,
         consumer[p].pc \in {"sent", "failed"},
         NEW status \in {"sending", "internal-failure", "technical-failure"},
         NEW notificationId \in Nat,
         updateNotificationStatus(Current(p), status, notificationId),
         UNCHANGED <<emails, topic>>,
         status # "sending" =>
           consumer[p].pc = "failed" /\ status = consumer[p].failure
  PROVE  \/ \E m \in Requested, s \in finishedStatus : Lifecycle!Settle(m, s)
         \/ UNCHANGED Lifecycle!lifecycle
<1>1. Claim(p)
  BY DEF ClaimInv, Claiming, PendingPlaces
<1>2. PICK d \in docs : /\ d.message = Current(p)
                        /\ d.status = "pending-publish"
  BY <1>1 DEF Claim, Logged, PendingPlaces
<1>3. PICK new \in Doc : /\ new.message = Current(p)
                         /\ new.status = status
                         /\ docs' = (docs \ {d}) \cup {new}
  BY <1>2, UpdateReplaces DEF ClaimInv, notifyStatuses
<1>4. Requested' = Requested
  BY <1>2, <1>3 DEF Requested
<1>5. UNCHANGED <<Outbox, Announced>>
  BY DEF Outbox, Announced
<1>6. d.status \notin finishedStatus
  BY <1>2 DEF finishedStatus
<1>7. CASE status = "sending"
  <2>1. Verdicts' = Verdicts
    BY <1>3, <1>6, <1>7 DEF Verdicts, finishedStatus
  <2> QED
    BY <1>4, <1>5, <2>1, LifecycleVariables
    DEF Lifecycle!lifecycle, Requested, Outbox
<1>8. CASE status # "sending"
  <2>1. status \in finishedStatus
    BY <1>8 DEF finishedStatus
  <2>2. Current(p) \in Requested
    BY <1>2 DEF Requested
  <2>3. \A v \in Verdicts : v.message # Current(p)
    BY <1>2, <1>6 DEF Verdicts, ClaimInv, OneDocument, SameKey
  <2>4. status = "internal-failure" => NotEmailed(Current(p))
    BY <1>1, <1>8 DEF Claim, Unsent
  <2>5. Verdicts' = Verdicts \cup {[message |-> Current(p), status |-> status]}
    BY <1>3, <1>6, <2>1 DEF Verdicts
  <2>6. Lifecycle!Settle(Current(p), status)
    BY <1>4, <1>5, <1>8, <2>2, <2>3, <2>4, <2>5
    DEF Lifecycle!Settle, Lifecycle!Emailed, NotEmailed, Requested, Outbox,
        Lifecycle!SameKey, SameKey
  <2> QED
    BY <2>1, <2>2, <2>6
<1> QED
  BY <1>7, <1>8

LEMMA RecordSettles ==
  ASSUME RequestTypeOK, ClaimInv, NEW p \in Processes,
         RecordSending(p) \/ RecordFailure(p)
  PROVE  \/ \E m \in Requested, s \in finishedStatus : Lifecycle!Settle(m, s)
         \/ UNCHANGED Lifecycle!lifecycle
<1>1. PICK status \in {"sending", "internal-failure", "technical-failure"},
           notificationId \in Nat, label \in {"sending", "failure"} :
        /\ Record(p, status, notificationId, label)
        /\ consumer[p].pc \in {"sent", "failed"}
        /\ status # "sending" =>
             consumer[p].pc = "failed" /\ status = consumer[p].failure
  <2>1. /\ consumer[p].notificationId \in Nat
        /\ consumer[p].pc = "failed" =>
             consumer[p].failure \in {"internal-failure", "technical-failure"}
    BY DEF RequestTypeOK, ConsumerState
  <2> QED
    BY <2>1 DEF RecordSending, RecordFailure, At
<1>2. CASE UNCHANGED docs
  BY <1>1, <1>2, InvisibleStep DEF Record, Announced
<1>3. CASE updateNotificationStatus(Current(p), status, notificationId)
  BY <1>1, <1>3, UpdateSettles DEF Record
<1> QED
  BY <1>1, <1>2, <1>3 DEF Record

LEMMA PublishInvisible ==
  ASSUME RequestTypeOK, NEW p \in Processes,
         PublishReceived(p) \/ PublishSending(p)
  PROVE  UNCHANGED Lifecycle!lifecycle
<1>1. topic \in Seq(Event) /\ UNCHANGED <<docs, emails>>
  BY DEF RequestTypeOK, PlatformTypeOK, PublishReceived, PublishSending
<1>2. None \notin finishedStatus /\ "sending" \notin finishedStatus
  BY TypesAssumption DEF TypesAssumption, notifyStatuses, finishedStatus
<1>3. CASE PublishReceived(p)
  <2>1. buildReceivedMessage(Current(p)).status \notin finishedStatus
    BY <1>2 DEF buildReceivedMessage, buildEvent
  <2> QED
    BY <1>1, <1>3, <2>1, SilentAnnounced, InvisibleStep DEF PublishReceived
<1>4. CASE PublishSending(p)
  <2>1. buildUpdateMessage(Current(p), "sending").status \notin finishedStatus
    BY <1>2, OutcomeEvent
  <2> QED
    BY <1>1, <1>4, <2>1, SilentAnnounced, InvisibleStep DEF PublishSending
<1> QED
  BY <1>3, <1>4

(* What is announced of a valid request is its verdict in the log.         *)
LEMMA PublishFailureAnnounces ==
  ASSUME RequestTypeOK, ClaimInv, NEW p \in Processes, PublishFailure(p)
  PROVE  \/ \E v \in Verdicts : Lifecycle!Announce(v)
         \/ UNCHANGED Lifecycle!lifecycle
<1> DEFINE status == consumer[p].failure
           event == buildUpdateMessage(Current(p), status)
           v == [message |-> Current(p), status |-> status]
<1>1. /\ status \in {"internal-failure", "technical-failure"}
      /\ Claim(p) /\ v1(Current(p))
      /\ consumer[p].pc = "failure"
      /\ topic \in Seq(Event)
  BY DEF PublishFailure, At, RequestTypeOK, PlatformTypeOK, ConsumerState,
         ClaimInv, Claiming, Checked
<1>2. status \in finishedStatus
  BY <1>1 DEF finishedStatus
<1>3. event.about = Current(p) /\ event.status = status
  BY <1>1, OutcomeEvent
<1>4. UNCHANGED <<docs, emails>> /\ Publish(event)
  BY DEF PublishFailure
<1>5. v \in Verdicts
  BY <1>1, <1>2 DEF Claim, Logged, Verdicts
<1> HIDE DEF event, status
<1>6. CASE UNCHANGED topic
  BY <1>4, <1>6, InvisibleStep DEF Announced
<1>7. CASE topic' = Append(topic, event)
  <2>1. {j \in DOMAIN topic' : topic'[j].status \in finishedStatus
                                 /\ v1(topic'[j].about)}
        = {j \in DOMAIN topic : topic[j].status \in finishedStatus
                                 /\ v1(topic[j].about)} \cup {Len(topic) + 1}
    BY <1>1, <1>2, <1>3, <1>7
  <2>2. /\ \A j \in DOMAIN topic : topic'[j] = topic[j]
        /\ topic'[Len(topic) + 1] = event
    BY <1>1, <1>7
  <2>3. Announced' = Announced \cup {v}
    BY <1>3, <2>1, <2>2 DEF Announced
  <2>4. UNCHANGED <<Requested, Outbox, Verdicts>>
    BY <1>4 DEF Requested, Outbox, Verdicts
  <2> QED
    BY <1>5, <2>3, <2>4 DEF Lifecycle!Announce, Requested, Outbox
<1> QED
  BY <1>4, <1>6, <1>7 DEF Publish

LEMMA StepImplements ==
  ASSUME InsertsFresh, RequestTypeOK, ClaimInv, [RequestNext]_consumerVars
  PROVE  [Lifecycle!Next]_(Lifecycle!lifecycle)
<1>1. ASSUME NEW p \in Processes, AddRequest(p) \/ SendEmail(p)
      PROVE  [Lifecycle!Next]_(Lifecycle!lifecycle)
  <2>1. Current(p) \in Lifecycle!Message
    <3>1. consumer[p].current \in Entry
      BY <1>1 DEF AddRequest, SendEmail, At, RequestTypeOK
    <3>2. Lifecycle!Message = Message
      BY DEF Message, Lifecycle!Message
    <3>3. Current(p) \in Message
      BY <3>1 DEF Current, Entry
    <3> QED
      BY <3>2, <3>3
  <2> QED
    BY <1>1, <2>1, AddRequestAccepts, SendEmailSends
    DEF Lifecycle!Next, Lifecycle!Accept, Lifecycle!Send
<1>2. ASSUME NEW p \in Processes, RecordSending(p) \/ RecordFailure(p)
      PROVE  [Lifecycle!Next]_(Lifecycle!lifecycle)
  BY <1>2, RecordSettles
  DEF Lifecycle!Next, Requested, finishedStatus, Lifecycle!finishedStatus
<1>3. ASSUME NEW p \in Processes,
             PublishReceived(p) \/ PublishSending(p) \/ PublishFailure(p)
      PROVE  [Lifecycle!Next]_(Lifecycle!lifecycle)
  BY <1>3, PublishInvisible, PublishFailureAnnounces DEF Lifecycle!Next
<1>4. ASSUME NEW p \in Processes, ConsumerStep(p) \/ CrashConsumer(p)
      PROVE  [Lifecycle!Next]_(Lifecycle!lifecycle)
  BY <1>1, <1>2, <1>3, <1>4, ApartInvisible DEF ConsumerStep
<1>5. CASE ConsumerEnvironment \/ UNCHANGED consumerVars
  <2>1. UNCHANGED <<docs, emails, topic>>
    BY <1>5 DEF ConsumerEnvironment, Submit, CatchUp, Replicate, Tick,
                consumerVars, platform
  <2> QED
    BY <2>1, InvisibleStep DEF Announced
<1> QED
  BY <1>4, <1>5 DEF RequestNext

(* With guarded keys the consumers keep the promises of                    *)
(* NotificationLifecycle, whatever the number of processes, the order and  *)
(* repetition of deliveries, the calls that fail and the crashes: each     *)
(* step accepts, sends, settles or announces one request as promised, or   *)
(* changes nothing a publisher or subscriber could tell.                   *)
THEOREM ConsumerImplementsLifecycle ==
  KeysGuarded => (RequestSpec => RefinesLifecycle)
<1> SUFFICES ASSUME KeysGuarded
             PROVE  RequestSpec => RefinesLifecycle
  OBVIOUS
<1>1. RequestInit => Lifecycle!Init
  BY DEF RequestInit, PlatformInit, Lifecycle!Init, Verdicts, Announced
<1>2. RequestTypeOK /\ InsertsFresh /\ ClaimInv /\ [RequestNext]_consumerVars
        => [Lifecycle!Next]_(Lifecycle!lifecycle)
  BY StepImplements
<1> QED
  BY <1>1, <1>2, ClaimInvInvariant, PTL
  DEF RequestSpec, RefinesLifecycle, Lifecycle!Spec
-----------------------------------------------------------------------------
(* Every message is completed, and what is completed is deleted; all the   *)
(* same no valid request leaves the queue unhandled.  This holds with and  *)
(* without the unique index.                                               *)

Processable(m) == v1(m) /\ m.type \in processorMap

(* The handling of m met a failing database, or the log has m's key. *)
HandledMessage(m) ==
  \/ "db" \in Faults /\ m \in faulted
  \/ \E d \in docs : SameKey(d.message, m)

(* The same once the step is taken. *)
HandledNext(m) ==
  \/ "db" \in Faults /\ m \in faulted'
  \/ \E d \in docs' : SameKey(d.message, m)

(* What the place of a consumer and its completed messages say. *)
Deletable(p) ==
  /\ consumer[p].pc = "invalid" => ~v1(Current(p))
  /\ consumer[p].pc \notin {"idle", "next", "invalid", "check", "insert"} =>
       HandledMessage(Current(p))
  /\ \A e \in consumer[p].completed :
       Processable(e.message) => HandledMessage(e.message)

(* The secondary lags behind the log, and never runs ahead of it.          *)
DeliveryInv ==
  /\ Keeps(replica, docs)
  /\ \A p \in Processes : Deletable(p)

LEMMA HandledForGood ==
  ASSUME Keeps(docs, docs'), faulted \subseteq faulted',
         NEW m, HandledMessage(m)
  PROVE  HandledNext(m)
BY DEF HandledMessage, HandledNext, Keeps, SameKey

LEMMA DeletableElsewhere ==
  ASSUME Keeps(docs, docs'), faulted \subseteq faulted',
         NEW q \in Processes, consumer'[q] = consumer[q], Deletable(q)
  PROVE  Deletable(q)'
BY HandledForGood DEF Deletable, HandledMessage, HandledNext, Current

LEMMA CompleteDeletable ==
  ASSUME RequestTypeOK, NEW p \in Processes, Complete(p), Deletable(p),
         Keeps(docs, docs'), faulted \subseteq faulted',
         Processable(Current(p)) => HandledNext(Current(p))
  PROVE  Others(p) /\ Deletable(p)'
<1>1. /\ Others(p)
      /\ consumer'[p].pc = "next"
      /\ consumer'[p].completed =
           consumer[p].completed \cup {consumer[p].current}
  BY DEF Complete, Idle, Others, RequestTypeOK
<1>2. Current(p) = consumer[p].current.message
  BY DEF Current
<1> QED
  BY <1>1, <1>2, HandledForGood DEF Deletable, HandledMessage, HandledNext

LEMMA GotoDeletable ==
  ASSUME RequestTypeOK, NEW p \in Processes, NEW label, Goto(p, label),
         Deletable(p), Keeps(docs, docs'), faulted \subseteq faulted',
         label # "invalid",
         label # "insert" => HandledNext(Current(p))
  PROVE  Others(p) /\ Deletable(p)'
<1>1. /\ Others(p) /\ consumer'[p].pc = label
      /\ Current(p)' = Current(p)
      /\ consumer'[p].completed = consumer[p].completed
  BY DEF Goto, Others, Current, RequestTypeOK, ConsumerState
<1>2. \A e \in consumer'[p].completed :
        Processable(e.message) => HandledNext(e.message)
  BY <1>1, HandledForGood DEF Deletable, HandledMessage, HandledNext
<1> QED
  BY <1>1, <1>2 DEF Deletable, HandledMessage, HandledNext

(* A step never takes a message out of the log, and faults are never       *)
(* forgotten.                                                              *)
LEMMA LogOnlyGrows ==
  ASSUME RequestTypeOK, [RequestNext]_consumerVars
  PROVE  Keeps(docs, docs') /\ faulted \subseteq faulted'
<1>1. Keeps(docs, docs')
  <2>1. ASSUME NEW p \in Processes, InsertKind(p)
        PROVE  Keeps(docs, docs')
    <3>1. Current(p) \in Message
      BY <2>1 DEF InsertKind, Current, Entry
    <3> QED
      BY <2>1, <3>1, AddKeeps DEF InsertKind, RequestTypeOK, PlatformTypeOK
  <2>2. ASSUME NEW p \in Processes, AcceptKind(p)
        PROVE  Keeps(docs, docs')
    BY <2>2 DEF AcceptKind, Keeps
  <2> QED
    BY <2>1, <2>2, RequestNextKind DEF QuietKind
<1>2. ASSUME NEW p \in Processes, ConsumerStep(p) \/ CrashConsumer(p)
      PROVE  faulted \subseteq faulted'
  BY <1>2 DEF ConsumerStep, CrashConsumer, Poll, NextMessage, DeleteBatch,
     PublishInvalidRequest, CheckIdempotency, AddRequest, PublishReceived,
     SendEmail, RecordSending, RecordFailure, Record, PublishSending,
     PublishFailure, RetryFailure, publishRetryRequest, Fault, platform
<1>3. ASSUME ConsumerEnvironment \/ UNCHANGED consumerVars
      PROVE  faulted \subseteq faulted'
  BY <1>3 DEF ConsumerEnvironment, Submit, CatchUp, Tick, consumerVars,
              platform
<1> QED
  BY <1>1, <1>2, <1>3 DEF RequestNext

LEMMA ConsumerStepDeletable ==
  ASSUME RequestTypeOK, DeliveryInv, NEW p \in Processes,
         ConsumerStep(p) \/ CrashConsumer(p),
         Keeps(docs, docs'), faulted \subseteq faulted'
  PROVE  Others(p) /\ Deletable(p)'
<1>0. /\ Deletable(p)
      /\ consumer[p] \in ConsumerState
      /\ consumer[p].pc \notin {"idle", "next"} => Current(p) \in Message
  BY DEF DeliveryInv, RequestTypeOK, Current, Entry
<1>1. CASE Poll(p)
  <2>1. /\ Others(p)
        /\ consumer'[p].pc = "next"
        /\ consumer'[p].completed = consumer[p].completed
    BY <1>1 DEF Poll, Others, RequestTypeOK, ConsumerState
  <2> QED
    BY <1>0, <2>1, HandledForGood DEF Deletable, HandledMessage, HandledNext
<1>2. CASE NextMessage(p)
  <2>1. PICK e \in consumer[p].batch :
          LET m == e.message
              processed == m.body # "unparseable" /\ m.type \in processorMap
          IN consumer' = [consumer EXCEPT
               ![p].batch = @ \ {e},
               ![p].current = IF processed THEN e ELSE None,
               ![p].completed = IF processed THEN @ ELSE @ \cup {e},
               ![p].pc = IF ~processed THEN "next"
                         ELSE IF v1(m) THEN "check" ELSE "invalid"]
    BY <1>2 DEF NextMessage
  <2>2. /\ Others(p)
        /\ consumer'[p].pc \in {"next", "check", "invalid"}
        /\ consumer'[p].pc = "invalid" => ~v1(Current(p)')
        /\ \A c \in consumer'[p].completed :
             c \in consumer[p].completed \/ ~Processable(c.message)
    BY <2>1, <1>0
    DEF Others, Current, RequestTypeOK, ConsumerState, Processable, v1
  <2> QED
    BY <1>0, <2>2, HandledForGood DEF Deletable, HandledMessage, HandledNext
<1>3. CASE DeleteBatch(p) \/ CrashConsumer(p)
  BY <1>3 DEF DeleteBatch, CrashConsumer, Idle, Others, Deletable,
              RequestTypeOK
<1>4. CASE PublishInvalidRequest(p)
  BY <1>0, <1>4, CompleteDeletable
  DEF PublishInvalidRequest, At, Deletable, Processable
<1>5. CASE CheckIdempotency(p)
  <2>1. checkNotificationIdempotency(Current(p)) => HandledMessage(Current(p))
    BY DEF checkNotificationIdempotency, Secondary, Matching, DeliveryInv,
           Keeps, HandledMessage, SameKey
  <2>2. CASE Goto(p, "insert")
    BY <1>0, <2>2, GotoDeletable
  <2>3. CASE Complete(p) /\ checkNotificationIdempotency(Current(p))
    <3>1. HandledNext(Current(p))
      BY <2>1, <2>3, HandledForGood
    <3> QED
      BY <1>0, <2>3, <3>1, CompleteDeletable
  <2>4. CASE "db" \in Faults /\ Complete(p) /\ Fault(Current(p))
    BY <1>0, <2>4, CompleteDeletable DEF Fault, HandledNext
  <2> QED
    BY <1>5, <2>2, <2>3, <2>4 DEF CheckIdempotency
<1>6. CASE AddRequest(p)
  <2>1. DuplicateKey(Current(p)) => HandledNext(Current(p))
    BY HandledForGood DEF DuplicateKey, Matching, HandledMessage, SameKey
  <2>2. addNotificationRequest(Current(p), now) => HandledNext(Current(p))
    BY <1>0, <1>6, AddKeeps
    DEF AddRequest, At, HandledNext, SameKey, RequestTypeOK, PlatformTypeOK
  <2>3. "db" \in Faults /\ Fault(Current(p)) => HandledNext(Current(p))
    BY DEF Fault, HandledNext
  <2>4. HandledNext(Current(p)) /\ (Complete(p) \/ Goto(p, "received"))
    BY <1>6, <2>1, <2>2, <2>3 DEF AddRequest
  <2> QED
    BY <1>0, <2>4, CompleteDeletable, GotoDeletable
<1>7. ASSUME consumer[p].pc \in {"received", "send", "sent", "sending",
                                 "failed", "failure", "retry"}
      PROVE  HandledNext(Current(p))
  BY <1>0, <1>7, HandledForGood DEF Deletable
<1>8. CASE \/ PublishReceived(p) \/ PublishSending(p) \/ PublishFailure(p)
           \/ RetryFailure(p)
  <2>1. /\ HandledNext(Current(p))
        /\ Complete(p) \/ Goto(p, "send") \/ Goto(p, "retry")
    BY <1>7, <1>8
    DEF PublishReceived, PublishSending, PublishFailure, RetryFailure, At
  <2> QED
    BY <1>0, <2>1, CompleteDeletable, GotoDeletable
<1>9. CASE RecordSending(p) \/ RecordFailure(p)
  <2>1. /\ HandledNext(Current(p))
        /\ Complete(p) \/ Goto(p, "sending") \/ Goto(p, "failure")
    BY <1>7, <1>9 DEF RecordSending, RecordFailure, Record, At
  <2> QED
    BY <1>0, <2>1, CompleteDeletable, GotoDeletable
<1>10. CASE SendEmail(p)
  <2>1. HandledNext(Current(p))
    BY <1>7, <1>10 DEF SendEmail, At
  <2>2. CASE Complete(p)
    BY <1>0, <2>1, <2>2, CompleteDeletable
  <2>3. CASE ~Complete(p)
    <3>1. /\ Others(p)
          /\ consumer'[p].pc \in {"sent", "failed"}
          /\ Current(p)' = Current(p)
      BY <1>10, <2>3, SendEmailPlaces DEF Current
    <3>2. consumer'[p].completed = consumer[p].completed
      BY <1>0, <1>10, <2>3 DEF SendEmail, RequestTypeOK, ConsumerState
    <3> QED
      BY <1>0, <2>1, <3>1, <3>2, HandledForGood
      DEF Deletable, HandledMessage, HandledNext
  <2> QED
    BY <2>2, <2>3
<1> QED
  BY <1>1, <1>2, <1>3, <1>4, <1>5, <1>6, <1>8, <1>9, <1>10 DEF ConsumerStep

LEMMA DeliveryInvStep ==
  ASSUME RequestTypeOK, DeliveryInv, [RequestNext]_consumerVars
  PROVE  DeliveryInv'
<1>1. Keeps(docs, docs') /\ faulted \subseteq faulted'
  BY LogOnlyGrows
<1>2. ASSUME NEW p \in Processes, ConsumerStep(p) \/ CrashConsumer(p)
      PROVE  DeliveryInv'
  <2>1. \A q \in Processes : Deletable(q)'
    <3>1. Others(p) /\ Deletable(p)'
      BY <1>1, <1>2, ConsumerStepDeletable
    <3>2. \A q \in Processes \ {p} : Deletable(q)'
      BY <1>1, <3>1, DeletableElsewhere DEF DeliveryInv, Others
    <3> QED
      BY <3>1, <3>2
  <2>2. replica' = replica
    BY <1>2 DEF ConsumerStep, CrashConsumer, Poll, NextMessage, DeleteBatch,
       PublishInvalidRequest, CheckIdempotency, AddRequest, PublishReceived,
       SendEmail, RecordSending, RecordFailure, Record, PublishSending,
       PublishFailure, RetryFailure, platform
  <2>3. Keeps(replica, docs)'
    BY <1>1, <2>2 DEF DeliveryInv, Keeps
  <2> QED
    BY <2>1, <2>3 DEF DeliveryInv
<1>3. CASE ConsumerEnvironment \/ UNCHANGED consumerVars
  <2>1. /\ consumer' = consumer
        /\ docs' = docs
        /\ replica' \in {replica, docs}
    BY <1>3 DEF ConsumerEnvironment, Submit, CatchUp, Replicate, Tick,
                consumerVars, platform
  <2>2. \A q \in Processes : Deletable(q)'
    BY <1>1, <2>1, DeletableElsewhere DEF DeliveryInv
  <2>3. Keeps(replica, docs)'
    BY <2>1 DEF DeliveryInv, Keeps
  <2> QED
    BY <2>2, <2>3 DEF DeliveryInv
<1> QED
  BY <1>2, <1>3 DEF RequestNext

(* Only the deletion of a batch takes messages from the queue, and only    *)
(* completed ones.                                                         *)
LEMMA QueueShrinks ==
  ASSUME [RequestNext]_consumerVars, NEW e \in queue \ queue'
  PROVE  /\ \E p \in Processes : e \in consumer[p].completed
         /\ UNCHANGED <<docs, faulted>>
<1>1. \E p \in Processes : DeleteBatch(p)
  BY DEF RequestNext, ConsumerStep, CrashConsumer, ConsumerEnvironment,
     Poll, NextMessage, PublishInvalidRequest, CheckIdempotency, AddRequest,
     PublishReceived, SendEmail, RecordSending, RecordFailure, Record,
     PublishSending, PublishFailure, RetryFailure, publishRetryRequest,
     Submit, CatchUp, Tick, platform, consumerVars
<1> QED
  BY <1>1 DEF DeleteBatch

(* A request that satisfies the schema leaves the queue only once the log  *)
(* has it, unless a fault hit it: handleCommRequestMessages completes      *)
(* every message whatever happened, and drops none silently.               *)
THEOREM NoneDropped == RequestSpec => DroppedOnlyByFault
<1>1. RequestInit => DeliveryInv
  BY DEF RequestInit, PlatformInit, ConsumerInit, DeliveryInv, Keeps,
         Deletable, Idle
<1>2. RequestTypeOK /\ DeliveryInv /\ [RequestNext]_consumerVars => DeliveryInv'
  BY DeliveryInvStep
<1>3. DeliveryInv /\ [RequestNext]_consumerVars =>
        [\A e \in queue \ queue' :
           v1(e.message) /\ e.message.type \in processorMap =>
             \/ e.message \in faulted
             \/ \E d \in docs : SameKey(d.message, e.message)]_consumerVars
  <2> SUFFICES ASSUME DeliveryInv, [RequestNext]_consumerVars,
                      NEW e \in queue \ queue', Processable(e.message)
               PROVE  \/ e.message \in faulted
                      \/ \E d \in docs : SameKey(d.message, e.message)
    BY DEF Processable
  <2> QED
    BY QueueShrinks DEF DeliveryInv, Deletable, HandledMessage
<1> QED
  BY <1>1, <1>2, <1>3, RequestTypeCorrect, PTL
  DEF RequestSpec, DroppedOnlyByFault
=============================================================================
