--------------------------- MODULE OutcomeProofs ----------------------------
(***************************************************************************)
(* Theorems about how requests end, for every number of requests, of       *)
(* callbacks and of faults, on stale reads too.  Any number of instances   *)
(* tell subscribers one outcome of a message and answer every failure.     *)
(* One instance besides never takes a finished status back, implements     *)
(* NotificationLifecycle, and schedules no retry after it reported that    *)
(* retries have ended.  Two instances have a mutex each, and a slow run of *)
(* one may undo for a while what the other wrote.                          *)
(***************************************************************************)
EXTENDS ServiceProofs

-----------------------------------------------------------------------------
(* The kinds of steps a run takes, by what they do to the notification in  *)
(* hand and to those still to be looked at.                                *)

Looks(p, r) ==
  /\ job[p][r].pc = "next" /\ job'[p][r].pc = "record"
  /\ UNCHANGED <<docs, topic, queue, emails>>
  /\ \E d \in job[p][r].pending :
       /\ job'[p][r].current = d
       /\ job'[p][r].pending = job[p][r].pending \ {d}
       /\ job'[p][r].status = emails[d.notificationId].status

Finishes(p, r) ==
  /\ job[p][r].pc = "record" /\ job'[p][r].pc = "publish"
  /\ job'[p][r].current = job[p][r].current
  /\ job'[p][r].pending = job[p][r].pending
  /\ job'[p][r].status = job[p][r].status
  /\ updateNotificationStatus(Notification(p, r).message, job[p][r].status, 0)

Fetches(p, r) ==
  /\ job[p][r].pc = "fetch" /\ job'[p][r].pc = "next"
  /\ UNCHANGED <<docs, topic, queue, emails>>
  /\ job'[p][r].pending = getPendingNotifications

GoesOn(p, r) ==
  /\ job'[p][r].pc \notin {"record", "publish"}
  /\ job'[p][r].pending \subseteq job[p][r].pending
  /\ job'[p][r].pc \in {"idle", "fetch"} =>
       job[p][r].pc = "idle" \/ job'[p][r].pending = {}

LEMMA RunKinds ==
  ASSUME JobInv, NEW p \in Processes, NEW r \in Runs,
         CronTick(p, r) \/ RunStep(p, r)
  PROVE  /\ \A q \in Processes, s \in Runs :
              job'[q][s] = job[q][s] \/ (q = p /\ s = r)
         /\ Looks(p, r) \/ Finishes(p, r) \/ Fetches(p, r) \/ GoesOn(p, r)
<1>0. job[p][r] \in RunState
  BY DEF JobInv
<1>1. PICK c : job' = [job EXCEPT ![p][r] = c] /\ c \in RunState
  BY RunChange DEF Becomes
<1>2. /\ job'[p][r] = c
      /\ \A q \in Processes, s \in Runs :
           job'[q][s] = job[q][s] \/ (q = p /\ s = r)
  BY <1>1 DEF JobInv
<1> SUFFICES Looks(p, r) \/ Finishes(p, r) \/ Fetches(p, r) \/ GoesOn(p, r)
  BY <1>2
<1>3. ASSUME NEW label, RunGoto(p, r, label)
      PROVE  /\ job'[p][r].pc = label
             /\ job'[p][r].pending = job[p][r].pending
             /\ job'[p][r].current = job[p][r].current
             /\ job'[p][r].status = job[p][r].status
  BY <1>0, <1>3 DEF RunGoto, JobInv, RunState
<1>4. ASSUME Continue(p, r)
      PROVE  GoesOn(p, r)
  <2>1. job'[p][r].pc = "next" /\ job'[p][r].pending = job[p][r].pending
    BY <1>0, <1>4 DEF Continue, JobInv, RunState, NoRun
  <2> QED
    BY <2>1 DEF GoesOn
<1>5. CASE CronTick(p, r)
  BY <1>3, <1>5 DEF CronTick, RunAt, GoesOn
<1>6. CASE FetchPending(p, r)
  <2>1. CASE RunGoto(p, r, "next")
    BY <1>3, <2>1 DEF GoesOn
  <2>2. CASE job' = [job EXCEPT ![p][r].pc = "next",
                                ![p][r].pending = getPendingNotifications]
    <3>1. /\ job'[p][r].pc = "next"
          /\ job'[p][r].pending = getPendingNotifications
      BY <1>0, <2>2 DEF JobInv, RunState
    <3> QED
      BY <1>6, <3>1 DEF FetchPending, RunAt, Fetches, platform
  <2> QED
    BY <1>6, <2>1, <2>2 DEF FetchPending
<1>7. CASE FinishRun(p, r)
  <2>1. job'[p][r] = NoRun
    BY <1>7 DEF FinishRun, JobInv
  <2> QED
    BY <2>1 DEF NoRun, GoesOn
<1>8. CASE GetNotifyStatus(p, r)
  <2>1. /\ UNCHANGED <<docs, topic, queue, emails>>
        /\ job[p][r].pc = "next"
    BY <1>8 DEF GetNotifyStatus, RunAt, platform
  <2>2. PICK d \in job[p][r].pending :
          \/ job' = [job EXCEPT ![p][r].pending = job[p][r].pending \ {d}]
          \/ job' = [job EXCEPT ![p][r] =
               [pc |-> "record", pending |-> job[p][r].pending \ {d},
                current |-> d, status |-> emails[d.notificationId].status]]
    BY <1>8 DEF GetNotifyStatus
  <2>3. CASE job' = [job EXCEPT ![p][r].pending = job[p][r].pending \ {d}]
    <3>1. /\ job'[p][r].pc = "next"
          /\ job'[p][r].pending = job[p][r].pending \ {d}
      BY <1>0, <2>1, <2>3 DEF JobInv, RunState
    <3> QED
      BY <3>1 DEF GoesOn
  <2>4. CASE job' = [job EXCEPT ![p][r] =
               [pc |-> "record", pending |-> job[p][r].pending \ {d},
                current |-> d, status |-> emails[d.notificationId].status]]
    <3>1. job'[p][r] =
            [pc |-> "record", pending |-> job[p][r].pending \ {d},
             current |-> d, status |-> emails[d.notificationId].status]
      BY <2>4 DEF JobInv
    <3> QED
      BY <2>1, <3>1 DEF Looks
  <2> QED
    BY <2>2, <2>3, <2>4
<1>9. CASE RecordStatus(p, r)
  <2>1. CASE Continue(p, r)
    BY <1>4, <2>1
  <2>2. CASE /\ RunGoto(p, r, "publish")
             /\ updateNotificationStatus(Notification(p, r).message,
                                         job[p][r].status, 0)
    BY <1>3, <1>9, <2>2 DEF RecordStatus, RunAt, Finishes
  <2> QED
    BY <1>9, <2>1, <2>2 DEF RecordStatus
<1>10. CASE PublishStatus(p, r)
  BY <1>3, <1>4, <1>10 DEF PublishStatus, PublishAndRetryIf, GoesOn
<1>11. CASE CheckRetry(p, r)
  <2>1. \/ Continue(p, r) \/ RunGoto(p, r, "resend") \/ RunGoto(p, r, "expire")
    BY <1>11 DEF CheckRetry
  <2> QED
    BY <1>3, <1>4, <2>1 DEF GoesOn
<1>12. CASE PublishRetry(p, r) \/ PublishRetryExpired(p, r)
  BY <1>4, <1>12 DEF PublishRetry, PublishRetryExpired
<1> QED
  BY <1>2, <1>5, <1>6, <1>7, <1>8, <1>9, <1>10, <1>11, <1>12 DEF RunStep

-----------------------------------------------------------------------------
(* Finished documents stay finished.  What makes it so: a run that is to   *)
(* write a status in progress looks at a document in progress, and what a  *)
(* consumer or a run is about to announce is in the log.                   *)

StillOpen(d) ==
  \A e \in docs : SameNotification(d, e) => e.status \notin finishedStatus

HasVerdict(m, status) ==
  \E e \in docs : e.message = m /\ e.status = status

RunFresh(c) ==
  /\ c.pc = "record" /\ c.status \notin notifyFinal => StillOpen(c.current)
  /\ c.pc = "publish" => HasVerdict(c.current.message, c.status)

(* The consumer's own failure: no email was sent, as far as it knows. *)
FailureRecorded(p) ==
  consumer[p].pc = "failure" =>
    \E e \in docs : /\ e.message = Current(p)
                    /\ e.status = consumer[p].failure
                    /\ e.notificationId = 0

VerdictInv ==
  /\ OneRunAtATime
  /\ \A p \in Processes, r \in Runs : RunFresh(job[p][r])
  /\ \A p \in Processes : FailureRecorded(p)

FinishedKept ==
  \A d \in docs : d.status \in finishedStatus =>
    \E e \in docs' : /\ SameNotification(d, e)
                     /\ e.status = d.status
                     /\ e.notificationId = d.notificationId

LEMMA FinishedStep ==
  ASSUME KeysGuarded, LogInv, VerdictInv, ServiceStep
  PROVE  FinishedKept
<1>1. ASSUME docs \subseteq docs'
      PROVE  FinishedKept
  BY <1>1 DEF FinishedKept, SameNotification
<1>2. ASSUME NEW p \in Processes, ConsumerMoves(p)
      PROVE  FinishedKept
  <2>1. Rests(p) \/ Inserts(p) \/ Accepts(p) \/ Settles(p)
    BY <1>2, ConsumerEffect DEF LogInv, PipelineInv, ConsumerMoves
  <2>2. CASE Settles(p)
    <3>1. PICK d \in docs, new \in Doc :
            d.message = Current(p) /\ Settled(p, d, new)
      BY <2>2 DEF Settles
    <3>2. Replaces(d, new) /\ d.status = "pending-publish"
      BY <3>1, SettlesUnsent DEF LogInv, PipelineInv, JobInv
    <3> QED
      BY <3>2 DEF Replaces, FinishedKept, SameNotification, finishedStatus
  <2> QED
    BY <1>1, <2>1, <2>2 DEF Rests, Inserts, Inserted, Accepts
<1>3. ASSUME NEW p \in Processes, NEW r \in Runs, RunMoves(p, r)
      PROVE  FinishedKept
  <2>1. RunWrites(p, r)
    BY <1>3, RunAround DEF LogInv, RunMoves
  <2>2. CASE docs' # docs
    <3>1. PICK d \in docs, new \in Doc :
            /\ Replaces(d, new)
            /\ SameNotification(Notification(p, r), d)
            /\ d.notificationId # 0
            /\ new.notificationId = d.notificationId
            /\ job[p][r].pc = "record"
            /\ new.status = job[p][r].status
            /\ new.status \in NotifyStatus
            /\ new.status \in notifyFinal =>
                 emails[d.notificationId].status = new.status
      BY <2>1, <2>2, RunUpdatesTied DEF LogInv, PipelineInv
    <3>2. ASSUME d.status \in finishedStatus
          PROVE  new.status = d.status
      <4>1. /\ d.status \in notifyFinal
            /\ emails[d.notificationId].status = d.status
        BY <3>1, <3>2, StatusSets DEF LogInv, NotesOK, NoteOK
      <4>2. new.status \in notifyFinal
        BY <3>1, <3>2 DEF VerdictInv, RunFresh, StillOpen, Notification
      <4> QED
        BY <3>1, <4>1, <4>2
    <3> QED
      BY <3>1, <3>2 DEF Replaces, FinishedKept, SameNotification
  <2> QED
    BY <1>1, <2>2
<1> QED
  BY <1>1, <1>2, <1>3
  DEF ServiceStep, Ends, Environment, Submit, Deliver, CatchUp, Replicate,
      Tick, QueueShrinksOnly

LEMMA VerdictKept ==
  ASSUME FinishedKept, NEW m, NEW status \in finishedStatus,
         HasVerdict(m, status)
  PROVE  HasVerdict(m, status)'
BY DEF FinishedKept, HasVerdict, SameNotification

(* Nothing but a run that records puts a document that was sent back into  *)
(* progress or ends it.                                                    *)
LEMMA OpenKept ==
  ASSUME LogInv, NEW d, Tied(d), StillOpen(d),
         \/ UNCHANGED docs
         \/ \E p \in Processes : Inserts(p) \/ Settles(p)
  PROVE  StillOpen(d)'
<1>1. PICK e \in docs : /\ SameNotification(d, e)
                        /\ e.notificationId = d.notificationId
                        /\ e.notificationId # 0
  BY NoZero DEF Tied, LogInv, JobInv
<1>2. ASSUME NEW p \in Processes, Inserts(p)
      PROVE  StillOpen(d)'
  <2>1. PICK doc : Inserted(doc, Current(p))
    BY <1>2 DEF Inserts
  <2>2. ~SameNotification(d, doc)
    BY <1>1, <2>1 DEF Inserted, FreshUuids, SameNotification
  <2> QED
    BY <2>1, <2>2 DEF Inserted, StillOpen
<1>3. ASSUME NEW p \in Processes, Settles(p)
      PROVE  StillOpen(d)'
  <2>1. PICK c \in docs, new \in Doc :
          c.message = Current(p) /\ Settled(p, c, new)
    BY <1>3 DEF Settles
  <2>2. Replaces(c, new) /\ c.notificationId = 0
    BY <2>1, SettlesUnsent DEF LogInv, PipelineInv, JobInv
  <2>3. c # e
    BY <1>1, <2>2
  <2>4. ~SameNotification(d, new)
    BY <1>1, <2>2, <2>3
    DEF Replaces, SameNotification, LogInv, PipelineInv, OneId
  <2> QED
    BY <2>2, <2>4 DEF Replaces, StillOpen
<1> QED
  BY <1>2, <1>3 DEF StillOpen

(* A status in progress is news only of a document in progress.            *)
LEMMA NewsOfOpen ==
  ASSUME LogInv, NEW d, Tied(d),
         emails[d.notificationId].status \notin notifyFinal
  PROVE  StillOpen(d)
<1>1. PICK e \in docs : /\ SameNotification(d, e)
                        /\ e.notificationId = d.notificationId
                        /\ e.notificationId # 0
  BY NoZero DEF Tied, LogInv, JobInv
<1>2. e.status \notin finishedStatus
  BY <1>1, StatusSets DEF LogInv, NotesOK, NoteOK
<1> QED
  BY <1>1, <1>2 DEF StillOpen, SameNotification, LogInv, PipelineInv, OneId

LEMMA FinishesWrites ==
  ASSUME LogInv, NEW p \in Processes, NEW r \in Runs, Finishes(p, r)
  PROVE  HasVerdict(Notification(p, r).message, job[p][r].status)'
<1> DEFINE m == Notification(p, r).message
           status == job[p][r].status
<1>1. RunOK(job[p][r]) /\ job[p][r].pc = "record"
  BY DEF Finishes, LogInv, JobInv
<1>2. PICK e \in docs : e.message = m
  BY <1>1 DEF RunOK, Tied, Notification, SameNotification
<1>3. status \in notifyStatuses /\ docs \subseteq Doc
  BY <1>1, StatusSets DEF RunOK, LogInv, JobInv, PlatformTypeOK
<1>4. updateNotificationStatus(m, status, 0)
  BY DEF Finishes
<1> HIDE DEF m, status
<1>5. PICK d \in Matching(docs, m.source, m.id), new \in Doc :
        Updates(d, new, status, 0)
  BY <1>2, <1>3, <1>4, UpdateWrites DEF Matching
<1>6. d.message = m
  BY <1>2, <1>5 DEF Matching, LogInv, PipelineInv, OneDocument, SameKey
<1>7. new \in docs' /\ new.message = m /\ new.status = status
  BY <1>5, <1>6 DEF Updates, Replaces, SameNotification
<1>8. \E f \in docs' : f.message = m /\ f.status = status
  BY <1>7
<1> QED
  BY <1>8 DEF HasVerdict, Finishes, Notification, m, status

LEMMA FailureEntered ==
  ASSUME RequestTypeOK, NEW p \in Processes, ConsumerStep(p),
         consumer'[p].pc = "failure"
  PROVE  /\ consumer[p].pc = "failed"
         /\ Current(p)' = Current(p)
         /\ consumer'[p].failure = consumer[p].failure
         /\ updateNotificationStatus(Current(p), consumer[p].failure, 0)
<1>0. consumer[p] \in ConsumerState
  BY DEF RequestTypeOK
<1>1. ~Complete(p) /\ consumer' # [consumer EXCEPT ![p] = Idle]
  <2>1. ASSUME Complete(p)
        PROVE  consumer'[p].pc = "next"
    BY <2>1 DEF Complete, Idle, RequestTypeOK
  <2>2. ASSUME consumer' = [consumer EXCEPT ![p] = Idle]
        PROVE  consumer'[p].pc = "idle"
    BY <2>2 DEF Idle, RequestTypeOK
  <2> QED
    BY <2>1, <2>2
<1>2. ASSUME NEW label, Goto(p, label)
      PROVE  /\ label = "failure" /\ Current(p)' = Current(p)
             /\ consumer'[p].failure = consumer[p].failure
  BY <1>0, <1>2 DEF Goto, RequestTypeOK, ConsumerState, Current
<1>3. CASE RecordFailure(p)
  BY <1>1, <1>2, <1>3 DEF RecordFailure, Record, At
<1>4. CASE RecordSending(p)
  BY <1>1, <1>2, <1>4 DEF RecordSending, Record
<1>5. CASE SendEmail(p)
  <2>1. consumer'[p].pc \in {"next", "sent", "failed"}
    <3>1. \/ consumer' = [consumer EXCEPT ![p].pc = "sent",
                                          ![p].notificationId = Len(emails) + 1]
          \/ \E status : consumer' = [consumer EXCEPT ![p].pc = "failed",
                                                      ![p].failure = status]
      BY <1>1, <1>5 DEF SendEmail
    <3> QED
      BY <1>0, <3>1 DEF RequestTypeOK, ConsumerState
  <2> QED
    BY <2>1
<1>6. CASE Poll(p)
  <2>1. PICK batch : consumer' = [consumer EXCEPT ![p].pc = "next",
                                                  ![p].batch = batch]
    BY <1>6 DEF Poll
  <2>2. consumer'[p].pc = "next"
    BY <1>0, <2>1 DEF RequestTypeOK, ConsumerState
  <2> QED
    BY <2>2
<1>7. CASE NextMessage(p)
  <2>1. PICK e \in consumer[p].batch :
          LET m == e.message
              processed == m.body # "unparseable" /\ m.type \in processorMap
          IN consumer' = [consumer EXCEPT
               ![p].batch = @ \ {e},
               ![p].current = IF processed THEN e ELSE None,
               ![p].completed = IF processed THEN @ ELSE @ \cup {e},
               ![p].pc = IF ~processed THEN "next"
                         ELSE IF v1(m) THEN "check" ELSE "invalid"]
    BY <1>7 DEF NextMessage
  <2>2. consumer'[p].pc \in {"next", "check", "invalid"}
    BY <1>0, <2>1 DEF RequestTypeOK, ConsumerState
  <2> QED
    BY <2>2
<1>8. CASE \/ DeleteBatch(p) \/ PublishInvalidRequest(p) \/ RetryFailure(p)
           \/ PublishSending(p)
  BY <1>1, <1>8
  DEF DeleteBatch, PublishInvalidRequest, RetryFailure, PublishSending
<1>9. CASE CheckIdempotency(p) \/ AddRequest(p) \/ PublishReceived(p)
  <2>1. Goto(p, "insert") \/ Goto(p, "received") \/ Goto(p, "send")
    BY <1>1, <1>9 DEF CheckIdempotency, AddRequest, PublishReceived
  <2> QED
    BY <1>2, <2>1
<1>10. CASE PublishFailure(p)
  <2>1. Goto(p, "retry")
    BY <1>1, <1>10 DEF PublishFailure
  <2> QED
    BY <1>2, <2>1
<1> QED
  BY <1>3, <1>4, <1>5, <1>6, <1>7, <1>8, <1>9, <1>10 DEF ConsumerStep

LEMMA FreshKept ==
  ASSUME LogInv, FinishedKept, NEW c, RunOK(c), RunFresh(c),
         \/ UNCHANGED docs
         \/ \E p \in Processes : Inserts(p) \/ Settles(p)
  PROVE  RunFresh(c)'
<1>1. ASSUME c.pc = "record", c.status \notin notifyFinal
      PROVE  StillOpen(c.current)'
  <2>1. PICK d : d = c.current
    OBVIOUS
  <2>2. Tied(d) /\ StillOpen(d)
    BY <1>1, <2>1 DEF RunOK, RunFresh
  <2>3. StillOpen(d)'
    BY <2>2, OpenKept
  <2> QED
    BY <2>1, <2>3
<1>2. ASSUME c.pc = "publish"
      PROVE  HasVerdict(c.current.message, c.status)'
  <2>1. c.status \in finishedStatus
    BY <1>2, StatusSets DEF RunOK
  <2> QED
    BY <1>2, <2>1, VerdictKept DEF RunFresh
<1> QED
  BY <1>1, <1>2 DEF RunFresh

(* What was never sent and is not about to be stays in the log as it is.   *)
UnsentStays ==
  \A d \in docs : d.notificationId = 0 /\ d.status # "pending-publish" =>
    d \in docs'

LEMMA UnsentStep ==
  ASSUME KeysGuarded, LogInv, ServiceStep
  PROVE  UnsentStays
<1>1. ASSUME NEW p \in Processes, ConsumerMoves(p)
      PROVE  UnsentStays
  <2>1. Rests(p) \/ Inserts(p) \/ Accepts(p) \/ Settles(p)
    BY <1>1, ConsumerEffect DEF LogInv, PipelineInv, ConsumerMoves
  <2>2. CASE Settles(p)
    <3>1. PICK d \in docs, new \in Doc :
            d.message = Current(p) /\ Settled(p, d, new)
      BY <2>2 DEF Settles
    <3>2. Replaces(d, new) /\ d.status = "pending-publish"
      BY <3>1, SettlesUnsent DEF LogInv, PipelineInv, JobInv
    <3> QED
      BY <3>2 DEF Replaces, UnsentStays
  <2> QED
    BY <2>1, <2>2 DEF Rests, Inserts, Inserted, Accepts, UnsentStays
<1>2. ASSUME NEW p \in Processes, NEW r \in Runs, RunMoves(p, r)
      PROVE  UnsentStays
  <2>1. RunWrites(p, r)
    BY <1>2, RunAround DEF LogInv, RunMoves
  <2>2. CASE docs' # docs
    <3>1. PICK d \in docs, new \in Doc :
            Replaces(d, new) /\ d.notificationId # 0
      BY <2>1, <2>2, RunUpdatesTied DEF LogInv, PipelineInv
    <3> QED
      BY <3>1 DEF Replaces, UnsentStays
  <2> QED
    BY <2>2 DEF UnsentStays
<1> QED
  BY <1>1, <1>2
  DEF ServiceStep, Ends, Environment, Submit, Deliver, CatchUp, Replicate,
      Tick, QueueShrinksOnly, UnsentStays

LEMMA FailureKept ==
  ASSUME RequestTypeOK, UnsentStays, NEW q \in Processes, FailureRecorded(q),
         consumer'[q] = consumer[q]
  PROVE  FailureRecorded(q)'
<1>1. ASSUME consumer[q].pc = "failure"
      PROVE  \E e \in docs' : /\ e.message = Current(q)
                              /\ e.status = consumer[q].failure
                              /\ e.notificationId = 0
  <2>1. PICK e \in docs : /\ e.message = Current(q)
                          /\ e.status = consumer[q].failure
                          /\ e.notificationId = 0
    BY <1>1 DEF FailureRecorded
  <2>2. consumer[q] \in ConsumerState /\ e.status # None
    BY <1>1, <2>1, TypesAssumption
    DEF RequestTypeOK, PlatformTypeOK, Doc, TypesAssumption
  <2>3. e.status # "pending-publish"
    BY <2>1, <2>2 DEF ConsumerState
  <2> QED
    BY <2>1, <2>3 DEF UnsentStays
<1> QED
  BY <1>1 DEF FailureRecorded, Current

LEMMA FailureMade ==
  ASSUME LogInv, NEW p \in Processes, ConsumerMoves(p)
  PROVE  FailureRecorded(p)'
<1> SUFFICES ASSUME consumer'[p].pc = "failure"
             PROVE  \E e \in docs' : /\ e.message = Current(p)'
                                     /\ e.status = consumer'[p].failure
                                     /\ e.notificationId = 0
  BY DEF FailureRecorded
<1>1. /\ consumer[p].pc = "failed"
      /\ Current(p)' = Current(p)
      /\ consumer'[p].failure = consumer[p].failure
      /\ updateNotificationStatus(Current(p), consumer[p].failure, 0)
  BY FailureEntered DEF ConsumerMoves, LogInv
<1>2. PICK d \in docs : d.message = Current(p) /\ d.status = "pending-publish"
  BY <1>1 DEF LogInv, PipelineInv, Holds, PendingPlaces
<1>3. /\ d.notificationId = 0 /\ docs \subseteq Doc
      /\ consumer[p].failure \in {"internal-failure", "technical-failure",
                                  None}
  BY <1>2 DEF LogInv, NotesOK, NoteOK, JobInv, PlatformTypeOK,
              RequestTypeOK, ConsumerState
<1>4. consumer[p].failure # None
  BY <1>1 DEF LogInv, RequestTypeOK
<1>5. consumer[p].failure \in notifyStatuses
  BY <1>3, <1>4 DEF notifyStatuses
<1>6. PICK c \in Matching(docs, Current(p).source, Current(p).id),
           new \in Doc :
        Updates(c, new, consumer[p].failure, 0)
  BY <1>1, <1>2, <1>3, <1>5, UpdateWrites DEF Matching
<1>7. c = d
  BY <1>2, <1>6 DEF Matching, LogInv, PipelineInv, OneDocument, SameKey
<1> QED
  BY <1>1, <1>2, <1>3, <1>6, <1>7 DEF Updates, Replaces, SameNotification

LEMMA FailureStep ==
  ASSUME KeysGuarded, LogInv, \A p \in Processes : FailureRecorded(p),
         ServiceStep
  PROVE  \A q \in Processes : FailureRecorded(q)'
<1>1. UnsentStays /\ RequestTypeOK /\ consumer \in [Processes -> ConsumerState]
  BY UnsentStep DEF LogInv, RequestTypeOK
<1>2. ASSUME NEW q \in Processes, consumer'[q] = consumer[q]
      PROVE  FailureRecorded(q)'
  BY <1>1, <1>2, FailureKept
<1>3. ASSUME NEW p \in Processes, ConsumerMoves(p),
             NEW q \in Processes
      PROVE  FailureRecorded(q)'
  <2>1. Others(p)
    BY <1>3, ConsumerEffect DEF LogInv, PipelineInv, ConsumerMoves
  <2> QED
    BY <1>2, <1>3, <2>1, FailureMade DEF Others
<1>4. ASSUME NEW p \in Processes, Ends(p), NEW q \in Processes
      PROVE  FailureRecorded(q)'
  <2>1. consumer'[q] = consumer[q] \/ consumer'[q].pc = "idle"
    BY <1>1, <1>4 DEF Ends, Idle
  <2> QED
    BY <1>2, <2>1 DEF FailureRecorded
<1>5. UNCHANGED consumer \/ \E p \in Processes : ConsumerMoves(p) \/ Ends(p)
  BY DEF ServiceStep, RunMoves, Environment, QueueShrinksOnly
<1> QED
  BY <1>2, <1>3, <1>4, <1>5

LEMMA VerdictConsumer ==
  ASSUME KeysGuarded, LogInv, VerdictInv, NEW p \in Processes,
         ConsumerMoves(p)
  PROVE  VerdictInv'
<1>1. /\ FinishedKept
      /\ Rests(p) \/ Inserts(p) \/ Accepts(p) \/ Settles(p)
      /\ Others(p)
  BY FinishedStep, ConsumerEffect
  DEF LogInv, PipelineInv, ConsumerMoves, ServiceStep
<1>2. UNCHANGED docs \/ \E q \in Processes : Inserts(q) \/ Settles(q)
  BY <1>1 DEF Rests, Accepts
<1>3. OneRunAtATime' /\ UNCHANGED job
  BY DEF VerdictInv, OneRunAtATime, ConsumerMoves
<1>4. ASSUME NEW q \in Processes, NEW s \in Runs
      PROVE  RunFresh(job[q][s])'
  <2>1. PICK c : c = job[q][s]
    OBVIOUS
  <2>2. RunFresh(c)'
    BY <1>1, <1>2, <2>1, FreshKept DEF VerdictInv, LogInv, JobInv
  <2> QED
    BY <1>3, <2>1, <2>2
<1>5. \A q \in Processes : FailureRecorded(q)'
  BY FailureStep DEF VerdictInv, ServiceStep
<1> QED
  BY <1>3, <1>4, <1>5 DEF VerdictInv

(* While a run moves no other one is under way in the only process.        *)
LEMMA OnlyRun ==
  ASSUME JobInv, OneRunAtATime, OneInstance,
         NEW p \in Processes, NEW r \in Runs, CronTick(p, r) \/ RunStep(p, r),
         NEW q \in Processes, NEW s \in Runs, job[q][s].pc # "idle"
  PROVE  q = p /\ s = r
<1>1. q = p
  BY DEF OneInstance
<1>2. mutex[p] <=> \E t \in Runs : job[p][t].pc # "idle"
  BY DEF OneRunAtATime
<1>3. job[p][r].pc # "idle"
  <2>1. ~CronTick(p, r)
    BY <1>1, <1>2 DEF CronTick
  <2> QED
    BY <2>1 DEF RunStep, FetchPending, FinishRun, GetNotifyStatus,
                RecordStatus, PublishStatus, PublishAndRetryIf, CheckRetry,
                PublishRetry, PublishRetryExpired, RunAt
<1> QED
  BY <1>1, <1>3 DEF OneRunAtATime

LEMMA VerdictRun ==
  ASSUME KeysGuarded, OneInstance, LogInv, VerdictInv,
         NEW p \in Processes, NEW r \in Runs, RunMoves(p, r)
  PROVE  VerdictInv'
<1>1. /\ FinishedKept /\ UNCHANGED consumer
      /\ CronTick(p, r) \/ RunStep(p, r)
      /\ JobInv /\ OneRunAtATime
  BY FinishedStep DEF RunMoves, ServiceStep, LogInv, VerdictInv
<1>2. OneRunAtATime'
  BY MutexStep DEF ServiceStep, VerdictInv
<1>3. \A q \in Processes : FailureRecorded(q)'
  BY FailureStep DEF VerdictInv, ServiceStep
<1>4. /\ \A q \in Processes, s \in Runs :
           job'[q][s] = job[q][s] \/ (q = p /\ s = r)
      /\ Looks(p, r) \/ Finishes(p, r) \/ Fetches(p, r) \/ GoesOn(p, r)
  BY <1>1, RunKinds
<1>5. ASSUME NEW q \in Processes, NEW s \in Runs, q # p \/ s # r
      PROVE  RunFresh(job[q][s])'
  <2>1. job'[q][s] = job[q][s] /\ job[q][s].pc = "idle"
    BY <1>1, <1>4, <1>5, OnlyRun
  <2> QED
    BY <2>1 DEF RunFresh
<1>6. CASE Looks(p, r)
  <2>1. PICK d \in job[p][r].pending :
          /\ job'[p][r].current = d
          /\ job'[p][r].status = emails[d.notificationId].status
    BY <1>6 DEF Looks
  <2>2. Tied(d)
    BY <1>1, <2>1 DEF JobInv, RunOK
  <2>3. job'[p][r].status \notin notifyFinal => StillOpen(d)
    BY <2>1, <2>2, NewsOfOpen
  <2>4. job'[p][r].pc = "record" /\ docs' = docs
    BY <1>6 DEF Looks
  <2>5. StillOpen(d) => StillOpen(d)'
    BY <2>4 DEF StillOpen
  <2> QED
    BY <1>5, <2>1, <2>3, <2>4, <2>5, <1>2, <1>3 DEF RunFresh, VerdictInv, StillOpen
<1>7. CASE Finishes(p, r)
  <2>1. HasVerdict(Notification(p, r).message, job[p][r].status)'
    BY <1>7, FinishesWrites
  <2>2. job'[p][r].pc = "publish"
    BY <1>7 DEF Finishes
  <2>3. RunFresh(job[p][r])'
    BY <2>1, <2>2 DEF RunFresh, Notification
  <2> QED
    BY <1>2, <1>3, <1>5, <2>3 DEF VerdictInv
<1>8. CASE Fetches(p, r) \/ GoesOn(p, r)
  <2>1. RunFresh(job[p][r])'
    BY <1>8 DEF Fetches, GoesOn, RunFresh
  <2> QED
    BY <1>2, <1>3, <1>5, <2>1 DEF VerdictInv
<1> QED
  BY <1>4, <1>6, <1>7, <1>8

LEMMA VerdictStep ==
  ASSUME KeysGuarded, OneInstance, LogInv, VerdictInv, ServiceStep
  PROVE  VerdictInv' /\ FinishedKept
<1>1. FinishedKept
  BY FinishedStep
<1>2. OneRunAtATime'
  BY MutexStep DEF VerdictInv
<1>3. ASSUME NEW p \in Processes, Ends(p)
      PROVE  VerdictInv'
  <2>1. docs' = docs
    BY <1>3 DEF Ends
  <2>2. /\ consumer'[p].pc = "idle"
        /\ \A q \in Processes : q # p => consumer'[q] = consumer[q]
        /\ \A q \in Processes, s \in Runs :
             job'[q][s] = job[q][s] \/ job'[q][s].pc = "idle"
    BY <1>3 DEF Ends, CrashJob, Idle, NoRun, LogInv, RequestTypeOK, JobInv
  <2>3. \A q \in Processes : FailureRecorded(q)'
    BY FailureStep DEF VerdictInv
  <2>4. ASSUME NEW q \in Processes, NEW s \in Runs
        PROVE  RunFresh(job[q][s])'
    BY <2>1, <2>2 DEF VerdictInv, RunFresh, StillOpen, HasVerdict
  <2> QED
    BY <1>2, <2>3, <2>4 DEF VerdictInv
<1>4. CASE Environment \/ QueueShrinksOnly
  <2>1. UNCHANGED <<docs, consumer, job>>
    BY <1>4 DEF Environment, Submit, Deliver, CatchUp, Replicate, Tick,
                QueueShrinksOnly
  <2>2. \A q \in Processes : FailureRecorded(q)'
    BY FailureStep DEF VerdictInv
  <2>3. ASSUME NEW q \in Processes, NEW s \in Runs
        PROVE  RunFresh(job[q][s])'
    BY <2>1 DEF VerdictInv, RunFresh, StillOpen, HasVerdict
  <2> QED
    BY <1>1, <1>2, <2>2, <2>3 DEF VerdictInv
<1> QED
  BY <1>1, <1>3, <1>4, VerdictConsumer, VerdictRun DEF ServiceStep

LEMMA VerdictInvariant ==
  KeysGuarded /\ OneInstance => (ServiceSpec => [](LogInv /\ VerdictInv))
<1> SUFFICES ASSUME KeysGuarded, OneInstance
             PROVE  ServiceSpec => [](LogInv /\ VerdictInv)
  OBVIOUS
<1>1. ServiceInit => VerdictInv
  BY DEF ServiceInit, JobInit, ConsumerInit, VerdictInv, OneRunAtATime, NoRun,
         Idle, RunFresh, FailureRecorded
<1>2. LogInv /\ VerdictInv /\ [ServiceNext]_serviceVars => VerdictInv'
  BY VerdictStep, ServiceStepOfNext
<1> QED
  BY <1>1, <1>2, LogInvariant, PTL DEF ServiceSpec

(* With one instance a document that is finished stays as it is, whatever  *)
(* the job reads late, SQS delivers again or fails: no run writes what it  *)
(* learned before somebody else finished the document.                     *)
THEOREM FinishedStaysFinal ==
  KeysGuarded /\ OneInstance => (ServiceSpec => FinishedIsFinal)
<1> SUFFICES ASSUME KeysGuarded, OneInstance
             PROVE  ServiceSpec => FinishedIsFinal
  OBVIOUS
<1>1. LogInv /\ VerdictInv /\ [ServiceNext]_serviceVars =>
        [\A d \in docs : d.status \in finishedStatus =>
           \E e \in docs' : e.id = d.id /\ e.status = d.status]_docs
  BY VerdictStep, ServiceStepOfNext DEF FinishedKept, SameNotification
<1> QED
  BY <1>1, VerdictInvariant, PTL DEF ServiceSpec, FinishedIsFinal

-----------------------------------------------------------------------------
(* The refinement: what each step of the service is for                    *)
(* NotificationLifecycle.                                                  *)

LEMMA LifecycleSteps ==
  ASSUME UNCHANGED <<Requested, Outbox, Verdicts, Announced>>
  PROVE  UNCHANGED Lifecycle!lifecycle
BY LifecycleVariables DEF Lifecycle!lifecycle, Requested, Outbox

LEMMA SameOutbox ==
  ASSUME DOMAIN emails' = DOMAIN emails,
         \A i \in DOMAIN emails : emails'[i].message = emails[i].message
  PROVE  Outbox' = Outbox
BY DEF Outbox

(* An event about a valid request with a finished status announces it.     *)
LEMMA EventAnnounces ==
  ASSUME topic \in Seq(Event), NEW e, topic' = Append(topic, e),
         e.status \in finishedStatus, v1(e.about)
  PROVE  Announced' = Announced \cup {[message |-> e.about, status |-> e.status]}
<1>1. {j \in DOMAIN topic' : topic'[j].status \in finishedStatus
                               /\ v1(topic'[j].about)}
      = {j \in DOMAIN topic : topic[j].status \in finishedStatus
                               /\ v1(topic[j].about)} \cup {Len(topic) + 1}
  OBVIOUS
<1>2. /\ \A j \in DOMAIN topic : topic'[j] = topic[j]
      /\ topic'[Len(topic) + 1] = e
  OBVIOUS
<1> QED
  BY <1>1, <1>2 DEF Announced

(* What a run publishes.                                                   *)
RunEvent(p, r, e) ==
  /\ topic' = Append(topic, e)
  /\ UNCHANGED <<docs, queue, emails>>
  /\ e.about = Notification(p, r).message
  /\ \/ job[p][r].pc = "publish" /\ e.status = job[p][r].status
     \/ job[p][r].pc = "expire" /\ e.status = None
  /\ e.type = "retry.expired" <=> job[p][r].pc = "expire"

LEMMA RunPublishes ==
  ASSUME JobInv, NEW p \in Processes, NEW r \in Runs,
         CronTick(p, r) \/ RunStep(p, r)
  PROVE  topic' = topic \/ \E e : RunEvent(p, r, e)
<1>1. CASE PublishStatus(p, r)
  <2> DEFINE event == buildUpdateMessage(Notification(p, r).message,
                                         job[p][r].status)
  <2>1. /\ job[p][r].pc = "publish" /\ UNCHANGED <<docs, queue, emails>>
        /\ topic' = topic \/ topic' = Append(topic, event)
    BY <1>1 DEF PublishStatus, PublishAndRetryIf, RunAt, Publish
  <2>2. job[p][r].status \in notifyFinal
    BY <2>1 DEF JobInv, RunOK
  <2>3. /\ event.about = Notification(p, r).message
        /\ event.status = job[p][r].status
        /\ event.type # "retry.expired"
    BY <2>2 DEF buildUpdateMessage, buildEvent, statusToEventMap, notifyFinal,
                notifyStatuses
  <2> HIDE DEF event
  <2> QED
    BY <2>1, <2>3 DEF RunEvent
<1>2. CASE PublishRetryExpired(p, r)
  <2> DEFINE event == buildExpiredMessage(Notification(p, r).message)
  <2>1. /\ job[p][r].pc = "expire" /\ UNCHANGED <<docs, queue, emails>>
        /\ topic' = topic \/ topic' = Append(topic, event)
    BY <1>2 DEF PublishRetryExpired, RunAt, Publish
  <2>2. /\ event.about = Notification(p, r).message
        /\ event.status = None /\ event.type = "retry.expired"
    BY DEF buildExpiredMessage, buildEvent
  <2> HIDE DEF event
  <2> QED
    BY <2>1, <2>2 DEF RunEvent
<1>3. topic' = topic \/ PublishStatus(p, r) \/ PublishRetryExpired(p, r)
  BY DEF CronTick, RunStep, FetchPending, FinishRun, GetNotifyStatus,
         RecordStatus, CheckRetry, PublishRetry, platform
<1> QED
  BY <1>1, <1>2, <1>3

(* What a step announces, if anything, is in the log.                      *)
Announces ==
  \/ Announced' = Announced
  \/ \E v \in Verdicts : Announced' = Announced \cup {v}

LEMMA RunAnnounces ==
  ASSUME LogInv, VerdictInv, NEW p \in Processes, NEW r \in Runs,
         RunMoves(p, r)
  PROVE  Announces
<1>1. CASE topic' = topic
  BY <1>1 DEF Announces, Announced
<1>2. ASSUME NEW e, RunEvent(p, r, e)
      PROVE  Announces
  <2> DEFINE status == job[p][r].status
  <2>1. topic \in Seq(Event) /\ topic' = Append(topic, e)
    BY <1>2 DEF RunEvent, LogInv, JobInv, PlatformTypeOK
  <2>2. CASE ~v1(e.about) \/ e.status \notin finishedStatus
    BY <2>1, <2>2, SilentAnnounced DEF Publish, Announces
  <2>3. CASE v1(e.about) /\ e.status \in finishedStatus
    <3>1. None \notin finishedStatus
      BY TypesAssumption DEF TypesAssumption, notifyStatuses, finishedStatus
    <3>2. job[p][r].pc = "publish" /\ e.status = status
      BY <1>2, <2>3, <3>1 DEF RunEvent
    <3>3. HasVerdict(e.about, e.status)
      BY <1>2, <3>2 DEF VerdictInv, RunFresh, RunEvent, Notification
    <3>4. [message |-> e.about, status |-> e.status] \in Verdicts
      BY <2>3, <3>3 DEF HasVerdict, Verdicts
    <3> QED
      BY <1>2, <2>1, <2>3, <3>4, EventAnnounces DEF Announces, RunEvent
  <2> QED
    BY <2>2, <2>3
<1> QED
  BY <1>1, <1>2, RunPublishes DEF RunMoves, LogInv

LEMMA ConsumerAnnounces ==
  ASSUME LogInv, VerdictInv, NEW p \in Processes, ConsumerMoves(p)
  PROVE  \/ Announced' = Announced
         \/ /\ consumer[p].pc = "failure"
            /\ \E v \in Verdicts : Announced' = Announced \cup {v}
<1>1. CASE topic' = topic
  BY <1>1 DEF Announced
<1>2. ASSUME NEW e, ConsumerEvent(p, e)
      PROVE  \/ Announced' = Announced
             \/ /\ consumer[p].pc = "failure"
                /\ \E v \in Verdicts : Announced' = Announced \cup {v}
  <2>1. topic \in Seq(Event) /\ topic' = Append(topic, e)
    BY <1>2 DEF ConsumerEvent, LogInv, JobInv, PlatformTypeOK
  <2>2. CASE ~v1(e.about) \/ e.status \notin finishedStatus
    BY <2>1, <2>2, SilentAnnounced DEF Publish
  <2>3. CASE v1(e.about) /\ e.status \in finishedStatus
    <3>1. None \notin finishedStatus /\ "sending" \notin finishedStatus
      BY TypesAssumption DEF TypesAssumption, notifyStatuses, finishedStatus
    <3>2. e.about = Current(p) /\ consumer[p].pc # "invalid"
      BY <1>2, <2>3 DEF ConsumerEvent, LogInv, PipelineInv, Checked
    <3>3. consumer[p].pc = "failure" /\ e.status = consumer[p].failure
      BY <1>2, <2>3, <3>1, <3>2 DEF ConsumerEvent
    <3>4. HasVerdict(e.about, e.status)
      BY <3>2, <3>3 DEF VerdictInv, FailureRecorded, HasVerdict
    <3>5. [message |-> e.about, status |-> e.status] \in Verdicts
      BY <2>3, <3>4 DEF HasVerdict, Verdicts
    <3> QED
      BY <2>1, <2>3, <3>3, <3>5, EventAnnounces
  <2> QED
    BY <2>2, <2>3
<1> QED
  BY <1>1, <1>2, ConsumerSays DEF ConsumerMoves, LogInv

LifecycleStep == [Lifecycle!Next]_(Lifecycle!lifecycle)

LEMMA AnnounceIsStep ==
  ASSUME Announces, UNCHANGED <<docs, emails>>
  PROVE  LifecycleStep
<1>1. CASE Announced' = Announced
  BY <1>1, InvisibleStep DEF LifecycleStep
<1>2. ASSUME NEW v \in Verdicts, Announced' = Announced \cup {v}
      PROVE  Lifecycle!Announce(v)
  BY <1>2 DEF Lifecycle!Announce, Requested, Outbox, Verdicts
<1> QED
  BY <1>1, <1>2 DEF Announces, LifecycleStep, Lifecycle!Next

LEMMA InsertIsStep ==
  ASSUME LogInv, NEW p \in Processes, Inserts(p), Announced' = Announced
  PROVE  LifecycleStep
<1>1. /\ Current(p) \in Message /\ Current(p).type \in processorMap
      /\ v1(Current(p))
  BY DEF Inserts, LogInv, PipelineInv, Checked, RequestTypeOK, Current, Entry
<1>2. PICK doc : Inserted(doc, Current(p))
  BY DEF Inserts
<1>3. \A d \in docs : ~SameKey(d.message, Current(p))
  BY DEF Inserts
<1>4. Requested' = Requested \cup {Current(p)}
  BY <1>2 DEF Requested, Inserted
<1>5. Verdicts' = Verdicts
  BY <1>2 DEF Verdicts, finishedStatus, Inserted
<1>6. UNCHANGED Outbox
  BY DEF Inserts, Outbox
<1>7. Lifecycle!Accept(Current(p))
  BY <1>1, <1>3, <1>4, <1>5, <1>6
  DEF Lifecycle!Accept, Requested, Outbox, Lifecycle!v1, v1, SameKey,
      Lifecycle!processorMap, processorMap, Lifecycle!SameKey
<1>8. Current(p) \in Lifecycle!Message
  <2>1. Lifecycle!Message = Message
    BY DEF Message, Lifecycle!Message
  <2> QED
    BY <1>1, <2>1
<1> QED
  BY <1>7, <1>8 DEF LifecycleStep, Lifecycle!Next, Lifecycle!Accept

LEMMA AcceptIsStep ==
  ASSUME LogInv, NEW p \in Processes, Accepts(p), Announced' = Announced
  PROVE  LifecycleStep
<1>1. NotEmailed(Current(p)) /\ Current(p) \in Requested
  BY DEF Accepts, LogInv, PipelineInv, Holds, PendingPlaces, Unsent, Requested
<1>2. Current(p) \in Message
  BY DEF Accepts, LogInv, RequestTypeOK, Current, Entry
<1>3. Outbox' = Append(Outbox, Current(p))
  <2> DEFINE email == [message |-> Current(p),
                       reference |-> CorrelationOf(Current(p)),
                       status |-> "created"]
  <2>1. emails' = Append(emails, email) /\ email.message = Current(p)
    BY DEF Accepts, AcceptEmail
  <2> HIDE DEF email
  <2>2. emails \in Seq(Email)
    BY DEF LogInv, RequestTypeOK, PlatformTypeOK
  <2>3. Outbox = [n \in 1..Len(emails) |-> emails[n].message]
    BY <2>2 DEF Outbox
  <2>4. Outbox' = [n \in 1..(Len(emails) + 1) |->
                     IF n \in 1..Len(emails) THEN emails[n].message
                                             ELSE Current(p)]
    BY <2>1, <2>2 DEF Outbox
  <2> QED
    BY <2>2, <2>3, <2>4
<1>4. UNCHANGED <<Requested, Verdicts>>
  BY DEF Accepts, Requested, Verdicts
<1>5. \A i \in DOMAIN Outbox : ~SameKey(Outbox[i], Current(p))
  BY <1>1 DEF NotEmailed, Outbox
<1>6. Lifecycle!Send(Current(p))
  BY <1>1, <1>3, <1>4, <1>5
  DEF Lifecycle!Send, Lifecycle!Emailed, Requested, Outbox,
      Lifecycle!SameKey, SameKey
<1>7. Current(p) \in Lifecycle!Message
  <2>1. Lifecycle!Message = Message
    BY DEF Message, Lifecycle!Message
  <2> QED
    BY <1>2, <2>1
<1> QED
  BY <1>6, <1>7 DEF LifecycleStep, Lifecycle!Next, Lifecycle!Send

(* A document that was open gets another status.                           *)
LEMMA UpdateIsStep ==
  ASSUME LogInv, NEW d, NEW new, Replaces(d, new),
         d.status \notin finishedStatus,
         new.status \in {"delivered", "permanent-failure",
                         "temporary-failure"} =>
           \E i \in DOMAIN emails : SameKey(emails[i].message, d.message),
         new.status = "internal-failure" => NotEmailed(d.message),
         emails' = emails, Announced' = Announced
  PROVE  LifecycleStep
<1>1. /\ d \in docs /\ new \in Doc /\ new.message = d.message
      /\ docs' = (docs \ {d}) \cup {new}
  BY DEF Replaces, SameNotification
<1>2. Requested' = Requested /\ Outbox' = Outbox
  BY <1>1 DEF Requested, Outbox
<1>3. CASE new.status \notin finishedStatus
  <2>1. Verdicts' = Verdicts
    BY <1>1, <1>3 DEF Verdicts
  <2> QED
    BY <1>2, <2>1, LifecycleSteps DEF LifecycleStep
<1>4. CASE new.status \in finishedStatus
  <2>1. Verdicts' = Verdicts
                      \cup {[message |-> d.message, status |-> new.status]}
    BY <1>1, <1>4 DEF Verdicts
  <2>2. d.message \in Requested
    BY <1>1 DEF Requested
  <2>3. \A v \in Verdicts : v.message # d.message
    BY <1>1 DEF Verdicts, LogInv, PipelineInv, OneDocument, SameKey
  <2>4. Lifecycle!Settle(d.message, new.status)
    BY <1>2, <2>1, <2>2, <2>3
    DEF Lifecycle!Settle, Lifecycle!Emailed, NotEmailed, Requested, Outbox,
        Lifecycle!SameKey, SameKey
  <2> QED
    BY <1>4, <2>2, <2>4
    DEF LifecycleStep, Lifecycle!Next, Requested, finishedStatus,
        Lifecycle!finishedStatus
<1> QED
  BY <1>3, <1>4

LEMMA SettleIsStep ==
  ASSUME LogInv, NEW p \in Processes, Settles(p), Announced' = Announced
  PROVE  LifecycleStep
<1>1. PICK d \in docs, new \in Doc :
        d.message = Current(p) /\ Settled(p, d, new)
  BY DEF Settles
<1>2. /\ Replaces(d, new) /\ d.status = "pending-publish"
      /\ \/ consumer[p].pc = "sent" /\ new.status = "sending"
         \/ consumer[p].pc = "failed" /\ new.status = consumer[p].failure
  BY <1>1, SettlesUnsent DEF LogInv, PipelineInv, JobInv
<1>3. consumer[p].failure \in {"internal-failure", "technical-failure", None}
  BY DEF LogInv, RequestTypeOK, ConsumerState
<1>4. new.status \in {"sending", "internal-failure", "technical-failure"}
  BY <1>2, <1>3 DEF LogInv, RequestTypeOK
<1>5. new.status = "internal-failure" => NotEmailed(d.message)
  BY <1>1, <1>2 DEF LogInv, PipelineInv, Holds, PendingPlaces, Unsent
<1>6. d.status \notin finishedStatus /\ emails' = emails
  BY <1>2 DEF finishedStatus, Settles
<1> QED
  BY <1>2, <1>4, <1>5, <1>6, UpdateIsStep

LEMMA ConsumerIsStep ==
  ASSUME KeysGuarded, LogInv, VerdictInv, NEW p \in Processes,
         ConsumerMoves(p)
  PROVE  LifecycleStep
<1>1. Rests(p) \/ Inserts(p) \/ Accepts(p) \/ Settles(p)
  BY ConsumerEffect DEF LogInv, PipelineInv, ConsumerMoves
<1>2. \/ Announced' = Announced
      \/ /\ consumer[p].pc = "failure"
         /\ \E v \in Verdicts : Announced' = Announced \cup {v}
  BY ConsumerAnnounces
<1>3. CASE Rests(p)
  BY <1>2, <1>3, AnnounceIsStep DEF Rests, Announces
<1>4. CASE Inserts(p)
  BY <1>2, <1>4, InsertIsStep DEF Inserts
<1>5. CASE Accepts(p)
  BY <1>2, <1>5, AcceptIsStep DEF Accepts
<1>6. CASE Settles(p)
  <2>1. consumer[p].pc # "failure"
    BY <1>6 DEF Settles, Settled
  <2> QED
    BY <1>2, <1>6, <2>1, SettleIsStep
<1> QED
  BY <1>1, <1>3, <1>4, <1>5, <1>6

LEMMA RunIsStep ==
  ASSUME LogInv, VerdictInv, NEW p \in Processes, NEW r \in Runs,
         RunMoves(p, r)
  PROVE  LifecycleStep
<1>1. RunWrites(p, r) /\ emails' = emails
  BY RunAround DEF LogInv, RunMoves
<1>2. CASE docs' = docs
  BY <1>1, <1>2, RunAnnounces, AnnounceIsStep
<1>3. CASE docs' # docs
  <2>1. PICK d \in docs, new \in Doc :
          /\ Replaces(d, new)
          /\ SameNotification(Notification(p, r), d)
          /\ d.notificationId # 0
          /\ new.notificationId = d.notificationId
          /\ d.notificationId \in DOMAIN emails
          /\ job[p][r].pc = "record"
          /\ new.status = job[p][r].status
          /\ new.status \in NotifyStatus
          /\ new.status \in notifyFinal =>
               emails[d.notificationId].status = new.status
    BY <1>1, <1>3, RunUpdatesTied DEF LogInv, PipelineInv
  <2>2. Announced' = Announced
    <3>1. topic' = topic \/ \E e : RunEvent(p, r, e)
      BY RunPublishes DEF RunMoves, LogInv
    <3>2. topic' = topic
      BY <2>1, <3>1 DEF RunEvent
    <3> QED
      BY <3>2 DEF Announced
  <2>3. CASE d.status \notin finishedStatus
    <3>1. emails[d.notificationId].message = d.message
      BY <2>1 DEF LogInv, NotesOK, NoteOK
    <3>2. new.status # "internal-failure"
      BY <2>1 DEF NotifyStatus, publishedStatus, notifyFinal
    <3> QED
      BY <1>1, <2>1, <2>2, <2>3, <3>1, <3>2, UpdateIsStep DEF SameKey
  <2>4. CASE d.status \in finishedStatus
    <3>1. /\ d.status \in notifyFinal
          /\ emails[d.notificationId].status = d.status
      BY <2>1, <2>4, StatusSets DEF LogInv, NotesOK, NoteOK
    <3>2. new.status \in notifyFinal
      BY <2>1, <2>4 DEF VerdictInv, RunFresh, StillOpen, Notification
    <3>3. new.status = d.status /\ new.message = d.message
      BY <2>1, <3>1, <3>2 DEF Replaces, SameNotification
    <3>4. Requested' = Requested /\ Outbox' = Outbox /\ Verdicts' = Verdicts
      BY <1>1, <2>1, <3>3 DEF Replaces, Requested, Outbox, Verdicts
    <3> QED
      BY <2>2, <3>4, LifecycleSteps DEF LifecycleStep
  <2> QED
    BY <2>3, <2>4
<1> QED
  BY <1>2, <1>3

LEMMA ServiceIsStep ==
  ASSUME KeysGuarded, LogInv, VerdictInv, ServiceStep
  PROVE  LifecycleStep
<1>1. CASE Environment \/ QueueShrinksOnly \/ \E p \in Processes : Ends(p)
  <2>1. UNCHANGED <<docs, topic>>
    BY <1>1 DEF Ends, Environment, Submit, Deliver, CatchUp, Replicate, Tick,
                QueueShrinksOnly
  <2>2. /\ DOMAIN emails' = DOMAIN emails
        /\ \A i \in DOMAIN emails : emails'[i].message = emails[i].message
    <3>1. ASSUME NEW n \in DOMAIN emails, Deliver(n)
          PROVE  DOMAIN emails' = DOMAIN emails
      BY <3>1 DEF Deliver
    <3>2. UNCHANGED emails \/ \E n \in DOMAIN emails : Deliver(n)
      BY <1>1 DEF Ends, Environment, Submit, CatchUp, Tick, QueueShrinksOnly
    <3> QED
      BY <3>1, <3>2, LogInvStep DEF EmailsKept
  <2>3. Outbox' = Outbox /\ Requested' = Requested
    BY <2>1, <2>2, SameOutbox DEF Requested
  <2>4. Verdicts' = Verdicts /\ Announced' = Announced
    BY <2>1 DEF Verdicts, Announced
  <2> QED
    BY <2>3, <2>4, LifecycleSteps DEF LifecycleStep
<1> QED
  BY <1>1, ConsumerIsStep, RunIsStep DEF ServiceStep

(* One instance of the whole service, with its consumer, its job, their    *)
(* retries and every fault, keeps what NotificationLifecycle promises:     *)
(* each step accepts, sends, settles or announces one request as promised, *)
(* or changes nothing a publisher or subscriber could tell.                *)
THEOREM ServiceImplementsLifecycle ==
  KeysGuarded /\ OneInstance => (ServiceSpec => RefinesLifecycle)
<1> SUFFICES ASSUME KeysGuarded, OneInstance
             PROVE  ServiceSpec => RefinesLifecycle
  OBVIOUS
<1>1. ServiceInit => Lifecycle!Init
  BY DEF ServiceInit, PlatformInit, Lifecycle!Init, Verdicts, Announced
<1>2. LogInv /\ VerdictInv /\ [ServiceNext]_serviceVars =>
        [Lifecycle!Next]_(Lifecycle!lifecycle)
  BY ServiceIsStep, ServiceStepOfNext DEF LifecycleStep
<1> QED
  BY <1>1, <1>2, VerdictInvariant, PTL
  DEF ServiceSpec, RefinesLifecycle, Lifecycle!Spec

-----------------------------------------------------------------------------
(* One outcome of a message, for any number of instances and however stale *)
(* what they read is: what a run tells is what Notify said for good of the *)
(* email the log ties to the message, and what a consumer tells is in a    *)
(* document that no run ever looks at.                                     *)

Outcome(m, status) ==
  \E d \in docs :
    /\ d.message = m
    /\ d.notificationId = 0 => d.status = status
    /\ d.notificationId # 0 =>
         status \in notifyFinal /\ emails[d.notificationId].status = status

Tells(e) ==
  v1(e.about) /\ e.status \in finishedStatus => Outcome(e.about, e.status)

OutcomeInv ==
  /\ \A p \in Processes : FailureRecorded(p)
  /\ \A i \in DOMAIN topic : Tells(topic[i])

LEMMA TellsKept ==
  ASSUME LogInv, UnsentStays, LogKept, EmailsKept, NEW e, Tells(e)
  PROVE  Tells(e)'
<1> SUFFICES ASSUME v1(e.about), e.status \in finishedStatus
             PROVE  Outcome(e.about, e.status)'
  BY DEF Tells, v1
<1>1. PICK d \in docs :
        /\ d.message = e.about
        /\ d.notificationId = 0 => d.status = e.status
        /\ d.notificationId # 0 =>
             /\ e.status \in notifyFinal
             /\ emails[d.notificationId].status = e.status
  BY DEF Tells, Outcome
<1>2. CASE d.notificationId = 0
  <2>1. d \in docs'
    BY <1>1, <1>2 DEF UnsentStays, finishedStatus
  <2> QED
    BY <1>1, <1>2, <2>1 DEF Outcome
<1>3. CASE d.notificationId # 0
  <2>1. d.notificationId \in DOMAIN emails
    BY <1>3 DEF LogInv, NotesOK, NoteOK
  <2>2. PICK f \in docs' : /\ SameNotification(d, f)
                           /\ f.notificationId = d.notificationId
    BY <2>1 DEF LogKept
  <2>3. emails'[d.notificationId].status = e.status
    BY <1>1, <1>3, <2>1 DEF EmailsKept
  <2> QED
    BY <1>1, <1>3, <2>2, <2>3 DEF Outcome, SameNotification
<1> QED
  BY <1>2, <1>3

LEMMA RunTells ==
  ASSUME LogInv, NEW p \in Processes, NEW r \in Runs, NEW e, RunEvent(p, r, e)
  PROVE  Tells(e)
<1> SUFFICES ASSUME e.status \in finishedStatus
             PROVE  Outcome(e.about, e.status)
  BY DEF Tells
<1>1. None \notin finishedStatus
  BY TypesAssumption DEF TypesAssumption, notifyStatuses, finishedStatus
<1>2. /\ job[p][r].pc = "publish" /\ e.status = job[p][r].status
      /\ e.about = Notification(p, r).message
  BY <1>1 DEF RunEvent
<1>3. RunOK(job[p][r])
  BY DEF LogInv, JobInv
<1>4. PICK d \in docs : /\ SameNotification(Notification(p, r), d)
                        /\ d.notificationId = Notification(p, r).notificationId
  BY <1>2, <1>3 DEF RunOK, Tied, Notification
<1>5. /\ d.notificationId # 0
      /\ e.status \in notifyFinal
      /\ emails[d.notificationId].status = e.status
  BY <1>2, <1>3, <1>4, NoZero DEF RunOK, Tied, Notification, LogInv, JobInv
<1> QED
  BY <1>2, <1>4, <1>5 DEF Outcome, SameNotification

LEMMA ConsumerTells ==
  ASSUME LogInv, NEW p \in Processes, FailureRecorded(p),
         NEW e, ConsumerEvent(p, e)
  PROVE  Tells(e)
<1> SUFFICES ASSUME v1(e.about), e.status \in finishedStatus
             PROVE  Outcome(e.about, e.status)
  BY DEF Tells
<1>1. None \notin finishedStatus /\ "sending" \notin finishedStatus
  BY TypesAssumption DEF TypesAssumption, notifyStatuses, finishedStatus
<1>2. e.about = Current(p) /\ consumer[p].pc # "invalid"
  BY DEF ConsumerEvent, LogInv, PipelineInv, Checked
<1>3. consumer[p].pc = "failure" /\ e.status = consumer[p].failure
  BY <1>1, <1>2 DEF ConsumerEvent
<1>4. \E d \in docs : /\ d.message = e.about /\ d.status = e.status
                      /\ d.notificationId = 0
  BY <1>2, <1>3 DEF FailureRecorded
<1> QED
  BY <1>4 DEF Outcome

LEMMA OutcomeStep ==
  ASSUME KeysGuarded, LogInv, OutcomeInv, ServiceStep
  PROVE  OutcomeInv'
<1>1. /\ UnsentStays /\ LogKept /\ EmailsKept
      /\ topic \in Seq(Event)
  BY UnsentStep, LogInvStep DEF LogInv, JobInv, PlatformTypeOK
<1>2. \A q \in Processes : FailureRecorded(q)'
  BY FailureStep DEF OutcomeInv
<1>3. UNCHANGED topic \/ \E e : Tells(e) /\ topic' = Append(topic, e)
  <2>1. ASSUME NEW p \in Processes, NEW r \in Runs, RunMoves(p, r)
        PROVE  UNCHANGED topic \/ \E e : Tells(e) /\ topic' = Append(topic, e)
    <3>1. topic' = topic \/ \E e : RunEvent(p, r, e)
      BY <2>1, RunPublishes DEF RunMoves, LogInv
    <3> QED
      BY <3>1, RunTells DEF RunEvent
  <2>2. ASSUME NEW p \in Processes, ConsumerMoves(p)
        PROVE  UNCHANGED topic \/ \E e : Tells(e) /\ topic' = Append(topic, e)
    <3>1. topic' = topic \/ \E e : ConsumerEvent(p, e)
      BY <2>2, ConsumerSays DEF ConsumerMoves, LogInv
    <3> QED
      BY <3>1, ConsumerTells DEF ConsumerEvent, OutcomeInv
  <2> QED
    BY <2>1, <2>2
    DEF ServiceStep, Ends, Environment, Submit, Deliver, CatchUp, Replicate,
        Tick, QueueShrinksOnly
<1>4. ASSUME NEW i \in DOMAIN topic'
      PROVE  Tells(topic[i])'
  <2>1. PICK e : e = topic'[i]
    OBVIOUS
  <2>2. Tells(e)
    <3>1. CASE UNCHANGED topic
      BY <2>1, <3>1 DEF OutcomeInv
    <3>2. ASSUME NEW f, Tells(f), topic' = Append(topic, f)
          PROVE  Tells(e)
      <4>1. (i \in DOMAIN topic /\ e = topic[i]) \/ e = f
        BY <1>1, <2>1, <3>2
      <4> QED
        BY <3>2, <4>1 DEF OutcomeInv
    <3> QED
      BY <1>3, <3>1, <3>2
  <2>3. Tells(e)'
    BY <1>1, <2>2, TellsKept
  <2> QED
    BY <2>1, <2>3
<1> QED
  BY <1>2, <1>4 DEF OutcomeInv

LEMMA OutcomeInit == ServiceInit => OutcomeInv
BY DEF ServiceInit, PlatformInit, ConsumerInit, OutcomeInv, FailureRecorded,
       Idle

LEMMA OneOutcome ==
  ASSUME LogInv, OutcomeInv
  PROVE  OneOutcomeTold
<1> SUFFICES ASSUME NEW i \in DOMAIN topic, NEW j \in DOMAIN topic,
                    topic[i].about = topic[j].about, v1(topic[i].about),
                    topic[i].status \in finishedStatus,
                    topic[j].status \in finishedStatus
             PROVE  topic[i].status = topic[j].status
  BY DEF OneOutcomeTold
<1>1. /\ Outcome(topic[i].about, topic[i].status)
      /\ Outcome(topic[i].about, topic[j].status)
  BY DEF OutcomeInv, Tells
<1>2. \A d, e \in docs :
        d.message = topic[i].about /\ e.message = topic[i].about => d = e
  BY DEF LogInv, PipelineInv, OneDocument, SameKey
<1> QED
  BY <1>1, <1>2 DEF Outcome

(* Subscribers never hear two outcomes of one valid message: not from a    *)
(* consumer and a job, not from the jobs of two instances, and not when a  *)
(* job works off stale reads again what was finished long ago.             *)
THEOREM OneOutcomeEach == KeysGuarded => (ServiceSpec => []OneOutcomeTold)
<1> SUFFICES ASSUME KeysGuarded
             PROVE  ServiceSpec => []OneOutcomeTold
  OBVIOUS
<1>1. LogInv /\ OutcomeInv /\ [ServiceNext]_serviceVars => OutcomeInv'
  BY OutcomeStep, ServiceStepOfNext
<1> QED
  BY <1>1, OutcomeInit, OneOutcome, LogInvariant, PTL DEF ServiceSpec

-----------------------------------------------------------------------------
(* The report that retries have ended is final, however late or often the  *)
(* job of one instance sees a failure again: the window is over for good.  *)

(* When the window of notification d starts, as far as the log says.       *)
Starts(d) ==
  IF d.message.correlationId = None THEN {d.createdAt}
  ELSE {o.createdAt : o \in Matching(docs, d.message.source,
                                     d.message.correlationId)}

Over(d) ==
  /\ d.notificationId \in DOMAIN emails
  /\ emails[d.notificationId].status = "temporary-failure"
  /\ \E since \in Starts(d) :
       now + RetryDelay >= since + TemporaryFailureTimeout

GivenUpOn(m) == \E d \in docs : d.message = m /\ Over(d)

ExpiryInv ==
  /\ \A i \in DOMAIN topic :
       topic[i].type = "retry.expired" => GivenUpOn(topic[i].about)
  /\ \A p \in Processes, r \in Runs :
       LET m == Notification(p, r).message
       IN /\ RunAt(p, r, "expire") => GivenUpOn(m)
          /\ RunAt(p, r, "resend") => ~Expired(m)

LEMMA GaveUpKept ==
  ASSUME KeysGuarded, LogInv, ServiceStep, NEW m, GivenUpOn(m)
  PROVE  GivenUpOn(m)'
<1>1. /\ LogKept /\ EmailsKept
      /\ now \in Nat /\ now' \in Nat /\ now <= now'
      /\ RetryDelay \in Nat /\ TemporaryFailureTimeout \in Nat
      /\ \A o \in docs : o.createdAt \in Nat
  BY LogInvStep, ClockStep, TypesAssumption
  DEF LogInv, JobInv, PlatformTypeOK, Doc, TypesAssumption
<1>2. PICK d \in docs : d.message = m /\ Over(d)
  BY DEF GivenUpOn
<1>3. PICK e \in docs' : /\ SameNotification(d, e)
                         /\ e.notificationId = d.notificationId
  BY <1>1, <1>2 DEF LogKept, Over
<1>4. /\ e.notificationId \in DOMAIN emails'
      /\ emails'[e.notificationId].status = "temporary-failure"
  BY <1>1, <1>2, <1>3 DEF EmailsKept, Over, notifyFinal
<1>5. PICK since \in Starts(d) :
        now + RetryDelay >= since + TemporaryFailureTimeout
  BY <1>2 DEF Over
<1>6. since \in Nat /\ since \in Starts(e)'
  <2>1. CASE d.message.correlationId = None
    BY <1>1, <1>3, <1>5, <2>1 DEF Starts, SameNotification
  <2>2. CASE d.message.correlationId # None
    <3>1. PICK o \in docs : /\ o.message.source = d.message.source
                            /\ o.message.id = d.message.correlationId
                            /\ since = o.createdAt
      BY <1>5, <2>2 DEF Starts, Matching
    <3>2. PICK f \in docs' : SameNotification(o, f)
      BY <1>1 DEF LogKept
    <3> QED
      BY <1>1, <1>3, <2>2, <3>1, <3>2 DEF Starts, Matching, SameNotification
  <2> QED
    BY <2>1, <2>2
<1>7. now' + RetryDelay >= since + TemporaryFailureTimeout
  <2>1. \A a, b, c, s, t \in Nat : a + b >= s + t /\ a <= c => c + b >= s + t
    OBVIOUS
  <2>2. /\ now + RetryDelay >= since + TemporaryFailureTimeout
        /\ now \in Nat /\ now' \in Nat /\ now <= now' /\ since \in Nat
        /\ RetryDelay \in Nat /\ TemporaryFailureTimeout \in Nat
    BY <1>1, <1>5, <1>6
  <2> QED
    BY <2>1, <2>2
<1>8. Over(e)'
  <2>1. \E t \in Starts(e)' : now' + RetryDelay >= t + TemporaryFailureTimeout
    BY <1>6, <1>7
  <2> QED
    BY <1>4, <2>1 DEF Over
<1>9. e \in docs' /\ e.message = m
  BY <1>2, <1>3 DEF SameNotification
<1> QED
  BY <1>8, <1>9 DEF GivenUpOn

(* checkRetry, on a stale read or not, counts from what the log says.      *)
LEMMA CheckCounts ==
  ASSUME LogInv, RootInv, NEW p \in Processes, NEW r \in Runs,
         CheckRetry(p, r), job'[p][r].pc \in {"resend", "expire"},
         NEW d \in docs, SameNotification(Notification(p, r), d)
  PROVE  \E since :
           /\ Starts(d) = {since}
           /\ job'[p][r].pc = "resend" <=>
                checkRetryable(job[p][r].status, since, now)
<1> DEFINE n == Notification(p, r)
           corr == n.message.correlationId
           Decides(since) ==
             RunGoto(p, r, IF checkRetryable(job[p][r].status, since, now)
                           THEN "resend" ELSE "expire")
<1>1. ASSUME NEW since, Decides(since)
      PROVE  job'[p][r].pc = "resend" <=>
               checkRetryable(job[p][r].status, since, now)
  BY <1>1 DEF RunGoto, LogInv, JobInv
<1>2. d.message = n.message /\ d.createdAt = n.createdAt
  BY DEF SameNotification
<1>3. CASE corr = None /\ Decides(n.createdAt)
  <2>1. Starts(d) = {n.createdAt}
    BY <1>2, <1>3 DEF Starts
  <2> QED
    BY <1>1, <1>3, <2>1
<1>4. ASSUME corr # None,
             NEW o \in getOriginalNotificationRequest(n.message.source, corr),
             Decides(o.createdAt)
      PROVE  \E since :
               /\ Starts(d) = {since}
               /\ job'[p][r].pc = "resend" <=>
                    checkRetryable(job[p][r].status, since, now)
  <2>1. PICK e \in docs : SameNotification(o, e)
    <3>1. o \in docs \cup replica
      BY DEF getOriginalNotificationRequest, Matching, Secondary
    <3> QED
      BY <3>1 DEF RootInv, SameNotification
  <2>2. /\ e.message.id = corr /\ e.message.source = n.message.source
        /\ e.createdAt = o.createdAt
    BY <2>1 DEF SameNotification, getOriginalNotificationRequest, Matching
  <2>3. Matching(docs, n.message.source, corr) = {e}
    BY <2>2 DEF Matching, LogInv, PipelineInv, OneDocument, SameKey
  <2>4. Starts(d) = {o.createdAt}
    BY <1>2, <1>4, <2>2, <2>3 DEF Starts
  <2> QED
    BY <1>1, <1>4, <2>4
<1>5. ~Continue(p, r)
  BY DEF Continue, LogInv, JobInv, NoRun
<1> QED
  BY <1>3, <1>4, <1>5 DEF CheckRetry
(* The ids of the log are none a publisher chose.                          *)
LEMMA LoggedIds ==
  ASSUME LogInv, OriginInv, NEW d \in docs
  PROVE  d.id # None /\ \A m \in Requests : d.id # m.id
BY TypesAssumption
DEF OriginInv, LoggedOK, LogInv, JobInv, PlatformTypeOK, Doc, TypesAssumption

(* The step that gives up on a message.                                   *)
GivesUp(m) ==
  \E p \in Processes, r \in Runs :
    /\ RunMoves(p, r) /\ job[p][r].pc = "expire"
    /\ job[p][r].current.message = m

(* The events that end retries a step publishes.                           *)
LEMMA ExpiryStep ==
  ASSUME LogInv, ServiceStep
  PROVE  \/ UNCHANGED topic
         \/ \E e : topic' = Append(topic, e) /\ e.type # "retry.expired"
         \/ \E e : topic' = Append(topic, e) /\ GivesUp(e.about)
<1>1. ASSUME NEW p \in Processes, NEW r \in Runs, RunMoves(p, r)
      PROVE  \/ UNCHANGED topic
             \/ \E e : topic' = Append(topic, e) /\ e.type # "retry.expired"
             \/ \E e : topic' = Append(topic, e) /\ GivesUp(e.about)
  <2>1. topic' = topic \/ \E e : RunEvent(p, r, e)
    BY <1>1, RunPublishes DEF RunMoves, LogInv
  <2>2. ASSUME NEW e, RunEvent(p, r, e), e.type = "retry.expired"
        PROVE  GivesUp(e.about)
    BY <1>1, <2>2 DEF RunEvent, GivesUp, Notification
  <2> QED
    BY <2>1, <2>2 DEF RunEvent
<1>2. ASSUME NEW p \in Processes, ConsumerMoves(p)
      PROVE  \/ UNCHANGED topic
             \/ \E e : topic' = Append(topic, e) /\ e.type # "retry.expired"
  BY <1>2, ConsumerSays DEF ConsumerMoves, LogInv, ConsumerEvent
<1> QED
  BY <1>1, <1>2
  DEF ServiceStep, Ends, Environment, Submit, Deliver, CatchUp, Replicate,
      Tick, QueueShrinksOnly

LEMMA ExpiredStep ==
  ASSUME LogInv, ServiceStep, NEW m, Expired(m)'
  PROVE  Expired(m) \/ GivesUp(m)
<1>0. topic \in Seq(Event)
  BY DEF LogInv, JobInv, PlatformTypeOK
<1>1. PICK i \in DOMAIN topic' :
        topic'[i].type = "retry.expired" /\ topic'[i].about = m
  BY DEF Expired
<1>2. CASE i \in DOMAIN topic /\ topic'[i] = topic[i]
  BY <1>1, <1>2 DEF Expired
<1>3. ASSUME NEW e, topic' = Append(topic, e)
      PROVE  (i \in DOMAIN topic /\ topic'[i] = topic[i]) \/ topic'[i] = e
  BY <1>0, <1>3
<1> QED
  BY <1>1, <1>2, <1>3, ExpiryStep

(* How a run comes to answer for a failure, and how it goes on.            *)
LEMMA RunDecides ==
  ASSUME JobInv, NEW p \in Processes, NEW r \in Runs,
         CronTick(p, r) \/ RunStep(p, r),
         job'[p][r].pc \in {"retry", "resend", "expire"}
  PROVE  /\ job[p][r].pc \in {"publish", "retry"}
         /\ job'[p][r].current = job[p][r].current
         /\ job'[p][r].status = job[p][r].status
         /\ UNCHANGED docs
<1>0. job[p][r] \in RunState
  BY DEF JobInv
<1>1. ASSUME NEW label, RunGoto(p, r, label)
      PROVE  /\ job'[p][r].pc = label
             /\ job'[p][r].current = job[p][r].current
             /\ job'[p][r].status = job[p][r].status
  BY <1>0, <1>1 DEF RunGoto, JobInv, RunState
<1>2. ASSUME Continue(p, r)
      PROVE  FALSE
  BY <1>2 DEF Continue, NoRun, JobInv
<1>3. CASE PublishStatus(p, r)
  BY <1>1, <1>2, <1>3 DEF PublishStatus, PublishAndRetryIf, RunAt
<1>4. CASE CheckRetry(p, r)
  <2>1. job[p][r].pc = "retry" /\ UNCHANGED docs
    BY <1>4 DEF CheckRetry, RunAt
  <2>2. Continue(p, r) \/ \E label : RunGoto(p, r, label)
    BY <1>4 DEF CheckRetry
  <2> QED
    BY <1>1, <1>2, <2>1, <2>2
<1>5. CASE FetchPending(p, r)
  <2>1. job'[p][r].pc = "next"
    BY <1>0, <1>5 DEF FetchPending, RunGoto, JobInv, RunState
  <2> QED
    BY <2>1
<1>6. CASE GetNotifyStatus(p, r)
  <2>1. PICK d \in job[p][r].pending :
          \/ job' = [job EXCEPT ![p][r].pending = job[p][r].pending \ {d}]
          \/ job' = [job EXCEPT ![p][r] =
               [pc |-> "record", pending |-> job[p][r].pending \ {d},
                current |-> d, status |-> emails[d.notificationId].status]]
    BY <1>6 DEF GetNotifyStatus
  <2>2. job[p][r].pc = "next"
    BY <1>6 DEF GetNotifyStatus, RunAt
  <2>3. job'[p][r].pc \in {"next", "record"}
    BY <1>0, <2>1, <2>2 DEF JobInv, RunState
  <2> QED
    BY <2>3
<1>7. CASE FinishRun(p, r)
  BY <1>7 DEF FinishRun, NoRun, JobInv
<1>8. CASE CronTick(p, r) \/ RecordStatus(p, r)
  BY <1>1, <1>2, <1>8 DEF CronTick, RecordStatus
<1>9. CASE PublishRetry(p, r) \/ PublishRetryExpired(p, r)
  BY <1>2, <1>9 DEF PublishRetry, PublishRetryExpired
<1> QED
  BY <1>3, <1>4, <1>5, <1>6, <1>7, <1>8, <1>9 DEF RunStep

(* What is in hand of a run that answers is the notification of that id.   *)
LEMMA AnswersLogged ==
  ASSUME LogInv, NEW d \in docs, NEW p \in Processes, NEW r \in Runs,
         job[p][r].pc \in {"publish", "retry", "resend", "expire"},
         \/ job[p][r].current.id = d.id
         \/ job[p][r].current.message = d.message
  PROVE  /\ job[p][r].current.id = d.id
         /\ job[p][r].current.message = d.message
         /\ job[p][r].status \in finishedStatus
<1>1. RunOK(job[p][r])
  BY DEF LogInv, JobInv
<1>2. PICK e \in docs : SameNotification(job[p][r].current, e)
  BY <1>1 DEF RunOK, Tied
<1>3. e = d
  BY <1>2 DEF SameNotification, LogInv, PipelineInv, OneId, OneDocument, SameKey
<1> QED
  BY <1>1, <1>2, <1>3, StatusSets DEF RunOK, SameNotification

LEMMA JobStays ==
  ASSUME LogInv, ServiceStep, NEW q \in Processes, NEW s \in Runs
  PROVE  \/ job'[q][s] = job[q][s]
         \/ job'[q][s] = NoRun
         \/ RunMoves(q, s)
<1>1. ASSUME NEW p \in Processes, NEW r \in Runs, RunMoves(p, r)
      PROVE  job'[q][s] = job[q][s] \/ RunMoves(q, s)
  BY <1>1, RunKinds DEF RunMoves, LogInv
<1>2. ASSUME NEW p \in Processes, Ends(p)
      PROVE  job'[q][s] = job[q][s] \/ job'[q][s] = NoRun
  BY <1>2 DEF Ends, CrashJob, LogInv, JobInv
<1> QED
  BY <1>1, <1>2
  DEF ServiceStep, ConsumerMoves, Environment, QueueShrinksOnly
(* Where a run comes from that is to resend or to give up.                 *)
LEMMA DecidesAtCheck ==
  ASSUME LogInv, ServiceStep, NEW p \in Processes, NEW r \in Runs,
         job'[p][r].pc \in {"resend", "expire"}
  PROVE  job'[p][r] = job[p][r] \/ CheckRetry(p, r)
<1>1. CASE job'[p][r] = NoRun
  BY <1>1 DEF NoRun
<1>2. CASE RunMoves(p, r)
  <2>1. job[p][r].pc \in {"publish", "retry"}
    BY <1>2, RunDecides DEF RunMoves, LogInv
  <2>2. job[p][r].pc # "publish"
    <3> SUFFICES ASSUME job[p][r].pc = "publish"
                 PROVE  FALSE
      OBVIOUS
    <3>1. PublishStatus(p, r)
      BY <1>2 DEF RunMoves, CronTick, RunStep, RunAt, FetchPending,
         FinishRun, GetNotifyStatus, RecordStatus, CheckRetry, PublishRetry,
         PublishRetryExpired
    <3>2. job \in [Processes -> [Runs -> RunState]]
      BY DEF LogInv, JobInv
    <3>3. RunGoto(p, r, "retry") \/ Continue(p, r)
      BY <3>1, Zenon DEF PublishStatus, PublishAndRetryIf
    <3>4. CASE RunGoto(p, r, "retry")
      BY <3>2, <3>4 DEF RunGoto, RunState
    <3>5. CASE Continue(p, r)
      BY <3>2, <3>5 DEF Continue, NoRun
    <3> QED
      BY <3>3, <3>4, <3>5
  <2> QED
    BY <2>1, <2>2, OnlyCheckDecides DEF RunAt
<1> QED
  BY <1>1, <1>2, JobStays

(* A run decides to give up when the window is over, and otherwise to      *)
(* resend, so that nobody gave up on the message before.                   *)
LEMMA DecidesRightly ==
  ASSUME LogInv, RootInv, ExpiryInv, NEW p \in Processes, NEW r \in Runs,
         CheckRetry(p, r), job'[p][r].pc \in {"resend", "expire"}
  PROVE  /\ job'[p][r].current = job[p][r].current
         /\ UNCHANGED topic
         /\ job'[p][r].pc = "expire" => GivenUpOn(Notification(p, r).message)
         /\ job'[p][r].pc = "resend" => ~Expired(Notification(p, r).message)
<1> DEFINE n == Notification(p, r)
<1>1. /\ RunOK(job[p][r]) /\ job[p][r].pc = "retry"
      /\ now \in Nat /\ RetryDelay \in Nat /\ TemporaryFailureTimeout \in Nat
      /\ \A o \in docs : o.createdAt \in Nat
  BY TypesAssumption
  DEF CheckRetry, RunAt, LogInv, JobInv, PlatformTypeOK, Doc, TypesAssumption
<1>2. /\ job'[p][r].current = job[p][r].current
      /\ UNCHANGED topic
  BY RunDecides DEF RunStep, LogInv, CheckRetry
<1>3. PICK d \in docs : /\ SameNotification(n, d)
                        /\ d.notificationId = n.notificationId
                        /\ d.notificationId \in DOMAIN emails
  BY <1>1 DEF RunOK, Tied, Notification
<1>4. /\ job[p][r].status \in retryableStatus
      /\ emails[d.notificationId].status = job[p][r].status
  BY <1>1, <1>3, StatusSets DEF RunOK, Notification
<1>5. PICK since :
        /\ Starts(d) = {since}
        /\ job'[p][r].pc = "resend" <=>
             checkRetryable(job[p][r].status, since, now)
  BY <1>3, CheckCounts
<1>6. since \in Nat
  <2>1. since \in Starts(d)
    BY <1>5
  <2> QED
    BY <1>1, <2>1 DEF Starts, Matching
<1>7. Over(d) <=> /\ job[p][r].status = "temporary-failure"
                  /\ now + RetryDelay >= since + TemporaryFailureTimeout
  BY <1>3, <1>4, <1>5 DEF Over
<1>8. Over(d) <=> job'[p][r].pc = "expire"
  <2>1. checkRetryable(job[p][r].status, since, now) <=>
          \/ job[p][r].status = "technical-failure"
          \/ now + RetryDelay < since + TemporaryFailureTimeout
    BY DEF checkRetryable
  <2>2. \/ job[p][r].status = "technical-failure"
        \/ job[p][r].status = "temporary-failure"
    BY <1>4 DEF retryableStatus
  <2>3. (now + RetryDelay < since + TemporaryFailureTimeout) <=>
          ~(now + RetryDelay >= since + TemporaryFailureTimeout)
    BY <1>1, <1>6
  <2> QED
    BY <1>5, <1>7, <2>1, <2>2, <2>3
<1>9. ASSUME Expired(n.message)
      PROVE  Over(d)
  <2>1. GivenUpOn(n.message)
    BY <1>9 DEF Expired, ExpiryInv
  <2> QED
    BY <1>3, <2>1
    DEF GivenUpOn, SameNotification, LogInv, PipelineInv, OneDocument, SameKey
<1> QED
  BY <1>2, <1>3, <1>8, <1>9 DEF GivenUpOn, SameNotification

LEMMA ExpiryInvStep ==
  ASSUME KeysGuarded, OneInstance, LogInv, RootInv, OneRunAtATime, ExpiryInv,
         ServiceStep
  PROVE  ExpiryInv'
<1>0. topic \in Seq(Event)
  BY DEF LogInv, JobInv, PlatformTypeOK
<1>1. ASSUME NEW i \in DOMAIN topic', topic'[i].type = "retry.expired"
      PROVE  GivenUpOn(topic[i].about)'
  <2>1. PICK m : m = topic'[i].about
    OBVIOUS
  <2>2. Expired(m)'
    BY <1>1, <2>1 DEF Expired
  <2>3. Expired(m) \/ GivesUp(m)
    BY <2>2, ExpiredStep
  <2>4. GivenUpOn(m)
    BY <2>3 DEF Expired, GivesUp, ExpiryInv, RunAt, Notification
  <2>5. GivenUpOn(m)'
    BY <2>4, GaveUpKept
  <2> QED
    BY <2>1, <2>5 DEF GivenUpOn
<1>2. ASSUME NEW p \in Processes, NEW r \in Runs, job'[p][r].pc = "expire"
      PROVE  GivenUpOn(Notification(p, r).message)'
  <2>1. PICK m : m = Notification(p, r).message
    OBVIOUS
  <2>2. m = Notification(p, r)'.message /\ GivenUpOn(m)
    BY <1>2, <2>1, DecidesAtCheck, DecidesRightly
    DEF ExpiryInv, RunAt, Notification
  <2>3. GivenUpOn(m)'
    BY <2>2, GaveUpKept
  <2> QED
    BY <2>2, <2>3 DEF GivenUpOn
<1>3. ASSUME NEW p \in Processes, NEW r \in Runs, job'[p][r].pc = "resend"
      PROVE  ~Expired(Notification(p, r).message)'
  <2>1. PICK m : m = Notification(p, r).message
    OBVIOUS
  <2>2. /\ m = Notification(p, r)'.message /\ ~Expired(m)
        /\ UNCHANGED topic \/ job'[p][r] = job[p][r]
    BY <1>3, <2>1, DecidesAtCheck, DecidesRightly
    DEF ExpiryInv, RunAt, Notification
  <2>3. ~GivesUp(m) \/ UNCHANGED topic
    <3> SUFFICES ASSUME NEW q \in Processes, NEW s \in Runs, RunMoves(q, s),
                        job[q][s].pc = "expire", job'[p][r] = job[p][r]
                 PROVE  FALSE
      BY <2>2 DEF GivesUp
    <3>1. q = p /\ r = s
      BY <1>3, OnlyRun DEF RunMoves, LogInv
    <3> QED
      BY <1>3, <3>1
  <2>4. ~Expired(m)'
    BY <2>2, <2>3, ExpiredStep DEF Expired
  <2> QED
    BY <2>2, <2>4 DEF Expired
<1> QED
  BY <1>1, <1>2, <1>3 DEF ExpiryInv, RunAt

LEMMA ExpiryInit == ServiceInit => ExpiryInv
BY DEF ServiceInit, PlatformInit, JobInit, ExpiryInv, NoRun, RunAt

(* Nobody but a run that resends puts a retry of the job into the queue.   *)
Resends(id) ==
  \E p \in Processes, r \in Runs :
    RunMoves(p, r) /\ job[p][r].pc = "resend" /\ job[p][r].current.id = id

LEMMA RetriesFromRuns ==
  ASSUME KeysGuarded, LogInv, ServiceStep, NEW id, id # None,
         \A m \in Requests : id # m.id,
         NEW e \in queue' \ queue, e.message.id = id
  PROVE  Resends(id)
<1>1. ASSUME NEW p \in Processes, NEW r \in Runs, RunMoves(p, r)
      PROVE  Resends(id)
  <2> DEFINE n == Notification(p, r)
  <2>1. /\ e = [message |-> buildRetryMessage(n.message, n.id),
                due |-> now + RetryDelay]
        /\ job[p][r].pc = "resend" /\ n \in Doc
    BY <1>1, RunRetries DEF LogInv, RunMoves
  <2>2. e.message.id = n.id
    BY <2>1 DEF buildRetryMessage, Doc, Message
  <2> QED
    BY <1>1, <2>1, <2>2 DEF Resends, Notification
<1>2. ASSUME NEW p \in Processes, ConsumerMoves(p)
      PROVE  FALSE
  <2>1. ConsumerRetry(p, e)
    BY <1>2, ConsumerSays DEF ConsumerMoves, LogInv, ConsumerRetry
  <2>2. Current(p) \in Message
    BY <2>1 DEF ConsumerRetry, LogInv, RequestTypeOK, Current, Entry
  <2>3. e.message.id = None
    BY <2>1, <2>2 DEF ConsumerRetry, buildRetryMessage, Message
  <2> QED
    BY <2>3
<1>3. ASSUME NEW m \in Requests, Submit(m)
      PROVE  FALSE
  BY <1>3 DEF Submit
<1> QED
  BY <1>1, <1>2, <1>3
  DEF ServiceStep, Ends, Environment, Deliver, CatchUp, Replicate, Tick,
      QueueShrinksOnly

ExpiredAreOver ==
  \A d \in docs : Expired(d.message) =>
    \A e \in queue' \ queue : e.message.id # d.id

LEMMA ExpiredAreLeft ==
  ASSUME KeysGuarded, LogInv, OriginInv, ExpiryInv, ServiceStep
  PROVE  ExpiredAreOver
<1> SUFFICES ASSUME NEW d \in docs, Expired(d.message),
                    NEW e \in queue' \ queue, e.message.id = d.id
             PROVE  FALSE
  BY DEF ExpiredAreOver
<1>1. PICK id : id = d.id
  OBVIOUS
<1>2. id # None /\ \A m \in Requests : id # m.id
  BY <1>1, LoggedIds
<1>3. Resends(id)
  BY <1>1, <1>2, RetriesFromRuns
<1>4. PICK p \in Processes, r \in Runs :
        job[p][r].pc = "resend" /\ job[p][r].current.id = d.id
  BY <1>1, <1>3 DEF Resends
<1>5. Notification(p, r).message = d.message
  BY <1>4, AnswersLogged DEF Notification
<1> QED
  BY <1>4, <1>5 DEF ExpiryInv, RunAt

(* Once one instance has told subscribers that the retries of a message    *)
(* have ended it schedules none any more, on stale reads, after errors and *)
(* after crashes: a job that meets the failure again counts from the same  *)
(* moment, and the window that was over stays so.                          *)
THEOREM ExpiryStaysFinal ==
  KeysGuarded /\ OneInstance => (ServiceSpec => ExpiryIsFinal)
<1> SUFFICES ASSUME KeysGuarded, OneInstance
             PROVE  ServiceSpec => ExpiryIsFinal
  OBVIOUS
<1>1. LogInv /\ OneRunAtATime /\ RootInv /\ ExpiryInv
        /\ [ServiceNext]_serviceVars => ExpiryInv'
  BY ExpiryInvStep, ServiceStepOfNext
<1>2. LogInv /\ OriginInv /\ ExpiryInv /\ [ServiceNext]_serviceVars =>
        [ExpiredAreOver]_jobVars
  BY ExpiredAreLeft, ServiceStepOfNext
<1>3. [ExpiredAreOver]_jobVars =>
        [\A d \in docs : Expired(d.message) =>
           \A e \in queue' \ queue : e.message.id # d.id]_jobVars
  BY DEF ExpiredAreOver
<1> QED
  BY <1>1, <1>2, <1>3, ExpiryInit, RootInvariant, ServiceRunsOneCheck, PTL
  DEF ServiceSpec, ExpiryIsFinal

-----------------------------------------------------------------------------
(* Every failure is answered, by any number of instances that read stale   *)
(* data: checkRetry finds the request a retry is correlated with.          *)

(* A request that names a correlation names itself.                        *)
OwnCorrelation ==
  \A m \in Requests : v1(m) => m.correlationId \in {None, m.id}

(* The request a message is correlated with is in the collection too.      *)
HasOriginals(collection) ==
  \A d \in collection : d.message.correlationId # None =>
    Matching(collection, d.message.source, d.message.correlationId) # {}

Read(d) == \E e \in Secondary : e.message = d.message

RunRead(c) ==
  /\ \A d \in c.pending : Read(d)
  /\ c.pc \notin {"idle", "fetch", "next"} => Read(c.current)

ReadInv ==
  /\ HasOriginals(docs) /\ HasOriginals(replica)
  /\ \A p \in Processes, r \in Runs : RunRead(job[p][r])
  /\ \A e \in queue, d \in docs : e.message.id = d.id => Processable(e.message)

LEMMA ReadKept ==
  ASSUME KeysGuarded, LogInv, DeliveryInv, ServiceStep, NEW d, Read(d)
  PROVE  Read(d)'
<1>1. PICK e \in Secondary : e.message = d.message
  BY DEF Read
<1>2. LogKept /\ (replica' = replica \/ replica' = docs)
  BY ReplicaStep, LogInvStep
<1>3. CASE "lag" \in Faults
  <2>1. e \in replica /\ Secondary' = replica'
    BY <1>1, <1>3 DEF Secondary
  <2>2. \E f \in replica' : f.message = e.message
    BY <1>2, <2>1 DEF DeliveryInv, Keeps
  <2> QED
    BY <1>1, <2>1, <2>2 DEF Read
<1>4. CASE "lag" \notin Faults
  <2>1. e \in docs /\ Secondary' = docs'
    BY <1>1, <1>4 DEF Secondary
  <2>2. \E f \in docs' : f.message = e.message
    BY <1>2, <2>1 DEF LogKept, SameNotification
  <2> QED
    BY <1>1, <2>1, <2>2 DEF Read
<1> QED
  BY <1>3, <1>4

LEMMA OriginalsStep ==
  ASSUME KeysGuarded, OwnCorrelation, LogInv, OriginInv, ServiceStep,
         HasOriginals(docs)
  PROVE  HasOriginals(docs')
<1>1. LogKept /\ (SameDocs \/ \E p \in Processes : Inserts(p) /\ ConsumerMoves(p))
  BY LogInvStep, DocsStep
<1>2. ASSUME NEW source, NEW id, Matching(docs, source, id) # {}
      PROVE  Matching(docs', source, id) # {}
  BY <1>1, <1>2 DEF Matching, LogKept, SameNotification
<1>3. CASE SameDocs
  BY <1>2, <1>3 DEF SameDocs, SameNotification, HasOriginals
<1>4. ASSUME NEW p \in Processes, Inserts(p), ConsumerMoves(p)
      PROVE  HasOriginals(docs')
  <2>1. PICK doc : Inserted(doc, Current(p))
    BY <1>4 DEF Inserts
  <2>2. PICK m : m = doc.message
    OBVIOUS
  <2>3. m = Current(p) /\ docs' = docs \cup {doc}
    BY <2>1, <2>2 DEF Inserted
  <2>4. Origin(m) /\ v1(m)
    <3>1. /\ consumer[p].current \in Held(p)
          /\ Current(p) = consumer[p].current.message
      BY <1>4, PlatformAssumption
      DEF Inserts, LogInv, RequestTypeOK, PlatformAssumption, Current, Held
    <3>2. v1(Current(p))
      BY <1>4 DEF Inserts, LogInv, PipelineInv, Checked
    <3> QED
      BY <2>3, <3>1, <3>2 DEF OriginInv, EntryOK
  <2>5. ASSUME m.correlationId # None
        PROVE  Matching(docs', m.source, m.correlationId) # {}
    <3>1. CASE m \in Requests
      <4>1. m.correlationId = m.id
        BY <2>4, <2>5, <3>1 DEF OwnCorrelation
      <4>2. doc \in Matching(docs', m.source, m.correlationId)
        BY <2>2, <2>3, <4>1 DEF Matching
      <4> QED
        BY <4>2
    <3>2. ASSUME NEW d \in docs, Parent(m, d)
          PROVE  Matching(docs', m.source, m.correlationId) # {}
      <4>1. /\ d.message.source = m.source
            /\ CorrelationOf(d.message) = m.correlationId
        BY <2>5, <3>2 DEF Parent, CorrelationOf
      <4>2. CASE d.message.correlationId # None
        BY <1>2, <4>1, <4>2 DEF HasOriginals, CorrelationOf
      <4>3. CASE d.message.correlationId = None
        <5>1. d \in Matching(docs, m.source, m.correlationId)
          BY <4>1, <4>3 DEF Matching, CorrelationOf
        <5> QED
          BY <1>2, <5>1
      <4> QED
        BY <4>2, <4>3
    <3> QED
      BY <2>4, <3>1, <3>2 DEF Origin, v1
  <2> QED
    BY <1>2, <2>2, <2>3, <2>5 DEF HasOriginals
<1> QED
  BY <1>1, <1>3, <1>4

(* A retry in the queue satisfies the schema: its notification did.        *)
LEMMA RetriesProcessable ==
  ASSUME KeysGuarded, LogInv, OriginInv, ReadInv, ServiceStep,
         NEW e \in queue', NEW d \in docs, e.message.id = d.id
  PROVE  Processable(e.message)
<1>0. d.id # None /\ \A m \in Requests : d.id # m.id
  BY LoggedIds
<1>1. CASE e \in queue
  BY <1>1 DEF ReadInv
<1>2. ASSUME NEW p \in Processes, NEW r \in Runs, RunMoves(p, r), e \notin queue
      PROVE  Processable(e.message)
  <2> DEFINE n == Notification(p, r)
  <2>1. n \in Doc /\ Tied(n) /\ e.message = buildRetryMessage(n.message, n.id)
    BY <1>2, RunRetries DEF LogInv, RunMoves
  <2>2. n.message \in Message /\ v1(n.message)
    BY <2>1 DEF Doc, Tied, SameNotification, OriginInv, LoggedOK
  <2> HIDE DEF n
  <2>3. e.message.body = "ok" /\ e.message.type = "retry"
    BY <2>1, <2>2 DEF buildRetryMessage, Message, v1
  <2> QED
    BY <1>0, <2>3 DEF Processable, v1, processorMap
<1>3. ASSUME NEW p \in Processes, ConsumerMoves(p), e \notin queue
      PROVE  FALSE
  <2>1. ConsumerRetry(p, e)
    BY <1>3, ConsumerSays DEF ConsumerMoves, LogInv, ConsumerRetry
  <2>2. Current(p) \in Message
    BY <2>1 DEF ConsumerRetry, LogInv, RequestTypeOK, Current, Entry
  <2>3. e.message.id = None
    BY <2>1, <2>2 DEF ConsumerRetry, buildRetryMessage, Message
  <2> QED
    BY <1>0, <2>3
<1>4. ASSUME NEW m \in Requests, Submit(m), e \notin queue
      PROVE  FALSE
  BY <1>0, <1>4 DEF Submit
<1> QED
  BY <1>1, <1>2, <1>3, <1>4
  DEF ServiceStep, Ends, Environment, Deliver, CatchUp, Replicate, Tick,
      QueueShrinksOnly

LEMMA ReadStep ==
  ASSUME KeysGuarded, OwnCorrelation, LogInv, OriginInv, DeliveryInv, ReadInv,
         ServiceStep
  PROVE  ReadInv'
<1>1. /\ HasOriginals(docs') /\ HasOriginals(replica')
      /\ SameDocs \/ \E p \in Processes : Inserts(p) /\ ConsumerMoves(p)
  BY OriginalsStep, ReplicaStep, DocsStep DEF ReadInv
<1>2. ASSUME NEW d, Read(d)
      PROVE  Read(d)'
  BY <1>2, ReadKept
<1>3. ASSUME NEW q \in Processes, NEW s \in Runs
      PROVE  RunRead(job[q][s])'
  <2>0. RunRead(job[q][s])
    BY DEF ReadInv
  <2>1. CASE job'[q][s] = job[q][s]
    <3>1. PICK c : c = job[q][s]
      OBVIOUS
    <3>2. RunRead(c)'
      <4>1. c.pc \notin {"idle", "fetch", "next"} => Read(c.current)'
        BY <1>2, <2>0, <3>1 DEF RunRead
      <4> QED
        BY <1>2, <2>0, <3>1, <4>1 DEF RunRead
    <3> QED
      BY <2>1, <3>1, <3>2
  <2>2. CASE job'[q][s] = NoRun
    BY <2>2 DEF NoRun, RunRead
  <2>3. CASE RunMoves(q, s)
    <3>1. \A d \in job'[q][s].pending : Read(d)
      <4>1. \/ job'[q][s].pending \subseteq job[q][s].pending
            \/ job'[q][s].pending = getPendingNotifications
        BY <2>3, RunKinds
        DEF RunMoves, LogInv, Looks, Finishes, Fetches, GoesOn
      <4>2. \A d \in getPendingNotifications : Read(d)
        BY DEF getPendingNotifications, Read
      <4> QED
        BY <2>0, <4>1, <4>2 DEF RunRead
    <3>2. ASSUME job'[q][s].pc \notin {"idle", "fetch", "next"}
          PROVE  Read(job'[q][s].current)
      <4>1. \/ job'[q][s].current \in job[q][s].pending
            \/ /\ job'[q][s].current = job[q][s].current
               /\ job[q][s].pc \notin {"idle", "fetch", "next"}
        <5>1. CASE job'[q][s].pc \in {"retry", "resend", "expire"}
          BY <2>3, <5>1, RunDecides DEF RunMoves, LogInv
        <5>2. CASE job'[q][s].pc \in {"record", "publish"}
          BY <2>3, <5>2, RunKinds
          DEF RunMoves, LogInv, Looks, Finishes, Fetches, GoesOn
        <5>3. job'[q][s].pc \in {"record", "publish", "retry", "resend",
                                 "expire"}
          BY <3>2, LogInvStep DEF LogInv, JobInv, RunState
        <5> QED
          BY <5>1, <5>2, <5>3
      <4> QED
        BY <2>0, <4>1 DEF RunRead
    <3>3. PICK c : c = job'[q][s]
      OBVIOUS
    <3>4. RunRead(c)'
      BY <1>2, <3>1, <3>2, <3>3 DEF RunRead
    <3> QED
      BY <3>3, <3>4
  <2> QED
    BY <2>1, <2>2, <2>3, JobStays
<1>4. ASSUME NEW e \in queue', NEW d \in docs', e.message.id = d.id
      PROVE  Processable(e.message)
  <2>1. ASSUME NEW c \in docs, c.id = d.id
        PROVE  Processable(e.message)
    BY <1>4, <2>1, RetriesProcessable
  <2>2. ASSUME NEW p \in Processes, Inserts(p), ConsumerMoves(p), d \notin docs
        PROVE  FALSE
    <3>1. Inserted(d, Current(p))
      BY <2>2 DEF Inserts, Inserted
    <3>2. d.id # None /\ \A n : Origin(n) => n.id # d.id
      BY <3>1, FreshId, TypesAssumption
      DEF Inserted, FreshUuids, TypesAssumption
    <3>3. e \in queue \/ EntryOK(e)
      BY NewEntries
    <3> QED
      BY <1>4, <3>2, <3>3 DEF OriginInv, EntryOK
  <2>3. ASSUME d \in docs
        PROVE  Processable(e.message)
    BY <2>1, <2>3
  <2> QED
    BY <1>1, <2>1, <2>2, <2>3 DEF SameDocs, SameNotification
<1> QED
  BY <1>1, <1>3, <1>4 DEF ReadInv

(* What answers for the failure of notification d; or its retry, taken     *)
(* from the queue, met a failing database.                                 *)
LostRetry(d) == "db" \in Faults /\ \E m \in faulted : m.id = d.id

Answered(d) ==
  \/ d.message \in faulted
  \/ BeingHandled(d)
  \/ Retried(d)
  \/ Expired(d.message)

Failed(d) == d.status \in retryableStatus /\ d.notificationId # 0

AnsweredOrLost == \A d \in docs : Failed(d) => Answered(d) \/ LostRetry(d)

LEMMA RetriedKept ==
  ASSUME KeysGuarded, LogInv, DeliveryInv, ReadInv, [ServiceNext]_serviceVars,
         NEW d \in docs, Retried(d)
  PROVE  Retried(d)' \/ LostRetry(d)'
<1>0. LogKept /\ faulted \subseteq faulted'
  BY ServiceStepOfNext, LogInvStep, FaultsRemembered
<1>1. ASSUME NEW child \in docs, child.message.id = d.id
      PROVE  Retried(d)'
  <2>1. PICK e \in docs' : e.message = child.message
    BY <1>0 DEF LogKept, SameNotification
  <2> QED
    BY <1>1, <2>1 DEF Retried
<1>2. ASSUME NEW e \in queue, e.message.id = d.id
      PROVE  Retried(d)' \/ LostRetry(d)'
  <2>1. CASE e \in queue'
    BY <1>2, <2>1 DEF Retried
  <2>2. CASE e \notin queue'
    <3>1. \/ \E p \in Processes : ConsumerMoves(p) \/ Ends(p)
          \/ \E p \in Processes, r \in Runs : RunMoves(p, r)
          \/ Environment
      BY <2>2 DEF ServiceNext, ConsumerMoves, RunMoves, JobStep, Crash, Ends,
             serviceVars, platform
    <3>2. PICK p \in Processes : e \in consumer[p].completed
      BY <2>2, <3>1, QueueLoses
    <3>3. Processable(e.message)
      BY <1>2 DEF ReadInv
    <3>4. HandledMessage(e.message)
      BY <3>2, <3>3 DEF DeliveryInv, Deletable
    <3>5. CASE "db" \in Faults /\ e.message \in faulted
      BY <1>0, <1>2, <3>5 DEF LostRetry
    <3>6. CASE \E child \in docs : SameKey(child.message, e.message)
      BY <1>1, <1>2, <3>6 DEF SameKey
    <3> QED
      BY <3>4, <3>5, <3>6 DEF HandledMessage
  <2> QED
    BY <2>1, <2>2
<1> QED
  BY <1>1, <1>2 DEF Retried

LEMMA ExpiredKept ==
  ASSUME LogInv, ServiceStep, NEW m, Expired(m)
  PROVE  Expired(m)'
<1>1. topic' = topic \/ \E e : topic' = Append(topic, e)
  BY ExpiryStep
<1>2. topic \in Seq(Event)
  BY DEF LogInv, JobInv, PlatformTypeOK
<1>3. \A i \in DOMAIN topic : i \in DOMAIN topic' /\ topic'[i] = topic[i]
  BY <1>1, <1>2
<1> QED
  BY <1>3 DEF Expired

(* The run that has the failure in hand passes it on or answers it.        *)
LEMMA HandledOn ==
  ASSUME LogInv, ReadInv, "sns" \notin Faults, NEW d \in docs, Failed(d),
         NEW p \in Processes, NEW r \in Runs, RunMoves(p, r),
         job[p][r].pc \in {"publish", "retry", "resend", "expire"},
         job[p][r].current.id = d.id
  PROVE  Answered(d)'
<1> DEFINE n == Notification(p, r)
<1>0. /\ n.id = d.id /\ n.message = d.message
      /\ job[p][r] \in RunState /\ RunOK(job[p][r]) /\ Tied(n)
      /\ RunRead(job[p][r])
      /\ job[p][r].pc \notin {"idle", "fetch", "next"}
  <2>1. RunOK(job[p][r]) /\ job[p][r] \in RunState /\ RunRead(job[p][r])
    BY DEF LogInv, JobInv, ReadInv
  <2> QED
    BY <2>1, AnswersLogged DEF Notification, RunOK
<1>1. job[p][r].status \in retryableStatus
  <2>1. n.notificationId = d.notificationId
    BY <1>0 DEF Tied, SameNotification, LogInv, PipelineInv, OneId
  <2>2. /\ d.status \in notifyFinal /\ d.notificationId # 0
        /\ d.status \in retryableStatus
    BY StatusSets DEF Failed
  <2>3. emails[d.notificationId].status = d.status
    BY <2>2 DEF LogInv, NotesOK, NoteOK
  <2>4. emails[n.notificationId].status = job[p][r].status
    BY <1>0 DEF RunOK, Notification
  <2> QED
    BY <2>1, <2>2, <2>3, <2>4
<1>2. ASSUME NEW label \in {"publish", "retry", "resend", "expire"},
             RunGoto(p, r, label)
      PROVE  Answered(d)'
  <2>1. /\ job'[p][r].pc = label
        /\ job'[p][r].current = job[p][r].current
    BY <1>0, <1>2 DEF RunGoto, LogInv, JobInv, RunState
  <2>2. BeingHandled(d)'
    BY <1>0, <1>2, <2>1 DEF BeingHandled, Notification
  <2> QED
    BY <2>2 DEF Answered
<1>3. ASSUME Fault(n.message)
      PROVE  Answered(d)'
  BY <1>0, <1>3 DEF Fault, Answered
<1>4. CASE job[p][r].pc = "publish"
  <2>1. PublishStatus(p, r)
    BY <1>4 DEF RunMoves, CronTick, RunStep, RunAt, FetchPending, FinishRun,
       GetNotifyStatus, RecordStatus, CheckRetry, PublishRetry,
       PublishRetryExpired
  <2>2. RunGoto(p, r, "retry")
    BY <1>1, <2>1 DEF PublishStatus, PublishAndRetryIf
  <2> QED
    BY <1>2, <2>2
<1>5. CASE job[p][r].pc = "retry"
  <2>1. CheckRetry(p, r)
    BY <1>5 DEF RunMoves, CronTick, RunStep, RunAt, FetchPending, FinishRun,
       GetNotifyStatus, RecordStatus, PublishStatus, PublishAndRetryIf,
       PublishRetry, PublishRetryExpired
  <2>2. n.message.correlationId # None =>
          getOriginalNotificationRequest(n.message.source,
                                         n.message.correlationId) # {}
    <3>1. PICK e \in Secondary : e.message = n.message
      BY <1>0 DEF RunRead, Read, Notification
    <3>2. HasOriginals(Secondary)
      BY DEF ReadInv, Secondary
    <3> QED
      BY <3>1, <3>2 DEF HasOriginals, getOriginalNotificationRequest
  <2>3. \/ \E label \in {"resend", "expire"} : RunGoto(p, r, label)
        \/ Fault(n.message)
    BY <2>1, <2>2 DEF CheckRetry
  <2> QED
    BY <1>2, <1>3, <2>3
<1>6. CASE job[p][r].pc = "resend"
  <2>1. PublishRetry(p, r)
    BY <1>6 DEF RunMoves, CronTick, RunStep, RunAt, FetchPending, FinishRun,
       GetNotifyStatus, RecordStatus, PublishStatus, PublishAndRetryIf,
       CheckRetry, PublishRetryExpired
  <2>2. n.message \in Message
    BY <1>0 DEF RunOK, Notification, Doc
  <2>3. CASE queue' = queue \cup {[message |-> buildRetryMessage(n.message, n.id),
                                   due |-> now + RetryDelay]}
    <3>1. PICK e : /\ e.message = buildRetryMessage(n.message, n.id)
                   /\ queue' = queue \cup {e}
      BY <2>3
    <3>2. e.message.id = d.id
      BY <1>0, <2>2, <3>1 DEF buildRetryMessage, Message
    <3>3. Retried(d)'
      BY <3>1, <3>2 DEF Retried
    <3> QED
      BY <3>3 DEF Answered
  <2> QED
    BY <1>3, <2>1, <2>3 DEF PublishRetry, publishRetryRequest
<1>7. CASE job[p][r].pc = "expire"
  <2>1. PublishRetryExpired(p, r)
    BY <1>7 DEF RunMoves, CronTick, RunStep, RunAt, FetchPending, FinishRun,
       GetNotifyStatus, RecordStatus, PublishStatus, PublishAndRetryIf,
       CheckRetry, PublishRetry
  <2>2. topic' = Append(topic, buildExpiredMessage(n.message))
    BY <2>1 DEF PublishRetryExpired, Publish
  <2>3. topic \in Seq(Event)
    BY DEF LogInv, JobInv, PlatformTypeOK
  <2>4. /\ Len(topic) + 1 \in DOMAIN topic'
        /\ topic'[Len(topic) + 1] = buildExpiredMessage(n.message)
    BY <2>2, <2>3
  <2>5. Expired(d.message)'
    BY <1>0, <2>4 DEF Expired, buildExpiredMessage, buildEvent
  <2> QED
    BY <2>5 DEF Answered
<1> QED
  BY <1>4, <1>5, <1>6, <1>7

LEMMA AnsweredKept ==
  ASSUME KeysGuarded, LogInv, DeliveryInv, ReadInv, "sns" \notin Faults,
         [ServiceNext]_serviceVars, NEW d \in docs, Failed(d),
         Answered(d) \/ LostRetry(d)
  PROVE  (Answered(d) \/ LostRetry(d))'
<1>0. ServiceStep /\ faulted \subseteq faulted'
  BY ServiceStepOfNext, FaultsRemembered
<1>1. CASE d.message \in faulted \/ LostRetry(d)
  BY <1>0, <1>1 DEF Answered, LostRetry
<1>2. CASE Retried(d)
  BY <1>2, RetriedKept DEF Answered
<1>3. CASE Expired(d.message)
  <2>1. PICK m : m = d.message
    OBVIOUS
  <2>2. Expired(m)'
    BY <1>0, <1>3, <2>1, ExpiredKept
  <2> QED
    BY <2>1, <2>2 DEF Answered
<1>4. CASE BeingHandled(d)
  <2>1. PICK q \in Processes, s \in Runs :
          /\ job[q][s].pc \in {"publish", "retry", "resend", "expire"}
          /\ job[q][s].current.id = d.id
    BY <1>4 DEF BeingHandled
  <2>2. CASE job'[q][s] = job[q][s]
    <3>1. BeingHandled(d)'
      BY <2>1, <2>2 DEF BeingHandled
    <3> QED
      BY <3>1 DEF Answered
  <2>3. CASE RunMoves(q, s)
    BY <2>1, <2>3, HandledOn
  <2>4. ASSUME NEW p \in Processes, Ends(p)
        PROVE  job'[q][s] = job[q][s] \/ d.message \in faulted'
    <3>1. CASE p = q
      <4>1. /\ job[q][s].current.message = d.message
            /\ job[q][s].current \in Doc
        BY <2>1, AnswersLogged DEF LogInv, JobInv, RunOK
      <4>2. job[q][s].current # None
        BY <4>1, RunsAssumption DEF RunsAssumption
      <4>3. d.message \in InHand(q)
        BY <4>1, <4>2 DEF InHand
      <4> QED
        BY <2>4, <3>1, <4>3 DEF Ends
    <3>2. CASE p # q
      BY <2>4, <3>2 DEF Ends, CrashJob, LogInv, JobInv
    <3> QED
      BY <3>1, <3>2
  <2>5. ASSUME NEW p \in Processes, NEW r \in Runs, RunMoves(p, r)
        PROVE  job'[q][s] = job[q][s] \/ RunMoves(q, s)
    BY <2>5, RunKinds DEF RunMoves, LogInv
  <2>6. CASE Environment \/ QueueShrinksOnly
             \/ \E p \in Processes : ConsumerMoves(p)
    BY <2>2, <2>6 DEF Environment, QueueShrinksOnly, ConsumerMoves
  <2>7. ASSUME d.message \in faulted'
        PROVE  Answered(d)'
    BY <2>7 DEF Answered
  <2> QED
    BY <1>0, <2>2, <2>3, <2>4, <2>5, <2>6, <2>7 DEF ServiceStep
<1> QED
  BY <1>1, <1>2, <1>3, <1>4 DEF Answered

(* A failure a run records is in the hands of that run, or met a fault.    *)
LEMMA FailureTaken ==
  ASSUME LogInv, NEW p \in Processes, NEW r \in Runs, RunMoves(p, r),
         job[p][r].pc = "record", job[p][r].status \in retryableStatus
  PROVE  \/ /\ job'[p][r].pc = "publish"
            /\ job'[p][r].current = job[p][r].current
         \/ Notification(p, r).message \in faulted'
<1>0. job[p][r] \in RunState
  BY DEF LogInv, JobInv
<1>1. RecordStatus(p, r)
  BY DEF RunMoves, CronTick, RunStep, RunAt, FetchPending, FinishRun,
     GetNotifyStatus, PublishStatus, PublishAndRetryIf, CheckRetry,
     PublishRetry, PublishRetryExpired
<1>2. job[p][r].status \in finishedStatus
  BY DEF retryableStatus, finishedStatus
<1>3. CASE RunGoto(p, r, "publish")
  BY <1>0, <1>3 DEF RunGoto, LogInv, JobInv, RunState
<1> QED
  BY <1>1, <1>2, <1>3 DEF RecordStatus, Fault

LEMMA AnsweredStep ==
  ASSUME KeysGuarded, LogInv, DeliveryInv, ReadInv, "sns" \notin Faults,
         [ServiceNext]_serviceVars, AnsweredOrLost
  PROVE  AnsweredOrLost'
<1>0. ServiceStep
  BY ServiceStepOfNext
<1>1. ASSUME NEW d \in docs, Failed(d)
      PROVE  (Answered(d) \/ LostRetry(d))'
  BY <1>1, AnsweredKept DEF AnsweredOrLost
<1>2. ASSUME NEW d \in docs', Failed(d), d \notin docs
      PROVE  (Answered(d) \/ LostRetry(d))'
  <2>1. ASSUME NEW p \in Processes, ConsumerMoves(p)
        PROVE  FALSE
    <3>1. Rests(p) \/ Inserts(p) \/ Accepts(p) \/ Settles(p)
      BY <2>1, ConsumerEffect DEF LogInv, PipelineInv, ConsumerMoves
    <3>2. ~Inserts(p)
      <4>1. ASSUME NEW doc, Inserted(doc, Current(p))
            PROVE  FALSE
        BY <1>2, <4>1 DEF Inserted, Failed
      <4> QED
        BY <4>1 DEF Inserts
    <3>3. CASE Settles(p)
      <4>1. PICK c \in docs, new \in Doc :
              c.message = Current(p) /\ Settled(p, c, new)
        BY <3>3 DEF Settles
      <4>2. Replaces(c, new) /\ c.notificationId = 0
        BY <4>1, SettlesUnsent DEF LogInv, PipelineInv, JobInv
      <4>3. d = new
        BY <1>2, <4>2 DEF Replaces
      <4>4. new.status = "sending" \/ new.notificationId = 0
        BY <4>1, <4>2 DEF Settled, Updates
      <4> QED
        BY <1>2, <4>3, <4>4 DEF Failed, retryableStatus
    <3> QED
      BY <1>2, <3>1, <3>2, <3>3 DEF Rests, Accepts
  <2>2. ASSUME NEW p \in Processes, NEW r \in Runs, RunMoves(p, r)
        PROVE  Answered(d)'
    <3>1. RunWrites(p, r)
      BY <2>2, RunAround DEF LogInv, RunMoves
    <3>2. PICK c \in docs, new \in Doc :
            /\ Replaces(c, new)
            /\ SameNotification(Notification(p, r), c)
            /\ job[p][r].pc = "record"
            /\ new.status = job[p][r].status
      BY <1>2, <3>1, RunUpdatesTied DEF LogInv, PipelineInv
    <3>3. d = new
      BY <1>2, <3>2 DEF Replaces
    <3>4. /\ d.id = Notification(p, r).id
          /\ d.message = Notification(p, r).message
          /\ job[p][r].status \in retryableStatus
      BY <1>2, <3>2, <3>3 DEF Replaces, SameNotification, Failed
    <3>5. CASE /\ job'[p][r].pc = "publish"
               /\ job'[p][r].current = job[p][r].current
      <4>1. BeingHandled(d)'
        BY <3>4, <3>5 DEF BeingHandled, Notification
      <4> QED
        BY <4>1 DEF Answered
    <3>6. CASE Notification(p, r).message \in faulted'
      BY <3>4, <3>6 DEF Answered
    <3> QED
      BY <2>2, <3>2, <3>4, <3>5, <3>6, FailureTaken
  <2>3. CASE Environment \/ QueueShrinksOnly \/ \E p \in Processes : Ends(p)
    <3>1. UNCHANGED docs
      BY <2>3 DEF Ends, Environment, Submit, Deliver, CatchUp, Replicate,
                  Tick, QueueShrinksOnly
    <3> QED
      BY <1>2, <3>1
  <2> QED
    BY <1>0, <2>1, <2>2, <2>3 DEF ServiceStep
<1>3. ASSUME NEW d \in docs', Failed(d)'
      PROVE  (Answered(d) \/ LostRetry(d))'
  <2>1. Failed(d)
    BY <1>3 DEF Failed
  <2> QED
    BY <1>1, <1>2, <2>1
<1> QED
  BY <1>3 DEF AnsweredOrLost

(* With any number of instances, on stale reads, through crashes,          *)
(* redeliveries and failures of Notify and SQS: an email that failed for a *)
(* reason worth a retry is retried, reported as expired, being looked      *)
(* into, or met a fault; or its retry met a failing database later on.     *)
(* Publishers name no correlation but their own request: checkRetry finds  *)
(* no other (section 5 of the README).                                     *)
LEMMA AnsweredInvariant ==
  KeysGuarded /\ OwnCorrelation /\ "sns" \notin Faults =>
    (ServiceSpec => []AnsweredOrLost)
<1> SUFFICES ASSUME KeysGuarded, OwnCorrelation, "sns" \notin Faults
             PROVE  ServiceSpec => []AnsweredOrLost
  OBVIOUS
<1>1. ServiceInit => DeliveryInv /\ ReadInv /\ AnsweredOrLost
  <2>1. ServiceInit => ReadInv /\ AnsweredOrLost
    BY DEF ServiceInit, PlatformInit, JobInit, ReadInv, HasOriginals, RunRead,
           NoRun, AnsweredOrLost
  <2> QED
    BY <2>1, DeliveryInit
<1>2. LogInv /\ OriginInv /\ DeliveryInv /\ ReadInv
        /\ [ServiceNext]_serviceVars => DeliveryInv' /\ ReadInv'
  BY DeliveryStep, ReadStep, ServiceStepOfNext
<1>3. LogInv /\ DeliveryInv /\ ReadInv /\ AnsweredOrLost
        /\ [ServiceNext]_serviceVars => AnsweredOrLost'
  BY AnsweredStep
<1> QED
  BY <1>1, <1>2, <1>3, OriginInvariant, PTL DEF ServiceSpec

(* While the database answers, no failure worth a retry goes unanswered.   *)
THEOREM FailuresAnswered ==
  KeysGuarded /\ OwnCorrelation /\ "sns" \notin Faults /\ "db" \notin Faults =>
    (ServiceSpec => []FailureAnswered)
<1> SUFFICES ASSUME KeysGuarded, OwnCorrelation, "sns" \notin Faults,
                    "db" \notin Faults
             PROVE  ServiceSpec => []FailureAnswered
  OBVIOUS
<1>1. AnsweredOrLost => FailureAnswered
  BY DEF AnsweredOrLost, FailureAnswered, Failed, Answered, LostRetry
<1> QED
  BY <1>1, AnsweredInvariant, PTL
=============================================================================
