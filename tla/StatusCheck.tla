---------------------------- MODULE StatusCheck -----------------------------
(***************************************************************************)
(* The cron job of a process: every tick starts checkNotifyStatusHandler   *)
(* unless the process's mutex says one is running.  A run reads the        *)
(* notifications still in progress, asks Notify for the status of each,    *)
(* records and publishes a change, and schedules a retry, or reports that  *)
(* the retry window has expired, for a failure worth retrying.  An action  *)
(* is what runs between two awaits.                                        *)
(***************************************************************************)
EXTENDS CommsPlatform

CONSTANTS
  Runs,     \* identities of the cron callbacks in flight in one process
  Tracked   \* documents the component on its own starts from, a sequence

ASSUME RunsAssumption ==
  /\ Runs # {}
  /\ None \notin Doc
  /\ Tracked \in Seq(Doc)
  /\ \A n \in DOMAIN Tracked :
       /\ Tracked[n].notificationId = n
       /\ Tracked[n].status \in publishedStatus \cup notifyFinal

VARIABLES
  mutex,    \* statusCheckMutex of each process: held or not
  job       \* each process's callbacks in flight

jobVars == <<platform, mutex, job>>

(* A run: where it is, the notifications it read and has not looked at     *)
(* yet, the one it is looking at, and what Notify said of it.              *)
RunState ==
  [pc : {"idle", "fetch", "next", "record", "publish", "retry", "resend",
         "expire"},
   pending : SUBSET Doc, current : Doc \cup {None},
   status : publishedStatus \cup notifyFinal \cup {None}]

NoRun == [pc |-> "idle", pending |-> {}, current |-> None, status |-> None]

RunAt(p, r, label) == job[p][r].pc = label

RunGoto(p, r, label) == job' = [job EXCEPT ![p][r].pc = label]

(* On to the next notification, an error having been caught and logged. *)
Continue(p, r) ==
  job' = [job EXCEPT ![p][r] = [NoRun EXCEPT !.pc = "next",
                                             !.pending = job[p][r].pending]]

Notification(p, r) == job[p][r].current

-----------------------------------------------------------------------------
(* Mutant: the mutex is taken without asking whether it is free. *)
CronTickUnguarded(p, r) ==
  /\ RunAt(p, r, "idle")
  /\ mutex' = [mutex EXCEPT ![p] = TRUE]
  /\ RunGoto(p, r, "fetch")
  /\ UNCHANGED platform

CronTick(p, r) ==
  /\ RunAt(p, r, "idle")
  /\ ~mutex[p]
  /\ mutex' = [mutex EXCEPT ![p] = TRUE]
  /\ RunGoto(p, r, "fetch")
  /\ UNCHANGED platform

(* Bound: with MaxEvents published a run starts from a caught-up read.     *)
FetchPending(p, r) ==
  /\ RunAt(p, r, "fetch")
  /\ Room \/ Secondary = docs
  /\ \/ job' = [job EXCEPT ![p][r].pc = "next",
                           ![p][r].pending = getPendingNotifications]
     \/ "db" \in Faults /\ RunGoto(p, r, "next")
  /\ UNCHANGED <<platform, mutex>>

(* Mutant: the handler returns without leaving the mutex. *)
FinishRunHolding(p, r) ==
  /\ RunAt(p, r, "next") /\ job[p][r].pending = {}
  /\ job' = [job EXCEPT ![p][r] = NoRun]
  /\ UNCHANGED <<platform, mutex>>

(* Nothing is left to check: the handler returns and the mutex is left. *)
FinishRun(p, r) ==
  /\ RunAt(p, r, "next") /\ job[p][r].pending = {}
  /\ mutex' = [mutex EXCEPT ![p] = FALSE]
  /\ job' = [job EXCEPT ![p][r] = NoRun]
  /\ UNCHANGED platform

(* Mutant: an error of getNotifyStatus is taken for a temporary failure. *)
GetNotifyStatusGuessing(p, r) ==
  /\ RunAt(p, r, "next")
  /\ \E d \in job[p][r].pending,
        s \in publishedStatus \cup notifyFinal :
       /\ s # d.status
       /\ \/ s = emails[d.notificationId].status
          \/ "notify" \in Faults /\ s = "temporary-failure"
       /\ job' = [job EXCEPT ![p][r] =
            [pc |-> "record", pending |-> @.pending \ {d}, current |-> d,
             status |-> s]]
  /\ UNCHANGED <<platform, mutex>>

(* getNotifyStatus fails, or the status is what the log had when it was    *)
(* read: skip the notification.                                            *)
GetNotifyStatus(p, r) ==
  /\ RunAt(p, r, "next")
  /\ \E d \in job[p][r].pending :
       LET rest == job[p][r].pending \ {d}
           reported == emails[d.notificationId].status
       IN \/ /\ reported = d.status \/ "notify" \in Faults
             /\ job' = [job EXCEPT ![p][r].pending = rest]
          \/ /\ reported # d.status
             /\ job' = [job EXCEPT ![p][r] =
                  [pc |-> "record", pending |-> rest, current |-> d,
                   status |-> reported]]
  /\ UNCHANGED <<platform, mutex>>

(* Mutant: a failed update is logged and the status published. *)
RecordStatusIgnoringError(p, r) ==
  LET m == Notification(p, r).message
      status == job[p][r].status
  IN
  /\ RunAt(p, r, "record")
  /\ \/ updateNotificationStatus(m, status, 0)
     \/ "db" \in Faults /\ UNCHANGED docs
  /\ IF status \in finishedStatus THEN RunGoto(p, r, "publish")
                                  ELSE Continue(p, r)
  /\ UNCHANGED <<replica, queue, topic, emails, now, faulted, mutex>>

(* Mutant: a failed update is thrown through the loop: the callback ends   *)
(* and the mutex is never left.                                            *)
RecordStatusThrowing(p, r) ==
  LET m == Notification(p, r).message
      status == job[p][r].status
  IN
  /\ RunAt(p, r, "record")
  /\ \/ /\ updateNotificationStatus(m, status, 0)
        /\ IF status \in finishedStatus THEN RunGoto(p, r, "publish")
                                        ELSE Continue(p, r)
        /\ UNCHANGED faulted
     \/ /\ "db" \in Faults
        /\ UNCHANGED docs \/ updateNotificationStatus(m, status, 0)
        /\ job' = [job EXCEPT ![p][r] = NoRun]
        /\ Fault(m)
  /\ UNCHANGED <<replica, queue, topic, emails, now, mutex>>

RecordStatus(p, r) ==
  LET m == Notification(p, r).message
      status == job[p][r].status
  IN
  /\ RunAt(p, r, "record")
  /\ \/ /\ updateNotificationStatus(m, status, 0)
        /\ IF status \in finishedStatus THEN RunGoto(p, r, "publish")
                                        ELSE Continue(p, r)
        /\ UNCHANGED faulted
     \/ /\ "db" \in Faults
        /\ UNCHANGED docs \/ updateNotificationStatus(m, status, 0)
        /\ Continue(p, r)
        /\ Fault(m)
  /\ UNCHANGED <<replica, queue, topic, emails, now, mutex>>

(* publishStatus for a finished status, then a retry if it is worth one.   *)
PublishAndRetryIf(p, r, retry) ==
  /\ RunAt(p, r, "publish")
  /\ Publish(buildUpdateMessage(Notification(p, r).message, job[p][r].status))
  /\ IF retry THEN RunGoto(p, r, "retry") ELSE Continue(p, r)
  /\ UNCHANGED <<docs, replica, queue, emails, now, faulted, mutex>>

(* Mutants: every failure is retried, or only temporary ones. *)
PublishStatusRetryAll(p, r) ==
  PublishAndRetryIf(p, r, job[p][r].status # "delivered")

PublishStatusTemporary(p, r) ==
  PublishAndRetryIf(p, r, job[p][r].status = "temporary-failure")

PublishStatus(p, r) ==
  PublishAndRetryIf(p, r, job[p][r].status \in retryableStatus)

(* Mutant: the window starts anew with every retry. *)
CheckRetryFromRetry(p, r) ==
  /\ RunAt(p, r, "retry")
  /\ RunGoto(p, r, IF checkRetryable(job[p][r].status,
                                     Notification(p, r).createdAt, now)
                   THEN "resend" ELSE "expire")
  /\ UNCHANGED <<platform, mutex>>

(* checkRetry: the window starts when the request the message is           *)
(* correlated with was logged, for a message without correlation id when   *)
(* the notification was.  No such request: the error ends the handling.    *)
CheckRetry(p, r) ==
  LET d == Notification(p, r)
      corr == d.message.correlationId
      original == getOriginalNotificationRequest(d.message.source, corr)
      Decide(since) ==
        RunGoto(p, r, IF checkRetryable(job[p][r].status, since, now)
                      THEN "resend" ELSE "expire")
  IN
  /\ RunAt(p, r, "retry")
  /\ \/ /\ corr = None
        /\ Decide(d.createdAt)
        /\ UNCHANGED faulted
     \/ /\ corr # None /\ original # {}
        /\ \E o \in original : Decide(o.createdAt)
        /\ UNCHANGED faulted
     \/ /\ corr # None /\ original = {}
        /\ Continue(p, r)
        /\ UNCHANGED faulted
     \/ /\ corr # None /\ "db" \in Faults
        /\ Continue(p, r)
        /\ Fault(d.message)
  /\ UNCHANGED <<docs, replica, queue, topic, emails, now, mutex>>

(* Mutant: the "else" before the expiry is missing. *)
PublishRetryFallingThrough(p, r) ==
  /\ RunAt(p, r, "resend")
  /\ publishRetryRequest(Notification(p, r).message, Notification(p, r).id)
  /\ RunGoto(p, r, "expire")
  /\ UNCHANGED <<docs, replica, topic, emails, now, mutex>>

(* The retry's id is the _id of the notification that failed. *)
PublishRetry(p, r) ==
  /\ RunAt(p, r, "resend")
  /\ publishRetryRequest(Notification(p, r).message, Notification(p, r).id)
  /\ Continue(p, r)
  /\ UNCHANGED <<docs, replica, topic, emails, now, mutex>>

PublishRetryExpired(p, r) ==
  /\ RunAt(p, r, "expire")
  /\ Publish(buildExpiredMessage(Notification(p, r).message))
  /\ Continue(p, r)
  /\ UNCHANGED <<docs, replica, queue, emails, now, faulted, mutex>>

RunStep(p, r) ==
  \/ FetchPending(p, r) \/ FinishRun(p, r) \/ GetNotifyStatus(p, r)
  \/ RecordStatus(p, r) \/ PublishStatus(p, r) \/ CheckRetry(p, r)
  \/ PublishRetry(p, r) \/ PublishRetryExpired(p, r)

JobStep(p) == \E r \in Runs : CronTick(p, r) \/ RunStep(p, r)

(* The process dies: its runs are gone and the mutex with them. *)
CrashJob(p) ==
  /\ mutex' = [mutex EXCEPT ![p] = FALSE]
  /\ job' = [job EXCEPT ![p] = [r \in Runs |-> NoRun]]

InHand(p) == {job[p][r].current.message :
                r \in {s \in Runs : job[p][s].current # None}}

JobInit ==
  /\ mutex = [p \in Processes |-> FALSE]
  /\ job = [p \in Processes |-> [r \in Runs |-> NoRun]]

-----------------------------------------------------------------------------
(* Type correctness, with what the places of a run say of its state.       *)
StatusTypeOK ==
  /\ PlatformTypeOK
  /\ mutex \in [Processes -> BOOLEAN]
  /\ job \in [Processes -> [Runs -> RunState]]
  /\ \A p \in Processes, r \in Runs :
       job[p][r].pc \notin {"idle", "fetch", "next"} =>
         job[p][r].current \in Doc /\ job[p][r].status # None

(* The mutex is held exactly while a run is under way, and only one is:    *)
(* a tick during a slow run starts no second one, and a finished run never *)
(* leaves the mutex taken, which would stop status checks for good.        *)
OneRunAtATime ==
  \A p \in Processes :
    LET active == {r \in Runs : job[p][r].pc # "idle"}
    IN /\ mutex[p] <=> active # {}
       /\ \A r, s \in active : r = s

(* Once the log says how a notification ended it never says otherwise: no  *)
(* late answer of Notify or stale read brings it back into progress.       *)
FinishedIsFinal ==
  [][\A d \in docs : d.status \in finishedStatus =>
       \E e \in docs' : e.id = d.id /\ e.status = d.status]_docs

(* Subscribers are told "delivered" or "failed at the provider" only of an *)
(* email Notify reported so.                                               *)
TruthfulOutcome ==
  \A i \in DOMAIN topic :
    topic[i].status \in {"delivered", "permanent-failure", "temporary-failure"} =>
      \E n \in DOMAIN emails :
        /\ emails[n].message = topic[i].about
        /\ emails[n].status = topic[i].status

(* A retry waits in the queue only for a notification whose email Notify   *)
(* has given up on for a reason worth a retry, so that nobody is sent a    *)
(* second email while the first may still arrive.                          *)
RetryOnlyAfterFailure ==
  \A e \in queue :
    e.message.type = "retry" /\ e.message.id # None =>
      \E d \in docs :
        /\ d.id = e.message.id /\ d.message.source = e.message.source
        /\ d.notificationId \in DOMAIN emails
        /\ emails[d.notificationId].status \in retryableStatus

(* A process is looking into the failure of notification d. *)
BeingHandled(d) ==
  \E p \in Processes, r \in Runs :
    /\ job[p][r].pc \in {"publish", "retry", "resend", "expire"}
    /\ job[p][r].current.id = d.id

Expired(m) ==
  \E i \in DOMAIN topic : topic[i].type = "retry.expired" /\ topic[i].about = m

Retried(d) ==
  \/ \E e \in queue : e.message.id = d.id
  \/ \E child \in docs : child.message.id = d.id

(* An email that was sent and failed for a reason worth a retry is either  *)
(* retried or reported as expired; only a fault can lose it.               *)
FailureAnswered ==
  \A d \in docs :
    d.status \in retryableStatus /\ d.notificationId # 0 =>
      \/ d.message \in faulted
      \/ BeingHandled(d)
      \/ Retried(d)
      \/ Expired(d.message)

(* Once subscribers were told that the retries of a notification have      *)
(* ended one instance schedules none any more: not in a run that works off *)
(* a list it read before, nor in a later one that finds the failure again  *)
(* on a secondary that lags and decides about it a second time.  A retry   *)
(* scheduled before may still be on its way: stale reads may have a        *)
(* failure retried first and reported as expired later.                    *)
ExpiryIsFinal ==
  [][\A d \in docs : Expired(d.message) =>
       \A e \in queue' \ queue : e.message.id # d.id]_jobVars

(* The requests and retries that stem from one request of a publisher. *)
Chain(m) == {d \in docs : /\ d.message.source = m.source
                          /\ CorrelationOf(d.message) = CorrelationOf(m)}

(* However often a request was retried, checkRetry counts its window from  *)
(* the moment the first of them was logged: a temporary failure is retried *)
(* if the retry starts within the window, otherwise it is given up.        *)
WindowFromFirstRequest ==
  [][\A p \in Processes, r \in Runs :
       LET chain == Chain(Notification(p, r).message)
           inWindow == \A d \in chain :
             now + RetryDelay < d.createdAt + TemporaryFailureTimeout
       IN RunAt(p, r, "retry") /\ job[p][r].status = "temporary-failure" =>
            /\ job'[p][r].pc = "resend" => inWindow
            /\ job'[p][r].pc = "expire" => ~inWindow]_jobVars

(* A run that started ends, whichever of its calls to the log, Notify or   *)
(* SQS fail and whatever they threw: the mutex is free again and the next  *)
(* tick starts a run.  A process that dies takes its mutex with it.        *)
MutexReleased == \A p \in Processes : mutex[p] ~> ~mutex[p]

(* With several processes a slow run of one may put a finished             *)
(* notification back into progress for a while, since each has a mutex of  *)
(* its own; in the end the log says what Notify said, for good.            *)
OutcomeSettles ==
  \A n \in 1..Cardinality(Uuids) :
    (n \in DOMAIN emails /\ emails[n].status \in notifyFinal)
      ~> [](\E d \in docs : d.notificationId = n /\ d.status = emails[n].status)

-----------------------------------------------------------------------------
(* The component on its own: it starts from notifications that were sent   *)
(* (Tracked[n] has notification id n) and nobody consumes the queue.       *)
StatusInit ==
  /\ docs = {Tracked[n] : n \in DOMAIN Tracked}
  /\ replica = docs
  /\ queue = {} /\ topic = << >> /\ faulted = {}
  /\ now \in 0..MaxTime /\ \A d \in docs : d.createdAt <= now
  /\ emails = [n \in DOMAIN Tracked |->
                 [message |-> Tracked[n].message,
                  reference |-> CorrelationOf(Tracked[n].message),
                  status |-> IF Tracked[n].status = "sending" THEN "created"
                             ELSE Tracked[n].status]]
  /\ JobInit

StatusEnvironment ==
  /\ \/ \E n \in DOMAIN emails : Deliver(n)
     \/ CatchUp
     \/ Tick
  /\ UNCHANGED <<mutex, job>>

CrashProcess(p) ==
  /\ "crash" \in Faults /\ Room
  /\ mutex[p]
  /\ CrashJob(p)
  /\ faulted' = faulted \cup InHand(p)
  /\ UNCHANGED <<docs, replica, queue, topic, emails, now>>

StatusNext ==
  \/ \E p \in Processes : JobStep(p) \/ CrashProcess(p)
  \/ StatusEnvironment

StatusSpec == StatusInit /\ [][StatusNext]_jobVars

(* Replies arrive, cron keeps ticking, Notify settles every email and the  *)
(* secondary catches up.                                                   *)
StatusFairness ==
  /\ \A p \in Processes : WF_jobVars(JobStep(p))
  /\ \A n \in 1..Len(Tracked) :
       WF_jobVars(n \in DOMAIN emails /\ Deliver(n) /\ UNCHANGED <<mutex, job>>)
  /\ WF_jobVars(CatchUp /\ UNCHANGED <<mutex, job>>)

FairStatusSpec == StatusSpec /\ StatusFairness
=============================================================================
