------------------------- MODULE StatusCheckProofs --------------------------
(***************************************************************************)
(* Theorems about the status check job, for every number of processes, of  *)
(* callbacks and of notifications, whatever is read late and whichever     *)
(* calls fail: its types, one run at a time in a process, and that it      *)
(* announces and retries only what Notify said.                            *)
(***************************************************************************)
EXTENDS StatusCheck, PlatformProofs

NotifyStatus == publishedStatus \cup notifyFinal

LEMMA StatusSets ==
  /\ NotifyStatus \subseteq notifyStatuses
  /\ NotifyStatus \cap finishedStatus = notifyFinal
  /\ retryableStatus \subseteq notifyFinal
  /\ None \notin notifyStatuses
BY TypesAssumption
DEF NotifyStatus, publishedStatus, notifyFinal, notifyStatuses,
    finishedStatus, retryableStatus, TypesAssumption

-----------------------------------------------------------------------------
(* The invariant: whatever a process has read, however long ago, is tied   *)
(* to the log and to the email it is about, neither of which ever goes     *)
(* away; and a final status a run has in hand is still the email's.        *)

Tied(d) ==
  /\ d.notificationId \in DOMAIN emails
  /\ emails[d.notificationId].message = d.message
  /\ \E e \in docs : /\ SameNotification(d, e)
                     /\ e.notificationId = d.notificationId

RunOK(c) ==
  /\ \A d \in c.pending : Tied(d)
  /\ c.pc \notin {"idle", "fetch", "next"} =>
       /\ c.current \in Doc /\ Tied(c.current)
       /\ c.status \in NotifyStatus
       /\ c.status \in notifyFinal =>
            emails[c.current.notificationId].status = c.status
  /\ c.pc \in {"publish", "retry", "resend", "expire"} =>
       c.status \in notifyFinal
  /\ c.pc \in {"retry", "resend"} => c.status \in retryableStatus

(* What a run needs of the log: that what is in progress was sent.         *)
JobInv ==
  /\ PlatformTypeOK
  /\ mutex \in [Processes -> BOOLEAN]
  /\ job \in [Processes -> [Runs -> RunState]]
  /\ \A d \in docs \cup replica : d.status \in publishedStatus => Tied(d)
  /\ \A p \in Processes, r \in Runs : RunOK(job[p][r])

(* What the component on its own starts from: that everything was.         *)
StatusInv ==
  /\ JobInv
  /\ \A d \in docs \cup replica : Tied(d)

(* What a step of a run does to the mutex of its process.                  *)
MutexKind(p, r, c) ==
  \/ job[p][r].pc # "idle" /\ c.pc # "idle" /\ UNCHANGED mutex
  \/ /\ job[p][r].pc = "idle" /\ c.pc # "idle" /\ ~mutex[p]
     /\ mutex' = [mutex EXCEPT ![p] = TRUE]
  \/ /\ job[p][r].pc # "idle" /\ c.pc = "idle"
     /\ mutex' = [mutex EXCEPT ![p] = FALSE]

Becomes(p, r, c) ==
  /\ job' = [job EXCEPT ![p][r] = c]
  /\ c \in RunState
  /\ RunOK(c)
  /\ MutexKind(p, r, c)

LEMMA ContinueBecomes ==
  ASSUME JobInv, NEW p \in Processes, NEW r \in Runs, Continue(p, r),
         job[p][r].pc # "idle", UNCHANGED mutex
  PROVE  \E c : Becomes(p, r, c)
<1> DEFINE c == [NoRun EXCEPT !.pc = "next", !.pending = job[p][r].pending]
<1>1. job[p][r] \in RunState /\ RunOK(job[p][r])
  BY DEF JobInv
<1>2. c \in RunState /\ RunOK(c) /\ MutexKind(p, r, c)
  BY <1>1 DEF NoRun, RunState, RunOK, MutexKind
<1>3. job' = [job EXCEPT ![p][r] = c]
  BY DEF Continue
<1> QED
  BY <1>2, <1>3 DEF Becomes

LEMMA GotoBecomes ==
  ASSUME JobInv, NEW p \in Processes, NEW r \in Runs, NEW label,
         RunGoto(p, r, label),
         [job[p][r] EXCEPT !.pc = label] \in RunState,
         RunOK([job[p][r] EXCEPT !.pc = label]),
         MutexKind(p, r, [job[p][r] EXCEPT !.pc = label])
  PROVE  \E c : Becomes(p, r, c)
BY DEF RunGoto, Becomes

LEMMA RunChange ==
  ASSUME JobInv, NEW p \in Processes, NEW r \in Runs,
         CronTick(p, r) \/ RunStep(p, r)
  PROVE  \E c : Becomes(p, r, c)
<1>1. job[p][r] \in RunState /\ RunOK(job[p][r])
  BY DEF JobInv
<1> DEFINE at(label) == [job[p][r] EXCEPT !.pc = label]
<1>2. CASE CronTick(p, r)
  <2>1. at("fetch") \in RunState /\ RunOK(at("fetch"))
    BY <1>1 DEF RunState, RunOK
  <2>2. MutexKind(p, r, at("fetch"))
    BY <1>1, <1>2 DEF CronTick, RunAt, MutexKind, RunState
  <2> QED
    BY <1>2, <2>1, <2>2, GotoBecomes DEF CronTick
<1>3. CASE FetchPending(p, r)
  <2>1. CASE RunGoto(p, r, "next")
    <3>1. at("next") \in RunState /\ RunOK(at("next"))
      BY <1>1 DEF RunState, RunOK
    <3>2. MutexKind(p, r, at("next"))
      BY <1>1, <1>3 DEF FetchPending, RunAt, MutexKind, RunState
    <3> QED
      BY <2>1, <3>1, <3>2, GotoBecomes
  <2>2. CASE job' = [job EXCEPT ![p][r].pc = "next",
                                ![p][r].pending = getPendingNotifications]
    <3> DEFINE c == [job[p][r] EXCEPT !.pc = "next",
                                      !.pending = getPendingNotifications]
    <3>1. /\ getPendingNotifications \subseteq docs \cup replica
          /\ docs \cup replica \subseteq Doc
          /\ \A d \in getPendingNotifications : d.status \in publishedStatus
      BY DEF getPendingNotifications, Secondary, JobInv, PlatformTypeOK
    <3>2. \A d \in getPendingNotifications : Tied(d)
      BY <3>1 DEF JobInv
    <3>3. c \in RunState /\ RunOK(c)
      BY <1>1, <3>1, <3>2 DEF RunState, RunOK
    <3>4. MutexKind(p, r, c)
      BY <1>1, <1>3 DEF FetchPending, RunAt, MutexKind, RunState
    <3>5. job' = [job EXCEPT ![p][r] = c]
      BY <2>2 DEF JobInv
    <3> QED
      BY <3>3, <3>4, <3>5 DEF Becomes
  <2> QED
    BY <1>3, <2>1, <2>2 DEF FetchPending
<1>4. CASE FinishRun(p, r)
  <2>1. NoRun \in RunState /\ RunOK(NoRun) /\ MutexKind(p, r, NoRun)
    BY <1>4 DEF NoRun, RunState, RunOK, MutexKind, FinishRun, RunAt
  <2> QED
    BY <1>4, <2>1 DEF FinishRun, Becomes
<1>5. CASE GetNotifyStatus(p, r)
  <2>1. PICK d \in job[p][r].pending :
          \/ job' = [job EXCEPT ![p][r].pending = job[p][r].pending \ {d}]
          \/ job' = [job EXCEPT ![p][r] =
               [pc |-> "record", pending |-> job[p][r].pending \ {d},
                current |-> d, status |-> emails[d.notificationId].status]]
    BY <1>5 DEF GetNotifyStatus
  <2> DEFINE skipped == [job[p][r] EXCEPT !.pending = job[p][r].pending \ {d}]
             taken == [pc |-> "record", pending |-> job[p][r].pending \ {d},
                current |-> d, status |-> emails[d.notificationId].status]
  <2>2. job[p][r].pc = "next" /\ UNCHANGED mutex
    BY <1>5 DEF GetNotifyStatus, RunAt
  <2>3. d \in Doc /\ Tied(d)
    BY <1>1 DEF RunState, RunOK
  <2>4. emails[d.notificationId].status \in NotifyStatus
    <3>1. emails \in Seq(Email) /\ d.notificationId \in DOMAIN emails
      BY <2>3 DEF Tied, JobInv, PlatformTypeOK
    <3>2. emails[d.notificationId] \in Email
      BY <3>1
    <3> QED
      BY <3>2 DEF Email, NotifyStatus
  <2>5. /\ skipped \in RunState /\ RunOK(skipped)
        /\ MutexKind(p, r, skipped)
    BY <1>1, <2>2 DEF RunState, RunOK, MutexKind
  <2>6. /\ taken \in RunState /\ RunOK(taken)
        /\ MutexKind(p, r, taken)
    BY <1>1, <2>2, <2>3, <2>4 DEF RunState, RunOK, MutexKind, NotifyStatus
  <2> HIDE DEF taken
  <2>7. CASE job' = [job EXCEPT ![p][r].pending = job[p][r].pending \ {d}]
    <3>1. job' = [job EXCEPT ![p][r] = skipped]
      BY <2>7 DEF JobInv
    <3> QED
      BY <2>5, <3>1 DEF Becomes
  <2>8. CASE job' = [job EXCEPT ![p][r] = taken]
    BY <2>6, <2>8 DEF Becomes
  <2> QED
    BY <2>1, <2>7, <2>8 DEF taken
<1>6. CASE RecordStatus(p, r)
  <2>1. job[p][r].pc = "record" /\ UNCHANGED mutex
    BY <1>6 DEF RecordStatus, RunAt
  <2>2. CASE Continue(p, r)
    BY <2>1, <2>2, ContinueBecomes
  <2>3. CASE RunGoto(p, r, "publish") /\ job[p][r].status \in finishedStatus
    <3>1. at("publish") \in RunState /\ RunOK(at("publish"))
      BY <1>1, <2>1, <2>3, StatusSets DEF RunState, RunOK
    <3>2. MutexKind(p, r, at("publish"))
      BY <1>1, <2>1 DEF MutexKind, RunState
    <3> QED
      BY <2>3, <3>1, <3>2, GotoBecomes
  <2> QED
    BY <1>6, <2>2, <2>3 DEF RecordStatus
<1>7. CASE PublishStatus(p, r)
  <2>1. job[p][r].pc = "publish" /\ UNCHANGED mutex
    BY <1>7 DEF PublishStatus, PublishAndRetryIf, RunAt
  <2>2. CASE Continue(p, r)
    BY <2>1, <2>2, ContinueBecomes
  <2>3. CASE RunGoto(p, r, "retry") /\ job[p][r].status \in retryableStatus
    <3>1. at("retry") \in RunState /\ RunOK(at("retry"))
      BY <1>1, <2>1, <2>3 DEF RunState, RunOK
    <3>2. MutexKind(p, r, at("retry"))
      BY <1>1, <2>1 DEF MutexKind, RunState
    <3> QED
      BY <2>3, <3>1, <3>2, GotoBecomes
  <2> QED
    BY <1>7, <2>2, <2>3 DEF PublishStatus, PublishAndRetryIf
<1>8. CASE CheckRetry(p, r)
  <2>1. job[p][r].pc = "retry" /\ UNCHANGED mutex
    BY <1>8 DEF CheckRetry, RunAt
  <2>2. CASE Continue(p, r)
    BY <2>1, <2>2, ContinueBecomes
  <2>3. ASSUME NEW label \in {"resend", "expire"}, RunGoto(p, r, label)
        PROVE  \E c : Becomes(p, r, c)
    <3>1. at(label) \in RunState /\ RunOK(at(label))
      BY <1>1, <2>1, <2>3 DEF RunState, RunOK
    <3>2. MutexKind(p, r, at(label))
      BY <1>1, <2>1, <2>3 DEF MutexKind, RunState
    <3> QED
      BY <2>3, <3>1, <3>2, GotoBecomes
  <2>4. \/ Continue(p, r)
        \/ \E label \in {"resend", "expire"} : RunGoto(p, r, label)
    BY <1>8 DEF CheckRetry
  <2> QED
    BY <2>2, <2>3, <2>4
<1>9. CASE PublishRetry(p, r) \/ PublishRetryExpired(p, r)
  BY <1>9, ContinueBecomes DEF PublishRetry, PublishRetryExpired, RunAt
<1> QED
  BY <1>2, <1>3, <1>4, <1>5, <1>6, <1>7, <1>8, <1>9 DEF RunStep

-----------------------------------------------------------------------------
(* What lies around the runs only grows: no document loses its id, message *)
(* or notification id, no email its message or its final status.           *)

LogKept ==
  \A d \in docs : \E e \in docs' :
    /\ SameNotification(d, e)
    /\ d.notificationId \in DOMAIN emails =>
         e.notificationId = d.notificationId

EmailsKept ==
  /\ DOMAIN emails \subseteq DOMAIN emails'
  /\ \A n \in DOMAIN emails :
       /\ emails'[n].message = emails[n].message
       /\ emails[n].status \in notifyFinal =>
            emails'[n].status = emails[n].status

LEMMA TiedKept ==
  ASSUME LogKept, EmailsKept, NEW d, Tied(d)
  PROVE  Tied(d)'
BY DEF LogKept, EmailsKept, Tied, SameNotification

LEMMA RunOKKept ==
  ASSUME LogKept, EmailsKept, NEW c, RunOK(c)
  PROVE  RunOK(c)'
<1>1. c.pc \notin {"idle", "fetch", "next"} /\ c.status \in notifyFinal =>
          emails'[c.current.notificationId].status = c.status
  BY DEF RunOK, EmailsKept, Tied
<1> QED
  BY <1>1, TiedKept DEF RunOK

(* What a step of a run writes: the status it has in hand, into the        *)
(* document with the key of the notification it looks at.                  *)
RunWrites(p, r) ==
  \/ docs' = docs
  \/ /\ RunAt(p, r, "record")
     /\ \E d \in docs, new \in Doc :
          /\ Updates(d, new, job[p][r].status, 0)
          /\ SameKey(d.message, Notification(p, r).message)

LEMMA WritesKept ==
  ASSUME NEW p, NEW r, RunWrites(p, r), docs \subseteq Doc
  PROVE  /\ LogKept
         /\ docs' \subseteq Doc
         /\ \A e \in docs' : \E d \in docs :
              SameNotification(d, e) /\ e.notificationId = d.notificationId
<1>1. CASE docs' = docs
  BY <1>1 DEF LogKept, SameNotification
<1>2. ASSUME NEW d \in docs, NEW new \in Doc,
             Updates(d, new, job[p][r].status, 0)
      PROVE  /\ LogKept
             /\ docs' \subseteq Doc
             /\ \A e \in docs' : \E f \in docs :
                  SameNotification(f, e) /\ e.notificationId = f.notificationId
  <2>1. /\ SameNotification(d, new) /\ new.notificationId = d.notificationId
        /\ docs' = (docs \ {d}) \cup {new}
    BY <1>2 DEF Updates, Replaces
  <2>2. \A e \in docs : SameNotification(e, e)
    BY DEF SameNotification
  <2> QED
    BY <2>1, <2>2 DEF LogKept
<1> QED
  BY <1>1, <1>2 DEF RunWrites

LEMMA RunAround ==
  ASSUME JobInv, NEW p \in Processes, NEW r \in Runs,
         CronTick(p, r) \/ RunStep(p, r)
  PROVE  /\ PlatformTypeOK' /\ LogKept /\ RunWrites(p, r)
         /\ UNCHANGED <<emails, replica, now>>
<1>1. /\ PlatformTypeOK
      /\ job[p][r].pc \notin {"idle", "fetch", "next"} =>
           /\ Notification(p, r) \in Doc
           /\ Notification(p, r).message \in Message
           /\ Notification(p, r).id \in Uuids
           /\ job[p][r].status \in notifyStatuses
  <2>1. PlatformTypeOK /\ RunOK(job[p][r])
    BY DEF JobInv
  <2> QED
    BY <2>1, StatusSets DEF RunOK, Notification, Doc
<1>2. UNCHANGED <<emails, replica, now>>
  BY DEF CronTick, RunStep, FetchPending, FinishRun, GetNotifyStatus,
     RecordStatus, PublishStatus, PublishAndRetryIf, CheckRetry, PublishRetry,
     PublishRetryExpired, platform
<1>3. RunWrites(p, r)
  <2>1. CASE RecordStatus(p, r)
    <3> DEFINE m == Notification(p, r).message
               status == job[p][r].status
    <3>1. job[p][r].pc = "record" /\ status \in notifyStatuses
      BY <1>1, <2>1 DEF RecordStatus, RunAt
    <3>2. docs \subseteq Doc /\ 0 \in Nat
      BY <1>1 DEF PlatformTypeOK
    <3>3. docs' = docs \/ updateNotificationStatus(m, status, 0)
      BY <2>1 DEF RecordStatus
    <3> HIDE DEF m, status
    <3>4. \/ docs' = docs
          \/ \E d \in Matching(docs, m.source, m.id), new \in Doc :
               Updates(d, new, status, 0)
      BY <3>1, <3>2, <3>3, UpdateWrites
    <3>5. \A d \in Matching(docs, m.source, m.id) :
            d \in docs /\ SameKey(d.message, m)
      BY DEF Matching, SameKey
    <3> QED
      BY <3>1, <3>4, <3>5 DEF RunWrites, RunAt, m, status
  <2>2. RecordStatus(p, r) \/ docs' = docs
    BY DEF CronTick, RunStep, FetchPending, FinishRun, GetNotifyStatus,
       PublishStatus, PublishAndRetryIf, CheckRetry, PublishRetry,
       PublishRetryExpired, platform
  <2> QED
    BY <2>1, <2>2 DEF RunWrites
<1>4. LogKept /\ docs' \subseteq Doc
  BY <1>1, <1>3, WritesKept DEF PlatformTypeOK
<1> SUFFICES PlatformTypeOK'
  BY <1>2, <1>3, <1>4
<1>5. CASE PublishStatus(p, r)
  BY <1>1, <1>4, <1>5, UpdateMessageType, PublishType
  DEF PublishStatus, PublishAndRetryIf, RunAt, PlatformTypeOK
<1>6. CASE CheckRetry(p, r) \/ RecordStatus(p, r)
  BY <1>1, <1>4, <1>6
  DEF CheckRetry, RecordStatus, RunAt, PlatformTypeOK, Fault
<1>7. CASE PublishRetry(p, r)
  BY <1>1, <1>4, <1>7, PublishRetryType
  DEF PublishRetry, RunAt, PlatformTypeOK
<1>8. CASE PublishRetryExpired(p, r)
  BY <1>1, <1>4, <1>8, ExpiredMessageType, PublishType
  DEF PublishRetryExpired, RunAt, PlatformTypeOK
<1>9. CASE UNCHANGED <<queue, topic, faulted>>
  BY <1>1, <1>2, <1>4, <1>9 DEF PlatformTypeOK
<1>10. \/ UNCHANGED <<queue, topic, faulted>>
       \/ PublishStatus(p, r) \/ CheckRetry(p, r) \/ RecordStatus(p, r)
       \/ PublishRetry(p, r) \/ PublishRetryExpired(p, r)
  BY DEF CronTick, RunStep, FetchPending, FinishRun, GetNotifyStatus, platform
<1> QED
  BY <1>5, <1>6, <1>7, <1>8, <1>9, <1>10

LEMMA DeliverAround ==
  ASSUME JobInv, NEW n \in DOMAIN emails, Deliver(n)
  PROVE  PlatformTypeOK' /\ EmailsKept /\ UNCHANGED <<docs, replica>>
<1>1. PICK s \in publishedStatus \cup notifyFinal :
        emails' = [emails EXCEPT ![n].status = s]
  BY DEF Deliver
<1>2. emails \in Seq(Email) /\ emails[n] \in Email
  BY DEF JobInv, PlatformTypeOK
<1>3. [emails[n] EXCEPT !.status = s] \in Email
  BY <1>2 DEF Email
<1>4. emails' \in Seq(Email)
  BY <1>1, <1>2, <1>3
<1>5. EmailsKept
  <2> DEFINE new == [emails[n] EXCEPT !.status = s]
  <2>1. new.message = emails[n].message
    BY <1>2 DEF Email
  <2>2. emails' = [emails EXCEPT ![n] = new]
    BY <1>1
  <2>3. emails[n].status \notin notifyFinal
    BY DEF Deliver
  <2> HIDE DEF new
  <2>4. /\ DOMAIN emails' = DOMAIN emails
        /\ emails'[n] = new
        /\ \A k \in DOMAIN emails : k # n => emails'[k] = emails[k]
    BY <2>2
  <2> QED
    BY <2>1, <2>3, <2>4 DEF EmailsKept
<1> QED
  BY <1>4, <1>5 DEF Deliver, JobInv, PlatformTypeOK

(* The runs other than the one that moved, if any did, have stayed.        *)
LEMMA RunsKept ==
  ASSUME JobInv, LogKept, EmailsKept,
         job' \in [Processes -> [Runs -> RunState]],
         \A q \in Processes, s \in Runs :
           job'[q][s] = job[q][s] \/ RunOK(job'[q][s])
  PROVE  \A q \in Processes, s \in Runs : RunOK(job[q][s])'
<1>1. ASSUME NEW q \in Processes, NEW s \in Runs
      PROVE  RunOK(job[q][s])'
  <2>1. PICK b : b = job'[q][s]
    OBVIOUS
  <2>2. RunOK(b)'
    BY <2>1, RunOKKept DEF JobInv
  <2> QED
    BY <2>1, <2>2 DEF RunOK
<1> QED
  BY <1>1

LEMMA StatusInvStep ==
  ASSUME StatusInv, [StatusNext]_jobVars
  PROVE  StatusInv'
<1>1. ASSUME NEW p \in Processes, NEW r \in Runs,
             CronTick(p, r) \/ RunStep(p, r)
      PROVE  StatusInv'
  <2>1. PICK c : Becomes(p, r, c)
    BY <1>1, RunChange DEF StatusInv
  <2>2. /\ EmailsKept /\ LogKept /\ PlatformTypeOK'
        /\ UNCHANGED <<emails, replica>>
        /\ \A e \in docs' : \E d \in docs :
             SameNotification(d, e) /\ e.notificationId = d.notificationId
    BY <1>1, RunAround, WritesKept
    DEF EmailsKept, StatusInv, JobInv, PlatformTypeOK
  <2>3. /\ job' \in [Processes -> [Runs -> RunState]]
        /\ \A q \in Processes, s \in Runs :
             job'[q][s] = job[q][s] \/ RunOK(job'[q][s])
    BY <2>1 DEF Becomes, StatusInv, JobInv
  <2>4. \A q \in Processes, s \in Runs : RunOK(job[q][s])'
    BY <2>2, <2>3, RunsKept DEF StatusInv
  <2>5. \A d \in (docs \cup replica)' : Tied(d)'
    <3>1. ASSUME NEW d \in replica
          PROVE  Tied(d)'
      BY <2>2, TiedKept DEF StatusInv, JobInv
    <3>2. ASSUME NEW d \in docs'
          PROVE  Tied(d)'
      BY <2>2, <3>2 DEF Tied, SameNotification, StatusInv, JobInv
    <3> QED
      BY <2>2, <3>1, <3>2
  <2>6. mutex' \in [Processes -> BOOLEAN]
    BY <2>1 DEF Becomes, MutexKind, StatusInv, JobInv
  <2> QED
    BY <2>2, <2>3, <2>4, <2>5, <2>6 DEF StatusInv, JobInv
<1>2. ASSUME UNCHANGED <<mutex, job>>, EmailsKept, LogKept,
             PlatformTypeOK', docs' \cup replica' \subseteq docs \cup replica
      PROVE  StatusInv'
  <2>1. \A q \in Processes, s \in Runs : RunOK(job[q][s])'
    BY <1>2, RunsKept DEF StatusInv, JobInv
  <2>2. \A d \in (docs \cup replica)' : Tied(d)'
    BY <1>2, TiedKept DEF StatusInv, JobInv
  <2> QED
    BY <1>2, <2>1, <2>2 DEF StatusInv, JobInv
<1>3. CASE StatusEnvironment
  <2>1. ASSUME NEW n \in DOMAIN emails, Deliver(n)
        PROVE  StatusInv'
    BY <1>2, <1>3, <2>1, DeliverAround
    DEF StatusEnvironment, LogKept, SameNotification, StatusInv
  <2>2. CASE CatchUp
    BY <1>2, <1>3, <2>2
    DEF StatusEnvironment, CatchUp, Replicate, LogKept, SameNotification, EmailsKept,
        StatusInv, JobInv, PlatformTypeOK
  <2>3. CASE Tick
    BY <1>2, <1>3, <2>3
    DEF StatusEnvironment, Tick, LogKept, SameNotification, EmailsKept,
        StatusInv, JobInv,
        PlatformTypeOK
  <2> QED
    BY <1>3, <2>1, <2>2, <2>3 DEF StatusEnvironment
<1>4. ASSUME NEW p \in Processes, CrashProcess(p)
      PROVE  StatusInv'
  <2>1. InHand(p) \subseteq Message
    BY DEF InHand, StatusInv, JobInv, RunState, Doc
  <2>2. LogKept /\ EmailsKept /\ PlatformTypeOK'
    BY <1>4, <2>1
    DEF CrashProcess, LogKept, SameNotification, EmailsKept, StatusInv,
        JobInv, PlatformTypeOK
  <2>3. /\ job' = [job EXCEPT ![p] = [r \in Runs |-> NoRun]]
        /\ mutex' = [mutex EXCEPT ![p] = FALSE]
        /\ docs' = docs /\ replica' = replica
    BY <1>4 DEF CrashProcess, CrashJob
  <2>4. NoRun \in RunState /\ RunOK(NoRun)
    BY DEF NoRun, RunState, RunOK
  <2>5. /\ job' \in [Processes -> [Runs -> RunState]]
        /\ \A q \in Processes, s \in Runs :
             job'[q][s] = job[q][s] \/ RunOK(job'[q][s])
    BY <2>3, <2>4 DEF StatusInv, JobInv
  <2>6. \A q \in Processes, s \in Runs : RunOK(job[q][s])'
    BY <2>2, <2>5, RunsKept DEF StatusInv
  <2>7. \A d \in (docs \cup replica)' : Tied(d)'
    BY <2>2, <2>3, TiedKept DEF StatusInv, JobInv
  <2> QED
    BY <2>2, <2>3, <2>5, <2>6, <2>7 DEF StatusInv, JobInv
<1>5. CASE UNCHANGED jobVars
  BY <1>2, <1>5 DEF jobVars, platform, LogKept, SameNotification, EmailsKept,
                    StatusInv, JobInv, PlatformTypeOK
<1> QED
  BY <1>1, <1>3, <1>4, <1>5 DEF StatusNext, JobStep

LEMMA StatusInvInit == StatusInit => StatusInv
<1> SUFFICES ASSUME StatusInit
             PROVE  StatusInv
  OBVIOUS
<1> DEFINE E(n) == [message |-> Tracked[n].message,
                    reference |-> CorrelationOf(Tracked[n].message),
                    status |-> IF Tracked[n].status = "sending" THEN "created"
                               ELSE Tracked[n].status]
<1>1. /\ Tracked \in Seq(Doc)
      /\ \A n \in DOMAIN Tracked :
           /\ Tracked[n] \in Doc /\ Tracked[n].notificationId = n
           /\ Tracked[n].status \in publishedStatus \cup notifyFinal
  BY RunsAssumption DEF RunsAssumption
<1>2. /\ docs = {Tracked[n] : n \in DOMAIN Tracked} /\ replica = docs
      /\ emails = [n \in DOMAIN Tracked |-> E(n)]
      /\ queue = {} /\ topic = << >> /\ faulted = {} /\ now \in Nat
  BY DEF StatusInit, PlatformAssumption
<1>3. \A n \in DOMAIN Tracked : E(n) \in Email /\ E(n).message = Tracked[n].message
  <2>1. ASSUME NEW n \in DOMAIN Tracked
        PROVE  E(n) \in Email
    <3>1. Tracked[n].message \in Message
      BY <1>1 DEF Doc
    <3>2. CorrelationOf(Tracked[n].message) \in Uuids \cup {None}
      BY <3>1, CorrelationType
    <3> QED
      BY <1>1, <3>1, <3>2 DEF Email, publishedStatus
  <2> QED
    BY <2>1
<1> HIDE DEF E
<1>4. emails \in Seq(Email)
  BY <1>1, <1>2, <1>3
<1>5. PlatformTypeOK
  BY <1>1, <1>2, <1>4 DEF PlatformTypeOK
<1>6. \A d \in docs \cup replica : Tied(d)
  BY <1>1, <1>2, <1>3 DEF Tied, SameNotification
<1>7. /\ mutex \in [Processes -> BOOLEAN]
      /\ job \in [Processes -> [Runs -> RunState]]
      /\ \A p \in Processes, r \in Runs : RunOK(job[p][r])
  BY DEF StatusInit, JobInit, NoRun, RunState, RunOK
<1> QED
  BY <1>5, <1>6, <1>7 DEF StatusInv, JobInv

LEMMA StatusInvariant == StatusSpec => []StatusInv
BY StatusInvInit, StatusInvStep, PTL DEF StatusSpec

(* Types: every value of every variable is one the code can hold, and a    *)
(* run that looks at a notification has it and its status in hand.         *)
THEOREM StatusTypeCorrect == StatusSpec => []StatusTypeOK
<1>1. StatusInv => StatusTypeOK
  BY StatusSets DEF StatusInv, JobInv, StatusTypeOK, RunOK
<1> QED
  BY <1>1, StatusInvariant, PTL

-----------------------------------------------------------------------------
(* One run at a time: CronTick is the only way into a run and FinishRun    *)
(* the only way out, however many callbacks the ticks have started.        *)
LEMMA MutexKept ==
  ASSUME JobInv, OneRunAtATime, NEW p \in Processes, NEW r \in Runs,
         NEW c, Becomes(p, r, c)
  PROVE  OneRunAtATime'
<1>1. /\ \A q \in Processes, s \in Runs :
           job'[q][s] = IF q = p /\ s = r THEN c ELSE job[q][s]
      /\ MutexKind(p, r, c)
  BY DEF Becomes, JobInv
<1>2. ASSUME NEW q \in Processes
      PROVE  /\ mutex'[q] <=> \E s \in Runs : job'[q][s].pc # "idle"
             /\ \A s, t \in Runs :
                  job'[q][s].pc # "idle" /\ job'[q][t].pc # "idle" => s = t
  <2>1. /\ mutex[q] <=> \E s \in Runs : job[q][s].pc # "idle"
        /\ \A s, t \in Runs :
             job[q][s].pc # "idle" /\ job[q][t].pc # "idle" => s = t
    BY DEF OneRunAtATime
  <2>2. CASE q # p
    <3>1. mutex'[q] = mutex[q]
      BY <1>1, <2>2 DEF MutexKind, JobInv
    <3> QED
      BY <1>1, <2>1, <2>2, <3>1
  <2>3. CASE q = p
    <3>1. CASE job[p][r].pc # "idle" /\ c.pc # "idle" /\ UNCHANGED mutex
      BY <1>1, <2>1, <2>3, <3>1
    <3>2. CASE /\ job[p][r].pc = "idle" /\ c.pc # "idle" /\ ~mutex[p]
               /\ mutex' = [mutex EXCEPT ![p] = TRUE]
      <4>1. mutex'[p]
        BY <3>2 DEF JobInv
      <4> QED
        BY <1>1, <2>1, <2>3, <3>2, <4>1
    <3>3. CASE /\ job[p][r].pc # "idle" /\ c.pc = "idle"
               /\ mutex' = [mutex EXCEPT ![p] = FALSE]
      <4>1. ~mutex'[p]
        BY <3>3 DEF JobInv
      <4> QED
        BY <1>1, <2>1, <2>3, <3>3, <4>1
    <3> QED
      BY <1>1, <3>1, <3>2, <3>3 DEF MutexKind
  <2> QED
    BY <2>2, <2>3
<1> QED
  BY <1>2 DEF OneRunAtATime

LEMMA CrashFreesMutex ==
  ASSUME JobInv, OneRunAtATime, NEW p \in Processes, CrashJob(p)
  PROVE  OneRunAtATime'
<1>1. /\ job' = [job EXCEPT ![p] = [r \in Runs |-> NoRun]]
      /\ mutex' = [mutex EXCEPT ![p] = FALSE]
  BY DEF CrashJob
<1>2. ~mutex'[p] /\ \A r \in Runs : job'[p][r].pc = "idle"
  BY <1>1 DEF JobInv, NoRun
<1>3. \A q \in Processes :
        q # p => mutex'[q] = mutex[q] /\ job'[q] = job[q]
  BY <1>1 DEF JobInv
<1> QED
  BY <1>2, <1>3 DEF OneRunAtATime

LEMMA OneRunStep ==
  ASSUME JobInv, OneRunAtATime, [StatusNext]_jobVars
  PROVE  OneRunAtATime'
<1>1. ASSUME NEW p \in Processes, NEW r \in Runs,
             CronTick(p, r) \/ RunStep(p, r)
      PROVE  OneRunAtATime'
  BY <1>1, RunChange, MutexKept
<1>2. ASSUME NEW p \in Processes, CrashProcess(p)
      PROVE  OneRunAtATime'
  BY <1>2, CrashFreesMutex DEF CrashProcess
<1>3. CASE StatusEnvironment \/ UNCHANGED jobVars
  BY <1>3 DEF StatusEnvironment, jobVars, OneRunAtATime
<1> QED
  BY <1>1, <1>2, <1>3 DEF StatusNext, JobStep

(* A process checks statuses in one run at a time and holds its mutex      *)
(* exactly while it does, whatever its ticks, its faults and its crashes.  *)
THEOREM OneRun == StatusSpec => []OneRunAtATime
<1>1. StatusInit => OneRunAtATime
  BY DEF StatusInit, JobInit, OneRunAtATime, NoRun
<1>2. StatusInv /\ OneRunAtATime /\ [StatusNext]_jobVars => OneRunAtATime'
  BY OneRunStep DEF StatusInv
<1> QED
  BY <1>1, <1>2, StatusInvariant, PTL DEF StatusSpec

-----------------------------------------------------------------------------
(* What the topic gains in a step, and what the queue gains.               *)

Reported(e) ==
  e.status \in {"delivered", "permanent-failure", "temporary-failure"} =>
    \E n \in DOMAIN emails :
      emails[n].message = e.about /\ emails[n].status = e.status

GivenUp(e) ==
  e.message.type = "retry" /\ e.message.id # None =>
    \E d \in docs :
      /\ d.id = e.message.id /\ d.message.source = e.message.source
      /\ d.notificationId \in DOMAIN emails
      /\ emails[d.notificationId].status \in retryableStatus

LEMMA ReportedKept ==
  ASSUME EmailsKept, NEW e, Reported(e)
  PROVE  Reported(e)'
BY DEF Reported, EmailsKept, notifyFinal

LEMMA GivenUpKept ==
  ASSUME LogKept, EmailsKept, NEW e, GivenUp(e)
  PROVE  GivenUp(e)'
BY StatusSets DEF GivenUp, LogKept, SameNotification, EmailsKept

(* A step adds to the topic only what Notify reported, and to the queue    *)
(* only retries of what Notify gave up.                                    *)
LEMMA RunSays ==
  ASSUME JobInv, NEW p \in Processes, NEW r \in Runs,
         CronTick(p, r) \/ RunStep(p, r)
  PROVE  /\ topic' = topic \/ \E e \in Event :
                                Reported(e) /\ topic' = Append(topic, e)
         /\ queue' = queue \/ \E e :
                                GivenUp(e) /\ queue' = queue \cup {e}
<1> DEFINE d == Notification(p, r)
           status == job[p][r].status
<1>1. ASSUME job[p][r].pc \in {"publish", "resend", "expire"}
      PROVE  /\ d \in Doc /\ d.message \in Message /\ Tied(d)
             /\ status \in notifyStatuses
             /\ emails[d.notificationId].status = status
             /\ job[p][r].pc = "resend" => status \in retryableStatus
  BY <1>1, StatusSets DEF JobInv, RunOK, Notification, Doc
<1>2. CASE PublishStatus(p, r)
  <2>1. job[p][r].pc = "publish" /\ queue' = queue
    BY <1>2 DEF PublishStatus, PublishAndRetryIf, RunAt
  <2> DEFINE event == buildUpdateMessage(d.message, status)
  <2>2. event \in Event
    BY <1>1, <2>1, UpdateMessageType
  <2>3. event.about = d.message /\ event.status = status
    BY DEF buildUpdateMessage, buildEvent
  <2>4. Reported(event)
    BY <1>1, <2>1, <2>3 DEF Reported, Tied
  <2>5. topic' = topic \/ topic' = Append(topic, event)
    BY <1>2 DEF PublishStatus, PublishAndRetryIf, Publish
  <2> QED
    BY <2>1, <2>2, <2>4, <2>5
<1>3. CASE PublishRetryExpired(p, r)
  <2>1. job[p][r].pc = "expire" /\ queue' = queue
    BY <1>3 DEF PublishRetryExpired, RunAt
  <2> DEFINE event == buildExpiredMessage(d.message)
  <2>2. event \in Event
    BY <1>1, <2>1, ExpiredMessageType
  <2>3. Reported(event)
    <3>1. event.status = None
      BY DEF buildExpiredMessage, buildEvent
    <3>2. None \notin {"delivered", "permanent-failure", "temporary-failure"}
      BY StatusSets DEF notifyStatuses
    <3> QED
      BY <3>1, <3>2 DEF Reported
  <2>4. topic' = topic \/ topic' = Append(topic, event)
    BY <1>3 DEF PublishRetryExpired, Publish
  <2> QED
    BY <2>1, <2>2, <2>3, <2>4
<1>4. CASE PublishRetry(p, r)
  <2>1. job[p][r].pc = "resend" /\ topic' = topic
    BY <1>4 DEF PublishRetry, RunAt
  <2> DEFINE e == [message |-> buildRetryMessage(d.message, d.id),
                   due |-> now + RetryDelay]
  <2>2. e.message.id = d.id /\ e.message.source = d.message.source
    BY <1>1, <2>1 DEF buildRetryMessage, Message
  <2>3. GivenUp(e)
    BY <1>1, <2>1, <2>2 DEF GivenUp, Tied, SameNotification
  <2>4. queue' = queue \/ queue' = queue \cup {e}
    BY <1>4 DEF PublishRetry, publishRetryRequest
  <2> QED
    BY <2>1, <2>3, <2>4
<1>5. \/ UNCHANGED <<queue, topic>>
      \/ PublishStatus(p, r) \/ PublishRetry(p, r) \/ PublishRetryExpired(p, r)
  BY DEF CronTick, RunStep, FetchPending, FinishRun, GetNotifyStatus,
         RecordStatus, CheckRetry, platform
<1> QED
  BY <1>2, <1>3, <1>4, <1>5

LEMMA SaysStep ==
  ASSUME StatusInv, TruthfulOutcome, RetryOnlyAfterFailure,
         [StatusNext]_jobVars
  PROVE  TruthfulOutcome' /\ RetryOnlyAfterFailure'
<1>1. /\ \A i \in DOMAIN topic : Reported(topic[i])
      /\ \A e \in queue : GivenUp(e)
      /\ topic \in Seq(Event)
  BY DEF TruthfulOutcome, RetryOnlyAfterFailure, Reported, GivenUp,
         StatusInv, JobInv, PlatformTypeOK
<1>2. SUFFICES /\ \A i \in DOMAIN topic' : Reported(topic[i])'
               /\ \A e \in queue' : GivenUp(e)'
  BY DEF TruthfulOutcome, RetryOnlyAfterFailure, Reported, GivenUp
<1>3. ASSUME NEW p \in Processes, NEW r \in Runs,
             CronTick(p, r) \/ RunStep(p, r)
      PROVE  /\ \A i \in DOMAIN topic' : Reported(topic[i])'
             /\ \A e \in queue' : GivenUp(e)'
  <2>1. LogKept /\ EmailsKept
    BY <1>3, RunAround DEF EmailsKept, StatusInv
  <2>2. /\ topic' = topic \/ \E e \in Event :
                               Reported(e) /\ topic' = Append(topic, e)
        /\ queue' = queue \/ \E e :
                               GivenUp(e) /\ queue' = queue \cup {e}
    BY <1>3, RunSays DEF StatusInv
  <2>3. ASSUME NEW i \in DOMAIN topic'
        PROVE  Reported(topic[i])'
    <3>1. PICK e : e = topic'[i]
      OBVIOUS
    <3>2. Reported(e)
      BY <1>1, <2>2, <2>3, <3>1
    <3>3. Reported(e)'
      BY <2>1, <3>2, ReportedKept
    <3> QED
      BY <3>1, <3>3 DEF Reported
  <2>4. ASSUME NEW e \in queue'
        PROVE  GivenUp(e)'
    <3>1. GivenUp(e)
      BY <1>1, <2>2, <2>4
    <3> QED
      BY <2>1, <3>1, GivenUpKept
  <2> QED
    BY <2>3, <2>4
<1>4. ASSUME LogKept, EmailsKept, UNCHANGED <<queue, topic>>
      PROVE  /\ \A i \in DOMAIN topic' : Reported(topic[i])'
             /\ \A e \in queue' : GivenUp(e)'
  <2>1. ASSUME NEW i \in DOMAIN topic'
        PROVE  Reported(topic[i])'
    <3>1. PICK e : e = topic'[i]
      OBVIOUS
    <3>2. Reported(e)'
      BY <1>1, <1>4, <2>1, <3>1, ReportedKept
    <3> QED
      BY <3>1, <3>2 DEF Reported
  <2> QED
    BY <1>1, <1>4, <2>1, GivenUpKept
<1>5. CASE StatusEnvironment
  <2>1. UNCHANGED <<queue, topic>> /\ docs' = docs
    BY <1>5 DEF StatusEnvironment, Deliver, CatchUp, Replicate, Tick
  <2>2. EmailsKept
    BY <1>5, DeliverAround
    DEF StatusInv, StatusEnvironment, CatchUp, Replicate, Tick, EmailsKept
  <2> QED
    BY <1>4, <2>1, <2>2 DEF LogKept, SameNotification
<1>6. CASE (\E p \in Processes : CrashProcess(p)) \/ UNCHANGED jobVars
  BY <1>4, <1>6 DEF CrashProcess, jobVars, platform, LogKept, SameNotification, EmailsKept
<1> QED
  BY <1>3, <1>5, <1>6 DEF StatusNext, JobStep

LEMMA Says == StatusSpec => [](TruthfulOutcome /\ RetryOnlyAfterFailure)
<1>1. StatusInit => TruthfulOutcome /\ RetryOnlyAfterFailure
  BY DEF StatusInit, TruthfulOutcome, RetryOnlyAfterFailure
<1>2. StatusInv /\ (TruthfulOutcome /\ RetryOnlyAfterFailure)
        /\ [StatusNext]_jobVars => (TruthfulOutcome /\ RetryOnlyAfterFailure)'
  BY SaysStep
<1> QED
  BY <1>1, <1>2, StatusInvariant, PTL DEF StatusSpec

(* Subscribers hear of a delivery or of a failure at the provider only     *)
(* what Notify reported of an email of that very message, however late the *)
(* run looks and however many processes run the job.                       *)
THEOREM OnlyWhatNotifySaid == StatusSpec => []TruthfulOutcome
BY Says, PTL

(* No retry is queued while the email it stands in for may still arrive.   *)
THEOREM NoHastyRetry == StatusSpec => []RetryOnlyAfterFailure
BY Says, PTL
=============================================================================
