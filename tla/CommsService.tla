---------------------------- MODULE CommsService ----------------------------
(***************************************************************************)
(* The whole service: in every process a consumer and a status check job   *)
(* over one notification log, queue and topic, with GOV.UK Notify, the     *)
(* publishers, the clock and crashes around them.                          *)
(***************************************************************************)
EXTENDS CommsRequest, StatusCheck

serviceVars == <<platform, consumer, mutex, job>>

Crash(p) ==
  /\ "crash" \in Faults /\ Room
  /\ consumer[p] # Idle \/ mutex[p]
  /\ consumer' = [consumer EXCEPT ![p] = Idle]
  /\ CrashJob(p)
  /\ faulted' = faulted \cup InHand(p) \cup
                (IF consumer[p].current = None THEN {} ELSE {Current(p)})
  /\ UNCHANGED <<docs, replica, queue, topic, emails, now>>

Environment ==
  /\ \/ \E m \in Requests : Submit(m)
     \/ \E n \in DOMAIN emails : Deliver(n)
     \/ CatchUp
     \/ Tick
  /\ UNCHANGED <<consumer, mutex, job>>

ServiceInit == PlatformInit /\ ConsumerInit /\ JobInit

ServiceNext ==
  \/ \E p \in Processes :
       \/ ConsumerStep(p) /\ UNCHANGED <<mutex, job>>
       \/ JobStep(p) /\ UNCHANGED consumer
       \/ Crash(p)
  \/ Environment

ServiceSpec == ServiceInit /\ [][ServiceNext]_serviceVars

-----------------------------------------------------------------------------
(* A customer is sent a second email for one request of a publisher only   *)
(* after Notify gave up on the first for a reason worth a retry: consumer, *)
(* job, redeliveries, crashes and stale reads never have two emails of one *)
(* chain of retries on the way or delivered.                               *)
OneLiveEmailPerRequest ==
  \A i, j \in DOMAIN emails :
    /\ i < j
    /\ emails[i].message.source = emails[j].message.source
    /\ emails[i].reference = emails[j].reference
    => emails[i].status \in retryableStatus

(* Temporary failures are retried at intervals of the retry delay within   *)
(* one window that starts with the first request: the number of emails in  *)
(* a chain is bounded, technical failures (retried without end) apart.     *)
RetriesBounded ==
  \A i \in DOMAIN emails :
    LET sameChain == {j \in DOMAIN emails :
          /\ emails[j].message.source = emails[i].message.source
          /\ emails[j].reference = emails[i].reference}
        technical == {j \in sameChain : emails[j].status = "technical-failure"}
    IN Cardinality(sameChain) <=
         1 + Cardinality(technical) + (TemporaryFailureTimeout - 1) \div RetryDelay

(* A retry is logged, hence sent, at least the retry delay after the       *)
(* notification it repeats was.                                            *)
RetryNotEarly ==
  \A d, child \in docs :
    child.message.type = "retry" /\ child.message.id = d.id =>
      child.createdAt >= d.createdAt + RetryDelay

(* Subscribers are never told two different outcomes of one valid message, *)
(* whatever number of instances work on it: a job that sees a failure late *)
(* or again announces what another announced, and what a consumer gave up  *)
(* on no job ever finds an outcome of.                                     *)
OneOutcomeTold ==
  \A i, j \in DOMAIN topic :
    /\ topic[i].about = topic[j].about /\ v1(topic[i].about)
    /\ topic[i].status \in finishedStatus /\ topic[j].status \in finishedStatus
    => topic[i].status = topic[j].status

(* Of one message subscribers see one final outcome at most, from consumer *)
(* and job together (as long as the job does not read stale data).         *)
FinalEventOnce ==
  \A i, j \in DOMAIN topic :
    /\ topic[i].about = topic[j].about
    /\ topic[i].status \in finishedStatus /\ topic[j].status \in finishedStatus
    => topic[i].status = topic[j].status /\ (v1(topic[i].about) => i = j)

(* Without faults every valid request of a publisher ends in an event that *)
(* says so: delivered, a failure that is not retried, or retries expired;  *)
(* through any number of retries.  A 5xx answer to sendEmail counts as an  *)
(* end too: its retry message is invalid (RetryHasId).                     *)
SettlingEvent(e) ==
  \/ e.type = "retry.expired"
  \/ e.status \in {"delivered", "permanent-failure", "internal-failure"}
  \/ e.status = "technical-failure" /\ \E f \in {topic[i] : i \in DOMAIN topic} :
       f.about.id = None /\ f.correlationId = e.correlationId

EveryRequestSettled ==
  \A m \in Requests :
    ([message |-> m, due |-> 0] \in queue /\ v1(m))
      ~> \E i \in DOMAIN topic :
           topic[i].correlationId = CorrelationOf(m) /\ SettlingEvent(topic[i])

-----------------------------------------------------------------------------
(* A poll that brings messages with this id. *)
Receive(id) ==
  \E p \in Processes :
    Poll(p) /\ \E e \in consumer'[p].batch : e.message.id = id

(* Both loops of every process go on: the event loop runs every pending    *)
(* continuation, replies arrive.  SQS does not withhold one message for    *)
(* ever while others are received; the outside world answers, time passes. *)
ServiceFairness ==
  /\ \A p \in Processes :
       /\ WF_serviceVars(ConsumerStep(p) /\ UNCHANGED <<mutex, job>>)
       /\ WF_serviceVars(JobStep(p) /\ UNCHANGED consumer)
  /\ \A id \in Uuids \cup {None} :
       SF_serviceVars(Receive(id) /\ UNCHANGED <<mutex, job>>)
  /\ \A n \in 1..Cardinality(Uuids) :
       WF_serviceVars(n \in DOMAIN emails /\ Deliver(n)
                        /\ UNCHANGED <<consumer, mutex, job>>)
  /\ WF_serviceVars(CatchUp /\ UNCHANGED <<consumer, mutex, job>>)
  /\ WF_serviceVars(Tick /\ UNCHANGED <<consumer, mutex, job>>)

FairServiceSpec == ServiceSpec /\ ServiceFairness
=============================================================================
