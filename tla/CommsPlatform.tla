--------------------------- MODULE CommsPlatform ----------------------------
(***************************************************************************)
(* What the service's processes share: the notification log, the SQS       *)
(* request queue, the SNS topic, GOV.UK Notify and the clock; and the      *)
(* steps of the services outside, modelled from how src/ uses them.        *)
(***************************************************************************)
EXTENDS NotificationLog, Sequences

CONSTANTS
  Processes,    \* running instances of the service
  MaxTime,      \* bound: past it the clock runs only to end a message's delay
  MaxEvents,    \* bound: with so many events published, nothing more goes wrong
  MaxTechnical  \* bound: technical failures Notify reports

VARIABLES
  queue,    \* SQS: the messages not yet deleted, a set of entries
  topic,    \* SNS: the events published so far, in order
  emails,   \* Notify: the emails it accepted; the index is the notification id
  now,      \* the clock
  faulted   \* history: the messages whose handling met a fault

platform == <<docs, replica, queue, topic, emails, now, faulted>>

(* due: the time from which SQS may deliver the message (DelaySeconds). *)
Entry == [message : Message, due : Nat]

ASSUME PlatformAssumption ==
  /\ Processes # {}
  /\ MaxTime \in Nat
  /\ MaxEvents \in Nat
  /\ MaxTechnical \in Nat
  /\ None \notin Entry

notifyFinal == {"delivered", "permanent-failure", "temporary-failure",
                "technical-failure"}

Email == [message : Message, reference : Uuids \cup {None},
          status : publishedStatus \cup notifyFinal]

PlatformTypeOK ==
  /\ docs \subseteq Doc
  /\ replica \subseteq Doc
  /\ queue \subseteq Entry
  /\ topic \in Seq(Event)
  /\ emails \in Seq(Email)
  /\ now \in Nat
  /\ faulted \subseteq Message

PlatformInit ==
  /\ docs = {}
  /\ replica = {}
  /\ queue = {}
  /\ topic = << >>
  /\ emails = << >>
  /\ now = 0
  /\ faulted = {}

-----------------------------------------------------------------------------
(* Every publisher catches and logs what publish throws: an event is lost  *)
(* at most, and its caller goes on.                                        *)
Publish(event) ==
  \/ topic' = Append(topic, event)
  \/ "sns" \in Faults /\ UNCHANGED topic

(* The handling of m meets a fault. *)
Fault(m) == faulted' = faulted \cup {m}

(* Mutant: the delay is not set. *)
publishRetryUndelayed(m, retryId) ==
  /\ queue' = queue \cup {[message |-> buildRetryMessage(m, retryId),
                           due |-> now]}
  /\ UNCHANGED faulted

(* The retry goes to the back of the request queue, delayed; SQS refuses a *)
(* delay beyond its limit, and an error is caught and logged.              *)
publishRetryRequest(m, retryId) ==
  LET retry == [message |-> buildRetryMessage(m, retryId),
                due |-> now + RetryDelay]
  IN \/ /\ RetryDelay <= MaxSqsDelay
        /\ queue' = queue \cup {retry}
        /\ UNCHANGED faulted
     \/ /\ RetryDelay > MaxSqsDelay \/ "sqs" \in Faults
        /\ UNCHANGED queue
        /\ Fault(m)

(* Notify takes the email: it will try to deliver it, whatever the caller  *)
(* gets to know of it.                                                     *)
AcceptEmail(m) ==
  emails' = Append(emails, [message |-> m, reference |-> CorrelationOf(m),
                            status |-> "created"])

-----------------------------------------------------------------------------
(* The bound on what the environment may add: redeliveries, failed deletes *)
(* and crashes end, and of the publishers only those go on whose requests  *)
(* are valid (a repeated one publishes nothing).                           *)
Room == Len(topic) < MaxEvents

(* A publisher sends a request, for the first time or again. *)
Submit(m) ==
  LET entry == [message |-> m, due |-> 0] IN
  /\ Room \/ v1(m)
  /\ entry \notin queue
  /\ queue' = queue \cup {entry}
  /\ UNCHANGED <<docs, replica, topic, emails, now, faulted>>

(* Notify works on an email until its status is final. *)
Deliver(n) ==
  /\ emails[n].status \notin notifyFinal
  /\ \E s \in (publishedStatus \ {emails[n].status, "created"}) \cup notifyFinal :
       /\ s = "technical-failure" =>
            Cardinality({i \in DOMAIN emails :
              emails[i].status = "technical-failure"}) < MaxTechnical
       /\ emails' = [emails EXCEPT ![n].status = s]
  /\ UNCHANGED <<docs, replica, queue, topic, now, faulted>>

CatchUp == Replicate /\ UNCHANGED <<queue, topic, emails, now, faulted>>

Tick ==
  /\ now < MaxTime \/ \E e \in queue : e.due > now
  /\ now' = now + 1
  /\ UNCHANGED <<docs, replica, queue, topic, emails, faulted>>

-----------------------------------------------------------------------------
(* How log, emails and topic show what the service promises: the verdict   *)
(* on a request is the finished status of its document.  Events about      *)
(* messages that fail validation are about no accepted request.            *)
Verdicts ==
  {[message |-> d.message, status |-> d.status] :
     d \in {e \in docs : e.status \in finishedStatus}}

Announced ==
  {[message |-> topic[i].about, status |-> topic[i].status] :
     i \in {j \in DOMAIN topic :
            topic[j].status \in finishedStatus /\ v1(topic[j].about)}}

Lifecycle == INSTANCE NotificationLifecycle WITH
  accepted <- {d.message : d \in docs},
  outbox <- [n \in DOMAIN emails |-> emails[n].message],
  verdicts <- Verdicts,
  announced <- Announced

(* The service keeps the promises of NotificationLifecycle: every step of  *)
(* a consumer, a job, a crash or the world outside accepts, sends, settles *)
(* or announces one request as promised, or changes nothing a publisher or *)
(* subscriber could tell.                                                  *)
RefinesLifecycle == Lifecycle!Spec
=============================================================================
