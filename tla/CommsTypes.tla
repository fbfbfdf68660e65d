----------------------------- MODULE CommsTypes -----------------------------
(***************************************************************************)
(* The vocabulary of the comms service: statuses, events, messages, the    *)
(* retry window and the configuration.  No state.                          *)
(*                                                                         *)
(* A message is abstracted to what the control flow looks at: its          *)
(* idempotency key (source, id), its type, its correlation id and whether  *)
(* its body parses and satisfies the v1 schema.  Template, recipient and   *)
(* personalisation travel unchanged from request to Notify and to every    *)
(* event and are left out.                                                 *)
(***************************************************************************)
EXTENDS Integers

CONSTANTS
  Uuids,        \* ids publishers choose and _ids the service draws
  None,         \* an absent id, or an absent record (undefined in the code)
  Sources,      \* values of message.source
  Requests,     \* the messages publishers may put on the request queue
  RetryDelay,   \* notify.retries.retryDelay, in clock units
  TemporaryFailureTimeout,  \* notify.retries.temporaryFailureTimeout
  MaxSqsDelay,  \* the longest DelaySeconds SQS accepts (900 s)
  Faults        \* which environment faults a model admits

notifyStatuses == {"pending-publish", "created", "sending", "delivered",
                   "permanent-failure", "temporary-failure",
                   "technical-failure", "internal-failure",
                   "validation-failure"}

publishedStatus == {"created", "sending"}

finishedStatus == {"delivered", "internal-failure", "temporary-failure",
                   "permanent-failure", "technical-failure",
                   "validation-failure"}

retryableStatus == {"temporary-failure", "technical-failure"}

statusToEventMap ==
  [s \in notifyStatuses |->
     CASE s \in {"permanent-failure", "temporary-failure",
                 "technical-failure"}   -> "failure.provider"
       [] s = "validation-failure"      -> "failure.validation"
       [] s = "internal-failure"        -> "failure.internal"
       [] s = "delivered"               -> "delivered"
       [] s \in {"sending", "created"}  -> "sending"
       [] s = "pending-publish"         -> "received"]

(* The events of commsEvents the service publishes; "request" is inbound.  *)
publishedEvents == {"received", "retry", "sending", "delivered",
                    "failure.validation", "failure.internal",
                    "failure.provider", "retry.expired"}

-----------------------------------------------------------------------------
Message == [id : Uuids \cup {None},
            source : Sources,
            type : {"request", "retry", "other"},
            correlationId : Uuids \cup {None},
            body : {"ok", "invalid", "unparseable"}]

(* The Joi schema v1: every required field is there and well formed; the   *)
(* id is one of them, the correlation id is optional.                      *)
v1(m) == m.body = "ok" /\ m.id # None

processorMap == {"request", "retry"}

SameKey(m1, m2) == m1.source = m2.source /\ m1.id = m2.id

(* data.correlationId || message.id *)
CorrelationOf(m) == IF m.correlationId # None THEN m.correlationId ELSE m.id

(* An event names its request by correlation id only; "about" is a history *)
(* field, the message the event was built from.                            *)
Event == [type : publishedEvents, correlationId : Uuids \cup {None},
          status : notifyStatuses \cup {None}, about : Message]

buildEvent(m, type, status) ==
  [type |-> type, correlationId |-> CorrelationOf(m),
   status |-> status, about |-> m]

(* Mutant: the status itself as the type of the event. *)
buildUnmappedMessage(m, status) == buildEvent(m, status, status)

buildUpdateMessage(m, status) == buildEvent(m, statusToEventMap[status], status)

(* Mutant: the type of the inbound message is published. *)
buildReceivedOwnType(m) == buildEvent(m, m.type, None)

buildReceivedMessage(m) ==
  buildEvent(m, IF m.type = "retry" THEN "retry" ELSE "received", None)

buildInvalidMessage(m) ==
  buildEvent(m, "failure.validation", "validation-failure")

buildExpiredMessage(m) == buildEvent(m, "retry.expired", None)

(* JSON.stringify drops an undefined id, hence retryId = None is a message *)
(* without id.                                                             *)
buildRetryMessage(m, retryId) ==
  [m EXCEPT !.id = retryId, !.type = "retry",
            !.correlationId = CorrelationOf(m)]

-----------------------------------------------------------------------------
(* A technical failure is always retried; a temporary one when the retry   *)
(* would still start before the window counted from the first request ends.*)
checkRetryable(status, requestTime, clock) ==
  \/ status = "technical-failure"
  \/ clock + RetryDelay < requestTime + TemporaryFailureTimeout

ASSUME TypesAssumption ==
  /\ None \notin Uuids \cup notifyStatuses
  /\ Requests \subseteq Message
  /\ RetryDelay \in Nat
  /\ TemporaryFailureTimeout \in Nat
  /\ MaxSqsDelay \in Nat
  /\ Faults \subseteq {"db", "lag", "sns", "sqs", "notify", "redelivery",
                       "crash"}
=============================================================================
