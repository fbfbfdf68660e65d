-------------------------- MODULE NotificationLog ---------------------------
(***************************************************************************)
(* The MongoDB collection notificationRequests and its repository.         *)
(*                                                                         *)
(* The client reads from a secondary (readPreference) and writes to the    *)
(* primary without retrying: "docs" is the primary's collection, "replica" *)
(* a secondary that holds what the primary held at some earlier moment.    *)
(* A call that fails may or may not have been applied by the server.       *)
(***************************************************************************)
EXTENDS CommsTypes, FiniteSets

CONSTANT UniqueIndex   \* whether createIndex built the unique index

ASSUME IndexAssumption == UniqueIndex \in BOOLEAN

VARIABLES docs, replica

Doc == [id : Uuids, message : Message, createdAt : Nat,
        status : notifyStatuses, notificationId : Nat, completed : BOOLEAN]

Secondary == IF "lag" \in Faults THEN replica ELSE docs

Matching(collection, source, id) ==
  {d \in collection : d.message.source = source /\ d.message.id = id}

checkNotificationIdempotency(m) == Matching(Secondary, m.source, m.id) # {}

(* Mutant: the index is created without "unique". *)
DuplicateKeyUnenforced(m) == FALSE

(* insertOne on the primary violates the unique index on (id, source). *)
DuplicateKey(m) == UniqueIndex /\ Matching(docs, m.source, m.id) # {}

FreshUuids == Uuids \ ({d.id : d \in docs} \cup {m.id : m \in Requests}
                       \cup {m.correlationId : m \in Requests})

addNotificationRequest(m, time) ==
  \E uuid \in FreshUuids :
    docs' = docs \cup {[id |-> uuid, message |-> m, createdAt |-> time,
                        status |-> "pending-publish", notificationId |-> 0,
                        completed |-> FALSE]}

(* Mutant: the filter of updateOne forgets the message id. *)
updateNotificationStatusOfAny(m, status, notificationId) ==
  \E d \in {e \in docs : e.message.source = m.source} :
    docs' = (docs \ {d}) \cup
              {[d EXCEPT !.status = status,
                         !.notificationId = IF notificationId = 0
                                            THEN @ ELSE notificationId,
                         !.completed = status \in finishedStatus]}

(* updateOne changes one document with the message's key, if there is one; *)
(* a notification id that is not given is left as it is.                   *)
updateNotificationStatus(m, status, notificationId) ==
  \/ Matching(docs, m.source, m.id) = {} /\ UNCHANGED docs
  \/ \E d \in Matching(docs, m.source, m.id) :
       docs' = (docs \ {d}) \cup
                 {[d EXCEPT !.status = status,
                            !.notificationId = IF notificationId = 0
                                               THEN @ ELSE notificationId,
                            !.completed = status \in finishedStatus]}

getOriginalNotificationRequest(source, id) == Matching(Secondary, source, id)

(* Mutant: only one of the published statuses is looked at. *)
getPendingCreated == {d \in Secondary : d.status = "created"}

getPendingNotifications == {d \in Secondary : d.status \in publishedStatus}

(* Replication catches up with the primary. *)
Replicate ==
  /\ "lag" \in Faults
  /\ replica # docs
  /\ replica' = docs
  /\ UNCHANGED docs
=============================================================================
