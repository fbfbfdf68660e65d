-------------------------- MODULE ServiceLifetime ---------------------------
(***************************************************************************)
(* The life of the processes: index.js starts the server, builds the       *)
(* index, starts consumer and cron and registers what stops them, in that  *)
(* order; a signal stops them and ends the process without waiting for a   *)
(* batch or a run.                                                         *)
(* The platform starts a process again, and SQS, which counts how often it *)
(* handed out a message, moves it to the dead letter queue at last.        *)
(***************************************************************************)
EXTENDS CommsService, Bags, Functions

CONSTANTS
  MaxReceives,  \* maxReceiveCount of the queue's redrive policy
  MaxMishaps    \* bound: with so many mishaps no process ends unforced

ASSUME LifetimeAssumption == MaxReceives \in Nat \ {0} /\ MaxMishaps \in Nat

VARIABLES
  phase,        \* how far each process is in its life
  server,       \* what startServer returned in it
  receives,     \* SQS: how often each message was handed out, a bag
  deadLetters,  \* SQS: the dead letter queue
  mishaps       \* history: how often what was in hand may come back

lifetimeVars == <<serviceVars, phase, server, receives, deadLetters, mishaps>>

Phases == {"down", "indexing", "started", "running", "stopping", "stopped"}

(* Mutant: startMessaging comes before "await setupNotificationIndexes()". *)
LoopsOnEarly(p) == phase[p] \in {"indexing", "started", "running", "stopping"}

(* The consumer may receive: it was started and not yet stopped, or a      *)
(* receive was under way when it was.                                      *)
LoopsOn(p) == phase[p] \in {"started", "running", "stopping"}

(* Types, and no process that has yet to start its loops holds a message   *)
(* or a run.                                                               *)
LifetimeTypeOK ==
  /\ phase \in [Processes -> Phases]
  /\ server \in [Processes -> {"undefined", "created"}]
  /\ IsABag(receives)
  /\ deadLetters \subseteq Entry
  /\ mishaps \in Nat
  /\ \A p \in Processes : phase[p] \in {"down", "indexing"} =>
       consumer[p] = Idle /\ ~mutex[p]

(* The process is gone, and with it the batch and the run it was at: the   *)
(* messages it held stay in the queue, what it was handling stops half-way.*)
Gone(p) ==
  /\ mishaps' = mishaps + 1
  /\ phase' = [phase EXCEPT ![p] = "down"]
  /\ server' = [server EXCEPT ![p] = "undefined"]
  /\ consumer' = [consumer EXCEPT ![p] = Idle]
  /\ CrashJob(p)
  /\ faulted' = faulted \cup InHand(p) \cup
                (IF consumer[p].current = None THEN {} ELSE {Current(p)})
  /\ UNCHANGED <<docs, replica, queue, topic, emails, now, receives,
                 deadLetters>>

(* startServer logs an error and returns what it has: nothing if the       *)
(* server could not be created, a server if only its start failed.         *)
StartServer(p) ==
  /\ phase[p] = "down"
  /\ \E s \in {"undefined", "created"} :
       /\ s = "undefined" => mishaps < MaxMishaps
       /\ server' = [server EXCEPT ![p] = s]
  /\ phase' = [phase EXCEPT ![p] = "indexing"]
  /\ UNCHANGED <<serviceVars, receives, deadLetters, mishaps>>

(* The index is built, or its failure logged; consumer and cron start,     *)
(* whatever became of the server.                                          *)
StartLoops(p) ==
  /\ phase[p] = "indexing"
  /\ phase' = [phase EXCEPT ![p] = "started"]
  /\ UNCHANGED <<serviceVars, server, receives, deadLetters, mishaps>>

(* The stop handler is registered; server.events of an undefined server    *)
(* throws and ends the process.  Nothing is awaited since the loops were   *)
(* started: SQS may have handed out a batch, but nobody has looked at it.  *)
RegisterStop(p) ==
  /\ phase[p] = "started"
  /\ \/ /\ server[p] = "created"
        /\ phase' = [phase EXCEPT ![p] = "running"]
        /\ UNCHANGED <<serviceVars, server, receives, deadLetters, mishaps>>
     \/ server[p] = "undefined" /\ Gone(p)

(* The stop event: consumer.stop and cron.stop return at once.  A receive  *)
(* that is under way when the consumer is idle may still bring a batch.    *)
StopLoops(p) ==
  /\ phase[p] = "running" /\ mishaps < MaxMishaps
  /\ phase' = [phase EXCEPT ![p] = IF At(p, "idle") THEN "stopping"
                                                    ELSE "stopped"]
  /\ UNCHANGED <<serviceVars, server, receives, deadLetters, mishaps>>

(* hapi-pulse calls process.exit once the server has stopped; or the       *)
(* process dies of something else, at any moment.                          *)
Exit(p) ==
  /\ phase[p] # "down"
  /\ mishaps < MaxMishaps \/ phase[p] \in {"stopping", "stopped"}
  /\ Gone(p)

-----------------------------------------------------------------------------
(* How often SQS has handed out e. *)
Handouts(e) == IF BagIn(e, receives) THEN receives[e] ELSE 0

(* What SQS knows of messages that left the queue is forgotten. *)
Counted(bag) == receives' = Restrict(bag, DOMAIN bag \cap queue')

(* A message that some process still holds comes back, or a message that   *)
(* was to be deleted does: the visibility timeout ran out, the delete      *)
(* failed.  That is a mishap, as the end of a process is.                  *)
InSomeHand(e) == \E p \in Processes : e \in Held(p)

Mishap(happened) ==
  IF happened THEN mishaps < MaxMishaps /\ mishaps' = mishaps + 1
              ELSE UNCHANGED mishaps

(* Mutant: the messages are deleted when they are received. *)
ReceiveDeleting(p) ==
  /\ LoopsOn(p) /\ At(p, "idle")
  /\ \E batch \in SUBSET Receivable :
       /\ batch # {} /\ Cardinality(batch) <= BatchSize
       /\ consumer' = [consumer EXCEPT ![p].pc = "next", ![p].batch = batch]
       /\ queue' = queue \ batch
       /\ Counted(receives)
  /\ UNCHANGED <<docs, replica, topic, emails, now, faulted>>
  /\ UNCHANGED <<mutex, job, phase, server, deadLetters, mishaps>>

ReceiveBatch(p) ==
  /\ LoopsOn(p)
  /\ Poll(p)
  /\ \A e \in consumer'[p].batch : Handouts(e) < MaxReceives
  /\ Mishap(\E e \in consumer'[p].batch : InSomeHand(e))
  /\ Counted(receives (+) SetToBag(consumer'[p].batch))
  /\ phase' = [phase EXCEPT ![p] = IF @ = "stopping" THEN "stopped" ELSE @]
  /\ UNCHANGED <<mutex, job, server, deadLetters>>

(* A batch and a run under way go on as long as the process lives. *)
WorkBatch(p) ==
  /\ phase[p] # "started" /\ ~At(p, "idle")
  /\ ConsumerStep(p)
  /\ Mishap(At(p, "next") /\ consumer[p].batch = {}
              /\ consumer[p].completed \cap queue' # {})
  /\ Counted(receives)
  /\ UNCHANGED <<mutex, job, phase, server, deadLetters>>

WorkJob(p) ==
  /\ \E r \in Runs : \/ phase[p] = "running" /\ CronTick(p, r)
                     \/ RunStep(p, r)
  /\ Counted(receives)
  /\ UNCHANGED <<consumer, phase, server, deadLetters, mishaps>>

(* Instead of handing a message out once more than the policy allows. *)
DeadLetter(e) ==
  /\ e \in Receivable
  /\ Handouts(e) >= MaxReceives
  /\ Mishap(InSomeHand(e))
  /\ queue' = queue \ {e}
  /\ deadLetters' = deadLetters \cup {e}
  /\ Counted(receives)
  /\ UNCHANGED <<docs, replica, topic, emails, now, faulted>>
  /\ UNCHANGED <<consumer, mutex, job, phase, server>>

LifetimeEnvironment ==
  /\ Environment
  /\ Counted(receives)
  /\ UNCHANGED <<phase, server, deadLetters, mishaps>>

LifetimeInit ==
  /\ ServiceInit
  /\ phase = [p \in Processes |-> "down"]
  /\ server = [p \in Processes |-> "undefined"]
  /\ receives = EmptyBag
  /\ deadLetters = {}
  /\ mishaps = 0

LifetimeNext ==
  \/ \E p \in Processes :
       \/ StartServer(p) \/ StartLoops(p) \/ RegisterStop(p)
       \/ StopLoops(p) \/ Exit(p)
       \/ ReceiveBatch(p) \/ WorkBatch(p) \/ WorkJob(p)
  \/ \E e \in queue : DeadLetter(e)
  \/ LifetimeEnvironment

LifetimeSpec == LifetimeInit /\ [][LifetimeNext]_lifetimeVars

-----------------------------------------------------------------------------
(* Processes that end in the middle of a batch, while they stop or before  *)
(* they ever run lose no valid request: what leaves the queue is in the    *)
(* log or in the dead letter queue.                                        *)
KeptAcrossRestarts ==
  [][\A e \in queue \ queue' :
       v1(e.message) =>
         \/ e \in deadLetters'
         \/ \E d \in docs : SameKey(d.message, e.message)]_lifetimeVars

(* Every message is completed whatever happens to it: none that cannot be  *)
(* parsed, validated or processed comes back on its own account.  SQS      *)
(* gives one up only after as many mishaps as it may be handed out:        *)
(* processes that end, deletes that fail, timeouts that run out meanwhile. *)
DeadLettersNeedMishaps == deadLetters # {} => mishaps >= MaxReceives

(* Once the processes stay up every valid request is answered for: sent or *)
(* failed, unless a process ended over it, or in the dead letter queue.    *)
AnsweredForAcrossRestarts ==
  \A m \in {r \in Requests : v1(r)} :
    LET entry == [message |-> m, due |-> 0] IN
    entry \in queue ~>
      \/ entry \in deadLetters
      \/ \E d \in docs : /\ SameKey(d.message, m)
                         /\ d.status # "pending-publish" \/ d.message \in faulted

Forgotten(n) ==
  /\ n \in DOMAIN emails /\ emails[n].message \in faulted
  /\ \A d \in docs : d.notificationId # n

(* An email that Notify took is followed up to its end by whichever        *)
(* process lives, the mutex of one that died with a run under way          *)
(* notwithstanding.  Exempt is the email of a process that ended after     *)
(* sendEmail and before the log had its notification id: nobody ever knows *)
(* of it again.                                                            *)
FollowedUpAcrossRestarts ==
  \A n \in 1..Cardinality(Uuids) :
    n \in DOMAIN emails ~>
      \/ \E d \in docs : d.notificationId = n /\ d.status \in finishedStatus
      \/ []Forgotten(n)

NothingElse == UNCHANGED <<consumer, mutex, job, phase, server, receives,
                           deadLetters, mishaps>>

(* The platform starts processes again; the rest as in ServiceFairness.    *)
LifetimeFairness ==
  /\ \A p \in Processes :
       /\ WF_lifetimeVars(StartServer(p))
       /\ WF_lifetimeVars(StartLoops(p))
       /\ WF_lifetimeVars(RegisterStop(p))
       /\ WF_lifetimeVars(WorkBatch(p))
       /\ WF_lifetimeVars(WorkJob(p))
       /\ WF_lifetimeVars(phase[p] \in {"stopping", "stopped"} /\ Exit(p))
  /\ \A id \in Uuids \cup {None} :
       SF_lifetimeVars(\E p \in Processes :
         ReceiveBatch(p) /\ \E e \in consumer'[p].batch : e.message.id = id)
  /\ \A e \in {[message |-> m, due |-> 0] : m \in Requests} :
       WF_lifetimeVars(e \in queue /\ DeadLetter(e))
  /\ \A n \in 1..Cardinality(Uuids) :
       WF_lifetimeVars(n \in DOMAIN emails /\ Deliver(n) /\ NothingElse)
  /\ WF_lifetimeVars(Tick /\ NothingElse)

FairLifetimeSpec == LifetimeSpec /\ LifetimeFairness
=============================================================================
