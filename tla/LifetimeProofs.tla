--------------------------- MODULE LifetimeProofs ---------------------------
(***************************************************************************)
(* Theorems about processes that start, stop and end, for every number of  *)
(* processes, messages, deliveries and ends of processes: no process works *)
(* that has not started its loops, no message gets to the dead letter      *)
(* queue on its own account, and what the service promises it keeps across *)
(* restarts.                                                               *)
(***************************************************************************)
EXTENDS ServiceLifetime, OutcomeProofs

-----------------------------------------------------------------------------
(* The steps of the processes are those of the service; SQS takes messages *)
(* away besides.                                                           *)

LEMMA LifetimeStep ==
  ASSUME [LifetimeNext]_lifetimeVars
  PROVE  ServiceStep
<1>1. ASSUME UNCHANGED serviceVars
      PROVE  ServiceStep
  BY <1>1 DEF ServiceStep, QueueShrinksOnly, serviceVars, platform
<1>2. ASSUME NEW p \in Processes, Gone(p)
      PROVE  ServiceStep
  BY <1>2 DEF Gone, ServiceStep, Ends
<1>3. ASSUME NEW p \in Processes,
             \/ StartServer(p) \/ StartLoops(p) \/ RegisterStop(p)
             \/ StopLoops(p) \/ Exit(p)
      PROVE  ServiceStep
  BY <1>1, <1>2, <1>3
  DEF StartServer, StartLoops, RegisterStop, StopLoops, Exit
<1>4. ASSUME NEW p \in Processes, ReceiveBatch(p) \/ WorkBatch(p)
      PROVE  ServiceStep
  BY <1>4 DEF ReceiveBatch, WorkBatch, ServiceStep, ConsumerMoves, ConsumerStep
<1>5. ASSUME NEW p \in Processes, WorkJob(p)
      PROVE  ServiceStep
  BY <1>5 DEF WorkJob, ServiceStep, RunMoves
<1>6. ASSUME NEW e \in queue, DeadLetter(e)
      PROVE  ServiceStep
  BY <1>6 DEF DeadLetter, ServiceStep, QueueShrinksOnly
<1>7. CASE LifetimeEnvironment
  BY <1>7 DEF LifetimeEnvironment, ServiceStep
<1> QED
  BY <1>1, <1>3, <1>4, <1>5, <1>6, <1>7 DEF LifetimeNext, lifetimeVars

LEMMA LogAcrossRestarts ==
  KeysGuarded => (LifetimeSpec => []LogInv)
<1> SUFFICES ASSUME KeysGuarded
             PROVE  LifetimeSpec => []LogInv
  OBVIOUS
<1>1. LifetimeInit => LogInv
  BY LogInvInit DEF LifetimeInit
<1>2. LogInv /\ [LifetimeNext]_lifetimeVars => LogInv'
  BY LogInvStep, LifetimeStep
<1> QED
  BY <1>1, <1>2, PTL DEF LifetimeSpec

-----------------------------------------------------------------------------
(* A process works only between its start and its end.                     *)

AtRest(p) == consumer[p] = Idle /\ ~mutex[p]

Started(p) == phase[p] \notin {"down", "indexing"}

LifeInv ==
  /\ OneRunAtATime
  /\ phase \in [Processes -> Phases]
  /\ server \in [Processes -> {"undefined", "created"}]
  /\ \A p \in Processes : ~Started(p) => AtRest(p)

RestElsewhere(p) == \A q \in Processes \ {p} : AtRest(q) => AtRest(q)'

LEMMA RestApart ==
  ASSUME KeysGuarded, LogInv, NEW p \in Processes,
         \/ ConsumerMoves(p)
         \/ \E r \in Runs : RunMoves(p, r)
         \/ Gone(p)
  PROVE  RestElsewhere(p)
<1>1. CASE ConsumerMoves(p)
  BY <1>1, ConsumerEffect
  DEF LogInv, PipelineInv, ConsumerMoves, Others, AtRest, RestElsewhere
<1>2. ASSUME NEW r \in Runs, RunMoves(p, r)
      PROVE  RestElsewhere(p)
  <2>1. PICK c : MutexKind(p, r, c)
    BY <1>2, RunChange DEF LogInv, RunMoves, Becomes
  <2> QED
    BY <1>2, <2>1
    DEF MutexKind, LogInv, JobInv, RunMoves, AtRest, RestElsewhere
<1>3. CASE Gone(p)
  BY <1>3 DEF Gone, CrashJob, LogInv, JobInv, RequestTypeOK, AtRest,
              RestElsewhere
<1> QED
  BY <1>1, <1>2, <1>3

(* A process that does not rest was started.                               *)
LEMMA WorkNeedsStart ==
  ASSUME LogInv, LifeInv, NEW p \in Processes,
         \/ WorkBatch(p) \/ ReceiveBatch(p) \/ WorkJob(p)
  PROVE  Started(p)
<1>1. CASE WorkBatch(p)
  BY <1>1 DEF WorkBatch, At, LifeInv, AtRest, Idle
<1>2. CASE ReceiveBatch(p)
  BY <1>2 DEF ReceiveBatch, LoopsOn, Started
<1>3. ASSUME NEW r \in Runs, RunStep(p, r)
      PROVE  Started(p)
  <2>1. job[p][r].pc # "idle"
    BY <1>3 DEF RunStep, FetchPending, FinishRun, GetNotifyStatus,
                RecordStatus, PublishStatus, PublishAndRetryIf, CheckRetry,
                PublishRetry, PublishRetryExpired, RunAt
  <2>2. mutex[p]
    BY <2>1 DEF LifeInv, OneRunAtATime
  <2> QED
    BY <2>2 DEF LifeInv, AtRest
<1> QED
  BY <1>1, <1>2, <1>3 DEF WorkJob, Started

LEMMA GoneRests ==
  ASSUME LogInv, LifeInv, NEW p \in Processes, Gone(p)
  PROVE  /\ AtRest(p)' /\ phase' = [phase EXCEPT ![p] = "down"]
         /\ server' = [server EXCEPT ![p] = "undefined"]
BY DEF Gone, CrashJob, AtRest, LogInv, JobInv, RequestTypeOK

LEMMA LifeStep ==
  ASSUME KeysGuarded, LogInv, LifeInv, [LifetimeNext]_lifetimeVars
  PROVE  LifeInv'
<1>1. OneRunAtATime'
  BY LifetimeStep, MutexStep DEF LifeInv
<1>2. ASSUME NEW p \in Processes,
             WorkBatch(p) \/ ReceiveBatch(p) \/ WorkJob(p)
      PROVE  LifeInv'
  <2>1. Started(p) /\ server' = server
    BY <1>2, WorkNeedsStart DEF WorkBatch, ReceiveBatch, WorkJob
  <2>2. RestElsewhere(p)
    BY <1>2, RestApart
    DEF WorkBatch, ReceiveBatch, WorkJob, ConsumerMoves, ConsumerStep, RunMoves
  <2>3. \/ phase' = phase
        \/ phase' = [phase EXCEPT ![p] = IF @ = "stopping" THEN "stopped" ELSE @]
    BY <1>2 DEF WorkBatch, ReceiveBatch, WorkJob
  <2>4. /\ phase' \in [Processes -> Phases]
        /\ \A q \in Processes \ {p} : phase'[q] = phase[q]
        /\ phase'[p] \notin {"down", "indexing"}
    BY <2>1, <2>3 DEF LifeInv, Phases, Started
  <2> QED
    BY <1>1, <2>1, <2>2, <2>4 DEF LifeInv, Started, RestElsewhere
<1>3. ASSUME NEW p \in Processes, Gone(p)
      PROVE  LifeInv'
  <2>1. RestElsewhere(p)
    BY <1>3, RestApart
  <2>2. /\ AtRest(p)' /\ phase' = [phase EXCEPT ![p] = "down"]
        /\ server' = [server EXCEPT ![p] = "undefined"]
    BY <1>3, GoneRests
  <2> QED
    BY <1>1, <2>1, <2>2 DEF LifeInv, Started, RestElsewhere, Phases
<1>4. ASSUME NEW p \in Processes, UNCHANGED serviceVars,
             StartServer(p) \/ StartLoops(p) \/ RegisterStop(p) \/ StopLoops(p)
      PROVE  LifeInv'
  <2>1. \A q \in Processes : AtRest(q) => AtRest(q)'
    BY <1>4 DEF serviceVars, AtRest
  <2>2. CASE Gone(p)
    BY <1>3, <2>2
  <2> QED
    BY <1>1, <1>4, <2>1, <2>2
    DEF StartServer, StartLoops, RegisterStop, StopLoops, LifeInv, Started,
        Phases
<1>5. ASSUME UNCHANGED <<consumer, mutex, phase, server>>
      PROVE  LifeInv'
  BY <1>1, <1>5 DEF LifeInv, Started, AtRest
<1>6. ASSUME NEW p \in Processes,
             \/ StartServer(p) \/ StartLoops(p) \/ RegisterStop(p)
             \/ StopLoops(p) \/ Exit(p)
      PROVE  Gone(p) \/ UNCHANGED serviceVars
  BY <1>6 DEF StartServer, StartLoops, RegisterStop, StopLoops, Exit
<1>7. CASE \/ \E e \in queue : DeadLetter(e)
           \/ LifetimeEnvironment
           \/ UNCHANGED lifetimeVars
  BY <1>5, <1>7 DEF DeadLetter, LifetimeEnvironment, Environment, lifetimeVars,
                    serviceVars
<1> QED
  BY <1>2, <1>3, <1>4, <1>6, <1>7 DEF LifetimeNext, Exit

LEMMA LifeInvariant ==
  KeysGuarded => (LifetimeSpec => [](LogInv /\ LifeInv))
<1> SUFFICES ASSUME KeysGuarded
             PROVE  LifetimeSpec => [](LogInv /\ LifeInv)
  OBVIOUS
<1>1. LifetimeInit => LifeInv
  BY DEF LifetimeInit, ServiceInit, ConsumerInit, JobInit, LifeInv,
         OneRunAtATime, NoRun, Started, AtRest, Phases
<1>2. LogInv /\ LifeInv /\ [LifetimeNext]_lifetimeVars => LifeInv'
  BY LifeStep
<1> QED
  BY <1>1, <1>2, LogAcrossRestarts, PTL DEF LifetimeSpec

-----------------------------------------------------------------------------
(* What SQS counts.                                                        *)

LEMMA CountedBag ==
  ASSUME NEW bag, IsABag(bag), Counted(bag)
  PROVE  /\ IsABag(receives') /\ DOMAIN receives' \subseteq queue'
         /\ \A e \in DOMAIN receives' :
              e \in DOMAIN bag /\ receives'[e] = bag[e]
BY DEF IsABag, Counted, Restrict

LEMMA OnceMore ==
  ASSUME IsABag(receives), NEW batch
  PROVE  LET bag == receives (+) SetToBag(batch)
         IN /\ IsABag(bag)
            /\ \A e \in DOMAIN bag :
                 \/ e \notin batch /\ e \in DOMAIN receives
                      /\ bag[e] = receives[e]
                 \/ e \in batch /\ bag[e] = Handouts(e) + 1
BY DEF IsABag, SetToBag, (+), Handouts, BagIn, BagToSet

SqsInv ==
  /\ IsABag(receives) /\ DOMAIN receives \subseteq queue
  /\ deadLetters \subseteq Entry
  /\ mishaps \in Nat

(* The count of a message in the queue goes up with the receive of a batch *)
(* it is in, and with nothing else.                                        *)
CountsReceives ==
  \A e \in DOMAIN receives' :
    \/ e \in DOMAIN receives /\ receives'[e] = receives[e]
    \/ \E p \in Processes : /\ ReceiveBatch(p)
                            /\ e \in consumer'[p].batch
                            /\ receives'[e] = Handouts(e) + 1

LEMMA CountStep ==
  ASSUME LogInv, SqsInv, [LifetimeNext]_lifetimeVars
  PROVE  SqsInv' /\ CountsReceives
<1>1. /\ IsABag(receives') /\ DOMAIN receives' \subseteq queue'
      /\ CountsReceives
  <2>1. CASE UNCHANGED <<receives, queue>>
    BY <2>1 DEF SqsInv, CountsReceives
  <2>2. CASE Counted(receives)
    BY <2>2, CountedBag DEF SqsInv, CountsReceives
  <2>3. ASSUME NEW p \in Processes, ReceiveBatch(p)
        PROVE  /\ IsABag(receives') /\ DOMAIN receives' \subseteq queue'
               /\ CountsReceives
    <3> DEFINE batch == consumer'[p].batch
               bag == receives (+) SetToBag(batch)
    <3>1. Counted(bag)
      BY <2>3 DEF ReceiveBatch
    <3>2. /\ IsABag(bag)
          /\ \A e \in DOMAIN bag :
               \/ e \notin batch /\ e \in DOMAIN receives
                    /\ bag[e] = receives[e]
               \/ e \in batch /\ bag[e] = Handouts(e) + 1
      BY OnceMore DEF SqsInv
    <3> HIDE DEF bag
    <3> QED
      BY <2>3, <3>1, <3>2, CountedBag DEF CountsReceives
  <2> QED
    BY <2>1, <2>2, <2>3
    DEF LifetimeNext, lifetimeVars, serviceVars, platform, StartServer,
        StartLoops, RegisterStop, StopLoops, Exit, Gone, WorkBatch, WorkJob, DeadLetter,
        LifetimeEnvironment
<1>2. deadLetters' \subseteq Entry
  BY DEF SqsInv, LogInv, JobInv, PlatformTypeOK, LifetimeNext, lifetimeVars,
         StartServer, StartLoops, RegisterStop, StopLoops, Exit, Gone,
         ReceiveBatch, WorkBatch, WorkJob, DeadLetter, LifetimeEnvironment
<1>3. mishaps' = mishaps \/ mishaps' = mishaps + 1
  BY DEF LifetimeNext, lifetimeVars, StartServer, StartLoops, RegisterStop,
         StopLoops, Exit, Gone, Mishap, ReceiveBatch, WorkBatch, WorkJob,
         DeadLetter, LifetimeEnvironment
<1> QED
  BY <1>1, <1>2, <1>3 DEF SqsInv

LEMMA SqsInvariant ==
  KeysGuarded => (LifetimeSpec => [](LogInv /\ LifeInv /\ SqsInv))
<1> SUFFICES ASSUME KeysGuarded
             PROVE  LifetimeSpec => [](LogInv /\ LifeInv /\ SqsInv)
  OBVIOUS
<1>1. LifetimeInit => SqsInv
  BY LifetimeAssumption
  DEF LifetimeInit, ServiceInit, PlatformInit, SqsInv, EmptyBag, SetToBag,
      IsABag, LifetimeAssumption
<1>2. LogInv /\ SqsInv /\ [LifetimeNext]_lifetimeVars => SqsInv'
  BY CountStep
<1> QED
  BY <1>1, <1>2, LifeInvariant, PTL DEF LifetimeSpec

(* The life of processes and queue is well typed, and a process that is    *)
(* down or still starting its server and index holds no message and no run.*)
THEOREM LifetimeTypeCorrect ==
  KeysGuarded => (LifetimeSpec => []LifetimeTypeOK)
<1>1. LifeInv /\ SqsInv => LifetimeTypeOK
  BY DEF LifeInv, SqsInv, LifetimeTypeOK, Started, AtRest
<1> QED
  BY <1>1, SqsInvariant, PTL

-----------------------------------------------------------------------------
(* Only mishaps hand a message out again.                                  *)

(* A consumer holds nothing between two batches, and no message between    *)
(* two messages of a batch.                                                *)
Tidy(p) ==
  /\ consumer[p].pc = "idle" => consumer[p] = Idle
  /\ consumer[p].pc = "next" => consumer[p].current = None

HandInv ==
  /\ \A p \in Processes : Tidy(p)
  /\ \A e \in DOMAIN receives :
       \/ receives[e] <= mishaps
       \/ receives[e] = mishaps + 1 /\ InSomeHand(e)
  /\ DeadLettersNeedMishaps

(* A message leaves the hand of a consumer with the batch, which is        *)
(* deleted, or with a mishap.                                              *)
LEMMA HandsKept ==
  ASSUME RequestTypeOK, NEW p \in Processes, Tidy(p), WorkBatch(p)
  PROVE  /\ Tidy(p)'
         /\ \A e \in Held(p) : \/ e \in Held(p)' \/ e \notin queue'
                              \/ mishaps' = mishaps + 1
<1>0. ConsumerStep(p)
  BY DEF WorkBatch
<1>1. consumer[p] \in ConsumerState
  BY DEF RequestTypeOK
<1>2. CASE Poll(p)
  BY <1>1, <1>2 DEF Poll, At, Tidy, Held, Idle, RequestTypeOK, ConsumerState
<1>3. CASE NextMessage(p)
  <2>1. PICK e \in consumer[p].batch :
          /\ consumer'[p].batch = consumer[p].batch \ {e}
          /\ \/ /\ consumer'[p].current = e
                /\ consumer'[p].completed = consumer[p].completed
                /\ consumer'[p].pc \in {"check", "invalid"}
             \/ /\ consumer'[p].current = None
                /\ consumer'[p].completed = consumer[p].completed \cup {e}
                /\ consumer'[p].pc = "next"
    BY <1>1, <1>3 DEF NextMessage, RequestTypeOK, ConsumerState
  <2>2. e # None
    BY <1>1, PlatformAssumption DEF ConsumerState
  <2> QED
    BY <1>3, <2>1, <2>2 DEF NextMessage, At, Tidy, Held
<1>4. CASE DeleteBatch(p)
  <2>1. consumer'[p] = Idle
    BY <1>4 DEF DeleteBatch, RequestTypeOK
  <2>2. Held(p) = consumer[p].completed
    BY <1>4 DEF DeleteBatch, At, Tidy, Held
  <2>3. \/ mishaps' = mishaps + 1
        \/ consumer[p].completed \cap queue' = {}
    BY <1>4 DEF WorkBatch, DeleteBatch, Mishap
  <2> QED
    BY <2>1, <2>2, <2>3 DEF Tidy, Idle
<1>5. CASE Complete(p) /\ ~At(p, "next") /\ ~At(p, "idle")
  <2>1. /\ consumer'[p].pc = "next" /\ consumer'[p].current = None
        /\ consumer'[p].batch = consumer[p].batch
        /\ consumer'[p].completed =
             consumer[p].completed \cup {consumer[p].current}
    BY <1>1, <1>5 DEF Complete, RequestTypeOK, ConsumerState, Idle
  <2> QED
    BY <2>1 DEF Tidy, Held
<1>6. ASSUME UNCHANGED <<consumer[p].batch, consumer[p].current,
                         consumer[p].completed>>,
             consumer'[p].pc \notin {"idle", "next"}
      PROVE  /\ Tidy(p)'
             /\ \A e \in Held(p) : e \in Held(p)'
  BY <1>6 DEF Tidy, Held
<1>7. ASSUME NEW label, Goto(p, label), label \notin {"idle", "next"}
      PROVE  /\ UNCHANGED <<consumer[p].batch, consumer[p].current,
                            consumer[p].completed>>
             /\ consumer'[p].pc \notin {"idle", "next"}
  BY <1>7 DEF Goto, RequestTypeOK, ConsumerState
<1>8. CASE SendEmail(p)
  <2>1. \/ Complete(p) /\ ~At(p, "next") /\ ~At(p, "idle")
        \/ /\ UNCHANGED <<consumer[p].batch, consumer[p].current,
                          consumer[p].completed>>
           /\ consumer'[p].pc \in {"sent", "failed"}
    BY <1>1, <1>8 DEF SendEmail, At, RequestTypeOK, ConsumerState
  <2> QED
    BY <1>5, <1>6, <2>1
<1>9. ASSUME ~Poll(p), ~NextMessage(p), ~DeleteBatch(p), ~SendEmail(p)
      PROVE  \/ Complete(p) /\ ~At(p, "next") /\ ~At(p, "idle")
             \/ \E label : Goto(p, label) /\ label \notin {"idle", "next"}
  BY <1>0, <1>9
  DEF ConsumerStep, At, PublishInvalidRequest, CheckIdempotency, AddRequest,
      PublishReceived, RecordSending, RecordFailure, Record, PublishSending,
      PublishFailure, RetryFailure
<1> QED
  BY <1>2, <1>3, <1>4, <1>5, <1>6, <1>7, <1>8, <1>9

LEMMA HandsApart ==
  ASSUME HandInv, SqsInv, SqsInv', mishaps <= mishaps',
         \A p \in Processes : Tidy(p)',
         \A e \in queue' : InSomeHand(e) =>
           InSomeHand(e)' \/ mishaps' = mishaps + 1,
         \A e \in DOMAIN receives' :
           e \in DOMAIN receives /\ receives'[e] = receives[e],
         deadLetters' # {} => mishaps' >= MaxReceives
  PROVE  HandInv'
<1> SUFFICES ASSUME NEW e \in DOMAIN receives'
             PROVE  \/ receives'[e] <= mishaps'
                    \/ receives'[e] = mishaps' + 1 /\ InSomeHand(e)'
  BY DEF HandInv, DeadLettersNeedMishaps
<1>1. /\ receives[e] \in Nat /\ mishaps \in Nat /\ mishaps' \in Nat
      /\ receives'[e] = receives[e] /\ e \in queue'
      /\ \/ receives[e] <= mishaps
         \/ receives[e] = mishaps + 1 /\ InSomeHand(e)
  BY DEF SqsInv, IsABag, HandInv
<1> QED
  BY <1>1

LEMMA DeadLettersStay ==
  ASSUME SqsInv, DeadLettersNeedMishaps, mishaps' \in Nat, mishaps <= mishaps',
         UNCHANGED deadLetters
  PROVE  deadLetters' # {} => mishaps' >= MaxReceives
BY LifetimeAssumption
DEF SqsInv, DeadLettersNeedMishaps, LifetimeAssumption

LEMMA HandStep ==
  ASSUME KeysGuarded, LogInv, SqsInv, HandInv, [LifetimeNext]_lifetimeVars
  PROVE  HandInv'
<1>1. /\ SqsInv' /\ CountsReceives
      /\ mishaps \in Nat /\ mishaps' \in Nat
      /\ \A e \in DOMAIN receives : receives[e] \in Nat \ {0}
  BY CountStep DEF SqsInv, IsABag
<1>2. \A e : /\ Handouts(e) \in Nat
             /\ \/ Handouts(e) <= mishaps
                \/ Handouts(e) = mishaps + 1 /\ InSomeHand(e)
  BY <1>1 DEF HandInv, Handouts, BagIn, BagToSet
<1>3. ASSUME NEW p \in Processes, ReceiveBatch(p)
      PROVE  HandInv'
  <2> DEFINE batch == consumer'[p].batch
  <2>1. ASSUME NEW q \in Processes, Poll(q)
        PROVE  /\ consumer[q].pc = "idle" /\ consumer'[q].pc = "next"
               /\ consumer'[q].current = consumer[q].current
               /\ \A o \in Processes \ {q} : consumer'[o] = consumer[o]
    BY <2>1 DEF Poll, At, LogInv, RequestTypeOK, ConsumerState
  <2>2. /\ deadLetters' = deadLetters
        /\ consumer[p].pc = "idle" /\ consumer'[p].pc = "next"
        /\ consumer'[p].current = consumer[p].current
        /\ \A q \in Processes \ {p} : consumer'[q] = consumer[q]
    BY <1>3, <2>1 DEF ReceiveBatch
  <2>3. /\ mishaps' = mishaps \/ mishaps' = mishaps + 1
        /\ \A e \in batch : InSomeHand(e) => mishaps' = mishaps + 1
    BY <1>3 DEF ReceiveBatch, Mishap
  <2>4. \A q \in Processes : ReceiveBatch(q) => q = p
    BY <2>1, <2>2 DEF ReceiveBatch
  <2>5. Tidy(p)' /\ batch \subseteq Held(p)' /\ Held(p) = {}
    BY <2>2 DEF HandInv, Tidy, Held, Idle
  <2>6. \A q \in Processes : Tidy(q)'
    BY <2>2, <2>5 DEF HandInv, Tidy
  <2>7. /\ \A e : InSomeHand(e) => InSomeHand(e)'
        /\ \A e \in batch : InSomeHand(e)'
    BY <2>2, <2>5 DEF InSomeHand, Held
  <2>8. ASSUME NEW e \in DOMAIN receives'
        PROVE  \/ receives'[e] <= mishaps'
               \/ receives'[e] = mishaps' + 1 /\ InSomeHand(e)'
    <3>1. CASE e \in DOMAIN receives /\ receives'[e] = receives[e]
      BY <1>1, <2>3, <2>7, <3>1 DEF HandInv
    <3>2. CASE e \in batch /\ receives'[e] = Handouts(e) + 1
      BY <1>1, <1>2, <2>3, <2>7, <3>2
    <3> QED
      BY <1>1, <2>4, <3>1, <3>2 DEF CountsReceives
  <2>9. deadLetters' # {} => mishaps' >= MaxReceives
    BY <1>1, <2>2, <2>3, DeadLettersStay DEF HandInv
  <2> QED
    BY <2>6, <2>8, <2>9 DEF HandInv, DeadLettersNeedMishaps
<1>4. ASSUME NEW p \in Processes, WorkBatch(p)
      PROVE  HandInv'
  <2>1. /\ Tidy(p)'
        /\ \A e \in Held(p) : \/ e \in Held(p)' \/ e \notin queue'
                             \/ mishaps' = mishaps + 1
    BY <1>4, HandsKept DEF LogInv, HandInv
  <2>2. /\ deadLetters' = deadLetters
        /\ mishaps' = mishaps \/ mishaps' = mishaps + 1
        /\ \A q \in Processes \ {p} : consumer'[q] = consumer[q]
    BY <1>4, ConsumerEffect
    DEF WorkBatch, Mishap, LogInv, PipelineInv, Others
  <2>3. \A e \in queue' : InSomeHand(e) =>
          InSomeHand(e)' \/ mishaps' = mishaps + 1
    BY <2>1, <2>2 DEF InSomeHand, Held
  <2>4. \A e \in DOMAIN receives' :
          e \in DOMAIN receives /\ receives'[e] = receives[e]
    BY <1>4, CountedBag DEF WorkBatch, SqsInv
  <2>5. \A q \in Processes : Tidy(q)'
    BY <2>1, <2>2 DEF HandInv, Tidy
  <2>6. mishaps <= mishaps' /\ (deadLetters' # {} => mishaps' >= MaxReceives)
    BY <1>1, <2>2, DeadLettersStay DEF HandInv
  <2> QED
    BY <1>1, <2>3, <2>4, <2>5, <2>6, HandsApart
<1>5. ASSUME NEW p \in Processes, Gone(p)
      PROVE  HandInv'
  <2>1. /\ mishaps' = mishaps + 1 /\ receives' = receives
        /\ deadLetters' = deadLetters
        /\ consumer'[p] = Idle
        /\ \A q \in Processes \ {p} : consumer'[q] = consumer[q]
    BY <1>5 DEF Gone, LogInv, RequestTypeOK
  <2>2. \A q \in Processes : Tidy(q)'
    <3>1. Tidy(p)'
      BY <2>1 DEF Tidy, Idle
    <3> QED
      BY <2>1, <3>1 DEF HandInv, Tidy
  <2>3. mishaps <= mishaps' /\ (deadLetters' # {} => mishaps' >= MaxReceives)
    BY <1>1, <2>1, DeadLettersStay DEF HandInv
  <2> QED
    BY <1>1, <2>1, <2>2, <2>3, HandsApart
<1>6. ASSUME NEW e \in queue, DeadLetter(e)
      PROVE  HandInv'
  <2>1. /\ Handouts(e) >= MaxReceives /\ consumer' = consumer
        /\ InSomeHand(e) => mishaps' = mishaps + 1
        /\ mishaps' = mishaps \/ mishaps' = mishaps + 1
    BY <1>6 DEF DeadLetter, Mishap
  <2>2. mishaps' >= MaxReceives /\ mishaps <= mishaps'
    BY <1>1, <1>2, <2>1, LifetimeAssumption DEF LifetimeAssumption
  <2>3. \A f \in DOMAIN receives' :
          f \in DOMAIN receives /\ receives'[f] = receives[f]
    BY <1>6, CountedBag DEF DeadLetter, SqsInv
  <2>4. /\ \A q \in Processes : Tidy(q)'
        /\ \A f : InSomeHand(f) => InSomeHand(f)'
    BY <2>1 DEF HandInv, Tidy, InSomeHand, Held
  <2> QED
    BY <1>1, <2>2, <2>3, <2>4, HandsApart
<1>7. ASSUME UNCHANGED <<consumer, mishaps, deadLetters>>,
             Counted(receives) \/ UNCHANGED <<receives, queue>>
      PROVE  HandInv'
  <2>1. \A e \in DOMAIN receives' :
          e \in DOMAIN receives /\ receives'[e] = receives[e]
    BY <1>7, CountedBag DEF SqsInv
  <2>2. /\ \A q \in Processes : Tidy(q)'
        /\ \A f : InSomeHand(f) => InSomeHand(f)'
    BY <1>7 DEF HandInv, Tidy, InSomeHand, Held
  <2>3. mishaps <= mishaps' /\ (deadLetters' # {} => mishaps' >= MaxReceives)
    BY <1>1, <1>7, DeadLettersStay DEF HandInv
  <2> QED
    BY <1>1, <2>1, <2>2, <2>3, HandsApart
<1> QED
  BY <1>3, <1>4, <1>5, <1>6, <1>7
  DEF LifetimeNext, lifetimeVars, serviceVars, platform, StartServer,
      StartLoops, RegisterStop, StopLoops, Exit, WorkJob, LifetimeEnvironment,
      Environment

(* SQS gives a message up only after as many mishaps (ends of processes,   *)
(* failed deletes, visibility timeouts that ran out meanwhile) as it may   *)
(* be handed out: the consumer completes every message, the malformed ones *)
(* too, so that none comes back on its own account.                        *)
THEOREM NoDeadLetterUnprovoked ==
  KeysGuarded => (LifetimeSpec => []DeadLettersNeedMishaps)
<1> SUFFICES ASSUME KeysGuarded
             PROVE  LifetimeSpec => []DeadLettersNeedMishaps
  OBVIOUS
<1>1. LifetimeInit => HandInv
  BY DEF LifetimeInit, ServiceInit, ConsumerInit, HandInv, Tidy, Idle,
         EmptyBag, SetToBag, DeadLettersNeedMishaps
<1>2. LogInv /\ SqsInv /\ HandInv /\ [LifetimeNext]_lifetimeVars => HandInv'
  BY HandStep
<1>3. HandInv => DeadLettersNeedMishaps
  BY DEF HandInv
<1> QED
  BY <1>1, <1>2, <1>3, SqsInvariant, PTL DEF LifetimeSpec

-----------------------------------------------------------------------------
(* Nothing is lost across restarts.                                        *)

(* Publishers use no type that nobody handles in a message that satisfies  *)
(* the schema: processorMap drops such a message without a trace.          *)
KnownTypes == \A m \in Requests : v1(m) => m.type \in processorMap

QueueProcessable == \A e \in queue : v1(e.message) => Processable(e.message)

LEMMA RetryProcessable ==
  ASSUME NEW m \in Message, NEW id
  PROVE  buildRetryMessage(m, id).type \in processorMap
BY DEF buildRetryMessage, Message, processorMap

LEMMA ProcessableStep ==
  ASSUME KnownTypes, LogInv, QueueProcessable, ServiceStep
  PROVE  QueueProcessable'
<1> SUFFICES ASSUME NEW e \in queue', e \notin queue, v1(e.message)
             PROVE  e.message.type \in processorMap
  BY DEF QueueProcessable, Processable
<1>1. ASSUME NEW p \in Processes, NEW r \in Runs, RunMoves(p, r)
      PROVE  e.message.type \in processorMap
  <2> DEFINE n == Notification(p, r)
  <2>1. n \in Doc /\ e.message = buildRetryMessage(n.message, n.id)
    BY <1>1, RunRetries DEF LogInv, RunMoves
  <2>2. n.message \in Message
    BY <2>1 DEF Doc
  <2> QED
    BY <2>1, <2>2, RetryProcessable
<1>2. ASSUME NEW p \in Processes, ConsumerMoves(p)
      PROVE  e.message.type \in processorMap
  <2>1. ConsumerRetry(p, e)
    BY <1>2, ConsumerSays DEF ConsumerMoves, LogInv, ConsumerRetry
  <2>2. Current(p) \in Message
    BY <2>1 DEF ConsumerRetry, LogInv, RequestTypeOK, Current, Entry
  <2> QED
    BY <2>1, <2>2, RetryProcessable DEF ConsumerRetry
<1>3. ASSUME NEW m \in Requests, Submit(m)
      PROVE  e.message.type \in processorMap
  BY <1>3 DEF Submit, KnownTypes
<1> QED
  BY <1>1, <1>2, <1>3
  DEF ServiceStep, Ends, Environment, Deliver, CatchUp, Replicate, Tick,
      QueueShrinksOnly

LEMMA LifetimeLoses ==
  ASSUME NEW e \in queue \ queue', [LifetimeNext]_lifetimeVars
  PROVE  \/ e \in deadLetters'
         \/ \E p \in Processes :
              DeleteBatch(p) /\ e \in consumer[p].completed
<1>1. CASE \E f \in queue : DeadLetter(f)
  BY <1>1 DEF DeadLetter
<1>2. ASSUME NEW p \in Processes, WorkBatch(p)
      PROVE  ConsumerMoves(p)
  BY <1>2 DEF WorkBatch, ConsumerMoves
<1>3. ASSUME NEW p \in Processes, WorkJob(p)
      PROVE  \E r \in Runs : RunMoves(p, r)
  BY <1>3 DEF WorkJob, RunMoves
<1> QED
  BY <1>1, <1>2, <1>3, QueueLoses
  DEF LifetimeNext, lifetimeVars, serviceVars, platform, StartServer,
      StartLoops, RegisterStop, StopLoops, Exit, Gone, ReceiveBatch, Poll,
      LifetimeEnvironment

(* Processes that end with a batch in hand lose no valid request: while    *)
(* the database answers, what leaves the queue is in the log, or SQS has   *)
(* moved it to the dead letter queue.                                      *)
THEOREM NoneLostAcrossRestarts ==
  KeysGuarded /\ KnownTypes /\ "db" \notin Faults =>
    (LifetimeSpec => KeptAcrossRestarts)
<1> SUFFICES ASSUME KeysGuarded, KnownTypes, "db" \notin Faults
             PROVE  LifetimeSpec => KeptAcrossRestarts
  OBVIOUS
<1>1. LifetimeInit => DeliveryInv /\ QueueProcessable
  BY DeliveryInit
  DEF LifetimeInit, ServiceInit, PlatformInit, QueueProcessable
<1>2. LogInv /\ DeliveryInv /\ QueueProcessable /\ [LifetimeNext]_lifetimeVars
        => DeliveryInv' /\ QueueProcessable'
  BY LifetimeStep, DeliveryStep, ProcessableStep
<1>3. DeliveryInv /\ QueueProcessable /\ [LifetimeNext]_lifetimeVars =>
        [\A e \in queue \ queue' :
           v1(e.message) =>
             \/ e \in deadLetters'
             \/ \E d \in docs : SameKey(d.message, e.message)]_lifetimeVars
  BY LifetimeLoses
  DEF DeliveryInv, Deletable, HandledMessage, QueueProcessable
<1> QED
  BY <1>1, <1>2, <1>3, LogAcrossRestarts, PTL
  DEF LifetimeSpec, KeptAcrossRestarts

-----------------------------------------------------------------------------
(* What the service promises it keeps across restarts: ends of processes   *)
(* and dead letters are steps the invariants of the service survive.       *)

LEMMA OriginAcrossRestarts ==
  KeysGuarded => (LifetimeSpec => [](LogInv /\ OriginInv))
<1> SUFFICES ASSUME KeysGuarded
             PROVE  LifetimeSpec => [](LogInv /\ OriginInv)
  OBVIOUS
<1>1. LifetimeInit => OriginInv
  BY DEF LifetimeInit, ServiceInit, PlatformInit, ConsumerInit, OriginInv,
         Held, Idle
<1>2. LogInv /\ OriginInv /\ [LifetimeNext]_lifetimeVars => OriginInv'
  BY OriginStep, LifetimeStep
<1> QED
  BY <1>1, <1>2, LogAcrossRestarts, PTL DEF LifetimeSpec

(* However often processes end and are started, at whatever step: a        *)
(* request is sent once, after it was logged; it is stranded only where a  *)
(* process ended over it or a fault hit it; subscribers hear of a delivery *)
(* or a failure at the provider only what Notify said; and no retry is     *)
(* early.                                                                  *)
THEOREM SafeAcrossRestarts ==
  KeysGuarded =>
    (LifetimeSpec => [](/\ AtMostOneEmail
                        /\ RecordedBeforeSent
                        /\ StrandedOnlyByFault
                        /\ TruthfulOutcome
                        /\ RetryNotEarly))
<1> SUFFICES ASSUME KeysGuarded
             PROVE  LifetimeSpec => [](/\ AtMostOneEmail
                                       /\ RecordedBeforeSent
                                       /\ StrandedOnlyByFault
                                       /\ TruthfulOutcome
                                       /\ RetryNotEarly)
  OBVIOUS
<1>1. LifetimeInit => AllReported
  BY DEF LifetimeInit, ServiceInit, PlatformInit, AllReported
<1>2. LogInv /\ AllReported /\ [LifetimeNext]_lifetimeVars => AllReported'
  BY ReportedStep, LifetimeStep
<1>3. AllReported => TruthfulOutcome
  BY DEF AllReported, Reported, TruthfulOutcome
<1>4. LogInv => AtMostOneEmail /\ RecordedBeforeSent /\ StrandedOnlyByFault
  BY DEF LogInv, PipelineInv, EmailsLogged, RecordedBeforeSent, SameKey,
         Accounted, StrandedOnlyByFault, PendingPlaces
<1>5. OriginInv => RetryNotEarly
  BY DEF OriginInv, Delayed, RetryNotEarly
<1> QED
  BY <1>1, <1>2, <1>3, <1>4, <1>5, OriginAcrossRestarts, PTL DEF LifetimeSpec

(* One instance keeps the promises of NotificationLifecycle and finishes a *)
(* document once, however often it is stopped and started again.           *)
THEOREM LifecycleAcrossRestarts ==
  KeysGuarded /\ OneInstance =>
    (LifetimeSpec => FinishedIsFinal /\ RefinesLifecycle)
<1> SUFFICES ASSUME KeysGuarded, OneInstance
             PROVE  LifetimeSpec => FinishedIsFinal /\ RefinesLifecycle
  OBVIOUS
<1>1. LifetimeInit => VerdictInv /\ Lifecycle!Init
  BY DEF LifetimeInit, ServiceInit, PlatformInit, JobInit, ConsumerInit,
         VerdictInv, OneRunAtATime, NoRun, Idle, RunFresh, FailureRecorded,
         Lifecycle!Init, Verdicts, Announced
<1>2. LogInv /\ VerdictInv /\ [LifetimeNext]_lifetimeVars => VerdictInv'
  BY VerdictStep, LifetimeStep
<1>3. LogInv /\ VerdictInv /\ [LifetimeNext]_lifetimeVars =>
        [\A d \in docs : d.status \in finishedStatus =>
           \E e \in docs' : e.id = d.id /\ e.status = d.status]_docs
  BY VerdictStep, LifetimeStep DEF FinishedKept, SameNotification
<1>4. LogInv /\ VerdictInv /\ [LifetimeNext]_lifetimeVars =>
        [Lifecycle!Next]_(Lifecycle!lifecycle)
  BY ServiceIsStep, LifetimeStep DEF LifecycleStep
<1> QED
  BY <1>1, <1>2, <1>3, <1>4, LogAcrossRestarts, PTL
  DEF LifetimeSpec, FinishedIsFinal, RefinesLifecycle, Lifecycle!Spec

LEMMA ChainAcrossRestarts ==
  KeysGuarded /\ DistinctWorkflows =>
    (LifetimeSpec => [](LogInv /\ OriginInv /\ ChainInv))
<1> SUFFICES ASSUME KeysGuarded, DistinctWorkflows
             PROVE  LifetimeSpec => [](LogInv /\ OriginInv /\ ChainInv)
  OBVIOUS
<1>1. LifetimeInit => ChainInv
  BY DEF LifetimeInit, ServiceInit, PlatformInit, ChainInv, Referenced,
         Rooted, Followed
<1>2. LogInv /\ OriginInv /\ ChainInv /\ [LifetimeNext]_lifetimeVars =>
        ChainInv'
  BY ChainStep, LifetimeStep
<1> QED
  BY <1>1, <1>2, OriginAcrossRestarts, PTL DEF LifetimeSpec

(* A customer whose request is handed out again after a process ended does *)
(* not get a second live email for it, at any step the process ended at.   *)
THEOREM OneEmailAcrossRestarts ==
  KeysGuarded /\ DistinctWorkflows =>
    (LifetimeSpec => []OneLiveEmailPerRequest)
<1>1. ChainInv => OneLiveEmailPerRequest
  BY DEF ChainInv, Followed, SameChain, Follows, OneLiveEmailPerRequest
<1> QED
  BY <1>1, ChainAcrossRestarts, PTL

(* The number of emails of a request does not grow with the number of      *)
(* times processes end: a window is counted from the log, not from the     *)
(* start of a process.                                                     *)
THEOREM BoundedAcrossRestarts ==
  /\ KeysGuarded /\ DistinctWorkflows /\ NamesFirst
  /\ RetryDelay > 0 /\ TemporaryFailureTimeout > 0
  => (LifetimeSpec => []RetriesBounded)
<1> SUFFICES ASSUME KeysGuarded, DistinctWorkflows, NamesFirst,
                    RetryDelay > 0, TemporaryFailureTimeout > 0
             PROVE  LifetimeSpec => []RetriesBounded
  OBVIOUS
<1>1. LifetimeInit => RootInv /\ WindowInv
  <2>1. LifetimeInit => RootInv
    BY RootInit DEF LifetimeInit
  <2>2. LifetimeInit => WindowInv
    BY DEF LifetimeInit, ServiceInit, PlatformInit, ConsumerInit, JobInit,
           WindowInv, Held, Idle, NoRun, RunTimely, Spaced
  <2> QED
    BY <2>1, <2>2
<1>2. LogInv /\ OriginInv /\ RootInv /\ [LifetimeNext]_lifetimeVars =>
        RootInv'
  BY RootStep, LifetimeStep
<1>3. LogInv /\ OriginInv /\ ChainInv /\ RootInv /\ WindowInv
        /\ [LifetimeNext]_lifetimeVars => WindowInv'
  BY WindowInvStep, LifetimeStep
<1>4. LogInv /\ OriginInv /\ ChainInv /\ RootInv /\ WindowInv
        => RetriesBounded
  BY BoundedChains
<1> QED
  BY <1>1, <1>2, <1>3, <1>4, ChainAcrossRestarts, PTL DEF LifetimeSpec

(* However often processes end, whichever of them meets a message or a     *)
(* failure again tells subscribers of it what was told before.             *)
THEOREM OneOutcomeAcrossRestarts ==
  KeysGuarded => (LifetimeSpec => []OneOutcomeTold)
<1> SUFFICES ASSUME KeysGuarded
             PROVE  LifetimeSpec => []OneOutcomeTold
  OBVIOUS
<1>1. LifetimeInit => OutcomeInv
  BY OutcomeInit DEF LifetimeInit
<1>2. LogInv /\ OutcomeInv /\ [LifetimeNext]_lifetimeVars => OutcomeInv'
  BY OutcomeStep, LifetimeStep
<1> QED
  BY <1>1, <1>2, OneOutcome, LogAcrossRestarts, PTL DEF LifetimeSpec

(* One instance that reported the end of the retries of a message and was  *)
(* started again schedules none for it, whatever its first read shows it.  *)
THEOREM ExpiryFinalAcrossRestarts ==
  KeysGuarded /\ OneInstance => (LifetimeSpec => ExpiryIsFinal)
<1> SUFFICES ASSUME KeysGuarded, OneInstance
             PROVE  LifetimeSpec => ExpiryIsFinal
  OBVIOUS
<1>1. LifetimeInit => RootInv /\ ExpiryInv
  BY RootInit, ExpiryInit DEF LifetimeInit
<1>2. LogInv /\ OriginInv /\ RootInv /\ [LifetimeNext]_lifetimeVars =>
        RootInv'
  BY RootStep, LifetimeStep
<1>3. LogInv /\ LifeInv /\ RootInv /\ ExpiryInv
        /\ [LifetimeNext]_lifetimeVars => ExpiryInv'
  BY ExpiryInvStep, LifetimeStep DEF LifeInv
<1>4. LogInv /\ OriginInv /\ ExpiryInv /\ [LifetimeNext]_lifetimeVars =>
        [\A d \in docs : Expired(d.message) =>
           \A e \in queue' \ queue : e.message.id # d.id]_jobVars
  BY ExpiredAreLeft, LifetimeStep DEF ExpiredAreOver
<1> QED
  BY <1>1, <1>2, <1>3, <1>4, OriginAcrossRestarts, LifeInvariant, PTL
  DEF LifetimeSpec, ExpiryIsFinal
=============================================================================
