----------------------- MODULE NotificationLifecycle ------------------------
(***************************************************************************)
(* What the service promises for the requests it takes, whatever goes      *)
(* wrong inside: a request is accepted once, emailed once at most, ends in *)
(* one verdict at most that agrees with whether it was emailed, and only   *)
(* verdicts are announced.  No queue, process, retry or fault is visible   *)
(* here: a fault can only keep a step from being taken.                    *)
(***************************************************************************)
EXTENDS CommsTypes, Sequences

VARIABLES
  accepted,   \* the requests taken into the notification log
  outbox,     \* the requests handed to GOV.UK Notify, in order
  verdicts,   \* how requests ended
  announced   \* the verdicts subscribers were told of

lifecycle == <<accepted, outbox, verdicts, announced>>

Verdict == [message : Message, status : finishedStatus]

Emailed(m) == \E i \in DOMAIN outbox : SameKey(outbox[i], m)

Init ==
  /\ accepted = {}
  /\ outbox = << >>
  /\ verdicts = {}
  /\ announced = {}

(* Only a valid request of a known type, and of one (source, id) one only. *)
Accept(m) ==
  /\ v1(m) /\ m.type \in processorMap
  /\ \A n \in accepted : ~SameKey(m, n)
  /\ accepted' = accepted \cup {m}
  /\ UNCHANGED <<outbox, verdicts, announced>>

Send(m) ==
  /\ m \in accepted
  /\ ~Emailed(m)
  /\ outbox' = Append(outbox, m)
  /\ UNCHANGED <<accepted, verdicts, announced>>

(* Notify's verdicts are about emails; an internal failure means that      *)
(* Notify refused the request; after a technical one nobody knows.         *)
Settle(m, status) ==
  /\ m \in accepted
  /\ \A v \in verdicts : v.message # m
  /\ status \in {"delivered", "permanent-failure", "temporary-failure"} =>
       Emailed(m)
  /\ status = "internal-failure" => ~Emailed(m)
  /\ verdicts' = verdicts \cup {[message |-> m, status |-> status]}
  /\ UNCHANGED <<accepted, outbox, announced>>

Announce(v) ==
  /\ v \in verdicts
  /\ announced' = announced \cup {v}
  /\ UNCHANGED <<accepted, outbox, verdicts>>

Next ==
  \/ \E m \in Message : Accept(m) \/ Send(m)
  \/ \E m \in accepted, status \in finishedStatus : Settle(m, status)
  \/ \E v \in verdicts : Announce(v)

Spec == Init /\ [][Next]_lifecycle
=============================================================================
