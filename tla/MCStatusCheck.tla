--------------------------- MODULE MCStatusCheck ----------------------------
(***************************************************************************)
(* Instances of StatusCheck for TLC: the notifications it starts from.     *)
(***************************************************************************)
EXTENDS StatusCheck

CONSTANTS a, u1, u2, flow, ahwp, p1, p2, r1, r2

Request(id, corr) ==
  [id |-> id, source |-> ahwp, type |-> "request", correlationId |-> corr,
   body |-> "ok"]

NoRequests == {}

Sent(uuid, m, n, status, time) ==
  [id |-> uuid, message |-> m, createdAt |-> time, status |-> status,
   notificationId |-> n, completed |-> status \in finishedStatus]

(* A request that failed temporarily and its retry, which is on the way.   *)
RetryUnderWay ==
  LET first == Sent(u1, Request(a, None), 1, "temporary-failure", 0)
  IN <<first,
       Sent(u2, buildRetryMessage(first.message, first.id), 2, "sending", 1)>>

OneUnderWay == <<Sent(u1, Request(a, None), 1, "sending", 0)>>

(* A request its publisher correlated with a workflow of its own. *)
Correlated == <<Sent(u1, Request(a, flow), 1, "sending", 0)>>
=============================================================================
