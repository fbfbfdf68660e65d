--------------------------- MODULE MCCommsRequest ---------------------------
(***************************************************************************)
(* Instances of CommsRequest for TLC: the message a publisher sends and    *)
(* symmetry.                                                               *)
(***************************************************************************)
EXTENDS CommsRequest, TLC

CONSTANTS m1, u1, u2, ahwp, p1, p2

(* One valid request. *)
OneRequest == {[id |-> m1, source |-> ahwp, type |-> "request",
                correlationId |-> None, body |-> "ok"]}

ProcessSymmetry == Permutations(Processes)
=============================================================================
