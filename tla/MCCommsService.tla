--------------------------- MODULE MCCommsService ---------------------------
(***************************************************************************)
(* Instances of CommsService for TLC.                                      *)
(***************************************************************************)
EXTENDS CommsService, TLC

CONSTANTS m1, u1, u2, u3, ahwp, p1, r1

NothingTracked == << >>

OneRequest == {[id |-> m1, source |-> ahwp, type |-> "request",
                correlationId |-> None, body |-> "ok"]}

(* The service draws its ids from these; they occur nowhere else. *)
FreshIdSymmetry == Permutations({u1, u2, u3})
=============================================================================
