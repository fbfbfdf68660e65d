------------------------- MODULE MCServiceLifetime --------------------------
(***************************************************************************)
(* Instances of ServiceLifetime for TLC.                                   *)
(***************************************************************************)
EXTENDS ServiceLifetime

CONSTANTS m1, u1, ahwp, p1, r1

NothingTracked == << >>

Msg(id, body) == [id |-> id, source |-> ahwp, type |-> "request",
                  correlationId |-> None, body |-> body]

(* A valid request and a message that cannot be parsed. *)
WithPoison == {Msg(m1, "ok"), Msg(None, "unparseable")}
=============================================================================
