------------------------ MODULE MCNotificationSearch ------------------------
(***************************************************************************)
(* Instances of NotificationSearch for TLC.                                *)
(***************************************************************************)
EXTENDS NotificationSearch

CONSTANTS a, b, t1, t2

(* Two references, looked up one after the other. *)
TwoReferences == <<a, b>>

(* Emails the scripts tell apart, by template or by reference. *)
SomeEmails == {[template |-> t1, reference |-> a],
               [template |-> t1, reference |-> b],
               [template |-> t2, reference |-> a]}
=============================================================================
