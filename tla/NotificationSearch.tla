------------------------- MODULE NotificationSearch -------------------------
(***************************************************************************)
(* The lookup scripts: they page through GOV.UK Notify's list, newest      *)
(* first, while notifications are created and their statuses change.       *)
(* notify-find-by-date filters by day on the client;                       *)
(* notify-find-by-reference asks for one reference after the other.        *)
(***************************************************************************)
EXTENDS Integers, Sequences, FiniteSetsExt

CONSTANTS
  PageSize,     \* a full page of Notify's list (250)
  DayLength,    \* clock units of a day
  UtcOffset,    \* of the clock the script runs by
  FromDay, ToDay,       \* --from, and --to or None
  Status, Template,     \* --status (which stands for every filter Notify
                        \* applies itself), --template-id, or None
  References,   \* --references, in order
  Names,        \* the references notifications carry
  Emails,       \* what the service sends: [template, reference]
  None,
  MaxTime, MaxList      \* bounds: the clock, the length of Notify's list

ASSUME SearchAssumption ==
  /\ PageSize \in Nat \ {0} /\ DayLength \in Nat \ {0}
  /\ UtcOffset \in -DayLength..DayLength
  /\ FromDay \in Nat /\ ToDay \in Nat \cup {None}
  /\ References \in Seq(Names) /\ References # << >>

VARIABLES
  list,     \* Notify's notifications as they were created; the index is the id
  now,      \* the clock Notify stamps them by, in UTC
  search    \* the script

vars == <<list, now, search>>

(* search.by: which script it is; olderThan: the cursor, 0 for null;       *)
(* matches: what this query found, a set of ids for every page (within a   *)
(* page the order is Notify's, newest first); left: the references still   *)
(* to look up; results: what was found for the others.  expected is        *)
(* history: what Notify had for the query when its first page was asked    *)
(* for.                                                                    *)

(* new Date("YYYY-MM-DD") is midnight in UTC. *)
fromDate == FromDay * DayLength

(* setHours(23, 59, 59, 999) moves it to the end of the day it has on the  *)
(* script's own clock.                                                     *)
toDate ==
  (((ToDay * DayLength + UtcOffset) \div DayLength) + 1) * DayLength
    - UtcOffset - 1

(* Notify's answer: a page of the newest ids before olderThan that have    *)
(* the status and the reference asked for.                                 *)
Queried(i, reference) ==
  /\ Status = None \/ list[i].status = Status
  /\ reference = None \/ list[i].reference = reference

Asked(reference, olderThan) ==
  {i \in DOMAIN list :
     (olderThan = 0 \/ i < olderThan) /\ Queried(i, reference)}

Newer(asked, i) == {j \in asked : j > i}

getNotifications(reference, olderThan) ==
  LET asked == Asked(reference, olderThan)
  IN {i \in asked : Cardinality(Newer(asked, i)) < PageSize}

Before(i) == list[i].createdAt < fromDate

After(i) == ToDay # None /\ list[i].createdAt > toDate

Within(i) == ~Before(i) /\ ~After(i)

(* Mutant: a full page is taken for the last one. *)
LastPageIfFull(page) == Cardinality(page) <= PageSize

(* An empty page or a short one. *)
LastPage(page) == Cardinality(page) < PageSize

Cursor(page) == IF page = {} THEN search.olderThan ELSE Min(page)

(* What Notify has for a query when the script begins to ask for it. *)
Expected(reference) ==
  IF search.olderThan = 0 THEN {i \in DOMAIN list : Queried(i, reference)}
                          ELSE search.expected

-----------------------------------------------------------------------------
(* Mutant: the upper end of the range is forgotten. *)
TakenFrom(i) == ~Before(i)

Taken(i) == Within(i) /\ (Template = None \/ list[i].template = Template)

(* fetchNotifications: take from a page what is within the range, up to a  *)
(* notification before it, which ends the search.                          *)
FetchPage ==
  LET page == getNotifications(None, search.olderThan)
      reachedBefore == \E i \in page : Before(i)
  IN
  /\ search.by = "date" /\ search.pc = "fetch"
  /\ search' = [search EXCEPT
       !.expected = Expected(None),
       !.matches = Append(@, {i \in page : Taken(i)}),
       !.olderThan = Cursor(page),
       !.pc = IF LastPage(page) \/ reachedBefore THEN "done" ELSE "fetch"]
  /\ UNCHANGED <<list, now>>

(* An error of Notify ends the script with exit code 1 and no results. *)
FetchFails ==
  /\ search.by = "date" /\ search.pc = "fetch"
  /\ search' = [search EXCEPT !.pc = "failed"]
  /\ UNCHANGED <<list, now>>

-----------------------------------------------------------------------------
(* On to the next reference, or to the end of the run. *)
Report(matches, expected, error) ==
  search' = [search EXCEPT
    !.olderThan = 0, !.matches = << >>, !.expected = {}, !.left = Tail(@),
    !.results = Append(@, [reference |-> Head(search.left), error |-> error,
                           matches |-> matches, expected |-> expected]),
    !.pc = IF Len(search.left) = 1 THEN "done" ELSE "fetch"]

FetchReferencePage ==
  LET reference == Head(search.left)
      page == getNotifications(reference, search.olderThan)
  IN
  /\ search.by = "reference" /\ search.pc = "fetch"
  /\ IF LastPage(page)
     THEN Report(Append(search.matches, page), Expected(reference), FALSE)
     ELSE search' = [search EXCEPT !.expected = Expected(reference),
                                   !.matches = Append(@, page),
                                   !.olderThan = Cursor(page)]
  /\ UNCHANGED <<list, now>>

(* Mutant: what was found before the error is taken for the result. *)
ReferenceFailsSilently ==
  /\ search.by = "reference" /\ search.pc = "fetch"
  /\ Report(search.matches, Expected(Head(search.left)), FALSE)
  /\ UNCHANGED <<list, now>>

(* Mutant: an error starts the reference over. *)
ReferenceFailsRetrying ==
  /\ search.by = "reference" /\ search.pc = "fetch"
  /\ search' = [search EXCEPT !.olderThan = 0, !.matches = << >>,
                              !.expected = {}]
  /\ UNCHANGED <<list, now>>

(* The error is this reference's result; the others are still looked up. *)
ReferenceFails ==
  /\ search.by = "reference" /\ search.pc = "fetch"
  /\ Report(<< >>, {}, TRUE)
  /\ UNCHANGED <<list, now>>

-----------------------------------------------------------------------------
(* Meanwhile the service sends emails, Notify delivers them, time passes.  *)
Create ==
  /\ Len(list) < MaxList
  /\ \E email \in Emails :
       list' = Append(list, [createdAt |-> now, status |-> "sending",
                             template |-> email.template,
                             reference |-> email.reference])
  /\ UNCHANGED <<now, search>>

Settle ==
  /\ \E i \in DOMAIN list :
       /\ list[i].status = "sending"
       /\ list' = [list EXCEPT ![i].status = "delivered"]
  /\ UNCHANGED <<now, search>>

Pass == now < MaxTime /\ now' = now + 1 /\ UNCHANGED <<list, search>>

Outside == Create \/ Settle \/ Pass

Init ==
  /\ list = << >>
  /\ now = 0
  /\ search \in [by : {"date", "reference"}, pc : {"fetch"}, olderThan : {0},
                 matches : {<< >>}, left : {References}, results : {<< >>},
                 expected : {{}}]

ByDate == FetchPage \/ FetchFails

ByReference == FetchReferencePage \/ ReferenceFails

Next == ByDate \/ ByReference \/ Outside

(* A page comes, or an error does. *)
Spec == Init /\ [][Next]_vars /\ WF_vars(ByDate \/ ByReference)

-----------------------------------------------------------------------------
(* The days asked for, as a clock at that offset counts them; without --to *)
(* all from the first day on.                                              *)
OnDays(i, offset) ==
  LET day == (list[i].createdAt + offset) \div DayLength
  IN FromDay <= day /\ (ToDay = None \/ day <= ToDay)

Found(matches) == UNION {matches[n] : n \in DOMAIN matches}

(* However many pages it takes and whatever arrives or is delivered        *)
(* meanwhile: a search by date that ends has found every notification of   *)
(* the days asked for that was there when it began and still fits, the     *)
(* days being whole days of UTC or of the script's clock.                  *)
SearchComplete ==
  search.by = "date" /\ search.pc = "done" =>
    \E offset \in {0, UtcOffset} :
      \A i \in search.expected :
        /\ OnDays(i, offset)
        /\ Template = None \/ list[i].template = Template
        /\ Status = None \/ list[i].status = Status
        => i \in Found(search.matches)

NewestFirst(matches) ==
  \A m, n \in DOMAIN matches : m < n =>
    \A i \in matches[m], j \in matches[n] : i > j

(* Neither script finds a notification twice or out of order across pages, *)
(* and the search by date finds nothing of other days or templates.        *)
SearchSound ==
  /\ NewestFirst(search.matches)
  /\ \A n \in DOMAIN search.results : NewestFirst(search.results[n].matches)
  /\ search.by = "date" => \A i \in Found(search.matches) :
       /\ OnDays(i, 0)
       /\ Template = None \/ list[i].template = Template

(* Every reference is reported, in the order given, with an error or with  *)
(* all that Notify had of it: "no results" is never printed for one whose  *)
(* lookup broke off.                                                       *)
ReferencesReported ==
  /\ search.by = "reference" /\ search.pc = "done" =>
       Len(search.results) = Len(References)
  /\ \A n \in DOMAIN search.results :
       LET r == search.results[n] IN
       /\ r.reference = References[n]
       /\ \/ r.error /\ r.matches = << >>
          \/ \A i \in r.expected :
               Status = None \/ list[i].status = Status =>
                 i \in Found(r.matches)

(* The script ends although the list grows while it pages through it. *)
SearchEnds == <>(search.pc # "fetch")
=============================================================================
