---------------------------- MODULE SonarReport -----------------------------
(***************************************************************************)
(* scripts/sonar-scan.js: run the scanner, read the quality gate, look for *)
(* accepted issues nobody commented on, with a pool of workers that fetch  *)
(* the changelogs, and say by the exit code whether the code may pass.     *)
(***************************************************************************)
EXTENDS Integers, SequencesExt

CONSTANTS
  Killed,       \* null, the exit code of a scanner ended by a signal
  ScanCodes,    \* exit codes of the scanner, Killed among them
  PageSize,     \* a page of accepted issues (500)
  Concurrency,  \* CHANGELOG_FETCH_CONCURRENCY
  MaxIssues     \* bound: accepted issues of the project

ASSUME SonarAssumption ==
  /\ Killed \notin Nat /\ ScanCodes \subseteq Nat \cup {Killed}
  /\ PageSize \in Nat \ {0} /\ Concurrency \in Nat \ {0} /\ MaxIssues \in Nat

VARIABLES
  server,   \* SonarCloud: the branch's quality gate and the accepted
            \* issues' changelogs
  script,   \* sonarScan: where it is, what it knows, its exit code
  pool      \* mapConcurrent: the index each worker has, the next one, results

vars == <<server, script, pool>>

GateStatuses == {"OK", "WARN", "ERROR", "NONE"}

(* A changelog is the kinds of items in it. *)
Changelog == SUBSET {"other", "blank", "comment"}

issueHasComment(changelog) == "comment" \in changelog

NoPool == [worker |-> << >>, nextIndex |-> 1, results |-> << >>]

Exit(code) == script' = [script EXCEPT !.pc = "exited", !.exit = code]

(* The process ends of itself or by process.exit(null): its exit code is 0.*)
ExitWith(code) == Exit(IF code = Killed THEN 0 ELSE code)

-----------------------------------------------------------------------------
(* Whatever the scanner exits with, it resolves; docker that cannot be run,*)
(* or a missing token or project key before, ends the script with 1.  A    *)
(* scan that failed may have been uploaded (its gate is ERROR) or not:     *)
(* then the gate is still that of an earlier scan.                         *)
RunScanner ==
  /\ script.pc = "scan"
  /\ \/ \E code \in ScanCodes, gate \in GateStatuses :
          /\ code = 0 => gate # "ERROR"
          /\ server' = [server EXCEPT !.gate = gate]
          /\ script' = [script EXCEPT !.pc = "gate", !.scanCode = code]
     \/ Exit(1) /\ UNCHANGED server
  /\ UNCHANGED pool

(* Mutant: whatever is not an error passes. *)
PassedUnlessError(gate) == gate # "ERROR"

(* printSummary: what passes. *)
Passed(gate) == gate \in {"OK", "WARN"}

(* Quality gate and measures; if they cannot be had the scan's exit code   *)
(* is the script's, and an error if the scan went well.                    *)
FetchQualityGate ==
  /\ script.pc = "gate"
  /\ \/ script' = [script EXCEPT !.pc = "accepted",
                                 !.passed = Passed(server.gate)]
     \/ ExitWith(IF script.scanCode # 0 THEN script.scanCode ELSE 1)
  /\ UNCHANGED <<server, pool>>

LastPage(page, found) == Len(found) >= Len(server.issues) \/ Len(page) < PageSize

(* A page of accepted issues; after the last one every worker takes an     *)
(* issue.  An error is logged: the comments go unchecked.                  *)
FetchAcceptedIssues ==
  LET first == Len(script.found)
      page == SubSeq(server.issues, first + 1,
                IF first + PageSize < Len(server.issues)
                THEN first + PageSize ELSE Len(server.issues))
      found == script.found \o page
      size == IF Concurrency < Len(found) THEN Concurrency ELSE Len(found)
  IN
  /\ script.pc = "accepted"
  /\ \/ /\ script' = [script EXCEPT
             !.found = found,
             !.pc = IF LastPage(page, found) THEN "changelogs" ELSE @]
        /\ pool' = IF LastPage(page, found)
                   THEN [NoPool EXCEPT !.worker = [w \in 1..size |-> w],
                                       !.nextIndex = size + 1,
                                       !.results = [n \in DOMAIN found |-> {}]]
                   ELSE pool
     \/ /\ script' = [script EXCEPT !.pc = "decide"]
        /\ UNCHANGED pool
  /\ UNCHANGED server

-----------------------------------------------------------------------------
(* Mutant: the answers are pushed in the order they arrive. *)
FetchChangelogPushing(w) ==
  LET free == CHOOSE n \in DOMAIN pool.results :
                /\ pool.results[n] = {}
                /\ \A k \in 1..(n - 1) : pool.results[k] # {}
  IN
  /\ script.pc # "exited" /\ pool.worker[w] # 0
  /\ pool' = [pool EXCEPT
       !.results[free] = {issueHasComment(script.found[pool.worker[w]])},
       !.worker[w] = IF pool.nextIndex <= Len(script.found)
                     THEN pool.nextIndex ELSE 0,
       !.nextIndex = @ + 1]
  /\ UNCHANGED <<server, script>>

(* The worker stores what it was told under the issue's own index and      *)
(* takes the next index, if there is one (0: none), in the same turn.      *)
FetchChangelog(w) ==
  /\ script.pc # "exited" /\ pool.worker[w] # 0
  /\ pool' = [pool EXCEPT
       !.results[pool.worker[w]] = {issueHasComment(script.found[pool.worker[w]])},
       !.worker[w] = IF pool.nextIndex <= Len(script.found)
                     THEN pool.nextIndex ELSE 0,
       !.nextIndex = @ + 1]
  /\ UNCHANGED <<server, script>>

(* The first rejection rejects Promise.all and is logged: the comments go  *)
(* unchecked.  The other workers go on.                                    *)
ChangelogFails(w) ==
  /\ script.pc # "exited" /\ pool.worker[w] # 0
  /\ pool' = [pool EXCEPT !.worker[w] = 0]
  /\ script' = IF script.pc = "changelogs" THEN [script EXCEPT !.pc = "decide"]
                                          ELSE script
  /\ UNCHANGED server

PoolDone == \A w \in DOMAIN pool.worker : pool.worker[w] = 0

JoinWorkers ==
  /\ script.pc = "changelogs" /\ PoolDone
  /\ script' = [script EXCEPT !.pc = "decide", !.checked = TRUE,
       !.flagged = {n \in DOMAIN script.found : pool.results[n] # {TRUE}}]
  /\ UNCHANGED <<server, pool>>

(* Issues and hotspots are fetched for display only, then exit(1).  With   *)
(* nothing to object to the process ends when the last worker is done.     *)
Decide ==
  /\ script.pc = "decide"
  /\ IF ~script.passed \/ script.flagged # {} THEN Exit(1)
                                             ELSE PoolDone /\ Exit(0)
  /\ UNCHANGED <<server, pool>>

Init ==
  /\ server \in [gate : {"NONE"}, issues : BoundedSeq(Changelog, MaxIssues)]
  /\ script = [pc |-> "scan", scanCode |-> 0, passed |-> FALSE, found |-> << >>,
               checked |-> FALSE, flagged |-> {}, exit |-> -1]
  /\ pool = NoPool

Next ==
  \/ RunScanner \/ FetchQualityGate \/ FetchAcceptedIssues
  \/ \E w \in DOMAIN pool.worker : FetchChangelog(w) \/ ChangelogFails(w)
  \/ JoinWorkers \/ Decide

Spec == Init /\ [][Next]_vars

-----------------------------------------------------------------------------
Unjustified == {n \in DOMAIN server.issues : "comment" \notin server.issues[n]}

(* Whatever order the answers arrive in, and whichever fail: the issues    *)
(* flagged are exactly those without comment.                              *)
FlaggedExactly == script.checked => script.flagged = Unjustified

(* Exit code 0 means that the quality gate was read and passes.  When the  *)
(* comments were read too, and only then, they count as much as the gate:  *)
(* the code is 0 exactly if both are in order.                             *)
ExitTellsWhatWasRead ==
  /\ script.exit = 0 => script.passed /\ server.gate \in {"OK", "WARN"}
  /\ script.checked /\ script.pc = "exited" =>
       (script.exit = 0 <=> script.passed /\ Unjustified = {})
=============================================================================
