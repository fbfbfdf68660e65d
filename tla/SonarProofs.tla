---------------------------- MODULE SonarProofs -----------------------------
(***************************************************************************)
(* Theorems about SonarReport, for any number of issues, of workers and of *)
(* issues on a page: which issues are flagged, and what exit code 0 means. *)
(***************************************************************************)
EXTENDS SonarReport, TLAPS

-----------------------------------------------------------------------------
(* The invariant.                                                          *)

Script == [pc : {"scan", "gate", "accepted", "changelogs", "decide", "exited"},
           scanCode : ScanCodes \cup {0}, passed : BOOLEAN,
           found : Seq(Changelog), checked : BOOLEAN, flagged : SUBSET Nat,
           exit : ScanCodes \cup {-1, 0, 1}]

Pool == [worker : Seq(Nat), nextIndex : Nat \ {0},
         results : Seq(SUBSET BOOLEAN)]

SonarTypeOK ==
  /\ server \in [gate : GateStatuses, issues : Seq(Changelog)]
  /\ script \in Script
  /\ pool \in Pool

Size == Len(server.issues)

(* What was found of the accepted issues is a beginning of them, and all   *)
(* of them from the moment the workers start.                              *)
FoundInOrder ==
  /\ Len(script.found) <= Size
  /\ \A n \in 1..Len(script.found) : script.found[n] = server.issues[n]
  /\ script.pc \in {"scan", "gate"} => script.found = << >>
  /\ script.pc \in {"scan", "gate", "accepted"} => pool = NoPool
  /\ script.pc = "changelogs" => Len(script.found) = Size

(* An issue that was given out was answered for, or a worker is at it; no  *)
(* worker rests before all were given out.                                 *)
IssuesGivenOut ==
  script.pc = "changelogs" =>
    /\ Len(pool.results) = Size
    /\ \A n \in 1..Size :
         \/ pool.results[n] = {issueHasComment(server.issues[n])}
         \/ pool.results[n] = {} /\ \E w \in DOMAIN pool.worker :
                                      pool.worker[w] = n
         \/ pool.results[n] = {} /\ pool.nextIndex <= n
    /\ \A w \in DOMAIN pool.worker :
         /\ pool.worker[w] <= Size
         /\ pool.worker[w] = 0 => pool.nextIndex > Size
    /\ pool.worker = << >> => Size = 0

(* What the script knows by the time it decides.                           *)
Decision ==
  /\ script.checked => /\ script.pc \in {"decide", "exited"}
                       /\ script.flagged = Unjustified
  /\ script.pc \in {"accepted", "changelogs", "decide"} =>
       script.passed = Passed(server.gate)
  /\ Killed \notin ScanCodes /\ script.exit = 0 =>
       /\ script.pc = "exited" /\ script.passed /\ Passed(server.gate)
       /\ script.flagged = {}
  /\ script.pc # "exited" => script.exit # 0
  /\ script.pc = "exited" /\ script.checked =>
       (script.exit = 0 <=> script.passed /\ script.flagged = {})

SonarInv == SonarTypeOK /\ FoundInOrder /\ IssuesGivenOut /\ Decision

LEMMA SonarInit == Init => SonarInv
<1> SUFFICES ASSUME Init
             PROVE  SonarInv
  OBVIOUS
<1>1. PICK m \in 0..MaxIssues : server.issues \in [1..m -> Changelog]
  <2>1. server.issues \in BoundedSeq(Changelog, MaxIssues)
    BY DEF Init
  <2> QED
    BY <2>1 DEF BoundedSeq, SeqOf
<1>2. server.issues \in Seq(Changelog)
  BY <1>1, SonarAssumption
<1>3. SonarTypeOK
  BY <1>2 DEF Init, SonarTypeOK, Script, Pool, NoPool, GateStatuses
<1> QED
  BY <1>2, <1>3
  DEF Init, SonarInv, FoundInOrder, IssuesGivenOut, Decision, Size

LEMMA ScanStep ==
  ASSUME SonarInv, RunScanner
  PROVE  SonarInv'
<1> USE SonarAssumption DEF SonarInv
<1>1. SonarTypeOK'
  BY DEF SonarTypeOK, RunScanner, Exit, Script
<1>2. FoundInOrder'
  BY DEF SonarTypeOK, FoundInOrder, RunScanner, Exit, Script, Size
<1>3. IssuesGivenOut'
  BY DEF SonarTypeOK, IssuesGivenOut, RunScanner, Exit, Script
<1>4. ~script'.checked /\ script'.pc \in {"gate", "exited"} /\ script'.exit # 0
  <2>1. script.pc = "scan" /\ ~script.checked /\ script.exit # 0
    BY DEF SonarTypeOK, Decision, RunScanner, Script
  <2>2. \/ \E code \in ScanCodes :
             script' = [script EXCEPT !.pc = "gate", !.scanCode = code]
        \/ script' = [script EXCEPT !.pc = "exited", !.exit = 1]
    BY DEF RunScanner, Exit
  <2>3. script \in Script
    BY DEF SonarTypeOK
  <2>4. CASE script' = [script EXCEPT !.pc = "exited", !.exit = 1]
    BY <2>1, <2>3, <2>4 DEF Script
  <2>5. ASSUME NEW code,
               script' = [script EXCEPT !.pc = "gate", !.scanCode = code]
        PROVE  ~script'.checked /\ script'.pc = "gate" /\ script'.exit # 0
    BY <2>1, <2>3, <2>5 DEF Script
  <2> QED
    BY <2>2, <2>4, <2>5
<1>5. Decision'
  BY <1>4 DEF Decision
<1> QED
  BY <1>1, <1>2, <1>3, <1>5

LEMMA GateStep ==
  ASSUME SonarInv, FetchQualityGate
  PROVE  SonarInv'
<1> USE SonarAssumption DEF SonarInv
<1>1. PICK code \in ScanCodes \cup {0, 1} :
        \/ script' = [script EXCEPT !.pc = "accepted",
                                    !.passed = Passed(server.gate)]
        \/ Exit(code) /\ (code = 0 => Killed \in ScanCodes)
  <2>1. script.scanCode \in ScanCodes \cup {0}
    BY DEF SonarTypeOK, Script
  <2>2. ASSUME NEW c \in ScanCodes \cup {1}, c # 0, ExitWith(c)
        PROVE  \E code \in ScanCodes \cup {0, 1} :
                 Exit(code) /\ (code = 0 => Killed \in ScanCodes)
    <3>1. CASE c = Killed
      <4>1. Killed \in ScanCodes /\ Exit(0)
        BY <2>2, <3>1 DEF ExitWith
      <4> QED
        BY <4>1
    <3>2. CASE c # Killed
      BY <2>2, <3>2 DEF ExitWith
    <3> QED
      BY <3>1, <3>2
  <2> QED
    BY <2>1, <2>2 DEF FetchQualityGate
<1>2. script.pc = "gate" /\ UNCHANGED <<server, pool>>
  BY DEF FetchQualityGate
<1>3. SonarTypeOK'
  <2>1. Passed(server.gate) \in BOOLEAN
    BY DEF Passed
  <2> QED
    BY <1>1, <1>2, <2>1 DEF SonarTypeOK, Exit, Script
<1>4. FoundInOrder'
  BY <1>1, <1>2 DEF SonarTypeOK, FoundInOrder, Exit, Script, Size
<1>5. IssuesGivenOut' /\ Decision'
  BY <1>1, <1>2
  DEF SonarTypeOK, IssuesGivenOut, Decision, Exit, Script, Unjustified
<1> QED
  BY <1>3, <1>4, <1>5

LEMMA DecideStep ==
  ASSUME SonarInv, Decide
  PROVE  SonarInv'
<1> USE DEF SonarInv
<1>1. PICK code \in {0, 1} :
        /\ Exit(code)
        /\ code = 0 <=> script.passed /\ script.flagged = {}
  BY DEF Decide
<1>2. script.pc = "decide" /\ UNCHANGED <<server, pool>>
  BY DEF Decide
<1>3. SonarTypeOK'
  BY <1>1, <1>2 DEF SonarTypeOK, Exit, Script
<1>4. FoundInOrder'
  BY <1>1, <1>2 DEF SonarTypeOK, FoundInOrder, Exit, Script, Size
<1>5. IssuesGivenOut' /\ Decision'
  BY <1>1, <1>2
  DEF SonarTypeOK, IssuesGivenOut, Decision, Exit, Script, Unjustified
<1> QED
  BY <1>3, <1>4, <1>5

LEMMA ChangelogFailsStep ==
  ASSUME SonarInv, NEW w \in DOMAIN pool.worker, ChangelogFails(w)
  PROVE  SonarInv'
<1> USE DEF SonarInv
<1>1. /\ script.pc # "exited"
      /\ UNCHANGED server
      /\ pool' = [pool EXCEPT !.worker[w] = 0]
      /\ script' = IF script.pc = "changelogs"
                   THEN [script EXCEPT !.pc = "decide"] ELSE script
  BY DEF ChangelogFails
<1>2. SonarTypeOK'
  <2>1. script' \in Script
    BY <1>1 DEF SonarTypeOK, Script
  <2>2. [pool.worker EXCEPT ![w] = 0] \in Seq(Nat)
    BY DEF SonarTypeOK, Pool
  <2>3. pool' \in Pool
    BY <1>1, <2>2 DEF SonarTypeOK, Pool
  <2> QED
    BY <1>1, <2>1, <2>3 DEF SonarTypeOK
<1>3. script.pc \in {"changelogs", "decide"}
  BY <1>1 DEF SonarTypeOK, Script, FoundInOrder, NoPool
<1>4. FoundInOrder'
  BY <1>1, <1>3 DEF SonarTypeOK, FoundInOrder, Script, Size
<1>5. IssuesGivenOut' /\ Decision'
  BY <1>1, <1>3
  DEF SonarTypeOK, IssuesGivenOut, Decision, Script, Unjustified
<1> QED
  BY <1>2, <1>4, <1>5

(* Storing under any index keeps a sequence one of the same kind of things.*)
LEMMA AnswerStored ==
  ASSUME NEW S, NEW s \in Seq(S), NEW i, NEW e \in S
  PROVE  [s EXCEPT ![i] = e] \in Seq(S)
<1>1. PICK n \in Nat : s \in [1..n -> S]
  <2>1. Len(s) \in Nat /\ s \in [1..Len(s) -> S]
    OBVIOUS
  <2> QED
    BY <2>1
<1>2. [s EXCEPT ![i] = e] \in [1..n -> S]
  BY <1>1
<1> QED
  BY <1>1, <1>2

LEMMA FetchChangelogStep ==
  ASSUME SonarInv, NEW w \in DOMAIN pool.worker, FetchChangelog(w)
  PROVE  SonarInv'
<1> USE DEF SonarInv
<1> DEFINE k == pool.worker[w]
           next == IF pool.nextIndex <= Len(script.found)
                   THEN pool.nextIndex ELSE 0
<1>1. /\ script.pc # "exited" /\ k # 0
      /\ UNCHANGED <<server, script>>
      /\ pool' = [pool EXCEPT
           !.results[k] = {issueHasComment(script.found[k])},
           !.worker[w] = next, !.nextIndex = @ + 1]
  BY DEF FetchChangelog
<1>2. /\ pool.worker \in Seq(Nat) /\ pool.nextIndex \in Nat \ {0}
      /\ pool.results \in Seq(SUBSET BOOLEAN)
      /\ script.found \in Seq(Changelog)
      /\ server.issues \in Seq(Changelog)
  BY DEF SonarTypeOK, Script, Pool
<1>3. /\ pool'.worker = [pool.worker EXCEPT ![w] = next]
      /\ pool'.nextIndex = pool.nextIndex + 1
      /\ pool'.results = [pool.results EXCEPT
                            ![k] = {issueHasComment(script.found[k])}]
      /\ pool' \in Pool
  <2>1. issueHasComment(script.found[k]) \in BOOLEAN
    BY DEF issueHasComment
  <2> DEFINE answer == {issueHasComment(script.found[k])}
  <2>2. next \in Nat /\ answer \in SUBSET BOOLEAN
    BY <1>2, <2>1
  <2> HIDE DEF next, answer
  <2>3. [pool.worker EXCEPT ![w] = next] \in Seq(Nat)
    BY <1>2, <2>2
  <2>4. [pool.results EXCEPT ![k] = answer] \in Seq(SUBSET BOOLEAN)
    BY <1>2, <2>2, AnswerStored
  <2>5. pool \in Pool
    BY DEF SonarTypeOK
  <2>6. /\ pool'.worker = [pool.worker EXCEPT ![w] = next]
        /\ pool'.nextIndex = pool.nextIndex + 1
        /\ pool'.results = [pool.results EXCEPT ![k] = answer]
    BY <1>1, <2>5 DEF Pool, answer
  <2>7. pool' = [worker |-> pool'.worker, nextIndex |-> pool'.nextIndex,
                 results |-> pool'.results]
    BY <1>1, <2>5 DEF Pool
  <2>8. /\ pool'.worker \in Seq(Nat) /\ pool'.nextIndex \in Nat \ {0}
        /\ pool'.results \in Seq(SUBSET BOOLEAN)
    BY <1>2, <2>3, <2>4, <2>6
  <2>9. pool' \in Pool
    <3> DEFINE p1 == pool'.worker
               p2 == pool'.nextIndex
               p3 == pool'.results
    <3>1. p1 \in Seq(Nat) /\ p2 \in Nat \ {0} /\ p3 \in Seq(SUBSET BOOLEAN)
      BY <2>8
    <3>2. pool' = [worker |-> p1, nextIndex |-> p2, results |-> p3]
      BY <2>7
    <3> HIDE DEF p1, p2, p3
    <3> QED
      BY <3>1, <3>2 DEF Pool
  <2> QED
    BY <2>6, <2>9 DEF answer
<1>4. script.pc \in {"changelogs", "decide"}
  BY <1>1 DEF SonarTypeOK, Script, FoundInOrder, NoPool
<1>5. SonarTypeOK' /\ FoundInOrder' /\ Decision'
  BY <1>1, <1>3, <1>4
  DEF SonarTypeOK, FoundInOrder, Decision, Size, Unjustified
<1>6. ASSUME script.pc = "changelogs"
      PROVE  IssuesGivenOut'
  <2>1. Len(script.found) = Size /\ k \in 1..Size /\ Len(pool.results) = Size
    BY <1>1, <1>2, <1>6 DEF IssuesGivenOut, FoundInOrder, Size
  <2>2. script.found[k] = server.issues[k]
    BY <2>1 DEF FoundInOrder
  <2>3. Len(pool'.results) = Size /\ Size' = Size
    BY <1>1, <1>2, <1>3, <2>1 DEF Size
  <2>4. ASSUME NEW n \in 1..Size
        PROVE  \/ pool'.results[n] = {issueHasComment(server.issues[n])}
               \/ pool'.results[n] = {} /\ \E v \in DOMAIN pool'.worker :
                                             pool'.worker[v] = n
               \/ pool'.results[n] = {} /\ pool'.nextIndex <= n
    <3>1. CASE n = k
      BY <1>2, <1>3, <2>1, <2>2, <3>1
    <3>2. CASE n # k
      <4>1. pool'.results[n] = pool.results[n]
        BY <1>2, <1>3, <2>1, <3>2
      <4>2. ASSUME NEW v \in DOMAIN pool.worker, pool.worker[v] = n
            PROVE  v \in DOMAIN pool'.worker /\ pool'.worker[v] = n
        BY <1>2, <1>3, <3>2, <4>2
      <4>3. \/ pool.results[n] = {issueHasComment(server.issues[n])}
            \/ pool.results[n] = {} /\ \E v \in DOMAIN pool.worker :
                                         pool.worker[v] = n
            \/ pool.results[n] = {} /\ pool.nextIndex <= n
        BY <1>6 DEF IssuesGivenOut
      <4>4. CASE pool.nextIndex = n
        <5>1. w \in DOMAIN pool'.worker /\ pool'.worker[w] = n
          BY <1>2, <1>3, <2>1, <4>4
        <5> QED
          BY <4>1, <4>2, <4>3, <5>1
      <4>5. CASE pool.nextIndex # n
        <5>1. pool.nextIndex <= n => pool'.nextIndex <= n
          BY <1>2, <1>3, <4>5
        <5> QED
          BY <4>1, <4>2, <4>3, <5>1
      <4> QED
        BY <4>4, <4>5
    <3> QED
      BY <3>1, <3>2
  <2>5. \A v \in DOMAIN pool'.worker :
          /\ pool'.worker[v] <= Size
          /\ pool'.worker[v] = 0 => pool'.nextIndex > Size
    <3> SUFFICES ASSUME NEW v \in DOMAIN pool'.worker
                 PROVE  /\ pool'.worker[v] <= Size
                        /\ pool'.worker[v] = 0 => pool'.nextIndex > Size
      OBVIOUS
    <3>1. v \in DOMAIN pool.worker /\ Size \in Nat
      BY <1>2, <1>3 DEF Size
    <3>2. CASE v = w
      <4>1. pool'.worker[v] = next
        BY <1>2, <1>3, <3>1, <3>2
      <4>2. CASE pool.nextIndex <= Size
        BY <1>2, <1>3, <2>1, <3>1, <4>1, <4>2
      <4>3. CASE pool.nextIndex > Size
        <5>1. next = 0
          BY <1>2, <2>1, <3>1, <4>3
        <5>2. pool'.nextIndex > Size
          BY <1>2, <1>3, <3>1, <4>3
        <5> QED
          BY <3>1, <4>1, <5>1, <5>2
      <4> QED
        BY <1>2, <3>1, <4>2, <4>3
    <3>3. CASE v # w
      <4>1. pool'.worker[v] = pool.worker[v]
        BY <1>2, <1>3, <3>1, <3>3
      <4> QED
        BY <1>2, <1>3, <1>6, <3>1, <4>1 DEF IssuesGivenOut
    <3> QED
      BY <3>2, <3>3
  <2>6. pool'.worker # << >>
    BY <1>2, <1>3
  <2> QED
    BY <1>1, <2>3, <2>4, <2>5, <2>6 DEF IssuesGivenOut
<1> QED
  BY <1>1, <1>4, <1>5, <1>6 DEF IssuesGivenOut
(* A page is a piece of the accepted issues; with the page found stays a    *)
(* beginning of them, and after the last page it is all of them.           *)
LastFetched == IF Len(script.found) + PageSize < Size
        THEN Len(script.found) + PageSize ELSE Size

NextPage == SubSeq(server.issues, Len(script.found) + 1, LastFetched)

LEMMA PageInOrder ==
  ASSUME SonarTypeOK, FoundInOrder
  PROVE  /\ LastFetched \in Nat /\ LastFetched <= Size
         /\ script.found \o NextPage \in Seq(Changelog)
         /\ Len(script.found \o NextPage) = LastFetched
         /\ \A n \in 1..LastFetched :
              (script.found \o NextPage)[n] = server.issues[n]
         /\ LastPage(NextPage, script.found \o NextPage) => LastFetched = Size
<1> DEFINE found == script.found
           issues == server.issues
           page == NextPage
           last == LastFetched
<1>0. /\ found \in Seq(Changelog) /\ issues \in Seq(Changelog)
      /\ Len(found) <= Len(issues)
      /\ \A n \in 1..Len(found) : found[n] = issues[n]
      /\ PageSize \in Nat \ {0}
      /\ last = IF Len(found) + PageSize < Len(issues)
                THEN Len(found) + PageSize ELSE Len(issues)
      /\ page = SubSeq(issues, Len(found) + 1, last)
  BY SonarAssumption
  DEF SonarTypeOK, FoundInOrder, Script, Size, LastFetched, NextPage
<1> HIDE DEF found, issues, page, last
<1>1. Len(found) \in Nat /\ Len(issues) \in Nat /\ last \in Nat
      /\ Len(found) <= last /\ last <= Len(issues)
  BY <1>0
<1>2. page \in Seq(Changelog) /\ Len(page) = last - Len(found)
  BY <1>0, <1>1
<1>3. \A n \in 1..Len(page) : page[n] = issues[Len(found) + n]
  BY <1>0, <1>1
<1>4. found \o page \in Seq(Changelog) /\ Len(found \o page) = last
  BY <1>0, <1>1, <1>2
<1>5. ASSUME NEW n \in 1..last
      PROVE  (found \o page)[n] = issues[n]
  <2>1. CASE n <= Len(found)
    <3>1. n \in 1..Len(found)
      BY <1>1, <2>1
    <3>2. (found \o page)[n] = found[n]
      BY <1>0, <1>1, <1>2, <3>1
    <3> QED
      BY <1>0, <3>1, <3>2
  <2>2. CASE n > Len(found)
    <3>1. n - Len(found) \in 1..Len(page)
      BY <1>0, <1>1, <1>2, <2>2
    <3>2. (found \o page)[n] = page[n - Len(found)]
      BY <1>0, <1>1, <1>2, <2>2, <3>1
    <3>3. page[n - Len(found)] = issues[Len(found) + (n - Len(found))]
      BY <1>3, <3>1
    <3>4. Len(found) + (n - Len(found)) = n
      BY <1>1
    <3> QED
      BY <3>2, <3>3, <3>4, Zenon
  <2>3. n <= Len(found) \/ n > Len(found)
    BY <1>1
  <2> QED
    BY <2>1, <2>2, <2>3, Zenon
<1>6. Len(found \o page) >= Len(issues) \/ Len(page) < PageSize
        => last = Len(issues)
  BY <1>0, <1>1, <1>2, <1>4
<1> QED
  <2>1. LastPage(page, found \o page) => last = Len(issues)
    BY <1>6 DEF LastPage, issues
  <2>2. Len(issues) = Size
    BY DEF Size, issues
  <2>3. /\ last \in Nat /\ last <= Size
        /\ found \o page \in Seq(Changelog) /\ Len(found \o page) = last
        /\ \A n \in 1..last : (found \o page)[n] = issues[n]
        /\ LastPage(page, found \o page) => last = Size
    BY <1>1, <1>4, <1>5, <2>1, <2>2
  <2> QED
    BY <2>3 DEF found, issues, page, last

LEMMA FetchAcceptedStep ==
  ASSUME SonarInv, FetchAcceptedIssues
  PROVE  SonarInv'
<1> USE SonarAssumption DEF SonarInv
<1> DEFINE first == Len(script.found)
           last == IF first + PageSize < Len(server.issues)
                   THEN first + PageSize ELSE Len(server.issues)
           page == SubSeq(server.issues, first + 1, last)
           found == script.found \o page
           size == IF Concurrency < Len(found) THEN Concurrency ELSE Len(found)
           started == [NoPool EXCEPT !.worker = [w \in 1..size |-> w],
                                     !.nextIndex = size + 1,
                                     !.results = [n \in DOMAIN found |-> {}]]
<1>1. /\ script.pc = "accepted" /\ UNCHANGED server
      /\ \/ /\ script' = [script EXCEPT
                 !.found = found,
                 !.pc = IF LastPage(page, found) THEN "changelogs" ELSE @]
            /\ pool' = IF LastPage(page, found) THEN started ELSE pool
         \/ script' = [script EXCEPT !.pc = "decide"] /\ UNCHANGED pool
  BY DEF FetchAcceptedIssues
<1>2. /\ script \in Script /\ server.issues \in Seq(Changelog)
      /\ script.found \in Seq(Changelog)
      /\ script.flagged \in SUBSET Nat
  BY DEF SonarTypeOK, Script
<1>3. /\ found \in Seq(Changelog) /\ Len(found) = last /\ last \in Nat
      /\ last <= Size
      /\ \A n \in 1..last : found[n] = server.issues[n]
      /\ LastPage(page, found) => last = Size
  <2>1. last = LastFetched /\ page = NextPage
    BY DEF LastFetched, NextPage, Size
  <2> HIDE DEF last, page
  <2> QED
    BY <2>1, PageInOrder
<1>4. pool = NoPool /\ ~script.checked /\ script.exit # 0
  BY <1>1 DEF FoundInOrder, Decision
<1> HIDE DEF last, page, found
<1>5. CASE script' = [script EXCEPT !.pc = "decide"] /\ UNCHANGED pool
  <2>1. /\ script' \in Script /\ script'.pc = "decide"
        /\ script'.found = script.found /\ script'.passed = script.passed
        /\ script'.checked = script.checked /\ script'.exit = script.exit
    BY <1>2, <1>5 DEF Script
  <2>2. SonarTypeOK' /\ FoundInOrder'
    BY <1>1, <1>4, <1>5, <2>1 DEF SonarTypeOK, FoundInOrder, Size
  <2> QED
    BY <1>1, <1>4, <2>1, <2>2 DEF IssuesGivenOut, Decision
<1>6. ASSUME script' = [script EXCEPT
               !.found = found,
               !.pc = IF LastPage(page, found) THEN "changelogs" ELSE @],
             pool' = IF LastPage(page, found) THEN started ELSE pool
      PROVE  SonarInv'
  <2>1. /\ script' \in Script /\ script'.found = found
        /\ script'.pc = IF LastPage(page, found) THEN "changelogs"
                                                 ELSE "accepted"
        /\ script'.passed = script.passed
        /\ script'.checked = script.checked /\ script'.exit = script.exit
    BY <1>1, <1>2, <1>3, <1>6 DEF Script
  <2>2. size \in Nat /\ size <= last /\ (size = 0 => last = 0)
    BY <1>3
  <2> HIDE DEF size
  <2>3. /\ started.worker = [w \in 1..size |-> w]
        /\ started.nextIndex = size + 1
        /\ started.results = [n \in 1..last |-> {}]
        /\ started = [worker |-> started.worker,
                      nextIndex |-> started.nextIndex,
                      results |-> started.results]
    <3> DEFINE a == [w \in 1..size |-> w]
               c == [n \in DOMAIN found |-> {}]
    <3>1. c = [n \in 1..last |-> {}]
      BY <1>3
    <3> HIDE DEF a, c, size, found
    <3>2. started = [NoPool EXCEPT !.worker = a, !.nextIndex = size + 1,
                                   !.results = c]
      BY DEF a, c
    <3> HIDE DEF started
    <3>3. started = [worker |-> a, nextIndex |-> size + 1, results |-> c]
      BY <3>2 DEF NoPool
    <3> QED
      BY <3>1, <3>3 DEF a
  <2> HIDE DEF started
  <2>4. started.worker \in Seq(Nat) /\ Len(started.worker) = size
    BY <2>2, <2>3
  <2>5. started.results \in Seq(SUBSET BOOLEAN) /\ Len(started.results) = last
    <3> DEFINE Answers == SUBSET BOOLEAN
               none == {}
    <3>1. none \in Answers /\ started.results = [n \in 1..last |-> none]
      BY <2>3
    <3> HIDE DEF Answers, none
    <3>2. started.results \in Seq(Answers) /\ Len(started.results) = last
      BY <1>3, <3>1
    <3> QED
      BY <3>2 DEF Answers
  <2>6. started \in Pool
    <3>1. started.nextIndex \in Nat \ {0}
      BY <2>2, <2>3
    <3> QED
      BY <2>3, <2>4, <2>5, <3>1 DEF Pool
  <2>7. SonarTypeOK'
    BY <1>1, <1>6, <2>1, <2>6 DEF SonarTypeOK
  <2>8. FoundInOrder'
    <3>1. Size' = Size
      BY <1>1 DEF Size
    <3>2. Len(script'.found) <= Size'
      BY <1>3, <2>1, <3>1
    <3>3. \A n \in 1..Len(script'.found) : script'.found[n] = server'.issues[n]
      BY <1>1, <1>3, <2>1
    <3>4. script'.pc = "changelogs" => Len(script'.found) = Size'
      BY <1>3, <2>1, <3>1
    <3>5. script'.pc = "accepted" => pool' = NoPool
      BY <1>4, <1>6, <2>1
    <3>6. script'.pc \in {"accepted", "changelogs"}
      BY <2>1
    <3> QED
      BY <3>2, <3>3, <3>4, <3>5, <3>6 DEF FoundInOrder
  <2>9. ASSUME script'.pc = "changelogs"
        PROVE  IssuesGivenOut'
    <3>1. pool' = started /\ last = Size /\ Size' = Size
      BY <1>1, <1>3, <1>6, <2>1, <2>9 DEF Size
    <3>2. ASSUME NEW n \in 1..Size
          PROVE  /\ pool'.results[n] = {}
                 /\ \/ \E w \in DOMAIN pool'.worker : pool'.worker[w] = n
                    \/ pool'.nextIndex <= n
      <4>1. /\ pool'.results = [i \in 1..last |-> {}]
            /\ pool'.worker = [w \in 1..size |-> w]
            /\ pool'.nextIndex = size + 1
        BY <2>3, <3>1
      <4>2. pool'.results[n] = {}
        BY <3>1, <4>1
      <4>3. CASE n <= size
        <5>0. n \in 1..size
          BY <2>2, <4>3
        <5>1. n \in DOMAIN pool'.worker /\ pool'.worker[n] = n
          BY <4>1, <5>0
        <5> QED
          BY <4>2, <5>1
      <4>4. CASE n > size
        BY <1>3, <2>2, <3>1, <4>1, <4>2, <4>4
      <4> QED
        BY <1>3, <2>2, <3>1, <4>3, <4>4
    <3>3. ASSUME NEW w \in DOMAIN pool'.worker
          PROVE  pool'.worker[w] <= Size /\ pool'.worker[w] # 0
      BY <1>3, <2>2, <2>3, <3>1
    <3>4. pool'.worker = << >> => Size = 0
      BY <2>2, <2>4, <3>1
    <3>5. Len(pool'.results) = Size
      BY <2>5, <3>1
    <3> QED
      BY <3>1, <3>2, <3>3, <3>4, <3>5 DEF IssuesGivenOut
  <2> QED
    BY <1>1, <1>4, <2>1, <2>7, <2>8, <2>9 DEF IssuesGivenOut, Decision
<1> QED
  BY <1>1, <1>5, <1>6

LEMMA JoinStep ==
  ASSUME SonarInv, JoinWorkers
  PROVE  SonarInv'
<1> USE DEF SonarInv
<1> DEFINE flagged == {n \in DOMAIN script.found : pool.results[n] # {TRUE}}
<1>1. /\ script.pc = "changelogs" /\ PoolDone /\ UNCHANGED <<server, pool>>
      /\ script' = [script EXCEPT !.pc = "decide", !.checked = TRUE,
                                  !.flagged = flagged]
  BY DEF JoinWorkers
<1>2. /\ script \in Script /\ server.issues \in Seq(Changelog)
      /\ script.found \in Seq(Changelog) /\ pool.worker \in Seq(Nat)
      /\ pool.nextIndex \in Nat
  BY DEF SonarTypeOK, Script, Pool
<1>3. Size \in Nat /\ Len(script.found) = Size
  BY <1>1, <1>2 DEF FoundInOrder, Size
<1>4. Size # 0 => pool.nextIndex > Size
  <2>1. ASSUME Size # 0
        PROVE  1 \in DOMAIN pool.worker
    BY <1>1, <1>2, <2>1 DEF IssuesGivenOut
  <2> QED
    BY <1>1, <2>1 DEF PoolDone, IssuesGivenOut
<1>5. ASSUME NEW n \in 1..Size
      PROVE  pool.results[n] = {issueHasComment(server.issues[n])}
  <2>1. pool.nextIndex > n
    BY <1>2, <1>3, <1>4
  <2>2. ~ \E w \in DOMAIN pool.worker : pool.worker[w] = n
    BY <1>1, <1>3 DEF PoolDone
  <2> QED
    BY <1>1, <1>2, <2>1, <2>2 DEF IssuesGivenOut
<1>6. flagged = Unjustified
  <2>1. DOMAIN script.found = 1..Size /\ DOMAIN server.issues = 1..Size
    BY <1>2, <1>3 DEF Size
  <2>2. \A n \in 1..Size : pool.results[n] # {TRUE}
                             <=> "comment" \notin server.issues[n]
    BY <1>5 DEF issueHasComment
  <2> QED
    BY <2>1, <2>2 DEF Unjustified
<1>7. flagged \in SUBSET Nat
  <2>1. DOMAIN script.found = 1..Size
    BY <1>2, <1>3
  <2>2. 1..Size \subseteq Nat
    BY <1>3
  <2> QED
    BY <2>1, <2>2, Zenon
<1> HIDE DEF flagged
<1>8. /\ script' \in Script /\ script'.pc = "decide" /\ script'.checked
      /\ script'.flagged = flagged /\ script'.found = script.found
      /\ script'.passed = script.passed /\ script'.exit = script.exit
  BY <1>1, <1>2, <1>7 DEF Script
<1>9. SonarTypeOK' /\ FoundInOrder'
  BY <1>1, <1>8 DEF SonarTypeOK, FoundInOrder, Size
<1>10. Decision'
  BY <1>1, <1>6, <1>8 DEF Decision, Unjustified
<1> QED
  BY <1>8, <1>9, <1>10 DEF IssuesGivenOut

-----------------------------------------------------------------------------
LEMMA SonarStep ==
  ASSUME SonarInv, [Next]_vars
  PROVE  SonarInv'
<1>1. CASE RunScanner
  BY <1>1, ScanStep
<1>2. CASE FetchQualityGate
  BY <1>2, GateStep
<1>3. CASE FetchAcceptedIssues
  BY <1>3, FetchAcceptedStep
<1>4. ASSUME NEW w \in DOMAIN pool.worker, FetchChangelog(w)
      PROVE  SonarInv'
  BY <1>4, FetchChangelogStep
<1>5. ASSUME NEW w \in DOMAIN pool.worker, ChangelogFails(w)
      PROVE  SonarInv'
  BY <1>5, ChangelogFailsStep
<1>6. CASE JoinWorkers
  BY <1>6, JoinStep
<1>7. CASE Decide
  BY <1>7, DecideStep
<1>8. CASE UNCHANGED vars
  BY <1>8
  DEF vars, SonarInv, SonarTypeOK, FoundInOrder, IssuesGivenOut, Decision,
      Size, Unjustified
<1> QED
  BY <1>1, <1>2, <1>3, <1>4, <1>5, <1>6, <1>7, <1>8 DEF Next

LEMMA SonarInvariant == Spec => []SonarInv
BY SonarInit, SonarStep, PTL DEF Spec

(* Whatever order the workers' answers arrive in, and however many issues, *)
(* pages and workers there are: a report that was checked flags exactly    *)
(* the issues without comment.                                             *)
THEOREM FlagsExactly == Spec => []FlaggedExactly
<1>1. SonarInv => FlaggedExactly
  BY DEF SonarInv, Decision, FlaggedExactly
<1> QED
  BY <1>1, SonarInvariant, PTL

(* Unless a signal can end the scanner, exit code 0 means that the quality *)
(* gate was read and passes; and for a report whose comments were read, it *)
(* is given exactly if the gate passes and no issue lacks its comment.     *)
THEOREM ExitIsClean == Killed \notin ScanCodes => (Spec => []ExitTellsWhatWasRead)
<1> SUFFICES ASSUME Killed \notin ScanCodes
             PROVE  Spec => []ExitTellsWhatWasRead
  OBVIOUS
<1>1. SonarInv => ExitTellsWhatWasRead
  BY DEF SonarInv, Decision, Passed, ExitTellsWhatWasRead
<1> QED
  BY <1>1, SonarInvariant, PTL
=============================================================================
