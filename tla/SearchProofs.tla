---------------------------- MODULE SearchProofs ----------------------------
(***************************************************************************)
(* Theorems about NotificationSearch, for pages of any size and a list of  *)
(* any length that grows and changes while the scripts page through it.    *)
(***************************************************************************)
EXTENDS NotificationSearch, FiniteSetTheorems, TLAPS

-----------------------------------------------------------------------------
(* Least and greatest elements, from the well-foundedness of inclusion     *)
(* among finite sets.                                                      *)

LEMMA LeastOf ==
  ASSUME NEW T, T \subseteq Nat, T # {}
  PROVE  \E m \in T : \A k \in T : m <= k
<1> DEFINE U == {0..k : k \in T}
<1>1. U \subseteq FiniteSubsetsOf(Nat)
  <2> SUFFICES ASSUME NEW k \in T
               PROVE  0..k \in FiniteSubsetsOf(Nat)
    OBVIOUS
  <2>1. k \in Nat /\ 0..k \subseteq Nat
    OBVIOUS
  <2>2. IsFiniteSet(0..k)
    BY <2>1, FS_Interval
  <2> QED
    BY <2>1, <2>2 DEF FiniteSubsetsOf
<1>2. IsWellFoundedOn(StrictSubsetOrdering(Nat), FiniteSubsetsOf(Nat))
  BY FS_StrictSubsetOrderingWellFounded
<1>3. \E x \in U : \A y \in U : ~(<<y, x>> \in StrictSubsetOrdering(Nat))
  <2>1. U # {}
    OBVIOUS
  <2> HIDE DEF U
  <2> QED
    BY <1>1, <1>2, <2>1, WFMin
<1>4. PICK m \in T :
        \A k \in T : ~(<<0..k, 0..m>> \in StrictSubsetOrdering(Nat))
  BY <1>3
<1>5. ASSUME NEW k \in T, k < m
      PROVE  FALSE
  <2>1. k \in Nat /\ m \in Nat
    OBVIOUS
  <2>2. 0..k \subseteq 0..m /\ m \in 0..m /\ m \notin 0..k
    BY <1>5, <2>1
  <2>3. 0..k \in SUBSET Nat /\ 0..m \in SUBSET Nat /\ 0..k # 0..m
    BY <2>1, <2>2
  <2>4. <<0..k, 0..m>> \in StrictSubsetOrdering(Nat)
    BY <2>2, <2>3 DEF StrictSubsetOrdering
  <2> QED
    BY <1>4, <2>4
<1> QED
  BY <1>4, <1>5

LEMMA GreatestOf ==
  ASSUME NEW n \in Nat, NEW T, T \subseteq 1..n, T # {}
  PROVE  \E m \in T : \A k \in T : k <= m
<1> DEFINE U == {n - k : k \in T}
<1>1. U \subseteq Nat /\ U # {}
  OBVIOUS
<1> HIDE DEF U
<1>2. PICK u \in U : \A v \in U : u <= v
  BY <1>1, LeastOf
<1>3. PICK m \in T : u = n - m
  BY DEF U
<1>4. \A k \in T : n - k \in U
  BY DEF U
<1> QED
  BY <1>2, <1>3, <1>4

-----------------------------------------------------------------------------
LEMMA NewerThan ==
  ASSUME NEW A, NEW i
  PROVE  \A j : j \in Newer(A, i) <=> j \in A /\ j > i
BY DEF Newer

(* A page of what is asked for: whatever is newer than something on it is  *)
(* on it, and a page that is not full is all of it.                        *)
LEMMA PageOf ==
  ASSUME NEW n \in Nat, NEW A, A \subseteq 1..n,
         NEW page, page = {i \in A : Cardinality(Newer(A, i)) < PageSize}
  PROVE  /\ page \subseteq A
         /\ \A i \in page, j \in A : j > i => j \in page
         /\ LastPage(page) => page = A
         /\ page = {} => LastPage(page)
<1> USE SearchAssumption
<1>1. IsFiniteSet(A)
  <2>1. IsFiniteSet(1..n)
    BY FS_Interval
  <2> QED
    BY <2>1, FS_Subset
<1>2. ASSUME NEW S, NEW T, S \subseteq A, T \subseteq S
      PROVE  /\ Cardinality(S) \in Nat /\ Cardinality(T) \in Nat
             /\ Cardinality(T) <= Cardinality(S)
  <2>1. IsFiniteSet(S) /\ IsFiniteSet(T)
    BY <1>1, <1>2, FS_Subset
  <2> QED
    BY <1>2, <2>1, FS_Subset, FS_CardinalityType
<1>0. \A i : i \in page <=> i \in A /\ Cardinality(Newer(A, i)) < PageSize
  OBVIOUS
<1>3. page \subseteq A
  BY <1>0
<1>4. ASSUME NEW i \in page, NEW j \in A, j > i
      PROVE  j \in page
  <2>1. i \in Int /\ j \in Int
    OBVIOUS
  <2>2. Newer(A, j) \subseteq Newer(A, i) /\ Newer(A, i) \subseteq A
    <3>1. ASSUME NEW l \in Newer(A, j)
          PROVE  l \in Newer(A, i)
      <4>1. l \in A /\ l > j
        BY NewerThan
      <4>2. l > i
        BY <1>4, <2>1, <4>1
      <4> QED
        BY <4>1, <4>2, NewerThan
    <3> QED
      BY <3>1, NewerThan
  <2>3. Cardinality(Newer(A, i)) < PageSize
    BY <1>0
  <2>4. Cardinality(Newer(A, j)) < PageSize
    <3>1. /\ Cardinality(Newer(A, i)) \in Nat /\ Cardinality(Newer(A, j)) \in Nat
          /\ Cardinality(Newer(A, j)) <= Cardinality(Newer(A, i))
      BY <1>2, <2>2
    <3> QED
      BY <2>3, <3>1
  <2> QED
    BY <1>0, <2>4
<1>5. ASSUME LastPage(page), NEW k \in A \ page
      PROVE  FALSE
  <2>1. A \ page \subseteq 1..n /\ A \ page # {}
    BY <1>5
  <2>2. PICK m \in A \ page : \A l \in A \ page : l <= m
    BY <2>1, GreatestOf
  <2>3. Newer(A, m) \subseteq page /\ page \subseteq A
    <3>1. ASSUME NEW l \in Newer(A, m), l \notin page
          PROVE  FALSE
      <4>1. l \in A \ page /\ l > m
        BY <3>1, NewerThan
      <4>2. l <= m /\ l \in Int /\ m \in Int
        BY <2>2, <4>1
      <4> QED
        BY <4>1, <4>2
    <3> QED
      BY <1>3, <3>1
  <2>4. Cardinality(Newer(A, m)) < PageSize
    <3>1. Cardinality(page) < PageSize
      BY <1>5 DEF LastPage
    <3>2. /\ Cardinality(page) \in Nat /\ Cardinality(Newer(A, m)) \in Nat
          /\ Cardinality(Newer(A, m)) <= Cardinality(page)
      BY <1>2, <2>3
    <3> QED
      BY <3>1, <3>2
  <2> QED
    BY <1>0, <2>2, <2>4
<1>6. page = {} => LastPage(page)
  <2>1. Cardinality({}) = 0 /\ 0 < PageSize
    BY FS_EmptySet
  <2> QED
    BY <2>1 DEF LastPage
<1> QED
  BY <1>3, <1>4, <1>5, <1>6
-----------------------------------------------------------------------------
(* The invariant.                                                          *)

Notification == [createdAt : Nat, status : {"sending", "delivered"},
                 template : {email.template : email \in Emails},
                 reference : {email.reference : email \in Emails}]

Ids == SUBSET Nat

Result == [reference : Names, error : BOOLEAN, matches : Seq(Ids),
           expected : Ids]

Search == [by : {"date", "reference"}, pc : {"fetch", "done", "failed"},
           olderThan : Nat, matches : Seq(Ids), left : Seq(Names),
           results : Seq(Result), expected : Ids]

SearchTypeOK ==
  /\ list \in Seq(Notification)
  /\ now \in Nat
  /\ search \in Search

(* Notify's ids are in the order of creation. *)
CreatedInOrder ==
  \A i \in DOMAIN list :
    /\ list[i].createdAt <= now
    /\ \A j \in DOMAIN list : i <= j => list[i].createdAt <= list[j].createdAt

Fits(i) == Status = None \/ list[i].status = Status

(* What fitted when the query began can stop to fit, not the other way     *)
(* round: a status only goes from sending to delivered.                    *)
FittedAtFirst(ids) ==
  /\ ids \subseteq DOMAIN list
  /\ Status \notin {None, "sending"} => \A i \in ids : list[i].status = Status

Reference == IF search.by = "date" THEN None ELSE Head(search.left)

(* The query under way: what it expects and still fits was found, or is    *)
(* not of the days and templates asked for, or is older than the cursor.   *)
QueryUnderWay ==
  /\ FittedAtFirst(search.expected)
  /\ \A i \in search.expected :
       /\ Reference = None \/ list[i].reference = Reference
       /\ Fits(i) => \/ i \in Found(search.matches)
                     \/ search.by = "date" /\ ~Taken(i)
                     \/ /\ search.pc = "fetch"
                        /\ search.olderThan = 0 \/ i < search.olderThan
                     \/ search.pc = "failed"
  /\ NewestFirst(search.matches)
  /\ \A i \in Found(search.matches) :
       /\ i \in DOMAIN list /\ i >= search.olderThan
       /\ search.by = "date" => Taken(i)
  /\ search.pc = "fetch" /\ search.olderThan = 0 => search.matches = << >>

(* The references reported so far, and those that are left, in order. *)
ReferencesInOrder ==
  /\ search.by = "reference" =>
       /\ Len(search.results) + Len(search.left) = Len(References)
       /\ \A k \in 1..Len(search.left) :
            search.left[k] = References[Len(search.results) + k]
       /\ search.pc = "fetch" => search.left # << >>
       /\ search.pc = "done" => search.left = << >>
  /\ search.by = "date" => search.results = << >>

ResultOK(r) ==
  /\ FittedAtFirst(r.expected)
  /\ NewestFirst(r.matches)
  /\ \/ r.error /\ r.matches = << >>
     \/ \A i \in r.expected : Fits(i) => i \in Found(r.matches)

ResultsOK ==
  \A n \in DOMAIN search.results :
    /\ search.results[n].reference = References[n]
    /\ ResultOK(search.results[n])

SearchInv == /\ SearchTypeOK /\ CreatedInOrder /\ QueryUnderWay
             /\ ReferencesInOrder /\ ResultsOK

LEMMA StampIsNat ==
  ASSUME list \in Seq(Notification), NEW i \in DOMAIN list
  PROVE  list[i].createdAt \in Nat
<1>1. list[i] \in Notification
  OBVIOUS
<1> QED
  BY <1>1 DEF Notification

LEMMA FoundIn ==
  ASSUME NEW matches
  PROVE  \A i : i \in Found(matches) <=> \E n \in DOMAIN matches : i \in matches[n]
BY DEF Found

(* A page that only has older notifications keeps what is found in order.  *)
LEMMA PageAppended ==
  ASSUME NEW matches \in Seq(Ids), NEW page \in Ids
  PROVE  /\ \A i : i \in Found(Append(matches, page))
                     <=> i \in Found(matches) \/ i \in page
         /\ NewestFirst(matches) /\ (\A i \in Found(matches), j \in page : i > j)
              => NewestFirst(Append(matches, page))
<1> DEFINE new == Append(matches, page)
           last == Len(matches) + 1
<1>1. /\ DOMAIN matches = 1..Len(matches) /\ DOMAIN new = 1..last
      /\ \A n \in 1..Len(matches) : new[n] = matches[n]
      /\ new[last] = page
      /\ Len(matches) \in Nat /\ last = Len(matches) + 1
  OBVIOUS
<1> HIDE DEF new, last
<1>2. \A n \in DOMAIN new : n \in DOMAIN matches \/ n = last
  BY <1>1
<1>3. DOMAIN matches \subseteq DOMAIN new /\ last \in DOMAIN new
  BY <1>1
<1>4. \A i : i \in Found(new) <=> i \in Found(matches) \/ i \in page
  BY <1>1, <1>2, <1>3, FoundIn
<1>5. ASSUME NewestFirst(matches),
             \A i \in Found(matches), j \in page : i > j,
             NEW m \in DOMAIN new, NEW n \in DOMAIN new, m < n,
             NEW i \in new[m], NEW j \in new[n]
      PROVE  i > j
  <2>1. m \in DOMAIN matches /\ i \in matches[m]
    BY <1>1, <1>2, <1>5
  <2>2. CASE n \in DOMAIN matches
    BY <1>1, <1>5, <2>1, <2>2 DEF NewestFirst
  <2>3. CASE n = last
    BY <1>1, <1>5, <2>1, <2>3, FoundIn
  <2> QED
    BY <1>2, <2>2, <2>3
<1>6. NewestFirst(matches) /\ (\A i \in Found(matches), j \in page : i > j)
        => NewestFirst(new)
  BY <1>5 DEF NewestFirst
<1> QED
  BY <1>4, <1>6 DEF new

LEMMA NextPage ==
  ASSUME list \in Seq(Notification), NEW reference, NEW olderThan \in Nat,
         NEW page, page = getNotifications(reference, olderThan)
  PROVE  /\ \A i \in page : i \in Asked(reference, olderThan)
         /\ \A i \in page, j \in Asked(reference, olderThan) :
              j > i => j \in page
         /\ LastPage(page) => page = Asked(reference, olderThan)
         /\ page = {} => LastPage(page)
         /\ page # {} => Min(page) \in page /\ \A i \in page : Min(page) <= i
         /\ page \in Ids
<1> DEFINE A == Asked(reference, olderThan)
<1>1. Len(list) \in Nat /\ A \subseteq 1..Len(list)
  BY DEF Asked
<1>2. page = {i \in A : Cardinality(Newer(A, i)) < PageSize}
  BY DEF getNotifications
<1> HIDE DEF A
<1>3. /\ page \subseteq A
      /\ \A i \in page, j \in A : j > i => j \in page
      /\ LastPage(page) => page = A
      /\ page = {} => LastPage(page)
  BY <1>1, <1>2, PageOf
<1>4. page \subseteq Nat
  <2>1. 1..Len(list) \subseteq Nat
    BY <1>1
  <2> QED
    BY <1>1, <1>3, <2>1, Zenon
<1>5. ASSUME page # {}
      PROVE  Min(page) \in page /\ \A i \in page : Min(page) <= i
  <2>1. \E m \in page : \A k \in page : m <= k
    BY <1>4, <1>5, LeastOf
  <2> QED
    BY <2>1 DEF Min
<1> QED
  BY <1>3, <1>4, <1>5 DEF A, Ids

LEMMA SearchInit == Init => SearchInv
<1> SUFFICES ASSUME Init
             PROVE  SearchInv
  OBVIOUS
<1> USE SearchAssumption
<1>1. /\ list = << >> /\ now = 0
      /\ search.by \in {"date", "reference"} /\ search.pc = "fetch"
      /\ search.olderThan = 0 /\ search.matches = << >>
      /\ search.left = References /\ search.results = << >>
      /\ search.expected = {}
  BY DEF Init
<1>2. SearchTypeOK
  <2>1. {} \in Ids
    BY DEF Ids
  <2>2. /\ search.olderThan \in Nat /\ search.matches \in Seq(Ids)
        /\ search.left \in Seq(Names) /\ search.results \in Seq(Result)
        /\ search.expected \in Ids
    BY <1>1, <2>1
  <2>3. search = [by |-> search.by, pc |-> search.pc,
                  olderThan |-> search.olderThan, matches |-> search.matches,
                  left |-> search.left, results |-> search.results,
                  expected |-> search.expected]
    BY DEF Init
  <2>4. search \in Search
    BY <1>1, <2>2, <2>3 DEF Search
  <2> QED
    BY <1>1, <2>4 DEF SearchTypeOK
<1>3. CreatedInOrder /\ ResultsOK
  BY <1>1 DEF CreatedInOrder, ResultsOK
<1>4. QueryUnderWay
  <2>1. ~ \E i : i \in Found(search.matches)
    BY <1>1, FoundIn
  <2> QED
    BY <1>1, <2>1 DEF QueryUnderWay, FittedAtFirst, NewestFirst
<1>5. ReferencesInOrder
  BY <1>1 DEF ReferencesInOrder
<1> QED
  BY <1>2, <1>3, <1>4, <1>5 DEF SearchInv

-----------------------------------------------------------------------------
(* The list changes under the script: more notifications, other statuses.  *)

Kept ==
  \A i \in DOMAIN list :
    /\ i \in DOMAIN list'
    /\ list'[i].createdAt = list[i].createdAt
    /\ list'[i].template = list[i].template
    /\ list'[i].reference = list[i].reference
    /\ list'[i].status # list[i].status => list[i].status = "sending"

LEMMA ListChanges ==
  ASSUME SearchInv, UNCHANGED search, Kept
  PROVE  QueryUnderWay' /\ ReferencesInOrder' /\ ResultsOK'
<1> USE DEF SearchInv
<1>1. ASSUME NEW ids, FittedAtFirst(ids)
      PROVE  /\ FittedAtFirst(ids)'
             /\ \A i \in ids : i \in DOMAIN list /\ (Fits(i)' => Fits(i))
  <2>1. ids \subseteq DOMAIN list /\ ids \subseteq DOMAIN list'
    BY <1>1 DEF FittedAtFirst, Kept
  <2>2. ASSUME NEW i \in ids, Fits(i)'
        PROVE  Fits(i)
    BY <1>1, <2>1, <2>2 DEF FittedAtFirst, Kept, Fits
  <2>3. ASSUME Status \notin {None, "sending"}, NEW i \in ids
        PROVE  list'[i].status = Status
    BY <1>1, <2>1, <2>3 DEF FittedAtFirst, Kept
  <2> QED
    BY <2>1, <2>2, <2>3 DEF FittedAtFirst
<1>2. \A i \in DOMAIN list : Taken(i)' <=> Taken(i)
  BY DEF Kept, Taken, Within, Before, After
<1>3. Reference' = Reference
  BY DEF Reference
<1>4. QueryUnderWay'
  <2>1. FittedAtFirst(search.expected)' /\ NewestFirst(search.matches)'
    BY <1>1 DEF QueryUnderWay, NewestFirst
  <2>2. ASSUME NEW i \in search.expected
        PROVE  /\ Reference = None \/ list'[i].reference = Reference
               /\ Fits(i)' => \/ i \in Found(search.matches)
                              \/ search.by = "date" /\ ~Taken(i)'
                              \/ /\ search.pc = "fetch"
                                 /\ \/ search.olderThan = 0
                                    \/ i < search.olderThan
                              \/ search.pc = "failed"
    <3>1. i \in DOMAIN list /\ (Fits(i)' => Fits(i))
      BY <1>1 DEF QueryUnderWay
    <3> QED
      BY <1>2, <3>1 DEF QueryUnderWay, Kept
  <2>3. ASSUME NEW i \in Found(search.matches)
        PROVE  /\ i \in DOMAIN list' /\ i >= search.olderThan
               /\ search.by = "date" => Taken(i)'
    BY <1>2 DEF QueryUnderWay, Kept
  <2>4. Found(search.matches)' = Found(search.matches)
    BY DEF Found
  <2> QED
    BY <1>3, <2>1, <2>2, <2>3, <2>4 DEF QueryUnderWay
<1>5. ReferencesInOrder'
  BY DEF ReferencesInOrder
<1>6. ResultsOK'
  <2>1. ASSUME NEW r, ResultOK(r)
        PROVE  ResultOK(r)'
    <3>1. FittedAtFirst(r.expected)' /\ NewestFirst(r.matches)'
      BY <1>1, <2>1 DEF ResultOK, NewestFirst
    <3>2. Found(r.matches)' = Found(r.matches)
      BY DEF Found
    <3>3. \A i \in r.expected : Fits(i)' => Fits(i)
      BY <1>1, <2>1 DEF ResultOK
    <3> QED
      BY <2>1, <3>1, <3>2, <3>3 DEF ResultOK
  <2> QED
    BY <2>1 DEF ResultsOK
<1> QED
  BY <1>4, <1>5, <1>6

LEMMA OutsideStep ==
  ASSUME SearchInv, Outside
  PROVE  SearchInv'
<1> USE DEF SearchInv
<1>1. /\ list \in Seq(Notification) /\ now \in Nat /\ search \in Search
      /\ UNCHANGED search
  BY DEF SearchTypeOK, Outside, Create, Settle, Pass
<1>2. ASSUME Create
      PROVE  Kept /\ SearchTypeOK' /\ CreatedInOrder'
  <2>1. PICK email \in Emails :
          list' = Append(list, [createdAt |-> now, status |-> "sending",
                                template |-> email.template,
                                reference |-> email.reference])
    BY <1>2 DEF Create
  <2> DEFINE new == [createdAt |-> now, status |-> "sending",
                     template |-> email.template,
                     reference |-> email.reference]
             last == Len(list) + 1
  <2>2. new \in Notification /\ new.createdAt = now
    BY <1>1 DEF Notification
  <2> HIDE DEF new
  <2>3. /\ list' = Append(list, new) /\ now' = now
    BY <1>2, <2>1 DEF Create, new
  <2>4. /\ list' \in Seq(Notification) /\ DOMAIN list = 1..Len(list)
        /\ DOMAIN list' = 1..last /\ list'[last] = new
        /\ Len(list) \in Nat
        /\ \A i \in DOMAIN list : list'[i] = list[i]
    BY <1>1, <2>2, <2>3
  <2>5. \A i \in DOMAIN list : i \in DOMAIN list'
    BY <2>4
  <2>6. Kept
    BY <2>4, <2>5 DEF Kept
  <2>7. ASSUME NEW i \in DOMAIN list'
        PROVE  list'[i].createdAt \in Nat /\ list'[i].createdAt <= now
    <3>1. CASE i = last
      BY <1>1, <2>2, <2>4, <3>1
    <3>2. CASE i # last
      <4>1. i \in DOMAIN list
        BY <2>4, <3>2
      <4> QED
        BY <1>1, <2>4, <4>1, StampIsNat DEF CreatedInOrder
    <3> QED
      BY <3>1, <3>2
  <2>8. ASSUME NEW i \in DOMAIN list', NEW j \in DOMAIN list', i <= j
        PROVE  list'[i].createdAt <= list'[j].createdAt
    <3>1. CASE j = last
      BY <2>2, <2>4, <2>7, <3>1
    <3>2. CASE j # last
      <4>1. i \in DOMAIN list /\ j \in DOMAIN list
        BY <2>4, <2>8, <3>2
      <4> QED
        BY <2>4, <2>8, <4>1 DEF CreatedInOrder
    <3> QED
      BY <3>1, <3>2
  <2>9. CreatedInOrder'
    BY <2>3, <2>7, <2>8 DEF CreatedInOrder
  <2> QED
    BY <1>1, <2>3, <2>4, <2>6, <2>9 DEF SearchTypeOK
<1>3. ASSUME Settle
      PROVE  Kept /\ SearchTypeOK' /\ CreatedInOrder'
  <2>1. PICK k \in DOMAIN list :
          /\ list[k].status = "sending"
          /\ list' = [list EXCEPT ![k].status = "delivered"]
    BY <1>3 DEF Settle
  <2> DEFINE new == [list[k] EXCEPT !.status = "delivered"]
  <2>2. list[k] \in Notification
    BY <1>1
  <2>3. /\ new \in Notification /\ new.createdAt = list[k].createdAt
        /\ new.template = list[k].template
        /\ new.reference = list[k].reference
    BY <2>2 DEF Notification
  <2> HIDE DEF new
  <2>4. list' = [list EXCEPT ![k] = new] /\ now' = now
    BY <1>3, <2>1 DEF Settle, new
  <2>5. /\ list' \in Seq(Notification) /\ DOMAIN list' = DOMAIN list
        /\ \A i \in DOMAIN list : list'[i] = IF i = k THEN new ELSE list[i]
    BY <1>1, <2>3, <2>4
  <2>6. Kept
    BY <2>1, <2>3, <2>5 DEF Kept
  <2>7. CreatedInOrder'
    BY <2>3, <2>4, <2>5 DEF CreatedInOrder
  <2> QED
    BY <1>1, <2>4, <2>5, <2>6, <2>7 DEF SearchTypeOK
<1>4. ASSUME Pass
      PROVE  Kept /\ SearchTypeOK' /\ CreatedInOrder'
  <2>1. list' = list /\ now' = now + 1
    BY <1>4 DEF Pass
  <2>2. \A i \in DOMAIN list : list[i].createdAt \in Nat
    BY <1>1, StampIsNat
  <2>3. CreatedInOrder'
    BY <1>1, <2>1, <2>2 DEF CreatedInOrder
  <2> QED
    BY <1>1, <2>1, <2>3 DEF Kept, SearchTypeOK
<1> QED
  BY <1>1, <1>2, <1>3, <1>4, ListChanges DEF Outside

-----------------------------------------------------------------------------
(* The search by date.                                                     *)

LEMMA FetchPageStep ==
  ASSUME SearchInv, FetchPage
  PROVE  SearchInv'
<1> USE DEF SearchInv
<1> DEFINE page == getNotifications(None, search.olderThan)
           asked == Asked(None, search.olderThan)
           taken == {i \in page : Taken(i)}
           expected == Expected(None)
           cursor == Cursor(page)
           end == LastPage(page) \/ \E i \in page : Before(i)
<1>1. /\ list \in Seq(Notification) /\ now \in Nat /\ search \in Search
      /\ search.olderThan \in Nat /\ search.matches \in Seq(Ids)
      /\ search.expected \in Ids
  BY DEF SearchTypeOK, Search
<1>2. /\ search.by = "date" /\ search.pc = "fetch" /\ UNCHANGED <<list, now>>
      /\ search' = [search EXCEPT
           !.expected = expected, !.matches = Append(@, taken),
           !.olderThan = cursor, !.pc = IF end THEN "done" ELSE "fetch"]
  BY DEF FetchPage
<1>3. /\ \A i \in page : i \in asked
      /\ \A i \in page, j \in asked : j > i => j \in page
      /\ LastPage(page) => page = asked
      /\ page = {} => LastPage(page)
      /\ page # {} => Min(page) \in page /\ \A i \in page : Min(page) <= i
      /\ page \in Ids
  <2> HIDE DEF page
  <2>1. page = getNotifications(None, search.olderThan)
    BY DEF page
  <2> QED
    BY <1>1, <2>1, NextPage
<1>4. \A i : i \in asked <=> /\ i \in DOMAIN list
                             /\ search.olderThan = 0 \/ i < search.olderThan
                             /\ Fits(i)
  BY DEF Asked, Queried, Fits
<1>5. \A i : i \in taken <=> i \in page /\ Taken(i)
  OBVIOUS
<1>6. /\ page = {} => cursor = search.olderThan
      /\ page # {} => cursor \in page /\ \A i \in page : cursor <= i
  BY <1>3 DEF Cursor
<1>7. /\ FittedAtFirst(expected) /\ expected \in Ids
      /\ \A i \in expected : i \in search.expected \/ search.olderThan = 0
  <2>1. CASE search.olderThan = 0
    <3>1. expected = {i \in DOMAIN list : Fits(i)}
      BY <2>1 DEF Expected, Queried, Fits
    <3>2. expected \in Ids
      BY <1>1, <3>1 DEF Ids
    <3> QED
      BY <2>1, <3>1, <3>2 DEF FittedAtFirst, Fits
  <2>2. CASE search.olderThan # 0
    BY <1>1, <2>2 DEF Expected, QueryUnderWay
  <2> QED
    BY <2>1, <2>2
<1>8. DOMAIN list = 1..Len(list) /\ Len(list) \in Nat
  BY <1>1
<1>9. taken \in Ids /\ cursor \in Nat
  BY <1>1, <1>3, <1>5, <1>6 DEF Ids
<1> HIDE DEF page, asked, taken, expected, cursor, end
<1>10. /\ search' \in Search
       /\ search'.by = "date" /\ search'.pc = IF end THEN "done" ELSE "fetch"
       /\ search'.olderThan = cursor /\ search'.expected = expected
       /\ search'.matches = Append(search.matches, taken)
       /\ search'.left = search.left /\ search'.results = search.results
  <2>1. Append(search.matches, taken) \in Seq(Ids)
    BY <1>1, <1>9
  <2> QED
    BY <1>1, <1>2, <1>7, <1>9, <2>1 DEF Search
<1>11. SearchTypeOK' /\ CreatedInOrder' /\ ReferencesInOrder'
  BY <1>1, <1>2, <1>10 DEF SearchTypeOK, CreatedInOrder, ReferencesInOrder
<1>12. ResultsOK'
  BY <1>2, <1>10 DEF ReferencesInOrder, ResultsOK
<1>13. /\ \A i : i \in Found(search'.matches)
                   <=> i \in Found(search.matches) \/ i \in taken
       /\ NewestFirst(search'.matches)
  <2>1. ASSUME NEW i \in Found(search.matches), NEW j \in taken
        PROVE  i > j
    <3>1. search.olderThan # 0
      BY <1>2, FoundIn DEF QueryUnderWay
    <3>2. j < search.olderThan /\ i >= search.olderThan /\ i \in DOMAIN list
          /\ j \in DOMAIN list
      BY <1>3, <1>4, <1>5, <3>1 DEF QueryUnderWay
    <3> QED
      BY <1>1, <1>8, <3>2
  <2> QED
    BY <1>1, <1>9, <1>10, <2>1, PageAppended DEF QueryUnderWay
<1>14. ASSUME NEW i \in expected, Fits(i), i \notin Found(search'.matches),
              Taken(i)
       PROVE  ~end /\ i < cursor
  <2>1. i \in DOMAIN list
    BY <1>7 DEF FittedAtFirst
  <2>2. search.olderThan = 0 \/ i < search.olderThan
    BY <1>2, <1>7, <1>13, <1>14 DEF QueryUnderWay
  <2>3. i \in asked /\ i \notin page
    BY <1>4, <1>5, <1>13, <1>14, <2>1, <2>2
  <2>4. ~LastPage(page) /\ page # {}
    BY <1>3, <2>3
  <2>5. ASSUME NEW j \in page
        PROVE  i < j /\ ~Before(j)
    <3>1. j \in DOMAIN list /\ i < j
      BY <1>3, <1>4, <1>8, <2>1, <2>3
    <3>2. list[i].createdAt <= list[j].createdAt
      BY <1>8, <2>1, <3>1 DEF CreatedInOrder
    <3>3. ~Before(i)
      BY <1>14 DEF Taken, Within
    <3>4. /\ list[i].createdAt \in Nat /\ list[j].createdAt \in Nat
          /\ fromDate \in Int
      <4>1. fromDate \in Int
        BY SearchAssumption DEF fromDate
      <4> QED
        BY <1>1, <2>1, <3>1, <4>1, StampIsNat
    <3> QED
      BY <3>1, <3>2, <3>3, <3>4 DEF Before
  <2> QED
    BY <1>6, <2>4, <2>5 DEF end
<1>15. ASSUME NEW i \in Found(search'.matches)
       PROVE  i \in DOMAIN list /\ i >= cursor /\ Taken(i)
  <2>1. CASE i \in taken
    <3>1. i \in page /\ i \in DOMAIN list /\ Taken(i)
      BY <1>3, <1>4, <1>5, <2>1
    <3> QED
      BY <1>6, <1>8, <1>9, <3>1
  <2>2. CASE i \in Found(search.matches)
    <3>1. /\ i \in DOMAIN list /\ i >= search.olderThan /\ Taken(i)
          /\ search.olderThan # 0
      BY <1>2, <2>2, FoundIn DEF QueryUnderWay
    <3>2. cursor <= search.olderThan
      <4>1. CASE page = {}
        BY <1>1, <1>6, <4>1
      <4>2. CASE page # {}
        <5>1. cursor < search.olderThan
          BY <1>3, <1>4, <1>6, <3>1, <4>2
        <5> QED
          BY <1>1, <1>9, <5>1
      <4> QED
        BY <4>1, <4>2
    <3> QED
      BY <1>1, <1>8, <1>9, <3>1, <3>2
  <2> QED
    BY <1>13, <2>1, <2>2
<1>16. ~end /\ cursor = 0 => FALSE
  BY <1>3, <1>4, <1>6, <1>8 DEF end
<1>17. QueryUnderWay'
  <2>1. Reference' = None
    BY <1>10 DEF Reference
  <2>2. \A i : (Taken(i)' <=> Taken(i)) /\ (Fits(i)' <=> Fits(i))
    BY <1>2 DEF Taken, Within, Before, After, Fits
  <2>3. FittedAtFirst(search.expected)'
    BY <1>2, <1>7, <1>10 DEF FittedAtFirst
  <2>4. DOMAIN list' = DOMAIN list
    BY <1>2
  <2>5. Found(search.matches)' = Found(search'.matches)
        /\ NewestFirst(search.matches)' = NewestFirst(search'.matches)
    BY DEF Found, NewestFirst
  <2> QED
    BY <1>2, <1>10, <1>13, <1>14, <1>15, <1>16, <2>1, <2>2, <2>3, <2>4, <2>5
    DEF QueryUnderWay
<1> QED
  BY <1>11, <1>12, <1>17

LEMMA FetchFailsStep ==
  ASSUME SearchInv, FetchFails
  PROVE  SearchInv'
<1> USE DEF SearchInv
<1>1. /\ search.by = "date" /\ search.pc = "fetch" /\ UNCHANGED <<list, now>>
      /\ search' = [search EXCEPT !.pc = "failed"]
      /\ search \in Search /\ list \in Seq(Notification) /\ now \in Nat
  BY DEF FetchFails, SearchTypeOK
<1>2. /\ search' \in Search
      /\ search'.by = search.by /\ search'.pc = "failed"
      /\ search'.olderThan = search.olderThan
      /\ search'.matches = search.matches /\ search'.left = search.left
      /\ search'.results = search.results
      /\ search'.expected = search.expected
  BY <1>1 DEF Search
<1>3. SearchTypeOK' /\ CreatedInOrder' /\ ReferencesInOrder'
  BY <1>1, <1>2 DEF SearchTypeOK, CreatedInOrder, ReferencesInOrder
<1>4. ResultsOK'
  BY <1>1, <1>2 DEF ReferencesInOrder, ResultsOK
<1>5. QueryUnderWay'
  BY <1>1, <1>2
  DEF QueryUnderWay, FittedAtFirst, NewestFirst, Found, Reference, Fits, Taken,
      Within, Before, After
<1> QED
  BY <1>3, <1>4, <1>5

-----------------------------------------------------------------------------
(* The search by reference.                                                *)

LEMMA ReportStep ==
  ASSUME SearchInv, search.by = "reference", search.pc = "fetch",
         UNCHANGED <<list, now>>,
         NEW matches \in Seq(Ids), NEW expected \in Ids, NEW error \in BOOLEAN,
         Report(matches, expected, error),
         FittedAtFirst(expected), NewestFirst(matches),
         \/ error /\ matches = << >>
         \/ \A i \in expected : Fits(i) => i \in Found(matches)
  PROVE  SearchInv'
<1> USE DEF SearchInv
<1> DEFINE r == [reference |-> Head(search.left), error |-> error,
                 matches |-> matches, expected |-> expected]
<1>1. /\ search \in Search /\ list \in Seq(Notification) /\ now \in Nat
      /\ search.left \in Seq(Names) /\ search.results \in Seq(Result)
      /\ search.left # << >>
  BY DEF SearchTypeOK, Search, ReferencesInOrder
<1>2. Head(search.left) \in Names /\ Head(search.left) = search.left[1]
  BY <1>1
<1>3. /\ r \in Result /\ r.reference = Head(search.left) /\ ResultOK(r)
  BY <1>2 DEF Result, ResultOK
<1>4. search' = [search EXCEPT
        !.olderThan = 0, !.matches = << >>, !.expected = {}, !.left = Tail(@),
        !.results = Append(@, r),
        !.pc = IF Len(search.left) = 1 THEN "done" ELSE "fetch"]
  BY DEF Report
<1> HIDE DEF r
<1>5. /\ search' \in Search /\ search'.by = "reference"
      /\ search'.pc = (IF Len(search.left) = 1 THEN "done" ELSE "fetch")
      /\ search'.olderThan = 0 /\ search'.matches = << >>
      /\ search'.expected = {} /\ search'.left = Tail(search.left)
      /\ search'.results = Append(search.results, r)
  <2>1. {} \in Ids
    BY DEF Ids
  <2>2. /\ Tail(search.left) \in Seq(Names) /\ << >> \in Seq(Ids)
        /\ Append(search.results, r) \in Seq(Result)
    BY <1>1, <1>3
  <2> QED
    BY <1>1, <1>4, <2>1, <2>2 DEF Search
<1>6. SearchTypeOK' /\ CreatedInOrder'
  BY <1>1, <1>5 DEF SearchTypeOK, CreatedInOrder
<1>7. QueryUnderWay'
  <2>1. ~ \E i : i \in Found(search'.matches)
    BY <1>5, FoundIn
  <2>2. Found(search.matches)' = Found(search'.matches)
    BY DEF Found
  <2> QED
    BY <1>5, <2>1, <2>2 DEF QueryUnderWay, FittedAtFirst, NewestFirst
<1> DEFINE old == Len(search.results)
           rest == Len(search.left)
<1>8. /\ old \in Nat /\ rest \in Nat \ {0}
      /\ Len(search'.results) = old + 1 /\ Len(search'.left) = rest - 1
      /\ \A k \in 1..(rest - 1) : search'.left[k] = search.left[k + 1]
      /\ \A n \in 1..old : search'.results[n] = search.results[n]
      /\ search'.results[old + 1] = r
      /\ DOMAIN search'.results = 1..(old + 1)
      /\ DOMAIN search.results = 1..old
  BY <1>1, <1>3, <1>5
<1>9. /\ old + rest = Len(References)
      /\ \A k \in 1..rest : search.left[k] = References[old + k]
  BY DEF ReferencesInOrder
<1> HIDE DEF old, rest
<1>10. ReferencesInOrder'
  <2>1. ASSUME NEW k \in 1..(rest - 1)
        PROVE  search'.left[k] = References[(old + 1) + k]
    <3>1. k + 1 \in 1..rest /\ old + (k + 1) = (old + 1) + k
      BY <1>8
    <3> QED
      BY <1>8, <1>9, <3>1
  <2>2. search'.left = << >> <=> Len(search'.left) = 0
    <3>1. search'.left \in Seq(Names)
      BY <1>1, <1>5
    <3> QED
      BY <3>1
  <2>3. /\ search'.pc = "fetch" => search'.left # << >>
        /\ search'.pc = "done" => search'.left = << >>
    <3>1. search'.pc = (IF rest = 1 THEN "done" ELSE "fetch")
      BY <1>5 DEF rest
    <3> QED
      BY <1>8, <2>2, <3>1
  <2>4. Len(search'.results) + Len(search'.left) = Len(References)
    BY <1>8, <1>9
  <2>5. search'.by = "reference"
    BY <1>5
  <2> QED
    BY <1>8, <2>1, <2>2, <2>3, <2>4, <2>5 DEF ReferencesInOrder
<1>11. ResultsOK'
  <2>1. \A q : ResultOK(q)' <=> ResultOK(q)
    BY DEF ResultOK, FittedAtFirst, NewestFirst, Found, Fits
  <2>2. ASSUME NEW n \in DOMAIN search'.results
        PROVE  /\ search'.results[n].reference = References[n]
               /\ ResultOK(search'.results[n])
    <3>1. CASE n = old + 1
      <4>1. search.left[1] = References[old + 1]
        BY <1>8, <1>9
      <4> QED
        BY <1>2, <1>3, <1>8, <3>1, <4>1
    <3>2. CASE n # old + 1
      <4>1. n \in DOMAIN search.results /\ n \in 1..old
        BY <1>8, <3>2
      <4> QED
        BY <1>8, <4>1 DEF ResultsOK
    <3> QED
      BY <3>1, <3>2
  <2>3. \A n \in DOMAIN search'.results : ResultOK(search.results[n])'
                                      <=> ResultOK(search'.results[n])
    BY DEF ResultOK, FittedAtFirst, NewestFirst, Found, Fits
  <2> QED
    BY <2>2, <2>3 DEF ResultsOK
<1> QED
  BY <1>6, <1>7, <1>10, <1>11

LEMMA ReferenceFailsStep ==
  ASSUME SearchInv, ReferenceFails
  PROVE  SearchInv'
<1>1. /\ search.by = "reference" /\ search.pc = "fetch"
      /\ Report(<< >>, {}, TRUE) /\ UNCHANGED <<list, now>>
  BY DEF ReferenceFails
<1>2. FittedAtFirst({}) /\ NewestFirst(<< >>) /\ {} \in Ids
  BY DEF FittedAtFirst, NewestFirst, Ids
<1>3. << >> \in Seq(Ids) /\ TRUE \in BOOLEAN
  OBVIOUS
<1> QED
  BY <1>1, <1>2, <1>3, ReportStep

LEMMA FetchReferencePageStep ==
  ASSUME SearchInv, FetchReferencePage
  PROVE  SearchInv'
<1> USE DEF SearchInv
<1> DEFINE reference == Head(search.left)
           page == getNotifications(reference, search.olderThan)
           asked == Asked(reference, search.olderThan)
           expected == Expected(reference)
           cursor == Cursor(page)
           new == Append(search.matches, page)
<1>1. /\ list \in Seq(Notification) /\ now \in Nat /\ search \in Search
      /\ search.olderThan \in Nat /\ search.matches \in Seq(Ids)
      /\ search.expected \in Ids
  BY DEF SearchTypeOK, Search
<1>2. /\ search.by = "reference" /\ search.pc = "fetch"
      /\ UNCHANGED <<list, now>> /\ Reference = reference
      /\ IF LastPage(page)
         THEN Report(new, expected, FALSE)
         ELSE search' = [search EXCEPT !.expected = expected, !.matches = new,
                                       !.olderThan = cursor]
  BY DEF FetchReferencePage, Reference
<1>3. /\ \A i \in page : i \in asked
      /\ \A i \in page, j \in asked : j > i => j \in page
      /\ LastPage(page) => page = asked
      /\ page = {} => LastPage(page)
      /\ page # {} => Min(page) \in page /\ \A i \in page : Min(page) <= i
      /\ page \in Ids
  <2> HIDE DEF page, reference
  <2>1. page = getNotifications(reference, search.olderThan)
    BY DEF page
  <2> QED
    BY <1>1, <2>1, NextPage
<1> HIDE DEF reference
<1>4. \A i : i \in asked <=>
               /\ i \in DOMAIN list
               /\ search.olderThan = 0 \/ i < search.olderThan
               /\ Fits(i) /\ (reference = None \/ list[i].reference = reference)
  BY DEF Asked, Queried, Fits
<1>5. page # {} => cursor \in page /\ \A i \in page : cursor <= i
  BY <1>3 DEF Cursor
<1>6. /\ FittedAtFirst(expected) /\ expected \in Ids
      /\ \A i \in expected :
           /\ i \in search.expected \/ search.olderThan = 0
           /\ reference = None \/ list[i].reference = reference
  <2>1. CASE search.olderThan = 0
    <3>1. expected = {i \in DOMAIN list :
                        Fits(i) /\ (reference = None
                                      \/ list[i].reference = reference)}
      BY <2>1 DEF Expected, Queried, Fits
    <3>2. expected \in Ids
      BY <1>1, <3>1 DEF Ids
    <3> QED
      BY <2>1, <3>1, <3>2 DEF FittedAtFirst, Fits
  <2>2. CASE search.olderThan # 0
    BY <1>1, <1>2, <2>2 DEF Expected, QueryUnderWay
  <2> QED
    BY <2>1, <2>2
<1>7. DOMAIN list = 1..Len(list) /\ Len(list) \in Nat
  BY <1>1
<1> HIDE DEF page, asked, expected, cursor
<1>8. /\ \A i : i \in Found(new) <=> i \in Found(search.matches) \/ i \in page
      /\ NewestFirst(new) /\ new \in Seq(Ids)
  <2>1. ASSUME NEW i \in Found(search.matches), NEW j \in page
        PROVE  i > j
    <3>1. search.olderThan # 0
      BY <1>2, FoundIn DEF QueryUnderWay
    <3>2. j < search.olderThan /\ i >= search.olderThan /\ i \in DOMAIN list
          /\ j \in DOMAIN list
      BY <1>3, <1>4, <3>1 DEF QueryUnderWay
    <3> QED
      BY <1>1, <1>7, <3>2
  <2> QED
    BY <1>1, <1>3, <2>1, PageAppended DEF QueryUnderWay
<1> HIDE DEF new
<1>9. ASSUME NEW i \in expected, Fits(i), i \notin Found(new)
      PROVE  ~LastPage(page) /\ i < cursor
  <2>1. i \in DOMAIN list
    BY <1>6 DEF FittedAtFirst
  <2>2. search.olderThan = 0 \/ i < search.olderThan
    BY <1>2, <1>6, <1>8, <1>9 DEF QueryUnderWay
  <2>3. i \in asked /\ i \notin page
    BY <1>4, <1>6, <1>8, <1>9, <2>1, <2>2
  <2>4. ~LastPage(page) /\ page # {}
    BY <1>3, <2>3
  <2>5. ASSUME NEW j \in page
        PROVE  i < j
    BY <1>3, <1>4, <1>7, <2>1, <2>3
  <2> QED
    BY <1>5, <2>4, <2>5
<1>10. CASE LastPage(page)
  <2>1. \A i \in expected : Fits(i) => i \in Found(new)
    BY <1>9, <1>10
  <2>2. Report(new, expected, FALSE) /\ FALSE \in BOOLEAN
    BY <1>2, <1>10
  <2> QED
    BY <1>2, <1>6, <1>8, <2>1, <2>2, ReportStep
<1>11. CASE ~LastPage(page)
  <2>1. page # {} /\ cursor \in page /\ \A i \in page : cursor <= i
    BY <1>3, <1>5, <1>11
  <2>2. cursor \in DOMAIN list /\ cursor \in Nat /\ cursor # 0
        /\ (search.olderThan = 0 \/ cursor < search.olderThan)
    BY <1>3, <1>4, <1>7, <2>1
  <2>3. /\ search' \in Search /\ search'.by = "reference"
        /\ search'.pc = "fetch" /\ search'.olderThan = cursor
        /\ search'.expected = expected /\ search'.matches = new
        /\ search'.left = search.left /\ search'.results = search.results
    BY <1>1, <1>2, <1>6, <1>8, <1>11, <2>2 DEF Search
  <2>4. SearchTypeOK' /\ CreatedInOrder' /\ ReferencesInOrder'
    BY <1>1, <1>2, <2>3 DEF SearchTypeOK, CreatedInOrder, ReferencesInOrder
  <2>5. ResultsOK'
    <3>1. \A n \in DOMAIN search.results :
            ResultOK(search.results[n])' <=> ResultOK(search.results[n])
      BY <1>2, <2>3 DEF ResultOK, FittedAtFirst, NewestFirst, Found, Fits
    <3> QED
      BY <2>3, <3>1 DEF ResultsOK
  <2>6. ASSUME NEW i \in Found(new)
        PROVE  i \in DOMAIN list /\ i >= cursor
    <3>1. CASE i \in page
      BY <1>3, <1>4, <1>7, <2>1, <2>2, <3>1
    <3>2. CASE i \in Found(search.matches)
      <4>1. /\ i \in DOMAIN list /\ i >= search.olderThan
            /\ search.olderThan # 0
        BY <1>2, <3>2, FoundIn DEF QueryUnderWay
      <4> QED
        BY <1>1, <1>7, <2>2, <4>1
    <3> QED
      BY <1>8, <3>1, <3>2
  <2>7. QueryUnderWay'
    <3>1. Reference' = reference
      BY <1>2, <2>3 DEF Reference
    <3>2. \A i : Fits(i)' <=> Fits(i)
      BY <1>2 DEF Fits
    <3>3. FittedAtFirst(search.expected)'
      BY <1>2, <1>6, <2>3 DEF FittedAtFirst
    <3>4. DOMAIN list' = DOMAIN list
      BY <1>2
    <3>5. Found(search.matches)' = Found(new)
          /\ NewestFirst(search.matches)' = NewestFirst(new)
      BY <2>3 DEF Found, NewestFirst
    <3> QED
      BY <1>2, <1>6, <1>8, <1>9, <2>2, <2>3, <2>6, <3>1, <3>2, <3>3, <3>4, <3>5
      DEF QueryUnderWay
  <2> QED
    BY <2>4, <2>5, <2>7
<1> QED
  BY <1>10, <1>11

LEMMA SearchStep ==
  ASSUME SearchInv, [Next]_vars
  PROVE  SearchInv'
<1>1. CASE UNCHANGED vars
  <2>1. UNCHANGED <<list, now, search>> /\ Kept
    BY <1>1 DEF vars, Kept
  <2>2. SearchTypeOK' /\ CreatedInOrder'
    BY <2>1 DEF SearchInv, SearchTypeOK, CreatedInOrder
  <2> QED
    BY <2>1, <2>2, ListChanges DEF SearchInv
<1> QED
  BY <1>1, FetchPageStep, FetchFailsStep, FetchReferencePageStep,
     ReferenceFailsStep, OutsideStep
  DEF Next, ByDate, ByReference

LEMMA SearchInvariant == Spec => []SearchInv
BY SearchInit, SearchStep, PTL DEF Spec

-----------------------------------------------------------------------------
(* Days: division by a day's length.                                       *)

LEMMA TimesDay ==
  ASSUME NEW p \in Int, NEW q \in Int, p <= q, NEW d \in Nat
  PROVE  p * d <= q * d
<1>1. q * d = p * d + (q - p) * d /\ (q - p) * d >= 0
  OBVIOUS
<1> QED
  BY <1>1

LEMMA DayOf ==
  ASSUME NEW x \in Int, NEW d \in Nat \ {0}
  PROVE  /\ x \div d \in Int
         /\ (x \div d) * d <= x /\ x < (x \div d) * d + d
OBVIOUS

LEMMA BetweenDays ==
  ASSUME NEW x \in Int, NEW d \in Nat \ {0}, NEW p \in Int, NEW q \in Int
  PROVE  x \div d \in p..q <=> p * d <= x /\ x < (q + 1) * d
<1> DEFINE day == x \div d
<1>1. /\ day \in Int /\ day * d <= x /\ x < day * d + d
      /\ (day + 1) * d = day * d + d
  <2>1. /\ day \in Int /\ day * d <= x /\ x < day * d + d
    BY DayOf
  <2> HIDE DEF day
  <2> QED
    BY <2>1
<1> HIDE DEF day
<1>2. p * d \in Int /\ (q + 1) * d \in Int
  OBVIOUS
<1>3. CASE day \in p..q
  BY <1>1, <1>2, <1>3, TimesDay
<1>4. CASE day < p
  <2>1. (day + 1) * d <= p * d
    BY <1>1, <1>4, TimesDay
  <2> QED
    BY <1>1, <1>2, <1>4, <2>1
<1>5. CASE day > q
  <2>1. (q + 1) * d <= day * d
    BY <1>1, <1>5, TimesDay
  <2> QED
    BY <1>1, <1>2, <1>5, <2>1
<1> QED
  BY <1>1, <1>3, <1>4, <1>5 DEF day

LEMMA DaysFrom ==
  ASSUME NEW x \in Int, NEW d \in Nat \ {0}, NEW p \in Int
  PROVE  p <= x \div d <=> p * d <= x
<1> DEFINE day == x \div d
           q == IF day < p THEN p ELSE day
<1>1. day \in Int /\ x < (day + 1) * d /\ q \in Int /\ p <= q /\ day <= q
  <2>1. /\ day \in Int /\ x < day * d + d
    BY DayOf
  <2> HIDE DEF day
  <2>2. (day + 1) * d = day * d + d
    BY <2>1
  <2> QED
    BY <2>1, <2>2
<1>2. day \in p..q <=> p * d <= x /\ x < (q + 1) * d
  BY <1>1, BetweenDays
<1> HIDE DEF day, q
<1>3. (day + 1) * d <= (q + 1) * d
  BY <1>1, TimesDay
<1>4. (day + 1) * d \in Int /\ (q + 1) * d \in Int
  BY <1>1
<1>5. x < (q + 1) * d
  BY <1>1, <1>3, <1>4
<1>6. p <= day <=> p * d <= x
  BY <1>1, <1>2, <1>5
<1> QED
  BY <1>6 DEF day

(* What lies between the script's dates lies on the days asked for, counted *)
(* in UTC; with a clock in UTC all of those days lies between them.        *)
LEMMA DatesAreDays ==
  ASSUME NEW x \in Int, ToDay \in Nat
  PROVE  /\ x \in fromDate..toDate => x \div DayLength \in FromDay..ToDay
         /\ UtcOffset = 0 /\ x \div DayLength \in FromDay..ToDay
              => x \in fromDate..toDate
<1> USE SearchAssumption
<1> DEFINE d == DayLength
           a == ToDay * d
           day == (a + UtcOffset) \div d
<1>1. /\ d \in Nat \ {0} /\ a \in Int /\ UtcOffset \in Int
      /\ -d <= UtcOffset /\ UtcOffset <= d
      /\ FromDay \in Int /\ ToDay \in Int
      /\ (ToDay + 1) * d = a + d /\ (ToDay + 2) * d = a + d + d
      /\ fromDate = FromDay * d /\ fromDate \in Int
  BY DEF fromDate
<1>2. /\ day \in Int /\ day * d <= a + UtcOffset
      /\ a + UtcOffset < day * d + d /\ (day + 1) * d = day * d + d
      /\ day * d \in Int
  <2>1. a + UtcOffset \in Int
    BY <1>1
  <2> HIDE DEF a
  <2>2. day \in Int /\ day * d <= a + UtcOffset /\ a + UtcOffset < day * d + d
    BY <1>1, <2>1, DayOf
  <2> HIDE DEF day
  <2> QED
    BY <1>1, <2>2
<1>3. toDate = day * d + d - UtcOffset - 1
  <2>1. toDate = (day + 1) * d - UtcOffset - 1
    BY DEF toDate
  <2> HIDE DEF a, day
  <2> QED
    BY <1>1, <1>2, <2>1
<1> HIDE DEF a, day, d
<1>4. toDate < a + d
  <2>1. CASE UtcOffset >= d
    <3>1. UtcOffset = d
      BY <1>1, <2>1
    <3> QED
      BY <1>1, <1>2, <1>3, <3>1
  <2>2. CASE 0 <= UtcOffset /\ UtcOffset < d
    <3>1. day * d <= a
      <4>1. day * d < a + d
        BY <1>1, <1>2, <2>2
      <4>2. ASSUME day >= ToDay + 1
            PROVE  FALSE
        <5>1. (ToDay + 1) * d <= day * d
          BY <1>1, <1>2, <4>2, TimesDay
        <5> QED
          BY <1>1, <1>2, <4>1, <5>1
      <4>3. day <= ToDay
        BY <1>1, <1>2, <4>2
      <4> QED
        BY <1>1, <1>2, <4>3, TimesDay DEF a
    <3> QED
      BY <1>1, <1>2, <1>3, <2>2, <3>1
  <2>3. CASE UtcOffset < 0
    BY <1>1, <1>2, <1>3, <2>3
  <2> QED
    BY <1>1, <2>1, <2>2, <2>3
<1>5. toDate \in Int
  BY <1>1, <1>2, <1>3
<1>6. x \div d \in FromDay..ToDay <=> fromDate <= x /\ x < a + d
  BY <1>1, BetweenDays
<1>7. ASSUME UtcOffset = 0
      PROVE  toDate = a + d - 1
  <2>1. day >= ToDay
    <3>1. ASSUME day + 1 <= ToDay
          PROVE  FALSE
      <4>1. (day + 1) * d <= a
        BY <1>1, <1>2, <3>1, TimesDay DEF a
      <4> QED
        BY <1>1, <1>2, <1>7, <4>1
    <3> QED
      BY <1>1, <1>2, <3>1
  <2>2. a <= day * d
    BY <1>1, <1>2, <2>1, TimesDay DEF a
  <2> QED
    BY <1>1, <1>2, <1>3, <1>7, <2>2
<1> QED
  BY <1>1, <1>4, <1>5, <1>6, <1>7 DEF d

LEMMA WithinIsOnDays ==
  ASSUME NEW i, list[i].createdAt \in Int
  PROVE  /\ Within(i) => OnDays(i, 0)
         /\ (UtcOffset = 0 \/ ToDay = None) /\ OnDays(i, 0) => Within(i)
<1> DEFINE x == list[i].createdAt
           day == x \div DayLength
<1>1. /\ OnDays(i, 0) <=> FromDay <= day /\ (ToDay = None \/ day <= ToDay)
      /\ Within(i) <=> ~(x < fromDate) /\ ~(ToDay # None /\ x > toDate)
  <2>1. x + 0 = x
    OBVIOUS
  <2> QED
    BY <2>1 DEF OnDays, Within, Before, After
<1>2. /\ DayLength \in Nat \ {0} /\ FromDay \in Int /\ x \in Int
      /\ fromDate = FromDay * DayLength /\ fromDate \in Int /\ day \in Int
      /\ toDate \in Int \/ ToDay = None
  <2>1. ToDay \in Nat => toDate \in Int
    <3>1. /\ ToDay \in Nat => ToDay * DayLength \in Int
          /\ UtcOffset \in Int /\ DayLength \in Nat \ {0}
      BY SearchAssumption
    <3>2. ASSUME ToDay \in Nat
          PROVE  (ToDay * DayLength + UtcOffset) \div DayLength \in Int
      <4> DEFINE y == ToDay * DayLength + UtcOffset
      <4>1. y \in Int
        BY <3>1, <3>2
      <4> HIDE DEF y
      <4>2. y \div DayLength \in Int
        BY <3>1, <4>1, DayOf
      <4> QED
        BY <4>2 DEF y
    <3> QED
      BY <3>1, <3>2 DEF toDate
  <2>2. day \in Int
    BY SearchAssumption, DayOf
  <2> QED
    BY <2>1, <2>2, SearchAssumption DEF fromDate
<1>3. FromDay <= day <=> fromDate <= x
  BY <1>2, DaysFrom
<1>4. CASE ToDay = None
  <2> HIDE DEF x, day
  <2> QED
    BY <1>1, <1>2, <1>3, <1>4
<1>5. CASE ToDay # None
  <2>1. ToDay \in Nat
    BY <1>5, SearchAssumption
  <2>2. /\ x \in fromDate..toDate => day \in FromDay..ToDay
        /\ UtcOffset = 0 /\ day \in FromDay..ToDay => x \in fromDate..toDate
    BY <1>2, <2>1, DatesAreDays
  <2> HIDE DEF x, day
  <2> QED
    BY <1>1, <1>2, <1>5, <2>1, <2>2
<1> QED
  BY <1>4, <1>5

-----------------------------------------------------------------------------
(* Pages of any size, a list of any length, any days and any offset of the *)
(* script's clock: nothing is found twice or out of order, and nothing but *)
(* what was asked for.                                                     *)
THEOREM SearchIsSound == Spec => []SearchSound
<1>1. ASSUME SearchInv
      PROVE  SearchSound
  <2>1. NewestFirst(search.matches)
    BY <1>1 DEF SearchInv, QueryUnderWay
  <2>2. \A n \in DOMAIN search.results : NewestFirst(search.results[n].matches)
    BY <1>1 DEF SearchInv, ResultsOK, ResultOK
  <2>3. ASSUME search.by = "date", NEW i \in Found(search.matches)
        PROVE  /\ OnDays(i, 0)
               /\ Template = None \/ list[i].template = Template
    <3>1. i \in DOMAIN list /\ Taken(i)
      BY <1>1, <2>3 DEF SearchInv, QueryUnderWay
    <3>2. list[i].createdAt \in Int
      BY <1>1, <3>1, StampIsNat DEF SearchInv, SearchTypeOK
    <3> QED
      BY <3>1, <3>2, WithinIsOnDays DEF Taken
  <2> QED
    BY <2>1, <2>2, <2>3 DEF SearchSound
<1> QED
  BY <1>1, SearchInvariant, PTL

(* With the script's clock in UTC, or without --to and by any clock: a     *)
(* search by date that ends has found everything of the days asked for     *)
(* that was there and still fits.                                          *)
THEOREM SearchIsComplete ==
  UtcOffset = 0 \/ ToDay = None => (Spec => []SearchComplete)
<1> SUFFICES ASSUME UtcOffset = 0 \/ ToDay = None
             PROVE  Spec => []SearchComplete
  OBVIOUS
<1>1. ASSUME SearchInv
      PROVE  SearchComplete
  <2>1. ASSUME search.by = "date", search.pc = "done",
               NEW i \in search.expected, OnDays(i, 0),
               Template = None \/ list[i].template = Template, Fits(i)
        PROVE  i \in Found(search.matches)
    <3>1. i \in DOMAIN list
      BY <1>1 DEF SearchInv, QueryUnderWay, FittedAtFirst
    <3>2. list[i].createdAt \in Int
      BY <1>1, <3>1, StampIsNat DEF SearchInv, SearchTypeOK
    <3>3. Taken(i)
      BY <2>1, <3>2, WithinIsOnDays DEF Taken
    <3> QED
      BY <1>1, <2>1, <3>3 DEF SearchInv, QueryUnderWay
  <2> QED
    BY <2>1 DEF SearchComplete, Fits
<1> QED
  BY <1>1, SearchInvariant, PTL

(* Any references, any number of pages, calls that fail anywhere: every    *)
(* reference is reported, in order, in full or as an error.                *)
THEOREM AllReferencesReported == Spec => []ReferencesReported
<1>1. ASSUME SearchInv
      PROVE  ReferencesReported
  <2>1. ASSUME search.by = "reference", search.pc = "done"
        PROVE  Len(search.results) = Len(References)
    <3>1. /\ search.left = << >> /\ search.results \in Seq(Result)
          /\ Len(search.results) + Len(search.left) = Len(References)
      BY <1>1, <2>1
      DEF SearchInv, SearchTypeOK, Search, ReferencesInOrder
    <3> QED
      BY <3>1
  <2> QED
    BY <1>1, <2>1
    DEF SearchInv, ResultsOK, ResultOK, Fits, ReferencesReported
<1> QED
  BY <1>1, SearchInvariant, PTL
=============================================================================
