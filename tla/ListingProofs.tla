--------------------------- MODULE ListingProofs ---------------------------
(***************************************************************************)
(* No job is missed and none is reported twice, for any number of runs and *)
(* jobs and any size of a page.  The first part is about listings and      *)
(* pages as such, the second about the walk through them.                  *)
(***************************************************************************)
EXTENDS Listing, SequenceTheorems, FunctionTheorems, FiniteSetTheorems, TLAPS

Numbered(list) == \A i, k \in 1..Len(list) : list[i] = list[k] => i = k

-----------------------------------------------------------------------------
(***************************************************************************)
(* Listings and pages.  Position i of a listing is the one run with i - 1  *)
(* newer ones: counting the newer runs maps a listing one to one onto      *)
(* 0 .. Cardinality(S) - 1.                                                *)
(***************************************************************************)

(* Fewer runs are newer than a newer run, and none is newer than itself    *)
(* (the order of the runs that activeRunIDs is answered).                  *)
LEMMA NewerIsCounted ==
  ASSUME NEW S \in SUBSET Nat, IsFiniteSet(S), NEW r \in S
  PROVE  /\ IsFiniteSet(Newer(S, r)) /\ Cardinality(Newer(S, r)) \in Nat
         /\ Cardinality(Newer(S, r)) < Cardinality(S)
         /\ \A q \in S : q > r => Cardinality(Newer(S, q)) < Cardinality(Newer(S, r))
  <1>1. Newer(S, r) \in SUBSET S /\ r \notin Newer(S, r)
    BY DEF Newer
  <1>2. /\ IsFiniteSet(Newer(S, r)) /\ Cardinality(Newer(S, r)) <= Cardinality(S)
        /\ Cardinality(Newer(S, r)) # Cardinality(S)
    BY <1>1, FS_Subset
  <1>3. Cardinality(Newer(S, r)) \in Nat /\ Cardinality(S) \in Nat
    BY <1>2, FS_CardinalityType
  <1>4. ASSUME NEW q \in S, q > r
        PROVE  Cardinality(Newer(S, q)) < Cardinality(Newer(S, r))
    <2>0. /\ \A s \in S : s > q => s > r
          /\ ~(q > q)
      BY <1>4
    <2>1. /\ Newer(S, q) \in SUBSET Newer(S, r)
          /\ q \in Newer(S, r) /\ q \notin Newer(S, q)
      BY ONLY <1>4, <2>0, Zenon DEF Newer
    <2>2. /\ IsFiniteSet(Newer(S, q))
          /\ Cardinality(Newer(S, q)) <= Cardinality(Newer(S, r))
          /\ Cardinality(Newer(S, q)) # Cardinality(Newer(S, r))
      BY <1>2, <2>1, FS_Subset
    <2>3. Cardinality(Newer(S, q)) \in Nat
      BY <2>2, FS_CardinalityType
    <2> QED
      BY <1>3, <2>2, <2>3
  <1> QED
    BY <1>2, <1>3, <1>4

(* Each position of a listing is taken by one run and by no other.         *)
LEMMA PositionsAreTaken ==
  ASSUME NEW S \in SUBSET Nat, IsFiniteSet(S)
  PROVE  /\ Cardinality(S) \in Nat
         /\ \A n \in 0..(Cardinality(S) - 1) : \E r \in S : Cardinality(Newer(S, r)) = n
         /\ \A q, r \in S : Cardinality(Newer(S, q)) = Cardinality(Newer(S, r)) => q = r
  <1> DEFINE Places  == 0..(Cardinality(S) - 1)
             place   == [r \in S |-> Cardinality(Newer(S, r))]
  <1>1. Cardinality(S) \in Nat
    BY FS_CardinalityType
  <1>2. IsFiniteSet(Places) /\ Cardinality(Places) = Cardinality(S)
    <2>1. 0 \in Int /\ Cardinality(S) - 1 \in Int
      BY <1>1
    <2>2. /\ IsFiniteSet(Places)
          /\ Cardinality(Places) = IF 0 > Cardinality(S) - 1 THEN 0
                                   ELSE Cardinality(S) - 1 - 0 + 1
      BY <2>1, FS_Interval
    <2> HIDE DEF Places
    <2> QED
      BY <1>1, <2>2
  <1>3. \A r \in S : Cardinality(Newer(S, r)) \in Places
    BY <1>1, NewerIsCounted
  <1>4. ASSUME NEW q \in S, NEW r \in S, Cardinality(Newer(S, q)) = Cardinality(Newer(S, r))
        PROVE  q = r
    <2>1. Cardinality(Newer(S, q)) \in Nat /\ Cardinality(Newer(S, r)) \in Nat
      BY NewerIsCounted
    <2>2. ~(q > r) /\ ~(r > q)
      BY <1>4, <2>1, NewerIsCounted
    <2>3. q \in Nat /\ r \in Nat
      OBVIOUS
    <2> QED
      BY <2>2, <2>3
  <1>5. place \in [S -> Places]
    BY <1>3
  <1>6. \A q, r \in S : place[q] = place[r] => q = r
    BY <1>4
  <1>7. \A r \in S : place[r] = Cardinality(Newer(S, r))
    OBVIOUS
  <1> HIDE DEF place, Places
  <1>8. place \in Injection(S, Places)
    BY <1>5, <1>6, Fun_IsInj
  <1>9. place \in Surjection(S, Places)
    BY <1>2, <1>8, FS_Injection
  <1>10. \A n \in Places : \E r \in S : place[r] = n
    BY <1>9, Fun_SurjectionProperties
  <1> QED
    BY <1>1, <1>4, <1>7, <1>10 DEF Places

(* What is put newest first loses nothing and repeats nothing.             *)
LEMMA NewestFirstIsFaithful ==
  ASSUME NEW S \in SUBSET Nat, IsFiniteSet(S)
  PROVE  /\ NewestFirst(S) \in Seq(S)
         /\ Range(NewestFirst(S)) = S /\ Numbered(NewestFirst(S))
  <1> DEFINE list == NewestFirst(S)
  <1>0. \A q, r \in S : Cardinality(Newer(S, q)) = Cardinality(Newer(S, r)) => q = r
    BY PositionsAreTaken
  <1>1. Cardinality(S) \in Nat
    BY FS_CardinalityType
  <1>2. ASSUME NEW i \in 1..Cardinality(S)
        PROVE  list[i] \in S /\ Cardinality(Newer(S, list[i])) = i - 1
    <2>1. i - 1 \in 0..(Cardinality(S) - 1)
      BY <1>1
    <2>2. \E r \in S : Cardinality(Newer(S, r)) = i - 1
      BY <2>1, PositionsAreTaken
    <2> QED
      BY <2>2 DEF NewestFirst
  <1>3. list \in [1..Cardinality(S) -> S]
    BY <1>2 DEF NewestFirst
  <1>4. list \in Seq(S) /\ Len(list) = Cardinality(S) /\ DOMAIN list = 1..Cardinality(S)
    BY <1>1, <1>3
  <1> HIDE DEF list
  <1>5. Numbered(list)
    BY <1>2, <1>4 DEF Numbered
  <1>6. ASSUME NEW r \in S  PROVE r \in Range(list)
    <2>1. /\ Cardinality(Newer(S, r)) \in Nat
          /\ Cardinality(Newer(S, r)) + 1 \in 1..Cardinality(S)
      BY <1>1, NewerIsCounted
    <2>2. PICK i \in 1..Cardinality(S) : i = Cardinality(Newer(S, r)) + 1
      BY <2>1
    <2>3. list[i] \in S /\ Cardinality(Newer(S, list[i])) = Cardinality(Newer(S, r))
      BY <1>2, <2>1, <2>2
    <2>4. list[i] = r
      BY ONLY <1>0, <2>3, r \in S
    <2> QED
      BY <1>4, <2>4 DEF Range
  <1>7. Range(list) \subseteq S
    BY <1>2, <1>4 DEF Range
  <1> QED
    BY <1>4, <1>5, <1>6, <1>7 DEF list

(* A page starts where the one before it ended, PerPage places further.    *)
LEMMA PagesAdjoin ==
  ASSUME NEW p \in Nat \ {0}
  PROVE  /\ (p - 1) * PerPage \in Nat /\ p * PerPage \in Nat
         /\ p * PerPage = (p - 1) * PerPage + PerPage
         /\ (p + 1) - 1 = p /\ (1 - 1) * PerPage = 0
  BY ListingAssumption, Z3

(* A page that does not reach the last run of its listing is full.         *)
LEMMA PageBeforeIsFull ==
  ASSUME NEW S \in SUBSET Nat, IsFiniteSet(S), NEW r \in S, NEW p \in Nat \ {0},
         p * PerPage <= Cardinality(Newer(S, r))
  PROVE  Cardinality(PageOf(S, p)) = PerPage
  <1>1. PICK lo \in Nat : lo = (p - 1) * PerPage
    BY PagesAdjoin
  <1>2. PICK hi \in Nat : hi = p * PerPage /\ hi = lo + PerPage
    BY <1>1, PagesAdjoin
  <1>3. /\ Cardinality(Newer(S, r)) \in Nat /\ Cardinality(S) \in Nat
        /\ Cardinality(Newer(S, r)) < Cardinality(S) /\ PerPage \in Nat \ {0}
    BY NewerIsCounted, FS_CardinalityType, ListingAssumption
  <1>4. hi <= Cardinality(Newer(S, r))
    BY <1>2
  <1>5. hi < Cardinality(S) /\ lo \in Int /\ hi - 1 \in Int
    BY <1>2, <1>3, <1>4
  <1> DEFINE Page   == PageOf(S, p)
             Places == lo..(hi - 1)
             place  == [q \in Page |-> Cardinality(Newer(S, q))]
  <1>6. IsFiniteSet(Places) /\ Cardinality(Places) = PerPage
    <2>1. /\ IsFiniteSet(Places)
          /\ Cardinality(Places) = IF lo > hi - 1 THEN 0 ELSE hi - 1 - lo + 1
      BY <1>5, FS_Interval
    <2> HIDE DEF Places
    <2> QED
      BY <1>1, <1>2, <1>3, <2>1
  <1>7. Page = {q \in S : lo <= Cardinality(Newer(S, q)) /\ Cardinality(Newer(S, q)) < hi}
    BY <1>1, <1>2 DEF PageOf
  <1>8. Page \in SUBSET S /\ IsFiniteSet(Page)
    BY <1>7, FS_Subset
  <1>9. \A q \in S : Cardinality(Newer(S, q)) \in Nat
    BY NewerIsCounted
  <1>10. place \in [Page -> Places]
    <2>1. ASSUME NEW q \in Page  PROVE Cardinality(Newer(S, q)) \in Places
      <3>1. /\ lo <= Cardinality(Newer(S, q)) /\ Cardinality(Newer(S, q)) < hi
            /\ Cardinality(Newer(S, q)) \in Nat
        BY <1>7, <1>9
      <3> QED
        BY ONLY <1>1, <1>2, <3>1
    <2> QED
      BY <2>1
  <1>11. \A q, t \in Page : place[q] = place[t] => q = t
    <2>1. \A q, t \in S : Cardinality(Newer(S, q)) = Cardinality(Newer(S, t)) => q = t
      BY PositionsAreTaken
    <2> QED
      BY <1>8, <2>1
  <1>12. \A n \in Places : \E q \in Page : place[q] = n
    <2> SUFFICES ASSUME NEW n \in Places  PROVE \E q \in Page : place[q] = n
      OBVIOUS
    <2>1. n \in 0..(Cardinality(S) - 1) /\ lo <= n /\ n < hi
      BY <1>1, <1>2, <1>3, <1>5
    <2>2. PICK q \in S : Cardinality(Newer(S, q)) = n
      BY <2>1, PositionsAreTaken
    <2>3. q \in Page
      BY <1>7, <2>1, <2>2
    <2> QED
      BY <2>2, <2>3
  <1> HIDE DEF Page, Places, place
  <1>13. place \in Bijection(Page, Places)
    BY ONLY <1>10, <1>11, <1>12, Fun_IsBij
  <1>14. Cardinality(Places) = Cardinality(Page)
    BY <1>8, <1>13, FS_Bijection DEF ExistsBijection
  <1> QED
    BY <1>6, <1>14 DEF Page

(* The loop over the pages stops no earlier than it has to: a run that is  *)
(* not on a page before the one it stops at is on that page (activeRunIDs).*)
LEMMA LastPageIsReached ==
  ASSUME NEW S \in SUBSET Nat, IsFiniteSet(S), NEW r \in S, NEW p \in 1..MaxRunPages,
         (p - 1) * PerPage <= Cardinality(Newer(S, r)),
         Cardinality(S) <= PerPage * MaxRunPages,
         ~(Cardinality(PageOf(S, p)) = PerPage /\ p < MaxRunPages)
  PROVE  r \in PageOf(S, p)
  <1>1. /\ Cardinality(Newer(S, r)) \in Nat /\ Cardinality(S) \in Nat
        /\ Cardinality(Newer(S, r)) < Cardinality(S)
    BY NewerIsCounted, FS_CardinalityType
  <1>2. p \in Nat \ {0} /\ p <= MaxRunPages /\ PerPage \in Nat /\ MaxRunPages \in Nat
    BY ListingAssumption
  <1>3. p * PerPage \in Nat
    BY <1>2, PagesAdjoin
  <1>4. Cardinality(Newer(S, r)) < p * PerPage
    <2>1. CASE p < MaxRunPages
      <3>1. ~(p * PerPage <= Cardinality(Newer(S, r)))
        BY <1>2, <2>1, PageBeforeIsFull
      <3> QED
        BY <1>1, <1>3, <3>1
    <2>2. CASE p = MaxRunPages
      <3>1. PerPage * MaxRunPages = p * PerPage
        BY <1>2, <2>2
      <3> QED
        BY <1>1, <1>3, <3>1
    <2> QED
      BY <1>2, <2>1, <2>2
  <1> QED
    BY <1>4 DEF PageOf

-----------------------------------------------------------------------------
(***************************************************************************)
(* The walk.  First what each GET does to ids, then how the runs move.     *)
(***************************************************************************)
Reported == report.queued \cup report.inProgress

Got == PageOf(RunsThatAre(Statuses[sweep]), page)

(* Two lists of which no run is in both make one list without repetition.  *)
LEMMA NumberedConcat ==
  ASSUME NEW S, NEW a \in Seq(S), NEW b \in Seq(S), Numbered(a), Numbered(b),
         Range(a) \cap Range(b) = {}
  PROVE  Numbered(a \o b)
  <1> DEFINE c == a \o b
  <1>1. /\ Len(a) \in Nat /\ Len(b) \in Nat /\ Len(c) = Len(a) + Len(b)
        /\ DOMAIN a = 1..Len(a) /\ DOMAIN b = 1..Len(b)
    BY LenProperties, ConcatProperties
  <1>2. \A i \in 1..Len(a) + Len(b) : c[i] = IF i <= Len(a) THEN a[i] ELSE b[i - Len(a)]
    BY ConcatProperties
  <1>3. ASSUME NEW i \in 1..Len(a), NEW k \in 1..Len(b)  PROVE a[i] # b[k]
    BY <1>1 DEF Range
  <1> HIDE DEF c
  <1>4. ASSUME NEW i \in 1..Len(c), NEW k \in 1..Len(c), c[i] = c[k]
        PROVE  i = k
    <2>1. CASE i <= Len(a) /\ k <= Len(a)
      <3>1. i \in 1..Len(a) /\ k \in 1..Len(a) /\ c[i] = a[i] /\ c[k] = a[k]
        BY <1>1, <1>2, <2>1
      <3> QED
        BY <1>4, <3>1 DEF Numbered
    <2>2. CASE ~(i <= Len(a)) /\ ~(k <= Len(a))
      <3>1. /\ i - Len(a) \in 1..Len(b) /\ k - Len(a) \in 1..Len(b)
            /\ c[i] = b[i - Len(a)] /\ c[k] = b[k - Len(a)]
        BY <1>1, <1>2, <2>2
      <3>2. i - Len(a) = k - Len(a)
        BY <1>4, <3>1 DEF Numbered
      <3> QED
        BY <1>1, <3>2
    <2>3. CASE i <= Len(a) /\ ~(k <= Len(a))
      <3>1. /\ i \in 1..Len(a) /\ k - Len(a) \in 1..Len(b)
            /\ c[i] = a[i] /\ c[k] = b[k - Len(a)]
        BY <1>1, <1>2, <2>3
      <3> QED
        BY <1>3, <1>4, <3>1
    <2>4. CASE ~(i <= Len(a)) /\ k <= Len(a)
      <3>1. /\ k \in 1..Len(a) /\ i - Len(a) \in 1..Len(b)
            /\ c[k] = a[k] /\ c[i] = b[i - Len(a)]
        BY <1>1, <1>2, <2>4
      <3> QED
        BY <1>3, <1>4, <3>1
    <2> QED
      BY <2>1, <2>2, <2>3, <2>4
  <1> QED
    BY <1>4 DEF Numbered, c

(* What a listing and a page of it consist of.                             *)
LEMMA ListedRuns ==
  ASSUME NEW status, NEW p
  PROVE  /\ RunsThatAre(status) \in SUBSET Runs /\ RunsThatAre(status) \in SUBSET Nat
         /\ IsFiniteSet(RunsThatAre(status))
         /\ Cardinality(RunsThatAre(status)) <= Cardinality(Runs)
         /\ PageOf(RunsThatAre(status), p) \in SUBSET RunsThatAre(status)
  <1>1. /\ RunsThatAre(status) \in SUBSET Runs /\ RunsThatAre(status) \in SUBSET Nat
        /\ IsFiniteSet(Runs)
    BY ListingAssumption DEF RunsThatAre
  <1>2. /\ IsFiniteSet(RunsThatAre(status))
        /\ Cardinality(RunsThatAre(status)) <= Cardinality(Runs)
    BY <1>1, FS_Subset
  <1> QED
    BY <1>1, <1>2 DEF PageOf

(* A page adds its runs to ids, each of them once (seen in activeRunIDs).  *)
LEMMA PageIsAdded ==
  ASSUME TypeOK, ReadPage
  PROVE  /\ ids' \in Seq(Runs) /\ Range(ids') = Range(ids) \cup Got
         /\ Numbered(ids) => Numbered(ids')
  <1> DEFINE new == NewestFirst(Unseen(Got))
  <1>1. Got \in SUBSET Runs /\ Unseen(Got) \in SUBSET Runs /\ Unseen(Got) \in SUBSET Nat
    BY ListedRuns, ListingAssumption DEF Got, Unseen
  <1>2. IsFiniteSet(Unseen(Got))
    BY <1>1, FS_Subset, ListingAssumption
  <1>3. new \in Seq(Unseen(Got)) /\ Range(new) = Unseen(Got) /\ Numbered(new)
    BY <1>1, <1>2, NewestFirstIsFaithful
  <1>4. ids \in Seq(Runs) /\ ids' = ids \o new
    BY DEF TypeOK, ReadPage, Got
  <1> HIDE DEF new
  <1>5. new \in Seq(Runs)
    BY <1>1, <1>3, SeqMonotonic
  <1>6. Range(ids \o new) = Range(ids) \cup Range(new)
    BY <1>4, <1>5, RangeConcatenation
  <1>7. Range(ids) \cap Range(new) = {}
    BY <1>3 DEF Unseen
  <1>8. ids \o new \in Seq(Runs)
    BY <1>4, <1>5, ConcatProperties
  <1>9. Numbered(ids) => Numbered(ids \o new)
    BY <1>3, <1>4, <1>5, <1>7, NumberedConcat
  <1> QED
    BY <1>3, <1>4, <1>6, <1>8, <1>9 DEF Unseen

(* Reading the jobs of a run takes that run out of ids (ListActiveJobs).   *)
LEMMA RunIsTaken ==
  ASSUME TypeOK, ReadJobs
  PROVE  /\ ids' \in Seq(Runs) /\ Head(ids) \in Runs
         /\ Range(ids) = Range(ids') \cup {Head(ids)}
         /\ Numbered(ids) => Numbered(ids') /\ Head(ids) \notin Range(ids')
  <1>1. ids \in Seq(Runs) /\ ids # <<>> /\ ids' = Tail(ids)
    BY DEF TypeOK, ReadJobs
  <1>2. /\ Head(ids) \in Runs /\ Tail(ids) \in Seq(Runs) /\ Len(Tail(ids)) = Len(ids) - 1
        /\ \A i \in 1..Len(Tail(ids)) : Tail(ids)[i] = ids[i + 1]
    BY <1>1, HeadTailProperties
  <1>3. Len(ids) \in Nat \ {0} /\ Head(ids) = ids[1]
    BY <1>1, EmptySeq
  <1>4. /\ Range(ids) = {ids[i] : i \in 1..Len(ids)}
        /\ Range(Tail(ids)) = {Tail(ids)[i] : i \in 1..Len(Tail(ids))}
    BY <1>1, <1>2, RangeEquality
  <1>5. ASSUME NEW r \in Range(ids), r # Head(ids)  PROVE r \in Range(Tail(ids))
    <2>1. PICK i \in 1..Len(ids) : ids[i] = r
      BY <1>4
    <2>2. i - 1 \in 1..Len(Tail(ids)) /\ (i - 1) + 1 = i
      BY <1>2, <1>3, <1>5, <2>1
    <2>3. Tail(ids)[i - 1] = r
      BY <1>2, <2>1, <2>2
    <2> QED
      BY <1>4, <2>2, <2>3
  <1>6. ASSUME NEW i \in 1..Len(Tail(ids))
        PROVE  i + 1 \in 1..Len(ids) /\ 1 \in 1..Len(ids) /\ i + 1 # 1 /\ Tail(ids)[i] = ids[i + 1]
    BY <1>2, <1>3
  <1>7. Range(Tail(ids)) \cup {Head(ids)} \subseteq Range(ids)
    BY <1>3, <1>4, <1>6
  <1>8. Numbered(ids) => Numbered(Tail(ids)) /\ Head(ids) \notin Range(Tail(ids))
    <2> SUFFICES ASSUME Numbered(ids)
                 PROVE  Numbered(Tail(ids)) /\ Head(ids) \notin Range(Tail(ids))
      OBVIOUS
    <2>1. Head(ids) \notin Range(Tail(ids))
      BY <1>3, <1>4, <1>6 DEF Numbered
    <2>2. ASSUME NEW i \in 1..Len(Tail(ids)), NEW k \in 1..Len(Tail(ids)),
                 Tail(ids)[i] = Tail(ids)[k]
          PROVE  i = k
      <3>1. i + 1 = k + 1
        BY <1>6, <2>2 DEF Numbered
      <3> QED
        BY <1>2, <1>3, <3>1
    <2> QED
      BY <2>1, <2>2 DEF Numbered
  <1> QED
    BY <1>1, <1>2, <1>5, <1>7, <1>8

(* A run with a job that is not over is in one of the two listings.        *)
LEMMA OutstandingIsListed ==
  ASSUME NEW j \in Jobs, j \in Outstanding
  PROVE  RunOf[j] \in Runs /\ RunStatus(RunOf[j]) \in {"queued", "in_progress"}
  <1>1. RunOf[j] \in Runs /\ j \in JobsOf(RunOf[j])
    BY ListingAssumption DEF JobsOf
  <1> QED
    BY <1>1 DEF RunStatus

(* A run in progress stays so for as long as a job of it is not over.      *)
LEMMA StartedStaysStarted ==
  ASSUME TypeOK, World, NEW j \in Jobs, j \in Outstanding',
         RunStatus(RunOf[j]) = "in_progress"
  PROVE  RunStatus(RunOf[j])' = "in_progress"
  <1> DEFINE r == RunOf[j]
  <1>1. j \in JobsOf(r) /\ JobsOf(r) \subseteq Jobs
    BY ListingAssumption DEF JobsOf
  <1>2. PICK i \in JobsOf(r) : job[i] \in {"in_progress", "completed"}
    <2>1. {job[i] : i \in JobsOf(r)} \cap {"in_progress", "completed"} # {}
      BY DEF RunStatus
    <2> QED
      BY <2>1
  <1>3. job'[i] \in {"in_progress", "completed"}
    <2>1. PICK k \in Jobs : Submitted(k) \/ Started(k) \/ Ended(k)
      BY DEF World
    <2>2. job \in [Jobs -> {"none", "queued", "in_progress", "completed"}] /\ i \in Jobs
      BY <1>1 DEF TypeOK
    <2> QED
      BY <1>2, <2>1, <2>2 DEF Submitted, Started, Ended, JobBecomes
  <1>4. {job'[l] : l \in JobsOf(r)} \cap {"in_progress", "completed"} # {}
    BY <1>2, <1>3
  <1> HIDE DEF r
  <1>5. RunStatus(r)' = "in_progress"
    BY <1>1, <1>4 DEF RunStatus, JobsOf
  <1> QED
    BY <1>5 DEF r
-----------------------------------------------------------------------------
(***************************************************************************)
(* Types.                                                                  *)
(***************************************************************************)

(* A page keeps the types, and the number of the next one in its bounds    *)
(* (the loops of activeRunIDs).                                            *)
LEMMA ReadPageTypes ==
  ASSUME TypeOK, ReadPage
  PROVE  TypeOK'
  <1>1. ids' \in Seq(Runs)
    BY PageIsAdded
  <1>2. sweep' \in 1..2
    BY DEF TypeOK, ReadPage
  <1>3. page' \in 1..MaxRunPages
    BY ListingAssumption DEF TypeOK, ReadPage, Continues
  <1>4. pc' \in {"idle", "runs", "jobs", "answered"}
    BY DEF ReadPage
  <1>5. UNCHANGED <<job, report, steady, slipped>>
    BY DEF ReadPage
  <1> QED
    BY <1>1, <1>2, <1>3, <1>4, <1>5 DEF TypeOK, Outstanding

(* The jobs of a run keep the types (ListActiveJobs, Observe).             *)
LEMMA ReadJobsTypes ==
  ASSUME TypeOK, ReadJobs
  PROVE  TypeOK'
  <1>1. ids' \in Seq(Runs)
    BY RunIsTaken
  <1>2. report' \in [queued : SUBSET Jobs, inProgress : SUBSET Jobs]
    BY ListingAssumption DEF TypeOK, ReadJobs
  <1>3. UNCHANGED <<job, pc, sweep, page, steady, slipped>>
    BY DEF ReadJobs
  <1> QED
    BY <1>1, <1>2, <1>3 DEF TypeOK, Outstanding

(* What starts, ends or is given up of a call keeps the types.             *)
LEMMA CallTypes ==
  ASSUME TypeOK, Begin \/ Answer \/ Fail \/ Adopted
  PROVE  TypeOK'
  <1>1. CASE Begin \/ Answer
    BY <1>1 DEF TypeOK, Begin, Answer, Outstanding
  <1>2. CASE Fail \/ Adopted
    <2>1. Reset
      BY <1>2 DEF Fail, Adopted
    <2>2. 1 \in 1..2 /\ 1 \in 1..MaxRunPages
      BY ListingAssumption
    <2>3. <<>> \in Seq(Runs)
      BY EmptySeq
    <2>4. NothingRead \in [queued : SUBSET Jobs, inProgress : SUBSET Jobs]
      BY DEF NothingRead
    <2> QED
      BY <2>1, <2>2, <2>3, <2>4 DEF TypeOK, Reset, Outstanding
  <1> QED
    BY <1>1, <1>2

(* GitHub's jobs keep the types; one that ends is steady no more.          *)
LEMMA WorldTypes ==
  ASSUME TypeOK, World
  PROVE  TypeOK' /\ steady' \subseteq steady /\ UNCHANGED callVars
  <1>1. PICK j \in Jobs : Submitted(j) \/ Started(j) \/ Ended(j)
    BY DEF World
  <1>2. PICK state \in {"queued", "in_progress", "completed"} : JobBecomes(j, state)
    BY <1>1 DEF Submitted, Started, Ended
  <1>3. job' = [job EXCEPT ![j] = state] /\ UNCHANGED callVars
    BY <1>2 DEF JobBecomes
  <1>4. job' \in [Jobs -> {"none", "queued", "in_progress", "completed"}]
    BY <1>3 DEF TypeOK
  <1>5. steady' \subseteq steady /\ (state = "completed" => j \notin steady')
    BY <1>2 DEF JobBecomes
  <1>6. steady' \subseteq Outstanding'
    BY <1>3, <1>5 DEF TypeOK, Outstanding
  <1>7. slipped' \in BOOLEAN
    BY <1>2 DEF JobBecomes, TypeOK
  <1> QED
    BY <1>3, <1>4, <1>5, <1>6, <1>7 DEF TypeOK, callVars

(* The listing always has its types.                                       *)
THEOREM ListingTypeCorrect == Spec => []TypeOK
  <1>1. Init => TypeOK
    <2>1. 1 \in 1..MaxRunPages /\ 1 \in 1..2
      BY ListingAssumption
    <2>2. <<>> \in Seq(Runs)
      BY EmptySeq
    <2>3. NothingRead \in [queued : SUBSET Jobs, inProgress : SUBSET Jobs]
      BY DEF NothingRead
    <2> QED
      BY <2>1, <2>2, <2>3 DEF Init, TypeOK
  <1>2. TypeOK /\ [Next]_vars => TypeOK'
    <2> SUFFICES ASSUME TypeOK, [Next]_vars
                 PROVE  TypeOK'
      OBVIOUS
    <2>1. CASE ReadPage
      BY <2>1, ReadPageTypes
    <2>2. CASE ReadJobs
      BY <2>2, ReadJobsTypes
    <2>3. CASE Begin \/ Answer \/ Fail \/ Adopted
      BY <2>3, CallTypes
    <2>4. CASE World
      BY <2>4, WorldTypes
    <2>5. CASE UNCHANGED vars
      BY <2>5 DEF TypeOK, vars, callVars, Outstanding
    <2> QED
      BY <2>1, <2>2, <2>3, <2>4, <2>5 DEF Next, ListActiveJobs
  <1> QED
    BY <1>1, <1>2, PTL DEF Spec

-----------------------------------------------------------------------------
(***************************************************************************)
(* No run is met twice, and no job of a run that is still to be read has   *)
(* been reported: so a job is reported from one answer of GitHub only.     *)
(***************************************************************************)
Walk ==
  /\ Numbered(ids)
  /\ pc \in {"idle", "runs"} => report = NothingRead
  /\ \A j \in Reported : RunOf[j] \notin Range(ids)
  /\ ReportedOnce

(* The walk starts with nothing (activeRunIDs, ListActiveJobs).            *)
LEMMA NothingIsReported ==
  ASSUME report = NothingRead
  PROVE  Reported = {} /\ ReportedOnce
  BY DEF NothingRead, Reported, ReportedOnce

(* A page keeps the runs apart (activeRunIDs).                             *)
LEMMA ReadPageWalks ==
  ASSUME TypeOK, Walk, ReadPage
  PROVE  Walk'
  <1>1. report = NothingRead /\ report' = NothingRead
    BY DEF Walk, ReadPage
  <1>2. Numbered(ids)'
    <2>1. Numbered(ids')
      BY PageIsAdded DEF Walk
    <2> QED
      BY <2>1 DEF Numbered
  <1>3. Reported' = {} /\ ReportedOnce'
    BY <1>1 DEF NothingRead, Reported, ReportedOnce
  <1> QED
    BY <1>1, <1>2, <1>3 DEF Walk, NothingRead

(* The jobs that are reported next are of a run of their own.              *)
LEMMA ReadJobsWalks ==
  ASSUME TypeOK, Walk, ReadJobs
  PROVE  Walk'
  <1> DEFINE r == Head(ids)
  <1>1. /\ Range(ids) = Range(ids') \cup {r} /\ r \notin Range(ids')
        /\ Numbered(ids')
    BY RunIsTaken DEF Walk
  <1>2. PICK wanted \in SUBSET JobsOf(r) :
           report' = [queued     |-> report.queued \cup {j \in wanted : job[j] = "queued"},
                      inProgress |-> report.inProgress
                                       \cup {j \in wanted : job[j] = "in_progress"}]
    <2>1. FirstJobs(r) \cap Ours \in SUBSET JobsOf(r)
      BY DEF FirstJobs
    <2> QED
      BY <2>1 DEF ReadJobs
  <1>3. \A j \in wanted : RunOf[j] = r
    BY <1>2 DEF JobsOf
  <1>4. \A j \in Reported : RunOf[j] \notin Range(ids)
    BY DEF Walk
  <1> HIDE DEF r
  <1>5. Reported' \subseteq Reported \cup wanted
    BY <1>2 DEF Reported
  <1>6. \A j \in Reported' : RunOf[j] \notin Range(ids')
    BY <1>1, <1>3, <1>4, <1>5
  <1>7. ReportedOnce'
    <2>1. wanted \cap Reported = {}
      BY <1>1, <1>3, <1>4
    <2> QED
      BY <1>2, <2>1 DEF ReportedOnce, Reported, Walk
  <1>8. pc' = "jobs"
    BY DEF ReadJobs
  <1> QED
    BY <1>1, <1>6, <1>7, <1>8 DEF Walk, Numbered

(* One answer never says of a job both that it is queued and that it is in *)
(* progress (activeRunIDs, Observe).                                       *)
THEOREM NoJobIsReportedTwice == Spec => []ReportedOnce
  <1>1. Init => Walk
    <2> SUFFICES ASSUME Init  PROVE Walk
      OBVIOUS
    <2>1. report = NothingRead /\ Len(ids) = 0
      BY EmptySeq DEF Init
    <2>2. Numbered(ids)
      BY <2>1 DEF Numbered
    <2> QED
      BY <2>1, <2>2, NothingIsReported DEF Walk
  <1>2. TypeOK /\ Walk /\ [Next]_vars => Walk'
    <2> SUFFICES ASSUME TypeOK, Walk, [Next]_vars
                 PROVE  Walk'
      OBVIOUS
    <2>1. CASE ReadPage
      BY <2>1, ReadPageWalks
    <2>2. CASE ReadJobs
      BY <2>2, ReadJobsWalks
    <2>3. CASE Begin \/ Answer
      BY <2>3 DEF Begin, Answer, Walk, Reported, ReportedOnce, Numbered
    <2>4. CASE Fail \/ Adopted
      <3>1. report' = NothingRead /\ ids' = <<>> /\ Len(<<>>) = 0
        BY <2>4, EmptySeq DEF Fail, Adopted, Reset
      <3>2. Numbered(ids)'
        BY <3>1 DEF Numbered
      <3>3. Reported' = {} /\ ReportedOnce'
        BY <3>1 DEF NothingRead, Reported, ReportedOnce
      <3> QED
        BY <3>1, <3>2, <3>3 DEF Walk, NothingRead
    <2>5. CASE World
      <3>1. UNCHANGED callVars
        BY <2>5, WorldTypes
      <3> QED
        BY <3>1 DEF callVars, Walk, Reported, ReportedOnce, Numbered, NothingRead
    <2>6. CASE UNCHANGED vars
      BY <2>6 DEF vars, callVars, Walk, Reported, ReportedOnce, Numbered, NothingRead
    <2> QED
      BY <2>1, <2>2, <2>3, <2>4, <2>5, <2>6 DEF Next, ListActiveJobs
  <1>3. Walk => ReportedOnce
    BY DEF Walk
  <1> QED
    BY <1>1, <1>2, <1>3, ListingTypeCorrect, PTL DEF Spec

-----------------------------------------------------------------------------
(***************************************************************************)
(* Where a job is that may not be missed: its run is in ids, or on a page  *)
(* that the walk has ahead of it, or has gone ahead to the second listing. *)
(* Runs that join a listing only move the others away from the page that   *)
(* is asked for next; one that leaves it is what slipped records.          *)
(***************************************************************************)
Ahead(r) ==
  /\ r \in RunsThatAre(Statuses[sweep])
  /\ (page - 1) * PerPage <= Cardinality(Newer(RunsThatAre(Statuses[sweep]), r))

ToBeFound(r) ==
  \/ r \in Range(ids)
  \/ Ahead(r)
  \/ sweep = 1 /\ r \in RunsThatAre("in_progress")

Found(j) ==
  /\ pc = "runs" => ToBeFound(RunOf[j])
  /\ pc = "jobs" => RunOf[j] \in Range(ids) \/ j \in Reported
  /\ pc = "answered" => j \in Reported

NoneIsMissed ==
  /\ pc = "idle" => sweep = 1 /\ page = 1
  /\ Fits /\ ~slipped => \A j \in steady \cap Ours : Found(j)

(* On a first page no run has been passed over yet.                        *)
LEMMA FirstPageIsAhead ==
  ASSUME page = 1, NEW r \in RunsThatAre(Statuses[sweep])
  PROVE  Ahead(r)
  <1>1. Cardinality(Newer(RunsThatAre(Statuses[sweep]), r)) \in Nat
    BY NewerIsCounted, ListedRuns
  <1>2. (page - 1) * PerPage = 0
    BY PagesAdjoin
  <1> QED
    BY <1>1, <1>2 DEF Ahead

(* A call begins with every outstanding job ahead of it (ListActiveJobs).  *)
LEMMA BeginMissesNone ==
  ASSUME TypeOK, NoneIsMissed, Begin
  PROVE  NoneIsMissed'
  <1>1. /\ pc' = "runs" /\ sweep' = 1 /\ page' = 1 /\ sweep = 1 /\ page = 1
        /\ job' = job /\ steady' = Outstanding
    BY DEF Begin, NoneIsMissed
  <1>2. ASSUME NEW j \in steady' \cap Ours  PROVE Found(j)'
    <2> DEFINE r == RunOf[j]
    <2>1. r \in Runs /\ RunStatus(r) \in {"queued", "in_progress"}
      BY <1>1, OutstandingIsListed DEF Outstanding
    <2>2. r \in RunsThatAre("queued") \/ r \in RunsThatAre("in_progress")
      BY <2>1 DEF RunsThatAre
    <2>3. Statuses[sweep] = "queued"
      BY <1>1 DEF Statuses
    <2>4. Ahead(r) \/ r \in RunsThatAre("in_progress")
      BY <1>1, <2>2, <2>3, FirstPageIsAhead
    <2> HIDE DEF r
    <2>5. ToBeFound(r)'
      BY <1>1, <2>4 DEF ToBeFound, Ahead, RunsThatAre, RunStatus, Outstanding
    <2> QED
      BY <1>1, <2>5 DEF Found, r
  <1> QED
    BY <1>1, <1>2 DEF NoneIsMissed

(* A page takes the runs that are on it into ids; what is ahead of it      *)
(* stays ahead of the next one, and after the last there is nothing ahead  *)
(* (activeRunIDs).                                                         *)
LEMMA ReadPageMissesNone ==
  ASSUME TypeOK, NoneIsMissed, ReadPage
  PROVE  NoneIsMissed'
  <1> DEFINE S == RunsThatAre(Statuses[sweep])
  <1>1. /\ pc = "runs" /\ pc' \in {"runs", "jobs"}
        /\ UNCHANGED <<job, report, steady, slipped>>
    BY DEF ReadPage
  <1>2. Range(ids') = Range(ids) \cup PageOf(S, page)
    BY PageIsAdded DEF Got
  <1>3. page \in 1..MaxRunPages /\ page \in Nat \ {0} /\ sweep \in 1..2
    BY ListingAssumption DEF TypeOK
  <1>4. S \in SUBSET Nat /\ IsFiniteSet(S) /\ Cardinality(S) <= Cardinality(Runs)
    BY ListedRuns
  <1>5. ASSUME Fits, ~slipped, NEW j \in steady \cap Ours
        PROVE  Found(j)'
    <2> DEFINE r == RunOf[j]
    <2>1. ToBeFound(r) /\ Found(j)
      BY <1>1, <1>5 DEF NoneIsMissed, Found
    <2>2. CASE r \in Range(ids')
      BY <1>1, <2>2 DEF Found, ToBeFound
    <2>3. CASE Ahead(r) /\ r \notin PageOf(S, page)
      <3>1. r \in S /\ (page - 1) * PerPage <= Cardinality(Newer(S, r))
        BY <2>3 DEF Ahead
      <3>2. Cardinality(S) <= PerPage * MaxRunPages
        <4>1. Cardinality(Runs) <= PerPage * MaxRunPages
          BY <1>5 DEF Fits
        <4>2. /\ Cardinality(S) \in Nat /\ Cardinality(Runs) \in Nat
              /\ PerPage * MaxRunPages \in Nat
          BY <1>4, FS_CardinalityType, ListingAssumption
        <4> QED
          BY <1>4, <4>1, <4>2
      <3>3. Cardinality(PageOf(S, page)) = PerPage /\ page < MaxRunPages
        BY <1>3, <1>4, <2>3, <3>1, <3>2, LastPageIsReached
      <3>4. pc' = "runs" /\ page' = page + 1 /\ sweep' = sweep
        BY <1>1, <3>3 DEF ReadPage, Continues
      <3>5. Cardinality(Newer(S, r)) \in Nat
        BY <1>4, <3>1, NewerIsCounted
      <3>6. page * PerPage <= Cardinality(Newer(S, r))
        <4>1. ~(Cardinality(Newer(S, r)) < page * PerPage)
          BY <2>3, <3>1 DEF PageOf
        <4>2. page * PerPage \in Nat
          BY <1>3, PagesAdjoin
        <4> QED
          BY <3>5, <4>1, <4>2
      <3>7. (page' - 1) * PerPage = page * PerPage
        BY <1>3, <3>4
      <3>8. S = RunsThatAre(Statuses[sweep])'
        BY <1>1, <3>4 DEF RunsThatAre, RunStatus, Outstanding
      <3>9. Ahead(r)'
        BY <3>1, <3>6, <3>7, <3>8 DEF Ahead, Newer
      <3> QED
        BY <3>4, <3>9 DEF Found, ToBeFound
    <2>4. CASE sweep = 1 /\ r \in RunsThatAre("in_progress")
      <3>1. pc' = "runs"
        BY <1>1, <2>4 DEF ReadPage
      <3>2. CASE Continues(Got)
        <4>1. sweep' = 1
          BY <2>4, <3>2 DEF ReadPage, Got
        <4>2. r \in RunsThatAre("in_progress")'
          BY <1>1, <2>4 DEF RunsThatAre, RunStatus, Outstanding
        <4> QED
          BY <3>1, <4>1, <4>2 DEF Found, ToBeFound
      <3>3. CASE ~Continues(Got)
        <4>1. sweep' = 2 /\ page' = 1
          BY <2>4, <3>3 DEF ReadPage, Got
        <4>2. Statuses[sweep'] = "in_progress"
          BY <4>1 DEF Statuses
        <4>3. r \in RunsThatAre(Statuses[sweep'])
          BY <2>4, <4>2
        <4>4. Cardinality(Newer(RunsThatAre("in_progress"), r)) \in Nat
          BY <2>4, NewerIsCounted, ListedRuns
        <4>5. (page' - 1) * PerPage <= Cardinality(Newer(RunsThatAre("in_progress"), r))
          BY <4>1, <4>4, PagesAdjoin
        <4>6. RunsThatAre(Statuses[sweep])' = RunsThatAre("in_progress")
          BY <1>1, <4>2 DEF RunsThatAre, RunStatus, Outstanding
        <4>7. Ahead(r)'
          BY <2>4, <4>5, <4>6 DEF Ahead, Newer
        <4> QED
          BY <3>1, <4>7 DEF Found, ToBeFound
      <3> QED
        BY <3>2, <3>3
    <2> QED
      BY <1>2, <2>1, <2>2, <2>3, <2>4 DEF ToBeFound
  <1> QED
    BY <1>1, <1>5 DEF NoneIsMissed, Fits

(* The jobs of a run that still wait or run are reported, all of them if   *)
(* they fit one page (ListActiveJobs, Observe).                            *)
LEMMA ReadJobsMissesNone ==
  ASSUME TypeOK, NoneIsMissed, ReadJobs
  PROVE  NoneIsMissed'
  <1>1. pc = "jobs" /\ UNCHANGED <<job, pc, sweep, page, steady, slipped>>
    BY DEF ReadJobs
  <1>2. Range(ids) = Range(ids') \cup {Head(ids)}
    BY RunIsTaken
  <1>3. ASSUME Fits, ~slipped, NEW j \in steady \cap Ours
        PROVE  RunOf[j] \in Range(ids') \/ j \in Reported'
    <2> DEFINE r == RunOf[j]
    <2>1. r \in Range(ids) \/ j \in Reported
      BY <1>1, <1>3 DEF NoneIsMissed, Found
    <2>2. CASE j \in Reported
      BY <2>2 DEF ReadJobs, Reported
    <2>3. CASE r = Head(ids)
      <3>1. /\ j \in Jobs /\ j \in Ours /\ job[j] \in {"queued", "in_progress"}
            /\ r \in Runs /\ JobsOf(r) \subseteq Jobs /\ j \in JobsOf(r)
        BY ListingAssumption DEF TypeOK, Outstanding, JobsOf
      <3>2. /\ IsFiniteSet(JobsOf(r)) /\ Older(JobsOf(r), j) \in SUBSET JobsOf(r)
            /\ j \notin Older(JobsOf(r), j)
        BY <3>1, FS_Subset, ListingAssumption DEF Older
      <3>3. /\ Cardinality(Older(JobsOf(r), j)) \in Nat /\ Cardinality(JobsOf(r)) \in Nat
            /\ Cardinality(Older(JobsOf(r), j)) <= Cardinality(JobsOf(r))
            /\ Cardinality(Older(JobsOf(r), j)) # Cardinality(JobsOf(r))
        <4>1. /\ IsFiniteSet(Older(JobsOf(r), j))
              /\ Cardinality(Older(JobsOf(r), j)) <= Cardinality(JobsOf(r))
              /\ Cardinality(JobsOf(r)) = Cardinality(Older(JobsOf(r), j))
                   => JobsOf(r) = Older(JobsOf(r), j)
          BY <3>2, FS_Subset
        <4> HIDE DEF r
        <4> QED
          BY <3>1, <3>2, <4>1, FS_CardinalityType
      <3>4. Cardinality(JobsOf(r)) <= PerPage /\ PerPage \in Nat
        BY <1>3, <3>1, ListingAssumption DEF Fits
      <3>5. Cardinality(Older(JobsOf(r), j)) < PerPage
        BY <3>3, <3>4
      <3>6. j \in FirstJobs(Head(ids)) \cap Ours
        BY <2>3, <3>1, <3>5 DEF FirstJobs
      <3> QED
        BY <3>1, <3>6 DEF ReadJobs, Reported
    <2> QED
      BY <1>2, <2>1, <2>2, <2>3
  <1> QED
    BY <1>1, <1>3 DEF NoneIsMissed, Found, Fits

(* When nothing is left to be read, every job that may not be missed has   *)
(* been reported (ListActiveJobs).                                         *)
LEMMA AnswerMissesNone ==
  ASSUME NoneIsMissed, Answer
  PROVE  NoneIsMissed'
  <1>1. Range(ids) = {}
    BY DEF Answer, Range
  <1> QED
    BY <1>1 DEF Answer, NoneIsMissed, Found, Fits, Reported

(* While jobs start and end, the run of a job that stays outstanding is    *)
(* not lost from what is ahead: it may only move on to the second listing, *)
(* and no run that is newer than it leaves (activeRunIDs).                 *)
LEMMA WorldMissesNone ==
  ASSUME TypeOK, NoneIsMissed, World
  PROVE  NoneIsMissed'
  <1>1. steady' \subseteq steady /\ UNCHANGED callVars /\ TypeOK'
    BY WorldTypes
  <1>2. /\ slipped => slipped'
        /\ ~slipped' /\ pc = "runs" /\ page > 1 =>
             \A r \in Runs : RunStatus(r) = Statuses[sweep] => RunStatus(r)' = Statuses[sweep]
    BY DEF World, Submitted, Started, Ended, JobBecomes
  <1>3. ASSUME Fits, ~slipped', pc = "runs", NEW j \in steady' \cap Ours
        PROVE  ToBeFound(RunOf[j])'
    <2> DEFINE r == RunOf[j]
               S == RunsThatAre(Statuses[sweep])
    <2>1. /\ j \in Jobs /\ r \in Runs /\ j \in Outstanding /\ j \in Outstanding'
          /\ sweep \in 1..2 /\ page \in Nat \ {0}
      BY <1>1, ListingAssumption DEF TypeOK, Outstanding
    <2>2. ToBeFound(r)
      BY <1>1, <1>2, <1>3 DEF NoneIsMissed, Found
    <2>3. CASE r \in Range(ids)
      BY <1>1, <2>3 DEF ToBeFound, callVars
    <2>4. CASE RunStatus(r) = "in_progress" /\ sweep = 1
      <3>1. RunStatus(r)' = "in_progress"
        BY <2>1, <2>4, StartedStaysStarted
      <3> QED
        BY <1>1, <2>1, <2>4, <3>1 DEF ToBeFound, RunsThatAre, callVars
    <2>5. CASE Ahead(r)
      <3>1. /\ RunStatus(r) = Statuses[sweep]
            /\ (page - 1) * PerPage <= Cardinality(Newer(S, r))
        BY <2>5 DEF Ahead, RunsThatAre
      <3>2. r \in S' \/ (sweep = 1 /\ RunStatus(r)' = "in_progress")
        <4>1. CASE sweep = 1
          <5>1. RunStatus(r)' \in {"queued", "in_progress"}
            BY <2>1, ListingAssumption DEF RunStatus, JobsOf
          <5> QED
            BY <1>1, <2>1, <4>1, <5>1 DEF RunsThatAre, Statuses, callVars
        <4>2. CASE sweep = 2
          <5>1. RunStatus(r)' = "in_progress"
            BY <2>1, <3>1, <4>2, StartedStaysStarted DEF Statuses
          <5> QED
            BY <1>1, <2>1, <4>2, <5>1 DEF RunsThatAre, Statuses, callVars
        <4> QED
          BY <2>1, <4>1, <4>2
      <3>3. CASE sweep = 1 /\ RunStatus(r)' = "in_progress"
        BY <1>1, <2>1, <3>3 DEF ToBeFound, RunsThatAre, callVars
      <3>4. CASE r \in S'
        <4>1. /\ S' \in SUBSET Nat /\ IsFiniteSet(S')
          <5>1. S' \in SUBSET Runs
            BY DEF RunsThatAre
          <5> QED
            BY <5>1, FS_Subset, ListingAssumption
        <4>2. Cardinality(Newer(S', r)) \in Nat /\ IsFiniteSet(Newer(S', r))
          BY <3>4, <4>1, NewerIsCounted
        <4>3. (page - 1) * PerPage <= Cardinality(Newer(S', r))
          <5>1. CASE page = 1
            BY <4>2, <5>1, PagesAdjoin
          <5>2. CASE page > 1
            <6>1. S \subseteq S'
              BY <1>1, <1>2, <1>3, <5>2 DEF RunsThatAre, callVars
            <6>2. Newer(S, r) \in SUBSET Newer(S', r)
              BY <6>1 DEF Newer
            <6>3. /\ IsFiniteSet(Newer(S, r))
                  /\ Cardinality(Newer(S, r)) <= Cardinality(Newer(S', r))
              BY <4>2, <6>2, FS_Subset
            <6>4. Cardinality(Newer(S, r)) \in Nat /\ (page - 1) * PerPage \in Nat
              BY <2>1, <6>3, FS_CardinalityType, PagesAdjoin
            <6> QED
              BY <3>1, <4>2, <6>3, <6>4
          <5> QED
            BY <2>1, <5>1, <5>2
        <4>4. Ahead(r)'
          BY <1>1, <3>4, <4>3 DEF Ahead, Newer, callVars
        <4> QED
          BY <4>4 DEF ToBeFound
      <3> QED
        BY <3>2, <3>3, <3>4
    <2> QED
      BY <2>2, <2>3, <2>4, <2>5 DEF ToBeFound, RunsThatAre
  <1>4. ASSUME Fits, ~slipped', NEW j \in steady' \cap Ours
        PROVE  Found(j)'
    <2>1. Found(j)
      BY <1>1, <1>2, <1>4 DEF NoneIsMissed
    <2>2. CASE pc = "runs"
      BY <1>1, <1>3, <1>4, <2>2 DEF Found, callVars
    <2>3. CASE pc # "runs"
      BY <1>1, <2>1, <2>3 DEF Found, Reported, callVars
    <2> QED
      BY <2>2, <2>3
  <1> QED
    BY <1>1, <1>4 DEF NoneIsMissed, Fits, callVars

(* A job of this pool that was outstanding all through the call is in its  *)
(* answer, under the two conditions of the property (ListActiveJobs,       *)
(* activeRunIDs).                                                          *)
THEOREM NoJobIsMissed == Spec => []OutstandingIsReported
  <1>1. Init => NoneIsMissed
    BY DEF Init, NoneIsMissed
  <1>2. TypeOK /\ NoneIsMissed /\ [Next]_vars => NoneIsMissed'
    <2> SUFFICES ASSUME TypeOK, NoneIsMissed, [Next]_vars
                 PROVE  NoneIsMissed'
      OBVIOUS
    <2>1. CASE Begin
      BY <2>1, BeginMissesNone
    <2>2. CASE ReadPage
      BY <2>2, ReadPageMissesNone
    <2>3. CASE ReadJobs
      BY <2>3, ReadJobsMissesNone
    <2>4. CASE Answer
      BY <2>4, AnswerMissesNone
    <2>5. CASE Fail \/ Adopted
      BY <2>5 DEF Fail, Adopted, Reset, NoneIsMissed
    <2>6. CASE World
      BY <2>6, WorldMissesNone
    <2>7. CASE UNCHANGED vars
      <3>1. \A status : RunsThatAre(status)' = RunsThatAre(status)
        BY <2>7 DEF vars, RunsThatAre, RunStatus, Outstanding
      <3>2. ASSUME NEW r  PROVE ToBeFound(r) => ToBeFound(r)'
        <4>1. Statuses[sweep'] = Statuses[sweep]
          BY <2>7 DEF vars, callVars
        <4>2. RunsThatAre(Statuses[sweep])' = RunsThatAre(Statuses[sweep])
          BY <2>7, <4>1 DEF RunsThatAre, RunStatus, Outstanding, vars
        <4> QED
          BY <2>7, <3>1, <4>2 DEF vars, callVars, ToBeFound, Ahead, Newer
      <3> QED
        BY <2>7, <3>2 DEF vars, callVars, NoneIsMissed, Found, Reported, Fits
    <2> QED
      BY <2>1, <2>2, <2>3, <2>4, <2>5, <2>6, <2>7 DEF Next, ListActiveJobs
  <1>3. NoneIsMissed => OutstandingIsReported
    BY DEF NoneIsMissed, OutstandingIsReported, Found, Reported
  <1> QED
    BY <1>1, <1>2, <1>3, ListingTypeCorrect, PTL DEF Spec
=============================================================================
