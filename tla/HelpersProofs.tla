----------------------------- MODULE HelpersProofs -----------------------------
(***************************************************************************)
(* Proofs about what the platform records of people, as MCHelpers composes *)
(* it: for any sets of helpers, bookings, services and requests in flight  *)
(* that are finite where they are counted, and for any bounds.             *)
(***************************************************************************)
EXTENDS MCHelpers, PayoutAccountProofs, FiniteSetTheorems, NaturalsInduction

-----------------------------------------------------------------------------
(***************************************************************************)
(* JobSite                                                                 *)
(***************************************************************************)

\* An administrator has read issues that are there, and as many are open at most.
SiteCallsKnow == open <= reported /\ \A c \in Caller : saw[c] <= reported

SiteInv ==
  /\ Site!SiteTypeOK /\ SiteCallsKnow
  /\ Site!TogetherOnly /\ Site!OverlooksOnlyTheFlying /\ Site!LeftOpenWasLate

\* JobSite counts what FiniteSets counts.
LEMMA SiteCounts ==
  \A S : Site!Cardinality(S) = Cardinality(S) /\ (Site!IsFiniteSet(S) <=> IsFiniteSet(S))
  BY DEF Site!Cardinality, Cardinality, Site!IsFiniteSet, IsFiniteSet

LEMMA SiteNumbers ==
  ASSUME Site!SiteTypeOK
  PROVE  /\ MaxRecords \in Nat /\ reported \in Nat /\ open \in Nat /\ late \in Nat
         /\ \A c \in Caller : saw[c] \in Nat /\ flying[c] \in Nat
<1>1. MaxRecords \in Nat
  BY SiteHolds DEF Site!SiteAssumption
<1> QED
  BY <1>1 DEF Site!SiteTypeOK

\* The reports can be counted, before a step and after it.
LEMMA ReportsAreFinite ==
  /\ IsFiniteSet({c \in Caller : siteCall[c] = "issue"})
  /\ Site!Reports = Cardinality({c \in Caller : siteCall[c] = "issue"})
  /\ Site!Reports \in Nat
  /\ Site!Reports' = Cardinality({c \in Caller : siteCall'[c] = "issue"})
  /\ Site!Reports' \in Nat
  /\ Site!Cardinality(Caller) \in Nat
  /\ Site!Reports' <= Site!Cardinality(Caller)
<1>1. IsFiniteSet(Caller)
  BY SiteHolds, SiteCounts DEF Site!SiteAssumption
<1> DEFINE A == {c \in Caller : siteCall[c] = "issue"}
           B == {c \in Caller : siteCall'[c] = "issue"}
<1>2. /\ IsFiniteSet(A) /\ Cardinality(A) \in Nat
      /\ IsFiniteSet(B) /\ Cardinality(B) \in Nat
      /\ Cardinality(Caller) \in Nat /\ Cardinality(B) <= Cardinality(Caller)
  BY <1>1, FS_Subset, FS_CardinalityType
<1>3. Site!Reports = Cardinality(A) /\ Site!Reports' = Cardinality(B)
      /\ Site!Cardinality(Caller) = Cardinality(Caller)
  BY SiteCounts DEF Site!Reports
<1> QED
  BY <1>2, <1>3

\* Calls that end, or do something else, are fewer.
LEMMA ReportsShrink ==
  ASSUME \A c \in Caller : siteCall'[c] = "issue" => siteCall[c] = "issue"
  PROVE  Site!Reports' <= Site!Reports
<1> DEFINE A == {c \in Caller : siteCall[c] = "issue"}
           B == {c \in Caller : siteCall'[c] = "issue"}
<1>1. B \in SUBSET A
  OBVIOUS
<1>2. IsFiniteSet(A) /\ Site!Reports = Cardinality(A) /\ Site!Reports' = Cardinality(B)
  BY ReportsAreFinite
<1> HIDE DEF A, B
<1> QED
  BY <1>1, <1>2, FS_Subset

\* A report that has created its issue is one less.
LEMMA ReportEnds ==
  ASSUME NEW c \in Caller, Site!SiteTypeOK, siteCall[c] = "issue", Site!Ends(c)
  PROVE  Site!Reports' = Site!Reports - 1
<1> DEFINE A == {d \in Caller : siteCall[d] = "issue"}
           B == {d \in Caller : siteCall'[d] = "issue"}
<1>1. B = A \ {c} /\ c \in A
  BY DEF Site!Ends, Site!SiteTypeOK, Site!Idle
<1>2. IsFiniteSet(A) /\ Site!Reports = Cardinality(A) /\ Site!Reports' = Cardinality(B)
  BY ReportsAreFinite
<1> HIDE DEF A, B
<1>3. Cardinality(A \ {c}) = Cardinality(A) - 1
  BY <1>1, <1>2, FS_RemoveElement
<1> QED
  BY <1>1, <1>2, <1>3

\* A call that ends has forgotten what it read; the others have not.
LEMMA EndsForgets ==
  ASSUME NEW c \in Caller, SiteInv, Site!Ends(c)
  PROVE  /\ siteCall' \in [Caller -> {"issue", "cancel", Site!Idle}]
         /\ saw' \in [Caller -> 0 .. MaxRecords] /\ flying' \in [Caller -> Nat]
         /\ siteCall'[c] = Site!Idle /\ saw'[c] = 0
         /\ \A d \in Caller \ {c} :
              siteCall'[d] = siteCall[d] /\ saw'[d] = saw[d] /\ flying'[d] = flying[d]
         /\ Site!Reports' <= Site!Reports
<1>1. /\ siteCall' \in [Caller -> {"issue", "cancel", Site!Idle}]
      /\ siteCall'[c] = Site!Idle
      /\ \A d \in Caller \ {c} : siteCall'[d] = siteCall[d]
  BY DEF SiteInv, Site!SiteTypeOK, Site!Ends
<1>2. /\ saw' \in [Caller -> 0 .. MaxRecords] /\ saw'[c] = 0
      /\ \A d \in Caller \ {c} : saw'[d] = saw[d]
  <2>1. 0 \in 0 .. MaxRecords
    BY SiteNumbers DEF SiteInv
  <2> QED
    BY <2>1 DEF SiteInv, Site!SiteTypeOK, Site!Ends
<1>3. /\ flying' \in [Caller -> Nat]
      /\ \A d \in Caller \ {c} : flying'[d] = flying[d]
  BY DEF SiteInv, Site!SiteTypeOK, Site!Ends
<1>4. Site!Reports' <= Site!Reports
  BY <1>1, ReportsShrink DEF Site!Idle
<1> QED
  BY <1>1, <1>2, <1>3, <1>4

\* Nothing is reported of the booking, and no call is in flight.
LEMMA SiteInit == Site!Init => SiteInv
<1> SUFFICES ASSUME Site!Init PROVE SiteInv
  OBVIOUS
<1>1. MaxRecords \in Nat
  BY SiteHolds DEF Site!SiteAssumption
<1>2. Site!Reports = 0
  <2>1. {c \in Caller : siteCall[c] = "issue"} = {}
    BY DEF Site!Init, Site!Idle
  <2> QED
    BY <2>1, FS_EmptySet, ReportsAreFinite
<1>3. Site!SiteTypeOK
  <2>1. siteCall \in [Caller -> {"issue", "cancel", Site!Idle}]
    BY DEF Site!Init
  <2>2. 0 \in 0 .. MaxRecords
    BY <1>1
  <2> QED
    BY <2>1, <2>2 DEF Site!Init, Site!SiteTypeOK
<1>4. Site!TogetherOnly
  BY <1>2, ReportsAreFinite DEF Site!Init, Site!TogetherOnly
<1> QED
  BY <1>3, <1>4
  DEF SiteInv, Site!Init, Site!Idle, SiteCallsKnow, Site!OverlooksOnlyTheFlying,
      Site!LeftOpenWasLate

\* What a call has read it has read now, or keeps, or forgets.
SawIsKept ==
  \A c \in Caller :
    \/ saw'[c] = 0
    \/ saw'[c] = saw[c] /\ flying'[c] = flying[c] /\ siteCall'[c] = siteCall[c]
    \/ saw'[c] = reported /\ flying'[c] = Site!Reports

\* What fits beside a number fits beside a smaller one.
LEMMA FewerFit ==
  \A i, j, k, n \in Nat : k <= j /\ i + j <= n => i + k <= n
  OBVIOUS

\* Fewer beside a number are no more together.
LEMMA FewerAre ==
  \A i, j, k \in Nat : k <= j => i + k <= i + j /\ 0 + k <= j
  OBVIOUS

\* Nothing is reported and no report begins: the counts hold.
LEMMA SiteRests ==
  ASSUME SiteInv, UNCHANGED <<open, reported, late>>, Site!SiteTypeOK',
         status' = "ADMIN_CANCELLED" => status = "ADMIN_CANCELLED",
         Site!Reports' <= Site!Reports, SawIsKept
  PROVE  SiteInv'
<1>1. /\ Site!Reports \in Nat /\ Site!Reports' \in Nat /\ Site!Cardinality(Caller) \in Nat
      /\ reported \in Nat /\ open \in Nat /\ late \in Nat
      /\ \A c \in Caller : saw[c] \in Nat /\ flying[c] \in Nat
  BY ReportsAreFinite, SiteNumbers DEF SiteInv
<1>2. SiteCallsKnow'
  BY <1>1 DEF SiteInv, SiteCallsKnow, SawIsKept
<1>3. Site!TogetherOnly' /\ Site!LeftOpenWasLate'
  <2>1. reported + Site!Reports <= Site!Cardinality(Caller)
    BY DEF SiteInv, Site!TogetherOnly
  <2>2. reported + Site!Reports' <= Site!Cardinality(Caller)
    BY <1>1, <2>1, FewerFit
  <2>3. status = "ADMIN_CANCELLED" => open + Site!Reports <= late
    BY DEF SiteInv, Site!LeftOpenWasLate
  <2>4. ASSUME status' = "ADMIN_CANCELLED"
        PROVE  open + Site!Reports' <= late
    <3>1. open + Site!Reports <= late
      BY <2>3, <2>4
    <3> QED
      BY <1>1, <3>1, FewerFit
  <2>5. Site!TogetherOnly'
    BY <2>2 DEF Site!TogetherOnly
  <2>6. Site!LeftOpenWasLate'
    BY <2>4 DEF Site!LeftOpenWasLate
  <2> QED
    BY <2>5, <2>6
<1>4. ASSUME NEW c \in Caller, siteCall'[c] = "cancel", saw'[c] > 0
      PROVE  reported' + Site!Reports' <= saw'[c] + flying'[c]
  <2>1. reported + Site!Reports' <= reported + Site!Reports
    BY <1>1, FewerAre
  <2>2. CASE saw'[c] = reported /\ flying'[c] = Site!Reports
    BY <2>1, <2>2
  <2>3. CASE saw'[c] = saw[c] /\ flying'[c] = flying[c] /\ siteCall'[c] = siteCall[c]
    <3>1. reported + Site!Reports <= saw[c] + flying[c]
      BY <1>4, <2>3 DEF SiteInv, Site!OverlooksOnlyTheFlying
    <3>2. saw[c] + flying[c] \in Nat /\ reported \in Nat
      BY <1>1
    <3>3. reported + Site!Reports' <= saw[c] + flying[c]
      BY <1>1, <3>1, <3>2, FewerFit
    <3> QED
      BY <2>3, <3>3
  <2> QED
    BY <1>4, <2>2, <2>3 DEF SawIsKept
<1>5. Site!OverlooksOnlyTheFlying'
  BY <1>4 DEF Site!OverlooksOnlyTheFlying
<1> QED
  BY <1>2, <1>3, <1>5 DEF SiteInv

\* The booking moves on.
LEMMA SiteMoves ==
  ASSUME SiteInv, Site!Move
  PROVE  SiteInv'
<1>1. Site!SiteTypeOK'
  BY DEF Site!Move, SiteInv, Site!SiteTypeOK
<1>2. Site!Reports' <= Site!Reports
  BY ReportsShrink DEF Site!Move
<1>3. status' # "ADMIN_CANCELLED"
  BY DEF Site!Move
<1> QED
  BY <1>1, <1>2, <1>3, SiteRests DEF Site!Move, SawIsKept

\* A request dies, or comes too late.
LEMMA SiteCallEnds ==
  ASSUME SiteInv, NEW c \in Caller, Site!CallDies(c) \/ Site!AdminTooLate(c)
  PROVE  SiteInv'
<1>1. Site!Ends(c) /\ UNCHANGED <<status, open, reported, late>>
  BY DEF Site!CallDies, Site!AdminTooLate
<1>2. Site!SiteTypeOK'
  BY <1>1, EndsForgets DEF SiteInv, Site!SiteTypeOK
<1> QED
  BY <1>1, <1>2, EndsForgets, SiteRests DEF SawIsKept

\* An administrator reads the booking.
LEMMA AdminReads ==
  ASSUME SiteInv, NEW c \in Caller, Site!AdminRead(c)
  PROVE  SiteInv'
<1>1. /\ siteCall'[c] = "cancel" /\ saw'[c] = reported /\ flying'[c] = Site!Reports
      /\ \A d \in Caller \ {c} :
           siteCall'[d] = siteCall[d] /\ saw'[d] = saw[d] /\ flying'[d] = flying[d]
  BY DEF SiteInv, Site!SiteTypeOK, Site!AdminRead
<1>2. Site!SiteTypeOK'
  BY ReportsAreFinite DEF SiteInv, Site!SiteTypeOK, Site!AdminRead
<1>3. Site!Reports' <= Site!Reports
  BY <1>1, ReportsShrink
<1>4. UNCHANGED <<status, open, reported, late>>
  BY DEF Site!AdminRead
<1> QED
  BY <1>1, <1>2, <1>3, <1>4, SiteRests DEF SawIsKept

\* A report begins only when there is no issue, and so no administrator was shown one.
LEMMA IssueIsRead ==
  ASSUME SiteInv, NEW c \in Caller, Site!IssueRead(c)
  PROVE  SiteInv'
<1>1. /\ status # "ADMIN_CANCELLED" /\ reported = 0
      /\ UNCHANGED <<status, open, reported, saw, flying, late>>
  BY DEF Site!IssueRead
<1>2. Site!SiteTypeOK'
  BY DEF SiteInv, Site!SiteTypeOK, Site!IssueRead
<1>3. SiteCallsKnow' /\ Site!LeftOpenWasLate'
  BY <1>1 DEF SiteInv, SiteCallsKnow, Site!LeftOpenWasLate
<1>4. Site!TogetherOnly'
  BY <1>1, ReportsAreFinite DEF Site!TogetherOnly
<1>5. Site!OverlooksOnlyTheFlying'
  <2>1. \A d \in Caller : ~(saw'[d] > 0)
    BY <1>1, SiteNumbers DEF SiteInv, SiteCallsKnow
  <2> QED
    BY <2>1 DEF Site!OverlooksOnlyTheFlying
<1> QED
  BY <1>2, <1>3, <1>4, <1>5 DEF SiteInv

\* An issue takes the place of the report that brings it.
LEMMA IssueIsCreated ==
  ASSUME SiteInv, NEW c \in Caller, Site!IssueCreate(c)
  PROVE  SiteInv'
<1>1. /\ siteCall[c] = "issue" /\ Site!Ends(c) /\ UNCHANGED <<status, late>>
      /\ reported < MaxRecords /\ open' = open + 1 /\ reported' = reported + 1
  BY DEF Site!IssueCreate
<1>2. Site!Reports' = Site!Reports - 1
  BY <1>1, ReportEnds DEF SiteInv
<1>3. /\ Site!Reports \in Nat /\ Site!Reports' \in Nat /\ Site!Cardinality(Caller) \in Nat
      /\ reported \in Nat /\ open \in Nat /\ late \in Nat /\ MaxRecords \in Nat
      /\ \A d \in Caller : saw[d] \in Nat /\ flying[d] \in Nat
  BY ReportsAreFinite, SiteNumbers DEF SiteInv
<1>4. /\ saw'[c] = 0 /\ siteCall'[c] = Site!Idle
      /\ \A d \in Caller \ {c} :
           siteCall'[d] = siteCall[d] /\ saw'[d] = saw[d] /\ flying'[d] = flying[d]
  BY <1>1, EndsForgets
<1>5. Site!SiteTypeOK'
  <2>1. open' \in 0 .. MaxRecords /\ reported' \in 0 .. MaxRecords
    BY <1>1, <1>3 DEF SiteInv, SiteCallsKnow
  <2>2. /\ siteCall' \in [Caller -> {"issue", "cancel", Site!Idle}]
        /\ saw' \in [Caller -> 0 .. MaxRecords] /\ flying' \in [Caller -> Nat]
    BY <1>1, EndsForgets
  <2> QED
    BY <1>1, <2>1, <2>2 DEF SiteInv, Site!SiteTypeOK
<1>6. SiteCallsKnow'
  BY <1>1, <1>3, <1>4 DEF SiteInv, SiteCallsKnow
<1>7. Site!TogetherOnly' /\ Site!LeftOpenWasLate'
  BY <1>1, <1>2, <1>3 DEF SiteInv, Site!TogetherOnly, Site!LeftOpenWasLate
<1>8. Site!OverlooksOnlyTheFlying'
  BY <1>1, <1>2, <1>3, <1>4 DEF SiteInv, Site!OverlooksOnlyTheFlying
<1> QED
  BY <1>5, <1>6, <1>7, <1>8 DEF SiteInv

\* The administrator resolves what is there, and what is on its way is late.
LEMMA AdminCommits ==
  ASSUME SiteInv, NEW c \in Caller, Site!AdminCommit(c)
  PROVE  SiteInv'
<1>1. /\ Site!Ends(c) /\ status' = "ADMIN_CANCELLED" /\ open' = 0
      /\ late' = Site!Reports /\ reported' = reported
  BY DEF Site!AdminCommit
<1>2. /\ Site!Reports \in Nat /\ Site!Reports' \in Nat /\ Site!Cardinality(Caller) \in Nat
      /\ reported \in Nat /\ MaxRecords \in Nat
      /\ \A d \in Caller : saw[d] \in Nat /\ flying[d] \in Nat
  BY ReportsAreFinite, SiteNumbers DEF SiteInv
<1>3. /\ saw'[c] = 0 /\ Site!Reports' <= Site!Reports
      /\ \A d \in Caller \ {c} :
           siteCall'[d] = siteCall[d] /\ saw'[d] = saw[d] /\ flying'[d] = flying[d]
  BY <1>1, EndsForgets
<1>4. Site!SiteTypeOK'
  <2>1. /\ siteCall' \in [Caller -> {"issue", "cancel", Site!Idle}]
        /\ saw' \in [Caller -> 0 .. MaxRecords] /\ flying' \in [Caller -> Nat]
    BY <1>1, EndsForgets
  <2> QED
    BY <1>1, <1>2, <2>1 DEF SiteInv, Site!SiteTypeOK
<1>5. SiteCallsKnow' /\ Site!TogetherOnly' /\ Site!LeftOpenWasLate'
  <2>1. SiteCallsKnow'
    BY <1>1, <1>2, <1>3 DEF SiteInv, SiteCallsKnow
  <2>2. reported + Site!Reports <= Site!Cardinality(Caller)
    BY DEF SiteInv, Site!TogetherOnly
  <2>3. reported' + Site!Reports' <= Site!Cardinality(Caller)
    BY <1>1, <1>2, <1>3, <2>2
  <2>4. open' + Site!Reports' <= late'
    <3>1. Site!Reports \in Nat /\ Site!Reports' \in Nat /\ Site!Reports' <= Site!Reports
      BY <1>2, <1>3
    <3>2. 0 + Site!Reports' <= Site!Reports
      BY <1>2, <3>1, FewerAre
    <3> QED
      BY <1>1, <3>2
  <2>5. Site!TogetherOnly'
    BY <2>3 DEF Site!TogetherOnly
  <2>6. Site!LeftOpenWasLate'
    BY <2>4 DEF Site!LeftOpenWasLate
  <2> QED
    BY <2>1, <2>5, <2>6
<1>6. Site!OverlooksOnlyTheFlying'
  BY <1>1, <1>2, <1>3 DEF SiteInv, Site!OverlooksOnlyTheFlying
<1> QED
  BY <1>4, <1>5, <1>6 DEF SiteInv

LEMMA SiteStep == SiteInv /\ [Site!Next]_(Site!vars) => SiteInv'
<1> SUFFICES ASSUME SiteInv, [Site!Next]_(Site!vars) PROVE SiteInv'
  OBVIOUS
<1>1. CASE UNCHANGED Site!vars
  <2>1. Site!SiteTypeOK' /\ Site!Reports' <= Site!Reports
    BY <1>1, ReportsShrink DEF SiteInv, Site!SiteTypeOK, Site!vars
  <2> QED
    BY <1>1, <2>1, SiteRests DEF Site!vars, SawIsKept
<1> QED
  BY <1>1, SiteMoves, SiteCallEnds, AdminReads, IssueIsRead, IssueIsCreated, AdminCommits
  DEF Site!Next

\* JobSite: a second issue comes only of requests in flight together, an administrator
\* who was shown one overlooks only those on their way, and a cancellation leaves open
\* only those; for any number of requests in flight.
THEOREM LostIssuesOverlap == Site!Spec => [](Site!SiteTypeOK /\ LostIssuesOverlapped)
<1>1. SiteInv => Site!SiteTypeOK /\ LostIssuesOverlapped
  BY DEF SiteInv, LostIssuesOverlapped, Site!LostIssuesOverlapped
<1> QED
  BY <1>1, SiteInit, SiteStep, PTL DEF Site!Spec

-----------------------------------------------------------------------------
(***************************************************************************)
(* HelperRecord                                                            *)
(***************************************************************************)

\* What the average of some rows can be.
Summaries == {Record!SummaryOf(rows) : rows \in [Booking -> Record!Stars]}

RateCall ==
  [stage : {"rate"}, booking : Booking, stars : Record!Stars, summary : Summaries,
   alone : BOOLEAN]

CountCall == [stage : {"count"}, counter : Counter, n : 0 .. MaxEvents, alone : BOOLEAN]

RecordShape ==
  /\ rating \in [Booking -> Record!Stars]
  /\ summary \in Summaries
  /\ trusted \in BOOLEAN
  /\ count \in [Counter -> 0 .. MaxEvents]
  /\ recorded \in [Counter -> 0 .. MaxEvents]
  /\ apart \in SUBSET Counter
  /\ recordCall \in [Caller -> RateCall \cup CountCall \cup {Record!Idle}]

\* A transaction since whose statement no other was committed has the average of the rows
\* as they will be with its own.
AloneIsRight ==
  \A c \in Caller :
    recordCall[c].stage = "rate" /\ recordCall[c].alone
      => recordCall[c].summary = Record!Aggregate(recordCall[c].booking, recordCall[c].stars)

\* What was read of a counter is not more than the events, and still right if no event was
\* recorded since and none has been lost.
ReadsAreBounded ==
  \A c \in Caller :
    recordCall[c].stage = "count"
      => /\ recordCall[c].n <= recorded[recordCall[c].counter]
         /\ recordCall[c].alone /\ recordCall[c].counter \in apart
              => recordCall[c].n = recorded[recordCall[c].counter]

RecordInv ==
  RecordShape /\ AloneIsRight /\ ReadsAreBounded /\ RatingHeals /\ CountsAreBounded

\* A nonempty set of subsets of a finite set has one that contains no other.
LEMMA SmallestSubset ==
  ASSUME NEW S, IsFiniteSet(S), NEW B \in SUBSET (SUBSET S), B # {}
  PROVE  \E T \in B : \A U \in B : U \subseteq T => U = T
<1>1. B \subseteq FiniteSubsetsOf(S)
  BY FS_FiniteSubsetsOfFinite
<1>2. PICK T \in B : \A U \in B : ~(<<U, T>> \in StrictSubsetOrdering(S))
  BY <1>1, FS_StrictSubsetOrderingWellFounded, WFMin
<1>3. ASSUME NEW U \in B, U \subseteq T, U # T PROVE FALSE
  <2>1. <<U, T>> \in (SUBSET S) \X (SUBSET S)
    BY <1>3
  <2>2. <<U, T>> \in StrictSubsetOrdering(S)
    BY <1>3, <2>1 DEF StrictSubsetOrdering
  <2> QED
    BY <1>2, <2>2
<1> QED
  BY <1>2, <1>3

Chosen(s) == CHOOSE x \in s : TRUE
Others(s) == s \ {Chosen(s)}

\* g sums f over the subsets of T, from the sum of one element less.
SumsOver(f, T, g) == g = [s \in SUBSET T |-> IF s = {} THEN 0 ELSE f[Chosen(s)] + g[Others(s)]]

LEMMA OthersAreFewer ==
  ASSUME NEW s, s # {}
  PROVE  Chosen(s) \in s /\ Others(s) \subseteq s /\ Others(s) # s
  BY DEF Chosen, Others

\* A set has one sum, whichever the larger set it is a subset of.
LEMMA SumsAgree ==
  ASSUME NEW S, IsFiniteSet(S), NEW f, NEW A \in SUBSET S, NEW B \in SUBSET S, NEW g, NEW h,
         SumsOver(f, A, g), SumsOver(f, B, h), NEW s, s \subseteq A, s \subseteq B
  PROVE  g[s] = h[s]
<1> DEFINE Apart == {t \in SUBSET S : t \subseteq A /\ t \subseteq B /\ g[t] # h[t]}
<1>1. SUFFICES ASSUME Apart # {} PROVE FALSE
  OBVIOUS
<1>2. PICK t \in Apart : \A u \in Apart : u \subseteq t => u = t
  <2>1. Apart \in SUBSET (SUBSET S)
    OBVIOUS
  <2> HIDE DEF Apart
  <2> QED
    BY <1>1, <2>1, SmallestSubset
<1>3. /\ g[t] = IF t = {} THEN 0 ELSE f[Chosen(t)] + g[Others(t)]
      /\ h[t] = IF t = {} THEN 0 ELSE f[Chosen(t)] + h[Others(t)]
  BY DEF SumsOver
<1>4. t # {}
  BY <1>3
<1>5. Others(t) \subseteq t /\ Others(t) # t
  BY <1>4, OthersAreFewer
<1>6. g[Others(t)] = h[Others(t)]
  BY <1>2, <1>5
<1> QED
  BY <1>3, <1>6

\* So the recursion defines a function.
LEMMA SumsExist ==
  ASSUME NEW S, IsFiniteSet(S), NEW f
  PROVE  \E g : SumsOver(f, S, g)
<1> DEFINE Without == {T \in SUBSET S : ~\E g : SumsOver(f, T, g)}
<1>1. SUFFICES ASSUME Without # {} PROVE FALSE
  OBVIOUS
<1>2. PICK T \in Without : \A U \in Without : U \subseteq T => U = T
  <2>1. Without \in SUBSET (SUBSET S)
    OBVIOUS
  <2> HIDE DEF Without
  <2> QED
    BY <1>1, <2>1, SmallestSubset
<1> DEFINE G(U) == CHOOSE g : SumsOver(f, U, g)
           g == [s \in SUBSET T |-> IF s = {} THEN 0
                                    ELSE f[Chosen(s)] + G(Others(s))[Others(s)]]
<1>3. \A U \in SUBSET T : U # T => SumsOver(f, U, G(U))
  BY <1>2
<1>4. ASSUME NEW s \in SUBSET T, s # {} PROVE g[Others(s)] = G(Others(s))[Others(s)]
  <2> DEFINE V == Others(s)
  <2>1. V \in SUBSET T /\ V # T /\ V \in SUBSET S
    BY <1>4, OthersAreFewer
  <2>2. SumsOver(f, V, G(V))
    BY <1>3, <2>1
  <2>3. G(V)[V] = IF V = {} THEN 0 ELSE f[Chosen(V)] + G(V)[Others(V)]
    <3> HIDE DEF G, V
    <3> QED
      BY <2>2 DEF SumsOver
  <2>4. g[V] = IF V = {} THEN 0 ELSE f[Chosen(V)] + G(Others(V))[Others(V)]
    BY <2>1
  <2>5. ASSUME V # {} PROVE G(V)[Others(V)] = G(Others(V))[Others(V)]
    <3>1. Others(V) \subseteq V /\ Others(V) # V
      BY <2>5, OthersAreFewer
    <3>2. Others(V) \in SUBSET T /\ Others(V) # T /\ Others(V) \in SUBSET S
      BY <2>1, <3>1
    <3>3. SumsOver(f, Others(V), G(Others(V)))
      BY <1>3, <3>2
    <3> HIDE DEF G, V
    <3> QED
      BY <2>1, <2>2, <3>1, <3>2, <3>3, SumsAgree
  <2> QED
    BY <2>3, <2>4, <2>5
<1>5. \A s \in SUBSET T : g[s] = IF s = {} THEN 0 ELSE f[Chosen(s)] + G(Others(s))[Others(s)]
  OBVIOUS
<1>6. DOMAIN g = SUBSET T /\ g = [s \in SUBSET T |-> g[s]]
  OBVIOUS
<1> HIDE DEF g, G
<1>7. \A s \in SUBSET T : g[s] = IF s = {} THEN 0 ELSE f[Chosen(s)] + g[Others(s)]
  BY <1>4, <1>5
<1>8. SumsOver(f, T, g)
  BY <1>6, <1>7 DEF SumsOver
<1> QED
  BY <1>2, <1>8

\* The sum of natural numbers is one.
LEMMA SumsAreNatural ==
  ASSUME NEW S, IsFiniteSet(S), NEW f, \A x \in S : f[x] \in Nat, NEW g, SumsOver(f, S, g)
  PROVE  g[S] \in Nat
<1> DEFINE Bad == {T \in SUBSET S : g[T] \notin Nat}
<1>1. SUFFICES ASSUME Bad # {} PROVE FALSE
  OBVIOUS
<1>2. PICK T \in Bad : \A U \in Bad : U \subseteq T => U = T
  <2>1. Bad \in SUBSET (SUBSET S)
    OBVIOUS
  <2> HIDE DEF Bad
  <2> QED
    BY <1>1, <2>1, SmallestSubset
<1>3. g[T] = IF T = {} THEN 0 ELSE f[Chosen(T)] + g[Others(T)]
  BY DEF SumsOver
<1>4. T # {}
  BY <1>3
<1>5. Chosen(T) \in S /\ Others(T) \in SUBSET S /\ Others(T) \subseteq T /\ Others(T) # T
  BY <1>4, OthersAreFewer
<1>6. g[Others(T)] \in Nat /\ f[Chosen(T)] \in Nat
  BY <1>2, <1>5
<1> QED
  BY <1>3, <1>4, <1>6

LEMMA RecordCardinality ==
  \A S : Record!Cardinality(S) = Cardinality(S) /\ (Record!IsFiniteSet(S) <=> IsFiniteSet(S))
  BY DEF Record!Cardinality, Cardinality, Record!IsFiniteSet, IsFiniteSet

\* The sum and the number of some rows are natural numbers.
LEMMA SummariesAreSummaries == Summaries \subseteq Record!Summary
<1> SUFFICES ASSUME NEW rows \in [Booking -> Record!Stars]
             PROVE  Record!SummaryOf(rows) \in Record!Summary
  BY DEF Summaries
<1>1. IsFiniteSet(Booking)
  BY RecordHolds, RecordCardinality DEF Record!RecordAssumption
<1>2. DOMAIN rows = Booking /\ \A b \in Booking : rows[b] \in Nat
  BY RecordHolds DEF Record!RecordAssumption, Record!Stars
<1>3. Record!SumFunction(rows) \in Nat
  <2> DEFINE g == CHOOSE g : SumsOver(rows, Booking, g)
  <2>1. Record!SumFunction(rows) = g[Booking]
    BY <1>2 DEF Record!SumFunction, Record!SumFunctionOnSet, Record!FoldFunctionOnSet,
         Record!MapThenFoldSet, SumsOver, Chosen, Others
  <2>2. SumsOver(rows, Booking, g)
    BY <1>1, SumsExist
  <2> HIDE DEF g
  <2> QED
    BY <1>1, <1>2, <2>1, <2>2, SumsAreNatural
<1>4. Record!Cardinality({b \in Booking : rows[b] # 0}) \in Nat
  <2> DEFINE rated == {b \in Booking : rows[b] # 0}
  <2>1. rated \subseteq Booking
    OBVIOUS
  <2> HIDE DEF rated
  <2>2. Cardinality(rated) \in Nat
    BY <1>1, <2>1, FS_Subset, FS_CardinalityType
  <2> QED
    BY <2>2, RecordCardinality DEF rated
<1> QED
  BY <1>3, <1>4 DEF Record!SummaryOf, Record!Summary

LEMMA RecordNumbers == {MaxStars, MaxEvents} \subseteq Nat
  BY RecordHolds DEF Record!RecordAssumption

\* There is no rating, and no event.
LEMMA RecordInit == Record!Init => RecordInv
<1> SUFFICES ASSUME Record!Init PROVE RecordInv
  OBVIOUS
<1>1. rating \in [Booking -> Record!Stars]
  BY RecordNumbers DEF Record!Init, Record!Stars
<1>2. summary \in Summaries /\ summary = Record!SummaryOf(rating)
  BY <1>1 DEF Record!Init, Summaries
<1>3. RecordShape
  BY <1>1, <1>2, RecordNumbers DEF Record!Init, RecordShape
<1>4. \A c \in Caller : recordCall[c].stage = "idle"
  BY DEF Record!Init, Record!Idle
<1>5. CountsAreBounded
  BY RecordNumbers DEF Record!Init, CountsAreBounded, Record!CountsAreBounded
<1> QED
  BY <1>2, <1>3, <1>4, <1>5
  DEF RecordInv, AloneIsRight, ReadsAreBounded, RatingHeals, Record!RatingHeals

\* A call that dies, and one that begins rightly, keeps the invariant.
LEMMA RecordBegins ==
  ASSUME RecordInv, NEW c \in Caller, NEW k \in RateCall \cup CountCall \cup {Record!Idle},
         recordCall' = [recordCall EXCEPT ![c] = k],
         UNCHANGED <<rating, summary, trusted, count, recorded, apart>>,
         k.stage = "rate" => k.summary = Record!Aggregate(k.booking, k.stars),
         k.stage = "count" => k.n = count[k.counter]
  PROVE  RecordInv'
<1>1. RecordShape'
  BY DEF RecordInv, RecordShape
<1>2. recordCall'[c] = k /\ \A d \in Caller \ {c} : recordCall'[d] = recordCall[d]
  BY DEF RecordInv, RecordShape
<1>3. \A b, n : Record!Aggregate(b, n)' = Record!Aggregate(b, n)
  BY DEF Record!Aggregate, Record!SummaryOf
<1>4. AloneIsRight'
  BY <1>2, <1>3 DEF RecordInv, AloneIsRight
<1>5. k.stage = "count" => k.counter \in Counter
  BY DEF RateCall, CountCall, Record!Idle
<1>6. ReadsAreBounded'
  BY <1>2, <1>5 DEF RecordInv, ReadsAreBounded, CountsAreBounded, Record!CountsAreBounded
<1>7. RatingHeals' /\ CountsAreBounded'
  BY DEF RecordInv, RatingHeals, Record!RatingHeals, Record!SummaryOf, CountsAreBounded,
         Record!CountsAreBounded
<1> QED
  BY <1>1, <1>4, <1>6, <1>7 DEF RecordInv

\* A rating's statements see the rows as they are, and its own.
LEMMA RateIsWritten ==
  ASSUME RecordInv, NEW c \in Caller, NEW b \in Booking, NEW n \in Record!Stars,
         Record!RateWrite(c, b, n)
  PROVE  RecordInv'
<1> DEFINE k == [stage |-> "rate", booking |-> b, stars |-> n,
                 summary |-> Record!Aggregate(b, n), alone |-> TRUE]
<1>1. [rating EXCEPT ![b] = n] \in [Booking -> Record!Stars]
  BY DEF RecordInv, RecordShape
<1>2. Record!Aggregate(b, n) \in Summaries
  BY <1>1 DEF Record!Aggregate, Summaries
<1>3. k \in RateCall
  BY <1>2 DEF RateCall
<1>4. recordCall' = [recordCall EXCEPT ![c] = k]
      /\ UNCHANGED <<rating, summary, trusted, count, recorded, apart>>
  BY DEF Record!RateWrite, Record!ratingVars, Record!countVars
<1>5. k.stage = "rate" /\ k.summary = Record!Aggregate(k.booking, k.stars)
  OBVIOUS
<1> HIDE DEF k
<1> QED
  BY <1>3, <1>4, <1>5, RecordBegins

\* The commit makes the rows what an undisturbed transaction has aggregated; all others
\* are disturbed.
LEMMA RateIsCommitted ==
  ASSUME RecordInv, NEW c \in Caller, Record!RateCommit(c)
  PROVE  RecordInv'
<1>1. recordCall[c] \in RateCall
  BY DEF Record!RateCommit, Record!Rates, RecordInv, RecordShape, CountCall, Record!Idle
<1>2. \A d \in Caller :
        \/ recordCall'[d] = Record!Idle
        \/ recordCall'[d] = recordCall[d] /\ recordCall[d].stage # "rate"
        \/ recordCall'[d] \in RateCall /\ recordCall'[d].alone = FALSE
  <2> TAKE d \in Caller
  <2>1. CASE d = c
    BY <2>1 DEF Record!RateCommit
  <2>2. CASE d # c /\ recordCall[d].stage # "rate"
    BY <2>2 DEF Record!RateCommit, Record!Rates
  <2>3. CASE d # c /\ recordCall[d].stage = "rate"
    <3>1. recordCall[d] \in RateCall
      BY <2>3 DEF RecordInv, RecordShape, CountCall, Record!Idle
    <3>2. recordCall'[d] = [recordCall[d] EXCEPT !.alone = FALSE]
      BY <2>3 DEF Record!RateCommit, Record!Rates
    <3> QED
      BY <3>1, <3>2 DEF RateCall
  <2> QED
    BY <2>1, <2>2, <2>3
<1>3. \A k \in RateCall : k.stage = "rate"
  BY DEF RateCall
<1>4. recordCall' \in [Caller -> RateCall \cup CountCall \cup {Record!Idle}]
  <2>1. \A d \in Caller : recordCall'[d] \in RateCall \cup CountCall \cup {Record!Idle}
    BY <1>2, <1>3 DEF RecordInv, RecordShape
  <2> QED
    BY <2>1 DEF Record!RateCommit
<1>5. rating' \in [Booking -> Record!Stars] /\ summary' \in Summaries /\ trusted' \in BOOLEAN
  BY <1>1 DEF Record!RateCommit, RecordInv, RecordShape, RateCall
<1>6. RecordShape'
  BY <1>4, <1>5 DEF Record!RateCommit, Record!countVars, RecordInv, RecordShape
<1>7. AloneIsRight'
  BY <1>2 DEF AloneIsRight, Record!Idle
<1>8. ReadsAreBounded'
  <2>1. recorded' = recorded /\ apart' = apart
    BY DEF Record!RateCommit, Record!countVars
  <2>2. \A d \in Caller : recordCall'[d].stage = "count" => recordCall'[d] = recordCall[d]
    BY <1>2, <1>3 DEF Record!Idle
  <2> QED
    BY <2>1, <2>2 DEF RecordInv, ReadsAreBounded
<1>9. RatingHeals'
  BY DEF Record!RateCommit, Record!Rates, RecordInv, AloneIsRight, Record!Aggregate,
         RatingHeals, Record!RatingHeals, Record!SummaryOf
<1>10. CountsAreBounded'
  BY DEF Record!RateCommit, Record!countVars, RecordInv, CountsAreBounded,
         Record!CountsAreBounded
<1> QED
  BY <1>6, <1>7, <1>8, <1>9, <1>10 DEF RecordInv

\* An event reads the counter.
LEMMA CountIsRead ==
  ASSUME RecordInv, NEW c \in Caller, NEW k \in Counter, Record!CountRead(c, k)
  PROVE  RecordInv'
<1> DEFINE new == [stage |-> "count", counter |-> k, n |-> count[k], alone |-> TRUE]
<1>1. new \in CountCall
  BY DEF CountCall, RecordInv, RecordShape
<1>2. recordCall' = [recordCall EXCEPT ![c] = new]
      /\ UNCHANGED <<rating, summary, trusted, count, recorded, apart>>
  BY DEF Record!CountRead, Record!ratingVars, Record!countVars
<1>3. new.stage = "count" /\ new.n = count[new.counter]
  OBVIOUS
<1> HIDE DEF new
<1> QED
  BY <1>1, <1>2, <1>3, RecordBegins

\* And sets it to one more than it read: exact, if undisturbed and nothing was lost before.
LEMMA CountIsWritten ==
  ASSUME RecordInv, NEW c \in Caller, NEW k \in Counter, Record!CountWrite(c, k)
  PROVE  RecordInv'
<1>1. recordCall[c] \in CountCall /\ recordCall[c].counter = k
  BY DEF Record!CountWrite, Record!Counts, RecordInv, RecordShape, RateCall, Record!Idle
<1>2. \A d \in Caller :
        \/ recordCall'[d] = Record!Idle
        \/ recordCall'[d] = recordCall[d]
           /\ (recordCall[d].stage = "count" => recordCall[d].counter # k)
        \/ /\ {recordCall[d], recordCall'[d]} \subseteq CountCall
           /\ recordCall'[d].alone = FALSE
           /\ recordCall'[d].n = recordCall[d].n
           /\ recordCall[d].counter = k /\ recordCall'[d].counter = k
  <2> TAKE d \in Caller
  <2>1. CASE d = c
    BY <2>1 DEF Record!CountWrite
  <2>2. CASE d # c /\ ~Record!Counts(d, k)
    BY <2>2 DEF Record!CountWrite, Record!Counts
  <2>3. CASE d # c /\ Record!Counts(d, k)
    <3>1. recordCall[d] \in CountCall /\ recordCall[d].counter = k
      BY <2>3 DEF Record!Counts, RecordInv, RecordShape, RateCall, Record!Idle
    <3>2. recordCall'[d] = [recordCall[d] EXCEPT !.alone = FALSE]
      BY <2>3 DEF Record!CountWrite
    <3> QED
      BY <3>1, <3>2 DEF CountCall
  <2> QED
    BY <2>1, <2>2, <2>3
<1>3. \A e \in CountCall : e.stage = "count"
  BY DEF CountCall
<1>4. recordCall' \in [Caller -> RateCall \cup CountCall \cup {Record!Idle}]
  <2>1. \A d \in Caller : recordCall'[d] \in RateCall \cup CountCall \cup {Record!Idle}
    BY <1>2, <1>3 DEF RecordInv, RecordShape
  <2> QED
    BY <2>1 DEF Record!CountWrite
<1>5. /\ MaxEvents \in Nat
      /\ recordCall[c].n \in Nat /\ recordCall[c].n <= recorded[k]
      /\ recordCall[c].alone /\ k \in apart => recordCall[c].n = recorded[k]
      /\ recorded[k] \in Nat /\ recorded[k] < MaxEvents
  BY <1>1, RecordNumbers
  DEF Record!CountWrite, RecordInv, RecordShape, CountCall, ReadsAreBounded
<1>6. /\ count' = [count EXCEPT ![k] = recordCall[c].n + 1]
      /\ recorded' = [recorded EXCEPT ![k] = recorded[k] + 1]
      /\ apart' = IF recordCall[c].alone THEN apart ELSE apart \ {k}
      /\ UNCHANGED <<rating, summary, trusted>>
  BY DEF Record!CountWrite, Record!NextCount, Record!ratingVars
<1>7. recordCall[c].n + 1 \in 0 .. MaxEvents /\ recorded[k] + 1 \in 0 .. MaxEvents
  BY <1>5
<1>8. RecordShape'
  BY <1>4, <1>6, <1>7 DEF RecordInv, RecordShape
<1>9. AloneIsRight'
  <2> SUFFICES ASSUME NEW d \in Caller, recordCall'[d].stage = "rate"
               PROVE  recordCall'[d] = recordCall[d]
    BY <1>6 DEF RecordInv, AloneIsRight, Record!Aggregate, Record!SummaryOf
  <2> QED
    BY <1>2, <1>3 DEF Record!Idle
<1>10. ReadsAreBounded'
  <2> SUFFICES ASSUME NEW d \in Caller, recordCall'[d].stage = "count"
               PROVE  /\ recordCall'[d].n <= recorded'[recordCall'[d].counter]
                      /\ recordCall'[d].alone /\ recordCall'[d].counter \in apart'
                           => recordCall'[d].n = recorded'[recordCall'[d].counter]
    BY DEF ReadsAreBounded
  <2>1. recordCall'[d] \in CountCall
    BY <1>4 DEF RateCall, Record!Idle
  <2>2. CASE recordCall'[d] = recordCall[d]
             /\ (recordCall[d].stage = "count" => recordCall[d].counter # k)
    <3>1. recorded'[recordCall[d].counter] = recorded[recordCall[d].counter]
          /\ apart' \subseteq apart
      BY <1>6, <2>1, <2>2 DEF CountCall, RecordInv, RecordShape
    <3> QED
      BY <2>2, <3>1 DEF RecordInv, ReadsAreBounded
  <2>3. CASE /\ {recordCall[d], recordCall'[d]} \subseteq CountCall
             /\ recordCall'[d].alone = FALSE
             /\ recordCall'[d].n = recordCall[d].n
             /\ recordCall[d].counter = k /\ recordCall'[d].counter = k
    <3>1. recordCall[d].n \in Nat /\ recordCall[d].n <= recorded[k]
      BY <2>3 DEF CountCall, RecordInv, ReadsAreBounded
    <3>2. recorded'[k] = recorded[k] + 1
      BY <1>6 DEF RecordInv, RecordShape
    <3> QED
      BY <1>5, <2>3, <3>1, <3>2
  <2>4. recordCall'[d] # Record!Idle
    BY DEF Record!Idle
  <2> QED
    BY <1>2, <2>2, <2>3, <2>4
<1>11. CountsAreBounded'
  BY <1>5, <1>6, RecordNumbers
  DEF RecordInv, RecordShape, CountsAreBounded, Record!CountsAreBounded
<1>12. RatingHeals'
  BY <1>6 DEF RecordInv, RatingHeals, Record!RatingHeals, Record!SummaryOf
<1> QED
  BY <1>8, <1>9, <1>10, <1>11, <1>12 DEF RecordInv

LEMMA RecordDies ==
  ASSUME RecordInv, NEW c \in Caller, Record!CallDies(c)
  PROVE  RecordInv'
<1>1. Record!Idle.stage = "idle"
  BY DEF Record!Idle
<1> QED
  BY <1>1, RecordBegins DEF Record!CallDies, Record!ratingVars, Record!countVars

LEMMA RecordStep == RecordInv /\ [Record!Next]_(Record!vars) => RecordInv'
<1> SUFFICES ASSUME RecordInv, [Record!Next]_(Record!vars) PROVE RecordInv'
  OBVIOUS
<1>1. CASE Record!NextRatings
  <2>1. 0 \in Record!Stars
    BY RecordNumbers DEF Record!Stars
  <2> QED
    BY <1>1, <2>1, RateIsWritten, RateIsCommitted, RecordDies
    DEF Record!NextRatings, Record!CreateRating, Record!UpdateRating, Record!DeleteRating
<1>2. CASE Record!NextCounts
  BY <1>2, CountIsRead, CountIsWritten, RecordDies
  DEF Record!NextCounts, Record!RecordIgnore, Record!RecordNoShow, Record!RecordPenalty,
      Record!Record
<1>3. CASE UNCHANGED Record!vars
  BY <1>3
  DEF Record!vars, Record!ratingVars, Record!countVars, RecordInv, RecordShape,
      AloneIsRight, ReadsAreBounded, RatingHeals, Record!RatingHeals, CountsAreBounded,
      Record!CountsAreBounded, Record!Aggregate, Record!SummaryOf
<1> QED
  BY <1>1, <1>2, <1>3 DEF Record!Next

\* HelperRecord: the rows and the calls in flight keep their types, and a rating that no
\* other overtook leaves the average right, whatever was lost before, with any number of
\* customers rating at once.
THEOREM RatingIsHealed == Record!Spec => [](Record!RecordTypeOK /\ RatingHeals)
<1>1. RecordInv => Record!RecordTypeOK /\ RatingHeals
  <2> SUFFICES ASSUME RecordInv PROVE Record!RecordTypeOK
    BY DEF RecordInv
  <2>1. RateCall \cup CountCall \subseteq Record!Call
    BY SummariesAreSummaries, RecordNumbers DEF RateCall, CountCall, Record!Call
  <2> QED
    BY <2>1, SummariesAreSummaries DEF RecordInv, RecordShape, Record!RecordTypeOK
<1> QED
  BY <1>1, RecordInit, RecordStep, PTL DEF Record!Spec

\* HelperRecord: no counter exceeds its events or forgets them all, and it is exact where
\* none overlapped, with any number of sweeps and requests at once.
THEOREM CountsStayBounded == Record!Spec => []CountsAreBounded
<1>1. RecordInv => CountsAreBounded
  BY DEF RecordInv
<1> QED
  BY <1>1, RecordInit, RecordStep, PTL DEF Record!Spec

-----------------------------------------------------------------------------
(***************************************************************************)
(* ServiceList                                                             *)
(***************************************************************************)

ListSave ==
  [stage : {"deleting", "deleted"}, kind : {"profile", "services"}, list : SUBSET Service,
   rows : SUBSET Service, undisturbed : BOOLEAN]

\* A save that is not overtaken has found all the rows there are.
RowsAreFound ==
  \A c \in Caller : List!Saves(c) /\ listCall[c].undisturbed => offered \subseteq listCall[c].rows

\* Profiles are saved one at a time.
OneProfile ==
  \A c, d \in Caller :
    List!Saves(c) /\ List!Saves(d) /\ listCall[c].kind = "profile" /\ listCall[d].kind = "profile"
      => c = d

ListInv == List!ServiceTypeOK /\ ServicesHeal /\ RowsAreFound /\ OneProfile

\* What saves is a save.
LEMMA SavesAreTyped ==
  ASSUME List!ServiceTypeOK, NEW c \in Caller
  PROVE  /\ List!Saves(c) <=> listCall[c] \in ListSave
         /\ listCall[c] \in List!Call \cup {List!Idle}
         /\ listCall[c].stage \in {"create", "delete"} => listCall[c].service \in Service
  BY DEF List!ServiceTypeOK, List!Saves, List!Call, List!Idle, ListSave

LEMMA ListInit == List!Init => ListInv
  BY DEF List!Init, List!Idle, ListInv, List!ServiceTypeOK, ServicesHeal, List!ServicesHeal,
         RowsAreFound, OneProfile, List!Saves

\* A call that is new, or goes on, or dies, leaves the rows alone.
LEMMA ListCall ==
  ASSUME ListInv, NEW c \in Caller, NEW k \in List!Call \cup {List!Idle},
         listCall' = [listCall EXCEPT ![c] = k],
         UNCHANGED <<exists, offered, last, undisturbed>>,
         k.stage \in {"deleting", "deleted"} =>
           /\ k.undisturbed => offered \subseteq k.rows
           /\ k.kind = "profile" =>
                \A d \in Caller \ {c} : List!Saves(d) => listCall[d].kind # "profile"
  PROVE  ListInv'
<1>1. List!ServiceTypeOK'
  BY DEF ListInv, List!ServiceTypeOK
<1>2. listCall'[c] = k /\ \A d \in Caller \ {c} : listCall'[d] = listCall[d]
  BY DEF ListInv, List!ServiceTypeOK
<1>3. RowsAreFound'
  BY <1>2 DEF ListInv, RowsAreFound, List!Saves
<1>4. OneProfile'
  BY <1>2 DEF ListInv, OneProfile, List!Saves
<1> QED
  BY <1>1, <1>3, <1>4 DEF ListInv, ServicesHeal, List!ServicesHeal

LEMMA SaveBegins ==
  ASSUME ListInv, NEW c \in Caller, NEW list \in SUBSET Service,
         List!SubmitProfile(c, list) \/ List!UpdateServices(c, list)
  PROVE  ListInv'
<1>1. ASSUME NEW kind \in {"profile", "services"}, List!BeginSave(c, kind, list),
             kind = "profile" => List!UserRowFree
      PROVE  ListInv'
  <2> DEFINE k == [stage |-> "deleting", kind |-> kind, list |-> list, rows |-> offered,
                   undisturbed |-> TRUE]
  <2>1. k \in List!Call
    BY DEF List!Call, ListInv, List!ServiceTypeOK
  <2>2. k.rows = offered /\ k.kind = kind
    OBVIOUS
  <2>3. listCall' = [listCall EXCEPT ![c] = k]
        /\ UNCHANGED <<exists, offered, last, undisturbed>>
    BY <1>1 DEF List!BeginSave, List!Begin, List!rowVars
  <2> HIDE DEF k
  <2> QED
    BY <1>1, <2>1, <2>2, <2>3, ListCall DEF List!UserRowFree
<1> QED
  BY <1>1 DEF List!SubmitProfile, List!UpdateServices

LEMMA RowsAreDeleted ==
  ASSUME ListInv, NEW c \in Caller, List!DeleteRows(c)
  PROVE  ListInv'
<1> DEFINE k == [listCall[c] EXCEPT !.stage = "deleted"]
<1>1. listCall[c] \in ListSave /\ List!Saves(c)
  BY SavesAreTyped DEF ListInv, List!DeleteRows, List!Saves
<1>2. /\ k \in ListSave /\ k.undisturbed = listCall[c].undisturbed
      /\ k.rows = listCall[c].rows /\ k.kind = listCall[c].kind
  BY <1>1 DEF ListSave
<1>3. k \in List!Call
  BY <1>2 DEF ListSave, List!Call
<1>4. listCall' = [listCall EXCEPT ![c] = k]
      /\ UNCHANGED <<exists, offered, last, undisturbed>>
  BY DEF List!DeleteRows, List!rowVars
<1> HIDE DEF k
<1>5. k.undisturbed => offered \subseteq k.rows
  BY <1>1, <1>2 DEF ListInv, RowsAreFound
<1>6. k.kind = "profile" =>
        \A d \in Caller \ {c} : List!Saves(d) => listCall[d].kind # "profile"
  BY <1>1, <1>2 DEF ListInv, OneProfile
<1> QED
  BY <1>3, <1>4, <1>5, <1>6, ListCall

\* A step that changes rows keeps the invariant if the list last saved stays among them,
\* and every save still in flight sees what it has lost.
LEMMA ListChanges ==
  ASSUME ListInv, List!ServiceTypeOK', ServicesHeal',
         \A d \in Caller : List!Saves(d)' =>
           /\ List!Saves(d) /\ listCall'[d].kind = listCall[d].kind
           /\ listCall'[d].undisturbed => offered' \subseteq listCall'[d].rows
  PROVE  ListInv'
<1>1. RowsAreFound'
  BY DEF RowsAreFound
<1>2. OneProfile'
  BY DEF ListInv, OneProfile
<1> QED
  BY <1>1, <1>2 DEF ListInv

\* A profile that saves is not overtaken by another, so that whoever is, is disturbed, and
\* counts again what it finds.
LEMMA RowsAreInserted ==
  ASSUME ListInv, NEW c \in Caller, List!InsertRows(c)
  PROVE  ListInv'
<1> DEFINE list == listCall[c].list
           kept == offered \ listCall[c].rows
<1>1. listCall[c] \in ListSave /\ List!Saves(c)
  BY SavesAreTyped DEF ListInv, List!InsertRows, List!Saves
<1>2. /\ list \subseteq exists
      /\ offered' = kept \cup list /\ last' = list
      /\ undisturbed' = listCall[c].undisturbed /\ exists' = exists
      /\ listCall' = [d \in Caller |-> IF d = c THEN List!Idle ELSE List!Overtaken(c, d)]
  BY DEF List!InsertRows
<1>3. \A d \in Caller : List!Saves(d)' =>
        /\ d # c /\ List!Saves(d)
        /\ listCall'[d] \in ListSave
        /\ listCall'[d].kind = listCall[d].kind
        /\ listCall'[d].undisturbed = FALSE
  <2> SUFFICES ASSUME NEW d \in Caller, List!Saves(d)'
               PROVE  /\ d # c /\ List!Saves(d)
                      /\ listCall'[d] \in ListSave
                      /\ listCall'[d].kind = listCall[d].kind
                      /\ listCall'[d].undisturbed = FALSE
    OBVIOUS
  <2>1. d # c /\ List!Saves(d)
    BY <1>2 DEF List!Saves, List!Idle, List!Overtaken
  <2>2. listCall[d] \in ListSave
    BY <2>1, SavesAreTyped DEF ListInv
  <2>3. ~(listCall[c].kind = "profile" /\ listCall[d].kind = "profile")
    BY <1>1, <2>1 DEF ListInv, OneProfile
  <2>4. {listCall[c].kind, listCall[d].kind} # {"profile"}
    BY <2>3
  <2>5. listCall'[d] = [listCall[d] EXCEPT !.rows = @ \ listCall[c].rows,
                                           !.undisturbed = FALSE]
    <3>1. listCall'[d] = [listCall[d] EXCEPT
                            !.rows = @ \ listCall[c].rows,
                            !.undisturbed =
                              @ /\ {listCall[c].kind, listCall[d].kind} = {"profile"}]
      BY <1>2, <2>1 DEF List!Overtaken
    <3> QED
      BY <2>2, <2>4, <3>1 DEF ListSave
  <2> QED
    BY <2>1, <2>2, <2>5 DEF ListSave
<1>4. List!ServiceTypeOK'
  <2>1. \A d \in Caller : listCall'[d] \in List!Call \cup {List!Idle}
    <3> TAKE d \in Caller
    <3>1. CASE List!Saves(d)'
      BY <1>3, <3>1 DEF ListSave, List!Call
    <3>2. CASE ~List!Saves(d)'
      <4>1. d = c \/ listCall'[d] = listCall[d]
        <5>1. CASE List!Saves(d) /\ d # c
          <6>1. listCall[d] \in ListSave
            BY <5>1, SavesAreTyped DEF ListInv
          <6>2. listCall'[d].stage = listCall[d].stage
            BY <1>2, <5>1, <6>1 DEF List!Overtaken, ListSave
          <6> QED
            BY <3>2, <5>1, <6>2 DEF List!Saves
        <5>2. CASE ~List!Saves(d)
          BY <1>2, <5>2 DEF List!Overtaken
        <5> QED
          BY <5>1, <5>2
      <4> QED
        BY <1>2, <4>1, SavesAreTyped DEF ListInv
    <3> QED
      BY <3>1, <3>2
  <2>2. undisturbed' \in BOOLEAN
    BY <1>1, <1>2 DEF ListSave
  <2>3. listCall' \in [Caller -> List!Call \cup {List!Idle}]
    BY <1>2, <2>1
  <2> QED
    BY <1>2, <2>2, <2>3 DEF ListInv, List!ServiceTypeOK
<1>5. ServicesHeal'
  BY <1>1, <1>2 DEF ListInv, RowsAreFound, ServicesHeal, List!ServicesHeal
<1> QED
  BY <1>3, <1>4, <1>5, ListChanges

\* A service of the helper's own joins the list and the rows; saves are disturbed.
LEMMA ServiceIsLinked ==
  ASSUME ListInv, NEW c \in Caller, List!LinkService(c)
  PROVE  ListInv'
<1> DEFINE s == listCall[c].service
<1>1. /\ s \in exists /\ exists' = exists /\ undisturbed' = undisturbed
      /\ offered' = offered \cup {s} /\ last' = last \cup {s}
      /\ listCall' = [d \in Caller |->
           IF d = c THEN List!Idle
           ELSE IF List!Saves(d) THEN [listCall[d] EXCEPT !.undisturbed = FALSE]
           ELSE listCall[d]]
  BY DEF List!LinkService
<1>2. \A d \in Caller :
        \/ listCall'[d] = List!Idle
        \/ listCall'[d] = listCall[d] /\ ~List!Saves(d)
        \/ /\ List!Saves(d)
           /\ listCall'[d] \in ListSave
           /\ listCall'[d].kind = listCall[d].kind
           /\ listCall'[d].undisturbed = FALSE
  <2> TAKE d \in Caller
  <2>1. CASE d # c /\ List!Saves(d)
    <3>1. listCall[d] \in ListSave
      BY <2>1, SavesAreTyped DEF ListInv
    <3>2. listCall'[d] = [listCall[d] EXCEPT !.undisturbed = FALSE]
      BY <1>1, <2>1
    <3> QED
      BY <2>1, <3>1, <3>2 DEF ListSave
  <2>2. CASE d = c \/ ~List!Saves(d)
    BY <1>1, <2>2
  <2> QED
    BY <2>1, <2>2
<1>3. \A d \in Caller : List!Saves(d)' =>
        /\ List!Saves(d) /\ listCall'[d].kind = listCall[d].kind
        /\ listCall'[d].undisturbed = FALSE
  BY <1>2 DEF List!Saves, List!Idle
<1>4. List!ServiceTypeOK'
  <2>1. \A d \in Caller : listCall'[d] \in List!Call \cup {List!Idle}
    BY <1>2, SavesAreTyped DEF ListInv, ListSave, List!Call
  <2>2. listCall' \in [Caller -> List!Call \cup {List!Idle}]
    BY <1>1, <2>1
  <2> QED
    BY <1>1, <2>2 DEF ListInv, List!ServiceTypeOK
<1>5. ServicesHeal'
  BY <1>1 DEF ListInv, ServicesHeal, List!ServicesHeal
<1> QED
  BY <1>3, <1>4, <1>5, ListChanges

\* A service that is deleted leaves the rows, the list, and what saves have found.
LEMMA ServiceIsDeleted ==
  ASSUME ListInv, NEW c \in Caller, List!DeleteService(c)
  PROVE  ListInv'
<1> DEFINE s == listCall[c].service
<1>1. /\ exists' = exists \ {s} /\ undisturbed' = undisturbed
      /\ offered' = offered \ {s} /\ last' = last \ {s}
      /\ listCall' = [d \in Caller |->
           IF d = c THEN List!Idle
           ELSE IF List!Saves(d) THEN [listCall[d] EXCEPT !.rows = @ \ {s}]
           ELSE listCall[d]]
  BY DEF List!DeleteService
<1>2. \A d \in Caller :
        \/ listCall'[d] = List!Idle
        \/ listCall'[d] = listCall[d] /\ ~List!Saves(d)
        \/ /\ List!Saves(d)
           /\ listCall'[d] \in ListSave
           /\ listCall'[d].kind = listCall[d].kind
           /\ listCall'[d].undisturbed = listCall[d].undisturbed
           /\ listCall'[d].rows = listCall[d].rows \ {s}
  <2> TAKE d \in Caller
  <2>1. CASE d # c /\ List!Saves(d)
    <3>1. listCall[d] \in ListSave
      BY <2>1, SavesAreTyped DEF ListInv
    <3>2. listCall'[d] = [listCall[d] EXCEPT !.rows = listCall[d].rows \ {s}]
      BY <1>1, <2>1
    <3> QED
      BY <2>1, <3>1, <3>2 DEF ListSave
  <2>2. CASE d = c \/ ~List!Saves(d)
    BY <1>1, <2>2
  <2> QED
    BY <2>1, <2>2
<1>3. \A d \in Caller : List!Saves(d)' =>
        /\ List!Saves(d) /\ listCall'[d].kind = listCall[d].kind
        /\ listCall'[d].undisturbed => offered' \subseteq listCall'[d].rows
  BY <1>1, <1>2 DEF List!Saves, List!Idle, ListInv, RowsAreFound
<1>4. List!ServiceTypeOK'
  <2>1. \A d \in Caller : listCall'[d] \in List!Call \cup {List!Idle}
    BY <1>2, SavesAreTyped DEF ListInv, ListSave, List!Call
  <2>2. listCall' \in [Caller -> List!Call \cup {List!Idle}]
    BY <1>1, <2>1
  <2> QED
    BY <1>1, <2>2 DEF ListInv, List!ServiceTypeOK
<1>5. ServicesHeal'
  BY <1>1 DEF ListInv, ServicesHeal, List!ServicesHeal
<1> QED
  BY <1>3, <1>4, <1>5, ListChanges

\* The service is created first; the call links it later.
LEMMA ServiceCalls ==
  ASSUME ListInv, NEW c \in Caller, NEW s \in Service,
         List!CreateService(c, s) \/ List!DeleteServiceRead(c, s)
  PROVE  ListInv'
<1>1. CASE List!CreateService(c, s)
  <2> DEFINE k == [stage |-> "create", service |-> s]
  <2>1. k \in List!Call /\ k.stage = "create"
    BY DEF List!Call
  <2>2. listCall' = [listCall EXCEPT ![c] = k] /\ exists' = exists \cup {s}
        /\ UNCHANGED <<offered, last, undisturbed>>
    BY <1>1 DEF List!CreateService
  <2> HIDE DEF k
  <2>3. List!ServiceTypeOK' /\ ServicesHeal'
    BY <2>1, <2>2
    DEF ListInv, List!ServiceTypeOK, ServicesHeal, List!ServicesHeal
  <2>4. \A d \in Caller : List!Saves(d)' => listCall'[d] = listCall[d] /\ List!Saves(d)
    BY <2>1, <2>2 DEF ListInv, List!ServiceTypeOK, List!Saves
  <2> QED
    BY <2>2, <2>3, <2>4, ListChanges DEF ListInv, RowsAreFound
<1>2. CASE List!DeleteServiceRead(c, s)
  <2> DEFINE k == [stage |-> "delete", service |-> s]
  <2>1. k \in List!Call /\ k.stage = "delete"
    BY DEF List!Call
  <2>2. listCall' = [listCall EXCEPT ![c] = k]
        /\ UNCHANGED <<exists, offered, last, undisturbed>>
    BY <1>2 DEF List!DeleteServiceRead, List!Begin, List!rowVars
  <2> HIDE DEF k
  <2> QED
    BY <2>1, <2>2, ListCall
<1> QED
  BY <1>1, <1>2

LEMMA ListStep == ListInv /\ [List!Next]_(List!vars) => ListInv'
<1> SUFFICES ASSUME ListInv, [List!Next]_(List!vars) PROVE ListInv'
  OBVIOUS
<1>1. ASSUME NEW c \in Caller, List!CallDies(c) PROVE ListInv'
  <2>1. List!Idle.stage = "idle"
    BY DEF List!Idle
  <2> QED
    BY <1>1, <2>1, ListCall DEF List!CallDies, List!rowVars
<1>2. CASE UNCHANGED List!vars
  BY <1>2
  DEF List!vars, List!rowVars, ListInv, List!ServiceTypeOK, ServicesHeal, List!ServicesHeal,
      RowsAreFound, OneProfile, List!Saves
<1> QED
  BY <1>1, <1>2, SaveBegins, RowsAreDeleted, RowsAreInserted, ServiceIsLinked,
     ServiceIsDeleted, ServiceCalls
  DEF List!Next, List!Save

\* ServiceList: what was saved last is never missing, and a save that was not overtaken
\* leaves exactly its list, for any services and any number of requests in flight.
THEOREM ServicesAreHealed == List!Spec => [](List!ServiceTypeOK /\ ServicesHeal)
<1>1. ListInv => List!ServiceTypeOK /\ ServicesHeal
  BY DEF ListInv
<1> QED
  BY <1>1, ListInit, ListStep, PTL DEF List!Spec

-----------------------------------------------------------------------------
(***************************************************************************)
(* AddressBook                                                             *)
(***************************************************************************)

\* A request that is alone is the only one.
AloneIsAlone ==
  \A c, d \in Caller :
    bookCall[c] # Book!Idle /\ bookCall[c].alone /\ bookCall[d] # Book!Idle => c = d

\* A transaction that is alone has cleared all the marks there are.
SetterClears ==
  \A c \in Caller :
    bookCall[c] # Book!Idle /\ bookCall[c].stage = "set" /\ bookCall[c].alone
      => default \subseteq bookCall[c].seen

OneDefault == there = {} \/ \E a \in there : default = {a}

\* While requests have come one at a time there is one default, or the deletion of the
\* default is under way, and what the request has read of the rows is still so.
OrderIsKept ==
  ordered /\ (\A c \in Caller : bookCall[c] # Book!Idle => bookCall[c].alone) =>
    /\ (\A c \in Caller : bookCall[c].stage \notin {"promote", "mark"}) => OneDefault
    /\ \A c \in Caller :
         /\ bookCall[c].stage \in {"promote", "mark"} => default = {}
         /\ bookCall[c].stage = "create" /\ bookCall[c].mark => there = {}
         /\ bookCall[c].stage = "create" /\ ~bookCall[c].mark => there # {}
         /\ bookCall[c].stage = "delete" => (bookCall[c].mark <=> bookCall[c].at \in default)

\* A request names an address there has been.
AddressWasCreated ==
  \A c \in Caller : bookCall[c] # Book!Idle => bookCall[c].at \in 0 .. created

BookInv ==
  Book!AddressTypeOK /\ AddressWasCreated /\ AloneIsAlone /\ SetterClears /\ OrderIsKept

LEMMA BookNumbers ==
  /\ MaxAddresses \in Nat
  /\ Book!AddressTypeOK => created \in Nat /\ there \subseteq Book!Address
                           /\ default \subseteq Book!Address
<1>1. MaxAddresses \in Nat
  BY BookHolds DEF Book!AddressAssumption
<1> QED
  BY <1>1 DEF Book!AddressTypeOK, Book!Address

LEMMA BookInit == Book!Init => BookInv
<1> SUFFICES ASSUME Book!Init PROVE BookInv
  OBVIOUS
<1>1. Book!AddressTypeOK
  BY BookNumbers DEF Book!Init, Book!AddressTypeOK
<1>2. \A c \in Caller : bookCall[c] = Book!Idle
  BY DEF Book!Init
<1> QED
  BY <1>1, <1>2
  DEF Book!Init, BookInv, AddressWasCreated, AloneIsAlone, SetterClears, OrderIsKept, OneDefault,
      Book!Idle

\* A request begins: alone, if no other is in flight; otherwise none is.
LEMMA BookBegins ==
  ASSUME BookInv, NEW c \in Caller, NEW stage \in {"set", "create", "update", "delete"},
         NEW a \in 0 .. created, NEW seen \in SUBSET Book!Address,
         NEW mark \in BOOLEAN,
         Book!Begin(c, stage, a, seen, mark),
         stage = "set" => default \subseteq seen,
         stage = "create" => mark = (there = {}),
         stage = "delete" => mark = (a \in default)
  PROVE  BookInv'
<1> DEFINE free == Book!Busy = {}
           k == [stage |-> stage, at |-> a, seen |-> seen, mark |-> mark, alone |-> free]
<1>0. a \in Book!Address \cup {0}
  BY BookNumbers DEF BookInv, Book!AddressTypeOK, Book!Address
<1>1. k \in Book!Call /\ k # Book!Idle
  BY <1>0 DEF Book!Call, Book!Idle
<1>2. /\ bookCall[c] = Book!Idle
      /\ bookCall' = [d \in Caller |->
           IF d = c THEN k
           ELSE IF bookCall[d] = Book!Idle THEN Book!Idle
           ELSE [bookCall[d] EXCEPT !.alone = FALSE]]
      /\ UNCHANGED <<there, default, created, ordered>>
  BY DEF Book!Begin, Book!rowVars
<1>3. \A d \in Caller \ {c} :
        \/ bookCall[d] = Book!Idle /\ bookCall'[d] = Book!Idle
        \/ /\ ~free /\ bookCall[d] # Book!Idle
           /\ bookCall'[d] \in Book!Call /\ bookCall'[d].alone = FALSE
           /\ bookCall'[d].at = bookCall[d].at
  <2> TAKE d \in Caller \ {c}
  <2>1. CASE bookCall[d] = Book!Idle
    BY <1>2, <2>1
  <2>2. CASE bookCall[d] # Book!Idle
    <3>1. bookCall[d] \in Book!Call
      BY <2>2 DEF BookInv, Book!AddressTypeOK
    <3>2. bookCall'[d] = [bookCall[d] EXCEPT !.alone = FALSE]
      BY <1>2, <2>2
    <3>3. ~free
      BY <2>2 DEF Book!Busy
    <3> QED
      BY <2>2, <3>1, <3>2, <3>3 DEF Book!Call
  <2> QED
    BY <2>1, <2>2
<1>4. bookCall'[c] = k
  BY <1>2
<1>5. /\ k.stage = stage /\ k.at = a /\ k.seen = seen /\ k.mark = mark /\ k.alone = free
  OBVIOUS
<1> HIDE DEF k
<1>6. Book!AddressTypeOK'
  <2>1. bookCall' \in [Caller -> Book!Call \cup {Book!Idle}]
    BY <1>1, <1>2, <1>3, <1>4
  <2> QED
    BY <1>2, <2>1 DEF BookInv, Book!AddressTypeOK
<1>9. AddressWasCreated'
  BY <1>2, <1>3, <1>4, <1>5 DEF BookInv, AddressWasCreated
<1>7. CASE free
  <2>1. \A d \in Caller \ {c} : bookCall[d] = Book!Idle /\ bookCall'[d] = Book!Idle
    BY <1>3, <1>7
  <2>2. \A d \in Caller : bookCall[d] = Book!Idle
    BY <1>2, <2>1
  <2>3. AloneIsAlone' /\ SetterClears'
    BY <1>2, <1>4, <1>5, <2>1 DEF AloneIsAlone, SetterClears
  <2>4. ordered => OneDefault
    BY <2>2 DEF BookInv, OrderIsKept, Book!Idle
  <2>5. OneDefault' = OneDefault
    BY <1>2 DEF OneDefault
  <2>6. OrderIsKept'
    BY <1>2, <1>4, <1>5, <2>1, <2>4, <2>5 DEF OrderIsKept, Book!Idle
  <2> QED
    BY <1>6, <1>9, <2>3, <2>6 DEF BookInv
<1>8. CASE ~free
  <2>1. \A d \in Caller : bookCall'[d] # Book!Idle => ~bookCall'[d].alone
    BY <1>3, <1>4, <1>5, <1>8
  <2>2. bookCall'[c] # Book!Idle
    BY <1>1, <1>4
  <2> QED
    BY <1>6, <1>9, <2>1, <2>2 DEF BookInv, AloneIsAlone, SetterClears, OrderIsKept
<1> QED
  BY <1>7, <1>8

\* A request ends.  If it was alone, so is the order of the requests after it; if not, the
\* others are not either.
LEMMA BookEnds ==
  ASSUME BookInv, NEW c \in Caller, bookCall[c] # Book!Idle, Book!Done(c),
         created' \in 0 .. MaxAddresses, created <= created',
         there' \in SUBSET (1 .. created'), default' \in SUBSET there',
         ordered' \in BOOLEAN,
         ordered' => bookCall[c].alone /\ OneDefault'
  PROVE  BookInv'
<1>1. bookCall'[c] = Book!Idle /\ \A d \in Caller \ {c} : bookCall'[d] = bookCall[d]
  BY DEF BookInv, Book!AddressTypeOK, Book!Done
<1>2. Book!AddressTypeOK'
  BY DEF BookInv, Book!AddressTypeOK, Book!Done
<1>3. \A d \in Caller : bookCall'[d] # Book!Idle => ~bookCall'[d].alone
  BY <1>1 DEF BookInv, AloneIsAlone
<1>4. AloneIsAlone' /\ SetterClears'
  BY <1>3 DEF AloneIsAlone, SetterClears
<1>5. OrderIsKept'
  <2> SUFFICES ASSUME ordered', \A d \in Caller : bookCall'[d] # Book!Idle => bookCall'[d].alone
               PROVE  OneDefault' /\ \A d \in Caller : bookCall'[d] = Book!Idle
    BY DEF OrderIsKept, Book!Idle
  <2> QED
    BY <1>3
<1>6. AddressWasCreated'
  BY <1>1, BookNumbers DEF BookInv, AddressWasCreated, Book!AddressTypeOK
<1> QED
  BY <1>2, <1>4, <1>5, <1>6 DEF BookInv

\* The deletion of the default goes on: no address has the mark meanwhile.
LEMMA BookGoesOn ==
  ASSUME BookInv, NEW c \in Caller, bookCall[c] # Book!Idle, NEW k \in Book!Call,
         bookCall' = [bookCall EXCEPT ![c] = k],
         k.stage \in {"promote", "mark"}, k.at \in 0 .. created,
         k.alone = bookCall[c].alone,
         created' = created, ordered' = ordered,
         there' \in SUBSET there, default' \in SUBSET there', default' \subseteq default,
         ordered /\ bookCall[c].alone => default' = {}
  PROVE  BookInv'
<1>1. bookCall'[c] = k /\ \A d \in Caller \ {c} : bookCall'[d] = bookCall[d]
  BY DEF BookInv, Book!AddressTypeOK
<1>2. Book!AddressTypeOK'
  BY DEF BookInv, Book!AddressTypeOK
<1>3. k # Book!Idle
  BY DEF Book!Idle
<1>4. AloneIsAlone'
  BY <1>1 DEF BookInv, AloneIsAlone
<1>5. SetterClears'
  BY <1>1 DEF BookInv, SetterClears
<1>6. OrderIsKept'
  <2> SUFFICES ASSUME ordered', \A d \in Caller : bookCall'[d] # Book!Idle => bookCall'[d].alone
               PROVE  default' = {} /\ \A d \in Caller \ {c} : bookCall'[d] = Book!Idle
    BY <1>1 DEF OrderIsKept, Book!Idle
  <2>1. bookCall[c].alone
    BY <1>1, <1>3
  <2> QED
    BY <1>1, <2>1 DEF BookInv, AloneIsAlone
<1>7. AddressWasCreated'
  BY <1>1 DEF BookInv, AddressWasCreated
<1> QED
  BY <1>2, <1>4, <1>5, <1>6, <1>7 DEF BookInv

\* What the order gives to a request that is alone.
LEMMA AloneFinds ==
  ASSUME BookInv, NEW c \in Caller, bookCall[c] # Book!Idle, bookCall[c].alone, ordered
  PROVE  /\ bookCall[c].stage \notin {"promote", "mark"} => OneDefault
         /\ bookCall[c].stage \in {"promote", "mark"} => default = {}
         /\ bookCall[c].stage = "create" /\ bookCall[c].mark => there = {}
         /\ bookCall[c].stage = "create" /\ ~bookCall[c].mark => there # {}
         /\ bookCall[c].stage = "delete" => (bookCall[c].mark <=> bookCall[c].at \in default)
<1>1. \A d \in Caller \ {c} : bookCall[d] = Book!Idle
  BY DEF BookInv, AloneIsAlone
<1>2. \A d \in Caller : bookCall[d] # Book!Idle => bookCall[d].alone
  BY <1>1
<1> QED
  BY <1>1, <1>2 DEF BookInv, OrderIsKept, Book!Idle

LEMMA BookCallTyped ==
  ASSUME BookInv, NEW c \in Caller, bookCall[c] # Book!Idle
  PROVE  bookCall[c] \in Book!Call /\ bookCall[c].at \in 0 .. created
         /\ created \in Nat /\ MaxAddresses \in Nat /\ created <= MaxAddresses
  BY BookNumbers DEF BookInv, Book!AddressTypeOK, AddressWasCreated

LEMMA SetIsWritten ==
  ASSUME BookInv, NEW c \in Caller, Book!SetWrite(c)
  PROVE  BookInv'
<1> DEFINE a == IF bookCall[c].at = 0 THEN created + 1 ELSE bookCall[c].at
<1>1. /\ bookCall[c].stage = "set" /\ a \in Book!Address
      /\ there' = there \cup {a} /\ created' = IF bookCall[c].at = 0 THEN a ELSE created
      /\ default' = (default \ bookCall[c].seen) \cup {a}
      /\ ordered' = bookCall[c].alone /\ Book!Done(c)
  BY DEF Book!SetWrite, Book!Marked, Book!At
<1>2. bookCall[c] # Book!Idle
  BY <1>1 DEF Book!Idle
<1>3. /\ created' \in 0 .. MaxAddresses /\ created <= created' /\ a \in 1 .. created'
      /\ there' \in SUBSET (1 .. created')
  BY <1>1, <1>2, BookCallTyped DEF Book!Address, BookInv, Book!AddressTypeOK
<1>4. default' \in SUBSET there'
  BY <1>1 DEF BookInv, Book!AddressTypeOK
<1>5. bookCall[c].alone => OneDefault'
  BY <1>1, <1>2 DEF BookInv, SetterClears, OneDefault
<1>6. ordered' \in BOOLEAN
  BY <1>1, <1>2, BookCallTyped DEF Book!Call
<1> QED
  BY <1>1, <1>2, <1>3, <1>4, <1>5, <1>6, BookEnds

LEMMA CreateIsWritten ==
  ASSUME BookInv, NEW c \in Caller, Book!CreateWrite(c)
  PROVE  BookInv'
<1> DEFINE a == created + 1
<1>1. /\ bookCall[c].stage = "create" /\ a \in Book!Address
      /\ there' = there \cup {a} /\ created' = a
      /\ default' = IF bookCall[c].mark THEN default \cup {a} ELSE default
      /\ ordered' = (ordered /\ bookCall[c].alone) /\ Book!Done(c)
  BY DEF Book!CreateWrite, Book!Keeps, Book!At
<1>2. bookCall[c] # Book!Idle
  BY <1>1 DEF Book!Idle
<1>3. /\ created' \in 0 .. MaxAddresses /\ created <= created'
      /\ there' \in SUBSET (1 .. created') /\ default' \in SUBSET there'
  BY <1>1, <1>2, BookCallTyped DEF Book!Address, BookInv, Book!AddressTypeOK
<1>4. ordered /\ bookCall[c].alone => OneDefault'
  <2> SUFFICES ASSUME ordered, bookCall[c].alone PROVE OneDefault'
    OBVIOUS
  <2>1. CASE bookCall[c].mark
    BY <1>1, <1>2, <2>1, AloneFinds DEF OneDefault, BookInv, Book!AddressTypeOK
  <2>2. CASE ~bookCall[c].mark
    BY <1>1, <1>2, <2>2, AloneFinds DEF OneDefault
  <2> QED
    BY <2>1, <2>2
<1>5. ordered' \in BOOLEAN
  BY <1>1
<1>6. ordered' => bookCall[c].alone /\ OneDefault'
  BY <1>1, <1>4
<1> QED
  BY <1>1, <1>2, <1>3, <1>5, <1>6, BookEnds

LEMMA UpdateIsWritten ==
  ASSUME BookInv, NEW c \in Caller, Book!UpdateWrite(c)
  PROVE  BookInv'
<1>1. /\ bookCall[c].stage = "update"
      /\ default' = IF bookCall[c].mark THEN default ELSE default \ {bookCall[c].at}
      /\ ordered' = (ordered /\ bookCall[c].alone /\ bookCall[c].mark) /\ Book!Done(c)
      /\ there' = there /\ created' = created
  BY DEF Book!UpdateWrite, Book!At
<1>2. bookCall[c] # Book!Idle
  BY <1>1 DEF Book!Idle
<1>3. ordered' => bookCall[c].alone /\ OneDefault'
  BY <1>1, <1>2, AloneFinds DEF OneDefault
<1>4. /\ created' \in 0 .. MaxAddresses /\ created <= created'
      /\ there' \in SUBSET (1 .. created') /\ default' \in SUBSET there'
  <2>1. created \in 0 .. MaxAddresses /\ created <= created
    BY <1>2, BookCallTyped
  <2>2. there \in SUBSET (1 .. created) /\ default \in SUBSET there
    BY DEF BookInv, Book!AddressTypeOK
  <2> QED
    BY <1>1, <2>1, <2>2
<1>5. ordered' \in BOOLEAN
  BY <1>1
<1> QED
  BY <1>1, <1>2, <1>3, <1>4, <1>5, BookEnds

LEMMA RowIsDeleted ==
  ASSUME BookInv, NEW c \in Caller, Book!DeleteRow(c)
  PROVE  BookInv'
<1> DEFINE a == bookCall[c].at
<1>1. /\ bookCall[c].stage = "delete" /\ a \in there
      /\ there' = there \ {a} /\ default' = default \ {a} /\ created' = created
      /\ IF bookCall[c].mark
         THEN bookCall' = [bookCall EXCEPT ![c].stage = "promote"] /\ ordered' = ordered
         ELSE Book!Done(c) /\ ordered' = (ordered /\ bookCall[c].alone)
  BY DEF Book!DeleteRow, Book!At, Book!Keeps
<1>2. bookCall[c] # Book!Idle
  BY <1>1 DEF Book!Idle
<1>3. /\ created' \in 0 .. MaxAddresses /\ created <= created'
      /\ there' \in SUBSET (1 .. created') /\ default' \in SUBSET there'
  <2>1. created \in 0 .. MaxAddresses /\ created <= created
    BY <1>2, BookCallTyped
  <2>2. there \in SUBSET (1 .. created) /\ default \in SUBSET there
    BY DEF BookInv, Book!AddressTypeOK
  <2> QED
    BY <1>1, <2>1, <2>2
<1>4. CASE bookCall[c].mark
  <2> DEFINE k == [bookCall[c] EXCEPT !.stage = "promote"]
  <2>1. /\ k \in Book!Call /\ k.stage = "promote" /\ k.at = a
        /\ k.alone = bookCall[c].alone
    BY <1>2, BookCallTyped DEF Book!Call
  <2>2. bookCall' = [bookCall EXCEPT ![c] = k] /\ ordered' = ordered
    BY <1>1, <1>4
  <2>3. ordered /\ bookCall[c].alone => default' = {}
    BY <1>1, <1>2, <1>4, AloneFinds DEF OneDefault
  <2>4. k.at \in 0 .. created
    BY <1>2, <2>1, BookCallTyped
  <2> HIDE DEF k
  <2> QED
    BY <1>1, <1>2, <1>3, <2>1, <2>2, <2>3, <2>4, BookGoesOn
<1>5. CASE ~bookCall[c].mark
  <2>1. ordered' => bookCall[c].alone /\ OneDefault'
    BY <1>1, <1>2, <1>5, AloneFinds DEF OneDefault
  <2>2. ordered' \in BOOLEAN
    BY <1>1, <1>5
  <2> QED
    BY <1>1, <1>2, <1>3, <1>5, <2>1, <2>2, BookEnds
<1> QED
  BY <1>4, <1>5

\* The oldest of some addresses is one of them.
LEMMA OldestIsThere ==
  ASSUME Book!AddressTypeOK, there # {}
  PROVE  Book!Min(there) \in there
<1>1. there \subseteq Nat
  BY BookNumbers DEF Book!Address
<1> DEFINE less == OpToRel(<, Nat)
<1>2. \A x, y \in Nat : y < x => <<y, x>> \in less
  BY DEF OpToRel
<1>3. IsWellFoundedOn(less, Nat)
  BY NatLessThanWellFounded
<1> HIDE DEF less
<1>4. PICK x \in there : \A y \in there : ~(<<y, x>> \in less)
  BY <1>1, <1>3, WFMin
<1>5. \A y \in there : x <= y
  <2> TAKE y \in there
  <2>1. x \in Nat /\ y \in Nat /\ ~(<<y, x>> \in less)
    BY <1>1, <1>4
  <2>2. ~(y < x)
    BY <1>2, <2>1
  <2> QED
    BY <2>1, <2>2
<1> QED
  BY <1>5 DEF Book!Min

LEMMA AnotherIsPromoted ==
  ASSUME BookInv, NEW c \in Caller, Book!PromoteRead(c) \/ Book!PromoteWrite(c)
  PROVE  BookInv'
<1>1. bookCall[c].stage \in {"promote", "mark"} /\ bookCall[c] # Book!Idle
  BY DEF Book!PromoteRead, Book!PromoteWrite, Book!At, Book!Idle
<1>2. CASE Book!PromoteRead(c) /\ there = {}
  <2>1. /\ there' = {} /\ default' = default /\ created' = created
        /\ ordered' = (ordered /\ bookCall[c].alone) /\ Book!Done(c)
    BY <1>2 DEF Book!PromoteRead, Book!Keeps, Book!rowVars
  <2>2. /\ created' \in 0 .. MaxAddresses /\ created <= created'
        /\ there' \in SUBSET (1 .. created') /\ default' \in SUBSET there'
    BY <1>1, <1>2, <2>1, BookCallTyped DEF BookInv, Book!AddressTypeOK
  <2>3. ordered' \in BOOLEAN /\ (ordered' => bookCall[c].alone /\ OneDefault')
    BY <2>1 DEF OneDefault
  <2> QED
    BY <1>1, <2>1, <2>2, <2>3, BookEnds
<1>3. CASE Book!PromoteRead(c) /\ there # {}
  <2> DEFINE k == [bookCall[c] EXCEPT !.stage = "mark", !.at = Book!Min(there)]
  <2>1. Book!Min(there) \in there
    BY <1>3, OldestIsThere DEF BookInv
  <2>2. Book!Min(there) \in Book!Address /\ Book!Min(there) \in 0 .. created
    <3>1. there \subseteq 1 .. created /\ there \subseteq Book!Address
      BY BookNumbers DEF BookInv, Book!AddressTypeOK
    <3>2. Book!Min(there) \in 1 .. created /\ created \in Nat
      BY <2>1, <3>1, BookNumbers DEF BookInv
    <3> QED
      BY <2>1, <3>1, <3>2
  <2>3. /\ k \in Book!Call /\ k.stage = "mark" /\ k.at = Book!Min(there)
        /\ k.alone = bookCall[c].alone
    BY <1>1, <2>2, BookCallTyped DEF Book!Call
  <2>4. /\ bookCall' = [bookCall EXCEPT ![c] = k]
        /\ UNCHANGED <<there, default, created, ordered>>
    BY <1>3 DEF Book!PromoteRead, Book!rowVars
  <2>5. ordered /\ bookCall[c].alone => default = {}
    BY <1>1, AloneFinds
  <2>6. default \in SUBSET there
    BY DEF BookInv, Book!AddressTypeOK
  <2> HIDE DEF k
  <2> QED
    BY <1>1, <2>2, <2>3, <2>4, <2>5, <2>6, BookGoesOn
<1>4. CASE Book!PromoteWrite(c)
  <2>1. /\ bookCall[c].at \in there /\ default' = default \cup {bookCall[c].at}
        /\ ordered' = (ordered /\ bookCall[c].alone) /\ Book!Done(c)
        /\ there' = there /\ created' = created
    BY <1>4 DEF Book!PromoteWrite, Book!Keeps
  <2>2. /\ created' \in 0 .. MaxAddresses /\ created <= created'
        /\ there' \in SUBSET (1 .. created') /\ default' \in SUBSET there'
    <3>1. created \in 0 .. MaxAddresses /\ created <= created
      BY <1>1, BookCallTyped
    <3>2. there \in SUBSET (1 .. created) /\ default \in SUBSET there
      BY DEF BookInv, Book!AddressTypeOK
    <3> QED
      BY <2>1, <3>1, <3>2
  <2>3. ordered' \in BOOLEAN
    BY <2>1
  <2>4. ordered' => bookCall[c].alone /\ OneDefault'
    BY <1>1, <2>1, AloneFinds DEF OneDefault
  <2> QED
    BY <1>1, <2>1, <2>2, <2>3, <2>4, BookEnds
<1> QED
  BY <1>2, <1>3, <1>4

LEMMA BookDies ==
  ASSUME BookInv, NEW c \in Caller, Book!CallDies(c)
  PROVE  BookInv'
<1>1. /\ bookCall[c] # Book!Idle /\ Book!Done(c)
      /\ ordered' = (ordered /\ bookCall[c].alone /\ ~Book!At(c, "promote")
                     /\ ~Book!At(c, "mark"))
      /\ UNCHANGED <<there, default, created>>
  BY DEF Book!CallDies, Book!rowVars
<1>2. ordered' => bookCall[c].alone /\ OneDefault'
  BY <1>1, AloneFinds DEF OneDefault, Book!At
<1>3. /\ created' \in 0 .. MaxAddresses /\ created <= created'
      /\ there' \in SUBSET (1 .. created') /\ default' \in SUBSET there'
  BY <1>1, BookCallTyped DEF BookInv, Book!AddressTypeOK
<1>4. ordered' \in BOOLEAN
  BY <1>1
<1> QED
  BY <1>1, <1>2, <1>3, <1>4, BookEnds

LEMMA BookReads ==
  ASSUME BookInv, NEW c \in Caller, NEW a,
         \/ Book!SetRead(c, a) \/ Book!CreateRead(c)
         \/ Book!UpdateRead(c, a) \/ Book!DeleteRead(c, a)
  PROVE  BookInv'
<1>1. /\ there \in SUBSET Book!Address /\ default \subseteq there /\ 0 \in 0 .. created
      /\ \A b \in there : b \in 0 .. created
  BY BookNumbers DEF BookInv, Book!AddressTypeOK
<1>2. CASE Book!SetRead(c, a)
  BY <1>1, <1>2, BookBegins DEF Book!SetRead
<1>3. CASE Book!CreateRead(c)
  BY <1>1, <1>3, BookBegins DEF Book!CreateRead
<1>4. CASE Book!UpdateRead(c, a)
  BY <1>1, <1>4, BookBegins DEF Book!UpdateRead
<1>5. CASE Book!DeleteRead(c, a)
  <2> DEFINE mark == a \in default
  <2>1. mark \in BOOLEAN
    OBVIOUS
  <2>2. Book!Begin(c, "delete", a, {}, mark) /\ a \in 0 .. created
    BY <1>1, <1>5 DEF Book!DeleteRead
  <2>3. mark = (a \in default)
    OBVIOUS
  <2> HIDE DEF mark
  <2> QED
    BY <2>1, <2>2, <2>3, BookBegins
<1> QED
  BY <1>2, <1>3, <1>4, <1>5

LEMMA BookStep == BookInv /\ [Book!Next]_(Book!vars) => BookInv'
<1> SUFFICES ASSUME BookInv, [Book!Next]_(Book!vars) PROVE BookInv'
  OBVIOUS
<1>1. CASE UNCHANGED Book!vars
  BY <1>1
  DEF Book!vars, Book!rowVars, BookInv, Book!AddressTypeOK, AddressWasCreated, AloneIsAlone,
      SetterClears, OrderIsKept, OneDefault
<1> QED
  BY <1>1, BookReads, SetIsWritten, CreateIsWritten, UpdateIsWritten, RowIsDeleted,
     AnotherIsPromoted, BookDies
  DEF Book!Next

\* AddressBook: a default that is set alone is the only one from then on, as long as
\* requests come one at a time, whatever happened before and however many addresses.
THEOREM DefaultIsHealed == Book!Spec => [](Book!AddressTypeOK /\ DefaultHeals)
<1>1. BookInv => DefaultHeals
  <2> SUFFICES ASSUME BookInv, ordered, Book!Busy = {}, there # {}
               PROVE  Book!Cardinality(default) = 1
    BY DEF DefaultHeals, Book!DefaultHeals
  <2>1. \A c \in Caller : bookCall[c] = Book!Idle
    BY DEF Book!Busy
  <2>2. OneDefault
    BY <2>1 DEF BookInv, OrderIsKept, Book!Idle
  <2>3. PICK a \in there : default = {a}
    BY <2>2 DEF OneDefault
  <2>4. Book!Cardinality(default) = Cardinality(default)
    BY DEF Book!Cardinality, Cardinality
  <2> QED
    BY <2>3, <2>4, FS_Singleton
<1>2. BookInv => Book!AddressTypeOK
  BY DEF BookInv
<1> QED
  BY <1>1, <1>2, BookInit, BookStep, PTL DEF Book!Spec

-----------------------------------------------------------------------------
(***************************************************************************)
(* Calendar.  The arithmetic comes first: an instant whose time in India   *)
(* is the slot is the start of the booking.  The rest of SlotsKeepApart is *)
(* what HasConflict and ViolatesGap compared when a booking was made and a *)
(* request was sent, of rows that do not change any more.                  *)
(***************************************************************************)

\* A quotient is determined by its remainder.
LEMMA QuotientIsUnique ==
  ASSUME NEW d \in Nat, NEW p \in Int, NEW q \in Int, NEW m \in Int, NEW k \in Int,
         0 <= m, m < d, 0 <= k, k < d, d * p + m = d * q + k
  PROVE  p = q /\ m = k
<1>1. d * (p - q) = k - m
  OBVIOUS
<1>2. CASE p - q >= 1
  <2>1. d * (p - q) >= d
    BY <1>2
  <2> QED
    BY <1>1, <2>1
<1>3. CASE p - q <= -1
  <2>1. d * (p - q) <= -d
    BY <1>3
  <2> QED
    BY <1>1, <2>1
<1> QED
  BY <1>1, <1>2, <1>3

\* Division with remainder.
LEMMA DivMod ==
  ASSUME NEW a \in Nat, NEW d \in Nat \ {0}
  PROVE  /\ a = d * (a \div d) + (a % d)
         /\ a \div d \in Int /\ a % d \in Nat /\ a % d < d
  OBVIOUS

\* If it is slot s in India at the instant a, the slot s of the server's day of a is a.
LEMMA SlotIsInstant ==
  ASSUME Slots!CalendarAssumption, NEW a \in Nat, NEW s \in Slots!Slot,
         (a + IstOffset) % DayLength = s
  PROVE  Slots!SlotOfDay(a, s) = a
<1> DEFINE D == DayLength
           k == s - IstOffset
<1>1. /\ D \in Nat \ {0} /\ IstOffset \in Nat /\ s \in Nat
      /\ k \in Int /\ 0 <= k /\ k < D
  BY DEF Slots!CalendarAssumption, Slots!Slot
<1>2. a = D * (a \div D) + (a % D) /\ a \div D \in Int /\ a % D \in Nat /\ a % D < D
  BY <1>1, DivMod
<1>3. a + IstOffset = D * ((a + IstOffset) \div D) + s /\ (a + IstOffset) \div D \in Int
  BY <1>1, DivMod
<1>4. a % D = k
  <2>1. D * (a \div D) + (a % D) = D * ((a + IstOffset) \div D) + k
    BY <1>1, <1>2, <1>3
  <2> HIDE DEF D, k
  <2> QED
    BY <1>1, <1>2, <1>3, <2>1, QuotientIsUnique
<1> QED
  BY <1>1, <1>2, <1>4 DEF Slots!SlotOfDay

\* What was asked for is asked once, before anything is booked or sent.
AskedFirst ==
  \A r \in Request :
    /\ booking[r] # "none" => asked[r] # NoAsk
    /\ r \in sent => asked[r] # NoAsk
    /\ \A q \in before[r] : asked[q] # NoAsk

SlotsInv == Slots!CalendarTypeOK /\ AskedFirst /\ Slots!SlotsKeepApart

\* The times of a request that was created are numbers, and agree if it is in step.
LEMMA Times ==
  ASSUME Slots!CalendarAssumption, Slots!CalendarTypeOK, NEW r \in Request, asked[r] # NoAsk
  PROVE  /\ asked[r].at \in Nat /\ Slots!StartTime(r) \in Int /\ Slots!EndTime(r) \in Int
         /\ Slots!InStep(r) => /\ Slots!StartTime(r) = asked[r].at
                                /\ Slots!EndTime(r) = Slots!AskedUntil(r)
<1>1. asked[r] \in Slots!Ask
  BY DEF Slots!CalendarTypeOK
<1>2. asked[r].at \in Nat /\ asked[r].slot \in Slots!Slot /\ asked[r].hours \in Nat
  <2>1. MaxHours \in Nat /\ Instant \subseteq Nat
    BY DEF Slots!CalendarAssumption
  <2>2. asked[r].at \in Instant /\ asked[r].slot \in Slots!Slot /\ asked[r].hours \in 1 .. MaxHours
    BY <1>1 DEF Slots!Ask
  <2>3. asked[r].at \in Nat
    BY <2>1, <2>2
  <2>4. asked[r].hours \in Nat
    BY <2>1, <2>2
  <2> QED
    BY <2>2, <2>3, <2>4
<1>3. asked[r].slot \in Nat /\ DayLength \in Nat \ {0} /\ IstOffset \in Nat
  BY <1>2 DEF Slots!Slot, Slots!CalendarAssumption
<1>4. asked[r].at \div DayLength \in Int
  BY <1>2, <1>3
<1>5. Slots!StartTime(r) \in Int
  <2>1. DayLength * (asked[r].at \div DayLength) \in Int
    BY <1>3, <1>4
  <2> QED
    BY <1>2, <1>3, <2>1 DEF Slots!StartTime, Slots!SlotOfDay
<1>6. Slots!EndTime(r) \in Int
  BY <1>2, <1>5 DEF Slots!EndTime, Slots!Hour
<1>7. Slots!InStep(r) => Slots!StartTime(r) = asked[r].at
  BY <1>2, SlotIsInstant DEF Slots!InStep, Slots!StartTime
<1> QED
  BY <1>2, <1>5, <1>6, <1>7 DEF Slots!EndTime, Slots!AskedUntil

\* Nobody has asked for anything.
LEMMA SlotsInit == Slots!CalendarAssumption /\ Slots!Init => SlotsInv
  BY DEF Slots!CalendarAssumption, Slots!Init, SlotsInv, Slots!CalendarTypeOK, AskedFirst,
         Slots!SlotsKeepApart, Slots!InStep, Slots!Counted, Slots!Busy

\* A request that is created has not been sent or booked.
LEMMA CreateKeeps ==
  ASSUME Slots!CalendarAssumption, SlotsInv, NEW r \in Request, NEW ask \in Slots!Ask,
         Slots!Create(r, ask)
  PROVE  SlotsInv'
<1> USE DEF SlotsInv, Slots!Create
<1>1. Slots!CalendarTypeOK'
  BY DEF Slots!CalendarTypeOK
<1>2. AskedFirst'
  BY DEF AskedFirst, Slots!CalendarTypeOK
<1>3. \A q \in Request \ {r} :
        /\ asked'[q] = asked[q]
        /\ Slots!InStep(q)' <=> Slots!InStep(q)
        /\ Slots!StartTime(q)' = Slots!StartTime(q) /\ Slots!EndTime(q)' = Slots!EndTime(q)
  BY DEF Slots!CalendarTypeOK, Slots!InStep, Slots!StartTime, Slots!EndTime
<1>4. booking'[r] \notin Slots!Busy /\ r \notin sent' /\ \A q \in Request : r \notin before'[q]
  BY DEF AskedFirst, Slots!Busy
<1>5. Slots!InStep(r)' => Slots!StartTime(r)' = asked'[r].at
  <2>1. Slots!CalendarTypeOK' /\ asked'[r] = ask
    BY <1>1 DEF Slots!CalendarTypeOK
  <2>2. ask.at \in Nat /\ ask.slot \in Slots!Slot
    BY DEF Slots!Ask, Slots!CalendarAssumption
  <2> QED
    BY <2>1, <2>2, SlotIsInstant DEF Slots!InStep, Slots!StartTime
<1>6. Slots!SlotsKeepApart'
  BY <1>3, <1>4, <1>5 DEF Slots!SlotsKeepApart, Slots!CalendarTypeOK
<1> QED
  BY <1>1, <1>2, <1>6

\* A request that is sent leaves the gap after each booking there is.
LEMMA SendKeeps ==
  ASSUME Slots!CalendarAssumption, SlotsInv, NEW r \in Request, Slots!Send(r)
  PROVE  SlotsInv'
<1> USE DEF SlotsInv, Slots!Send
<1>1. Slots!CalendarTypeOK'
  BY DEF Slots!CalendarTypeOK
<1>2. AskedFirst'
  BY DEF AskedFirst, Slots!CalendarTypeOK, Slots!Counted, Slots!Busy
<1>3. \A q \in Request :
        /\ Slots!InStep(q)' <=> Slots!InStep(q)
        /\ Slots!StartTime(q)' = Slots!StartTime(q) /\ Slots!EndTime(q)' = Slots!EndTime(q)
  BY DEF Slots!InStep, Slots!StartTime, Slots!EndTime
<1>4. \A q \in before'[r] : q \in Request /\ booking[q] \in Slots!Counted /\ asked[q] # NoAsk
  BY DEF Slots!CalendarTypeOK, AskedFirst, Slots!Counted, Slots!Busy
<1>5. Slots!Hour * GapHours \in Nat
  BY DEF Slots!CalendarAssumption, Slots!Hour
<1>6. ASSUME Slots!InStep(r), NEW q \in before'[r]
      PROVE  Slots!StartTime(r) >= Slots!EndTime(q) + Slots!Hour * GapHours
  <2>1. asked[r].at \in Nat /\ Slots!StartTime(r) = asked[r].at /\ Slots!EndTime(q) \in Int
    BY <1>4, <1>6, Times
  <2>2. ~(asked[r].at < Slots!EndTime(q) + Slots!Hour * GapHours)
    BY <1>4, <1>6 DEF Slots!ViolatesGap
  <2> QED
    BY <1>5, <2>1, <2>2
<1>7. \A d \in Request \ {r} : before'[d] = before[d] /\ (d \in sent' <=> d \in sent)
  BY DEF Slots!CalendarTypeOK
<1>8. Slots!SlotsKeepApart'
  <2>1. ASSUME NEW d \in Request, Slots!InStep(d)
        PROVE  /\ Slots!StartTime(d)' = asked'[d].at
               /\ \A q \in Request \ {d} :
                    Slots!InStep(q) /\ booking[q] \in Slots!Busy /\ booking[d] \in Slots!Busy =>
                      \/ Slots!EndTime(q) <= Slots!StartTime(d)
                      \/ Slots!EndTime(d) <= Slots!StartTime(q)
    BY <1>3, <2>1 DEF Slots!SlotsKeepApart
  <2>2. ASSUME NEW d \in Request, Slots!InStep(d), d \in sent', NEW q \in before'[d]
        PROVE  Slots!StartTime(d) >= Slots!EndTime(q) + Slots!Hour * GapHours
    BY <1>6, <1>7, <2>2 DEF Slots!SlotsKeepApart
  <2>3. \A d \in Request : \A q \in before'[d] : q \in Request
    BY <1>1 DEF Slots!CalendarTypeOK
  <2> QED
    BY <1>3, <2>1, <2>2, <2>3 DEF Slots!SlotsKeepApart
<1> QED
  BY <1>1, <1>2, <1>8

\* A booking that is accepted is clear of those there are.
LEMMA AcceptKeeps ==
  ASSUME Slots!CalendarAssumption, SlotsInv, NEW r \in Request, Slots!Accept(r)
  PROVE  SlotsInv'
<1> USE DEF SlotsInv, Slots!Accept
<1>1. Slots!CalendarTypeOK'
  BY DEF Slots!CalendarTypeOK, Slots!Counted, Slots!Busy
<1>2. AskedFirst'
  BY DEF AskedFirst, Slots!CalendarTypeOK
<1>3. \A q \in Request :
        /\ Slots!InStep(q)' <=> Slots!InStep(q)
        /\ Slots!StartTime(q)' = Slots!StartTime(q) /\ Slots!EndTime(q)' = Slots!EndTime(q)
  BY DEF Slots!InStep, Slots!StartTime, Slots!EndTime
<1>4. \A q \in Request \ {r} : booking'[q] = booking[q]
  BY DEF Slots!CalendarTypeOK
<1>5. ASSUME Slots!InStep(r), NEW q \in Request \ {r}, booking[q] \in Slots!Busy
      PROVE  Slots!EndTime(q) <= Slots!StartTime(r) \/ Slots!EndTime(r) <= Slots!StartTime(q)
  <2>1. asked[q] # NoAsk
    BY <1>5 DEF AskedFirst, Slots!Busy
  <2>2. /\ Slots!StartTime(r) \in Int /\ Slots!StartTime(q) \in Int
        /\ Slots!EndTime(r) \in Int /\ Slots!EndTime(q) \in Int
        /\ Slots!StartTime(r) = asked[r].at /\ Slots!EndTime(r) = Slots!AskedUntil(r)
    BY <1>5, <2>1, Times
  <2>3. ~(Slots!StartTime(q) < Slots!AskedUntil(r) /\ Slots!EndTime(q) > asked[r].at)
    BY <1>5 DEF Slots!HasConflict
  <2> QED
    BY <2>2, <2>3
<1>6. Slots!SlotsKeepApart'
  <2>1. ASSUME NEW d \in Request, Slots!InStep(d), NEW q \in Request \ {d}, Slots!InStep(q),
               booking'[q] \in Slots!Busy, booking'[d] \in Slots!Busy
        PROVE  Slots!EndTime(q) <= Slots!StartTime(d) \/ Slots!EndTime(d) <= Slots!StartTime(q)
    BY <1>4, <1>5, <2>1 DEF Slots!SlotsKeepApart
  <2>2. ASSUME NEW d \in Request, Slots!InStep(d)
        PROVE  /\ Slots!StartTime(d)' = asked'[d].at
               /\ d \in sent =>
                    \A q \in before[d] :
                      Slots!StartTime(d) >= Slots!EndTime(q) + Slots!Hour * GapHours
    BY <1>3, <2>2 DEF Slots!SlotsKeepApart
  <2>3. \A d \in Request : \A q \in before'[d] : q \in Request
    BY <1>1 DEF Slots!CalendarTypeOK
  <2> QED
    BY <1>3, <2>1, <2>2, <2>3 DEF Slots!SlotsKeepApart
<1> QED
  BY <1>1, <1>2, <1>6

\* The other steps make no booking busy that was not.
LEMMA RestKeeps ==
  ASSUME Slots!CalendarAssumption, SlotsInv,
         \/ \E r \in Request, s \in Slots!Counted \cup {"CANCELLED"} : Slots!BookingMoves(r, s)
         \/ Slots!Reapprove \/ Slots!Tick \/ UNCHANGED Slots!vars
  PROVE  SlotsInv'
<1> USE DEF SlotsInv
<1>1. UNCHANGED <<asked, sent, before>>
  BY DEF Slots!BookingMoves, Slots!Reapprove, Slots!Tick, Slots!vars
<1>2. \A q \in Request : /\ booking'[q] \in Slots!Busy => booking[q] \in Slots!Busy
                         /\ booking'[q] # "none" => booking[q] # "none"
  BY DEF Slots!BookingMoves, Slots!Reapprove, Slots!Tick, Slots!vars, Slots!CalendarTypeOK,
         Slots!Busy, Slots!Counted
<1>3. Slots!CalendarTypeOK'
  <2>1. CASE Slots!Tick
    <3>1. MaxNow \in Nat
      BY DEF Slots!CalendarAssumption
    <3> QED
      BY <2>1, <3>1 DEF Slots!Tick, Slots!CalendarTypeOK
  <2>2. CASE Slots!Reapprove \/ UNCHANGED Slots!vars
    BY <2>2 DEF Slots!Reapprove, Slots!vars, Slots!CalendarTypeOK
  <2>3. ASSUME NEW r \in Request, NEW s \in Slots!Counted \cup {"CANCELLED"},
               Slots!BookingMoves(r, s)
        PROVE  Slots!CalendarTypeOK'
    BY <2>3 DEF Slots!BookingMoves, Slots!CalendarTypeOK
  <2> QED
    BY <2>1, <2>2, <2>3
<1>4. AskedFirst'
  BY <1>1, <1>2 DEF AskedFirst
<1>5. Slots!SlotsKeepApart'
  BY <1>1, <1>2 DEF Slots!SlotsKeepApart, Slots!InStep, Slots!StartTime, Slots!EndTime
<1> QED
  BY <1>3, <1>4, <1>5

\* A request whose two times agree is booked for that time; two such bookings never
\* overlap, and one that was sent to the helper leaves the gap.
THEOREM SlotsAreKeptApart == Slots!Spec => [](Slots!CalendarTypeOK /\ SlotsKeepApart)
<1>1. Slots!Init => SlotsInv
  BY SlotsInit, SlotsHold
<1>2. SlotsInv /\ [Slots!Next]_(Slots!vars) => SlotsInv'
  BY CreateKeeps, SendKeeps, AcceptKeeps, RestKeeps, SlotsHold DEF Slots!Next
<1>3. SlotsInv => Slots!CalendarTypeOK /\ SlotsKeepApart
  BY DEF SlotsInv, SlotsKeepApart
<1> QED
  BY <1>1, <1>2, <1>3, PTL DEF Slots!Spec

-----------------------------------------------------------------------------
(***************************************************************************)
(* All of them together                                                    *)
(***************************************************************************)

\* Whichever is in focus, each takes a step of its own or none.
LEMMA HelpersStep ==
  [HelpersNext]_allVars =>
    /\ [Next]_vars /\ [Record!Next]_(Record!vars) /\ [Site!Next]_(Site!vars)
    /\ [Book!Next]_(Book!vars) /\ [List!Next]_(List!vars) /\ [Slots!Next]_(Slots!vars)
<1>1. UNCHANGED recordVars => UNCHANGED Record!vars
  BY DEF recordVars, Record!vars, Record!ratingVars, Record!countVars
<1>2. UNCHANGED siteVars => UNCHANGED Site!vars
  BY DEF siteVars, Site!vars
<1>3. UNCHANGED bookVars => UNCHANGED Book!vars
  BY DEF bookVars, Book!vars, Book!rowVars
<1>4. UNCHANGED listVars => UNCHANGED List!vars
  BY DEF listVars, List!vars, List!rowVars
<1>5. UNCHANGED slotVars => UNCHANGED Slots!vars
  BY DEF slotVars, Slots!vars
<1>6. Record!NextRatings \/ Record!NextCounts => Record!Next
  BY DEF Record!Next
<1>7. UNCHANGED allVars =>
        UNCHANGED <<vars, recordVars, siteVars, bookVars, listVars, slotVars>>
  BY DEF allVars
<1> QED
  BY <1>1, <1>2, <1>3, <1>4, <1>5, <1>6, <1>7 DEF HelpersNext

\* So what runs together implements each of its parts.
LEMMA HelpersImplement ==
  HelpersSpec => Spec /\ Record!Spec /\ Site!Spec /\ Book!Spec /\ List!Spec /\ Slots!Spec
<1>1. HelpersInit =>
        Init /\ Record!Init /\ Site!Init /\ Book!Init /\ List!Init /\ Slots!Init
  BY DEF HelpersInit
<1> QED
  BY <1>1, HelpersStep, PTL
  DEF HelpersSpec, Spec, Record!Spec, Site!Spec, Book!Spec, List!Spec, Slots!Spec

\* What the records of people promise, they promise together.
THEOREM HelpersKeepTheirPromises ==
  HelpersSpec => [](/\ RecordsTypeOK /\ PayableHasFundAccount /\ RatingHeals
                    /\ CountsAreBounded /\ LostIssuesOverlapped /\ DefaultHeals /\ ServicesHeal
                    /\ SlotsKeepApart)
<1>1. AccountTypeOK /\ Record!RecordTypeOK /\ Site!SiteTypeOK /\ Book!AddressTypeOK
        /\ List!ServiceTypeOK /\ Slots!CalendarTypeOK => RecordsTypeOK
  BY DEF RecordsTypeOK
<1> QED
  BY <1>1, HelpersImplement, AccountTypeCorrect, PayableIsFunded, RatingIsHealed,
     CountsStayBounded, LostIssuesOverlap, DefaultIsHealed, ServicesAreHealed, SlotsAreKeptApart,
     PTL
================================================================================
