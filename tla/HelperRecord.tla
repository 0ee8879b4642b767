----------------------------- MODULE HelperRecord -----------------------------
(***************************************************************************)
(* What is kept on record about a helper: the discipline counters and the  *)
(* customers' ratings with their average.  Each is written in a            *)
(* transaction, READ COMMITTED: a statement sees what is committed and     *)
(* what its own transaction wrote, and nothing is read again at commit.    *)
(*                                                                         *)
(* One helper; what is on record of two has nothing in common.             *)
(***************************************************************************)
EXTENDS Naturals, FiniteSets, Functions

CONSTANTS
  Booking,   \* the helper's completed bookings
  Counter,   \* of "ignoreCount", "noShowCount" and "penaltyCount", those that move
  Caller,    \* the requests and sweeps in flight at once
  MaxStars,  \* a rating is from 1 to MaxStars
  MaxEvents  \* bound: the events recorded in a counter

RecordAssumption == {MaxStars, MaxEvents} \subseteq Nat /\ IsFiniteSet(Booking)

VARIABLES
  rating,    \* the Rating row of a booking, 0 for none
  summary,   \* Helper.rating and totalRatings, as the sum and the number
  trusted,   \* history: the last to write the summary was not overtaken
  count,     \* the counters
  recorded,  \* history: the events recorded in a counter
  apart,     \* history: the counters no two of whose events were recorded at once
  call       \* what each request or sweep is doing

ratingVars == <<rating, summary, trusted>>
countVars == <<count, recorded, apart>>
vars == <<ratingVars, countVars, call>>

Stars == 0 .. MaxStars
Summary == [sum : Nat, number : Nat]
Idle == [stage |-> "idle"]

\* A rating's transaction has written stars (0 is a deletion) and aggregated; alone
\* says that no other was committed since.  A counter's transaction has read n.
Call == [stage : {"rate"}, booking : Booking, stars : Stars, summary : Summary, alone : BOOLEAN]
        \cup [stage : {"count"}, counter : Counter, n : Nat, alone : BOOLEAN]

RecordTypeOK ==
  /\ rating \in [Booking -> Stars]
  /\ summary \in Summary
  /\ trusted \in BOOLEAN
  /\ count \in [Counter -> 0 .. MaxEvents]
  /\ recorded \in [Counter -> 0 .. MaxEvents]
  /\ apart \in SUBSET Counter
  /\ call \in [Caller -> Call \cup {Idle}]

SummaryOf(rows) ==
  [sum |-> SumFunction(rows), number |-> Cardinality({b \in Booking : rows[b] # 0})]

\* The columns' defaults are the summary of no rows.
Init ==
  /\ rating = [b \in Booking |-> 0]
  /\ summary = SummaryOf(rating)
  /\ trusted = TRUE
  /\ count = [k \in Counter |-> 0]
  /\ recorded = [k \in Counter |-> 0]
  /\ apart = Counter
  /\ call = [c \in Caller |-> Idle]

Rates(c) == call[c].stage = "rate"
Counts(c, k) == call[c].stage = "count" /\ call[c].counter = k

\* The transaction is rolled back.
CallDies(c) ==
  /\ call[c] # Idle
  /\ call' = [call EXCEPT ![c] = Idle]
  /\ UNCHANGED <<ratingVars, countVars>>

(***************************************************************************)
(* The ratings.                                                            *)
(***************************************************************************)

\* Mutant of Aggregate: taken before the row was written.
AggregateBefore(b, n) == SummaryOf([rating EXCEPT ![b] = IF n = 0 THEN @ ELSE @])

Aggregate(b, n) == SummaryOf([rating EXCEPT ![b] = n])

\* Who writes a booking's row waits for another transaction that has.
RateWrite(c, b, n) ==
  /\ call[c] = Idle
  /\ \A d \in Caller : Rates(d) => call[d].booking # b
  /\ call' = [call EXCEPT ![c] = [stage |-> "rate", booking |-> b, stars |-> n,
                                  summary |-> Aggregate(b, n), alone |-> TRUE]]
  /\ UNCHANGED <<ratingVars, countVars>>

\* There is one row of a booking; the reads before the transaction only reject.
CreateRating(c, b) == rating[b] = 0 /\ \E n \in Stars \ {0} : RateWrite(c, b, n)

UpdateRating(c, b) == rating[b] # 0 /\ \E n \in Stars \ {0} : RateWrite(c, b, n)

DeleteRating(c, b) == rating[b] # 0 /\ RateWrite(c, b, 0)

\* The helper's row, with what was aggregated, and the commit.
RateCommit(c) ==
  /\ Rates(c)
  /\ rating' = [rating EXCEPT ![call[c].booking] = call[c].stars]
  /\ summary' = call[c].summary
  /\ trusted' = call[c].alone
  /\ call' = [d \in Caller |-> IF d = c THEN Idle
                               ELSE IF Rates(d) THEN [call[d] EXCEPT !.alone = FALSE]
                               ELSE call[d]]
  /\ UNCHANGED countVars

(***************************************************************************)
(* The counters.                                                           *)
(***************************************************************************)

CountRead(c, k) ==
  /\ call[c] = Idle
  /\ call' = [call EXCEPT ![c] = [stage |-> "count", counter |-> k, n |-> count[k],
                                  alone |-> TRUE]]
  /\ UNCHANGED <<ratingVars, countVars>>

\* Mutant of NextCount: an event counts twice.
NextCountTwice(n) == n + 2

NextCount(n) == n + 1

\* What was read, plus one.
CountWrite(c, k) ==
  /\ Counts(c, k)
  /\ recorded[k] < MaxEvents
  /\ count' = [count EXCEPT ![k] = NextCount(call[c].n)]
  /\ recorded' = [recorded EXCEPT ![k] = @ + 1]
  /\ apart' = IF call[c].alone THEN apart ELSE apart \ {k}
  /\ call' = [d \in Caller |-> IF d = c THEN Idle
                               ELSE IF Counts(d, k) THEN [call[d] EXCEPT !.alone = FALSE]
                               ELSE call[d]]
  /\ UNCHANGED ratingVars

Record(c, k) == k \in Counter /\ (CountRead(c, k) \/ CountWrite(c, k))

RecordIgnore(c) == Record(c, "ignoreCount")

RecordNoShow(c) == Record(c, "noShowCount")

RecordPenalty(c) == Record(c, "penaltyCount")

-----------------------------------------------------------------------------
NextRatings ==
  \E c \in Caller :
    \/ \E b \in Booking : CreateRating(c, b) \/ UpdateRating(c, b) \/ DeleteRating(c, b)
    \/ RateCommit(c) \/ CallDies(c)

NextCounts ==
  \E c \in Caller :
    RecordIgnore(c) \/ RecordNoShow(c) \/ RecordPenalty(c) \/ CallDies(c)

Next == NextRatings \/ NextCounts

Spec == Init /\ [][Next]_vars

(***************************************************************************)
(* Properties                                                              *)
(***************************************************************************)

\* Whatever the ratings that overlapped have left in the average: once one was not
\* overtaken by another, the average is that of all the rows again.
RatingHeals == trusted => summary = SummaryOf(rating)

\* Events lost by counting at once are never made up for: a counter is at most the
\* number of events, at least one if there was any, and exact if none overlapped.
CountsAreBounded ==
  \A k \in Counter :
    /\ count[k] <= recorded[k]
    /\ recorded[k] > 0 => count[k] > 0
    /\ k \in apart => count[k] = recorded[k]
=============================================================================
