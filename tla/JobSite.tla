-------------------------------- MODULE JobSite --------------------------------
(***************************************************************************)
(* The issue a helper reports of a booking, and the administrator who      *)
(* cancels it.  Both handlers read the booking with its issues, decide,    *)
(* and write without another look at them: a report may come while the     *)
(* administrator's call is between its reading and its transaction, and    *)
(* the other way round.                                                    *)
(*                                                                         *)
(* The photos of the work and the job's timer have no state here.  Both    *)
(* uploads of work-photos.controller.ts name a client they do not import   *)
(* and answer 500 before they read or write anything, so that no photo is  *)
(* ever recorded, and the timer, which asks for one, refuses every start.  *)
(***************************************************************************)
EXTENDS Naturals, FiniteSets

CONSTANTS
  Caller,     \* the requests in flight at once
  MaxRecords  \* bound: the reported issues

SiteAssumption == MaxRecords \in Nat /\ IsFiniteSet(Caller)

VARIABLES
  status,    \* Booking.status, and who cancelled
  open,      \* the BookingIssue rows not resolved
  reported,  \* all of them
  call,      \* what each request is doing
  saw,       \* the issues an administrator's call has read
  flying,    \* history: the reports in flight when it read them
  late       \* history: the reports in flight when an administrator cancelled

vars == <<status, open, reported, call, saw, flying, late>>

Idle == "idle"

SiteTypeOK ==
  /\ status \in {"CONFIRMED", "IN_PROGRESS", "COMPLETED", "CANCELLED", "ADMIN_CANCELLED"}
  /\ open \in 0 .. MaxRecords
  /\ reported \in 0 .. MaxRecords
  /\ call \in [Caller -> {"issue", "cancel", Idle}]
  /\ saw \in [Caller -> 0 .. MaxRecords]
  /\ flying \in [Caller -> Nat]
  /\ late \in Nat

Init ==
  /\ status = "CONFIRMED"
  /\ open = 0
  /\ reported = 0
  /\ call = [c \in Caller |-> Idle]
  /\ saw = [c \in Caller |-> 0]
  /\ flying = [c \in Caller |-> 0]
  /\ late = 0

Reports == Cardinality({c \in Caller : call[c] = "issue"})

Ends(c) ==
  /\ call' = [call EXCEPT ![c] = Idle]
  /\ saw' = [saw EXCEPT ![c] = 0]
  /\ flying' = [flying EXCEPT ![c] = 0]

CallDies(c) == Ends(c) /\ UNCHANGED <<status, open, reported, late>>

\* The booking moves on, whatever is reported of it: nobody but the administrator looks
\* at its issues.
Move ==
  /\ \/ status = "CONFIRMED" /\ status' \in {"IN_PROGRESS", "CANCELLED"}
     \/ status = "IN_PROGRESS" /\ status' \in {"COMPLETED", "CANCELLED"}
  /\ UNCHANGED <<open, reported, call, saw, flying, late>>

(***************************************************************************)
(* The report.                                                             *)
(***************************************************************************)

IssueRead(c) ==
  /\ call[c] = Idle
  /\ status \in {"CONFIRMED", "IN_PROGRESS"}
  /\ reported = 0
  /\ call' = [call EXCEPT ![c] = "issue"]
  /\ UNCHANGED <<status, open, reported, saw, flying, late>>

\* Whatever has become of the booking, and though another issue may be there by now.
IssueCreate(c) ==
  /\ call[c] = "issue"
  /\ reported < MaxRecords
  /\ open' = open + 1
  /\ reported' = reported + 1
  /\ Ends(c)
  /\ UNCHANGED <<status, late>>

(***************************************************************************)
(* The administrator's cancellation.                                       *)
(***************************************************************************)

AdminRead(c) ==
  /\ call[c] = Idle
  /\ status \in {"CONFIRMED", "IN_PROGRESS"}
  /\ call' = [call EXCEPT ![c] = "cancel"]
  /\ saw' = [saw EXCEPT ![c] = reported]
  /\ flying' = [flying EXCEPT ![c] = Reports]
  /\ UNCHANGED <<status, open, reported, late>>

\* A booking completed meanwhile is cancelled all the same.
Cancellable == status \notin {"CANCELLED", "ADMIN_CANCELLED"}

\* Mutant of AdminCommit: only the issue that was linked to the booking is resolved.
AdminCommitLinked(c) ==
  /\ call[c] = "cancel" /\ Cancellable
  /\ status' = "ADMIN_CANCELLED"
  /\ open' = IF saw[c] > 0 THEN open - 1 ELSE open
  /\ late' = Reports
  /\ Ends(c)
  /\ UNCHANGED reported

\* The transaction resolves every issue there is, read or not.
AdminCommit(c) ==
  /\ call[c] = "cancel" /\ Cancellable
  /\ status' = "ADMIN_CANCELLED"
  /\ open' = 0
  /\ late' = Reports
  /\ Ends(c)
  /\ UNCHANGED reported

\* Another cancellation was first: the transaction rolls back, and resolves nothing.
AdminTooLate(c) ==
  /\ call[c] = "cancel" /\ ~Cancellable
  /\ Ends(c)
  /\ UNCHANGED <<status, open, reported, late>>

-----------------------------------------------------------------------------
Next ==
  \/ Move
  \/ \E c \in Caller :
       \/ IssueRead(c) \/ IssueCreate(c)
       \/ AdminRead(c) \/ AdminCommit(c) \/ AdminTooLate(c)
       \/ CallDies(c)

Spec == Init /\ [][Next]_vars

(***************************************************************************)
(* Properties                                                              *)
(***************************************************************************)

\* An issue is reported again only by requests that were in flight together.
TogetherOnly == reported + Reports <= Cardinality(Caller)

\* An administrator who was shown an issue overlooks only those whose reports were in
\* flight already when the booking was read: nobody begins another.
OverlooksOnlyTheFlying ==
  \A c \in Caller :
    call[c] = "cancel" /\ saw[c] > 0 => reported + Reports <= saw[c] + flying[c]

\* No issue is left open on a booking the administrator cancelled, but those that were
\* being reported at that moment.
LeftOpenWasLate == status = "ADMIN_CANCELLED" => open + Reports <= late

\* Reports and the administrator's cancellation, each deciding by what it has read, lose
\* no issue but through an overlap.
LostIssuesOverlapped == TogetherOnly /\ OverlooksOnlyTheFlying /\ LeftOpenWasLate
===============================================================================
