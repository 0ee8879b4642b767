--------------------------------- MODULE Dispatch ---------------------------------
(***************************************************************************)
(* From a customer's request to a helper's booking: the request is sent to *)
(* a batch of helpers; they accept or reject it, a batch in which all have *)
(* rejected is replaced, and a cron sweep expires what nobody took.        *)
(*                                                                         *)
(* One Prisma call is one step.  The transactions of accept and reject run *)
(* at READ COMMITTED: what they read may be changed before they write, so  *)
(* their reads and their writes are steps of their own.  A transaction     *)
(* that finds no row to update is rolled back, and is no step.             *)
(***************************************************************************)
EXTENDS Naturals

CONSTANTS
  Request, Customer, Helper,
  Caller,     \* the API calls and sweeps in flight at once
  NoHelper    \* the null of a helperId

ASSUME NoHelperAssumption == NoHelper \notin Helper

VARIABLES
  customer,     \* BookingRequest.customerId
  request,      \* BookingRequest.status
  assigned,     \* BookingRequest.helperId
  dispatched,   \* BookingRequest.dispatchedHelperIds
  late,         \* expiresAt has passed
  booked,       \* the helper of the Booking created for the request
  live,         \* the requests whose booking is not yet completed or cancelled
  available,    \* Helper.isAvailable
  standing,     \* Helper.onboardingStatus and User.isActive
  reapproved,   \* the helper was approved again while on a job
  call          \* what each caller is doing

requestVars == <<customer, request, assigned, dispatched, late>>
bookingVars == <<booked, live>>
helperVars == <<available, standing, reapproved>>
vars == <<requestVars, bookingVars, helperVars, call>>

RequestStatus == {"none", "PENDING", "ACCEPTED", "REJECTED", "EXPIRED", "FAILED"}

\* A helper who is rejected and inactive behaves as one who is rejected: both are
\* undone by the next approval alone.
Standing == {"good", "rejected", "inactive"}

Idle == [stage |-> "idle"]

Stage == {"acceptRead", "acceptCommit", "rejectShrink", "rejectExpire", "redispatch",
          "rebatch", "sweep", "ignore"}

\* list is the helpers the call has read, or will write.
Call == [stage : Stage, request : Request, helper : Helper \cup {NoHelper},
         list : SUBSET Helper]

TypeOK ==
  /\ customer \in [Request -> Customer]
  /\ request \in [Request -> RequestStatus]
  /\ assigned \in [Request -> Helper \cup {NoHelper}]
  /\ dispatched \in [Request -> SUBSET Helper]
  /\ late \in [Request -> BOOLEAN]
  /\ booked \in [Request -> Helper \cup {NoHelper}]
  /\ live \in SUBSET Request
  /\ available \in [Helper -> BOOLEAN]
  /\ standing \in [Helper -> Standing]
  /\ reapproved \in [Helper -> BOOLEAN]
  /\ call \in [Caller -> Call \cup {Idle}]

\* The helpers have been approved, which made them available.
Init ==
  /\ customer \in [Request -> Customer]
  /\ request = [r \in Request |-> "none"]
  /\ assigned = [r \in Request |-> NoHelper]
  /\ dispatched = [r \in Request |-> {}]
  /\ late = [r \in Request |-> FALSE]
  /\ booked = [r \in Request |-> NoHelper]
  /\ live = {}
  /\ available = [h \in Helper |-> TRUE]
  /\ standing = [h \in Helper |-> "good"]
  /\ reapproved = [h \in Helper |-> FALSE]
  /\ call = [c \in Caller |-> Idle]

At(c, stage, r) == call[c].stage = stage /\ call[c].request = r

Begin(c, stage, r, h, list) ==
  /\ call[c] = Idle
  /\ call' = [call EXCEPT ![c] = [stage |-> stage, request |-> r, helper |-> h, list |-> list]]

Goto(c, stage) == call' = [call EXCEPT ![c].stage = stage]

Done(c) == call' = [call EXCEPT ![c] = Idle]

\* The process stops, or the transaction is rolled back: a guarded update that
\* finds no row, an error of the database.
CallDies(c) ==
  /\ call[c] # Idle
  /\ Done(c)
  /\ UNCHANGED <<requestVars, bookingVars, helperVars>>

(***************************************************************************)
(* The request.                                                            *)
(***************************************************************************)

\* What findNearbyHelpers returns: the nearest of the approved, active and online
\* helpers who offer the service, less those it finds booked.  Who is online and
\* near is not modelled, nor are the bookings it finds, so any of them may be
\* missing; an error is an empty result.  isAvailable is not looked at.
Found(found, tried) ==
  /\ found \subseteq {h \in Helper \ tried : standing[h] = "good"}

\* Nobody can reach the request before it is created, so finding the helpers and
\* creating the row is one step.
Create(r) ==
  /\ request[r] = "none"
  /\ \E found \in SUBSET Helper :
       Found(found, {}) /\ dispatched' = [dispatched EXCEPT ![r] = found]
  /\ request' = [request EXCEPT ![r] = "PENDING"]
  /\ UNCHANGED <<customer, assigned, late, bookingVars, helperVars, call>>

TimePasses(r) ==
  /\ request[r] # "none"
  /\ ~late[r]
  /\ late' = [late EXCEPT ![r] = TRUE]
  /\ UNCHANGED <<customer, request, assigned, dispatched, bookingVars, helperVars, call>>

(***************************************************************************)
(* A helper accepts.  Whether the request was sent to the helper is not    *)
(* looked at.                                                              *)
(***************************************************************************)

AcceptReadHelper(c, r, h) ==
  /\ request[r] # "none"
  /\ standing[h] # "rejected"
  /\ available[h]
  /\ Begin(c, "acceptRead", r, h, {})
  /\ UNCHANGED <<requestVars, bookingVars, helperVars>>

\* A request found expired is set to EXPIRED and then the transaction throws,
\* which takes that back.
AcceptReadRequest(c, r) ==
  /\ At(c, "acceptRead", r)
  /\ request[r] # "ACCEPTED"
  /\ ~late[r]
  /\ Goto(c, "acceptCommit")
  /\ UNCHANGED <<requestVars, bookingVars, helperVars>>

\* Mutants of the two guards below: an update by id.
HelperById(h) == h \in Helper
PendingOrNot(r) == r \in Request

\* The two guarded updates: WHERE isAvailable, and WHERE status = PENDING.
HelperFree(h) == available[h]
StillPending(r) == request[r] = "PENDING"

\* The customer's other pending requests.
Rivals(r) == {q \in Request \ {r} : customer[q] = customer[r] /\ request[q] = "PENDING"}

\* Booking.bookingRequestId is unique.  The conflict check compares requestedDate
\* with a startTime that is built from requestedTime: it may find a live booking
\* of the helper, which is CallDies, or miss it.
AcceptCommit(c, r) ==
  LET h == call[c].helper IN
  /\ At(c, "acceptCommit", r)
  /\ HelperFree(h)
  /\ StillPending(r)
  /\ booked[r] = NoHelper
  /\ available' = [available EXCEPT ![h] = FALSE]
  /\ request' = [q \in Request |->
                   IF q = r THEN "ACCEPTED"
                   ELSE IF q \in Rivals(r) THEN "REJECTED" ELSE request[q]]
  /\ assigned' = [assigned EXCEPT ![r] = h]
  /\ booked' = [booked EXCEPT ![r] = h]
  /\ live' = live \cup {r}
  /\ Done(c)
  /\ UNCHANGED <<customer, dispatched, late, standing, reapproved>>

\* The booking is completed or cancelled.  isAvailable stays as it is.
BookingEnds(r) ==
  /\ r \in live
  /\ live' = live \ {r}
  /\ UNCHANGED <<requestVars, booked, helperVars, call>>

(***************************************************************************)
(* A helper rejects.                                                       *)
(***************************************************************************)

RejectRead(c, r, h) ==
  LET rest == dispatched[r] \ {h} IN
  /\ request[r] = "PENDING"
  /\ assigned[r] = NoHelper
  /\ h \in dispatched[r]
  /\ \/ rest # {} /\ Begin(c, "rejectShrink", r, h, rest)
     \/ rest = {} /\ late[r] /\ Begin(c, "rejectExpire", r, h, {})
     \/ rest = {} /\ ~late[r] /\ Begin(c, "redispatch", r, h, dispatched[r])
  /\ UNCHANGED <<requestVars, bookingVars, helperVars>>

\* By id alone, as is the next.
RejectShrink(c, r) ==
  /\ At(c, "rejectShrink", r)
  /\ dispatched' = [dispatched EXCEPT ![r] = call[c].list]
  /\ Done(c)
  /\ UNCHANGED <<customer, request, assigned, late, bookingVars, helperVars>>

\* Mutant of RejectExpire: a status nobody reads.
RejectCancel(c, r) ==
  /\ At(c, "rejectExpire", r)
  /\ request' = [request EXCEPT ![r] = "CANCELLED"]
  /\ dispatched' = [dispatched EXCEPT ![r] = {}]
  /\ Done(c)
  /\ UNCHANGED <<customer, assigned, late, bookingVars, helperVars>>

RejectExpire(c, r) ==
  /\ At(c, "rejectExpire", r)
  /\ request' = [request EXCEPT ![r] = "EXPIRED"]
  /\ dispatched' = [dispatched EXCEPT ![r] = {}]
  /\ Done(c)
  /\ UNCHANGED <<customer, assigned, late, bookingVars, helperVars>>

\* The next batch excludes the batch that was read.
FindNextBatch(c, r) ==
  /\ At(c, "redispatch", r)
  /\ \E found \in SUBSET Helper :
       /\ Found(found, call[c].list)
       /\ call' = [call EXCEPT ![c].stage = "rebatch", ![c].list = found]
  /\ UNCHANGED <<requestVars, bookingVars, helperVars>>

\* Mutant of Rebatch: by id alone.
RebatchById(c, r) ==
  LET found == call[c].list IN
  /\ At(c, "rebatch", r)
  /\ dispatched' = [dispatched EXCEPT ![r] = found]
  /\ request' = [request EXCEPT ![r] = IF found = {} THEN "FAILED" ELSE @]
  /\ Done(c)
  /\ UNCHANGED <<customer, assigned, late, bookingVars, helperVars>>

\* WHERE status = PENDING.
Rebatch(c, r) ==
  LET found == call[c].list IN
  /\ At(c, "rebatch", r)
  /\ \/ /\ StillPending(r)
        /\ dispatched' = [dispatched EXCEPT ![r] = found]
        /\ request' = [request EXCEPT ![r] = IF found = {} THEN "FAILED" ELSE @]
     \/ ~StillPending(r) /\ UNCHANGED <<request, dispatched>>
  /\ Done(c)
  /\ UNCHANGED <<customer, assigned, late, bookingVars, helperVars>>

(***************************************************************************)
(* The sweep, modelled per request of its snapshot.                        *)
(***************************************************************************)

\* Mutant of SweepRead: requests sent to nobody are skipped.
SweepReadDispatched(c, r) ==
  /\ request[r] = "PENDING"
  /\ late[r]
  /\ dispatched[r] # {}
  /\ Begin(c, "sweep", r, NoHelper, dispatched[r])
  /\ UNCHANGED <<requestVars, bookingVars, helperVars>>

SweepRead(c, r) ==
  /\ request[r] = "PENDING"
  /\ late[r]
  /\ Begin(c, "sweep", r, NoHelper, dispatched[r])
  /\ UNCHANGED <<requestVars, bookingVars, helperVars>>

\* Whatever the update finds, the snapshot decides who is recorded: the helperId
\* of a pending request is null.
SweepExpire(c, r) ==
  /\ At(c, "sweep", r)
  /\ request' = [request EXCEPT ![r] = IF StillPending(r) THEN "EXPIRED" ELSE @]
  /\ \/ call[c].list # {} /\ Goto(c, "ignore")
     \/ call[c].list = {} /\ Done(c)
  /\ UNCHANGED <<customer, assigned, dispatched, late, bookingVars, helperVars>>

\* What it writes is the helper's ignoreCount, which nothing here reads.
RecordIgnore(c, r, h) ==
  /\ At(c, "ignore", r)
  /\ h \in call[c].list
  /\ \/ call[c].list = {h} /\ Done(c)
     \/ call[c].list # {h} /\ call' = [call EXCEPT ![c].list = @ \ {h}]
  /\ UNCHANGED <<requestVars, bookingVars, helperVars>>

(***************************************************************************)
(* The administrator.                                                      *)
(***************************************************************************)

\* 409 for a helper who is approved, active or not.
ApproveOnboarding(h) ==
  /\ standing[h] = "rejected"
  /\ standing' = [standing EXCEPT ![h] = "good"]
  /\ available' = [available EXCEPT ![h] = TRUE]
  /\ reapproved' = [reapproved EXCEPT ![h] = @ \/ \E r \in live : booked[r] = h]
  /\ UNCHANGED <<requestVars, bookingVars, call>>

RejectOnboarding(h) ==
  /\ standing' = [standing EXCEPT ![h] = "rejected"]
  /\ UNCHANGED <<requestVars, bookingVars, available, reapproved, call>>

Deactivate(h) ==
  /\ standing' = [standing EXCEPT ![h] = IF @ = "good" THEN "inactive" ELSE @]
  /\ available' = [available EXCEPT ![h] = FALSE]
  /\ UNCHANGED <<requestVars, bookingVars, reapproved, call>>

Activate(h) ==
  /\ standing[h] = "inactive"
  /\ standing' = [standing EXCEPT ![h] = "good"]
  /\ UNCHANGED <<requestVars, bookingVars, available, reapproved, call>>

-----------------------------------------------------------------------------
Accept(c, r) ==
  \/ \E h \in Helper : AcceptReadHelper(c, r, h)
  \/ AcceptReadRequest(c, r) \/ AcceptCommit(c, r)

Reject(c, r) ==
  \/ \E h \in Helper : RejectRead(c, r, h)
  \/ RejectShrink(c, r) \/ RejectExpire(c, r) \/ FindNextBatch(c, r) \/ Rebatch(c, r)

Sweep(c, r) ==
  \/ SweepRead(c, r) \/ SweepExpire(c, r)
  \/ \E h \in Helper : RecordIgnore(c, r, h)

Admin(h) ==
  ApproveOnboarding(h) \/ RejectOnboarding(h) \/ Deactivate(h) \/ Activate(h)

Next ==
  \/ \E r \in Request : Create(r) \/ TimePasses(r) \/ BookingEnds(r)
  \/ \E c \in Caller, r \in Request : Accept(c, r) \/ Reject(c, r) \/ Sweep(c, r)
  \/ \E h \in Helper : Admin(h)
  \/ \E c \in Caller : CallDies(c)

Spec == Init /\ [][Next]_vars

\* Every call ends, every deadline passes, and the sweep, started again every five
\* seconds, is not killed at the same place for ever.
CallMoves(c) == Next /\ call[c] # Idle /\ call'[c] # call[c]

Fairness ==
  /\ \A c \in Caller : WF_vars(CallMoves(c))
  /\ \A r \in Request :
       /\ WF_vars(TimePasses(r))
       /\ SF_vars(\E c \in Caller : SweepRead(c, r))
       /\ SF_vars(\E c \in Caller : SweepExpire(c, r))

FairSpec == Spec /\ Fairness

(***************************************************************************)
(* Properties                                                              *)
(***************************************************************************)

\* The two guarded updates of accept, taken in the middle of other accepts, keep a
\* helper to one live booking at a time; only an approval by the administrator in
\* the middle of a job, which makes the helper available again, breaks that.
OneLiveJobPerHelper ==
  \A q, r \in live : booked[q] = booked[r] /\ q # r => reapproved[booked[r]]

\* The booking and the request name the same helper, and no reject, redispatch or
\* sweep that read the request before it was taken rejects it, fails it or opens
\* it again.  (A reject that was the last of its batch can still expire it.)
BookedRequestIsSettled ==
  \A r \in Request :
    /\ assigned[r] = booked[r]
    /\ booked[r] # NoHelper => request[r] \in {"ACCEPTED", "EXPIRED"}
    /\ request[r] = "ACCEPTED" => booked[r] # NoHelper

stateBar ==
  [r \in Request |->
     IF booked[r] # NoHelper THEN "taken"
     ELSE IF request[r] = "none" THEN "none"
     ELSE IF request[r] = "PENDING" THEN "open" ELSE "closed"]

Offer == INSTANCE DispatchOffer WITH state <- stateBar, taker <- booked

\* A request is taken by one helper, while it is open, and closes its rivals.
ImplementsOffer == Offer!Spec

\* No request waits for ever.
EveryRequestResolves == \A r \in Request : request[r] = "PENDING" ~> request[r] # "PENDING"
=============================================================================
