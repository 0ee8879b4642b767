---------------------------- MODULE DispatchProofs ----------------------------
(***************************************************************************)
(* Proofs about Dispatch, for any sets of requests, customers and helpers  *)
(* and any number of calls in flight.                                      *)
(*                                                                         *)
(* The guarded updates of accept decide, whatever a call has read: that a  *)
(* helper on a job is not available, or was approved again meanwhile, is   *)
(* all that the properties need beyond themselves.                         *)
(***************************************************************************)
EXTENDS Dispatch, TLAPS

\* A live booking has a helper, whom only a new approval has made available.
LiveBookingHoldsHelper ==
  \A r \in live :
    /\ booked[r] # NoHelper
    /\ available[booked[r]] => reapproved[booked[r]]

\* A call in flight is about a request that was created, and an accept is a helper's.
CallsKnow ==
  \A c \in Caller :
    call[c] # Idle =>
      /\ request[call[c].request] # "none"
      /\ call[c].stage \in {"acceptRead", "acceptCommit"} => call[c].helper \in Helper

IInv ==
  /\ TypeOK
  /\ OneLiveJobPerHelper
  /\ BookedRequestIsSettled
  /\ LiveBookingHoldsHelper
  /\ CallsKnow

\* Before the first request IInv holds.
LEMMA InitIInv == Init => IInv
  BY NoHelperAssumption
     DEF Init, IInv, TypeOK, OneLiveJobPerHelper, BookedRequestIsSettled,
         LiveBookingHoldsHelper, CallsKnow, Idle, RequestStatus, Standing

\* Creating a request, its deadline and the end of a job keep IInv.
LEMMA RequestStep ==
  ASSUME IInv, NEW r \in Request, Create(r) \/ TimePasses(r) \/ BookingEnds(r)
  PROVE  IInv'
<1> USE NoHelperAssumption DEF IInv, TypeOK, OneLiveJobPerHelper, BookedRequestIsSettled,
            LiveBookingHoldsHelper, CallsKnow, Call, Stage, Idle, RequestStatus,
            Standing, At, requestVars, bookingVars, helperVars
<1>1. CASE Create(r)
  BY <1>1 DEF Create, Found
<1>2. CASE TimePasses(r)
  BY <1>2 DEF TimePasses
<1>3. CASE BookingEnds(r)
  BY <1>3 DEF BookingEnds
<1> QED
  BY <1>1, <1>2, <1>3

\* An accept keeps IInv: the helper it books was available.
LEMMA AcceptStep ==
  ASSUME IInv, NEW c \in Caller, NEW r \in Request, Accept(c, r)
  PROVE  IInv'
<1> USE NoHelperAssumption DEF IInv, TypeOK, OneLiveJobPerHelper, BookedRequestIsSettled,
            LiveBookingHoldsHelper, CallsKnow, Call, Stage, Idle, RequestStatus,
            Standing, At, requestVars, bookingVars, helperVars
<1>1. CASE \E h \in Helper : AcceptReadHelper(c, r, h)
  BY <1>1 DEF AcceptReadHelper, Begin
<1>2. CASE AcceptReadRequest(c, r)
  BY <1>2 DEF AcceptReadRequest, Goto
<1>3. CASE AcceptCommit(c, r)
  <2> DEFINE h == call[c].helper
  <2>1. h \in Helper /\ h # NoHelper /\ available[h]
    BY <1>3 DEF AcceptCommit, HelperFree
  <2>2. request[r] = "PENDING" /\ booked[r] = NoHelper /\ r \notin live
    BY <1>3 DEF AcceptCommit, StillPending
  <2>3. TypeOK'
    BY <1>3, <2>1 DEF AcceptCommit, Done
  <2>4. OneLiveJobPerHelper'
    BY <1>3, <2>1, <2>2 DEF AcceptCommit
  <2>5. BookedRequestIsSettled'
    BY <1>3, <2>1, <2>2 DEF AcceptCommit, Rivals
  <2>6. LiveBookingHoldsHelper'
    BY <1>3, <2>1, <2>2 DEF AcceptCommit
  <2>7. CallsKnow'
    BY <1>3 DEF AcceptCommit, Done
  <2> QED
    BY <2>3, <2>4, <2>5, <2>6, <2>7
<1> QED
  BY <1>1, <1>2, <1>3 DEF Accept

\* A reject and its redispatch keep IInv: an accepted request can only expire.
LEMMA RejectStep ==
  ASSUME IInv, NEW c \in Caller, NEW r \in Request, Reject(c, r)
  PROVE  IInv'
<1> USE NoHelperAssumption DEF IInv, TypeOK, OneLiveJobPerHelper, BookedRequestIsSettled,
            LiveBookingHoldsHelper, CallsKnow, Call, Stage, Idle, RequestStatus,
            Standing, At, requestVars, bookingVars, helperVars
<1>1. CASE \E h \in Helper : RejectRead(c, r, h)
  BY <1>1 DEF RejectRead, Begin
<1>2. CASE RejectShrink(c, r)
  BY <1>2 DEF RejectShrink, Done
<1>3. CASE RejectExpire(c, r)
  BY <1>3 DEF RejectExpire, Done
<1>4. CASE FindNextBatch(c, r)
  <2>1. PICK found \in SUBSET Helper :
              call' = [call EXCEPT ![c].stage = "rebatch", ![c].list = found]
    BY <1>4 DEF FindNextBatch
  <2>2. call[c] \in Call
    BY <1>4 DEF FindNextBatch
  <2>3. TypeOK'
    <3>1. call'[c] = [stage |-> "rebatch", request |-> call[c].request,
                      helper |-> call[c].helper, list |-> found]
      BY <2>1, <2>2
    <3>2. call' \in [Caller -> Call \cup {Idle}]
      BY <2>1, <2>2, <3>1
    <3> QED
      BY <1>4, <3>2 DEF FindNextBatch
  <2>4. call'[c].stage = "rebatch" /\ \A d \in Caller \ {c} : call'[d] = call[d]
    BY <2>1, <2>2
  <2>5. CallsKnow'
    <3>1. request'[call'[c].request] # "none"
      BY <1>4, <2>1, <2>2 DEF FindNextBatch
    <3> QED
      BY <1>4, <2>4, <3>1 DEF FindNextBatch
  <2> QED
    BY <1>4, <2>3, <2>5 DEF FindNextBatch
<1>5. CASE Rebatch(c, r)
  BY <1>5 DEF Rebatch, StillPending, Done
<1> QED
  BY <1>1, <1>2, <1>3, <1>4, <1>5 DEF Reject

\* The expiry sweep keeps IInv.
LEMMA SweepStep ==
  ASSUME IInv, NEW c \in Caller, NEW r \in Request, Sweep(c, r)
  PROVE  IInv'
<1> USE NoHelperAssumption DEF IInv, TypeOK, OneLiveJobPerHelper, BookedRequestIsSettled,
            LiveBookingHoldsHelper, CallsKnow, Call, Stage, Idle, RequestStatus,
            Standing, At, requestVars, bookingVars, helperVars
<1>1. CASE SweepRead(c, r)
  BY <1>1 DEF SweepRead, Begin
<1>2. CASE SweepExpire(c, r)
  BY <1>2 DEF SweepExpire, StillPending, Goto, Done
<1>3. CASE \E h \in Helper : RecordIgnore(c, r, h)
  BY <1>3 DEF RecordIgnore, Done
<1> QED
  BY <1>1, <1>2, <1>3 DEF Sweep

\* The administrator's decisions keep IInv: an approval in the middle of a job is noted.
LEMMA AdminStep ==
  ASSUME IInv, NEW h \in Helper, Admin(h)
  PROVE  IInv'
<1> USE NoHelperAssumption DEF IInv, TypeOK, OneLiveJobPerHelper, BookedRequestIsSettled,
            LiveBookingHoldsHelper, CallsKnow, Call, Stage, Idle, RequestStatus,
            Standing, At, requestVars, bookingVars, helperVars
<1>1. CASE ApproveOnboarding(h)
  <2>1. TypeOK' /\ CallsKnow'
    BY <1>1 DEF ApproveOnboarding
  <2>2. OneLiveJobPerHelper'
    BY <1>1 DEF ApproveOnboarding
  <2>3. BookedRequestIsSettled'
    BY <1>1 DEF ApproveOnboarding
  <2>4. ASSUME NEW r \in live
        PROVE  booked[r] # NoHelper /\ (available'[booked[r]] => reapproved'[booked[r]])
    <3>1. CASE booked[r] = h
      <4>1. reapproved'[h] = (reapproved[h] \/ \E q \in live : booked[q] = h)
        BY <1>1 DEF ApproveOnboarding
      <4> QED
        BY <3>1, <4>1
    <3>2. CASE booked[r] # h
      BY <1>1, <3>2 DEF ApproveOnboarding
    <3> QED
      BY <3>1, <3>2
  <2>5. LiveBookingHoldsHelper'
    BY <1>1, <2>4 DEF ApproveOnboarding
  <2> QED
    BY <2>1, <2>2, <2>3, <2>5
<1>2. CASE RejectOnboarding(h)
  BY <1>2 DEF RejectOnboarding
<1>3. CASE Deactivate(h)
  BY <1>3 DEF Deactivate
<1>4. CASE Activate(h)
  BY <1>4 DEF Activate
<1> QED
  BY <1>1, <1>2, <1>3, <1>4 DEF Admin

\* Every step keeps IInv.
LEMMA NextIInv == IInv /\ [Next]_vars => IInv'
<1> SUFFICES ASSUME IInv, [Next]_vars
             PROVE  IInv'
  OBVIOUS
<1>1. CASE \E r \in Request : Create(r) \/ TimePasses(r) \/ BookingEnds(r)
  BY <1>1, RequestStep
<1>2. CASE \E c \in Caller, r \in Request : Accept(c, r) \/ Reject(c, r) \/ Sweep(c, r)
  BY <1>2, AcceptStep, RejectStep, SweepStep
<1>3. CASE \E h \in Helper : Admin(h)
  BY <1>3, AdminStep
<1>4. CASE \E c \in Caller : CallDies(c)
  BY <1>4 DEF CallDies, Done, IInv, TypeOK, OneLiveJobPerHelper, BookedRequestIsSettled,
              LiveBookingHoldsHelper, CallsKnow, Idle, requestVars, bookingVars,
              helperVars
<1>5. CASE UNCHANGED vars
  BY <1>5 DEF vars, requestVars, bookingVars, helperVars, IInv, TypeOK, OneLiveJobPerHelper,
              BookedRequestIsSettled, LiveBookingHoldsHelper, CallsKnow
<1> QED
  BY <1>1, <1>2, <1>3, <1>4, <1>5 DEF Next

\* IInv is an invariant.
LEMMA Invariance == Spec => []IInv
<1>1. Init => IInv
  BY InitIInv
<1>2. IInv /\ [Next]_vars => IInv'
  BY NextIInv
<1> QED
  BY <1>1, <1>2, PTL DEF Spec

\* The rows and the calls in flight keep their types.
THEOREM TypeCorrect == Spec => []TypeOK
<1>1. IInv => TypeOK
  BY DEF IInv
<1> QED
  BY <1>1, Invariance, PTL

\* However accepts, approvals and ends of jobs interleave, a helper has one live
\* booking, unless an approval in the middle of a job unlocked him.
THEOREM OneJobAtATime == Spec => []OneLiveJobPerHelper
<1>1. IInv => OneLiveJobPerHelper
  BY DEF IInv
<1> QED
  BY <1>1, Invariance, PTL

\* Whatever rejects, redispatches and sweeps have read, the request of a booking names
\* its helper and is never rejected, failed or open again.
THEOREM BookingsAreSettled == Spec => []BookedRequestIsSettled
<1>1. IInv => BookedRequestIsSettled
  BY DEF IInv
<1> QED
  BY <1>1, Invariance, PTL

(***************************************************************************)
(* The offer.                                                              *)
(***************************************************************************)

\* Only a request's status and its booking are seen of a step.
LEMMA RestStutters ==
  ASSUME UNCHANGED <<customer, request, booked>>
  PROVE  UNCHANGED Offer!ovars
  BY DEF Offer!ovars, stateBar

\* A request that expires or fails closes its offer, if it is not closed or taken yet.
LEMMA ExpiryCloses ==
  ASSUME IInv, NEW r \in Request, request[r] # "none", NEW s \in {"EXPIRED", "FAILED"},
         s = "FAILED" => booked[r] = NoHelper,
         request' = [request EXCEPT ![r] = s], UNCHANGED <<customer, booked>>
  PROVE  [Offer!Next]_(Offer!ovars)
<1> USE DEF IInv, TypeOK, RequestStatus
<1>1. CASE booked[r] = NoHelper /\ request[r] = "PENDING"
  <2>1. stateBar[r] = "open"
    BY <1>1 DEF stateBar
  <2>2. stateBar' = [stateBar EXCEPT ![r] = "closed"]
    BY <1>1 DEF stateBar
  <2> QED
    BY <2>1, <2>2 DEF Offer!Next, Offer!Close
<1>2. CASE booked[r] # NoHelper \/ request[r] # "PENDING"
  <2>1. stateBar' = stateBar
    BY <1>2 DEF stateBar
  <2> QED
    BY <2>1 DEF Offer!ovars
<1> QED
  BY <1>1, <1>2

\* The commit of an accept takes the offer and closes its rivals.
LEMMA AcceptTakes ==
  ASSUME IInv, NEW c \in Caller, NEW r \in Request, AcceptCommit(c, r)
  PROVE  [Offer!Next]_(Offer!ovars)
<1> USE NoHelperAssumption DEF IInv, TypeOK, BookedRequestIsSettled, CallsKnow, RequestStatus
<1> DEFINE h == call[c].helper
<1>1. h \in Helper /\ h # NoHelper
  BY DEF AcceptCommit, At, Idle
<1>2. request[r] = "PENDING" /\ booked[r] = NoHelper
  BY DEF AcceptCommit, StillPending
<1>3. \A q \in Request :
        stateBar[q] = "open" <=> booked[q] = NoHelper /\ request[q] = "PENDING"
  BY DEF stateBar
<1>4. \A q \in Request : request[q] = "PENDING" => booked[q] = NoHelper
  OBVIOUS
<1>5. booked' = [booked EXCEPT ![r] = h] /\ UNCHANGED customer
  BY DEF AcceptCommit
<1>6. stateBar' = [q \in Request |->
                     IF q = r THEN "taken"
                     ELSE IF customer[q] = customer[r] /\ stateBar[q] = "open" THEN "closed"
                     ELSE stateBar[q]]
  <2>1. \A q \in Request \ {r} :
          request'[q] = IF q \in Rivals(r) THEN "REJECTED" ELSE request[q]
    BY DEF AcceptCommit
  <2>2. \A q \in Request \ {r} :
          q \in Rivals(r) <=> customer[q] = customer[r] /\ stateBar[q] = "open"
    BY <1>3, <1>4 DEF Rivals
  <2>3. booked'[r] = h /\ \A q \in Request \ {r} : booked'[q] = booked[q]
    BY <1>5
  <2>4. \A q \in Request \ {r} : q \in Rivals(r) => booked[q] = NoHelper
    BY <1>4 DEF Rivals
  <2> QED
    BY <1>1, <2>1, <2>2, <2>3, <2>4 DEF stateBar
<1>7. Offer!Take(r, h)
  BY <1>2, <1>3, <1>5, <1>6 DEF Offer!Take
<1> QED
  BY <1>1, <1>7 DEF Offer!Next

\* Every step is a step of the offer or none.
LEMMA NextImplements == IInv /\ [Next]_vars => [Offer!Next]_(Offer!ovars)
<1> SUFFICES ASSUME IInv, [Next]_vars
             PROVE  [Offer!Next]_(Offer!ovars)
  OBVIOUS
<1>1. CASE UNCHANGED vars
  BY <1>1, RestStutters DEF vars, requestVars, bookingVars
<1>2. ASSUME NEW r \in Request, Create(r)
      PROVE  [Offer!Next]_(Offer!ovars)
  <2>1. request[r] = "none" /\ booked[r] = NoHelper /\ UNCHANGED <<customer, booked>>
    BY <1>2 DEF Create, bookingVars, IInv, BookedRequestIsSettled
  <2>2. request' = [request EXCEPT ![r] = "PENDING"]
    BY <1>2 DEF Create
  <2>3. stateBar[r] = "none" /\ stateBar' = [stateBar EXCEPT ![r] = "open"]
    BY <2>1, <2>2 DEF stateBar, IInv, TypeOK
  <2> QED
    BY <2>1, <2>3 DEF Offer!Next, Offer!Open
<1>3. ASSUME NEW r \in Request, TimePasses(r) \/ BookingEnds(r)
      PROVE  [Offer!Next]_(Offer!ovars)
  BY <1>3, RestStutters DEF TimePasses, BookingEnds, requestVars, bookingVars
<1>4. ASSUME NEW c \in Caller, NEW r \in Request, Accept(c, r)
      PROVE  [Offer!Next]_(Offer!ovars)
  BY <1>4, AcceptTakes, RestStutters
  DEF Accept, AcceptReadHelper, AcceptReadRequest, requestVars, bookingVars
<1>5. ASSUME NEW c \in Caller, NEW r \in Request, Reject(c, r)
      PROVE  [Offer!Next]_(Offer!ovars)
  <2>1. CASE RejectExpire(c, r)
    <3>1. request[r] # "none"
      BY <2>1 DEF RejectExpire, At, IInv, CallsKnow, Idle
    <3> QED
      BY <2>1, <3>1, ExpiryCloses DEF RejectExpire, bookingVars
  <2>2. CASE Rebatch(c, r)
    <3>1. UNCHANGED <<customer, booked>>
      BY <2>2 DEF Rebatch, bookingVars
    <3>2. CASE request' = request
      BY <3>1, <3>2, RestStutters
    <3>3. CASE request' = [request EXCEPT ![r] = "FAILED"] /\ request[r] = "PENDING"
      <4>1. booked[r] = NoHelper
        BY <3>3 DEF IInv, BookedRequestIsSettled
      <4> QED
        BY <3>1, <3>3, <4>1, ExpiryCloses
    <3> QED
      BY <2>2, <3>2, <3>3 DEF Rebatch, StillPending, IInv, TypeOK
  <2>3. CASE RejectShrink(c, r) \/ FindNextBatch(c, r) \/ \E h \in Helper : RejectRead(c, r, h)
    BY <2>3, RestStutters
    DEF RejectShrink, FindNextBatch, RejectRead, requestVars, bookingVars
  <2> QED
    BY <1>5, <2>1, <2>2, <2>3 DEF Reject
<1>6. ASSUME NEW c \in Caller, NEW r \in Request, Sweep(c, r)
      PROVE  [Offer!Next]_(Offer!ovars)
  <2>1. CASE SweepExpire(c, r)
    <3>1. UNCHANGED <<customer, booked>>
      BY <2>1 DEF SweepExpire, bookingVars
    <3>2. CASE request[r] = "PENDING"
      BY <2>1, <3>1, <3>2, ExpiryCloses DEF SweepExpire, StillPending
    <3>3. CASE request[r] # "PENDING"
      <4>1. request' = request
        BY <2>1, <3>3 DEF SweepExpire, StillPending, IInv, TypeOK
      <4> QED
        BY <3>1, <4>1, RestStutters
    <3> QED
      BY <3>2, <3>3
  <2> QED
    BY <1>6, <2>1, RestStutters DEF Sweep, SweepRead, RecordIgnore, requestVars, bookingVars
<1>7. ASSUME NEW h \in Helper, Admin(h)
      PROVE  [Offer!Next]_(Offer!ovars)
  BY <1>7, RestStutters
  DEF Admin, ApproveOnboarding, RejectOnboarding, Deactivate, Activate, requestVars, bookingVars
<1>8. ASSUME NEW c \in Caller, CallDies(c)
      PROVE  [Offer!Next]_(Offer!ovars)
  BY <1>8, RestStutters DEF CallDies, requestVars, bookingVars
<1> QED
  BY <1>1, <1>2, <1>3, <1>4, <1>5, <1>6, <1>7, <1>8 DEF Next

\* A request is taken by one helper, while it is open, and closes its rivals.
THEOREM OfferIsKept == Spec => ImplementsOffer
<1>1. Init => Offer!Init
  BY DEF Init, Offer!Init, stateBar
<1> QED
  BY <1>1, Invariance, NextImplements, PTL DEF Spec, ImplementsOffer, Offer!Spec
=============================================================================
