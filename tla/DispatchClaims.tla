------------------------------ MODULE DispatchClaims ------------------------------
(***************************************************************************)
(* What comments and documents of the repository say of the dispatch, and  *)
(* the code does not do.  TLC refutes each in a run of its own.            *)
(***************************************************************************)
EXTENDS Dispatch

\* "Availability is determined by isOnline + onboardingStatus + user status +
\* time-conflict checks" (booking-dispatch.service.ts:196): once a booking is over, it
\* does not keep its helper, approved and active, from the next one.
LockIsReleased ==
  \A r \in Request, h \in Helper :
    booked[r] = h /\ r \notin live ~> available[h] \/ standing[h] # "good"
=============================================================================
