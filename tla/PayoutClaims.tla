------------------------------ MODULE PayoutClaims ------------------------------
(***************************************************************************)
(* What comments of the repository say of payouts, and the code does not   *)
(* do.  TLC refutes each in a run of its own.                              *)
(***************************************************************************)
EXTENDS BookingMoney

\* "State machine: PENDING -> PROCESSING -> PAID / PENDING -> PROCESSING -> FAILED"
\* (payout.service.ts:108): no payout stays PROCESSING for ever.  One whose job
\* died before it stored the payout id does.
PayoutLeavesProcessing ==
  \A b \in Booking : payoutStatus[b] = "PROCESSING" ~> payoutStatus[b] # "PROCESSING"
=============================================================================
