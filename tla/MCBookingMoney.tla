----------------------------- MODULE MCBookingMoney -----------------------------
(***************************************************************************)
(* Instances of BookingMoney for TLC.                                      *)
(***************************************************************************)
EXTENDS BookingMoney, TLC

WorkerSymmetry == Permutations(Worker)

\* A cancelled booking stays cancelled, and SentMoneyIsRecorded asks nothing of it: no
\* behaviour that leaves these states violates it.
NotCancelled == \A b \in Booking : status[b] # "CANCELLED"

\* What has fallen due is read only of bookings that are not completed and not
\* cancelled, and neither of the two ends.
MoneyView ==
  <<rows, charged, call, payoutVars,
    [b \in Booking |-> IF status[b] \in {"COMPLETED", "CANCELLED"} THEN {} ELSE due[b]]>>
=============================================================================
