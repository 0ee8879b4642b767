CONSTANTS
  Booking = {b1}
  Handler = {h1}
  Worker = {w1, w2}
  MaxRetries = 1
SYMMETRY WorkerSymmetry
VIEW MoneyView
SPECIFICATION MoneySpec
INVARIANTS
  PayoutNeedsCompletedJob
  PaidMeansPaid
  OnePayoutJob
