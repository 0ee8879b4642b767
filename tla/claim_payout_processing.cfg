CONSTANTS
  Booking = {b1}
  Handler = {}
  Worker = {w1}
  MaxRetries = 1
SPECIFICATION FairPayoutSpec
PROPERTIES
  PayoutLeavesProcessing
CHECK_DEADLOCK FALSE
