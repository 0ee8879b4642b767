CONSTANTS
  Booking = {b1}
  Handler = {h1}
  Worker = {w1, w2}
  MaxRetries = 1
CONSTRAINT NotCancelled
SPECIFICATION FairPayoutSpec
PROPERTIES
  SentMoneyIsRecorded
