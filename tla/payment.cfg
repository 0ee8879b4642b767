CONSTANTS
  Booking = {b1}
  Handler = {h1, h2}
SPECIFICATION FairSpec
INVARIANTS
  TypeOK
  LiveJobHoldsEscrow
  RefundOnlyWhenCancelled
  LedgerMatchesRows
PROPERTIES
  NoShowSparesCaptured
  ImplementsContract
  EveryBookingEnds
