CONSTANTS
  Booking = {b1}
  Caller = {c1, c2, c3}
  Pair = {c1, c2}
  MAX_OTP_ATTEMPTS = 3
  MaxCode = 3
  Account = {a1}
  MaxAttempts = 2
  MaxSends = 1
  MaxMail = 2
  Phone = {f1}
  MAX_FAILED_ATTEMPTS = 2
  MaxSms = 2
  User = {u1}
  MaxTime = 1
  MaxRows = 2
  Helper = {h1, h2}
  Pan = {p1}
  MaxApprovals = 1
  NoPan = NoPan
  Address = {e1, e2}
  Store = {t1, t2}
  Fresh = t1
  NoAddress = NoAddress
SPECIFICATION AccessSpec
INVARIANTS
  AccessTypeOK WrongTriesAreBounded AcceptedTogetherOnly
  AcceptedTwiceTogetherOnly LockComesInTime SessionsComeFromLogins OneHelperPerPan
PROPERTIES
  ImplementsOneTimeCode ApprovalOutlastsLaterCalls
SYMMETRY Symmetry
CHECK_DEADLOCK FALSE
