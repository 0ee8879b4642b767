CONSTANTS
  Helper = {h1}
  Detail = {d1, d2}
  Caller = {c1, c2}
  MAX_REGISTRATION_RETRIES = 2
  MaxSubmits = 2
  MaxCrashes = 1
  Nothing = Nothing
  Booking = {b1, b2}
  Counter = {"ignoreCount", "noShowCount", "penaltyCount"}
  MaxStars = 2
  MaxEvents = 3
  MaxRecords = 3
  MaxAddresses = 3
  Service = {s1, s2, s3}
  Request = {r1, r2}
  DayLength = 6
  IstOffset = 1
  FirstSlot = 2
  LastSlot = 4
  MaxHours = 2
  GapHours = 1
  Instant = {3, 5, 6, 7, 9}
  MaxNow = 1
  NoAsk = NoAsk
SPECIFICATION HelpersSpec
INVARIANTS RecordsTypeOK PayableHasFundAccount RatingHeals CountsAreBounded
  LostIssuesOverlapped DefaultHeals ServicesHeal SlotsKeepApart
PROPERTY RegistrationSettles
CHECK_DEADLOCK FALSE
