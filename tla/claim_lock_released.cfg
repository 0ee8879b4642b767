CONSTANTS
  Request = {r1}
  Customer = {u1}
  Helper = {h1}
  Caller = {c1}
  NoHelper = NoHelper
SPECIFICATION FairSpec
PROPERTIES
  LockIsReleased
