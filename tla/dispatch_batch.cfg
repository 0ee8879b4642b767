CONSTANTS
  Request = {r1}
  Customer = {u1}
  Helper = {h1, h2}
  Caller = {c1, c2}
  NoHelper = NoHelper
SPECIFICATION FairSpec
PROPERTIES
  EveryRequestResolves
