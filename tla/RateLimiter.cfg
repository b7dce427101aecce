\* Two calls at a time on two routes that share a bucket of two tokens.
SPECIFICATION FairSpec
CONSTANTS
  Request = {r1, r2}
  Route = {rt1, rt2}
  Bucket = {b1}
  NoBucket = NoBucket
  Limit = 2
INVARIANTS
  TokensAccounted
  DroughtNeedsLosses
PROPERTY WaiterServed
