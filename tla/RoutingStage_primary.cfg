SPECIFICATION Spec
CONSTANTS
  b1 = b1
  b2 = b2
  Bodies = {b1, b2}
  NoAnswer = NoAnswer
  Offers <- MCOffers
  Limit = 2
  Window = 2
  OpenFor = 2
  Ttl = 1
  Grace = 1
  Oldest = 3
  MaxSpan = 1
INVARIANT SafetyIsPrimary
