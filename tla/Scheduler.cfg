\* Five callers, two of them without a deadline, for two leases and four places.
CONSTANTS
  c1 = c1
  c2 = c2
  c3 = c3
  c4 = c4
  c5 = c5
  Callers <- FiveCallers
  Patient <- TwoCallers
  Capacity = 4
  MaxBatch = 2
SPECIFICATION FairSpec
INVARIANTS TypeOK LeasesCounted OneTicketEach Bounded
PROPERTIES AcquireEnds NeverIdle
