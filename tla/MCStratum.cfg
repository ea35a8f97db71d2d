\* One reconnection, two jobs over the two sessions, two shares.  The workers
\* write nothing that another one reads: one of them stands for all.
CONSTANTS
  Workers = {w1}
  MaxSessions = 2
  MaxJobs = 2
  MaxShares = 2
SPECIFICATION FairSpec
INVARIANTS
  HashesOwnWork
  AtMostOneLateShare
  CountersBacked
PROPERTY
  WorkersFollow
