\* Every kind of request, whole or in part; trees in which a path is missing,
\* locked or out of reach, or comes to be; clients that leave, and turns that
\* overtake.
CONSTANTS
  w1 = w1
  w2 = w2
  Workers <- TwoWorkers
  Depth = 1
  MaxConns = 2
  MaxFds = 4
  Kinds <- GoodKinds
  Arrivals <- Anyhow
  Sites <- MixedSites
  Changes <- Decay
SPECIFICATION FairSpec
INVARIANT TypeOK
PROPERTIES HttpSpec FirstWrongClose 
CHECK_DEADLOCK FALSE
