\* Two threads, two slots, six connections: the array goes round three times.
CONSTANTS
  w1 = w1
  w2 = w2
  Main = Main
  Free = Free
  Workers <- TwoWorkers
  BuffSize = 2
  MaxConns = 6
SPECIFICATION FairSpec
INVARIANTS TypeOK CountConserved NearlyInOrder
PROPERTIES QueueSpec EveryPostTaken
