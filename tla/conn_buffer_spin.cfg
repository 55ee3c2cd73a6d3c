\* Two threads and two slots: the third connection may find both slots taken.
CONSTANTS
  w1 = w1
  w2 = w2
  Main = Main
  Free = Free
  Workers <- TwoWorkers
  BuffSize = 2
  MaxConns = 3
SPECIFICATION FairSpec
PROPERTIES EveryTurnComes
