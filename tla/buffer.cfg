\* The five consumers main starts, up to their names, and every interleaving of
\* the loads and stores of four calls of getItem.
CONSTANTS
  Consumers = {c1, c2, c3, c4, c5}
  MaxItems = 3
  MaxGets = 4
SPECIFICATION Spec
INVARIANTS TypeOK SkipsArePaidFor
SYMMETRY Perms
CHECK_DEADLOCK FALSE
