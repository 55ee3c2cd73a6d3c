--------------------------- MODULE MCToreroServe ----------------------------
(* Model-checking instances of ToreroServe.                                *)
EXTENDS ToreroServe, TLC

CONSTANTS w1, w2

TwoWorkers == {w1, w2}
Symmetry   == Permutations(Workers)

\* A line that does not match the expression comes of a request in part.
GoodKinds  == {"favicon", "page", "dir", "noname"}
PageAndDir == {"page", "dir"}

Whole  == {"whole"}
Anyhow == {"whole", "part"}

Tree(p, i, d) == [page |-> p, index |-> i, dir |-> d]

\* Trees in which each path is missing, readable, locked or out of reach.
MixedSites == {Tree("locked", "absent", "readable"),
               Tree("absent", "readable", "nostat"),
               Tree("readable", "nostat", "absent"),
               Tree("nostat", "absent", "locked")}

FailingSites == {Tree("locked", "absent", "readable"),
                 Tree("nostat", "absent", "locked")}

Decay   == {<<"readable", "absent">>, <<"readable", "locked">>}
Unlocks == {<<"locked", "readable">>}
=============================================================================
