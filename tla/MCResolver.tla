----------------------------- MODULE MCResolver ------------------------------
(* Model-checking instance of Resolver.                                    *)
EXTENDS Resolver, SequencesExt

\* Host names of one to three labels of one to three characters.
a   == <<97>>
bcd == <<98, 99, 100>>
Labels   == UNION {[1 .. n -> {a, bcd}] : n \in 1 .. 3}
Text(ls) == FlattenSeq([n \in DOMAIN ls |-> IF n = 1 THEN ls[n] ELSE <<Dot>> \o ls[n]])

UpTo3Labels == {Text(ls) : ls \in Labels}
OneLabel    == bcd

\* The definition of a name in a message, label by label, and the one that goes
\* from byte to byte agree.
ASSUME WireIsLabels ==
  \A ls \in Labels : Wire(Text(ls)) = FlattenSeq([n \in DOMAIN ls |-> <<Len(ls[n])>> \o ls[n]])
=============================================================================
