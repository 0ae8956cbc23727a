------------------------------- MODULE MCStore -------------------------------
(* Instances of Store for TLC: handlers and groups are interchangeable.      *)
EXTENDS Store, TLC

Symmetry == Permutations(Handlers) \cup Permutations(Fingerprints)

\* One group among two handlers, or two groups with one handler at a time and
\* fewer events.
Concerned ==
  {f \in Fingerprints : errors[f].status # "absent" \/ \E c \in Callers : tx[c].fp = f}
OneGroupOrOneHandler ==
  \/ Cardinality(Concerned) <= 1
  \/ /\ Cardinality({c \in Handlers : tx[c].pc # "idle"}) <= 1
     /\ \A f \in Fingerprints : errors[f].count <= 1
     /\ clock <= 2
=============================================================================
