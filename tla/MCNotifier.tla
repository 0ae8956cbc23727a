----------------------------- MODULE MCNotifier -----------------------------
(* Instances of Notifier for TLC: fingerprints are interchangeable.          *)
EXTENDS Notifier, TLC

Symmetry == Permutations(Fingerprints)
=============================================================================
