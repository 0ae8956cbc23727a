------------------------------ MODULE MCCommand ------------------------------
(* Instances of Command: fingerprints of two digits.                       *)
EXTENDS Command, TLC

MCFingerprints == {<<"a", "a">>, <<"a", "b">>}
MCOrphans == {<<"a">>}

MCInvocations ==
  [op: ByReference, ref: {<< >>, <<"a">>, <<"a", "b">>}] \cup [op: {"gc", "list", "health"}, ref: {<< >>}]

\* One command among two versions of the server, or two that change a group
\* and the server they began with.
Begun == {c \in Commands : client[c].pc # "idle"}
OneCommandOrOneEra ==
  \/ Cardinality(Begun) <= 1
  \/ /\ \A c \in Commands : client[c].op \in {"resolve", "silence", "unsilence"} /\ client[c].cause # "usage"
     /\ server.era = 0 /\ server.api = 1 /\ server.list /\ ~expired

Symmetry == Permutations(Commands)
=============================================================================
