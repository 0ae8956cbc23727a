------------------------------ MODULE Lifecycle ------------------------------
(***************************************************************************)
(* What drillip promises about one error group: it is created once, it     *)
(* alternates between open and resolved, and every such change is          *)
(* announced to exactly one caller.  StoreEvent announces "new" or         *)
(* "regression", Resolve and AutoResolve return the groups they resolved.  *)
(*                                                                         *)
(* Each operation is one atomic step here.  Store.tla splits it into the   *)
(* statements of a SQLite transaction and implements this module.          *)
(***************************************************************************)
EXTENDS Naturals

CONSTANT Fingerprints

VARIABLES
  status,       \* "absent", "open" or "resolved", per fingerprint
  notified,     \* the user was mailed about this group at least once
  news,         \* how many callers were told that the group is new
  regressions,  \* how many were told that it came back
  announced     \* how many resolved lists named it

vars == <<status, notified, news, regressions, announced>>

Statuses == {"absent", "open", "resolved"}

Init ==
  /\ status = [f \in Fingerprints |-> "absent"]
  /\ notified = [f \in Fingerprints |-> FALSE]
  /\ news = [f \in Fingerprints |-> 0]
  /\ regressions = [f \in Fingerprints |-> 0]
  /\ announced = [f \in Fingerprints |-> 0]

\* An event arrives for a group nobody has seen: the caller hears "new".
Create(f) ==
  /\ status[f] = "absent"
  /\ status' = [status EXCEPT ![f] = "open"]
  /\ news' = [news EXCEPT ![f] = @ + 1]
  /\ UNCHANGED <<notified, regressions, announced>>

\* An event arrives for a resolved group: the caller hears "regression".
Reopen(f) ==
  /\ status[f] = "resolved"
  /\ status' = [status EXCEPT ![f] = "open"]
  /\ regressions' = [regressions EXCEPT ![f] = @ + 1]
  /\ UNCHANGED <<notified, news, announced>>

\* The operator resolves an open group and is told so.
Resolve(f) ==
  /\ status[f] = "open"
  /\ status' = [status EXCEPT ![f] = "resolved"]
  /\ announced' = [announced EXCEPT ![f] = @ + 1]
  /\ UNCHANGED <<notified, news, regressions>>

\* Housekeeping resolves some open groups; its list names those of them the
\* user has been mailed about.
AutoResolve(S) ==
  /\ S # {}
  /\ \A f \in S : status[f] = "open"
  /\ status' = [f \in Fingerprints |->
                  IF f \in S THEN "resolved" ELSE status[f]]
  /\ announced' = [f \in Fingerprints |->
                     IF f \in S /\ notified[f] THEN announced[f] + 1
                                               ELSE announced[f]]
  /\ UNCHANGED <<notified, news, regressions>>

\* A mail about the group went out and the database records it.
Notify(f) ==
  /\ status[f] # "absent"
  /\ notified' = [notified EXCEPT ![f] = TRUE]
  /\ UNCHANGED <<status, news, regressions, announced>>

Next ==
  \/ \E f \in Fingerprints : Create(f) \/ Reopen(f) \/ Resolve(f) \/ Notify(f)
  \/ \E S \in SUBSET Fingerprints : AutoResolve(S)

Spec == Init /\ [][Next]_vars
=============================================================================
