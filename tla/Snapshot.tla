------------------------------ MODULE Snapshot ------------------------------
(***************************************************************************)
(* What `drillip backup` promises: the database as it was at one instant   *)
(* between the command and its end, under a name nobody used before.       *)
(*                                                                         *)
(* The database is reduced to the number of commits made to it.            *)
(***************************************************************************)
EXTENDS Naturals

CONSTANTS Requests, None, Foreign, MaxVersion

VARIABLES
  version,  \* commits made to the live database
  phase,    \* how far each command is
  taken,    \* the instant each command has captured
  output    \* None, Foreign, or the version saved under the output's name

vars == <<version, phase, taken, output>>

Init ==
  /\ version = 0
  /\ phase = [r \in Requests |-> "idle"]
  /\ taken = [r \in Requests |-> None]
  /\ output = None

Commit == version < MaxVersion /\ version' = version + 1 /\ UNCHANGED <<phase, taken, output>>

Ask(r) ==
  /\ phase[r] = "idle" /\ output = None
  /\ phase' = [phase EXCEPT ![r] = "asked"]
  /\ UNCHANGED <<version, taken, output>>

Capture(r) ==
  /\ phase[r] = "asked"
  /\ phase' = [phase EXCEPT ![r] = "captured"]
  /\ taken' = [taken EXCEPT ![r] = version]
  /\ UNCHANGED <<version, output>>

\* The server refuses or fails requests, all of them if it stops.
Lose ==
  \E R \in SUBSET {r \in Requests : phase[r] \in {"asked", "captured"}} :
    /\ phase' = [r \in Requests |-> IF r \in R THEN "lost" ELSE phase[r]]
    /\ taken' = [r \in Requests |-> IF r \in R THEN None ELSE taken[r]]
    /\ UNCHANGED <<version, output>>

\* The command ends; if it was the first to write it may leave its copy.
End(r) ==
  /\ phase[r] # "ended"
  /\ phase' = [phase EXCEPT ![r] = "ended"]
  /\ taken' = [taken EXCEPT ![r] = None]
  /\ output' = output \/ (output = None /\ phase[r] = "captured" /\ output' = taken[r])
  /\ UNCHANGED version

\* Somebody else takes the name.
Create == output = None /\ output' = Foreign /\ UNCHANGED <<version, phase, taken>>

Next == Commit \/ Create \/ Lose \/ \E r \in Requests : Ask(r) \/ Capture(r) \/ End(r)

Spec == Init /\ [][Next]_vars
=============================================================================
