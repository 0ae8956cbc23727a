------------------------------- MODULE Backup -------------------------------
(***************************************************************************)
(* `drillip backup`: Store.Backup (internal/adapter/out/sqlite/backup.go), *)
(* its HTTP handler (internal/adapter/in/api/backup.go), the client that   *)
(* downloads the copy (internal/adapter/out/httpclient/backup.go) and the  *)
(* command that saves it (internal/adapter/in/cli/backup.go).              *)
(*                                                                         *)
(* Time is counted in commits: `version` is both the state of the live     *)
(* database and what a clock shows.  A copy is the sequence of its pages,  *)
(* a page the version it shows, or Bad if it was damaged on its way in a   *)
(* manner that PRAGMA quick_check notices.                                 *)
(*                                                                         *)
(* Every step may fail, be cancelled or meet its deadline; server and      *)
(* command may be killed.                                                  *)
(***************************************************************************)
EXTENDS Naturals, Sequences, FiniteSets

CONSTANTS
  Requests,     \* backup commands, each run once
  Connections,  \* SetMaxOpenConns
  PageCount,
  None, Bad, Foreign,
  MaxVersion    \* bound: the live database is committed to so often

Versions == 0 .. MaxVersion
Page == Versions \cup {Bad}

\* A database file: its pages and the two history keys that matter.
File == [pages: Seq(Page), stamp: Versions \cup {None}, generated: Versions \cup {None}]
NoFile == [pages |-> << >>, stamp |-> None, generated |-> None]

\* A copy under the output's name, and the command that saved it.
Copy == [by: Requests, file: File, durable: BOOLEAN]

ASSUME BackupAssumption ==
  /\ Connections \in Nat \ {0} /\ PageCount \in Nat \ {0} /\ MaxVersion \in Nat
  /\ None \notin Nat /\ Bad \notin Nat /\ Foreign \notin Nat
  /\ None # Bad /\ None # Foreign /\ Bad # Foreign
  /\ None \notin Copy /\ Foreign \notin Copy

VARIABLES
  version,
  generated,  \* last_backup_generated_at of the live database
  inUse,      \* pool connections other callers hold
  gate,       \* how many slots of backupGate (capacity 1) are taken
  dirs,       \* whose temporary directory exists
  stray,      \* those whose removal failed or was prevented by a kill
  job,        \* the server's work for each command
  client,     \* the command itself
  temps,      \* whose temporary file next to the output exists
  output      \* the file under the output's name

server == <<generated, inUse, gate, dirs, stray, job>>
command == <<client, temps, output>>
vars == <<version, server, command>>

Job == [pc: {"idle", "requested", "admitted", "pinned", "copying", "copied",
             "stamped", "checked", "open", "closed"},
        pinned: Versions \cup {None},  \* the WAL snapshot of its read transaction
        clock: Versions \cup {None},   \* snapshotAt
        file: File]
NoJob == [pc |-> "idle", pinned |-> None, clock |-> None, file |-> NoFile]

\* since (history): the version when the command began.
Client == [pc: {"idle", "waiting", "received", "synced", "ended"},
           since: Versions, got: File, saved: BOOLEAN]

TypeOK ==
  /\ version \in Versions /\ generated \in Versions \cup {None}
  /\ inUse \in 0 .. Connections
  /\ gate \in 0 .. 1
  /\ dirs \subseteq Requests /\ stray \subseteq dirs /\ temps \subseteq Requests
  /\ job \in [Requests -> Job]
  /\ client \in [Requests -> Client]
  /\ output \in {None, Foreign} \cup Copy

Init ==
  /\ version = 0 /\ generated = None
  /\ inUse = 0 /\ gate = 0 /\ dirs = {} /\ stray = {}
  /\ job = [r \in Requests |-> NoJob]
  /\ client = [r \in Requests |-> [pc |-> "idle", since |-> 0, got |-> NoFile, saved |-> FALSE]]
  /\ temps = {} /\ output = None
-----------------------------------------------------------------------------
(* Other callers of the database                                           *)

Pinning == {r \in Requests : job[r].pc \in {"pinned", "copying"}}
FreeConnection == inUse + Cardinality(Pinning) < Connections

Connect ==
  /\ FreeConnection
  /\ inUse' = inUse + 1
  /\ UNCHANGED <<version, generated, gate, dirs, stray, job, command>>

Disconnect ==
  /\ inUse > 0
  /\ inUse' = inUse - 1
  /\ version' \in {version, version + 1} \cap Versions
  /\ UNCHANGED <<generated, gate, dirs, stray, job, command>>
-----------------------------------------------------------------------------
(* Store.Backup and HandleBackup                                           *)

Goto(r, pc) == job' = [job EXCEPT ![r].pc = pc]

\* Mutant: a failure before the copy is complete keeps the slot.
CleanUpKeepsSlot(r) ==
  /\ UNCHANGED gate
  /\ dirs' = dirs \ {r} /\ stray' = stray
  /\ job' = [job EXCEPT ![r] = [NoJob EXCEPT !.pc = "closed"]]

\* Deferred clean-up, and databaseBackup.Close: the directory goes, unless its
\* removal fails, and the slot is given back.
CleanUp(r) ==
  /\ gate = 1 /\ gate' = 0
  /\ \/ dirs' = dirs \ {r} /\ stray' = stray
     \/ dirs' = dirs /\ stray' = stray \cup {r}
  /\ job' = [job EXCEPT ![r] = [NoJob EXCEPT !.pc = "closed"]]

\* The slot is taken, or else the call is refused at once (busy); without a
\* directory the slot is given back.
Admit(r) ==
  /\ job[r].pc = "requested"
  /\ \/ gate = 0 /\ gate' = 1 /\ dirs' = dirs \cup {r} /\ Goto(r, "admitted")
     \/ UNCHANGED <<gate, dirs>> /\ Goto(r, "closed")
  /\ UNCHANGED <<version, generated, inUse, stray, command>>

\* A read transaction and its first SELECT.
Pin(r) ==
  /\ job[r].pc = "admitted" /\ FreeConnection
  /\ job' = [job EXCEPT ![r].pc = "pinned", ![r].pinned = version,
                        ![r].file.generated = generated]
  /\ UNCHANGED <<version, generated, inUse, gate, dirs, stray, command>>

ReadClock(r) ==
  /\ job[r].pc = "pinned"
  /\ job' = [job EXCEPT ![r].pc = "copying", ![r].clock = version]
  /\ UNCHANGED <<version, generated, inUse, gate, dirs, stray, command>>

\* Mutant: the copy reads the live database, as one without a pinned snapshot.
ShownLive(r) == version

Shown(r) == job[r].pinned

\* One batch of pages; a busy batch is tried again.
CopyStep(r) ==
  LET pages == job[r].file.pages
  IN /\ job[r].pc = "copying"
     /\ \/ Len(pages) < PageCount
           /\ \E page \in {Shown(r), Bad} : job' = [job EXCEPT ![r].file.pages = Append(@, page)]
        \/ Len(pages) = PageCount /\ Goto(r, "copied")
     /\ UNCHANGED <<version, generated, inUse, gate, dirs, stray, command>>

Stamped(file, t) == [file EXCEPT !.stamp = t, !.generated = None]

StampSnapshot(r) ==
  /\ job[r].pc = "copied"
  /\ job' = [job EXCEPT ![r].pc = "stamped", ![r].file = Stamped(@, job[r].clock)]
  /\ UNCHANGED <<version, generated, inUse, gate, dirs, stray, command>>

CheckBackup(r) ==
  /\ job[r].pc = "stamped"
  /\ \A i \in 1 .. PageCount : job[r].file.pages[i] # Bad
  /\ Goto(r, "checked")
  /\ UNCHANGED <<version, generated, inUse, gate, dirs, stray, command>>

\* The live database learns of the backup; then Backup returns the open file.
Record(r) ==
  /\ job[r].pc = "checked" /\ FreeConnection
  /\ generated' = version /\ Goto(r, "open")
  /\ UNCHANGED <<version, inUse, gate, dirs, stray, command>>

\* Any step fails, or the minute is over, or the client has gone away.
Fail(r) ==
  /\ job[r].pc \in {"admitted", "pinned", "copying", "copied", "stamped", "checked"}
  /\ CleanUp(r)
  /\ UNCHANGED <<version, generated, inUse, command>>

Work(r) ==
  \/ Admit(r) \/ Pin(r) \/ ReadClock(r) \/ CopyStep(r)
  \/ StampSnapshot(r) \/ CheckBackup(r) \/ Record(r) \/ Fail(r)

\* The server is killed and started again: directories stay where they are.
Restart ==
  /\ gate' = 0 /\ stray' = dirs /\ inUse' = 0
  /\ job' = [r \in Requests |-> IF job[r].pc = "idle" THEN NoJob ELSE [NoJob EXCEPT !.pc = "closed"]]
  /\ UNCHANGED <<version, generated, dirs, command>>
-----------------------------------------------------------------------------
(* The command                                                             *)

\* The output's name is free: create a temporary file beside it and ask.
Start(r) ==
  /\ client[r].pc = "idle"
  /\ IF output = None
     THEN /\ client' = [client EXCEPT ![r].pc = "waiting", ![r].since = version]
          /\ temps' = temps \cup {r}
          /\ Goto(r, "requested")
     ELSE /\ client' = [client EXCEPT ![r].pc = "ended"]
          /\ UNCHANGED <<temps, job>>
  /\ UNCHANGED <<version, generated, inUse, gate, dirs, stray, output>>

\* written = backup.Size()
Whole(file) == Len(file.pages) = PageCount

End(r, saved) ==
  /\ client' = [client EXCEPT ![r] = [@ EXCEPT !.pc = "ended", !.got = NoFile, !.saved = saved]]
  /\ temps' = temps \ {r}

\* The body ends, complete or not: one side broke off or met its deadline.
\* The handler closes the backup either way; the command may be gone already.
StreamEnds(r) ==
  /\ job[r].pc = "open"
  /\ \E n \in 0 .. PageCount :
       LET got == [job[r].file EXCEPT !.pages = SubSeq(@, 1, n)]
       IN IF client[r].pc # "waiting" THEN UNCHANGED <<client, temps>>
          ELSE IF Whole(got)
          THEN /\ client' = [client EXCEPT ![r].pc = "received", ![r].got = got]
               /\ UNCHANGED temps
          ELSE End(r, FALSE)
  /\ CleanUp(r)
  /\ UNCHANGED <<version, generated, inUse, output>>

Sync(r) ==
  /\ client[r].pc = "received"
  /\ client' = [client EXCEPT ![r].pc = "synced"]
  /\ UNCHANGED <<version, server, temps, output>>

\* Mutant: the temporary file is renamed over the output.
Renamed(r) == TRUE

\* link(2) refuses an existing name.
LinkAllowed(r) == output = None

Ready(r) == client[r].pc = "synced"

Publish(r) ==
  /\ Ready(r)
  /\ IF LinkAllowed(r)
     THEN /\ output' = [by |-> r, file |-> client[r].got, durable |-> client[r].pc = "synced"]
          /\ End(r, TRUE)
     ELSE output' = output /\ End(r, FALSE)
  /\ UNCHANGED <<version, server>>

\* Refused (busy), answered with an error, timed out or interrupted.
GiveUp(r) ==
  /\ client[r].pc \in {"waiting", "received", "synced"}
  /\ End(r, FALSE)
  /\ UNCHANGED <<version, server, output>>

\* The command is killed and its temporary file stays.
Kill(r) ==
  /\ client[r].pc \in {"waiting", "received", "synced"}
  /\ client' = [client EXCEPT ![r] = [@ EXCEPT !.pc = "ended", !.got = NoFile]]
  /\ UNCHANGED <<version, server, temps, output>>

\* Another program creates a file of that name.
Create ==
  /\ output = None /\ output' = Foreign
  /\ UNCHANGED <<version, server, client, temps>>
-----------------------------------------------------------------------------
Run(r) == Start(r) \/ Sync(r) \/ Publish(r) \/ GiveUp(r) \/ Kill(r)

Next ==
  \/ Connect \/ Disconnect \/ Restart \/ Create
  \/ \E r \in Requests : Work(r) \/ StreamEnds(r) \/ Run(r)

Spec == Init /\ [][Next]_vars

\* Every context has a deadline and the download a write deadline, so the work
\* for a request and its download end, if only by Fail or by breaking off.
Fairness == \A r \in Requests : WF_vars(Work(r)) /\ WF_vars(StreamEnds(r))

FairSpec == Spec /\ Fairness
-----------------------------------------------------------------------------
Holding == {r \in Requests : job[r].pc \notin {"idle", "requested", "closed"}}

\* The slot is taken exactly while one request is being worked on or downloaded,
\* and temporary directories exist for that request only, unless their removal
\* failed or the server was killed: failing steps, cancellation and slow
\* downloads leak neither (backup.go:31-42, 161-167).  So backups pin at most one
\* of the pool's connections, however slowly a copy proceeds (store.go:35).
SlotMatchesWork ==
  /\ TypeOK
  /\ gate = Cardinality(Holding)
  /\ dirs = Holding \cup stray
  /\ Cardinality(Pinning) <= 1

\* The pages of one database state
OneState(file) == Whole(file) /\ \A i, j \in 1 .. PageCount : file.pages[i] = file.pages[j]

\* What a command received in full is the undamaged database of one instant,
\* which is neither older than the command nor later than the time stamped on
\* it; and it carries none of the history of the database it was taken from.
ReceivedIsSnapshot ==
  \A r \in Requests :
    client[r].pc \in {"received", "synced"} =>
      LET got == client[r].got
      IN /\ OneState(got) /\ got.pages[1] # Bad
         /\ client[r].since <= got.pages[1] /\ got.pages[1] <= got.stamp
         /\ got.generated = None

\* A backup that is handed out is no newer than the live database's record of it
\* (backup.go:68).
RecordNotOlder ==
  \A r \in Requests : job[r].pc = "open" => generated # None /\ generated >= job[r].clock

\* A saved backup is complete, on disk, and the one its command reports.
SavedIsWhole ==
  /\ output \notin {None, Foreign} =>
       output.durable /\ OneState(output.file) /\ client[output.by].saved
  /\ \A r \in Requests : client[r].saved => output \notin {None, Foreign} /\ output.by = r

\* What `drillip backup` leaves behind, under a name that was free, is one instant
\* of the database: through pages copied one by one while others commit, a
\* download that may break off, and a publication that may come too late.
SavedIsSnapshot == ReceivedIsSnapshot /\ RecordNotOlder /\ SavedIsWhole

\* How far each command is in Snapshot, and what it has captured.
Phase ==
  [r \in Requests |->
     IF client[r].pc \in {"idle", "ended"} THEN client[r].pc
     ELSE IF client[r].got.pages # << >> \/ job[r].pinned # None THEN "captured"
     ELSE IF job[r].pc = "closed" THEN "lost" ELSE "asked"]

Taken ==
  [r \in Requests |->
     IF Phase[r] # "captured" THEN None
     ELSE IF client[r].got.pages # << >> THEN client[r].got.pages[1] ELSE job[r].pinned]

SavedVersion == IF output \in {None, Foreign} THEN output ELSE output.file.pages[1]

Abstract == INSTANCE Snapshot WITH phase <- Phase, taken <- Taken, output <- SavedVersion

\* A backup command is one atomic snapshot of the database.
ImplementsSnapshot == Abstract!Spec

\* The slot is always given back, so that the next backup can run.
SlotFreed == gate = 1 ~> gate = 0
=============================================================================
