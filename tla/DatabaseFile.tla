---------------------------- MODULE DatabaseFile ----------------------------
(***************************************************************************)
(* How a database file comes into being: Restore                           *)
(* (internal/adapter/out/sqlite/restore.go) publishes a checked backup     *)
(* under a new name; Open (store.go, metadata.go) creates or upgrades the  *)
(* file of that name, statement by statement.                              *)
(*                                                                         *)
(* Several restores and several servers may use the name at once, each may *)
(* be killed between any two steps, and the file a restore reads may       *)
(* change under it.                                                        *)
(***************************************************************************)
EXTENDS Naturals, Sequences, FiniteSets

CONSTANTS
  Restorers,  \* restore commands, each run once, all to one destination
  Servers,    \* processes that open the destination
  Inputs,     \* what the input of a restore may be
  None,
  MaxMishaps  \* bound: kills of servers and statements failing for busy locks

Tables == {"errors", "occurrences", "silences"}
Columns == {"level", "tags", "resolved_at", "notified_at"}

\* The history keys of drillip_metadata: each None or what it dates.
\* restored: which restore wrote last_restored_at.
History == [snapshot: {None, "then", "garbled"}, generated: {None, "then"},
            restored: {None, "then"} \cup Restorers, ofSnapshot: {None, "then"}]
NoHistory == [snapshot |-> None, generated |-> None, restored |-> None, ofSnapshot |-> None]

\* A file as SQLite sees it; tables: those that exist with their base columns.
Content == [sound: BOOLEAN, tables: SUBSET Tables, columns: SUBSET Columns,
            format: {"none", "1", "2"}, history: History]
Empty == [sound |-> TRUE, tables |-> {}, columns |-> {}, format |-> "none", history |-> NoHistory]

\* The destination, and who created it.
Destination == [file: Content, by: Restorers \cup Servers, durable: BOOLEAN]

ASSUME DatabaseFileAssumption ==
  /\ Inputs \subseteq Content
  /\ Restorers \cap Servers = {}
  /\ None \notin Restorers \cup {"then", "garbled"} /\ "then" \notin Restorers
  /\ None \notin Destination
  /\ MaxMishaps \in Nat

\* Mutant: one migration is missing.
ScriptShort == <<"format", "errors", "idx_level", "occurrences", "silences",
                 "level", "tags", "resolved_at", "metadata">>

\* What Open executes.
Script == <<"format", "errors", "idx_level", "occurrences", "silences",
            "level", "tags", "resolved_at", "notified_at", "metadata">>

VARIABLES
  input,      \* the backup file
  restorer,
  leftovers,  \* stage files of restores that have ended
  dest,       \* the destination: None, or its content and who created it
  sidecar,    \* destination-wal (or -shm, -journal) exists
  opener,     \* the servers
  mishaps

restoring == <<restorer, leftovers>>
opening == <<opener, mishaps>>
vars == <<input, restoring, dest, sidecar, opening>>

\* snapshot: the date verifyRestore found in the stage.
Restorer == [pc: {"idle", "checked", "staged", "verified", "prepared", "dated", "synced",
                  "published", "failing", "ok", "failed", "killed"},
             stage: Content, snapshot: {None, "then"}]
Opener == [pc: {"closed", "opening", "open", "refused"},
           step: 1 .. Len(Script), missing: BOOLEAN]

TypeOK ==
  /\ input \in Inputs
  /\ restorer \in [Restorers -> Restorer]
  /\ leftovers \subseteq Restorers
  /\ dest = None \/ dest \in Destination
  /\ sidecar \in BOOLEAN
  /\ opener \in [Servers -> Opener]
  /\ mishaps \in 0 .. MaxMishaps

\* The destination's main file may have been deleted without its -wal.
Init ==
  /\ input \in Inputs
  /\ restorer = [r \in Restorers |-> [pc |-> "idle", stage |-> Empty, snapshot |-> None]]
  /\ leftovers = {}
  /\ dest = None /\ sidecar \in BOOLEAN
  /\ opener = [o \in Servers |-> [pc |-> "closed", step |-> 1, missing |-> FALSE]]
  /\ mishaps = 0

\* checkBackupFormat: no format is that of an older build.
KnownFormat(file) == file.sound /\ file.format \in {"none", "1"}
-----------------------------------------------------------------------------
(* Restore                                                                 *)

Goto(r, pc) == restorer' = [restorer EXCEPT ![r].pc = pc]

DestinationFree == dest = None /\ ~sidecar

\* The name is free and the input is a regular file without sidecars, or refused.
CheckPaths(r) ==
  /\ restorer[r].pc = "idle"
  /\ \/ DestinationFree /\ Goto(r, "checked")
     \/ Goto(r, "failed")
  /\ UNCHANGED <<input, leftovers, dest, sidecar, opening>>

\* The copy of an input that changes meanwhile may be anything.
Stage(r) ==
  /\ restorer[r].pc = "checked"
  /\ \E file \in Inputs :
       restorer' = [restorer EXCEPT ![r].pc = "staged", ![r].stage = file]
  /\ UNCHANGED <<input, leftovers, dest, sidecar, opening>>

\* The input changes; that matters only while it is read.
Rewrite ==
  /\ input' \in Inputs \ {input}
  /\ \E r \in Restorers : restorer[r].pc \in {"checked", "staged"}
  /\ UNCHANGED <<restoring, dest, sidecar, opening>>

\* Integrity, tables with their base columns, format and date.
Restorable(file) ==
  /\ KnownFormat(file)
  /\ file.tables = Tables
  /\ file.history.snapshot # "garbled"

\* Mutant: the input is verified, not the copy.
CheckedInput(r) == input

Checked(r) == restorer[r].stage

Verify(r) ==
  /\ restorer[r].pc = "staged" /\ Restorable(Checked(r))
  /\ restorer' = [restorer EXCEPT ![r].pc = "verified", ![r].snapshot = Checked(r).history.snapshot]
  /\ UNCHANGED <<input, leftovers, dest, sidecar, opening>>

\* metadataSchema: the table and a format, if there is none.
WithMetadata(file) == [file EXCEPT !.format = IF @ = "none" THEN "1" ELSE @]

\* Journal mode DELETE, then the metadata table, outside the transaction.
Prepare(r) ==
  /\ restorer[r].pc = "verified"
  /\ restorer' = [restorer EXCEPT ![r].pc = "prepared", ![r].stage = WithMetadata(@)]
  /\ UNCHANGED <<input, leftovers, dest, sidecar, opening>>

\* One transaction: the old history goes, the new one comes.
Date(r) ==
  /\ restorer[r].pc = "prepared"
  /\ restorer' = [restorer EXCEPT ![r].pc = "dated",
       ![r].stage = [@ EXCEPT !.history =
          [NoHistory EXCEPT !.restored = r, !.ofSnapshot = restorer[r].snapshot]]]
  /\ UNCHANGED <<input, leftovers, dest, sidecar, opening>>

Sync(r) ==
  /\ restorer[r].pc = "dated" /\ Goto(r, "synced")
  /\ UNCHANGED <<input, leftovers, dest, sidecar, opening>>

\* Mutant: the stage is renamed over the destination.
LinkAllowedAlways == TRUE

\* link(2) refuses an existing name.
LinkAllowed == dest = None

PublishFails(r) == Goto(r, "failing") /\ UNCHANGED dest

Publish(r) ==
  /\ restorer[r].pc = "synced"
  /\ IF LinkAllowed
     THEN /\ dest' = [file |-> restorer[r].stage, by |-> r, durable |-> TRUE]
          /\ Goto(r, "published")
     ELSE PublishFails(r)
  /\ UNCHANGED <<input, leftovers, sidecar, opening>>

\* Deferred: the stage and its sidecars go.  If that fails, so does Restore.
Return(r) ==
  /\ restorer[r].pc \in {"published", "failing"}
  /\ \/ /\ Goto(r, IF restorer[r].pc = "published" THEN "ok" ELSE "failed")
        /\ UNCHANGED leftovers
     \/ Goto(r, "failed") /\ leftovers' = leftovers \cup {r}
  /\ UNCHANGED <<input, dest, sidecar, opening>>

Staging(r) == restorer[r].pc \in {"checked", "staged", "verified", "prepared", "dated", "synced"}

\* Any step fails, the check does, or the context is cancelled.
Fail(r) ==
  /\ Staging(r) /\ Goto(r, "failing")
  /\ UNCHANGED <<input, leftovers, dest, sidecar, opening>>

Kill(r) ==
  /\ Staging(r) \/ restorer[r].pc \in {"published", "failing"}
  /\ Goto(r, "killed") /\ leftovers' = leftovers \cup {r}
  /\ UNCHANGED <<input, dest, sidecar, opening>>

Run(r) ==
  \/ CheckPaths(r) \/ Stage(r) \/ Verify(r) \/ Prepare(r) \/ Date(r)
  \/ Sync(r) \/ Publish(r) \/ Return(r) \/ Fail(r) \/ Kill(r)
-----------------------------------------------------------------------------
(* Open, migrateDB, Close                                                  *)

\* SQLite creates the file on first use.
OpenFile(o) ==
  /\ opener[o].pc \in {"closed", "refused"}
  /\ opener' = [opener EXCEPT ![o] = [pc |-> "opening", step |-> 1, missing |-> FALSE]]
  /\ dest' = IF dest = None THEN [file |-> Empty, by |-> o, durable |-> TRUE] ELSE dest
  /\ UNCHANGED <<input, restoring, sidecar, mishaps>>

\* CREATE TABLE lists these; the other columns are added by migrations only.
NewColumns(t) == CASE t = "errors" -> {"level"} [] t = "occurrences" -> {"tags"} [] OTHER -> {}

\* Can statement s be executed on the file?
Executable(file, s) ==
  /\ s = "format" => KnownFormat(file)
  /\ s = "idx_level" => "level" \in file.columns
  /\ s \in Columns => s \notin file.columns

Executed(file, s) ==
  CASE s \in Tables \ file.tables -> [file EXCEPT !.tables = @ \cup {s}, !.columns = @ \cup NewColumns(s)]
    [] s \in Columns -> [file EXCEPT !.columns = @ \cup {s}]
    [] s = "metadata" -> WithMetadata(file)
    [] OTHER -> file

Statement(o) == Script[opener[o].step]

Advance(o) ==
  [opener EXCEPT ![o].missing = FALSE,
                 ![o].pc = IF opener[o].step = Len(Script) THEN "open" ELSE @,
                 ![o].step = IF @ = Len(Script) THEN @ ELSE @ + 1]

\* Mutant: migrations do not look for the column.
MissingAlways(o) == TRUE

Missing(o) == Statement(o) \notin dest.file.columns

\* columnExists: the migration is skipped, or executed next.
ColumnExists(o) ==
  /\ opener[o].pc = "opening" /\ Statement(o) \in Columns /\ ~opener[o].missing
  /\ opener' = IF Missing(o) THEN [opener EXCEPT ![o].missing = TRUE] ELSE Advance(o)
  /\ UNCHANGED <<input, restoring, dest, sidecar, mishaps>>

\* Each statement commits by itself.  The second switches to WAL mode.
Execute(o) ==
  /\ opener[o].pc = "opening"
  /\ Statement(o) \in Columns => opener[o].missing
  /\ IF Executable(dest.file, Statement(o))
     THEN /\ dest' = [dest EXCEPT !.file = Executed(@, Statement(o))]
          /\ sidecar' = (sidecar \/ opener[o].step > 1)
          /\ opener' = Advance(o)
     ELSE /\ opener' = [opener EXCEPT ![o].pc = "refused"]
          /\ UNCHANGED <<dest, sidecar>>
  /\ UNCHANGED <<input, restoring, mishaps>>

\* A statement fails for a busy lock, or the server is killed.
Mishap(o) ==
  /\ opener[o].pc \in {"opening", "open"} /\ mishaps < MaxMishaps
  /\ mishaps' = mishaps + 1
  /\ opener' = [opener EXCEPT ![o].pc = "closed"]
  /\ UNCHANGED <<input, restoring, dest, sidecar>>

\* The last connection to leave removes the -wal.
Close(o) ==
  /\ opener[o].pc = "open"
  /\ opener' = [opener EXCEPT ![o].pc = "closed"]
  /\ sidecar' = (sidecar /\ \E p \in Servers \ {o} : opener[p].pc \in {"opening", "open"})
  /\ UNCHANGED <<input, restoring, dest, mishaps>>

Opening(o) == ColumnExists(o) \/ Execute(o)
-----------------------------------------------------------------------------
Next ==
  \/ Rewrite
  \/ \E r \in Restorers : Run(r)
  \/ \E o \in Servers : OpenFile(o) \/ Opening(o) \/ Mishap(o) \/ Close(o)

Spec == Init /\ [][Next]_vars

\* A supervisor starts the server again whenever it has ended, and Open proceeds.
FairSpec == Spec /\ \A o \in Servers : WF_vars(OpenFile(o)) /\ WF_vars(Opening(o))
-----------------------------------------------------------------------------
Restored == dest # None /\ dest.by \in Restorers

\* What a restore published passed the check as a whole, whatever happened to
\* its input meanwhile, and its history tells of this restore and of the date
\* that was checked, and nothing else (restore.go:65-73, 137-153).
PublishedIsChecked ==
  Restored =>
    /\ Restorable(dest.file)
    /\ dest.file.history =
         [NoHistory EXCEPT !.restored = dest.by, !.ofSnapshot = restorer[dest.by].snapshot]
    /\ dest.durable

\* Restore succeeds only if the destination is its own; it fails with the
\* destination published only if it was killed or could not remove its stage.
OutcomeTold ==
  \A r \in Restorers :
    /\ restorer[r].pc = "ok" => dest # None /\ dest.by = r
    /\ restorer[r].pc = "failed" /\ dest # None /\ dest.by = r => r \in leftovers

\* A restore publishes what it has checked, and says so truly.
RestoreIsSound == TypeOK /\ PublishedIsChecked /\ OutcomeTold

\* An open database has every table and column and a format, whatever file Open
\* found, interrupted upgrades and two servers upgrading at once included.
OpenIsComplete ==
  \A o \in Servers :
    opener[o].pc = "open" =>
      /\ dest.file.sound /\ dest.file.format = "1"
      /\ dest.file.tables = Tables /\ dest.file.columns = Columns

\* A destination is never replaced: whoever creates it, restores and upgrades
\* only add to its tables and columns and leave its history alone; and no
\* restored database appears beside the -wal of another (restore.go:20-26).
NeverReplaced ==
  [][/\ dest # None =>
          /\ dest' # None /\ dest'.by = dest.by
          /\ dest.file.tables \subseteq dest'.file.tables
          /\ dest.file.columns \subseteq dest'.file.columns
          /\ dest'.file.history = dest.file.history
     /\ dest = None /\ Restored' => ~sidecar']_dest

\* Interrupted upgrades are completed: a restored or new database that is of a
\* known format and has the column its index needs is opened eventually.
Upgradable == dest # None /\ KnownFormat(dest.file) /\ "level" \in dest.file.columns
UpgradesComplete == Upgradable ~> \E o \in Servers : opener[o].pc = "open"

\* "Upgrading from older schema versions no longer crashes -- missing columns
\* (level, tags) are auto-migrated on startup" (CHANGELOG.md:235).
MissingColumnsMigrated ==
  \A o \in Servers :
    opener[o].pc = "refused" => ~KnownFormat(dest.file) \/ "level" \in dest.file.columns
=============================================================================
