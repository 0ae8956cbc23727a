# A verification of drillip

drillip is a single-process error tracker: it ingests Sentry-style events over
HTTP, groups them by fingerprint in a SQLite database, mails about new and
returning errors, and resolves groups that have fallen silent. This directory
holds TLA+ models of its stateful parts, TLC configurations that check them on
small instances, and proofs, checked by TLAPS, that hold for every value of the
constants. Paths below are relative to the repository.

## Inventory

| Part | Source | State | Operations |
|---|---|---|---|
| Event store | `internal/adapter/out/sqlite/store.go` | tables `errors`, `occurrences`, `tags`, `silences` | StoreEvent, Resolve, AutoResolve, MarkNotified, GCOccurrences, Silence, Unsilence, IsSilenced, PruneExpiredSilences, FindByPrefix |
| Mailer | `internal/adapter/out/smtp/smtp.go` | cooldown map, time of the last mail, digest buffer and its timer, delivery goroutines, closed flag | NotifyNewError, NotifyResolved, SendTestEmail, flush, send, deliver, Close |
| Mail diagnostics | `internal/adapter/out/smtp/diagnostics.go` | the context and the error of one attempt | classification of a delivery error |
| Error service, ingestion | `internal/application/service/errors.go`, `internal/adapter/in/ingest` | none of its own | Ingest, Resolve, Silence, Unsilence, queries |
| Maintenance | `internal/application/service/maintenance.go` | the position in its hourly round | autoResolve, pruneSilences, gcOccurrences |
| Process lifecycle | `internal/bootstrap` | which part of the shutdown is under way; options and environment | run, loadConfig, runServe, serveHTTP |
| Online backup | `internal/adapter/out/sqlite/backup.go` and the API, CLI and HTTP adapters | a one-slot gate, a pinned read transaction, a temporary directory | Backup |
| Restore, metadata | `internal/adapter/out/sqlite/restore.go`, `metadata.go` | staging file, database history | Restore, Open's migrations |
| Queries and paging | `internal/adapter/out/sqlite/queries.go`, `list.go` | none | lists, details, statistics |
| Correlation | `internal/application/service/correlation.go`, `internal/adapter/out/observability` | a time budget | Correlate |
| HTTP API | `internal/adapter/in/api`, `internal/adapter/httpwire` | none | routing, status codes |
| HTTP client | `internal/adapter/out/httpclient` | none | capability check, calls |
| Command line | `internal/adapter/in/cli` | none | parsing, printing |
| Domain, ports | `internal/domain`, `internal/application/port` | none | event decoding, fingerprints |

How they interact:

* HTTP handlers run concurrently, each its own goroutine. An ingesting handler
  stores its event; if the store says "new" or "regression" it asks the store
  whether the group is silenced and, if not, calls the mailer.
* The mailer answers at once and delivers on goroutines of its own; after a mail
  was accepted it calls back, and the callback writes `notified_at`.
* Maintenance resolves stale groups, mails about those that had been notified,
  prunes silences and old occurrences, on one goroutine.
* The database is shared by all of them through a pool of two connections to
  SQLite in WAL mode. A deferred transaction pins a snapshot at its first SELECT
  and takes the write lock at its first write; that upgrade fails at once if the
  snapshot is outdated.
* A shutdown drains HTTP for ten seconds, joins maintenance, closes the mailer
  (eight seconds to drain, then cancellation, and in either case a join) and
  then closes the database. A kill loses what is in memory.

What is hard, and what makes each part correct:

* *Store.* Transactions of handlers and maintenance interleave between SELECT
  and UPDATE, and read the clock before they begin. Each change of a group must
  be told to exactly one caller; what a transaction commits must agree with what
  it read; a group with a fresh event must not be auto-resolved.
* *Mailer.* The digest timer's goroutine may run late and meet another batch;
  attempts fail, back off and are cancelled while Close waits. Mails must keep
  the cooldown between them, nothing buffered may be forgotten, a group is marked
  only after a mail, and after Close nothing runs.
* *Service and process.* Silences are checked once; handlers may outstay the
  grace period; kills happen anywhere. The database must be closed last, nothing
  may be dropped unless its sender overstayed, silences must hold.
* *Backup, restore.* Every step may fail or be cancelled, and a crash may come
  between two; no existing database may be overwritten, no temporary file or gate
  leaked.
* *Opening a database* is a script of statements that commit one by one; a kill
  or a second server may come between any two, and what Open returns must be
  complete.
* *Commands* cross a network and a server that may be replaced meanwhile: a
  mutation must happen at most once, to the one group its reference names, and
  be reported as it happened.
* *Paging and statistics* read several times without a snapshot while rows
  change: nothing that stays may be skipped, and figures must go together.
* *Correlation* asks four sources under one budget: the stored part must arrive
  in time whatever they do, and a failure must stay its own.
* *A delivery attempt* ends by the server, the network, its deadline or the
  notifier, which race: the diagnosis must not blame without proof, and must warn
  when the mail may have been taken.
* *Retention* computes with durations that wrap and clocks that differ, delay and
  round: nothing may be deleted before its age.
* *Grouping* cuts, strips and chooses before it hashes: equal reports belong
  together, different ones apart.
* *Invocations* take their target from options, environment and defaults, and
  print commands to be run elsewhere.

`PROJECT.json` lists every component and every hazard with the line where it
bites and the properties that watch it.

## Modules

```
Lifecycle     what the store promises about a group, each operation atomic
  ^ implemented by (ImplementsLifecycle, proved)
Store         the same operations as SQLite transactions     StoreProofs
Mailer        what the mailer promises, without timers and goroutines
  ^ implemented by (ImplementsMailer, proved)
Notifier      cooldown, digest, deliveries, shutdown         NotifierProofs
Server        Lifecycle + Mailer + silences + handlers + housekeeping
              + shutdown + restart                           ServerProofs
Snapshot      what a backup promises: one instant of the database, a new file
  ^ implemented by (ImplementsSnapshot, proved)
Backup        gate, pinned copy, stamp, record, download,
              publication                                    BackupProofs
DatabaseFile  Restore and Open on one file name, by several processes
                                                             DatabaseFileProofs
Command       a command, its HTTP client, the server and FindByPrefix
                                                             CommandProofs
Browse        pages of list, statements of GetStats, while events arrive
Correlate     one budget shared by four telemetry sources
Delivery      one SMTP attempt, its diagnosis and the answer about it
Retention     durations, cutoffs, the hourly chore, gc
Reports       envelopes, Sanitize, Fingerprint
Invocation    what an invocation does, and to which server or file
MCQueries     Browse + Correlate + Invocation, one of them per behaviour
                                                             QueriesProofs
MCRequests    Delivery + Retention + Reports, one of them per behaviour
                                                             RequestsProofs
MC*           instances for TLC: constants, inputs, symmetry, constraints
```

The modules of the second group stand by themselves: each needs of the others
only what its own environment actions do (`Ingest` and `AutoResolve` in Command,
`Connect` and `Disconnect` in Backup), and these allow more than the composed
system does.

**Lifecycle.** Per group its status, whether the user was mailed about it, and
how often callers were told "new", "regression" or "resolved".

**Store.** `errors` and `occurrences` are the committed tables; a row is reduced
to the columns that decide its lifecycle. `tx[c]` is the Store call caller `c`
is in: `called` (clock read, before Begin), `read` (snapshot pinned, a connection
taken), `write` (lock taken, changes staged). `XCall`, `XSelect`, `Upgrade`,
`XCommit` are the points where other connections can come between; `Abort` is any
failing statement or a busy upgrade, neither of which is retried. A commit marks
every other snapshot stale. `MarkNotified` and `GCOccurrences` are single
statements and one step each. `told` is history.

**Notifier.** One action per critical section of `n.mu` (`NotifyNewError`,
`NotifyResolved`, `SendTestEmail`, `Flush`, `Close`) and per step of a delivery
goroutine (`BeginAttempt`, its success or failure, `BackoffEnds`, `MarkNext`).
`TimerFires` and `Flush` are separate because `time.AfterFunc` starts a goroutine
that then waits for the mutex. The server may accept a mail whose acknowledgement
is lost (`DeliveryFails`). `DrainTimeout` is the eight-second drain ending;
`CloseReturns` the end of Close's wait. `granted`, `owed`, `mailed`, `marked` and
`lastMail` are history.

**Mailer.** Only `owed`, `mailed`, `marked` and whether the mailer is open.

**Server.** Handlers run `Accept`, then one of `StoreEvent`, `Resolve`,
`Silence`, `Unsilence` or `Fail`; an event that is new or a regression goes on to
`CheckSilence` and `NotifyNewError`, each a step of its own since nothing holds a
lock across them. Housekeeping runs `AutoResolve`, `MailSummary`,
`PruneSilences`. `Signal`, `Drained`/`GraceOver`, `CloseMailer`, `MailerClosed`,
`CloseDatabase` follow serveHTTP and runServe's deferred calls; `Restart` is a
kill, or an exit, followed by a start: rows survive, the rest does not. Database
operations are steps of `Lifecycle` and deliveries steps of `Mailer`, which the
two refinement theorems justify.

**Backup.** Time is counted in commits: `version` is the state of the database
and what a clock shows, so "no older than" is a comparison of numbers. `job[r]` is
Store.Backup and the handler's download for request `r`, `client[r]` the command.
A copy is its sequence of pages, each the version it shows or `Bad`. `Admit` is
the non-blocking send to `backupGate` and MkdirTemp; `Pin` the first SELECT of the
read transaction; `ReadClock`, `CopyStep`, `StampSnapshot`, `CheckBackup`,
`Record` the steps that follow, and `Fail` any of them going wrong. `CleanUp` is
both the deferred clean-up of a failed Backup and databaseBackup.Close.
`StreamEnds` is the end of the download, complete or not. `Publish` is link(2),
which refuses an existing name. `Restart` and `Kill` are the ends nobody handles.
**Snapshot** says what remains of this for a user: the command captures one
version between its start and its end and may leave it under a free name.

**DatabaseFile.** One file name, `dest`, with what a prober of it can tell: sound,
tables, the four columns that migrations add, format, history keys. Restore is
one action per step of restore.go with `Fail` and `Kill` anywhere; the input may
be rewritten while it is copied. Open is a program of statements (`Script`), each
committing by itself; migrations look for their column first, in a step of their
own. `Mishap` is a busy lock or a kill.

**Command.** `client[c]` is the command, `job[c]` the request it has under way and
its handling, `server` the version that runs. Every operation is preceded by the
capability check. The handlers' statements are separate steps (`Lookup`, then
`Resolve`, `Silence`, ...). `Break` loses a request or an answer and leaves the
server at work or not; `Repeat` is net/http's replay of reads; `Replace` kills the
server and starts any version; `Misdirected` is what a server of another version
makes of a call. Fingerprints are sequences of digits and references prefixes.

**Browse.** The listing is recomputed for every page, as the SQL does, and the next
offset counts what was shown. An event may commit with a clock read up to `MaxLag`
earlier, as Store shows. GetStats is four steps, any of which may fail: the error of one
of the first two is returned, that of one of the others is dropped and its time stays
empty (`StatementFails`; `untold` is history). `Listing`, the groups in the order
of the query, is a CHOOSE of the one sequence so ordered rather than a sort: TLAPS
does not look into SortSeq.

**Correlate.** Time passes only while the server works by itself (`MaxLocal` in
all) or waits for a source. `Exhausted` is the state of the enrichment's context:
its budget spent or its caller gone. `Lag` is journalctl's WaitDelay.

**Delivery.** `stage` is the operation of Notifier.deliver under way; each may
succeed, be refused, lose its connection or be broken off. The deadline on the
connection (`late`), the context (`ctx`) and the AfterFunc that closes the
connection (`hungUp`) change one after the other, as they do in the code, and
`Diagnose` reads the context later than the error. `Code` keeps the order of
deliveryError's clauses. Notifier treats an attempt as one step of a goroutine;
Delivery is that step in detail.

**Retention.** Instants are ages that grow with every tick, so that the model is
finite; a tick is a fraction of the second to which timestamps are cut
(`WholeSeconds`). `Wrap` is the arithmetic of time.Duration modulo `Word`. Each
cutoff carries, as history, the age its caller meant.

**Reports.** A body is a sequence of lines, of which the first `fits` lie within the
first 10 MiB, decompressed; of the next one its beginning is read. readBody ends there
without an error, whatever the encoding. Only who reads that far meets an error: a
connection that breaks, a damaged compressed form, or one of more than 10 MiB itself,
which alone makes `http.MaxBytesReader` fail (`Fails`). Strings are sequences where they are cut
or concatenated; `StripCRLF` names the characters kept by their positions, which
TLAPS can reason about as it cannot about SelectSeq. Of a stored row, `Row` has what a
user sees of the group. A message's template is not stored, so messages are compared
by their wording (`SameWordingSameGroup`), with a reservation for those over the limit
(`CutAlike`), which the divergences below explain. The hash is taken to be injective, and its input concatenates
parts without separators, as the code does: two exceptions whose parts concatenate
to the same text do share a group, which is why `OneChangeSeparates` speaks of
one change.

**Invocation.** `Effect` is run's chain of checks as one function of the arguments
and the environment; `hint` the next-page command, which is followed under
another environment.

## Runs

| Run | Instance | What it shows |
|---|---|---|
| `store_one_group` (`MCStore.cfg`) | 1 group among 2 handlers and maintenance, 2 connections, clock 0..3, calls last at most 1, 2 events; or 2 groups with 1 handler at a time, clock 0..2, 1 event each | stale snapshots never commit, changes are told once, `last_seen` trails by at most one call, no fresh auto-resolution, `Store` implements `Lifecycle`; with two groups an AutoResolve touches several rows and lists some |
| `store_last_seen` (`MCStoreLastSeen.cfg`) | 1 group, as the first | a violation: see findings |
| `notifier_immediate` (`MCNotifier.cfg`) | 2 groups, cooldown 2, no digest, 2 attempts, clock 0..5, 3 mails | cooldown, marks only after mails, nothing after Close |
| `notifier_digest` (`MCNotifierDigest.cfg`) | 2 groups, digest 1 < cooldown 2, 2 attempts, clock 0..4, 2 mails | the timer serves exactly the buffered batch, pruning forgets nothing, Close forgets nothing and returns, every notification is settled, `Notifier` implements `Mailer` |
| `server` (`MCServer.cfg`) | 1 group, 2 handlers, clock 0..2, 2 changes told as new or regression, at most 2 notifications owed | the order of the shutdown, who may be dropped, summaries, silences; a shutdown ends even if a handler never does |
| `server_silence` (`MCServerSilence.cfg`) | 1 group, 2 handlers | a violation: see findings |
| `backup` (`MCBackup.cfg`) | 2 commands, 2 connections, 2 pages, 1 commit | slot and directories follow the work and the slot is given back, one connection is pinned, a saved copy is one instant and durable, `Backup` implements `Snapshot`, which replaces no file |
| `database_file` (`MCDatabaseFile.cfg`) | 1 restore, 2 servers, a backup of an older build and a damaged one, 2 mishaps | only what was checked is published, to a free name without a -wal; open databases are complete, and interrupted upgrades are completed |
| `database_file_old` (`MCDatabaseFileOld.cfg`) | 1 restore, 1 server, 8 kinds of input | a violation: see findings |
| `command` (`MCCommand.cfg`) | 1 command of every kind and 2 replacements of the server, or 2 commands that change groups and none; 2 groups that share a prefix, 1 orphaned silence | at most once, told truly, one target, other versions refused |
| `queries` (`MCQueries.cfg`) | Browse: 3 groups, 2 events each, clock 0..2, three queries that differ in order, page size and filter; the store rests once the command has its answer. Correlate: 2 metrics queries, budget 5, deadline 10, WaitDelay 1, 3 of local work. Invocation: 2 servers, 2 addresses of which 1 is the wildcard, 1 file | pages skip nothing and statistics, as far as they are told, go together; the answer is in time, failures stay their own and every correlation ends; named targets are used, clients find their server, the next page stays |
| `requests` (`MCRequests.cfg`) | Delivery: one test mail under every configuration. Retention: 1 occurrence, 4 durations and 3 settings, a second and an hour of 2 ticks, a word of 16, ages to 7, client clocks ahead by 0 or 1, 1 restart. Reports: pairs of 47 bodies, some cut at the limit or broken off; 2 characters, 2 frames and 1 exception are kept | what is told of a failure is true and requests are answered; nothing is deleted before its age and what is past its retention goes; equal reports group together, one change separates, envelopes are read though they are cut |

Several properties are conjunctions whose parts are named and commented in their
modules: `RestoreIsSound`, `OutcomeTold`, `RefusalsAreTrue`, `SavedIsSnapshot`, and
those of the two combined modules (`ReadsAreCoherent`, `AnsweredInFull`,
`TargetsAreMeant`, `AnswerIsTrue`, `GroupsMatchRows`). The type invariant of a module
is part of one of them, or, for Store, Notifier and Server, a theorem (`TypeCorrect`,
`NotifierTypeCorrect`, `ServerTypeCorrect`).

*Combined runs.* The three parts of `queries`, and those of `requests`, share no
variable, so every behaviour of their conjunction is an interleaving of three that
do not influence each other, and a property of one part holds of it if it holds
where the others stand still. The variable `only` says which part moves; the others
keep one initial state, and fairness is asked of the part that moves.

*Constraints.* `OneGroupOrOneHandler` and `OneCommandOrOneEra` join two small
instances into one: what is left out is two groups and two handlers at once, and two
commands with a replacement of the server. Both are state constraints of runs without
liveness properties.

*Why the bounds are enough.* A conflict in the store needs two transactions, and
two connections never admit more; a third handler would only wait. Two events per
group give a new group, a further event and a regression. The clock runs long
enough for a group to become stale (`ResolveAfter` 1) while a call is under way,
for a second digest window, for a silence to begin, expire, stand at the very
instant of its expiry and be pruned. Two attempts exercise first and last attempt
(the code has three, the middle one behaves as the first). Two workers in flight,
plus a third in immediate mode, let deliveries overlap with each other and with
Close. Two changes of a group that are told as new or regression (`MaxChanges`) give
new, resolved, regression and resolved again. What is proved is proved without these
bounds: the theorems below hold for every number of groups, callers, files and time
units.

Two backups compete for one slot, and a third would be refused as the second is;
two pages are the least that can disagree; a commit may come before, during or after
a copy. In DatabaseFile a server may create the name that a restore is about to
publish, as a second restore would, and two servers upgrade one file at once. In
Command two groups that share a first digit give unknown, unique and ambiguous
references; one command meets every other actor, and two meet each other. Two
replacements let a server of another version come and go between the check and the
call. In Correlate time is in seconds and has the code's budget, delay (rounded up) and deadline;
two metrics queries stand for the code's four, since they are asked in no particular
order and each can use up the budget. Three groups and pages of one let a group jump
over a page boundary, be read again and make another wait. Delivery has no bound: an
attempt has finitely many states. In Retention the word is small enough for a
duration to wrap to a shorter one, and a second has two ticks, so that an instant may
be cut. In Reports bodies are cut before their first event, within it, right after it and
behind it, and every limit on strings except that of frames is small enough to be exceeded
by the inputs (an excess of frames is among the divergences below).

`CHECK_DEADLOCK FALSE` is set where a behaviour may really end: in the Notifier, a
mailer that has closed and a clock at its bound; in `queries` and `requests`, the
last answer of a correlation, a delivery or a report, and the last page with the
clock and all counts at their bounds.

*Bounds in guards.* `MaxTime` (clock), `MaxCount` (events per group in Store),
`MaxWorkers` (mails started, Notifier; a batch that could not be due before
`MaxTime` is not begun), `MaxOwed` and `MaxChanges` (Mailer, Server). `MaxLag` in
Store is no bound of the search but an assumption about the environment: a call
commits at most `MaxLag` after it read the clock. Nothing in the code enforces
it; `LastSeenTrails` and `NoFreshAutoResolve` are stated relative to it. In the
other modules: `MaxVersion` (commits, Backup), `MaxMishaps` (DatabaseFile),
`MaxEras` (replacements, Command), `MaxLocal` (Correlate; an assumption as well:
the time the server needs by itself), `MaxTime` and `MaxCount` (Browse), `MaxAge`,
`MaxFlight`, `MaxRestarts`, `Ahead`, `Occurrences` (Retention; `MaxFlight` assumes
how long a request or a deletion waits), `MaxReports` (Reports).

## Fairness

* *Notifier.* Weak fairness of every delivery goroutine's next step (an attempt is
  bounded by its five-second deadline, a backoff by its timer), of the timer and
  of its goroutine, of the drain timeout, of Close's join and of the clock. No
  fairness for callers: nobody has to send anything.
* *Server.* Weak fairness of a delivery that settles something (justified by
  `NotificationsSettle`, checked of the Notifier), of housekeeping's steps (single
  statements and calls that do not block) and of the main goroutine's shutdown
  steps. Strong fairness of `ChoresStop`: the ticker may be ready again each time
  housekeeping selects, and Go's select picks among ready channels at random.
  None for handlers: a handler may hang, which is why the grace period exists.
* *Backup.* Weak fairness of the server's work on a request and of its download:
  Backup runs under a one-minute context and the download under a write deadline,
  so both end, by failing if not otherwise. None for commands.
* *DatabaseFile.* Weak fairness of starting a server and of Open's statements: a
  supervisor restarts the process, and a statement either executes or fails.
* *Correlate.* The server's own steps go on; a source's call ends once its context
  has, because the calls take it (`exec.CommandContext` with a WaitDelay, requests
  with a context). No source has to answer before.
* *Delivery.* Steps of the program itself and the
  expiry of the deadline; the SMTP server may stay silent for ever.
* *Retention.* Time passes, requests are handled. Strong fairness of the chore and
  of its deletion: panics (`runTask` recovers) and failures may come between, but
  not every time.

## Proofs

TLAPS checks every leaf; the backends are Z3, Zenon and LS4.

**StoreProofs.** From `StoreAssumption`.
`SnapshotInv == TypeOK /\ OneWriter /\ CommitsSeeTheTruth` is inductive: a commit
either leaves a snapshot's rows alone or marks the snapshot stale, and only a
transaction that is not stale may upgrade, so what it decided on still holds at
its commit. `CommitsSeeTheTruth` alone is not inductive, since two writers could
invalidate each other; `OneWriter` excludes that. On top of it: `ToldOnce` (a commit
tells what it does, and it does what it read), `LagInv` for the two properties
about time (a running call read the clock at most `MaxLag` ago), and
`StoreImplementsLifecycle`, where a commit maps to one Lifecycle step and
everything else to a stutter.

**NotifierProofs.** From `NotifierAssumption`. `Typed` adds to `TypeOK` that a
worker about to try has an attempt left and a marking worker has something to
mark. `BufferInv` adds to `TimerServesBuffer` what holds after Close and in
immediate mode; `SpacingInv` relates the armed deadline and `lastSent` to the last
mail, from which `MailsAreSpaced` follows for each step that starts one;
`DeliveryInv` says that what a worker still has to mark was in an accepted mail;
`QuietInv` that a Close that returned left no worker.
The ledger: `LedgerInv` says that a group is owed as many notifications as there are
places of it in the buffer and in the mails of the workers. A count over sequences
would need induction over data, so `Places` is a finite set of pairs of a mail and a
position, and one lemma (`ReplacedPlaces`) says how its cardinality changes when one
mail is replaced; letting a notification through, flushing, settling and giving up
are four uses of it. When Close has returned no place is left, which is
`ClosedOwesNothing`. For `NotifierImplementsMailer` each step is mapped: a
notification let through is Mailer's `LetThrough`, the end of an attempt its `Attempt`
(settled, mailed or neither), a marked group its `Mark`, while timers, flushes and
backoffs are stutters;
`RoomInv` bounds what can be owed by the model's own bounds, so that Mailer's bound
`MaxOwed` excludes no step.

**ServerProofs.** From `ServerAssumption`. `OrderInv` ties the phase of the
shutdown to the mailer, housekeeping and handlers, and yields
`DatabaseClosesLast` and `DropsOnlyOverstayed`. `HeardInv` carries "was mailed"
from `notified` through the list housekeeping holds to the summary, over any
number of restarts. `MutedInv` says that a handler muted since it asked is covered
still, and was waved through only by a closed database, at which point, by
`OrderInv`, the mailer is closed too.

**DatabaseFileProofs.** From `DatabaseFileAssumption`. `OpenInv` says that a server at
work has done with the file what its place in the script says, whatever others did to
it meanwhile; it is inductive with the types because a statement only adds
(`ExecutedGrows`, `GrownKeeps`), and at the end of the script it is `OpenIsComplete`.
`RestoreInv` adds `StageInv` (a stage that was verified stays restorable, and is dated
with what was found) and `PublishedInv`: a restored destination belongs to a restore
that changes no more, only that restore may report success, and as long as the
destination is missing no sidecar lies where a restore may yet publish. The last
part makes the check of the name, which is made long before link(2), good for the
moment of publication: a sidecar comes only after the file, and link(2) refuses a file.

**BackupProofs.** From `BackupAssumption`. `BackupInv` adds four parts to `TypeOK`.
`SlotInv`: at most one job holds the slot, and directories left over belong to jobs
that have ended. `JobsInv`: whatever a job has copied is of the state it pinned, which
is not older than its command nor later than the clock it stamps. `ClientsInv`: a
command that received a file has it from a job that ended well. `SavedIsWhole`: so has
what lies under the output's name. None is inductive alone: that the pages agree needs
the pin, which needs the slot's owner to be still at work. The refinement maps the
pin to Snapshot's Capture, a client's commit to its Commit, a refusal, a failure or a
restart to Lose, and the end of a command, with or without the link(2) that publishes,
to End; the pages, stamps and checks between them are stutters.

**CommandProofs.** From `CommandAssumption`. `CommandInv` is `TypeOK` and, for each
command with its request, `Sound`, which is about values and not about states, so that
one lemma (`OneStep`) carries it over to the commands that do not move and to tables
that have taken in more groups. `Place`: where command and request stand, and that
nothing was done before the request was handled. `Aim`: groups never go away, so what
matched at the start matches still, and the one match of a lookup is that one. `Told`
and `Ended`: the answer, and then the report, say what was done. `Current`: a call goes
to the server that was checked or to a later one. The properties are not inductive:
they are about a command that has ended, and need what its answer said on the way.

**QueriesProofs.** From `BrowseAssumption`, `CorrelateAssumption` and
`InvocationAssumption`, for behaviours of MCQueries, each part by an invariant of its
own.
*Correlation:* `TimeInv` accounts for time (the server's own, or between the first
source and the end of the budget plus WaitDelay), `StageInv` for the handler's stages
and what the client knows, `SourcesInv` for each source by its place in the order:
behind, due or ahead. An answer therefore comes before the command's deadline, and a
source is skipped only when the budget is spent or the caller gone.
*Invocations:* `TargetInv` says that a hint on the screen was printed by an invocation
that was not refused; that following it from any other environment leads to the same
server is then a fact about `Effect`.
*Reading:* `WalkInv` and `StatsInv`, which follows the statements of GetStats and what
their failures leave untold. The listing is a sequence ordered by the query,
and the argument is about the group that stands at the next offset: an event can only
move its own group up, which pushes others towards later pages and never over an offset
already passed. The lemmas about orders of a finite set (that one exists, is unique, and
what the front of it contains) are stated once and used for both sorts.

**RequestsProofs.** From `DeliveryAssumption`, `RetentionAssumption` and
`ReportsAssumption`, for behaviours of MCRequests.
*Delivery:* `AttemptInv` adds to the types `ContextInv` (the context and the connection
end only by time or the notifier), `ExchangeInv` (what was sent, and under what
protection, at each operation) and `FailureInv`, the heart of it: an error that waits to
be told has the kind it has because of what happened. The diagnosis reads the context
later than the error, and `AnswerAlwaysTrue` says that its order of clauses is right
nevertheless.
*Retention:* `RetentionInv` says that a cutoff held by a request or by housekeeping is
`Careful`: not later than what its caller meant, if the duration can be represented.
That takes `Ago`, which negates a duration and negates again, modulo any even word, and
that cutting to whole seconds is monotone, so that comparing two cut instants never
deletes what comparing the instants would keep. `ChoreInv` adds that the chore's cutoff is
as old as the retention it understands, and that this is positive, wrapped or not.
*Reports:* `GroupsInv` says that what is stored is what StoreEvent makes of what came,
and that only what is unreadable was refused. The rest is about the operators, for all
strings: sanitizing keeps types and is done before hashing; stripping a stamp commutes
with cutting when both texts are cut alike; a difference in exactly one of four
concatenated parts survives the concatenation, by cancelling the common front and the
common back; the first event item of an envelope lies where the parser looks for it, and
is the same whatever is read beyond the limit (`BodyRead`, `EnvelopeParsed`).

*Assumptions on constants.* They say that bounds and durations are numbers, that `None`
is none of the values it stands beside, and: that a correlation's budget, WaitDelay and
the server's own time stay below the command's deadline (the code has five seconds, a
tenth and ten seconds; how long the server takes by itself is the assumption); that a
server's address makes a well-formed URL (`Invocation`); that the default retention is a positive duration that
does not wrap (`Retention`; 90 days in the code); that lines are of the kinds the parser
tells apart, of which the beginning of a text is no JSON object, and an envelope is made
of a header and two lines per item (`Reports`).

*Only model-checked.* Liveness: `CloseCompletes`, `NotificationsSettle`,
`ShutdownCompletes`, `SlotFreed`, `UpgradesComplete`, `CorrelationEnds`,
`RequestAnswered` and `OldGoes`. TLAPS does not handle fairness through ENABLED. Every
other property of a passing run is a theorem.

## Findings

1. `last_seen` is not always the "Time of the latest stored occurrence"
   (`docs/reference/http-api.md:246`): StoreEvent reads the clock before its
   transaction begins and the upsert overwrites `last_seen`, so of two overlapping
   calls the older reading may commit last. `LastSeenTrails` bounds the error by
   the time one call takes. Run `store_last_seen`.
2. "Silencing a fingerprint suppresses new-error and regression emails"
   (`docs/reference/configuration.md:78`) holds for events ingested after the
   silence. A notification already buffered in the digest, in flight or backing off
   is mailed although the group has been silenced since. Run `server_silence`.

3. "Upgrading from older schema versions no longer crashes" (`CHANGELOG.md:235`)
   fails for an `errors` table without `level`: Open creates an index on the column
   (`store.go:69`) before `migrateDB` adds it, and refuses the database each time.
   Run `database_file_old`.

Further divergences came up while reading the code for the models. The models follow
the code, and no run is about them:

* "Existing silences without a corresponding error can still be deleted by their
  exact stored fingerprint" (`docs/reference/http-api.md:212`): not if that text is
  also a prefix of an error, since Unsilence looks for errors first
  (`errors.go:195`; `Lookup` and `ListSilences` in Command).
* `smtp_tls_failed` is said to mean that "STARTTLS or its TLS session setup failed"
  (`docs/reference/http-api.md:143`), but a handshake refused by the server's alert is
  a `net.OpError` and reported as `smtp_connection_failed` (`diagnostics.go:42`;
  `HandshakeFails` and `Code` in Delivery).
* "Delete occurrences older than the duration" (`docs/reference/cli.md:70`): a
  duration of more than 2^63 ns wraps in ParseDuration (`event.go:272`), and younger
  occurrences go (`Wrap` in Retention). Of such durations `OnlyOldDeleted` says only that
  the hourly chore deletes by a positive one.
* "The request body is limited to 10 MiB; decompressed input is read up to 10 MiB"
  (`docs/reference/http-api.md:26`), and two tests say of an oversized plain body that
  "http.MaxBytesReader causes a 400" (`handler_test.go:424`) and "Should reject with 400
  (MaxBytesReader triggers)" (`security_test.go:200`). readBody's `io.LimitReader` has the
  same limit and ends first (`handler.go:62`): a plain body is cut silently too, and an
  envelope whose first event, or a document that as a whole, lies before the cut is stored
  and answered with 200. The tests pass because their bodies are no JSON (`ReadBody` in
  Reports).
* "`500` for a query failure" of `stats` (`docs/reference/http-api.md:327`) holds for the
  two counts only. The errors of the queries for `first_seen` and `last_seen` are dropped
  (`queries.go:158`), and the answer is a 200 that counts errors and tells no time for them
  (`StatementFails` in Browse; `StatsHang` makes the exception).
* The fingerprint is said to use "the last frame in that exception's stacktrace"
  (`docs/explanation/error-lifecycle.md:30`); Sanitize keeps the first hundred frames
  before it is computed (`event.go:159`; `SanitizedValue` in Reports).
* Log prefixes are stripped so that "identical errors aren't split into separate
  fingerprints" (`domain/fingerprint.go:26`). StoreEvent first cuts a message to 10 000
  bytes, stamp included (`event.go:136`), and strips the stamp from what is left: an
  identical message over the limit, without a stamp or with a longer one, hashes to
  another group. `SameWordingSameGroup` is therefore stated for messages within the limit
  and for those cut at the same place (`CutAlike` in Reports); without that reservation
  TLC finds such a pair among the bodies of `requests`.
* "Events without an exception or message are ignored"
  (`docs/reference/http-api.md:28`), and so are events with a message and an empty
  logentry (`errors.go:38`; `Empty` in Reports).
* `maintenance --db <path>` (`docs/reference/cli.md:26`) is refused as removed
  (`app.go:134`; `Refused` in Invocation).

## Not modelled

* The text of mails and HTML, JSON views, printed tables, logging: layout. The
  checks of single command-line arguments are one boolean (`sound`).
* Tags, breadcrumbs, contexts and occurrence payloads: written in StoreEvent's
  transaction, read by single statements, and no decision modelled depends on them.
* Queries that are one read-only statement (details, trend, releases, top, recent):
  their result is one snapshot of the database, which SQLite guarantees.
* A server without SMTP: there is no mailer, and the properties about it are
  empty; Delivery has the answer to its test mail.
* Health and its CLI: independent probes without state.
* A malformed URL in the environment (Invocation has well-formed ones there and both on
  the command line); of the ways to write the wildcard address Invocation has one.
* In Backup the publication of the file and the command's report of it are one step.
* What telemetry sources return, and how queries to them are written.
* The contents of a database page; SQLite's own recovery; file systems that lose
  a file that was synced.

## Plan

Done: all modules above, and a theorem for every safety property of a passing run.
What is left, in this order:

1. Delivery as a refinement of the attempt in Notifier, which today is related to it
   by this README only.
2. A theorem that the composed server, with Store in place of Lifecycle and Notifier in
   place of Mailer, implements Server.
3. Larger instances where the searches allow it: two restores beside two servers, two
   commands beside a replaced server.
