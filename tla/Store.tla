-------------------------------- MODULE Store --------------------------------
(***************************************************************************)
(* The error groups and occurrences of internal/adapter/out/sqlite/        *)
(* store.go, and the transactions that change them.                        *)
(*                                                                         *)
(* SQLite runs in WAL mode behind a pool of two connections.  A Begin() is *)
(* deferred: the first SELECT pins a snapshot, the first write asks for    *)
(* the write lock.  That upgrade fails at once, busy_timeout               *)
(* notwithstanding, when another connection holds the lock or has          *)
(* committed since the snapshot (SQLITE_BUSY, SQLITE_BUSY_SNAPSHOT); the   *)
(* code retries neither.  Single-statement writes wait for the lock.       *)
(*                                                                         *)
(* StoreEvent, AutoResolve and Resolve read the wall clock BEFORE Begin,   *)
(* so transactions need not commit in the order of their timestamps.       *)
(*                                                                         *)
(* A row is reduced to what its lifecycle depends on: its status (no row,  *)
(* resolved_at NULL, resolved_at set), last_seen, count, and whether       *)
(* notified_at is set.                                                     *)
(***************************************************************************)
EXTENDS Integers, FiniteSets

CONSTANTS
  Fingerprints,   \* error groups that may appear
  Handlers,       \* HTTP handler goroutines
  Maintenance,    \* the housekeeping goroutine
  None,           \* "no fingerprint"
  PoolSize,       \* SetMaxOpenConns
  ResolveAfter,   \* --resolve-after, in clock units
  MaxTime,        \* bound: the clock stops here
  MaxLag,         \* environment: longest time from reading the clock to commit
  MaxCount        \* bound: no new event for a group counted this often

ASSUME StoreAssumption ==
  /\ Maintenance \notin Handlers
  /\ None \notin Fingerprints
  /\ PoolSize \in Nat \ {0}
  /\ ResolveAfter \in Nat
  /\ MaxTime \in Nat
  /\ MaxLag \in Nat
  /\ MaxCount \in Nat

Callers == Handlers \cup {Maintenance}
Statuses == {"absent", "open", "resolved"}

VARIABLES
  clock,        \* wall clock, in RFC3339 seconds
  errors,       \* the errors table, as last committed
  occurrences,  \* timestamps of the retained occurrence rows, per group
  tx,           \* what each caller's Store call is doing
  told          \* history: what callers were told about each group

vars == <<clock, errors, occurrences, tx, told>>

Row == [status: Statuses, lastSeen: Nat, notified: BOOLEAN, count: Nat]
NoRow == [status |-> "absent", lastSeen |-> 0, notified |-> FALSE, count |-> 0]

\* pc: "called" has read the clock, "read" holds a snapshot and a connection,
\* "write" holds the write lock as well and has its changes staged.
Tx == [op: {"none", "StoreEvent", "Resolve", "AutoResolve"},
       pc: {"idle", "called", "read", "write"},
       fp: Fingerprints \cup {None},
       now: Nat,
       was: Statuses,                 \* StoreEvent: what its SELECT found
       list: SUBSET Fingerprints,     \* resolvers: what their SELECT listed
       stale: BOOLEAN]                \* someone committed after the snapshot
Idle == [op |-> "none", pc |-> "idle", fp |-> None, now |-> 0,
         was |-> "absent", list |-> {}, stale |-> FALSE]

\* new, regression, announced: results returned to callers.  resolved counts
\* the changes from open to resolved, latest is the newest timestamp stored.
Told == [new: Nat, regression: Nat, resolved: Nat, announced: Nat, latest: Nat]

TypeOK ==
  /\ clock \in Nat
  /\ errors \in [Fingerprints -> Row]
  /\ occurrences \in [Fingerprints -> SUBSET Nat]
  /\ tx \in [Callers -> Tx]
  /\ \A c \in Callers : tx[c].op \in {"StoreEvent", "Resolve"} => tx[c].fp # None
  /\ told \in [Fingerprints -> Told]

Init ==
  /\ clock = 0
  /\ errors = [f \in Fingerprints |-> NoRow]
  /\ occurrences = [f \in Fingerprints |-> {}]
  /\ tx = [c \in Callers |-> Idle]
  /\ told = [f \in Fingerprints |->
       [new |-> 0, regression |-> 0, resolved |-> 0, announced |-> 0, latest |-> 0]]
-----------------------------------------------------------------------------
(* Connections, snapshots and the write lock.                              *)

Connected == {c \in Callers : tx[c].pc \in {"read", "write"}}
FreeConnection == Cardinality(Connected) < PoolSize
WriteLockFree == \A c \in Callers : tx[c].pc # "write"

\* A commit that changed pages leaves every other open snapshot behind.
Outdated(t) == IF t.pc = "read" THEN [t EXCEPT !.stale = TRUE] ELSE t
Finish(c) == tx' = [tx EXCEPT ![c] = Idle]
FinishAndOutdate(c) ==
  tx' = [d \in Callers |-> IF d = c THEN Idle ELSE Outdated(tx[d])]

\* The part of an operation before Begin().
Call(c, op, f) ==
  /\ tx[c].pc = "idle"
  /\ tx' = [tx EXCEPT ![c] =
              [Idle EXCEPT !.op = op, !.pc = "called", !.fp = f, !.now = clock]]
  /\ UNCHANGED <<clock, errors, occurrences, told>>

\* Begin() and the first SELECT, which pins the snapshot.
Select(c, op, was, list) ==
  /\ tx[c].pc = "called" /\ tx[c].op = op
  /\ FreeConnection
  /\ tx' = [tx EXCEPT ![c] =
              [@ EXCEPT !.pc = "read", !.was = was, !.list = list]]
  /\ UNCHANGED <<clock, errors, occurrences, told>>

\* Mutant: an upgrade that does not notice that its snapshot is outdated.
UpgradeOutdated(c) ==
  /\ tx[c].pc = "read"
  /\ WriteLockFree
  /\ tx[c].op = "Resolve" => tx[c].list # {}
  /\ tx' = [tx EXCEPT ![c] = [@ EXCEPT !.pc = "write"]]
  /\ UNCHANGED <<clock, errors, occurrences, told>>

\* The first write takes the lock, on a snapshot that is still current.
\* The statements up to Commit are private to the transaction.
Upgrade(c) ==
  /\ tx[c].pc = "read"
  /\ ~tx[c].stale
  /\ WriteLockFree
  /\ tx[c].op = "Resolve" => tx[c].list # {}
  /\ tx' = [tx EXCEPT ![c] = [@ EXCEPT !.pc = "write"]]
  /\ UNCHANGED <<clock, errors, occurrences, told>>

\* A statement or the upgrade failed: deferred Rollback, the error goes up.
Abort(c) ==
  /\ tx[c].pc # "idle"
  /\ Finish(c)
  /\ UNCHANGED <<clock, errors, occurrences, told>>
-----------------------------------------------------------------------------
(* StoreEvent                                                              *)

StoreEventCall(c, f) ==
  /\ errors[f].count < MaxCount
  /\ Call(c, "StoreEvent", f)

StoreEventSelect(c) ==
  Select(c, "StoreEvent", errors[tx[c].fp].status, {})

\* Mutant: ON CONFLICT forgets last_seen.
UpsertedOldLastSeen(r, now) ==
  [status |-> "open", lastSeen |-> IF r.count = 0 THEN now ELSE r.lastSeen,
   notified |-> r.notified, count |-> r.count + 1]

\* The upsert, as it looks once committed.
Upserted(r, now) ==
  [status |-> "open", lastSeen |-> now, notified |-> r.notified, count |-> r.count + 1]

\* The StoreResult: isNew without a row, isRegression with a resolved one.
Stored(h, was, now) ==
  [h EXCEPT !.new = IF was = "absent" THEN @ + 1 ELSE @,
            !.regression = IF was = "resolved" THEN @ + 1 ELSE @,
            !.latest = IF @ < now THEN now ELSE @]

StoreEventCommit(c) ==
  LET f == tx[c].fp
      now == tx[c].now
  IN /\ tx[c].pc = "write" /\ tx[c].op = "StoreEvent"
     /\ errors' = [errors EXCEPT ![f] = Upserted(@, now)]
     /\ occurrences' = [occurrences EXCEPT ![f] = @ \cup {now}]
     /\ told' = [told EXCEPT ![f] = Stored(@, tx[c].was, now)]
     /\ FinishAndOutdate(c)
     /\ UNCHANGED clock
-----------------------------------------------------------------------------
(* Resolve and AutoResolve                                                 *)

\* The resolver marks S resolved and its result lists L.
MarkResolved(S, L) ==
  /\ errors' = [f \in Fingerprints |->
       IF f \in S THEN [errors[f] EXCEPT !.status = "resolved"] ELSE errors[f]]
  /\ told' = [f \in Fingerprints |->
       [told[f] EXCEPT !.resolved = IF f \in S THEN @ + 1 ELSE @,
                       !.announced = IF f \in L THEN @ + 1 ELSE @]]
  /\ UNCHANGED <<clock, occurrences>>

\* The service looked the fingerprint up by prefix, so the row exists.
ResolveCall(c, f) ==
  /\ errors[f].status # "absent"
  /\ Call(c, "Resolve", f)

ResolveSelect(c) ==
  Select(c, "Resolve", "absent", {f \in {tx[c].fp} : errors[f].status = "open"})

\* Nothing to resolve: commit the read and report Matched 0.
ResolveNothing(c) ==
  /\ tx[c].pc = "read" /\ tx[c].op = "Resolve"
  /\ tx[c].list = {}
  /\ Finish(c)
  /\ UNCHANGED <<clock, errors, occurrences, told>>

ResolveCommit(c) ==
  /\ tx[c].pc = "write" /\ tx[c].op = "Resolve"
  /\ MarkResolved({f \in {tx[c].fp} : errors[f].status = "open"}, tx[c].list)
  /\ FinishAndOutdate(c)

\* Mutant: the age of the group is not looked at.
UnseenAny(now) == {f \in Fingerprints : errors[f].status = "open"}

\* Open groups not seen since now - ResolveAfter.
Unseen(now) == {f \in Fingerprints : /\ errors[f].status = "open"
                                     /\ errors[f].lastSeen < now - ResolveAfter}

AutoResolveCall(c) == Call(c, "AutoResolve", None)

\* Mutant: the list is not restricted to notified groups.
AutoResolveSelectAll(c) ==
  Select(c, "AutoResolve", "absent", Unseen(tx[c].now))

AutoResolveSelect(c) ==
  Select(c, "AutoResolve", "absent",
         {f \in Unseen(tx[c].now) : errors[f].notified})

\* An UPDATE that matches no row writes no page: no snapshot falls behind.
AutoResolveCommit(c) ==
  LET S == Unseen(tx[c].now)
  IN /\ tx[c].pc = "write" /\ tx[c].op = "AutoResolve"
     /\ MarkResolved(S, tx[c].list)
     /\ IF S = {} THEN Finish(c) ELSE FinishAndOutdate(c)
-----------------------------------------------------------------------------
(* Single-statement writes                                                 *)

Statement == FreeConnection /\ WriteLockFree
OutdateAll == tx' = [c \in Callers |-> Outdated(tx[c])]

\* Called after a mail about a stored event, so the row exists.
MarkNotified(f) ==
  /\ Statement
  /\ errors[f].status # "absent"
  /\ errors' = [errors EXCEPT ![f] = [@ EXCEPT !.notified = TRUE]]
  /\ OutdateAll
  /\ UNCHANGED <<clock, occurrences, told>>

GCOccurrences(before) ==
  LET kept == [f \in Fingerprints |-> {t \in occurrences[f] : t >= before}]
  IN /\ Statement
     /\ kept # occurrences
     /\ occurrences' = kept
     /\ OutdateAll
     /\ UNCHANGED <<clock, errors, told>>
-----------------------------------------------------------------------------
\* Time passes, but no call is left running for longer than MaxLag.
Tick ==
  /\ clock < MaxTime
  /\ \A c \in Callers : tx[c].pc # "idle" => clock < tx[c].now + MaxLag
  /\ clock' = clock + 1
  /\ UNCHANGED <<errors, occurrences, tx, told>>

StoreEvent(c) == StoreEventSelect(c) \/ StoreEventCommit(c)
Resolve(c) == ResolveSelect(c) \/ ResolveNothing(c) \/ ResolveCommit(c)
AutoResolve(c) == AutoResolveSelect(c) \/ AutoResolveCommit(c)

Next ==
  \/ \E c \in Handlers, f \in Fingerprints :
       StoreEventCall(c, f) \/ ResolveCall(c, f)
  \/ AutoResolveCall(Maintenance)
  \/ \E c \in Callers :
       StoreEvent(c) \/ Resolve(c) \/ AutoResolve(c) \/ Upgrade(c) \/ Abort(c)
  \/ \E f \in Fingerprints : MarkNotified(f)
  \/ \E t \in 0 .. MaxTime + 1 : GCOccurrences(t)
  \/ Tick

Spec == Init /\ [][Next]_vars
-----------------------------------------------------------------------------
(* Properties                                                              *)

\* Only one transaction is between its first write and its commit.
OneWriter ==
  \A c, d \in Callers : tx[c].pc = "write" /\ tx[d].pc = "write" => c = d

\* A transaction that may still commit decides on what the database contains:
\* the status StoreEvent found and the groups a resolver listed are those it
\* is about to change.  (store.go: SELECT and UPDATE of StoreEvent, AutoResolve
\* and Resolve share one deferred transaction.)
MayCommit(t) == t.pc = "write" \/ (t.pc = "read" /\ ~t.stale)
SawTheTruth(t) ==
  /\ t.op = "StoreEvent" => t.was = errors[t.fp].status
  /\ t.op = "Resolve" => t.list = {f \in {t.fp} : errors[f].status = "open"}
  /\ t.op = "AutoResolve" => t.list = {f \in Unseen(t.now) : errors[f].notified}
CommitsSeeTheTruth == \A c \in Callers : MayCommit(tx[c]) => SawTheTruth(tx[c])

\* However many handlers store the same group at once, exactly one is told
\* that it is new, and each return from resolved to open is told as a
\* regression exactly once.  (store.go StoreEvent: IsNew, IsRegression.)
EachChangeToldOnce ==
  \A f \in Fingerprints :
    /\ told[f].new = IF errors[f].status = "absent" THEN 0 ELSE 1
    /\ told[f].resolved =
         told[f].regression + (IF errors[f].status = "resolved" THEN 1 ELSE 0)

\* No resolution is announced twice: concurrent resolvers of one group, manual
\* or automatic, never both return it.  (store.go Resolve, AutoResolve.)
AnnouncedWasResolved ==
  \A f \in Fingerprints : told[f].announced <= told[f].resolved

\* last_seen may step back, but never trails the newest stored event by more
\* than one call lasts.  (store.go StoreEvent: now is read before Begin.)
LastSeenTrails ==
  \A f \in Fingerprints : told[f].latest <= errors[f].lastSeen + MaxLag

\* Housekeeping never resolves a group that had an event within the last
\* ResolveAfter seconds, give or take the time one call lasts, not even when
\* events and housekeeping overlap.  (store.go AutoResolve: cutoff.)
NoFreshAutoResolve ==
  [][\A f \in Fingerprints :
       (/\ tx[Maintenance].pc = "write" /\ tx[Maintenance].op = "AutoResolve"
        /\ errors[f].status = "open" /\ errors'[f].status = "resolved")
       => told[f].latest < tx[Maintenance].now - ResolveAfter + MaxLag]_vars

\* The store is the atomic lifecycle: every commit is one of its steps, seen
\* through the committed rows and the results callers got.
L == INSTANCE Lifecycle WITH
       status <- [f \in Fingerprints |-> errors[f].status],
       notified <- [f \in Fingerprints |-> errors[f].notified],
       news <- [f \in Fingerprints |-> told[f].new],
       regressions <- [f \in Fingerprints |-> told[f].regression],
       announced <- [f \in Fingerprints |-> told[f].announced]
ImplementsLifecycle == L!Spec

\* docs/reference/http-api.md says of last_seen: "Time of the latest stored
\* occurrence."  Refuted: a StoreEvent that read the clock first may commit last.
LastSeenIsLatestOccurrence ==
  \A f \in Fingerprints : \A t \in occurrences[f] : t <= errors[f].lastSeen
=============================================================================
