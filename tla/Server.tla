------------------------------- MODULE Server -------------------------------
(***************************************************************************)
(* The drillip process: HTTP handlers (internal/application/service/       *)
(* errors.go), housekeeping (maintenance.go), the mailer's deliveries and  *)
(* the shutdown sequence of internal/bootstrap/server.go, on one database. *)
(*                                                                         *)
(* Database operations are the atomic steps of Lifecycle, which Store      *)
(* implements; the mailer is Mailer, which Notifier implements.  Any       *)
(* database write may fail instead (SQLITE_BUSY); a read of an open        *)
(* database succeeds.                                                      *)
(*                                                                         *)
(* The process may be killed at any moment and started again: committed    *)
(* rows survive, requests, housekeeping and notifications do not.  SMTP is *)
(* configured; without it there is no mailer to shut down.                 *)
(***************************************************************************)
EXTENDS Naturals

CONSTANTS
  Fingerprints,
  Handlers,
  None,
  MaxOwed,     \* bound of Mailer
  MaxChanges,  \* bound: changes of one group told as new or regression
  MaxTime      \* bound: the clock stops here

ASSUME ServerAssumption ==
  /\ None \notin Fingerprints
  /\ MaxOwed \in Nat
  /\ MaxChanges \in Nat
  /\ MaxTime \in Nat

VARIABLES
  status, notified, news, regressions, announced,   \* the errors table: Lifecycle
  owed, mailed, marked, mailer,                     \* the mailer: Mailer
  clock,
  silences,   \* the silences table: the expiry times of each group's rows
  request,    \* what each handler is doing
  chores,     \* what the housekeeping goroutine is doing
  server,     \* where runServe is
  overstayed, \* srv.Close was called: the grace period had expired
  summarised  \* history: groups named by summaries of automatic resolutions

Life == INSTANCE Lifecycle
Mail == INSTANCE Mailer

rows == <<status, notified, news, regressions, announced>>
post == <<owed, mailed, marked, mailer>>
process == <<request, chores, server, overstayed>>
vars == <<rows, post, clock, silences, process, summarised>>

Forever == MaxTime + 1   \* expires_at NULL
Expiries == 1 .. Forever

\* pc: "accepted" by the HTTP server, "stored" an event that is new or a
\* regression, found it not silenced ("unsilenced"), or "idle".
\* muted (history): a silence has covered the group since the request arrived.
Request == [pc: {"idle", "accepted", "stored", "unsilenced"},
            fp: Fingerprints \cup {None},
            muted: BOOLEAN]
NoRequest == [pc |-> "idle", fp |-> None, muted |-> FALSE]

\* A round of housekeeping: autoResolve, its mail about list, pruneSilences.
Chores == [pc: {"waiting", "resolved", "pruning", "gone"}, list: SUBSET Fingerprints]

TypeOK ==
  /\ status \in [Fingerprints -> Life!Statuses]
  /\ notified \in [Fingerprints -> BOOLEAN]
  /\ owed \in [Fingerprints -> 0 .. MaxOwed]
  /\ mailed \subseteq Fingerprints /\ marked \subseteq Fingerprints
  /\ mailer \in {"open", "closing", "closed"}
  /\ clock \in 0 .. MaxTime
  /\ silences \in [Fingerprints -> SUBSET Expiries]
  /\ request \in [Handlers -> Request]
  /\ \A h \in Handlers : request[h].pc # "idle" => request[h].fp # None
  /\ chores \in Chores
  /\ chores.pc = "resolved" <=> chores.list # {}
  /\ server \in {"serving", "draining", "stopping", "closing", "down"}
  /\ overstayed \in BOOLEAN
  /\ summarised \subseteq Fingerprints

Init ==
  /\ Life!Init /\ Mail!Init
  /\ clock = 0
  /\ silences = [f \in Fingerprints |-> {}]
  /\ request = [h \in Handlers |-> NoRequest]
  /\ chores = [pc |-> "waiting", list |-> {}]
  /\ server = "serving" /\ overstayed = FALSE
  /\ summarised = {}
-----------------------------------------------------------------------------
DatabaseOpen == server # "down"
Active(h) == request[h].pc # "idle"
Finish(h) == request' = [request EXCEPT ![h] = NoRequest]
Goto(h, pc) == request' = [request EXCEPT ![h].pc = pc]

\* expires_at IS NULL OR expires_at > now
InForce(table, now) == {f \in Fingerprints : \E e \in table[f] : e > now}
Covered(f) == f \in InForce(silences, clock)
\* The requests reqs once silences' and clock' hold.
KeepMuted(reqs) ==
  request' = [h \in Handlers |->
                [reqs[h] EXCEPT !.muted = @ /\ reqs[h].fp \in InForce(silences', clock')]]

\* Mutant: the last second of a silence does not count.
IsSilencedEarly(f) == DatabaseOpen /\ \E e \in silences[f] : e > clock + 1

\* A query that fails, as it does once the database is closed, means "no".
IsSilenced(f) == DatabaseOpen /\ Covered(f)
-----------------------------------------------------------------------------
(* Handlers                                                                *)

Accept(h, f) ==
  /\ server = "serving" /\ ~Active(h)
  /\ request' = [request EXCEPT ![h] = [pc |-> "accepted", fp |-> f, muted |-> Covered(f)]]
  /\ UNCHANGED <<rows, post, clock, silences, chores, server, overstayed, summarised>>

\* Ingest: store the event, then carry on only if it was new or a regression.
StoreEvent(h) ==
  LET f == request[h].fp
  IN /\ request[h].pc = "accepted" /\ DatabaseOpen
     /\ \/ /\ news[f] + regressions[f] < MaxChanges
           /\ Life!Create(f) \/ Life!Reopen(f)
           /\ Goto(h, "stored")
        \/ status[f] = "open" /\ UNCHANGED rows /\ Finish(h)
     /\ UNCHANGED <<post, clock, silences, chores, server, overstayed, summarised>>

CheckSilence(h) ==
  /\ request[h].pc = "stored"
  /\ IF IsSilenced(request[h].fp) THEN Finish(h) ELSE Goto(h, "unsilenced")
  /\ UNCHANGED <<rows, post, clock, silences, chores, server, overstayed, summarised>>

\* A mailer that is throttling or closed drops the notification.
NotifyNewError(h) ==
  /\ request[h].pc = "unsilenced"
  /\ Mail!LetThrough(request[h].fp) \/ UNCHANGED post
  /\ Finish(h)
  /\ UNCHANGED <<rows, clock, silences, chores, server, overstayed, summarised>>

\* A manual resolution.  Its mail marks nothing and is left out.
Resolve(h) ==
  /\ request[h].pc = "accepted" /\ DatabaseOpen
  /\ Life!Resolve(request[h].fp)
  /\ Finish(h)
  /\ UNCHANGED <<post, clock, silences, chores, server, overstayed, summarised>>

\* Only an existing group can be silenced, until any instant, even a past one.
Silence(h) ==
  LET f == request[h].fp
  IN /\ request[h].pc = "accepted" /\ DatabaseOpen
     /\ status[f] # "absent"
     /\ \E e \in Expiries : silences' = [silences EXCEPT ![f] = @ \cup {e}]
     /\ Finish(h)
     /\ UNCHANGED <<rows, post, clock, chores, server, overstayed, summarised>>

\* All silences of the group go, for the requests under way too.
Unsilence(h) ==
  LET f == request[h].fp
  IN /\ request[h].pc = "accepted" /\ DatabaseOpen
     /\ status[f] # "absent"
     /\ silences' = [silences EXCEPT ![f] = {}]
     /\ UNCHANGED <<rows, post, clock, chores, server, overstayed, summarised>>
     /\ KeepMuted([request EXCEPT ![h] = NoRequest])

\* The request was invalid, not found, read only, or a statement failed.
Fail(h) ==
  /\ request[h].pc = "accepted"
  /\ Finish(h)
  /\ UNCHANGED <<rows, post, clock, silences, chores, server, overstayed, summarised>>

Handle(h) ==
  \/ \E f \in Fingerprints : Accept(h, f)
  \/ StoreEvent(h) \/ CheckSilence(h) \/ NotifyNewError(h)
  \/ Resolve(h) \/ Silence(h) \/ Unsilence(h) \/ Fail(h)
-----------------------------------------------------------------------------
(* Housekeeping                                                            *)

\* Mutant: the mail names every group that was resolved.
ListedAll(S) == S

Listed(S) == {f \in S : notified[f]}

AfterResolve(list) == IF list = {} THEN "pruning" ELSE "resolved"

\* The hour has come, even during a shutdown: select may take either channel.
\* An error and nothing to resolve both lead straight to pruning.
AutoResolve ==
  /\ chores.pc = "waiting"
  /\ \/ \E S \in SUBSET Fingerprints :
          /\ Life!AutoResolve(S)
          /\ chores' = [pc |-> AfterResolve(Listed(S)), list |-> Listed(S)]
     \/ UNCHANGED rows /\ chores' = [pc |-> "pruning", list |-> {}]
  /\ UNCHANGED <<post, clock, silences, request, server, overstayed, summarised>>

MailSummary ==
  /\ chores.pc = "resolved"
  /\ summarised' = IF mailer = "open" THEN summarised \cup chores.list ELSE summarised
  /\ chores' = [pc |-> "pruning", list |-> {}]
  /\ UNCHANGED <<rows, post, clock, silences, request, server, overstayed>>

\* Mutant: the comparison is the wrong way round.
ExpiredInverted(f) == {e \in silences[f] : e > clock}

\* expires_at IS NOT NULL AND expires_at < now
Expired(f) == {e \in silences[f] : e < clock}

\* Garbage collection of occurrences, the third task, touches nothing here.
PruneSilences ==
  /\ chores.pc = "pruning"
  /\ \/ silences' = [f \in Fingerprints |-> silences[f] \ Expired(f)]
     \/ UNCHANGED silences
  /\ chores' = [chores EXCEPT !.pc = "waiting"]
  /\ UNCHANGED <<rows, post, clock, server, overstayed, summarised>>
  /\ KeepMuted(request)

ChoresStop ==
  /\ chores.pc = "waiting" /\ server # "serving"
  /\ chores' = [chores EXCEPT !.pc = "gone"]
  /\ UNCHANGED <<rows, post, clock, silences, request, server, overstayed, summarised>>

Housekeeping == AutoResolve \/ MailSummary \/ PruneSilences \/ ChoresStop
-----------------------------------------------------------------------------
(* Deliveries: the mailer's goroutines                                     *)

Attempt ==
  /\ \E S \in SUBSET Fingerprints : Mail!Attempt(S)
  /\ UNCHANGED <<rows, clock, silences, process, summarised>>

\* The callback writes to the database; a failure is logged and forgotten.
MarkNotified ==
  /\ \E f \in Fingerprints : Mail!Mark(f) /\ (Life!Notify(f) \/ UNCHANGED rows)
  /\ UNCHANGED <<clock, silences, process, summarised>>

Deliver == Attempt \/ MarkNotified
-----------------------------------------------------------------------------
(* Shutdown: serveHTTP, then the deferred calls of runServe                *)

\* SIGINT or SIGTERM, or Serve failed.
Signal ==
  /\ server = "serving"
  /\ server' = "draining"
  /\ UNCHANGED <<rows, post, clock, silences, request, chores, overstayed, summarised>>

Drained ==
  /\ server = "draining"
  /\ \A h \in Handlers : ~Active(h)
  /\ server' = "stopping"
  /\ UNCHANGED <<rows, post, clock, silences, request, chores, overstayed, summarised>>

\* Ten seconds have passed: connections are dropped, their handlers run on.
GraceOver ==
  /\ server = "draining"
  /\ server' = "stopping" /\ overstayed' = TRUE
  /\ UNCHANGED <<rows, post, clock, silences, request, chores, summarised>>

\* Mutant: maintenance is cancelled but not waited for.
CloseMailerAtOnce ==
  /\ server = "stopping"
  /\ Mail!Close
  /\ server' = "closing"
  /\ UNCHANGED <<rows, clock, silences, request, chores, overstayed, summarised>>

\* Maintenance is joined, then the mailer's Close begins and, once it has
\* settled everything, returns.
CloseMailer ==
  /\ server = "stopping"
  /\ chores.pc = "gone"
  /\ Mail!Close
  /\ server' = "closing"
  /\ UNCHANGED <<rows, clock, silences, request, chores, overstayed, summarised>>

MailerClosed ==
  /\ server = "closing"
  /\ Mail!CloseReturns
  /\ UNCHANGED <<rows, clock, silences, process, summarised>>

\* Mutant: the database is closed without waiting for the mailer.
CloseDatabaseFirst ==
  /\ server = "closing"
  /\ server' = "down"
  /\ UNCHANGED <<rows, post, clock, silences, request, chores, overstayed, summarised>>

\* Mutant: the database is closed only when every handler has returned.
CloseDatabaseIdle ==
  /\ server = "closing" /\ mailer = "closed"
  /\ \A h \in Handlers : ~Active(h)
  /\ server' = "down"
  /\ UNCHANGED <<rows, post, clock, silences, request, chores, overstayed, summarised>>

CloseDatabase ==
  /\ server = "closing" /\ mailer = "closed"
  /\ server' = "down"
  /\ UNCHANGED <<rows, post, clock, silences, request, chores, overstayed, summarised>>

\* The process exits or is killed, and is started again.
Restart ==
  /\ request' = [h \in Handlers |-> NoRequest]
  /\ chores' = [pc |-> "waiting", list |-> {}]
  /\ server' = "serving" /\ overstayed' = FALSE
  /\ owed' = [f \in Fingerprints |-> 0]
  /\ mailer' = "open"
  /\ UNCHANGED <<rows, mailed, marked, clock, silences, summarised>>

Tick ==
  /\ clock < MaxTime
  /\ clock' = clock + 1
  /\ UNCHANGED <<rows, post, silences, chores, server, overstayed, summarised>>
  /\ KeepMuted(request)

Shutdown == Drained \/ GraceOver \/ CloseMailer \/ MailerClosed \/ CloseDatabase

Next ==
  \/ \E h \in Handlers : Handle(h)
  \/ Housekeeping \/ Deliver
  \/ Signal \/ Shutdown \/ Restart \/ Tick

Spec == Init /\ [][Next]_vars

\* An attempt is bounded and so are retries (Notifier: NotificationsSettle), so
\* deliveries make progress while something is owed; the main goroutine and a
\* round of housekeeping are never blocked for ever; and select is fair between
\* the ticker and the cancelled context, even if the hour strikes every time.
\* Nothing is assumed of handlers: one may never return.
FairSpec ==
  /\ Spec
  /\ WF_vars(Deliver /\ owed' # owed)
  /\ WF_vars(Housekeeping) /\ SF_vars(ChoresStop)
  /\ WF_vars(Shutdown)
-----------------------------------------------------------------------------
(* Properties                                                              *)

\* A summary of automatic resolutions names only groups the user was mailed
\* about before, across restarts and failed writes.  (AutoResolve's list,
\* MarkNotified as the mailer's callback.)
SummariesNameTheHeardOf == summarised \subseteq mailed

\* When the database is closed, housekeeping has returned and no delivery or
\* callback is left that would want it.  (runServe's deferred calls.)
DatabaseClosesLast ==
  ~DatabaseOpen => /\ chores.pc = "gone"
                   /\ \A f \in Fingerprints : owed[f] = 0

\* The mailer turns a notification away for good only if its sender outstayed
\* the grace period: housekeeping and every request that the HTTP server waited
\* for are over when Close begins.  (serveHTTP, runServe.)
DropsOnlyOverstayed ==
  mailer # "open" => /\ chores.pc = "gone"
                     /\ overstayed \/ \A h \in Handlers : ~Active(h)

\* A group that is silenced all the time a request takes is not mailed because
\* of it: either the silence is seen, or the database is closed already and
\* then so is the mailer.  (Ingest, IsSilenced's treatment of errors.)
SilencedNotLetThrough ==
  \A h \in Handlers :
    request[h].pc = "unsilenced" /\ request[h].muted => mailer # "open"

\* A silence in force ends when it expires or by a request about its group:
\* neither pruning nor a restart lifts it.  (PruneExpiredSilences, IsSilenced.)
SilencesEndOnlyOnRequest ==
  [][\A f \in Fingerprints :
       Covered(f) /\ f \notin InForce(silences', clock) =>
         \E h \in Handlers : request[h].fp = f /\ request'[h].pc = "idle"]_vars

\* A shutdown ends, even if a handler never returns; or the process is killed.
ShutdownCompletes == server = "draining" ~> server \in {"down", "serving"}

\* docs/reference/configuration.md: "Silencing a fingerprint suppresses
\* new-error and regression emails".  It is consulted before the mail is
\* buffered or begun, not when it goes out.
SilencingSuppressesMails == [][\A f \in mailed' \ mailed : ~Covered(f)]_vars
=============================================================================
