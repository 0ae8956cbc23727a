------------------------------ MODULE Notifier ------------------------------
(***************************************************************************)
(* The mailer of internal/adapter/out/smtp/smtp.go: cooldown, digest       *)
(* buffer, delivery goroutines and shutdown.                               *)
(*                                                                         *)
(* n.mu makes NotifyNewError, NotifyResolved, flush and the first half of  *)
(* Close atomic.  Everything else interleaves: the digest timer, whose     *)
(* goroutine may have started but not yet hold n.mu; the delivery          *)
(* goroutines, each at its own attempt; and Close waiting for them.        *)
(*                                                                         *)
(* A mail is the sequence of fingerprints it reports, in buffer order; a   *)
(* resolved or test mail reports none (nothing is marked notified for it). *)
(***************************************************************************)
EXTENDS Integers, Sequences, FiniteSets

CONSTANTS
  Fingerprints,
  Cooldown,    \* DRILLIP_SMTP_COOLDOWN, in clock units; 0 disables it
  Digest,      \* DRILLIP_SMTP_DIGEST; 0 means send immediately
  Attempts,    \* tries per mail (3 in send)
  MaxTime,     \* bound: the clock stops here
  MaxWorkers   \* bound: mails started in one run

ASSUME NotifierAssumption ==
  /\ Cooldown \in Nat
  /\ Digest \in Nat
  /\ Attempts \in Nat \ {0}
  /\ MaxTime \in Nat
  /\ MaxWorkers \in Nat

Never == -1
Time == Nat \cup {Never}
\* time.AfterFunc(max(n.Digest, n.Cooldown), n.flush)
Window == IF Digest < Cooldown THEN Cooldown ELSE Digest

VARIABLES
  clock,
  lastSent,   \* n.lastSent
  recent,     \* n.recent: when each fingerprint was last let through
  pending,    \* n.pending
  timer,      \* deadline of n.timer, or Never
  fired,      \* the timer's goroutine runs flush but does not hold n.mu yet
  workers,    \* every delivery goroutine started, in order
  shutdown,   \* "no", "draining", "cancelled" (n.cancel was called), "done"
  mailed,     \* history: fingerprints of mails the SMTP server accepted
  marked,     \* history: fingerprints passed to onNotified
  granted,    \* history: when each fingerprint was last let through, unpruned
  owed,       \* history: notifications let through and not settled yet
  lastMail    \* history: when the last new-error mail was started

state == <<lastSent, recent, pending, timer, fired, workers, shutdown>>
history == <<mailed, marked, granted, owed, lastMail>>
vars == <<clock, state, history>>

\* phase: "ready" to begin an attempt, "sending", "backoff" between attempts,
\* "marking" its fingerprints one by one, or "done".
Worker == [phase: {"ready", "sending", "backoff", "marking", "done"},
           items: Seq(Fingerprints),
           left: Nat]

TypeOK ==
  /\ clock \in Nat
  /\ lastSent \in Time
  /\ recent \in [Fingerprints -> Time]
  /\ pending \in Seq(Fingerprints)
  /\ timer \in Time
  /\ fired \in BOOLEAN
  /\ workers \in Seq(Worker)
  /\ shutdown \in {"no", "draining", "cancelled", "done"}
  /\ mailed \subseteq Fingerprints
  /\ marked \subseteq Fingerprints
  /\ granted \in [Fingerprints -> Time]
  /\ owed \in [Fingerprints -> Int]
  /\ lastMail \in Time

Init ==
  /\ clock = 0
  /\ lastSent = Never
  /\ recent = [f \in Fingerprints |-> Never]
  /\ pending = <<>>
  /\ timer = Never
  /\ fired = FALSE
  /\ workers = <<>>
  /\ shutdown = "no"
  /\ mailed = {} /\ marked = {}
  /\ granted = [f \in Fingerprints |-> Never]
  /\ owed = [f \in Fingerprints |-> 0]
  /\ lastMail = Never
-----------------------------------------------------------------------------
(* Cooldown                                                                *)

\* Within Cooldown of an earlier time.
Recently(t) == t # Never /\ clock - t < Cooldown

\* Mutant: only the fingerprint's own cooldown counts.
ThrottledEach(f) == Recently(recent[f])

Throttled(f) ==
  \/ Digest = 0 /\ Recently(lastSent)
  \/ Recently(recent[f])

\* Mutant: pruning keeps no other entry.
RememberOnly(f) == [g \in Fingerprints |-> IF g = f THEN clock ELSE Never]

\* Let f through, forgetting entries older than the cooldown.
Remember(f) ==
  [g \in Fingerprints |->
     IF g = f THEN clock
     ELSE IF clock - recent[g] > Cooldown THEN Never ELSE recent[g]]
-----------------------------------------------------------------------------
(* Accepting work.  These steps hold n.mu.                                 *)

Closed == shutdown # "no"

StartWorker(items, tries) ==
  workers' = Append(workers, [phase |-> "ready", items |-> items, left |-> tries])

\* Bound: room for one more mail besides the buffered digest.
Room == Len(workers) + (IF pending = <<>> THEN 0 ELSE 1) < MaxWorkers

LetThrough(f) ==
  /\ ~Closed
  /\ ~Throttled(f)
  /\ lastSent' = clock
  /\ recent' = Remember(f)
  /\ granted' = [granted EXCEPT ![f] = clock]
  /\ owed' = [owed EXCEPT ![f] = @ + 1]
  /\ UNCHANGED <<clock, fired, shutdown, mailed, marked>>

\* A throttled or late call changes nothing and is not a step.
NotifyImmediately(f) ==
  /\ Digest = 0 /\ Room
  /\ LetThrough(f)
  /\ StartWorker(<<f>>, Attempts)
  /\ lastMail' = clock
  /\ UNCHANGED <<pending, timer>>

\* Mutant: the timer is armed by the second notification of a batch.
NotifyDigestLate(f) ==
  /\ Digest > 0
  /\ IF pending = <<>> THEN Room /\ clock + Window <= MaxTime ELSE Len(pending) < MaxWorkers
  /\ LetThrough(f)
  /\ pending' = Append(pending, f)
  /\ timer' = IF Len(pending) = 1 THEN clock + Window ELSE timer
  /\ UNCHANGED <<workers, lastMail>>

NotifyDigest(f) ==
  /\ Digest > 0
  /\ IF pending = <<>> THEN Room /\ clock + Window <= MaxTime ELSE Len(pending) < MaxWorkers
  /\ LetThrough(f)
  /\ pending' = Append(pending, f)
  /\ timer' = IF pending = <<>> THEN clock + Window ELSE timer
  /\ UNCHANGED <<workers, lastMail>>

NotifyNewError(f) == NotifyImmediately(f) \/ NotifyDigest(f)

\* Mutant: a resolved mail is accepted after Close.
NotifyResolvedLate ==
  /\ Room
  /\ StartWorker(<<>>, Attempts)
  /\ UNCHANGED <<clock, lastSent, recent, pending, timer, fired, shutdown, history>>

\* A resolved mail is retried like any other and marks nothing.
NotifyResolved ==
  /\ ~Closed /\ Room
  /\ StartWorker(<<>>, Attempts)
  /\ UNCHANGED <<clock, lastSent, recent, pending, timer, fired, shutdown, history>>

\* The test mail runs on its caller's goroutine, registered like a worker,
\* and makes one attempt.
SendTestEmail ==
  /\ ~Closed /\ Room
  /\ StartWorker(<<>>, 1)
  /\ UNCHANGED <<clock, lastSent, recent, pending, timer, fired, shutdown, history>>
-----------------------------------------------------------------------------
(* Digest timer                                                            *)

TimerFires ==
  /\ timer # Never /\ clock >= timer
  /\ ~fired
  /\ fired' = TRUE
  /\ UNCHANGED <<clock, lastSent, recent, pending, timer, workers, shutdown, history>>

\* Mutant: a digest that forgets to start its delivery.
DropPending ==
  /\ pending' = <<>>
  /\ timer' = Never
  /\ UNCHANGED <<workers, lastMail>>

\* Stop() cannot recall a goroutine that already started, so fired stays.
FlushPending ==
  /\ pending' = <<>>
  /\ timer' = Never
  /\ IF pending = <<>>
     THEN UNCHANGED <<workers, lastMail>>
     ELSE StartWorker(pending, Attempts) /\ lastMail' = clock

Flush ==
  /\ fired
  /\ fired' = FALSE
  /\ IF Closed THEN UNCHANGED <<pending, timer, workers, lastMail>> ELSE FlushPending
  /\ UNCHANGED <<clock, lastSent, recent, shutdown, mailed, marked, granted, owed>>
-----------------------------------------------------------------------------
(* Delivery goroutines                                                     *)

Cancelled == shutdown \in {"cancelled", "done"}

Become(i, phase, items, left) ==
  workers' = [workers EXCEPT ![i] = [phase |-> phase, items |-> items, left |-> left]]

Occurs(f, s) == \E i \in DOMAIN s : s[i] = f
Count(f, s) == Cardinality({i \in DOMAIN s : s[i] = f})
Settle(s) == owed' = [f \in Fingerprints |-> owed[f] - Count(f, s)]

\* Mutant: the fingerprints of a mail that was given up are marked.
AttemptFailsMarks(i) ==
  LET w == workers[i]
  IN IF w.left = 1 /\ w.items # <<>>
     THEN Become(i, "marking", w.items, 0) /\ UNCHANGED owed
     ELSE Become(i, "backoff", w.items, w.left - 1) /\ UNCHANGED owed

\* Mutant: the mail is retried for ever.
AttemptFailsForever(i) ==
  Become(i, "backoff", workers[i].items, workers[i].left) /\ UNCHANGED owed

\* An attempt failed: back off, or give the mail up after the last one.
AttemptFails(i) ==
  LET w == workers[i]
  IN IF w.left = 1
     THEN Become(i, "done", <<>>, 0) /\ Settle(w.items)
     ELSE Become(i, "backoff", w.items, w.left - 1) /\ UNCHANGED owed

\* deliver() checks the context before it dials.
BeginAttempt(i) ==
  /\ workers[i].phase = "ready"
  /\ IF Cancelled
     THEN AttemptFails(i)
     ELSE Become(i, "sending", workers[i].items, workers[i].left) /\ UNCHANGED owed
  /\ UNCHANGED <<clock, lastSent, recent, pending, timer, fired, shutdown>>
  /\ UNCHANGED <<mailed, marked, granted, lastMail>>

Accept(i) ==
  mailed' = mailed \cup {f \in Fingerprints : Occurs(f, workers[i].items)}

\* The server took the mail and the exchange completed.
DeliverySucceeds(i) ==
  /\ workers[i].phase = "sending"
  /\ Accept(i)
  /\ IF workers[i].items = <<>> THEN Become(i, "done", <<>>, 0)
                                ELSE Become(i, "marking", workers[i].items, 0)
  /\ UNCHANGED <<clock, lastSent, recent, pending, timer, fired, shutdown>>
  /\ UNCHANGED <<marked, granted, owed, lastMail>>

\* Refused, timed out, cancelled, or an answer lost after the server took the
\* mail: the last is retried as well and the recipient gets the mail twice.
DeliveryFails(i) ==
  /\ workers[i].phase = "sending"
  /\ AttemptFails(i)
  /\ Accept(i) \/ UNCHANGED mailed
  /\ UNCHANGED <<clock, lastSent, recent, pending, timer, fired, shutdown>>
  /\ UNCHANGED <<marked, granted, lastMail>>

\* The backoff timer and the context may both be ready: either branch runs.
BackoffEnds(i) ==
  LET w == workers[i]
  IN /\ w.phase = "backoff"
     /\ \/ Become(i, "ready", w.items, w.left) /\ UNCHANGED owed
        \/ Cancelled /\ Become(i, "done", <<>>, 0) /\ Settle(w.items)
     /\ UNCHANGED <<clock, lastSent, recent, pending, timer, fired, shutdown>>
     /\ UNCHANGED <<mailed, marked, granted, lastMail>>

\* onNotified for the next fingerprint of a delivered mail.
MarkNext(i) ==
  LET w == workers[i]
  IN /\ w.phase = "marking"
     /\ marked' = marked \cup {Head(w.items)}
     /\ Settle(<<Head(w.items)>>)
     /\ IF Len(w.items) = 1 THEN Become(i, "done", <<>>, 0)
                            ELSE Become(i, "marking", Tail(w.items), 0)
     /\ UNCHANGED <<clock, lastSent, recent, pending, timer, fired, shutdown>>
     /\ UNCHANGED <<mailed, granted, lastMail>>

WorkerStep(i) ==
  \/ BeginAttempt(i) \/ DeliverySucceeds(i) \/ DeliveryFails(i)
  \/ BackoffEnds(i) \/ MarkNext(i)
-----------------------------------------------------------------------------
(* Close                                                                   *)

Close ==
  /\ ~Closed
  /\ shutdown' = "draining"
  /\ FlushPending
  /\ UNCHANGED <<clock, lastSent, recent, fired, mailed, marked, granted, owed>>

\* Eight seconds are over.
DrainTimeout ==
  /\ shutdown = "draining"
  /\ shutdown' = "cancelled"
  /\ UNCHANGED <<clock, lastSent, recent, pending, timer, fired, workers, history>>

\* Mutant: a worker leaves the wait group before its callbacks.
AllSent == \A i \in DOMAIN workers : workers[i].phase \in {"marking", "done"}

\* n.workers.Wait()
AllDone == \A i \in DOMAIN workers : workers[i].phase = "done"

CloseReturns ==
  /\ shutdown \in {"draining", "cancelled"}
  /\ AllDone
  /\ shutdown' = "done"
  /\ UNCHANGED <<clock, lastSent, recent, pending, timer, fired, workers, history>>

Tick ==
  /\ clock < MaxTime
  /\ clock' = clock + 1
  /\ UNCHANGED <<state, history>>

Next ==
  \/ \E f \in Fingerprints : NotifyNewError(f)
  \/ NotifyResolved \/ SendTestEmail
  \/ TimerFires \/ Flush
  \/ \E i \in DOMAIN workers : WorkerStep(i)
  \/ Close \/ DrainTimeout \/ CloseReturns
  \/ Tick

Spec == Init /\ [][Next]_vars

\* Goroutines run, timers fire, attempts end (each is bounded by five
\* seconds) and the clock advances; nobody has to call the notifier.
Fairness ==
  /\ \A i \in 1 .. MaxWorkers : WF_vars(i \in DOMAIN workers /\ WorkerStep(i))
  /\ WF_vars(TimerFires) /\ WF_vars(Flush)
  /\ WF_vars(DrainTimeout) /\ WF_vars(CloseReturns)
  /\ WF_vars(Tick)
FairSpec == Spec /\ Fairness
-----------------------------------------------------------------------------
(* Properties                                                              *)

\* A group is recorded as notified only when the SMTP server took a mail that
\* names it.  (sendIndividual, sendDigest: markNotified after send.)
MarkedWasMailed == marked \subseteq mailed

\* Until Close, the digest timer is armed exactly while something is buffered,
\* and a late timer goroutine never meets a buffer that is not due.  (flush
\* reads the buffer without knowing which batch it was started for.)
TimerServesBuffer ==
  ~Closed => /\ pending = <<>> <=> timer = Never
             /\ fired => pending # <<>> /\ clock >= timer

\* Pruning the cooldown map never forgets a fingerprint that still has to be
\* held back.  (shouldNotify: the prune loop.)
CooldownRemembered ==
  \A f \in Fingerprints : Recently(granted[f]) => recent[f] = granted[f]

\* Two mails about new errors start at least Cooldown apart, in immediate and
\* in digest mode and however late the timer goroutine runs; only the final
\* flush of Close may come sooner.  (NotifyNewError: "Keep the batch window at
\* least as long as the global cooldown.")
StartsErrorMail ==
  /\ Len(workers') = Len(workers) + 1
  /\ workers'[Len(workers')].items # <<>>
MailsSpaced ==
  [][StartsErrorMail /\ shutdown' = "no" /\ lastMail # Never
       => clock - lastMail >= Cooldown]_vars

\* When Close has returned, every notification let through was either marked
\* or given up after its attempts: none is left in the buffer or in a worker.
\* (Close: "flushes buffered notifications, and joins all accepted
\* deliveries and callbacks".)
NothingOwedAfterClose ==
  shutdown = "done" => pending = <<>> /\ \A f \in Fingerprints : owed[f] = 0

\* After Close has returned no mail is sent and no callback reaches the
\* database, which runServe closes next.  (Close; runServe's defers.)
QuietAfterClose == [][shutdown = "done" => UNCHANGED <<workers, mailed, marked>>]_vars

\* Close returns, whatever the SMTP server does.  (Close: drain, cancel, join.)
CloseCompletes == Closed ~> shutdown = "done"

\* Every notification let through is settled, Close or no Close: it is not
\* stuck in the buffer, nor retried for ever.  (flush, send.)
NotificationsSettle == \A f \in Fingerprints : owed[f] > 0 ~> owed[f] = 0

\* The mailer as the rest of drillip sees it: buffer, timer and goroutines
\* together keep the promises of Mailer.
M == INSTANCE Mailer WITH
       MaxOwed <- MaxWorkers * (MaxWorkers + 1),
       mailer <- IF shutdown = "no" THEN "open"
                 ELSE IF shutdown = "done" THEN "closed" ELSE "closing"
ImplementsMailer == M!Spec
=============================================================================
